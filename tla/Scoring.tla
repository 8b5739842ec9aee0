------------------------------ MODULE Scoring ------------------------------
(***************************************************************************)
(* The deterministic part of Sub-Agent 2: which asset an issue belongs to  *)
(* and what its risk score and priority are.                               *)
(*                                                                         *)
(* The code computes with floating point numbers.  Here weights are        *)
(* percents, CVSS scores and base scores are tenths, the running product   *)
(* is in thousandths and truncated after each factor.  The names an asset  *)
(* or an issue is known by are pairs <<index, value>>.                     *)
(***************************************************************************)
EXTENDS Integers, FiniteSetsExt, SequencesExt, TLC

CONSTANT None    \* a NULL column

-----------------------------------------------------------------------------
(* Attribution. *)

(* Every index maps a key to the last asset of the table that has it.       *)
Owner(key, assets) ==
  LET having == {n \in DOMAIN assets : key \in assets[n].keys}
  IN  IF having = {} THEN None ELSE assets[Max(having)]

(* The keys of the issue are tried in order: project, repo, name, os, the  *)
(* package in its ecosystem, the package as an alias, host name, address.  *)
ResolveAsset(keys, assets) ==
  LET known == {n \in DOMAIN keys : Owner(keys[n], assets) # None}
  IN  IF known = {} THEN None ELSE Owner(keys[Min(known)], assets)

-----------------------------------------------------------------------------
(* The formula. *)

SeverityBase == [Critical |-> 95, High |-> 80, Medium |-> 55, Low |-> 20,
                 Info |-> 5]
EnvWeight == [production |-> 120, staging |-> 100, qa |-> 85,
              development |-> 80, sandbox |-> 70]
CriticalityWeight == <<90, 95, 100, 110, 120>>
DataWeight == [restricted |-> 120, confidential |-> 110, internal |-> 100,
               public |-> 90]
ExposureWeight == [public |-> 115, internal |-> 100]
VectorWeight == ("NETWORK" :> 120 @@ "ADJACENT" :> 110 @@ "LOCAL" :> 100
                 @@ "PHYSICAL" :> 90)
LikelihoodWeight == [High |-> 110, Medium |-> 100, Low |-> 95]
TacticBonus == ("initial-access" :> 8 @@ "execution" :> 5
                @@ "privilege-escalation" :> 5 @@ "lateral-movement" :> 4
                @@ "exfiltration" :> 4)

Weight(table, key) == IF key \in DOMAIN table THEN table[key] ELSE 100

(* A score of 0.0 counts as no score.                                       *)
Base(issue) ==
  IF issue.score \notin {None, 0} THEN issue.score
  ELSE IF issue.severity \in DOMAIN SeverityBase
       THEN SeverityBase[issue.severity] ELSE 50

AssetFactors(asset) ==
  IF asset = None THEN <<>>
  ELSE <<Weight(EnvWeight, asset.environment),
         Weight(CriticalityWeight, asset.criticality),
         Weight(DataWeight, asset.data),
         Weight(ExposureWeight, asset.exposure),
         100 + 5 * asset.tags>>

EpssFactor(epss) == 90 + (35 * (IF epss = None THEN 0 ELSE epss)) \div 100

TacticFactor(tactics) ==
  100 + MapThenSumSet(LAMBDA t : TacticBonus[t],
                      tactics \cap DOMAIN TacticBonus)

IssueFactors(issue) ==
  <<Weight(VectorWeight, issue.av),
    Weight(LikelihoodWeight, issue.mitre.likelihood),
    EpssFactor(issue.epss),
    TacticFactor(issue.mitre.tactics)>>

RawScore(issue, asset) ==
  FoldLeft(LAMBDA product, factor : (product * factor) \div 100,
           Base(issue) * 100,
           AssetFactors(asset) \o IssueFactors(issue))

KevFloor == 8500
Ceiling == 9900

(* derived_risk, 0 to 99: the floor, the clamp, one decimal, times ten.     *)
Risk(raw, kev) ==
  LET floored == IF kev /\ raw < KevFloor THEN KevFloor ELSE raw
      clamped == IF floored > Ceiling THEN Ceiling ELSE floored
  IN  (clamped + 50) \div 100

Priority(risk) ==
  CASE risk >= 90 -> "P0"
    [] risk >= 70 /\ risk < 90 -> "P1"
    [] risk >= 40 /\ risk < 70 -> "P2"
    [] risk < 40 -> "P3"

Compute(issue, asset) == Risk(RawScore(issue, asset), issue.kev)
=============================================================================

----------------------------- MODULE DemoSample -----------------------------
(***************************************************************************)
(* The sampler of the demo pipeline: which findings of the real run it     *)
(* copies.  A finding is a record of its id, scanner (source), rank (risk, *)
(* then severity), duplicate key (rule, resource, line) and family; the    *)
(* findings of a run are a sequence, in the order the database returns.    *)
(***************************************************************************)
EXTENDS Naturals, Sequences, FiniteSetsExt, SequencesExt

CONSTANTS
  Scoops,     \* per scanner <<source, n>>: how many findings to take
  Families,   \* the families, in the order of the fallback
  MaxSample   \* the hard cap on a sample

ASSUME SampleAssumption ==
  /\ IsInjective([i \in DOMAIN Scoops |-> Scoops[i][1]])
  /\ \A i \in DOMAIN Scoops : Scoops[i][2] \in Nat
  /\ MaxSample \in Nat

\* the -ec2 findings of one scanner, the riskiest first, as a stable sort
ByRank(s) ==
  FoldLeft(LAMBDA acc, f :
             LET above == SelectSeq(acc, LAMBDA g : g.rank >= f.rank)
                 below == SelectSeq(acc, LAMBDA g : g.rank < f.rank)
             IN above \o <<f>> \o below, <<>>, s)

\* one scanner's scoop: the n riskiest findings that repeat no key
Scoop_twins(picks, pool, source, n) ==
  picks \o
  FoldLeft(LAMBDA new, f : IF Len(new) < n THEN Append(new, f) ELSE new,
           <<>>, ByRank(SelectSeq(pool, LAMBDA f : f.source = source)))
Scoop(picks, pool, source, n) ==
  picks \o
  FoldLeft(LAMBDA new, f :
             IF /\ Len(new) < n
                /\ \A g \in ToSet(picks \o new) : g.key # f.key
             THEN Append(new, f) ELSE new,
           <<>>, ByRank(SelectSeq(pool, LAMBDA f : f.source = source)))

\* fewer than two picks: the riskiest finding of each family not covered
Fallback(picks, pool) ==
  IF Len(picks) >= 2 THEN picks
  ELSE FoldLeft(
         LAMBDA acc, fam :
           LET own == ByRank(SelectSeq(pool, LAMBDA f : f.family = fam))
           IN IF own = <<>> \/ \E f \in ToSet(picks) : f.family = fam
              THEN acc ELSE Append(acc, own[1]),
         picks, Families)

\* the sample; cap overrides every scanner's n when it is not 0
Sample(pool, cap) ==
  LET scooped == FoldLeft(LAMBDA picks, sc :
                            Scoop(picks, pool, sc[1],
                                  IF cap = 0 THEN sc[2] ELSE cap),
                          <<>>, Scoops)
      picks == Fallback(scooped, pool)
  IN SubSeq(picks, 1, Min({MaxSample, Len(picks)}))
=============================================================================

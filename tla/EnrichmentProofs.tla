-------------------------- MODULE EnrichmentProofs --------------------------
(* Theorems about the score of an issue, whatever its factors, about the    *)
(* refresh of the MITRE catalog, for any releases, and about the rows that  *)
(* the jobs of Sub-Agent 2 and of the repair endpoints leave, for any       *)
(* issues, jobs, answers and failures.                                      *)
EXTENDS Enrichment, TLAPS

CatalogTypes ==
  /\ released \in Nat
  /\ catalog \in [Cwes -> Nat]
  /\ log \in Seq([status : {"updated", "unchanged", "failed"}, of : Nat])
  /\ refresh \in [pc : {"idle", "upsert"}, of : Nat, left : SUBSET Cwes]
  /\ Good = {} \/ Max(Good) \in Good

\* The inductive invariant: what the log calls loaded is no newer than the
\* current release, and a refresh in progress brings a release at least as new
\* as that, of which it has stored all but the rows that are left.
CatalogInv ==
  /\ CatalogTypes
  /\ LastGood \in Nat /\ LastGood <= released
  /\ \A w \in Cwes : catalog[w] >= LastGood
  /\ refresh.pc = "upsert" =>
       /\ LastGood <= refresh.of /\ refresh.of <= released
       /\ \A w \in Cwes : w \in refresh.left \/ catalog[w] >= refresh.of
  /\ refresh.pc = "idle" => refresh.left = {}

-----------------------------------------------------------------------------
\* The last of the good lines after a good line is added is that line, and
\* after a failed one it is the one it was.
LEMMA GoodLine ==
  ASSUME NEW status \in {"updated", "unchanged", "failed"}, NEW of \in Nat,
         CatalogTypes, Log(status, of)
  PROVE  /\ log' \in Seq([status : {"updated", "unchanged", "failed"},
                          of : Nat])
         /\ Good' = {} \/ Max(Good') \in Good'
         /\ LastGood' = IF status = "failed" THEN LastGood ELSE of
  <1> DEFINE n == Len(log) + 1
  <1>0. [status |-> status, of |-> of]
          \in [status : {"updated", "unchanged", "failed"}, of : Nat]
    OBVIOUS
  <1>1. /\ DOMAIN log = 1 .. Len(log) /\ Len(log) \in Nat
        /\ DOMAIN log' = 1 .. n
        /\ \A k \in 1 .. Len(log) : log'[k] = log[k]
        /\ log'[n] = [status |-> status, of |-> of]
        /\ log' \in Seq([status : {"updated", "unchanged", "failed"},
                         of : Nat])
    BY <1>0 DEF CatalogTypes, Log, Entry
  <1> HIDE DEF n
  <1>2. n = Len(log) + 1 /\ n \notin DOMAIN log
    BY <1>1 DEF n
  <1>3. Good \subseteq 1 .. Len(log)
    BY <1>1 DEF Good
  <1>4. CASE status = "failed"
    <2>1. Good' = Good
      BY <1>1, <1>2, <1>4 DEF Good
    <2>2. Good # {} => log'[Max(Good)] = log[Max(Good)]
      BY <1>1, <1>3 DEF CatalogTypes
    <2> QED
      BY <1>1, <1>4, <2>1, <2>2 DEF LastGood, CatalogTypes
  <1>5. CASE status # "failed"
    <2>1. Good' = Good \union {n}
      BY <1>1, <1>2, <1>5 DEF Good
    <2>2. \A k \in Good' : k \in Int /\ n >= k
      BY <1>1, <1>2, <1>3, <2>1
    <2>3. Max(Good') = n
      BY <1>1, <1>2, <2>1, <2>2 DEF Max
    <2> QED
      BY <1>1, <1>5, <2>1, <2>3 DEF LastGood
  <1> QED
    BY <1>4, <1>5

\* A step that leaves the log alone leaves the last good line alone.
LEMMA SameLine ==
  ASSUME UNCHANGED log
  PROVE  LastGood' = LastGood /\ Good' = Good
  BY DEF LastGood, Good

\* A step that leaves the catalog and its refresh alone keeps the invariant.
LEMMA OutsideKeeps ==
  ASSUME CatalogInv, UNCHANGED <<catalog, log, refresh>>,
         released' \in Nat, released' >= released
  PROVE  CatalogInv'
  <1>1. CatalogTypes'
    BY SameLine DEF CatalogInv, CatalogTypes
  <1>2. LastGood' = LastGood /\ LastGood \in Nat /\ released \in Nat
        /\ refresh.of \in Nat
    BY SameLine DEF CatalogInv, CatalogTypes
  <1> QED
    BY <1>1, <1>2 DEF CatalogInv

-----------------------------------------------------------------------------
LEMMA CatalogInit == Init => CatalogInv
  <1> SUFFICES ASSUME Init PROVE CatalogInv
    OBVIOUS
  <1>1. released = 1 /\ refresh = [pc |-> "idle", of |-> 0, left |-> {}]
    BY DEF Init, NoRefresh
  <1>2. CASE catalog = [w \in Cwes |-> 0] /\ log = <<>>
    <2>1. Good = {}
      BY <1>2 DEF Good
    <2> QED
      BY <1>1, <1>2, <2>1 DEF CatalogInv, CatalogTypes, LastGood
  <1>3. CASE catalog = [w \in Cwes |-> 1] /\ log = <<Entry("updated", 1)>>
    <2>1. DOMAIN log = {1} /\ log[1] = [status |-> "updated", of |-> 1]
          /\ log \in Seq([status : {"updated", "unchanged", "failed"}, of : Nat])
      BY <1>3 DEF Entry
    <2>2. Good = {1}
      BY <2>1 DEF Good
    <2>3. Max(Good) = 1
      BY <2>2 DEF Max
    <2>4. LastGood = 1
      BY <2>1, <2>2, <2>3 DEF LastGood
    <2> QED
      BY <1>1, <1>3, <2>1, <2>2, <2>3, <2>4 DEF CatalogInv, CatalogTypes
  <1> QED
    BY <1>2, <1>3 DEF Init

LEMMA StartStep ==
  ASSUME CatalogInv,
         NEW result \in {"download", "same", "parse", "new"},
         RefreshStart(result)
  PROVE  CatalogInv'
  <1>1. /\ refresh.pc = "idle" /\ refresh.left = {}
        /\ UNCHANGED <<released, catalog>>
        /\ released \in Nat /\ LastGood \in Nat
    BY DEF RefreshStart, CatalogInv, CatalogTypes
  <1>2. CASE Log("failed", 0) /\ UNCHANGED refresh
    <2>1. CatalogTypes' /\ LastGood' = LastGood
      BY <1>1, <1>2, GoodLine DEF CatalogInv, CatalogTypes
    <2> QED
      BY <1>1, <1>2, <2>1 DEF CatalogInv
  <1>3. CASE LastGood = released /\ Log("unchanged", released)
             /\ UNCHANGED refresh
    <2>1. CatalogTypes' /\ LastGood' = LastGood
      BY <1>1, <1>3, GoodLine DEF CatalogInv, CatalogTypes
    <2> QED
      BY <1>1, <1>3, <2>1 DEF CatalogInv
  <1>4. CASE Log("failed", released) /\ UNCHANGED refresh
    <2>1. CatalogTypes' /\ LastGood' = LastGood
      BY <1>1, <1>4, GoodLine DEF CatalogInv, CatalogTypes
    <2> QED
      BY <1>1, <1>4, <2>1 DEF CatalogInv
  <1>5. CASE /\ UNCHANGED log
             /\ refresh' = [pc |-> "upsert", of |-> released, left |-> Cwes]
    <2>1. CatalogTypes' /\ LastGood' = LastGood
      BY <1>1, <1>5, SameLine DEF CatalogInv, CatalogTypes
    <2> QED
      BY <1>1, <1>5, <2>1 DEF CatalogInv
  <1> QED
    BY <1>2, <1>3, <1>4, <1>5 DEF RefreshStart

LEMMA UpsertStep ==
  ASSUME CatalogInv, NEW w \in Cwes, UpsertBatch(w)
  PROVE  CatalogInv'
  <1>1. /\ w \in refresh.left /\ UNCHANGED <<released, log>>
        /\ refresh.pc = "upsert" /\ refresh.of \in Nat /\ LastGood \in Nat
        /\ LastGood <= refresh.of
    BY DEF UpsertBatch, CatalogInv, CatalogTypes
  <1>2. CASE /\ catalog' = [catalog EXCEPT ![w] = refresh.of]
             /\ refresh' = [refresh EXCEPT !.left = @ \ {w}]
    <2>1. CatalogTypes' /\ LastGood' = LastGood
      BY <1>1, <1>2, SameLine DEF CatalogInv, CatalogTypes
    <2>2. /\ refresh'.pc = "upsert" /\ refresh'.of = refresh.of
          /\ refresh'.left = refresh.left \ {w}
          /\ \A v \in Cwes : catalog'[v] = IF v = w THEN refresh.of
                                           ELSE catalog[v]
      BY <1>1, <1>2 DEF CatalogInv, CatalogTypes
    <2> QED
      BY <1>1, <2>1, <2>2 DEF CatalogInv
  <1>3. CASE refresh' = NoRefresh /\ UNCHANGED catalog
    <2>1. CatalogTypes' /\ LastGood' = LastGood
      BY <1>1, <1>3, SameLine DEF CatalogInv, CatalogTypes, NoRefresh
    <2> QED
      BY <1>1, <1>3, <2>1 DEF CatalogInv, NoRefresh
  <1> QED
    BY <1>2, <1>3 DEF UpsertBatch

LEMMA DoneStep ==
  ASSUME CatalogInv, RefreshDone
  PROVE  CatalogInv'
  <1>1. /\ refresh.pc = "upsert" /\ refresh.left = {} /\ refresh' = NoRefresh
        /\ UNCHANGED <<released, catalog>>
        /\ refresh.of \in Nat /\ refresh.of <= released
        /\ \A w \in Cwes : catalog[w] >= refresh.of
    BY DEF RefreshDone, CatalogInv, CatalogTypes
  <1>2. CASE Log("updated", refresh.of)
    <2>1. CatalogTypes' /\ LastGood' = refresh.of
      BY <1>1, <1>2, GoodLine DEF CatalogInv, CatalogTypes, NoRefresh
    <2> QED
      BY <1>1, <2>1 DEF CatalogInv, NoRefresh
  <1>3. CASE UNCHANGED log
    <2>1. CatalogTypes' /\ LastGood' = LastGood
      BY <1>1, <1>3, SameLine DEF CatalogInv, CatalogTypes, NoRefresh
    <2> QED
      BY <1>1, <1>3, <2>1 DEF CatalogInv, NoRefresh
  <1> QED
    BY <1>2, <1>3 DEF RefreshDone

LEMMA CatalogStep ==
  ASSUME CatalogInv, [Next]_vars
  PROVE  CatalogInv'
  <1>1. ASSUME NEW c \in Cves, Publish(c) \/ Sync(c)
        PROVE  CatalogInv'
    BY <1>1, OutsideKeeps DEF Publish, Sync, mitre, CatalogInv, CatalogTypes
  <1>2. CASE Release
    BY <1>2, OutsideKeeps DEF Release, CatalogInv, CatalogTypes
  <1>3. CASE RefreshDone
    BY <1>3, DoneStep
  <1>4. ASSUME NEW result \in {"download", "same", "parse", "new"},
               RefreshStart(result)
        PROVE  CatalogInv'
    BY <1>4, StartStep
  <1>5. ASSUME NEW w \in Cwes, UpsertBatch(w)
        PROVE  CatalogInv'
    BY <1>5, UpsertStep
  <1>6. CASE UNCHANGED mitre
    BY <1>6, OutsideKeeps DEF mitre, CatalogInv, CatalogTypes
  <1>7. ASSUME NEW s \in Slots,
               \/ \E run \in Runs : Enrich(s, run)
               \/ \E kind \in Kinds : Endpoint(s, kind)
               \/ Lookup(s) \/ Ask(s) \/ WriteBack(s) \/ Catalogs(s)
               \/ \E i \in Issues : Write(s, i) \/ Pass(s, i)
        PROVE  UNCHANGED mitre
    BY <1>7
    DEF Enrich, Endpoint, Lookup, Ask, WriteBack, Catalogs, Write, Pass, mitre
  <1>8. CASE UNCHANGED vars
    BY <1>6, <1>8 DEF vars
  <1> QED
    BY <1>1, <1>2, <1>3, <1>4, <1>5, <1>6, <1>7, <1>8 DEF Next

\* What a refresh has reported as loaded, or as unchanged, is in the catalog to
\* the last row, however many releases, refreshes and failures there are.
THEOREM NothingHidden == Spec => []CatalogWhole
  <1>1. CatalogInv => CatalogWhole
    BY DEF CatalogInv, CatalogWhole
  <1> QED
    BY <1>1, CatalogInit, CatalogStep, PTL DEF Spec

-----------------------------------------------------------------------------
(* The last steps of the score: from the product to the priority.           *)

(* The score shown is between 0 and 99: _compute_score clamps it on        *)
(* purpose below 100.                                                       *)
THEOREM RiskBounded ==
  ASSUME NEW raw \in Nat, NEW kev \in BOOLEAN
  PROVE  Risk(raw, kev) \in 0 .. 99
<1>1. CASE kev /\ raw < KevFloor
  BY <1>1 DEF Risk, KevFloor, Ceiling
<1>2. CASE ~(kev /\ raw < KevFloor)
  <2>1. CASE raw > Ceiling
    BY <1>2, <2>1 DEF Risk, Ceiling
  <2>2. CASE ~(raw > Ceiling)
    BY <1>2, <2>2 DEF Risk, Ceiling
  <2> QED BY <2>1, <2>2
<1> QED BY <1>1, <1>2

(* A finding on CISA's list is P0 or P1, however its asset and its factors *)
(* pull the score down ("== priority P1+").                                 *)
THEOREM KevUrgent ==
  ASSUME NEW raw \in Nat
  PROVE  Priority(Risk(raw, TRUE)) \in {"P0", "P1"}
<1>1. Risk(raw, TRUE) \in Nat /\ Risk(raw, TRUE) >= 70
  <2>1. CASE raw < KevFloor
    BY <2>1 DEF Risk, KevFloor, Ceiling
  <2>2. CASE ~(raw < KevFloor) /\ raw > Ceiling
    BY <2>2 DEF Risk, KevFloor, Ceiling
  <2>3. CASE ~(raw < KevFloor) /\ ~(raw > Ceiling)
    BY <2>3 DEF Risk, KevFloor, Ceiling
  <2> QED BY <2>1, <2>2, <2>3
<1>2. ASSUME NEW r \in Nat, r >= 70
      PROVE  Priority(r) \in {"P0", "P1"}
  <2>1. CASE r >= 90
    BY <2>1 DEF Priority
  <2>2. CASE r < 90
    BY <1>2, <2>2 DEF Priority
  <2> QED BY <2>1, <2>2
<1> QED BY <1>1, <1>2

(* The rank of a priority, P0 being the most urgent.                        *)
Rank(priority) ==
  CASE priority = "P0" -> 0 [] priority = "P1" -> 1
    [] priority = "P2" -> 2 [] priority = "P3" -> 3

(* Rounding comes before the bands, so no finding is more urgent than one   *)
(* with a greater product, and being on CISA's list never makes it less so. *)
THEOREM RiskMonotone ==
  ASSUME NEW low \in Nat, NEW high \in Nat, low <= high,
         NEW kev \in BOOLEAN
  PROVE  /\ Risk(low, FALSE) <= Risk(high, kev)
         /\ Rank(Priority(Risk(high, kev))) <= Rank(Priority(Risk(low, FALSE)))
<1> DEFINE r == Risk(low, FALSE)
           t == Risk(high, kev)
           clamp(n) == IF n > Ceiling THEN Ceiling ELSE n
           floored == IF kev /\ high < KevFloor THEN KevFloor ELSE high
<1>1. r \in Nat /\ t \in Nat
  <2>1. r \in 0 .. 99
    BY RiskBounded
  <2>2. t \in 0 .. 99
    BY RiskBounded
  <2> HIDE DEF r, t
  <2> QED BY <2>1, <2>2
<1>2. r <= t
  <2>1. floored \in Nat /\ low <= floored
    BY DEF KevFloor
  <2>2. clamp(low) \in Nat /\ clamp(floored) \in Nat
        /\ clamp(low) <= clamp(floored)
    <3> HIDE DEF floored
    <3> QED BY <2>1 DEF Ceiling
  <2>3. r = (clamp(low) + 50) \div 100 /\ t = (clamp(floored) + 50) \div 100
    BY DEF Risk
  <2> HIDE DEF clamp, floored, r, t
  <2>4. ASSUME NEW m \in Nat, NEW n \in Nat, m <= n
        PROVE  (m + 50) \div 100 <= (n + 50) \div 100
    BY <2>4
  <2> QED BY <2>2, <2>3, <2>4
<1>3. Rank(Priority(t)) <= Rank(Priority(r))
  <2> HIDE DEF r, t
  <2>1. CASE t >= 90
    <3>1. Priority(t) = "P0"
      BY <1>1, <2>1 DEF Priority
    <3>2. Priority(r) \in {"P0", "P1", "P2", "P3"}
      BY <1>1 DEF Priority
    <3> QED BY <3>1, <3>2 DEF Rank
  <2>2. CASE t >= 70 /\ t < 90
    <3>1. Priority(t) = "P1"
      BY <1>1, <2>2 DEF Priority
    <3>2. Priority(r) \in {"P1", "P2", "P3"}
      BY <1>1, <1>2, <2>2 DEF Priority
    <3> QED BY <3>1, <3>2 DEF Rank
  <2>3. CASE t >= 40 /\ t < 70
    <3>1. Priority(t) = "P2"
      BY <1>1, <2>3 DEF Priority
    <3>2. Priority(r) \in {"P2", "P3"}
      BY <1>1, <1>2, <2>3 DEF Priority
    <3> QED BY <3>1, <3>2 DEF Rank
  <2>4. CASE t < 40
    <3>1. Priority(t) = "P3" /\ Priority(r) = "P3"
      BY <1>1, <1>2, <2>4 DEF Priority
    <3> QED BY <3>1 DEF Rank
  <2> QED BY <1>1, <2>1, <2>2, <2>3, <2>4
<1> QED BY <1>2, <1>3

-----------------------------------------------------------------------------
(* The rows an issue's writers leave.                                       *)

Columns == {"severity", "score", "version", "vector", "cwe", "av", "mitre",
            "epss", "kev", "asset", "risk"}

RowOK(row) ==
  /\ DOMAIN row = Columns
  /\ row.version \in {None} \cup Ranks /\ row.vector \in {None} \cup Ranks

AnswerOK(d) ==
  /\ DOMAIN d = DOMAIN Blank
  /\ d.version \in {None} \cup Ranks /\ d.vector \in {None} \cup Ranks

\* the numbers of a CVE's records, with 0 for none
Numbers(c) == 0 .. Len(Nvd[c])

\* A job and the current rows: a row of the job that no other job has written
\* since it was read is still what was read, and a retry reads rows without an
\* attack vector.
JobOK(job, current) ==
  /\ DOMAIN job = DOMAIN NoJob
  /\ job.kind \in EndpointKinds \cup {"enrich", "none"}
  /\ job.kind = "none" => job.left = {}
  /\ DOMAIN job.snap \subseteq Issues /\ job.left \subseteq DOMAIN job.snap
  /\ \A i \in job.left :
       /\ RowOK(job.snap[i])
       /\ job.kind = "retry" => job.snap[i].av = None
       /\ i \in job.clean => job.snap[i] = current[i]
  /\ \A c \in DOMAIN job.data : AnswerOK(job.data[c])
  /\ \A c \in DOMAIN job.raw : c \in Cves /\ job.raw[c] \in Numbers(c)

ServicesOK ==
  /\ nvd \in [Cves -> Nat] /\ table \in [Cves -> Nat]
  /\ \A c \in Cves : nvd[c] \in Numbers(c) /\ table[c] \in Numbers(c)

WriterInv ==
  /\ DOMAIN rows = Issues /\ \A i \in Issues : RowOK(rows[i])
  /\ ServicesOK
  /\ DOMAIN jobs = Slots /\ \A s \in Slots : JobOK(jobs[s], rows)
  /\ ScoreCurrent

\* The score depends on six columns and the asset.
LEMMA SameFactors ==
  ASSUME NEW x, NEW y, NEW asset,
         x.score = y.score, x.severity = y.severity, x.av = y.av,
         x.mitre = y.mitre, x.epss = y.epss, x.kev = y.kev
  PROVE  Compute(x, asset) = Compute(y, asset)
<1>1. Base(x) = Base(y)
  BY DEF Base
<1>2. IssueFactors(x) = IssueFactors(y)
  BY DEF IssueFactors
<1> QED
  BY <1>1, <1>2 DEF Compute, RawScore

LEMMA NoJobOK == ASSUME NEW current PROVE JobOK(NoJob, current)
BY DEF JobOK, NoJob

LEMMA RecordOK ==
  ASSUME NEW c \in Cves, NEW n \in Numbers(c), n # 0
  PROVE  AnswerOK(Direct(Nvd[c][n])) /\ AnswerOK(Cached(Nvd[c][n]))
<1>1. /\ Nvd[c][n].version \in {None} \cup Ranks
      /\ Nvd[c][n].vector \in {None} \cup Ranks
  <2>1. n \in 1 .. Len(Nvd[c])
    BY EnrichmentAssumption DEF Numbers
  <2>2. Nvd[c] \in Seq(NvdRecord)
    BY EnrichmentAssumption
  <2>3. Nvd[c][n] \in NvdRecord
    BY <2>1, <2>2
  <2> QED BY <2>3 DEF NvdRecord
<1>2. DOMAIN Blank = {"score", "version", "vector", "av", "cwe"}
      /\ Blank.version = None /\ Blank.vector = None
  BY DEF Blank
<1>3. AnswerOK(Direct(Nvd[c][n]))
  <2> DEFINE cwe == IF Nvd[c][n].cwe = "NVD-CWE-noinfo" THEN None ELSE Nvd[c][n].cwe
  <2>1. AnswerOK([Blank EXCEPT !.cwe = cwe])
    BY <1>2 DEF AnswerOK
  <2>2. AnswerOK([f \in DOMAIN Blank |-> IF f = "cwe" THEN cwe ELSE Nvd[c][n][f]])
    BY <1>1, <1>2 DEF AnswerOK
  <2> HIDE DEF cwe
  <2> QED BY <2>1, <2>2 DEF Direct, cwe
<1>4. AnswerOK(Cached(Nvd[c][n]))
  BY <1>1, <1>2 DEF AnswerOK, Cached, Ranks
<1> QED BY <1>3, <1>4

\* What the jobs write is a row ...
LEMMA BestRank ==
  ASSUME NEW V, V \subseteq Ranks
  PROVE  BestOf(V) \in {None} \cup Ranks
<1>1. CASE V = {}
  BY <1>1 DEF BestOf
<1>2. CASE V # {}
  <2>1. \E x \in V : \A y \in V : x >= y
    <3>1. CASE 4 \in V
      BY <3>1 DEF Ranks
    <3>2. CASE 4 \notin V /\ 3 \in V
      BY <3>2 DEF Ranks
    <3>3. CASE 4 \notin V /\ 3 \notin V /\ 2 \in V
      BY <3>3 DEF Ranks
    <3>4. CASE 4 \notin V /\ 3 \notin V /\ 2 \notin V
      <4>1. PICK x \in V : TRUE
        BY <1>2
      <4>2. \A y \in V : y = 1
        BY <3>4 DEF Ranks
      <4> QED BY <4>1, <4>2
    <3> QED BY <3>1, <3>2, <3>3, <3>4
  <2>2. Max(V) \in V
    BY <2>1 DEF Max
  <2> QED BY <1>2, <2>2 DEF BestOf
<1> QED BY <1>1, <1>2

LEMMA WrittenOK ==
  ASSUME WriterInv, NEW s \in Slots, NEW i \in jobs[s].left, ~Skips(jobs[s], i)
  PROVE  i \in Issues /\ RowOK(Written(jobs[s], i))
<1> DEFINE job == jobs[s]
           now == rows[i]
           r == job.snap[i]
<1>1. /\ i \in Issues /\ RowOK(now) /\ RowOK(r)
      /\ job.kind \in EndpointKinds \cup {"enrich"}
      /\ \A c \in DOMAIN job.data : AnswerOK(job.data[c])
  BY DEF WriterInv, JobOK
<1> HIDE DEF job, now, r
<1>2. CASE job.kind = "enrich"
  <2>1. RowOK(EnrichedRow(now, r, job, i))
    BY <1>1 DEF EnrichedRow, RowOK, Columns
  <2> QED BY <1>1, <1>2, <2>1 DEF Written, job, now, r
<1>3. CASE job.kind = "rescore"
  <2>1. RowOK(RescoredRow(now, r, job, i))
    BY <1>1 DEF RescoredRow, RowOK, Columns
  <2> QED BY <1>1, <1>3, <2>1 DEF Written, job, now, r
<1>4. CASE job.kind = "retry"
  <2>1. Given[i].cve \in DOMAIN job.data
    BY <1>4 DEF Skips, job
  <2>2. RowOK(RetriedRow(now, r, job, i))
    BY <1>1, <2>1 DEF RetriedRow, RowOK, Columns, AnswerOK, Fill
  <2> QED BY <1>1, <1>4, <2>2 DEF Written, job, now, r
<1>5. CASE job.kind = "reenrich"
  <2>1. Given[i].cve \in DOMAIN job.data
    BY <1>5 DEF Skips, job
  <2>2. RowOK(ReenrichedRow(now, r, job, i))
    BY <1>1, <2>1 DEF ReenrichedRow, RowOK, Columns, AnswerOK
  <2> QED BY <1>1, <1>5, <2>2 DEF Written, job, now, r
<1>6. CASE job.kind = "backfill"
  <2>1. i \in DOMAIN RawVectors => BestOf(RawVectors[i]) \in {None} \cup Ranks
    BY BestRank, EnrichmentAssumption
  <2>2. RowOK(BackfilledRow(now, r, i))
    BY <1>1, <2>1 DEF BackfilledRow, RowOK, Columns, Fill
  <2> QED BY <1>1, <1>6, <2>2 DEF Written, job, now, r
<1>7. CASE job.kind = "upgrade"
  <2> DEFINE best == BestOf(RawVectors[i] \cup ({r.vector} \ {None}))
  <2>1. i \in DOMAIN RawVectors => best \in {None} \cup Ranks
    BY <1>1, BestRank, EnrichmentAssumption DEF RowOK
  <2> HIDE DEF best
  <2>2. RowOK(UpgradedRow(now, r, i))
    BY <1>1, <2>1 DEF UpgradedRow, RowOK, Columns, best
  <2> QED BY <1>1, <1>7, <2>2 DEF Written, job, now, r
<1> QED
  BY <1>1, <1>2, <1>3, <1>4, <1>5, <1>6, <1>7 DEF EndpointKinds

\* ... whose score is that of its own columns when the job scores and has read
\* the row it overwrites.
LEMMA ScoredRow ==
  ASSUME WriterInv, NEW s \in Slots, NEW i \in jobs[s].left, i \in jobs[s].clean,
         Scores(jobs[s].kind)
  PROVE  LET new == Written(jobs[s], i)
         IN  new.risk = Compute(new, new.asset)
<1> DEFINE job == jobs[s]
           r == rows[i]
           asset == ResolveAsset(Given[i].keys, job.assets)
<1>1. /\ job.snap[i] = r /\ DOMAIN r = Columns
  BY DEF WriterInv, JobOK, RowOK
<1> HIDE DEF job, r, asset
<1>2. ASSUME NEW x, DOMAIN x = Columns
      PROVE  /\ Compute([x EXCEPT !.risk = Compute(x, asset)], asset)
                  = Compute(x, asset)
             /\ [x EXCEPT !.risk = Compute(x, asset)].risk = Compute(x, asset)
             /\ [x EXCEPT !.risk = Compute(x, asset)].asset = x.asset
  <2> DEFINE risk == Compute(x, asset)
             y == [x EXCEPT !.risk = risk]
  <2>1. /\ y.score = x.score /\ y.severity = x.severity /\ y.av = x.av
        /\ y.mitre = x.mitre /\ y.epss = x.epss /\ y.kev = x.kev
        /\ y.risk = risk /\ y.asset = x.asset
    <3> HIDE DEF risk
    <3> QED BY <1>2 DEF Columns
  <2> HIDE DEF y
  <2>2. Compute(y, asset) = Compute(x, asset)
    BY <2>1, SameFactors
  <2> QED BY <2>1, <2>2 DEF y
<1>3. CASE job.kind = "enrich"
  <2> DEFINE cve == Given[i].cve
             nvdData == Known(job.data, cve, Blank)
             cwe == Fill(nvdData.cwe, r.cwe)
             full == [r EXCEPT !.epss = IF cve \in job.epss THEN EpssOf[cve]
                                        ELSE None,
                               !.kev = cve \in job.kev, !.cwe = cwe,
                               !.av = nvdData.av, !.asset = asset,
                               !.mitre = Known(job.chain, cwe, NoChain)]
  <2>1. DOMAIN full = Columns /\ full.asset = asset
    BY <1>1 DEF Columns
  <2>2. Written(job, i) = [full EXCEPT !.risk = Compute(full, asset)]
    BY <1>1, <1>3 DEF Written, EnrichedRow, r, asset
  <2> HIDE DEF full
  <2> QED BY <1>2, <2>1, <2>2 DEF job
<1>4. CASE job.kind = "rescore"
  <2> DEFINE full == [r EXCEPT !.asset = asset]
  <2>1. /\ DOMAIN full = Columns /\ full.asset = asset
        /\ full.score = r.score /\ full.severity = r.severity /\ full.av = r.av
        /\ full.mitre = r.mitre /\ full.epss = r.epss /\ full.kev = r.kev
    BY <1>1 DEF Columns
  <2>2. Written(job, i) = [full EXCEPT !.risk = Compute(r, asset)]
    BY <1>1, <1>4 DEF Written, RescoredRow, r, asset
  <2> HIDE DEF full
  <2>3. Compute(r, asset) = Compute(full, asset)
    BY <2>1, SameFactors
  <2> QED BY <1>2, <2>1, <2>2, <2>3 DEF job
<1>5. CASE job.kind = "retry"
  <2> DEFINE d == job.data[Given[i].cve]
             cwe == Fill(d.cwe, r.cwe)
             full == [r EXCEPT !.score = Or(d.score, r.score),
                               !.version = Fill(d.version, r.version),
                               !.vector = Fill(d.vector, r.vector),
                               !.av = d.av, !.cwe = cwe,
                               !.mitre = Known(job.chain, cwe, NoChain),
                               !.asset = asset]
  <2>1. DOMAIN full = Columns /\ full.asset = asset
    BY <1>1 DEF Columns
  <2>2. Written(job, i) = [full EXCEPT !.risk = Compute(full, asset)]
    BY <1>1, <1>5 DEF Written, RetriedRow, r, asset
  <2> HIDE DEF full
  <2> QED BY <1>2, <2>1, <2>2 DEF job
<1> QED BY <1>3, <1>4, <1>5 DEF Scores, job

-----------------------------------------------------------------------------
(* The jobs keep it. *)

LEMMA WriterInit == Init => WriterInv
<1> SUFFICES ASSUME Init PROVE WriterInv
  OBVIOUS
<1>1. DOMAIN rows = Issues /\ \A i \in Issues : RowOK(rows[i])
  BY EnrichmentAssumption DEF Init, RowOK, Columns
<1>2. ServicesOK
  <2>1. nvd \in [Cves -> Versions] /\ \A c \in Cves : nvd[c] <= Len(Nvd[c])
    BY DEF Init
  <2>2. ASSUME NEW c \in Cves PROVE Len(Nvd[c]) \in Nat
    BY EnrichmentAssumption
  <2>3. nvd \in [Cves -> Nat] /\ \A c \in Cves : nvd[c] \in Numbers(c)
    <3>1. ASSUME NEW c \in Cves PROVE nvd[c] \in Numbers(c) /\ nvd[c] \in Nat
      <4>1. PICK d \in Cves : nvd[c] \in 0 .. Len(Nvd[d])
        BY <2>1 DEF Versions
      <4> QED BY <2>1, <2>2, <4>1 DEF Numbers
    <3> QED BY <2>1, <3>1
  <2>4. table = nvd \/ table = [c \in Cves |-> 0]
    BY DEF Init
  <2>5. table \in [Cves -> Nat] /\ \A c \in Cves : table[c] \in Numbers(c)
    BY <2>2, <2>3, <2>4 DEF Numbers
  <2> QED BY <2>3, <2>5 DEF ServicesOK
<1>3. DOMAIN jobs = Slots /\ \A s \in Slots : JobOK(jobs[s], rows)
  BY NoJobOK DEF Init
<1>4. ScoreCurrent
  BY DEF Init, ScoreCurrent
<1> QED BY <1>1, <1>2, <1>3, <1>4 DEF WriterInv

LEMMA JobMoves ==
  ASSUME WriterInv, NEW s \in Slots, NEW job, JobOK(job, rows),
         jobs' = [jobs EXCEPT ![s] = job], UNCHANGED <<rows, stale>>, ServicesOK'
  PROVE  WriterInv'
BY DEF WriterInv, ScoreCurrent

\* A job that goes on with what it has read, or with fewer rows to write.
LEMMA GoesOn ==
  ASSUME NEW current, NEW job, JobOK(job, current), NEW new,
         DOMAIN new = DOMAIN NoJob, new.kind = job.kind, new.snap = job.snap,
         new.left \subseteq job.left, new.clean = job.clean,
         \A c \in DOMAIN new.data : AnswerOK(new.data[c]),
         \A c \in DOMAIN new.raw : c \in Cves /\ new.raw[c] \in Numbers(c)
  PROVE  JobOK(new, current)
BY DEF JobOK

LEMMA AskedOnlyCves ==
  ASSUME NEW current, NEW job, JobOK(job, current)
  PROVE  CvesOf(job) \subseteq Cves
BY EnrichmentAssumption DEF JobOK, CvesOf

LEMMA BeginStep ==
  ASSUME WriterInv, NEW s \in Slots, NEW kind \in EndpointKinds \cup {"enrich"},
         NEW run \in SUBSET Issues, Begin(s, kind, run), UNCHANGED <<rows, stale>>,
         ServicesOK'
  PROVE  WriterInv'
<1> DEFINE loaded == Selected(kind, run)
<1>1. loaded \subseteq Issues
      /\ (kind = "retry" => \A i \in loaded : rows[i].av = None)
  <2>1. CASE kind = "enrich"
    BY <2>1 DEF Selected
  <2>2. CASE kind = "retry"
    BY <2>2 DEF Selected
  <2>3. CASE kind = "reenrich"
    BY <2>3 DEF Selected
  <2>4. CASE kind \in {"rescore", "backfill", "upgrade"}
    BY <2>4 DEF Selected
  <2> QED BY <2>1, <2>2, <2>3, <2>4 DEF EndpointKinds
<1>2. PICK assets :
        jobs' = [jobs EXCEPT ![s] =
                   [NoJob EXCEPT !.kind = kind, !.pc = FirstStep(kind),
                                 !.snap = [i \in loaded |-> rows[i]],
                                 !.assets = assets, !.left = loaded,
                                 !.clean = loaded]]
  BY DEF Begin
<1> HIDE DEF loaded
<1> DEFINE job == [NoJob EXCEPT !.kind = kind, !.pc = FirstStep(kind),
                                !.snap = [i \in loaded |-> rows[i]],
                                !.assets = assets, !.left = loaded,
                                !.clean = loaded]
<1>3. /\ DOMAIN job = DOMAIN NoJob /\ job.kind = kind
      /\ job.snap = [i \in loaded |-> rows[i]] /\ job.left = loaded
      /\ DOMAIN job.data = {} /\ DOMAIN job.raw = {}
  BY DEF NoJob
<1> HIDE DEF job
<1>4. JobOK(job, rows)
  BY <1>1, <1>3 DEF JobOK, WriterInv, EndpointKinds
<1> QED BY <1>2, <1>4, JobMoves DEF job

LEMMA LookupStep ==
  ASSUME WriterInv, NEW s \in Slots, Lookup(s)
  PROVE  WriterInv'
<1>1. PICK hits : /\ hits \subseteq {c \in CvesOf(jobs[s]) : table[c] # 0}
                  /\ jobs' = [jobs EXCEPT ![s] =
                       [jobs[s] EXCEPT !.pc = "ask",
                          !.data = [c \in hits |-> Cached(Nvd[c][table[c]])]]]
                  /\ UNCHANGED <<rows, nvd, table, stale>>
  BY DEF Lookup, Step
<1> DEFINE data == [c \in hits |-> Cached(Nvd[c][table[c]])]
           new == [jobs[s] EXCEPT !.pc = "ask", !.data = data]
<1>2. JobOK(jobs[s], rows) /\ ServicesOK
  BY DEF WriterInv
<1>3. ASSUME NEW c \in DOMAIN data PROVE AnswerOK(data[c])
  <2>1. c \in Cves /\ table[c] \in Numbers(c) /\ table[c] # 0
    BY <1>1, <1>2, AskedOnlyCves DEF ServicesOK
  <2> QED BY <2>1, RecordOK
<1> HIDE DEF data
<1>4. /\ DOMAIN new = DOMAIN NoJob /\ new.kind = jobs[s].kind
      /\ new.snap = jobs[s].snap /\ new.left = jobs[s].left
      /\ new.clean = jobs[s].clean /\ new.data = data /\ new.raw = jobs[s].raw
  BY <1>2 DEF JobOK, NoJob
<1>5. \A c \in DOMAIN jobs[s].raw : c \in Cves /\ jobs[s].raw[c] \in Numbers(c)
  BY <1>2 DEF JobOK
<1> HIDE DEF new
<1>6. JobOK(new, rows)
  BY <1>2, <1>3, <1>4, <1>5, GoesOn
<1>7. ServicesOK'
  BY <1>1, <1>2 DEF ServicesOK
<1> QED BY <1>1, <1>6, <1>7, JobMoves DEF new, data

\* The NVD answers for CVEs it was asked for and has a record of.
LEMMA AnsweredHave ==
  ASSUME NEW S, NEW order \in SetToSeqs(S), NEW failing
  PROVE  Answered(order, failing) \subseteq {c \in S : nvd[c] # 0}
BY DEF Answered, SetToSeqs

LEMMA AskStep ==
  ASSUME WriterInv, NEW s \in Slots, Ask(s)
  PROVE  WriterInv'
<1> DEFINE job == jobs[s]
<1>1. PICK order \in SetToSeqs(Missed(job)), failing \in SUBSET Missed(job) :
        LET got == Answered(order, failing)
        IN  /\ jobs' = [jobs EXCEPT ![s] =
                 [job EXCEPT
                    !.pc = IF job.kind = "reenrich" THEN "write"
                           ELSE IF got = {} THEN "chain" ELSE "store",
                    !.data = [c \in DOMAIN job.data \cup got |->
                                IF c \in got THEN Direct(Nvd[c][nvd[c]])
                                ELSE job.data[c]],
                    !.raw = [c \in got |-> nvd[c]]]]
            /\ UNCHANGED <<rows, nvd, table, stale>>
  BY DEF Ask, Step
<1>2. JobOK(job, rows) /\ ServicesOK
  BY DEF WriterInv
<1> DEFINE got == Answered(order, failing)
           data == [c \in DOMAIN job.data \cup got |->
                      IF c \in got THEN Direct(Nvd[c][nvd[c]])
                      ELSE job.data[c]]
           raw == [c \in got |-> nvd[c]]
           pc == IF job.kind = "reenrich" THEN "write"
                 ELSE IF got = {} THEN "chain" ELSE "store"
           new == [job EXCEPT !.pc = pc, !.data = data, !.raw = raw]
<1> HIDE DEF job
<1>3. got \subseteq {c \in Cves : nvd[c] # 0}
  BY <1>2, AnsweredHave, AskedOnlyCves DEF Missed
<1> HIDE DEF got
<1>4. ASSUME NEW c \in DOMAIN data PROVE AnswerOK(data[c])
  <2>1. CASE c \in got
    <3>1. c \in Cves /\ nvd[c] \in Numbers(c) /\ nvd[c] # 0
      BY <1>2, <1>3, <2>1 DEF ServicesOK
    <3> QED BY <2>1, <3>1, RecordOK
  <2>2. CASE c \notin got
    BY <1>2, <2>2 DEF JobOK
  <2> QED BY <2>1, <2>2
<1>5. ASSUME NEW c \in DOMAIN raw PROVE c \in Cves /\ raw[c] \in Numbers(c)
  BY <1>2, <1>3 DEF ServicesOK
<1> HIDE DEF data, raw, pc
<1>6. /\ DOMAIN new = DOMAIN NoJob /\ new.kind = job.kind
      /\ new.snap = job.snap /\ new.left = job.left
      /\ new.clean = job.clean /\ new.data = data /\ new.raw = raw
  BY <1>2 DEF JobOK, NoJob
<1> HIDE DEF new
<1>7. JobOK(new, rows)
  BY <1>2, <1>4, <1>5, <1>6, GoesOn
<1>8. ServicesOK'
  BY <1>1, <1>2 DEF ServicesOK
<1>9. jobs' = [jobs EXCEPT ![s] = new] /\ UNCHANGED <<rows, stale>>
  BY <1>1 DEF new, data, raw, pc, got
<1> QED BY <1>7, <1>8, <1>9, JobMoves

LEMMA WriteBackStep ==
  ASSUME WriterInv, NEW s \in Slots, WriteBack(s)
  PROVE  WriterInv'
<1>1. PICK stored \in SUBSET DOMAIN jobs[s].raw :
        /\ table' = [c \in Cves |-> IF c \in stored THEN jobs[s].raw[c]
                                    ELSE table[c]]
        /\ jobs' = [jobs EXCEPT ![s] =
                      [jobs[s] EXCEPT !.pc = "chain", !.raw = <<>>]]
        /\ UNCHANGED <<rows, nvd, stale>>
  BY DEF WriteBack, Step
<1> DEFINE new == [jobs[s] EXCEPT !.pc = "chain", !.raw = <<>>]
<1>2. JobOK(jobs[s], rows) /\ ServicesOK
  BY DEF WriterInv
<1>3. /\ DOMAIN new = DOMAIN NoJob /\ new.kind = jobs[s].kind
      /\ new.snap = jobs[s].snap /\ new.left = jobs[s].left
      /\ new.clean = jobs[s].clean /\ new.data = jobs[s].data
      /\ DOMAIN new.raw = {}
  BY <1>2 DEF JobOK, NoJob
<1>4. \A c \in DOMAIN jobs[s].data : AnswerOK(jobs[s].data[c])
  BY <1>2 DEF JobOK
<1> HIDE DEF new
<1>5. JobOK(new, rows)
  BY <1>2, <1>3, <1>4, GoesOn
<1>6. ServicesOK'
  <2>1. ASSUME NEW c \in Cves PROVE table'[c] \in Nat /\ table'[c] \in Numbers(c)
    <3>1. table'[c] \in Numbers(c)
      BY <1>1, <1>2 DEF JobOK, ServicesOK
    <3>2. Len(Nvd[c]) \in Nat
      BY EnrichmentAssumption
    <3> QED BY <3>1, <3>2 DEF Numbers
  <2> QED BY <1>1, <1>2, <2>1 DEF ServicesOK
<1> QED BY <1>1, <1>5, <1>6, JobMoves DEF new

LEMMA CatalogsStep ==
  ASSUME WriterInv, NEW s \in Slots, Catalogs(s)
  PROVE  WriterInv'
<1>1. /\ \/ \E chain, epss, kev :
              jobs' = [jobs EXCEPT ![s] =
                         [jobs[s] EXCEPT !.pc = "write", !.chain = chain,
                                         !.epss = epss, !.kev = kev]]
         \/ jobs' = [jobs EXCEPT ![s] = NoJob]
      /\ UNCHANGED <<rows, nvd, table, stale>>
  <2> DEFINE Got(chain, epss, kev) ==
               Step(s, "chain", [jobs[s] EXCEPT !.pc = "write",
                                                !.chain = chain,
                                                !.epss = epss, !.kev = kev])
  <2>1. /\ (\E chain, epss, kev : Got(chain, epss, kev)) \/ Step(s, "chain", NoJob)
        /\ UNCHANGED <<rows, nvd, table, mitre, begun, stale>>
    BY ZenonT(60) DEF Catalogs
  <2> QED BY Zenon, <2>1 DEF Step
<1>2. JobOK(jobs[s], rows) /\ ServicesOK
  BY DEF WriterInv
<1>3. ServicesOK'
  BY <1>1, <1>2 DEF ServicesOK
<1>4. CASE jobs' = [jobs EXCEPT ![s] = NoJob]
  BY <1>1, <1>3, <1>4, NoJobOK, JobMoves
<1>5. ASSUME NEW chain, NEW epss, NEW kev,
             jobs' = [jobs EXCEPT ![s] =
                        [jobs[s] EXCEPT !.pc = "write", !.chain = chain,
                                        !.epss = epss, !.kev = kev]]
      PROVE  WriterInv'
  <2> DEFINE new == [jobs[s] EXCEPT !.pc = "write", !.chain = chain,
                                    !.epss = epss, !.kev = kev]
  <2>1. /\ DOMAIN new = DOMAIN NoJob /\ new.kind = jobs[s].kind
        /\ new.snap = jobs[s].snap /\ new.left = jobs[s].left
        /\ new.clean = jobs[s].clean /\ new.data = jobs[s].data
        /\ new.raw = jobs[s].raw
    BY <1>2 DEF JobOK, NoJob
  <2>2. /\ \A c \in DOMAIN jobs[s].data : AnswerOK(jobs[s].data[c])
        /\ \A c \in DOMAIN jobs[s].raw :
             c \in Cves /\ jobs[s].raw[c] \in Numbers(c)
    BY <1>2 DEF JobOK
  <2> HIDE DEF new
  <2>3. JobOK(new, rows)
    BY <1>2, <2>1, <2>2, GoesOn
  <2> QED BY <1>1, <1>3, <1>5, <2>3, JobMoves DEF new
<1> QED BY <1>1, <1>4, <1>5

\* What is left of a job when it has dealt with an issue.
LEMMA RestOK ==
  ASSUME WriterInv, NEW s \in Slots, NEW i, NEW current,
         \A j \in jobs[s].left \ {i} : current[j] = rows[j]
  PROVE  JobOK(Rest(s, i), current)
<1>1. CASE jobs[s].left = {i}
  BY <1>1, NoJobOK DEF Rest
<1>2. CASE jobs[s].left # {i}
  <2> DEFINE new == [jobs[s] EXCEPT !.left = jobs[s].left \ {i}]
  <2>1. JobOK(jobs[s], rows)
    BY DEF WriterInv
  <2>2. /\ DOMAIN new = DOMAIN NoJob /\ new.kind = jobs[s].kind
        /\ new.snap = jobs[s].snap /\ new.left = jobs[s].left \ {i}
        /\ new.clean = jobs[s].clean /\ new.data = jobs[s].data
        /\ new.raw = jobs[s].raw
    BY <2>1 DEF JobOK, NoJob
  <2>3. Rest(s, i) = new
    BY <1>2 DEF Rest
  <2> HIDE DEF new
  <2> QED BY <2>1, <2>2, <2>3 DEF JobOK
<1> QED BY <1>1, <1>2

LEMMA WriteStep ==
  ASSUME WriterInv, NEW s \in Slots, NEW i \in Issues, Write(s, i)
  PROVE  WriterInv'
<1> DEFINE job == jobs[s]
           new == Written(job, i)
<1>1. /\ i \in job.left /\ ~Skips(job, i)
      /\ rows' = [rows EXCEPT ![i] = new]
      /\ jobs' = [k \in Slots |->
                    IF k = s THEN Rest(s, i)
                    ELSE [jobs[k] EXCEPT !.clean = @ \ {i}]]
      /\ stale' = IF Scores(job.kind) /\ i \in job.clean THEN stale \ {i}
                  ELSE IF rows'[i] = rows[i] THEN stale ELSE stale \cup {i}
      /\ UNCHANGED <<nvd, table>>
  BY DEF Write
<1>2. RowOK(new) /\ \A k \in Slots : JobOK(jobs[k], rows)
  BY <1>1, WrittenOK DEF WriterInv
<1>3. i \in job.clean /\ Scores(job.kind) => new.risk = Compute(new, new.asset)
  BY <1>1, ScoredRow
<1> HIDE DEF job, new
<1>4. DOMAIN rows' = Issues
      /\ \A j \in Issues : rows'[j] = IF j = i THEN new ELSE rows[j]
  BY <1>1 DEF WriterInv
<1>5. \A j \in Issues : RowOK(rows'[j])
  BY <1>2, <1>4 DEF WriterInv
<1>6. ASSUME NEW k \in Slots PROVE JobOK(jobs'[k], rows')
  <2>1. CASE k = s
    <3>1. job.left \subseteq Issues
      BY <1>2 DEF JobOK, job
    <3>2. JobOK(Rest(s, i), rows')
      BY <1>4, <3>1, RestOK DEF job
    <3> QED BY <1>1, <2>1, <3>2
  <2>2. CASE k # s
    <3> DEFINE other == [jobs[k] EXCEPT !.clean = jobs[k].clean \ {i}]
    <3>1. /\ DOMAIN other = DOMAIN NoJob /\ other.kind = jobs[k].kind
          /\ other.snap = jobs[k].snap /\ other.left = jobs[k].left
          /\ other.clean = jobs[k].clean \ {i} /\ other.data = jobs[k].data
          /\ other.raw = jobs[k].raw
      BY <1>2 DEF JobOK, NoJob
    <3>2. jobs'[k] = other
      BY <1>1, <2>2
    <3> HIDE DEF other
    <3> QED BY <1>2, <1>4, <3>1, <3>2 DEF JobOK
  <2> QED BY <2>1, <2>2
<1>7. ScoreCurrent'
  <2>1. ASSUME NEW j \in Issues, j \notin stale'
        PROVE  rows'[j].risk = Compute(rows'[j], rows'[j].asset)
    <3>1. CASE j # i
      BY <1>1, <1>4, <2>1, <3>1 DEF WriterInv, ScoreCurrent
    <3>2. CASE j = i /\ Scores(job.kind) /\ i \in job.clean
      BY <1>3, <1>4, <3>2
    <3>3. CASE j = i /\ ~(Scores(job.kind) /\ i \in job.clean)
      BY <1>1, <2>1, <3>3 DEF WriterInv, ScoreCurrent
    <3> QED BY <3>1, <3>2, <3>3
  <2> QED BY <2>1 DEF ScoreCurrent
<1>8. ServicesOK' /\ DOMAIN jobs' = Slots
  BY <1>1 DEF WriterInv, ServicesOK
<1> QED BY <1>4, <1>5, <1>6, <1>7, <1>8 DEF WriterInv

LEMMA PassStep ==
  ASSUME WriterInv, NEW s \in Slots, NEW i \in Issues, Pass(s, i)
  PROVE  WriterInv'
<1>1. /\ \/ jobs' = [jobs EXCEPT ![s] = Rest(s, i)]
         \/ jobs' = [jobs EXCEPT ![s] = NoJob]
      /\ UNCHANGED <<rows, nvd, table, stale>>
  BY DEF Pass
<1>2. ServicesOK'
  BY <1>1 DEF WriterInv, ServicesOK
<1>3. JobOK(Rest(s, i), rows) /\ JobOK(NoJob, rows)
  BY RestOK, NoJobOK
<1> QED BY <1>1, <1>2, <1>3, JobMoves

LEMMA WriterStep == WriterInv /\ [Next]_vars => WriterInv'
<1> SUFFICES ASSUME WriterInv, [Next]_vars PROVE WriterInv'
  OBVIOUS
<1>1. ASSUME UNCHANGED <<rows, jobs, stale>>, ServicesOK' PROVE WriterInv'
  BY <1>1 DEF WriterInv, ScoreCurrent
<1>2. ServicesOK
  BY DEF WriterInv
<1>3. ASSUME NEW c \in Cves, Publish(c) \/ Sync(c) PROVE WriterInv'
  <2>1. ASSUME NEW d \in Cves PROVE Len(Nvd[d]) \in Nat
    BY EnrichmentAssumption
  <2>2. CASE Publish(c)
    <3>1. ServicesOK'
      BY <1>2, <2>1, <2>2 DEF Publish, ServicesOK, Numbers
    <3> QED BY <1>1, <2>2, <3>1 DEF Publish
  <2>3. CASE Sync(c)
    <3>1. ServicesOK'
      BY <1>2, <2>1, <2>3 DEF Sync, ServicesOK, Numbers
    <3> QED BY <1>1, <2>3, <3>1 DEF Sync
  <2> QED BY <1>3, <2>2, <2>3
<1>4. CASE UNCHANGED <<rows, nvd, table, jobs, stale>>
  BY <1>1, <1>2, <1>4 DEF ServicesOK
<1>5. ASSUME NEW s \in Slots, NEW run \in Runs, Enrich(s, run) PROVE WriterInv'
  <2>1. run \in SUBSET Issues
    BY EnrichmentAssumption
  <2>2. Begin(s, "enrich", run) /\ UNCHANGED <<rows, stale>> /\ ServicesOK'
    BY <1>2, <1>5 DEF Enrich, ServicesOK
  <2> QED BY <2>1, <2>2, BeginStep
<1>6. ASSUME NEW s \in Slots, NEW kind \in Kinds, Endpoint(s, kind) PROVE WriterInv'
  <2>1. kind \in EndpointKinds \cup {"enrich"}
    BY EnrichmentAssumption
  <2>2. Begin(s, kind, {}) /\ UNCHANGED <<rows, stale>> /\ ServicesOK'
    BY <1>2, <1>6 DEF Endpoint, ServicesOK
  <2> QED BY <2>1, <2>2, BeginStep
<1>7. CASE Release \/ RefreshDone
           \/ (\E result \in {"download", "same", "parse", "new"} : RefreshStart(result))
           \/ (\E w \in Cwes : UpsertBatch(w)) \/ UNCHANGED vars
  BY <1>4, <1>7 DEF Release, RefreshDone, RefreshStart, UpsertBatch, vars
<1> QED
  BY <1>3, <1>5, <1>6, <1>7, LookupStep, AskStep, WriteBackStep, CatalogsStep, WriteStep,
     PassStep DEF Next

\* The score of every issue is the one its own columns give, whatever jobs of
\* whatever kinds overlap and fail, unless the last write was by a job that does
\* not score or that had read the row before another job changed it.
THEOREM ScoresAreCurrent == Spec => []ScoreCurrent
<1>1. WriterInv => ScoreCurrent
  BY DEF WriterInv
<1> QED BY <1>1, WriterInit, WriterStep, PTL DEF Spec

-----------------------------------------------------------------------------
(* What a job may overwrite. *)

Cvss == {"score", "version", "vector", "cwe"}

\* what KnownKept says of one row
KeptRow(old, new, kind) ==
  /\ \A f \in Cvss :
       /\ old[f] # None => new[f] # None
       /\ kind \in {"backfill", "reenrich", "rescore"} =>
            new[f] = Fill(old[f], new[f])
  /\ kind = "upgrade" =>
       /\ Fill(new.version, 0) >= Fill(old.version, 0)
       /\ new.score # old.score =>
            \/ old.score \in {None, 0}
            \/ new.version > Fill(old.version, 0)
  /\ kind # "enrich" => Fill(new.av, old.av) = new.av

\* A step that leaves the row as it is keeps all of it.
LEMMA SameRowKept ==
  ASSUME NEW row, RowOK(row), NEW kind
  PROVE  KeptRow(row, row, kind)
BY DEF KeptRow, RowOK, Fill, Ranks

\* Each kind of job overwrites only what it says.
LEMMA WrittenKept ==
  ASSUME WriterInv, NEW s \in Slots, NEW i \in jobs[s].left, i \in jobs[s].clean,
         ~Skips(jobs[s], i)
  PROVE  KeptRow(rows[i], Written(jobs[s], i), jobs[s].kind)
<1> DEFINE job == jobs[s]
           r == rows[i]
           new == Written(job, i)
<1> SUFFICES KeptRow(r, new, job.kind)
  OBVIOUS
<1>1. /\ job.snap[i] = r /\ RowOK(r) /\ DOMAIN r = Columns
      /\ job.kind \in EndpointKinds \cup {"enrich"}
      /\ job.kind = "retry" => r.av = None
  BY DEF WriterInv, JobOK, RowOK
<1>2. None \notin Nat /\ Points \in [Ranks -> Nat]
  BY EnrichmentAssumption
<1> HIDE DEF job, r
<1>3. CASE job.kind = "enrich"
  <2>1. new = EnrichedRow(r, r, job, i)
    BY <1>1, <1>3 DEF Written, r
  <2>2. /\ new.score = r.score /\ new.version = r.version
        /\ new.vector = r.vector
        /\ new.cwe = Fill(Known(job.data, Given[i].cve, Blank).cwe, r.cwe)
    BY <1>1, <2>1 DEF EnrichedRow, Columns
  <2> HIDE DEF new
  <2> QED BY <1>3, <2>2 DEF KeptRow, Cvss, Fill
<1>4. CASE job.kind = "rescore"
  <2>1. new = RescoredRow(r, r, job, i)
    BY <1>1, <1>4 DEF Written, r
  <2>2. /\ new.score = r.score /\ new.version = r.version
        /\ new.vector = r.vector /\ new.cwe = r.cwe /\ new.av = r.av
    BY <1>1, <2>1 DEF RescoredRow, Columns
  <2> HIDE DEF new
  <2> QED BY <1>4, <2>2 DEF KeptRow, Cvss, Fill
<1>5. CASE job.kind = "retry"
  <2> DEFINE d == job.data[Given[i].cve]
  <2>1. new = RetriedRow(r, r, job, i)
    BY <1>1, <1>5 DEF Written, r
  <2>2. /\ new.score = Or(d.score, r.score)
        /\ new.version = Fill(d.version, r.version)
        /\ new.vector = Fill(d.vector, r.vector)
        /\ new.cwe = Fill(d.cwe, r.cwe)
    BY <1>1, <2>1 DEF RetriedRow, Columns
  <2> HIDE DEF new
  <2> QED BY <1>1, <1>5, <2>2 DEF KeptRow, Cvss, Fill, Or
<1>6. CASE job.kind = "reenrich"
  <2> DEFINE d == job.data[Given[i].cve]
             Put(f) == IF r[f] = None /\ d[f] # None THEN d[f] ELSE r[f]
  <2>1. new = ReenrichedRow(r, r, job, i)
    BY <1>1, <1>6 DEF Written, r
  <2>2. /\ new.score = Put("score") /\ new.version = Put("version")
        /\ new.vector = Put("vector") /\ new.cwe = Put("cwe")
        /\ new.av = Fill(d.av, r.av)
    BY <1>1, <2>1 DEF ReenrichedRow, Columns
  <2> HIDE DEF new
  <2> QED BY <1>6, <2>2 DEF KeptRow, Cvss, Fill
<1>7. CASE job.kind = "backfill"
  <2>1. new = BackfilledRow(r, r, i)
    BY <1>1, <1>7 DEF Written, r
  <2>2. CASE new = r
    <3> HIDE DEF new
    <3> QED BY <1>1, <2>2, SameRowKept
  <2>3. CASE new # r
    <3> DEFINE vector == Fill(r.vector, BestOf(RawVectors[i]))
    <3>1. /\ new.vector = IF r.vector = None THEN vector ELSE r.vector
          /\ new.score = IF r.score = None THEN Points[vector] ELSE r.score
          /\ new.version = IF r.version = None THEN vector ELSE r.version
          /\ new.cwe = r.cwe /\ new.av = r.av
      BY <1>1, <2>1, <2>3 DEF BackfilledRow, Columns
    <3> HIDE DEF new, vector
    <3> QED BY <1>7, <3>1 DEF KeptRow, Cvss, Fill
  <2> QED BY <2>2, <2>3
<1>8. CASE job.kind = "upgrade"
  <2> DEFINE best == BestOf(RawVectors[i] \cup ({r.vector} \ {None}))
  <2>1. i \in DOMAIN RawVectors => best \in {None} \cup Ranks
    BY <1>1, BestRank, EnrichmentAssumption DEF RowOK
  <2>2. new = UpgradedRow(r, r, i)
    BY <1>1, <1>8 DEF Written, r
  <2>3. CASE new = r
    <3> HIDE DEF new
    <3> QED BY <1>1, <2>3, SameRowKept
  <2> HIDE DEF best
  <2>4. CASE new # r /\ best > Fill(r.version, 0)
    <3>1. i \in DOMAIN RawVectors /\ best # None
      BY <2>2, <2>4 DEF UpgradedRow, best
    <3>2. /\ new.vector = best /\ new.version = best
          /\ new.score = Points[best] /\ new.cwe = r.cwe /\ new.av = r.av
      BY <1>1, <2>2, <2>4, <3>1 DEF UpgradedRow, Columns, best
    <3>3. best \in Ranks /\ Points[best] \in Nat
      BY <1>2, <2>1, <3>1
    <3>4. Fill(new.version, 0) = best
      BY <3>1, <3>2 DEF Fill
    <3>5. Fill(r.version, 0) \in Nat
      BY <1>1 DEF RowOK, Fill, Ranks
    <3> HIDE DEF new
    <3>6. \A f \in Cvss : r[f] # None => new[f] # None
      BY <1>2, <3>1, <3>2, <3>3 DEF Cvss
    <3>7. Fill(new.av, r.av) = new.av
      BY <3>2 DEF Fill
    <3>8. Fill(new.version, 0) >= Fill(r.version, 0)
          /\ new.version > Fill(r.version, 0)
      BY <2>4, <3>2, <3>3, <3>4, <3>5 DEF Ranks
    <3> QED BY <1>8, <3>6, <3>7, <3>8 DEF KeptRow
  <2>5. CASE new # r /\ ~(best > Fill(r.version, 0))
    <3>1. i \in DOMAIN RawVectors /\ best # None
      BY <2>2, <2>5 DEF UpgradedRow, best
    <3>2. /\ new.vector = IF r.vector = None THEN best ELSE r.vector
          /\ new.score = IF r.score \in {None, 0} THEN Points[best] ELSE r.score
          /\ new.version = r.version /\ new.cwe = r.cwe /\ new.av = r.av
      BY <1>1, <2>2, <2>5, <3>1 DEF UpgradedRow, Columns, best
    <3>3. Points[best] \in Nat
      BY <1>2, <2>1, <3>1
    <3>4. Fill(r.version, 0) \in Nat
      BY <1>1 DEF RowOK, Fill, Ranks
    <3> HIDE DEF new
    <3>5. \A f \in Cvss : r[f] # None => new[f] # None
      BY <1>2, <3>1, <3>2, <3>3 DEF Cvss
    <3>6. Fill(new.av, r.av) = new.av
      BY <3>2 DEF Fill
    <3>7. Fill(new.version, 0) >= Fill(r.version, 0)
          /\ (new.score # r.score => r.score \in {None, 0})
      BY <3>2, <3>4
    <3> QED BY <1>8, <3>5, <3>6, <3>7 DEF KeptRow
  <2> QED BY <2>3, <2>4, <2>5
<1> QED
  BY <1>1, <1>3, <1>4, <1>5, <1>6, <1>7, <1>8 DEF EndpointKinds

\* Only its own Write or Pass takes an issue from a job, and only a Write
\* changes a row.
LEMMA KeptStep ==
  ASSUME WriterInv, Next, NEW s \in Slots, NEW i \in Issues, Alone(s, i)
  PROVE  KeptRow(rows[i], rows'[i], jobs[s].kind)
<1>1. CASE UNCHANGED rows
  BY <1>1, SameRowKept DEF WriterInv
<1>2. ASSUME NEW k \in Slots, NEW j \in Issues, Write(k, j)
      PROVE  KeptRow(rows[i], rows'[i], jobs[s].kind)
  <2>1. /\ j \in jobs[k].left /\ ~Skips(jobs[k], j)
        /\ rows' = [rows EXCEPT ![j] = Written(jobs[k], j)]
        /\ jobs' = [n \in Slots |->
                      IF n = k THEN Rest(k, j)
                      ELSE [jobs[n] EXCEPT !.clean = @ \ {j}]]
    BY <1>2 DEF Write
  <2>2. i \in jobs[s].left /\ i \in jobs[s].clean
        /\ (jobs'[s] = NoJob \/ i \notin jobs'[s].left)
    BY DEF Alone
  <2>3. JobOK(jobs[s], rows) /\ NoJob.left = {} /\ "left" \in DOMAIN jobs[s]
    BY DEF WriterInv, JobOK, NoJob
  <2>4. k = s
    <3>1. SUFFICES ASSUME k # s PROVE jobs'[s].left = jobs[s].left
      BY <2>2, <2>3, <3>1
    <3> QED BY <2>1, <2>3, <3>1
  <2>5. j = i
    <3>1. CASE jobs[s].left = {j}
      BY <2>2, <3>1
    <3>2. CASE jobs[s].left # {j}
      <4>1. jobs'[s].left = jobs[s].left \ {j}
        BY <2>1, <2>3, <2>4, <3>2 DEF Rest
      <4> QED BY <2>2, <2>3, <4>1
    <3> QED BY <3>1, <3>2
  <2>6. rows'[i] = Written(jobs[s], i)
    BY <2>1, <2>4, <2>5 DEF WriterInv
  <2> QED BY <2>1, <2>2, <2>4, <2>5, <2>6, WrittenKept
<1>3. UNCHANGED rows \/ \E k \in Slots, j \in Issues : Write(k, j)
  BY DEF Next, Publish, Sync, Release, RefreshDone, RefreshStart, UpsertBatch,
         Enrich, Endpoint, Begin, Lookup, Ask, WriteBack, Catalogs, Pass, Step
<1> QED BY <1>1, <1>2, <1>3

\* What is known of an issue's CVSS and CWE is never lost to a job that runs
\* alone, and each endpoint overwrites only what it says.
THEOREM WhatIsKnownStays == Spec => KnownKept
<1> DEFINE Kept == \A s \in Slots, i \in Issues :
                     Alone(s, i) => KeptRow(rows[i], rows'[i], jobs[s].kind)
<1>1. WriterInv /\ [Next]_vars => [Kept]_vars
  BY KeptStep
<1>2. Kept => \A s \in Slots, i \in Issues : Alone(s, i) =>
       LET old == rows[i]
           new == rows'[i]
           kind == jobs[s].kind
       IN  /\ \A f \in {"score", "version", "vector", "cwe"} :
                /\ old[f] # None => new[f] # None
                /\ kind \in {"backfill", "reenrich", "rescore"} =>
                     new[f] = Fill(old[f], new[f])
           /\ kind = "upgrade" =>
                /\ Fill(new.version, 0) >= Fill(old.version, 0)
                /\ new.score # old.score =>
                     \/ old.score \in {None, 0}
                     \/ new.version > Fill(old.version, 0)
           /\ kind # "enrich" => Fill(new.av, old.av) = new.av
  BY Zenon DEF KeptRow, Cvss
<1>3. [Kept]_vars => [\A s \in Slots, i \in Issues : Alone(s, i) =>
       LET old == rows[i]
           new == rows'[i]
           kind == jobs[s].kind
       IN  /\ \A f \in {"score", "version", "vector", "cwe"} :
                /\ old[f] # None => new[f] # None
                /\ kind \in {"backfill", "reenrich", "rescore"} =>
                     new[f] = Fill(old[f], new[f])
           /\ kind = "upgrade" =>
                /\ Fill(new.version, 0) >= Fill(old.version, 0)
                /\ new.score # old.score =>
                     \/ old.score \in {None, 0}
                     \/ new.version > Fill(old.version, 0)
           /\ kind # "enrich" => Fill(new.av, old.av) = new.av]_vars
  BY <1>2
<1> QED BY <1>1, <1>3, WriterInit, WriterStep, PTL DEF Spec, KnownKept

=============================================================================

---------------------------- MODULE Enrichment ----------------------------
(***************************************************************************)
(* The writers of an issue's vulnerability data and score.  Sub-Agent 2    *)
(* enriches the issues of a run; operators repair what it missed with the  *)
(* admin endpoints rescore, backfill_cvss, upgrade_cvss_to_best,           *)
(* reenrich_missing_cvss and retry_failed_nvd.  Each of them is a job that *)
(* reads the rows once, asks other services, and then writes row by row,   *)
(* while the others may do the same.  What they read comes from the        *)
(* intelligence table, the NVD API, FIRST.org, CISA and the MITRE catalog, *)
(* which an endpoint of its own refreshes.                                 *)
(*                                                                         *)
(* A CVSS vector is abstracted to its version's rank: 1 for 2.0, 2 for     *)
(* 3.0, 3 for 3.1 and 4 for 4.0.  Prose is left out.                       *)
(***************************************************************************)
EXTENDS Scoring

CONSTANTS
  Given,       \* the issues, as Sub-Agent 1 inserted them
  RawVectors,  \* for an issue with a raw finding: the vectors found in it
  Points,      \* the score of a vector of each rank
  Runs,        \* the runs, as the sets of their issues
  Assets,      \* the assets table
  Nvd,         \* per CVE the records the NVD publishes, one after the other
  EpssOf, Kev, \* FIRST.org's scores and CISA's list
  EpssLimit,   \* CVEs in one EPSS request (100)
  Threshold,   \* _CIRCUIT_BREAKER_THRESHOLD
  Releases,    \* of the MITRE catalog: per CWE its likelihood and tactics
  Slots,       \* 1 .. the jobs that may be in progress at once
  Kinds,       \* the jobs of this instance
  Budgets      \* bounds: how many jobs and refreshes an execution starts,
               \* records the NVD and MITRE publish and the Lambda syncs
               \* (news), and failures (faults)

Issues == DOMAIN Given
Cves == DOMAIN Nvd
Cwes == DOMAIN Releases[1]
Versions == UNION {0 .. Len(Nvd[c]) : c \in Cves}

EndpointKinds == {"rescore", "backfill", "upgrade", "reenrich", "retry"}

Ranks == 1 .. 4

NvdRecord ==
  [score : {None} \cup Nat, version : {None} \cup Ranks,
   vector : {None} \cup Ranks, av : {None} \cup STRING,
   cwe : {None} \cup STRING, primary : BOOLEAN]

ASSUME EnrichmentAssumption ==
  /\ \A i \in Issues : /\ Given[i].cve \in Cves \cup {None}
                      /\ Given[i].version \in {None} \cup Ranks
                      /\ Given[i].vector \in {None} \cup Ranks
  /\ \A i \in DOMAIN RawVectors : RawVectors[i] \subseteq Ranks
  /\ Points \in [Ranks -> Nat] /\ None \notin Nat
  /\ \A c \in Cves : Nvd[c] \in Seq(NvdRecord)
  /\ Runs \subseteq SUBSET Issues
  /\ Kinds \subseteq EndpointKinds \cup {"enrich"}
  /\ Slots \subseteq Nat /\ EpssLimit \in Nat /\ Threshold \in Nat \ {0}
  /\ Budgets \subseteq [{"jobs", "refreshes", "news", "faults"} -> Nat]

VARIABLES
  rows,     \* the issues table
  nvd,      \* how many of its records of a CVE the NVD has published
  table,    \* which of them the intelligence table has, 0 for none
  released, \* the current release of the MITRE catalog
  catalog,  \* the release each mitre_cwe row is of, 0 for none
  log,      \* mitre_refresh_log: status and release, the sha256
  refresh,  \* the refresh in progress
  jobs,     \* the jobs in progress
  begun,    \* the runs whose enrichment has begun
  budget,   \* what is left of the execution's budget
  stale     \* issues whose last write did not score what it left there

mitre == <<released, catalog, log, refresh>>
vars == <<rows, nvd, table, mitre, jobs, begun, budget, stale>>

NoChain == [likelihood |-> None, tactics |-> {}]
Blank == [score |-> None, version |-> None, vector |-> None, av |-> None,
          cwe |-> None]
NoJob == [kind |-> "none", pc |-> "idle", snap |-> <<>>, assets |-> <<>>,
          data |-> <<>>, raw |-> <<>>, epss |-> {}, kev |-> {},
          chain |-> <<>>, left |-> {}, clean |-> {}]
Entry(status, of) == [status |-> status, of |-> of]
NoRefresh == [pc |-> "idle", of |-> 0, left |-> {}]

Init ==
  /\ rows = [i \in Issues |->
               [severity |-> Given[i].severity, score |-> Given[i].score,
                version |-> Given[i].version, vector |-> Given[i].vector,
                cwe |-> Given[i].cwe, av |-> None, mitre |-> NoChain,
                epss |-> None, kev |-> FALSE, asset |-> None, risk |-> None]]
  /\ nvd \in [Cves -> Versions] /\ \A c \in Cves : nvd[c] <= Len(Nvd[c])
  /\ table \in {nvd, [c \in Cves |-> 0]}
  /\ released = 1
  /\ \/ catalog = [w \in Cwes |-> 0] /\ log = <<>>
     \/ catalog = [w \in Cwes |-> 1] /\ log = <<Entry("updated", 1)>>
  /\ refresh = NoRefresh
  /\ jobs = [s \in Slots |-> NoJob]
  /\ begun = {}
  /\ budget \in Budgets
  /\ stale = Issues

-----------------------------------------------------------------------------
(* Around the jobs. *)

Spend(what) == budget[what] > 0 /\ budget' = [budget EXCEPT ![what] = @ - 1]
Fail == Spend("faults")

(* The NVD publishes a first or a further record of a CVE.                  *)
Publish(c) ==
  /\ nvd[c] < Len(Nvd[c])
  /\ nvd' = [nvd EXCEPT ![c] = @ + 1]
  /\ Spend("news")
  /\ UNCHANGED <<rows, table, mitre, jobs, begun, stale>>

(* The sync Lambda stores the NVD's record.                                 *)
Sync(c) ==
  /\ table[c] < nvd[c]
  /\ table' = [table EXCEPT ![c] = nvd[c]]
  /\ Spend("news")
  /\ UNCHANGED <<rows, nvd, mitre, jobs, begun, stale>>


-----------------------------------------------------------------------------
(* The catalog. *)

Release ==
  /\ released < Len(Releases)
  /\ released' = released + 1
  /\ Spend("news")
  /\ UNCHANGED <<rows, nvd, table, catalog, log, refresh, jobs, begun, stale>>

(* The release of the latest run that succeeded, 0 for none.                *)
LastGood_any == IF log = <<>> THEN 0 ELSE log[Len(log)].of
Good == {n \in DOMAIN log : log[n].status # "failed"}
LastGood == IF Good = {} THEN 0 ELSE log[Max(Good)].of

Log(status, of) == log' = Append(log, Entry(status, of))

Downloaded(result) == result # "download"
\* the parser raises, or finds no row
Parsed(result) == result # "parse"

(* _run_refresh up to the first upsert; the result says how the download,  *)
(* the comparison of the hash and the parser went.                          *)
RefreshStart(result) ==
  LET failures == IF Downloaded(result) /\ Parsed(result) THEN 0 ELSE 1
  IN  /\ refresh.pc = "idle"
      /\ budget.refreshes > 0 /\ budget.faults >= failures
      /\ budget' = [budget EXCEPT !.refreshes = @ - 1,
                                  !.faults = @ - failures]
      /\ result \in {"parse", "new"} => LastGood # released
      /\ \/ ~Downloaded(result) /\ Log("failed", 0) /\ UNCHANGED refresh
         \/ /\ result = "same" /\ LastGood = released
            /\ Log("unchanged", released) /\ UNCHANGED refresh
         \/ ~Parsed(result) /\ Log("failed", released) /\ UNCHANGED refresh
         \/ /\ result = "new" /\ UNCHANGED log
            /\ refresh' = [pc |-> "upsert", of |-> released, left |-> Cwes]
      /\ UNCHANGED <<rows, nvd, table, released, catalog, jobs, begun, stale>>

(* One batch; a failure escapes without a line in the log.                  *)
UpsertBatch(w) ==
  /\ w \in refresh.left
  /\ \/ /\ catalog' = [catalog EXCEPT ![w] = refresh.of]
        /\ refresh' = [refresh EXCEPT !.left = @ \ {w}]
        /\ UNCHANGED budget
     \/ Fail /\ refresh' = NoRefresh /\ UNCHANGED catalog
  /\ UNCHANGED <<rows, nvd, table, released, log, jobs, begun, stale>>

(* The line in the log, whose failure is swallowed.                         *)
RefreshDone ==
  /\ refresh.pc = "upsert" /\ refresh.left = {}
  /\ refresh' = NoRefresh
  /\ \/ Log("updated", refresh.of) /\ UNCHANGED budget
     \/ Fail /\ UNCHANGED log
  /\ UNCHANGED <<rows, nvd, table, released, catalog, jobs, begun, stale>>

-----------------------------------------------------------------------------
(* What the services answer. *)

(* _parse_nvd_response: the primary CVSS metric and a CWE that is one.      *)
Direct(record) ==
  LET cwe == IF record.cwe = "NVD-CWE-noinfo" THEN None ELSE record.cwe
  IN  IF record.primary
      THEN [f \in DOMAIN Blank |-> IF f = "cwe" THEN cwe ELSE record[f]]
      ELSE [Blank EXCEPT !.cwe = cwe]

(* The same record through the intelligence table: the first metric and    *)
(* the first CWE of any kind, and every version is "3.1".                  *)
Cached(record) ==
  [f \in DOMAIN Blank |->
     IF f = "version" /\ record.score # None THEN 3 ELSE record[f]]

(* _fetch_nvd_data: the CVEs the NVD answers before the breaker opens,      *)
(* which it does after that many failures with no answer between them.      *)
Answered(order, failing) ==
  LET Has(n) == order[n] \notin failing /\ nvd[order[n]] # 0
      Failed(m, n) == {k \in m .. n : order[k] \in failing}
      Open(n) == \E l \in 1 .. n - 1 : \E m \in 1 .. l :
                   /\ \A k \in m .. l : ~Has(k)
                   /\ Cardinality(Failed(m, l)) >= Threshold
  IN  {order[n] : n \in {k \in DOMAIN order : Has(k) /\ ~Open(k)}}

(* The chain of a CWE of the catalog: its likelihood and, through CAPEC,    *)
(* the ATT&CK tactics.                                                      *)
Chains(cwes) ==
  [w \in {x \in cwes \cap Cwes : catalog[x] # 0} |-> Releases[catalog[w]][w]]

BestOf(vectors) == IF vectors = {} THEN None ELSE Max(vectors)
Known(f, key, default) == IF key \in DOMAIN f THEN f[key] ELSE default
Or(value, default) == IF value \in {None, 0} THEN default ELSE value
Fill(value, new) == IF value = None THEN new ELSE value

-----------------------------------------------------------------------------
(* A job until its first write. *)

\* the jobs that score, each with a pool of threads
Scores(kind) == kind \in {"enrich", "rescore", "retry"}

(* The rows the job's query selects.                                        *)
Selected(kind, run) ==
  CASE kind = "enrich" -> run
    [] kind = "reenrich" -> {i \in Issues : /\ rows[i].score = None
                                           /\ Given[i].cve # None}
    [] kind = "retry" -> {i \in Issues : /\ rows[i].av = None
                                        /\ Given[i].cve # None}
    [] OTHER -> Issues

FirstStep(kind) ==
  CASE kind \in {"enrich", "retry"} -> "lookup"
    [] kind = "reenrich" -> "ask"
    [] OTHER -> "write"

(* The job reads the rows and the assets, in whatever order the table      *)
(* returns them; with nothing to do it returns.                             *)
Begin(s, kind, run) ==
  LET loaded == Selected(kind, run)
  IN  /\ jobs[s].pc = "idle" /\ loaded # {}
      /\ \A k \in Slots : k < s => jobs[k].pc # "idle"
      /\ Spend("jobs")
      /\ \E assets \in SetToSeqs(IF Scores(kind) THEN Assets ELSE {}) :
           jobs' = [jobs EXCEPT ![s] =
                      [NoJob EXCEPT !.kind = kind, !.pc = FirstStep(kind),
                                    !.snap = [i \in loaded |-> rows[i]],
                                    !.assets = assets, !.left = loaded,
                                    !.clean = loaded]]

(* Once per run, when its issues are all there.                             *)
Enrich(s, run) ==
  /\ "enrich" \in Kinds /\ run \notin begun
  /\ begun' = begun \cup {run}
  /\ Begin(s, "enrich", run)
  /\ UNCHANGED <<rows, nvd, table, mitre, stale>>

Endpoint(s, kind) ==
  /\ kind # "enrich"
  /\ Begin(s, kind, {})
  /\ UNCHANGED <<rows, nvd, table, mitre, begun, stale>>

CvesOf(job) == {Given[i].cve : i \in DOMAIN job.snap} \ {None}
Missed(job) == CvesOf(job) \ DOMAIN job.data

Step(s, pc, job) ==
  /\ jobs[s].pc = pc
  /\ jobs' = [jobs EXCEPT ![s] = job]

(* The intelligence table first; a key it throttles counts as missed.       *)
Lookup(s) ==
  LET job == jobs[s]
      stored == {c \in CvesOf(job) : table[c] # 0}
  IN  \E hits \in SUBSET stored :
        /\ IF hits = stored THEN UNCHANGED budget ELSE Fail
        /\ Step(s, "lookup",
                [job EXCEPT !.pc = "ask",
                   !.data = [c \in hits |-> Cached(Nvd[c][table[c]])]])
        /\ UNCHANGED <<rows, nvd, table, mitre, begun, stale>>

(* Then the NVD API, one request per CVE.                                   *)
Ask(s) ==
  LET job == jobs[s]
  IN  \E order \in SetToSeqs(Missed(job)), failing \in SUBSET Missed(job) :
        LET got == Answered(order, failing)
        IN  /\ IF failing = {} THEN UNCHANGED budget ELSE Fail
            /\ Step(s, "ask",
                 [job EXCEPT
                    !.pc = IF job.kind = "reenrich" THEN "write"
                           ELSE IF got = {} THEN "chain" ELSE "store",
                    !.data = [c \in DOMAIN job.data \cup got |->
                                IF c \in got THEN Direct(Nvd[c][nvd[c]])
                                ELSE job.data[c]],
                    !.raw = [c \in got |-> nvd[c]]])
            /\ UNCHANGED <<rows, nvd, table, mitre, begun, stale>>

(* The NVD's answers are put into the intelligence table, each put may     *)
(* fail.                                                                    *)
WriteBack(s) ==
  LET job == jobs[s]
  IN  \E done \in SUBSET DOMAIN job.raw :
        /\ IF done = DOMAIN job.raw THEN UNCHANGED budget ELSE Fail
        /\ table' = [c \in Cves |-> IF c \in done THEN job.raw[c]
                                    ELSE table[c]]
        /\ Step(s, "store", [job EXCEPT !.pc = "chain", !.raw = <<>>])
        /\ UNCHANGED <<rows, nvd, mitre, begun, stale>>

(* The catalogs.  Sub-Agent 2 goes on without what it cannot get, and looks *)
(* up the CWEs of the issues too; retry_failed_nvd answers 500.             *)
Catalogs(s) ==
  LET job == jobs[s]
      enrich == job.kind = "enrich"
      cves == CvesOf(job)
      cwes == {job.data[c].cwe : c \in DOMAIN job.data} \cup
              {job.snap[i].cwe : i \in {j \in DOMAIN job.snap : enrich}}
      chain == Chains(cwes)
      partly == [w \in DOMAIN chain |-> [chain[w] EXCEPT !.tactics = {}]]
      Got(ch, epss, kev) ==
        Step(s, "chain", [job EXCEPT !.pc = "write", !.chain = ch,
                                     !.epss = epss, !.kev = kev])
      batches == {b \in SUBSET cves :
                    IF Cardinality(cves) < EpssLimit THEN b = cves
                    ELSE Cardinality(b) = EpssLimit}
  IN  /\ \/ enrich /\ UNCHANGED budget
            /\ \E epss \in batches : Got(chain, epss, Kev)
         \/ /\ enrich /\ Fail
            /\ \E epss \in batches : \/ Got(<<>>, epss, Kev)
                                     \/ Got(partly, epss, Kev)
                                     \/ Got(chain, {}, Kev)
                                     \/ Got(chain, epss, {})
         \/ ~enrich /\ UNCHANGED budget /\ Got(chain, {}, {})
         \/ ~enrich /\ Fail /\ Step(s, "chain", NoJob)
      /\ UNCHANGED <<rows, nvd, table, mitre, begun, stale>>

-----------------------------------------------------------------------------
(* The row a job writes, from the row it has read and what it was told. *)

\* Sub-Agent 2, _process_one
EnrichedRow_early(now, r, job, i) ==
  LET cve == Given[i].cve
      nvdData == Known(job.data, cve, Blank)
      cwe == Fill(nvdData.cwe, r.cwe)
      asset == ResolveAsset(Given[i].keys, job.assets)
      full == [now EXCEPT !.epss = IF cve \in job.epss THEN EpssOf[cve]
                                  ELSE None,
                         !.kev = cve \in job.kev, !.cwe = cwe,
                         !.av = nvdData.av, !.asset = asset,
                         !.mitre = Known(job.chain, cwe, NoChain)]
  IN  [full EXCEPT !.risk = Compute([r EXCEPT !.epss = full.epss,
                                              !.kev = full.kev], asset)]
EnrichedRow(now, r, job, i) ==
  LET cve == Given[i].cve
      nvdData == Known(job.data, cve, Blank)
      cwe == Fill(nvdData.cwe, r.cwe)
      asset == ResolveAsset(Given[i].keys, job.assets)
      New(row) == [row EXCEPT !.epss = IF cve \in job.epss THEN EpssOf[cve]
                                       ELSE None,
                              !.kev = cve \in job.kev, !.cwe = cwe,
                              !.av = nvdData.av, !.asset = asset,
                              !.mitre = Known(job.chain, cwe, NoChain)]
  IN  [New(now) EXCEPT !.risk = Compute(New(r), asset)]

\* rescore_issues
RescoredRow(now, r, job, i) ==
  LET asset == ResolveAsset(Given[i].keys, job.assets)
  IN  [now EXCEPT !.asset = asset, !.risk = Compute(r, asset)]

\* retry_failed_nvd, _rescore_one
RetriedRow_bare(now, r, job, i) ==
  LET d == job.data[Given[i].cve]
      cwe == Fill(d.cwe, r.cwe)
      asset == ResolveAsset(Given[i].keys, job.assets)
      New(row) == [row EXCEPT !.score = d.score, !.version = d.version,
                              !.vector = d.vector, !.av = d.av, !.cwe = cwe,
                              !.mitre = Known(job.chain, cwe, NoChain),
                              !.asset = asset]
  IN  [New(now) EXCEPT !.risk = Compute(New(r), asset)]
RetriedRow(now, r, job, i) ==
  LET d == job.data[Given[i].cve]
      cwe == Fill(d.cwe, r.cwe)
      asset == ResolveAsset(Given[i].keys, job.assets)
      New(row) == [row EXCEPT !.score = Or(d.score, r.score),
                              !.version = Fill(d.version, r.version),
                              !.vector = Fill(d.vector, r.vector),
                              !.av = d.av, !.cwe = cwe,
                              !.mitre = Known(job.chain, cwe, NoChain),
                              !.asset = asset]
  IN  [New(now) EXCEPT !.risk = Compute(New(r), asset)]

\* reenrich_missing_cvss: the attack vector is overwritten
ReenrichedRow(now, r, job, i) ==
  LET d == job.data[Given[i].cve]
      Put(f) == IF r[f] = None /\ d[f] # None THEN d[f] ELSE now[f]
  IN  [now EXCEPT !.score = Put("score"), !.version = Put("version"),
                  !.vector = Put("vector"), !.cwe = Put("cwe"),
                  !.av = Fill(d.av, now.av)]

\* backfill_cvss: only NULLs, from the row's vector or the raw payload
BackfilledRow(now, r, i) ==
  IF i \notin DOMAIN RawVectors THEN now
  ELSE LET vector == Fill(r.vector, BestOf(RawVectors[i]))
       IN  IF vector = None THEN now
           ELSE [now EXCEPT
                   !.vector = IF r.vector = None THEN vector ELSE @,
                   !.score = IF r.score = None THEN Points[vector] ELSE @,
                   !.version = IF r.version = None THEN vector ELSE @]

\* upgrade_cvss_to_best: a higher version, or a score of NULL or 0.0
UpgradedRow(now, r, i) ==
  LET best == BestOf(RawVectors[i] \cup ({r.vector} \ {None}))
  IN  IF i \notin DOMAIN RawVectors \/ best = None THEN now
      ELSE IF best > Fill(r.version, 0)
      THEN [now EXCEPT !.vector = best, !.version = best,
                       !.score = Points[best]]
      ELSE [now EXCEPT !.vector = IF r.vector = None THEN best ELSE @,
                       !.score = IF r.score \in {None, 0} THEN Points[best]
                                 ELSE @]

-----------------------------------------------------------------------------
(* The writes. *)

\* no answer for the CVE: the row is left alone
Skips(job, i) ==
  /\ job.kind \in {"retry", "reenrich"}
  /\ Given[i].cve \notin DOMAIN job.data

Written(job, i) ==
  LET now == rows[i]
      r == job.snap[i]
  IN  CASE job.kind = "enrich" -> EnrichedRow(now, r, job, i)
        [] job.kind = "rescore" -> RescoredRow(now, r, job, i)
        [] job.kind = "retry" -> RetriedRow(now, r, job, i)
        [] job.kind = "reenrich" -> ReenrichedRow(now, r, job, i)
        [] job.kind = "backfill" -> BackfilledRow(now, r, i)
        [] job.kind = "upgrade" -> UpgradedRow(now, r, i)

\* what is left of the job after issue i
Rest(s, i) == IF jobs[s].left = {i} THEN NoJob
              ELSE [jobs[s] EXCEPT !.left = @ \ {i}]

Write(s, i) ==
  LET job == jobs[s]
  IN  /\ job.pc = "write" /\ i \in job.left /\ ~Skips(job, i)
      /\ rows' = [rows EXCEPT ![i] = Written(job, i)]
      /\ jobs' = [k \in Slots |->
                    IF k = s THEN Rest(s, i)
                    ELSE [jobs[k] EXCEPT !.clean = @ \ {i}]]
      /\ stale' = IF Scores(job.kind) /\ i \in job.clean THEN stale \ {i}
                  ELSE IF rows'[i] = rows[i] THEN stale ELSE stale \cup {i}
      /\ UNCHANGED <<nvd, table, mitre, begun, budget>>

(* A row without an answer, and a row that an exception, the LLM's refusal *)
(* or a cancelled run leaves as it is.  Three of the jobs end there.        *)
Pass(s, i) ==
  LET job == jobs[s]
  IN  /\ job.pc = "write" /\ i \in job.left
      /\ \/ /\ Skips(job, i) /\ UNCHANGED budget
            /\ jobs' = [jobs EXCEPT ![s] = Rest(s, i)]
         \/ /\ ~Skips(job, i) /\ Scores(job.kind) /\ Fail
            /\ jobs' = [jobs EXCEPT ![s] = Rest(s, i)]
         \/ /\ ~Skips(job, i) /\ ~Scores(job.kind) /\ Fail
            /\ jobs' = [jobs EXCEPT ![s] = NoJob]
      /\ UNCHANGED <<rows, nvd, table, mitre, begun, stale>>

Next ==
  \/ \E c \in Cves : Publish(c) \/ Sync(c)
  \/ Release \/ RefreshDone
  \/ \E result \in {"download", "same", "parse", "new"} : RefreshStart(result)
  \/ \E w \in Cwes : UpsertBatch(w)
  \/ \E s \in Slots :
       \/ \E run \in Runs : Enrich(s, run)
       \/ \E kind \in Kinds : Endpoint(s, kind)
       \/ Lookup(s) \/ Ask(s) \/ WriteBack(s) \/ Catalogs(s)
       \/ \E i \in Issues : Write(s, i) \/ Pass(s, i)

Spec == Init /\ [][Next]_vars

-----------------------------------------------------------------------------
(* Properties. *)

(* The score of every issue is the one its own columns give, unless the    *)
(* last write was that of an endpoint that does not score, or of a job     *)
(* that had read the row before another job changed it: rescoring such a   *)
(* row changes nothing, whichever of the three jobs scored it.  About      *)
(* _process_one, _rescore_one and rescore_issues, each of which assembles  *)
(* the columns it scores and the columns it stores separately.              *)
ScoreCurrent ==
  \A i \in Issues \ stale : rows[i].risk = Compute(rows[i], rows[i].asset)

\* s writes issue i and no other job has written it since s read it
Alone(s, i) ==
  /\ jobs[s].pc = "write" /\ i \in jobs[s].left /\ i \in jobs[s].clean
  /\ jobs'[s] = NoJob \/ i \notin jobs'[s].left

(* What is known of an issue's CVSS and CWE is never lost to a job that    *)
(* runs alone, and each endpoint overwrites only what it says: backfill    *)
(* and reenrich nothing that is there, upgrade a lower version or a score  *)
(* of 0.0, rescore nothing but the score and the asset.                     *)
KnownKept ==
  [][\A s \in Slots, i \in Issues : Alone(s, i) =>
       LET old == rows[i]
           new == rows'[i]
           kind == jobs[s].kind
       IN  /\ \A f \in {"score", "version", "vector", "cwe"} :
                /\ old[f] # None => new[f] # None
                /\ kind \in {"backfill", "reenrich", "rescore"} =>
                     new[f] = Fill(old[f], new[f])
           /\ kind = "upgrade" =>
                /\ Fill(new.version, 0) >= Fill(old.version, 0)
                /\ new.score # old.score =>
                     \/ old.score \in {None, 0}
                     \/ new.version > Fill(old.version, 0)
           /\ kind # "enrich" => Fill(new.av, old.av) = new.av]_vars

(* A release that a refresh has reported as loaded is in the catalog to    *)
(* the last row, whatever failed before or since: no answer "unchanged"    *)
(* hides a catalog that is not there.                                       *)
CatalogWhole == \A w \in Cwes : catalog[w] >= LastGood
=============================================================================

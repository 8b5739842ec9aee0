------------------------------ MODULE DemoRun ------------------------------
(***************************************************************************)
(* One run of the demo pipeline: the request that creates it, the real run *)
(* it waits for, and the demo master's graph: sample the findings of the   *)
(* real run, plan a package per finding, and either pause for the          *)
(* operators (hitl) or run the fixer over the packages one at a time.      *)
(* Beside it act the operators who approve and reject packages at any      *)
(* moment (PackageReview has their requests step by step; here each is one *)
(* step), the background dispatch of an approval, the operator who cancels *)
(* the run, and the reset that wipes the demo tables.                      *)
(*                                                                         *)
(* A fix run is what it leaves behind: status, re-scans, edits.  FixRun    *)
(* has the run itself.  The trace is left out, but for one thing: it       *)
(* cannot be written once the run's row is gone, which ends the master.    *)
(***************************************************************************)
EXTENDS DemoSample

CONSTANTS
  Pools,      \* what the real run may leave: sequences of findings
  Modes,      \* the trigger endpoints in use: auto, hitl, review, git
  HitlCap,    \* findings per scanner in the three human modes
  AutoFix,    \* settings: the fixer is chained and env2 is configured
  Results,    \* what a fix run may leave behind
  MaxReview,  \* bound: approvals and rejections
  MaxFaults   \* bound: failed database calls

Findings == UNION {{f.id : f \in ToSet(p)} : p \in Pools}

ASSUME DemoAssumption ==
  /\ IsFiniteSet(Findings)
  /\ Modes \subseteq {"auto", "hitl", "review", "git"}
  /\ AutoFix \in BOOLEAN
  /\ MaxReview \in Nat /\ MaxFaults \in Nat
  /\ \A r \in Results :
       /\ r.status \in {"success", "rolled_back", "failed", "unknown"}
       /\ r.edits \in {"none", "failed", "landed"}
       /\ r.rescans \subseteq [about: {"own", "other", "all"},
                               passed: BOOLEAN]

VARIABLES
  mode,     \* the endpoint that was called
  pool,     \* what the real run left
  real,     \* agent_runs.status of the real run
  run,      \* the demo run: status, flag (cancellation_requested)
  pc,       \* the master's next step
  issues,   \* demo.issues of the run: the findings that were copied
  plans,    \* the planning workers that have not finished
  pkg,      \* demo.remediation_packages.status of a finding's package
  loop,     \* the fix loop: the packages to take (todo), the one it is at
            \* (cur) with what its fix run left (row), whether the rule ids
            \* could be looked up (known), and its counters (tally)
  tasks,    \* per finding, the approvals' dispatches that are pending
  ended,    \* history: per finding, how its fix runs ended
  proved,   \* history: the findings with a passing re-scan of their own
  late,     \* history: packages dispatched by the loop after the cancel
  reviews,  \* approvals and rejections so far
  faults    \* failed database calls so far

request == <<mode, pool, real>>
history == <<ended, proved, late>>
vars == <<request, run, pc, issues, plans, pkg, loop, tasks, history, reviews,
          faults>>

Statuses == {"awaiting_approval", "rejected", "ready_for_execution", "fixed",
             "rolled_back", "fix_failed", "awaiting_review"}
Buckets == {"covered", "fixed", "remain", "no_fix_needed", "unaddressed"}
Endings == {"success", "rolled_back", "failed"}
Closed == {"completed", "failed", "cancelled"}
Pipeline == {"real", "load", "sample", "remediate", "plan", "flag", "fix",
             "loop", "dispatch", "running", "read", "summarize", "fail"}

Init ==
  /\ mode \in Modes
  /\ pool = <<>>
  /\ real = "none"
  /\ run = [status |-> "none", flag |-> FALSE]
  /\ pc = "none"
  /\ issues = {} /\ plans = {}
  /\ pkg = [i \in Findings |-> "none"]
  /\ loop = [todo |-> {}, cur |-> 0, row |-> {}, known |-> FALSE,
             tally |-> [b \in Buckets |-> 0]]
  /\ tasks = [i \in Findings |-> 0]
  /\ ended = [i \in Findings |-> {}]
  /\ proved = {} /\ late = 0
  /\ reviews = 0 /\ faults = 0

\* a database call fails
Hiccup == faults < MaxFaults /\ faults' = faults + 1

-----------------------------------------------------------------------------
(* The request and the real run *)

\* the real row is inserted first; without the demo row the request fails
\* and nothing will ever run the real one
Trigger ==
  /\ real = "none"
  /\ real' = "queued"
  /\ \/ /\ run' = [run EXCEPT !.status = "queued"]
        /\ pc' = "real"
        /\ UNCHANGED faults
     \/ Hiccup /\ UNCHANGED <<run, pc>>
  /\ UNCHANGED <<mode, pool, issues, plans, pkg, loop, tasks, history,
                 reviews>>

\* waits for a real run that is complete
RealRun_complete ==
  /\ pc = "real" /\ real = "completed"
  /\ pc' = "load"
  /\ UNCHANGED <<request, run, issues, plans, pkg, loop, tasks, history,
                 reviews, faults>>
\* run_master returns, whatever became of the real run
RealRun ==
  /\ pc = "real"
  /\ real' = "closed"
  /\ pool' \in Pools
  /\ pc' = "load"
  /\ UNCHANGED <<mode, run, issues, plans, pkg, loop, tasks, history, reviews,
                 faults>>

-----------------------------------------------------------------------------
(* Steps of the graph *)

\* the row that the trace of every step needs
Alive == run.status # "none"
At(node) == pc = node /\ Alive

\* an update touches nothing when the row is gone
SetPkg(i, s) == pkg' = [pkg EXCEPT ![i] = IF @ = "none" THEN @ ELSE s]

Cancelled == run.flag \/ run.status \notin {"running", "queued"}

\* is_cancellation_requested_demo: a failed read answers no
Poll_deaf(c) == c = FALSE /\ UNCHANGED faults
Poll(c) == (c = Cancelled /\ UNCHANGED faults) \/ (~c /\ Hiccup)

\* a failed database call raises: the graph ends in the fail node
Raise ==
  /\ \E n \in {"load", "sample", "remediate", "plan", "fix", "read",
               "summarize"} : At(n)
  /\ Hiccup
  /\ pc' = "fail"
  /\ UNCHANGED <<request, run, issues, plans, pkg, loop, tasks, history,
                 reviews>>

\* the trace insert raises, in the fail node as well: the task is over
Lost ==
  /\ pc \in Pipeline \ {"real"} /\ ~Alive
  /\ pc' = "done"
  /\ UNCHANGED <<request, run, issues, plans, pkg, loop, tasks, history,
                 reviews, faults>>

LoadContext ==
  /\ At("load")
  /\ run' = [run EXCEPT !.status = "running"]
  /\ pc' = "sample"
  /\ UNCHANGED <<request, issues, plans, pkg, loop, tasks, history, reviews,
                 faults>>

Cap == IF mode = "auto" THEN 0 ELSE HitlCap

Sampled(p, cap) == {f.id : f \in ToSet(Sample(p, cap))}

SampleNode ==
  /\ At("sample")
  /\ \E c \in BOOLEAN :
       /\ Poll(c)
       /\ \/ c /\ pc' = "done" /\ UNCHANGED issues
          \/ /\ ~c /\ pc' = "remediate"
             /\ issues' = Sampled(pool, Cap)
  /\ UNCHANGED <<request, run, plans, pkg, loop, tasks, history, reviews>>

\* the workers start; without findings there is nothing to plan
Remediate ==
  /\ At("remediate")
  /\ \E c \in BOOLEAN :
       /\ Poll(c)
       /\ \/ c /\ pc' = "done" /\ UNCHANGED plans
          \/ ~c /\ pc' = "plan" /\ plans' = issues
  /\ UNCHANGED <<request, run, issues, pkg, loop, tasks, history, reviews>>

\* a worker is done: its package is stored, or refused by the validators, or
\* there is none (no family, no pattern, an exception)
PlanOne(i) ==
  /\ At("plan") /\ i \in plans
  /\ plans' = plans \ {i}
  /\ \/ pkg' = [pkg EXCEPT ![i] = "awaiting_approval"]
     \/ UNCHANGED pkg
  /\ UNCHANGED <<request, run, pc, issues, loop, tasks, history, reviews,
                 faults>>

PlanDone ==
  /\ At("plan") /\ plans = {}
  /\ pc' = IF mode = "hitl" THEN "flag" ELSE "fix"
  /\ UNCHANGED <<request, run, issues, plans, pkg, loop, tasks, history,
                 reviews, faults>>

\* hitl: one update over the run's packages, whatever their status by now
FlagPackages ==
  /\ At("flag")
  /\ \/ /\ pkg' = [i \in Findings |-> IF pkg[i] = "none" THEN "none"
                                      ELSE "awaiting_approval"]
        /\ UNCHANGED faults
     \/ Hiccup /\ UNCHANGED pkg
  /\ pc' = "fix"
  /\ UNCHANGED <<request, run, issues, plans, loop, tasks, history, reviews>>

\* the fix node takes the run's packages, or skips them; the rule ids of the
\* findings are looked up in one query, which may fail
FixNode ==
  /\ At("fix")
  /\ \E c, k \in BOOLEAN :
       /\ Poll(c)
       /\ LET mine == {i \in Findings : i \in issues /\ pkg[i] # "none"}
              skip == mode = "hitl" \/ ~AutoFix \/ mine = {}
          IN \/ c /\ pc' = "done" /\ UNCHANGED loop
             \/ ~c /\ skip /\ pc' = "summarize" /\ UNCHANGED loop
             \/ /\ ~c /\ ~skip /\ pc' = "loop"
                /\ loop' = [loop EXCEPT !.todo = mine, !.known = k]
  /\ UNCHANGED <<request, run, issues, plans, pkg, tasks, history, reviews>>

-----------------------------------------------------------------------------
(* The fix loop *)

Take ==
  /\ At("loop") /\ loop.todo # {}
  /\ \E c \in BOOLEAN, i \in loop.todo :
       /\ Poll(c)
       /\ \/ c /\ pc' = "done" /\ UNCHANGED loop
          \/ /\ ~c /\ pc' = "dispatch"
             /\ loop' = [loop EXCEPT !.cur = i, !.todo = @ \ {i}]
  /\ UNCHANGED <<request, run, issues, plans, pkg, tasks, history, reviews>>

\* the package is shown as being worked on, unless the write fails
Dispatch ==
  /\ At("dispatch")
  /\ \/ SetPkg(loop.cur, "ready_for_execution") /\ UNCHANGED faults
     \/ Hiccup /\ UNCHANGED pkg
  /\ late' = IF run.flag THEN late + 1 ELSE late
  /\ pc' = "running"
  /\ UNCHANGED <<request, run, issues, plans, loop, tasks, ended, proved,
                 reviews>>

Count(bs) == [b \in Buckets |-> IF b \in bs THEN loop.tally[b] + 1
                                ELSE loop.tally[b]]

\* the package stays as it is
FixerRaises ==
  /\ At("running")
  /\ loop' = [loop EXCEPT !.tally = Count({"covered", "remain"})]
  /\ pc' = "loop"
  /\ UNCHANGED <<request, run, issues, plans, pkg, tasks, history, reviews,
                 faults>>

\* the endings that the histories tell apart
Ended(i, v) == ended' = [ended EXCEPT ![i] = @ \cup
                           {IF v \in Endings THEN v ELSE "failed"}]

FixerReturns ==
  /\ At("running")
  /\ \E r \in Results : /\ loop' = [loop EXCEPT !.row = {r}]
                        /\ Ended(loop.cur, r.status)
  /\ pc' = "read"
  /\ UNCHANGED <<request, run, issues, plans, pkg, tasks, proved, late,
                 reviews, faults>>

Passed(r) == {s \in r.rescans : s.passed}

\* the status the loop derives from what the run left
Verdict(r) ==
  CASE r.status # "success" -> r.status
    [] r.status = "success" /\ Passed(r) \notin {{}, r.rescans} ->
         "partial_success"
    [] OTHER -> IF r.edits = "failed" THEN "no_fix_needed" ELSE "success"

\* a passing re-scan asserts that this finding's rule is gone
Verified_any(r) == Passed(r) # {}
Verified(r) ==
  \E s \in Passed(r) : s.about = "all" \/ (s.about = "own" /\ loop.known)

Bucket(r) ==
  CASE Verdict(r) \in {"success", "partial_success"} ->
         IF Verified(r) THEN "fixed" ELSE "unaddressed"
    [] Verdict(r) = "no_fix_needed" -> "no_fix_needed"
    [] OTHER -> "remain"

ByReview == mode = "review"
ByPullRequest == mode = "git"
Reviewed == ByReview \/ ByPullRequest

Outcome_raw(v) == v
\* the package status of a verdict; none for one the table does not have
Outcome(v) ==
  CASE v = "failed" -> "fix_failed"
    [] v = "rolled_back" -> "rolled_back"
    [] v \in {"success", "partial_success", "no_fix_needed"} ->
         IF Reviewed THEN "awaiting_review" ELSE "fixed"
    [] OTHER -> "none"

ReadBack ==
  /\ At("read")
  /\ \E r \in loop.row :
       /\ loop' = [loop EXCEPT !.row = {},
                               !.tally = Count({"covered", Bucket(r)})]
       /\ proved' = IF /\ r.status = "success"
                       /\ \E s \in Passed(r) : s.about # "other"
                    THEN proved \cup {loop.cur} ELSE proved
       /\ LET s == Outcome(Verdict(r))
          IN \/ s # "none" /\ SetPkg(loop.cur, s) /\ UNCHANGED faults
             \/ s = "none" /\ UNCHANGED <<pkg, faults>>
             \/ s # "none" /\ Hiccup /\ UNCHANGED pkg
  /\ pc' = "loop"
  /\ UNCHANGED <<request, run, issues, plans, tasks, ended, late, reviews>>

LoopDone ==
  /\ At("loop") /\ loop.todo = {}
  /\ pc' = "summarize"
  /\ UNCHANGED <<request, run, issues, plans, pkg, loop, tasks, history,
                 reviews, faults>>

\* both write over whatever status the row has by now
Close(node, status) ==
  /\ At(node)
  /\ run' = [run EXCEPT !.status = status]
  /\ pc' = "done"
  /\ UNCHANGED <<request, issues, plans, pkg, loop, tasks, history, reviews,
                 faults>>

Summarize == Close("summarize", "completed")
Fail == Close("fail", "failed")

Master ==
  \/ RealRun \/ LoadContext \/ SampleNode \/ Remediate
  \/ \E i \in Findings : PlanOne(i)
  \/ PlanDone \/ FlagPackages \/ FixNode
  \/ Take \/ Dispatch \/ FixerRaises \/ FixerReturns \/ ReadBack \/ LoopDone
  \/ Summarize \/ Fail \/ Lost

-----------------------------------------------------------------------------
(* Operators *)

Undecided(i) == pkg[i] \notin {"none", "ready_for_execution", "rejected"}

Approve(i) ==
  /\ reviews < MaxReview
  /\ Undecided(i)
  /\ SetPkg(i, "ready_for_execution")
  /\ tasks' = [tasks EXCEPT ![i] = @ + 1]
  /\ reviews' = reviews + 1
  /\ UNCHANGED <<request, run, pc, issues, plans, loop, history, faults>>

Reject(i) ==
  /\ reviews < MaxReview
  /\ Undecided(i)
  /\ SetPkg(i, "rejected")
  /\ reviews' = reviews + 1
  /\ UNCHANGED <<request, run, pc, issues, plans, loop, tasks, history,
                 faults>>

\* the dispatch of an approval: the fixer, then its outcome on the package;
\* a failed read takes the package for one without a review, a failed write
\* is swallowed
Dispatched(i) ==
  /\ tasks[i] > 0
  /\ tasks' = [tasks EXCEPT ![i] = @ - 1]
  /\ \E v \in Endings :
       /\ Ended(i, v)
       /\ \/ SetPkg(i, Outcome(v)) /\ UNCHANGED faults
          \/ Hiccup /\ UNCHANGED pkg
          \/ Hiccup /\ v = "success" /\ SetPkg(i, "fixed")
  /\ UNCHANGED <<request, run, pc, issues, plans, loop, proved, late,
                 reviews>>

Cancel ==
  /\ Alive /\ ~run.flag
  /\ run' = [status |-> "cancelled", flag |-> TRUE]
  /\ UNCHANGED <<request, pc, issues, plans, pkg, loop, tasks, history,
                 reviews, faults>>

\* the demo tables are wiped, whatever is going on
Reset ==
  /\ Alive
  /\ run' = [status |-> "none", flag |-> FALSE]
  /\ pkg' = [i \in Findings |-> "none"]
  /\ issues' = {}
  /\ UNCHANGED <<request, pc, plans, loop, tasks, history, reviews, faults>>

Next ==
  \/ Trigger \/ Master \/ Raise
  \/ \E i \in Findings : Approve(i) \/ Reject(i) \/ Dispatched(i)
  \/ Cancel \/ Reset

Spec == Init /\ [][Next]_vars

\* the background task of the request goes on; operators may do nothing
FairSpec == Spec /\ WF_vars(Master)

-----------------------------------------------------------------------------
(* Properties *)

\* The types of the variables.
TypeOK ==
  /\ mode \in Modes /\ pool \in Pools \cup {<<>>}
  /\ real \in {"none", "queued", "closed"}
  /\ run \in [status: {"none", "queued", "running"} \cup Closed,
              flag: BOOLEAN]
  /\ pc \in Pipeline \cup {"none", "done"}
  /\ issues \subseteq Findings /\ plans \subseteq Findings
  /\ pkg \in [Findings -> Statuses \cup {"none"}]
  /\ loop \in [todo: SUBSET Findings, cur: Findings \cup {0},
               row: SUBSET Results, known: BOOLEAN, tally: [Buckets -> Nat]]
  /\ tasks \in [Findings -> 0 .. MaxReview]
  /\ ended \in [Findings -> SUBSET Endings]
  /\ proved \subseteq Findings /\ late \in Nat
  /\ reviews \in 0 .. MaxReview /\ faults \in 0 .. MaxFaults

\* The findings that a sample of p picked repeat none, and a finding of a
\* scanner with a scoop is left out only for a twin that was picked, for as
\* many findings of that scanner that are at least as risky, or for the hard
\* cap.
SoundSample(p, picks, cap) ==
  LET picked == {f \in ToSet(p) : f.id \in picks}
  IN /\ \A f, g \in picked : f.key = g.key => f = g
     /\ picks # {} => \A f \in ToSet(p) \ picked, k \in DOMAIN Scoops :
          f.source = Scoops[k][1] =>
            \/ \E g \in picked : g.key = f.key
            \/ Cardinality({g \in picked : g.source = f.source
                                          /\ g.rank >= f.rank})
                 >= (IF cap = 0 THEN Scoops[k][2] ELSE cap)
            \/ Cardinality(picked) = MaxSample
SampleSound == SoundSample(pool, issues, Cap)

\* The report of the run: every finding the fix loop went through is in one
\* bucket, and none is reported fixed unless a run of its package succeeded
\* with a passing re-scan for its own rule or for the whole target.
ReportHonest ==
  LET tally == loop.tally
  IN /\ tally["covered"] = tally["fixed"] + tally["remain"]
                           + tally["no_fix_needed"] + tally["unaddressed"]
     /\ tally["covered"] + Cardinality(loop.todo) <= Cardinality(Findings)
     /\ tally["fixed"] <= Cardinality(proved)

\* The status a package shows is one that a fix run of it earned, whichever
\* of the loop, the dispatches and the requests wrote last; and a package to
\* be reviewed is not shown as fixed before its review.
StatusEarned ==
  /\ \A i \in Findings :
       /\ pkg[i] \in {"fixed", "awaiting_review"} => "success" \in ended[i]
       /\ pkg[i] = "rolled_back" => "rolled_back" \in ended[i]
       /\ pkg[i] = "fix_failed" => "failed" \in ended[i]
  /\ Reviewed /\ faults = 0 => \A i \in Findings : pkg[i] # "fixed"

\* What the operators are shown at any moment of a run.
Truthful == SampleSound /\ ReportHonest /\ StatusEarned

\* After the cancel request the loop dispatches at most the package it had
\* already taken, and one more for each poll that failed.
StopsSoon == late <= 1 + faults

\* Once the rows are there the run is closed, unless it is cancelled or wiped.
RunCloses ==
  (run.status = "queued") ~>
    (run.status \in {"completed", "failed", "none"} \/ run.flag)

\* The docstring of run_demo_master: the cancelled status is not overwritten.
CancelKept ==
  [][run.status = "cancelled" => run'.status \in {"cancelled", "none"}]_vars
=============================================================================

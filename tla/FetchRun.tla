------------------------------ MODULE FetchRun ------------------------------
(***************************************************************************)
(* An agent run: the trigger inserts a row of agent_runs and starts the    *)
(* Master, which fetches from each scanner in a thread of its own          *)
(* (Sub-Agent 1), then enriches the run's issues (Sub-Agent 2) and writes  *)
(* a summary.  An operator may stop the run at any moment: the cancel      *)
(* endpoint sets a flag that the threads poll, and wipes the scanners'     *)
(* data while they go on.                                                  *)
(***************************************************************************)
EXTENDS Integers, FiniteSets

CONSTANTS
  Runs,      \* rows of agent_runs, one per click on Fetch
  Tools,     \* rows of connection_registry
  Targets,   \* the sets of scanners that runs are triggered for
  Lag,       \* how much older than its appearance a finding's stamp may be
  Overlap,   \* two trigger requests may be in progress at once
  Faults,    \* what may go wrong, see below
  MaxFound,  \* bound: findings the scanners report
  MaxFaults  \* bound: faults that happen

FaultKinds == {"cancel",  \* an operator stops a run
               "raise",   \* a node of the Master's graph, and its safety net
               "thread",  \* a statement of a fetch thread
               "row",     \* normalizing, inserting or enriching a single row
               "restart", \* the backend restarts
               "check"}   \* a poll of the flag, which then answers "go on"

ASSUME FetchAssumption ==
  /\ Targets \subseteq (SUBSET Tools) \ {{}}
  /\ Lag \in Nat
  /\ Overlap \in BOOLEAN
  /\ Faults \subseteq FaultKinds
  /\ MaxFound \in Nat
  /\ MaxFaults \in Nat

VARIABLES
  now,      \* the clock, which counts the findings reported
  found,    \* the findings the scanners have reported, and when
  mark,     \* connection_registry.last_fetched_at, 0 for NULL
  raw,      \* raw_findings, as <<run, tool, finding>>
  issues,   \* issues, the same way
  enriched, \* issues that Sub-Agent 2 has updated
  status,   \* agent_runs.status, "none" before the row is inserted
  flag,     \* agent_runs.cancellation_requested
  old,      \* the row is older than _DUPLICATE_WINDOW_SECONDS
  targets,  \* agent_runs.targets
  pc,       \* the node the Master is in
  plan,     \* the plan has an ENRICH step
  job,      \* the thread that fetches from a tool
  todo,     \* issues that Sub-Agent 2 has loaded and not processed
  wipe,     \* what the cancel endpoint does next for a tool
  faults    \* number of faults so far

tables == <<mark, raw, issues, enriched>>
runRow == <<status, flag, old, targets>>
vars == <<now, found, tables, runRow, pc, plan, job, todo, wipe, faults>>

Ids == 1 .. MaxFound
Finding == [tool : Tools, id : Ids, stamp : 0 .. MaxFound]

Status == {"none", "queued", "running", "completed", "failed", "cancelled"}
InFlight == {"queued", "running"}
Before == {"load_context", "plan", "fetch_all"}
After == {"enrich", "run_enrich", "enriching", "summarize", "report",
          "cancelled", "fail", "done", "dead"}
PC == {"none", "asked", "fetching"} \cup Before \cup After

Thread == {"no", "ready", "connect", "fetch", "empty", "store", "rows",
           "raised", "escaped", "ended"}
RowState == {"no", "pending", "checked", "inserted", "failed", "skipped"}
Settled == {"no", "inserted", "failed", "skipped"}
Job == [at : Thread, last : 0 .. MaxFound, began : 0 .. MaxFound,
        row : [Ids -> RowState]]
NoRows == [i \in Ids |-> "no"]
NoJob == [at |-> "no", last |-> 0, began |-> 0, row |-> NoRows]
Ends(at) == [NoJob EXCEPT !.at = at]  \* the thread's variables are gone

WipeStep == {"no", "issues", "raw", "mark"}

Init ==
  /\ now = 0
  /\ found = {}
  /\ mark = [t \in Tools |-> 0]
  /\ raw = {} /\ issues = {} /\ enriched = {}
  /\ status = [r \in Runs |-> "none"]
  /\ flag = [r \in Runs |-> FALSE]
  /\ old = [r \in Runs |-> FALSE]
  /\ targets = [r \in Runs |-> {}]
  /\ pc = [r \in Runs |-> "none"]
  /\ plan = [r \in Runs |-> FALSE]
  /\ job = [r \in Runs |-> [t \in Tools |-> NoJob]]
  /\ todo = [r \in Runs |-> {}]
  /\ wipe = [r \in Runs |-> [t \in Tools |-> "no"]]
  /\ faults = 0

Fault(kind) == kind \in Faults /\ faults < MaxFaults /\ faults' = faults + 1

Goto(r, next) == pc' = [pc EXCEPT ![r] = next]
IssuesOf(r) == {x \in issues : x[1] = r}

(* is_cancellation_requested: the flag, or a status that somebody else     *)
(* has closed.  A poll that fails says no.                                 *)
Stops_status(r) == status[r] \notin InFlight
Stops(r) == flag[r] \/ status[r] \notin InFlight
Polls(r) == {Stops(r)} \cup (IF "check" \in Faults THEN {FALSE} ELSE {})

-----------------------------------------------------------------------------
(* The scanners.                                                           *)

(* A finding becomes visible.  Its stamp is the moment it does, or up to   *)
(* Lag ticks earlier: a truncated or an upstream time.                     *)
Report(t) ==
  /\ now < MaxFound
  /\ now' = now + 1
  /\ \E late \in 0 .. Lag :
       /\ late <= now
       /\ found' = found \cup
            {[tool |-> t, id |-> now + 1, stamp |-> now + 1 - late]}
  /\ UNCHANGED <<tables, runRow, pc, plan, job, todo, wipe, faults>>

-----------------------------------------------------------------------------
(* Trigger and cancel.                                                     *)

(* The second layer of deduplication: a run of the same scanners, not      *)
(* closed and younger than the window.  (The first one answers a repeated  *)
(* event_id from the row that has it, and changes nothing.)                *)
Recent_running(S) ==
  {s \in Runs : status[s] = "running" /\ ~old[s] /\ targets[s] = S}
Recent(S) ==
  {s \in Runs : status[s] \in InFlight /\ ~old[s] /\ targets[s] = S}

(* trigger_run finds no such run, for which all that are in flight have    *)
(* to be older than the window by now, ...                                 *)
TriggerCheck(r, S) ==
  /\ pc[r] = "none"
  /\ Overlap \/ \A s \in Runs : pc[s] # "asked"
  /\ old' = [s \in Runs |-> old[s] \/ s \in Recent(S)]
  /\ targets' = [targets EXCEPT ![r] = S]
  /\ Goto(r, "asked")
  /\ UNCHANGED <<now, found, tables, status, flag, plan, job, todo, wipe, faults>>

(* ... and inserts the row; run_master is started in the background.       *)
TriggerInsert(r) ==
  /\ pc[r] = "asked"
  /\ status' = [status EXCEPT ![r] = "queued"]
  /\ Goto(r, "load_context")
  /\ UNCHANGED <<now, found, tables, flag, old, targets, plan, job, todo, wipe, faults>>

(* cancel_run, which the page offers for a queued or running run: the row  *)
(* is updated, then the tools are wiped one after the other.               *)
Cancel(r) ==
  /\ status[r] \in InFlight
  /\ \A t \in Tools : wipe[r][t] = "no"
  /\ Fault("cancel")
  /\ status' = [status EXCEPT ![r] = "cancelled"]
  /\ flag' = [flag EXCEPT ![r] = TRUE]
  /\ wipe' = [wipe EXCEPT ![r] =
                [t \in Tools |-> IF t \in targets[r] THEN "issues" ELSE "no"]]
  /\ UNCHANGED <<now, found, tables, old, targets, pc, plan, job, todo>>

Wiping(r, t, step, next) ==
  /\ wipe[r][t] = step
  /\ wipe' = [wipe EXCEPT ![r][t] = next]
  /\ UNCHANGED <<now, found, runRow, pc, plan, job, todo, faults>>

NotOf(t, S) == {x \in S : x[2] # t}

WipeIssues(r, t) ==
  /\ \A u \in Tools : wipe[r][u] \notin {"raw", "mark"}
  /\ issues' = NotOf(t, issues)
  /\ enriched' = NotOf(t, enriched)
  /\ UNCHANGED <<mark, raw>>
  /\ Wiping(r, t, "issues", "raw")

WipeRaw(r, t) ==
  /\ raw' = NotOf(t, raw)
  /\ UNCHANGED <<mark, issues, enriched>>
  /\ Wiping(r, t, "raw", "mark")

WipeMark(r, t) ==
  /\ mark' = [mark EXCEPT ![t] = 0]
  /\ UNCHANGED <<raw, issues, enriched>>
  /\ Wiping(r, t, "mark", "no")

-----------------------------------------------------------------------------
(* The Master's graph.                                                     *)

(* _load_context_node marks the run as running whatever its status is.     *)
LoadContext(r) ==
  /\ pc[r] = "load_context"
  /\ status' = [status EXCEPT ![r] = "running"]
  /\ Goto(r, "plan")
  /\ UNCHANGED <<now, found, tables, flag, old, targets, plan, job, todo, wipe, faults>>

(* _plan_node: the plan fetches from the run's targets, and may enrich.    *)
Plan(r) ==
  /\ pc[r] = "plan"
  /\ \E e \in BOOLEAN : plan' = [plan EXCEPT ![r] = e]
  /\ Goto(r, "fetch_all")
  /\ UNCHANGED <<now, found, tables, runRow, job, todo, wipe, faults>>

(* _fetch_all_node: one thread per FETCH step, or RunCancelledError.       *)
FetchAll(r) ==
  /\ pc[r] = "fetch_all"
  /\ \E stop \in Polls(r) :
       IF stop THEN Goto(r, "cancelled") /\ UNCHANGED job
       ELSE /\ Goto(r, "fetching")
            /\ job' = [job EXCEPT ![r] = [t \in Tools |->
                 Ends(IF t \in targets[r] THEN "ready" ELSE "no")]]
  /\ UNCHANGED <<now, found, tables, runRow, plan, todo, wipe, faults>>

(* The pool's `with` block waits for every thread; an exception that one   *)
(* of them let out is raised afterwards.                                   *)
Joined_nowait(r) == TRUE
Joined(r) == \A t \in targets[r] : job[r][t].at \in {"ended", "escaped"}

NextNode(r) == IF \E t \in targets[r] : job[r][t].at = "escaped" THEN "fail"
               ELSE IF plan[r] THEN "enrich" ELSE "summarize"

Join(r) ==
  /\ pc[r] = "fetching"
  /\ Joined(r)
  /\ Goto(r, NextNode(r))
  /\ UNCHANGED <<now, found, tables, runRow, plan, job, todo, wipe, faults>>

(* _enrich_node checks the flag and calls run_enrich, ...                  *)
Enrich(r) ==
  /\ pc[r] = "enrich"
  /\ \E stop \in Polls(r) : Goto(r, IF stop THEN "cancelled" ELSE "run_enrich")
  /\ UNCHANGED <<now, found, tables, runRow, plan, job, todo, wipe, faults>>

(* ... which checks it again and loads the run's issues once.  Whatever it *)
(* raises is caught in _enrich_node, a RunCancelledError too.              *)
LoadIssues(r) ==
  /\ pc[r] = "run_enrich"
  /\ \E stop \in Polls(r) :
       IF stop THEN Goto(r, "summarize") /\ UNCHANGED todo
       ELSE Goto(r, "enriching") /\ todo' = [todo EXCEPT ![r] = IssuesOf(r)]
  /\ UNCHANGED <<now, found, tables, runRow, plan, job, wipe, faults>>

(* run_enrich._process_one updates every issue that still exists, in       *)
(* parallel; after a cancel only those that were polled before it.         *)
EnrichIssues(r) ==
  /\ pc[r] = "enriching"
  /\ \E S \in SUBSET todo[r] :
       /\ S = todo[r] \/ Stops(r)
       /\ enriched' = enriched \cup (S \cap issues)
  /\ todo' = [todo EXCEPT ![r] = {}]
  /\ Goto(r, "summarize")
  /\ UNCHANGED <<now, found, mark, raw, issues, runRow, plan, job, wipe, faults>>

(* One of them fails.                                                      *)
EnrichFails(r, x) ==
  /\ pc[r] = "enriching" /\ x \in todo[r]
  /\ Fault("row")
  /\ todo' = [todo EXCEPT ![r] = @ \ {x}]
  /\ UNCHANGED <<now, found, tables, runRow, pc, plan, job, wipe>>

(* _summarize_node writes completed, again without a look at the row, and  *)
(* then emits its traces.                                                  *)
Summarize(r) ==
  /\ pc[r] = "summarize"
  /\ status' = [status EXCEPT ![r] = "completed"]
  /\ Goto(r, "report")
  /\ UNCHANGED <<now, found, tables, flag, old, targets, plan, job, todo, wipe, faults>>

Finish(r) ==
  /\ \/ pc[r] = "report"
     \/ pc[r] = "cancelled"  \* run_master: a trace, and the status as it is
  /\ Goto(r, "done")
  /\ UNCHANGED <<now, found, tables, runRow, plan, job, todo, wipe, faults>>

(* run_master: an exception of a node ends in _fail_node, unless it is the *)
(* one that _enrich_node catches.                                          *)
Caught_lost(r) == "done"
Caught(r) == IF pc[r] = "run_enrich" THEN "summarize" ELSE "fail"

NodeRaises(r) ==
  /\ pc[r] \in {"load_context", "plan", "fetch_all", "enrich", "run_enrich",
                "summarize", "report"}
  /\ Fault("raise")
  /\ Goto(r, Caught(r))
  /\ UNCHANGED <<now, found, tables, runRow, plan, job, todo, wipe>>

Fail_error(r) ==
  /\ pc[r] = "fail"
  /\ status' = [status EXCEPT ![r] = "error"]
  /\ Goto(r, "done")
  /\ UNCHANGED <<now, found, tables, flag, old, targets, plan, job, todo, wipe, faults>>
Fail(r) ==
  /\ pc[r] = "fail"
  /\ status' = [status EXCEPT ![r] = "failed"]
  /\ Goto(r, "done")
  /\ UNCHANGED <<now, found, tables, flag, old, targets, plan, job, todo, wipe, faults>>

(* _fail_node emits its trace first: if that fails, as when the outage     *)
(* that led to it goes on, nobody is left to close the run.                *)
FailRaises(r) ==
  /\ pc[r] = "fail"
  /\ "raise" \in Faults
  /\ Goto(r, "dead")
  /\ UNCHANGED <<now, found, tables, runRow, plan, job, todo, wipe, faults>>

-----------------------------------------------------------------------------
(* Sub-Agent 1: a fetch thread.                                            *)

(* A step of a thread that is at `at`: it becomes j.                       *)
Moves(r, t, at, j) ==
  /\ job[r][t].at = at
  /\ job' = [job EXCEPT ![r][t] = j]
  /\ UNCHANGED <<now, found, runRow, pc, plan, todo, wipe>>

(* _run_single_fetch reads the registry row, which carries the watermark.  *)
ReadRegistry(r, t) ==
  /\ Moves(r, t, "ready",
           [job[r][t] EXCEPT !.at = "connect", !.last = mark[t]])
  /\ UNCHANGED <<tables, faults>>

(* run_fetch takes the next watermark before it asks the connector ...     *)
Connect(r, t) ==
  /\ Moves(r, t, "connect", [job[r][t] EXCEPT !.at = "fetch", !.began = now])
  /\ UNCHANGED <<tables, faults>>

(* ... for the rows that are newer than the last one.                      *)
Newer(r, t) ==
  {f.id : f \in {g \in found : g.tool = t /\ g.stamp > job[r][t].last}}

FetchRows(r, t) ==
  /\ Moves(r, t, "fetch",
           [at    |-> IF Newer(r, t) = {} THEN "empty" ELSE "store",
            last  |-> 0,
            began |-> job[r][t].began,
            row   |-> [i \in Ids |-> IF i \in Newer(r, t) THEN "pending" ELSE "no"]])
  /\ UNCHANGED <<tables, faults>>

(* The watermark of a fetch is the time it began.                          *)
NewMark_end(r, t) == now
NewMark(r, t) == job[r][t].began

(* Nothing is new: the watermark moves all the same.                       *)
NothingNew(r, t) ==
  /\ Moves(r, t, "empty", Ends("ended"))
  /\ mark' = [mark EXCEPT ![t] = NewMark(r, t)]
  /\ UNCHANGED <<raw, issues, enriched, faults>>

(* All rows go to raw_findings in one insert.                              *)
StoreRaw(r, t) ==
  /\ Moves(r, t, "store", [job[r][t] EXCEPT !.at = "rows"])
  /\ raw' = raw \cup {<<r, t, i>> : i \in {k \in Ids : job[r][t].row[k] # "no"}}
  /\ UNCHANGED <<mark, issues, enriched, faults>>

(* run_fetch._process_one polls the flag, asks the LLM and inserts the     *)
(* issue, which refers to its raw row: a wipe in between makes it fail.    *)
Row(r, t, i) == job[r][t].row[i]
RowMoves(r, t, i, state) ==
  Moves(r, t, "rows",
        [job[r][t] EXCEPT !.row = [job[r][t].row EXCEPT ![i] = state]])

CheckRow(r, t, i) ==
  /\ Row(r, t, i) = "pending"
  /\ \E stop \in Polls(r) :
       RowMoves(r, t, i, IF stop THEN "skipped" ELSE "checked")
  /\ UNCHANGED <<tables, faults>>

InsertIssue(r, t, i) ==
  /\ Row(r, t, i) = "checked"
  /\ \/ /\ <<r, t, i>> \in raw
        /\ issues' = issues \cup {<<r, t, i>>}
        /\ RowMoves(r, t, i, "inserted")
     \/ /\ <<r, t, i>> \notin raw
        /\ UNCHANGED issues
        /\ RowMoves(r, t, i, "failed")
  /\ UNCHANGED <<mark, raw, enriched, faults>>

NormalizeFails(r, t, i) ==
  /\ Row(r, t, i) = "checked"
  /\ Fault("row")
  /\ RowMoves(r, t, i, "failed")
  /\ UNCHANGED tables

(* After the last row: a skipped one makes run_fetch raise; otherwise one  *)
(* that was inserted moves the watermark.                                  *)
Some(r, t, state) == \E i \in Ids : Row(r, t, i) = state
AllSettled(r, t) == \A i \in Ids : Row(r, t, i) \in Settled

EndRows(r, t) ==
  /\ AllSettled(r, t)
  /\ Moves(r, t, "rows", Ends(IF Some(r, t, "skipped") THEN "raised" ELSE "ended"))
  /\ mark' = IF Some(r, t, "inserted") /\ ~Some(r, t, "skipped")
             THEN [mark EXCEPT ![t] = NewMark(r, t)] ELSE mark
  /\ UNCHANGED <<raw, issues, enriched, faults>>

(* A statement of run_fetch raises: its caller reports the error (also a   *)
(* cancellation) and goes on.  While rows are in their pool, it is raised  *)
(* after the last of them.                                                 *)
ThreadRaises(r, t) ==
  /\ \E at \in {"fetch", "empty", "store", "rows"} :
       /\ at = "rows" => AllSettled(r, t)
       /\ Moves(r, t, at, Ends("raised"))
  /\ Fault("thread")
  /\ UNCHANGED tables

ReportError(r, t) ==
  /\ Moves(r, t, "raised", Ends("ended"))
  /\ UNCHANGED <<tables, faults>>

(* Outside its try block the thread lets the exception out.                *)
ThreadEscapes(r, t) ==
  /\ \E at \in {"ready", "connect", "raised"} :
       Moves(r, t, at, Ends("escaped"))
  /\ Fault("thread")
  /\ UNCHANGED tables

-----------------------------------------------------------------------------
(* The backend restarts: runs, requests and wipes in progress are gone.    *)
Restart ==
  /\ Fault("restart")
  /\ pc' = [r \in Runs |-> CASE pc[r] \in {"none", "done"} -> pc[r]
                             [] pc[r] = "asked" -> "none"
                             [] OTHER -> "dead"]
  /\ targets' = [r \in Runs |-> IF pc[r] = "asked" THEN {} ELSE targets[r]]
  /\ job' = [r \in Runs |-> [t \in Tools |-> NoJob]]
  /\ todo' = [r \in Runs |-> {}]
  /\ wipe' = [r \in Runs |-> [t \in Tools |-> "no"]]
  /\ UNCHANGED <<now, found, tables, status, flag, old, plan>>

MasterStep(r) ==
  \/ LoadContext(r) \/ Plan(r) \/ FetchAll(r) \/ Join(r)
  \/ Enrich(r) \/ LoadIssues(r) \/ EnrichIssues(r)
  \/ Summarize(r) \/ Finish(r) \/ Fail(r)

ThreadStep(r, t) ==
  \/ ReadRegistry(r, t) \/ Connect(r, t) \/ FetchRows(r, t)
  \/ NothingNew(r, t) \/ StoreRaw(r, t)
  \/ \E i \in Ids : CheckRow(r, t, i) \/ InsertIssue(r, t, i)
  \/ EndRows(r, t) \/ ReportError(r, t)

Failure(r) ==
  \/ NodeRaises(r) \/ FailRaises(r)
  \/ \E x \in todo[r] : EnrichFails(r, x)
  \/ \E t \in Tools : ThreadRaises(r, t) \/ ThreadEscapes(r, t)
  \/ \E t \in Tools, i \in Ids : NormalizeFails(r, t, i)

Operator(r) ==
  \/ \E S \in Targets : TriggerCheck(r, S)
  \/ TriggerInsert(r) \/ Cancel(r)

WipeTool(r, t) == WipeIssues(r, t) \/ WipeRaw(r, t) \/ WipeMark(r, t)

Next ==
  \/ \E t \in Tools : Report(t)
  \/ \E r \in Runs : Operator(r) \/ MasterStep(r) \/ Failure(r)
  \/ \E r \in Runs, t \in Tools : ThreadStep(r, t) \/ WipeTool(r, t)
  \/ Restart

Spec == Init /\ [][Next]_vars

(* What can go on in the backend does: everything that a run's threads     *)
(* wait for has a time limit.                                              *)
RunStep(r) == MasterStep(r) \/ \E t \in Tools : ThreadStep(r, t)
FairSpec == Spec /\ \A r \in Runs : WF_vars(RunStep(r))

-----------------------------------------------------------------------------
(* Properties.                                                             *)

(* Every variable has its type (agent_runs.status is one of the values the *)
(* clients know).                                                          *)
TypeOK ==
  /\ now \in 0 .. MaxFound
  /\ found \subseteq Finding
  /\ mark \in [Tools -> 0 .. MaxFound]
  /\ raw \subseteq Runs \X Tools \X Ids
  /\ issues \subseteq Runs \X Tools \X Ids
  /\ enriched \subseteq issues
  /\ status \in [Runs -> Status]
  /\ flag \in [Runs -> BOOLEAN]
  /\ old \in [Runs -> BOOLEAN]
  /\ targets \in [Runs -> SUBSET Tools]
  /\ pc \in [Runs -> PC]
  /\ plan \in [Runs -> BOOLEAN]
  /\ job \in [Runs -> [Tools -> Job]]
  /\ todo \in [Runs -> SUBSET (Runs \X Tools \X Ids)]
  /\ wipe \in [Runs -> [Tools -> WipeStep]]
  /\ faults \in 0 .. MaxFaults

(* The watermark passes no finding that is not in raw_findings: overlapping*)
(* runs of one scanner, in whatever order they end, failing rows and       *)
(* failing threads lose nothing.                                           *)
Covered(t) == \A f \in found : f.tool = t /\ f.stamp <= mark[t] =>
                \E r \in Runs : <<r, t, f.id>> \in raw

(* It holds of the scanners that no cancelled run has touched.             *)
MarkCovers ==
  \A t \in Tools : Covered(t) \/ \E r \in Runs : flag[r] /\ t \in targets[r]

(* Also after a cancel, which resets the watermark so that the next fetch  *)
(* starts from the beginning.                                              *)
MarkCoversAlways ==
  \A t \in Tools : Covered(t) \/ \E r \in Runs : wipe[r][t] \in {"raw", "mark"}

(* Sub-Agent 2 loads a run's issues once; none is added after the Master   *)
(* has left the fetches, however they ended.                               *)
NoLateInsert ==
  [][\A r \in Runs : pc[r] \in After => IssuesOf(r)' \subseteq IssuesOf(r)]_vars

(* A run that is cancelled before its fetches start never starts them,     *)
(* though the Master marks it as running after the cancel.                 *)
CancelStopsFetch ==
  [][\A r \in Runs :
       flag[r] /\ pc[r] \in Before => pc[r]' \in Before \cup After]_vars

(* Two runs of the same scanners are not in flight within the window of    *)
(* the deduplication, as long as their requests do not overlap.            *)
Open(r) == status[r] \in InFlight /\ ~flag[r] /\ ~old[r]
SingleFlight ==
  \A r, s \in Runs : Open(r) /\ Open(s) /\ targets[r] = targets[s] => r = s

(* A completed run without faults and cancels has enriched every issue.    *)
EnrichedComplete ==
  \A r \in Runs : pc[r] = "done" /\ plan[r] /\ faults = 0 =>
                    IssuesOf(r) \subseteq enriched

(* A run is closed in the end, whatever fails, unless it is cancelled, the *)
(* backend restarts, or the safety net fails as well.                      *)
Closed(r) == status[r] \in {"completed", "failed", "cancelled"}
RunsFinish ==
  \A r \in Runs : (status[r] = "queued") ~>
    (Closed(r) \/ flag[r] \/ pc[r] = "dead")

(* A run that the user cancelled is recorded as cancelled.                 *)
CancelledStays ==
  \A r \in Runs : flag[r] /\ pc[r] = "done" => status[r] = "cancelled"

(* Also with cancels and failures of the safety net.                       *)
NeverStuck == \A r \in Runs : (status[r] = "queued") ~> []Closed(r)

(* When everything has stopped, no data of a cancelled scanner is left.    *)
Quiet == /\ \A r \in Runs : pc[r] \in {"none", "done"}
         /\ \A r \in Runs, t \in Tools : wipe[r][t] = "no"
CleanSlate ==
  Quiet /\ Cardinality({r \in Runs : pc[r] # "none"}) = 1 =>
    \A r \in Runs : flag[r] => \A x \in raw \cup issues : x[1] # r

(* A finding is stored once.                                               *)
StoredOnce == \A x, y \in raw : x[2] = y[2] /\ x[3] = y[3] => x = y
=============================================================================

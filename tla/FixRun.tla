------------------------------- MODULE FixRun -------------------------------
(***************************************************************************)
(* The life of a fix run of Sub-Agent 4: run_fixer holds the process-wide  *)
(* env2 lock, waits for the fix_runs table to be free, inserts its row and *)
(* drives one strategy through pre-flight, backup, execute, validate and   *)
(* rollback, while the reaper, the operator's cancel, force-release and    *)
(* reset endpoints and crashes of the backend act on the same rows and on  *)
(* the same sandbox host (env2).                                           *)
(*                                                                         *)
(* A run is one call of run_fixer.  The sandbox holds two artefacts, the   *)
(* source a strategy edits (.tf file, Dockerfile, code) and the live       *)
(* state (applied terraform, image tag, OS packages); the content of an    *)
(* artefact is the set of runs whose edit it carries.  All the runs of an  *)
(* instance work on one target, hence with one strategy: runs with other   *)
(* targets interact with them through the lock and the table alone.        *)
(***************************************************************************)
EXTENDS Naturals, FiniteSets

CONSTANTS
  Runs,       \* the calls of run_fixer
  Procs,      \* the backend processes (uvicorn workers)
  Schemas,    \* the database schemas, each with a fix_runs table
  ProcOf,     \* the process that executes a run
  SchemaOf,   \* the schema whose client the run was given
  Family,     \* the strategy the runs resolve to
  Hitl,       \* the runs dispatched by a human approval: their agent_run has
              \* already completed when they start
  Faults,     \* what the environment of this instance may do
  NoRun       \* nobody

Parts == {"source", "live"}
Families == {"iac", "image", "code", "os"}
FaultKinds == {"raise", "db", "process", "cancel", "force", "reset"}

ASSUME RunAssumption ==
  /\ ProcOf \in [Runs -> Procs]
  /\ SchemaOf \in [Runs -> Schemas]
  /\ Family \in Families
  /\ Hitl \subseteq Runs
  /\ Faults \subseteq FaultKinds
  /\ NoRun \notin Runs

VARIABLES
  pc,       \* where each run is in run_fixer
  lock,     \* _ENV2_DISPATCH_LOCK of each process: its holder
  row,      \* fix_runs.status of each run
  age,      \* the row's age: within timeout_seconds, past it, past the grace
  cancel,   \* cancellation_requested of the run's agent_run
  outcome,  \* the status of the StrategyOutcome the run has decided on
  tried,    \* its rollback_results is not empty (rollback_triggered)
  ref,      \* the artefacts the run's backup_reference can restore
  snap,     \* what the backup recorded of each artefact
  env,      \* the content of the sandbox's artefacts
  lastTxn,  \* the run that made the newest yum transaction
  sweep,    \* the rows the reaper selected and has not updated yet
  forcing,  \* the rows force-release selected and has not updated yet
  admin     \* progress of the operator's two requests

vars == <<pc, lock, row, age, cancel, outcome, tried, ref, snap, env,
          lastTxn, sweep, forcing, admin>>

\* what only the run's own thread changes, the sandbox, and the environment
result == <<outcome, tried>>
backups == <<ref, snap>>
local == <<pc, lock, result, backups>>
sandbox == <<env, lastTxn>>
watch == <<sweep, forcing, admin>>

-----------------------------------------------------------------------------
(* Status sets *)

InFlight == {"pending", "provisioning", "executing", "validating"}
Terminal == {"success", "failed", "rolled_back"}
RowStatus == {"absent"} \cup InFlight \cup Terminal
Outcomes == {"none", "success", "partial_success", "failed", "rolled_back"}

Gates == {"gate_preflight", "gate_backup", "gate_execute", "gate_validate"}
Lifecycle == Gates \cup {"preflight", "execute", "validate"}
\* inside _run_fixer_locked, the process lock held
Holding == Lifecycle \cup {"polling", "clear", "created", "rollback", "finish",
                           "release"}
PC == Holding \cup {"idle", "queued", "ended", "orphan", "dead"}

\* watchdog.NON_TERMINAL_STATUSES, the reaper's own list
NonTerminal_no_pending == {"provisioning", "executing", "validating"}
NonTerminal == {"pending", "provisioning", "executing", "validating"}

Holders == {r \in Runs : pc[r] \in Holding}
Busy(s) == {r \in Runs : SchemaOf[r] = s /\ row[r] \in InFlight}

-----------------------------------------------------------------------------
(* What the strategies do *)

\* the artefacts the steps of a strategy may edit, however the strategy ends
IacEdits == SUBSET Parts
ImageEdits == SUBSET Parts
CodeEdits == SUBSET {"source"}
OsEdits == SUBSET {"live"}
Edits == CASE Family = "iac" -> IacEdits
           [] Family = "image" -> ImageEdits
           [] Family = "code" -> CodeEdits
           [] Family = "os" -> OsEdits

\* the artefacts a completed backup may cover: an IaC run without a file has
\* none, the two halves of an image backup fail independently, an OS snapshot
\* is never read back on a yum host
IacBackups == {{}, {"source"}}
ImageBackups == SUBSET Parts
CodeBackups == {{"source"}}
OsBackups == {{}}
BackupRefs == CASE Family = "iac" -> IacBackups
                [] Family = "image" -> ImageBackups
                [] Family = "code" -> CodeBackups
                [] Family = "os" -> OsBackups

\* the artefacts strategy.rollback may end up restoring, given the reference
\* in the ctx it was handed: an IaC restore comes before the apply that makes
\* it live; the OS rollback needs no reference once pre-flight has probed yum
IacRollbacks(refs) == {done \in SUBSET Parts :
                         done = {} \/ "source" \in done \cap refs}
ImageRollbacks(refs) == SUBSET refs
CodeRollbacks(refs) == SUBSET (refs \cap {"source"})
OsRollbacks(probed) == IF probed THEN {{}, {"live"}} ELSE {{}}
RollbackSets(refs, probed) == CASE Family = "iac" -> IacRollbacks(refs)
                                [] Family = "image" -> ImageRollbacks(refs)
                                [] Family = "code" -> CodeRollbacks(refs)
                                [] Family = "os" -> OsRollbacks(probed)

\* `yum history undo last` takes back the newest transaction, whoever made it,
\* and applied twice it redoes it
UndoLast == IF lastTxn \in env["live"] THEN env["live"] \ {lastTxn}
            ELSE env["live"] \cup ({lastTxn} \ {NoRun})

Restored_baseline(r, p) == {}
Restored(r, p) == CASE Family = "os" -> UndoLast
                    [] Family = "iac" -> snap[r]["source"]
                    [] OTHER -> snap[r][p]

Restore(r, done) ==
  env' = [p \in Parts |-> IF p \in done THEN Restored(r, p) ELSE env[p]]

\* `terraform apply` makes the whole source live, not only this run's edit
Edited(r, parts) ==
  LET source == IF "source" \in parts THEN env["source"] \cup {r}
                ELSE env["source"]
      live == IF Family = "iac" THEN source ELSE env["live"] \cup {r}
  IN [env EXCEPT !["source"] = source,
                 !["live"] = IF "live" \in parts THEN live ELSE @]

\* the rollback runs at least one restore command
Tries(refs) == Family = "os" \/ refs # {}
AfterRollback_assumed(done) == "rolled_back"
AfterRollback(done) == IF done = {} THEN "failed" ELSE "rolled_back"

\* the rollback decision on the validation results: how the re-scans ended
\* and whether an ancillary test failed
Rescans == {"none", "all_passed", "all_failed", "mixed"}
Verdict(rescans, ancillaryFailed) ==
  CASE rescans = "all_failed" -> "rollback"
    [] rescans = "mixed" -> "partial_success"
    [] rescans = "none" /\ ancillaryFailed -> "rollback"
    [] OTHER -> "success"

Persisted_raw(o) == o
Persisted(o) == IF o = "partial_success" THEN "success" ELSE o
Fallback(o) == IF o = "partial_success" THEN "failed" ELSE o

-----------------------------------------------------------------------------
Init ==
  /\ pc = [r \in Runs |-> "idle"]
  /\ lock = [p \in Procs |-> NoRun]
  /\ row = [r \in Runs |-> "absent"]
  /\ age = [r \in Runs |-> "young"]
  /\ cancel = [r \in Runs |-> FALSE]
  /\ outcome = [r \in Runs |-> "none"]
  /\ tried = [r \in Runs |-> FALSE]
  /\ ref = [r \in Runs |-> {}]
  /\ snap = [r \in Runs |-> [p \in Parts |-> {}]]
  /\ env = [p \in Parts |-> {}]
  /\ lastTxn = NoRun
  /\ sweep = {}
  /\ forcing = {}
  /\ admin = [force |-> "unused", reset |-> "unused"]

Goto(r, l) == pc' = [pc EXCEPT ![r] = l]
SetStatus(r, s) == row' = [row EXCEPT ![r] = s]
Decide(r, o, t) == /\ outcome' = [outcome EXCEPT ![r] = o]
                   /\ tried' = [tried EXCEPT ![r] = t]

(* Waiting for the sandbox *)

Dispatch(r) ==
  /\ pc[r] = "idle"
  /\ Goto(r, "queued")
  /\ UNCHANGED <<lock, row, age, cancel, result, backups, sandbox, watch>>

LockFree_unchecked(r) == TRUE
LockFree(r) == lock[ProcOf[r]] = NoRun

AcquireLock(r) ==
  /\ pc[r] = "queued"
  /\ LockFree(r)
  /\ lock' = [lock EXCEPT ![ProcOf[r]] = r]
  /\ Goto(r, "polling")
  /\ UNCHANGED <<row, age, cancel, result, backups, sandbox, watch>>

FreeLock_lost(r) == UNCHANGED lock
FreeLock(r) == lock' = [lock EXCEPT ![ProcOf[r]] = NoRun]

\* any_concurrent_run returned None
PollClear(r) ==
  /\ pc[r] = "polling"
  /\ Busy(SchemaOf[r]) = {}
  /\ Goto(r, "clear")
  /\ UNCHANGED <<lock, row, age, cancel, result, backups, sandbox, watch>>

\* the wait is exhausted with the table still busy; how long it lasted is
\* abstracted
GiveUp(r) ==
  /\ pc[r] = "polling"
  /\ Busy(SchemaOf[r]) # {}
  /\ Goto(r, "ended")
  /\ FreeLock(r)
  /\ UNCHANGED <<row, age, cancel, result, backups, sandbox, watch>>

\* an event of the wait, or a package, issue, strategy or target that cannot be
\* resolved, raises before any row exists
SetupFails(r) ==
  /\ pc[r] \in {"polling", "clear"}
  /\ Goto(r, "ended")
  /\ FreeLock(r)
  /\ UNCHANGED <<row, age, cancel, result, backups, sandbox, watch>>

CreateFixRun(r) ==
  /\ pc[r] = "clear"
  /\ Goto(r, "created")
  /\ SetStatus(r, "pending")
  /\ UNCHANGED <<lock, age, cancel, result, backups, sandbox, watch>>

\* the DISPATCH event is emitted outside the try: when the insert of the event
\* raises, run_fixer ends with its row pending
DispatchEventFails(r) ==
  /\ "raise" \in Faults
  /\ pc[r] = "created"
  /\ Goto(r, "ended")
  /\ FreeLock(r)
  /\ UNCHANGED <<row, age, cancel, result, backups, sandbox, watch>>

EnterLifecycle(r) ==
  /\ pc[r] = "created"
  /\ Goto(r, "gate_preflight")
  /\ UNCHANGED <<lock, row, age, cancel, result, backups, sandbox, watch>>

(* The lifecycle *)

\* check_run_health reads the cancellation flag and never the row's status; a
\* failed read counts as healthy
Expired(r) == age[r] # "young"
Aborts(r) == Expired(r) \/ cancel[r]
Healthy_clock_only(r) == ~Expired(r)
Healthy(r) == ~Expired(r) /\ (cancel[r] => "db" \in Faults)

\* run_fixer hands rollback the ctx it built before the backup: its reference
\* is empty, whatever the lifecycle backed up since
HealthAbort(r) ==
  /\ pc[r] \in Gates
  /\ Aborts(r)
  /\ \E done \in RollbackSets({}, pc[r] # "gate_preflight") :
       /\ Restore(r, done)
       /\ Decide(r, AfterRollback(done), Tries({}))
  /\ Goto(r, "finish")
  /\ UNCHANGED <<lock, row, age, cancel, backups, lastTxn, watch>>

\* an event, a status update or the pull-request hook raises inside the
\* lifecycle: caught by the last handler, which rolls nothing back
LifecycleRaises(r) ==
  /\ "raise" \in Faults
  /\ pc[r] \in Lifecycle
  /\ Decide(r, "failed", FALSE)
  /\ Goto(r, "finish")
  /\ UNCHANGED <<lock, row, age, cancel, backups, sandbox, watch>>

StartPreflight(r) ==
  /\ pc[r] = "gate_preflight"
  /\ Healthy(r)
  /\ SetStatus(r, "provisioning")
  /\ Goto(r, "preflight")
  /\ UNCHANGED <<lock, age, cancel, result, backups, sandbox, watch>>

PreflightReady(r) ==
  /\ pc[r] = "preflight"
  /\ Goto(r, "gate_backup")
  /\ UNCHANGED <<lock, row, age, cancel, result, backups, sandbox, watch>>

PreflightBlocked(r) ==
  /\ pc[r] = "preflight"
  /\ Decide(r, "failed", FALSE)
  /\ Goto(r, "finish")
  /\ UNCHANGED <<lock, row, age, cancel, backups, sandbox, watch>>

Backup(r) ==
  /\ pc[r] = "gate_backup"
  /\ Healthy(r)
  /\ \E refs \in BackupRefs :
       ref' = [ref EXCEPT ![r] = refs]
  /\ snap' = [snap EXCEPT ![r] = env]
  /\ Goto(r, "gate_execute")
  /\ UNCHANGED <<lock, row, age, cancel, result, sandbox, watch>>

BackupFails(r) ==
  /\ pc[r] = "gate_backup"
  /\ Healthy(r)
  /\ Family \in {"iac", "code"}
  /\ Decide(r, "failed", FALSE)
  /\ Goto(r, "finish")
  /\ UNCHANGED <<lock, row, age, cancel, backups, sandbox, watch>>

StartExecute(r) ==
  /\ pc[r] = "gate_execute"
  /\ Healthy(r)
  /\ SetStatus(r, "executing")
  /\ Goto(r, "execute")
  /\ UNCHANGED <<lock, age, cancel, result, backups, sandbox, watch>>

\* the strategy's commands have edited these artefacts
Edit(r, parts) ==
  /\ env' = Edited(r, parts)
  /\ lastTxn' = IF Family = "os" /\ "live" \in parts THEN r ELSE lastTxn

\* the steps edit some of the artefacts and end well, or one fails (or the
\* strategy raises): before `terraform apply` succeeded the run is rolled back,
\* after it the run goes on to validation
Execute(r) ==
  /\ pc[r] = "execute"
  /\ \E parts \in Edits :
       /\ Edit(r, parts)
       /\ \/ Goto(r, "gate_validate")
          \/ Goto(r, "rollback")
  /\ UNCHANGED <<lock, row, age, cancel, result, backups, watch>>

StartValidate(r) ==
  /\ pc[r] = "gate_validate"
  /\ Healthy(r)
  /\ SetStatus(r, "validating")
  /\ Goto(r, "validate")
  /\ UNCHANGED <<lock, age, cancel, result, backups, sandbox, watch>>

Validate(r) ==
  /\ pc[r] = "validate"
  /\ \E rescans \in Rescans, ancillaryFailed \in BOOLEAN :
       LET verdict == Verdict(rescans, ancillaryFailed)
       IN IF verdict = "rollback"
          THEN /\ Goto(r, "rollback")
               /\ UNCHANGED result
          ELSE /\ Goto(r, "finish")
               /\ Decide(r, verdict, FALSE)
  /\ UNCHANGED <<lock, row, age, cancel, backups, sandbox, watch>>

ValidateRaises(r) ==
  /\ pc[r] = "validate"
  /\ Goto(r, "rollback")
  /\ UNCHANGED <<lock, row, age, cancel, result, backups, sandbox, watch>>

\* _safe_rollback inside the lifecycle, with the ctx that knows the backup:
\* one restored artefact is enough for the run to count as rolled back
Rollback(r) ==
  /\ pc[r] = "rollback"
  /\ \E done \in RollbackSets(ref[r], TRUE) :
       /\ Restore(r, done)
       /\ Decide(r, AfterRollback(done), Tries(ref[r]))
  /\ Goto(r, "finish")
  /\ UNCHANGED <<lock, row, age, cancel, backups, lastTxn, watch>>

(* The end of a run *)

\* finalize_fix_run writes the row by id alone
Finalize(r) ==
  /\ pc[r] = "finish"
  /\ SetStatus(r, Persisted(outcome[r]))
  /\ Goto(r, "release")
  /\ UNCHANGED <<lock, age, cancel, result, backups, sandbox, watch>>

\* three attempts failed; the minimal update lands, or fails as well
FinalizeDegraded(r) ==
  /\ "db" \in Faults
  /\ pc[r] = "finish"
  /\ \/ SetStatus(r, Fallback(outcome[r]))
     \/ UNCHANGED row
  /\ Goto(r, "release")
  /\ UNCHANGED <<lock, age, cancel, result, backups, sandbox, watch>>

Release(r) ==
  /\ pc[r] = "release"
  /\ Goto(r, "ended")
  /\ FreeLock(r)
  /\ UNCHANGED <<row, age, cancel, result, backups, sandbox, watch>>

-----------------------------------------------------------------------------
(* The environment of the runs *)

\* wall-clock time passes for a row that is open or whose run still executes;
\* the remote command an orphan left behind ends before the grace is over
Tick(r) ==
  /\ row[r] # "absent"
  /\ row[r] \in InFlight \/ pc[r] \in Holding
  /\ age[r] = "young" \/ (age[r] = "overtime" /\ pc[r] # "orphan")
  /\ age' = [age EXCEPT ![r] = IF @ = "young" THEN "overtime" ELSE "stale"]
  /\ UNCHANGED <<local, row, cancel, sandbox, watch>>

\* sweep_stale_fix_runs selects the open rows past timeout_seconds + 30 s ...
SweepSelect ==
  /\ sweep = {}
  /\ sweep' = {r \in Runs : row[r] \in NonTerminal /\ age[r] = "stale"}
  /\ sweep' # {}
  /\ UNCHANGED <<local, row, age, cancel, sandbox, forcing, admin>>

\* ... and closes each that is still open when the update reaches it
StillOpen_unchecked(r) == TRUE
StillOpen(r) == row[r] \in NonTerminal
Reap(r) ==
  /\ r \in sweep
  /\ sweep' = sweep \ {r}
  /\ row' = [row EXCEPT ![r] = IF StillOpen(r) THEN "failed" ELSE @]
  /\ UNCHANGED <<local, age, cancel, sandbox, forcing, admin>>

\* the process is killed: its threads and its lock are gone, rows and sandbox
\* stay as they are, and a remote command under way runs on
ProcessDies(p) ==
  /\ "process" \in Faults
  /\ lock[p] # NoRun
  /\ lock' = [lock EXCEPT ![p] = NoRun]
  /\ pc' = [r \in Runs |->
              IF ProcOf[r] # p \/ pc[r] \notin Holding \cup {"queued"}
              THEN pc[r]
              ELSE IF pc[r] = "execute" THEN "orphan" ELSE "dead"]
  /\ UNCHANGED <<row, age, cancel, result, backups, sandbox, watch>>

OrphanLands(r) ==
  /\ pc[r] = "orphan"
  /\ \E parts \in Edits : Edit(r, parts)
  /\ Goto(r, "dead")
  /\ UNCHANGED <<lock, row, age, cancel, result, backups, watch>>

\* the operator cancels the run's agent_run
Cancel(r) ==
  /\ "cancel" \in Faults
  /\ ~cancel[r]
  /\ pc[r] \in Holding \cup {"queued"}
  /\ cancel' = [cancel EXCEPT ![r] = TRUE]
  /\ UNCHANGED <<local, row, age, sandbox, watch>>

\* POST /admin/env2/force-release, once per behaviour, with the schemas taken
\* together: select the open rows,
ForceSelect ==
  /\ "force" \in Faults
  /\ admin.force = "unused"
  /\ forcing' = {r \in Runs : row[r] \in InFlight}
  /\ admin' = [admin EXCEPT !.force = "rows"]
  /\ UNCHANGED <<local, row, age, cancel, sandbox, sweep>>

\* close each by id,
ForceClose(r) ==
  /\ r \in forcing
  /\ forcing' = forcing \ {r}
  /\ SetStatus(r, "failed")
  /\ UNCHANGED <<local, age, cancel, sandbox, sweep, admin>>

\* and cancel the agent_runs that are running: those of approved packages have
\* completed long before
ForceCancel ==
  /\ admin.force = "rows"
  /\ forcing = {}
  /\ cancel' = [r \in Runs |->
                  cancel[r] \/ (r \notin Hitl /\ pc[r] \in Holding \cup {"queued"})]
  /\ admin' = [admin EXCEPT !.force = "done"]
  /\ UNCHANGED <<local, row, age, sandbox, sweep, forcing>>

\* the reset endpoints, once per behaviour: the guard looks at both tables, and
\* takes a table it cannot read for an idle one,
ResetGuard ==
  /\ "reset" \in Faults
  /\ admin.reset = "unused"
  /\ \A s \in Schemas : Busy(s) = {} \/ "db" \in Faults
  /\ admin' = [admin EXCEPT !.reset = "checked"]
  /\ UNCHANGED <<local, row, age, cancel, sandbox, sweep, forcing>>

\* then the remote script rebuilds the baseline and wipes the .bak files
ResetSandbox ==
  /\ admin.reset = "checked"
  /\ env' = [p \in Parts |-> {}]
  /\ lastTxn' = NoRun
  /\ ref' = [r \in Runs |-> {}]
  /\ admin' = [admin EXCEPT !.reset = "done"]
  /\ UNCHANGED <<pc, lock, result, snap, row, age, cancel, sweep, forcing>>

-----------------------------------------------------------------------------
Wait(r) == AcquireLock(r) \/ PollClear(r) \/ GiveUp(r) \/ SetupFails(r)
           \/ CreateFixRun(r) \/ DispatchEventFails(r) \/ EnterLifecycle(r)

Phase(r) == \/ HealthAbort(r) \/ LifecycleRaises(r)
            \/ StartPreflight(r) \/ PreflightReady(r) \/ PreflightBlocked(r)
            \/ Backup(r) \/ BackupFails(r)
            \/ StartExecute(r) \/ Execute(r)
            \/ StartValidate(r) \/ Validate(r) \/ ValidateRaises(r)
            \/ Rollback(r)

End(r) == Finalize(r) \/ FinalizeDegraded(r) \/ Release(r)

RunStep(r) == Wait(r) \/ Phase(r) \/ End(r) \/ OrphanLands(r)

Operator == ForceSelect \/ ForceCancel \/ ResetGuard \/ ResetSandbox

Next ==
  \/ \E r \in Runs : \/ Dispatch(r) \/ RunStep(r) \/ Tick(r)
                     \/ Reap(r) \/ Cancel(r) \/ ForceClose(r)
  \/ \E p \in Procs : ProcessDies(p)
  \/ SweepSelect \/ Operator

Spec == Init /\ [][Next]_vars

\* run_fixer's thread is never abandoned (every remote command has a hard cap),
\* the clock advances, and the reaper loop runs every 60 s for ever
Fairness == /\ \A r \in Runs : WF_vars(RunStep(r)) /\ WF_vars(Tick(r))
                               /\ WF_vars(Reap(r))
            /\ WF_vars(SweepSelect)

FairSpec == Spec /\ Fairness

-----------------------------------------------------------------------------
(* Properties *)

TypeOK ==
  /\ pc \in [Runs -> PC]
  /\ lock \in [Procs -> Runs \cup {NoRun}]
  /\ row \in [Runs -> RowStatus]
  /\ age \in [Runs -> {"young", "overtime", "stale"}]
  /\ cancel \in [Runs -> BOOLEAN]
  /\ outcome \in [Runs -> Outcomes]
  /\ tried \in [Runs -> BOOLEAN]
  /\ ref \in [Runs -> SUBSET Parts]
  /\ snap \in [Runs -> [Parts -> SUBSET Runs]]
  /\ env \in [Parts -> SUBSET Runs]
  /\ lastTxn \in Runs \cup {NoRun}
  /\ sweep \subseteq Runs
  /\ forcing \subseteq Runs
  /\ admin \in [force : {"unused", "rows", "done"},
                reset : {"unused", "checked", "done"}]

(* The lock is held exactly while a run of its process is inside            *)
(* _run_fixer_locked, on every path out of it: give-up, set-up error,       *)
(* lost event, abort, crash, finalize failure.                              *)
LockHeld == \A r \in Runs : pc[r] \in Holding <=> lock[ProcOf[r]] = r

(* At most one run of a process works on the sandbox, whichever schema its  *)
(* row lives in: the comment at the lock promises that dispatches strictly  *)
(* serialize inside a single worker.                                        *)
Serialized == \A r, s \in Holders : ProcOf[r] = ProcOf[s] => r = s

(* From its backup to its rollback a run finds what it backed up as it      *)
(* was, but for its own edit: restoring the backup takes back this run's     *)
(* edit and nothing else.                                                   *)
Mutating == {"gate_execute", "execute", "gate_validate", "validate",
             "rollback"}
BackupCurrent ==
  \A r \in Runs : pc[r] \in Mutating => \A p \in ref[r] :
    /\ r \notin snap[r][p]
    /\ env[p] \in {snap[r][p], snap[r][p] \cup {r}}

(* A run that ends rolled_back left nothing of its edit in the sandbox.     *)
Decided == {"finish", "release"}
RolledBackIsRestored ==
  \A r \in Runs : pc[r] \in Decided /\ outcome[r] = "rolled_back" =>
    \A p \in Parts : r \notin env[p]

(* A fix that was recorded as a success stays in the sandbox: no failure,   *)
(* rollback or abort of a later run takes it away again.                    *)
Kept(r) == outcome[r] \in {"success", "partial_success"}
SuccessSurvives ==
  [][\A r \in Runs, p \in Parts :
       pc[r] = "ended" /\ Kept(r) /\ r \in env[p]
       => r \in env'[p]]_vars

(* What the fixer itself recorded for a run is never changed by the reaper: *)
(* its sweep selects rows, and updates them later only while still open.    *)
FinalStands ==
  [][\A r \in Runs : pc[r] \in {"release", "ended"} /\ row[r] \in Terminal
                     => row'[r] = row[r]]_vars

(* A row that has reached a terminal status never leaves it.                *)
TerminalStays ==
  [][\A r \in Runs : row[r] \in Terminal => row'[r] = row[r]]_vars

(* A run the watchdog or the operator aborts after its backup was taken     *)
(* tries to restore it.                                                     *)
AbortTriesRollback ==
  [][\A r \in Runs : pc[r] \in Gates /\ Aborts(r) /\ ref[r] # {}
                     /\ outcome'[r] # outcome[r] => tried'[r]]_vars

(* A run that has executed nothing leaves the sandbox as it found it,       *)
(* however it ends.                                                         *)
NothingToUndo ==
  [][\A r \in Runs : pc[r] \in Gates \ {"gate_validate"} /\ pc'[r] # pc[r]
                     => UNCHANGED sandbox]_vars

(* Once its row was closed by force-release, a run aborts at its next       *)
(* health check.                                                            *)
ForcedRunStops ==
  [][\A r \in Runs : pc[r] \in Gates /\ admin.force = "done"
                     /\ row[r] = "failed" /\ pc'[r] # pc[r]
                     => pc'[r] \in {"finish", "dead"}]_vars

(* A reset never rewrites the sandbox under a run's remote commands.        *)
ResetAlone ==
  [][admin.reset # admin'.reset /\ admin'.reset = "done" =>
       \A r \in Runs : pc[r] \notin Lifecycle \cup {"rollback"}]_vars

(* A run that finds the table free finds the whole fleet idle.              *)
PollSeesFleet ==
  [][\A r \in Runs : pc[r] = "polling" /\ pc'[r] = "clear" =>
       \A s \in Runs : row[s] \notin InFlight]_vars

(* The detailed run implements the lease: between the lock's acquisition    *)
(* and its release, and never outside, a run changes the source by its own  *)
(* edit alone.                                                              *)
Lease == INSTANCE SandboxLease WITH lessees <- Holders, source <- env["source"]
LeaseSpec == Lease!Spec

(* Every row that is open is closed at some later time, whatever becomes of *)
(* the process that opened it: an open row blocks every later dispatch.     *)
RowsClose == \A r \in Runs : row[r] \in InFlight ~> row[r] \in Terminal

(* Every dispatched run gets through run_fixer or dies with its process: no *)
(* path leaves the lock taken for ever.                                     *)
RunsEnd == \A r \in Runs : pc[r] = "queued" ~> pc[r] \in {"ended", "dead"}

=============================================================================

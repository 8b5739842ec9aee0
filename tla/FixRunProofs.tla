---------------------------- MODULE FixRunProofs ----------------------------
(* Theorems about fix runs, for any number of runs, processes and schemas,  *)
(* every strategy family and every set of faults.                           *)
EXTENDS FixRun, TLAPS

(* A run that reaches finalize_fix_run has decided on an outcome: without   *)
(* it, the status written to its row would not be one the table admits.     *)
HasDecided == \A r \in Runs : pc[r] = "finish" => outcome[r] # "none"

Inv == TypeOK /\ HasDecided

(* What the strategies may answer, and what their commands make of the      *)
(* sandbox, has the right type.                                             *)
LEMMA BackupRefsType == BackupRefs \subseteq SUBSET Parts
BY RunAssumption
   DEF BackupRefs, IacBackups, ImageBackups, CodeBackups, OsBackups, Parts,
       Families

LEMMA EditType ==
  ASSUME TypeOK, NEW r \in Runs, NEW parts, Edit(r, parts)
  PROVE  env' \in [Parts -> SUBSET Runs] /\ lastTxn' \in Runs \cup {NoRun}
<1>1. Edited(r, parts) \in [Parts -> SUBSET Runs]
  BY DEF Edited, Parts, TypeOK
<1> QED BY <1>1 DEF Edit, TypeOK

LEMMA RestoreType ==
  ASSUME TypeOK, NEW r \in Runs, NEW done, Restore(r, done)
  PROVE  env' \in [Parts -> SUBSET Runs]
<1>1. UndoLast \in SUBSET Runs
  BY DEF UndoLast, Parts, TypeOK
<1>2. ASSUME NEW p \in Parts PROVE Restored(r, p) \in SUBSET Runs
  BY <1>1 DEF Restored, Parts, TypeOK
<1> QED BY <1>2 DEF Restore, TypeOK

LEMMA RollbackDecides ==
  ASSUME TypeOK, NEW r \in Runs, NEW done, NEW refs,
         Decide(r, AfterRollback(done), Tries(refs))
  PROVE  /\ outcome' \in [Runs -> Outcomes]
         /\ tried' \in [Runs -> BOOLEAN]
         /\ outcome'[r] # "none"
         /\ \A s \in Runs : s # r => outcome'[s] = outcome[s]
<1>1. AfterRollback(done) \in Outcomes \ {"none"}
  BY DEF AfterRollback, Outcomes
<1>2. Tries(refs) \in BOOLEAN
  BY DEF Tries
<1> QED BY <1>1, <1>2 DEF Decide, TypeOK

LEMMA InvStep == Inv /\ [Next]_vars => Inv'
<1> SUFFICES ASSUME Inv, [Next]_vars
             PROVE  Inv'
  OBVIOUS
<1> USE RunAssumption DEF Inv, TypeOK, HasDecided, PC, Holding, Lifecycle, Gates, Goto,
        SetStatus, Decide, FreeLock, RowStatus, InFlight, Terminal, Outcomes,
        Parts, local, result, backups, sandbox, watch
<1>1. ASSUME NEW r \in Runs, Dispatch(r) PROVE Inv'
  BY <1>1 DEF Dispatch
<1>2. ASSUME NEW r \in Runs, Wait(r) PROVE Inv'
  <2>1. CASE AcquireLock(r) BY <2>1 DEF AcquireLock
  <2>2. CASE PollClear(r) BY <2>2 DEF PollClear
  <2>3. CASE GiveUp(r) BY <2>3 DEF GiveUp
  <2>4. CASE SetupFails(r) BY <2>4 DEF SetupFails
  <2>5. CASE CreateFixRun(r) BY <2>5 DEF CreateFixRun
  <2>6. CASE DispatchEventFails(r) BY <2>6 DEF DispatchEventFails
  <2>7. CASE EnterLifecycle(r) BY <2>7 DEF EnterLifecycle
  <2> QED BY <1>2, <2>1, <2>2, <2>3, <2>4, <2>5, <2>6, <2>7 DEF Wait
<1>3. ASSUME NEW r \in Runs, Phase(r) PROVE Inv'
  <2>1. CASE HealthAbort(r)
    <3>1. PICK done : /\ Restore(r, done)
                      /\ Decide(r, AfterRollback(done), Tries({}))
      BY <2>1, Zenon DEF HealthAbort
    <3>2. env' \in [Parts -> SUBSET Runs]
      BY <3>1, RestoreType, Zenon DEF Inv
    <3>3. /\ outcome' \in [Runs -> Outcomes] /\ tried' \in [Runs -> BOOLEAN]
          /\ outcome'[r] # "none"
          /\ \A s \in Runs : s # r => outcome'[s] = outcome[s]
      BY <3>1, RollbackDecides, Zenon DEF Inv
    <3> QED BY <2>1, <3>2, <3>3 DEF HealthAbort
  <2>2. CASE LifecycleRaises(r) BY <2>2 DEF LifecycleRaises
  <2>3. CASE StartPreflight(r) BY <2>3 DEF StartPreflight
  <2>4. CASE PreflightReady(r) BY <2>4 DEF PreflightReady
  <2>5. CASE PreflightBlocked(r) BY <2>5 DEF PreflightBlocked
  <2>6. CASE Backup(r)
    <3>1. ref' \in [Runs -> SUBSET Parts]
      BY <2>6, BackupRefsType DEF Backup
    <3> QED BY <2>6, <3>1 DEF Backup
  <2>7. CASE BackupFails(r) BY <2>7 DEF BackupFails
  <2>8. CASE StartExecute(r) BY <2>8 DEF StartExecute
  <2>9. CASE Execute(r)
    <3>1. env' \in [Parts -> SUBSET Runs] /\ lastTxn' \in Runs \cup {NoRun}
      <4>1. PICK parts : Edit(r, parts)
        BY <2>9, Zenon DEF Execute
      <4> QED BY <4>1, EditType, Zenon DEF Inv
    <3>2. Goto(r, "gate_validate") \/ Goto(r, "rollback")
      BY <2>9, Zenon DEF Execute
    <3>3. UNCHANGED <<lock, row, age, cancel, result, backups, watch>>
      BY <2>9, Zenon DEF Execute
    <3> QED BY <3>1, <3>2, <3>3
  <2>10. CASE StartValidate(r) BY <2>10 DEF StartValidate
  <2>11. CASE Validate(r)
    <3>1. PICK rescans \in Rescans, failed \in BOOLEAN :
            IF Verdict(rescans, failed) = "rollback"
            THEN Goto(r, "rollback") /\ UNCHANGED result
            ELSE Goto(r, "finish") /\ Decide(r, Verdict(rescans, failed), FALSE)
      BY <2>11, Zenon DEF Validate
    <3>2. Verdict(rescans, failed)
            \in {"rollback", "partial_success", "success"}
      BY DEF Verdict, Rescans
    <3>3. /\ pc' \in [Runs -> PC]
          /\ outcome' \in [Runs -> Outcomes]
          /\ tried' \in [Runs -> BOOLEAN]
          /\ pc'[r] = "finish" => outcome'[r] # "none"
          /\ \A s \in Runs \ {r} : pc'[s] = pc[s] /\ outcome'[s] = outcome[s]
      <4>1. CASE Verdict(rescans, failed) = "rollback"
        BY <3>1, <4>1
      <4>2. CASE Verdict(rescans, failed) \in {"partial_success", "success"}
        <5>1. Goto(r, "finish") /\ Decide(r, Verdict(rescans, failed), FALSE)
          BY <3>1, <4>2
        <5>2. Verdict(rescans, failed) \in Outcomes \ {"none"}
          BY <4>2
        <5> QED BY <5>1, <5>2
      <4> QED BY <3>2, <4>1, <4>2
    <3> QED BY <2>11, <3>3 DEF Validate
  <2>12. CASE ValidateRaises(r) BY <2>12 DEF ValidateRaises
  <2>13. CASE Rollback(r)
    <3>1. PICK done : /\ Restore(r, done)
                      /\ Decide(r, AfterRollback(done), Tries(ref[r]))
      BY <2>13, Zenon DEF Rollback
    <3>2. env' \in [Parts -> SUBSET Runs]
      BY <3>1, RestoreType, Zenon DEF Inv
    <3>3. /\ outcome' \in [Runs -> Outcomes] /\ tried' \in [Runs -> BOOLEAN]
          /\ outcome'[r] # "none"
          /\ \A s \in Runs : s # r => outcome'[s] = outcome[s]
      BY <3>1, RollbackDecides, Zenon DEF Inv
    <3> QED BY <2>13, <3>2, <3>3 DEF Rollback
  <2> QED BY <1>3, <2>1, <2>2, <2>3, <2>4, <2>5, <2>6, <2>7, <2>8, <2>9,
             <2>10, <2>11, <2>12, <2>13 DEF Phase
<1>4. ASSUME NEW r \in Runs, End(r) PROVE Inv'
  <2>1. CASE Finalize(r) BY <2>1 DEF Finalize, Persisted
  <2>2. CASE FinalizeDegraded(r) BY <2>2 DEF FinalizeDegraded, Fallback
  <2>3. CASE Release(r) BY <2>3 DEF Release
  <2> QED BY <1>4, <2>1, <2>2, <2>3 DEF End
<1>5. ASSUME NEW r \in Runs, OrphanLands(r) PROVE Inv'
  <2>1. env' \in [Parts -> SUBSET Runs] /\ lastTxn' \in Runs \cup {NoRun}
    <3>1. PICK parts : Edit(r, parts)
      BY <1>5, Zenon DEF OrphanLands
    <3> QED BY <3>1, EditType, Zenon DEF Inv
  <2> QED BY <1>5, <2>1 DEF OrphanLands
<1>6. ASSUME NEW r \in Runs, Tick(r) \/ Reap(r) \/ Cancel(r) \/ ForceClose(r)
      PROVE Inv'
  <2>1. CASE Tick(r) BY <2>1 DEF Tick
  <2>2. CASE Reap(r) BY <2>2 DEF Reap
  <2>3. CASE Cancel(r) BY <2>3 DEF Cancel
  <2>4. CASE ForceClose(r) BY <2>4 DEF ForceClose
  <2> QED BY <1>6, <2>1, <2>2, <2>3, <2>4
<1>7. ASSUME NEW p \in Procs, ProcessDies(p) PROVE Inv'
  BY <1>7 DEF ProcessDies
<1>8. CASE SweepSelect BY <1>8 DEF SweepSelect
<1>9. CASE Operator
  <2>1. CASE ForceSelect BY <2>1 DEF ForceSelect
  <2>2. CASE ForceCancel BY <2>2 DEF ForceCancel
  <2>3. CASE ResetGuard BY <2>3 DEF ResetGuard
  <2>4. CASE ResetSandbox BY <2>4 DEF ResetSandbox
  <2> QED BY <1>9, <2>1, <2>2, <2>3, <2>4 DEF Operator
<1>10. CASE UNCHANGED vars BY <1>10 DEF vars
<1> QED BY <1>1, <1>2, <1>3, <1>4, <1>5, <1>6, <1>7, <1>8, <1>9, <1>10
        DEF Next, RunStep

LEMMA Invariance == Spec => []Inv
<1>1. Init => Inv
  BY RunAssumption DEF Init, Inv, TypeOK, HasDecided, PC, RowStatus, Outcomes,
     Parts
<1> QED BY <1>1, InvStep, PTL DEF Spec

(* Every variable keeps its type: in particular a row only ever holds a     *)
(* status the CHECK constraint on fix_runs.status admits, although the      *)
(* outcome written to it also knows partial_success and "not decided".      *)
THEOREM TypeCorrect == Spec => []TypeOK
BY Invariance, PTL DEF Inv

(* A step of a run that neither enters nor leaves _run_fixer_locked.        *)
LEMMA StaysInside ==
  ASSUME Inv, LockHeld, NEW r \in Runs, NEW l \in PC, Goto(r, l),
         pc[r] \in Holding <=> l \in Holding, UNCHANGED lock
  PROVE  LockHeld'
BY RunAssumption DEF Inv, TypeOK, LockHeld, Goto

(* A step that leaves it and frees the lock.                                *)
LEMMA Leaves ==
  ASSUME Inv, LockHeld, NEW r \in Runs, pc[r] \in Holding,
         Goto(r, "ended"), FreeLock(r)
  PROVE  LockHeld'
<1>1. lock[ProcOf[r]] = r
  BY DEF LockHeld
<1>2. "ended" \notin Holding
  BY DEF Holding, Lifecycle, Gates
<1> QED BY <1>1, <1>2, RunAssumption DEF Inv, TypeOK, LockHeld, Goto, FreeLock

LEMMA LockStep == Inv /\ LockHeld /\ [Next]_vars => LockHeld'
<1> SUFFICES ASSUME Inv, LockHeld, [Next]_vars
             PROVE  LockHeld'
  OBVIOUS
<1> USE DEF PC, Holding, Lifecycle, Gates
<1>1. ASSUME NEW r \in Runs, Dispatch(r) PROVE LockHeld'
  BY <1>1, StaysInside DEF Dispatch
<1>2. ASSUME NEW r \in Runs, Wait(r) PROVE LockHeld'
  <2>1. CASE AcquireLock(r)
    <3>1. /\ lock[ProcOf[r]] = NoRun /\ lock' = [lock EXCEPT ![ProcOf[r]] = r]
          /\ pc' = [pc EXCEPT ![r] = "polling"]
      BY <2>1 DEF AcquireLock, LockFree, Goto
    <3>2. ASSUME NEW s \in Runs
          PROVE  pc'[s] \in Holding <=> lock'[ProcOf[s]] = s
      <4>1. CASE s = r
        BY <3>1, <4>1, RunAssumption DEF Inv, TypeOK
      <4>2. CASE s # r /\ ProcOf[s] = ProcOf[r]
        <5>1. pc[s] \notin Holding /\ pc'[s] = pc[s]
          BY <3>1, <4>2, RunAssumption DEF LockHeld, Inv, TypeOK
        <5>2. lock'[ProcOf[s]] = r
          BY <3>1, <4>2, RunAssumption DEF Inv, TypeOK
        <5> QED BY <4>2, <5>1, <5>2
      <4>3. CASE ProcOf[s] # ProcOf[r]
        BY <3>1, <4>3, RunAssumption DEF LockHeld, Inv, TypeOK
      <4> QED BY <4>1, <4>2, <4>3
    <3> QED BY <3>2 DEF LockHeld
  <2>2. CASE PollClear(r) BY <2>2, StaysInside DEF PollClear
  <2>3. CASE GiveUp(r) BY <2>3, Leaves DEF GiveUp
  <2>4. CASE SetupFails(r) BY <2>4, Leaves DEF SetupFails
  <2>5. CASE CreateFixRun(r) BY <2>5, StaysInside DEF CreateFixRun
  <2>6. CASE DispatchEventFails(r) BY <2>6, Leaves DEF DispatchEventFails
  <2>7. CASE EnterLifecycle(r) BY <2>7, StaysInside DEF EnterLifecycle
  <2> QED BY <1>2, <2>1, <2>2, <2>3, <2>4, <2>5, <2>6, <2>7 DEF Wait
<1>3. ASSUME NEW r \in Runs, Phase(r) PROVE LockHeld'
  <2>1. CASE HealthAbort(r) BY <2>1, StaysInside DEF HealthAbort
  <2>2. CASE LifecycleRaises(r) BY <2>2, StaysInside DEF LifecycleRaises
  <2>3. CASE StartPreflight(r) BY <2>3, StaysInside DEF StartPreflight
  <2>4. CASE PreflightReady(r) BY <2>4, StaysInside DEF PreflightReady
  <2>5. CASE PreflightBlocked(r) BY <2>5, StaysInside DEF PreflightBlocked
  <2>6. CASE Backup(r) BY <2>6, StaysInside DEF Backup
  <2>7. CASE BackupFails(r) BY <2>7, StaysInside DEF BackupFails
  <2>8. CASE StartExecute(r) BY <2>8, StaysInside DEF StartExecute
  <2>9. CASE Execute(r)
    <3>1. Goto(r, "gate_validate") \/ Goto(r, "rollback")
      BY <2>9, Zenon DEF Execute
    <3> QED BY <2>9, <3>1, StaysInside DEF Execute
  <2>10. CASE StartValidate(r) BY <2>10, StaysInside DEF StartValidate
  <2>11. CASE Validate(r)
    <3>1. Goto(r, "rollback") \/ Goto(r, "finish")
      BY <2>11 DEF Validate
    <3> QED BY <2>11, <3>1, StaysInside DEF Validate
  <2>12. CASE ValidateRaises(r) BY <2>12, StaysInside DEF ValidateRaises
  <2>13. CASE Rollback(r) BY <2>13, StaysInside DEF Rollback
  <2> QED BY <1>3, <2>1, <2>2, <2>3, <2>4, <2>5, <2>6, <2>7, <2>8, <2>9,
             <2>10, <2>11, <2>12, <2>13 DEF Phase
<1>4. ASSUME NEW r \in Runs, End(r) PROVE LockHeld'
  <2>1. CASE Finalize(r) BY <2>1, StaysInside DEF Finalize
  <2>2. CASE FinalizeDegraded(r) BY <2>2, StaysInside DEF FinalizeDegraded
  <2>3. CASE Release(r) BY <2>3, Leaves DEF Release
  <2> QED BY <1>4, <2>1, <2>2, <2>3 DEF End
<1>5. ASSUME NEW r \in Runs, OrphanLands(r) PROVE LockHeld'
  BY <1>5, StaysInside DEF OrphanLands
<1>6. ASSUME NEW p \in Procs, ProcessDies(p) PROVE LockHeld'
  <2>1. /\ lock' = [lock EXCEPT ![p] = NoRun]
        /\ \A s \in Runs : ProcOf[s] # p => pc'[s] = pc[s]
        /\ \A s \in Runs : ProcOf[s] = p => pc'[s] \notin Holding
    BY <1>6 DEF ProcessDies
  <2>2. ASSUME NEW s \in Runs
        PROVE  pc'[s] \in Holding <=> lock'[ProcOf[s]] = s
    <3>1. CASE ProcOf[s] = p
      BY <2>1, <3>1, RunAssumption DEF Inv, TypeOK
    <3>2. CASE ProcOf[s] # p
      BY <2>1, <3>2, RunAssumption DEF LockHeld, Inv, TypeOK
    <3> QED BY <3>1, <3>2
  <2> QED BY <2>2 DEF LockHeld
<1>7. ASSUME UNCHANGED <<pc, lock>> PROVE LockHeld'
  BY <1>7 DEF LockHeld
<1>8. ASSUME NEW r \in Runs, Tick(r) \/ Reap(r) \/ Cancel(r) \/ ForceClose(r)
      PROVE  LockHeld'
  BY <1>8, <1>7 DEF Tick, Reap, Cancel, ForceClose, local
<1>9. CASE SweepSelect \/ Operator \/ UNCHANGED vars
  BY <1>9, <1>7 DEF SweepSelect, Operator, ForceSelect, ForceCancel, ResetGuard,
     ResetSandbox, local, vars
<1> QED BY <1>1, <1>2, <1>3, <1>4, <1>5, <1>6, <1>8, <1>9 DEF Next, RunStep

(* On every path through run_fixer the lock is held exactly while the run   *)
(* is inside _run_fixer_locked: no give-up, set-up error, lost event, abort *)
(* or crash leaves it taken, and none frees the lock of another run.        *)
THEOREM LockIsHeld == Spec => []LockHeld
<1>1. Init => LockHeld
  BY RunAssumption
     DEF Init, LockHeld, Holding, Lifecycle, Gates
<1> QED BY <1>1, LockStep, Invariance, PTL DEF Spec

(* Two runs of one process never work on the sandbox at the same time,      *)
(* whatever their schemas: dispatches strictly serialize inside a worker.   *)
THEOREM RunsSerialize == Spec => []Serialized
<1>1. LockHeld => Serialized
  BY DEF LockHeld, Serialized, Holders
<1> QED BY <1>1, LockIsHeld, PTL

-----------------------------------------------------------------------------
(* What a run knows of the sandbox.                                         *)

(* Until it executes, nothing of a run is in the sandbox, in anybody's      *)
(* backup or in the transaction history, and its own backup never has it.   *)
Before == {"idle", "queued", "polling", "clear", "created", "gate_preflight",
           "preflight", "gate_backup", "gate_execute", "execute"}
Traceless(r) ==
  /\ lastTxn # r
  /\ \A p \in Parts : r \notin env[p] /\ \A s \in Runs : r \notin snap[s][p]
FreshInv ==
  /\ \A r \in Runs : pc[r] \in Before => Traceless(r)
  /\ \A r \in Runs, p \in Parts : r \notin snap[r][p]

(* A run has decided nothing before it gets to finalize.                    *)
Ending == {"finish", "release", "ended"}
Undecided == \A r \in Runs : pc[r] \notin Ending \cup {"dead"}
                             => outcome[r] = "none"

RunInv == Inv /\ LockHeld /\ Undecided /\ FreshInv

(* The steps that leave the sandbox and the backups alone, as far as where  *)
(* a run is and what it has decided are concerned.                          *)
KeptAtEnd(r) == pc[r] \in Ending /\ Kept(r)
RolledBackAtEnd(r) == pc[r] \in Decided /\ outcome[r] = "rolled_back"
Quiet ==
  /\ UNCHANGED <<ref, snap, env, lastTxn>>
  /\ \A r \in Runs :
       /\ pc'[r] \in Before => pc[r] \in Before
       /\ pc'[r] \in Mutating => pc[r] \in Mutating
       /\ pc'[r] \in {"gate_validate", "validate", "rollback"}
            => pc[r] \in {"gate_validate", "validate", "rollback"}
       /\ pc'[r] = "orphan" => pc[r] = "orphan" \/ "process" \in Faults
       /\ pc[r] \in Ending \cup {"dead"} => pc'[r] \in Ending \cup {"dead"}
       /\ KeptAtEnd(r)' => KeptAtEnd(r) \/ pc[r] = "validate"
       /\ RolledBackAtEnd(r)' => RolledBackAtEnd(r)
       /\ outcome'[r] = outcome[r] \/ pc'[r] \in Ending

LEMMA QuietMove ==
  ASSUME Inv, Undecided, NEW r \in Runs, NEW l \in PC, Goto(r, l),
         UNCHANGED <<result, backups, sandbox>>,
         l \in Before => pc[r] \in Before,
         l \in Mutating => pc[r] \in Mutating,
         l \in {"gate_validate", "validate", "rollback"}
            => pc[r] \in {"gate_validate", "validate", "rollback"},
         l = "orphan" => "process" \in Faults,
         pc[r] \in Ending \cup {"dead"} => l \in Ending \cup {"dead"},
         l \in {"release", "ended"} => pc[r] \in Decided \/ outcome[r] = "none",
         l # "finish"
  PROVE  Quiet
<1>1. /\ UNCHANGED <<ref, snap, env, lastTxn, outcome>>
      /\ pc' = [pc EXCEPT ![r] = l] /\ pc \in [Runs -> PC]
  BY DEF Goto, result, backups, sandbox, Inv, TypeOK
<1>2. ASSUME NEW s \in Runs
      PROVE  /\ KeptAtEnd(s)' => KeptAtEnd(s) \/ pc[s] = "validate"
             /\ RolledBackAtEnd(s)' => RolledBackAtEnd(s)
  BY <1>1 DEF KeptAtEnd, RolledBackAtEnd, Kept, Ending, Decided, Undecided
<1> QED BY <1>1, <1>2 DEF Quiet

LEMMA QuietDecision ==
  ASSUME Inv, NEW r \in Runs, NEW o, NEW t, Decide(r, o, t),
         Goto(r, "finish"), UNCHANGED <<backups, sandbox>>,
         pc[r] \notin {"dead"}, o # "rolled_back",
         o \in {"success", "partial_success"} => pc[r] = "validate"
  PROVE  Quiet
<1>1. /\ UNCHANGED <<ref, snap, env, lastTxn>>
      /\ pc' = [pc EXCEPT ![r] = "finish"] /\ pc \in [Runs -> PC]
      /\ outcome' = [outcome EXCEPT ![r] = o] /\ outcome \in [Runs -> Outcomes]
  BY DEF Goto, Decide, backups, sandbox, Inv, TypeOK
<1> QED
  BY <1>1 DEF Quiet, KeptAtEnd, RolledBackAtEnd, Kept, Ending, Decided, Before,
     Mutating

LEMMA QuietRest ==
  ASSUME UNCHANGED <<pc, result, backups, sandbox>>
  PROVE  Quiet
BY DEF Quiet, KeptAtEnd, RolledBackAtEnd, Kept, result, backups, sandbox

LEMMA QuietCrash ==
  ASSUME Inv, Undecided, NEW p \in Procs, ProcessDies(p)
  PROVE  Quiet
<1>1. /\ UNCHANGED <<ref, snap, env, lastTxn, outcome>>
      /\ "process" \in Faults /\ pc \in [Runs -> PC]
      /\ \A r \in Runs : \/ pc'[r] = pc[r]
                         \/ pc[r] = "execute" /\ pc'[r] = "orphan"
                         \/ pc[r] # "orphan" /\ pc'[r] = "dead"
  BY DEF ProcessDies, result, backups, sandbox, Inv, TypeOK, Holding,
     Lifecycle, Gates
<1> QED
  BY <1>1 DEF Quiet, KeptAtEnd, RolledBackAtEnd, Kept, Ending, Decided, Before,
     Mutating

Loud(r) == HealthAbort(r) \/ Backup(r) \/ Execute(r) \/ Rollback(r)
           \/ OrphanLands(r)

LEMMA Kinds ==
  ASSUME Inv, Undecided, [Next]_vars
  PROVE  Quiet \/ ResetSandbox \/ \E r \in Runs : Loud(r)
<1> USE DEF PC, Holding, Lifecycle, Gates, Before, Mutating, Ending, Decided
<1>1. ASSUME NEW r \in Runs, Dispatch(r) PROVE Quiet
  BY <1>1, QuietMove DEF Dispatch
<1>2. ASSUME NEW r \in Runs, Wait(r) PROVE Quiet
  <2>1. pc[r] \in {"queued", "polling", "clear", "created"} => outcome[r] = "none"
    BY DEF Undecided
  <2>2. CASE AcquireLock(r) BY <2>2, QuietMove DEF AcquireLock
  <2>3. CASE PollClear(r) BY <2>3, QuietMove DEF PollClear
  <2>4. CASE GiveUp(r) BY <2>1, <2>4, QuietMove DEF GiveUp
  <2>5. CASE SetupFails(r) BY <2>1, <2>5, QuietMove DEF SetupFails
  <2>6. CASE CreateFixRun(r) BY <2>6, QuietMove DEF CreateFixRun
  <2>7. CASE DispatchEventFails(r)
    BY <2>1, <2>7, QuietMove DEF DispatchEventFails
  <2>8. CASE EnterLifecycle(r) BY <2>8, QuietMove DEF EnterLifecycle
  <2> QED
    BY <1>2, <2>2, <2>3, <2>4, <2>5, <2>6, <2>7, <2>8 DEF Wait
<1>3. ASSUME NEW r \in Runs, Phase(r) PROVE Quiet \/ Loud(r)
  <2>1. CASE LifecycleRaises(r) BY <2>1, QuietDecision DEF LifecycleRaises
  <2>2. CASE StartPreflight(r) BY <2>2, QuietMove DEF StartPreflight
  <2>3. CASE PreflightReady(r) BY <2>3, QuietMove DEF PreflightReady
  <2>4. CASE PreflightBlocked(r) BY <2>4, QuietDecision DEF PreflightBlocked
  <2>5. CASE BackupFails(r) BY <2>5, QuietDecision DEF BackupFails
  <2>6. CASE StartExecute(r) BY <2>6, QuietMove DEF StartExecute
  <2>7. CASE StartValidate(r) BY <2>7, QuietMove DEF StartValidate
  <2>8. CASE Validate(r)
    <3>1. PICK rescans \in Rescans, failed \in BOOLEAN :
            IF Verdict(rescans, failed) = "rollback"
            THEN Goto(r, "rollback") /\ UNCHANGED result
            ELSE Goto(r, "finish") /\ Decide(r, Verdict(rescans, failed), FALSE)
      BY <2>8, Zenon DEF Validate
    <3>2. Verdict(rescans, failed) # "rolled_back"
      BY DEF Verdict, Rescans
    <3>3. pc[r] = "validate" /\ UNCHANGED <<backups, sandbox>>
      BY <2>8, Zenon DEF Validate
    <3>4. CASE Verdict(rescans, failed) = "rollback"
      BY <3>1, <3>3, <3>4, QuietMove
    <3>5. CASE Verdict(rescans, failed) # "rollback"
      <4>1. Goto(r, "finish") /\ Decide(r, Verdict(rescans, failed), FALSE)
        BY <3>1, <3>5
      <4> QED BY <3>2, <3>3, <4>1, QuietDecision
    <3> QED BY <3>4, <3>5
  <2>9. CASE ValidateRaises(r) BY <2>9, QuietMove DEF ValidateRaises
  <2> QED
    BY <1>3, <2>1, <2>2, <2>3, <2>4, <2>5, <2>6, <2>7, <2>8, <2>9
       DEF Phase, Loud
<1>4. ASSUME NEW r \in Runs, End(r) PROVE Quiet
  <2>1. CASE Finalize(r) BY <2>1, QuietMove DEF Finalize
  <2>2. CASE FinalizeDegraded(r) BY <2>2, QuietMove DEF FinalizeDegraded
  <2>3. CASE Release(r) BY <2>3, QuietMove DEF Release
  <2> QED BY <1>4, <2>1, <2>2, <2>3 DEF End
<1>5. ASSUME NEW r \in Runs, Tick(r) \/ Reap(r) \/ Cancel(r) \/ ForceClose(r)
      PROVE  Quiet
  BY <1>5, QuietRest DEF Tick, Reap, Cancel, ForceClose, local
<1>6. ASSUME SweepSelect \/ ForceSelect \/ ForceCancel \/ ResetGuard
             \/ UNCHANGED vars
      PROVE  Quiet
  BY <1>6, QuietRest
     DEF SweepSelect, ForceSelect, ForceCancel, ResetGuard, local, result,
         backups, sandbox, vars
<1> QED
  BY <1>1, <1>2, <1>3, <1>4, <1>5, <1>6, QuietCrash
     DEF Next, RunStep, Operator, Loud

(* An edit adds the run that makes it, and what the source had.             *)
LEMMA EditSpreads ==
  ASSUME Inv, NEW r \in Runs, NEW parts, Edit(r, parts), NEW x \in Runs,
         x # r, lastTxn # x, \A p \in Parts : x \notin env[p]
  PROVE  lastTxn' # x /\ \A p \in Parts : x \notin env'[p]
<1>1. \A p \in Parts : x \notin Edited(r, parts)[p]
  BY DEF Edited, Parts, Inv, TypeOK
<1> QED BY <1>1 DEF Edit

(* A restore brings back what the backup or the transaction history has.    *)
LEMMA RestoreSpreads ==
  ASSUME Inv, NEW r \in Runs, NEW done, Restore(r, done), NEW x \in Runs,
         Traceless(x)
  PROVE  \A p \in Parts : x \notin env'[p]
<1>1. x \notin UndoLast
  BY DEF UndoLast, Traceless, Parts, Inv, TypeOK
<1>2. \A p \in Parts : x \notin Restored(r, p)
  BY <1>1 DEF Restored, Traceless, Parts
<1> QED BY <1>2 DEF Restore, Traceless

LEMMA FreshStep ==
  ASSUME Inv, Undecided, FreshInv, [Next]_vars
  PROVE  FreshInv'
<1>1. CASE Quiet
  BY <1>1 DEF Quiet, FreshInv, Traceless
<1>2. CASE ResetSandbox
  BY <1>2, RunAssumption DEF ResetSandbox, FreshInv, Traceless, result
<1>3. ASSUME NEW r \in Runs, NEW done, Restore(r, done), Goto(r, "finish"),
             UNCHANGED <<snap, lastTxn>>
      PROVE  FreshInv'
  <2>1. \A x \in Runs : pc'[x] \in Before => pc[x] \in Before
    BY <1>3 DEF Goto, Before, Inv, TypeOK
  <2>2. \A x \in Runs : Traceless(x) => Traceless(x)'
    BY <1>3, RestoreSpreads DEF Traceless
  <2> QED BY <1>3, <2>1, <2>2 DEF FreshInv
<1>4. ASSUME NEW r \in Runs, NEW parts, Edit(r, parts), pc'[r] \notin Before,
             \A x \in Runs : x # r => pc'[x] = pc[x], UNCHANGED snap
      PROVE  FreshInv'
  <2>1. \A x \in Runs : x # r /\ Traceless(x) => Traceless(x)'
    BY <1>4, EditSpreads DEF Traceless
  <2> QED BY <1>4, <2>1 DEF FreshInv
<1>5. ASSUME NEW r \in Runs, HealthAbort(r) PROVE FreshInv'
  <2>1. /\ \E done : Restore(r, done)
        /\ Goto(r, "finish") /\ UNCHANGED <<backups, lastTxn>>
    BY <1>5, Zenon DEF HealthAbort
  <2> QED BY <1>3, <2>1 DEF backups
<1>6. ASSUME NEW r \in Runs, Rollback(r) PROVE FreshInv'
  <2>1. /\ \E done : Restore(r, done)
        /\ Goto(r, "finish") /\ UNCHANGED <<backups, lastTxn>>
    BY <1>6, Zenon DEF Rollback
  <2> QED BY <1>3, <2>1 DEF backups
<1>7. ASSUME NEW r \in Runs, Execute(r) PROVE FreshInv'
  <2>1. /\ \E parts : Edit(r, parts)
        /\ Goto(r, "gate_validate") \/ Goto(r, "rollback")
        /\ UNCHANGED backups
    BY <1>7, Zenon DEF Execute
  <2>2. pc'[r] \notin Before /\ \A x \in Runs : x # r => pc'[x] = pc[x]
    BY <2>1 DEF Goto, Before, Inv, TypeOK
  <2> QED BY <1>4, <2>1, <2>2 DEF backups
<1>8. ASSUME NEW r \in Runs, OrphanLands(r) PROVE FreshInv'
  <2>1. /\ \E parts : Edit(r, parts)
        /\ Goto(r, "dead") /\ UNCHANGED backups
    BY <1>8, Zenon DEF OrphanLands
  <2>2. pc'[r] \notin Before /\ \A x \in Runs : x # r => pc'[x] = pc[x]
    BY <2>1 DEF Goto, Before, Inv, TypeOK
  <2> QED BY <1>4, <2>1, <2>2 DEF backups
<1>9. ASSUME NEW r \in Runs, Backup(r) PROVE FreshInv'
  <2>1. /\ pc[r] \in Before /\ pc' = [pc EXCEPT ![r] = "gate_execute"]
        /\ snap' = [snap EXCEPT ![r] = env] /\ UNCHANGED <<env, lastTxn>>
    BY <1>9 DEF Backup, Goto, Before, sandbox
  <2>2. \A x \in Runs : pc'[x] \in Before => pc[x] \in Before
    BY <2>1 DEF Inv, TypeOK
  <2>3. \A x \in Runs : Traceless(x) => Traceless(x)'
    BY <2>1 DEF Traceless, Inv, TypeOK
  <2>4. \A x \in Runs, p \in Parts : x \notin snap'[x][p]
    BY <2>1 DEF FreshInv, Traceless, Inv, TypeOK
  <2> QED BY <2>2, <2>3, <2>4 DEF FreshInv
<1> QED
  BY <1>1, <1>2, <1>5, <1>6, <1>7, <1>8, <1>9, Kinds DEF Loud

LEMMA UndecidedStep ==
  ASSUME Inv, Undecided, [Next]_vars
  PROVE  Undecided'
<1>1. CASE Quiet
  BY <1>1 DEF Quiet, Undecided
<1>2. CASE ResetSandbox
  BY <1>2 DEF ResetSandbox, Undecided, result
<1>3. ASSUME NEW r \in Runs, HealthAbort(r) \/ Rollback(r) PROVE Undecided'
  <2>1. /\ Goto(r, "finish")
        /\ \E o, t : Decide(r, o, t)
    BY <1>3, Zenon DEF HealthAbort, Rollback
  <2> QED BY <2>1 DEF Undecided, Goto, Decide, Ending, Inv, TypeOK
<1>4. ASSUME NEW r \in Runs, Backup(r) \/ Execute(r) \/ OrphanLands(r)
      PROVE  Undecided'
  <2>1. /\ \/ Goto(r, "gate_execute") \/ Goto(r, "gate_validate")
           \/ Goto(r, "rollback") \/ Goto(r, "dead")
        /\ UNCHANGED result
        /\ pc[r] \in {"gate_backup", "execute", "orphan"}
    BY <1>4, Zenon DEF Backup, Execute, OrphanLands
  <2> QED BY <2>1 DEF Undecided, Goto, Ending, Inv, TypeOK, result
<1> QED BY <1>1, <1>2, <1>3, <1>4, Kinds DEF Loud

LEMMA RunInvariance == Spec => []RunInv
<1>1. Init => FreshInv /\ Undecided
  BY RunAssumption DEF Init, FreshInv, Undecided, Traceless, Parts
<1>2. RunInv /\ [Next]_vars => (FreshInv /\ Undecided)'
  BY FreshStep, UndecidedStep DEF RunInv
<1> QED
  BY <1>1, <1>2, Invariance, LockIsHeld, PTL DEF Spec, RunInv

-----------------------------------------------------------------------------
(* One worker, whose runs alone work on the sandbox.                        *)

OneWorker == \A r, s \in Runs : ProcOf[r] = ProcOf[s]
NoCrash == "process" \notin Faults
NoReset == "reset" \notin Faults
NoForce == "force" \notin Faults
NoYum == Family # "os"

LEMMA Alone ==
  ASSUME OneWorker, LockHeld, NEW r \in Holders, NEW s \in Holders
  PROVE  r = s
BY DEF OneWorker, LockHeld, Holders

(* A backup reference is one the strategy makes: an IaC backup never covers *)
(* the applied state, and an OS snapshot is never read back.                *)
RefOfFamily == \A r \in Runs : /\ Family = "iac" => "live" \notin ref[r]
                               /\ Family = "os" => ref[r] = {}
NoOrphan == \A r \in Runs : pc[r] # "orphan"
BackupInv == RunInv /\ RefOfFamily /\ BackupCurrent /\ NoOrphan

(* An edit of a run adds nothing but the run to what its backup covers, and *)
(* nothing but the run to the source.                                       *)
LEMMA EditOwn ==
  ASSUME Inv, RefOfFamily, NEW r \in Runs, NEW parts, Edit(r, parts)
  PROVE  /\ env'["source"] \in {env["source"], env["source"] \cup {r}}
         /\ \A p \in ref[r] : env'[p] \in {env[p], env[p] \cup {r}}
<1>1. ref[r] \subseteq Parts /\ env \in [Parts -> SUBSET Runs]
  BY DEF Inv, TypeOK
<1>2. Edited(r, parts)["source"] \in {env["source"], env["source"] \cup {r}}
  BY <1>1 DEF Edited, Parts
<1>3. Family # "iac" => Edited(r, parts)["live"]
                          \in {env["live"], env["live"] \cup {r}}
  BY <1>1 DEF Edited, Parts
<1> QED BY <1>1, <1>2, <1>3 DEF Edit, Parts, RefOfFamily

LEMMA BackupStep ==
  ASSUME BackupInv, OneWorker, NoCrash, [Next]_vars
  PROVE  (RefOfFamily /\ BackupCurrent /\ NoOrphan)'
<1>1. Inv /\ Undecided /\ LockHeld /\ FreshInv
  BY DEF BackupInv, RunInv
<1>2. CASE Quiet
  BY <1>2 DEF Quiet, BackupInv, RefOfFamily, BackupCurrent, NoOrphan, NoCrash
<1>3. CASE ResetSandbox
  BY <1>3 DEF ResetSandbox, BackupInv, RefOfFamily, BackupCurrent, NoOrphan
<1>4. ASSUME NEW r \in Runs, HealthAbort(r) \/ Rollback(r)
      PROVE  (RefOfFamily /\ BackupCurrent /\ NoOrphan)'
  <2>1. /\ pc' = [pc EXCEPT ![r] = "finish"] /\ UNCHANGED ref
        /\ r \in Holders
    BY <1>4, Zenon
       DEF HealthAbort, Rollback, Goto, backups, Holders, Holding, Lifecycle
  <2>2. \A s \in Runs : pc'[s] \notin Mutating
    BY <1>1, <2>1, Alone
       DEF Inv, TypeOK, Mutating, Holders, Holding, Lifecycle, Gates
  <2> QED
    BY <1>1, <2>1, <2>2
       DEF BackupInv, RefOfFamily, BackupCurrent, NoOrphan, Inv, TypeOK
<1>5. ASSUME NEW r \in Runs, Backup(r)
      PROVE  (RefOfFamily /\ BackupCurrent /\ NoOrphan)'
  <2>1. /\ pc[r] = "gate_backup" /\ pc' = [pc EXCEPT ![r] = "gate_execute"]
        /\ snap' = [snap EXCEPT ![r] = env] /\ UNCHANGED env
        /\ ref' \in {[ref EXCEPT ![r] = refs] : refs \in BackupRefs}
    BY <1>5 DEF Backup, Goto, sandbox
  <2>2. \A s \in Runs : s # r => pc'[s] \notin Mutating
    BY <1>1, <2>1, Alone
       DEF Inv, TypeOK, Mutating, Holders, Holding, Lifecycle, Gates
  <2>3. \A p \in Parts : r \notin env[p]
    BY <1>1, <2>1 DEF FreshInv, Traceless, Before
  <2>4. PICK refs \in BackupRefs : ref' = [ref EXCEPT ![r] = refs]
    BY <2>1
  <2>5. refs \subseteq Parts
    BY <2>4, BackupRefsType
  <2>6. /\ Family = "iac" => "live" \notin refs
        /\ Family = "os" => refs = {}
    BY <2>4 DEF BackupRefs, IacBackups, OsBackups
  <2>7. RefOfFamily'
    BY <1>1, <2>4, <2>6 DEF BackupInv, RefOfFamily, Inv, TypeOK
  <2>8. BackupCurrent'
    BY <1>1, <2>1, <2>2, <2>3, <2>4, <2>5 DEF BackupCurrent, Inv, TypeOK
  <2> QED BY <1>1, <2>1, <2>7, <2>8 DEF BackupInv, NoOrphan, Inv, TypeOK
<1>6. ASSUME NEW r \in Runs, Execute(r)
      PROVE  (RefOfFamily /\ BackupCurrent /\ NoOrphan)'
  <2>1. /\ \E parts : Edit(r, parts)
        /\ Goto(r, "gate_validate") \/ Goto(r, "rollback")
        /\ pc[r] = "execute" /\ UNCHANGED backups
    BY <1>6, Zenon DEF Execute
  <2>2. \A s \in Runs : s # r => pc'[s] \notin Mutating
    BY <1>1, <2>1, Alone
       DEF Inv, TypeOK, Mutating, Holders, Holding, Lifecycle, Gates, Goto
  <2>3. \A p \in ref[r] : env'[p] \in {env[p], env[p] \cup {r}}
    BY <1>1, <2>1, EditOwn DEF BackupInv
  <2>4. \A p \in ref[r] : /\ r \notin snap[r][p]
                          /\ env[p] \in {snap[r][p], snap[r][p] \cup {r}}
    BY <2>1 DEF BackupInv, BackupCurrent, Mutating
  <2>5. BackupCurrent'
    BY <2>1, <2>2, <2>3, <2>4 DEF BackupCurrent, backups
  <2>6. NoOrphan'
    BY <1>1, <2>1 DEF BackupInv, NoOrphan, Goto, Inv, TypeOK
  <2> QED BY <2>1, <2>5, <2>6 DEF BackupInv, RefOfFamily, backups
<1>7. ASSUME NEW r \in Runs, OrphanLands(r) PROVE FALSE
  BY <1>7 DEF OrphanLands, BackupInv, NoOrphan
<1> QED BY <1>1, <1>2, <1>3, <1>4, <1>5, <1>6, <1>7, Kinds DEF Loud

LEMMA BackupInvariance == ASSUME OneWorker, NoCrash PROVE Spec => []BackupInv
<1>1. Init => RefOfFamily /\ BackupCurrent /\ NoOrphan
  BY RunAssumption
     DEF Init, RefOfFamily, BackupCurrent, NoOrphan, Mutating, Parts
<1>2. BackupInv /\ [Next]_vars => (RefOfFamily /\ BackupCurrent /\ NoOrphan)'
  BY BackupStep
<1> QED BY <1>1, <1>2, RunInvariance, PTL DEF Spec, BackupInv

(* With one worker that is not killed, from its backup to its rollback a    *)
(* run finds what it backed up as it was but for its own edit, whatever the *)
(* strategy, the faults of its steps and the operator's requests: restoring *)
(* the backup takes back this run's edit and nothing else.                  *)
THEOREM BackupStaysCurrent ==
  ASSUME OneWorker, NoCrash
  PROVE  Spec => []BackupCurrent
BY BackupInvariance, PTL DEF BackupInv

(* A rollback takes the run's own edit out of the source and nothing else;  *)
(* of the applied state an IaC rollback either leaves it or applies the     *)
(* restored source, and the other strategies restore their own backup.      *)
LEMMA RestoreOwn ==
  ASSUME BackupInv, NEW r \in Runs, pc[r] \in Mutating,
         NEW done \in RollbackSets(ref[r], TRUE), Restore(r, done)
  PROVE  /\ env'["source"] \in {env["source"], env["source"] \ {r}}
         /\ Family = "iac" => env'["live"] \in {env["live"], env'["source"]}
         /\ NoYum /\ Family # "iac"
              => env'["live"] \in {env["live"], env["live"] \ {r}}
<1>1. env' = [p \in Parts |-> IF p \in done THEN Restored(r, p) ELSE env[p]]
  BY DEF Restore
<1>2. \A p \in ref[r] : snap[r][p] \in {env[p], env[p] \ {r}}
  BY DEF BackupInv, BackupCurrent
<1>3. CASE Family = "iac"
  <2>1. done = {} \/ "source" \in done \cap ref[r]
    BY <1>3 DEF RollbackSets, IacRollbacks
  <2>2. \A p \in Parts : Restored(r, p) = snap[r]["source"]
    BY <1>3 DEF Restored
  <2> QED BY <1>1, <1>2, <1>3, <2>1, <2>2 DEF Parts
<1>4. CASE Family \in {"image", "code"}
  <2>1. done \subseteq ref[r]
    BY <1>4 DEF RollbackSets, ImageRollbacks, CodeRollbacks
  <2>2. \A p \in Parts : Restored(r, p) = snap[r][p]
    BY <1>4 DEF Restored
  <2> QED BY <1>1, <1>2, <1>4, <2>1, <2>2 DEF Parts
<1>5. CASE Family = "os"
  <2>1. "source" \notin done
    BY <1>5 DEF RollbackSets, OsRollbacks
  <2> QED BY <1>1, <1>5, <2>1 DEF Parts, NoYum
<1> QED BY <1>3, <1>4, <1>5, RunAssumption DEF Families

(* A health abort restores nothing but, on a yum host, the newest           *)
(* transaction: the ctx it hands the strategy has no backup reference.      *)
LEMMA AbortRestoresNothing ==
  ASSUME Inv, NEW r \in Runs, NEW probed, NEW done \in RollbackSets({}, probed),
         Restore(r, done)
  PROVE  /\ env'["source"] = env["source"]
         /\ NoYum => env' = env
<1>1. env' = [p \in Parts |-> IF p \in done THEN Restored(r, p) ELSE env[p]]
  BY DEF Restore
<1>2. "source" \notin done /\ (NoYum => done = {})
  BY RunAssumption
     DEF RollbackSets, IacRollbacks, ImageRollbacks, CodeRollbacks,
         OsRollbacks, Families, NoYum
<1> QED BY <1>1, <1>2 DEF Parts, Inv, TypeOK

(* What a fix made live, it also has in the source: terraform applies the   *)
(* whole source, so that a success of which only the applied state carries  *)
(* the edit would be undone by the next apply.                              *)
LayerInv ==
  Family = "iac" =>
    \A x \in Runs : KeptAtEnd(x) \/ pc[x] \in {"gate_validate", "validate",
                                               "rollback"}
                    => (x \in env["live"] => x \in env["source"])

(* What an edit makes live it takes from the source.                        *)
LEMMA EditLayers ==
  ASSUME Inv, Family = "iac", NEW r \in Runs, NEW parts, Edit(r, parts),
         NEW x \in Runs, x \in env["live"] => x \in env["source"]
  PROVE  x \in env'["live"] => x \in env'["source"]
<1>1. /\ Edited(r, parts)["live"]
           \in {env["live"], Edited(r, parts)["source"]}
      /\ env["source"] \subseteq Edited(r, parts)["source"]
  BY DEF Edited, Parts, Inv, TypeOK
<1> QED BY <1>1 DEF Edit

LEMMA LayerStep ==
  ASSUME BackupInv, LayerInv, OneWorker, NoCrash, [Next]_vars
  PROVE  LayerInv'
<1> SUFFICES ASSUME Family = "iac",
                    NEW x \in Runs,
                    (KeptAtEnd(x) \/ pc[x] \in {"gate_validate", "validate",
                                                "rollback"})',
                    x \in env'["live"]
             PROVE  x \in env'["source"]
  BY DEF LayerInv
<1>0. Inv /\ Undecided /\ LockHeld /\ FreshInv
  BY DEF BackupInv, RunInv
<1>1. CASE Quiet
  BY <1>1 DEF Quiet, LayerInv
<1>2. CASE ResetSandbox
  BY <1>2 DEF ResetSandbox, Parts
<1>3. ASSUME NEW r \in Runs, Goto(r, "finish"), pc[r] \in Holding,
             \E o, t : Decide(r, o, t), outcome'[r] \in {"failed", "rolled_back"}
      PROVE  x # r /\ KeptAtEnd(x)
  <2>1. /\ pc' = [pc EXCEPT ![r] = "finish"] /\ pc \in [Runs -> PC]
        /\ \A s \in Runs : s # r => outcome'[s] = outcome[s]
    BY <1>0, <1>3 DEF Goto, Decide, Inv, TypeOK
  <2>2. x # r
    BY <1>3, <2>1 DEF KeptAtEnd, Kept
  <2>3. pc[x] \notin Holding \/ pc[r] \notin Holding
    BY <1>0, <2>2, Alone DEF Holders
  <2> QED BY <1>3, <2>1, <2>2, <2>3
          DEF KeptAtEnd, Kept, Holding, Lifecycle, Gates
<1>4. ASSUME NEW done, NEW refs, NEW t, NEW r \in Runs,
             Decide(r, AfterRollback(done), t)
      PROVE  outcome'[r] \in {"failed", "rolled_back"}
  BY <1>0, <1>4 DEF Decide, AfterRollback, Inv, TypeOK
<1>5. ASSUME NEW r \in Runs, HealthAbort(r) PROVE x \in env'["source"]
  <2>1. PICK done \in RollbackSets({}, pc[r] # "gate_preflight") :
          Restore(r, done) /\ Decide(r, AfterRollback(done), Tries({}))
    BY <1>5, Zenon DEF HealthAbort
  <2>2. env' = env
    BY <1>0, <2>1, AbortRestoresNothing DEF NoYum
  <2>3. pc[r] \in Holding /\ Goto(r, "finish")
    BY <1>5 DEF HealthAbort, Holding, Lifecycle
  <2>4. outcome'[r] \in {"failed", "rolled_back"}
    BY <2>1, <1>4
  <2>5. KeptAtEnd(x)
    BY <1>3, <2>1, <2>3, <2>4
  <2> QED BY <2>2, <2>5 DEF LayerInv
<1>6. ASSUME NEW r \in Runs, Rollback(r) PROVE x \in env'["source"]
  <2>1. PICK done \in RollbackSets(ref[r], TRUE) :
          Restore(r, done) /\ Decide(r, AfterRollback(done), Tries(ref[r]))
    BY <1>6, Zenon DEF Rollback
  <2>2. pc[r] = "rollback" /\ Goto(r, "finish")
    BY <1>6 DEF Rollback
  <2>3. pc[r] \in Holding /\ pc[r] \in Mutating
    BY <2>2 DEF Holding, Mutating
  <2>4. outcome'[r] \in {"failed", "rolled_back"}
    BY <2>1, <1>4
  <2>5. x # r /\ KeptAtEnd(x)
    BY <1>3, <2>1, <2>2, <2>3, <2>4
  <2>6. /\ env'["source"] \in {env["source"], env["source"] \ {r}}
        /\ env'["live"] \in {env["live"], env'["source"]}
    BY <2>1, <2>3, RestoreOwn
  <2> QED BY <2>5, <2>6 DEF LayerInv
<1>7. ASSUME NEW r \in Runs, Execute(r) PROVE x \in env'["source"]
  <2>1. /\ \E parts : Edit(r, parts)
        /\ Goto(r, "gate_validate") \/ Goto(r, "rollback")
        /\ pc[r] = "execute" /\ UNCHANGED result
    BY <1>7, Zenon DEF Execute
  <2>2. x \in env["live"] => x \in env["source"]
    <3>1. CASE x = r
      BY <1>0, <2>1, <3>1 DEF FreshInv, Traceless, Before, Parts
    <3>2. CASE x # r
      BY <1>0, <2>1, <3>2
         DEF LayerInv, Goto, KeptAtEnd, Kept, result, Inv, TypeOK
    <3> QED BY <3>1, <3>2
  <2> QED BY <1>0, <2>1, <2>2, EditLayers
<1>8. ASSUME NEW r \in Runs, Backup(r) PROVE x \in env'["source"]
  <2>1. /\ Goto(r, "gate_execute") /\ UNCHANGED <<env, outcome>>
    BY <1>8 DEF Backup, sandbox, result
  <2>2. pc' = [pc EXCEPT ![r] = "gate_execute"] /\ pc \in [Runs -> PC]
    BY <1>0, <2>1 DEF Goto, Inv, TypeOK
  <2> QED BY <2>1, <2>2 DEF LayerInv, KeptAtEnd, Kept, Ending
<1>9. ASSUME NEW r \in Runs, OrphanLands(r) PROVE FALSE
  BY <1>9 DEF OrphanLands, BackupInv, NoOrphan
<1> QED
  BY <1>0, <1>1, <1>2, <1>5, <1>6, <1>7, <1>8, <1>9, Kinds DEF Loud

(* The operator's requests are made only where the environment makes them.  *)
Unreset == "reset" \notin Faults => admin.reset = "unused"
Unforced == "force" \notin Faults => admin.force = "unused" /\ forcing = {}
AdminInv == Unreset /\ Unforced

LEMMA Attended ==
  ASSUME [Next]_vars
  PROVE  \/ UNCHANGED <<forcing, admin>>
         \/ Operator
         \/ \E r \in Runs : ForceClose(r)
<1>1. ASSUME NEW r \in Runs, Dispatch(r) \/ RunStep(r)
      PROVE  UNCHANGED watch
  <2>1. ASSUME Wait(r) PROVE UNCHANGED watch
    BY <2>1 DEF Wait, AcquireLock, PollClear, GiveUp, SetupFails, CreateFixRun,
       DispatchEventFails, EnterLifecycle
  <2>2. ASSUME Phase(r) PROVE UNCHANGED watch
    BY <2>2, Zenon DEF Phase, HealthAbort, LifecycleRaises, StartPreflight,
       PreflightReady, PreflightBlocked, Backup, BackupFails, StartExecute,
       Execute, StartValidate, Validate, ValidateRaises, Rollback
  <2>3. ASSUME End(r) PROVE UNCHANGED watch
    BY <2>3 DEF End, Finalize, FinalizeDegraded, Release
  <2>4. ASSUME Dispatch(r) \/ OrphanLands(r) PROVE UNCHANGED watch
    BY <2>4, Zenon DEF Dispatch, OrphanLands
  <2> QED BY <1>1, <2>1, <2>2, <2>3, <2>4 DEF RunStep
<1>2. ASSUME NEW r \in Runs, Tick(r) \/ Reap(r) \/ Cancel(r)
      PROVE  UNCHANGED <<forcing, admin>>
  BY <1>2 DEF Tick, Reap, Cancel, watch
<1>3. ASSUME SweepSelect \/ UNCHANGED vars \/ \E p \in Procs : ProcessDies(p)
      PROVE  UNCHANGED <<forcing, admin>>
  BY <1>3 DEF SweepSelect, vars, ProcessDies, watch
<1> QED BY <1>1, <1>2, <1>3 DEF Next, watch

LEMMA AdminStep == Inv /\ AdminInv /\ [Next]_vars => AdminInv'
<1> SUFFICES ASSUME Inv, AdminInv, [Next]_vars PROVE AdminInv'
  OBVIOUS
<1> USE DEF AdminInv, Unreset, Unforced, Inv, TypeOK
<1>1. CASE UNCHANGED <<forcing, admin>>
  BY <1>1
<1>2. ASSUME NEW r \in Runs, ForceClose(r) PROVE AdminInv'
  BY <1>2 DEF ForceClose
<1>3. CASE Operator
  BY <1>3 DEF Operator, ForceSelect, ForceCancel, ResetGuard, ResetSandbox
<1> QED BY <1>1, <1>2, <1>3, Attended

LEMMA AdminInvariance == Spec => []AdminInv
<1>1. Init => AdminInv
  BY DEF Init, AdminInv, Unreset, Unforced
<1> QED BY <1>1, AdminStep, Invariance, PTL DEF Spec

(* A step changes the source by the edit of the run that holds the lock     *)
(* alone.                                                                   *)
LEMMA SourceChange ==
  ASSUME BackupInv, AdminInv, OneWorker, NoReset, [Next]_vars,
         env'["source"] # env["source"]
  PROVE  \E r \in Holders :
           env'["source"] \in {env["source"] \cup {r}, env["source"] \ {r}}
<1>0. Inv /\ Undecided
  BY DEF BackupInv, RunInv
<1>1. ~Quiet /\ ~ResetSandbox
  BY DEF Quiet, ResetSandbox, AdminInv, Unreset, NoReset
<1>2. PICK r \in Runs : Loud(r)
  BY <1>0, <1>1, Kinds
<1>3. ~HealthAbort(r)
  <2> SUFFICES ASSUME HealthAbort(r) PROVE FALSE
    OBVIOUS
  <2>1. \E done \in RollbackSets({}, pc[r] # "gate_preflight") :
          Restore(r, done)
    BY Zenon DEF HealthAbort
  <2> QED BY <1>0, <2>1, AbortRestoresNothing
<1>4. ~Backup(r) /\ ~OrphanLands(r)
  BY DEF Backup, OrphanLands, BackupInv, NoOrphan, sandbox
<1>5. CASE Execute(r)
  <2>1. /\ pc[r] = "execute"
        /\ \E parts : Edit(r, parts)
    BY <1>5, Zenon DEF Execute
  <2>2. env'["source"] = env["source"] \cup {r}
    BY <1>0, <2>1, EditOwn DEF BackupInv
  <2> QED BY <2>1, <2>2 DEF Holders, Holding, Lifecycle
<1>6. CASE Rollback(r)
  <2>1. /\ pc[r] = "rollback"
        /\ \E done \in RollbackSets(ref[r], TRUE) : Restore(r, done)
    BY <1>6, Zenon DEF Rollback
  <2>2. env'["source"] = env["source"] \ {r}
    BY <2>1, RestoreOwn DEF Mutating
  <2> QED BY <2>1, <2>2 DEF Holders, Holding
<1> QED BY <1>2, <1>3, <1>4, <1>5, <1>6 DEF Loud

LEMMA KeptStep ==
  ASSUME BackupInv, LayerInv, AdminInv, OneWorker, NoReset, NoYum, [Next]_vars,
         NEW x \in Runs, pc[x] = "ended", Kept(x), NEW p \in Parts, x \in env[p]
  PROVE  x \in env'[p]
<1>0. Inv /\ Undecided /\ x \notin Holders
  BY DEF BackupInv, RunInv, Holders, Holding, Lifecycle, Gates
<1>1. x \in env["source"] => x \in env'["source"]
  BY <1>0, SourceChange
<1> SUFFICES ASSUME p = "live" PROVE x \in env'["live"]
  BY <1>1 DEF Parts
<1>2. Family = "iac" => x \in env["source"]
  BY DEF LayerInv, KeptAtEnd, Ending
<1>3. Quiet \/ \E r \in Runs : Loud(r)
  BY <1>0, Kinds DEF ResetSandbox, AdminInv, Unreset, NoReset
<1>4. ASSUME NEW r \in Runs, Loud(r) PROVE x \in env'["live"]
  <2>1. CASE HealthAbort(r)
    <3>1. \E done \in RollbackSets({}, pc[r] # "gate_preflight") :
            Restore(r, done)
      BY <2>1, Zenon DEF HealthAbort
    <3> QED BY <1>0, <3>1, AbortRestoresNothing
  <2>2. CASE Backup(r)
    BY <2>2 DEF Backup, sandbox
  <2>3. CASE Execute(r)
    <3>1. PICK parts : Edit(r, parts)
      BY <2>3, Zenon DEF Execute
    <3>2. CASE Family = "iac"
      <4>1. env'["live"] \in {env["live"], env'["source"]}
        BY <1>0, <3>1, <3>2 DEF Edit, Edited, Parts, Inv, TypeOK
      <4> QED BY <1>1, <1>2, <3>2, <4>1
    <3>3. CASE Family # "iac"
      BY <1>0, <3>1, <3>3 DEF Edit, Edited, Parts, Inv, TypeOK
    <3> QED BY <3>2, <3>3
  <2>4. CASE Rollback(r)
    <3>1. /\ pc[r] \in Mutating /\ r # x
          /\ \E done \in RollbackSets(ref[r], TRUE) : Restore(r, done)
      BY <2>4, Zenon DEF Rollback, Mutating
    <3>2. /\ Family = "iac" => env'["live"] \in {env["live"], env'["source"]}
          /\ Family # "iac" => env'["live"] \in {env["live"], env["live"] \ {r}}
      BY <3>1, RestoreOwn
    <3> QED BY <1>1, <1>2, <3>1, <3>2
  <2>5. CASE OrphanLands(r)
    BY <2>5 DEF OrphanLands, BackupInv, NoOrphan
  <2> QED BY <1>4, <2>1, <2>2, <2>3, <2>4, <2>5 DEF Loud
<1> QED BY <1>3, <1>4 DEF Quiet

LEMMA LayerInvariance ==
  ASSUME OneWorker, NoCrash
  PROVE  Spec => []LayerInv
<1>1. Init => LayerInv
  BY DEF Init, LayerInv, KeptAtEnd, Ending
<1>2. BackupInv /\ LayerInv /\ [Next]_vars => LayerInv'
  BY LayerStep
<1> QED BY <1>1, <1>2, BackupInvariance, PTL DEF Spec

(* With one worker that is not killed, nobody resetting the sandbox, a fix  *)
(* recorded as a success stays where it is: no failure, rollback or abort   *)
(* of a later run takes it away, for every strategy but the yum one, whose  *)
(* rollback takes back the newest transaction whoever made it.              *)
THEOREM SuccessIsKept ==
  ASSUME OneWorker, NoCrash, NoReset, NoYum
  PROVE  Spec => SuccessSurvives
<1>1. BackupInv /\ LayerInv /\ AdminInv /\ [Next]_vars
      => [\A r \in Runs, p \in Parts :
            pc[r] = "ended" /\ Kept(r) /\ r \in env[p] => r \in env'[p]]_vars
  BY KeptStep
<1> QED
  BY <1>1, BackupInvariance, LayerInvariance, AdminInvariance, PTL
     DEF Spec, SuccessSurvives

-----------------------------------------------------------------------------
(* The lease                                                                *)

LEMMA OneLock ==
  ASSUME OneWorker, LockHeld
  PROVE  Holders = {} \/ \E r \in Runs : Holders = {r}
<1>1. \A r, s \in Holders : r = s
  BY Alone
<1> QED BY <1>1 DEF Holders

(* The lock goes from nobody to a run, or to nobody.                        *)
LEMMA LockMoves ==
  ASSUME [Next]_vars
  PROVE  \/ UNCHANGED lock
         \/ \E p \in Procs : lock' = [lock EXCEPT ![p] = NoRun]
         \/ \E r \in Runs : AcquireLock(r)
<1>1. ASSUME NEW r \in Runs, Wait(r), ~AcquireLock(r)
      PROVE  UNCHANGED lock \/ lock' = [lock EXCEPT ![ProcOf[r]] = NoRun]
  BY <1>1 DEF Wait, PollClear, GiveUp, SetupFails, CreateFixRun,
     DispatchEventFails, EnterLifecycle, FreeLock
<1>2. ASSUME NEW r \in Runs, Phase(r) PROVE UNCHANGED lock
  BY <1>2, Zenon DEF Phase, HealthAbort, LifecycleRaises, StartPreflight,
     PreflightReady, PreflightBlocked, Backup, BackupFails, StartExecute,
     Execute, StartValidate, Validate, ValidateRaises, Rollback
<1>3. ASSUME NEW r \in Runs, End(r)
      PROVE  UNCHANGED lock \/ lock' = [lock EXCEPT ![ProcOf[r]] = NoRun]
  BY <1>3 DEF End, Finalize, FinalizeDegraded, Release, FreeLock
<1>4. ASSUME NEW r \in Runs, Dispatch(r) \/ OrphanLands(r)
      PROVE  UNCHANGED lock
  BY <1>4, Zenon DEF Dispatch, OrphanLands
<1>5. ASSUME NEW r \in Runs, Tick(r) \/ Reap(r) \/ Cancel(r) \/ ForceClose(r)
      PROVE  UNCHANGED lock
  BY <1>5 DEF Tick, Reap, Cancel, ForceClose, local
<1>6. ASSUME SweepSelect \/ Operator \/ UNCHANGED vars PROVE UNCHANGED lock
  BY <1>6 DEF SweepSelect, Operator, ForceSelect, ForceCancel, ResetGuard,
     ResetSandbox, local, vars
<1>7. ASSUME NEW p \in Procs, ProcessDies(p)
      PROVE  lock' = [lock EXCEPT ![p] = NoRun]
  BY <1>7 DEF ProcessDies
<1>8. \A r \in Runs : ProcOf[r] \in Procs
  BY RunAssumption
<1> QED
  BY <1>1, <1>2, <1>3, <1>4, <1>5, <1>6, <1>7, <1>8 DEF Next, RunStep

LEMMA LeaseMoves ==
  ASSUME BackupInv, LockHeld', OneWorker, [Next]_vars
  PROVE  \/ UNCHANGED Holders
         \/ Holders = {} /\ \E r \in Runs : Holders' = {r}
         \/ Holders' = {} /\ \E r \in Runs : Holders = {r}
<1>0. /\ lock \in [Procs -> Runs \cup {NoRun}] /\ LockHeld
      /\ \A r \in Runs : ProcOf[r] \in Procs
  BY RunAssumption DEF BackupInv, RunInv, Inv, TypeOK
<1>1. /\ Holders = {r \in Runs : lock[ProcOf[r]] = r}
      /\ Holders' = {r \in Runs : lock'[ProcOf[r]] = r}
  BY DEF Holders, LockHeld, BackupInv, RunInv
<1>2. CASE UNCHANGED lock
  BY <1>1, <1>2
<1>3. ASSUME NEW p \in Procs, lock' = [lock EXCEPT ![p] = NoRun]
      PROVE  \/ UNCHANGED Holders
             \/ Holders' = {} /\ \E r \in Runs : Holders = {r}
  <2>1. Holders' \subseteq Holders
    BY <1>0, <1>1, <1>3, RunAssumption
  <2>2. CASE \E r \in Runs : ProcOf[r] = p
    <3>1. \A r \in Runs : lock'[ProcOf[r]] = NoRun
      BY <1>0, <1>3, <2>2 DEF OneWorker
    <3>2. Holders' = {}
      BY <1>1, <3>1, RunAssumption
    <3> QED BY <1>0, <3>2, OneLock
  <2>3. CASE ~\E r \in Runs : ProcOf[r] = p
    BY <1>0, <1>1, <1>3, <2>3
  <2> QED BY <2>2, <2>3
<1>4. ASSUME NEW r \in Runs, AcquireLock(r)
      PROVE  Holders = {} /\ Holders' = {r}
  <2>1. lock[ProcOf[r]] = NoRun /\ lock' = [lock EXCEPT ![ProcOf[r]] = r]
    BY <1>4 DEF AcquireLock, LockFree
  <2>2. \A s \in Runs : lock[ProcOf[s]] = NoRun /\ lock'[ProcOf[s]] = r
    BY <1>0, <2>1 DEF OneWorker
  <2> QED BY <1>1, <2>2, RunAssumption
<1> QED BY <1>2, <1>3, <1>4, LockMoves

(* While the source changes the lock stays where it is.                     *)
LEMMA SourceHeld ==
  ASSUME BackupInv, AdminInv, LockHeld', NoReset, [Next]_vars,
         env'["source"] # env["source"]
  PROVE  UNCHANGED Holders
<1>0. Inv /\ Undecided /\ LockHeld
  BY DEF BackupInv, RunInv
<1>1. ~Quiet /\ ~ResetSandbox
  BY DEF Quiet, ResetSandbox, AdminInv, Unreset, NoReset
<1>2. UNCHANGED lock
  BY <1>0, <1>1, Kinds, Zenon
     DEF Loud, HealthAbort, Backup, Execute, Rollback, OrphanLands
<1> QED BY <1>0, <1>2 DEF Holders, LockHeld

LEMMA LeaseStep ==
  ASSUME BackupInv, AdminInv, LockHeld', OneWorker, NoReset, [Next]_vars
  PROVE  [Lease!Next]_(Lease!vars)
<1> USE DEF Lease!Next, Lease!vars, Lease!Take, Lease!Change, Lease!Return
<1>1. CASE env'["source"] = env["source"]
  BY <1>1, LeaseMoves
<1>2. CASE env'["source"] # env["source"]
  BY <1>2, SourceChange, SourceHeld DEF Holders
<1> QED BY <1>1, <1>2

(* With one worker that is not killed, nobody resetting the sandbox, the    *)
(* run implements the lease of the sandbox, step by step and whatever the   *)
(* strategy: taking the process lock is taking the lease, each way out of   *)
(* _run_fixer_locked returns it, and in between a run changes the source by *)
(* its own edit alone.                                                      *)
THEOREM RunIsLease ==
  ASSUME OneWorker, NoCrash, NoReset
  PROVE  Spec => LeaseSpec
<1>1. Init => Lease!Init
  BY DEF Init, Lease!Init, Holders, Holding, Lifecycle, Gates, Parts
<1>2. BackupInv /\ AdminInv /\ LockHeld' /\ [Next]_vars
      => [Lease!Next]_(Lease!vars)
  BY LeaseStep
<1> QED
  BY <1>1, <1>2, BackupInvariance, AdminInvariance, LockIsHeld, PTL
     DEF Spec, LeaseSpec, Lease!Spec

-----------------------------------------------------------------------------
(* Rolled back                                                              *)

(* A code fix edits and restores the source alone, and gives nothing but    *)
(* its own edit to it.                                                      *)
RestoredInv == RunInv /\ RolledBackIsRestored /\ env["live"] = {}

LEMMA CodeEdit ==
  ASSUME Inv, Family = "code", NEW r \in Runs, NEW parts \in Edits,
         Edit(r, parts)
  PROVE  /\ env'["live"] = env["live"]
         /\ env'["source"] \in {env["source"], env["source"] \cup {r}}
<1>1. "live" \notin parts
  BY DEF Edits, CodeEdits
<1> QED BY <1>1 DEF Edit, Edited, Parts, Inv, TypeOK

LEMMA CodeRestore ==
  ASSUME Inv, Family = "code", NEW r \in Runs, NEW refs, NEW probed,
         NEW done \in RollbackSets(refs, probed), Restore(r, done)
  PROVE  /\ env'["live"] = env["live"]
         /\ done # {} => env'["source"] = snap[r]["source"]
<1>1. done = {} \/ done = {"source"}
  BY DEF RollbackSets, CodeRollbacks
<1> QED BY <1>1 DEF Restore, Restored, Parts

LEMMA RestoredStep ==
  ASSUME RestoredInv, OneWorker, Family = "code", [Next]_vars
  PROVE  (RolledBackIsRestored /\ env["live"] = {})'
<1>0. Inv /\ Undecided /\ LockHeld /\ FreshInv
  BY DEF RestoredInv, RunInv
<1>1. CASE Quiet
  BY <1>1
     DEF Quiet, RestoredInv, RolledBackIsRestored, RolledBackAtEnd
<1>2. CASE ResetSandbox
  BY <1>2 DEF ResetSandbox, RolledBackIsRestored, Parts
<1>3. ASSUME NEW r \in Runs, NEW refs, NEW probed,
             NEW done \in RollbackSets(refs, probed), Restore(r, done),
             NEW t, Decide(r, AfterRollback(done), t), Goto(r, "finish"),
             pc[r] \in Holding
      PROVE  (RolledBackIsRestored /\ env["live"] = {})'
  <2>1. /\ env'["live"] = {}
        /\ done # {} => env'["source"] = snap[r]["source"]
    BY <1>0, <1>3, CodeRestore DEF RestoredInv
  <2>2. /\ pc' = [pc EXCEPT ![r] = "finish"] /\ pc \in [Runs -> PC]
        /\ outcome'[r] = AfterRollback(done)
    BY <1>0, <1>3 DEF Goto, Decide, Inv, TypeOK
  <2>3. ASSUME NEW s \in Runs, pc'[s] \in Decided PROVE s = r
    <3>1. s # r => pc[s] \in Holding
      BY <2>2, <2>3 DEF Decided, Holding
    <3> QED BY <1>0, <1>3, <3>1, Alone DEF Holders
  <2>4. outcome'[r] = "rolled_back" => r \notin env'["source"]
    BY <1>0, <2>1, <2>2 DEF AfterRollback, FreshInv, Parts
  <2> QED BY <2>1, <2>3, <2>4 DEF RolledBackIsRestored, Parts
<1>4. ASSUME NEW r \in Runs, HealthAbort(r)
      PROVE  (RolledBackIsRestored /\ env["live"] = {})'
  <2>1. /\ \E done \in RollbackSets({}, pc[r] # "gate_preflight") :
             Restore(r, done) /\ Decide(r, AfterRollback(done), Tries({}))
        /\ Goto(r, "finish") /\ pc[r] \in Gates
    BY <1>4, Zenon DEF HealthAbort
  <2> QED BY <1>3, <2>1 DEF Holding, Lifecycle
<1>5. ASSUME NEW r \in Runs, Rollback(r)
      PROVE  (RolledBackIsRestored /\ env["live"] = {})'
  <2>1. /\ \E done \in RollbackSets(ref[r], TRUE) :
             Restore(r, done) /\ Decide(r, AfterRollback(done), Tries(ref[r]))
        /\ Goto(r, "finish") /\ pc[r] = "rollback"
    BY <1>5, Zenon DEF Rollback
  <2> QED BY <1>3, <2>1 DEF Holding
<1>6. ASSUME NEW r \in Runs, Execute(r) \/ OrphanLands(r)
      PROVE  (RolledBackIsRestored /\ env["live"] = {})'
  <2>1. /\ \E parts \in Edits : Edit(r, parts)
        /\ Goto(r, "gate_validate") \/ Goto(r, "rollback") \/ Goto(r, "dead")
        /\ UNCHANGED result
    BY <1>6, Zenon DEF Execute, OrphanLands
  <2>2. /\ env'["live"] = {}
        /\ env'["source"] \in {env["source"], env["source"] \cup {r}}
    BY <1>0, <2>1, CodeEdit DEF RestoredInv
  <2>3. \A s \in Runs : pc'[s] \in Decided => s # r /\ pc[s] \in Decided
    BY <1>0, <2>1 DEF Goto, Decided, Inv, TypeOK
  <2> QED BY <2>1, <2>2, <2>3
          DEF RestoredInv, RolledBackIsRestored, Parts, result
<1>7. ASSUME NEW r \in Runs, Backup(r)
      PROVE  (RolledBackIsRestored /\ env["live"] = {})'
  <2>1. /\ Goto(r, "gate_execute") /\ UNCHANGED <<env, outcome>>
    BY <1>7 DEF Backup, sandbox, result
  <2>2. \A s \in Runs : pc'[s] \in Decided => pc[s] \in Decided
    BY <1>0, <2>1 DEF Goto, Decided, Inv, TypeOK
  <2> QED BY <2>1, <2>2 DEF RestoredInv, RolledBackIsRestored
<1> QED
  BY <1>0, <1>1, <1>2, <1>4, <1>5, <1>6, <1>7, Kinds DEF Loud

(* With one worker, a code fix that ends rolled_back left nothing of its    *)
(* edit behind, whatever fails, is killed, cancelled or reset meanwhile,    *)
(* and although a command that outlived an earlier process may still edit.  *)
THEOREM RollbackRestores ==
  ASSUME OneWorker, Family = "code"
  PROVE  Spec => []RolledBackIsRestored
<1>1. Init => RolledBackIsRestored /\ env["live"] = {}
  BY DEF Init, RolledBackIsRestored, Parts
<1>2. RestoredInv /\ [Next]_vars => (RolledBackIsRestored /\ env["live"] = {})'
  BY RestoredStep
<1> QED BY <1>1, <1>2, RunInvariance, PTL DEF Spec, RestoredInv

-----------------------------------------------------------------------------
(* The row of a run                                                         *)

(* What a step of run_fixer does to rows: it writes its own alone, it       *)
(* closes it in finalize alone, and it passes no health check while the     *)
(* run is to be aborted.                                                    *)
RunMove(r) ==
  /\ UNCHANGED <<age, cancel, watch>>
  /\ \A s \in Runs : s # r => row'[s] = row[s] /\ pc'[s] = pc[s]
  /\ \/ row'[r] = row[r]
     \/ row'[r] \in InFlight /\ pc[r] \in Gates \cup {"clear"}
     \/ pc[r] = "finish" /\ pc'[r] = "release"
  /\ pc'[r] \in Lifecycle \cup {"created"}
       => \/ pc[r] \in Lifecycle \cup {"created"}
          \/ pc[r] = "clear" /\ row'[r] \in InFlight
  /\ pc[r] \in Gates /\ pc'[r] # "finish" => Healthy(r)

LEMMA RunMoves ==
  ASSUME Inv, NEW r \in Runs, Dispatch(r) \/ RunStep(r)
  PROVE  RunMove(r)
<1> USE DEF RunMove, Gates, Lifecycle, InFlight, Goto, SetStatus, Inv, TypeOK
<1>1. CASE Dispatch(r) BY <1>1 DEF Dispatch
<1>2. CASE Wait(r)
  BY <1>2 DEF Wait, AcquireLock, PollClear, GiveUp, SetupFails, CreateFixRun,
     DispatchEventFails, EnterLifecycle
<1>3. CASE Phase(r)
  <2>1. CASE HealthAbort(r)
    <3>1. Goto(r, "finish") /\ UNCHANGED <<row, age, cancel, watch>>
      BY <2>1, Zenon DEF HealthAbort
    <3> QED BY <3>1
  <2>2. CASE LifecycleRaises(r) BY <2>2 DEF LifecycleRaises
  <2>3. CASE StartPreflight(r) BY <2>3 DEF StartPreflight
  <2>4. CASE PreflightReady(r) BY <2>4 DEF PreflightReady
  <2>5. CASE PreflightBlocked(r) BY <2>5 DEF PreflightBlocked
  <2>6. CASE Backup(r) BY <2>6 DEF Backup
  <2>7. CASE BackupFails(r) BY <2>7 DEF BackupFails
  <2>8. CASE StartExecute(r) BY <2>8 DEF StartExecute
  <2>9. CASE Execute(r)
    <3>1. /\ Goto(r, "gate_validate") \/ Goto(r, "rollback")
          /\ pc[r] = "execute" /\ UNCHANGED <<row, age, cancel, watch>>
      BY <2>9, Zenon DEF Execute
    <3> QED BY <3>1
  <2>10. CASE StartValidate(r) BY <2>10 DEF StartValidate
  <2>11. CASE Validate(r)
    <3>1. /\ Goto(r, "rollback") \/ Goto(r, "finish")
          /\ pc[r] = "validate" /\ UNCHANGED <<row, age, cancel, watch>>
      BY <2>11 DEF Validate
    <3> QED BY <3>1
  <2>12. CASE ValidateRaises(r) BY <2>12 DEF ValidateRaises
  <2>13. CASE Rollback(r)
    <3>1. /\ Goto(r, "finish") /\ pc[r] = "rollback"
          /\ UNCHANGED <<row, age, cancel, watch>>
      BY <2>13, Zenon DEF Rollback
    <3> QED BY <3>1
  <2> QED BY <1>3, <2>1, <2>2, <2>3, <2>4, <2>5, <2>6, <2>7, <2>8, <2>9,
             <2>10, <2>11, <2>12, <2>13 DEF Phase
<1>4. CASE End(r)
  BY <1>4 DEF End, Finalize, FinalizeDegraded, Release
<1>5. CASE OrphanLands(r)
  <2>1. /\ Goto(r, "dead") /\ pc[r] = "orphan"
        /\ UNCHANGED <<row, age, cancel, watch>>
    BY <1>5, Zenon DEF OrphanLands
  <2> QED BY <2>1
<1> QED BY <1>1, <1>2, <1>3, <1>4, <1>5 DEF RunStep

LEMMA FinalStep ==
  ASSUME Inv, AdminInv, NoForce, [Next]_vars,
         NEW r \in Runs, pc[r] \in {"release", "ended"}, row[r] \in Terminal
  PROVE  row'[r] = row[r]
<1> USE DEF Inv, TypeOK
<1>1. ASSUME NEW s \in Runs, Dispatch(s) \/ RunStep(s)
      PROVE  row'[r] = row[r]
  BY <1>1, RunMoves DEF RunMove, Gates
<1>2. ASSUME NEW s \in Runs, Tick(s) \/ Cancel(s) PROVE row'[r] = row[r]
  BY <1>2 DEF Tick, Cancel
<1>3. ASSUME NEW s \in Runs, Reap(s) PROVE row'[r] = row[r]
  BY <1>3 DEF Reap, StillOpen, NonTerminal, Terminal
<1>4. ASSUME NEW s \in Runs, ForceClose(s) PROVE FALSE
  BY <1>4 DEF ForceClose, AdminInv, Unforced, NoForce
<1>5. ASSUME NEW p \in Procs, ProcessDies(p) PROVE row'[r] = row[r]
  BY <1>5 DEF ProcessDies
<1>6. ASSUME SweepSelect \/ Operator \/ UNCHANGED vars
      PROVE  row'[r] = row[r]
  BY <1>6 DEF SweepSelect, Operator, ForceSelect, ForceCancel, ResetGuard,
     ResetSandbox, vars
<1> QED BY <1>1, <1>2, <1>3, <1>4, <1>5, <1>6 DEF Next

(* Where no operator forces rows closed, what a run recorded of itself is   *)
(* never changed: the reaper, which selects rows and updates them later,    *)
(* updates only those still open, and no other run writes the row.          *)
THEOREM FinalStatusStands == ASSUME NoForce PROVE Spec => FinalStands
<1>1. Inv /\ AdminInv /\ [Next]_vars
      => [\A r \in Runs : pc[r] \in {"release", "ended"} /\ row[r] \in Terminal
                          => row'[r] = row[r]]_vars
  BY FinalStep
<1> QED BY <1>1, Invariance, AdminInvariance, PTL DEF Spec, FinalStands

(* A row that was closed under a run that still goes through its phases was *)
(* closed for its age, or by a force-release that cancelled, or is about to *)
(* cancel, the run.                                                         *)
Closed(r) == row[r] = "failed" /\ pc[r] \in Lifecycle \cup {"created"}
ForcedInv ==
  /\ \A r \in sweep : age[r] = "stale"
  /\ forcing # {} => admin.force = "rows"
  /\ \A r \in Runs : Closed(r) => \/ age[r] = "stale" \/ cancel[r]
                                  \/ admin.force = "rows"

LEMMA ForcedStep ==
  ASSUME Inv, ForcedInv, Hitl = {}, [Next]_vars
  PROVE  ForcedInv'
<1> USE DEF Inv, TypeOK, ForcedInv, Closed
<1>1. ASSUME NEW r \in Runs, Dispatch(r) \/ RunStep(r) PROVE ForcedInv'
  <2>1. RunMove(r)
    BY <1>1, RunMoves
  <2>2. \A s \in Runs : Closed(s)' => Closed(s)
    BY <2>1 DEF RunMove, InFlight, Lifecycle, Gates
  <2> QED BY <2>1, <2>2 DEF RunMove, watch
<1>2. ASSUME NEW r \in Runs, Tick(r) PROVE ForcedInv'
  <2>1. /\ age[r] # "stale" /\ UNCHANGED <<pc, row, cancel, watch>>
        /\ \A s \in Runs : s # r => age'[s] = age[s]
        /\ age[r] = "overtime" => age'[r] = "stale"
        /\ age[r] = "young" => age'[r] = "overtime"
    BY <1>2 DEF Tick, local
  <2> QED BY <2>1 DEF watch
<1>3. ASSUME NEW r \in Runs, Reap(r) PROVE ForcedInv'
  BY <1>3 DEF Reap, local
<1>4. ASSUME NEW r \in Runs, Cancel(r) PROVE ForcedInv'
  BY <1>4 DEF Cancel, local, watch
<1>5. ASSUME NEW r \in Runs, ForceClose(r) PROVE ForcedInv'
  BY <1>5 DEF ForceClose, SetStatus, local
<1>6. ASSUME NEW p \in Procs, ProcessDies(p) PROVE ForcedInv'
  BY <1>6 DEF ProcessDies, Lifecycle, Gates, watch
<1>7. CASE SweepSelect BY <1>7 DEF SweepSelect, local
<1>8. CASE ForceSelect BY <1>8 DEF ForceSelect, local
<1>9. CASE ForceCancel
  BY <1>9 DEF ForceCancel, local, Holding
<1>10. CASE ResetGuard \/ ResetSandbox
  BY <1>10 DEF ResetGuard, ResetSandbox, local
<1>11. CASE UNCHANGED vars BY <1>11 DEF vars
<1> QED
  BY <1>1, <1>2, <1>3, <1>4, <1>5, <1>6, <1>7, <1>8, <1>9, <1>10, <1>11
     DEF Next, Operator

LEMMA ForcedStops ==
  ASSUME Inv, ForcedInv, "db" \notin Faults, [Next]_vars,
         NEW r \in Runs, pc[r] \in Gates, admin.force = "done",
         row[r] = "failed", pc'[r] # pc[r]
  PROVE  pc'[r] \in {"finish", "dead"}
<1> USE DEF Inv, TypeOK
<1>1. Aborts(r) /\ ~Healthy(r)
  BY DEF ForcedInv, Closed, Aborts, Healthy, Expired, Lifecycle
<1>2. ASSUME NEW s \in Runs, Dispatch(s) \/ RunStep(s)
      PROVE  pc'[r] = "finish"
  BY <1>1, <1>2, RunMoves DEF RunMove
<1>3. ASSUME NEW s \in Runs, Tick(s) \/ Reap(s) \/ Cancel(s) \/ ForceClose(s)
      PROVE  FALSE
  BY <1>3 DEF Tick, Reap, Cancel, ForceClose, local
<1>4. ASSUME NEW p \in Procs, ProcessDies(p) PROVE pc'[r] = "dead"
  BY <1>4 DEF ProcessDies, Gates
<1>5. ASSUME SweepSelect \/ Operator \/ UNCHANGED vars PROVE FALSE
  BY <1>5 DEF SweepSelect, Operator, ForceSelect, ForceCancel, ResetGuard,
     ResetSandbox, local, vars
<1> QED BY <1>2, <1>3, <1>4, <1>5 DEF Next

(* Where the runs were not dispatched by an approval and the cancellation   *)
(* flag can be read, a run whose row a force-release closed aborts at its   *)
(* next health check: the request cancels what it closed, and a row closed  *)
(* by the reaper instead belongs to a run that is past its own time.        *)
THEOREM ForceReleaseStops ==
  ASSUME Hitl = {}, "db" \notin Faults
  PROVE  Spec => ForcedRunStops
<1>1. Init => ForcedInv
  BY DEF Init, ForcedInv, Closed
<1>2. Inv /\ ForcedInv /\ [Next]_vars => ForcedInv'
  BY ForcedStep
<1>3. Inv /\ ForcedInv /\ [Next]_vars
      => [\A r \in Runs : pc[r] \in Gates /\ admin.force = "done"
                          /\ row[r] = "failed" /\ pc'[r] # pc[r]
                          => pc'[r] \in {"finish", "dead"}]_vars
  BY ForcedStops
<1> QED BY <1>1, <1>2, <1>3, Invariance, PTL DEF Spec, ForcedRunStops

=============================================================================

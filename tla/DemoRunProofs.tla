--------------------------- MODULE DemoRunProofs ---------------------------
(* Theorems about DemoRun, for any findings, modes, results of the fixer and *)
(* number of reviews and failures.                                           *)
EXTENDS DemoRun, FiniteSetTheorems, TLAPS

-----------------------------------------------------------------------------
(* The cancel. *)

\* a package taken before the cancel may still be to dispatch
Pending == pc = "dispatch" \/ ~run.flag

\* The inductive invariant: the one package that the bound allows is the one
\* that was taken before the cancel; until it is dispatched, or as long as
\* nobody has cancelled, the count lags behind the failures by that one.
LateInv ==
  /\ late \in Nat /\ faults \in Nat
  /\ late <= faults + 1
  /\ Pending => late <= faults \/ run.status = "none"
  /\ real = "none" => late = 0 /\ pc = "none"

\* Whatever neither counts nor cancels nor takes a package.
LEMMA QuietKeeps ==
  ASSUME LateInv, late' = late, faults' = faults \/ faults' = faults + 1,
         run'.flag = run.flag,
         run.status = "none" => run'.status = "none",
         pc' = "dispatch" => pc = "dispatch",
         pc = "none" => pc' = "none",
         real' = "none" => real = "none"
  PROVE  LateInv'
  <1>1. Pending' => Pending
    BY Zenon DEF Pending
  <1>2. late' \in Nat /\ faults' \in Nat /\ late' <= faults' + 1
        /\ (late <= faults => late' <= faults') /\ (late = 0 => late' = 0)
    BY DEF LateInv
  <1> QED
    BY <1>1, <1>2, Zenon DEF LateInv

LEMMA LateInit == Init => LateInv
  BY DEF Init, LateInv

\* The steps that leave the request, the run and its count alone.
LEMMA PlainSteps ==
  ASSUME LateInv,
         \/ RealRun \/ Remediate
         \/ \E i \in Findings : PlanOne(i)
         \/ PlanDone \/ FlagPackages \/ FixNode
         \/ FixerRaises \/ FixerReturns \/ ReadBack \/ LoopDone \/ Lost
         \/ SampleNode \/ Raise
         \/ \E i \in Findings : Approve(i) \/ Reject(i) \/ Dispatched(i)
  PROVE  LateInv'
  <1> USE DEF request, history, Hiccup
  <1>1. faults' = faults \/ faults' = faults + 1
    BY Zenon DEF RealRun, Remediate, PlanOne, PlanDone, FlagPackages, FixNode,
      FixerRaises, FixerReturns, ReadBack, LoopDone, Lost, SampleNode, Raise,
      Approve, Reject, Dispatched, Poll
  <1>2. late' = late /\ run' = run
    BY Zenon DEF RealRun, Remediate, PlanOne, PlanDone, FlagPackages, FixNode,
      FixerRaises, FixerReturns, ReadBack, LoopDone, Lost, SampleNode, Raise,
      Approve, Reject, Dispatched
  <1>3. pc' = "dispatch" => pc = "dispatch"
    BY DEF RealRun, Remediate, PlanOne, PlanDone, FlagPackages, FixNode,
      FixerRaises, FixerReturns, ReadBack, LoopDone, Lost, SampleNode, Raise,
      Approve, Reject, Dispatched
  <1>4. pc = "none" => pc' = "none"
    BY DEF RealRun, Remediate, PlanOne, PlanDone, FlagPackages, FixNode,
      FixerRaises, FixerReturns, ReadBack, LoopDone, Lost, SampleNode, Raise,
      Approve, Reject, Dispatched, At, Pipeline
  <1>5. real' = "none" => real = "none"
    BY DEF RealRun, Remediate, PlanOne, PlanDone, FlagPackages, FixNode,
      FixerRaises, FixerReturns, ReadBack, LoopDone, Lost, SampleNode, Raise,
      Approve, Reject, Dispatched
  <1> QED
    BY <1>1, <1>2, <1>3, <1>4, <1>5, QuietKeeps

LEMMA LateStep ==
  ASSUME LateInv, [Next]_vars
  PROVE  LateInv'
  <1> USE DEF request, history, Hiccup
  <1>1. CASE Trigger
    <2>1. /\ real = "none" /\ real' = "queued" /\ late' = late
          /\ faults' = faults \/ faults' = faults + 1
      BY <1>1 DEF Trigger
    <2>2. late = 0 /\ faults \in Nat
      BY <2>1 DEF LateInv
    <2>3. late' \in Nat /\ faults' \in Nat /\ late' <= faults'
          /\ late' <= faults' + 1 /\ real' # "none"
      BY <2>1, <2>2
    <2> QED
      BY <2>3, Zenon DEF LateInv
  <1>2. CASE LoadContext
    <2>1. /\ run.status # "none" /\ run' = [run EXCEPT !.status = "running"]
          /\ late' = late /\ faults' = faults /\ real' = real /\ pc' = "sample"
          /\ pc # "none"
      BY <1>2 DEF LoadContext, At, Alive
    <2>2. run'.flag = run.flag
      BY <2>1
    <2> QED
      BY <2>1, <2>2, QuietKeeps
  <1>3. CASE Take
    <2>1. PICK c \in BOOLEAN, i \in loop.todo :
            /\ Poll(c) /\ UNCHANGED <<run, late, real>> /\ pc = "loop"
            /\ \/ c /\ pc' = "done"
               \/ ~c /\ pc' = "dispatch"
      BY <1>3 DEF Take, At
    <2>2. CASE pc' = "done"
      <3>1. faults' = faults \/ faults' = faults + 1
        BY <2>1 DEF Poll
      <3> QED
        BY <2>1, <2>2, <3>1, QuietKeeps
    <2>3. CASE ~c /\ pc' = "dispatch"
      <3>1. CASE faults' = faults /\ c = Cancelled
        <4>1. ~run.flag
          BY <2>3, <3>1, Zenon DEF Cancelled
        <4>2. Pending
          BY <4>1, Zenon DEF Pending
        <4> QED
          BY <2>1, <3>1, <4>2, Zenon DEF LateInv
      <3>2. CASE faults' = faults + 1
        <4>1. late' \in Nat /\ faults' \in Nat /\ late' <= faults'
              /\ late' <= faults' + 1 /\ (late = 0 => late' = 0)
          BY <2>1, <3>2 DEF LateInv
        <4> QED
          BY <2>1, <4>1, Zenon DEF LateInv
      <3> QED
        BY <2>1, <2>3, <3>1, <3>2 DEF Poll
    <2> QED
      BY <2>1, <2>2, <2>3
  <1>4. CASE Dispatch
    <2>1. /\ pc = "dispatch" /\ pc' = "running"
          /\ run' = run /\ real' = real
          /\ faults' = faults \/ faults' = faults + 1
          /\ late' = IF run.flag THEN late + 1 ELSE late
          /\ run.status # "none"
      BY <1>4, Zenon DEF Dispatch, At, Alive
    <2>2. late <= faults /\ late \in Nat /\ faults \in Nat
      BY <2>1, Zenon DEF LateInv, Pending
    <2>3. faults' \in Nat
      BY <2>1, <2>2
    <2>4. CASE run.flag
      <3>1. late' = late + 1
        BY <2>1, <2>4, Zenon
      <3>2. late' \in Nat /\ late' <= faults' + 1
        BY <2>1, <2>2, <3>1
      <3>3. ~Pending'
        BY <2>1, <2>4, Zenon DEF Pending
      <3>4. real' # "none"
        BY <2>1 DEF LateInv
      <3> QED
        BY <2>3, <3>2, <3>3, <3>4, Zenon DEF LateInv
    <2>5. CASE ~run.flag
      <3>1. late' = late
        BY <2>1, <2>5, Zenon
      <3>2. late' \in Nat /\ late' <= faults' /\ late' <= faults' + 1
        BY <2>1, <2>2, <3>1
      <3> QED
        BY <2>1, <2>3, <3>1, <3>2, Zenon DEF LateInv
    <2> QED
      BY <2>4, <2>5, Zenon
  <1>5. ASSUME NEW node \in {"summarize", "fail"}, NEW status,
               Close(node, status)
        PROVE  LateInv'
    <2>1. /\ run.status # "none" /\ run' = [run EXCEPT !.status = status]
          /\ late' = late /\ faults' = faults /\ real' = real /\ pc' = "done"
          /\ pc # "none"
      BY <1>5 DEF Close, At, Alive
    <2>2. run'.flag = run.flag
      BY <2>1
    <2> QED
      BY <2>1, <2>2, QuietKeeps
  <1>6. CASE Cancel
    <2>1. /\ run.status # "none" /\ ~run.flag /\ run'.flag = TRUE
          /\ late' = late /\ faults' = faults /\ real' = real /\ pc' = pc
      BY <1>6 DEF Cancel, Alive
    <2>2. late <= faults
      BY <2>1, Zenon DEF LateInv, Pending
    <2> QED
      BY <2>1, <2>2, Zenon DEF LateInv
  <1>7. CASE Reset
    <2>1. /\ run'.status = "none" /\ late' = late /\ faults' = faults
          /\ real' = real /\ pc' = pc
      BY <1>7 DEF Reset
    <2> QED
      BY <2>1, Zenon DEF LateInv
  <1>8. CASE UNCHANGED vars
    BY <1>8, QuietKeeps DEF vars
  <1> QED
    BY <1>1, <1>2, <1>3, <1>4, <1>5, <1>6, <1>7, <1>8, PlainSteps
    DEF Next, Master, Summarize, Fail

\* After the cancel the loop starts no package but the one it had taken, and
\* one for each poll that fails.
THEOREM CancelStops == Spec => []StopsSoon
  <1>1. LateInv => StopsSoon
    BY DEF LateInv, StopsSoon
  <1> QED
    BY <1>1, LateInit, LateStep, PTL DEF Spec

-----------------------------------------------------------------------------
(* The status of a package. *)

EarnedBy(status, runs) ==
  /\ status \in {"fixed", "awaiting_review"} => "success" \in runs
  /\ status = "rolled_back" => "rolled_back" \in runs
  /\ status = "fix_failed" => "failed" \in runs
Unfixed(status, m, f) ==
  m \in {"review", "git"} /\ f = 0 => status # "fixed"

\* how the histories keep a fix run's status
Kept(status) == IF status \in Endings THEN status ELSE "failed"

IsLoop(l) == /\ l = [k \in DOMAIN l |-> l[k]]
             /\ DOMAIN l = {"todo", "cur", "row", "known", "tally"}

\* what the loop has read of the fix run it is at
RowSeen ==
  \A r \in loop.row :
    /\ r \in Results
    /\ loop.cur \in Findings => Kept(r.status) \in ended[loop.cur]

\* The inductive invariant: beside what is shown, what the loop is about to
\* show is the verdict of a run that it has seen end.
EarnedInv ==
  /\ faults \in Nat
  /\ pkg \in [Findings -> Statuses \cup {"none"}]
  /\ ended \in [Findings -> SUBSET Endings]
  /\ IsLoop(loop)
  /\ \A i \in Findings : EarnedBy(pkg[i], ended[i]) /\ Unfixed(pkg[i], mode, faults)
  /\ pc = "read" => RowSeen

\* A status is a fair verdict on any run that ended with it.
LEMMA VerdictFair ==
  ASSUME NEW r \in Results, NEW runs, Kept(r.status) \in runs,
         Outcome(Verdict(r)) # "none"
  PROVE  /\ EarnedBy(Outcome(Verdict(r)), runs)
         /\ Unfixed(Outcome(Verdict(r)), mode, faults)
         /\ Outcome(Verdict(r)) \in Statuses
  <1>1. CASE r.status = "success"
    <2>1. Verdict(r) \in {"success", "partial_success", "no_fix_needed"}
      BY <1>1 DEF Verdict
    <2>2. Outcome(Verdict(r)) = IF Reviewed THEN "awaiting_review" ELSE "fixed"
      BY <2>1 DEF Outcome
    <2> QED
      BY <1>1, <2>2
      DEF EarnedBy, Unfixed, Kept, Endings, Statuses, Reviewed, ByReview,
        ByPullRequest
  <1>2. CASE r.status # "success"
    <2>1. Verdict(r) = r.status
      BY <1>2 DEF Verdict
    <2>2. CASE r.status \in {"failed", "rolled_back"}
      BY <2>1, <2>2
      DEF Outcome, EarnedBy, Unfixed, Kept, Endings, Statuses
    <2>3. CASE r.status = "unknown"
      BY <2>1, <2>3 DEF Outcome
    <2> QED
      BY <1>2, <2>2, <2>3, DemoAssumption DEF DemoAssumption
  <1> QED
    BY <1>1, <1>2

\* A step keeps the invariant when what it writes is earned and what it
\* forgets is no run.
LEMMA EarnedKeeps ==
  ASSUME EarnedInv, mode' = mode, faults' = faults \/ faults' = faults + 1,
         pkg' \in [Findings -> Statuses \cup {"none"}],
         ended' \in [Findings -> SUBSET Endings],
         \A i \in Findings : ended[i] \subseteq ended'[i],
         IsLoop(loop'),
         pc' = "read" => RowSeen',
         \A i \in Findings :
           pkg'[i] # pkg[i] =>
             /\ EarnedBy(pkg'[i], ended'[i])
             /\ Unfixed(pkg'[i], mode', faults')
  PROVE  EarnedInv'
  <1>1. faults' \in Nat /\ (faults' = 0 => faults = 0)
    BY DEF EarnedInv
  <1>3. ASSUME NEW i \in Findings
        PROVE  EarnedBy(pkg'[i], ended'[i]) /\ Unfixed(pkg'[i], mode', faults')
    <2>1. CASE pkg'[i] = pkg[i]
      <3>1. EarnedBy(pkg[i], ended[i]) /\ Unfixed(pkg[i], mode, faults)
        BY DEF EarnedInv
      <3>2. EarnedBy(pkg'[i], ended'[i])
        BY <2>1, <3>1 DEF EarnedBy
      <3>3. Unfixed(pkg'[i], mode', faults')
        BY <1>1, <2>1, <3>1 DEF Unfixed
      <3> QED
        BY <3>2, <3>3
    <2> QED
      BY <2>1
  <1> QED
    BY <1>1, <1>3, Zenon DEF EarnedInv

\* The same of a step that writes no package.
LEMMA NothingShown ==
  ASSUME EarnedInv, UNCHANGED <<mode, pkg>>,
         faults' = faults \/ faults' = faults + 1,
         ended' \in [Findings -> SUBSET Endings],
         \A i \in Findings : ended[i] \subseteq ended'[i],
         IsLoop(loop'),
         pc' = "read" => RowSeen'
  PROVE  EarnedInv'
  <1>1. pkg' \in [Findings -> Statuses \cup {"none"}]
    BY DEF EarnedInv
  <1>2. \A i \in Findings :
          pkg'[i] # pkg[i] =>
            /\ EarnedBy(pkg'[i], ended'[i])
            /\ Unfixed(pkg'[i], mode', faults')
    OBVIOUS
  <1>3. mode' = mode
    OBVIOUS
  <1> QED
    BY <1>1, <1>2, <1>3, EarnedKeeps

\* The same of a step that writes one package and sees no run end.
LEMMA OneShown ==
  ASSUME EarnedInv, NEW i, NEW status \in Statuses, SetPkg(i, status),
         mode' = mode, IsLoop(loop'),
         faults' = faults \/ faults' = faults + 1,
         ended' \in [Findings -> SUBSET Endings],
         \A j \in Findings : ended[j] \subseteq ended'[j],
         i \in Findings =>
           EarnedBy(status, ended'[i]) /\ (status # "fixed" \/ faults' > 0
                                            \/ mode' \notin {"review", "git"}),
         pc' = "read" => RowSeen'
  PROVE  EarnedInv'
  <1>1. pkg' = [pkg EXCEPT ![i] = IF @ = "none" THEN @ ELSE status]
        /\ pkg \in [Findings -> Statuses \cup {"none"}]
    BY DEF SetPkg, EarnedInv
  <1>2. pkg' \in [Findings -> Statuses \cup {"none"}]
    BY <1>1
  <1>3. ASSUME NEW j \in Findings, pkg'[j] # pkg[j]
        PROVE  EarnedBy(pkg'[j], ended'[j]) /\ Unfixed(pkg'[j], mode', faults')
    <2>1. j = i /\ pkg'[j] = status
      BY <1>1, <1>3
    <2>2. /\ EarnedBy(status, ended'[i])
          /\ status # "fixed" \/ faults' > 0 \/ mode' \notin {"review", "git"}
      BY <2>1
    <2>4. faults' > 0 => faults' # 0
      BY DEF EarnedInv
    <2>5. Unfixed(pkg'[j], mode', faults')
      BY <2>1, <2>2, <2>4 DEF Unfixed
    <2> QED
      BY <2>1, <2>2, <2>5
  <1>4. \A j \in Findings :
          pkg'[j] # pkg[j] =>
            /\ EarnedBy(pkg'[j], ended'[j])
            /\ Unfixed(pkg'[j], mode', faults')
    BY <1>3, Zenon
  <1> QED
    BY <1>2, <1>4, EarnedKeeps

LEMMA EarnedInit == Init => EarnedInv
  <1> SUFFICES ASSUME Init PROVE EarnedInv
    OBVIOUS
  <1>1. faults \in Nat /\ pc # "read"
    BY DEF Init
  <1>2. pkg \in [Findings -> Statuses \cup {"none"}]
        /\ ended \in [Findings -> SUBSET Endings]
    BY DEF Init
  <1>3. IsLoop(loop)
    BY DEF Init, IsLoop
  <1>4. \A i \in Findings :
          EarnedBy(pkg[i], ended[i]) /\ Unfixed(pkg[i], mode, faults)
    BY DEF Init, EarnedBy, Unfixed
  <1> QED
    BY <1>1, <1>2, <1>3, <1>4 DEF EarnedInv

\* The steps that neither write a package nor see a run end.
LEMMA QuietEarned ==
  ASSUME EarnedInv, UNCHANGED <<mode, pkg, ended>>,
         faults' = faults \/ faults' = faults + 1,
         \/ UNCHANGED loop /\ (pc' = "read" => pc = "read")
         \/ IsLoop(loop') /\ pc' # "read"
  PROVE  EarnedInv'
  <1>1. ended' \in [Findings -> SUBSET Endings]
        /\ \A i \in Findings : ended[i] \subseteq ended'[i]
    BY DEF EarnedInv
  <1>2. CASE UNCHANGED loop /\ (pc' = "read" => pc = "read")
    <2>1. pc' = "read" => RowSeen'
      BY <1>2 DEF EarnedInv, RowSeen
    <2> QED
      BY <1>1, <1>2, <2>1, NothingShown DEF EarnedInv
  <1>3. CASE IsLoop(loop') /\ pc' # "read"
    BY <1>1, <1>3, NothingShown
  <1> QED
    BY <1>2, <1>3

LEMMA EarnedStep ==
  ASSUME EarnedInv, [Next]_vars
  PROVE  EarnedInv'
  <1> USE DEF request, history, Hiccup
  <1>1. CASE \/ Trigger \/ RealRun \/ LoadContext \/ SampleNode \/ Remediate
             \/ PlanDone \/ LoopDone \/ Lost \/ Raise \/ Cancel
             \/ UNCHANGED vars
    <2>1. /\ UNCHANGED <<mode, pkg, ended, loop>>
          /\ faults' = faults \/ faults' = faults + 1
      BY <1>1, Zenon DEF Trigger, RealRun, LoadContext, SampleNode, Remediate,
        PlanDone, LoopDone, Lost, Raise, Cancel, vars, Poll
    <2>2. pc' = "read" => pc = "read"
      BY <1>1 DEF Trigger, RealRun, LoadContext, SampleNode, Remediate,
        PlanDone, LoopDone, Lost, Raise, Cancel, vars
    <2> QED
      BY <2>1, <2>2, QuietEarned
  <1>2. ASSUME NEW node, NEW status, Close(node, status)
        PROVE  EarnedInv'
    BY <1>2, QuietEarned DEF Close
  <1>3. CASE FixNode
    <2>1. /\ UNCHANGED <<mode, pkg, ended>> /\ pc' # "read"
          /\ faults' = faults \/ faults' = faults + 1
          /\ \/ loop' = loop
             \/ \E t, k : loop' = [loop EXCEPT !.todo = t, !.known = k]
      BY <1>3 DEF FixNode, Poll
    <2>2. IsLoop(loop')
      BY <2>1 DEF IsLoop, EarnedInv
    <2> QED
      BY <2>1, <2>2, QuietEarned
  <1>4. CASE Take
    <2>1. /\ UNCHANGED <<mode, pkg, ended>> /\ pc' # "read"
          /\ faults' = faults \/ faults' = faults + 1
          /\ \/ loop' = loop
             \/ \E i : loop' = [loop EXCEPT !.cur = i, !.todo = @ \ {i}]
      BY <1>4 DEF Take, Poll
    <2>2. IsLoop(loop')
      BY <2>1 DEF IsLoop, EarnedInv
    <2> QED
      BY <2>1, <2>2, QuietEarned
  <1>5. CASE FixerRaises
    <2>1. /\ UNCHANGED <<mode, pkg, ended>> /\ pc' # "read"
          /\ faults' = faults
          /\ loop' = [loop EXCEPT !.tally = Count({"covered", "remain"})]
      BY <1>5 DEF FixerRaises
    <2>2. IsLoop(loop')
      BY <2>1 DEF IsLoop, EarnedInv
    <2> QED
      BY <2>1, <2>2, QuietEarned
  <1>6. CASE FixerReturns
    <2>1. PICK r \in Results : /\ loop' = [loop EXCEPT !.row = {r}]
                              /\ Ended(loop.cur, r.status)
      BY <1>6 DEF FixerReturns
    <2>2. UNCHANGED <<mode, pkg>> /\ faults' = faults
      BY <1>6 DEF FixerReturns
    <2>3. IsLoop(loop') /\ loop'.row = {r} /\ loop'.cur = loop.cur
      BY <2>1 DEF IsLoop, EarnedInv
    <2>4. /\ ended' = [ended EXCEPT ![loop.cur] = @ \cup {Kept(r.status)}]
          /\ Kept(r.status) \in Endings
      BY <2>1 DEF Ended, Kept, Endings
    <2>5. ended' \in [Findings -> SUBSET Endings]
          /\ \A i \in Findings : ended[i] \subseteq ended'[i]
      BY <2>4 DEF EarnedInv
    <2>6. RowSeen'
      BY <2>3, <2>4 DEF RowSeen, EarnedInv
    <2> QED
      BY <2>2, <2>3, <2>5, <2>6, NothingShown
  <1>7. ASSUME NEW i \in Findings, PlanOne(i)
        PROVE  EarnedInv'
    <2>1. /\ UNCHANGED <<mode, loop, ended>> /\ faults' = faults /\ pc' = pc
          /\ pkg' \in {pkg, [pkg EXCEPT ![i] = "awaiting_approval"]}
          /\ pc = "plan"
      BY <1>7 DEF PlanOne, At
    <2>2. pkg' \in [Findings -> Statuses \cup {"none"}]
          /\ \A j \in Findings :
               pkg'[j] = pkg[j] \/ pkg'[j] = "awaiting_approval"
      BY <2>1 DEF EarnedInv, Statuses
    <2>3. \A j \in Findings :
            pkg'[j] # pkg[j] =>
              /\ EarnedBy(pkg'[j], ended'[j])
              /\ Unfixed(pkg'[j], mode', faults')
      <3>1. ASSUME NEW j \in Findings, pkg'[j] # pkg[j]
            PROVE  EarnedBy(pkg'[j], ended'[j]) /\ Unfixed(pkg'[j], mode', faults')
        <4>1. EarnedBy(pkg'[j], ended'[j]) /\ pkg'[j] # "fixed"
          BY <2>2, <3>1 DEF EarnedBy
        <4>2. Unfixed(pkg'[j], mode', faults')
          BY <4>1, Zenon DEF Unfixed
        <4> QED
          BY <4>1, <4>2
      <3> QED
        BY <3>1, Zenon
    <2>4. /\ ended' \in [Findings -> SUBSET Endings]
          /\ \A j \in Findings : ended[j] \subseteq ended'[j]
          /\ IsLoop(loop') /\ pc' # "read"
      BY <2>1 DEF EarnedInv
    <2> QED
      BY <2>1, <2>2, <2>3, <2>4, EarnedKeeps, Zenon
  <1>8. CASE FlagPackages \/ Reset
    <2>1. /\ UNCHANGED <<mode, loop, ended>>
          /\ faults' = faults \/ faults' = faults + 1
          /\ pc' = "read" => pc = "read"
          /\ \/ pkg' = pkg
             \/ pkg' = [i \in Findings |-> IF pkg[i] = "none" THEN "none"
                                           ELSE "awaiting_approval"]
             \/ pkg' = [i \in Findings |-> "none"]
      BY <1>8 DEF FlagPackages, Reset
    <2>2. pkg' \in [Findings -> Statuses \cup {"none"}]
          /\ \A j \in Findings :
               pkg'[j] = pkg[j] \/ pkg'[j] \in {"none", "awaiting_approval"}
      BY <2>1 DEF EarnedInv, Statuses
    <2>3. \A j \in Findings :
            pkg'[j] # pkg[j] =>
              /\ EarnedBy(pkg'[j], ended'[j])
              /\ Unfixed(pkg'[j], mode', faults')
      <3>1. ASSUME NEW j \in Findings, pkg'[j] # pkg[j]
            PROVE  EarnedBy(pkg'[j], ended'[j]) /\ Unfixed(pkg'[j], mode', faults')
        <4>1. EarnedBy(pkg'[j], ended'[j]) /\ pkg'[j] # "fixed"
          BY <2>2, <3>1 DEF EarnedBy
        <4>2. Unfixed(pkg'[j], mode', faults')
          BY <4>1, Zenon DEF Unfixed
        <4> QED
          BY <4>1, <4>2
      <3> QED
        BY <3>1, Zenon
    <2>4. /\ ended' \in [Findings -> SUBSET Endings]
          /\ \A j \in Findings : ended[j] \subseteq ended'[j]
          /\ IsLoop(loop')
      BY <2>1 DEF EarnedInv
    <2>5. pc' = "read" => RowSeen'
      BY <2>1 DEF EarnedInv, RowSeen
    <2> QED
      BY <2>1, <2>2, <2>3, <2>4, <2>5, EarnedKeeps, Zenon
  <1>9. ASSUME NEW i, NEW status \in {"ready_for_execution", "rejected"},
               SetPkg(i, status), UNCHANGED <<mode, loop, ended>>,
               faults' = faults, pc' = "read" => pc = "read"
        PROVE  EarnedInv'
    <2>1. status \in Statuses /\ status # "fixed"
          /\ EarnedBy(status, ended'[i])
      BY <1>9 DEF Statuses, EarnedBy
    <2>2. pc' = "read" => RowSeen'
      BY <1>9 DEF EarnedInv, RowSeen
    <2>3. /\ ended' \in [Findings -> SUBSET Endings]
          /\ \A j \in Findings : ended[j] \subseteq ended'[j]
          /\ IsLoop(loop')
      BY <1>9 DEF EarnedInv
    <2> QED
      BY <1>9, <2>1, <2>2, <2>3, OneShown
  <1>10. CASE Dispatch
    <2>1. CASE SetPkg(loop.cur, "ready_for_execution") /\ UNCHANGED faults
      BY <1>10, <2>1, <1>9 DEF Dispatch
    <2>2. CASE Hiccup /\ UNCHANGED pkg
      BY <1>10, <2>2, QuietEarned DEF Dispatch
    <2> QED
      BY <1>10, <2>1, <2>2 DEF Dispatch
  <1>11. ASSUME NEW i \in Findings, Approve(i) \/ Reject(i)
         PROVE  EarnedInv'
    BY <1>9, <1>11 DEF Approve, Reject
  <1>12. CASE ReadBack
    <2>1. PICK r \in loop.row :
            /\ loop' = [loop EXCEPT !.row = {},
                                   !.tally = Count({"covered", Bucket(r)})]
            /\ LET s == Outcome(Verdict(r))
               IN \/ s # "none" /\ SetPkg(loop.cur, s) /\ UNCHANGED faults
                  \/ s = "none" /\ UNCHANGED <<pkg, faults>>
                  \/ s # "none" /\ Hiccup /\ UNCHANGED pkg
      BY <1>12 DEF ReadBack
    <2>2. /\ UNCHANGED <<mode, ended>> /\ pc = "read" /\ pc' # "read"
      BY <1>12 DEF ReadBack, At
    <2>3. IsLoop(loop')
      BY <2>1 DEF IsLoop, EarnedInv
    <2>4. CASE UNCHANGED pkg
      BY <2>1, <2>2, <2>3, <2>4, QuietEarned
    <2>5. CASE /\ Outcome(Verdict(r)) # "none" /\ UNCHANGED faults
               /\ SetPkg(loop.cur, Outcome(Verdict(r)))
      <3> DEFINE s == Outcome(Verdict(r))
      <3>1. /\ r \in Results
            /\ loop.cur \in Findings => Kept(r.status) \in ended[loop.cur]
        BY <2>2 DEF EarnedInv, RowSeen
      <3>2. s \in Statuses
        <4>1. Kept(r.status) \in {Kept(r.status)}
          OBVIOUS
        <4> QED
          BY <2>5, <3>1, <4>1, VerdictFair
      <3>3. loop.cur \in Findings =>
              EarnedBy(s, ended[loop.cur]) /\ Unfixed(s, mode, faults)
        BY <2>5, <3>1, VerdictFair
      <3>4. loop.cur \in Findings =>
              /\ EarnedBy(s, ended'[loop.cur])
              /\ s # "fixed" \/ faults' > 0 \/ mode' \notin {"review", "git"}
        <4>1. mode' = mode /\ faults' = faults
          BY <2>2, <2>5
        <4>2. faults = 0 \/ faults' > 0
          BY <2>5 DEF EarnedInv
        <4>3. ended' = ended
          BY <2>2
        <4> HIDE DEF s
        <4> QED
          BY <3>3, <4>1, <4>2, <4>3 DEF Unfixed
      <3> HIDE DEF s
      <3>5. SetPkg(loop.cur, s) /\ UNCHANGED mode /\ faults' = faults
        BY <2>2, <2>5 DEF s
      <3>6. /\ ended' \in [Findings -> SUBSET Endings]
            /\ \A j \in Findings : ended[j] \subseteq ended'[j]
        BY <2>2 DEF EarnedInv
      <3> QED
        BY <2>2, <2>3, <3>2, <3>4, <3>5, <3>6, OneShown
    <2> QED
      BY <2>1, <2>4, <2>5, Zenon
  <1>13. ASSUME NEW i \in Findings, Dispatched(i)
         PROVE  EarnedInv'
    <2>1. PICK v \in Endings :
            /\ Ended(i, v)
            /\ \/ SetPkg(i, Outcome(v)) /\ UNCHANGED faults
               \/ Hiccup /\ UNCHANGED pkg
               \/ Hiccup /\ v = "success" /\ SetPkg(i, "fixed")
      BY <1>13 DEF Dispatched
    <2>2. UNCHANGED <<mode, loop>> /\ pc' = pc /\ faults \in Nat
      BY <1>13 DEF Dispatched, EarnedInv
    <2>3. ended' = [ended EXCEPT ![i] = @ \cup {v}]
      BY <2>1 DEF Ended
    <2>4. /\ ended' \in [Findings -> SUBSET Endings]
          /\ \A j \in Findings : ended[j] \subseteq ended'[j]
          /\ v \in ended'[i]
      BY <2>3 DEF EarnedInv
    <2>9. IsLoop(loop')
      BY <2>2 DEF EarnedInv
    <2>5. pc' = "read" => RowSeen'
      BY <2>2, <2>4 DEF EarnedInv, RowSeen
    <2>6. CASE SetPkg(i, Outcome(v)) /\ UNCHANGED faults
      <3>1. Outcome(v) \in Statuses /\ EarnedBy(Outcome(v), ended'[i])
        BY <2>4 DEF Outcome, Endings, Statuses, EarnedBy
      <3>2. Outcome(v) # "fixed" \/ mode' \notin {"review", "git"}
        BY <2>2 DEF Outcome, Reviewed, ByReview, ByPullRequest
      <3> QED
        BY <2>2, <2>4, <2>5, <2>6, <2>9, <3>1, <3>2, OneShown
    <2>7. CASE Hiccup /\ UNCHANGED pkg
      BY <2>2, <2>4, <2>5, <2>7, NothingShown DEF EarnedInv
    <2>8. CASE Hiccup /\ v = "success" /\ SetPkg(i, "fixed")
      <3>1. "fixed" \in Statuses /\ EarnedBy("fixed", ended'[i])
        BY <2>4, <2>8 DEF Statuses, EarnedBy
      <3>2. faults' > 0 /\ faults' = faults + 1
        BY <2>2, <2>8
      <3> QED
        BY <2>2, <2>4, <2>5, <2>8, <2>9, <3>1, <3>2, OneShown
    <2> QED
      BY <2>1, <2>6, <2>7, <2>8
  <1> QED
    BY <1>1, <1>2, <1>3, <1>4, <1>5, <1>6, <1>7, <1>8, <1>10, <1>11, <1>12,
       <1>13
    DEF Next, Master, Summarize, Fail

\* Whichever of the loop, the dispatches and the requests writes last, the
\* status a package shows is one that a fix run of it has earned.
THEOREM StatusIsEarned == Spec => []StatusEarned
  <1>1. EarnedInv => StatusEarned
    BY DEF EarnedInv, EarnedBy, Unfixed, StatusEarned, Reviewed, ByReview,
      ByPullRequest
  <1> QED
    BY <1>1, EarnedInit, EarnedStep, PTL DEF Spec

-----------------------------------------------------------------------------
(* The report of the run. *)

\* the loop has not begun, or is at a package
Before == pc \in {"none", "real", "load", "sample", "remediate", "plan",
                  "flag", "fix"}
Taken == pc \in {"dispatch", "running", "read"}

One(condition) == IF condition THEN 1 ELSE 0

Balanced(t) ==
  t["covered"] = t["fixed"] + t["remain"] + t["no_fix_needed"]
                 + t["unaddressed"]

\* The inductive invariant: what is counted, taken or still to take was never
\* more than there are findings; and no finding is proved before its turn, so
\* that the one which is counted as fixed has not been counted before.
TallyInv ==
  /\ IsLoop(loop)
  /\ loop.todo \subseteq Findings /\ loop.row \subseteq Results
  /\ loop.tally \in [Buckets -> Nat] /\ proved \subseteq Findings
  /\ Before => /\ loop.tally = [b \in Buckets |-> 0]
               /\ loop.todo = {} /\ proved = {}
  /\ Taken => loop.cur \in Findings /\ loop.cur \notin loop.todo \cup proved
  /\ loop.todo \cap proved = {}
  /\ Balanced(loop.tally)
  /\ loop.tally["covered"] + Cardinality(loop.todo) + One(Taken)
       <= Cardinality(Findings)
  /\ loop.tally["fixed"] <= Cardinality(proved)

\* Sets of findings are finite.
LEMMA SomeFindings ==
  ASSUME NEW A \in SUBSET Findings
  PROVE  IsFiniteSet(A) /\ Cardinality(A) \in Nat
         /\ Cardinality(A) <= Cardinality(Findings)
         /\ Cardinality(Findings) \in Nat
  BY DemoAssumption, FS_Subset, FS_CardinalityType

LEMMA TallyInit == Init => TallyInv
  <1> SUFFICES ASSUME Init PROVE TallyInv
    OBVIOUS
  <1>1. /\ loop = [todo |-> {}, cur |-> 0, row |-> {}, known |-> FALSE,
                   tally |-> [b \in Buckets |-> 0]]
        /\ pc = "none" /\ proved = {}
    BY DEF Init
  <1>2. IsLoop(loop)
    BY <1>1 DEF IsLoop
  <1>3. Balanced(loop.tally) /\ loop.tally["covered"] = 0
        /\ loop.tally["fixed"] = 0
    BY <1>1 DEF Balanced, Buckets
  <1>4. Cardinality({}) = 0 /\ Cardinality(Findings) \in Nat
    BY SomeFindings, FS_EmptySet
  <1>5. ~Taken /\ One(Taken) = 0
    BY <1>1 DEF Taken, One
  <1> QED
    BY <1>1, <1>2, <1>3, <1>4, <1>5 DEF TallyInv

\* The steps that leave the loop as it is, or drop the package it is at.
LEMMA QuietTally ==
  ASSUME TallyInv, loop' = loop, proved' = proved,
         Before' => Before, Taken' => Taken
  PROVE  TallyInv'
  <1>1. One(Taken') <= One(Taken) /\ One(Taken') \in Nat /\ One(Taken) \in Nat
    BY DEF One
  <1>2. /\ loop.tally["covered"] \in Nat /\ Cardinality(loop.todo) \in Nat
        /\ Cardinality(Findings) \in Nat
    BY SomeFindings DEF TallyInv, Buckets
  <1>3. loop.tally["covered"] + Cardinality(loop.todo) + One(Taken')
          <= Cardinality(Findings)
    BY <1>1, <1>2 DEF TallyInv
  <1> QED
    BY <1>3, Zenon DEF TallyInv

\* What one more in two buckets makes of the counters.
LEMMA CountedIs ==
  ASSUME TallyInv, NEW b \in {"fixed", "remain", "no_fix_needed", "unaddressed"}
  PROVE  /\ Count({"covered", b}) \in [Buckets -> Nat]
         /\ Balanced(Count({"covered", b}))
         /\ Count({"covered", b})["covered"] = loop.tally["covered"] + 1
         /\ Count({"covered", b})["fixed"]
              = IF b = "fixed" THEN loop.tally["fixed"] + 1
                ELSE loop.tally["fixed"]
  <1> DEFINE t == loop.tally
             t2 == Count({"covered", b})
  <1>1. \A c \in Buckets : t[c] \in Nat
    BY DEF TallyInv
  <1>2. Balanced(t)
    BY DEF TallyInv
  <1>3. t2 = [c \in Buckets |-> IF c \in {"covered", b} THEN t[c] + 1 ELSE t[c]]
    BY DEF Count
  <1> HIDE DEF t, t2
  <1>4. t2 \in [Buckets -> Nat]
    BY <1>1, <1>3
  <1>5. /\ t["covered"] \in Nat /\ t["fixed"] \in Nat /\ t["remain"] \in Nat
        /\ t["no_fix_needed"] \in Nat /\ t["unaddressed"] \in Nat
    BY <1>1 DEF Buckets
  <1>6. /\ t2["covered"] = t["covered"] + 1
        /\ t2["fixed"] = IF b = "fixed" THEN t["fixed"] + 1 ELSE t["fixed"]
        /\ t2["remain"] = IF b = "remain" THEN t["remain"] + 1 ELSE t["remain"]
        /\ t2["no_fix_needed"] = IF b = "no_fix_needed"
                                 THEN t["no_fix_needed"] + 1
                                 ELSE t["no_fix_needed"]
        /\ t2["unaddressed"] = IF b = "unaddressed" THEN t["unaddressed"] + 1
                               ELSE t["unaddressed"]
    BY <1>3 DEF Buckets
  <1>7. Balanced(t2)
    BY <1>2, <1>5, <1>6 DEF Balanced
  <1> QED
    BY <1>4, <1>6, <1>7 DEF t, t2

\* A package that is counted as fixed has a passing re-scan of its own.
LEMMA FixedIsProved ==
  ASSUME NEW r \in Results, Bucket(r) = "fixed"
  PROVE  r.status = "success" /\ \E s \in Passed(r) : s.about # "other"
  <1>1. Verdict(r) \in {"success", "partial_success"} /\ Verified(r)
    BY DEF Bucket
  <1>2. r.status \in {"success", "rolled_back", "failed", "unknown"}
    BY DemoAssumption
  <1>3. r.status = "success"
    BY <1>1, <1>2 DEF Verdict
  <1> QED
    BY <1>1, <1>3 DEF Verified

\* A package leaves the loop: it is counted in one bucket.
LEMMA CountTally ==
  ASSUME TallyInv, Taken, ~Taken', ~Before',
         NEW b \in {"fixed", "remain", "no_fix_needed", "unaddressed"},
         IsLoop(loop'), loop'.tally = Count({"covered", b}),
         loop'.todo = loop.todo, loop'.row \subseteq Results,
         \/ proved' = proved \cup {loop.cur}
         \/ proved' = proved /\ b # "fixed"
  PROVE  TallyInv'
  <1>1. /\ loop'.tally \in [Buckets -> Nat] /\ Balanced(loop'.tally)
        /\ loop'.tally["covered"] = loop.tally["covered"] + 1
        /\ loop'.tally["fixed"] = IF b = "fixed" THEN loop.tally["fixed"] + 1
                                  ELSE loop.tally["fixed"]
    BY CountedIs
  <1>2. /\ loop.cur \in Findings /\ loop.cur \notin loop.todo \cup proved
        /\ proved \subseteq Findings /\ loop.todo \subseteq Findings
        /\ loop.todo \cap proved = {}
    BY DEF TallyInv
  <1>3. /\ proved' \subseteq Findings /\ loop'.todo \subseteq Findings
        /\ loop'.todo \cap proved' = {}
    BY <1>2
  <1>4. /\ loop.tally["covered"] \in Nat /\ Cardinality(loop.todo) \in Nat
        /\ Cardinality(Findings) \in Nat /\ loop.tally["fixed"] \in Nat
        /\ Cardinality(proved) \in Nat
    BY <1>2, SomeFindings DEF TallyInv, Buckets
  <1>5. One(Taken) = 1 /\ One(Taken') = 0
    BY DEF One
  <1>6. loop'.tally["covered"] + Cardinality(loop'.todo) + One(Taken')
          <= Cardinality(Findings)
    <2>1. loop.tally["covered"] + Cardinality(loop.todo) + One(Taken)
            <= Cardinality(Findings)
      BY DEF TallyInv
    <2>2. loop'.tally["covered"] = loop.tally["covered"] + 1
          /\ Cardinality(loop'.todo) = Cardinality(loop.todo)
      BY <1>1
    <2>3. PICK c \in Nat, n \in Nat, m \in Nat :
            /\ c = loop.tally["covered"] /\ n = Cardinality(loop.todo)
            /\ m = Cardinality(Findings)
      BY <1>4
    <2>4. c + n + 1 <= m
      BY <1>5, <2>1, <2>3
    <2>5. (c + 1) + n + 0 <= m
      BY <2>4
    <2> QED
      BY <1>5, <2>2, <2>3, <2>5
  <1>7. loop'.tally["fixed"] <= Cardinality(proved')
    <2>1. loop.tally["fixed"] <= Cardinality(proved)
      BY DEF TallyInv
    <2>2. CASE proved' = proved /\ b # "fixed"
      BY <1>1, <2>1, <2>2
    <2>3. CASE proved' = proved \cup {loop.cur}
      <3>1. IsFiniteSet(proved)
        BY <1>2, SomeFindings
      <3>2. Cardinality(proved') = Cardinality(proved) + 1
        BY <1>2, <2>3, <3>1, FS_AddElement
      <3> QED
        BY <1>1, <1>4, <2>1, <3>2
    <2> QED
      BY <2>2, <2>3
  <1> QED
    BY <1>1, <1>3, <1>6, <1>7 DEF TallyInv

LEMMA TallyStep ==
  ASSUME TallyInv, LateInv, [Next]_vars
  PROVE  TallyInv'
  <1> USE DEF request, history
  <1>1. CASE \/ Trigger \/ RealRun \/ LoadContext \/ SampleNode \/ Remediate
             \/ \E i \in Findings : PlanOne(i)
             \/ PlanDone \/ FlagPackages \/ Dispatch \/ LoopDone \/ Summarize
             \/ Fail \/ Lost \/ Raise
             \/ \E i \in Findings : Approve(i) \/ Reject(i) \/ Dispatched(i)
             \/ Cancel \/ Reset \/ UNCHANGED vars
    <2>1. loop' = loop /\ proved' = proved
      BY <1>1, Zenon DEF Trigger, RealRun, LoadContext, SampleNode, Remediate,
        PlanOne, PlanDone, FlagPackages, Dispatch, LoopDone, Summarize, Fail,
        Close, Lost, Raise, Approve, Reject, Dispatched, Cancel, Reset, vars
    <2>2. (Before' => Before) /\ (Taken' => Taken)
      BY <1>1 DEF Trigger, RealRun, LoadContext, SampleNode, Remediate,
        PlanOne, PlanDone, FlagPackages, Dispatch, LoopDone, Summarize, Fail,
        Close, Lost, Raise, Approve, Reject, Dispatched, Cancel, Reset, vars,
        At, Pipeline, Before, Taken, LateInv
    <2> QED
      BY <2>1, <2>2, QuietTally
  <1>2. CASE FixNode
    <2>1. pc = "fix" /\ ~Taken' /\ ~Before' /\ proved' = proved
      BY <1>2 DEF FixNode, At, Taken, Before
    <2>2. CASE loop' = loop
      BY <2>1, <2>2, QuietTally
    <2>3. CASE loop' # loop
      <3>1. PICK k : loop' = [loop EXCEPT
                       !.todo = {i \in Findings : i \in issues /\ pkg[i] # "none"},
                       !.known = k]
        BY <1>2, <2>3 DEF FixNode
      <3>2. IsLoop(loop') /\ loop'.todo \subseteq Findings
            /\ loop'.tally = loop.tally /\ loop'.row = loop.row
        BY <3>1 DEF IsLoop, TallyInv
      <3>3. loop.tally = [b \in Buckets |-> 0] /\ proved = {}
        BY <2>1 DEF TallyInv, Before
      <3>4. /\ loop'.tally["covered"] = 0 /\ loop'.tally["fixed"] = 0
            /\ loop'.tally \in [Buckets -> Nat] /\ Balanced(loop'.tally)
        BY <3>2, <3>3 DEF Balanced, Buckets
      <3>5. /\ Cardinality(loop'.todo) <= Cardinality(Findings)
            /\ Cardinality(loop'.todo) \in Nat /\ Cardinality(Findings) \in Nat
            /\ Cardinality(proved') = 0 /\ One(Taken') = 0
        BY <2>1, <3>2, <3>3, SomeFindings, FS_EmptySet DEF One
      <3>6. loop'.tally["covered"] + Cardinality(loop'.todo) + One(Taken')
              <= Cardinality(Findings)
        BY <3>4, <3>5
      <3>7. loop.row \subseteq Results
        BY DEF TallyInv
      <3> QED
        BY <2>1, <3>2, <3>3, <3>4, <3>5, <3>6, <3>7 DEF TallyInv
    <2> QED
      BY <2>2, <2>3
  <1>3. CASE Take
    <2>1. /\ pc = "loop" /\ proved' = proved /\ ~Before'
          /\ \E i \in loop.todo :
               \/ pc' = "done" /\ loop' = loop
               \/ /\ pc' = "dispatch"
                  /\ loop' = [loop EXCEPT !.cur = i, !.todo = @ \ {i}]
      BY <1>3, Zenon DEF Take, At, Before
    <2>2. CASE pc' = "done" /\ loop' = loop
      <3>1. ~Taken'
        BY <2>2 DEF Taken
      <3> QED
        BY <2>1, <2>2, <3>1, QuietTally
    <2>3. CASE pc' # "done"
      <3>1. PICK i \in loop.todo :
              /\ pc' = "dispatch"
              /\ loop' = [loop EXCEPT !.cur = i, !.todo = @ \ {i}]
        BY <2>1, <2>3
      <3>2. /\ IsLoop(loop') /\ loop'.todo = loop.todo \ {i} /\ loop'.cur = i
            /\ loop'.tally = loop.tally /\ loop'.row = loop.row
        BY <3>1 DEF IsLoop, TallyInv
      <3>3. ~Taken /\ Taken' /\ ~Before'
        BY <2>1, <3>1 DEF Taken, Before
      <3>4. IsFiniteSet(loop.todo)
        BY SomeFindings DEF TallyInv
      <3>5. Cardinality(loop'.todo) = Cardinality(loop.todo) - 1
        BY <3>2, <3>4, FS_RemoveElement
      <3>6. /\ loop.tally["covered"] \in Nat /\ Cardinality(loop.todo) \in Nat
            /\ Cardinality(Findings) \in Nat
        BY SomeFindings DEF TallyInv, Buckets
      <3>7. One(Taken) = 0 /\ One(Taken') = 1
        BY <3>3 DEF One
      <3>8. loop'.tally["covered"] + Cardinality(loop'.todo) + One(Taken')
              <= Cardinality(Findings)
        BY <3>2, <3>5, <3>6, <3>7 DEF TallyInv
      <3>9. /\ loop'.cur \in Findings /\ loop'.cur \notin loop'.todo \cup proved'
            /\ loop'.todo \cap proved' = {} /\ loop'.todo \subseteq Findings
        BY <2>1, <3>2 DEF TallyInv
      <3> QED
        BY <2>1, <3>2, <3>3, <3>8, <3>9 DEF TallyInv
    <2> QED
      BY <2>1, <2>2, <2>3
  <1>4. CASE FixerRaises
    <2>1. /\ pc = "running" /\ pc' = "loop" /\ proved' = proved
          /\ loop' = [loop EXCEPT !.tally = Count({"covered", "remain"})]
      BY <1>4 DEF FixerRaises, At
    <2>2. /\ IsLoop(loop') /\ loop'.tally = Count({"covered", "remain"})
          /\ loop'.todo = loop.todo /\ loop'.row \subseteq Results
      BY <2>1 DEF IsLoop, TallyInv
    <2>3. Taken /\ ~Taken' /\ ~Before'
      BY <2>1 DEF Taken, Before
    <2> QED
      BY <2>1, <2>2, <2>3, CountTally
  <1>5. CASE FixerReturns
    <2>1. PICK r \in Results : loop' = [loop EXCEPT !.row = {r}]
      BY <1>5 DEF FixerReturns
    <2>2. pc = "running" /\ pc' = "read" /\ proved' = proved
      BY <1>5 DEF FixerReturns, At
    <2>3. /\ IsLoop(loop') /\ loop'.tally = loop.tally
          /\ loop'.todo = loop.todo /\ loop'.row \subseteq Results
          /\ loop'.cur = loop.cur
      BY <2>1 DEF IsLoop, TallyInv
    <2>4. Taken /\ Taken' /\ ~Before'
      BY <2>2 DEF Taken, Before
    <2> QED
      BY <2>2, <2>3, <2>4 DEF TallyInv, One
  <1>6. CASE ReadBack
    <2>1. PICK r \in loop.row :
            /\ loop' = [loop EXCEPT !.row = {},
                                   !.tally = Count({"covered", Bucket(r)})]
            /\ proved' = IF /\ r.status = "success"
                            /\ \E s \in Passed(r) : s.about # "other"
                         THEN proved \cup {loop.cur} ELSE proved
      BY <1>6, Zenon DEF ReadBack
    <2>2. pc = "read" /\ pc' = "loop"
      BY <1>6 DEF ReadBack, At
    <2>3. Taken /\ ~Taken' /\ ~Before'
      BY <2>2 DEF Taken, Before
    <2>4. r \in Results
      BY DEF TallyInv
    <2>5. Bucket(r) \in {"fixed", "remain", "no_fix_needed", "unaddressed"}
      BY DEF Bucket
    <2>6. /\ IsLoop(loop') /\ loop'.tally = Count({"covered", Bucket(r)})
          /\ loop'.todo = loop.todo /\ loop'.row \subseteq Results
      BY <2>1 DEF IsLoop, TallyInv
    <2>7. \/ proved' = proved \cup {loop.cur}
          \/ proved' = proved /\ Bucket(r) # "fixed"
      BY <2>1, <2>4, FixedIsProved
    <2> QED
      BY <2>3, <2>5, <2>6, <2>7, CountTally
  <1> QED
    BY <1>1, <1>2, <1>3, <1>4, <1>5, <1>6, Zenon DEF Next, Master

LEMMA TallyHonest == TallyInv => ReportHonest
  <1> SUFFICES ASSUME TallyInv PROVE ReportHonest
    OBVIOUS
  <1>1. /\ loop.tally["covered"] \in Nat /\ Cardinality(loop.todo) \in Nat
        /\ Cardinality(Findings) \in Nat /\ One(Taken) \in Nat
    BY SomeFindings DEF TallyInv, Buckets, One
  <1>2. loop.tally["covered"] + Cardinality(loop.todo) <= Cardinality(Findings)
    BY <1>1 DEF TallyInv
  <1> QED
    BY <1>2 DEF TallyInv, ReportHonest, Balanced

\* Whatever the fix runs leave behind, whatever fails, and whatever operators
\* do to the packages meanwhile: the loop counts every finding it went through
\* once and in one bucket, and counts none as fixed without a successful run
\* of its package and a passing re-scan for its own rule or the whole target
\* (the fix node of the demo master and its verdicts).
THEOREM ReportIsHonest == Spec => []ReportHonest
  <1> QED
    BY TallyInit, TallyStep, TallyHonest, LateInit, LateStep, PTL DEF Spec

-----------------------------------------------------------------------------
(* What the operators are shown. *)

\* what was sampled is the sample of what the real run left
SampleInv ==
  /\ mode \in Modes
  /\ pc \in {"none", "real", "load", "sample"} => issues = {}
  /\ pc \notin {"none", "real"} => pool \in Pools
  /\ issues # {} => issues = Sampled(pool, Cap)

LEMMA SampleInit == Init => SampleInv
  BY DEF Init, SampleInv

LEMMA SampleStep ==
  ASSUME SampleInv, LateInv, [Next]_vars
  PROVE  SampleInv'
  <1> USE DEF request, history
  <1>1. mode' = mode
    BY Zenon DEF Next, Master, Trigger, RealRun, LoadContext, SampleNode,
      Remediate, PlanOne, PlanDone, FlagPackages, FixNode, Take, Dispatch,
      FixerRaises, FixerReturns, ReadBack, LoopDone, Summarize, Fail, Close,
      Lost, Raise, Approve, Reject, Dispatched, Cancel, Reset, vars
  <1>2. Cap' = Cap
    BY <1>1 DEF Cap
  <1>3. CASE RealRun
    BY <1>1, <1>3 DEF RealRun, SampleInv
  <1>4. CASE SampleNode
    BY <1>1, <1>2, <1>4 DEF SampleNode, SampleInv, At
  <1>5. CASE Reset
    BY <1>1, <1>5 DEF Reset, SampleInv
  <1>6. CASE \/ Trigger \/ LoadContext \/ Remediate
             \/ \E i \in Findings : PlanOne(i)
             \/ PlanDone \/ FlagPackages \/ FixNode \/ Take \/ Dispatch
             \/ FixerRaises \/ FixerReturns \/ ReadBack \/ LoopDone
             \/ Summarize \/ Fail \/ Lost \/ Raise
             \/ \E i \in Findings : Approve(i) \/ Reject(i) \/ Dispatched(i)
             \/ Cancel \/ UNCHANGED vars
    <2>1. pool' = pool /\ issues' = issues
      BY <1>6, Zenon DEF Trigger, LoadContext, Remediate,
        PlanOne, PlanDone, FlagPackages, FixNode, Take, Dispatch, FixerRaises,
        FixerReturns, ReadBack, LoopDone, Summarize, Fail, Close, Lost, Raise,
        Approve, Reject, Dispatched, Cancel, vars
    <2>2. /\ pc' \in {"none", "real", "load", "sample"} =>
               pc \in {"none", "real", "load", "sample"}
          /\ pc' \notin {"none", "real"} => pc \notin {"none", "real"}
      BY <1>6 DEF Trigger, LoadContext, Remediate,
        PlanOne, PlanDone, FlagPackages, FixNode, Take, Dispatch, FixerRaises,
        FixerReturns, ReadBack, LoopDone, Summarize, Fail, Close, Lost, Raise,
        Approve, Reject, Dispatched, Cancel, vars, At, Pipeline, LateInv
    <2> QED
      BY <1>1, <1>2, <2>1, <2>2 DEF SampleInv
  <1> QED
    BY <1>3, <1>4, <1>5, <1>6, Zenon DEF Next, Master

\* what a sampler owes for each pool and each cap of the four endpoints
SamplerSound ==
  \A p \in Pools, cap \in {0, HitlCap} : SoundSample(p, Sampled(p, cap), cap)

LEMMA NothingSampled ==
  ASSUME NEW p, NEW cap
  PROVE  SoundSample(p, {}, cap)
  BY DEF SoundSample

\* At any moment of a run, whatever fails and whatever operators do: the demo
\* tables hold a sound sample of what the real run left, the report counts
\* honestly, and a package shows a status it has earned.  What the sampler's
\* loops compute is the premise; that the run shows it and nothing else, for
\* the cap of its endpoint, is part of the proof.
THEOREM ShownIsTrue ==
  ASSUME SamplerSound
  PROVE  Spec => []Truthful
  <1>1. SampleInv => SampleSound
    <2> SUFFICES ASSUME SampleInv PROVE SampleSound
      OBVIOUS
    <2>1. CASE issues = {}
      BY <2>1, NothingSampled DEF SampleSound
    <2>2. CASE issues # {}
      <3>1. pool \in Pools /\ issues = Sampled(pool, Cap)
        BY <2>2 DEF SampleInv
      <3>2. Cap \in {0, HitlCap}
        BY DEF Cap
      <3> QED
        BY <3>1, <3>2 DEF SamplerSound, SampleSound
    <2> QED
      BY <2>1, <2>2
  <1>2. Spec => []SampleSound
    BY <1>1, SampleInit, SampleStep, LateInit, LateStep, PTL DEF Spec
  <1>3. SampleSound /\ ReportHonest /\ StatusEarned => Truthful
    BY DEF Truthful
  <1> QED
    BY <1>2, <1>3, ReportIsHonest, StatusIsEarned, PTL
=============================================================================

---------------------------- MODULE PackageReview ----------------------------
(***************************************************************************)
(* The life of a remediation package under human review: the operators'    *)
(* approve and reject requests that gate the dispatch of Sub-Agent 4, the  *)
(* background task that runs the fixer and syncs its outcome back to the   *)
(* package, and the requests that keep or undo the diff of a finished run, *)
(* on the sandbox (its backup file) or on GitHub (its pull request).       *)
(*                                                                         *)
(* An endpoint reads the package, checks its status, acts on the sandbox   *)
(* or on GitHub and writes the new status: each is a step of its own, with *)
(* the steps of others in between.  The content of a sandbox file is the   *)
(* set of packages whose edit it carries.  FixRun has the run itself; here *)
(* it is its effect on the file, its fix_runs row and its outcome.         *)
(***************************************************************************)
EXTENDS Naturals, Sequences

CONSTANTS
  Packages,   \* the remediation packages
  Files,      \* the sandbox files they edit
  FileOf,     \* the file of each package
  Reviewed,   \* the packages created with review_required
  Git,        \* those of them created with git_native_review as well
  Clients,    \* the requests that may be in progress at the same time
  ActOn,      \* the statuses from which operators press Approve or Reject
  Allowed,    \* what the environment of this instance may do
  MaxRuns,    \* bound: fix runs started
  MaxFaults   \* bound: restarts and failed database writes

ASSUME ReviewAssumption ==
  /\ FileOf \in [Packages -> Files]
  /\ Reviewed \subseteq Packages
  /\ Git \subseteq Reviewed
  /\ Allowed \subseteq {"overlap", "github", "ssm", "restart", "write",
                        "read", "noref"}
  /\ MaxRuns \in Nat
  /\ MaxFaults \in Nat

VARIABLES
  status,  \* remediation_packages.status
  pr,      \* the state on GitHub of the pull request the package records
  file,    \* the content of the sandbox files
  rows,    \* the fix_runs rows of the packages, oldest first
  req,     \* the request of each client, then its background task
  faults   \* the faults that have occurred

vars == <<status, pr, file, rows, req, faults>>

Statuses == {"awaiting_approval", "rejected", "ready_for_execution", "fixed",
             "rolled_back", "fix_failed", "awaiting_review", "review_rejected"}
PrStates == {"none", "open", "merged", "closed"}
Backups == {"none", "kept", "deleted"}
Outcomes == {"success", "rolled_back", "failed"}

\* inside an endpoint, having checked the status
Http == {"approving", "rejecting", "keeping", "cleaning", "restoring",
         "restored", "merging", "merged", "closing", "closed"}
\* inside run_fixer, holding the env2 lock
Running == {"backup", "edit", "verify"}
PC == {"idle", "queued", "sync"} \cup Http \cup Running

Init ==
  /\ status = [p \in Packages |-> "awaiting_approval"]
  /\ pr = [p \in Packages |-> "none"]
  /\ file = [f \in Files |-> {}]
  /\ rows = <<>>
  /\ req = [c \in Clients |-> [pc |-> "idle"]]
  /\ faults = 0

-----------------------------------------------------------------------------
(* Requests *)

At(c, pc) == req[c].pc = pc
Pkg(c) == req[c].pkg
Goto(c, pc) == req' = [req EXCEPT ![c].pc = pc]
Leave(c) == req' = [req EXCEPT ![c] = [pc |-> "idle"]]

\* without "overlap" operators wait for an answer before the next request
Enter(c, p, pc) ==
  /\ At(c, "idle")
  /\ "overlap" \in Allowed \/ \A d \in Clients : req[d].pc \notin Http
  /\ req' = [req EXCEPT ![c] = [pc |-> pc, pkg |-> p]]

Write(p, s) == status' = [status EXCEPT ![p] = s]

\* the newest fix_run of a package, the one the review endpoints look up
LastRow_any(p) == Len(rows)
LastRow(p) ==
  LET own == {i \in DOMAIN rows : rows[i].pkg = p}
  IN CHOOSE i \in own : \A j \in own : j <= i

-----------------------------------------------------------------------------
(* The gate on dispatch: approve and reject *)

Approvable_anytime(p) == status[p] # "rejected"
Approvable(p) == status[p] \notin {"ready_for_execution", "rejected"}

ApproveStart(c, p) ==
  /\ status[p] \in ActOn \cup {"ready_for_execution"}
  /\ Approvable(p)
  /\ Len(rows) < MaxRuns
  /\ Enter(c, p, "approving")
  /\ UNCHANGED <<status, pr, file, rows, faults>>

\* the endpoint answers and the client's task starts after it
Approve(c) ==
  /\ At(c, "approving")
  /\ Write(Pkg(c), "ready_for_execution")
  /\ Goto(c, "queued")
  /\ UNCHANGED <<pr, file, rows, faults>>

RejectStart(c, p) ==
  /\ status[p] \in ActOn \ {"ready_for_execution", "rejected"}
  /\ Enter(c, p, "rejecting")
  /\ UNCHANGED <<status, pr, file, rows, faults>>

Reject(c) ==
  /\ At(c, "rejecting")
  /\ Write(Pkg(c), "rejected")
  /\ Leave(c)
  /\ UNCHANGED <<pr, file, rows, faults>>

-----------------------------------------------------------------------------
(* The background task: run the fixer, sync its outcome to the package *)

StartRun(c) ==
  /\ At(c, "queued")
  /\ \A d \in Clients : req[d].pc \notin Running
  /\ rows' = Append(rows, [pkg |-> Pkg(c), before |-> {}, backup |-> "none"])
  /\ Goto(c, "backup")
  /\ UNCHANGED <<status, pr, file, faults>>

\* run_fixer raises: no row, or none that the task gets to know of
CrashStatus_ignored(p) == status[p]
CrashStatus(p) == "fix_failed"
DispatchFails(c) ==
  /\ At(c, "queued")
  /\ Write(Pkg(c), CrashStatus(Pkg(c)))
  /\ Leave(c)
  /\ UNCHANGED <<pr, file, rows, faults>>

Ends(c, outcome) ==
  req' = [req EXCEPT ![c] = [pc |-> "sync", pkg |-> Pkg(c), outcome |-> outcome]]

\* the row of the run that holds the env2 lock is the newest of the table;
\* with "noref" the strategy may have nothing it can restore by a copy
Backup(c) ==
  /\ At(c, "backup")
  /\ \E b \in {"kept"} \cup (IF "noref" \in Allowed THEN {"none"} ELSE {}) :
       rows' = [rows EXCEPT ![Len(rows)].backup = b,
                            ![Len(rows)].before = file[FileOf[Pkg(c)]]]
  /\ Goto(c, "edit")
  /\ UNCHANGED <<status, pr, file, faults>>

Edit(c) ==
  /\ At(c, "edit")
  /\ file' = [file EXCEPT ![FileOf[Pkg(c)]] = @ \cup {Pkg(c)}]
  /\ Goto(c, "verify")
  /\ UNCHANGED <<status, pr, rows, faults>>

\* what becomes of the backup of a run that succeeded
Kept_deleted(b) == "deleted"
Kept(b) == b

\* the scanner no longer reports the finding; the pull request is best effort,
\* and only the first push of a package's branch goes through
RunSucceeds(c) ==
  LET p == Pkg(c) IN
  /\ At(c, "verify")
  /\ rows' = [rows EXCEPT ![Len(rows)].backup = Kept(@)]
  /\ \E s \in {pr[p]} \cup (IF p \in Git /\ pr[p] = "none" THEN {"open"} ELSE {}) :
       pr' = [pr EXCEPT ![p] = s]
  /\ Ends(c, "success")
  /\ UNCHANGED <<status, file, faults>>

RunRollsBack(c) ==
  /\ req[c].pc \in {"edit", "verify"}
  /\ rows[Len(rows)].backup = "kept"
  /\ file' = [file EXCEPT ![FileOf[Pkg(c)]] = rows[Len(rows)].before]
  /\ Ends(c, "rolled_back")
  /\ UNCHANGED <<status, pr, rows, faults>>

\* nothing was restored, because of a failed pre-flight, backup or rollback
RunFails(c) ==
  /\ req[c].pc \in Running
  /\ Ends(c, "failed")
  /\ UNCHANGED <<status, pr, file, rows, faults>>

\* _FIX_TO_PACKAGE and the review_required override; the override is lost when
\* the package cannot be read
FixToPackage_raw(outcome) == outcome
FixToPackage(outcome) ==
  CASE outcome = "success" -> "fixed"
    [] outcome = "rolled_back" -> "rolled_back"
    [] outcome = "failed" -> "fix_failed"
SyncStatuses_unreviewed(p, outcome) == {FixToPackage(outcome)}
SyncStatuses(p, outcome) ==
  IF outcome = "success" /\ p \in Reviewed
  THEN {"awaiting_review"} \cup (IF "read" \in Allowed THEN {"fixed"} ELSE {})
  ELSE {FixToPackage(outcome)}

Sync(c) ==
  /\ At(c, "sync")
  /\ \E s \in SyncStatuses(Pkg(c), req[c].outcome) : Write(Pkg(c), s)
  /\ Leave(c)
  /\ UNCHANGED <<pr, file, rows, faults>>

-----------------------------------------------------------------------------
(* The review of the diff on the sandbox *)

\* the page shows the sandbox or the Git buttons by the package's pull request
Reviewable(p) == status[p] = "awaiting_review"

ReviewApproveStart(c, p) ==
  /\ Reviewable(p)
  /\ pr[p] = "none"
  /\ Enter(c, p, "keeping")
  /\ UNCHANGED <<status, pr, file, rows, faults>>

ReviewApprove(c) ==
  /\ At(c, "keeping")
  /\ Write(Pkg(c), "fixed")
  /\ Goto(c, "cleaning")
  /\ UNCHANGED <<pr, file, rows, faults>>

\* rm -f of the backup, best effort
CleanUpBackup(c) ==
  LET i == LastRow(Pkg(c)) IN
  /\ At(c, "cleaning")
  /\ rows' = [rows EXCEPT ![i].backup = IF @ = "kept" THEN "deleted" ELSE @]
  /\ Leave(c)
  /\ UNCHANGED <<status, pr, file, faults>>

CleanUpFails(c) ==
  /\ "ssm" \in Allowed
  /\ At(c, "cleaning")
  /\ Leave(c)
  /\ UNCHANGED <<status, pr, file, rows, faults>>

ReviewRejectStart(c, p) ==
  /\ Reviewable(p)
  /\ pr[p] = "none"
  /\ Enter(c, p, "restoring")
  /\ UNCHANGED <<status, pr, file, rows, faults>>

RestoreBackup(c) ==
  LET r == rows[LastRow(Pkg(c))] IN
  /\ At(c, "restoring")
  /\ r.backup = "kept"
  /\ file' = [file EXCEPT ![FileOf[r.pkg]] = r.before]
  /\ Goto(c, "restored")
  /\ UNCHANGED <<status, pr, rows, faults>>

\* no reference (500), a failed copy or an SSM error (502): nothing is written
RestoreError_ignored(c) == Goto(c, "restored")
RestoreError(c) == Leave(c)
RestoreFails(c) ==
  /\ At(c, "restoring")
  /\ "ssm" \in Allowed \/ rows[LastRow(Pkg(c))].backup # "kept"
  /\ RestoreError(c)
  /\ UNCHANGED <<status, pr, file, rows, faults>>

ReviewReject(c) ==
  /\ At(c, "restored")
  /\ Write(Pkg(c), "review_rejected")
  /\ Leave(c)
  /\ UNCHANGED <<pr, file, rows, faults>>

-----------------------------------------------------------------------------
(* The review of the pull request on GitHub *)

ReviewGitApproveStart(c, p) ==
  /\ Reviewable(p)
  /\ pr[p] # "none"
  /\ Enter(c, p, "merging")
  /\ UNCHANGED <<status, pr, file, rows, faults>>

\* merge_pr: a merged pull request counts as merged, a closed one is an error
Mergeable_any == {"open", "merged", "closed"}
Mergeable == {"open", "merged"}
MergePr(c) ==
  LET p == Pkg(c) IN
  /\ At(c, "merging")
  /\ pr[p] \in Mergeable
  /\ pr' = [pr EXCEPT ![p] = IF @ = "open" THEN "merged" ELSE @]
  /\ Goto(c, "merged")
  /\ UNCHANGED <<status, file, rows, faults>>

MergeFails(c) ==
  /\ At(c, "merging")
  /\ "github" \in Allowed \/ pr[Pkg(c)] \notin Mergeable
  /\ Leave(c)
  /\ UNCHANGED <<status, pr, file, rows, faults>>

ReviewGitApprove(c) ==
  /\ At(c, "merged")
  /\ Write(Pkg(c), "fixed")
  /\ Leave(c)
  /\ UNCHANGED <<pr, file, rows, faults>>

ReviewGitRejectStart(c, p) ==
  /\ Reviewable(p)
  /\ pr[p] # "none"
  /\ Enter(c, p, "closing")
  /\ UNCHANGED <<status, pr, file, rows, faults>>

\* close_pr: GitHub reports a merged pull request as closed, which is a success
ClosePr(c) ==
  /\ At(c, "closing")
  /\ pr' = [pr EXCEPT ![Pkg(c)] = IF @ = "open" THEN "closed" ELSE @]
  /\ Goto(c, "closed")
  /\ UNCHANGED <<status, file, rows, faults>>

CloseFails(c) ==
  /\ "github" \in Allowed
  /\ At(c, "closing")
  /\ Leave(c)
  /\ UNCHANGED <<status, pr, file, rows, faults>>

ReviewGitReject(c) ==
  /\ At(c, "closed")
  /\ Write(Pkg(c), "review_rejected")
  /\ Leave(c)
  /\ UNCHANGED <<pr, file, rows, faults>>

-----------------------------------------------------------------------------
(* The environment *)

\* somebody merges or closes the pull request on GitHub itself
GithubActs(p) ==
  /\ "github" \in Allowed
  /\ pr[p] = "open"
  /\ \E s \in {"merged", "closed"} : pr' = [pr EXCEPT ![p] = s]
  /\ UNCHANGED <<status, file, rows, req, faults>>

Fault(kind) ==
  /\ kind \in Allowed
  /\ faults < MaxFaults
  /\ faults' = faults + 1

\* the write of the status fails, after whatever the request did before it: an
\* endpoint answers 500, the background task swallows the error
WriteFails(c) ==
  /\ req[c].pc \in {"approving", "rejecting", "keeping", "restored", "merged",
                    "closed", "queued", "sync"}
  /\ Fault("write")
  /\ Leave(c)
  /\ UNCHANGED <<status, pr, file, rows>>

\* the requests and the background tasks of the backend die with it
Restart ==
  /\ Fault("restart")
  /\ req' = [c \in Clients |-> [pc |-> "idle"]]
  /\ UNCHANGED <<status, pr, file, rows>>

Task(c) ==
  \/ StartRun(c) \/ DispatchFails(c)
  \/ Backup(c) \/ Edit(c) \/ RunSucceeds(c) \/ RunRollsBack(c) \/ RunFails(c)
  \/ Sync(c)

Endpoint(c) ==
  \/ Approve(c) \/ Reject(c)
  \/ ReviewApprove(c) \/ CleanUpBackup(c) \/ CleanUpFails(c)
  \/ RestoreBackup(c) \/ RestoreFails(c) \/ ReviewReject(c)
  \/ MergePr(c) \/ MergeFails(c) \/ ReviewGitApprove(c)
  \/ ClosePr(c) \/ CloseFails(c) \/ ReviewGitReject(c)

Operator(c, p) ==
  \/ ApproveStart(c, p) \/ RejectStart(c, p)
  \/ ReviewApproveStart(c, p) \/ ReviewRejectStart(c, p)
  \/ ReviewGitApproveStart(c, p) \/ ReviewGitRejectStart(c, p)

Next ==
  \/ \E c \in Clients : Endpoint(c) \/ Task(c) \/ WriteFails(c)
  \/ \E c \in Clients, p \in Packages : Operator(c, p)
  \/ \E p \in Packages : GithubActs(p)
  \/ Restart

Spec == Init /\ [][Next]_vars

\* a request runs to its answer and a task to its end unless the backend dies;
\* nothing obliges an operator to act
FairSpec == Spec /\ \A c \in Clients : WF_vars(Endpoint(c)) /\ WF_vars(Task(c))

-----------------------------------------------------------------------------
(* Properties *)

Req == [pc : {"idle"}]
         \cup [pc : PC \ {"idle", "sync"}, pkg : Packages]
         \cup [pc : {"sync"}, pkg : Packages, outcome : Outcomes]
Row == [pkg : Packages, before : SUBSET Packages, backup : Backups]

\* Every variable has its type; a status is one of those the CHECK constraint
\* of remediation_packages admits.
TypeOK ==
  /\ status \in [Packages -> Statuses]
  /\ pr \in [Packages -> PrStates]
  /\ file \in [Files -> SUBSET Packages]
  /\ rows \in Seq(Row)
  /\ req \in [Clients -> Req]
  /\ faults \in 0..MaxFaults

\* A package that requires a review becomes fixed in no other way than by a
\* human's decision on the diff it waits with.
ReviewGate ==
  [][\A p \in Reviewed : status'[p] = "fixed" /\ status[p] # "fixed"
        => status[p] = "awaiting_review"]_vars

\* The outcome a background task writes answers the dispatch the package is
\* still waiting for: it overwrites no decision a human took in the meantime.
NoLateOutcome ==
  [][\A p \in Packages :
        /\ status'[p] # status[p]
        /\ status'[p] \in {"awaiting_review", "rolled_back", "fix_failed"}
        => status[p] = "ready_for_execution"]_vars

\* The changes of a package that ended as fixed are live in the sandbox, as
\* long as no fault separated the steps of a request.
FixedIsLive ==
  faults = 0 =>
    \A p \in Packages : status[p] = "fixed" => p \in file[FileOf[p]]

\* The changes of a package that ended as fixed are live, whatever failed.
FixedIsAlwaysLive ==
  \A p \in Packages : status[p] = "fixed" => p \in file[FileOf[p]]

\* A package whose changes were rejected on review, or rolled back by the run,
\* has left no edit behind; a package reviewed by its pull request is excepted,
\* the sandbox is not what its rejection undoes.
UndoneIsGone ==
  \A p \in Packages :
    status[p] \in {"review_rejected", "rolled_back"} /\ pr[p] = "none"
      => p \notin file[FileOf[p]]

\* While a package waits for the review of its diff, the backup of its latest
\* run is there, and it is the file without the package's edit.
Restorable ==
  \A p \in Packages : status[p] = "awaiting_review" /\ pr[p] = "none" =>
    /\ rows[LastRow(p)].backup = "kept"
    /\ p \notin rows[LastRow(p)].before

\* A package with a pull request ends as fixed only when that is merged.
FixedIsMerged ==
  \A p \in Git : status[p] = "fixed" => pr[p] \in {"none", "merged"}

\* A package's status is true of the world outside the table, whatever the two
\* operators, the dispatches and GitHub do in between: fixed is live in the
\* sandbox and, by pull request, merged; rejected and rolled back are gone.
StatusTruthful == FixedIsLive /\ UndoneIsGone /\ FixedIsMerged

\* A package rejected on review has not been merged.
RejectedIsUnmerged ==
  \A p \in Git : status[p] = "review_rejected" => pr[p] # "merged"

\* A dispatched package gets an outcome, unless a restart or a failed database
\* write lost it.
DispatchEnds ==
  \A p \in Packages :
    (status[p] = "ready_for_execution")
      ~> (status[p] # "ready_for_execution" \/ faults > 0)

\* A dispatched package gets an outcome.
AlwaysEnds ==
  \A p \in Packages :
    (status[p] = "ready_for_execution") ~> (status[p] # "ready_for_execution")
=============================================================================

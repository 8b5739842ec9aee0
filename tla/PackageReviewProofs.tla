------------------------- MODULE PackageReviewProofs -------------------------
(* Theorems about the review of remediation packages, for any number of     *)
(* packages, files, operators, runs and faults.                             *)
EXTENDS PackageReview, TLAPS

-----------------------------------------------------------------------------
(* Requests                                                                 *)

LEMMA Entered ==
  ASSUME req \in [Clients -> Req], NEW c \in Clients, NEW p \in Packages,
         NEW l \in PC \ {"idle", "sync"}, Enter(c, p, l)
  PROVE  /\ req' \in [Clients -> Req]
         /\ req[c].pc = "idle" /\ req'[c].pc = l /\ req'[c].pkg = p
         /\ \A d \in Clients : d # c => req'[d] = req[d]
BY DEF Enter, Req, At

LEMMA Went ==
  ASSUME req \in [Clients -> Req], NEW c \in Clients,
         req[c].pc \notin {"idle", "sync"},
         NEW l \in PC \ {"idle", "sync"}, Goto(c, l)
  PROVE  /\ req' \in [Clients -> Req]
         /\ req'[c].pc = l /\ req'[c].pkg = req[c].pkg
         /\ req[c].pkg \in Packages
         /\ \A d \in Clients : d # c => req'[d] = req[d]
<1>1. req[c] \in [pc : PC \ {"idle", "sync"}, pkg : Packages]
  BY DEF Req
<1>2. req' = [req EXCEPT ![c] = [req[c] EXCEPT !.pc = l]]
  BY DEF Goto
<1> QED BY <1>1, <1>2 DEF Req

LEMMA Left ==
  ASSUME req \in [Clients -> Req], NEW c \in Clients, Leave(c)
  PROVE  /\ req' \in [Clients -> Req]
         /\ req'[c].pc = "idle"
         /\ \A d \in Clients : d # c => req'[d] = req[d]
BY DEF Leave, Req

LEMMA Ended ==
  ASSUME req \in [Clients -> Req], NEW c \in Clients, req[c].pc # "idle",
         NEW o \in Outcomes, Ends(c, o)
  PROVE  /\ req' \in [Clients -> Req]
         /\ req'[c].pc = "sync" /\ req'[c].pkg = req[c].pkg
         /\ req'[c].outcome = o /\ req[c].pkg \in Packages
         /\ \A d \in Clients : d # c => req'[d] = req[d]
BY DEF Ends, Req, Pkg

LEMMA Named ==
  ASSUME req \in [Clients -> Req], NEW c \in Clients, req[c].pc # "idle"
  PROVE  /\ Pkg(c) \in Packages
         /\ req[c].pc = "sync" => req[c].outcome \in Outcomes
BY DEF Req, Pkg

-----------------------------------------------------------------------------
(* Rows                                                                     *)

(* The newest row of a package, without the choice.                         *)
IsLast(i, p) == /\ rows[i].pkg = p
                /\ \A j \in DOMAIN rows : rows[j].pkg = p => j <= i
HasRow(p) == \E i \in DOMAIN rows : IsLast(i, p)
Undoable(p) == \E i \in DOMAIN rows : IsLast(i, p) /\ p \notin rows[i].before
Recorded(p) == \E i \in DOMAIN rows : IsLast(i, p) /\ rows[i].backup = "kept"
RunsOn(p) == Len(rows) > 0 /\ rows[Len(rows)].pkg = p

(* Whoever looks up the newest row of a package finds one, and the run that *)
(* holds the lock finds its own at the end of the table.                    *)
Rowed == {"sync", "keeping", "cleaning", "restoring"}
RowInv ==
  /\ \A p \in Packages : status[p] = "awaiting_review" => HasRow(p)
  /\ \A c \in Clients : /\ req[c].pc \in Running => RunsOn(Pkg(c))
                        /\ req[c].pc \in Rowed => HasRow(Pkg(c))
  /\ \A c, d \in Clients : req[c].pc \in Running /\ req[d].pc \in Running
                           => c = d

TypeInv == TypeOK /\ RowInv

(* The search for the newest row of a package finds it.                     *)
LEMMA Looked ==
  ASSUME NEW p, NEW i \in DOMAIN rows, IsLast(i, p), rows \in Seq(Row)
  PROVE  LastRow(p) = i
<1> DEFINE own == {k \in DOMAIN rows : rows[k].pkg = p}
           Newest(k) == k \in own /\ \A j \in own : j <= k
<1>1. Newest(i)
  BY DEF IsLast
<1>2. \A k : Newest(k) => k = i
  BY <1>1 DEF IsLast
<1>3. LastRow(p) = CHOOSE k \in own : \A j \in own : j <= k
  BY DEF LastRow
<1> QED BY <1>1, <1>2, <1>3

LEMMA RunsLast ==
  ASSUME rows \in Seq(Row), NEW p, RunsOn(p)
  PROVE  Len(rows) \in DOMAIN rows /\ IsLast(Len(rows), p)
BY DEF RunsOn, IsLast

(* The rows of the others stay when a row is added or rewritten.            *)
LEMMA RowAdded ==
  ASSUME rows \in Seq(Row), NEW r \in Row, rows' = Append(rows, r)
  PROVE  /\ rows' \in Seq(Row)
         /\ RunsOn(r.pkg)'
         /\ \A p \in Packages : HasRow(p) => HasRow(p)'
         /\ \A p \in Packages : p # r.pkg =>
              /\ Undoable(p) => Undoable(p)'
              /\ Recorded(p) => Recorded(p)'
<1>1. /\ rows' \in Seq(Row) /\ Len(rows') = Len(rows) + 1
      /\ \A i \in DOMAIN rows : rows'[i] = rows[i]
      /\ rows'[Len(rows')] = r
      /\ DOMAIN rows' = DOMAIN rows \cup {Len(rows')}
      /\ \A i \in DOMAIN rows : i < Len(rows')
      /\ DOMAIN rows \subseteq Nat /\ Len(rows') \in Nat
  OBVIOUS
<1>2. ASSUME NEW p, p # r.pkg, NEW i \in DOMAIN rows, IsLast(i, p)
      PROVE  i \in DOMAIN rows' /\ IsLast(i, p)'
  BY <1>1, <1>2 DEF IsLast
<1>3. IsLast(Len(rows), r.pkg)' /\ Len(rows') \in DOMAIN rows'
  BY <1>1 DEF IsLast
<1> QED BY <1>1, <1>2, <1>3 DEF RunsOn, HasRow, Undoable, Recorded

LEMMA RowRewritten ==
  ASSUME rows \in Seq(Row), NEW i, NEW r \in Row, rows' = [rows EXCEPT ![i] = r],
         i \in DOMAIN rows => r.pkg = rows[i].pkg
  PROVE  /\ rows' \in Seq(Row)
         /\ \A p \in Packages : /\ HasRow(p) => HasRow(p)'
                                /\ RunsOn(p) => RunsOn(p)'
         /\ \A p \in Packages :
              /\ Undoable(p) /\ (i \in DOMAIN rows => p # rows[i].pkg
                                                    \/ p \notin r.before)
                   => Undoable(p)'
              /\ Recorded(p) /\ (i \in DOMAIN rows => p # rows[i].pkg
                                                    \/ r.backup = "kept")
                   => Recorded(p)'
<1>1. /\ rows' \in Seq(Row) /\ Len(rows') = Len(rows)
      /\ DOMAIN rows' = DOMAIN rows
      /\ \A j \in DOMAIN rows : rows'[j].pkg = rows[j].pkg
      /\ \A j \in DOMAIN rows : rows'[j] = IF j = i THEN r ELSE rows[j]
      /\ Len(rows) > 0 => Len(rows) \in DOMAIN rows
  <2>1. /\ rows \in [1..Len(rows) -> Row] /\ Len(rows) \in Nat
        /\ DOMAIN rows = 1..Len(rows)
    OBVIOUS
  <2>2. rows' \in [1..Len(rows) -> Row] /\ DOMAIN rows' = DOMAIN rows
    BY <2>1
  <2>3. \A j \in DOMAIN rows : rows'[j] = IF j = i THEN r ELSE rows[j]
    BY <2>1
  <2>4. rows' \in Seq(Row) /\ Len(rows') = Len(rows)
    BY <2>1, <2>2
  <2> QED BY <2>1, <2>2, <2>3, <2>4
<1>2. \A j \in DOMAIN rows, p \in Packages : IsLast(j, p) => IsLast(j, p)'
  BY <1>1 DEF IsLast
<1> QED BY <1>1, <1>2 DEF RunsOn, HasRow, Undoable, Recorded, IsLast

LEMMA RowsStay ==
  ASSUME UNCHANGED rows
  PROVE  \A p \in Packages : /\ HasRow(p)' <=> HasRow(p)
                             /\ RunsOn(p)' <=> RunsOn(p)
                             /\ Undoable(p)' <=> Undoable(p)
                             /\ Recorded(p)' <=> Recorded(p)
BY DEF HasRow, RunsOn, Undoable, Recorded, IsLast

(* A step of one client that starts no run.                                 *)
LEMMA RowStep ==
  ASSUME TypeInv, NEW c \in Clients, req' \in [Clients -> Req],
         \A d \in Clients : d # c => req'[d] = req[d],
         \A p \in Packages : /\ HasRow(p) => HasRow(p)'
                             /\ RunsOn(p) => RunsOn(p)',
         req'[c].pc \in Running
           => req[c].pc \in Running /\ req'[c].pkg = req[c].pkg,
         req'[c].pc \in Rowed => HasRow(req'[c].pkg),
         \A p \in Packages : status'[p] = "awaiting_review"
           => status[p] = "awaiting_review" \/ HasRow(p)
  PROVE  RowInv'
<1>1. \A d \in Clients : /\ req[d].pc # "idle" => req[d].pkg \in Packages
                         /\ req'[d].pc # "idle" => req'[d].pkg \in Packages
  BY DEF TypeInv, TypeOK, Req
<1>2. ASSUME NEW d \in Clients, NEW p, p = req'[d].pkg
      PROVE  /\ req'[d].pc \in Running => RunsOn(p)'
             /\ req'[d].pc \in Rowed => HasRow(p)'
  <2>1. /\ req[d].pc \in Running => RunsOn(req[d].pkg)
        /\ req[d].pc \in Rowed => HasRow(req[d].pkg)
    BY DEF TypeInv, RowInv, Pkg
  <2>2. /\ req'[d].pc \in Running => RunsOn(p)
        /\ req'[d].pc \in Rowed => HasRow(p)
    BY <1>2, <2>1
  <2>3. req'[d].pc \in Running \cup Rowed => p \in Packages
    BY <1>1, <1>2 DEF Running, Rowed
  <2> QED BY <2>2, <2>3
<1>3. \A d, e \in Clients : req'[d].pc \in Running /\ req'[e].pc \in Running
                            => d = e
  BY DEF TypeInv, RowInv
<1>4. \A p \in Packages : status'[p] = "awaiting_review" => HasRow(p)'
  BY DEF TypeInv, RowInv
<1>5. \A d \in Clients : /\ req'[d].pc \in Running => RunsOn(Pkg(d))'
                         /\ req'[d].pc \in Rowed => HasRow(Pkg(d))'
  BY <1>2 DEF Pkg
<1> QED BY <1>3, <1>4, <1>5 DEF RowInv

LEMMA TypeStep == TypeInv /\ [Next]_vars => TypeInv'
<1> SUFFICES ASSUME TypeInv, [Next]_vars
             PROVE  TypeInv'
  OBVIOUS
<1>0. /\ status \in [Packages -> Statuses] /\ pr \in [Packages -> PrStates]
      /\ file \in [Files -> SUBSET Packages] /\ rows \in Seq(Row)
      /\ req \in [Clients -> Req] /\ faults \in 0..MaxFaults
  BY DEF TypeInv, TypeOK
<1> USE DEF PC, Http, Running, Rowed, At
(* what only moves a client, and perhaps writes a status or a pull request *)
<1>1. ASSUME NEW c \in Clients, req' \in [Clients -> Req],
             \A d \in Clients : d # c => req'[d] = req[d],
             UNCHANGED <<file, rows>>, faults' \in 0..MaxFaults,
             status' \in [Packages -> Statuses], pr' \in [Packages -> PrStates],
             req'[c].pc \in Running
               => req[c].pc \in Running /\ req'[c].pkg = req[c].pkg,
             req'[c].pc \in Rowed => HasRow(req'[c].pkg),
             \A p \in Packages : status'[p] = "awaiting_review"
               => status[p] = "awaiting_review" \/ HasRow(p)
      PROVE  TypeInv'
  <2>1. RowInv'
    BY <1>1, RowsStay, RowStep
  <2> QED BY <1>0, <1>1, <2>1 DEF TypeInv, TypeOK
<1>2. ASSUME NEW c \in Clients, Leave(c),
             UNCHANGED <<pr, file, rows>>, faults' \in 0..MaxFaults,
             status' \in [Packages -> Statuses],
             \A p \in Packages : status'[p] = "awaiting_review"
               => status[p] = "awaiting_review" \/ HasRow(p)
      PROVE  TypeInv'
  <2>1. /\ req' \in [Clients -> Req] /\ req'[c].pc = "idle"
        /\ \A d \in Clients : d # c => req'[d] = req[d]
    BY <1>0, <1>2, Left
  <2> QED BY <1>0, <1>1, <1>2, <2>1
<1>3. ASSUME NEW c \in Clients, NEW p \in Packages, Operator(c, p)
      PROVE  TypeInv'
  <2>1. PICK l \in {"approving", "rejecting", "keeping", "restoring", "merging",
                    "closing"} :
          /\ Enter(c, p, l)
          /\ l \in {"keeping", "restoring"} => status[p] = "awaiting_review"
    BY <1>3, Zenon
       DEF Operator, ApproveStart, RejectStart, ReviewApproveStart,
           ReviewRejectStart, ReviewGitApproveStart, ReviewGitRejectStart,
           Reviewable
  <2>2. UNCHANGED <<status, pr, file, rows, faults>>
    BY <1>3, Zenon
       DEF Operator, ApproveStart, RejectStart, ReviewApproveStart,
           ReviewRejectStart, ReviewGitApproveStart, ReviewGitRejectStart
  <2>3. /\ req' \in [Clients -> Req] /\ req'[c].pc = l /\ req'[c].pkg = p
        /\ \A d \in Clients : d # c => req'[d] = req[d]
    BY <1>0, <2>1, Entered
  <2>4. l \in {"keeping", "restoring"} => HasRow(p)
    BY <2>1 DEF TypeInv, RowInv
  <2> QED BY <1>0, <1>1, <2>2, <2>3, <2>4
<1>4. ASSUME NEW c \in Clients, NEW l \in PC \ {"idle", "sync"}, Goto(c, l),
             req[c].pc \notin {"idle", "sync"},
             l \notin Running, l \in Rowed => req[c].pc \in Rowed,
             UNCHANGED <<file, rows, faults>>,
             status' \in [Packages -> Statuses], pr' \in [Packages -> PrStates],
             \A p \in Packages : status'[p] = "awaiting_review"
               => status[p] = "awaiting_review"
      PROVE  TypeInv'
  <2>1. /\ req' \in [Clients -> Req] /\ req'[c].pc = l
        /\ req'[c].pkg = req[c].pkg
        /\ \A d \in Clients : d # c => req'[d] = req[d]
    BY <1>0, <1>4, Went
  <2>2. req'[c].pc \in Rowed => HasRow(req'[c].pkg)
    BY <1>4, <2>1 DEF TypeInv, RowInv, Pkg
  <2>3. req'[c].pc \notin Running
    BY <1>4, <2>1
  <2> HIDE DEF PC, Running, Rowed
  <2> QED BY <1>0, <1>1, <1>4, <2>1, <2>2, <2>3
<1>5. ASSUME NEW c \in Clients, Endpoint(c) PROVE TypeInv'
  <2> USE DEF Write, Statuses, PrStates
  <2>1. req[c].pc # "idle"
    BY <1>5, Zenon
       DEF Endpoint, Approve, Reject, ReviewApprove, CleanUpBackup,
           CleanUpFails, RestoreBackup, RestoreFails, ReviewReject, MergePr,
           MergeFails, ReviewGitApprove, ClosePr, CloseFails, ReviewGitReject
  <2>2. Pkg(c) \in Packages
    BY <1>0, <2>1, Named
  <2>3. CASE Approve(c) BY <1>0, <1>4, <2>2, <2>3 DEF Approve
  <2>4. CASE Reject(c) BY <1>0, <1>2, <2>2, <2>4 DEF Reject
  <2>5. CASE ReviewApprove(c) BY <1>0, <1>4, <2>2, <2>5 DEF ReviewApprove
  <2>6. CASE CleanUpBackup(c)
    <3>1. PICK i \in DOMAIN rows : IsLast(i, Pkg(c))
      BY <2>6 DEF CleanUpBackup, TypeInv, RowInv, HasRow
    <3>2. LastRow(Pkg(c)) = i
      BY <1>0, <3>1, Looked
    <3> DEFINE b == IF rows[i].backup = "kept" THEN "deleted" ELSE rows[i].backup
               r == [rows[i] EXCEPT !.backup = b]
    <3>3. /\ rows' = [rows EXCEPT ![i] = r]
          /\ Leave(c) /\ UNCHANGED <<status, pr, file, faults>>
      BY <2>6, <3>2 DEF CleanUpBackup
    <3>4. rows[i] \in Row
      BY <1>0
    <3>5. r \in Row /\ r.pkg = rows[i].pkg
      BY <3>4 DEF Row, Backups
    <3> HIDE DEF r
    <3>6. /\ rows' \in Seq(Row)
          /\ \A p \in Packages : /\ HasRow(p) => HasRow(p)'
                                 /\ RunsOn(p) => RunsOn(p)'
      BY <1>0, <3>3, <3>5, RowRewritten
    <3>7. /\ req' \in [Clients -> Req] /\ req'[c].pc = "idle"
          /\ \A d \in Clients : d # c => req'[d] = req[d]
      BY <1>0, <3>3, Left
    <3>8. RowInv'
      BY <3>3, <3>6, <3>7, RowStep
    <3> QED BY <1>0, <3>3, <3>6, <3>7, <3>8 DEF TypeInv, TypeOK
  <2>7. CASE CleanUpFails(c) BY <1>0, <1>2, <2>7 DEF CleanUpFails
  <2>8. CASE RestoreBackup(c)
    <3>1. PICK i \in DOMAIN rows : IsLast(i, Pkg(c))
      BY <2>8 DEF RestoreBackup, TypeInv, RowInv, HasRow
    <3>2. LastRow(Pkg(c)) = i
      BY <1>0, <3>1, Looked
    <3>3. rows[i].before \in SUBSET Packages
      <4>1. rows[i] \in Row
        BY <1>0
      <4> QED BY <4>1 DEF Row
    <3>4. /\ file' = [file EXCEPT ![FileOf[rows[i].pkg]] = rows[i].before]
          /\ Goto(c, "restored") /\ UNCHANGED <<status, pr, rows, faults>>
          /\ req[c].pc = "restoring"
      BY <2>8, <3>2 DEF RestoreBackup
    <3>5. file' \in [Files -> SUBSET Packages]
      BY <1>0, <3>3, <3>4
    <3>6. /\ req' \in [Clients -> Req] /\ req'[c].pc = "restored"
          /\ \A d \in Clients : d # c => req'[d] = req[d]
      BY <1>0, <3>4, Went
    <3>7. RowInv'
      BY <3>4, <3>6, RowsStay, RowStep
    <3> QED BY <1>0, <3>4, <3>5, <3>6, <3>7 DEF TypeInv, TypeOK
  <2>9. CASE RestoreFails(c)
    BY <1>0, <1>2, <2>9 DEF RestoreFails, RestoreError
  <2>10. CASE ReviewReject(c) BY <1>0, <1>2, <2>2, <2>10 DEF ReviewReject
  <2>11. CASE MergePr(c) BY <1>0, <1>4, <2>2, <2>11 DEF MergePr
  <2>12. CASE MergeFails(c) BY <1>0, <1>2, <2>12 DEF MergeFails
  <2>13. CASE ReviewGitApprove(c)
    BY <1>0, <1>2, <2>2, <2>13 DEF ReviewGitApprove
  <2>14. CASE ClosePr(c) BY <1>0, <1>4, <2>2, <2>14 DEF ClosePr
  <2>15. CASE CloseFails(c) BY <1>0, <1>2, <2>15 DEF CloseFails
  <2>16. CASE ReviewGitReject(c)
    BY <1>0, <1>2, <2>2, <2>16 DEF ReviewGitReject
  <2> QED
    BY <1>5, <2>3, <2>4, <2>5, <2>6, <2>7, <2>8, <2>9, <2>10, <2>11, <2>12,
       <2>13, <2>14, <2>15, <2>16 DEF Endpoint
<1>6. ASSUME NEW c \in Clients, Task(c) PROVE TypeInv'
  <2> USE DEF Write, Statuses, PrStates, Outcomes
  <2>1. req[c].pc # "idle"
    BY <1>6, Zenon
       DEF Task, StartRun, DispatchFails, Backup, Edit, RunSucceeds,
           RunRollsBack, RunFails, Sync
  <2>2. Pkg(c) \in Packages
    BY <1>0, <2>1, Named
  <2>3. CASE StartRun(c)
    <3>1. /\ rows' = Append(rows, [pkg |-> Pkg(c), before |-> {},
                                   backup |-> "none"])
          /\ Goto(c, "backup") /\ UNCHANGED <<status, pr, file, faults>>
          /\ req[c].pc = "queued"
          /\ \A d \in Clients : req[d].pc \notin Running
      BY <2>3 DEF StartRun
    <3>2. PICK r \in Row : r = [pkg |-> Pkg(c), before |-> {}, backup |-> "none"]
      BY <2>2 DEF Row, Backups
    <3>3. /\ rows' \in Seq(Row)
          /\ RunsOn(r.pkg)'
          /\ \A p \in Packages : HasRow(p) => HasRow(p)'
      BY <1>0, <3>1, <3>2, RowAdded
    <3>4. /\ req' \in [Clients -> Req] /\ req'[c].pc = "backup"
          /\ req'[c].pkg = Pkg(c)
          /\ \A d \in Clients : d # c => req'[d] = req[d]
      BY <1>0, <3>1, Went DEF Pkg
    <3>5. RunsOn(Pkg(c))'
      BY <3>2, <3>3, <3>4 DEF RunsOn, Pkg
    <3>6. ASSUME NEW d \in Clients, d # c
          PROVE  /\ req'[d].pc \notin Running
                 /\ req'[d].pc \in Rowed => HasRow(Pkg(d))'
      <4>1. req'[d] = req[d] /\ Pkg(d)' = Pkg(d)
        BY <3>4, <3>6 DEF Pkg
      <4>2. req[d].pc \in Rowed => HasRow(Pkg(d)) /\ Pkg(d) \in Packages
        BY <1>0, Named DEF TypeInv, RowInv
      <4> DEFINE p == Pkg(d)
      <4>3. HasRow(p) /\ p \in Packages => \E i \in DOMAIN rows' : 
              rows'[i].pkg = p /\ \A j \in DOMAIN rows' : rows'[j].pkg = p => j <= i
        BY <3>3 DEF HasRow, IsLast
      <4> QED BY <3>1, <4>1, <4>2, <4>3 DEF HasRow, IsLast
    <3>7. RowInv'
      BY <3>1, <3>3, <3>4, <3>5, <3>6 DEF TypeInv, RowInv
    <3> QED BY <1>0, <3>1, <3>3, <3>4, <3>7 DEF TypeInv, TypeOK
  <2>4. CASE DispatchFails(c)
    BY <1>0, <1>2, <2>2, <2>4 DEF DispatchFails, CrashStatus
  <2>5. ASSUME req[c].pc \in Running
        PROVE  /\ RunsOn(Pkg(c)) /\ HasRow(Pkg(c))
               /\ Len(rows) \in DOMAIN rows /\ rows[Len(rows)] \in Row
               /\ rows[Len(rows)].pkg = Pkg(c)
    BY <1>0, <2>5, RunsLast DEF TypeInv, RowInv, HasRow, RunsOn
  <2>6. CASE Backup(c)
    <3>1. PICK b \in {"kept"} \cup (IF "noref" \in Allowed THEN {"none"} ELSE {}) :
            rows' = [rows EXCEPT ![Len(rows)].backup = b,
                                 ![Len(rows)].before = file[FileOf[Pkg(c)]]]
      BY <2>6, Zenon DEF Backup
    <3>2. /\ req[c].pc = "backup" /\ Goto(c, "edit")
          /\ UNCHANGED <<status, pr, file, faults>>
      BY <2>6, Zenon DEF Backup
    <3> DEFINE r == [rows[Len(rows)] EXCEPT !.backup = b,
                                            !.before = file[FileOf[Pkg(c)]]]
    <3>3. rows' = [rows EXCEPT ![Len(rows)] = r]
      BY <1>0, <2>5, <3>1, <3>2 DEF Row
    <3>4. r \in Row /\ r.pkg = rows[Len(rows)].pkg
      BY <1>0, <2>2, <2>5, <3>2, ReviewAssumption DEF Row, Backups
    <3> HIDE DEF r
    <3>5. /\ rows' \in Seq(Row)
          /\ \A p \in Packages : /\ HasRow(p) => HasRow(p)'
                                 /\ RunsOn(p) => RunsOn(p)'
      BY <1>0, <3>3, <3>4, RowRewritten
    <3>6. /\ req' \in [Clients -> Req] /\ req'[c].pc = "edit"
          /\ req'[c].pkg = req[c].pkg
          /\ \A d \in Clients : d # c => req'[d] = req[d]
      BY <1>0, <3>2, Went
    <3>7. RowInv'
      BY <3>2, <3>5, <3>6, RowStep
    <3> QED BY <1>0, <3>2, <3>5, <3>6, <3>7 DEF TypeInv, TypeOK
  <2>7. CASE Edit(c)
    <3>1. /\ file' = [file EXCEPT ![FileOf[Pkg(c)]] = @ \cup {Pkg(c)}]
          /\ req[c].pc = "edit" /\ Goto(c, "verify")
          /\ UNCHANGED <<status, pr, rows, faults>>
      BY <2>7 DEF Edit
    <3>2. /\ req' \in [Clients -> Req] /\ req'[c].pc = "verify"
          /\ req'[c].pkg = req[c].pkg
          /\ \A d \in Clients : d # c => req'[d] = req[d]
      BY <1>0, <3>1, Went
    <3>3. file' \in [Files -> SUBSET Packages]
      BY <1>0, <2>2, <3>1
    <3>4. RowInv'
      BY <3>1, <3>2, RowsStay, RowStep
    <3> QED BY <1>0, <3>1, <3>2, <3>3, <3>4 DEF TypeInv, TypeOK
  <2>8. ASSUME NEW o \in Outcomes, Ends(c, o), req[c].pc \in Running,
               rows' \in Seq(Row), UNCHANGED <<status, faults>>,
               pr' \in [Packages -> PrStates],
               file' \in [Files -> SUBSET Packages],
               \A p \in Packages : /\ HasRow(p) => HasRow(p)'
                                   /\ RunsOn(p) => RunsOn(p)'
        PROVE  TypeInv'
    <3>1. /\ req' \in [Clients -> Req] /\ req'[c].pc = "sync"
          /\ req'[c].pkg = Pkg(c)
          /\ \A d \in Clients : d # c => req'[d] = req[d]
      BY <1>0, <2>8, Ended DEF Pkg
    <3>2. RowInv'
      BY <2>5, <2>8, <3>1, RowStep
    <3> QED BY <1>0, <2>8, <3>1, <3>2 DEF TypeInv, TypeOK
  <2>9. CASE RunSucceeds(c)
    <3> DEFINE r == [rows[Len(rows)] EXCEPT !.backup = Kept(@)]
    <3>1. /\ rows' = [rows EXCEPT ![Len(rows)] = r]
          /\ req[c].pc = "verify" /\ Ends(c, "success")
          /\ UNCHANGED <<status, file, faults>>
      BY <2>9, Zenon DEF RunSucceeds
    <3>2. r \in Row /\ r.pkg = rows[Len(rows)].pkg
      BY <2>5, <3>1 DEF Row, Kept
    <3> HIDE DEF r
    <3>3. /\ rows' \in Seq(Row)
          /\ \A p \in Packages : /\ HasRow(p) => HasRow(p)'
                                 /\ RunsOn(p) => RunsOn(p)'
      BY <1>0, <3>1, <3>2, RowRewritten
    <3>4. pr' \in [Packages -> PrStates]
      BY <1>0, <2>2, <2>9 DEF RunSucceeds
    <3> QED BY <1>0, <2>8, <3>1, <3>3, <3>4
  <2>10. CASE RunRollsBack(c)
    <3>1. /\ file' = [file EXCEPT ![FileOf[Pkg(c)]] = rows[Len(rows)].before]
          /\ req[c].pc \in Running /\ Ends(c, "rolled_back")
          /\ UNCHANGED <<status, pr, rows, faults>>
      BY <2>10 DEF RunRollsBack
    <3>2. file' \in [Files -> SUBSET Packages]
      BY <1>0, <2>5, <3>1 DEF Row
    <3> QED BY <1>0, <2>8, <3>1, <3>2, RowsStay
  <2>11. CASE RunFails(c)
    BY <1>0, <2>8, <2>11, RowsStay DEF RunFails
  <2>12. CASE Sync(c)
    <3>1. PICK s \in SyncStatuses(Pkg(c), req[c].outcome) : Write(Pkg(c), s)
      BY <2>12, Zenon DEF Sync
    <3>2. /\ req[c].pc = "sync" /\ Leave(c)
          /\ UNCHANGED <<pr, file, rows, faults>>
      BY <2>12, Zenon DEF Sync
    <3>3. s \in Statuses
      BY <1>0, <2>1, <3>1, <3>2, Named DEF SyncStatuses, FixToPackage
    <3>4. HasRow(Pkg(c))
      BY <3>2 DEF TypeInv, RowInv
    <3> QED BY <1>0, <1>2, <2>2, <3>1, <3>2, <3>3, <3>4
  <2> QED
    BY <1>6, <2>3, <2>4, <2>6, <2>7, <2>9, <2>10, <2>11, <2>12 DEF Task
<1>7. ASSUME NEW c \in Clients, WriteFails(c) PROVE TypeInv'
  <2>1. /\ Leave(c) /\ UNCHANGED <<status, pr, file, rows>>
        /\ faults' \in 0..MaxFaults
    BY <1>0, <1>7, ReviewAssumption DEF WriteFails, Fault
  <2> QED BY <1>0, <1>2, <2>1
<1>8. ASSUME NEW p \in Packages, GithubActs(p) PROVE TypeInv'
  <2>1. /\ pr' \in [Packages -> PrStates]
        /\ UNCHANGED <<status, file, rows, req, faults>>
    BY <1>0, <1>8 DEF GithubActs, PrStates
  <2>2. RowInv'
    BY <2>1 DEF TypeInv, RowInv, HasRow, RunsOn, IsLast, Pkg
  <2> QED BY <1>0, <2>1, <2>2 DEF TypeInv, TypeOK
<1>9. CASE Restart
  <2>1. /\ req' = [c \in Clients |-> [pc |-> "idle"]]
        /\ UNCHANGED <<status, pr, file, rows>> /\ faults' \in 0..MaxFaults
    BY <1>0, <1>9, ReviewAssumption DEF Restart, Fault
  <2>2. RowInv'
    BY <2>1 DEF TypeInv, RowInv, HasRow, IsLast
  <2> QED BY <1>0, <2>1, <2>2 DEF TypeInv, TypeOK, Req
<1>10. CASE UNCHANGED vars
  BY <1>10
     DEF vars, TypeInv, TypeOK, RowInv, HasRow, RunsOn, IsLast, Pkg
<1> QED
  BY <1>3, <1>5, <1>6, <1>7, <1>8, <1>9, <1>10 DEF Next

LEMMA TypeInvariance == Spec => []TypeInv
<1>1. Init => TypeInv
  BY ReviewAssumption
     DEF Init, TypeInv, TypeOK, RowInv, Statuses, PrStates, Req, Running, Rowed
<1> QED BY <1>1, TypeStep, PTL DEF Spec

(* Every variable keeps its type, whatever requests overlap and whatever    *)
(* fails: a status is always one the table admits, and no endpoint or task  *)
(* reads a fix_runs row that is not there.                                  *)
THEOREM TypeCorrect == Spec => []TypeOK
BY TypeInvariance, PTL DEF TypeInv

-----------------------------------------------------------------------------
(* Decisions                                                                *)

(* Operators wait for the answer to a request before they make the next.    *)
NoOverlap == "overlap" \notin Allowed

(* One request at a time, and one request or task for a package.            *)
Exclusive ==
  /\ \A c, d \in Clients : req[c].pc \in Http /\ req[d].pc \in Http => c = d
  /\ \A c, d \in Clients : /\ req[c].pc # "idle" /\ req[d].pc # "idle"
                           /\ Pkg(c) = Pkg(d)
                           => c = d

Reviewing == {"keeping", "restoring", "restored", "merging", "merged",
              "closing", "closed"}
StatusAt ==
  \A c \in Clients :
    /\ req[c].pc \in {"queued", "sync"} \cup Running
         => status[Pkg(c)] = "ready_for_execution"
    /\ req[c].pc \in Reviewing => status[Pkg(c)] = "awaiting_review"
    /\ req[c].pc = "cleaning" => status[Pkg(c)] = "fixed"
    /\ req[c].pc \in {"approving", "rejecting"}
         => status[Pkg(c)] \in ActOn \ {"ready_for_execution", "rejected"}
PrAt ==
  \A c \in Clients :
    /\ req[c].pc \in {"keeping", "restoring", "restored"} => pr[Pkg(c)] = "none"
    /\ req[c].pc \in {"merging", "closing", "closed"} => pr[Pkg(c)] # "none"
    /\ req[c].pc = "merged" => pr[Pkg(c)] = "merged"

GateInv == TypeInv /\ Exclusive /\ StatusAt /\ PrAt

(* Which steps write a status, and what.                                    *)
StatusMove(c) ==
  \E s \in Statuses :
    /\ Write(Pkg(c), s)
    /\ \/ req[c].pc = "approving" /\ s = "ready_for_execution"
       \/ req[c].pc = "rejecting" /\ s = "rejected"
       \/ req[c].pc \in {"keeping", "merged"} /\ s = "fixed"
       \/ req[c].pc \in {"restored", "closed"} /\ s = "review_rejected"
       \/ req[c].pc = "queued" /\ s = "fix_failed"
       \/ req[c].pc = "sync" /\ s \in SyncStatuses(Pkg(c), req[c].outcome)

LEMMA StatusMoves ==
  ASSUME TypeInv, [Next]_vars
  PROVE  UNCHANGED status \/ \E c \in Clients : StatusMove(c)
<1>1. ASSUME NEW c \in Clients, Endpoint(c)
      PROVE  UNCHANGED status \/ StatusMove(c)
  BY <1>1
     DEF Endpoint, Approve, Reject, ReviewApprove, CleanUpBackup, CleanUpFails,
         RestoreBackup, RestoreFails, ReviewReject, MergePr, MergeFails,
         ReviewGitApprove, ClosePr, CloseFails, ReviewGitReject, StatusMove,
         Statuses, At
<1>2. ASSUME NEW c \in Clients, Task(c)
      PROVE  UNCHANGED status \/ StatusMove(c)
  <2>1. CASE DispatchFails(c)
    BY <2>1 DEF DispatchFails, StatusMove, CrashStatus, Statuses, At
  <2>2. CASE Sync(c)
    <3>1. PICK s \in SyncStatuses(Pkg(c), req[c].outcome) : Write(Pkg(c), s)
      BY <2>2, Zenon DEF Sync
    <3>2. req[c].pc = "sync" /\ req[c].outcome \in Outcomes
      BY <2>2, Named DEF Sync, At, TypeInv, TypeOK
    <3>3. s \in Statuses
      BY <3>1, <3>2 DEF SyncStatuses, FixToPackage, Outcomes, Statuses
    <3> QED BY <3>1, <3>2, <3>3 DEF StatusMove
  <2> QED
    BY <1>2, <2>1, <2>2, Zenon
       DEF Task, StartRun, Backup, Edit, RunSucceeds, RunRollsBack, RunFails
<1>3. ASSUME NEW c \in Clients, NEW p \in Packages, Operator(c, p)
      PROVE  UNCHANGED status
  BY <1>3, Zenon
     DEF Operator, ApproveStart, RejectStart, ReviewApproveStart,
         ReviewRejectStart, ReviewGitApproveStart, ReviewGitRejectStart
<1> QED
  BY <1>1, <1>2, <1>3 DEF Next, WriteFails, GithubActs, Restart, vars

(* A step of one client, about one package, while nobody else is busy with  *)
(* that package.                                                            *)
LEMMA GateMove ==
  ASSUME GateInv, NEW c \in Clients, NEW p \in Packages,
         req' \in [Clients -> Req],
         \A d \in Clients : d # c => req'[d] = req[d],
         \A q \in Packages : q # p => status'[q] = status[q] /\ pr'[q] = pr[q],
         req'[c].pc # "idle" => req'[c].pkg = p,
         \/ req[c].pc # "idle" /\ req[c].pkg = p
         \/ \A d \in Clients : req[d].pc # "idle" => req[d].pkg # p,
         \/ req'[c].pc \notin Http
         \/ req[c].pc \in Http
         \/ \A d \in Clients : req[d].pc \notin Http,
         /\ req'[c].pc \in {"queued", "sync"} \cup Running
              => status'[p] = "ready_for_execution"
         /\ req'[c].pc \in Reviewing => status'[p] = "awaiting_review"
         /\ req'[c].pc = "cleaning" => status'[p] = "fixed"
         /\ req'[c].pc \in {"approving", "rejecting"}
              => status'[p] \in ActOn \ {"ready_for_execution", "rejected"},
         /\ req'[c].pc \in {"keeping", "restoring", "restored"}
              => pr'[p] = "none"
         /\ req'[c].pc \in {"merging", "closing", "closed"} => pr'[p] # "none"
         /\ req'[c].pc = "merged" => pr'[p] = "merged"
  PROVE  (Exclusive /\ StatusAt /\ PrAt)'
<1> USE DEF Pkg
<1>1. ASSUME NEW d \in Clients, d # c, req'[d].pc # "idle"
      PROVE  /\ req'[d] = req[d] /\ req[d].pkg \in Packages
             /\ req[d].pkg # p
             /\ status'[req[d].pkg] = status[req[d].pkg]
             /\ pr'[req[d].pkg] = pr[req[d].pkg]
  BY <1>1, Named DEF GateInv, Exclusive, TypeInv, TypeOK
<1>2. Exclusive'
  BY <1>1 DEF GateInv, Exclusive
<1>3. StatusAt'
  BY <1>1 DEF GateInv, StatusAt, Running, Reviewing
<1>4. PrAt'
  BY <1>1 DEF GateInv, PrAt
<1> QED BY <1>2, <1>3, <1>4

(* A request starts about a package nobody is busy with.                    *)
LEMMA Opened ==
  ASSUME GateInv, NoOverlap, NEW c \in Clients, NEW p \in Packages,
         Operator(c, p)
  PROVE  /\ req' \in [Clients -> Req] /\ req[c].pc = "idle"
         /\ req'[c].pc \in {"approving", "rejecting", "keeping", "restoring",
                            "merging", "closing"}
         /\ req'[c].pkg = p
         /\ \A d \in Clients : d # c => req'[d] = req[d]
         /\ req'[c].pc \in {"approving", "rejecting"}
              => status[p] \in ActOn \ {"ready_for_execution", "rejected"}
         /\ req'[c].pc \in {"keeping", "restoring", "merging", "closing"}
              => status[p] = "awaiting_review"
         /\ req'[c].pc \in {"keeping", "restoring"} => pr[p] = "none"
         /\ req'[c].pc \in {"merging", "closing"} => pr[p] # "none"
         /\ \A d \in Clients : req[d].pc \notin Http
         /\ \A d \in Clients : req[d].pc # "idle" => req[d].pkg # p
         /\ UNCHANGED <<status, pr, file, rows, faults>>
<1>0. req \in [Clients -> Req]
  BY DEF GateInv, TypeInv, TypeOK
<1> USE DEF PC, Http, Running, At
<1>1. PICK l \in {"approving", "rejecting", "keeping", "restoring", "merging",
                  "closing"} :
        /\ Enter(c, p, l)
        /\ l \in {"approving", "rejecting"}
             => status[p] \in ActOn \ {"ready_for_execution", "rejected"}
        /\ l \in {"keeping", "restoring", "merging", "closing"}
             => status[p] = "awaiting_review"
        /\ l \in {"keeping", "restoring"} => pr[p] = "none"
        /\ l \in {"merging", "closing"} => pr[p] # "none"
  <2> USE DEF Reviewable, Approvable
  <2>1. CASE ApproveStart(c, p) BY <2>1, Zenon DEF ApproveStart
  <2>2. CASE RejectStart(c, p) BY <2>2, Zenon DEF RejectStart
  <2>3. CASE ReviewApproveStart(c, p) BY <2>3, Zenon DEF ReviewApproveStart
  <2>4. CASE ReviewRejectStart(c, p) BY <2>4, Zenon DEF ReviewRejectStart
  <2>5. CASE ReviewGitApproveStart(c, p)
    BY <2>5, Zenon DEF ReviewGitApproveStart
  <2>6. CASE ReviewGitRejectStart(c, p)
    BY <2>6, Zenon DEF ReviewGitRejectStart
  <2> QED BY <2>1, <2>2, <2>3, <2>4, <2>5, <2>6 DEF Operator
<1>2. UNCHANGED <<status, pr, file, rows, faults>>
  BY Zenon
     DEF Operator, ApproveStart, RejectStart, ReviewApproveStart,
         ReviewRejectStart, ReviewGitApproveStart, ReviewGitRejectStart
<1>3. /\ req' \in [Clients -> Req]
      /\ req[c].pc = "idle" /\ req'[c].pc = l /\ req'[c].pkg = p
      /\ \A d \in Clients : d # c => req'[d] = req[d]
  BY <1>0, <1>1, Entered
<1>4. \A d \in Clients : req[d].pc \notin Http
  BY <1>1 DEF Enter, NoOverlap
<1>5. \A d \in Clients : req[d].pc # "idle" => req[d].pkg # p
  <2>1. ASSUME NEW d \in Clients, req[d].pc # "idle" PROVE req[d].pkg # p
    <3>1. req[d].pc \in {"queued", "sync"} \cup Running
      BY <1>0, <1>4, <2>1 DEF Req
    <3>2. status[req[d].pkg] = "ready_for_execution"
      BY <3>1 DEF GateInv, StatusAt, Pkg
    <3> QED BY <1>1, <3>2
  <2> QED BY <2>1
<1> QED BY <1>1, <1>2, <1>3, <1>4, <1>5

LEMMA GateStep ==
  ASSUME GateInv, NoOverlap, [Next]_vars
  PROVE  (Exclusive /\ StatusAt /\ PrAt)'
<1>0. /\ status \in [Packages -> Statuses] /\ pr \in [Packages -> PrStates]
      /\ req \in [Clients -> Req]
  BY DEF GateInv, TypeInv, TypeOK
<1> USE DEF PC, Http, Running, At
<1>1. ASSUME NEW c \in Clients, NEW p \in Packages, Operator(c, p)
      PROVE  (Exclusive /\ StatusAt /\ PrAt)'
  BY <1>1, Opened, GateMove DEF Reviewing
<1>2. ASSUME NEW c \in Clients, Leave(c), req[c].pc # "idle", UNCHANGED pr,
             UNCHANGED status \/ \E s : Write(Pkg(c), s)
      PROVE  (Exclusive /\ StatusAt /\ PrAt)'
  <2>1. /\ req' \in [Clients -> Req] /\ req'[c].pc = "idle"
        /\ \A d \in Clients : d # c => req'[d] = req[d]
    BY <1>0, <1>2, Left
  <2>2. Pkg(c) \in Packages
    BY <1>0, <1>2, Named
  <2>3. PICK p \in Packages : p = Pkg(c)
    BY <2>2
  <2>4. \A q \in Packages : q # p => status'[q] = status[q] /\ pr'[q] = pr[q]
    BY <1>0, <1>2, <2>3 DEF Write
  <2> QED BY <1>2, <2>1, <2>3, <2>4, GateMove DEF Pkg, Reviewing
<1>3. ASSUME NEW c \in Clients, NEW l \in PC \ {"idle", "sync"}, Goto(c, l),
             req[c].pc \notin {"idle", "sync"},
             l \in Http => req[c].pc \in Http,
             \A q \in Packages : q # Pkg(c) => /\ status'[q] = status[q]
                                               /\ pr'[q] = pr[q],
             l \in {"queued"} \cup Running
               => status'[Pkg(c)] = "ready_for_execution",
             l \in Reviewing => status'[Pkg(c)] = "awaiting_review",
             l = "cleaning" => status'[Pkg(c)] = "fixed",
             l \notin {"approving", "rejecting"},
             l \in {"keeping", "restoring", "restored"} => pr'[Pkg(c)] = "none",
             l \in {"merging", "closing", "closed"} => pr'[Pkg(c)] # "none",
             l = "merged" => pr'[Pkg(c)] = "merged"
      PROVE  (Exclusive /\ StatusAt /\ PrAt)'
  <2>1. /\ req' \in [Clients -> Req] /\ req'[c].pc = l
        /\ req'[c].pkg = req[c].pkg /\ req[c].pkg \in Packages
        /\ \A d \in Clients : d # c => req'[d] = req[d]
    BY <1>0, <1>3, Went
  <2>2. PICK p \in Packages : p = req[c].pkg
    BY <2>1
  <2> HIDE DEF PC, Http, Running
  <2>3. l \notin {"idle", "sync"}
    BY <1>3
  <2> QED BY <1>3, <2>1, <2>2, <2>3, GateMove DEF Pkg
<1>4. ASSUME NEW c \in Clients, NEW o \in Outcomes, Ends(c, o),
             req[c].pc \in Running, UNCHANGED status,
             \A q \in Packages : q # Pkg(c) => pr'[q] = pr[q]
      PROVE  (Exclusive /\ StatusAt /\ PrAt)'
  <2>1. /\ req' \in [Clients -> Req] /\ req'[c].pc = "sync"
        /\ req'[c].pkg = req[c].pkg /\ req[c].pkg \in Packages
        /\ \A d \in Clients : d # c => req'[d] = req[d]
    BY <1>0, <1>4, Ended
  <2>2. PICK p \in Packages : p = req[c].pkg
    BY <2>1
  <2>3. status[p] = "ready_for_execution"
    BY <1>4, <2>2 DEF GateInv, StatusAt, Pkg
  <2> QED BY <1>4, <2>1, <2>2, <2>3, GateMove DEF Pkg, Reviewing
<1>5. ASSUME NEW c \in Clients, req[c].pc # "idle"
      PROVE  /\ Pkg(c) \in Packages
             /\ req[c].pc \in {"queued"} \cup Running
                  => status[Pkg(c)] = "ready_for_execution"
             /\ req[c].pc \in Reviewing => status[Pkg(c)] = "awaiting_review"
             /\ req[c].pc \in {"keeping", "restoring"} => pr[Pkg(c)] = "none"
             /\ req[c].pc \in {"merging", "closing"} => pr[Pkg(c)] # "none"
  BY <1>0, <1>5, Named DEF GateInv, StatusAt, PrAt
<1>6. ASSUME NEW c \in Clients, Endpoint(c)
      PROVE  (Exclusive /\ StatusAt /\ PrAt)'
  <2> USE DEF Reviewing, Write
  <2>1. CASE Approve(c) BY <1>0, <1>3, <1>5, <2>1 DEF Approve
  <2>2. CASE Reject(c) BY <1>2, <2>2 DEF Reject
  <2>3. CASE ReviewApprove(c) BY <1>0, <1>3, <1>5, <2>3 DEF ReviewApprove
  <2>4. CASE CleanUpBackup(c) BY <1>2, <2>4 DEF CleanUpBackup
  <2>5. CASE CleanUpFails(c) BY <1>2, <2>5 DEF CleanUpFails
  <2>6. CASE RestoreBackup(c) BY <1>3, <1>5, <2>6 DEF RestoreBackup
  <2>7. CASE RestoreFails(c) BY <1>2, <2>7 DEF RestoreFails, RestoreError
  <2>8. CASE ReviewReject(c) BY <1>2, <2>8 DEF ReviewReject
  <2>9. CASE MergePr(c)
    BY <1>0, <1>3, <1>5, <2>9 DEF MergePr, Mergeable
  <2>10. CASE MergeFails(c) BY <1>2, <2>10 DEF MergeFails
  <2>11. CASE ReviewGitApprove(c) BY <1>2, <2>11 DEF ReviewGitApprove
  <2>12. CASE ClosePr(c) BY <1>0, <1>3, <1>5, <2>12 DEF ClosePr
  <2>13. CASE CloseFails(c) BY <1>2, <2>13 DEF CloseFails
  <2>14. CASE ReviewGitReject(c) BY <1>2, <2>14 DEF ReviewGitReject
  <2> QED
    BY <1>6, <2>1, <2>2, <2>3, <2>4, <2>5, <2>6, <2>7, <2>8, <2>9, <2>10,
       <2>11, <2>12, <2>13, <2>14 DEF Endpoint
<1>7. ASSUME NEW c \in Clients, Task(c)
      PROVE  (Exclusive /\ StatusAt /\ PrAt)'
  <2> USE DEF Reviewing, Outcomes
  <2>1. CASE StartRun(c) BY <1>3, <1>5, <2>1 DEF StartRun
  <2>2. CASE DispatchFails(c) BY <1>2, <2>2 DEF DispatchFails
  <2>3. CASE Backup(c)
    <3>1. req[c].pc = "backup" /\ Goto(c, "edit") /\ UNCHANGED <<status, pr>>
      BY <2>3, Zenon DEF Backup
    <3> QED BY <1>3, <1>5, <3>1
  <2>4. CASE Edit(c) BY <1>3, <1>5, <2>4 DEF Edit
  <2>5. CASE RunSucceeds(c)
    <3>1. /\ req[c].pc = "verify" /\ Ends(c, "success") /\ UNCHANGED status
          /\ \E s : pr' = [pr EXCEPT ![Pkg(c)] = s]
      BY <2>5, Zenon DEF RunSucceeds
    <3>2. \A q \in Packages : q # Pkg(c) => pr'[q] = pr[q]
      BY <1>0, <3>1
    <3> QED BY <1>4, <3>1, <3>2
  <2>6. CASE RunRollsBack(c) BY <1>4, <2>6 DEF RunRollsBack
  <2>7. CASE RunFails(c) BY <1>4, <2>7 DEF RunFails
  <2>8. CASE Sync(c)
    <3>1. /\ req[c].pc = "sync" /\ Leave(c) /\ UNCHANGED pr
          /\ \E s : Write(Pkg(c), s)
      BY <2>8, Zenon DEF Sync
    <3> QED BY <1>2, <3>1
  <2> QED
    BY <1>7, <2>1, <2>2, <2>3, <2>4, <2>5, <2>6, <2>7, <2>8 DEF Task
<1>8. ASSUME NEW c \in Clients, WriteFails(c)
      PROVE  (Exclusive /\ StatusAt /\ PrAt)'
  BY <1>2, <1>8 DEF WriteFails
<1>9. ASSUME NEW p \in Packages, GithubActs(p)
      PROVE  (Exclusive /\ StatusAt /\ PrAt)'
  <2>1. /\ UNCHANGED <<status, req>> /\ pr[p] = "open"
        /\ pr' \in {[pr EXCEPT ![p] = s] : s \in {"merged", "closed"}}
    BY <1>9 DEF GithubActs
  <2>2. \A q \in Packages : /\ pr'[q] = "none" <=> pr[q] = "none"
                            /\ pr[q] = "merged" => pr'[q] = "merged"
    BY <1>0, <2>1
  <2>3. PrAt'
    BY <1>0, <2>1, <2>2, Named DEF GateInv, PrAt, Pkg
  <2> QED BY <2>1, <2>3 DEF GateInv, Exclusive, StatusAt, Pkg
<1>10. CASE Restart
  BY <1>10 DEF Restart, Exclusive, StatusAt, PrAt, Reviewing
<1>11. CASE UNCHANGED vars
  BY <1>11 DEF vars, GateInv, Exclusive, StatusAt, PrAt, Pkg
<1> QED
  BY <1>1, <1>6, <1>7, <1>8, <1>9, <1>10, <1>11 DEF Next

LEMMA GateInvariance == ASSUME NoOverlap PROVE Spec => []GateInv
<1>1. Init => Exclusive /\ StatusAt /\ PrAt
  BY DEF Init, Exclusive, StatusAt, PrAt, Http, Running, Reviewing
<1>2. GateInv /\ [Next]_vars => (Exclusive /\ StatusAt /\ PrAt)'
  BY GateStep
<1> QED BY <1>1, <1>2, TypeInvariance, PTL DEF Spec, GateInv

(* Where operators wait for answers, a background task writes its outcome   *)
(* while the package still waits for that dispatch: whatever the operators  *)
(* press, on GitHub or here, and whatever fails, it overwrites no decision. *)
THEOREM OutcomeInTime == ASSUME NoOverlap PROVE Spec => NoLateOutcome
<1>1. ASSUME GateInv, [Next]_vars, NEW p \in Packages,
             status'[p] # status[p],
             status'[p] \in {"awaiting_review", "rolled_back", "fix_failed"}
      PROVE  status[p] = "ready_for_execution"
  <2>1. PICK c \in Clients : StatusMove(c)
    BY <1>1, StatusMoves DEF GateInv
  <2>2. PICK s \in Statuses : /\ Write(Pkg(c), s)
                              /\ req[c].pc \in {"queued", "sync"}
                                 \/ s \in {"ready_for_execution", "rejected",
                                           "fixed", "review_rejected"}
    BY <2>1 DEF StatusMove
  <2>3. Pkg(c) = p /\ s = status'[p]
    BY <1>1, <2>2 DEF Write, GateInv, TypeInv, TypeOK
  <2> QED BY <1>1, <2>2, <2>3 DEF GateInv, StatusAt
<1>2. GateInv /\ [Next]_vars
      => [\A p \in Packages :
            /\ status'[p] # status[p]
            /\ status'[p] \in {"awaiting_review", "rolled_back", "fix_failed"}
            => status[p] = "ready_for_execution"]_vars
  BY <1>1
<1> QED BY <1>2, GateInvariance, PTL DEF Spec, NoLateOutcome

(* The task reads the package before it decides that a success needs no     *)
(* review.                                                                  *)
ReadsWork == "read" \notin Allowed

(* Where operators wait for answers and the package can be read, a package  *)
(* that requires a review becomes fixed by a decision on the diff it waits  *)
(* with, and in no other way.                                               *)
THEOREM ReviewIsPassed == ASSUME NoOverlap, ReadsWork PROVE Spec => ReviewGate
<1>1. ASSUME GateInv, [Next]_vars, NEW p \in Reviewed,
             status'[p] = "fixed", status[p] # "fixed"
      PROVE  status[p] = "awaiting_review"
  <2>0. p \in Packages
    BY ReviewAssumption
  <2>1. PICK c \in Clients : StatusMove(c)
    BY <1>1, StatusMoves DEF GateInv
  <2>2. PICK s \in Statuses :
          /\ Write(Pkg(c), s)
          /\ \/ req[c].pc \in {"keeping", "merged"}
             \/ s \in Statuses \ {"fixed"}
             \/ req[c].pc = "sync" /\ s \in SyncStatuses(Pkg(c), req[c].outcome)
    BY <2>1 DEF StatusMove
  <2>3. Pkg(c) = p /\ s = "fixed"
    BY <1>1, <2>0, <2>2 DEF Write, GateInv, TypeInv, TypeOK
  <2>4. CASE req[c].pc \in {"keeping", "merged"}
    BY <1>1, <2>3, <2>4 DEF GateInv, StatusAt, Reviewing
  <2>5. CASE req[c].pc = "sync" /\ s \in SyncStatuses(Pkg(c), req[c].outcome)
    <3>1. req[c].outcome \in Outcomes
      BY <1>1, <2>5, Named DEF GateInv, TypeInv, TypeOK
    <3> QED
      BY <1>1, <2>3, <2>5, <3>1
         DEF SyncStatuses, FixToPackage, Outcomes, ReadsWork
  <2> QED BY <2>2, <2>3, <2>4, <2>5
<1>2. GateInv /\ [Next]_vars
      => [\A p \in Reviewed : status'[p] = "fixed" /\ status[p] # "fixed"
            => status[p] = "awaiting_review"]_vars
  BY <1>1
<1> QED BY <1>2, GateInvariance, PTL DEF Spec, ReviewGate

-----------------------------------------------------------------------------
(* Effects                                                                  *)

(* No two packages edit one file, and no package that may still have its    *)
(* edit in the file is dispatched again.                                    *)
OwnFiles == \A p, q \in Packages : FileOf[p] = FileOf[q] => p = q
NoSecondEdit == ActOn \cap {"awaiting_review", "fixed", "fix_failed"} = {}

(* Every run records a backup it can restore.                               *)
Refs == "noref" \notin Allowed

Clean(p) == p \notin file[FileOf[p]]
DoneBy(c, o) == req[c].pc = "sync" /\ req[c].outcome = o
NotRestored(p) == \A c \in Clients : ~(req[c].pc = "restored" /\ Pkg(c) = p)

(* As long as a package has no pull request, its file is without its edit   *)
(* whenever a run of it may start, and so is the backup of its run.  What a *)
(* run that succeeded left in the file stays until a review restores it.    *)
PkgOK(p) ==
  /\ pr[p] = "none" =>
       /\ status[p] \in {"awaiting_approval", "rolled_back", "review_rejected"}
            => Clean(p)
       /\ status[p] = "awaiting_review" => Undoable(p)
  /\ Refs /\ status[p] = "awaiting_review" => Recorded(p)
  /\ faults = 0 /\ status[p] \in {"awaiting_review", "fixed"} /\ NotRestored(p)
       => ~Clean(p)
ReqOK(c) ==
  /\ pr[Pkg(c)] = "none" =>
       /\ req[c].pc \in {"queued", "backup", "restored"} \/ DoneBy(c, "rolled_back")
            => Clean(Pkg(c))
       /\ req[c].pc \in {"edit", "verify"} \/ DoneBy(c, "success")
            => Undoable(Pkg(c))
  /\ Refs /\ (req[c].pc \in {"edit", "verify"} \/ DoneBy(c, "success"))
       => Recorded(Pkg(c))
  /\ req[c].pc = "verify" \/ DoneBy(c, "success") => ~Clean(Pkg(c))
EffectInv ==
  /\ GateInv
  /\ \A p \in Packages : PkgOK(p)
  /\ \A c \in Clients : req[c].pc # "idle" => ReqOK(c)

(* A step of one client, about one package, that leaves the files and the   *)
(* rows of the other packages alone.                                        *)
LEMMA EffectMove ==
  ASSUME EffectInv, NEW c \in Clients, NEW p \in Packages,
         req' \in [Clients -> Req],
         \A d \in Clients : d # c => req'[d] = req[d],
         \A q \in Packages : q # p =>
           /\ status'[q] = status[q] /\ pr'[q] = pr[q]
           /\ Clean(q)' <=> Clean(q)
           /\ Undoable(q) => Undoable(q)'
           /\ Recorded(q) => Recorded(q)',
         UNCHANGED faults,
         req'[c].pc # "idle" => req'[c].pkg = p,
         \/ req[c].pc # "idle" /\ req[c].pkg = p
         \/ /\ req[c].pc = "idle"
            /\ \A d \in Clients : req[d].pc # "idle" => req[d].pkg # p,
         PkgOK(p)', req'[c].pc # "idle" => ReqOK(c)'
  PROVE  /\ \A q \in Packages : PkgOK(q)'
         /\ \A d \in Clients : req'[d].pc # "idle" => ReqOK(d)'
<1>1. ASSUME NEW d \in Clients, d # c, req'[d].pc # "idle"
      PROVE  /\ req'[d] = req[d] /\ Pkg(d)' = Pkg(d)
             /\ Pkg(d) \in Packages /\ Pkg(d) # p
  BY <1>1, Named DEF EffectInv, GateInv, Exclusive, TypeInv, TypeOK, Pkg
<1>2. ASSUME NEW d \in Clients, d # c, req'[d].pc # "idle"
      PROVE  ReqOK(d)'
  <2>1. PICK q \in Packages : q = Pkg(d)
    BY <1>1, <1>2
  <2>2. /\ req'[d] = req[d] /\ Pkg(d)' = q /\ q # p /\ ReqOK(d)
    BY <1>1, <1>2, <2>1 DEF EffectInv
  <2>3. DoneBy(d, "success")' = DoneBy(d, "success")
        /\ DoneBy(d, "rolled_back")' = DoneBy(d, "rolled_back")
    BY <2>2 DEF DoneBy
  <2>4. /\ pr'[q] = pr[q] /\ (Clean(q)' <=> Clean(q))
        /\ Undoable(q) => Undoable(q)'
        /\ Recorded(q) => Recorded(q)'
    BY <2>2
  <2>5. /\ Clean(Pkg(d))' <=> Clean(q)'
        /\ Undoable(Pkg(d))' <=> Undoable(q)'
        /\ Recorded(Pkg(d))' <=> Recorded(q)'
    BY <2>2 DEF Clean, Undoable, Recorded, IsLast
  <2> QED BY <2>1, <2>2, <2>3, <2>4, <2>5 DEF ReqOK, Refs
<1>3. ASSUME NEW q \in Packages, q # p PROVE PkgOK(q)'
  <2>1. NotRestored(q)' => NotRestored(q)
    <3>1. ASSUME NEW d \in Clients, req[d].pc = "restored", Pkg(d) = q
          PROVE  req'[d].pc = "restored" /\ Pkg(d)' = q
      BY <1>3, <3>1 DEF Pkg
    <3> QED BY <3>1 DEF NotRestored
  <2>2. PkgOK(q)
    BY DEF EffectInv
  <2> QED BY <1>3, <2>1, <2>2 DEF PkgOK, Refs
<1> QED BY <1>2, <1>3

LEMMA RowIsRow == ASSUME rows \in Seq(Row), NEW i \in DOMAIN rows PROVE rows[i] \in Row
OBVIOUS

(* A file is rewritten for one package alone.                               *)
LEMMA OwnFile ==
  ASSUME OwnFiles, TypeInv, NEW p \in Packages, NEW x,
         file' = [file EXCEPT ![FileOf[p]] = x]
  PROVE  /\ Clean(p)' <=> p \notin x
         /\ \A q \in Packages : q # p => (Clean(q)' <=> Clean(q))
BY ReviewAssumption DEF OwnFiles, Clean, TypeInv, TypeOK

(* What is known of the package a client is busy with.                      *)
LEMMA Busy ==
  ASSUME EffectInv, NEW c \in Clients, req[c].pc # "idle", NEW p, p = Pkg(c)
  PROVE  /\ p \in Packages /\ PkgOK(p) /\ ReqOK(c)
         /\ req[c].pc # "restored" => NotRestored(p)
<1>1. p \in Packages /\ PkgOK(p) /\ ReqOK(c)
  BY Named DEF EffectInv, GateInv, TypeInv, TypeOK
<1>2. ASSUME req[c].pc # "restored", NEW d \in Clients,
             req[d].pc = "restored", Pkg(d) = p
      PROVE  FALSE
  BY <1>2 DEF EffectInv, GateInv, Exclusive
<1> QED BY <1>1, <1>2 DEF NotRestored

LEMMA EndpointEffect ==
  ASSUME EffectInv, NoOverlap, OwnFiles, NoSecondEdit,
         NEW c \in Clients, Endpoint(c)
  PROVE  /\ \A q \in Packages : PkgOK(q)'
         /\ \A d \in Clients : req'[d].pc # "idle" => ReqOK(d)'
<1> USE DEF PC, Http, Running, At
<1>0. /\ status \in [Packages -> Statuses] /\ pr \in [Packages -> PrStates]
      /\ req \in [Clients -> Req] /\ rows \in Seq(Row) /\ TypeInv
  BY DEF EffectInv, GateInv, TypeInv, TypeOK
<1>1. req[c].pc \in Http
  BY Zenon
     DEF Endpoint, Approve, Reject, ReviewApprove, CleanUpBackup,
         CleanUpFails, RestoreBackup, RestoreFails, ReviewReject, MergePr,
         MergeFails, ReviewGitApprove, ClosePr, CloseFails, ReviewGitReject
<1>2. PICK p \in Packages : p = Pkg(c)
  BY <1>0, <1>1, Named
<1>3. /\ PkgOK(p) /\ ReqOK(c)
      /\ req[c].pc # "restored" => NotRestored(p)
  BY <1>1, <1>2, Busy
<1>4. /\ req[c].pc \in Reviewing => status[p] = "awaiting_review"
      /\ req[c].pc = "cleaning" => status[p] = "fixed"
      /\ req[c].pc = "approving"
           => status[p] \in ActOn \ {"ready_for_execution", "rejected"}
      /\ req[c].pc \in {"keeping", "restoring", "restored"} => pr[p] = "none"
      /\ req[c].pc \in {"merging", "closing", "closed"} => pr[p] # "none"
      /\ req[c].pc = "merged" => pr[p] = "merged"
  BY <1>2 DEF EffectInv, GateInv, StatusAt, PrAt
(* nothing but the status, the pull request and the client's place change *)
<1>5. ASSUME UNCHANGED <<file, rows, faults>>,
             \A q \in Packages : q # p => status'[q] = status[q] /\ pr'[q] = pr[q],
             Leave(c) \/ \E l \in Http \cup {"queued"} : Goto(c, l),
             PkgOK(p)', req'[c].pc = "queued" /\ pr'[p] = "none" => Clean(p),
             req'[c].pc # "restored"
      PROVE  /\ \A q \in Packages : PkgOK(q)'
             /\ \A d \in Clients : req'[d].pc # "idle" => ReqOK(d)'
  <2>1. /\ req' \in [Clients -> Req] /\ req'[c].pc \in Http \cup {"queued", "idle"}
        /\ req'[c].pc # "idle" => req'[c].pkg = p
        /\ \A d \in Clients : d # c => req'[d] = req[d]
    BY <1>0, <1>1, <1>2, <1>5, Left, Went DEF Pkg
  <2>2. \A q \in Packages : /\ Clean(q)' <=> Clean(q)
                            /\ Undoable(q) => Undoable(q)'
                            /\ Recorded(q) => Recorded(q)'
    BY <1>5, RowsStay DEF Clean
  <2>3. req'[c].pc # "idle" => ReqOK(c)'
    BY <1>5, <2>1 DEF ReqOK, DoneBy, Clean, Pkg
  <2> QED BY <1>1, <1>2, <1>5, <2>1, <2>2, <2>3, EffectMove DEF Pkg
<1>6. ASSUME UNCHANGED <<file, rows>>
      PROVE  /\ Clean(p)' <=> Clean(p)
             /\ Undoable(p)' <=> Undoable(p)
             /\ Recorded(p)' <=> Recorded(p)
  BY <1>6, RowsStay DEF Clean
<1>7. ASSUME Leave(c), UNCHANGED <<status, pr, file, rows, faults>>,
             req[c].pc # "restored"
      PROVE  /\ \A q \in Packages : PkgOK(q)'
             /\ \A d \in Clients : req'[d].pc # "idle" => ReqOK(d)'
  <2>1. PkgOK(p)'
    BY <1>3, <1>6, <1>7 DEF PkgOK
  <2>2. req'[c].pc = "idle"
    BY <1>0, <1>7, Left
  <2> QED BY <1>5, <1>7, <2>1, <2>2
<1>8. CASE Approve(c)
  <2>1. /\ status' = [status EXCEPT ![p] = "ready_for_execution"]
        /\ req[c].pc = "approving" /\ Goto(c, "queued")
        /\ UNCHANGED <<pr, file, rows, faults>>
    BY <1>2, <1>8 DEF Approve, Write
  <2>2. pr[p] = "none" => Clean(p)
    BY <1>0, <1>3, <1>4, <2>1 DEF PkgOK, NoSecondEdit, Statuses
  <2>3. PkgOK(p)' /\ req'[c].pc # "restored"
    BY <1>0, <2>1, Went DEF PkgOK
  <2> QED BY <1>0, <1>5, <2>1, <2>2, <2>3
<1>9. CASE Reject(c)
  <2>1. /\ status' = [status EXCEPT ![p] = "rejected"]
        /\ Leave(c) /\ UNCHANGED <<pr, file, rows, faults>>
    BY <1>2, <1>9 DEF Reject, Write
  <2>2. PkgOK(p)' /\ req'[c].pc = "idle"
    BY <1>0, <2>1, Left DEF PkgOK
  <2> QED BY <1>0, <1>5, <2>1, <2>2
<1>10. CASE ReviewApprove(c) \/ ReviewGitApprove(c)
  <2>1. /\ status' = [status EXCEPT ![p] = "fixed"]
        /\ Leave(c) \/ Goto(c, "cleaning")
        /\ UNCHANGED <<pr, file, rows, faults>>
        /\ status[p] = "awaiting_review" /\ req[c].pc # "restored"
        /\ req[c].pc # "sync"
    BY <1>2, <1>4, <1>10 DEF ReviewApprove, ReviewGitApprove, Write, Reviewing
  <2>2. PkgOK(p)'
    BY <1>0, <1>3, <1>6, <2>1 DEF PkgOK
  <2>3. req'[c].pc \in {"idle", "cleaning"}
    BY <1>0, <1>1, <2>1, Left, Went
  <2> QED BY <1>0, <1>5, <2>1, <2>2, <2>3
<1>11. CASE ReviewReject(c) \/ ReviewGitReject(c)
  <2>1. /\ status' = [status EXCEPT ![p] = "review_rejected"]
        /\ Leave(c) /\ UNCHANGED <<pr, file, rows, faults>>
        /\ req[c].pc \in {"restored", "closed"}
    BY <1>2, <1>11 DEF ReviewReject, ReviewGitReject, Write
  <2>2. pr[p] = "none" => Clean(p)
    BY <1>2, <1>3, <1>4, <2>1 DEF ReqOK
  <2>3. PkgOK(p)'
    BY <1>0, <1>6, <2>1, <2>2 DEF PkgOK
  <2>4. req'[c].pc = "idle"
    BY <1>0, <2>1, Left
  <2> QED BY <1>0, <1>5, <2>1, <2>3, <2>4
<1>12. CASE CleanUpFails(c) \/ RestoreFails(c) \/ MergeFails(c) \/ CloseFails(c)
  BY <1>7, <1>12
     DEF CleanUpFails, RestoreFails, RestoreError, MergeFails, CloseFails
<1>13. CASE MergePr(c) \/ ClosePr(c)
  <2>1. /\ \E s : pr' = [pr EXCEPT ![p] = s] /\ s # "none"
        /\ Goto(c, "merged") \/ Goto(c, "closed")
        /\ UNCHANGED <<status, file, rows, faults>>
        /\ req[c].pc \in {"merging", "closing"}
    BY <1>2, <1>4, <1>13 DEF MergePr, ClosePr
  <2>2. /\ pr'[p] # "none"
        /\ \A q \in Packages : q # p => pr'[q] = pr[q]
    BY <1>0, <2>1
  <2>3. PkgOK(p)'
    BY <1>3, <1>6, <2>1, <2>2 DEF PkgOK
  <2>4. req'[c].pc \in {"merged", "closed"}
    BY <1>0, <2>1, Went
  <2> QED BY <1>5, <2>1, <2>2, <2>3, <2>4
<1>14. CASE RestoreBackup(c)
  <2>1. req[c].pc = "restoring" /\ status[p] = "awaiting_review" /\ pr[p] = "none"
    BY <1>4, <1>14 DEF RestoreBackup, Reviewing
  <2>2. PICK i \in DOMAIN rows : IsLast(i, p) /\ p \notin rows[i].before
    BY <1>3, <2>1 DEF PkgOK, Undoable
  <2>3. LastRow(p) = i /\ rows[i].pkg = p
    BY <1>0, <2>2, Looked DEF IsLast
  <2>4. /\ file' = [file EXCEPT ![FileOf[p]] = rows[i].before]
        /\ Goto(c, "restored") /\ UNCHANGED <<status, pr, rows, faults>>
    BY <1>2, <1>14, <2>3 DEF RestoreBackup
  <2>5. /\ Clean(p)'
        /\ \A q \in Packages : q # p => (Clean(q)' <=> Clean(q))
    BY <1>0, <2>2, <2>4, OwnFile
  <2>6. /\ req' \in [Clients -> Req] /\ req'[c].pc = "restored"
        /\ req'[c].pkg = p
        /\ \A d \in Clients : d # c => req'[d] = req[d]
    BY <1>0, <1>2, <2>1, <2>4, Went DEF Pkg
  <2>7. \A q \in Packages : /\ Undoable(q) => Undoable(q)'
                            /\ Recorded(q) => Recorded(q)'
    BY <2>4, RowsStay
  <2>8. ~NotRestored(p)'
    BY <2>6 DEF NotRestored, Pkg
  <2>9. PkgOK(p)'
    BY <1>3, <2>1, <2>4, <2>5, <2>7, <2>8 DEF PkgOK
  <2>10. ReqOK(c)'
    BY <2>5, <2>6 DEF ReqOK, DoneBy, Clean, Pkg
  <2> QED
    BY <1>1, <1>2, <2>4, <2>5, <2>6, <2>7, <2>9, <2>10, EffectMove DEF Pkg
<1>15. CASE CleanUpBackup(c)
  <2>1. req[c].pc = "cleaning" /\ status[p] = "fixed"
    BY <1>4, <1>15 DEF CleanUpBackup
  <2>2. HasRow(p)
    BY <1>0, <1>2, <2>1 DEF TypeInv, RowInv, Rowed
  <2>3. PICK i \in DOMAIN rows : IsLast(i, p)
    BY <2>2 DEF HasRow
  <2>4. LastRow(p) = i /\ rows[i].pkg = p
    BY <1>0, <2>3, Looked DEF IsLast
  <2> DEFINE b == IF rows[i].backup = "kept" THEN "deleted" ELSE rows[i].backup
             r == [rows[i] EXCEPT !.backup = b]
  <2>5. /\ rows' = [rows EXCEPT ![i] = r]
        /\ Leave(c) /\ UNCHANGED <<status, pr, file, faults>>
    BY <1>2, <1>15, <2>4 DEF CleanUpBackup
  <2>6. r \in Row /\ r.pkg = rows[i].pkg
    <3>1. rows[i] \in Row
      BY <1>0, RowIsRow
    <3> QED BY <3>1 DEF Row, Backups
  <2> HIDE DEF r
  <2>7. \A q \in Packages : q # p => /\ Undoable(q) => Undoable(q)'
                                     /\ Recorded(q) => Recorded(q)'
    BY <1>0, <2>4, <2>5, <2>6, RowRewritten
  <2>8. \A q \in Packages : Clean(q)' <=> Clean(q)
    BY <2>5 DEF Clean
  <2>9. /\ req' \in [Clients -> Req] /\ req'[c].pc = "idle"
        /\ \A d \in Clients : d # c => req'[d] = req[d]
    BY <1>0, <2>5, Left
  <2>10. PkgOK(p)'
    BY <1>3, <2>1, <2>5, <2>8 DEF PkgOK
  <2> QED BY <1>1, <1>2, <2>5, <2>7, <2>8, <2>9, <2>10, EffectMove DEF Pkg
<1> QED
  BY <1>8, <1>9, <1>10, <1>11, <1>12, <1>13, <1>14, <1>15 DEF Endpoint

LEMMA TaskEffect ==
  ASSUME EffectInv, OwnFiles, NEW c \in Clients, Task(c)
  PROVE  /\ \A q \in Packages : PkgOK(q)'
         /\ \A d \in Clients : req'[d].pc # "idle" => ReqOK(d)'
<1> USE DEF PC, Http, Running, At
<1>0. /\ status \in [Packages -> Statuses] /\ pr \in [Packages -> PrStates]
      /\ file \in [Files -> SUBSET Packages]
      /\ req \in [Clients -> Req] /\ rows \in Seq(Row) /\ TypeInv
  BY DEF EffectInv, GateInv, TypeInv, TypeOK
<1>1. req[c].pc \in {"queued", "sync"} \cup Running
  BY Zenon
     DEF Task, StartRun, DispatchFails, Backup, Edit, RunSucceeds,
         RunRollsBack, RunFails, Sync
<1>2. PICK p \in Packages : p = Pkg(c)
  BY <1>0, <1>1, Named
<1>3. /\ PkgOK(p) /\ ReqOK(c) /\ NotRestored(p)
      /\ status[p] = "ready_for_execution"
  BY <1>1, <1>2, Busy DEF EffectInv, GateInv, StatusAt
<1>4. req[c].pc \in Running =>
        /\ Len(rows) \in DOMAIN rows /\ rows[Len(rows)].pkg = p
        /\ rows[Len(rows)] \in Row /\ IsLast(Len(rows), p)
  BY <1>0, <1>2, RunsLast, RowIsRow DEF TypeInv, RowInv, RunsOn
<1>5. PICK n \in Nat : n = Len(rows)
  BY <1>0
<1>6. ASSUME UNCHANGED rows
      PROVE  \A q \in Packages : /\ Undoable(q)' <=> Undoable(q)
                                 /\ Recorded(q)' <=> Recorded(q)
  BY <1>6, RowsStay
(* a step that stays with the package it is ready for *)
<1>7. ASSUME UNCHANGED <<status, faults>>,
             \A q \in Packages : q # p =>
               /\ pr'[q] = pr[q]
               /\ Clean(q)' <=> Clean(q)
               /\ Undoable(q) => Undoable(q)'
               /\ Recorded(q) => Recorded(q)',
             \/ \E l \in Running : Goto(c, l) /\ req[c].pc # "sync"
             \/ \E o \in Outcomes : Ends(c, o),
             ReqOK(c)'
      PROVE  /\ \A q \in Packages : PkgOK(q)'
             /\ \A d \in Clients : req'[d].pc # "idle" => ReqOK(d)'
  <2>1. /\ req' \in [Clients -> Req] /\ req'[c].pkg = p
        /\ \A d \in Clients : d # c => req'[d] = req[d]
    BY <1>0, <1>1, <1>2, <1>7, Went, Ended DEF Pkg
  <2>2. PkgOK(p)'
    BY <1>3, <1>7 DEF PkgOK
  <2> QED BY <1>1, <1>2, <1>7, <2>1, <2>2, EffectMove DEF Pkg
(* a step that ends the task *)
<1>8. ASSUME NEW s \in Statuses, Write(p, s), Leave(c),
             UNCHANGED <<pr, file, rows, faults>>, PkgOK(p)'
      PROVE  /\ \A q \in Packages : PkgOK(q)'
             /\ \A d \in Clients : req'[d].pc # "idle" => ReqOK(d)'
  <2>1. /\ req' \in [Clients -> Req] /\ req'[c].pc = "idle"
        /\ \A d \in Clients : d # c => req'[d] = req[d]
    BY <1>0, <1>8, Left
  <2>2. \A q \in Packages : q # p => status'[q] = status[q]
    BY <1>0, <1>8 DEF Write
  <2>3. \A q \in Packages : Clean(q)' <=> Clean(q)
    BY <1>8 DEF Clean
  <2> QED BY <1>1, <1>2, <1>6, <1>8, <2>1, <2>2, <2>3, EffectMove DEF Pkg
<1>9. CASE StartRun(c)
  <2>1. /\ rows' = Append(rows, [pkg |-> Pkg(c), before |-> {},
                                 backup |-> "none"])
        /\ Goto(c, "backup") /\ UNCHANGED <<status, pr, file, faults>>
        /\ req[c].pc = "queued"
    BY <1>9 DEF StartRun
  <2>2. PICK r \in Row : r = [pkg |-> Pkg(c), before |-> {}, backup |-> "none"]
    BY <1>2 DEF Row, Backups
  <2>3. \A q \in Packages : q # p => /\ Undoable(q) => Undoable(q)'
                                     /\ Recorded(q) => Recorded(q)'
    BY <1>0, <1>2, <2>1, <2>2, RowAdded
  <2>4. \A q \in Packages : Clean(q)' <=> Clean(q)
    BY <2>1 DEF Clean
  <2>5. /\ req'[c].pc = "backup" /\ req'[c].pkg = p
    BY <1>0, <1>2, <2>1, Went DEF Pkg
  <2>6. pr[p] = "none" => Clean(p)
    BY <1>2, <1>3, <2>1 DEF ReqOK
  <2>7. ReqOK(c)'
    BY <2>1, <2>4, <2>5, <2>6 DEF ReqOK, DoneBy, Clean, Pkg
  <2> QED BY <1>7, <2>1, <2>3, <2>4, <2>7
<1>10. CASE DispatchFails(c)
  <2>1. /\ Write(p, "fix_failed") /\ Leave(c)
        /\ UNCHANGED <<pr, file, rows, faults>>
    BY <1>2, <1>10 DEF DispatchFails, CrashStatus
  <2>2. PkgOK(p)'
    BY <1>0, <2>1 DEF PkgOK, Write
  <2> QED BY <1>8, <2>1, <2>2 DEF Statuses
<1>11. CASE Backup(c)
  <2>1. PICK b \in {"kept"} \cup (IF "noref" \in Allowed THEN {"none"} ELSE {}) :
          rows' = [rows EXCEPT ![Len(rows)].backup = b,
                               ![Len(rows)].before = file[FileOf[Pkg(c)]]]
    BY <1>11, Zenon DEF Backup
  <2>2. /\ req[c].pc = "backup" /\ Goto(c, "edit")
        /\ UNCHANGED <<status, pr, file, faults>>
    BY <1>11, Zenon DEF Backup
  <2>3. PICK r : r = [rows[Len(rows)] EXCEPT !.backup = b,
                                            !.before = file[FileOf[Pkg(c)]]]
    OBVIOUS
  <2>4. /\ r \in Row /\ r.pkg = p /\ r.backup = b /\ r.before = file[FileOf[p]]
    BY <1>0, <1>2, <1>4, <2>2, <2>3, ReviewAssumption DEF Row, Backups
  <2>5. rows' = [rows EXCEPT ![n] = r]
    BY <1>0, <1>4, <1>5, <2>1, <2>2, <2>3 DEF Row
  <2>6. \A q \in Packages : q # p => /\ Undoable(q) => Undoable(q)'
                                     /\ Recorded(q) => Recorded(q)'
    BY <1>0, <1>4, <1>5, <2>2, <2>4, <2>5, RowRewritten
  <2>7. n \in DOMAIN rows' /\ rows'[n] = r /\ IsLast(n, p)'
    BY <1>0, <1>4, <1>5, <2>2, <2>4, <2>5 DEF IsLast
  <2>8. /\ Clean(p) => Undoable(p)'
        /\ Refs => Recorded(p)'
    BY <2>1, <2>4, <2>7 DEF Undoable, Recorded, Clean, Refs
  <2>9. /\ req'[c].pc = "edit" /\ req'[c].pkg = p
    BY <1>0, <1>2, <2>2, Went DEF Pkg
  <2>10. pr[p] = "none" => Clean(p)
    BY <1>2, <1>3, <2>2 DEF ReqOK
  <2>11. ReqOK(c)'
    BY <2>2, <2>8, <2>9, <2>10
       DEF ReqOK, DoneBy, Undoable, Recorded, IsLast, Pkg
  <2>12. \A q \in Packages : Clean(q)' <=> Clean(q)
    BY <2>2 DEF Clean
  <2> QED BY <1>7, <2>2, <2>6, <2>11, <2>12
<1>12. CASE Edit(c)
  <2>1. /\ file' = [file EXCEPT ![FileOf[p]] = file[FileOf[p]] \cup {p}]
        /\ req[c].pc = "edit" /\ Goto(c, "verify")
        /\ UNCHANGED <<status, pr, rows, faults>>
    BY <1>2, <1>12 DEF Edit
  <2> DEFINE x == file[FileOf[p]] \cup {p}
  <2>2. /\ ~Clean(p)'
        /\ \A q \in Packages : q # p => (Clean(q)' <=> Clean(q))
    <3>1. PICK y : y = x
      OBVIOUS
    <3>2. file' = [file EXCEPT ![FileOf[p]] = y] /\ p \in y
      BY <2>1, <3>1
    <3> HIDE DEF x
    <3> QED BY <1>0, <3>2, OwnFile
  <2>3. /\ req'[c].pc = "verify" /\ req'[c].pkg = p
    BY <1>0, <1>2, <2>1, Went DEF Pkg
  <2>4. /\ pr[p] = "none" => Undoable(p)
        /\ Refs => Recorded(p)
    BY <1>2, <1>3, <2>1 DEF ReqOK
  <2>5. ReqOK(c)'
    BY <2>1, <2>2, <2>3, <2>4
       DEF ReqOK, DoneBy, Undoable, Recorded, IsLast, Clean, Refs, Pkg
  <2> QED BY <1>6, <1>7, <2>1, <2>2, <2>5
<1>13. CASE RunSucceeds(c)
  <2>1. PICK r : r = [rows[Len(rows)] EXCEPT !.backup = Kept(@)]
    OBVIOUS
  <2>2. /\ rows' = [rows EXCEPT ![n] = r]
        /\ req[c].pc = "verify" /\ Ends(c, "success")
        /\ UNCHANGED <<status, file, faults>>
        /\ \E s : pr' = [pr EXCEPT ![p] = s] /\ (s = "none" => pr[p] = "none")
    BY <1>2, <1>5, <1>13, <2>1 DEF RunSucceeds
  <2>3. r = rows[n]
    BY <1>4, <1>5, <2>1, <2>2 DEF Row, Kept
  <2>4. rows' = rows
    BY <1>0, <1>4, <1>5, <2>2, <2>3
  <2>5. /\ pr'[p] = "none" => pr[p] = "none"
        /\ \A q \in Packages : q # p => pr'[q] = pr[q]
    BY <1>0, <2>2
  <2>6. /\ req'[c].pc = "sync" /\ req'[c].pkg = p
        /\ req'[c].outcome = "success"
    BY <1>0, <1>2, <2>2, Ended DEF Pkg, Outcomes
  <2>7. /\ pr[p] = "none" => Undoable(p)
        /\ Refs => Recorded(p)
        /\ ~Clean(p)
    BY <1>2, <1>3, <2>2 DEF ReqOK
  <2>8. ReqOK(c)'
    BY <2>2, <2>4, <2>5, <2>6, <2>7
       DEF ReqOK, DoneBy, Undoable, Recorded, IsLast, Clean, Refs, Pkg
  <2>9. \A q \in Packages : Clean(q)' <=> Clean(q)
    BY <2>2 DEF Clean
  <2> QED BY <1>6, <1>7, <2>2, <2>4, <2>5, <2>8, <2>9 DEF Outcomes
<1>14. CASE RunRollsBack(c)
  <2>1. /\ file' = [file EXCEPT ![FileOf[p]] = rows[n].before]
        /\ req[c].pc \in {"edit", "verify"} /\ Ends(c, "rolled_back")
        /\ UNCHANGED <<status, pr, rows, faults>>
    BY <1>2, <1>5, <1>14 DEF RunRollsBack
  <2>2. /\ Clean(p)' <=> p \notin rows[n].before
        /\ \A q \in Packages : q # p => (Clean(q)' <=> Clean(q))
    BY <1>0, <2>1, OwnFile
  <2>3. pr[p] = "none" => Undoable(p)
    BY <1>2, <1>3, <2>1 DEF ReqOK
  <2>4. pr[p] = "none" => p \notin rows[n].before
    BY <1>0, <1>4, <1>5, <2>1, <2>3 DEF Undoable, IsLast
  <2>5. /\ req'[c].pc = "sync" /\ req'[c].pkg = p
        /\ req'[c].outcome = "rolled_back"
    BY <1>0, <1>2, <2>1, Ended DEF Pkg, Outcomes
  <2>6. ReqOK(c)'
    BY <2>1, <2>2, <2>4, <2>5 DEF ReqOK, DoneBy, Clean, Pkg
  <2> QED BY <1>6, <1>7, <2>1, <2>2, <2>6 DEF Outcomes
<1>15. CASE RunFails(c)
  <2>1. Ends(c, "failed") /\ UNCHANGED <<status, pr, file, rows, faults>>
        /\ req[c].pc \in Running
    BY <1>15 DEF RunFails
  <2>2. /\ req'[c].pc = "sync" /\ req'[c].outcome = "failed"
    BY <1>0, <2>1, Ended DEF Outcomes
  <2>3. ReqOK(c)'
    BY <2>2 DEF ReqOK, DoneBy
  <2>4. \A q \in Packages : Clean(q)' <=> Clean(q)
    BY <2>1 DEF Clean
  <2> QED BY <1>6, <1>7, <2>1, <2>3, <2>4 DEF Outcomes
<1>16. CASE Sync(c)
  <2>1. PICK s \in SyncStatuses(p, req[c].outcome) : Write(p, s)
    BY <1>2, <1>16, Zenon DEF Sync
  <2>2. /\ req[c].pc = "sync" /\ Leave(c)
        /\ UNCHANGED <<pr, file, rows, faults>>
    BY <1>16, Zenon DEF Sync
  <2>3. /\ s \in Statuses
        /\ s \in {"awaiting_review", "fixed"} => req[c].outcome = "success"
        /\ s \notin {"awaiting_approval", "review_rejected"}
        /\ s = "rolled_back" => req[c].outcome = "rolled_back"
    BY <1>0, <2>1, <2>2, Named DEF SyncStatuses, FixToPackage, Outcomes, Statuses
  <2>4. status'[p] = s
    BY <1>0, <2>1 DEF Write
  <2>5. Clean(p)' <=> Clean(p)
    BY <2>2 DEF Clean
  <2>6. PkgOK(p)'
    BY <1>2, <1>3, <1>6, <2>2, <2>3, <2>4, <2>5 DEF PkgOK, ReqOK, DoneBy
  <2> QED BY <1>8, <2>1, <2>2, <2>3, <2>6
<1> QED
  BY <1>9, <1>10, <1>11, <1>12, <1>13, <1>14, <1>15, <1>16 DEF Task

(* A step that takes the client out and touches nothing but the faults.     *)
LEMMA FaultEffect ==
  ASSUME EffectInv, UNCHANGED <<status, pr, file, rows>>, faults' # 0,
         \A c \in Clients : req'[c] = req[c] \/ req'[c].pc = "idle"
  PROVE  /\ \A q \in Packages : PkgOK(q)'
         /\ \A d \in Clients : req'[d].pc # "idle" => ReqOK(d)'
<1>1. \A q \in Packages : /\ Clean(q)' <=> Clean(q)
                          /\ Undoable(q)' <=> Undoable(q)
                          /\ Recorded(q)' <=> Recorded(q)
  BY RowsStay DEF Clean
<1>2. ASSUME NEW q \in Packages PROVE PkgOK(q)'
  BY <1>1 DEF EffectInv, PkgOK, Refs
<1>3. ASSUME NEW d \in Clients, req'[d].pc # "idle" PROVE ReqOK(d)'
  <2>1. req'[d] = req[d] /\ ReqOK(d)
    BY <1>3 DEF EffectInv
  <2> QED
    BY <2>1
       DEF ReqOK, DoneBy, Undoable, Recorded, IsLast, Clean, Refs, Pkg
<1> QED BY <1>2, <1>3

LEMMA EffectStep ==
  ASSUME EffectInv, NoOverlap, OwnFiles, NoSecondEdit, [Next]_vars
  PROVE  /\ \A q \in Packages : PkgOK(q)'
         /\ \A d \in Clients : req'[d].pc # "idle" => ReqOK(d)'
<1>0. /\ status \in [Packages -> Statuses] /\ pr \in [Packages -> PrStates]
      /\ req \in [Clients -> Req] /\ faults \in Nat
  BY ReviewAssumption DEF EffectInv, GateInv, TypeInv, TypeOK
<1>1. ASSUME NEW c \in Clients, NEW p \in Packages, Operator(c, p)
      PROVE  /\ \A q \in Packages : PkgOK(q)'
             /\ \A d \in Clients : req'[d].pc # "idle" => ReqOK(d)'
  <2>1. /\ req' \in [Clients -> Req] /\ req[c].pc = "idle"
        /\ req'[c].pc \in {"approving", "rejecting", "keeping", "restoring",
                           "merging", "closing"}
        /\ req'[c].pkg = p
        /\ \A d \in Clients : d # c => req'[d] = req[d]
        /\ \A d \in Clients : req[d].pc # "idle" => req[d].pkg # p
        /\ \A d \in Clients : req[d].pc \notin Http
        /\ UNCHANGED <<status, pr, file, rows, faults>>
    BY <1>1, Opened DEF EffectInv
  <2>2. \A q \in Packages : /\ Clean(q)' <=> Clean(q)
                            /\ Undoable(q)' <=> Undoable(q)
                            /\ Recorded(q)' <=> Recorded(q)
    BY <2>1, RowsStay DEF Clean
  <2>3. PkgOK(p) /\ NotRestored(p)
    BY <2>1 DEF EffectInv, NotRestored, Http
  <2>4. PkgOK(p)'
    BY <2>1, <2>2, <2>3 DEF PkgOK, Refs
  <2>5. ReqOK(c)'
    BY <2>1 DEF ReqOK, DoneBy
  <2> QED BY <2>1, <2>2, <2>4, <2>5, EffectMove
<1>2. ASSUME NEW c \in Clients, WriteFails(c)
      PROVE  /\ \A q \in Packages : PkgOK(q)'
             /\ \A d \in Clients : req'[d].pc # "idle" => ReqOK(d)'
  <2>1. /\ Leave(c) /\ UNCHANGED <<status, pr, file, rows>>
        /\ faults' = faults + 1
    BY <1>2 DEF WriteFails, Fault
  <2>2. \A d \in Clients : req'[d] = req[d] \/ req'[d].pc = "idle"
    BY <1>0, <2>1, Left
  <2> QED BY <1>0, <2>1, <2>2, FaultEffect
<1>3. CASE Restart
  <2>1. /\ req' = [c \in Clients |-> [pc |-> "idle"]]
        /\ UNCHANGED <<status, pr, file, rows>> /\ faults' = faults + 1
    BY <1>3 DEF Restart, Fault
  <2> QED BY <1>0, <2>1, FaultEffect
<1>4. ASSUME \A q \in Packages : pr'[q] = "none" <=> pr[q] = "none",
             UNCHANGED <<status, file, rows, req, faults>>
      PROVE  /\ \A q \in Packages : PkgOK(q)'
             /\ \A d \in Clients : req'[d].pc # "idle" => ReqOK(d)'
  <2>1. \A q \in Packages : /\ Clean(q)' <=> Clean(q)
                            /\ Undoable(q)' <=> Undoable(q)
                            /\ Recorded(q)' <=> Recorded(q)
    BY <1>4, RowsStay DEF Clean
  <2>2. ASSUME NEW q \in Packages PROVE PkgOK(q)'
    <3>1. PkgOK(q) /\ (NotRestored(q)' <=> NotRestored(q))
      BY <1>4 DEF EffectInv, NotRestored, Pkg
    <3> QED BY <1>4, <2>1, <3>1 DEF PkgOK, Refs
  <2>3. ASSUME NEW d \in Clients, req'[d].pc # "idle" PROVE ReqOK(d)'
    <3>1. ReqOK(d) /\ Pkg(d) \in Packages
      BY <1>0, <1>4, <2>3, Named DEF EffectInv
    <3> QED
      BY <1>4, <3>1
         DEF ReqOK, DoneBy, Undoable, Recorded, IsLast, Clean, Refs, Pkg
  <2> QED BY <2>2, <2>3
<1>5. ASSUME NEW p \in Packages, GithubActs(p)
      PROVE  /\ \A q \in Packages : PkgOK(q)'
             /\ \A d \in Clients : req'[d].pc # "idle" => ReqOK(d)'
  <2>1. PICK s \in {"merged", "closed"} : pr' = [pr EXCEPT ![p] = s]
    BY <1>5, Zenon DEF GithubActs
  <2>2. /\ pr[p] = "open" /\ UNCHANGED <<status, file, rows, req, faults>>
    BY <1>5, Zenon DEF GithubActs
  <2>3. \A q \in Packages : pr'[q] = "none" <=> pr[q] = "none"
    BY <1>0, <2>1, <2>2
  <2> QED BY <1>4, <2>2, <2>3
<1>6. CASE UNCHANGED vars
  BY <1>4, <1>6 DEF vars
<1> QED
  BY <1>1, <1>2, <1>3, <1>5, <1>6, EndpointEffect, TaskEffect DEF Next

LEMMA EffectInvariance ==
  ASSUME NoOverlap, OwnFiles, NoSecondEdit
  PROVE  Spec => []EffectInv
<1> DEFINE E == /\ \A q \in Packages : PkgOK(q)
                /\ \A d \in Clients : req[d].pc # "idle" => ReqOK(d)
<1>1. Init => E
  BY ReviewAssumption DEF Init, PkgOK, ReqOK, Clean
<1>2. GateInv /\ E /\ [Next]_vars => E'
  BY EffectStep DEF EffectInv
<1> HIDE DEF E
<1>3. Spec => []E
  BY <1>1, <1>2, GateInvariance, PTL DEF Spec
<1>4. GateInv /\ E <=> EffectInv
  BY DEF E, EffectInv
<1> QED BY <1>3, <1>4, GateInvariance, PTL

(* The pull request of a package moves while it is dispatched or reviewed,  *)
(* or it is open and somebody on GitHub moves it.                           *)
LEMMA PrMoves ==
  ASSUME GateInv, [Next]_vars, NEW p \in Packages
  PROVE  \/ pr'[p] = pr[p]
         \/ /\ status' = status
            /\ status[p] \in {"ready_for_execution", "awaiting_review"}
               \/ pr[p] = "open"
<1>0. pr \in [Packages -> PrStates]
  BY DEF GateInv, TypeInv, TypeOK
<1>1. ASSUME NEW c \in Clients, Endpoint(c)
      PROVE  pr'[p] = pr[p] \/ (status' = status /\ status[p] = "awaiting_review")
  <2>1. CASE MergePr(c) \/ ClosePr(c)
    <3>1. /\ req[c].pc \in {"merging", "closing"} /\ status' = status
          /\ \E s : pr' = [pr EXCEPT ![Pkg(c)] = s]
      BY <2>1 DEF MergePr, ClosePr, At
    <3>2. status[Pkg(c)] = "awaiting_review"
      BY <3>1 DEF GateInv, StatusAt, Reviewing
    <3> QED BY <1>0, <3>1, <3>2
  <2> QED
    BY <1>1, <2>1, Zenon
       DEF Endpoint, Approve, Reject, ReviewApprove, CleanUpBackup,
           CleanUpFails, RestoreBackup, RestoreFails, ReviewReject,
           MergeFails, ReviewGitApprove, CloseFails, ReviewGitReject
<1>2. ASSUME NEW c \in Clients, Task(c)
      PROVE  pr'[p] = pr[p]
             \/ (status' = status /\ status[p] = "ready_for_execution")
  <2>1. CASE RunSucceeds(c)
    <3>1. /\ req[c].pc = "verify" /\ status' = status
          /\ \E s : pr' = [pr EXCEPT ![Pkg(c)] = s]
      BY <2>1, Zenon DEF RunSucceeds, At
    <3>2. status[Pkg(c)] = "ready_for_execution"
      BY <3>1 DEF GateInv, StatusAt, Running
    <3> QED BY <1>0, <3>1, <3>2
  <2> QED
    BY <1>2, <2>1, Zenon
       DEF Task, StartRun, DispatchFails, Backup, Edit, RunRollsBack,
           RunFails, Sync
<1>3. ASSUME NEW c \in Clients, NEW q \in Packages, Operator(c, q)
      PROVE  pr'[p] = pr[p]
  BY <1>3, Zenon
     DEF Operator, ApproveStart, RejectStart, ReviewApproveStart,
         ReviewRejectStart, ReviewGitApproveStart, ReviewGitRejectStart
<1>4. ASSUME NEW q \in Packages, GithubActs(q)
      PROVE  pr'[p] = pr[p] \/ (status' = status /\ pr[p] = "open")
  <2>1. /\ pr[q] = "open" /\ status' = status
        /\ \E s : pr' = [pr EXCEPT ![q] = s]
    BY <1>4, Zenon DEF GithubActs
  <2> QED BY <1>0, <2>1
<1> QED
  BY <1>1, <1>2, <1>3, <1>4 DEF Next, WriteFails, Restart, vars

LEMMA MergedStep ==
  ASSUME GateInv, ReadsWork, FixedIsMerged, [Next]_vars
  PROVE  FixedIsMerged'
<1>1. ASSUME NEW p \in Git, status'[p] = "fixed"
      PROVE  pr'[p] \in {"none", "merged"}
  <2>0. p \in Packages /\ p \in Reviewed
    BY ReviewAssumption
  <2>1. CASE status[p] = "fixed"
    BY <1>1, <2>0, <2>1, PrMoves DEF FixedIsMerged
  <2>2. CASE status[p] # "fixed"
    <3>1. PICK c \in Clients : StatusMove(c)
      BY <1>1, <2>2, StatusMoves DEF GateInv
    <3>2. PICK s \in Statuses :
            /\ Write(Pkg(c), s)
            /\ \/ req[c].pc \in {"keeping", "merged"}
               \/ s \in Statuses \ {"fixed"}
               \/ req[c].pc = "sync"
                  /\ s \in SyncStatuses(Pkg(c), req[c].outcome)
      BY <3>1 DEF StatusMove
    <3>3. Pkg(c) = p /\ s = "fixed"
      BY <1>1, <2>0, <2>2, <3>2 DEF Write, GateInv, TypeInv, TypeOK
    <3>4. CASE req[c].pc \in {"keeping", "merged"}
      <4>1. pr[p] \in {"none", "merged"}
        BY <3>3, <3>4 DEF GateInv, PrAt
      <4> QED BY <1>1, <2>0, <2>2, <4>1, PrMoves
    <3>5. CASE req[c].pc = "sync" /\ s \in SyncStatuses(Pkg(c), req[c].outcome)
      <4>1. req[c].outcome \in Outcomes
        BY <3>5, Named DEF GateInv, TypeInv, TypeOK
      <4> QED
        BY <2>0, <3>3, <3>5, <4>1
           DEF SyncStatuses, FixToPackage, Outcomes, ReadsWork
    <3> QED BY <3>2, <3>3, <3>4, <3>5
  <2> QED BY <2>1, <2>2
<1> QED BY <1>1 DEF FixedIsMerged

(* Where operators wait for answers, no two packages edit one file, no      *)
(* package that may still have its edit in the file is dispatched again and *)
(* the package can be read, a status is true of the sandbox and of GitHub:  *)
(* fixed is live and, by pull request, merged; what was rejected on review  *)
(* or rolled back is gone.  Restarts, failed writes, merges on GitHub and   *)
(* runs without a backup are all allowed.                                   *)
THEOREM StatusIsTruthful ==
  ASSUME NoOverlap, OwnFiles, NoSecondEdit, ReadsWork
  PROVE  Spec => []StatusTruthful
<1>1. Init => FixedIsMerged
  BY ReviewAssumption DEF Init, FixedIsMerged
<1>2. GateInv /\ FixedIsMerged /\ [Next]_vars => FixedIsMerged'
  BY MergedStep
<1>3. Spec => []FixedIsMerged
  BY <1>1, <1>2, GateInvariance, PTL DEF Spec
<1>4. EffectInv => FixedIsLive
  <2> SUFFICES ASSUME EffectInv, faults = 0, NEW p \in Packages,
                      status[p] = "fixed"
               PROVE  p \in file[FileOf[p]]
    BY DEF FixedIsLive
  <2>1. NotRestored(p)
    BY DEF NotRestored, EffectInv, GateInv, StatusAt, Reviewing
  <2>2. PkgOK(p)
    BY DEF EffectInv
  <2> QED BY <2>1, <2>2 DEF PkgOK, Clean
<1>5. EffectInv => UndoneIsGone
  BY DEF EffectInv, PkgOK, Clean, UndoneIsGone
<1> QED BY <1>3, <1>4, <1>5, EffectInvariance, PTL DEF StatusTruthful

(* Where, moreover, every run records a backup, a package that waits for    *)
(* the review of its diff has the backup of its latest run, and that backup *)
(* is the file without the package's edit: the review can be refused.       *)
THEOREM ReviewCanUndo ==
  ASSUME NoOverlap, OwnFiles, NoSecondEdit, Refs
  PROVE  Spec => []Restorable
<1>1. ASSUME EffectInv, NEW p \in Packages,
             status[p] = "awaiting_review", pr[p] = "none"
      PROVE  /\ rows[LastRow(p)].backup = "kept"
             /\ p \notin rows[LastRow(p)].before
  <2>1. Undoable(p) /\ Recorded(p)
    BY <1>1 DEF EffectInv, PkgOK
  <2>2. PICK i \in DOMAIN rows : IsLast(i, p) /\ p \notin rows[i].before
    BY <2>1 DEF Undoable
  <2>3. PICK j \in DOMAIN rows : IsLast(j, p) /\ rows[j].backup = "kept"
    BY <2>1 DEF Recorded
  <2>4. LastRow(p) = i /\ LastRow(p) = j
    BY <1>1, <2>2, <2>3, Looked DEF EffectInv, GateInv, TypeInv, TypeOK
  <2> QED BY <2>2, <2>3, <2>4
<1>2. EffectInv => Restorable
  BY <1>1 DEF Restorable
<1> QED BY <1>2, EffectInvariance, PTL

=============================================================================

---------------------------- MODULE NvdBackfill ----------------------------
(***************************************************************************)
(* The backfill CLI next to the sync Lambda.  An operator starts it for    *)
(* the first load and again whenever the runbooks say so; year by year it  *)
(* fetches every CVE published in the year from the NVD API, writes them   *)
(* and notes the year, and at the end it sets the sync checkpoint to the   *)
(* present.  Nothing keeps it from running while the Lambda does.          *)
(***************************************************************************)
EXTENDS NvdSync

CONSTANTS
  YearOf,        \* the year a CVE was published in, from 1
  LastYear,      \* BACKFILL_END_YEAR
  Loaded,        \* a first backfill completed before the behaviour starts
  BackfillFaults,\* what may go wrong: a year's fetch or writes
  MaxStarts      \* bound: backfills started

ASSUME BackfillAssumption ==
  /\ LastYear \in Nat \ {0}
  /\ YearOf \in [Cves -> 1 .. LastYear]
  /\ Loaded \in BOOLEAN
  /\ BackfillFaults \subseteq {"abort"}
  /\ MaxStarts \in Nat

VARIABLES
  load,    \* the local state of the backfill
  done,    \* the SYSTEM#BACKFILL item: last_completed_year, 0 if there is none
  starts,  \* backfills started
  ended,   \* when a backfill last ended with exit code 0, or Absent
  handover \* when a backfill last set the sync checkpoint, or Absent

backfillVars == <<load, done, starts, ended, handover>>
allVars == <<vars, backfillVars>>

Load == [pc   : {"off", "fetch", "store", "finish"},
         year : 0 .. LastYear,
         got  : Listing,
         left : SUBSET Cves]

Off == [pc |-> "off", year |-> 0, got |-> Nothing, left |-> {}]

(* Unless a first backfill has completed, the table is empty and neither   *)
(* checkpoint exists.                                                      *)
BackfillInit ==
  /\ now = 0
  /\ nvd = [c \in Cves |-> 0]
  /\ feed = [at |-> 0, items |-> [c \in Cves |-> 0]]
  /\ table = IF Loaded THEN [c \in Cves |-> 0] ELSE Nothing
  /\ ckpt = [ts |-> IF Loaded THEN 0 ELSE Absent, hash |-> NoHash]
  /\ job = Idle
  /\ fails = 0
  /\ load = Off
  /\ done = IF Loaded THEN LastYear ELSE 0
  /\ starts = 0
  /\ ended = Absent
  /\ handover = Absent

(* main: resume after the last completed year; with no year left there is  *)
(* nothing to do, and the sync checkpoint is not touched.                  *)
StartBackfill ==
  /\ load.pc = "off" /\ starts < MaxStarts
  /\ starts' = starts + 1
  /\ IF done + 1 > LastYear
     THEN ended' = now /\ UNCHANGED load
     ELSE load' = [Off EXCEPT !.pc = "fetch", !.year = done + 1]
          /\ UNCHANGED ended
  /\ UNCHANGED <<vars, done, handover>>

(* _process_year: all the year's CVEs as the API serves them, transformed. *)
FetchYear ==
  /\ load.pc = "fetch"
  /\ LET items == [c \in Cves |-> IF YearOf[c] = load.year THEN nvd[c] ELSE Absent]
     IN  load' = [load EXCEPT !.pc = "store", !.got = items, !.left = Storable(items)]
  /\ UNCHANGED <<vars, done, starts, ended, handover>>

(* batch_put_items: the same unconditional put. *)
StoreItem ==
  /\ load.pc = "store"
  /\ \E c \in load.left :
       /\ \A d \in load.left : c <= d
       /\ table' = [table EXCEPT ![c] = load.got[c]]
       /\ load' = [load EXCEPT !.left = @ \ {c}]
  /\ UNCHANGED <<world, ckpt, job, fails, done, starts, ended, handover>>

(* Two slips the year loop invites: noting the year before its items are   *)
(* written, and going on after the last year.                              *)
FinishYear_early ==
  /\ load.pc = "store"
  /\ done' = load.year
  /\ load' = IF load.year = LastYear
             THEN [Off EXCEPT !.pc = "finish"]
             ELSE [Off EXCEPT !.pc = "fetch", !.year = load.year + 1]
  /\ UNCHANGED <<vars, starts, ended, handover>>

FinishYear_endless ==
  /\ load.pc = "store" /\ load.left = {}
  /\ done' = load.year
  /\ load' = [Off EXCEPT !.pc = "fetch", !.year = load.year + 1]
  /\ UNCHANGED <<vars, starts, ended, handover>>

(* The year is complete: note it and go on to the next one. *)
FinishYear ==
  /\ load.pc = "store" /\ load.left = {}
  /\ done' = load.year
  /\ load' = IF load.year = LastYear
             THEN [Off EXCEPT !.pc = "finish"]
             ELSE [Off EXCEPT !.pc = "fetch", !.year = load.year + 1]
  /\ UNCHANGED <<vars, starts, ended, handover>>

(* _write_sync_checkpoint: last_successful_sync is the present. *)
SetSyncCheckpoint ==
  /\ load.pc = "finish"
  /\ ckpt' = [ts |-> now, hash |-> NoHash]
  /\ load' = Off
  /\ ended' = now
  /\ handover' = now
  /\ UNCHANGED <<world, table, job, fails, done, starts>>

(* A page or a batch fails after its retries, or the process is stopped:   *)
(* exit code 1, with the last completed year noted.                        *)
AbortBackfill ==
  /\ "abort" \in BackfillFaults
  /\ load.pc # "off"
  /\ starts < MaxStarts    \* bound: the last one goes through
  /\ load' = Off
  /\ UNCHANGED <<vars, done, starts, ended, handover>>

BackfillStep == \/ FetchYear \/ StoreItem \/ FinishYear \/ SetSyncCheckpoint

BackfillNext ==
  \/ Next /\ UNCHANGED backfillVars
  \/ StartBackfill
  \/ BackfillStep
  \/ AbortBackfill

BackfillSpec == BackfillInit /\ [][BackfillNext]_allVars

BackfillFairness ==
  /\ WF_allVars(Sync /\ UNCHANGED backfillVars)
  /\ WF_allVars(PublishFeed /\ UNCHANGED backfillVars)
  /\ WF_allVars(StartBackfill)
  /\ WF_allVars(BackfillStep)

FairBackfillSpec == BackfillSpec /\ BackfillFairness

-----------------------------------------------------------------------------
(* Properties. *)

BackfillTypeOK ==
  /\ load \in Load
  /\ done \in 0 .. LastYear
  /\ starts \in 0 .. MaxStarts
  /\ ended \in Version
  /\ handover \in Version

(* A year that is noted as completed is in the table, whatever aborts and  *)
(* resumptions went before: a resumed backfill skips it for good.          *)
YearsLoaded ==
  \A c \in Cves :
    YearOf[c] <= done /\ (\A v \in 0 .. MaxTime : <<c, v>> \notin Malformed)
      => table[c] # Absent

(* Every change made after a backfill has handed over to the sync is in    *)
(* the table when the checkpoint has passed it, although an invocation     *)
(* that started before may still save its older checkpoint over the        *)
(* backfill's.                                                             *)
LaterChangesCovered ==
  \A c \in Cves :
    handover # Absent /\ handover < nvd[c] /\ nvd[c] <= ckpt.ts
      /\ <<c, nvd[c]>> \notin Malformed
      => table[c] = nvd[c]

(* A backfill that ends with exit code 0 leaves the sync checkpoint at its *)
(* completion time, so that the scheduled sync can go on from there.       *)
BackfillSetsCheckpoint == [][ended' # ended => ckpt'.ts = ended']_allVars

(* In particular a backfill that ends with exit code 0 ends a critical     *)
(* gap, the runbooks' way out of it.                                       *)
BackfillEndsGap ==
  [][ended' # ended => now - ckpt'.ts < CriticalGap]_allVars
=============================================================================

------------------------------ MODULE NvdSync ------------------------------
(***************************************************************************)
(* The NVD sync Lambda: on a schedule, one invocation at a time, it reads  *)
(* the checkpoint, chooses between the modified feed, the NVD API and      *)
(* giving up, writes the changed CVEs to the intelligence table batch by   *)
(* batch and then moves the checkpoint.  The NVD changes and republishes   *)
(* its feed while an invocation runs, and an invocation may fail at every  *)
(* step.                                                                   *)
(*                                                                         *)
(* Time is counted in ticks.  The content of a CVE record is abstracted to *)
(* its version, the tick of its last modification; a batch of 25 items is  *)
(* one CVE.  Whether a record can be transformed is a property of the      *)
(* record (Malformed).                                                     *)
(***************************************************************************)
EXTENDS Integers, FiniteSets

CONSTANTS
  Cves,          \* CVE ids; their order is the order of the feed and the API
  Malformed,     \* <<cve, version>>: records transform_nvd_cve rejects
  FeedWindow,    \* ticks of changes the modified feed covers (8 days)
  GapThreshold,  \* GAP_THRESHOLD_DAYS
  CriticalGap,   \* CRITICAL_GAP_DAYS
  Span,          \* ticks an invocation may last (the Lambda's timeout)
  PageSize,      \* results per page of the NVD API
  Capacity,      \* batches an invocation writes before the 30 s buffer
  Faults,        \* what may go wrong in this instance
  MaxFails,      \* bound: failed invocations
  MaxTime        \* bound: ticks

Absent == -1    \* no version, no checkpoint
NoHash == -1    \* a stored hash no META file has: "" or "gap_recovery"

FaultKinds == {"read", "fetch", "write", "slow", "killed", "stall"}

ASSUME SyncAssumption ==
  /\ Cves \subseteq Nat /\ IsFiniteSet(Cves)
  /\ Malformed \subseteq Cves \X Nat
  /\ FeedWindow \in Nat \ {0} /\ GapThreshold \in Nat /\ CriticalGap \in Nat
  /\ GapThreshold < CriticalGap
  /\ Span \in Nat /\ PageSize \in Nat \ {0} /\ Capacity \in Nat \ {0}
  /\ Faults \subseteq FaultKinds
  /\ MaxFails \in Nat /\ MaxTime \in Nat

VARIABLES
  now,    \* the time
  nvd,    \* the NVD's own version of each CVE
  feed,   \* the published modified feed: its time (its META hash) and items
  table,  \* the version of each CVE in the intelligence table
  ckpt,   \* the SYSTEM#SYNC item: last_successful_sync and meta_sha256
  job,    \* the local state of the invocation
  fails   \* invocations that failed, counted for the bound

vars == <<now, nvd, feed, table, ckpt, job, fails>>
world == <<now, nvd, feed>>

Version == Nat \cup {Absent}
Listing == [Cves -> Version]
Nothing == [c \in Cves |-> Absent]

Job == [pc    : {"idle", "meta", "download", "page", "write"},
        began : Nat,       \* when the mode was determined
        last  : Version,   \* last_sync_ts
        stored: Version,   \* stored_meta_hash
        hash  : Version,   \* the hash the checkpoint will get
        index : Nat,       \* startIndex of the next page
        total : Version,   \* totalResults of the first page
        got   : Listing,   \* the items that passed the filter
        left  : SUBSET Cves,  \* transformed items not written yet
        high  : Version,   \* max_last_modified
        used  : Nat]       \* batches written

Idle == [pc |-> "idle", began |-> 0, last |-> Absent, stored |-> NoHash,
         hash |-> NoHash, index |-> 0, total |-> Absent, got |-> Nothing,
         left |-> {}, high |-> Absent, used |-> 0]

(* The state after the initial backfill: everything is in the table.       *)
Init ==
  /\ now = 0
  /\ nvd = [c \in Cves |-> 0]
  /\ feed = [at |-> 0, items |-> [c \in Cves |-> 0]]
  /\ table = [c \in Cves |-> 0]
  /\ ckpt = [ts |-> 0, hash |-> NoHash]
  /\ job = Idle
  /\ fails = 0

-----------------------------------------------------------------------------
(* The NVD. *)

(* Time passes and the NVD modifies a set of records at once.  A tick is no *)
(* shorter than the interval between two feeds, unless the feed stalls.    *)
Modify(S) ==
  /\ now < MaxTime
  /\ "stall" \notin Faults => feed.at = now
  /\ job.pc # "idle" => now < job.began + Span
  /\ now' = now + 1
  /\ nvd' = [c \in Cves |-> IF c \in S THEN now + 1 ELSE nvd[c]]
  /\ UNCHANGED <<feed, table, ckpt, job, fails>>

(* The NVD regenerates its modified feed and the META file with its hash.  *)
PublishFeed ==
  /\ feed' = [at    |-> now,
              items |-> [c \in Cves |-> IF nvd[c] > now - FeedWindow
                                        THEN nvd[c] ELSE Absent]]
  /\ UNCHANGED <<now, nvd, table, ckpt, job, fails>>

-----------------------------------------------------------------------------
(* The invocation. *)

Return == job' = Idle

(* Slips in the choice of the mode: a threshold off by one, and a gap that *)
(* is left to the operator as a critical one is.                           *)
SyncMode_late(ts) ==
  IF ts = Absent THEN "normal"
  ELSE IF now - ts >= CriticalGap THEN "critical"
  ELSE IF now - ts > GapThreshold THEN "gap_recovery"
  ELSE "normal"

SyncMode_nogap(ts) ==
  IF ts = Absent \/ now - ts < GapThreshold THEN "normal" ELSE "critical"

(* _determine_sync_mode: no checkpoint counts as a first, normal sync. *)
SyncMode(ts) ==
  IF ts = Absent THEN "normal"
  ELSE IF now - ts >= CriticalGap THEN "critical"
  ELSE IF now - ts >= GapThreshold THEN "gap_recovery"
  ELSE "normal"

(* What CheckpointManager.read may return: a failed read looks like a      *)
(* checkpoint that was never written.                                      *)
CheckpointReads ==
  {ckpt} \cup (IF "read" \in Faults THEN {[ts |-> Absent, hash |-> NoHash]}
                                    ELSE {})

(* An invocation starts, reads the checkpoint and chooses its mode.  With  *)
(* a critical gap it returns at once and changes nothing.                  *)
Start ==
  /\ job.pc = "idle"
  /\ \E read \in CheckpointReads :
       /\ SyncMode(read.ts) # "critical"
       /\ job' = [Idle EXCEPT
                    !.pc = IF SyncMode(read.ts) = "normal" THEN "meta" ELSE "page",
                    !.began = now, !.last = read.ts, !.stored = read.hash]
  /\ UNCHANGED <<world, table, ckpt, fails>>

(* fetch_meta_sha256 and the early exit on an unchanged hash. *)
FetchMeta ==
  /\ job.pc = "meta"
  /\ IF job.stored = feed.at
     THEN Return
     ELSE job' = [job EXCEPT !.pc = "download", !.hash = feed.at]
  /\ UNCHANGED <<world, table, ckpt, fails>>

Storable(items) ==
  {c \in Cves : items[c] # Absent /\ <<c, items[c]>> \notin Malformed}

(* The loop over transform_nvd_cve: rejected items are skipped and do not  *)
(* count for the new checkpoint.                                           *)
Transform(items) ==
  IF Storable(items) = {}
  THEN job' = [job EXCEPT !.pc = "write", !.got = items]
  ELSE \E c \in Storable(items) :
         /\ \A d \in Storable(items) : items[d] <= items[c]
         /\ job' = [job EXCEPT !.pc = "write", !.got = items,
                               !.left = Storable(items), !.high = items[c]]

(* A slip: every item of the feed passes. *)
Newer_unfiltered(items, ts) == items

(* filter_cves_by_checkpoint: strictly newer than the checkpoint. *)
Newer(items, ts) ==
  [c \in Cves |-> IF items[c] > ts THEN items[c] ELSE Absent]

(* Download, parse, filter and transform the feed.  With nothing to do the *)
(* invocation succeeds and leaves the checkpoint, hash included, alone.    *)
Download ==
  /\ job.pc = "download"
  /\ LET items == Newer(feed.items, job.last)
     IN  IF items = Nothing THEN Return ELSE Transform(items)
  /\ UNCHANGED <<world, table, ckpt, fails>>

(* The API's answer: the records modified between the checkpoint and the   *)
(* start of the recovery, as they are when a page is served.               *)
Matching == {c \in Cves : job.last <= nvd[c] /\ nvd[c] <= job.began}

Page ==
  {c \in Matching :
     LET rank == Cardinality({d \in Matching : d < c})
     IN  job.index <= rank /\ rank < job.index + PageSize}

Collected == [c \in Cves |-> IF c \in Page THEN nvd[c] ELSE job.got[c]]

(* recover_gap fetches one page; the first page's total decides how many.  *)
FetchPage ==
  /\ job.pc = "page"
  /\ LET total == IF job.total = Absent THEN Cardinality(Matching) ELSE job.total
         index == job.index + PageSize
     IN  IF index < total
         THEN job' = [job EXCEPT !.got = Collected, !.index = index, !.total = total]
         ELSE IF Collected = Nothing THEN Return ELSE Transform(Collected)
  /\ UNCHANGED <<world, table, ckpt, fails>>

(* batch_put_items: an unconditional put of the next batch. *)
Put(c) == table' = [table EXCEPT ![c] = job.got[c]]

WriteBatch ==
  /\ job.pc = "write"
  /\ job.used < Capacity
  /\ \E c \in job.left :
       /\ \A d \in job.left : c <= d
       /\ Put(c)
       /\ job' = [job EXCEPT !.left = @ \ {c}, !.used = @ + 1]
  /\ UNCHANGED <<world, ckpt, fails>>

(* The timeout buffer is reached before the next batch, because there are  *)
(* more batches than an invocation can write or because the table was slow *)
(* this time.                                                              *)
TimeOut ==
  /\ job.pc = "write" /\ job.left # {}
  /\ \/ job.used >= Capacity /\ UNCHANGED fails
     \/ "slow" \in Faults /\ fails < MaxFails /\ fails' = fails + 1
  /\ Return
  /\ UNCHANGED <<world, table, ckpt>>

(* Slips at the end: the checkpoint moves although every item was skipped, *)
(* it moves to the present, and the hash is taken from the META file when  *)
(* the checkpoint is saved.                                                *)
NewCheckpoint_always == [ts |-> job.high, hash |-> job.hash]

NewCheckpoint_now ==
  IF job.used > 0 THEN [ts |-> now, hash |-> job.hash] ELSE ckpt

NewCheckpoint_rehash ==
  IF job.used > 0 THEN [ts |-> job.high, hash |-> feed.at] ELSE ckpt

(* All batches are written: the checkpoint moves to the newest item, if    *)
(* there was one.                                                          *)
NewCheckpoint ==
  IF job.used > 0 THEN [ts |-> job.high, hash |-> job.hash] ELSE ckpt

Save ==
  /\ job.pc = "write" /\ job.left = {}
  /\ ckpt' = NewCheckpoint
  /\ Return
  /\ UNCHANGED <<world, table, fails>>

-----------------------------------------------------------------------------
(* Failures: every one of them returns without touching the checkpoint.    *)
(* A batch that landed before its WriteError is a WriteBatch and then a    *)
(* WriteFails.                                                             *)

Fail(kind, at) ==
  /\ kind \in Faults /\ fails < MaxFails
  /\ job.pc \in at
  /\ fails' = fails + 1
  /\ Return
  /\ UNCHANGED <<world, table, ckpt>>

MetaFails     == Fail("fetch", {"meta"})
DownloadFails == Fail("fetch", {"download"})
PageFails     == Fail("fetch", {"page"})
WriteFails    == job.left # {} /\ Fail("write", {"write"})
SaveFails     == job.left = {} /\ Fail("write", {"write"})
Killed        == Fail("killed", {"meta", "download", "page", "write"})

-----------------------------------------------------------------------------
Sync == \/ Start \/ FetchMeta \/ Download \/ FetchPage
        \/ WriteBatch \/ TimeOut \/ Save

Failure == \/ MetaFails \/ DownloadFails \/ PageFails
           \/ WriteFails \/ SaveFails \/ Killed

Next ==
  \/ \E S \in SUBSET Cves : Modify(S)
  \/ PublishFeed
  \/ Sync
  \/ Failure

Spec == Init /\ [][Next]_vars

(* The schedule fires again and again, an invocation that does not fail    *)
(* goes on, and the NVD keeps publishing.                                  *)
Fairness == WF_vars(Sync) /\ WF_vars(PublishFeed)

FairSpec == Spec /\ Fairness

-----------------------------------------------------------------------------
(* Properties. *)

TypeOK ==
  /\ now \in Nat
  /\ nvd \in [Cves -> Nat]
  /\ feed \in [at : Nat, items : Listing]
  /\ table \in [Cves -> Version]
  /\ ckpt \in [ts : Nat, hash : Version]
  /\ job \in Job
  /\ fails \in Nat

(* No change is lost: whatever the NVD changed up to the checkpoint is in  *)
(* the table, however feed publications, invocations, failures and the     *)
(* switch to gap recovery interleave.  Nothing looks at those changes      *)
(* again once the checkpoint has passed them.                              *)
CheckpointCovers ==
  \A c \in Cves :
    nvd[c] <= ckpt.ts /\ <<c, nvd[c]>> \notin Malformed => table[c] = nvd[c]

(* The early exit on an unchanged META hash skips no work: of the feed     *)
(* with the stored hash nothing that can be stored is newer than the       *)
(* checkpoint, although the hash is read before the feed and a new feed    *)
(* may be published between.                                               *)
EarlyExitSafe ==
  ckpt.hash = feed.at => Storable(Newer(feed.items, ckpt.ts)) = {}

(* A put never replaces a record by an older version of it, although the   *)
(* put is unconditional and the feed may be older than what a failed       *)
(* recovery took from the API.  It needs the feed not to stall.            *)
NeverOlder == [][\A c \in Cves : table'[c] >= table[c]]_vars

(* The table with the checkpoint as its horizon is a mirror of the NVD.    *)
Copy == INSTANCE Mirror WITH horizon <- ckpt.ts
MirrorSpec == Copy!Spec

(* Once the NVD stops changing and invocations stop failing, the table     *)
(* catches up with it for good: every failed invocation is made good by a  *)
(* later one.                                                              *)
UpToDate ==
  \A c \in Cves : <<c, nvd[c]>> \notin Malformed => table[c] = nvd[c]
CatchesUp == <>[]UpToDate
=============================================================================

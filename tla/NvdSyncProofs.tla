--------------------------- MODULE NvdSyncProofs ---------------------------
(* Theorems about the sync, alone and next to the backfill, for any set of *)
(* CVEs, any window and thresholds and every behaviour of the NVD, of the  *)
(* operators and of failures.                                              *)
EXTENDS NvdBackfill, FiniteSetTheorems, TLAPS

(* What else is known of the invocation's registers. *)
JobShape ==
  /\ job.pc \in {"meta", "download", "page"} =>
       job.left = {} /\ job.used = 0 /\ job.high = Absent
  /\ job.pc = "write" /\ (job.left # {} \/ job.used > 0) => job.high \in Nat

TypeInv == TypeOK /\ JobShape

(* The same before anything is synced, when there may be no checkpoint.    *)
Registers ==
  /\ now \in Nat
  /\ nvd \in [Cves -> Nat]
  /\ feed \in [at : Nat, items : Listing]
  /\ table \in [Cves -> Version]
  /\ ckpt \in [ts : Version, hash : Version]
  /\ job \in Job
  /\ fails \in Nat
  /\ JobShape

LEMMA NothingType == Nothing \in Listing
BY DEF Nothing, Listing, Version

LEMMA IdleType == Idle \in Job /\ Idle.pc = "idle"
BY NothingType DEF Idle, Job, Version, Absent, NoHash

LEMMA NewerType ==
  ASSUME NEW items \in Listing, NEW ts
  PROVE  Newer(items, ts) \in Listing
BY DEF Newer, Listing, Version, Absent

LEMMA CollectedType ==
  ASSUME nvd \in [Cves -> Nat], job.got \in Listing
  PROVE  Collected \in Listing
BY DEF Collected, Listing, Version

(* What Transform leaves in the registers. *)
LEMMA TransformEffect ==
  ASSUME job \in Job, NEW items \in Listing, Transform(items)
  PROVE  /\ job'.pc = "write" /\ job'.got = items
         /\ job'.began = job.began /\ job'.last = job.last
         /\ job'.used = job.used /\ job' \in Job
         /\ \/ Storable(items) = {} /\ job'.left = job.left
               /\ job'.high = job.high
            \/ /\ job'.left = Storable(items)
               /\ \E c \in Storable(items) :
                    /\ job'.high = items[c] /\ items[c] \in Nat
                    /\ \A d \in Storable(items) : items[d] <= items[c]
<1>1. CASE Storable(items) = {}
  BY <1>1 DEF Transform, Job
<1>2. CASE Storable(items) # {}
  <2>1. PICK c \in Storable(items) :
          /\ \A d \in Storable(items) : items[d] <= items[c]
          /\ job' = [job EXCEPT !.pc = "write", !.got = items,
                                !.left = Storable(items), !.high = items[c]]
    BY <1>2 DEF Transform
  <2>2. items[c] \in Nat /\ Storable(items) \in SUBSET Cves
    BY DEF Storable, Listing, Version
  <2>3. job' \in Job
    BY <2>1, <2>2 DEF Job, Version
  <2> QED BY <2>1, <2>2, <2>3 DEF Job
<1> QED BY <1>1, <1>2

LEMMA TypeInit == Init => TypeInv
BY SyncAssumption, NothingType, IdleType
   DEF Init, TypeInv, TypeOK, JobShape, Listing, Version, Absent, NoHash

LEMMA RegistersStep == Registers /\ [Next]_vars => Registers'
<1> SUFFICES ASSUME Registers, [Next]_vars
             PROVE  Registers'
  OBVIOUS
<1> USE DEF Registers
<1>1. ASSUME NEW S \in SUBSET Cves, Modify(S) PROVE Registers'
  BY <1>1 DEF Modify, JobShape
<1>2. CASE PublishFeed
  <2>1. feed' \in [at : Nat, items : Listing]
    BY <1>2 DEF PublishFeed, Listing, Version, Absent
  <2> QED BY <1>2, <2>1 DEF PublishFeed, JobShape
<1>3. CASE Start
  <2>1. PICK read \in CheckpointReads :
          job' = [Idle EXCEPT
                    !.pc = IF SyncMode(read.ts) = "normal" THEN "meta" ELSE "page",
                    !.began = now, !.last = read.ts, !.stored = read.hash]
    BY <1>3 DEF Start
  <2>2. read.ts \in Version /\ read.hash \in Version
    BY DEF CheckpointReads, Version, Absent, NoHash
  <2>3. job' \in Job
    BY <2>1, <2>2, IdleType DEF Job
  <2>4. job'.left = {} /\ job'.used = 0 /\ job'.high = Absent /\ job'.pc # "write"
    BY <2>1 DEF Idle
  <2> QED BY <1>3, <2>3, <2>4 DEF Start, JobShape, world
<1>4. CASE FetchMeta
  <2>1. CASE Return
    BY <1>4, <2>1, IdleType DEF FetchMeta, Return, JobShape, world
  <2>2. CASE job' = [job EXCEPT !.pc = "download", !.hash = feed.at]
    <3>1. job' \in Job /\ job'.pc = "download"
          /\ job'.left = job.left /\ job'.used = job.used /\ job'.high = job.high
      BY <2>2 DEF Job, Version
    <3> QED BY <1>4, <3>1 DEF FetchMeta, JobShape, world
  <2> QED BY <1>4, <2>1, <2>2 DEF FetchMeta
<1>5. CASE Download
  <2>1. CASE Return
    BY <1>5, <2>1, IdleType DEF Download, Return, JobShape, world
  <2>2. CASE Transform(Newer(feed.items, job.last))
    BY <1>5, <2>2, NewerType, TransformEffect DEF Download, JobShape, world
  <2> QED BY <1>5, <2>1, <2>2 DEF Download
<1>6. CASE FetchPage
  <2>1. CASE Return
    BY <1>6, <2>1, IdleType DEF FetchPage, Return, JobShape, world
  <2>2. CASE Transform(Collected)
    <3>1. Collected \in Listing
      BY CollectedType DEF Job
    <3> QED BY <1>6, <2>2, <3>1, TransformEffect DEF FetchPage, JobShape, world
  <2>3. ASSUME NEW total, NEW index,
               total = IF job.total = Absent THEN Cardinality(Matching) ELSE job.total,
               index = job.index + PageSize, index < total,
               job' = [job EXCEPT !.got = Collected, !.index = index, !.total = total]
        PROVE  Registers'
    <3>1. Collected \in Listing
      BY CollectedType DEF Job
    <3>2. IsFiniteSet(Matching)
      BY FS_Subset, SyncAssumption DEF Matching
    <3>3. total \in Version /\ index \in Nat
      BY <2>3, <3>2, FS_CardinalityType, SyncAssumption DEF Job, Version
    <3>4. job' \in Job
      BY <2>3, <3>1, <3>3 DEF Job
    <3> QED BY <1>6, <2>3, <3>4 DEF FetchPage, JobShape, Job, world
  <2> QED BY <1>6, <2>1, <2>2, <2>3 DEF FetchPage
<1>7. CASE WriteBatch
  <2>1. PICK c \in job.left :
          /\ Put(c)
          /\ job' = [job EXCEPT !.left = @ \ {c}, !.used = @ + 1]
    BY <1>7 DEF WriteBatch
  <2>2. table' \in [Cves -> Version]
    BY <2>1 DEF Put, Job, Listing
  <2>3. job.used + 1 \in Nat /\ job.left \ {c} \in SUBSET Cves
    BY DEF Job
  <2>4. job' = [job EXCEPT !.left = job.left \ {c}, !.used = job.used + 1]
    BY <2>1
  <2>5. job' \in Job /\ job'.pc = job.pc /\ job'.high = job.high
    BY <2>3, <2>4 DEF Job
  <2> QED BY <1>7, <2>2, <2>5 DEF WriteBatch, JobShape, world
<1>8. CASE TimeOut
  BY <1>8, IdleType DEF TimeOut, Return, JobShape, world
<1>9. CASE Save
  <2>1. ckpt' \in [ts : Version, hash : Version]
    BY <1>9 DEF Save, NewCheckpoint, JobShape, Job, Version
  <2> QED BY <1>9, <2>1, IdleType DEF Save, Return, JobShape, world
<1>10. CASE Failure
  BY <1>10, IdleType
     DEF Failure, MetaFails, DownloadFails, PageFails, WriteFails, SaveFails,
         Killed, Fail, Return, JobShape, world
<1>11. CASE UNCHANGED vars
  BY <1>11 DEF vars, JobShape
<1> QED
  BY <1>1, <1>2, <1>3, <1>4, <1>5, <1>6, <1>7, <1>8, <1>9, <1>10, <1>11
     DEF Next, Sync

(* The checkpoint item, once written, has a time.                          *)
LEMMA CheckpointStays ==
  Registers /\ ckpt.ts \in Nat /\ [Next]_vars => ckpt'.ts \in Nat
<1> SUFFICES ASSUME Registers, ckpt.ts \in Nat, [Next]_vars
             PROVE  ckpt'.ts \in Nat
  OBVIOUS
<1>1. CASE UNCHANGED ckpt
  BY <1>1
<1>2. CASE Save
  BY <1>2 DEF Save, NewCheckpoint, Registers, JobShape, Job
<1> QED
  BY <1>1, <1>2
     DEF Next, Sync, Failure, Modify, PublishFeed, Start, FetchMeta, Download, FetchPage,
         WriteBatch, TimeOut, MetaFails, DownloadFails, PageFails, WriteFails, SaveFails,
         Killed, Fail, vars

LEMMA TypeStep == TypeInv /\ [Next]_vars => TypeInv'
<1>1. ASSUME TypeInv PROVE Registers /\ ckpt.ts \in Nat
  BY <1>1 DEF TypeInv, TypeOK, Registers, Version
<1>2. Registers' /\ ckpt'.ts \in Nat => TypeInv'
  BY DEF TypeInv, TypeOK, Registers
<1> QED BY <1>1, <1>2, RegistersStep, CheckpointStays

(* The registers of an invocation and the state it shares with the NVD and *)
(* with its successors have their types, whatever fails.                   *)
THEOREM TypeCorrect == Spec => []TypeOK
<1>1. TypeInv => TypeOK
  BY DEF TypeInv
<1> QED BY <1>1, TypeInit, TypeStep, PTL DEF Spec

-----------------------------------------------------------------------------
(* What the sync needs in order to lose no change: a failed read of the    *)
(* checkpoint does not pass for a first run; the feed covers the longest   *)
(* gap that is still synced from it and the time until it is downloaded;   *)
(* and the NVD answers a recovery on a single page.                        *)
ReadsWork == "read" \notin Faults
FeedCoversGap == FeedWindow + 1 >= GapThreshold + Span
OnePage == Cardinality(Cves) <= PageSize

Premises == ReadsWork /\ FeedCoversGap /\ OnePage

(* Nothing is dated in the future. *)
Clock == feed.at <= now /\ ckpt.ts <= now /\ \A c \in Cves : nvd[c] <= now

(* The feed lists what changed in its window before it was published. *)
FeedCurrent ==
  \A c \in Cves :
    /\ feed.items[c] <= nvd[c] /\ feed.items[c] <= feed.at
    /\ nvd[c] <= feed.at /\ nvd[c] > feed.at - FeedWindow
         => feed.items[c] = nvd[c]

(* The checkpoint an invocation read is the stored one until it saves.     *)
CheckpointHeld ==
  job.pc # "idle" => /\ job.last = ckpt.ts /\ job.last <= job.began
                     /\ job.began <= now /\ now <= job.began + Span

GapSmall == job.pc \in {"meta", "download"} => job.began - job.last < GapThreshold

FirstPage ==
  job.pc = "page" => job.index = 0 /\ job.total = Absent /\ job.got = Nothing

(* The items of an invocation that writes are recent enough, and complete  *)
(* up to the checkpoint it is going to save.                               *)
BatchComplete ==
  job.pc = "write" =>
    /\ job.left \subseteq Storable(job.got)
    /\ job.high <= now
    /\ job.left # {} \/ job.used > 0 => job.last <= job.high
    /\ \A c \in Cves :
         /\ job.got[c] <= nvd[c]
         /\ job.got[c] # Absent => job.last <= job.got[c]
         /\ job.last < nvd[c] /\ nvd[c] <= job.high => job.got[c] = nvd[c]
         /\ c \in Storable(job.got) \ job.left => table[c] = job.got[c]

CoverInv ==
  /\ TypeInv /\ Clock /\ FeedCurrent /\ CheckpointHeld /\ GapSmall /\ FirstPage
  /\ BatchComplete /\ CheckpointCovers

LEMMA CoverInit == Init => CoverInv
<1> SUFFICES ASSUME Init PROVE CoverInv
  OBVIOUS
<1>1. TypeInv
  BY TypeInit
<1> QED
  BY <1>1, SyncAssumption
     DEF Init, CoverInv, Clock, FeedCurrent, CheckpointHeld, GapSmall, FirstPage,
         BatchComplete, CheckpointCovers, Idle

(* With one page everything the API matches is on the first one. *)
LEMMA FirstPageIsAll ==
  ASSUME OnePage, job.index = 0
  PROVE  Page = Matching
<1>1. ASSUME NEW c \in Matching
      PROVE  LET rank == Cardinality({d \in Matching : d < c})
             IN  job.index <= rank /\ rank < job.index + PageSize
  <2> DEFINE before == {d \in Matching : d < c}
  <2>1. c \in Cves /\ c \notin before /\ before \in SUBSET (Cves \ {c})
    BY SyncAssumption DEF Matching
  <2>2. IsFiniteSet(Cves \ {c}) /\ Cardinality(Cves \ {c}) = Cardinality(Cves) - 1
    BY <2>1, FS_RemoveElement, SyncAssumption
  <2>3. Cardinality(before) <= Cardinality(Cves \ {c}) /\ IsFiniteSet(before)
    BY <2>1, <2>2, FS_Subset
  <2>4. Cardinality(before) \in Nat /\ Cardinality(Cves) \in Nat
    BY <2>3, FS_CardinalityType, SyncAssumption
  <2> QED BY <2>2, <2>3, <2>4, SyncAssumption DEF OnePage
<1> QED BY <1>1 DEF Page

LEMMA FirstPageHoldsAll ==
  ASSUME OnePage
  PROVE  ~(0 + PageSize < Cardinality(Matching))
<1>1. Matching \in SUBSET Cves
  BY DEF Matching
<1>2. Cardinality(Matching) <= Cardinality(Cves) /\ IsFiniteSet(Matching)
  BY <1>1, FS_Subset, SyncAssumption
<1>3. Cardinality(Matching) \in Nat /\ Cardinality(Cves) \in Nat
  BY <1>2, FS_CardinalityType, SyncAssumption
<1> QED BY <1>2, <1>3, SyncAssumption DEF OnePage

(* An invocation turns to writing with complete items when what it writes  *)
(* is complete up to some past time that no item exceeds.                  *)
LEMMA TransformComplete ==
  ASSUME TypeInv, Clock, job.pc \in {"download", "page"}, job.last \in Nat,
         UNCHANGED <<world, table, ckpt>>,
         NEW items \in Listing, NEW until \in Nat, until <= now,
         \A c \in Cves :
           /\ items[c] <= nvd[c]
           /\ items[c] # Absent => job.last <= items[c] /\ items[c] <= until
           /\ job.last < nvd[c] /\ nvd[c] <= until => items[c] = nvd[c],
         Transform(items)
  PROVE  BatchComplete'
<1> USE DEF TypeInv, TypeOK
<1>1. /\ job'.pc = "write" /\ job'.got = items /\ job'.last = job.last
      /\ job'.used = job.used
      /\ \/ Storable(items) = {} /\ job'.left = job.left /\ job'.high = job.high
         \/ /\ job'.left = Storable(items)
            /\ \E c \in Storable(items) : job'.high = items[c] /\ items[c] \in Nat
  BY TransformEffect
<1>2. job.left = {} /\ job.used = 0 /\ job.high = Absent
  BY DEF JobShape
<1>3. job'.left = Storable(items)
  BY <1>1, <1>2
<1>4. CASE Storable(items) = {}
  <2>1. Absent <= now /\ \A c \in Cves : ~(nvd[c] <= Absent)
    BY DEF Absent
  <2> QED BY <1>1, <1>2, <1>3, <1>4, <2>1 DEF BatchComplete, world
<1>5. CASE Storable(items) # {}
  <2>1. PICK c \in Storable(items) : job'.high = items[c] /\ items[c] \in Nat
    BY <1>1, <1>5
  <2>2. c \in Cves /\ items[c] # Absent
    BY DEF Storable
  <2>3. job.last <= job'.high /\ job'.high <= until /\ job'.high \in Nat
    BY <2>1, <2>2
  <2>4. ASSUME NEW d \in Cves, job.last < nvd[d], nvd[d] <= job'.high
        PROVE  items[d] = nvd[d]
    BY <2>3, <2>4
  <2> QED
    BY <1>1, <1>3, <2>3, <2>4 DEF BatchComplete, world, Storable
<1> QED BY <1>4, <1>5

(* The feed is complete up to its publication, ... *)
LEMMA DownloadComplete ==
  ASSUME Premises, CoverInv, job.pc = "download", UNCHANGED <<world, table, ckpt>>,
         Transform(Newer(feed.items, job.last))
  PROVE  BatchComplete'
<1> DEFINE items == Newer(feed.items, job.last)
<1> USE DEF CoverInv, TypeInv, TypeOK
<1>1. items \in Listing /\ job.last \in Nat /\ job.began \in Nat /\ feed.at \in Nat
  BY NewerType DEF CheckpointHeld, Job
<1>2. ASSUME NEW c \in Cves
      PROVE  /\ items[c] <= nvd[c]
             /\ items[c] # Absent => job.last <= items[c] /\ items[c] <= feed.at
             /\ job.last < nvd[c] /\ nvd[c] <= feed.at => items[c] = nvd[c]
  <2>1. /\ feed.items[c] <= nvd[c] /\ feed.items[c] <= feed.at
        /\ nvd[c] <= feed.at /\ nvd[c] > feed.at - FeedWindow
             => feed.items[c] = nvd[c]
    BY DEF FeedCurrent
  <2>2. /\ feed.items[c] \in Version /\ nvd[c] \in Nat
        /\ feed.at - FeedWindow <= job.last
    BY <1>1, SyncAssumption
       DEF Listing, Premises, FeedCoversGap, GapSmall, CheckpointHeld, Clock
  <2>3. items[c] = IF feed.items[c] > job.last THEN feed.items[c] ELSE Absent
    BY DEF Newer
  <2> QED BY <1>1, <2>1, <2>2, <2>3, SyncAssumption DEF Version, Absent
<1> HIDE DEF items
<1> QED BY <1>1, <1>2, TransformComplete DEF Clock, items

(* ... and the only page is complete up to the beginning of the recovery.  *)
LEMMA RecoveryComplete ==
  ASSUME Premises, CoverInv, job.pc = "page", UNCHANGED <<world, table, ckpt>>,
         Transform(Collected)
  PROVE  BatchComplete'
<1> USE DEF CoverInv, TypeInv, TypeOK
<1>1. Collected \in Listing /\ job.last \in Nat /\ job.began \in Nat
      /\ job.began <= now
  BY CollectedType DEF CheckpointHeld, Job
<1>2. Page = Matching
  BY FirstPageIsAll DEF FirstPage, Premises
<1>3. ASSUME NEW c \in Cves
      PROVE  /\ Collected[c] <= nvd[c]
             /\ Collected[c] # Absent
                  => job.last <= Collected[c] /\ Collected[c] <= job.began
             /\ job.last < nvd[c] /\ nvd[c] <= job.began => Collected[c] = nvd[c]
  <2>1. Collected[c] = IF c \in Matching THEN nvd[c] ELSE Absent
    BY <1>2 DEF Collected, FirstPage, Nothing
  <2>2. c \in Matching <=> job.last <= nvd[c] /\ nvd[c] <= job.began
    BY DEF Matching
  <2> QED BY <1>1, <2>1, <2>2 DEF Absent
<1> QED BY <1>1, <1>3, TransformComplete

LEMMA CoverStep == Premises /\ CoverInv /\ [Next]_vars => CoverInv'
<1> SUFFICES ASSUME Premises, CoverInv, [Next]_vars
             PROVE  CoverInv'
  OBVIOUS
<1>0. TypeInv /\ TypeInv'
  BY TypeStep DEF CoverInv
<1> USE <1>0 DEF CoverInv, TypeOK, TypeInv
<1>1. ASSUME NEW S \in SUBSET Cves, Modify(S) PROVE CoverInv'
  <2>1. UNCHANGED <<feed, table, ckpt, job>> /\ now' = now + 1
        /\ nvd' = [c \in Cves |-> IF c \in S THEN now + 1 ELSE nvd[c]]
    BY <1>1 DEF Modify
  <2>2. Clock' /\ FeedCurrent'
    BY <2>1, SyncAssumption DEF Clock, FeedCurrent, Listing, Version, Absent
  <2>3. CheckpointHeld' /\ GapSmall' /\ FirstPage'
    BY <1>1, <2>1, SyncAssumption DEF Modify, CheckpointHeld, GapSmall, FirstPage, Job
  <2>4. BatchComplete'
    <3>1. job.pc = "write" => job.high <= now' /\ job.high < now'
      BY <2>1 DEF BatchComplete, Job, Version, Absent
    <3>2. ASSUME NEW c \in Cves
          PROVE  nvd[c] <= nvd'[c] /\ nvd'[c] \in {nvd[c], now'}
      BY <2>1 DEF Clock
    <3>3. ASSUME NEW c \in Cves, job.pc = "write"
          PROVE  /\ job.got[c] <= nvd'[c]
                 /\ job.last < nvd'[c] /\ nvd'[c] <= job.high => job.got[c] = nvd'[c]
      <4>1. job.got[c] \in Version /\ job.high \in Version /\ nvd'[c] \in Nat
        BY <2>1 DEF Job, Listing
      <4> QED BY <3>1, <3>2, <3>3, <4>1 DEF BatchComplete, Version, Absent
    <3> QED BY <2>1, <3>1, <3>3 DEF BatchComplete, Storable
  <2>5. CheckpointCovers'
    BY <2>1 DEF CheckpointCovers, Clock
  <2> QED BY <2>2, <2>3, <2>4, <2>5
<1>2. CASE PublishFeed
  <2>1. UNCHANGED <<now, nvd, table, ckpt, job>> /\ feed'.at = now
        /\ feed'.items = [c \in Cves |-> IF nvd[c] > now - FeedWindow
                                         THEN nvd[c] ELSE Absent]
    BY <1>2 DEF PublishFeed
  <2>2. Clock' /\ FeedCurrent'
    BY <2>1, SyncAssumption DEF Clock, FeedCurrent, Absent
  <2> QED
    BY <2>1, <2>2 DEF CheckpointHeld, GapSmall, FirstPage, BatchComplete,
                      Storable, CheckpointCovers
<1>3. CASE UNCHANGED <<world, table, ckpt>> /\ job' = Idle
  BY <1>3 DEF Idle, world, Clock, FeedCurrent, CheckpointHeld, GapSmall, FirstPage,
              BatchComplete, CheckpointCovers
<1>4. CASE Start
  <2>1. job' = [Idle EXCEPT
                  !.pc = IF SyncMode(ckpt.ts) = "normal" THEN "meta" ELSE "page",
                  !.began = now, !.last = ckpt.ts, !.stored = ckpt.hash]
    BY <1>4 DEF Start, CheckpointReads, Premises, ReadsWork
  <2>2. /\ job'.pc = IF SyncMode(ckpt.ts) = "normal" THEN "meta" ELSE "page"
        /\ job'.began = now /\ job'.last = ckpt.ts /\ job'.got = Nothing
        /\ job'.index = 0 /\ job'.total = Absent
    BY <2>1 DEF Idle
  <2>3. SyncMode(ckpt.ts) = "normal" => now - ckpt.ts < GapThreshold
    BY SyncAssumption DEF SyncMode, Absent
  <2> QED
    BY <1>4, <2>2, <2>3, SyncAssumption
       DEF Start, world, Clock, FeedCurrent, CheckpointHeld, GapSmall, FirstPage,
           BatchComplete, CheckpointCovers
<1>5. CASE FetchMeta
  <2>1. CASE Return
    BY <1>5, <2>1, <1>3 DEF FetchMeta, Return
  <2>2. CASE job' = [job EXCEPT !.pc = "download", !.hash = feed.at]
    <3>1. job'.pc = "download" /\ job'.began = job.began /\ job'.last = job.last
      BY <2>2 DEF Job
    <3> QED
      BY <1>5, <3>1 DEF FetchMeta, world, Clock, FeedCurrent, CheckpointHeld,
                        GapSmall, FirstPage, BatchComplete, CheckpointCovers
  <2> QED BY <1>5, <2>1, <2>2 DEF FetchMeta
<1>6. ASSUME job.pc # "idle", UNCHANGED <<world, table, ckpt>>, BatchComplete',
             job'.pc = "write" /\ job'.last = job.last /\ job'.began = job.began
      PROVE  CoverInv'
  BY <1>6 DEF world, Clock, FeedCurrent, CheckpointHeld, GapSmall, FirstPage,
              CheckpointCovers
<1>7. CASE Download
  <2>1. CASE Return
    BY <1>7, <2>1, <1>3 DEF Download, Return
  <2>2. CASE Transform(Newer(feed.items, job.last))
    <3>1. Newer(feed.items, job.last) \in Listing
      BY NewerType
    <3> QED BY <1>6, <1>7, <2>2, <3>1, TransformEffect, DownloadComplete DEF Download
  <2> QED BY <1>7, <2>1, <2>2 DEF Download
<1>8. CASE FetchPage
  <2>1. CASE Return
    BY <1>8, <2>1, <1>3 DEF FetchPage, Return
  <2>2. CASE Transform(Collected)
    <3>1. Collected \in Listing
      BY CollectedType DEF Job
    <3> QED BY <1>6, <1>8, <2>2, <3>1, TransformEffect, RecoveryComplete DEF FetchPage
  <2>3. job.index = 0 /\ job.total = Absent
    BY <1>8 DEF FetchPage, FirstPage
  <2>4. ~(0 + PageSize < Cardinality(Matching))
    BY FirstPageHoldsAll DEF Premises
  <2> QED BY <1>8, <2>1, <2>2, <2>3, <2>4 DEF FetchPage
<1>9. CASE WriteBatch
  <2>1. PICK c \in job.left :
          /\ table' = [table EXCEPT ![c] = job.got[c]]
          /\ job' = [job EXCEPT !.left = job.left \ {c}, !.used = job.used + 1]
    BY <1>9 DEF WriteBatch, Put
  <2>2. /\ job'.pc = job.pc /\ job'.got = job.got /\ job'.last = job.last
        /\ job'.began = job.began /\ job'.high = job.high
        /\ job'.left = job.left \ {c}
    BY <2>1 DEF Job
  <2>3. job.pc = "write" /\ c \in Storable(job.got) /\ c \in Cves
        /\ UNCHANGED <<world, ckpt>>
    BY <1>9 DEF WriteBatch, BatchComplete, Storable
  <2>4. BatchComplete'
    BY <2>1, <2>2, <2>3 DEF BatchComplete, world, Storable, Job
  <2>5. nvd[c] <= ckpt.ts => job.got[c] = nvd[c]
    <3>1. job.got[c] # Absent /\ job.got[c] \in Version
      BY <2>3 DEF Storable, Job, Listing
    <3>2. job.last <= job.got[c] /\ job.got[c] <= nvd[c] /\ job.last = ckpt.ts
      BY <2>3, <3>1 DEF BatchComplete, CheckpointHeld
    <3> QED BY <2>3, <3>1, <3>2 DEF Version
  <2>6. CheckpointCovers'
    BY <2>1, <2>3, <2>5 DEF CheckpointCovers, world
  <2> QED
    BY <2>2, <2>3, <2>4, <2>6 DEF world, Clock, FeedCurrent, CheckpointHeld, GapSmall,
                                  FirstPage
<1>10. CASE TimeOut
  BY <1>10, <1>3 DEF TimeOut, Return
<1>11. CASE Save
  <2>1. job.pc = "write" /\ job.left = {} /\ job' = Idle /\ UNCHANGED <<world, table>>
    BY <1>11 DEF Save, Return
  <2>2. CASE job.used = 0
    BY <1>3, <1>11, <2>1, <2>2 DEF Save, NewCheckpoint
  <2>3. CASE job.used > 0
    <3>1. ckpt'.ts = job.high /\ job.last = ckpt.ts /\ job.high \in Nat
          /\ ckpt.ts <= job.high /\ job.high <= now
      BY <1>11, <2>1, <2>3
         DEF Save, NewCheckpoint, CheckpointHeld, JobShape, BatchComplete
    <3>2. ASSUME NEW c \in Cves, nvd[c] <= job.high, <<c, nvd[c]>> \notin Malformed
          PROVE  table[c] = nvd[c]
      <4>1. CASE nvd[c] <= ckpt.ts
        BY <3>2, <4>1 DEF CheckpointCovers
      <4>2. CASE ~(nvd[c] <= ckpt.ts)
        <5>1. job.got[c] = nvd[c]
          BY <2>1, <3>1, <3>2, <4>2 DEF BatchComplete
        <5>2. c \in Storable(job.got)
          BY <3>2, <5>1 DEF Storable, Absent
        <5> QED BY <2>1, <5>1, <5>2 DEF BatchComplete
      <4> QED BY <4>1, <4>2
    <3>3. CheckpointCovers' /\ Clock'
      BY <2>1, <3>1, <3>2 DEF CheckpointCovers, Clock, world
    <3> QED
      BY <2>1, <3>3 DEF Idle, world, FeedCurrent, CheckpointHeld, GapSmall, FirstPage,
                        BatchComplete
  <2> QED BY <2>2, <2>3 DEF Job
<1>12. CASE Failure
  BY <1>12, <1>3 DEF Failure, MetaFails, DownloadFails, PageFails, WriteFails,
                     SaveFails, Killed, Fail, Return
<1>13. CASE UNCHANGED vars
  BY <1>13 DEF vars, Clock, FeedCurrent, CheckpointHeld, GapSmall, FirstPage,
               BatchComplete, Storable, CheckpointCovers
<1> QED
  BY <1>1, <1>2, <1>4, <1>5, <1>7, <1>8, <1>9, <1>10, <1>11, <1>12, <1>13
     DEF Next, Sync

(* No change is lost: under the premises, whatever the NVD changed up to   *)
(* the checkpoint is in the table, for any number of CVEs and however      *)
(* publications, invocations and failures interleave.                      *)
THEOREM NoChangeLost == ASSUME Premises PROVE Spec => []CheckpointCovers
<1>1. CoverInv /\ [Next]_vars => CoverInv'
  BY CoverStep
<1>2. CoverInv => CheckpointCovers
  BY DEF CoverInv
<1> QED BY <1>1, <1>2, CoverInit, PTL DEF Spec

-----------------------------------------------------------------------------
(* The feed is a function of the records and of its time. *)
FeedExact ==
  \A c \in Cves :
    nvd[c] <= feed.at =>
      feed.items[c] = IF nvd[c] > feed.at - FeedWindow THEN nvd[c] ELSE Absent

HashesPast ==
  /\ feed.at <= now /\ \A c \in Cves : nvd[c] <= now
  /\ ckpt.hash <= feed.at
  /\ job.pc \in {"download", "write"} => job.hash <= feed.at
  /\ job.pc = "page" => job.hash = NoHash

(* If the feed an invocation writes is still the one with its hash, the    *)
(* checkpoint it is going to save leaves nothing of that feed.             *)
ExitPending ==
  job.pc = "write" /\ (job.left # {} \/ job.used > 0) /\ job.hash = feed.at =>
    /\ job.last <= job.high
    /\ \A c \in Storable(feed.items) :
         feed.items[c] > job.last => feed.items[c] <= job.high

ExitInv == TypeInv /\ FeedExact /\ HashesPast /\ ExitPending /\ EarlyExitSafe

LEMMA ExitInit == Init => ExitInv
<1> SUFFICES ASSUME Init PROVE ExitInv
  OBVIOUS
<1>1. TypeInv
  BY TypeInit
<1>2. FeedExact
  BY SyncAssumption DEF Init, FeedExact
<1>3. HashesPast /\ ExitPending /\ EarlyExitSafe
  BY DEF Init, HashesPast, ExitPending, EarlyExitSafe, Idle, NoHash
<1> QED BY <1>1, <1>2, <1>3 DEF ExitInv

(* What nothing newer is left of, for a checkpoint. *)
LEMMA NothingNewer ==
  ASSUME NEW items \in Listing, NEW ts \in Nat
  PROVE  Storable(Newer(items, ts)) = {} <=>
           \A c \in Storable(items) : items[c] <= ts
<1> DEFINE newer == Newer(items, ts)
<1>1. ASSUME NEW c \in Cves
      PROVE  /\ newer[c] = IF items[c] > ts THEN items[c] ELSE Absent
             /\ items[c] \in Version
             /\ items[c] > ts => items[c] # Absent
  BY DEF Newer, Listing, Version, Absent
<1>2. ASSUME NEW c \in Cves
      PROVE  c \in Storable(newer) <=> c \in Storable(items) /\ items[c] > ts
  BY <1>1, <1>2 DEF Storable
<1>3. ASSUME NEW c \in Cves PROVE items[c] > ts <=> ~(items[c] <= ts)
  BY <1>1 DEF Version, Absent
<1>4. Storable(newer) \subseteq Cves /\ Storable(items) \subseteq Cves
  BY DEF Storable
<1> HIDE DEF newer
<1>5. Storable(newer) = {} <=> \A c \in Storable(items) : items[c] <= ts
  BY <1>2, <1>3, <1>4
<1> QED BY <1>5 DEF newer

LEMMA ExitStep == ExitInv /\ [Next]_vars => ExitInv'
<1> SUFFICES ASSUME ExitInv, [Next]_vars
             PROVE  ExitInv'
  OBVIOUS
<1>0. TypeInv /\ TypeInv'
  BY TypeStep DEF ExitInv
<1> USE <1>0 DEF ExitInv, TypeOK, TypeInv
<1>1. ASSUME NEW S \in SUBSET Cves, Modify(S) PROVE ExitInv'
  BY <1>1 DEF Modify, FeedExact, HashesPast, ExitPending, EarlyExitSafe
<1>2. CASE PublishFeed
  <2>1. UNCHANGED <<now, nvd, table, ckpt, job>> /\ feed'.at = now
        /\ feed'.items = [c \in Cves |-> IF nvd[c] > now - FeedWindow
                                         THEN nvd[c] ELSE Absent]
    BY <1>2 DEF PublishFeed
  <2>2. FeedExact'
    BY <2>1 DEF FeedExact
  <2>3. HashesPast'
    <3>1. ckpt.hash <= now /\ (job.pc \in {"download", "write"} => job.hash <= now)
      BY DEF HashesPast, Version, Absent, Job
    <3> QED BY <2>1, <3>1 DEF HashesPast
  <2>4. feed.at = now => feed' = feed
    <3>1. ASSUME feed.at = now
          PROVE  feed'.items = feed.items
      <4>1. ASSUME NEW c \in Cves PROVE feed'.items[c] = feed.items[c]
        BY <2>1, <3>1 DEF FeedExact, HashesPast
      <4>2. feed.items \in [Cves -> Version] /\ feed'.items \in [Cves -> Version]
        BY DEF Listing
      <4> QED BY <4>1, <4>2
    <3> QED BY <2>1, <3>1
  <2>5. CASE feed.at = now
    BY <2>1, <2>2, <2>3, <2>4, <2>5 DEF ExitPending, EarlyExitSafe
  <2>6. CASE feed.at # now
    <3>1. ckpt.hash # now /\ (job.pc = "write" => job.hash # now)
      BY <2>6 DEF HashesPast, Version, Absent, Job
    <3>2. ExitPending'
      BY <2>1, <3>1 DEF ExitPending
    <3>3. EarlyExitSafe'
      BY <2>1, <3>1 DEF EarlyExitSafe
    <3> QED BY <2>2, <2>3, <3>2, <3>3
  <2> QED BY <2>5, <2>6
<1>3. CASE UNCHANGED <<world, table, ckpt>> /\ job' = Idle
  BY <1>3 DEF Idle, world, FeedExact, HashesPast, ExitPending, EarlyExitSafe
<1>4. CASE Start
  <2>1. PICK read \in CheckpointReads :
          job' = [Idle EXCEPT
                    !.pc = IF SyncMode(read.ts) = "normal" THEN "meta" ELSE "page",
                    !.began = now, !.last = read.ts, !.stored = read.hash]
    BY <1>4 DEF Start
  <2>2. job'.pc \in {"meta", "page"} /\ job'.hash = NoHash
    BY <2>1 DEF Idle
  <2> QED
    BY <1>4, <2>2 DEF Start, world, FeedExact, HashesPast, ExitPending, EarlyExitSafe
<1>5. CASE FetchMeta
  <2>1. CASE Return
    BY <1>5, <2>1, <1>3 DEF FetchMeta, Return
  <2>2. CASE job' = [job EXCEPT !.pc = "download", !.hash = feed.at]
    <3>1. job'.pc = "download" /\ job'.hash = feed.at
      BY <2>2 DEF Job
    <3> QED
      BY <1>5, <3>1 DEF FetchMeta, world, FeedExact, HashesPast, ExitPending,
                        EarlyExitSafe
  <2> QED BY <1>5, <2>1, <2>2 DEF FetchMeta
<1>6. CASE Download
  <2>1. CASE Return
    BY <1>6, <2>1, <1>3 DEF Download, Return
  <2>2. CASE Transform(Newer(feed.items, job.last))
    <3> DEFINE items == Newer(feed.items, job.last)
    <3>1. items \in Listing /\ feed.items \in Listing /\ job.last \in Version
      BY NewerType DEF Job
    <3>2. /\ job'.pc = "write" /\ job'.last = job.last /\ job'.hash = job.hash
          /\ job'.used = 0
          /\ \/ Storable(items) = {} /\ job'.left = {}
             \/ \E c \in Storable(items) :
                  /\ job'.high = items[c]
                  /\ \A d \in Storable(items) : items[d] <= items[c]
      <4>1. job.left = {} /\ job.used = 0
        BY <1>6 DEF Download, JobShape
      <4>2. job'.hash = job.hash
        BY <2>2 DEF Transform, Job
      <4> QED BY <2>2, <3>1, <4>1, <4>2, TransformEffect
    <3>3. ASSUME NEW c \in Storable(items)
          PROVE  job.last <= items[c]
      BY <3>1 DEF Storable, Newer, Listing, Version, Absent
    <3>4. ASSUME NEW c \in Storable(feed.items), feed.items[c] > job.last
          PROVE  c \in Storable(items) /\ items[c] = feed.items[c]
      BY <3>4 DEF Storable, Newer
    <3>5. ExitPending'
      BY <1>6, <3>2, <3>3, <3>4 DEF Download, world, ExitPending
    <3> QED
      BY <1>6, <3>2, <3>5 DEF Download, world, FeedExact, HashesPast, EarlyExitSafe
  <2> QED BY <1>6, <2>1, <2>2 DEF Download
<1>7. CASE FetchPage
  <2>1. CASE Return
    BY <1>7, <2>1, <1>3 DEF FetchPage, Return
  <2>2. CASE Transform(Collected)
    <3>1. Collected \in Listing
      BY CollectedType DEF Job
    <3>2. job'.pc = "write" /\ job'.hash = NoHash
      <4>1. job.hash = NoHash
        BY <1>7 DEF FetchPage, HashesPast
      <4>2. job'.hash = job.hash
        BY <2>2 DEF Transform, Job
      <4> QED BY <2>2, <3>1, <4>1, <4>2, TransformEffect
    <3>3. ExitPending'
      BY <1>7, <3>2 DEF FetchPage, world, ExitPending, NoHash
    <3> QED
      BY <1>7, <3>2, <3>3 DEF FetchPage, world, FeedExact, HashesPast, EarlyExitSafe,
                              NoHash
  <2>3. ASSUME NEW total, NEW index,
               job' = [job EXCEPT !.got = Collected, !.index = index, !.total = total]
        PROVE  ExitInv'
    <3>1. job'.pc = job.pc /\ job'.hash = job.hash
      BY <2>3 DEF Job
    <3> QED
      BY <1>7, <3>1 DEF FetchPage, world, FeedExact, HashesPast, ExitPending,
                        EarlyExitSafe
  <2> QED BY <1>7, <2>1, <2>2, <2>3 DEF FetchPage
<1>8. CASE WriteBatch
  <2>1. PICK c \in job.left :
          job' = [job EXCEPT !.left = job.left \ {c}, !.used = job.used + 1]
    BY <1>8 DEF WriteBatch
  <2>2. /\ job'.pc = job.pc /\ job'.hash = job.hash /\ job'.last = job.last
        /\ job'.high = job.high
    BY <2>1 DEF Job
  <2> QED
    BY <1>8, <2>1, <2>2 DEF WriteBatch, world, FeedExact, HashesPast, ExitPending,
                            EarlyExitSafe
<1>9. CASE TimeOut
  BY <1>9, <1>3 DEF TimeOut, Return
<1>10. CASE Save
  <2>1. job.pc = "write" /\ job' = Idle /\ UNCHANGED <<world, table>>
    BY <1>10 DEF Save, Return
  <2>2. CASE job.used = 0
    BY <1>3, <1>10, <2>1, <2>2 DEF Save, NewCheckpoint
  <2>3. CASE job.used > 0
    <3>1. ckpt'.ts = job.high /\ ckpt'.hash = job.hash /\ job.high \in Nat
      BY <1>10, <2>1, <2>3 DEF Save, NewCheckpoint, JobShape
    <3>2. ASSUME job.hash = feed.at, NEW c \in Storable(feed.items)
          PROVE  feed.items[c] <= job.high
      <4>1. feed.items[c] \in Version /\ job.last \in Version
        BY DEF Storable, Listing, Job
      <4> QED BY <2>1, <2>3, <3>1, <3>2, <4>1 DEF ExitPending, Version, Absent
    <3>3. EarlyExitSafe'
      <4>1. feed.items \in Listing
        OBVIOUS
      <4> QED BY <2>1, <3>1, <3>2, <4>1, NothingNewer DEF EarlyExitSafe, world
    <3> QED
      BY <2>1, <3>1, <3>3 DEF Idle, world, FeedExact, HashesPast, ExitPending
  <2> QED BY <2>2, <2>3 DEF Job
<1>11. CASE Failure
  BY <1>11, <1>3 DEF Failure, MetaFails, DownloadFails, PageFails, WriteFails,
                     SaveFails, Killed, Fail, Return
<1>12. CASE UNCHANGED vars
  BY <1>12 DEF vars, FeedExact, HashesPast, ExitPending, EarlyExitSafe
<1> QED
  BY <1>1, <1>2, <1>4, <1>5, <1>6, <1>7, <1>8, <1>9, <1>10, <1>11, <1>12
     DEF Next, Sync

(* The early exit on an unchanged META hash never skips work, whatever is  *)
(* read, published or fails in between.                                    *)
THEOREM EarlyExitIsSafe == Spec => []EarlyExitSafe
<1>1. ExitInv => EarlyExitSafe
  BY DEF ExitInv
<1> QED BY <1>1, ExitInit, ExitStep, PTL DEF Spec

-----------------------------------------------------------------------------
(* For records never to be replaced by older versions the feed must be     *)
(* regular as well.                                                        *)
NoStall == "stall" \notin Faults

FromFeed ==
  job.pc \in {"meta", "download"} \/ (job.pc = "write" /\ job.hash # NoHash)

FromApi == job.pc = "page" \/ (job.pc = "write" /\ job.hash = NoHash)

FeedFresh == now <= feed.at + 1 /\ (job.pc = "download" => job.hash # NoHash)

TablePast ==
  \A c \in Cves :
    table[c] <= nvd[c] /\ (table[c] > 0 => <<c, table[c]>> \notin Malformed)

(* The table is ahead of the feed only while no invocation may use the     *)
(* feed for what is ahead.                                                 *)
AheadOfFeed ==
  \A c \in Cves :
    table[c] > feed.at =>
      table[c] <= ckpt.ts \/ (now - ckpt.ts >= GapThreshold /\ ~FromFeed)

FeedAhead ==
  \A c \in Cves :
    table[c] <= feed.at /\ feed.items[c] # Absent => table[c] <= feed.items[c]

WrittenBefore ==
  job.pc # "idle" => \A c \in Cves : table[c] <= job.began \/ table[c] <= feed.at

GapLarge == FromApi => job.began - job.last >= GapThreshold

BatchNewer ==
  job.pc = "write" =>
    \A c \in Cves :
      /\ c \in job.left => table[c] <= job.got[c]
      /\ c \in Storable(job.got) => job.got[c] <= job.high
      /\ job.got[c] <= feed.at /\ feed.items[c] # Absent
           => job.got[c] <= feed.items[c]
      /\ job.hash # NoHash => job.got[c] <= feed.at
      /\ job.hash = NoHash =>
           /\ job.got[c] <= job.began
           /\ job.last < nvd[c] /\ nvd[c] <= job.began => job.got[c] = nvd[c]

OrderInv ==
  /\ CoverInv /\ ExitInv
  /\ FeedFresh /\ TablePast /\ AheadOfFeed /\ FeedAhead /\ WrittenBefore
  /\ GapLarge /\ BatchNewer

LEMMA OrderInit == Init => OrderInv
<1> SUFFICES ASSUME Init PROVE OrderInv
  OBVIOUS
<1>1. CoverInv /\ ExitInv
  BY CoverInit, ExitInit
<1> QED
  BY <1>1 DEF Init, OrderInv, FeedFresh, TablePast, AheadOfFeed, FeedAhead,
              WrittenBefore, GapLarge, FromApi, BatchNewer, Idle

(* Transform keeps the order when the items do. *)
LEMMA TransformOrdered ==
  ASSUME TypeInv, job.pc \in {"download", "page"}, UNCHANGED <<world, table, ckpt>>,
         NEW items \in Listing,
         \A c \in Cves :
           /\ items[c] # Absent => table[c] <= items[c]
           /\ items[c] <= feed.at /\ feed.items[c] # Absent
                => items[c] <= feed.items[c]
           /\ job.hash # NoHash => items[c] <= feed.at
           /\ job.hash = NoHash =>
                /\ items[c] <= job.began
                /\ job.last < nvd[c] /\ nvd[c] <= job.began => items[c] = nvd[c],
         Transform(items)
  PROVE  BatchNewer'
<1> USE DEF TypeInv, TypeOK
<1>1. /\ job'.pc = "write" /\ job'.got = items /\ job'.last = job.last
      /\ job'.began = job.began /\ job'.hash = job.hash
      /\ \/ Storable(items) = {} /\ job'.left = job.left
         \/ /\ job'.left = Storable(items)
            /\ \A d \in Storable(items) : items[d] <= job'.high
  <2>1. job'.hash = job.hash
    BY DEF Transform, Job
  <2> QED BY <2>1, TransformEffect
<1>2. job'.left = Storable(items)
  BY <1>1 DEF JobShape
<1> QED BY <1>1, <1>2 DEF BatchNewer, world, Storable

LEMMA OrderStep == Premises /\ NoStall /\ OrderInv /\ [Next]_vars => OrderInv'
<1> SUFFICES ASSUME Premises, NoStall, OrderInv, [Next]_vars
             PROVE  OrderInv'
  OBVIOUS
<1>0. TypeInv /\ TypeInv' /\ CoverInv' /\ ExitInv'
  BY CoverStep, ExitStep, TypeStep DEF OrderInv, CoverInv
<1> USE <1>0 DEF OrderInv, TypeOK, TypeInv
<1> DEFINE parts == /\ FeedFresh /\ TablePast /\ AheadOfFeed /\ FeedAhead
                    /\ WrittenBefore /\ GapLarge /\ BatchNewer
<1>1. ASSUME NEW S \in SUBSET Cves, Modify(S) PROVE OrderInv'
  <2>1. UNCHANGED <<feed, table, ckpt, job>> /\ now' = now + 1 /\ feed.at = now
        /\ nvd' = [c \in Cves |-> IF c \in S THEN now + 1 ELSE nvd[c]]
    BY <1>1 DEF Modify, NoStall
  <2>2. ASSUME NEW c \in Cves
        PROVE  /\ table[c] \in Version /\ nvd[c] \in Nat
               /\ table[c] <= nvd[c] /\ nvd[c] <= now
               /\ nvd'[c] \in {nvd[c], now + 1}
    BY <2>1 DEF TablePast, CoverInv, Clock
  <2>3. FeedFresh' /\ FeedAhead' /\ WrittenBefore' /\ GapLarge'
    BY <2>1 DEF FeedFresh, FeedAhead, WrittenBefore, GapLarge, FromApi
  <2>4. TablePast'
    BY <2>1, <2>2 DEF TablePast, Version, Absent
  <2>5. AheadOfFeed'
    BY <2>1, <2>2 DEF AheadOfFeed, Version, Absent
  <2>6. BatchNewer'
    <3>1. job.pc = "write" => job.began <= now /\ job.began \in Nat
      BY DEF CoverInv, CheckpointHeld, Job
    <3> QED BY <2>1, <2>2, <3>1 DEF BatchNewer, Storable
  <2> QED BY <2>3, <2>4, <2>5, <2>6
<1>2. CASE PublishFeed
  <2>1. UNCHANGED <<now, nvd, table, ckpt, job>> /\ feed'.at = now
        /\ feed'.items = [c \in Cves |-> IF nvd[c] > now - FeedWindow
                                         THEN nvd[c] ELSE Absent]
    BY <1>2 DEF PublishFeed
  <2>2. ASSUME NEW c \in Cves
        PROVE  /\ table[c] \in Version /\ nvd[c] \in Nat
               /\ table[c] <= nvd[c] /\ nvd[c] <= now
               /\ feed'.items[c] \in {Absent, nvd[c]}
    BY <2>1 DEF TablePast, CoverInv, Clock
  <2>3. FeedFresh' /\ TablePast' /\ GapLarge'
    BY <2>1 DEF FeedFresh, TablePast, GapLarge, FromApi
  <2>4. AheadOfFeed' /\ FeedAhead' /\ WrittenBefore'
    BY <2>1, <2>2 DEF AheadOfFeed, FeedAhead, WrittenBefore, Version, Absent
  <2>5. BatchNewer'
    <3>1. job.pc = "write" => \A c \in Cves : job.got[c] <= nvd[c]
      BY DEF CoverInv, BatchComplete
    <3>2. ASSUME NEW c \in Cves, job.pc = "write", job.hash # NoHash
          PROVE  job.got[c] <= now
      <4>1. job.got[c] \in Version
        BY DEF Job, Listing
      <4> QED BY <2>2, <3>1, <3>2, <4>1 DEF Version, Absent
    <3> QED BY <2>1, <2>2, <3>1, <3>2 DEF BatchNewer, Storable
  <2> QED BY <2>3, <2>4, <2>5
<1>3. CASE UNCHANGED <<world, table, ckpt>> /\ job' = Idle
  BY <1>3 DEF Idle, world, FeedFresh, TablePast, AheadOfFeed, FeedAhead,
              WrittenBefore, GapLarge, FromApi, FromFeed, BatchNewer
<1>4. CASE Start
  <2>1. job' = [Idle EXCEPT
                  !.pc = IF SyncMode(ckpt.ts) = "normal" THEN "meta" ELSE "page",
                  !.began = now, !.last = ckpt.ts, !.stored = ckpt.hash]
        /\ SyncMode(ckpt.ts) # "critical"
    BY <1>4 DEF Start, CheckpointReads, Premises, ReadsWork
  <2>2. /\ job'.pc = IF SyncMode(ckpt.ts) = "normal" THEN "meta" ELSE "page"
        /\ job'.began = now /\ job'.last = ckpt.ts /\ job'.hash = NoHash
    BY <2>1 DEF Idle
  <2>3. job'.pc = IF now - ckpt.ts < GapThreshold THEN "meta" ELSE "page"
    BY <2>1, <2>2, SyncAssumption DEF SyncMode, Absent
  <2>4. UNCHANGED <<now, nvd, feed, table, ckpt>>
    BY <1>4 DEF Start, world
  <2>5. FeedFresh' /\ TablePast' /\ FeedAhead' /\ BatchNewer'
    BY <2>3, <2>4 DEF FeedFresh, TablePast, FeedAhead, BatchNewer
  <2>6. AheadOfFeed'
    BY <2>3, <2>4, SyncAssumption DEF AheadOfFeed, FromFeed
  <2>7. WrittenBefore'
    <3>1. \A c \in Cves : table[c] \in Version /\ table[c] <= nvd[c] /\ nvd[c] <= now
      BY DEF TablePast, CoverInv, Clock
    <3> QED BY <2>2, <2>4, <3>1 DEF WrittenBefore, Version, Absent
  <2>8. GapLarge'
    BY <2>2, <2>3, <2>4, SyncAssumption DEF GapLarge, FromApi
  <2> QED BY <2>5, <2>6, <2>7, <2>8
<1>5. CASE FetchMeta
  <2>1. CASE Return
    BY <1>5, <2>1, <1>3 DEF FetchMeta, Return
  <2>2. CASE job' = [job EXCEPT !.pc = "download", !.hash = feed.at]
    <3>1. job'.pc = "download" /\ job'.hash = feed.at /\ job'.began = job.began
      BY <2>2 DEF Job
    <3> QED
      BY <1>5, <3>1 DEF FetchMeta, world, FeedFresh, TablePast, AheadOfFeed, FeedAhead,
           WrittenBefore, GapLarge, FromApi, FromFeed, BatchNewer, NoHash
  <2> QED BY <1>5, <2>1, <2>2 DEF FetchMeta
<1>6. ASSUME job.pc \in {"download", "page"}, UNCHANGED <<world, table, ckpt>>,
             BatchNewer', NEW items \in Listing, Transform(items)
      PROVE  OrderInv'
  <2>1. job'.pc = "write" /\ job'.hash = job.hash /\ job'.began = job.began
        /\ job'.last = job.last
    <3>1. job'.hash = job.hash
      BY <1>6 DEF Transform, Job
    <3> QED BY <1>6, <3>1, TransformEffect
  <2>2. (FromFeed' <=> FromFeed) /\ (FromApi' <=> FromApi)
    BY <1>6, <2>1 DEF FromFeed, FromApi, FeedFresh, ExitInv, HashesPast
  <2> QED
    BY <1>6, <2>1, <2>2 DEF world, FeedFresh, TablePast, AheadOfFeed, FeedAhead,
                            WrittenBefore, GapLarge
<1>7. CASE Download
  <2>1. CASE Return
    BY <1>7, <2>1, <1>3 DEF Download, Return
  <2>2. CASE Transform(Newer(feed.items, job.last))
    <3> DEFINE items == Newer(feed.items, job.last)
    <3>1. items \in Listing /\ job.hash # NoHash /\ job.last = ckpt.ts
          /\ job.pc = "download"
      BY <1>7, NewerType DEF Download, FeedFresh, CoverInv, CheckpointHeld
    <3>2. ASSUME NEW c \in Cves
          PROVE  /\ items[c] # Absent => table[c] <= items[c]
                 /\ feed.items[c] # Absent => items[c] <= feed.items[c]
                 /\ items[c] <= feed.at
      <4>1. /\ items[c] = IF feed.items[c] > ckpt.ts THEN feed.items[c] ELSE Absent
            /\ feed.items[c] \in Version /\ table[c] \in Version
            /\ feed.items[c] <= feed.at
        BY <3>1 DEF Newer, Listing, CoverInv, FeedCurrent
      <4>2. table[c] > feed.at => table[c] <= ckpt.ts
        BY <3>1 DEF AheadOfFeed, FromFeed
      <4>3. table[c] <= feed.at /\ feed.items[c] # Absent
              => table[c] <= feed.items[c]
        BY DEF FeedAhead
      <4> QED BY <4>1, <4>2, <4>3 DEF Version, Absent
    <3>3. UNCHANGED <<world, table, ckpt>>
      BY <1>7 DEF Download
    <3>4. BatchNewer'
      <4> HIDE DEF items
      <4> QED BY <2>2, <3>1, <3>2, <3>3, TransformOrdered DEF items
    <3> QED BY <1>6, <2>2, <3>1, <3>3, <3>4
  <2> QED BY <1>7, <2>1, <2>2 DEF Download
<1>8. CASE FetchPage
  <2>1. CASE Return
    BY <1>8, <2>1, <1>3 DEF FetchPage, Return
  <2>2. CASE Transform(Collected)
    <3>1. Collected \in Listing /\ job.hash = NoHash /\ job.pc = "page"
          /\ UNCHANGED <<world, table, ckpt>>
      BY <1>8, CollectedType DEF FetchPage, ExitInv, HashesPast, Job
    <3>2. Page = Matching
      BY <1>8, FirstPageIsAll DEF FetchPage, CoverInv, FirstPage, Premises
    <3>3. ASSUME NEW c \in Cves
          PROVE  /\ Collected[c] # Absent => table[c] <= Collected[c]
                 /\ Collected[c] <= feed.at /\ feed.items[c] # Absent
                      => Collected[c] <= feed.items[c]
                 /\ Collected[c] <= job.began
                 /\ job.last < nvd[c] /\ nvd[c] <= job.began
                      => Collected[c] = nvd[c]
      <4>1. Collected[c] = IF c \in Matching THEN nvd[c] ELSE Absent
        BY <3>1, <3>2 DEF Collected, CoverInv, FirstPage, Nothing
      <4>2. c \in Matching <=> job.last <= nvd[c] /\ nvd[c] <= job.began
        BY DEF Matching
      <4>3. /\ table[c] <= nvd[c] /\ feed.items[c] \in Version
            /\ nvd[c] \in Nat /\ job.began \in Nat /\ job.last \in Version
        BY DEF TablePast, Listing, Job
      <4>4. nvd[c] <= feed.at /\ feed.items[c] # Absent => feed.items[c] = nvd[c]
        BY DEF ExitInv, FeedExact
      <4> QED BY <4>1, <4>2, <4>3, <4>4 DEF Version, Absent
    <3>4. BatchNewer'
      BY <2>2, <3>1, <3>3, TransformOrdered
    <3> QED BY <1>6, <2>2, <3>1, <3>4
  <2>3. CASE \E total, index :
               job' = [job EXCEPT !.got = Collected, !.index = index, !.total = total]
    <3>1. job'.pc = job.pc /\ job'.hash = job.hash /\ job'.began = job.began
          /\ job'.last = job.last
      BY <2>3 DEF Job
    <3> QED
      BY <1>8, <3>1 DEF FetchPage, world, FeedFresh, TablePast, AheadOfFeed, FeedAhead,
           WrittenBefore, GapLarge, FromApi, FromFeed, BatchNewer
  <2> QED BY <1>8, <2>1, <2>2, <2>3 DEF FetchPage
<1>9. CASE WriteBatch
  <2>1. PICK c \in job.left :
          /\ table' = [table EXCEPT ![c] = job.got[c]]
          /\ job' = [job EXCEPT !.left = job.left \ {c}, !.used = job.used + 1]
    BY <1>9 DEF WriteBatch, Put
  <2>2. /\ job'.pc = "write" /\ job'.got = job.got /\ job'.last = job.last
        /\ job'.began = job.began /\ job'.high = job.high /\ job'.hash = job.hash
        /\ job'.left = job.left \ {c} /\ job.pc = "write"
        /\ UNCHANGED <<now, nvd, feed, ckpt>>
    BY <1>9, <2>1 DEF WriteBatch, Job, world
  <2>3. /\ c \in Cves /\ c \in Storable(job.got) /\ job.got[c] \in Nat
        /\ job.got[c] <= nvd[c] /\ <<c, job.got[c]>> \notin Malformed
    BY <2>2 DEF CoverInv, BatchComplete, Storable, Job, Listing, Version
  <2>4. \A d \in Cves : table'[d] = IF d = c THEN job.got[c] ELSE table[d]
    BY <2>1
  <2>5. FeedFresh' /\ GapLarge'
    BY <2>2 DEF FeedFresh, GapLarge, FromApi
  <2>6. TablePast'
    BY <2>2, <2>3, <2>4 DEF TablePast
  <2>7. BatchNewer'
    BY <2>2, <2>4 DEF BatchNewer, Storable
  <2>8. FeedAhead'
    BY <2>2, <2>3, <2>4 DEF FeedAhead, BatchNewer
  <2>9. job.got[c] > feed.at => now - ckpt.ts >= GapThreshold /\ ~FromFeed
    <3>1. job.hash # NoHash => job.got[c] <= feed.at
      BY <2>2, <2>3 DEF BatchNewer
    <3>2. job.hash = NoHash => job.began - job.last >= GapThreshold
      BY <2>2 DEF GapLarge, FromApi
    <3>3. job.last = ckpt.ts /\ job.began <= now /\ job.began \in Nat
      BY <2>2 DEF CoverInv, CheckpointHeld, Job
    <3> QED BY <2>2, <2>3, <3>1, <3>2, <3>3, SyncAssumption DEF FromFeed
  <2>10. AheadOfFeed'
    BY <2>2, <2>4, <2>9 DEF AheadOfFeed, FromFeed
  <2>11. WrittenBefore'
    BY <2>2, <2>3, <2>4 DEF WrittenBefore, BatchNewer
  <2> QED BY <2>5, <2>6, <2>7, <2>8, <2>10, <2>11
<1>10. CASE TimeOut
  BY <1>10, <1>3 DEF TimeOut, Return
<1>11. CASE Save
  <2>1. job.pc = "write" /\ job.left = {} /\ job' = Idle
        /\ UNCHANGED <<now, nvd, feed, table>>
    BY <1>11 DEF Save, Return, world
  <2>2. CASE job.used = 0
    BY <1>3, <1>11, <2>1, <2>2 DEF Save, NewCheckpoint, world
  <2>3. CASE job.used > 0
    <3>1. ckpt'.ts = job.high /\ job.last = ckpt.ts /\ job.high \in Nat
          /\ ckpt.ts <= job.high
      BY <1>11, <2>1, <2>3
         DEF Save, NewCheckpoint, CoverInv, CheckpointHeld, JobShape, BatchComplete
    <3>2. ASSUME NEW c \in Cves, table[c] > feed.at
          PROVE  table[c] <= job.high
      <4>1. table[c] \in Nat /\ nvd[c] \in Nat /\ feed.at \in Nat
            /\ table[c] <= nvd[c] /\ nvd[c] <= now /\ now <= feed.at + 1
        <5>1. table[c] \in Version /\ nvd[c] \in Nat /\ feed.at \in Nat
          OBVIOUS
        <5>2. table[c] <= nvd[c] /\ nvd[c] <= now /\ now <= feed.at + 1
          BY DEF TablePast, CoverInv, Clock, FeedFresh
        <5> QED BY <3>2, <5>1, <5>2 DEF Version, Absent
      <4>2. table[c] = now /\ nvd[c] = now /\ table[c] > 0
        BY <3>2, <4>1
      <4>3. CASE job.hash # NoHash
        <5>1. table[c] <= ckpt.ts
          BY <2>1, <3>2, <4>3 DEF AheadOfFeed, FromFeed
        <5> QED BY <3>1, <4>1, <5>1
      <4>4. CASE job.hash = NoHash /\ table[c] > ckpt.ts
        <5>1. job.began \in Nat /\ job.began <= now
              /\ (table[c] <= job.began \/ table[c] <= feed.at)
          BY <2>1 DEF WrittenBefore, CoverInv, CheckpointHeld, Job
        <5>2. job.began = now
          BY <3>2, <4>1, <4>2, <5>1
        <5>3. job.got[c] = nvd[c]
          BY <2>1, <3>1, <4>2, <4>4, <5>2 DEF BatchNewer
        <5>4. c \in Storable(job.got)
          BY <4>2, <5>3 DEF Storable, TablePast, Absent
        <5> QED BY <2>1, <4>2, <5>3, <5>4 DEF BatchNewer
      <4>5. CASE table[c] <= ckpt.ts
        BY <3>1, <4>1, <4>5
      <4> QED BY <4>1, <4>3, <4>4, <4>5
    <3>3. AheadOfFeed'
      BY <2>1, <3>1, <3>2 DEF AheadOfFeed
    <3> QED
      BY <2>1, <3>3 DEF Idle, FeedFresh, TablePast, FeedAhead, WrittenBefore,
                        GapLarge, FromApi, BatchNewer
  <2> QED BY <2>2, <2>3 DEF Job
<1>12. CASE Failure
  BY <1>12, <1>3 DEF Failure, MetaFails, DownloadFails, PageFails, WriteFails,
                     SaveFails, Killed, Fail, Return
<1>13. CASE UNCHANGED vars
  BY <1>13 DEF vars, FeedFresh, TablePast, AheadOfFeed, FeedAhead, WrittenBefore,
               GapLarge, FromApi, FromFeed, BatchNewer, Storable
<1> QED
  BY <1>1, <1>2, <1>4, <1>5, <1>7, <1>8, <1>9, <1>10, <1>11, <1>12, <1>13
     DEF Next, Sync

(* Every step of the sync is a step of the mirror, or changes nothing the  *)
(* mirror is about.                                                        *)
LEMMA MirrorStep ==
  OrderInv /\ CheckpointCovers' /\ [Next]_vars => [Copy!Next]_(Copy!vars)
<1> SUFFICES ASSUME OrderInv, CheckpointCovers', [Next]_vars
             PROVE  Copy!Next \/ UNCHANGED Copy!vars
  OBVIOUS
<1> USE DEF OrderInv, CoverInv, TypeInv, TypeOK
<1>1. ASSUME NEW S \in SUBSET Cves, Modify(S) PROVE Copy!Publish
  BY <1>1 DEF Modify, Clock, Copy!Publish
<1>2. CASE UNCHANGED <<nvd, table, ckpt>>
  BY <1>2 DEF Copy!vars
<1>3. CASE WriteBatch
  <2>1. PICK c \in job.left : table' = [table EXCEPT ![c] = job.got[c]]
    BY <1>3 DEF WriteBatch, Put
  <2>2. c \in Cves /\ c \in Storable(job.got)
    BY <1>3 DEF WriteBatch, BatchComplete, Storable
  <2>3. /\ table[c] <= job.got[c] /\ job.got[c] <= nvd[c]
        /\ table[c] \in Int /\ job.got[c] \in Int /\ nvd[c] \in Int
    BY <1>3, <2>2 DEF WriteBatch, BatchNewer, BatchComplete, Job, Listing, Version,
                      Absent
  <2>4. job.got[c] \in table[c] .. nvd[c]
    BY <2>3
  <2>5. UNCHANGED <<nvd, ckpt.ts>>
    BY <1>3 DEF WriteBatch, world
  <2>6. Copy!Store
    BY <2>1, <2>2, <2>4, <2>5 DEF Copy!Store
  <2> QED BY <2>6 DEF Copy!Next
<1>4. CASE Save
  <2>1. UNCHANGED <<nvd, table>> /\ job.pc = "write"
    BY <1>4 DEF Save, world
  <2>2. CASE ckpt'.ts = ckpt.ts
    BY <2>1, <2>2 DEF Copy!vars
  <2>3. CASE ckpt'.ts # ckpt.ts
    <3>1. ckpt'.ts > ckpt.ts
      BY <1>4, <2>1, <2>3
         DEF Save, NewCheckpoint, CheckpointHeld, JobShape, BatchComplete, Job
    <3>2. Copy!CoversUpTo(ckpt'.ts)
      BY <2>1 DEF CheckpointCovers, Copy!CoversUpTo
    <3>3. Copy!Advance
      BY <2>1, <3>1, <3>2 DEF Copy!Advance
    <3> QED BY <3>3 DEF Copy!Next
  <2> QED BY <2>2, <2>3
<1>5. CASE Failure
  BY <1>5, <1>2 DEF Failure, MetaFails, DownloadFails, PageFails, WriteFails,
                    SaveFails, Killed, Fail, world
<1> QED
  BY <1>1, <1>2, <1>3, <1>4, <1>5
     DEF Next, Sync, PublishFeed, Start, FetchMeta, Download, FetchPage, TimeOut,
         vars, world, Copy!Next

(* The sync implements the mirror: its table is a copy of the NVD that may *)
(* lag behind the checkpoint but never loses a change and never replaces a *)
(* record by an older version of it, provided the feed does not stall.     *)
THEOREM SyncIsMirror == ASSUME Premises, NoStall PROVE Spec => MirrorSpec
<1>1. Init => Copy!Init
  BY CoverInit DEF CoverInv, CheckpointCovers, Copy!Init, Copy!CoversUpTo
<1>2. OrderInv /\ [Next]_vars => OrderInv'
  BY OrderStep
<1>3. OrderInv => CheckpointCovers
  BY DEF OrderInv, CoverInv
<1> QED
  BY <1>1, <1>2, <1>3, OrderInit, MirrorStep, PTL DEF Spec, MirrorSpec, Copy!Spec

LEMMA NewerStep ==
  OrderInv /\ [Next]_vars => [\A c \in Cves : table'[c] >= table[c]]_vars
<1> SUFFICES ASSUME OrderInv, Next
             PROVE  \A c \in Cves : table'[c] >= table[c]
  BY DEF vars
<1> USE DEF OrderInv, CoverInv, TypeInv, TypeOK
<1>1. CASE table' = table
  BY <1>1 DEF Version, Absent
<1>2. CASE WriteBatch
  <2>1. PICK c \in job.left : table' = [table EXCEPT ![c] = job.got[c]]
    BY <1>2 DEF WriteBatch, Put
  <2>2. c \in Cves /\ table[c] <= job.got[c]
    BY <1>2 DEF WriteBatch, BatchComplete, BatchNewer, Storable
  <2>3. job.got[c] \in Int /\ \A d \in Cves : table[d] \in Int
    BY <2>2 DEF Job, Listing, Version, Absent
  <2> QED BY <2>1, <2>2, <2>3
<1> QED
  BY <1>1, <1>2
     DEF Next, Sync, Failure, Modify, PublishFeed, Start, FetchMeta, Download, FetchPage,
         TimeOut, Save, MetaFails, DownloadFails, PageFails, WriteFails, SaveFails,
         Killed, Fail, world

(* No put replaces a record by an older version of it, although puts are   *)
(* unconditional, provided the feed does not stall.                        *)
THEOREM NothingGetsOlder == ASSUME Premises, NoStall PROVE Spec => NeverOlder
<1>1. OrderInv /\ [Next]_vars => OrderInv'
  BY OrderStep
<1> QED BY <1>1, OrderInit, NewerStep, PTL DEF Spec, NeverOlder

-----------------------------------------------------------------------------
(* The sync next to a backfill.                                            *)

(* A backfill does its years in order and has done them all when it hands  *)
(* over; nothing starts another one after that.                            *)
YearByYear ==
  /\ load \in Load /\ done \in 0 .. LastYear
  /\ load.pc \in {"fetch", "store"} => load.year = done + 1
  /\ load.pc = "finish" => done = LastYear
  /\ handover # Absent => load.pc = "off" /\ done = LastYear

(* What it took of its year and has not still to store is in the table.    *)
YearComplete ==
  load.pc = "store" =>
    /\ load.left \subseteq Storable(load.got)
    /\ \A c \in Cves :
         YearOf[c] = load.year =>
           /\ load.got[c] \in 0 .. MaxTime
           /\ c \in Storable(load.got) \ load.left => table[c] # Absent

PutsRecords == job.pc = "write" => job.left \subseteq Storable(job.got)

Dated == now <= MaxTime /\ \A c \in Cves : nvd[c] <= now

YearInv ==
  /\ Registers /\ Dated /\ YearByYear /\ YearComplete /\ PutsRecords /\ YearsLoaded

(* No put of the sync deletes a record. *)
LEMMA SyncPuts ==
  ASSUME Registers, PutsRecords, [Next]_vars
  PROVE  /\ PutsRecords'
         /\ \A c \in Cves : table[c] # Absent => table'[c] # Absent
<1> USE DEF Registers
<1>1. CASE job' = Idle /\ UNCHANGED table
  BY <1>1 DEF Idle, PutsRecords
<1>2. CASE UNCHANGED <<job, table>>
  BY <1>2 DEF PutsRecords, Storable
<1>3. CASE Start
  BY <1>3 DEF Start, Idle, PutsRecords
<1>4. ASSUME UNCHANGED table, job.pc \in {"download", "page"},
             NEW items \in Listing, Transform(items)
      PROVE  PutsRecords' /\ UNCHANGED table
  <2>1. job'.got = items /\ (job'.left = Storable(items) \/ job'.left = {})
    BY <1>4, TransformEffect DEF JobShape
  <2> QED BY <1>4, <2>1 DEF PutsRecords, Storable
<1>5. CASE FetchMeta
  <2>1. job' = Idle \/ job'.pc = "download"
    BY <1>5 DEF FetchMeta, Return, Job
  <2> QED BY <1>1, <1>5, <2>1 DEF FetchMeta, PutsRecords
<1>6. CASE Download
  <2>1. CASE Return
    BY <1>1, <1>6, <2>1 DEF Download, Return
  <2>2. CASE Transform(Newer(feed.items, job.last))
    BY <1>4, <1>6, <2>2, NewerType DEF Download
  <2> QED BY <1>6, <2>1, <2>2 DEF Download
<1>7. CASE FetchPage
  <2>1. CASE Return
    BY <1>1, <1>7, <2>1 DEF FetchPage, Return
  <2>2. CASE Transform(Collected)
    <3>1. Collected \in Listing
      BY CollectedType DEF Job
    <3> QED BY <1>4, <1>7, <2>2, <3>1 DEF FetchPage
  <2>3. CASE job'.pc = "page"
    BY <1>7, <2>3 DEF FetchPage, PutsRecords
  <2>4. ASSUME NEW total, NEW index,
               job' = [job EXCEPT !.got = Collected, !.index = index, !.total = total]
        PROVE  job'.pc = "page"
    BY <1>7, <2>4 DEF FetchPage, Job
  <2> QED BY <1>7, <2>1, <2>2, <2>3, <2>4 DEF FetchPage
<1>8. CASE WriteBatch
  <2>1. PICK c \in job.left :
          /\ table' = [table EXCEPT ![c] = job.got[c]]
          /\ job' = [job EXCEPT !.left = job.left \ {c}, !.used = job.used + 1]
    BY <1>8 DEF WriteBatch, Put
  <2>2. job.left \subseteq Storable(job.got) /\ job.got[c] # Absent
    BY <1>8 DEF WriteBatch, PutsRecords, Storable
  <2>3. job'.got = job.got /\ job'.left = job.left \ {c}
    BY <2>1 DEF Job
  <2> QED BY <2>1, <2>2, <2>3 DEF PutsRecords, Storable
<1> QED
  BY <1>1, <1>2, <1>3, <1>5, <1>6, <1>7, <1>8
     DEF Next, Sync, Failure, Modify, PublishFeed, TimeOut, Save, Return, MetaFails,
         DownloadFails, PageFails, WriteFails, SaveFails, Killed, Fail, vars

LEMMA SyncDated ==
  ASSUME Registers, Dated, [Next]_vars
  PROVE  Dated'
<1> USE DEF Registers, Dated
<1>1. ASSUME NEW S \in SUBSET Cves, Modify(S) PROVE Dated'
  BY <1>1, SyncAssumption DEF Modify
<1>2. CASE UNCHANGED <<now, nvd>>
  BY <1>2
<1> QED
  BY <1>1, <1>2
     DEF Next, Sync, Failure, PublishFeed, Start, FetchMeta, Download, FetchPage,
         WriteBatch, TimeOut, Save, MetaFails, DownloadFails, PageFails, WriteFails,
         SaveFails, Killed, Fail, vars, world

LEMMA OffType == Off \in Load /\ Off.pc = "off" /\ Off.year = 0
BY NothingType, BackfillAssumption DEF Off, Load

LEMMA FetchType ==
  ASSUME NEW y \in 0 .. LastYear
  PROVE  LET begun == [Off EXCEPT !.pc = "fetch", !.year = y]
         IN  begun \in Load /\ begun.pc = "fetch" /\ begun.year = y
BY NothingType DEF Off, Load

LEMMA YearInit == BackfillInit => YearInv
<1> SUFFICES ASSUME BackfillInit PROVE YearInv
  OBVIOUS
<1> USE SyncAssumption, BackfillAssumption DEF BackfillInit
<1>1. Registers
  BY NothingType, IdleType
     DEF Registers, JobShape, Listing, Version, Absent, NoHash, Nothing
<1>2. Dated /\ PutsRecords
  BY IdleType DEF Dated, PutsRecords
<1>3. YearByYear /\ YearComplete
  BY OffType DEF YearByYear, YearComplete
<1>4. YearsLoaded
  BY DEF YearsLoaded, Absent
<1> QED BY <1>1, <1>2, <1>3, <1>4 DEF YearInv

(* The steps of the backfill keep its own part, ... *)
LEMMA YearByYearStep ==
  ASSUME Registers, YearByYear, [BackfillNext]_allVars
  PROVE  YearByYear'
<1> USE BackfillAssumption DEF YearByYear
<1>1. CASE UNCHANGED backfillVars
  BY <1>1 DEF backfillVars
<1>2. CASE StartBackfill
  <2>1. CASE UNCHANGED load
    BY <1>2, <2>1 DEF StartBackfill
  <2>2. CASE done + 1 <= LastYear /\ load' = [Off EXCEPT !.pc = "fetch", !.year = done + 1]
    <3>1. load' \in Load /\ load'.pc = "fetch" /\ load'.year = done + 1
      <4>1. done + 1 \in 0 .. LastYear
        BY <2>2
      <4> QED BY <2>2, <4>1, FetchType
    <3>2. done' = done /\ handover' = Absent
      BY <1>2, <2>2 DEF StartBackfill
    <3> QED BY <3>1, <3>2
  <2> QED BY <1>2, <2>1, <2>2 DEF StartBackfill
<1>3. CASE FetchYear
  <2> DEFINE items == [c \in Cves |-> IF YearOf[c] = load.year THEN nvd[c] ELSE Absent]
  <2>1. items \in Listing /\ Storable(items) \in SUBSET Cves
    BY DEF Registers, Listing, Version, Storable
  <2> HIDE DEF items
  <2>2. load' = [load EXCEPT !.pc = "store", !.got = items, !.left = Storable(items)]
    BY <1>3 DEF FetchYear, items
  <2>3. load' \in Load /\ load'.pc = "store" /\ load'.year = load.year
    BY <2>1, <2>2 DEF Load
  <2> QED BY <1>3, <2>3 DEF FetchYear
<1>4. CASE StoreItem
  <2>1. PICK c \in load.left : load' = [load EXCEPT !.left = load.left \ {c}]
    BY <1>4 DEF StoreItem
  <2>2. load' \in Load /\ load'.pc = load.pc /\ load'.year = load.year
    BY <2>1 DEF Load
  <2> QED BY <1>4, <2>2 DEF StoreItem
<1>5. CASE FinishYear
  <2>1. /\ load.year = done + 1 /\ done' = load.year /\ load.year \in 0 .. LastYear
        /\ handover' = Absent
    BY <1>5 DEF FinishYear, Load
  <2>2. CASE load.year = LastYear /\ load' = [Off EXCEPT !.pc = "finish"]
    <3>1. load' \in Load /\ load'.pc = "finish"
      BY <2>2, OffType DEF Load
    <3> QED BY <2>1, <2>2, <3>1
  <2>3. CASE load.year # LastYear
             /\ load' = [Off EXCEPT !.pc = "fetch", !.year = load.year + 1]
    <3>1. load' \in Load /\ load'.pc = "fetch" /\ load'.year = done' + 1
      <4>1. done' + 1 \in 0 .. LastYear /\ load' = [Off EXCEPT !.pc = "fetch", !.year = done' + 1]
        BY <2>1, <2>3
      <4> QED BY <4>1, FetchType
    <3> QED BY <2>1, <3>1
  <2> QED BY <1>5, <2>2, <2>3 DEF FinishYear
<1>6. CASE SetSyncCheckpoint
  BY <1>6, OffType DEF SetSyncCheckpoint
<1>7. CASE AbortBackfill
  BY <1>7, OffType DEF AbortBackfill
<1> QED
  BY <1>1, <1>2, <1>3, <1>4, <1>5, <1>6, <1>7
     DEF BackfillNext, BackfillStep, allVars, backfillVars

(* ... and its puts are records. *)
LEMMA BackfillRegisters ==
  ASSUME Registers, YearByYear, StartBackfill \/ BackfillStep \/ AbortBackfill
  PROVE  Registers'
<1> USE DEF Registers
<1>1. CASE UNCHANGED vars
  BY <1>1 DEF vars, JobShape
<1>2. CASE StoreItem
  <2>1. PICK c \in load.left : table' = [table EXCEPT ![c] = load.got[c]]
    BY <1>2 DEF StoreItem
  <2>2. table' \in [Cves -> Version]
    BY <2>1 DEF YearByYear, Load, Listing
  <2> QED BY <1>2, <2>2 DEF StoreItem, world, JobShape
<1>3. CASE SetSyncCheckpoint
  BY <1>3 DEF SetSyncCheckpoint, world, JobShape, Version, Absent, NoHash
<1> QED
  BY <1>1, <1>2, <1>3 DEF StartBackfill, BackfillStep, FetchYear, FinishYear, AbortBackfill

LEMMA YearStep == YearInv /\ [BackfillNext]_allVars => YearInv'
<1> SUFFICES ASSUME YearInv, [BackfillNext]_allVars
             PROVE  YearInv'
  OBVIOUS
<1> USE BackfillAssumption DEF YearInv
<1>1. YearByYear'
  BY YearByYearStep
<1>2. ASSUME [Next]_vars, UNCHANGED backfillVars PROVE YearInv'
  <2>1. Registers'
    BY <1>2, RegistersStep
  <2>2. Dated'
    BY <1>2, SyncDated
  <2>3. PutsRecords' /\ \A c \in Cves : table[c] # Absent => table'[c] # Absent
    BY <1>2, SyncPuts
  <2>4. load' = load /\ done' = done
    BY <1>2 DEF backfillVars
  <2>5. YearComplete'
    BY <2>3, <2>4 DEF YearComplete, Storable
  <2>6. YearsLoaded'
    BY <2>3, <2>4 DEF YearsLoaded
  <2> QED BY <1>1, <2>1, <2>2, <2>3, <2>5, <2>6
<1>3. ASSUME StartBackfill \/ BackfillStep \/ AbortBackfill,
             YearComplete', YearsLoaded', UNCHANGED <<now, nvd, job>>
      PROVE  YearInv'
  <2>1. Registers'
    BY <1>3, BackfillRegisters
  <2>2. Dated' /\ PutsRecords'
    BY <1>3 DEF Dated, PutsRecords, Storable
  <2> QED BY <1>1, <1>3, <2>1, <2>2
<1>4. CASE StartBackfill
  <2>1. load' = load \/ load'.pc = "fetch"
    BY <1>4, OffType DEF StartBackfill, Load
  <2>2. UNCHANGED <<now, nvd, job, table, done>>
    BY <1>4 DEF StartBackfill, vars
  <2>3. YearComplete' /\ YearsLoaded'
    BY <2>1, <2>2 DEF YearComplete, YearsLoaded, Storable
  <2> QED BY <1>3, <1>4, <2>2, <2>3
<1>5. CASE FetchYear
  <2> DEFINE items == [c \in Cves |-> IF YearOf[c] = load.year THEN nvd[c] ELSE Absent]
  <2>1. /\ load'.got = items /\ load'.left = Storable(items)
        /\ load'.year = load.year
        /\ UNCHANGED <<now, nvd, job, table, done>>
    BY <1>5 DEF FetchYear, YearByYear, Load, vars
  <2>2. \A c \in Cves : nvd[c] \in 0 .. MaxTime
    BY SyncAssumption DEF Dated, Registers
  <2>3. YearComplete'
    BY <2>1, <2>2 DEF YearComplete
  <2>4. YearsLoaded'
    BY <2>1 DEF YearsLoaded
  <2> QED BY <1>3, <1>5, <2>1, <2>3, <2>4 DEF BackfillStep
<1>6. CASE StoreItem
  <2>1. PICK c \in load.left :
          /\ table' = [table EXCEPT ![c] = load.got[c]]
          /\ load' = [load EXCEPT !.left = load.left \ {c}]
    BY <1>6 DEF StoreItem
  <2>2. /\ load'.pc = load.pc /\ load'.year = load.year /\ load'.got = load.got
        /\ load'.left = load.left \ {c} /\ load.pc = "store"
        /\ UNCHANGED <<now, nvd, job, done>>
    BY <1>6, <2>1 DEF StoreItem, YearByYear, Load, world
  <2>3. c \in Cves /\ load.got[c] # Absent /\ load.left \subseteq Storable(load.got)
    BY <2>2 DEF YearComplete, Storable
  <2>4. \A d \in Cves : table'[d] = IF d = c THEN load.got[c] ELSE table[d]
    BY <2>1 DEF Registers
  <2>5. YearComplete'
    BY <2>2, <2>3, <2>4 DEF YearComplete, Storable
  <2>6. YearsLoaded'
    BY <2>2, <2>3, <2>4 DEF YearsLoaded
  <2> QED BY <1>3, <1>6, <2>2, <2>5, <2>6 DEF BackfillStep
<1>7. CASE FinishYear
  <2>1. /\ load.pc = "store" /\ load.left = {} /\ load.year = done + 1
        /\ done' = done + 1 /\ done \in Nat /\ load'.pc # "store"
        /\ UNCHANGED <<now, nvd, job, table>>
    BY <1>7, OffType DEF FinishYear, YearByYear, Load, vars
  <2>2. ASSUME NEW c \in Cves, YearOf[c] <= done',
               \A v \in 0 .. MaxTime : <<c, v>> \notin Malformed
        PROVE  table[c] # Absent
    <3>1. CASE YearOf[c] <= done
      BY <2>2, <3>1 DEF YearsLoaded
    <3>2. CASE YearOf[c] = load.year
      <4>1. load.got[c] \in 0 .. MaxTime /\ load.got[c] # Absent
        BY <2>1, <3>2 DEF YearComplete, Absent
      <4>2. c \in Storable(load.got)
        BY <2>2, <4>1 DEF Storable
      <4> QED BY <2>1, <3>2, <4>2 DEF YearComplete
    <3> QED BY <2>1, <2>2, <3>1, <3>2
  <2>3. YearComplete' /\ YearsLoaded'
    BY <2>1, <2>2 DEF YearComplete, YearsLoaded
  <2> QED BY <1>3, <1>7, <2>1, <2>3 DEF BackfillStep
<1>8. CASE SetSyncCheckpoint
  <2>1. load'.pc = "off" /\ UNCHANGED <<now, nvd, job, table, done>>
    BY <1>8, OffType DEF SetSyncCheckpoint, world
  <2>2. YearComplete' /\ YearsLoaded'
    BY <2>1 DEF YearComplete, YearsLoaded
  <2> QED BY <1>3, <1>8, <2>1, <2>2 DEF BackfillStep
<1>9. CASE AbortBackfill
  <2>1. load'.pc = "off" /\ UNCHANGED <<now, nvd, job, table, done>>
    BY <1>9, OffType DEF AbortBackfill, vars
  <2>2. YearComplete' /\ YearsLoaded'
    BY <2>1 DEF YearComplete, YearsLoaded
  <2> QED BY <1>3, <1>9, <2>1, <2>2
<1> QED
  BY <1>2, <1>4, <1>5, <1>6, <1>7, <1>8, <1>9
     DEF BackfillNext, BackfillStep, allVars, backfillVars, vars

(* A year that is noted as completed is in the table for good, whatever    *)
(* aborts, resumptions and invocations of the sync went before.            *)
THEOREM NotedIsLoaded == BackfillSpec => []YearsLoaded
<1>1. YearInv => YearsLoaded
  BY DEF YearInv
<1> QED BY <1>1, YearInit, YearStep, PTL DEF BackfillSpec

-----------------------------------------------------------------------------
(* The sync takes over from a backfill.  An invocation that began before   *)
(* may have found no checkpoint, so the feed has to cover its duration.    *)
FeedCoversRun == FeedWindow >= Span

HandedOver ==
  handover # Absent => handover \in Nat /\ handover <= now /\ ckpt.ts \in Nat

(* An invocation holds the stored checkpoint, or the backfill has replaced *)
(* it since.                                                               *)
ReadBefore ==
  job.pc # "idle" =>
    /\ job.last <= job.began /\ job.began <= now /\ now <= job.began + Span
    /\ \/ job.last = ckpt.ts
       \/ handover # Absent /\ job.began <= handover /\ ckpt.ts = handover

GapLimited ==
  job.pc \in {"meta", "download"} =>
    job.last = Absent \/ job.began - job.last < GapThreshold

(* The items of an invocation that writes are complete for what changed    *)
(* between the handover and the checkpoint it is going to save.            *)
LaterComplete ==
  job.pc = "write" =>
    /\ job.high <= now
    /\ \A c \in Cves :
         /\ job.got[c] <= nvd[c]
         /\ job.got[c] # Absent => job.last <= job.got[c]
         /\ handover # Absent =>
              /\ handover < nvd[c] /\ job.last < nvd[c] /\ nvd[c] <= job.high
                   => job.got[c] = nvd[c]
              /\ c \in Storable(job.got) \ job.left /\ handover < job.got[c]
                   => table[c] = job.got[c]

LaterInv ==
  /\ Registers /\ YearByYear /\ PutsRecords /\ Clock /\ FeedCurrent
  /\ HandedOver /\ ReadBefore /\ GapLimited /\ FirstPage
  /\ LaterComplete /\ LaterChangesCovered

LEMMA LaterInit == BackfillInit => LaterInv
<1> SUFFICES ASSUME BackfillInit PROVE LaterInv
  OBVIOUS
<1>1. Registers /\ YearByYear /\ PutsRecords
  BY YearInit DEF YearInv
<1>2. Clock /\ FeedCurrent
  BY SyncAssumption DEF BackfillInit, Clock, FeedCurrent, Absent
<1> QED
  BY <1>1, <1>2, IdleType
     DEF BackfillInit, LaterInv, HandedOver, ReadBefore, GapLimited, FirstPage,
         LaterComplete, LaterChangesCovered

(* As TransformComplete, for the changes after the handover. *)
LEMMA TransformLater ==
  ASSUME Registers, Clock, job.pc \in {"download", "page"},
         UNCHANGED <<world, table, ckpt, handover>>,
         NEW items \in Listing, NEW until \in Nat, until <= now,
         \A c \in Cves :
           /\ items[c] <= nvd[c]
           /\ items[c] # Absent => job.last <= items[c] /\ items[c] <= until
           /\ handover # Absent /\ handover < nvd[c] /\ job.last < nvd[c]
                /\ nvd[c] <= until => items[c] = nvd[c],
         Transform(items)
  PROVE  LaterComplete'
<1> USE DEF Registers
<1>1. /\ job'.pc = "write" /\ job'.got = items /\ job'.last = job.last
      /\ \/ Storable(items) = {} /\ job'.left = job.left /\ job'.high = job.high
         \/ /\ job'.left = Storable(items)
            /\ \E c \in Storable(items) : job'.high = items[c] /\ items[c] \in Nat
  BY TransformEffect
<1>2. job.left = {} /\ job.high = Absent
  BY DEF JobShape
<1>3. job'.left = Storable(items)
  BY <1>1, <1>2
<1>4. CASE Storable(items) = {}
  <2>1. Absent <= now /\ \A c \in Cves : ~(nvd[c] <= Absent)
    BY DEF Absent
  <2> QED BY <1>1, <1>2, <1>3, <1>4, <2>1 DEF LaterComplete, world
<1>5. CASE Storable(items) # {}
  <2>1. PICK c \in Storable(items) : job'.high = items[c] /\ items[c] \in Nat
    BY <1>1, <1>5
  <2>2. c \in Cves /\ items[c] # Absent
    BY DEF Storable
  <2>3. job'.high <= until /\ job'.high \in Nat
    BY <2>1, <2>2
  <2>4. ASSUME NEW d \in Cves, handover # Absent, handover < nvd[d],
               job.last < nvd[d], nvd[d] <= job'.high
        PROVE  items[d] = nvd[d]
    BY <2>3, <2>4
  <2> QED
    BY <1>1, <1>3, <2>3, <2>4 DEF LaterComplete, world, Storable
<1> QED BY <1>4, <1>5

LEMMA DownloadLater ==
  ASSUME Premises, FeedCoversRun, LaterInv, job.pc = "download",
         UNCHANGED <<world, table, ckpt, handover>>,
         Transform(Newer(feed.items, job.last))
  PROVE  LaterComplete'
<1> DEFINE items == Newer(feed.items, job.last)
<1> USE DEF LaterInv, Registers
<1>1. items \in Listing /\ job.last \in Version /\ job.began \in Nat /\ feed.at \in Nat
  BY NewerType DEF Job
<1>2. ASSUME NEW c \in Cves
      PROVE  /\ items[c] <= nvd[c]
             /\ items[c] # Absent => job.last <= items[c] /\ items[c] <= feed.at
             /\ handover # Absent /\ handover < nvd[c] /\ job.last < nvd[c]
                  /\ nvd[c] <= feed.at => items[c] = nvd[c]
  <2>1. /\ feed.items[c] <= nvd[c] /\ feed.items[c] <= feed.at
        /\ nvd[c] <= feed.at /\ nvd[c] > feed.at - FeedWindow
             => feed.items[c] = nvd[c]
    BY DEF FeedCurrent
  <2>2. /\ feed.items[c] \in Version /\ nvd[c] \in Nat
        /\ feed.at <= job.began + Span
    BY <1>1, SyncAssumption DEF Listing, ReadBefore, Clock
  <2>3. items[c] = IF feed.items[c] > job.last THEN feed.items[c] ELSE Absent
    BY DEF Newer
  <2>4. handover # Absent /\ handover < nvd[c] /\ job.last < nvd[c]
          => nvd[c] > feed.at - FeedWindow
    <3>1. CASE job.last = Absent
      <4>1. handover # Absent =>
              handover \in Nat /\ (ckpt.ts = Absent \/ job.began <= handover)
        BY <3>1 DEF HandedOver, ReadBefore
      <4>2. handover # Absent => handover \in Nat /\ job.began <= handover
        BY <4>1 DEF HandedOver, Absent
      <4> QED BY <1>1, <2>2, <4>2, SyncAssumption DEF FeedCoversRun
    <3>2. CASE job.last \in Nat
      <4>1. feed.at - FeedWindow <= job.last
        BY <1>1, <2>2, <3>2, SyncAssumption
           DEF Premises, FeedCoversGap, GapLimited, Absent
      <4> QED BY <1>1, <2>2, <3>2, <4>1, SyncAssumption
    <3> QED BY <1>1, <3>1, <3>2 DEF Version
  <2> QED BY <1>1, <2>1, <2>2, <2>3, <2>4 DEF Version, Absent
<1> HIDE DEF items
<1> QED BY <1>1, <1>2, TransformLater DEF Clock, items

LEMMA RecoveryLater ==
  ASSUME Premises, LaterInv, job.pc = "page",
         UNCHANGED <<world, table, ckpt, handover>>, Transform(Collected)
  PROVE  LaterComplete'
<1> USE DEF LaterInv, Registers
<1>1. Collected \in Listing /\ job.last \in Version /\ job.began \in Nat
      /\ job.began <= now
  BY CollectedType DEF ReadBefore, Job
<1>2. Page = Matching
  BY FirstPageIsAll DEF FirstPage, Premises
<1>3. ASSUME NEW c \in Cves
      PROVE  /\ Collected[c] <= nvd[c]
             /\ Collected[c] # Absent
                  => job.last <= Collected[c] /\ Collected[c] <= job.began
             /\ job.last < nvd[c] /\ nvd[c] <= job.began => Collected[c] = nvd[c]
  <2>1. Collected[c] = IF c \in Matching THEN nvd[c] ELSE Absent
    BY <1>2 DEF Collected, FirstPage, Nothing
  <2>2. c \in Matching <=> job.last <= nvd[c] /\ nvd[c] <= job.began
    BY DEF Matching
  <2> QED BY <1>1, <2>1, <2>2 DEF Absent, Version
<1> QED BY <1>1, <1>3, TransformLater

(* The sync's steps keep what it has taken over, ... *)
LEMMA LaterSyncStep ==
  ASSUME Premises, FeedCoversRun, LaterInv, [Next]_vars, UNCHANGED backfillVars
  PROVE  LaterInv'
<1>0. /\ Registers /\ Registers' /\ YearByYear' /\ PutsRecords'
      /\ handover' = handover
  <2>1. [BackfillNext]_allVars
    BY DEF BackfillNext, allVars
  <2> QED
    BY <2>1, RegistersStep, SyncPuts, YearByYearStep DEF LaterInv, backfillVars
<1> USE <1>0 DEF LaterInv, Registers
<1>1. ASSUME NEW S \in SUBSET Cves, Modify(S) PROVE LaterInv'
  <2>1. UNCHANGED <<feed, table, ckpt, job>> /\ now' = now + 1
        /\ nvd' = [c \in Cves |-> IF c \in S THEN now + 1 ELSE nvd[c]]
    BY <1>1 DEF Modify
  <2>2. Clock'
    BY <2>1, SyncAssumption DEF Clock, Version, Absent
  <2>3. FeedCurrent'
    BY <2>1, SyncAssumption DEF Clock, FeedCurrent, Listing, Version, Absent
  <2>4. ReadBefore' /\ GapLimited' /\ FirstPage' /\ HandedOver'
    BY <1>1, <2>1, SyncAssumption
       DEF Modify, ReadBefore, GapLimited, FirstPage, HandedOver, Job
  <2>5. LaterComplete'
    <3>1. job.pc = "write" => job.high <= now' /\ job.high < now'
      BY <2>1 DEF LaterComplete, Job, Version, Absent
    <3>2. ASSUME NEW c \in Cves
          PROVE  nvd[c] <= nvd'[c] /\ nvd'[c] \in {nvd[c], now'}
      BY <2>1 DEF Clock
    <3>3. ASSUME NEW c \in Cves, job.pc = "write"
          PROVE  /\ job.got[c] <= nvd'[c]
                 /\ handover # Absent /\ handover < nvd'[c] /\ job.last < nvd'[c]
                      /\ nvd'[c] <= job.high => job.got[c] = nvd'[c]
      <4>1. job.got[c] \in Version /\ job.high \in Version /\ nvd'[c] \in Nat
        BY <2>1 DEF Job, Listing
      <4> QED BY <3>1, <3>2, <3>3, <4>1 DEF LaterComplete, Version, Absent
    <3> QED BY <2>1, <3>1, <3>3 DEF LaterComplete, Storable
  <2>6. LaterChangesCovered'
    BY <2>1 DEF LaterChangesCovered, Clock, Version, Absent
  <2> QED BY <2>2, <2>3, <2>4, <2>5, <2>6
<1>2. CASE PublishFeed
  <2>1. UNCHANGED <<now, nvd, table, ckpt, job>> /\ feed'.at = now
        /\ feed'.items = [c \in Cves |-> IF nvd[c] > now - FeedWindow
                                         THEN nvd[c] ELSE Absent]
    BY <1>2 DEF PublishFeed
  <2>2. Clock' /\ FeedCurrent'
    BY <2>1, SyncAssumption DEF Clock, FeedCurrent, Absent
  <2> QED
    BY <2>1, <2>2 DEF HandedOver, ReadBefore, GapLimited, FirstPage, LaterComplete,
                      Storable, LaterChangesCovered
<1>3. CASE UNCHANGED <<world, table, ckpt>> /\ job' = Idle
  BY <1>3 DEF Idle, world, Clock, FeedCurrent, HandedOver, ReadBefore, GapLimited,
              FirstPage, LaterComplete, LaterChangesCovered
<1>4. CASE Start
  <2>1. job' = [Idle EXCEPT
                  !.pc = IF SyncMode(ckpt.ts) = "normal" THEN "meta" ELSE "page",
                  !.began = now, !.last = ckpt.ts, !.stored = ckpt.hash]
    BY <1>4 DEF Start, CheckpointReads, Premises, ReadsWork
  <2>2. /\ job'.pc = IF SyncMode(ckpt.ts) = "normal" THEN "meta" ELSE "page"
        /\ job'.began = now /\ job'.last = ckpt.ts /\ job'.got = Nothing
        /\ job'.index = 0 /\ job'.total = Absent
    BY <2>1 DEF Idle
  <2>3. SyncMode(ckpt.ts) = "normal"
          => ckpt.ts = Absent \/ now - ckpt.ts < GapThreshold
    BY SyncAssumption DEF SyncMode, Version, Absent
  <2>4. ReadBefore' /\ GapLimited' /\ FirstPage'
    BY <1>4, <2>2, <2>3, SyncAssumption
       DEF Start, world, Clock, ReadBefore, GapLimited, FirstPage
  <2> QED
    BY <1>4, <2>2, <2>4
       DEF Start, world, Clock, FeedCurrent, HandedOver, LaterComplete,
           LaterChangesCovered
<1>5. CASE FetchMeta
  <2>1. CASE Return
    BY <1>5, <2>1, <1>3 DEF FetchMeta, Return
  <2>2. CASE job' = [job EXCEPT !.pc = "download", !.hash = feed.at]
    <3>1. job'.pc = "download" /\ job'.began = job.began /\ job'.last = job.last
      BY <2>2 DEF Job
    <3> QED
      BY <1>5, <3>1 DEF FetchMeta, world, Clock, FeedCurrent, HandedOver, ReadBefore,
                        GapLimited, FirstPage, LaterComplete, LaterChangesCovered
  <2> QED BY <1>5, <2>1, <2>2 DEF FetchMeta
<1>6. ASSUME job.pc # "idle", UNCHANGED <<world, table, ckpt>>, LaterComplete',
             job'.pc = "write" /\ job'.last = job.last /\ job'.began = job.began
      PROVE  LaterInv'
  BY <1>6 DEF world, Clock, FeedCurrent, HandedOver, ReadBefore, GapLimited, FirstPage,
              LaterChangesCovered
<1>7. CASE Download
  <2>1. CASE Return
    BY <1>7, <2>1, <1>3 DEF Download, Return
  <2>2. CASE Transform(Newer(feed.items, job.last))
    <3>1. Newer(feed.items, job.last) \in Listing
      BY NewerType
    <3> QED BY <1>6, <1>7, <2>2, <3>1, TransformEffect, DownloadLater DEF Download
  <2> QED BY <1>7, <2>1, <2>2 DEF Download
<1>8. CASE FetchPage
  <2>1. CASE Return
    BY <1>8, <2>1, <1>3 DEF FetchPage, Return
  <2>2. CASE Transform(Collected)
    <3>1. Collected \in Listing
      BY CollectedType DEF Job
    <3> QED BY <1>6, <1>8, <2>2, <3>1, TransformEffect, RecoveryLater DEF FetchPage
  <2>3. job.index = 0 /\ job.total = Absent
    BY <1>8 DEF FetchPage, FirstPage
  <2>4. ~(0 + PageSize < Cardinality(Matching))
    BY FirstPageHoldsAll DEF Premises
  <2> QED BY <1>8, <2>1, <2>2, <2>3, <2>4 DEF FetchPage
<1>9. CASE WriteBatch
  <2>1. PICK c \in job.left :
          /\ table' = [table EXCEPT ![c] = job.got[c]]
          /\ job' = [job EXCEPT !.left = job.left \ {c}, !.used = job.used + 1]
    BY <1>9 DEF WriteBatch, Put
  <2>2. /\ job'.pc = job.pc /\ job'.got = job.got /\ job'.last = job.last
        /\ job'.began = job.began /\ job'.high = job.high
        /\ job'.left = job.left \ {c}
    BY <2>1 DEF Job
  <2>3. job.pc = "write" /\ c \in Storable(job.got) /\ c \in Cves
        /\ UNCHANGED <<world, ckpt>>
    BY <1>9 DEF WriteBatch, PutsRecords, Storable
  <2>4. LaterComplete'
    BY <2>1, <2>2, <2>3 DEF LaterComplete, world, Storable, Job
  <2>5. handover # Absent /\ handover < nvd[c] /\ nvd[c] <= ckpt.ts
          => job.got[c] = nvd[c]
    <3>1. job.got[c] # Absent /\ job.got[c] \in Version
      BY <2>3 DEF Storable, Job, Listing
    <3>2. job.last <= job.got[c] /\ job.got[c] <= nvd[c]
      BY <2>3, <3>1 DEF LaterComplete
    <3>3. job.last = ckpt.ts \/ ckpt.ts = handover
      BY <2>3 DEF ReadBefore
    <3> QED BY <2>3, <3>1, <3>2, <3>3 DEF Version, Absent, HandedOver
  <2>6. LaterChangesCovered'
    BY <2>1, <2>3, <2>5 DEF LaterChangesCovered, world
  <2> QED
    BY <2>2, <2>3, <2>4, <2>6 DEF world, Clock, FeedCurrent, HandedOver, ReadBefore,
                                  GapLimited, FirstPage
<1>10. CASE TimeOut
  BY <1>10, <1>3 DEF TimeOut, Return
<1>11. CASE Save
  <2>1. job.pc = "write" /\ job.left = {} /\ job' = Idle /\ UNCHANGED <<world, table>>
    BY <1>11 DEF Save, Return
  <2>2. CASE job.used = 0
    BY <1>3, <1>11, <2>1, <2>2 DEF Save, NewCheckpoint
  <2>3. CASE job.used > 0
    <3>1. ckpt'.ts = job.high /\ job.high \in Nat /\ job.high <= now
      BY <1>11, <2>1, <2>3 DEF Save, NewCheckpoint, JobShape, LaterComplete
    <3>2. ASSUME NEW c \in Cves, handover # Absent, handover < nvd[c],
                 nvd[c] <= job.high, <<c, nvd[c]>> \notin Malformed
          PROVE  table[c] = nvd[c]
      <4>0. /\ handover \in Nat /\ job.last \in Version /\ nvd[c] \in Nat
            /\ job.began \in Nat
        BY <3>2 DEF HandedOver, Job
      <4>1. CASE nvd[c] <= job.last
        <5>1. job.last <= job.began /\ (job.last = ckpt.ts \/ job.began <= handover)
          BY <2>1 DEF ReadBefore
        <5>2. job.last = ckpt.ts
          BY <3>2, <4>0, <4>1, <5>1 DEF Version, Absent
        <5> QED BY <3>2, <4>1, <5>2 DEF LaterChangesCovered
      <4>2. CASE job.last < nvd[c]
        <5>1. job.got[c] = nvd[c]
          BY <2>1, <3>2, <4>2 DEF LaterComplete
        <5>2. c \in Storable(job.got)
          BY <3>2, <4>0, <5>1 DEF Storable, Absent
        <5> QED BY <2>1, <3>2, <5>1, <5>2 DEF LaterComplete
      <4> QED BY <4>0, <4>1, <4>2 DEF Version, Absent
    <3>3. LaterChangesCovered' /\ Clock' /\ HandedOver'
      BY <2>1, <3>1, <3>2 DEF LaterChangesCovered, Clock, HandedOver, world
    <3> QED
      BY <2>1, <3>3 DEF Idle, world, FeedCurrent, ReadBefore, GapLimited, FirstPage,
                        LaterComplete
  <2> QED BY <2>2, <2>3 DEF Job
<1>12. CASE Failure
  BY <1>12, <1>3 DEF Failure, MetaFails, DownloadFails, PageFails, WriteFails,
                     SaveFails, Killed, Fail, Return
<1>13. CASE UNCHANGED vars
  BY <1>13 DEF vars, Clock, FeedCurrent, HandedOver, ReadBefore, GapLimited, FirstPage,
               LaterComplete, Storable, LaterChangesCovered
<1> QED
  BY <1>1, <1>2, <1>4, <1>5, <1>7, <1>8, <1>9, <1>10, <1>11, <1>12, <1>13
     DEF Next, Sync

(* ... and a backfill stores only before the handover. *)
LEMMA LaterStep ==
  Premises /\ FeedCoversRun /\ LaterInv /\ [BackfillNext]_allVars => LaterInv'
<1> SUFFICES ASSUME Premises, FeedCoversRun, LaterInv, [BackfillNext]_allVars
             PROVE  LaterInv'
  OBVIOUS
<1>1. YearByYear'
  BY YearByYearStep DEF LaterInv
<1>2. ASSUME StartBackfill \/ BackfillStep \/ AbortBackfill PROVE Registers'
  BY <1>2, BackfillRegisters DEF LaterInv
<1> USE DEF LaterInv
<1>3. ASSUME StartBackfill \/ BackfillStep \/ AbortBackfill, UNCHANGED <<vars, handover>>
      PROVE  LaterInv'
  BY <1>1, <1>2, <1>3
     DEF vars, PutsRecords, Clock, FeedCurrent, HandedOver, ReadBefore, GapLimited,
         FirstPage, LaterComplete, Storable, LaterChangesCovered
<1>4. CASE StoreItem
  <2>1. handover = Absent /\ UNCHANGED <<world, ckpt, job, handover>>
    BY <1>4 DEF StoreItem, YearByYear
  <2> QED
    BY <1>1, <1>2, <1>4, <2>1
       DEF BackfillStep, world, PutsRecords, Clock, FeedCurrent, HandedOver, ReadBefore,
           GapLimited, FirstPage, LaterComplete, Storable, LaterChangesCovered
<1>5. CASE SetSyncCheckpoint
  <2>1. handover' = now /\ ckpt'.ts = now /\ UNCHANGED <<world, table, job>>
    BY <1>5 DEF SetSyncCheckpoint
  <2>2. /\ now \in Nat /\ \A c \in Cves : nvd[c] <= now /\ ~(now < nvd[c])
        /\ nvd \in [Cves -> Nat]
    BY DEF Clock, Registers
  <2>3. PutsRecords' /\ Clock' /\ FeedCurrent' /\ HandedOver'
    BY <2>1, <2>2 DEF world, PutsRecords, Clock, FeedCurrent, HandedOver, Storable
  <2>4. ReadBefore' /\ GapLimited' /\ FirstPage'
    BY <2>1, <2>2 DEF world, ReadBefore, GapLimited, FirstPage, Absent
  <2>5. LaterChangesCovered'
    BY <2>1, <2>2 DEF world, LaterChangesCovered
  <2>6. LaterComplete'
    <3>1. ASSUME NEW c \in Cves, job.pc = "write"
          PROVE  ~(now < job.got[c])
      <4>1. job.got[c] <= nvd[c] /\ job.got[c] \in Version /\ nvd[c] \in Nat
        BY <3>1 DEF LaterComplete, Registers, Job, Listing
      <4> QED BY <2>2, <4>1 DEF Version, Absent
    <3> QED BY <2>1, <2>2, <3>1 DEF world, LaterComplete, Storable
  <2> QED BY <1>1, <1>2, <1>5, <2>3, <2>4, <2>5, <2>6 DEF BackfillStep
<1>6. ASSUME [Next]_vars, UNCHANGED backfillVars PROVE LaterInv'
  BY <1>6, LaterSyncStep
<1> QED
  BY <1>3, <1>4, <1>5, <1>6
     DEF BackfillNext, BackfillStep, StartBackfill, FetchYear, FinishYear, AbortBackfill,
         allVars, backfillVars, vars

(* Every change made after a backfill has handed over to the sync is in    *)
(* the table when the checkpoint has passed it, also when an invocation    *)
(* that began before the handover saves an older checkpoint over it.       *)
THEOREM HandoverLosesNothing ==
  ASSUME Premises, FeedCoversRun
  PROVE  BackfillSpec => []LaterChangesCovered
<1>1. LaterInv /\ [BackfillNext]_allVars => LaterInv'
  BY LaterStep
<1>2. LaterInv => LaterChangesCovered
  BY DEF LaterInv
<1> QED BY <1>1, <1>2, LaterInit, PTL DEF BackfillSpec

=============================================================================

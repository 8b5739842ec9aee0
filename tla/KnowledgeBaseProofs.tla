------------------------ MODULE KnowledgeBaseProofs ------------------------
(* Theorems about KnowledgeBase, for any number of runs that capture, count *)
(* and replay at once, and any failures of theirs: what an entry is, and    *)
(* which entries are not replayed.                                          *)
EXTENDS KnowledgeBase, FiniteSetTheorems, SequenceTheorems, TLAPS

Slot == {"pc", "issue", "found", "plan", "existing", "todo", "read"}
PlanFields == {"steps", "conf", "from", "run", "scan"}
IsRun(r) == r = [c \in Slot |-> r[c]]
IsPlan(p) == p = [c \in PlanFields |-> p[c]]
IsList(s) == \E S : s \in Seq(S)

\* What a worker knows of the table and the finished runs: from its fix run
\* to the end of the capture, which run that was; between the two halves of
\* the capture, that it may be captured, and the entry found for it.
Knows(r, table, runs) ==
  /\ r.pc = "planned" => IsPlan(r.plan)
  /\ r.pc \in {"finished", "storing"} => r.plan.run \in DOMAIN runs
  /\ r.pc = "storing" =>
       /\ Capturable(runs[r.plan.run])
       /\ \/ r.existing.id = 0
          \/ /\ r.existing.id \in DOMAIN table
             /\ Fingerprint(table[r.existing.id])
                  = Fingerprint(Issues[runs[r.plan.run].issue])

\* The inductive invariant.
ProvenInv ==
  /\ IsList(kb) /\ IsList(done)
  /\ \A id \in DOMAIN kb : IsEntry(kb[id])
  /\ Sound(kb, done)
  /\ run = [w \in Workers |-> run[w]]
  /\ \A w \in Workers : IsRun(run[w]) /\ Knows(run[w], kb, done)

-----------------------------------------------------------------------------
\* Table and runs only grow, and entries keep their fingerprint.
Grown(table, runs, table2, runs2) ==
  /\ \A id \in DOMAIN table :
       /\ id \in DOMAIN table2
       /\ Fingerprint(table2[id]) = Fingerprint(table[id])
  /\ \A n \in DOMAIN runs : n \in DOMAIN runs2 /\ runs2[n] = runs[n]

LEMMA KnowsStays ==
  ASSUME NEW r, NEW table, NEW runs, NEW table2, NEW runs2,
         Knows(r, table, runs), Grown(table, runs, table2, runs2)
  PROVE  Knows(r, table2, runs2)
  <1>1. /\ r.pc = "planned" => IsPlan(r.plan)
        /\ r.pc \in {"finished", "storing"} =>
             /\ r.plan.run \in DOMAIN runs2
             /\ runs2[r.plan.run] = runs[r.plan.run]
    BY DEF Knows, Grown
  <1>2. r.pc = "storing" =>
          /\ Capturable(runs2[r.plan.run])
          /\ \/ r.existing.id = 0
             \/ /\ r.existing.id \in DOMAIN table
                /\ Fingerprint(table[r.existing.id])
                     = Fingerprint(Issues[runs2[r.plan.run].issue])
    BY <1>1 DEF Knows
  <1>3. r.existing.id \in DOMAIN table =>
          /\ r.existing.id \in DOMAIN table2
          /\ Fingerprint(table2[r.existing.id])
               = Fingerprint(table[r.existing.id])
    BY DEF Grown
  <1> QED
    BY <1>1, <1>2, <1>3 DEF Knows

\* A step of one worker that makes the table and the runs grow, soundly.
LEMMA OneWorker ==
  ASSUME ProvenInv, NEW w \in Workers, NEW r,
         run' = [run EXCEPT ![w] = r], IsRun(r), Knows(r, kb', done'),
         IsList(kb'), IsList(done'),
         \A id \in DOMAIN kb' : IsEntry(kb'[id]),
         Sound(kb', done'), Grown(kb, done, kb', done')
  PROVE  ProvenInv'
  <1>1. run = [v \in Workers |-> run[v]]
    BY DEF ProvenInv
  <1>2. run' = [v \in Workers |-> run'[v]]
    BY <1>1
  <1>3. ASSUME NEW v \in Workers
        PROVE  IsRun(run'[v]) /\ Knows(run'[v], kb', done')
    <2>1. CASE v = w
      <3>1. run'[v] = r
        BY <1>1, <2>1
      <3> QED
        BY <3>1
    <2>2. CASE v # w
      <3>1. run'[v] = run[v]
        BY <1>1, <2>2
      <3>2. IsRun(run[v]) /\ Knows(run[v], kb, done)
        BY DEF ProvenInv
      <3>3. Knows(run[v], kb', done')
        BY <3>2, KnowsStays
      <3> QED
        BY <3>1, <3>2, <3>3
    <2> QED
      BY <2>1, <2>2
  <1> QED
    BY <1>2, <1>3 DEF ProvenInv

\* The same of a step that leaves both alone.
LEMMA QuietWorker ==
  ASSUME ProvenInv, NEW w \in Workers, NEW r,
         run' = [run EXCEPT ![w] = r], IsRun(r), Knows(r, kb, done),
         UNCHANGED <<kb, done>>
  PROVE  ProvenInv'
  <1>1. kb' = kb /\ done' = done
    OBVIOUS
  <1>2. Grown(kb, done, kb', done')
    BY <1>1 DEF Grown
  <1>3. /\ IsList(kb') /\ IsList(done') /\ Knows(r, kb', done')
        /\ Sound(kb', done')
    BY <1>1 DEF ProvenInv
  <1>4. \A id \in DOMAIN kb' : IsEntry(kb'[id])
    BY <1>1 DEF ProvenInv
  <1> QED
    BY <1>2, <1>3, <1>4, OneWorker
-----------------------------------------------------------------------------
(* What the table's own updates do to it.                                   *)

\* what an entry owes to the run it came from
From(e, runs) ==
  /\ e.source \in DOMAIN runs
  /\ <<e.steps, e.conf, e.scan>>
       = <<runs[e.source].steps, runs[e.source].conf, runs[e.source].scan>>
  /\ Fingerprint(e) = Fingerprint(Issues[runs[e.source].issue])
  /\ runs[e.source].status = "success" /\ runs[e.source].steps # Fake

LEMMA SoundIs ==
  ASSUME NEW table, NEW runs
  PROVE  Sound(table, runs) <=>
           /\ \A a, b \in DOMAIN table :
                Fingerprint(table[a]) = Fingerprint(table[b]) => a = b
           /\ \A id \in DOMAIN table : From(table[id], runs)
  BY DEF Sound, From

\* An entry may be replaced by one of its fingerprint.
LEMMA Replaced ==
  ASSUME NEW table, NEW runs, NEW id \in DOMAIN table, NEW e, NEW table2,
         table2 = [table EXCEPT ![id] = e],
         IsList(table), Sound(table, runs),
         \A k \in DOMAIN table : IsEntry(table[k]),
         IsEntry(e), From(e, runs), Fingerprint(e) = Fingerprint(table[id])
  PROVE  /\ IsList(table2) /\ Sound(table2, runs)
         /\ \A k \in DOMAIN table2 : IsEntry(table2[k])
         /\ Grown(table, runs, table2, runs)
  <1>1. PICK S : table \in Seq(S)
    BY DEF IsList
  <1>2. table \in Seq(S \union {e})
    BY <1>1
  <1>3. table2 \in Seq(S \union {e}) /\ DOMAIN table2 = DOMAIN table
    BY <1>2
  <1>4. table2[id] = e /\ \A k \in DOMAIN table : k # id => table2[k] = table[k]
    BY <1>1
  <1>5. \A k \in DOMAIN table : Fingerprint(table2[k]) = Fingerprint(table[k])
    BY <1>4
  <1>6. \A k \in DOMAIN table : From(table2[k], runs) /\ IsEntry(table2[k])
    BY <1>4, SoundIs
  <1>7. Sound(table2, runs)
    <2>1. \A k \in DOMAIN table2 : From(table2[k], runs)
      BY <1>3, <1>6
    <2>2. \A a, b \in DOMAIN table :
            Fingerprint(table[a]) = Fingerprint(table[b]) => a = b
      BY SoundIs
    <2>3. \A a, b \in DOMAIN table2 :
            Fingerprint(table2[a]) = Fingerprint(table2[b]) => a = b
      BY <1>3, <1>5, <2>2
    <2> QED
      BY <2>1, <2>3, SoundIs
  <1>8. Grown(table, runs, table2, runs)
    BY <1>3, <1>5 DEF Grown
  <1> QED
    BY <1>3, <1>6, <1>7, <1>8 DEF IsList

\* A row may be added whose fingerprint no entry has.
LEMMA Added ==
  ASSUME NEW table, NEW runs, NEW e, NEW table2, table2 = Append(table, e),
         IsList(table), Sound(table, runs),
         \A k \in DOMAIN table : IsEntry(table[k]),
         IsEntry(e), From(e, runs),
         \A k \in DOMAIN table : Fingerprint(table[k]) # Fingerprint(e)
  PROVE  /\ IsList(table2) /\ Sound(table2, runs)
         /\ \A k \in DOMAIN table2 : IsEntry(table2[k])
         /\ Grown(table, runs, table2, runs)
  <1>1. PICK S : table \in Seq(S)
    BY DEF IsList
  <1>2. table \in Seq(S \union {e})
    BY <1>1
  <1> DEFINE new == Len(table) + 1
  <1>3. /\ table2 \in Seq(S \union {e})
        /\ DOMAIN table2 = DOMAIN table \union {new}
        /\ new \notin DOMAIN table
        /\ table2[new] = e
        /\ \A k \in DOMAIN table : table2[k] = table[k]
    BY <1>2
  <1> HIDE DEF new
  <1>4. \A k \in DOMAIN table2 : From(table2[k], runs) /\ IsEntry(table2[k])
    BY <1>3, SoundIs
  <1>5. \A a, b \in DOMAIN table2 :
          Fingerprint(table2[a]) = Fingerprint(table2[b]) => a = b
    BY <1>3, SoundIs
  <1>6. Sound(table2, runs)
    BY <1>4, <1>5, SoundIs
  <1>7. Grown(table, runs, table2, runs)
    BY <1>3 DEF Grown
  <1> QED
    BY <1>3, <1>4, <1>6, <1>7 DEF IsList

\* A run more does nothing to the table.
LEMMA RunMore ==
  ASSUME NEW table, NEW runs, NEW f, NEW runs2, runs2 = Append(runs, f),
         IsList(runs), Sound(table, runs)
  PROVE  /\ IsList(runs2) /\ Sound(table, runs2)
         /\ Len(runs) + 1 \in DOMAIN runs2
         /\ Grown(table, runs, table, runs2)
  <1>1. PICK S : runs \in Seq(S)
    BY DEF IsList
  <1>2. runs \in Seq(S \union {f})
    BY <1>1
  <1>3. /\ runs2 \in Seq(S \union {f}) /\ Len(runs) + 1 \in DOMAIN runs2
        /\ \A n \in DOMAIN runs : n \in DOMAIN runs2 /\ runs2[n] = runs[n]
    BY <1>2
  <1>4. \A id \in DOMAIN table : From(table[id], runs2)
    BY <1>3, SoundIs DEF From
  <1>5. Sound(table, runs2)
    BY <1>4, SoundIs
  <1> QED
    BY <1>3, <1>5 DEF IsList, Grown

\* What a worker that knows of its capture stores.
LEMMA RowOfRun ==
  ASSUME NEW n \in DOMAIN done, Capturable(done[n])
  PROVE  /\ IsEntry(Row(n)) /\ From(Row(n), done)
         /\ Fingerprint(Row(n)) = Fingerprint(Issues[done[n].issue])
  <1>1. IsEntry(Row(n))
    BY DEF Row, IsEntry, Columns
  <1>2. /\ Row(n).check = Issues[done[n].issue].check
        /\ Row(n).resource = Issues[done[n].issue].resource
        /\ Row(n).file = Issues[done[n].issue].file
        /\ Row(n).steps = done[n].steps /\ Row(n).conf = done[n].conf
        /\ Row(n).scan = done[n].scan /\ Row(n).source = n
    BY DEF Row
  <1> QED
    BY <1>1, <1>2 DEF From, Fingerprint, Capturable

LEMMA ImprovedIs ==
  ASSUME NEW e, NEW row, NEW runs, IsEntry(e), From(row, runs),
         Fingerprint(e) = Fingerprint(row)
  PROVE  /\ IsEntry(Improved(e, row)) /\ From(Improved(e, row), runs)
         /\ Fingerprint(Improved(e, row)) = Fingerprint(e)
  <1>1. IsEntry(Improved(e, row))
    BY DEF Improved, IsEntry, Columns
  <1>2. LET i == Improved(e, row) IN
        /\ i.check = e.check /\ i.resource = e.resource /\ i.file = e.file
        /\ i.steps = row.steps /\ i.conf = row.conf /\ i.scan = row.scan
        /\ i.source = row.source
    BY DEF Improved, IsEntry, Columns
  <1> QED
    BY <1>1, <1>2 DEF From, Fingerprint

LEMMA BumpedIs ==
  ASSUME NEW e, NEW field, NEW count, NEW runs, IsEntry(e), From(e, runs)
  PROVE  /\ IsEntry(Bumped(e, field, count))
         /\ From(Bumped(e, field, count), runs)
         /\ Fingerprint(Bumped(e, field, count)) = Fingerprint(e)
  <1>1. IsEntry(Bumped(e, field, count))
    BY DEF Bumped, IsEntry, Columns
  <1>2. LET i == Bumped(e, field, count) IN
        /\ i.check = e.check /\ i.resource = e.resource /\ i.file = e.file
        /\ i.steps = e.steps /\ i.conf = e.conf /\ i.scan = e.scan
        /\ i.source = e.source
    BY DEF Bumped, IsEntry, Columns
  <1> QED
    BY <1>1, <1>2 DEF From, Fingerprint

-----------------------------------------------------------------------------
(* The steps.                                                               *)

LEMMA ProvenInit == Init => ProvenInv
  <1> SUFFICES ASSUME Init
               PROVE  ProvenInv
    OBVIOUS
  <1>1. PICK seed \in Seeds : kb = seed.kb /\ done = seed.done
    BY DEF Init
  <1>2. /\ IsList(kb) /\ IsList(done) /\ Sound(kb, done)
        /\ \A id \in DOMAIN kb : IsEntry(kb[id])
    BY <1>1, SeedsSound DEF IsList
  <1>3. IsRun(Idle) /\ Idle.pc = "idle"
    BY DEF Idle, IsRun, Slot
  <1>4. Knows(Idle, kb, done)
    BY <1>3 DEF Knows
  <1>5. run = [w \in Workers |-> Idle]
    BY DEF Init
  <1> QED
    BY <1>2, <1>3, <1>4, <1>5 DEF ProvenInv

\* What the invariant says of one worker.
LEMMA Worker ==
  ASSUME ProvenInv, NEW w \in Workers
  PROVE  /\ IsRun(run[w]) /\ Knows(run[w], kb, done)
         /\ run = [v \in Workers |-> run[v]]
  BY DEF ProvenInv

\* A worker that only moves to a place where it need not know anything.
LEMMA Carefree ==
  ASSUME NEW r, NEW table, NEW runs,
         r.pc \notin {"planned", "finished", "storing"}
  PROVE  Knows(r, table, runs)
  BY DEF Knows

\* A worker whose counters change knows what it knew.
LEMMA Counting ==
  ASSUME NEW r, NEW read, NEW todo, NEW table, NEW runs,
         IsRun(r), Knows(r, table, runs)
  PROVE  /\ IsRun([r EXCEPT !.read = read, !.todo = todo])
         /\ Knows([r EXCEPT !.read = read, !.todo = todo], table, runs)
  <1> DEFINE r2 == [r EXCEPT !.read = read, !.todo = todo]
  <1>1. IsRun(r2)
    BY DEF IsRun, Slot
  <1>2. r2.pc = r.pc /\ r2.plan = r.plan /\ r2.existing = r.existing
    BY DEF IsRun, Slot
  <1> QED
    BY <1>1, <1>2 DEF Knows

\* A worker that leaves the capture for its credits.
LEMMA Crediting ==
  ASSUME ProvenInv, NEW w \in Workers, Credit(w, run[w])
  PROVE  \E r : /\ run' = [run EXCEPT ![w] = r]
                /\ IsRun(r) /\ r.pc = "crediting"
  <1> DEFINE todo == Credits(run[w].plan.from, done[run[w].plan.run].status)
             r == [run[w] EXCEPT !.pc = "crediting", !.todo = todo]
  <1>1. run' = [run EXCEPT ![w].pc = "crediting", ![w].todo = todo]
    BY DEF Credit
  <1> HIDE DEF todo
  <1>2. run' = [run EXCEPT ![w] = r]
    BY <1>1, Worker
  <1>3. IsRun(r) /\ r.pc = "crediting"
    BY Worker DEF IsRun, Slot
  <1> QED
    BY <1>2, <1>3

LEMMA FindKeeps ==
  ASSUME ProvenInv, NEW w \in Workers, NEW i, Find(w, i)
  PROVE  ProvenInv'
  <1>1. PICK found :
          run' = [run EXCEPT ![w] =
                    [Idle EXCEPT !.pc = "composing", !.issue = i,
                                 !.found = found]]
    BY DEF Find
  <1> DEFINE r == [Idle EXCEPT !.pc = "composing", !.issue = i,
                               !.found = found]
  <1>2. IsRun(r) /\ r.pc = "composing"
    BY DEF Idle, IsRun, Slot
  <1>3. Knows(r, kb, done)
    BY <1>2, Carefree
  <1>4. UNCHANGED <<kb, done>>
    BY DEF Find
  <1> QED
    BY <1>1, <1>2, <1>3, <1>4, QuietWorker

\* Adapt and Research leave a worker with a plan.
LEMMA Planned ==
  ASSUME ProvenInv, NEW w \in Workers, NEW plan, NEW found, NEW todo,
         IsPlan(plan), UNCHANGED <<kb, done>>,
         run' = [run EXCEPT ![w].pc = "planned", ![w].found = found,
                            ![w].plan = plan, ![w].todo = todo]
  PROVE  ProvenInv'
  <1> DEFINE r == [run[w] EXCEPT !.pc = "planned", !.found = found,
                                 !.plan = plan, !.todo = todo]
  <1>1. run' = [run EXCEPT ![w] = r]
    BY Worker
  <1>2. IsRun(r) /\ r.pc = "planned" /\ r.plan = plan
    BY Worker DEF IsRun, Slot
  <1>3. Knows(r, kb, done)
    BY <1>2 DEF Knows
  <1> QED
    BY <1>1, <1>2, <1>3, QuietWorker

LEMMA AdaptKeeps ==
  ASSUME ProvenInv, NEW w \in Workers, Adapt(w)
  PROVE  ProvenInv'
  <1>1. PICK steps, scan :
          run' = [run EXCEPT ![w].pc = "planned",
                    ![w].plan = [steps |-> steps, conf |-> ReplayScore,
                                 from |-> run[w].found.id, run |-> None,
                                 scan |-> scan]]
    BY DEF Adapt
  <1> DEFINE plan == [steps |-> steps, conf |-> ReplayScore,
                      from |-> run[w].found.id, run |-> None, scan |-> scan]
  <1>2. IsPlan(plan)
    BY DEF IsPlan, PlanFields
  <1> HIDE DEF plan
  <1>3. run' = [run EXCEPT ![w].pc = "planned", ![w].found = run[w].found,
                           ![w].plan = plan, ![w].todo = run[w].todo]
    BY <1>1, Worker DEF plan, IsRun, Slot
  <1>4. UNCHANGED <<kb, done>>
    BY DEF Adapt
  <1> QED
    BY <1>2, <1>3, <1>4, Planned

LEMMA ResearchKeeps ==
  ASSUME ProvenInv, NEW w \in Workers, Research(w)
  PROVE  ProvenInv'
  <1> DEFINE bumps == Bumps(Retrieved(run[w].issue), "reused")
  <1>1. PICK steps \in Recipes \union {Fake}, conf \in Scores,
             scan \in {Issues[run[w].issue].file, None},
             todo \in {bumps, bumps \o bumps} :
          run' = [run EXCEPT ![w].pc = "planned", ![w].found = None,
                    ![w].plan = [steps |-> steps, conf |-> conf,
                                 from |-> None, run |-> None, scan |-> scan],
                    ![w].todo = todo]
    BY Zenon DEF Research
  <1>2. IsPlan([steps |-> steps, conf |-> conf, from |-> None,
                run |-> None, scan |-> scan])
    BY DEF IsPlan, PlanFields
  <1>3. UNCHANGED <<kb, done>>
    BY DEF Research
  <1> QED
    BY <1>1, <1>2, <1>3, Planned

LEMMA ReadCountKeeps ==
  ASSUME ProvenInv, NEW w \in Workers, ReadCount(w)
  PROVE  ProvenInv'
  <1>1. PICK read : run' = [run EXCEPT ![w].read = read]
    BY DEF ReadCount
  <1> DEFINE r == [run[w] EXCEPT !.read = read, !.todo = run[w].todo]
  <1>2. run' = [run EXCEPT ![w] = r]
    BY <1>1, Worker DEF IsRun, Slot
  <1>3. IsRun(r) /\ Knows(r, kb, done)
    <2>1. IsRun(run[w]) /\ Knows(run[w], kb, done)
      BY Worker
    <2> HIDE DEF IsRun, Knows
    <2> QED
      BY <2>1, Counting
  <1>4. UNCHANGED <<kb, done>>
    BY DEF ReadCount
  <1> QED
    BY <1>2, <1>3, <1>4, QuietWorker

LEMMA DropCountKeeps ==
  ASSUME ProvenInv, NEW w \in Workers, DropCount(w)
  PROVE  ProvenInv'
  <1> DEFINE r == [run[w] EXCEPT !.read = None, !.todo = Tail(run[w].todo)]
  <1>1. run' = [run EXCEPT ![w].read = None, ![w].todo = Tail(run[w].todo)]
    BY DEF DropCount
  <1>2. run' = [run EXCEPT ![w] = r]
    BY <1>1, Worker
  <1>3. IsRun(r) /\ Knows(r, kb, done)
    <2>1. IsRun(run[w]) /\ Knows(run[w], kb, done)
      BY Worker
    <2> HIDE DEF IsRun, Knows
    <2> QED
      BY <2>1, Counting
  <1>4. UNCHANGED <<kb, done>>
    BY DEF DropCount
  <1> QED
    BY <1>2, <1>3, <1>4, QuietWorker

\* An entry keeps all but its counters; an id the table lacks changes nothing.
LEMMA WriteCountKeeps ==
  ASSUME ProvenInv, NEW w \in Workers, WriteCount(w)
  PROVE  ProvenInv'
  <1> DEFINE r == [run[w] EXCEPT !.read = None, !.todo = Tail(run[w].todo)]
             id == Head(run[w].todo).id
             e == Bumped(kb[id], Head(run[w].todo).field, run[w].read + 1)
  <1>1. run' = [run EXCEPT ![w].read = None, ![w].todo = Tail(run[w].todo)]
    BY DEF WriteCount
  <1>2. run' = [run EXCEPT ![w] = r]
    BY <1>1, Worker
  <1>3. IsRun(r) /\ Knows(r, kb, done)
    <2>1. IsRun(run[w]) /\ Knows(run[w], kb, done)
      BY Worker
    <2> HIDE DEF IsRun, Knows
    <2> QED
      BY <2>1, Counting
  <1>4. kb' = [kb EXCEPT ![id] = e] /\ done' = done
    BY DEF WriteCount
  <1>5. /\ IsList(kb) /\ IsList(done) /\ Sound(kb, done)
        /\ \A k \in DOMAIN kb : IsEntry(kb[k])
    BY DEF ProvenInv
  <1> HIDE DEF id, r
  <1>6. CASE id \in DOMAIN kb
    <2>1. IsEntry(e) /\ From(e, done) /\ Fingerprint(e) = Fingerprint(kb[id])
      BY <1>5, <1>6, SoundIs, BumpedIs
    <2> HIDE DEF e
    <2>2. /\ IsList(kb') /\ Sound(kb', done)
          /\ \A k \in DOMAIN kb' : IsEntry(kb'[k])
          /\ Grown(kb, done, kb', done)
      BY <1>4, <1>5, <1>6, <2>1, Replaced
    <2>3. Knows(r, kb', done)
      BY <1>3, <2>2, KnowsStays
    <2> QED
      BY <1>2, <1>3, <1>4, <1>5, <2>2, <2>3, OneWorker
  <1>7. CASE id \notin DOMAIN kb
    <2> HIDE DEF e
    <2>1. PICK S : kb \in Seq(S)
      BY <1>5 DEF IsList
    <2>2. kb' = kb
      BY <1>4, <1>7, <2>1
    <2> QED
      BY <1>2, <1>3, <1>4, <2>2, QuietWorker
  <1> QED
    BY <1>6, <1>7

LEMMA ExecuteKeeps ==
  ASSUME ProvenInv, NEW w \in Workers, Execute(w)
  PROVE  ProvenInv'
  <1>1. PICK f : done' = Append(done, f)
    BY DEF Execute
  <1> DEFINE n == Len(done) + 1
             r == [run[w] EXCEPT !.pc = "finished",
                                 !.plan = [run[w].plan EXCEPT !.run = n]]
  <1>2. run' = [run EXCEPT ![w].pc = "finished", ![w].plan.run = n]
    BY DEF Execute
  <1>3. kb' = kb /\ run[w].pc = "planned"
    BY DEF Execute
  <1>4. IsPlan(run[w].plan)
    BY <1>3, Worker DEF Knows
  <1>5. /\ IsList(kb) /\ IsList(done) /\ Sound(kb, done)
        /\ \A k \in DOMAIN kb : IsEntry(kb[k])
    BY DEF ProvenInv
  <1>6. /\ IsList(done') /\ Sound(kb, done') /\ n \in DOMAIN done'
        /\ Grown(kb, done, kb, done')
    BY <1>1, <1>5, RunMore
  <1> HIDE DEF n
  <1>7. run' = [run EXCEPT ![w] = r]
    BY <1>2, Worker DEF IsRun, Slot
  <1>8. IsRun(r) /\ r.pc = "finished" /\ r.plan.run = n
    BY <1>4, Worker DEF IsRun, Slot, IsPlan, PlanFields
  <1>9. Knows(r, kb, done')
    BY <1>6, <1>8 DEF Knows
  <1> HIDE DEF r
  <1> QED
    BY <1>3, <1>5, <1>6, <1>7, <1>8, <1>9, OneWorker

\* Credit, when table and runs have grown soundly or not at all.
LEMMA CreditKeeps ==
  ASSUME ProvenInv, NEW w \in Workers, Credit(w, run[w]), done' = done,
         IsList(kb'), Sound(kb', done), Grown(kb, done, kb', done),
         \A k \in DOMAIN kb' : IsEntry(kb'[k])
  PROVE  ProvenInv'
  <1>1. PICK r : /\ run' = [run EXCEPT ![w] = r]
                 /\ IsRun(r) /\ r.pc = "crediting"
    BY Crediting
  <1>2. Knows(r, kb', done)
    BY <1>1, Carefree
  <1>3. IsList(done)
    BY DEF ProvenInv
  <1> QED
    BY <1>1, <1>2, <1>3, OneWorker

\* The premises of CreditKeeps when the table stays.
LEMMA TableStays ==
  ASSUME ProvenInv, kb' = kb
  PROVE  /\ IsList(kb') /\ Sound(kb', done) /\ Grown(kb, done, kb', done)
         /\ \A k \in DOMAIN kb' : IsEntry(kb'[k])
  BY DEF ProvenInv, Grown

LEMMA LookUpKeeps ==
  ASSUME ProvenInv, NEW w \in Workers, LookUp(w)
  PROVE  ProvenInv'
  <1> DEFINE n == run[w].plan.run
  <1>1. n \in DOMAIN done /\ kb' = kb /\ done' = done
    BY Worker DEF LookUp, Knows
  <1>2. CASE ~Capturable(done[n])
    <2>1. Credit(w, run[w])
      BY <1>2 DEF LookUp
    <2> QED
      BY <1>1, <2>1, TableStays, CreditKeeps
  <1>3. CASE Capturable(done[n])
    <2>1. PICK id, conf :
            /\ id \in IF Same(n) = {} THEN {0} ELSE Same(n)
            /\ run' = [run EXCEPT ![w].pc = "storing",
                         ![w].existing = [id |-> id, conf |-> conf]]
      BY <1>3 DEF LookUp
    <2> DEFINE r == [run[w] EXCEPT !.pc = "storing",
                                   !.existing = [id |-> id, conf |-> conf]]
    <2>2. run' = [run EXCEPT ![w] = r]
      BY <2>1, Worker
    <2>3. /\ IsRun(r) /\ r.pc = "storing" /\ r.plan.run = n
          /\ r.existing.id = id
      BY Worker DEF IsRun, Slot
    <2>4. id = 0 \/ id \in Same(n)
      BY <2>1
    <2>5. id = 0 \/ /\ id \in DOMAIN kb
                    /\ Fingerprint(kb[id]) = Fingerprint(Row(n))
      BY <2>4 DEF Same
    <2>6. Fingerprint(Row(n)) = Fingerprint(Issues[done[n].issue])
      BY <1>1, <1>3, RowOfRun
    <2> HIDE DEF n, r
    <2>7. Knows(r, kb, done)
      BY <1>1, <1>3, <2>3, <2>5, <2>6 DEF Knows
    <2> QED
      BY <1>1, <2>2, <2>3, <2>7, QuietWorker
  <1> QED
    BY <1>2, <1>3

LEMMA StoreKeeps ==
  ASSUME ProvenInv, NEW w \in Workers, Store(w)
  PROVE  ProvenInv'
  <1> DEFINE n == run[w].plan.run
             row == Row(n)
             id == run[w].existing.id
  <1>1. /\ run[w].pc = "storing" /\ done' = done /\ Credit(w, run[w])
        /\ \/ id = 0 /\ kb' = Stored(row)
           \/ id # 0 /\ kb' = [kb EXCEPT ![id] = Improved(kb[id], row)]
           \/ kb' = kb
    BY DEF Store
  <1>2. /\ n \in DOMAIN done /\ Capturable(done[n])
        /\ \/ id = 0
           \/ /\ id \in DOMAIN kb
              /\ Fingerprint(kb[id]) = Fingerprint(Issues[done[n].issue])
    BY <1>1, Worker DEF Knows
  <1>3. /\ IsEntry(row) /\ From(row, done)
        /\ Fingerprint(row) = Fingerprint(Issues[done[n].issue])
    BY <1>2, RowOfRun
  <1>4. /\ IsList(kb) /\ Sound(kb, done)
        /\ \A k \in DOMAIN kb : IsEntry(kb[k])
    BY DEF ProvenInv
  <1> HIDE DEF n, row, id
  <1>5. CASE kb' = kb
    BY <1>1, <1>5, TableStays, CreditKeeps
  <1>6. CASE id = 0 /\ kb' = Stored(row) /\ kb' # kb
    <2>1. /\ kb' = Append(kb, row)
          /\ \A k \in DOMAIN kb : Fingerprint(kb[k]) # Fingerprint(row)
      BY <1>6 DEF Stored
    <2>2. /\ IsList(kb') /\ Sound(kb', done) /\ Grown(kb, done, kb', done)
          /\ \A k \in DOMAIN kb' : IsEntry(kb'[k])
      BY <1>3, <1>4, <2>1, Added
    <2> QED
      BY <1>1, <2>2, CreditKeeps
  <1>7. CASE id # 0 /\ kb' = [kb EXCEPT ![id] = Improved(kb[id], row)]
    <2>1. id \in DOMAIN kb /\ Fingerprint(kb[id]) = Fingerprint(row)
      BY <1>2, <1>3, <1>7
    <2>2. /\ IsEntry(Improved(kb[id], row)) /\ From(Improved(kb[id], row), done)
          /\ Fingerprint(Improved(kb[id], row)) = Fingerprint(kb[id])
      BY <1>3, <1>4, <2>1, ImprovedIs
    <2>3. /\ IsList(kb') /\ Sound(kb', done) /\ Grown(kb, done, kb', done)
          /\ \A k \in DOMAIN kb' : IsEntry(kb'[k])
      BY <1>4, <1>7, <2>1, <2>2, Replaced
    <2> QED
      BY <1>1, <2>3, CreditKeeps
  <1> QED
    BY <1>1, <1>5, <1>6, <1>7

LEMMA RestKeeps ==
  ASSUME ProvenInv, NEW w \in Workers, Rest(w)
  PROVE  ProvenInv'
  <1>1. run' = [run EXCEPT ![w] = Idle] /\ UNCHANGED <<kb, done>>
    BY DEF Rest
  <1>2. IsRun(Idle) /\ Idle.pc = "idle"
    BY DEF Idle, IsRun, Slot
  <1> HIDE DEF Idle
  <1> QED
    BY <1>1, <1>2, Carefree, QuietWorker

LEMMA ProvenStep == ProvenInv /\ [Next]_vars => ProvenInv'
  <1> SUFFICES ASSUME ProvenInv, [Next]_vars
               PROVE  ProvenInv'
    OBVIOUS
  <1>1. CASE UNCHANGED vars
    BY <1>1 DEF vars, ProvenInv
  <1>2. CASE Next
    <2>1. PICK w \in Workers :
            \/ \E i \in DOMAIN Issues : Find(w, i)
            \/ Adapt(w) \/ Research(w)
            \/ ReadCount(w) \/ WriteCount(w) \/ DropCount(w)
            \/ Execute(w) \/ LookUp(w) \/ Store(w) \/ DropCapture(w)
            \/ Rest(w)
      BY <1>2 DEF Next
    <2>2. CASE DropCapture(w)
      <3>1. Credit(w, run[w]) /\ kb' = kb /\ done' = done
        BY <2>2 DEF DropCapture
      <3> QED
        BY <3>1, TableStays, CreditKeeps
    <2> QED
      BY <2>1, <2>2, FindKeeps, AdaptKeeps, ResearchKeeps, ReadCountKeeps,
         WriteCountKeeps, DropCountKeeps, ExecuteKeeps, LookUpKeeps,
         StoreKeeps, RestKeeps
  <1> QED
    BY <1>1, <1>2

\* However the captures, replays and counter updates of any number of runs
\* interleave, and whatever query of theirs fails, an entry of the knowledge
\* base is the only one of its fingerprint and holds the pathway, the scan and
\* the confidence of one run of that fingerprint, which succeeded
\* (capture_successful_fix, migration 0036).
THEOREM AlwaysProven == Spec => []Proven
  <1>1. ProvenInv => Proven
    BY DEF ProvenInv, Proven
  <1> QED
    BY <1>1, ProvenInit, ProvenStep, PTL DEF Spec

-----------------------------------------------------------------------------
(* The counters of an entry, against what its replays did.                  *)

TrialRecord == [tried : Nat, won : Nat, exact : BOOLEAN]

Reuse(id) == [id |-> id, field |-> "reused"]
Success(id) == [id |-> id, field |-> "succeeded"]

\* a worker that has replayed entry id and has not booked it yet
Use(r, id) ==
  /\ r.pc \in {"finished", "storing", "crediting"} /\ r.plan.from = id
  /\ r.pc = "crediting" =>
       r.todo = <<Reuse(id)>> \/ r.todo = <<Reuse(id), Success(id)>>

\* ... and has not booked yet that this replay succeeded
Win(r, id, runs) ==
  /\ r.pc \in {"finished", "storing", "crediting"} /\ r.plan.from = id
  /\ IF r.pc = "crediting"
     THEN r.todo = <<Success(id)>> \/ r.todo = <<Reuse(id), Success(id)>>
     ELSE runs[r.plan.run].status = "success"

Uses(id) == {w \in Workers : Use(run[w], id)}
Wins(id) == {w \in Workers : Win(run[w], id, done)}

\* What a worker has in hand: the entry it replays, and what it has to book.
Books(r, table) ==
  /\ r.pc = "idle" => r = Idle
  /\ r.pc = "composing" =>
       r.todo = <<>> /\ (r.found # None => r.found.id \in DOMAIN table)
  /\ r.pc \notin {"idle", "composing"} =>
       /\ IsPlan(r.plan)
       /\ \/ /\ r.plan.from = None
             /\ IsList(r.todo)
             /\ \A k \in DOMAIN r.todo : r.todo[k].field = "reused"
          \/ /\ r.plan.from \in DOMAIN table
             /\ \/ r.todo = <<>>
                \/ /\ r.pc = "crediting"
                   /\ \/ r.todo = <<Reuse(r.plan.from)>>
                      \/ r.todo = <<Success(r.plan.from)>>
                      \/ r.todo = <<Reuse(r.plan.from), Success(r.plan.from)>>
  /\ r.pc \in {"finished", "storing"} => r.todo = <<>>

\* An entry none of whose updates was lost counts, with the bookings that are
\* under way, every replay that finished and no success too many.
Counts(entry, t, uses, wins) ==
  t.exact =>
    /\ entry.reused \in Nat /\ entry.succeeded \in Nat
    /\ entry.reused + uses >= t.tried
    /\ entry.succeeded + wins <= t.won

CountInv ==
  /\ ProvenInv
  /\ trial \in Seq(TrialRecord) /\ Len(trial) = Len(kb)
  /\ \A w \in Workers : Books(run[w], kb)
  /\ \A id \in DOMAIN kb :
       Counts(kb[id], trial[id], Cardinality(Uses(id)), Cardinality(Wins(id)))

LEMMA SomeWorkers ==
  ASSUME NEW A \in SUBSET Workers
  PROVE  IsFiniteSet(A) /\ Cardinality(A) \in Nat
  BY KBAssumption, FS_Subset, FS_CardinalityType

One(condition) == IF condition THEN 1 ELSE 0

\* Sets of workers that differ in one worker at most.
LEMMA OneDiffers ==
  ASSUME NEW A \in SUBSET Workers, NEW B \in SUBSET Workers, NEW w \in Workers,
         A \ {w} = B \ {w}
  PROVE  Cardinality(B) + One(w \in A) = Cardinality(A) + One(w \in B)
  <1>1. /\ IsFiniteSet(A) /\ Cardinality(A) \in Nat
        /\ IsFiniteSet(B) /\ Cardinality(B) \in Nat
    BY SomeWorkers
  <1>2. CASE w \in A /\ w \in B
    <2>1. A = B
      BY <1>2
    <2> QED BY <1>1, <1>2, <2>1 DEF One
  <1>3. CASE w \notin A /\ w \notin B
    <2>1. A = B
      BY <1>3
    <2> QED BY <1>1, <1>3, <2>1 DEF One
  <1>4. CASE w \in A /\ w \notin B
    <2>1. B = A \ {w}
      BY <1>4
    <2>2. Cardinality(B) = Cardinality(A) - 1
      BY <1>1, <1>4, <2>1, FS_RemoveElement
    <2> QED BY <1>1, <1>4, <2>2 DEF One
  <1>5. CASE w \notin A /\ w \in B
    <2>1. B = A \cup {w}
      BY <1>5
    <2>2. Cardinality(B) = Cardinality(A) + 1
      BY <1>1, <1>5, <2>1, FS_AddElement
    <2> QED BY <1>1, <1>5, <2>2 DEF One
  <1> QED BY <1>2, <1>3, <1>4, <1>5

\* What a step of one worker, from r to r2, may do to the account of an entry.
Fair(id, entry, entry2, t, t2, r, r2, runs, runs2) ==
  t2.exact =>
    /\ t.exact
    /\ entry.reused \in Nat /\ entry.succeeded \in Nat =>
         /\ entry2.reused \in Nat /\ entry2.succeeded \in Nat
         /\ entry2.reused + One(Use(r2, id)) + t.tried
              >= entry.reused + One(Use(r, id)) + t2.tried
         /\ entry2.succeeded + One(Win(r2, id, runs2)) + t.won
              <= entry.succeeded + One(Win(r, id, runs)) + t2.won

\* A worker with something to book replays an entry of the table.
LEMMA OwesAnEntry ==
  ASSUME NEW r, NEW table, NEW runs, NEW id \in Nat, Books(r, table),
         Use(r, id) \/ Win(r, id, runs)
  PROVE  id \in DOMAIN table
  <1>1. r.pc \notin {"idle", "composing"} /\ r.plan.from = id
    BY DEF Use, Win
  <1>2. id # None
    BY KBAssumption
  <1> QED BY <1>1, <1>2 DEF Books

LEMMA BooksStay ==
  ASSUME NEW r, NEW table, NEW table2, Books(r, table),
         DOMAIN table \subseteq DOMAIN table2
  PROVE  Books(r, table2)
  BY DEF Books

\* A step of one worker that treats every account fairly.
LEMMA AccountStep ==
  ASSUME CountInv, ProvenInv', NEW w \in Workers, NEW r,
         run' = [run EXCEPT ![w] = r], Books(r, kb'),
         DOMAIN kb \subseteq DOMAIN kb',
         trial' \in Seq(TrialRecord), Len(trial') = Len(kb'),
         \A n \in DOMAIN done : done'[n] = done[n],
         \A id \in DOMAIN kb :
           Fair(id, kb[id], kb'[id], trial[id], trial'[id], run[w], r, done, done'),
         \A id \in DOMAIN kb' \ DOMAIN kb :
           /\ kb'[id].reused = 0 /\ kb'[id].succeeded = 0
           /\ trial'[id].tried = 0 /\ trial'[id].won = 0
           /\ ~Use(r, id) /\ ~Win(r, id, done')
  PROVE  CountInv'
  <1>1. run'[w] = r /\ \A v \in Workers : v # w => run'[v] = run[v]
    BY DEF CountInv, ProvenInv
  <1>2. \A v \in Workers : Books(run'[v], kb')
    BY <1>1, BooksStay DEF CountInv
  <1>3. ASSUME NEW v \in Workers, v # w, NEW id
        PROVE  Win(run[v], id, done') <=> Win(run[v], id, done)
    <2>1. Knows(run[v], kb, done)
      BY DEF CountInv, ProvenInv
    <2> QED BY <2>1 DEF Knows, Win
  <1>4. DOMAIN kb \subseteq Nat /\ DOMAIN kb' \subseteq Nat
    BY DEF CountInv, ProvenInv, IsList
  <1>5. ASSUME NEW id \in DOMAIN kb'
        PROVE  Counts(kb'[id], trial'[id], Cardinality(Uses(id)'),
                      Cardinality(Wins(id)'))
    <2> DEFINE U == Uses(id)
               U2 == {v \in Workers : Use(run'[v], id)}
               W == Wins(id)
               W2 == {v \in Workers : Win(run'[v], id, done')}
    <2>1. U \in SUBSET Workers /\ U2 \in SUBSET Workers /\ U \ {w} = U2 \ {w}
      BY <1>1 DEF Uses
    <2>2. W \in SUBSET Workers /\ W2 \in SUBSET Workers /\ W \ {w} = W2 \ {w}
      BY <1>1, <1>3 DEF Wins
    <2>3. /\ w \in U <=> Use(run[w], id)
          /\ w \in U2 <=> Use(r, id)
          /\ w \in W <=> Win(run[w], id, done)
          /\ w \in W2 <=> Win(r, id, done')
      BY <1>1 DEF Uses, Wins
    <2>4. Uses(id)' = U2 /\ Wins(id)' = W2
      BY DEF Uses, Wins
    <2> HIDE DEF U, U2, W, W2
    <2>5. /\ Cardinality(U2) + One(Use(run[w], id))
               = Cardinality(U) + One(Use(r, id))
          /\ Cardinality(W2) + One(Win(run[w], id, done))
               = Cardinality(W) + One(Win(r, id, done'))
      <3>1. Cardinality(U2) + One(w \in U) = Cardinality(U) + One(w \in U2)
        BY <2>1, OneDiffers
      <3>2. Cardinality(W2) + One(w \in W) = Cardinality(W) + One(w \in W2)
        BY <2>2, OneDiffers
      <3> QED BY <2>3, <3>1, <3>2 DEF One
    <2>6. /\ Cardinality(U) \in Nat /\ Cardinality(U2) \in Nat
          /\ Cardinality(W) \in Nat /\ Cardinality(W2) \in Nat
      BY <2>1, <2>2, SomeWorkers
    <2>7. trial'[id] \in TrialRecord
      BY DEF CountInv, ProvenInv, IsList
    <2>8. CASE id \in DOMAIN kb
      <3> DEFINE u == One(Use(run[w], id))
                 u2 == One(Use(r, id))
                 v == One(Win(run[w], id, done))
                 v2 == One(Win(r, id, done'))
      <3>1. u \in Nat /\ u2 \in Nat /\ v \in Nat /\ v2 \in Nat
        BY DEF One
      <3>2. trial[id] \in TrialRecord
        BY <2>8 DEF CountInv, ProvenInv, IsList
      <3>3. Counts(kb[id], trial[id], Cardinality(U), Cardinality(W))
        BY <2>8 DEF CountInv, U, W
      <3>4. trial'[id].exact =>
              /\ trial[id].exact
              /\ kb[id].reused \in Nat /\ kb[id].succeeded \in Nat =>
                   /\ kb'[id].reused \in Nat /\ kb'[id].succeeded \in Nat
                   /\ kb'[id].reused + u2 + trial[id].tried
                        >= kb[id].reused + u + trial'[id].tried
                   /\ kb'[id].succeeded + v2 + trial[id].won
                        <= kb[id].succeeded + v + trial'[id].won
        BY <2>8 DEF Fair
      <3>5. /\ trial[id].tried \in Nat /\ trial[id].won \in Nat
            /\ trial'[id].tried \in Nat /\ trial'[id].won \in Nat
        BY <2>7, <3>2 DEF TrialRecord
      <3>6. /\ Cardinality(U2) + u = Cardinality(U) + u2
            /\ Cardinality(W2) + v = Cardinality(W) + v2
        BY <2>5
      <3> HIDE DEF u, u2, v, v2
      <3>7. Counts(kb'[id], trial'[id], Cardinality(U2), Cardinality(W2))
        <4>1. SUFFICES ASSUME trial'[id].exact
                       PROVE  /\ kb'[id].reused \in Nat /\ kb'[id].succeeded \in Nat
                              /\ kb'[id].reused + Cardinality(U2) >= trial'[id].tried
                              /\ kb'[id].succeeded + Cardinality(W2) <= trial'[id].won
          BY DEF Counts
        <4>2. /\ kb[id].reused \in Nat /\ kb[id].succeeded \in Nat
              /\ kb[id].reused + Cardinality(U) >= trial[id].tried
              /\ kb[id].succeeded + Cardinality(W) <= trial[id].won
          BY <3>3, <3>4, <4>1 DEF Counts
        <4>3. /\ kb'[id].reused \in Nat /\ kb'[id].succeeded \in Nat
              /\ kb'[id].reused + u2 + trial[id].tried
                        >= kb[id].reused + u + trial'[id].tried
              /\ kb'[id].succeeded + v2 + trial[id].won
                        <= kb[id].succeeded + v + trial'[id].won
          BY <3>4, <4>1, <4>2
        <4>4. PICK a \in Nat, a2 \in Nat, b \in Nat, b2 \in Nat :
                /\ a = kb[id].reused /\ a2 = kb'[id].reused
                /\ b = kb[id].succeeded /\ b2 = kb'[id].succeeded
          BY <4>2, <4>3
        <4>5. PICK c \in Nat, c2 \in Nat, d \in Nat, d2 \in Nat :
                /\ c = Cardinality(U) /\ c2 = Cardinality(U2)
                /\ d = Cardinality(W) /\ d2 = Cardinality(W2)
          BY <2>6
        <4>6. PICK m \in Nat, m2 \in Nat, n \in Nat, n2 \in Nat :
                /\ m = trial[id].tried /\ m2 = trial'[id].tried
                /\ n = trial[id].won /\ n2 = trial'[id].won
          BY <3>5
        <4>7. PICK x \in Nat, x2 \in Nat, y \in Nat, y2 \in Nat :
                x = u /\ x2 = u2 /\ y = v /\ y2 = v2
          BY <3>1
        <4>8. /\ a + c >= m /\ a2 + x2 + m >= a + x + m2 /\ c2 + x = c + x2
              /\ b + d <= n /\ b2 + y2 + n <= b + y + n2 /\ d2 + y = d + y2
          BY <3>6, <4>2, <4>3, <4>4, <4>5, <4>6, <4>7
        <4>9. a2 + c2 >= m2 /\ b2 + d2 <= n2
          BY <4>8
        <4> QED BY <4>3, <4>4, <4>5, <4>6, <4>9
      <3> QED BY <2>4, <3>7
    <2>9. CASE id \notin DOMAIN kb
      <3>1. \A v \in Workers : ~Use(run[v], id) /\ ~Win(run[v], id, done)
        BY <1>4, <2>9, OwesAnEntry DEF CountInv
      <3>2. Cardinality(U) = 0 /\ Cardinality(W) = 0
        <4>1. U = {} /\ W = {}
          BY <3>1 DEF U, W, Uses, Wins
        <4> QED BY <4>1, FS_EmptySet
      <3>3. Cardinality(U2) = 0 /\ Cardinality(W2) = 0
        BY <1>5, <2>5, <2>6, <2>9, <3>1, <3>2 DEF One
      <3>4. Counts(kb'[id], trial'[id], 0, 0)
        <4>1. /\ kb'[id].reused = 0 /\ kb'[id].succeeded = 0
              /\ trial'[id].tried = 0 /\ trial'[id].won = 0
          BY <1>5, <2>9
        <4> QED BY <4>1 DEF Counts
      <3> QED BY <2>4, <3>3, <3>4
    <2> QED BY <2>8, <2>9
  <1> QED
    BY <1>2, <1>5 DEF CountInv

\* One that leaves the table and the trials alone and owes what it owed.
LEMMA NothingBooked ==
  ASSUME CountInv, ProvenInv', NEW w \in Workers, NEW r,
         run' = [run EXCEPT ![w] = r], Books(r, kb),
         UNCHANGED <<kb, trial>>, \A n \in DOMAIN done : done'[n] = done[n],
         \A id \in DOMAIN kb :
           /\ Use(r, id) <=> Use(run[w], id)
           /\ Win(r, id, done') <=> Win(run[w], id, done)
  PROVE  CountInv'
  <1>1. ASSUME NEW id \in DOMAIN kb
        PROVE  Fair(id, kb[id], kb'[id], trial[id], trial'[id], run[w], r,
                    done, done')
    <2>1. trial[id] \in TrialRecord
      BY DEF CountInv, ProvenInv, IsList
    <2>2. /\ One(Use(r, id)) = One(Use(run[w], id))
          /\ One(Win(r, id, done')) = One(Win(run[w], id, done))
          /\ One(Use(r, id)) \in Nat /\ One(Win(r, id, done')) \in Nat
      BY DEF One
    <2>3. trial[id].tried \in Nat /\ trial[id].won \in Nat
      BY <2>1 DEF TrialRecord
    <2> QED BY <2>2, <2>3 DEF Fair
  <1>2. trial' \in Seq(TrialRecord) /\ Len(trial') = Len(kb')
    BY DEF CountInv
  <1> QED BY <1>1, <1>2, AccountStep

-----------------------------------------------------------------------------
(* The steps, by what they do to the accounts.                              *)

LEMMA CountInit == Init => CountInv
  <1> SUFFICES ASSUME Init PROVE CountInv
    OBVIOUS
  <1>1. ProvenInv
    BY ProvenInit
  <1>2. PICK seed \in Seeds :
          /\ kb = seed.kb
          /\ trial = [id \in DOMAIN seed.kb |-> Trial(seed.kb[id])]
    BY DEF Init
  <1>3. ASSUME NEW id \in DOMAIN kb
        PROVE  /\ kb[id].reused \in Nat /\ kb[id].succeeded \in Nat
               /\ trial[id].tried = kb[id].reused
               /\ trial[id].won = kb[id].succeeded
               /\ trial[id] \in TrialRecord
    <2>1. kb[id].reused \in Nat /\ kb[id].succeeded \in Nat
      BY <1>2, SeedsSound
    <2>2. trial[id] = [tried |-> kb[id].reused, won |-> kb[id].succeeded,
                       exact |-> TRUE]
      BY <1>2 DEF Trial
    <2> QED BY <2>1, <2>2 DEF TrialRecord
  <1>4. trial \in Seq(TrialRecord) /\ Len(trial) = Len(kb)
    <2>1. Len(kb) \in Nat /\ DOMAIN kb = 1 .. Len(kb)
      BY <1>1 DEF ProvenInv, IsList
    <2>2. trial \in [1 .. Len(kb) -> TrialRecord]
      BY <1>2, <1>3, <2>1
    <2> QED BY <2>1, <2>2
  <1>5. run = [w \in Workers |-> Idle] /\ Idle.pc = "idle"
    BY DEF Init, Idle
  <1>6. ASSUME NEW id PROVE Uses(id) = {} /\ Wins(id) = {}
    BY <1>5 DEF Uses, Wins, Use, Win
  <1>7. \A w \in Workers : Books(run[w], kb)
    BY <1>5 DEF Books
  <1>8. ASSUME NEW id \in DOMAIN kb
        PROVE  Counts(kb[id], trial[id], Cardinality(Uses(id)),
                      Cardinality(Wins(id)))
    <2>1. Cardinality(Uses(id)) = 0 /\ Cardinality(Wins(id)) = 0
      BY <1>6, FS_EmptySet
    <2> QED BY <1>3, <1>8, <2>1 DEF Counts
  <1> QED BY <1>1, <1>4, <1>7, <1>8 DEF CountInv

\* A worker before its fix run owes nothing.
LEMMA OwesNothing ==
  ASSUME NEW r, NEW id, NEW runs, r.pc \notin {"finished", "storing", "crediting"}
  PROVE  ~Use(r, id) /\ ~Win(r, id, runs)
  BY DEF Use, Win

\* What a replay looks for is an entry that the gates let through.
LEMMA CandidateIs ==
  ASSUME NEW i, NEW id \in Candidates(i), id # None
  PROVE  id \in DOMAIN kb /\ ~Disproven(kb[id])
  BY DEF Candidates

LEMMA FindCounts ==
  ASSUME CountInv, ProvenInv', NEW w \in Workers, NEW i, Find(w, i)
  PROVE  CountInv'
  <1>1. PICK id \in Candidates(i) :
          run' = [run EXCEPT ![w] =
                    [Idle EXCEPT !.pc = "composing", !.issue = i,
                       !.found = IF id = None THEN None
                                 ELSE [id |-> id, scan |-> kb[id].scan]]]
    BY DEF Find
  <1> DEFINE found == IF id = None THEN None ELSE [id |-> id, scan |-> kb[id].scan]
             r == [Idle EXCEPT !.pc = "composing", !.issue = i, !.found = found]
  <1>2. found # None => found.id \in DOMAIN kb
    BY CandidateIs
  <1> HIDE DEF found
  <1>3. r.pc = "composing" /\ r.found = found /\ r.todo = <<>>
    BY DEF Idle
  <1> HIDE DEF r
  <1>4. Books(r, kb)
    BY <1>2, <1>3 DEF Books
  <1>5. run[w].pc = "idle" /\ UNCHANGED <<kb, trial, done>>
    BY DEF Find
  <1>6. run' = [run EXCEPT ![w] = r]
    BY <1>1 DEF r, found
  <1> QED BY <1>3, <1>4, <1>5, <1>6, OwesNothing, NothingBooked

\* Adapt and Research, which leave a worker with a plan.
LEMMA PlannedCounts ==
  ASSUME CountInv, ProvenInv', NEW w \in Workers, NEW plan, NEW found, NEW todo,
         IsPlan(plan), UNCHANGED <<kb, trial, done>>, run[w].pc = "composing",
         run' = [run EXCEPT ![w].pc = "planned", ![w].found = found,
                            ![w].plan = plan, ![w].todo = todo],
         \/ /\ plan.from = None /\ IsList(todo)
            /\ \A k \in DOMAIN todo : todo[k].field = "reused"
         \/ plan.from \in DOMAIN kb /\ todo = <<>>
  PROVE  CountInv'
  <1> DEFINE r == [run[w] EXCEPT !.pc = "planned", !.found = found,
                                 !.plan = plan, !.todo = todo]
  <1>1. IsRun(run[w]) /\ run = [v \in Workers |-> run[v]]
    BY Worker DEF CountInv
  <1>2. run' = [run EXCEPT ![w] = r]
    BY <1>1
  <1>3. r.pc = "planned" /\ r.plan = plan /\ r.todo = todo
    BY <1>1 DEF IsRun, Slot
  <1> HIDE DEF r
  <1>4. Books(r, kb)
    BY <1>3 DEF Books
  <1> QED BY <1>2, <1>3, <1>4, OwesNothing, NothingBooked

LEMMA AdaptCounts ==
  ASSUME CountInv, ProvenInv', NEW w \in Workers, Adapt(w)
  PROVE  CountInv'
  <1>1. PICK steps, scan :
          run' = [run EXCEPT ![w].pc = "planned",
                    ![w].plan = [steps |-> steps, conf |-> ReplayScore,
                                 from |-> run[w].found.id, run |-> None,
                                 scan |-> scan]]
    BY DEF Adapt
  <1> DEFINE plan == [steps |-> steps, conf |-> ReplayScore,
                      from |-> run[w].found.id, run |-> None, scan |-> scan]
  <1>2. /\ run[w].pc = "composing" /\ run[w].found # None
        /\ UNCHANGED <<kb, trial, done>>
    BY DEF Adapt
  <1>3. run[w].todo = <<>> /\ run[w].found.id \in DOMAIN kb
    BY <1>2 DEF CountInv, Books
  <1>4. IsPlan(plan) /\ plan.from \in DOMAIN kb
    BY <1>3 DEF IsPlan, PlanFields
  <1> HIDE DEF plan
  <1>5. IsRun(run[w]) /\ run = [v \in Workers |-> run[v]]
    BY Worker DEF CountInv
  <1>6. run' = [run EXCEPT ![w].pc = "planned", ![w].found = run[w].found,
                           ![w].plan = plan, ![w].todo = run[w].todo]
    BY <1>1, <1>5 DEF plan, IsRun, Slot
  <1> QED BY <1>2, <1>3, <1>4, <1>6, PlannedCounts

\* The bumps of the examples are a list of reuses.
LEMMA RankedList ==
  ASSUME ProvenInv, NEW ids \in SUBSET DOMAIN kb
  PROVE  IsList(Ranked(ids))
  <1>1. IsFiniteSet(ids)
    <2>1. Len(kb) \in Nat /\ DOMAIN kb = 1 .. Len(kb)
      BY DEF ProvenInv, IsList
    <2>2. IsFiniteSet(1 .. Len(kb))
      BY <2>1, FS_Interval
    <2> QED BY <2>1, <2>2, FS_Subset
  <1>2. Cardinality(ids) \in Nat
    BY <1>1, FS_CardinalityType
  <1> DEFINE n == Cardinality(ids)
             X == {Ranked(ids)[k] : k \in 1 .. n}
  <1> DEFINE F(k) == CHOOSE id \in ids :
                       Cardinality({other \in ids : Better(other, id)}) = k - 1
  <1>3. Ranked(ids) = [k \in 1 .. n |-> F(k)]
    BY DEF Ranked
  <1> HIDE DEF n, F
  <1>4. Ranked(ids) \in [1 .. n -> X]
    BY <1>3
  <1> HIDE DEF X
  <1>5. n \in Nat
    BY <1>2 DEF n
  <1>6. Ranked(ids) \in Seq(X)
    BY <1>4, <1>5
  <1> QED BY <1>6 DEF IsList

LEMMA RetrievedList ==
  ASSUME ProvenInv, NEW i
  PROVE  IsList(Retrieved(i))
  <1> DEFINE ids == {id \in DOMAIN kb : kb[id].conf >= ExampleFloor}
             exact == {id \in ids : kb[id].check = Issues[i].check}
             kin == {id \in ids \ exact : kb[id].family = Issues[i].family}
             all == Ranked(exact) \o Ranked(kin)
  <1>1. IsList(Ranked(exact)) /\ IsList(Ranked(kin))
    BY RankedList
  <1>2. Retrieved(i) = SubSeq(all, 1, Min({Examples, Len(all)}))
    BY DEF Retrieved
  <1> HIDE DEF exact, kin
  <1>3. PICK S, T : Ranked(exact) \in Seq(S) /\ Ranked(kin) \in Seq(T)
    BY <1>1 DEF IsList
  <1>4. all \in Seq(S \cup T) /\ Len(all) \in Nat
    BY <1>3
  <1> HIDE DEF all
  <1>5. Min({Examples, Len(all)}) \in {Examples, Len(all)}
        /\ Min({Examples, Len(all)}) <= Len(all)
    <2>1. Examples \in Nat
      BY KBAssumption
    <2>2. \E x \in {Examples, Len(all)} : \A y \in {Examples, Len(all)} : x <= y
      <3>1. CASE Examples <= Len(all)
        BY <1>4, <2>1, <3>1
      <3>2. CASE ~(Examples <= Len(all))
        BY <1>4, <2>1, <3>2
      <3> QED BY <3>1, <3>2
    <2> QED BY <2>2 DEF Min
  <1>6. SubSeq(all, 1, Min({Examples, Len(all)})) \in Seq(S \cup T)
    <2>1. Examples \in Nat
      BY KBAssumption
    <2> DEFINE m == Min({Examples, Len(all)})
    <2>2. m \in Nat /\ m <= Len(all)
      BY <1>4, <1>5, <2>1
    <2> HIDE DEF m
    <2>3. SubSeq(all, 1, m) \in Seq(S \cup T)
      BY <1>4, <2>2
    <2> QED BY <2>3 DEF m
  <1> QED BY <1>2, <1>6 DEF IsList

\* A list of reuses, and two after each other.
LEMMA BumpsList ==
  ASSUME NEW ids, IsList(ids), NEW todo,
         todo \in {Bumps(ids, "reused"),
                   Bumps(ids, "reused") \o Bumps(ids, "reused")}
  PROVE  IsList(todo) /\ \A k \in DOMAIN todo : todo[k].field = "reused"
  <1> DEFINE R == [id : {ids[k] : k \in DOMAIN ids}, field : {"reused"}]
  <1>1. Len(ids) \in Nat /\ DOMAIN ids = 1 .. Len(ids)
    BY DEF IsList
  <1>2. \A k \in DOMAIN ids : [id |-> ids[k], field |-> "reused"] \in R
    OBVIOUS
  <1>3. \A b \in R : b.field = "reused"
    OBVIOUS
  <1> HIDE DEF R
  <1>4. Bumps(ids, "reused") \in [1 .. Len(ids) -> R]
    BY <1>1, <1>2 DEF Bumps
  <1> DEFINE bumps == Bumps(ids, "reused")
  <1> HIDE DEF bumps
  <1>5. bumps \in Seq(R)
    BY <1>1, <1>4 DEF bumps
  <1>6. todo \in Seq(R)
    <2>1. CASE todo = bumps
      BY <1>5, <2>1
    <2>2. CASE todo = bumps \o bumps
      BY <1>5, <2>2
    <2> QED BY <2>1, <2>2 DEF bumps
  <1>7. \A k \in DOMAIN todo : todo[k] \in R
    BY <1>6
  <1> QED BY <1>3, <1>6, <1>7 DEF IsList

LEMMA ResearchCounts ==
  ASSUME CountInv, ProvenInv', NEW w \in Workers, Research(w)
  PROVE  CountInv'
  <1> DEFINE bumps == Bumps(Retrieved(run[w].issue), "reused")
  <1>1. PICK steps \in Recipes \union {Fake}, conf \in Scores,
             scan \in {Issues[run[w].issue].file, None},
             todo \in {bumps, bumps \o bumps} :
          run' = [run EXCEPT ![w].pc = "planned", ![w].found = None,
                    ![w].plan = [steps |-> steps, conf |-> conf,
                                 from |-> None, run |-> None, scan |-> scan],
                    ![w].todo = todo]
    BY Zenon DEF Research
  <1> DEFINE plan == [steps |-> steps, conf |-> conf, from |-> None,
                      run |-> None, scan |-> scan]
  <1>2. IsPlan(plan) /\ plan.from = None
    BY DEF IsPlan, PlanFields
  <1>3. run[w].pc = "composing" /\ UNCHANGED <<kb, trial, done>>
    BY DEF Research
  <1>4. IsList(Retrieved(run[w].issue))
    BY RetrievedList DEF CountInv
  <1>5. IsList(todo) /\ \A k \in DOMAIN todo : todo[k].field = "reused"
    BY <1>4, BumpsList
  <1> HIDE DEF plan, bumps
  <1>6. run' = [run EXCEPT ![w].pc = "planned", ![w].found = None,
                           ![w].plan = plan, ![w].todo = todo]
    BY <1>1 DEF plan
  <1> QED BY <1>2, <1>3, <1>5, <1>6, PlannedCounts

LEMMA ReadCounts ==
  ASSUME CountInv, ProvenInv', NEW w \in Workers, ReadCount(w)
  PROVE  CountInv'
  <1>1. PICK read : run' = [run EXCEPT ![w].read = read]
    BY DEF ReadCount
  <1> DEFINE r == [run[w] EXCEPT !.read = read]
  <1>2. IsRun(run[w]) /\ run = [v \in Workers |-> run[v]] /\ Books(run[w], kb)
    BY Worker DEF CountInv
  <1>3. run' = [run EXCEPT ![w] = r]
    BY <1>1, <1>2
  <1>4. /\ r.pc = run[w].pc /\ r.plan = run[w].plan /\ r.found = run[w].found
        /\ r.todo = run[w].todo
    BY <1>2 DEF IsRun, Slot
  <1>5. run[w].pc # "idle" /\ UNCHANGED <<kb, trial, done>>
    BY <1>2 DEF ReadCount, Books, Idle
  <1> HIDE DEF r
  <1>6. Books(r, kb)
    BY <1>2, <1>4, <1>5 DEF Books
  <1>7. \A id : /\ Use(r, id) <=> Use(run[w], id)
                /\ Win(r, id, done') <=> Win(run[w], id, done)
    BY <1>4, <1>5 DEF Use, Win
  <1> QED BY <1>3, <1>5, <1>6, <1>7, NothingBooked

\* What a booking does to the worker that makes it, or lets it go: it replays
\* nothing, and the booking is of a reuse; or it replays entry from, and the
\* booking is of that, first of the reuse and then of the success.
LEMMA Booking ==
  ASSUME CountInv, NEW w \in Workers, run[w].todo # <<>>, NEW r,
         IsRun(r), r.pc = run[w].pc, r.plan = run[w].plan,
         r.found = run[w].found, r.todo = Tail(run[w].todo)
  PROVE  /\ Books(r, kb)
         /\ \/ /\ Head(run[w].todo).field = "reused"
               /\ \A id \in Nat : \A runs :
                    /\ ~Use(run[w], id) /\ ~Use(r, id)
                    /\ ~Win(run[w], id, runs) /\ ~Win(r, id, runs)
            \/ /\ Head(run[w].todo) = Reuse(run[w].plan.from)
               /\ Use(run[w], run[w].plan.from) /\ ~Use(r, run[w].plan.from)
               /\ \A runs : Win(run[w], run[w].plan.from, runs)
                              <=> Win(r, run[w].plan.from, runs)
               /\ \A id, runs : id # run[w].plan.from =>
                    /\ ~Use(run[w], id) /\ ~Use(r, id)
                    /\ ~Win(run[w], id, runs) /\ ~Win(r, id, runs)
            \/ /\ Head(run[w].todo) = Success(run[w].plan.from)
               /\ ~Use(run[w], run[w].plan.from) /\ ~Use(r, run[w].plan.from)
               /\ \A runs : Win(run[w], run[w].plan.from, runs)
                              /\ ~Win(r, run[w].plan.from, runs)
               /\ \A id, runs : id # run[w].plan.from =>
                    /\ ~Use(run[w], id) /\ ~Use(r, id)
                    /\ ~Win(run[w], id, runs) /\ ~Win(r, id, runs)
  <1> DEFINE old == run[w]
             from == old.plan.from
  <1>1. Books(old, kb)
    BY DEF CountInv
  <1>2. old.pc \notin {"idle", "composing", "finished", "storing"}
    BY <1>1 DEF Books, Idle
  <1>3. CASE from = None /\ IsList(old.todo)
             /\ \A k \in DOMAIN old.todo : old.todo[k].field = "reused"
    <2>1. Head(old.todo).field = "reused"
      BY <1>3 DEF IsList
    <2>2. IsList(r.todo) /\ \A k \in DOMAIN r.todo : r.todo[k].field = "reused"
      <3>1. PICK S : old.todo \in Seq(S)
        BY <1>3 DEF IsList
      <3>2. r.todo \in Seq(S) /\ \A k \in DOMAIN r.todo :
              k + 1 \in DOMAIN old.todo /\ r.todo[k] = old.todo[k + 1]
        BY <3>1
      <3> QED BY <1>3, <3>2 DEF IsList
    <2>3. Books(r, kb)
      BY <1>1, <1>2, <1>3, <2>2 DEF Books
    <2>4. \A id \in Nat : from # id
      BY <1>3, KBAssumption
    <2> QED BY <2>1, <2>3, <2>4 DEF Use, Win
  <1>4. CASE old.pc = "crediting" /\ from \in DOMAIN kb /\ IsPlan(old.plan)
             /\ old.todo = <<Reuse(from)>>
    <2>1. Head(old.todo) = Reuse(from) /\ r.todo = <<>>
      BY <1>4
    <2>2. Books(r, kb)
      BY <1>2, <1>4, <2>1 DEF Books
    <2> QED BY <1>4, <2>1, <2>2 DEF Use, Win, Reuse, Success
  <1>5. CASE old.pc = "crediting" /\ from \in DOMAIN kb /\ IsPlan(old.plan)
             /\ old.todo = <<Success(from)>>
    <2>1. Head(old.todo) = Success(from) /\ r.todo = <<>>
      BY <1>5
    <2>2. Books(r, kb)
      BY <1>2, <1>5, <2>1 DEF Books
    <2> QED BY <1>5, <2>1, <2>2 DEF Use, Win, Reuse, Success
  <1>6. CASE old.pc = "crediting" /\ from \in DOMAIN kb /\ IsPlan(old.plan)
             /\ old.todo = <<Reuse(from), Success(from)>>
    <2>1. Head(old.todo) = Reuse(from) /\ r.todo = <<Success(from)>>
      BY <1>6
    <2>2. Books(r, kb)
      BY <1>2, <1>6, <2>1 DEF Books
    <2> QED BY <1>6, <2>1, <2>2 DEF Use, Win, Reuse, Success
  <1> QED BY <1>1, <1>2, <1>3, <1>4, <1>5, <1>6 DEF Books

\* An account that the step of another entry leaves alone.
LEMMA OtherAccount ==
  ASSUME NEW id, NEW entry, NEW entry2, NEW t \in TrialRecord, NEW r, NEW r2,
         NEW runs, NEW runs2,
         entry2.reused = entry.reused, entry2.succeeded = entry.succeeded,
         Use(r2, id) <=> Use(r, id), Win(r2, id, runs2) <=> Win(r, id, runs)
  PROVE  Fair(id, entry, entry2, t, t, r, r2, runs, runs2)
  <1>1. /\ One(Use(r, id)) = One(Use(r2, id))
        /\ One(Win(r, id, runs)) = One(Win(r2, id, runs2))
        /\ One(Use(r, id)) \in Nat /\ One(Win(r, id, runs)) \in Nat
    BY DEF One
  <1>2. t.tried \in Nat /\ t.won \in Nat
    BY DEF TrialRecord
  <1> QED BY <1>1, <1>2 DEF Fair

LEMMA BumpedCounts ==
  ASSUME NEW e, IsEntry(e), NEW field, NEW count
  PROVE  /\ Bumped(e, field, count).reused
              = IF field = "reused" THEN count ELSE e.reused
         /\ Bumped(e, field, count).succeeded
              = IF field = "succeeded" THEN count ELSE e.succeeded
  BY DEF Bumped, IsEntry, Columns

LEMMA WriteCounts ==
  ASSUME CountInv, ProvenInv', NEW w \in Workers, WriteCount(w)
  PROVE  CountInv'
  <1> DEFINE r == [run[w] EXCEPT !.read = None, !.todo = Tail(run[w].todo)]
             from == run[w].plan.from
             id == Head(run[w].todo).id
             field == Head(run[w].todo).field
             read == run[w].read
             entry == Bumped(kb[id], field, read + 1)
             t == [trial[id] EXCEPT !.exact = @ /\ kb[id][field] = read]
  <1>1. /\ run[w].todo # <<>> /\ kb' = [kb EXCEPT ![id] = entry]
        /\ trial' = [trial EXCEPT ![id] = t] /\ done' = done
        /\ run' = [run EXCEPT ![w].read = None, ![w].todo = Tail(run[w].todo)]
    BY DEF WriteCount
  <1>2. IsRun(run[w]) /\ run = [v \in Workers |-> run[v]]
    BY Worker DEF CountInv
  <1>3. run' = [run EXCEPT ![w] = r]
    BY <1>1, <1>2
  <1>4. /\ IsRun(r) /\ r.pc = run[w].pc /\ r.plan = run[w].plan
        /\ r.found = run[w].found /\ r.todo = Tail(run[w].todo)
    BY <1>2 DEF IsRun, Slot
  <1> HIDE DEF r
  <1>5. /\ Books(r, kb)
        /\ \/ /\ field = "reused"
              /\ \A k \in Nat : \A runs :
                   /\ ~Use(run[w], k) /\ ~Use(r, k)
                   /\ ~Win(run[w], k, runs) /\ ~Win(r, k, runs)
           \/ /\ id = from /\ field = "reused"
              /\ Use(run[w], from) /\ ~Use(r, from)
              /\ \A runs : Win(run[w], from, runs) <=> Win(r, from, runs)
              /\ \A k, runs : k # from =>
                   /\ ~Use(run[w], k) /\ ~Use(r, k)
                   /\ ~Win(run[w], k, runs) /\ ~Win(r, k, runs)
           \/ /\ id = from /\ field = "succeeded"
              /\ ~Use(run[w], from) /\ ~Use(r, from)
              /\ \A runs : Win(run[w], from, runs) /\ ~Win(r, from, runs)
              /\ \A k, runs : k # from =>
                   /\ ~Use(run[w], k) /\ ~Use(r, k)
                   /\ ~Win(run[w], k, runs) /\ ~Win(r, k, runs)
    <2>1. /\ Reuse(from).id = from /\ Reuse(from).field = "reused"
          /\ Success(from).id = from /\ Success(from).field = "succeeded"
      BY DEF Reuse, Success
    <2>2. Books(r, kb)
      BY <1>1, <1>4, Booking
    <2>3. \/ /\ Head(run[w].todo).field = "reused"
             /\ \A k \in Nat : \A runs :
                  /\ ~Use(run[w], k) /\ ~Use(r, k)
                  /\ ~Win(run[w], k, runs) /\ ~Win(r, k, runs)
          \/ /\ Head(run[w].todo) = Reuse(from)
             /\ Use(run[w], from) /\ ~Use(r, from)
             /\ \A runs : Win(run[w], from, runs) <=> Win(r, from, runs)
             /\ \A k, runs : k # from =>
                  /\ ~Use(run[w], k) /\ ~Use(r, k)
                  /\ ~Win(run[w], k, runs) /\ ~Win(r, k, runs)
          \/ /\ Head(run[w].todo) = Success(from)
             /\ ~Use(run[w], from) /\ ~Use(r, from)
             /\ \A runs : Win(run[w], from, runs) /\ ~Win(r, from, runs)
             /\ \A k, runs : k # from =>
                  /\ ~Use(run[w], k) /\ ~Use(r, k)
                  /\ ~Win(run[w], k, runs) /\ ~Win(r, k, runs)
      BY Zenon, <1>1, <1>4, Booking
    <2> QED BY Zenon, <2>1, <2>2, <2>3
  <1>6. /\ IsList(kb) /\ \A k \in DOMAIN kb : IsEntry(kb[k])
        /\ trial \in Seq(TrialRecord) /\ Len(trial) = Len(kb)
        /\ DOMAIN kb \subseteq Nat
    BY DEF CountInv, ProvenInv, IsList
  <1>7. DOMAIN kb' = DOMAIN kb /\ Len(kb') = Len(kb) /\ DOMAIN trial = DOMAIN kb
    <2>1. PICK S : kb \in Seq(S)
      BY <1>6 DEF IsList
    <2> HIDE DEF entry, id
    <2> QED BY <1>1, <1>6, <2>1
  <1>8. ASSUME NEW k \in DOMAIN kb PROVE trial[k] \in TrialRecord
    BY <1>6, <1>7
  <1>9. id \in DOMAIN kb =>
          /\ t \in TrialRecord /\ t.tried = trial[id].tried
          /\ t.won = trial[id].won
          /\ t.exact => trial[id].exact /\ kb[id][field] = read
    BY <1>8 DEF TrialRecord
  <1> HIDE DEF t
  <1>10. trial' \in Seq(TrialRecord) /\ Len(trial') = Len(kb')
    <2> HIDE DEF id
    <2>1. CASE id \in DOMAIN kb
      BY <1>1, <1>6, <1>7, <1>9, <2>1
    <2>2. CASE id \notin DOMAIN kb
      <3>1. trial' = trial
        BY <1>1, <1>6, <1>7, <2>2
      <3> QED BY <1>6, <1>7, <3>1
    <2> QED BY <2>1, <2>2
  <1>11. ASSUME NEW k \in DOMAIN kb
         PROVE  Fair(k, kb[k], kb'[k], trial[k], trial'[k], run[w], r, done, done')
    <2>1. CASE k # id
      <3>1. kb'[k] = kb[k] /\ trial'[k] = trial[k]
        BY <1>1, <1>7, <2>1
      <3>2. /\ Use(r, k) <=> Use(run[w], k)
            /\ Win(r, k, done') <=> Win(run[w], k, done)
        BY <1>1, <1>5, <1>6, <2>1
      <3> QED BY <1>8, <3>1, <3>2, OtherAccount
    <2>2. CASE k = id
      <3> HIDE DEF id
      <3>1. kb'[k] = entry /\ trial'[k] = t
        BY <1>1, <1>7, <2>2
      <3>2. /\ entry.reused = IF field = "reused" THEN read + 1 ELSE kb[k].reused
            /\ entry.succeeded = IF field = "succeeded" THEN read + 1
                                 ELSE kb[k].succeeded
        BY <1>6, <2>2, BumpedCounts
      <3> HIDE DEF entry
      <3>3. trial[k].tried \in Nat /\ trial[k].won \in Nat
        BY <1>8 DEF TrialRecord
      <3>4. SUFFICES ASSUME t.exact, kb[k].reused \in Nat, kb[k].succeeded \in Nat
                     PROVE  /\ entry.reused \in Nat /\ entry.succeeded \in Nat
                            /\ entry.reused + One(Use(r, k)) + trial[k].tried
                                 >= kb[k].reused + One(Use(run[w], k)) + t.tried
                            /\ entry.succeeded + One(Win(r, k, done')) + trial[k].won
                                 <= kb[k].succeeded + One(Win(run[w], k, done)) + t.won
        BY <1>9, <2>2, <3>1 DEF Fair
      <3>5. kb[k][field] = read /\ t.tried = trial[k].tried /\ t.won = trial[k].won
        BY <1>9, <2>2, <3>4
      <3>6. CASE /\ field = "reused"
                 /\ ~Use(run[w], k) /\ ~Use(r, k)
                 /\ ~Win(run[w], k, done) /\ ~Win(r, k, done')
        BY <3>2, <3>3, <3>4, <3>5, <3>6 DEF One
      <3>7. CASE /\ field = "reused" /\ Use(run[w], k) /\ ~Use(r, k)
                 /\ Win(run[w], k, done) <=> Win(r, k, done')
        <4>1. One(Win(run[w], k, done)) = One(Win(r, k, done'))
              /\ One(Win(run[w], k, done)) \in Nat
          BY <3>7 DEF One
        <4>2. One(Use(run[w], k)) = 1 /\ One(Use(r, k)) = 0
          BY <3>7 DEF One
        <4>3. /\ entry.reused = kb[k].reused + 1
              /\ entry.succeeded = kb[k].succeeded
          BY <3>2, <3>5, <3>7
        <4> QED BY <3>3, <3>4, <3>5, <4>1, <4>2, <4>3
      <3>8. CASE /\ field = "succeeded" /\ ~Use(run[w], k) /\ ~Use(r, k)
                 /\ Win(run[w], k, done) /\ ~Win(r, k, done')
        BY <3>2, <3>3, <3>4, <3>5, <3>8 DEF One
      <3> QED BY <1>1, <1>5, <1>6, <2>2, <3>6, <3>7, <3>8
    <2> QED BY <2>1, <2>2
  <1>12. Books(r, kb')
    BY <1>5, <1>7, BooksStay
  <1> QED BY <1>1, <1>3, <1>7, <1>10, <1>11, <1>12, AccountStep

LEMMA DropCounts ==
  ASSUME CountInv, ProvenInv', NEW w \in Workers, DropCount(w)
  PROVE  CountInv'
  <1> DEFINE r == [run[w] EXCEPT !.read = None, !.todo = Tail(run[w].todo)]
             from == run[w].plan.from
             id == Head(run[w].todo).id
             t == [trial[id] EXCEPT !.exact = FALSE]
  <1>1. /\ run[w].todo # <<>> /\ kb' = kb /\ done' = done
        /\ trial' = [trial EXCEPT ![id] = t]
        /\ run' = [run EXCEPT ![w].read = None, ![w].todo = Tail(run[w].todo)]
    BY DEF DropCount
  <1>2. IsRun(run[w]) /\ run = [v \in Workers |-> run[v]]
    BY Worker DEF CountInv
  <1>3. run' = [run EXCEPT ![w] = r]
    BY <1>1, <1>2
  <1>4. /\ IsRun(r) /\ r.pc = run[w].pc /\ r.plan = run[w].plan
        /\ r.found = run[w].found /\ r.todo = Tail(run[w].todo)
    BY <1>2 DEF IsRun, Slot
  <1> HIDE DEF r
  <1>5. Books(r, kb)
    BY <1>1, <1>4, Booking
  <1>6. \/ \A k \in Nat : \A runs :
             /\ ~Use(run[w], k) /\ ~Use(r, k)
             /\ ~Win(run[w], k, runs) /\ ~Win(r, k, runs)
        \/ /\ id = from
           /\ \A k, runs : k # from =>
                /\ ~Use(run[w], k) /\ ~Use(r, k)
                /\ ~Win(run[w], k, runs) /\ ~Win(r, k, runs)
    <2>1. Reuse(from).id = from /\ Success(from).id = from
      BY DEF Reuse, Success
    <2>2. \/ \A k \in Nat : \A runs :
               /\ ~Use(run[w], k) /\ ~Use(r, k)
               /\ ~Win(run[w], k, runs) /\ ~Win(r, k, runs)
          \/ /\ Head(run[w].todo) \in {Reuse(from), Success(from)}
             /\ \A k, runs : k # from =>
                  /\ ~Use(run[w], k) /\ ~Use(r, k)
                  /\ ~Win(run[w], k, runs) /\ ~Win(r, k, runs)
      BY Zenon, <1>1, <1>4, Booking
    <2> QED BY Zenon, <2>1, <2>2
  <1>7. /\ trial \in Seq(TrialRecord) /\ Len(trial) = Len(kb)
        /\ DOMAIN trial = DOMAIN kb /\ DOMAIN kb \subseteq Nat
    BY DEF CountInv, ProvenInv, IsList
  <1>8. ASSUME NEW k \in DOMAIN kb PROVE trial[k] \in TrialRecord
    BY <1>7
  <1>9. id \in DOMAIN kb => t \in TrialRecord /\ ~t.exact
    BY <1>8 DEF TrialRecord
  <1> HIDE DEF id, t
  <1>10. trial' \in Seq(TrialRecord) /\ Len(trial') = Len(kb')
    <2>1. CASE id \in DOMAIN kb
      BY <1>1, <1>7, <1>9, <2>1
    <2>2. CASE id \notin DOMAIN kb
      <3>1. trial' = trial
        BY <1>1, <1>7, <2>2
      <3> QED BY <1>1, <1>7, <3>1
    <2> QED BY <2>1, <2>2
  <1>11. ASSUME NEW k \in DOMAIN kb
         PROVE  Fair(k, kb[k], kb'[k], trial[k], trial'[k], run[w], r, done, done')
    <2>1. CASE k # id
      <3>1. kb'[k] = kb[k] /\ trial'[k] = trial[k]
        BY <1>1, <1>7, <2>1
      <3>2. /\ Use(r, k) <=> Use(run[w], k)
            /\ Win(r, k, done') <=> Win(run[w], k, done)
        BY <1>1, <1>6, <1>7, <2>1
      <3> QED BY <1>8, <3>1, <3>2, OtherAccount
    <2>2. CASE k = id
      <3>1. ~trial'[k].exact
        BY <1>1, <1>7, <1>9, <2>2
      <3> QED BY <3>1 DEF Fair
    <2> QED BY <2>1, <2>2
  <1> QED BY <1>1, <1>3, <1>5, <1>10, <1>11, AccountStep

LEMMA ExecuteCounts ==
  ASSUME CountInv, ProvenInv', NEW w \in Workers, Execute(w)
  PROVE  CountInv'
  <1> DEFINE n == Len(done) + 1
             old == run[w]
             from == old.plan.from
             r == [old EXCEPT !.pc = "finished", !.plan = [old.plan EXCEPT !.run = n]]
  <1>1. PICK f :
          /\ done' = Append(done, f)
          /\ trial' = IF from = None THEN trial
                      ELSE [trial EXCEPT ![from].tried = @ + 1,
                              ![from].won = IF f.status = "success" THEN @ + 1
                                            ELSE @]
    <2>1. PICK status \in Endings(old.plan.scan), ran \in {old.plan.steps, None} :
            /\ done' = Append(done, [issue |-> old.issue, steps |-> old.plan.steps,
                                     ran |-> ran, scan |-> old.plan.scan,
                                     conf |-> old.plan.conf, status |-> status])
            /\ trial' = IF from = None THEN trial
                        ELSE [trial EXCEPT ![from].tried = @ + 1,
                                ![from].won = IF status = "success" THEN @ + 1
                                              ELSE @]
      BY Zenon DEF Execute
    <2> DEFINE f == [issue |-> old.issue, steps |-> old.plan.steps,
                     ran |-> ran, scan |-> old.plan.scan,
                     conf |-> old.plan.conf, status |-> status]
    <2>2. f.status = status
      OBVIOUS
    <2> QED BY <2>1, <2>2
  <1>2. /\ run' = [run EXCEPT ![w].pc = "finished", ![w].plan.run = n]
        /\ old.pc = "planned" /\ old.todo = <<>> /\ kb' = kb
    BY DEF Execute
  <1>3. /\ IsRun(old) /\ run = [v \in Workers |-> run[v]] /\ Books(old, kb)
        /\ IsPlan(old.plan) /\ from \in DOMAIN kb \cup {None}
    BY <1>2, Worker DEF CountInv, Books
  <1>4. run' = [run EXCEPT ![w] = r]
    BY <1>2, <1>3 DEF IsRun, Slot
  <1>5. /\ r.pc = "finished" /\ r.plan.from = from /\ r.plan.run = n
        /\ IsPlan(r.plan) /\ r.todo = <<>>
    BY <1>2, <1>3 DEF IsRun, Slot, IsPlan, PlanFields
  <1> HIDE DEF r
  <1>6. Books(r, kb)
    BY <1>3, <1>5 DEF Books, IsList
  <1>7. done'[n] = f /\ \A k \in DOMAIN done : done'[k] = done[k]
    BY <1>1 DEF CountInv, ProvenInv, IsList
  <1> HIDE DEF n
  <1>8. /\ trial \in Seq(TrialRecord) /\ Len(trial) = Len(kb)
        /\ DOMAIN trial = DOMAIN kb /\ DOMAIN kb \subseteq Nat
    BY DEF CountInv, ProvenInv, IsList
  <1>9. ASSUME NEW k \in DOMAIN kb PROVE trial[k] \in TrialRecord
    BY <1>8
  <1>10. ASSUME NEW k
         PROVE  /\ ~Use(old, k) /\ ~Win(old, k, done)
                /\ Use(r, k) <=> k = from
                /\ Win(r, k, done') <=> (k = from /\ f.status = "success")
    BY <1>2, <1>5, <1>7 DEF Use, Win
  <1>11. CASE from = None
    <2>1. ASSUME NEW k \in DOMAIN kb
          PROVE  Fair(k, kb[k], kb'[k], trial[k], trial'[k], old, r, done, done')
      <3>1. k # from
        BY <1>8, <1>11, KBAssumption
      <3> QED BY <1>1, <1>2, <1>9, <1>10, <1>11, <3>1, OtherAccount
    <2> QED BY <1>1, <1>2, <1>4, <1>6, <1>7, <1>8, <1>11, <2>1, AccountStep
  <1>12. CASE from # None
    <2>1. from \in DOMAIN kb
      BY <1>3, <1>12
    <2>2. trial[from] \in TrialRecord
      BY <1>9, <2>1
    <2>3. PICK a \in Nat, b \in Nat, e \in BOOLEAN :
            trial[from] = [tried |-> a, won |-> b, exact |-> e]
      BY <2>2 DEF TrialRecord
    <2>4. PICK b2 \in Nat : b2 = IF f.status = "success" THEN b + 1 ELSE b
      OBVIOUS
    <2> DEFINE t == [tried |-> a + 1, won |-> b2, exact |-> e]
    <2>5. t \in TrialRecord
      BY DEF TrialRecord
    <2>6. trial' = [trial EXCEPT ![from] = t]
      <3> HIDE DEF from, old
      <3>1. /\ trial = [k \in DOMAIN trial |-> trial[k]] /\ from \in DOMAIN trial
        BY <1>8, <2>1
      <3> DEFINE mid == [trial EXCEPT ![from].tried = @ + 1]
      <3>2. mid[from] = [tried |-> a + 1, won |-> b, exact |-> e]
        <4>1. mid[from] = [trial[from] EXCEPT !.tried = trial[from].tried + 1]
          BY <3>1
        <4> HIDE DEF mid
        <4>2. mid[from] = [[tried |-> a, won |-> b, exact |-> e]
                             EXCEPT !.tried = a + 1]
          BY <2>3, <4>1
        <4> QED BY <4>2
      <3>3. trial' = [mid EXCEPT ![from].won = IF f.status = "success" THEN @ + 1 ELSE @]
        BY <1>1, <1>12
      <3>4. /\ mid = [k \in DOMAIN trial |-> mid[k]]
            /\ \A k \in DOMAIN trial : k # from => mid[k] = trial[k]
        BY <3>1
      <3> HIDE DEF mid
      <3>5. trial' = [mid EXCEPT ![from] = t]
        <4>1. trial' = [mid EXCEPT ![from] = [mid[from] EXCEPT !.won = b2]]
          BY <2>4, <3>1, <3>2, <3>3, <3>4
        <4>2. [mid[from] EXCEPT !.won = b2] = t
          BY <3>2
        <4> QED BY <4>1, <4>2
      <3> HIDE DEF t
      <3> QED BY <3>1, <3>4, <3>5
    <2>7. trial' \in Seq(TrialRecord) /\ Len(trial') = Len(kb')
      <3> HIDE DEF t
      <3> QED BY <1>2, <1>8, <2>1, <2>5, <2>6
    <2>8. ASSUME NEW k \in DOMAIN kb
          PROVE  Fair(k, kb[k], kb'[k], trial[k], trial'[k], old, r, done, done')
      <3>1. CASE k # from
        <4>1. trial'[k] = trial[k]
          BY <1>8, <2>6, <3>1
        <4> QED BY <1>2, <1>9, <1>10, <3>1, <4>1, OtherAccount
      <3>2. CASE k = from
        <4>1. /\ trial'[k].tried = a + 1 /\ trial'[k].won = b2
              /\ trial'[k].exact = e
          BY <1>8, <2>1, <2>6, <3>2
        <4>2. trial[k].tried = a /\ trial[k].won = b /\ trial[k].exact = e
          BY <2>3, <3>2
        <4>3. PICK s \in Nat : /\ b2 = b + s
                              /\ One(Win(r, k, done')) = s
          BY <1>10, <2>4, <3>2 DEF One
        <4>4. /\ One(Use(old, k)) = 0 /\ One(Use(r, k)) = 1
              /\ One(Win(old, k, done)) = 0
          BY <1>10, <3>2 DEF One
        <4> HIDE DEF old, from
        <4>5. SUFFICES ASSUME kb[k].reused \in Nat, kb[k].succeeded \in Nat
                       PROVE  /\ kb[k].reused + 1 + a >= kb[k].reused + 0 + (a + 1)
                              /\ kb[k].succeeded + s + b <= kb[k].succeeded + 0 + b2
          BY <1>2, <4>1, <4>2, <4>3, <4>4 DEF Fair, old
        <4> QED BY <4>3, <4>5
      <3> QED BY <3>1, <3>2
    <2> QED BY <1>2, <1>4, <1>6, <1>7, <2>7, <2>8, AccountStep
  <1> QED BY <1>11, <1>12

LEMMA PairIs ==
  ASSUME NEW a, NEW b
  PROVE  <<a>> \o <<b>> = <<a, b>>
  <1> DEFINE s == <<a>>
             t == <<b>>
             u == <<a, b>>
  <1>1. /\ s \in Seq({a, b}) /\ Len(s) = 1 /\ s[1] = a
        /\ t \in Seq({a, b}) /\ Len(t) = 1 /\ t[1] = b
    OBVIOUS
  <1>2. u \in Seq({a, b}) /\ Len(u) = 2 /\ u[1] = a /\ u[2] = b
    OBVIOUS
  <1> HIDE DEF s, t, u
  <1>3. /\ s \o t \in Seq({a, b}) /\ Len(s \o t) = 2
        /\ (s \o t)[1] = a /\ (s \o t)[2] = b
    <2>1. /\ s \o t \in Seq({a, b}) /\ Len(s \o t) = Len(s) + Len(t)
          /\ \A i \in 1 .. Len(s) + Len(t) :
               (s \o t)[i] = IF i <= Len(s) THEN s[i] ELSE t[i - Len(s)]
      BY <1>1, ConcatProperties
    <2>2. \A i \in 1 .. 2 :
               (s \o t)[i] = IF i <= 1 THEN s[i] ELSE t[i - 1]
      BY <1>1, <2>1
    <2>3. (s \o t)[1] = s[1] /\ (s \o t)[2] = t[1]
      <3> DEFINE F(i) == IF i <= 1 THEN s[i] ELSE t[i - 1]
      <3>1. F(1) = s[1]
        OBVIOUS
      <3>2. F(2) = t[1]
        <4>1. 2 - 1 = 1 /\ ~(2 <= 1)
          OBVIOUS
        <4> QED BY <4>1
      <3>3. \A i \in 1 .. 2 : (s \o t)[i] = F(i)
        BY <2>2
      <3> HIDE DEF F
      <3>4. 1 \in 1 .. 2 /\ 2 \in 1 .. 2
        OBVIOUS
      <3> QED BY Zenon, <3>1, <3>2, <3>3, <3>4
    <2> QED BY <1>1, <2>1, <2>3
  <1> DEFINE v == s \o t
  <1>4. v \in Seq({a, b}) /\ Len(v) = 2 /\ v[1] = a /\ v[2] = b
    BY <1>3
  <1> HIDE DEF v
  <1>5. v = u
    <2>1. \A i \in 1 .. Len(v) : v[i] = u[i]
      BY <1>2, <1>4
    <2> QED BY <1>2, <1>4, <2>1, SeqEqual
  <1> QED BY <1>5 DEF s, t, u, v

\* A worker that leaves the capture still has to book what it had to.
LEMMA CreditIs ==
  ASSUME CountInv, NEW w \in Workers, Credit(w, run[w]),
         run[w].pc \in {"finished", "storing"}
  PROVE  \E r : /\ run' = [run EXCEPT ![w] = r] /\ Books(r, kb)
                /\ r.plan.from = run[w].plan.from
                /\ \A id \in Nat : /\ Use(r, id) <=> Use(run[w], id)
                                   /\ Win(r, id, done) <=> Win(run[w], id, done)
  <1> DEFINE old == run[w]
             from == old.plan.from
             status == done[old.plan.run].status
             todo == Credits(from, status)
             r == [old EXCEPT !.pc = "crediting", !.todo = todo]
  <1>1. run' = [run EXCEPT ![w].pc = "crediting", ![w].todo = todo]
    BY DEF Credit
  <1>2. IsRun(old) /\ run = [v \in Workers |-> run[v]] /\ Books(old, kb)
    BY Worker DEF CountInv
  <1>3. IsPlan(old.plan) /\ from \in DOMAIN kb \cup {None} /\ old.todo = <<>>
    BY <1>2 DEF Books
  <1>4. todo = IF from = None THEN <<>>
               ELSE IF status = "success" THEN <<Reuse(from), Success(from)>>
               ELSE <<Reuse(from)>>
    <2>1. CASE from = None
      BY <2>1 DEF Credits
    <2>2. CASE from # None /\ status = "success"
      <3>1. todo = <<Reuse(from)>> \o <<Success(from)>>
        BY <2>2 DEF Credits, Reuse, Success
      <3>3. todo = <<Reuse(from), Success(from)>>
        BY <3>1, PairIs
      <3> HIDE DEF todo
      <3> QED BY <2>2, <3>3
    <2>3. CASE from # None /\ status # "success"
      BY <2>3 DEF Credits, Reuse
    <2> QED BY <2>1, <2>2, <2>3
  <1> HIDE DEF todo
  <1>5. run' = [run EXCEPT ![w] = r]
    BY <1>1, <1>2
  <1>6. r.pc = "crediting" /\ r.plan = old.plan /\ r.todo = todo
    BY <1>2 DEF IsRun, Slot
  <1> HIDE DEF r
  <1>7. Books(r, kb)
    BY <1>3, <1>4, <1>6 DEF Books, IsList
  <1>8. ASSUME NEW id \in Nat
        PROVE  /\ Use(r, id) <=> Use(old, id)
               /\ Win(r, id, done) <=> Win(old, id, done)
    <2>1. CASE id # from
      BY <1>6, <2>1 DEF Use, Win
    <2>2. CASE id = from
      <3>1. from # None
        BY <2>2, KBAssumption
      <3>2. Use(old, id) /\ (Win(old, id, done) <=> status = "success")
        BY <2>2 DEF Use, Win
      <3>3. CASE status = "success"
        <4>1. r.todo = <<Reuse(id), Success(id)>> /\ r.plan.from = id
          BY <1>4, <1>6, <2>2, <3>1, <3>3
        <4> QED BY <1>6, <3>2, <3>3, <4>1 DEF Use, Win
      <3>4. CASE status # "success"
        <4>1. r.todo = <<Reuse(id)>> /\ r.plan.from = id
          BY <1>4, <1>6, <2>2, <3>1, <3>4
        <4>2. r.todo # <<Success(id)>> /\ r.todo # <<Reuse(id), Success(id)>>
          BY <4>1 DEF Reuse, Success
        <4> QED BY <1>6, <3>2, <3>4, <4>1, <4>2 DEF Use, Win
      <3> QED BY <3>3, <3>4
    <2> QED BY <2>1, <2>2
  <1> QED BY <1>5, <1>6, <1>7, <1>8

\* Credit, when the counters stay and rows that are added start at nought.
LEMMA CreditCounts ==
  ASSUME CountInv, ProvenInv', NEW w \in Workers, Credit(w, run[w]),
         run[w].pc \in {"finished", "storing"}, done' = done,
         DOMAIN kb \subseteq DOMAIN kb',
         trial' \in Seq(TrialRecord), Len(trial') = Len(kb'),
         \A id \in DOMAIN kb : /\ trial'[id] = trial[id]
                               /\ kb'[id].reused = kb[id].reused
                               /\ kb'[id].succeeded = kb[id].succeeded,
         \A id \in DOMAIN kb' \ DOMAIN kb :
           /\ kb'[id].reused = 0 /\ kb'[id].succeeded = 0
           /\ trial'[id].tried = 0 /\ trial'[id].won = 0
  PROVE  CountInv'
  <1>1. PICK r :
          /\ run' = [run EXCEPT ![w] = r] /\ Books(r, kb)
          /\ r.plan.from = run[w].plan.from
          /\ \A id \in Nat : /\ Use(r, id) <=> Use(run[w], id)
                             /\ Win(r, id, done) <=> Win(run[w], id, done)
    BY Zenon, CreditIs
  <1>2. DOMAIN kb \subseteq Nat /\ DOMAIN kb' \subseteq Nat
    BY DEF CountInv, ProvenInv, IsList
  <1>3. ASSUME NEW id \in DOMAIN kb
        PROVE  Fair(id, kb[id], kb'[id], trial[id], trial'[id], run[w], r,
                    done, done')
    <2>1. trial[id] \in TrialRecord
      BY DEF CountInv, ProvenInv, IsList
    <2>2. /\ Use(r, id) <=> Use(run[w], id)
          /\ Win(r, id, done') <=> Win(run[w], id, done)
      BY <1>1, <1>2
    <2> QED BY <2>1, <2>2, OtherAccount
  <1>4. ASSUME NEW id \in DOMAIN kb' \ DOMAIN kb
        PROVE  ~Use(r, id) /\ ~Win(r, id, done')
    BY <1>1, <1>2, OwesAnEntry
  <1>5. Books(r, kb')
    BY <1>1, BooksStay
  <1> QED BY <1>1, <1>3, <1>4, <1>5, AccountStep

\* The same when the table and the trials stay.
LEMMA CreditQuiet ==
  ASSUME CountInv, ProvenInv', NEW w \in Workers, Credit(w, run[w]),
         run[w].pc \in {"finished", "storing"}, UNCHANGED <<kb, done, trial>>
  PROVE  CountInv'
  <1>1. trial \in Seq(TrialRecord) /\ Len(trial) = Len(kb)
    BY DEF CountInv
  <1>2. kb' = kb /\ trial' = trial /\ done' = done
    OBVIOUS
  <1> QED BY <1>1, <1>2, CreditCounts

LEMMA LookUpCounts ==
  ASSUME CountInv, ProvenInv', NEW w \in Workers, LookUp(w)
  PROVE  CountInv'
  <1> DEFINE n == run[w].plan.run
  <1>1. run[w].pc = "finished" /\ UNCHANGED <<kb, done, trial>>
    BY DEF LookUp
  <1>2. CASE ~Capturable(done[n])
    <2>1. Credit(w, run[w])
      BY <1>2 DEF LookUp
    <2> QED BY <1>1, <2>1, CreditQuiet
  <1>3. CASE Capturable(done[n])
    <2>1. PICK existing :
            run' = [run EXCEPT ![w].pc = "storing", ![w].existing = existing]
      BY <1>3 DEF LookUp
    <2> DEFINE r == [run[w] EXCEPT !.pc = "storing", !.existing = existing]
    <2>2. /\ IsRun(run[w]) /\ run = [v \in Workers |-> run[v]]
          /\ Books(run[w], kb)
      BY Worker DEF CountInv
    <2>3. run' = [run EXCEPT ![w] = r]
      BY <2>1, <2>2
    <2>4. r.pc = "storing" /\ r.plan = run[w].plan /\ r.todo = run[w].todo
      BY <2>2 DEF IsRun, Slot
    <2> HIDE DEF r
    <2>5. Books(r, kb)
      BY <1>1, <2>2, <2>4 DEF Books
    <2>6. \A id : /\ Use(r, id) <=> Use(run[w], id)
                  /\ Win(r, id, done') <=> Win(run[w], id, done)
      BY <1>1, <2>4 DEF Use, Win
    <2> QED BY <1>1, <2>3, <2>5, <2>6, NothingBooked
  <1> QED BY <1>2, <1>3

\* A list with more of the same at its end.
LEMMA Padded ==
  ASSUME NEW T, NEW s \in Seq(T), NEW m \in Nat, NEW t \in T, NEW s2,
         s2 = s \o [k \in 1 .. m |-> t]
  PROVE  /\ s2 \in Seq(T) /\ Len(s2) = Len(s) + m
         /\ \A k \in 1 .. Len(s) : s2[k] = s[k]
         /\ \A k \in Len(s) + 1 .. Len(s) + m : s2[k] = t
  <1> DEFINE more == [k \in 1 .. m |-> t]
  <1>1. more \in Seq(T) /\ Len(more) = m /\ \A k \in 1 .. m : more[k] = t
    OBVIOUS
  <1> HIDE DEF more
  <1>2. s2 = s \o more
    BY DEF more
  <1> QED BY <1>1, <1>2

LEMMA StoreCounts ==
  ASSUME CountInv, ProvenInv', NEW w \in Workers, Store(w)
  PROVE  CountInv'
  <1> DEFINE n == run[w].plan.run
             row == Row(n)
             id == run[w].existing.id
  <1>1. /\ run[w].pc = "storing" /\ done' = done /\ Credit(w, run[w])
        /\ \/ id = 0 /\ kb' = Stored(row)
           \/ id # 0 /\ kb' = [kb EXCEPT ![id] = Improved(kb[id], row)]
           \/ kb' = kb
        /\ trial' = trial \o [k \in 1 .. Len(kb') - Len(kb) |-> Trial(row)]
    BY DEF Store
  <1>2. /\ IsList(kb) /\ \A k \in DOMAIN kb : IsEntry(kb[k])
        /\ trial \in Seq(TrialRecord) /\ Len(trial) = Len(kb)
        /\ DOMAIN trial = DOMAIN kb
    BY DEF CountInv, ProvenInv, IsList
  <1>3. Len(kb) \in Nat
    BY <1>2 DEF IsList
  <1>4. row.reused = 0 /\ row.succeeded = 0
    BY DEF Row
  <1>5. /\ Trial(row) \in TrialRecord
        /\ Trial(row).tried = 0 /\ Trial(row).won = 0
    BY <1>4 DEF Trial, TrialRecord
  <1>6. Len(kb') = Len(kb) => trial' = trial
    <2>1. SUFFICES ASSUME Len(kb') = Len(kb) PROVE trial' = trial
      OBVIOUS
    <2>2. Len(kb') - Len(kb) = 0
      BY <1>3, <2>1
    <2>3. trial' = trial \o [k \in 1 .. 0 |-> Trial(row)]
      BY <1>1, <2>2
    <2>4. /\ trial' \in Seq(TrialRecord) /\ Len(trial') = Len(trial)
          /\ \A k \in 1 .. Len(trial) : trial'[k] = trial[k]
      <3>1. Len(trial) + 0 = Len(trial)
        BY <1>2, <1>3
      <3> QED BY <1>2, <1>5, <2>3, <3>1, Padded
    <2> QED BY <1>2, <2>4
  <1> HIDE DEF row, id, n
  <1>7. CASE kb' = kb
    <2>1. trial' = trial
      BY <1>6, <1>7
    <2> QED BY <1>1, <1>7, <2>1, CreditQuiet
  <1>8. CASE kb' = [kb EXCEPT ![id] = Improved(kb[id], row)]
    <2>1. PICK S : kb \in Seq(S)
      BY <1>2 DEF IsList
    <2>2. DOMAIN kb' = DOMAIN kb /\ Len(kb') = Len(kb)
      BY <1>8, <2>1
    <2>3. ASSUME NEW k \in DOMAIN kb
          PROVE  /\ kb'[k].reused = kb[k].reused
                 /\ kb'[k].succeeded = kb[k].succeeded
      <3>1. CASE k # id
        BY <1>8, <2>1, <3>1
      <3>2. CASE k = id
        <4>1. kb'[k] = Improved(kb[k], row) /\ IsEntry(kb[k])
          BY <1>2, <1>8, <2>1, <3>2
        <4> QED BY <4>1 DEF Improved, IsEntry, Columns
      <3> QED BY <3>1, <3>2
    <2>4. trial' = trial
      BY <1>6, <2>2
    <2> QED BY <1>1, <1>2, <2>2, <2>3, <2>4, CreditCounts
  <1>9. CASE kb' = Append(kb, row)
    <2>1. PICK S : kb \in Seq(S)
      BY <1>2 DEF IsList
    <2> DEFINE new == Len(kb) + 1
    <2>2. /\ Len(kb') = Len(kb) + 1 /\ DOMAIN kb' = DOMAIN kb \cup {new}
          /\ new \notin DOMAIN kb /\ kb'[new] = row
          /\ \A k \in DOMAIN kb : kb'[k] = kb[k]
      <3>1. kb \in Seq(S \cup {row})
        BY <2>1
      <3> QED BY <1>9, <3>1
    <2>3. trial' = trial \o [k \in 1 .. 1 |-> Trial(row)]
      <3>1. Len(kb') - Len(kb) = 1
        BY <1>3, <2>2
      <3> QED BY <1>1, <3>1
    <2>4. /\ trial' \in Seq(TrialRecord) /\ Len(trial') = Len(kb')
          /\ trial'[new] = Trial(row)
          /\ \A k \in DOMAIN kb : trial'[k] = trial[k]
      <3>1. /\ trial' \in Seq(TrialRecord) /\ Len(trial') = Len(trial) + 1
            /\ \A k \in 1 .. Len(trial) : trial'[k] = trial[k]
            /\ \A k \in Len(trial) + 1 .. Len(trial) + 1 : trial'[k] = Trial(row)
        BY <1>2, <1>5, <2>3, Padded
      <3>2. new \in Len(trial) + 1 .. Len(trial) + 1
        BY <1>2, <1>3
      <3>3. \A k \in DOMAIN kb : k \in 1 .. Len(trial)
        BY <1>2
      <3> HIDE DEF new
      <3> QED BY <1>2, <2>2, <3>1, <3>2, <3>3
    <2> HIDE DEF new
    <2> QED BY <1>1, <1>4, <1>5, <2>2, <2>4, CreditCounts
  <1> QED BY <1>1, <1>7, <1>8, <1>9 DEF Stored

LEMMA RestCounts ==
  ASSUME CountInv, ProvenInv', NEW w \in Workers, Rest(w)
  PROVE  CountInv'
  <1>1. /\ run' = [run EXCEPT ![w] = Idle] /\ UNCHANGED <<kb, done, trial>>
        /\ run[w].pc = "crediting" /\ run[w].todo = <<>>
    BY DEF Rest
  <1>2. Idle.pc = "idle"
    BY DEF Idle
  <1>5. Books(Idle, kb)
    BY <1>2 DEF Books
  <1>3. \A id : ~Use(Idle, id) /\ ~Win(Idle, id, done)
    BY <1>2, OwesNothing
  <1>4. \A id : ~Use(run[w], id) /\ ~Win(run[w], id, done)
    BY <1>1 DEF Use, Win
  <1> HIDE DEF Idle
  <1> QED BY <1>1, <1>3, <1>4, <1>5, NothingBooked

LEMMA CountStep == CountInv /\ [Next]_vars => CountInv'
  <1> SUFFICES ASSUME CountInv, [Next]_vars PROVE CountInv'
    OBVIOUS
  <1>1. ProvenInv'
    BY ProvenStep DEF CountInv
  <1>2. CASE UNCHANGED vars
    <2>1. kb' = kb /\ trial' = trial /\ run' = run /\ done' = done
      BY <1>2 DEF vars
    <2>2. \A id : Uses(id)' = Uses(id) /\ Wins(id)' = Wins(id)
      BY <2>1 DEF Uses, Wins
    <2> QED BY <1>1, <2>1, <2>2 DEF CountInv
  <1>3. CASE Next
    <2>1. PICK w \in Workers :
            \/ \E i \in DOMAIN Issues : Find(w, i)
            \/ Adapt(w) \/ Research(w)
            \/ ReadCount(w) \/ WriteCount(w) \/ DropCount(w)
            \/ Execute(w) \/ LookUp(w) \/ Store(w) \/ DropCapture(w)
            \/ Rest(w)
      BY <1>3 DEF Next
    <2>2. CASE DropCapture(w)
      <3>1. /\ Credit(w, run[w]) /\ run[w].pc = "storing"
            /\ UNCHANGED <<kb, done, trial>>
        BY <2>2 DEF DropCapture
      <3> QED BY <1>1, <3>1, CreditQuiet
    <2> QED
      BY <1>1, <2>1, <2>2, FindCounts, AdaptCounts, ResearchCounts, ReadCounts,
         WriteCounts, DropCounts, ExecuteCounts, LookUpCounts, StoreCounts,
         RestCounts
  <1> QED BY <1>2, <1>3

\* An entry that nobody has in hand, and none of whose counts was lost, has
\* booked all of its replays and only its successes.
LEMMA NothingOwed ==
  ASSUME CountInv, NEW id \in DOMAIN kb, Settled(id)
  PROVE  /\ kb[id].reused \in Nat /\ kb[id].succeeded \in Nat
         /\ trial[id].tried \in Nat /\ trial[id].won \in Nat
         /\ kb[id].reused >= trial[id].tried
         /\ kb[id].succeeded <= trial[id].won
  <1>1. Uses(id) = {} /\ Wins(id) = {}
    BY DEF Settled, Uses, Wins, Use, Win
  <1>2. Cardinality(Uses(id)) = 0 /\ Cardinality(Wins(id)) = 0
    BY <1>1, FS_EmptySet
  <1>3. Counts(kb[id], trial[id], 0, 0)
    BY <1>2 DEF CountInv
  <1>4. trial[id] \in TrialRecord
    BY DEF CountInv, ProvenInv, IsList
  <1>5. trial[id].tried \in Nat /\ trial[id].won \in Nat
    BY <1>4 DEF TrialRecord
  <1> QED BY <1>3, <1>5 DEF Counts, Settled

LEMMA GatesHold ==
  ASSUME CountInv, NEW id \in DOMAIN kb, Settled(id), ~Disproven(kb[id])
  PROVE  ~Failed(trial[id])
  <1>1. PICK a \in Nat, b \in Nat, m \in Nat, n \in Nat :
          /\ a = kb[id].reused /\ b = kb[id].succeeded
          /\ m = trial[id].tried /\ n = trial[id].won
    BY NothingOwed
  <1>2. a >= m /\ b <= n
    BY <1>1, NothingOwed
  <1>3. ~(a >= 3 /\ b = 0) /\ ~(a >= 10 /\ b * 10 < a)
    BY <1>1 DEF Disproven
  <1>4. ~(m >= 3 /\ n = 0) /\ ~(m >= 10 /\ n * 10 < m)
    BY <1>2, <1>3
  <1> QED BY <1>1, <1>4 DEF Failed

LEMMA QuarantineStep ==
  ASSUME CountInv, Next, NEW v \in Workers, run[v].pc = "idle",
         run'[v].found # None, Settled(run'[v].found.id)
  PROVE  ~Failed(trial[run'[v].found.id])
  <1>1. PICK w \in Workers :
          \/ \E i \in DOMAIN Issues : Find(w, i)
          \/ Adapt(w) \/ Research(w)
          \/ ReadCount(w) \/ WriteCount(w) \/ DropCount(w)
          \/ Execute(w) \/ LookUp(w) \/ Store(w) \/ DropCapture(w)
          \/ Rest(w)
    BY DEF Next
  <1>2. run[v] = Idle /\ run[v].found = None /\ run[v].todo = <<>>
    BY DEF CountInv, Books, Idle
  <1>3. run = [u \in Workers |-> run[u]]
    BY DEF CountInv, ProvenInv
  <1>4. v = w
    <2>1. SUFFICES ASSUME v # w PROVE run'[v] = run[v]
      BY <1>2
    <2> QED BY <1>1, <1>3, <2>1
         DEF Find, Adapt, Research, ReadCount, WriteCount, DropCount, Execute,
             LookUp, Store, DropCapture, Rest, Credit
  <1>5. PICK i \in DOMAIN Issues : Find(v, i)
    BY <1>1, <1>2, <1>4
       DEF Adapt, Research, ReadCount, WriteCount, DropCount, Execute, LookUp,
           Store, DropCapture, Rest
  <1>6. PICK id \in Candidates(i) :
          run' = [run EXCEPT ![v] =
                    [Idle EXCEPT !.pc = "composing", !.issue = i,
                       !.found = IF id = None THEN None
                                 ELSE [id |-> id, scan |-> kb[id].scan]]]
    BY <1>5 DEF Find
  <1>7. run'[v].found = IF id = None THEN None
                        ELSE [id |-> id, scan |-> kb[id].scan]
    BY <1>3, <1>6 DEF Idle
  <1>8. id # None /\ run'[v].found.id = id
    BY <1>7
  <1>9. id \in DOMAIN kb /\ ~Disproven(kb[id])
    BY <1>8, CandidateIs
  <1> QED BY <1>8, <1>9, GatesHold

\* However the counter updates of any number of runs interleave, and whichever
\* queries of theirs fail, an entry whose bookings are all made and none of
\* whose updates was lost is not replayed once its replays have shown that it
\* does not work (_find_replay_candidate's two gates over what
\* increment_reuse_count and increment_success_count wrote).
THEOREM NoDisprovenReplay == Spec => Quarantined
  <1>1. CountInv /\ [Next]_vars =>
          [\A w \in Workers :
             run[w].pc = "idle" /\ run'[w].found # None
             => LET id == run'[w].found.id
                IN Settled(id) => ~Failed(trial[id])]_vars
    BY QuarantineStep
  <1> QED BY <1>1, CountInit, CountStep, PTL DEF Spec, Quarantined

=============================================================================

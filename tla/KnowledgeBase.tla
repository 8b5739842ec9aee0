--------------------------- MODULE KnowledgeBase ---------------------------
(* The remediation knowledge base: the fixes that worked, kept to be        *)
(* replayed on the next finding of the same check and shown to the planner  *)
(* as examples.  Several runs use it at once.  A run looks for a recipe to  *)
(* replay, else it researches one; the fixer executes it; a success is      *)
(* captured; and the counters by which bad recipes are quarantined are      *)
(* bumped, each by a read and a later write.                                *)
(*                                                                          *)
(* Sources: remediation/kb_replay.py, kb_retrieval.py, kb_capture.py, the   *)
(* replay branch of remediation/planner.py, the end of run_fixer in         *)
(* fixer/orchestrator.py, and migration 0036 for the table.                 *)
EXTENDS Integers, FiniteSets, Sequences, SequencesExt, FiniteSetsExt

CONSTANTS
  None,
  Issues,        \* issue id -> its check, resource, family and file
  Workers,       \* runs at work at once
  Recipes,       \* what a planner may compose: real recipes
  Fake,          \* ... and the single step `echo UNFIXABLE: ...`
  Scores,        \* the confidences of researched pathways
  Examples,      \* max_examples of the few-shot retrieval (3)
  Seeds          \* how far the table may have come, and the bounds of an
                 \* execution from there: fix runs, queries that fail, and
                 \* pathways the pre-flight rewriter changes

ReplayScore == 95        \* what plan_remediation gives a replayed pathway
ReplayFloor == 70        \* _find_replay_candidate's least confidence
ExampleFloor == 50       \* min_confidence of the retrieval

ASSUME KBAssumption ==
  /\ Fake \notin Recipes /\ None \notin Recipes /\ None \notin Nat
  /\ IsFiniteSet(Workers)
  /\ Examples \in Nat
  /\ Scores \subseteq 0 .. 100

VARIABLES
  kb,        \* the rows of remediation_kb in the order of their ids
  done,      \* the finished fix runs, by id
  run,       \* what each worker is doing
  trial,     \* entry -> replays finished, those that succeeded, and whether
             \* every update of its counters landed (exact)
  left       \* what is left of the bounds
vars == <<kb, done, run, trial, left>>

Idle == [pc |-> "idle", issue |-> None, found |-> None, plan |-> None,
         existing |-> None, todo |-> <<>>, read |-> None]

Trial(entry) == [tried |-> entry.reused, won |-> entry.succeeded,
                 exact |-> TRUE]

Init ==
  /\ \E seed \in Seeds :
       /\ kb = seed.kb
       /\ done = seed.done
       /\ trial = [id \in DOMAIN seed.kb |-> Trial(seed.kb[id])]
       /\ left = seed.left
  /\ run = [w \in Workers |-> Idle]

-----------------------------------------------------------------------------
(* Choosing a recipe.                                                       *)

\* the generated column success_rate, in whole percent
Rate(entry) == IF entry.reused = 0 THEN 0
               ELSE (entry.succeeded * 100) \div entry.reused

\* the order of the queries: confidence, success rate, and then the newest
\* of two (the retrieval leaves the last one to the database)
Better(a, b) ==
  \/ kb[a].conf > kb[b].conf
  \/ kb[a].conf = kb[b].conf /\ Rate(kb[a]) > Rate(kb[b])
  \/ kb[a].conf = kb[b].conf /\ Rate(kb[a]) = Rate(kb[b]) /\ a > b
Ranked(ids) ==
  [k \in 1 .. Cardinality(ids) |->
     CHOOSE id \in ids :
       Cardinality({other \in ids : Better(other, id)}) = k - 1]

\* the two gates against recipes that have shown they do not work
Disproven_late(entry) ==
  \/ entry.reused > 3 /\ entry.succeeded = 0
  \/ entry.reused >= 10 /\ entry.succeeded * 10 < entry.reused
Disproven(entry) ==
  \/ entry.reused >= 3 /\ entry.succeeded = 0
  \/ entry.reused >= 10 /\ entry.succeeded * 10 < entry.reused

\* _find_replay_candidate: the first of the ranking or nothing -- a gate that
\* stops it does not let the second one through; None for nothing
Candidates(i) ==
  LET fits == {id \in DOMAIN kb : /\ kb[id].check = Issues[i].check
                                  /\ kb[id].resource = Issues[i].resource
                                  /\ kb[id].conf >= ReplayFloor}
      first == {id \in fits : \A other \in fits : ~Better(other, id)}
  IN IF fits = {} THEN {None}
     ELSE {IF Disproven(kb[id]) THEN None ELSE id : id \in first}

\* retrieve_examples: the entries of the check, then those of the family
Retrieved(i) ==
  LET ids == {id \in DOMAIN kb : kb[id].conf >= ExampleFloor}
      exact == {id \in ids : kb[id].check = Issues[i].check}
      kin == {id \in ids \ exact : kb[id].family = Issues[i].family}
      all == Ranked(exact) \o Ranked(kin)
  IN SubSeq(all, 1, Min({Examples, Len(all)}))

Bumps(ids, field) == [k \in DOMAIN ids |-> [id |-> ids[k], field |-> field]]

\* a run takes an issue and asks for a recipe to replay
Find(w, i) ==
  /\ run[w].pc = "idle"
  /\ left.runs > 0
  /\ \E id \in Candidates(i) :
       run' = [run EXCEPT ![w] =
         [Idle EXCEPT !.pc = "composing", !.issue = i,
            !.found = IF id = None THEN None
                      ELSE [id |-> id, scan |-> kb[id].scan]]]
  /\ left' = [left EXCEPT !.runs = @ - 1]
  /\ UNCHANGED <<kb, done, trial>>

\* The language model adapts the recipe to the issue.  The steps are
\* its answer; a re-scan it dropped is put back as the entry has it.
Adapt(w) ==
  LET r == run[w] IN
  /\ r.pc = "composing" /\ r.found # None
  /\ \E steps \in Recipes \union {Fake}, kept \in BOOLEAN :
       run' = [run EXCEPT ![w].pc = "planned",
                 ![w].plan = [steps |-> steps, conf |-> ReplayScore,
                    from |-> r.found.id, run |-> None,
                    scan |-> IF kept THEN Issues[r.issue].file
                             ELSE r.found.scan]]
  /\ UNCHANGED <<kb, done, trial, left>>

\* No candidate, or its adaptation could not be parsed: the agentic planner,
\* and the hybrid one when that fails too, each with examples of its own.
Research(w) ==
  LET r == run[w]
      bumps == Bumps(Retrieved(r.issue), "reused") IN
  /\ r.pc = "composing"
  /\ \E steps \in Recipes \union {Fake}, conf \in Scores,
        scan \in {Issues[r.issue].file, None},
        todo \in {bumps, bumps \o bumps} :
       run' = [run EXCEPT ![w].pc = "planned", ![w].found = None,
                 ![w].plan = [steps |-> steps, conf |-> conf, from |-> None,
                              run |-> None, scan |-> scan],
                 ![w].todo = todo]
  /\ UNCHANGED <<kb, done, trial, left>>

-----------------------------------------------------------------------------
(* The counters.                                                            *)

\* increment_reuse_count, increment_success_count: read it ...
ReadCount(w) ==
  LET r == run[w] IN
  /\ r.todo # <<>> /\ r.read = None
  /\ run' = [run EXCEPT ![w].read = kb[Head(r.todo).id][Head(r.todo).field]]
  /\ UNCHANGED <<kb, done, trial, left>>

Bumped(entry, field, count) ==
  [entry EXCEPT !.reused = IF field = "reused" THEN count ELSE @,
                !.succeeded = IF field = "succeeded" THEN count ELSE @]

\* ... and write back one more than was read
WriteCount(w) ==
  LET r == run[w]
      id == Head(r.todo).id
      field == Head(r.todo).field IN
  /\ r.todo # <<>> /\ r.read # None
  /\ kb' = [kb EXCEPT ![id] = Bumped(@, field, r.read + 1)]
  /\ trial' = [trial EXCEPT ![id].exact = @ /\ kb[id][field] = r.read]
  /\ run' = [run EXCEPT ![w].read = None, ![w].todo = Tail(r.todo)]
  /\ UNCHANGED <<done, left>>

\* either query may fail, which is swallowed
DropCount(w) ==
  LET r == run[w] IN
  /\ r.todo # <<>> /\ left.faults > 0
  /\ left' = [left EXCEPT !.faults = @ - 1]
  /\ trial' = [trial EXCEPT ![Head(r.todo).id].exact = FALSE]
  /\ run' = [run EXCEPT ![w].read = None, ![w].todo = Tail(r.todo)]
  /\ UNCHANGED <<kb, done>>

-----------------------------------------------------------------------------
(* The fix run and its capture.                                             *)

\* the counters a finished replay asks for
Credits_wins(from, status) ==
  IF from = None \/ status # "success" THEN <<>>
  ELSE <<[id |-> from, field |-> "reused"],
         [id |-> from, field |-> "succeeded"]>>
Credits(from, status) ==
  IF from = None THEN <<>>
  ELSE <<[id |-> from, field |-> "reused"]>>
       \o IF status = "success" THEN <<[id |-> from, field |-> "succeeded"]>>
          ELSE <<>>

\* How a run ends.  Its re-scan decides, and the other tests where there is
\* none; in a batch the re-scan may pass for some of the findings only.
Endings(scan) == IF scan = None THEN {"success", "failed"}
                 ELSE {"success", "partial_success", "failed"}

\* run_fixer up to the capture.  What it captures is the pathway it was given,
\* also when the pre-flight rewriter made another one of it (None).
Execute(w) ==
  LET r == run[w] IN
  /\ r.pc = "planned" /\ r.todo = <<>>
  /\ \E status \in Endings(r.plan.scan), ran \in {r.plan.steps, None} :
       /\ ran # r.plan.steps => left.rewrites > 0
       /\ left' = IF ran = r.plan.steps THEN left
                  ELSE [left EXCEPT !.rewrites = @ - 1]
       /\ done' = Append(done, [issue |-> r.issue, steps |-> r.plan.steps,
                                ran |-> ran, scan |-> r.plan.scan,
                                conf |-> r.plan.conf, status |-> status])
       /\ run' = [run EXCEPT ![w].pc = "finished",
                    ![w].plan.run = Len(done) + 1]
       /\ trial' = IF r.plan.from = None THEN trial
                   ELSE [trial EXCEPT ![r.plan.from].tried = @ + 1,
                           ![r.plan.from].won =
                              IF status = "success" THEN @ + 1 ELSE @]
  /\ UNCHANGED kb

\* the guards of capture_successful_fix
Capturable_any(f) == f.status = "success"
Capturable(f) == f.status = "success" /\ f.steps # Fake

Fingerprint(e) == <<e.check, e.resource, e.file>>

\* _build_kb_row
Row(n) ==
  LET f == done[n]
      i == Issues[f.issue] IN
  [check |-> i.check, resource |-> i.resource, family |-> i.family,
   file |-> i.file, steps |-> f.steps, undo |-> f.steps, scan |-> f.scan,
   conf |-> f.conf, source |-> n, reused |-> 0, succeeded |-> 0]

Same(n) == {id \in DOMAIN kb : Fingerprint(kb[id]) = Fingerprint(Row(n))}

\* then the replayed entry gets its credits
Credit(w, r) ==
  run' = [run EXCEPT ![w].pc = "crediting",
            ![w].todo = Credits(r.plan.from, done[r.plan.run].status)]

\* the first half of the capture looks for an entry of the same fingerprint
LookUp(w) ==
  LET r == run[w] IN
  /\ r.pc = "finished"
  /\ IF Capturable(done[r.plan.run])
     THEN \E id \in IF Same(r.plan.run) = {} THEN {0} ELSE Same(r.plan.run) :
            run' = [run EXCEPT ![w].pc = "storing",
                      ![w].existing = [id |-> id, conf |->
                                       IF id = 0 THEN 0 ELSE kb[id].conf]]
     ELSE Credit(w, r)
  /\ UNCHANGED <<kb, done, trial, left>>

\* what an update replaces: neither the way back nor the counters
Improved_split(entry, row) ==
  [entry EXCEPT !.conf = row.conf, !.steps = row.steps]
Improved(entry, row) ==
  [entry EXCEPT !.conf = row.conf, !.steps = row.steps, !.scan = row.scan,
                !.source = row.source]

\* the partial unique index idx_remediation_kb_dedup
Stored_twice(row) == Append(kb, row)
Stored(row) ==
  IF \E id \in DOMAIN kb : Fingerprint(kb[id]) = Fingerprint(row)
  THEN kb ELSE Append(kb, row)

\* the second half improves the entry that was found, when the confidence is
\* higher than the one read with it, or inserts a new one
Store(w) ==
  LET r == run[w]
      row == Row(r.plan.run)
      id == r.existing.id IN
  /\ r.pc = "storing"
  /\ kb' = CASE id = 0 -> Stored(row)
             [] id # 0 /\ row.conf > r.existing.conf ->
                  [kb EXCEPT ![id] = Improved(@, row)]
             [] OTHER -> kb
  /\ trial' = trial \o [n \in 1 .. Len(kb') - Len(kb) |-> Trial(row)]
  /\ Credit(w, r)
  /\ UNCHANGED <<done, left>>

\* a query of the capture fails, which is swallowed as well
DropCapture(w) ==
  /\ run[w].pc = "storing" /\ left.faults > 0
  /\ left' = [left EXCEPT !.faults = @ - 1]
  /\ Credit(w, run[w])
  /\ UNCHANGED <<kb, done, trial>>

Rest(w) ==
  /\ run[w].pc = "crediting" /\ run[w].todo = <<>>
  /\ run' = [run EXCEPT ![w] = Idle]
  /\ UNCHANGED <<kb, done, trial, left>>

Next ==
  \E w \in Workers :
    \/ \E i \in DOMAIN Issues : Find(w, i)
    \/ Adapt(w) \/ Research(w)
    \/ ReadCount(w) \/ WriteCount(w) \/ DropCount(w)
    \/ Execute(w) \/ LookUp(w) \/ Store(w) \/ DropCapture(w) \/ Rest(w)

Spec == Init /\ [][Next]_vars

-----------------------------------------------------------------------------
(* Properties.                                                              *)

\* one entry per fingerprint, each out of one run that succeeded
Sound(table, runs) ==
  /\ \A a, b \in DOMAIN table :
       Fingerprint(table[a]) = Fingerprint(table[b]) => a = b
  /\ \A id \in DOMAIN table :
       LET e == table[id]
           f == runs[e.source] IN
       /\ e.source \in DOMAIN runs
       /\ <<e.steps, e.conf, e.scan>> = <<f.steps, f.conf, f.scan>>
       /\ Fingerprint(e) = Fingerprint(Issues[f.issue])
       /\ f.status = "success" /\ f.steps # Fake

\* 0036: "Only verified successes enter this table" and "prevents the same
\* fix from being stored multiple times".  However captures of one
\* fingerprint interleave, there is one entry of it; what it holds -- steps,
\* confidence, the scan that is the proof -- comes from one run, of an issue
\* of that fingerprint, which succeeded, and it is no echo.
Proven == Sound(kb, done)

\* The table an execution starts from is one that captures have left.
Columns == {"check", "resource", "family", "file", "steps", "undo", "scan",
            "conf", "source", "reused", "succeeded"}
IsEntry(e) == e = [c \in Columns |-> e[c]]
ASSUME SeedsSound ==
  \A seed \in Seeds :
    /\ seed.kb \in Seq(ToSet(seed.kb)) /\ seed.done \in Seq(ToSet(seed.done))
    /\ \A id \in DOMAIN seed.kb :
         /\ IsEntry(seed.kb[id])
         /\ seed.kb[id].reused \in Nat /\ seed.kb[id].succeeded \in Nat
    /\ Sound(seed.kb, seed.done)

\* The gates of _find_replay_candidate, against what really happened: an
\* entry of which three replays finished and none ever succeeded, or ten with
\* less than one success in ten, is not replayed again -- once its credits
\* are booked, and as long as no update of its counters was lost.
Settled(id) ==
  /\ trial[id].exact
  /\ \A w \in Workers :
       /\ \A k \in DOMAIN run[w].todo : run[w].todo[k].id # id
       /\ run[w].pc \notin {"idle", "composing"} => run[w].plan.from # id
Failed(t) == \/ t.tried >= 3 /\ t.won = 0
             \/ t.tried >= 10 /\ t.won * 10 < t.tried
Quarantined ==
  [][\A w \in Workers :
       run[w].pc = "idle" /\ run'[w].found # None
       => LET id == run'[w].found.id IN Settled(id) => ~Failed(trial[id])]_vars

\* 0036 calls the steps of an entry "the exact steps that successfully fixed
\* the finding".  The pre-flight rewriter breaks this.
Exact == \A id \in DOMAIN kb : done[kb[id].source].ran = kb[id].steps

\* 0036 calls times_succeeded "how many of those reuses led to success".  A
\* lost update of times_reused breaks this.
Counted == \A id \in DOMAIN kb : kb[id].succeeded <= kb[id].reused
=============================================================================

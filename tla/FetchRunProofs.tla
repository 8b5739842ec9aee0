--------------------------- MODULE FetchRunProofs ---------------------------
(* Theorems about agent runs, for any runs, scanners, targets and faults.   *)
EXTENDS FetchRun, TLAPS

(* A thread that ends has no rows left.                                     *)
LEMMA EndsType == \A at \in Thread : Ends(at) \in Job
BY FetchAssumption DEF Ends, NoJob, NoRows, Job, RowState, Thread

(* The fields of a thread's record have their types.                        *)
LEMMA ThreadType ==
  ASSUME TypeOK, NEW r \in Runs, NEW t \in Tools
  PROVE  /\ job[r][t] \in Job
         /\ job[r][t].at \in Thread
         /\ job[r][t].last \in 0 .. MaxFound
         /\ job[r][t].began \in 0 .. MaxFound
         /\ job[r][t].row \in [Ids -> RowState]
BY DEF TypeOK, Job

(* A thread that takes a record of the right type keeps the type of job ... *)
LEMMA MovesType ==
  ASSUME TypeOK, NEW r \in Runs, NEW t \in Tools, NEW at, NEW j \in Job,
         Moves(r, t, at, j)
  PROVE  job' \in [Runs -> [Tools -> Job]]
BY DEF Moves, TypeOK

(* ... and so does one that moves a row.                                   *)
LEMMA RowMovesType ==
  ASSUME TypeOK, NEW r \in Runs, NEW t \in Tools, NEW i \in Ids,
         NEW state \in RowState, RowMoves(r, t, i, state)
  PROVE  job' \in [Runs -> [Tools -> Job]]
<1>1. job[r][t] \in Job /\ job[r][t].row \in [Ids -> RowState]
  BY ThreadType
<1>2. [job[r][t] EXCEPT !.row = [job[r][t].row EXCEPT ![i] = state]] \in Job
  BY <1>1 DEF Job
<1> QED BY <1>2, MovesType DEF RowMoves

(* No step breaks the types.                                               *)
LEMMA TypeStep == TypeOK /\ [Next]_vars => TypeOK'
<1> SUFFICES ASSUME TypeOK, [Next]_vars
             PROVE  TypeOK'
  OBVIOUS
<1> USE FetchAssumption DEF TypeOK, tables, runRow, Goto, Fault, Ids
<1>1. ASSUME NEW t \in Tools, Report(t) PROVE TypeOK'
  BY <1>1 DEF Report, Finding
<1>2. ASSUME NEW r \in Runs, NEW S \in Targets, TriggerCheck(r, S)
      PROVE TypeOK'
  BY <1>2 DEF TriggerCheck, PC, Before, After, Status
<1>3. ASSUME NEW r \in Runs, TriggerInsert(r) PROVE TypeOK'
  BY <1>3 DEF TriggerInsert, PC, Before, After, Status
<1>4. ASSUME NEW r \in Runs, Cancel(r) PROVE TypeOK'
  BY <1>4 DEF Cancel, Status, WipeStep
<1>5. ASSUME NEW r \in Runs, LoadContext(r) PROVE TypeOK'
  BY <1>5 DEF LoadContext, PC, Before, After, Status
<1>6. ASSUME NEW r \in Runs, Plan(r) PROVE TypeOK'
  BY <1>6 DEF Plan, PC, Before, After, Status
<1>7. ASSUME NEW r \in Runs, FetchAll(r) PROVE TypeOK'
  <2>1. \A at \in {"ready", "no"} : Ends(at) \in Job
    BY EndsType DEF Thread
  <2>2. [u \in Tools |-> Ends(IF u \in targets[r] THEN "ready" ELSE "no")]
          \in [Tools -> Job]
    BY <2>1
  <2>3. job' \in [Runs -> [Tools -> Job]]
    <3>1. PICK stop : IF stop THEN UNCHANGED job
                      ELSE job' = [job EXCEPT ![r] = [u \in Tools |->
                             Ends(IF u \in targets[r] THEN "ready" ELSE "no")]]
      BY <1>7 DEF FetchAll
    <3>2. CASE stop
      BY <3>1, <3>2
    <3>3. CASE ~stop
      BY <3>1, <3>3, <2>2
    <3> QED BY <3>2, <3>3
  <2>4. pc' \in [Runs -> PC]
    BY <1>7 DEF FetchAll, PC, After
  <2> QED BY <1>7, <2>3, <2>4 DEF FetchAll
<1>8. ASSUME NEW r \in Runs, Join(r) PROVE TypeOK'
  BY <1>8 DEF Join, NextNode, PC, After
<1>9. ASSUME NEW r \in Runs, Enrich(r) PROVE TypeOK'
  BY <1>9 DEF Enrich, PC, Before, After, Status
<1>10. ASSUME NEW r \in Runs, LoadIssues(r) PROVE TypeOK'
  <2>1. IssuesOf(r) \in SUBSET (Runs \X Tools \X (1 .. MaxFound))
    BY DEF IssuesOf
  <2>2. todo' \in [Runs -> SUBSET (Runs \X Tools \X (1 .. MaxFound))]
    <3>1. PICK stop : IF stop THEN UNCHANGED todo
                      ELSE todo' = [todo EXCEPT ![r] = IssuesOf(r)]
      BY <1>10 DEF LoadIssues
    <3>2. CASE stop
      BY <3>1, <3>2
    <3>3. CASE ~stop
      BY <3>1, <3>3, <2>1
    <3> QED BY <3>2, <3>3
  <2>3. pc' \in [Runs -> PC]
    BY <1>10 DEF LoadIssues, PC, After
  <2> QED BY <1>10, <2>2, <2>3 DEF LoadIssues
<1>11. ASSUME NEW r \in Runs, EnrichIssues(r) PROVE TypeOK'
  BY <1>11 DEF EnrichIssues, PC, Before, After, Status
<1>12. ASSUME NEW r \in Runs, Summarize(r) PROVE TypeOK'
  BY <1>12 DEF Summarize, PC, Before, After, Status
<1>13. ASSUME NEW r \in Runs, Finish(r) PROVE TypeOK'
  BY <1>13 DEF Finish, PC, Before, After, Status
<1>14. ASSUME NEW r \in Runs, Fail(r) PROVE TypeOK'
  BY <1>14 DEF Fail, PC, Before, After, Status
<1>15. ASSUME NEW r \in Runs, NodeRaises(r) PROVE TypeOK'
  BY <1>15 DEF NodeRaises, Caught, PC, After
<1>16. ASSUME NEW r \in Runs, FailRaises(r) PROVE TypeOK'
  BY <1>16 DEF FailRaises, PC, Before, After, Status
<1>17. ASSUME NEW r \in Runs, NEW x \in todo[r], EnrichFails(r, x)
       PROVE TypeOK'
  BY <1>17 DEF EnrichFails
<1>18. ASSUME NEW r \in Runs, NEW t \in Tools, ReadRegistry(r, t)
       PROVE TypeOK'
  <2>1. job[r][t] \in Job
    BY ThreadType
  <2>2. [job[r][t] EXCEPT !.at = "connect", !.last = mark[t]] \in Job
    BY <2>1 DEF Job, Thread, RowState
  <2>3. job' \in [Runs -> [Tools -> Job]]
    BY <1>18, <2>2, MovesType DEF ReadRegistry
  <2> QED BY <1>18, <2>3 DEF ReadRegistry, Moves
<1>19. ASSUME NEW r \in Runs, NEW t \in Tools, Connect(r, t) PROVE TypeOK'
  <2>1. job[r][t] \in Job
    BY ThreadType
  <2>2. [job[r][t] EXCEPT !.at = "fetch", !.began = now] \in Job
    BY <2>1 DEF Job, Thread, RowState
  <2>3. job' \in [Runs -> [Tools -> Job]]
    BY <1>19, <2>2, MovesType DEF Connect
  <2> QED BY <1>19, <2>3 DEF Connect, Moves
<1>20. ASSUME NEW r \in Runs, NEW t \in Tools, FetchRows(r, t) PROVE TypeOK'
  <2>1. job[r][t].began \in 0 .. MaxFound
    BY ThreadType
  <2>2. [at    |-> IF Newer(r, t) = {} THEN "empty" ELSE "store",
         last  |-> 0,
         began |-> job[r][t].began,
         row   |-> [i \in Ids |-> IF i \in Newer(r, t) THEN "pending" ELSE "no"]]
          \in Job
    BY <2>1 DEF Job, Thread, RowState
  <2>3. job' \in [Runs -> [Tools -> Job]]
    BY <1>20, <2>2, MovesType DEF FetchRows
  <2> QED BY <1>20, <2>3 DEF FetchRows, Moves
<1>21. ASSUME NEW r \in Runs, NEW t \in Tools, NothingNew(r, t) PROVE TypeOK'
  <2>1. job' \in [Runs -> [Tools -> Job]]
    BY <1>21, MovesType, EndsType DEF NothingNew, Thread
  <2>2. NewMark(r, t) \in 0 .. MaxFound
    BY ThreadType DEF NewMark
  <2> QED BY <1>21, <2>1, <2>2 DEF NothingNew, Moves
<1>22. ASSUME NEW r \in Runs, NEW t \in Tools, StoreRaw(r, t) PROVE TypeOK'
  <2>1. job[r][t] \in Job
    BY ThreadType
  <2>2. [job[r][t] EXCEPT !.at = "rows"] \in Job
    BY <2>1 DEF Job, Thread, RowState
  <2>3. job' \in [Runs -> [Tools -> Job]]
    BY <1>22, <2>2, MovesType DEF StoreRaw
  <2> QED BY <1>22, <2>3 DEF StoreRaw, Moves
<1>23. ASSUME NEW r \in Runs, NEW t \in Tools, EndRows(r, t) PROVE TypeOK'
  <2>1. job' \in [Runs -> [Tools -> Job]]
    BY <1>23, MovesType, EndsType DEF EndRows, Thread
  <2>2. NewMark(r, t) \in 0 .. MaxFound
    BY ThreadType DEF NewMark
  <2> QED BY <1>23, <2>1, <2>2 DEF EndRows, Moves
<1>24. ASSUME NEW r \in Runs, NEW t \in Tools, ReportError(r, t) PROVE TypeOK'
  <2>1. job' \in [Runs -> [Tools -> Job]]
    BY <1>24, MovesType, EndsType DEF ReportError, Thread
  <2> QED BY <1>24, <2>1 DEF ReportError, Moves
<1>25. ASSUME NEW r \in Runs, NEW t \in Tools, ThreadRaises(r, t)
       PROVE TypeOK'
  <2>1. job' \in [Runs -> [Tools -> Job]]
    BY <1>25, MovesType, EndsType DEF ThreadRaises, Thread
  <2> QED BY <1>25, <2>1 DEF ThreadRaises, Moves
<1>26. ASSUME NEW r \in Runs, NEW t \in Tools, ThreadEscapes(r, t)
       PROVE TypeOK'
  <2>1. job' \in [Runs -> [Tools -> Job]]
    BY <1>26, MovesType, EndsType DEF ThreadEscapes, Thread
  <2> QED BY <1>26, <2>1 DEF ThreadEscapes, Moves
<1>27. ASSUME NEW r \in Runs, NEW t \in Tools, WipeIssues(r, t) PROVE TypeOK'
  BY <1>27 DEF WipeIssues, Wiping, NotOf, WipeStep
<1>28. ASSUME NEW r \in Runs, NEW t \in Tools, WipeRaw(r, t) PROVE TypeOK'
  BY <1>28 DEF WipeRaw, Wiping, NotOf, WipeStep
<1>29. ASSUME NEW r \in Runs, NEW t \in Tools, WipeMark(r, t) PROVE TypeOK'
  BY <1>29 DEF WipeMark, Wiping, NotOf, WipeStep
<1>30. ASSUME NEW r \in Runs, NEW t \in Tools, NEW i \in Ids, CheckRow(r, t, i)
       PROVE TypeOK'
  <2>1. job' \in [Runs -> [Tools -> Job]]
    BY <1>30, RowMovesType DEF CheckRow, RowState
  <2> QED BY <1>30, <2>1 DEF CheckRow, RowMoves, Moves
<1>31. ASSUME NEW r \in Runs, NEW t \in Tools, NEW i \in Ids, InsertIssue(r, t, i)
       PROVE TypeOK'
  <2>1. job' \in [Runs -> [Tools -> Job]]
    BY <1>31, RowMovesType DEF InsertIssue, RowState
  <2> QED BY <1>31, <2>1 DEF InsertIssue, RowMoves, Moves
<1>32. ASSUME NEW r \in Runs, NEW t \in Tools, NEW i \in Ids, NormalizeFails(r, t, i)
       PROVE TypeOK'
  <2>1. job' \in [Runs -> [Tools -> Job]]
    BY <1>32, RowMovesType DEF NormalizeFails, RowState
  <2> QED BY <1>32, <2>1 DEF NormalizeFails, RowMoves, Moves
<1>33. ASSUME Restart PROVE TypeOK'
  <2>1. NoJob \in Job
    BY EndsType DEF Ends, NoJob, Thread
  <2> QED BY <1>33, <2>1 DEF Restart, PC, Before, After, WipeStep
<1>34. CASE UNCHANGED vars
  BY <1>34 DEF vars, tables, runRow
<1> QED
  BY <1>1, <1>2, <1>3, <1>4, <1>5, <1>6, <1>7, <1>8, <1>9, <1>10, <1>11,
     <1>12, <1>13, <1>14, <1>15, <1>16, <1>17, <1>18, <1>19, <1>20, <1>21,
     <1>22, <1>23, <1>24, <1>25, <1>26, <1>27, <1>28, <1>29, <1>30, <1>31,
     <1>32, <1>33, <1>34
  DEF Next, Operator, MasterStep, Failure, ThreadStep, WipeTool

(* Every variable has its type, whatever fails and whoever cancels.        *)
THEOREM TypeCorrect == Spec => []TypeOK
<1>1. Init => TypeOK
  <2>1. NoJob \in Job
    BY EndsType DEF Ends, NoJob, Thread
  <2> QED BY <2>1, FetchAssumption
          DEF Init, TypeOK, Status, PC, WipeStep
<1>2. TypeOK /\ [Next]_vars => TypeOK'
  BY TypeStep
<1> QED BY <1>1, <1>2, PTL DEF Spec

-----------------------------------------------------------------------------
(* A thread moves alone.                                                   *)
LEMMA MovesAlone ==
  ASSUME TypeOK, NEW r \in Runs, NEW t \in Tools, NEW at, NEW j,
         Moves(r, t, at, j)
  PROVE  /\ job[r][t].at = at
         /\ \A s \in Runs, v \in Tools :
              job'[s][v] = IF s = r /\ v = t THEN j ELSE job[s][v]
BY DEF Moves, TypeOK

(* A thread is alive only while the Master waits for it.                   *)
Alive(r, t) == job[r][t].at \notin {"no", "ended", "escaped"}
ThreadInv ==
  \A r \in Runs, t \in Tools :
    Alive(r, t) => pc[r] = "fetching" /\ t \in targets[r]

(* The Master leaves its fetches only when every thread has ended, and a   *)
(* restart ends them all.                                                  *)
LEMMA ThreadInvStep == TypeOK /\ ThreadInv /\ [Next]_vars => ThreadInv'
<1> SUFFICES ASSUME TypeOK, ThreadInv, [Next]_vars
             PROVE  ThreadInv'
  OBVIOUS
<1> USE DEF ThreadInv, Alive, tables, runRow, Goto
<1>1. ASSUME NEW t \in Tools, Report(t) PROVE ThreadInv'
  BY <1>1 DEF Report, TypeOK
<1>2. ASSUME NEW r \in Runs, NEW S \in Targets, TriggerCheck(r, S)
      PROVE ThreadInv'
  BY <1>2 DEF TriggerCheck, TypeOK
<1>3. ASSUME NEW r \in Runs, TriggerInsert(r) PROVE ThreadInv'
  BY <1>3 DEF TriggerInsert, TypeOK
<1>4. ASSUME NEW r \in Runs, Cancel(r) PROVE ThreadInv'
  BY <1>4 DEF Cancel, TypeOK
<1>5. ASSUME NEW r \in Runs, LoadContext(r) PROVE ThreadInv'
  BY <1>5 DEF LoadContext, TypeOK
<1>6. ASSUME NEW r \in Runs, Plan(r) PROVE ThreadInv'
  BY <1>6 DEF Plan, TypeOK
<1>7. ASSUME NEW r \in Runs, FetchAll(r) PROVE ThreadInv'
  <2>1. PICK stop : IF stop THEN Goto(r, "cancelled") /\ UNCHANGED job
        ELSE /\ Goto(r, "fetching")
             /\ job' = [job EXCEPT ![r] = [u \in Tools |->
                  Ends(IF u \in targets[r] THEN "ready" ELSE "no")]]
    BY <1>7 DEF FetchAll
  <2>2. CASE stop
    BY <1>7, <2>1, <2>2 DEF FetchAll, TypeOK
  <2>3. CASE ~stop
    <3>1. \A v \in Tools : job'[r][v] = Ends(IF v \in targets[r] THEN "ready" ELSE "no")
      BY <2>1, <2>3 DEF TypeOK
    <3>2. \A v \in Tools : job'[r][v].at = IF v \in targets[r] THEN "ready" ELSE "no"
      BY <3>1 DEF Ends, NoJob
    <3>3. \A s \in Runs \ {r} : job'[s] = job[s] /\ pc'[s] = pc[s]
      BY <2>1, <2>3 DEF TypeOK
    <3>4. pc'[r] = "fetching" /\ targets' = targets
      BY <1>7, <2>1, <2>3 DEF FetchAll, TypeOK
    <3> QED BY <3>2, <3>3, <3>4
  <2> QED BY <2>2, <2>3
<1>8. ASSUME NEW r \in Runs, Join(r) PROVE ThreadInv'
  BY <1>8 DEF Join, Joined, TypeOK
<1>9. ASSUME NEW r \in Runs, Enrich(r) PROVE ThreadInv'
  BY <1>9 DEF Enrich, TypeOK
<1>10. ASSUME NEW r \in Runs, LoadIssues(r) PROVE ThreadInv'
  BY <1>10 DEF LoadIssues, TypeOK
<1>11. ASSUME NEW r \in Runs, EnrichIssues(r) PROVE ThreadInv'
  BY <1>11 DEF EnrichIssues, TypeOK
<1>12. ASSUME NEW r \in Runs, Summarize(r) PROVE ThreadInv'
  BY <1>12 DEF Summarize, TypeOK
<1>13. ASSUME NEW r \in Runs, Finish(r) PROVE ThreadInv'
  BY <1>13 DEF Finish, TypeOK
<1>14. ASSUME NEW r \in Runs, Fail(r) PROVE ThreadInv'
  BY <1>14 DEF Fail, TypeOK
<1>15. ASSUME NEW r \in Runs, NodeRaises(r) PROVE ThreadInv'
  BY <1>15 DEF NodeRaises, TypeOK
<1>16. ASSUME NEW r \in Runs, FailRaises(r) PROVE ThreadInv'
  BY <1>16 DEF FailRaises, TypeOK
<1>17. ASSUME NEW r \in Runs, NEW x \in todo[r], EnrichFails(r, x)
       PROVE ThreadInv'
  BY <1>17 DEF EnrichFails
<1>18. ASSUME NEW r \in Runs, NEW t \in Tools, ReadRegistry(r, t)
       PROVE ThreadInv'
  BY <1>18, MovesAlone DEF ReadRegistry, Moves, Ends, NoJob
<1>19. ASSUME NEW r \in Runs, NEW t \in Tools, Connect(r, t) PROVE ThreadInv'
  BY <1>19, MovesAlone DEF Connect, Moves, Ends, NoJob
<1>20. ASSUME NEW r \in Runs, NEW t \in Tools, FetchRows(r, t)
       PROVE ThreadInv'
  BY <1>20, MovesAlone DEF FetchRows, Moves, Ends, NoJob
<1>21. ASSUME NEW r \in Runs, NEW t \in Tools, NothingNew(r, t)
       PROVE ThreadInv'
  BY <1>21, MovesAlone DEF NothingNew, Moves, Ends, NoJob
<1>22. ASSUME NEW r \in Runs, NEW t \in Tools, StoreRaw(r, t) PROVE ThreadInv'
  BY <1>22, MovesAlone DEF StoreRaw, Moves, Ends, NoJob
<1>23. ASSUME NEW r \in Runs, NEW t \in Tools, EndRows(r, t) PROVE ThreadInv'
  BY <1>23, MovesAlone DEF EndRows, Moves, Ends, NoJob
<1>24. ASSUME NEW r \in Runs, NEW t \in Tools, ReportError(r, t)
       PROVE ThreadInv'
  BY <1>24, MovesAlone DEF ReportError, Moves, Ends, NoJob
<1>25. ASSUME NEW r \in Runs, NEW t \in Tools, ThreadRaises(r, t)
       PROVE ThreadInv'
  BY <1>25, MovesAlone DEF ThreadRaises, Moves, Ends, NoJob
<1>26. ASSUME NEW r \in Runs, NEW t \in Tools, ThreadEscapes(r, t)
       PROVE ThreadInv'
  BY <1>26, MovesAlone DEF ThreadEscapes, Moves, Ends, NoJob
<1>27. ASSUME NEW r \in Runs, NEW t \in Tools, WipeIssues(r, t)
       PROVE ThreadInv'
  BY <1>27 DEF WipeIssues, Wiping
<1>28. ASSUME NEW r \in Runs, NEW t \in Tools, WipeRaw(r, t) PROVE ThreadInv'
  BY <1>28 DEF WipeRaw, Wiping
<1>29. ASSUME NEW r \in Runs, NEW t \in Tools, WipeMark(r, t) PROVE ThreadInv'
  BY <1>29 DEF WipeMark, Wiping
<1>30. ASSUME NEW r \in Runs, NEW t \in Tools, NEW i \in Ids, CheckRow(r, t, i)
       PROVE ThreadInv'
  BY <1>30, MovesAlone DEF CheckRow, RowMoves, Moves
<1>31. ASSUME NEW r \in Runs, NEW t \in Tools, NEW i \in Ids, InsertIssue(r, t, i)
       PROVE ThreadInv'
  BY <1>31, MovesAlone DEF InsertIssue, RowMoves, Moves
<1>32. ASSUME NEW r \in Runs, NEW t \in Tools, NEW i \in Ids, NormalizeFails(r, t, i)
       PROVE ThreadInv'
  BY <1>32, MovesAlone DEF NormalizeFails, RowMoves, Moves
<1>33. ASSUME Restart PROVE ThreadInv'
  BY <1>33 DEF Restart, NoJob
<1>34. CASE UNCHANGED vars
  BY <1>34 DEF vars, tables, runRow
<1> QED
  BY <1>1, <1>2, <1>3, <1>4, <1>5, <1>6, <1>7, <1>8, <1>9, <1>10, <1>11,
     <1>12, <1>13, <1>14, <1>15, <1>16, <1>17, <1>18, <1>19, <1>20, <1>21,
     <1>22, <1>23, <1>24, <1>25, <1>26, <1>27, <1>28, <1>29, <1>30, <1>31,
     <1>32, <1>33, <1>34
  DEF Next, Operator, MasterStep, Failure, ThreadStep, WipeTool

(* Sub-Agent 2 loads a run's issues once; no fetch thread adds one after   *)
(* the Master has left the fetches.                                        *)
THEOREM LateInsertNever == Spec => NoLateInsert
<1>1. Init => ThreadInv
  BY DEF Init, ThreadInv, Alive, NoJob
<1>2. TypeOK /\ ThreadInv /\ [Next]_vars => ThreadInv'
  BY ThreadInvStep
<1>3. ASSUME TypeOK, ThreadInv, [Next]_vars
      PROVE  \A r \in Runs : pc[r] \in After => IssuesOf(r)' \subseteq IssuesOf(r)
  <2> USE DEF IssuesOf, tables, runRow
  <2>1. ASSUME NEW r \in Runs, NEW t \in Tools, NEW i \in Ids, InsertIssue(r, t, i)
        PROVE  pc[r] = "fetching" /\ issues' \subseteq issues \cup {<<r, t, i>>}
    BY <1>3, <2>1, MovesAlone DEF InsertIssue, RowMoves, ThreadInv, Alive
  <2>2. CASE \E r \in Runs, t \in Tools, i \in Ids : InsertIssue(r, t, i)
    BY <2>1, <2>2 DEF After
  <2>3. CASE \E r \in Runs, t \in Tools : WipeIssues(r, t)
    BY <2>3 DEF WipeIssues, NotOf
  <2>4. ASSUME NEW r \in Runs, MasterStep(r) \/ Operator(r) PROVE UNCHANGED issues
    BY <2>4
    DEF MasterStep, LoadContext, Plan, FetchAll, Join, Enrich, LoadIssues, EnrichIssues,
        Summarize, Finish, Fail, Operator, TriggerCheck, TriggerInsert, Cancel
  <2>5. ASSUME NEW r \in Runs, Failure(r) PROVE UNCHANGED issues
    BY <2>5
    DEF Failure, NodeRaises, FailRaises, EnrichFails, ThreadRaises, ThreadEscapes,
        NormalizeFails
  <2>6. ASSUME NEW r \in Runs, NEW t \in Tools, ThreadStep(r, t),
               \A i \in Ids : ~InsertIssue(r, t, i)
        PROVE  UNCHANGED issues
    BY <2>6
    DEF ThreadStep, ReadRegistry, Connect, FetchRows, NothingNew, StoreRaw, CheckRow,
        EndRows, ReportError
  <2>7. ASSUME NEW r \in Runs, NEW t \in Tools, WipeTool(r, t), ~WipeIssues(r, t)
        PROVE  UNCHANGED issues
    BY <2>7 DEF WipeTool, WipeRaw, WipeMark
  <2>8. CASE UNCHANGED issues
    BY <2>8
  <2>9. CASE Restart \/ (\E t \in Tools : Report(t)) \/ UNCHANGED vars
    BY <2>9 DEF Restart, Report, vars
  <2> QED BY <1>3, <2>2, <2>3, <2>4, <2>5, <2>6, <2>7, <2>8, <2>9 DEF Next
<1> QED
  BY <1>1, <1>2, <1>3, TypeCorrect, PTL DEF Spec, NoLateInsert

-----------------------------------------------------------------------------
(* While polls of the flag get an answer, a run that is cancelled before   *)
(* its fetches start never starts them.                                    *)
THEOREM CancelIsSeen ==
  ASSUME "check" \notin Faults
  PROVE  Spec => CancelStopsFetch
<1>1. ASSUME TypeOK, [Next]_vars, NEW r \in Runs, flag[r], pc[r] \in Before
      PROVE  pc'[r] \in Before \cup After
  <2> USE DEF TypeOK, Goto, Before, After
  <2>1. ASSUME NEW s \in Runs, FetchAll(s) PROVE pc'[r] \in Before \cup After
    <3>1. CASE s = r
      <4>1. Polls(s) = {TRUE}
        BY <1>1, <3>1 DEF Polls, Stops
      <4> QED BY <1>1, <2>1, <3>1, <4>1 DEF FetchAll
    <3>2. CASE s # r
      BY <1>1, <2>1, <3>2 DEF FetchAll
    <3> QED BY <3>1, <3>2
  <2>2. ASSUME NEW s \in Runs, MasterStep(s) PROVE pc'[r] \in Before \cup After
    <3>1. ASSUME LoadContext(s) \/ Plan(s) \/ Summarize(s) \/ Finish(s) \/ Fail(s)
          PROVE  pc'[r] \in Before \cup After
      BY <1>1, <3>1 DEF LoadContext, Plan, Summarize, Finish, Fail
    <3>2. ASSUME Join(s) PROVE pc'[r] \in Before \cup After
      BY <1>1, <3>2 DEF Join
    <3>3. ASSUME Enrich(s) \/ LoadIssues(s) \/ EnrichIssues(s)
          PROVE  pc'[r] \in Before \cup After
      BY <1>1, <3>3 DEF Enrich, LoadIssues, EnrichIssues
    <3> QED BY <2>1, <2>2, <3>1, <3>2, <3>3 DEF MasterStep
  <2>3. ASSUME NEW s \in Runs, Failure(s) PROVE pc'[r] \in Before \cup After
    BY <1>1, <2>3
    DEF Failure, NodeRaises, Caught, FailRaises, EnrichFails, ThreadRaises,
        ThreadEscapes, NormalizeFails, RowMoves, Moves
  <2>4. ASSUME NEW s \in Runs, Operator(s) PROVE pc'[r] \in Before \cup After
    BY <1>1, <2>4 DEF Operator, TriggerCheck, TriggerInsert, Cancel
  <2>5. CASE Restart
    BY <1>1, <2>5 DEF Restart
  <2>6. ASSUME NEW s \in Runs, NEW t \in Tools, ThreadStep(s, t) \/ WipeTool(s, t)
        PROVE  UNCHANGED pc
    <3>1. CASE ThreadStep(s, t)
      BY <3>1
      DEF ThreadStep, ReadRegistry, Connect, FetchRows, NothingNew, StoreRaw,
          CheckRow, InsertIssue, EndRows, ReportError, RowMoves, Moves
    <3>2. CASE WipeTool(s, t)
      BY <3>2 DEF WipeTool, WipeIssues, WipeRaw, WipeMark, Wiping
    <3> QED BY <2>6, <3>1, <3>2
  <2>7. ASSUME NEW t \in Tools, Report(t) PROVE UNCHANGED pc
    BY <2>7 DEF Report
  <2>8. CASE UNCHANGED vars
    BY <1>1, <2>8 DEF vars
  <2> QED BY <1>1, <2>2, <2>3, <2>4, <2>5, <2>6, <2>7, <2>8 DEF Next
<1>2. TypeOK /\ [Next]_vars =>
        \A r \in Runs : flag[r] /\ pc[r] \in Before => pc[r]' \in Before \cup After
  BY <1>1
<1> QED BY <1>2, TypeCorrect, PTL DEF Spec, CancelStopsFetch

-----------------------------------------------------------------------------
(* A run whose row is not inserted yet is neither open nor cancelled.      *)
Untriggered ==
  \A r \in Runs : pc[r] \in {"none", "asked"} => status[r] = "none" /\ ~flag[r]


(* Only a cancel wipes.  It is final: its flag stays, and so do the        *)
(* targets that it wipes.                                                  *)
WipeInv ==
  \A r \in Runs, t \in Tools : wipe[r][t] # "no" => flag[r] /\ t \in targets[r]

FlagKept ==
  \A r \in Runs : flag[r] => flag[r]' /\ targets[r]' = targets[r]

Touched(t) == \E r \in Runs : flag[r] /\ t \in targets[r]

(* A row that nobody has inserted cannot be cancelled, and no step takes a *)
(* cancel back.                                                            *)
LEMMA RowStep ==
  TypeOK /\ Untriggered /\ WipeInv /\ [Next]_vars =>
    Untriggered' /\ WipeInv' /\ FlagKept
<1> SUFFICES ASSUME TypeOK, Untriggered, WipeInv, [Next]_vars
             PROVE  Untriggered' /\ WipeInv' /\ FlagKept
  OBVIOUS
<1> USE DEF TypeOK, Untriggered, WipeInv, FlagKept, tables, runRow, Goto
<1>1. ASSUME NEW t \in Tools, Report(t)
      PROVE Untriggered' /\ WipeInv' /\ FlagKept
  BY <1>1 DEF Report
<1>2. ASSUME NEW r \in Runs, NEW S \in Targets, TriggerCheck(r, S)
      PROVE Untriggered' /\ WipeInv' /\ FlagKept
  BY <1>2 DEF TriggerCheck
<1>3. ASSUME NEW r \in Runs, TriggerInsert(r)
      PROVE Untriggered' /\ WipeInv' /\ FlagKept
  BY <1>3 DEF TriggerInsert
<1>4. ASSUME NEW r \in Runs, Cancel(r)
      PROVE Untriggered' /\ WipeInv' /\ FlagKept
  BY <1>4 DEF Cancel, InFlight
<1>5. ASSUME NEW r \in Runs, LoadContext(r)
      PROVE Untriggered' /\ WipeInv' /\ FlagKept
  BY <1>5 DEF LoadContext
<1>6. ASSUME NEW r \in Runs, Plan(r)
      PROVE Untriggered' /\ WipeInv' /\ FlagKept
  BY <1>6 DEF Plan
<1>7. ASSUME NEW r \in Runs, FetchAll(r)
      PROVE Untriggered' /\ WipeInv' /\ FlagKept
  BY <1>7 DEF FetchAll
<1>8. ASSUME NEW r \in Runs, Join(r)
      PROVE Untriggered' /\ WipeInv' /\ FlagKept
  BY <1>8 DEF Join, NextNode
<1>9. ASSUME NEW r \in Runs, Enrich(r)
      PROVE Untriggered' /\ WipeInv' /\ FlagKept
  BY <1>9 DEF Enrich
<1>10. ASSUME NEW r \in Runs, LoadIssues(r)
       PROVE Untriggered' /\ WipeInv' /\ FlagKept
  BY <1>10 DEF LoadIssues
<1>11. ASSUME NEW r \in Runs, EnrichIssues(r)
       PROVE Untriggered' /\ WipeInv' /\ FlagKept
  BY <1>11 DEF EnrichIssues
<1>12. ASSUME NEW r \in Runs, Summarize(r)
       PROVE Untriggered' /\ WipeInv' /\ FlagKept
  BY <1>12 DEF Summarize
<1>13. ASSUME NEW r \in Runs, Finish(r)
       PROVE Untriggered' /\ WipeInv' /\ FlagKept
  BY <1>13 DEF Finish
<1>14. ASSUME NEW r \in Runs, Fail(r)
       PROVE Untriggered' /\ WipeInv' /\ FlagKept
  BY <1>14 DEF Fail
<1>15. ASSUME NEW r \in Runs, NodeRaises(r)
       PROVE Untriggered' /\ WipeInv' /\ FlagKept
  BY <1>15 DEF NodeRaises, Caught
<1>16. ASSUME NEW r \in Runs, FailRaises(r)
       PROVE Untriggered' /\ WipeInv' /\ FlagKept
  BY <1>16 DEF FailRaises
<1>17. ASSUME NEW r \in Runs, NEW x \in todo[r], EnrichFails(r, x)
       PROVE Untriggered' /\ WipeInv' /\ FlagKept
  BY <1>17 DEF EnrichFails
<1>18. ASSUME NEW r \in Runs, NEW t \in Tools, ReadRegistry(r, t)
       PROVE Untriggered' /\ WipeInv' /\ FlagKept
  BY <1>18 DEF ReadRegistry, Moves
<1>19. ASSUME NEW r \in Runs, NEW t \in Tools, Connect(r, t)
       PROVE Untriggered' /\ WipeInv' /\ FlagKept
  BY <1>19 DEF Connect, Moves
<1>20. ASSUME NEW r \in Runs, NEW t \in Tools, FetchRows(r, t)
       PROVE Untriggered' /\ WipeInv' /\ FlagKept
  BY <1>20 DEF FetchRows, Moves
<1>21. ASSUME NEW r \in Runs, NEW t \in Tools, NothingNew(r, t)
       PROVE Untriggered' /\ WipeInv' /\ FlagKept
  BY <1>21 DEF NothingNew, Moves
<1>22. ASSUME NEW r \in Runs, NEW t \in Tools, StoreRaw(r, t)
       PROVE Untriggered' /\ WipeInv' /\ FlagKept
  BY <1>22 DEF StoreRaw, Moves
<1>23. ASSUME NEW r \in Runs, NEW t \in Tools, EndRows(r, t)
       PROVE Untriggered' /\ WipeInv' /\ FlagKept
  BY <1>23 DEF EndRows, Moves
<1>24. ASSUME NEW r \in Runs, NEW t \in Tools, ReportError(r, t)
       PROVE Untriggered' /\ WipeInv' /\ FlagKept
  BY <1>24 DEF ReportError, Moves
<1>25. ASSUME NEW r \in Runs, NEW t \in Tools, ThreadRaises(r, t)
       PROVE Untriggered' /\ WipeInv' /\ FlagKept
  BY <1>25 DEF ThreadRaises, Moves
<1>26. ASSUME NEW r \in Runs, NEW t \in Tools, ThreadEscapes(r, t)
       PROVE Untriggered' /\ WipeInv' /\ FlagKept
  BY <1>26 DEF ThreadEscapes, Moves
<1>27. ASSUME NEW r \in Runs, NEW t \in Tools, WipeIssues(r, t)
       PROVE Untriggered' /\ WipeInv' /\ FlagKept
  BY <1>27 DEF WipeIssues, Wiping
<1>28. ASSUME NEW r \in Runs, NEW t \in Tools, WipeRaw(r, t)
       PROVE Untriggered' /\ WipeInv' /\ FlagKept
  BY <1>28 DEF WipeRaw, Wiping
<1>29. ASSUME NEW r \in Runs, NEW t \in Tools, WipeMark(r, t)
       PROVE Untriggered' /\ WipeInv' /\ FlagKept
  BY <1>29 DEF WipeMark, Wiping
<1>30. ASSUME NEW r \in Runs, NEW t \in Tools, NEW i \in Ids, CheckRow(r, t, i)
       PROVE Untriggered' /\ WipeInv' /\ FlagKept
  BY <1>30 DEF CheckRow, RowMoves, Moves
<1>31. ASSUME NEW r \in Runs, NEW t \in Tools, NEW i \in Ids, InsertIssue(r, t, i)
       PROVE Untriggered' /\ WipeInv' /\ FlagKept
  BY <1>31 DEF InsertIssue, RowMoves, Moves
<1>32. ASSUME NEW r \in Runs, NEW t \in Tools, NEW i \in Ids, NormalizeFails(r, t, i)
       PROVE Untriggered' /\ WipeInv' /\ FlagKept
  BY <1>32 DEF NormalizeFails, RowMoves, Moves
<1>33. ASSUME Restart PROVE Untriggered' /\ WipeInv' /\ FlagKept
  BY <1>33 DEF Restart
<1>34. CASE UNCHANGED vars
  BY <1>34 DEF vars, tables, runRow
<1> QED
  BY <1>1, <1>2, <1>3, <1>4, <1>5, <1>6, <1>7, <1>8, <1>9, <1>10, <1>11,
     <1>12, <1>13, <1>14, <1>15, <1>16, <1>17, <1>18, <1>19, <1>20, <1>21,
     <1>22, <1>23, <1>24, <1>25, <1>26, <1>27, <1>28, <1>29, <1>30, <1>31,
     <1>32, <1>33, <1>34
  DEF Next, Operator, MasterStep, Failure, ThreadStep, WipeTool

-----------------------------------------------------------------------------
(* A row of a thread moves alone, too.                                     *)
LEMMA RowMovesAlone ==
  ASSUME TypeOK, NEW r \in Runs, NEW t \in Tools, NEW i \in Ids, NEW state,
         RowMoves(r, t, i, state)
  PROVE  /\ job[r][t].at = "rows" /\ job'[r][t].at = "rows"
         /\ job'[r][t].last = job[r][t].last
         /\ job'[r][t].began = job[r][t].began
         /\ job'[r][t].row = [job[r][t].row EXCEPT ![i] = state]
         /\ \A s \in Runs, v \in Tools :
              ~(s = r /\ v = t) => job'[s][v] = job[s][v]
<1> DEFINE j == [job[r][t] EXCEPT !.row = [job[r][t].row EXCEPT ![i] = state]]
<1>1. Moves(r, t, "rows", j)
  BY DEF RowMoves
<1>2. /\ job[r][t].at = "rows"
      /\ \A s \in Runs, v \in Tools :
           job'[s][v] = IF s = r /\ v = t THEN j ELSE job[s][v]
  <2> HIDE DEF j
  <2> QED BY <1>1, MovesAlone
<1>3. /\ j.at = job[r][t].at /\ j.last = job[r][t].last
      /\ j.began = job[r][t].began
      /\ j.row = [job[r][t].row EXCEPT ![i] = state]
  BY ThreadType DEF Job
<1> QED BY <1>2, <1>3

(* Stamps are exact and increase, and the clock is ahead of everything.    *)
ClockInv ==
  /\ \A f \in found : f.stamp = f.id /\ f.id <= now
  /\ \A t \in Tools : mark[t] <= now
  /\ \A r \in Runs, t \in Tools : job[r][t].last <= now /\ job[r][t].began <= now

(* A finding that is reported is newer than every watermark and every time *)
(* that a thread has noted.                                                *)
LEMMA ClockStep ==
  ASSUME Lag = 0, TypeOK, ClockInv, [Next]_vars
  PROVE  ClockInv'
<1>0. now \in Nat
  BY FetchAssumption DEF TypeOK
<1>a. NoJob.last = 0 /\ NoJob.began = 0
  BY DEF NoJob
<1>b. \A at : Ends(at).last = 0 /\ Ends(at).began = 0
  BY DEF Ends, NoJob
<1> USE DEF ClockInv, tables, runRow
<1>1. ASSUME NEW t \in Tools, Report(t) PROVE ClockInv'
  <2>1. found' = found \cup {[tool |-> t, id |-> now + 1, stamp |-> now + 1]}
    BY <1>0, <1>1 DEF Report
  <2>2. now' = now + 1 /\ mark' = mark /\ job' = job
    BY <1>1 DEF Report
  <2>3. \A f \in found' : f.stamp = f.id /\ f.id <= now'
    BY <1>0, <2>1, <2>2 DEF TypeOK, Finding, Ids
  <2>4. \A v \in Tools : mark'[v] <= now'
    BY <1>0, <2>2 DEF TypeOK
  <2>5. \A s \in Runs, v \in Tools :
          job'[s][v].last <= now' /\ job'[s][v].began <= now'
    BY <1>0, <2>2, ThreadType
  <2> QED BY <2>3, <2>4, <2>5
<1>2. ASSUME NEW r \in Runs, NEW S \in Targets, TriggerCheck(r, S)
      PROVE ClockInv'
  BY <1>2 DEF TriggerCheck
<1>3. ASSUME NEW r \in Runs, TriggerInsert(r) PROVE ClockInv'
  BY <1>3 DEF TriggerInsert
<1>4. ASSUME NEW r \in Runs, Cancel(r) PROVE ClockInv'
  BY <1>4 DEF Cancel
<1>5. ASSUME NEW r \in Runs, LoadContext(r) PROVE ClockInv'
  BY <1>5 DEF LoadContext
<1>6. ASSUME NEW r \in Runs, Plan(r) PROVE ClockInv'
  BY <1>6 DEF Plan
<1>7. ASSUME NEW r \in Runs, FetchAll(r) PROVE ClockInv'
  <2>1. PICK stop : IF stop THEN UNCHANGED job
        ELSE job' = [job EXCEPT ![r] = [u \in Tools |->
               Ends(IF u \in targets[r] THEN "ready" ELSE "no")]]
    BY <1>7 DEF FetchAll
  <2>2. CASE stop
    BY <1>7, <2>1, <2>2 DEF FetchAll
  <2>3. CASE ~stop
    <3>1. \A s \in Runs, v \in Tools :
            \/ job'[s][v] = job[s][v]
            \/ job'[s][v] = Ends("ready")
            \/ job'[s][v] = Ends("no")
      <4>1. job'[r] = [u \in Tools |->
               Ends(IF u \in targets[r] THEN "ready" ELSE "no")]
        BY <2>1, <2>3 DEF TypeOK
      <4>2. \A s \in Runs \ {r} : job'[s] = job[s]
        BY <2>1, <2>3 DEF TypeOK
      <4> QED BY <4>1, <4>2
    <3> QED BY <1>7, <1>0, <1>b, <3>1 DEF FetchAll
  <2> QED BY <2>2, <2>3
<1>8. ASSUME NEW r \in Runs, Join(r) PROVE ClockInv'
  BY <1>8 DEF Join
<1>9. ASSUME NEW r \in Runs, Enrich(r) PROVE ClockInv'
  BY <1>9 DEF Enrich
<1>10. ASSUME NEW r \in Runs, LoadIssues(r) PROVE ClockInv'
  BY <1>10 DEF LoadIssues
<1>11. ASSUME NEW r \in Runs, EnrichIssues(r) PROVE ClockInv'
  BY <1>11 DEF EnrichIssues
<1>12. ASSUME NEW r \in Runs, Summarize(r) PROVE ClockInv'
  BY <1>12 DEF Summarize
<1>13. ASSUME NEW r \in Runs, Finish(r) PROVE ClockInv'
  BY <1>13 DEF Finish
<1>14. ASSUME NEW r \in Runs, Fail(r) PROVE ClockInv'
  BY <1>14 DEF Fail
<1>15. ASSUME NEW r \in Runs, NodeRaises(r) PROVE ClockInv'
  BY <1>15 DEF NodeRaises
<1>16. ASSUME NEW r \in Runs, FailRaises(r) PROVE ClockInv'
  BY <1>16 DEF FailRaises
<1>17. ASSUME NEW r \in Runs, NEW x \in todo[r], EnrichFails(r, x)
       PROVE ClockInv'
  BY <1>17 DEF EnrichFails
<1>18. ASSUME NEW r \in Runs, NEW t \in Tools, ReadRegistry(r, t)
       PROVE ClockInv'
  <2>1. /\ [job[r][t] EXCEPT !.at = "connect", !.last = mark[t]].last
             = mark[t]
        /\ [job[r][t] EXCEPT !.at = "connect", !.last = mark[t]].began
             = job[r][t].began
    BY ThreadType DEF Job
  <2> QED BY <1>0, <1>18, <2>1, MovesAlone DEF ReadRegistry, Moves
<1>19. ASSUME NEW r \in Runs, NEW t \in Tools, Connect(r, t) PROVE ClockInv'
  <2>1. /\ [job[r][t] EXCEPT !.at = "fetch", !.began = now].last
             = job[r][t].last
        /\ [job[r][t] EXCEPT !.at = "fetch", !.began = now].began
             = now
    BY ThreadType DEF Job
  <2> QED BY <1>0, <1>19, <2>1, MovesAlone DEF Connect, Moves
<1>20. ASSUME NEW r \in Runs, NEW t \in Tools, FetchRows(r, t) PROVE ClockInv'
  BY <1>0, <1>b, <1>20, MovesAlone DEF FetchRows, Moves
<1>21. ASSUME NEW r \in Runs, NEW t \in Tools, NothingNew(r, t)
       PROVE ClockInv'
  BY <1>0, <1>b, <1>21, MovesAlone DEF NothingNew, Moves, NewMark, TypeOK
<1>22. ASSUME NEW r \in Runs, NEW t \in Tools, StoreRaw(r, t) PROVE ClockInv'
  <2>1. /\ [job[r][t] EXCEPT !.at = "rows"].last
             = job[r][t].last
        /\ [job[r][t] EXCEPT !.at = "rows"].began
             = job[r][t].began
    BY ThreadType DEF Job
  <2> QED BY <1>0, <1>22, <2>1, MovesAlone DEF StoreRaw, Moves
<1>23. ASSUME NEW r \in Runs, NEW t \in Tools, EndRows(r, t) PROVE ClockInv'
  BY <1>0, <1>b, <1>23, MovesAlone DEF EndRows, Moves, NewMark, TypeOK
<1>24. ASSUME NEW r \in Runs, NEW t \in Tools, ReportError(r, t)
       PROVE ClockInv'
  BY <1>0, <1>b, <1>24, MovesAlone DEF ReportError, Moves
<1>25. ASSUME NEW r \in Runs, NEW t \in Tools, ThreadRaises(r, t)
       PROVE ClockInv'
  BY <1>0, <1>b, <1>25, MovesAlone DEF ThreadRaises, Moves
<1>26. ASSUME NEW r \in Runs, NEW t \in Tools, ThreadEscapes(r, t)
       PROVE ClockInv'
  BY <1>0, <1>b, <1>26, MovesAlone DEF ThreadEscapes, Moves
<1>27. ASSUME NEW r \in Runs, NEW t \in Tools, WipeIssues(r, t)
       PROVE ClockInv'
  BY <1>27 DEF WipeIssues, Wiping
<1>28. ASSUME NEW r \in Runs, NEW t \in Tools, WipeRaw(r, t) PROVE ClockInv'
  BY <1>28 DEF WipeRaw, Wiping
<1>29. ASSUME NEW r \in Runs, NEW t \in Tools, WipeMark(r, t) PROVE ClockInv'
  BY <1>0, <1>29 DEF WipeMark, Wiping, TypeOK
<1>30. ASSUME NEW r \in Runs, NEW t \in Tools, NEW i \in Ids, CheckRow(r, t, i)
       PROVE ClockInv'
  <2>1. PICK state : RowMoves(r, t, i, state)
    BY <1>30 DEF CheckRow
  <2> QED BY <1>30, <2>1, RowMovesAlone DEF CheckRow, RowMoves, Moves
<1>31. ASSUME NEW r \in Runs, NEW t \in Tools, NEW i \in Ids, InsertIssue(r, t, i)
       PROVE ClockInv'
  <2>1. PICK state : RowMoves(r, t, i, state)
    BY <1>31 DEF InsertIssue
  <2> QED BY <1>31, <2>1, RowMovesAlone DEF InsertIssue, RowMoves, Moves
<1>32. ASSUME NEW r \in Runs, NEW t \in Tools, NEW i \in Ids, NormalizeFails(r, t, i)
       PROVE ClockInv'
  <2>1. PICK state : RowMoves(r, t, i, state)
    BY <1>32 DEF NormalizeFails
  <2> QED BY <1>32, <2>1, RowMovesAlone DEF NormalizeFails, RowMoves, Moves
<1>33. ASSUME Restart PROVE ClockInv'
  BY <1>0, <1>a, <1>33 DEF Restart
<1>34. CASE UNCHANGED vars
  BY <1>34 DEF vars, tables, runRow
<1> QED
  BY <1>1, <1>2, <1>3, <1>4, <1>5, <1>6, <1>7, <1>8, <1>9, <1>10, <1>11,
     <1>12, <1>13, <1>14, <1>15, <1>16, <1>17, <1>18, <1>19, <1>20, <1>21,
     <1>22, <1>23, <1>24, <1>25, <1>26, <1>27, <1>28, <1>29, <1>30, <1>31,
     <1>32, <1>33, <1>34
  DEF Next, Operator, MasterStep, Failure, ThreadStep, WipeTool

-----------------------------------------------------------------------------
(* What a thread knows of a finding: those up to the watermark it has read *)
(* are stored, and from its fetch on, so are those up to the next one, or  *)
(* it has them at hand.                                                    *)
Stored(R, f) == \E r \in Runs : <<r, f.tool, f.id>> \in R
JobCovers(R, j, f) ==
  /\ j.at \in {"connect", "fetch"} /\ f.id <= j.last => Stored(R, f)
  /\ j.at \in {"empty", "rows"} /\ f.id <= j.began => Stored(R, f)
  /\ j.at = "store" /\ f.id <= j.began => Stored(R, f) \/ j.row[f.id] # "no"

(* The invariant behind MarkCovers.                                        *)
CoverInv ==
  \A f \in found : ~Touched(f.tool) =>
    /\ f.id <= mark[f.tool] => Stored(raw, f)
    /\ \A r \in Runs : JobCovers(raw, job[r][f.tool], f)

(* A step of a thread that takes nothing from raw_findings keeps CoverInv  *)
(* when its new state does, and its new watermark.                         *)
LEMMA ThreadCovers ==
  ASSUME TypeOK, CoverInv, FlagKept,
         NEW r \in Runs, NEW t \in Tools, NEW at, NEW j, Moves(r, t, at, j),
         raw \subseteq raw',
         \A f \in found : f.tool = t /\ ~Touched(t) => JobCovers(raw', j, f),
         \A v \in Tools :
           \/ mark'[v] = mark[v]
           \/ /\ v = t
              /\ \A f \in found : f.tool = t /\ ~Touched(t) /\ f.id <= mark'[t] =>
                   Stored(raw', f)
  PROVE  CoverInv'
<1> SUFFICES ASSUME NEW f \in found, ~Touched(f.tool)'
             PROVE  /\ f.id <= mark'[f.tool] => Stored(raw', f)
                    /\ \A s \in Runs : JobCovers(raw', job'[s][f.tool], f)
  BY DEF CoverInv, Moves
<1>1. ~Touched(f.tool) /\ f.tool \in Tools
  BY DEF Touched, FlagKept, TypeOK, Finding
<1>2. Stored(raw, f) => Stored(raw', f)
  BY DEF Stored
<1>3. f.id <= mark'[f.tool] => Stored(raw', f)
  BY <1>1, <1>2 DEF CoverInv
<1>4. ASSUME NEW s \in Runs PROVE JobCovers(raw', job'[s][f.tool], f)
  <2>1. CASE s = r /\ f.tool = t
    <3>1. job'[s][f.tool] = j
      BY <2>1, MovesAlone
    <3> QED BY <1>1, <2>1, <3>1 DEF JobCovers
  <2>2. CASE ~(s = r /\ f.tool = t)
    <3>1. job'[s][f.tool] = job[s][f.tool]
      BY <1>1, <2>2, MovesAlone
    <3>2. JobCovers(raw, job[s][f.tool], f)
      BY <1>1 DEF CoverInv
    <3> QED BY <1>2, <3>1, <3>2 DEF JobCovers
  <2> QED BY <2>1, <2>2
<1> QED BY <1>3, <1>4

(* So does a step of anybody else that leaves these tables alone.          *)
LEMMA OthersCover ==
  ASSUME TypeOK, CoverInv, FlagKept, UNCHANGED <<found, mark, raw, job>>
  PROVE  CoverInv'
<1>1. \A t \in Tools : Touched(t) => Touched(t)'
  BY DEF Touched, FlagKept, TypeOK
<1>2. \A f \in found : f.tool \in Tools
  BY DEF TypeOK, Finding
<1>3. \A f : Stored(raw', f) <=> Stored(raw, f)
  BY DEF Stored
<1>4. \A j, f : JobCovers(raw', j, f) <=> JobCovers(raw, j, f)
  BY <1>3 DEF JobCovers
<1> QED BY <1>1, <1>2, <1>3, <1>4 DEF CoverInv

(* A row has no part in it once raw_findings has it.                       *)
LEMMA RowCovers ==
  ASSUME TypeOK, CoverInv, FlagKept, NEW r \in Runs, NEW t \in Tools,
         NEW i \in Ids, NEW state, RowMoves(r, t, i, state), UNCHANGED <<raw, mark>>
  PROVE  CoverInv'
<1> DEFINE j == [job[r][t] EXCEPT !.row = [job[r][t].row EXCEPT ![i] = state]]
<1>1. Moves(r, t, "rows", j) /\ job[r][t].at = "rows"
  BY DEF RowMoves, Moves
<1>2. j.at = "rows" /\ j.began = job[r][t].began
  BY <1>1, ThreadType DEF Job
<1>3. \A f \in found : f.tool = t /\ ~Touched(t) => JobCovers(raw', j, f)
  <2> HIDE DEF j
  <2> QED BY <1>1, <1>2 DEF CoverInv, JobCovers, Stored
<1>4. raw \subseteq raw' /\ \A v \in Tools : mark'[v] = mark[v]
  OBVIOUS
<1> HIDE DEF j
<1> QED BY <1>1, <1>3, <1>4, ThreadCovers

(* No step lets a watermark pass a finding that is not stored.             *)
LEMMA CoverStep ==
  ASSUME Lag = 0, TypeOK, Untriggered, WipeInv, ClockInv, CoverInv, [Next]_vars
  PROVE  CoverInv'
<1>0. FlagKept
  BY RowStep
<1>a. now \in Nat /\ \A f \in found : f.tool \in Tools /\ f.id \in Ids
  BY FetchAssumption DEF TypeOK, Finding
<1>b. \A f \in found : f.id \in 1 .. MaxFound
  BY <1>a DEF Ids
<1>c. \A f, at : at \notin {"connect", "fetch", "empty", "rows", "store"} =>
                   JobCovers(raw', Ends(at), f)
  BY DEF JobCovers, Ends, NoJob
<1> USE DEF tables, runRow
<1>1. ASSUME NEW t \in Tools, Report(t) PROVE CoverInv'
  <2>1. found' = found \cup {[tool |-> t, id |-> now + 1, stamp |-> now + 1]}
    BY <1>a, <1>1 DEF Report
  <2>2. UNCHANGED <<tables, runRow, job>>
    BY <1>1 DEF Report
  <2> SUFFICES ASSUME NEW f \in found', ~Touched(f.tool)
               PROVE  /\ f.id <= mark[f.tool] => Stored(raw, f)
                      /\ \A r \in Runs : JobCovers(raw, job[r][f.tool], f)
    BY <2>2 DEF CoverInv, Touched, Stored, JobCovers
  <2>3. CASE f \in found
    BY <2>3 DEF CoverInv
  <2>4. CASE f = [tool |-> t, id |-> now + 1, stamp |-> now + 1]
    <3>1. f.id = now + 1 /\ f.tool = t
      BY <2>4
    <3>2. ~(f.id <= mark[t])
      BY <1>a, <3>1 DEF ClockInv, TypeOK
    <3>3. \A r \in Runs : ~(f.id <= job[r][t].last) /\ ~(f.id <= job[r][t].began)
      BY <1>a, <3>1, ThreadType DEF ClockInv
    <3> QED BY <3>1, <3>2, <3>3 DEF JobCovers
  <2> QED BY <2>1, <2>3, <2>4
<1>2. ASSUME NEW r \in Runs, NEW S \in Targets, TriggerCheck(r, S)
      PROVE CoverInv'
  BY <1>0, <1>2, OthersCover DEF TriggerCheck
<1>3. ASSUME NEW r \in Runs, TriggerInsert(r) PROVE CoverInv'
  BY <1>0, <1>3, OthersCover DEF TriggerInsert
<1>4. ASSUME NEW r \in Runs, Cancel(r) PROVE CoverInv'
  BY <1>0, <1>4, OthersCover DEF Cancel
<1>5. ASSUME NEW r \in Runs, LoadContext(r) PROVE CoverInv'
  BY <1>0, <1>5, OthersCover DEF LoadContext
<1>6. ASSUME NEW r \in Runs, Plan(r) PROVE CoverInv'
  BY <1>0, <1>6, OthersCover DEF Plan
<1>7. ASSUME NEW r \in Runs, FetchAll(r) PROVE CoverInv'
  <2>1. PICK stop : IF stop THEN UNCHANGED job
        ELSE job' = [job EXCEPT ![r] = [u \in Tools |->
               Ends(IF u \in targets[r] THEN "ready" ELSE "no")]]
    BY <1>7 DEF FetchAll
  <2>2. CASE stop
    BY <1>0, <1>7, <2>1, <2>2, OthersCover DEF FetchAll
  <2>3. CASE ~stop
    <3>1. job'[r] = [u \in Tools |->
             Ends(IF u \in targets[r] THEN "ready" ELSE "no")]
      BY <2>1, <2>3 DEF TypeOK
    <3>2. \A s \in Runs \ {r} : job'[s] = job[s]
      BY <2>1, <2>3 DEF TypeOK
    <3>3. \A f \in found : JobCovers(raw', job'[r][f.tool], f)
      BY <1>a, <1>c, <3>1
    <3>4. UNCHANGED <<found, mark, raw, flag, targets>>
      BY <1>7 DEF FetchAll
    <3>5. /\ \A f : Stored(raw', f) <=> Stored(raw, f)
          /\ \A f : Touched(f.tool)' <=> Touched(f.tool)
          /\ \A j, f : JobCovers(raw', j, f) <=> JobCovers(raw, j, f)
      BY <3>4 DEF Stored, Touched, JobCovers
    <3>6. ASSUME NEW f \in found, ~Touched(f.tool), NEW s \in Runs
          PROVE  JobCovers(raw, job'[s][f.tool], f)
      BY <3>2, <3>3, <3>5, <3>6 DEF CoverInv
    <3> QED BY <3>4, <3>5, <3>6 DEF CoverInv
  <2> QED BY <2>2, <2>3
<1>8. ASSUME NEW r \in Runs, Join(r) PROVE CoverInv'
  BY <1>0, <1>8, OthersCover DEF Join
<1>9. ASSUME NEW r \in Runs, Enrich(r) PROVE CoverInv'
  BY <1>0, <1>9, OthersCover DEF Enrich
<1>10. ASSUME NEW r \in Runs, LoadIssues(r) PROVE CoverInv'
  BY <1>0, <1>10, OthersCover DEF LoadIssues
<1>11. ASSUME NEW r \in Runs, EnrichIssues(r) PROVE CoverInv'
  BY <1>0, <1>11, OthersCover DEF EnrichIssues
<1>12. ASSUME NEW r \in Runs, Summarize(r) PROVE CoverInv'
  BY <1>0, <1>12, OthersCover DEF Summarize
<1>13. ASSUME NEW r \in Runs, Finish(r) PROVE CoverInv'
  BY <1>0, <1>13, OthersCover DEF Finish
<1>14. ASSUME NEW r \in Runs, Fail(r) PROVE CoverInv'
  BY <1>0, <1>14, OthersCover DEF Fail
<1>15. ASSUME NEW r \in Runs, NodeRaises(r) PROVE CoverInv'
  BY <1>0, <1>15, OthersCover DEF NodeRaises
<1>16. ASSUME NEW r \in Runs, FailRaises(r) PROVE CoverInv'
  BY <1>0, <1>16, OthersCover DEF FailRaises
<1>17. ASSUME NEW r \in Runs, NEW x \in todo[r], EnrichFails(r, x)
       PROVE CoverInv'
  BY <1>0, <1>17, OthersCover DEF EnrichFails
<1>18. ASSUME NEW r \in Runs, NEW t \in Tools, ReadRegistry(r, t)
       PROVE CoverInv'
  <2> DEFINE j == [job[r][t] EXCEPT !.at = "connect", !.last = mark[t]]
  <2>1. Moves(r, t, "ready", j)
    BY <1>18 DEF ReadRegistry
  <2>2. raw \subseteq raw'
    BY <1>18 DEF ReadRegistry
  <2>3. \A f \in found : f.tool = t /\ ~Touched(t) => JobCovers(raw', j, f)
    <3>1. /\ j.at = "connect"
          /\ j.last = mark[t]
      BY ThreadType DEF Job
    <3>2. raw' = raw
      BY <1>18 DEF ReadRegistry
    <3> QED BY <3>1, <3>2 DEF CoverInv, JobCovers, Stored
  <2>4. \A v \in Tools :
          \/ mark'[v] = mark[v]
          \/ /\ v = t
             /\ \A f \in found : f.tool = t /\ ~Touched(t) /\ f.id <= mark'[t] =>
                  Stored(raw', f)
    <3>1. mark' = mark
      BY <1>18 DEF ReadRegistry
    <3> QED BY <3>1
  <2> HIDE DEF j
  <2> QED BY <1>0, <2>1, <2>2, <2>3, <2>4, ThreadCovers
<1>19. ASSUME NEW r \in Runs, NEW t \in Tools, Connect(r, t) PROVE CoverInv'
  <2> DEFINE j == [job[r][t] EXCEPT !.at = "fetch", !.began = now]
  <2>1. Moves(r, t, "connect", j)
    BY <1>19 DEF Connect
  <2>2. raw \subseteq raw'
    BY <1>19 DEF Connect
  <2>3. \A f \in found : f.tool = t /\ ~Touched(t) => JobCovers(raw', j, f)
    <3>1. /\ j.at = "fetch"
          /\ j.last = job[r][t].last
      BY ThreadType DEF Job
    <3>2. raw' = raw /\ job[r][t].at = "connect"
      BY <1>19 DEF Connect, Moves
    <3> QED BY <3>1, <3>2 DEF CoverInv, JobCovers, Stored
  <2>4. \A v \in Tools :
          \/ mark'[v] = mark[v]
          \/ /\ v = t
             /\ \A f \in found : f.tool = t /\ ~Touched(t) /\ f.id <= mark'[t] =>
                  Stored(raw', f)
    <3>1. mark' = mark
      BY <1>19 DEF Connect
    <3> QED BY <3>1
  <2> HIDE DEF j
  <2> QED BY <1>0, <2>1, <2>2, <2>3, <2>4, ThreadCovers
<1>20. ASSUME NEW r \in Runs, NEW t \in Tools, FetchRows(r, t) PROVE CoverInv'
  <2> DEFINE j == [at    |-> IF Newer(r, t) = {} THEN "empty" ELSE "store",
                 last  |-> 0,
                 began |-> job[r][t].began,
                 row   |-> [i \in Ids |->
                              IF i \in Newer(r, t) THEN "pending" ELSE "no"]]
  <2>1. Moves(r, t, "fetch", j)
    BY <1>20 DEF FetchRows
  <2>2. raw \subseteq raw'
    BY <1>20 DEF FetchRows
  <2>3. \A f \in found : f.tool = t /\ ~Touched(t) => JobCovers(raw', j, f)
    <3>1. raw' = raw /\ job[r][t].at = "fetch"
      BY <1>20 DEF FetchRows, Moves
    <3>2. \A f \in found : f.tool = t /\ ~Touched(t) => Stored(raw, f) \/ f.id \in Newer(r, t)
      <4>1. \A f \in found : f.tool = t => f.stamp = f.id /\
              (f.id > job[r][t].last => f.id \in Newer(r, t))
        BY DEF Newer, ClockInv
      <4>2. \A f \in found : f.tool = t /\ ~Touched(t) /\ f.id <= job[r][t].last => Stored(raw, f)
        BY <3>1 DEF CoverInv, JobCovers
      <4>3. \A f \in found : f.id \in Int /\ job[r][t].last \in Int
        BY <1>b, ThreadType
      <4> QED BY <4>1, <4>2, <4>3
    <3>3. \A f : Stored(raw', f) <=> Stored(raw, f)
      BY <3>1 DEF Stored
    <3> QED BY <1>a, <3>2, <3>3 DEF JobCovers
  <2>4. \A v \in Tools :
          \/ mark'[v] = mark[v]
          \/ /\ v = t
             /\ \A f \in found : f.tool = t /\ ~Touched(t) /\ f.id <= mark'[t] =>
                  Stored(raw', f)
    <3>1. mark' = mark
      BY <1>20 DEF FetchRows
    <3> QED BY <3>1
  <2> HIDE DEF j
  <2> QED BY <1>0, <2>1, <2>2, <2>3, <2>4, ThreadCovers
<1>21. ASSUME NEW r \in Runs, NEW t \in Tools, NothingNew(r, t)
       PROVE CoverInv'
  <2> DEFINE j == Ends("ended")
  <2>1. Moves(r, t, "empty", j)
    BY <1>21 DEF NothingNew
  <2>2. raw \subseteq raw'
    BY <1>21 DEF NothingNew
  <2>3. \A f \in found : f.tool = t /\ ~Touched(t) => JobCovers(raw', j, f)
    BY <1>c
  <2>4. \A v \in Tools :
          \/ mark'[v] = mark[v]
          \/ /\ v = t
             /\ \A f \in found : f.tool = t /\ ~Touched(t) /\ f.id <= mark'[t] =>
                  Stored(raw', f)
    <3>1. job[r][t].at = "empty" /\ raw' = raw
      BY <1>21 DEF NothingNew, Moves
    <3>2. \A v \in Tools : mark'[v] = IF v = t THEN job[r][t].began ELSE mark[v]
      BY <1>21 DEF NothingNew, NewMark, TypeOK
    <3> QED BY <3>1, <3>2 DEF CoverInv, JobCovers, Stored
  <2> HIDE DEF j
  <2> QED BY <1>0, <2>1, <2>2, <2>3, <2>4, ThreadCovers
<1>22. ASSUME NEW r \in Runs, NEW t \in Tools, StoreRaw(r, t) PROVE CoverInv'
  <2> DEFINE j == [job[r][t] EXCEPT !.at = "rows"]
  <2>1. Moves(r, t, "store", j)
    BY <1>22 DEF StoreRaw
  <2>2. raw \subseteq raw'
    BY <1>22 DEF StoreRaw
  <2>3. \A f \in found : f.tool = t /\ ~Touched(t) => JobCovers(raw', j, f)
    <3>1. /\ j.at = "rows"
          /\ j.began = job[r][t].began
      BY ThreadType DEF Job
    <3>2. job[r][t].at = "store"
      BY <1>22 DEF StoreRaw, Moves
    <3>3. \A f \in found : f.tool = t /\ job[r][t].row[f.id] # "no" => Stored(raw', f)
      BY <1>a, <1>22 DEF StoreRaw, Stored
    <3>4. \A f \in found : f.tool = t /\ Stored(raw, f) => Stored(raw', f)
      BY <2>2 DEF Stored
    <3> QED BY <3>1, <3>2, <3>3, <3>4 DEF CoverInv, JobCovers
  <2>4. \A v \in Tools :
          \/ mark'[v] = mark[v]
          \/ /\ v = t
             /\ \A f \in found : f.tool = t /\ ~Touched(t) /\ f.id <= mark'[t] =>
                  Stored(raw', f)
    <3>1. mark' = mark
      BY <1>22 DEF StoreRaw
    <3> QED BY <3>1
  <2> HIDE DEF j
  <2> QED BY <1>0, <2>1, <2>2, <2>3, <2>4, ThreadCovers
<1>23. ASSUME NEW r \in Runs, NEW t \in Tools, EndRows(r, t) PROVE CoverInv'
  <2> DEFINE j == Ends(IF Some(r, t, "skipped") THEN "raised" ELSE "ended")
  <2>1. Moves(r, t, "rows", j)
    BY <1>23 DEF EndRows
  <2>2. raw' = raw /\ job[r][t].at = "rows"
    BY <1>23 DEF EndRows, Moves
  <2>3. \A f \in found : f.tool = t /\ ~Touched(t) => JobCovers(raw', j, f)
    BY <1>c
  <2>4. \A v \in Tools :
          \/ mark'[v] = mark[v]
          \/ /\ v = t
             /\ \A f \in found : f.tool = t /\ ~Touched(t) /\ f.id <= mark'[t] =>
                  Stored(raw', f)
    <3>0. mark' = mark \/ mark' = [mark EXCEPT ![t] = job[r][t].began]
      BY <1>23 DEF EndRows, NewMark
    <3>1. \A v \in Tools : mark'[v] = mark[v] \/ (v = t /\ mark'[t] = job[r][t].began)
      BY <3>0 DEF TypeOK
    <3> QED BY <2>2, <3>1 DEF CoverInv, JobCovers, Stored
  <2> HIDE DEF j
  <2> QED BY <1>0, <2>1, <2>2, <2>3, <2>4, ThreadCovers
<1>24. ASSUME NEW r \in Runs, NEW t \in Tools, ReportError(r, t)
       PROVE CoverInv'
  <2> DEFINE j == Ends("ended")
  <2>1. Moves(r, t, "raised", j)
    BY <1>24 DEF ReportError
  <2>2. raw \subseteq raw'
    BY <1>24 DEF ReportError
  <2>3. \A f \in found : f.tool = t /\ ~Touched(t) => JobCovers(raw', j, f)
    BY <1>c
  <2>4. \A v \in Tools :
          \/ mark'[v] = mark[v]
          \/ /\ v = t
             /\ \A f \in found : f.tool = t /\ ~Touched(t) /\ f.id <= mark'[t] =>
                  Stored(raw', f)
    <3>1. mark' = mark
      BY <1>24 DEF ReportError
    <3> QED BY <3>1
  <2> HIDE DEF j
  <2> QED BY <1>0, <2>1, <2>2, <2>3, <2>4, ThreadCovers
<1>25. ASSUME NEW r \in Runs, NEW t \in Tools, ThreadRaises(r, t)
       PROVE CoverInv'
  <2>1. PICK at : Moves(r, t, at, Ends("raised"))
    BY <1>25 DEF ThreadRaises
  <2>2. raw \subseteq raw' /\ \A v \in Tools : mark'[v] = mark[v]
    <3>1. raw' = raw /\ mark' = mark
      BY <1>25 DEF ThreadRaises
    <3> QED BY <3>1
  <2>3. \A f \in found : f.tool = t /\ ~Touched(t) => JobCovers(raw', Ends("raised"), f)
    BY <1>c
  <2> QED BY <1>0, <2>1, <2>2, <2>3, ThreadCovers
<1>26. ASSUME NEW r \in Runs, NEW t \in Tools, ThreadEscapes(r, t)
       PROVE CoverInv'
  <2>1. PICK at : Moves(r, t, at, Ends("escaped"))
    BY <1>26 DEF ThreadEscapes
  <2>2. raw \subseteq raw' /\ \A v \in Tools : mark'[v] = mark[v]
    <3>1. raw' = raw /\ mark' = mark
      BY <1>26 DEF ThreadEscapes
    <3> QED BY <3>1
  <2>3. \A f \in found : f.tool = t /\ ~Touched(t) => JobCovers(raw', Ends("escaped"), f)
    BY <1>c
  <2> QED BY <1>0, <2>1, <2>2, <2>3, ThreadCovers
<1>27. ASSUME NEW r \in Runs, NEW t \in Tools, WipeIssues(r, t)
       PROVE CoverInv'
  BY <1>0, <1>27, OthersCover DEF WipeIssues, Wiping
<1>28. ASSUME NEW r \in Runs, NEW t \in Tools, WipeRaw(r, t) PROVE CoverInv'
  <2>1. Touched(t) /\ Touched(t)'
    BY <1>28, <1>0 DEF WipeRaw, Wiping, WipeInv, Touched
  <2>2. UNCHANGED <<found, mark, job, flag, targets>>
    BY <1>28 DEF WipeRaw, Wiping
  <2>3. \A f \in found : f.tool # t => (Stored(raw', f) <=> Stored(raw, f))
    BY <1>28 DEF WipeRaw, NotOf, Stored
  <2>4. \A f \in found : Touched(f.tool)' <=> Touched(f.tool)
    BY <2>2 DEF Touched
  <2>5. \A f \in found, s \in Runs : f.tool # t /\ JobCovers(raw, job[s][f.tool], f)
          => JobCovers(raw', job[s][f.tool], f)
    BY <2>2, <2>3 DEF JobCovers
  <2> SUFFICES ASSUME NEW f \in found, ~Touched(f.tool)
               PROVE  /\ f.id <= mark[f.tool] => Stored(raw', f)
                      /\ \A s \in Runs : JobCovers(raw', job[s][f.tool], f)
    BY <2>2, <2>4 DEF CoverInv
  <2>6. f.tool # t
    BY <2>1
  <2> QED BY <2>3, <2>5, <2>6 DEF CoverInv
<1>29. ASSUME NEW r \in Runs, NEW t \in Tools, WipeMark(r, t) PROVE CoverInv'
  <2>1. UNCHANGED <<found, raw, job, flag, targets>>
    BY <1>29 DEF WipeMark, Wiping
  <2>2. \A v \in Tools : mark'[v] = mark[v] \/ mark'[v] = 0
    BY <1>29 DEF WipeMark, TypeOK
  <2>3. \A f \in found : f.id <= mark'[f.tool] => f.id <= mark[f.tool]
    BY <1>a, <1>b, <2>2
  <2>4. \A f : Stored(raw', f) <=> Stored(raw, f)
    BY <2>1 DEF Stored
  <2> QED BY <2>1, <2>3, <2>4 DEF CoverInv, JobCovers, Touched
<1>30. ASSUME NEW r \in Runs, NEW t \in Tools, NEW i \in Ids, CheckRow(r, t, i)
       PROVE CoverInv'
  <2>1. PICK state : RowMoves(r, t, i, state)
    BY <1>30 DEF CheckRow
  <2>2. UNCHANGED <<raw, mark>>
    BY <1>30 DEF CheckRow
  <2> QED BY <1>0, <2>1, <2>2, RowCovers
<1>31. ASSUME NEW r \in Runs, NEW t \in Tools, NEW i \in Ids, InsertIssue(r, t, i)
       PROVE CoverInv'
  <2>1. PICK state : RowMoves(r, t, i, state)
    BY <1>31 DEF InsertIssue
  <2>2. UNCHANGED <<raw, mark>>
    BY <1>31 DEF InsertIssue
  <2> QED BY <1>0, <2>1, <2>2, RowCovers
<1>32. ASSUME NEW r \in Runs, NEW t \in Tools, NEW i \in Ids, NormalizeFails(r, t, i)
       PROVE CoverInv'
  <2>1. PICK state : RowMoves(r, t, i, state)
    BY <1>32 DEF NormalizeFails
  <2>2. UNCHANGED <<raw, mark>>
    BY <1>32 DEF NormalizeFails
  <2> QED BY <1>0, <2>1, <2>2, RowCovers
<1>33. ASSUME Restart PROVE CoverInv'
  <2>1. job' = [r \in Runs |-> [t \in Tools |-> NoJob]]
    BY <1>33 DEF Restart
  <2>2. UNCHANGED <<found, mark, raw>>
    BY <1>33 DEF Restart
  <2>3. \A f : JobCovers(raw', NoJob, f)
    BY DEF JobCovers, NoJob
  <2>4. \A t \in Tools : Touched(t) => Touched(t)'
    BY <1>0 DEF Touched, FlagKept, TypeOK
  <2>5. \A f : Stored(raw', f) <=> Stored(raw, f)
    BY <2>2 DEF Stored
  <2>6. \A f \in found, r \in Runs : JobCovers(raw', job'[r][f.tool], f)
    BY <1>a, <2>1, <2>3
  <2> QED BY <1>a, <2>2, <2>4, <2>5, <2>6 DEF CoverInv
<1>34. CASE UNCHANGED vars
  BY <1>0, <1>34, OthersCover DEF vars
<1> QED
  BY <1>1, <1>2, <1>3, <1>4, <1>5, <1>6, <1>7, <1>8, <1>9, <1>10, <1>11,
     <1>12, <1>13, <1>14, <1>15, <1>16, <1>17, <1>18, <1>19, <1>20, <1>21,
     <1>22, <1>23, <1>24, <1>25, <1>26, <1>27, <1>28, <1>29, <1>30, <1>31,
     <1>32, <1>33, <1>34
  DEF Next, Operator, MasterStep, Failure, ThreadStep, WipeTool

(* As long as stamps are exact, the watermark passes no finding that is    *)
(* not in raw_findings, for scanners that no cancelled run has touched:    *)
(* whatever overlaps, fails or restarts.                                   *)
THEOREM WatermarkIsSafe ==
  ASSUME Lag = 0
  PROVE  Spec => []MarkCovers
<1> DEFINE Inv == Untriggered /\ WipeInv /\ ClockInv /\ CoverInv
<1>1. Init => Inv
  BY FetchAssumption DEF Init, Untriggered, WipeInv, ClockInv, CoverInv, NoJob
<1>2. TypeOK /\ Inv /\ [Next]_vars => Inv'
  BY RowStep, ClockStep, CoverStep
<1>3. Inv => MarkCovers
  BY DEF ClockInv, CoverInv, MarkCovers, Covered, Touched, Stored
<1> HIDE DEF Inv
<1> QED BY <1>1, <1>2, <1>3, TypeCorrect, PTL DEF Spec

-----------------------------------------------------------------------------
(* One request is between the check and the insertion, and the check holds *)
(* until then: no run of its scanners is open.  The Master reopens no row  *)
(* but one that was cancelled.                                             *)
AskedInv ==
  /\ \A r, s \in Runs : pc[r] = "asked" /\ pc[s] = "asked" => r = s
  /\ \A r, s \in Runs : pc[r] = "asked" /\ Open(s) => targets[s] # targets[r]
  /\ \A r \in Runs : pc[r] = "load_context" => status[r] = "queued" \/ flag[r]

FlightInv == AskedInv /\ SingleFlight

(* A step that opens no row, asks for none and starts no Master keeps it.  *)
LEMMA FlightKept ==
  ASSUME TypeOK, FlightInv,
         \A r \in Runs :
           /\ pc'[r] = "asked" => pc[r] = "asked" /\ targets'[r] = targets[r]
           /\ Open(r)' => Open(r) /\ targets'[r] = targets[r]
           /\ pc'[r] = "load_context" =>
                \/ flag'[r]
                \/ /\ pc[r] = "load_context"
                   /\ status[r] = "queued" => status'[r] = "queued"
                   /\ flag[r] => flag'[r]
  PROVE  FlightInv'
<1>1. \A r, s \in Runs : pc'[r] = "asked" /\ pc'[s] = "asked" => r = s
  BY DEF FlightInv, AskedInv
<1>2. \A r, s \in Runs : pc'[r] = "asked" /\ Open(s)' => targets'[s] # targets'[r]
  BY DEF FlightInv, AskedInv
<1>3. \A r \in Runs : pc'[r] = "load_context" => status'[r] = "queued" \/ flag'[r]
  BY DEF FlightInv, AskedInv
<1>4. \A r, s \in Runs : Open(r)' /\ Open(s)' /\ targets'[r] = targets'[s] => r = s
  BY DEF FlightInv, SingleFlight
<1> QED BY <1>1, <1>2, <1>3, <1>4 DEF FlightInv, AskedInv, SingleFlight

(* A row is inserted only while no other of its scanners is open.          *)
LEMMA FlightStep ==
  ASSUME Overlap = FALSE, TypeOK, Untriggered, FlightInv, [Next]_vars
  PROVE  FlightInv'
<1> USE DEF tables, runRow, Goto, InFlight
<1>1. ASSUME NEW t \in Tools, Report(t) PROVE FlightInv'
  BY <1>1, FlightKept DEF Report, TypeOK, Open
<1>2. ASSUME NEW r \in Runs, NEW S \in Targets, TriggerCheck(r, S)
      PROVE FlightInv'
  <2>1. /\ pc[r] = "none" /\ \A s \in Runs : pc[s] # "asked"
        /\ \A s \in Runs : pc'[s] = IF s = r THEN "asked" ELSE pc[s]
        /\ \A s \in Runs : targets'[s] = IF s = r THEN S ELSE targets[s]
        /\ \A s \in Runs : old'[s] <=> (old[s] \/ s \in Recent(S))
        /\ status' = status /\ flag' = flag
    BY <1>2 DEF TriggerCheck, TypeOK
  <2>2. ~Open(r)'
    BY <2>1 DEF Untriggered, Open
  <2>3. \A s \in Runs : Open(s)' => Open(s) /\ targets'[s] = targets[s] /\ targets[s] # S
    BY <2>1, <2>2 DEF Open, Recent
  <2>4. \A s, u \in Runs : pc'[s] = "asked" /\ pc'[u] = "asked" => s = u
    BY <2>1
  <2>5. \A s, u \in Runs : pc'[s] = "asked" /\ Open(u)' => targets'[u] # targets'[s]
    BY <2>1, <2>3
  <2>6. \A s \in Runs : pc'[s] = "load_context" => status'[s] = "queued" \/ flag'[s]
    BY <2>1 DEF FlightInv, AskedInv
  <2>7. \A s, u \in Runs : Open(s)' /\ Open(u)' /\ targets'[s] = targets'[u] => s = u
    BY <2>3 DEF FlightInv, SingleFlight
  <2> QED BY <2>4, <2>5, <2>6, <2>7 DEF FlightInv, AskedInv, SingleFlight
<1>3. ASSUME NEW r \in Runs, TriggerInsert(r) PROVE FlightInv'
  <2>1. /\ pc[r] = "asked"
        /\ \A s \in Runs : pc'[s] = IF s = r THEN "load_context" ELSE pc[s]
        /\ \A s \in Runs : status'[s] = IF s = r THEN "queued" ELSE status[s]
        /\ UNCHANGED <<flag, old, targets>>
    BY <1>3 DEF TriggerInsert, TypeOK
  <2>2. \A s \in Runs : s # r => pc'[s] # "asked"
    BY <2>1 DEF FlightInv, AskedInv
  <2>3. \A s \in Runs : s # r => (Open(s)' <=> Open(s))
    BY <2>1 DEF Open
  <2>4. \A s \in Runs : Open(s) => targets[s] # targets[r]
    BY <2>1 DEF FlightInv, AskedInv
  <2>5. \A s, u \in Runs : pc'[s] # "asked"
    BY <2>1, <2>2
  <2>6. \A s \in Runs : pc'[s] = "load_context" => status'[s] = "queued" \/ flag'[s]
    BY <2>1 DEF FlightInv, AskedInv
  <2>7. \A s, u \in Runs : Open(s)' /\ Open(u)' /\ targets'[s] = targets'[u] => s = u
    BY <2>1, <2>3, <2>4 DEF FlightInv, SingleFlight
  <2> QED BY <2>5, <2>6, <2>7 DEF FlightInv, AskedInv, SingleFlight
<1>4. ASSUME NEW r \in Runs, Cancel(r) PROVE FlightInv'
  BY <1>4, FlightKept DEF Cancel, TypeOK, Open
<1>5. ASSUME NEW r \in Runs, LoadContext(r) PROVE FlightInv'
  <2>1. \A s \in Runs : Open(s)' => Open(s)
    BY <1>5 DEF LoadContext, TypeOK, Open, FlightInv, AskedInv
  <2> QED BY <1>5, <2>1, FlightKept DEF LoadContext, TypeOK
<1>6. ASSUME NEW r \in Runs, Plan(r) PROVE FlightInv'
  BY <1>6, FlightKept DEF Plan, TypeOK, Open
<1>7. ASSUME NEW r \in Runs, FetchAll(r) PROVE FlightInv'
  BY <1>7, FlightKept DEF FetchAll, TypeOK, Open
<1>8. ASSUME NEW r \in Runs, Join(r) PROVE FlightInv'
  BY <1>8, FlightKept DEF Join, NextNode, TypeOK, Open
<1>9. ASSUME NEW r \in Runs, Enrich(r) PROVE FlightInv'
  BY <1>9, FlightKept DEF Enrich, TypeOK, Open
<1>10. ASSUME NEW r \in Runs, LoadIssues(r) PROVE FlightInv'
  BY <1>10, FlightKept DEF LoadIssues, TypeOK, Open
<1>11. ASSUME NEW r \in Runs, EnrichIssues(r) PROVE FlightInv'
  BY <1>11, FlightKept DEF EnrichIssues, TypeOK, Open
<1>12. ASSUME NEW r \in Runs, Summarize(r) PROVE FlightInv'
  BY <1>12, FlightKept DEF Summarize, TypeOK, Open
<1>13. ASSUME NEW r \in Runs, Finish(r) PROVE FlightInv'
  BY <1>13, FlightKept DEF Finish, TypeOK, Open
<1>14. ASSUME NEW r \in Runs, Fail(r) PROVE FlightInv'
  BY <1>14, FlightKept DEF Fail, TypeOK, Open
<1>15. ASSUME NEW r \in Runs, NodeRaises(r) PROVE FlightInv'
  BY <1>15, FlightKept DEF NodeRaises, Caught, TypeOK, Open
<1>16. ASSUME NEW r \in Runs, FailRaises(r) PROVE FlightInv'
  BY <1>16, FlightKept DEF FailRaises, TypeOK, Open
<1>17. ASSUME NEW r \in Runs, NEW x \in todo[r], EnrichFails(r, x)
       PROVE FlightInv'
  BY <1>17, FlightKept DEF EnrichFails, TypeOK, Open
<1>18. ASSUME NEW r \in Runs, NEW t \in Tools, ReadRegistry(r, t)
       PROVE FlightInv'
  BY <1>18, FlightKept DEF ReadRegistry, Moves, TypeOK, Open
<1>19. ASSUME NEW r \in Runs, NEW t \in Tools, Connect(r, t) PROVE FlightInv'
  BY <1>19, FlightKept DEF Connect, Moves, TypeOK, Open
<1>20. ASSUME NEW r \in Runs, NEW t \in Tools, FetchRows(r, t)
       PROVE FlightInv'
  BY <1>20, FlightKept DEF FetchRows, Moves, TypeOK, Open
<1>21. ASSUME NEW r \in Runs, NEW t \in Tools, NothingNew(r, t)
       PROVE FlightInv'
  BY <1>21, FlightKept DEF NothingNew, Moves, TypeOK, Open
<1>22. ASSUME NEW r \in Runs, NEW t \in Tools, StoreRaw(r, t) PROVE FlightInv'
  BY <1>22, FlightKept DEF StoreRaw, Moves, TypeOK, Open
<1>23. ASSUME NEW r \in Runs, NEW t \in Tools, EndRows(r, t) PROVE FlightInv'
  BY <1>23, FlightKept DEF EndRows, Moves, TypeOK, Open
<1>24. ASSUME NEW r \in Runs, NEW t \in Tools, ReportError(r, t)
       PROVE FlightInv'
  BY <1>24, FlightKept DEF ReportError, Moves, TypeOK, Open
<1>25. ASSUME NEW r \in Runs, NEW t \in Tools, ThreadRaises(r, t)
       PROVE FlightInv'
  BY <1>25, FlightKept DEF ThreadRaises, Moves, TypeOK, Open
<1>26. ASSUME NEW r \in Runs, NEW t \in Tools, ThreadEscapes(r, t)
       PROVE FlightInv'
  BY <1>26, FlightKept DEF ThreadEscapes, Moves, TypeOK, Open
<1>27. ASSUME NEW r \in Runs, NEW t \in Tools, WipeIssues(r, t)
       PROVE FlightInv'
  BY <1>27, FlightKept DEF WipeIssues, Wiping, TypeOK, Open
<1>28. ASSUME NEW r \in Runs, NEW t \in Tools, WipeRaw(r, t) PROVE FlightInv'
  BY <1>28, FlightKept DEF WipeRaw, Wiping, TypeOK, Open
<1>29. ASSUME NEW r \in Runs, NEW t \in Tools, WipeMark(r, t) PROVE FlightInv'
  BY <1>29, FlightKept DEF WipeMark, Wiping, TypeOK, Open
<1>30. ASSUME NEW r \in Runs, NEW t \in Tools, NEW i \in Ids, CheckRow(r, t, i)
       PROVE FlightInv'
  BY <1>30, FlightKept DEF CheckRow, RowMoves, Moves, TypeOK, Open
<1>31. ASSUME NEW r \in Runs, NEW t \in Tools, NEW i \in Ids, InsertIssue(r, t, i)
       PROVE FlightInv'
  BY <1>31, FlightKept DEF InsertIssue, RowMoves, Moves, TypeOK, Open
<1>32. ASSUME NEW r \in Runs, NEW t \in Tools, NEW i \in Ids, NormalizeFails(r, t, i)
       PROVE FlightInv'
  BY <1>32, FlightKept DEF NormalizeFails, RowMoves, Moves, TypeOK, Open
<1>33. ASSUME Restart PROVE FlightInv'
  <2>1. \A s \in Runs : pc'[s] \notin {"asked", "load_context"}
    BY <1>33 DEF Restart
  <2>2. \A s \in Runs : Open(s)' => Open(s) /\ targets'[s] = targets[s]
    BY <1>33 DEF Restart, Open, Untriggered
  <2> QED BY <2>1, <2>2, FlightKept
<1>34. CASE UNCHANGED vars
  BY <1>34, FlightKept DEF vars, Open
<1> QED
  BY <1>1, <1>2, <1>3, <1>4, <1>5, <1>6, <1>7, <1>8, <1>9, <1>10, <1>11,
     <1>12, <1>13, <1>14, <1>15, <1>16, <1>17, <1>18, <1>19, <1>20, <1>21,
     <1>22, <1>23, <1>24, <1>25, <1>26, <1>27, <1>28, <1>29, <1>30, <1>31,
     <1>32, <1>33, <1>34
  DEF Next, Operator, MasterStep, Failure, ThreadStep, WipeTool

(* As long as trigger requests do not overlap, two runs of the same        *)
(* scanners are not in flight within the window of the deduplication,      *)
(* also when a cancelled one goes on.                                      *)
THEOREM OneInFlight ==
  ASSUME Overlap = FALSE
  PROVE  Spec => []SingleFlight
<1> DEFINE Inv == Untriggered /\ WipeInv /\ FlightInv
<1>1. Init => Inv
  BY DEF Init, Untriggered, WipeInv, FlightInv, AskedInv, SingleFlight, Open, InFlight
<1>2. TypeOK /\ Inv /\ [Next]_vars => Inv'
  BY RowStep, FlightStep
<1>3. Inv => SingleFlight
  BY DEF FlightInv
<1> HIDE DEF Inv
<1> QED BY <1>1, <1>2, <1>3, TypeCorrect, PTL DEF Spec

-----------------------------------------------------------------------------
(* A run that nothing has disturbed: its row is open while the Master works,*)
(* what Sub-Agent 2 has loaded is all that the run has, and once it is      *)
(* through, all of it is enriched.                                          *)
Working == {"load_context", "plan", "fetch_all", "fetching", "enrich",
            "run_enrich", "enriching", "summarize"}
Undisturbed(r) ==
  /\ ~flag[r]
  /\ \A t \in Tools : wipe[r][t] = "no" /\ job[r][t].at # "escaped"
  /\ pc[r] \notin {"fail", "cancelled", "dead"}
  /\ pc[r] \in Working => status[r] \in InFlight
  /\ pc[r] = "enriching" => IssuesOf(r) \subseteq todo[r]
  /\ plan[r] /\ pc[r] \in {"summarize", "report", "done"}
       => IssuesOf(r) \subseteq enriched
QuietInv == faults = 0 => \A r \in Runs : Undisturbed(r)

(* Where no fault has happened, the steps of a fault have not been taken.   *)
LEMMA FaultFree ==
  ASSUME TypeOK, QuietInv, [Next]_vars, faults' = 0
  PROVE  /\ faults = 0
         /\ \/ \E t \in Tools : Report(t)
            \/ \E r \in Runs, S \in Targets : TriggerCheck(r, S)
            \/ \E r \in Runs : TriggerInsert(r) \/ MasterStep(r)
            \/ \E r \in Runs, t \in Tools : ThreadStep(r, t)
            \/ UNCHANGED vars
<1>0. faults \in Nat /\ ~(faults' = faults + 1)
  BY DEF TypeOK
<1>1. ~Restart /\ \A r \in Runs : ~Cancel(r)
  BY <1>0 DEF Restart, Cancel, Fault
<1>2. \A r \in Runs, t \in Tools : WipeTool(r, t) => faults' = faults
  BY DEF WipeTool, WipeIssues, WipeRaw, WipeMark, Wiping
<1>3. \A r \in Runs : Failure(r) => FailRaises(r)
  BY <1>0, Zenon
     DEF Failure, NodeRaises, EnrichFails, ThreadRaises, ThreadEscapes,
         NormalizeFails, Fault
<1>4. \A r \in Runs : FailRaises(r) => faults' = faults
  BY DEF FailRaises
<1>5. \A r \in Runs : Operator(r) => \/ \E S \in Targets : TriggerCheck(r, S)
                                     \/ TriggerInsert(r)
  BY <1>1 DEF Operator
<1>6. \/ \E t \in Tools : Report(t)
      \/ \E r \in Runs, S \in Targets : TriggerCheck(r, S)
      \/ \E r \in Runs : TriggerInsert(r) \/ MasterStep(r) \/ FailRaises(r)
      \/ \E r \in Runs, t \in Tools : ThreadStep(r, t) \/ WipeTool(r, t)
      \/ UNCHANGED vars
  BY <1>1, <1>3, <1>5, Zenon DEF Next
<1>7. \A r \in Runs, t \in Tools : ThreadStep(r, t) => faults' = faults
  BY Zenon DEF ThreadStep, ReadRegistry, Connect, FetchRows, NothingNew, StoreRaw,
         CheckRow, InsertIssue, EndRows, ReportError
<1>8. \A r \in Runs : MasterStep(r) => faults' = faults
  BY Zenon DEF MasterStep, LoadContext, Plan, FetchAll, Join, Enrich, LoadIssues,
         EnrichIssues, Summarize, Finish, Fail
<1>9. faults = 0
  <2>1. CASE \E t \in Tools : Report(t) BY <2>1 DEF Report
  <2>2. CASE \E r \in Runs, S \in Targets : TriggerCheck(r, S)
    BY <2>2 DEF TriggerCheck
  <2>3. CASE \E r \in Runs : TriggerInsert(r) BY <2>3 DEF TriggerInsert
  <2> QED BY <1>2, <1>4, <1>6, <1>7, <1>8, <2>1, <2>2, <2>3 DEF vars
<1>10. \A r \in Runs : ~FailRaises(r)
  BY <1>9 DEF QuietInv, Undisturbed, FailRaises
<1>11. \A r \in Runs, t \in Tools : ~WipeTool(r, t)
  BY <1>9 DEF QuietInv, Undisturbed, WipeTool, WipeIssues, WipeRaw, WipeMark,
              Wiping
<1> QED BY <1>6, <1>9, <1>10, <1>11

(* A step that leaves the issues, and the row of a run that works, alone.   *)
LEMMA QuietMove ==
  ASSUME QuietInv, faults = 0, UNCHANGED <<issues, flag, todo, wipe>>,
         enriched \subseteq enriched', NEW r \in Runs,
         \A s \in Runs : s # r => /\ pc'[s] = pc[s] /\ plan'[s] = plan[s]
                                  /\ status'[s] = status[s],
         \A s \in Runs, t \in Tools :
            job'[s][t].at = "escaped" => job[s][t].at = "escaped",
         pc'[r] \notin {"fail", "cancelled", "dead"},
         pc'[r] \in Working => status'[r] \in InFlight,
         pc'[r] = "enriching" => pc[r] = "enriching",
         plan'[r] /\ pc'[r] \in {"summarize", "report", "done"}
           => IssuesOf(r) \subseteq enriched'
  PROVE  QuietInv'
BY DEF QuietInv, Undisturbed, IssuesOf

LEMMA QuietStep ==
  ASSUME TypeOK, ThreadInv, QuietInv, [Next]_vars
  PROVE  QuietInv'
<1> SUFFICES ASSUME faults' = 0 PROVE QuietInv'
  BY DEF QuietInv
<1>0. faults = 0 /\ \A r \in Runs : Undisturbed(r)
  BY FaultFree DEF QuietInv
<1> USE DEF tables, runRow, Goto
<1>1. ASSUME NEW t \in Tools, Report(t) PROVE QuietInv'
  BY <1>0, <1>1 DEF Report, QuietInv, Undisturbed, IssuesOf
<1>2. ASSUME NEW r \in Runs, NEW S \in Targets, TriggerCheck(r, S)
      PROVE  QuietInv'
  BY <1>0, <1>2, QuietMove DEF TriggerCheck, TypeOK, Undisturbed, Working
<1>3. ASSUME NEW r \in Runs, TriggerInsert(r) PROVE QuietInv'
  BY <1>0, <1>3, QuietMove DEF TriggerInsert, TypeOK, Undisturbed, InFlight
<1>4. ASSUME NEW r \in Runs, MasterStep(r) PROVE QuietInv'
  <2> USE DEF TypeOK, Undisturbed, Working, InFlight
  <2>0. /\ ~flag[r] /\ pc[r] \in Working => status[r] \in InFlight
        /\ \A stop \in Polls(r) : pc[r] \in Working => ~stop
    BY <1>0 DEF Polls, Stops
  <2>1. CASE LoadContext(r) BY <1>0, <2>1, QuietMove DEF LoadContext
  <2>2. CASE Plan(r)
    <3>1. /\ pc[r] = "plan" /\ pc' = [pc EXCEPT ![r] = "fetch_all"]
          /\ \E e \in BOOLEAN : plan' = [plan EXCEPT ![r] = e]
          /\ UNCHANGED <<issues, enriched, flag, todo, wipe, status, job>>
      BY <2>2, Zenon DEF Plan
    <3> QED BY <1>0, <3>1, QuietMove
  <2>3. CASE FetchAll(r)
    <3>1. /\ pc' = [pc EXCEPT ![r] = "fetching"]
          /\ job' = [job EXCEPT ![r] = [t \in Tools |->
                       Ends(IF t \in targets[r] THEN "ready" ELSE "no")]]
          /\ pc[r] = "fetch_all"
          /\ UNCHANGED <<issues, enriched, flag, todo, wipe, status, plan>>
      BY <2>0, <2>3 DEF FetchAll
    <3>2. \A s \in Runs, t \in Tools :
            job'[s][t].at = "escaped" => job[s][t].at = "escaped"
      BY <3>1 DEF Ends, NoJob
    <3> QED BY <1>0, <3>1, <3>2, QuietMove
  <2>4. CASE Join(r)
    <3>1. NextNode(r) = IF plan[r] THEN "enrich" ELSE "summarize"
      BY <1>0 DEF NextNode
    <3> QED BY <1>0, <2>4, <3>1, QuietMove DEF Join
  <2>5. CASE Enrich(r)
    <3>1. /\ pc' = [pc EXCEPT ![r] = "run_enrich"] /\ pc[r] = "enrich"
          /\ UNCHANGED <<issues, enriched, flag, todo, wipe, status, plan, job>>
      BY <2>0, <2>5 DEF Enrich
    <3> QED BY <1>0, <3>1, QuietMove
  <2>6. CASE LoadIssues(r)
    <3>1. /\ pc' = [pc EXCEPT ![r] = "enriching"] /\ pc[r] = "run_enrich"
          /\ todo' = [todo EXCEPT ![r] = IssuesOf(r)]
          /\ UNCHANGED <<issues, enriched, flag, wipe, status, plan, job>>
      BY <2>0, <2>6 DEF LoadIssues
    <3> QED BY <1>0, <3>1 DEF QuietInv, IssuesOf
  <2>7. CASE EnrichIssues(r)
    <3>1. /\ pc[r] = "enriching" /\ pc' = [pc EXCEPT ![r] = "summarize"]
          /\ todo' = [todo EXCEPT ![r] = {}]
          /\ UNCHANGED <<issues, flag, wipe, status, plan, job>>
          /\ enriched' = enriched \cup (todo[r] \cap issues)
      BY <1>0, <2>0, <2>7 DEF EnrichIssues, Stops
    <3>2. IssuesOf(r) \subseteq enriched'
      BY <1>0, <3>1 DEF IssuesOf
    <3> QED BY <1>0, <3>1, <3>2 DEF QuietInv, IssuesOf
  <2>8. CASE Summarize(r) BY <1>0, <2>8, QuietMove DEF Summarize
  <2>9. CASE Finish(r) BY <1>0, <2>9, QuietMove DEF Finish
  <2>10. ~Fail(r)
    BY <1>0 DEF Fail
  <2> QED
    BY <1>4, <2>1, <2>2, <2>3, <2>4, <2>5, <2>6, <2>7, <2>8, <2>9, <2>10
       DEF MasterStep
<1>5. ASSUME NEW r \in Runs, NEW t \in Tools, NEW at, NEW j, Moves(r, t, at, j),
             j.at # "escaped", UNCHANGED <<issues, enriched>>
      PROVE  QuietInv'
  <2>1. \A s \in Runs, v \in Tools :
          job'[s][v].at = "escaped" => job[s][v].at = "escaped"
    BY <1>5, MovesAlone
  <2> QED BY <1>0, <1>5, <2>1, QuietMove DEF Moves, Undisturbed
<1>6. ASSUME NEW r \in Runs, NEW t \in Tools, NEW i \in Ids, NEW state,
             RowMoves(r, t, i, state)
      PROVE  /\ job[r][t].at = "rows" /\ pc[r] = "fetching"
             /\ \A s \in Runs, v \in Tools :
                  job'[s][v].at = "escaped" => job[s][v].at = "escaped"
             /\ UNCHANGED <<flag, todo, wipe, pc, plan, status>>
  <2>1. /\ job[r][t].at = "rows" /\ job'[r][t].at = "rows"
        /\ \A s \in Runs, v \in Tools : ~(s = r /\ v = t) => job'[s][v] = job[s][v]
    BY <1>6, RowMovesAlone
  <2> QED BY <1>6, <2>1 DEF ThreadInv, Alive, RowMoves, Moves
<1>7. ASSUME NEW r \in Runs, NEW t \in Tools, ThreadStep(r, t)
      PROVE  QuietInv'
  <2>1. CASE ReadRegistry(r, t)
    <3>1. [job[r][t] EXCEPT !.at = "connect", !.last = mark[t]].at # "escaped"
      BY ThreadType DEF Job
    <3> QED BY <1>5, <2>1, <3>1 DEF ReadRegistry
  <2>2. CASE Connect(r, t)
    <3>1. [job[r][t] EXCEPT !.at = "fetch", !.began = now].at # "escaped"
      BY ThreadType DEF Job
    <3> QED BY <1>5, <2>2, <3>1 DEF Connect
  <2>3. CASE FetchRows(r, t)
    BY <1>5, <2>3 DEF FetchRows
  <2>4. CASE NothingNew(r, t)
    BY <1>5, <2>4 DEF NothingNew, Ends, NoJob
  <2>5. CASE StoreRaw(r, t)
    <3>1. [job[r][t] EXCEPT !.at = "rows"].at # "escaped"
      BY ThreadType DEF Job
    <3> QED BY <1>5, <2>5, <3>1 DEF StoreRaw
  <2>6. ASSUME NEW i \in Ids, CheckRow(r, t, i) PROVE QuietInv'
    <3>1. PICK state : RowMoves(r, t, i, state)
      BY <2>6 DEF CheckRow
    <3>2. UNCHANGED <<issues, enriched>>
      BY <2>6 DEF CheckRow
    <3> QED BY <1>0, <1>6, <3>1, <3>2, QuietMove DEF Undisturbed
  <2>7. ASSUME NEW i \in Ids, InsertIssue(r, t, i) PROVE QuietInv'
    <3>1. /\ \E state : RowMoves(r, t, i, state)
          /\ UNCHANGED enriched
          /\ issues' = issues \/ issues' = issues \cup {<<r, t, i>>}
      BY <2>7 DEF InsertIssue
    <3>2. \A s \in Runs : s # r => IssuesOf(s)' = IssuesOf(s)
      BY <3>1 DEF IssuesOf
    <3> QED BY <1>0, <1>6, <3>1, <3>2 DEF QuietInv, Undisturbed
  <2>8. CASE EndRows(r, t)
    BY <1>5, <2>8 DEF EndRows, Ends, NoJob
  <2>9. CASE ReportError(r, t)
    BY <1>5, <2>9 DEF ReportError, Ends, NoJob
  <2> QED
    BY <1>7, <2>1, <2>2, <2>3, <2>4, <2>5, <2>6, <2>7, <2>8, <2>9
       DEF ThreadStep
<1>8. CASE UNCHANGED vars
  BY <1>8 DEF vars, QuietInv, Undisturbed, IssuesOf
<1> QED BY <1>1, <1>2, <1>3, <1>4, <1>7, <1>8, FaultFree

(* As long as no fault has happened, a run that has planned to enrich ends  *)
(* with every one of its issues enriched, however many runs fetch and       *)
(* enrich beside it: Sub-Agent 2 loads the issues once, and all threads are *)
(* through by then.                                                         *)
THEOREM EnrichesAll == Spec => []EnrichedComplete
<1>1. Init => ThreadInv /\ QuietInv
  BY DEF Init, ThreadInv, Alive, NoJob, QuietInv, Undisturbed, Working
<1>2. TypeOK /\ ThreadInv /\ QuietInv /\ [Next]_vars => (ThreadInv /\ QuietInv)'
  BY ThreadInvStep, QuietStep
<1>3. QuietInv => EnrichedComplete
  BY DEF QuietInv, Undisturbed, EnrichedComplete
<1> QED BY <1>1, <1>2, <1>3, TypeCorrect, PTL DEF Spec

=============================================================================

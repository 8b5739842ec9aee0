-------------------------- MODULE AgentLoopProofs --------------------------
(* Theorems about AgentLoop, for any budget, floors and number of           *)
(* iterations, and for any drafts and tool calls of the language model.     *)
EXTENDS AgentLoop, TLAPS

\* The stages in which research goes on, and those in which nothing is drafted.
Researching == {"prefetch", "loop", "tools"}
Draftless == Researching \union {"backup", "fallback"}

\* What the planner has invoked by the time it is in a stage.
Spent ==
  /\ pc \in {"prefetch", "loop", "tools"} => invoked <= turn /\ turn <= MaxIterations
  /\ pc = "backup" => invoked <= MaxIterations
  /\ pc = "expand" => invoked <= MaxIterations + 1
  /\ pc \in {"verify", "search"} => invoked <= MaxIterations + 2
  /\ pc \in {"done", "fallback"} => invoked <= MaxIterations + 3

CounterTypes ==
  /\ calls \in Nat /\ cost \in Nat /\ fetches \in Nat
  /\ turn \in Nat /\ invoked \in Nat
  /\ pc \in {"prefetch", "loop", "tools", "backup", "expand", "verify",
             "search", "done", "fallback"}

\* The inductive invariant of the budget: the total of invocations is bounded
\* because each stage adds at most one to the iterations.
BudgetInv ==
  /\ CounterTypes
  /\ calls <= MaxCalls
  /\ cost < MaxCost + Cost["web_search"]
  /\ Spent

\* What a run that ends its research below the floor knows.
UsedUp == MaxCalls - calls <= Reserve \/ turn >= MaxIterations - 1
NoRoom == UsedUp \/ exhausted

\* The inductive invariant of the research: nothing is drafted while research
\* goes on, and it is left with the floor reached or without room.
ResearchInv ==
  /\ CounterTypes
  /\ pc \in Draftless => draft = None
  /\ pc \notin Researching \union {"fallback"} /\ fetches < Floor => NoRoom

-----------------------------------------------------------------------------
\* A recorded call keeps the types and, made on an open budget, its bounds.
LEMMA RecordKeeps ==
  ASSUME NEW tool \in DOMAIN Cost, CounterTypes, Record(tool)
  PROVE  /\ calls' \in Nat /\ cost' \in Nat /\ fetches' \in Nat
         /\ calls' = calls + 1 /\ fetches' >= fetches
         /\ CanCall => /\ calls' <= MaxCalls
                       /\ cost' < MaxCost + Cost["web_search"]
  BY LoopAssumption DEF LoopAssumption, CounterTypes, Record, CanCall, Cost

\* What one tool call changes of the budget.
LEMMA ToolKeeps ==
  ASSUME CounterTypes, Tool
  PROVE  /\ calls' \in Nat /\ cost' \in Nat /\ fetches' \in Nat
         /\ calls' >= calls /\ fetches' >= fetches
         /\ calls <= MaxCalls => calls' <= MaxCalls
         /\ cost < MaxCost + Cost["web_search"]
              => cost' < MaxCost + Cost["web_search"]
         /\ pc = "tools" /\ pc' \in {"tools", "fallback"}
         /\ UNCHANGED <<turn, invoked, draft>>
  <1>1. pc = "tools" /\ UNCHANGED <<turn, invoked, draft>>
    BY DEF Tool
  <1>2. CASE Unknown
    BY <1>1, <1>2 DEF Unknown, budget, CounterTypes
  <1>3. CASE Denied
    BY <1>1, <1>3 DEF Denied, budget, CounterTypes
  <1>4. CASE Fetch
    <2>1. "url_fetch" \in DOMAIN Cost
      BY DEF Cost
    <2>2. CanCall /\ Record("url_fetch") /\ pc' = pc
          /\ exhausted' \in {exhausted, TRUE}
      BY <1>4 DEF Fetch
    <2> QED
      BY <1>1, <2>1, <2>2, RecordKeeps DEF CounterTypes
  <1>5. CASE Search
    <2>1. "web_search" \in DOMAIN Cost
      BY DEF Cost
    <2>2. /\ CanCall /\ exhausted' = exhausted
          /\ \/ Record("web_search") /\ pc' = pc
             \/ UNCHANGED budget /\ pc' = "fallback"
      BY <1>5 DEF Search
    <2>3. CASE Record("web_search") /\ pc' = pc
      BY <1>1, <2>1, <2>2, <2>3, RecordKeeps DEF CounterTypes
    <2>4. CASE UNCHANGED budget /\ pc' = "fallback"
      BY <1>1, <2>2, <2>4 DEF CounterTypes, budget
    <2> QED
      BY <2>2, <2>3, <2>4
  <1> QED
    BY <1>2, <1>3, <1>4, <1>5 DEF Tool

\* The same of the file that is read first.
LEMMA PrefetchKeeps ==
  ASSUME CounterTypes, Prefetch
  PROVE  /\ calls' \in Nat /\ cost' \in Nat /\ fetches' \in Nat
         /\ calls' >= calls /\ fetches' >= fetches
         /\ calls <= MaxCalls => calls' <= MaxCalls
         /\ cost < MaxCost + Cost["web_search"]
              => cost' < MaxCost + Cost["web_search"]
         /\ pc = "prefetch" /\ pc' = "loop"
         /\ UNCHANGED <<turn, invoked, draft, exhausted>>
  <1>1. "file_fetch" \in DOMAIN Cost
    BY DEF Cost
  <1>2. /\ pc = "prefetch" /\ pc' = "loop"
        /\ UNCHANGED <<turn, invoked, draft, exhausted>>
        /\ (CanCall /\ Record("file_fetch")) \/ UNCHANGED budget
    BY DEF Prefetch
  <1>3. CASE CanCall /\ Record("file_fetch")
    BY <1>1, <1>2, <1>3, RecordKeeps DEF CounterTypes
  <1>4. CASE UNCHANGED budget
    BY <1>2, <1>4 DEF CounterTypes, budget
  <1> QED
    BY <1>2, <1>3, <1>4

\* The same of a search of the verification.
LEMMA VerifyKeeps ==
  ASSUME CounterTypes, Verify
  PROVE  /\ calls' \in Nat /\ cost' \in Nat /\ fetches' \in Nat
         /\ calls' >= calls /\ fetches' >= fetches
         /\ calls <= MaxCalls => calls' <= MaxCalls
         /\ cost < MaxCost + Cost["web_search"]
              => cost' < MaxCost + Cost["web_search"]
         /\ pc = "search"
         /\ UNCHANGED <<pc, turn, invoked, draft, exhausted>>
  <1>1. "web_search" \in DOMAIN Cost
    BY DEF Cost
  <1>2. /\ pc = "search" /\ CanCall
        /\ UNCHANGED <<pc, turn, invoked, draft, exhausted>>
        /\ Record("web_search") \/ UNCHANGED budget
    BY DEF Verify
  <1>3. CASE Record("web_search")
    BY <1>1, <1>2, <1>3, RecordKeeps DEF CounterTypes
  <1>4. CASE UNCHANGED budget
    BY <1>2, <1>4 DEF CounterTypes, budget
  <1> QED
    BY <1>2, <1>3, <1>4

-----------------------------------------------------------------------------
LEMMA BudgetInit == Init => BudgetInv
  BY LoopAssumption
  DEF LoopAssumption, Init, BudgetInv, CounterTypes, Spent, Cost

LEMMA BudgetStep ==
  ASSUME BudgetInv, [Next]_vars
  PROVE  BudgetInv'
  <1> USE LoopAssumption DEF LoopAssumption
  <1>1. CASE NoPrompt
    BY <1>1 DEF NoPrompt, BudgetInv, CounterTypes, Spent, budget
  <1>2. CASE Prefetch
    BY <1>2, PrefetchKeeps DEF BudgetInv, CounterTypes, Spent
  <1>3. CASE AskTools
    BY <1>3 DEF AskTools, Invoke, BudgetInv, CounterTypes, Spent, budget
  <1>4. CASE Answer
    BY <1>4 DEF Answer, Invoke, BudgetInv, CounterTypes, Spent, budget
  <1>5. CASE Fail
    BY <1>5 DEF Fail, Invoke, BudgetInv, CounterTypes, Spent, budget
  <1>6. CASE Tool
    BY <1>6, ToolKeeps DEF BudgetInv, CounterTypes, Spent
  <1>7. CASE NextTurn
    BY <1>7 DEF NextTurn, BudgetInv, CounterTypes, Spent, budget
  <1>8. CASE OutOfTurns
    BY <1>8 DEF OutOfTurns, BudgetInv, CounterTypes, Spent, budget
  <1>9. CASE Synthesize
    BY <1>9 DEF Synthesize, Invoke, BudgetInv, CounterTypes, Spent, budget
  <1>10. CASE Expand
    <2>1. /\ pc = "expand" /\ pc' = "verify"
          /\ UNCHANGED <<budget, turn>>
          /\ invoked' \in {invoked, invoked + 1}
      BY <1>10 DEF Expand, Invoke
    <2> QED
      BY <2>1 DEF BudgetInv, CounterTypes, Spent, budget
  <1>11. CASE Scan
    <2>1. pc = "verify" /\ pc' = "search" /\ UNCHANGED <<budget, turn, invoked>>
      BY <1>11 DEF Scan
    <2> QED
      BY <2>1 DEF BudgetInv, CounterTypes, Spent, budget
  <1>12. CASE Verify
    BY <1>12, VerifyKeeps DEF BudgetInv, CounterTypes, Spent
  <1>13. CASE Skip
    BY <1>13 DEF Skip, BudgetInv, CounterTypes, Spent, budget
  <1>14. CASE Fill
    <2>1. /\ pc = "search" /\ pc' = "done"
          /\ UNCHANGED <<budget, turn>>
          /\ invoked' \in {invoked, invoked + 1}
      BY <1>14 DEF Fill, Invoke
    <2> QED
      BY <2>1 DEF BudgetInv, CounterTypes, Spent, budget
  <1>15. CASE UNCHANGED vars
    BY <1>15 DEF vars, BudgetInv, CounterTypes, Spent
  <1> QED
    BY <1>1, <1>2, <1>3, <1>4, <1>5, <1>6, <1>7, <1>8, <1>9, <1>10, <1>11,
       <1>12, <1>13, <1>14, <1>15
    DEF Next, Loop, Finish, Ended

\* However the model answers and the tools fail, the reading of the file, the
\* research and the verification keep within one budget, and the invocations
\* within three more than the iterations.
THEOREM WithinBudget == Spec => []Bounded
  <1>1. Init => BudgetInv
    BY BudgetInit
  <1>2. BudgetInv /\ [Next]_vars => BudgetInv'
    BY BudgetStep
  <1>3. BudgetInv => Bounded
    BY LoopAssumption
    DEF LoopAssumption, BudgetInv, CounterTypes, Spent, Bounded
  <1> QED
    BY <1>1, <1>2, <1>3, PTL DEF Spec

-----------------------------------------------------------------------------
LEMMA ResearchInit == Init => ResearchInv
  BY DEF Init, ResearchInv, CounterTypes, Researching, Draftless

\* The drafting leaves the counters alone or lets them grow, so that room that
\* is used up does not come back.
LEMMA NoRoomStays ==
  ASSUME CounterTypes, calls' \in Nat, fetches' \in Nat,
         calls' >= calls, fetches' >= fetches,
         turn' = turn, exhausted' = exhausted,
         fetches < Floor => NoRoom
  PROVE  fetches' < Floor => NoRoom'
  <1>1. fetches' < Floor => fetches < Floor
    BY LoopAssumption DEF LoopAssumption, CounterTypes
  <1>2. MaxCalls - calls <= Reserve => MaxCalls - calls' <= Reserve
    <2>1. \A a, b, c, d \in Nat : a - b <= d /\ c >= b => a - c <= d
      OBVIOUS
    <2>2. MaxCalls \in Nat /\ Reserve \in Nat /\ calls \in Nat
      BY LoopAssumption DEF LoopAssumption, CounterTypes
    <2> QED
      BY <2>1, <2>2
  <1>3. UsedUp => UsedUp'
    <2>1. CASE MaxCalls - calls <= Reserve
      <3>1. MaxCalls - calls' <= Reserve
        BY <1>2, <2>1
      <3> QED
        BY <3>1 DEF UsedUp
    <2>2. CASE turn >= MaxIterations - 1
      <3>1. turn' >= MaxIterations - 1
        BY <2>2
      <3> QED
        BY <3>1 DEF UsedUp
    <2> QED
      BY <2>1, <2>2 DEF UsedUp
  <1> QED
    BY <1>1, <1>3, Zenon DEF NoRoom

\* A stage of the drafting, or the end of one, keeps the invariant.
LEMMA DraftingKeeps ==
  ASSUME ResearchInv, CounterTypes',
         pc \in {"backup", "expand", "verify", "search", "done"},
         pc' \in {"expand", "verify", "search", "done", "fallback"},
         pc' = "fallback" => draft' = None,
         calls' >= calls, fetches' >= fetches,
         turn' = turn, exhausted' = exhausted
  PROVE  ResearchInv'
  <1>1. fetches < Floor => NoRoom
    BY DEF ResearchInv, Researching
  <1>2. fetches' < Floor => NoRoom'
    BY <1>1, NoRoomStays DEF ResearchInv, CounterTypes
  <1> QED
    BY <1>2 DEF ResearchInv, Researching, Draftless

LEMMA ResearchStep ==
  ASSUME ResearchInv, CounterTypes', [Next]_vars
  PROVE  ResearchInv'
  <1> USE LoopAssumption DEF LoopAssumption
  <1>1. CASE NoPrompt
    BY <1>1 DEF NoPrompt, ResearchInv, Researching, Draftless
  <1>2. CASE Prefetch
    <2>1. draft' = None /\ pc' = "loop"
      BY <1>2, PrefetchKeeps DEF ResearchInv, Researching, Draftless
    <2> QED
      BY <2>1 DEF ResearchInv, Researching
  <1>3. CASE AskTools
    <2>1. draft' = None /\ pc' = "tools"
      BY <1>3 DEF AskTools, ResearchInv, Researching, Draftless
    <2> QED
      BY <2>1 DEF ResearchInv, Researching
  <1>4. CASE Answer
    <2>1. /\ pc = "loop" /\ draft = None /\ turn' = turn + 1
          /\ UNCHANGED <<calls, cost, fetches>>
      BY <1>4 DEF Answer, ResearchInv, Researching, Draftless, budget
    <2>2. CASE PushBack
      <3>1. UNCHANGED <<pc, draft>>
        BY <1>4, <2>2 DEF Answer
      <3> QED
        BY <2>1, <3>1 DEF ResearchInv, Researching
    <2>3. CASE ~PushBack
      <3>1. /\ pc' \in {"expand", "backup"}
            /\ pc' = "backup" => draft' = None
        BY <1>4, <2>1, <2>3 DEF Answer
      <3>2. fetches' < Floor => NoRoom'
        BY <2>1, <2>3 DEF PushBack, NoRoom, UsedUp, ResearchInv, CounterTypes
      <3> QED
        BY <3>1, <3>2 DEF ResearchInv, Researching, Draftless
    <2> QED
      BY <2>2, <2>3
  <1>5. CASE Fail
    BY <1>5 DEF Fail, ResearchInv, Researching, Draftless
  <1>6. CASE Tool
    <2>1. draft' = None /\ pc' \in {"tools", "fallback"}
      BY <1>6, ToolKeeps DEF ResearchInv, Researching, Draftless
    <2> QED
      BY <2>1 DEF ResearchInv, Researching
  <1>7. CASE NextTurn
    <2>1. /\ draft' = None /\ exhausted' = exhausted
          /\ pc' = IF exhausted THEN "backup" ELSE "loop"
      BY <1>7 DEF NextTurn, ResearchInv, Researching, Draftless
    <2>2. CASE exhausted
      BY <2>1, <2>2 DEF ResearchInv, NoRoom
    <2>3. CASE ~exhausted
      BY <2>1, <2>3 DEF ResearchInv, Researching
    <2> QED
      BY <2>2, <2>3
  <1>8. CASE OutOfTurns
    <2>1. /\ draft' = None /\ pc' = "backup"
          /\ turn >= MaxIterations /\ turn' = turn
      BY <1>8 DEF OutOfTurns, ResearchInv, Researching, Draftless
    <2>2. turn' >= MaxIterations - 1
      BY <2>1 DEF ResearchInv, CounterTypes
    <2>3. UsedUp'
      BY <2>2 DEF UsedUp
    <2> QED
      BY <2>1, <2>3, Zenon DEF ResearchInv, NoRoom
  <1>9. CASE Synthesize
    <2>1. /\ pc = "backup" /\ pc' \in {"expand", "fallback"}
          /\ pc' = "fallback" => draft' = draft
          /\ UNCHANGED <<calls, fetches, turn, exhausted>>
      BY <1>9 DEF Synthesize, budget
    <2>2. draft = None
      BY <2>1 DEF ResearchInv, Draftless
    <2> QED
      BY <2>1, <2>2, DraftingKeeps DEF ResearchInv, CounterTypes
  <1>10. CASE Expand
    <2>1. /\ pc = "expand" /\ pc' = "verify"
          /\ UNCHANGED <<calls, fetches, turn, exhausted>>
      BY <1>10 DEF Expand, budget
    <2> QED
      BY <2>1, DraftingKeeps DEF ResearchInv, CounterTypes
  <1>11. CASE Scan
    <2>1. /\ pc = "verify" /\ pc' = "search"
          /\ UNCHANGED <<calls, fetches, turn, exhausted>>
      BY <1>11 DEF Scan, budget
    <2> QED
      BY <2>1, DraftingKeeps DEF ResearchInv, CounterTypes
  <1>12. CASE Verify
    <2>1. /\ pc = "search" /\ pc' = "search"
          /\ calls' >= calls /\ fetches' >= fetches
          /\ turn' = turn /\ exhausted' = exhausted
      BY <1>12, VerifyKeeps DEF ResearchInv
    <2> QED
      BY <2>1, DraftingKeeps
  <1>13. CASE Skip
    <2>1. /\ pc = "search" /\ pc' = "search"
          /\ UNCHANGED <<calls, fetches, turn, exhausted>>
      BY <1>13 DEF Skip, budget
    <2> QED
      BY <2>1, DraftingKeeps DEF ResearchInv, CounterTypes
  <1>14. CASE Fill
    <2>1. /\ pc = "search" /\ pc' = "done"
          /\ UNCHANGED <<calls, fetches, turn, exhausted>>
      BY <1>14 DEF Fill, budget
    <2> QED
      BY <2>1, DraftingKeeps DEF ResearchInv, CounterTypes
  <1>15. CASE UNCHANGED vars
    BY <1>15 DEF vars, ResearchInv, NoRoom, UsedUp, CounterTypes
  <1> QED
    BY <1>1, <1>2, <1>3, <1>4, <1>5, <1>6, <1>7, <1>8, <1>9, <1>10, <1>11,
       <1>12, <1>13, <1>14, <1>15
    DEF Next, Loop, Finish, Ended

\* A package is written from fewer fetches than the floor only when the run
\* had no room left for research, whatever the floor and the budget.
THEOREM ResearchFirst == Spec => []Researched
  <1>1. Init => BudgetInv /\ ResearchInv
    BY BudgetInit, ResearchInit
  <1>2. BudgetInv /\ ResearchInv /\ [Next]_vars => BudgetInv' /\ ResearchInv'
    BY BudgetStep, ResearchStep DEF BudgetInv
  <1>3. ResearchInv => Researched
    BY DEF ResearchInv, Researched, NoRoom, UsedUp, Draftless, Researching
  <1> QED
    BY <1>1, <1>2, <1>3, PTL DEF Spec
=============================================================================

----------------------------- MODULE AgentLoop -----------------------------
(* The agentic planner of Sub-Agent 3: a language model that researches one *)
(* finding with tools, under a budget of calls and of money, and answers    *)
(* with a draft of the package; the draft is expanded when it is too        *)
(* shallow, verified by searches on what is left of the budget, and         *)
(* repaired when it holds unfilled placeholders.  Without a result the      *)
(* caller falls back to the hybrid planner.                                 *)
(*                                                                          *)
(* Sources: remediation/agent_v2.py, verifier.py and tools/*.py.  What the  *)
(* language model says is arbitrary; a draft is what the checks see of it:  *)
(* pathways of steps, of a step its commands, the texts of it that have a   *)
(* placeholder, and whether a command is destructive.                       *)
EXTENDS Integers, FiniteSets, Sequences, Folds, SequencesExt

CONSTANTS
  None,
  Drafts,          \* the packages the model may answer with
  Replies,         \* the lists of tool calls it may ask for
  MaxCalls,        \* settings.agent_max_tool_calls
  MaxCost,         \* settings.agent_max_cost_usd, in thousandths
  MaxIterations,   \* max_iterations
  Floor,           \* _MIN_FETCHES_BY_FAMILY of the family
  MinSteps,        \* _MIN_STEPS_BY_FAMILY of the family
  Reserve,         \* _RESERVE_CALLS_FOR_VERIFICATION (5)
  MaxVerify        \* max_commands_to_verify (4)

\* _COST_PER_TOOL_USD, in thousandths
Cost == [web_search |-> 50, url_fetch |-> 1, file_fetch |-> 10]

ASSUME LoopAssumption ==
  /\ MaxCalls \in Nat /\ MaxCost \in Nat /\ MaxIterations \in Nat
  /\ Floor \in Nat /\ MinSteps \in Nat /\ Reserve \in Nat
  /\ MaxVerify \in Nat

VARIABLES
  pc,          \* where the run of the planner is
  calls, cost, \* the AgentBudget: calls made, money accrued,
  fetches,     \* ... and the calls of url_fetch
  turn,        \* iterations of the loop begun
  asked,       \* tool calls of the last answer not yet executed
  exhausted,   \* budget_exhausted of this iteration
  invoked,     \* invocations of the language model (history)
  draft,       \* the package so far
  report,      \* the VerificationReport
  unverified   \* commands the verifier still means to search for
vars == <<pc, calls, cost, fetches, turn, asked, exhausted, invoked, draft,
          report, unverified>>
budget == <<calls, cost, fetches>>

NoReport == [holes |-> 0, risky |-> 0, shallow |-> 0, skipped |-> FALSE]

Init ==
  /\ pc = "prefetch"
  /\ calls = 0 /\ cost = 0 /\ fetches = 0
  /\ turn = 0 /\ asked = <<>> /\ exhausted = FALSE /\ invoked = 0
  /\ draft = None /\ report = NoReport /\ unverified = 0

-----------------------------------------------------------------------------
(* The budget.                                                              *)

\* AgentBudget.can_call
CanCall_over == calls <= MaxCalls /\ cost < MaxCost
CanCall == calls < MaxCalls /\ cost < MaxCost

\* AgentBudget.record_call
Record(tool) ==
  /\ calls' = calls + 1
  /\ cost' = cost + Cost[tool]
  /\ fetches' = IF tool = "url_fetch" THEN fetches + 1 ELSE fetches

-----------------------------------------------------------------------------
(* The checks of a draft.                                                   *)

Total(seq) == FoldSeq(LAMBDA n, sum : n + sum, 0, seq)
StepsOf(d) == FlattenSeq(d)

\* verify_output flags a step with a placeholder once ...
Holes(d) == Len(SelectSeq(StepsOf(d), LAMBDA s : s.holes > 0))
\* ... scan_placeholder_flags once for its text and once for each command
HolesAgain(d) == Total([k \in DOMAIN StepsOf(d) |-> StepsOf(d)[k].holes])

\* the scan for destructive commands leaves its list after the first pattern
Risky(d) == Len(SelectSeq(StepsOf(d), LAMBDA s : s.risky = "first"))

Commands(d) == Total([k \in DOMAIN StepsOf(d) |-> StepsOf(d)[k].commands])
Shallow(d) == {p \in DOMAIN d : Len(d[p]) < MinSteps}

\* _maybe_expand_for_depth keeps the answer when a shallow pathway grew, or
\* when there are commands where there was none
Improves(old, new) ==
  \/ \E p \in Shallow(old) \intersect DOMAIN new : Len(new[p]) > Len(old[p])
  \/ Commands(old) = 0 /\ Commands(new) > 0

-----------------------------------------------------------------------------
(* The loop.                                                                *)

\* no prompt could be loaded for the finding's scanner and family
NoPrompt ==
  /\ pc = "prefetch"
  /\ pc' = "fallback"
  /\ UNCHANGED <<budget, turn, asked, exhausted, invoked, draft, report,
                 unverified>>

\* The target file is read first, when the finding names one: no budget, no
\* instance and unsafe paths raise before the call is recorded.
Prefetch ==
  /\ pc = "prefetch"
  /\ \/ CanCall /\ Record("file_fetch")
     \/ UNCHANGED budget
  /\ pc' = "loop"
  /\ UNCHANGED <<turn, asked, exhausted, invoked, draft, report, unverified>>

Invoke == invoked' = invoked + 1

\* an iteration: the model asks for tools
AskTools ==
  /\ pc = "loop" /\ turn < MaxIterations
  /\ turn' = turn + 1 /\ Invoke
  /\ asked' \in Replies
  /\ exhausted' = FALSE
  /\ pc' = "tools"
  /\ UNCHANGED <<budget, draft, report, unverified>>

\* ... or gives its answer: it is pushed back below the floor of fetches,
\* while calls and iterations allow
PushBack_late == /\ fetches < Floor
                 /\ MaxCalls - calls > Reserve + 1
                 /\ turn < MaxIterations - 2
PushBack == /\ fetches < Floor
            /\ MaxCalls - calls > Reserve
            /\ turn < MaxIterations - 2
Answer ==
  /\ pc = "loop" /\ turn < MaxIterations
  /\ turn' = turn + 1 /\ Invoke
  /\ IF PushBack THEN UNCHANGED <<pc, draft>>
     ELSE \/ draft' \in Drafts /\ pc' = "expand"
          \/ pc' = "backup" /\ UNCHANGED draft
  /\ UNCHANGED <<budget, asked, exhausted, report, unverified>>

\* the invocation raises
Fail ==
  /\ pc = "loop" /\ turn < MaxIterations
  /\ Invoke
  /\ pc' = "fallback"
  /\ UNCHANGED <<budget, turn, asked, exhausted, draft, report, unverified>>

\* one tool call of the answer; a tool nobody knows is only answered
Unknown ==
  /\ Head(asked) \notin DOMAIN Cost
  /\ UNCHANGED <<budget, exhausted, pc>>
\* a denial marks the iteration as the last
Denied ==
  /\ Head(asked) \in DOMAIN Cost /\ ~CanCall
  /\ exhausted' = TRUE
  /\ UNCHANGED <<budget, pc>>
\* A fetch is recorded whether or not it gets the page.  The text of its
\* error is searched for the word cap, which the address may contain.
Fetch ==
  /\ Head(asked) = "url_fetch" /\ CanCall
  /\ Record("url_fetch")
  /\ exhausted' \in {exhausted, TRUE}
  /\ UNCHANGED pc
\* a search that fails is not recorded, and its exception ends the planner
Search ==
  /\ Head(asked) = "web_search" /\ CanCall
  /\ \/ Record("web_search") /\ UNCHANGED pc
     \/ UNCHANGED budget /\ pc' = "fallback"
  /\ UNCHANGED exhausted
Tool ==
  /\ pc = "tools" /\ asked # <<>>
  /\ asked' = Tail(asked)
  /\ Unknown \/ Denied \/ Fetch \/ Search
  /\ UNCHANGED <<turn, invoked, draft, report, unverified>>

NextTurn ==
  /\ pc = "tools" /\ asked = <<>>
  /\ pc' = IF exhausted THEN "backup" ELSE "loop"
  /\ UNCHANGED <<budget, turn, asked, exhausted, invoked, draft, report,
                 unverified>>

OutOfTurns ==
  /\ pc = "loop" /\ turn >= MaxIterations
  /\ pc' = "backup"
  /\ UNCHANGED <<budget, turn, asked, exhausted, invoked, draft, report,
                 unverified>>

-----------------------------------------------------------------------------
(* The draft.                                                               *)

\* _synthesize_backup asks for the package once more
Synthesize ==
  /\ pc = "backup"
  /\ Invoke
  /\ \/ draft' \in Drafts /\ pc' = "expand"
     \/ pc' = "fallback" /\ UNCHANGED draft
  /\ UNCHANGED <<budget, turn, asked, exhausted, report, unverified>>

\* _maybe_expand_for_depth: one more invocation for a draft that is shallow
\* or has no command; an answer that is no better is dropped
Expand ==
  /\ pc = "expand"
  /\ IF draft # <<>> /\ (Shallow(draft) # {} \/ Commands(draft) = 0)
     THEN /\ Invoke
          /\ draft' \in {draft} \union {d \in Drafts : Improves(draft, d)}
     ELSE UNCHANGED <<invoked, draft>>
  /\ pc' = "verify"
  /\ UNCHANGED <<budget, turn, asked, exhausted, report, unverified>>

\* verify_output: the scans, and then the searches for the first commands
Scan ==
  /\ pc = "verify"
  /\ report' = [holes |-> Holes(draft), risky |-> Risky(draft),
                shallow |-> Cardinality(Shallow(draft)), skipped |-> FALSE]
  /\ unverified' \in 0 .. IF Commands(draft) < MaxVerify
                          THEN Commands(draft) ELSE MaxVerify
  /\ pc' = "search"
  /\ UNCHANGED <<budget, turn, asked, exhausted, invoked, draft>>

\* each is one search, and a search that fails is counted as no support
Verify ==
  /\ pc = "search" /\ unverified > 0 /\ CanCall
  /\ Record("web_search") \/ UNCHANGED budget
  /\ unverified' = unverified - 1
  /\ UNCHANGED <<pc, turn, asked, exhausted, invoked, draft, report>>
Skip ==
  /\ pc = "search" /\ unverified > 0 /\ ~CanCall
  /\ unverified' = 0
  /\ report' = [report EXCEPT !.skipped = TRUE]
  /\ UNCHANGED <<pc, budget, turn, asked, exhausted, invoked, draft>>

\* _maybe_expand_for_placeholders: one more invocation for a draft with
\* flags, kept when there are fewer; of the report it renews those only
Fill ==
  /\ pc = "search" /\ unverified = 0
  /\ IF report.holes > 0
     THEN /\ Invoke
          /\ \/ UNCHANGED <<draft, report>>
             \/ \E d \in Drafts : /\ HolesAgain(d) < report.holes
                                  /\ draft' = d
                                  /\ report' =
                                       [report EXCEPT !.holes = HolesAgain(d)]
     ELSE UNCHANGED <<invoked, draft, report>>
  /\ pc' = "done"
  /\ UNCHANGED <<budget, turn, asked, exhausted, unverified>>

Ended == pc \in {"done", "fallback"} /\ UNCHANGED vars

Loop == AskTools \/ Answer \/ Fail \/ Tool \/ NextTurn \/ OutOfTurns
Finish == Synthesize \/ Expand \/ Scan \/ Verify \/ Skip \/ Fill
Next == NoPrompt \/ Prefetch \/ Loop \/ Finish \/ Ended

Spec == Init /\ [][Next]_vars

-----------------------------------------------------------------------------
(* Properties.                                                              *)

\* However the model answers, and in whatever order tools fail, the file that
\* is read first, the research and the verification share one budget: at most
\* MaxCalls calls, a cost that passes its cap by less than the dearest call,
\* and no more than three invocations after the iterations.
Bounded ==
  /\ calls <= MaxCalls
  /\ cost < MaxCost + Cost["web_search"]
  /\ invoked <= MaxIterations + 3

\* A package is written from fewer fetches than the floor of its family only
\* when the run had no room left for research: the calls that remain are the
\* reserve of the verification, the iterations are used up, or tools were
\* denied -- whether the model finished by itself or was made to.
Researched ==
  draft # None /\ fetches < Floor =>
    \/ MaxCalls - calls <= Reserve
    \/ turn >= MaxIterations - 1
    \/ exhausted

\* verifier.py promises "fail-open with visible flags": a package with a
\* destructive command has a flag for it.  The scan's early break and the
\* placeholder retry break this.
Warned ==
  pc = "done" =>
    Cardinality({k \in DOMAIN StepsOf(draft) : StepsOf(draft)[k].risky # "no"})
      <= report.risky

\* "Budget cap or tool-level failure": an iteration that ends as exhausted
\* ran into the budget.  An address with the letters cap breaks this.
ReallyExhausted == pc = "tools" /\ exhausted => ~CanCall
=============================================================================

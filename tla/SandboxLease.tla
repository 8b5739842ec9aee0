---------------------------- MODULE SandboxLease ----------------------------
(***************************************************************************)
(* What the fixer promises about the sandbox's source, with nothing said   *)
(* about how: one run at a time leases it, and a lessee only ever adds or  *)
(* takes back its own edit, never somebody else's.                         *)
(***************************************************************************)
CONSTANTS Runs

VARIABLES lessees,  \* the run that leases the sandbox: at most one
          source    \* the runs whose edit the source carries

vars == <<lessees, source>>

Init == lessees = {} /\ source = {}

Take(r) == /\ lessees = {}
           /\ lessees' = {r}
           /\ UNCHANGED source

Change(r) == /\ r \in lessees
             /\ source' \in {source \cup {r}, source \ {r}}
             /\ UNCHANGED lessees

Return(r) == /\ lessees = {r}
             /\ lessees' = {}
             /\ UNCHANGED source

Next == \E r \in Runs : Take(r) \/ Change(r) \/ Return(r)

Spec == Init /\ [][Next]_vars

=============================================================================

------------------------------ MODULE MCFixRun ------------------------------
(* The sandbox instances TLC checks: the process and the schema of each run.*)
EXTENDS FixRun, TLC

CONSTANTS r1, r2, r3, p1, p2

OneProc == [r \in Runs |-> p1]
OneEach == [r \in Runs |-> IF r = r1 THEN p1 ELSE p2]
Public == [r \in Runs |-> "public"]
BothSchemas == [r \in Runs |-> IF r = r1 THEN "public" ELSE "demo"]

=============================================================================

------------------------------- MODULE Mirror -------------------------------
(***************************************************************************)
(* What the intelligence table promises to its readers: it is a copy of    *)
(* the NVD that may lag behind, together with a horizon.  A record is only *)
(* ever replaced by a later version of itself that the NVD has published,  *)
(* and the horizon only moves forward, to a time up to which every change  *)
(* is in the copy.                                                         *)
(***************************************************************************)
EXTENDS Integers

CONSTANTS
  Cves,      \* the CVE ids
  Malformed  \* <<cve, version>>: the records nobody can store

VARIABLES
  nvd,       \* the version of each CVE: the time of its last modification
  table,     \* the version the copy holds
  horizon    \* the changes up to this time are in the copy

vars == <<nvd, table, horizon>>

(* The copy has every storable change made up to time t. *)
CoversUpTo(t) ==
  \A c \in Cves : nvd[c] <= t /\ <<c, nvd[c]>> \notin Malformed
                  => table[c] = nvd[c]

Init == CoversUpTo(horizon)

Publish ==
  /\ \A c \in Cves :
       nvd'[c] # nvd[c] => nvd'[c] > nvd[c] /\ nvd'[c] > horizon
  /\ UNCHANGED <<table, horizon>>

Store ==
  /\ \E c \in Cves : \E v \in table[c] .. nvd[c] :
       table' = [table EXCEPT ![c] = v]
  /\ UNCHANGED <<nvd, horizon>>

Advance ==
  /\ horizon' > horizon
  /\ CoversUpTo(horizon')
  /\ UNCHANGED <<nvd, table>>

Next == Publish \/ Store \/ Advance

Spec == Init /\ [][Next]_vars
=============================================================================

----------------------------- MODULE MCNvdSync -----------------------------
(* Instances of NvdSync for TLC. *)
EXTENDS NvdSync

MCCves == {1, 2}
MCNone == {}
MCBadRecord == {<<2, 2>>}    \* the second change of CVE 2 cannot be transformed
=============================================================================

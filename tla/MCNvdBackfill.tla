--------------------------- MODULE MCNvdBackfill ---------------------------
(* Instances of NvdBackfill for TLC: two CVEs of two years. *)
EXTENDS NvdBackfill

MCCves == {1, 2}
MCNone == {}
MCYearOf == [c \in MCCves |-> c]
=============================================================================

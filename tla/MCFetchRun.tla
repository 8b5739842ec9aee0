----------------------------- MODULE MCFetchRun -----------------------------
(* Instances of FetchRun for TLC. *)
EXTENDS FetchRun

CONSTANTS t, u

One == {{t}}
OneOrBoth == {{t}, {t, u}}
Both == {{t, u}}
=============================================================================

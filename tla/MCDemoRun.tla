----------------------------- MODULE MCDemoRun -----------------------------
(* Instances of DemoRun for TLC. *)
EXTENDS DemoRun

\* image findings, two of them twins, and one of a scanner without a scoop
Twin == [id |-> 1, source |-> "image", rank |-> 5, key |-> "a", family |-> "os"]
Same == [Twin EXCEPT !.id = 2, !.rank = 4]
Other == [Twin EXCEPT !.id = 3, !.rank = 3, !.key = "b"]
Low == [Twin EXCEPT !.id = 4, !.rank = 1, !.key = "c"]
Extra == [id |-> 5, source |-> "bandit", rank |-> 2, key |-> "d",
          family |-> "injection"]

ImageScoops == <<<<"image", 3>>>>
TwoFamilies == <<"injection", "os">>
RealRuns == {<<>>, <<Same, Low, Twin, Other>>, <<Extra>>}

Rescan(a, p) == [about |-> a, passed |-> p]
Left(s, e, r) == [status |-> s, edits |-> e, rescans |-> r]
FixResults ==
  {Left("success", "landed", {Rescan("own", TRUE)}),
   Left("success", "none", {Rescan("all", FALSE), Rescan("other", TRUE)}),
   Left("success", "failed", {Rescan("all", TRUE)}),
   Left("rolled_back", "landed", {Rescan("own", FALSE)}),
   Left("unknown", "none", {})}
=============================================================================

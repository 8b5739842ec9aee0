--------------------------- MODULE MCPackageReview ---------------------------
(* Instances of PackageReview for TLC. *)
EXTENDS PackageReview, TLC

CONSTANTS a, b, f, g, c1, c2

OwnFiles == (a :> f) @@ (b :> g)
SharedFile == (a :> f) @@ (b :> f)
=============================================================================

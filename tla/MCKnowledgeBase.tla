-------------------------- MODULE MCKnowledgeBase --------------------------
(* An instance of KnowledgeBase for TLC: two findings of one check and      *)
(* resource in two files, and one of another check of the same family.      *)
EXTENDS KnowledgeBase, TLC

CONSTANT r1

Issue(check, resource, file) ==
  [check |-> check, resource |-> resource, family |-> "exposure",
   file |-> file]
MCIssues == [a |-> Issue("S3", "bucket", "main.tf"),
             b |-> Issue("S3", "bucket", "logs.tf"),
             c |-> Issue("SG", "group", "main.tf")]

\* a table with entries captured earlier, each by a run of its own
Entry(i, source, conf, reused, succeeded) ==
  [check |-> MCIssues[i].check, resource |-> MCIssues[i].resource,
   family |-> "exposure", file |-> MCIssues[i].file, steps |-> r1,
   undo |-> r1, scan |-> MCIssues[i].file, conf |-> conf,
   source |-> source, reused |-> reused, succeeded |-> succeeded]
Finished(i, conf) ==
  [issue |-> i, steps |-> r1, ran |-> r1, scan |-> MCIssues[i].file,
   conf |-> conf, status |-> "success"]
Bound(r, f, w) == [runs |-> r, faults |-> f, rewrites |-> w]

MCSeeds ==
  {[kb |-> <<>>, done |-> <<>>, left |-> Bound(3, 0, 0)],
   [kb |-> <<>>, done |-> <<>>, left |-> Bound(2, 1, 1)],
   \* one that has failed twice
   [kb |-> <<Entry("a", 1, 90, 2, 0)>>, done |-> <<Finished("a", 90)>>,
    left |-> Bound(2, 1, 1)],
   \* one that worked once in ten replays, and a lesser one
   [kb |-> <<Entry("a", 1, 90, 10, 1), Entry("b", 2, 75, 0, 0)>>,
    done |-> <<Finished("a", 90), Finished("b", 75)>>,
    left |-> Bound(2, 1, 0)]}

WorkerSymmetry == Permutations(Workers)
=============================================================================

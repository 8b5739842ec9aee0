--------------------------- MODULE MCEnrichment ---------------------------
(* Instances of Enrichment for TLC. *)
EXTENDS Enrichment

Asset(keys, environment, exposure, tags) ==
  [keys |-> keys, environment |-> environment, criticality |-> 4,
   data |-> "internal", exposure |-> exposure, tags |-> tags]

\* two assets claim the same alias, one of them has the package
Shop == <<"name", "shop">>
Lodash == <<"sbom", "npm/lodash">>
MCAssets == {Asset({Shop}, "production", "public", 1),
             Asset({Shop, Lodash}, "sandbox", "internal", 0)}

\* a package finding with a CVE and a vector but no score, and one with the
\* score 0.0 that some prompts wrote, of version 3.0
MCGiven ==
  [a |-> [cve |-> "c1", keys |-> <<Lodash, Shop>>, severity |-> "High",
          score |-> None, version |-> None, vector |-> None,
          cwe |-> "CWE-79"],
   b |-> [cve |-> "c2", keys |-> <<Shop>>, severity |-> "Low",
          score |-> 0, version |-> 2, vector |-> 2, cwe |-> None]]
MCRaw == [b |-> {4}]
MCPoints == <<40, 60, 75, 88>>

Record(score, version, vector, av, cwe, primary) ==
  [score |-> score, version |-> version, vector |-> vector, av |-> av,
   cwe |-> cwe, primary |-> primary]
\* c1 awaits analysis first; c2 has only another source's metric
MCNvd ==
  [c1 |-> <<Record(None, None, None, None, "NVD-CWE-noinfo", TRUE),
            Record(75, 3, 3, "NETWORK", "CWE-79", TRUE)>>,
   c2 |-> <<Record(60, 2, 2, "PHYSICAL", "CWE-20", FALSE)>>]
MCEpss == [c1 |-> 100, c2 |-> 40]
MCKev == {"c2"}

Cwe(likelihood, tactics) == [likelihood |-> likelihood, tactics |-> tactics]
MCReleases ==
  <<"CWE-79" :> Cwe("High", {"execution"}) @@ "CWE-20" :> Cwe("Low", {}),
    "CWE-79" :> Cwe("Low", {"execution", "impact"})
    @@ "CWE-20" :> Cwe("Low", {})>>

\* what an execution is made of
Budget(j, r, n, f) == [jobs |-> j, refreshes |-> r, news |-> n, faults |-> f]
MCBudgets == {Budget(2, 0, 1, 0), Budget(1, 1, 0, 0), Budget(2, 0, 0, 1),
              Budget(0, 3, 1, 2)}

MCRuns == {{"a", "b"}}
=============================================================================

------------------------- MODULE MCEnrichmentCache -------------------------
EXTENDS EnrichmentCache, TLC
CONSTANTS c1, c2, b1, d1, pr, issue, html, n1, n2

MCKind == [u \in Url |-> CASE u = pr -> "pr" [] u = issue -> "issue" [] OTHER -> "other"]
MCSymmetry == Permutations(Caller)
=============================================================================

------------------------------ MODULE MCRecall ------------------------------
EXTENDS Recall
CONSTANTS p1, c1, c2, c3
MCKind == (p1 :> "profile") @@ (c1 :> "correction") @@ (c2 :> "correction") @@ (c3 :> "correction")
MCRank == (c1 :> 1) @@ (p1 :> 2) @@ (c2 :> 3) @@ (c3 :> 4)
MCWritten == (c2 :> 1) @@ (p1 :> 2) @@ (c1 :> 3) @@ (c3 :> 4)
=============================================================================

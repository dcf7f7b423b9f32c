------------------------- MODULE MCKnowledgeReview -------------------------
EXTENDS KnowledgeReview, TLC

CONSTANTS k1, k2, v1, v2, h1, h2

\* One key is told by callers and derived by clients, the other only told.
DerivedPairs == {<<k1, v1>>, <<k1, v2>>}

DerivedOnce == {<<k1, v1>>}

\* Handlers are interchangeable.
Symmetry == Permutations(Handlers)
=============================================================================

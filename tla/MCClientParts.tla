--------------------------- MODULE MCClientParts ---------------------------
(***************************************************************************)
(* Small instances of the client's components.                             *)
(***************************************************************************)
EXTENDS ClientParts, TLC

CONSTANTS p1, p2, r1, r2, a, b, f, g, c, d, v, w, x, s1, s2, s3, plan, code, done, read, test

MCFiles == <<f, g>>
MCCategoryOf == f :> c @@ g :> d
MCContents == {<< >>, <<v>>, <<v, w>>}
MCAgentOf == r1 :> a @@ r2 :> b
MCTopicOf == s1 :> x @@ s2 :> "missing" @@ s3 :> "empty"
MCServerOf == r1 :> a @@ r2 :> b
MCTransitions == {<<plan, code>>, <<code, done>>}
MCNeeds == plan :> {} @@ code :> {read} @@ done :> {test}
MCAllowedTools == plan :> {read} @@ code :> {read} @@ done :> {}
\* A loop, and an edge back to the start, change nothing.
MCGraphEdges == {e \in GraphNodes \X GraphNodes : e[1] # e[2] /\ e[2] # Start}

\* Bound: what two servers do that have one session is followed for one change.
MCSharedBound == doubled => changes < 2

\* Bound: an index is followed until two of its writers overlap, the memories on the host
\* until something disturbs them, and scores until flushes collide: of what comes then their
\* properties say nothing.
MCUndisturbed == ~crossed /\ ~disturbed /\ (collided => scored = << >>)

\* Two processes, two calls or two files that differ in nothing.
MCSymmetry == Permutations({p1, p2})
=============================================================================

---------------------------- MODULE GraphSearch ----------------------------
(***************************************************************************)
(* The searches on the import graph: what a change of a file affects.      *)
(*                                                                         *)
(* The property graph and the JSON index each have a search of their own   *)
(* over a queue: one marks a file when it joins the queue, the other when  *)
(* it leaves it.  The related files of the index come from a search over a *)
(* stack, cut at the same depth.                                           *)
(*                                                                         *)
(* An edge leads from a file to one that imports it.  The order in which a *)
(* search meets the edges of a file is that of the database or the file    *)
(* system, and left open.                                                  *)
(***************************************************************************)
EXTENDS Naturals, Sequences, FiniteSets, SequencesExt

CONSTANTS
  GraphNodes, GraphEdges,  \* the files, and the edges there may be
  Start,                   \* the file that changes
  MaxDepth                 \* how far to look

ASSUME GraphAssumption ==
  /\ IsFiniteSet(GraphNodes) /\ GraphEdges \subseteq GraphNodes \X GraphNodes
  /\ Start \in GraphNodes /\ MaxDepth \in Nat

VARIABLES
  edges,
  search,    \* which of the searches runs
  worklist,  \* <<file, depth>>, the next one first
  visited,
  affected   \* the result so far

graphVars == <<edges, search, worklist, visited, affected>>

Searches == {"impact", "index", "related"}

GraphInit ==
  /\ edges \in SUBSET GraphEdges
  /\ search \in Searches
  /\ worklist = <<<<Start, 0>>>>
  /\ visited = IF search = "impact" THEN {Start} ELSE {}
  /\ affected = {}

Entry == Head(worklist)
Node == Entry[1]
Depth == Entry[2]

Neighbours(n) == {m \in GraphNodes : <<n, m>> \in edges}

\* The files of a set as entries of one depth, in any order.
EntriesOf(S, depth) == {[i \in DOMAIN o |-> <<o[i], depth>>] : o \in SetToSeqs(S)}

\* impact_analysis: an entry at the limit is not followed, and a file joins once.
MarkWhenFound ==
  /\ search = "impact" /\ worklist # << >>
  /\ LET new == IF Depth >= MaxDepth THEN {} ELSE Neighbours(Node) \ visited IN
     /\ visited' = visited \union new /\ affected' = affected \union new
     /\ \E es \in EntriesOf(new, Depth + 1) : worklist' = Tail(worklist) \o es
  /\ UNCHANGED <<edges, search>>

\* Mutant: an entry at the limit is dropped too.
MutSkipped == Depth >= MaxDepth \/ Node \in visited

\* The other searches drop an entry beyond the limit and one visited before.
Skipped == Depth > MaxDepth \/ Node \in visited

Skip ==
  /\ search # "impact" /\ worklist # << >> /\ Skipped
  /\ worklist' = Tail(worklist)
  /\ UNCHANGED <<edges, search, visited, affected>>

Visit ==
  /\ worklist # << >> /\ ~Skipped
  /\ visited' = visited \union {Node}
  /\ affected' = affected \union ({Node} \ {Start})
  /\ UNCHANGED <<edges, search>>

\* impact_from_index: what is found joins the queue.
VisitFromQueue ==
  /\ search = "index" /\ Visit
  /\ \E es \in EntriesOf(Neighbours(Node) \ visited', Depth + 1) : worklist' = Tail(worklist) \o es

\* get_related, get_reverse_deps: what is found is looked at next.
VisitFromStack ==
  /\ search = "related" /\ Visit
  /\ \E es \in EntriesOf(Neighbours(Node) \ visited', Depth + 1) : worklist' = es \o Tail(worklist)

GraphNext == MarkWhenFound \/ Skip \/ VisitFromQueue \/ VisitFromStack

GraphSpec == GraphInit /\ [][GraphNext]_graphVars

(***************************************************************************)
(* Properties.                                                             *)
(***************************************************************************)

GraphTypeOK ==
  /\ edges \subseteq GraphEdges /\ search \in Searches
  /\ worklist \in Seq(GraphNodes \X Nat)
  /\ visited \subseteq GraphNodes /\ affected \subseteq GraphNodes

\* A walk along the edges from the start.
IsWalk(w) ==
  /\ w \in Seq(GraphNodes) /\ w # << >> /\ w[1] = Start
  /\ \A i \in 1..Len(w) - 1 : <<w[i], w[i + 1]>> \in edges

\* The files that a walk of so many steps, or fewer, leads to.
Within(depth) ==
  {n \in GraphNodes : \E l \in 1..depth + 1 : \E w \in [1..l -> GraphNodes] : IsWalk(w) /\ w[l] = n}

\* A search ends with files that are affected within the depth, whatever the graph and
\* the order of its edges, and one over a queue with all of them: neither a file found
\* at the limit first nor a cycle hides another (impact_analysis, impact_from_index).
\* The search over a stack may reach a file at the limit first and then pass it by when
\* it comes to it on a shorter way (get_related, get_reverse_deps).
SearchIsExact ==
  worklist = << >> => /\ affected \subseteq Within(MaxDepth) \ {Start}
                      /\ search # "related" => affected = Within(MaxDepth) \ {Start}
=============================================================================

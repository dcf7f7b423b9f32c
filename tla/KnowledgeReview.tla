-------------------------- MODULE KnowledgeReview --------------------------
(***************************************************************************)
(* The review queue of derived memory candidates, composed with the facts  *)
(* of KnowledgeFacts.  A confident candidate is promoted at once, a less   *)
(* confident one waits for a reviewer; either way its value becomes        *)
(* knowledge by RememberAsync, while its own row is another upsert.        *)
(*                                                                         *)
(* A candidate row is keyed by its promotion identity, which is derived    *)
(* from the source and the key and not from the value: a candidate derived *)
(* again takes the row of the earlier one.  A batch is a sequence of the   *)
(* requests modelled here.                                                 *)
(***************************************************************************)
EXTENDS KnowledgeFacts

CONSTANTS
  Derived,     \* candidates the clients derive: a key and a value
  NoJob        \* not a job: the handler does no review work

ASSUME DerivedAssumption == Derived \subseteq Keys \X Values

VARIABLES
  candidates,  \* the candidate row of each key that has one
  job          \* what each handler has yet to do for a candidate

\* History, read by properties only.
VARIABLES
  rejected,    \* values of each key that a reviewer turned down while queued
  written,     \* values that were ever written to each fact
  abandoned    \* keys of candidates whose handler stopped half-way

reviewVars == <<candidates, job, rejected, written, abandoned>>
vars == <<factVars, reviewVars>>

Candidates == [value: Values, status: {"pending_review", "auto_promoted", "accepted", "rejected"}]

\* First remember the value, then give the candidate its status.
Jobs == [stage: {"remember", "mark"}, key: Keys, value: Values,
         status: {"auto_promoted", "accepted", "rejected"}]

ASSUME NoJobAssumption == NoJob \notin Jobs

TypeOK ==
  /\ FactsTypeOK
  /\ DOMAIN candidates \subseteq Keys
  /\ candidates \in [DOMAIN candidates -> Candidates]
  /\ job \in [Handlers -> Jobs \union {NoJob}]
  /\ rejected \in [Keys -> SUBSET Values]
  /\ written \in [Keys -> SUBSET Values]
  /\ abandoned \subseteq Keys

Init ==
  /\ FactsInit
  /\ candidates = [k \in {} |-> {}]
  /\ job = [h \in Handlers |-> NoJob]
  /\ rejected = [k \in Keys |-> {}]
  /\ written = [k \in Keys |-> {}]
  /\ abandoned = {}

-----------------------------------------------------------------------------
Free(h) == job[h] = NoJob /\ Idle(h)

\* UpsertCandidateAsync: the whole row.
UpsertCandidate(k, v, status) ==
  candidates' = [j \in DOMAIN candidates \union {k} |->
    IF j = k THEN [value |-> v, status |-> status] ELSE candidates[j]]

\* IngestCandidatesAsync below the threshold of automatic promotion: whatever
\* became of the candidate before, it is queued.
IngestQueued(h, k, v) ==
  /\ Free(h) /\ Request
  /\ UpsertCandidate(k, v, "pending_review")
  /\ UNCHANGED <<rows, pending, today, outdated, lost, told, said, recalls,
                 job, rejected, written, abandoned>>

\* Mutant: the promoted candidate is recorded and its fact is not.
MutIngestOnlyMarks(h, k, v) ==
  /\ Free(h) /\ Request
  /\ UpsertCandidate(k, v, "auto_promoted")
  /\ UNCHANGED <<rows, pending, today, outdated, lost, told, said, recalls,
                 job, rejected, written, abandoned>>

\* At or above it the candidate is marked as promoted, then remembered.
IngestConfident(h, k, v) ==
  /\ Free(h) /\ Request
  /\ UpsertCandidate(k, v, "auto_promoted")
  /\ job' = [job EXCEPT ![h] = [stage |-> "remember", key |-> k, value |-> v,
                                status |-> "auto_promoted"]]
  /\ UNCHANGED <<rows, pending, today, outdated, lost, told, said, recalls,
                 rejected, written, abandoned>>

\* ReviewCandidateAsync loads the candidate; the decision is on what it loaded.
ReviewLoads(h, k, stage, status) ==
  /\ Free(h) /\ Request
  /\ k \in DOMAIN candidates
  /\ job' = [job EXCEPT ![h] = [stage |-> stage, key |-> k,
                                value |-> candidates[k].value, status |-> status]]
  /\ UNCHANGED <<rows, pending, today, outdated, lost, told, said, recalls, candidates,
                 rejected, written, abandoned>>

\* Mutant: an accepted candidate is marked, and never remembered.
MutAcceptOnlyMarks(h, k) == ReviewLoads(h, k, "mark", "accepted")

\* Mutant: the decision is stored as the caller spelled it.
MutRejectAsSpelled(h, k) == ReviewLoads(h, k, "mark", "reject")

Accept(h, k) == ReviewLoads(h, k, "remember", "accepted")
Reject(h, k) == ReviewLoads(h, k, "mark", "rejected")

\* The read half of RememberAsync, on behalf of a candidate.
RememberCandidate(h) ==
  /\ job[h] # NoJob /\ job[h].stage = "remember"
  /\ RememberReads(h, job[h].key, job[h].value)
  /\ job' = [job EXCEPT ![h] = IF @.status = "accepted" THEN [@ EXCEPT !.stage = "mark"]
                               ELSE NoJob]
  /\ UNCHANGED <<requests, candidates, rejected, written, abandoned>>

\* The loaded candidate is written back with the decision.
MarkReviewed(h) ==
  LET k == job[h].key IN
  /\ job[h] # NoJob /\ job[h].stage = "mark" /\ Idle(h)
  /\ UpsertCandidate(k, job[h].value, job[h].status)
  /\ job' = [job EXCEPT ![h] = NoJob]
  /\ rejected' = IF /\ job[h].status = "rejected"
                    /\ k \in DOMAIN candidates /\ candidates[k].status = "pending_review"
                   THEN [rejected EXCEPT ![k] = @ \union {job[h].value}] ELSE rejected
  /\ UNCHANGED <<factVars, written, abandoned>>

\* The write half of any operation on facts.
WriteFact(h, k) ==
  /\ WriteBack(h, k)
  /\ written' = [written EXCEPT ![k] = @ \union {Head(pending[h][k]).value}]
  /\ UNCHANGED <<candidates, job, rejected, abandoned>>

\* The request is cancelled or times out, or the host stops.
Stop(h) ==
  /\ ~ Free(h)
  /\ \/ HandlerStops(h)
     \/ Idle(h) /\ UNCHANGED factVars
  /\ job' = [job EXCEPT ![h] = NoJob]
  /\ abandoned' = abandoned \union {k \in Keys : pending[h][k] # << >>}
                            \union (IF job[h] = NoJob THEN {} ELSE {job[h].key})
  /\ UNCHANGED <<candidates, rejected, written>>

Work(h) ==
  \/ \E d \in Derived : IngestQueued(h, d[1], d[2]) \/ IngestConfident(h, d[1], d[2])
  \/ \E k \in Keys : Accept(h, k) \/ Reject(h, k)
  \/ RememberCandidate(h)
  \/ MarkReviewed(h)
  \/ \E k \in Keys : WriteFact(h, k)
  \/ Stop(h)
  \/ Free(h) /\ FactsRequest(h) /\ UNCHANGED reviewVars

Next ==
  \/ \E h \in Handlers : Work(h)
  \/ FactsTable /\ UNCHANGED reviewVars

Spec == Init /\ [][Next]_vars

-----------------------------------------------------------------------------
(***************************************************************************)
(* Properties.                                                             *)
(***************************************************************************)

\* A candidate is shown as accepted only once its value has been written to
\* knowledge, wherever requests overlap or stop.
AcceptedIsKnowledge ==
  \A k \in DOMAIN candidates :
    candidates[k].status = "accepted" => candidates[k].value \in written[k]

\* Handler h is about to write what candidate k says.
Promotes(h, k) ==
  \/ /\ job[h] # NoJob /\ job[h].stage = "remember"
     /\ job[h].key = k /\ job[h].value = candidates[k].value
  \/ pending[h][k] # << >> /\ Head(pending[h][k]).value = candidates[k].value

\* A candidate shown as promoted is knowledge, or is about to be, or its
\* handler stopped between the two writes.
PromotedIsKnowledge ==
  \A k \in DOMAIN candidates :
    candidates[k].status = "auto_promoted" =>
      \/ candidates[k].value \in written[k]
      \/ k \in abandoned
      \/ \E h \in Handlers : Promotes(h, k)

\* A candidate that a reviewer turned down is kept out of knowledge.
RejectedStaysOut == \A k \in Keys : rejected[k] \intersect Recorded(k) = {}
=============================================================================

----------------------- MODULE KnowledgeReview_proofs -----------------------
(***************************************************************************)
(* Proofs about KnowledgeReview for any number of keys, values and         *)
(* concurrent requests.  What concerns the fact store alone follows from   *)
(* the lemmas of KnowledgeFacts_proofs, as every step is a step it admits. *)
(***************************************************************************)
EXTENDS KnowledgeReview, KnowledgeFacts_proofs

LEMMA NextIsStoreStep ==
  ASSUME TypeOK, CountersInv, [Next]_vars
  PROVE  StoreStep
<1> USE DEF StoreStep
<1>1. ASSUME NEW h \in Handlers, Work(h) PROVE StoreStep
  <2>1. ASSUME NEW d \in Derived, IngestQueued(h, d[1], d[2]) \/ IngestConfident(h, d[1], d[2])
        PROVE  StoreStep
    BY <2>1 DEF IngestQueued, IngestConfident
  <2>2. ASSUME NEW k \in Keys, Accept(h, k) \/ Reject(h, k) PROVE StoreStep
    BY <2>2 DEF Accept, Reject, ReviewLoads
  <2>3. CASE RememberCandidate(h)
    <3>1. job[h].key \in Keys /\ job[h].value \in Values
      BY <2>3 DEF RememberCandidate, TypeOK, Jobs
    <3>2. RememberReads(h, job[h].key, job[h].value)
      BY <2>3 DEF RememberCandidate
    <3> QED
      BY <3>1, <3>2, RememberIsRead DEF TypeOK
  <2>4. CASE MarkReviewed(h)
    BY <2>4 DEF MarkReviewed, factVars
  <2>5. ASSUME NEW k \in Keys, WriteFact(h, k) PROVE StoreStep
    BY <2>5 DEF WriteFact
  <2>6. CASE Stop(h)
    BY <2>6 DEF Stop, factVars
  <2>7. CASE FactsRequest(h)
    BY <2>7, RequestIsRead DEF TypeOK
  <2> QED
    BY <1>1, <2>1, <2>2, <2>3, <2>4, <2>5, <2>6, <2>7 DEF Work
<1>2. CASE FactsTable
  BY <1>2, TableStep DEF TimePasses, TypeOK
<1>3. CASE UNCHANGED vars
  BY <1>3 DEF vars, factVars
<1> QED
  BY <1>1, <1>2, <1>3 DEF Next

-----------------------------------------------------------------------------
(***************************************************************************)
(* The review queue.                                                       *)
(***************************************************************************)

ReviewTypeOK ==
  /\ DOMAIN candidates \subseteq Keys
  /\ candidates \in [DOMAIN candidates -> Candidates]
  /\ job \in [Handlers -> Jobs \union {NoJob}]
  /\ rejected \in [Keys -> SUBSET Values]
  /\ written \in [Keys -> SUBSET Values]
  /\ abandoned \subseteq Keys

\* A handler that has only the mark left to do decided accept or reject, and
\* an accepted value is written, or is the one row the handler still holds.
MarkInv ==
  \A h \in Handlers : job[h] # NoJob /\ job[h].stage = "mark" =>
    /\ job[h].status # "auto_promoted"
    /\ job[h].status = "accepted" =>
         \/ job[h].value \in written[job[h].key]
         \/ /\ pending[h][job[h].key] # << >>
            /\ Head(pending[h][job[h].key]).value = job[h].value

ReviewInv == AcceptedIsKnowledge /\ PromotedIsKnowledge /\ MarkInv

IInv == TypeOK /\ CountersInv /\ RecordInv /\ ReviewInv

LEMMA UpsertCandidateType ==
  ASSUME ReviewTypeOK, NEW k \in Keys, NEW v \in Values,
         NEW s \in {"pending_review", "auto_promoted", "accepted", "rejected"},
         UpsertCandidate(k, v, s)
  PROVE  /\ DOMAIN candidates' = DOMAIN candidates \union {k}
         /\ DOMAIN candidates' \subseteq Keys
         /\ candidates' \in [DOMAIN candidates' -> Candidates]
         /\ candidates'[k].value = v /\ candidates'[k].status = s
         /\ \A j \in DOMAIN candidates : j # k => candidates'[j] = candidates[j]
<1>1. [value |-> v, status |-> s] \in Candidates
  BY DEF Candidates
<1> QED
  BY <1>1 DEF UpsertCandidate, ReviewTypeOK

LEMMA JobFacts ==
  ASSUME ReviewTypeOK, NEW h \in Handlers, job[h] # NoJob
  PROVE  /\ job[h].key \in Keys /\ job[h].value \in Values
         /\ job[h].stage \in {"remember", "mark"}
         /\ job[h].status \in {"auto_promoted", "accepted", "rejected"}
  BY DEF ReviewTypeOK, Jobs

LEMMA ReviewTypeStep ==
  ASSUME TypeOK, [Next]_vars
  PROVE  ReviewTypeOK'
<1>0. ReviewTypeOK
  BY DEF TypeOK, ReviewTypeOK
<1>1. ASSUME NEW h \in Handlers, Work(h) PROVE ReviewTypeOK'
  <2>1. ASSUME NEW d \in Derived, IngestQueued(h, d[1], d[2]) PROVE ReviewTypeOK'
    <3>1. d[1] \in Keys /\ d[2] \in Values
      BY DerivedAssumption
    <3> QED
      BY <1>0, <2>1, <3>1, UpsertCandidateType DEF IngestQueued, ReviewTypeOK
  <2>2. ASSUME NEW d \in Derived, IngestConfident(h, d[1], d[2]) PROVE ReviewTypeOK'
    <3>1. d[1] \in Keys /\ d[2] \in Values
      BY DerivedAssumption
    <3>2. [stage |-> "remember", key |-> d[1], value |-> d[2], status |-> "auto_promoted"]
            \in Jobs
      BY <3>1 DEF Jobs
    <3> QED
      BY <1>0, <2>2, <3>1, <3>2, UpsertCandidateType DEF IngestConfident, ReviewTypeOK
  <2>3. ASSUME NEW k \in Keys, Accept(h, k) \/ Reject(h, k) PROVE ReviewTypeOK'
    <3>1. k \in DOMAIN candidates /\ candidates[k].value \in Values
      BY <1>0, <2>3 DEF Accept, Reject, ReviewLoads, ReviewTypeOK, Candidates
    <3>2. /\ [stage |-> "remember", key |-> k, value |-> candidates[k].value,
              status |-> "accepted"] \in Jobs
          /\ [stage |-> "mark", key |-> k, value |-> candidates[k].value,
              status |-> "rejected"] \in Jobs
      BY <3>1 DEF Jobs
    <3> QED
      BY <1>0, <2>3, <3>2 DEF Accept, Reject, ReviewLoads, ReviewTypeOK
  <2>4. CASE RememberCandidate(h)
    <3>1. job[h] \in Jobs
      BY <1>0, <2>4 DEF RememberCandidate, ReviewTypeOK
    <3>2. [job[h] EXCEPT !.stage = "mark"] \in Jobs
      BY <3>1 DEF Jobs
    <3> QED
      BY <1>0, <2>4, <3>2 DEF RememberCandidate, ReviewTypeOK
  <2>5. CASE MarkReviewed(h)
    <3>1. job[h].key \in Keys /\ job[h].value \in Values
          /\ job[h].status \in {"auto_promoted", "accepted", "rejected"}
      BY <1>0, <2>5, JobFacts DEF MarkReviewed
    <3>2. /\ DOMAIN candidates' \subseteq Keys
          /\ candidates' \in [DOMAIN candidates' -> Candidates]
      BY <1>0, <2>5, <3>1, UpsertCandidateType DEF MarkReviewed
    <3> QED
      BY <1>0, <2>5, <3>1, <3>2 DEF MarkReviewed, ReviewTypeOK
  <2>6. ASSUME NEW k \in Keys, WriteFact(h, k) PROVE ReviewTypeOK'
    <3>1. Head(pending[h][k]) \in Rows
      BY <2>6, HeldRows DEF WriteFact, WriteBack, TypeOK
    <3>2. Head(pending[h][k]).value \in Values
      BY <3>1 DEF Rows
    <3> QED
      BY <1>0, <2>6, <3>2 DEF WriteFact, ReviewTypeOK
  <2>7. CASE Stop(h)
    <3>1. job[h] # NoJob => job[h].key \in Keys
      BY <1>0, JobFacts
    <3> QED
      BY <1>0, <2>7, <3>1 DEF Stop, ReviewTypeOK
  <2>8. CASE UNCHANGED reviewVars
    BY <1>0, <2>8 DEF reviewVars, ReviewTypeOK
  <2> QED
    BY <1>1, <2>1, <2>2, <2>3, <2>4, <2>5, <2>6, <2>7, <2>8 DEF Work
<1>2. CASE UNCHANGED reviewVars
  BY <1>0, <1>2 DEF reviewVars, ReviewTypeOK
<1> QED
  BY <1>1, <1>2 DEF Next, vars

LEMMA ClockStep ==
  ASSUME TypeOK, [Next]_vars
  PROVE  today' \in Nat /\ requests' \in Nat
<1>0. today \in Nat /\ requests \in Nat
  BY DEF TypeOK, FactsTypeOK
<1>1. ASSUME NEW h \in Handlers, Work(h) PROVE today' \in Nat /\ requests' \in Nat
  <2>1. ASSUME NEW d \in Derived, IngestQueued(h, d[1], d[2]) \/ IngestConfident(h, d[1], d[2])
        PROVE  today' \in Nat /\ requests' \in Nat
    BY <1>0, <2>1 DEF IngestQueued, IngestConfident, Request
  <2>2. ASSUME NEW k \in Keys, Accept(h, k) \/ Reject(h, k)
        PROVE  today' \in Nat /\ requests' \in Nat
    BY <1>0, <2>2 DEF Accept, Reject, ReviewLoads, Request
  <2>3. CASE RememberCandidate(h)
    BY <1>0, <2>3 DEF RememberCandidate, RememberReads, Computes
  <2>4. CASE MarkReviewed(h)
    BY <1>0, <2>4 DEF MarkReviewed, factVars
  <2>5. ASSUME NEW k \in Keys, WriteFact(h, k) PROVE today' \in Nat /\ requests' \in Nat
    BY <1>0, <2>5 DEF WriteFact, WriteBack
  <2>6. CASE Stop(h)
    BY <1>0, <2>6 DEF Stop, HandlerStops, factVars
  <2>7. CASE FactsRequest(h)
    BY <1>0, <2>7 DEF FactsRequest, Remember, RememberReads, RecallReads, UpkeepReads,
                      TriageReads, Computes, Request
  <2> QED
    BY <1>1, <2>1, <2>2, <2>3, <2>4, <2>5, <2>6, <2>7 DEF Work
<1>2. CASE FactsTable
  <2>1. ASSUME NEW k \in Keys, Remove(k) PROVE today' \in Nat /\ requests' \in Nat
    BY <1>0, <2>1 DEF Remove, Delete, Request
  <2>2. CASE RemoveExpired
    <3>1. requests' = requests /\ \E S : Delete(S)
      BY <2>2 DEF RemoveExpired
    <3> QED
      BY <1>0, <3>1 DEF Delete
  <2>3. CASE TimePasses
    BY <1>0, <2>3 DEF TimePasses
  <2> QED
    BY <1>2, <2>1, <2>2, <2>3 DEF FactsTable
<1>3. CASE UNCHANGED vars
  BY <1>0, <1>3 DEF vars, factVars
<1> QED
  BY <1>1, <1>2, <1>3 DEF Next

LEMMA TypeStep ==
  ASSUME TypeOK, CountersInv, [Next]_vars
  PROVE  TypeOK' /\ StoreType'
<1>1. StoreType'
  BY NextIsStoreStep, StoreTypeStep DEF TypeOK
<1>2. ReviewTypeOK' /\ today' \in Nat /\ requests' \in Nat
  BY ReviewTypeStep, ClockStep
<1> QED
  BY <1>1, <1>2 DEF TypeOK, FactsTypeOK, ReviewTypeOK, StoreType

\* Read steps, the write of another handler and deletions leave what handler h
\* holds alone; only h itself reads, writes or stops.
LEMMA MarkStep ==
  ASSUME TypeOK, MarkInv, [Next]_vars
  PROVE  MarkInv'
<1>0. ReviewTypeOK /\ pending \in [Handlers -> [Keys -> Seq(Rows)]]
  BY DEF TypeOK, ReviewTypeOK, FactsTypeOK
<1> DEFINE Mark(h) == job[h] # NoJob /\ job[h].stage = "mark" =>
             /\ job[h].status # "auto_promoted"
             /\ job[h].status = "accepted" =>
                  \/ job[h].value \in written[job[h].key]
                  \/ /\ pending[h][job[h].key] # << >>
                     /\ Head(pending[h][job[h].key]).value = job[h].value
<1>a. \A h \in Handlers : Mark(h)
  BY DEF MarkInv
<1>b. ASSUME NEW g \in Handlers, job'[g] = job[g], pending'[g] = pending[g],
             \A k \in Keys : written[k] \subseteq written'[k]
      PROVE  Mark(g)'
  BY <1>0, <1>a, <1>b, JobFacts
<1>1. ASSUME NEW h \in Handlers, Work(h) PROVE MarkInv'
  <2> SUFFICES ASSUME NEW g \in Handlers PROVE Mark(g)'
    BY DEF MarkInv
  <2>1. ASSUME NEW d \in Derived, IngestQueued(h, d[1], d[2]) PROVE Mark(g)'
    BY <1>b, <2>1 DEF IngestQueued
  <2>2. ASSUME NEW d \in Derived, IngestConfident(h, d[1], d[2]) PROVE Mark(g)'
    <3>1. CASE g = h
      BY <1>0, <2>2, <3>1 DEF IngestConfident, ReviewTypeOK
    <3>2. CASE g # h
      BY <1>0, <1>b, <2>2, <3>2 DEF IngestConfident, ReviewTypeOK
    <3> QED
      BY <3>1, <3>2
  <2>3. ASSUME NEW k \in Keys, Accept(h, k) \/ Reject(h, k) PROVE Mark(g)'
    <3>1. CASE g = h
      BY <1>0, <2>3, <3>1 DEF Accept, Reject, ReviewLoads, ReviewTypeOK
    <3>2. CASE g # h
      BY <1>0, <1>b, <2>3, <3>2 DEF Accept, Reject, ReviewLoads, ReviewTypeOK
    <3> QED
      BY <3>1, <3>2
  <2>4. CASE RememberCandidate(h)
    <3> DEFINE k == job[h].key
               v == job[h].value
               row == Remembered(k, v)
    <3>1. k \in Keys /\ v \in Values /\ job[h] \in Jobs
      BY <1>0, <2>4, JobFacts DEF RememberCandidate, ReviewTypeOK
    <3>2. /\ pending' = [pending EXCEPT ![h] = [NothingPending EXCEPT ![k] = <<row>>]]
          /\ job' = [job EXCEPT ![h] = IF @.status = "accepted"
                        THEN [@ EXCEPT !.stage = "mark"] ELSE NoJob]
          /\ written' = written
      BY <2>4 DEF RememberCandidate, RememberReads, Computes
    <3>3. CASE g = h
      <4>1. row.value = v
        <5>1. k \in stored => rows[k] \in Rows
          BY RowFacts DEF TypeOK
        <5>2. CASE k \in stored
          BY <5>1, <5>2 DEF Remembered, Rows
        <5>3. CASE k \notin stored
          BY <5>3 DEF Remembered
        <5> QED
          BY <5>2, <5>3
      <4>2. pending'[h][k] = <<row>>
        BY <1>0, <3>1, <3>2 DEF NothingPending
      <4>3. <<row>> # << >> /\ Head(<<row>>) = row
        OBVIOUS
      <4>4. job'[h] # NoJob =>
              /\ job'[h].status = "accepted" /\ job'[h].key = k /\ job'[h].value = v
        BY <1>0, <3>1, <3>2 DEF ReviewTypeOK, Jobs
      <4> HIDE DEF row, k, v
      <4> QED
        BY <3>3, <4>1, <4>2, <4>3, <4>4
    <3>4. CASE g # h
      BY <1>0, <1>b, <3>2, <3>4 DEF ReviewTypeOK
    <3> QED
      BY <3>3, <3>4
  <2>5. CASE MarkReviewed(h)
    <3>1. CASE g = h
      BY <1>0, <2>5, <3>1 DEF MarkReviewed, ReviewTypeOK
    <3>2. CASE g # h
      BY <1>0, <1>b, <2>5, <3>2 DEF MarkReviewed, ReviewTypeOK, factVars
    <3> QED
      BY <3>1, <3>2
  <2>6. ASSUME NEW k \in Keys, WriteFact(h, k) PROVE Mark(g)'
    <3>1. /\ pending' = [pending EXCEPT ![h][k] = Tail(@)] /\ job' = job
          /\ written' = [written EXCEPT ![k] = @ \union {Head(pending[h][k]).value}]
      BY <2>6 DEF WriteFact, WriteBack
    <3>2. \A j \in Keys : written[j] \subseteq written'[j]
      BY <1>0, <3>1 DEF ReviewTypeOK
    <3>3. CASE g # h
      BY <1>0, <1>b, <3>1, <3>2, <3>3
    <3>4. CASE g = h
      <4>1. SUFFICES ASSUME job[h] # NoJob, job[h].stage = "mark", job[h].status = "accepted"
                     PROVE  \/ job[h].value \in written'[job[h].key]
                            \/ /\ pending'[h][job[h].key] # << >>
                               /\ Head(pending'[h][job[h].key]).value = job[h].value
        BY <1>a, <3>1, <3>4
      <4>2. job[h].key \in Keys
        BY <1>0, <4>1, JobFacts
      <4>3. CASE job[h].value \in written[job[h].key]
        BY <3>2, <4>2, <4>3
      <4>4. CASE /\ pending[h][job[h].key] # << >>
                 /\ Head(pending[h][job[h].key]).value = job[h].value
        <5>1. CASE job[h].key = k
          BY <1>0, <3>1, <4>2, <4>4, <5>1 DEF ReviewTypeOK
        <5>2. CASE job[h].key # k
          BY <1>0, <3>1, <4>2, <4>4, <5>2
        <5> QED
          BY <5>1, <5>2
      <4> QED
        BY <1>a, <4>1, <4>3, <4>4
    <3> QED
      BY <3>3, <3>4
  <2>7. CASE Stop(h)
    <3>1. CASE g = h
      BY <1>0, <2>7, <3>1 DEF Stop, ReviewTypeOK
    <3>2. CASE g # h
      BY <1>0, <1>b, <2>7, <3>2 DEF Stop, HandlerStops, ReviewTypeOK, factVars
    <3> QED
      BY <3>1, <3>2
  <2>8. CASE Free(h) /\ FactsRequest(h) /\ UNCHANGED reviewVars
    <3>1. job' = job /\ written' = written
      BY <2>8 DEF reviewVars
    <3>2. CASE g = h
      BY <2>8, <3>1, <3>2 DEF Free
    <3>3. CASE g # h
      <4>1. pending'[g] = pending[g]
        BY <1>0, <2>8, <3>3 DEF FactsRequest, Remember, RememberReads, RecallReads,
                                UpkeepReads, TriageReads, Computes
      <4> QED
        BY <1>b, <3>1, <4>1
    <3> QED
      BY <3>2, <3>3
  <2> QED
    BY <1>1, <2>1, <2>2, <2>3, <2>4, <2>5, <2>6, <2>7, <2>8 DEF Work
<1>2. CASE FactsTable /\ UNCHANGED reviewVars
  <2>1. pending' = pending
    BY <1>2, TableStep DEF Delete, TimePasses, TypeOK
  <2> QED
    BY <1>b, <1>2, <2>1 DEF reviewVars, MarkInv
<1>3. CASE UNCHANGED vars
  BY <1>b, <1>3 DEF vars, factVars, reviewVars, MarkInv
<1> QED
  BY <1>1, <1>2, <1>3 DEF Next

\* Steps that write no candidate row only ever add to what was written.
LEMMA WrittenGrows ==
  ASSUME TypeOK, [Next]_vars
  PROVE  \A k \in Keys : written[k] \subseteq written'[k]
<1>0. written \in [Keys -> SUBSET Values]
  BY DEF TypeOK
<1>1. ASSUME NEW h \in Handlers, Work(h) PROVE \A k \in Keys : written[k] \subseteq written'[k]
  <2>1. ASSUME NEW j \in Keys, WriteFact(h, j)
        PROVE  \A k \in Keys : written[k] \subseteq written'[k]
    BY <1>0, <2>1 DEF WriteFact
  <2>2. CASE written' = written
    BY <2>2
  <2> QED
    BY <1>1, <2>1, <2>2 DEF Work, IngestQueued, IngestConfident, Accept, Reject, ReviewLoads,
       RememberCandidate, MarkReviewed, Stop, reviewVars
<1> QED
  BY <1>1 DEF Next, vars, reviewVars

LEMMA AcceptedStep ==
  ASSUME TypeOK, MarkInv, AcceptedIsKnowledge, [Next]_vars
  PROVE  AcceptedIsKnowledge'
<1>0. ReviewTypeOK
  BY DEF TypeOK, ReviewTypeOK
<1>w. \A k \in Keys : written[k] \subseteq written'[k]
  BY WrittenGrows
<1>a. ASSUME candidates' = candidates PROVE AcceptedIsKnowledge'
  BY <1>0, <1>w, <1>a DEF AcceptedIsKnowledge, ReviewTypeOK
<1>b. ASSUME NEW k \in Keys, NEW v \in Values,
             NEW s \in {"pending_review", "auto_promoted", "accepted", "rejected"},
             UpsertCandidate(k, v, s), s = "accepted" => v \in written'[k]
      PROVE  AcceptedIsKnowledge'
  <2>1. /\ DOMAIN candidates' = DOMAIN candidates \union {k}
        /\ candidates'[k].value = v /\ candidates'[k].status = s
        /\ \A j \in DOMAIN candidates : j # k => candidates'[j] = candidates[j]
    <3>1. /\ k \in Keys /\ v \in Values /\ UpsertCandidate(k, v, s)
          /\ s \in {"pending_review", "auto_promoted", "accepted", "rejected"}
      BY <1>b
    <3> QED
      BY <1>0, <3>1 DEF UpsertCandidate, ReviewTypeOK
  <2>2. DOMAIN candidates \subseteq Keys
    BY <1>0 DEF ReviewTypeOK
  <2> QED
    BY <1>w, <1>b, <2>1, <2>2 DEF AcceptedIsKnowledge
<1>1. ASSUME NEW h \in Handlers, Work(h) PROVE AcceptedIsKnowledge'
  <2>1. ASSUME NEW d \in Derived, IngestQueued(h, d[1], d[2]) \/ IngestConfident(h, d[1], d[2])
        PROVE  AcceptedIsKnowledge'
    <3>1. d[1] \in Keys /\ d[2] \in Values
      BY DerivedAssumption
    <3> QED
      BY <1>b, <2>1, <3>1 DEF IngestQueued, IngestConfident
  <2>2. CASE MarkReviewed(h)
    <3>1. /\ job[h].key \in Keys /\ job[h].value \in Values
          /\ job[h].status \in {"auto_promoted", "accepted", "rejected"}
      BY <1>0, <2>2, JobFacts DEF MarkReviewed
    <3>2. pending[h][job[h].key] = << >>
      BY <2>2, <3>1 DEF MarkReviewed, Idle, NothingPending
    <3>3. job[h].status = "accepted" => job[h].value \in written[job[h].key]
      BY <2>2, <3>2 DEF MarkReviewed, MarkInv
    <3> QED
      BY <1>b, <1>w, <2>2, <3>1, <3>3 DEF MarkReviewed
  <2>3. CASE candidates' = candidates
    BY <1>a, <2>3
  <2> QED
    BY <1>1, <2>1, <2>2, <2>3 DEF Work, Accept, Reject, ReviewLoads, RememberCandidate,
       WriteFact, Stop, reviewVars
<1> QED
  BY <1>1, <1>a DEF Next, vars, reviewVars

LEMMA PromotedStep ==
  ASSUME TypeOK, MarkInv, PromotedIsKnowledge, [Next]_vars
  PROVE  PromotedIsKnowledge'
<1>0. ReviewTypeOK /\ pending \in [Handlers -> [Keys -> Seq(Rows)]]
  BY DEF TypeOK, ReviewTypeOK, FactsTypeOK
<1>w. \A k \in Keys : written[k] \subseteq written'[k]
  BY WrittenGrows
<1> DEFINE Owed(h, k, v) ==
             \/ /\ job[h] # NoJob /\ job[h].stage = "remember"
                /\ job[h].key = k /\ job[h].value = v
             \/ pending[h][k] # << >> /\ Head(pending[h][k]).value = v
           Safe(k, v) == \/ v \in written[k]
                         \/ k \in abandoned
                         \/ \E h \in Handlers : Owed(h, k, v)
<1>a. \A k \in DOMAIN candidates :
        candidates[k].status = "auto_promoted" => Safe(k, candidates[k].value)
  BY DEF PromotedIsKnowledge, Promotes
<1>b. ASSUME \A k \in DOMAIN candidates', v \in Values :
               candidates'[k].status = "auto_promoted" /\ v = candidates'[k].value
                 => Safe(k, v)',
             \A k \in DOMAIN candidates' : candidates'[k].value \in Values
      PROVE  PromotedIsKnowledge'
  BY <1>b DEF PromotedIsKnowledge, Promotes
<1>t. \A k \in DOMAIN candidates : k \in Keys /\ candidates[k].value \in Values
  BY <1>0 DEF ReviewTypeOK, Candidates
<1>c. ASSUME candidates' = candidates,
             \A k \in Keys, v \in Values : Safe(k, v) => Safe(k, v)'
      PROVE  PromotedIsKnowledge'
  <2>1. \A k \in DOMAIN candidates : candidates[k].status = "auto_promoted"
          => Safe(k, candidates[k].value)'
    <3> SUFFICES ASSUME NEW k \in DOMAIN candidates, candidates[k].status = "auto_promoted",
                        NEW v \in Values, v = candidates[k].value
                 PROVE  Safe(k, v)'
      BY <1>c, <1>t
    <3> QED
      BY <1>a, <1>c, <1>t
  <2> QED
    BY <1>b, <1>c, <1>t, <2>1
<1>d. ASSUME NEW j \in Keys, NEW w \in Values,
             NEW s \in {"pending_review", "auto_promoted", "accepted", "rejected"},
             UpsertCandidate(j, w, s),
             s = "auto_promoted" => Safe(j, w)',
             \A k \in Keys, v \in Values : Safe(k, v) => Safe(k, v)'
      PROVE  PromotedIsKnowledge'
  <2>1. /\ j \in Keys /\ w \in Values /\ UpsertCandidate(j, w, s)
        /\ s \in {"pending_review", "auto_promoted", "accepted", "rejected"}
    BY <1>d
  <2>2. /\ DOMAIN candidates' = DOMAIN candidates \union {j}
        /\ candidates'[j].value = w /\ candidates'[j].status = s
        /\ \A k \in DOMAIN candidates : k # j => candidates'[k] = candidates[k]
    BY <1>0, <2>1 DEF UpsertCandidate, ReviewTypeOK
  <2>3. \A k \in DOMAIN candidates' : candidates'[k].value \in Values
    BY <1>t, <2>2
  <2>4. ASSUME NEW k \in DOMAIN candidates', NEW v \in Values,
               candidates'[k].status = "auto_promoted", v = candidates'[k].value
        PROVE  Safe(k, v)'
    <3>1. CASE k = j
      BY <1>d, <2>2, <2>4, <3>1
    <3>2. CASE k # j
      <4>1. k \in DOMAIN candidates /\ candidates[k] = candidates'[k]
        BY <2>2, <3>2
      <4>2. k \in Keys /\ Safe(k, v)
        BY <1>a, <1>t, <2>4, <4>1
      <4> QED
        BY <1>d, <4>2
    <3> QED
      BY <3>1, <3>2
  <2> QED
    BY <1>b, <2>3, <2>4
<1>e. ASSUME pending' = pending, abandoned' = abandoned, written' = written,
             NEW h \in Handlers, job[h] = NoJob \/ job[h].stage = "mark",
             \A g \in Handlers : g # h => job'[g] = job[g]
      PROVE  \A k \in Keys, v \in Values : Safe(k, v) => Safe(k, v)'
  <2>1. \A g \in Handlers, k \in Keys, v \in Values : Owed(g, k, v) => Owed(g, k, v)'
    BY <1>e
  <2> HIDE DEF Owed
  <2> QED
    BY <1>e, <2>1
<1>f. ASSUME NEW h \in Handlers, Free(h) \/ pending' = pending,
             \A g \in Handlers : g # h => pending'[g] = pending[g],
             UNCHANGED <<job, abandoned, written>>
      PROVE  \A k \in Keys, v \in Values : Safe(k, v) => Safe(k, v)'
  <2>1. \A k \in Keys : Free(h) => pending[h][k] = << >>
    BY DEF Free, Idle, NothingPending
  <2>2. \A g \in Handlers, k \in Keys, v \in Values : Owed(g, k, v) => Owed(g, k, v)'
    BY <1>f, <2>1
  <2> HIDE DEF Owed
  <2> QED
    BY <1>f, <2>2
<1>1. ASSUME NEW h \in Handlers, Work(h) PROVE PromotedIsKnowledge'
  <2>1. ASSUME NEW d \in Derived, IngestQueued(h, d[1], d[2]) PROVE PromotedIsKnowledge'
    <3>1. d[1] \in Keys /\ d[2] \in Values
      BY DerivedAssumption
    <3>2. \A k \in Keys, v \in Values : Safe(k, v) => Safe(k, v)'
      BY <2>1 DEF IngestQueued
    <3> HIDE DEF Safe
    <3> QED
      BY <1>d, <2>1, <3>1, <3>2 DEF IngestQueued
  <2>2. ASSUME NEW d \in Derived, IngestConfident(h, d[1], d[2]) PROVE PromotedIsKnowledge'
    <3>1. d[1] \in Keys /\ d[2] \in Values
      BY DerivedAssumption
    <3>2. \A k \in Keys, v \in Values : Safe(k, v) => Safe(k, v)'
      <4> HIDE DEF Safe
      <4> QED
        BY <1>0, <1>e, <2>2 DEF IngestConfident, Free, ReviewTypeOK
    <3>3. job'[h] = [stage |-> "remember", key |-> d[1], value |-> d[2],
                     status |-> "auto_promoted"]
      BY <1>0, <2>2 DEF IngestConfident, ReviewTypeOK
    <3>4. job'[h] \in Jobs /\ job'[h] # NoJob
      BY <3>1, <3>3, NoJobAssumption DEF Jobs
    <3>5. Safe(d[1], d[2])'
      BY <3>3, <3>4
    <3> HIDE DEF Safe
    <3> QED
      BY <1>d, <2>2, <3>1, <3>2, <3>5 DEF IngestConfident
  <2>3. ASSUME NEW k \in Keys, Accept(h, k) \/ Reject(h, k) PROVE PromotedIsKnowledge'
    <3> HIDE DEF Safe
    <3> QED
      BY <1>0, <1>c, <1>e, <2>3 DEF Accept, Reject, ReviewLoads, Free, ReviewTypeOK
  <2>4. CASE RememberCandidate(h)
    <3> DEFINE row == Remembered(job[h].key, job[h].value)
    <3>1. job[h].key \in Keys /\ job[h].value \in Values
      BY <1>0, <2>4, JobFacts DEF RememberCandidate
    <3>2. /\ pending' = [pending EXCEPT ![h] = [NothingPending EXCEPT ![job[h].key] = <<row>>]]
          /\ UNCHANGED <<candidates, written, abandoned>>
          /\ \A g \in Handlers : g # h => job'[g] = job[g]
      BY <1>0, <2>4 DEF RememberCandidate, RememberReads, Computes, ReviewTypeOK
    <3>3. \A k \in Keys : pending[h][k] = << >>
      BY <2>4 DEF RememberCandidate, RememberReads, Computes, Idle, NothingPending
    <3>4. row.value = job[h].value
      <4>1. job[h].key \in stored => rows[job[h].key] \in Rows
        BY RowFacts DEF TypeOK
      <4> QED
        BY <4>1 DEF Remembered, Rows
    <3>5. pending'[h][job[h].key] = <<row>> /\ <<row>> # << >> /\ Head(<<row>>) = row
      BY <1>0, <3>1, <3>2 DEF NothingPending
    <3>6. ASSUME NEW g \in Handlers, NEW k \in Keys, NEW v \in Values, Owed(g, k, v)
          PROVE  Owed(g, k, v)'
      <4>1. CASE g = h
        <5>1. job[h].key = k /\ job[h].value = v
          BY <3>3, <3>6, <4>1
        <5> HIDE DEF row
        <5> QED
          BY <3>4, <3>5, <4>1, <5>1
      <4>2. CASE g # h
        BY <1>0, <3>2, <3>6, <4>2
      <4> QED
        BY <4>1, <4>2
    <3> HIDE DEF Owed
    <3> QED
      BY <1>c, <3>2, <3>6
  <2>5. CASE MarkReviewed(h)
    <3>1. /\ job[h].key \in Keys /\ job[h].value \in Values
          /\ job[h].status \in {"auto_promoted", "accepted", "rejected"}
          /\ job[h].status # "auto_promoted"
      BY <1>0, <2>5, JobFacts DEF MarkReviewed, MarkInv
    <3>2. \A k \in Keys, v \in Values : Safe(k, v) => Safe(k, v)'
      <4> HIDE DEF Safe
      <4> QED
        BY <1>0, <1>e, <2>5 DEF MarkReviewed, factVars, ReviewTypeOK
    <3> HIDE DEF Safe
    <3> QED
      BY <1>d, <2>5, <3>1, <3>2 DEF MarkReviewed
  <2>6. ASSUME NEW j \in Keys, WriteFact(h, j) PROVE PromotedIsKnowledge'
    <3>1. /\ pending' = [pending EXCEPT ![h][j] = Tail(@)]
          /\ UNCHANGED <<job, abandoned, candidates>>
          /\ written' = [written EXCEPT ![j] = @ \union {Head(pending[h][j]).value}]
      BY <2>6 DEF WriteFact, WriteBack
    <3>2. ASSUME NEW g \in Handlers, NEW k \in Keys, NEW v \in Values, Owed(g, k, v)
          PROVE  v \in written'[k] \/ Owed(g, k, v)'
      <4>1. CASE g = h /\ k = j
        BY <1>0, <3>1, <3>2, <4>1 DEF ReviewTypeOK
      <4>2. CASE ~ (g = h /\ k = j)
        <5>1. pending'[g][k] = pending[g][k]
          BY <1>0, <3>1, <4>2
        <5> QED
          BY <3>1, <3>2, <5>1
      <4> QED
        BY <4>1, <4>2
    <3> HIDE DEF Owed
    <3> QED
      BY <1>c, <1>w, <3>1, <3>2
  <2>7. CASE Stop(h)
    <3>1. /\ UNCHANGED <<candidates, written>>
          /\ abandoned' = abandoned \union {k \in Keys : pending[h][k] # << >>}
                           \union (IF job[h] = NoJob THEN {} ELSE {job[h].key})
          /\ \A g \in Handlers : g # h => job'[g] = job[g] /\ pending'[g] = pending[g]
      BY <1>0, <2>7 DEF Stop, HandlerStops, factVars, ReviewTypeOK
    <3>2. \A g \in Handlers, k \in Keys, v \in Values :
            Owed(g, k, v) => k \in abandoned' \/ Owed(g, k, v)'
      BY <3>1
    <3> HIDE DEF Owed
    <3> QED
      BY <1>c, <3>1, <3>2
  <2>8. CASE Free(h) /\ FactsRequest(h) /\ UNCHANGED reviewVars
    <3>1. \A g \in Handlers : g # h => pending'[g] = pending[g]
      BY <1>0, <2>8 DEF FactsRequest, Remember, RememberReads, RecallReads, UpkeepReads,
                        TriageReads, Computes
    <3> HIDE DEF Safe
    <3> QED
      BY <1>c, <1>f, <2>8, <3>1 DEF reviewVars
  <2> QED
    BY <1>1, <2>1, <2>2, <2>3, <2>4, <2>5, <2>6, <2>7, <2>8 DEF Work
<1>2. CASE FactsTable /\ UNCHANGED reviewVars
  <2>1. pending' = pending
    BY <1>2, TableStep DEF Delete, TimePasses, TypeOK
  <2>2. \A k \in Keys, v \in Values : Safe(k, v) => Safe(k, v)'
    BY <1>2, <2>1 DEF reviewVars
  <2> HIDE DEF Safe
  <2> QED
    BY <1>2, <1>c, <2>2 DEF reviewVars
<1>3. CASE UNCHANGED vars
  <2>1. \A k \in Keys, v \in Values : Safe(k, v) => Safe(k, v)'
    BY <1>3 DEF vars, factVars, reviewVars
  <2> HIDE DEF Safe
  <2> QED
    BY <1>3, <1>c, <2>1 DEF vars, reviewVars
<1> QED
  BY <1>1, <1>2, <1>3 DEF Next

-----------------------------------------------------------------------------
LEMMA InvInit == Init => IInv
<1> SUFFICES ASSUME Init PROVE IInv
  OBVIOUS
<1> USE DEF Init, FactsInit, stored
<1>1. NothingPending \in [Keys -> Seq(Rows)]
      /\ \A k \in Keys : NothingPending[k] = << >>
  BY DEF NothingPending
<1>2. DOMAIN rows = {} /\ DOMAIN candidates = {} /\ DOMAIN << >> = {}
  OBVIOUS
<1>3. FactsTypeOK
  BY <1>1, <1>2 DEF FactsTypeOK
<1>4. TypeOK
  BY <1>2, <1>3 DEF TypeOK
<1>5. CountersInv
  BY <1>1, <1>2 DEF CountersInv, CountersAreEarned
<1>6. RecordInv
  BY <1>1, <1>2 DEF RecordInv, OverlapAloneForgets, Recorded
<1>7. ReviewInv
  BY <1>2 DEF ReviewInv, AcceptedIsKnowledge, PromotedIsKnowledge, MarkInv
<1> QED
  BY <1>4, <1>5, <1>6, <1>7 DEF IInv

LEMMA InvStep == IInv /\ [Next]_vars => IInv'
<1> SUFFICES ASSUME IInv, [Next]_vars PROVE IInv'
  OBVIOUS
<1>1. TypeOK /\ CountersInv /\ RecordInv /\ ReviewInv /\ FactsTypeOK
  BY DEF IInv, TypeOK
<1>2. StoreStep
  BY <1>1, NextIsStoreStep
<1>3. TypeOK' /\ CountersInv' /\ RecordInv'
  BY <1>1, <1>2, TypeStep, CountersStep, RecordStep
<1>4. ReviewInv'
  BY <1>1, MarkStep, AcceptedStep, PromotedStep DEF ReviewInv
<1> QED
  BY <1>3, <1>4 DEF IInv

LEMMA Invariance == Spec => []IInv
  BY InvInit, InvStep, PTL DEF Spec

\* KnowledgeService, the review queue and their tables keep their types.
THEOREM KnowledgeTypeCorrect == Spec => []TypeOK
<1>1. IInv => TypeOK
  BY DEF IInv
<1> QED
  BY <1>1, Invariance, PTL

\* However remember, recall, upkeep and triage overlap, stop half-way or race
\* with removals, no row counts a confirmation or retrieval that did not happen.
THEOREM CountersEarned == Spec => []CountersAreEarned
<1>1. IInv => CountersAreEarned
  BY DEF IInv, CountersInv
<1> QED
  BY <1>1, Invariance, PTL

\* A fact forgets a superseded value, or comes back after its removal, only if
\* a request wrote back a row that had changed since the request read it.
THEOREM OnlyOverlapForgets == Spec => []OverlapAloneForgets
<1>1. IInv => OverlapAloneForgets
  BY DEF IInv, RecordInv
<1> QED
  BY <1>1, Invariance, PTL

\* ReviewCandidateAsync marks a candidate as accepted after its value is stored.
THEOREM AcceptedKnown == Spec => []AcceptedIsKnowledge
<1>1. IInv => AcceptedIsKnowledge
  BY DEF IInv, ReviewInv
<1> QED
  BY <1>1, Invariance, PTL

\* IngestCandidatesAsync marks a candidate as promoted before its value is
\* stored: what the mark says is missing only while the request runs, or after
\* it stopped in between.
THEOREM PromotedKnown == Spec => []PromotedIsKnowledge
<1>1. IInv => PromotedIsKnowledge
  BY DEF IInv, ReviewInv
<1> QED
  BY <1>1, Invariance, PTL
=============================================================================

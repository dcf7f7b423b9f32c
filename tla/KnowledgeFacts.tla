--------------------------- MODULE KnowledgeFacts ---------------------------
(***************************************************************************)
(* Canonical project knowledge on the host: KnowledgeService over one      *)
(* PostgreSQL row per fact.                                                *)
(*                                                                         *)
(* Every operation that changes a fact reads whole rows, computes new ones *)
(* in memory and writes them back with an unconditional upsert, one        *)
(* statement per row and no transaction.  Requests run concurrently, so a  *)
(* row may have changed, or gone, between the read and the write.          *)
(***************************************************************************)
EXTENDS Naturals, Sequences

CONSTANTS
  Keys,        \* facts: a category and a key
  Values,      \* what a fact may say
  JunkValues,  \* values IsLikelyJunkCandidate takes for junk
  DirectValues,\* values the callers of remember store
  Handlers,    \* requests the host serves at the same time
  StaleAge,    \* age after which an unused fact is stale (30 days)
  ExpiryAge,   \* age after which a stale fact is deleted (90 days)
  MaxRequests, \* bound: requests begun
  MaxTime      \* bound: the clock

ASSUME ValuesAssumption == JunkValues \subseteq Values /\ DirectValues \subseteq Values
ASSUME AgesAssumption ==
  /\ StaleAge \in Nat /\ ExpiryAge \in Nat
  /\ MaxRequests \in Nat /\ MaxTime \in Nat

VARIABLES
  rows,     \* the row of each fact that has one
  pending,  \* the rows each handler has computed and has yet to upsert
  today,    \* the clock, in units longer than a month
  requests  \* requests begun

\* History, read by properties only.
VARIABLES
  outdated, \* <<h, k>>: handler h computed its row of k from one since changed
  lost,     \* facts on which an outdated row was written
  told,     \* values remembered of each fact since it was last removed
  said,     \* how often each value was remembered of each fact
  recalls   \* how often each fact was recalled

stored == DOMAIN rows

factVars == <<rows, pending, today, requests, outdated, lost, told, said, recalls>>

Statuses == {"current", "stale", "merged", "junk"}
Rows == [value: Values, confirmations: Nat, retrievals: Nat, status: Statuses,
         created: Nat, confirmed: Nat, history: SUBSET Values]

FactsTypeOK ==
  /\ stored \subseteq Keys
  /\ rows \in [stored -> Rows]
  /\ pending \in [Handlers -> [Keys -> Seq(Rows)]]
  /\ today \in Nat /\ requests \in Nat
  /\ outdated \subseteq Handlers \X Keys
  /\ lost \subseteq Keys
  /\ told \in [Keys -> SUBSET Values]
  /\ said \in [Keys -> [Values -> Nat]]
  /\ recalls \in [Keys -> Nat]

NothingPending == [k \in Keys |-> << >>]

FactsInit ==
  /\ rows = [k \in {} |-> {}]
  /\ pending = [h \in Handlers |-> NothingPending]
  /\ today = 0
  /\ requests = 0
  /\ outdated = {}
  /\ lost = {}
  /\ told = [k \in Keys |-> {}]
  /\ said = [k \in Keys |-> [v \in Values |-> 0]]
  /\ recalls = [k \in Keys |-> 0]

-----------------------------------------------------------------------------
(***************************************************************************)
(* The read half of each operation.                                        *)
(***************************************************************************)

Idle(h) == pending[h] = NothingPending
Request == requests < MaxRequests /\ requests' = requests + 1

\* Handler h has new rows to write, computed from the rows of today.
Computes(h, new) ==
  /\ Idle(h)
  /\ pending' = [pending EXCEPT ![h] = new]
  /\ UNCHANGED <<rows, today, outdated, lost>>

\* Mutant: a value that replaces another inherits its confirmations.
MutRememberedKeepsCount(k, v) ==
  IF k \in stored
    THEN [rows[k] EXCEPT !.value = v, !.confirmations = @ + 1, !.confirmed = today,
                         !.history = @ \union ({rows[k].value} \ {v})]
    ELSE [value |-> v, confirmations |-> 1, retrievals |-> 0, status |-> "current",
          created |-> today, confirmed |-> today, history |-> {}]

\* Mutant: a superseded value is not kept.
MutRememberedForgets(k, v) ==
  IF k \in stored
    THEN [rows[k] EXCEPT !.value = v,
                         !.confirmations = IF rows[k].value = v THEN @ + 1 ELSE 1,
                         !.confirmed = today]
    ELSE [value |-> v, confirmations |-> 1, retrievals |-> 0, status |-> "current",
          created |-> today, confirmed |-> today, history |-> {}]

\* The row RememberAsync computes: the lifecycle status of a known fact stays.
Remembered(k, v) ==
  IF k \in stored
    THEN [rows[k] EXCEPT !.value = v,
                         !.confirmations = IF rows[k].value = v THEN @ + 1 ELSE 1,
                         !.confirmed = today,
                         !.history = @ \union ({rows[k].value} \ {v})]
    ELSE [value |-> v, confirmations |-> 1, retrievals |-> 0, status |-> "current",
          created |-> today, confirmed |-> today, history |-> {}]

RememberReads(h, k, v) ==
  /\ Computes(h, [NothingPending EXCEPT ![k] = <<Remembered(k, v)>>])
  /\ said' = [said EXCEPT ![k][v] = @ + 1]
  /\ UNCHANGED <<told, recalls>>

Remember(h, k, v) ==
  /\ Request
  /\ RememberReads(h, k, v)

\* RecallAndRefreshAsync counts a retrieval of every fact S it returns; the
\* ranking and the limit choose S.
RecallReads(h, S) ==
  /\ Request
  /\ Computes(h, [k \in Keys |->
       IF k \in S THEN << [rows[k] EXCEPT !.retrievals = @ + 1] >> ELSE << >>])
  /\ recalls' = [k \in Keys |-> IF k \in S THEN recalls[k] + 1 ELSE recalls[k]]
  /\ UNCHANGED <<told, said>>

Unused(row) ==
  /\ row.status = "current"
  /\ today - row.confirmed >= StaleAge
  /\ row.confirmations <= 1 /\ row.retrievals = 0

\* UpkeepAsync rewrites every fact, the unused ones as stale.
UpkeepReads(h) ==
  /\ Request
  /\ Computes(h, [k \in Keys |->
       IF k \in stored
         THEN << [rows[k] EXCEPT !.status = IF Unused(rows[k]) THEN "stale" ELSE @] >>
         ELSE << >>])
  /\ UNCHANGED <<told, said, recalls>>

\* TriageAsync: of the facts that say the same, all but the best of each group
\* are merged; then the junk is marked.  The lifecycle score chooses Best.
TriageReads(h, Best) ==
  LET Duplicate(k) == \E b \in Best : b # k /\ rows[b].value = rows[k].value
      Merged(k) == IF Duplicate(k) THEN << [rows[k] EXCEPT !.status = "merged"] >> ELSE << >>
      Junk(k) == IF rows[k].value \in JunkValues
                   THEN << [rows[k] EXCEPT !.status = "junk"] >> ELSE << >>
  IN
  /\ Request
  /\ \A k \in stored : \E b \in Best : rows[b].value = rows[k].value
  /\ \A b, c \in Best : rows[b].value = rows[c].value => b = c
  /\ Computes(h, [k \in Keys |->
       IF k \in stored THEN (IF k \in Best THEN << >> ELSE Merged(k)) \o Junk(k) ELSE << >>])
  /\ UNCHANGED <<told, said, recalls>>

-----------------------------------------------------------------------------
(***************************************************************************)
(* The write half, and the statements that delete.                         *)
(***************************************************************************)

\* Every other handler with a row of a fact in S now holds an old copy.
Outdate(S, others) ==
  {p \in others \X S : pending[p[1]][p[2]] # << >>}

\* UpsertFactAsync: the whole row, except the time a row was first inserted.
Upsert(k, row) ==
  rows' = [j \in stored \union {k} |->
    IF j # k THEN rows[j]
    ELSE IF k \in stored THEN [row EXCEPT !.created = rows[k].created] ELSE row]

WriteBack(h, k) ==
  /\ pending[h][k] # << >>
  /\ Upsert(k, Head(pending[h][k]))
  /\ pending' = [pending EXCEPT ![h][k] = Tail(@)]
  /\ lost' = IF <<h, k>> \in outdated THEN lost \union {k} ELSE lost
  /\ outdated' = (outdated \ {<<h, k>>}) \union Outdate({k}, Handlers \ {h})
  /\ told' = [told EXCEPT ![k] = @ \union {Head(pending[h][k]).value}]
  /\ UNCHANGED <<today, requests, said, recalls>>

\* The request is cancelled or times out, or the host stops.
HandlerStops(h) ==
  /\ ~ Idle(h)
  /\ pending' = [pending EXCEPT ![h] = NothingPending]
  /\ outdated' = {p \in outdated : p[1] # h}
  /\ UNCHANGED <<rows, today, requests, lost, told, said, recalls>>

Delete(S) ==
  /\ rows' = [k \in stored \ S |-> rows[k]]
  /\ outdated' = outdated \union Outdate(S, Handlers)
  /\ lost' = lost \ S
  /\ told' = [k \in Keys |-> IF k \in S THEN {} ELSE told[k]]
  /\ UNCHANGED <<pending, today, said, recalls>>

\* RemoveAsync, at a caller's request.
Remove(k) ==
  /\ Request
  /\ k \in stored
  /\ Delete({k})

\* RemoveExpiredFactsAsync, in the memory maintenance.
RemoveExpired ==
  LET expired == {k \in stored : /\ rows[k].status = "stale"
                                 /\ today - rows[k].created >= ExpiryAge}
  IN
  /\ expired # {}
  /\ Delete(expired)
  /\ UNCHANGED requests

TimePasses ==
  /\ today < MaxTime
  /\ today' = today + 1
  /\ UNCHANGED <<rows, pending, requests, outdated, lost, told, said, recalls>>

FactsRequest(h) ==
  \/ \E k \in Keys, v \in DirectValues : Remember(h, k, v)
  \/ \E S \in (SUBSET stored) \ {{}} : RecallReads(h, S)
  \/ UpkeepReads(h)
  \/ \E Best \in SUBSET stored : TriageReads(h, Best)

FactsTable == (\E k \in Keys : Remove(k)) \/ RemoveExpired \/ TimePasses

-----------------------------------------------------------------------------
(***************************************************************************)
(* Properties.                                                             *)
(***************************************************************************)

\* All a row says, now or in its history.
Recorded(k) == IF k \in stored THEN {rows[k].value} \union rows[k].history ELSE {}

\* Unless a handler wrote back a row it had computed from an older one, a fact
\* records exactly what was remembered of it since it was last removed:
\* superseded values are kept and removed facts stay away.
OverlapAloneForgets == \A k \in Keys \ lost : Recorded(k) = told[k]

\* However requests overlap, a row never counts more confirmations of its value
\* than there were calls to remember it, nor more retrievals than recalls.
CountersAreEarned ==
  \A k \in stored : /\ rows[k].confirmations <= said[k][rows[k].value]
                    /\ rows[k].retrievals <= recalls[k]

\* Superseded facts are preserved as historical memory.
HistoryIsKept == \A k \in Keys : told[k] \subseteq Recorded(k)
=============================================================================

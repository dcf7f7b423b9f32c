----------------------- MODULE KnowledgeFacts_proofs -----------------------
(***************************************************************************)
(* Lemmas about the fact store for any number of keys, values and          *)
(* concurrent requests, whoever its callers are.                           *)
(*                                                                         *)
(* Every operation on facts is a read step, which changes nothing but the  *)
(* rows its handler holds, or the write or removal of rows.  The lemmas    *)
(* ...IsRead say of each operation that the rows it computes record what   *)
(* the fact records, plus the value it is about to store, and that their   *)
(* counters are earned.  The invariants of the store follow from that      *)
(* alone, and not from what the operation was.                             *)
(***************************************************************************)
EXTENDS KnowledgeFacts, SequenceTheorems, TLAPS

\* All that a row says.
Says(r) == {r.value} \union r.history

\* Row r of fact k counts nothing that did not happen.
Earned(k, r) == /\ r.confirmations <= said[k][r.value]
                /\ r.retrievals <= recalls[k]

\* Row r, just computed, records what fact k records and the value r stores.
Faithful(k, r) ==
  /\ r \in Rows
  /\ r.confirmations <= said'[k][r.value]
  /\ r.retrievals <= recalls'[k]
  /\ Says(r) = Recorded(k) \union {r.value}

\* Handler h has computed new rows from the rows there are.
ReadStep(h) ==
  /\ UNCHANGED <<rows, today, outdated, lost, told>>
  /\ \E new \in [Keys -> Seq(Rows)] :
       /\ pending' = [pending EXCEPT ![h] = new]
       /\ \A k \in Keys : \A i, j \in DOMAIN new[k] :
            Faithful(k, new[k][i]) /\ new[k][i].value = new[k][j].value
  /\ said' \in [Keys -> [Values -> Nat]]
  /\ recalls' \in [Keys -> Nat]
  /\ \A k \in Keys : recalls[k] <= recalls'[k]
  /\ \A k \in Keys, v \in Values : said[k][v] <= said'[k][v]

CountersInv ==
  /\ CountersAreEarned
  /\ \A h \in Handlers, k \in Keys : \A i \in DOMAIN pending[h][k] :
       Earned(k, pending[h][k][i])

\* What handler h holds of fact k is up to date, or does not matter any more.
UpToDate(h, k) == k \notin lost /\ <<h, k>> \notin outdated

RecordInv ==
  /\ OverlapAloneForgets
  /\ \A h \in Handlers, k \in Keys : UpToDate(h, k) =>
       \A i \in DOMAIN pending[h][k] :
         /\ Says(pending[h][k][i]) = told[k] \union {pending[h][k][i].value}
         /\ \A j \in DOMAIN pending[h][k] : pending[h][k][j].value = pending[h][k][i].value

-----------------------------------------------------------------------------
LEMMA RowFacts ==
  ASSUME FactsTypeOK, NEW k \in stored
  PROVE  k \in Keys /\ rows[k] \in Rows
  BY DEF FactsTypeOK, stored

LEMMA RememberedFacts ==
  ASSUME FactsTypeOK, CountersInv, NEW k \in Keys, NEW v \in Values
  PROVE  /\ Remembered(k, v) \in Rows
         /\ Remembered(k, v).value = v
         /\ Remembered(k, v).confirmations <= said[k][v] + 1
         /\ Remembered(k, v).retrievals <= recalls[k]
         /\ Says(Remembered(k, v)) = Recorded(k) \union {v}
<1> DEFINE old == rows[k]
           new == Remembered(k, v)
<1>0. said[k][v] \in Nat /\ recalls[k] \in Nat /\ today \in Nat
  BY DEF FactsTypeOK
<1>1. CASE k \in stored
  <2>1. /\ old.value \in Values /\ old.confirmations \in Nat /\ old.retrievals \in Nat
        /\ old.status \in Statuses /\ old.created \in Nat /\ old.confirmed \in Nat
        /\ old.history \in SUBSET Values /\ old \in Rows
    BY <1>1, RowFacts DEF Rows
  <2>2. /\ old.confirmations <= said[k][old.value] /\ old.retrievals <= recalls[k]
    BY <1>1 DEF CountersInv, CountersAreEarned
  <2>3. new = [old EXCEPT !.value = v,
                          !.confirmations = IF old.value = v THEN old.confirmations + 1 ELSE 1,
                          !.confirmed = today,
                          !.history = old.history \union ({old.value} \ {v})]
    BY <1>1 DEF Remembered
  <2>4. new = [value |-> v,
               confirmations |-> IF old.value = v THEN old.confirmations + 1 ELSE 1,
               retrievals |-> old.retrievals, status |-> old.status,
               created |-> old.created, confirmed |-> today,
               history |-> old.history \union ({old.value} \ {v})]
    BY <2>1, <2>3 DEF Rows
  <2>5. new \in Rows
    BY <1>0, <2>1, <2>4 DEF Rows
  <2>6. Says(new) = Recorded(k) \union {v}
    BY <1>1, <2>4 DEF Says, Recorded
  <2>7. new.value = v /\ new.retrievals = old.retrievals
    BY <2>4
  <2>8. new.confirmations <= said[k][v] + 1
    <3>1. CASE old.value = v
      BY <1>0, <2>1, <2>2, <2>4, <3>1
    <3>2. CASE old.value # v
      BY <1>0, <2>4, <3>2
    <3> QED
      BY <3>1, <3>2
  <2> HIDE DEF new
  <2> QED
    BY <2>2, <2>5, <2>6, <2>7, <2>8 DEF new
<1>2. CASE k \notin stored
  <2>1. new = [value |-> v, confirmations |-> 1, retrievals |-> 0, status |-> "current",
               created |-> today, confirmed |-> today, history |-> {}]
    BY <1>2 DEF Remembered
  <2>2. new \in Rows
    BY <1>0, <2>1 DEF Rows, Statuses
  <2>3. Says(new) = Recorded(k) \union {v}
    BY <1>2, <2>1 DEF Says, Recorded
  <2>4. new.value = v /\ new.confirmations = 1 /\ new.retrievals = 0
    BY <2>1
  <2>5. 1 <= said[k][v] + 1 /\ 0 <= recalls[k]
    BY <1>0
  <2> QED
    BY <2>2, <2>3, <2>4, <2>5
<1> QED
  BY <1>1, <1>2

\* Of a row that says the same as the row of a fact and counts as much.
LEMMA CopyFacts ==
  ASSUME FactsTypeOK, CountersInv, NEW k \in stored, NEW r \in Rows,
         r.value = rows[k].value, r.history = rows[k].history,
         r.confirmations = rows[k].confirmations
  PROVE  /\ r.confirmations <= said[k][r.value]
         /\ Says(r) = Recorded(k) \union {r.value}
<1>1. rows[k].confirmations <= said[k][rows[k].value]
  BY DEF CountersInv, CountersAreEarned
<1>2. Says(r) = Recorded(k) \union {r.value}
  BY DEF Says, Recorded
<1> QED
  BY <1>1, <1>2

-----------------------------------------------------------------------------
LEMMA OneRow ==
  ASSUME NEW r \in Rows
  PROVE  <<r>> \in Seq(Rows) /\ DOMAIN <<r>> = {1} /\ <<r>>[1] = r
<1>1. <<r>> \in Seq(Rows)
  OBVIOUS
<1>2. DOMAIN <<r>> = {1}
  OBVIOUS
<1> QED
  BY <1>1, <1>2

LEMMA TwoRows ==
  ASSUME NEW r \in Rows, NEW s \in Rows
  PROVE  /\ <<r, s>> \in Seq(Rows) /\ DOMAIN <<r, s>> = {1, 2}
         /\ <<r, s>>[1] = r /\ <<r, s>>[2] = s
<1>1. <<r, s>> \in Seq(Rows)
  OBVIOUS
<1>2. DOMAIN <<r, s>> = {1, 2}
  OBVIOUS
<1>3. <<r, s>>[1] = r /\ <<r, s>>[2] = s
  OBVIOUS
<1> QED
  BY <1>1, <1>2, <1>3

LEMMA RowAndRow ==
  ASSUME NEW r \in Rows, NEW s \in Rows
  PROVE  <<r>> \o <<s>> = <<r, s>>
<1> DEFINE cat == <<r>> \o <<s>>
           two == <<r, s>>
<1>1. two \in Seq(Rows) /\ Len(two) = 2 /\ two[1] = r /\ two[2] = s
  OBVIOUS
<1>2. /\ <<r>> \in Seq(Rows) /\ <<s>> \in Seq(Rows)
      /\ Len(<<r>>) = 1 /\ Len(<<s>>) = 1 /\ <<r>>[1] = r /\ <<s>>[1] = s
  OBVIOUS
<1>3. cat \in Seq(Rows) /\ Len(cat) = 2 /\ cat[1] = r /\ cat[2] = s
  BY <1>2, ConcatProperties
<1> HIDE DEF cat, two
<1>4. Len(cat) = Len(two) /\ \A i \in 1 .. Len(cat) : cat[i] = two[i]
  BY <1>1, <1>3
<1>5. cat = two
  BY <1>1, <1>3, <1>4, SeqEqual
<1> QED
  BY <1>5 DEF cat, two

\* At most two rows of each fact, all faithful and of one value.
Computed(k, rs) ==
  \/ rs = << >>
  \/ \E r \in Rows : rs = <<r>> /\ Faithful(k, r)
  \/ \E r, s \in Rows : /\ rs = <<r, s>> /\ Faithful(k, r) /\ Faithful(k, s)
                        /\ r.value = s.value

LEMMA ComputesReads ==
  ASSUME FactsTypeOK, NEW h \in Handlers, NEW new, Computes(h, new),
         DOMAIN new = Keys, new = [k \in Keys |-> new[k]],
         \A k \in Keys : Computed(k, new[k]),
         said' \in [Keys -> [Values -> Nat]], recalls' \in [Keys -> Nat],
         \A k \in Keys : recalls[k] <= recalls'[k],
         \A k \in Keys, v \in Values : said[k][v] <= said'[k][v],
         told' = told
  PROVE  ReadStep(h)
<1>1. ASSUME NEW k \in Keys
      PROVE  /\ new[k] \in Seq(Rows)
             /\ \A i, j \in DOMAIN new[k] :
                  Faithful(k, new[k][i]) /\ new[k][i].value = new[k][j].value
  <2>1. CASE new[k] = << >>
    <3>1. new[k] \in Seq(Rows) /\ DOMAIN new[k] = {}
      BY <2>1
    <3> QED
      BY <3>1
  <2>2. ASSUME NEW r \in Rows, new[k] = <<r>>, Faithful(k, r)
        PROVE  /\ new[k] \in Seq(Rows)
               /\ \A i, j \in DOMAIN new[k] :
                    Faithful(k, new[k][i]) /\ new[k][i].value = new[k][j].value
    <3>1. new[k] \in Seq(Rows) /\ DOMAIN new[k] = {1} /\ new[k][1] = r
      BY <2>2, OneRow
    <3> QED
      BY <2>2, <3>1
  <2>3. ASSUME NEW r \in Rows, NEW s \in Rows, new[k] = <<r, s>>,
               Faithful(k, r), Faithful(k, s), r.value = s.value
        PROVE  /\ new[k] \in Seq(Rows)
               /\ \A i, j \in DOMAIN new[k] :
                    Faithful(k, new[k][i]) /\ new[k][i].value = new[k][j].value
    <3> DEFINE two == <<r, s>>
    <3>1. two \in Seq(Rows) /\ DOMAIN two = {1, 2} /\ two[1] = r /\ two[2] = s
      BY TwoRows
    <3>2. new[k] = two
      BY <2>3
    <3> HIDE DEF two
    <3> QED
      BY <2>3, <3>1, <3>2
  <2> QED
    BY <2>1, <2>2, <2>3 DEF Computed
<1>2. new \in [Keys -> Seq(Rows)]
  BY <1>1
<1> QED
  BY <1>1, <1>2 DEF Computes, ReadStep

LEMMA RememberIsRead ==
  ASSUME FactsTypeOK, CountersInv, NEW h \in Handlers,
         NEW k \in Keys, NEW v \in Values, RememberReads(h, k, v)
  PROVE  ReadStep(h)
<1> DEFINE new == [NothingPending EXCEPT ![k] = <<Remembered(k, v)>>]
<1>1. Computes(h, new) /\ told' = told /\ recalls' = recalls
  BY DEF RememberReads
<1>2. /\ said' \in [Keys -> [Values -> Nat]] /\ recalls' \in [Keys -> Nat]
      /\ said'[k][v] = said[k][v] + 1
      /\ \A j \in Keys, w \in Values : said[j][w] <= said'[j][w]
      /\ \A j \in Keys : recalls[j] <= recalls'[j]
  BY <1>1 DEF RememberReads, FactsTypeOK
<1>3. Faithful(k, Remembered(k, v))
  BY <1>1, <1>2, RememberedFacts DEF Faithful
<1>4. new = [j \in Keys |-> IF j = k THEN <<Remembered(k, v)>> ELSE << >>]
  BY DEF NothingPending
<1>5. \A j \in Keys : Computed(j, new[j])
  BY <1>3, <1>4, RememberedFacts DEF Computed
<1>6. DOMAIN new = Keys /\ new = [j \in Keys |-> new[j]]
  BY <1>4
<1> HIDE DEF new
<1> QED
  BY <1>1, <1>2, <1>5, <1>6, ComputesReads

\* A copy of a row is faithful if it counts no retrieval that did not happen.
LEMMA CopyIsFaithful ==
  ASSUME FactsTypeOK, CountersInv, NEW k \in stored, NEW s \in Statuses, NEW r,
         \/ r = [rows[k] EXCEPT !.retrievals = @ + 1] /\ recalls'[k] = recalls[k] + 1
         \/ r = [rows[k] EXCEPT !.status = s] /\ recalls' = recalls,
         said' = said
  PROVE  Faithful(k, r) /\ r \in Rows /\ r.value = rows[k].value
<1>1. /\ rows[k] \in Rows /\ rows[k].retrievals \in Nat /\ recalls[k] \in Nat
      /\ rows[k].retrievals <= recalls[k]
  BY RowFacts DEF Rows, CountersInv, CountersAreEarned, FactsTypeOK
<1>2. /\ r \in Rows
      /\ r.value = rows[k].value /\ r.history = rows[k].history
      /\ r.confirmations = rows[k].confirmations
  BY <1>1 DEF Rows
<1>3. r.retrievals <= recalls'[k]
  BY <1>1 DEF Rows
<1> QED
  BY <1>2, <1>3, CopyFacts DEF Faithful

LEMMA RecallIsRead ==
  ASSUME FactsTypeOK, CountersInv, NEW h \in Handlers,
         NEW S \in SUBSET stored, RecallReads(h, S)
  PROVE  ReadStep(h)
<1> DEFINE new == [k \in Keys |->
              IF k \in S THEN << [rows[k] EXCEPT !.retrievals = @ + 1] >> ELSE << >>]
<1>1. Computes(h, new) /\ told' = told /\ said' = said
  BY DEF RecallReads
<1>2. /\ said' \in [Keys -> [Values -> Nat]] /\ recalls' \in [Keys -> Nat]
      /\ \A j \in Keys, w \in Values : said[j][w] <= said'[j][w]
      /\ \A j \in Keys : recalls[j] <= recalls'[j]
      /\ \A j \in S : recalls'[j] = recalls[j] + 1
  BY <1>1, RowFacts DEF RecallReads, FactsTypeOK
<1>3. ASSUME NEW k \in Keys PROVE Computed(k, new[k])
  <2>1. CASE k \in S
    <3> DEFINE r == [rows[k] EXCEPT !.retrievals = @ + 1]
    <3>1. Faithful(k, r) /\ r \in Rows
      BY <1>1, <1>2, <2>1, CopyIsFaithful DEF Statuses
    <3>2. new[k] = <<r>>
      BY <2>1
    <3> HIDE DEF r
    <3> QED
      BY <3>1, <3>2 DEF Computed
  <2>2. CASE k \notin S
    BY <2>2 DEF Computed
  <2> QED
    BY <2>1, <2>2
<1>4. DOMAIN new = Keys /\ new = [j \in Keys |-> new[j]]
  OBVIOUS
<1> HIDE DEF new
<1> QED
  BY <1>1, <1>2, <1>3, <1>4, ComputesReads

\* Upkeep and triage rewrite rows with another status.
LEMMA StatusReads ==
  ASSUME FactsTypeOK, CountersInv, NEW h \in Handlers, NEW new,
         Computes(h, new), UNCHANGED <<told, said, recalls>>,
         DOMAIN new = Keys, new = [k \in Keys |-> new[k]],
         \A k \in Keys :
           \/ new[k] = << >>
           \/ /\ k \in stored
              /\ \E s \in Statuses : new[k] = << [rows[k] EXCEPT !.status = s] >>
           \/ /\ k \in stored
              /\ \E s, t \in Statuses : new[k] = << [rows[k] EXCEPT !.status = s],
                                                    [rows[k] EXCEPT !.status = t] >>
  PROVE  ReadStep(h)
<1>1. /\ said' \in [Keys -> [Values -> Nat]] /\ recalls' \in [Keys -> Nat]
      /\ \A j \in Keys, w \in Values : said[j][w] <= said'[j][w]
      /\ \A j \in Keys : recalls[j] <= recalls'[j]
  BY DEF FactsTypeOK
<1>2. ASSUME NEW k \in Keys PROVE Computed(k, new[k])
  <2> DEFINE Copy(s) == [rows[k] EXCEPT !.status = s]
  <2>1. ASSUME NEW s \in Statuses, k \in stored
        PROVE  Faithful(k, Copy(s)) /\ Copy(s) \in Rows /\ Copy(s).value = rows[k].value
    BY <2>1, CopyIsFaithful
  <2>2. \/ new[k] = << >>
        \/ k \in stored /\ \E s \in Statuses : new[k] = <<Copy(s)>>
        \/ k \in stored /\ \E s, t \in Statuses : new[k] = <<Copy(s), Copy(t)>>
    OBVIOUS
  <2> HIDE DEF Copy
  <2> QED
    BY <2>1, <2>2 DEF Computed
<1> QED
  BY <1>1, <1>2, ComputesReads

LEMMA UpkeepIsRead ==
  ASSUME FactsTypeOK, CountersInv, NEW h \in Handlers, UpkeepReads(h)
  PROVE  ReadStep(h)
<1> DEFINE new == [k \in Keys |->
       IF k \in stored
         THEN << [rows[k] EXCEPT !.status = IF Unused(rows[k]) THEN "stale" ELSE @] >>
         ELSE << >>]
<1>1. Computes(h, new) /\ UNCHANGED <<told, said, recalls>>
  BY DEF UpkeepReads
<1>2. ASSUME NEW k \in Keys, k \in stored
      PROVE  \E s \in Statuses : new[k] = << [rows[k] EXCEPT !.status = s] >>
  <2>1. rows[k].status \in Statuses
    BY <1>2, RowFacts DEF Rows
  <2>2. CASE Unused(rows[k])
    BY <1>2, <2>2 DEF Statuses
  <2>3. CASE ~ Unused(rows[k])
    BY <1>2, <2>1, <2>3
  <2> QED
    BY <2>2, <2>3
<1>3. \A k \in Keys : k \notin stored => new[k] = << >>
  OBVIOUS
<1>4. DOMAIN new = Keys /\ new = [j \in Keys |-> new[j]]
  OBVIOUS
<1> HIDE DEF new
<1> QED
  BY <1>1, <1>2, <1>3, <1>4, StatusReads

LEMMA TriageIsRead ==
  ASSUME FactsTypeOK, CountersInv, NEW h \in Handlers, NEW Best, TriageReads(h, Best)
  PROVE  ReadStep(h)
<1> DEFINE Duplicate(k) == \E b \in Best : b # k /\ rows[b].value = rows[k].value
           Merged(k) == IF Duplicate(k) THEN << [rows[k] EXCEPT !.status = "merged"] >>
                        ELSE << >>
           Junk(k) == IF rows[k].value \in JunkValues
                        THEN << [rows[k] EXCEPT !.status = "junk"] >> ELSE << >>
           new == [k \in Keys |->
             IF k \in stored THEN (IF k \in Best THEN << >> ELSE Merged(k)) \o Junk(k)
             ELSE << >>]
<1>1. Computes(h, new) /\ UNCHANGED <<told, said, recalls>>
  BY DEF TriageReads
<1>2. ASSUME NEW k \in Keys, k \in stored
      PROVE  \/ new[k] = << >>
             \/ \E s \in Statuses : new[k] = << [rows[k] EXCEPT !.status = s] >>
             \/ \E s, t \in Statuses : new[k] = << [rows[k] EXCEPT !.status = s],
                                                   [rows[k] EXCEPT !.status = t] >>
  <2> DEFINE m == [rows[k] EXCEPT !.status = "merged"]
             j == [rows[k] EXCEPT !.status = "junk"]
             left == IF k \in Best THEN << >> ELSE Merged(k)
  <2>1. m \in Rows /\ j \in Rows
    BY <1>2, RowFacts DEF Rows, Statuses
  <2>2. (left = << >> \/ left = <<m>>) /\ (Junk(k) = << >> \/ Junk(k) = <<j>>)
    OBVIOUS
  <2>3. new[k] = left \o Junk(k)
    BY <1>2
  <2>4. "merged" \in Statuses /\ "junk" \in Statuses
    BY DEF Statuses
  <2>5. << >> \o << >> = << >>
    OBVIOUS
  <2>6. << >> \o <<j>> = <<j>> /\ <<m>> \o << >> = <<m>>
    BY <2>1
  <2>7. <<m>> \o <<j>> = <<m, j>>
    BY <2>1, RowAndRow
  <2>8. new[k] = << >> \/ new[k] = <<m>> \/ new[k] = <<j>> \/ new[k] = <<m, j>>
    <3> HIDE DEF new, left, Junk, m, j
    <3> QED
      BY <2>2, <2>3, <2>5, <2>6, <2>7
  <2> HIDE DEF new, left, Junk
  <2> QED
    BY <2>4, <2>8
<1>3. \A k \in Keys : k \notin stored => new[k] = << >>
  OBVIOUS
<1>4. DOMAIN new = Keys /\ new = [j \in Keys |-> new[j]]
  OBVIOUS
<1> HIDE DEF new
<1> QED
  BY <1>1, <1>2, <1>3, <1>4, StatusReads

-----------------------------------------------------------------------------
\* What a step may do to the store, whatever operation it belongs to.
StoreStep ==
  \/ \E h \in Handlers : ReadStep(h)
  \/ \E h \in Handlers, k \in Keys : WriteBack(h, k)
  \/ \E h \in Handlers : HandlerStops(h)
  \/ \E S \in SUBSET stored : Delete(S)
  \/ UNCHANGED <<rows, pending, outdated, lost, told, said, recalls>>

LEMMA RequestIsRead ==
  ASSUME FactsTypeOK, CountersInv, NEW h \in Handlers, FactsRequest(h)
  PROVE  ReadStep(h)
<1>1. ASSUME NEW k \in Keys, NEW v \in DirectValues, Remember(h, k, v) PROVE ReadStep(h)
  <2>1. v \in Values
    BY ValuesAssumption
  <2> QED
    BY <1>1, <2>1, RememberIsRead DEF Remember
<1>2. ASSUME NEW S \in (SUBSET stored) \ {{}}, RecallReads(h, S) PROVE ReadStep(h)
  BY <1>2, RecallIsRead
<1>3. CASE UpkeepReads(h)
  BY <1>3, UpkeepIsRead
<1>4. ASSUME NEW Best \in SUBSET stored, TriageReads(h, Best) PROVE ReadStep(h)
  BY <1>4, TriageIsRead
<1> QED
  BY <1>1, <1>2, <1>3, <1>4 DEF FactsRequest

LEMMA TableStep ==
  ASSUME FactsTypeOK, FactsTable
  PROVE  (\E S \in SUBSET stored : Delete(S)) \/ TimePasses
<1>1. ASSUME NEW k \in Keys, Remove(k) PROVE \E S \in SUBSET stored : Delete(S)
  BY <1>1 DEF Remove
<1>2. CASE RemoveExpired
  BY <1>2 DEF RemoveExpired
<1> QED
  BY <1>1, <1>2 DEF FactsTable

LEMMA UpsertType ==
  ASSUME FactsTypeOK, NEW k \in Keys, NEW row \in Rows, Upsert(k, row)
  PROVE  /\ DOMAIN rows' = stored \union {k} /\ DOMAIN rows' \subseteq Keys
         /\ rows' \in [DOMAIN rows' -> Rows]
         /\ \A j \in stored \ {k} : rows'[j] = rows[j]
         /\ rows'[k].value = row.value /\ rows'[k].history = row.history
         /\ rows'[k].confirmations = row.confirmations
         /\ rows'[k].retrievals = row.retrievals
<1> DEFINE new == IF k \in stored THEN [row EXCEPT !.created = rows[k].created] ELSE row
<1>1. /\ new \in Rows /\ new.value = row.value /\ new.history = row.history
      /\ new.confirmations = row.confirmations /\ new.retrievals = row.retrievals
  <2>1. CASE k \in stored
    BY <2>1, RowFacts DEF Rows
  <2>2. CASE k \notin stored
    BY <2>2
  <2> QED
    BY <2>1, <2>2
<1>2. rows' = [j \in stored \union {k} |-> IF j # k THEN rows[j] ELSE new]
  BY DEF Upsert
<1>3. stored \subseteq Keys /\ \A j \in stored : rows[j] \in Rows
  BY RowFacts DEF stored, FactsTypeOK
<1> HIDE DEF new
<1> QED
  BY <1>1, <1>2, <1>3

\* The head of what a handler holds, and the rest of it.
LEMMA HeldRows ==
  ASSUME FactsTypeOK, NEW h \in Handlers, NEW k \in Keys, pending[h][k] # << >>
  PROVE  LET q == pending[h][k] IN
         /\ q \in Seq(Rows) /\ 1 \in DOMAIN q /\ Head(q) = q[1] /\ Head(q) \in Rows
         /\ Tail(q) \in Seq(Rows)
         /\ \A i \in DOMAIN Tail(q) : i + 1 \in DOMAIN q /\ Tail(q)[i] = q[i + 1]
<1> DEFINE q == pending[h][k]
<1>1. q \in Seq(Rows)
  BY DEF FactsTypeOK
<1> HIDE DEF q
<1>2. q # << >> => /\ 1 \in DOMAIN q /\ Head(q) = q[1] /\ Head(q) \in Rows
                   /\ Tail(q) \in Seq(Rows)
  BY <1>1
<1>3. q # << >> => \A i \in DOMAIN Tail(q) : i + 1 \in DOMAIN q /\ Tail(q)[i] = q[i + 1]
  BY <1>1
<1> QED
  BY <1>1, <1>2, <1>3 DEF q

-----------------------------------------------------------------------------
\* The types of what a step may do to the store.
StoreType ==
  /\ stored \subseteq Keys
  /\ rows \in [stored -> Rows]
  /\ pending \in [Handlers -> [Keys -> Seq(Rows)]]
  /\ lost \subseteq Keys
  /\ outdated \subseteq Handlers \X Keys
  /\ told \in [Keys -> SUBSET Values]
  /\ said \in [Keys -> [Values -> Nat]]
  /\ recalls \in [Keys -> Nat]

LEMMA StoreTypeStep ==
  ASSUME FactsTypeOK, StoreStep
  PROVE  StoreType'
<1> USE DEF stored
<1>0. StoreType
  BY DEF FactsTypeOK, StoreType
<1>1. ASSUME NEW h \in Handlers, ReadStep(h) PROVE StoreType'
  BY <1>0, <1>1 DEF ReadStep, StoreType
<1>2. ASSUME NEW h \in Handlers, NEW k \in Keys, WriteBack(h, k) PROVE StoreType'
  <2> DEFINE row == Head(pending[h][k])
  <2>1. row \in Rows /\ Tail(pending[h][k]) \in Seq(Rows)
    BY <1>2, HeldRows DEF WriteBack
  <2>2. DOMAIN rows' \subseteq Keys /\ rows' \in [DOMAIN rows' -> Rows]
    BY <1>2, <2>1, UpsertType DEF WriteBack
  <2>3. pending' \in [Handlers -> [Keys -> Seq(Rows)]]
    BY <1>0, <1>2, <2>1 DEF WriteBack, StoreType
  <2>4. row.value \in Values
    BY <2>1 DEF Rows
  <2>5. told' \in [Keys -> SUBSET Values] /\ lost' \subseteq Keys
    BY <1>0, <1>2, <2>4 DEF WriteBack, StoreType
  <2>6. outdated' \subseteq Handlers \X Keys
    BY <1>0, <1>2 DEF WriteBack, StoreType, Outdate
  <2> QED
    BY <1>0, <1>2, <2>2, <2>3, <2>5, <2>6 DEF WriteBack, StoreType
<1>3. ASSUME NEW h \in Handlers, HandlerStops(h) PROVE StoreType'
  <2>1. NothingPending \in [Keys -> Seq(Rows)]
    BY DEF NothingPending
  <2> QED
    BY <1>0, <1>3, <2>1 DEF HandlerStops, StoreType
<1>4. ASSUME NEW S \in SUBSET stored, Delete(S) PROVE StoreType'
  BY <1>0, <1>4 DEF Delete, StoreType, Outdate
<1>5. CASE UNCHANGED <<rows, pending, outdated, lost, told, said, recalls>>
  BY <1>0, <1>5 DEF StoreType
<1> QED
  BY <1>1, <1>2, <1>3, <1>4, <1>5 DEF StoreStep

LEMMA CountersStep ==
  ASSUME FactsTypeOK, CountersInv, StoreStep
  PROVE  CountersInv'
<1> USE DEF stored
<1>0. StoreType /\ StoreType'
  BY StoreTypeStep DEF FactsTypeOK, StoreType
<1>t. \A k \in stored : rows[k].value \in Values /\ rows[k].confirmations \in Nat
                        /\ rows[k].retrievals \in Nat
  BY <1>0 DEF StoreType, Rows
<1>p. \A h \in Handlers, k \in Keys : \A i \in DOMAIN pending[h][k] :
        pending[h][k][i] \in Rows
  BY <1>0 DEF StoreType
<1>1. ASSUME NEW h \in Handlers, ReadStep(h) PROVE CountersInv'
  <2>1. PICK new \in [Keys -> Seq(Rows)] :
          /\ pending' = [pending EXCEPT ![h] = new]
          /\ \A k \in Keys : \A i, j \in DOMAIN new[k] : Faithful(k, new[k][i])
    BY <1>1 DEF ReadStep
  <2>2. \A k \in Keys : recalls[k] \in Nat /\ recalls'[k] \in Nat /\ recalls[k] <= recalls'[k]
    BY <1>0, <1>1 DEF ReadStep, StoreType
  <2>3. \A k \in Keys, v \in Values : /\ said[k][v] \in Nat /\ said'[k][v] \in Nat
                                      /\ said[k][v] <= said'[k][v]
    BY <1>0, <1>1 DEF ReadStep, StoreType
  <2>4. ASSUME NEW k \in Keys, NEW r \in Rows, Earned(k, r)
        PROVE  r.confirmations <= said'[k][r.value] /\ r.retrievals <= recalls'[k]
    <3>1. r.value \in Values /\ r.confirmations \in Nat /\ r.retrievals \in Nat
      BY DEF Rows
    <3> QED
      BY <2>2, <2>3, <2>4, <3>1 DEF Earned
  <2>5. CountersAreEarned'
    BY <1>0, <1>1, <2>4 DEF ReadStep, StoreType, CountersInv, CountersAreEarned, Earned
  <2>6. ASSUME NEW g \in Handlers, NEW k \in Keys, NEW i \in DOMAIN pending'[g][k]
        PROVE  /\ pending'[g][k][i].confirmations <= said'[k][pending'[g][k][i].value]
               /\ pending'[g][k][i].retrievals <= recalls'[k]
    <3>1. CASE g = h
      BY <1>0, <2>1, <2>6, <3>1 DEF Faithful, StoreType
    <3>2. CASE g # h
      <4>1. pending'[g][k] = pending[g][k]
        BY <1>0, <2>1, <3>2 DEF StoreType
      <4>2. pending[g][k][i] \in Rows /\ Earned(k, pending[g][k][i])
        BY <1>p, <2>6, <4>1 DEF CountersInv
      <4> QED
        BY <2>4, <4>1, <4>2
    <3> QED
      BY <3>1, <3>2
  <2> QED
    BY <2>5, <2>6 DEF CountersInv, Earned
<1>2. ASSUME NEW h \in Handlers, NEW k \in Keys, WriteBack(h, k) PROVE CountersInv'
  <2> DEFINE row == Head(pending[h][k])
  <2>1. /\ row \in Rows /\ row = pending[h][k][1] /\ 1 \in DOMAIN pending[h][k]
        /\ \A i \in DOMAIN Tail(pending[h][k]) :
             /\ i + 1 \in DOMAIN pending[h][k]
             /\ Tail(pending[h][k])[i] = pending[h][k][i + 1]
    BY <1>2, HeldRows DEF WriteBack
  <2>2. Earned(k, row)
    BY <2>1 DEF CountersInv
  <2>3. /\ DOMAIN rows' = stored \union {k}
        /\ \A j \in stored \ {k} : rows'[j] = rows[j]
        /\ rows'[k].value = row.value /\ rows'[k].retrievals = row.retrievals
        /\ rows'[k].confirmations = row.confirmations
    BY <1>2, <2>1, UpsertType DEF WriteBack
  <2>4. said' = said /\ recalls' = recalls
    BY <1>2 DEF WriteBack
  <2>5. CountersAreEarned'
    BY <2>2, <2>3, <2>4 DEF CountersInv, CountersAreEarned, Earned
  <2>6. ASSUME NEW g \in Handlers, NEW j \in Keys, NEW i \in DOMAIN pending'[g][j]
        PROVE  Earned(j, pending'[g][j][i])
    <3>1. CASE g = h /\ j = k
      <4>1. pending'[g][j] = Tail(pending[h][k])
        BY <1>0, <1>2, <3>1 DEF WriteBack, StoreType
      <4> QED
        BY <2>1, <2>6, <3>1, <4>1 DEF CountersInv
    <3>2. CASE ~ (g = h /\ j = k)
      <4>1. pending'[g][j] = pending[g][j]
        BY <1>0, <1>2, <3>2 DEF WriteBack, StoreType
      <4> QED
        BY <2>6, <4>1 DEF CountersInv
    <3> QED
      BY <3>1, <3>2
  <2> QED
    BY <2>4, <2>5, <2>6 DEF CountersInv, Earned
<1>3. ASSUME NEW h \in Handlers, HandlerStops(h) PROVE CountersInv'
  <2>1. \A g \in Handlers, k \in Keys :
          pending'[g][k] = << >> \/ pending'[g][k] = pending[g][k]
    BY <1>0, <1>3 DEF HandlerStops, NothingPending, StoreType
  <2>2. DOMAIN << >> = {}
    OBVIOUS
  <2> QED
    BY <1>3, <2>1, <2>2 DEF HandlerStops, CountersInv, CountersAreEarned, Earned
<1>4. ASSUME NEW S \in SUBSET stored, Delete(S) PROVE CountersInv'
  BY <1>4 DEF Delete, CountersInv, CountersAreEarned, Earned
<1>5. CASE UNCHANGED <<rows, pending, outdated, lost, told, said, recalls>>
  BY <1>5 DEF CountersInv, CountersAreEarned, Earned
<1> QED
  BY <1>1, <1>2, <1>3, <1>4, <1>5 DEF StoreStep

LEMMA RecordStep ==
  ASSUME FactsTypeOK, RecordInv, StoreStep
  PROVE  RecordInv'
<1> USE DEF stored
<1>0. StoreType /\ StoreType'
  BY StoreTypeStep DEF FactsTypeOK, StoreType
<1> DEFINE Held(h, k) == \A i \in DOMAIN pending[h][k] :
              /\ Says(pending[h][k][i]) = told[k] \union {pending[h][k][i].value}
              /\ \A j \in DOMAIN pending[h][k] :
                   pending[h][k][j].value = pending[h][k][i].value
<1>a. /\ \A k \in Keys : k \notin lost => Recorded(k) = told[k]
      /\ \A h \in Handlers, k \in Keys : UpToDate(h, k) => Held(h, k)
  BY DEF RecordInv, OverlapAloneForgets
<1>b. ASSUME \A k \in Keys : k \notin lost' => Recorded(k)' = told'[k],
             \A h \in Handlers, k \in Keys : UpToDate(h, k)' => Held(h, k)'
      PROVE  RecordInv'
  BY <1>b DEF RecordInv, OverlapAloneForgets
<1>1. ASSUME NEW h \in Handlers, ReadStep(h) PROVE RecordInv'
  <2>1. PICK new \in [Keys -> Seq(Rows)] :
          /\ pending' = [pending EXCEPT ![h] = new]
          /\ \A k \in Keys : \A i, j \in DOMAIN new[k] :
               Faithful(k, new[k][i]) /\ new[k][i].value = new[k][j].value
    BY <1>1 DEF ReadStep
  <2>2. rows' = rows /\ lost' = lost /\ outdated' = outdated /\ told' = told
    BY <1>1 DEF ReadStep
  <2>3. \A k \in Keys : Recorded(k)' = Recorded(k)
    BY <2>2 DEF Recorded
  <2>4. ASSUME NEW g \in Handlers, NEW k \in Keys, UpToDate(g, k)' PROVE Held(g, k)'
    <3>1. UpToDate(g, k)
      BY <2>2, <2>4 DEF UpToDate
    <3>2. CASE g = h
      <4>1. pending'[g][k] = new[k]
        BY <1>0, <2>1, <3>2 DEF StoreType
      <4>2. Recorded(k) = told[k]
        BY <1>a, <3>1 DEF UpToDate
      <4> QED
        BY <2>1, <2>2, <4>1, <4>2 DEF Faithful
    <3>3. CASE g # h
      <4>1. pending'[g][k] = pending[g][k]
        BY <1>0, <2>1, <3>3 DEF StoreType
      <4> QED
        BY <1>a, <2>2, <3>1, <4>1
    <3> QED
      BY <3>2, <3>3
  <2> QED
    BY <1>a, <1>b, <2>2, <2>3, <2>4
<1>2. ASSUME NEW h \in Handlers, NEW k \in Keys, WriteBack(h, k) PROVE RecordInv'
  <2> DEFINE row == Head(pending[h][k])
  <2>1. /\ row \in Rows /\ row = pending[h][k][1] /\ 1 \in DOMAIN pending[h][k]
        /\ \A i \in DOMAIN Tail(pending[h][k]) :
             /\ i + 1 \in DOMAIN pending[h][k]
             /\ Tail(pending[h][k])[i] = pending[h][k][i + 1]
    BY <1>2, HeldRows DEF WriteBack
  <2>2. /\ DOMAIN rows' = stored \union {k}
        /\ \A j \in stored \ {k} : rows'[j] = rows[j]
        /\ rows'[k].value = row.value /\ rows'[k].history = row.history
    BY <1>2, <2>1, UpsertType DEF WriteBack
  <2>3. /\ lost' = IF <<h, k>> \in outdated THEN lost \union {k} ELSE lost
        /\ outdated' = (outdated \ {<<h, k>>}) \union Outdate({k}, Handlers \ {h})
        /\ told' = [told EXCEPT ![k] = @ \union {row.value}]
        /\ pending' = [pending EXCEPT ![h][k] = Tail(@)]
    BY <1>2 DEF WriteBack
  <2>4. \A j \in Keys \ {k} : told'[j] = told[j] /\ Recorded(j)' = Recorded(j)
    BY <1>0, <2>2, <2>3 DEF StoreType, Recorded
  <2>5. told'[k] = told[k] \union {row.value} /\ Recorded(k)' = Says(row)
    BY <1>0, <2>2, <2>3 DEF StoreType, Recorded, Says
  <2>6. k \notin lost' => UpToDate(h, k)
    BY <2>3 DEF UpToDate
  <2>7. ASSUME NEW j \in Keys, j \notin lost' PROVE Recorded(j)' = told'[j]
    <3>1. CASE j = k
      <4>1. Held(h, k)
        BY <1>a, <2>6, <2>7, <3>1
      <4> QED
        BY <2>1, <2>5, <3>1, <4>1
    <3>2. CASE j # k
      BY <1>a, <2>3, <2>4, <2>7, <3>2
    <3> QED
      BY <3>1, <3>2
  <2>8. ASSUME NEW g \in Handlers, NEW j \in Keys, UpToDate(g, j)' PROVE Held(g, j)'
    <3>1. CASE j # k
      <4>1. pending'[g][j] = pending[g][j] /\ told'[j] = told[j]
        BY <1>0, <2>3, <2>4, <3>1 DEF StoreType
      <4>2. UpToDate(g, j)
        BY <2>3, <2>8, <3>1 DEF UpToDate
      <4> QED
        BY <1>a, <4>1, <4>2
    <3>2. CASE j = k /\ g = h
      <4>1. pending'[g][j] = Tail(pending[h][k])
        BY <1>0, <2>3, <3>2 DEF StoreType
      <4>2. Held(h, k)
        BY <1>a, <2>6, <2>8, <3>2 DEF UpToDate
      <4>3. \A i \in DOMAIN pending'[g][j] :
              /\ Says(pending'[g][j][i]) = told[k] \union {pending'[g][j][i].value}
              /\ pending'[g][j][i].value = row.value
        BY <2>1, <4>1, <4>2
      <4> QED
        BY <2>5, <3>2, <4>3
    <3>3. CASE j = k /\ g # h
      <4>1. pending'[g][j] = pending[g][j]
        BY <1>0, <2>3, <3>3 DEF StoreType
      <4>2. <<g, k>> \notin Outdate({k}, Handlers \ {h})
        BY <2>3, <2>8, <3>3 DEF UpToDate
      <4>3. pending[g][k] = << >>
        BY <3>3, <4>2 DEF Outdate
      <4>4. DOMAIN << >> = {}
        OBVIOUS
      <4> QED
        BY <3>3, <4>1, <4>3, <4>4
    <3> QED
      BY <3>1, <3>2, <3>3
  <2> QED
    BY <1>b, <2>7, <2>8
<1>3. ASSUME NEW h \in Handlers, HandlerStops(h) PROVE RecordInv'
  <2>1. \A k \in Keys : Recorded(k)' = Recorded(k) /\ told' = told /\ lost' = lost
    BY <1>3 DEF HandlerStops, Recorded
  <2>2. ASSUME NEW g \in Handlers, NEW k \in Keys, UpToDate(g, k)' PROVE Held(g, k)'
    <3>1. CASE g = h
      <4>1. pending'[g][k] = << >> /\ DOMAIN << >> = {}
        BY <1>0, <1>3, <3>1 DEF HandlerStops, NothingPending, StoreType
      <4> QED
        BY <4>1
    <3>2. CASE g # h
      <4>1. pending'[g][k] = pending[g][k]
        BY <1>0, <1>3, <3>2 DEF HandlerStops, StoreType
      <4>2. UpToDate(g, k)
        BY <1>3, <2>2, <3>2 DEF UpToDate, HandlerStops
      <4> QED
        BY <1>a, <2>1, <4>1, <4>2
    <3> QED
      BY <3>1, <3>2
  <2> QED
    BY <1>a, <1>b, <2>1, <2>2
<1>4. ASSUME NEW S \in SUBSET stored, Delete(S) PROVE RecordInv'
  <2>1. /\ rows' = [k \in stored \ S |-> rows[k]] /\ lost' = lost \ S
        /\ told' = [k \in Keys |-> IF k \in S THEN {} ELSE told[k]]
        /\ outdated' = outdated \union Outdate(S, Handlers) /\ pending' = pending
    BY <1>4 DEF Delete
  <2>2. ASSUME NEW k \in Keys, k \notin lost' PROVE Recorded(k)' = told'[k]
    <3>1. CASE k \in S
      BY <2>1, <3>1 DEF Recorded
    <3>2. CASE k \notin S
      <4>1. Recorded(k)' = Recorded(k)
        BY <2>1, <3>2 DEF Recorded
      <4> QED
        BY <1>a, <2>1, <2>2, <3>2, <4>1
    <3> QED
      BY <3>1, <3>2
  <2>3. ASSUME NEW g \in Handlers, NEW k \in Keys, UpToDate(g, k)' PROVE Held(g, k)'
    <3>1. CASE k \in S
      <4>1. pending[g][k] = << >> /\ DOMAIN << >> = {}
        BY <2>1, <2>3, <3>1 DEF UpToDate, Outdate
      <4> QED
        BY <2>1, <4>1
    <3>2. CASE k \notin S
      <4>1. UpToDate(g, k)
        BY <2>1, <2>3, <3>2 DEF UpToDate
      <4> QED
        BY <1>a, <2>1, <3>2, <4>1
    <3> QED
      BY <3>1, <3>2
  <2> QED
    BY <1>b, <2>2, <2>3
<1>5. CASE UNCHANGED <<rows, pending, outdated, lost, told, said, recalls>>
  BY <1>a, <1>b, <1>5 DEF Recorded, UpToDate
<1> QED
  BY <1>1, <1>2, <1>3, <1>4, <1>5 DEF StoreStep
=============================================================================

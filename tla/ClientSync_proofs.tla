-------------------------- MODULE ClientSync_proofs --------------------------
(***************************************************************************)
(* Proofs about what the client mirrors into the host: the memories of a   *)
(* repository (RepoMemorySync) and the journal with its markers            *)
(* (JournalSync); and about two parts that select from lists as the        *)
(* journal does: the throttle in front of the tools (LoopDetector) and the *)
(* searches on the import graph (GraphSearch).                             *)
(*                                                                         *)
(* The memories rest on where the calls that wait in the outbox lead       *)
(* (Leads), which is fixed by how far the one sync at work has come.  The  *)
(* journal rests on the copy of the one hook that is to write it, and the  *)
(* markers on an order: what a hook appends is later than all that the     *)
(* journal holds and the marker covers.                                    *)
(***************************************************************************)
EXTENDS JournalSync, RepoMemorySync, LoopDetector, GraphSearch, FiniteSetTheorems, SequenceTheorems,
        WellFoundedInduction, TLAPS

(***************************************************************************)
(* The memories of a repository.                                           *)
(***************************************************************************)


\* A memory is a function on entries.
IsMemory(m) == m = [x \in DOMAIN m |-> m[x]]

LEMMA SameMemory ==
  ASSUME NEW m, NEW n, IsMemory(m), IsMemory(n), DOMAIN m = DOMAIN n,
         \A x \in DOMAIN m : m[x] = n[x]
  PROVE  m = n
  BY DEF IsMemory

LEMMA ImageMemory ==
  ASSUME NEW recs
  PROVE  IsMemory(Image(recs)) /\ DOMAIN Image(recs) = Entries(recs)
<1> DEFINE val(x) == Last(SelectSeq(recs, LAMBDA r : r.entry = x)).value
<1>1. Image(recs) = [x \in Entries(recs) |-> val(x)]
  BY DEF Image
<1> HIDE DEF val
<1> QED
  BY <1>1 DEF IsMemory

LEMMA ImportEffect ==
  ASSUME NEW recs, NEW m
  PROVE  LET out == Effect(ImportCall(recs), m) IN
         /\ IsMemory(out) /\ DOMAIN out = Entries(recs) \union DOMAIN m
         /\ \A x \in Entries(recs) : out[x] = Image(recs)[x]
         /\ \A x \in DOMAIN m \ Entries(recs) : out[x] = m[x]
<1> DEFINE new == Image(recs)
<1>1. DOMAIN new = Entries(recs)
  BY ImageMemory
<1>2. Effect(ImportCall(recs), m) = [x \in DOMAIN new \union DOMAIN m |-> IF x \in DOMAIN new THEN new[x] ELSE m[x]]
  BY DEF Effect, ImportCall
<1> HIDE DEF new
<1>3. QED
  BY <1>1, <1>2 DEF IsMemory, new

LEMMA RemoveEffect ==
  ASSUME NEW e, NEW m
  PROVE  LET out == Effect(RemoveCall(e), m) IN
         /\ IsMemory(out) /\ DOMAIN out = DOMAIN m \ {e}
         /\ \A x \in DOMAIN out : out[x] = m[x]
  BY DEF Effect, RemoveCall, Restrict, IsMemory

\* The calls a sync makes.
IsCall(c) == (\E recs : c = ImportCall(recs)) \/ (\E e : c = RemoveCall(e))

\* The host may apply a call twice in a row.
LEMMA EffectTwice ==
  ASSUME NEW c, IsCall(c), NEW m
  PROVE  Effect(c, Effect(c, m)) = Effect(c, m) /\ IsMemory(Effect(c, m))
<1>n. PICK n : n = Effect(c, m)
  OBVIOUS
<1>k. PICK k : k = Effect(c, n)
  OBVIOUS
<1>1. ASSUME NEW recs, c = ImportCall(recs) PROVE k = n /\ IsMemory(n)
  <2>1. /\ IsMemory(n) /\ DOMAIN n = Entries(recs) \union DOMAIN m
        /\ \A x \in Entries(recs) : n[x] = Image(recs)[x]
    BY <1>1, <1>n, ImportEffect
  <2>k. k = Effect(ImportCall(recs), n)
    BY <1>1, <1>k
  <2>2. /\ IsMemory(k) /\ DOMAIN k = Entries(recs) \union DOMAIN n
        /\ \A x \in Entries(recs) : k[x] = Image(recs)[x]
        /\ \A x \in DOMAIN n \ Entries(recs) : k[x] = n[x]
    BY <2>k, ImportEffect
  <2>3. DOMAIN k = DOMAIN n /\ \A x \in DOMAIN k : k[x] = n[x]
    BY <2>1, <2>2
  <2> QED
    BY <2>1, <2>2, <2>3, SameMemory
<1>2. ASSUME NEW e, c = RemoveCall(e) PROVE k = n /\ IsMemory(n)
  <2>1. IsMemory(n) /\ DOMAIN n = DOMAIN m \ {e}
    BY <1>2, <1>n, RemoveEffect
  <2>k. k = Effect(RemoveCall(e), n)
    BY <1>2, <1>k
  <2>2. IsMemory(k) /\ DOMAIN k = DOMAIN n \ {e} /\ \A x \in DOMAIN k : k[x] = n[x]
    BY <2>k, RemoveEffect
  <2> QED
    BY <2>1, <2>2, SameMemory
<1> QED
  BY <1>n, <1>k, <1>1, <1>2 DEF IsCall

\* Replaying the calls q on memory m leads to memory t.
Leads(m, q, t) ==
  \E via : /\ via[0] = m /\ via[Len(q)] = t
           /\ \A i \in 1..Len(q) : via[i] = Effect(q[i], via[i - 1])

LEMMA LeadsEmpty ==
  ASSUME NEW m, NEW t
  PROVE  Leads(m, << >>, t) <=> m = t
<1>1. Leads(m, << >>, t) => m = t
  BY DEF Leads
<1>2. ASSUME m = t PROVE Leads(m, << >>, t)
  <2> DEFINE via == [i \in {0} |-> m]
  <2>1. via[0] = m /\ Len(<< >>) = 0
    OBVIOUS
  <2> HIDE DEF via
  <2> QED
    BY <1>2, <2>1 DEF Leads
<1> QED
  BY <1>1, <1>2

LEMMA LeadsAppend ==
  ASSUME NEW S, NEW q \in Seq(S), NEW c, NEW m, NEW t, Leads(m, q, t)
  PROVE  Leads(m, Append(q, c), Effect(c, t))
<1>1. PICK via : /\ via[0] = m /\ via[Len(q)] = t
                 /\ \A i \in 1..Len(q) : via[i] = Effect(q[i], via[i - 1])
  BY DEF Leads
<1> DEFINE n == Len(q)
           e == Effect(c, t)
           more == [i \in 0..(n + 1) |-> IF i = n + 1 THEN e ELSE via[i]]
           app == Append(q, c)
<1>2. /\ n \in Nat /\ Len(app) = n + 1 /\ app[n + 1] = c
      /\ \A i \in 1..n : app[i] = q[i]
  <2>1. q \in Seq(S \union {c})
    BY SeqMonotonic
  <2> QED
    BY <2>1, AppendProperties
<1> HIDE DEF app, n
<1>3. /\ more[0] = m /\ more[n + 1] = e /\ \A i \in 0..n : more[i] = via[i]
  BY <1>1, <1>2 DEF n
<1> HIDE DEF more
<1>4. \A i \in 1..n : more[i] = Effect(app[i], more[i - 1])
  BY <1>1, <1>2, <1>3 DEF n
<1>5. more[n + 1] = Effect(app[n + 1], more[n])
  BY <1>1, <1>2, <1>3 DEF n
<1>6. \A i \in 1..Len(app) : more[i] = Effect(app[i], more[i - 1])
  <2> SUFFICES ASSUME NEW i \in 1..Len(app) PROVE more[i] = Effect(app[i], more[i - 1])
    OBVIOUS
  <2>1. CASE i \in 1..n
    BY <1>4, <2>1
  <2>2. CASE i = n + 1
    <3>1. i - 1 = n
      BY <1>2, <2>2
    <3> QED
      BY <1>5, <2>2, <3>1
  <2> QED
    BY <1>2, <2>1, <2>2
<1>7. Leads(m, app, e)
  BY <1>2, <1>3, <1>6 DEF Leads
<1> QED
  BY <1>7 DEF app

\* What is left when a call is taken out.
LEMMA RemoveAtSeq ==
  ASSUME NEW S, NEW q \in Seq(S), NEW i \in 1..Len(q)
  PROVE  /\ RemoveAt(q, i) \in Seq(S) /\ Len(RemoveAt(q, i)) = Len(q) - 1
         /\ \A j \in 1..(Len(q) - 1) : RemoveAt(q, i)[j] = IF j < i THEN q[j] ELSE q[j + 1]
<1> DEFINE before == SubSeq(q, 1, i - 1)
           after == SubSeq(q, i + 1, Len(q))
<1>1. Len(q) \in Nat /\ i \in Nat /\ i >= 1 /\ i <= Len(q)
  OBVIOUS
<1>2. /\ before \in Seq(S) /\ Len(before) = i - 1
      /\ \A j \in 1..(i - 1) : before[j] = q[j]
  BY <1>1
<1>3. /\ after \in Seq(S) /\ Len(after) = Len(q) - i
      /\ \A j \in 1..(Len(q) - i) : after[j] = q[j + i]
  BY <1>1
<1> HIDE DEF before, after
<1>4. /\ before \o after \in Seq(S) /\ Len(before \o after) = Len(q) - 1
      /\ \A j \in 1..(Len(q) - 1) :
           (before \o after)[j] = IF j <= i - 1 THEN before[j] ELSE after[j - (i - 1)]
  <2>1. PICK k \in Nat, l \in Nat : k = i - 1 /\ l = Len(q) - i
    BY <1>1
  <2>2. PICK u \in Seq(S), w \in Seq(S) : u = before /\ w = after
    BY <1>2, <1>3
  <2>3. Len(u) = k /\ Len(w) = l /\ k + l = Len(q) - 1
    BY <1>1, <1>2, <1>3, <2>1, <2>2
  <2>4. /\ u \o w \in Seq(S) /\ Len(u \o w) = k + l
        /\ \A j \in 1..(k + l) : (u \o w)[j] = IF j <= k THEN u[j] ELSE w[j - k]
    BY <2>3, ConcatProperties
  <2> QED
    BY <2>1, <2>2, <2>3, <2>4
<1>5. ASSUME NEW j \in 1..(Len(q) - 1)
      PROVE  (before \o after)[j] = IF j < i THEN q[j] ELSE q[j + 1]
  <2>1. CASE j < i
    <3>1. j \in 1..(i - 1) /\ j <= i - 1
      BY <1>1, <2>1
    <3> QED
      BY <1>2, <1>4, <2>1, <3>1
  <2>2. CASE ~(j < i)
    <3>1. j - (i - 1) \in 1..(Len(q) - i) /\ (j - (i - 1)) + i = j + 1
      BY <1>1, <2>2
    <3>2. ~(j <= i - 1)
      BY <1>1, <2>2
    <3>3. (before \o after)[j] = after[j - (i - 1)]
      BY <1>4, <3>2
    <3> QED
      BY <1>3, <2>2, <3>1, <3>3
  <2> QED
    BY <2>1, <2>2
<1>6. RemoveAt(q, i) = before \o after
  BY DEF RemoveAt, before, after
<1> QED
  BY <1>4, <1>5, <1>6

\* The first call may be applied and stay.
LEMMA LeadsStay ==
  ASSUME NEW S, NEW q \in Seq(S), q # << >>, IsCall(q[1]), NEW m, NEW t, Leads(m, q, t)
  PROVE  Leads(Effect(q[1], m), q, t)
<1>1. PICK via : /\ via[0] = m /\ via[Len(q)] = t
                 /\ \A i \in 1..Len(q) : via[i] = Effect(q[i], via[i - 1])
  BY DEF Leads
<1> DEFINE n == Len(q)
           once == Effect(q[1], m)
           again == [i \in 0..n |-> IF i = 0 THEN once ELSE via[i]]
<1>2. n \in Nat /\ n >= 1
  BY EmptySeq
<1> HIDE DEF n, once
<1>3. again[0] = once /\ \A i \in 1..n : again[i] = via[i]
  BY <1>2
<1> HIDE DEF again
<1>4. ASSUME NEW i \in 1..n PROVE again[i] = Effect(q[i], again[i - 1])
  <2>1. CASE i = 1
    <3>1. Effect(q[1], once) = once
      BY EffectTwice DEF once
    <3>2. via[1] = once
      <4>1. 1 \in 1..n /\ 1 - 1 = 0
        BY <1>2
      <4>2. via[1] = Effect(q[1], via[1 - 1])
        BY <1>1, <4>1 DEF n
      <4> QED
        BY <1>1, <4>1, <4>2 DEF once
    <3>3. again[i - 1] = once /\ again[i] = once
      BY <1>2, <1>3, <2>1, <3>2
    <3> QED
      BY <2>1, <3>1, <3>3
  <2>2. CASE i # 1
    <3>1. i - 1 \in 1..n
      BY <1>2, <2>2
    <3> QED
      BY <1>1, <1>3, <3>1 DEF n
  <2> QED
    BY <2>1, <2>2
<1>5. again[n] = t
  BY <1>1, <1>2, <1>3 DEF n
<1> QED
  BY <1>3, <1>4, <1>5 DEF Leads, n, once

LEMMA LeadsTail ==
  ASSUME NEW S, NEW q \in Seq(S), q # << >>, NEW m, NEW t, Leads(m, q, t)
  PROVE  Leads(Effect(Head(q), m), Tail(q), t)
<1>1. PICK via : /\ via[0] = m /\ via[Len(q)] = t
                 /\ \A i \in 1..Len(q) : via[i] = Effect(q[i], via[i - 1])
  BY DEF Leads
<1> DEFINE n == Len(q)
           rest == [i \in 0..(n - 1) |-> via[i + 1]]
           tail == Tail(q)
<1>2. /\ n \in Nat /\ n # 0 /\ Head(q) = q[1] /\ Len(tail) = n - 1
      /\ \A i \in 1..(n - 1) : tail[i] = q[i + 1]
  BY HeadTailProperties, EmptySeq
<1>3. \A i \in 0..(n - 1) : rest[i] = via[i + 1]
  OBVIOUS
<1> HIDE DEF rest, tail, n
<1>4. rest[0] = Effect(Head(q), m)
  <2>1. rest[0] = via[1] /\ via[1] = Effect(q[1], via[1 - 1])
    BY <1>1, <1>2, <1>3 DEF n
  <2> QED
    BY <1>1, <1>2, <2>1
<1>5. rest[n - 1] = t
  <2>1. n - 1 \in 0..(n - 1) /\ (n - 1) + 1 = n
    BY <1>2
  <2> QED
    BY <1>1, <1>3, <2>1 DEF n
<1>6. ASSUME NEW i \in 1..(n - 1) PROVE rest[i] = Effect(tail[i], rest[i - 1])
  <2>1. /\ i + 1 \in 1..n /\ (i + 1) - 1 = i /\ i \in 0..(n - 1) /\ i - 1 \in 0..(n - 1)
        /\ (i - 1) + 1 = i
    BY <1>2
  <2>2. via[i + 1] = Effect(q[i + 1], via[i])
    BY <1>1, <2>1 DEF n
  <2>3. rest[i] = via[i + 1] /\ rest[i - 1] = via[i] /\ tail[i] = q[i + 1]
    BY <1>2, <1>3, <2>1
  <2> QED
    BY <2>2, <2>3
<1> QED
  BY <1>2, <1>4, <1>5, <1>6 DEF Leads, tail

(***************************************************************************)
(* The inductive invariant: what the host will hold once the outbox is     *)
(* empty follows from how far the one sync at work has come.               *)
(***************************************************************************)

MirrorShape ==
  /\ \E S : queued \in Seq(S)
  /\ syncer \in [Syncers -> {"idle", "import", "remove"}]
  /\ DOMAIN records = Syncers /\ DOMAIN gone = Syncers

\* No two syncs are at work.
OneSyncs == \A p, q \in Syncers : syncer[p] # "idle" /\ syncer[q] # "idle" => p = q

\* Where the calls in the outbox lead, before an import and after it.
Before(t) ==
  (\A p \in Syncers : syncer[p] # "remove") => t = Image(lastSync)

Importing(p, t) ==
  syncer[p] = "import" => gone[p] = Entries(lastSync) \ Entries(records[p])

Removing(p, t) ==
  syncer[p] = "remove" =>
    /\ gone[p] \intersect Entries(records[p]) = {}
    /\ DOMAIN t = Entries(records[p]) \union gone[p]
    /\ \A x \in Entries(records[p]) : t[x] = Image(records[p])[x]

AsPlanned(t) ==
  /\ IsMemory(t) /\ OneSyncs /\ Before(t)
  /\ \A p \in Syncers : Importing(p, t) /\ Removing(p, t)

Mirroring ==
  ~disturbed => /\ \A i \in 1..Len(queued) : IsCall(queued[i])
                /\ \E t : Leads(hostMemory, queued, t) /\ AsPlanned(t)

MirrorInv == MirrorShape /\ Mirroring

LEMMA EmptyImage == Entries(<< >>) = {} /\ Image(<< >>) = << >>
<1>1. Entries(<< >>) = {}
  BY DEF Entries, ToSet
<1>2. IsMemory(Image(<< >>)) /\ DOMAIN Image(<< >>) = {}
  BY <1>1, ImageMemory
<1>3. IsMemory(<< >>) /\ DOMAIN << >> = {}
  BY DEF IsMemory
<1> QED
  BY <1>1, <1>2, <1>3, SameMemory

LEMMA MirrorInit == RepoMemoryInit => MirrorInv
<1> SUFFICES ASSUME RepoMemoryInit PROVE MirrorInv
  OBVIOUS
<1> USE DEF RepoMemoryInit
<1>1. MirrorShape
  <2>1. queued \in Seq({})
    OBVIOUS
  <2> QED
    BY <2>1 DEF MirrorShape
<1>2. Leads(hostMemory, queued, << >>)
  BY LeadsEmpty
<1>3. IsMemory(<< >>) /\ Image(lastSync) = << >>
  BY EmptyImage DEF IsMemory
<1>4. AsPlanned(<< >>)
  BY <1>3 DEF AsPlanned, OneSyncs, Before, Importing, Removing
<1> QED
  BY <1>1, <1>2, <1>4 DEF MirrorInv, Mirroring

\* A call that is sent moves the place the outbox leads to, whether it is applied,
\* kept, or both.
LEMMA SendsStep ==
  ASSUME NEW c, IsCall(c), Sends(c), ~disturbed', NEW S, queued \in Seq(S), NEW t,
         Leads(hostMemory, queued, t), \A i \in 1..Len(queued) : IsCall(queued[i])
  PROVE  /\ ~disturbed /\ \E R : queued' \in Seq(R)
         /\ Leads(hostMemory', queued', Effect(c, t))
         /\ \A i \in 1..Len(queued') : IsCall(queued'[i])
<1>1. CASE /\ hostMemory' \in Outcomes(c, hostMemory) /\ UNCHANGED queued
           /\ disturbed' = (disturbed \/ queued # << >> \/ hostMemory' # Effect(c, hostMemory))
  <2>1. /\ ~disturbed /\ queued = << >> /\ queued' = << >> /\ queued' \in Seq(S)
        /\ hostMemory' = Effect(c, hostMemory)
    BY <1>1
  <2>2. hostMemory = t
    BY <2>1, LeadsEmpty
  <2>3. Leads(Effect(c, t), << >>, Effect(c, t))
    BY LeadsEmpty
  <2> QED
    BY <1>1, <2>1, <2>2, <2>3
<1>2. CASE /\ queued' = Append(queued, c)
           /\ disturbed' = (\/ disturbed \/ (queued # << >> /\ hostMemory' # hostMemory)
                            \/ hostMemory' \notin {hostMemory, Effect(c, hostMemory)})
  <2>1. queued' \in Seq(S \union {c})
    <3>1. queued \in Seq(S \union {c})
      BY SeqMonotonic
    <3> QED
      BY <1>2, <3>1, AppendProperties
  <2>c. \A i \in 1..Len(queued') : IsCall(queued'[i])
    <3>1. PICK q \in Seq(S \union {c}) : q = queued
      BY SeqMonotonic
    <3>2. /\ Len(q) \in Nat /\ Len(Append(q, c)) = Len(q) + 1 /\ Append(q, c)[Len(q) + 1] = c
          /\ \A i \in 1..Len(q) : Append(q, c)[i] = q[i]
      BY AppendProperties
    <3>3. \A i \in 1..(Len(q) + 1) : i \in 1..Len(q) \/ i = Len(q) + 1
      BY <3>2
    <3> QED
      BY <1>2, <3>1, <3>2, <3>3
  <2>2. CASE hostMemory' = hostMemory
    <3>1. Leads(hostMemory, Append(queued, c), Effect(c, t))
      <4> PICK q, h : q = queued /\ h = hostMemory
        OBVIOUS
      <4>1. Leads(h, Append(q, c), Effect(c, t))
        BY LeadsAppend
      <4> QED
        BY <4>1
    <3> QED
      BY <1>2, <2>1, <2>c, <2>2, <3>1
  <2>3. CASE queued = << >> /\ hostMemory' = Effect(c, hostMemory)
    <3>1. hostMemory = t
      BY <2>3, LeadsEmpty
    <3>2. Leads(Effect(c, t), << >>, Effect(c, t))
      BY LeadsEmpty
    <3>3. Leads(Effect(c, t), Append(<< >>, c), Effect(c, Effect(c, t)))
      <4>1. << >> \in Seq(S)
        OBVIOUS
      <4> QED
        BY <3>2, <4>1, LeadsAppend
    <3>4. Effect(c, Effect(c, t)) = Effect(c, t)
      BY EffectTwice
    <3> QED
      BY <1>2, <2>1, <2>c, <2>3, <3>1, <3>3, <3>4
  <2> QED
    BY <1>2, <2>2, <2>3
<1> QED
  BY <1>1, <1>2 DEF Sends

LEMMA ImportStep ==
  ASSUME MirrorInv, NEW p \in Syncers, ImportRecords(p)
  PROVE  MirrorInv'
<1> USE DEF MirrorInv, MirrorShape, ImportRecords
<1>1. PICK r : r = records[p]
  OBVIOUS
<1>2. PICK S : queued \in Seq(S)
  OBVIOUS
<1>3. Sends(ImportCall(r)) /\ IsCall(ImportCall(r))
  BY <1>1 DEF IsCall
<1>4. MirrorShape'
  <2>1. \E R : queued' \in Seq(R)
    <3>1. CASE queued' = queued
      BY <1>2, <3>1
    <3>2. CASE queued' = Append(queued, ImportCall(r))
      <4> PICK call : call = ImportCall(r)
        OBVIOUS
      <4>1. queued \in Seq(S \union {call})
        BY <1>2, SeqMonotonic
      <4> QED
        BY <3>2, <4>1, AppendProperties
    <3> QED
      BY <1>3, <3>1, <3>2 DEF Sends
  <2> QED
    BY <2>1
<1>5. Mirroring'
  <2> SUFFICES ASSUME ~disturbed'
               PROVE  /\ \A i \in 1..Len(queued') : IsCall(queued'[i])
                      /\ (\E t : Leads(hostMemory, queued, t) /\ AsPlanned(t))'
    BY DEF Mirroring
  <2>1. ~disturbed
    BY <1>3 DEF Sends
  <2>2. PICK t : Leads(hostMemory, queued, t) /\ AsPlanned(t)
    BY <2>1 DEF Mirroring
  <2>3. /\ Leads(hostMemory', queued', Effect(ImportCall(r), t))
        /\ \A i \in 1..Len(queued') : IsCall(queued'[i])
    <3>1. \A i \in 1..Len(queued) : IsCall(queued[i])
      BY <2>1 DEF Mirroring
    <3> QED
      BY <1>2, <1>3, <2>2, <3>1, SendsStep
  <2>4. PICK u : u = Effect(ImportCall(r), t)
    OBVIOUS
  <2>5. /\ IsMemory(u) /\ DOMAIN u = Entries(r) \union DOMAIN t
        /\ \A x \in Entries(r) : u[x] = Image(r)[x]
    BY <2>4, ImportEffect
  <2>6. \A q \in Syncers \ {p} : syncer[q] = "idle"
    BY <2>2 DEF AsPlanned, OneSyncs
  <2>7. DOMAIN t = Entries(lastSync)
    <3>1. t = Image(lastSync)
      BY <2>2, <2>6 DEF AsPlanned, Before
    <3>2. PICK l : l = lastSync
      OBVIOUS
    <3>3. DOMAIN Image(l) = Entries(l)
      BY ImageMemory
    <3> QED
      BY <3>1, <3>2, <3>3
  <2>8. gone[p] = Entries(lastSync) \ Entries(r)
    BY <1>1, <2>2 DEF AsPlanned, Importing
  <2>9. AsPlanned(u)'
    <3>1. syncer'[p] = "remove" /\ \A q \in Syncers \ {p} : syncer'[q] = "idle"
      BY <2>6
    <3>2. OneSyncs' /\ Before(u)'
      BY <3>1 DEF OneSyncs, Before
    <3>3. ASSUME NEW q \in Syncers PROVE Importing(q, u)' /\ Removing(q, u)'
      <4>1. CASE q = p
        <5>1. gone'[p] = gone[p] /\ records'[p] = r
          BY <1>1
        <5>2. /\ gone'[p] \intersect Entries(r) = {}
              /\ DOMAIN u = Entries(r) \union gone'[p]
          BY <2>5, <2>7, <2>8, <5>1
        <5> QED
          BY <2>5, <3>1, <4>1, <5>1, <5>2 DEF Importing, Removing
      <4>2. CASE q # p
        BY <3>1, <4>2 DEF Importing, Removing
      <4> QED
        BY <4>1, <4>2
    <3> QED
      BY <2>5, <3>2, <3>3 DEF AsPlanned
  <2> QED
    BY <2>3, <2>4, <2>9
<1> QED
  BY <1>4, <1>5

LEMMA RemoveStep ==
  ASSUME MirrorInv, NEW p \in Syncers, RemoveEntry(p)
  PROVE  MirrorInv'
<1> USE DEF MirrorInv, MirrorShape, RemoveEntry
<1>1. PICK e \in gone[p] : Sends(RemoveCall(e)) /\ gone' = [gone EXCEPT ![p] = @ \ {e}]
  OBVIOUS
<1>2. PICK S : queued \in Seq(S)
  OBVIOUS
<1>3. Sends(RemoveCall(e)) /\ IsCall(RemoveCall(e))
  BY <1>1 DEF IsCall
<1>4. MirrorShape'
  <2>1. \E R : queued' \in Seq(R)
    <3>1. CASE queued' = queued
      BY <1>2, <3>1
    <3>2. CASE queued' = Append(queued, RemoveCall(e))
      <4> PICK call : call = RemoveCall(e)
        OBVIOUS
      <4>1. queued \in Seq(S \union {call})
        BY <1>2, SeqMonotonic
      <4> QED
        BY <3>2, <4>1, AppendProperties
    <3> QED
      BY <1>3, <3>1, <3>2 DEF Sends
  <2> QED
    BY <1>1, <2>1
<1>5. Mirroring'
  <2> SUFFICES ASSUME ~disturbed'
               PROVE  /\ \A i \in 1..Len(queued') : IsCall(queued'[i])
                      /\ (\E t : Leads(hostMemory, queued, t) /\ AsPlanned(t))'
    BY DEF Mirroring
  <2>1. ~disturbed
    BY <1>3 DEF Sends
  <2>2. PICK t : Leads(hostMemory, queued, t) /\ AsPlanned(t)
    BY <2>1 DEF Mirroring
  <2>3. /\ Leads(hostMemory', queued', Effect(RemoveCall(e), t))
        /\ \A i \in 1..Len(queued') : IsCall(queued'[i])
    <3>1. \A i \in 1..Len(queued) : IsCall(queued[i])
      BY <2>1 DEF Mirroring
    <3> QED
      BY <1>2, <1>3, <2>2, <3>1, SendsStep
  <2>4. PICK u : u = Effect(RemoveCall(e), t)
    OBVIOUS
  <2>5. IsMemory(u) /\ DOMAIN u = DOMAIN t \ {e} /\ \A x \in DOMAIN u : u[x] = t[x]
    <3>1. LET out == Effect(RemoveCall(e), t) IN
          IsMemory(out) /\ DOMAIN out = DOMAIN t \ {e} /\ \A x \in DOMAIN out : out[x] = t[x]
      BY ONLY RemoveEffect
    <3> QED
      BY <2>4, <3>1
  <2>6. PICK r : r = records[p]
    OBVIOUS
  <2>7. /\ gone[p] \intersect Entries(r) = {}
        /\ DOMAIN t = Entries(r) \union gone[p]
        /\ \A x \in Entries(r) : t[x] = Image(r)[x]
    BY <2>2, <2>6 DEF AsPlanned, Removing
  <2>8. \A q \in Syncers \ {p} : syncer[q] = "idle"
    BY <2>2 DEF AsPlanned, OneSyncs
  <2>9. AsPlanned(u)'
    <3>1. OneSyncs' /\ Before(u)'
      BY <2>8 DEF OneSyncs, Before
    <3>2. ASSUME NEW q \in Syncers PROVE Importing(q, u)' /\ Removing(q, u)'
      <4>1. CASE q = p
        <5>1. gone'[p] = gone[p] \ {e} /\ records'[p] = r /\ syncer'[p] = "remove"
          BY <1>1, <2>6
        <5>2. /\ gone'[p] \intersect Entries(r) = {}
              /\ DOMAIN u = Entries(r) \union gone'[p]
              /\ \A x \in Entries(r) : u[x] = Image(r)[x]
          BY <1>1, <2>5, <2>7, <5>1
        <5> QED
          BY <4>1, <5>1, <5>2 DEF Importing, Removing
      <4>2. CASE q # p
        <5>1. syncer'[q] = "idle"
          BY <2>8, <4>2
        <5> QED
          BY <5>1 DEF Importing, Removing
      <4> QED
        BY <4>1, <4>2
    <3> QED
      BY <2>5, <3>1, <3>2 DEF AsPlanned
  <2> QED
    BY <2>3, <2>4, <2>9
<1> QED
  BY <1>4, <1>5

LEMMA SyncStartStep ==
  ASSUME MirrorInv, NEW p \in Syncers, StartMemorySync(p)
  PROVE  MirrorInv'
<1> USE DEF MirrorInv, MirrorShape, StartMemorySync
<1>1. PICK r : r = Records
  OBVIOUS
<1>2. MirrorShape'
  OBVIOUS
<1>3. Mirroring'
  <2> SUFFICES ASSUME ~disturbed' PROVE (\E t : Leads(hostMemory, queued, t) /\ AsPlanned(t))'
    BY DEF Mirroring
  <2>1. ~disturbed /\ \A q \in Syncers : syncer[q] = "idle"
    OBVIOUS
  <2>2. PICK t : Leads(hostMemory, queued, t) /\ AsPlanned(t)
    BY <2>1 DEF Mirroring
  <2>3. PICK l : l = lastSync
    OBVIOUS
  <2>4. t = Image(l) /\ DOMAIN t = Entries(l)
    <3>1. t = Image(l)
      BY <2>1, <2>2, <2>3 DEF AsPlanned, Before
    <3> QED
      BY <3>1, ImageMemory
  <2>5. /\ records'[p] = r /\ gone'[p] = Entries(l) \ Entries(r)
        /\ syncer'[p] = IF r = << >> THEN "remove" ELSE "import"
        /\ \A q \in Syncers \ {p} : syncer'[q] = "idle"
    BY <1>1, <2>1, <2>3 DEF Gone
  <2>6. AsPlanned(t)'
    <3>1. OneSyncs' /\ Before(t)'
      BY <2>3, <2>4, <2>5 DEF OneSyncs, Before
    <3>2. ASSUME NEW q \in Syncers PROVE Importing(q, t)' /\ Removing(q, t)'
      <4>1. CASE q # p
        BY <2>5, <4>1 DEF Importing, Removing
      <4>2. CASE q = p /\ r # << >>
        BY <2>3, <2>5, <4>2 DEF Importing, Removing
      <4>3. CASE q = p /\ r = << >>
        <5>1. Entries(r) = {}
          BY <4>3, EmptyImage
        <5> QED
          BY <2>4, <2>5, <4>3, <5>1 DEF Importing, Removing
      <4> QED
        BY <4>1, <4>2, <4>3
    <3> QED
      BY <2>2, <3>1, <3>2 DEF AsPlanned
  <2> QED
    BY <2>2, <2>6
<1> QED
  BY <1>2, <1>3

\* The state file is written when nothing is left to remove: the host then holds the
\* records of this sync.
LEMMA SyncWriteStep ==
  ASSUME MirrorInv, NEW p \in Syncers, WriteState(p)
  PROVE  MirrorInv'
<1> USE DEF MirrorInv, MirrorShape, WriteState, Stops
<1>1. PICK r : r = records[p]
  OBVIOUS
<1>2. MirrorShape'
  OBVIOUS
<1>3. Mirroring'
  <2> SUFFICES ASSUME ~disturbed' PROVE (\E t : Leads(hostMemory, queued, t) /\ AsPlanned(t))'
    BY DEF Mirroring
  <2>1. PICK t : Leads(hostMemory, queued, t) /\ AsPlanned(t)
    BY DEF Mirroring
  <2>2. DOMAIN t = Entries(r) /\ \A x \in Entries(r) : t[x] = Image(r)[x]
    BY <1>1, <2>1 DEF AsPlanned, Removing
  <2>3. t = Image(r)
    <3>1. IsMemory(t) /\ IsMemory(Image(r)) /\ DOMAIN Image(r) = Entries(r)
      BY <2>1, ImageMemory DEF AsPlanned
    <3> QED
      BY <2>2, <3>1, SameMemory
  <2>4. lastSync' = r /\ \A q \in Syncers : syncer'[q] = "idle"
    BY <1>1, <2>1 DEF AsPlanned, OneSyncs
  <2>5. AsPlanned(t)'
    BY <2>1, <2>3, <2>4 DEF AsPlanned, OneSyncs, Before, Importing, Removing
  <2> QED
    BY <2>1, <2>5
<1> QED
  BY <1>2, <1>3

LEMMA BreakStep ==
  ASSUME MirrorInv, NEW p \in Syncers, BreakOff(p)
  PROVE  MirrorInv'
<1> USE DEF MirrorInv, MirrorShape, BreakOff, Stops
<1>1. MirrorShape'
  OBVIOUS
<1>2. Mirroring'
  <2> SUFFICES ASSUME ~disturbed' PROVE (\E t : Leads(hostMemory, queued, t) /\ AsPlanned(t))'
    BY DEF Mirroring
  <2>1. ~disturbed /\ syncer[p] = "import" /\ hostMemory' = hostMemory
    OBVIOUS
  <2>2. PICK t : Leads(hostMemory, queued, t) /\ AsPlanned(t)
    BY <2>1 DEF Mirroring
  <2>3. \A q \in Syncers : syncer'[q] = "idle" /\ (q # p => syncer[q] = "idle")
    BY <2>1, <2>2 DEF AsPlanned, OneSyncs
  <2>4. t = Image(lastSync)
    BY <2>1, <2>2, <2>3 DEF AsPlanned, Before
  <2>5. AsPlanned(t)'
    BY <2>2, <2>3, <2>4 DEF AsPlanned, OneSyncs, Before, Importing, Removing
  <2> QED
    BY <2>1, <2>2, <2>5
<1> QED
  BY <1>1, <1>2

LEMMA ReplayStep == MirrorInv /\ ReplayQueued => MirrorInv'
<1> SUFFICES ASSUME MirrorInv, ReplayQueued PROVE MirrorInv'
  OBVIOUS
<1> USE DEF MirrorInv, MirrorShape
<1>1. PICK S : queued \in Seq(S)
  OBVIOUS
<1>2. PICK q \in Seq(S), h \in {hostMemory} : q = queued /\ h = hostMemory
  BY <1>1
<1>3. PICK i \in 1..Len(q) :
        /\ hostMemory' \in Outcomes(q[i], h) /\ queued' \in {RemoveAt(q, i), q}
        /\ disturbed' = (disturbed \/ i # 1 \/ hostMemory' # Effect(q[i], h))
        /\ UNCHANGED <<files, lastSync, syncer, records, gone, edits>>
  BY <1>2 DEF ReplayQueued
<1>r. PICK less : less = RemoveAt(q, i)
  OBVIOUS
<1>4. /\ less \in Seq(S) /\ Len(less) = Len(q) - 1 /\ Len(q) \in Nat
      /\ \A j \in 1..(Len(q) - 1) : less[j] = IF j < i THEN q[j] ELSE q[j + 1]
  <2>1. /\ RemoveAt(q, i) \in Seq(S) /\ Len(RemoveAt(q, i)) = Len(q) - 1
        /\ \A j \in 1..(Len(q) - 1) : RemoveAt(q, i)[j] = IF j < i THEN q[j] ELSE q[j + 1]
    BY ONLY RemoveAtSeq
  <2> QED
    BY ONLY <1>r, <2>1
<1>5. MirrorShape'
  BY <1>2, <1>3, <1>4, <1>r
<1>6. Mirroring'
  <2> SUFFICES ASSUME ~disturbed'
               PROVE  /\ \A j \in 1..Len(queued') : IsCall(queued'[j])
                      /\ (\E t : Leads(hostMemory, queued, t) /\ AsPlanned(t))'
    BY DEF Mirroring
  <2>1. ~disturbed /\ i = 1 /\ hostMemory' = Effect(q[1], h)
    BY <1>3
  <2>2. PICK t : Leads(h, q, t) /\ AsPlanned(t)
    BY <1>2, <2>1 DEF Mirroring
  <2>3. \A j \in 1..Len(q) : IsCall(q[j])
    BY <1>2, <2>1 DEF Mirroring
  <2>4. AsPlanned(t)'
    BY <1>3, <2>2 DEF AsPlanned, OneSyncs, Before, Importing, Removing
  <2>5. CASE queued' = less
    <3>1. less = Tail(q)
      <4>1. /\ q # << >> /\ Tail(q) \in Seq(S) /\ Len(Tail(q)) = Len(q) - 1
            /\ \A j \in 1..(Len(q) - 1) : Tail(q)[j] = q[j + 1]
        BY <1>3, HeadTailProperties
      <4>2. \A j \in 1..(Len(q) - 1) : less[j] = q[j + 1]
        BY <1>4, <2>1
      <4> QED
        BY <1>4, <4>1, <4>2, SeqEqual
    <3>2. Head(q) = q[1] /\ q # << >>
      BY <1>3
    <3>3. Leads(Effect(q[1], h), less, t)
      BY <2>2, <3>1, <3>2, LeadsTail
    <3>4. \A j \in 1..Len(less) : IsCall(less[j])
      <4>1. \A j \in 1..(Len(q) - 1) : j + 1 \in 1..Len(q) /\ less[j] = q[j + 1]
        BY <1>4, <2>1
      <4> QED
        BY <1>4, <2>3, <4>1
    <3> QED
      BY <2>1, <2>4, <2>5, <3>3, <3>4
  <2>6. CASE queued' = q
    <3>1. q # << >> /\ IsCall(q[1])
      BY <1>3, <2>1, <2>3
    <3>2. Leads(Effect(q[1], h), q, t)
      BY <2>2, <3>1, LeadsStay
    <3> QED
      BY <2>1, <2>3, <2>4, <2>6, <3>2
  <2> QED
    BY <1>3, <1>r, <2>5, <2>6
<1> QED
  BY <1>5, <1>6

\* A call that is delivered late puts it all at risk.
LEMMA LateStep == MirrorInv /\ ReplayLate => MirrorInv'
<1> SUFFICES ASSUME MirrorInv, ReplayLate PROVE MirrorInv'
  OBVIOUS
<1> USE DEF MirrorInv, MirrorShape
<1>1. PICK S : queued \in Seq(S)
  OBVIOUS
<1>2. PICK c \in inHand : queued' = queued \/ queued' = <<c>> \o queued
  BY DEF ReplayLate
<1>3. \E R : queued' \in Seq(R)
  <2>1. PICK q \in Seq(S \union {c}) : q = queued
    BY <1>1, SeqMonotonic
  <2>2. <<c>> \o q \in Seq(S \union {c})
    OBVIOUS
  <2> QED
    BY <1>2, <2>1, <2>2
<1> QED
  BY <1>3 DEF ReplayLate, Mirroring

LEMMA MirrorNext == MirrorInv /\ [RepoMemoryNext]_repoMemoryVars => MirrorInv'
<1> SUFFICES ASSUME MirrorInv, [RepoMemoryNext]_repoMemoryVars PROVE MirrorInv'
  OBVIOUS
<1>1. ASSUME UNCHANGED <<hostMemory, queued, lastSync, syncer, records, gone, disturbed>>
      PROVE  MirrorInv'
  <2>1. MirrorShape'
    BY <1>1 DEF MirrorInv, MirrorShape
  <2>2. ASSUME NEW t, AsPlanned(t) PROVE AsPlanned(t)'
    BY <1>1, <2>2 DEF AsPlanned, OneSyncs, Before, Importing, Removing
  <2>3. Mirroring'
    BY <1>1, <2>2 DEF MirrorInv, Mirroring
  <2> QED
    BY <2>1, <2>3 DEF MirrorInv
<1>2. ASSUME NEW f \in ToSet(Files), EditFile(f) PROVE MirrorInv'
  BY <1>1, <1>2 DEF EditFile
<1>3. CASE UNCHANGED repoMemoryVars
  BY <1>1, <1>3 DEF repoMemoryVars
<1> QED
  BY <1>2, <1>3, SyncStartStep, ImportStep, RemoveStep, SyncWriteStep, BreakStep, ReplayStep, LateStep
     DEF RepoMemoryNext

\* The host holds the memories of the last completed sync whenever the outbox is empty
\* and no sync is at work (sync_copilot_repo_memories_to_server).
THEOREM HostHoldsTheFiles == RepoMemorySpec => []HostMirrorsFiles
<1>1. MirrorInv => HostMirrorsFiles
  <2> SUFFICES ASSUME MirrorInv, ~disturbed, queued = << >>,
                      \A p \in Syncers : syncer[p] = "idle"
               PROVE  hostMemory = Image(lastSync)
    BY DEF HostMirrorsFiles
  <2>1. PICK t : Leads(hostMemory, queued, t) /\ AsPlanned(t)
    BY DEF MirrorInv, Mirroring
  <2>2. t = Image(lastSync)
    BY <2>1 DEF AsPlanned, Before
  <2>3. hostMemory = t
    BY <2>1, LeadsEmpty
  <2> QED
    BY <2>2, <2>3
<1> QED
  BY MirrorInit, MirrorNext, <1>1, PTL DEF RepoMemorySpec

(***************************************************************************)
(* What the helpers on sequences return.                                   *)
(***************************************************************************)

LEMMA InSet ==
  ASSUME NEW S, NEW s \in Seq(S)
  PROVE  ToSet(s) \subseteq S /\ \A e : e \in ToSet(s) <=> \E i \in 1..Len(s) : e = s[i]
  BY DEF ToSet

LEMMA LastOfElements ==
  ASSUME NEW S, NEW s \in Seq(S), NEW n \in Nat
  PROVE  LET out == LastOf(s, n) IN
         /\ out \in Seq(S) /\ ToSet(out) \subseteq ToSet(s)
         /\ Len(out) = IF Len(s) > n THEN n ELSE Len(s)
         /\ \A i \in 1..Len(out) : out[i] = s[Len(s) - Len(out) + i]
<1> DEFINE m == IF Len(s) > n THEN Len(s) - n + 1 ELSE 1
           l == Len(s)
           t == SubSeq(s, m, l)
<1>1. l \in Nat /\ m \in 1..(l + 1) /\ \A i \in m..l : s[i] \in S
  OBVIOUS
<1> HIDE DEF m
<1>2. /\ t \in Seq(S) /\ Len(t) = IF m <= l THEN l - m + 1 ELSE 0
      /\ \A i \in 1..(l - m + 1) : t[i] = s[m + i - 1]
  BY <1>1, SubSeqProperties
<1>3. Len(t) = l - m + 1
  BY <1>1, <1>2
<1> HIDE DEF t
<1>4. Len(t) = IF l > n THEN n ELSE l
  BY <1>1, <1>3 DEF m
<1> HIDE DEF l
<1>5. \A i \in 1..Len(t) : t[i] = s[l - Len(t) + i] /\ l - Len(t) + i \in 1..l
  <2> SUFFICES ASSUME NEW i \in 1..Len(t) PROVE t[i] = s[l - Len(t) + i] /\ l - Len(t) + i \in 1..l
    OBVIOUS
  <2>1. m + i - 1 = l - Len(t) + i /\ i \in 1..(l - m + 1) /\ m + i - 1 \in 1..l
    BY <1>1, <1>3
  <2> QED
    BY <1>2, <2>1
<1>6. ToSet(t) \subseteq ToSet(s)
  BY <1>2, <1>5, InSet DEF l
<1>7. LastOf(s, n) = t
  BY DEF LastOf, t, m, l
<1> QED
  BY <1>2, <1>4, <1>5, <1>6, <1>7 DEF l

LEMMA AppendElements ==
  ASSUME NEW S, NEW s \in Seq(S), NEW e \in S
  PROVE  LET out == Append(s, e) IN
         /\ out \in Seq(S) /\ ToSet(out) = ToSet(s) \union {e}
         /\ Len(out) = Len(s) + 1 /\ out[Len(out)] = e /\ \A i \in 1..Len(s) : out[i] = s[i]
<1> DEFINE t == Append(s, e)
<1>1. /\ t \in Seq(S) /\ Len(t) = Len(s) + 1 /\ t[Len(s) + 1] = e
      /\ \A i \in 1..Len(s) : t[i] = s[i]
  BY AppendProperties
<1>2. Len(s) \in Nat
  OBVIOUS
<1> HIDE DEF t
<1>3. \A x : x \in ToSet(t) <=> x \in ToSet(s) \union {e}
  BY <1>1, <1>2, InSet
<1>4. ToSet(t) = ToSet(s) \union {e}
  BY <1>3
<1> QED
  BY <1>1, <1>4 DEF t

\* The last of what was cut and extended is the last of the whole.
LEMMA LastOfAppend ==
  ASSUME NEW S, NEW s \in Seq(S), NEW e \in S, NEW n \in Nat
  PROVE  LastOf(Append(LastOf(s, n), e), n) = LastOf(Append(s, e), n)
<1>1. PICK t : t = LastOf(s, n)
  OBVIOUS
<1>2. /\ t \in Seq(S) /\ Len(t) = IF Len(s) > n THEN n ELSE Len(s)
      /\ \A i \in 1..Len(t) : t[i] = s[Len(s) - Len(t) + i]
  BY <1>1, LastOfElements
<1>3. PICK a : a = Append(t, e)
  OBVIOUS
<1>4. /\ a \in Seq(S) /\ Len(a) = Len(t) + 1 /\ a[Len(t) + 1] = e
      /\ \A i \in 1..Len(t) : a[i] = t[i]
  BY <1>2, <1>3, AppendProperties
<1>5. PICK b : b = Append(s, e)
  OBVIOUS
<1>6. /\ b \in Seq(S) /\ Len(b) = Len(s) + 1 /\ b[Len(s) + 1] = e
      /\ \A i \in 1..Len(s) : b[i] = s[i]
  BY <1>5, AppendProperties
<1>7. a \in Seq(S) /\ b \in Seq(S)
  BY <1>4, <1>6
<1> PICK x : x = LastOf(a, n)
  OBVIOUS
<1> PICK y : y = LastOf(b, n)
  OBVIOUS
<1>8. /\ x \in Seq(S) /\ Len(x) = IF Len(a) > n THEN n ELSE Len(a)
      /\ \A i \in 1..Len(x) : x[i] = a[Len(a) - Len(x) + i]
  BY <1>7, LastOfElements
<1>9. /\ y \in Seq(S) /\ Len(y) = IF Len(b) > n THEN n ELSE Len(b)
      /\ \A i \in 1..Len(y) : y[i] = b[Len(b) - Len(y) + i]
  BY <1>7, LastOfElements
<1>10. Len(s) \in Nat /\ Len(t) \in Nat /\ Len(x) = Len(y) /\ Len(x) <= Len(a)
  BY <1>2, <1>4, <1>6, <1>8, <1>9
<1>11. ASSUME NEW i \in 1..Len(x) PROVE x[i] = y[i]
  <2> DEFINE j == Len(a) - Len(x) + i
             k == Len(b) - Len(y) + i
  <2>1. x[i] = a[j] /\ y[i] = b[k]
    BY <1>8, <1>9, <1>10
  <2>2. j \in 1..Len(a) /\ k = j + (Len(s) - Len(t)) /\ k \in 1..Len(b) /\ j \in Nat
    <3>1. /\ Len(a) = Len(t) + 1 /\ Len(b) = Len(s) + 1 /\ Len(t) <= Len(s)
          /\ Len(s) \in Nat /\ Len(t) \in Nat /\ Len(x) \in Nat
      BY <1>2, <1>4, <1>6, <1>10
    <3> QED
      BY <1>10, <3>1
  <2> HIDE DEF j, k
  <2>3. CASE j = Len(t) + 1
    <3>1. k = Len(s) + 1
      BY <1>10, <2>2, <2>3
    <3> QED
      BY <1>4, <1>6, <2>1, <2>3, <3>1
  <2>4. CASE j # Len(t) + 1
    <3>1. j \in 1..Len(t) /\ k \in 1..Len(s) /\ Len(s) - Len(t) + j = k
      BY <1>2, <1>4, <1>6, <1>10, <2>2, <2>4
    <3>2. a[j] = t[j] /\ t[j] = s[k] /\ b[k] = s[k]
      BY <1>2, <1>4, <1>6, <3>1
    <3> QED
      BY <2>1, <3>2
  <2> QED
    BY <2>3, <2>4
<1>12. x = y
  BY <1>8, <1>9, <1>10, <1>11, SeqEqual
<1> QED
  BY <1>1, <1>3, <1>5, <1>12

\* What a sequence holds beyond a place.
LEMMA RestElements ==
  ASSUME NEW S, NEW s \in Seq(S), NEW k \in Nat \ {0}
  PROVE  SubSeq(s, k, Len(s)) \in Seq(S) /\ (s = << >> => SubSeq(s, k, Len(s)) = << >>)
<1>1. \A i \in k..Len(s) : s[i] \in S
  OBVIOUS
<1>2. SubSeq(s, k, Len(s)) \in Seq(S)
  BY <1>1, SubSeqProperties
<1>3. ASSUME s = << >> PROVE SubSeq(s, k, Len(s)) = << >>
  <2>1. Len(s) = 0
    BY <1>3
  <2> QED
    BY <2>1, SubSeqEmpty
<1> QED
  BY <1>2, <1>3

\* A sequence written over an empty file.
LEMMA WriteBack ==
  ASSUME NEW S, NEW c \in Seq(S)
  PROVE  c \o SubSeq(<< >>, Len(c) + 1, Len(<< >>)) = c
<1>1. Len(c) + 1 \in Nat \ {0} /\ << >> \in Seq(S)
  OBVIOUS
<1>2. SubSeq(<< >>, Len(c) + 1, Len(<< >>)) = << >>
  BY <1>1, RestElements
<1> QED
  BY <1>2, ConcatEmptySeq

LEMMA LeastNat ==
  ASSUME NEW T, T \subseteq Nat, T # {}
  PROVE  \E m \in T : \A n \in T : m <= n
<1>1. IsWellFoundedOn(OpToRel(<, Nat), Nat)
  BY NatLessThanWellFounded
<1>2. PICK m \in T : \A n \in T : ~(<<n, m>> \in OpToRel(<, Nat))
  BY <1>1, WFMin
<1>3. \A n \in T : ~(n < m)
  BY <1>2 DEF OpToRel
<1> QED
  BY <1>3

\* The steps of a selection.
Selecting(kept, s, S, n) ==
  kept = [i \in 0..n |-> IF i = 0 THEN << >>
                         ELSE IF s[i] \in S THEN Append(kept[i - 1], s[i]) ELSE kept[i - 1]]

LEMMA SelectingExists ==
  ASSUME NEW s, NEW S, NEW n \in Nat
  PROVE  \E kept : Selecting(kept, s, S, n)
<1> DEFINE T == {m \in Nat : ~\E kept : Selecting(kept, s, S, m)}
<1>1. 0 \notin T
  <2> DEFINE none == [i \in 0..0 |-> << >>]
  <2>1. Selecting(none, s, S, 0)
    BY DEF Selecting
  <2> QED
    BY <2>1
<1>2. ASSUME T # {} PROVE FALSE
  <2>1. PICK m \in T : \A k \in T : m <= k
    <3> HIDE DEF T
    <3>1. T \subseteq Nat
      BY DEF T
    <3> QED
      BY <1>2, <3>1, LeastNat
  <2>2. m \in Nat /\ m # 0 /\ m - 1 \in Nat /\ m - 1 \notin T
    BY <1>1, <2>1
  <2>3. PICK kept : Selecting(kept, s, S, m - 1)
    BY <2>2
  <2> DEFINE last == IF s[m] \in S THEN Append(kept[m - 1], s[m]) ELSE kept[m - 1]
             more == [i \in 0..m |-> IF i = m THEN last ELSE kept[i]]
             next(f, i) == IF i = 0 THEN << >>
                           ELSE IF s[i] \in S THEN Append(f[i - 1], s[i]) ELSE f[i - 1]
  <2>4. \A i \in 0..(m - 1) : kept[i] = next(kept, i)
    BY <2>3 DEF Selecting
  <2> HIDE DEF last
  <2>5. \A i \in 0..m : more[i] = next(more, i)
    <3> SUFFICES ASSUME NEW i \in 0..m PROVE more[i] = next(more, i)
      OBVIOUS
    <3>1. CASE i = m
      <4>1. more[i] = last /\ more[i - 1] = kept[m - 1]
        BY <2>2, <3>1
      <4> QED
        BY <2>2, <3>1, <4>1 DEF last
    <3>2. CASE i = 0
      BY <2>2, <2>4, <3>2
    <3>3. CASE i # m /\ i # 0
      <4>1. i \in 0..(m - 1) /\ i - 1 \in 0..m /\ i - 1 # m
        BY <2>2, <3>3
      <4>2. more[i] = kept[i] /\ more[i - 1] = kept[i - 1]
        BY <3>3, <4>1
      <4> QED
        BY <2>4, <3>3, <4>1, <4>2
    <3> QED
      BY <3>1, <3>2, <3>3
  <2>6. more = [i \in 0..m |-> next(more, i)]
    <3>1. more = [i \in 0..m |-> more[i]]
      OBVIOUS
    <3> HIDE DEF more, next
    <3> QED
      BY <2>5, <3>1
  <2>7. Selecting(more, s, S, m)
    <3> HIDE DEF more
    <3> QED
      BY <2>6 DEF Selecting
  <2> QED
    BY <2>1, <2>7
<1> QED
  BY <1>2

LEMMA SelectInElements ==
  ASSUME NEW T, NEW s \in Seq(T), NEW S
  PROVE  SelectIn(s, S) \in Seq(T) /\ ToSet(SelectIn(s, S)) = ToSet(s) \intersect S
<1>1. PICK n : n = Len(s)
  OBVIOUS
<1>2. n \in Nat
  BY <1>1
<1> DEFINE kept == CHOOSE f : Selecting(f, s, S, n)
<1>3. SelectIn(s, S) = kept[n]
  BY <1>1 DEF SelectIn, Selecting
<1>4. Selecting(kept, s, S, n)
  BY <1>2, SelectingExists
<1> HIDE DEF kept
<1> DEFINE good(i) == /\ kept[i] \in Seq(T)
                      /\ \A e : e \in ToSet(kept[i]) <=> e \in S /\ \E j \in 1..i : e = s[j]
           bad == {i \in 0..n : ~good(i)}
<1>5. good(0)
  <2>1. kept[0] = << >>
    BY <1>2, <1>4 DEF Selecting
  <2>2. << >> \in Seq(T) /\ ToSet(<< >>) = {}
    BY DEF ToSet
  <2> QED
    BY <2>1, <2>2
<1>6. ASSUME NEW i \in 1..n, good(i - 1) PROVE good(i)
  <2> HIDE DEF good
  <2>1. kept[i] = IF s[i] \in S THEN Append(kept[i - 1], s[i]) ELSE kept[i - 1]
    <3>1. i \in 0..n /\ i # 0
      BY <1>2
    <3> QED
      BY <1>4, <3>1 DEF Selecting
  <2>2. s[i] \in T /\ i - 1 \in Nat
    BY <1>1, <1>2
  <2>3. PICK k : k = kept[i - 1]
    OBVIOUS
  <2>4. k \in Seq(T) /\ \A e : e \in ToSet(k) <=> e \in S /\ \E j \in 1..(i - 1) : e = s[j]
    BY <1>6, <2>3 DEF good
  <2>5. \A e : (\E j \in 1..i : e = s[j]) <=> (e = s[i] \/ \E j \in 1..(i - 1) : e = s[j])
    BY <1>2
  <2>6. CASE s[i] \in S
    <3>1. kept[i] = Append(k, s[i])
      BY <2>1, <2>3, <2>6
    <3>2. kept[i] \in Seq(T) /\ ToSet(kept[i]) = ToSet(k) \union {s[i]}
      BY <2>2, <2>4, <3>1, AppendElements
    <3> QED
      BY <2>4, <2>5, <2>6, <3>2 DEF good
  <2>7. CASE s[i] \notin S
    <3>1. kept[i] = k
      BY <2>1, <2>3, <2>7
    <3> QED
      BY <2>4, <2>5, <2>7, <3>1 DEF good
  <2> QED
    BY <2>6, <2>7
<1>7. bad = {}
  <2> SUFFICES ASSUME bad # {} PROVE FALSE
    OBVIOUS
  <2>1. bad \subseteq Nat /\ \A i \in bad : i \in 0..n /\ ~good(i)
    BY <1>2
  <2>2. PICK m \in bad : \A k \in bad : m <= k
    <3> HIDE DEF bad
    <3> QED
      BY <2>1, LeastNat
  <2>3. m # 0 /\ m \in 1..n /\ m - 1 \in 0..n /\ m - 1 \notin bad
    <3>1. m # 0
      <4> HIDE DEF good
      <4> QED
        BY <1>5, <2>1
    <3> HIDE DEF bad
    <3> QED
      BY <1>2, <2>1, <2>2, <3>1
  <2>4. good(m - 1)
    <3> HIDE DEF good
    <3> QED
      BY <2>3
  <2>5. good(m)
    <3> HIDE DEF good
    <3> QED
      BY <1>6, <2>3, <2>4
  <2> HIDE DEF good
  <2> QED
    BY <2>1, <2>5
<1>8. good(n)
  <2> HIDE DEF good
  <2> QED
    BY <1>2, <1>7
<1>9. \A e : e \in ToSet(s) <=> \E j \in 1..n : e = s[j]
  BY <1>1, InSet
<1> QED
  BY <1>3, <1>8, <1>9

(***************************************************************************)
(* Types.                                                                  *)
(***************************************************************************)

Cutting(h) == hook[h] \in {"cut", "cutSync"}
Adding(h) == hook[h] \in {"append", "appendSync"} \/ Rewrites(h)

\* A hook that is to append an event has one.
JournalShape == JournalTypeOK /\ \A h \in Hooks : Adding(h) => event[h] \in Events

LEMMA ShapeInit == JournalInit => JournalShape
<1> SUFFICES ASSUME JournalInit PROVE JournalShape
  OBVIOUS
<1> USE DEF JournalInit
<1>1. MaxClock \in Nat /\ MaxKilled \in Nat /\ 0 \in 0..MaxClock /\ 0 \in 0..MaxKilled
  BY JournalAssumption
<1>2. << >> \in Seq(Events)
  OBVIOUS
<1>3. {overlapped, raced, torn} \subseteq BOOLEAN
  OBVIOUS
<1>4. /\ hook \in [Hooks -> {"idle", "append", "appendSync", "loaded", "loadedSync", "cut",
                             "cutSync", "sync", "recent", "posted", "marked"}]
      /\ event \in [Hooks -> 0..MaxClock] /\ copy \in [Hooks -> Seq(Events)]
      /\ sent \in [Events -> Nat]
  BY <1>1, <1>2
<1>5. \A h \in Hooks : ~Adding(h)
  BY DEF Adding, Rewrites
<1> QED
  BY <1>1, <1>2, <1>3, <1>4, <1>5 DEF JournalShape, JournalTypeOK

LEMMA RetainedElements ==
  ASSUME NEW s \in Seq(Events), NEW e \in Events
  PROVE  LET out == Retained(Append(s, e)) IN
         /\ out \in Seq(Events) /\ ToSet(out) \subseteq ToSet(s) \union {e}
         /\ out # << >> /\ Last(out) = e
<1>1. PICK a : a = Append(s, e)
  OBVIOUS
<1>2. /\ a \in Seq(Events) /\ ToSet(a) = ToSet(s) \union {e}
      /\ Len(a) \in Nat \ {0} /\ a[Len(a)] = e
  BY <1>1, AppendElements
<1>3. MaxEvents \in Nat \ {0}
  BY JournalAssumption
<1>4. PICK r : r = LastOf(a, MaxEvents)
  OBVIOUS
<1>5. /\ r \in Seq(Events) /\ ToSet(r) \subseteq ToSet(a)
      /\ Len(r) = IF Len(a) > MaxEvents THEN MaxEvents ELSE Len(a)
      /\ \A i \in 1..Len(r) : r[i] = a[Len(a) - Len(r) + i]
  <2>1. a \in Seq(Events) /\ MaxEvents \in Nat
    BY <1>2, <1>3
  <2> QED
    BY <1>4, <2>1, LastOfElements
<1>6. Len(r) \in 1..Len(r) /\ Len(a) - Len(r) + Len(r) = Len(a)
  BY <1>2, <1>3, <1>5
<1>7. r[Len(r)] = e
  BY <1>2, <1>5, <1>6
<1>8. r # << >>
  BY <1>6
<1> QED
  BY <1>1, <1>2, <1>4, <1>5, <1>7, <1>8 DEF Retained, Last

LEMMA UnsyncedElements ==
  ASSUME JournalTypeOK
  PROVE  Unsynced \in Seq(Events) /\ ToSet(Unsynced) = {e \in ToSet(journal) : e > syncedTo}
<1>1. PICK S : S = {e \in Events : e > syncedTo}
  OBVIOUS
<1>2. PICK j \in Seq(Events) : j = journal
  BY DEF JournalTypeOK
<1>3. SelectIn(j, S) \in Seq(Events) /\ ToSet(SelectIn(j, S)) = ToSet(j) \intersect S
  BY SelectInElements
<1>4. ToSet(j) \subseteq Events
  BY InSet
<1>5. Unsynced = SelectIn(j, S)
  BY <1>1, <1>2 DEF Unsynced
<1> QED
  BY <1>1, <1>2, <1>3, <1>4, <1>5

\* The events a sync loads, and those it has room for.
LEMMA RecentElements ==
  ASSUME JournalTypeOK
  PROVE  /\ LastOf(Unsynced, RecentLimit) \in Seq(Events)
         /\ ToSet(LastOf(Unsynced, RecentLimit)) \subseteq ToSet(Unsynced)
<1>1. PICK u : u = Unsynced
  OBVIOUS
<1>2. u \in Seq(Events) /\ RecentLimit \in Nat
  BY <1>1, UnsyncedElements, JournalAssumption
<1>3. LastOf(u, RecentLimit) \in Seq(Events) /\ ToSet(LastOf(u, RecentLimit)) \subseteq ToSet(u)
  BY <1>2, LastOfElements
<1> QED
  BY <1>1, <1>3

LEMMA ChosenElements ==
  ASSUME JournalTypeOK, NEW h \in Hooks, NEW room \in Nat
  PROVE  Chosen(h, room) \subseteq ToSet(copy[h]) \intersect Durable
<1>1. PICK c \in Seq(Events) : c = copy[h]
  BY DEF JournalTypeOK
<1>2. PICK d : d = SelectIn(c, Durable)
  OBVIOUS
<1>3. d \in Seq(Events) /\ ToSet(d) = ToSet(c) \intersect Durable
  BY <1>2, SelectInElements
<1>4. ToSet(LastOf(d, room)) \subseteq ToSet(d)
  BY <1>3, LastOfElements
<1> QED
  BY <1>1, <1>2, <1>3, <1>4 DEF Chosen

LEMMA ShapeNext == JournalShape /\ [JournalNext]_journalVars => JournalShape'
<1> SUFFICES ASSUME JournalShape, [JournalNext]_journalVars PROVE JournalShape'
  OBVIOUS
<1> USE DEF JournalShape, JournalTypeOK, Adding, Rewrites, At, Goes, journalHistory
<1>1. ASSUME NEW h \in Hooks, HookFires(h) PROVE JournalShape'
  BY <1>1, JournalAssumption DEF HookFires, Events
<1>2. ASSUME NEW h \in Hooks, LoadJournal(h) PROVE JournalShape'
  <2>1. PICK j, e : j = journal /\ e = event[h]
    OBVIOUS
  <2>2. j \in Seq(Events) /\ e \in Events
    BY <1>2, <2>1 DEF LoadJournal
  <2>3. Retained(Append(j, e)) \in Seq(Events)
    BY <2>2, RetainedElements
  <2>4. copy' = [copy EXCEPT ![h] = Retained(Append(j, e))]
    BY <1>2, <2>1 DEF LoadJournal
  <2>5. copy' \in [Hooks -> Seq(Events)]
    BY <2>3, <2>4
  <2>6. crowded' \subseteq Events
    <3>1. ToSet(Unsynced) \subseteq Events
      BY UnsyncedElements, InSet
    <3> QED
      BY <1>2, <3>1 DEF LoadJournal
  <2>7. raced' \in BOOLEAN
    BY <1>2 DEF LoadJournal
  <2> QED
    BY <1>2, <2>5, <2>6, <2>7 DEF LoadJournal
<1>3. ASSUME NEW h \in Hooks, CutJournal(h) PROVE JournalShape'
  BY <1>3 DEF CutJournal
<1>4. ASSUME NEW h \in Hooks, WriteJournal(h) PROVE JournalShape'
  <2>1. PICK j \in Seq(Events), c \in Seq(Events) : j = journal /\ c = copy[h]
    OBVIOUS
  <2>2. Len(c) + 1 \in Nat \ {0}
    OBVIOUS
  <2>3. SubSeq(j, Len(c) + 1, Len(j)) \in Seq(Events)
    BY <2>2, RestElements
  <2>4. c \o SubSeq(j, Len(c) + 1, Len(j)) \in Seq(Events)
    BY <2>3, ConcatProperties
  <2>5. journal' \in Seq(Events)
    BY <1>4, <2>1, <2>4 DEF WriteJournal
  <2>6. logged' \in Seq(Events)
    <3>1. event[h] \in Events /\ logged' = Append(logged, event[h])
      BY <1>4 DEF WriteJournal
    <3> QED
      BY <3>1, AppendProperties
  <2>7. copy' \in [Hooks -> Seq(Events)]
    BY <1>4 DEF WriteJournal
  <2> QED
    BY <1>4, <2>5, <2>6, <2>7, JournalAssumption DEF WriteJournal
<1>5. ASSUME NEW h \in Hooks, Debounced(h) PROVE JournalShape'
  BY <1>5 DEF Debounced
<1>6. ASSUME NEW h \in Hooks, LoadRecent(h), overlapped' \in BOOLEAN PROVE JournalShape'
  <2>1. copy' \in [Hooks -> Seq(Events)]
    BY <1>6, RecentElements DEF LoadRecent
  <2>2. crowded' \subseteq Events
    <3>1. ToSet(Unsynced) \subseteq Events
      BY UnsyncedElements, InSet
    <3> QED
      BY <1>6, <3>1 DEF LoadRecent
  <2> QED
    BY <1>6, <2>1, <2>2 DEF LoadRecent
<1>7. ASSUME NEW h \in Hooks, HookSyncs(h) \/ SessionSyncs(h) PROVE JournalShape'
  <2>1. overlapped' \in BOOLEAN
    BY <1>7 DEF HookSyncs, SessionSyncs
  <2> QED
    BY <1>6, <1>7, <2>1 DEF HookSyncs, SessionSyncs
<1>8. ASSUME NEW h \in Hooks, Post(h) PROVE JournalShape'
  <2>1. copy' \in [Hooks -> Seq(Events)]
    BY <1>8 DEF Post
  <2>2. sent' \in [Events -> Nat]
    BY <1>8 DEF Post
  <2>3. crowded' \subseteq Events
    <3>1. crowded' \subseteq crowded \union ToSet(copy[h])
      BY <1>8 DEF Post
    <3>2. ToSet(copy[h]) \subseteq Events
      BY InSet
    <3> QED
      BY <3>1, <3>2
  <2>4. hook' \in [Hooks -> {"idle", "append", "appendSync", "loaded", "loadedSync", "cut",
                             "cutSync", "sync", "recent", "posted", "marked"}]
        /\ \A g \in Hooks : Adding(g)' => Adding(g)
    BY <1>8 DEF Post
  <2> QED
    BY <1>8, <2>1, <2>2, <2>3, <2>4 DEF Post
<1>9. ASSUME NEW h \in Hooks, MarkHosted(h) PROVE JournalShape'
  BY <1>9 DEF MarkHosted
<1>10. ASSUME NEW h \in Hooks, MarkJournal(h) PROVE JournalShape'
  <2>1. LatestEvent \in 0..MaxClock
    BY JournalAssumption DEF LatestEvent, Last, Events
  <2> QED
    BY <1>10, <2>1 DEF MarkJournal
<1>11. ASSUME NEW h \in Hooks, KillHook(h) PROVE JournalShape'
  <2>1. torn' \in BOOLEAN
    BY <1>11 DEF KillHook
  <2> QED
    BY <1>11, <2>1, JournalAssumption DEF KillHook
<1>12. CASE UNCHANGED journalVars
  BY <1>12 DEF journalVars
<1> QED
  BY <1>1, <1>2, <1>3, <1>4, <1>5, <1>7, <1>8, <1>9, <1>10, <1>11, <1>12
     DEF JournalNext, JournalStep

(***************************************************************************)
(* The inductive invariant of the journal: while nobody has raced, at most *)
(* one hook is about to rewrite it, and that one holds all it is to hold.  *)
(***************************************************************************)

Journaled == LastOf(logged, MaxEvents)

LastKept ==
  /\ \A g, h \in Hooks : Rewrites(g) /\ Rewrites(h) => g = h
  /\ \A h \in Hooks : Rewrites(h) => copy[h] = LastOf(Append(logged, event[h]), MaxEvents)
  /\ \A h \in Hooks : Cutting(h) => journal = << >>
  /\ (\A h \in Hooks : ~Cutting(h)) => journal = Journaled

KeepInv == JournalShape /\ (~raced /\ ~torn => LastKept)

LEMMA KeepInit == JournalInit => KeepInv
<1> SUFFICES ASSUME JournalInit PROVE KeepInv
  OBVIOUS
<1>1. LastOf(<< >>, MaxEvents) = << >>
  <2>0. << >> \in Seq(Events)
    OBVIOUS
  <2>1. PICK none \in Seq(Events) : none = << >>
    BY <2>0
  <2>2. MaxEvents \in Nat /\ Len(none) = 0
    BY <2>1, JournalAssumption
  <2>3. PICK r : r = LastOf(none, MaxEvents)
    OBVIOUS
  <2>4. r \in Seq(Events) /\ Len(r) = IF Len(none) > MaxEvents THEN MaxEvents ELSE Len(none)
    BY <2>2, <2>3, LastOfElements
  <2>5. r = << >>
    BY <2>2, <2>4, EmptySeq
  <2> QED
    BY <2>1, <2>3, <2>5
<1>2. LastKept
  BY <1>1 DEF JournalInit, LastKept, Rewrites, Cutting, Journaled
<1> QED
  BY <1>2, ShapeInit DEF KeepInv

\* A step that touches neither the file nor what a hook is to write.
LEMMA KeptStays ==
  ASSUME JournalShape, LastKept, UNCHANGED <<journal, logged>>,
         \A h \in Hooks : /\ Rewrites(h)' => /\ Rewrites(h)
                                             /\ copy'[h] = copy[h] /\ event'[h] = event[h]
                          /\ Cutting(h)' <=> Cutting(h)
  PROVE  LastKept'
<1>1. (\A g, h \in Hooks : Rewrites(g) /\ Rewrites(h) => g = h)'
  BY DEF LastKept
<1>2. (\A h \in Hooks : Rewrites(h) => copy[h] = LastOf(Append(logged, event[h]), MaxEvents))'
  BY DEF LastKept
<1>3. (\A h \in Hooks : Cutting(h) => journal = << >>)'
  BY DEF LastKept
<1>4. ((\A h \in Hooks : ~Cutting(h)) => journal = Journaled)'
  BY DEF LastKept, Journaled
<1> QED
  BY <1>1, <1>2, <1>3, <1>4 DEF LastKept

LEMMA KeptLoad ==
  ASSUME JournalShape, LastKept, NEW h \in Hooks, LoadJournal(h), ~raced'
  PROVE  LastKept'
<1> USE DEF LoadJournal, JournalShape, JournalTypeOK
<1>1. \A g \in Hooks : ~Rewrites(g)
  OBVIOUS
<1>2. \A g \in Hooks : ~Cutting(g)
  BY <1>1 DEF Cutting, Rewrites
<1>3. PICK l \in Seq(Events), e \in Events : l = logged /\ e = event[h]
  BY DEF Adding
<1>4. journal = LastOf(l, MaxEvents)
  BY <1>2, <1>3 DEF LastKept, Journaled
<1>5. copy'[h] = LastOf(Append(LastOf(l, MaxEvents), e), MaxEvents)
  BY <1>3, <1>4 DEF Retained
<1>6. copy'[h] = LastOf(Append(l, e), MaxEvents)
  <2>1. MaxEvents \in Nat
    BY JournalAssumption
  <2> QED
    BY <1>5, <2>1, LastOfAppend
<1>7. \A g \in Hooks : /\ Rewrites(g)' <=> g = h
                       /\ ~Cutting(g)'
  BY <1>1, <1>2 DEF Goes, At, Rewrites, Cutting
<1>8. (\A g \in Hooks : Rewrites(g) => copy[g] = LastOf(Append(logged, event[g]), MaxEvents))'
  BY <1>3, <1>6, <1>7
<1>9. journal' = Journaled'
  BY <1>3, <1>4 DEF Journaled
<1> QED
  BY <1>7, <1>8, <1>9 DEF LastKept

LEMMA KeptCut ==
  ASSUME JournalShape, LastKept, NEW h \in Hooks, CutJournal(h)
  PROVE  LastKept'
<1> USE DEF CutJournal, JournalShape, JournalTypeOK, journalHistory
<1>1. Rewrites(h) /\ Rewrites(h)' /\ Cutting(h)'
  BY DEF Rewrites, Cutting, Goes, At
<1>2. \A g \in Hooks : Rewrites(g)' <=> Rewrites(g)
  BY DEF Rewrites, Goes, At
<1>3. (\A g \in Hooks : Rewrites(g) => copy[g] = LastOf(Append(logged, event[g]), MaxEvents))'
  BY <1>2 DEF LastKept
<1>4. (\A f, g \in Hooks : Rewrites(f) /\ Rewrites(g) => f = g)'
  BY <1>2 DEF LastKept
<1> QED
  BY <1>1, <1>3, <1>4 DEF LastKept

LEMMA KeptWrite ==
  ASSUME JournalShape, LastKept, NEW h \in Hooks, WriteJournal(h)
  PROVE  LastKept'
<1> USE DEF WriteJournal, JournalShape, JournalTypeOK
<1>1. Rewrites(h) /\ Cutting(h)
  BY DEF Rewrites, Cutting
<1>2. journal = << >> /\ \A g \in Hooks : Rewrites(g) => g = h
  BY <1>1 DEF LastKept
<1>3. \A g \in Hooks : ~Rewrites(g)' /\ ~Cutting(g)'
  BY <1>2 DEF Goes, At, Rewrites, Cutting
<1>4. PICK c \in Seq(Events) : c = copy[h]
  OBVIOUS
<1>5. journal' = c
  <2>1. journal' = c \o SubSeq(<< >>, Len(c) + 1, Len(<< >>))
    BY <1>2, <1>4
  <2> QED
    BY <2>1, WriteBack
<1>6. c = LastOf(Append(logged, event[h]), MaxEvents)
  BY <1>1, <1>4 DEF LastKept
<1>7. journal' = Journaled'
  BY <1>5, <1>6 DEF Journaled
<1> QED
  BY <1>3, <1>7 DEF LastKept

LEMMA TornStays ==
  ASSUME JournalShape, NEW h \in Hooks, JournalStep(h)
  PROVE  (raced => raced') /\ (torn => torn')
<1> USE DEF JournalShape, JournalTypeOK, At, Goes, journalHistory
<1>1. CASE LoadJournal(h)
  BY <1>1 DEF LoadJournal
<1>2. CASE KillHook(h)
  BY <1>2 DEF KillHook
<1>3. CASE HookFires(h)
  BY <1>3 DEF HookFires
<1>4. CASE WriteJournal(h)
  <2>1. UNCHANGED <<raced, torn>>
    BY <1>4 DEF WriteJournal
  <2> QED
    BY <2>1
<1>5. CASE CutJournal(h) \/ Debounced(h)
  BY <1>5 DEF CutJournal, Debounced
<1>6. CASE \/ HookSyncs(h) \/ SessionSyncs(h) \/ Post(h) \/ MarkHosted(h)
           \/ MarkJournal(h)
  BY <1>6 DEF HookSyncs, SessionSyncs, LoadRecent, Post, MarkHosted, MarkJournal
<1> QED
  BY <1>1, <1>2, <1>3, <1>4, <1>5, <1>6 DEF JournalStep

LEMMA KeepNext == KeepInv /\ [JournalNext]_journalVars => KeepInv'
<1> SUFFICES ASSUME KeepInv, [JournalNext]_journalVars PROVE KeepInv'
  OBVIOUS
<1>1. JournalShape'
  BY ShapeNext DEF KeepInv
<1>2. ASSUME ~raced', ~torn' PROVE LastKept'
  <2> USE DEF JournalShape, JournalTypeOK, At, Goes, journalHistory
  <2>1. ~raced /\ ~torn
    <3>1. CASE UNCHANGED journalVars
      BY <1>2, <3>1 DEF journalVars
    <3> QED
      BY <1>2, <3>1, TornStays DEF KeepInv, JournalNext
  <2>2. JournalShape /\ LastKept
    BY <2>1 DEF KeepInv
  <2>3. ASSUME NEW h \in Hooks, HookFires(h) PROVE LastKept'
    BY <2>2, <2>3, KeptStays DEF HookFires, Rewrites, Cutting
  <2>4. ASSUME NEW h \in Hooks, Debounced(h) \/ MarkHosted(h) \/ MarkJournal(h) PROVE LastKept'
    BY <2>2, <2>4, KeptStays DEF Debounced, MarkHosted, MarkJournal, Rewrites, Cutting
  <2>5. ASSUME NEW h \in Hooks, HookSyncs(h) \/ SessionSyncs(h) PROVE LastKept'
    BY <2>2, <2>5, KeptStays DEF HookSyncs, SessionSyncs, LoadRecent, Rewrites, Cutting
  <2>6. ASSUME NEW h \in Hooks, Post(h) PROVE LastKept'
    BY <2>2, <2>6, KeptStays DEF Post, Rewrites, Cutting
  <2>7. ASSUME NEW h \in Hooks, KillHook(h) PROVE LastKept'
    BY <1>2, <2>2, <2>7, KeptStays DEF KillHook, Rewrites, Cutting
  <2>8. CASE UNCHANGED journalVars
    BY <2>2, <2>8, KeptStays DEF journalVars, Rewrites, Cutting
  <2> QED
    BY <1>2, <2>2, <2>3, <2>4, <2>5, <2>6, <2>7, <2>8, KeptLoad, KeptCut, KeptWrite
       DEF JournalNext, JournalStep
<1> QED
  BY <1>1, <1>2 DEF KeepInv

\* The variables of the journal keep their types, for any number of hooks and events.
THEOREM JournalIsTyped == JournalSpec => []JournalTypeOK
<1>1. JournalShape => JournalTypeOK
  BY DEF JournalShape
<1> QED
  BY ShapeInit, ShapeNext, <1>1, PTL DEF JournalSpec

\* Unless hooks raced or one was killed as it wrote, the journal holds the last MaxEvents
\* events that were appended (append_event, save_events).
THEOREM JournalHoldsTheLast == JournalSpec => []JournalKeepsTheLast
<1>1. KeepInv => JournalKeepsTheLast
  BY DEF KeepInv, LastKept, Cutting, Journaled, JournalKeepsTheLast
<1> QED
  BY KeepInit, KeepNext, <1>1, PTL DEF JournalSpec

(***************************************************************************)
(* Hooks that never overlap: one at a time is at work, and its event is    *)
(* later than all the journal and the marker have seen.                    *)
(***************************************************************************)

HooksAlone == \A g, h \in Hooks : hook[g] # "idle" /\ hook[h] # "idle" => g = h

InOrder ==
  /\ syncedTo <= clock /\ LatestEvent <= clock
  /\ \A e \in ToSet(journal) : e <= LatestEvent

AddsTheNewest(h) ==
  Adding(h) => /\ event[h] <= clock /\ event[h] > syncedTo
               /\ \A e \in ToSet(journal) : e < event[h]

EndsWithEvent(h) ==
  Rewrites(h) => /\ copy[h] # << >> /\ Last(copy[h]) = event[h]
                 /\ \A e \in ToSet(copy[h]) : e <= event[h]
                 /\ Cutting(h) => journal = << >>

RecentIsNew(h) ==
  At(h, "recent") => \A e \in ToSet(copy[h]) : e > syncedTo /\ e \in ToSet(journal)

Calm(h) == AddsTheNewest(h) /\ EndsWithEvent(h) /\ RecentIsNew(h)

HooksAloneInv == ~overlapped => HooksAlone /\ InOrder /\ \A h \in Hooks : Calm(h)

LEMMA EmptyHasNone == ToSet(<< >>) = {}
  BY DEF ToSet

LEMMA AloneInit == JournalInit => HooksAloneInv
<1> SUFFICES ASSUME JournalInit PROVE HooksAloneInv
  OBVIOUS
<1> USE DEF JournalInit
<1>1. InOrder
  BY EmptyHasNone DEF InOrder, LatestEvent
<1>2. \A h \in Hooks : Calm(h)
  BY DEF Calm, AddsTheNewest, EndsWithEvent, RecentIsNew, Adding, Rewrites, At
<1> QED
  BY <1>1, <1>2 DEF HooksAloneInv, HooksAlone

LEMMA IdleIsCalm == ASSUME NEW h \in Hooks, hook[h] = "idle" PROVE Calm(h)
  BY DEF Calm, AddsTheNewest, EndsWithEvent, RecentIsNew, Adding, Rewrites, At

LEMMA LastIn ==
  ASSUME NEW S, NEW s \in Seq(S), s # << >>
  PROVE  Last(s) \in S /\ Last(s) \in ToSet(s)
<1>1. Len(s) \in 1..Len(s)
  BY EmptySeq
<1> QED
  BY <1>1, InSet DEF Last

LEMMA EventsAreNumbers == Events \subseteq Nat
  BY DEF Events

LEMMA LatestTyped == ASSUME JournalShape PROVE LatestEvent \in 0..MaxClock
<1>1. PICK j \in Seq(Events) : j = journal
  BY DEF JournalShape, JournalTypeOK
<1>2. j # << >> => Last(j) \in Events
  BY LastIn
<1> QED
  BY <1>1, <1>2, JournalAssumption DEF LatestEvent, Events

\* What no step of a hook that is at work alone breaks.
LEMMA OneStepIsCalm ==
  ASSUME JournalShape, JournalShape', NEW h \in Hooks, JournalStep(h),
         \A g \in Hooks \ {h} : hook[g] = "idle", InOrder, Calm(h)
  PROVE  InOrder' /\ Calm(h)'
<1> USE DEF JournalShape, JournalTypeOK, At, Goes, journalHistory
<1>1. CASE HookFires(h)
  <2>1. clock' > clock /\ event'[h] = clock' /\ UNCHANGED <<journal, syncedTo>>
    BY <1>1, JournalAssumption DEF HookFires, Events
  <2>2. ~Rewrites(h)' /\ ~At(h, "recent")'
    BY <1>1 DEF HookFires, Rewrites
  <2>3. LatestEvent \in Nat /\ LatestEvent' = LatestEvent
        /\ clock \in Nat /\ clock' \in Nat /\ syncedTo \in Nat
    BY <2>1, LatestTyped, JournalAssumption DEF LatestEvent
  <2>4. InOrder'
    <3>1. syncedTo' <= clock' /\ LatestEvent' <= clock'
      BY <2>1, <2>3 DEF InOrder
    <3>2. \A e \in ToSet(journal') : e <= LatestEvent'
      BY <2>1, <2>3 DEF InOrder
    <3> QED
      BY <3>1, <3>2 DEF InOrder
  <2>5. AddsTheNewest(h)'
    <3>1. PICK j \in Seq(Events) : j = journal
      OBVIOUS
    <3>2. ToSet(j) \subseteq Nat
      BY InSet, EventsAreNumbers
    <3>3. \A e \in ToSet(journal) : e < clock'
      BY <2>1, <2>3, <3>1, <3>2 DEF InOrder
    <3>4. clock' <= clock' /\ clock' > syncedTo
      BY <2>1, <2>3 DEF InOrder
    <3> QED
      BY <2>1, <3>3, <3>4 DEF AddsTheNewest
  <2> QED
    BY <2>2, <2>4, <2>5 DEF Calm, EndsWithEvent, RecentIsNew
<1>2. CASE LoadJournal(h)
  <2> PICK j \in Seq(Events) : j = journal
    OBVIOUS
  <2> PICK e : e = event[h]
    OBVIOUS
  <2>1. e \in Events /\ Adding(h) /\ Adding(h)' /\ ~Cutting(h)' /\ ~At(h, "recent")'
    BY <1>2 DEF LoadJournal, Adding, Rewrites, Cutting
  <2>2. PICK r : r = Retained(Append(j, e))
    OBVIOUS
  <2>3. /\ r \in Seq(Events) /\ ToSet(r) \subseteq ToSet(j) \union {e}
        /\ r # << >> /\ Last(r) = e
    BY <2>1, <2>2, RetainedElements
  <2>4. copy'[h] = r /\ event'[h] = e /\ UNCHANGED <<journal, clock, syncedTo>>
    BY <1>2, <2>2 DEF LoadJournal
  <2>5. AddsTheNewest(h)'
    BY <2>1, <2>4 DEF Calm, AddsTheNewest
  <2>6. \A x \in ToSet(r) : x <= e
    <3>1. ToSet(j) \subseteq Nat /\ e \in Nat
      BY <2>1, InSet, EventsAreNumbers
    <3>2. \A x \in ToSet(j) : x < e
      BY <2>1 DEF Calm, AddsTheNewest
    <3> SUFFICES ASSUME NEW x \in ToSet(r) PROVE x <= e
      OBVIOUS
    <3>3. x \in ToSet(j) \/ x = e
      BY <2>3
    <3>4. CASE x \in ToSet(j)
      <4>1. x \in Nat /\ x < e
        BY <3>1, <3>2, <3>4
      <4> QED
        BY <3>1, <4>1
    <3> QED
      BY <3>1, <3>3, <3>4
  <2>7. EndsWithEvent(h)'
    BY <2>1, <2>3, <2>4, <2>6 DEF EndsWithEvent
  <2> QED
    BY <2>1, <2>4, <2>5, <2>7 DEF Calm, RecentIsNew, InOrder, LatestEvent
<1>3. CASE CutJournal(h)
  <2>1. /\ Rewrites(h) /\ Rewrites(h)' /\ Adding(h) /\ ~At(h, "recent")'
        /\ journal' = << >> /\ UNCHANGED <<copy, event, clock, syncedTo>>
    BY <1>3 DEF CutJournal, Rewrites, Adding
  <2>2. InOrder'
    BY <2>1, EmptyHasNone DEF InOrder, LatestEvent
  <2>3. Calm(h)'
    BY <2>1, EmptyHasNone DEF Calm, AddsTheNewest, EndsWithEvent, RecentIsNew
  <2> QED
    BY <2>2, <2>3
<1>4. CASE WriteJournal(h)
  <2>1. /\ Rewrites(h) /\ Cutting(h) /\ Adding(h) /\ ~Adding(h)' /\ ~Rewrites(h)'
        /\ ~At(h, "recent")'
    BY <1>4 DEF WriteJournal, Rewrites, Cutting, Adding
  <2>2. journal = << >>
    BY <2>1 DEF Calm, EndsWithEvent
  <2>3. PICK c \in Seq(Events) : c = copy[h]
    OBVIOUS
  <2>4. journal' = c
    <3>1. journal' = c \o SubSeq(<< >>, Len(c) + 1, Len(<< >>))
      BY <1>4, <2>2, <2>3 DEF WriteJournal
    <3> QED
      BY <3>1, WriteBack
  <2>5. /\ c # << >> /\ Last(c) = event[h] /\ event[h] <= clock
        /\ \A e \in ToSet(c) : e <= event[h]
    BY <2>1, <2>3 DEF Calm, EndsWithEvent, AddsTheNewest
  <2>6. InOrder'
    <3>1. UNCHANGED <<clock, syncedTo>>
      BY <1>4 DEF WriteJournal
    <3>2. LatestEvent' = event[h]
      BY <2>4, <2>5 DEF LatestEvent
    <3> QED
      BY <2>4, <2>5, <3>1, <3>2 DEF InOrder
  <2> QED
    BY <2>1, <2>6 DEF Calm, AddsTheNewest, EndsWithEvent, RecentIsNew
<1>5. CASE Debounced(h)
  BY <1>5, IdleIsCalm DEF Debounced, InOrder, LatestEvent, Calm, AddsTheNewest,
     EndsWithEvent, RecentIsNew, Adding, Rewrites
<1>6. CASE HookSyncs(h) \/ SessionSyncs(h)
  <2>1. LoadRecent(h)
    BY <1>6 DEF HookSyncs, SessionSyncs
  <2>2. /\ UNCHANGED <<journal, clock, syncedTo>> /\ ~Adding(h)' /\ ~Rewrites(h)'
        /\ copy'[h] = LastOf(Unsynced, RecentLimit)
    BY <2>1 DEF LoadRecent, Adding, Rewrites
  <2>3. \A e \in ToSet(copy'[h]) : e > syncedTo /\ e \in ToSet(journal)
    BY <2>2, UnsyncedElements, RecentElements
  <2> QED
    BY <2>2, <2>3 DEF Calm, AddsTheNewest, EndsWithEvent, RecentIsNew, InOrder, LatestEvent
<1>7. CASE Post(h) \/ MarkHosted(h)
  <2>1. /\ UNCHANGED <<journal, clock, syncedTo>> /\ ~Adding(h)' /\ ~Rewrites(h)'
        /\ ~At(h, "recent")'
    BY <1>7 DEF Post, MarkHosted, Adding, Rewrites
  <2> QED
    BY <2>1 DEF Calm, AddsTheNewest, EndsWithEvent, RecentIsNew, InOrder, LatestEvent
<1>8. CASE MarkJournal(h)
  <2>1. /\ UNCHANGED <<journal, clock>> /\ syncedTo' = LatestEvent
        /\ ~Adding(h)' /\ ~Rewrites(h)' /\ ~At(h, "recent")'
    BY <1>8 DEF MarkJournal, Adding, Rewrites
  <2> QED
    BY <2>1 DEF Calm, AddsTheNewest, EndsWithEvent, RecentIsNew, InOrder, LatestEvent
<1>9. CASE KillHook(h)
  <2>1. /\ UNCHANGED <<journal, clock, syncedTo>> /\ ~Adding(h)' /\ ~Rewrites(h)'
        /\ ~At(h, "recent")'
    BY <1>9 DEF KillHook, Adding, Rewrites
  <2> QED
    BY <2>1 DEF Calm, AddsTheNewest, EndsWithEvent, RecentIsNew, InOrder, LatestEvent
<1> QED
  BY <1>1, <1>2, <1>3, <1>4, <1>5, <1>6, <1>7, <1>8, <1>9 DEF JournalStep

\* A step taken before any two overlapped is that of a hook that is at work alone.
LEMMA StepsAlone ==
  ASSUME JournalShape, HooksAloneInv, ~overlapped', NEW h \in Hooks, JournalStep(h)
  PROVE  /\ ~overlapped
         /\ \A g \in Hooks \ {h} : hook[g] = "idle" /\ hook'[g] = "idle"
<1> USE DEF JournalShape, JournalTypeOK, At, Goes, journalHistory
<1>1. CASE HookFires(h) \/ SessionSyncs(h)
  <2>1. overlapped' = (overlapped \/ \E g \in Hooks : ~At(g, "idle"))
    BY <1>1 DEF HookFires, SessionSyncs
  <2>2. ~overlapped /\ \A g \in Hooks : hook[g] = "idle"
    BY <2>1
  <2>3. \A g \in Hooks \ {h} : hook'[g] = hook[g]
    BY <1>1 DEF HookFires, SessionSyncs, LoadRecent
  <2> QED
    BY <2>2, <2>3
<1>2. CASE \/ LoadJournal(h) \/ CutJournal(h) \/ WriteJournal(h) \/ Debounced(h)
           \/ HookSyncs(h) \/ Post(h) \/ MarkHosted(h) \/ MarkJournal(h) \/ KillHook(h)
  <2>1. /\ UNCHANGED overlapped /\ hook[h] # "idle"
        /\ \A g \in Hooks \ {h} : hook'[g] = hook[g]
    <3>1. CASE LoadJournal(h) \/ CutJournal(h)
      BY <3>1 DEF LoadJournal, CutJournal
    <3>2. CASE WriteJournal(h)
      BY <3>2 DEF WriteJournal
    <3>3. CASE Debounced(h) \/ HookSyncs(h) \/ KillHook(h)
      BY <3>3 DEF Debounced, HookSyncs, LoadRecent, KillHook
    <3>4. CASE Post(h) \/ MarkHosted(h) \/ MarkJournal(h)
      BY <3>4 DEF Post, MarkHosted, MarkJournal
    <3> QED
      BY <1>2, <3>1, <3>2, <3>3, <3>4
  <2>2. ~overlapped
    BY <2>1
  <2>3. HooksAlone
    BY <2>2 DEF HooksAloneInv
  <2> QED
    BY <2>1, <2>2, <2>3 DEF HooksAlone
<1> QED
  BY <1>1, <1>2 DEF JournalStep

LEMMA AloneNext ==
  JournalShape /\ JournalShape' /\ HooksAloneInv /\ [JournalNext]_journalVars => HooksAloneInv'
<1> SUFFICES ASSUME JournalShape, JournalShape', HooksAloneInv, [JournalNext]_journalVars, ~overlapped'
             PROVE  (HooksAlone /\ InOrder /\ \A h \in Hooks : Calm(h))'
  BY DEF HooksAloneInv
<1>1. ASSUME NEW h \in Hooks, JournalStep(h)
      PROVE  (HooksAlone /\ InOrder /\ \A g \in Hooks : Calm(g))'
  <2>1. ~overlapped /\ \A g \in Hooks \ {h} : hook[g] = "idle" /\ hook'[g] = "idle"
    BY <1>1, StepsAlone
  <2>2. InOrder' /\ Calm(h)'
    BY <1>1, <2>1, OneStepIsCalm DEF HooksAloneInv
  <2>3. \A g \in Hooks \ {h} : Calm(g)'
    BY <2>1 DEF Calm, AddsTheNewest, EndsWithEvent, RecentIsNew, Adding, Rewrites, At
  <2>4. HooksAlone'
    BY <2>1 DEF HooksAlone
  <2> QED
    BY <2>2, <2>3, <2>4
<1>2. CASE UNCHANGED journalVars
  <2>1. HooksAlone /\ InOrder /\ \A h \in Hooks : Calm(h)
    BY <1>2 DEF HooksAloneInv, journalVars, journalHistory
  <2> QED
    BY <1>2, <2>1 DEF journalVars, HooksAlone, InOrder, LatestEvent, Calm, AddsTheNewest,
       EndsWithEvent, RecentIsNew, Adding, Rewrites, Cutting, At
<1> QED
  BY <1>1, <1>2 DEF JournalNext

(***************************************************************************)
(* What the marker covers was sent, or there was no room for it.           *)
(***************************************************************************)

Counted(e) == sent[e] > 0 \/ e \in crowded
ToSend == ToSet(logged) \intersect Durable

\* All that is to be sent was counted, or lies in a set.
Covers(S) == \A e \in ToSend : Counted(e) \/ e \in S

MarkedCounted == \A e \in ToSend : e <= syncedTo => Counted(e)
FileCovers == (\A h \in Hooks : ~Cutting(h)) => Covers(ToSet(journal))
CopyCovers(h) == Rewrites(h) \/ At(h, "recent") => Covers(ToSet(copy[h]))
PostCovers(h) == At(h, "posted") \/ At(h, "marked") => Covers({})

Covering ==
  MarkedCounted /\ FileCovers /\ \A h \in Hooks : CopyCovers(h) /\ PostCovers(h)

CoverInv == ~overlapped /\ ~torn => Covering

LEMMA CoverInit == JournalInit => CoverInv
<1> SUFFICES ASSUME JournalInit PROVE CoverInv
  OBVIOUS
<1> USE DEF JournalInit
<1>1. ToSend = {}
  BY EmptyHasNone DEF ToSend
<1> QED
  BY <1>1 DEF CoverInv, Covering, MarkedCounted, FileCovers, CopyCovers, PostCovers, Covers

LEMMA ToSendTyped == ASSUME JournalShape PROVE ToSend \subseteq Events
<1>1. PICK l \in Seq(Events) : l = logged
  BY DEF JournalShape, JournalTypeOK
<1> QED
  BY <1>1, InSet DEF ToSend

\* What was counted once stays so.
LEMMA CountedStays ==
  ASSUME JournalShape, NEW h \in Hooks, JournalStep(h), NEW e \in Events, Counted(e)
  PROVE  Counted(e)'
<1> USE DEF JournalShape, JournalTypeOK, journalHistory
<1>1. CASE Post(h)
  <2>1. crowded \subseteq crowded' /\ sent'[e] \in {sent[e], sent[e] + 1}
    BY <1>1 DEF Post
  <2>2. sent[e] \in Nat
    OBVIOUS
  <2> QED
    BY <2>1, <2>2 DEF Counted
<1>2. CASE LoadJournal(h)
  BY <1>2 DEF LoadJournal, Counted
<1>3. CASE HookSyncs(h) \/ SessionSyncs(h)
  BY <1>3 DEF HookSyncs, SessionSyncs, LoadRecent, Counted
<1>4. CASE HookFires(h) \/ KillHook(h)
  <2>1. UNCHANGED <<sent, crowded>>
    BY <1>4 DEF HookFires, KillHook
  <2> QED
    BY <2>1 DEF Counted
<1>5. CASE WriteJournal(h)
  <2>1. UNCHANGED <<sent, crowded>>
    BY <1>5 DEF WriteJournal
  <2> QED
    BY <2>1 DEF Counted
<1>6. CASE CutJournal(h) \/ Debounced(h) \/ MarkHosted(h) \/ MarkJournal(h)
  <2>1. UNCHANGED <<sent, crowded>>
    BY <1>6 DEF CutJournal, Debounced, MarkHosted, MarkJournal
  <2> QED
    BY <2>1 DEF Counted
<1> QED
  BY <1>1, <1>2, <1>3, <1>4, <1>5, <1>6 DEF JournalStep

LEMMA OneStepCovers ==
  ASSUME JournalShape, JournalShape', NEW h \in Hooks, JournalStep(h),
         \A g \in Hooks \ {h} : hook[g] = "idle" /\ hook'[g] = "idle",
         Calm(h), ~torn', Covering
  PROVE  Covering'
<1> USE DEF JournalShape, JournalTypeOK, At, Goes, journalHistory
<1>1. \A g \in Hooks \ {h} : CopyCovers(g)' /\ PostCovers(g)'
  BY DEF CopyCovers, PostCovers, Rewrites
<1>2. \A g \in Hooks \ {h} : ~Cutting(g) /\ ~Cutting(g)'
  BY DEF Cutting
<1>3. ToSend \subseteq Events /\ \A e \in Events : Counted(e) => Counted(e)'
  BY ToSendTyped, CountedStays
<1>4. /\ MarkedCounted /\ (~Cutting(h) => Covers(ToSet(journal)))
      /\ CopyCovers(h) /\ PostCovers(h)
  BY <1>2 DEF Covering, FileCovers
<1>5. SUFFICES /\ MarkedCounted' /\ (~Cutting(h)' => Covers(ToSet(journal))')
               /\ CopyCovers(h)' /\ PostCovers(h)'
  BY <1>1 DEF Covering, FileCovers
<1>6. ASSUME UNCHANGED logged
      PROVE  /\ ToSend' = ToSend
             /\ \A S : Covers(S) => \A e \in ToSend' : Counted(e)' \/ e \in S
             /\ UNCHANGED syncedTo => MarkedCounted'
  <2>1. ToSend' = ToSend
    BY <1>6 DEF ToSend
  <2>2. UNCHANGED syncedTo => MarkedCounted'
    BY <1>3, <1>4, <2>1 DEF MarkedCounted
  <2>3. ASSUME NEW S, Covers(S) PROVE \A e \in ToSend' : Counted(e)' \/ e \in S
    BY <1>3, <2>1, <2>3 DEF Covers
  <2> QED
    BY <2>1, <2>2, <2>3
<1>7. CASE HookFires(h)
  <2>1. /\ UNCHANGED <<logged, syncedTo, journal>> /\ ~Cutting(h)
        /\ ~Rewrites(h)' /\ ~At(h, "recent")' /\ ~At(h, "posted")' /\ ~At(h, "marked")'
    BY <1>7 DEF HookFires, Rewrites, Cutting
  <2> QED
    BY <1>4, <1>6, <2>1 DEF Covers, CopyCovers, PostCovers
<1>8. CASE LoadJournal(h)
  <2>1. /\ UNCHANGED <<logged, syncedTo, journal>> /\ ~Cutting(h)
        /\ ~At(h, "recent")' /\ ~At(h, "posted")' /\ ~At(h, "marked")'
    BY <1>8 DEF LoadJournal, Cutting
  <2>2. crowded' = crowded \union (ToSet(Unsynced) \ ToSet(copy'[h]))
    BY <1>8 DEF LoadJournal
  <2>3. ASSUME NEW e \in ToSend' PROVE Counted(e)' \/ e \in ToSet(copy'[h])
    <3>1. e \in ToSend /\ e \in Nat
      BY <1>3, <1>6, <2>1, EventsAreNumbers
    <3>2. CASE Counted(e)
      BY <1>3, <3>1, <3>2
    <3>3. CASE ~Counted(e)
      <4>1. e \in ToSet(journal) /\ e > syncedTo
        BY <1>4, <2>1, <3>1, <3>3 DEF Covers, MarkedCounted
      <4>2. e \in ToSet(Unsynced)
        BY <4>1, UnsyncedElements
      <4> QED
        BY <2>2, <4>2 DEF Counted
    <3> QED
      BY <3>2, <3>3
  <2>4. CopyCovers(h)'
    BY <2>3 DEF CopyCovers, Covers
  <2> QED
    BY <1>4, <1>6, <2>1, <2>4 DEF Covers, PostCovers
<1>9. CASE CutJournal(h)
  <2>1. /\ UNCHANGED <<logged, syncedTo, copy>> /\ Cutting(h)' /\ Rewrites(h)
        /\ ~At(h, "posted")' /\ ~At(h, "marked")'
    BY <1>9 DEF CutJournal, Cutting, Rewrites
  <2> QED
    BY <1>4, <1>6, <2>1 DEF Covers, CopyCovers, PostCovers
<1>10. CASE WriteJournal(h)
  <2>1. /\ Rewrites(h) /\ Cutting(h) /\ Adding(h) /\ ~Cutting(h)' /\ ~Rewrites(h)'
        /\ ~At(h, "recent")' /\ ~At(h, "posted")' /\ ~At(h, "marked")'
    BY <1>10 DEF WriteJournal, Rewrites, Cutting, Adding
  <2>2. UNCHANGED <<syncedTo, sent, crowded>>
    BY <1>10 DEF WriteJournal
  <2>3. PICK c \in Seq(Events) : c = copy[h]
    OBVIOUS
  <2>4. /\ journal = << >> /\ c # << >> /\ Last(c) = event[h]
        /\ event[h] > syncedTo /\ event[h] \in Events
    BY <2>1, <2>3 DEF Calm, EndsWithEvent, AddsTheNewest
  <2>5. journal' = c
    <3>1. journal' = c \o SubSeq(<< >>, Len(c) + 1, Len(<< >>))
      BY <1>10, <2>3, <2>4 DEF WriteJournal
    <3> QED
      BY <3>1, WriteBack
  <2>6. ToSend' \subseteq ToSend \union {event[h]}
    <3>1. PICK l \in Seq(Events), x \in Events : l = logged /\ x = event[h]
      BY <2>4
    <3>2. ToSet(Append(l, x)) = ToSet(l) \union {x}
      BY AppendElements
    <3>3. logged' = Append(l, x)
      BY <1>10, <3>1 DEF WriteJournal
    <3> QED
      BY <3>1, <3>2, <3>3 DEF ToSend
  <2>7. event[h] \in ToSet(c)
    BY <2>4, LastIn
  <2>8. \A e : Counted(e)' <=> Counted(e)
    BY <2>2 DEF Counted
  <2>9. Covers(ToSet(journal))'
    BY <1>4, <2>1, <2>3, <2>5, <2>6, <2>7, <2>8 DEF Covers, CopyCovers
  <2>10. MarkedCounted'
    <3> SUFFICES ASSUME NEW e \in ToSend', e <= syncedTo' PROVE Counted(e)'
      BY DEF MarkedCounted
    <3>1. e # event[h]
      BY <2>2, <2>4, EventsAreNumbers
    <3> QED
      BY <1>4, <2>2, <2>6, <2>8, <3>1 DEF MarkedCounted
  <2> QED
    BY <2>1, <2>9, <2>10 DEF CopyCovers, PostCovers
<1>11. CASE Debounced(h)
  <2>1. /\ UNCHANGED <<logged, syncedTo, journal>> /\ ~Cutting(h)
        /\ ~Rewrites(h)' /\ ~At(h, "recent")' /\ ~At(h, "posted")' /\ ~At(h, "marked")'
    BY <1>11 DEF Debounced, Rewrites, Cutting
  <2> QED
    BY <1>4, <1>6, <2>1 DEF Covers, CopyCovers, PostCovers
<1>12. CASE HookSyncs(h) \/ SessionSyncs(h)
  <2>1. /\ UNCHANGED <<logged, syncedTo, journal>> /\ ~Cutting(h)
        /\ ~At(h, "posted")' /\ ~At(h, "marked")'
        /\ crowded' = crowded \union (ToSet(Unsynced) \ ToSet(copy'[h]))
    BY <1>12 DEF HookSyncs, SessionSyncs, LoadRecent, Cutting
  <2>2. ASSUME NEW e \in ToSend' PROVE Counted(e)' \/ e \in ToSet(copy'[h])
    <3>1. e \in ToSend /\ e \in Nat
      BY <1>3, <1>6, <2>1, EventsAreNumbers
    <3>2. CASE Counted(e)
      BY <1>3, <3>1, <3>2
    <3>3. CASE ~Counted(e)
      <4>1. e \in ToSet(journal) /\ e > syncedTo
        BY <1>4, <2>1, <3>1, <3>3 DEF Covers, MarkedCounted
      <4>2. e \in ToSet(Unsynced)
        BY <4>1, UnsyncedElements
      <4> QED
        BY <2>1, <4>2 DEF Counted
    <3> QED
      BY <3>2, <3>3
  <2>3. CopyCovers(h)'
    BY <2>2 DEF CopyCovers, Covers
  <2> QED
    BY <1>4, <1>6, <2>1, <2>3 DEF Covers, PostCovers
<1>13. CASE Post(h)
  <2>1. /\ UNCHANGED <<logged, syncedTo, journal>> /\ ~Cutting(h) /\ At(h, "recent")
        /\ ~Rewrites(h)' /\ ~At(h, "recent")'
    BY <1>13 DEF Post, Cutting, Rewrites
  <2>2. PICK room \in 0..CandidateLimit :
          LET chosen == Chosen(h, room) IN
          /\ sent' = [e \in Events |-> IF e \in chosen THEN sent[e] + 1 ELSE sent[e]]
          /\ crowded' = crowded \union ((ToSet(copy[h]) \intersect Durable) \ chosen)
    BY <1>13 DEF Post
  <2>3. ASSUME NEW e \in ToSend' PROVE Counted(e)'
    <3>1. e \in ToSend /\ e \in Events /\ e \in Durable
      BY <1>3, <1>6, <2>1 DEF ToSend
    <3>2. CASE Counted(e)
      BY <1>3, <3>1, <3>2
    <3>3. CASE ~Counted(e)
      <4>1. e \in ToSet(copy[h])
        BY <1>4, <2>1, <3>1, <3>3 DEF CopyCovers, Covers
      <4>2. CASE e \in Chosen(h, room)
        <5>1. PICK n \in Nat : n = sent[e]
          BY <3>1
        <5>2. sent'[e] = n + 1
          BY <2>2, <3>1, <4>2, <5>1
        <5>3. n + 1 > 0
          OBVIOUS
        <5> QED
          BY <5>2, <5>3 DEF Counted
      <4>3. CASE e \notin Chosen(h, room)
        BY <2>2, <3>1, <4>1, <4>3 DEF Counted
      <4> QED
        BY <4>2, <4>3
    <3> QED
      BY <3>2, <3>3
  <2> QED
    BY <1>6, <2>1, <2>3 DEF MarkedCounted, Covers, CopyCovers, PostCovers
<1>14. CASE MarkHosted(h)
  <2>1. /\ UNCHANGED <<logged, syncedTo, journal>> /\ ~Cutting(h) /\ At(h, "posted")
        /\ ~Rewrites(h)' /\ ~At(h, "recent")'
    BY <1>14 DEF MarkHosted, Rewrites, Cutting
  <2> QED
    BY <1>4, <1>6, <2>1 DEF Covers, CopyCovers, PostCovers
<1>15. CASE MarkJournal(h)
  <2>1. /\ UNCHANGED <<logged, journal>> /\ ~Cutting(h) /\ At(h, "marked")
        /\ ~Rewrites(h)' /\ ~At(h, "recent")' /\ ~At(h, "posted")' /\ ~At(h, "marked")'
    BY <1>15 DEF MarkJournal, Rewrites, Cutting
  <2>2. \A e \in ToSend' : Counted(e)'
    BY <1>4, <1>6, <2>1 DEF PostCovers, Covers
  <2> QED
    BY <2>1, <2>2 DEF MarkedCounted, Covers, CopyCovers, PostCovers
<1>16. CASE KillHook(h)
  <2>1. /\ UNCHANGED <<logged, syncedTo, journal>> /\ ~Cutting(h)
        /\ ~Rewrites(h)' /\ ~At(h, "recent")' /\ ~At(h, "posted")' /\ ~At(h, "marked")'
    BY <1>16 DEF KillHook, Rewrites, Cutting
  <2> QED
    BY <1>4, <1>6, <2>1 DEF Covers, CopyCovers, PostCovers
<1> QED
  BY <1>7, <1>8, <1>9, <1>10, <1>11, <1>12, <1>13, <1>14, <1>15, <1>16 DEF JournalStep

SyncInv == JournalShape /\ HooksAloneInv /\ CoverInv

LEMMA SyncNext == SyncInv /\ [JournalNext]_journalVars => SyncInv'
<1> SUFFICES ASSUME SyncInv, [JournalNext]_journalVars PROVE SyncInv'
  OBVIOUS
<1>1. JournalShape' /\ HooksAloneInv'
  BY ShapeNext, AloneNext DEF SyncInv
<1>2. ASSUME ~overlapped', ~torn' PROVE Covering'
  <2>1. ASSUME NEW h \in Hooks, JournalStep(h) PROVE Covering'
    <3>1. ~overlapped /\ \A g \in Hooks \ {h} : hook[g] = "idle" /\ hook'[g] = "idle"
      BY <1>2, <2>1, StepsAlone DEF SyncInv
    <3>2. Calm(h)
      BY <3>1 DEF SyncInv, HooksAloneInv
    <3>3. ~torn
      <4>1. torn => torn'
        BY <2>1, TornStays DEF SyncInv
      <4> QED
        BY <1>2, <4>1
    <3>4. Covering
      BY <3>1, <3>3 DEF SyncInv, CoverInv
    <3> QED
      BY <1>1, <1>2, <2>1, <3>1, <3>2, <3>4, OneStepCovers DEF SyncInv
  <2>2. CASE UNCHANGED journalVars
    <3>1. ~overlapped /\ ~torn
      BY <1>2, <2>2 DEF journalVars, journalHistory
    <3>2. Covering
      BY <3>1 DEF SyncInv, CoverInv
    <3>3. UNCHANGED <<journal, syncedTo, hook, copy, logged, sent, crowded>>
      BY <2>2 DEF journalVars, journalHistory
    <3> QED
      BY <3>2, <3>3 DEF Covering, MarkedCounted, FileCovers, CopyCovers, PostCovers, Covers,
         Counted, ToSend, Cutting, Rewrites, At
  <2> QED
    BY <2>1, <2>2 DEF JournalNext
<1> QED
  BY <1>1, <1>2 DEF SyncInv, CoverInv

\* The journal marker covers a durable event only if it was sent, or retention or a sync
\* had no room for it, for any number of hooks and events, while hooks do not overlap
\* and the file is not torn (load_recent_unsynced_journal_events,
\* sync_session_memory_to_server).
THEOREM MarkerCovers == JournalSpec => []MarkerCoversSent
<1>1. SyncInv => MarkerCoversSent
  BY DEF SyncInv, CoverInv, Covering, MarkedCounted, Counted, ToSend, MarkerCoversSent
<1>2. JournalInit => SyncInv
  BY ShapeInit, AloneInit, CoverInit DEF SyncInv
<1> QED
  BY <1>1, <1>2, SyncNext, PTL DEF JournalSpec

(***************************************************************************)
(* What was sent lies behind the marker, or the hook that sent it is still *)
(* to move the marker.                                                     *)
(***************************************************************************)

ToMark == \E h \in Hooks : At(h, "posted") \/ At(h, "marked")

BehindMark(e) ==
  /\ sent[e] = 1
  /\ e <= syncedTo \/ ToMark
  /\ (\A h \in Hooks : ~Cutting(h)) => e <= LatestEvent
  /\ \A h \in Hooks : Adding(h) => e < event[h]

Once == \A e \in Events : sent[e] > 0 => BehindMark(e)

OnceInv == ~overlapped /\ killed = 0 => Once

LEMMA OneStepOnce ==
  ASSUME JournalShape, JournalShape', NEW h \in Hooks, JournalStep(h), ~KillHook(h),
         \A g \in Hooks \ {h} : hook[g] = "idle" /\ hook'[g] = "idle",
         InOrder, Calm(h), Once
  PROVE  Once'
<1> USE DEF JournalShape, JournalTypeOK, At, Goes, journalHistory
<1>1. \A g \in Hooks \ {h} : /\ ~Adding(g)' /\ ~Cutting(g) /\ ~Cutting(g)'
                             /\ ~At(g, "posted") /\ ~At(g, "marked")
  BY DEF Adding, Rewrites, Cutting
<1>2. SUFFICES ASSUME NEW e \in Events, sent'[e] > 0
               PROVE  /\ sent'[e] = 1
                      /\ e <= syncedTo' \/ ToMark'
                      /\ ~Cutting(h)' => e <= LatestEvent'
                      /\ Adding(h)' => e < event'[h]
  BY <1>1 DEF Once, BehindMark
<1>3. ASSUME UNCHANGED sent
      PROVE  /\ sent'[e] = 1
             /\ e <= syncedTo \/ At(h, "posted") \/ At(h, "marked")
             /\ ~Cutting(h) => e <= LatestEvent
             /\ Adding(h) => e < event[h]
  BY <1>1, <1>2, <1>3 DEF Once, BehindMark, ToMark
<1>4. e \in Nat
  BY EventsAreNumbers
<1>5. CASE HookFires(h)
  <2>1. /\ UNCHANGED <<sent, syncedTo, journal>> /\ clock' > clock /\ event'[h] = clock'
        /\ ~Cutting(h) /\ ~At(h, "posted") /\ ~At(h, "marked")
    BY <1>5, JournalAssumption DEF HookFires, Cutting, Events
  <2>2. LatestEvent' = LatestEvent /\ LatestEvent \in Nat /\ clock \in Nat /\ clock' \in Nat
    BY <2>1, LatestTyped, JournalAssumption DEF LatestEvent
  <2>3. e <= LatestEvent /\ LatestEvent <= clock
    BY <1>3, <2>1 DEF InOrder
  <2>4. e < clock'
    BY <1>4, <2>1, <2>2, <2>3
  <2> QED
    BY <1>3, <2>1, <2>2, <2>3, <2>4
<1>6. CASE LoadJournal(h)
  <2>1. /\ UNCHANGED <<sent, syncedTo, journal, event>> /\ Adding(h) /\ ~Cutting(h)
        /\ ~At(h, "posted") /\ ~At(h, "marked")
    BY <1>6 DEF LoadJournal, Adding, Cutting
  <2>2. LatestEvent' = LatestEvent
    BY <2>1 DEF LatestEvent
  <2> QED
    BY <1>3, <2>1, <2>2
<1>7. CASE CutJournal(h)
  <2>1. /\ UNCHANGED <<sent, syncedTo, event>> /\ Adding(h) /\ Cutting(h)'
        /\ ~At(h, "posted") /\ ~At(h, "marked")
    BY <1>7 DEF CutJournal, Adding, Rewrites, Cutting
  <2> QED
    BY <1>3, <2>1
<1>8. CASE WriteJournal(h)
  <2>1. /\ UNCHANGED <<sent, syncedTo>> /\ Adding(h) /\ Rewrites(h) /\ Cutting(h)
        /\ ~Adding(h)' /\ ~At(h, "posted") /\ ~At(h, "marked")
    BY <1>8 DEF WriteJournal, Adding, Rewrites, Cutting
  <2>2. PICK c \in Seq(Events) : c = copy[h]
    OBVIOUS
  <2>3. /\ journal = << >> /\ c # << >> /\ Last(c) = event[h] /\ event[h] \in Nat
    BY <2>1, <2>2, EventsAreNumbers DEF Calm, EndsWithEvent
  <2>4. journal' = c
    <3>1. journal' = c \o SubSeq(<< >>, Len(c) + 1, Len(<< >>))
      BY <1>8, <2>2, <2>3 DEF WriteJournal
    <3> QED
      BY <3>1, WriteBack
  <2>5. LatestEvent' = event[h]
    BY <2>3, <2>4 DEF LatestEvent
  <2>6. e <= event[h]
    BY <1>3, <1>4, <2>1, <2>3
  <2> QED
    BY <1>3, <2>1, <2>5, <2>6
<1>9. CASE Debounced(h)
  <2>1. /\ UNCHANGED <<sent, syncedTo, journal>> /\ ~Cutting(h) /\ ~Adding(h)'
        /\ ~At(h, "posted") /\ ~At(h, "marked")
    BY <1>9 DEF Debounced, Adding, Rewrites, Cutting
  <2>2. LatestEvent' = LatestEvent
    BY <2>1 DEF LatestEvent
  <2> QED
    BY <1>3, <2>1, <2>2
<1>10. CASE HookSyncs(h) \/ SessionSyncs(h)
  <2>1. /\ UNCHANGED <<sent, syncedTo, journal>> /\ ~Cutting(h) /\ ~Adding(h)'
        /\ ~At(h, "posted") /\ ~At(h, "marked")
    BY <1>10 DEF HookSyncs, SessionSyncs, LoadRecent, Adding, Rewrites, Cutting
  <2>2. LatestEvent' = LatestEvent
    BY <2>1 DEF LatestEvent
  <2> QED
    BY <1>3, <2>1, <2>2
<1>11. CASE Post(h)
  <2>1. /\ UNCHANGED <<syncedTo, journal>> /\ ~Cutting(h) /\ ~Adding(h)' /\ At(h, "recent")
    BY <1>11 DEF Post, Adding, Rewrites, Cutting
  <2>2. LatestEvent' = LatestEvent
    BY <2>1 DEF LatestEvent
  <2>3. PICK room \in 0..CandidateLimit :
          LET chosen == Chosen(h, room) IN
          /\ sent' = [x \in Events |-> IF x \in chosen THEN sent[x] + 1 ELSE sent[x]]
          /\ chosen # {} => hook'[h] = "posted"
    BY <1>11 DEF Post
  <2>4. CASE e \in Chosen(h, room)
    <3>1. room \in Nat
      BY JournalAssumption
    <3>2. e \in ToSet(copy[h])
      BY <2>4, <3>1, ChosenElements
    <3>3. e > syncedTo /\ e \in ToSet(journal) /\ e <= LatestEvent
      BY <2>1, <3>2 DEF Calm, RecentIsNew, InOrder
    <3>4. PICK n \in Nat : n = sent[e]
      OBVIOUS
    <3>5. ~(n > 0)
      <4>1. ~(e <= syncedTo)
        BY <1>4, <3>3
      <4> QED
        BY <1>1, <2>1, <3>4, <4>1 DEF Once, BehindMark, ToMark
    <3>6. sent'[e] = 1
      BY <2>3, <2>4, <3>4, <3>5
    <3>7. ToMark'
      BY <2>3, <2>4 DEF ToMark
    <3> QED
      BY <2>1, <2>2, <3>3, <3>6, <3>7
  <2>5. CASE e \notin Chosen(h, room)
    <3>1. sent'[e] = sent[e]
      BY <2>3, <2>5
    <3>2. /\ sent[e] = 1 /\ e <= syncedTo /\ e <= LatestEvent
      BY <1>1, <1>2, <2>1, <3>1 DEF Once, BehindMark, ToMark
    <3> QED
      BY <2>1, <2>2, <3>1, <3>2
  <2> QED
    BY <2>4, <2>5
<1>12. CASE MarkHosted(h)
  <2>1. /\ UNCHANGED <<sent, syncedTo, journal>> /\ ~Cutting(h) /\ ~Adding(h)'
        /\ hook'[h] = "marked"
    BY <1>12 DEF MarkHosted, Adding, Rewrites, Cutting
  <2>2. LatestEvent' = LatestEvent
    BY <2>1 DEF LatestEvent
  <2>3. ToMark'
    BY <2>1 DEF ToMark
  <2> QED
    BY <1>3, <2>1, <2>2, <2>3
<1>13. CASE MarkJournal(h)
  <2>1. /\ UNCHANGED <<sent, journal>> /\ ~Cutting(h) /\ ~Adding(h)'
        /\ syncedTo' = LatestEvent
    BY <1>13 DEF MarkJournal, Adding, Rewrites, Cutting
  <2>2. LatestEvent' = LatestEvent
    BY <2>1 DEF LatestEvent
  <2> QED
    BY <1>3, <2>1, <2>2
<1> QED
  BY <1>5, <1>6, <1>7, <1>8, <1>9, <1>10, <1>11, <1>12, <1>13 DEF JournalStep

LEMMA KillsStay ==
  ASSUME JournalShape, JournalShape', NEW h \in Hooks, JournalStep(h), killed' = 0
  PROVE  killed = 0 /\ ~KillHook(h)
<1> USE DEF JournalShape, JournalTypeOK, journalHistory
<1>1. ~KillHook(h)
  BY JournalAssumption DEF KillHook
<1>2. UNCHANGED killed
  <2>1. CASE HookFires(h) \/ LoadJournal(h)
    BY <2>1 DEF HookFires, LoadJournal
  <2>2. CASE CutJournal(h) \/ Debounced(h) \/ MarkHosted(h) \/ MarkJournal(h)
    BY <2>2 DEF CutJournal, Debounced, MarkHosted, MarkJournal
  <2>3. CASE WriteJournal(h) \/ Post(h)
    BY <2>3 DEF WriteJournal, Post
  <2>4. CASE HookSyncs(h) \/ SessionSyncs(h)
    BY <2>4 DEF HookSyncs, SessionSyncs, LoadRecent
  <2> QED
    BY <1>1, <2>1, <2>2, <2>3, <2>4 DEF JournalStep
<1> QED
  BY <1>1, <1>2

SendInv == JournalShape /\ HooksAloneInv /\ OnceInv

LEMMA SendInit == JournalInit => SendInv
<1> SUFFICES ASSUME JournalInit PROVE OnceInv
  BY ShapeInit, AloneInit DEF SendInv
<1> QED
  BY DEF JournalInit, OnceInv, Once

LEMMA SendNext == SendInv /\ [JournalNext]_journalVars => SendInv'
<1> SUFFICES ASSUME SendInv, [JournalNext]_journalVars PROVE SendInv'
  OBVIOUS
<1>1. JournalShape' /\ HooksAloneInv'
  BY ShapeNext, AloneNext DEF SendInv
<1>2. ASSUME ~overlapped', killed' = 0 PROVE Once'
  <2>1. ASSUME NEW h \in Hooks, JournalStep(h) PROVE Once'
    <3>1. ~overlapped /\ \A g \in Hooks \ {h} : hook[g] = "idle" /\ hook'[g] = "idle"
      BY <1>2, <2>1, StepsAlone DEF SendInv
    <3>2. InOrder /\ Calm(h)
      BY <3>1 DEF SendInv, HooksAloneInv
    <3>3. killed = 0 /\ ~KillHook(h)
      BY <1>1, <1>2, <2>1, KillsStay DEF SendInv
    <3>4. Once
      BY <3>1, <3>3 DEF SendInv, OnceInv
    <3> QED
      BY <1>1, <2>1, <3>1, <3>2, <3>3, <3>4, OneStepOnce DEF SendInv
  <2>2. CASE UNCHANGED journalVars
    <3>1. Once
      BY <1>2, <2>2 DEF journalVars, journalHistory, SendInv, OnceInv
    <3>2. UNCHANGED <<journal, syncedTo, hook, event, sent>>
      BY <2>2 DEF journalVars, journalHistory
    <3>3. LatestEvent' = LatestEvent
      BY <3>2 DEF LatestEvent
    <3>4. \A h \in Hooks : /\ Cutting(h)' <=> Cutting(h)
                           /\ Adding(h)' <=> Adding(h)
      BY <3>2 DEF Cutting, Adding, Rewrites
    <3>5. ToMark' <=> ToMark
      BY <3>2 DEF ToMark, At
    <3> QED
      BY <3>1, <3>2, <3>3, <3>4, <3>5 DEF Once, BehindMark
  <2> QED
    BY <2>1, <2>2 DEF JournalNext
<1> QED
  BY <1>1, <1>2 DEF SendInv, OnceInv

\* No event is sent a second time unless hooks overlapped or one was killed, for any
\* number of hooks and events (load_recent_unsynced_journal_events).
THEOREM NothingIsSentTwice == JournalSpec => []SentOnce
<1>1. SendInv => SentOnce
  <2> SUFFICES ASSUME SendInv, ~overlapped, killed = 0, NEW e \in Events PROVE sent[e] <= 1
    BY DEF SentOnce
  <2>1. PICK n \in Nat : n = sent[e]
    BY DEF SendInv, JournalShape, JournalTypeOK
  <2>2. n > 0 => n = 1
    BY <2>1 DEF SendInv, OnceInv, Once, BehindMark
  <2> QED
    BY <2>1, <2>2
<1> QED
  BY SendInit, SendNext, <1>1, PTL DEF JournalSpec

-----------------------------------------------------------------------------
(***************************************************************************)
(* LoopDetector.  Every time that is remembered of a call is one at which  *)
(* the call was made, and no two are the same one.                         *)
(***************************************************************************)

\* A function that names the elements of a sequence by their places in another.
Places(k, n) == {g \in [1..k -> 1..n] : \A i, j \in 1..k : g[i] = g[j] => i = j}

LEMMA SelectInPlaces ==
  ASSUME NEW T, NEW s \in Seq(T), NEW S
  PROVE  /\ SelectIn(s, S) \in Seq(T)
         /\ \E g \in Places(Len(SelectIn(s, S)), Len(s)) :
              \A i \in 1..Len(SelectIn(s, S)) :
                SelectIn(s, S)[i] = s[g[i]] /\ SelectIn(s, S)[i] \in S
<1>1. PICK n : n = Len(s)
  OBVIOUS
<1>2. n \in Nat
  BY <1>1
<1> DEFINE kept == CHOOSE f : Selecting(f, s, S, n)
<1>3. SelectIn(s, S) = kept[n]
  BY <1>1 DEF SelectIn, Selecting
<1>4. Selecting(kept, s, S, n)
  BY <1>2, SelectingExists
<1> HIDE DEF kept
<1> DEFINE good(i) == /\ kept[i] \in Seq(T)
                      /\ \E g \in Places(Len(kept[i]), i) :
                           \A j \in 1..Len(kept[i]) : kept[i][j] = s[g[j]] /\ kept[i][j] \in S
           bad == {i \in 0..n : ~good(i)}
<1>5. good(0)
  <2>1. kept[0] = << >>
    BY <1>2, <1>4 DEF Selecting
  <2>2. PICK k : k = kept[0]
    OBVIOUS
  <2>3. k \in Seq(T) /\ Len(k) = 0
    BY <2>1, <2>2
  <2>4. PICK g : g = [j \in 1..0 |-> 1]
    OBVIOUS
  <2>5. g \in Places(Len(k), 0)
    BY <2>3, <2>4 DEF Places
  <2>6. \A j \in 1..Len(k) : k[j] = s[g[j]] /\ k[j] \in S
    BY <2>3
  <2> QED
    BY <2>2, <2>3, <2>5, <2>6
<1>6. ASSUME NEW i \in 1..n, good(i - 1) PROVE good(i)
  <2>1. kept[i] = IF s[i] \in S THEN Append(kept[i - 1], s[i]) ELSE kept[i - 1]
    <3>1. i \in 0..n /\ i # 0
      BY <1>2
    <3> QED
      BY <1>4, <3>1 DEF Selecting
  <2>2. s[i] \in T /\ i \in Nat /\ i - 1 \in Nat /\ i \in 1..i /\ 1..(i - 1) \subseteq 1..i
        /\ i \notin 1..(i - 1)
    BY <1>1, <1>2
  <2>3. PICK k : k = kept[i - 1]
    OBVIOUS
  <2>4. k \in Seq(T)
    BY <1>6, <2>3
  <2>5. PICK g \in Places(Len(k), i - 1) : \A j \in 1..Len(k) : k[j] = s[g[j]] /\ k[j] \in S
    BY <1>6, <2>3
  <2>6. /\ g \in [1..Len(k) -> 1..(i - 1)]
        /\ \A a, b \in 1..Len(k) : g[a] = g[b] => a = b
    BY <2>5 DEF Places
  <2>7. CASE s[i] \in S
    <3>1. PICK l \in Nat : l = Len(k)
      BY <2>4
    <3>2. PICK m : m = Append(k, s[i])
      OBVIOUS
    <3>3. /\ m \in Seq(T) /\ Len(m) = l + 1 /\ m[l + 1] = s[i]
          /\ \A j \in 1..l : m[j] = k[j]
      BY <2>2, <2>4, <3>1, <3>2
    <3>4. PICK h : h = [j \in 1..(l + 1) |-> IF j = l + 1 THEN i ELSE g[j]]
      OBVIOUS
    <3>5. \A j \in 1..(l + 1) : j = l + 1 \/ j \in 1..l
      OBVIOUS
    <3>6. /\ \A j \in 1..l : h[j] = g[j] /\ h[j] \in 1..(i - 1)
          /\ h[l + 1] = i
      BY <2>6, <3>1, <3>4
    <3>7. h \in [1..(l + 1) -> 1..i]
      BY <2>2, <3>4, <3>5, <3>6
    <3>8. \A a, b \in 1..(l + 1) : h[a] = h[b] => a = b
      BY <2>2, <2>6, <3>1, <3>5, <3>6
    <3>9. h \in Places(Len(m), i)
      BY <3>3, <3>7, <3>8 DEF Places
    <3>10. \A j \in 1..Len(m) : m[j] = s[h[j]] /\ m[j] \in S
      BY <2>5, <2>7, <3>1, <3>3, <3>5, <3>6
    <3>11. kept[i] = m
      BY <2>1, <2>3, <2>7, <3>2
    <3> QED
      BY <3>3, <3>9, <3>10, <3>11
  <2>8. CASE s[i] \notin S
    <3>1. kept[i] = k
      BY <2>1, <2>3, <2>8
    <3>2. g \in Places(Len(k), i)
      BY <2>2, <2>6 DEF Places
    <3> QED
      BY <2>4, <2>5, <3>1, <3>2
  <2> QED
    BY <2>7, <2>8
<1> HIDE DEF good
<1>7. bad = {}
  <2> SUFFICES ASSUME bad # {} PROVE FALSE
    OBVIOUS
  <2>1. bad \subseteq Nat /\ \A i \in bad : i \in 0..n /\ ~good(i)
    BY <1>2
  <2>2. PICK m \in bad : \A k \in bad : m <= k
    <3> HIDE DEF bad
    <3> QED
      BY <2>1, LeastNat
  <2>3. m # 0
    BY <1>5, <2>1
  <2>4. m \in 1..n /\ m - 1 \in 0..n /\ ~(m <= m - 1)
    <3> HIDE DEF bad
    <3> QED
      BY <1>2, <2>1, <2>2, <2>3
  <2>5. m - 1 \notin bad
    <3> HIDE DEF bad
    <3> QED
      BY <2>2, <2>4
  <2>6. good(m)
    BY <1>6, <2>4, <2>5
  <2> QED
    BY <2>1, <2>6
<1>8. good(n)
  BY <1>2, <1>7
<1> QED
  BY <1>1, <1>3, <1>8 DEF good

\* Times at which a call was made, each for another time it was made.
Recalled(call, times) ==
  \E g \in Places(Len(times), Len(made)) :
    \A i \in 1..Len(times) : made[g[i]] = <<call, times[i]>>

RecallInv ==
  /\ now \in Nat /\ made \in Seq(ToolArgs \X Nat)
  /\ callHistory \in [ToolArgs -> Seq(Nat)]
  /\ \A a \in ToolArgs : Recalled(a, callHistory[a])

LEMMA PlacesCompose ==
  ASSUME NEW k \in Nat, NEW l \in Nat, NEW m \in Nat, NEW g \in Places(k, l), NEW h \in Places(l, m)
  PROVE  [i \in 1..k |-> h[g[i]]] \in Places(k, m)
BY DEF Places

\* What is left of such times after they are pruned.
LEMMA PrunedRecalled ==
  ASSUME RecallInv, NEW a \in ToolArgs
  PROVE  /\ Pruned(callHistory[a]) \in Seq(Nat)
         /\ Recalled(a, Pruned(callHistory[a]))
         /\ \A i \in 1..Len(Pruned(callHistory[a])) :
              Pruned(callHistory[a])[i] <= now /\ now - Pruned(callHistory[a])[i] < Window
<1>1. PICK s, S : s = callHistory[a] /\ S = {t \in 0..now : now - t < Window}
  OBVIOUS
<1>2. s \in Seq(Nat) /\ Recalled(a, s)
  BY <1>1 DEF RecallInv
<1>3. PICK u : u = SelectIn(s, S)
  OBVIOUS
<1>4. u \in Seq(Nat) /\ Pruned(callHistory[a]) = u
  BY <1>1, <1>2, <1>3, SelectInPlaces DEF Pruned
<1>5. PICK g \in Places(Len(u), Len(s)) : \A i \in 1..Len(u) : u[i] = s[g[i]] /\ u[i] \in S
  BY <1>2, <1>3, SelectInPlaces
<1>6. PICK h \in Places(Len(s), Len(made)) : \A i \in 1..Len(s) : made[h[i]] = <<a, s[i]>>
  BY <1>2 DEF Recalled
<1>7. PICK f : f = [i \in 1..Len(u) |-> h[g[i]]]
  OBVIOUS
<1>8. f \in Places(Len(u), Len(made))
  <2>1. Len(u) \in Nat /\ Len(s) \in Nat /\ Len(made) \in Nat
    BY <1>2, <1>4 DEF RecallInv
  <2> QED
    BY <1>5, <1>6, <1>7, <2>1, PlacesCompose
<1>9. \A i \in 1..Len(u) : made[f[i]] = <<a, u[i]>>
  <2>1. \A i \in 1..Len(u) : g[i] \in 1..Len(s)
    BY <1>5 DEF Places
  <2> QED
    BY <1>5, <1>6, <1>7, <2>1
<1>10. \A i \in 1..Len(u) : u[i] <= now /\ now - u[i] < Window
  BY <1>1, <1>5
<1> QED
  BY <1>4, <1>8, <1>9, <1>10 DEF Recalled

\* One more call is recalled besides.
LEMMA RecalledMore ==
  ASSUME RecallInv, NEW call \in ToolArgs, made' = Append(made, <<call, now>>),
         NEW a \in ToolArgs, NEW times \in Seq(Nat), Recalled(a, times), NEW t \in Nat, t = now
  PROVE  /\ Recalled(a, times)'
         /\ a = call => Recalled(a, Append(times, t))'
<1>1. PICK n \in Nat, k \in Nat : n = Len(made) /\ k = Len(times)
  BY DEF RecallInv
<1>2. PICK w : w = made'
  OBVIOUS
<1>3. /\ Len(w) = n + 1 /\ w[n + 1] = <<call, now>> /\ \A i \in 1..n : w[i] = made[i]
  BY <1>1, <1>2 DEF RecallInv
<1>4. PICK g \in Places(k, n) : \A i \in 1..k : made[g[i]] = <<a, times[i]>>
  BY <1>1 DEF Recalled
<1>5. g \in [1..k -> 1..n] /\ \A i, j \in 1..k : g[i] = g[j] => i = j
  BY <1>4 DEF Places
<1>6. 1..n \subseteq 1..(n + 1) /\ n + 1 \in 1..(n + 1) /\ n + 1 \notin 1..n
  BY <1>1
<1>7. g \in Places(k, n + 1) /\ \A i \in 1..k : w[g[i]] = <<a, times[i]>>
  BY <1>3, <1>4, <1>5, <1>6 DEF Places
<1>8. Recalled(a, times)'
  BY <1>1, <1>2, <1>3, <1>7 DEF Recalled
<1>9. ASSUME a = call PROVE Recalled(a, Append(times, t))'
  <2>2. PICK u : u = Append(times, t)
    OBVIOUS
  <2>3. Len(u) = k + 1 /\ u[k + 1] = t /\ \A i \in 1..k : u[i] = times[i]
    BY <1>1, <2>2
  <2>4. PICK h : h = [i \in 1..(k + 1) |-> IF i = k + 1 THEN n + 1 ELSE g[i]]
    OBVIOUS
  <2>5. \A i \in 1..(k + 1) : i = k + 1 \/ i \in 1..k
    BY <1>1
  <2>6. h[k + 1] = n + 1 /\ \A i \in 1..k : h[i] = g[i] /\ h[i] \in 1..n
    BY <1>1, <1>5, <2>4
  <2>7. h \in [1..(k + 1) -> 1..(n + 1)]
    BY <1>6, <2>4, <2>5, <2>6
  <2>8. \A i, j \in 1..(k + 1) : h[i] = h[j] => i = j
    BY <1>5, <1>6, <2>5, <2>6
  <2>9. \A i \in 1..(k + 1) : w[h[i]] = <<a, u[i]>>
    BY <1>3, <1>7, <1>9, <2>3, <2>5, <2>6
  <2>10. h \in Places(Len(u), Len(w))
    BY <1>3, <2>3, <2>7, <2>8 DEF Places
  <2>11. Recalled(a, u)'
    BY <1>2, <2>3, <2>9, <2>10 DEF Recalled
  <2> QED
    BY <2>2, <2>11
<1> QED
  BY <1>8, <1>9

LEMMA RepeatStep ==
  ASSUME RecallInv, NEW args \in ToolArgs, made' = Append(made, <<args, now>>), UNCHANGED now,
         NEW searches, NEW least, RecordRepeat(args, searches, least)
  PROVE  /\ RecallInv'
         /\ \E times : /\ Recalled(args, times)' /\ times \in Seq(Nat)
                       /\ \A i \in 1..Len(times) : times[i] <= now /\ now - times[i] < Window
                       /\ verdict' = [level |-> IF LevelOf(Len(times)) = "normal" THEN least
                                                ELSE LevelOf(Len(times)),
                                      reason |-> "repeated", args |-> args]
<1>1. PICK t \in Nat : t = now
  BY DEF RecallInv
<1>2. PICK u : u = Pruned(callHistory[args])
  OBVIOUS
<1>3. PICK times : times = Append(u, t)
  OBVIOUS
<1>4. /\ u \in Seq(Nat) /\ Recalled(args, u)
      /\ \A i \in 1..Len(u) : u[i] <= t /\ t - u[i] < Window
  BY <1>1, <1>2, PrunedRecalled
<1>5. times \in Seq(Nat) /\ Recalled(args, times)'
  BY <1>1, <1>3, <1>4, RecalledMore
<1>6. \A i \in 1..Len(times) : times[i] <= t /\ t - times[i] < Window
  <2>1. PICK l \in Nat : l = Len(u)
    BY <1>4
  <2>2. Len(times) = l + 1 /\ times[l + 1] = t /\ \A i \in 1..l : times[i] = u[i]
    BY <1>3, <1>4, <2>1
  <2>3. t - t < Window /\ t <= t
    BY <1>1, DetectorAssumption
  <2>4. \A i \in 1..(l + 1) : i = l + 1 \/ i \in 1..l
    BY <2>1
  <2> QED
    BY <1>4, <2>1, <2>2, <2>3, <2>4
<1>7. /\ callHistory' = [a \in ToolArgs |-> IF a = args THEN times ELSE Pruned(callHistory[a])]
      /\ verdict' = [level |-> IF LevelOf(Len(times)) = "normal" THEN least ELSE LevelOf(Len(times)),
                     reason |-> "repeated", args |-> args]
  BY <1>1, <1>2, <1>3 DEF RecordRepeat, Verdict
<1>8. ASSUME NEW a \in ToolArgs
      PROVE  callHistory'[a] \in Seq(Nat) /\ Recalled(a, callHistory[a])'
  <2>1. CASE a = args
    BY <1>5, <1>7, <2>1 DEF Recalled
  <2>2. CASE a # args
    <3>1. PICK v : v = Pruned(callHistory[a])
      OBVIOUS
    <3>2. v \in Seq(Nat) /\ Recalled(a, v)
      BY <3>1, PrunedRecalled
    <3>3. Recalled(a, v)' /\ callHistory'[a] = v
      BY <1>1, <1>7, <2>2, <3>1, <3>2, RecalledMore
    <3> QED
      BY <3>2, <3>3 DEF Recalled
  <2> QED
    BY <2>1, <2>2
<1>9. RecallInv'
  <2>1. now' \in Nat /\ made' \in Seq(ToolArgs \X Nat)
    BY <1>1 DEF RecallInv
  <2>2. callHistory' \in [ToolArgs -> Seq(Nat)]
    <3>1. \A a \in ToolArgs : callHistory'[a] \in Seq(Nat)
      BY <1>8
    <3>2. callHistory' = [a \in ToolArgs |-> callHistory'[a]]
      BY <1>7
    <3> QED
      BY <3>1, <3>2
  <2> QED
    BY <1>8, <2>1, <2>2 DEF RecallInv
<1> QED
  BY <1>1, <1>5, <1>6, <1>7, <1>9

\* The other steps recall what was recalled.
LEMMA StillRecalled ==
  ASSUME RecallInv, NEW args \in ToolArgs, made' = Append(made, <<args, now>>),
         UNCHANGED <<now, callHistory>>
  PROVE  RecallInv'
<1>1. PICK t \in Nat : t = now
  BY DEF RecallInv
<1>2. ASSUME NEW a \in ToolArgs PROVE Recalled(a, callHistory[a])'
  <2>1. PICK s : s = callHistory[a]
    OBVIOUS
  <2>2. s \in Seq(Nat) /\ Recalled(a, s)
    BY <2>1 DEF RecallInv
  <2>3. Recalled(a, s)'
    BY <1>1, <2>2, RecalledMore
  <2> QED
    BY <2>1, <2>3 DEF Recalled
<1>3. now' \in Nat /\ made' \in Seq(ToolArgs \X Nat) /\ callHistory' \in [ToolArgs -> Seq(Nat)]
  BY DEF RecallInv
<1> QED
  BY <1>2, <1>3 DEF RecallInv

\* A refusal for repetition comes from so many calls in the window.
LEMMA RefusalCounts ==
  ASSUME RecallInv, RecallInv', NEW args \in ToolArgs, NEW times \in Seq(Nat),
         Recalled(args, times)', \A i \in 1..Len(times) : times[i] <= now /\ now - times[i] < Window,
         Len(times) > Blocked
  PROVE  Cardinality({i \in DOMAIN made' : made'[i][1] = args /\ now - made'[i][2] < Window}) > Blocked
<1>1. PICK w, t, k : w = made' /\ t = now /\ k = Len(times)
  OBVIOUS
<1>2. w \in Seq(ToolArgs \X Nat) /\ k \in Nat /\ k > Blocked /\ DOMAIN w = 1..Len(w) /\ Len(w) \in Nat
  BY <1>1 DEF RecallInv
<1>3. PICK g \in Places(k, Len(w)) : \A i \in 1..k : w[g[i]] = <<args, times[i]>>
  BY <1>1 DEF Recalled
<1>4. PICK A : A = {i \in DOMAIN w : w[i][1] = args /\ t - w[i][2] < Window}
  OBVIOUS
<1>5. g \in Injection(1..k, A)
  <2>1. g \in [1..k -> 1..Len(w)] /\ \A i, j \in 1..k : g[i] = g[j] => i = j
    BY <1>3 DEF Places
  <2>2. \A i \in 1..k : w[g[i]][1] = args /\ w[g[i]][2] = times[i]
    <3> SUFFICES ASSUME NEW i \in 1..k PROVE w[g[i]][1] = args /\ w[g[i]][2] = times[i]
      OBVIOUS
    <3>1. PICK n, e : n = times[i] /\ e = w[g[i]]
      OBVIOUS
    <3>2. e = <<args, n>>
      BY <1>3, <3>1
    <3>3. e[1] = args /\ e[2] = n
      BY <3>2
    <3> QED
      BY <3>1, <3>3
  <2>3. \A i \in 1..k : t - times[i] < Window
    BY <1>1
  <2>4. \A i \in 1..k : g[i] \in A
    BY <1>2, <1>4, <2>1, <2>2, <2>3
  <2>5. g \in [1..k -> A]
    BY <2>1, <2>4
  <2> QED
    BY <2>1, <2>5 DEF Injection, IsInjective
<1>6. IsFiniteSet(A)
  <2>1. IsFiniteSet(1..Len(w)) /\ A \subseteq 1..Len(w)
    BY <1>2, <1>4, FS_Interval
  <2> QED
    BY <2>1, FS_Subset
<1>7. Cardinality(1..k) = k
  BY <1>2, FS_Interval
<1>8. Cardinality(1..k) <= Cardinality(A) /\ Cardinality(A) \in Nat
  BY <1>5, <1>6, FS_Injection, FS_CardinalityType
<1>9. Cardinality(A) > Blocked
  BY <1>2, <1>7, <1>8, DetectorAssumption
<1> QED
  BY <1>1, <1>4, <1>9

Refused == verdict'.level = "blocked" /\ verdict'.reason = "repeated" /\ made' # made

RecentRepeats ==
  Cardinality({i \in DOMAIN made' :
                 made'[i][1] = verdict'.args /\ now - made'[i][2] < Window}) > Blocked

LEMMA RepeatRefuses ==
  ASSUME RecallInv, NEW args \in ToolArgs, made' = Append(made, <<args, now>>), UNCHANGED now,
         NEW searches, NEW least \in {"normal", "reduced"}, RecordRepeat(args, searches, least)
  PROVE  RecallInv' /\ (Refused => RecentRepeats)
<1>1. RecallInv'
  BY RepeatStep
<1>2. PICK times : /\ Recalled(args, times)' /\ times \in Seq(Nat)
                   /\ \A i \in 1..Len(times) : times[i] <= now /\ now - times[i] < Window
                   /\ verdict' = [level |-> IF LevelOf(Len(times)) = "normal" THEN least
                                            ELSE LevelOf(Len(times)),
                                  reason |-> "repeated", args |-> args]
  BY RepeatStep
<1>3. ASSUME Refused PROVE RecentRepeats
  <2>1. Len(times) > Blocked /\ verdict'.args = args
    BY <1>2, <1>3 DEF Refused, LevelOf
  <2> QED
    BY <1>1, <1>2, <2>1, RefusalCounts DEF RecentRepeats
<1> QED
  BY <1>1, <1>3

LEMMA ThrottledStep ==
  ASSUME RecallInv, NEW args \in ToolArgs, ThrottledCall(args)
  PROVE  RecallInv' /\ (Refused => RecentRepeats)
<1>1. made' = Append(made, <<args, now>>) /\ UNCHANGED now
  BY DEF ThrottledCall
<1>2. CASE args \notin SearchArgs
  <2>1. RecordRepeat(args, searchHistory, "normal")
    BY <1>2 DEF ThrottledCall
  <2> QED
    BY <1>1, <2>1, RepeatRefuses
<1>3. CASE args \in SearchArgs
  <2>1. \/ UNCHANGED callHistory /\ (verdict'.level = "blocked" => verdict'.reason # "repeated")
        \/ \E searches, least : least \in {"normal", "reduced"} /\ RecordRepeat(args, searches, least)
    <3>1. RecordSearch(args)
      BY <1>3 DEF ThrottledCall
    <3> QED
      BY <3>1 DEF RecordSearch, Verdict
  <2>2. CASE UNCHANGED callHistory /\ (verdict'.level = "blocked" => verdict'.reason # "repeated")
    BY <1>1, <2>2, StillRecalled DEF Refused
  <2>3. CASE \E searches, least : least \in {"normal", "reduced"} /\ RecordRepeat(args, searches, least)
    <3>1. PICK searches, least : least \in {"normal", "reduced"} /\ RecordRepeat(args, searches, least)
      BY <2>3
    <3> QED
      BY <1>1, <3>1, RepeatRefuses
  <2> QED
    BY <2>1, <2>2, <2>3
<1> QED
  BY <1>2, <1>3

LEMMA RecallInit == DetectorInit => RecallInv
<1> SUFFICES ASSUME DetectorInit PROVE RecallInv
  OBVIOUS
<1>1. /\ now = 0 /\ callHistory = [a \in ToolArgs |-> << >>] /\ made = << >>
  BY DEF DetectorInit
<1>2. PICK z : z = << >>
  OBVIOUS
<1>3. z \in Seq(Nat) /\ Len(z) = 0
  BY <1>2
<1>4. PICK g : g = [i \in 1..0 |-> 0]
  OBVIOUS
<1>5. g \in Places(0, 0)
  BY <1>4 DEF Places
<1>6. \A a \in ToolArgs : Recalled(a, z)
  BY <1>1, <1>2, <1>3, <1>5 DEF Recalled
<1> QED
  BY <1>1, <1>2, <1>6 DEF RecallInv

LEMMA RecallNext == RecallInv /\ [DetectorNext]_detectorVars => RecallInv' /\ (Refused => RecentRepeats)
<1> SUFFICES ASSUME RecallInv, [DetectorNext]_detectorVars
             PROVE  RecallInv' /\ (Refused => RecentRepeats)
  OBVIOUS
<1>1. ASSUME NEW a \in ToolArgs, ThrottledCall(a) PROVE RecallInv' /\ (Refused => RecentRepeats)
  BY <1>1, ThrottledStep
<1>2. CASE TimePasses \/ UNCHANGED detectorVars
  <2>1. UNCHANGED <<callHistory, made>> /\ now' \in Nat
    BY <1>2 DEF TimePasses, detectorVars, RecallInv
  <2> QED
    BY <2>1 DEF RecallInv, Recalled, Refused
<1> QED
  BY <1>1, <1>2 DEF DetectorNext

\* A call is refused as a repetition only when it was made more often than the threshold
\* within the window, for any calls, thresholds and window: what is remembered of a call
\* are times at which it was made, each once (record_call, prune_window).
THEOREM RefusedCallsAreRecent == DetectorSpec => RepeatsAreRecent
<1>1. RecallInv /\ [DetectorNext]_detectorVars
        => [Refused => RecentRepeats]_detectorVars
  BY RecallNext
<1> QED
  BY <1>1, RecallInit, RecallNext, PTL DEF DetectorSpec, RepeatsAreRecent, Refused, RecentRepeats

-----------------------------------------------------------------------------
(***************************************************************************)
(* The types of the memories: the host holds nothing but what is of a      *)
(* category of the files.                                                  *)
(***************************************************************************)

\* The steps of putting sequences one behind the other.
Flattening(flat, seqs, n) ==
  flat = [i \in 1..n |-> IF i = 1 THEN seqs[i] ELSE flat[i - 1] \o seqs[i]]

LEMMA FlatteningExists ==
  ASSUME NEW seqs, NEW n \in Nat
  PROVE  \E flat : Flattening(flat, seqs, n)
<1> DEFINE T == {m \in Nat : ~\E flat : Flattening(flat, seqs, m)}
<1>1. 0 \notin T
  <2>1. PICK none : none = [i \in 1..0 |-> << >>]
    OBVIOUS
  <2>2. Flattening(none, seqs, 0)
    BY <2>1 DEF Flattening
  <2> QED
    BY <2>2
<1>2. ASSUME T # {} PROVE FALSE
  <2>1. PICK m \in T : \A k \in T : m <= k
    <3> HIDE DEF T
    <3>1. T \subseteq Nat
      BY DEF T
    <3> QED
      BY <1>2, <3>1, LeastNat
  <2>2. m \in Nat /\ m # 0 /\ m - 1 \in Nat /\ m - 1 \notin T
    BY <1>1, <2>1
  <2>3. PICK flat : Flattening(flat, seqs, m - 1)
    BY <2>2
  <2> DEFINE next(f, i) == IF i = 1 THEN seqs[i] ELSE f[i - 1] \o seqs[i]
             last == next(flat, m)
             more == [i \in 1..m |-> IF i = m THEN last ELSE flat[i]]
  <2>4. \A i \in 1..(m - 1) : flat[i] = next(flat, i)
    BY <2>3 DEF Flattening
  <2>5. \A i \in 1..m : more[i] = next(more, i)
    <3> SUFFICES ASSUME NEW i \in 1..m PROVE more[i] = next(more, i)
      OBVIOUS
    <3>1. CASE i = m
      <4>1. i # 1 => i - 1 \in 1..m /\ i - 1 # m
        BY <2>2, <3>1
      <4> HIDE DEF next
      <4>2. more[i] = next(flat, m)
        BY <3>1
      <4>3. i # 1 => more[i - 1] = flat[i - 1]
        <5> HIDE DEF last
        <5> QED
          BY <4>1
      <4> HIDE DEF more
      <4> QED
        BY <3>1, <4>2, <4>3 DEF next
    <3>2. CASE i # m
      <4>1. i \in 1..(m - 1) /\ (i # 1 => i - 1 \in 1..m /\ i - 1 # m)
        BY <2>2, <3>2
      <4>2. more[i] = flat[i] /\ (i # 1 => more[i - 1] = flat[i - 1])
        <5> HIDE DEF last, next
        <5> QED
          BY <3>2, <4>1
      <4> HIDE DEF more
      <4> QED
        BY <2>4, <4>1, <4>2
    <3> QED
      BY <3>1, <3>2
  <2>6. Flattening(more, seqs, m)
    <3>1. more = [i \in 1..m |-> more[i]]
      <4> HIDE DEF last
      <4> QED
        OBVIOUS
    <3> HIDE DEF more
    <3> QED
      BY <2>5, <3>1 DEF Flattening
  <2> QED
    BY <2>1, <2>6
<1> QED
  BY <1>2

LEMMA FlattenTyped ==
  ASSUME NEW S, NEW seqs \in Seq(Seq(S))
  PROVE  FlattenSeq(seqs) \in Seq(S)
<1>1. PICK n \in Nat : n = Len(seqs)
  OBVIOUS
<1>2. CASE n = 0
  <2>1. Len(seqs) = 0 /\ seqs = << >>
    BY <1>1, <1>2, EmptySeq
  <2>2. FlattenSeq(seqs) = seqs
    BY <2>1 DEF FlattenSeq, Flattening
  <2>3. << >> \in Seq(S)
    OBVIOUS
  <2> QED
    BY <2>1, <2>2, <2>3
<1>3. CASE n # 0
  <2> DEFINE flat == CHOOSE f : Flattening(f, seqs, n)
  <2>1. FlattenSeq(seqs) = flat[n]
    BY <1>1, <1>3 DEF FlattenSeq, Flattening
  <2>2. Flattening(flat, seqs, n)
    BY FlatteningExists
  <2> HIDE DEF flat
  <2>3. \A i \in 1..n : flat[i] = IF i = 1 THEN seqs[i] ELSE flat[i - 1] \o seqs[i]
    BY <2>2 DEF Flattening
  <2>4. \A i \in 1..n : seqs[i] \in Seq(S)
    BY <1>1
  <2> DEFINE bad == {i \in 1..n : flat[i] \notin Seq(S)}
  <2>5. ASSUME bad # {} PROVE FALSE
    <3>1. bad \subseteq Nat
      BY <1>1
    <3>2. PICK m \in bad : \A k \in bad : m <= k
      <4> HIDE DEF bad
      <4> QED
        BY <2>5, <3>1, LeastNat
    <3>3. m \in 1..n /\ flat[m] \notin Seq(S)
      BY <3>2
    <3>4. CASE m = 1
      BY <2>3, <2>4, <3>3, <3>4
    <3>5. CASE m # 1
      <4>1. m - 1 \in 1..n /\ ~(m <= m - 1)
        BY <3>3, <3>5
      <4>2. m - 1 \notin bad
        <5> HIDE DEF bad
        <5> QED
          BY <3>2, <4>1
      <4>3. flat[m - 1] \in Seq(S)
        BY <4>1, <4>2
      <4>4. flat[m] = flat[m - 1] \o seqs[m] /\ seqs[m] \in Seq(S)
        BY <2>3, <2>4, <3>3, <3>5
      <4>5. PICK u \in Seq(S), w \in Seq(S) : u = flat[m - 1] /\ w = seqs[m]
        BY <4>3, <4>4
      <4>6. u \o w \in Seq(S)
        OBVIOUS
      <4> QED
        BY <3>3, <4>4, <4>5, <4>6
    <3> QED
      BY <3>4, <3>5
  <2>6. n \in 1..n
    BY <1>1, <1>3
  <2> QED
    BY <2>1, <2>5, <2>6
<1> QED
  BY <1>2, <1>3

\* The categories of the files, and entries of none but those.
Categories == {CategoryOf[f] : f \in ToSet(Files)}
OfCategories(S) == \A x \in S : x[1] \in Categories

LEMMA EntriesFiled ==
  ASSUME files \in [ToSet(Files) -> Contents]
  PROVE  OfCategories(Entries(Records))
<1> DEFINE R == {r \in {[entry |-> <<CategoryOf[f], i>>, value |-> files[f][i]] :
                          f \in ToSet(Files), i \in Nat} : TRUE}
<1>1. PICK n \in Nat : n = Len(Files) /\ DOMAIN Files = 1..n
  BY RepoMemoryAssumption
<1>2. ASSUME NEW f \in ToSet(Files) PROVE RecordsOf(f) \in Seq(R)
  <2>1. PICK k \in Nat : k = Len(files[f])
    <3>1. PICK lines \in Contents : lines = files[f]
      OBVIOUS
    <3>2. lines \in Seq(ToSet(lines))
      BY RepoMemoryAssumption
    <3> QED
      BY <3>1, <3>2
  <2>2. RecordsOf(f) = [i \in 1..k |-> [entry |-> <<CategoryOf[f], i>>, value |-> files[f][i]]]
    BY <2>1 DEF RecordsOf
  <2>3. \A i \in 1..k : [entry |-> <<CategoryOf[f], i>>, value |-> files[f][i]] \in R
    OBVIOUS
  <2> HIDE DEF R
  <2>4. RecordsOf(f) \in [1..k -> R]
    BY <2>2, <2>3
  <2> QED
    BY <2>4
<1>3. \A r \in R : r.entry[1] \in Categories
  BY DEF Categories
<1> HIDE DEF R
<1>4. PICK lists : lists = [i \in 1..n |-> RecordsOf(Files[i])]
  OBVIOUS
<1>5. \A i \in 1..n : Files[i] \in ToSet(Files)
  BY <1>1 DEF ToSet
<1>6. lists \in [1..n -> Seq(R)]
  BY <1>2, <1>4, <1>5
<1>7. lists \in Seq(Seq(R))
  BY <1>6
<1>8. Records \in Seq(R)
  BY <1>1, <1>4, <1>7, FlattenTyped DEF Records
<1>9. PICK recs \in Seq(R) : recs = Records
  BY <1>8
<1>10. \A r \in ToSet(recs) : r \in R
  BY DEF ToSet
<1> QED
  BY <1>3, <1>9, <1>10 DEF Entries, OfCategories

\* What waits to be applied is filed as well.
CallFiled(call) == call.kind = "import" => OfCategories(Entries(call.records))

RepoTypeInv ==
  /\ RepoMemoryTypeOK
  /\ DOMAIN records = Syncers /\ DOMAIN gone = Syncers
  /\ \E S : queued \in Seq(S)
  /\ \A i \in DOMAIN queued : CallFiled(queued[i])
  /\ \A call \in inHand : CallFiled(call)
  /\ \A p \in Syncers : OfCategories(Entries(records[p]))

LEMMA EffectFiled ==
  ASSUME NEW call, NEW memory, CallFiled(call), OfCategories(DOMAIN memory)
  PROVE  OfCategories(DOMAIN Effect(call, memory))
<1>1. CASE call.kind = "import"
  <2>1. PICK new : new = Image(call.records)
    OBVIOUS
  <2>2. DOMAIN new = Entries(call.records)
    BY <2>1, ImageMemory
  <2>3. Effect(call, memory) = [x \in DOMAIN new \union DOMAIN memory |->
                                  IF x \in DOMAIN new THEN new[x] ELSE memory[x]]
    BY <1>1, <2>1 DEF Effect
  <2>4. DOMAIN Effect(call, memory) = DOMAIN new \union DOMAIN memory
    BY <2>3
  <2> QED
    BY <1>1, <2>2, <2>4 DEF CallFiled, OfCategories
<1>2. CASE call.kind # "import"
  <2>1. Effect(call, memory) = Restrict(memory, DOMAIN memory \ {call.entry})
    BY <1>2 DEF Effect
  <2>2. DOMAIN Effect(call, memory) \subseteq DOMAIN memory
    BY <2>1 DEF Restrict
  <2> QED
    BY <2>2 DEF OfCategories
<1> QED
  BY <1>1, <1>2

LEMMA OutcomesFiled ==
  ASSUME NEW call, NEW memory, CallFiled(call), OfCategories(DOMAIN memory),
         NEW m \in Outcomes(call, memory)
  PROVE  OfCategories(DOMAIN m)
<1>1. PICK done : done = Effect(call, memory)
  OBVIOUS
<1>2. OfCategories(DOMAIN done)
  BY <1>1, EffectFiled
<1>3. \/ m = done
      \/ \E x : m = Restrict(done, DOMAIN done \ {x})
      \/ \E x : m = [done EXCEPT ![x] = memory[x]]
  BY <1>1 DEF Outcomes
<1>4. \A x : DOMAIN Restrict(done, DOMAIN done \ {x}) \subseteq DOMAIN done
  BY DEF Restrict
<1>5. \A x : DOMAIN [done EXCEPT ![x] = memory[x]] = DOMAIN done
  OBVIOUS
<1> QED
  BY <1>2, <1>3, <1>4, <1>5 DEF OfCategories

LEMMA CallsFiled ==
  /\ \A recs : OfCategories(Entries(recs)) => CallFiled(ImportCall(recs))
  /\ \A x : CallFiled(RemoveCall(x))
BY DEF CallFiled, ImportCall, RemoveCall

LEMMA SendsFiled ==
  ASSUME RepoTypeInv, NEW call, CallFiled(call), Sends(call)
  PROVE  /\ OfCategories(DOMAIN hostMemory') /\ Len(queued') <= MaxQueued /\ disturbed' \in BOOLEAN
         /\ (\E S : queued \in Seq(S))' /\ \A i \in DOMAIN queued' : CallFiled(queued'[i])
         /\ \A c \in inHand' : CallFiled(c)
<1>0. PICK S : queued \in Seq(S)
  BY DEF RepoTypeInv
<1>1. PICK q \in Seq(S) : q = queued
  BY <1>0
<1>2. OfCategories(DOMAIN hostMemory) /\ disturbed \in BOOLEAN /\ Len(q) <= MaxQueued
      /\ \A i \in DOMAIN q : CallFiled(q[i])
  BY <1>1 DEF RepoTypeInv, RepoMemoryTypeOK, OfCategories, Categories
<1>3. OfCategories(DOMAIN hostMemory')
  BY <1>2, OutcomesFiled DEF Sends
<1>4. disturbed' \in BOOLEAN /\ \A c \in inHand' : CallFiled(c)
  BY <1>2 DEF Sends, MayLinger, RepoTypeInv
<1>5. CASE queued' = queued
  BY <1>1, <1>2, <1>3, <1>4, <1>5
<1>6. CASE Len(queued) < MaxQueued /\ queued' = Append(queued, call)
  <2>1. PICK more : more = Append(q, call)
    OBVIOUS
  <2>2. q \in Seq(S \union {call})
    OBVIOUS
  <2>3. more \in Seq(S \union {call}) /\ Len(more) = Len(q) + 1 /\ Len(q) \in Nat
    BY <2>1, <2>2
  <2>4. \A i \in 1..(Len(q) + 1) : i = Len(q) + 1 \/ i \in 1..Len(q)
    BY <2>3
  <2>5. more[Len(q) + 1] = call /\ \A i \in 1..Len(q) : more[i] = q[i]
    BY <2>1, <2>2
  <2>6. \A i \in DOMAIN more : CallFiled(more[i])
    BY <1>2, <2>3, <2>4, <2>5
  <2> QED
    BY <1>1, <1>3, <1>4, <1>6, <2>1, <2>3, <2>6, RepoMemoryAssumption
<1> QED
  BY <1>5, <1>6 DEF Sends

LEMMA RepoTypeNext == RepoTypeInv /\ [RepoMemoryNext]_repoMemoryVars => RepoTypeInv'
<1> SUFFICES ASSUME RepoTypeInv, [RepoMemoryNext]_repoMemoryVars PROVE RepoTypeInv'
  OBVIOUS
<1> USE DEF RepoTypeInv, RepoMemoryTypeOK
<1>a. OfCategories(DOMAIN hostMemory)
  BY DEF OfCategories, Categories
<1>b. OfCategories(DOMAIN hostMemory') =>
        \A x \in DOMAIN hostMemory' : x[1] \in {CategoryOf[f] : f \in ToSet(Files)}
  BY DEF OfCategories, Categories
<1>c. Entries(<< >>) = {} /\ OfCategories({})
  BY DEF Entries, ToSet, OfCategories
<1>1. ASSUME NEW f \in ToSet(Files), EditFile(f) PROVE RepoTypeInv'
  BY <1>1, RepoMemoryAssumption DEF EditFile
<1>2. ASSUME NEW p \in Syncers, StartMemorySync(p) PROVE RepoTypeInv'
  <2>1. OfCategories(Entries(Records))
    BY EntriesFiled
  <2>2. PICK g : g = Gone(lastSync, Records)
    OBVIOUS
  <2>3. PICK recs : recs = Records
    OBVIOUS
  <2> QED
    BY <1>2, <2>1, <2>2, <2>3 DEF StartMemorySync
<1>3. ASSUME NEW p \in Syncers, ImportRecords(p) PROVE RepoTypeInv'
  <2>1. CallFiled(ImportCall(records[p]))
    BY CallsFiled
  <2>2. Sends(ImportCall(records[p]))
    BY <1>3 DEF ImportRecords
  <2> QED
    BY <1>3, <1>b, <2>1, <2>2, SendsFiled DEF ImportRecords
<1>4. ASSUME NEW p \in Syncers, RemoveEntry(p) PROVE RepoTypeInv'
  <2>1. PICK x \in gone[p] : Sends(RemoveCall(x)) /\ gone' = [gone EXCEPT ![p] = @ \ {x}]
    BY <1>4 DEF RemoveEntry
  <2>2. CallFiled(RemoveCall(x))
    BY CallsFiled
  <2> QED
    BY <1>4, <1>b, <2>1, <2>2, SendsFiled DEF RemoveEntry
<1>s. ASSUME NEW p \in Syncers, Stops(p)
      PROVE  /\ syncer' \in [Syncers -> {"idle", "import", "remove"}]
             /\ \A q \in Syncers : syncer'[q] = "idle" => records'[q] = << >> /\ gone'[q] = {}
             /\ \A q \in Syncers : OfCategories(Entries(records'[q]))
             /\ DOMAIN records' = Syncers /\ DOMAIN gone' = Syncers
  <2>1. /\ syncer' = [syncer EXCEPT ![p] = "idle"]
        /\ DOMAIN records' = Syncers /\ DOMAIN gone' = Syncers
        /\ records'[p] = << >> /\ gone'[p] = {}
        /\ \A q \in Syncers \ {p} : records'[q] = records[q] /\ gone'[q] = gone[q]
    BY <1>s DEF Stops
  <2> QED
    BY <1>c, <2>1
<1>5. ASSUME NEW p \in Syncers, WriteState(p) PROVE RepoTypeInv'
  BY <1>5, <1>s DEF WriteState
<1>6. ASSUME NEW p \in Syncers, BreakOff(p) PROVE RepoTypeInv'
  <2>1. \A call \in NextCalls(p) : CallFiled(call)
    BY CallsFiled DEF NextCalls
  <2>2. OfCategories(DOMAIN hostMemory')
    BY <1>6, <1>a, <2>1, OutcomesFiled DEF BreakOff
  <2>3. disturbed' \in BOOLEAN /\ \A call \in inHand' : CallFiled(call)
    BY <1>6, <2>1 DEF BreakOff
  <2> QED
    BY <1>6, <1>b, <1>s, <2>2, <2>3 DEF BreakOff
<1>7. ASSUME ReplayQueued PROVE RepoTypeInv'
  <2>0. PICK S : queued \in Seq(S)
    OBVIOUS
  <2>1. PICK q \in Seq(S) : q = queued
    BY <2>0
  <2>2. PICK i \in 1..Len(q) :
          /\ hostMemory' \in Outcomes(q[i], hostMemory)
          /\ queued' \in {RemoveAt(q, i), q} /\ inHand' \in {inHand, {q[i]}}
          /\ disturbed' \in BOOLEAN
    BY <1>7, <2>1 DEF ReplayQueued, MayLinger
  <2>3. CallFiled(q[i])
    BY <2>1, <2>2
  <2>4. OfCategories(DOMAIN hostMemory') /\ \A call \in inHand' : CallFiled(call)
    BY <1>a, <2>2, <2>3, OutcomesFiled
  <2>5. PICK t : t = RemoveAt(q, i)
    OBVIOUS
  <2>6. /\ t \in Seq(S) /\ Len(t) = Len(q) - 1 /\ Len(q) \in Nat
        /\ \A j \in 1..(Len(q) - 1) : t[j] = IF j < i THEN q[j] ELSE q[j + 1]
    <3>1. /\ RemoveAt(q, i) \in Seq(S) /\ Len(RemoveAt(q, i)) = Len(q) - 1
          /\ \A j \in 1..(Len(q) - 1) : RemoveAt(q, i)[j] = IF j < i THEN q[j] ELSE q[j + 1]
      BY ONLY RemoveAtSeq
    <3>2. Len(q) \in Nat
      OBVIOUS
    <3> QED
      BY ONLY <2>5, <3>1, <3>2
  <2>7. ASSUME NEW j \in DOMAIN t PROVE CallFiled(t[j])
    <3>1. j \in 1..(Len(q) - 1) /\ j \in DOMAIN q /\ j + 1 \in DOMAIN q
      BY <2>6
    <3>2. t[j] = q[j] \/ t[j] = q[j + 1]
      BY <2>6, <3>1
    <3> QED
      BY <2>1, <3>1, <3>2
  <2>8. /\ queued' \in Seq(S) /\ Len(queued') <= MaxQueued
        /\ \A j \in DOMAIN queued' : CallFiled(queued'[j])
    <3>1. CASE queued' = t
      <4>1. Len(q) <= MaxQueued /\ MaxQueued \in Nat
        BY <2>1, RepoMemoryAssumption
      <4>2. Len(t) <= MaxQueued
        BY <2>6, <4>1
      <4> QED
        BY <2>6, <2>7, <3>1, <4>2
    <3>2. CASE queued' = q
      BY <2>1, <3>2
    <3> QED
      BY <2>2, <2>5, <3>1, <3>2
  <2> QED
    BY <1>7, <1>b, <2>2, <2>4, <2>8 DEF ReplayQueued
<1>9. ASSUME ReplayLate PROVE RepoTypeInv'
  <2>1. PICK call \in inHand :
          \/ hostMemory' \in Outcomes(call, hostMemory) /\ UNCHANGED queued
          \/ /\ Len(queued) < MaxQueued /\ queued' = <<call>> \o queued
             /\ hostMemory' \in {hostMemory} \union Outcomes(call, hostMemory)
    BY <1>9 DEF ReplayLate
  <2>2. OfCategories(DOMAIN hostMemory')
    BY <1>a, <2>1, OutcomesFiled
  <2>3. CASE UNCHANGED queued
    BY <1>9, <1>b, <2>2, <2>3 DEF ReplayLate
  <2>4. CASE Len(queued) < MaxQueued /\ queued' = <<call>> \o queued
    <3>0. PICK S : queued \in Seq(S)
      OBVIOUS
    <3>1. PICK q \in Seq(S \union {call}) : q = queued
      BY <3>0, SeqMonotonic
    <3>2. PICK more : more = <<call>> \o q
      OBVIOUS
    <3>3. /\ more \in Seq(S \union {call}) /\ Len(more) = Len(q) + 1 /\ Len(q) \in Nat
          /\ more[1] = call /\ \A i \in 1..Len(q) : more[i + 1] = q[i]
      BY <3>2
    <3>4. ASSUME NEW i \in DOMAIN more PROVE CallFiled(more[i])
      <4>1. CASE i = 1
        BY <2>1, <3>3, <4>1
      <4>2. CASE i # 1
        <5>1. i - 1 \in 1..Len(q) /\ i - 1 \in DOMAIN q /\ (i - 1) + 1 = i
          BY <3>3, <4>2
        <5>2. more[i] = q[i - 1]
          BY <3>3, <5>1
        <5> QED
          BY <3>1, <5>1, <5>2
      <4> QED
        BY <4>1, <4>2
    <3>5. /\ queued' = more /\ Len(queued') <= MaxQueued
          /\ \A i \in DOMAIN queued' : CallFiled(queued'[i])
      BY <2>4, <3>1, <3>2, <3>3, <3>4, RepoMemoryAssumption
    <3> QED
      BY <1>9, <1>b, <2>2, <3>3, <3>5 DEF ReplayLate
  <2> QED
    BY <2>1, <2>3, <2>4
<1>8. CASE UNCHANGED repoMemoryVars
  BY <1>8 DEF repoMemoryVars, OfCategories
<1> QED
  BY <1>1, <1>2, <1>3, <1>4, <1>5, <1>6, <1>7, <1>8, <1>9 DEF RepoMemoryNext

\* The host holds no entry of a category that none of the files has, and no more calls wait
\* than may.
THEOREM RepoMemoryIsTyped == RepoMemorySpec => []RepoMemoryTypeOK
<1>1. RepoMemoryInit => RepoTypeInv
  <2> SUFFICES ASSUME RepoMemoryInit PROVE RepoTypeInv
    OBVIOUS
  <2>1. Entries(<< >>) = {} /\ DOMAIN << >> = {} /\ << >> \in Seq({}) /\ Len(<< >>) = 0
    BY DEF Entries, ToSet
  <2>2. queued = << >> /\ hostMemory = << >>
    BY DEF RepoMemoryInit
  <2>3. /\ \E S : queued \in Seq(S)
        /\ \A i \in DOMAIN queued : CallFiled(queued[i])
    BY <2>1, <2>2
  <2>4. RepoMemoryTypeOK
    <3>1. Len(queued) <= MaxQueued /\ \A x \in DOMAIN hostMemory : FALSE
      BY <2>1, <2>2, RepoMemoryAssumption
    <3>2. files \in [ToSet(Files) -> Contents]
      BY RepoMemoryAssumption DEF RepoMemoryInit
    <3>3. edits \in 0..MaxEdits /\ disturbed \in BOOLEAN
      <4>1. edits = 0 /\ disturbed = FALSE
        BY DEF RepoMemoryInit
      <4>2. MaxEdits \in Nat
        BY RepoMemoryAssumption
      <4>3. edits \in 0..MaxEdits
        BY <4>1, <4>2
      <4>4. disturbed \in BOOLEAN
        BY <4>1
      <4> QED
        BY <4>3, <4>4
    <3>4. /\ syncer \in [Syncers -> {"idle", "import", "remove"}]
          /\ \A p \in Syncers : records[p] = << >> /\ gone[p] = {}
      BY DEF RepoMemoryInit
    <3> QED
      BY <3>1, <3>2, <3>3, <3>4 DEF RepoMemoryTypeOK
  <2>5. \A p \in Syncers : OfCategories(Entries(records[p]))
    BY <2>1 DEF RepoMemoryInit, OfCategories
  <2> QED
    BY <2>3, <2>4, <2>5 DEF RepoTypeInv, RepoMemoryInit
<1>2. RepoTypeInv => RepoMemoryTypeOK
  BY DEF RepoTypeInv
<1> QED
  BY <1>1, <1>2, RepoTypeNext, PTL DEF RepoMemorySpec

-----------------------------------------------------------------------------
(***************************************************************************)
(* The types of the detector: what is remembered is bounded.               *)
(***************************************************************************)
LEMMA PrunedTyped ==
  ASSUME NEW T, NEW times \in Seq(T)
  PROVE  Pruned(times) \in Seq(T)
BY SelectInPlaces DEF Pruned

LEMMA RememberedTyped ==
  ASSUME NEW T, NEW kept \in Seq(T), Len(kept) <= TopicsKept, NEW topic \in T
  PROVE  /\ Remembered(Append(kept, topic)) \in Seq(T)
         /\ Len(Remembered(Append(kept, topic))) <= TopicsKept
<1>1. PICK more : more = Append(kept, topic)
  OBVIOUS
<1>2. more \in Seq(T) /\ more # << >> /\ Len(more) = Len(kept) + 1 /\ Len(kept) \in Nat
  BY <1>1
<1>3. Tail(more) \in Seq(T) /\ Len(Tail(more)) = Len(kept)
  BY <1>2
<1> QED
  BY <1>1, <1>2, <1>3, DetectorAssumption DEF Remembered

LEMMA RepeatTyped ==
  ASSUME DetectorTypeOK, NEW args \in ToolArgs, NEW searches \in Seq(0..MaxTime),
         NEW least \in Levels, RecordRepeat(args, searches, least)
  PROVE  /\ callHistory' \in [ToolArgs -> Seq(0..MaxTime)] /\ searchHistory' \in Seq(0..MaxTime)
         /\ verdict' \in [level : Levels, reason : Reasons, args : ToolArgs \union {"none"}]
<1>1. PICK times : times = Append(Pruned(callHistory[args]), now)
  OBVIOUS
<1>2. PICK level : level = LevelOf(Len(times))
  OBVIOUS
<1>3. /\ callHistory' = [a \in ToolArgs |-> IF a = args THEN times ELSE Pruned(callHistory[a])]
      /\ searchHistory' = Pruned(searches)
      /\ verdict' = [level |-> IF level = "normal" THEN least ELSE level,
                     reason |-> "repeated", args |-> args]
  BY <1>1, <1>2 DEF RecordRepeat, Verdict
<1>4. \A a \in ToolArgs : Pruned(callHistory[a]) \in Seq(0..MaxTime)
  <2> SUFFICES ASSUME NEW a \in ToolArgs PROVE Pruned(callHistory[a]) \in Seq(0..MaxTime)
    OBVIOUS
  <2>1. callHistory[a] \in Seq(0..MaxTime)
    BY DEF DetectorTypeOK
  <2> QED
    BY <2>1, PrunedTyped
<1>5. times \in Seq(0..MaxTime)
  <2>1. PICK u \in Seq(0..MaxTime) : u = Pruned(callHistory[args])
    BY <1>4
  <2>2. now \in 0..MaxTime
    BY DEF DetectorTypeOK
  <2> QED
    BY <1>1, <2>1, <2>2
<1>6. level \in Levels
  BY <1>2 DEF LevelOf, Levels
<1>7. "repeated" \in Reasons
  BY DEF Reasons
<1> QED
  BY <1>3, <1>4, <1>5, <1>6, <1>7, PrunedTyped

LEMMA DetectorTypeNext == DetectorTypeOK /\ [DetectorNext]_detectorVars => DetectorTypeOK'
<1> SUFFICES ASSUME DetectorTypeOK, [DetectorNext]_detectorVars PROVE DetectorTypeOK'
  OBVIOUS
<1>1. ASSUME NEW args \in ToolArgs, ThrottledCall(args) PROVE DetectorTypeOK'
  <2>1. now' = now /\ made' \in Seq(ToolArgs \X (0..MaxTime)) /\ Len(made') <= MaxThrottled
    <3>1. PICK m \in Seq(ToolArgs \X (0..MaxTime)) : m = made /\ Len(m) < MaxThrottled
      BY <1>1 DEF ThrottledCall, DetectorTypeOK
    <3>2. PICK e \in ToolArgs \X (0..MaxTime) : e = <<args, now>>
      BY DEF DetectorTypeOK
    <3>3. made' = Append(m, e) /\ now' = now
      BY <1>1, <3>1, <3>2 DEF ThrottledCall
    <3>4. Append(m, e) \in Seq(ToolArgs \X (0..MaxTime)) /\ Len(Append(m, e)) = Len(m) + 1
          /\ Len(m) \in Nat
      OBVIOUS
    <3> QED
      BY <3>1, <3>3, <3>4, DetectorAssumption
  <2>2. "reduced" \in Levels /\ "normal" \in Levels /\ "blocked" \in Levels
        /\ "similar" \in Reasons /\ "searches" \in Reasons
    BY DEF Levels, Reasons
  <2>3. CASE args \notin SearchArgs
    <3>1. RecordRepeat(args, searchHistory, "normal") /\ topics' = topics
      BY <1>1, <2>3 DEF ThrottledCall
    <3>2. searchHistory \in Seq(0..MaxTime)
      BY DEF DetectorTypeOK
    <3> QED
      BY <2>1, <2>2, <3>1, <3>2, RepeatTyped DEF DetectorTypeOK
  <2>4. CASE args \in SearchArgs
    <3> DEFINE T == {TopicOf[a] : a \in SearchArgs}
    <3>1. RecordSearch(args)
      BY <1>1, <2>4 DEF ThrottledCall
    <3>2. PICK searches : searches = Append(searchHistory, now)
      OBVIOUS
    <3>3. searches \in Seq(0..MaxTime)
      <4>1. searchHistory \in Seq(0..MaxTime) /\ now \in 0..MaxTime
        BY DEF DetectorTypeOK
      <4> QED
        BY <3>2, <4>1
    <3>4. topics' \in Seq(T) /\ Len(topics') <= TopicsKept
      <4>1. topics \in Seq(T) /\ Len(topics) <= TopicsKept /\ TopicOf[args] \in T
        BY <2>4 DEF DetectorTypeOK
      <4>2. topics' = topics \/ topics' = Remembered(Append(topics, TopicOf[args]))
        BY <3>1 DEF RecordSearch, TopicsAfter
      <4> HIDE DEF T
      <4> QED
        BY <4>1, <4>2, RememberedTyped
    <3>5. \/ /\ searchHistory' = searches /\ UNCHANGED callHistory
             /\ \E level \in Levels, reason \in Reasons : Verdict(level, reason, args)
          \/ \E least \in Levels : RecordRepeat(args, searches, least)
      BY <2>2, <3>1, <3>2 DEF RecordSearch
    <3>6. CASE /\ searchHistory' = searches /\ UNCHANGED callHistory
               /\ \E level \in Levels, reason \in Reasons : Verdict(level, reason, args)
      <4>1. verdict' \in [level : Levels, reason : Reasons, args : ToolArgs \union {"none"}]
        BY <3>6 DEF Verdict
      <4> QED
        BY <2>1, <3>3, <3>4, <3>6, <4>1 DEF DetectorTypeOK
    <3>7. CASE \E least \in Levels : RecordRepeat(args, searches, least)
      <4>1. PICK least \in Levels : RecordRepeat(args, searches, least)
        BY <3>7
      <4> QED
        BY <2>1, <3>3, <3>4, <4>1, RepeatTyped DEF DetectorTypeOK
    <3> QED
      BY <3>5, <3>6, <3>7
  <2> QED
    BY <2>3, <2>4
<1>2. CASE TimePasses
  BY <1>2, DetectorAssumption DEF TimePasses, DetectorTypeOK
<1>3. CASE UNCHANGED detectorVars
  BY <1>3 DEF detectorVars, DetectorTypeOK
<1> QED
  BY <1>1, <1>2, <1>3 DEF DetectorNext

\* The detector remembers no more topics than it is to, and its times are times that have been.
THEOREM DetectorIsTyped == DetectorSpec => []DetectorTypeOK
<1>1. DetectorInit => DetectorTypeOK
  <2> SUFFICES ASSUME DetectorInit PROVE DetectorTypeOK
    OBVIOUS
  <2>1. << >> \in Seq(0..MaxTime) /\ << >> \in Seq({TopicOf[a] : a \in SearchArgs})
        /\ << >> \in Seq(ToolArgs \X (0..MaxTime)) /\ Len(<< >>) = 0
    OBVIOUS
  <2> QED
    BY <2>1, DetectorAssumption DEF DetectorInit, DetectorTypeOK, Levels, Reasons
<1> QED
  BY <1>1, DetectorTypeNext, PTL DEF DetectorSpec

-----------------------------------------------------------------------------
(***************************************************************************)
(* The searches on the import graph.  That a search finds no more than it  *)
(* should follows from the walk behind each entry of the worklist.  That   *)
(* one over a queue finds all of it rests on the depth at which it marked  *)
(* each file: the queue is sorted by depth and spans two depths at most,   *)
(* so a file is never marked deeper than one step beyond any file that     *)
(* leads to it.                                                            *)
(***************************************************************************)

ByDepth(q) == \A i, j \in 1..Len(q) : i <= j => q[i][2] <= q[j][2]

Items == GraphNodes \X Nat

\* What is left when the first entry has gone.
LEMMA TailItems ==
  ASSUME NEW q \in Seq(Items), q # << >>
  PROVE  /\ Tail(q) \in Seq(Items) /\ Head(q) = q[1] /\ q[1] \in Items
         /\ q[1] \in ToSet(q)
         /\ ToSet(Tail(q)) \subseteq ToSet(q)
         /\ \A x \in ToSet(q) : x = q[1] \/ x \in ToSet(Tail(q))
         /\ ByDepth(q) => /\ ByDepth(Tail(q))
                          /\ \A x \in ToSet(q) : q[1][2] <= x[2]
<1>1. PICK t : t = Tail(q)
  OBVIOUS
<1>2. /\ t \in Seq(Items) /\ Head(q) = q[1] /\ q[1] \in Items /\ Len(t) = Len(q) - 1
      /\ \A i \in 1..Len(t) : t[i] = q[i + 1]
  BY <1>1, HeadTailProperties
<1>3. Len(q) \in Nat /\ Len(q) # 0 /\ 1 \in 1..Len(q)
  BY EmptySeq
<1>4. \A x : x \in ToSet(q) <=> \E i \in 1..Len(q) : x = q[i]
  BY InSet
<1>5. \A x : x \in ToSet(t) <=> \E i \in 1..Len(t) : x = t[i]
  BY <1>2, InSet
<1>6. \A i \in 1..Len(t) : i + 1 \in 1..Len(q)
  BY <1>2, <1>3
<1>7. \A i \in 1..Len(q) : i = 1 \/ (i - 1 \in 1..Len(t) /\ (i - 1) + 1 = i)
  BY <1>2, <1>3
<1>8. ToSet(t) \subseteq ToSet(q)
  BY <1>2, <1>4, <1>5, <1>6
<1>9. ASSUME NEW x \in ToSet(q) PROVE x = q[1] \/ x \in ToSet(t)
  <2>1. PICK i \in 1..Len(q) : x = q[i]
    BY <1>4
  <2>2. CASE i - 1 \in 1..Len(t) /\ (i - 1) + 1 = i
    <3>1. x = t[i - 1]
      BY <1>2, <2>1, <2>2
    <3> QED
      BY <1>5, <2>2, <3>1
  <2> QED
    BY <1>7, <2>1, <2>2
<1>10. ASSUME ByDepth(q)
       PROVE  ByDepth(t) /\ \A x \in ToSet(q) : q[1][2] <= x[2]
  <2>1. ByDepth(t)
    <3> SUFFICES ASSUME NEW i \in 1..Len(t), NEW j \in 1..Len(t), i <= j
                 PROVE  t[i][2] <= t[j][2]
      BY DEF ByDepth
    <3>1. i + 1 \in 1..Len(q) /\ j + 1 \in 1..Len(q) /\ i + 1 <= j + 1
      BY <1>6
    <3>2. q[i + 1][2] <= q[j + 1][2]
      BY <1>10, <3>1 DEF ByDepth
    <3> QED
      BY <1>2, <3>2
  <2>2. \A j \in 1..Len(q) : q[1][2] <= q[j][2]
    BY <1>3, <1>10 DEF ByDepth
  <2> QED
    BY <1>4, <2>1, <2>2
<1> QED
  BY <1>1, <1>2, <1>3, <1>4, <1>8, <1>9, <1>10

LEMMA JoinedItems ==
  ASSUME NEW s \in Seq(Items), NEW t \in Seq(Items)
  PROVE  /\ s \o t \in Seq(Items) /\ ToSet(s \o t) = ToSet(s) \union ToSet(t)
         /\ (ByDepth(s) /\ ByDepth(t) /\ \A x \in ToSet(s), y \in ToSet(t) : x[2] <= y[2])
              => ByDepth(s \o t)
<1>1. PICK u : u = s \o t
  OBVIOUS
<1>2. /\ u \in Seq(Items) /\ Len(u) = Len(s) + Len(t)
      /\ \A i \in 1..Len(s) : u[i] = s[i]
      /\ \A i \in 1..Len(t) : u[Len(s) + i] = t[i]
  <2>1. /\ s \o t \in Seq(Items) /\ Len(s \o t) = Len(s) + Len(t)
        /\ \A i \in 1..(Len(s) + Len(t)) :
             (s \o t)[i] = IF i <= Len(s) THEN s[i] ELSE t[i - Len(s)]
    BY ConcatProperties
  <2>2. \A i \in 1..Len(s) : i \in 1..(Len(s) + Len(t)) /\ i <= Len(s)
    OBVIOUS
  <2>3. \A i \in 1..Len(t) : /\ Len(s) + i \in 1..(Len(s) + Len(t)) /\ ~(Len(s) + i <= Len(s))
                             /\ (Len(s) + i) - Len(s) = i
    OBVIOUS
  <2> QED
    BY <1>1, <2>1, <2>2, <2>3
<1>3. /\ \A x : x \in ToSet(s) <=> \E i \in 1..Len(s) : x = s[i]
      /\ \A x : x \in ToSet(t) <=> \E i \in 1..Len(t) : x = t[i]
  BY InSet
<1>4. \A x : x \in ToSet(u) <=> \E i \in 1..Len(u) : x = u[i]
  BY <1>2, InSet
<1>5. \A i \in 1..Len(u) : \/ i \in 1..Len(s)
                           \/ i - Len(s) \in 1..Len(t) /\ Len(s) + (i - Len(s)) = i
  BY <1>2
<1>6. /\ \A i \in 1..Len(s) : i \in 1..Len(u)
      /\ \A i \in 1..Len(t) : Len(s) + i \in 1..Len(u)
  BY <1>2
<1>7. ToSet(u) = ToSet(s) \union ToSet(t)
  <2>1. ASSUME NEW x \in ToSet(u) PROVE x \in ToSet(s) \union ToSet(t)
    <3>1. PICK i \in 1..Len(u) : x = u[i]
      BY <1>4
    <3>2. CASE i \in 1..Len(s)
      BY <1>2, <1>3, <3>1, <3>2
    <3>3. CASE i - Len(s) \in 1..Len(t) /\ Len(s) + (i - Len(s)) = i
      <4>1. x = t[i - Len(s)]
        BY <1>2, <3>1, <3>3
      <4> QED
        BY <1>3, <3>3, <4>1
    <3> QED
      BY <1>5, <3>2, <3>3
  <2>2. ASSUME NEW x \in ToSet(s) PROVE x \in ToSet(u)
    <3>1. PICK i \in 1..Len(s) : x = s[i]
      BY <1>3
    <3> QED
      BY <1>2, <1>4, <1>6, <3>1
  <2>3. ASSUME NEW x \in ToSet(t) PROVE x \in ToSet(u)
    <3>1. PICK i \in 1..Len(t) : x = t[i]
      BY <1>3
    <3>2. x = u[Len(s) + i] /\ Len(s) + i \in 1..Len(u)
      BY <1>2, <1>6, <3>1
    <3> QED
      BY <1>4, <3>2
  <2> QED
    BY <2>1, <2>2, <2>3
<1>8. ASSUME ByDepth(s), ByDepth(t), \A x \in ToSet(s), y \in ToSet(t) : x[2] <= y[2]
      PROVE  ByDepth(u)
  <2> SUFFICES ASSUME NEW i \in 1..Len(u), NEW j \in 1..Len(u), i <= j
               PROVE  u[i][2] <= u[j][2]
    BY DEF ByDepth
  <2>1. CASE i \in 1..Len(s) /\ j \in 1..Len(s)
    BY <1>2, <1>8, <2>1 DEF ByDepth
  <2>2. CASE i \in 1..Len(s) /\ j \notin 1..Len(s)
    <3>1. u[i] \in ToSet(s) /\ u[j] \in ToSet(t)
      BY <1>2, <1>3, <1>5, <2>2
    <3> QED
      BY <1>8, <3>1
  <2>3. CASE i \notin 1..Len(s)
    <3>1. i - Len(s) \in 1..Len(t) /\ j - Len(s) \in 1..Len(t) /\ i - Len(s) <= j - Len(s)
      BY <1>5, <2>3
    <3>2. t[i - Len(s)][2] <= t[j - Len(s)][2]
      BY <1>8, <3>1 DEF ByDepth
    <3>3. u[i] = t[i - Len(s)] /\ u[j] = t[j - Len(s)]
      <4>1. Len(s) + (i - Len(s)) = i /\ Len(s) + (j - Len(s)) = j
        OBVIOUS
      <4> QED
        BY <1>2, <3>1, <4>1
    <3> QED
      BY <3>2, <3>3
  <2> QED
    BY <2>1, <2>2, <2>3
<1> QED
  BY <1>1, <1>2, <1>7, <1>8

\* The entries of a set of files: one for each, of one depth.
LEMMA EntriesElements ==
  ASSUME NEW S, S \subseteq GraphNodes, NEW d \in Nat, NEW es \in EntriesOf(S, d)
  PROVE  /\ es \in Seq(Items) /\ ByDepth(es)
         /\ \A x : x \in ToSet(es) <=> \E m \in S : x = <<m, d>>
<1>1. IsFiniteSet(S)
  BY FS_Subset, GraphAssumption
<1>2. PICK n : n = Cardinality(S)
  OBVIOUS
<1>3. n \in Nat
  BY <1>1, <1>2, FS_CardinalityType
<1>4. PICK o \in SetToSeqs(S) : es = [i \in DOMAIN o |-> <<o[i], d>>]
  BY DEF EntriesOf
<1>5. o \in [1..n -> S] /\ \A i, j \in 1..n : i # j => o[i] # o[j]
  BY <1>2, <1>4 DEF SetToSeqs
<1>6. \A m \in S : \E i \in 1..n : o[i] = m
  <2>1. IsFiniteSet(1..n) /\ Cardinality(1..n) = n
    BY <1>3, FS_Interval
  <2>2. o \in Injection(1..n, S)
    BY <1>5 DEF Injection, IsInjective
  <2>3. o \in Surjection(1..n, S)
    BY <1>1, <1>2, <2>1, <2>2, FS_Injection
  <2> QED
    BY <2>3 DEF Surjection
<1>7. es = [i \in 1..n |-> <<o[i], d>>] /\ \A i \in 1..n : <<o[i], d>> \in Items
  BY <1>4, <1>5 DEF Items
<1>8. es \in Seq(Items) /\ Len(es) = n /\ \A i \in 1..n : es[i] = <<o[i], d>>
  BY <1>3, <1>7
<1>9. \A x : x \in ToSet(es) <=> \E i \in 1..n : x = <<o[i], d>>
  <2>1. \A x : x \in ToSet(es) <=> \E i \in 1..Len(es) : x = es[i]
    BY <1>8, InSet
  <2>2. ASSUME NEW x \in ToSet(es) PROVE \E i \in 1..n : x = <<o[i], d>>
    <3>1. PICK i \in 1..Len(es) : x = es[i]
      BY <2>1
    <3>2. i \in 1..n /\ es[i] = <<o[i], d>>
      BY <1>8
    <3> QED
      BY <3>1, <3>2
  <2>3. ASSUME NEW i \in 1..n PROVE <<o[i], d>> \in ToSet(es)
    <3>1. i \in 1..Len(es) /\ es[i] = <<o[i], d>>
      BY <1>8
    <3> QED
      BY <2>1, <3>1
  <2> QED
    BY <2>2, <2>3
<1>10. ByDepth(es)
  BY <1>8 DEF ByDepth
<1>11. \A x : x \in ToSet(es) <=> \E m \in S : x = <<m, d>>
  BY <1>5, <1>6, <1>9
<1> QED
  BY <1>8, <1>10, <1>11

(***************************************************************************)
(* Walks.                                                                  *)
(***************************************************************************)

LEMMA StartWithin == Start \in Within(0)
<1> DEFINE w == [i \in 1..1 |-> Start]
<1>1. w \in [1..1 -> GraphNodes] /\ w \in Seq(GraphNodes) /\ Len(w) = 1 /\ w[1] = Start
  BY GraphAssumption
<1> HIDE DEF w
<1>2. IsWalk(w)
  BY <1>1 DEF IsWalk
<1>3. 1 \in 1..(0 + 1)
  OBVIOUS
<1> QED
  BY <1>1, <1>2, <1>3, GraphAssumption DEF Within

LEMMA WithinGrows ==
  ASSUME NEW c \in Nat, NEW d \in Nat, c <= d
  PROVE  Within(c) \subseteq Within(d)
<1>1. \A l \in 1..(c + 1) : l \in 1..(d + 1)
  OBVIOUS
<1> QED
  BY <1>1 DEF Within

LEMMA WithinNext ==
  ASSUME NEW d \in Nat, NEW n \in Within(d), NEW m \in Neighbours(n)
  PROVE  m \in Within(d + 1)
<1> PICK l \in 1..(d + 1) : \E w \in [1..l -> GraphNodes] : IsWalk(w) /\ w[l] = n
  BY DEF Within
<1>1. PICK w \in [1..l -> GraphNodes] : IsWalk(w) /\ w[l] = n
  OBVIOUS
<1>2. m \in GraphNodes /\ <<n, m>> \in edges
  BY DEF Neighbours
<1> DEFINE v == [i \in 1..(l + 1) |-> IF i = l + 1 THEN m ELSE w[i]]
<1>3. /\ v \in [1..(l + 1) -> GraphNodes] /\ v[l + 1] = m
      /\ \A i \in 1..l : v[i] = w[i]
  BY <1>2
<1>4. v \in Seq(GraphNodes) /\ Len(v) = l + 1
  BY <1>3
<1> HIDE DEF v
<1>5. Len(w) = l /\ w[1] = Start /\ \A i \in 1..(l - 1) : <<w[i], w[i + 1]>> \in edges
  BY <1>1 DEF IsWalk
<1>6. v[1] = Start
  BY <1>3, <1>5
<1>7. \A i \in 1..l : <<v[i], v[i + 1]>> \in edges
  <2> SUFFICES ASSUME NEW i \in 1..l PROVE <<v[i], v[i + 1]>> \in edges
    OBVIOUS
  <2>1. CASE i = l
    BY <1>1, <1>2, <1>3, <2>1
  <2>2. CASE i # l
    <3>1. i \in 1..(l - 1) /\ i + 1 \in 1..l
      BY <2>2
    <3> QED
      BY <1>3, <1>5, <3>1
  <2> QED
    BY <2>1, <2>2
<1>8. IsWalk(v)
  <2>1. Len(v) - 1 = l /\ v # << >>
    BY <1>4
  <2> QED
    BY <1>4, <1>6, <1>7, <2>1 DEF IsWalk
<1>9. l + 1 \in 1..((d + 1) + 1)
  OBVIOUS
<1> QED
  BY <1>2, <1>3, <1>8, <1>9 DEF Within

\* Marks that no edge leaves behind reach all there is within the depth.
LEMMA MarksReachAll ==
  ASSUME NEW V, NEW D, Start \in V, D[Start] = 0, \A n \in V : D[n] \in Nat,
         \A n \in V : D[n] < MaxDepth =>
           \A m \in Neighbours(n) : m \in V /\ D[m] <= D[n] + 1
  PROVE  Within(MaxDepth) \subseteq V
<1> SUFFICES ASSUME NEW e \in Within(MaxDepth) PROVE e \in V
  OBVIOUS
<1> PICK l \in 1..(MaxDepth + 1) : \E w \in [1..l -> GraphNodes] : IsWalk(w) /\ w[l] = e
  BY DEF Within
<1>1. PICK w \in [1..l -> GraphNodes] : IsWalk(w) /\ w[l] = e
  OBVIOUS
<1>2. MaxDepth \in Nat
  BY GraphAssumption
<1>3. Len(w) = l /\ w[1] = Start /\ \A i \in 1..(l - 1) : <<w[i], w[i + 1]>> \in edges
  BY <1>1, <1>2 DEF IsWalk
<1> DEFINE bad == {i \in 1..l : ~(w[i] \in V /\ D[w[i]] <= i - 1)}
<1>4. bad = {}
  <2> SUFFICES ASSUME bad # {} PROVE FALSE
    OBVIOUS
  <2>1. bad \subseteq Nat
    OBVIOUS
  <2>2. PICK k \in bad : \A i \in bad : k <= i
    <3> HIDE DEF bad
    <3> QED
      BY <2>1, LeastNat
  <2>3. k # 1
    BY <1>3
  <2>4. k - 1 \in 1..(l - 1) /\ k - 1 \in 1..l /\ (k - 1) + 1 = k /\ k - 1 \notin bad
    <3>1. k \in 1..l /\ k - 1 \in Nat /\ ~(k <= k - 1)
      BY <1>2, <2>3
    <3>2. k - 1 \notin bad
      <4> HIDE DEF bad
      <4> QED
        BY <2>2, <3>1
    <3> QED
      BY <1>2, <2>3, <3>1, <3>2
  <2>5. w[k - 1] \in V /\ D[w[k - 1]] <= (k - 1) - 1 /\ D[w[k - 1]] \in Nat
    BY <2>4
  <2>6. w[k] \in Neighbours(w[k - 1])
    BY <1>3, <2>4 DEF Neighbours
  <2>7. D[w[k - 1]] < MaxDepth
    BY <1>2, <2>4, <2>5
  <2>8. w[k] \in V /\ D[w[k]] <= D[w[k - 1]] + 1 /\ D[w[k]] \in Nat
    BY <2>5, <2>6, <2>7
  <2>9. D[w[k]] <= k - 1
    BY <2>4, <2>5, <2>8
  <2> QED
    BY <2>8, <2>9
<1> QED
  BY <1>1, <1>2, <1>4

(***************************************************************************)
(* What every search keeps to.                                             *)
(***************************************************************************)

GraphShape ==
  /\ edges \subseteq GraphEdges /\ search \in Searches
  /\ worklist \in Seq(Items) /\ visited \subseteq GraphNodes

\* Nothing is marked that no walk leads to.
SoundSoFar ==
  /\ \A x \in ToSet(worklist) : x[1] \in Within(x[2])
  /\ search = "impact" => Start \in visited /\ \A x \in ToSet(worklist) : x[2] <= MaxDepth
  /\ visited \subseteq Within(MaxDepth) /\ affected = visited \ {Start}

SoundInv == GraphShape /\ SoundSoFar

LEMMA StartList ==
  ASSUME GraphInit
  PROVE  /\ worklist \in Seq(Items) /\ worklist # << >> /\ worklist[1] = <<Start, 0>>
         /\ ByDepth(worklist) /\ \A x : x \in ToSet(worklist) <=> x = <<Start, 0>>
<1>1. <<Start, 0>> \in Items
  BY GraphAssumption DEF Items
<1>2. /\ worklist = <<<<Start, 0>>>> /\ worklist \in Seq(Items) /\ Len(worklist) = 1
      /\ worklist[1] = <<Start, 0>>
  BY <1>1 DEF GraphInit
<1>3. PICK q \in Seq(Items) : q = worklist
  BY <1>2
<1>4. \A x : x \in ToSet(q) <=> x = <<Start, 0>>
  <2>1. \A x : x \in ToSet(q) <=> \E i \in 1..Len(q) : x = q[i]
    BY InSet
  <2>2. Len(q) = 1 /\ q[1] = <<Start, 0>>
    BY <1>2, <1>3
  <2>3. 1..Len(q) = {1}
    BY <2>2
  <2> QED
    BY <2>1, <2>2, <2>3
<1>5. ByDepth(q)
  BY <1>1, <1>2, <1>3 DEF ByDepth, Items
<1> QED
  BY <1>2, <1>3, <1>4, <1>5

LEMMA SoundInit == GraphInit => SoundInv
<1> SUFFICES ASSUME GraphInit PROVE SoundInv
  OBVIOUS
<1>1. GraphShape
  BY StartList, GraphAssumption DEF GraphInit, GraphShape, Searches
<1>2. Start \in Within(MaxDepth)
  <2>1. 0 \in Nat /\ MaxDepth \in Nat /\ 0 <= MaxDepth
    BY GraphAssumption
  <2> QED
    BY <2>1, StartWithin, WithinGrows
<1>3. \A x \in ToSet(worklist) : x[1] = Start /\ x[2] = 0
  BY StartList
<1>4. SoundSoFar
  BY <1>2, <1>3, StartWithin, GraphAssumption DEF GraphInit, SoundSoFar
<1> QED
  BY <1>1, <1>4 DEF SoundInv

\* The first entry of the worklist.
LEMMA FirstEntry ==
  ASSUME GraphShape, worklist # << >>
  PROVE  /\ Entry = worklist[1] /\ Entry = <<Node, Depth>>
         /\ Node \in GraphNodes /\ Depth \in Nat /\ Entry \in ToSet(worklist)
<1>1. PICK q \in Seq(Items) : q = worklist
  BY DEF GraphShape
<1>2. Head(q) = q[1] /\ q[1] \in Items /\ q[1] \in ToSet(q)
  BY <1>1, TailItems
<1> QED
  BY <1>1, <1>2 DEF Entry, Node, Depth, Items

\* What a step may leave on the worklist: what was there, less the first entry, and
\* one entry for each file of a set.
Leaves(S, d) ==
  /\ worklist' \in Seq(Items)
  /\ \A x \in ToSet(worklist') :
       x \in ToSet(worklist) \/ \E m \in S : x = <<m, d>>
  /\ \A x \in ToSet(worklist) : x = worklist[1] \/ x \in ToSet(worklist')
  /\ \A m \in S : <<m, d>> \in ToSet(worklist')

LEMMA QueueLeaves ==
  ASSUME GraphShape, worklist # << >>, NEW S, S \subseteq GraphNodes, NEW d \in Nat,
         NEW es \in EntriesOf(S, d),
         worklist' = Tail(worklist) \o es \/ worklist' = es \o Tail(worklist)
  PROVE  Leaves(S, d)
<1>1. PICK q \in Seq(Items) : q = worklist
  BY DEF GraphShape
<1>2. PICK t : t = Tail(q)
  OBVIOUS
<1>3. /\ t \in Seq(Items) /\ ToSet(t) \subseteq ToSet(q)
      /\ \A x \in ToSet(q) : x = q[1] \/ x \in ToSet(t)
  BY <1>1, <1>2, TailItems
<1>4. es \in Seq(Items) /\ \A x : x \in ToSet(es) <=> \E m \in S : x = <<m, d>>
  BY EntriesElements
<1>5. PICK u : u = worklist'
  OBVIOUS
<1>6. u \in Seq(Items) /\ ToSet(u) = ToSet(t) \union ToSet(es)
  <2>1. t \in Seq(Items) /\ es \in Seq(Items)
    BY <1>3, <1>4
  <2>2. t \o es \in Seq(Items) /\ ToSet(t \o es) = ToSet(t) \union ToSet(es)
    BY <2>1, JoinedItems
  <2>3. es \o t \in Seq(Items) /\ ToSet(es \o t) = ToSet(es) \union ToSet(t)
    BY <2>1, JoinedItems
  <2>4. u = t \o es \/ u = es \o t
    BY <1>1, <1>2, <1>5
  <2> QED
    BY <2>2, <2>3, <2>4
<1> QED
  BY <1>1, <1>3, <1>4, <1>5, <1>6 DEF Leaves

\* The queue stays sorted, and begins no lower than before.
LEMMA QueueSorted ==
  ASSUME GraphShape, worklist # << >>, NEW S, S \subseteq GraphNodes,
         NEW es \in EntriesOf(S, Depth + 1), worklist' = Tail(worklist) \o es,
         ByDepth(worklist), \A x \in ToSet(worklist) : x[2] <= Depth + 1
  PROVE  /\ ByDepth(worklist')
         /\ \A x \in ToSet(worklist') : Depth <= x[2] /\ x[2] <= Depth + 1
<1>1. PICK q \in Seq(Items) : q = worklist
  BY DEF GraphShape
<1>2. PICK t : t = Tail(q)
  OBVIOUS
<1>3. PICK d \in Nat : d = Depth
  BY FirstEntry
<1>4. /\ t \in Seq(Items) /\ ToSet(t) \subseteq ToSet(q) /\ ByDepth(t)
      /\ \A x \in ToSet(q) : q[1][2] <= x[2]
  BY <1>1, <1>2, TailItems
<1>5. q[1][2] = d
  BY <1>1, <1>3, FirstEntry DEF Depth
<1>6. d + 1 \in Nat /\ es \in EntriesOf(S, d + 1)
  BY <1>3
<1>7. /\ es \in Seq(Items) /\ ByDepth(es)
      /\ \A x : x \in ToSet(es) <=> \E m \in S : x = <<m, d + 1>>
  BY <1>6, EntriesElements
<1>8. \A x \in ToSet(es) : x[2] = d + 1
  BY <1>7
<1>9. \A x \in ToSet(t) : d <= x[2] /\ x[2] <= d + 1
  BY <1>1, <1>3, <1>4, <1>5
<1>10. \A x \in ToSet(t), y \in ToSet(es) : x[2] <= y[2]
  BY <1>8, <1>9
<1>11. ByDepth(t \o es) /\ ToSet(t \o es) = ToSet(t) \union ToSet(es)
  BY <1>4, <1>7, <1>10, JoinedItems
<1>12. \A x \in ToSet(t \o es) : d <= x[2] /\ x[2] <= d + 1
  BY <1>8, <1>9, <1>11
<1> QED
  BY <1>1, <1>2, <1>3, <1>11, <1>12

\* Nothing but the files and the edges decides what lies within a depth.
LEMMA EdgesStay ==
  ASSUME UNCHANGED edges
  PROVE  /\ \A d : Within(d)' = Within(d)
         /\ \A n : Neighbours(n)' = Neighbours(n)
  BY DEF Within, IsWalk, Neighbours

LEMMA SoundStep ==
  ASSUME SoundInv, worklist # << >>, UNCHANGED <<edges, search>>,
         NEW S, S \subseteq Neighbours(Node), Leaves(S, Depth + 1),
         S # {} /\ search = "impact" => Depth < MaxDepth,
         visited \subseteq visited', visited' \subseteq GraphNodes,
         visited' \subseteq Within(MaxDepth),
         affected' = visited' \ {Start}
  PROVE  SoundInv'
<1>1. /\ Node \in GraphNodes /\ Depth \in Nat /\ <<Node, Depth>> \in ToSet(worklist)
  BY FirstEntry DEF SoundInv
<1>2. PICK n, d : n = Node /\ d = Depth
  OBVIOUS
<1>3. n \in Within(d) /\ d \in Nat
  BY <1>1, <1>2 DEF SoundInv, SoundSoFar
<1>4. \A m \in S : m \in Within(d + 1)
  BY <1>2, <1>3, WithinNext
<1>5. GraphShape'
  BY DEF SoundInv, GraphShape, Leaves
<1>6. (\A x \in ToSet(worklist) : x[1] \in Within(x[2]))'
  <2> SUFFICES ASSUME NEW x \in ToSet(worklist') PROVE x[1] \in Within(x[2])
    BY EdgesStay
  <2>1. x \in ToSet(worklist) \/ \E m \in S : x = <<m, d + 1>>
    BY <1>2 DEF Leaves
  <2> QED
    BY <1>4, <2>1 DEF SoundInv, SoundSoFar
<1>7. ASSUME search' = "impact", NEW x \in ToSet(worklist') PROVE x[2] <= MaxDepth
  <2>1. x \in ToSet(worklist) \/ \E m \in S : x = <<m, d + 1>>
    BY <1>2 DEF Leaves
  <2>2. CASE x \in ToSet(worklist)
    BY <1>7, <2>2 DEF SoundInv, SoundSoFar
  <2>3. ASSUME NEW m \in S, x = <<m, d + 1>> PROVE x[2] <= MaxDepth
    <3>1. d < MaxDepth /\ d \in Nat /\ MaxDepth \in Nat
      BY <1>2, <1>3, <1>7, GraphAssumption
    <3>2. d + 1 <= MaxDepth
      BY <3>1
    <3> QED
      BY <2>3, <3>2
  <2> QED
    BY <2>1, <2>2, <2>3
<1>8. visited' \subseteq Within(MaxDepth)'
  BY EdgesStay
<1>9. search' = "impact" => Start \in visited'
  BY DEF SoundInv, SoundSoFar
<1> QED
  BY <1>5, <1>6, <1>7, <1>8, <1>9 DEF SoundInv, SoundSoFar

\* A step of a search that marks as it finds: its part of the worklist and the marks.
LEMMA FoundStep ==
  ASSUME GraphShape, MarkWhenFound
  PROVE  \E S : /\ S = IF Depth >= MaxDepth THEN {} ELSE Neighbours(Node) \ visited
                /\ visited' = visited \union S /\ affected' = affected \union S
                /\ S \subseteq GraphNodes /\ Leaves(S, Depth + 1)
                /\ \E es \in EntriesOf(S, Depth + 1) : worklist' = Tail(worklist) \o es
<1>1. PICK S : S = IF Depth >= MaxDepth THEN {} ELSE Neighbours(Node) \ visited
  OBVIOUS
<1>2. /\ worklist # << >> /\ visited' = visited \union S /\ affected' = affected \union S
      /\ \E es \in EntriesOf(S, Depth + 1) : worklist' = Tail(worklist) \o es
  BY <1>1 DEF MarkWhenFound
<1>3. S \subseteq GraphNodes
  BY <1>1 DEF Neighbours
<1>4. PICK e \in Nat : e = Depth + 1
  BY <1>2, FirstEntry
<1>5. Leaves(S, e)
  BY <1>2, <1>3, <1>4, QueueLeaves
<1> QED
  BY <1>1, <1>2, <1>3, <1>4, <1>5

\* A step of a search that marks as it looks.
LEMMA VisitStep ==
  ASSUME GraphShape, VisitFromQueue \/ VisitFromStack
  PROVE  \E S : /\ S = Neighbours(Node) \ visited'
                /\ S \subseteq GraphNodes /\ Leaves(S, Depth + 1)
                /\ VisitFromQueue =>
                     \E es \in EntriesOf(S, Depth + 1) : worklist' = Tail(worklist) \o es
<1>1. PICK S : S = Neighbours(Node) \ visited'
  OBVIOUS
<1>2. worklist # << >> /\ S \subseteq GraphNodes
  BY <1>1 DEF VisitFromQueue, VisitFromStack, Visit, Neighbours
<1>3. PICK e \in Nat : e = Depth + 1
  BY <1>2, FirstEntry
<1>4. PICK es \in EntriesOf(S, e) :
        \/ VisitFromQueue /\ worklist' = Tail(worklist) \o es
        \/ worklist' = es \o Tail(worklist)
  BY <1>1, <1>3 DEF VisitFromQueue, VisitFromStack
<1>5. Leaves(S, e)
  BY <1>2, <1>3, <1>4, QueueLeaves
<1>6. VisitFromQueue => \E fs \in EntriesOf(S, e) : worklist' = Tail(worklist) \o fs
  BY <1>1, <1>3 DEF VisitFromQueue
<1> QED
  BY <1>1, <1>2, <1>3, <1>5, <1>6

\* Dropping the first entry leaves the rest.
LEMMA SkipStep ==
  ASSUME GraphShape, Skip
  PROVE  /\ Leaves({}, Depth + 1)
         /\ ByDepth(worklist) =>
              /\ ByDepth(worklist')
              /\ \A x \in ToSet(worklist') : x \in ToSet(worklist) /\ Depth <= x[2]
<1>1. PICK q \in Seq(Items) : q = worklist
  BY DEF GraphShape
<1>2. q # << >> /\ worklist' = Tail(q)
  BY <1>1 DEF Skip
<1>3. /\ Tail(q) \in Seq(Items) /\ ToSet(Tail(q)) \subseteq ToSet(q)
      /\ \A x \in ToSet(q) : x = q[1] \/ x \in ToSet(Tail(q))
      /\ ByDepth(q) => ByDepth(Tail(q)) /\ \A x \in ToSet(q) : q[1][2] <= x[2]
  BY <1>2, TailItems
<1>4. q[1][2] = Depth
  BY <1>1, <1>2, FirstEntry DEF Depth
<1> QED
  BY <1>1, <1>2, <1>3, <1>4 DEF Leaves

LEMMA SoundNext == SoundInv /\ [GraphNext]_graphVars => SoundInv'
<1> SUFFICES ASSUME SoundInv, [GraphNext]_graphVars PROVE SoundInv'
  OBVIOUS
<1>1. GraphShape /\ SoundSoFar
  BY DEF SoundInv
<1>2. CASE MarkWhenFound
  <2>1. PICK S : /\ S = IF Depth >= MaxDepth THEN {} ELSE Neighbours(Node) \ visited
                 /\ visited' = visited \union S /\ affected' = affected \union S
                 /\ S \subseteq GraphNodes /\ Leaves(S, Depth + 1)
    BY <1>1, <1>2, FoundStep
  <2>2. search = "impact" /\ worklist # << >> /\ UNCHANGED <<edges, search>>
    BY <1>2 DEF MarkWhenFound
  <2>3. Node \in GraphNodes /\ Depth \in Nat /\ <<Node, Depth>> \in ToSet(worklist)
    BY <1>1, <2>2, FirstEntry
  <2>4. MaxDepth \in Nat
    BY GraphAssumption
  <2>5. S # {} => Depth < MaxDepth
    BY <2>1, <2>3, <2>4
  <2>6. S \subseteq Within(MaxDepth)
    <3> SUFFICES ASSUME NEW m \in S PROVE m \in Within(MaxDepth)
      OBVIOUS
    <3>1. PICK n, d : n = Node /\ d = Depth
      OBVIOUS
    <3>2. d \in Nat /\ n \in Within(d) /\ m \in Neighbours(n) /\ d + 1 <= MaxDepth
      BY <1>1, <2>1, <2>3, <2>4, <2>5, <3>1 DEF SoundSoFar
    <3>3. m \in Within(d + 1)
      BY <3>2, WithinNext
    <3>4. Within(d + 1) \subseteq Within(MaxDepth)
      BY <2>4, <3>2, WithinGrows
    <3> QED
      BY <3>3, <3>4
  <2>7. S \subseteq Neighbours(Node) /\ Start \notin S
    BY <1>1, <2>1, <2>2 DEF SoundSoFar
  <2>8. /\ visited \subseteq visited' /\ visited' \subseteq GraphNodes
        /\ visited' \subseteq Within(MaxDepth) /\ affected' = visited' \ {Start}
    BY <1>1, <2>1, <2>6, <2>7 DEF GraphShape, SoundSoFar
  <2> QED
    BY <2>1, <2>2, <2>5, <2>7, <2>8, SoundStep
<1>3. CASE Skip
  <2>1. /\ worklist # << >> /\ UNCHANGED <<edges, search, visited, affected>>
        /\ Leaves({}, Depth + 1)
    BY <1>1, <1>3, SkipStep DEF Skip
  <2> QED
    BY <1>1, <2>1, SoundStep DEF GraphShape, SoundSoFar
<1>4. CASE VisitFromQueue \/ VisitFromStack
  <2>1. PICK S : S = Neighbours(Node) \ visited' /\ Leaves(S, Depth + 1)
    BY <1>1, <1>4, VisitStep
  <2>2. /\ search # "impact" /\ worklist # << >> /\ ~Skipped
        /\ visited' = visited \union {Node} /\ affected' = affected \union ({Node} \ {Start})
        /\ UNCHANGED <<edges, search>>
    BY <1>4 DEF VisitFromQueue, VisitFromStack, Visit
  <2>3. Node \in GraphNodes /\ Depth \in Nat /\ <<Node, Depth>> \in ToSet(worklist)
    BY <1>1, <2>2, FirstEntry
  <2>4. Node \in Within(MaxDepth)
    <3>1. PICK n, d : n = Node /\ d = Depth
      OBVIOUS
    <3>2. d \in Nat /\ MaxDepth \in Nat /\ d <= MaxDepth /\ n \in Within(d)
      BY <1>1, <2>2, <2>3, <3>1, GraphAssumption DEF SoundSoFar, Skipped
    <3>3. Within(d) \subseteq Within(MaxDepth)
      BY <3>2, WithinGrows
    <3> QED
      BY <3>1, <3>2, <3>3
  <2>5. /\ visited \subseteq visited' /\ visited' \subseteq GraphNodes
        /\ visited' \subseteq Within(MaxDepth) /\ affected' = visited' \ {Start}
    BY <1>1, <2>2, <2>3, <2>4 DEF GraphShape, SoundSoFar
  <2>6. S \subseteq Neighbours(Node)
    BY <2>1
  <2> QED
    BY <2>1, <2>2, <2>5, <2>6, SoundStep
<1>5. CASE UNCHANGED graphVars
  <2>1. UNCHANGED <<edges, search, worklist, visited, affected>>
    BY <1>5 DEF graphVars
  <2> QED
    BY <1>1, <2>1, EdgesStay DEF SoundInv, GraphShape, SoundSoFar
<1> QED
  BY <1>2, <1>3, <1>4, <1>5 DEF GraphNext

(***************************************************************************)
(* A search over a queue that marks as it finds.                           *)
(***************************************************************************)

\* D is the depth at which each file was marked.
FoundAt(D) ==
  /\ Start \in visited /\ D[Start] = 0 /\ \A n \in visited : D[n] \in Nat
  /\ \A x \in ToSet(worklist) : x[1] \in visited /\ D[x[1]] = x[2]
  /\ worklist # << >> => \A n \in visited : D[n] <= worklist[1][2] + 1
  /\ \A n \in visited : D[n] < MaxDepth =>
       \/ \E x \in ToSet(worklist) : x[1] = n
       \/ \A m \in Neighbours(n) : m \in visited /\ D[m] <= D[n] + 1

FoundInv == search = "impact" => ByDepth(worklist) /\ \E D : FoundAt(D)

LEMMA FoundInit == GraphInit => FoundInv
<1> SUFFICES ASSUME GraphInit, search = "impact" PROVE ByDepth(worklist) /\ \E D : FoundAt(D)
  BY DEF FoundInv
<1> DEFINE D == [n \in {Start} |-> 0]
<1>1. visited = {Start} /\ D[Start] = 0 /\ \A n \in visited : D[n] = 0
  BY DEF GraphInit
<1> HIDE DEF D
<1>2. FoundAt(D)
  <2>1. \A x \in ToSet(worklist) : x[1] = Start /\ x[2] = 0
    BY StartList
  <2>2. worklist[1][2] = 0
    BY StartList
  <2>3. <<Start, 0>> \in ToSet(worklist)
    BY StartList
  <2>4. \A n \in visited : n = Start /\ \E x \in ToSet(worklist) : x[1] = n
    BY <1>1, <2>3
  <2> QED
    BY <1>1, <2>1, <2>2, <2>4 DEF FoundAt
<1> QED
  BY <1>2, StartList

LEMMA FoundNext == SoundInv /\ FoundInv /\ [GraphNext]_graphVars => FoundInv'
<1> SUFFICES ASSUME SoundInv, FoundInv, [GraphNext]_graphVars, search' = "impact"
             PROVE  ByDepth(worklist') /\ (\E D : FoundAt(D))'
  BY DEF FoundInv
<1>1. GraphShape
  BY DEF SoundInv
<1>2. CASE MarkWhenFound
  <2>1. PICK S : /\ S = IF Depth >= MaxDepth THEN {} ELSE Neighbours(Node) \ visited
                 /\ visited' = visited \union S
                 /\ S \subseteq GraphNodes /\ Leaves(S, Depth + 1)
                 /\ \E es \in EntriesOf(S, Depth + 1) : worklist' = Tail(worklist) \o es
    BY <1>1, <1>2, FoundStep
  <2>2. search = "impact" /\ worklist # << >> /\ UNCHANGED <<edges, search>>
    BY <1>2 DEF MarkWhenFound
  <2>3. PICK n, d : n = Node /\ d = Depth
    OBVIOUS
  <2>4. /\ n \in GraphNodes /\ d \in Nat /\ worklist[1] = <<n, d>>
        /\ <<n, d>> \in ToSet(worklist)
    BY <1>1, <2>2, <2>3, FirstEntry
  <2>5. ByDepth(worklist)
    BY <2>2 DEF FoundInv
  <2>6. PICK D : FoundAt(D)
    BY <2>2 DEF FoundInv
  <2>7. n \in visited /\ D[n] = d /\ \A k \in visited : D[k] \in Nat /\ D[k] <= d + 1
    BY <2>2, <2>4, <2>6 DEF FoundAt
  <2>8. \A x \in ToSet(worklist) : x[2] <= Depth + 1
    BY <2>3, <2>6, <2>7 DEF FoundAt
  <2>9. /\ ByDepth(worklist')
        /\ \A x \in ToSet(worklist') : d <= x[2] /\ x[2] <= d + 1
    BY <1>1, <2>1, <2>2, <2>3, <2>5, <2>8, QueueSorted
  <2>c. PICK C : C = [k \in visited' |-> IF k \in visited THEN D[k] ELSE d + 1]
    OBVIOUS
  <2>10. /\ \A k \in visited : k \in visited' /\ C[k] = D[k]
         /\ \A k \in S : k \in visited' /\ C[k] = d + 1
    BY <2>1, <2>c
  <2>11. \A k \in visited' : C[k] \in Nat /\ C[k] <= d + 1 /\ (k \in visited \/ k \in S)
    <3> SUFFICES ASSUME NEW k \in visited'
                 PROVE  C[k] \in Nat /\ C[k] <= d + 1 /\ (k \in visited \/ k \in S)
      OBVIOUS
    <3>1. CASE k \in visited
      BY <2>4, <2>7, <2>10, <3>1
    <3>2. CASE k \in S
      <4>1. C[k] = d + 1 /\ d + 1 \in Nat
        BY <2>4, <2>10, <3>2
      <4> QED
        BY <3>2, <4>1
    <3> QED
      BY <2>1, <3>1, <3>2
  <2>12. \A x \in ToSet(worklist') : x[1] \in visited' /\ C[x[1]] = x[2]
    <3> SUFFICES ASSUME NEW x \in ToSet(worklist') PROVE x[1] \in visited' /\ C[x[1]] = x[2]
      OBVIOUS
    <3>1. x \in ToSet(worklist) \/ \E m \in S : x = <<m, d + 1>>
      BY <2>1, <2>3 DEF Leaves
    <3>2. CASE x \in ToSet(worklist)
      BY <2>6, <2>10, <3>2 DEF FoundAt
    <3>3. CASE \E m \in S : x = <<m, d + 1>>
      BY <2>10, <3>3
    <3> QED
      BY <3>1, <3>2, <3>3
  <2>13. worklist' # << >> => \A k \in visited' : C[k] <= worklist'[1][2] + 1
    <3> SUFFICES ASSUME worklist' # << >>, NEW k \in visited'
                 PROVE  C[k] <= worklist'[1][2] + 1
      OBVIOUS
    <3>1. PICK q \in Seq(Items) : q = worklist'
      BY <2>1 DEF Leaves
    <3>2. q[1] \in ToSet(q) /\ q[1] \in Items
      BY <3>1, TailItems
    <3>3. PICK h \in Nat : h = q[1][2]
      BY <3>2 DEF Items
    <3>4. d <= h
      BY <2>9, <3>1, <3>2, <3>3
    <3>5. C[k] <= h + 1
      BY <2>4, <2>11, <3>4
    <3> QED
      BY <3>1, <3>3, <3>5
  <2>14. ASSUME NEW k \in visited', C[k] < MaxDepth
         PROVE  \/ \E x \in ToSet(worklist') : x[1] = k
                \/ \A m \in Neighbours(k) : m \in visited' /\ C[m] <= C[k] + 1
    <3>1. CASE k \in S
      BY <2>1, <2>3, <3>1 DEF Leaves
    <3>2. CASE k = n
      <4>1. C[k] = d
        BY <2>7, <2>10, <3>2
      <4>2. S = Neighbours(n) \ visited
        BY <2>1, <2>3, <2>4, <2>14, <4>1, GraphAssumption
      <4>3. \A m \in Neighbours(n) : m \in visited'
        BY <2>1, <4>2
      <4> QED
        BY <2>11, <3>2, <4>1, <4>3
    <3>3. CASE k \in visited /\ k # n
      <4>1. C[k] = D[k]
        BY <2>10, <3>3
      <4>2. CASE \E x \in ToSet(worklist) : x[1] = k
        <5>1. PICK x \in ToSet(worklist) : x[1] = k
          BY <4>2
        <5>2. x # worklist[1]
          BY <2>4, <3>3, <5>1
        <5> QED
          BY <2>1, <5>1, <5>2 DEF Leaves
      <4>3. CASE \A m \in Neighbours(k) : m \in visited /\ D[m] <= D[k] + 1
        BY <2>10, <4>1, <4>3
      <4> QED
        BY <2>6, <2>14, <3>3, <4>1, <4>2, <4>3 DEF FoundAt
    <3> QED
      BY <2>11, <3>1, <3>2, <3>3
  <2>15. FoundAt(C)'
    <3>1. Start \in visited' /\ C[Start] = 0
      BY <2>6, <2>10 DEF FoundAt
    <3>2. \A k : Neighbours(k)' = Neighbours(k)
      BY <2>2, EdgesStay
    <3>3. \A k \in visited' : C[k] < MaxDepth =>
            \/ \E x \in ToSet(worklist') : x[1] = k
            \/ \A m \in Neighbours(k)' : m \in visited' /\ C[m] <= C[k] + 1
      BY <2>14, <3>2
    <3>4. \A k \in visited' : C[k] \in Nat
      BY <2>11
    <3> QED
      BY <2>12, <2>13, <3>1, <3>3, <3>4 DEF FoundAt
  <2> QED
    BY <2>9, <2>15
<1>3. CASE Skip \/ VisitFromQueue \/ VisitFromStack
  BY <1>3 DEF Skip, VisitFromQueue, VisitFromStack, Visit
<1>4. CASE UNCHANGED graphVars
  <2>1. UNCHANGED <<edges, search, worklist, visited>>
    BY <1>4 DEF graphVars
  <2>2. ByDepth(worklist) /\ \E D : FoundAt(D)
    BY <2>1 DEF FoundInv
  <2>3. ASSUME NEW D, FoundAt(D) PROVE FoundAt(D)'
    BY <2>1, <2>3, EdgesStay DEF FoundAt
  <2> QED
    BY <2>1, <2>2, <2>3
<1> QED
  BY <1>2, <1>3, <1>4 DEF GraphNext

(***************************************************************************)
(* A search over a queue that marks as it looks.                           *)
(***************************************************************************)

\* D is the depth at which each file was marked.
LeftAt(D) ==
  /\ \/ Start \in visited /\ D[Start] = 0
     \/ visited = {} /\ worklist # << >> /\ worklist[1] = <<Start, 0>>
  /\ \A n \in visited : D[n] \in Nat
  /\ worklist # << >> => /\ \A n \in visited : D[n] <= worklist[1][2]
                         /\ \A x \in ToSet(worklist) : x[2] <= worklist[1][2] + 1
  /\ \A n \in visited : D[n] < MaxDepth => \A m \in Neighbours(n) :
       \/ m \in visited /\ D[m] <= D[n] + 1
       \/ \E x \in ToSet(worklist) : x[1] = m /\ x[2] <= D[n] + 1

LeftInv == search = "index" => ByDepth(worklist) /\ \E D : LeftAt(D)

LEMMA LeftInit == GraphInit => LeftInv
<1> SUFFICES ASSUME GraphInit, search = "index" PROVE ByDepth(worklist) /\ \E D : LeftAt(D)
  BY DEF LeftInv
<1>1. visited = {}
  BY DEF GraphInit
<1>2. worklist # << >> /\ worklist[1] = <<Start, 0>> /\ \A x \in ToSet(worklist) : x[2] = 0
  BY StartList
<1>3. \A D : LeftAt(D)
  BY <1>1, <1>2 DEF LeftAt
<1> QED
  BY <1>3, StartList

\* What the first entry of a sorted queue bounds, it bounds for the next one too.
LEMMA NextBound ==
  ASSUME NEW q \in Seq(Items), q # << >>, NEW d \in Nat,
         \A x \in ToSet(q) : d <= x[2] /\ x[2] <= d + 1
  PROVE  \E h \in Nat : h = q[1][2] /\ d <= h /\ \A x \in ToSet(q) : x[2] <= h + 1
<1>1. q[1] \in ToSet(q) /\ q[1] \in Items
  BY TailItems
<1>2. PICK h \in Nat : h = q[1][2]
  BY <1>1 DEF Items
<1>3. d <= h
  BY <1>1, <1>2
<1>4. \A x \in ToSet(q) : x[2] \in Nat
  BY InSet DEF Items
<1> QED
  BY <1>2, <1>3, <1>4

LEMMA LeftSkip ==
  ASSUME GraphShape, Skip, ByDepth(worklist), NEW D, LeftAt(D)
  PROVE  ByDepth(worklist') /\ LeftAt(D)'
<1>1. worklist # << >> /\ Skipped /\ UNCHANGED <<edges, visited>>
  BY DEF Skip
<1>2. PICK n, d : n = Node /\ d = Depth
  OBVIOUS
<1>3. n \in GraphNodes /\ d \in Nat /\ worklist[1] = <<n, d>>
  BY <1>1, <1>2, FirstEntry
<1>4. /\ \A k \in visited : D[k] \in Nat /\ D[k] <= d
      /\ \A x \in ToSet(worklist) : x[2] <= d + 1
  BY <1>1, <1>3 DEF LeftAt
<1>5. /\ ByDepth(worklist')
      /\ \A x \in ToSet(worklist') : x \in ToSet(worklist) /\ d <= x[2]
      /\ \A x \in ToSet(worklist) : x = <<n, d>> \/ x \in ToSet(worklist')
      /\ worklist' \in Seq(Items)
  BY <1>2, <1>3, SkipStep DEF Leaves
<1>6. d > MaxDepth \/ n \in visited
  BY <1>1, <1>2 DEF Skipped
<1>7. Start \in visited /\ D[Start] = 0
  <2>1. ~(visited = {} /\ worklist[1] = <<Start, 0>>)
    BY <1>3, <1>6, GraphAssumption
  <2> QED
    BY <2>1 DEF LeftAt
<1>8. ASSUME worklist' # << >>
      PROVE  /\ \A k \in visited : D[k] <= worklist'[1][2]
             /\ \A x \in ToSet(worklist') : x[2] <= worklist'[1][2] + 1
  <2>1. PICK q \in Seq(Items) : q = worklist'
    BY <1>5
  <2>2. \A x \in ToSet(q) : d <= x[2] /\ x[2] <= d + 1
    BY <1>4, <1>5, <2>1
  <2>3. PICK h \in Nat : h = q[1][2] /\ d <= h /\ \A x \in ToSet(q) : x[2] <= h + 1
    BY <1>3, <1>8, <2>1, <2>2, NextBound
  <2>4. \A k \in visited : D[k] <= h
    BY <1>3, <1>4, <2>3
  <2> QED
    BY <2>1, <2>3, <2>4
<1>9. ASSUME NEW k \in visited, D[k] < MaxDepth, NEW m \in Neighbours(k)
      PROVE  \/ m \in visited /\ D[m] <= D[k] + 1
             \/ \E x \in ToSet(worklist') : x[1] = m /\ x[2] <= D[k] + 1
  <2>1. CASE m \in visited /\ D[m] <= D[k] + 1
    BY <2>1
  <2>2. ASSUME NEW x \in ToSet(worklist), x[1] = m, x[2] <= D[k] + 1
             PROVE  \/ m \in visited /\ D[m] <= D[k] + 1
                    \/ \E y \in ToSet(worklist') : y[1] = m /\ y[2] <= D[k] + 1
    <3>1. CASE x \in ToSet(worklist')
      BY <2>2, <3>1
    <3>2. CASE x = <<n, d>>
      <4>1. m = n /\ d <= D[k] + 1 /\ D[k] \in Nat /\ MaxDepth \in Nat
        BY <1>4, <2>2, <3>2, GraphAssumption
      <4>2. n \in visited
        BY <1>3, <1>6, <1>9, <4>1
      <4>3. D[n] \in Nat /\ D[n] <= d
        BY <1>4, <4>2
      <4> QED
        BY <1>3, <4>1, <4>2, <4>3
    <3> QED
      BY <1>5, <3>1, <3>2
  <2> QED
    BY <1>9, <2>1, <2>2 DEF LeftAt
<1>10. \A k \in visited' : D[k] < MaxDepth => \A m \in Neighbours(k)' :
         \/ m \in visited' /\ D[m] <= D[k] + 1
         \/ \E x \in ToSet(worklist') : x[1] = m /\ x[2] <= D[k] + 1
  <2>1. visited' = visited /\ \A k : Neighbours(k)' = Neighbours(k)
    BY <1>1, EdgesStay
  <2> QED
    BY <1>9, <2>1
<1>11. /\ Start \in visited' /\ \A k \in visited' : D[k] \in Nat
       /\ worklist' # << >> => /\ \A k \in visited' : D[k] <= worklist'[1][2]
                               /\ \A x \in ToSet(worklist') : x[2] <= worklist'[1][2] + 1
  BY <1>1, <1>4, <1>7, <1>8
<1> QED
  BY <1>5, <1>7, <1>10, <1>11 DEF LeftAt

LEMMA LeftVisit ==
  ASSUME GraphShape, VisitFromQueue, ByDepth(worklist), NEW D, LeftAt(D)
  PROVE  ByDepth(worklist') /\ \E C : LeftAt(C)'
<1>1. PICK S : /\ S = Neighbours(Node) \ visited'
               /\ S \subseteq GraphNodes /\ Leaves(S, Depth + 1)
               /\ \E es \in EntriesOf(S, Depth + 1) : worklist' = Tail(worklist) \o es
  BY VisitStep
<1>2. worklist # << >> /\ ~Skipped /\ visited' = visited \union {Node} /\ UNCHANGED edges
  BY DEF VisitFromQueue, Visit
<1>3. PICK n, d : n = Node /\ d = Depth
  OBVIOUS
<1>4. n \in GraphNodes /\ d \in Nat /\ worklist[1] = <<n, d>> /\ n \notin visited
  BY <1>2, <1>3, FirstEntry DEF Skipped
<1>5. /\ \A k \in visited : D[k] \in Nat /\ D[k] <= d
      /\ \A x \in ToSet(worklist) : x[2] <= d + 1
  BY <1>2, <1>4 DEF LeftAt
<1>6. /\ ByDepth(worklist')
      /\ \A x \in ToSet(worklist') : d <= x[2] /\ x[2] <= d + 1
  BY <1>1, <1>2, <1>3, <1>5, QueueSorted
<1>7. /\ worklist' \in Seq(Items)
      /\ \A x \in ToSet(worklist) : x = <<n, d>> \/ x \in ToSet(worklist')
      /\ \A m \in S : <<m, d + 1>> \in ToSet(worklist')
  BY <1>1, <1>3, <1>4 DEF Leaves
<1>8. PICK C : C = [k \in visited' |-> IF k = n THEN d ELSE D[k]]
  OBVIOUS
<1>9. /\ n \in visited' /\ C[n] = d
      /\ \A k \in visited : k \in visited' /\ C[k] = D[k]
      /\ \A k \in visited' : k = n \/ k \in visited
  BY <1>2, <1>3, <1>4, <1>8
<1>10. \A k \in visited' : C[k] \in Nat /\ C[k] <= d
  BY <1>4, <1>5, <1>9
<1>11. Start \in visited' /\ C[Start] = 0
  <2>1. CASE Start \in visited /\ D[Start] = 0
    BY <1>9, <2>1
  <2>2. CASE visited = {} /\ worklist[1] = <<Start, 0>>
    <3>1. n = Start /\ d = 0
      BY <1>4, <2>2
    <3> QED
      BY <1>9, <3>1
  <2> QED
    BY <2>1, <2>2 DEF LeftAt
<1>12. ASSUME worklist' # << >>
       PROVE  /\ \A k \in visited' : C[k] <= worklist'[1][2]
              /\ \A x \in ToSet(worklist') : x[2] <= worklist'[1][2] + 1
  <2>1. PICK q \in Seq(Items) : q = worklist'
    BY <1>7
  <2>2. PICK h \in Nat : h = q[1][2] /\ d <= h /\ \A x \in ToSet(q) : x[2] <= h + 1
    BY <1>4, <1>6, <1>12, <2>1, NextBound
  <2>3. \A k \in visited' : C[k] <= h
    BY <1>4, <1>10, <2>2
  <2> QED
    BY <2>1, <2>2, <2>3
<1>13. ASSUME NEW k \in visited', C[k] < MaxDepth, NEW m \in Neighbours(k)
       PROVE  \/ m \in visited' /\ C[m] <= C[k] + 1
              \/ \E x \in ToSet(worklist') : x[1] = m /\ x[2] <= C[k] + 1
  <2>1. CASE k = n
    <3>1. C[k] = d /\ (m \in visited' \/ m \in S)
      BY <1>1, <1>3, <1>9, <1>13, <2>1
    <3>2. CASE m \in visited'
      <4>1. C[m] \in Nat /\ C[m] <= d
        BY <1>10, <3>2
      <4> QED
        BY <1>4, <3>1, <3>2, <4>1
    <3>3. CASE m \in S
      <4>1. PICK y \in ToSet(worklist') : y = <<m, d + 1>>
        BY <1>7, <3>3
      <4>2. y[1] = m /\ y[2] <= C[k] + 1
        BY <1>4, <3>1, <4>1
      <4> QED
        BY <4>2
    <3> QED
      BY <3>1, <3>2, <3>3
  <2>2. CASE k \in visited
    <3>1. C[k] = D[k]
      BY <1>9, <2>2
    <3>2. CASE m \in visited /\ D[m] <= D[k] + 1
      BY <1>9, <3>1, <3>2
    <3>3. ASSUME NEW x \in ToSet(worklist), x[1] = m, x[2] <= D[k] + 1
               PROVE  \/ m \in visited' /\ C[m] <= C[k] + 1
                      \/ \E y \in ToSet(worklist') : y[1] = m /\ y[2] <= C[k] + 1
      <4>1. CASE x \in ToSet(worklist')
        BY <3>1, <3>3, <4>1
      <4>2. CASE x = <<n, d>>
        BY <1>9, <3>1, <3>3, <4>2
      <4> QED
        BY <1>7, <4>1, <4>2
    <3> QED
      BY <1>13, <2>2, <3>1, <3>2, <3>3 DEF LeftAt
  <2> QED
    BY <1>9, <2>1, <2>2
<1>14. LeftAt(C)'
  <2>1. \A k : Neighbours(k)' = Neighbours(k)
    BY <1>2, EdgesStay
  <2>2. \A k \in visited' : C[k] < MaxDepth => \A m \in Neighbours(k)' :
          \/ m \in visited' /\ C[m] <= C[k] + 1
          \/ \E x \in ToSet(worklist') : x[1] = m /\ x[2] <= C[k] + 1
    BY <1>13, <2>1
  <2>3. \A k \in visited' : C[k] \in Nat
    BY <1>10
  <2> QED
    BY <1>11, <1>12, <2>2, <2>3 DEF LeftAt
<1> QED
  BY <1>6, <1>14

LEMMA LeftNext == SoundInv /\ LeftInv /\ [GraphNext]_graphVars => LeftInv'
<1> SUFFICES ASSUME SoundInv, LeftInv, [GraphNext]_graphVars, search' = "index"
             PROVE  ByDepth(worklist') /\ (\E D : LeftAt(D))'
  BY DEF LeftInv
<1>1. GraphShape
  BY DEF SoundInv
<1>2. CASE Skip
  <2>1. search = "index"
    BY <1>2 DEF Skip
  <2>2. ByDepth(worklist) /\ \E D : LeftAt(D)
    BY <2>1 DEF LeftInv
  <2>3. PICK D : LeftAt(D)
    BY <2>2
  <2>4. ByDepth(worklist') /\ LeftAt(D)'
    BY <1>1, <1>2, <2>2, <2>3, LeftSkip
  <2> QED
    BY <2>4
<1>3. CASE VisitFromQueue
  <2>1. ByDepth(worklist) /\ \E D : LeftAt(D)
    BY <1>3 DEF VisitFromQueue, LeftInv
  <2>2. PICK D : LeftAt(D)
    BY <2>1
  <2> QED
    BY <1>1, <1>3, <2>1, <2>2, LeftVisit
<1>4. CASE MarkWhenFound \/ VisitFromStack
  BY <1>4 DEF MarkWhenFound, VisitFromStack, Visit
<1>5. CASE UNCHANGED graphVars
  <2>1. UNCHANGED <<edges, search, worklist, visited>>
    BY <1>5 DEF graphVars
  <2>2. ByDepth(worklist) /\ \E D : LeftAt(D)
    BY <2>1 DEF LeftInv
  <2>3. ASSUME NEW D, LeftAt(D) PROVE LeftAt(D)'
    BY <2>1, <2>3, EdgesStay DEF LeftAt
  <2> QED
    BY <2>1, <2>2, <2>3
<1> QED
  BY <1>2, <1>3, <1>4, <1>5 DEF GraphNext

(***************************************************************************)
(* The theorems.                                                           *)
(***************************************************************************)

SearchInv == SoundInv /\ FoundInv /\ LeftInv

LEMMA SearchIsInductive == GraphSpec => []SearchInv
<1>1. GraphInit => SearchInv
  BY SoundInit, FoundInit, LeftInit DEF SearchInv
<1>2. SearchInv /\ [GraphNext]_graphVars => SearchInv'
  BY SoundNext, FoundNext, LeftNext DEF SearchInv
<1> QED
  BY <1>1, <1>2, PTL DEF GraphSpec

\* The worklist holds files of the graph with their depths, and what is visited and what
\* is affected are files of the graph.
THEOREM SearchesAreTyped == GraphSpec => []GraphTypeOK
<1>1. SearchInv => GraphTypeOK
  BY DEF SearchInv, SoundInv, GraphShape, SoundSoFar, GraphTypeOK, Items
<1> QED
  BY <1>1, SearchIsInductive, PTL

\* Whatever the graph, the depth and the order of the edges, a search ends with files
\* that a walk of the depth leads to, and one over a queue with all of them
\* (impact_analysis, impact_from_index).
THEOREM SearchesAreExact == GraphSpec => []SearchIsExact
<1>1. SearchInv => SearchIsExact
  <2> SUFFICES ASSUME SearchInv, worklist = << >>
               PROVE  /\ affected \subseteq Within(MaxDepth) \ {Start}
                      /\ search # "related" => affected = Within(MaxDepth) \ {Start}
    BY DEF SearchIsExact
  <2>1. affected = visited \ {Start} /\ visited \subseteq Within(MaxDepth)
    BY DEF SearchInv, SoundInv, SoundSoFar
  <2>2. \A x : x \notin ToSet(worklist)
    BY EmptySeq DEF ToSet
  <2>3. ASSUME search = "impact" PROVE Within(MaxDepth) \subseteq visited
    <3>1. PICK D : FoundAt(D)
      BY <2>3 DEF SearchInv, FoundInv
    <3>2. /\ Start \in visited /\ D[Start] = 0 /\ \A n \in visited : D[n] \in Nat
          /\ \A n \in visited : D[n] < MaxDepth =>
               \A m \in Neighbours(n) : m \in visited /\ D[m] <= D[n] + 1
      BY <2>2, <3>1 DEF FoundAt
    <3>3. PICK V : V = visited
      OBVIOUS
    <3> QED
      BY <3>2, <3>3, MarksReachAll
  <2>4. ASSUME search = "index" PROVE Within(MaxDepth) \subseteq visited
    <3>1. PICK D : LeftAt(D)
      BY <2>4 DEF SearchInv, LeftInv
    <3>2. /\ Start \in visited /\ D[Start] = 0 /\ \A n \in visited : D[n] \in Nat
          /\ \A n \in visited : D[n] < MaxDepth =>
               \A m \in Neighbours(n) : m \in visited /\ D[m] <= D[n] + 1
      BY <2>2, <3>1 DEF LeftAt
    <3>3. PICK V : V = visited
      OBVIOUS
    <3> QED
      BY <3>2, <3>3, MarksReachAll
  <2>5. search \in {"impact", "index", "related"}
    BY DEF SearchInv, SoundInv, GraphShape, Searches
  <2> QED
    BY <2>1, <2>3, <2>4, <2>5
<1> QED
  BY <1>1, SearchIsInductive, PTL
==============================================================================

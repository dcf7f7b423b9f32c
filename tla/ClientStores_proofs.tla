------------------------ MODULE ClientStores_proofs ------------------------
(***************************************************************************)
(* Proofs about six of the client's components: the configuration of an    *)
(* editor, the session file, the read cache, the code index, the locks of  *)
(* the server and the statistics.  Each part uses one module only, and the *)
(* facts about numbers and sums that come first.                           *)
(***************************************************************************)
EXTENDS SessionStore, EditorConfig, ReadCache, IndexBuild, ServerLocks, StatsFlush,
        FiniteSetTheorems, SequenceTheorems, WellFoundedInduction, TLAPS

-----------------------------------------------------------------------------
\* The smallest of some numbers.
LEMMA LeastExists ==
  ASSUME NEW T, T \subseteq Nat, T # {}
  PROVE  \E x \in T : \A y \in T : ~(y < x)
<1> DEFINE R == OpToRel(<, Nat)
<1>1. IsWellFoundedOn(R, Nat)
  BY NatLessThanWellFounded
<1>2. \A x, y \in Nat : x < y => <<x, y>> \in R
  BY DEF OpToRel
<1> HIDE DEF R
<1>3. \E x \in T : \A y \in T : ~(<<y, x>> \in R)
  BY <1>1, WFMin
<1> QED
  BY <1>2, <1>3

(***************************************************************************)
(* Sums over the values of a function.                                     *)
(***************************************************************************)

\* g sums up the values of f over each subset of S.
Summing(g, f, S) ==
  g = [T \in SUBSET S |-> IF T = {} THEN 0
                          ELSE LET x == CHOOSE x \in T : TRUE IN f[x] + g[T \ {x}]]

LEMMA SumDefined ==
  ASSUME NEW f, NEW S
  PROVE  SumFunctionOnSet(f, S) = (CHOOSE g : Summing(g, f, S))[S]
BY DEF SumFunctionOnSet, FoldFunctionOnSet, MapThenFoldSet, Summing

First(T) == CHOOSE x \in T : TRUE

LEMMA FirstIsIn == ASSUME NEW T, T # {} PROVE First(T) \in T
BY DEF First

LEMMA SummingMeans ==
  ASSUME NEW g, NEW f, NEW S, Summing(g, f, S)
  PROVE  /\ g[{}] = 0
         /\ \A T \in SUBSET S : T # {} => g[T] = f[First(T)] + g[T \ {First(T)}]
BY DEF Summing, First

LEMMA SummingIs ==
  ASSUME NEW g, NEW f, NEW S, g = [T \in SUBSET S |-> g[T]], g[{}] = 0,
         \A T \in SUBSET S : T # {} => g[T] = f[First(T)] + g[T \ {First(T)}]
  PROVE  Summing(g, f, S)
<1>1. \A T \in SUBSET S :
        g[T] = IF T = {} THEN 0 ELSE LET x == CHOOSE x \in T : TRUE IN f[x] + g[T \ {x}]
  BY DEF First
<1> QED
  BY <1>1 DEF Summing

\* Smaller sets come first.
LEMMA OneLess ==
  ASSUME NEW T, IsFiniteSet(T), NEW x \in T
  PROVE  /\ IsFiniteSet(T \ {x}) /\ Cardinality(T) \in Nat /\ Cardinality(T \ {x}) \in Nat
         /\ Cardinality(T \ {x}) < Cardinality(T)
<1>1. IsFiniteSet(T \ {x}) /\ Cardinality(T \ {x}) = Cardinality(T) - 1
  BY FS_RemoveElement
<1>2. Cardinality(T) \in Nat /\ Cardinality(T \ {x}) \in Nat
  BY <1>1, FS_CardinalityType
<1> QED
  BY <1>1, <1>2

\* What a set of sets lacks, it lacks at a smallest one.
LEMMA SmallestBad ==
  ASSUME NEW S, IsFiniteSet(S), NEW family, family \subseteq SUBSET S, family # {}
  PROVE  \E T \in family : \A x \in T : T \ {x} \in SUBSET S /\ T \ {x} \notin family
<1> DEFINE Sizes == {Cardinality(T) : T \in family}
<1>1. \A T \in family : IsFiniteSet(T) /\ Cardinality(T) \in Nat
  BY FS_Subset, FS_CardinalityType
<1>2. Sizes \subseteq Nat /\ Sizes # {} /\ \A T \in family : Cardinality(T) \in Sizes
  BY <1>1
<1>3. PICK T \in family : \A U \in family : ~(Cardinality(U) < Cardinality(T))
  <2>1. \E n \in Sizes : \A k \in Sizes : ~(k < n)
    <3> HIDE DEF Sizes
    <3> QED
      BY <1>2, LeastExists
  <2> QED
    BY <1>2, <2>1
<1>4. \A x \in T : T \ {x} \in SUBSET S /\ T \ {x} \notin family
  BY <1>1, <1>3, OneLess
<1> QED
  BY <1>4

LEMMA SummingAgrees ==
  ASSUME NEW S, IsFiniteSet(S), NEW R, S \subseteq R, NEW f, NEW e, NEW g, NEW h,
         Summing(g, f, R), Summing(h, e, S), \A x \in S : f[x] = e[x]
  PROVE  g[S] = h[S]
<1> DEFINE Bad == {T \in SUBSET S : g[T] # h[T]}
<1>1. Bad = {}
  <2> SUFFICES ASSUME Bad # {} PROVE FALSE
    OBVIOUS
  <2>1. PICK T \in Bad : \A x \in T : T \ {x} \in SUBSET S /\ T \ {x} \notin Bad
    <3>1. PICK B : B = Bad
      OBVIOUS
    <3>2. B \subseteq SUBSET S /\ B # {}
      BY <3>1
    <3>3. \E T \in B : \A x \in T : T \ {x} \in SUBSET S /\ T \ {x} \notin B
      BY <3>2, SmallestBad
    <3> QED
      BY <3>1, <3>3
  <2>2. T # {}
    BY SummingMeans
  <2>3. PICK x : x = First(T)
    OBVIOUS
  <2>4. x \in T /\ g[T \ {x}] = h[T \ {x}]
    BY <2>1, <2>2, <2>3, FirstIsIn
  <2>5. g[T] = f[x] + g[T \ {x}]
    <3>1. T \in SUBSET R
      OBVIOUS
    <3> QED
      BY <2>2, <2>3, <3>1, SummingMeans
  <2>6. h[T] = e[x] + h[T \ {x}]
    <3>1. T \in SUBSET S
      OBVIOUS
    <3> QED
      BY <2>2, <2>3, <3>1, SummingMeans
  <2>7. f[x] = e[x]
    BY <2>4
  <2> QED
    BY <2>1, <2>4, <2>5, <2>6, <2>7
<1> QED
  BY <1>1

LEMMA SummingExists ==
  ASSUME NEW S, IsFiniteSet(S), NEW f
  PROVE  \E g : Summing(g, f, S)
<1> DEFINE upTo(g, n) == /\ g = [T \in SUBSET S |-> g[T]] /\ g[{}] = 0
                         /\ \A T \in SUBSET S : T # {} /\ Cardinality(T) <= n =>
                              g[T] = f[First(T)] + g[T \ {First(T)}]
           Bad == {n \in Nat : ~\E g : upTo(g, n)}
<1>1. \A T \in SUBSET S : IsFiniteSet(T) /\ Cardinality(T) \in Nat /\ Cardinality(T) <= Cardinality(S)
  BY FS_Subset, FS_CardinalityType
<1>2. Bad = {}
  <2> SUFFICES ASSUME Bad # {} PROVE FALSE
    OBVIOUS
  <2>1. PICK n \in Bad : \A k \in Bad : ~(k < n)
    <3>1. Bad \subseteq Nat
      OBVIOUS
    <3> HIDE DEF Bad
    <3> QED
      BY <3>1, LeastExists
  <2>2. n # 0
    <3> DEFINE none == [T \in SUBSET S |-> 0]
    <3>1. none = [T \in SUBSET S |-> none[T]] /\ none[{}] = 0
      OBVIOUS
    <3>2. \A T \in SUBSET S : T # {} => ~(Cardinality(T) <= 0)
      BY <1>1, FS_EmptySet
    <3>3. upTo(none, 0)
      <4> HIDE DEF none
      <4> QED
        BY <3>1, <3>2
    <3> QED
      BY <3>3
  <2>3. n \in Nat /\ n - 1 \in Nat /\ n - 1 < n
    BY <2>1, <2>2
  <2>4. n - 1 \notin Bad
    <3> HIDE DEF Bad
    <3> QED
      BY <2>1, <2>3
  <2>5. PICK g : upTo(g, n - 1)
    BY <2>3, <2>4
  <2> DEFINE more == [T \in SUBSET S |-> IF Cardinality(T) = n THEN f[First(T)] + g[T \ {First(T)}]
                                         ELSE g[T]]
  <2>6. /\ more = [T \in SUBSET S |-> more[T]]
        /\ \A T \in SUBSET S : more[T] = IF Cardinality(T) = n THEN f[First(T)] + g[T \ {First(T)}]
                                         ELSE g[T]
    OBVIOUS
  <2> HIDE DEF more
  <2>7. more[{}] = 0
    BY <2>2, <2>5, <2>6, FS_EmptySet
  <2>8. ASSUME NEW T \in SUBSET S, T # {}, Cardinality(T) <= n
        PROVE  more[T] = f[First(T)] + more[T \ {First(T)}]
    <3>1. PICK c : c = First(T)
      OBVIOUS
    <3>2. c \in T /\ T \ {c} \in SUBSET S
      BY <2>8, <3>1, FirstIsIn
    <3>3. Cardinality(T) \in Nat /\ Cardinality(T \ {c}) \in Nat /\ Cardinality(T \ {c}) < Cardinality(T)
      BY <1>1, <3>2, OneLess
    <3>4. more[T \ {c}] = g[T \ {c}]
      <4>1. Cardinality(T \ {c}) # n
        BY <2>3, <2>8, <3>3
      <4> QED
        BY <2>6, <3>2, <4>1
    <3>5. CASE Cardinality(T) = n
      BY <2>6, <3>1, <3>4, <3>5
    <3>6. CASE Cardinality(T) # n
      <4>1. Cardinality(T) <= n - 1
        BY <2>3, <2>8, <3>3, <3>6
      <4>2. g[T] = f[c] + g[T \ {c}]
        BY <2>5, <2>8, <3>1, <4>1
      <4> QED
        BY <2>6, <3>1, <3>4, <3>6, <4>2
    <3> QED
      BY <3>5, <3>6
  <2>9. upTo(more, n)
    BY <2>6, <2>7, <2>8
  <2> QED
    BY <2>1, <2>9
<1>3. PICK n : n = Cardinality(S)
  OBVIOUS
<1>4. n \in Nat /\ \A T \in SUBSET S : Cardinality(T) <= n
  BY <1>1, <1>3
<1>5. PICK g : upTo(g, n)
  BY <1>2, <1>4
<1>6. \A T \in SUBSET S : T # {} => g[T] = f[First(T)] + g[T \ {First(T)}]
  BY <1>4, <1>5
<1>7. Summing(g, f, S)
  BY <1>5, <1>6, SummingIs
<1> QED
  BY <1>7

\* The sum over a finite set is the sum over a part of a larger one.
LEMMA SumIsPart ==
  ASSUME NEW S, IsFiniteSet(S), NEW f
  PROVE  \E g : Summing(g, f, S) /\ \A T \in SUBSET S : SumFunctionOnSet(f, T) = g[T]
<1>1. PICK g : Summing(g, f, S)
  BY SummingExists
<1>2. ASSUME NEW T \in SUBSET S PROVE SumFunctionOnSet(f, T) = g[T]
  <2>1. IsFiniteSet(T)
    BY FS_Subset
  <2>2. PICK h : h = CHOOSE k : Summing(k, f, T)
    OBVIOUS
  <2>3. Summing(h, f, T) /\ SumFunctionOnSet(f, T) = h[T]
    BY <2>1, <2>2, SummingExists, SumDefined
  <2>4. \A x \in T : f[x] = f[x]
    OBVIOUS
  <2>5. g[T] = h[T]
    BY <1>1, <2>1, <2>3, <2>4, SummingAgrees
  <2> QED
    BY <2>3, <2>5
<1> QED
  BY <1>1, <1>2

LEMMA SumEmpty == ASSUME NEW f PROVE SumFunctionOnSet(f, {}) = 0
<1>1. PICK g : Summing(g, f, {}) /\ \A T \in SUBSET {} : SumFunctionOnSet(f, T) = g[T]
  BY SumIsPart, FS_EmptySet
<1> QED
  BY <1>1, SummingMeans

\* Functions that agree on a set have the same sum over it.
LEMMA SumSame ==
  ASSUME NEW S, IsFiniteSet(S), NEW f, NEW e, \A x \in S : f[x] = e[x]
  PROVE  SumFunctionOnSet(f, S) = SumFunctionOnSet(e, S)
<1>1. PICK g : Summing(g, f, S) /\ \A T \in SUBSET S : SumFunctionOnSet(f, T) = g[T]
  BY SumIsPart
<1>2. PICK h : Summing(h, e, S) /\ \A T \in SUBSET S : SumFunctionOnSet(e, T) = h[T]
  BY SumIsPart
<1>3. g[S] = h[S]
  BY <1>1, <1>2, SummingAgrees
<1> QED
  BY <1>1, <1>2, <1>3

LEMMA SumIsInt ==
  ASSUME NEW S, IsFiniteSet(S), NEW f, \A x \in S : f[x] \in Int
  PROVE  /\ \A T \in SUBSET S : SumFunctionOnSet(f, T) \in Int
         /\ (\A x \in S : f[x] >= 0) => \A T \in SUBSET S : SumFunctionOnSet(f, T) >= 0
<1>1. PICK g : Summing(g, f, S) /\ \A T \in SUBSET S : SumFunctionOnSet(f, T) = g[T]
  BY SumIsPart
<1>2. /\ g[{}] = 0
      /\ \A T \in SUBSET S : T # {} => g[T] = f[First(T)] + g[T \ {First(T)}]
  <2>1. Summing(g, f, S)
    BY <1>1
  <2> QED
    BY <2>1, SummingMeans
<1> DEFINE good(T) == g[T] \in Int /\ ((\A x \in S : f[x] >= 0) => g[T] >= 0)
           Bad == {T \in SUBSET S : ~good(T)}
<1>3. Bad = {}
  <2> SUFFICES ASSUME Bad # {} PROVE FALSE
    OBVIOUS
  <2>1. PICK T \in Bad : \A x \in T : T \ {x} \in SUBSET S /\ T \ {x} \notin Bad
    <3>1. PICK B : B = Bad
      OBVIOUS
    <3>2. B \subseteq SUBSET S /\ B # {}
      BY <3>1
    <3>3. \E T \in B : \A x \in T : T \ {x} \in SUBSET S /\ T \ {x} \notin B
      BY <3>2, SmallestBad
    <3> QED
      BY <3>1, <3>3
  <2>2. T # {}
    <3>1. good({})
      BY <1>2
    <3> QED
      BY <2>1, <3>1
  <2>3. PICK c : c = First(T)
    OBVIOUS
  <2>4. c \in T /\ c \in S /\ good(T \ {c}) /\ g[T] = f[c] + g[T \ {c}]
    BY <1>2, <2>1, <2>2, <2>3, FirstIsIn
  <2>5. good(T)
    BY <2>4
  <2> QED
    BY <2>1, <2>5
<1> QED
  BY <1>1, <1>3

\* Whichever element is taken out, the sum is less by its value.
LEMMA SumLess ==
  ASSUME NEW S, IsFiniteSet(S), NEW f, \A x \in S : f[x] \in Int, NEW p \in S
  PROVE  SumFunctionOnSet(f, S) = f[p] + SumFunctionOnSet(f, S \ {p})
<1>1. PICK g : Summing(g, f, S) /\ \A T \in SUBSET S : SumFunctionOnSet(f, T) = g[T]
  BY SumIsPart
<1>2. /\ \A T \in SUBSET S : T # {} => g[T] = f[First(T)] + g[T \ {First(T)}]
      /\ \A T \in SUBSET S : g[T] \in Int
  <2>1. \A T \in SUBSET S : SumFunctionOnSet(f, T) \in Int
    BY SumIsInt
  <2> QED
    BY <1>1, <2>1, SummingMeans
<1> DEFINE good(T) == \A x \in T : g[T] = f[x] + g[T \ {x}]
           Bad == {T \in SUBSET S : ~good(T)}
<1>3. Bad = {}
  <2> SUFFICES ASSUME Bad # {} PROVE FALSE
    OBVIOUS
  <2>1. PICK T \in Bad : \A x \in T : T \ {x} \in SUBSET S /\ T \ {x} \notin Bad
    <3>1. PICK B : B = Bad
      OBVIOUS
    <3>2. B \subseteq SUBSET S /\ B # {}
      BY <3>1
    <3>3. \E T \in B : \A x \in T : T \ {x} \in SUBSET S /\ T \ {x} \notin B
      BY <3>2, SmallestBad
    <3> QED
      BY <3>1, <3>3
  <2>2. PICK x \in T : g[T] # f[x] + g[T \ {x}]
    BY <2>1
  <2>3. PICK c : c = First(T)
    OBVIOUS
  <2>4. c \in T /\ g[T] = f[c] + g[T \ {c}] /\ c # x
    BY <1>2, <2>2, <2>3, FirstIsIn
  <2>5. good(T \ {c}) /\ good(T \ {x})
    BY <2>1, <2>4
  <2>6. x \in T \ {c} /\ c \in T \ {x} /\ (T \ {c}) \ {x} = (T \ {x}) \ {c}
    BY <2>4
  <2>7. g[T \ {c}] = f[x] + g[(T \ {x}) \ {c}] /\ g[T \ {x}] = f[c] + g[(T \ {x}) \ {c}]
    <3>1. g[T \ {c}] = f[x] + g[(T \ {c}) \ {x}]
      BY <2>5, <2>6
    <3>2. g[T \ {x}] = f[c] + g[(T \ {x}) \ {c}]
      BY <2>5, <2>6
    <3> QED
      BY <2>6, <3>1, <3>2
  <2>8. f[x] \in Int /\ f[c] \in Int /\ g[(T \ {x}) \ {c}] \in Int
    BY <1>2, <2>4
  <2>9. PICK G : G = g[(T \ {x}) \ {c}]
    OBVIOUS
  <2>10. g[T] = f[c] + (f[x] + G) /\ f[x] + g[T \ {x}] = f[x] + (f[c] + G) /\ G \in Int
    BY <2>4, <2>7, <2>8, <2>9
  <2> QED
    BY <2>2, <2>8, <2>10
<1>4. good(S)
  BY <1>3
<1> QED
  BY <1>1, <1>4

\* A change at one place changes the sum by as much.
LEMMA SumChanges ==
  ASSUME NEW S, IsFiniteSet(S), NEW f, NEW e, NEW p \in S,
         \A x \in S : f[x] \in Int /\ e[x] \in Int, \A x \in S : x # p => f[x] = e[x]
  PROVE  SumFunctionOnSet(e, S) = SumFunctionOnSet(f, S) + (e[p] - f[p])
<1>1. SumFunctionOnSet(f, S) = f[p] + SumFunctionOnSet(f, S \ {p})
  BY SumLess
<1>2. SumFunctionOnSet(e, S) = e[p] + SumFunctionOnSet(e, S \ {p})
  BY SumLess
<1>3. IsFiniteSet(S \ {p}) /\ \A x \in S \ {p} : f[x] = e[x]
  BY FS_Subset
<1>4. SumFunctionOnSet(f, S \ {p}) = SumFunctionOnSet(e, S \ {p})
  BY <1>3, SumSame
<1>5. SumFunctionOnSet(f, S \ {p}) \in Int
  <2>1. S \ {p} \in SUBSET S
    OBVIOUS
  <2> QED
    BY <2>1, SumIsInt
<1> QED
  BY <1>1, <1>2, <1>4, <1>5

\* A set and the rest of it.
LEMMA SumSplits ==
  ASSUME NEW S, IsFiniteSet(S), NEW f, \A x \in S : f[x] \in Int, NEW R \in SUBSET S
  PROVE  SumFunctionOnSet(f, S) = SumFunctionOnSet(f, R) + SumFunctionOnSet(f, S \ R)
<1> DEFINE sum(T) == SumFunctionOnSet(f, T)
           Bad == {T \in SUBSET S : sum(S) # sum(T) + sum(S \ T)}
<1>1. \A T \in SUBSET S : sum(T) \in Int
  BY SumIsInt
<1>2. Bad = {}
  <2> SUFFICES ASSUME Bad # {} PROVE FALSE
    OBVIOUS
  <2>1. PICK T \in Bad : \A x \in T : T \ {x} \in SUBSET S /\ T \ {x} \notin Bad
    <3>1. PICK B : B = Bad
      OBVIOUS
    <3>2. B \subseteq SUBSET S /\ B # {}
      BY <3>1
    <3>3. \E T \in B : \A x \in T : T \ {x} \in SUBSET S /\ T \ {x} \notin B
      BY <3>2, SmallestBad
    <3> QED
      BY <3>1, <3>3
  <2>2. T # {}
    <3>1. sum({}) = 0 /\ S \ {} = S /\ sum(S) \in Int
      BY <1>1, SumEmpty
    <3> HIDE DEF sum
    <3> QED
      BY <2>1, <3>1
  <2>3. PICK x \in T : TRUE
    BY <2>2
  <2>4. PICK U, V, W : U = T \ {x} /\ V = S \ T /\ W = S \ U
    OBVIOUS
  <2>5. /\ U \in SUBSET S /\ V \in SUBSET S /\ W \in SUBSET S /\ IsFiniteSet(T) /\ IsFiniteSet(W)
        /\ x \in W /\ W \ {x} = V /\ x \in S
    BY <2>3, <2>4, FS_Subset
  <2>6. sum(T) = f[x] + sum(U)
    BY <2>3, <2>4, <2>5, SumLess
  <2>7. sum(W) = f[x] + sum(V)
    BY <2>5, SumLess
  <2>8. sum(S) = sum(U) + sum(W)
    BY <2>1, <2>3, <2>4
  <2>9. f[x] \in Int /\ sum(U) \in Int /\ sum(V) \in Int
    BY <1>1, <2>5
  <2>10. sum(S) = sum(T) + sum(V)
    <3> HIDE DEF sum
    <3> QED
      BY <2>6, <2>7, <2>8, <2>9
  <2> QED
    BY <2>1, <2>4, <2>10
<1> QED
  BY <1>2

-----------------------------------------------------------------------------
(***************************************************************************)
(* EditorConfig.  The last edit is at risk or set aside; or one process at *)
(* most is at work, it has read that edit, and it has copied the file      *)
(* before it replaces it.                                                  *)
(***************************************************************************)

OneAtWork ==
  \A p \in Installers : \A q \in Installers : installer[p] = "idle" \/ installer[q] = "idle" \/ p = q

\* The last edit is in the file, or in the copy of a file that is gone.
LastIsThere ==
  \/ config.edit = configEdits
  \/ config.form = "absent" /\ backup.edit = configEdits

EditInv ==
  \/ configEdits \in atRisk \union setAside
  \/ /\ OneAtWork
     /\ \A p \in Installers : installer[p] # "idle" => text[p].edit = configEdits
     /\ (\A p \in Installers : installer[p] # "fill") => LastIsThere
     /\ \A p \in Installers : installer[p] = "rename" =>
          config.form = "absent" \/ backup.edit = configEdits

LEMMA EditorTypeInit == EditorInit => EditorTypeOK
<1> SUFFICES ASSUME EditorInit PROVE EditorTypeOK
  OBVIOUS
<1>1. 0 \in 0..MaxConfigEdits
  BY EditorAssumption
<1>2. NoText \in Text
  BY <1>1 DEF NoText, Text, ServerEntry
<1> QED
  BY <1>1, <1>2 DEF EditorInit, EditorTypeOK

\* What setup and uninstall make of a text comes from the same edit.
LEMMA TextsAreTyped ==
  /\ NoText \in Text /\ Fresh \in Text /\ [NoText EXCEPT !.form = "broken"] \in Text
  /\ \A t \in Text : Upserted(t) \in Text /\ Upserted(t).edit = t.edit
  /\ \A t \in Text, l \in ServerEntry :
       /\ [t EXCEPT !.nebu = "none", !.legacy = l] \in Text
       /\ [t EXCEPT !.nebu = "none", !.legacy = l].edit = t.edit
<1>1. 0 \in 0..MaxConfigEdits
  BY EditorAssumption
<1>2. NoText \in Text
  BY <1>1 DEF NoText, Text, ServerEntry
<1>3. Fresh \in Text /\ [NoText EXCEPT !.form = "broken"] \in Text
  BY <1>2 DEF Fresh, Text, ServerEntry
<1>4. \A t \in Text : Upserted(t) \in Text /\ Upserted(t).edit = t.edit
  BY DEF Upserted, Text, ServerEntry
<1>5. \A t \in Text, l \in ServerEntry :
        /\ [t EXCEPT !.nebu = "none", !.legacy = l] \in Text
        /\ [t EXCEPT !.nebu = "none", !.legacy = l].edit = t.edit
  BY DEF Text, ServerEntry
<1> QED
  BY <1>2, <1>3, <1>4, <1>5

LEMMA EditStep == ASSUME EditorTypeOK, EditInv, EditConfig PROVE (EditorTypeOK /\ EditInv)'
<1>1. configEdits' \in 1..MaxConfigEdits /\ configEdits' = configEdits + 1
  BY EditorAssumption DEF EditConfig, EditorTypeOK
<1>2. config' \in Text /\ config'.edit = configEdits'
  BY <1>1 DEF EditConfig, EditorTypeOK, Text, ServerEntry
<1>3. atRisk' \subseteq 0..MaxConfigEdits
  BY <1>1, EditorAssumption DEF EditConfig, EditorTypeOK
<1>4. EditorTypeOK'
  BY <1>1, <1>2, <1>3 DEF EditConfig, EditorTypeOK
<1>5. EditInv'
  BY <1>2 DEF EditConfig, AtWork, EditInv, OneAtWork, LastIsThere
<1> QED
  BY <1>4, <1>5

LEMMA BeginStep ==
  ASSUME EditorTypeOK, EditInv, NEW p \in Installers,
         ReadForSetup(p) \/ SetInvalidAside(p) \/ ReadForUninstall(p)
  PROVE  (EditorTypeOK /\ EditInv)'
<1>1. /\ installer[p] = "idle" /\ UNCHANGED configEdits
      /\ atRisk' = IF AtWork \/ config.form = "absent" THEN atRisk \union {configEdits} ELSE atRisk
  BY DEF ReadForSetup, SetInvalidAside, ReadForUninstall, Begins
<1>2. PICK step \in {"copy", "cut"} : installer' = [installer EXCEPT ![p] = step]
  BY DEF ReadForSetup, SetInvalidAside, ReadForUninstall, InstallerGoes
<1>3. PICK t \in Text : text' = [text EXCEPT ![p] = t] /\ (SetInvalidAside(p) \/ t.edit = config.edit)
  <2>1. config \in Text
    BY DEF EditorTypeOK
  <2>2. CASE ReadForSetup(p)
    BY <2>1, <2>2, TextsAreTyped DEF ReadForSetup, WillWrite
  <2>3. CASE SetInvalidAside(p)
    BY <2>3, TextsAreTyped DEF SetInvalidAside, WillWrite
  <2>4. CASE ReadForUninstall(p)
    <3>1. PICK l \in ServerEntry : text' = [text EXCEPT ![p] = [config EXCEPT !.nebu = "none", !.legacy = l]]
      <4>1. config.legacy \in ServerEntry /\ "none" \in ServerEntry
        BY <2>1 DEF Text, ServerEntry
      <4> QED
        BY <2>4, <4>1 DEF ReadForUninstall, WillWrite
    <3> QED
      BY <2>1, <3>1, TextsAreTyped
  <2> QED
    BY <2>2, <2>3, <2>4
<1>4. config' \in Text /\ setAside' \subseteq 0..MaxConfigEdits
  <2>1. config \in Text /\ config.edit \in 0..MaxConfigEdits
    BY DEF EditorTypeOK, Text
  <2> QED
    BY <2>1, TextsAreTyped DEF ReadForSetup, SetInvalidAside, ReadForUninstall, EditorTypeOK
<1>5. EditorTypeOK'
  BY <1>1, <1>2, <1>3, <1>4
     DEF EditorTypeOK, ReadForSetup, SetInvalidAside, ReadForUninstall
<1>6. setAside \subseteq setAside' /\ (SetInvalidAside(p) => config.edit \in setAside')
      /\ (~SetInvalidAside(p) => config' = config) /\ UNCHANGED backup
  BY DEF ReadForSetup, SetInvalidAside, ReadForUninstall
<1>7. AtWork \/ config.form = "absent" \/ configEdits \in atRisk \union setAside => EditInv'
  BY <1>1, <1>6 DEF EditInv
<1>8. ASSUME ~AtWork, config.form # "absent", configEdits \notin atRisk \union setAside PROVE EditInv'
  <2>1. (\A q \in Installers : installer[q] = "idle") /\ config.edit = configEdits
    BY <1>8 DEF AtWork, EditInv, LastIsThere
  <2> QED
    BY <1>1, <1>2, <1>3, <1>6, <2>1 DEF EditInv, OneAtWork, LastIsThere, EditorTypeOK
<1> QED
  BY <1>5, <1>7, <1>8

LEMMA WorkStep ==
  ASSUME EditorTypeOK, EditInv, NEW p \in Installers,
         CopyAside(p) \/ RemoveTarget(p) \/ Replace(p) \/ CutConfig(p) \/ FillConfig(p)
         \/ KillInstaller(p)
  PROVE  (EditorTypeOK /\ EditInv)'
<1>1. /\ installer[p] # "idle" /\ UNCHANGED <<configEdits, setAside>>
      /\ atRisk' \in {atRisk, atRisk \union {text[p].edit}}
  BY DEF CopyAside, RemoveTarget, Replace, CutConfig, FillConfig, KillInstaller
<1>2. PICK step \in {"idle", "rename", "removed", "fill"} : installer' = [installer EXCEPT ![p] = step]
  BY DEF CopyAside, RemoveTarget, Replace, CutConfig, FillConfig, KillInstaller, InstallerGoes
<1>3. text' \in {text, [text EXCEPT ![p] = NoText]} /\ (step # "idle" => text' = text)
  BY <1>2 DEF CopyAside, RemoveTarget, Replace, CutConfig, FillConfig, KillInstaller, InstallerGoes, WillWrite,
              EditorTypeOK
<1>4. text[p] \in Text /\ text[p].edit \in 0..MaxConfigEdits /\ config \in Text
  BY DEF EditorTypeOK, Text
<1>5. config' \in Text /\ backup' \in Text
  BY <1>4, TextsAreTyped DEF CopyAside, RemoveTarget, Replace, CutConfig, FillConfig, KillInstaller, EditorTypeOK
<1>6. EditorTypeOK'
  <2>1. format' \in Formats
    BY DEF CopyAside, RemoveTarget, Replace, CutConfig, FillConfig, KillInstaller, EditorTypeOK
  <2> QED
    BY <1>1, <1>2, <1>3, <1>4, <1>5, <2>1, TextsAreTyped DEF EditorTypeOK
<1>7. configEdits \in atRisk \union setAside => EditInv'
  BY <1>1 DEF EditInv
<1>8. ASSUME configEdits \notin atRisk \union setAside PROVE EditInv'
  <2>1. /\ \A q \in Installers : q # p => installer[q] = "idle" /\ installer'[q] = "idle"
        /\ text[p].edit = configEdits
        /\ installer[p] # "fill" => LastIsThere
        /\ installer[p] = "rename" => config.form = "absent" \/ backup.edit = configEdits
    BY <1>1, <1>2, <1>8 DEF EditInv, OneAtWork, EditorTypeOK
  <2>2. installer'[p] = step
    BY <1>2 DEF EditorTypeOK
  <2>3. configEdits \in atRisk' \/ step = "fill" \/ LastIsThere'
    <3>1. CASE CopyAside(p) \/ KillInstaller(p)
      BY <1>1, <2>1, <3>1 DEF CopyAside, KillInstaller, LastIsThere
    <3>2. CASE RemoveTarget(p)
      BY <1>1, <2>1, <3>2 DEF RemoveTarget, LastIsThere, NoText
    <3>3. CASE Replace(p) \/ FillConfig(p)
      BY <1>1, <2>1, <3>3 DEF Replace, FillConfig, LastIsThere
    <3>4. CASE CutConfig(p)
      BY <2>2, <3>4 DEF CutConfig, InstallerGoes, EditorTypeOK
    <3> QED
      BY <3>1, <3>2, <3>3, <3>4
  <2>4. step = "rename" => config'.form = "absent" \/ backup'.edit = configEdits
    <3> HAVE step = "rename"
    <3>1. CopyAside(p)
      BY <1>2, <2>2
         DEF CopyAside, RemoveTarget, Replace, CutConfig, FillConfig, KillInstaller, InstallerGoes,
             EditorTypeOK
    <3> QED
      BY <2>1, <3>1 DEF CopyAside, LastIsThere
  <2>5. OneAtWork'
    BY <2>1 DEF OneAtWork
  <2>6. step # "idle" => text'[p].edit = configEdits
    BY <1>3, <2>1
  <2> QED
    BY <1>1, <2>1, <2>2, <2>3, <2>4, <2>5, <2>6 DEF EditInv
<1> QED
  BY <1>6, <1>7, <1>8

LEMMA EditorInvNext ==
  EditorTypeOK /\ EditInv /\ [EditorNext]_editorVars => (EditorTypeOK /\ EditInv)'
<1>1. ASSUME EditorTypeOK, EditInv, UNCHANGED editorVars PROVE (EditorTypeOK /\ EditInv)'
  BY <1>1 DEF editorVars, EditorTypeOK, EditInv, OneAtWork, LastIsThere
<1> QED
  BY <1>1, EditStep, BeginStep, WorkStep DEF EditorNext, InstallerStep

\* What was written to an editor's configuration last is in it, in a copy, or about to be
\* put back, also when setup is killed after it removed the file, unless it was written
\* under a process at work, two were at work, uninstall was killed in its write or setup
\* found no file: setup and uninstall lose nothing on their own.
THEOREM LastEditStays == EditorSpec => []LastEditIsKept
<1>1. EditorInit => EditorTypeOK /\ EditInv
  <2>1. EditorInit => EditInv
    BY DEF EditorInit, EditInv, OneAtWork, LastIsThere, NoText
  <2> QED
    BY <2>1, EditorTypeInit
<1>2. EditorTypeOK /\ EditInv => LastEditIsKept
  BY DEF EditInv, LastIsThere, LastEditIsKept
<1> QED
  BY <1>1, <1>2, EditorInvNext, PTL DEF EditorSpec

\* The configuration, its backup and the texts at hand stay texts of known edits, through
\* every write that is cut short.
THEOREM EditorTypeCorrect == EditorSpec => []EditorTypeOK
<1>1. EditorInit => EditorTypeOK /\ EditInv
  <2>1. EditorInit => EditInv
    BY DEF EditorInit, EditInv, OneAtWork, LastIsThere, NoText
  <2> QED
    BY <2>1, EditorTypeInit
<1> QED
  BY <1>1, EditorInvNext, PTL DEF EditorSpec

-----------------------------------------------------------------------------
(***************************************************************************)
(* SessionStore.  The pointer and its temporary file name sessions with a  *)
(* file, and a server gets to the pointer when its session has one.        *)
(***************************************************************************)

Named == DOMAIN sessionFile \union RemovedIds
Pointers == Named \union {NoPointer, Cut}
Pointing == {"tmp", "cut", "moved", "lost", "point"}

PointerInv ==
  /\ SessionTypeOK
  /\ latest \in Pointers /\ latestTmp \in Pointers
  /\ \A s \in McpServers :
       /\ saveStep[s] # "off" => session[s].id \in SessionId
       /\ saveStep[s] \in Pointing => session[s].id \in Named

LEMMA DownIsData == Down \in SessionData
<1>1. 0 \in 0..MaxSessions
  BY SessionAssumption
<1> QED
  BY <1>1 DEF Down, NewSession, SessionData

LEMMA NewIsData ==
  ASSUME NEW n \in 0..MaxSessions, NEW p \in Projects \union {NoProject}
  PROVE  NewSession(n, p) \in SessionData /\ NewSession(n, p).id = n /\ NewSession(n, p).made = {}
BY DEF NewSession, SessionData

LEMMA PointerInit == SessionInit => PointerInv
<1> SUFFICES ASSUME SessionInit PROVE PointerInv
  OBVIOUS
<1>1. 0 \in 0..MaxChanges /\ 0 \in 0..MaxSessions /\ 0 \in Nat
  BY SessionAssumption
<1>2. session \in [McpServers -> SessionData] /\ saveStep \in [McpServers -> SaveSteps]
  BY DownIsData DEF SessionInit, SaveSteps
<1>3. {resetTo, doomed} \subseteq [McpServers -> 0..MaxSessions]
  BY <1>1 DEF SessionInit
<1>4. DOMAIN sessionFile = {} /\ latest = NoPointer /\ latestTmp = NoPointer /\ removed = {}
  BY DEF SessionInit
<1>5. SessionTypeOK
  BY <1>1, <1>2, <1>3, <1>4 DEF SessionInit, SessionTypeOK
<1> QED
  BY <1>4, <1>5 DEF SessionInit, PointerInv, Pointers, Pointing

\* A step of one server, in which no session loses its name.
LEMMA PointerStep ==
  ASSUME PointerInv, SessionTypeOK', NEW s \in McpServers, NEW data,
         session' = [session EXCEPT ![s] = data],
         Named \subseteq Named', latest' \in Pointers', latestTmp' \in Pointers',
         saveStep'[s] # "off" => data.id \in SessionId,
         saveStep'[s] \in Pointing => data.id \in Named',
         \A r \in McpServers : r # s => /\ saveStep'[r] # "off" => saveStep[r] # "off"
                                        /\ saveStep'[r] \in Pointing => saveStep[r] \in Pointing
  PROVE  PointerInv'
<1>1. session \in [McpServers -> SessionData]
  BY DEF PointerInv, SessionTypeOK
<1>2. session'[s] = data /\ \A r \in McpServers : r # s => session'[r] = session[r]
  BY <1>1
<1>3. ASSUME NEW r \in McpServers
      PROVE  /\ saveStep'[r] # "off" => session'[r].id \in SessionId
             /\ saveStep'[r] \in Pointing => session'[r].id \in Named'
  BY <1>2 DEF PointerInv
<1> QED
  BY <1>3 DEF PointerInv

LEMMA TakesUpTyped ==
  ASSUME PointerInv, NEW s, NEW i \in DOMAIN sessionFile, TakesUp(s, i)
  PROVE  /\ session' = [session EXCEPT ![s] = sessionFile[i]] /\ doubled' \in BOOLEAN
         /\ sessionFile[i] \in SessionData /\ sessionFile[i].id = i /\ i \in SessionId
BY DEF TakesUp, PointerInv, SessionTypeOK

LEMMA StartStep == ASSUME PointerInv, NEW s \in McpServers, StartServer(s) PROVE PointerInv'
<1>0. SessionTypeOK /\ opened \in Nat /\ MaxSessions \in Nat
  BY SessionAssumption DEF PointerInv, SessionTypeOK
<1>1. PICK data : /\ session' = [session EXCEPT ![s] = data] /\ data \in SessionData
                  /\ data.id \in SessionId /\ doubled' \in BOOLEAN /\ opened' \in 0..MaxSessions
  <2>1. PICK p \in Projects \union {NoProject} :
          \/ /\ \E i \in LatestOf(p) : TakesUp(s, i)
             /\ UNCHANGED opened
          \/ /\ LatestOf(p) = {} /\ opened < MaxSessions
             /\ opened' = opened + 1
             /\ session' = [session EXCEPT ![s] = NewSession(opened + 1, p)]
             /\ UNCHANGED doubled
    BY DEF StartServer
  <2>2. ASSUME NEW i \in LatestOf(p), TakesUp(s, i), UNCHANGED opened
        PROVE  /\ session' = [session EXCEPT ![s] = sessionFile[i]] /\ sessionFile[i] \in SessionData
               /\ sessionFile[i].id \in SessionId /\ doubled' \in BOOLEAN /\ opened' \in 0..MaxSessions
    <3>1. i \in DOMAIN sessionFile
      BY <2>2 DEF LatestOf, NewestSessions
    <3> QED
      BY <1>0, <2>2, <3>1, TakesUpTyped DEF SessionTypeOK
  <2>3. ASSUME opened < MaxSessions, opened' = opened + 1, UNCHANGED doubled
        PROVE  /\ NewSession(opened + 1, p) \in SessionData /\ NewSession(opened + 1, p).id \in SessionId
               /\ doubled' \in BOOLEAN /\ opened' \in 0..MaxSessions
    <3>1. opened + 1 \in 0..MaxSessions /\ opened + 1 \in SessionId
      BY <1>0, <2>3 DEF SessionId
    <3> QED
      BY <1>0, <2>3, <3>1, NewIsData DEF SessionTypeOK
  <2> QED
    BY <2>1, <2>2, <2>3
<1>2. /\ saveStep' = [saveStep EXCEPT ![s] = "save"]
      /\ UNCHANGED <<sessionFile, latest, latestTmp, resetTo, doomed, changes, removed, drops>>
  BY DEF StartServer, SaveGoes
<1>3. SessionTypeOK'
  BY <1>0, <1>1, <1>2 DEF SessionTypeOK, SaveSteps
<1>4. Named' = Named /\ latest' \in Pointers' /\ latestTmp' \in Pointers'
  BY <1>2 DEF Named, RemovedIds, Pointers, PointerInv
<1>5. saveStep'[s] = "save" /\ \A r \in McpServers : r # s => saveStep'[r] = saveStep[r]
  BY <1>0, <1>2 DEF SessionTypeOK
<1> QED
  BY <1>1, <1>3, <1>4, <1>5, PointerStep DEF Pointing

LEMMA CallStep == ASSUME PointerInv, NEW s \in McpServers, CallTool(s) PROVE PointerInv'
<1>0. SessionTypeOK /\ saveStep[s] = "idle" /\ session[s] \in SessionData
  BY DEF PointerInv, SessionTypeOK, CallTool
<1>1. PICK n \in 1..MaxBurst, p \in Projects \union {NoProject} :
        /\ changes + n <= MaxChanges /\ changes' = changes + n
        /\ session' = [session EXCEPT ![s].made = @ \union (changes + 1)..(changes + n),
                                      ![s].unsaved = @ + n, ![s].project = p]
  BY DEF CallTool
<1> DEFINE data == [session[s] EXCEPT !.made = @ \union (changes + 1)..(changes + n),
                                      !.unsaved = @ + n, !.project = p]
<1>2. n \in Nat /\ changes \in Nat /\ changes' \in 0..MaxChanges
      /\ (changes + 1)..(changes + n) \subseteq 1..MaxChanges
  BY <1>0, <1>1, SessionAssumption DEF SessionTypeOK
<1>3. data \in SessionData /\ data.id = session[s].id
  <2>1. /\ session[s].made \union (changes + 1)..(changes + n) \in SUBSET (1..MaxChanges)
        /\ session[s].unsaved + n \in Nat
    BY <1>0, <1>2 DEF SessionData
  <2> QED
    BY <1>0, <2>1 DEF SessionData
<1>4. session' = [session EXCEPT ![s] = data]
  BY <1>0, <1>1 DEF SessionTypeOK
<1> HIDE DEF data
<1>5. PICK step \in {"idle", "save"} : saveStep' = [saveStep EXCEPT ![s] = step]
  BY DEF CallTool, SaveGoes
<1>6. UNCHANGED <<sessionFile, latest, latestTmp, resetTo, doomed, opened, removed, doubled, drops>>
  BY DEF CallTool
<1>7. SessionTypeOK'
  BY <1>0, <1>2, <1>3, <1>4, <1>5, <1>6 DEF SessionTypeOK, SaveSteps
<1>8. Named' = Named /\ latest' \in Pointers' /\ latestTmp' \in Pointers'
  BY <1>6 DEF Named, RemovedIds, Pointers, PointerInv
<1>9. saveStep'[s] = step /\ \A r \in McpServers : r # s => saveStep'[r] = saveStep[r]
  BY <1>0, <1>5 DEF SessionTypeOK
<1>10. data.id \in SessionId
  BY <1>0, <1>3 DEF PointerInv
<1> QED
  BY <1>4, <1>7, <1>8, <1>9, <1>10, PointerStep DEF Pointing

LEMMA LoadStep == ASSUME PointerInv, NEW s \in McpServers, LoadSession(s) PROVE PointerInv'
<1>0. SessionTypeOK /\ saveStep[s] = "idle"
  BY DEF PointerInv, LoadSession
<1>1. PICK i \in DOMAIN sessionFile : TakesUp(s, i)
  BY DEF LoadSession
<1>2. /\ session' = [session EXCEPT ![s] = sessionFile[i]] /\ doubled' \in BOOLEAN
      /\ sessionFile[i] \in SessionData /\ sessionFile[i].id = i /\ i \in SessionId
  BY <1>1, TakesUpTyped
<1>3. /\ UNCHANGED <<sessionFile, latest, latestTmp, saveStep, resetTo, doomed, changes, opened, removed>>
      /\ drops' \in Nat
  BY <1>0 DEF LoadSession, SessionTypeOK
<1>4. SessionTypeOK'
  BY <1>0, <1>2, <1>3 DEF SessionTypeOK
<1>5. Named' = Named /\ latest' \in Pointers' /\ latestTmp' \in Pointers'
  BY <1>3 DEF Named, RemovedIds, Pointers, PointerInv
<1>6. sessionFile[i].id \in SessionId /\ saveStep'[s] \notin Pointing
  BY <1>0, <1>2, <1>3 DEF Pointing
<1> QED
  BY <1>2, <1>3, <1>4, <1>5, <1>6, PointerStep

\* Steps that change neither files nor sessions.
LEMMA WaitStep ==
  ASSUME PointerInv, NEW s \in McpServers, saveStep[s] = "idle", NEW step \in {"save", "clean"},
         SaveGoes(s, step), NEW goal \in 0..MaxSessions,
         \/ resetTo' = [resetTo EXCEPT ![s] = goal] /\ UNCHANGED doomed
         \/ doomed' = [doomed EXCEPT ![s] = goal] /\ UNCHANGED resetTo
         \/ UNCHANGED <<resetTo, doomed>>,
         opened' \in 0..MaxSessions,
         UNCHANGED <<sessionFile, latest, latestTmp, session, changes, removed, doubled, drops>>
  PROVE  PointerInv'
<1>0. SessionTypeOK
  BY DEF PointerInv
<1>1. SessionTypeOK'
  <2>1. {resetTo', doomed'} \subseteq [McpServers -> 0..MaxSessions]
    BY <1>0 DEF SessionTypeOK
  <2> QED
    BY <1>0, <2>1 DEF SessionTypeOK, SaveSteps, SaveGoes
<1>2. Named' = Named /\ latest' \in Pointers' /\ latestTmp' \in Pointers'
  BY DEF Named, RemovedIds, Pointers, PointerInv
<1>3. saveStep'[s] = step /\ \A r \in McpServers : r # s => saveStep'[r] = saveStep[r]
  BY <1>0 DEF SessionTypeOK, SaveGoes
<1>4. session' = [session EXCEPT ![s] = session[s]] /\ session[s].id \in SessionId
  BY <1>0 DEF PointerInv, SessionTypeOK
<1> QED
  BY <1>1, <1>2, <1>3, <1>4, PointerStep DEF Pointing

LEMMA WaitSteps ==
  ASSUME PointerInv, NEW s \in McpServers,
         SaveAnyway(s) \/ ResetSession(s) \/ CleanUpSessions(s)
  PROVE  PointerInv'
<1>0. /\ opened \in 0..MaxSessions /\ MaxSessions \in Nat /\ 0 \in 0..MaxSessions
      /\ DOMAIN sessionFile \subseteq 0..MaxSessions
  BY SessionAssumption DEF PointerInv, SessionTypeOK, SessionId
<1>1. CASE SaveAnyway(s)
  BY <1>0, <1>1, WaitStep DEF SaveAnyway
<1>2. CASE ResetSession(s)
  <2>1. opened + 1 \in 0..MaxSessions
    BY <1>0, <1>2 DEF ResetSession
  <2> QED
    BY <1>2, <2>1, WaitStep DEF ResetSession
<1>3. CASE CleanUpSessions(s)
  <2>1. PICK i \in DOMAIN sessionFile : doomed' = [doomed EXCEPT ![s] = i]
    BY <1>3 DEF CleanUpSessions
  <2>2. i \in 0..MaxSessions
    BY <1>0, <2>1
  <2> QED
    BY <1>0, <1>3, <2>1, <2>2, WaitStep DEF CleanUpSessions
<1> QED
  BY <1>1, <1>2, <1>3

LEMMA RemoveSessionStep == ASSUME PointerInv, NEW s \in McpServers, RemoveSession(s) PROVE PointerInv'
<1>0. SessionTypeOK /\ saveStep[s] = "clean" /\ 0 \in 0..MaxSessions
  BY SessionAssumption DEF PointerInv, RemoveSession
<1>1. /\ sessionFile' = [i \in DOMAIN sessionFile \ {doomed[s]} |-> sessionFile[i]]
      /\ removed' = removed \union {[id |-> i, made |-> sessionFile[i].made] :
                                      i \in DOMAIN sessionFile \intersect {doomed[s]}}
      /\ doomed' = [doomed EXCEPT ![s] = 0] /\ saveStep' = [saveStep EXCEPT ![s] = "idle"]
      /\ UNCHANGED <<latest, latestTmp, session, resetTo, changes, opened, doubled, drops>>
  BY DEF RemoveSession, SaveGoes
<1>2. SessionTypeOK'
  <2>1. /\ DOMAIN sessionFile' \subseteq SessionId
        /\ \A i \in DOMAIN sessionFile' : sessionFile'[i] \in SessionData /\ sessionFile'[i].id = i
    BY <1>0, <1>1 DEF SessionTypeOK
  <2>2. removed' \subseteq [id : SessionId, made : SUBSET (1..MaxChanges)]
    BY <1>0, <1>1 DEF SessionTypeOK, SessionData
  <2> QED
    BY <1>0, <1>1, <2>1, <2>2 DEF SessionTypeOK, SaveSteps
<1>3. Named \subseteq Named'
  <2>1. ASSUME NEW i \in DOMAIN sessionFile, i \notin DOMAIN sessionFile' PROVE i \in RemovedIds'
    <3>1. [id |-> i, made |-> sessionFile[i].made] \in removed'
      BY <1>1, <2>1
    <3> QED
      BY <3>1 DEF RemovedIds
  <2>2. RemovedIds \subseteq RemovedIds'
    BY <1>1 DEF RemovedIds
  <2> QED
    BY <2>1, <2>2 DEF Named
<1>4. latest' \in Pointers' /\ latestTmp' \in Pointers'
  BY <1>1, <1>3 DEF Pointers, PointerInv
<1>5. saveStep'[s] = "idle" /\ \A r \in McpServers : r # s => saveStep'[r] = saveStep[r]
  BY <1>0, <1>1 DEF SessionTypeOK
<1>6. session' = [session EXCEPT ![s] = session[s]] /\ session[s].id \in SessionId
  BY <1>0, <1>1 DEF PointerInv, SessionTypeOK
<1> QED
  BY <1>2, <1>3, <1>4, <1>5, <1>6, PointerStep DEF Pointing

LEMMA WriteSteps ==
  ASSUME PointerInv, NEW s \in McpServers, SaveFile(s) \/ CutLatestTmp(s) \/ FillLatestTmp(s)
  PROVE  PointerInv'
<1>0. SessionTypeOK /\ session[s] \in SessionData /\ session[s].id \in SessionId
  BY DEF PointerInv, SessionTypeOK, SaveFile, CutLatestTmp, FillLatestTmp
<1>1. UNCHANGED <<session, resetTo, doomed, changes, opened, removed, doubled, drops>>
  BY DEF SaveFile, CutLatestTmp, FillLatestTmp
<1>2. PICK step \in {"tmp", "cut", "point"} : saveStep' = [saveStep EXCEPT ![s] = step]
  BY DEF SaveFile, CutLatestTmp, FillLatestTmp, SaveGoes
<1>3. /\ DOMAIN sessionFile \subseteq DOMAIN sessionFile' /\ DOMAIN sessionFile' \subseteq SessionId
      /\ \A i \in DOMAIN sessionFile' : sessionFile'[i] \in SessionData /\ sessionFile'[i].id = i
  <2>1. CASE SaveFile(s)
    <3>1. DOMAIN sessionFile' = DOMAIN sessionFile \union {session[s].id}
          /\ \A i \in DOMAIN sessionFile' :
               sessionFile'[i] = IF i = session[s].id THEN session[s] ELSE sessionFile[i]
      BY <2>1 DEF SaveFile
    <3> QED
      BY <1>0, <3>1 DEF SessionTypeOK
  <2>2. CASE CutLatestTmp(s) \/ FillLatestTmp(s)
    BY <1>0, <2>2 DEF CutLatestTmp, FillLatestTmp, SessionTypeOK
  <2> QED
    BY <2>1, <2>2
<1>4. Named \subseteq Named' /\ session[s].id \in Named'
  <2>1. Named \subseteq Named'
    BY <1>1, <1>3 DEF Named, RemovedIds
  <2>2. CASE SaveFile(s)
    <3>1. session[s].id \in DOMAIN sessionFile'
      BY <2>2 DEF SaveFile
    <3> QED
      BY <2>1, <3>1 DEF Named
  <2>3. CASE CutLatestTmp(s) \/ FillLatestTmp(s)
    BY <2>1, <2>3 DEF CutLatestTmp, FillLatestTmp, PointerInv, Pointing
  <2> QED
    BY <2>1, <2>2, <2>3
<1>5. latest' \in Pointers' /\ latestTmp' \in Pointers'
  <2>1. latest' \in {latest, session[s].id} /\ latestTmp' \in {latestTmp, Cut, session[s].id}
    BY DEF SaveFile, CutLatestTmp, FillLatestTmp
  <2> QED
    BY <1>4, <2>1 DEF Pointers, PointerInv
<1>6. SessionTypeOK'
  <2>1. Pointers' \subseteq SessionId \union {NoPointer, Cut}
    BY <1>0, <1>1, <1>3 DEF Pointers, Named, RemovedIds, SessionTypeOK
  <2> QED
    BY <1>0, <1>1, <1>2, <1>3, <1>5, <2>1 DEF SessionTypeOK, SaveSteps
<1>7. saveStep'[s] = step /\ \A r \in McpServers : r # s => saveStep'[r] = saveStep[r]
  BY <1>0, <1>2 DEF SessionTypeOK
<1>8. session' = [session EXCEPT ![s] = session[s]]
  BY <1>0, <1>1 DEF SessionTypeOK
<1> QED
  BY <1>0, <1>4, <1>5, <1>6, <1>7, <1>8, PointerStep

\* What the rename makes of the steps of the servers.
LEMMA RenameGoes ==
  ASSUME SessionTypeOK, NEW s \in McpServers, RenameLatest(s)
  PROVE  /\ saveStep' \in [McpServers -> SaveSteps] /\ saveStep'[s] = "idle"
         /\ \A r \in McpServers : r # s =>
              \/ saveStep'[r] = saveStep[r]
              \/ saveStep[r] \in {"cut", "moved"} /\ saveStep'[r] \in {"moved", "lost"}
BY DEF RenameLatest, SaveGoes, SessionTypeOK, SaveSteps, Followed

LEMMA RenamePointerStep == ASSUME PointerInv, NEW s \in McpServers, RenameLatest(s) PROVE PointerInv'
<1>0. /\ SessionTypeOK /\ session[s] \in SessionData /\ session[s].id \in SessionId
      /\ resetTo[s] \in 0..MaxSessions /\ 0 \in 0..MaxSessions
  BY SessionAssumption DEF PointerInv, SessionTypeOK, RenameLatest
<1>1. PICK data : data = AfterSave(s, latestTmp # NoPointer)
  OBVIOUS
<1>2. data \in SessionData /\ data.id \in SessionId
  <2>1. CASE resetTo[s] # 0
    <3>1. data = NewSession(resetTo[s], NoProject) /\ resetTo[s] \in SessionId
      BY <1>0, <1>1, <2>1, SessionAssumption DEF AfterSave, SessionId
    <3> QED
      BY <1>0, <3>1, NewIsData
  <2>2. CASE ~(resetTo[s] # 0)
    <3>1. data \in {session[s], [session[s] EXCEPT !.unsaved = 0]}
      BY <1>1, <2>2 DEF AfterSave
    <3> QED
      BY <1>0, <3>1 DEF SessionData
  <2> QED
    BY <2>1, <2>2
<1>3. /\ session' = [session EXCEPT ![s] = data] /\ resetTo' = [resetTo EXCEPT ![s] = 0]
      /\ latest' \in {latest, latestTmp} /\ latestTmp' \in {latestTmp, NoPointer}
      /\ UNCHANGED <<sessionFile, doomed, changes, opened, removed, doubled, drops>>
  BY <1>1 DEF RenameLatest
<1>4. SessionTypeOK'
  BY <1>0, <1>2, <1>3, RenameGoes DEF SessionTypeOK
<1>5. Named' = Named /\ latest' \in Pointers' /\ latestTmp' \in Pointers'
  BY <1>3 DEF Named, RemovedIds, Pointers, PointerInv
<1>6. /\ saveStep'[s] = "idle"
      /\ \A r \in McpServers : r # s => /\ saveStep'[r] # "off" => saveStep[r] # "off"
                                        /\ saveStep'[r] \in Pointing => saveStep[r] \in Pointing
  BY <1>0, RenameGoes DEF Pointing
<1> QED
  BY <1>2, <1>3, <1>4, <1>5, <1>6, PointerStep DEF Pointing

LEMMA KillStep == ASSUME PointerInv, NEW s \in McpServers, KillServer(s) PROVE PointerInv'
<1>0. SessionTypeOK /\ 0 \in 0..MaxSessions
  BY SessionAssumption DEF PointerInv
<1>1. /\ saveStep' = [saveStep EXCEPT ![s] = "off"] /\ session' = [session EXCEPT ![s] = Down]
      /\ resetTo' = [resetTo EXCEPT ![s] = 0] /\ doomed' = [doomed EXCEPT ![s] = 0]
      /\ UNCHANGED <<sessionFile, latest, latestTmp, changes, opened, removed, doubled>>
      /\ drops' \in Nat
  BY <1>0 DEF KillServer, SaveGoes, SessionTypeOK
<1>2. SessionTypeOK'
  BY <1>0, <1>1, DownIsData DEF SessionTypeOK, SaveSteps
<1>3. Named' = Named /\ latest' \in Pointers' /\ latestTmp' \in Pointers'
  BY <1>1 DEF Named, RemovedIds, Pointers, PointerInv
<1>4. saveStep'[s] = "off" /\ \A r \in McpServers : r # s => saveStep'[r] = saveStep[r]
  BY <1>0, <1>1 DEF SessionTypeOK
<1> QED
  BY <1>1, <1>2, <1>3, <1>4, PointerStep DEF Pointing

LEMMA PointerNext == PointerInv /\ [SessionNext]_sessionVars => PointerInv'
<1>1. ASSUME PointerInv, UNCHANGED sessionVars PROVE PointerInv'
  BY <1>1 DEF sessionVars, PointerInv, SessionTypeOK, Pointers, Named, RemovedIds
<1> QED
  BY <1>1, StartStep, CallStep, LoadStep, WaitSteps, RemoveSessionStep, WriteSteps, RenamePointerStep, KillStep
     DEF SessionNext

\* The pointer to the latest session names a session that has or had a file, or does not
\* parse, whatever the saves of several servers do to its one temporary file, whichever
\* server is killed and whatever is cleaned up: the file of a session comes before the
\* pointer to it (SessionState::save).
THEOREM LatestStaysThere == SessionSpec => []LatestIsThere
<1>1. PointerInv => LatestIsThere
  BY DEF PointerInv, Pointers, Named, LatestIsThere
<1> QED
  BY <1>1, PointerInit, PointerNext, PTL DEF SessionSpec

\* Every session file keeps the session it is named after, and every server a session of
\* the project it serves.
THEOREM SessionTypeCorrect == SessionSpec => []SessionTypeOK
<1>1. PointerInv => SessionTypeOK
  BY DEF PointerInv
<1> QED
  BY <1>1, PointerInit, PointerNext, PTL DEF SessionSpec

-----------------------------------------------------------------------------
(***************************************************************************)
(* SessionStore once more.  While no two servers have one session, what a  *)
(* server made and the file lacks is a batch at most; a kill, or a session *)
(* loaded over it, loses no more than that, and a cleanup what it removes. *)
(***************************************************************************)

\* What the file has of the session of a server, what cleanups removed, and what a kill of
\* the server, or a session loaded over its own, would lose.
Filed(s) == IF session[s].id \in DOMAIN sessionFile THEN sessionFile[session[s].id].made ELSE {}
WithFiles == UNION {data.made : data \in removed}
AtStake(s) == session[s].made \ (Filed(s) \union WithFiles)

\* How much that is at each step of a save.
StakeIsSmall(s) ==
  /\ saveStep[s] \in {"idle", "clean"} => /\ Cardinality(AtStake(s)) <= session[s].unsaved
                                          /\ Cardinality(AtStake(s)) <= BatchInterval - 1
  /\ saveStep[s] = "save" => Cardinality(AtStake(s)) <= BatchInterval + MaxBurst - 1
  /\ saveStep[s] \in Pointing => AtStake(s) = {}

\* Sessions are numbered in the order they are opened; a server that is down has none, and
\* the number that a reset goes on to is nobody's yet.
NumbersInv ==
  /\ \A i \in DOMAIN sessionFile : i <= opened
  /\ \A s \in McpServers : session[s].id <= opened /\ resetTo[s] <= opened
  /\ \A s \in McpServers : saveStep[s] = "off" => session[s] = Down
  /\ \A s \in McpServers : resetTo[s] # 0 =>
       /\ resetTo[s] \notin DOMAIN sessionFile
       /\ \A r \in McpServers : session[r].id # resetTo[s] /\ (resetTo[r] = resetTo[s] => r = s)

\* As long as no two servers have one session.
AloneInSession ==
  /\ \A r, s \in McpServers : session[r].id # 0 /\ session[r].id = session[s].id => r = s
  /\ \A s \in McpServers : Filed(s) \subseteq session[s].made /\ StakeIsSmall(s)

Lost == 1..changes \ Kept
LossBounded == Cardinality(Lost) <= drops * (BatchInterval + MaxBurst - 1)

LossInv ==
  /\ PointerInv /\ NumbersInv
  /\ ~doubled => AloneInSession /\ LossBounded

LEMMA KeptElements ==
  \A x : x \in Kept <=> \/ \E i \in DOMAIN sessionFile : x \in sessionFile[i].made
                        \/ \E s \in McpServers : x \in session[s].made
                        \/ x \in WithFiles
  BY DEF Kept, WithFiles

LEMMA KeptNext ==
  \A x : x \in Kept' <=> \/ \E i \in DOMAIN sessionFile' : x \in sessionFile'[i].made
                         \/ \E s \in McpServers : x \in session'[s].made
                         \/ x \in WithFiles'
  BY DEF Kept, WithFiles

LEMMA WithFilesStays == ASSUME UNCHANGED removed PROVE WithFiles' = WithFiles
  BY DEF WithFiles

LEMMA DownIsEmpty == Down.id = 0 /\ Down.made = {} /\ Down.unsaved = 0
  BY DEF Down, NewSession

LEMMA Finites ==
  ASSUME PointerInv
  PROVE  /\ IsFiniteSet(Lost) /\ Cardinality(Lost) \in Nat
         /\ \A s \in McpServers : IsFiniteSet(AtStake(s)) /\ Cardinality(AtStake(s)) \in Nat
<1>1. changes \in Nat /\ MaxChanges \in Nat
  BY SessionAssumption DEF PointerInv, SessionTypeOK
<1>2. IsFiniteSet(1..changes) /\ IsFiniteSet(1..MaxChanges)
  BY <1>1, FS_Interval
<1>3. IsFiniteSet(Lost)
  BY <1>2, FS_Subset DEF Lost
<1>4. ASSUME NEW s \in McpServers PROVE IsFiniteSet(AtStake(s))
  <2>1. AtStake(s) \subseteq 1..MaxChanges
    BY DEF AtStake, PointerInv, SessionTypeOK, SessionData
  <2> QED
    BY <1>2, <2>1, FS_Subset
<1> QED
  BY <1>3, <1>4, FS_CardinalityType

\* Nothing more is lost when what was kept still is.
LEMMA NoLoss ==
  ASSUME PointerInv, PointerInv', LossBounded, UNCHANGED drops, Lost' \subseteq Lost
  PROVE  LossBounded'
<1>1. PICK L, M : L = Lost /\ M = Lost'
  OBVIOUS
<1>2. IsFiniteSet(L) /\ Cardinality(L) \in Nat
  BY <1>1, Finites
<1>3. Cardinality(M) <= Cardinality(L) /\ Cardinality(M) \in Nat
  BY <1>1, <1>2, FS_Subset, FS_CardinalityType
<1>4. PICK k : k = drops * (BatchInterval + MaxBurst - 1)
  OBVIOUS
<1>5. k \in Int
  BY <1>4, SessionAssumption DEF PointerInv, SessionTypeOK
<1>6. Cardinality(L) <= k
  BY <1>1, <1>4 DEF LossBounded
<1>7. Cardinality(M) <= k
  BY <1>2, <1>3, <1>5, <1>6
<1> QED
  BY <1>1, <1>4, <1>7 DEF LossBounded

\* A server whose session stays as it is has no more at stake than before, as long as what
\* leaves its file is what a cleanup removed.
Stays(r) ==
  /\ UNCHANGED session[r]
  /\ \/ saveStep'[r] = saveStep[r]
     \/ saveStep[r] \in Pointing /\ saveStep'[r] \in Pointing
  /\ Filed(r)' \subseteq Filed(r) /\ Filed(r) \subseteq Filed(r)' \union WithFiles'
  /\ WithFiles \subseteq WithFiles'

LEMMA OthersStay ==
  ASSUME PointerInv, NEW r \in McpServers, Stays(r),
         Filed(r) \subseteq session[r].made, StakeIsSmall(r)
  PROVE  (Filed(r) \subseteq session[r].made)' /\ StakeIsSmall(r)'
<1>1. AtStake(r)' \subseteq AtStake(r)
  BY DEF AtStake, Stays
<1>2. PICK D, E : D = AtStake(r) /\ E = AtStake(r)'
  OBVIOUS
<1>3. /\ IsFiniteSet(D) /\ Cardinality(D) \in Nat /\ Cardinality(E) \in Nat
      /\ Cardinality(E) <= Cardinality(D)
  <2>1. IsFiniteSet(D) /\ E \subseteq D
    BY <1>1, <1>2, Finites
  <2> QED
    BY <2>1, FS_Subset, FS_CardinalityType
<1>4. session[r].unsaved \in Nat /\ BatchInterval \in Nat /\ MaxBurst \in Nat
  BY SessionAssumption DEF PointerInv, SessionTypeOK, SessionData
<1>5. CASE saveStep'[r] \in Pointing
  <2>1. saveStep[r] \in Pointing
    BY <1>5 DEF Stays
  <2>2. AtStake(r)' = {}
    BY <1>1, <2>1 DEF StakeIsSmall
  <2> QED
    BY <1>5, <2>2 DEF StakeIsSmall, Pointing, Stays
<1>6. CASE saveStep'[r] \notin Pointing
  <2>1. saveStep'[r] = saveStep[r] /\ session'[r] = session[r]
    BY <1>6 DEF Stays
  <2>2. saveStep[r] \in {"idle", "clean"} => /\ Cardinality(E) <= session[r].unsaved
                                             /\ Cardinality(E) <= BatchInterval - 1
    <3> HAVE saveStep[r] \in {"idle", "clean"}
    <3>1. Cardinality(D) <= session[r].unsaved /\ Cardinality(D) <= BatchInterval - 1
      BY <1>2 DEF StakeIsSmall
    <3> QED
      BY <1>3, <1>4, <3>1
  <2>3. saveStep[r] = "save" => Cardinality(E) <= BatchInterval + MaxBurst - 1
    <3> HAVE saveStep[r] = "save"
    <3>1. Cardinality(D) <= BatchInterval + MaxBurst - 1
      BY <1>2 DEF StakeIsSmall
    <3> QED
      BY <1>3, <1>4, <3>1
  <2> QED
    BY <1>2, <1>6, <2>1, <2>2, <2>3 DEF StakeIsSmall, Stays
<1> QED
  BY <1>5, <1>6

\* Nothing is at stake when there is nothing that is not filed.
LEMMA NoStakeNext ==
  ASSUME PointerInv', NEW s \in McpServers, AtStake(s)' = {} PROVE StakeIsSmall(s)'
<1>1. Cardinality({}) = 0
  BY FS_EmptySet
<1>2. session'[s].unsaved \in Nat /\ BatchInterval \in Nat \ {0} /\ MaxBurst \in Nat
  BY SessionAssumption DEF PointerInv, SessionTypeOK, SessionData
<1>3. Cardinality({}) <= session'[s].unsaved /\ Cardinality({}) <= BatchInterval - 1
      /\ Cardinality({}) <= BatchInterval + MaxBurst - 1
  BY <1>1, <1>2
<1> QED
  BY <1>3 DEF StakeIsSmall

\* The numbers, when no session is opened.
LEMMA NumbersStay ==
  ASSUME PointerInv, NumbersInv, UNCHANGED opened,
         \A i \in DOMAIN sessionFile' : \/ i \in DOMAIN sessionFile
                                        \/ \E r \in McpServers : i = session[r].id,
         \A r \in McpServers :
           /\ resetTo'[r] = resetTo[r] \/ resetTo'[r] = 0
           /\ \/ session'[r].id = session[r].id \/ session'[r].id = 0
              \/ session'[r].id \in DOMAIN sessionFile
              \/ session'[r].id = resetTo[r] /\ resetTo'[r] = 0
           /\ saveStep'[r] = "off" => session'[r] = Down
  PROVE  NumbersInv'
<1>1. opened \in Nat
  BY DEF PointerInv, SessionTypeOK
<1>2. \A i \in DOMAIN sessionFile' : i <= opened
  BY DEF NumbersInv
<1>3. \A r \in McpServers : session'[r].id <= opened /\ resetTo'[r] <= opened
  BY <1>1 DEF NumbersInv
<1>4. ASSUME NEW s \in McpServers, resetTo'[s] # 0
      PROVE  /\ resetTo'[s] \notin DOMAIN sessionFile'
             /\ \A r \in McpServers : session'[r].id # resetTo'[s] /\ (resetTo'[r] = resetTo'[s] => r = s)
  <2>1. resetTo'[s] = resetTo[s] /\ resetTo[s] # 0
    BY <1>4
  <2>2. /\ resetTo[s] \notin DOMAIN sessionFile
        /\ \A r \in McpServers : session[r].id # resetTo[s] /\ (resetTo[r] = resetTo[s] => r = s)
    BY <2>1 DEF NumbersInv
  <2>3. resetTo'[s] \notin DOMAIN sessionFile'
    BY <2>1, <2>2
  <2>4. ASSUME NEW r \in McpServers PROVE session'[r].id # resetTo'[s]
    <3>1. CASE session'[r].id = resetTo[r] /\ resetTo'[r] = 0
      <4>1. r # s
        BY <1>4, <3>1
      <4> QED
        BY <2>1, <2>2, <3>1, <4>1
    <3> QED
      BY <2>1, <2>2, <3>1
  <2>5. ASSUME NEW r \in McpServers, resetTo'[r] = resetTo'[s] PROVE r = s
    BY <2>1, <2>2, <2>5
  <2> QED
    BY <2>3, <2>4, <2>5
<1> QED
  BY <1>2, <1>3, <1>4 DEF NumbersInv

\* The numbers, when one is.
LEMMA NumbersGrow ==
  ASSUME PointerInv, NumbersInv, opened' = opened + 1, UNCHANGED sessionFile, NEW s \in McpServers,
         \/ /\ session'[s].id = opened + 1 /\ UNCHANGED resetTo
            /\ \A r \in McpServers : r # s => session'[r] = session[r]
         \/ UNCHANGED session /\ resetTo' = [resetTo EXCEPT ![s] = opened + 1],
         saveStep' = [saveStep EXCEPT ![s] = "save"]
  PROVE  NumbersInv'
<1>1. /\ opened \in Nat /\ \A i \in DOMAIN sessionFile : i \in Nat /\ i <= opened
      /\ resetTo \in [McpServers -> Nat] /\ saveStep \in [McpServers -> SaveSteps]
      /\ \A r \in McpServers : /\ session[r].id \in Nat /\ session[r].id <= opened
                               /\ resetTo[r] \in Nat /\ resetTo[r] <= opened
  BY SessionAssumption DEF PointerInv, SessionTypeOK, SessionId, NumbersInv, SessionData
<1>2. saveStep'[s] = "save" /\ \A r \in McpServers : r # s => saveStep'[r] = saveStep[r]
  BY <1>1
<1>3. \A r \in McpServers : r # s => session'[r] = session[r] /\ resetTo'[r] = resetTo[r]
  BY <1>1
<1>4. \/ session'[s].id = opened + 1 /\ resetTo'[s] = resetTo[s]
      \/ session'[s] = session[s] /\ resetTo'[s] = opened + 1
  BY <1>1
<1>5. \A i \in DOMAIN sessionFile' : i <= opened'
  BY <1>1
<1>6. \A r \in McpServers : session'[r].id <= opened' /\ resetTo'[r] <= opened'
  BY <1>1, <1>3, <1>4
<1>7. \A r \in McpServers : saveStep'[r] = "off" => session'[r] = Down
  BY <1>2, <1>3 DEF NumbersInv
<1>8. ASSUME NEW q \in McpServers, resetTo'[q] # 0
      PROVE  /\ resetTo'[q] \notin DOMAIN sessionFile'
             /\ \A r \in McpServers : session'[r].id # resetTo'[q] /\ (resetTo'[r] = resetTo'[q] => r = q)
  <2>1. CASE resetTo'[q] = resetTo[q]
    <3>1. /\ resetTo[q] \notin DOMAIN sessionFile /\ resetTo[q] # opened + 1
          /\ \A r \in McpServers : session[r].id # resetTo[q] /\ (resetTo[r] = resetTo[q] => r = q)
      BY <1>1, <1>8, <2>1 DEF NumbersInv
    <3>2. \A r \in McpServers : session'[r].id = session[r].id \/ session'[r].id = opened + 1
      BY <1>3, <1>4
    <3>3. \A r \in McpServers : resetTo'[r] = resetTo[r] \/ resetTo'[r] = opened + 1
      BY <1>3, <1>4
    <3> QED
      BY <2>1, <3>1, <3>2, <3>3
  <2>2. CASE resetTo'[q] # resetTo[q]
    <3>1. q = s /\ resetTo'[s] = opened + 1 /\ \A r \in McpServers : session'[r] = session[r]
      BY <1>3, <1>4, <2>2
    <3> QED
      BY <1>1, <1>3, <3>1
  <2> QED
    BY <2>1, <2>2
<1> QED
  BY <1>5, <1>6, <1>7, <1>8 DEF NumbersInv

\* A server gets another session in place of its own: nothing is lost of the one that it
\* had but what was at stake.
LEMMA LossReplace ==
  ASSUME LossInv, PointerInv', NumbersInv', NEW s \in McpServers, NEW data,
         session' = [session EXCEPT ![s] = data],
         UNCHANGED <<sessionFile, removed, changes>>,
         ~doubled' => ~doubled /\ \A r \in McpServers : r # s => data.id = 0 \/ session[r].id # data.id,
         \/ data.id \in DOMAIN sessionFile /\ data = sessionFile[data.id]
         \/ data.id \notin DOMAIN sessionFile /\ data.made = {},
         \A r \in McpServers : r # s => \/ saveStep'[r] = saveStep[r]
                                        \/ saveStep[r] \in Pointing /\ saveStep'[r] \in Pointing,
         saveStep[s] \in SaveSteps,
         \/ drops' = drops + 1 /\ saveStep[s] # "off"
         \/ drops' = drops /\ saveStep[s] \in Pointing \union {"off"}
  PROVE  LossInv'
<1>1. PointerInv /\ NumbersInv /\ SessionTypeOK /\ drops \in Nat
  BY DEF LossInv, PointerInv, SessionTypeOK
<1>2. session'[s] = data /\ \A r \in McpServers : r # s => session'[r] = session[r]
  BY <1>1 DEF SessionTypeOK
<1>3. WithFiles' = WithFiles
  BY WithFilesStays
<1>4. ASSUME ~doubled' PROVE AloneInSession' /\ LossBounded'
  <2>1. AloneInSession /\ LossBounded
    BY <1>4 DEF LossInv
  <2>2. Filed(s)' \subseteq data.made /\ AtStake(s)' = {}
    <3>1. Filed(s)' = IF data.id \in DOMAIN sessionFile THEN sessionFile[data.id].made ELSE {}
      BY <1>2 DEF Filed
    <3>2. data.made \subseteq Filed(s)' /\ Filed(s)' \subseteq data.made
      BY <3>1
    <3> QED
      BY <1>2, <3>2 DEF AtStake
  <2>3. StakeIsSmall(s)' /\ (Filed(s) \subseteq session[s].made)'
    BY <1>2, <2>2, NoStakeNext
  <2>4. ASSUME NEW r \in McpServers, r # s
        PROVE  (Filed(r) \subseteq session[r].made)' /\ StakeIsSmall(r)'
    <3>1. UNCHANGED session[r] /\ Filed(r)' = Filed(r)
      BY <1>2, <2>4 DEF Filed
    <3>2. Filed(r) \subseteq session[r].made /\ StakeIsSmall(r)
      BY <2>1 DEF AloneInSession
    <3>3. Stays(r)
      BY <1>1, <1>3, <2>4, <3>1 DEF Stays
    <3> QED
      BY <1>1, <3>2, <3>3, OthersStay
  <2>5. \A p, q \in McpServers : session'[p].id # 0 /\ session'[p].id = session'[q].id => p = q
    BY <1>2, <1>4, <2>1 DEF AloneInSession
  <2>6. AloneInSession'
    BY <2>3, <2>4, <2>5 DEF AloneInSession
  <2>7. Lost' \subseteq Lost \union AtStake(s)
    <3> SUFFICES ASSUME NEW x \in 1..changes, x \notin Kept', x \notin AtStake(s)
                 PROVE  x \notin Kept
      BY DEF Lost
    <3>1. x \notin WithFiles /\ ~\E i \in DOMAIN sessionFile : x \in sessionFile[i].made
      BY <1>3, KeptNext
    <3>2. \A r \in McpServers : r # s => x \notin session[r].made
      BY <1>2, KeptNext
    <3>3. x \notin session[s].made
      BY <3>1 DEF AtStake, Filed
    <3> QED
      BY <3>1, <3>2, <3>3, KeptElements
  <2>8. CASE drops' = drops /\ saveStep[s] \in Pointing \union {"off"}
    <3>1. AtStake(s) = {}
      <4>1. CASE saveStep[s] \in Pointing
        BY <2>1, <4>1 DEF AloneInSession, StakeIsSmall
      <4>2. CASE saveStep[s] = "off"
        <5>1. session[s].made = {}
          BY <1>1, <4>2, DownIsEmpty DEF NumbersInv
        <5> QED
          BY <5>1 DEF AtStake
      <4> QED
        BY <2>8, <4>1, <4>2
    <3>2. LossBounded'
      BY <1>1, <2>1, <2>7, <2>8, <3>1, NoLoss
    <3> QED
      BY <2>6, <3>2
  <2>9. CASE drops' = drops + 1 /\ saveStep[s] # "off"
    <3>1. PICK L, M, D : L = Lost /\ M = Lost' /\ D = AtStake(s)
      OBVIOUS
    <3>2. Cardinality(M) <= Cardinality(L) + Cardinality(D)
      <4>1. IsFiniteSet(L) /\ IsFiniteSet(D) /\ Cardinality(L) \in Nat /\ Cardinality(D) \in Nat
        BY <1>1, <3>1, Finites
      <4>2. /\ IsFiniteSet(L \union D) /\ Cardinality(L \cap D) \in Nat
            /\ Cardinality(L \union D) = Cardinality(L) + Cardinality(D) - Cardinality(L \cap D)
        BY <4>1, FS_Union, FS_Intersection, FS_CardinalityType
      <4>3. Cardinality(M) <= Cardinality(L \union D) /\ Cardinality(M) \in Nat
        BY <2>7, <3>1, <4>2, FS_Subset, FS_CardinalityType
      <4> QED
        BY <4>1, <4>2, <4>3
    <3>3. PICK K : K = BatchInterval + MaxBurst - 1
      OBVIOUS
    <3>4. /\ K \in Nat /\ Cardinality(L) \in Nat /\ Cardinality(D) \in Nat /\ Cardinality(M) \in Nat
      <4>1. K \in Nat
        BY <3>3, SessionAssumption
      <4>2. IsFiniteSet(L) /\ Cardinality(L) \in Nat /\ IsFiniteSet(D) /\ Cardinality(D) \in Nat
        BY <1>1, <3>1, Finites
      <4>3. IsFiniteSet(M)
        BY <2>7, <3>1, <4>2, FS_Union, FS_Subset
      <4> QED
        BY <4>1, <4>2, <4>3, FS_CardinalityType
    <3>5. Cardinality(D) <= K
      <4>1. StakeIsSmall(s) /\ saveStep[s] \in {"idle", "clean", "save"} \union Pointing
        BY <2>1, <2>9 DEF AloneInSession, SaveSteps, Pointing
      <4>2. CASE saveStep[s] \in {"idle", "clean"}
        <5>1. Cardinality(D) <= BatchInterval - 1
          BY <3>1, <4>1, <4>2 DEF StakeIsSmall
        <5> QED
          BY <3>3, <3>4, <5>1, SessionAssumption
      <4>3. CASE saveStep[s] = "save"
        BY <3>1, <3>3, <4>1, <4>3 DEF StakeIsSmall
      <4>4. CASE saveStep[s] \in Pointing
        <5>1. Cardinality(D) = 0
          BY <3>1, <4>1, <4>4, FS_EmptySet DEF StakeIsSmall
        <5> QED
          BY <3>4, <5>1
      <4> QED
        BY <4>1, <4>2, <4>3, <4>4
    <3>6. Cardinality(L) <= drops * K
      BY <2>1, <3>1, <3>3 DEF LossBounded
    <3>7. PICK k \in Nat : k = drops
      BY <1>1
    <3>8. (k + 1) * K = k * K + K /\ k * K \in Nat
      BY <3>4
    <3>9. Cardinality(M) <= (k + 1) * K
      BY <3>2, <3>4, <3>5, <3>6, <3>7, <3>8
    <3>10. LossBounded'
      BY <2>9, <3>1, <3>3, <3>7, <3>9 DEF LossBounded
    <3> QED
      BY <2>6, <3>10
  <2> QED
    BY <2>8, <2>9
<1> QED
  BY <1>4 DEF LossInv

LEMMA LossTakesUp ==
  ASSUME LossInv, PointerInv', NEW s \in McpServers, NEW i \in DOMAIN sessionFile, TakesUp(s, i),
         UNCHANGED <<sessionFile, resetTo, changes, opened, removed>>, saveStep'[s] # "off",
         \A r \in McpServers : r # s => saveStep'[r] = saveStep[r],
         saveStep[s] \in SaveSteps,
         \/ drops' = drops + 1 /\ saveStep[s] # "off"
         \/ drops' = drops /\ saveStep[s] = "off"
  PROVE  LossInv'
<1>1. PointerInv /\ NumbersInv /\ SessionTypeOK
  BY DEF LossInv, PointerInv
<1>2. PICK data : data = sessionFile[i]
  OBVIOUS
<1>3. data.id = i /\ session' = [session EXCEPT ![s] = data]
  BY <1>1, <1>2, TakesUpTyped
<1>4. session'[s] = data /\ \A r \in McpServers : r # s => session'[r] = session[r]
  BY <1>1, <1>3 DEF SessionTypeOK
<1>5. NumbersInv'
  <2>1. \A r \in McpServers : saveStep'[r] = "off" => session'[r] = Down
    BY <1>1, <1>4 DEF NumbersInv
  <2>2. \A r \in McpServers : session'[r].id = session[r].id \/ session'[r].id \in DOMAIN sessionFile
    BY <1>3, <1>4
  <2> QED
    BY <1>1, <2>1, <2>2, NumbersStay
<1>6. ~doubled' => ~doubled /\ \A r \in McpServers : r # s => session[r].id # data.id
  BY <1>3 DEF TakesUp
<1> QED
  BY <1>2, <1>3, <1>5, <1>6, LossReplace

LEMMA LossStart ==
  ASSUME LossInv, PointerInv', NEW s \in McpServers, StartServer(s) PROVE LossInv'
<1>1. /\ PointerInv /\ NumbersInv /\ SessionTypeOK /\ saveStep[s] = "off" /\ "off" \in SaveSteps
  BY DEF LossInv, PointerInv, StartServer, SaveSteps
<1>2. /\ saveStep' = [saveStep EXCEPT ![s] = "save"]
      /\ UNCHANGED <<sessionFile, latest, latestTmp, resetTo, doomed, changes, removed, drops>>
  BY DEF StartServer, SaveGoes
<1>3. saveStep'[s] = "save" /\ \A r \in McpServers : r # s => saveStep'[r] = saveStep[r]
  BY <1>1, <1>2 DEF SessionTypeOK
<1>4. PICK p \in Projects \union {NoProject} :
        \/ /\ \E i \in LatestOf(p) : TakesUp(s, i)
           /\ UNCHANGED opened
        \/ /\ LatestOf(p) = {} /\ opened < MaxSessions
           /\ opened' = opened + 1
           /\ session' = [session EXCEPT ![s] = NewSession(opened + 1, p)]
           /\ UNCHANGED doubled
  BY DEF StartServer
<1>5. ASSUME NEW i \in LatestOf(p), TakesUp(s, i), UNCHANGED opened PROVE LossInv'
  <2>1. i \in DOMAIN sessionFile
    BY <1>5 DEF LatestOf, NewestSessions
  <2> QED
    BY <1>1, <1>2, <1>3, <1>5, <2>1, LossTakesUp
<1>6. ASSUME opened' = opened + 1, UNCHANGED doubled,
             session' = [session EXCEPT ![s] = NewSession(opened + 1, p)]
      PROVE  LossInv'
  <2>1. PICK data : data = NewSession(opened + 1, p)
    OBVIOUS
  <2>2. data.id = opened + 1 /\ data.made = {}
    BY <2>1 DEF NewSession
  <2>3. session'[s] = data /\ \A r \in McpServers : r # s => session'[r] = session[r]
    BY <1>1, <1>6, <2>1 DEF SessionTypeOK
  <2>4. NumbersInv'
    BY <1>1, <1>2, <1>6, <2>2, <2>3, NumbersGrow
  <2>5. data.id \notin DOMAIN sessionFile /\ \A r \in McpServers : session[r].id # data.id
    <3>1. /\ opened \in Nat /\ \A i \in DOMAIN sessionFile : i \in Nat /\ i <= opened
          /\ \A r \in McpServers : session[r].id \in Nat /\ session[r].id <= opened
      BY <1>1, SessionAssumption DEF SessionTypeOK, SessionId, SessionData, NumbersInv
    <3> QED
      BY <2>2, <3>1
  <2> QED
    BY <1>1, <1>2, <1>3, <1>6, <2>1, <2>2, <2>4, <2>5, LossReplace
<1> QED
  BY <1>4, <1>5, <1>6

LEMMA LossLoad ==
  ASSUME LossInv, PointerInv', NEW s \in McpServers, LoadSession(s) PROVE LossInv'
<1>1. PointerInv /\ SessionTypeOK /\ saveStep[s] = "idle" /\ "idle" \in SaveSteps
  BY DEF LossInv, PointerInv, LoadSession, SaveSteps
<1>2. /\ UNCHANGED <<sessionFile, latest, latestTmp, saveStep, resetTo, doomed, changes, opened, removed>>
      /\ drops' = drops + 1
  BY DEF LoadSession
<1>3. PICK i \in DOMAIN sessionFile : TakesUp(s, i)
  BY DEF LoadSession
<1> QED
  BY <1>1, <1>2, <1>3, LossTakesUp

\* A kill loses what was at stake.
LEMMA LossKill ==
  ASSUME LossInv, PointerInv', NEW s \in McpServers, KillServer(s) PROVE LossInv'
<1>1. /\ PointerInv /\ NumbersInv /\ SessionTypeOK /\ saveStep[s] # "off" /\ saveStep[s] \in SaveSteps
  BY DEF LossInv, PointerInv, KillServer, SessionTypeOK
<1>2. /\ saveStep' = [saveStep EXCEPT ![s] = "off"] /\ session' = [session EXCEPT ![s] = Down]
      /\ drops' = drops + 1 /\ resetTo' = [resetTo EXCEPT ![s] = 0]
      /\ UNCHANGED <<sessionFile, latest, latestTmp, changes, opened, removed, doubled>>
  BY DEF KillServer, SaveGoes
<1>3. /\ session'[s] = Down /\ saveStep'[s] = "off" /\ resetTo'[s] = 0
      /\ \A r \in McpServers : r # s => /\ session'[r] = session[r] /\ saveStep'[r] = saveStep[r]
                                        /\ resetTo'[r] = resetTo[r]
  BY <1>1, <1>2 DEF SessionTypeOK
<1>4. NumbersInv'
  <2>1. \A r \in McpServers : saveStep'[r] = "off" => session'[r] = Down
    BY <1>1, <1>3 DEF NumbersInv
  <2>2. \A r \in McpServers : session'[r].id = session[r].id \/ session'[r].id = 0
    BY <1>3, DownIsEmpty
  <2> QED
    BY <1>1, <1>2, <1>3, <2>1, <2>2, NumbersStay
<1>5. Down.id = 0 /\ Down.id \notin DOMAIN sessionFile /\ Down.made = {}
  BY <1>1, DownIsEmpty, SessionAssumption DEF SessionTypeOK, SessionId
<1> QED
  BY <1>1, <1>2, <1>3, <1>4, <1>5, LossReplace

\* A call puts no more at stake than it changes, and goes on to a save when that is enough.
LEMMA LossCall ==
  ASSUME LossInv, PointerInv', NEW s \in McpServers, CallTool(s) PROVE LossInv'
<1>1. PointerInv /\ NumbersInv /\ SessionTypeOK /\ saveStep[s] = "idle"
  BY DEF LossInv, PointerInv, CallTool
<1>2. PICK n \in 1..MaxBurst, p \in Projects \union {NoProject} :
        /\ changes + n <= MaxChanges /\ changes' = changes + n
        /\ session' = [session EXCEPT ![s].made = @ \union (changes + 1)..(changes + n),
                                      ![s].unsaved = @ + n, ![s].project = p]
  BY DEF CallTool
<1>3. /\ saveStep' = [saveStep EXCEPT ![s] =
                        IF ShouldSave(session'[s].unsaved) THEN "save" ELSE "idle"]
      /\ UNCHANGED <<sessionFile, latest, latestTmp, resetTo, opened, removed, doubled, drops>>
  BY DEF CallTool, SaveGoes
<1>4. PICK new : new = (changes + 1)..(changes + n)
  OBVIOUS
<1>5. n \in Nat /\ n <= MaxBurst /\ changes \in Nat /\ IsFiniteSet(new) /\ Cardinality(new) = n
  <2>1. n \in Nat /\ n <= MaxBurst /\ changes \in Nat
    BY <1>1, SessionAssumption DEF SessionTypeOK
  <2>2. changes + 1 \in Int /\ changes + n \in Int
        /\ (IF changes + 1 > changes + n THEN 0 ELSE ((changes + n) - (changes + 1)) + 1) = n
    BY <2>1
  <2>3. IsFiniteSet(new) /\ Cardinality(new) = n
    BY <1>4, <2>2, FS_Interval
  <2> QED
    BY <2>1, <2>3
<1>6. /\ session'[s].id = session[s].id
      /\ session'[s].made = session[s].made \union new
      /\ session'[s].unsaved = session[s].unsaved + n /\ session[s].unsaved \in Nat
      /\ \A r \in McpServers : r # s => session'[r] = session[r] /\ saveStep'[r] = saveStep[r]
      /\ saveStep'[s] = IF session'[s].unsaved >= BatchInterval THEN "save" ELSE "idle"
  BY <1>1, <1>2, <1>3, <1>4 DEF SessionTypeOK, SessionData, ShouldSave
<1>7. \A r \in McpServers : session'[r].id = session[r].id
  BY <1>6
<1>8. NumbersInv'
  <2>1. \A r \in McpServers : saveStep'[r] = "off" => session'[r] = Down
    BY <1>1, <1>6 DEF NumbersInv
  <2> QED
    BY <1>1, <1>3, <1>7, <2>1, NumbersStay
<1>9. ASSUME ~doubled' PROVE AloneInSession' /\ LossBounded'
  <2>1. AloneInSession /\ LossBounded
    BY <1>3, <1>9 DEF LossInv
  <2>2. Filed(s)' = Filed(s) /\ WithFiles' = WithFiles
    BY <1>3, <1>6, WithFilesStays DEF Filed
  <2>3. AtStake(s)' \subseteq AtStake(s) \union new
    BY <1>6, <2>2 DEF AtStake
  <2>4. PICK D, E : D = AtStake(s) /\ E = AtStake(s)'
    OBVIOUS
  <2>5. IsFiniteSet(D) /\ Cardinality(D) \in Nat /\ Cardinality(D \union new) <= Cardinality(D) + n
    <3>1. IsFiniteSet(D) /\ Cardinality(D) \in Nat
      BY <1>1, <2>4, Finites
    <3>2. /\ Cardinality(D \union new) = Cardinality(D) + Cardinality(new) - Cardinality(D \cap new)
          /\ Cardinality(D \cap new) \in Nat
      BY <1>5, <3>1, FS_Union, FS_Intersection, FS_CardinalityType
    <3> QED
      BY <1>5, <3>1, <3>2
  <2>6. Cardinality(E) \in Nat /\ Cardinality(E) <= Cardinality(D) + n
    <3>1. IsFiniteSet(D \union new) /\ Cardinality(D \union new) \in Nat /\ E \subseteq D \union new
      BY <1>5, <2>3, <2>4, <2>5, FS_Union, FS_CardinalityType
    <3>2. Cardinality(E) <= Cardinality(D \union new) /\ Cardinality(E) \in Nat
      BY <3>1, FS_Subset, FS_CardinalityType
    <3> QED
      BY <1>5, <2>5, <3>1, <3>2
  <2>7. Cardinality(D) <= session[s].unsaved /\ Cardinality(D) <= BatchInterval - 1
    BY <1>1, <2>1, <2>4 DEF AloneInSession, StakeIsSmall
  <2>8. StakeIsSmall(s)'
    <3>1. BatchInterval \in Nat /\ MaxBurst \in Nat
      BY SessionAssumption
    <3>2. CASE session'[s].unsaved >= BatchInterval
      <4>1. saveStep'[s] = "save"
        BY <1>6, <3>2
      <4>2. Cardinality(E) <= BatchInterval + MaxBurst - 1
        BY <1>5, <2>5, <2>6, <2>7, <3>1
      <4> QED
        BY <2>4, <4>1, <4>2 DEF StakeIsSmall, Pointing
    <3>3. CASE ~(session'[s].unsaved >= BatchInterval)
      <4>1. saveStep'[s] = "idle"
        BY <1>6, <3>3
      <4>2. Cardinality(E) <= session'[s].unsaved /\ Cardinality(E) <= BatchInterval - 1
        <5>1. PICK u : u = session'[s].unsaved
          OBVIOUS
        <5>2. u \in Nat /\ ~(u >= BatchInterval) /\ Cardinality(E) <= u
          BY <1>5, <1>6, <2>5, <2>6, <2>7, <3>3, <5>1
        <5> QED
          BY <2>6, <3>1, <5>1, <5>2
      <4> QED
        BY <2>4, <4>1, <4>2 DEF StakeIsSmall, Pointing
    <3> QED
      BY <3>2, <3>3
  <2>9. ASSUME NEW r \in McpServers, r # s
        PROVE  (Filed(r) \subseteq session[r].made)' /\ StakeIsSmall(r)'
    <3>1. UNCHANGED <<session[r], saveStep[r]>> /\ Filed(r)' = Filed(r)
      BY <1>3, <1>6, <2>9 DEF Filed
    <3>2. Filed(r) \subseteq session[r].made /\ StakeIsSmall(r)
      BY <2>1 DEF AloneInSession
    <3>3. Stays(r)
      BY <2>2, <3>1 DEF Stays
    <3> QED
      BY <1>1, <3>2, <3>3, OthersStay
  <2>10. (Filed(s) \subseteq session[s].made)'
    BY <1>6, <2>1, <2>2 DEF AloneInSession
  <2>11. Lost' \subseteq Lost
    <3> SUFFICES ASSUME NEW x \in 1..changes', x \notin Kept' PROVE x \in 1..changes /\ x \notin Kept
      BY DEF Lost
    <3>1. x \notin session'[s].made
      BY KeptNext
    <3>2. x \in 1..changes
      <4>1. x \notin new /\ changes' = changes + n
        BY <1>2, <1>6, <3>1
      <4>2. ~(changes + 1 <= x /\ x <= changes + n)
        BY <1>4, <4>1
      <4> QED
        BY <1>5, <4>1, <4>2
    <3>3. ~\E i \in DOMAIN sessionFile : x \in sessionFile[i].made
      BY <1>3, KeptNext
    <3>4. ~\E r \in McpServers : x \in session[r].made
      <4>1. \A r \in McpServers : session[r].made \subseteq session'[r].made
        BY <1>6
      <4> QED
        BY <4>1, KeptNext
    <3>5. x \notin WithFiles
      BY <2>2, KeptNext
    <3> QED
      BY <3>2, <3>3, <3>4, <3>5, KeptElements
  <2>12. LossBounded'
    BY <1>1, <1>3, <2>1, <2>11, NoLoss
  <2> QED
    BY <1>7, <2>1, <2>8, <2>9, <2>10, <2>12 DEF AloneInSession
<1> QED
  BY <1>8, <1>9 DEF LossInv

\* The file takes all there is; no other server has that file.
LEMMA LossSaveFile ==
  ASSUME LossInv, PointerInv', NEW s \in McpServers, SaveFile(s) PROVE LossInv'
<1>1. /\ PointerInv /\ NumbersInv /\ SessionTypeOK /\ saveStep[s] = "save"
      /\ session[s].id \in SessionId
  BY DEF LossInv, PointerInv, SaveFile
<1>2. PICK i \in SessionId : i = session[s].id
  BY <1>1
<1>3. /\ sessionFile' = [j \in DOMAIN sessionFile \union {i} |->
                           IF j = i THEN session[s] ELSE sessionFile[j]]
      /\ saveStep' = [saveStep EXCEPT ![s] = "tmp"]
      /\ UNCHANGED <<latest, latestTmp, session, resetTo, doomed, changes, opened, removed, doubled, drops>>
  BY <1>2 DEF SaveFile, SaveGoes
<1>4. /\ DOMAIN sessionFile' = DOMAIN sessionFile \union {i} /\ sessionFile'[i] = session[s]
      /\ \A j \in DOMAIN sessionFile : j # i => sessionFile'[j] = sessionFile[j]
      /\ saveStep'[s] = "tmp" /\ \A r \in McpServers : r # s => saveStep'[r] = saveStep[r]
  BY <1>1, <1>3 DEF SessionTypeOK
<1>5. NumbersInv'
  <2>1. \A r \in McpServers : saveStep'[r] = "off" => session'[r] = Down
    BY <1>1, <1>3, <1>4 DEF NumbersInv
  <2>2. \A j \in DOMAIN sessionFile' : j \in DOMAIN sessionFile \/ \E r \in McpServers : j = session[r].id
    BY <1>2, <1>4
  <2> QED
    BY <1>1, <1>3, <2>1, <2>2, NumbersStay
<1>6. ASSUME ~doubled' PROVE AloneInSession' /\ LossBounded'
  <2>1. AloneInSession /\ LossBounded
    BY <1>3, <1>6 DEF LossInv
  <2>2. Filed(s)' = session[s].made
    BY <1>2, <1>3, <1>4 DEF Filed
  <2>3. AtStake(s)' = {} /\ (Filed(s) \subseteq session[s].made)'
    BY <1>3, <2>2 DEF AtStake
  <2>4. StakeIsSmall(s)'
    BY <2>3, NoStakeNext
  <2>5. i # 0
    BY SessionAssumption DEF SessionId
  <2>6. \A r \in McpServers : r # s => session[r].id # i
    BY <1>2, <2>1, <2>5 DEF AloneInSession
  <2>7. ASSUME NEW r \in McpServers, r # s
        PROVE  (Filed(r) \subseteq session[r].made)' /\ StakeIsSmall(r)'
    <3>1. session[r].id # i /\ Filed(r) \subseteq session[r].made /\ StakeIsSmall(r)
      BY <2>1, <2>6, <2>7 DEF AloneInSession
    <3>2. UNCHANGED <<session[r], saveStep[r]>>
      BY <1>3, <1>4, <2>7
    <3>3. session[r].id \in DOMAIN sessionFile <=> session[r].id \in DOMAIN sessionFile'
      BY <1>4, <3>1
    <3>4. session[r].id \in DOMAIN sessionFile =>
            sessionFile'[session[r].id].made = sessionFile[session[r].id].made
      BY <1>4, <3>1
    <3>5. Filed(r)' = Filed(r) /\ WithFiles' = WithFiles
      BY <1>3, <3>2, <3>3, <3>4, WithFilesStays DEF Filed
    <3>6. Stays(r)
      BY <3>2, <3>5 DEF Stays
    <3> QED
      BY <1>1, <3>1, <3>6, OthersStay
  <2>8. Lost' \subseteq Lost
    <3>1. ASSUME NEW x \in Kept PROVE x \in Kept'
      <4>1. ASSUME NEW j \in DOMAIN sessionFile, x \in sessionFile[j].made PROVE x \in Kept'
        <5>1. CASE j = i
          <6>1. x \in session[s].made
            BY <1>2, <2>1, <4>1, <5>1 DEF AloneInSession, Filed
          <6> QED
            BY <1>3, <6>1, KeptNext
        <5>2. CASE j # i
          <6>1. j \in DOMAIN sessionFile' /\ x \in sessionFile'[j].made
            BY <1>4, <4>1, <5>2
          <6> QED
            BY <6>1, KeptNext
        <5> QED
          BY <5>1, <5>2
      <4>2. (\E r \in McpServers : x \in session[r].made) => x \in Kept'
        BY <1>3, KeptNext
      <4>3. x \in WithFiles => x \in Kept'
        BY <1>3, WithFilesStays, KeptNext
      <4> QED
        BY <3>1, <4>1, <4>2, <4>3, KeptElements
    <3> QED
      BY <1>3, <3>1 DEF Lost
  <2>9. LossBounded'
    BY <1>1, <1>3, <2>1, <2>8, NoLoss
  <2>10. \A p, q \in McpServers : session'[p].id # 0 /\ session'[p].id = session'[q].id => p = q
    BY <1>3, <2>1 DEF AloneInSession
  <2> QED
    BY <2>3, <2>4, <2>7, <2>9, <2>10 DEF AloneInSession
<1> QED
  BY <1>5, <1>6 DEF LossInv

\* The other steps leave what the sessions hold as it is; what leaves a file is what a
\* cleanup removed.
LEMMA LossQuiet ==
  ASSUME LossInv, PointerInv', NumbersInv', NEW s \in McpServers,
         \A r \in McpServers : session'[r].id = session[r].id /\ session'[r].made = session[r].made,
         \A r \in McpServers : r # s => session'[r] = session[r],
         \A i \in DOMAIN sessionFile' : i \in DOMAIN sessionFile /\ sessionFile'[i] = sessionFile[i],
         \A i \in DOMAIN sessionFile : i \in DOMAIN sessionFile' \/ sessionFile[i].made \subseteq WithFiles',
         WithFiles \subseteq WithFiles', UNCHANGED <<changes, doubled, drops>>,
         \A r \in McpServers : r # s => \/ saveStep'[r] = saveStep[r]
                                        \/ saveStep[r] \in Pointing /\ saveStep'[r] \in Pointing,
         \/ session'[s] = session[s] /\ saveStep[s] \in {"idle", "clean"}
            /\ saveStep'[s] \in {"idle", "save", "clean"}
         \/ saveStep[s] \in Pointing /\ saveStep'[s] # "off"
  PROVE  LossInv'
<1>1. PointerInv /\ NumbersInv /\ SessionTypeOK
  BY DEF LossInv, PointerInv
<1>2. ASSUME ~doubled' PROVE AloneInSession' /\ LossBounded'
  <2>1. AloneInSession /\ LossBounded
    BY <1>2 DEF LossInv
  <2>2. ASSUME NEW r \in McpServers
        PROVE  Filed(r)' \subseteq Filed(r) /\ Filed(r) \subseteq Filed(r)' \union WithFiles'
    BY DEF Filed
  <2>3. ASSUME NEW r \in McpServers, r # s
        PROVE  (Filed(r) \subseteq session[r].made)' /\ StakeIsSmall(r)'
    <3>1. Filed(r) \subseteq session[r].made /\ StakeIsSmall(r) /\ UNCHANGED session[r]
      BY <2>1, <2>3 DEF AloneInSession
    <3>2. Stays(r)
      BY <2>2, <2>3, <3>1 DEF Stays
    <3> QED
      BY <1>1, <3>1, <3>2, OthersStay
  <2>4. (Filed(s) \subseteq session[s].made)'
    BY <2>1, <2>2 DEF AloneInSession
  <2>5. AtStake(s)' \subseteq AtStake(s)
    BY <2>2 DEF AtStake
  <2>6. StakeIsSmall(s)'
    <3>1. CASE saveStep[s] \in Pointing /\ saveStep'[s] # "off"
      <4>1. AtStake(s)' = {}
        BY <2>1, <2>5, <3>1 DEF AloneInSession, StakeIsSmall
      <4> QED
        BY <4>1, NoStakeNext
    <3>2. CASE session'[s] = session[s] /\ saveStep[s] \in {"idle", "clean"}
               /\ saveStep'[s] \in {"idle", "save", "clean"}
      <4>1. PICK D, E : D = AtStake(s) /\ E = AtStake(s)'
        OBVIOUS
      <4>2. /\ Cardinality(D) \in Nat /\ Cardinality(E) \in Nat /\ Cardinality(E) <= Cardinality(D)
        <5>1. IsFiniteSet(D) /\ E \subseteq D
          BY <1>1, <2>5, <4>1, Finites
        <5> QED
          BY <5>1, FS_Subset, FS_CardinalityType
      <4>3. Cardinality(D) <= session[s].unsaved /\ Cardinality(D) <= BatchInterval - 1
        BY <2>1, <3>2, <4>1 DEF AloneInSession, StakeIsSmall
      <4>4. session[s].unsaved \in Nat /\ BatchInterval \in Nat /\ MaxBurst \in Nat
        BY <1>1, SessionAssumption DEF SessionTypeOK, SessionData
      <4>5. Cardinality(E) <= session[s].unsaved /\ Cardinality(E) <= BatchInterval - 1
            /\ Cardinality(E) <= BatchInterval + MaxBurst - 1
        BY <4>2, <4>3, <4>4
      <4> QED
        BY <3>2, <4>1, <4>5 DEF StakeIsSmall, Pointing
    <3> QED
      BY <3>1, <3>2
  <2>7. \A p, q \in McpServers : session'[p].id # 0 /\ session'[p].id = session'[q].id => p = q
    BY <2>1 DEF AloneInSession
  <2>8. Lost' \subseteq Lost
    <3>1. ASSUME NEW x \in Kept PROVE x \in Kept'
      <4>1. (\E i \in DOMAIN sessionFile : x \in sessionFile[i].made) => x \in Kept'
        BY KeptNext
      <4>2. (\E r \in McpServers : x \in session[r].made) => x \in Kept'
        BY KeptNext
      <4>3. x \in WithFiles => x \in Kept'
        BY KeptNext
      <4> QED
        BY <3>1, <4>1, <4>2, <4>3, KeptElements
    <3> QED
      BY <3>1 DEF Lost
  <2>9. LossBounded'
    BY <1>1, <2>1, <2>8, NoLoss
  <2> QED
    BY <2>3, <2>4, <2>6, <2>7, <2>9 DEF AloneInSession
<1> QED
  BY <1>2 DEF LossInv

LEMMA LossWait ==
  ASSUME LossInv, PointerInv', NEW s \in McpServers,
         SaveAnyway(s) \/ ResetSession(s) \/ CleanUpSessions(s) \/ CutLatestTmp(s) \/ FillLatestTmp(s)
  PROVE  LossInv'
<1>1. PointerInv /\ NumbersInv /\ SessionTypeOK
  BY DEF LossInv, PointerInv
<1>2. UNCHANGED <<sessionFile, session, changes, removed, doubled, drops>>
  BY DEF SaveAnyway, ResetSession, CleanUpSessions, CutLatestTmp, FillLatestTmp
<1>3. PICK step : /\ saveStep' = [saveStep EXCEPT ![s] = step]
                  /\ \/ saveStep[s] = "idle" /\ step \in {"save", "clean"}
                     \/ saveStep[s] \in Pointing /\ step \in {"cut", "point"}
  BY DEF SaveAnyway, ResetSession, CleanUpSessions, CutLatestTmp, FillLatestTmp, SaveGoes, Pointing
<1>4. saveStep'[s] = step /\ \A r \in McpServers : r # s => saveStep'[r] = saveStep[r]
  BY <1>1, <1>3 DEF SessionTypeOK
<1>5. NumbersInv'
  <2>1. CASE ResetSession(s)
    <3>1. /\ opened' = opened + 1 /\ resetTo' = [resetTo EXCEPT ![s] = opened + 1]
          /\ saveStep' = [saveStep EXCEPT ![s] = "save"]
      BY <2>1 DEF ResetSession, SaveGoes
    <3> QED
      BY <1>1, <1>2, <3>1, NumbersGrow
  <2>2. CASE ~ResetSession(s)
    <3>1. UNCHANGED <<opened, resetTo>>
      BY <2>2 DEF SaveAnyway, CleanUpSessions, CutLatestTmp, FillLatestTmp
    <3>2. \A r \in McpServers : saveStep'[r] = "off" => session'[r] = Down
      BY <1>1, <1>2, <1>3, <1>4 DEF NumbersInv
    <3> QED
      BY <1>1, <1>2, <3>1, <3>2, NumbersStay
  <2> QED
    BY <2>1, <2>2
<1>6. WithFiles' = WithFiles
  BY <1>2, WithFilesStays
<1> QED
  BY <1>2, <1>3, <1>4, <1>5, <1>6, LossQuiet

LEMMA LossRemove ==
  ASSUME LossInv, PointerInv', NEW s \in McpServers, RemoveSession(s) PROVE LossInv'
<1>1. PointerInv /\ NumbersInv /\ SessionTypeOK /\ saveStep[s] = "clean"
  BY DEF LossInv, PointerInv, RemoveSession
<1>2. /\ sessionFile' = [i \in DOMAIN sessionFile \ {doomed[s]} |-> sessionFile[i]]
      /\ removed' = removed \union {[id |-> i, made |-> sessionFile[i].made] :
                                      i \in DOMAIN sessionFile \intersect {doomed[s]}}
      /\ saveStep' = [saveStep EXCEPT ![s] = "idle"]
      /\ UNCHANGED <<latest, latestTmp, session, resetTo, changes, opened, doubled, drops>>
  BY DEF RemoveSession, SaveGoes
<1>3. saveStep'[s] = "idle" /\ \A r \in McpServers : r # s => saveStep'[r] = saveStep[r]
  BY <1>1, <1>2 DEF SessionTypeOK
<1>4. \A i \in DOMAIN sessionFile' : i \in DOMAIN sessionFile /\ sessionFile'[i] = sessionFile[i]
  BY <1>2
<1>5. WithFiles \subseteq WithFiles'
  BY <1>2 DEF WithFiles
<1>6. ASSUME NEW i \in DOMAIN sessionFile, i \notin DOMAIN sessionFile'
      PROVE  sessionFile[i].made \subseteq WithFiles'
  <2>1. [id |-> i, made |-> sessionFile[i].made] \in removed'
    BY <1>2, <1>6
  <2> QED
    BY <2>1 DEF WithFiles
<1>7. NumbersInv'
  <2>1. \A r \in McpServers : saveStep'[r] = "off" => session'[r] = Down
    BY <1>1, <1>2, <1>3 DEF NumbersInv
  <2> QED
    BY <1>1, <1>2, <1>4, <2>1, NumbersStay
<1> QED
  BY <1>1, <1>2, <1>3, <1>4, <1>5, <1>6, <1>7, LossQuiet

LEMMA LossRename ==
  ASSUME LossInv, PointerInv', NEW s \in McpServers, RenameLatest(s) PROVE LossInv'
<1>1. /\ PointerInv /\ NumbersInv /\ SessionTypeOK /\ saveStep[s] \in Pointing
      /\ saveStep[s] \in SaveSteps
  BY DEF LossInv, PointerInv, RenameLatest, Pointing, SaveSteps
<1>2. PICK data : data = AfterSave(s, latestTmp # NoPointer)
  OBVIOUS
<1>3. /\ session' = [session EXCEPT ![s] = data] /\ resetTo' = [resetTo EXCEPT ![s] = 0]
      /\ UNCHANGED <<sessionFile, changes, opened, removed, doubled, drops>>
  BY <1>2 DEF RenameLatest
<1>4. /\ session'[s] = data /\ resetTo'[s] = 0
      /\ \A r \in McpServers : r # s => session'[r] = session[r] /\ resetTo'[r] = resetTo[r]
  BY <1>1, <1>3 DEF SessionTypeOK
<1>5. /\ saveStep'[s] = "idle"
      /\ \A r \in McpServers : r # s => \/ saveStep'[r] = saveStep[r]
                                        \/ saveStep[r] \in Pointing /\ saveStep'[r] \in Pointing
  BY <1>1, RenameGoes DEF Pointing
<1>6. \A r \in McpServers : saveStep'[r] = "off" => session'[r] = Down
  <2>1. \A r \in McpServers : saveStep'[r] = "off" => r # s /\ saveStep[r] = "off"
    BY <1>5 DEF Pointing
  <2> QED
    BY <1>1, <1>4, <2>1 DEF NumbersInv
<1>7. CASE resetTo[s] # 0
  <2>1. data.id = resetTo[s] /\ data.made = {}
    BY <1>2, <1>7 DEF AfterSave, NewSession
  <2>2. NumbersInv'
    BY <1>1, <1>3, <1>4, <1>6, <2>1, NumbersStay
  <2>3. data.id \notin DOMAIN sessionFile /\ \A r \in McpServers : session[r].id # data.id
    BY <1>1, <1>7, <2>1 DEF NumbersInv
  <2> QED
    BY <1>1, <1>3, <1>5, <2>1, <2>2, <2>3, LossReplace
<1>8. CASE ~(resetTo[s] # 0)
  <2>1. data.id = session[s].id /\ data.made = session[s].made
    <3>1. session[s] \in SessionData
      BY <1>1 DEF SessionTypeOK
    <3>2. data \in {session[s], [session[s] EXCEPT !.unsaved = 0]}
      BY <1>2, <1>8 DEF AfterSave
    <3> QED
      BY <3>1, <3>2 DEF SessionData
  <2>2. \A r \in McpServers : session'[r].id = session[r].id /\ session'[r].made = session[r].made
    BY <1>4, <2>1
  <2>3. NumbersInv'
    BY <1>1, <1>3, <1>4, <1>6, <2>2, NumbersStay
  <2>4. WithFiles' = WithFiles
    BY <1>3, WithFilesStays
  <2> QED
    BY <1>1, <1>3, <1>4, <1>5, <2>2, <2>3, <2>4, LossQuiet
<1> QED
  BY <1>7, <1>8

LEMMA LossInit == SessionInit => LossInv
<1> SUFFICES ASSUME SessionInit PROVE LossInv
  OBVIOUS
<1>1. PointerInv /\ DOMAIN sessionFile = {} /\ opened = 0 /\ changes = 0 /\ drops = 0
  BY PointerInit DEF SessionInit
<1>2. removed = {} /\ \A s \in McpServers : session[s] = Down /\ saveStep[s] = "off" /\ resetTo[s] = 0
  BY DEF SessionInit
<1>3. NumbersInv
  BY <1>1, <1>2, DownIsEmpty DEF NumbersInv
<1>4. AloneInSession
  <2>1. \A s \in McpServers : Filed(s) = {}
    BY <1>1 DEF Filed
  <2> QED
    BY <1>2, <2>1, DownIsEmpty DEF AloneInSession, StakeIsSmall, Pointing
<1>5. LossBounded
  <2>1. Lost = {}
    BY <1>1 DEF Lost
  <2>2. drops * (BatchInterval + MaxBurst - 1) = 0
    BY <1>1, SessionAssumption
  <2>3. Cardinality({}) = 0
    BY FS_EmptySet
  <2> QED
    BY <2>1, <2>2, <2>3 DEF LossBounded
<1> QED
  BY <1>1, <1>3, <1>4, <1>5 DEF LossInv

LEMMA LossNext == LossInv /\ [SessionNext]_sessionVars => LossInv'
<1> SUFFICES ASSUME LossInv, [SessionNext]_sessionVars PROVE LossInv'
  OBVIOUS
<1>1. PointerInv'
  BY PointerNext DEF LossInv
<1>2. CASE SessionNext
  BY <1>1, <1>2, LossStart, LossCall, LossLoad, LossWait, LossRemove, LossSaveFile, LossRename,
     LossKill DEF SessionNext
<1>3. CASE UNCHANGED sessionVars
  <2>1. UNCHANGED <<sessionFile, session, saveStep, resetTo, changes, opened, removed, doubled, drops>>
    BY <1>3 DEF sessionVars
  <2>2. NumbersInv'
    BY <2>1 DEF LossInv, NumbersInv
  <2>3. LossBounded => LossBounded'
    BY <2>1 DEF LossBounded, Lost, Kept
  <2>4. \A s : Filed(s)' = Filed(s) /\ AtStake(s)' = AtStake(s)
    BY <2>1 DEF Filed, AtStake, WithFiles
  <2>5. AloneInSession => AloneInSession'
    BY <2>1, <2>4 DEF AloneInSession, StakeIsSmall
  <2> QED
    BY <1>1, <2>1, <2>2, <2>3, <2>5 DEF LossInv
<1> QED
  BY <1>2, <1>3

\* As long as no two servers write one session, every kill of a server, and every session it
\* loads over its own, costs fewer changes than make a batch and what the last call added to
\* them, and a cleanup no more than it removes: a save follows each call that fills a batch,
\* and one that failed left nothing but the pointer behind (should_save, save, ctx_session).
THEOREM DropsCostABatch == SessionSpec => []DropsLoseABatch
<1>1. LossInv => DropsLoseABatch
  BY DEF LossInv, LossBounded, Lost, DropsLoseABatch
<1> QED
  BY <1>1, LossInit, LossNext, PTL DEF SessionSpec

-----------------------------------------------------------------------------
(***************************************************************************)
(* ReadCache.  A short name that an answer used is the name of its file or *)
(* of none, and the next name is new.                                      *)
(***************************************************************************)

RefInv ==
  /\ DOMAIN fileRefs \subseteq Paths /\ nextRef \in Nat \ {0}
  /\ \A p \in DOMAIN fileRefs : fileRefs[p] \in 1..(nextRef - 1)
  /\ \A p, q \in DOMAIN fileRefs : fileRefs[p] = fileRefs[q] => p = q
  /\ \A m \in named : m \in (1..(nextRef - 1)) \X Paths
  /\ \A m \in named, p \in DOMAIN fileRefs : m[1] = fileRefs[p] => m[2] = p
  /\ RefsKeepMeaning

\* A file has, or gets, a name; others may lose theirs; an answer may use it.
NamesOne(p) ==
  /\ DOMAIN fileRefs' \subseteq DOMAIN fileRefs \union {p}
  /\ \A q \in DOMAIN fileRefs' : fileRefs'[q] = IF q = p THEN RefOf(p) ELSE fileRefs[q]
  /\ Names(p)
  /\ named' \in {named, named \union {<<RefOf(p), p>>}}

LEMMA NamesOneKeeps == ASSUME RefInv, NEW p \in Paths, NamesOne(p) PROVE RefInv'
<1>1. /\ RefOf(p) \in 1..(nextRef' - 1) /\ nextRef' \in Nat \ {0} /\ nextRef <= nextRef'
      /\ p \in DOMAIN fileRefs => RefOf(p) = fileRefs[p]
      /\ p \notin DOMAIN fileRefs => RefOf(p) = nextRef
  BY DEF RefInv, NamesOne, Names, RefOf
<1>2. \A q \in DOMAIN fileRefs : q # p => fileRefs[q] # RefOf(p)
  BY <1>1 DEF RefInv
<1>3. \A m \in named : m[1] \in 1..(nextRef - 1) /\ m[2] \in Paths
  BY DEF RefInv
<1>4. \A m \in named : m[1] = RefOf(p) => m[2] = p
  BY <1>1, <1>3 DEF RefInv
<1>5. /\ DOMAIN fileRefs' \subseteq Paths
      /\ \A q \in DOMAIN fileRefs' : fileRefs'[q] \in 1..(nextRef' - 1)
      /\ \A q, r \in DOMAIN fileRefs' : fileRefs'[q] = fileRefs'[r] => q = r
  BY <1>1, <1>2 DEF RefInv, NamesOne
<1>6. \A m \in named' : \/ m \in named
                         \/ m = <<RefOf(p), p>>
  BY DEF NamesOne
<1>7. \A m \in named' : m \in (1..(nextRef' - 1)) \X Paths
  <2>1. ASSUME NEW m \in named PROVE m \in (1..(nextRef' - 1)) \X Paths
    <3>1. m \in (1..(nextRef - 1)) \X Paths /\ nextRef \in Nat
      BY DEF RefInv
    <3> QED
      BY <1>1, <3>1
  <2> QED
    BY <1>1, <1>6, <2>1
<1>8. \A m \in named', q \in DOMAIN fileRefs' : m[1] = fileRefs'[q] => m[2] = q
  <2>1. ASSUME NEW m \in named, NEW q \in DOMAIN fileRefs', m[1] = fileRefs'[q] PROVE m[2] = q
    BY <1>4, <2>1 DEF RefInv, NamesOne
  <2>2. ASSUME NEW q \in DOMAIN fileRefs', RefOf(p) = fileRefs'[q] PROVE p = q
    BY <1>2, <2>2 DEF NamesOne
  <2> QED
    BY <1>6, <2>1, <2>2
<1>9. RefsKeepMeaning'
  <2>1. ASSUME NEW m \in named', NEW n \in named', m[1] = n[1] PROVE m[2] = n[2]
    BY <1>4, <1>6, <2>1 DEF RefInv, RefsKeepMeaning
  <2> QED
    BY <2>1 DEF RefsKeepMeaning
<1> QED
  BY <1>1, <1>5, <1>7, <1>8, <1>9 DEF RefInv

\* What the cache does to the names of an entry it keeps or stores.
LEMMA KeepsNames ==
  ASSUME NEW p, NEW entries, Keeps(entries, p)
  PROVE  /\ DOMAIN fileRefs' \subseteq DOMAIN fileRefs \union {p}
         /\ \A q \in DOMAIN fileRefs' : fileRefs'[q] = IF q = p THEN RefOf(p) ELSE fileRefs[q]
BY DEF Keeps, With

LEMMA StoresNames ==
  ASSUME NEW p, NEW entries, NEW v, Stores(entries, p, v)
  PROVE  /\ DOMAIN fileRefs' \subseteq DOMAIN fileRefs \union {p}
         /\ \A q \in DOMAIN fileRefs' : fileRefs'[q] = IF q = p THEN RefOf(p) ELSE fileRefs[q]
<1>1. PICK S : fileRefs' = With(Without(fileRefs, S), p, RefOf(p))
  BY DEF Stores
<1>2. /\ DOMAIN Without(fileRefs, S) \subseteq DOMAIN fileRefs
      /\ \A q \in DOMAIN Without(fileRefs, S) : Without(fileRefs, S)[q] = fileRefs[q]
  BY DEF Without, Restrict
<1> QED
  BY <1>1, <1>2 DEF With

LEMMA ReadNames ==
  ASSUME NEW p \in Paths, NEW mode \in Modes, NEW fresh \in BOOLEAN, Read(p, mode, fresh)
  PROVE  NamesOne(p)
<1>1. \E entries, v : Keeps(entries, p) \/ Stores(entries, p, v)
  BY DEF Read, ReadMissing, ReadFullAgain, ReadDiffAgain, ReadCached
<1>2. named' = named \union {<<RefOf(p), p>>}
  BY DEF Read, ReadMissing, ReadFullAgain, ReadDiffAgain, ReadCached, Answer, Delta
<1> QED
  BY <1>1, <1>2, KeepsNames, StoresNames DEF NamesOne, Read

LEMMA RefNext == RefInv /\ [ReadNext]_readVars => RefInv'
<1> SUFFICES ASSUME RefInv, [ReadNext]_readVars PROVE RefInv'
  OBVIOUS
<1>1. ASSUME NEW p \in Paths, Prefetch(p) PROVE RefInv'
  <2>1. NamesOne(p)
    BY <1>1, KeepsNames, StoresNames DEF Prefetch, NamesOne
  <2> QED
    BY <2>1, NamesOneKeeps
<1>2. CASE ClearIdle
  <2>1. DOMAIN fileRefs' = {} /\ named' = {} /\ nextRef' = 1
    BY <1>2 DEF ClearIdle
  <2> QED
    BY <2>1 DEF RefInv, RefsKeepMeaning
<1>3. ASSUME NEW p \in Paths, Edit(p) PROVE RefInv'
  BY <1>3 DEF Edit, readHistory, RefInv, RefsKeepMeaning
<1>4. CASE UNCHANGED readVars
  BY <1>4 DEF readVars, readHistory, RefInv, RefsKeepMeaning
<1>5. ASSUME NEW p \in Paths, ListPrefetched(p) PROVE RefInv'
  <2>1. NamesOne(p)
    BY <1>5, KeepsNames DEF ListPrefetched, NamesOne
  <2> QED
    BY <2>1, NamesOneKeeps
<1> QED
  BY <1>1, <1>2, <1>3, <1>4, <1>5, ReadNames, NamesOneKeeps DEF ReadNext

\* Between two clears a short name in the answers of ctx_read never means two files: a name
\* that was dropped with its entry is not given again (get_file_ref, evict_if_needed).
THEOREM RefsStayTrue == ReadSpec => []RefsKeepMeaning
<1>1. ReadInit => RefInv
  <2> SUFFICES ASSUME ReadInit PROVE RefInv
    OBVIOUS
  <2>1. DOMAIN fileRefs = {} /\ named = {} /\ nextRef = 1
    BY DEF ReadInit
  <2> QED
    BY <2>1 DEF RefInv, RefsKeepMeaning
<1>2. RefInv => RefsKeepMeaning
  BY DEF RefInv
<1> QED
  BY <1>1, <1>2, RefNext, PTL DEF ReadSpec

-----------------------------------------------------------------------------
(***************************************************************************)
(* ReadCache again.  Every entry is held whole by the agent, or came into  *)
(* the cache by something that did not give it whole.                      *)
(***************************************************************************)

HeldInv ==
  /\ DOMAIN held = Paths
  /\ \A p \in DOMAIN cached : p \in Paths /\ (cached[p] \in held[p] \/ p \in partial)
  /\ SameIsHeld

\* Entries keep their versions, but for one file, and some may go.
EntriesBut(p) ==
  /\ DOMAIN cached' \subseteq DOMAIN cached \union {p}
  /\ \A q \in DOMAIN cached' : q # p => cached'[q] = cached[q]

LEMMA StoresEntries ==
  ASSUME NEW p \in Paths, NEW v, NEW entries, Stores(entries, p, v),
         entries \in {cached, Without(cached, {p})}
  PROVE  EntriesBut(p) /\ p \in DOMAIN cached' /\ cached'[p] = v
<1>1. PICK S : cached' = With(Without(entries, S), p, v)
  BY DEF Stores
<1>2. DOMAIN entries \subseteq DOMAIN cached /\ \A q \in DOMAIN entries : entries[q] = cached[q]
  BY DEF Without, Restrict
<1>3. /\ DOMAIN Without(entries, S) \subseteq DOMAIN entries
      /\ \A q \in DOMAIN Without(entries, S) : Without(entries, S)[q] = entries[q]
  BY DEF Without, Restrict
<1> QED
  BY <1>1, <1>2, <1>3 DEF With, EntriesBut

LEMMA WithoutEntry ==
  ASSUME NEW p, cached' = Without(cached, {p})
  PROVE  EntriesBut(p) /\ p \notin DOMAIN cached'
BY DEF Without, Restrict, EntriesBut

\* The version of p that is cached after a step is held, or p is partial, and an answer
\* that nothing changed is about such a version.
LEMMA HeldStep ==
  ASSUME HeldInv, NEW p \in Paths, EntriesBut(p),
         \/ UNCHANGED <<held, partial>>
         \/ UNCHANGED held /\ partial' = partial \union {p}
         \/ \E v : Gives(p, v),
         p \in DOMAIN cached' => cached'[p] \in held'[p] \/ p \in partial',
         SameIsHeld'
  PROVE  HeldInv'
<1>1. DOMAIN held' = Paths
  BY DEF HeldInv, Gives
<1>2. ASSUME NEW q \in DOMAIN cached', q # p
      PROVE  q \in Paths /\ (cached'[q] \in held'[q] \/ q \in partial')
  BY <1>2 DEF HeldInv, EntriesBut, Gives
<1> QED
  BY <1>1, <1>2 DEF HeldInv, EntriesBut

\* An answer that gives the version of p in the cache.
LEMMA GivesKeeps ==
  ASSUME HeldInv, NEW p \in Paths, NEW v, NEW kind, kind # "same", EntriesBut(p), Gives(p, v),
         Answer(kind, p, v), p \in DOMAIN cached' => cached'[p] = v
  PROVE  HeldInv'
<1>1. v \in held'[p]
  BY DEF Gives, HeldInv
<1>2. SameIsHeld'
  BY DEF SameIsHeld, Answer
<1> QED
  BY <1>1, <1>2, HeldStep

\* An answer that gives nothing, and does not call an unheld version unchanged.
LEMMA GivesNothingKeeps ==
  ASSUME HeldInv, NEW p \in Paths, NEW v, NEW kind, EntriesBut(p), GivesNothing,
         Answer(kind, p, v),
         p \in DOMAIN cached' => cached'[p] \in held[p] \/ p \in partial,
         kind = "same" => v \in held[p] \/ p \in partial
  PROVE  HeldInv'
<1>1. SameIsHeld'
  BY DEF SameIsHeld, Answer, GivesNothing
<1> QED
  BY <1>1, HeldStep DEF GivesNothing

LEMMA KeepsEntries ==
  ASSUME NEW p, Keeps(cached, p)
  PROVE  EntriesBut(p) /\ cached' = cached
BY DEF Keeps, EntriesBut

LEMMA DeltaKeeps ==
  ASSUME HeldInv, NEW p \in Paths, NEW v, p \in DOMAIN cached, EntriesBut(p),
         p \in DOMAIN cached' /\ cached'[p] = v, Delta(p, v)
  PROVE  HeldInv'
<1>1. CASE cached[p] \in held[p]
  BY <1>1, GivesKeeps DEF Delta
<1>2. CASE cached[p] \notin held[p]
  <2>1. p \in partial
    BY <1>2 DEF HeldInv
  <2> QED
    BY <1>2, <2>1, GivesNothingKeeps DEF Delta
<1> QED
  BY <1>1, <1>2

LEMMA HeldMissing ==
  ASSUME HeldInv, NEW p \in Paths, NEW mode, ReadMissing(p, mode) PROVE HeldInv'
<1> DEFINE entries == Without(cached, {p})
<1>1. CASE Keeps(entries, p) /\ Answer("error", p, 0) /\ GivesNothing
  <2>1. EntriesBut(p) /\ p \notin DOMAIN cached'
    BY <1>1, WithoutEntry DEF Keeps
  <2> QED
    BY <1>1, <2>1, GivesNothingKeeps
<1>2. CASE /\ Stores(entries, p, onDisk[p]) /\ Answer("content", p, onDisk[p])
           /\ Gives(p, onDisk[p])
  <2>1. EntriesBut(p) /\ cached'[p] = onDisk[p]
    BY <1>2, StoresEntries
  <2> QED
    BY <1>2, <2>1, GivesKeeps
<1>3. CASE /\ Stores(entries, p, onDisk[p]) /\ Answer("compressed", p, onDisk[p])
           /\ partial' = partial \union {p} /\ UNCHANGED held
  <2>1. EntriesBut(p)
    BY <1>3, StoresEntries
  <2>2. SameIsHeld'
    BY <1>3 DEF SameIsHeld, Answer
  <2> QED
    BY <1>3, <2>1, <2>2, HeldStep
<1> QED
  BY <1>1, <1>2, <1>3 DEF ReadMissing

LEMMA HeldFullAgain ==
  ASSUME HeldInv, NEW p \in Paths, p \in DOMAIN cached, ReadFullAgain(p) PROVE HeldInv'
<1>0. cached[p] \in held[p] \/ p \in partial
  BY DEF HeldInv
<1>1. CASE Keeps(cached, p) /\ Answer("unread", p, cached[p]) /\ GivesNothing
  BY <1>0, <1>1, KeepsEntries, GivesNothingKeeps
<1>2. ASSUME Stores(cached, p, onDisk[p])
      PROVE  EntriesBut(p) /\ p \in DOMAIN cached' /\ cached'[p] = onDisk[p]
  BY <1>2, StoresEntries
<1>3. CASE Stores(cached, p, onDisk[p]) /\ Same(p) /\ Answer("same", p, onDisk[p]) /\ GivesNothing
  BY <1>0, <1>2, <1>3, GivesNothingKeeps DEF Same
<1>4. CASE Stores(cached, p, onDisk[p]) /\ Delta(p, onDisk[p])
  BY <1>2, <1>4, DeltaKeeps
<1>5. CASE Stores(cached, p, onDisk[p]) /\ Answer("content", p, onDisk[p]) /\ Gives(p, onDisk[p])
  BY <1>2, <1>5, GivesKeeps
<1> QED
  BY <1>1, <1>3, <1>4, <1>5 DEF ReadFullAgain

LEMMA HeldDiffAgain ==
  ASSUME HeldInv, NEW p \in Paths, p \in DOMAIN cached, ReadDiffAgain(p) PROVE HeldInv'
<1>0. cached[p] \in held[p] \/ p \in partial
  BY DEF HeldInv
<1>1. CASE Keeps(cached, p) /\ Answer("error", p, 0) /\ GivesNothing
  BY <1>0, <1>1, KeepsEntries, GivesNothingKeeps
<1>2. CASE Stores(cached, p, onDisk[p]) /\ Delta(p, onDisk[p])
  BY <1>2, StoresEntries, DeltaKeeps
<1> QED
  BY <1>1, <1>2 DEF ReadDiffAgain

LEMMA HeldCached ==
  ASSUME HeldInv, NEW p \in Paths, p \in DOMAIN cached, NEW mode, ReadCached(p, mode) PROVE HeldInv'
<1>0. EntriesBut(p) /\ cached' = cached /\ (cached[p] \in held[p] \/ p \in partial)
  BY KeepsEntries DEF ReadCached, HeldInv
<1>1. CASE Answer("compressed", p, cached[p]) /\ GivesNothing
  BY <1>0, <1>1, GivesNothingKeeps
<1>2. CASE Answer("content", p, cached[p]) /\ Gives(p, cached[p])
  BY <1>0, <1>2, GivesKeeps
<1> QED
  BY <1>1, <1>2 DEF ReadCached

LEMMA HeldNext == HeldInv /\ [ReadNext]_readVars => HeldInv'
<1> SUFFICES ASSUME HeldInv, [ReadNext]_readVars PROVE HeldInv'
  OBVIOUS
<1>1. ASSUME NEW p \in Paths, NEW mode \in Modes, NEW fresh \in BOOLEAN, Read(p, mode, fresh)
      PROVE  HeldInv'
  BY <1>1, HeldMissing, HeldFullAgain, HeldDiffAgain, HeldCached DEF Read
<1>2. ASSUME NEW p \in Paths, Prefetch(p) PROVE HeldInv'
  <2>0. SameIsHeld'
    BY <1>2 DEF Prefetch, SameIsHeld, HeldInv
  <2>1. CASE Keeps(cached, p) /\ UNCHANGED partial
    <3>1. UNCHANGED <<cached, held, partial>>
      BY <1>2, <2>1 DEF Prefetch, Keeps
    <3> QED
      BY <2>0, <3>1 DEF HeldInv
  <2>2. CASE Stores(cached, p, onDisk[p]) /\ partial' = partial \union {p}
    <3>1. EntriesBut(p)
      BY <2>2, StoresEntries
    <3> QED
      BY <1>2, <2>0, <2>2, <3>1, HeldStep DEF Prefetch
  <2> QED
    BY <1>2, <2>1, <2>2 DEF Prefetch
<1>3. ASSUME NEW p \in Paths, Edit(p) PROVE HeldInv'
  BY <1>3 DEF Edit, readHistory, HeldInv, SameIsHeld
<1>4. CASE ClearIdle
  <2>1. DOMAIN cached' = {}
    BY <1>4 DEF ClearIdle
  <2> QED
    BY <1>4, <2>1 DEF ClearIdle, HeldInv, SameIsHeld
<1>5. CASE UNCHANGED readVars
  BY <1>5 DEF readVars, readHistory, HeldInv, SameIsHeld
<1>6. ASSUME NEW p \in Paths, ListPrefetched(p) PROVE HeldInv'
  BY <1>6 DEF ListPrefetched, Keeps, HeldInv, SameIsHeld
<1> QED
  BY <1>1, <1>2, <1>3, <1>4, <1>5, <1>6 DEF ReadNext

\* Whatever was read in which mode, edited, evicted or prefetched, ctx_read calls a file
\* unchanged only at a version the agent has, or when something that did not show the
\* file has cached it since (handle_full_with_auto_delta, store).
THEOREM SameStaysHeld == ReadSpec => []SameIsHeld
<1>1. ReadInit => HeldInv
  <2> SUFFICES ASSUME ReadInit PROVE HeldInv
    OBVIOUS
  <2>1. DOMAIN cached = {} /\ DOMAIN held = Paths /\ answer.kind = "none"
    BY DEF ReadInit, NoAnswer
  <2> QED
    BY <2>1 DEF HeldInv, SameIsHeld
<1>2. HeldInv => SameIsHeld
  BY DEF HeldInv
<1> QED
  BY <1>1, <1>2, HeldNext, PTL DEF ReadSpec

-----------------------------------------------------------------------------
(***************************************************************************)
(* ReadCache once more.  The entries have their sizes, and as long as none *)
(* outgrew its place the cache fits.                                       *)
(***************************************************************************)

\* Entries as the cache may hold them.
Sized(entries) ==
  /\ DOMAIN entries \subseteq Paths /\ \A q \in DOMAIN entries : entries[q] \in Nat
  /\ outgrown \/ Tokens(entries, DOMAIN entries) <= MaxTokens

FitsInv == Sized(cached) /\ \A q \in Paths : onDisk[q] \in Nat

LEMMA EntriesFinite ==
  ASSUME NEW entries, Sized(entries)
  PROVE  IsFiniteSet(DOMAIN entries) /\ \A q \in DOMAIN entries : entries[q] \in Int
BY FS_Subset, ReadCacheAssumption DEF Sized

\* Without an entry, the rest fits as before.
LEMMA WithoutFits ==
  ASSUME Sized(cached), NEW p
  PROVE  Sized(Without(cached, {p}))
<1>1. PICK f, e, D, R : f = cached /\ e = Without(cached, {p}) /\ D = DOMAIN f /\ R = D \ {p}
  OBVIOUS
<1>2. DOMAIN e = R /\ \A q \in R : e[q] = f[q]
  BY <1>1 DEF Without, Restrict
<1>3. IsFiniteSet(D) /\ \A q \in D : f[q] \in Int /\ f[q] >= 0
  BY <1>1, EntriesFinite DEF Sized
<1>4. SumFunctionOnSet(e, R) = SumFunctionOnSet(f, R)
  <2>1. IsFiniteSet(R) /\ \A q \in R : e[q] = f[q]
    BY <1>1, <1>2, <1>3, FS_Subset
  <2> QED
    BY <2>1, SumSame
<1>5. SumFunctionOnSet(f, R) <= SumFunctionOnSet(f, D)
  <2>1. CASE p \in D
    <3>1. SumFunctionOnSet(f, D) = f[p] + SumFunctionOnSet(f, R)
      BY <1>1, <1>3, <2>1, SumLess
    <3>2. SumFunctionOnSet(f, R) \in Int
      BY <1>1, <1>3, SumIsInt
    <3> QED
      BY <1>3, <2>1, <3>1, <3>2
  <2>2. CASE p \notin D
    <3>1. R = D /\ SumFunctionOnSet(f, D) \in Int
      BY <1>1, <1>3, <2>2, SumIsInt
    <3> QED
      BY <3>1
  <2> QED
    BY <2>1, <2>2
<1>6. SumFunctionOnSet(f, R) \in Int /\ SumFunctionOnSet(f, D) \in Int /\ MaxTokens \in Int
  BY <1>1, <1>3, SumIsInt, ReadCacheAssumption
<1>7. outgrown \/ SumFunctionOnSet(f, D) <= MaxTokens
  BY <1>1 DEF Sized, Tokens
<1>8. outgrown \/ SumFunctionOnSet(e, R) <= MaxTokens
  BY <1>4, <1>5, <1>6, <1>7
<1>9. R \subseteq Paths /\ \A q \in R : e[q] \in Nat
  BY <1>1, <1>2 DEF Sized
<1> QED
  BY <1>1, <1>2, <1>8, <1>9 DEF Sized, Tokens

\* What is stored fits in the room that was made for it.
LEMMA StoresFits ==
  ASSUME NEW entries, Sized(entries), NEW p \in Paths, NEW v \in Nat, Stores(entries, p, v)
  PROVE  Sized(cached)'
<1>1. PICK f, D : f = entries /\ D = DOMAIN f
  OBVIOUS
<1>2. PICK S \in (IF p \in D THEN {{}} ELSE Evictable(entries, v)) :
        cached' = With(Without(entries, S), p, v)
  BY <1>1 DEF Stores
<1>3. PICK e, R : e = cached' /\ R = D \ S
  OBVIOUS
<1>4. /\ DOMAIN e = R \union {p} /\ e[p] = v
      /\ \A q \in R : q # p => e[q] = f[q]
  BY <1>1, <1>2, <1>3 DEF With, Without, Restrict
<1>5. IsFiniteSet(D) /\ \A q \in D : f[q] \in Nat /\ f[q] \in Int
  BY <1>1, EntriesFinite DEF Sized
<1>6. DOMAIN e \subseteq Paths /\ \A q \in DOMAIN e : e[q] \in Nat
  BY <1>1, <1>3, <1>4, <1>5 DEF Sized
<1>7. ASSUME ~outgrown' PROVE SumFunctionOnSet(e, R \union {p}) <= MaxTokens
  <2>1. ~outgrown /\ v <= MaxTokens /\ (p \in D => v <= f[p])
    <3>1. ~(outgrown \/ v > MaxTokens \/ (p \in D /\ v > f[p]))
      BY <1>1, <1>7, Zenon DEF Stores
    <3>2. p \in D => f[p] \in Nat
      BY <1>5
    <3>3. ~outgrown /\ ~(v > MaxTokens) /\ (p \in D => ~(v > f[p]))
      BY <3>1, Zenon
    <3> QED
      BY <3>2, <3>3, ReadCacheAssumption
  <2>2. SumFunctionOnSet(f, D) <= MaxTokens
    BY <1>1, <2>1 DEF Sized, Tokens
  <2>3. MaxTokens \in Int /\ v \in Int /\ \A T \in SUBSET D : SumFunctionOnSet(f, T) \in Int
    BY <1>5, SumIsInt, ReadCacheAssumption
  <2>4. CASE p \in D
    <3>1. S = {} /\ R \union {p} = D
      BY <1>2, <1>3, <2>4
    <3>2. \A q \in D : e[q] \in Int /\ f[q] \in Int
      BY <1>4, <1>5, <1>6, <3>1
    <3>3. SumFunctionOnSet(e, D) = SumFunctionOnSet(f, D) + (e[p] - f[p])
      <4>1. \A q \in D : q # p => f[q] = e[q]
        BY <1>3, <1>4, <3>1
      <4>2. IsFiniteSet(D)
        BY <1>5
      <4> QED
        BY <2>4, <3>2, <4>1, <4>2, SumChanges
    <3>4. SumFunctionOnSet(f, D) \in Int /\ f[p] \in Int /\ e[p] = v /\ v <= f[p]
      BY <1>4, <1>5, <2>1, <2>3, <2>4
    <3>5. SumFunctionOnSet(e, D) <= MaxTokens
      BY <2>2, <2>3, <3>3, <3>4
    <3> QED
      BY <3>1, <3>5
  <2>5. CASE p \notin D
    <3>1. S \in SUBSET D /\ (Tokens(entries, S) >= Surplus(entries, v) \/ S = D)
      BY <1>1, <1>2, <2>5 DEF Evictable
    <3>2. SumFunctionOnSet(f, S) >= SumFunctionOnSet(f, D) + v - MaxTokens \/ S = D
      BY <1>1, <3>1 DEF Surplus, Tokens
    <3>3. PICK U : U = R \union {p}
      OBVIOUS
    <3>4. p \in U /\ U \ {p} = R /\ IsFiniteSet(R) /\ IsFiniteSet(U)
      BY <1>3, <1>5, <2>5, <3>3, FS_Subset, FS_AddElement
    <3>5. \A q \in U : e[q] \in Int
      BY <1>4, <1>6, <3>3
    <3>6. SumFunctionOnSet(e, U) = e[p] + SumFunctionOnSet(e, R)
      BY <3>4, <3>5, SumLess
    <3>7. SumFunctionOnSet(e, R) = SumFunctionOnSet(f, R)
      <4>1. \A q \in R : e[q] = f[q]
        BY <1>3, <1>4, <2>5
      <4> QED
        BY <3>4, <4>1, SumSame
    <3>8. SumFunctionOnSet(f, D) = SumFunctionOnSet(f, S) + SumFunctionOnSet(f, R)
      BY <1>3, <1>5, <3>1, SumSplits
    <3>9. SumFunctionOnSet(f, R) \in Int /\ SumFunctionOnSet(f, S) \in Int
      BY <1>3, <2>3, <3>1
    <3>10. CASE S = D
      <4>1. R = {} /\ SumFunctionOnSet(f, R) = 0
        BY <1>3, <3>10, SumEmpty
      <4> QED
        BY <1>4, <2>1, <2>3, <3>3, <3>6, <3>7, <4>1
    <3>11. CASE SumFunctionOnSet(f, S) >= SumFunctionOnSet(f, D) + v - MaxTokens
      BY <1>4, <2>3, <3>3, <3>6, <3>7, <3>8, <3>9, <3>11
    <3> QED
      BY <3>2, <3>10, <3>11
  <2> QED
    BY <2>4, <2>5
<1> QED
  BY <1>3, <1>4, <1>6, <1>7 DEF Sized, Tokens

LEMMA FitsNext == FitsInv /\ [ReadNext]_readVars => FitsInv'
<1> SUFFICES ASSUME FitsInv, [ReadNext]_readVars PROVE FitsInv'
  OBVIOUS
<1>1. Sized(cached) /\ \A q \in Paths : onDisk[q] \in Nat
  BY DEF FitsInv
<1>2. ASSUME NEW entries, Sized(entries), NEW p \in Paths, Stores(entries, p, onDisk[p])
      PROVE  Sized(cached)'
  BY <1>1, <1>2, StoresFits
<1>3. ASSUME NEW entries, Sized(entries), NEW p \in Paths, Keeps(entries, p)
      PROVE  Sized(cached)'
  BY <1>3 DEF Keeps, Sized
<1>4. ASSUME NEW p \in Paths, NEW mode \in Modes, NEW fresh \in BOOLEAN, Read(p, mode, fresh)
      PROVE  FitsInv'
  <2>1. Sized(Without(cached, {p}))
    BY <1>1, WithoutFits
  <2>2. Sized(cached)'
    <3>1. ReadMissing(p, mode) => Sized(cached)'
      BY <1>2, <1>3, <2>1 DEF ReadMissing
    <3>2. ReadFullAgain(p) \/ ReadDiffAgain(p) \/ ReadCached(p, mode) => Sized(cached)'
      BY <1>1, <1>2, <1>3 DEF ReadFullAgain, ReadDiffAgain, ReadCached
    <3> QED
      BY <1>4, <3>1, <3>2 DEF Read
  <2> QED
    BY <1>1, <1>4, <2>2 DEF Read, FitsInv
<1>5. ASSUME NEW p \in Paths, Prefetch(p) \/ ListPrefetched(p) PROVE FitsInv'
  <2>1. Sized(cached)'
    BY <1>1, <1>2, <1>3, <1>5 DEF Prefetch, ListPrefetched
  <2> QED
    BY <1>1, <1>5, <2>1 DEF Prefetch, ListPrefetched, FitsInv
<1>6. ASSUME NEW p \in Paths, Edit(p) PROVE FitsInv'
  <2>1. PICK u \in 0..MaxVersion : onDisk' = [onDisk EXCEPT ![p] = u]
    BY <1>6 DEF Edit
  <2>2. UNCHANGED <<cached, outgrown>> /\ u \in Nat
    BY <1>6, ReadCacheAssumption DEF Edit, readHistory
  <2>3. \A q \in Paths : onDisk'[q] \in Nat
    BY <1>1, <2>1, <2>2
  <2> QED
    BY <1>1, <2>2, <2>3 DEF FitsInv, Sized, Tokens
<1>7. CASE ClearIdle
  <2>1. DOMAIN cached' = {} /\ UNCHANGED onDisk
    BY <1>7 DEF ClearIdle
  <2>2. SumFunctionOnSet(cached', {}) <= MaxTokens
    BY SumEmpty, ReadCacheAssumption
  <2> QED
    BY <1>1, <2>1, <2>2 DEF FitsInv, Sized, Tokens
<1>8. CASE UNCHANGED readVars
  BY <1>1, <1>8 DEF readVars, readHistory, FitsInv, Sized, Tokens
<1> QED
  BY <1>4, <1>5, <1>6, <1>7, <1>8 DEF ReadNext

\* However entries come, go and change, the cache keeps to its limit of tokens as long as
\* no cached file grew and no file alone exceeds it: what is evicted for a new entry makes
\* room for all of it (evict_if_needed, store).
THEOREM CacheStaysSmall == ReadSpec => []CacheFits
<1>1. ReadInit => FitsInv
  <2> SUFFICES ASSUME ReadInit PROVE FitsInv
    OBVIOUS
  <2>1. DOMAIN cached = {} /\ \A q \in Paths : onDisk[q] = 1
    BY DEF ReadInit
  <2>2. SumFunctionOnSet(cached, {}) <= MaxTokens
    BY SumEmpty, ReadCacheAssumption
  <2> QED
    BY <2>1, <2>2 DEF FitsInv, Sized, Tokens
<1>2. FitsInv => CacheFits
  BY DEF FitsInv, Sized, CacheFits
<1> QED
  BY <1>1, <1>2, FitsNext, PTL DEF ReadSpec

-----------------------------------------------------------------------------
(***************************************************************************)
(* The types of the read cache.                                            *)
(***************************************************************************)

ReadTypeInv ==
  /\ onDisk \in [Paths -> 0..MaxVersion]
  /\ \A p \in DOMAIN cached : p \in Paths /\ cached[p] \in Versions
  /\ held \in [Paths -> SUBSET Versions] /\ partial \subseteq Paths /\ outgrown \in BOOLEAN
  /\ answer = NoAnswer \/ answer \in Answers

\* What a read of p does: one version of it is cached or given, or none.
ReadsOne(p, v) ==
  /\ EntriesBut(p) /\ (p \in DOMAIN cached' => cached'[p] = v)
  /\ held' \in {held, [held EXCEPT ![p] = @ \union {v}]}
  /\ partial' \in {partial, partial \union {p}, partial \ {p}}
  /\ outgrown' \in BOOLEAN

AnswersOne(p) ==
  \E kind \in Kinds, w \in 0..MaxVersion : answer' = [kind |-> kind, path |-> p, version |-> w]

LEMMA StoresOne ==
  ASSUME ReadTypeInv, NEW p \in Paths, NEW v, NEW entries, Stores(entries, p, v),
         entries \in {cached, Without(cached, {p})}
  PROVE  EntriesBut(p) /\ cached'[p] = v /\ outgrown' \in BOOLEAN
<1>1. outgrown' \in BOOLEAN
  BY DEF Stores, ReadTypeInv
<1> QED
  BY <1>1, StoresEntries

LEMMA KeepsOne ==
  ASSUME ReadTypeInv, NEW p, Keeps(cached, p)
  PROVE  EntriesBut(p) /\ cached' = cached /\ outgrown' \in BOOLEAN
BY DEF Keeps, EntriesBut, ReadTypeInv

LEMMA DeltaReads ==
  ASSUME ReadTypeInv, NEW p \in Paths, NEW v \in Versions, Delta(p, v),
         EntriesBut(p), cached'[p] = v, outgrown' \in BOOLEAN
  PROVE  ReadsOne(p, v) /\ AnswersOne(p)
<1>1. "delta" \in Kinds /\ v \in 0..MaxVersion
  BY ReadCacheAssumption DEF Kinds, Versions
<1>2. AnswersOne(p)
  BY <1>1 DEF Delta, Answer, AnswersOne
<1> QED
  BY <1>2 DEF Delta, Gives, GivesNothing, ReadsOne

LEMMA MissingReads ==
  ASSUME ReadTypeInv, NEW p \in Paths, NEW mode, ReadMissing(p, mode)
  PROVE  \E v \in Versions : ReadsOne(p, v) /\ AnswersOne(p)
<1> DEFINE entries == Without(cached, {p})
<1>0. /\ {"error", "content", "compressed"} \subseteq Kinds
      /\ 0 \in 0..MaxVersion /\ 1 \in Versions /\ onDisk[p] \in 0..MaxVersion
      /\ onDisk[p] # 0 => onDisk[p] \in Versions
  BY ReadCacheAssumption DEF Kinds, Versions, ReadTypeInv
<1>1. CASE Keeps(entries, p) /\ Answer("error", p, 0) /\ GivesNothing
  <2>1. EntriesBut(p) /\ p \notin DOMAIN cached' /\ outgrown' \in BOOLEAN
    BY <1>1, WithoutEntry DEF Keeps, ReadTypeInv
  <2>2. ReadsOne(p, 1) /\ AnswersOne(p)
    BY <1>0, <1>1, <2>1 DEF GivesNothing, ReadsOne, Answer, AnswersOne
  <2> QED
    BY <1>0, <2>2
<1>2. CASE /\ onDisk[p] # 0 /\ Stores(entries, p, onDisk[p]) /\ Answer("content", p, onDisk[p])
           /\ Gives(p, onDisk[p])
  <2>1. EntriesBut(p) /\ cached'[p] = onDisk[p] /\ outgrown' \in BOOLEAN
    BY <1>2, StoresOne
  <2>2. ReadsOne(p, onDisk[p]) /\ AnswersOne(p)
    BY <1>0, <1>2, <2>1 DEF Gives, ReadsOne, Answer, AnswersOne
  <2> QED
    BY <1>0, <1>2, <2>2
<1>3. CASE /\ onDisk[p] # 0 /\ Stores(entries, p, onDisk[p]) /\ Answer("compressed", p, onDisk[p])
           /\ partial' = partial \union {p} /\ UNCHANGED held
  <2>1. EntriesBut(p) /\ cached'[p] = onDisk[p] /\ outgrown' \in BOOLEAN
    BY <1>3, StoresOne
  <2>2. ReadsOne(p, onDisk[p]) /\ AnswersOne(p)
    BY <1>0, <1>3, <2>1 DEF ReadsOne, Answer, AnswersOne
  <2> QED
    BY <1>0, <1>3, <2>2
<1> QED
  BY <1>1, <1>2, <1>3 DEF ReadMissing

LEMMA AgainReads ==
  ASSUME ReadTypeInv, NEW p \in Paths, p \in DOMAIN cached, NEW mode,
         ReadFullAgain(p) \/ ReadDiffAgain(p) \/ ReadCached(p, mode)
  PROVE  \E v \in Versions : ReadsOne(p, v) /\ AnswersOne(p)
<1>0. /\ {"unread", "error", "same", "content", "compressed"} \subseteq Kinds
      /\ 0 \in 0..MaxVersion /\ onDisk[p] \in 0..MaxVersion
      /\ onDisk[p] # 0 => onDisk[p] \in Versions
      /\ cached[p] \in Versions /\ cached[p] \in 0..MaxVersion
  BY ReadCacheAssumption DEF Kinds, Versions, ReadTypeInv
<1>1. ASSUME NEW kind \in Kinds, NEW w \in 0..MaxVersion, Keeps(cached, p), Answer(kind, p, w),
             GivesNothing \/ Gives(p, cached[p])
      PROVE  \E v \in Versions : ReadsOne(p, v) /\ AnswersOne(p)
  <2>1. EntriesBut(p) /\ cached' = cached /\ outgrown' \in BOOLEAN
    BY <1>1, KeepsOne
  <2>2. ReadsOne(p, cached[p])
    BY <1>1, <2>1 DEF GivesNothing, Gives, ReadsOne
  <2>3. AnswersOne(p)
    BY <1>1 DEF Answer, AnswersOne
  <2> QED
    BY <1>0, <2>2, <2>3
<1>2. ASSUME onDisk[p] # 0, Stores(cached, p, onDisk[p]),
             \/ Delta(p, onDisk[p])
             \/ \E kind \in Kinds : /\ Answer(kind, p, onDisk[p])
                                    /\ GivesNothing \/ Gives(p, onDisk[p])
      PROVE  \E v \in Versions : ReadsOne(p, v) /\ AnswersOne(p)
  <2>1. EntriesBut(p) /\ cached'[p] = onDisk[p] /\ outgrown' \in BOOLEAN
    BY <1>2, StoresOne
  <2>2. CASE Delta(p, onDisk[p])
    BY <1>0, <1>2, <2>1, <2>2, DeltaReads
  <2>3. ASSUME NEW kind \in Kinds, Answer(kind, p, onDisk[p]), GivesNothing \/ Gives(p, onDisk[p])
        PROVE  ReadsOne(p, onDisk[p]) /\ AnswersOne(p)
    BY <1>0, <2>1, <2>3 DEF GivesNothing, Gives, ReadsOne, Answer, AnswersOne
  <2> QED
    BY <1>0, <1>2, <2>2, <2>3
<1>3. CASE ReadFullAgain(p)
  BY <1>0, <1>1, <1>2, <1>3 DEF ReadFullAgain
<1>4. CASE ReadDiffAgain(p)
  BY <1>0, <1>1, <1>2, <1>4 DEF ReadDiffAgain
<1>5. CASE ReadCached(p, mode)
  BY <1>0, <1>1, <1>5 DEF ReadCached
<1> QED
  BY <1>3, <1>4, <1>5

LEMMA ReadsOneKeeps ==
  ASSUME ReadTypeInv, NEW p \in Paths, NEW v \in Versions, ReadsOne(p, v),
         onDisk' = onDisk, answer' = answer \/ AnswersOne(p)
  PROVE  ReadTypeInv'
<1>1. answer' = NoAnswer \/ answer' \in Answers
  BY DEF AnswersOne, Answers, ReadTypeInv
<1>2. \A q \in DOMAIN cached' : q \in Paths /\ cached'[q] \in Versions
  BY DEF ReadsOne, EntriesBut, ReadTypeInv
<1>3. held' \in [Paths -> SUBSET Versions] /\ partial' \subseteq Paths
  BY DEF ReadsOne, ReadTypeInv
<1>4. outgrown' \in BOOLEAN
  BY DEF ReadsOne
<1> QED
  BY <1>1, <1>2, <1>3, <1>4 DEF ReadTypeInv

LEMMA ReadTypeStep == ReadTypeInv /\ [ReadNext]_readVars => ReadTypeInv'
<1> SUFFICES ASSUME ReadTypeInv, [ReadNext]_readVars PROVE ReadTypeInv'
  OBVIOUS
<1>1. ASSUME NEW p \in Paths, NEW mode \in Modes, NEW fresh \in BOOLEAN, Read(p, mode, fresh)
      PROVE  ReadTypeInv'
  <2>1. \E v \in Versions : ReadsOne(p, v) /\ AnswersOne(p)
    BY <1>1, MissingReads, AgainReads DEF Read
  <2>2. onDisk' = onDisk
    BY <1>1 DEF Read
  <2> QED
    BY <2>1, <2>2, ReadsOneKeeps
<1>2. ASSUME NEW p \in Paths, Prefetch(p) PROVE ReadTypeInv'
  <2>1. onDisk[p] \in Versions /\ UNCHANGED <<onDisk, answer>>
    BY <1>2, ReadCacheAssumption DEF Prefetch, ReadTypeInv, Versions
  <2>2. CASE Keeps(cached, p) /\ UNCHANGED partial
    <3>1. UNCHANGED <<onDisk, answer, cached, held, partial, outgrown>>
      BY <1>2, <2>2 DEF Prefetch, Keeps
    <3> QED
      BY <3>1 DEF ReadTypeInv
  <2>3. CASE Stores(cached, p, onDisk[p]) /\ partial' = partial \union {p}
    <3>1. EntriesBut(p) /\ cached'[p] = onDisk[p] /\ outgrown' \in BOOLEAN
      BY <2>1, <2>3, StoresOne
    <3>2. ReadsOne(p, onDisk[p])
      BY <1>2, <2>3, <3>1 DEF Prefetch, ReadsOne
    <3> QED
      BY <2>1, <3>2, ReadsOneKeeps
  <2> QED
    BY <1>2, <2>2, <2>3 DEF Prefetch
<1>3. ASSUME NEW p \in Paths, Edit(p) PROVE ReadTypeInv'
  BY <1>3 DEF Edit, readHistory, ReadTypeInv
<1>4. CASE ClearIdle
  <2>1. DOMAIN cached' = {}
    BY <1>4 DEF ClearIdle
  <2> QED
    BY <1>4, <2>1 DEF ClearIdle, ReadTypeInv
<1>5. CASE UNCHANGED readVars
  BY <1>5 DEF readVars, readHistory, ReadTypeInv
<1>6. ASSUME NEW p \in Paths, ListPrefetched(p) PROVE ReadTypeInv'
  BY <1>6 DEF ListPrefetched, Keeps, ReadTypeInv
<1> QED
  BY <1>1, <1>2, <1>3, <1>4, <1>5, <1>6 DEF ReadNext

\* What is counted, and what a prefetch has yet to name.
UsesInv ==
  /\ reads \in 0..MaxReads /\ clears \in 0..MaxClears
  /\ prefetched \subseteq Paths /\ listing \in BOOLEAN

LEMMA ReadCounts ==
  UsesInv /\ [ReadNext]_readVars => UsesInv'
<1> SUFFICES ASSUME UsesInv, [ReadNext]_readVars PROVE UsesInv'
  OBVIOUS
<1>1. reads' = reads \/ (reads < MaxReads /\ reads' = reads + 1)
  BY DEF ReadNext, Read, Prefetch, ListPrefetched, Edit, ClearIdle, readVars, readHistory
<1>2. clears' = clears \/ (clears < MaxClears /\ clears' = clears + 1)
  BY DEF ReadNext, Read, Prefetch, ListPrefetched, Edit, ClearIdle, readVars, readHistory
<1>3. prefetched' \subseteq Paths /\ listing' \in BOOLEAN
  BY DEF UsesInv, ReadNext, Read, Prefetch, ListPrefetched, Edit, ClearIdle, readVars, prefetch
<1> QED
  BY <1>1, <1>2, <1>3, ReadCacheAssumption DEF UsesInv

\* The cache and what the agent was given are versions of files, whatever is read, edited,
\* prefetched, evicted or cleared.
THEOREM ReadTypeCorrect == ReadSpec => []ReadTypeOK
<1>1. ReadInit => RefInv /\ ReadTypeInv /\ UsesInv
  <2> SUFFICES ASSUME ReadInit
               PROVE  RefInv /\ ReadTypeInv /\ UsesInv
    OBVIOUS
  <2>1. /\ DOMAIN fileRefs = {} /\ DOMAIN cached = {} /\ named = {} /\ nextRef = 1
        /\ reads = 0 /\ clears = 0 /\ prefetched = {} /\ listing = FALSE /\ partial = {} /\ outgrown = FALSE /\ answer = NoAnswer
        /\ held = [p \in Paths |-> {}] /\ onDisk \in [Paths -> {1}]
    BY DEF ReadInit
  <2>2. {1} \subseteq 0..MaxVersion /\ 0 \in 0..MaxReads /\ 0 \in 0..MaxClears
    BY ReadCacheAssumption
  <2>3. RefInv
    BY <2>1 DEF RefInv, RefsKeepMeaning
  <2>4. ReadTypeInv
    BY <2>1, <2>2 DEF ReadTypeInv
  <2> QED
    BY <2>1, <2>2, <2>3, <2>4 DEF UsesInv
<1>2. /\ RefInv /\ ReadTypeInv /\ UsesInv
      => ReadTypeOK
  <2> SUFFICES ASSUME RefInv, ReadTypeInv, UsesInv
               PROVE  ReadTypeOK
    OBVIOUS
  <2>1. named \subseteq Nat \X Paths
    BY DEF RefInv
  <2> QED
    BY <2>1 DEF RefInv, ReadTypeInv, UsesInv, ReadTypeOK
<1> QED
  BY <1>1, <1>2, RefNext, ReadTypeStep, ReadCounts, PTL DEF ReadSpec

-----------------------------------------------------------------------------
(***************************************************************************)
(* IndexBuild.  Unless writers overlapped, whoever is to save an index has *)
(* one no older than any that was saved, and so has the sync that is under *)
(* way or in the outbox.                                                   *)
(***************************************************************************)

WorkerSteps ==
  {"none", "starts", "loads", "scans", "keeps", "saves", "writes", "bm25", "builds", "ends"}
Holding == {"scans", "keeps", "saves", "writes"}
Unsent == syncing \union queuedSyncs

BuildShape ==
  /\ tree \in Nat \ {0} /\ index \in Nat /\ newest \in Nat /\ hostIndex \in Nat
  /\ newest <= tree /\ crossed \in BOOLEAN
  /\ built \in [Servers -> Nat] /\ scanner \in [Servers -> Nat]
  /\ worker \in [Servers -> WorkerSteps]
  /\ \A s \in Servers : built[s] <= tree /\ scanner[s] <= tree /\ index <= tree
  /\ \A s \in Servers : worker[s] \in Holding <=> built[s] # 0
  /\ running \in [Servers -> BOOLEAN] /\ \A s \in Servers : worker[s] # "none" => running[s]
  /\ \A s \in scanCut : s \in Servers /\ scanner[s] # 0
  /\ \A t \in Unsent : t[3] \in Nat

WriterInv ==
  /\ index # Unreadable => index = newest
  /\ \A s \in Servers : /\ built[s] # 0 => built[s] >= newest
                        /\ scanner[s] # 0 => scanner[s] >= newest
                        /\ ~(built[s] # 0 /\ scanner[s] # 0)
  /\ \A s, t \in Servers : Writing(s) /\ Writing(t) => s = t
  /\ hostIndex <= newest
  /\ \A t \in Unsent : hostIndex <= t[3] /\ t[3] <= newest
  /\ \A t, u \in Unsent : t = u

BuildInv == BuildShape /\ (~crossed => WriterInv)

LEMMA BuildInit == IndexInit => BuildInv
<1> SUFFICES ASSUME IndexInit PROVE BuildShape /\ WriterInv
  BY DEF BuildInv
<1>1. /\ tree = 1 /\ index = 0 /\ newest = 0 /\ hostIndex = 0 /\ crossed = FALSE /\ Unsent = {} /\ scanCut = {}
      /\ built \in [Servers -> Nat] /\ scanner \in [Servers -> Nat]
      /\ worker \in [Servers -> WorkerSteps] /\ running \in [Servers -> BOOLEAN]
      /\ \A s \in Servers : built[s] = 0 /\ scanner[s] = 0 /\ worker[s] = "none"
  BY DEF IndexInit, Unreadable, WorkerSteps, Unsent
<1>2. BuildShape
  <2>1. /\ tree \in Nat \ {0} /\ index \in Nat /\ newest \in Nat /\ hostIndex \in Nat
        /\ newest <= tree
        /\ \A s \in Servers : built[s] <= tree /\ scanner[s] <= tree /\ index <= tree
    BY <1>1
  <2>2. \A s \in Servers : worker[s] \in Holding <=> built[s] # 0
    BY <1>1 DEF Holding
  <2>3. crossed \in BOOLEAN /\ \A t \in Unsent : t[3] \in Nat
    BY <1>1
  <2> QED
    BY <1>1, <2>1, <2>2, <2>3 DEF BuildShape
<1>3. Unsent = {} /\ \A s \in Servers : ~Writing(s)
  BY <1>1 DEF Writing
<1> QED
  BY <1>1, <1>2, <1>3 DEF WriterInv, Unreadable

\* Steps that touch neither the file nor what somebody is to write to it.
LEMMA IdleBuildStep ==
  ASSUME BuildInv, BuildShape',
         UNCHANGED <<index, built, scanner, syncs, hostIndex, newest, crossed>>
  PROVE  BuildInv'
BY DEF BuildInv, WriterInv, Writing, Unsent, syncs

LEMMA BuildLoads ==
  ASSUME BuildInv, NEW s \in Servers, LoadOrBuild(s) PROVE BuildInv'
<1> USE DEF Unreadable
<1>1. built'[s] \in Nat \ {0} /\ built'[s] <= tree
  BY DEF LoadOrBuild, BuildInv, BuildShape
<1>2. BuildShape'
  BY <1>1 DEF LoadOrBuild, BuildInv, BuildShape, WorkerSteps, Holding, Unsent, scans, syncs
<1>3. ASSUME ~crossed' PROVE WriterInv'
  <2>1. WriterInv /\ \A t \in Servers : built[t] = 0 /\ scanner[t] = 0
    BY <1>3 DEF LoadOrBuild, BuildInv, BuildShape, Writing
  <2>2. built'[s] >= newest /\ \A t \in Servers : t # s => built'[t] = 0
    BY <2>1 DEF LoadOrBuild, BuildInv, BuildShape, WriterInv
  <2> QED
    BY <2>1, <2>2 DEF LoadOrBuild, WriterInv, Writing, Unsent, scans, syncs
<1> QED
  BY <1>2, <1>3 DEF BuildInv

LEMMA BuildCuts ==
  ASSUME BuildInv, NEW s \in Servers, CutIndex(s) \/ CutScan(s) PROVE BuildInv'
<1>1. BuildShape'
  <2>1. CASE CutIndex(s)
    BY <2>1 DEF CutIndex, BuildInv, BuildShape, WorkerSteps, Holding, Unreadable, Unsent, scans, syncs
  <2>2. CASE CutScan(s)
    BY <2>2 DEF CutScan, BuildInv, BuildShape, Unreadable, Unsent, syncs
  <2> QED
    BY <2>1, <2>2
<1>2. UNCHANGED <<built, scanner, Unsent, hostIndex, newest, crossed>> /\ index' = Unreadable
  BY DEF CutIndex, CutScan, Unsent, scans, syncs
<1> QED
  BY <1>1, <1>2 DEF BuildInv, WriterInv, Writing

LEMMA BuildKeeps ==
  ASSUME BuildInv, NEW s \in Servers, KeepScan(s) PROVE BuildInv'
<1>1. built[s] \in Nat \ {0} /\ built[s] <= tree /\ index' = built[s]
  BY DEF KeepScan, Saved, BuildInv, BuildShape, Holding
<1>2. newest' \in {newest, built[s]} /\ newest' \in Nat /\ newest' <= tree /\ newest <= newest'
  BY <1>1 DEF KeepScan, Saved, BuildInv, BuildShape
<1>3. UNCHANGED <<built, scanner, Unsent, hostIndex, crossed>>
  BY DEF KeepScan, Unsent, scans, syncs
<1>4. BuildShape'
  BY <1>1, <1>2, <1>3 DEF KeepScan, BuildInv, BuildShape, WorkerSteps, Holding, scans
<1>5. ASSUME ~crossed' PROVE WriterInv'
  <2>1. WriterInv
    BY <1>3, <1>5 DEF BuildInv
  <2>2. newest' = built[s] /\ index' = newest'
    BY <1>1, <2>1 DEF KeepScan, Saved, WriterInv, BuildInv, BuildShape
  <2>3. \A u \in Servers : (built[u] # 0 => built[u] >= newest')
                           /\ (scanner[u] # 0 => scanner[u] >= newest')
    BY <1>1, <2>1, <2>2 DEF WriterInv, Writing, BuildInv, BuildShape
  <2>4. hostIndex <= newest' /\ \A t \in Unsent : t[3] <= newest'
    BY <1>2, <2>1 DEF WriterInv, BuildInv, BuildShape
  <2>5. hostIndex' <= newest' /\ \A t \in Unsent' : hostIndex' <= t[3] /\ t[3] <= newest'
    BY <1>3, <2>1, <2>4 DEF WriterInv
  <2>6. (\A t, u \in Unsent' : t = u) /\ \A u, v \in Servers : Writing(u)' /\ Writing(v)' => u = v
    BY <1>3, <2>1 DEF WriterInv, Writing
  <2>7. \A u \in Servers :
          /\ built'[u] # 0 => built'[u] >= newest'
          /\ scanner'[u] # 0 => scanner'[u] >= newest'
          /\ ~(built'[u] # 0 /\ scanner'[u] # 0)
    BY <1>3, <2>1, <2>3 DEF WriterInv
  <2> QED
    BY <2>2, <2>5, <2>6, <2>7 DEF WriterInv, Writing
<1> QED
  BY <1>4, <1>5 DEF BuildInv

LEMMA BuildFinishes ==
  ASSUME BuildInv, NEW s \in Servers, FinishGraph(s)
  PROVE  BuildInv' /\ (~crossed' => index' = newest')
<1>1. built[s] \in Nat \ {0} /\ built[s] <= tree /\ index' = built[s]
  BY DEF FinishGraph, Saved, BuildInv, BuildShape, Holding
<1>2. newest' \in {newest, built[s]} /\ newest' \in Nat /\ newest' <= tree
  BY <1>1 DEF FinishGraph, Saved, BuildInv, BuildShape
<1>3. BuildShape'
  <2>1. \A t \in Unsent' : t[3] \in Nat
    BY <1>1 DEF FinishGraph, BuildInv, BuildShape, Unsent
  <2> QED
    BY <1>1, <1>2, <2>1 DEF FinishGraph, BuildInv, BuildShape, WorkerSteps, Holding, scans
<1>4. ASSUME ~crossed' PROVE WriterInv' /\ index' = newest'
  <2>1. WriterInv /\ Unsent = {}
    BY <1>4 DEF FinishGraph, BuildInv, Unsent
  <2>2. built[s] >= newest /\ newest' = built[s]
    BY <1>1, <2>1 DEF FinishGraph, Saved, WriterInv, BuildInv, BuildShape
  <2>3. Unsent' = {<<started, s, built[s]>>}
    BY <2>1 DEF FinishGraph, Unsent
  <2>4. \A t \in Servers : built'[t] = 0 /\ scanner'[t] = 0
    BY <1>1, <2>1 DEF FinishGraph, WriterInv, Writing, BuildInv, BuildShape, scans
  <2>5. hostIndex' <= newest' /\ hostIndex' <= built[s]
    BY <2>1, <2>2 DEF FinishGraph, WriterInv, BuildInv, BuildShape
  <2> QED
    BY <1>1, <2>2, <2>3, <2>4, <2>5 DEF WriterInv, Writing
<1> QED
  BY <1>3, <1>4 DEF BuildInv

LEMMA BuildPanics ==
  ASSUME BuildInv, NEW s \in Servers, GraphPanics(s) PROVE BuildInv'
<1>1. BuildShape'
  BY DEF GraphPanics, BuildInv, BuildShape, WorkerSteps, Holding, Unsent, scans, syncs
<1> QED
  BY <1>1 DEF GraphPanics, BuildInv, BuildShape, WriterInv, Writing, Unsent, scans, syncs

LEMMA BuildScans ==
  ASSUME BuildInv, NEW s \in Servers, ScanTree(s) PROVE BuildInv'
<1>1. BuildShape'
  BY DEF ScanTree, BuildInv, BuildShape, Unsent, syncs
<1>2. ASSUME ~crossed' PROVE WriterInv'
  <2>1. WriterInv /\ \A t \in Servers : built[t] = 0 /\ scanner[t] = 0
    BY <1>2 DEF ScanTree, BuildInv, BuildShape, Writing
  <2>2. scanner'[s] >= newest /\ \A t \in Servers : t # s => scanner'[t] = 0
    BY <2>1 DEF ScanTree, BuildInv, BuildShape
  <2> QED
    BY <2>1, <2>2 DEF ScanTree, WriterInv, Writing, Unsent, syncs
<1> QED
  BY <1>1, <1>2 DEF BuildInv

LEMMA BuildSavesScan ==
  ASSUME BuildInv, NEW s \in Servers, SaveScan(s)
  PROVE  BuildInv' /\ (~crossed' => index' = newest')
<1>1. scanner[s] \in Nat \ {0} /\ scanner[s] <= tree /\ index' = scanner[s]
  BY DEF SaveScan, Saved, BuildInv, BuildShape
<1>2. newest' \in {newest, scanner[s]} /\ newest' \in Nat /\ newest' <= tree /\ newest <= newest'
  BY <1>1 DEF SaveScan, Saved, BuildInv, BuildShape
<1>3. BuildShape'
  BY <1>1, <1>2 DEF SaveScan, BuildInv, BuildShape, Unsent, syncs
<1>4. ASSUME ~crossed' PROVE WriterInv' /\ index' = newest'
  <2>1. WriterInv
    BY <1>4 DEF SaveScan, BuildInv
  <2>2. scanner[s] >= newest /\ newest' = scanner[s]
    BY <1>1, <2>1 DEF SaveScan, Saved, WriterInv, BuildInv, BuildShape
  <2>3. \A t \in Servers : built'[t] = 0 /\ scanner'[t] = 0
    BY <1>1, <2>1 DEF SaveScan, WriterInv, Writing, BuildInv, BuildShape
  <2>4. hostIndex' <= newest' /\ \A t \in Unsent' : hostIndex' <= t[3] /\ t[3] <= newest'
    BY <1>2, <2>1 DEF SaveScan, WriterInv, BuildInv, BuildShape, Unsent, syncs
  <2>5. \A t, u \in Unsent' : t = u
    BY <2>1 DEF SaveScan, WriterInv, Unsent, syncs
  <2> QED
    BY <1>1, <2>2, <2>3, <2>4, <2>5 DEF WriterInv, Writing
<1> QED
  BY <1>3, <1>4 DEF BuildInv

LEMMA BuildSyncs ==
  ASSUME BuildInv, SyncIndex \/ ReplaySync PROVE BuildInv' /\ (~crossed' => hostIndex' >= hostIndex)
<1>1. PICK t \in Unsent : Unsent' \subseteq Unsent /\ hostIndex' \in {hostIndex, t[3]}
  BY DEF SyncIndex, ReplaySync, Unsent
<1>2. UNCHANGED <<tree, index, running, worker, built, scanner, scanCut, newest, crossed>>
  BY DEF SyncIndex, ReplaySync, scans
<1>3. BuildShape'
  BY <1>1, <1>2 DEF BuildInv, BuildShape
<1>4. ASSUME ~crossed' PROVE WriterInv' /\ hostIndex' >= hostIndex
  <2>1. WriterInv
    BY <1>2, <1>4 DEF BuildInv
  <2>2. hostIndex <= hostIndex' /\ hostIndex' <= newest /\ hostIndex' <= t[3]
    BY <1>1, <2>1 DEF WriterInv, BuildInv, BuildShape
  <2>3. \A u \in Unsent' : hostIndex' <= u[3] /\ u[3] <= newest
    BY <1>1, <2>1, <2>2 DEF WriterInv
  <2> QED
    BY <1>1, <1>2, <2>1, <2>2, <2>3 DEF WriterInv, Writing
<1> QED
  BY <1>3, <1>4 DEF BuildInv

\* What one step does to the file and the host.
Forward == ~crossed' => /\ index' # Unreadable => index' = newest'
                        /\ hostIndex' >= hostIndex

LEMMA BuildNext == BuildInv /\ [IndexNext]_indexVars => BuildInv' /\ Forward
<1> SUFFICES ASSUME BuildInv, [IndexNext]_indexVars PROVE BuildInv' /\ Forward
  OBVIOUS
<1>0. ASSUME BuildInv', UNCHANGED hostIndex PROVE Forward
  BY <1>0 DEF Forward, BuildInv, BuildShape, WriterInv
<1>1. CASE EditTree
  <2>1. BuildShape'
    BY <1>1 DEF EditTree, BuildInv, BuildShape, Unsent, scans, syncs
  <2> QED
    BY <1>0, <1>1, <2>1, IdleBuildStep DEF EditTree, scans
<1>2. CASE SyncIndex \/ ReplaySync
  <2>1. BuildInv' /\ (~crossed' => hostIndex' >= hostIndex)
    BY <1>2, BuildSyncs
  <2> QED
    BY <2>1 DEF Forward, BuildInv, WriterInv
<1>3. ASSUME NEW s \in Servers,
             LoadOrBuild(s) \/ CutIndex(s) \/ KeepScan(s) \/ FinishGraph(s) \/ GraphPanics(s)
             \/ ScanTree(s) \/ CutScan(s) \/ SaveScan(s)
      PROVE  BuildInv' /\ Forward
  <2>1. BuildInv'
    BY <1>3, BuildLoads, BuildCuts, BuildKeeps, BuildFinishes, BuildPanics, BuildScans, BuildSavesScan
  <2>2. UNCHANGED hostIndex
    BY <1>3 DEF LoadOrBuild, CutIndex, KeepScan, FinishGraph, GraphPanics, ScanTree, CutScan, SaveScan
  <2> QED
    BY <1>0, <2>1, <2>2
<1>4. ASSUME NEW s \in Servers, Ensure(s) \/ StartGraph(s) \/ StartBm25(s) \/ FinishBm25(s) \/ EndWorker(s)
      PROVE  BuildInv' /\ Forward
  <2>1. UNCHANGED <<tree, index, built, scanner, scanCut, syncs, Unsent, hostIndex, newest, crossed>>
    BY <1>4 DEF Ensure, StartGraph, StartBm25, FinishBm25, EndWorker, scans, syncs, Unsent
  <2>2. worker[s] \notin Holding
    BY <1>4 DEF Ensure, StartGraph, StartBm25, FinishBm25, EndWorker, BuildInv, BuildShape, Holding
  <2>3. BuildShape'
    BY <1>4, <2>1, <2>2
       DEF Ensure, StartGraph, StartBm25, FinishBm25, EndWorker, BuildInv, BuildShape, WorkerSteps,
           Holding
  <2> QED
    BY <1>0, <2>1, <2>3, IdleBuildStep
<1>5. CASE UNCHANGED indexVars
  BY <1>0, <1>5 DEF indexVars, BuildInv, BuildShape, WriterInv, Writing, Unsent, scans, syncs
<1> QED
  BY <1>1, <1>2, <1>3, <1>4, <1>5 DEF IndexNext, WorkerStep

\* For every number of servers and workers, unless two writers of the index overlapped or
\* a sync was still to come when the next began, the file never goes back to an older
\* version of the tree, nor does the host (ensure_all_background, load_or_build,
\* fire_sync_index, replay_queued_index_sync, ctx_graph).
THEOREM IndexKeepsForward == IndexSpec => IndexGoesForward
<1>1. BuildInv /\ [IndexNext]_indexVars => [Forward]_indexVars
  BY BuildNext
<1> QED
  BY <1>1, BuildInit, BuildNext, PTL DEF IndexSpec, IndexGoesForward, Forward

-----------------------------------------------------------------------------
(***************************************************************************)
(* The types of the index.  A worker has been counted when it saves, so    *)
(* its thread has a number.                                                *)
(***************************************************************************)

IndexTypeInv ==
  /\ tree \in 1..MaxTree /\ started \in 0..MaxWorkers /\ {index, hostIndex} \subseteq TreeVersions
  /\ graph \in [Servers -> Shown] /\ bm25 \in [Servers -> Shown]
  /\ syncing \subseteq (1..MaxWorkers) \X Servers \X TreeVersions
  /\ queuedSyncs \subseteq (1..MaxWorkers) \X Servers \X TreeVersions
  /\ \A s \in Servers : worker[s] # "none" => started # 0

LEMMA IndexTypeInit == IndexInit => IndexTypeInv
<1> SUFFICES ASSUME IndexInit PROVE IndexTypeInv
  OBVIOUS
<1>1. 1 \in 1..MaxTree /\ 0 \in 0..MaxWorkers /\ 0 \in TreeVersions /\ "idle" \in Shown
  BY IndexAssumption DEF TreeVersions, Shown
<1> QED
  BY <1>1 DEF IndexInit, IndexTypeInv, Unreadable

LEMMA IndexTypeStep == BuildInv /\ IndexTypeInv /\ [IndexNext]_indexVars => IndexTypeInv'
<1> SUFFICES ASSUME BuildInv, IndexTypeInv, [IndexNext]_indexVars PROVE IndexTypeInv'
  OBVIOUS
<1>0. /\ {"building", "ready", "failed"} \subseteq Shown
      /\ MaxTree \in Nat /\ MaxWorkers \in Nat
  BY IndexAssumption DEF Shown
<1>a. ASSUME NEW s \in Servers PROVE built[s] \in TreeVersions /\ scanner[s] \in TreeVersions
  <2>1. /\ built[s] \in Nat /\ built[s] <= tree /\ scanner[s] \in Nat /\ scanner[s] <= tree
        /\ tree \in 1..MaxTree
    BY DEF BuildInv, BuildShape, IndexTypeInv
  <2> QED
    BY <1>0, <2>1 DEF TreeVersions
<1>1. CASE EditTree
  <2>1. tree' \in 1..MaxTree
    BY <1>0, <1>1 DEF EditTree, IndexTypeInv
  <2>2. UNCHANGED <<index, started, hostIndex, graph, bm25, syncing, queuedSyncs, worker>>
    BY <1>1 DEF EditTree, syncs
  <2> QED
    BY <2>1, <2>2 DEF IndexTypeInv
<1>2. CASE SyncIndex \/ ReplaySync
  <2>1. PICK t \in syncing \union queuedSyncs :
          /\ syncing' \subseteq syncing /\ queuedSyncs' \subseteq queuedSyncs \union {t}
          /\ hostIndex' \in {hostIndex, t[3]}
    BY <1>2 DEF SyncIndex, ReplaySync
  <2>2. t \in (1..MaxWorkers) \X Servers \X TreeVersions
    BY DEF IndexTypeInv
  <2>3. UNCHANGED <<tree, index, started, graph, bm25, worker>>
    BY <1>2 DEF SyncIndex, ReplaySync
  <2> QED
    BY <2>1, <2>2, <2>3 DEF IndexTypeInv
<1>3. ASSUME NEW s \in Servers, Ensure(s) PROVE IndexTypeInv'
  <2>1. started' \in 0..MaxWorkers /\ started' # 0
    BY <1>0, <1>3 DEF Ensure, IndexTypeInv
  <2>2. UNCHANGED <<tree, index, hostIndex, graph, bm25, syncing, queuedSyncs>>
    BY <1>3 DEF Ensure, syncs
  <2> QED
    BY <2>1, <2>2 DEF IndexTypeInv
<1>4. ASSUME NEW s \in Servers, FinishGraph(s) PROVE IndexTypeInv'
  <2>1. /\ worker[s] = "writes" /\ graph' = [graph EXCEPT ![s] = "ready"]
        /\ syncing' = syncing \union {<<started, s, built[s]>>}
        /\ worker' = [worker EXCEPT ![s] = "bm25"]
        /\ UNCHANGED <<tree, bm25, started, hostIndex, queuedSyncs>>
    BY <1>4 DEF FinishGraph
  <2>2. started \in 1..MaxWorkers
    BY <1>0, <2>1 DEF IndexTypeInv
  <2>3. built[s] \in TreeVersions /\ index' = built[s]
    BY <1>4, <1>a DEF FinishGraph, Saved
  <2>4. <<started, s, built[s]>> \in (1..MaxWorkers) \X Servers \X TreeVersions
    BY <2>2, <2>3
  <2>5. \A r \in Servers : worker'[r] # "none" => started # 0
    BY <2>1 DEF BuildInv, BuildShape, IndexTypeInv
  <2> QED
    BY <1>0, <2>1, <2>3, <2>4, <2>5 DEF IndexTypeInv
<1>5. ASSUME NEW s \in Servers,
             StartGraph(s) \/ LoadOrBuild(s) \/ CutIndex(s) \/ KeepScan(s) \/ GraphPanics(s)
             \/ StartBm25(s) \/ FinishBm25(s) \/ EndWorker(s)
      PROVE  IndexTypeInv'
  <2>1. UNCHANGED <<tree, started, hostIndex, syncing, queuedSyncs>> /\ worker[s] # "none"
    BY <1>5 DEF StartGraph, LoadOrBuild, CutIndex, KeepScan, GraphPanics, StartBm25, FinishBm25,
                EndWorker, syncs
  <2>2. /\ graph' \in [Servers -> Shown] /\ bm25' \in [Servers -> Shown]
    BY <1>0, <1>5 DEF StartGraph, LoadOrBuild, CutIndex, KeepScan, GraphPanics, StartBm25, FinishBm25,
                      EndWorker, IndexTypeInv
  <2>4. started # 0
    BY <2>1 DEF IndexTypeInv
  <2>5. index' \in {index, 0, built[s]} /\ 0 \in TreeVersions /\ built[s] \in TreeVersions
    BY <1>0, <1>5, <1>a DEF StartGraph, LoadOrBuild, CutIndex, KeepScan, Saved, GraphPanics, StartBm25,
                            FinishBm25, EndWorker, Unreadable, TreeVersions
  <2> QED
    BY <2>1, <2>2, <2>4, <2>5 DEF IndexTypeInv
<1>6. ASSUME NEW s \in Servers, ScanTree(s) \/ CutScan(s) \/ SaveScan(s) PROVE IndexTypeInv'
  <2>1. UNCHANGED <<tree, started, hostIndex, graph, bm25, syncing, queuedSyncs, worker>>
    BY <1>6 DEF ScanTree, CutScan, SaveScan, syncs
  <2>2. index' \in {index, 0, scanner[s]} /\ 0 \in TreeVersions
    BY <1>0, <1>6 DEF ScanTree, CutScan, SaveScan, Saved, Unreadable, TreeVersions
  <2> QED
    BY <1>a, <2>1, <2>2 DEF IndexTypeInv
<1>7. CASE UNCHANGED indexVars
  BY <1>7 DEF indexVars, IndexTypeInv, syncs
<1> QED
  BY <1>1, <1>2, <1>3, <1>4, <1>5, <1>6, <1>7, Zenon DEF IndexNext, WorkerStep

\* Every index anywhere - in the file, in a worker's hands, with a sync thread, at the host -
\* is of a version the tree has had, and a thread that syncs has the number of a worker.
THEOREM IndexTypeCorrect == IndexSpec => []IndexTypeOK
<1>1. BuildInv /\ IndexTypeInv => IndexTypeOK
  <2> SUFFICES ASSUME BuildInv, IndexTypeInv PROVE IndexTypeOK
    OBVIOUS
  <2>1. /\ tree \in 1..MaxTree /\ MaxTree \in Nat /\ index \in Nat /\ newest \in Nat
        /\ newest <= tree
        /\ \A s \in Servers : built[s] \in Nat /\ scanner[s] \in Nat /\ built[s] <= tree
                              /\ scanner[s] <= tree
    BY IndexAssumption DEF BuildInv, BuildShape, IndexTypeInv
  <2>2. newest \in TreeVersions /\ \A s \in Servers : built[s] \in TreeVersions /\ scanner[s] \in TreeVersions
    BY <2>1 DEF TreeVersions
  <2> QED
    BY <2>2 DEF BuildInv, BuildShape, IndexTypeInv, IndexTypeOK, WorkerSteps, Holding
<1>2. IndexInit => BuildInv /\ IndexTypeInv
  BY BuildInit, IndexTypeInit
<1>3. BuildInv /\ IndexTypeInv /\ [IndexNext]_indexVars => BuildInv' /\ IndexTypeInv'
  BY BuildNext, IndexTypeStep
<1> QED
  BY <1>1, <1>2, <1>3, PTL DEF IndexSpec

-----------------------------------------------------------------------------
(***************************************************************************)
(* ServerLocks.  The locks have ranks, and every scope takes them in       *)
(* ascending order.  Of calls that wait, one that wants a lock of the      *)
(* highest rank and is the first of them in its queue waits for none.      *)
(***************************************************************************)

Rank == [l \in ServerLock |-> IF l = "cache" THEN 1 ELSE IF l = "toolCalls" THEN 2
                             ELSE IF l = "session" THEN 3 ELSE 4]

Requests == [lock : ServerLock, exclusive : BOOLEAN]

Single == {<<r>> : r \in Requests}
Nested == {<<Exclusive("toolCalls"), Exclusive("session")>>, <<Shared("cache"), Shared("toolCalls")>>,
           <<Exclusive("session"), Exclusive("agentId")>>, <<Shared("session"), Shared("ledger")>>}

LEMMA ScopesAreShort == Scopes \subseteq Single \union Nested
<1>1. \A l \in ServerLock : <<Shared(l)>> \in Single /\ <<Exclusive(l)>> \in Single
  BY DEF Single, Requests, Shared, Exclusive
<1>2. /\ IdleExpiry \subseteq Single /\ ResolvePath \subseteq Single /\ CacheArms \subseteq Single
      /\ BeforeTool \subseteq Single /\ Initialize \subseteq Single
  BY <1>1 DEF IdleExpiry, ResolvePath, CacheArms, BeforeTool, Initialize, ServerLock
<1>3. /\ IndexArms \subseteq Single /\ AgentArms \subseteq Single /\ RecordArms \subseteq Single
      /\ AfterTool \subseteq Single
  BY <1>1 DEF IndexArms, AgentArms, RecordArms, AfterTool, ServerLock
<1>4. LiveStats \subseteq Single \union Nested
  BY DEF LiveStats, Nested
<1>5. RecordCall \subseteq Single \union Nested /\ Checkpoint \subseteq Single \union Nested
  BY <1>1, <1>4 DEF RecordCall, Checkpoint, Nested, ServerLock
<1>6. ReadArm \subseteq Single \union Nested /\ PreloadArm \subseteq Single \union Nested
  BY <1>1 DEF ReadArm, PreloadArm, Nested, ServerLock
<1> QED
  BY <1>2, <1>3, <1>5, <1>6 DEF Scopes

LEMMA ScopesAscend ==
  ASSUME NEW s \in Scopes
  PROVE  /\ s \in Seq(Requests)
         /\ \A i \in 1..Len(s) : \A j \in 1..Len(s) : i < j => Rank[s[i].lock] < Rank[s[j].lock]
<1>1. CASE s \in Single
  <2>1. PICK r \in Requests : s = <<r>>
    BY <1>1 DEF Single
  <2> QED
    BY <2>1
<1>2. CASE s \in Nested
  <2> DEFINE Ascends(q, r) == q \in Requests /\ r \in Requests /\ Rank[q.lock] < Rank[r.lock]
  <2>3. Ascends(Exclusive("toolCalls"), Exclusive("session"))
    BY DEF Shared, Exclusive, Requests, Rank, ServerLock
  <2>4. Ascends(Shared("cache"), Shared("toolCalls"))
    BY DEF Shared, Exclusive, Requests, Rank, ServerLock
  <2>5. Ascends(Exclusive("session"), Exclusive("agentId"))
    BY DEF Shared, Exclusive, Requests, Rank, ServerLock
  <2>6. Ascends(Shared("session"), Shared("ledger"))
    BY DEF Shared, Exclusive, Requests, Rank, ServerLock
  <2> HIDE DEF Ascends
  <2>7. \E q, r : s = <<q, r>> /\ Ascends(q, r)
    BY <1>2, <2>3, <2>4, <2>5, <2>6 DEF Nested
  <2>1. PICK q \in Requests, r \in Requests : s = <<q, r>> /\ Rank[q.lock] < Rank[r.lock]
    BY <2>7 DEF Ascends
  <2>2. s \in Seq(Requests) /\ Len(s) = 2 /\ s[1] = q /\ s[2] = r
    BY <2>1
  <2>8. ASSUME NEW i \in 1..Len(s), NEW j \in 1..Len(s), i < j PROVE i = 1 /\ j = 2
    BY <2>2, <2>8
  <2> QED
    BY <2>1, <2>2, <2>8
<1> QED
  BY <1>1, <1>2, ScopesAreShort

\* A call in a queue wants that lock, and is in it once.
QueuedOnce(l, i) ==
  /\ taken[waiting[l][i]] < Len(scope[waiting[l][i]])
  /\ Wanted(waiting[l][i]).lock = l
  /\ \A j \in DOMAIN waiting[l] : waiting[l][i] = waiting[l][j] => i = j

QueueInv == \A l \in ServerLock : \A i \in DOMAIN waiting[l] : QueuedOnce(l, i)

LEMMA WantedIsRequest ==
  ASSUME LockTypeOK, NEW c \in ToolCalls, taken[c] < Len(scope[c])
  PROVE  Wanted(c) \in Requests /\ Wanted(c).lock \in ServerLock /\ scope[c] \in Scopes
<1>1. taken[c] \in Nat /\ scope[c] \in Scopes \union {<< >>}
  BY DEF LockTypeOK
<1>2. scope[c] \in Scopes
  BY <1>1
<1>3. scope[c] \in Seq(Requests)
  BY <1>2, ScopesAscend
<1>4. taken[c] + 1 \in 1..Len(scope[c])
  BY <1>1, <1>3
<1>5. scope[c][taken[c] + 1] \in Requests
  BY <1>3, <1>4
<1> QED
  BY <1>2, <1>5 DEF Wanted, Requests

LEMMA ScopeStep ==
  ASSUME LockTypeOK, QueueInv, NEW c \in ToolCalls, EnterScope(c) \/ LeaveScope(c)
  PROVE  LockTypeOK' /\ QueueInv'
<1>1. ~(taken[c] < Len(scope[c]))
  BY DEF EnterScope, LeaveScope, LockTypeOK
<1>2. \A l \in ServerLock : \A i \in DOMAIN waiting[l] : waiting[l][i] # c /\ waiting[l][i] \in ToolCalls
  BY <1>1 DEF QueueInv, QueuedOnce, LockTypeOK
<1>3. \A d \in ToolCalls : d # c => scope'[d] = scope[d] /\ taken'[d] = taken[d]
  BY DEF EnterScope, LeaveScope, LockTypeOK
<1>4. waiting' = waiting
  BY DEF EnterScope, LeaveScope
<1>5. QueueInv'
  BY <1>2, <1>3, <1>4 DEF QueueInv, QueuedOnce, Wanted
<1>6. CASE EnterScope(c)
  <2>1. PICK s \in Scopes : scope' = [scope EXCEPT ![c] = s]
    BY <1>6 DEF EnterScope
  <2>2. taken[c] = 0 /\ taken' = taken
    BY <1>6 DEF EnterScope, LockTypeOK
  <2>3. Len(s) \in Nat
    BY ScopesAscend
  <2>4. LockTypeOK'
    BY <1>4, <2>1, <2>2, <2>3 DEF LockTypeOK
  <2> QED
    BY <1>5, <2>4
<1>7. CASE LeaveScope(c)
  <2>1. LockTypeOK'
    BY <1>4, <1>7 DEF LeaveScope, LockTypeOK
  <2> QED
    BY <1>5, <2>1
<1> QED
  BY <1>6, <1>7

LEMMA AskStep ==
  ASSUME LockTypeOK, QueueInv, NEW c \in ToolCalls, AskLock(c)
  PROVE  LockTypeOK' /\ QueueInv'
<1> DEFINE l == Wanted(c).lock
<1>1. l \in ServerLock /\ taken[c] < Len(scope[c])
  BY WantedIsRequest DEF AskLock
<1>2. \A i \in DOMAIN waiting[l] : waiting[l][i] # c
  BY DEF AskLock, Waits
<1>3. /\ waiting' = [waiting EXCEPT ![l] = Append(waiting[l], c)]
      /\ scope' = scope /\ taken' = taken
  BY DEF AskLock
<1>4. waiting[l] \in Seq(ToolCalls) /\ waiting \in [ServerLock -> Seq(ToolCalls)]
  BY <1>1 DEF LockTypeOK
<1> HIDE DEF l
<1>5. LockTypeOK'
  <2>1. Append(waiting[l], c) \in Seq(ToolCalls)
    BY <1>4
  <2>2. waiting' \in [ServerLock -> Seq(ToolCalls)]
    BY <1>1, <1>3, <1>4, <2>1
  <2> QED
    BY <1>3, <2>2 DEF LockTypeOK
<1>6. /\ waiting'[l] \in Seq(ToolCalls) /\ Len(waiting'[l]) = Len(waiting[l]) + 1
      /\ waiting'[l][Len(waiting[l]) + 1] = c
      /\ \A i \in 1..Len(waiting[l]) : waiting'[l][i] = waiting[l][i]
      /\ \A m \in ServerLock : m # l => waiting'[m] = waiting[m]
  BY <1>1, <1>3, <1>4
<1>7. \A d : Wanted(d)' = Wanted(d)
  BY <1>3 DEF Wanted
<1>8. DOMAIN waiting'[l] = 1..Len(waiting[l]) + 1 /\ DOMAIN waiting[l] = 1..Len(waiting[l])
      /\ Len(waiting[l]) \in Nat
  BY <1>4, <1>6
<1>9. ASSUME NEW m \in ServerLock, NEW i \in DOMAIN waiting'[m] PROVE QueuedOnce(m, i)'
  <2>1. CASE m # l
    <3>1. QueuedOnce(m, i)
      BY <1>6, <1>9, <2>1 DEF QueueInv
    <3> QED
      BY <1>3, <1>6, <1>7, <2>1, <3>1 DEF QueuedOnce
  <2>2. CASE m = l /\ i = Len(waiting[l]) + 1
    <3>1. waiting'[m][i] = c /\ Wanted(c)'.lock = l
      BY <1>6, <1>7, <2>2 DEF l
    <3>2. ASSUME NEW j \in DOMAIN waiting'[m], waiting'[m][j] = c PROVE j = i
      BY <1>2, <1>6, <1>8, <2>2, <3>2
    <3> QED
      BY <1>1, <1>3, <2>2, <3>1, <3>2 DEF QueuedOnce
  <2>3. CASE m = l /\ i # Len(waiting[l]) + 1
    <3>1. i \in DOMAIN waiting[l] /\ waiting'[m][i] = waiting[l][i] /\ QueuedOnce(l, i)
      BY <1>1, <1>6, <1>8, <1>9, <2>3 DEF QueueInv
    <3>2. ASSUME NEW j \in DOMAIN waiting'[m], waiting'[m][i] = waiting'[m][j] PROVE i = j
      <4>1. CASE j = Len(waiting[l]) + 1
        BY <1>2, <1>6, <2>3, <3>1, <3>2, <4>1
      <4>2. CASE j \in DOMAIN waiting[l]
        BY <1>6, <1>8, <2>3, <3>1, <3>2, <4>2 DEF QueuedOnce
      <4> QED
        BY <1>8, <2>3, <3>2, <4>1, <4>2
    <3>3. /\ taken[waiting[l][i]] < Len(scope[waiting[l][i]])
          /\ Wanted(waiting[l][i]).lock = l
      BY <3>1 DEF QueuedOnce
    <3> QED
      BY <1>3, <1>7, <2>3, <3>1, <3>2, <3>3 DEF QueuedOnce
  <2> QED
    BY <2>1, <2>2, <2>3
<1> QED
  BY <1>5, <1>9 DEF QueueInv

LEMMA TakeStep ==
  ASSUME LockTypeOK, QueueInv, NEW c \in ToolCalls, TakeLock(c)
  PROVE  LockTypeOK' /\ QueueInv'
<1> DEFINE l == Wanted(c).lock
           q == waiting[l]
           Before(m, i) == IF m = l THEN i + 1 ELSE i
<1>1. l \in ServerLock /\ taken[c] < Len(scope[c]) /\ scope[c] \in Scopes /\ taken[c] \in Nat
  BY WantedIsRequest DEF TakeLock, Waits, LockTypeOK
<1>2. q \in Seq(ToolCalls) /\ q # << >> /\ q[1] = c
  BY <1>1 DEF TakeLock, Waits, LockTypeOK
<1>3. /\ waiting' = [waiting EXCEPT ![l] = Tail(q)] /\ scope' = scope
      /\ taken' = [taken EXCEPT ![c] = taken[c] + 1]
  BY DEF TakeLock
<1>4. Len(scope[c]) \in Nat
  BY <1>1, ScopesAscend
<1>5. LockTypeOK'
  BY <1>1, <1>2, <1>3, <1>4 DEF LockTypeOK
<1> HIDE DEF l
<1>6. \A m \in ServerLock : \A i \in DOMAIN waiting[m] :
        waiting[m][i] = c => m = l /\ i = 1
  <2>1. 1 \in DOMAIN q
    BY <1>2
  <2> QED
    BY <1>1, <1>2, <2>1 DEF QueueInv, QueuedOnce, l
<1>7. /\ waiting'[l] = Tail(q) /\ DOMAIN Tail(q) = 1..Len(q) - 1 /\ DOMAIN q = 1..Len(q)
      /\ \A i \in 1..Len(q) - 1 : Tail(q)[i] = q[i + 1] /\ i + 1 \in 1..Len(q)
      /\ \A m \in ServerLock : m # l => waiting'[m] = waiting[m]
  BY <1>1, <1>2, <1>3 DEF LockTypeOK
<1>8. ASSUME NEW m \in ServerLock, NEW i \in DOMAIN waiting'[m]
      PROVE  /\ Before(m, i) \in DOMAIN waiting[m] /\ i \in Nat
             /\ waiting'[m][i] = waiting[m][Before(m, i)] /\ waiting[m][Before(m, i)] # c
  <2>1. CASE m = l
    <3>1. DOMAIN waiting'[m] = 1..Len(q) - 1 /\ Len(q) \in Nat
      <4>1. Len(q) \in Nat
        BY <1>2
      <4> QED
        BY <1>7, <2>1, <4>1
    <3>3. i \in 1..Len(q) - 1 /\ i \in Nat
      BY <1>8, <3>1
    <3>2. i + 1 \in DOMAIN q /\ i + 1 # 1 /\ waiting'[m][i] = q[i + 1]
      <4>1. i + 1 # 1
        BY <3>3
      <4>2. waiting'[m] = Tail(q) /\ Tail(q)[i] = q[i + 1] /\ i + 1 \in DOMAIN q
        BY <1>7, <2>1, <3>3
      <4> QED
        BY <4>1, <4>2
    <3> QED
      BY <1>1, <1>6, <2>1, <3>2, <3>3
  <2>2. CASE m # l
    <3>1. waiting'[m] = waiting[m] /\ waiting[m] \in Seq(ToolCalls)
      BY <1>7, <2>2 DEF LockTypeOK
    <3>2. i \in Nat
      BY <1>8, <3>1
    <3> QED
      BY <1>6, <1>8, <2>2, <3>1, <3>2
  <2> QED
    BY <2>1, <2>2
<1> HIDE DEF q
<1>9. \A d \in ToolCalls : d # c => taken'[d] = taken[d] /\ Wanted(d)' = Wanted(d)
  BY <1>3 DEF LockTypeOK, Wanted
<1>10. ASSUME NEW m \in ServerLock, NEW i \in DOMAIN waiting'[m] PROVE QueuedOnce(m, i)'
  <2>1. PICK k, d : /\ k = Before(m, i) /\ k \in DOMAIN waiting[m] /\ d = waiting[m][k]
                    /\ waiting'[m][i] = d /\ d # c /\ i \in Nat
    BY <1>8, <1>10
  <2>2. d \in ToolCalls /\ QueuedOnce(m, k)
    BY <2>1 DEF LockTypeOK, QueueInv
  <2>3. ASSUME NEW j \in DOMAIN waiting'[m], waiting'[m][i] = waiting'[m][j] PROVE i = j
    <3>1. Before(m, j) \in DOMAIN waiting[m] /\ waiting[m][Before(m, j)] = d /\ j \in Nat
      BY <1>8, <2>1, <2>3
    <3>2. k = Before(m, j)
      BY <2>1, <2>2, <3>1 DEF QueuedOnce
    <3> QED
      BY <2>1, <3>1, <3>2
  <2>4. taken[d] < Len(scope[d]) /\ Wanted(d).lock = m
    BY <2>1, <2>2 DEF QueuedOnce
  <2>5. taken'[d] < Len(scope'[d]) /\ Wanted(d)'.lock = m
    BY <1>3, <1>9, <2>1, <2>2, <2>4
  <2> QED
    BY <2>1, <2>3, <2>5 DEF QueuedOnce
<1> QED
  BY <1>5, <1>10 DEF QueueInv

LEMMA LocksNext ==
  LockTypeOK /\ QueueInv /\ [LockNext]_lockVars => (LockTypeOK /\ QueueInv)'
<1>1. ASSUME LockTypeOK, QueueInv, UNCHANGED lockVars PROVE (LockTypeOK /\ QueueInv)'
  BY <1>1 DEF lockVars, LockTypeOK, QueueInv, QueuedOnce, Wanted
<1> QED
  BY <1>1, ScopeStep, AskStep, TakeStep DEF LockNext

\* What a waiting call of the highest rank waits for.
LEMMA NoneOfThemWaits ==
  ASSUME LockTypeOK, QueueInv, NEW S \in SUBSET ToolCalls, S # {}, \A c \in S : Waits(c)
  PROVE  \E c \in S : \A d \in S : ~WaitsFor(c, d)
<1> DEFINE R(c) == Rank[Wanted(c).lock]
<1>1. \A c \in S : Wanted(c).lock \in ServerLock /\ R(c) \in 1..4 /\ taken[c] < Len(scope[c])
  <2>1. ASSUME NEW c \in S PROVE Wanted(c).lock \in ServerLock /\ taken[c] < Len(scope[c])
    BY WantedIsRequest DEF Waits
  <2> QED
    BY <2>1 DEF Rank
<1>2. PICK b \in S : \A d \in S : R(d) <= R(b)
  <2> HIDE DEF R
  <2>5. \A c \in S : R(c) \in 1..4
    BY <1>1
  <2>1. CASE \E c \in S : R(c) = 4
    BY <2>1, <2>5
  <2>2. CASE (\A c \in S : R(c) # 4) /\ \E c \in S : R(c) = 3
    BY <2>2, <2>5
  <2>3. CASE (\A c \in S : R(c) \notin {3, 4}) /\ \E c \in S : R(c) = 2
    BY <2>3, <2>5
  <2>4. CASE \A c \in S : R(c) \notin {2, 3, 4}
    BY <2>4, <2>5
  <2> QED
    BY <2>1, <2>2, <2>3, <2>4, <2>5
<1> DEFINE l == Wanted(b).lock
           places == {i \in DOMAIN waiting[l] : waiting[l][i] \in S}
<1>3. l \in ServerLock /\ DOMAIN waiting[l] \subseteq Nat
  BY <1>1 DEF LockTypeOK
<1>4. places # {} /\ places \subseteq Nat
  BY <1>3 DEF Waits
<1>5. PICK first \in places : \A i \in places : ~(i < first)
  BY <1>4, LeastExists
<1>6. PICK c \in S : /\ c = waiting[l][first] /\ Wanted(c).lock = l
                     /\ first \in DOMAIN waiting[l]
  BY <1>3, <1>5 DEF QueueInv, QueuedOnce
<1> HIDE DEF l
<1>7. ASSUME NEW d \in S, NEW e \in BOOLEAN, HoldsLock(d, l, e) PROVE FALSE
  <2>1. PICK i \in 1..taken[d] : scope[d][i] = [lock |-> l, exclusive |-> e]
    BY <1>7 DEF HoldsLock
  <2>2. taken[d] \in Nat /\ taken[d] < Len(scope[d]) /\ scope[d] \in Scopes
    BY <1>1, WantedIsRequest DEF LockTypeOK
  <2>3. Len(scope[d]) \in Nat
    BY <2>2, ScopesAscend
  <2>4. i \in 1..Len(scope[d]) /\ taken[d] + 1 \in 1..Len(scope[d]) /\ i < taken[d] + 1
    BY <2>1, <2>2, <2>3
  <2>5. Rank[scope[d][i].lock] < Rank[scope[d][taken[d] + 1].lock]
    BY <2>2, <2>4, ScopesAscend
  <2>6. scope[d][i].lock = l /\ R(d) = Rank[scope[d][taken[d] + 1].lock] /\ R(b) = Rank[l]
    BY <2>1 DEF Wanted, l
  <2> QED
    BY <1>1, <1>2, <2>5, <2>6
<1>8. ASSUME NEW d \in S, NEW i \in DOMAIN waiting[l], NEW j \in DOMAIN waiting[l],
             i < j, waiting[l][i] = d, waiting[l][j] = c
      PROVE  FALSE
  <2>1. j = first
    BY <1>3, <1>6, <1>8 DEF QueueInv, QueuedOnce
  <2>2. i \in places
    BY <1>8
  <2> QED
    BY <1>5, <1>8, <2>1, <2>2
<1>9. \A d \in S : ~WaitsFor(c, d)
  BY <1>6, <1>7, <1>8 DEF WaitsFor, Holders
<1> QED
  <2> WITNESS c \in S
  <2> QED
    BY <1>9

LEMMA LocksInit == LockInit => LockTypeOK /\ QueueInv
<1> SUFFICES ASSUME LockInit PROVE LockTypeOK /\ QueueInv
  OBVIOUS
<1>1. /\ scope = [c \in ToolCalls |-> << >>] /\ taken = [c \in ToolCalls |-> 0]
      /\ waiting = [l \in ServerLock |-> << >>]
  BY DEF LockInit
<1>2. << >> \in Seq(ToolCalls) /\ Len(<< >>) = 0 /\ DOMAIN << >> = {}
  OBVIOUS
<1> QED
  BY <1>1, <1>2 DEF LockTypeOK, QueueInv

\* No calls of the server ever wait for each other, however many there are: every function
\* takes the locks it holds together in one order.
THEOREM CallsNeverDeadlock == LockSpec => []NoCircularWait
<1>1. LockTypeOK /\ QueueInv => NoCircularWait
  <2>1. ASSUME LockTypeOK, QueueInv, NEW S \in SUBSET {c \in ToolCalls : Waits(c)}, S # {}
        PROVE  \E c \in S : \A d \in S : ~WaitsFor(c, d)
    <3>1. S \in (SUBSET ToolCalls) \ {{}} /\ \A c \in S : Waits(c)
      BY <2>1
    <3> QED
      BY <2>1, <3>1, NoneOfThemWaits
  <2> QED
    BY <2>1 DEF NoCircularWait
<1> QED
  BY <1>1, LocksInit, LocksNext, PTL DEF LockSpec

\* Each call holds no more locks than its function takes, and each lock is waited for by calls.
THEOREM LockTypeCorrect == LockSpec => []LockTypeOK
BY LocksInit, LocksNext, PTL DEF LockSpec

-----------------------------------------------------------------------------
(***************************************************************************)
(* StatsFlush.  While no two flushes were at work at once, one process at  *)
(* most merges, what it has read is what the file holds when it writes,    *)
(* and the file and the buffers make up all that was recorded.             *)
(***************************************************************************)

StatsData == [total : Nat, scores : Seq(Int)]
StatsSteps == {"ready", "locks", "breaks", "reads", "writes", "unlocks"}

StatsShape ==
  /\ statsFile \in StatsData
  /\ current \in [StatsProcs -> StatsData] /\ baseline \in [StatsProcs -> StatsData]
  /\ disk \in [StatsProcs -> StatsData] /\ statsProc \in [StatsProcs -> StatsSteps]
  /\ counted \in Int /\ scored \in Seq(Int) /\ statsKilled \in Nat
  /\ \A p \in StatsProcs : /\ baseline[p].total <= current[p].total
                           /\ current[p] = NoBuffer => baseline[p] = NoBuffer

\* What the buffer of each process scores beyond its baseline.
PendingScores == [p \in StatsProcs |-> Len(current[p].scores) - Len(baseline[p].scores)]

MergesAlone ==
  /\ \A p, q \in StatsProcs : Merges(p) /\ Merges(q) => p = q
  /\ \A p \in StatsProcs : statsProc[p] = "writes" => disk[p] = statsFile

CountInv ==
  /\ StatsShape
  /\ ~collided => MergesAlone /\ counted = statsFile.total + SumFunction(Pending)

(***************************************************************************)
(* The scores that are kept.                                               *)
(***************************************************************************)

LEMMA NewestFrom ==
  ASSUME NEW n \in Nat
  PROVE  \E m \in Int : /\ m = IF n > MaxScores THEN n - MaxScores + 1 ELSE 1
                        /\ 1 <= m /\ (n # 0 => m <= n)
<1>1. PICK k \in Int : k = MaxScores /\ 1 <= k
  BY StatsAssumption
<1>2. (IF n > k THEN n - k + 1 ELSE 1) \in Int
  BY <1>1
<1>3. PICK m \in Int : m = IF n > k THEN n - k + 1 ELSE 1
  BY <1>2
<1>4. 1 <= m /\ (n # 0 => m <= n)
  BY <1>1, <1>3
<1> QED
  BY <1>1, <1>3, <1>4

LEMMA NewestAppended ==
  ASSUME NEW s \in Seq(Int), NEW x \in Int
  PROVE  /\ Newest(Append(s, x)) \in Seq(Int) /\ Len(Newest(Append(s, x))) # 0
         /\ Newest(Append(s, x))[Len(Newest(Append(s, x)))] = x
<1>1. PICK t : t = Append(s, x)
  OBVIOUS
<1>2. t \in Seq(Int) /\ Len(t) \in Nat /\ Len(t) # 0 /\ t[Len(t)] = x
  BY <1>1
<1>3. PICK m \in Int : /\ m = IF Len(t) > MaxScores THEN Len(t) - MaxScores + 1 ELSE 1
                       /\ 1 <= m /\ (Len(t) # 0 => m <= Len(t))
  BY <1>2, NewestFrom
<1>4. PICK u : u = SubSeq(t, m, Len(t))
  OBVIOUS
<1>5. \A i \in m..Len(t) : t[i] \in Int
  BY <1>2, <1>3
<1>6. /\ u \in Seq(Int) /\ Len(u) = Len(t) - m + 1
      /\ \A i \in 1..(Len(t) - m + 1) : u[i] = t[m + i - 1]
  <2>1. PICK n \in Int : n = Len(t) /\ m <= n
    BY <1>2, <1>3
  <2>2. \A i \in m..n : t[i] \in Int
    BY <1>5, <2>1
  <2>3. /\ SubSeq(t, m, n) \in Seq(Int)
        /\ Len(SubSeq(t, m, n)) = IF m <= n THEN n - m + 1 ELSE 0
        /\ \A i \in 1..n - m + 1 : SubSeq(t, m, n)[i] = t[m + i - 1]
    BY <2>2, SubSeqProperties
  <2> QED
    BY <1>4, <2>1, <2>3
<1>7. u[Len(u)] = x /\ Len(u) # 0
  <2>1. PICK n \in Nat : n = Len(t) /\ n # 0 /\ m <= n
    BY <1>2, <1>3
  <2>2. Len(u) = n - m + 1 /\ n - m + 1 \in 1..(n - m + 1) /\ m + (n - m + 1) - 1 = n
    BY <1>3, <1>6, <2>1
  <2>3. u[n - m + 1] = t[m + (n - m + 1) - 1]
    BY <1>6, <2>1, <2>2
  <2> QED
    BY <1>2, <1>3, <2>1, <2>2, <2>3
<1> QED
  BY <1>1, <1>3, <1>4, <1>6, <1>7 DEF Newest

LEMMA NewestIsSeq == ASSUME NEW s \in Seq(Int) PROVE Newest(s) \in Seq(Int)
<1>1. PICK m \in Int : /\ m = IF Len(s) > MaxScores THEN Len(s) - MaxScores + 1 ELSE 1
                       /\ 1 <= m
  <2>1. Len(s) \in Nat
    OBVIOUS
  <2> QED
    BY <2>1, NewestFrom
<1>2. \A i \in m..Len(s) : s[i] \in Int
  BY <1>1
<1>3. SubSeq(s, m, Len(s)) \in Seq(Int)
  BY <1>1, <1>2, SubSeqProperties
<1> QED
  BY <1>1, <1>3 DEF Newest

LEMMA NewestIsAll ==
  ASSUME NEW s \in Seq(Int), Len(s) <= MaxScores
  PROVE  Newest(s) = s
<1>1. ~(Len(s) > MaxScores)
  BY StatsAssumption
<1> QED
  BY <1>1, SubSeqFull DEF Newest

\* What a merge makes of a buffer is again such data.
LEMMA MergedData ==
  ASSUME StatsShape, NEW p \in StatsProcs
  PROVE  /\ Merged(p) \in StatsData
         /\ Merged(p).total = disk[p].total + (current[p].total - baseline[p].total)
         /\ Merged(p).scores =
              Newest(disk[p].scores \o
                     SubSeq(current[p].scores, Len(baseline[p].scores) + 1, Len(current[p].scores)))
<1>1. PICK d, c, b : d = disk[p] /\ c = current[p] /\ b = baseline[p]
  OBVIOUS
<1>2. d \in StatsData /\ c \in StatsData /\ b \in StatsData
  BY <1>1 DEF StatsShape
<1>3. PICK s, k : s = c.scores /\ k = Len(b.scores) + 1
  OBVIOUS
<1>4. s \in Seq(Int) /\ k \in Nat /\ k >= 1 /\ d.scores \in Seq(Int)
  BY <1>2, <1>3 DEF StatsData
<1>5. SubSeq(s, k, Len(s)) \in Seq(Int)
  <2>1. \A i \in k..Len(s) : s[i] \in Int
    BY <1>4
  <2> QED
    BY <1>4, <2>1, SubSeqProperties
<1>6. PICK j \in Seq(Int) : j = d.scores \o SubSeq(s, k, Len(s))
  BY <1>4, <1>5, ConcatProperties
<1>7. Newest(j) \in Seq(Int) /\ d.total + (c.total - b.total) \in Nat
  <2>1. d.total \in Nat /\ c.total \in Nat /\ b.total \in Nat /\ b.total <= c.total
    BY <1>1, <1>2 DEF StatsData, StatsShape
  <2> QED
    BY <2>1, NewestIsSeq
<1> QED
  BY <1>1, <1>3, <1>6, <1>7 DEF Merged, StatsData

(***************************************************************************)
(* The sums.                                                               *)
(***************************************************************************)

LEMMA PendingTyped ==
  ASSUME StatsShape
  PROVE  /\ DOMAIN Pending = StatsProcs /\ DOMAIN PendingScores = StatsProcs
         /\ \A p \in StatsProcs : /\ Pending[p] = current[p].total - baseline[p].total
                                  /\ PendingScores[p] =
                                       Len(current[p].scores) - Len(baseline[p].scores)
                                  /\ Pending[p] \in Int /\ PendingScores[p] \in Int
<1>1. \A p \in StatsProcs : current[p] \in StatsData /\ baseline[p] \in StatsData
  BY DEF StatsShape
<1>2. \A p \in StatsProcs : /\ current[p].total \in Int /\ baseline[p].total \in Int
                            /\ Len(current[p].scores) \in Int /\ Len(baseline[p].scores) \in Int
  BY <1>1 DEF StatsData
<1> QED
  BY <1>2 DEF Pending, PendingScores

LEMMA PendingSums ==
  ASSUME StatsShape
  PROVE  /\ SumFunction(Pending) = SumFunctionOnSet(Pending, StatsProcs)
         /\ SumFunction(PendingScores) = SumFunctionOnSet(PendingScores, StatsProcs)
         /\ SumFunction(Pending) \in Int /\ SumFunction(PendingScores) \in Int
<1>1. PICK f, h : f = Pending /\ h = PendingScores
  OBVIOUS
<1>2. SumFunctionOnSet(f, StatsProcs) \in Int /\ SumFunctionOnSet(h, StatsProcs) \in Int
  BY <1>1, PendingTyped, SumIsInt, StatsAssumption
<1> QED
  BY <1>1, <1>2, PendingTyped DEF SumFunction

\* When the buffer of one process changes, the sums change by what changes there.
LEMMA PendingStep ==
  ASSUME StatsShape, StatsShape', NEW p \in StatsProcs,
         \A q \in StatsProcs : q # p => UNCHANGED <<current[q], baseline[q]>>
  PROVE  /\ SumFunction(Pending)' = SumFunction(Pending) + (Pending'[p] - Pending[p])
         /\ SumFunction(PendingScores)' =
              SumFunction(PendingScores) + (PendingScores'[p] - PendingScores[p])
<1>1. PICK f, e : f = Pending /\ e = Pending'
  OBVIOUS
<1>2. PICK g, h : g = PendingScores /\ h = PendingScores'
  OBVIOUS
<1>3. \A q \in StatsProcs : f[q] \in Int /\ g[q] \in Int
  BY <1>1, <1>2, PendingTyped
<1>4. \A q \in StatsProcs : e[q] \in Int /\ h[q] \in Int
  <2>1. \A q \in StatsProcs : current'[q] \in StatsData /\ baseline'[q] \in StatsData
    BY DEF StatsShape
  <2>2. \A q \in StatsProcs :
          /\ current'[q].total \in Int /\ baseline'[q].total \in Int
          /\ Len(current'[q].scores) \in Int /\ Len(baseline'[q].scores) \in Int
    BY <2>1 DEF StatsData
  <2> QED
    BY <1>1, <1>2, <2>2 DEF Pending, PendingScores
<1>5. \A q \in StatsProcs : q # p => f[q] = e[q] /\ g[q] = h[q]
  BY <1>1, <1>2 DEF Pending, PendingScores
<1>6. SumFunctionOnSet(e, StatsProcs) = SumFunctionOnSet(f, StatsProcs) + (e[p] - f[p])
  BY <1>3, <1>4, <1>5, SumChanges, StatsAssumption
<1>7. SumFunctionOnSet(h, StatsProcs) = SumFunctionOnSet(g, StatsProcs) + (h[p] - g[p])
  BY <1>3, <1>4, <1>5, SumChanges, StatsAssumption
<1>8. /\ SumFunction(Pending)' = SumFunctionOnSet(Pending', StatsProcs)
      /\ SumFunction(PendingScores)' = SumFunctionOnSet(PendingScores', StatsProcs)
  <2>1. DOMAIN Pending' = StatsProcs /\ DOMAIN PendingScores' = StatsProcs
    BY DEF Pending, PendingScores
  <2> QED
    BY <2>1 DEF SumFunction
<1> QED
  BY <1>1, <1>2, <1>6, <1>7, <1>8, PendingSums

(***************************************************************************)
(* The steps, one by one.                                                  *)
(***************************************************************************)

LEMMA StartData == NoBuffer \in StatsData /\ Empty \in StatsData /\ NoBuffer.total = 0
                   /\ NoBuffer.scores = <<0>> /\ Empty.total = 0 /\ Empty.scores = << >>
BY DEF NoBuffer, Empty, StatsData

LEMMA BufferData ==
  ASSUME StatsShape, NEW p \in StatsProcs
  PROVE  /\ Buffer(p) \in StatsData /\ Base(p) \in StatsData /\ Base(p).total <= Buffer(p).total
         /\ Buffer(p).total - Base(p).total = Pending[p]
         /\ Len(Buffer(p).scores) - Len(Base(p).scores) = PendingScores[p]
<1>1. /\ current[p] \in StatsData /\ baseline[p] \in StatsData /\ statsFile \in StatsData
      /\ baseline[p].total <= current[p].total
      /\ Pending[p] = current[p].total - baseline[p].total
      /\ PendingScores[p] = Len(current[p].scores) - Len(baseline[p].scores)
  BY PendingTyped DEF StatsShape
<1>2. CASE current[p] = NoBuffer
  <2>1. Buffer(p) = statsFile /\ Base(p) = statsFile /\ baseline[p] = current[p]
    BY <1>2 DEF Buffer, Base, StatsShape
  <2>2. /\ statsFile.total \in Nat /\ current[p].total \in Nat
        /\ Len(statsFile.scores) \in Nat /\ Len(current[p].scores) \in Nat
    BY <1>1 DEF StatsData
  <2> QED
    BY <1>1, <2>1, <2>2
<1>3. CASE current[p] # NoBuffer
  BY <1>1, <1>3 DEF Buffer, Base
<1> QED
  BY <1>2, <1>3

\* A step that touches no process but one.
OnlyOf(p) ==
  /\ current' = [current EXCEPT ![p] = current'[p]]
  /\ baseline' = [baseline EXCEPT ![p] = baseline'[p]]
  /\ statsProc' = [statsProc EXCEPT ![p] = statsProc'[p]]
  /\ disk' = [disk EXCEPT ![p] = disk'[p]]

\* What such a step may leave behind.
LeavesData(p) ==
  /\ current'[p] \in StatsData /\ baseline'[p] \in StatsData
  /\ baseline'[p].total <= current'[p].total
  /\ current'[p] = NoBuffer => baseline'[p] = NoBuffer
  /\ statsProc'[p] \in StatsSteps /\ disk'[p] \in StatsData
  /\ statsFile' \in StatsData /\ counted' \in Int /\ scored' \in Seq(Int) /\ statsKilled' \in Nat

LEMMA ShapeStep ==
  ASSUME StatsShape, NEW p \in StatsProcs, OnlyOf(p), LeavesData(p)
  PROVE  /\ StatsShape'
         /\ \A q \in StatsProcs : q # p => UNCHANGED <<current[q], baseline[q], statsProc[q], disk[q]>>
         /\ SumFunction(Pending)' =
              SumFunction(Pending) + ((current'[p].total - baseline'[p].total) - Pending[p])
         /\ SumFunction(PendingScores)' =
              SumFunction(PendingScores)
                + ((Len(current'[p].scores) - Len(baseline'[p].scores)) - PendingScores[p])
<1>1. \A q \in StatsProcs : q # p => UNCHANGED <<current[q], baseline[q], statsProc[q], disk[q]>>
  BY DEF StatsShape, OnlyOf
<1>2. StatsShape'
  <2>1. \A q \in StatsProcs : /\ baseline'[q].total <= current'[q].total
                              /\ current'[q] = NoBuffer => baseline'[q] = NoBuffer
    BY <1>1 DEF StatsShape, LeavesData
  <2>2. /\ current' \in [StatsProcs -> StatsData] /\ baseline' \in [StatsProcs -> StatsData]
    BY DEF StatsShape, OnlyOf, LeavesData
  <2>3. /\ disk' \in [StatsProcs -> StatsData] /\ statsProc' \in [StatsProcs -> StatsSteps]
    BY DEF StatsShape, OnlyOf, LeavesData
  <2> QED
    BY <2>1, <2>2, <2>3 DEF StatsShape, LeavesData
<1>3. /\ Pending'[p] = current'[p].total - baseline'[p].total
      /\ PendingScores'[p] = Len(current'[p].scores) - Len(baseline'[p].scores)
  BY DEF Pending, PendingScores
<1>4. \A q \in StatsProcs : q # p => UNCHANGED <<current[q], baseline[q]>>
  BY <1>1
<1>5. /\ SumFunction(Pending)' = SumFunction(Pending) + (Pending'[p] - Pending[p])
      /\ SumFunction(PendingScores)' =
              SumFunction(PendingScores) + (PendingScores'[p] - PendingScores[p])
  BY <1>2, <1>4, PendingStep
<1> QED
  BY <1>1, <1>2, <1>3, <1>5

\* The same where no buffer changes.
LEMMA ShapeStays ==
  ASSUME StatsShape, UNCHANGED <<current, baseline, counted, scored, statsFile>>,
         disk' \in [StatsProcs -> StatsData], statsProc' \in [StatsProcs -> StatsSteps],
         statsKilled' \in Nat
  PROVE  /\ StatsShape'
         /\ SumFunction(Pending)' = SumFunction(Pending)
         /\ SumFunction(PendingScores)' = SumFunction(PendingScores)
<1>1. StatsShape'
  BY DEF StatsShape
<1>2. Pending' = Pending /\ PendingScores' = PendingScores
  BY DEF Pending, PendingScores
<1> QED
  BY <1>1, <1>2 DEF SumFunction

\* A command or a score is recorded.
LEMMA RecordStep ==
  ASSUME StatsShape, NEW p \in StatsProcs, Record(p) \/ RecordScore(p)
  PROVE  /\ StatsShape' /\ UNCHANGED <<statsFile, collided, disk, statsKilled>>
         /\ statsProc[p] = "ready" /\ statsProc'[p] \in {"ready", "locks"}
         /\ current'[p] # NoBuffer /\ baseline'[p] = Base(p)
         /\ \A q \in StatsProcs : q # p => UNCHANGED <<current[q], baseline[q], statsProc[q]>>
         /\ SumFunction(Pending)' \in Int
         /\ counted' - counted = SumFunction(Pending)' - SumFunction(Pending)
         /\ SumFunction(PendingScores)' =
              SumFunction(PendingScores) + ((Len(current'[p].scores) - Len(Base(p).scores)) - PendingScores[p])
<1>1. PICK b, base, k : b = Buffer(p) /\ base = Base(p) /\ k = Len(scored) + 1
  OBVIOUS
<1>2. /\ b \in StatsData /\ base \in StatsData /\ base.total <= b.total
      /\ b.total - base.total = Pending[p] /\ k \in Nat /\ k # 0
      /\ counted \in Int /\ scored \in Seq(Int) /\ Append(scored, k) \in Seq(Int)
  <2>1. /\ b \in StatsData /\ base \in StatsData /\ base.total <= b.total
        /\ b.total - base.total = Pending[p]
    BY <1>1, BufferData
  <2>2. counted \in Int /\ scored \in Seq(Int)
    BY DEF StatsShape
  <2>3. k \in Nat /\ k # 0
    BY <1>1, <2>2
  <2> QED
    BY <2>1, <2>2, <2>3
<1>r. /\ b.total \in Nat /\ base.total \in Nat /\ b.scores \in Seq(Int)
      /\ b = [total |-> b.total, scores |-> b.scores]
  BY <1>2 DEF StatsData
<1>3. PICK cur \in StatsData, n \in {0, 1} :
        /\ current' = [current EXCEPT ![p] = cur]
        /\ cur # NoBuffer /\ cur.total = b.total + n /\ counted' = counted + n
        /\ scored' \in {scored, Append(scored, k)}
  <2>1. CASE Record(p)
    <3>1. PICK cur : cur = [b EXCEPT !.total = @ + 1]
      OBVIOUS
    <3>2. cur = [total |-> b.total + 1, scores |-> b.scores]
      BY <1>r, <3>1
    <3>a. cur \in StatsData /\ cur.total = b.total + 1
      BY <1>r, <3>2 DEF StatsData
    <3>3. cur # NoBuffer
      BY <1>r, <3>a, StartData
    <3> QED
      BY <1>1, <2>1, <3>1, <3>3, <3>a DEF Record
  <2>2. CASE RecordScore(p)
    <3>1. PICK w : w = Newest(Append(b.scores, k))
      OBVIOUS
    <3>2. w \in Seq(Int) /\ w # <<0>>
      <4>1. b.scores \in Seq(Int) /\ k \in Int
        BY <1>2, <1>r
      <4>2. w \in Seq(Int) /\ w[Len(w)] = k
        BY <3>1, <4>1, NewestAppended
      <4>3. <<0>>[Len(<<0>>)] = 0
        OBVIOUS
      <4> QED
        BY <1>2, <4>2, <4>3
    <3>3. PICK cur : cur = [b EXCEPT !.scores = w]
      OBVIOUS
    <3>a. cur = [total |-> b.total, scores |-> w]
      BY <1>r, <3>3
    <3>4. cur \in StatsData /\ cur.total = b.total /\ cur.scores = w /\ b.total + 0 = b.total
      BY <1>r, <3>2, <3>a DEF StatsData
    <3>5. cur # NoBuffer
      BY <3>2, <3>4, StartData
    <3>6. /\ current' = [current EXCEPT ![p] = cur] /\ counted' = counted + 0
          /\ scored' = Append(scored, k)
      BY <1>1, <1>2, <2>2, <3>1, <3>3 DEF RecordScore
    <3> QED
      BY <3>4, <3>5, <3>6
  <2> QED
    BY <2>1, <2>2
<1>4. PICK step \in {"ready", "locks"} : statsProc' = [statsProc EXCEPT ![p] = step]
  BY DEF Record, RecordScore
<1>5. /\ baseline' = [baseline EXCEPT ![p] = base]
      /\ UNCHANGED <<statsFile, disk, statsKilled, collided>> /\ statsProc[p] = "ready"
  BY <1>1 DEF Record, RecordScore
<1>d. PICK d \in StatsData : disk' = [disk EXCEPT ![p] = d]
  BY <1>5 DEF StatsShape
<1>6. step \in StatsSteps /\ statsFile' \in StatsData /\ statsKilled' \in Nat
  BY <1>5 DEF StatsShape, StatsSteps
<1>7. base.total <= cur.total /\ counted' \in Int /\ scored' \in Seq(Int)
      /\ (cur = NoBuffer => base = NoBuffer)
  <2>1. base.total <= cur.total /\ counted' \in Int
    BY <1>2, <1>3, <1>r
  <2>2. scored' \in Seq(Int) /\ cur # NoBuffer
    BY <1>2, <1>3
  <2> QED
    BY <2>1, <2>2
<1>a. /\ current'[p] = cur /\ baseline'[p] = base /\ statsProc'[p] = step /\ disk'[p] = d
  BY <1>3, <1>4, <1>5, <1>d DEF StatsShape
<1>8. /\ StatsShape'
      /\ \A q \in StatsProcs : q # p => UNCHANGED <<current[q], baseline[q], statsProc[q], disk[q]>>
      /\ SumFunction(Pending)' = SumFunction(Pending) + ((cur.total - base.total) - Pending[p])
      /\ SumFunction(PendingScores)' =
           SumFunction(PendingScores) + ((Len(cur.scores) - Len(base.scores)) - PendingScores[p])
  <2>1. OnlyOf(p)
    BY <1>3, <1>4, <1>5, <1>d, <1>a DEF OnlyOf
  <2>2. LeavesData(p)
    BY <1>2, <1>3, <1>6, <1>7, <1>d, <1>a DEF LeavesData
  <2> QED
    BY <2>1, <2>2, <1>a, ShapeStep
<1>9. /\ SumFunction(Pending)' \in Int
      /\ counted' - counted = SumFunction(Pending)' - SumFunction(Pending)
  <2>1. base.total \in Nat /\ b.total \in Nat
    BY <1>r
  <2>2. PICK s \in Int : s = SumFunction(Pending)
    BY PendingSums
  <2>3. SumFunction(Pending)' = s + n
    BY <1>2, <1>3, <1>8, <2>1, <2>2
  <2> QED
    BY <1>2, <1>3, <2>2, <2>3
<1> QED
  BY <1>1, <1>3, <1>4, <1>5, <1>8, <1>9, <1>a

\* The steps around the lock and the reading of the file change no buffer.
LEMMA LockStep ==
  ASSUME CountInv, NEW p \in StatsProcs,
         \/ Flush(p) \/ GetLock(p) \/ SeesStale(p) \/ BreakLock(p) \/ LockTimesOut(p)
         \/ ReadStats(p) \/ Unlock(p)
  PROVE  CountInv'
<1>1. UNCHANGED <<current, baseline, counted, scored, statsFile, statsKilled>>
  BY DEF Flush, GetLock, SeesStale, BreakLock, LockTimesOut, ReadStats, Unlock
<1>2. PICK step \in StatsSteps, d \in {disk[p], statsFile} :
        /\ statsProc' = [statsProc EXCEPT ![p] = step] /\ disk' = [disk EXCEPT ![p] = d]
        /\ step = "writes" => d = statsFile
  <2>1. disk = [disk EXCEPT ![p] = disk[p]]
    BY DEF CountInv, StatsShape
  <2> QED
    BY <2>1 DEF Flush, GetLock, SeesStale, BreakLock, LockTimesOut, ReadStats, Unlock, StatsSteps
<1>3. /\ statsProc'[p] = step /\ disk'[p] = d
      /\ \A q \in StatsProcs : q # p => statsProc'[q] = statsProc[q] /\ disk'[q] = disk[q]
  BY <1>2 DEF CountInv, StatsShape
<1>4. ~collided' => /\ ~collided
                    /\ step \in {"reads", "writes", "unlocks"} =>
                         Merges(p) \/ \A q \in StatsProcs : ~Merges(q)
  <2>1. CASE GetLock(p) \/ LockTimesOut(p)
    BY <2>1, Zenon DEF GetLock, LockTimesOut
  <2>2. CASE ReadStats(p)
    BY <2>2, Zenon DEF ReadStats, Merges
  <2>3. CASE Flush(p) \/ SeesStale(p) \/ BreakLock(p) \/ Unlock(p)
    <3>1. collided' = collided /\ statsProc'[p] \in {"locks", "breaks", "ready"}
      BY <2>3, <1>2, <1>3 DEF Flush, SeesStale, BreakLock, Unlock, CountInv, StatsShape
    <3>2. step \notin {"reads", "writes", "unlocks"}
      BY <3>1, <1>3
    <3> QED
      BY <3>1, <3>2, Zenon
  <2> QED
    BY <2>1, <2>2, <2>3
<1>5. /\ StatsShape' /\ SumFunction(Pending)' = SumFunction(Pending)
  <2>1. disk' \in [StatsProcs -> StatsData] /\ statsProc' \in [StatsProcs -> StatsSteps]
        /\ statsKilled' \in Nat
    BY <1>1, <1>2 DEF CountInv, StatsShape
  <2> QED
    BY <1>1, <2>1, ShapeStays DEF CountInv
<1>6. ASSUME ~collided' PROVE MergesAlone'
  <2>1. MergesAlone /\ ~collided
    BY <1>4, <1>6 DEF CountInv
  <2>2. \A q, r \in StatsProcs : Merges(q)' /\ Merges(r)' => q = r
    BY <1>3, <1>4, <1>6, <2>1 DEF MergesAlone, Merges
  <2>3. \A q \in StatsProcs : statsProc'[q] = "writes" => disk'[q] = statsFile'
    BY <1>1, <1>2, <1>3, <2>1 DEF MergesAlone
  <2> QED
    BY <2>2, <2>3 DEF MergesAlone
<1>7. ASSUME ~collided' PROVE counted' = statsFile'.total + SumFunction(Pending)'
  <2>1. counted = statsFile.total + SumFunction(Pending)
    BY <1>4, <1>7 DEF CountInv
  <2> QED
    BY <1>1, <1>5, <2>1
<1> QED
  BY <1>5, <1>6, <1>7 DEF CountInv

LEMMA AgingStep == ASSUME CountInv, LockGetsOld PROVE CountInv'
<1>1. UNCHANGED <<statsFile, current, baseline, statsProc, disk, statsKilled, counted, scored, collided>>
  BY DEF LockGetsOld
<1>2. Pending' = Pending
  BY <1>1 DEF Pending
<1> QED
  BY <1>1, <1>2 DEF CountInv, StatsShape, MergesAlone, Merges, SumFunction

LEMMA RecordCounts ==
  ASSUME CountInv, NEW p \in StatsProcs, Record(p) \/ RecordScore(p)
  PROVE  CountInv'
<1>1. /\ StatsShape' /\ UNCHANGED <<statsFile, collided, disk, statsKilled>>
      /\ statsProc[p] = "ready" /\ statsProc'[p] \in {"ready", "locks"}
      /\ \A q \in StatsProcs : q # p => UNCHANGED <<current[q], baseline[q], statsProc[q]>>
      /\ SumFunction(Pending)' \in Int
      /\ counted' - counted = SumFunction(Pending)' - SumFunction(Pending)
  BY RecordStep DEF CountInv
<1>2. ASSUME ~collided PROVE MergesAlone'
  BY <1>1, <1>2 DEF CountInv, MergesAlone, Merges
<1>3. ASSUME ~collided PROVE counted' = statsFile'.total + SumFunction(Pending)'
  <2>1. PICK n, m, t, u, w : /\ n = counted /\ m = counted' /\ t = statsFile.total
                             /\ u = SumFunction(Pending) /\ w = SumFunction(Pending)'
    OBVIOUS
  <2>2. n \in Int /\ t \in Int /\ u \in Int /\ n = t + u /\ m - n = w - u
    <3>1. n \in Int /\ t \in Int /\ u \in Int
      BY <2>1, PendingSums DEF CountInv, StatsShape, StatsData
    <3> QED
      BY <1>1, <1>3, <2>1, <3>1 DEF CountInv
  <2>3. m \in Int /\ w \in Int
    <3>1. counted' \in Int
      BY <1>1 DEF StatsShape
    <3> QED
      BY <1>1, <2>1, <3>1
  <2>4. m = t + w
    BY <2>2, <2>3
  <2> QED
    BY <1>1, <2>1, <2>4
<1> QED
  BY <1>1, <1>2, <1>3 DEF CountInv

\* The merged statistics reach the file, and the buffer starts again from them.
LEMMA WriteShape ==
  ASSUME CountInv, NEW p \in StatsProcs, WriteStats(p)
  PROVE  /\ StatsShape' /\ UNCHANGED <<statsKilled, counted, scored, collided>>
         /\ Merged(p) \in StatsData /\ statsProc[p] = "writes" /\ statsProc'[p] = "unlocks"
         /\ current'[p] = Merged(p) /\ baseline'[p] = Merged(p)
         /\ \A q \in StatsProcs : q # p => UNCHANGED <<current[q], baseline[q], statsProc[q], disk[q]>>
         /\ SumFunction(Pending)' = SumFunction(Pending) + (0 - Pending[p])
         /\ SumFunction(PendingScores)' = SumFunction(PendingScores) + (0 - PendingScores[p])
         /\ ~collided => statsFile' = Merged(p) /\ disk[p] = statsFile
<1>1. PICK m : m = Merged(p)
  OBVIOUS
<1>2. m \in StatsData
  BY <1>1, MergedData DEF CountInv
<1>3. /\ current' = [current EXCEPT ![p] = m] /\ baseline' = [baseline EXCEPT ![p] = m]
      /\ disk' = [disk EXCEPT ![p] = Empty] /\ statsProc' = [statsProc EXCEPT ![p] = "unlocks"]
      /\ statsProc[p] = "writes" /\ UNCHANGED <<statsKilled, counted, scored, collided>>
      /\ statsFile' \in {m} \union
           (IF \E q \in StatsProcs \ {p} : statsProc[q] = "writes" THEN {Empty} ELSE {})
  BY <1>1 DEF WriteStats
<1>4. /\ current'[p] = m /\ baseline'[p] = m /\ disk'[p] = Empty /\ statsProc'[p] = "unlocks"
  BY <1>3 DEF CountInv, StatsShape
<1>5. OnlyOf(p)
  BY <1>3, <1>4 DEF OnlyOf
<1>6. m.total \in Nat /\ Len(m.scores) \in Nat
  BY <1>2 DEF StatsData
<1>7. LeavesData(p)
  <2>1. statsFile' \in StatsData
    BY <1>2, <1>3, StartData
  <2>2. "unlocks" \in StatsSteps
    BY DEF StatsSteps
  <2> QED
    BY <1>2, <1>3, <1>4, <1>6, <2>1, <2>2, StartData DEF LeavesData, CountInv, StatsShape
<1>8. /\ StatsShape'
      /\ \A q \in StatsProcs : q # p => UNCHANGED <<current[q], baseline[q], statsProc[q], disk[q]>>
      /\ SumFunction(Pending)' = SumFunction(Pending) + ((m.total - m.total) - Pending[p])
      /\ SumFunction(PendingScores)' =
           SumFunction(PendingScores) + ((Len(m.scores) - Len(m.scores)) - PendingScores[p])
  BY <1>4, <1>5, <1>7, ShapeStep DEF CountInv
<1>9. m.total - m.total = 0 /\ Len(m.scores) - Len(m.scores) = 0
  BY <1>6
<1>10. ~collided => statsFile' = m /\ disk[p] = statsFile
  <2> SUFFICES ASSUME ~collided PROVE statsFile' = m /\ disk[p] = statsFile
    OBVIOUS
  <2>1. \A q \in StatsProcs : q # p => ~Merges(q)
    BY <1>3 DEF CountInv, MergesAlone, Merges
  <2> QED
    BY <1>3, <2>1 DEF Merges, CountInv, MergesAlone
<1> QED
  BY <1>1, <1>2, <1>3, <1>4, <1>8, <1>9, <1>10

LEMMA WriteStep ==
  ASSUME CountInv, NEW p \in StatsProcs, WriteStats(p)
  PROVE  CountInv'
<1>1. /\ StatsShape' /\ UNCHANGED <<statsKilled, counted, scored, collided>>
      /\ Merged(p) \in StatsData /\ statsProc[p] = "writes" /\ statsProc'[p] = "unlocks"
      /\ \A q \in StatsProcs : q # p => UNCHANGED <<statsProc[q], disk[q]>>
      /\ SumFunction(Pending)' = SumFunction(Pending) + (0 - Pending[p])
      /\ ~collided => statsFile' = Merged(p) /\ disk[p] = statsFile
  BY WriteShape
<1>2. ASSUME ~collided PROVE MergesAlone' /\ counted' = statsFile'.total + SumFunction(Pending)'
  <2>1. \A q \in StatsProcs : q # p => ~Merges(q)
    BY <1>1, <1>2 DEF CountInv, MergesAlone, Merges
  <2>2. MergesAlone'
    BY <1>1, <2>1 DEF MergesAlone, Merges
  <2>3. counted = statsFile.total + SumFunction(Pending)
    BY <1>2 DEF CountInv
  <2>4. /\ Pending[p] \in Int /\ Pending[p] = current[p].total - baseline[p].total
        /\ SumFunction(Pending) \in Int
    BY PendingTyped, PendingSums DEF CountInv
  <2>5. Merged(p).total = statsFile.total + Pending[p]
    BY <1>1, <1>2, <2>4, MergedData DEF CountInv
  <2>6. statsFile.total \in Int
    BY DEF CountInv, StatsShape, StatsData
  <2>7. counted' = statsFile'.total + SumFunction(Pending)'
    BY <1>1, <1>2, <2>3, <2>4, <2>5, <2>6
  <2> QED
    BY <2>2, <2>7
<1> QED
  BY <1>1, <1>2 DEF CountInv

\* What a process has not merged goes with it.
LEMMA KillStatsStep ==
  ASSUME CountInv, NEW p \in StatsProcs, KillStats(p)
  PROVE  CountInv'
<1>1. /\ current' = [current EXCEPT ![p] = NoBuffer] /\ baseline' = [baseline EXCEPT ![p] = NoBuffer]
      /\ disk' = [disk EXCEPT ![p] = Empty] /\ statsProc' = [statsProc EXCEPT ![p] = "ready"]
      /\ counted' = counted - (current[p].total - baseline[p].total)
      /\ statsKilled' = statsKilled + 1 /\ UNCHANGED <<statsFile, scored, collided>>
  BY DEF KillStats
<1>2. /\ current'[p] = NoBuffer /\ baseline'[p] = NoBuffer /\ disk'[p] = Empty
      /\ statsProc'[p] = "ready"
  BY <1>1 DEF CountInv, StatsShape
<1>3. OnlyOf(p)
  BY <1>1, <1>2 DEF OnlyOf
<1>4. Pending[p] = current[p].total - baseline[p].total /\ Pending[p] \in Int
  BY PendingTyped DEF CountInv
<1>5. LeavesData(p)
  <2>1. counted' \in Int /\ statsKilled' \in Nat
    BY <1>1, <1>4 DEF CountInv, StatsShape
  <2>2. "ready" \in StatsSteps /\ statsFile' \in StatsData /\ scored' \in Seq(Int)
    BY <1>1 DEF StatsSteps, CountInv, StatsShape
  <2> QED
    BY <1>2, <2>1, <2>2, StartData DEF LeavesData
<1>6. /\ StatsShape'
      /\ \A q \in StatsProcs : q # p => UNCHANGED <<current[q], baseline[q], statsProc[q], disk[q]>>
      /\ SumFunction(Pending)' = SumFunction(Pending) + ((0 - 0) - Pending[p])
  BY <1>2, <1>3, <1>5, ShapeStep, StartData DEF CountInv
<1>7. ASSUME ~collided PROVE MergesAlone' /\ counted' = statsFile'.total + SumFunction(Pending)'
  <2>1. MergesAlone'
    BY <1>1, <1>2, <1>6, <1>7 DEF CountInv, MergesAlone, Merges
  <2>2. counted = statsFile.total + SumFunction(Pending)
    BY <1>7 DEF CountInv
  <2>3. SumFunction(Pending) \in Int /\ statsFile.total \in Int
    BY PendingSums DEF CountInv, StatsShape, StatsData
  <2> QED
    BY <1>1, <1>4, <1>6, <2>1, <2>2, <2>3
<1>8. collided' = collided
  BY <1>1
<1>9. ~collided' => MergesAlone' /\ counted' = statsFile'.total + SumFunction(Pending)'
  BY <1>7, <1>8
<1> QED
  BY <1>6, <1>9 DEF CountInv

\* A function that is zero everywhere sums to zero.
LEMMA SumOfZeros ==
  ASSUME NEW S, IsFiniteSet(S), NEW f, \A x \in S : f[x] = 0
  PROVE  SumFunctionOnSet(f, S) = 0
<1> DEFINE Bad == {T \in SUBSET S : SumFunctionOnSet(f, T) # 0}
<1> SUFFICES ASSUME Bad # {} PROVE FALSE
  OBVIOUS
<1>1. PICK T \in Bad : \A x \in T : T \ {x} \in SUBSET S /\ T \ {x} \notin Bad
  <2>1. PICK B : B = Bad
    OBVIOUS
  <2>2. B \subseteq SUBSET S /\ B # {}
    BY <2>1
  <2>3. \E T \in B : \A x \in T : T \ {x} \in SUBSET S /\ T \ {x} \notin B
    BY <2>2, SmallestBad
  <2> QED
    BY <2>1, <2>3
<1>2. T # {}
  BY SumEmpty
<1>3. PICK x : x \in T
  BY <1>2
<1>4. SumFunctionOnSet(f, T) = f[x] + SumFunctionOnSet(f, T \ {x})
  <2>1. T \subseteq S /\ IsFiniteSet(T)
    BY <1>1, FS_Subset
  <2>2. \A y \in T : f[y] \in Int
    BY <2>1
  <2> QED
    BY <1>3, <2>1, <2>2, SumLess
<1>5. SumFunctionOnSet(f, T \ {x}) = 0 /\ f[x] = 0
  BY <1>1, <1>3
<1> QED
  BY <1>1, <1>4, <1>5

LEMMA CountInit == StatsInit => CountInv
<1> SUFFICES ASSUME StatsInit PROVE CountInv
  OBVIOUS
<1>1. StatsShape
  BY StartData DEF StatsInit, StatsShape, StatsSteps
<1>2. MergesAlone
  BY DEF StatsInit, MergesAlone, Merges
<1>3. PICK f : f = Pending
  OBVIOUS
<1>4. \A p \in StatsProcs : f[p] = 0
  BY <1>3, StartData DEF StatsInit, Pending
<1>5. SumFunctionOnSet(f, StatsProcs) = 0
  BY <1>4, SumOfZeros, StatsAssumption
<1>6. SumFunction(Pending) = 0
  BY <1>1, <1>3, <1>5, PendingSums
<1> QED
  BY <1>1, <1>2, <1>6, StartData DEF CountInv, StatsInit

LEMMA CountStep == CountInv /\ [StatsNext]_statsVars => CountInv'
<1> SUFFICES ASSUME CountInv, [StatsNext]_statsVars PROVE CountInv'
  OBVIOUS
<1>1. CASE LockGetsOld
  BY <1>1, AgingStep
<1>2. ASSUME NEW p \in StatsProcs, StatsStep(p) PROVE CountInv'
  <2>1. CASE Record(p) \/ RecordScore(p)
    BY <2>1, RecordCounts
  <2>2. CASE \/ Flush(p) \/ GetLock(p) \/ SeesStale(p) \/ BreakLock(p) \/ LockTimesOut(p)
             \/ ReadStats(p) \/ Unlock(p)
    BY <2>2, LockStep
  <2>3. CASE WriteStats(p)
    BY <2>3, WriteStep
  <2>4. CASE KillStats(p)
    BY <1>2, <2>4, KillStatsStep
  <2> QED
    BY <1>2, <2>1, <2>2, <2>3, <2>4, Zenon DEF StatsStep
<1>3. CASE UNCHANGED statsVars
  <2>1. UNCHANGED <<statsFile, current, baseline, statsProc, disk, statsKilled, counted, scored, collided>>
    BY <1>3 DEF statsVars
  <2>2. Pending' = Pending
    BY <2>1 DEF Pending
  <2> QED
    BY <2>1, <2>2 DEF CountInv, StatsShape, MergesAlone, Merges, SumFunction
<1> QED
  BY <1>1, <1>2, <1>3 DEF StatsNext

(***************************************************************************)
(* The scores.  Below the limit nothing is cut away, so that what a buffer *)
(* holds beyond its baseline is what the file does not have yet.           *)
(***************************************************************************)

Orderly == ~collided /\ statsKilled = 0 /\ Len(scored) <= MaxScores

\* What the buffer was filled with is in the file; 0 is no score.
Follows(p) ==
  /\ Len(baseline[p].scores) <= Len(current[p].scores)
  /\ Len(baseline[p].scores) <= Len(statsFile.scores)
  /\ \A i \in 1..Len(baseline[p].scores) : current[p].scores[i] \in ToSet(statsFile.scores)
  /\ 0 \notin ToSet(current[p].scores)

Waiting == UNION {ToSet(current[p].scores) \ {0} : p \in StatsProcs}

ScoreInv ==
  Orderly => /\ Len(scored) = Len(statsFile.scores) + SumFunction(PendingScores)
             /\ ToSet(scored) = ToSet(statsFile.scores) \union Waiting
             /\ 0 \notin ToSet(scored)
             /\ \A p \in StatsProcs : statsProc[p] # "ready" => current[p] # NoBuffer
             /\ \A p \in StatsProcs : current[p] # NoBuffer => Follows(p)

\* No buffer holds more than what was scored.
LEMMA LengthsFit ==
  ASSUME StatsShape, ScoreInv, Orderly, NEW p \in StatsProcs
  PROVE  /\ PendingScores[p] >= 0
         /\ Len(statsFile.scores) + PendingScores[p] <= Len(scored)
         /\ Len(Buffer(p).scores) <= Len(scored)
<1>1. \A q \in StatsProcs : PendingScores[q] \in Int /\ PendingScores[q] >= 0
  <2> SUFFICES ASSUME NEW q \in StatsProcs
               PROVE  PendingScores[q] \in Int /\ PendingScores[q] >= 0
    OBVIOUS
  <2>1. /\ PendingScores[q] = Len(current[q].scores) - Len(baseline[q].scores)
        /\ PendingScores[q] \in Int
        /\ Len(current[q].scores) \in Int /\ Len(baseline[q].scores) \in Int
    <3>1. current[q] \in StatsData /\ baseline[q] \in StatsData
      BY DEF StatsShape
    <3>2. Len(current[q].scores) \in Int /\ Len(baseline[q].scores) \in Int
      BY <3>1 DEF StatsData
    <3> QED
      BY <3>2, PendingTyped
  <2>2. CASE current[q] = NoBuffer
    <3>1. baseline[q] = current[q]
      BY <2>2 DEF StatsShape
    <3> QED
      BY <2>1, <3>1
  <2>3. CASE current[q] # NoBuffer
    <3>1. Len(baseline[q].scores) <= Len(current[q].scores)
      BY <2>3 DEF ScoreInv, Follows
    <3> QED
      BY <2>1, <3>1
  <2> QED
    BY <2>2, <2>3
<1>2. PICK f : f = PendingScores
  OBVIOUS
<1>3. IsFiniteSet(StatsProcs \ {p}) /\ \A q \in StatsProcs : f[q] \in Int /\ f[q] >= 0
  BY <1>1, <1>2, StatsAssumption, FS_Subset
<1>4. SumFunctionOnSet(f, StatsProcs) = f[p] + SumFunctionOnSet(f, StatsProcs \ {p})
  BY <1>3, SumLess, StatsAssumption
<1>5. /\ SumFunctionOnSet(f, StatsProcs \ {p}) \in Int
      /\ SumFunctionOnSet(f, StatsProcs \ {p}) >= 0
  <2>1. PICK R : R = StatsProcs \ {p}
    OBVIOUS
  <2>2. IsFiniteSet(R) /\ R \in SUBSET R /\ \A q \in R : f[q] \in Int /\ f[q] >= 0
    BY <1>3, <2>1
  <2>3. SumFunctionOnSet(f, R) \in Int /\ SumFunctionOnSet(f, R) >= 0
    BY <2>2, SumIsInt
  <2> QED
    BY <2>1, <2>3
<1>6. SumFunction(PendingScores) >= PendingScores[p] /\ SumFunction(PendingScores) \in Int
  <2>1. SumFunction(PendingScores) = SumFunctionOnSet(f, StatsProcs)
    BY <1>2, PendingSums
  <2> QED
    BY <1>2, <1>3, <1>4, <1>5, <2>1
<1>7. /\ Len(scored) = Len(statsFile.scores) + SumFunction(PendingScores)
      /\ Len(statsFile.scores) \in Nat
  BY DEF ScoreInv, StatsShape, StatsData
<1>8. Len(statsFile.scores) + PendingScores[p] <= Len(scored)
  BY <1>1, <1>6, <1>7
<1>9. Len(Buffer(p).scores) <= Len(scored)
  <2>1. CASE current[p] = NoBuffer
    BY <1>1, <1>6, <1>7, <2>1 DEF Buffer
  <2>2. CASE current[p] # NoBuffer
    <3>1. /\ Buffer(p) = current[p] /\ Len(baseline[p].scores) <= Len(statsFile.scores)
          /\ Len(current[p].scores) \in Int /\ Len(baseline[p].scores) \in Int
      BY <2>2 DEF Buffer, ScoreInv, Follows, StatsShape, StatsData
    <3>2. PendingScores[p] = Len(current[p].scores) - Len(baseline[p].scores)
      BY PendingTyped
    <3>3. PICK a, b, n, k, m : /\ a = Len(current[p].scores) /\ b = Len(baseline[p].scores)
                               /\ n = Len(statsFile.scores) /\ k = PendingScores[p] /\ m = Len(scored)
      OBVIOUS
    <3>4. a \in Int /\ b \in Int /\ n \in Int /\ k \in Int /\ m \in Int
      BY <1>1, <1>7, <3>1, <3>3 DEF StatsShape
    <3>5. b <= n /\ k = a - b /\ n + k <= m
      BY <1>8, <3>1, <3>2, <3>3
    <3>6. a <= m
      BY <3>4, <3>5
    <3> QED
      BY <3>1, <3>3, <3>6
  <2> QED
    BY <2>1, <2>2
<1> QED
  BY <1>1, <1>8, <1>9

LEMMA ToSetIs ==
  ASSUME NEW s \in Seq(Int)
  PROVE  /\ Len(s) \in Nat /\ \A i \in 1..Len(s) : s[i] \in ToSet(s)
         /\ \A x \in ToSet(s) : \E i \in 1..Len(s) : s[i] = x
BY DEF ToSet

LEMMA ToSetGrown ==
  ASSUME NEW s \in Seq(Int), NEW t \in Seq(Int), NEW b \in Nat, b <= Len(t),
         \A i \in 1..b : t[i] \in ToSet(s)
  PROVE  /\ Len(s \o SubSeq(t, b + 1, Len(t))) = Len(s) + (Len(t) - b)
         /\ s \o SubSeq(t, b + 1, Len(t)) \in Seq(Int)
         /\ ToSet(s \o SubSeq(t, b + 1, Len(t))) = ToSet(s) \union ToSet(t)
<1>1. PICK n \in Nat, m \in Nat : n = Len(t) /\ m = Len(s) /\ b <= n
  OBVIOUS
<1>2. PICK w : w = SubSeq(t, b + 1, n)
  OBVIOUS
<1>3. /\ w \in Seq(Int) /\ Len(w) = n - b
      /\ \A i \in 1..(n - b) : w[i] = t[b + i]
  <2>1. \A i \in (b + 1)..n : t[i] \in Int
    BY <1>1
  <2>2. /\ SubSeq(t, b + 1, n) \in Seq(Int)
        /\ Len(SubSeq(t, b + 1, n)) = IF b + 1 <= n THEN n - (b + 1) + 1 ELSE 0
        /\ \A i \in 1..n - (b + 1) + 1 : SubSeq(t, b + 1, n)[i] = t[(b + 1) + i - 1]
    BY <1>1, <2>1, SubSeqProperties
  <2> QED
    BY <1>1, <1>2, <2>2
<1>4. PICK u : u = s \o w
  OBVIOUS
<1>5. /\ u \in Seq(Int) /\ Len(u) = m + (n - b)
      /\ \A i \in 1..m : u[i] = s[i]
      /\ \A i \in 1..(n - b) : u[m + i] = t[b + i]
  <2>1. /\ u \in Seq(Int) /\ Len(u) = Len(s) + Len(w)
        /\ \A i \in 1..Len(s) + Len(w) : u[i] = IF i <= Len(s) THEN s[i] ELSE w[i - Len(s)]
    BY <1>3, <1>4, ConcatProperties
  <2>2. \A i \in 1..m : u[i] = s[i]
    BY <1>1, <1>3, <2>1
  <2>3. ASSUME NEW i \in 1..(n - b) PROVE u[m + i] = t[b + i]
    <3>1. m + i \in 1..m + (n - b) /\ ~(m + i <= m) /\ (m + i) - m = i
      BY <1>1
    <3>2. u[m + i] = w[(m + i) - m]
      BY <1>1, <1>3, <2>1, <3>1
    <3> QED
      BY <1>3, <3>1, <3>2
  <2> QED
    BY <1>1, <1>3, <2>1, <2>2, <2>3
<1>6. ToSet(u) \subseteq ToSet(s) \union ToSet(t)
  <2> SUFFICES ASSUME NEW i \in 1..(m + (n - b))
               PROVE  u[i] \in ToSet(s) \union ToSet(t)
    BY <1>5, ToSetIs
  <2>1. CASE i <= m
    <3>1. i \in 1..m
      BY <1>1, <2>1
    <3> QED
      BY <1>1, <1>5, <3>1, ToSetIs
  <2>2. CASE i > m
    <3>0. i \in Int /\ m \in Int
      BY <1>1
    <3>1. PICK j \in Int : j = i - m
      BY <3>0
    <3>2. j \in 1..(n - b) /\ i = m + j /\ b + j \in 1..n
      BY <1>1, <2>2, <3>1
    <3> QED
      BY <1>1, <1>5, <3>2, ToSetIs
  <2> QED
    BY <2>1, <2>2
<1>7. ToSet(s) \subseteq ToSet(u)
  <2> SUFFICES ASSUME NEW i \in 1..m PROVE s[i] \in ToSet(u)
    BY <1>1, ToSetIs
  <2>1. i \in 1..(m + (n - b)) /\ u[i] = s[i]
    BY <1>1, <1>5
  <2> QED
    BY <1>5, <2>1, ToSetIs
<1>8. ToSet(t) \subseteq ToSet(u)
  <2> SUFFICES ASSUME NEW i \in 1..n PROVE t[i] \in ToSet(u)
    BY <1>1, ToSetIs
  <2>1. CASE i <= b
    BY <1>7, <2>1
  <2>2. CASE i > b
    <3>1. PICK j \in Int : j = i - b
      BY <1>1
    <3>2. j \in 1..(n - b) /\ i = b + j /\ m + j \in 1..(m + (n - b))
      BY <1>1, <2>2, <3>1
    <3> QED
      BY <1>5, <3>2, ToSetIs
  <2> QED
    BY <2>1, <2>2
<1> QED
  BY <1>1, <1>2, <1>4, <1>5, <1>6, <1>7, <1>8

LEMMA ToSetAppended ==
  ASSUME NEW s \in Seq(Int), NEW x \in Int
  PROVE  /\ Append(s, x) \in Seq(Int) /\ Len(Append(s, x)) = Len(s) + 1
         /\ \A i \in 1..Len(s) : Append(s, x)[i] = s[i]
         /\ ToSet(Append(s, x)) = ToSet(s) \union {x}
<1>1. PICK t : t = Append(s, x)
  OBVIOUS
<1>2. PICK n \in Nat : n = Len(s)
  OBVIOUS
<1>3. /\ t \in Seq(Int) /\ Len(t) = n + 1 /\ t[n + 1] = x
      /\ \A i \in 1..n : t[i] = s[i]
  BY <1>1, <1>2
<1>4. ToSet(t) \subseteq ToSet(s) \union {x}
  <2> SUFFICES ASSUME NEW i \in 1..(n + 1) PROVE t[i] \in ToSet(s) \union {x}
    BY <1>3, ToSetIs
  <2>1. CASE i = n + 1
    BY <1>2, <1>3, <2>1
  <2>2. CASE i \in 1..n
    BY <1>2, <1>3, <2>2, ToSetIs
  <2> QED
    BY <1>2, <2>1, <2>2
<1>5. ToSet(s) \union {x} \subseteq ToSet(t)
  <2>1. n + 1 \in 1..Len(t) /\ 1..n \subseteq 1..Len(t)
    BY <1>3
  <2>2. x \in ToSet(t)
    BY <1>2, <1>3, <2>1, ToSetIs
  <2>3. \A i \in 1..n : s[i] \in ToSet(t)
    BY <1>3, <2>1, ToSetIs
  <2> QED
    BY <1>2, <2>2, <2>3, ToSetIs
<1> QED
  BY <1>1, <1>2, <1>3, <1>4, <1>5

\* What a record starts from is the file's or follows it.
LEMMA BufferFollows ==
  ASSUME StatsShape, ScoreInv, Orderly, NEW p \in StatsProcs
  PROVE  /\ Len(Base(p).scores) <= Len(Buffer(p).scores)
         /\ Len(Base(p).scores) <= Len(statsFile.scores)
         /\ \A i \in 1..Len(Base(p).scores) : Buffer(p).scores[i] \in ToSet(statsFile.scores)
         /\ 0 \notin ToSet(Buffer(p).scores)
         /\ ToSet(statsFile.scores) \union ToSet(Buffer(p).scores)
              = ToSet(statsFile.scores) \union (ToSet(current[p].scores) \ {0})
<1>1. statsFile.scores \in Seq(Int)
  BY DEF StatsShape, StatsData
<1>2. CASE current[p] = NoBuffer
  <2>1. Buffer(p) = statsFile /\ Base(p) = statsFile
    BY <1>2 DEF Buffer, Base
  <2>2. 0 \notin ToSet(statsFile.scores)
    BY DEF ScoreInv
  <2>3. ToSet(current[p].scores) \ {0} = {}
    <3>1. PICK z : z = <<0>>
      OBVIOUS
    <3>2. z \in Seq(Int) /\ Len(z) = 1 /\ z[1] = 0
      BY <3>1
    <3>3. \A i \in 1..Len(z) : z[i] = 0
      BY <3>2
    <3>4. \A x \in ToSet(z) : x = 0
      BY <3>2, <3>3, ToSetIs
    <3> QED
      BY <1>2, <3>1, <3>4, StartData
  <2>4. Len(statsFile.scores) \in Nat
    BY <1>1
  <2> QED
    BY <1>1, <2>1, <2>2, <2>3, <2>4, ToSetIs
<1>3. CASE current[p] # NoBuffer
  <2>1. Buffer(p) = current[p] /\ Base(p) = baseline[p] /\ Follows(p)
    BY <1>3 DEF Buffer, Base, ScoreInv
  <2>2. ToSet(current[p].scores) \ {0} = ToSet(current[p].scores)
    BY <2>1 DEF Follows
  <2> QED
    BY <2>1, <2>2 DEF Follows
<1> QED
  BY <1>2, <1>3

\* What waits, split at one process.
Elsewhere(p) == UNION {ToSet(current[q].scores) \ {0} : q \in StatsProcs \ {p}}

LEMMA WaitingSplits ==
  ASSUME NEW p \in StatsProcs
  PROVE  /\ Waiting = Elsewhere(p) \union (ToSet(current[p].scores) \ {0})
         /\ Waiting' = Elsewhere(p)' \union (ToSet(current'[p].scores) \ {0})
         /\ (\A q \in StatsProcs : q # p => UNCHANGED current[q]) => Elsewhere(p)' = Elsewhere(p)
<1>1. Waiting = Elsewhere(p) \union (ToSet(current[p].scores) \ {0})
  BY DEF Waiting, Elsewhere
<1>2. Waiting' = Elsewhere(p)' \union (ToSet(current'[p].scores) \ {0})
  BY DEF Waiting, Elsewhere
<1>3. ASSUME \A q \in StatsProcs : q # p => UNCHANGED current[q]
      PROVE  Elsewhere(p)' = Elsewhere(p)
  BY <1>3 DEF Elsewhere
<1> QED
  BY <1>1, <1>2, <1>3

\* Nothing is lost of what is recorded.
LEMMA RecordScores ==
  ASSUME CountInv, ScoreInv, NEW p \in StatsProcs, Record(p) \/ RecordScore(p)
  PROVE  ScoreInv'
<1> SUFFICES ASSUME Orderly'
             PROVE  /\ Len(scored') = Len(statsFile'.scores) + SumFunction(PendingScores)'
                    /\ ToSet(scored') = ToSet(statsFile'.scores) \union Waiting'
                    /\ 0 \notin ToSet(scored')
                    /\ \A q \in StatsProcs : statsProc'[q] # "ready" => current'[q] # NoBuffer
                    /\ \A q \in StatsProcs : current'[q] # NoBuffer => Follows(q)'
  BY DEF ScoreInv
<1>s. StatsShape
  BY DEF CountInv
<1>1. /\ StatsShape' /\ UNCHANGED <<statsFile, collided, statsKilled>>
      /\ current'[p] # NoBuffer /\ baseline'[p] = Base(p)
      /\ \A q \in StatsProcs : q # p => UNCHANGED <<current[q], baseline[q], statsProc[q]>>
      /\ SumFunction(PendingScores)' =
           SumFunction(PendingScores) + ((Len(current'[p].scores) - Len(Base(p).scores)) - PendingScores[p])
  BY <1>s, RecordStep
<1>2. PICK s, k : s = Buffer(p).scores /\ k = Len(scored) + 1
  OBVIOUS
<1>3. s \in Seq(Int) /\ k \in Nat /\ k # 0 /\ scored \in Seq(Int) /\ Len(scored) \in Nat
  <2>1. scored \in Seq(Int) /\ Buffer(p) \in StatsData
    BY <1>s, BufferData DEF StatsShape
  <2>2. Len(scored) \in Nat /\ s \in Seq(Int)
    BY <1>2, <2>1 DEF StatsData
  <2> QED
    BY <1>2, <2>1, <2>2
<1>4. Orderly /\ scored' \in {scored, Append(scored, k)}
  <2>1. scored' \in {scored, Append(scored, k)}
    BY <1>2 DEF Record, RecordScore
  <2>2. Len(scored) <= Len(scored') /\ Len(scored') \in Nat
    BY <1>3, <2>1
  <2>3. Len(scored) <= MaxScores
    BY <1>3, <2>2, StatsAssumption DEF Orderly
  <2> QED
    BY <1>1, <2>1, <2>3 DEF Orderly
<1>5. PICK extra \in {{}, {k}}, n \in {0, 1} :
        /\ current'[p].scores \in Seq(Int)
        /\ Len(current'[p].scores) = Len(s) + n /\ Len(scored') = Len(scored) + n
        /\ \A i \in 1..Len(s) : current'[p].scores[i] = s[i]
        /\ ToSet(current'[p].scores) = ToSet(s) \union extra
        /\ ToSet(scored') = ToSet(scored) \union extra
  <2>1. CASE Record(p)
    <3>1. current'[p].scores = s /\ scored' = scored
      <4>1. current'[p] = [Buffer(p) EXCEPT !.total = @ + 1] /\ scored' = scored
        BY <1>s, <2>1 DEF Record, StatsShape
      <4>2. Buffer(p) \in StatsData
        BY <1>s, BufferData
      <4> QED
        BY <1>2, <4>1, <4>2 DEF StatsData
    <3>2. Len(s) + 0 = Len(s) /\ Len(scored) + 0 = Len(scored)
      BY <1>3
    <3> QED
      BY <1>3, <3>1, <3>2
  <2>2. CASE RecordScore(p)
    <3>1. current'[p].scores = Newest(Append(s, k)) /\ scored' = Append(scored, k)
      <4>1. /\ current'[p] = [Buffer(p) EXCEPT !.scores = Newest(Append(@, Len(scored) + 1))]
            /\ scored' = Append(scored, Len(scored) + 1)
        BY <1>s, <2>2 DEF RecordScore, StatsShape
      <4>2. Buffer(p) \in StatsData
        BY <1>s, BufferData
      <4> QED
        BY <1>2, <4>1, <4>2 DEF StatsData
    <3>2. Len(s) <= Len(scored)
      BY <1>s, <1>2, <1>4, LengthsFit
    <3>3. /\ Append(s, k) \in Seq(Int) /\ Len(Append(s, k)) = Len(s) + 1
          /\ \A i \in 1..Len(s) : Append(s, k)[i] = s[i]
          /\ ToSet(Append(s, k)) = ToSet(s) \union {k}
      BY <1>3, ToSetAppended
    <3>4. Len(scored') = Len(scored) + 1 /\ ToSet(scored') = ToSet(scored) \union {k}
      BY <1>3, <3>1, ToSetAppended
    <3>5. Len(scored) + 1 <= MaxScores
      BY <3>4 DEF Orderly
    <3>6. Len(Append(s, k)) <= MaxScores
      BY <1>3, <3>2, <3>3, <3>5, StatsAssumption
    <3>7. Newest(Append(s, k)) = Append(s, k)
      BY <3>3, <3>6, NewestIsAll
    <3> QED
      BY <3>1, <3>3, <3>4, <3>7
  <2> QED
    BY <2>1, <2>2
<1>6. /\ Len(Base(p).scores) <= Len(s) /\ Len(Base(p).scores) <= Len(statsFile.scores)
      /\ \A i \in 1..Len(Base(p).scores) : s[i] \in ToSet(statsFile.scores)
      /\ 0 \notin ToSet(s)
      /\ ToSet(statsFile.scores) \union ToSet(s)
           = ToSet(statsFile.scores) \union (ToSet(current[p].scores) \ {0})
  BY <1>s, <1>2, <1>4, BufferFollows
<1>7. PICK b \in Nat : b = Len(Base(p).scores)
  <2>1. Base(p) \in StatsData
    BY <1>s, BufferData
  <2>2. Len(Base(p).scores) \in Nat
    BY <2>1 DEF StatsData
  <2> QED
    BY <2>2
<1>8. Len(scored') = Len(statsFile'.scores) + SumFunction(PendingScores)'
  <2>1. Len(s) - b = PendingScores[p]
    BY <1>s, <1>2, <1>7, BufferData
  <2>2. PICK t, m, l : t = SumFunction(PendingScores) /\ m = Len(statsFile.scores) /\ l = Len(s)
    OBVIOUS
  <2>3. t \in Int /\ m \in Int /\ l \in Int
    <3>1. t \in Int
      BY <1>s, <2>2, PendingSums
    <3>2. m \in Int /\ l \in Int
      BY <1>s, <1>3, <2>2 DEF StatsShape, StatsData
    <3> QED
      BY <3>1, <3>2
  <2>4. SumFunction(PendingScores)' = t + (((l + n) - b) - (l - b))
    BY <1>1, <1>5, <1>7, <2>1, <2>2
  <2>5. Len(scored) = m + t
    BY <1>4, <2>2 DEF ScoreInv
  <2>6. SumFunction(PendingScores)' = t + n
    BY <1>5, <1>7, <2>3, <2>4
  <2>7. (m + t) + n = m + (t + n)
    BY <1>5, <2>3
  <2> QED
    BY <1>1, <1>5, <2>2, <2>5, <2>6, <2>7
<1>9. ToSet(scored') = ToSet(statsFile'.scores) \union Waiting'
  <2>1. ToSet(scored) = ToSet(statsFile.scores) \union Waiting
    BY <1>4 DEF ScoreInv
  <2>2. 0 \notin ToSet(s) \union extra
    BY <1>3, <1>5, <1>6
  <2>3. Elsewhere(p)' = Elsewhere(p)
    BY <1>1, WaitingSplits
  <2>4. Waiting' = Elsewhere(p) \union (ToSet(s) \union extra)
    BY <1>5, <2>2, <2>3, WaitingSplits
  <2>5. Waiting = Elsewhere(p) \union (ToSet(current[p].scores) \ {0})
    BY WaitingSplits
  <2> QED
    BY <1>1, <1>5, <1>6, <2>1, <2>4, <2>5
<1>10. 0 \notin ToSet(scored')
  BY <1>3, <1>4, <1>5 DEF ScoreInv
<1>11. \A q \in StatsProcs : statsProc'[q] # "ready" => current'[q] # NoBuffer
  BY <1>1, <1>4 DEF ScoreInv
<1>12. ASSUME NEW q \in StatsProcs, current'[q] # NoBuffer PROVE Follows(q)'
  <2>1. CASE q # p
    BY <1>1, <1>4, <1>12, <2>1 DEF ScoreInv, Follows
  <2>2. CASE q = p
    <3>1. b <= Len(current'[p].scores)
      BY <1>3, <1>5, <1>6, <1>7
    <3>2. \A i \in 1..b : current'[p].scores[i] \in ToSet(statsFile.scores)
      <4>1. PICK l \in Nat : l = Len(s)
        BY <1>3
      <4>2. \A i \in 1..b : i \in 1..l
        BY <1>6, <1>7, <4>1
      <4> QED
        BY <1>5, <1>6, <1>7, <4>1, <4>2
    <3>3. 0 \notin ToSet(current'[p].scores)
      BY <1>3, <1>5, <1>6
    <3> QED
      BY <1>1, <1>6, <1>7, <2>2, <3>1, <3>2, <3>3 DEF Follows
  <2> QED
    BY <2>1, <2>2
<1> QED
  BY <1>8, <1>9, <1>10, <1>11, <1>12

\* A merge below the limit completes the file.
LEMMA WriteScores ==
  ASSUME CountInv, ScoreInv, NEW p \in StatsProcs, WriteStats(p)
  PROVE  ScoreInv'
<1> SUFFICES ASSUME Orderly'
             PROVE  /\ Len(scored') = Len(statsFile'.scores) + SumFunction(PendingScores)'
                    /\ ToSet(scored') = ToSet(statsFile'.scores) \union Waiting'
                    /\ 0 \notin ToSet(scored')
                    /\ \A q \in StatsProcs : statsProc'[q] # "ready" => current'[q] # NoBuffer
                    /\ \A q \in StatsProcs : current'[q] # NoBuffer => Follows(q)'
  BY DEF ScoreInv
<1>s. StatsShape
  BY DEF CountInv
<1>1. /\ StatsShape' /\ UNCHANGED <<statsKilled, scored, collided>>
      /\ statsProc[p] = "writes" /\ current'[p] = Merged(p) /\ baseline'[p] = Merged(p)
      /\ \A q \in StatsProcs : q # p => UNCHANGED <<current[q], baseline[q], statsProc[q]>>
      /\ SumFunction(PendingScores)' = SumFunction(PendingScores) + (0 - PendingScores[p])
      /\ ~collided => statsFile' = Merged(p) /\ disk[p] = statsFile
  BY WriteShape
<1>2. Orderly
  BY <1>1 DEF Orderly
<1>3. /\ statsFile' = Merged(p) /\ disk[p] = statsFile /\ current[p] # NoBuffer /\ Follows(p)
  BY <1>1, <1>2 DEF Orderly, ScoreInv
<1>4. PICK f, t, b : f = statsFile.scores /\ t = current[p].scores /\ b = Len(baseline[p].scores)
  OBVIOUS
<1>5. /\ f \in Seq(Int) /\ t \in Seq(Int) /\ b \in Nat /\ Len(f) \in Nat /\ Len(t) \in Nat
      /\ b <= Len(t) /\ \A i \in 1..b : t[i] \in ToSet(f)
  <2>1. f \in Seq(Int) /\ t \in Seq(Int) /\ b \in Nat
    BY <1>s, <1>4 DEF StatsShape, StatsData
  <2>2. b <= Len(t) /\ \A i \in 1..b : t[i] \in ToSet(f)
    BY <1>3, <1>4 DEF Follows
  <2> QED
    BY <2>1, <2>2
<1>6. PICK u : u = f \o SubSeq(t, b + 1, Len(t))
  OBVIOUS
<1>7. Len(u) = Len(f) + (Len(t) - b) /\ u \in Seq(Int) /\ ToSet(u) = ToSet(f) \union ToSet(t)
  BY <1>5, <1>6, ToSetGrown
<1>8. PendingScores[p] = Len(t) - b /\ PendingScores[p] >= 0 /\ Len(f) + PendingScores[p] <= Len(scored)
  BY <1>s, <1>2, <1>4, LengthsFit, PendingTyped
<1>9. PICK m : m = Merged(p)
  OBVIOUS
<1>10. m.scores = u
  <2>1. Len(u) <= MaxScores
    <3>1. Len(scored) \in Nat /\ Len(scored) <= MaxScores
      BY <1>s, <1>2 DEF Orderly, StatsShape
    <3>2. Len(u) \in Int /\ Len(u) <= Len(scored)
      BY <1>5, <1>7, <1>8
    <3> QED
      BY <3>1, <3>2, StatsAssumption
  <2>2. m.scores = Newest(u)
    BY <1>s, <1>3, <1>4, <1>6, <1>9, MergedData
  <2> QED
    BY <1>7, <2>1, <2>2, NewestIsAll
<1>11. 0 \notin ToSet(u)
  <2>1. 0 \notin ToSet(t)
    BY <1>3, <1>4 DEF Follows
  <2>2. 0 \notin ToSet(f)
    BY <1>2, <1>4 DEF ScoreInv
  <2> QED
    BY <1>7, <2>1, <2>2
<1>12. m # NoBuffer
  <2>1. PICK z : z = <<0>>
    OBVIOUS
  <2>2. z \in Seq(Int) /\ 1 \in 1..Len(z) /\ z[1] = 0
    BY <2>1
  <2>3. 0 \in ToSet(z)
    BY <2>2, ToSetIs
  <2> QED
    BY <1>10, <1>11, <2>1, <2>3, StartData
<1>13. Len(scored') = Len(statsFile'.scores) + SumFunction(PendingScores)'
  <2>1. PICK n, k, l : n = SumFunction(PendingScores) /\ k = PendingScores[p] /\ l = Len(f)
    OBVIOUS
  <2>2. n \in Int /\ k \in Int /\ l \in Int
    <3>1. n \in Int
      BY <1>s, <2>1, PendingSums
    <3>2. k \in Int
      BY <1>s, <2>1, PendingTyped
    <3> QED
      BY <1>5, <2>1, <3>1, <3>2
  <2>3. Len(scored) = l + n
    BY <1>2, <1>4, <2>1 DEF ScoreInv
  <2>4. Len(u) = l + k
    BY <1>7, <1>8, <2>1
  <2>5. SumFunction(PendingScores)' = n + (0 - k)
    BY <1>1, <2>1
  <2>6. l + n = (l + k) + (n + (0 - k))
    BY <2>2
  <2>7. statsFile'.scores = u /\ scored' = scored
    BY <1>1, <1>3, <1>9, <1>10
  <2> QED
    BY <2>3, <2>4, <2>5, <2>6, <2>7
<1>14. ToSet(scored') = ToSet(statsFile'.scores) \union Waiting'
  <2>1. ToSet(scored) = ToSet(f) \union Waiting
    BY <1>2, <1>4 DEF ScoreInv
  <2>2. Waiting = Elsewhere(p) \union (ToSet(t) \ {0}) /\ 0 \notin ToSet(t)
    BY <1>3, <1>4, WaitingSplits DEF Follows
  <2>3. Waiting' = Elsewhere(p) \union (ToSet(u) \ {0})
    <3>1. Elsewhere(p)' = Elsewhere(p)
      BY <1>1, WaitingSplits
    <3> QED
      BY <1>1, <1>9, <1>10, <3>1, WaitingSplits
  <2>4. ToSet(scored') = ToSet(u) \union Waiting'
    BY <1>1, <1>7, <2>1, <2>2, <2>3
  <2> QED
    BY <1>3, <1>9, <1>10, <2>4
<1>15. 0 \notin ToSet(scored')
  BY <1>1, <1>2 DEF ScoreInv
<1>16. \A q \in StatsProcs : statsProc'[q] # "ready" => current'[q] # NoBuffer
  BY <1>1, <1>2, <1>9, <1>12 DEF ScoreInv
<1>17. ASSUME NEW q \in StatsProcs, current'[q] # NoBuffer PROVE Follows(q)'
  <2>1. CASE q = p
    <3>1. Len(u) \in Nat /\ \A i \in 1..Len(u) : u[i] \in ToSet(u)
      BY <1>7, ToSetIs
    <3> QED
      BY <1>1, <1>3, <1>9, <1>10, <1>11, <2>1, <3>1 DEF Follows
  <2>2. CASE q # p
    <3>1. Follows(q) /\ UNCHANGED <<current[q], baseline[q]>>
      BY <1>1, <1>2, <1>17, <2>2 DEF ScoreInv
    <3>2. Len(baseline[q].scores) <= Len(f) /\ Len(baseline[q].scores) \in Int
      BY <1>s, <1>4, <3>1 DEF Follows, StatsShape, StatsData
    <3>3. Len(baseline[q].scores) <= Len(u)
      BY <1>5, <1>7, <1>8, <3>2
    <3>4. ToSet(f) \subseteq ToSet(u) /\ statsFile'.scores = u
      BY <1>3, <1>7, <1>9, <1>10
    <3> QED
      BY <1>4, <3>1, <3>3, <3>4 DEF Follows
  <2> QED
    BY <2>1, <2>2
<1> QED
  BY <1>13, <1>14, <1>15, <1>16, <1>17

\* The other steps move no score.
LEMMA QuietScores ==
  ASSUME StatsShape, ScoreInv, UNCHANGED <<current, baseline, scored, statsFile, statsKilled>>,
         ~collided' => ~collided,
         \A q \in StatsProcs : statsProc'[q] # "ready" => statsProc[q] # "ready" \/ current[q] # NoBuffer
  PROVE  ScoreInv'
<1>1. Orderly' => Orderly
  BY DEF Orderly
<1>2. /\ PendingScores' = PendingScores /\ Waiting' = Waiting
      /\ \A q \in StatsProcs : Follows(q) => Follows(q)'
  BY DEF PendingScores, Waiting, Follows
<1>3. SumFunction(PendingScores)' = SumFunction(PendingScores)
  BY <1>2 DEF SumFunction
<1> QED
  BY <1>1, <1>2, <1>3 DEF ScoreInv

LEMMA ScoreInit == StatsInit => ScoreInv
<1> SUFFICES ASSUME StatsInit PROVE ScoreInv
  OBVIOUS
<1>1. StatsShape
  BY CountInit DEF CountInv
<1>2. PICK f : f = PendingScores
  OBVIOUS
<1>3. \A p \in StatsProcs : f[p] = 0
  <2>1. \A p \in StatsProcs : current[p] = NoBuffer /\ baseline[p] = NoBuffer
    BY DEF StatsInit
  <2>2. Len(<<0>>) - Len(<<0>>) = 0
    OBVIOUS
  <2> QED
    BY <1>2, <2>1, <2>2, StartData DEF PendingScores
<1>4. SumFunctionOnSet(f, StatsProcs) = 0
  BY <1>3, SumOfZeros, StatsAssumption
<1>5. SumFunction(PendingScores) = 0
  BY <1>1, <1>2, <1>4, PendingSums
<1>6. scored = << >> /\ statsFile.scores = << >> /\ Len(<< >>) = 0
  BY StartData DEF StatsInit
<1>7. PICK z : z = << >>
  OBVIOUS
<1>8. z \in Seq(Int) /\ Len(z) = 0
  BY <1>7
<1>9. ToSet(z) = {}
  <2>1. ~\E i \in 1..Len(z) : TRUE
    BY <1>8
  <2> QED
    BY <1>8, <2>1, ToSetIs
<1>10. Waiting = {}
  <2>1. \A p \in StatsProcs : ToSet(current[p].scores) \ {0} = {}
    <3>1. PICK w : w = <<0>>
      OBVIOUS
    <3>2. w \in Seq(Int) /\ \A i \in 1..Len(w) : w[i] = 0
      BY <3>1
    <3>3. \A x \in ToSet(w) : x = 0
      BY <3>2, ToSetIs
    <3>4. \A p \in StatsProcs : current[p].scores = w
      BY <3>1, StartData DEF StatsInit
    <3> QED
      BY <3>3, <3>4
  <2> QED
    BY <2>1 DEF Waiting
<1>11. /\ \A p \in StatsProcs : statsProc[p] = "ready" /\ current[p] = NoBuffer
  BY DEF StatsInit
<1> QED
  BY <1>5, <1>6, <1>7, <1>8, <1>9, <1>10, <1>11 DEF ScoreInv

LEMMA ScoreStep == CountInv /\ ScoreInv /\ [StatsNext]_statsVars => ScoreInv'
<1> SUFFICES ASSUME CountInv, ScoreInv, [StatsNext]_statsVars PROVE ScoreInv'
  OBVIOUS
<1>s. StatsShape
  BY DEF CountInv
<1>1. CASE LockGetsOld \/ UNCHANGED statsVars
  <2>1. UNCHANGED <<current, baseline, scored, statsFile, statsKilled, collided, statsProc>>
    BY <1>1 DEF LockGetsOld, statsVars
  <2> QED
    BY <1>s, <2>1, QuietScores
<1>2. ASSUME NEW p \in StatsProcs, StatsStep(p) PROVE ScoreInv'
  <2>1. CASE Record(p) \/ RecordScore(p)
    BY <2>1, RecordScores
  <2>2. CASE \/ Flush(p) \/ GetLock(p) \/ SeesStale(p) \/ BreakLock(p) \/ LockTimesOut(p)
             \/ ReadStats(p) \/ Unlock(p)
    <3>1. UNCHANGED <<current, baseline, scored, statsFile, statsKilled>>
      BY <2>2 DEF Flush, GetLock, SeesStale, BreakLock, LockTimesOut, ReadStats, Unlock
    <3>2. ~collided' => ~collided
      BY <2>2, Zenon DEF Flush, GetLock, SeesStale, BreakLock, LockTimesOut, ReadStats, Unlock
    <3>3. \A q \in StatsProcs :
            statsProc'[q] # "ready" => statsProc[q] # "ready" \/ current[q] # NoBuffer
      BY <1>s, <2>2 DEF StatsShape, Flush, GetLock, SeesStale, BreakLock, LockTimesOut, ReadStats, Unlock
    <3> QED
      BY <1>s, <3>1, <3>2, <3>3, QuietScores
  <2>3. CASE WriteStats(p)
    BY <2>3, WriteScores
  <2>4. CASE KillStats(p)
    <3>1. statsKilled' # 0
      BY <1>s, <2>4 DEF KillStats, StatsShape
    <3> QED
      BY <3>1 DEF ScoreInv, Orderly
  <2> QED
    BY <1>2, <2>1, <2>2, <2>3, <2>4, Zenon DEF StatsStep
<1> QED
  BY <1>1, <1>2 DEF StatsNext

\* Below the limit on kept scores, and without drops and overlapping flushes, the scores
\* that were recorded are exactly those in the file and in the buffers: what is taken as
\* new in a merge is what the file lacks (apply_deltas, merge_cep).
THEOREM ScoresReachTheFile == StatsSpec => []ScoresArrive
<1>1. ScoreInv => ScoresArrive
  BY DEF ScoreInv, Orderly, ScoresArrive, Waiting
<1> QED
  BY <1>1, CountInit, CountStep, ScoreInit, ScoreStep, PTL DEF StatsSpec

-----------------------------------------------------------------------------
(***************************************************************************)
(* However flushes overlap, nothing counts twice.  The commands that do    *)
(* not wait in a buffer any more are an upper bound of every total that a  *)
(* flush may write from: the file, what the flushes have read of it and    *)
(* the baselines.                                                          *)
(***************************************************************************)

\* How many commands were recorded and are past the buffers.
Past == counted - SumFunction(Pending)

OverInv ==
  /\ statsFile.total <= Past
  /\ \A p \in StatsProcs : disk[p].total <= Past /\ baseline[p].total <= Past

LEMMA Totals ==
  ASSUME StatsShape
  PROVE  /\ statsFile.total \in Nat /\ Past \in Int /\ counted \in Int
         /\ SumFunction(Pending) \in Int
         /\ \A p \in StatsProcs : /\ disk[p].total \in Nat /\ baseline[p].total \in Nat
                                  /\ current[p].total \in Nat
                                  /\ Pending[p] = current[p].total - baseline[p].total
                                  /\ Pending[p] \in Nat
<1>1. /\ counted \in Int /\ SumFunction(Pending) \in Int
  BY PendingSums DEF StatsShape
<1>2. \A p \in StatsProcs : /\ disk[p] \in StatsData /\ baseline[p] \in StatsData
                            /\ current[p] \in StatsData /\ baseline[p].total <= current[p].total
  BY DEF StatsShape
<1>3. \A p \in StatsProcs : /\ disk[p].total \in Nat /\ baseline[p].total \in Nat
                            /\ current[p].total \in Nat
  BY <1>2 DEF StatsData
<1>4. \A p \in StatsProcs : Pending[p] = current[p].total - baseline[p].total
  BY DEF Pending
<1>5. \A p \in StatsProcs : Pending[p] \in Nat
  BY <1>2, <1>3, <1>4
<1>6. statsFile.total \in Nat
  BY DEF StatsShape, StatsData
<1> QED
  BY <1>1, <1>3, <1>4, <1>5, <1>6 DEF Past

\* Only a merge moves commands out of a buffer.
LEMMA PastStep ==
  ASSUME CountInv, CountInv', NEW p \in StatsProcs, StatsStep(p)
  PROVE  IF WriteStats(p) THEN Past' = Past + Pending[p] ELSE Past' = Past
<1>0. /\ counted \in Int /\ SumFunction(Pending) \in Int /\ Pending[p] \in Nat
  BY Totals DEF CountInv
<1>1. CASE WriteStats(p)
  <2>1. SumFunction(Pending)' = SumFunction(Pending) + (0 - Pending[p]) /\ counted' = counted
    BY <1>1, WriteShape
  <2> QED
    BY <1>0, <1>1, <2>1 DEF Past
<1>2. CASE Record(p) \/ RecordScore(p)
  <2>1. /\ SumFunction(Pending)' \in Int
        /\ counted' - counted = SumFunction(Pending)' - SumFunction(Pending)
    BY <1>2, RecordStep DEF CountInv
  <2>2. counted' \in Int
    BY DEF CountInv, StatsShape
  <2>3. Past' = Past
    BY <1>0, <2>1, <2>2 DEF Past
  <2>4. ~WriteStats(p)
    BY <1>2 DEF Record, RecordScore, WriteStats
  <2> QED
    BY <2>3, <2>4
<1>3. CASE KillStats(p)
  <2>1. /\ current' = [current EXCEPT ![p] = NoBuffer] /\ baseline' = [baseline EXCEPT ![p] = NoBuffer]
        /\ counted' = counted - Pending[p]
    BY <1>3 DEF KillStats, Pending
  <2>2. /\ current'[p] = NoBuffer /\ baseline'[p] = NoBuffer
        /\ \A q \in StatsProcs : q # p => UNCHANGED <<current[q], baseline[q]>>
    BY <2>1 DEF CountInv, StatsShape
  <2>3. SumFunction(Pending)' = SumFunction(Pending) + (Pending'[p] - Pending[p])
    BY <2>2, PendingStep DEF CountInv
  <2>4. Pending'[p] = 0
    BY <2>2, StartData DEF Pending
  <2>5. Past' = Past
    BY <1>0, <2>1, <2>3, <2>4 DEF Past
  <2>6. ~WriteStats(p)
    BY <1>3, <2>1 DEF KillStats, WriteStats, CountInv, StatsShape
  <2> QED
    BY <2>5, <2>6
<1>4. CASE \/ Flush(p) \/ GetLock(p) \/ SeesStale(p) \/ BreakLock(p) \/ LockTimesOut(p)
           \/ ReadStats(p) \/ Unlock(p)
  <2>1. UNCHANGED <<current, baseline, counted>>
    BY <1>4 DEF Flush, GetLock, SeesStale, BreakLock, LockTimesOut, ReadStats, Unlock
  <2>2. Pending' = Pending
    BY <2>1 DEF Pending
  <2>3. Past' = Past
    BY <2>1, <2>2 DEF Past, SumFunction
  <2>4. statsProc[p] = "writes" => FALSE
    BY <1>4 DEF Flush, GetLock, SeesStale, BreakLock, LockTimesOut, ReadStats, Unlock
  <2>5. ~WriteStats(p)
    BY <2>4 DEF WriteStats
  <2> QED
    BY <2>3, <2>5
<1> QED
  BY <1>1, <1>2, <1>3, <1>4, Zenon DEF StatsStep

\* Where the totals of a step come from.
LEMMA TotalsMove ==
  ASSUME CountInv, NEW p \in StatsProcs, StatsStep(p)
  PROVE  LET new == IF WriteStats(p) THEN {Merged(p), Empty} ELSE {NoBuffer, Empty} IN
         /\ statsFile' \in {statsFile} \union new
         /\ disk'[p] \in {disk[p], statsFile} \union new
         /\ baseline'[p] \in {baseline[p], statsFile} \union new
         /\ \A q \in StatsProcs : q # p => disk'[q] = disk[q] /\ baseline'[q] = baseline[q]
<1>1. CASE WriteStats(p)
  <2>1. /\ statsFile' \in {Merged(p), Empty} /\ baseline' = [baseline EXCEPT ![p] = Merged(p)]
        /\ disk' = [disk EXCEPT ![p] = Empty]
    BY <1>1 DEF WriteStats
  <2> QED
    BY <1>1, <2>1 DEF CountInv, StatsShape
<1>2. CASE ~WriteStats(p)
  <2>1. CASE Record(p) \/ RecordScore(p)
    <3>1. statsFile' = statsFile /\ disk' = disk /\ baseline' = [baseline EXCEPT ![p] = Base(p)]
      BY <2>1 DEF Record, RecordScore
    <3>2. Base(p) \in {baseline[p], statsFile}
      BY DEF Base
    <3> QED
      BY <1>2, <3>1, <3>2 DEF CountInv, StatsShape
  <2>2. CASE KillStats(p)
    <3>1. /\ statsFile' = statsFile /\ baseline' = [baseline EXCEPT ![p] = NoBuffer]
          /\ disk' = [disk EXCEPT ![p] = Empty]
      BY <2>2 DEF KillStats
    <3> QED
      BY <1>2, <3>1 DEF CountInv, StatsShape
  <2>3. CASE ReadStats(p)
    <3>1. statsFile' = statsFile /\ baseline' = baseline /\ disk' = [disk EXCEPT ![p] = statsFile]
      BY <2>3 DEF ReadStats
    <3> QED
      BY <1>2, <3>1 DEF CountInv, StatsShape
  <2>4. CASE Flush(p) \/ GetLock(p) \/ SeesStale(p) \/ BreakLock(p) \/ LockTimesOut(p) \/ Unlock(p)
    <3>1. UNCHANGED <<statsFile, baseline, disk>>
      BY <2>4 DEF Flush, GetLock, SeesStale, BreakLock, LockTimesOut, Unlock
    <3> QED
      BY <1>2, <3>1
  <2> QED
    BY <1>2, <2>1, <2>2, <2>3, <2>4, Zenon DEF StatsStep
<1> QED
  BY <1>1, <1>2

LEMMA OverStep == CountInv /\ CountInv' /\ OverInv /\ [StatsNext]_statsVars => OverInv'
<1> SUFFICES ASSUME CountInv, CountInv', OverInv, [StatsNext]_statsVars PROVE OverInv'
  OBVIOUS
<1>1. ASSUME NEW p \in StatsProcs, StatsStep(p) PROVE OverInv'
  <2>1. PICK new : /\ new = IF WriteStats(p) THEN {Merged(p), Empty} ELSE {NoBuffer, Empty}
                   /\ statsFile' \in {statsFile} \union new
                   /\ disk'[p] \in {disk[p], statsFile} \union new
                   /\ baseline'[p] \in {baseline[p], statsFile} \union new
                   /\ \A q \in StatsProcs : q # p => disk'[q] = disk[q] /\ baseline'[q] = baseline[q]
    BY <1>1, TotalsMove
  <2>2. /\ statsFile.total \in Nat /\ Past \in Int /\ Pending[p] \in Nat
        /\ Pending[p] = current[p].total - baseline[p].total
        /\ \A q \in StatsProcs : disk[q].total \in Nat /\ baseline[q].total \in Nat
    BY Totals DEF CountInv
  <2>3. Past' \in Int /\ Past <= Past'
    BY <1>1, <2>2, PastStep
  <2>4. 0 <= Past
    BY <2>2 DEF OverInv
  <2>5. \A d \in new : d.total <= Past'
    <3>1. CASE WriteStats(p)
      <4>1. Past' = Past + Pending[p]
        BY <1>1, <3>1, PastStep
      <4>2. Merged(p).total = disk[p].total + Pending[p]
        BY <2>2, MergedData DEF CountInv
      <4>3. disk[p].total <= Past /\ disk[p].total \in Nat
        BY <2>2 DEF OverInv
      <4>4. Merged(p).total <= Past'
        BY <2>2, <4>1, <4>2, <4>3
      <4>5. Empty.total <= Past'
        BY <2>3, <2>4, <2>2, StartData
      <4> QED
        BY <2>1, <3>1, <4>4, <4>5
    <3>2. CASE ~WriteStats(p)
      <4>1. NoBuffer.total <= Past' /\ Empty.total <= Past'
        BY <2>2, <2>3, <2>4, StartData
      <4> QED
        BY <2>1, <3>2, <4>1
    <3> QED
      BY <3>1, <3>2
  <2>6. /\ statsFile.total <= Past'
        /\ \A q \in StatsProcs : disk[q].total <= Past' /\ baseline[q].total <= Past'
    BY <2>2, <2>3 DEF OverInv
  <2>7. statsFile'.total <= Past'
    BY <2>1, <2>5, <2>6
  <2>8. ASSUME NEW q \in StatsProcs PROVE disk'[q].total <= Past' /\ baseline'[q].total <= Past'
    BY <2>1, <2>5, <2>6
  <2> QED
    BY <2>7, <2>8 DEF OverInv
<1>2. CASE LockGetsOld \/ UNCHANGED statsVars
  <2>1. UNCHANGED <<statsFile, current, baseline, disk, counted>>
    BY <1>2 DEF LockGetsOld, statsVars
  <2>2. Pending' = Pending
    BY <2>1 DEF Pending
  <2> QED
    BY <2>1, <2>2 DEF OverInv, Past, SumFunction
<1> QED
  BY <1>1, <1>2 DEF StatsNext

LEMMA OverInit == StatsInit /\ CountInv => OverInv
<1> SUFFICES ASSUME StatsInit, CountInv PROVE OverInv
  OBVIOUS
<1>1. /\ statsFile.total = 0 /\ counted = 0
      /\ \A p \in StatsProcs : disk[p].total = 0 /\ baseline[p].total = 0
  BY StartData DEF StatsInit
<1>2. counted = statsFile.total + SumFunction(Pending) /\ SumFunction(Pending) \in Int
  BY Totals DEF StatsInit, CountInv
<1>3. Past = 0
  BY <1>1, <1>2 DEF Past
<1> QED
  BY <1>1, <1>3 DEF OverInv

LEMMA NeverTwice == CountInv /\ OverInv => NothingCountsTwice
<1> SUFFICES ASSUME CountInv, OverInv PROVE NothingCountsTwice
  OBVIOUS
<1>1. /\ statsFile.total \in Nat /\ counted \in Int /\ SumFunction(Pending) \in Int
      /\ statsFile.total <= Past
  BY Totals DEF CountInv, OverInv
<1> QED
  BY <1>1 DEF Past, NothingCountsTwice

\* With or without the lock, with flushes at the same time and processes killed at any step,
\* the statistics file and the buffers never have more commands than were recorded; while no
\* two flushes were at work at once they have every one of them, for any number of processes
\* (record, flush, merge_and_save).
THEOREM CommandsCountOnce == StatsSpec => []EveryCommandCountsOnce
<1>1. StatsInit => CountInv /\ OverInv
  BY CountInit, OverInit
<1>2. CountInv /\ OverInv /\ [StatsNext]_statsVars => CountInv' /\ OverInv'
  BY CountStep, OverStep
<1>3. CountInv /\ OverInv => EveryCommandCountsOnce
  BY NeverTwice DEF CountInv, EveryCommandCountsOnce
<1> QED
  BY <1>1, <1>2, <1>3, PTL DEF StatsSpec

(***************************************************************************)
(* The types of the statistics.  A buffer counts no more than was          *)
(* recorded, as it is its baseline and what waits in it.                   *)
(***************************************************************************)

LEMMA SumOfNats ==
  ASSUME NEW S, IsFiniteSet(S), NEW f, \A x \in S : f[x] \in Nat
  PROVE  SumFunctionOnSet(f, S) \in Nat /\ \A x \in S : f[x] <= SumFunctionOnSet(f, S)
<1> DEFINE Bad == {T \in SUBSET S : SumFunctionOnSet(f, T) \notin Nat}
<1>1. ASSUME NEW T \in SUBSET S, NEW x \in T
      PROVE  SumFunctionOnSet(f, T) = f[x] + SumFunctionOnSet(f, T \ {x})
  <2>1. IsFiniteSet(T) /\ \A y \in T : f[y] \in Int
    BY FS_Subset
  <2> QED
    BY <2>1, SumLess
<1>2. Bad = {}
  <2> SUFFICES ASSUME Bad # {} PROVE FALSE
    OBVIOUS
  <2>1. PICK T \in Bad : \A x \in T : T \ {x} \in SUBSET S /\ T \ {x} \notin Bad
    <3>1. PICK B : B = Bad
      OBVIOUS
    <3>2. B \subseteq SUBSET S /\ B # {}
      BY <3>1
    <3>3. \E T \in B : \A x \in T : T \ {x} \in SUBSET S /\ T \ {x} \notin B
      BY <3>2, SmallestBad
    <3> QED
      BY <3>1, <3>3
  <2>2. T # {}
    BY SumEmpty
  <2>3. PICK x : x \in T
    BY <2>2
  <2>4. SumFunctionOnSet(f, T) = f[x] + SumFunctionOnSet(f, T \ {x})
    BY <1>1, <2>3
  <2>5. SumFunctionOnSet(f, T \ {x}) \in Nat /\ f[x] \in Nat
    BY <2>1, <2>3
  <2> QED
    BY <2>1, <2>4, <2>5
<1>3. SumFunctionOnSet(f, S) \in Nat
  BY <1>2
<1>4. ASSUME NEW x \in S PROVE f[x] <= SumFunctionOnSet(f, S)
  <2>1. SumFunctionOnSet(f, S) = f[x] + SumFunctionOnSet(f, S \ {x})
    BY <1>1
  <2>2. S \ {x} \in SUBSET S /\ S \ {x} \notin Bad
    BY <1>2
  <2>3. SumFunctionOnSet(f, S \ {x}) \in Nat
    BY <2>2
  <2> QED
    BY <2>1, <2>3
<1> QED
  BY <1>3, <1>4

LEMMA TotalsBelow ==
  ASSUME StatsShape, OverInv
  PROVE  /\ counted \in Nat /\ statsFile.total <= counted
         /\ \A p \in StatsProcs : /\ disk[p].total <= counted /\ baseline[p].total <= counted
                                  /\ current[p].total <= counted
<1>1. /\ statsFile.total \in Nat /\ Past \in Int /\ counted \in Int
      /\ \A p \in StatsProcs : /\ disk[p].total \in Nat /\ baseline[p].total \in Nat
                               /\ current[p].total \in Nat
                               /\ Pending[p] = current[p].total - baseline[p].total
                               /\ Pending[p] \in Nat
  BY Totals
<1>2. PICK sum \in Nat : sum = SumFunction(Pending) /\ \A p \in StatsProcs : Pending[p] <= sum
  <2>1. PICK f : f = Pending /\ \A p \in StatsProcs : f[p] \in Nat
    BY <1>1
  <2>2. SumFunctionOnSet(f, StatsProcs) \in Nat
        /\ \A p \in StatsProcs : f[p] <= SumFunctionOnSet(f, StatsProcs)
    BY <2>1, SumOfNats, StatsAssumption
  <2> QED
    BY <2>1, <2>2, PendingSums
<1>3. /\ statsFile.total <= counted - sum
      /\ \A p \in StatsProcs : disk[p].total <= counted - sum /\ baseline[p].total <= counted - sum
  BY <1>2 DEF OverInv, Past
<1>4. counted \in Nat /\ statsFile.total <= counted
  BY <1>1, <1>2, <1>3
<1>5. ASSUME NEW p \in StatsProcs
      PROVE  /\ disk[p].total <= counted /\ baseline[p].total <= counted
             /\ current[p].total <= counted
  BY <1>1, <1>2, <1>3
<1> QED
  BY <1>4, <1>5

Score == 0..MaxCounted

LEMMA NewestOf == ASSUME NEW S, NEW s \in Seq(S) PROVE Newest(s) \in Seq(S)
<1>1. PICK m \in Int : /\ m = IF Len(s) > MaxScores THEN Len(s) - MaxScores + 1 ELSE 1
                       /\ 1 <= m
  <2>1. Len(s) \in Nat
    OBVIOUS
  <2> QED
    BY <2>1, NewestFrom
<1>2. \A i \in m..Len(s) : s[i] \in S
  BY <1>1
<1>3. SubSeq(s, m, Len(s)) \in Seq(S)
  BY <1>1, <1>2, SubSeqProperties
<1> QED
  BY <1>1, <1>3 DEF Newest

LEMMA MergedKept ==
  ASSUME StatsShape, NEW p \in StatsProcs, disk[p].scores \in Seq(Score),
         current[p].scores \in Seq(Score)
  PROVE  Merged(p).scores \in Seq(Score)
<1>1. PICK n \in Nat : n = Len(baseline[p].scores) + 1
  BY DEF StatsShape, StatsData
<1>2. PICK s, d \in Seq(Score) : s = current[p].scores /\ d = disk[p].scores
  OBVIOUS
<1>3. SubSeq(s, n, Len(s)) \in Seq(Score)
  <2>1. n >= 1
    <3>1. PICK b \in Seq(Int) : b = baseline[p].scores
      BY DEF StatsShape, StatsData
    <3> QED
      BY <1>1, <3>1
  <2>2. \A i \in n..Len(s) : s[i] \in Score
    BY <1>2, <2>1
  <2> QED
    BY <1>2, <2>2, SubSeqProperties
<1>4. d \o SubSeq(s, n, Len(s)) \in Seq(Score)
  BY <1>2, <1>3, ConcatProperties
<1> QED
  BY <1>1, <1>2, <1>4, NewestOf, MergedData

StatsTypeInv ==
  /\ statsFile.scores \in Seq(Score)
  /\ \A p \in StatsProcs : /\ current[p].scores \in Seq(Score) /\ baseline[p].scores \in Seq(Score)
                           /\ disk[p].scores \in Seq(Score)
  /\ statsLock \in Lock!LockType(StatsProcs, NobodyHolds)
  /\ guarded \subseteq StatsProcs /\ statsKilled \in 0..MaxStatsKilled /\ collided \in BOOLEAN
  /\ scored \in Seq(1..MaxCounted) /\ counted + Len(scored) <= MaxCounted

LEMMA StartScores ==
  /\ NoBuffer.scores \in Seq(Score) /\ Empty.scores \in Seq(Score)
  /\ << >> \in Seq(1..MaxCounted) /\ Len(<< >>) = 0
<1>1. 0 \in Score
  BY StatsAssumption DEF Score
<1> QED
  BY <1>1, StartData

\* Killing a process takes commands back, and nothing else does.
LEMMA RecordedStep ==
  ASSUME CountInv, OverInv, StatsTypeInv, NEW p \in StatsProcs, StatsStep(p)
  PROVE  scored' \in Seq(1..MaxCounted) /\ counted' + Len(scored') <= MaxCounted
<1>0. /\ counted \in Int /\ Pending[p] \in Nat /\ Pending[p] = current[p].total - baseline[p].total
      /\ scored \in Seq(1..MaxCounted) /\ Len(scored) \in Nat
      /\ counted + Len(scored) <= MaxCounted /\ MaxCounted \in Nat
  BY Totals, StatsAssumption DEF CountInv, StatsTypeInv
<1>1. CASE Record(p)
  <2>1. counted + Len(scored) < MaxCounted /\ counted' = counted + 1 /\ scored' = scored
    BY <1>1 DEF Record
  <2> QED
    BY <1>0, <2>1
<1>2. CASE RecordScore(p)
  <2>1. counted + Len(scored) < MaxCounted /\ counted' = counted
        /\ scored' = Append(scored, Len(scored) + 1)
    BY <1>2 DEF RecordScore
  <2>2. counted \in Nat
    BY TotalsBelow DEF CountInv
  <2> QED
    BY <1>0, <2>1, <2>2
<1>3. CASE KillStats(p)
  <2>1. counted' = counted - Pending[p] /\ scored' = scored
    BY <1>0, <1>3 DEF KillStats
  <2> QED
    BY <1>0, <2>1
<1>4. CASE \/ Flush(p) \/ GetLock(p) \/ SeesStale(p) \/ BreakLock(p) \/ LockTimesOut(p)
           \/ ReadStats(p) \/ WriteStats(p) \/ Unlock(p)
  <2>1. counted' = counted /\ scored' = scored
    BY <1>4 DEF Flush, GetLock, SeesStale, BreakLock, LockTimesOut, ReadStats, WriteStats, Unlock
  <2> QED
    BY <1>0, <2>1
<1> QED
  BY <1>1, <1>2, <1>3, <1>4, Zenon DEF StatsStep

LEMMA StatsTypeStep ==
  CountInv /\ OverInv /\ StatsTypeInv /\ [StatsNext]_statsVars => StatsTypeInv'
<1> SUFFICES ASSUME CountInv, OverInv, StatsTypeInv, [StatsNext]_statsVars PROVE StatsTypeInv'
  OBVIOUS
<1>1. ASSUME NEW p \in StatsProcs, StatsStep(p) PROVE StatsTypeInv'
  <2>1. PICK new : /\ new = IF WriteStats(p) THEN {Merged(p), Empty} ELSE {NoBuffer, Empty}
                   /\ statsFile' \in {statsFile} \union new
                   /\ disk'[p] \in {disk[p], statsFile} \union new
                   /\ baseline'[p] \in {baseline[p], statsFile} \union new
                   /\ \A q \in StatsProcs : q # p => disk'[q] = disk[q] /\ baseline'[q] = baseline[q]
    BY <1>1, TotalsMove
  <2>2. \A d \in new : d.scores \in Seq(Score)
    BY <2>1, MergedKept, StartScores DEF CountInv, StatsTypeInv
  <2>3. /\ statsFile'.scores \in Seq(Score) /\ disk'[p].scores \in Seq(Score)
        /\ baseline'[p].scores \in Seq(Score)
    BY <2>1, <2>2 DEF StatsTypeInv
  <2>4. \A q \in StatsProcs : disk'[q].scores \in Seq(Score) /\ baseline'[q].scores \in Seq(Score)
    BY <2>1, <2>3 DEF StatsTypeInv
  <2>5. \A q \in StatsProcs : current'[q].scores \in Seq(Score)
    <3>1. CASE Record(p) \/ RecordScore(p)
      <4>1. Buffer(p) \in StatsData /\ Buffer(p).scores \in Seq(Score)
        BY BufferData DEF Buffer, StatsTypeInv, CountInv
      <4>2. PICK b, s : /\ b = Buffer(p) /\ s \in Seq(Score) /\ b.scores = s
                        /\ b = [total |-> b.total, scores |-> s]
        BY <4>1 DEF StatsData
      <4>3. PICK new1 : /\ current' = [current EXCEPT ![p] = new1]
                        /\ \/ new1 = [b EXCEPT !.total = @ + 1]
                           \/ RecordScore(p) /\ new1 = [b EXCEPT !.scores = Newest(Append(@, Len(scored) + 1))]
        BY <3>1, <4>2 DEF Record, RecordScore
      <4>4. new1.scores \in {s, Newest(Append(s, Len(scored) + 1))}
            /\ (new1.scores # s => RecordScore(p))
        BY <4>2, <4>3
      <4>5. RecordScore(p) => Newest(Append(s, Len(scored) + 1)) \in Seq(Score)
        <5> SUFFICES ASSUME RecordScore(p) PROVE Newest(Append(s, Len(scored) + 1)) \in Seq(Score)
          OBVIOUS
        <5>1. counted \in Nat /\ Len(scored) \in Nat /\ counted + Len(scored) < MaxCounted
              /\ MaxCounted \in Nat
          BY TotalsBelow, StatsAssumption DEF RecordScore, CountInv, StatsTypeInv
        <5>2. Len(scored) + 1 \in Score
          BY <5>1 DEF Score
        <5>3. Append(s, Len(scored) + 1) \in Seq(Score)
          BY <4>2, <5>2
        <5> QED
          BY <5>3, NewestOf
      <4>6. new1.scores \in Seq(Score)
        BY <4>2, <4>4, <4>5
      <4>7. \A q \in StatsProcs : current'[q] = IF q = p THEN new1 ELSE current[q]
        BY <4>3 DEF CountInv, StatsShape
      <4> QED
        BY <4>6, <4>7 DEF StatsTypeInv
    <3>2. CASE WriteStats(p) \/ KillStats(p)
      <4>1. PICK d \in new : current' = [current EXCEPT ![p] = d]
        <5>1. ~(WriteStats(p) /\ KillStats(p))
          <6>1. WriteStats(p) => statsProc'[p] = "unlocks"
            BY DEF WriteStats, CountInv, StatsShape
          <6>2. KillStats(p) => statsProc'[p] = "ready"
            BY DEF KillStats, CountInv, StatsShape
          <6> QED
            BY <6>1, <6>2
        <5> QED
          BY <2>1, <3>2, <5>1 DEF WriteStats, KillStats
      <4>2. \A q \in StatsProcs : current'[q] = IF q = p THEN d ELSE current[q]
        BY <4>1 DEF CountInv, StatsShape
      <4> QED
        BY <2>2, <4>2 DEF StatsTypeInv
    <3>3. CASE \/ Flush(p) \/ GetLock(p) \/ SeesStale(p) \/ BreakLock(p) \/ LockTimesOut(p)
               \/ ReadStats(p) \/ Unlock(p)
      <4>1. current' = current
        BY <3>3 DEF Flush, GetLock, SeesStale, BreakLock, LockTimesOut, ReadStats, Unlock
      <4> QED
        BY <4>1 DEF StatsTypeInv
    <3> QED
      BY <1>1, <3>1, <3>2, <3>3, Zenon DEF StatsStep
  <2>6. /\ statsLock' \in Lock!LockType(StatsProcs, NobodyHolds) /\ guarded' \subseteq StatsProcs
    <3>1. statsLock' \in {statsLock, Lock!Unlocked(NobodyHolds), [held |-> TRUE, stale |-> FALSE, owner |-> p]}
      BY <1>1 DEF StatsStep, Record, RecordScore, Flush, GetLock, SeesStale, BreakLock,
                  LockTimesOut, ReadStats, WriteStats, Unlock, KillStats, Lock!Take, Lock!Drop
    <3>2. guarded' \in {guarded, guarded \union {p}, guarded \ {p}}
      BY <1>1 DEF StatsStep, Record, RecordScore, Flush, GetLock, SeesStale, BreakLock,
                  LockTimesOut, ReadStats, WriteStats, Unlock, KillStats
    <3>3. statsLock' \in Lock!LockType(StatsProcs, NobodyHolds)
      <4>1. Lock!Unlocked(NobodyHolds) \in Lock!LockType(StatsProcs, NobodyHolds)
        BY DEF Lock!LockType, Lock!Unlocked
      <4>2. [held |-> TRUE, stale |-> FALSE, owner |-> p] \in Lock!LockType(StatsProcs, NobodyHolds)
        BY DEF Lock!LockType
      <4> QED
        BY <3>1, <4>1, <4>2 DEF StatsTypeInv
    <3>4. guarded' \subseteq StatsProcs
      BY <3>2 DEF StatsTypeInv
    <3> QED
      BY <3>3, <3>4
  <2>7. statsKilled' \in 0..MaxStatsKilled
    <3>1. statsKilled \in 0..MaxStatsKilled /\ MaxStatsKilled \in Nat
      BY StatsAssumption DEF StatsTypeInv
    <3>2. statsKilled' = statsKilled \/ (statsKilled < MaxStatsKilled /\ statsKilled' = statsKilled + 1)
      BY <1>1 DEF StatsStep, Record, RecordScore, Flush, GetLock, SeesStale, BreakLock,
                  LockTimesOut, ReadStats, WriteStats, Unlock, KillStats
    <3> QED
      BY <3>1, <3>2
  <2>8. collided' \in BOOLEAN
    <3>1. CASE GetLock(p) \/ LockTimesOut(p)
      BY <3>1 DEF GetLock, LockTimesOut
    <3>2. CASE \/ Record(p) \/ RecordScore(p) \/ Flush(p) \/ SeesStale(p) \/ BreakLock(p)
               \/ ReadStats(p) \/ WriteStats(p) \/ Unlock(p) \/ KillStats(p)
      <4>1. collided' = collided
        BY <3>2 DEF Record, RecordScore, Flush, SeesStale, BreakLock, ReadStats, WriteStats, Unlock,
                    KillStats
      <4> QED
        BY <4>1 DEF StatsTypeInv
    <3> QED
      BY <1>1, <3>1, <3>2, Zenon DEF StatsStep
  <2>9. scored' \in Seq(1..MaxCounted) /\ counted' + Len(scored') <= MaxCounted
    BY <1>1, RecordedStep
  <2> QED
    BY <2>3, <2>4, <2>5, <2>6, <2>7, <2>8, <2>9 DEF StatsTypeInv
<1>2. CASE LockGetsOld
  <2>1. statsLock' \in Lock!LockType(StatsProcs, NobodyHolds)
    BY <1>2 DEF LockGetsOld, StatsTypeInv, Lock!Age, Lock!LockType
  <2>2. UNCHANGED <<statsFile, current, baseline, disk, guarded, statsKilled, counted, scored, collided>>
    BY <1>2 DEF LockGetsOld
  <2> QED
    BY <2>1, <2>2 DEF StatsTypeInv
<1>3. CASE UNCHANGED statsVars
  BY <1>3 DEF statsVars, StatsTypeInv
<1> QED
  BY <1>1, <1>2, <1>3 DEF StatsNext

LEMMA StatsTypeInit == StatsInit => StatsTypeInv
<1> SUFFICES ASSUME StatsInit PROVE StatsTypeInv
  OBVIOUS
<1>1. 0 \in 0..MaxStatsKilled /\ 0 + 0 <= MaxCounted
  BY StatsAssumption
<1>2. Lock!Unlocked(NobodyHolds) \in Lock!LockType(StatsProcs, NobodyHolds)
  BY DEF Lock!Unlocked, Lock!LockType
<1>3. /\ statsFile.scores \in Seq(Score)
      /\ \A p \in StatsProcs : /\ current[p].scores \in Seq(Score) /\ baseline[p].scores \in Seq(Score)
                               /\ disk[p].scores \in Seq(Score)
  BY StartScores DEF StatsInit
<1> QED
  BY <1>1, <1>2, <1>3, StartScores DEF StatsInit, StatsTypeInv

\* No total and no score in the file, a buffer, a baseline or a flush exceeds what was
\* recorded, and the lock file and its guards belong to processes.
THEOREM StatsTypeCorrect == StatsSpec => []StatsTypeOK
<1>1. StatsInit => CountInv /\ OverInv /\ StatsTypeInv
  BY CountInit, OverInit, StatsTypeInit
<1>2. CountInv /\ OverInv /\ StatsTypeInv /\ [StatsNext]_statsVars => CountInv' /\ OverInv' /\ StatsTypeInv'
  BY CountStep, OverStep, StatsTypeStep
<1>3. CountInv /\ OverInv /\ StatsTypeInv => StatsTypeOK
  <2> SUFFICES ASSUME CountInv, OverInv, StatsTypeInv PROVE StatsTypeOK
    OBVIOUS
  <2>1. /\ counted \in Nat /\ statsFile.total <= counted
        /\ \A p \in StatsProcs : /\ disk[p].total <= counted /\ baseline[p].total <= counted
                                 /\ current[p].total <= counted
    BY TotalsBelow DEF CountInv
  <2>2. counted \in 0..MaxCounted
    <3>1. Len(scored) \in Nat /\ counted + Len(scored) <= MaxCounted /\ MaxCounted \in Nat
      BY StatsAssumption DEF StatsTypeInv
    <3> QED
      BY <2>1, <3>1
  <2>3. ASSUME NEW d \in StatsData, d.total <= counted, d.scores \in Seq(Score) PROVE d \in Stats
    <3>1. d = [total |-> d.total, scores |-> d.scores] /\ d.total \in 0..MaxCounted
      BY <2>1, <2>2, <2>3, StatsAssumption DEF StatsData
    <3> QED
      BY <2>3, <3>1 DEF Stats, Score
  <2>4. /\ statsFile \in StatsData /\ current \in [StatsProcs -> StatsData]
        /\ baseline \in [StatsProcs -> StatsData] /\ disk \in [StatsProcs -> StatsData]
        /\ statsProc \in [StatsProcs -> StatsSteps]
    BY DEF CountInv, StatsShape
  <2>5. statsFile \in Stats
    BY <2>1, <2>3, <2>4 DEF StatsTypeInv
  <2>6. \A p \in StatsProcs : current[p] \in Stats /\ baseline[p] \in Stats /\ disk[p] \in Stats
    BY <2>1, <2>3, <2>4 DEF StatsTypeInv
  <2> QED
    BY <2>2, <2>4, <2>5, <2>6 DEF StatsTypeInv, StatsTypeOK, StatsSteps
<1> QED
  BY <1>1, <1>2, <1>3, PTL DEF StatsSpec
==============================================================================

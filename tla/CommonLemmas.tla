---------------------------- MODULE CommonLemmas ----------------------------
(***************************************************************************)
(* Facts about sequences (lines of orders, queues of sockets, vectors of    *)
(* trades), finite sets, sums over finite sets and remainders, used by all  *)
(* the proofs.                                                              *)
(***************************************************************************)
EXTENDS SequencesExt, SequenceTheorems, FiniteSetTheorems, WellFoundedInduction, TLAPS

\* RemoveAt takes out one element: those before it keep their index, those
\* after it move up by one (RemoveOrder of an order anywhere in line).
LEMMA RemoveAtProperties ==
  ASSUME NEW S, NEW s \in Seq(S), NEW i \in 1..Len(s)
  PROVE  /\ RemoveAt(s, i) \in Seq(S)
         /\ Len(RemoveAt(s, i)) = Len(s) - 1
         /\ \A j \in 1..(Len(s) - 1) : RemoveAt(s, i)[j] = IF j < i THEN s[j] ELSE s[j + 1]
<1> DEFINE before == SubSeq(s, 1, i - 1)
           after  == SubSeq(s, i + 1, Len(s))
<1>1. Len(s) \in Nat /\ \A j \in 1..Len(s) : s[j] \in S
  BY LenProperties, ElementOfSeq
<1>2. /\ before \in Seq(S)
      /\ Len(before) = i - 1
      /\ \A j \in 1..(i - 1) : before[j] = s[j]
  <2>1. \A j \in 1..(i - 1) : s[j] \in S
    BY <1>1
  <2> QED BY <1>1, <2>1, SubSeqProperties
<1>3. /\ after \in Seq(S)
      /\ Len(after) = Len(s) - i
      /\ \A j \in 1..(Len(s) - i) : after[j] = s[i + j]
  <2>1. \A j \in (i + 1)..Len(s) : s[j] \in S
    BY <1>1
  <2> QED BY <1>1, <2>1, SubSeqProperties
<1> HIDE DEF before, after
<1>4. RemoveAt(s, i) = before \o after
  BY DEF RemoveAt, before, after
<1>5. /\ before \o after \in Seq(S)
      /\ Len(before \o after) = Len(s) - 1
      /\ \A j \in 1..(Len(s) - 1) :
           (before \o after)[j] = IF j <= i - 1 THEN before[j] ELSE after[j - (i - 1)]
  <2>1. /\ before \o after \in Seq(S)
        /\ Len(before \o after) = Len(before) + Len(after)
        /\ \A j \in 1..(Len(before) + Len(after)) :
             (before \o after)[j] =
               IF j <= Len(before) THEN before[j] ELSE after[j - Len(before)]
    BY <1>2, <1>3, ConcatProperties, Zenon
  <2>2. Len(before) + Len(after) = Len(s) - 1
    BY <1>1, <1>2, <1>3
  <2> QED BY <1>2, <2>1, <2>2
<1>6. ASSUME NEW j \in 1..(Len(s) - 1)
      PROVE  (before \o after)[j] = IF j < i THEN s[j] ELSE s[j + 1]
  <2>1. CASE j < i
    BY <1>1, <1>2, <1>5, <2>1
  <2>2. CASE ~(j < i)
    <3>1. j - (i - 1) \in 1..(Len(s) - i)
      BY <1>1, <2>2
    <3> QED BY <1>1, <1>3, <1>5, <2>2, <3>1
  <2> QED BY <2>1, <2>2
<1> QED BY <1>4, <1>5, <1>6

\* Taking out the first element leaves the tail (Pop, RemoveOrder of the head).
LEMMA RemoveAtFirst ==
  ASSUME NEW S, NEW s \in Seq(S), s # << >>
  PROVE  RemoveAt(s, 1) = Tail(s)
<1>1. Len(s) \in Nat \ {0} /\ Tail(s) \in Seq(S)
  BY EmptySeq, HeadTailProperties
<1>2. SubSeq(s, 1, 1 - 1) = << >>
  BY SubSeqEmpty
<1>3. SubSeq(s, 1 + 1, Len(s)) = Tail(s)
  BY TailIsSubSeq, <1>1
<1>4. << >> \o Tail(s) = Tail(s)
  BY <1>1, ConcatEmptySeq
<1> QED BY <1>2, <1>3, <1>4 DEF RemoveAt

\* What push_back leaves: the elements there were, and one after them.
LEMMA Appended ==
  ASSUME NEW S, NEW s \in Seq(S), NEW e \in S
  PROVE  /\ Append(s, e) \in Seq(S)
         /\ Append(s, e) # <<>>
         /\ Len(s) \in Nat /\ DOMAIN s = 1..Len(s)
         /\ DOMAIN Append(s, e) = 1..(Len(s) + 1)
         /\ Append(s, e)[Len(s) + 1] = e
         /\ \A i \in 1..Len(s) : Append(s, e)[i] = s[i]
<1>1. Append(s, e) \in Seq(S) /\ Len(Append(s, e)) = Len(s) + 1
  BY AppendProperties
<1>2. DOMAIN Append(s, e) = 1..(Len(s) + 1)
  BY <1>1, LenProperties
<1> QED BY <1>1, <1>2, AppendProperties, LenProperties

\* What taking the first element leaves: the others, each one up.
LEMMA Shortened ==
  ASSUME NEW S, NEW s \in Seq(S), s # <<>>
  PROVE  /\ Tail(s) \in Seq(S) /\ Head(s) \in S
         /\ Len(s) \in Nat \ {0} /\ DOMAIN s = 1..Len(s)
         /\ DOMAIN Tail(s) = 1..(Len(s) - 1)
         /\ Head(s) = s[1]
         /\ \A i \in 1..(Len(s) - 1) : Tail(s)[i] = s[i + 1]
<1>1. Tail(s) \in Seq(S) /\ Len(Tail(s)) = Len(s) - 1
  BY HeadTailProperties
<1>2. DOMAIN Tail(s) = 1..(Len(s) - 1)
  BY <1>1, LenProperties
<1>3. Head(s) = s[1]
  OBVIOUS
<1> QED BY <1>1, <1>2, <1>3, HeadTailProperties, LenProperties, EmptySeq

-----------------------------------------------------------------------------
(* Finite sets and sums over them.                                         *)

\* Among some of the subsets of a finite set there is one that has no other of
\* them inside it: the way to prove something of every finite set without an
\* induction rule is to look at a smallest set for which it fails.
LEMMA MinimalSubset ==
  ASSUME NEW S, IsFiniteSet(S), NEW B, B \subseteq SUBSET S, B # {}
  PROVE  \E T \in B : \A U \in B : U \subseteq T => U = T
<1>1. IsWellFoundedOn(StrictSubsetOrdering(S), SUBSET S)
  BY FS_StrictSubsetOrderingWellFounded, FS_FiniteSubsetsOfFinite
<1>2. \E T \in B : \A U \in B : ~(<<U, T>> \in StrictSubsetOrdering(S))
  <2> HIDE DEF StrictSubsetOrdering
  <2> QED BY <1>1, WFMin
<1>3. \A T, U \in SUBSET S : U \subseteq T /\ U # T => <<U, T>> \in StrictSubsetOrdering(S)
  BY DEF StrictSubsetOrdering
<1> QED BY <1>2, <1>3

\* Some natural numbers have a least one among them.
LEMMA LeastNatural ==
  ASSUME NEW T, T \subseteq Nat, T # {}
  PROVE  \E n \in T : \A m \in T : n <= m
<1>1. PICK t \in T : TRUE
  OBVIOUS
<1>2. t \in Nat
  BY <1>1
<1> DEFINE upto(n) == {m \in T : m <= n}
           B == {U \in SUBSET (0..t) : \E n \in T : U = upto(n)}
<1>3. ASSUME NEW n \in T, n <= t
      PROVE  upto(n) \in B
  <2>1. n \in Nat /\ \A m \in T : m \in Nat
    OBVIOUS
  <2>2. \A m \in upto(n) : m \in 0..t
    <3>1. SUFFICES ASSUME NEW m \in T, m <= n PROVE m \in 0..t
      OBVIOUS
    <3> QED BY <1>2, <1>3, <2>1, <3>1
  <2> HIDE DEF upto
  <2> QED BY <2>2
<1>4. B # {} /\ B \subseteq SUBSET (0..t) /\ IsFiniteSet(0..t)
  <2>1. IsFiniteSet(0..t)
    BY <1>2, FS_Interval
  <2>2. upto(t) \in B
    BY <1>2, <1>3
  <2> QED BY <2>1, <2>2
<1>5. PICK U \in B : \A V \in B : V \subseteq U => V = U
  <2> DEFINE range == 0..t
  <2>1. IsFiniteSet(range) /\ B \subseteq SUBSET range /\ B # {}
    BY <1>4
  <2> HIDE DEF B, range
  <2> QED BY <2>1, MinimalSubset
<1>6. PICK n \in T : U = upto(n)
  BY <1>5
<1>7. n \in Nat /\ n <= t
  <2>1. n \in U
    BY <1>6
  <2>2. n \in 0..t
    BY <1>5, <2>1
  <2> QED BY <1>2, <2>2
<1>8. SUFFICES ASSUME NEW m \in T, m < n PROVE FALSE
  BY <1>6, <1>7
<1>9. m \in Nat /\ m <= t
  BY <1>2, <1>7, <1>8
<1>10. upto(m) \in B
  BY <1>3, <1>9
<1>11. upto(m) \subseteq U
  <2>1. \A k \in T : k \in Nat /\ (k <= m => k <= n)
    BY <1>7, <1>8, <1>9
  <2> QED BY <1>6, <2>1
<1>12. n \in U /\ n \notin upto(m)
  BY <1>6, <1>7, <1>8, <1>9
<1> QED BY <1>5, <1>10, <1>11, <1>12

\* The element that a fold over a set takes out first.
Pick(s) == CHOOSE x \in s : TRUE

\* A sum takes its elements out one by one.  The fold is a recursive function on
\* the subsets of S, and the equation holds because no smallest set breaks it.
LEMMA SumRecursion ==
  ASSUME NEW f, NEW S, IsFiniteSet(S)
  PROVE  SumFunctionOnSet(f, S) = IF S = {} THEN 0 ELSE f[Pick(S)] + SumFunctionOnSet(f, S \ {Pick(S)})
<1> DEFINE e(s) == IF s = {} THEN 0 ELSE f[Pick(s)] + SumFunctionOnSet(f, s \ {Pick(s)})
           step(T, h) == [s \in SUBSET T |->
                            IF s = {} THEN 0 ELSE f[Pick(s)] + h[s \ {Pick(s)}]]
           bad == {T \in SUBSET S : SumFunctionOnSet(f, T) # e(T)}
<1>1. ASSUME NEW T PROVE SumFunctionOnSet(f, T) = (CHOOSE h : h = step(T, h))[T]
  BY DEF SumFunctionOnSet, FoldFunctionOnSet, MapThenFoldSet, Pick
<1>2. \A s : s # {} => Pick(s) \in s
  BY DEF Pick
<1> SUFFICES ASSUME bad # {} PROVE FALSE
  OBVIOUS
<1>3. PICK T \in bad : \A U \in bad : U \subseteq T => U = T
  <2>1. bad \subseteq SUBSET S
    OBVIOUS
  <2> HIDE DEF bad
  <2> QED BY <2>1, MinimalSubset
<1>4. \A U \in SUBSET T : U # T => SumFunctionOnSet(f, U) = e(U)
  BY <1>3
<1>5. IsFiniteSet(T)
  BY <1>3, FS_Subset
<1> HIDE DEF e
<1> DEFINE g == [s \in SUBSET T |-> e(s)]
<1>6. g = step(T, g)
  <2>1. ASSUME NEW s \in SUBSET T, s # {}
        PROVE  g[s] = f[Pick(s)] + g[s \ {Pick(s)}]
    <3>1. s \ {Pick(s)} \in SUBSET T /\ s \ {Pick(s)} # T
      BY <1>2, <2>1
    <3>2. g[s \ {Pick(s)}] = SumFunctionOnSet(f, s \ {Pick(s)})
      BY <1>4, <3>1
    <3> QED BY <2>1, <3>2 DEF e
  <2>2. g[{}] = 0
    BY DEF e
  <2> HIDE DEF g
  <2>3. g = [s \in SUBSET T |-> g[s]]
    BY DEF g
  <2> QED BY <2>1, <2>2, <2>3, Zenon
<1>7. ASSUME NEW h, h = step(T, h) PROVE h = g
  <2> DEFINE wrong == {s \in SUBSET T : h[s] # g[s]}
  <2>1. ASSUME wrong # {} PROVE FALSE
    <3>1. wrong \subseteq SUBSET T
      OBVIOUS
    <3>2. PICK s \in wrong : \A u \in wrong : u \subseteq s => u = s
      <4> HIDE DEF wrong
      <4> QED BY <1>5, <2>1, <3>1, MinimalSubset
    <3>3. h[s] = (IF s = {} THEN 0 ELSE f[Pick(s)] + h[s \ {Pick(s)}])
      BY <1>7, <3>1, Zenon
    <3>4. g[s] = (IF s = {} THEN 0 ELSE f[Pick(s)] + g[s \ {Pick(s)}])
      <4> HIDE DEF g
      <4> QED BY <1>6, <3>1, Zenon
    <3> HIDE DEF g
    <3>5. CASE s = {}
      BY <3>2, <3>3, <3>4, <3>5
    <3>6. CASE s # {}
      <4>1. s \ {Pick(s)} \notin wrong /\ s \ {Pick(s)} \in SUBSET T
        BY <1>2, <3>1, <3>2, <3>6
      <4>2. h[s \ {Pick(s)}] = g[s \ {Pick(s)}]
        BY <4>1
      <4> QED BY <3>2, <3>3, <3>4, <3>6, <4>2
    <3> QED BY <3>5, <3>6
  <2>2. h = [s \in SUBSET T |-> h[s]]
    BY <1>7, Zenon
  <2>3. g = [s \in SUBSET T |-> g[s]]
    OBVIOUS
  <2> HIDE DEF g
  <2> QED BY <2>1, <2>2, <2>3, Zenon
<1>8. (CHOOSE h : h = step(T, h)) = g
  <2> HIDE DEF g
  <2>1. \E h : h = step(T, h)
    BY <1>6
  <2>2. (CHOOSE h : h = step(T, h)) = step(T, CHOOSE h : h = step(T, h))
    <3> HIDE DEF step
    <3> QED BY <2>1, Zenon
  <2> HIDE DEF step
  <2> QED BY <2>2, <1>7
<1>9. SumFunctionOnSet(f, T) = g[T]
  BY <1>1, <1>8
<1> QED BY <1>3, <1>9

\* The sum of nothing.
LEMMA SumEmpty ==
  ASSUME NEW f
  PROVE  SumFunctionOnSet(f, {}) = 0
BY FS_EmptySet, SumRecursion

\* A sum of integers is one.
LEMMA SumType ==
  ASSUME NEW f, NEW S, IsFiniteSet(S), \A x \in S : f[x] \in Int
  PROVE  SumFunctionOnSet(f, S) \in Int
<1> DEFINE bad == {T \in SUBSET S : SumFunctionOnSet(f, T) \notin Int}
<1> SUFFICES ASSUME bad # {} PROVE FALSE
  OBVIOUS
<1>1. PICK T \in bad : \A U \in bad : U \subseteq T => U = T
  <2>1. bad \subseteq SUBSET S
    OBVIOUS
  <2> HIDE DEF bad
  <2> QED BY <2>1, MinimalSubset
<1>2. IsFiniteSet(T)
  BY <1>1, FS_Subset
<1>3. SumFunctionOnSet(f, T) = IF T = {} THEN 0 ELSE f[Pick(T)] + SumFunctionOnSet(f, T \ {Pick(T)})
  BY <1>2, SumRecursion
<1>4. CASE T = {}
  BY <1>1, <1>3, <1>4
<1>5. CASE T # {}
  <2>1. Pick(T) \in T
    BY <1>5 DEF Pick
  <2>2. T \ {Pick(T)} \in SUBSET S /\ T \ {Pick(T)} \notin bad
    BY <1>1, <2>1
  <2>3. SumFunctionOnSet(f, T \ {Pick(T)}) \in Int
    BY <2>2
  <2>4. f[Pick(T)] \in Int
    BY <1>1, <2>1
  <2>5. SumFunctionOnSet(f, T) \in Int
    BY <1>3, <1>5, <2>3, <2>4
  <2> QED BY <1>1, <2>5
<1> QED BY <1>4, <1>5

\* Any element can be taken out of a sum, not only the one the fold picks: in a
\* smallest set without this the two would come out in either order.
LEMMA SumTakeOut ==
  ASSUME NEW f, NEW S, IsFiniteSet(S), \A y \in S : f[y] \in Int, NEW x \in S
  PROVE  SumFunctionOnSet(f, S) = f[x] + SumFunctionOnSet(f, S \ {x})
<1> DEFINE bad == {T \in SUBSET S :
                     \E y \in T : SumFunctionOnSet(f, T) # f[y] + SumFunctionOnSet(f, T \ {y})}
<1> SUFFICES ASSUME bad # {} PROVE FALSE
  OBVIOUS
<1>1. PICK T \in bad : \A U \in bad : U \subseteq T => U = T
  <2>1. bad \subseteq SUBSET S
    OBVIOUS
  <2> HIDE DEF bad
  <2> QED BY <2>1, MinimalSubset
<1>2. PICK y \in T : SumFunctionOnSet(f, T) # f[y] + SumFunctionOnSet(f, T \ {y})
  BY <1>1
<1> DEFINE c == Pick(T)
<1>3. c \in T
  BY <1>2 DEF Pick
<1>4. SumFunctionOnSet(f, T) = f[c] + SumFunctionOnSet(f, T \ {c})
  <2>1. IsFiniteSet(T)
    BY <1>1, FS_Subset
  <2> QED BY <1>3, <2>1, SumRecursion
<1> HIDE DEF c
<1>5. c # y
  BY <1>2, <1>4
<1>6. SumFunctionOnSet(f, T \ {c}) = f[y] + SumFunctionOnSet(f, (T \ {c}) \ {y})
  <2>1. T \ {c} \notin bad /\ T \ {c} \in SUBSET S /\ y \in T \ {c}
    BY <1>1, <1>3, <1>5
  <2> QED BY <2>1
<1>7. SumFunctionOnSet(f, T \ {y}) = f[c] + SumFunctionOnSet(f, (T \ {y}) \ {c})
  <2>1. T \ {y} \notin bad /\ T \ {y} \in SUBSET S /\ c \in T \ {y}
    BY <1>1, <1>3, <1>5
  <2> QED BY <2>1
<1>8. (T \ {c}) \ {y} = (T \ {y}) \ {c}
  OBVIOUS
<1>9. SumFunctionOnSet(f, (T \ {y}) \ {c}) \in Int /\ f[c] \in Int /\ f[y] \in Int
  <2>1. IsFiniteSet((T \ {y}) \ {c}) /\ \A z \in (T \ {y}) \ {c} : f[z] \in Int
    BY <1>1, FS_Subset
  <2> QED BY <1>1, <1>3, <2>1, SumType
<1>10. f[c] + (f[y] + SumFunctionOnSet(f, (T \ {y}) \ {c}))
         = f[y] + (f[c] + SumFunctionOnSet(f, (T \ {y}) \ {c}))
  BY <1>9
<1> QED BY <1>2, <1>4, <1>6, <1>7, <1>8, <1>10, Zenon

\* A new element adds its number.
LEMMA SumAdd ==
  ASSUME NEW f, NEW S, IsFiniteSet(S), NEW x, x \notin S, f[x] \in Int,
         \A y \in S : f[y] \in Int
  PROVE  SumFunctionOnSet(f, S \cup {x}) = f[x] + SumFunctionOnSet(f, S)
<1>1. IsFiniteSet(S \cup {x})
  BY FS_AddElement
<1>2. (S \cup {x}) \ {x} = S
  OBVIOUS
<1>3. SumFunctionOnSet(f, S \cup {x}) = f[x] + SumFunctionOnSet(f, (S \cup {x}) \ {x})
  BY <1>1, SumTakeOut
<1> QED BY <1>2, <1>3

\* Equal numbers have an equal sum.
LEMMA SumSame ==
  ASSUME NEW f, NEW g, NEW S, IsFiniteSet(S), \A x \in S : f[x] = g[x]
  PROVE  SumFunctionOnSet(f, S) = SumFunctionOnSet(g, S)
<1> DEFINE bad == {T \in SUBSET S : SumFunctionOnSet(f, T) # SumFunctionOnSet(g, T)}
<1> SUFFICES ASSUME bad # {} PROVE FALSE
  OBVIOUS
<1>1. PICK T \in bad : \A U \in bad : U \subseteq T => U = T
  <2>1. bad \subseteq SUBSET S
    OBVIOUS
  <2> HIDE DEF bad
  <2> QED BY <2>1, MinimalSubset
<1>2. IsFiniteSet(T)
  BY <1>1, FS_Subset
<1>3. SumFunctionOnSet(f, T) = IF T = {} THEN 0 ELSE f[Pick(T)] + SumFunctionOnSet(f, T \ {Pick(T)})
  BY <1>2, SumRecursion
<1>4. SumFunctionOnSet(g, T) = IF T = {} THEN 0 ELSE g[Pick(T)] + SumFunctionOnSet(g, T \ {Pick(T)})
  BY <1>2, SumRecursion
<1>5. T # {}
  BY <1>1, <1>3, <1>4
<1>6. Pick(T) \in T
  BY <1>5 DEF Pick
<1>7. T \ {Pick(T)} \in SUBSET S /\ T \ {Pick(T)} \notin bad
  BY <1>1, <1>6
<1>8. f[Pick(T)] = g[Pick(T)]
  BY <1>1, <1>6
<1> QED BY <1>1, <1>3, <1>4, <1>5, <1>7, <1>8

\* One number that changes moves the sum by as much.
LEMMA SumOneChanged ==
  ASSUME NEW f, NEW g, NEW S, IsFiniteSet(S), NEW x \in S,
         \A y \in S : f[y] \in Int, g[x] \in Int,
         \A y \in S \ {x} : g[y] = f[y]
  PROVE  SumFunctionOnSet(g, S) = SumFunctionOnSet(f, S) - f[x] + g[x]
<1>1. IsFiniteSet(S \ {x})
  BY FS_Subset
<1>2. SumFunctionOnSet(f, S \ {x}) = SumFunctionOnSet(g, S \ {x})
  BY <1>1, SumSame
<1>3. SumFunctionOnSet(f, S \ {x}) \in Int
  BY <1>1, SumType
<1>4. SumFunctionOnSet(f, S) = f[x] + SumFunctionOnSet(f, S \ {x})
  BY SumTakeOut
<1>5. SumFunctionOnSet(g, S) = g[x] + SumFunctionOnSet(g, S \ {x})
  <2>1. \A y \in S : g[y] \in Int
    OBVIOUS
  <2> QED BY <2>1, SumTakeOut
<1> QED BY <1>2, <1>3, <1>4, <1>5

\* None of some natural numbers is above their sum.
LEMMA SumOfNaturals ==
  ASSUME NEW f, NEW S, IsFiniteSet(S), \A x \in S : f[x] \in Nat
  PROVE  /\ SumFunctionOnSet(f, S) \in Nat
         /\ \A x \in S : f[x] <= SumFunctionOnSet(f, S)
<1> DEFINE bad == {T \in SUBSET S : SumFunctionOnSet(f, T) \notin Nat}
<1>1. ASSUME bad # {} PROVE FALSE
  <2>1. PICK T \in bad : \A U \in bad : U \subseteq T => U = T
    <3>1. bad \subseteq SUBSET S
      OBVIOUS
    <3> HIDE DEF bad
    <3> QED BY <1>1, <3>1, MinimalSubset
  <2>2. IsFiniteSet(T)
    BY <2>1, FS_Subset
  <2>3. SumFunctionOnSet(f, T) = IF T = {} THEN 0 ELSE f[Pick(T)] + SumFunctionOnSet(f, T \ {Pick(T)})
    BY <2>2, SumRecursion
  <2>4. CASE T = {}
    BY <2>1, <2>3, <2>4
  <2>5. CASE T # {}
    <3>1. Pick(T) \in T
      BY <2>5 DEF Pick
    <3>2. T \ {Pick(T)} \in SUBSET S /\ T \ {Pick(T)} \notin bad
      BY <2>1, <3>1
    <3>3. SumFunctionOnSet(f, T \ {Pick(T)}) \in Nat /\ f[Pick(T)] \in Nat
      BY <2>1, <3>1, <3>2
    <3>4. SumFunctionOnSet(f, T) \in Nat
      BY <2>3, <2>5, <3>3
    <3> QED BY <2>1, <3>4
  <2> QED BY <2>4, <2>5
<1>2. \A T \in SUBSET S : SumFunctionOnSet(f, T) \in Nat
  BY <1>1
<1>3. ASSUME NEW x \in S PROVE f[x] <= SumFunctionOnSet(f, S)
  <2>1. SumFunctionOnSet(f, S) = f[x] + SumFunctionOnSet(f, S \ {x})
    <3>1. \A y \in S : f[y] \in Int
      OBVIOUS
    <3> QED BY <3>1, SumTakeOut
  <2>2. SumFunctionOnSet(f, S \ {x}) \in Nat
    BY <1>2
  <2> QED BY <2>1, <2>2
<1> QED BY <1>2, <1>3

-----------------------------------------------------------------------------
(* Quotients and remainders.                                               *)

\* Quotient and remainder.
LEMMA DivMod ==
  ASSUME NEW x \in Int, NEW m \in Nat \ {0}
  PROVE  /\ x \div m \in Int /\ x % m \in 0..(m - 1)
         /\ x = m * (x \div m) + (x % m)
OBVIOUS

\* A multiple of m that is not 0 is at least m away from it.
LEMMA MulGe ==
  ASSUME NEW q \in Int, NEW m \in Nat \ {0}
  PROVE  /\ q >= 1 => m * q >= m
         /\ q <= -1 => m * q <= -m
OBVIOUS

\* Quotient and remainder are the only numbers that could be.
LEMMA ModUnique ==
  ASSUME NEW x \in Int, NEW m \in Nat \ {0}, NEW q \in Int, NEW r \in 0..(m - 1),
         x = m * q + r
  PROVE  x % m = r /\ x \div m = q
<1>1. PICK q2 \in Int : q2 = x \div m
  OBVIOUS
<1>2. PICK r2 \in 0..(m-1) : r2 = x % m
  BY DivMod
<1>3. x = m * q2 + r2
  BY <1>1, <1>2, DivMod
<1>4. m * (q - q2) = r2 - r
  BY <1>3
<1>5. m * (q - q2) < m /\ m * (q - q2) > -m
  BY <1>4
<1>6. q - q2 < 1 /\ q - q2 > -1
  BY <1>5, MulGe
<1> QED BY <1>1, <1>2, <1>3, <1>6

\* A remainder can be taken before something is added or after.
LEMMA ModOfSum ==
  ASSUME NEW x \in Int, NEW y \in Int, NEW m \in Nat \ {0}
  PROVE  ((x % m) + y) % m = (x + y) % m
<1>1. /\ x \div m \in Int /\ x % m \in 0..(m - 1) /\ x = m * (x \div m) + (x % m)
      /\ (x + y) \div m \in Int /\ (x + y) % m \in 0..(m - 1)
      /\ x + y = m * ((x + y) \div m) + ((x + y) % m)
  BY DivMod
<1> DEFINE q == (x + y) \div m
           p == x \div m
           r == (x + y) % m
           s == x % m
<1> HIDE DEF q, p, r, s
<1>2. q \in Int /\ p \in Int /\ r \in 0..(m - 1) /\ s \in Int
      /\ x = m * p + s /\ x + y = m * q + r
  BY <1>1 DEF q, p, r, s
<1>3. s + y \in Int /\ q - p \in Int /\ s + y = m * (q - p) + r
  BY <1>2
<1>4. (s + y) % m = r
  BY <1>2, <1>3, ModUnique
<1> QED BY <1>4 DEF r, s
=============================================================================

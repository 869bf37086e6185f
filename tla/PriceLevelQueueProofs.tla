------------------------ MODULE PriceLevelQueueProofs ------------------------
(***************************************************************************)
(* The linked list of price_level_queue.cpp is the queue of FifoQueue.tla,  *)
(* for any set of orders and any sequence of calls.                         *)
(***************************************************************************)
EXTENDS PriceLevelQueue, CommonLemmas

\* The inductive invariant: the pointers spell the line, nobody stands in it
\* twice, and the flag agrees.  NobodyTwice is needed to know that unlinking
\* one order touches no other.
IInv == TypeOK /\ PointersSpellLine /\ NobodyTwice /\ HasOrdersTruthful

USE OrderAssumption

-----------------------------------------------------------------------------
(* The walk from front to back.                                            *)

\* The nodes of the walk are nodes, and no two of its places hold the same.
LEMMA WalkIsInjective ==
  ASSUME TypeOK, NobodyTwice
  PROVE  /\ Len(line) \in Nat
         /\ \A i \in 1..Len(line) : line[i] \in Order /\ At(i) = line[i]
         /\ At(0) = front
         /\ At(Len(line) + 1) = back
         /\ \A i \in 0..(Len(line) + 1) : At(i) \in Node
         /\ \A i, j \in 0..(Len(line) + 1) : At(i) = At(j) => i = j
<1>1. line \in Seq(Order)
  BY DEF TypeOK
<1>2. Len(line) \in Nat /\ \A i \in 1..Len(line) : line[i] \in Order
  BY <1>1, LenProperties, ElementOfSeq
<1>3. \A i \in 1..Len(line) : At(i) = line[i]
  BY <1>2 DEF At
<1>4. At(0) = front /\ At(Len(line) + 1) = back
  BY <1>2 DEF At
<1>5. \A i \in 0..(Len(line) + 1) : At(i) \in Node
  <2>1. \A i \in 0..(Len(line) + 1) : i = 0 \/ i = Len(line) + 1 \/ i \in 1..Len(line)
    BY <1>2
  <2> QED BY <1>2, <1>3, <1>4, <2>1 DEF Node
<1>6. ASSUME NEW i \in 0..(Len(line) + 1), NEW j \in 0..(Len(line) + 1), At(i) = At(j)
      PROVE  i = j
  <2>1. /\ i = 0 \/ i = Len(line) + 1 \/ i \in 1..Len(line)
        /\ j = 0 \/ j = Len(line) + 1 \/ j \in 1..Len(line)
    BY <1>2
  <2> QED BY <1>2, <1>3, <1>4, <1>6, <2>1 DEF NobodyTwice
<1> QED BY <1>2, <1>3, <1>4, <1>5, <1>6

\* An order is linked exactly when it is in line.
LEMMA LinkedIffInLine ==
  ASSUME IInv, NEW order \in Order
  PROVE  Unlinked(order) <=> \A i \in 1..Len(line) : line[i] # order
<1>1. ASSUME NEW i \in 1..Len(line)
      PROVE  next[line[i]] # null
  <2>1. next[At(i)] = At(i + 1) /\ At(i) = line[i] /\ At(i + 1) \in Node
    BY WalkIsInjective DEF IInv, PointersSpellLine
  <2> QED BY <2>1 DEF Node
<1> QED BY <1>1 DEF IInv, PointersSpellLine, Unlinked

\* Front points at the oldest order in line, or at back when there is none.
LEMMA FrontPointsAtHead ==
  ASSUME IInv
  PROVE  /\ line = <<>> => next[front] = back
         /\ line # <<>> => /\ next[front] = line[1]
                           /\ line[1] = Head(line)
                           /\ next[front] \in Order
                           /\ next[front] # back
<1>1. line \in Seq(Order) /\ next[At(0)] = At(1) /\ At(0) = front
  BY WalkIsInjective DEF IInv, TypeOK, PointersSpellLine
<1>2. CASE line = <<>>
  <2>1. Len(line) = 0
    BY <1>2, EmptySeq
  <2> QED BY <1>1, <1>2, <2>1, WalkIsInjective DEF IInv
<1>3. CASE line # <<>>
  <2>1. 1 \in 1..Len(line)
    BY <1>1, <1>3, EmptySeq
  <2>2. At(1) = line[1] /\ line[1] \in Order
    BY <2>1, WalkIsInjective DEF IInv
  <2>3. line[1] = Head(line)
    BY <1>3
  <2> QED BY <1>1, <1>3, <2>2, <2>3
<1> QED BY <1>2, <1>3

-----------------------------------------------------------------------------
(* What the two pointer surgeries do to the walk.                          *)

\* Joining at the end: AddOrder's four assignments put one node between the
\* last one and back.
LEMMA JoinKeepsWalk ==
  ASSUME IInv,
         NEW order \in Order, Unlinked(order), AddOrder(order)
  PROVE  PointersSpellLine' /\ NobodyTwice' /\ line' \in Seq(Order)
<1>0. PICK n \in Nat : n = Len(line)
  BY WalkIsInjective DEF IInv
<1>1. n \in Nat /\ n = Len(line) /\ line \in Seq(Order)
  BY <1>0 DEF IInv, TypeOK
<1>2. /\ line' \in Seq(Order)
      /\ Len(line') = n + 1
      /\ \A i \in 1..n : line'[i] = line[i]
      /\ line'[n + 1] = order
  BY <1>1, AppendProperties DEF AddOrder
<1>3. \A i \in 1..n : line[i] # order
  BY <1>1, LinkedIffInLine
<1>4. prev[back] = At(n)
  <2>1. n \in 0..n
    BY <1>1
  <2> QED BY <1>1, <2>1, WalkIsInjective DEF IInv, PointersSpellLine
<1>5. /\ \A i \in 0..n : At(i)' = At(i)
      /\ At(n + 1)' = order
      /\ At(n + 2)' = back
  <2>1. \A i \in 0..n : i # n + 1 /\ i # n + 2 /\ (i = 0 \/ i \in 1..n)
    BY <1>1
  <2>2. Len(line') + 1 = n + 2 /\ n + 1 # 0 /\ n + 1 # n + 2 /\ n + 2 # 0
    BY <1>1, <1>2
  <2>3. \A i \in 0..n : At(i)' = At(i)
    BY <1>1, <1>2, <2>1, <2>2 DEF At
  <2>4. At(n + 1)' = order
    BY <1>1, <1>2, <2>2 DEF At
  <2>5. At(n + 2)' = back
    BY <1>1, <1>2, <2>2 DEF At
  <2> QED BY <2>3, <2>4, <2>5
<1>6. \A i \in 0..n : At(i) # order /\ At(i) # back /\ At(i) \in Node
  <2>1. \A i \in 0..n : i = 0 \/ i \in 1..n
    BY <1>1
  <2>2. \A i \in 0..n : At(i) \in Node
    BY <1>1, WalkIsInjective DEF IInv
  <2> QED BY <1>1, <1>3, <2>1, <2>2, WalkIsInjective DEF IInv
<1>7. ASSUME NEW i \in 0..(n + 1)
      PROVE  next'[At(i)'] = At(i + 1)' /\ prev'[At(i + 1)'] = At(i)'
  <2>0. /\ next' = [m \in Node |-> CASE m = order -> back
                                    [] m = At(n) -> order
                                    [] OTHER -> next[m]]
        /\ prev' = [prev EXCEPT ![order] = At(n), ![back] = order]
        /\ prev \in [Node -> Node \cup {null}]
        /\ order \in Node /\ back \in Node /\ order # back
    BY <1>4 DEF AddOrder, IInv, TypeOK, Node
  <2>1. CASE i < n
    <3>1. i \in 0..n /\ i + 1 \in 0..n /\ i # n
      BY <1>1, <2>1
    <3>2. At(i) # At(n)
      BY <1>1, <3>1, WalkIsInjective DEF IInv
    <3>3. next'[At(i)] = next[At(i)]
      BY <1>6, <2>0, <3>1, <3>2
    <3>4. prev'[At(i + 1)] = prev[At(i + 1)]
      BY <1>6, <2>0, <3>1
    <3>5. next[At(i)] = At(i + 1) /\ prev[At(i + 1)] = At(i)
      BY <1>1, <3>1 DEF IInv, PointersSpellLine
    <3> QED BY <1>5, <3>1, <3>3, <3>4, <3>5
  <2>2. CASE i = n
    <3>1. n \in 0..n
      BY <1>1
    <3>2. next'[At(n)] = order /\ prev'[order] = At(n)
      BY <1>6, <2>0, <3>1
    <3> QED BY <1>5, <2>2, <3>1, <3>2
  <2>3. CASE i = n + 1
    <3>0. order # At(n)
      BY <1>1, <1>6
    <3>1. next'[order] = back /\ prev'[back] = order
      BY <2>0, <3>0
    <3>2. i + 1 = n + 2
      BY <1>1, <2>3
    <3> QED BY <1>5, <2>3, <3>1, <3>2
  <2> QED BY <1>1, <2>1, <2>2, <2>3
<1>8. ASSUME NEW other \in Order
      PROVE  Unlinked(other)' \/ \E i \in 1..Len(line') : line'[i] = other
  <2>1. CASE other = order
    BY <1>1, <1>2, <2>1
  <2>2. CASE \E i \in 1..n : line[i] = other
    BY <1>1, <1>2, <2>2
  <2>3. CASE other # order /\ ~\E i \in 1..n : line[i] = other
    <3>1. Unlinked(other) /\ other # back /\ other \in Node
      BY <1>1, <2>3 DEF IInv, PointersSpellLine, Node
    <3>2. other # At(n)
      <4>1. n = 0 \/ n \in 1..n
        BY <1>1
      <4> QED BY <1>1, <2>3, <4>1, WalkIsInjective DEF IInv
    <3> QED BY <1>4, <2>3, <3>1, <3>2 DEF AddOrder, Unlinked, IInv, TypeOK
  <2> QED BY <2>1, <2>2, <2>3
<1>9. NobodyTwice'
  <2>1. \A i \in 1..(n + 1) : i = n + 1 \/ i \in 1..n
    BY <1>1
  <2> QED BY <1>1, <1>2, <1>3, <2>1 DEF IInv, NobodyTwice
<1>10. PointersSpellLine'
  BY <1>1, <1>2, <1>7, <1>8 DEF PointersSpellLine
<1> QED BY <1>2, <1>9, <1>10

\* Unlinking: the neighbours of the order at place k are joined and its own
\* pointers cleared.  RemoveOrder and Pop both do this, Pop with k = 1.
LEMMA UnlinkKeepsWalk ==
  ASSUME IInv,
         NEW k \in 1..Len(line),
         line' = RemoveAt(line, k),
         next' = [m \in Node |-> IF m = line[k] THEN null
                                 ELSE IF m = At(k - 1) THEN At(k + 1) ELSE next[m]],
         prev' = [m \in Node |-> IF m = line[k] THEN null
                                 ELSE IF m = At(k + 1) THEN At(k - 1) ELSE prev[m]]
  PROVE  PointersSpellLine' /\ NobodyTwice' /\ line' \in Seq(Order)
<1>0. PICK n \in Nat : n = Len(line)
  BY WalkIsInjective DEF IInv
<1>1. n \in Nat /\ n = Len(line) /\ line \in Seq(Order) /\ k \in 1..n
  BY <1>0 DEF IInv, TypeOK
<1>2. /\ line' \in Seq(Order)
      /\ Len(line') = n - 1
      /\ \A j \in 1..(n - 1) : line'[j] = IF j < k THEN line[j] ELSE line[j + 1]
  BY <1>1, RemoveAtProperties
<1>3. PICK order \in Order : order = line[k] /\ order = At(k)
  BY <1>1, WalkIsInjective DEF IInv
<1>4. /\ \A i \in 0..(n + 1) : At(i) \in Node
      /\ \A i, j \in 0..(n + 1) : At(i) = At(j) => i = j
      /\ \A i \in 1..n : At(i) = line[i] /\ line[i] \in Order
      /\ At(0) = front /\ At(n + 1) = back
  BY <1>1, WalkIsInjective DEF IInv
<1>5. \A j \in 0..n : At(j)' = IF j < k THEN At(j) ELSE At(j + 1)
  <2> SUFFICES ASSUME NEW j \in 0..n
               PROVE  At(j)' = IF j < k THEN At(j) ELSE At(j + 1)
    OBVIOUS
  <2>1. CASE j = 0
    <3>1. j < k
      BY <1>1, <2>1
    <3> QED BY <1>4, <2>1, <3>1 DEF At
  <2>2. CASE j = n
    <3>1. j = Len(line') + 1 /\ j # 0 /\ ~(j < k)
      BY <1>1, <1>2, <2>2
    <3>2. At(j)' = back
      BY <3>1 DEF At
    <3> QED BY <1>4, <2>2, <3>1, <3>2
  <2>3. CASE j # 0 /\ j # n
    <3>1. j \in 1..(n - 1) /\ j # Len(line') + 1 /\ j \in 1..n /\ j + 1 \in 1..n
      BY <1>1, <1>2, <2>3
    <3>2. At(j)' = line'[j]
      BY <2>3, <3>1 DEF At
    <3> QED BY <1>2, <1>4, <3>1, <3>2
  <2> QED BY <2>1, <2>2, <2>3
<1>6. ASSUME NEW i \in 0..(n - 1)
      PROVE  next'[At(i)'] = At(i + 1)' /\ prev'[At(i + 1)'] = At(i)'
  <2>0. i \in 0..n /\ i + 1 \in 0..n /\ i + 1 \in 0..(n + 1) /\ i + 2 \in 0..(n + 1)
        /\ k - 1 \in 0..(n + 1) /\ k + 1 \in 0..(n + 1) /\ k \in 0..(n + 1)
        /\ i \in 0..(n + 1)
    BY <1>1
  <2>1. CASE i < k - 1
    <3>1. At(i)' = At(i) /\ At(i + 1)' = At(i + 1)
      BY <1>1, <1>5, <2>0, <2>1
    <3>2. At(i) # At(k - 1) /\ At(i) # order /\ At(i + 1) # At(k + 1) /\ At(i + 1) # order
      BY <1>1, <1>3, <1>4, <2>0, <2>1
    <3>3. next'[At(i)] = next[At(i)] /\ prev'[At(i + 1)] = prev[At(i + 1)]
      BY <1>3, <1>4, <2>0, <3>2
    <3>4. next[At(i)] = At(i + 1) /\ prev[At(i + 1)] = At(i)
      BY <1>1, <2>0 DEF IInv, PointersSpellLine
    <3> QED BY <3>1, <3>3, <3>4
  <2>2. CASE i = k - 1
    <3>1. At(i)' = At(k - 1) /\ At(i + 1)' = At(k + 1)
      <4>1. i < k /\ ~(i + 1 < k) /\ i + 1 + 1 = k + 1
        BY <1>1, <2>2
      <4> QED BY <1>5, <2>0, <2>2, <4>1
    <3>2. At(k - 1) # order /\ At(k + 1) # order
      BY <1>1, <1>3, <1>4, <2>0
    <3>3. next'[At(k - 1)] = At(k + 1) /\ prev'[At(k + 1)] = At(k - 1)
      BY <1>3, <1>4, <2>0, <3>2
    <3> QED BY <3>1, <3>3
  <2>3. CASE i > k - 1
    <3>1. At(i)' = At(i + 1) /\ At(i + 1)' = At(i + 2)
      <4>1. ~(i < k) /\ ~(i + 1 < k) /\ i + 1 + 1 = i + 2
        BY <1>1, <2>3
      <4> QED BY <1>5, <2>0, <4>1
    <3>2. At(i + 1) # At(k - 1) /\ At(i + 1) # order /\ At(i + 2) # At(k + 1) /\ At(i + 2) # order
      BY <1>1, <1>3, <1>4, <2>0, <2>3
    <3>3. next'[At(i + 1)] = next[At(i + 1)] /\ prev'[At(i + 2)] = prev[At(i + 2)]
      BY <1>3, <1>4, <2>0, <3>2
    <3>4. next[At(i + 1)] = At(i + 2) /\ prev[At(i + 2)] = At(i + 1)
      <4>1. i + 1 \in 0..Len(line) /\ i + 1 + 1 = i + 2
        BY <1>1, <2>0
      <4> QED BY <4>1 DEF IInv, PointersSpellLine
    <3> QED BY <3>1, <3>3, <3>4
  <2> QED BY <1>1, <2>1, <2>2, <2>3
<1>7. ASSUME NEW other \in Order
      PROVE  Unlinked(other)' \/ \E i \in 1..Len(line') : line'[i] = other
  <2>0. other \in Node /\ order \in Node
    BY DEF Node
  <2>1. CASE other = order
    BY <1>3, <2>0, <2>1 DEF Unlinked
  <2>2. CASE other # order /\ \E i \in 1..n : line[i] = other
    <3>1. PICK i \in 1..n : line[i] = other
      BY <2>2
    <3>2. i # k
      BY <1>3, <2>2, <3>1
    <3>3. CASE i < k
      BY <1>1, <1>2, <3>1, <3>3
    <3>4. CASE i > k
      <4>1. i - 1 \in 1..(n - 1) /\ ~(i - 1 < k) /\ i - 1 + 1 = i
        BY <1>1, <3>4
      <4> QED BY <1>2, <3>1, <4>1
    <3> QED BY <1>1, <3>2, <3>3, <3>4
  <2>3. CASE other # order /\ ~\E i \in 1..n : line[i] = other
    <3>1. next[other] = null /\ prev[other] = null
      BY <1>1, <2>3 DEF IInv, PointersSpellLine, Unlinked
    <3>2. other # front /\ other # back
      OBVIOUS
    <3>3. other # At(k - 1) /\ other # At(k + 1)
      <4>1. \A i \in 0..(n + 1) : i = 0 \/ i = n + 1 \/ i \in 1..n
        BY <1>1
      <4>2. k - 1 \in 0..(n + 1) /\ k + 1 \in 0..(n + 1)
        BY <1>1
      <4> QED BY <1>4, <2>3, <3>2, <4>1, <4>2
    <3> QED BY <1>3, <2>0, <2>3, <3>1, <3>3 DEF Unlinked
  <2> QED BY <2>1, <2>2, <2>3
<1>8. NobodyTwice'
  <2> SUFFICES ASSUME NEW i \in 1..(n - 1), NEW j \in 1..(n - 1), line'[i] = line'[j]
               PROVE  i = j
    BY <1>2 DEF NobodyTwice
  <2>1. /\ i \in 1..n /\ i + 1 \in 1..n
        /\ j \in 1..n /\ j + 1 \in 1..n
    BY <1>1
  <2>2. \A a, b \in 1..n : line[a] = line[b] => a = b
    BY <1>1 DEF IInv, NobodyTwice
  <2>3. (IF i < k THEN i ELSE i + 1) = (IF j < k THEN j ELSE j + 1)
    BY <1>2, <2>1, <2>2
  <2> QED BY <1>1, <2>3
<1>9. PointersSpellLine'
  BY <1>1, <1>2, <1>6, <1>7 DEF PointersSpellLine
<1> QED BY <1>2, <1>8, <1>9

-----------------------------------------------------------------------------
(* Every call keeps the invariant.                                         *)

\* RemoveOrder of a linked order unlinks the one place it stands at.
LEMMA RemoveOrderUnlinks ==
  ASSUME IInv, NEW order \in Order, RemoveOrder(order)
  PROVE  \E k \in 1..Len(line) :
           /\ line[k] = order
           /\ line' = RemoveAt(line, k)
           /\ PointersSpellLine' /\ NobodyTwice' /\ line' \in Seq(Order)
<1>1. PICK k \in 1..Len(line) : line[k] = order /\ line' = RemoveAt(line, k)
  BY LinkedIffInLine DEF RemoveOrder, Leave
<1>2. /\ k - 1 \in 0..Len(line) /\ k \in 0..Len(line) /\ k - 1 + 1 = k
      /\ k - 1 \in 0..(Len(line) + 1) /\ k + 1 \in 0..(Len(line) + 1)
      /\ k \in 0..(Len(line) + 1)
      /\ k # k - 1 /\ k # k + 1
  BY WalkIsInjective DEF IInv
<1>3. /\ prev[order] = At(k - 1) /\ next[order] = At(k + 1)
      /\ order # At(k - 1) /\ order # At(k + 1)
  <2>1. At(k) = order
    BY <1>1, WalkIsInjective DEF IInv
  <2>2. next[At(k)] = At(k + 1) /\ prev[At(k)] = At(k - 1)
    BY <1>2 DEF IInv, PointersSpellLine
  <2>3. At(k) # At(k - 1) /\ At(k) # At(k + 1)
    BY <1>2, WalkIsInjective DEF IInv
  <2> QED BY <2>1, <2>2, <2>3
<1>4. /\ next' = [m \in Node |-> IF m = line[k] THEN null
                                 ELSE IF m = At(k - 1) THEN At(k + 1) ELSE next[m]]
      /\ prev' = [m \in Node |-> IF m = line[k] THEN null
                                 ELSE IF m = At(k + 1) THEN At(k - 1) ELSE prev[m]]
  BY <1>1, <1>3 DEF RemoveOrder
<1> QED BY <1>1, <1>4, UnlinkKeepsWalk

\* Pop unlinks the first place.
LEMMA PopUnlinks ==
  ASSUME IInv, Pop
  PROVE  /\ line # <<>>
         /\ line' = RemoveAt(line, 1)
         /\ PointersSpellLine' /\ NobodyTwice' /\ line' \in Seq(Order)
<1>1. line # <<>> /\ next[front] = line[1] /\ line[1] \in Order
  BY FrontPointsAtHead DEF Pop
<1>2. 1 \in 1..Len(line) /\ 1 \in 0..Len(line) /\ 1 + 1 = 2 /\ 1 - 1 = 0
      /\ 2 \in 0..(Len(line) + 1) /\ 0 \in 0..(Len(line) + 1) /\ 1 \in 0..(Len(line) + 1)
  BY <1>1, EmptySeq, WalkIsInjective DEF IInv, TypeOK
<1>3. At(0) = front /\ At(1) = line[1] /\ next[line[1]] = At(2)
      /\ At(2) \in Node /\ At(2) # At(1) /\ At(2) # At(0) /\ At(1) # At(0)
  <2>1. At(0) = front /\ At(1) = line[1] /\ At(2) \in Node
        /\ At(2) # At(1) /\ At(2) # At(0) /\ At(1) # At(0)
    BY <1>2, WalkIsInjective DEF IInv
  <2>2. next[At(1)] = At(1 + 1)
    BY <1>2 DEF IInv, PointersSpellLine
  <2> QED BY <1>2, <2>1, <2>2
<1>4. line' = RemoveAt(line, 1)
  <2>1. \A i \in 1..Len(line) : line[i] = line[1] => i = 1
    BY <1>2 DEF IInv, NobodyTwice
  <2> QED BY <1>1, <1>2, <2>1 DEF Pop, Leave
<1>5. next' = [m \in Node |-> IF m = line[1] THEN null
                              ELSE IF m = At(1 - 1) THEN At(1 + 1) ELSE next[m]]
  <2>1. next \in [Node -> Node \cup {null}] /\ front \in Node
    BY DEF IInv, TypeOK, Node
  <2>2. next' = [next EXCEPT ![At(0)] = At(2), ![line[1]] = null]
    BY <1>1, <1>3 DEF Pop
  <2> QED BY <1>2, <1>3, <2>1, <2>2
<1>6. prev' = [m \in Node |-> IF m = line[1] THEN null
                              ELSE IF m = At(1 + 1) THEN At(1 - 1) ELSE prev[m]]
  <2>1. prev \in [Node -> Node \cup {null}] /\ front \in Node
    BY DEF IInv, TypeOK, Node
  <2>2. prev' = [prev EXCEPT ![At(2)] = At(0), ![line[1]] = null]
    BY <1>1, <1>3 DEF Pop
  <2> QED BY <1>2, <1>3, <2>1, <2>2
<1>7. PointersSpellLine' /\ NobodyTwice' /\ line' \in Seq(Order)
  BY <1>2, <1>4, <1>5, <1>6, UnlinkKeepsWalk
<1> QED BY <1>1, <1>4, <1>7

\* A call that leaves the list alone keeps what is said about it.
LEMMA UnchangedListKeeps ==
  ASSUME IInv, UnchangedList
  PROVE  PointersSpellLine' /\ NobodyTwice' /\ HasOrdersTruthful'
BY DEF UnchangedList, IInv, PointersSpellLine, NobodyTwice, HasOrdersTruthful, At, Unlinked

LEMMA InitEstablishesIInv == Init => IInv
<1> SUFFICES ASSUME Init PROVE IInv
  OBVIOUS
<1>1. line = <<>> /\ line \in Seq(Order) /\ Len(line) = 0
  BY EmptySeq DEF Init
<1>2. At(0) = front /\ At(1) = back
  BY <1>1 DEF At
<1>3. TypeOK
  BY <1>1 DEF Init, TypeOK, Node
<1>4. PointersSpellLine
  <2>1. \A i \in 0..Len(line) : i = 0 /\ i + 1 = 1
    BY <1>1
  <2>2. next[At(0)] = At(1) /\ prev[At(1)] = At(0)
    BY <1>2 DEF Init, Node
  <2>3. \A order \in Order : Unlinked(order)
    BY DEF Init, Node, Unlinked
  <2> QED BY <2>1, <2>2, <2>3 DEF PointersSpellLine
<1>5. NobodyTwice
  BY <1>1 DEF NobodyTwice
<1>6. HasOrdersTruthful
  BY DEF Init, HasOrdersTruthful, Node
<1> QED BY <1>3, <1>4, <1>5, <1>6 DEF IInv

LEMMA NextKeepsIInv == IInv /\ [Next]_vars => IInv'
<1> SUFFICES ASSUME IInv, [Next]_vars PROVE IInv'
  OBVIOUS
<1>0. line \in Seq(Order) /\ next \in [Node -> Node \cup {null}]
      /\ prev \in [Node -> Node \cup {null}] /\ has_orders \in BOOLEAN
      /\ \A o \in Order : o \in Node
  BY DEF IInv, TypeOK, Node
<1>1. ASSUME NEW order \in Order, AddOrder(order)
      PROVE  IInv'
  <2>1. PointersSpellLine' /\ NobodyTwice' /\ line' \in Seq(Order)
    BY <1>1, JoinKeepsWalk DEF AddOrder
  <2>2. TypeOK'
    BY <1>0, <1>1, <2>1 DEF AddOrder, Answer, TypeOK, Node
  <2>3. HasOrdersTruthful'
    <3>1. next'[front] # back
      <4>1. 1 \in 1..Len(line')
        BY <1>0, <1>1, AppendProperties, LenProperties DEF AddOrder
      <4>2. (At(1) # back)'
        <5>1. line'[1] \in Order
          BY <2>1, <4>1, ElementOfSeq
        <5>2. 1 # Len(line') + 1 /\ 1 # 0
          BY <2>1, <4>1, LenProperties
        <5> QED BY <5>1, <5>2 DEF At
      <4>3. (next[At(0)] = At(1) /\ At(0) = front)'
        <5>1. 0 \in 0..Len(line') /\ 0 + 1 = 1
          BY <2>1, LenProperties
        <5>2. (next[At(0)] = At(0 + 1))'
          BY <2>1, <5>1 DEF PointersSpellLine
        <5> QED BY <5>1, <5>2 DEF At
      <4> QED BY <4>2, <4>3
    <3> QED BY <1>1, <3>1 DEF AddOrder, HasOrdersTruthful
  <2> QED BY <2>1, <2>2, <2>3 DEF IInv
<1>2. ASSUME NEW order \in Order, RemoveOrder(order)
      PROVE  IInv'
  <2>1. PointersSpellLine' /\ NobodyTwice' /\ line' \in Seq(Order)
    BY <1>2, RemoveOrderUnlinks
  <2>2. TypeOK'
    BY <1>0, <1>2, <2>1 DEF RemoveOrder, Answer, TypeOK
  <2>3. has_orders
    <3>1. line # <<>>
      BY <1>2, LinkedIffInLine, EmptySeq DEF RemoveOrder
    <3> QED BY <3>1, FrontPointsAtHead DEF IInv, HasOrdersTruthful
  <2>4. HasOrdersTruthful'
    BY <1>2, <2>3 DEF RemoveOrder, HasOrdersTruthful
  <2> QED BY <2>1, <2>2, <2>4 DEF IInv
<1>3. ASSUME Pop
      PROVE  IInv'
  <2>1. PointersSpellLine' /\ NobodyTwice' /\ line' \in Seq(Order)
    BY <1>3, PopUnlinks
  <2>2. TypeOK'
    <3>1. line # <<>> /\ next[front] \in Order
      BY <1>3, FrontPointsAtHead DEF Pop
    <3>2. next[next[front]] \in Node \cup {null}
      BY <1>0, <3>1
    <3> QED BY <1>0, <1>3, <2>1, <3>1, <3>2 DEF Pop, Answer, TypeOK, Node
  <2>3. HasOrdersTruthful'
    BY <1>3 DEF Pop, IInv, HasOrdersTruthful
  <2> QED BY <2>1, <2>2, <2>3 DEF IInv
<1>4. ASSUME UnchangedList, result' \in [outcome : {"none", "done", "threw", "ignored", "yes", "no"},
                                         order : Order \cup {NoOrder}]
      PROVE  IInv'
  <2>1. TypeOK'
    BY <1>0, <1>4 DEF UnchangedList, TypeOK
  <2> QED BY <1>4, <2>1, UnchangedListKeeps DEF IInv
<1>5. ASSUME NEW order \in Order,
             AddOrderOfOtherPrice(order) \/ RemoveOrderAlreadyRemoved(order)
      PROVE  IInv'
  BY <1>4, <1>5 DEF AddOrderOfOtherPrice, RemoveOrderAlreadyRemoved, Answer
<1>6. CASE HasOrders \/ PopEmpty
  BY <1>4, <1>6 DEF HasOrders, PopEmpty, Answer
<1>7. CASE Peek
  <2>1. next[front] = back \/ next[front] \in Order
    BY FrontPointsAtHead
  <2> QED BY <1>4, <1>7, <2>1 DEF Peek, Answer
<1>8. CASE UNCHANGED vars
  BY <1>4, <1>8 DEF vars, UnchangedList, IInv, TypeOK
<1> QED BY <1>1, <1>2, <1>3, <1>5, <1>6, <1>7, <1>8 DEF Next

LEMMA Invariance == Spec => []IInv
BY InitEstablishesIInv, NextKeepsIInv, PTL DEF Spec

\* The pointers, the flag and the answers always have their types: no call ever
\* follows a null pointer or answers with a sentinel.
THEOREM TypeCorrect == Spec => []TypeOK
<1>1. IInv => TypeOK
  BY DEF IInv
<1> QED BY <1>1, Invariance, PTL

\* Whatever is added, removed and popped in whatever order, the list read
\* forwards and backwards is the line, and an order out of line is unlinked.
THEOREM ListIsTheLine == Spec => []PointersSpellLine
<1>1. IInv => PointersSpellLine
  BY DEF IInv
<1> QED BY <1>1, Invariance, PTL

\* The flag and the list always agree: the loop of HandleOrder, which tests
\* HasOrders and then calls Peek, never peeks into an empty list.
THEOREM FlagAgreesWithList == Spec => []HasOrdersTruthful
<1>1. IInv => HasOrdersTruthful
  BY DEF IInv
<1> QED BY <1>1, Invariance, PTL

-----------------------------------------------------------------------------
(* The refinement.                                                         *)

\* The linked list implements the abstract queue: every call answers, and
\* changes the line, as FifoQueue says.
THEOREM ListImplementsFifo == Spec => ImplementsFifoQueue
<1>1. Init => Fifo!Init
  BY DEF Init, Fifo!Init
<1>2. IInv /\ [Next]_vars => [Fifo!Next]_Fifo!vars
  <2> SUFFICES ASSUME IInv, [Next]_vars PROVE [Fifo!Next]_Fifo!vars
    OBVIOUS
  <2>0. ASSUME NEW order \in Order, Unlinked(order)
        PROVE  ~Fifo!Waiting(order)
    BY <2>0, LinkedIffInLine DEF Fifo!Waiting
  <2>1. ASSUME NEW order \in Order, AddOrder(order)
        PROVE  Fifo!Add(order)
    BY <2>0, <2>1 DEF AddOrder, Answer, Fifo!Add, Fifo!Answer
  <2>2. ASSUME NEW order \in Order, AddOrderOfOtherPrice(order)
        PROVE  Fifo!Refuse(order)
    BY <2>0, <2>2 DEF AddOrderOfOtherPrice, UnchangedList, Answer, Fifo!Refuse, Fifo!Answer
  <2>3. ASSUME NEW order \in Order, RemoveOrder(order)
        PROVE  Fifo!Withdraw(order)
    <3>1. \E k \in 1..Len(line) : line[k] = order /\ line' = RemoveAt(line, k)
      BY <2>3, RemoveOrderUnlinks
    <3>2. Fifo!Answer("done", order)
      BY <2>3 DEF RemoveOrder, Answer, Fifo!Answer
    <3> QED BY <3>1, <3>2 DEF Fifo!Withdraw, Fifo!RemoveAt, RemoveAt
  <2>4. ASSUME NEW order \in Order, RemoveOrderAlreadyRemoved(order)
        PROVE  Fifo!Withdraw(order)
    BY <2>0, <2>4
       DEF RemoveOrderAlreadyRemoved, UnchangedList, Answer, Fifo!Withdraw, Fifo!Answer
  <2>5. CASE HasOrders
    <3>1. has_orders <=> line # <<>>
      BY FrontPointsAtHead DEF IInv, HasOrdersTruthful
    <3>2. Fifo!Ask
      BY <2>5, <3>1 DEF HasOrders, UnchangedList, Answer, Fifo!Ask, Fifo!Answer
    <3> QED BY <3>2 DEF Fifo!Next
  <2>6. CASE Peek
    <3>1. Fifo!First
      BY <2>6, FrontPointsAtHead
         DEF Peek, UnchangedList, Answer, Fifo!First, Fifo!Answer
    <3> QED BY <3>1 DEF Fifo!Next
  <2>7. CASE Pop
    <3>1. line # <<>> /\ line' = Tail(line)
      BY <2>7, PopUnlinks, RemoveAtFirst DEF IInv, TypeOK
    <3>2. Answer("done", Head(line))
      BY <2>7, <3>1, FrontPointsAtHead DEF Pop
    <3>3. Fifo!TakeFirst
      BY <3>1, <3>2 DEF Answer, Fifo!TakeFirst, Fifo!Answer
    <3> QED BY <3>3 DEF Fifo!Next
  <2>8. CASE PopEmpty
    <3>1. line = <<>>
      BY <2>8, FrontPointsAtHead DEF PopEmpty
    <3>2. Fifo!TakeFirst
      BY <2>8, <3>1 DEF PopEmpty, UnchangedList, Answer, Fifo!TakeFirst, Fifo!Answer
    <3> QED BY <3>2 DEF Fifo!Next
  <2>9. CASE UNCHANGED vars
    BY <2>9 DEF vars, Fifo!vars
  <2> QED BY <2>1, <2>2, <2>3, <2>4, <2>5, <2>6, <2>7, <2>8, <2>9 DEF Next, Fifo!Next
<1> QED BY <1>1, <1>2, Invariance, PTL DEF Spec, ImplementsFifoQueue, Fifo!Spec
=============================================================================

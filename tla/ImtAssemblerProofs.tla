------------------------- MODULE ImtAssemblerProofs -------------------------
(***************************************************************************)
(* The safety of the assembler for every capacity, payload size and set of *)
(* datagrams: one inductive invariant, its consequences, and that the      *)
(* assembler implements LatestWins.  Then, with the senders of ImtReceiver *)
(* before it: every possible repair is made, and what is shown was sent.   *)
(***************************************************************************)
EXTENDS ImtReceiver, TLAPS, FiniteSetTheorems, SequenceTheorems, WellFoundedInduction

(* Each conjunct needs others: the gate stays exclusive because a retry is *)
(* only awaited when nothing else is assembled, the retry stays reachable  *)
(* because what is superseded is newer than what is shown, and the count   *)
(* is exact because groups never reach outside their frame.                *)
IInv ==
  /\ TypeOK
  /\ ActiveIsNewer
  /\ RetryIsReachable
  /\ GateIsExclusive
  /\ CountIsExact
  /\ GroupsStayInside

(* An assembly state for d's frame, before it is published or stored. *)
Held(d, recv, count, bytes, grps) ==
  /\ recv \subseteq 0 .. Frame(d).chunks - 1
  /\ count = Cardinality(recv)
  /\ bytes \in [ChunkIds -> Payload]
  /\ grps \in [GroupIds -> GroupState]
  /\ \A g \in GroupIds : grps[g].known =>
       grps[g].size > 0 /\ grps[g].base + grps[g].size <= Frame(d).chunks

-----------------------------------------------------------------------------
(* Induction over the numbers, for sets: what the library states for       *)
(* predicates.                                                             *)
LEMMA Induction ==
  ASSUME NEW S, 0 \in S, \A n \in Nat : n \in S => n + 1 \in S
  PROVE  \A n \in Nat : n \in S
<1> DEFINE R == {r \in Nat \X Nat : r[1] < r[2]}
           T == {n \in Nat : n \notin S}
<1>1. IsWellFoundedOn(R, Nat)
  BY NatLessThanWellFounded DEF OpToRel
<1>2. SUFFICES ASSUME T # {} PROVE FALSE
  OBVIOUS
<1> HIDE DEF R
<1>3. PICK x \in T : \A y \in T : ~ (<<y, x>> \in R)
  BY <1>1, <1>2, WFMin
<1>4. x \in Nat /\ x # 0 /\ x - 1 \in Nat
  OBVIOUS
<1>5. <<x - 1, x>> \in R
  BY <1>4 DEF R
<1>6. x - 1 \in S
  BY <1>3, <1>4, <1>5
<1>7. (x - 1) + 1 \in S
  BY <1>4, <1>6
<1> QED
  BY <1>4, <1>7

-----------------------------------------------------------------------------
(* A frame has at least one chunk, and only its last one is not full.      *)
LEMMA ChunkCountFacts ==
  ASSUME NEW size \in Nat, size > 0
  PROVE  /\ ChunkCount(size) \in Nat /\ ChunkCount(size) > 0
         /\ (ChunkCount(size) - 1) * MaxPayload < size
         /\ size <= ChunkCount(size) * MaxPayload
<1>1. MaxPayload \in Nat /\ MaxPayload > 0
  BY MaxPayloadAssumption
<1>2. size + MaxPayload - 1 \in Nat /\ size + MaxPayload - 1 >= MaxPayload
  BY <1>1
<1>3. ASSUME NEW a \in Nat, a >= MaxPayload
      PROVE  /\ a \div MaxPayload \in Nat /\ a \div MaxPayload > 0
             /\ (a \div MaxPayload) * MaxPayload <= a
             /\ a < (a \div MaxPayload) * MaxPayload + MaxPayload
  BY <1>1, <1>3
<1> DEFINE n == (size + MaxPayload - 1) \div MaxPayload
<1>4. /\ n \in Nat /\ n > 0 /\ n * MaxPayload <= size + MaxPayload - 1
      /\ size + MaxPayload - 1 < n * MaxPayload + MaxPayload
  BY <1>2, <1>3
<1>5. ChunkCount(size) = n
  BY DEF ChunkCount
<1> HIDE DEF n
<1>6. (n - 1) * MaxPayload = n * MaxPayload - MaxPayload
  BY <1>1, <1>4
<1>7. n * MaxPayload \in Nat
  BY <1>1, <1>4
<1> QED
  BY <1>1, <1>4, <1>5, <1>6, <1>7

(* A group has at least one chunk, at least two unless it ends the frame,  *)
(* and stays inside the frame.                                             *)
LEMMA GroupSizeFacts ==
  ASSUME NEW frame, HandedOver(frame), NEW c \in 0 .. ChunkCount(frame.size) - 1
  PROVE  /\ GroupSize(frame, c) \in Nat /\ GroupSize(frame, c) > 0
         /\ c + GroupSize(frame, c) <= ChunkCount(frame.size)
         /\ GroupSize(frame, c) > 1 \/ c + GroupSize(frame, c) = ChunkCount(frame.size)
         /\ GroupSize(frame, c) <= 16
<1> DEFINE n == ChunkCount(frame.size)
<1>1. n \in Nat /\ n > 0
  BY ChunkCountFacts DEF HandedOver
<1> HIDE DEF n
<1>2. c \in Nat /\ c < n
  BY <1>1 DEF n
<1>3. WantedGroupSize(frame, c) \in {2, 4, 8, 16}
  <2>1. CASE frame.weights = Uniform
    BY <2>1 DEF WantedGroupSize
  <2>2. CASE frame.weights # Uniform
    <3>1. frame.weights \in Seq(0 .. 255) /\ c + 1 \in 1 .. Len(frame.weights)
      BY <1>1, <1>2, <2>2 DEF HandedOver, n
    <3>2. frame.weights[c + 1] \in 0 .. 255
      BY <3>1, ElementOfSeq
    <3>3. \A w \in 0 .. 255 : FecGroupSize(w) \in {2, 4, 8, 16}
      BY SMT DEF FecGroupSize
    <3> QED
      BY <2>2, <3>2, <3>3 DEF WantedGroupSize
  <2> QED
    BY <2>1, <2>2
<1>4. GroupSize(frame, c) = IF WantedGroupSize(frame, c) > n - c THEN n - c
                            ELSE WantedGroupSize(frame, c)
  BY DEF GroupSize, n
<1> QED
  BY <1>1, <1>2, <1>3, <1>4 DEF n

-----------------------------------------------------------------------------
(* The first chunks of the groups, one from the other.                     *)
NextBase(frame, b) == IF b = ChunkCount(frame.size) THEN b ELSE b + GroupSize(frame, b)

(* The group bases satisfy the recursion that defines them.                *)
LEMMA GroupBaseUnfolds ==
  ASSUME NEW frame, HandedOver(frame)
  PROVE  /\ DOMAIN GroupBase(frame) = 0 .. ChunkCount(frame.size)
         /\ GroupBase(frame)[0] = 0
         /\ \A g \in 1 .. ChunkCount(frame.size) :
              GroupBase(frame)[g] = NextBase(frame, GroupBase(frame)[g - 1])
<1> DEFINE n == ChunkCount(frame.size)
           Body(f, m) == [g \in 0 .. m |-> IF g = 0 THEN 0
                                           ELSE IF f[g - 1] = n THEN n
                                           ELSE f[g - 1] + GroupSize(frame, f[g - 1])]
           S == {m \in Nat : \E f : f = Body(f, m)}
<1>0. n \in Nat
  BY ChunkCountFacts DEF HandedOver
<1>1. 0 \in S
  <2>1. DEFINE f == [g \in 0 .. 0 |-> 0]
  <2>2. f = Body(f, 0)
    OBVIOUS
  <2> QED
    BY <2>2
<1>2. ASSUME NEW m \in Nat, m \in S PROVE m + 1 \in S
  <2>1. PICK f : f = Body(f, m)
    BY <1>2
  <2> DEFINE F == [g \in 0 .. m + 1 |-> IF g <= m THEN f[g]
                                        ELSE IF f[m] = n THEN n ELSE f[m] + GroupSize(frame, f[m])]
  <2>2. ASSUME NEW g \in 0 .. m + 1
        PROVE  F[g] = Body(F, m + 1)[g]
    <3> HIDE DEF n
    <3>1. CASE g = 0
      BY <2>1, <3>1
    <3>2. CASE g # 0 /\ g <= m
      <4>1. g \in 0 .. m /\ g - 1 \in 0 .. m /\ g - 1 \in 0 .. m + 1
        BY <3>2
      <4>2. F[g] = f[g] /\ F[g - 1] = f[g - 1]
        BY <4>1
      <4>3. f[g] = IF f[g - 1] = n THEN n ELSE f[g - 1] + GroupSize(frame, f[g - 1])
        BY <2>1, <3>2, <4>1
      <4> QED
        BY <3>2, <4>1, <4>2, <4>3
    <3>3. CASE g = m + 1
      BY <3>3
    <3> QED
      BY <3>1, <3>2, <3>3
  <2>3. F = Body(F, m + 1)
    BY <2>2
  <2>4. \E h : h = Body(h, m + 1)
    <3> HIDE DEF F, Body
    <3> QED
      BY <2>3
  <2>5. m + 1 \in Nat
    OBVIOUS
  <2> QED
    BY <2>4, <2>5
<1>3. n \in S
  <2> HIDE DEF S, n
  <2> QED
    BY <1>0, <1>1, <1>2, Induction
<1>4. GroupBase(frame) = CHOOSE f : f = Body(f, n)
  BY DEF GroupBase
<1>5. GroupBase(frame) = Body(GroupBase(frame), n)
  BY <1>3, <1>4
<1> HIDE DEF n
<1> QED
  BY <1>0, <1>5 DEF NextBase, n

-----------------------------------------------------------------------------
(* Bases stay in the frame; before its end every group adds two chunks.    *)
LEMMA GroupBaseFacts ==
  ASSUME NEW frame, HandedOver(frame)
  PROVE  \A g \in 0 .. ChunkCount(frame.size) :
           /\ GroupBase(frame)[g] \in 0 .. ChunkCount(frame.size)
           /\ GroupBase(frame)[g] < ChunkCount(frame.size) => GroupBase(frame)[g] >= 2 * g
<1> DEFINE n == ChunkCount(frame.size)
           b(g) == GroupBase(frame)[g]
           S == {g \in Nat : g <= n => b(g) \in 0 .. n /\ (b(g) < n => b(g) >= 2 * g)}
<1>0. n \in Nat /\ n > 0
  BY ChunkCountFacts DEF HandedOver
<1>1. 0 \in S
  BY <1>0, GroupBaseUnfolds
<1>2. ASSUME NEW g \in Nat, g \in S PROVE g + 1 \in S
  <2>1. SUFFICES ASSUME g + 1 <= n
                 PROVE  b(g + 1) \in 0 .. n /\ (b(g + 1) < n => b(g + 1) >= 2 * (g + 1))
    OBVIOUS
  <2>2. b(g) \in 0 .. n /\ (b(g) < n => b(g) >= 2 * g)
    BY <1>0, <1>2, <2>1
  <2>3. b(g + 1) = NextBase(frame, b(g))
    <3>1. g + 1 \in 1 .. n /\ (g + 1) - 1 = g
      BY <1>0, <2>1
    <3> QED
      BY <3>1, GroupBaseUnfolds
  <2>4. CASE b(g) = n
    <3>1. b(g + 1) = n
      BY <2>3, <2>4 DEF NextBase
    <3> HIDE DEF b, n
    <3> QED
      BY <1>0, <3>1
  <2>5. CASE b(g) # n
    <3>1. b(g) \in 0 .. n - 1
      <4> HIDE DEF b, n
      <4> QED
        BY <1>0, <2>2, <2>5
    <3>2. /\ GroupSize(frame, b(g)) \in Nat /\ GroupSize(frame, b(g)) > 0
          /\ b(g) + GroupSize(frame, b(g)) <= n
          /\ GroupSize(frame, b(g)) > 1 \/ b(g) + GroupSize(frame, b(g)) = n
      BY <3>1, GroupSizeFacts
    <3>3. b(g + 1) = b(g) + GroupSize(frame, b(g))
      BY <2>3, <2>5 DEF NextBase
    <3> HIDE DEF b, n
    <3> QED
      BY <1>0, <2>2, <3>1, <3>2, <3>3
  <2> QED
    BY <2>4, <2>5
<1>3. \A g \in Nat : g \in S
  <2> HIDE DEF S
  <2> QED
    BY <1>1, <1>2, Induction
<1> HIDE DEF n
<1> QED
  BY <1>0, <1>3 DEF n

(* The groups of a frame are numbered from 0 without a gap.                *)
LEMMA GroupsAreNumbered ==
  ASSUME NEW frame, HandedOver(frame)
  PROVE  /\ Cardinality(Groups(frame)) \in Nat
         /\ Cardinality(Groups(frame)) > 0
         /\ Groups(frame) = 0 .. Cardinality(Groups(frame)) - 1
<1> DEFINE n == ChunkCount(frame.size)
           G == Groups(frame)
           S == {g \in Nat : 0 .. g \subseteq G}
<1>0. n \in Nat /\ n > 0
  BY ChunkCountFacts DEF HandedOver
<1>1. G = {g \in 0 .. n : GroupBase(frame)[g] < n}
  BY GroupBaseUnfolds DEF Groups
<1>2. 0 \in G
  BY <1>0, <1>1, GroupBaseUnfolds
<1>3. ASSUME NEW g \in Nat, g + 1 \in G PROVE g \in G
  <2>1. g \in 0 .. n /\ g + 1 \in 1 .. n /\ (g + 1) - 1 = g
    BY <1>0, <1>1, <1>3
  <2>2. GroupBase(frame)[g + 1] = NextBase(frame, GroupBase(frame)[g])
    BY <2>1, GroupBaseUnfolds
  <2>3. GroupBase(frame)[g] \in 0 .. n
    BY <2>1, GroupBaseFacts
  <2>4. GroupBase(frame)[g + 1] < n
    BY <1>1, <1>3
  <2>5. GroupBase(frame)[g] # n
    <3> HIDE DEF n
    <3> QED
      BY <1>0, <2>2, <2>4, <2>3 DEF NextBase, n
  <2>6. GroupBase(frame)[g] < n
    <3> HIDE DEF n
    <3> QED
      BY <1>0, <2>3, <2>5
  <2> QED
    BY <1>1, <2>1, <2>6
<1>4. n \notin G
  <2>1. GroupBase(frame)[n] \in 0 .. n /\ (GroupBase(frame)[n] < n => GroupBase(frame)[n] >= 2 * n)
    <3>1. n \in 0 .. n
      BY <1>0
    <3> QED
      BY <3>1, GroupBaseFacts
  <2> HIDE DEF n, G
  <2> QED
    BY <1>0, <1>1, <2>1
<1>5. \E k \in 0 .. n : G = 0 .. k
  <2>1. ASSUME \A k \in 0 .. n : G # 0 .. k PROVE FALSE
    <3> DEFINE T == {k \in Nat : 0 .. k \subseteq G}
    <3> HIDE DEF n, G
    <3>1. 0 \in T
      BY <1>2
    <3>2. ASSUME NEW k \in Nat, k \in T PROVE k + 1 \in T
      <4>1. 0 .. k \subseteq G
        BY <3>2
      <4>2. k \in G /\ k <= n
        BY <4>1, <1>1
      <4>3. k + 1 \in G
        <5>1. SUFFICES ASSUME k + 1 \notin G PROVE FALSE
          OBVIOUS
        <5>2. PICK x \in G : x \notin 0 .. k
          <6>1. k \in 0 .. n
            BY <1>0, <3>2, <4>2
          <6>2. G # 0 .. k
            BY <2>1, <6>1
          <6> HIDE DEF T
          <6> QED
            BY <4>1, <6>2
        <5>3. x \in Nat /\ x > k + 1
          BY <5>1, <5>2, <1>1, <1>0
        <5> DEFINE U == {y \in Nat : k + 1 + y \notin G}
        <5>4. 0 \in U
          BY <5>1
        <5>5. ASSUME NEW y \in Nat, y \in U PROVE y + 1 \in U
          <6>1. k + 1 + y \in Nat /\ k + 1 + (y + 1) = (k + 1 + y) + 1
            OBVIOUS
          <6> QED
            BY <1>3, <5>5, <6>1
        <5>6. \A y \in Nat : y \in U
          <6> HIDE DEF U
          <6> QED
            BY <5>4, <5>5, Induction
        <5>7. x - (k + 1) \in Nat /\ k + 1 + (x - (k + 1)) = x
          BY <5>3
        <5> QED
          BY <5>2, <5>6, <5>7
      <4>4. 0 .. k + 1 = (0 .. k) \cup {k + 1}
        OBVIOUS
      <4> QED
        BY <4>1, <4>3, <4>4
    <3>3. n \in T
      <4> HIDE DEF T
      <4> QED
        BY <1>0, <3>1, <3>2, Induction
    <3> QED
      BY <1>0, <1>4, <3>3
  <2> QED
    BY <2>1
<1>6. PICK k \in 0 .. n : G = 0 .. k
  BY <1>5
<1> HIDE DEF n, G
<1>7. k \in Nat
  BY <1>0, <1>6
<1>8. Cardinality(G) = k + 1
  <2>1. Cardinality(0 .. k) = k - 0 + 1
    BY <1>7, FS_Interval
  <2> QED
    BY <1>6, <1>7, <2>1
<1> QED
  BY <1>6, <1>7, <1>8 DEF G

(* A sequence of k sequences over E.                                       *)
Parts(seqs, k, E) == k \in Nat /\ k > 0 /\ seqs \in [1 .. k -> Seq(E)]

(* F[i] are the first i parts in a row.                                    *)
Rows(F, seqs, k) ==
  /\ FlattenSeq(seqs) = F[k] /\ F[1] = seqs[1]
  /\ \A i \in 2 .. k : F[i] = F[i - 1] \o seqs[i]

(* A flattened sequence is built from the front.                           *)
LEMMA FlattenUnfolds ==
  ASSUME NEW k, NEW seqs, NEW E, Parts(seqs, k, E)
  PROVE  \E F : Rows(F, seqs, k)
<1> DEFINE Body(f, m) == [i \in 1 .. m |-> IF i = 1 THEN seqs[i] ELSE f[i - 1] \o seqs[i]]
           S == {m \in Nat : \E f : f = Body(f, m)}
<1> USE DEF Parts
<1>0. \A g \in 1 .. k : seqs[g] \in Seq(E) /\ Len(seqs[g]) \in Nat
  OBVIOUS
<1>1. 0 \in S
  <2> DEFINE f == [i \in 1 .. 0 |-> seqs[i]]
  <2>1. f = Body(f, 0)
    OBVIOUS
  <2>2. \E h : h = Body(h, 0)
    <3> HIDE DEF f, Body
    <3> QED
      BY <2>1
  <2> QED
    BY <2>2
<1>2. ASSUME NEW m \in Nat, m \in S PROVE m + 1 \in S
  <2>1. PICK f : f = Body(f, m)
    BY <1>2
  <2> DEFINE F == [i \in 1 .. m + 1 |-> IF i <= m THEN f[i]
                                        ELSE IF i = 1 THEN seqs[i] ELSE f[m] \o seqs[i]]
  <2>2. ASSUME NEW i \in 1 .. m + 1
        PROVE  F[i] = Body(F, m + 1)[i]
    <3>1. CASE i = 1 /\ i <= m
      <4>1. f[i] = seqs[i]
        BY <2>1, <3>1
      <4> QED
        BY <3>1, <4>1
    <3>2. CASE i # 1 /\ i <= m
      <4>1. i \in 1 .. m /\ i - 1 \in 1 .. m /\ i - 1 \in 1 .. m + 1
        BY <3>2
      <4>2. F[i] = f[i] /\ F[i - 1] = f[i - 1]
        BY <4>1
      <4>3. f[i] = f[i - 1] \o seqs[i]
        BY <2>1, <3>2, <4>1
      <4> QED
        BY <3>2, <4>1, <4>2, <4>3
    <3>3. CASE i = m + 1
      <4>1. F[i] = IF i = 1 THEN seqs[i] ELSE f[m] \o seqs[i]
        BY <3>3
      <4>2. i # 1 => F[i - 1] = f[m]
        BY <3>3
      <4> QED
        BY <4>1, <4>2
    <3> QED
      BY <3>1, <3>2, <3>3
  <2>3. F = Body(F, m + 1)
    BY <2>2
  <2>4. \E h : h = Body(h, m + 1)
    <3> HIDE DEF F, Body
    <3> QED
      BY <2>3
  <2>5. m + 1 \in Nat
    OBVIOUS
  <2> QED
    BY <2>4, <2>5
<1>3. k \in S
  <2> HIDE DEF S
  <2> QED
    BY <1>1, <1>2, Induction
<1> DEFINE F == CHOOSE f : f = Body(f, k)
<1>4. F = Body(F, k)
  BY <1>3
<1>5. Len(seqs) = k
  OBVIOUS
<1>6. FlattenSeq(seqs) = F[k]
  BY <1>5 DEF FlattenSeq
<1> HIDE DEF F
<1>7. F[1] = seqs[1] /\ \A i \in 2 .. k : F[i] = F[i - 1] \o seqs[i]
  <2>1. ASSUME NEW i \in 1 .. k
        PROVE  Body(F, k)[i] = IF i = 1 THEN seqs[i] ELSE F[i - 1] \o seqs[i]
    OBVIOUS
  <2>2. ASSUME NEW i \in 1 .. k
        PROVE  F[i] = IF i = 1 THEN seqs[i] ELSE F[i - 1] \o seqs[i]
    <3> HIDE DEF Body
    <3> QED
      BY <1>4, <2>1
  <2>3. 1 \in 1 .. k
    OBVIOUS
  <2>4. ASSUME NEW i \in 2 .. k PROVE i \in 1 .. k /\ i # 1
    OBVIOUS
  <2> QED
    BY <2>2, <2>3, <2>4
<1> QED
  BY <1>6, <1>7 DEF Rows

(* The last part of several is appended to what the others give.           *)
LEMMA FlattenGrows ==
  ASSUME NEW k, NEW seqs, NEW E, Parts(seqs, k, E), k > 1
  PROVE  FlattenSeq(seqs) = FlattenSeq([i \in 1 .. k - 1 |-> seqs[i]]) \o seqs[k]
<1> DEFINE few == [i \in 1 .. k - 1 |-> seqs[i]]
<1>0. PICK F : Rows(F, seqs, k)
  BY FlattenUnfolds
<1>1. /\ FlattenSeq(seqs) = F[k] /\ F[1] = seqs[1]
      /\ \A i \in 2 .. k : F[i] = F[i - 1] \o seqs[i]
  BY <1>0 DEF Rows
<1>2. Parts(few, k - 1, E)
  BY DEF Parts
<1>10. PICK G : Rows(G, few, k - 1)
  BY <1>2, FlattenUnfolds
<1>3. /\ FlattenSeq(few) = G[k - 1] /\ G[1] = few[1]
      /\ \A i \in 2 .. k - 1 : G[i] = G[i - 1] \o few[i]
  BY <1>10 DEF Rows
<1>4. k \in Nat /\ few[1] = seqs[1] /\ \A i \in 2 .. k - 1 : few[i] = seqs[i]
  BY DEF Parts
<1> DEFINE S == {m \in Nat : m + 1 <= k - 1 => F[m + 1] = G[m + 1]}
<1> HIDE DEF few
<1>5. 0 \in S
  BY <1>1, <1>3, <1>4
<1>6. ASSUME NEW m \in Nat, m \in S PROVE m + 1 \in S
  <2>1. SUFFICES ASSUME m + 2 <= k - 1 PROVE F[m + 2] = G[m + 2]
    BY <1>4
  <2>2. m + 2 \in 2 .. k - 1 /\ m + 2 \in 2 .. k /\ (m + 2) - 1 = m + 1 /\ m + 1 <= k - 1
    BY <1>4, <2>1
  <2>3. F[m + 1] = G[m + 1]
    BY <1>6, <2>2
  <2>4. F[m + 2] = F[m + 1] \o seqs[m + 2] /\ G[m + 2] = G[m + 1] \o seqs[m + 2]
    BY <1>1, <1>3, <1>4, <2>2
  <2> QED
    BY <2>3, <2>4
<1>7. k - 2 \in Nat /\ (k - 2) + 1 = k - 1 /\ k \in 2 .. k
  BY <1>4
<1>8. k - 2 \in S
  <2> HIDE DEF S
  <2> QED
    BY <1>5, <1>6, <1>7, Induction
<1>9. F[k - 1] = G[k - 1]
  BY <1>7, <1>8
<1> QED
  BY <1>1, <1>3, <1>7, <1>9 DEF few

(* Every element of a flattened sequence is an element of one of its       *)
(* parts.                                                                  *)
LEMMA FlattenFacts ==
  ASSUME NEW k, NEW seqs, NEW E, Parts(seqs, k, E)
  PROVE  /\ FlattenSeq(seqs) \in Seq(E)
         /\ \A j \in 1 .. Len(FlattenSeq(seqs)) :
              \E g \in 1 .. k : \E i \in 1 .. Len(seqs[g]) : FlattenSeq(seqs)[j] = seqs[g][i]
<1> USE DEF Parts
<1>0. \A g \in 1 .. k : seqs[g] \in Seq(E) /\ Len(seqs[g]) \in Nat
  OBVIOUS
<1>5. PICK F : Rows(F, seqs, k)
  BY FlattenUnfolds
<1>6. FlattenSeq(seqs) = F[k]
  BY <1>5 DEF Rows
<1>7. F[1] = seqs[1] /\ \A i \in 2 .. k : F[i] = F[i - 1] \o seqs[i]
  BY <1>5 DEF Rows
<1> DEFINE From(s, m) ==
             /\ s \in Seq(E)
             /\ \A j \in 1 .. Len(s) :
                  \E g \in 1 .. m : \E i \in 1 .. Len(seqs[g]) : s[j] = seqs[g][i]
           T == {m \in Nat : m + 1 <= k => From(F[m + 1], m + 1)}
<1>8. 0 \in T
  <2>1. F[1] = seqs[1] /\ 1 \in 1 .. k /\ 1 \in 1 .. 1 /\ seqs[1] \in Seq(E)
    BY <1>7, <1>0
  <2>2. From(F[1], 1)
    BY <2>1
  <2>3. 0 \in Nat /\ 0 + 1 = 1
    OBVIOUS
  <2> HIDE DEF From
  <2> QED
    BY <2>2, <2>3
<1>9. ASSUME NEW m \in Nat, m \in T PROVE m + 1 \in T
  <2>1. SUFFICES ASSUME m + 2 <= k PROVE From(F[m + 2], m + 2)
    <3>1. m + 1 + 1 = m + 2
      OBVIOUS
    <3> HIDE DEF From
    <3> QED
      BY <3>1
  <2>2. From(F[m + 1], m + 1)
    BY <1>9, <2>1
  <2>3. m + 2 \in 2 .. k /\ m + 2 \in 1 .. k /\ (m + 2) - 1 = m + 1
    BY <2>1
  <2>4. F[m + 2] = F[m + 1] \o seqs[m + 2] /\ seqs[m + 2] \in Seq(E)
    BY <1>7, <1>0, <2>3
  <2> DEFINE s == F[m + 1]
             t == seqs[m + 2]
  <2>5. /\ s \in Seq(E) /\ t \in Seq(E) /\ s \o t \in Seq(E)
        /\ Len(s) \in Nat /\ Len(t) \in Nat /\ Len(s \o t) = Len(s) + Len(t)
        /\ \A j \in 1 .. Len(s) + Len(t) : (s \o t)[j] = IF j <= Len(s) THEN s[j] ELSE t[j - Len(s)]
    <3>1. s \in Seq(E) /\ t \in Seq(E)
      BY <2>2, <2>4
    <3> HIDE DEF s, t
    <3> QED
      BY <3>1
  <2>6. ASSUME NEW j \in 1 .. Len(s \o t)
        PROVE  \E g \in 1 .. m + 2 : \E i \in 1 .. Len(seqs[g]) : (s \o t)[j] = seqs[g][i]
    <3>1. CASE j <= Len(s)
      <4>1. j \in 1 .. Len(s) /\ (s \o t)[j] = s[j]
        <5> HIDE DEF s, t, T
        <5> QED
          BY <2>5, <3>1
      <4>2. PICK g \in 1 .. m + 1 : \E i \in 1 .. Len(seqs[g]) : s[j] = seqs[g][i]
        BY <2>2, <4>1
      <4>3. g \in 1 .. m + 2
        OBVIOUS
      <4> QED
        BY <4>1, <4>2, <4>3
    <3>2. CASE j > Len(s)
      <4>1. j - Len(s) \in 1 .. Len(t) /\ (s \o t)[j] = t[j - Len(s)]
        <5> HIDE DEF s, t, T
        <5> QED
          BY <2>5, <3>2
      <4>2. m + 2 \in 1 .. m + 2
        OBVIOUS
      <4> QED
        BY <4>1, <4>2
    <3>3. j \in Nat /\ Len(s) \in Nat
      <4> HIDE DEF s, t, T
      <4> QED
        BY <2>5
    <3> QED
      BY <3>1, <3>2, <3>3
  <2>7. From(s \o t, m + 2)
    <3> HIDE DEF s, t
    <3> QED
      BY <2>5, <2>6
  <2>8. F[m + 2] = s \o t
    BY <2>4
  <2> HIDE DEF From, s, t
  <2> QED
    BY <2>7, <2>8
<1>10. k - 1 \in T
  <2>1. k - 1 \in Nat
    OBVIOUS
  <2> HIDE DEF T
  <2> QED
    BY <1>8, <1>9, <2>1, Induction
<1>11. From(FlattenSeq(seqs), k)
  <2>1. From(F[k], k)
    BY <1>10
  <2> HIDE DEF From
  <2> QED
    BY <1>6, <2>1
<1> QED
  BY <1>11, Zenon

-----------------------------------------------------------------------------
(* What a datagram of a frame says of it, and what it brings of it.        *)
HeaderOf(frame) ==
  [type : {"SLICE", "PARITY"}, seq : {frame.seq}, keyframe : {frame.keyframe},
   size : {frame.size}, chunks : {ChunkCount(frame.size)}, chunk : Nat,
   group : Groups(frame), groupSize : Nat, index : Nat,
   payload : Seq(SUBSET ({frame.content} \X Nat))]

Describes(d, frame) ==
  /\ d \in HeaderOf(frame)
  /\ BaseIndex(d) = GroupBase(frame)[d.group]
  /\ d.groupSize = GroupSize(frame, BaseIndex(d))

Carries(d, frame) ==
  \/ /\ d.type = "SLICE"
     /\ d.chunk \in BaseIndex(d) .. BaseIndex(d) + d.groupSize - 1
     /\ d.index = d.chunk - BaseIndex(d)
     /\ d.payload = ChunkBytes(frame, d.chunk)
  \/ /\ d.type = "PARITY"
     /\ d.chunk = BaseIndex(d)
     /\ d.index = ParityIndex
     /\ d.payload = ParityBytes(frame, BaseIndex(d), d.groupSize)

(* Every chunk of a frame has a byte and fits in a datagram, and no chunk  *)
(* is longer than one before it.                                           *)
LEMMA ChunkSizeFacts ==
  ASSUME NEW size \in Nat, size > 0
  PROVE  /\ \A c \in 0 .. ChunkCount(size) - 1 :
              /\ ChunkSize(size, c) \in Nat /\ ChunkSize(size, c) > 0
              /\ ChunkSize(size, c) <= MaxPayload
         /\ \A b, c \in 0 .. ChunkCount(size) - 1 : b <= c => ChunkSize(size, c) <= ChunkSize(size, b)
<1> DEFINE n == ChunkCount(size)
<1>1. n \in Nat /\ n > 0 /\ (n - 1) * MaxPayload < size
  BY ChunkCountFacts
<1>2. MaxPayload \in Nat /\ MaxPayload > 0
  BY MaxPayloadAssumption
<1> HIDE DEF n
<1>3. ASSUME NEW b \in Nat, NEW c \in Nat, b <= c
      PROVE  b * MaxPayload <= c * MaxPayload
  <2>1. (c - b) \in Nat /\ (c - b) * MaxPayload >= 0
    BY <1>2, <1>3
  <2> QED
    BY <1>2, <2>1
<1>4. ASSUME NEW c \in 0 .. n - 1
      PROVE  c * MaxPayload \in Nat /\ c * MaxPayload < size
  <2>1. c \in Nat /\ n - 1 \in Nat /\ c <= n - 1
    BY <1>1
  <2>2. c * MaxPayload <= (n - 1) * MaxPayload
    BY <2>1, <1>3
  <2>3. c * MaxPayload \in Nat /\ (n - 1) * MaxPayload \in Nat
    BY <1>2, <2>1
  <2> QED
    BY <1>1, <2>2, <2>3
<1>5. ASSUME NEW c \in 0 .. n - 1
      PROVE  /\ ChunkSize(size, c) \in Nat /\ ChunkSize(size, c) > 0
             /\ ChunkSize(size, c) <= MaxPayload
  BY <1>2, <1>4 DEF ChunkSize
<1>6. ASSUME NEW b \in 0 .. n - 1, NEW c \in 0 .. n - 1, b <= c
      PROVE  ChunkSize(size, c) <= ChunkSize(size, b)
  <2>1. b * MaxPayload <= c * MaxPayload
    BY <1>3, <1>6
  <2>2. c * MaxPayload \in Nat /\ b * MaxPayload \in Nat /\ c * MaxPayload < size
    BY <1>4
  <2> DEFINE x == b * MaxPayload
             y == c * MaxPayload
  <2>3. /\ ChunkSize(size, b) = IF size - x > MaxPayload THEN MaxPayload ELSE size - x
        /\ ChunkSize(size, c) = IF size - y > MaxPayload THEN MaxPayload ELSE size - y
    BY DEF ChunkSize
  <2> HIDE DEF x, y
  <2> QED
    BY <1>2, <2>1, <2>2, <2>3 DEF x, y
<1> QED
  BY <1>5, <1>6 DEF n

(* The bytes of a chunk, and the zero bytes a shorter one is extended by.  *)
LEMMA ChunkBytesFacts ==
  ASSUME NEW frame, HandedOver(frame), NEW c \in 0 .. ChunkCount(frame.size) - 1
  PROVE  /\ ChunkBytes(frame, c) \in Seq(SUBSET ({frame.content} \X Nat))
         /\ Len(ChunkBytes(frame, c)) = ChunkSize(frame.size, c)
         /\ \A j \in Nat \ {0} :
              ByteAt(ChunkBytes(frame, c), j)
                = IF j <= ChunkSize(frame.size, c) THEN {<<frame.content, c * MaxPayload + j>>} ELSE {}
<1> DEFINE len == ChunkSize(frame.size, c)
           byte(j) == {<<frame.content, c * MaxPayload + j>>}
<1>1. len \in Nat
  BY ChunkSizeFacts DEF HandedOver
<1>2. MaxPayload \in Nat /\ c \in Nat
  BY MaxPayloadAssumption, ChunkCountFacts DEF HandedOver
<1>3. ChunkBytes(frame, c) = [j \in 1 .. len |-> byte(j)]
  BY DEF ChunkBytes
<1>4. \A j \in Nat : byte(j) \in SUBSET ({frame.content} \X Nat)
  <2>1. c * MaxPayload \in Nat
    BY <1>2
  <2> QED
    BY <2>1
<1> HIDE DEF len, byte
<1>5. ChunkBytes(frame, c) \in Seq(SUBSET ({frame.content} \X Nat)) /\ Len(ChunkBytes(frame, c)) = len
  <2>1. ChunkBytes(frame, c) \in [1 .. len -> SUBSET ({frame.content} \X Nat)]
    BY <1>1, <1>3, <1>4
  <2> QED
    BY <1>1, <2>1
<1>6. ASSUME NEW j \in Nat \ {0}
      PROVE  ByteAt(ChunkBytes(frame, c), j) = IF j <= len THEN byte(j) ELSE {}
  <2>1. j <= len => ChunkBytes(frame, c)[j] = byte(j)
    BY <1>1, <1>3
  <2> QED
    BY <1>5, <2>1 DEF ByteAt
<1> QED
  BY <1>5, <1>6 DEF len, byte

(* The parity of a group is as long as its first, longest, chunk.          *)
LEMMA ParityBytesFacts ==
  ASSUME NEW frame, HandedOver(frame), NEW c \in 0 .. ChunkCount(frame.size) - 1,
         NEW count \in Nat, c + count <= ChunkCount(frame.size)
  PROVE  /\ ParityBytes(frame, c, count) \in Seq(SUBSET ({frame.content} \X Nat))
         /\ Len(ParityBytes(frame, c, count)) = ChunkSize(frame.size, c)
<1> DEFINE len == ChunkSize(frame.size, c)
           B == {frame.content} \X Nat
           bytes(j) == [i \in c .. c + count - 1 |-> ByteAt(ChunkBytes(frame, i), j)]
<1>1. len \in Nat
  BY ChunkSizeFacts DEF HandedOver
<1>2. ASSUME NEW j \in 1 .. len PROVE XorBytes(bytes(j)) \in SUBSET B
  <2>1. ASSUME NEW i \in c .. c + count - 1 PROVE ByteAt(ChunkBytes(frame, i), j) \subseteq B
    <3>0. ChunkCount(frame.size) \in Nat
      BY ChunkCountFacts DEF HandedOver
    <3>1. i \in 0 .. ChunkCount(frame.size) - 1 /\ j \in Nat \ {0}
      <4> HIDE DEF len, bytes, B
      <4> QED
        BY <1>1, <3>0
    <3>2. ByteAt(ChunkBytes(frame, i), j)
            = IF j <= ChunkSize(frame.size, i) THEN {<<frame.content, i * MaxPayload + j>>} ELSE {}
      BY <3>1, ChunkBytesFacts
    <3>3. i * MaxPayload + j \in Nat
      <4>1. i \in Nat /\ j \in Nat /\ MaxPayload \in Nat
        BY <3>0, <3>1, MaxPayloadAssumption
      <4> QED
        BY <4>1
    <3> QED
      BY <3>2, <3>3
  <2>2. \A i \in DOMAIN bytes(j) : bytes(j)[i] \subseteq B
    BY <2>1
  <2> HIDE DEF bytes, B
  <2> QED
    BY <2>2 DEF XorBytes
<1>3. ParityBytes(frame, c, count) = [j \in 1 .. len |-> XorBytes(bytes(j))]
  BY DEF ParityBytes
<1> HIDE DEF len, B, bytes
<1>4. ParityBytes(frame, c, count) \in [1 .. len -> SUBSET B]
  BY <1>2, <1>3
<1> QED
  BY <1>1, <1>4 DEF len, B

(* A group starts at a chunk of its frame, behind two chunks at least of   *)
(* each group before it.                                                   *)
LEMMA GroupFacts ==
  ASSUME NEW frame, HandedOver(frame), NEW g \in Groups(frame)
  PROVE  /\ GroupBase(frame)[g] \in 0 .. ChunkCount(frame.size) - 1
         /\ g \in Nat /\ 2 * g <= GroupBase(frame)[g]
<1>1. ChunkCount(frame.size) \in Nat
  BY ChunkCountFacts DEF HandedOver
<1>2. g \in 0 .. ChunkCount(frame.size) /\ GroupBase(frame)[g] < ChunkCount(frame.size)
  BY GroupBaseUnfolds DEF Groups
<1>3. /\ GroupBase(frame)[g] \in 0 .. ChunkCount(frame.size)
      /\ GroupBase(frame)[g] < ChunkCount(frame.size) => GroupBase(frame)[g] >= 2 * g
  BY <1>2, GroupBaseFacts
<1> QED
  BY <1>1, <1>2, <1>3

(* Every datagram of a group describes its frame and carries bytes of it.  *)
LEMMA GroupDatagramFacts ==
  ASSUME NEW frame, HandedOver(frame), NEW g \in Groups(frame)
  PROVE  /\ GroupDatagrams(frame, g) \in Seq(Range(GroupDatagrams(frame, g)))
         /\ \A i \in 1 .. Len(GroupDatagrams(frame, g)) :
              LET d == GroupDatagrams(frame, g)[i] IN Describes(d, frame) /\ Carries(d, frame)
<1> DEFINE base == GroupBase(frame)[g]
           count == GroupSize(frame, base)
           D == GroupDatagrams(frame, g)
<1>1. /\ base \in 0 .. ChunkCount(frame.size) - 1 /\ g \in Nat
      /\ ChunkCount(frame.size) \in Nat
  BY GroupFacts, ChunkCountFacts DEF HandedOver
<1>2. count \in Nat /\ count > 0 /\ base + count <= ChunkCount(frame.size)
  BY <1>1, GroupSizeFacts
<1>3. D = [i \in 1 .. count + 1 |->
             IF i <= count THEN Slice(frame, g, base, count, i - 1)
             ELSE ParityOf(frame, g, base, count, ParityBytes(frame, base, count))]
  BY DEF GroupDatagrams
<1> HIDE DEF D
<1>4. D \in Seq(Range(D)) /\ Len(D) = count + 1
  <2>1. DOMAIN D = 1 .. count + 1 /\ count + 1 \in Nat
    BY <1>2, <1>3
  <2>2. D \in [1 .. count + 1 -> Range(D)]
    BY <1>3, <2>1 DEF Range
  <2> QED
    BY <2>1, <2>2
<1>5. ASSUME NEW i \in 1 .. count + 1
      PROVE  Describes(D[i], frame) /\ Carries(D[i], frame)
  <2> DEFINE d == D[i]
  <2>1. CASE i <= count
    <3> DEFINE c == base + (i - 1)
    <3>1. d = Slice(frame, g, base, count, i - 1)
      BY <1>3, <2>1
    <3>2. c \in base .. base + count - 1 /\ i - 1 = c - base /\ i - 1 \in Nat
      <4> HIDE DEF base, count
      <4> QED
        BY <1>1, <1>2, <2>1
    <3>3. c \in 0 .. ChunkCount(frame.size) - 1 /\ c \in Nat
      <4> HIDE DEF base, count, c
      <4> QED
        BY <1>1, <1>2, <3>2
    <3>4. ChunkBytes(frame, c) \in Seq(SUBSET ({frame.content} \X Nat))
      BY <3>3, ChunkBytesFacts
    <3>5. d \in HeaderOf(frame)
      <4> HIDE DEF base, count
      <4> QED
        BY <1>2, <3>1, <3>2, <3>3, <3>4 DEF Slice, HeaderOf, ParityIndex
    <3>6. /\ d.type = "SLICE" /\ d.chunk = c
          /\ d.group = g /\ d.groupSize = count /\ d.index = i - 1
          /\ d.payload = ChunkBytes(frame, c)
      BY <3>1 DEF Slice
    <3> HIDE DEF d, base, count, c
    <3>7. BaseIndex(d) = base
      BY <1>1, <1>2, <3>2, <3>3, <3>6 DEF BaseIndex
    <3>8. Describes(d, frame)
      BY <3>5, <3>6, <3>7 DEF Describes, base, count
    <3>9. Carries(d, frame)
      BY <3>2, <3>6, <3>7 DEF Carries
    <3> QED
      BY <3>8, <3>9 DEF d
  <2>2. CASE i > count
    <3> DEFINE parity == ParityBytes(frame, base, count)
    <3>1. d = ParityOf(frame, g, base, count, parity)
      BY <1>2, <1>3, <2>2
    <3>2. parity \in Seq(SUBSET ({frame.content} \X Nat))
      BY <1>1, <1>2, ParityBytesFacts
    <3>3. base \in Nat
      BY <1>1
    <3>4. d \in HeaderOf(frame)
      <4> HIDE DEF base, count, parity
      <4> QED
        BY <1>2, <3>1, <3>2, <3>3 DEF ParityOf, HeaderOf, ParityIndex
    <3>5. /\ d.type = "PARITY" /\ d.chunk = base
          /\ d.group = g /\ d.groupSize = count /\ d.index = ParityIndex
          /\ d.payload = parity
      BY <3>1 DEF ParityOf
    <3> HIDE DEF d, base, count
    <3>6. BaseIndex(d) = base
      BY <3>5 DEF BaseIndex
    <3>7. Describes(d, frame)
      BY <3>4, <3>5, <3>6 DEF Describes, base, count
    <3>8. Carries(d, frame)
      BY <3>5, <3>6 DEF Carries
    <3> QED
      BY <3>7, <3>8 DEF d
  <2>3. i <= count \/ i > count
    BY <1>2
  <2> QED
    BY <2>1, <2>2, <2>3
<1> QED
  BY <1>4, <1>5 DEF D

(* Every datagram of a transmission describes its frame and carries one of *)
(* its chunks, or the parity of one of its groups.                         *)
LEMMA LayoutFacts ==
  ASSUME NEW frame, HandedOver(frame)
  PROVE  /\ FrameLayout(frame) \in Seq(FrameDatagrams(frame))
         /\ Len(FrameLayout(frame)) \in Nat
         /\ DOMAIN FrameLayout(frame) = 1 .. Len(FrameLayout(frame))
         /\ \A j \in 1 .. Len(FrameLayout(frame)) :
              LET d == FrameLayout(frame)[j] IN Describes(d, frame) /\ Carries(d, frame)
<1> DEFINE k == Cardinality(Groups(frame))
           parts == [g \in 1 .. k |-> GroupDatagrams(frame, g - 1)]
           E == UNION {Range(GroupDatagrams(frame, g)) : g \in Groups(frame)}
<1>1. k \in Nat /\ k > 0 /\ Groups(frame) = 0 .. k - 1
  BY GroupsAreNumbered
<1>2. FrameLayout(frame) = FlattenSeq(parts)
  BY DEF FrameLayout
<1> HIDE DEF k
<1>3. \A g \in 1 .. k : g - 1 \in Groups(frame)
  BY <1>1
<1>4. parts \in [1 .. k -> Seq(E)]
  <2>1. ASSUME NEW g \in 1 .. k PROVE GroupDatagrams(frame, g - 1) \in Seq(E)
    <3>1. g - 1 \in Groups(frame)
      BY <1>3
    <3>2. GroupDatagrams(frame, g - 1) \in Seq(Range(GroupDatagrams(frame, g - 1)))
      BY <3>1, GroupDatagramFacts
    <3>3. Range(GroupDatagrams(frame, g - 1)) \subseteq E
      BY <3>1
    <3> HIDE DEF E
    <3> QED
      BY <3>2, <3>3
  <2> HIDE DEF E
  <2> QED
    BY <2>1
<1> DEFINE L == FlattenSeq(parts)
<1>5. /\ L \in Seq(E)
      /\ \A j \in 1 .. Len(L) : \E g \in 1 .. k : \E i \in 1 .. Len(parts[g]) : L[j] = parts[g][i]
  <2> HIDE DEF parts, E
  <2>1. Parts(parts, k, E)
    BY <1>1, <1>4 DEF Parts
  <2> QED
    BY <2>1, FlattenFacts
<1>6. ASSUME NEW j \in 1 .. Len(L)
      PROVE  Describes(L[j], frame) /\ Carries(L[j], frame)
  <2>1. PICK g \in 1 .. k : \E i \in 1 .. Len(parts[g]) : L[j] = parts[g][i]
    BY <1>5
  <2>2. PICK i \in 1 .. Len(parts[g]) : L[j] = parts[g][i]
    BY <2>1
  <2>3. parts[g] = GroupDatagrams(frame, g - 1)
    OBVIOUS
  <2>4. g - 1 \in Groups(frame)
    BY <1>3
  <2> HIDE DEF L, parts
  <2> QED
    BY <2>2, <2>3, <2>4, GroupDatagramFacts
<1>7. Len(L) \in Nat /\ DOMAIN L = 1 .. Len(L)
  <2> HIDE DEF L
  <2> QED
    BY <1>5
<1> HIDE DEF L
<1>8. L \in Seq(Range(L))
  <2>1. L = [j \in 1 .. Len(L) |-> L[j]] /\ \A j \in 1 .. Len(L) : L[j] \in Range(L)
    BY <1>5, <1>7 DEF Range
  <2> QED
    BY <1>7, <2>1
<1> QED
  BY <1>2, <1>6, <1>7, <1>8 DEF L, FrameDatagrams

(* So a datagram as sent passes the receiver's own checks.                 *)
LEMMA SentIsPlaced ==
  ASSUME NEW frame, HandedOver(frame), NEW d, Describes(d, frame), Carries(d, frame)
  PROVE  /\ Placed(d)
         /\ BaseIndex(d) \in Nat /\ d.groupSize \in Nat /\ d.groupSize > 0
         /\ BaseIndex(d) + d.groupSize <= ChunkCount(frame.size)
         /\ d.group \in Nat /\ 2 * d.group < ChunkCount(frame.size)
         /\ d.chunk \in 0 .. ChunkCount(frame.size) - 1
<1> DEFINE n == ChunkCount(frame.size)
           base == BaseIndex(d)
           count == d.groupSize
<1>1. /\ d \in HeaderOf(frame) /\ d.group \in Groups(frame) /\ base = GroupBase(frame)[d.group]
      /\ count = GroupSize(frame, base) /\ d.size = frame.size /\ d.chunks = n
  BY DEF Describes, HeaderOf
<1>2. base \in 0 .. n - 1 /\ d.group \in Nat /\ 2 * d.group <= base /\ n \in Nat
  <2>1. n \in Nat
    BY ChunkCountFacts DEF HandedOver
  <2>2. /\ GroupBase(frame)[d.group] \in 0 .. n - 1 /\ d.group \in Nat
        /\ 2 * d.group <= GroupBase(frame)[d.group]
    BY <1>1, GroupFacts
  <2> HIDE DEF n, base
  <2> QED
    BY <1>1, <2>1, <2>2
<1>3. count \in Nat /\ count > 0 /\ count <= 16 /\ base + count <= n
  BY <1>1, <1>2, GroupSizeFacts
<1>4. d.chunk \in 0 .. n - 1
  <2> HIDE DEF n
  <2> QED
    BY <1>2, <1>3 DEF Carries
<1>5. Len(d.payload) = ChunkSize(frame.size, d.chunk)
  <2>1. CASE d.type = "SLICE"
    <3>1. d.payload = ChunkBytes(frame, d.chunk)
      BY <2>1 DEF Carries
    <3> QED
      BY <1>4, <3>1, ChunkBytesFacts
  <2>2. CASE d.type = "PARITY"
    <3>1. d.payload = ParityBytes(frame, base, count) /\ d.chunk = base
      BY <2>2 DEF Carries
    <3>2. Len(ParityBytes(frame, base, count)) = ChunkSize(frame.size, base)
      <4> HIDE DEF n, base, count
      <4> QED
        BY <1>2, <1>3, ParityBytesFacts DEF n
    <3> QED
      BY <3>1, <3>2
  <2> QED
    BY <2>1, <2>2 DEF Carries
<1>6. d.type = "SLICE" => /\ d.chunk < n /\ d.index # ParityIndex /\ d.index < count /\ d.index <= d.chunk
  <2>1. ASSUME d.type = "SLICE"
        PROVE  d.chunk \in base .. base + count - 1 /\ d.index = d.chunk - base
    BY <2>1 DEF Carries
  <2> HIDE DEF base, count, n
  <2> QED
    BY <1>2, <1>3, <1>4, <2>1 DEF ParityIndex
<1>7. d.type = "PARITY" => d.index = ParityIndex
  BY DEF Carries
<1>8. Placed(d)
  <2> HIDE DEF n
  <2> QED
    BY <1>1, <1>3, <1>5, <1>6, <1>7 DEF Placed
<1> HIDE DEF n
<1> QED
  BY <1>1, <1>2, <1>3, <1>4, <1>8 DEF n

(* A group ends before the next one begins.                                *)
LEMMA GroupsApart ==
  ASSUME NEW frame, HandedOver(frame), NEW g \in Groups(frame), NEW h \in Groups(frame), g < h
  PROVE  GroupBase(frame)[g] + GroupSize(frame, GroupBase(frame)[g]) <= GroupBase(frame)[h]
<1> DEFINE n == ChunkCount(frame.size)
           b(i) == GroupBase(frame)[i]
           end == b(g) + GroupSize(frame, b(g))
           S == {i \in Nat : g + 1 + i <= n => end <= b(g + 1 + i)}
<1>1. n \in Nat /\ g \in 0 .. n /\ h \in 0 .. n /\ b(g) \in 0 .. n - 1
  BY ChunkCountFacts, GroupBaseUnfolds, GroupFacts DEF Groups, HandedOver
<1>2. \A i \in 0 .. n - 1 : b(i + 1) = NextBase(frame, b(i)) /\ b(i) \in 0 .. n
  <2> TAKE i \in 0 .. n - 1
  <2>1. i + 1 \in 1 .. n /\ (i + 1) - 1 = i /\ i \in 0 .. n
    <3> HIDE DEF n, b
    <3> QED
      BY <1>1
  <2> QED
    BY <2>1, GroupBaseUnfolds, GroupBaseFacts
<1>3. \A c \in 0 .. n - 1 : NextBase(frame, c) = c + GroupSize(frame, c) /\ GroupSize(frame, c) \in Nat
  BY GroupSizeFacts DEF NextBase
<1>4. NextBase(frame, n) = n
  BY DEF NextBase
<1> HIDE DEF n, b
<1>5. 0 \in S
  <2>1. g + 1 <= n => b(g + 1) = end
    BY <1>1, <1>2, <1>3
  <2> QED
    BY <1>1, <1>3, <2>1
<1>6. ASSUME NEW i \in Nat, i \in S PROVE i + 1 \in S
  <2>1. SUFFICES ASSUME g + 1 + (i + 1) <= n PROVE end <= b(g + 1 + (i + 1))
    OBVIOUS
  <2>2. /\ g + 1 + i \in 0 .. n - 1 /\ g + 1 + i <= n /\ (g + 1 + i) + 1 = g + 1 + (i + 1)
    BY <1>1, <2>1
  <2>3. end <= b(g + 1 + i) /\ b(g + 1 + i) \in 0 .. n
        /\ b(g + 1 + (i + 1)) = NextBase(frame, b(g + 1 + i))
    BY <1>2, <1>6, <2>2
  <2>4. b(g + 1 + i) = n \/ b(g + 1 + i) \in 0 .. n - 1
    BY <1>1, <2>3
  <2>5. NextBase(frame, b(g + 1 + i)) \in Nat /\ b(g + 1 + i) <= NextBase(frame, b(g + 1 + i))
    BY <1>1, <1>3, <1>4, <2>4
  <2>6. end \in Nat
    BY <1>1, <1>3
  <2> HIDE DEF end
  <2> QED
    BY <2>3, <2>5, <2>6
<1>7. h - (g + 1) \in Nat /\ g + 1 + (h - (g + 1)) = h /\ h <= n
  BY <1>1
<1>8. h - (g + 1) \in S
  <2> HIDE DEF S
  <2> QED
    BY <1>5, <1>6, <1>7, Induction
<1> QED
  BY <1>7, <1>8 DEF b

(* Every chunk of a frame is in a group.                                   *)
LEMMA GroupsCover ==
  ASSUME NEW frame, HandedOver(frame), NEW c \in 0 .. ChunkCount(frame.size) - 1
  PROVE  \E g \in Groups(frame) :
           c \in GroupBase(frame)[g]
                   .. GroupBase(frame)[g] + GroupSize(frame, GroupBase(frame)[g]) - 1
<1> DEFINE n == ChunkCount(frame.size)
           b(g) == GroupBase(frame)[g]
           In(i, g) == i \in b(g) .. b(g) + GroupSize(frame, b(g)) - 1
           S == {i \in Nat : i < n => \E g \in Groups(frame) : In(i, g)}
<1>1. n \in Nat /\ Groups(frame) = {g \in 0 .. n : b(g) < n} /\ b(0) = 0
  BY ChunkCountFacts, GroupBaseUnfolds DEF Groups, HandedOver
<1>2. \A g \in Groups(frame) : /\ g \in Nat /\ g <= b(g) /\ b(g) \in 0 .. n - 1
                               /\ GroupSize(frame, b(g)) \in Nat /\ GroupSize(frame, b(g)) > 0
  <2> TAKE g \in Groups(frame)
  <2>1. b(g) \in 0 .. n - 1 /\ g \in Nat /\ 2 * g <= b(g)
    BY GroupFacts
  <2>2. GroupSize(frame, b(g)) \in Nat /\ GroupSize(frame, b(g)) > 0
    BY <2>1, GroupSizeFacts
  <2> HIDE DEF n, b
  <2> QED
    BY <2>1, <2>2
<1>3. \A g \in Groups(frame) : g + 1 <= n => b(g + 1) = b(g) + GroupSize(frame, b(g))
  <2> SUFFICES ASSUME NEW g \in Groups(frame), g + 1 <= n
               PROVE  b(g + 1) = b(g) + GroupSize(frame, b(g))
    OBVIOUS
  <2>1. g + 1 \in 1 .. n /\ (g + 1) - 1 = g /\ b(g) # n
    <3> HIDE DEF n, b
    <3> QED
      BY <1>1, <1>2
  <2>2. b(g + 1) = NextBase(frame, b(g))
    BY <2>1, GroupBaseUnfolds
  <2> QED
    BY <2>1, <2>2 DEF NextBase
<1> HIDE DEF n, b
<1>4. 0 \in S
  <2> SUFFICES ASSUME 0 < n PROVE \E g \in Groups(frame) : In(0, g)
    OBVIOUS
  <2>1. 0 \in Groups(frame) /\ b(0) = 0
    BY <1>1
  <2> QED
    BY <1>2, <2>1
<1>5. ASSUME NEW i \in Nat, i \in S PROVE i + 1 \in S
  <2> SUFFICES ASSUME i + 1 < n PROVE \E g \in Groups(frame) : In(i + 1, g)
    OBVIOUS
  <2>1. PICK g \in Groups(frame) : In(i, g)
    BY <1>1, <1>5
  <2>2. /\ g \in Nat /\ g <= b(g) /\ b(g) \in Nat /\ GroupSize(frame, b(g)) \in Nat
    BY <1>1, <1>2
  <2>3. CASE i + 1 < b(g) + GroupSize(frame, b(g))
    BY <2>1, <2>2, <2>3
  <2>4. CASE i + 1 >= b(g) + GroupSize(frame, b(g))
    <3>1. i + 1 = b(g) + GroupSize(frame, b(g)) /\ g + 1 <= n
      BY <1>1, <2>1, <2>2, <2>4
    <3>2. b(g + 1) = i + 1 /\ g + 1 \in Groups(frame)
      BY <1>1, <1>3, <2>2, <3>1
    <3>3. In(i + 1, g + 1)
      BY <1>2, <3>2
    <3> QED
      BY <3>2, <3>3
  <2> QED
    BY <2>2, <2>3, <2>4
<1>6. c \in Nat /\ c < n
  BY <1>1 DEF n
<1>7. c \in S
  <2> HIDE DEF S
  <2> QED
    BY <1>4, <1>5, <1>6, Induction
<1> QED
  BY <1>6, <1>7 DEF b

(* What is joined has the elements of both.                                *)
LEMMA JoinedRange ==
  ASSUME NEW E, NEW s \in Seq(E), NEW t \in Seq(E)
  PROVE  Range(s) \subseteq Range(s \o t) /\ Range(t) \subseteq Range(s \o t)
<1>1. /\ Len(s) \in Nat /\ Len(t) \in Nat /\ DOMAIN s = 1 .. Len(s) /\ DOMAIN t = 1 .. Len(t)
      /\ s \o t \in Seq(E)
      /\ DOMAIN (s \o t) = 1 .. Len(s) + Len(t)
      /\ \A j \in 1 .. Len(s) + Len(t) : (s \o t)[j] = IF j <= Len(s) THEN s[j] ELSE t[j - Len(s)]
  OBVIOUS
<1>2. ASSUME NEW x \in Range(s) PROVE x \in Range(s \o t)
  <2>1. PICK i \in 1 .. Len(s) : s[i] = x
    BY <1>1, <1>2 DEF Range
  <2>2. i \in 1 .. Len(s) + Len(t) /\ (s \o t)[i] = x
    BY <1>1, <2>1
  <2> QED
    BY <1>1, <2>2 DEF Range
<1>3. ASSUME NEW x \in Range(t) PROVE x \in Range(s \o t)
  <2>1. PICK i \in 1 .. Len(t) : t[i] = x
    BY <1>1, <1>3 DEF Range
  <2>2. i + Len(s) \in 1 .. Len(s) + Len(t) /\ (s \o t)[i + Len(s)] = x
    BY <1>1, <2>1
  <2> QED
    BY <1>1, <2>2 DEF Range
<1> QED
  BY <1>2, <1>3

(* And no part of a flattened sequence is left out.                        *)
LEMMA FlattenHas ==
  ASSUME NEW k, NEW seqs, NEW E, Parts(seqs, k, E), NEW g \in 1 .. k
  PROVE  Range(seqs[g]) \subseteq Range(FlattenSeq(seqs))
<1>1. PICK F : Rows(F, seqs, k)
  BY FlattenUnfolds
<1>2. /\ FlattenSeq(seqs) = F[k] /\ F[1] = seqs[1]
      /\ \A i \in 2 .. k : F[i] = F[i - 1] \o seqs[i]
  BY <1>1 DEF Rows
<1>3. k \in Nat /\ k > 0 /\ \A i \in 1 .. k : seqs[i] \in Seq(E)
  BY DEF Parts
<1> DEFINE Has(m) == F[m] \in Seq(E) /\ \A i \in 1 .. m : Range(seqs[i]) \subseteq Range(F[m])
           S == {m \in Nat : m + 1 <= k => Has(m + 1)}
<1>4. 0 \in S
  BY <1>2, <1>3
<1>5. ASSUME NEW m \in Nat, m \in S PROVE m + 1 \in S
  <2>1. SUFFICES ASSUME m + 2 <= k PROVE Has(m + 2)
    <3>1. m + 1 + 1 = m + 2
      OBVIOUS
    <3> HIDE DEF Has
    <3> QED
      BY <3>1
  <2>2. Has(m + 1)
    BY <1>3, <1>5, <2>1
  <2>3. m + 2 \in 2 .. k /\ m + 2 \in 1 .. k /\ (m + 2) - 1 = m + 1
    BY <1>3, <2>1
  <2>4. F[m + 2] = F[m + 1] \o seqs[m + 2] /\ seqs[m + 2] \in Seq(E) /\ F[m + 1] \in Seq(E)
    BY <1>2, <1>3, <2>2, <2>3
  <2>5. /\ F[m + 2] \in Seq(E)
        /\ Range(F[m + 1]) \subseteq Range(F[m + 2])
        /\ Range(seqs[m + 2]) \subseteq Range(F[m + 2])
    BY <2>4, JoinedRange
  <2>6. ASSUME NEW i \in 1 .. m + 2 PROVE Range(seqs[i]) \subseteq Range(F[m + 2])
    <3>1. CASE i \in 1 .. m + 1
      BY <2>2, <2>5, <3>1
    <3>2. CASE i = m + 2
      BY <2>5, <3>2
    <3> QED
      BY <3>1, <3>2
  <2> QED
    BY <2>5, <2>6
<1>6. k - 1 \in Nat /\ (k - 1) + 1 = k
  BY <1>3
<1>7. k - 1 \in S
  <2> HIDE DEF S
  <2> QED
    BY <1>4, <1>5, <1>6, Induction
<1> QED
  BY <1>2, <1>6, <1>7

(* So every chunk of a frame is sent.                                      *)
LEMMA EveryChunkIsSent ==
  ASSUME NEW frame, HandedOver(frame), NEW c \in 0 .. ChunkCount(frame.size) - 1
  PROVE  \E d \in FrameDatagrams(frame) :
           /\ d.type = "SLICE" /\ d.seq = frame.seq /\ d.size = frame.size
           /\ d.chunk = c /\ d.payload = ChunkBytes(frame, c)
<1> DEFINE k == Cardinality(Groups(frame))
           parts == [g \in 1 .. k |-> GroupDatagrams(frame, g - 1)]
           E == UNION {Range(GroupDatagrams(frame, g)) : g \in Groups(frame)}
           b(g) == GroupBase(frame)[g]
           m(g) == GroupSize(frame, b(g))
<1>1. k \in Nat /\ k > 0 /\ Groups(frame) = 0 .. k - 1
  BY GroupsAreNumbered
<1>2. PICK g \in Groups(frame) : c \in b(g) .. b(g) + m(g) - 1
  BY GroupsCover
<1>3. b(g) \in Nat /\ m(g) \in Nat
  <2>1. b(g) \in 0 .. ChunkCount(frame.size) - 1
    BY GroupFacts
  <2> QED
    BY <2>1, GroupSizeFacts
<1> DEFINE i == c - b(g)
           d == Slice(frame, g, b(g), m(g), i)
<1>4. i + 1 \in 1 .. m(g) + 1 /\ i + 1 <= m(g) /\ (i + 1) - 1 = i /\ b(g) + i = c
  <2> HIDE DEF b, m
  <2> QED
    BY <1>2, <1>3
<1>5. d \in Range(GroupDatagrams(frame, g))
  <2>1. GroupDatagrams(frame, g)[i + 1] = d /\ i + 1 \in DOMAIN GroupDatagrams(frame, g)
    <3> HIDE DEF i
    <3> QED
      BY <1>4 DEF GroupDatagrams
  <2> HIDE DEF d, i
  <2> QED
    BY <2>1 DEF Range
<1>6. d.type = "SLICE" /\ d.seq = frame.seq /\ d.size = frame.size
      /\ d.chunk = c /\ d.payload = ChunkBytes(frame, c)
  <2> HIDE DEF i
  <2> QED
    BY <1>4 DEF Slice
<1> HIDE DEF k, d
<1>7. \A j \in 1 .. k : j - 1 \in Groups(frame)
  BY <1>1
<1>8. parts \in [1 .. k -> Seq(E)]
  <2>1. ASSUME NEW j \in 1 .. k PROVE GroupDatagrams(frame, j - 1) \in Seq(E)
    <3>1. j - 1 \in Groups(frame)
      BY <1>7
    <3>2. GroupDatagrams(frame, j - 1) \in Seq(Range(GroupDatagrams(frame, j - 1)))
      BY <3>1, GroupDatagramFacts
    <3>3. Range(GroupDatagrams(frame, j - 1)) \subseteq E
      BY <3>1
    <3> HIDE DEF E
    <3> QED
      BY <3>2, <3>3
  <2> HIDE DEF E
  <2> QED
    BY <2>1
<1>9. Parts(parts, k, E)
  <2> HIDE DEF parts, E
  <2> QED
    BY <1>1, <1>8 DEF Parts
<1>10. g + 1 \in 1 .. k /\ parts[g + 1] = GroupDatagrams(frame, g)
  BY <1>1
<1>11. Range(parts[g + 1]) \subseteq Range(FlattenSeq(parts))
  <2> HIDE DEF parts, E
  <2> QED
    BY <1>9, <1>10, FlattenHas
<1>12. FrameDatagrams(frame) = Range(FlattenSeq(parts))
  BY DEF FrameDatagrams, FrameLayout, k
<1> HIDE DEF parts
<1>13. d \in FrameDatagrams(frame)
  BY <1>5, <1>10, <1>11, <1>12
<1> QED
  BY <1>6, <1>13

-----------------------------------------------------------------------------
(* Bytes with no token in common.                                          *)
Disjoint(f) == \A i, k \in DOMAIN f : i # k => f[i] \cap f[k] = {}

(* The XOR of such bytes has the tokens of all of them.                    *)
LEMMA XorOfDisjoint ==
  ASSUME NEW f, Disjoint(f)
  PROVE  XorBytes(f) = UNION {f[i] : i \in DOMAIN f}
<1>1. ASSUME NEW i \in DOMAIN f, NEW t \in f[i]
      PROVE  Cardinality({k \in DOMAIN f : t \in f[k]}) % 2 = 1
  <2>1. {k \in DOMAIN f : t \in f[k]} = {i}
    BY DEF Disjoint
  <2>2. Cardinality({i}) = 1
    BY FS_Singleton
  <2> QED
    BY <2>1, <2>2
<1> QED
  BY <1>1 DEF XorBytes

(* Bytes of different chunks have no token in common.                      *)
LEMMA BytesAreDisjoint ==
  ASSUME NEW frame, HandedOver(frame), NEW base \in 0 .. ChunkCount(frame.size) - 1,
         NEW count \in Nat, base + count <= ChunkCount(frame.size), NEW j \in Nat \ {0}
  PROVE  Disjoint([c \in base .. base + count - 1 |-> ByteAt(ChunkBytes(frame, c), j)])
<1> DEFINE n == ChunkCount(frame.size)
           M == base .. base + count - 1
           chunk == [c \in M |-> ByteAt(ChunkBytes(frame, c), j)]
<1>1. n \in Nat /\ MaxPayload \in Nat /\ MaxPayload > 0
  <2>1. n \in Nat
    BY ChunkCountFacts DEF HandedOver
  <2> QED
    BY <2>1, MaxPayloadAssumption
<1>2. M \subseteq 0 .. n - 1
  <2> HIDE DEF n
  <2> QED
    BY <1>1 DEF n
<1>3. \A c \in M : chunk[c] = IF j <= ChunkSize(frame.size, c)
                              THEN {<<frame.content, c * MaxPayload + j>>} ELSE {}
  <2> HIDE DEF n
  <2> QED
    BY <1>2, ChunkBytesFacts DEF n
<1>4. ASSUME NEW b \in M, NEW c \in M, b # c
      PROVE  b * MaxPayload + j # c * MaxPayload + j
  <2>1. b \in Nat /\ c \in Nat
    <3> HIDE DEF n, M
    <3> QED
      BY <1>1, <1>2
  <2>2. b * MaxPayload # c * MaxPayload
    BY <1>1, <1>4, <2>1
  <2>3. b * MaxPayload \in Nat /\ c * MaxPayload \in Nat
    BY <1>1, <2>1
  <2> QED
    BY <2>2, <2>3
<1>5. DOMAIN chunk = M
  OBVIOUS
<1> HIDE DEF chunk
<1>6. Disjoint(chunk)
  <2> HIDE DEF M
  <2> QED
    BY <1>3, <1>4, <1>5 DEF Disjoint
<1> QED
  BY <1>6 DEF chunk

(* The parity of some chunks, and the bytes of one more: the parity of all *)
(* of them.                                                                *)
LEMMA XorGrows ==
  ASSUME NEW f, NEW S, NEW m, DOMAIN f = S \cup {m}, m \notin S, Disjoint(f)
  PROVE  XorBytes(<< XorBytes([i \in S |-> f[i]]), f[m] >>) = XorBytes(f)
<1> DEFINE g == [i \in S |-> f[i]]
           two == << XorBytes(g), f[m] >>
<1>1. Disjoint(g)
  BY DEF Disjoint
<1>2. XorBytes(g) = UNION {f[i] : i \in S}
  BY <1>1, XorOfDisjoint
<1>3. two[1] = UNION {f[i] : i \in S} /\ two[2] = f[m] /\ DOMAIN two = {1, 2}
  BY <1>2
<1> HIDE DEF two, g
<1>4. two[1] \cap two[2] = {}
  BY <1>3 DEF Disjoint
<1>5. Disjoint(two)
  BY <1>3, <1>4 DEF Disjoint
<1>6. XorBytes(two) = UNION {two[i] : i \in {1, 2}}
  BY <1>3, <1>5, XorOfDisjoint
<1>7. XorBytes(f) = UNION {f[i] : i \in S \cup {m}}
  BY XorOfDisjoint
<1> QED
  BY <1>3, <1>6, <1>7 DEF two, g

(* With the XOR of all in the place of one of them, the XOR is that one:   *)
(* what a single loss is repaired by.                                      *)
LEMMA XorRepairs ==
  ASSUME NEW f, Disjoint(f), NEW m \in DOMAIN f
  PROVE  XorBytes([i \in DOMAIN f |-> IF i = m THEN XorBytes(f) ELSE f[i]]) = f[m]
<1> DEFINE g == [i \in DOMAIN f |-> IF i = m THEN XorBytes(f) ELSE f[i]]
           holders(t) == {k \in DOMAIN g : t \in g[k]}
<1>1. g[m] = UNION {f[i] : i \in DOMAIN f} /\ DOMAIN g = DOMAIN f
  BY XorOfDisjoint
<1>2. \A i \in DOMAIN f : i # m => g[i] = f[i]
  OBVIOUS
<1> HIDE DEF g
<1>3. ASSUME NEW t \in f[m]
      PROVE  t \in g[m] /\ Cardinality(holders(t)) % 2 = 1
  <2>1. holders(t) = {m}
    BY <1>1, <1>2 DEF Disjoint
  <2>2. Cardinality({m}) = 1
    BY FS_Singleton
  <2>3. t \in g[m]
    BY <1>1
  <2> HIDE DEF holders
  <2> QED
    BY <2>1, <2>2, <2>3
<1>4. ASSUME NEW i \in DOMAIN f, NEW t \in f[i], t \notin f[m]
      PROVE  Cardinality(holders(t)) % 2 # 1
  <2>1. i # m
    BY <1>4
  <2>2. holders(t) = {m} \cup {i}
    BY <1>1, <1>2, <1>4, <2>1 DEF Disjoint
  <2>3. IsFiniteSet({m}) /\ Cardinality({m}) = 1
    BY FS_Singleton
  <2>4. Cardinality({m} \cup {i}) = 2
    BY <2>1, <2>3, FS_AddElement
  <2> HIDE DEF holders
  <2>5. Cardinality(holders(t)) = 2
    BY <2>2, <2>4
  <2> QED
    BY <2>5
<1>5. ASSUME NEW i \in DOMAIN g, NEW t \in g[i]
      PROVE  \E k \in DOMAIN f : t \in f[k]
  BY <1>1, <1>2
<1>6. XorBytes(g) = {t \in UNION {g[i] : i \in DOMAIN g} : Cardinality(holders(t)) % 2 = 1}
  BY DEF XorBytes
<1> HIDE DEF holders
<1>7. ASSUME NEW t \in XorBytes(g) PROVE t \in f[m]
  BY <1>4, <1>5, <1>6, <1>7
<1>8. ASSUME NEW t \in f[m] PROVE t \in XorBytes(g)
  BY <1>1, <1>3, <1>6, <1>8
<1>9. XorBytes(g) = f[m]
  BY <1>7, <1>8
<1> QED
  BY <1>9 DEF g

(* Parity and all chunks of a group but one, put together byte by byte.    *)
Repaired(frame, base, count, missing, bytes) ==
  [j \in 1 .. ChunkSize(frame.size, missing) |->
     XorBytes([c \in base .. base + count - 1 |->
                 IF c = missing THEN ByteAt(ParityBytes(frame, base, count), j)
                 ELSE ByteAt(bytes[c], j)])]

(* They give the missing one.                                              *)
LEMMA RepairIsExact ==
  ASSUME NEW frame, HandedOver(frame), NEW base \in 0 .. ChunkCount(frame.size) - 1,
         NEW count \in Nat, base + count <= ChunkCount(frame.size),
         NEW missing \in base .. base + count - 1,
         NEW bytes, \A c \in base .. base + count - 1 : c # missing => bytes[c] = ChunkBytes(frame, c)
  PROVE  /\ ChunkSize(frame.size, missing) <= Len(ParityBytes(frame, base, count))
         /\ Repaired(frame, base, count, missing, bytes) = ChunkBytes(frame, missing)
<1> DEFINE n == ChunkCount(frame.size)
           M == base .. base + count - 1
           P == ParityBytes(frame, base, count)
           chunk(j) == [c \in M |-> ByteAt(ChunkBytes(frame, c), j)]
           given(j) == [c \in M |-> IF c = missing THEN ByteAt(P, j) ELSE ByteAt(bytes[c], j)]
           len == ChunkSize(frame.size, missing)
<1>1. n \in Nat /\ MaxPayload \in Nat /\ MaxPayload > 0
  <2>1. n \in Nat
    BY ChunkCountFacts DEF HandedOver
  <2> QED
    BY <2>1, MaxPayloadAssumption
<1>2. M \subseteq 0 .. n - 1 /\ missing \in 0 .. n - 1 /\ base <= missing
  <2> HIDE DEF n
  <2> QED
    BY <1>1 DEF n
<1>3. /\ len \in Nat /\ ChunkSize(frame.size, base) \in Nat
      /\ len <= ChunkSize(frame.size, base)
  BY <1>2, ChunkSizeFacts DEF HandedOver
<1>4. Len(P) = ChunkSize(frame.size, base)
  BY ParityBytesFacts
<1>5. ASSUME NEW j \in 1 .. len
      PROVE  XorBytes(given(j)) = ChunkBytes(frame, missing)[j]
  <2>0. j \in Nat \ {0} /\ j <= len /\ j \in 1 .. ChunkSize(frame.size, base)
    <3> HIDE DEF len
    <3> QED
      BY <1>3
  <2>2. Disjoint(chunk(j))
    BY <2>0, BytesAreDisjoint
  <2>3. ByteAt(P, j) = XorBytes(chunk(j))
    <3>1. P[j] = XorBytes(chunk(j))
      BY <2>0 DEF ParityBytes
    <3>2. j <= Len(P)
      BY <1>4, <2>0
    <3> QED
      BY <3>1, <3>2 DEF ByteAt
  <2>4. given(j) = [c \in DOMAIN chunk(j) |-> IF c = missing THEN XorBytes(chunk(j)) ELSE chunk(j)[c]]
    BY <2>3
  <2>5. missing \in DOMAIN chunk(j)
    OBVIOUS
  <2>6. XorBytes(given(j)) = chunk(j)[missing]
    <3> HIDE DEF chunk, given
    <3> QED
      BY <2>2, <2>4, <2>5, XorRepairs
  <2>7. chunk(j)[missing] = ByteAt(ChunkBytes(frame, missing), j)
    OBVIOUS
  <2>8. ByteAt(ChunkBytes(frame, missing), j) = ChunkBytes(frame, missing)[j]
    BY <2>0, <1>2, ChunkBytesFacts DEF ByteAt
  <2> QED
    BY <2>6, <2>7, <2>8
<1>6. [j \in 1 .. len |-> XorBytes(given(j))] = ChunkBytes(frame, missing)
  <2>1. ChunkBytes(frame, missing) = [j \in 1 .. len |-> ChunkBytes(frame, missing)[j]]
    BY DEF ChunkBytes
  <2> HIDE DEF len, given
  <2> QED
    BY <1>5, <2>1
<1>7. Repaired(frame, base, count, missing, bytes) = [j \in 1 .. len |-> XorBytes(given(j))]
  BY DEF Repaired
<1> QED
  BY <1>3, <1>4, <1>6, <1>7

-----------------------------------------------------------------------------
(* The number of chunks of the largest frame is an integer. *)
LEMMA CapacityType == MaxChunks \in Int /\ MaxGroups \in Int
<1>1. MaxChunks \in Int
  BY MaxPayloadAssumption, CapacityAssumption, SMT DEF MaxChunks, ChunkCount
<1> QED
  BY <1>1, SMT DEF MaxGroups

(* A video datagram has the fields of a video header. *)
LEMMA VideoType ==
  ASSUME NEW d \in Datagrams, IsVideo(d)
  PROVE  d \in VideoDatagram
BY DatagramAssumption DEF IsVideo, VideoDatagram, MapDatagram, OtherDatagram

(* A map datagram has the fields of a map. *)
LEMMA MapType ==
  ASSUME NEW d \in Datagrams, d.type = "MAP"
  PROVE  d \in MapDatagram
BY DatagramAssumption DEF VideoDatagram, MapDatagram, OtherDatagram

(* A function on 1 .. n is a payload, even for n < 0 when it is empty. *)
LEMMA PayloadFunction ==
  ASSUME NEW n \in Int, NEW f \in [1 .. n -> SUBSET Token]
  PROVE  f \in Payload
<1>1. CASE n >= 0
  BY <1>1, SMT DEF Payload
<1>2. CASE n < 0
  <2>1. 1 .. n = 1 .. 0
    BY <1>2, SMT
  <2> QED
    BY <2>1, SMT DEF Payload
<1> QED
  BY <1>1, <1>2, SMT

(* A set of chunks of a frame of n chunks is finite, of at most n elements. *)
LEMMA ChunkSetFacts ==
  ASSUME NEW n \in Nat, NEW S, S \subseteq 0 .. n - 1
  PROVE  IsFiniteSet(S) /\ Cardinality(S) \in Nat /\ Cardinality(S) <= n
<1>1. IsFiniteSet(0 .. n - 1)
      /\ Cardinality(0 .. n - 1) = IF 0 > n - 1 THEN 0 ELSE n - 1 - 0 + 1
  BY FS_Interval
<1>2. IsFiniteSet(S) /\ Cardinality(S) <= Cardinality(0 .. n - 1)
  BY <1>1, FS_Subset
<1>3. Cardinality(S) \in Nat
  BY <1>2, FS_CardinalityType
<1> QED
  BY <1>1, <1>2, <1>3, SMT

(* Chunks rebuilt from parity are payloads. *)
LEMMA RecoveredType ==
  ASSUME NEW group \in GroupState, NEW missing \in ChunkIds, NEW size \in Nat,
         NEW bytes \in [ChunkIds -> Payload], Members(group) \subseteq ChunkIds
  PROVE  RecoveredBytes(group, missing, bytes, size) \in Payload
<1> DEFINE column(j) == [c \in Members(group) |->
              IF c = missing THEN ByteAt(group.parity, j) ELSE ByteAt(bytes[c], j)]
           n == ChunkSize(size, missing)
<1>1. n \in Int
  <2>1. missing \in Int
    BY CapacityType, SMT DEF ChunkIds
  <2> QED
    BY <2>1, MaxPayloadAssumption, SMT DEF ChunkSize
<1>2. ASSUME NEW payload \in Payload, NEW j \in 1 .. n
      PROVE  ByteAt(payload, j) \subseteq Token
  BY <1>1, <1>2, SMT DEF ByteAt, Payload
<1>3. ASSUME NEW j \in 1 .. n
      PROVE  XorBytes(column(j)) \in SUBSET Token
  <2>1. \A c \in Members(group) : column(j)[c] \subseteq Token
    BY <1>2, <1>3 DEF GroupState
  <2>2. DOMAIN column(j) = Members(group)
    OBVIOUS
  <2> HIDE DEF column
  <2> QED
    BY <2>1, <2>2 DEF XorBytes
<1>4. RecoveredBytes(group, missing, bytes, size) \in [1 .. n -> SUBSET Token]
  BY <1>3 DEF RecoveredBytes
<1> QED
  BY <1>1, <1>4, PayloadFunction

-----------------------------------------------------------------------------
(* What start_frame and the gate leave to the placement of the datagram.   *)
LEMMA FrameFacts ==
  ASSUME NEW d \in Datagrams, IInv, Admitted(d), Consistent(d)
  PROVE  /\ d \in VideoDatagram
         /\ Frame(d) \in FrameHeader /\ Frame(d).valid
         /\ Frame(d).seq = d.seq /\ Frame(d).size = d.size
         /\ Frame(d).size \in 1 .. MaxFrameSize /\ Frame(d).chunks \in 1 .. MaxChunks
         /\ Frame(d).chunks = d.chunks
         /\ latest.size # 0 => d.seq > latest.seq
         /\ retryPending /\ ~AcceptingNewerKeyframe(d) =>
              Frame(d).keyframe /\ d.seq = retrySeq
         /\ retryPending => Frame(d).keyframe /\ d.seq >= retrySeq
<1>1. d \in VideoDatagram
  BY VideoType DEF Admitted
<1>2. CASE Opens(d)
  BY <1>1, <1>2, CapacityType, SMTT(40)
  DEF VideoDatagram, Admitted, Gated, Stale, AcceptingNewerKeyframe, IInv, TypeOK,
      IsRequestedRetry, IsNewerNaturalKeyframe, Consistent, Startable, Frame, FrameHeader
<1>3. CASE ~Opens(d)
  BY <1>1, <1>3, CapacityType, SMTT(40)
  DEF VideoDatagram, Admitted, Gated, Stale, AcceptingNewerKeyframe, IInv, TypeOK,
      IsRequestedRetry, IsNewerNaturalKeyframe, Consistent, Frame, FrameHeader,
      Opens, Supersedes, GateIsExclusive
<1> QED
  BY <1>2, <1>3

(* The state a datagram finds: empty for a new frame, else the active one. *)
LEMMA FoundState ==
  ASSUME NEW d \in Datagrams, IInv, Admitted(d), Consistent(d)
  PROVE  Held(d, Received(d), Count(d), Bytes(d), Bound(d))
<1>1. CASE Opens(d)
  <2>1. << >> \in Payload
    BY SMT DEF Payload
  <2>2. NoBytes \in [ChunkIds -> Payload] /\ NoGroups \in [GroupIds -> GroupState]
    BY <2>1, SMT DEF NoBytes, NoGroups, Unbound, GroupState
  <2>3. \A g \in GroupIds : ~NoGroups[g].known
    BY DEF NoGroups, Unbound
  <2> QED
    BY <1>1, <2>2, <2>3, FS_EmptySet DEF Held, Received, Count, Bytes, Bound
<1>2. CASE ~Opens(d)
  BY <1>2 DEF IInv, TypeOK, CountIsExact, GroupsStayInside, Held, Received, Count,
              Bytes, Bound, Frame
<1> QED
  BY <1>1, <1>2

(* Binding the group of a well placed datagram keeps groups in the frame.  *)
LEMMA BindKeeps ==
  ASSUME NEW d \in Datagrams, IInv, Admitted(d), Consistent(d), WellPlaced(d)
  PROVE  /\ d.group \in GroupIds
         /\ BoundGroups(d) \in [GroupIds -> GroupState]
         /\ \A g \in GroupIds : BoundGroups(d)[g].known =>
              /\ BoundGroups(d)[g].size > 0
              /\ BoundGroups(d)[g].base + BoundGroups(d)[g].size <= Frame(d).chunks
<1>1. d \in VideoDatagram /\ Frame(d).chunks = d.chunks
  BY FrameFacts
<1>2. d.group \in GroupIds
  BY <1>1, CapacityType, SMT DEF WellPlaced, Binds, GroupIds, VideoDatagram
<1>3. BaseIndex(d) \in Nat /\ d.groupSize \in Nat /\ d.groupSize > 0
      /\ BaseIndex(d) + d.groupSize <= d.chunks
  BY <1>1, SMT DEF WellPlaced, Placed, BaseIndex, VideoDatagram
<1>4. /\ Bound(d) \in [GroupIds -> GroupState]
      /\ \A g \in GroupIds : Bound(d)[g].known =>
           Bound(d)[g].size > 0 /\ Bound(d)[g].base + Bound(d)[g].size <= Frame(d).chunks
  BY FoundState DEF Held
<1> DEFINE entry == [Bound(d)[d.group] EXCEPT !.known = TRUE, !.base = BaseIndex(d),
                                              !.size = d.groupSize]
<1>5. BoundGroups(d) = [Bound(d) EXCEPT ![d.group] = entry]
  BY <1>2, <1>4 DEF BoundGroups, GroupState
<1>6. entry \in GroupState /\ entry.size = d.groupSize /\ entry.base = BaseIndex(d)
  BY <1>2, <1>3, <1>4 DEF GroupState
<1> HIDE DEF entry
<1> QED
  BY <1>1, <1>2, <1>3, <1>4, <1>5, <1>6

-----------------------------------------------------------------------------
(* An idle assembler satisfies whatever is said of the active frame.       *)
LEMMA ResetFacts ==
  ASSUME IInv, ResetActive
  PROVE  /\ active' = Idle /\ active' \in FrameHeader /\ ~active'.valid
         /\ active'.chunks = 0
         /\ received' = {} /\ chunksReceived' = 0
         /\ groups' \in [GroupIds -> GroupState] /\ staging' \in [ChunkIds -> Payload]
         /\ \A g \in GroupIds : ~groups'[g].known
         /\ CountIsExact' /\ GroupsStayInside'
<1>1. << >> \in Payload
  BY SMT DEF Payload
<1>2. groups' \in [GroupIds -> GroupState] /\ staging' \in [ChunkIds -> Payload]
  BY <1>1, SMT DEF ResetActive, NoBytes, NoGroups, Unbound, GroupState
<1>3. \A g \in GroupIds : ~groups'[g].known
  BY DEF ResetActive, NoGroups, Unbound
<1>4. active' = Idle /\ active' \in FrameHeader /\ ~active'.valid /\ active'.chunks = 0
  BY SMT DEF ResetActive, Idle, FrameHeader
<1>5. CountIsExact'
  BY <1>4, FS_EmptySet DEF ResetActive, CountIsExact
<1> QED
  BY <1>2, <1>3, <1>4, <1>5 DEF ResetActive, GroupsStayInside

(* The record of a lost frame keeps its type.                              *)
LEMMA NoteType ==
  ASSUME IInv, NEW d \in Datagrams, NoteIncomplete(d)
  PROVE  incomplete' \in [seq : Nat, keyframe : BOOLEAN, isNew : BOOLEAN]
BY DEF IInv, TypeOK, NoteIncomplete, FrameHeader

(* The gate only lets go of a keyframe: it stays typed and never closes.   *)
LEMMA PassGateFacts ==
  ASSUME IInv, NEW d \in Datagrams, PassGate(d)
  PROVE  /\ retryEnabled' = retryEnabled
         /\ retryPending' \in BOOLEAN /\ retrySeq' \in Nat
         /\ retryPending' => retryPending /\ ~AcceptingNewerKeyframe(d) /\ retrySeq' = retrySeq
BY DEF IInv, TypeOK, PassGate

(* Publishing a complete frame, or going on with an incomplete one, keeps  *)
(* the invariant.                                                          *)
LEMMA FinishKeeps ==
  ASSUME NEW d \in Datagrams, IInv, Admitted(d), Consistent(d), NoteIncomplete(d),
         UNCHANGED map,
         NEW recv, NEW count, NEW bytes, NEW grps,
         Held(d, recv, count, bytes, grps),
         Finish(d, recv, count, bytes, grps)
  PROVE  IInv'
<1> USE CapacityType
<1>1. /\ d \in VideoDatagram
      /\ Frame(d) \in FrameHeader /\ Frame(d).valid
      /\ Frame(d).seq = d.seq
      /\ Frame(d).size \in 1 .. MaxFrameSize /\ Frame(d).chunks \in 1 .. MaxChunks
      /\ latest.size # 0 => d.seq > latest.seq
      /\ retryPending /\ ~AcceptingNewerKeyframe(d) => Frame(d).keyframe /\ d.seq = retrySeq
  BY FrameFacts
<1>2. incomplete' \in [seq : Nat, keyframe : BOOLEAN, isNew : BOOLEAN]
  BY NoteType
<1>3. map'.valid \in BOOLEAN /\ map'.seq \in Nat
      /\ map'.weights \in [1 .. MapCapacity -> 1 .. 255]
  BY DEF IInv, TypeOK
<1>4. CASE count = Frame(d).chunks
  <2>1. ResetActive /\ latest'.size = Frame(d).size /\ latest'.seq = d.seq
        /\ latest'.keyframe = Frame(d).keyframe
    BY <1>1, <1>4 DEF Finish, Publish
  <2>2. retryEnabled' = retryEnabled /\ retryPending' = FALSE /\ retrySeq' \in Nat
    <3>1. retryPending \in BOOLEAN /\ retrySeq \in Nat
      BY DEF IInv, TypeOK
    <3>2. retryPending => AcceptingNewerKeyframe(d) \/ d.seq = retrySeq
      BY <1>1
    <3>3. /\ retryEnabled' = retryEnabled
          /\ retryPending' = (retryPending /\ ~(AcceptingNewerKeyframe(d)
                 \/ ((retryPending /\ ~AcceptingNewerKeyframe(d)) /\ d.seq = retrySeq)))
          /\ retrySeq' = 0 \/ retrySeq' = retrySeq
      BY <1>4 DEF Finish
    <3>4. retryPending' = FALSE
      BY <3>1, <3>2, <3>3, Zenon
    <3> QED
      BY <3>1, <3>3, <3>4
  <2>3. TypeOK'
    BY <1>1, <1>2, <1>3, <2>1, <2>2, ResetFacts, ZenonT(60) DEF TypeOK, IInv, FrameHeader
  <2> QED
    BY <2>2, <2>1, <2>3, ResetFacts
    DEF IInv, ActiveIsNewer, RetryIsReachable, GateIsExclusive
<1>5. CASE count # Frame(d).chunks
  <2>1. /\ active' = Frame(d) /\ received' = recv /\ chunksReceived' = count
        /\ staging' = bytes /\ groups' = grps /\ PassGate(d) /\ latest' = latest
    BY <1>5 DEF Finish
  <2>2. count \in Nat /\ count < Frame(d).chunks
    <3>1. Frame(d).chunks \in Nat
      BY <1>1 DEF FrameHeader
    <3>2. count \in Nat /\ count <= Frame(d).chunks
      BY <3>1, ChunkSetFacts DEF Held
    <3> QED
      BY <3>1, <1>5, <3>2
  <2>3. TypeOK'
    <3>1. received' \subseteq ChunkIds
      BY <1>1, <2>1 DEF Held, ChunkIds
    <3> QED
      BY <1>1, <1>2, <1>3, <2>1, <2>2, <3>1, PassGateFacts DEF TypeOK, IInv, Held
  <2>4. ActiveIsNewer' /\ RetryIsReachable' /\ GateIsExclusive'
    BY <1>1, <2>1, PassGateFacts
    DEF IInv, ActiveIsNewer, RetryIsReachable, GateIsExclusive
  <2>5. CountIsExact' /\ GroupsStayInside'
    BY <1>1, <2>1, <2>2 DEF Held, CountIsExact, GroupsStayInside
  <2> QED
    BY <2>3, <2>4, <2>5 DEF IInv
<1> QED
  BY <1>4, <1>5

(* Repairing one chunk adds one chunk of the frame that was not there.     *)
LEMMA RecoverHeld ==
  ASSUME NEW d \in Datagrams, IInv, Admitted(d), Consistent(d), d.group \in GroupIds,
         NEW recv, NEW count, NEW bytes, NEW grps,
         Held(d, recv, count, bytes, grps),
         Recoverable(grps[d.group], recv)
  PROVE  LET missing == MissingOf(grps[d.group], recv)
         IN  Held(d, recv \cup {missing}, count + 1,
                  [bytes EXCEPT ![missing] = RecoveredBytes(grps[d.group], missing, bytes, d.size)],
                  grps)
<1> DEFINE group   == grps[d.group]
           missing == MissingOf(group, recv)
           repaired == [bytes EXCEPT ![missing] = RecoveredBytes(group, missing, bytes, d.size)]
<1>1. group \in GroupState /\ group.base + group.size <= Frame(d).chunks
  BY DEF Held, Recoverable
<1>2. Members(group) \subseteq 0 .. Frame(d).chunks - 1
      /\ Members(group) \subseteq ChunkIds
  BY <1>1, FrameFacts, CapacityType, SMT DEF Members, GroupState, FrameHeader, ChunkIds
<1>3. missing \in Members(group) /\ missing \notin recv
  <2>1. \E c \in Members(group) : c \notin recv
    <3>1. Cardinality({}) # 1
      BY FS_EmptySet
    <3>2. Cardinality(Members(group) \ recv) = 1
      BY DEF Recoverable
    <3> HIDE DEF group
    <3> QED
      BY <3>1, <3>2
  <2> QED
    BY <2>1 DEF MissingOf
<1>4. recv \cup {missing} \subseteq 0 .. Frame(d).chunks - 1
  BY <1>2, <1>3 DEF Held
<1>5. count + 1 = Cardinality(recv \cup {missing})
  <2>1. Frame(d).chunks \in Nat
    BY FrameFacts DEF FrameHeader
  <2>2. IsFiniteSet(recv)
    BY <2>1, ChunkSetFacts DEF Held
  <2> QED
    BY <1>3, <2>2, FS_AddElement DEF Held
<1>6. repaired \in [ChunkIds -> Payload]
  <2>1. d.size \in Nat
    BY FrameFacts DEF VideoDatagram
  <2>2. RecoveredBytes(group, missing, bytes, d.size) \in Payload
    BY <1>1, <1>2, <1>3, <2>1, RecoveredType DEF Held
  <2> QED
    BY <2>2 DEF Held
<1> QED
  BY <1>4, <1>5, <1>6 DEF Held

(* So does the step that repairs if it can. *)
LEMMA RecoverKeeps ==
  ASSUME NEW d \in Datagrams, IInv, Admitted(d), Consistent(d), NoteIncomplete(d),
         UNCHANGED map, d.group \in GroupIds,
         NEW recv, NEW count, NEW bytes, NEW grps,
         Held(d, recv, count, bytes, grps),
         Recover(d, recv, count, bytes, grps)
  PROVE  IInv'
<1> DEFINE group   == grps[d.group]
           missing == MissingOf(group, recv)
           repaired == [bytes EXCEPT ![missing] = RecoveredBytes(group, missing, bytes, d.size)]
<1>1. CASE Recoverable(group, recv) /\ ChunkSize(d.size, missing) <= Len(group.parity)
  <2>1. Held(d, recv \cup {missing}, count + 1, repaired, grps)
    BY <1>1, RecoverHeld
  <2>2. Finish(d, recv \cup {missing}, count + 1, repaired, grps)
    BY <1>1 DEF Recover
  <2> HIDE DEF group, missing, repaired
  <2> QED
    BY <2>1, <2>2, FinishKeeps
<1>2. CASE ~(Recoverable(group, recv) /\ ChunkSize(d.size, missing) <= Len(group.parity))
  <2>1. Finish(d, recv, count, bytes, grps)
    BY <1>2 DEF Recover
  <2> QED
    BY <2>1, FinishKeeps
<1> QED
  BY <1>1, <1>2

-----------------------------------------------------------------------------
(* Every step of the assembler keeps the invariant.                        *)

(* Switching the retry on or off leaves nothing awaited that cannot come.  *)
LEMMA SetRetryKeeps ==
  ASSUME IInv, NEW enabled \in BOOLEAN, SetKeyframeRetryEnabled(enabled)
  PROVE  IInv'
<1>1. TypeOK'
  BY DEF IInv, TypeOK, SetKeyframeRetryEnabled, frameVars
<1>2. ActiveIsNewer' /\ RetryIsReachable' /\ GateIsExclusive'
  BY DEF IInv, TypeOK, ActiveIsNewer, RetryIsReachable, GateIsExclusive,
         SetKeyframeRetryEnabled, frameVars
<1>3. CountIsExact' /\ GroupsStayInside'
  BY DEF IInv, CountIsExact, GroupsStayInside, SetKeyframeRetryEnabled, frameVars
<1> QED
  BY <1>1, <1>2, <1>3 DEF IInv

(* A map leaves the video state alone.                                     *)
LEMMA HandleMapKeeps ==
  ASSUME IInv, NEW d \in Datagrams, HandleMap(d)
  PROVE  IInv'
<1>1. d \in MapDatagram
  BY MapType DEF HandleMap
<1>2. map'.valid \in BOOLEAN /\ map'.seq \in Nat
      /\ map'.weights \in [1 .. MapCapacity -> 1 .. 255]
  <2>1. CASE MapWellFormed(d) /\ ~(map.valid /\ d.seq < map.seq)
    <3>1. \A t \in 1 .. MapCapacity : t <= TileCount(d) => d.weights[t] \in 0 .. 255
      <4>1. d.weights \in Seq(0 .. 255) /\ Len(d.weights) = TileCount(d)
        BY <1>1, <2>1 DEF MapWellFormed, MapDatagram
      <4>2. MapCapacity \in Int /\ TileCount(d) \in Int
        BY <1>1, CapacityAssumption DEF MapDatagram, TileCount
      <4>3. ASSUME NEW t \in 1 .. MapCapacity, t <= TileCount(d)
            PROVE  d.weights[t] \in 0 .. 255
        <5>1. t \in 1 .. Len(d.weights)
          BY <4>1, <4>2, <4>3
        <5> QED
          BY <4>1, <5>1, ElementOfSeq
      <4> QED
        BY <4>3
    <3>2. \A t \in 1 .. MapCapacity :
            (IF t > TileCount(d) THEN map.weights[t]
             ELSE IF d.weights[t] = 0 THEN 1 ELSE d.weights[t]) \in 1 .. 255
      <4>1. TileCount(d) \in Int
        BY <1>1 DEF MapDatagram, TileCount
      <4>2. map.weights \in [1 .. MapCapacity -> 1 .. 255] /\ MapCapacity \in Int
        BY CapacityAssumption DEF IInv, TypeOK
      <4>3. ASSUME NEW t \in 1 .. MapCapacity
            PROVE  (IF t > TileCount(d) THEN map.weights[t]
                    ELSE IF d.weights[t] = 0 THEN 1 ELSE d.weights[t]) \in 1 .. 255
        <5>1. CASE t > TileCount(d)
          BY <4>2, <4>3, <5>1
        <5>2. CASE ~(t > TileCount(d))
          <6>1. d.weights[t] \in 0 .. 255
            BY <3>1, <4>1, <4>2, <4>3, <5>2
          <6> QED
            BY <5>2, <6>1
        <5> QED
          BY <5>1, <5>2
      <4> QED
        BY <4>3
    <3>3. /\ map'.valid = TRUE /\ map'.seq = d.seq
          /\ map'.weights = [t \in 1 .. MapCapacity |->
                               IF t > TileCount(d) THEN map.weights[t]
                               ELSE IF d.weights[t] = 0 THEN 1 ELSE d.weights[t]]
      BY <2>1 DEF HandleMap
    <3> QED
      BY <1>1, <3>2, <3>3, ZenonT(60) DEF MapDatagram
  <2>2. CASE ~(MapWellFormed(d) /\ ~(map.valid /\ d.seq < map.seq))
    BY <2>2 DEF HandleMap, IInv, TypeOK
  <2> QED
    BY <2>1, <2>2
<1>3. UNCHANGED << latest, frameVars, gateVars, incomplete >>
  BY DEF HandleMap
<1> QED
  BY <1>2, <1>3 DEF IInv, TypeOK, ActiveIsNewer, RetryIsReachable, GateIsExclusive,
                    CountIsExact, GroupsStayInside, frameVars, gateVars

(* A stale datagram leaves the frame alone.                                *)
LEMMA DropStaleKeeps ==
  ASSUME IInv, NEW d \in Datagrams, DropStale(d)
  PROVE  IInv'
<1>1. PassGate(d) /\ UNCHANGED << latest, frameVars, incomplete, map >>
  BY DEF DropStale
<1> QED
  BY <1>1, PassGateFacts, ZenonT(60) DEF IInv, TypeOK, ActiveIsNewer, RetryIsReachable, GateIsExclusive,
                    CountIsExact, GroupsStayInside, frameVars

(* Closing the gate: the superseded keyframe is newer than the frame on    *)
(* show, and nothing is left under assembly.                               *)
LEMMA CloseGateKeeps ==
  ASSUME IInv, NEW d \in Datagrams, CloseGate(d)
  PROVE  IInv'
<1>1. /\ retryPending' = TRUE /\ retrySeq' = active.seq
      /\ UNCHANGED << latest, retryEnabled, map >>
      /\ ResetActive /\ NoteIncomplete(d) /\ active.valid /\ retryEnabled
  BY DEF CloseGate, ClosesGate, Supersedes
<1>3. incomplete' \in [seq : Nat, keyframe : BOOLEAN, isNew : BOOLEAN]
  BY <1>1, NoteType
<1>4. map'.valid \in BOOLEAN /\ map'.seq \in Nat
      /\ map'.weights \in [1 .. MapCapacity -> 1 .. 255]
  BY <1>1 DEF IInv, TypeOK
<1>2. TypeOK'
  <2>1. active.seq \in Nat
    BY DEF IInv, TypeOK, FrameHeader
  <2> QED
    <3>1. latest'.size \in Nat /\ latest'.seq \in Nat /\ latest'.keyframe \in BOOLEAN
      BY <1>1 DEF IInv, TypeOK
    <3>2. retryEnabled' \in BOOLEAN /\ retryPending' \in BOOLEAN /\ retrySeq' \in Nat
      BY <1>1, <2>1 DEF IInv, TypeOK
    <3>3. received' \subseteq ChunkIds /\ chunksReceived' \in Nat
      BY <1>1, ResetFacts
    <3> QED
      BY <1>1, <1>3, <1>4, <3>1, <3>2, <3>3, ResetFacts DEF TypeOK
<1> QED
  BY <1>1, <1>2, ResetFacts
  DEF IInv, ActiveIsNewer, RetryIsReachable, GateIsExclusive

(* A refused datagram abandons the frame whole.                            *)
LEMMA RefuseKeeps ==
  ASSUME IInv, NEW d \in Datagrams, Refuse(d)
  PROVE  IInv'
<1>1. PassGate(d) /\ NoteIncomplete(d) /\ ResetActive /\ UNCHANGED << latest, map >>
  BY DEF Refuse
<1>3. incomplete' \in [seq : Nat, keyframe : BOOLEAN, isNew : BOOLEAN]
  BY <1>1, NoteType
<1>4. map'.valid \in BOOLEAN /\ map'.seq \in Nat
      /\ map'.weights \in [1 .. MapCapacity -> 1 .. 255]
  BY <1>1 DEF IInv, TypeOK
<1>2. TypeOK'
  <2>1. latest'.size \in Nat /\ latest'.seq \in Nat /\ latest'.keyframe \in BOOLEAN
    BY <1>1 DEF IInv, TypeOK
  <2>2. retryEnabled' \in BOOLEAN /\ retryPending' \in BOOLEAN /\ retrySeq' \in Nat
    BY <1>1, PassGateFacts DEF IInv, TypeOK
  <2>3. received' \subseteq ChunkIds /\ chunksReceived' \in Nat
    BY <1>1, ResetFacts
  <2> QED
    BY <1>1, <1>3, <1>4, <2>1, <2>2, <2>3, ResetFacts DEF TypeOK
<1> QED
  BY <1>1, <1>2, ResetFacts, PassGateFacts
  DEF IInv, ActiveIsNewer, RetryIsReachable, GateIsExclusive

(* A parity is stored with its group.                                      *)
LEMMA ParityHeld ==
  ASSUME NEW d \in Datagrams, IInv, Admitted(d), Consistent(d), WellPlaced(d)
  PROVE  Held(d, Received(d), Count(d), Bytes(d),
              [BoundGroups(d) EXCEPT ![d.group].hasParity = TRUE,
                                     ![d.group].parity = d.payload])
<1> DEFINE grps == [BoundGroups(d) EXCEPT ![d.group].hasParity = TRUE,
                                          ![d.group].parity = d.payload]
<1>1. /\ d.group \in GroupIds
      /\ BoundGroups(d) \in [GroupIds -> GroupState]
      /\ \A g \in GroupIds : BoundGroups(d)[g].known =>
           /\ BoundGroups(d)[g].size > 0
           /\ BoundGroups(d)[g].base + BoundGroups(d)[g].size <= Frame(d).chunks
  BY BindKeeps
<1>2. d.payload \in Payload
  BY FrameFacts DEF VideoDatagram
<1>3. /\ grps \in [GroupIds -> GroupState]
      /\ \A g \in GroupIds : /\ grps[g].known = BoundGroups(d)[g].known
                             /\ grps[g].base = BoundGroups(d)[g].base
                             /\ grps[g].size = BoundGroups(d)[g].size
  BY <1>1, <1>2 DEF GroupState
<1> HIDE DEF grps
<1>4. Held(d, Received(d), Count(d), Bytes(d), grps)
  BY <1>1, <1>3, FoundState DEF Held
<1> QED
  BY <1>4 DEF grps

(* Storing a parity, with the repair it may allow.                         *)
LEMMA StoreParityKeeps ==
  ASSUME IInv, NEW d \in Datagrams, StoreParity(d)
  PROVE  IInv'
<1> DEFINE grps == [BoundGroups(d) EXCEPT ![d.group].hasParity = TRUE,
                                          ![d.group].parity = d.payload]
<1>1. /\ Admitted(d) /\ Consistent(d) /\ WellPlaced(d) /\ NoteIncomplete(d)
      /\ UNCHANGED map
      /\ Recover(d, Received(d), Count(d), Bytes(d), grps)
  BY DEF StoreParity
<1>2. d.group \in GroupIds /\ Held(d, Received(d), Count(d), Bytes(d), grps)
  BY <1>1, BindKeeps, ParityHeld
<1> HIDE DEF grps
<1> QED
  BY <1>1, <1>2, RecoverKeeps

(* A chunk that was not there counts as one.                               *)
LEMMA SliceHeld ==
  ASSUME NEW d \in Datagrams, IInv, Admitted(d), Consistent(d), WellPlaced(d), d.type = "SLICE",
         NEW grps, Held(d, Received(d), Count(d), Bytes(d), grps), d.chunk \notin Received(d)
  PROVE  Held(d, Received(d) \cup {d.chunk}, Count(d) + 1,
              [Bytes(d) EXCEPT ![d.chunk] = d.payload], grps)
<1>1. Received(d) \cup {d.chunk} \subseteq 0 .. Frame(d).chunks - 1
  BY FrameFacts DEF Held, WellPlaced, Placed, VideoDatagram
<1>2. Count(d) + 1 = Cardinality(Received(d) \cup {d.chunk})
  <2>1. Frame(d).chunks \in Nat
    BY FrameFacts DEF FrameHeader
  <2>2. IsFiniteSet(Received(d))
    BY <2>1, ChunkSetFacts DEF Held
  <2> QED
    BY <2>2, FS_AddElement DEF Held
<1>3. [Bytes(d) EXCEPT ![d.chunk] = d.payload] \in [ChunkIds -> Payload]
  BY FrameFacts DEF Held, VideoDatagram
<1> QED
  BY <1>1, <1>2, <1>3 DEF Held

(* Storing a chunk, with the repair it may allow.                          *)
LEMMA StoreSliceKeeps ==
  ASSUME IInv, NEW d \in Datagrams, StoreSlice(d)
  PROVE  IInv'
<1> DEFINE bytes == [Bytes(d) EXCEPT ![d.chunk] = d.payload]
<1>1. /\ Admitted(d) /\ Consistent(d) /\ WellPlaced(d) /\ NoteIncomplete(d)
      /\ UNCHANGED map /\ d.type = "SLICE"
  BY DEF StoreSlice
<1>2. /\ d.group \in GroupIds
      /\ BoundGroups(d) \in [GroupIds -> GroupState]
      /\ \A g \in GroupIds : BoundGroups(d)[g].known =>
           /\ BoundGroups(d)[g].size > 0
           /\ BoundGroups(d)[g].base + BoundGroups(d)[g].size <= Frame(d).chunks
  BY <1>1, BindKeeps
<1>3. Held(d, Received(d), Count(d), Bytes(d), BoundGroups(d))
  BY <1>1, <1>2, FoundState DEF Held
<1>4. CASE d.chunk \in Received(d)
  <2>1. Recover(d, Received(d), Count(d), Bytes(d), BoundGroups(d))
    BY <1>4 DEF StoreSlice
  <2> QED
    BY <1>1, <1>2, <1>3, <2>1, RecoverKeeps
<1>5. CASE d.chunk \notin Received(d)
  <2>1. Recover(d, Received(d) \cup {d.chunk}, Count(d) + 1, bytes, BoundGroups(d))
    BY <1>5 DEF StoreSlice
  <2>2. Held(d, Received(d) \cup {d.chunk}, Count(d) + 1, bytes, BoundGroups(d))
    BY <1>1, <1>3, <1>5, SliceHeld
  <2> HIDE DEF bytes
  <2> QED
    BY <1>1, <1>2, <2>1, <2>2, RecoverKeeps
<1> QED
  BY <1>4, <1>5

-----------------------------------------------------------------------------
(* The idle assembler satisfies the invariant.                             *)
LEMMA InitIInv == Init => IInv
<1> SUFFICES ASSUME Init PROVE IInv
  OBVIOUS
<1>1. << >> \in Payload
  BY SMT DEF Payload
<1>2. NoBytes \in [ChunkIds -> Payload] /\ NoGroups \in [GroupIds -> GroupState]
  BY <1>1, SMT DEF NoBytes, NoGroups, Unbound, GroupState
<1>3. Idle \in FrameHeader /\ ~Idle.valid /\ Idle.chunks = 0
  BY SMT DEF Idle, FrameHeader
<1>4. TypeOK
  <2>1. latest.size \in Nat /\ latest.seq \in Nat /\ latest.keyframe \in BOOLEAN
    BY DEF Init, NoFrame
  <2>2. map.valid \in BOOLEAN /\ map.seq \in Nat
        /\ map.weights \in [1 .. MapCapacity -> 1 .. 255]
    BY DEF Init
  <2>3. incomplete \in [seq : Nat, keyframe : BOOLEAN, isNew : BOOLEAN]
    BY DEF Init
  <2>4. active = Idle /\ received = {} /\ chunksReceived = 0 /\ groups = NoGroups
        /\ staging = NoBytes /\ retryEnabled = FALSE /\ retryPending = FALSE /\ retrySeq = 0
    BY DEF Init
  <2> QED
    BY <1>2, <1>3, <2>1, <2>2, <2>3, <2>4 DEF TypeOK
<1>5. CountIsExact /\ GroupsStayInside
  BY <1>3, FS_EmptySet DEF Init, CountIsExact, GroupsStayInside, NoGroups, Unbound
<1> QED
  BY <1>3, <1>4, <1>5
  DEF Init, IInv, ActiveIsNewer, RetryIsReachable, GateIsExclusive

(* Every datagram and every switch of the retry keeps it.                  *)
LEMMA NextIInv == IInv /\ [Next]_vars => IInv'
<1> SUFFICES ASSUME IInv, [Next]_vars PROVE IInv'
  OBVIOUS
<1>1. ASSUME NEW enabled \in BOOLEAN, SetKeyframeRetryEnabled(enabled) PROVE IInv'
  BY <1>1, SetRetryKeeps
<1>2. CASE UNCHANGED vars
  BY <1>2, SMTT(20) DEF vars, frameVars, gateVars, IInv, TypeOK, ActiveIsNewer, RetryIsReachable,
              GateIsExclusive, CountIsExact, GroupsStayInside
<1>3. ASSUME NEW d \in Datagrams, PushDatagram(d) PROVE IInv'
  <2>1. CASE IgnoreOther(d)
    BY <1>2, <2>1 DEF IgnoreOther
  <2>2. CASE HandleMap(d)
    BY <2>2, HandleMapKeeps
  <2>3. CASE DropGated(d)
    BY <1>2, <2>3 DEF DropGated
  <2>4. CASE DropStale(d)
    BY <2>4, DropStaleKeeps
  <2>5. CASE CloseGate(d)
    BY <2>5, CloseGateKeeps
  <2>6. CASE Refuse(d)
    BY <2>6, RefuseKeeps
  <2>7. CASE StoreParity(d)
    BY <2>7, StoreParityKeeps
  <2>8. CASE StoreSlice(d)
    BY <2>8, StoreSliceKeeps
  <2> QED
    BY <1>3, <2>1, <2>2, <2>3, <2>4, <2>5, <2>6, <2>7, <2>8 DEF PushDatagram
<1> QED
  BY <1>1, <1>2, <1>3 DEF Next

(* The inductive invariant holds in every reachable state. *)
THEOREM Invariant == Spec => []IInv
BY InitIInv, NextIInv, PTL DEF Spec

(* Type correctness: every table is indexed within its bounds, and an idle *)
(* assembler holds nothing of an earlier frame.                            *)
THEOREM TypeCorrect == Spec => []TypeOK
<1>1. IInv => TypeOK
  BY DEF IInv
<1> QED
  BY <1>1, Invariant, PTL

(* Latest wins: what is assembled is newer than what is shown, whatever    *)
(* arrives in whatever order.                                              *)
THEOREM NeverBackInTime == Spec => []ActiveIsNewer
<1>1. IInv => ActiveIsNewer
  BY DEF IInv
<1> QED
  BY <1>1, Invariant, PTL

(* The retry the gate waits for would not be dropped as stale.             *)
THEOREM RetryCanArrive == Spec => []RetryIsReachable
<1>1. IInv => RetryIsReachable
  BY DEF IInv
<1> QED
  BY <1>1, Invariant, PTL

(* A closed gate assembles the awaited keyframe only.                      *)
THEOREM GateExcludes == Spec => []GateIsExclusive
<1>1. IInv => GateIsExclusive
  BY DEF IInv
<1> QED
  BY <1>1, Invariant, PTL

(* The counter that decides on publication is exact under duplicates,      *)
(* reordering and recovery.                                                *)
THEOREM CompletionIsExact == Spec => []CountIsExact
<1>1. IInv => CountIsExact
  BY DEF IInv
<1> QED
  BY <1>1, Invariant, PTL

(* No group reaches outside the frame it belongs to.                       *)
THEOREM GroupsBounded == Spec => []GroupsStayInside
<1>1. IInv => GroupsStayInside
  BY DEF IInv
<1> QED
  BY <1>1, Invariant, PTL

(* The tables of the assembler, for any sizes and any datagrams.           *)
THEOREM Sound == Spec => []WellFormed
<1>1. IInv => WellFormed
  BY DEF IInv, WellFormed
<1> QED
  BY <1>1, Invariant, PTL

(* Gate, frame under assembly and published frame never disagree.          *)
THEOREM Agree == Spec => []GateAgrees
<1>1. IInv => GateAgrees
  BY DEF IInv, GateAgrees
<1> QED
  BY <1>1, Invariant, PTL

-----------------------------------------------------------------------------
(* The groups as they are once d is stored and before a repair: only d's   *)
(* group has changed, and only chunks of it have come.                     *)
Stored(d, recv, grps) ==
  /\ Received(d) \subseteq recv
  /\ recv \ Received(d) \subseteq Members(grps[d.group])
  /\ grps[d.group].known
  /\ \A g \in GroupIds : g # d.group => grps[g] = Bound(d)[g]
  /\ Bound(d)[d.group].known =>
       Members(grps[d.group]) = Members(Bound(d)[d.group])

(* Every parity is as long as the first chunk of its group, and so long    *)
(* enough to repair any chunk of it.                                       *)
ParitiesFit(size, grps) ==
  \A g \in GroupIds : grps[g].hasParity =>
    grps[g].known /\ Len(grps[g].parity) = ChunkSize(size, grps[g].base)

RepairInv ==
  /\ active.valid => active.chunks = ChunkCount(active.size)
  /\ ParitiesFit(active.size, groups)
  /\ RepairsAreMade

(* No groups, no parities and no repairs.                                  *)
LEMMA NothingToRepair ==
  /\ ParitiesFit(0, NoGroups)
  /\ \A g \in GroupIds : \A recv : ~Recoverable(NoGroups[g], recv)
BY DEF ParitiesFit, NoGroups, Unbound, Recoverable

(* A group that can be repaired misses one of its chunks, and its parity   *)
(* is long enough for it.                                                  *)
LEMMA MissingFacts ==
  ASSUME NEW group \in GroupState, NEW recv, Recoverable(group, recv), NEW size \in Nat, size > 0,
         group.size > 0, group.base + group.size <= ChunkCount(size),
         Len(group.parity) = ChunkSize(size, group.base)
  PROVE  LET missing == MissingOf(group, recv)
         IN  /\ missing \in Members(group) /\ missing \notin recv
             /\ Members(group) \ (recv \cup {missing}) = {}
             /\ ChunkSize(size, missing) <= Len(group.parity)
<1> DEFINE missing == MissingOf(group, recv)
<1>1. group.base \in Nat /\ group.size \in Nat /\ ChunkCount(size) \in Nat
  BY ChunkCountFacts DEF GroupState
<1>2. PICK x : Members(group) \ recv = {x}
  <2>1. IsFiniteSet(Members(group) \ recv)
    <3>1. IsFiniteSet(Members(group))
      <4>1. group.base \in Int /\ group.base + group.size - 1 \in Int
        BY <1>1
      <4> QED
        BY <4>1, FS_Interval DEF Members
    <3> QED
      BY <3>1, FS_Subset
  <2>2. Cardinality(Members(group) \ recv) = 1
    BY DEF Recoverable
  <2> QED
    BY <2>1, <2>2, FS_Singleton
<1>3. missing \in Members(group) /\ missing \notin recv
  BY <1>2 DEF MissingOf
<1>4. Members(group) \ (recv \cup {missing}) = {}
  <2> HIDE DEF missing
  <2> QED
    BY <1>2, <1>3
<1>5. /\ missing \in 0 .. ChunkCount(size) - 1 /\ group.base \in 0 .. ChunkCount(size) - 1
      /\ group.base <= missing
  <2> HIDE DEF missing
  <2> QED
    BY <1>1, <1>3 DEF Members
<1> HIDE DEF missing
<1>6. ChunkSize(size, missing) <= ChunkSize(size, group.base)
  BY <1>5, ChunkSizeFacts
<1> QED
  BY <1>3, <1>4, <1>6 DEF missing

(* Storing keeps the fit of the parities, and what can be repaired in      *)
(* another group shares a chunk with one that is known.                    *)
Overlapped(g, grps) ==
  \E h \in GroupIds \ {g} : grps[h].known /\ Members(grps[g]) \cap Members(grps[h]) # {}

LEMMA StoredOverlaps ==
  ASSUME RepairsAreMade, NEW d \in Datagrams, IInv, d.group \in GroupIds,
         NEW recv, NEW grps, Stored(d, recv, grps),
         NEW g \in GroupIds, g # d.group, Recoverable(grps[g], recv)
  PROVE  Overlapped(g, grps)
<1>1. grps[g] = Bound(d)[g] /\ grps[g].known /\ grps[d.group].known
  BY DEF Stored, Recoverable
<1>2. ~Opens(d)
  BY <1>1 DEF Bound, NoGroups, Unbound
<1>3. grps[g] = groups[g] /\ Received(d) = received /\ Bound(d) = groups
  BY <1>1, <1>2 DEF Bound, Received
<1>4. CASE Members(grps[g]) \cap Members(grps[d.group]) # {}
  BY <1>1, <1>4 DEF Overlapped
<1>5. CASE Members(grps[g]) \cap Members(grps[d.group]) = {}
  <2>1. Members(grps[g]) \ recv = Members(groups[g]) \ received
    BY <1>3, <1>5 DEF Stored
  <2>2. Recoverable(groups[g], received)
    BY <1>3, <2>1 DEF Recoverable
  <2>3. PICK h \in GroupIds \ {g} :
               groups[h].known /\ Members(groups[g]) \cap Members(groups[h]) # {}
    BY <2>2 DEF RepairsAreMade
  <2>4. grps[h].known /\ Members(grps[h]) = Members(groups[h])
    <3>1. CASE h = d.group
      BY <1>1, <1>3, <2>3, <3>1 DEF Stored
    <3>2. CASE h # d.group
      BY <1>3, <2>3, <3>2 DEF Stored
    <3> QED
      BY <3>1, <3>2
  <2> QED
    BY <1>3, <2>3, <2>4 DEF Overlapped
<1> QED
  BY <1>4, <1>5

(* Publishing leaves nothing to repair, going on leaves what was stored.   *)
LEMMA FinishRepairs ==
  ASSUME NEW d \in Datagrams, NEW recv, NEW count, NEW bytes, NEW grps,
         Finish(d, recv, count, bytes, grps), ParitiesFit(Frame(d).size, grps),
         Frame(d).chunks = ChunkCount(Frame(d).size),
         \A g \in GroupIds : Recoverable(grps[g], recv) => Overlapped(g, grps)
  PROVE  RepairInv'
<1>1. CASE count = Frame(d).chunks
  <2>1. groups' = NoGroups /\ ~active'.valid
    BY <1>1 DEF Finish, Publish, ResetActive, Idle
  <2> QED
    BY <2>1, NothingToRepair DEF RepairInv, ParitiesFit, RepairsAreMade, NoGroups, Unbound
<1>2. CASE count # Frame(d).chunks
  <2>1. active' = Frame(d) /\ received' = recv /\ groups' = grps
    BY <1>2 DEF Finish
  <2>2. ParitiesFit(active.size, groups)'
    BY <2>1 DEF ParitiesFit
  <2>3. RepairsAreMade'
    BY <2>1 DEF RepairsAreMade, Overlapped, Recoverable, Members
  <2> QED
    BY <2>1, <2>2, <2>3 DEF RepairInv
<1> QED
  BY <1>1, <1>2

(* The frame a datagram belongs to has the chunks its size makes.          *)
LEMMA FrameIsFits ==
  ASSUME RepairInv, NEW d \in Datagrams, IInv, Admitted(d), Consistent(d)
  PROVE  /\ Frame(d).size = d.size /\ d.size \in Nat /\ d.size > 0
         /\ Frame(d).chunks = ChunkCount(d.size)
<1>1. Frame(d).size \in 1 .. MaxFrameSize /\ MaxFrameSize \in Nat
  BY FrameFacts, CapacityAssumption
<1>2. CASE Opens(d)
  BY <1>1, <1>2 DEF Consistent, Startable, Frame
<1>3. CASE ~Opens(d)
  BY <1>1, <1>3 DEF Consistent, Frame, Opens, RepairInv
<1> QED
  BY <1>2, <1>3

(* After the attempt to repair the datagram's group nothing is left to     *)
(* repair in it, and a chunk that was put back in another group is shared. *)
LEMMA RecoverRepairs ==
  ASSUME RepairInv, NEW d \in Datagrams, IInv, Admitted(d), Consistent(d),
         d.group \in GroupIds,
         NEW recv, NEW count, NEW bytes, NEW grps,
         Held(d, recv, count, bytes, grps), Stored(d, recv, grps),
         ParitiesFit(Frame(d).size, grps),
         Recover(d, recv, count, bytes, grps)
  PROVE  RepairInv'
<1> DEFINE group   == grps[d.group]
           missing == MissingOf(group, recv)
           repaired == [bytes EXCEPT ![missing] = RecoveredBytes(group, missing, bytes, d.size)]
<1>1. /\ Frame(d).size = d.size /\ d.size \in Nat /\ d.size > 0
      /\ Frame(d).chunks = ChunkCount(d.size)
  BY FrameIsFits
<1>2. \A g \in GroupIds : g # d.group /\ Recoverable(grps[g], recv) => Overlapped(g, grps)
  BY StoredOverlaps DEF RepairInv
<1>3. CASE Recoverable(group, recv)
  <2>1. /\ group \in GroupState /\ group.size > 0 /\ group.base + group.size <= ChunkCount(d.size)
        /\ Len(group.parity) = ChunkSize(d.size, group.base)
    BY <1>1, <1>3 DEF Held, Recoverable, ParitiesFit
  <2>2. /\ missing \in Members(group) /\ missing \notin recv
        /\ Members(group) \ (recv \cup {missing}) = {}
        /\ ChunkSize(d.size, missing) <= Len(group.parity)
    <3> HIDE DEF group
    <3> QED
      BY <1>1, <1>3, <2>1, MissingFacts
  <2>3. Finish(d, recv \cup {missing}, count + 1, repaired, grps)
    BY <1>3, <2>2 DEF Recover
  <2>4. ASSUME NEW g \in GroupIds, Recoverable(grps[g], recv \cup {missing})
        PROVE  Overlapped(g, grps)
    <3>1. CASE g = d.group
      <4>1. Members(group) \ (recv \cup {missing}) = {} /\ Cardinality({}) = 0
        BY <2>2, FS_EmptySet
      <4>2. Cardinality(Members(group) \ (recv \cup {missing})) = 1
        BY <2>4, <3>1 DEF Recoverable
      <4> HIDE DEF group, missing
      <4> QED
        BY <4>1, <4>2
    <3>2. CASE g # d.group /\ missing \in Members(grps[g])
      BY <2>2, <3>2 DEF Overlapped, Stored
    <3>3. CASE g # d.group /\ missing \notin Members(grps[g])
      <4>1. Members(grps[g]) \ (recv \cup {missing}) = Members(grps[g]) \ recv
        BY <3>3
      <4>2. Recoverable(grps[g], recv)
        BY <2>4, <4>1 DEF Recoverable
      <4> QED
        BY <1>2, <3>3, <4>2
    <3> QED
      BY <3>1, <3>2, <3>3
  <2> HIDE DEF group, missing, repaired
  <2> QED
    BY <1>1, <2>3, <2>4, FinishRepairs
<1>4. CASE ~Recoverable(group, recv)
  <2>1. Finish(d, recv, count, bytes, grps)
    BY <1>4 DEF Recover
  <2>2. \A g \in GroupIds : Recoverable(grps[g], recv) => Overlapped(g, grps)
    BY <1>2, <1>4
  <2> QED
    BY <1>1, <2>1, <2>2, FinishRepairs
<1> QED
  BY <1>3, <1>4

(* What storing a datagram does before the repair.                         *)
LEMMA StoreIsStored ==
  ASSUME RepairInv, IInv, NEW d \in Datagrams, StoreParity(d) \/ StoreSlice(d)
  PROVE  /\ Admitted(d) /\ Consistent(d) /\ d.group \in GroupIds
         /\ \E recv, count, bytes, grps :
              /\ Held(d, recv, count, bytes, grps) /\ Stored(d, recv, grps)
              /\ ParitiesFit(Frame(d).size, grps)
              /\ Recover(d, recv, count, bytes, grps)
<1>1. Admitted(d) /\ Consistent(d) /\ WellPlaced(d)
  BY DEF StoreParity, StoreSlice
<1>2. /\ d.group \in GroupIds
      /\ BoundGroups(d) \in [GroupIds -> GroupState]
      /\ Bound(d) \in [GroupIds -> GroupState]
  BY <1>1, BindKeeps, FoundState DEF Held
<1>3. /\ Frame(d).size = d.size /\ d \in VideoDatagram
      /\ Placed(d) /\ Binds(d)
  BY <1>1, FrameIsFits, FrameFacts DEF WellPlaced
<1>4. ParitiesFit(Frame(d).size, Bound(d))
  <2>1. CASE Opens(d)
    BY <2>1 DEF ParitiesFit, Bound, NoGroups, Unbound
  <2>2. CASE ~Opens(d)
    BY <2>2 DEF RepairInv, Bound, Frame
  <2> QED
    BY <2>1, <2>2
<1> DEFINE B == BoundGroups(d)
<1>5. /\ B[d.group].known /\ B[d.group].base = BaseIndex(d) /\ B[d.group].size = d.groupSize
      /\ B[d.group].hasParity = Bound(d)[d.group].hasParity
      /\ B[d.group].parity = Bound(d)[d.group].parity
      /\ \A g \in GroupIds : g # d.group => B[g] = Bound(d)[g]
  BY <1>2 DEF BoundGroups, GroupState
<1>6. /\ ParitiesFit(Frame(d).size, B)
      /\ Bound(d)[d.group].known => Members(B[d.group]) = Members(Bound(d)[d.group])
  BY <1>2, <1>3, <1>4, <1>5 DEF ParitiesFit, Binds, Members
<1>7. B \in [GroupIds -> GroupState]
  BY <1>2
<1> HIDE DEF B
<1>8. CASE StoreParity(d)
  <2> DEFINE grps == [B EXCEPT ![d.group].hasParity = TRUE, ![d.group].parity = d.payload]
  <2>1. Recover(d, Received(d), Count(d), Bytes(d), grps) /\ d.type = "PARITY"
    BY <1>8 DEF StoreParity, B
  <2>2. Len(d.payload) = ChunkSize(Frame(d).size, BaseIndex(d)) /\ d.payload \in Payload
    BY <1>3, <2>1 DEF Placed, BaseIndex, VideoDatagram
  <2>3. /\ \A g \in GroupIds : g # d.group => grps[g] = B[g]
        /\ grps[d.group].known /\ grps[d.group].base = B[d.group].base
        /\ grps[d.group].size = B[d.group].size /\ grps[d.group].parity = d.payload
        /\ grps \in [GroupIds -> GroupState]
    <3> DEFINE entry == [B[d.group] EXCEPT !.hasParity = TRUE, !.parity = d.payload]
    <3>1. grps = [B EXCEPT ![d.group] = entry] /\ B[d.group] \in GroupState
      BY <1>2, <1>7
    <3>2. /\ entry \in GroupState /\ entry.parity = d.payload
          /\ entry.known = B[d.group].known /\ entry.base = B[d.group].base
          /\ entry.size = B[d.group].size
      BY <2>2, <3>1 DEF GroupState
    <3> HIDE DEF entry
    <3> QED
      BY <1>2, <1>5, <1>7, <3>1, <3>2
  <2>4. Held(d, Received(d), Count(d), Bytes(d), grps)
    BY <1>1, <2>1, ParityHeld DEF B
  <2> HIDE DEF grps
  <2>5. Stored(d, Received(d), grps)
    BY <1>5, <1>6, <2>3 DEF Stored, Members
  <2>6. ParitiesFit(Frame(d).size, grps)
    BY <1>5, <1>6, <2>2, <2>3 DEF ParitiesFit
  <2> QED
    BY <1>1, <1>2, <2>1, <2>4, <2>5, <2>6
<1>9. CASE StoreSlice(d)
  <2> DEFINE bytes == [Bytes(d) EXCEPT ![d.chunk] = d.payload]
  <2>1. d.chunk \in Members(B[d.group])
    <3>1. /\ d.type = "SLICE" /\ d.index \in Nat /\ d.chunk \in Nat /\ d.groupSize \in Nat
          /\ d.index < d.groupSize /\ d.index <= d.chunk
      BY <1>3, <1>9 DEF StoreSlice, Placed, VideoDatagram
    <3> QED
      BY <1>5, <3>1 DEF BaseIndex, Members
  <2>2. Held(d, Received(d), Count(d), Bytes(d), B)
    BY <1>1, BindKeeps, FoundState DEF Held, B
  <2>3. Stored(d, Received(d), B) /\ Stored(d, Received(d) \cup {d.chunk}, B)
    BY <1>5, <1>6, <2>1 DEF Stored
  <2>4. CASE d.chunk \in Received(d)
    <3>1. Recover(d, Received(d), Count(d), Bytes(d), B)
      BY <1>9, <2>4 DEF StoreSlice, B
    <3> QED
      BY <1>1, <1>2, <1>6, <2>2, <2>3, <3>1
  <2>5. CASE d.chunk \notin Received(d)
    <3>1. Recover(d, Received(d) \cup {d.chunk}, Count(d) + 1, bytes, B)
      BY <1>9, <2>5 DEF StoreSlice, B
    <3>2. Held(d, Received(d) \cup {d.chunk}, Count(d) + 1, bytes, B)
      BY <1>1, <1>9, <2>2, <2>5, SliceHeld DEF StoreSlice
    <3> HIDE DEF bytes
    <3> QED
      BY <1>1, <1>2, <1>6, <2>3, <3>1, <3>2
  <2> QED
    BY <2>4, <2>5
<1> QED
  BY <1>8, <1>9

(* Every step leaves nothing unrepaired. *)
LEMMA NextRepair == IInv /\ RepairInv /\ [Next]_vars => RepairInv'
<1> SUFFICES ASSUME IInv, RepairInv, [Next]_vars PROVE RepairInv'
  OBVIOUS
<1>1. ASSUME UNCHANGED frameVars PROVE RepairInv'
  BY <1>1 DEF frameVars, RepairInv, ParitiesFit, RepairsAreMade, Recoverable, Members
<1>2. ASSUME ResetActive PROVE RepairInv'
  BY <1>2, NothingToRepair
  DEF ResetActive, Idle, RepairInv, ParitiesFit, RepairsAreMade, NoGroups, Unbound
<1>3. ASSUME NEW d \in Datagrams, PushDatagram(d) PROVE RepairInv'
  <2>1. CASE IgnoreOther(d) \/ HandleMap(d) \/ DropGated(d) \/ DropStale(d)
    BY <1>1, <2>1 DEF IgnoreOther, HandleMap, DropGated, DropStale, vars
  <2>2. CASE CloseGate(d) \/ Refuse(d)
    BY <1>2, <2>2 DEF CloseGate, Refuse
  <2>3. CASE StoreParity(d) \/ StoreSlice(d)
    BY <2>3, StoreIsStored, RecoverRepairs
  <2> QED
    BY <1>3, <2>1, <2>2, <2>3 DEF PushDatagram
<1>4. CASE UNCHANGED vars
  BY <1>1, <1>4 DEF vars
<1>5. ASSUME NEW enabled \in BOOLEAN, SetKeyframeRetryEnabled(enabled) PROVE RepairInv'
  BY <1>1, <1>5 DEF SetKeyframeRetryEnabled
<1> QED
  BY <1>3, <1>4, <1>5 DEF Next

(* Nothing is left to repair at the start. *)
LEMMA InitRepair == Init => RepairInv
BY NothingToRepair DEF Init, Idle, RepairInv, ParitiesFit, RepairsAreMade, NoGroups, Unbound

(* Whatever arrives, in whatever order: a possible repair is made at once, *)
(* unless the missing chunk came with another group.                       *)
THEOREM RepairsMade == Spec => []RepairsAreMade
<1>1. Spec => []RepairInv
  BY Invariant, InitRepair, NextRepair, PTL DEF Spec
<1>2. RepairInv => RepairsAreMade
  BY DEF RepairInv
<1> QED
  BY <1>1, <1>2, PTL

-----------------------------------------------------------------------------
(* What is sent under one number belongs to one frame.                     *)
Brings(d, f) ==
  /\ d.size = f.size /\ d.keyframe = f.keyframe /\ d.chunks = ChunkCount(f.size)
  /\ d.type = "SLICE" => d.payload = ChunkBytes(f, d.chunk)
  /\ d.type = "PARITY" => d.payload = ParityBytes(f, d.chunk, d.groupSize)

(* An assembly state that holds nothing but bytes of f.                    *)
HoldsOf(f, recv, bytes, grps) ==
  /\ \A c \in recv : bytes[c] = ChunkBytes(f, c)
  /\ \A g \in GroupIds : grps[g].hasParity =>
       grps[g].known /\ grps[g].parity = ParityBytes(f, grps[g].base, grps[g].size)

(* The frame under assembly, and the published one, if they go by the      *)
(* number of f and a size out of sizes: any size, where a number is given  *)
(* to one frame only, else the size of f.                                  *)
Staged(f, sizes) ==
  active.valid /\ active.seq = f.seq /\ active.size \in sizes =>
    /\ active.size = f.size /\ active.keyframe = f.keyframe /\ active.chunks = ChunkCount(f.size)
    /\ HoldsOf(f, received, staging, groups)

Shown(f, sizes) ==
  latest.size # 0 /\ latest.seq = f.seq /\ latest.size \in sizes =>
    /\ latest.size = f.size /\ latest.keyframe = f.keyframe
    /\ latest.data = [c \in 0 .. ChunkCount(f.size) - 1 |-> ChunkBytes(f, c)]

(* As long as every datagram under the number of f, and of such a size,    *)
(* brings bytes of f.                                                      *)
ServedAs(f, sizes, d) ==
  /\ HandedOver(f) /\ f.size \in sizes
  /\ IsVideo(d) /\ d.seq = f.seq /\ d.size \in sizes => Brings(d, f)

(* Whatever a datagram of another frame does, it leaves nothing under the  *)
(* number of f that was not there.                                         *)
LEMMA FinishOther ==
  ASSUME NEW d \in Datagrams, IInv, Admitted(d), Consistent(d),
         NEW recv, NEW count, NEW bytes, NEW grps, NEW f, NEW sizes, Shown(f, sizes),
         d.seq # f.seq \/ d.size \notin sizes,
         Finish(d, recv, count, bytes, grps)
  PROVE  Staged(f, sizes)' /\ Shown(f, sizes)'
<1>1. Frame(d).seq = d.seq /\ Frame(d).size = d.size
  BY FrameFacts
<1>2. CASE count = Frame(d).chunks
  <2>1. latest'.seq = d.seq /\ latest'.size = d.size /\ active' = Idle
    BY <1>1, <1>2 DEF Finish, Publish, ResetActive
  <2> QED
    BY <2>1 DEF Staged, Shown, Idle
<1>3. CASE count # Frame(d).chunks
  <2>1. active'.seq = d.seq /\ active'.size = d.size /\ latest' = latest
    BY <1>1, <1>3 DEF Finish
  <2>2. Staged(f, sizes)'
    BY <2>1 DEF Staged
  <2>3. Shown(f, sizes)'
    BY <2>1 DEF Shown
  <2> QED
    BY <2>2, <2>3
<1> QED
  BY <1>2, <1>3

(* A complete frame is published with its own bytes, an incomplete one     *)
(* goes on with them.                                                      *)
LEMMA FinishOwn ==
  ASSUME NEW d \in Datagrams, IInv, Admitted(d), Consistent(d),
         NEW recv, NEW count, NEW bytes, NEW grps,
         Held(d, recv, count, bytes, grps),
         NEW f, NEW sizes, HandedOver(f), Shown(f, sizes), d.seq = f.seq,
         Frame(d).size = f.size, Frame(d).keyframe = f.keyframe,
         Frame(d).chunks = ChunkCount(f.size),
         HoldsOf(f, recv, bytes, grps),
         Finish(d, recv, count, bytes, grps)
  PROVE  Staged(f, sizes)' /\ Shown(f, sizes)'
<1> DEFINE n == Frame(d).chunks
<1>1. n \in Nat /\ n = ChunkCount(f.size) /\ Frame(d).seq = d.seq
  BY ChunkCountFacts, FrameFacts DEF HandedOver
<1>2. recv \subseteq 0 .. n - 1 /\ count = Cardinality(recv)
  BY DEF Held
<1>3. CASE count = n
  <2>1. recv = 0 .. n - 1
    <3> HIDE DEF n
    <3>1. IsFiniteSet(0 .. n - 1) /\ Cardinality(0 .. n - 1) = IF 0 > n - 1 THEN 0 ELSE n - 1 - 0 + 1
      <4>1. n - 1 \in Int /\ 0 \in Int
        BY <1>1
      <4> QED
        BY <4>1, FS_Interval
    <3>2. Cardinality(0 .. n - 1) = n
      BY <1>1, <3>1
    <3> QED
      BY <1>2, <1>3, <3>1, <3>2, FS_Subset
  <2>2. /\ latest' = [size |-> Frame(d).size, seq |-> Frame(d).seq, keyframe |-> Frame(d).keyframe,
                      data |-> [c \in 0 .. n - 1 |-> bytes[c]]]
        /\ active' = Idle
    BY <1>3 DEF Finish, Publish, ResetActive
  <2>3. [c \in 0 .. n - 1 |-> bytes[c]] = [c \in 0 .. ChunkCount(f.size) - 1 |-> ChunkBytes(f, c)]
    BY <1>1, <2>1 DEF HoldsOf
  <2>4. Shown(f, sizes)'
    <3> HIDE DEF n
    <3> QED
      BY <2>2, <2>3 DEF Shown
  <2> QED
    BY <2>2, <2>4 DEF Staged, Idle
<1>4. CASE count # n
  <2>1. /\ active' = Frame(d) /\ received' = recv /\ staging' = bytes /\ groups' = grps
        /\ latest' = latest
    BY <1>4 DEF Finish
  <2> QED
    BY <2>1 DEF Staged, Shown, HoldsOf
<1> QED
  BY <1>3, <1>4

(* Recovery puts back the bytes that are missing. *)
LEMMA RecoverOwn ==
  ASSUME NEW d \in Datagrams, IInv, Admitted(d), Consistent(d), d.group \in GroupIds,
         NEW recv, NEW count, NEW bytes, NEW grps,
         Held(d, recv, count, bytes, grps),
         NEW f, NEW sizes, HandedOver(f), Shown(f, sizes), d.seq = f.seq, d.size = f.size,
         Frame(d).size = f.size, Frame(d).keyframe = f.keyframe,
         Frame(d).chunks = ChunkCount(f.size),
         HoldsOf(f, recv, bytes, grps),
         Recover(d, recv, count, bytes, grps)
  PROVE  Staged(f, sizes)' /\ Shown(f, sizes)'
<1> DEFINE group   == grps[d.group]
           missing == MissingOf(group, recv)
           repaired == [bytes EXCEPT ![missing] = RecoveredBytes(group, missing, bytes, d.size)]
<1>1. CASE Recoverable(group, recv) /\ ChunkSize(d.size, missing) <= Len(group.parity)
  <2>1. /\ group \in GroupState /\ group.base + group.size <= ChunkCount(f.size)
        /\ group.size > 0 /\ ChunkCount(f.size) \in Nat
    BY <1>1, ChunkCountFacts DEF Held, Recoverable, HandedOver
  <2>2. group.base \in Nat /\ group.size \in Nat
    BY <2>1 DEF GroupState
  <2>3. group.base \in 0 .. ChunkCount(f.size) - 1
    <3> HIDE DEF group
    <3> QED
      BY <2>1, <2>2
  <2>4. PICK x : Members(group) \ recv = {x}
    <3>1. Cardinality(Members(group) \ recv) = 1
      BY <1>1 DEF Recoverable
    <3> HIDE DEF group
    <3>2. IsFiniteSet(Members(group))
      <4>1. group.base \in Int /\ group.base + group.size - 1 \in Int
        BY <2>2
      <4> QED
        BY <4>1, FS_Interval DEF Members
    <3>3. IsFiniteSet(Members(group) \ recv)
      BY <3>2, FS_Subset
    <3> QED
      BY <3>1, <3>3, FS_Singleton
  <2>5. /\ missing \in Members(group) /\ missing \notin recv
        /\ \A c \in Members(group) : c # missing => c \in recv
    <3>1. \E c \in Members(group) : c \notin recv
      BY <2>4
    <3>2. missing \in Members(group) /\ missing \notin recv
      BY <3>1 DEF MissingOf
    <3> QED
      BY <2>4, <3>2
  <2>6. group.parity = ParityBytes(f, group.base, group.size)
    BY <1>1 DEF HoldsOf, Recoverable
  <2>7. \A c \in Members(group) : c # missing => bytes[c] = ChunkBytes(f, c)
    BY <2>5 DEF HoldsOf
  <2>8. RecoveredBytes(group, missing, bytes, d.size) = ChunkBytes(f, missing)
    <3> HIDE DEF group, missing
    <3>1. [j \in 1 .. ChunkSize(f.size, missing) |->
             XorBytes([c \in Members(group) |->
                         IF c = missing THEN ByteAt(ParityBytes(f, group.base, group.size), j)
                         ELSE ByteAt(bytes[c], j)])]
            = ChunkBytes(f, missing)
      <4> DEFINE b == group.base
                 n == group.size
      <4>1. Members(group) = b .. b + n - 1
        BY DEF Members
      <4>2. b \in 0 .. ChunkCount(f.size) - 1 /\ n \in Nat /\ b + n <= ChunkCount(f.size)
        BY <2>1, <2>2, <2>3
      <4>3. /\ missing \in b .. b + n - 1
            /\ \A c \in b .. b + n - 1 : c # missing => bytes[c] = ChunkBytes(f, c)
        BY <2>5, <2>7, <4>1
      <4> HIDE DEF b, n
      <4>4. Repaired(f, b, n, missing, bytes) = ChunkBytes(f, missing)
        BY <4>2, <4>3, RepairIsExact
      <4> QED
        BY <4>1, <4>4 DEF Repaired, b, n
    <3> QED
      BY <2>6, <3>1 DEF RecoveredBytes
  <2>9. missing \in ChunkIds /\ repaired[missing] = ChunkBytes(f, missing)
    <3>1. missing \in 0 .. Frame(d).chunks - 1
      <4> HIDE DEF missing, group
      <4> QED
        BY <2>1, <2>2, <2>5 DEF Members
    <3>2. missing \in ChunkIds
      BY <3>1, FrameFacts, CapacityType DEF ChunkIds
    <3> HIDE DEF missing, group
    <3> QED
      BY <2>8, <3>2 DEF Held
  <2>10. HoldsOf(f, recv \cup {missing}, repaired, grps)
    <3>1. \A c \in recv : c # missing => repaired[c] = bytes[c]
      <4>1. recv \subseteq ChunkIds
        BY FrameFacts, CapacityType DEF Held, ChunkIds
      <4> HIDE DEF missing, group
      <4> QED
        BY <4>1 DEF Held
    <3> HIDE DEF missing, repaired, group
    <3> QED
      BY <2>5, <2>9, <3>1 DEF HoldsOf
  <2>11. Finish(d, recv \cup {missing}, count + 1, repaired, grps)
    BY <1>1 DEF Recover
  <2>12. Held(d, recv \cup {missing}, count + 1, repaired, grps)
    BY <1>1, RecoverHeld
  <2> HIDE DEF group, missing, repaired
  <2> QED
    BY <2>10, <2>11, <2>12, FinishOwn
<1>2. CASE ~(Recoverable(group, recv) /\ ChunkSize(d.size, missing) <= Len(group.parity))
  <2>1. Finish(d, recv, count, bytes, grps)
    BY <1>2 DEF Recover
  <2> QED
    BY <2>1, FinishOwn
<1> QED
  BY <1>1, <1>2

(* Recover, for datagrams of other frames. *)
LEMMA RecoverOther ==
  ASSUME NEW d \in Datagrams, IInv, Admitted(d), Consistent(d),
         NEW recv, NEW count, NEW bytes, NEW grps, NEW f, NEW sizes, Shown(f, sizes),
         d.seq # f.seq \/ d.size \notin sizes,
         Recover(d, recv, count, bytes, grps)
  PROVE  Staged(f, sizes)' /\ Shown(f, sizes)'
<1> DEFINE group   == grps[d.group]
           missing == MissingOf(group, recv)
           repaired == [bytes EXCEPT ![missing] = RecoveredBytes(group, missing, bytes, d.size)]
<1>1. \/ Finish(d, recv, count, bytes, grps)
      \/ Finish(d, recv \cup {missing}, count + 1, repaired, grps)
  BY DEF Recover
<1> HIDE DEF group, missing, repaired
<1> QED
  BY <1>1, FinishOther

(* What a datagram of f finds is f's. *)
LEMMA FoundOwn ==
  ASSUME NEW d \in Datagrams, IInv, Admitted(d), Consistent(d), WellPlaced(d),
         NEW f, NEW sizes, f.size \in sizes, Staged(f, sizes), d.seq = f.seq, Brings(d, f)
  PROVE  /\ Frame(d).size = f.size /\ Frame(d).keyframe = f.keyframe
         /\ Frame(d).chunks = ChunkCount(f.size)
         /\ HoldsOf(f, Received(d), Bytes(d), BoundGroups(d))
<1>1. /\ Frame(d).size = f.size /\ Frame(d).keyframe = f.keyframe
      /\ Frame(d).chunks = ChunkCount(f.size)
      /\ HoldsOf(f, Received(d), Bytes(d), Bound(d))
  <2>1. CASE Opens(d)
    BY <2>1 DEF Brings, Frame, HoldsOf, Received, Bytes, Bound, NoGroups, Unbound
  <2>2. CASE ~Opens(d)
    <3>1. active.valid /\ active.seq = f.seq /\ active.size = f.size
      BY <2>2 DEF Opens, Supersedes, Consistent, Brings
    <3> QED
      BY <2>2, <3>1 DEF Staged, Frame, Received, Bytes, Bound
  <2> QED
    BY <2>1, <2>2
<1>2. Held(d, Received(d), Count(d), Bytes(d), Bound(d))
  BY FoundState
<1>3. d.group \in GroupIds
  BY BindKeeps
<1> DEFINE entry == [Bound(d)[d.group] EXCEPT !.known = TRUE, !.base = BaseIndex(d),
                                              !.size = d.groupSize]
<1>4. Bound(d) \in [GroupIds -> GroupState] /\ Bound(d)[d.group] \in GroupState
  BY <1>2, <1>3 DEF Held
<1>5. BoundGroups(d) = [Bound(d) EXCEPT ![d.group] = entry]
  BY <1>3, <1>4 DEF BoundGroups, GroupState
<1>6. /\ entry.known /\ entry.hasParity = Bound(d)[d.group].hasParity
      /\ entry.parity = Bound(d)[d.group].parity
      /\ entry.base = BaseIndex(d) /\ entry.size = d.groupSize
  BY <1>4 DEF GroupState
<1>7. Bound(d)[d.group].known =>
        Bound(d)[d.group].base = BaseIndex(d) /\ Bound(d)[d.group].size = d.groupSize
  BY DEF WellPlaced, Binds
<1>8. ASSUME NEW g \in GroupIds, BoundGroups(d)[g].hasParity
      PROVE  /\ BoundGroups(d)[g].known
             /\ BoundGroups(d)[g].parity
                  = ParityBytes(f, BoundGroups(d)[g].base, BoundGroups(d)[g].size)
  <2> HIDE DEF entry
  <2>1. CASE g = d.group
    <3>1. BoundGroups(d)[g] = entry
      BY <1>3, <1>4, <1>5, <2>1
    <3>2. Bound(d)[d.group].known
          /\ Bound(d)[d.group].parity = ParityBytes(f, Bound(d)[d.group].base, Bound(d)[d.group].size)
      BY <1>1, <1>3, <1>6, <1>8, <3>1 DEF HoldsOf
    <3> QED
      BY <1>6, <1>7, <3>1, <3>2
  <2>2. CASE g # d.group
    <3>1. BoundGroups(d)[g] = Bound(d)[g]
      BY <1>3, <1>4, <1>5, <2>2
    <3> QED
      BY <1>1, <1>8, <3>1 DEF HoldsOf
  <2> QED
    BY <2>1, <2>2
<1> HIDE DEF entry
<1> QED
  BY <1>1, <1>8 DEF HoldsOf

(* A parity of the frame's own is kept as its group's parity.              *)
LEMMA ParityOwn ==
  ASSUME IInv, NEW d \in Datagrams, StoreParity(d),
         NEW f, NEW sizes, HandedOver(f), f.size \in sizes, Staged(f, sizes), Shown(f, sizes),
         d.seq = f.seq, Brings(d, f)
  PROVE  Staged(f, sizes)' /\ Shown(f, sizes)'
<1> DEFINE grps == [BoundGroups(d) EXCEPT ![d.group].hasParity = TRUE,
                                          ![d.group].parity = d.payload]
           entry == [BoundGroups(d)[d.group] EXCEPT !.hasParity = TRUE, !.parity = d.payload]
<1>1. /\ Admitted(d) /\ Consistent(d) /\ WellPlaced(d) /\ d.type = "PARITY"
      /\ Recover(d, Received(d), Count(d), Bytes(d), grps)
  BY DEF StoreParity
<1>2. /\ d.group \in GroupIds
      /\ BoundGroups(d) \in [GroupIds -> GroupState]
      /\ \A g \in GroupIds : BoundGroups(d)[g].known =>
           /\ BoundGroups(d)[g].size > 0
           /\ BoundGroups(d)[g].base + BoundGroups(d)[g].size <= Frame(d).chunks
  BY <1>1, BindKeeps
<1>3. d.payload \in Payload /\ d.size = f.size
  BY <1>1, FrameFacts DEF VideoDatagram, Brings
<1>4. grps = [BoundGroups(d) EXCEPT ![d.group] = entry] /\ BoundGroups(d)[d.group] \in GroupState
  BY <1>2
<1>5. /\ entry \in GroupState /\ entry.hasParity /\ entry.parity = d.payload
      /\ entry.known = BoundGroups(d)[d.group].known
      /\ entry.base = BoundGroups(d)[d.group].base
      /\ entry.size = BoundGroups(d)[d.group].size
  BY <1>3, <1>4 DEF GroupState
<1>6. entry.known /\ entry.base = BaseIndex(d) /\ entry.size = d.groupSize
  <2>1. Bound(d) \in [GroupIds -> GroupState]
    BY <1>1, FoundState DEF Held
  <2>2. BoundGroups(d)[d.group].known /\ BoundGroups(d)[d.group].base = BaseIndex(d)
        /\ BoundGroups(d)[d.group].size = d.groupSize
    BY <1>2, <2>1 DEF BoundGroups, GroupState
  <2> QED
    BY <1>5, <2>2
<1>7. d.payload = ParityBytes(f, BaseIndex(d), d.groupSize)
  BY <1>1 DEF Brings, BaseIndex
<1>8. /\ Frame(d).size = f.size /\ Frame(d).keyframe = f.keyframe
      /\ Frame(d).chunks = ChunkCount(f.size)
      /\ HoldsOf(f, Received(d), Bytes(d), BoundGroups(d))
  BY <1>1, FoundOwn
<1> HIDE DEF entry
<1>9. \A g \in GroupIds : grps[g] = IF g = d.group THEN entry ELSE BoundGroups(d)[g]
  BY <1>2, <1>4
<1>10. grps \in [GroupIds -> GroupState]
  BY <1>2, <1>4, <1>5
<1> HIDE DEF grps
<1>11. HoldsOf(f, Received(d), Bytes(d), grps)
  BY <1>5, <1>6, <1>7, <1>8, <1>9 DEF HoldsOf
<1>12. Held(d, Received(d), Count(d), Bytes(d), grps)
  BY <1>1, <1>2, <1>5, <1>9, <1>10, FoundState DEF Held
<1> QED
  BY <1>1, <1>2, <1>3, <1>8, <1>11, <1>12, RecoverOwn

(* A slice puts its own bytes into its place. *)
LEMMA SliceOwn ==
  ASSUME IInv, NEW d \in Datagrams, StoreSlice(d),
         NEW f, NEW sizes, HandedOver(f), f.size \in sizes, Staged(f, sizes), Shown(f, sizes),
         d.seq = f.seq, Brings(d, f)
  PROVE  Staged(f, sizes)' /\ Shown(f, sizes)'
<1> DEFINE bytes == [Bytes(d) EXCEPT ![d.chunk] = d.payload]
<1>1. /\ Admitted(d) /\ Consistent(d) /\ WellPlaced(d) /\ d.type = "SLICE"
  BY DEF StoreSlice
<1>2. d.group \in GroupIds /\ d.size = f.size
  BY <1>1, BindKeeps DEF Brings
<1>3. Held(d, Received(d), Count(d), Bytes(d), BoundGroups(d))
  BY <1>1, BindKeeps, FoundState DEF Held
<1>4. /\ Frame(d).size = f.size /\ Frame(d).keyframe = f.keyframe
      /\ Frame(d).chunks = ChunkCount(f.size)
      /\ HoldsOf(f, Received(d), Bytes(d), BoundGroups(d))
  BY <1>1, FoundOwn
<1>5. CASE d.chunk \in Received(d)
  <2>1. Recover(d, Received(d), Count(d), Bytes(d), BoundGroups(d))
    BY <1>5 DEF StoreSlice
  <2> QED
    BY <1>1, <1>2, <1>3, <1>4, <2>1, RecoverOwn
<1>6. CASE d.chunk \notin Received(d)
  <2>1. Recover(d, Received(d) \cup {d.chunk}, Count(d) + 1, bytes, BoundGroups(d))
    BY <1>6 DEF StoreSlice
  <2>2. Held(d, Received(d) \cup {d.chunk}, Count(d) + 1, bytes, BoundGroups(d))
    BY <1>1, <1>3, <1>6, SliceHeld
  <2>3. d.chunk \in ChunkIds
    BY <1>1, FrameFacts, CapacityType DEF WellPlaced, Placed, VideoDatagram, ChunkIds
  <2>4. bytes[d.chunk] = ChunkBytes(f, d.chunk)
    BY <1>1, <1>3, <2>3 DEF Held, Brings
  <2>5. \A c \in Received(d) : bytes[c] = Bytes(d)[c]
    <3>1. Received(d) \subseteq ChunkIds
      BY <1>1, <1>3, FrameFacts, CapacityType DEF Held, ChunkIds
    <3> QED
      BY <1>3, <1>6, <3>1 DEF Held
  <2> HIDE DEF bytes
  <2>6. HoldsOf(f, Received(d) \cup {d.chunk}, bytes, BoundGroups(d))
    BY <1>4, <2>4, <2>5 DEF HoldsOf
  <2> QED
    BY <1>1, <1>2, <1>4, <2>1, <2>2, <2>6, RecoverOwn
<1> QED
  BY <1>5, <1>6

(* One datagram, whatever becomes of it. *)
LEMMA PushOwn ==
  ASSUME IInv, NEW d \in Datagrams, PushDatagram(d), NEW f, NEW sizes,
         ServedAs(f, sizes, d), Staged(f, sizes), Shown(f, sizes)
  PROVE  Staged(f, sizes)' /\ Shown(f, sizes)'
<1>1. ASSUME UNCHANGED << latest, frameVars >> PROVE Staged(f, sizes)' /\ Shown(f, sizes)'
  BY <1>1 DEF frameVars, Staged, Shown, HoldsOf
<1>2. ASSUME latest' = latest, ResetActive PROVE Staged(f, sizes)' /\ Shown(f, sizes)'
  BY <1>2 DEF ResetActive, Idle, Staged, Shown
<1>3. CASE IgnoreOther(d) \/ HandleMap(d) \/ DropGated(d) \/ DropStale(d)
  BY <1>1, <1>3 DEF IgnoreOther, HandleMap, DropGated, DropStale, vars
<1>4. CASE CloseGate(d) \/ Refuse(d)
  BY <1>2, <1>4 DEF CloseGate, Refuse
<1>5. CASE StoreParity(d) \/ StoreSlice(d)
  <2>1. Admitted(d) /\ Consistent(d) /\ IsVideo(d)
    BY <1>5 DEF StoreParity, StoreSlice, Admitted
  <2>2. CASE d.seq = f.seq /\ d.size \in sizes
    BY <1>5, <2>1, <2>2, ParityOwn, SliceOwn DEF ServedAs
  <2>3. CASE d.seq # f.seq \/ d.size \notin sizes
    <3>1. PICK recv, count, bytes, grps : Recover(d, recv, count, bytes, grps)
      BY <1>5 DEF StoreParity, StoreSlice
    <3> QED
      BY <2>1, <2>3, <3>1, RecoverOther
  <2> QED
    BY <2>2, <2>3
<1> QED
  BY <1>3, <1>4, <1>5 DEF PushDatagram

-----------------------------------------------------------------------------
(* What a datagram that was placed does to the promise: it shows a newer   *)
(* frame, a keyframe if one is awaited, or it changes nothing that is      *)
(* shown and, if it opens the gate, leaves a newer keyframe in assembly.   *)
Shows(d) ==
  /\ latest'.size = d.size /\ latest'.size # 0
  /\ latest'.seq = d.seq
  /\ latest.size # 0 => d.seq > latest.seq
  /\ latest'.keyframe = Frame(d).keyframe
  /\ retryPending => latest'.keyframe /\ d.seq >= retrySeq
  /\ retryPending' = FALSE
  /\ active' = Idle /\ groups' = NoGroups

(* The groups are bound as d leaves them. *)
Bindings(d, grps) ==
  \A g \in GroupIds : grps[g].known =>
    /\ BoundGroups(d)[g].known
    /\ grps[g].base = BoundGroups(d)[g].base
    /\ grps[g].size = BoundGroups(d)[g].size

GoesOn(d) ==
  /\ latest' = latest
  /\ active' = Frame(d) /\ active'.valid /\ active'.seq = d.seq
  /\ Bindings(d, groups')
  /\ \/ retryPending' = retryPending /\ retrySeq' = retrySeq
     \/ /\ retryPending' = FALSE
        /\ active'.valid /\ active'.keyframe /\ active'.seq > retrySeq

(* Finishing publishes a newer frame or goes on assembling the one at      *)
(* hand.                                                                   *)
LEMMA FinishStep ==
  ASSUME NEW d \in Datagrams, IInv, Admitted(d), Consistent(d),
         NEW recv, NEW count, NEW bytes, NEW grps, Bindings(d, grps),
         Finish(d, recv, count, bytes, grps)
  PROVE  Shows(d) \/ GoesOn(d)
<1>1. /\ d \in VideoDatagram /\ Frame(d).seq = d.seq /\ Frame(d).valid
      /\ Frame(d).size = d.size /\ Frame(d).size # 0
      /\ latest.size # 0 => d.seq > latest.seq
      /\ retryPending => Frame(d).keyframe /\ d.seq >= retrySeq
      /\ retryPending => AcceptingNewerKeyframe(d) \/ d.seq = retrySeq
  BY FrameFacts, CapacityAssumption, SMT
<1>2. retryPending \in BOOLEAN /\ retrySeq \in Nat
  BY DEF IInv, TypeOK
<1>3. CASE count = Frame(d).chunks
  <2>1. latest'.size = Frame(d).size /\ latest'.seq = d.seq
        /\ latest'.keyframe = Frame(d).keyframe /\ active' = Idle /\ groups' = NoGroups
    BY <1>1, <1>3 DEF Finish, Publish, ResetActive
  <2>2. retryPending' = (retryPending /\ ~(AcceptingNewerKeyframe(d)
           \/ ((retryPending /\ ~AcceptingNewerKeyframe(d)) /\ d.seq = retrySeq)))
    BY <1>3 DEF Finish
  <2>3. retryPending' = FALSE
    BY <1>1, <1>2, <2>2, Zenon
  <2> QED
    BY <1>1, <2>1, <2>3 DEF Shows
<1>4. CASE count # Frame(d).chunks
  <2>1. active' = Frame(d) /\ PassGate(d) /\ latest' = latest /\ groups' = grps
    BY <1>4 DEF Finish
  <2>2. CASE AcceptingNewerKeyframe(d)
    <3>1. retryPending' = FALSE /\ retryPending /\ d.seq > retrySeq
      BY <1>2, <2>1, <2>2 DEF PassGate, AcceptingNewerKeyframe, IsNewerNaturalKeyframe
    <3> QED
      BY <1>1, <2>1, <3>1 DEF GoesOn
  <2>3. CASE ~AcceptingNewerKeyframe(d)
    BY <1>1, <1>2, <2>1, <2>3 DEF GoesOn, PassGate
  <2> QED
    BY <2>2, <2>3
<1> QED
  BY <1>3, <1>4

(* A datagram that finds its place shows its frame or goes on with it.     *)
LEMMA StoreStep ==
  ASSUME NEW d \in Datagrams, IInv, StoreSlice(d) \/ StoreParity(d)
  PROVE  d.seq \in Nat /\ (Shows(d) \/ GoesOn(d))
<1>1. Admitted(d) /\ Consistent(d) /\ WellPlaced(d)
  BY DEF StoreSlice, StoreParity
<1>2. ASSUME NEW recv, NEW count, NEW bytes, NEW grps, Bindings(d, grps),
             Recover(d, recv, count, bytes, grps)
      PROVE  Shows(d) \/ GoesOn(d)
  <2> DEFINE group == grps[d.group]
             missing == MissingOf(group, recv)
             repaired == [bytes EXCEPT ![missing] = RecoveredBytes(group, missing, bytes, d.size)]
  <2>1. \/ Finish(d, recv, count, bytes, grps)
        \/ Finish(d, recv \cup {missing}, count + 1, repaired, grps)
    BY <1>2 DEF Recover
  <2> HIDE DEF group, missing, repaired
  <2> QED
    BY <1>1, <1>2, <2>1, FinishStep
<1>3. Bindings(d, BoundGroups(d))
  BY DEF Bindings
<1>4. Bindings(d, [BoundGroups(d) EXCEPT ![d.group].hasParity = TRUE,
                                         ![d.group].parity = d.payload])
  <2>1. d.group \in GroupIds /\ BoundGroups(d) \in [GroupIds -> GroupState]
    BY <1>1, BindKeeps
  <2> QED
    BY <2>1 DEF Bindings, GroupState
<1>5. Shows(d) \/ GoesOn(d)
  BY <1>2, <1>3, <1>4 DEF StoreSlice, StoreParity
<1> QED
  BY <1>1, <1>5, FrameFacts DEF VideoDatagram

(* The same of a datagram that is not placed. *)
LEMMA DropStep ==
  ASSUME NEW d \in Datagrams, IInv, DropStale(d)
  PROVE  UNCHANGED << latest, retryPending, retrySeq >>
<1>1. ~AcceptingNewerKeyframe(d)
  <2>1. d \in VideoDatagram
    BY VideoType DEF DropStale
  <2>2. retryPending => \/ latest.size # 0 /\ d.seq <= latest.seq /\ retrySeq > latest.seq
                        \/ active.valid /\ d.seq < active.seq /\ active.seq = retrySeq
    BY DEF DropStale, Stale, IInv, RetryIsReachable, GateIsExclusive
  <2>3. latest.seq \in Nat /\ active.seq \in Nat /\ retrySeq \in Nat /\ d.seq \in Nat
    BY <2>1 DEF IInv, TypeOK, FrameHeader, VideoDatagram
  <2> QED
    BY <2>2, <2>3 DEF AcceptingNewerKeyframe, IsNewerNaturalKeyframe
<1>2. PassGate(d) /\ latest' = latest /\ retryPending \in BOOLEAN
  BY DEF DropStale, IInv, TypeOK
<1> QED
  BY <1>1, <1>2 DEF PassGate

(* A refusal shows nothing, and opens the gate for a newer keyframe only.  *)
LEMMA RefuseStep ==
  ASSUME NEW d \in Datagrams, IInv, Refuse(d)
  PROVE  /\ latest' = latest
         /\ \/ retryPending' = retryPending /\ retrySeq' = retrySeq
            \/ retryPending' = FALSE /\ d.keyframe /\ d.seq > retrySeq
<1>1. PassGate(d) /\ latest' = latest /\ retryPending \in BOOLEAN
  BY DEF Refuse, IInv, TypeOK
<1>2. CASE AcceptingNewerKeyframe(d)
  BY <1>1, <1>2 DEF PassGate, AcceptingNewerKeyframe, IsNewerNaturalKeyframe
<1>3. CASE ~AcceptingNewerKeyframe(d)
  BY <1>1, <1>3 DEF PassGate
<1> QED
  BY <1>2, <1>3

(* A closed gate is never closed again: what it awaits is not superseded.  *)
LEMMA CloseStep ==
  ASSUME NEW d \in Datagrams, IInv, CloseGate(d)
  PROVE  /\ retryPending = FALSE /\ retryPending' = TRUE
         /\ latest' = latest
         /\ retrySeq' \in Nat
         /\ latest.size # 0 => retrySeq' > latest.seq
<1>1. /\ active.valid /\ d.seq # active.seq /\ ~AcceptingNewerKeyframe(d) /\ ~Gated(d)
      /\ retryPending' = TRUE /\ retrySeq' = active.seq /\ latest' = latest
  BY DEF CloseGate, ClosesGate, Supersedes, Admitted
<1>2. retryPending \in BOOLEAN /\ active.seq \in Nat
  BY DEF IInv, TypeOK, FrameHeader
<1>3. ASSUME retryPending PROVE FALSE
  <2>1. active.seq = retrySeq
    BY <1>1, <1>3 DEF IInv, GateIsExclusive
  <2> QED
    BY <1>1, <1>3, <2>1 DEF Gated, IsRequestedRetry, AcceptingNewerKeyframe
<1> QED
  BY <1>1, <1>2, <1>3 DEF IInv, ActiveIsNewer

(* What closes the gate: a keyframe is given up, is noted, and is awaited. *)
Closes ==
  /\ active.valid /\ active.keyframe /\ retryEnabled
  /\ ~retryPending /\ retryPending' /\ retrySeq' = active.seq
  /\ incomplete' = [seq |-> active.seq, keyframe |-> TRUE, isNew |-> TRUE]
  /\ active' = Idle /\ groups' = NoGroups
  /\ UNCHANGED << latest, retryEnabled >>

(* Any datagram, seen from outside: it changes nothing of the video state, *)
(* it gives up the frame under assembly, or it finds its place.            *)
LEMMA PushOutcome ==
  ASSUME NEW d \in Datagrams, IInv, PushDatagram(d)
  PROVE  \/ UNCHANGED << latest, active, groups, incomplete, retryEnabled, retryPending, retrySeq >>
         \/ Closes
         \/ Refuse(d)
         \/ StoreSlice(d) \/ StoreParity(d)
<1>1. CASE IgnoreOther(d) \/ HandleMap(d) \/ DropGated(d)
  BY <1>1 DEF IgnoreOther, HandleMap, DropGated, vars, frameVars, gateVars
<1>2. CASE DropStale(d)
  BY <1>2, DropStep DEF DropStale, PassGate, frameVars
<1>3. CASE CloseGate(d)
  <2>1. /\ active.valid /\ active.keyframe /\ retryEnabled /\ Supersedes(d)
        /\ retrySeq' = active.seq /\ active' = Idle /\ groups' = NoGroups
        /\ UNCHANGED << latest, retryEnabled >> /\ NoteIncomplete(d)
    BY <1>3 DEF CloseGate, ClosesGate, Supersedes, ResetActive
  <2>2. incomplete' = [seq |-> active.seq, keyframe |-> active.keyframe, isNew |-> TRUE]
    BY <2>1 DEF NoteIncomplete
  <2>3. active.keyframe = TRUE
    BY <2>1 DEF IInv, TypeOK, FrameHeader
  <2> QED
    BY <1>3, <2>1, <2>2, <2>3, CloseStep DEF Closes
<1> QED
  BY <1>1, <1>2, <1>3 DEF PushDatagram

(* A datagram that is refused or placed notes the frame it supersedes.     *)
LEMMA NoteOutcome ==
  ASSUME NEW d \in Datagrams, Refuse(d) \/ StoreSlice(d) \/ StoreParity(d), IInv
  PROVE  /\ retryEnabled' = retryEnabled
         /\ IsVideo(d) /\ Admitted(d) /\ ~ClosesGate(d)
         /\ IF Supersedes(d)
            THEN incomplete' = [seq |-> active.seq, keyframe |-> active.keyframe, isNew |-> TRUE]
            ELSE incomplete' = incomplete
<1>1. NoteIncomplete(d) /\ Admitted(d) /\ ~ClosesGate(d)
  BY DEF Refuse, StoreSlice, StoreParity
<1>2. retryEnabled' = retryEnabled
  <2>1. CASE Refuse(d)
    BY <2>1 DEF Refuse, PassGate
  <2>2. ASSUME NEW recv, NEW count, NEW bytes, NEW grps, Recover(d, recv, count, bytes, grps)
        PROVE  retryEnabled' = retryEnabled
    BY <2>2 DEF Recover, Finish, PassGate
  <2> QED
    BY <2>1, <2>2 DEF StoreSlice, StoreParity
<1> QED
  BY <1>1, <1>2 DEF NoteIncomplete, Admitted

(* Whoever reads last_incomplete_* and resets it leaves the rest alone.    *)
LEMMA ReadIncompleteKeeps ==
  ASSUME IInv, incomplete' = [incomplete EXCEPT !.isNew = FALSE],
         UNCHANGED << latest, frameVars, gateVars, map >>
  PROVE  IInv'
<1>1. incomplete' \in [seq : Nat, keyframe : BOOLEAN, isNew : BOOLEAN]
  BY DEF IInv, TypeOK
<1>2. TypeOK'
  BY <1>1 DEF IInv, TypeOK, frameVars, gateVars
<1> QED
  BY <1>2 DEF IInv, ActiveIsNewer, RetryIsReachable, GateIsExclusive, CountIsExact,
    GroupsStayInside, frameVars, gateVars

-----------------------------------------------------------------------------
(* A closed gate yields to keyframes only.                                 *)
THEOREM GateYields == Spec => GateYieldsToKeyframes
<1> DEFINE Yields ==
      retryPending /\ ~retryPending' =>
        \/ ~retryEnabled'
        \/ latest' # latest /\ latest'.keyframe /\ latest'.seq >= retrySeq
        \/ active'.valid /\ active'.keyframe /\ active'.seq > retrySeq
        \/ \E d \in Datagrams : Refuse(d) /\ d.keyframe /\ d.seq > retrySeq
<1>1. IInv /\ [Next]_vars => [Yields]_vars
  <2> SUFFICES ASSUME IInv, Next PROVE Yields
    OBVIOUS
  <2>1. ASSUME NEW enabled \in BOOLEAN, SetKeyframeRetryEnabled(enabled) PROVE Yields
    BY <2>1 DEF SetKeyframeRetryEnabled
  <2>2. ASSUME NEW d \in Datagrams, PushDatagram(d) PROVE Yields
    <3>1. CASE IgnoreOther(d) \/ HandleMap(d) \/ DropGated(d)
      BY <3>1 DEF IgnoreOther, HandleMap, DropGated, vars, gateVars
    <3>2. CASE DropStale(d)
      BY <3>2, DropStep
    <3>3. CASE CloseGate(d)
      BY <3>3, CloseStep
    <3>4. CASE Refuse(d)
      BY <3>4, RefuseStep
    <3>5. CASE StoreParity(d) \/ StoreSlice(d)
      <4>1. Shows(d) \/ GoesOn(d)
        BY <3>5, StoreStep
      <4>2. CASE Shows(d)
        <5>1. retryPending => latest' # latest
          <6>1. retryPending /\ latest' = latest => d.seq > d.seq
            BY <4>2 DEF Shows
          <6> QED
            BY <6>1, <3>5, StoreStep
        <5> QED
          BY <4>2, <5>1 DEF Shows
      <4> QED
        BY <4>1, <4>2 DEF GoesOn
    <3> QED
      BY <2>2, <3>1, <3>2, <3>3, <3>4, <3>5 DEF PushDatagram
  <2> QED
    BY <2>1, <2>2 DEF Next
<1> QED
  BY <1>1, Invariant, PTL DEF Spec, GateYieldsToKeyframes

(* The assembler implements LatestWins: what is shown only advances, and   *)
(* while a keyframe is awaited only a keyframe at least as new is shown.   *)
THEOREM Refinement == Spec => KeepsPromise
<1> DEFINE shown   == [seq |-> IF latest.size = 0 THEN -1 ELSE latest.seq,
                       keyframe |-> latest.keyframe]
           awaited == IF retryPending THEN retrySeq ELSE -1
<1>1. Init => Promise!Init
  BY DEF Init, Promise!Init, NoFrame
<1>2. IInv /\ [Next]_vars => [Promise!Next]_(Promise!vars)
  <2> SUFFICES ASSUME IInv, [Next]_vars
               PROVE  Promise!Next \/ (shown' = shown /\ awaited' = awaited)
    BY DEF Promise!vars
  <2>1. ASSUME latest' = latest, retryPending' = retryPending, retrySeq' = retrySeq
        PROVE  shown' = shown /\ awaited' = awaited
    BY <2>1
  <2>2. ASSUME latest' = latest, retryPending' = FALSE
        PROVE  Promise!Next
    BY <2>2 DEF Promise!Next, Promise!Release
  <2>3. CASE UNCHANGED vars
    BY <2>1, <2>3 DEF vars, gateVars
  <2>4. ASSUME NEW enabled \in BOOLEAN, SetKeyframeRetryEnabled(enabled)
        PROVE  Promise!Next \/ (shown' = shown /\ awaited' = awaited)
    <3>1. retryPending \in BOOLEAN
      BY DEF IInv, TypeOK
    <3>2. \/ retryPending' = retryPending /\ retrySeq' = retrySeq
          \/ retryPending' = FALSE
      BY <2>4, <3>1 DEF SetKeyframeRetryEnabled
    <3> QED
      BY <2>1, <2>2, <2>4, <3>2 DEF SetKeyframeRetryEnabled
  <2>5. ASSUME NEW d \in Datagrams, PushDatagram(d)
        PROVE  Promise!Next \/ (shown' = shown /\ awaited' = awaited)
    <3>1. CASE IgnoreOther(d) \/ HandleMap(d) \/ DropGated(d)
      BY <2>1, <3>1 DEF IgnoreOther, HandleMap, DropGated, vars, gateVars
    <3>2. CASE DropStale(d)
      BY <2>1, <3>2, DropStep
    <3>3. CASE Refuse(d)
      BY <2>1, <2>2, <3>3, RefuseStep
    <3>4. CASE CloseGate(d)
      <4>1. /\ awaited = -1 /\ awaited' = retrySeq' /\ shown' = shown
            /\ awaited' > shown.seq
        <5>1. /\ retryPending = FALSE /\ retryPending' = TRUE /\ latest' = latest
              /\ retrySeq' \in Nat
              /\ latest.size # 0 => retrySeq' > latest.seq
          BY <3>4, CloseStep
        <5>2. awaited = -1 /\ awaited' = retrySeq' /\ shown' = shown
          BY <5>1
        <5>3. shown.seq = IF latest.size = 0 THEN -1 ELSE latest.seq
          OBVIOUS
        <5> HIDE DEF shown, awaited
        <5> QED
          BY <5>1, <5>2, <5>3
      <4> QED
        BY <4>1 DEF Promise!Next, Promise!Await
    <3>5. CASE StoreParity(d) \/ StoreSlice(d)
      <4>1. d.seq \in Nat /\ (Shows(d) \/ GoesOn(d))
        BY <3>5, StoreStep
      <4>2. CASE Shows(d)
        <5>1. shown'.seq = d.seq /\ shown'.keyframe = latest'.keyframe /\ awaited' = -1
          BY <4>2 DEF Shows
        <5>2. shown'.seq > shown.seq
          BY <4>1, <4>2, <5>1 DEF Shows, IInv, TypeOK
        <5>3. awaited # -1 => shown'.keyframe /\ shown'.seq >= awaited
          BY <4>2, <5>1 DEF Shows
        <5> QED
          BY <5>1, <5>2, <5>3 DEF Promise!Next, Promise!Show
      <4>3. CASE GoesOn(d)
        BY <2>1, <2>2, <4>3 DEF GoesOn
      <4> QED
        BY <4>1, <4>2, <4>3
    <3> QED
      BY <2>5, <3>1, <3>2, <3>3, <3>4, <3>5 DEF PushDatagram
  <2> QED
    BY <2>3, <2>4, <2>5 DEF Next
<1> QED
  BY <1>1, <1>2, Invariant, PTL DEF Spec, KeepsPromise, Promise!Spec

-----------------------------------------------------------------------------
(* What an accepted map leaves in the table is what a reader gets.         *)
LEMMA MapIsStored ==
  ASSUME IInv, NEW d \in Datagrams, HandleMap(d)
  PROVE  UNCHANGED map \/ (MapIsWhole' /\ map'.valid /\ (map.valid => map'.seq >= map.seq))
<1> DEFINE Cell(t) == IF d.weights[t] = 0 THEN 1 ELSE d.weights[t]
           tiles   == TileCount(d)
<1> SUFFICES ASSUME map' # map
             PROVE  MapIsWhole' /\ map'.valid /\ (map.valid => map'.seq >= map.seq)
  OBVIOUS
<1>1. /\ d.type = "MAP" /\ MapWellFormed(d) /\ ~(map.valid /\ d.seq < map.seq)
      /\ map' = [valid |-> TRUE, seq |-> d.seq, cols |-> d.cols, rows |-> d.rows,
                 weights |-> [t \in 1 .. MapCapacity |->
                                IF t > tiles THEN map.weights[t] ELSE Cell(t)]]
  BY DEF HandleMap
<1>2. d \in MapDatagram
  BY <1>1, DatagramAssumption DEF VideoDatagram, OtherDatagram
<1>3. /\ d.seq \in Nat /\ d.cols \in Nat /\ d.rows \in Nat /\ d.weights \in Seq(0 .. 255)
  BY <1>2 DEF MapDatagram
<1>4. /\ map'.valid = TRUE /\ map'.seq = d.seq /\ map'.cols = d.cols /\ map'.rows = d.rows
      /\ map'.weights = [t \in 1 .. MapCapacity |->
                           IF t > tiles THEN map.weights[t] ELSE Cell(t)]
  BY <1>1
<1>5. map'.cols * map'.rows = tiles
  BY <1>4 DEF TileCount
<1>6. /\ tiles \in 1 .. MapCapacity /\ Len(d.weights) = tiles /\ DOMAIN d.weights = 1 .. tiles
  BY <1>1, <1>3 DEF MapWellFormed
<1>7. MapView' = [t \in 1 .. tiles |-> map'.weights[t]]
  BY <1>4, <1>5 DEF MapView
<1>8. ASSUME NEW t \in 1 .. tiles PROVE map'.weights[t] = Cell(t)
  <2>1. t \in 1 .. MapCapacity /\ ~(t > tiles)
    BY <1>6, CapacityAssumption
  <2> QED
    BY <2>1, <1>4
<1>9. MapView' = [t \in DOMAIN d.weights |-> Cell(t)]
  BY <1>6, <1>7, <1>8
<1>10. MapIsWhole'
  BY <1>1, <1>4, <1>9 DEF MapIsWhole
<1>11. map.valid => map'.seq >= map.seq
  <2>1. map.seq \in Nat
    BY DEF IInv, TypeOK
  <2> QED
    BY <1>1, <1>3, <1>4, <2>1
<1> QED
  BY <1>4, <1>10, <1>11

(* Nothing else touches the map.                                           *)
LEMMA MapStep ==
  ASSUME IInv, [Next]_vars
  PROVE  UNCHANGED map \/ (MapIsWhole' /\ map'.valid /\ (map.valid => map'.seq >= map.seq))
<1>1. CASE UNCHANGED vars
  BY <1>1 DEF vars
<1>2. ASSUME NEW enabled \in BOOLEAN, SetKeyframeRetryEnabled(enabled) PROVE UNCHANGED map
  BY <1>2 DEF SetKeyframeRetryEnabled
<1>3. ASSUME NEW d \in Datagrams, PushDatagram(d), ~HandleMap(d) PROVE UNCHANGED map
  BY <1>3 DEF PushDatagram, IgnoreOther, DropGated, DropStale, CloseGate, Refuse,
              StoreParity, StoreSlice, vars
<1> QED
  BY <1>1, <1>2, <1>3, MapIsStored DEF Next

(* A reader of the importance map sees one whole map after another, each   *)
(* at least as new as the last.                                            *)
THEOREM MapsAdvanceAlways == Spec => MapsAdvance
<1>1. Init => MapIsWhole
  <2> SUFFICES ASSUME Init PROVE MapView = [t \in 1 .. MapCapacity |-> 128] /\ ~map.valid
    BY DEF MapIsWhole
  <2> QED
    BY DEF Init, MapView
<1>2. MapIsWhole /\ UNCHANGED map => MapIsWhole'
  BY DEF MapIsWhole, MapView
<1>3. IInv /\ [Next]_vars /\ MapIsWhole => MapIsWhole'
  BY <1>2, MapStep
<1>4. IInv /\ [Next]_vars => [map.valid => map'.valid /\ map'.seq >= map.seq]_vars
  <2>1. IInv => map.seq \in Nat
    BY DEF IInv, TypeOK
  <2> QED
    BY <2>1, MapStep
<1> QED
  BY <1>1, <1>3, <1>4, Invariant, PTL DEF Spec, MapsAdvance, MapOnlyAdvances
-----------------------------------------------------------------------------
(* The frames the datagrams of a behaviour come from.                      *)
Source ==
  CASE traffic = "once"      -> SentOnce
    [] traffic = "regrouped" -> SentAgain
    [] traffic = "maps"      -> SentWithMaps
    [] OTHER              -> encoded

IsSent(d) == IsVideo(d) => \E f \in Source : d \in FrameDatagrams(f)

(* No other frame goes by the number and the size of f. *)
Lone(f) == \A g \in Source : g.seq = f.seq /\ g.size = f.size => SameFrame(f, g)

(* The restarted sender has numbered its frames, and has sent nothing else. *)
SenderOK ==
  /\ traffic \in {"once", "regrouped", "maps", "restart"}
  /\ process \in 1 .. 2 /\ seq \in Nat
  /\ encoded \subseteq AllFrames
  /\ network \in Seq(DatagramsOf(encoded))

(* What is assembled and what is shown goes by the number and the size of  *)
(* a frame that was sent, and has nothing but its bytes unless another     *)
(* frame goes by them too.                                                 *)
ComesFromSource ==
  /\ active.valid => \E f \in Source : f.seq = active.seq /\ f.size = active.size
  /\ latest.size # 0 => \E f \in Source : f.seq = latest.seq /\ f.size = latest.size
  /\ \A f \in Source : Lone(f) => Staged(f, {f.size}) /\ Shown(f, {f.size})

(* Frames that are sent in one grouping are assembled in it.               *)
GroupedAsSent ==
  traffic = "once" =>
    \A g \in GroupIds : groups[g].known =>
      \E f \in SentOnce :
        /\ f.seq = active.seq /\ g \in Groups(f)
        /\ groups[g].base = GroupBase(f)[g]
        /\ groups[g].size = GroupSize(f, groups[g].base)

SourceInv == IInv /\ RepairInv /\ SenderOK /\ ComesFromSource /\ GroupedAsSent

(* A frame of the restarted sender has the number and the size it was      *)
(* encoded with.                                                           *)
LEMMA EncodedFrames ==
  ASSUME NEW f
  PROVE  f \in AllFrames <=>
           \E p \in 1 .. 2, n \in 1 .. LastNew : \E s \in SizesOf(n) : f = Encoded(p, n, s)
<1> DEFINE S == {SentAs(p, n) : p \in 1 .. 2, n \in 1 .. LastNew}
<1>1. f \in AllFrames <=> \E T \in S : f \in T
  BY DEF AllFrames
<1>2. \A T : T \in S <=> \E p \in 1 .. 2, n \in 1 .. LastNew : T = SentAs(p, n)
  OBVIOUS
<1>3. \A p, n : f \in SentAs(p, n) <=> \E s \in SizesOf(n) : f = Encoded(p, n, s)
  BY DEF SentAs
<1> HIDE DEF S
<1>4. ASSUME f \in AllFrames
      PROVE  \E p \in 1 .. 2, n \in 1 .. LastNew : \E s \in SizesOf(n) : f = Encoded(p, n, s)
  <2>1. PICK T : T \in S /\ f \in T
    BY <1>1, <1>4
  <2>2. PICK p \in 1 .. 2, n \in 1 .. LastNew : T = SentAs(p, n)
    BY <1>2, <2>1
  <2>3. \E s \in SizesOf(n) : f = Encoded(p, n, s)
    BY <1>3, <2>1, <2>2
  <2> QED
    BY <2>3
<1>5. ASSUME NEW p \in 1 .. 2, NEW n \in 1 .. LastNew, NEW s \in SizesOf(n), f = Encoded(p, n, s)
      PROVE  f \in AllFrames
  <2>1. SentAs(p, n) \in S
    BY <1>2
  <2>2. f \in SentAs(p, n)
    BY <1>3, <1>5
  <2> QED
    BY <1>1, <2>1, <2>2
<1> QED
  BY <1>4, <1>5

(* Every frame that may be sent can be cut into chunks and groups.         *)
LEMMA SourceIsSendable ==
  ASSUME SendersAssumption, SenderOK
  PROVE  /\ \A f \in Source : HandedOver(f) /\ FrameDatagrams(f) \subseteq Datagrams
         /\ \A f \in AllFrames : HandedOver(f)
<1>1. ASSUME NEW f \in AllFrames PROVE HandedOver(f)
  <2>1. PICK p \in 1 .. 2, n \in 1 .. LastNew : \E s \in SizesOf(n) : f = Encoded(p, n, s)
    BY <1>1, EncodedFrames
  <2> PICK s \in SizesOf(n) : f = Encoded(p, n, s)
    BY <2>1
  <2>2. s \in Nat /\ s > 0
    BY DEF SizesOf, SendersAssumption, RestartAssumption
  <2>3. f.size = s /\ f.weights = Uniform
    BY DEF Encoded
  <2> QED
    BY <2>2, <2>3 DEF HandedOver
<1>2. ASSUME NEW f \in Source PROVE HandedOver(f) /\ FrameDatagrams(f) \subseteq Datagrams
  <2>1. f \in SentOnce \/ f \in SentAgain \/ f \in SentWithMaps \/ f \in AllFrames
    BY <1>2 DEF Source, SenderOK
  <2>2. FrameDatagrams(f) \subseteq OnceEach \cup Regrouped \cup WithMaps \cup Restarted
    BY <2>1 DEF OnceEach, Regrouped, WithMaps, Restarted, DatagramsOf
  <2> QED
    BY <1>1, <2>1, <2>2 DEF SendersAssumption
<1> QED
  BY <1>1, <1>2

(* Within one run of a sender every frame is the only one of its kind.     *)
LEMMA OneRunIsLone ==
  ASSUME SendersAssumption, SenderOK, traffic # "restart", NEW f \in Source
  PROVE  Lone(f)
<1>1. traffic = "once" => Source = SentOnce
  BY DEF Source
<1>2. traffic = "regrouped" => Source = SentAgain
  BY DEF Source
<1>3. traffic = "maps" => Source = SentWithMaps
  BY DEF Source
<1> QED
  BY <1>1, <1>2, <1>3 DEF SenderOK, SendersAssumption, Lone, SameFrame

(* What arrives under the number and the size of such a frame is its own.  *)
LEMMA LoneIsServed ==
  ASSUME SendersAssumption, SenderOK, NEW d, IsSent(d), NEW f \in Source, Lone(f)
  PROVE  ServedAs(f, {f.size}, d)
<1>1. HandedOver(f)
  BY SourceIsSendable
<1>2. ASSUME IsVideo(d), d.seq = f.seq, d.size = f.size PROVE Brings(d, f)
  <2>1. PICK g \in Source : d \in FrameDatagrams(g)
    BY <1>2 DEF IsSent
  <2>2. Describes(d, g) /\ Carries(d, g)
    BY <2>1, SourceIsSendable, LayoutFacts DEF FrameDatagrams, Range
  <2>3. /\ d.seq = g.seq /\ d.size = g.size /\ d.keyframe = g.keyframe
        /\ d.chunks = ChunkCount(g.size)
    BY <2>2 DEF Describes, HeaderOf
  <2>4. f.content = g.content /\ f.keyframe = g.keyframe /\ f.size = g.size
    BY <1>2, <2>1, <2>3 DEF Lone, SameFrame
  <2>5. \A c : ChunkBytes(g, c) = ChunkBytes(f, c)
    BY <2>4 DEF ChunkBytes
  <2>6. \A b, n : ParityBytes(g, b, n) = ParityBytes(f, b, n)
    BY <2>4, <2>5 DEF ParityBytes
  <2>7. \/ d.type = "SLICE" /\ d.payload = ChunkBytes(f, d.chunk)
        \/ d.type = "PARITY" /\ d.payload = ParityBytes(f, d.chunk, d.groupSize)
    BY <2>2, <2>5, <2>6 DEF Carries
  <2> QED
    BY <2>3, <2>4, <2>7 DEF Brings
<1> QED
  BY <1>1, <1>2 DEF ServedAs

(* An assembler that is told nothing new holds nothing new.                *)
LEMMA SourceStays ==
  ASSUME ComesFromSource, GroupedAsSent, UNCHANGED << traffic, encoded, latest, frameVars >>
  PROVE  ComesFromSource' /\ GroupedAsSent'
<1>1. UNCHANGED << active, received, chunksReceived, groups, staging >>
  BY DEF frameVars
<1>2. Source' = Source /\ \A f : Lone(f)' <=> Lone(f)
  BY DEF Source, Lone
<1>3. \A f : (Staged(f, {f.size})' <=> Staged(f, {f.size}))
             /\ (Shown(f, {f.size})' <=> Shown(f, {f.size}))
  BY <1>1 DEF Staged, Shown, HoldsOf
<1>4. ComesFromSource'
  BY <1>1, <1>2, <1>3 DEF ComesFromSource
<1>5. GroupedAsSent'
  BY <1>1 DEF GroupedAsSent
<1> QED
  BY <1>4, <1>5

(* One datagram of the source.                                             *)
LEMMA ArrivalComesFromSource ==
  ASSUME SendersAssumption, SourceInv, NEW d \in Datagrams, IsSent(d), PushDatagram(d),
         UNCHANGED << traffic, encoded >>
  PROVE  ComesFromSource'
<1>1. Source' = Source /\ \A f : Lone(f)' <=> Lone(f)
  BY DEF Source, Lone
<1>2. ASSUME NEW f \in Source, Lone(f)
      PROVE  Staged(f, {f.size})' /\ Shown(f, {f.size})'
  BY <1>2, LoneIsServed, PushOwn DEF SourceInv, ComesFromSource
<1> DEFINE FromSource(n, s) == \E f \in Source : f.seq = n /\ f.size = s
<1>3. /\ active.valid => FromSource(active.seq, active.size)
      /\ latest.size # 0 => FromSource(latest.seq, latest.size)
  BY DEF SourceInv, ComesFromSource
<1>4. IsVideo(d) => FromSource(d.seq, d.size)
  <2> SUFFICES ASSUME IsVideo(d) PROVE FromSource(d.seq, d.size)
    OBVIOUS
  <2>1. PICK g \in Source : d \in FrameDatagrams(g)
    BY DEF IsSent
  <2>2. Describes(d, g)
    BY <2>1, SourceIsSendable, LayoutFacts DEF FrameDatagrams, Range, SourceInv
  <2> QED
    BY <2>1, <2>2 DEF Describes, HeaderOf
<1> HIDE DEF FromSource
<1>5. /\ active'.valid => FromSource(active'.seq, active'.size)
      /\ latest'.size # 0 => FromSource(latest'.seq, latest'.size)
  <2>1. CASE UNCHANGED << latest, active >>
    BY <1>3, <2>1
  <2>2. CASE active' = Idle /\ latest' = latest
    BY <1>3, <2>2 DEF Idle
  <2>3. CASE StoreSlice(d) \/ StoreParity(d)
    <3>1. /\ IsVideo(d) /\ Admitted(d) /\ Consistent(d)
          /\ Frame(d).seq = d.seq /\ Frame(d).size = d.size
      BY <2>3, FrameFacts DEF StoreSlice, StoreParity, Admitted, SourceInv
    <3>2. CASE Shows(d)
      BY <1>4, <3>1, <3>2 DEF Shows, Idle
    <3>3. CASE GoesOn(d)
      BY <1>3, <1>4, <3>1, <3>3 DEF GoesOn
    <3> QED
      BY <2>3, <3>2, <3>3, StoreStep DEF SourceInv
  <2>4. Closes \/ Refuse(d) => active' = Idle /\ latest' = latest
    BY DEF Closes, Refuse, ResetActive
  <2> QED
    BY <2>1, <2>2, <2>3, <2>4, PushOutcome DEF SourceInv
<1> QED
  BY <1>1, <1>2, <1>5 DEF ComesFromSource, FromSource

(* A datagram binds its group as its frame has it.                         *)
LEMMA ArrivalIsGrouped ==
  ASSUME SendersAssumption, SourceInv, NEW d \in Datagrams, IsSent(d), PushDatagram(d),
         UNCHANGED traffic
  PROVE  GroupedAsSent'
<1> SUFFICES ASSUME traffic = "once" PROVE GroupedAsSent'
  BY DEF GroupedAsSent
<1>1. Source = SentOnce
  BY DEF Source
<1> DEFINE Grouped(g, group, n) ==
      \E f \in SentOnce : /\ f.seq = n /\ g \in Groups(f)
                          /\ group.base = GroupBase(f)[g]
                          /\ group.size = GroupSize(f, group.base)
<1>2. \A g \in GroupIds : groups[g].known => Grouped(g, groups[g], active.seq)
  BY DEF SourceInv, GroupedAsSent
<1>3. SUFFICES \A g \in GroupIds : groups'[g].known => Grouped(g, groups'[g], active'.seq)
  BY DEF GroupedAsSent
<1> HIDE DEF Grouped
<1>4. CASE UNCHANGED << active, groups >>
  BY <1>2, <1>4
<1>5. CASE groups' = NoGroups
  BY <1>5 DEF NoGroups, Unbound
<1>6. CASE (StoreSlice(d) \/ StoreParity(d)) /\ GoesOn(d)
  <2>1. active'.seq = d.seq /\ Bindings(d, groups')
    BY <1>6 DEF GoesOn
  <2>2. IsVideo(d) /\ Admitted(d) /\ Consistent(d) /\ WellPlaced(d)
    BY <1>6 DEF StoreSlice, StoreParity, Admitted
  <2>3. d.group \in GroupIds /\ Bound(d) \in [GroupIds -> GroupState]
    BY <2>2, BindKeeps, FoundState DEF SourceInv, Held
  <2>4. TAKE g \in GroupIds
  <2>5. HAVE groups'[g].known
  <2>6. /\ BoundGroups(d)[g].known
        /\ groups'[g].base = BoundGroups(d)[g].base
        /\ groups'[g].size = BoundGroups(d)[g].size
    BY <2>1, <2>5 DEF Bindings
  <2>7. CASE g = d.group
    <3>1. BoundGroups(d)[g].base = BaseIndex(d) /\ BoundGroups(d)[g].size = d.groupSize
      BY <2>3, <2>7 DEF BoundGroups, GroupState
    <3>2. PICK f \in SentOnce : d \in FrameDatagrams(f)
      BY <1>1, <2>2 DEF IsSent
    <3>3. Describes(d, f)
      BY <1>1, <3>2, SourceIsSendable, LayoutFacts DEF FrameDatagrams, Range, SourceInv
    <3>4. /\ f.seq = d.seq /\ g \in Groups(f) /\ BaseIndex(d) = GroupBase(f)[g]
          /\ d.groupSize = GroupSize(f, BaseIndex(d))
      BY <2>7, <3>3 DEF Describes, HeaderOf
    <3> QED
      BY <2>1, <2>6, <3>1, <3>4 DEF Grouped
  <2>8. CASE g # d.group
    <3>1. BoundGroups(d)[g] = Bound(d)[g]
      BY <2>3, <2>8 DEF BoundGroups
    <3>2. ~Opens(d)
      <4>1. Opens(d) => ~Bound(d)[g].known
        BY DEF Bound, NoGroups, Unbound
      <4> QED
        BY <2>6, <3>1, <4>1
    <3>3. /\ active.seq = d.seq /\ groups[g].known
          /\ groups'[g].base = groups[g].base /\ groups'[g].size = groups[g].size
      BY <2>6, <3>1, <3>2 DEF Opens, Supersedes, Bound
    <3> QED
      BY <1>2, <2>1, <3>3 DEF Grouped
  <2> QED
    BY <2>7, <2>8
<1>7. Closes \/ Refuse(d) => groups' = NoGroups
  BY DEF Closes, Refuse, ResetActive
<1>8. StoreSlice(d) \/ StoreParity(d) => groups' = NoGroups \/ GoesOn(d)
  BY StoreStep DEF SourceInv, Shows
<1> QED
  BY <1>4, <1>5, <1>6, <1>7, <1>8, PushOutcome DEF SourceInv

(* A frame is encoded: if the receiver holds anything under its number and *)
(* size, another process has sent one of the same, and it is not alone.    *)
LEMMA SendKeepsSource ==
  ASSUME SendersAssumption, SourceInv, traffic = "restart", SendFrame, traffic' = traffic
  PROVE  SenderOK' /\ ComesFromSource' /\ GroupedAsSent'
<1>1. PICK size \in SizesOf(seq + 1) :
        /\ network' = FrameLayout(Encoded(process, seq + 1, size))
        /\ encoded' = encoded \cup {Encoded(process, seq + 1, size)}
  BY DEF SendFrame
<1> DEFINE frame == Encoded(process, seq + 1, size)
<1>2. /\ process \in 1 .. 2 /\ seq \in Nat /\ encoded \subseteq AllFrames
      /\ process' = process /\ seq' = seq + 1
      /\ seq + 1 \in 1 .. LastNew
  BY DEF SourceInv, SenderOK, SendFrame, SendersAssumption, RestartAssumption
<1>3. frame \in AllFrames
  BY <1>2, EncodedFrames
<1>4. SenderOK'
  <2>1. network' \in Seq(FrameDatagrams(frame))
    BY <1>1, <1>3, SourceIsSendable, LayoutFacts DEF SourceInv
  <2>2. FrameDatagrams(frame) \subseteq DatagramsOf(encoded)'
    BY <1>1 DEF DatagramsOf
  <2>3. network' \in Seq(DatagramsOf(encoded))'
    <3> HIDE DEF frame
    <3> QED
      BY <2>1, <2>2
  <2> HIDE DEF frame
  <2> QED
    BY <1>1, <1>2, <1>3, <2>3 DEF SenderOK, frame
<1>5. Source = encoded /\ Source' = encoded \cup {frame}
  BY <1>1 DEF Source
<1>6. UNCHANGED << latest, active, received, staging, groups >>
  BY DEF SendFrame, vars, frameVars
<1>7. ASSUME NEW g \in encoded, g.seq = frame.seq, g.size = frame.size, SameFrame(frame, g)
      PROVE  g = frame
  <2>1. PICK p \in 1 .. 2, n \in 1 .. LastNew : \E s \in SizesOf(n) : g = Encoded(p, n, s)
    BY <1>2, EncodedFrames
  <2>2. PICK s \in SizesOf(n) : g = Encoded(p, n, s)
    BY <2>1
  <2>3. s = size /\ << p, n >> = << process, seq + 1 >>
    BY <1>7, <2>2 DEF Encoded, SameFrame
  <2> QED
    BY <2>2, <2>3
<1> HIDE DEF frame
<1>8. ASSUME NEW f \in Source', Lone(f)'
      PROVE  Staged(f, {f.size})' /\ Shown(f, {f.size})'
  <2>1. ASSUME f \in encoded PROVE Staged(f, {f.size}) /\ Shown(f, {f.size})
    <3>1. Lone(f)
      BY <1>5, <1>8 DEF Lone
    <3> QED
      BY <1>5, <2>1, <3>1 DEF SourceInv, ComesFromSource
  <2>2. ASSUME f \notin encoded PROVE Staged(f, {f.size}) /\ Shown(f, {f.size})
    <3>1. f = frame
      BY <1>5, <2>2
    <3>2. \A g \in encoded : ~(g.seq = f.seq /\ g.size = f.size)
      BY <1>5, <1>7, <1>8, <2>2, <3>1 DEF Lone
    <3> QED
      BY <1>5, <3>2 DEF SourceInv, ComesFromSource, Staged, Shown
  <2> QED
    BY <1>6, <2>1, <2>2 DEF Staged, Shown, HoldsOf
<1>9. ComesFromSource'
  <2>1. /\ active.valid => \E f \in Source' : f.seq = active.seq /\ f.size = active.size
        /\ latest.size # 0 => \E f \in Source' : f.seq = latest.seq /\ f.size = latest.size
    BY <1>5 DEF SourceInv, ComesFromSource
  <2> QED
    BY <1>6, <1>8, <2>1 DEF ComesFromSource
<1>10. GroupedAsSent'
  BY DEF GroupedAsSent
<1> QED
  BY <1>4, <1>9, <1>10

(* What the environment does at the restarted sender is a step of the      *)
(* receiver, or leaves it alone.                                           *)
LEMMA PartsIsNext ==
  SendersAssumption /\ SenderOK /\ [PartsNext]_<< traffic, restartVars >> => [Next]_vars
<1> SUFFICES ASSUME SendersAssumption, SenderOK, [PartsNext]_<< traffic, restartVars >>
             PROVE  [Next]_vars
  OBVIOUS
<1>1. CASE UNCHANGED << traffic, restartVars >>
  BY <1>1 DEF restartVars
<1>2. CASE Arrive
  <2>1. traffic \in {"once", "regrouped", "maps"}
    BY <1>2 DEF Arrive, SenderOK
  <2>2. Arriving \subseteq Datagrams
    BY <2>1 DEF Arriving, SendersAssumption
  <2> QED
    BY <1>2, <2>2 DEF Arrive, Next
<1>3. CASE traffic = "restart" /\ RestartNext
  <2>1. CASE Deliver
    <3>1. Head(network) \in DatagramsOf(encoded)
      BY <2>1, HeadTailProperties DEF Deliver, SenderOK
    <3>2. Head(network) \in Datagrams
      BY <3>1 DEF SenderOK, DatagramsOf, Restarted, SendersAssumption
    <3> QED
      BY <2>1, <3>2 DEF Deliver, Next
  <2>2. CASE EnableRetry
    BY <2>2 DEF EnableRetry, Next
  <2> QED
    BY <1>3, <2>1, <2>2 DEF RestartNext, SendFrame, Restart, Lose, BecomeCalm
<1> QED
  BY <1>1, <1>2, <1>3 DEF PartsNext

(* Every step of every part keeps the relation to the source.              *)
LEMMA PartsKeep ==
  SendersAssumption /\ SourceInv /\ [PartsNext]_<< traffic, restartVars >> => SourceInv'
<1> SUFFICES ASSUME SendersAssumption, SourceInv, [PartsNext]_<< traffic, restartVars >>
             PROVE  SourceInv'
  OBVIOUS
<1>1. IInv' /\ RepairInv'
  BY PartsIsNext, NextIInv, NextRepair DEF SourceInv
<1>2. SUFFICES SenderOK' /\ ComesFromSource' /\ GroupedAsSent'
  BY <1>1 DEF SourceInv
<1>3. ASSUME UNCHANGED << traffic, senderVars >> PROVE SenderOK'
  BY <1>3 DEF SourceInv, SenderOK, senderVars, DatagramsOf
<1>4. ASSUME UNCHANGED << traffic, encoded, latest, frameVars >>
      PROVE  ComesFromSource' /\ GroupedAsSent'
  BY <1>4, SourceStays DEF SourceInv
<1>5. CASE UNCHANGED << traffic, restartVars >>
  BY <1>3, <1>4, <1>5 DEF restartVars, senderVars, vars
<1>6. CASE Arrive
  <2>1. UNCHANGED << traffic, senderVars, encoded >>
    BY <1>6 DEF Arrive, senderVars
  <2>2. CASE \E enabled \in BOOLEAN : SetKeyframeRetryEnabled(enabled)
    BY <1>3, <1>4, <2>1, <2>2 DEF SetKeyframeRetryEnabled
  <2>3. ASSUME NEW d \in Arriving, PushDatagram(d) PROVE ComesFromSource' /\ GroupedAsSent'
    <3>1. traffic \in {"once", "regrouped", "maps"}
      BY <1>6 DEF Arrive, SourceInv, SenderOK
    <3>2. d \in Datagrams
      BY <2>3, <3>1 DEF Arriving, SendersAssumption
    <3>3. d \in DatagramsOf(Source) \/ d \in Control \/ d \in Maps
      BY <2>3, <3>1 DEF Arriving, OnceEach, Regrouped, WithMaps, Source
    <3>4. IsSent(d)
      <4>1. d \in Control \/ d \in Maps => ~IsVideo(d)
        BY DEF Control, SendersAssumption, IsVideo
      <4> QED
        BY <3>3, <4>1 DEF DatagramsOf, IsSent
    <3> QED
      BY <2>1, <2>3, <3>2, <3>4, ArrivalComesFromSource, ArrivalIsGrouped
  <2> QED
    BY <1>3, <1>6, <2>1, <2>2, <2>3 DEF Arrive
<1>7. CASE traffic = "restart" /\ RestartNext /\ UNCHANGED traffic
  <2>1. CASE SendFrame
    BY <1>7, <2>1, SendKeepsSource
  <2>2. ASSUME UNCHANGED encoded, process' \in 1 .. 2, seq' \in Nat,
               network' = network \/ (network # << >> /\ network' = Tail(network))
        PROVE  SenderOK'
    <3>1. network' \in Seq(DatagramsOf(encoded))
      BY <2>2, HeadTailProperties DEF SourceInv, SenderOK
    <3> QED
      BY <1>7, <2>2, <3>1 DEF SourceInv, SenderOK, DatagramsOf
  <2>3. CASE Deliver
    <3>1. /\ UNCHANGED << process, seq, encoded >> /\ network # << >> /\ network' = Tail(network)
          /\ PushDatagram(Head(network))
      BY <2>3 DEF Deliver
    <3>2. Head(network) \in DatagramsOf(encoded)
      BY <3>1, HeadTailProperties DEF SourceInv, SenderOK
    <3>3. Source = encoded
      BY <1>7 DEF Source
    <3>4. IsSent(Head(network))
      BY <3>2, <3>3 DEF IsSent, DatagramsOf
    <3>5. Head(network) \in Datagrams
      BY <3>2, <3>3, SourceIsSendable DEF DatagramsOf, SourceInv
    <3> QED
      BY <1>7, <2>2, <3>1, <3>4, <3>5, ArrivalComesFromSource, ArrivalIsGrouped
      DEF SourceInv, SenderOK
  <2>4. CASE EnableRetry
    BY <1>3, <1>4, <1>7, <2>4 DEF EnableRetry, SetKeyframeRetryEnabled, senderVars
  <2>5. CASE Restart \/ Lose \/ BecomeCalm
    <3>1. UNCHANGED << traffic, encoded, latest, frameVars >>
      BY <1>7, <2>5 DEF Restart, Lose, BecomeCalm, vars
    <3>2. /\ process' \in 1 .. 2 /\ seq' \in Nat
          /\ network' = network \/ (network # << >> /\ network' = Tail(network))
      <4>1. process \in 1 .. 2 /\ seq \in Nat
        BY DEF SourceInv, SenderOK
      <4>2. CASE Restart
        BY <4>2 DEF Restart
      <4>3. CASE Lose
        BY <4>1, <4>3 DEF Lose
      <4>4. CASE BecomeCalm
        BY <4>1, <4>4 DEF BecomeCalm
      <4> QED
        BY <2>5, <4>2, <4>3, <4>4
    <3> QED
      BY <1>4, <2>2, <3>1, <3>2
  <2> QED
    BY <1>7, <2>1, <2>3, <2>4, <2>5 DEF RestartNext
<1> QED
  BY <1>5, <1>6, <1>7 DEF PartsNext

(* At the start nothing has been sent.                                     *)
LEMMA PartsStart == SendersAssumption /\ PartsInit => SourceInv
<1> SUFFICES ASSUME SendersAssumption, PartsInit PROVE SourceInv
  OBVIOUS
<1>1. Init /\ SenderInit /\ traffic \in {"once", "regrouped", "maps", "restart"}
  BY DEF PartsInit
<1>2. IInv /\ RepairInv
  BY <1>1, InitIInv, InitRepair
<1>3. SenderOK
  <2>1. process = 1 /\ seq = 0 /\ network = << >> /\ encoded = {}
    BY <1>1 DEF SenderInit
  <2>2. << >> \in Seq(DatagramsOf(encoded))
    OBVIOUS
  <2>3. network \in Seq(DatagramsOf(encoded)) /\ encoded \subseteq AllFrames
    BY <2>1, <2>2
  <2>4. process \in 1 .. 2 /\ seq \in Nat
    BY <2>1
  <2> QED
    BY <1>1, <2>3, <2>4 DEF SenderOK
<1>4. ComesFromSource /\ GroupedAsSent
  BY <1>1 DEF Init, NoFrame, Idle, NoGroups, Unbound, ComesFromSource, GroupedAsSent, Staged, Shown
<1> QED
  BY <1>2, <1>3, <1>4 DEF SourceInv

(* The groups of one grouping are apart, so nothing is left to repair.     *)
LEMMA OneGroupingIsRepaired ==
  ASSUME SendersAssumption, SourceInv, traffic = "once"
  PROVE  NothingLeftToRecover
<1> SUFFICES ASSUME NEW g \in GroupIds, Recoverable(groups[g], received) PROVE FALSE
  BY DEF NothingLeftToRecover
<1>1. groups[g].known
  BY DEF Recoverable
<1>2. PICK h \in GroupIds :
        /\ h # g /\ groups[h].known
        /\ Members(groups[g]) \cap Members(groups[h]) # {}
  BY DEF SourceInv, RepairInv, RepairsAreMade
<1>3. PICK f \in SentOnce :
        /\ f.seq = active.seq /\ g \in Groups(f)
        /\ groups[g].base = GroupBase(f)[g] /\ groups[g].size = GroupSize(f, groups[g].base)
  BY <1>1 DEF SourceInv, GroupedAsSent
<1>4. PICK e \in SentOnce :
        /\ e.seq = active.seq /\ h \in Groups(e)
        /\ groups[h].base = GroupBase(e)[h] /\ groups[h].size = GroupSize(e, groups[h].base)
  BY <1>2 DEF SourceInv, GroupedAsSent
<1>5. e = f /\ HandedOver(f)
  BY <1>3, <1>4 DEF SendersAssumption
<1>6. \/ groups[g].base + groups[g].size <= groups[h].base
      \/ groups[h].base + groups[h].size <= groups[g].base
  <2>1. g \in Groups(f) /\ h \in Groups(f)
    BY <1>3, <1>4, <1>5
  <2>2. g \in Nat /\ h \in Nat
    BY <1>5, <2>1, GroupFacts
  <2>3. g < h \/ h < g
    BY <1>2, <2>2
  <2>4. /\ g < h => GroupBase(f)[g] + GroupSize(f, GroupBase(f)[g]) <= GroupBase(f)[h]
        /\ h < g => GroupBase(f)[h] + GroupSize(f, GroupBase(f)[h]) <= GroupBase(f)[g]
    BY <1>5, <2>1, GroupsApart
  <2> QED
    BY <1>3, <1>4, <1>5, <2>3, <2>4
<1>7. \A i \in GroupIds : groups[i].base \in Nat /\ groups[i].size \in Nat
  BY DEF SourceInv, IInv, TypeOK, GroupState
<1>8. PICK c : c \in Members(groups[g]) /\ c \in Members(groups[h])
  BY <1>2
<1>9. /\ groups[g].base \in Nat /\ groups[g].size \in Nat
      /\ groups[h].base \in Nat /\ groups[h].size \in Nat
  BY <1>2, <1>7
<1>10. /\ groups[g].base <= c /\ c <= groups[g].base + groups[g].size - 1
       /\ groups[h].base <= c /\ c <= groups[h].base + groups[h].size - 1
       /\ c \in Int
  BY <1>8, <1>9 DEF Members
<1> QED
  BY <1>6, <1>9, <1>10

(* What is shown of a frame that is alone is the frame.                    *)
LEMMA SourceIsShown ==
  ASSUME SendersAssumption, SourceInv
  PROVE  IF traffic = "restart" THEN OneProcessIsShown ELSE PublishedAsSent
<1> SUFFICES ASSUME latest.size # 0
             PROVE  IF traffic = "restart" THEN OneProcessIsShown ELSE PublishedAsSent
  BY DEF OneProcessIsShown, PublishedAsSent
<1>1. PICK f \in Source : f.seq = latest.seq /\ f.size = latest.size
  BY DEF SourceInv, ComesFromSource
<1>2. Lone(f) =>
        /\ latest.keyframe = f.keyframe
        /\ latest.data = [c \in 0 .. ChunkCount(f.size) - 1 |-> ChunkBytes(f, c)]
  BY <1>1 DEF SourceInv, ComesFromSource, Shown
<1>3. CASE traffic = "restart"
  <2>1. Source = encoded /\ encoded \subseteq AllFrames
    BY <1>3 DEF Source, SourceInv, SenderOK
  <2>2. CASE Lone(f)
    BY <1>1, <1>2, <1>3, <2>1, <2>2 DEF OneProcessIsShown, OnShow
  <2>3. CASE ~Lone(f)
    <3>1. PICK g \in encoded : g.seq = f.seq /\ g.size = f.size /\ ~SameFrame(f, g)
      BY <2>1, <2>3 DEF Lone
    <3>2. ASSUME NEW e \in AllFrames PROVE e.keyframe = IsKey(e.seq)
      <4>1. PICK p \in 1 .. 2, n \in 1 .. LastNew : \E s \in SizesOf(n) : e = Encoded(p, n, s)
        BY <3>2, EncodedFrames
      <4> QED
        BY <4>1 DEF Encoded
    <3>3. f.content # g.content
      BY <1>1, <2>1, <3>1, <3>2 DEF SameFrame
    <3> QED
      BY <1>1, <1>3, <2>1, <3>1, <3>3 DEF OneProcessIsShown
  <2> QED
    BY <2>2, <2>3
<1>4. CASE traffic # "restart"
  <2>1. Lone(f) /\ HandedOver(f) /\ FrameDatagrams(f) \subseteq Datagrams
    BY <1>4, OneRunIsLone, SourceIsSendable DEF SourceInv
  <2>2. ASSUME NEW c \in DOMAIN latest.data
        PROVE  \E d \in Datagrams :
                 /\ d.type = "SLICE" /\ d.seq = latest.seq /\ d.size = latest.size
                 /\ d.chunk = c /\ d.payload = latest.data[c]
    <3>1. c \in 0 .. ChunkCount(f.size) - 1 /\ latest.data[c] = ChunkBytes(f, c)
      BY <1>2, <2>1
    <3> QED
      BY <1>1, <2>1, <3>1, EveryChunkIsSent
  <2> QED
    BY <1>4, <2>2 DEF PublishedAsSent
<1> QED
  BY <1>3, <1>4

(* For all frames a sender may send, in every order in which they arrive,  *)
(* with losses, repetitions and a restart of the sender: what can be       *)
(* repaired is, and what is shown was sent.                                *)
THEOREM RepairsRight == SendersAssumption => (PartsSpec => []RepairedAsSent)
<1> SUFFICES ASSUME SendersAssumption PROVE PartsSpec => []RepairedAsSent
  OBVIOUS
<1>1. PartsInit => SourceInv
  BY PartsStart
<1>2. SourceInv /\ [PartsNext]_<< traffic, restartVars >> => SourceInv'
  BY PartsKeep
<1>3. SourceInv => RepairedAsSent
  BY OneGroupingIsRepaired, SourceIsShown DEF RepairedAsSent, SourceInv, RepairInv
<1> QED
  BY <1>1, <1>2, <1>3, PTL DEF PartsSpec
=============================================================================

-------------------------- MODULE ProofPoolProofs --------------------------
(***************************************************************************)
(* Theorems about every snark that can be made with the circuits, for      *)
(* every depth, key, root and set of proved claims, whatever is proved and *)
(* joined, in whatever order.                                              *)
(***************************************************************************)
EXTENDS ProofPool, DataLemmas

SnarkOK(s) == SnarkTyped(s) /\ Witnessed(s) /\ InOrder(s)

\* What the slots of a circuit number.
LEMMA Capacities ==
    \A d \in INITIAL_DEPTH .. MAX_DEPTH :
        /\ d \in 0 .. 31 /\ Capacity(d) = 2 ^ d /\ Capacity(d) \in Nat \ {0}
        /\ d > INITIAL_DEPTH => Capacity(d) = 2 * Capacity(d - 1)
  <1> SUFFICES ASSUME NEW d \in INITIAL_DEPTH .. MAX_DEPTH
               PROVE  /\ d \in 0 .. 31
                      /\ Capacity(d) = 2 ^ d /\ Capacity(d) \in Nat \ {0}
                      /\ d > INITIAL_DEPTH => Capacity(d) = 2 * Capacity(d - 1)
    OBVIOUS
  <1>1. d \in 0 .. 31
    BY CircuitAssumption
  <1>2. Capacity(d) = 2 ^ d /\ 2 ^ d \in Nat \ {0}
    <2>1. d \in 0 .. 32
      BY <1>1
    <2>2. Doubles(d)
      BY <2>1, Powers
    <2>3. QED
      BY <2>2 DEF Doubles, Capacity
  <1>3. ASSUME d > INITIAL_DEPTH PROVE Capacity(d) = 2 * Capacity(d - 1)
    <2>1. d - 1 \in 0 .. 32 /\ (d - 1) + 1 = d
      BY <1>1, <1>3, CircuitAssumption
    <2>2. Doubles(d - 1)
      BY <2>1, Powers
    <2>3. QED
      BY <2>1, <2>2 DEF Doubles, Capacity
  <1>4. QED
    BY <1>1, <1>2, <1>3

LEMMA InitialCapacity == Capacity(INITIAL_DEPTH) \in Nat \ {0}
  BY CircuitAssumption, Capacities

LEMMA LeafOK ==
  ASSUME NEW in \in LeafInputs, LeafAccepts(in)
  PROVE  SnarkOK(LeafSnark(in))
  <1> DEFINE s == LeafSnark(in)
  <1>1. /\ in.vk \in VKeys /\ in.root \in Roots
        /\ in.start \in Nat /\ in.end \in Nat /\ in.slots \in Seq(Claims)
    BY PoolAssumption DEF LeafInput
  <1>2. /\ s.depth = INITIAL_DEPTH /\ s.start = in.start /\ s.end = in.end
        /\ s.vk = in.vk /\ s.root = in.root /\ s.slots = in.slots
        /\ s.committed = [p \in in.start .. in.end - 1 |->
                             in.slots[p - in.start + 1]]
    BY DEF LeafSnark
  <1> HIDE DEF s
  <1>3. SnarkTyped(s)
    <2>1. s.depth \in INITIAL_DEPTH .. MAX_DEPTH
      BY <1>2, CircuitAssumption
    <2>2. Count(s) \in 1 .. Capacity(s.depth)
      BY <1>1, <1>2, InitialCapacity DEF LeafAccepts, Count
    <2>3. QED
      BY <1>1, <1>2, <2>1, <2>2 DEF SnarkTyped, LeafAccepts
  <1>4. Witnessed(s)
    BY <1>2 DEF Witnessed, LeafAccepts
  <1>5. InOrder(s)
    <2>1. ASSUME NEW k \in 1 .. Count(s)
          PROVE  s.slots[k] = s.committed[s.start + k - 1]
      <3>1. /\ k \in Int /\ in.start + k - 1 \in in.start .. in.end - 1
            /\ (in.start + k - 1) - in.start + 1 = k
        BY <1>1, <1>2 DEF Count
      <3>2. QED
        BY <1>2, <3>1
    <2>2. QED
      BY <1>2, <2>1 DEF InOrder
  <1>6. QED
    BY <1>3, <1>4, <1>5 DEF SnarkOK, s

\* What a join adds up to, as plain arithmetic.
LEMMA JoinNumbers ==
  ASSUME NEW left, NEW right, NEW n \in Nat,
         SnarkTyped(left), SnarkTyped(right), JoinAccepts(left, right, n)
  PROVE  /\ left.depth + 1 \in INITIAL_DEPTH .. MAX_DEPTH
         /\ Capacity(left.depth) \in Nat \ {0}
         /\ Capacity(left.depth + 1) = Capacity(left.depth) + Capacity(left.depth)
         /\ JoinedEnd(left, right, n) \in Nat
         /\ JoinedEnd(left, right, n) - left.start \in 1 .. Capacity(left.depth + 1)
  <1> DEFINE d == left.depth
             capacity == Capacity(d)
  <1>1. /\ d \in INITIAL_DEPTH .. MAX_DEPTH /\ d < MAX_DEPTH
        /\ INITIAL_DEPTH \in Nat /\ MAX_DEPTH \in Nat
    BY CircuitAssumption DEF SnarkTyped, JoinAccepts
  <1>2. d + 1 \in INITIAL_DEPTH .. MAX_DEPTH /\ d + 1 > INITIAL_DEPTH
        /\ (d + 1) - 1 = d
    BY <1>1
  <1>3. capacity \in Nat \ {0}
    BY <1>1, Capacities
  <1>4. Capacity(d + 1) = 2 * capacity
    BY <1>2, Capacities
  <1>5. /\ left.start \in Nat /\ left.end \in Nat /\ right.start \in Nat
        /\ right.end \in Nat
        /\ left.end - left.start \in 1 .. capacity
        /\ right.end - right.start \in 0 .. capacity
    BY DEF SnarkTyped, JoinAccepts, Count
  <1>6. JoinedEnd(left, right, n) \in {left.end, right.end}
    BY DEF JoinedEnd
  <1>7. CASE IsSecondDummy(left, n)
    <2>1. JoinedEnd(left, right, n) = left.end
      BY <1>7 DEF JoinedEnd
    <2>2. QED
      BY <1>2, <1>3, <1>4, <1>5, <2>1
  <1>8. CASE ~IsSecondDummy(left, n)
    <2>1. /\ JoinedEnd(left, right, n) = right.end
          /\ left.end = right.start /\ left.end - left.start = capacity
      BY <1>8 DEF JoinedEnd, JoinAccepts, Count
    <2>2. QED
      BY <1>2, <1>3, <1>4, <1>5, <2>1
  <1>9. QED
    BY <1>7, <1>8

LEMMA JoinOK ==
  ASSUME NEW left, NEW right, NEW n \in Nat,
         SnarkOK(left), SnarkOK(right), JoinAccepts(left, right, n)
  PROVE  SnarkOK(JoinSnark(left, right, n))
  <1> DEFINE s == JoinSnark(left, right, n)
             c == Capacity(left.depth)
             both == left.slots \o right.slots
  <1>1. SnarkTyped(left) /\ SnarkTyped(right)
    BY DEF SnarkOK
  <1>2. /\ left.depth + 1 \in INITIAL_DEPTH .. MAX_DEPTH
        /\ c \in Nat \ {0} /\ Capacity(left.depth + 1) = c + c
        /\ JoinedEnd(left, right, n) \in Nat
        /\ JoinedEnd(left, right, n) - left.start \in 1 .. Capacity(left.depth + 1)
    BY <1>1, JoinNumbers
  <1>3. /\ s.depth = left.depth + 1 /\ s.start = left.start
        /\ s.end = JoinedEnd(left, right, n)
        /\ s.vk = left.vk /\ s.root = left.root /\ s.slots = both
    BY DEF JoinSnark
  <1>4. s.committed =
          IF IsSecondDummy(left, n) THEN left.committed
          ELSE [p \in DOMAIN left.committed \cup DOMAIN right.committed |->
                   IF p \in DOMAIN left.committed THEN left.committed[p]
                   ELSE right.committed[p]]
    BY DEF JoinSnark
  <1>5. /\ left.slots \in Seq(Claims) /\ Len(left.slots) = c
        /\ right.slots \in Seq(Claims) /\ Len(right.slots) = c
    BY <1>1 DEF SnarkTyped, JoinAccepts
  <1>6. both \in Seq(Claims) /\ Joined(left.slots, right.slots, c, c)
    BY <1>2, <1>5, ConcatJoins, Zenon
  <1>7. /\ Len(both) = c + c
        /\ \A k \in 1 .. c : both[k] = left.slots[k]
        /\ \A k \in 1 .. c : both[c + k] = right.slots[k]
    BY <1>6 DEF Joined
  <1> HIDE DEF s, both, c
  <1>8. SnarkTyped(s)
    <2>1. s.start \in Nat /\ s.vk \in VKeys /\ s.root \in Roots
      BY <1>1, <1>3 DEF SnarkTyped
    <2>2. Count(s) \in 1 .. Capacity(s.depth)
      BY <1>2, <1>3 DEF Count
    <2>3. QED
      BY <1>2, <1>3, <1>6, <1>7, <2>1, <2>2 DEF SnarkTyped
  <1>9. Witnessed(s)
    <2>1. left.vk = right.vk /\ left.root = right.root
      BY DEF JoinAccepts
    <2>2. ASSUME NEW k \in 1 .. c + c
          PROVE  both[k] \in Proven[<<left.vk, left.root>>]
      <3>1. CASE k <= c
        <4>1. k \in 1 .. c /\ k \in DOMAIN left.slots
          BY <1>2, <1>5, <3>1
        <4>2. QED
          BY <1>7, <4>1 DEF SnarkOK, Witnessed
      <3>2. CASE ~(k <= c)
        <4>1. k - c \in 1 .. c /\ c + (k - c) = k
          BY <1>2, <3>2
        <4>2. k - c \in DOMAIN right.slots
          BY <1>5, <4>1
        <4>3. both[k] = right.slots[k - c]
          BY <1>7, <4>1
        <4>4. QED
          BY <2>1, <4>2, <4>3 DEF SnarkOK, Witnessed
      <3>3. QED
        BY <3>1, <3>2
    <2>3. DOMAIN both = 1 .. c + c
      BY <1>6, <1>7
    <2>4. QED
      BY <1>3, <2>2, <2>3 DEF Witnessed
  <1>10. InOrder(s)
    <2>1. /\ DOMAIN left.committed = left.start .. left.end - 1
          /\ \A k \in 1 .. Count(left) :
                left.slots[k] = left.committed[left.start + k - 1]
      BY DEF SnarkOK, InOrder
    <2>2. /\ DOMAIN right.committed = right.start .. right.end - 1
          /\ \A k \in 1 .. Count(right) :
                right.slots[k] = right.committed[right.start + k - 1]
      BY DEF SnarkOK, InOrder
    <2>3. /\ left.start \in Nat /\ left.end \in Nat /\ right.start \in Nat
          /\ right.end \in Nat
          /\ left.end - left.start \in 1 .. c
          /\ right.end - right.start \in 1 .. c
      BY <1>1 DEF SnarkTyped, Count, JoinAccepts, c
    <2>4. CASE IsSecondDummy(left, n)
      <3>1. s.end = left.end /\ s.committed = left.committed
        BY <1>3, <1>4, <2>4 DEF JoinedEnd
      <3>2. ASSUME NEW k \in 1 .. Count(s)
            PROVE  s.slots[k] = s.committed[s.start + k - 1]
        <4>1. k \in 1 .. Count(left) /\ k \in 1 .. c
          BY <1>2, <1>3, <2>3, <3>1 DEF Count
        <4>2. QED
          BY <1>3, <1>7, <2>1, <3>1, <4>1
      <3>3. QED
        BY <1>3, <2>1, <3>1, <3>2 DEF InOrder
    <2>5. CASE ~IsSecondDummy(left, n)
      <3>1. /\ s.end = right.end /\ left.end = right.start
            /\ left.end - left.start = c
        BY <1>3, <2>5 DEF JoinedEnd, JoinAccepts, Count, c
      <3>2. /\ DOMAIN s.committed = DOMAIN left.committed \cup DOMAIN right.committed
            /\ \A p \in DOMAIN left.committed : s.committed[p] = left.committed[p]
            /\ \A p \in DOMAIN right.committed \ DOMAIN left.committed :
                  s.committed[p] = right.committed[p]
        BY <1>4, <2>5
      <3>3. DOMAIN s.committed = s.start .. s.end - 1
        <4>1. \A p \in Int : p \in left.start .. right.end - 1 <=>
                 p \in left.start .. left.end - 1 \/ p \in right.start .. right.end - 1
          BY <2>3, <3>1
        <4>2. QED
          BY <1>3, <2>1, <2>2, <2>3, <3>1, <3>2, <4>1
      <3>4. ASSUME NEW k \in 1 .. Count(s)
            PROVE  s.slots[k] = s.committed[s.start + k - 1]
        <4>1. k \in Nat /\ k >= 1 /\ left.start + k - 1 < right.end
          BY <1>3, <2>3, <3>1 DEF Count
        <4>2. CASE k <= c
          <5>1. /\ k \in 1 .. Count(left) /\ k \in 1 .. c
                /\ left.start + k - 1 \in left.start .. left.end - 1
            BY <2>3, <3>1, <4>1, <4>2 DEF Count
          <5>2. s.committed[left.start + k - 1] = left.committed[left.start + k - 1]
            BY <2>1, <3>2, <5>1
          <5>3. QED
            BY <1>3, <1>7, <2>1, <5>1, <5>2
        <4>3. CASE ~(k <= c)
          <5>1. /\ k - c \in 1 .. c /\ k - c \in 1 .. Count(right)
                /\ c + (k - c) = k
                /\ left.start + k - 1 = right.start + (k - c) - 1
                /\ left.start + k - 1 \in right.start .. right.end - 1
                /\ left.start + k - 1 \notin left.start .. left.end - 1
            BY <1>2, <2>3, <3>1, <4>1, <4>3 DEF Count
          <5>2. s.committed[left.start + k - 1] = right.committed[left.start + k - 1]
            BY <2>1, <2>2, <3>2, <5>1
          <5>3. right.slots[k - c] = right.committed[right.start + (k - c) - 1]
            BY <2>2, <5>1
          <5>4. both[k] = right.slots[k - c]
            BY <1>7, <5>1
          <5>5. QED
            BY <1>3, <5>1, <5>2, <5>3, <5>4
        <4>4. QED
          BY <4>2, <4>3
      <3>5. QED
        BY <3>3, <3>4 DEF InOrder
    <2>6. QED
      BY <2>4, <2>5
  <1>11. QED
    BY <1>8, <1>9, <1>10 DEF SnarkOK, s

-----------------------------------------------------------------------------
(* The tree of a snark's claims.                                           *)

\* A level of a tree, as a sequence of n nodes.
IsRow(nodes, n) == Len(nodes) = n /\ DOMAIN nodes = 1 .. n

LayersTo(f, leaves, n) ==
    f = [d \in 1 .. n + 1 |-> IF d = 1 THEN leaves ELSE Level(f[d - 1])]

\* The layers of a tree can be built one above the other, as far as one likes.
LEMMA LayersExist ==
  ASSUME NEW leaves, NEW n \in Nat
  PROVE  \E f : LayersTo(f, leaves, n)
  <1> DEFINE S == {m \in 0 .. n : \E f : LayersTo(f, leaves, m)}
  <1>1. 0 \in S
    <2>1. LayersTo([d \in 1 .. 0 + 1 |-> leaves], leaves, 0)
      BY DEF LayersTo
    <2>2. QED
      BY <2>1
  <1>2. ASSUME NEW m \in 0 .. n, m \in S, m # n PROVE m + 1 \in S
    <2>1. PICK f : LayersTo(f, leaves, m)
      BY <1>2
    <2> DEFINE g == [d \in 1 .. (m + 1) + 1 |->
                        IF d <= m + 1 THEN f[d] ELSE Level(f[m + 1])]
    <2>2. ASSUME NEW d \in 1 .. (m + 1) + 1
          PROVE  g[d] = IF d = 1 THEN leaves ELSE Level(g[d - 1])
      <3>1. CASE d = 1
        BY <2>1, <3>1 DEF LayersTo
      <3>2. CASE d \in 2 .. m + 1
        <4>1. /\ d \in 1 .. m + 1 /\ d - 1 \in 1 .. (m + 1) + 1
              /\ d - 1 <= m + 1 /\ d # 1
          BY <3>2
        <4>2. f[d] = Level(f[d - 1])
          BY <2>1, <4>1 DEF LayersTo
        <4>3. QED
          BY <3>2, <4>1, <4>2
      <3>3. CASE d = (m + 1) + 1
        BY <3>3
      <3>4. QED
        BY <3>1, <3>2, <3>3
    <2>3. LayersTo(g, leaves, m + 1)
      BY <2>2 DEF LayersTo
    <2>4. QED
      BY <1>2, <2>3
  <1>3. n \in S
    <2> HIDE DEF S
    <2>1. \A m \in 0 .. n : m \in S
      BY <1>1, <1>2, InductionTo
    <2>2. QED
      BY <2>1
  <1>4. QED
    BY <1>3

LEMMA LayersUnfold ==
  ASSUME NEW leaves, NEW n \in Nat
  PROVE  /\ Len(Layers(leaves, n)) = n + 1 /\ Layers(leaves, n)[1] = leaves
         /\ \A d \in 1 .. n : Layers(leaves, n)[d + 1] = Level(Layers(leaves, n)[d])
         /\ RootOf(Layers(leaves, n)) = Layers(leaves, n)[n + 1][1]
  <1>1. \E f : f = [d \in 1 .. n + 1 |-> IF d = 1 THEN leaves ELSE Level(f[d - 1])]
    <2>1. PICK f : LayersTo(f, leaves, n)
      BY LayersExist
    <2>2. QED
      BY <2>1, Zenon DEF LayersTo
  <1>2. Layers(leaves, n) =
          CHOOSE f : f = [d \in 1 .. n + 1 |->
                             IF d = 1 THEN leaves ELSE Level(f[d - 1])]
    BY Zenon DEF Layers
  <1>3. LayersTo(Layers(leaves, n), leaves, n)
    BY <1>1, <1>2, Zenon DEF LayersTo
  <1> DEFINE L == Layers(leaves, n)
  <1> HIDE DEF L
  <1>4. L = [d \in 1 .. n + 1 |-> IF d = 1 THEN leaves ELSE Level(L[d - 1])]
    BY <1>3 DEF LayersTo, L
  <1>5. L[1] = leaves
    BY <1>4
  <1>6. ASSUME NEW d \in 1 .. n PROVE L[d + 1] = Level(L[d])
    <2>1. d + 1 \in 1 .. n + 1 /\ d + 1 # 1 /\ (d + 1) - 1 = d
      OBVIOUS
    <2>2. QED
      BY <1>4, <2>1
  <1>7. Len(L) = n + 1
    <2>1. L = [k \in 1 .. n + 1 |-> L[k]]
      BY <1>4
    <2>2. QED
      BY <2>1, FunctionLength
  <1>8. QED
    BY <1>5, <1>6, <1>7 DEF L, RootOf

\* The row c is the row a of m nodes followed by the row b of as many.
Side(c, a, b, m) ==
    /\ IsRow(a, m) /\ IsRow(b, m) /\ IsRow(c, m + m)
    /\ \A k \in 1 .. m : c[k] = a[k]
    /\ \A k \in 1 .. m : c[m + k] = b[k]

LEMMA LevelOfRow ==
  ASSUME NEW nodes, NEW m \in Nat, IsRow(nodes, m + m)
  PROVE  /\ IsRow(Level(nodes), m)
         /\ \A k \in 1 .. m : Level(nodes)[k] = Node(nodes[2 * k - 1], nodes[2 * k])
  <1>1. (m + m) \div 2 = m
    OBVIOUS
  <1>2. Level(nodes) = [k \in 1 .. m |-> Node(nodes[2 * k - 1], nodes[2 * k])]
    BY <1>1 DEF Level, IsRow
  <1>3. Level(nodes) = [k \in 1 .. m |-> Level(nodes)[k]]
    BY <1>2
  <1>4. IsRow(Level(nodes), m)
    BY <1>3, FunctionLength DEF IsRow
  <1>5. QED
    BY <1>2, <1>4

\* The level over two rows side by side is the two levels side by side.
LEMMA SideUp ==
  ASSUME NEW c, NEW a, NEW b, NEW m \in Nat, Side(c, a, b, m + m)
  PROVE  Side(Level(c), Level(a), Level(b), m)
  <1>1. /\ IsRow(Level(a), m) /\ IsRow(Level(b), m) /\ IsRow(Level(c), m + m)
        /\ \A k \in 1 .. m : Level(a)[k] = Node(a[2 * k - 1], a[2 * k])
        /\ \A k \in 1 .. m : Level(b)[k] = Node(b[2 * k - 1], b[2 * k])
        /\ \A k \in 1 .. m + m : Level(c)[k] = Node(c[2 * k - 1], c[2 * k])
    <2>1. m + m \in Nat
      OBVIOUS
    <2>2. QED
      BY <2>1, LevelOfRow DEF Side
  <1>2. ASSUME NEW k \in 1 .. m PROVE Level(c)[k] = Level(a)[k]
    <2>1. k \in 1 .. m + m /\ 2 * k - 1 \in 1 .. m + m /\ 2 * k \in 1 .. m + m
      OBVIOUS
    <2>2. QED
      BY <1>1, <2>1 DEF Side
  <1>3. ASSUME NEW k \in 1 .. m PROVE Level(c)[m + k] = Level(b)[k]
    <2>1. /\ m + k \in 1 .. m + m
          /\ 2 * k - 1 \in 1 .. m + m /\ 2 * k \in 1 .. m + m
          /\ 2 * (m + k) - 1 = (m + m) + (2 * k - 1)
          /\ 2 * (m + k) = (m + m) + 2 * k
      OBVIOUS
    <2>2. /\ c[(m + m) + (2 * k - 1)] = b[2 * k - 1]
          /\ c[(m + m) + 2 * k] = b[2 * k]
      BY <2>1 DEF Side
    <2>3. QED
      BY <1>1, <2>1, <2>2
  <1>4. QED
    BY <1>1, <1>2, <1>3 DEF Side

UnderOneNode(c, a, b, d) ==
    RootOf(Layers(c, d + 1)) = Node(RootOf(Layers(a, d)), RootOf(Layers(b, d)))

\* The tree over two rows of 2^d leaves side by side is the two trees under one
\* more node.
LEMMA TreeJoin ==
  ASSUME NEW c, NEW a, NEW b, NEW d \in 0 .. 31, Side(c, a, b, 2 ^ d)
  PROVE  UnderOneNode(c, a, b, d)
  <1> DEFINE LC == Layers(c, d + 1)
             LA == Layers(a, d)
             LB == Layers(b, d)
             S == {h \in 0 .. d : Side(LC[h + 1], LA[h + 1], LB[h + 1], 2 ^ (d - h))}
  <1>1. /\ LC[1] = c /\ LA[1] = a /\ LB[1] = b
        /\ \A h \in 1 .. d + 1 : LC[h + 1] = Level(LC[h])
        /\ \A h \in 1 .. d : LA[h + 1] = Level(LA[h])
        /\ \A h \in 1 .. d : LB[h + 1] = Level(LB[h])
        /\ RootOf(LC) = LC[(d + 1) + 1][1]
        /\ RootOf(LA) = LA[d + 1][1] /\ RootOf(LB) = LB[d + 1][1]
    <2>1. d \in Nat /\ d + 1 \in Nat
      OBVIOUS
    <2>2. /\ LC[1] = c /\ RootOf(LC) = LC[(d + 1) + 1][1]
          /\ \A h \in 1 .. d + 1 : LC[h + 1] = Level(LC[h])
      BY <2>1, LayersUnfold
    <2>3. /\ LA[1] = a /\ RootOf(LA) = LA[d + 1][1]
          /\ \A h \in 1 .. d : LA[h + 1] = Level(LA[h])
      BY <2>1, LayersUnfold
    <2>4. /\ LB[1] = b /\ RootOf(LB) = LB[d + 1][1]
          /\ \A h \in 1 .. d : LB[h + 1] = Level(LB[h])
      BY <2>1, LayersUnfold
    <2> HIDE DEF LC, LA, LB
    <2>5. QED
      BY <2>2, <2>3, <2>4
  <1> HIDE DEF LC, LA, LB
  <1>2. 0 \in S
    <2>1. d - 0 = d /\ 0 + 1 = 1 /\ 0 \in 0 .. d
      OBVIOUS
    <2>2. QED
      BY <1>1, <2>1
  <1>3. ASSUME NEW h \in 0 .. d, h \in S, h # d PROVE h + 1 \in S
    <2> DEFINE m == 2 ^ (d - (h + 1))
    <2>1. d - (h + 1) \in 0 .. 32 /\ (d - (h + 1)) + 1 = d - h
      BY <1>3
    <2>2. Doubles(d - (h + 1))
      BY <2>1, Powers
    <2>3. m \in Nat /\ 2 ^ (d - h) = m + m
      BY <2>1, <2>2 DEF Doubles
    <2> HIDE DEF m
    <2>4. Side(LC[h + 1], LA[h + 1], LB[h + 1], m + m)
      BY <1>3, <2>3
    <2>5. Side(Level(LC[h + 1]), Level(LA[h + 1]), Level(LB[h + 1]), m)
      BY <2>3, <2>4, SideUp
    <2>6. h + 1 \in 0 .. d /\ h + 1 \in 1 .. d /\ h + 1 \in 1 .. d + 1
      BY <1>3
    <2>7. /\ LC[(h + 1) + 1] = Level(LC[h + 1]) /\ LA[(h + 1) + 1] = Level(LA[h + 1])
          /\ LB[(h + 1) + 1] = Level(LB[h + 1])
      BY <1>1, <2>6
    <2>8. Side(LC[(h + 1) + 1], LA[(h + 1) + 1], LB[(h + 1) + 1], m)
      BY <2>5, <2>7
    <2>9. QED
      BY <2>6, <2>8 DEF m
  <1>4. Side(LC[d + 1], LA[d + 1], LB[d + 1], 1)
    <2>1. \A h \in 0 .. d : h \in S
      <3> HIDE DEF S
      <3>1. QED
        BY <1>2, <1>3, InductionTo
    <2>2. d \in 0 .. d /\ d - d = 0 /\ 2 ^ 0 = 1
      OBVIOUS
    <2>3. Side(LC[d + 1], LA[d + 1], LB[d + 1], 2 ^ (d - d))
      BY <2>1, <2>2
    <2>4. QED
      BY <2>2, <2>3
  <1>5. LC[(d + 1) + 1] = Level(LC[d + 1])
    BY <1>1
  <1>6. Level(LC[d + 1])[1] = Node(LC[d + 1][1], LC[d + 1][2])
    <2>1. IsRow(LC[d + 1], 1 + 1)
      BY <1>4 DEF Side
    <2>2. 2 * 1 - 1 = 1 /\ 2 * 1 = 2 /\ 1 \in 1 .. 1
      OBVIOUS
    <2>3. QED
      BY <2>1, <2>2, LevelOfRow
  <1>7. LC[d + 1][1] = LA[d + 1][1] /\ LC[d + 1][2] = LB[d + 1][1]
    <2>1. 1 \in 1 .. 1 /\ 1 + 1 = 2
      OBVIOUS
    <2>2. QED
      BY <1>4, <2>1 DEF Side
  <1>8. QED
    BY <1>1, <1>5, <1>6, <1>7 DEF UnderOneNode, LC, LA, LB

DummiesTo(f, n) ==
    f = [d \in 0 .. n |-> IF d = 0 THEN Leaf(ZeroClaim) ELSE Node(f[d - 1], f[d - 1])]

LEMMA DummiesExist ==
  ASSUME NEW n \in Nat
  PROVE  \E f : DummiesTo(f, n)
  <1> DEFINE S == {m \in 0 .. n : \E f : DummiesTo(f, m)}
  <1>1. 0 \in S
    <2>1. DummiesTo([d \in 0 .. 0 |-> Leaf(ZeroClaim)], 0)
      BY DEF DummiesTo
    <2>2. QED
      BY <2>1
  <1>2. ASSUME NEW m \in 0 .. n, m \in S, m # n PROVE m + 1 \in S
    <2>1. PICK f : DummiesTo(f, m)
      BY <1>2
    <2> DEFINE g == [d \in 0 .. m + 1 |-> IF d <= m THEN f[d] ELSE Node(f[m], f[m])]
    <2>2. ASSUME NEW d \in 0 .. m + 1
          PROVE  g[d] = IF d = 0 THEN Leaf(ZeroClaim) ELSE Node(g[d - 1], g[d - 1])
      <3>1. CASE d = 0
        BY <2>1, <3>1 DEF DummiesTo
      <3>2. CASE d \in 1 .. m
        <4>1. d \in 0 .. m /\ d - 1 \in 0 .. m + 1 /\ d - 1 <= m /\ d # 0
          BY <3>2
        <4>2. f[d] = Node(f[d - 1], f[d - 1])
          BY <2>1, <4>1 DEF DummiesTo
        <4>3. QED
          BY <3>2, <4>1, <4>2
      <3>3. CASE d = m + 1
        BY <3>3
      <3>4. QED
        BY <3>1, <3>2, <3>3
    <2>3. DummiesTo(g, m + 1)
      BY <2>2 DEF DummiesTo
    <2>4. QED
      BY <1>2, <2>3
  <1>3. n \in S
    <2> HIDE DEF S
    <2>1. \A m \in 0 .. n : m \in S
      BY <1>1, <1>2, InductionTo
    <2>2. QED
      BY <2>1
  <1>4. QED
    BY <1>3

LEMMA DummiesUnfold ==
    /\ DummyClaimRoot[0] = Leaf(ZeroClaim)
    /\ \A d \in 0 .. MAX_DEPTH : d # MAX_DEPTH =>
          DummyClaimRoot[d + 1] = Node(DummyClaimRoot[d], DummyClaimRoot[d])
  <1>1. MAX_DEPTH \in Nat
    BY CircuitAssumption
  <1>2. \E f : f = [d \in 0 .. MAX_DEPTH |->
                       IF d = 0 THEN Leaf(ZeroClaim) ELSE Node(f[d - 1], f[d - 1])]
    <2>1. PICK f : DummiesTo(f, MAX_DEPTH)
      BY <1>1, DummiesExist
    <2>2. QED
      BY <2>1, Zenon DEF DummiesTo
  <1>3. DummyClaimRoot =
          CHOOSE f : f = [d \in 0 .. MAX_DEPTH |->
                             IF d = 0 THEN Leaf(ZeroClaim)
                             ELSE Node(f[d - 1], f[d - 1])]
    BY Zenon DEF DummyClaimRoot
  <1>4. DummiesTo(DummyClaimRoot, MAX_DEPTH)
    BY <1>2, <1>3, Zenon DEF DummiesTo
  <1> DEFINE D == DummyClaimRoot
  <1> HIDE DEF D
  <1>5. D = [d \in 0 .. MAX_DEPTH |->
                IF d = 0 THEN Leaf(ZeroClaim) ELSE Node(D[d - 1], D[d - 1])]
    BY <1>4 DEF DummiesTo, D
  <1>6. D[0] = Leaf(ZeroClaim)
    BY <1>1, <1>5
  <1>7. ASSUME NEW d \in 0 .. MAX_DEPTH, d # MAX_DEPTH
        PROVE  D[d + 1] = Node(D[d], D[d])
    <2>1. d + 1 \in 0 .. MAX_DEPTH /\ d + 1 # 0 /\ (d + 1) - 1 = d
      BY <1>1, <1>7
    <2>2. QED
      BY <1>5, <2>1
  <1>8. QED
    BY <1>6, <1>7 DEF D

Blank(n) == [k \in 1 .. n |-> Leaf(ZeroClaim)]

LEMMA BlankRow ==
  ASSUME NEW n \in Nat
  PROVE  IsRow(Blank(n), n) /\ \A k \in 1 .. n : Blank(n)[k] = Leaf(ZeroClaim)
  <1>1. Blank(n) = [k \in 1 .. n |-> Blank(n)[k]]
    BY DEF Blank
  <1>2. QED
    BY <1>1, FunctionLength DEF IsRow, Blank

\* The tree of a dummy has the root the code computes for its depth.
LEMMA DummyTree ==
    \A d \in 0 .. MAX_DEPTH : DummyClaimRoot[d] = RootOf(Layers(Blank(2 ^ d), d))
  <1> DEFINE S == {d \in 0 .. MAX_DEPTH :
                      DummyClaimRoot[d] = RootOf(Layers(Blank(2 ^ d), d))}
  <1>1. MAX_DEPTH \in Nat /\ MAX_DEPTH < 32
    BY CircuitAssumption
  <1>2. 0 \in S
    <2>1. 0 \in 0 .. MAX_DEPTH /\ 2 ^ 0 = 1 /\ 0 + 1 = 1 /\ 1 \in 1 .. 1
      BY <1>1
    <2>2. RootOf(Layers(Blank(1), 0)) = Blank(1)[1]
      BY <2>1, LayersUnfold
    <2>3. Blank(1)[1] = Leaf(ZeroClaim)
      BY <2>1, BlankRow
    <2>4. QED
      BY <2>1, <2>2, <2>3, DummiesUnfold
  <1>3. ASSUME NEW d \in 0 .. MAX_DEPTH, d \in S, d # MAX_DEPTH PROVE d + 1 \in S
    <2> DEFINE m == 2 ^ d
    <2>1. d \in 0 .. 31 /\ d \in 0 .. 32 /\ d + 1 \in 0 .. MAX_DEPTH
      BY <1>1, <1>3
    <2>2. Doubles(d)
      BY <2>1, Powers
    <2>3. m \in Nat /\ m = 2 ^ d /\ 2 ^ (d + 1) = m + m
      BY <2>1, <2>2 DEF Doubles
    <2> HIDE DEF m
    <2>4. Side(Blank(m + m), Blank(m), Blank(m), 2 ^ d)
      <3>1. m + m \in Nat
        BY <2>3
      <3>2. \A k \in 1 .. m : k \in 1 .. m + m /\ m + k \in 1 .. m + m
        BY <2>3
      <3>3. QED
        BY <2>3, <3>1, <3>2, BlankRow DEF Side
    <2>5. UnderOneNode(Blank(m + m), Blank(m), Blank(m), d)
      BY <2>1, <2>4, TreeJoin
    <2>6. DummyClaimRoot[d + 1] = Node(DummyClaimRoot[d], DummyClaimRoot[d])
      BY <1>3, DummiesUnfold
    <2>7. DummyClaimRoot[d] = RootOf(Layers(Blank(m), d))
      BY <1>3 DEF m
    <2>8. DummyClaimRoot[d + 1] = RootOf(Layers(Blank(2 ^ (d + 1)), d + 1))
      BY <2>3, <2>5, <2>6, <2>7 DEF UnderOneNode
    <2>9. QED
      BY <2>1, <2>8
  <1> HIDE DEF S
  <1>4. \A d \in 0 .. MAX_DEPTH : d \in S
    BY <1>1, <1>2, <1>3, InductionTo
  <1>5. QED
    BY <1>4 DEF S

LEMMA LeafTree == ASSUME NEW in PROVE ClaimsTree(LeafSnark(in))
  BY Zenon DEF LeafSnark, ClaimsTree, Count

\* Masked to a count, the slots of a tree make a row.
Row(s) == MaskedLeaves(s.slots, Count(s), ZeroClaim)

LEMMA MaskedRow ==
  ASSUME NEW s, SnarkTyped(s)
  PROVE  /\ IsRow(Row(s), Capacity(s.depth))
         /\ \A k \in 1 .. Capacity(s.depth) :
               Row(s)[k] = Leaf(IF k <= Count(s) THEN s.slots[k] ELSE ZeroClaim)
  <1>1. s.slots \in Seq(Claims) /\ Len(s.slots) = Capacity(s.depth)
    BY DEF SnarkTyped
  <1>2. DOMAIN s.slots = 1 .. Capacity(s.depth) /\ Capacity(s.depth) \in Nat
    BY <1>1, LenProperties
  <1>3. Row(s) = [k \in 1 .. Capacity(s.depth) |->
                     Leaf(IF k <= Count(s) THEN s.slots[k] ELSE ZeroClaim)]
    BY <1>2 DEF Row, MaskedLeaves
  <1>4. Row(s) = [k \in 1 .. Capacity(s.depth) |-> Row(s)[k]]
    BY <1>3
  <1>5. IsRow(Row(s), Capacity(s.depth))
    BY <1>2, <1>4, FunctionLength DEF IsRow
  <1>6. QED
    BY <1>3, <1>5

\* A join's tree is its two parts' trees under one more node, a dummy's being
\* the tree of masked leaves.
LEMMA JoinTree ==
  ASSUME NEW left, NEW right, NEW n \in Nat,
         SnarkOK(left), SnarkOK(right), ClaimsTree(left), ClaimsTree(right),
         JoinAccepts(left, right, n)
  PROVE  ClaimsTree(JoinSnark(left, right, n))
  <1> DEFINE s == JoinSnark(left, right, n)
             d == left.depth
             c == Capacity(d)
  <1>1. SnarkTyped(left) /\ SnarkTyped(right) /\ SnarkTyped(s)
    BY JoinOK DEF SnarkOK
  <1>2. /\ d \in INITIAL_DEPTH .. MAX_DEPTH /\ d \in 0 .. 31 /\ d \in 0 .. MAX_DEPTH
        /\ c = 2 ^ d /\ c \in Nat \ {0} /\ Capacity(d + 1) = c + c
    <2>1. d \in INITIAL_DEPTH .. MAX_DEPTH
      BY <1>1 DEF SnarkTyped
    <2>2. d \in 0 .. MAX_DEPTH
      BY <2>1, CircuitAssumption
    <2>3. QED
      BY <1>1, <2>1, <2>2, Capacities, JoinNumbers
  <1>3. /\ s.depth = d + 1 /\ s.start = left.start
        /\ s.end = JoinedEnd(left, right, n) /\ s.slots = left.slots \o right.slots
        /\ s.claimRoot = Node(left.claimRoot, RightClaimRoot(left, right, n))
    BY DEF JoinSnark
  <1>4. /\ left.slots \in Seq(Claims) /\ Len(left.slots) = c
        /\ right.slots \in Seq(Claims) /\ Len(right.slots) = c
        /\ right.depth = d
    BY <1>1 DEF SnarkTyped, JoinAccepts
  <1>5. /\ left.start \in Nat /\ left.end \in Nat /\ right.start \in Nat
        /\ right.end \in Nat
        /\ left.end - left.start \in 1 .. c /\ right.end - right.start \in 1 .. c
    BY <1>1, <1>4 DEF SnarkTyped, Count
  <1> HIDE DEF s, c, d
  <1>6. Joined(left.slots, right.slots, c, c)
    BY <1>2, <1>4, ConcatJoins
  <1>7. /\ \A k \in 1 .. c : s.slots[k] = left.slots[k]
        /\ \A k \in 1 .. c : s.slots[c + k] = right.slots[k]
    BY <1>3, <1>6 DEF Joined
  <1>8. /\ IsRow(Row(left), c) /\ IsRow(Row(right), c) /\ IsRow(Row(s), c + c)
        /\ \A k \in 1 .. c :
              Row(left)[k] = Leaf(IF k <= Count(left) THEN left.slots[k] ELSE ZeroClaim)
        /\ \A k \in 1 .. c :
              Row(right)[k] =
                Leaf(IF k <= Count(right) THEN right.slots[k] ELSE ZeroClaim)
        /\ \A k \in 1 .. c + c :
              Row(s)[k] = Leaf(IF k <= Count(s) THEN s.slots[k] ELSE ZeroClaim)
    BY <1>1, <1>2, <1>3, <1>4, MaskedRow DEF c, d
  <1>9. ASSUME NEW k \in 1 .. c PROVE k \in 1 .. c + c /\ c + k \in 1 .. c + c
    BY <1>2
  <1>10. CASE IsSecondDummy(left, n)
    <2>1. s.end = left.end /\ Count(s) = Count(left) /\ Count(s) \in 1 .. c
      BY <1>3, <1>5, <1>10 DEF JoinedEnd, Count
    <2>2. ASSUME NEW k \in 1 .. c PROVE Row(s)[k] = Row(left)[k]
      BY <1>7, <1>8, <1>9, <2>1
    <2>3. ASSUME NEW k \in 1 .. c PROVE Row(s)[c + k] = Blank(c)[k]
      <3>1. ~ (c + k <= Count(s))
        BY <1>2, <2>1
      <3>2. Blank(c)[k] = Leaf(ZeroClaim)
        BY <1>2, BlankRow
      <3>3. QED
        BY <1>8, <1>9, <3>1, <3>2
    <2>4. Side(Row(s), Row(left), Blank(c), 2 ^ d)
      BY <1>2, <1>8, <2>2, <2>3, BlankRow DEF Side
    <2>5. UnderOneNode(Row(s), Row(left), Blank(c), d)
      BY <1>2, <2>4, TreeJoin
    <2>6. RightClaimRoot(left, right, n) = RootOf(Layers(Blank(c), d))
      BY <1>2, <1>10, DummyTree DEF RightClaimRoot, d
    <2>7. left.claimRoot = RootOf(Layers(Row(left), d))
      BY DEF ClaimsTree, Row, d
    <2>8. QED
      BY <1>3, <2>5, <2>6, <2>7 DEF UnderOneNode, ClaimsTree, Row, s
  <1>11. CASE ~ IsSecondDummy(left, n)
    <2>1. /\ s.end = right.end /\ left.end = right.start /\ Count(left) = c
          /\ Count(s) = c + Count(right) /\ Count(right) \in 1 .. c
      <3>1. s.end = right.end
        BY <1>3, <1>11 DEF JoinedEnd
      <3>2. left.end = right.start /\ left.end - left.start = c
        BY <1>11 DEF JoinAccepts, Count, c, d
      <3>3. /\ Count(left) = left.end - left.start
            /\ Count(right) = right.end - right.start
            /\ Count(s) = right.end - left.start
        BY <1>3, <3>1 DEF Count
      <3>4. QED
        BY <1>2, <1>5, <3>1, <3>2, <3>3
    <2>2. ASSUME NEW k \in 1 .. c PROVE Row(s)[k] = Row(left)[k]
      <3>1. k <= Count(s) /\ k <= Count(left)
        BY <1>2, <2>1
      <3>2. QED
        BY <1>7, <1>8, <1>9, <3>1
    <2>3. ASSUME NEW k \in 1 .. c PROVE Row(s)[c + k] = Row(right)[k]
      <3>1. c + k <= Count(s) <=> k <= Count(right)
        BY <1>2, <2>1
      <3>2. QED
        BY <1>7, <1>8, <1>9, <3>1
    <2>4. Side(Row(s), Row(left), Row(right), 2 ^ d)
      BY <1>2, <1>8, <2>2, <2>3 DEF Side
    <2>5. UnderOneNode(Row(s), Row(left), Row(right), d)
      BY <1>2, <2>4, TreeJoin
    <2>6. RightClaimRoot(left, right, n) = RootOf(Layers(Row(right), d))
      BY <1>4, <1>11 DEF RightClaimRoot, ClaimsTree, Row
    <2>7. left.claimRoot = RootOf(Layers(Row(left), d))
      BY DEF ClaimsTree, Row, d
    <2>8. QED
      BY <1>3, <2>5, <2>6, <2>7 DEF UnderOneNode, ClaimsTree, Row, s
  <1>12. QED
    BY <1>10, <1>11

\* The layers of a tree, as the contract of V2 is promised them.
LEMMA LayersAreTree ==
  ASSUME NEW leaves, NEW d \in 0 .. 32, IsRow(leaves, 2 ^ d)
  PROVE  IsTree(Layers(leaves, d), leaves, d)
  <1> DEFINE L == Layers(leaves, d)
             S == {h \in 0 .. d : IsRow(L[h + 1], 2 ^ (d - h))}
  <1>1. /\ L[1] = leaves /\ Len(L) = d + 1
        /\ \A h \in 1 .. d : L[h + 1] = Level(L[h])
    BY LayersUnfold
  <1> HIDE DEF L
  <1>2. 0 \in S
    <2>1. d - 0 = d /\ 0 + 1 = 1 /\ 0 \in 0 .. d
      OBVIOUS
    <2>2. QED
      BY <1>1, <2>1
  <1>3. ASSUME NEW h \in 0 .. d, h \in S, h # d PROVE h + 1 \in S
    <2> DEFINE m == 2 ^ (d - (h + 1))
    <2>1. d - (h + 1) \in 0 .. 32 /\ (d - (h + 1)) + 1 = d - h
      BY <1>3
    <2>2. Doubles(d - (h + 1))
      BY <2>1, Powers
    <2>3. m \in Nat /\ 2 ^ (d - h) = m + m
      BY <2>1, <2>2 DEF Doubles
    <2> HIDE DEF m
    <2>4. IsRow(L[h + 1], m + m)
      BY <1>3, <2>3
    <2>5. IsRow(Level(L[h + 1]), m)
      BY <2>3, <2>4, LevelOfRow
    <2>6. h + 1 \in 0 .. d /\ h + 1 \in 1 .. d
      BY <1>3
    <2>7. IsRow(L[(h + 1) + 1], m)
      BY <1>1, <2>5, <2>6
    <2>8. QED
      BY <2>6, <2>7 DEF m
  <1>4. Len(L[d + 1]) = 1
    <2>1. \A h \in 0 .. d : h \in S
      <3> HIDE DEF S
      <3>1. QED
        BY <1>2, <1>3, InductionTo
    <2>2. d \in 0 .. d /\ d - d = 0 /\ 2 ^ 0 = 1
      OBVIOUS
    <2>3. IsRow(L[d + 1], 2 ^ (d - d))
      BY <2>1, <2>2
    <2>4. QED
      BY <2>2, <2>3 DEF IsRow
  <1>5. QED
    BY <1>1, <1>4 DEF IsTree, L

-----------------------------------------------------------------------------
(* What the contracts stand on.  Of the contracts only SnarkSound is used,  *)
(* which reads nothing but what they share with the circuits: the rest of  *)
(* their constants and their variables have no bearing on it.              *)

V1 == INSTANCE GrantsV1 WITH
    VKEY_HASH <- 0, GenuineRoots <- {}, Grants <- {}, Amount <- <<>>,
    Addresses <- {}, ZeroAddress <- ZeroClaim.receiver, Distributor <- 0, PROVER <- 0,
    Nullifiers <- {}, MaxSupply <- 0,
    MAX_NUM_CLAIMS <- Capacity(MAX_DEPTH), Calls <- {},
    wld <- 0, supply <- 0, validRoots <- {}, openGrants <- {},
    nullifierHashes <- {}, claimed <- <<>>,
    phase <- 0, call <- 0, i <- 0, saved <- 0, receipt <- 0
V2 == INSTANCE GrantsV2 WITH
    VKEY_HASH <- 0, GenuineRoots <- {}, Grants <- {}, Amount <- <<>>,
    Addresses <- {}, ZeroAddress <- ZeroClaim.receiver, Distributor <- 0, PROVER <- 0,
    Nullifiers <- {}, MaxSupply <- 0,
    LOG_MAX_NUM_CLAIMS <- MAX_DEPTH, ZeroGrant <- ZeroClaim.grant,
    ZeroNullifier <- ZeroClaim.nullifier, RootProofs <- {}, ClaimCalls <- {},
    wld <- 0, supply <- 0, validRoots <- {}, openGrants <- {},
    nullifierHashes <- {}, claimed <- <<>>, validClaimsRoots <- {},
    phase <- 0, call <- 0, i <- 0, runningHash <- 0

\* What the verifier of each contract accepts, of a snark of full depth: the root
\* circuit exposes every slot, hashed (V1), or the root of the tree (V2).
BatchProof(s) ==
    [proof |-> [output |-> V1!CircuitOutput(s.vk, s.root, Count(s), s.slots),
                valid |-> TRUE]]
RootProof(s) ==
    [vkeyHash |-> s.vk, root |-> s.root, numClaims |-> Count(s), valid |-> TRUE,
     slots |-> s.slots, layers |-> Layers(Row(s), s.depth)]

SoundForContracts(s) ==
    /\ V1!SnarkSound(BatchProof(s))
    /\ V2!SnarkSound(RootProof(s)) /\ V2!ClaimsRoot(RootProof(s)) = s.claimRoot

LEMMA SnarkIsSound ==
  ASSUME NEW s, SnarkOK(s), ClaimsTree(s), s.depth = MAX_DEPTH,
         ZeroClaim = V2!ZeroClaim
  PROVE  SoundForContracts(s)
  <1> DEFINE c == Capacity(MAX_DEPTH)
             n == Count(s)
  <1>1. /\ c = 2 ^ MAX_DEPTH /\ c \in Nat \ {0} /\ MAX_DEPTH \in 0 .. 32
        /\ n \in 1 .. c /\ s.vk \in VKeys /\ s.root \in Roots
        /\ s.slots \in Seq(Claims) /\ Len(s.slots) = c
    <2>1. MAX_DEPTH \in INITIAL_DEPTH .. MAX_DEPTH /\ MAX_DEPTH \in 0 .. 32
      BY CircuitAssumption
    <2>2. QED
      BY <2>1, Capacities DEF SnarkOK, SnarkTyped
  <1>2. /\ DOMAIN s.slots = 1 .. c
        /\ \A k \in 1 .. c : s.slots[k] \in Proven[<<s.vk, s.root>>]
    BY <1>1, LenProperties DEF SnarkOK, Witnessed
  <1>3. V1!SnarkSound(BatchProof(s))
    <2>1. s.slots \in [1 .. c -> Proven[<<s.vk, s.root>>]]
      BY <1>1, <1>2
    <2>2. BatchProof(s).proof.output = V1!CircuitOutput(s.vk, s.root, n, s.slots)
      BY DEF BatchProof
    <2>3. QED
      BY <1>1, <2>1, <2>2, Zenon DEF V1!SnarkSound
  <1>4. V2!SnarkSound(RootProof(s))
    <2>1. \A k \in 1 .. n : s.slots[k] \in Proven[<<s.vk, s.root>>]
      BY <1>1, <1>2
    <2>2. IsTree(Layers(Row(s), MAX_DEPTH), Row(s), MAX_DEPTH)
      BY <1>1, MaskedRow, LayersAreTree DEF SnarkOK
    <2>3. V2!IsTree(Layers(Row(s), MAX_DEPTH), Row(s), MAX_DEPTH)
      BY <2>2, Zenon DEF IsTree, V2!IsTree, Level, V2!Level, Node, V2!Node
    <2>4. V2!Masked(s.slots, n) = Row(s)
      BY Zenon DEF V2!Masked, V2!MaskedLeaves, Row, MaskedLeaves, V2!Leaf, Leaf
    <2>5. /\ RootProof(s).vkeyHash = s.vk /\ RootProof(s).root = s.root
          /\ RootProof(s).numClaims = n /\ RootProof(s).slots = s.slots
          /\ RootProof(s).layers = Layers(Row(s), MAX_DEPTH)
      BY DEF RootProof
    <2>6. QED
      BY <2>1, <2>3, <2>4, <2>5, Zenon DEF V2!SnarkSound
  <1>5. V2!ClaimsRoot(RootProof(s)) = s.claimRoot
    <2>1. V2!ClaimsRoot(RootProof(s)) = RootOf(RootProof(s).layers)
      BY Zenon DEF V2!ClaimsRoot, V2!RootOf, RootOf
    <2>2. QED
      BY <2>1 DEF RootProof, ClaimsTree, Row
  <1>6. QED
    BY <1>3, <1>4, <1>5 DEF SoundForContracts

-----------------------------------------------------------------------------
(* The inductive invariant.                                                *)

IInv == \A s \in snarks : SnarkOK(s) /\ ClaimsTree(s)

LEMMA Invariance == Spec => []IInv
  <1>1. Init => IInv
    BY DEF Init, IInv
  <1>2. IInv /\ [Next]_snarks => IInv'
    <2> SUFFICES ASSUME IInv, [Next]_snarks PROVE IInv'
      OBVIOUS
    <2>1. ASSUME NEW in \in LeafInputs, ProveLeaf(in) PROVE IInv'
      <3>1. SnarkOK(LeafSnark(in)) /\ ClaimsTree(LeafSnark(in))
        BY <2>1, LeafOK, LeafTree DEF ProveLeaf
      <3>2. QED
        BY <2>1, <3>1 DEF ProveLeaf, IInv
    <2>2. ASSUME NEW left \in snarks, NEW right \in snarks,
                 NEW n \in 1 .. Capacity(MAX_DEPTH), Join(left, right, n)
          PROVE  IInv'
      <3>1. /\ n \in Nat /\ SnarkOK(left) /\ SnarkOK(right)
            /\ ClaimsTree(left) /\ ClaimsTree(right)
        BY CircuitAssumption, Capacities DEF IInv
      <3>2. SnarkOK(JoinSnark(left, right, n))
        BY <2>2, <3>1, JoinOK DEF Join
      <3>3. ClaimsTree(JoinSnark(left, right, n))
        BY <2>2, <3>1, JoinTree DEF Join
      <3>4. QED
        BY <2>2, <3>2, <3>3 DEF Join, IInv
    <2>3. CASE UNCHANGED snarks
      BY <2>3 DEF IInv
    <2>4. QED
      BY <2>1, <2>2, <2>3 DEF Next
  <1>3. QED
    BY <1>1, <1>2, PTL DEF Spec

-----------------------------------------------------------------------------
(* The results.                                                            *)

\* Every snark counts between one claim and as many as its tree has leaves
\* (check_and_join_shared_instances, v1/intermediate.rs:154-188).
THEOREM TypeCorrect == Spec => []TypeOK
  <1>1. IInv => TypeOK
    BY DEF IInv, SnarkOK, TypeOK
  <1>2. QED
    BY <1>1, Invariance, PTL

\* Every slot of every snark, a dummy's and the padding included, holds a claim
\* proved with the key and against the root the snark exposes: what the V1
\* contract assumes of a proof it accepts.
THEOREM EverySlotProven == Spec => []SlotsProven
  <1>1. IInv => SlotsProven
    BY DEF IInv, SnarkOK, SlotsProven
  <1>2. QED
    BY <1>1, Invariance, PTL

\* The slots that count are the claims of positions start .. end - 1, in order,
\* at every depth and for every way of joining.
THEOREM CountedSlotsInOrder == Spec => []SlotsInOrder
  <1>1. IInv => SlotsInOrder
    BY DEF IInv, SnarkOK, SlotsInOrder
  <1>2. QED
    BY <1>1, Invariance, PTL

\* The root a snark exposes is that of the tree over the claims that count, the
\* other leaves masked, at whatever level a dummy came in
\* (join_previous_instances, v2/intermediate.rs:200-240).
THEOREM ClaimRootsAreTrees == Spec => []ClaimRootIsTree
  <1>1. IInv => ClaimRootIsTree
    BY DEF IInv, ClaimRootIsTree
  <1>2. QED
    BY <1>1, Invariance, PTL

\* What the contracts take for granted of a proof they accept (SnarkSound of each)
\* is so of every snark of full depth, however it was made: the two contracts may
\* stand on the circuits.
THEOREM ContractsMayAssume ==
  ASSUME ZeroClaim = V2!ZeroClaim
  PROVE  Spec => [](\A s \in snarks : s.depth = MAX_DEPTH => SoundForContracts(s))
  <1>1. IInv => \A s \in snarks : s.depth = MAX_DEPTH => SoundForContracts(s)
    BY SnarkIsSound DEF IInv
  <1>2. QED
    BY <1>1, Invariance, PTL
=============================================================================

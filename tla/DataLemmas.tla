------------------------------ MODULE DataLemmas ----------------------------
(***************************************************************************)
(* Facts about the data the models share.  Induction over the naturals and *)
(* over finite sets in first-order form, which every prover can apply: a   *)
(* set of naturals that holds some number holds a least one.  Powers of    *)
(* two, what sequences are made of, and finite sums.  The trees of tasks   *)
(* that requests are cut into, and the balances that agree with a log of   *)
(* paid claims.                                                            *)
(***************************************************************************)
EXTENDS RecursiveRequest, ClaimLog, TLAPS, WellFoundedInduction, SequenceTheorems,
        FiniteSetTheorems

NatLess == {pair \in Nat \X Nat : pair[1] < pair[2]}

LEMMA NatLessWellFounded == IsWellFoundedOn(NatLess, Nat)
  <1>1. OpToRel(<, Nat) = NatLess
    BY DEF OpToRel, NatLess
  <1>2. QED
    BY <1>1, NatLessThanWellFounded

LEMMA Least ==
    ASSUME NEW T \in SUBSET Nat, T # {}
    PROVE  \E n \in T : \A m \in T : n <= m
  <1>1. PICK n \in T : \A m \in T : ~(<<m, n>> \in NatLess)
    BY NatLessWellFounded, WFMin
  <1>2. ASSUME NEW m \in T PROVE n <= m
    <2>1. m \in Nat /\ n \in Nat /\ ~(<<m, n>> \in NatLess)
      BY <1>1
    <2>2. ~(m < n)
      BY <2>1 DEF NatLess
    <2>3. QED
      BY <2>1, <2>2
  <1>3. QED
    BY <1>2

\* What holds of 0 and of the successor of whatever it holds of, among the
\* numbers up to n, holds of them all.
LEMMA InductionTo ==
    ASSUME NEW n \in Nat, NEW S, 0 \in S,
           \A d \in 0 .. n : d \in S /\ d # n => d + 1 \in S
    PROVE  \A d \in 0 .. n : d \in S
  <1> DEFINE bad == {d \in Nat : d <= n /\ d \notin S}
  <1>1. bad = {}
    <2> SUFFICES ASSUME bad # {} PROVE FALSE
      OBVIOUS
    <2>1. PICK d \in bad : \A e \in bad : d <= e
      BY Least
    <2>2. d \in Nat /\ d <= n /\ d \notin S /\ d # 0
      BY <2>1
    <2>3. d - 1 \in Nat /\ d - 1 <= n /\ d - 1 \in S
      BY <2>1, <2>2
    <2>4. (d - 1) + 1 \in S
      BY <2>2, <2>3
    <2>5. QED
      BY <2>2, <2>4
  <1>2. QED
    BY <1>1

\* A function on 1 .. n is a sequence of length n.
LEMMA FunctionLength ==
    ASSUME NEW f, NEW n \in Nat, f = [k \in 1 .. n |-> f[k]]
    PROVE  Len(f) = n /\ DOMAIN f = 1 .. n
  <1> DEFINE S == {f[k] : k \in 1 .. n}
  <1>1. f \in [1 .. n -> S]
    OBVIOUS
  <1>2. f \in Seq(S)
    BY <1>1, SeqDef
  <1>3. QED
    BY <1>1, <1>2, LenProperties

\* Powers of two, as far as the depth of a tree goes (the provers know no more of
\* exponents than their values).
Doubles(n) == 2 ^ n \in Nat \ {0} /\ 2 ^ (n + 1) = 2 * 2 ^ n
LEMMA Powers == \A n \in 0 .. 32 : Doubles(n)
  <1>1. /\ Doubles(0) /\ Doubles(1) /\ Doubles(2) /\ Doubles(3) /\ Doubles(4)
        /\ Doubles(5) /\ Doubles(6) /\ Doubles(7) /\ Doubles(8) /\ Doubles(9)
        /\ Doubles(10) /\ Doubles(11) /\ Doubles(12) /\ Doubles(13) /\ Doubles(14)
        /\ Doubles(15) /\ Doubles(16) /\ Doubles(17) /\ Doubles(18) /\ Doubles(19)
        /\ Doubles(20) /\ Doubles(21) /\ Doubles(22) /\ Doubles(23) /\ Doubles(24)
        /\ Doubles(25) /\ Doubles(26) /\ Doubles(27) /\ Doubles(28) /\ Doubles(29)
        /\ Doubles(30) /\ Doubles(31) /\ Doubles(32)
    BY DEF Doubles
  <1>2. \A n \in 0 .. 32 :
          \/ n = 0 \/ n = 1 \/ n = 2 \/ n = 3 \/ n = 4 \/ n = 5 \/ n = 6 \/ n = 7
          \/ n = 8 \/ n = 9 \/ n = 10 \/ n = 11 \/ n = 12 \/ n = 13 \/ n = 14
          \/ n = 15 \/ n = 16 \/ n = 17 \/ n = 18 \/ n = 19 \/ n = 20 \/ n = 21
          \/ n = 22 \/ n = 23 \/ n = 24 \/ n = 25 \/ n = 26 \/ n = 27 \/ n = 28
          \/ n = 29 \/ n = 30 \/ n = 31 \/ n = 32
    OBVIOUS
  <1>3. QED
    BY <1>1, <1>2

LEMMA HalfOfNumber ==
    ASSUME NEW n \in Nat
    PROVE  n \div 2 \in Nat /\ \A k \in 1 .. n \div 2 : 2 * k <= n
  OBVIOUS

\* Where the elements of a concatenation are.
Joined(s, t, m, n) ==
    /\ Len(s \o t) = m + n
    /\ \A k \in 1 .. m : (s \o t)[k] = s[k]
    /\ \A k \in 1 .. n : (s \o t)[m + k] = t[k]

LEMMA ConcatJoins ==
    ASSUME NEW S, NEW s \in Seq(S), NEW t \in Seq(S),
           NEW m \in Nat, NEW n \in Nat, Len(s) = m, Len(t) = n
    PROVE  s \o t \in Seq(S) /\ Joined(s, t, m, n)
  <1>1. /\ s \o t \in Seq(S)
        /\ Len(s \o t) = Len(s) + Len(t)
        /\ \A k \in 1 .. Len(s) + Len(t) :
              (s \o t)[k] = IF k <= Len(s) THEN s[k] ELSE t[k - Len(s)]
    BY ConcatProperties, Zenon
  <1> DEFINE u == s \o t
  <1>2. /\ Len(u) = m + n
        /\ \A k \in 1 .. m + n : u[k] = IF k <= m THEN s[k] ELSE t[k - m]
    BY <1>1
  <1> HIDE DEF u
  <1>3. ASSUME NEW k \in 1 .. m PROVE u[k] = s[k]
    <2>1. k \in 1 .. m + n /\ k <= m
      OBVIOUS
    <2>2. QED
      BY <1>2, <2>1
  <1>4. ASSUME NEW k \in 1 .. n PROVE u[m + k] = t[k]
    <2>1. m + k \in 1 .. m + n /\ ~(m + k <= m) /\ (m + k) - m = k
      OBVIOUS
    <2>2. u[m + k] = t[(m + k) - m]
      BY <1>2, <2>1
    <2>3. QED
      BY <2>1, <2>2
  <1>5. QED
    BY <1>1, <1>2, <1>3, <1>4 DEF u, Joined

LEMMA PartOfPart ==
    ASSUME NEW S, NEW s \in Seq(S),
           NEW i \in 1 .. Len(s), NEW j \in 1 .. Len(s),
           NEW m \in 1 .. j - i + 1, NEW n \in 1 .. j - i + 1
    PROVE  SubSeq(SubSeq(s, i, j), m, n) = SubSeq(s, i + m - 1, i + n - 1)
  BY SubSeqOfSubSeq

\* A sequence after one more entry.
LEMMA AppendAt ==
    ASSUME NEW S, NEW log \in Seq(S), NEW e \in S
    PROVE  /\ Append(log, e) \in Seq(S)
           /\ Len(log) \in Nat
           /\ DOMAIN log = 1 .. Len(log)
           /\ Len(Append(log, e)) = Len(log) + 1
           /\ DOMAIN Append(log, e) = 1 .. (Len(log) + 1)
           /\ \A k \in 1 .. Len(log) : Append(log, e)[k] = log[k]
           /\ Append(log, e)[Len(log) + 1] = e
  OBVIOUS

-----------------------------------------------------------------------------
(* Sums.  SumFunctionOnSet(f, S) adds up f over a finite set in an order of *)
(* CHOOSE's own; these lemmas say that the order does not matter.           *)

\* The library's recursion: one element is taken out, the rest added up.
Part(f, part, s) ==
  LET first == CHOOSE x \in s : TRUE
  IN  IF s = {} THEN 0 ELSE f[first] + part[s \ {first}]
IsParts(part, f, D) == part = [s \in D |-> Part(f, part, s)]
Parts(f, S) == CHOOSE part : IsParts(part, f, SUBSET S)

LEMMA SumIsPart == ASSUME NEW f, NEW S PROVE SumFunctionOnSet(f, S) = Parts(f, S)[S]
  BY DEF SumFunctionOnSet, FoldFunctionOnSet, MapThenFoldSet, Parts, IsParts, Part

\* Induction over the subsets of a finite set, by way of their sizes.
LEMMA SetInduction ==
    ASSUME NEW S, IsFiniteSet(S), NEW Q,
           \A s \in SUBSET S : (\A t \in SUBSET s : t # s => t \in Q) => s \in Q
    PROVE  \A s \in SUBSET S : s \in Q
  <1> DEFINE sizes == {Cardinality(s) : s \in {u \in SUBSET S : u \notin Q}}
  <1> SUFFICES ASSUME NEW bad \in SUBSET S, bad \notin Q PROVE FALSE
    OBVIOUS
  <1>1. \A s \in SUBSET S : IsFiniteSet(s) /\ Cardinality(s) \in Nat
    BY FS_Subset, FS_CardinalityType
  <1>2. sizes \in SUBSET Nat /\ sizes # {}
    BY <1>1
  <1>3. PICK n \in sizes : \A m \in sizes : n <= m
    BY <1>2, Least
  <1>4. PICK s \in SUBSET S : s \notin Q /\ n = Cardinality(s)
    BY <1>3
  <1>5. ASSUME NEW t \in SUBSET s, t # s PROVE t \in Q
    <2>1. t \in SUBSET S /\ Cardinality(t) <= n /\ Cardinality(t) # n
      BY <1>1, <1>4, <1>5, FS_Subset
    <2>2. t \notin Q => n <= Cardinality(t)
      BY <1>3, <2>1
    <2>3. QED
      BY <1>1, <1>4, <2>1, <2>2
  <1>6. QED
    BY <1>4, <1>5

\* The library defines the recursion by CHOOSE: such a function exists, built up
\* from the subsets of size n to those of size n + 1.
LEMMA PartsExist ==
    ASSUME NEW f, NEW S, IsFiniteSet(S) PROVE IsParts(Parts(f, S), f, SUBSET S)
  <1> DEFINE upTo(n) == {s \in SUBSET S : Cardinality(s) <= n}
             done == {n \in Nat : \E part : IsParts(part, f, upTo(n))}
             N == Cardinality(S)
  <1>1. /\ N \in Nat
        /\ \A s \in SUBSET S : IsFiniteSet(s) /\ Cardinality(s) \in Nat /\ Cardinality(s) <= N
    BY FS_Subset, FS_CardinalityType
  <1>2. 0 \in done
    <2>1. upTo(0) = {{}}
      <3>1. \A s \in SUBSET S : Cardinality(s) = 0 <=> s = {}
        BY <1>1, FS_EmptySet
      <3>2. QED
        BY <1>1, <3>1
    <2>2. IsParts([s \in {{}} |-> 0], f, {{}})
      BY DEF IsParts, Part
    <2>3. QED
      BY <2>1, <2>2
  <1>3. ASSUME NEW n \in 0 .. N, n \in done PROVE n + 1 \in done
    <2>1. PICK g : IsParts(g, f, upTo(n))
      BY <1>3
    <2> DEFINE h == [s \in upTo(n + 1) |-> Part(f, g, s)]
    <2>2. ASSUME NEW s \in upTo(n) PROVE s \in upTo(n + 1) /\ h[s] = g[s]
      <3>1. s \in upTo(n + 1)
        BY <1>1, n \in Nat
      <3>2. h[s] = Part(f, g, s)
        BY <3>1
      <3>3. g[s] = Part(f, g, s)
        BY <2>1 DEF IsParts
      <3>4. QED
        BY <3>1, <3>2, <3>3
    <2>3. ASSUME NEW s \in upTo(n + 1) PROVE Part(f, g, s) = Part(f, h, s)
      <3>1. CASE s = {}
        BY <3>1 DEF Part
      <3>2. CASE s # {}
        <4> DEFINE x == CHOOSE x \in s : TRUE
        <4>1. x \in s
          BY <3>2
        <4> HIDE DEF x
        <4>2. Cardinality(s \ {x}) = Cardinality(s) - 1
          BY <1>1, <4>1, FS_RemoveElement
        <4>3. s \ {x} \in upTo(n)
          BY <1>1, <4>2, n \in Nat
        <4>4. g[s \ {x}] = h[s \ {x}]
          BY <2>2, <4>3
        <4>5. QED
          BY <4>4 DEF Part, x
      <3>3. QED
        BY <3>1, <3>2
    <2>4. IsParts(h, f, upTo(n + 1))
      <3>1. h = [s \in upTo(n + 1) |-> Part(f, h, s)]
        BY <2>3
      <3>2. QED
        BY <3>1 DEF IsParts
    <2>5. n + 1 \in Nat
      BY <1>1
    <2>6. QED
      BY <2>4, <2>5
  <1>4. N \in done
    <2> HIDE DEF done
    <2>1. \A d \in 0 .. N : d \in done
      BY <1>1, <1>2, <1>3, InductionTo
    <2>2. QED
      BY <1>1, <2>1
  <1>5. upTo(N) = SUBSET S
    BY <1>1
  <1>6. \E part : IsParts(part, f, SUBSET S)
    BY <1>4, <1>5
  <1>7. QED
    BY <1>6 DEF Parts

\* Hence the recursion may be unfolded.
LEMMA PartsUnfold ==
    ASSUME NEW f, NEW S, IsFiniteSet(S)
    PROVE  /\ Parts(f, S)[{}] = 0
           /\ \A s \in SUBSET S : s # {} =>
                \E x \in s : Parts(f, S)[s] = f[x] + Parts(f, S)[s \ {x}]
  <1> DEFINE p == Parts(f, S)
  <1>0. IsParts(p, f, SUBSET S)
    BY PartsExist
  <1> HIDE DEF p
  <1>1. \A s \in SUBSET S : p[s] = Part(f, p, s)
    BY <1>0 DEF IsParts
  <1>2. p[{}] = 0
    <2>1. p[{}] = Part(f, p, {})
      BY <1>1
    <2>2. QED
      BY <2>1 DEF Part
  <1>3. ASSUME NEW s \in SUBSET S, s # {}
        PROVE  \E x \in s : p[s] = f[x] + p[s \ {x}]
    <2> DEFINE x == CHOOSE x \in s : TRUE
    <2>1. x \in s
      BY <1>3
    <2>2. p[s] = Part(f, p, s)
      BY <1>1
    <2>3. p[s] = f[x] + p[s \ {x}]
      BY <1>3, <2>2 DEF Part
    <2> HIDE DEF x
    <2>4. QED
      BY <2>1, <2>3
  <1>4. QED
    BY <1>2, <1>3 DEF p

\* Sums of naturals are natural.
LEMMA PartsNatural ==
    ASSUME NEW f, NEW S, IsFiniteSet(S), \A x \in S : f[x] \in Nat
    PROVE  \A s \in SUBSET S : Parts(f, S)[s] \in Nat
  <1> DEFINE p == Parts(f, S)
             Q == {s \in SUBSET S : p[s] \in Nat}
  <1>1. ASSUME NEW s \in SUBSET S, \A t \in SUBSET s : t # s => t \in Q
        PROVE  s \in Q
    <2>1. CASE s = {}
      BY <2>1, PartsUnfold
    <2>2. CASE s # {}
      <3>1. PICK x \in s : p[s] = f[x] + p[s \ {x}]
        BY <2>2, PartsUnfold
      <3>2. p[s \ {x}] \in Nat
        BY <1>1
      <3>3. QED
        BY <3>1, <3>2
    <2>3. QED
      BY <2>1, <2>2
  <1> HIDE DEF Q
  <1>2. \A s \in SUBSET S : s \in Q
    BY <1>1, SetInduction
  <1>3. QED
    BY <1>2 DEF Q

AnyOrder(part, f, S) ==
  \A s \in SUBSET S : \A x \in s : part[s] = f[x] + part[s \ {x}]

\* Whichever element is taken out first, the rest adds up to the same.
LEMMA PartsAnyOrder ==
    ASSUME NEW f, NEW S, IsFiniteSet(S), \A x \in S : f[x] \in Nat
    PROVE  AnyOrder(Parts(f, S), f, S)
  <1> DEFINE p == Parts(f, S)
             Q == {s \in SUBSET S : \A x \in s : p[s] = f[x] + p[s \ {x}]}
  <1>n. \A s \in SUBSET S : p[s] \in Nat
    BY PartsNatural
  <1>u. \A s \in SUBSET S : s # {} => \E x \in s : p[s] = f[x] + p[s \ {x}]
    BY PartsUnfold
  <1> HIDE DEF p
  <1>1. ASSUME NEW s \in SUBSET S, \A t \in SUBSET s : t # s => t \in Q
        PROVE  s \in Q
    <2> SUFFICES ASSUME NEW x \in s PROVE p[s] = f[x] + p[s \ {x}]
      OBVIOUS
    <2>1. PICK c \in s : p[s] = f[c] + p[s \ {c}]
      BY <1>u
    <2>2. CASE c # x
      <3> DEFINE r == (s \ {c}) \ {x}
      <3>1. r = (s \ {x}) \ {c} /\ r \in SUBSET S
        OBVIOUS
      <3>2. p[s \ {c}] = f[x] + p[r]
        BY <1>1, <2>2
      <3>3. s \ {x} \in Q /\ c \in s \ {x}
        BY <1>1, <2>2
      <3>4. p[s \ {x}] = f[c] + p[r]
        BY <3>1, <3>3
      <3>5. p[r] \in Nat /\ f[x] \in Nat /\ f[c] \in Nat
        BY <1>n, <3>1
      <3>6. QED
        BY <2>1, <3>2, <3>4, <3>5
    <2>3. QED
      BY <2>1, <2>2
  <1> HIDE DEF Q
  <1>2. \A s \in SUBSET S : s \in Q
    BY <1>1, SetInduction
  <1>3. QED
    BY <1>2 DEF Q, p, AnyOrder

\* The sum depends on the summands only, not on the set they are taken from.
LEMMA PartsAgree ==
    ASSUME NEW f, NEW S, IsFiniteSet(S), \A x \in S : f[x] \in Nat,
           NEW g, NEW T, T \subseteq S, \A x \in T : g[x] = f[x]
    PROVE  Parts(g, T)[T] = Parts(f, S)[T]
  <1> DEFINE p == Parts(f, S)
             q == Parts(g, T)
             Q == {t \in SUBSET T : q[t] = p[t]}
  <1>t. IsFiniteSet(T)
    BY FS_Subset
  <1>e. p[{}] = 0
    BY PartsUnfold
  <1>p. AnyOrder(p, f, S)
    BY PartsAnyOrder
  <1>q. /\ q[{}] = 0
        /\ \A s \in SUBSET T : s # {} => \E x \in s : q[s] = g[x] + q[s \ {x}]
    BY <1>t, PartsUnfold
  <1> HIDE DEF p, q
  <1>1. ASSUME NEW s \in SUBSET T, \A t \in SUBSET s : t # s => t \in Q
        PROVE  s \in Q
    <2>1. CASE s = {}
      BY <2>1, <1>e, <1>q
    <2>2. CASE s # {}
      <3>1. PICK x \in s : q[s] = g[x] + q[s \ {x}]
        BY <2>2, <1>q
      <3>2. p[s] = f[x] + p[s \ {x}]
        BY <1>p DEF AnyOrder
      <3>3. q[s \ {x}] = p[s \ {x}]
        BY <1>1
      <3>4. QED
        BY <3>1, <3>2, <3>3
    <2>3. QED
      BY <2>1, <2>2
  <1> HIDE DEF Q
  <1>2. \A s \in SUBSET T : s \in Q
    BY <1>1, <1>t, SetInduction
  <1>3. QED
    BY <1>2 DEF Q, p, q

\* What the proofs use: sums of finitely many naturals.
Summable(f, S) == IsFiniteSet(S) /\ \A x \in S : f[x] \in Nat

\* The sum is natural; it depends on the summands only; and any element may be
\* taken out of it first.
LEMMA SumNatural ==
    ASSUME NEW f, NEW S, Summable(f, S) PROVE SumFunctionOnSet(f, S) \in Nat
  BY SumIsPart, PartsNatural DEF Summable

LEMMA SumSame ==
    ASSUME NEW f, NEW S, Summable(f, S), NEW g, \A x \in S : g[x] = f[x]
    PROVE  SumFunctionOnSet(g, S) = SumFunctionOnSet(f, S)
  BY SumIsPart, PartsAgree DEF Summable

LEMMA SumOfNone == ASSUME NEW f PROVE SumFunctionOnSet(f, {}) = 0
  BY SumIsPart, PartsUnfold, FS_EmptySet

\* A sum of zeros.
LEMMA SumOfZeros ==
    ASSUME NEW f, NEW S, IsFiniteSet(S), \A x \in S : f[x] = 0
    PROVE  SumFunctionOnSet(f, S) = 0
  <1> DEFINE p == Parts(f, S)
             Q == {s \in SUBSET S : p[s] = 0}
  <1>1. /\ p[{}] = 0
        /\ \A s \in SUBSET S : s # {} => \E x \in s : p[s] = f[x] + p[s \ {x}]
    BY PartsUnfold
  <1> HIDE DEF p
  <1>2. ASSUME NEW s \in SUBSET S, \A t \in SUBSET s : t # s => t \in Q
        PROVE  s \in Q
    <2>1. CASE s = {}
      BY <1>1, <2>1
    <2>2. CASE s # {}
      <3>1. PICK x \in s : p[s] = f[x] + p[s \ {x}]
        BY <1>1, <2>2
      <3>2. p[s \ {x}] = 0 /\ f[x] = 0
        BY <1>2
      <3>3. QED
        BY <3>1, <3>2
    <2>3. QED
      BY <2>1, <2>2
  <1> HIDE DEF Q
  <1>3. \A s \in SUBSET S : s \in Q
    BY <1>2, SetInduction
  <1>4. QED
    BY <1>3, SumIsPart DEF Q, p

LEMMA SumSplit ==
    ASSUME NEW f, NEW S, Summable(f, S), NEW x \in S
    PROVE  /\ Summable(f, S \ {x})
           /\ SumFunctionOnSet(f, S) = f[x] + SumFunctionOnSet(f, S \ {x})
  <1>1. Summable(f, S \ {x})
    BY FS_Subset DEF Summable
  <1>2. Parts(f, S \ {x})[S \ {x}] = Parts(f, S)[S \ {x}]
    BY PartsAgree DEF Summable
  <1>3. Parts(f, S)[S] = f[x] + Parts(f, S)[S \ {x}]
    BY PartsAnyOrder DEF Summable, AnyOrder
  <1>4. QED
    BY <1>1, <1>2, <1>3, SumIsPart

-----------------------------------------------------------------------------
(* Trees of tasks.                                                         *)

\* The nodes of a tree, down to its initial depth.
NodeShapes ==
    {p \in [node_type : NodeTypes, round : Nat, depth : Nat, initial_depth : Nat] :
        WellFormed(p)}

\* How far a node is from the leaves: every dependency is one step nearer.
Steps(params) ==
    IF params.node_type = "Evm" THEN Height(params)
    ELSE params.depth - params.initial_depth

\* A child's room is the node's own below an Evm node, and half of it below
\* any other.
ChildDepth(p) == IF p.node_type = "Evm" THEN p.depth ELSE p.depth - 1

LEMMA ChildIsNearer ==
  ASSUME NEW p \in NodeShapes, p.depth # p.initial_depth
  PROVE  /\ Child(p) \in NodeShapes
         /\ Steps(Child(p)) = Steps(p) - 1
         /\ Child(p).depth = ChildDepth(p)
         /\ Child(p).initial_depth = p.initial_depth
         /\ Child(p).node_type = "Leaf" <=> Child(p).depth = Child(p).initial_depth
  <1> USE DEF NodeShapes, Steps, Height, NodeTypes, WellFormed, ChildDepth
  <1>1. CASE p.node_type = "Evm" /\ p.round > 0
    <2>1. Child(p) = Params("Evm", p.round - 1, p.depth, p.initial_depth)
      BY <1>1 DEF Child
    <2>2. QED
      BY <1>1, <2>1 DEF Params
  <1>2. CASE p.node_type = "Evm" /\ p.round = 0
    <2>1. Child(p) = Params("Root", 0, p.depth, p.initial_depth)
      BY <1>2 DEF Child
    <2>2. QED
      BY <1>2, <2>1 DEF Params
  <1>3. CASE p.node_type # "Evm" /\ p.depth = p.initial_depth + 1
    <2>1. Child(p) = Params("Leaf", 0, p.initial_depth, p.initial_depth)
      BY <1>3 DEF Child
    <2>2. QED
      BY <1>3, <2>1 DEF Params
  <1>4. CASE p.node_type # "Evm" /\ p.depth # p.initial_depth + 1
    <2>1. Child(p) = Params("Intermediate", 0, p.depth - 1, p.initial_depth)
      BY <1>4 DEF Child
    <2>2. p.depth - 1 \in Nat
      OBVIOUS
    <2>3. QED
      BY <1>4, <2>1, <2>2 DEF Params
  <1>5. p.round \in Nat
    OBVIOUS
  <1>6. QED
    BY <1>1, <1>2, <1>3, <1>4, <1>5

\* A leaf needs nothing; what another task needs are pieces of it.
LEMMA LeafNeedsNothing ==
  ASSUME NEW t, IsLeafTask(t)
  PROVE  Dependencies(t) = <<>> /\ DependencySet(t) = {}
  <1>1. Dependencies(t) = <<>>
    BY Zenon DEF Dependencies
  <1>2. DOMAIN <<>> = {}
    OBVIOUS
  <1>3. QED
    BY <1>1, <1>2 DEF DependencySet

LEMMA DependencyIsPiece ==
  ASSUME NEW t, NEW d \in DependencySet(t)
  PROVE  ~ IsLeafTask(t) /\ d.params = Child(t.params) /\ d.request = t.request
  <1>1. ~ IsLeafTask(t)
    BY LeafNeedsNothing
  <1>2. PICK k \in DOMAIN Dependencies(t) : d = Dependencies(t)[k]
    BY Zenon DEF DependencySet
  <1>3. \E size : d = Piece(t, size, k)
    BY <1>1, <1>2, Zenon DEF Dependencies
  <1>4. QED
    BY <1>1, <1>3 DEF Piece, Task

LEMMA DependencyShape ==
  ASSUME NEW t, t.params \in NodeShapes, NEW d \in DependencySet(t)
  PROVE  d.params \in NodeShapes /\ Steps(d.params) = Steps(t.params) - 1
  BY DependencyIsPiece, ChildIsNearer DEF IsLeafTask

-----------------------------------------------------------------------------
(* The levels of a tree.                                                   *)

LevelsTo(f, t, n) ==
    f = [h \in 0 .. n |-> IF h = 0 THEN {t} ELSE Below(f[h - 1])]

\* The levels of a tree can be built one below the other, as far as one likes.
LEMMA LevelsExist ==
  ASSUME NEW t, NEW n \in Nat
  PROVE  \E f : LevelsTo(f, t, n)
  <1> DEFINE S == {m \in 0 .. n : \E f : LevelsTo(f, t, m)}
  <1>1. 0 \in S
    <2>1. LevelsTo([h \in 0 .. 0 |-> {t}], t, 0)
      BY DEF LevelsTo
    <2>2. QED
      BY <2>1
  <1>2. ASSUME NEW m \in 0 .. n, m \in S, m # n PROVE m + 1 \in S
    <2>1. PICK f : LevelsTo(f, t, m)
      BY <1>2
    <2> DEFINE g == [h \in 0 .. m + 1 |-> IF h <= m THEN f[h] ELSE Below(f[m])]
    <2>2. ASSUME NEW h \in 0 .. m + 1
          PROVE  g[h] = IF h = 0 THEN {t} ELSE Below(g[h - 1])
      <3>1. CASE h = 0
        BY <2>1, <3>1 DEF LevelsTo
      <3>2. CASE h \in 1 .. m
        <4>1. h \in 0 .. m /\ h - 1 \in 0 .. m + 1 /\ h - 1 <= m /\ h # 0
          BY <3>2
        <4>2. f[h] = Below(f[h - 1])
          BY <2>1, <4>1 DEF LevelsTo
        <4>3. QED
          BY <3>2, <4>1, <4>2
      <3>3. CASE h = m + 1
        BY <3>3
      <3>4. QED
        BY <3>1, <3>2, <3>3
    <2>3. LevelsTo(g, t, m + 1)
      BY <2>2 DEF LevelsTo
    <2>4. QED
      BY <1>2, <2>3
  <1>3. n \in S
    <2> HIDE DEF S
    <2>1. \A m \in 0 .. n : m \in S
      BY <1>1, <1>2, InductionTo
    <2>2. QED
      BY <2>1
  <1>4. QED
    BY <1>3

LEMMA LevelsDefined ==
  ASSUME NEW t, Height(t.params) \in Nat
  PROVE  LevelsTo(Levels(t), t, Height(t.params))
  <1> DEFINE n == Height(t.params)
  <1>1. \E f : f = [h \in 0 .. n |-> IF h = 0 THEN {t} ELSE Below(f[h - 1])]
    <2>1. n \in Nat
      OBVIOUS
    <2> HIDE DEF n
    <2>2. \E f : LevelsTo(f, t, n)
      BY <2>1, LevelsExist
    <2>3. QED
      BY <2>2, Zenon DEF LevelsTo
  <1>2. Levels(t) = CHOOSE f : f = [h \in 0 .. Height(t.params) |->
                                      IF h = 0 THEN {t} ELSE Below(f[h - 1])]
    BY Zenon DEF Levels
  <1>3. QED
    BY <1>1, <1>2, Zenon DEF LevelsTo

LEMMA LevelsOfTree ==
  ASSUME NEW t, t.params \in NodeShapes
  PROVE  /\ Height(t.params) \in Nat
         /\ DOMAIN Levels(t) = 0 .. Height(t.params)
         /\ Levels(t)[0] = {t}
         /\ \A h \in 0 .. Height(t.params) : h # 0 => Levels(t)[h] = Below(Levels(t)[h - 1])
         /\ TreeOf(t) = UNION {Levels(t)[h] : h \in 0 .. Height(t.params)}
  <1>1. Height(t.params) \in Nat
    BY DEF Height, NodeShapes, WellFormed
  <1>2. /\ DOMAIN Levels(t) = 0 .. Height(t.params)
        /\ Levels(t)[0] = {t}
        /\ \A h \in 0 .. Height(t.params) : h # 0 => Levels(t)[h] = Below(Levels(t)[h - 1])
    BY <1>1, LevelsDefined DEF LevelsTo
  <1>3. QED
    BY <1>1, <1>2 DEF TreeOf

\* The tree of a task holds it and is closed under dependency: the lowest level is
\* one of leaves.
LEMMA TreeClosed ==
  ASSUME NEW t, t.params \in NodeShapes
  PROVE  /\ t \in TreeOf(t)
         /\ \A u \in TreeOf(t) : DependencySet(u) \subseteq TreeOf(t)
  <1> DEFINE H == Height(t.params)
             L == Levels(t)
             n == Steps(t.params)
             At(h) == \A u \in L[h] : u.params \in NodeShapes /\ Steps(u.params) = n - h
             S == {h \in 0 .. H : At(h)}
  <1>1. H \in Nat /\ n \in Nat /\ n <= H
    BY DEF Height, NodeShapes, WellFormed, Steps
  <1>2. /\ L[0] = {t}
        /\ \A h \in 0 .. H : h # 0 => L[h] = Below(L[h - 1])
        /\ TreeOf(t) = UNION {L[h] : h \in 0 .. H}
    BY LevelsOfTree
  <1>n. n = Steps(t.params)
    OBVIOUS
  <1> HIDE DEF n
  <1>4. \A h \in 0 .. H : At(h)
    <2>1. 0 \in S
      BY <1>1, <1>2, <1>n
    <2>2. ASSUME NEW h \in 0 .. H, h \in S, h # H PROVE h + 1 \in S
      <3>1. h + 1 \in 0 .. H /\ h + 1 # 0 /\ (h + 1) - 1 = h
        BY <1>1, <2>2
      <3>2. L[h + 1] = Below(L[h])
        BY <1>2, <3>1
      <3>3. ASSUME NEW d \in L[h + 1]
            PROVE  d.params \in NodeShapes /\ Steps(d.params) = n - (h + 1)
        <4>1. PICK u \in L[h] : d \in DependencySet(u)
          BY <3>2 DEF Below
        <4>2. u.params \in NodeShapes /\ Steps(u.params) = n - h
          BY <2>2
        <4>3. d.params \in NodeShapes /\ Steps(d.params) = (n - h) - 1
          BY <4>1, <4>2, DependencyShape
        <4>4. QED
          BY <1>1, <4>3
      <3>4. QED
        BY <3>1, <3>3
    <2>3. \A h \in 0 .. H : h \in S
      <3> HIDE DEF S, H
      <3>1. QED
        BY <1>1, <2>1, <2>2, InductionTo
    <2>4. QED
      BY <2>3
  <1>5. t \in TreeOf(t)
    BY <1>1, <1>2
  <1>6. ASSUME NEW u \in TreeOf(t) PROVE DependencySet(u) \subseteq TreeOf(t)
    <2>1. PICK h \in 0 .. H : u \in L[h]
      BY <1>2
    <2>2. CASE h # H
      <3>1. h + 1 \in 0 .. H /\ h + 1 # 0 /\ (h + 1) - 1 = h
        BY <1>1, <2>2
      <3>2. DependencySet(u) \subseteq L[h + 1]
        BY <1>2, <2>1, <3>1 DEF Below
      <3>3. QED
        BY <1>2, <3>1, <3>2
    <2>3. CASE h = H
      <3>1. u.params \in NodeShapes /\ Steps(u.params) <= 0
        BY <1>1, <1>4, <2>1, <2>3
      <3>2. IsLeafTask(u)
        <4>1. /\ u.params.round \in Nat /\ u.params.depth \in Nat
              /\ u.params.initial_depth \in Nat /\ u.params.depth >= u.params.initial_depth
          BY <3>1 DEF NodeShapes, WellFormed
        <4>2. \/ u.params.round + 1 + u.params.depth - u.params.initial_depth <= 0
              \/ u.params.depth - u.params.initial_depth <= 0
          BY <3>1 DEF Steps, Height
        <4>3. QED
          BY <4>1, <4>2 DEF IsLeafTask
      <3>3. QED
        BY <3>2, LeafNeedsNothing
    <2>4. QED
      BY <2>2, <2>3
  <1>7. QED
    BY <1>5, <1>6

\* Whatever contains a task and the dependencies of what it contains holds
\* the task's whole tree.
LEMMA TreeReached ==
  ASSUME NEW t, t.params \in NodeShapes, NEW T, t \in T,
         \A u \in T : u \in TreeOf(t) => DependencySet(u) \subseteq T
  PROVE  TreeOf(t) \subseteq T
  <1> DEFINE H == Height(t.params)
             L == Levels(t)
             S == {h \in 0 .. H : L[h] \subseteq T}
  <1>1. H \in Nat
    BY LevelsOfTree
  <1>2. /\ L[0] = {t}
        /\ \A h \in 0 .. H : h # 0 => L[h] = Below(L[h - 1])
        /\ TreeOf(t) = UNION {L[h] : h \in 0 .. H}
    BY LevelsOfTree
  <1>4. 0 \in S
    BY <1>1, <1>2
  <1>5. ASSUME NEW h \in 0 .. H, h \in S, h # H PROVE h + 1 \in S
    <2>1. h + 1 \in 0 .. H /\ h + 1 # 0 /\ (h + 1) - 1 = h
      BY <1>1, <1>5
    <2>2. L[h + 1] = Below(L[h])
      BY <1>2, <2>1
    <2>3. ASSUME NEW u \in L[h] PROVE DependencySet(u) \subseteq T
      <3>1. u \in T /\ u \in TreeOf(t)
        BY <1>2, <1>5
      <3>2. QED
        BY <3>1
    <2>4. QED
      BY <2>1, <2>2, <2>3 DEF Below
  <1>6. \A h \in 0 .. H : h \in S
    <2> HIDE DEF S, H
    <2>1. QED
      BY <1>1, <1>4, <1>5, InductionTo
  <1>7. QED
    BY <1>2, <1>6

\* A task's request is its top task's.
LEMMA TreeOfOneRequest ==
  ASSUME NEW t, t.params \in NodeShapes
  PROVE  \A u \in TreeOf(t) : u.request = t.request
  <1> DEFINE T == {u \in TreeOf(t) : u.request = t.request}
  <1>1. t \in T
    BY TreeClosed
  <1>2. ASSUME NEW u \in T PROVE DependencySet(u) \subseteq T
    BY <1>2, TreeClosed, DependencyIsPiece
  <1> HIDE DEF T
  <1>3. TreeOf(t) \subseteq T
    BY <1>1, <1>2, TreeReached
  <1>4. QED
    BY <1>3 DEF T

-----------------------------------------------------------------------------
(* Logs of paid claims.                                                    *)

\* Paying a claim whose nullifier is not in the log keeps the log paid once.
LEMMA AppendPaidOnce ==
    ASSUME NEW S, NEW log \in Seq(S), NEW e \in S, PaidOnce(log),
           e.nullifier \notin NullifiersOf(log)
    PROVE  /\ PaidOnce(Append(log, e))
           /\ NullifiersOf(Append(log, e)) = NullifiersOf(log) \cup {e.nullifier}
  <1> DEFINE longer == Append(log, e)
             n == Len(log)
  <1>1. /\ n \in Nat
        /\ DOMAIN log = 1 .. n
        /\ DOMAIN longer = 1 .. (n + 1)
        /\ \A k \in 1 .. n : longer[k] = log[k]
        /\ longer[n + 1] = e
    BY AppendAt
  <1> HIDE DEF longer, n
  <1>2. \A k \in 1 .. (n + 1) : k \in 1 .. n \/ k = n + 1
    BY <1>1
  <1>3. \A k \in 1 .. n : log[k].nullifier # e.nullifier
    BY <1>1 DEF NullifiersOf
  <1>4. ASSUME NEW j \in DOMAIN longer, NEW k \in DOMAIN longer,
               longer[j].nullifier = longer[k].nullifier
        PROVE  j = k
    <2>1. CASE j \in 1 .. n /\ k \in 1 .. n
      BY <1>1, <1>4, <2>1 DEF PaidOnce
    <2>2. CASE j \in 1 .. n /\ k = n + 1
      BY <1>1, <1>3, <1>4, <2>2
    <2>3. CASE j = n + 1 /\ k \in 1 .. n
      BY <1>1, <1>3, <1>4, <2>3
    <2>4. QED
      BY <1>1, <1>2, <2>1, <2>2, <2>3
  <1>5. {longer[k].nullifier : k \in 1 .. (n + 1)}
          = {log[k].nullifier : k \in 1 .. n} \cup {e.nullifier}
    <2>1. \A k \in 1 .. n : k \in 1 .. (n + 1)
      BY <1>1
    <2>2. n + 1 \in 1 .. (n + 1)
      BY <1>1
    <2>3. QED
      BY <1>1, <1>2, <2>1, <2>2
  <1>6. QED
    BY <1>1, <1>4, <1>5 DEF longer, PaidOnce, NullifiersOf

\* Every claim of S goes to an account and its grant is worth something.
Payable(S, amount, accounts) ==
    \A e \in S : e.receiver \in accounts /\ amount[e.grant] \in Nat

AmountsOf(log, amount) == [k \in DOMAIN log |-> amount[log[k].grant]]
ClaimsFor(log, a) == {k \in DOMAIN log : log[k].receiver = a}

\* What a log says an account was paid is such a sum, over the log's entries.
LEMMA LogSummable ==
    ASSUME NEW S, NEW amount, NEW accounts, Payable(S, amount, accounts),
           NEW log \in Seq(S), NEW a
    PROVE  Summable(AmountsOf(log, amount), ClaimsFor(log, a))
  <1>1. DOMAIN log = 1 .. Len(log) /\ Len(log) \in Nat
    OBVIOUS
  <1>2. IsFiniteSet(1 .. Len(log))
    BY <1>1, FS_Interval
  <1>3. ClaimsFor(log, a) \in SUBSET (1 .. Len(log))
    BY <1>1 DEF ClaimsFor
  <1>4. IsFiniteSet(ClaimsFor(log, a))
    BY <1>2, <1>3, FS_Subset
  <1>5. ASSUME NEW k \in ClaimsFor(log, a) PROVE AmountsOf(log, amount)[k] \in Nat
    <2>1. k \in DOMAIN log /\ log[k] \in S
      BY <1>1, <1>3, ElementOfSeq
    <2>2. QED
      BY <2>1 DEF AmountsOf, Payable
  <1>6. QED
    BY <1>4, <1>5 DEF Summable

LEMMA PaidToIsSum ==
    ASSUME NEW log, NEW amount, NEW a
    PROVE  PaidTo(log, amount, a) =
             SumFunctionOnSet(AmountsOf(log, amount), ClaimsFor(log, a))
  BY DEF PaidTo, AmountsOf, ClaimsFor

\* One more claim is paid to its receiver and to nobody else.
LEMMA PaidToGrows ==
    ASSUME NEW S, NEW amount, NEW accounts, Payable(S, amount, accounts),
           NEW log \in Seq(S), NEW e \in S, NEW a
    PROVE  PaidTo(Append(log, e), amount, a) =
             IF a = e.receiver THEN PaidTo(log, amount, a) + amount[e.grant]
                               ELSE PaidTo(log, amount, a)
  <1> DEFINE longer == Append(log, e)
             n == Len(log)
             f == AmountsOf(log, amount)
             g == AmountsOf(longer, amount)
             C == ClaimsFor(log, a)
             D == ClaimsFor(longer, a)
  <1>1. /\ n \in Nat /\ longer \in Seq(S)
        /\ DOMAIN log = 1 .. n
        /\ DOMAIN longer = 1 .. (n + 1)
        /\ \A k \in 1 .. n : longer[k] = log[k]
        /\ longer[n + 1] = e
    BY AppendAt
  <1>2. Summable(f, C) /\ Summable(g, D)
    BY <1>1, LogSummable
  <1> HIDE DEF longer, n
  <1>3. \A k \in 1 .. (n + 1) : k \in 1 .. n \/ k = n + 1
    BY <1>1
  <1>4. n + 1 \in 1 .. (n + 1) /\ n + 1 \notin 1 .. n /\ \A k \in 1 .. n : k \in 1 .. (n + 1)
    BY <1>1
  <1>5. \A k \in C : g[k] = f[k]
    BY <1>1, <1>4 DEF AmountsOf, ClaimsFor
  <1>6. g[n + 1] = amount[e.grant] /\ amount[e.grant] \in Nat
    BY <1>1, <1>4 DEF AmountsOf, Payable
  <1>7. CASE a # e.receiver
    <2>1. D = C
      BY <1>1, <1>3, <1>4, <1>7 DEF ClaimsFor
    <2> HIDE DEF f, g, C, D
    <2>2. SumFunctionOnSet(g, D) = SumFunctionOnSet(f, C)
      BY <1>2, <1>5, <2>1, SumSame
    <2>3. QED
      BY <1>7, <2>2, PaidToIsSum DEF f, g, C, D, longer
  <1>8. CASE a = e.receiver
    <2>1. n + 1 \in D /\ D \ {n + 1} = C
      BY <1>1, <1>3, <1>4, <1>8 DEF ClaimsFor
    <2> HIDE DEF f, g, C, D
    <2>2. SumFunctionOnSet(g, D) = g[n + 1] + SumFunctionOnSet(g, C)
      BY <1>2, <2>1, SumSplit
    <2>3. SumFunctionOnSet(g, C) = SumFunctionOnSet(f, C)
      BY <1>2, <1>5, SumSame
    <2>4. SumFunctionOnSet(f, C) \in Nat
      BY <1>2, SumNatural
    <2>5. SumFunctionOnSet(g, D) = SumFunctionOnSet(f, C) + amount[e.grant]
      BY <1>6, <2>2, <2>3, <2>4
    <2>6. QED
      BY <1>8, <2>5, PaidToIsSum DEF f, g, C, D, longer
  <1>9. QED
    BY <1>7, <1>8

PaidOut(log, amount, accounts) == [a \in accounts |-> PaidTo(log, amount, a)]

\* What was paid out in all is a sum too, over the receivers.
LEMMA PaidOutSummable ==
    ASSUME NEW S, NEW amount, NEW accounts, Payable(S, amount, accounts),
           IsFiniteSet(accounts), NEW log \in Seq(S), NEW receivers \in SUBSET accounts
    PROVE  Summable(PaidOut(log, amount, accounts), receivers)
  <1>1. IsFiniteSet(receivers)
    BY FS_Subset
  <1>2. ASSUME NEW a PROVE PaidTo(log, amount, a) \in Nat
    <2>1. Summable(AmountsOf(log, amount), ClaimsFor(log, a))
      BY LogSummable
    <2>2. QED
      BY <2>1, SumNatural, PaidToIsSum
  <1>3. QED
    BY <1>1, <1>2 DEF Summable, PaidOut

\* One receiver's part may be taken out of the total.
OneFirst(f, T, a) ==
    /\ Summable(f, T \ {a})
    /\ SumFunctionOnSet(f, T) = f[a] + SumFunctionOnSet(f, T \ {a})
LEMMA ReceiverFirst ==
    ASSUME NEW f, NEW T, NEW a \in T, Summable(f, T) PROVE OneFirst(f, T, a)
  BY SumSplit DEF OneFirst

LEMMA BalancedIsSum ==
    ASSUME NEW balances, NEW total, NEW log, NEW amount, NEW accounts, NEW payer
    PROVE  Balanced(balances, total, log, amount, accounts, payer) <=>
             /\ \A a \in accounts \ {payer} : balances[a] = PaidTo(log, amount, a)
             /\ balances[payer] =
                  total - SumFunctionOnSet(PaidOut(log, amount, accounts), accounts \ {payer})
  BY DEF Balanced, PaidOut

\* The balances after the payer sent `sum` to an account, itself perhaps.
Moved(balances, next, payer, to, sum) ==
    LET debited == [balances EXCEPT ![payer] = @ - sum]
    IN  next = [debited EXCEPT ![to] = @ + sum]

\* Paying a claim and logging it keeps the balances what the log says.
LEMMA PaymentBalances ==
    ASSUME NEW S, NEW amount, NEW accounts, Payable(S, amount, accounts),
           IsFiniteSet(accounts), NEW payer \in accounts,
           NEW balances \in [accounts -> Nat], NEW total \in Nat,
           NEW log \in Seq(S), NEW e \in S,
           Balanced(balances, total, log, amount, accounts, payer),
           NEW next, Moved(balances, next, payer, e.receiver, amount[e.grant])
    PROVE  Balanced(next, total, Append(log, e), amount, accounts, payer)
  <1> DEFINE longer == Append(log, e)
             to == e.receiver
             sum == amount[e.grant]
             receivers == accounts \ {payer}
             f == PaidOut(log, amount, accounts)
             g == PaidOut(longer, amount, accounts)
  <1>1. /\ to \in accounts /\ sum \in Nat /\ longer \in Seq(S)
        /\ balances[payer] \in Nat
    BY DEF Payable
  <1>2. \A a : PaidTo(longer, amount, a) =
                 IF a = to THEN PaidTo(log, amount, a) + sum ELSE PaidTo(log, amount, a)
    BY PaidToGrows
  <1>3. Summable(f, receivers) /\ Summable(g, receivers)
    <2>1. receivers \in SUBSET accounts
      OBVIOUS
    <2>2. Summable(f, receivers)
      <3> HIDE DEF receivers
      <3>1. QED
        BY <2>1, PaidOutSummable
    <2>3. Summable(g, receivers)
      <3> HIDE DEF receivers, longer
      <3>1. QED
        BY <1>1, <2>1, PaidOutSummable
    <2>4. QED
      BY <2>2, <2>3
  <1>4. /\ \A a \in receivers : balances[a] = PaidTo(log, amount, a)
        /\ balances[payer] = total - SumFunctionOnSet(f, receivers)
    BY BalancedIsSum
  <1>5. \A a \in accounts : f[a] = PaidTo(log, amount, a) /\ g[a] = PaidTo(longer, amount, a)
    BY DEF PaidOut
  <1>6. \A a \in receivers : a \in accounts /\ a # payer
    OBVIOUS
  <1>7. Moved(balances, next, payer, to, sum)
    OBVIOUS
  <1>8. SumFunctionOnSet(f, receivers) \in Nat
    BY <1>3, SumNatural
  <1>b. /\ \A a \in receivers : next[a] = PaidTo(longer, amount, a)
        /\ next[payer] = total - SumFunctionOnSet(g, receivers)
        => Balanced(next, total, longer, amount, accounts, payer)
    BY BalancedIsSum
  <1>r. to \in receivers <=> to # payer
    BY <1>1
  <1> HIDE DEF longer, to, sum, receivers, f, g
  <1>9. CASE to = payer
    <2>1. next = balances
      BY <1>1, <1>7, <1>9 DEF Moved
    <2>2. \A a \in receivers : PaidTo(longer, amount, a) = PaidTo(log, amount, a)
      BY <1>2, <1>6, <1>9
    <2>3. \A a \in receivers : g[a] = f[a]
      BY <1>5, <1>6, <2>2
    <2>4. SumFunctionOnSet(g, receivers) = SumFunctionOnSet(f, receivers)
      BY <1>3, <2>3, SumSame
    <2>5. Balanced(next, total, longer, amount, accounts, payer)
      BY <1>4, <1>b, <2>1, <2>2, <2>4
    <2>6. QED
      BY <2>5 DEF longer
  <1>10. CASE to # payer
    <2>1. /\ next[payer] = balances[payer] - sum
          /\ next[to] = balances[to] + sum
          /\ \A a \in receivers : a # to => next[a] = balances[a]
      BY <1>1, <1>6, <1>7, <1>10 DEF Moved
    <2>2. to \in receivers
      BY <1>10, <1>r
    <2>3. \A a \in receivers : next[a] = PaidTo(longer, amount, a)
      BY <1>2, <1>4, <2>1
    <2> DEFINE others == receivers \ {to}
    <2>4. OneFirst(f, receivers, to) /\ OneFirst(g, receivers, to)
      BY <1>3, <2>2, ReceiverFirst
    <2>5. /\ Summable(f, others)
          /\ SumFunctionOnSet(f, receivers) = f[to] + SumFunctionOnSet(f, others)
          /\ SumFunctionOnSet(g, receivers) = g[to] + SumFunctionOnSet(g, others)
      BY <2>4 DEF OneFirst
    <2>6. \A a \in others : g[a] = f[a]
      BY <1>2, <1>5, <1>6
    <2> HIDE DEF others
    <2>7. SumFunctionOnSet(g, others) = SumFunctionOnSet(f, others)
      BY <2>5, <2>6, SumSame
    <2>8. g[to] = f[to] + sum /\ f[to] \in Nat
      BY <1>1, <1>2, <1>3, <1>5, <2>2 DEF Summable
    <2>9. SumFunctionOnSet(f, others) \in Nat
      BY <2>5, SumNatural
    <2>10. SumFunctionOnSet(g, receivers) = SumFunctionOnSet(f, receivers) + sum
      BY <1>1, <2>5, <2>7, <2>8, <2>9
    <2>11. next[payer] = total - SumFunctionOnSet(g, receivers)
      BY <1>1, <1>4, <1>8, <2>1, <2>10
    <2>12. Balanced(next, total, longer, amount, accounts, payer)
      BY <1>b, <2>3, <2>11
    <2>13. QED
      BY <2>12 DEF longer
  <1>11. QED
    BY <1>9, <1>10

\* What is sent to the payer adds to its balance and to nothing else.
LEMMA FundingBalances ==
    ASSUME NEW S, NEW amount, NEW accounts, Payable(S, amount, accounts),
           IsFiniteSet(accounts), NEW payer \in accounts,
           NEW balances \in [accounts -> Nat], NEW total \in Nat, NEW sum \in Nat,
           NEW log \in Seq(S),
           Balanced(balances, total, log, amount, accounts, payer)
    PROVE  Balanced([balances EXCEPT ![payer] = @ + sum], total + sum, log,
                    amount, accounts, payer)
  <1> DEFINE next == [balances EXCEPT ![payer] = @ + sum]
             receivers == accounts \ {payer}
             paid == SumFunctionOnSet(PaidOut(log, amount, accounts), receivers)
  <1>1. /\ next[payer] = balances[payer] + sum
        /\ \A a \in receivers : next[a] = balances[a]
    OBVIOUS
  <1>2. paid \in Nat
    BY PaidOutSummable, SumNatural
  <1>3. /\ \A a \in receivers : balances[a] = PaidTo(log, amount, a)
        /\ balances[payer] = total - paid
    BY BalancedIsSum
  <1>4. /\ \A a \in receivers : next[a] = PaidTo(log, amount, a)
        /\ next[payer] = (total + sum) - paid
    <2> HIDE DEF paid, next, receivers
    <2>1. QED
      BY <1>1, <1>2, <1>3
  <1> HIDE DEF next
  <1>5. Balanced(next, total + sum, log, amount, accounts, payer)
    BY <1>4, BalancedIsSum
  <1>6. QED
    BY <1>5 DEF next

\* Before anything is paid or funded.
LEMMA NothingBalances ==
    ASSUME NEW amount, NEW accounts, IsFiniteSet(accounts), NEW payer \in accounts,
           NEW balances, balances = [a \in accounts |-> 0]
    PROVE  Balanced(balances, 0, << >>, amount, accounts, payer)
  <1> DEFINE receivers == accounts \ {payer}
             f == PaidOut(<< >>, amount, accounts)
  <1>1. ASSUME NEW a PROVE PaidTo(<< >>, amount, a) = 0
    <2>1. ClaimsFor(<< >>, a) = {}
      BY DEF ClaimsFor
    <2>2. QED
      BY <2>1, PaidToIsSum, SumOfNone
  <1>2. IsFiniteSet(receivers)
    BY FS_Subset
  <1>3. \A a \in receivers : f[a] = 0
    BY <1>1 DEF PaidOut
  <1>4. SumFunctionOnSet(f, receivers) = 0
    <2> HIDE DEF f, receivers
    <2>1. QED
      BY <1>2, <1>3, SumOfZeros
  <1>5. /\ \A a \in receivers : balances[a] = PaidTo(<< >>, amount, a)
        /\ balances[payer] = 0 - SumFunctionOnSet(f, receivers)
    BY <1>1, <1>4
  <1>6. QED
    BY <1>5, BalancedIsSum
=============================================================================

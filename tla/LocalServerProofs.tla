-------------------------- MODULE LocalServerProofs -------------------------
(***************************************************************************)
(* Theorems about the development server, for whatever its clients post;   *)
(* and, in its second half, about key generation for every list of intents.*)
(***************************************************************************)
EXTENDS LocalServer, Keygen, DataLemmas

-----------------------------------------------------------------------------
(* What is under way.                                                      *)

TaskRecords ==
    [request : Requests, params : NodeShapes, start : Nat, end : Nat,
     claims : Seq(Claims)]
Proofs == [start : Nat, end : Nat, claims : Seq(Claims)]
Calls == [task : TaskRecords, snarks : Seq(Proofs)]

\* A task's room is what its depth allows; it may still have no positions, or
\* more than claims.
Good(t) ==
    /\ t \in TaskRecords /\ t.params.depth \in Depths
    /\ NumProofs(t) <= 2 ^ t.params.depth

\* What can be proved.
Whole(t) == Good(t) /\ 0 < NumProofs(t) /\ NumProofs(t) <= Len(t.claims)

\* The proof of a task.
Cover(t) == [start |-> t.start, end |-> t.end, claims |-> SubSeq(t.claims, 1, NumProofs(t))]

\* A call of request r, with the snarks of some of its task's dependencies, the
\* first ones.
Gathered(call, made) ==
    /\ Len(call.snarks) <= Len(Dependencies(call.task))
    /\ \A j \in 1 .. Len(call.snarks) :
          /\ call.snarks[j] = Cover(Dependencies(call.task)[j])
          /\ Dependencies(call.task)[j] \in made

Frame(r, call, made) ==
    /\ call \in Calls
    /\ Good(call.task)
    /\ call.task = Top(r) \/ (Whole(Top(r)) /\ call.task \in TreeOf(Top(r)))
    /\ IF SliceFails(call.task) THEN call.snarks = <<>> ELSE Gathered(call, made)

\* A call waits for the dependency that comes after those it has.
Awaits(caller, call) ==
    /\ ~ SliceFails(caller.task)
    /\ Len(caller.snarks) < Len(Dependencies(caller.task))
    /\ call.task = Dependencies(caller.task)[Len(caller.snarks) + 1]
    /\ Whole(call.task)

Calling(r, frames, made) ==
    /\ frames \in Seq(Calls) /\ frames # <<>>
    /\ frames[1].task = Top(r)
    /\ \A k \in 1 .. Len(frames) : Frame(r, frames[k], made)
    /\ \A k \in 2 .. Len(frames) : Awaits(frames[k - 1], frames[k])

Ready(call) == HasSnarks(call) /\ ~ LacksSnarks(call)

Types ==
    /\ phase \in [Requests -> {"new", "working", "proved"} \cup Ended]
    /\ stack \in [Requests -> Seq(Calls)]
    /\ prover \in Requests \cup {NoRequest}
    /\ answer \in [Requests -> Proofs]

StackOK(r) ==
    IF phase[r] = "working" THEN Calling(r, stack[r], stored) ELSE stack[r] = <<>>

AnswerOK(r) ==
    /\ phase[r] \in {"proved", "answered"} => Whole(Top(r)) /\ Top(r) \in stored
    /\ phase[r] = "proved" \/ (phase[r] = "answered" /\ ForEvm(r)) =>
          answer[r] = Cover(Top(r))

ProverBusy ==
    prover # NoRequest => phase[prover] = "working" /\ Ready(Innermost(prover))

\* A leaf's circuit takes as many claims as its range has.
Fits(t) == IsLeafTask(t) => Len(t.claims) = NumProofs(t)

Stored ==
    \A t \in stored :
        /\ \E r \in Requests : Whole(Top(r)) /\ t \in TreeOf(Top(r))
        /\ Fits(t)

IInv ==
    /\ Types
    /\ \A r \in Requests : StackOK(r) /\ AnswerOK(r)
    /\ ProverBusy
    /\ Stored

-----------------------------------------------------------------------------
(* What the clients ask for.                                               *)

\* The posted fields, and what is taken for those left out.
LEMMA PostedFields ==
  ASSUME NEW r \in Requests
  PROVE  /\ Posted[r].start \in Nat /\ Posted[r].end \in Nat
         /\ Posted[r].start < Word /\ Posted[r].end < Word /\ Word \in Nat
         /\ Posted[r].claims \in Seq(Claims)
         /\ Depth(r) \in Depths /\ InitialDepth(r) \in Nat
         /\ IsFinal(r) \in BOOLEAN /\ ForEvm(r) \in BOOLEAN
         /\ Given(Posted[r].rounds, EXTRA_ROUNDS) \in Nat
  <1>1. Posted[r] \in Fields
    BY LocalServerAssumption
  <1>2. /\ Posted[r].depth \in Depths \cup {Absent}
        /\ Posted[r].initial_depth \in Nat \cup {Absent}
        /\ Posted[r].rounds \in Nat \cup {Absent}
        /\ Posted[r].is_final \in BOOLEAN \cup {Absent}
        /\ Posted[r].for_evm \in BOOLEAN \cup {Absent}
    BY <1>1 DEF Fields, Optional
  <1>3. INITIAL_DEPTH \in Depths /\ INITIAL_DEPTH \in Nat /\ EXTRA_ROUNDS \in Nat
    BY LocalServerAssumption DEF Depths
  <1>4. /\ Posted[r].start \in 0 .. Word - 1 /\ Posted[r].end \in 0 .. Word - 1
        /\ Posted[r].claims \in Seq(Claims) /\ Word \in Nat
    BY <1>1, LocalServerAssumption DEF Fields
  <1>5. /\ Depth(r) \in Depths /\ InitialDepth(r) \in Nat
        /\ Given(Posted[r].rounds, EXTRA_ROUNDS) \in Nat
    BY <1>2, <1>3 DEF Depth, InitialDepth, Given
  <1>6. IsFinal(r) \in BOOLEAN /\ ForEvm(r) \in BOOLEAN
    BY <1>2, Zenon DEF IsFinal, ForEvm, Given
  <1>7. QED
    BY <1>4, <1>5, <1>6

LEMMA DepthDoubles == \A d \in Depths : d \in Nat /\ Doubles(d)
  <1>1. \A d \in Depths : d \in 0 .. 32 /\ d \in Nat
    BY DEF Depths
  <1>2. QED
    BY <1>1, Powers

LEMMA TopShape ==
  ASSUME NEW r \in Requests, WellFormed(TopParams(r))
  PROVE  TopParams(r) \in NodeShapes /\ TopParams(r).depth = Depth(r)
  <1>1. /\ Depth(r) \in Nat /\ InitialDepth(r) \in Nat
        /\ IsFinal(r) \in BOOLEAN /\ ForEvm(r) \in BOOLEAN
        /\ Given(Posted[r].rounds, EXTRA_ROUNDS) \in Nat
    BY PostedFields, DepthDoubles, Zenon
  <1>2. \E w \in NodeTypes, n \in Nat :
           TopParams(r) = Params(w, n, Depth(r), InitialDepth(r))
    <2>1. CASE IsFinal(r) /\ ForEvm(r)
      BY <1>1, <2>1 DEF TopParams, NodeTypes
    <2>2. CASE IsFinal(r) /\ ~ ForEvm(r)
      BY <1>1, <2>2 DEF TopParams, NodeTypes
    <2>3. CASE ~ IsFinal(r)
      <3>1. TopParams(r) = Params(IF Depth(r) = InitialDepth(r) THEN "Leaf"
                                  ELSE "Intermediate", 0, Depth(r), InitialDepth(r))
        BY <1>1, <2>3 DEF TopParams
      <3>2. QED
        BY <3>1 DEF NodeTypes
    <2>4. QED
      BY <2>1, <2>2, <2>3
  <1>3. QED
    BY <1>1, <1>2 DEF Params, NodeShapes, WellFormed

LEMMA TopFields ==
  ASSUME NEW r
  PROVE  /\ Top(r).request = r /\ Top(r).params = TopParams(r)
         /\ Top(r).start = Posted[r].start /\ Top(r).end = Posted[r].end
         /\ Top(r).claims = Posted[r].claims
         /\ NumProofs(Top(r)) = Posted[r].end - Posted[r].start
  BY DEF Top, Task, NumProofs

\* A range that is not refused fits into the tree.
LEMMA TopGood ==
  ASSUME NEW r \in Requests, WellFormed(TopParams(r)), ~ Refusable(r)
  PROVE  Good(Top(r))
  <1> DEFINE s == Posted[r].start
             e == Posted[r].end
             room == 2 ^ Depth(r)
  <1>1. /\ s \in Nat /\ e \in Nat /\ s < Word /\ e < Word /\ Word \in Nat
        /\ Posted[r].claims \in Seq(Claims) /\ Depth(r) \in Depths
    BY PostedFields
  <1>2. TopParams(r) \in NodeShapes /\ TopParams(r).depth = Depth(r)
    BY TopShape
  <1>3. room \in Nat /\ ~((e + Word - s) % Word > room)
    <2>1. Doubles(Depth(r))
      BY <1>1, DepthDoubles, Zenon
    <2>2. QED
      BY <2>1 DEF Doubles, Refusable, Difference
  <1>4. Top(r) \in TaskRecords
    BY <1>1, <1>2 DEF Top, Task, TaskRecords
  <1> HIDE DEF s, e, room
  <1>5. e - s <= room
    <2>1. CASE s <= e
      <3>1. (e + Word - s) % Word = e - s
        <4>1. e - s \in 0 .. Word - 1
          BY <1>1, <2>1
        <4>2. e + Word - s = (e - s) + Word
          BY <1>1
        <4>3. ((e - s) + Word) % Word = e - s
          BY <1>1, <4>1
        <4>4. QED
          BY <4>2, <4>3
      <3>2. QED
        BY <1>1, <1>3, <3>1
    <2>2. CASE e < s
      BY <1>1, <1>3, <2>2
    <2>3. QED
      BY <1>1, <2>1, <2>2
  <1>6. QED
    BY <1>1, <1>2, <1>4, <1>5, TopFields DEF Good, s, e, room

-----------------------------------------------------------------------------
(* How a task is cut.                                                      *)

LEMMA PieceCount ==
  ASSUME NEW n \in Int, NEW c \in Nat, c # 0, n <= c + c
  PROVE  /\ n > 0 => (n + c - 1) \div c = IF n <= c THEN 1 ELSE 2
         /\ n <= 0 => (n + c - 1) \div c <= 0
  OBVIOUS

Half(t) == 2 ^ Child(t.params).depth
Pieces(t) ==
    IF NumProofs(t) <= 0 THEN 0 ELSE IF NumProofs(t) <= Half(t) THEN 1 ELSE 2

\* A task that is not a leaf is cut in two pieces, or is one, or has none.
LEMMA Cut ==
  ASSUME NEW t, Good(t), ~ IsLeafTask(t)
  PROVE  /\ Half(t) \in Nat \ {0} /\ Pieces(t) \in {0, 1, 2}
         /\ NumProofs(t) \in Int /\ NumProofs(t) <= Half(t) + Half(t)
         /\ Child(t.params) \in NodeShapes /\ Child(t.params).depth \in Depths
         /\ Len(Dependencies(t)) = Pieces(t)
         /\ DOMAIN Dependencies(t) = 1 .. Pieces(t)
         /\ \A k \in 1 .. Pieces(t) : Dependencies(t)[k] = Piece(t, Half(t), k)
  <1> DEFINE c == Half(t)
             n == NumProofs(t)
             p == t.params
  <1>1. /\ p \in NodeShapes /\ p.depth # p.initial_depth /\ p.depth \in Depths
        /\ n \in Int /\ n <= 2 ^ p.depth
        /\ p.depth \in Nat /\ p.initial_depth \in Nat /\ p.initial_depth <= p.depth
    BY DEF Good, TaskRecords, IsLeafTask, NumProofs, NodeShapes, WellFormed
  <1>2. /\ Child(p) \in NodeShapes
        /\ Child(p).depth = ChildDepth(p)
    BY <1>1, ChildIsNearer
  <1>3. c = 2 ^ ChildDepth(p)
    BY <1>2 DEF Half
  <1> HIDE DEF c, n, p
  <1>4. ASSUME p.node_type = "Evm"
        PROVE  c \in Nat \ {0} /\ n <= c + c /\ ChildDepth(p) \in Depths
    <2>1. Doubles(p.depth)
      BY <1>1, DepthDoubles
    <2>2. c \in Nat \ {0} /\ n <= c + c /\ ChildDepth(p) \in Depths
      BY <1>1, <1>3, <1>4, <2>1 DEF ChildDepth, Doubles
    <2>3. QED
      BY <2>2
  <1>5. ASSUME p.node_type # "Evm"
        PROVE  c \in Nat \ {0} /\ n <= c + c /\ ChildDepth(p) \in Depths
    <2>1. p.depth - 1 \in 0 .. 32 /\ (p.depth - 1) + 1 = p.depth
      BY <1>1 DEF Depths
    <2>2. Doubles(p.depth - 1)
      BY <2>1, Powers
    <2>3. c \in Nat \ {0} /\ 2 ^ p.depth = 2 * c
      BY <1>3, <1>5, <2>1, <2>2 DEF ChildDepth, Doubles
    <2>4. ChildDepth(p) \in Depths
      BY <1>1, <1>5 DEF ChildDepth, Depths
    <2>5. QED
      BY <1>1, <2>3, <2>4
  <1>6. c \in Nat \ {0} /\ n <= c + c /\ ChildDepth(p) \in Depths
    BY <1>4, <1>5
  <1>7. /\ n > 0 => (n + c - 1) \div c = IF n <= c THEN 1 ELSE 2
        /\ n <= 0 => (n + c - 1) \div c <= 0
    BY <1>1, <1>6, PieceCount
  <1>8. (n + c - 1) \div c \in Int
    BY <1>1, <1>6
  <1>9. 1 .. (n + c - 1) \div c = 1 .. Pieces(t)
    BY <1>1, <1>7, <1>8 DEF Pieces, c, n
  <1>10. Dependencies(t) = [k \in 1 .. (n + c - 1) \div c |-> Piece(t, c, k)]
    BY Zenon DEF Dependencies, Half, c, n
  <1>11. Dependencies(t) = [k \in 1 .. Pieces(t) |-> Piece(t, c, k)]
    BY <1>9, <1>10
  <1>12. Pieces(t) \in {0, 1, 2}
    BY DEF Pieces
  <1>13. Len(Dependencies(t)) = Pieces(t)
    <2>1. Dependencies(t) = [k \in 1 .. Pieces(t) |-> Dependencies(t)[k]]
      BY <1>11
    <2>2. QED
      BY <1>12, <2>1, FunctionLength
  <1>14. QED
    BY <1>1, <1>2, <1>6, <1>11, <1>12, <1>13 DEF c, n, p

\* Where the k-th piece lies: the first one is full when there are two.
From(t, k) == IF k = 1 THEN t.start ELSE t.start + Half(t)
To(t, k) == IF k = Pieces(t) THEN t.end ELSE t.start + Half(t)

LEMMA Piecemeal ==
  ASSUME NEW t, Whole(t), ~ IsLeafTask(t), NEW k \in 1 .. Pieces(t)
  PROVE  LET d == Dependencies(t)[k]
         IN  /\ Whole(d)
             /\ d.request = t.request /\ d.start = From(t, k) /\ d.end = To(t, k)
             /\ d.claims = SubSeq(t.claims, From(t, k) - t.start + 1, To(t, k) - t.start)
             /\ Len(d.claims) = NumProofs(d)
  <1> DEFINE d == Dependencies(t)[k]
             c == Half(t)
             n == NumProofs(t)
             from == From(t, k)
             to == To(t, k)
             from0 == t.start + (k - 1) * c
             to0 == IF from0 + c < t.end THEN from0 + c ELSE t.end
  <1>1. /\ t.start \in Nat /\ t.end \in Nat /\ t.claims \in Seq(Claims)
        /\ Len(t.claims) \in Nat /\ t.request \in Requests
        /\ n = t.end - t.start /\ n \in Nat \ {0} /\ n <= Len(t.claims)
    BY DEF Whole, Good, TaskRecords, NumProofs
  <1>2. /\ c \in Nat \ {0} /\ n <= c + c
        /\ Child(t.params) \in NodeShapes /\ Child(t.params).depth \in Depths
        /\ d = Piece(t, c, k)
    BY Cut DEF Whole
  <1>3. /\ k \in {1, 2} /\ (k = 2 => n > c)
        /\ n <= c => Pieces(t) = 1
        /\ n > c => Pieces(t) = 2
    BY <1>1, <1>2 DEF Pieces
  <1>4. d = Task(t.request, Child(t.params), from0, to0,
                 SubSeq(t.claims, from0 - t.start + 1, to0 - t.start))
    BY <1>2, Zenon DEF Piece
  <1>5. c = 2 ^ Child(t.params).depth
    BY DEF Half
  <1>h. /\ from = IF k = 1 THEN t.start ELSE t.start + c
        /\ to = IF k = Pieces(t) THEN t.end ELSE t.start + c
    BY DEF From, To
  <1> HIDE DEF c, n, d, from, to
  <1>e. (k = 1 /\ n <= c) \/ (k = 1 /\ n > c) \/ k = 2
    BY <1>1, <1>2, <1>3
  <1>6. from0 = from /\ to0 = to
    <2>1. from0 = from
      BY <1>1, <1>2, <1>3, <1>h
    <2>2. CASE k = 1 /\ n <= c
      BY <1>1, <1>2, <1>3, <1>h, <2>1, <2>2
    <2>3. CASE k = 1 /\ n > c
      BY <1>1, <1>2, <1>3, <1>h, <2>1, <2>3
    <2>4. CASE k = 2
      BY <1>1, <1>2, <1>3, <1>h, <2>1, <2>4
    <2>5. QED
      BY <1>e, <2>1, <2>2, <2>3, <2>4
  <1>m. /\ t.start \in Int /\ t.end \in Int /\ c \in Int
        /\ 0 <= t.start /\ 0 < c
        /\ t.start < t.end /\ t.end - t.start <= c + c /\ n = t.end - t.start
    BY <1>1, <1>2
  <1>7. /\ from \in Nat /\ to \in Nat /\ t.start <= from /\ to <= t.end
        /\ to - from \in 1 .. c
    <2>1. CASE k = 1 /\ n <= c
      <3>1. from = t.start /\ to = t.end
        BY <1>3, <1>h, <2>1
      <3>2. QED
        BY <1>m, <2>1, <3>1
    <2>2. CASE k = 1 /\ n > c
      <3>1. from = t.start /\ to = t.start + c
        BY <1>3, <1>h, <2>2
      <3>2. QED
        BY <1>m, <2>2, <3>1
    <2>3. CASE k = 2
      <3>1. from = t.start + c /\ to = t.end /\ n > c
        BY <1>1, <1>2, <1>3, <1>h, <2>3
      <3>2. QED
        BY <1>m, <3>1
    <2>4. QED
      BY <1>e, <2>1, <2>2, <2>3
  <1> HIDE DEF from0, to0
  <1>8. /\ d.request = t.request /\ d.params = Child(t.params)
        /\ d.start = from /\ d.end = to
        /\ d.claims = SubSeq(t.claims, from - t.start + 1, to - t.start)
        /\ d = [request |-> d.request, params |-> d.params, start |-> d.start,
                end |-> d.end, claims |-> d.claims]
    BY <1>4, <1>6 DEF Task
  <1>9. d.claims \in Seq(Claims) /\ Len(d.claims) = to - from
    <2>n. /\ from \in Int /\ to \in Int /\ t.start \in Int /\ t.start <= from /\ from < to
          /\ to - t.start <= Len(t.claims) /\ Len(t.claims) \in Int
      BY <1>1, <1>7
    <2>1. \A i \in from - t.start + 1 .. to - t.start : i \in 1 .. Len(t.claims)
      BY <2>n
    <2>2. \A i \in from - t.start + 1 .. to - t.start : t.claims[i] \in Claims
      BY <1>1, <2>1
    <2> DEFINE i == from - t.start + 1
               j == to - t.start
    <2>3. i \in Int /\ j \in Int /\ i <= j /\ j - i + 1 = to - from
      BY <2>n
    <2> HIDE DEF i, j
    <2>4. /\ SubSeq(t.claims, i, j) \in Seq(Claims)
          /\ Len(SubSeq(t.claims, i, j)) = j - i + 1
      BY <2>2, <2>3, SubSeqProperties DEF i, j
    <2>5. QED
      BY <1>8, <2>3, <2>4 DEF i, j
  <1>10. d \in TaskRecords
    BY <1>1, <1>2, <1>7, <1>8, <1>9 DEF TaskRecords
  <1>11. NumProofs(d) = to - from
    BY <1>8 DEF NumProofs
  <1>12. Whole(d)
    <2>1. NumProofs(d) <= 2 ^ d.params.depth /\ d.params.depth \in Depths
      <3>1. c = 2 ^ d.params.depth /\ d.params.depth \in Depths
        BY <1>2, <1>5, <1>8
      <3>2. NumProofs(d) <= c
        BY <1>2, <1>7, <1>11
      <3>3. QED
        BY <3>1, <3>2
    <2>2. 0 < NumProofs(d) /\ NumProofs(d) <= Len(d.claims)
      BY <1>2, <1>7, <1>9, <1>11
    <2>3. QED
      BY <1>10, <2>1, <2>2 DEF Whole, Good
  <1>13. QED
    BY <1>8, <1>9, <1>11, <1>12 DEF d, from, to

\* The proof of a task that has exactly its claims covers them all.
LEMMA CoverOfWhole ==
  ASSUME NEW t, Whole(t)
  PROVE  /\ Cover(t) \in Proofs
         /\ Len(t.claims) = NumProofs(t) => Cover(t).claims = t.claims
  <1>1. /\ t.start \in Nat /\ t.end \in Nat /\ t.claims \in Seq(Claims)
        /\ NumProofs(t) \in Nat /\ NumProofs(t) <= Len(t.claims)
    BY DEF Whole, Good, TaskRecords, NumProofs
  <1>2. SubSeq(t.claims, 1, NumProofs(t)) \in Seq(Claims)
    <2>1. \A i \in 1 .. NumProofs(t) : t.claims[i] \in Claims
      BY <1>1
    <2>2. QED
      BY <1>1, <2>1, SubSeqProperties
  <1>3. Len(t.claims) = NumProofs(t) => SubSeq(t.claims, 1, NumProofs(t)) = t.claims
    BY <1>1, SubSeqFull
  <1>4. QED
    BY <1>1, <1>2, <1>3 DEF Cover, Proofs

\* What is proved from all the pieces is the proof of the task.
LEMMA JoinCovers ==
  ASSUME NEW call \in Calls, NEW made, Whole(call.task), ~ SliceFails(call.task),
         Gathered(call, made), HasSnarks(call), Provable(call)
  PROVE  ProofOf(call) = Cover(call.task)
  <1> DEFINE t == call.task
             s == call.snarks
             n == NumProofs(t)
             c == Half(t)
  <1>1. CASE IsLeafTask(t)
    <2>1. Cover(t).claims = t.claims
      BY <1>1, CoverOfWhole DEF Provable
    <2>2. QED
      BY <1>1, <2>1 DEF ProofOf, Cover
  <1>2. CASE ~ IsLeafTask(t)
    <2>1. /\ Len(s) = Pieces(t) /\ Pieces(t) \in {1, 2}
          /\ c \in Nat \ {0} /\ n \in Nat \ {0}
          /\ n <= c => Pieces(t) = 1
          /\ n > c => Pieces(t) = 2
      BY <1>2, Cut DEF Whole, HasSnarks, Pieces
    <2>2. \A k \in 1 .. Pieces(t) : s[k] = Cover(Dependencies(t)[k])
      BY <2>1 DEF Gathered
    <2>3. ASSUME NEW k \in 1 .. Pieces(t)
          PROVE  /\ s[k].start = From(t, k) /\ s[k].end = To(t, k)
                 /\ s[k].claims =
                      SubSeq(t.claims, From(t, k) - t.start + 1, To(t, k) - t.start)
      <3> DEFINE d == Dependencies(t)[k]
      <3>1. /\ Whole(d) /\ d.start = From(t, k) /\ d.end = To(t, k)
            /\ d.claims = SubSeq(t.claims, From(t, k) - t.start + 1, To(t, k) - t.start)
            /\ Len(d.claims) = NumProofs(d)
        BY <1>2, Piecemeal
      <3>2. s[k] = Cover(d)
        BY <2>2
      <3> HIDE DEF d
      <3>3. Cover(d).claims = d.claims
        BY <3>1, CoverOfWhole
      <3>4. Cover(d).start = d.start /\ Cover(d).end = d.end
        BY DEF Cover
      <3>5. QED
        BY <3>1, <3>2, <3>3, <3>4
    <2>4. /\ t.start \in Nat /\ t.end \in Nat /\ t.claims \in Seq(Claims)
          /\ n = t.end - t.start /\ n <= Len(t.claims)
      BY DEF Whole, Good, TaskRecords, NumProofs
    <2>5. /\ s[1].start = t.start
          /\ s[Len(s)].end = t.end
      BY <2>1, <2>3 DEF From, To
    <2>6. (IF Len(s) = 1 THEN s[Len(s)].claims ELSE s[1].claims \o s[Len(s)].claims)
             = SubSeq(t.claims, 1, n)
      <3> HIDE DEF c, n
      <3>1. CASE Pieces(t) = 1
        <4>1. s[1].claims = SubSeq(t.claims, t.start - t.start + 1, t.end - t.start)
          BY <2>3, <3>1 DEF From, To
        <4>2. t.start - t.start + 1 = 1
          BY <2>4
        <4>3. QED
          BY <2>1, <2>4, <3>1, <4>1, <4>2
      <3>2. CASE Pieces(t) = 2
        <4>1. 1 \in 1 .. Pieces(t) /\ 2 \in 1 .. Pieces(t)
          BY <3>2
        <4>2. s[1].claims = SubSeq(t.claims, 1, c) /\ s[2].claims = SubSeq(t.claims, c + 1, n)
          <5>1. /\ From(t, 1) = t.start /\ To(t, 1) = t.start + c
                /\ From(t, 2) = t.start + c /\ To(t, 2) = t.end
            BY <3>2 DEF From, To, c
          <5>2. /\ From(t, 1) - t.start + 1 = 1 /\ To(t, 1) - t.start = c
                /\ From(t, 2) - t.start + 1 = c + 1 /\ To(t, 2) - t.start = n
            BY <2>1, <2>4, <5>1
          <5>3. /\ s[1].claims =
                     SubSeq(t.claims, From(t, 1) - t.start + 1, To(t, 1) - t.start)
                /\ s[2].claims =
                     SubSeq(t.claims, From(t, 2) - t.start + 1, To(t, 2) - t.start)
            BY <2>3, <4>1
          <5>4. QED
            BY <5>2, <5>3
        <4>3. /\ 1 \in 1 .. Len(t.claims) + 1
              /\ c \in 1 - 1 .. Len(t.claims) /\ n \in c .. Len(t.claims)
          BY <2>1, <2>4, <3>2
        <4>4. SubSeq(t.claims, 1, c) \o SubSeq(t.claims, c + 1, n) = SubSeq(t.claims, 1, n)
          BY <2>4, <4>3, ConcatAdjacentSubSeq
        <4>5. s[1].claims \o s[2].claims = SubSeq(t.claims, 1, n)
          BY <4>2, <4>4
        <4>6. QED
          BY <2>1, <3>2, <4>5
      <3>3. QED
        BY <2>1, <3>1, <3>2
    <2>7. ProofOf(call) =
             [start |-> s[1].start, end |-> s[Len(s)].end,
              claims |-> IF Len(s) = 1 THEN s[Len(s)].claims
                         ELSE s[1].claims \o s[Len(s)].claims]
      BY <1>2, Zenon DEF ProofOf
    <2>8. QED
      BY <2>5, <2>6, <2>7 DEF Cover
  <1>3. QED
    BY <1>1, <1>2

-----------------------------------------------------------------------------
(* The calls under way.                                                    *)

LEMMA DependencyCount ==
  ASSUME NEW t, Good(t)
  PROVE  Len(Dependencies(t)) \in Nat
  <1>1. CASE IsLeafTask(t)
    BY <1>1, LeafNeedsNothing
  <1>2. CASE ~ IsLeafTask(t)
    BY <1>2, Cut
  <1>3. QED
    BY <1>1, <1>2

\* A task with a dependency and without a slice that fails can be proved.
LEMMA WholeToCut ==
  ASSUME NEW t, Good(t), ~ SliceFails(t), Len(Dependencies(t)) > 0
  PROVE  Whole(t) /\ ~ IsLeafTask(t)
  <1>1. ~ IsLeafTask(t)
    BY LeafNeedsNothing
  <1>2. Pieces(t) # 0
    BY <1>1, Cut
  <1>3. NumProofs(t) \in Int /\ Len(t.claims) \in Nat
    BY DEF Good, TaskRecords, NumProofs
  <1>4. QED
    BY <1>1, <1>2, <1>3 DEF Pieces, SliceFails, Whole

\* Whatever can be proved of a request, its top task can.
LEMMA FrameOfWhole ==
  ASSUME NEW r, NEW call, NEW made, Frame(r, call, made), Whole(call.task)
  PROVE  Whole(Top(r)) /\ call.task \in TreeOf(Top(r))
  <1>1. Whole(Top(r))
    BY DEF Frame
  <1>2. Top(r).params \in NodeShapes
    BY <1>1 DEF Whole, Good, TaskRecords
  <1>3. QED
    BY <1>1, <1>2, TreeClosed DEF Frame

\* The next dependency of a call.
LEMMA NextDependency ==
  ASSUME NEW r, NEW call, NEW made, Frame(r, call, made), ~ SliceFails(call.task),
         Len(call.snarks) < Len(Dependencies(call.task))
  PROVE  LET d == Dependencies(call.task)[Len(call.snarks) + 1]
         IN  Whole(d) /\ Whole(Top(r)) /\ d \in TreeOf(Top(r))
  <1> DEFINE t == call.task
             k == Len(call.snarks) + 1
             d == Dependencies(t)[k]
  <1>1. Good(t) /\ call \in Calls /\ Len(call.snarks) \in Nat /\ Len(Dependencies(t)) \in Nat
    BY DependencyCount DEF Frame, Calls
  <1>2. Whole(t) /\ ~ IsLeafTask(t)
    BY <1>1, WholeToCut
  <1>3. k \in 1 .. Pieces(t) /\ DOMAIN Dependencies(t) = 1 .. Pieces(t)
    BY <1>1, <1>2, Cut
  <1> HIDE DEF k
  <1>4. Whole(d)
    BY <1>2, <1>3, Piecemeal
  <1>5. d \in DependencySet(t)
    BY <1>3 DEF DependencySet
  <1>6. Whole(Top(r)) /\ t \in TreeOf(Top(r))
    BY <1>2, FrameOfWhole
  <1>7. Top(r).params \in NodeShapes
    BY <1>6 DEF Whole, Good, TaskRecords
  <1>8. d \in TreeOf(Top(r))
    BY <1>5, <1>6, <1>7, TreeClosed
  <1>9. QED
    BY <1>4, <1>6, <1>8 DEF k

\* A task's own call starts without snarks.
LEMMA NewFrame ==
  ASSUME NEW r, NEW t, NEW made, Good(t),
         t = Top(r) \/ (Whole(Top(r)) /\ t \in TreeOf(Top(r)))
  PROVE  Frame(r, Call(t), made)
  <1>1. Call(t).task = t /\ Call(t).snarks = <<>>
    BY DEF Call
  <1>2. Len(<<>>) = 0 /\ <<>> \in Seq(Proofs)
    OBVIOUS
  <1>3. Call(t) \in Calls
    BY <1>2 DEF Calls, Call, Good
  <1>4. Gathered(Call(t), made)
    BY <1>1, <1>2, DependencyCount DEF Gathered
  <1>5. QED
    BY <1>1, <1>3, <1>4 DEF Frame

\* More proofs do no harm.
LEMMA FrameGrows ==
  ASSUME NEW r, NEW call, NEW made, NEW more, made \subseteq more, Frame(r, call, made)
  PROVE  Frame(r, call, more)
  BY DEF Frame, Gathered

LEMMA CallingGrows ==
  ASSUME NEW r, NEW frames, NEW made, NEW more, made \subseteq more,
         Calling(r, frames, made)
  PROVE  Calling(r, frames, more)
  BY FrameGrows DEF Calling

LEMMA InnermostFrame ==
  ASSUME NEW r, NEW frames, NEW made, Calling(r, frames, made)
  PROVE  /\ Len(frames) \in Nat \ {0}
         /\ \A k \in 1 .. Len(frames) : frames[k] \in Calls
         /\ Frame(r, frames[Len(frames)], made)
         /\ Frame(r, frames[1], made)
  BY DEF Calling

\* A step of one request's handler does not disturb the others.
LEMMA Others ==
  ASSUME IInv, NEW r, stored \subseteq stored',
         \A q \in Requests \ {r} :
            phase'[q] = phase[q] /\ stack'[q] = stack[q] /\ answer'[q] = answer[q]
  PROVE  \A q \in Requests \ {r} : StackOK(q)' /\ AnswerOK(q)'
  <1> SUFFICES ASSUME NEW q \in Requests \ {r} PROVE StackOK(q)' /\ AnswerOK(q)'
    OBVIOUS
  <1>1. StackOK(q) /\ AnswerOK(q)
    BY DEF IInv
  <1>2. StackOK(q)'
    <2>1. CASE phase[q] = "working"
      <3>1. Calling(q, stack[q], stored')
        BY <1>1, <2>1, CallingGrows DEF StackOK
      <3>2. QED
        BY <2>1, <3>1 DEF StackOK
    <2>2. CASE phase[q] # "working"
      BY <1>1, <2>2 DEF StackOK
    <2>3. QED
      BY <2>1, <2>2
  <1>3. AnswerOK(q)'
    BY <1>1 DEF AnswerOK
  <1>4. QED
    BY <1>2, <1>3

\* A handler that ends, one way or another.
LEMMA EndKeeps ==
  ASSUME IInv, NEW r \in Requests, NEW out \in Ended, End(r, out),
         UNCHANGED <<stored, answer>>,
         prover' = NoRequest \/ (prover' = prover /\ prover # r),
         out # "answered"
  PROVE  IInv'
  <1>1. Types'
    BY DEF IInv, Types, End
  <1>2. /\ phase'[r] = out /\ stack'[r] = <<>>
        /\ \A q \in Requests \ {r} : phase'[q] = phase[q] /\ stack'[q] = stack[q]
    BY DEF IInv, Types, End
  <1>3. \A q \in Requests \ {r} : StackOK(q)' /\ AnswerOK(q)'
    BY <1>2, Others
  <1>4. StackOK(r)'
    BY <1>2 DEF StackOK, Ended
  <1>5. AnswerOK(r)'
    BY <1>2 DEF IInv, AnswerOK, Ended
  <1>6. ProverBusy'
    <2> SUFFICES ASSUME prover' # NoRequest
                 PROVE  (phase[prover] = "working" /\ Ready(Innermost(prover)))'
      BY DEF ProverBusy
    <2>1. prover' = prover /\ prover \in Requests \ {r}
      BY DEF IInv, Types
    <2>2. phase[prover] = "working" /\ Ready(Innermost(prover))
      BY <2>1 DEF IInv, ProverBusy
    <2>3. Innermost(prover)' = Innermost(prover)
      BY <1>2, <2>1 DEF Innermost
    <2>4. QED
      BY <1>2, <2>1, <2>2, <2>3
  <1>7. Stored'
    BY DEF IInv, Stored
  <1>8. QED
    BY <1>1, <1>3, <1>4, <1>5, <1>6, <1>7 DEF IInv

LEMMA InitKeeps == ASSUME Init PROVE IInv
  <1>1. Nothing \in Proofs
    <2>1. <<>> \in Seq(Claims)
      OBVIOUS
    <2>2. QED
      BY <2>1 DEF Nothing, Proofs
  <1>2. Types
    <2>1. <<>> \in Seq(Calls)
      OBVIOUS
    <2>2. QED
      BY <1>1, <2>1 DEF Init, Types
  <1>3. \A r \in Requests : StackOK(r) /\ AnswerOK(r)
    BY DEF Init, StackOK, AnswerOK
  <1>4. ProverBusy /\ Stored
    BY DEF Init, ProverBusy, Stored
  <1>5. QED
    BY <1>2, <1>3, <1>4 DEF IInv

\* Only one request's calls change, and the prover is not at work for them.
LEMMA ProverElsewhere ==
  ASSUME ProverBusy, Types, NEW r, prover' = prover, prover # r,
         \A q \in Requests \ {r} : phase'[q] = phase[q] /\ stack'[q] = stack[q]
  PROVE  ProverBusy'
  <1> SUFFICES ASSUME prover' # NoRequest
               PROVE  (phase[prover] = "working" /\ Ready(Innermost(prover)))'
    BY DEF ProverBusy
  <1>1. prover' = prover /\ prover \in Requests \ {r}
    BY DEF Types
  <1>2. phase[prover] = "working" /\ Ready(Innermost(prover))
    BY <1>1 DEF ProverBusy
  <1>3. Innermost(prover)' = Innermost(prover)
    BY <1>1 DEF Innermost
  <1>4. QED
    BY <1>1, <1>2, <1>3

LEMMA BeginKeeps == ASSUME IInv, NEW r \in Requests, Begin(r) PROVE IInv'
  <1> DEFINE call == Call(Top(r))
  <1>1. /\ phase'[r] = "working" /\ stack'[r] = <<call>>
        /\ \A q \in Requests \ {r} : phase'[q] = phase[q] /\ stack'[q] = stack[q]
    BY DEF IInv, Types, Begin
  <1>2. Frame(r, call, stored)
    BY TopGood, NewFrame DEF Begin
  <1>3. call \in Calls /\ call.task = Top(r)
    BY <1>2 DEF Frame, Call
  <1> HIDE DEF call
  <1>4. Calling(r, <<call>>, stored)
    <2>1. /\ <<call>> \in Seq(Calls) /\ <<call>> # <<>> /\ Len(<<call>>) = 1
          /\ <<call>>[1] = call
      BY <1>3
    <2>2. \A k \in 1 .. 1 : k = 1
      OBVIOUS
    <2>3. \A k \in 2 .. 1 : FALSE
      OBVIOUS
    <2>4. QED
      BY <1>2, <1>3, <2>1, <2>2, <2>3 DEF Calling
  <1>5. StackOK(r)' /\ AnswerOK(r)'
    BY <1>1, <1>4 DEF StackOK, AnswerOK, Begin
  <1>6. \A q \in Requests \ {r} : StackOK(q)' /\ AnswerOK(q)'
    BY <1>1, Others DEF Begin
  <1>7. Types'
    <2>1. <<call>> \in Seq(Calls)
      BY <1>3
    <2>2. stack' = [stack EXCEPT ![r] = <<call>>] /\ phase' = [phase EXCEPT ![r] = "working"]
      BY DEF Begin, call
    <2>3. QED
      BY <2>1, <2>2 DEF Begin, IInv, Types
  <1>8. ProverBusy'
    <2>1. prover # r
      BY LocalServerAssumption DEF Begin, IInv, ProverBusy
    <2>2. QED
      BY <1>1, <2>1, ProverElsewhere DEF IInv, Begin
  <1>9. Stored'
    BY DEF IInv, Stored, Begin
  <1>10. QED
    BY <1>5, <1>6, <1>7, <1>8, <1>9 DEF IInv

LEMMA DescendKeeps == ASSUME IInv, NEW r \in Requests, Descend(r) PROVE IInv'
  <1> DEFINE s == stack[r]
             n == Len(s)
             caller == s[n]
             d == Dependencies(caller.task)[Len(caller.snarks) + 1]
             longer == Append(s, Call(d))
  <1>1. /\ phase[r] = "working" /\ prover # r
        /\ ~ SliceFails(caller.task) /\ ~ HasSnarks(caller)
        /\ UNCHANGED <<phase, prover, stored, answer>>
    BY DEF Descend, Working, Innermost
  <1>s. stack' = [stack EXCEPT ![r] = longer]
    BY DEF Descend, Innermost
  <1>2. Calling(r, s, stored)
    BY <1>1 DEF IInv, StackOK
  <1>3. n \in Nat \ {0} /\ s \in Seq(Calls) /\ Frame(r, caller, stored)
    BY <1>2, InnermostFrame DEF Calling
  <1>4. /\ Good(caller.task) /\ caller \in Calls
        /\ Len(caller.snarks) <= Len(Dependencies(caller.task))
        /\ Len(caller.snarks) # Len(Dependencies(caller.task))
    BY <1>1, <1>3 DEF Frame, Gathered, HasSnarks
  <1>5. Len(caller.snarks) < Len(Dependencies(caller.task))
    BY <1>4, DependencyCount DEF Calls
  <1>6. Whole(d) /\ Whole(Top(r)) /\ d \in TreeOf(Top(r))
    BY <1>1, <1>3, <1>5, NextDependency
  <1>7. Frame(r, Call(d), stored)
    BY <1>6, NewFrame DEF Whole
  <1>8. Call(d) \in Calls /\ Call(d).task = d
    BY <1>7 DEF Frame, Call
  <1>a. Awaits(caller, Call(d))
    BY <1>1, <1>5, <1>6, <1>8 DEF Awaits
  <1>9. /\ longer \in Seq(Calls) /\ longer # <<>> /\ Len(longer) = n + 1
        /\ \A k \in 1 .. n : longer[k] = s[k]
        /\ longer[n + 1] = Call(d)
    <2> HIDE DEF s, d
    <2>1. QED
      BY <1>3, <1>8, AppendAt
  <1> HIDE DEF longer, d
  <1>10. Calling(r, longer, stored)
    <2>1. longer[1].task = Top(r)
      BY <1>2, <1>3, <1>9 DEF Calling
    <2>2. ASSUME NEW k \in 1 .. Len(longer) PROVE Frame(r, longer[k], stored)
      <3>1. k \in 1 .. n \/ k = n + 1
        BY <1>3, <1>9
      <3>2. QED
        BY <1>2, <1>7, <1>9, <3>1 DEF Calling
    <2>3. ASSUME NEW k \in 2 .. Len(longer) PROVE Awaits(longer[k - 1], longer[k])
      <3>1. CASE k = n + 1
        <4>1. k - 1 = n /\ n \in 1 .. n
          BY <1>3, <3>1
        <4>2. QED
          BY <1>9, <1>a, <3>1, <4>1
      <3>2. CASE k # n + 1
        <4>1. k \in 2 .. n /\ k \in 1 .. n /\ k - 1 \in 1 .. n
          BY <1>3, <1>9, <3>2
        <4>2. QED
          BY <1>2, <1>9, <4>1 DEF Calling
      <3>3. QED
        BY <3>1, <3>2
    <2>4. QED
      BY <1>9, <2>1, <2>2, <2>3 DEF Calling
  <1>11. /\ stack'[r] = longer
         /\ \A q \in Requests \ {r} : phase'[q] = phase[q] /\ stack'[q] = stack[q]
    BY <1>1, <1>s DEF IInv, Types
  <1>12. StackOK(r)' /\ AnswerOK(r)'
    BY <1>1, <1>10, <1>11 DEF StackOK, AnswerOK
  <1>13. \A q \in Requests \ {r} : StackOK(q)' /\ AnswerOK(q)'
    BY <1>1, <1>11, Others
  <1>14. Types'
    BY <1>1, <1>s, <1>9 DEF IInv, Types
  <1>15. ProverBusy'
    BY <1>1, <1>11, ProverElsewhere DEF IInv
  <1>16. Stored'
    BY <1>1 DEF IInv, Stored
  <1>17. QED
    BY <1>12, <1>13, <1>14, <1>15, <1>16 DEF IInv

LEMMA StartKeeps == ASSUME IInv, NEW r \in Requests, StartProof(r) PROVE IInv'
  <1>1. /\ phase[r] = "working" /\ prover' = r /\ UNCHANGED <<phase, stack, stored, answer>>
        /\ Ready(Innermost(r))
    BY DEF StartProof, Working, Ready
  <1>2. Types' /\ Stored'
    BY <1>1 DEF IInv, Types, Stored
  <1>3. \A q \in Requests : StackOK(q)' /\ AnswerOK(q)'
    BY <1>1 DEF IInv, StackOK, AnswerOK
  <1>4. ProverBusy'
    BY <1>1 DEF ProverBusy, Innermost
  <1>5. QED
    BY <1>2, <1>3, <1>4 DEF IInv

\* What the prover is at work on can be proved, unless its circuit refuses it.
LEMMA ReadyIsWhole ==
  ASSUME NEW r, NEW call, NEW made, Frame(r, call, made), Ready(call), Provable(call)
  PROVE  /\ Whole(call.task) /\ ~ SliceFails(call.task)
         /\ Whole(Top(r)) /\ call.task \in TreeOf(Top(r))
         /\ ProofOf(call) = Cover(call.task)
         /\ DependencySet(call.task) \subseteq made
  <1> DEFINE t == call.task
  <1>1. Good(t) /\ call \in Calls /\ ~ SliceFails(t) /\ Gathered(call, made)
        /\ HasSnarks(call)
    BY DEF Frame, Ready, HasSnarks
  <1>2. Whole(t)
    <2>1. CASE IsLeafTask(t)
      <3>1. NumProofs(t) > 0 /\ Len(t.claims) = NumProofs(t)
        BY <2>1 DEF Provable
      <3>2. QED
        BY <1>1, <3>1 DEF Whole, Good, TaskRecords, NumProofs
    <2>2. CASE ~ IsLeafTask(t)
      <3>1. call.snarks # <<>> /\ call.snarks \in Seq(Proofs)
        BY <1>1, <2>2 DEF Ready, LacksSnarks, Calls
      <3>2. Len(call.snarks) > 0
        BY <3>1
      <3>3. Len(Dependencies(t)) > 0
        BY <1>1, <3>2 DEF HasSnarks
      <3>4. QED
        BY <1>1, <3>3, WholeToCut
    <2>3. QED
      BY <2>1, <2>2
  <1>3. ProofOf(call) = Cover(t)
    BY <1>1, <1>2, JoinCovers
  <1>4. Whole(Top(r)) /\ t \in TreeOf(Top(r))
    BY <1>2, FrameOfWhole
  <1>5. DependencySet(t) \subseteq made
    <2>1. CASE IsLeafTask(t)
      BY <2>1, LeafNeedsNothing
    <2>2. CASE ~ IsLeafTask(t)
      <3>1. DOMAIN Dependencies(t) = 1 .. Len(Dependencies(t))
        BY <1>1, <2>2, Cut
      <3>2. \A j \in 1 .. Len(Dependencies(t)) : Dependencies(t)[j] \in made
        BY <1>1 DEF Gathered, HasSnarks
      <3>3. QED
        BY <3>1, <3>2 DEF DependencySet
    <2>3. QED
      BY <2>1, <2>2
  <1>6. QED
    BY <1>1, <1>2, <1>3, <1>4, <1>5

\* What Prove adds is a task of a tree that can be proved, with what it needs.
LEMMA ProvedTask ==
  ASSUME IInv, NEW r \in Requests, Prove(r)
  PROVE  LET call == Innermost(r)
         IN  /\ Calling(r, stack[r], stored) /\ Frame(r, call, stored)
             /\ Whole(call.task) /\ ~ SliceFails(call.task)
             /\ Whole(Top(r)) /\ call.task \in TreeOf(Top(r))
             /\ ProofOf(call) = Cover(call.task)
             /\ DependencySet(call.task) \subseteq stored
             /\ stored' = stored \cup {call.task}
             /\ Fits(call.task)
  <1>1. phase[r] = "working" /\ prover = r /\ Provable(Innermost(r))
    BY DEF Prove, Proving
  <1>2. Calling(r, stack[r], stored)
    BY <1>1 DEF IInv, StackOK
  <1>3. Frame(r, Innermost(r), stored)
    BY <1>2, InnermostFrame DEF Innermost
  <1>4. Ready(Innermost(r))
    BY <1>1, LocalServerAssumption DEF IInv, ProverBusy
  <1>5. stored' = stored \cup {Innermost(r).task}
    BY DEF Prove
  <1>6. Fits(Innermost(r).task)
    BY <1>1 DEF Provable, Fits
  <1>7. QED
    BY <1>1, <1>2, <1>3, <1>4, <1>5, <1>6, ReadyIsWhole

\* A call takes the proof it waits for.
LEMMA FrameTakes ==
  ASSUME NEW r, NEW caller, NEW call, NEW made, NEW more,
         Frame(r, caller, made), Awaits(caller, call),
         made \subseteq more, call.task \in more
  PROVE  Frame(r, [caller EXCEPT !.snarks = Append(@, Cover(call.task))], more)
  <1> DEFINE s == caller.snarks
             t == caller.task
             k == Len(s)
             d == Dependencies(t)[k + 1]
             longer == Append(s, Cover(d))
             next == [caller EXCEPT !.snarks = Append(@, Cover(d))]
  <1>1. /\ caller \in Calls /\ Good(t)
        /\ t = Top(r) \/ (Whole(Top(r)) /\ t \in TreeOf(Top(r)))
        /\ ~ SliceFails(t) /\ Gathered(caller, made)
        /\ k < Len(Dependencies(t)) /\ call.task = d /\ Whole(d)
    BY DEF Frame, Awaits
  <1>2. s \in Seq(Proofs) /\ k \in Nat /\ Len(Dependencies(t)) \in Nat
    BY <1>1, DependencyCount DEF Calls
  <1>3. Cover(d) \in Proofs
    BY <1>1, CoverOfWhole
  <1>4. caller = [task |-> t, snarks |-> s]
    BY <1>1 DEF Calls
  <1>5. next.task = t /\ next.snarks = longer /\ next \in Calls
    <2>1. longer \in Seq(Proofs)
      BY <1>2, <1>3, AppendProperties
    <2>2. next.task = t /\ next.snarks = longer /\ next = [task |-> t, snarks |-> longer]
      BY <1>4
    <2>3. t \in TaskRecords
      BY <1>1 DEF Good
    <2>4. QED
      BY <2>1, <2>2, <2>3 DEF Calls
  <1>6. /\ Len(longer) = k + 1
        /\ \A j \in 1 .. k : longer[j] = s[j]
        /\ longer[k + 1] = Cover(d)
    BY <1>2, <1>3, AppendProperties
  <1> HIDE DEF longer, next, d, s, k
  <1>7. Gathered(next, more)
    <2>1. Len(next.snarks) <= Len(Dependencies(next.task))
      BY <1>1, <1>2, <1>5, <1>6
    <2>2. ASSUME NEW j \in 1 .. Len(next.snarks)
          PROVE  /\ next.snarks[j] = Cover(Dependencies(next.task)[j])
                 /\ Dependencies(next.task)[j] \in more
      <3>1. j \in 1 .. k \/ j = k + 1
        BY <1>2, <1>5, <1>6
      <3>2. CASE j \in 1 .. k
        <4>1. s[j] = Cover(Dependencies(t)[j]) /\ Dependencies(t)[j] \in made
          BY <1>1, <3>2 DEF Gathered, s, k
        <4>2. QED
          BY <1>5, <1>6, <3>2, <4>1
      <3>3. CASE j = k + 1
        BY <1>1, <1>5, <1>6, <3>3 DEF d
      <3>4. QED
        BY <3>1, <3>2, <3>3
    <2>3. QED
      BY <2>1, <2>2 DEF Gathered
  <1>8. Frame(r, next, more)
    BY <1>1, <1>5, <1>7 DEF Frame
  <1>9. next = [caller EXCEPT !.snarks = Append(@, Cover(call.task))]
    BY <1>1 DEF next
  <1>10. QED
    BY <1>8, <1>9

\* The innermost call's proof is handed to the call that waits for it.
LEMMA HandedOn ==
  ASSUME IInv, NEW r \in Requests, Prove(r), Len(stack[r]) # 1
  PROVE  /\ Calling(r, stack'[r], stored')
         /\ stack' = [stack EXCEPT ![r] = stack'[r]]
         /\ UNCHANGED <<phase, answer>>
  <1> DEFINE s == stack[r]
             n == Len(s)
             call == s[n]
             caller == s[n - 1]
             proof == ProofOf(call)
             taken == [caller EXCEPT !.snarks = Append(@, proof)]
             front == SubSeq(s, 1, n - 1)
             shorter == [front EXCEPT ![n - 1].snarks = Append(@, proof)]
  <1>1. /\ Calling(r, s, stored) /\ proof = Cover(call.task)
        /\ stored' = stored \cup {call.task}
    BY ProvedTask DEF Innermost
  <1>2. /\ stack' = [stack EXCEPT ![r] = shorter] /\ UNCHANGED <<phase, answer>>
    BY Zenon DEF Prove, Innermost
  <1>3. s \in Seq(Calls) /\ n \in Nat /\ n >= 2 /\ n - 1 \in 1 .. n /\ n \in 2 .. n
    <2>1. s \in Seq(Calls) /\ n \in Nat \ {0} /\ n # 1
      BY <1>1, InnermostFrame DEF Calling
    <2> HIDE DEF n
    <2>2. n >= 2 /\ n - 1 \in 1 .. n /\ n \in 2 .. n
      BY <2>1
    <2>3. QED
      BY <2>1, <2>2
  <1>4. Frame(r, caller, stored) /\ Awaits(caller, call)
    BY <1>1, <1>3 DEF Calling
  <1>5. Frame(r, taken, stored')
    BY <1>1, <1>4, FrameTakes
  <1>6. taken \in Calls /\ taken.task = caller.task
    <2>1. caller \in Calls
      BY <1>4 DEF Frame
    <2>2. QED
      BY <1>5, <2>1 DEF Frame, Calls
  <1>7. /\ front \in Seq(Calls) /\ Len(front) = n - 1
        /\ \A k \in 1 .. n - 1 : front[k] = s[k]
    <2>1. \A k \in 1 .. n - 1 : s[k] \in Calls
      BY <1>3
    <2>2. QED
      BY <1>3, <2>1, SubSeqProperties
  <1>8. shorter = [front EXCEPT ![n - 1] = taken]
    <2>1. front[n - 1] = caller
      BY <1>3, <1>7
    <2>2. QED
      BY <2>1
  <1>9. stack'[r] = shorter
    BY <1>2 DEF IInv, Types
  <1> HIDE DEF taken, shorter, front, call, caller, proof
  <1>10. /\ shorter \in Seq(Calls) /\ Len(shorter) = n - 1
         /\ \A k \in 1 .. n - 1 : shorter[k] = IF k = n - 1 THEN taken ELSE s[k]
    <2>1. n - 1 \in 1 .. Len(front)
      BY <1>3, <1>7
    <2>2. /\ shorter \in Seq(Calls) /\ Len(shorter) = Len(front)
          /\ \A k \in 1 .. Len(front) : shorter[k] = IF k = n - 1 THEN taken ELSE front[k]
      BY <1>6, <1>7, <1>8, <2>1, ExceptSeq
    <2>3. QED
      BY <1>7, <2>2
  <1>11. \A k \in 1 .. n - 1 : shorter[k].task = s[k].task /\ k \in 1 .. n
    BY <1>3, <1>6, <1>10 DEF caller
  <1>12. Calling(r, shorter, stored')
    <2>1. shorter # <<>> /\ 1 \in 1 .. n - 1
      BY <1>3, <1>10
    <2>2. shorter[1].task = Top(r)
      BY <1>1, <1>11, <2>1 DEF Calling
    <2>3. ASSUME NEW k \in 1 .. Len(shorter) PROVE Frame(r, shorter[k], stored')
      <3>1. k \in 1 .. n - 1 /\ k \in 1 .. n
        BY <1>10, <1>11, <2>3
      <3>2. Frame(r, s[k], stored')
        BY <1>1, <3>1, FrameGrows DEF Calling
      <3>3. QED
        BY <1>5, <1>10, <3>1, <3>2
    <2>4. ASSUME NEW k \in 2 .. Len(shorter) PROVE Awaits(shorter[k - 1], shorter[k])
      <3>1. k \in 1 .. n - 1 /\ k \in 2 .. n /\ k - 1 \in 1 .. n - 1 /\ k - 1 # n - 1
        BY <1>3, <1>10, <2>4
      <3>2. Awaits(s[k - 1], s[k])
        BY <1>1, <3>1 DEF Calling
      <3>3. shorter[k - 1] = s[k - 1] /\ shorter[k].task = s[k].task
        BY <1>10, <1>11, <3>1
      <3>4. QED
        BY <3>2, <3>3 DEF Awaits
    <2>5. QED
      BY <1>10, <2>1, <2>2, <2>3, <2>4 DEF Calling
  <1>13. QED
    BY <1>2, <1>9, <1>12

LEMMA ProveKeeps == ASSUME IInv, NEW r \in Requests, Prove(r) PROVE IInv'
  <1> DEFINE call == Innermost(r)
  <1>1. /\ Whole(call.task) /\ Whole(Top(r)) /\ call.task \in TreeOf(Top(r))
        /\ ProofOf(call) = Cover(call.task)
        /\ stored' = stored \cup {call.task}
        /\ Fits(call.task)
        /\ Calling(r, stack[r], stored)
    BY ProvedTask
  <1>2. phase[r] = "working" /\ prover' = NoRequest
    BY DEF Prove, Proving
  <1>3. ProverBusy'
    BY <1>2 DEF ProverBusy
  <1>4. Stored'
    BY <1>1 DEF IInv, Stored
  <1>5. CASE Len(stack[r]) = 1
    <2>1. /\ phase' = [phase EXCEPT ![r] = "proved"] /\ stack' = [stack EXCEPT ![r] = <<>>]
          /\ answer' = [answer EXCEPT ![r] = ProofOf(call)]
      BY <1>5 DEF Prove, End
    <2>2. call.task = Top(r)
      BY <1>1, <1>5 DEF Innermost, Calling
    <2>3. Cover(Top(r)) \in Proofs /\ <<>> \in Seq(Calls)
      BY <1>1, CoverOfWhole
    <2>4. Types'
      BY <1>1, <1>2, <2>1, <2>2, <2>3 DEF IInv, Types
    <2>5. \A q \in Requests \ {r} :
             phase'[q] = phase[q] /\ stack'[q] = stack[q] /\ answer'[q] = answer[q]
      BY <2>1 DEF IInv, Types
    <2>6. /\ phase'[r] = "proved" /\ stack'[r] = <<>>
          /\ answer'[r] = Cover(Top(r)) /\ Top(r) \in stored'
      BY <1>1, <2>1, <2>2 DEF IInv, Types
    <2>7. StackOK(r)' /\ AnswerOK(r)'
      BY <1>1, <2>6 DEF StackOK, AnswerOK
    <2>8. \A q \in Requests \ {r} : StackOK(q)' /\ AnswerOK(q)'
      BY <1>1, <2>5, Others
    <2>9. QED
      BY <1>3, <1>4, <2>4, <2>7, <2>8 DEF IInv
  <1>6. CASE Len(stack[r]) # 1
    <2>1. /\ Calling(r, stack'[r], stored')
          /\ stack' = [stack EXCEPT ![r] = stack'[r]]
          /\ UNCHANGED <<phase, answer>>
      BY <1>6, HandedOn
    <2>2. stack'[r] \in Seq(Calls)
      BY <2>1 DEF Calling
    <2>3. Types'
      BY <1>2, <2>1, <2>2 DEF IInv, Types
    <2>4. \A q \in Requests \ {r} :
             phase'[q] = phase[q] /\ stack'[q] = stack[q] /\ answer'[q] = answer[q]
      BY <2>1 DEF IInv, Types
    <2>5. StackOK(r)' /\ AnswerOK(r)'
      BY <1>2, <2>1 DEF StackOK, AnswerOK
    <2>6. \A q \in Requests \ {r} : StackOK(q)' /\ AnswerOK(q)'
      BY <1>1, <2>4, Others
    <2>7. QED
      BY <1>3, <1>4, <2>3, <2>5, <2>6 DEF IInv
  <1>7. QED
    BY <1>5, <1>6

\* The answer is the proof, or nothing.
LEMMA AnswerKeeps == ASSUME IInv, NEW r \in Requests, Answer(r) PROVE IInv'
  <1>1. /\ phase[r] = "proved"
        /\ phase' = [phase EXCEPT ![r] = "answered"] /\ stack' = [stack EXCEPT ![r] = <<>>]
        /\ answer' = [answer EXCEPT ![r] = IF ForEvm(r) THEN @ ELSE Nothing]
        /\ UNCHANGED <<prover, stored>>
    BY DEF Answer, End
  <1>2. Nothing \in Proofs /\ <<>> \in Seq(Calls)
    <2>1. <<>> \in Seq(Claims)
      OBVIOUS
    <2>2. QED
      BY <2>1 DEF Nothing, Proofs
  <1>3. Types'
    BY <1>1, <1>2 DEF IInv, Types, Ended
  <1>4. /\ phase'[r] = "answered" /\ stack'[r] = <<>>
        /\ ForEvm(r) => answer'[r] = answer[r]
        /\ \A q \in Requests \ {r} :
              phase'[q] = phase[q] /\ stack'[q] = stack[q] /\ answer'[q] = answer[q]
    BY <1>1 DEF IInv, Types
  <1>5. \A q \in Requests \ {r} : StackOK(q)' /\ AnswerOK(q)'
    BY <1>1, <1>4, Others
  <1>6. StackOK(r)' /\ AnswerOK(r)'
    BY <1>1, <1>4 DEF StackOK, IInv, AnswerOK
  <1>7. ProverBusy'
    <2>1. prover # r
      BY <1>1, LocalServerAssumption DEF IInv, ProverBusy
    <2>2. ProverBusy /\ Types /\ prover' = prover
      BY <1>1 DEF IInv
    <2>3. \A q \in Requests \ {r} : phase'[q] = phase[q] /\ stack'[q] = stack[q]
      BY <1>4
    <2>4. QED
      BY <2>1, <2>2, <2>3, ProverElsewhere
  <1>8. Stored'
    BY <1>1 DEF IInv, Stored
  <1>9. QED
    BY <1>3, <1>5, <1>6, <1>7, <1>8 DEF IInv

\* Every step of every handler keeps the invariant.
LEMMA StepKeeps == ASSUME IInv, [Next]_vars PROVE IInv'
  <1>1. ASSUME NEW r \in Requests, Step(r) PROVE IInv'
    <2> USE DEF Ended
    <2>n. prover # r \/ phase[r] = "working"
      BY LocalServerAssumption DEF IInv, ProverBusy
    <2>1. CASE Refuse(r)
      BY <2>1, <2>n, EndKeeps DEF Refuse
    <2>2. CASE PanicAtOnce(r)
      BY <2>2, <2>n, EndKeeps DEF PanicAtOnce
    <2>3. CASE Begin(r)
      BY <2>3, BeginKeeps
    <2>4. CASE Descend(r)
      BY <2>4, DescendKeeps
    <2>5. CASE Panic(r)
      BY <2>5, EndKeeps DEF Panic, Working
    <2>6. CASE NoCircuit(r)
      BY <2>6, EndKeeps DEF NoCircuit, Working
    <2>7. CASE StartProof(r)
      BY <2>7, StartKeeps
    <2>8. CASE Prove(r)
      BY <2>8, ProveKeeps
    <2>9. CASE ProofFails(r)
      BY <2>9, EndKeeps DEF ProofFails
    <2>10. CASE Answer(r)
      BY <2>10, AnswerKeeps
    <2>11. QED
      BY <1>1, <2>1, <2>2, <2>3, <2>4, <2>5, <2>6, <2>7, <2>8, <2>9, <2>10 DEF Step
  <1>2. CASE UNCHANGED vars
    <2>1. Types' /\ ProverBusy' /\ Stored'
      BY <1>2 DEF vars, IInv, Types, ProverBusy, Innermost, Stored
    <2>2. \A r \in Requests : StackOK(r)' /\ AnswerOK(r)'
      BY <1>2 DEF vars, IInv, StackOK, AnswerOK
    <2>3. QED
      BY <2>1, <2>2 DEF IInv
  <1>3. QED
    BY <1>1, <1>2 DEF Next

\* The calls, the proofs they hold and the proofs made belong to one another at
\* every moment, whatever the clients post and in whatever order the handlers run.
THEOREM CallsInOrder == Spec => []IInv
  <1>1. Init => IInv
    BY InitKeeps
  <1>2. IInv /\ [Next]_vars => IInv'
    BY StepKeeps
  <1>3. QED
    BY <1>1, <1>2, PTL DEF Spec

LEMMA WholeDivisible ==
  ASSUME NEW r \in Requests, Whole(Top(r)) PROVE Divisible(r)
  <1>1. /\ TopParams(r) \in NodeShapes /\ 0 < NumProofs(Top(r))
        /\ NumProofs(Top(r)) <= Len(Top(r).claims)
    BY TopFields DEF Whole, Good, TaskRecords
  <1>2. ~ Backwards(r)
    BY <1>1, PostedFields, TopFields DEF Backwards
  <1>3. ~ SliceFails(Top(r))
    <2>1. NumProofs(Top(r)) \in Int /\ Len(Top(r).claims) \in Int
      BY PostedFields, TopFields
    <2>2. QED
      BY <1>1, <2>1 DEF SliceFails
  <1>4. QED
    BY <1>1, <1>2, <1>3 DEF Divisible, NodeShapes

\* TypeOK.
THEOREM TypeCorrect == Spec => []TypeOK
  <1>1. IInv => TypeOK
    <2> SUFFICES ASSUME IInv PROVE TypeOK
      OBVIOUS
    <2>1. stored \subseteq Tasks
      <3> SUFFICES ASSUME NEW t \in stored PROVE t \in Tasks
        OBVIOUS
      <3>1. PICK r \in Requests : Whole(Top(r)) /\ t \in TreeOf(Top(r))
        BY DEF IInv, Stored
      <3>2. Divisible(r)
        BY <3>1, WholeDivisible
      <3>3. QED
        BY <3>1, <3>2 DEF Tasks
    <2>2. ASSUME NEW r \in Requests
          PROVE  /\ prover = r \/ stack[r] # <<>> => phase[r] = "working"
                 /\ \A k \in 2 .. Len(stack[r]) :
                       LET caller == stack[r][k - 1]
                       IN  stack[r][k].task = Dependencies(caller.task)[Len(caller.snarks) + 1]
      <3>1. prover = r \/ stack[r] # <<>> => phase[r] = "working"
        BY LocalServerAssumption DEF IInv, ProverBusy, StackOK
      <3>2. CASE phase[r] = "working"
        BY <3>1, <3>2 DEF IInv, StackOK, Calling, Awaits
      <3>3. CASE phase[r] # "working"
        <4>1. Len(stack[r]) = 0
          BY <3>3 DEF IInv, StackOK
        <4>2. QED
          BY <3>1, <4>1
      <3>4. QED
        BY <3>2, <3>3
    <2>3. QED
      BY <2>1, <2>2 DEF IInv, Types, TypeOK
  <1>2. QED
    BY <1>1, CallsInOrder, PTL

\* AnswerCoversRange: the proof that a request ends up with, and the answer when it is
\* one, is the proof of exactly the range that was posted and of its claims, however
\* the range was cut.
THEOREM AnswersCoverRanges == Spec => []AnswerCoversRange
  <1>1. IInv => AnswerCoversRange
    <2> SUFFICES ASSUME IInv, NEW r \in Requests,
                        phase[r] = "proved" \/ (phase[r] = "answered" /\ ForEvm(r))
                 PROVE  /\ answer[r].start = Posted[r].start /\ answer[r].end = Posted[r].end
                        /\ answer[r].claims =
                             SubSeq(Posted[r].claims, 1, NumProofs(Top(r)))
      BY Zenon DEF AnswerCoversRange
    <2>1. answer[r] = Cover(Top(r))
      BY DEF IInv, AnswerOK
    <2>2. \A t : /\ Cover(t).start = t.start /\ Cover(t).end = t.end
                 /\ Cover(t).claims = SubSeq(t.claims, 1, NumProofs(t))
      BY DEF Cover
    <2>3. /\ Top(r).start = Posted[r].start /\ Top(r).end = Posted[r].end
          /\ Top(r).claims = Posted[r].claims
      BY TopFields
    <2>4. QED
      BY <2>1, <2>2, <2>3, Zenon
  <1>2. QED
    BY <1>1, CallsInOrder, PTL

\* BadRangeProvesNothing: of a range that is empty, backwards, longer than its claims
\* or larger than the tree nothing at all is proved, and no leaf with another number of
\* claims than positions.  (Claims past the end of a range that is cut are left out.)
THEOREM BadRangesProveNothing == Spec => []BadRangeProvesNothing
  <1>1. IInv => BadRangeProvesNothing
    <2> SUFFICES ASSUME IInv, NEW t \in stored
                 PROVE  LET p == Posted[t.request]
                            n == p.end - p.start
                        IN  /\ 0 < n /\ n <= Len(p.claims) /\ n <= 2 ^ Depth(t.request)
                            /\ IsLeafTask(t) => Len(t.claims) = NumProofs(t)
      BY Zenon DEF BadRangeProvesNothing
    <2>1. PICK r \in Requests : Whole(Top(r)) /\ t \in TreeOf(Top(r))
      BY DEF IInv, Stored
    <2>2. t.request = r
      BY <2>1, TreeOfOneRequest, TopFields DEF Whole, Good, TaskRecords
    <2>3. /\ 0 < NumProofs(Top(r)) /\ NumProofs(Top(r)) <= Len(Top(r).claims)
          /\ NumProofs(Top(r)) <= 2 ^ Depth(r)
      <3>1. TopParams(r).depth = Depth(r)
        BY <2>1, TopFields, TopShape DEF Whole, Good, TaskRecords, NodeShapes
      <3>2. QED
        BY <2>1, <3>1, TopFields DEF Whole, Good
    <2>4. IsLeafTask(t) => Len(t.claims) = NumProofs(t)
      BY DEF IInv, Stored, Fits
    <2>5. QED
      BY <2>2, <2>3, <2>4, TopFields
  <1>2. QED
    BY <1>1, CallsInOrder, PTL

-----------------------------------------------------------------------------
(* The task graph.                                                         *)

Outcome ==
    [r \in Requests |->
        CASE phase[r] \in {"new", "working", "proved"} -> "open"
          [] phase[r] = "answered" -> "served"
          [] OTHER -> "abandoned"]

\* A handler that gives up abandons its request.
LEMMA GivesUp ==
  ASSUME IInv, NEW r \in Requests, phase[r] \in {"new", "working"},
         NEW out \in {"refused", "panicked", "failed"}, End(r, out), UNCHANGED stored
  PROVE  Graph!Next
  <1>1. /\ phase'[r] = out
        /\ \A q \in Requests \ {r} : phase'[q] = phase[q]
    BY DEF End, IInv, Types
  <1>2. Outcome[r] = "open" /\ Outcome' = [Outcome EXCEPT ![r] = "abandoned"]
    <2>1. /\ Outcome[r] = "open" /\ Outcome'[r] = "abandoned"
      BY <1>1 DEF Outcome
    <2>2. \A q \in Requests \ {r} : Outcome'[q] = Outcome[q]
      BY <1>1 DEF Outcome
    <2>3. QED
      BY <2>1, <2>2 DEF Outcome
  <1>3. Graph!Abandon(r)
    BY <1>2 DEF Graph!Abandon, Outcome
  <1>4. QED
    BY <1>3 DEF Graph!Next

LEMMA SamePhases == ASSUME phase' = phase PROVE Outcome' = Outcome
  BY DEF Outcome

\* ImplementsTaskGraph: a request's tasks are proved after those they need and the
\* request is answered with the proof of its top task or not at all, whatever the
\* requests that share the prover do.
THEOREM ServerImplementsTaskGraph == Spec => ImplementsTaskGraph
  <1>1. Init => Graph!Init
    BY DEF Init, Graph!Init
  <1>2. IInv /\ [Next]_vars => [Graph!Next]_(Graph!vars)
    <2> SUFFICES ASSUME IInv, [Next]_vars
                 PROVE  Graph!Next \/ (UNCHANGED stored /\ Outcome' = Outcome)
      BY DEF Graph!vars, Outcome
    <2>1. ASSUME NEW r \in Requests, Step(r)
          PROVE  Graph!Next \/ (UNCHANGED stored /\ Outcome' = Outcome)
      <3>n. phase \in [Requests -> {"new", "working", "proved"} \cup Ended]
        BY DEF IInv, Types
      <3>1. CASE Refuse(r)
        BY <3>1, GivesUp DEF Refuse
      <3>2. CASE PanicAtOnce(r)
        BY <3>2, GivesUp DEF PanicAtOnce
      <3>3. CASE Begin(r)
        <4>1. \A q \in Requests : Outcome'[q] = Outcome[q]
          BY <3>3, <3>n DEF Begin, Outcome
        <4>2. QED
          BY <3>3, <4>1 DEF Begin, Outcome
      <3>4. CASE Descend(r)
        BY <3>4, SamePhases DEF Descend
      <3>5. CASE Panic(r)
        BY <3>5, GivesUp DEF Panic, Working
      <3>6. CASE NoCircuit(r)
        BY <3>6, GivesUp DEF NoCircuit, Working
      <3>7. CASE StartProof(r)
        BY <3>7, SamePhases DEF StartProof
      <3>8. CASE Prove(r)
        <4> DEFINE t == Innermost(r).task
        <4>1. /\ Whole(Top(r)) /\ t \in TreeOf(Top(r))
              /\ DependencySet(t) \subseteq stored /\ stored' = stored \cup {t}
          BY <3>8, ProvedTask
        <4>2. t \in Tasks
          BY <4>1, WholeDivisible DEF Tasks
        <4>3. phase[r] = "working" /\ (phase' = phase \/ phase' = [phase EXCEPT ![r] = "proved"])
          BY <3>8 DEF Prove, Proving, End
        <4>4. \A q \in Requests : Outcome'[q] = Outcome[q]
          BY <3>n, <4>3 DEF Outcome
        <4>5. Outcome' = Outcome
          BY <4>4 DEF Outcome
        <4>6. CASE t \in stored
          BY <4>1, <4>5, <4>6
        <4>7. CASE t \notin stored
          <5> HIDE DEF t
          <5>1. Needs[t] = DependencySet(t)
            BY <4>2 DEF Needs
          <5>2. Graph!Obtain(t)
            BY <4>1, <4>5, <4>7, <5>1 DEF Graph!Obtain, Outcome
          <5>3. QED
            BY <4>2, <5>2 DEF Graph!Next
        <4>8. QED
          BY <4>6, <4>7
      <3>9. CASE ProofFails(r)
        BY <3>9, GivesUp DEF ProofFails, Proving
      <3>10. CASE Answer(r)
        <4>1. /\ phase[r] = "proved" /\ phase'[r] = "answered" /\ UNCHANGED stored
              /\ \A q \in Requests \ {r} : phase'[q] = phase[q]
          BY <3>10 DEF Answer, End, IInv, Types
        <4>2. Outcome[r] = "open" /\ Outcome' = [Outcome EXCEPT ![r] = "served"]
          <5>1. /\ Outcome[r] = "open" /\ Outcome'[r] = "served"
            BY <4>1 DEF Outcome
          <5>2. \A q \in Requests \ {r} : Outcome'[q] = Outcome[q]
            BY <4>1 DEF Outcome
          <5>3. QED
            BY <5>1, <5>2 DEF Outcome
        <4>3. TopOf[r] \in stored
          BY <4>1 DEF IInv, AnswerOK, TopOf
        <4>4. Graph!Serve(r)
          BY <4>1, <4>2, <4>3 DEF Graph!Serve, Outcome
        <4>5. QED
          BY <4>4 DEF Graph!Next
      <3>11. QED
        BY <2>1, <3>1, <3>2, <3>3, <3>4, <3>5, <3>6, <3>7, <3>8, <3>9, <3>10 DEF Step
    <2>2. CASE UNCHANGED vars
      BY <2>2, SamePhases DEF vars
    <2>3. QED
      BY <2>1, <2>2 DEF Next
  <1>3. QED
    BY <1>1, <1>2, CallsInOrder, PTL DEF Spec, ImplementsTaskGraph, Graph!Spec

-----------------------------------------------------------------------------
(* Key generation.                                                         *)

Root == intent.params
Ks == intent.k_at_depth
LevelCount == NumLevels(Root)

\* The nodes from a root down to a leaf, each a level lower than the one before.
Descends(root) ==
    \A m \in 0 .. NumLevels(root) - 1 :
        LET node == Node(root, m)
        IN  /\ node \in AnyParams
            /\ NumLevels(node) = NumLevels(root) - m
            /\ IF m = NumLevels(root) - 1 THEN ~ HasChild(node)
               ELSE HasChild(node) /\ ChildDefined(node)

RunTypes ==
    /\ pc \in {"idle", "creating", "writing", "created", "verifier", "listing"}
    /\ intent \in Intents \cup {NoIntent} /\ tag \in Tags \cup {NoTag}
    /\ runs \in 0 .. MaxRuns

IntentCalls == [k_at_depth : Seq(Nat), params : AnyParams]

\* A call has the node of its level and the ks from that level on.
CallAt(call, n) ==
    /\ call \in IntentCalls
    /\ call.params = Node(Root, n - 1)
    /\ NumLevels(call.params) = LevelCount - (n - 1)
    /\ Len(call.k_at_depth) = Len(Ks) - (n - 1)
    /\ \A j \in 1 .. Len(call.k_at_depth) : call.k_at_depth[j] = Ks[(n - 1) + j]

CallsDown ==
    /\ calls \in Seq(IntentCalls)
    /\ \A n \in 1 .. Len(calls) : CallAt(calls[n], n)
    /\ \A n \in 1 .. Len(calls) - 1 :
          HasChild(calls[n].params) /\ ChildDefined(calls[n].params)
    /\ pc \in {"creating", "writing"} => calls # <<>>
    /\ pc \in {"created", "verifier", "listing"} => calls = <<>>

\* Before the first circuit the run only goes down; from then on it has the
\* circuits of the levels below the innermost call.
MadeBelow ==
    /\ IF child = NotMade
       THEN /\ cid_repo = Empty
            /\ pc \in {"idle", "creating", "writing"}
       ELSE /\ Descends(Root)
            /\ LevelCount <= Len(Ks)
            /\ Len(calls) < LevelCount
            /\ child = Circuit(intent, Len(calls))
            /\ DOMAIN cid_repo = {Node(Root, m) : m \in Len(calls) .. LevelCount - 1}
            /\ \A m \in Len(calls) .. LevelCount - 1 :
                  cid_repo[Node(Root, m)] = Circuit(intent, m)
    /\ pc = "writing" => Last(calls).k_at_depth # <<>> /\ ChildIsMade(Last(calls))

\* One cut key of each run, which the present run is still writing.
OneCut ==
    /\ \A m, n \in DOMAIN keys :
          ~ keys[m].whole /\ ~ keys[n].whole /\ keys[m].run = keys[n].run => m = n
    /\ pc # "idle" =>
          \A id \in DOMAIN keys : ~ keys[id].whole /\ keys[id].run = runs =>
             pc = "writing" /\ id = CircuitOf(Last(calls), child)

\* What the run has made is on disk, but for the key it is writing.
KeysKept ==
    /\ \A id \in DOMAIN keys : keys[id] \in [whole : BOOLEAN, run : 1 .. runs]
    /\ OneCut
    /\ pc # "idle" => runs # 0
    /\ verifiers \subseteq DOMAIN keys
    /\ pc # "idle" =>
          \A node \in DOMAIN cid_repo :
             LET id == cid_repo[node]
             IN  /\ id \in DOMAIN keys
                 /\ \/ keys[id].whole
                    \/ pc = "writing" /\ id = CircuitOf(Last(calls), child)
    /\ pc = "verifier" \/ (pc = "listing" /\ Root.node_type = "Evm") => child \in verifiers

\* A list of a whole tree.
Lists(entries, i) ==
    LET n == NumLevels(i.params)
    IN  /\ ToSet(entries) =
              {<<Node(i.params, m), Circuit(i, m)>> : m \in 0 .. n - 1}
        /\ Len(entries) = n
        /\ entries[n] = <<i.params, Circuit(i, 0)>>
        /\ Cardinality({entries[m][2] : m \in 1 .. n}) = n

\* The circuits of a list are served by the keys on disk.
Served(file) ==
    /\ \A n \in DOMAIN file.entries :
          /\ file.entries[n][2] \in DOMAIN keys
          /\ \/ keys[file.entries[n][2]].whole
             \/ keys[file.entries[n][2]].run > file.run
    /\ file.intent.params.node_type = "Evm" => Last(file.entries)[2] \in verifiers
    /\ file.run = runs => pc = "idle"

FilesTrue ==
    \A name \in DOMAIN cids :
        /\ cids[name].run \in Nat /\ cids[name].run <= runs
        /\ IF cids[name].whole
           THEN Lists(cids[name].entries, cids[name].intent) /\ Served(cids[name])
           ELSE cids[name].entries = <<>>

KeygenInv == RunTypes /\ CallsDown /\ MadeBelow /\ KeysKept /\ FilesTrue

-----------------------------------------------------------------------------
(* Nodes and circuits, level by level.                                     *)

NodesTo(f, root, n) ==
    f = [m \in 0 .. n |-> IF m = 0 THEN root ELSE Child(f[m - 1])]

LEMMA NodesExist ==
  ASSUME NEW root, NEW n \in Nat
  PROVE  \E f : NodesTo(f, root, n)
  <1> DEFINE S == {m \in 0 .. n : \E f : NodesTo(f, root, m)}
  <1>1. 0 \in S
    <2>1. NodesTo([h \in 0 .. 0 |-> root], root, 0)
      BY DEF NodesTo
    <2>2. QED
      BY <2>1
  <1>2. ASSUME NEW m \in 0 .. n, m \in S, m # n PROVE m + 1 \in S
    <2>1. PICK f : NodesTo(f, root, m)
      BY <1>2
    <2> DEFINE g == [h \in 0 .. m + 1 |-> IF h <= m THEN f[h] ELSE Child(f[m])]
    <2>2. ASSUME NEW h \in 0 .. m + 1
          PROVE  g[h] = IF h = 0 THEN root ELSE Child(g[h - 1])
      <3>1. CASE h = 0
        BY <2>1, <3>1 DEF NodesTo
      <3>2. CASE h \in 1 .. m
        <4>1. h \in 0 .. m /\ h - 1 \in 0 .. m + 1 /\ h - 1 <= m /\ h # 0
          BY <3>2
        <4>2. f[h] = Child(f[h - 1])
          BY <2>1, <4>1 DEF NodesTo
        <4>3. QED
          BY <3>2, <4>1, <4>2
      <3>3. CASE h = m + 1
        BY <3>3
      <3>4. QED
        BY <3>1, <3>2, <3>3
    <2>3. NodesTo(g, root, m + 1)
      BY <2>2 DEF NodesTo
    <2>4. QED
      BY <1>2, <2>3
  <1>3. n \in S
    <2> HIDE DEF S
    <2>1. \A m \in 0 .. n : m \in S
      BY <1>1, <1>2, InductionTo
    <2>2. QED
      BY <2>1
  <1>4. QED
    BY <1>3

\* Two of them agree as far as both go.
LEMMA NodesAgree ==
  ASSUME NEW root, NEW n \in Nat, NEW l \in Nat, NEW f, NEW g,
         NodesTo(f, root, n), NodesTo(g, root, l), n <= l
  PROVE  \A m \in 0 .. n : f[m] = g[m]
  <1> DEFINE S == {m \in 0 .. n : f[m] = g[m]}
  <1>1. 0 \in S
    BY DEF NodesTo
  <1>2. ASSUME NEW m \in 0 .. n, m \in S, m # n PROVE m + 1 \in S
    <2>1. m + 1 \in 0 .. n /\ m + 1 \in 0 .. l /\ m + 1 # 0 /\ (m + 1) - 1 = m
      BY <1>2
    <2>2. f[m + 1] = Child(f[m])
      BY <2>1 DEF NodesTo
    <2>3. g[m + 1] = Child(g[m])
      BY <2>1 DEF NodesTo
    <2>4. QED
      BY <1>2, <2>1, <2>2, <2>3
  <1>3. \A m \in 0 .. n : m \in S
    <2> HIDE DEF S
    <2>1. QED
      BY <1>1, <1>2, InductionTo
  <1>4. QED
    BY <1>3

LEMMA NodeIs ==
  ASSUME NEW root, NEW n \in Nat
  PROVE  \E f : NodesTo(f, root, n) /\ Node(root, n) = f[n]
  <1>1. \E f : f = [m \in 0 .. n |-> IF m = 0 THEN root ELSE Child(f[m - 1])]
    BY NodesExist, Zenon DEF NodesTo
  <1> DEFINE f == CHOOSE f : f = [m \in 0 .. n |-> IF m = 0 THEN root
                                                   ELSE Child(f[m - 1])]
  <1>2. Node(root, n) = f[n]
    BY Zenon DEF Node
  <1>3. NodesTo(f, root, n)
    BY <1>1, Zenon DEF NodesTo
  <1>4. QED
    BY <1>2, <1>3

LEMMA NodeUnfolds ==
  ASSUME NEW root
  PROVE  /\ Node(root, 0) = root
         /\ \A n \in Nat : Node(root, n + 1) = Child(Node(root, n))
  <1>1. Node(root, 0) = root
    <2>1. PICK f : NodesTo(f, root, 0) /\ Node(root, 0) = f[0]
      BY NodeIs
    <2>2. QED
      BY <2>1 DEF NodesTo
  <1>2. ASSUME NEW n \in Nat
        PROVE  Node(root, n + 1) = Child(Node(root, n))
    <2>1. PICK f : NodesTo(f, root, n) /\ Node(root, n) = f[n]
      BY NodeIs
    <2>2. n + 1 \in Nat
      OBVIOUS
    <2>3. PICK g : NodesTo(g, root, n + 1) /\ Node(root, n + 1) = g[n + 1]
      BY <2>2, NodeIs
    <2>4. f[n] = g[n]
      BY <2>1, <2>2, <2>3, NodesAgree
    <2>5. g[n + 1] = Child(g[n])
      BY <2>3 DEF NodesTo
    <2>6. QED
      BY <2>1, <2>3, <2>4, <2>5
  <1>3. QED
    BY <1>1, <1>2

\* A child is one level nearer to the leaf, and comes before its parent where
\* node parameters are put in order.
LEMMA ChildIsBelow ==
  ASSUME NEW q \in AnyParams, HasChild(q), ChildDefined(q)
  PROVE  /\ Child(q) \in AnyParams
         /\ NumLevels(q) \in Nat /\ NumLevels(q) >= 2
         /\ NumLevels(Child(q)) = NumLevels(q) - 1
         /\ Before(Child(q), q)
  <1> USE DEF AnyParams, NodeTypes, HasChild, ChildDefined,
              WellFormed, NumLevels, Before, TypeRank
  <1>1. CASE q.node_type = "Evm" /\ q.round > 0
    <2>1. Child(q) = [node_type |-> "Evm", round |-> q.round - 1,
                           depth |-> q.depth, initial_depth |-> q.initial_depth]
      BY <1>1 DEF Child, Params
    <2>2. QED
      BY <1>1, <2>1
  <1>2. CASE q.node_type = "Evm" /\ q.round = 0 /\ q.depth = q.initial_depth
    <2>1. Child(q) = [node_type |-> "Leaf", round |-> 0,
                           depth |-> q.depth, initial_depth |-> q.initial_depth]
      BY <1>2 DEF Child, Params
    <2>2. QED
      BY <1>2, <2>1
  <1>3. CASE q.node_type = "Evm" /\ q.round = 0 /\ q.depth # q.initial_depth
    <2>1. Child(q) = [node_type |-> "Root", round |-> 0,
                           depth |-> q.depth, initial_depth |-> q.initial_depth]
      BY <1>3 DEF Child, Params
    <2>2. QED
      BY <1>3, <2>1
  <1>4. CASE q.node_type \in {"Root", "Intermediate"} /\ q.depth = q.initial_depth + 1
    <2>1. Child(q) = [node_type |-> "Leaf", round |-> 0,
                           depth |-> q.initial_depth, initial_depth |-> q.initial_depth]
      BY <1>4 DEF Child, Params
    <2>2. QED
      BY <1>4, <2>1
  <1>5. CASE q.node_type \in {"Root", "Intermediate"} /\ q.depth # q.initial_depth + 1
    <2>1. Child(q) = [node_type |-> "Intermediate", round |-> 0,
                           depth |-> q.depth - 1, initial_depth |-> q.initial_depth]
      BY <1>5 DEF Child, Params
    <2>2. QED
      BY <1>5, <2>1
  <1>6. QED
    BY <1>1, <1>2, <1>3, <1>4, <1>5

LEMMA LeafIsLast ==
  ASSUME NEW q, ~ HasChild(q)
  PROVE  NumLevels(q) = 1
  BY DEF NumLevels

LEMMA LevelsTyped ==
  ASSUME NEW q \in AnyParams
  PROVE  NumLevels(q) \in Int
  BY DEF NumLevels, AnyParams

\* The circuit of level m, made from a circuit of the level below.
MadeFrom(i, m, of) ==
    CircuitOf([k_at_depth |-> <<i.k_at_depth[m + 1]>>,
                    params |-> Node(i.params, m)], of)

CircuitsTo(f, i, n, bottom) ==
    f = [m \in n .. bottom |->
            MadeFrom(i, m, IF m = bottom THEN NotMade ELSE f[m + 1])]

LEMMA CircuitsExist ==
  ASSUME NEW i, NEW bottom \in Nat
  PROVE  \A n \in 0 .. bottom : \E f : CircuitsTo(f, i, n, bottom)
  <1> DEFINE S == {d \in 0 .. bottom : \E f : CircuitsTo(f, i, bottom - d, bottom)}
  <1>1. 0 \in S
    <2>1. CircuitsTo([m \in bottom .. bottom |-> MadeFrom(i, m, NotMade)],
                     i, bottom - 0, bottom)
      BY DEF CircuitsTo
    <2>2. QED
      BY <2>1
  <1>2. ASSUME NEW d \in 0 .. bottom, d \in S, d # bottom PROVE d + 1 \in S
    <2> DEFINE n == bottom - d
    <2>1. PICK f : CircuitsTo(f, i, n, bottom)
      BY <1>2
    <2>n. n \in 1 .. bottom /\ bottom - (d + 1) = n - 1
      BY <1>2
    <2> HIDE DEF n
    <2> DEFINE g == [m \in n - 1 .. bottom |->
                        IF m = n - 1 THEN MadeFrom(i, m, f[n]) ELSE f[m]]
    <2>2. ASSUME NEW m \in n - 1 .. bottom
          PROVE  g[m] = MadeFrom(i, m, IF m = bottom THEN NotMade ELSE g[m + 1])
      <3>1. CASE m = n - 1
        <4>1. m + 1 = n /\ m # bottom /\ n \in n - 1 .. bottom /\ n # n - 1
          BY <2>n, <3>1
        <4>2. g[m + 1] = f[n]
          BY <4>1
        <4>3. QED
          BY <3>1, <4>1, <4>2
      <3>2. CASE m = bottom
        <4>1. m \in n .. bottom /\ m # n - 1
          BY <2>n, <3>2
        <4>2. QED
          BY <2>1, <3>2, <4>1 DEF CircuitsTo
      <3>3. CASE m # n - 1 /\ m # bottom
        <4>1. /\ m \in n .. bottom /\ m + 1 \in n - 1 .. bottom /\ m + 1 # n - 1
          BY <2>n, <3>3
        <4>2. f[m] = MadeFrom(i, m, f[m + 1])
          BY <2>1, <3>3, <4>1 DEF CircuitsTo
        <4>3. QED
          BY <3>3, <4>1, <4>2
      <3>4. QED
        BY <3>1, <3>2, <3>3
    <2>3. CircuitsTo(g, i, n - 1, bottom)
      BY <2>2 DEF CircuitsTo
    <2>4. QED
      BY <1>2, <2>3, <2>n
  <1>3. \A d \in 0 .. bottom : d \in S
    <2> HIDE DEF S
    <2>1. QED
      BY <1>1, <1>2, InductionTo
  <1>4. ASSUME NEW n \in 0 .. bottom PROVE \E f : CircuitsTo(f, i, n, bottom)
    <2>1. bottom - n \in 0 .. bottom /\ bottom - (bottom - n) = n
      OBVIOUS
    <2>2. bottom - n \in S
      BY <1>3, <2>1
    <2>3. QED
      BY <2>1, <2>2
  <1>5. QED
    BY <1>4

\* Two of them agree on the levels that both have.
LEMMA CircuitsAgree ==
  ASSUME NEW i, NEW bottom \in Nat, NEW n \in 0 .. bottom, NEW l \in 0 .. n, NEW f, NEW g,
         CircuitsTo(f, i, n, bottom), CircuitsTo(g, i, l, bottom)
  PROVE  f[n] = g[n]
  <1> DEFINE S == {d \in 0 .. bottom - n : f[bottom - d] = g[bottom - d]}
  <1>1. 0 \in S
    <2>1. bottom - 0 = bottom /\ bottom \in n .. bottom /\ bottom \in l .. bottom
      OBVIOUS
    <2>2. f[bottom] = g[bottom]
      BY <2>1 DEF CircuitsTo
    <2>3. QED
      BY <2>1, <2>2
  <1>2. ASSUME NEW d \in 0 .. bottom - n, d \in S, d # bottom - n PROVE d + 1 \in S
    <2> DEFINE m == bottom - (d + 1)
    <2>1. m \in n .. bottom /\ m \in l .. bottom /\ m # bottom /\ m + 1 = bottom - d
      BY <1>2
    <2> HIDE DEF m
    <2>2. f[m] = MadeFrom(i, m, f[m + 1]) /\ g[m] = MadeFrom(i, m, g[m + 1])
      BY <2>1 DEF CircuitsTo
    <2>3. f[m] = g[m]
      BY <1>2, <2>1, <2>2
    <2>4. QED
      BY <1>2, <2>3 DEF m
  <1>3. bottom - n \in S
    <2>1. bottom - n \in Nat
      OBVIOUS
    <2> HIDE DEF S
    <2>2. QED
      BY <1>1, <1>2, <2>1, InductionTo
  <1>4. bottom - (bottom - n) = n
    OBVIOUS
  <1>5. QED
    BY <1>3, <1>4

LEMMA CircuitIs ==
  ASSUME NEW i, NEW bottom \in Nat, bottom = NumLevels(i.params) - 1, NEW n \in 0 .. bottom
  PROVE  \E f : CircuitsTo(f, i, n, bottom) /\ Circuit(i, n) = f[n]
  <1> DEFINE body(f) == [m \in n .. NumLevels(i.params) - 1 |->
        CircuitOf([k_at_depth |-> <<i.k_at_depth[m + 1]>>,
                        params |-> Node(i.params, m)],
                       IF m = NumLevels(i.params) - 1 THEN NotMade ELSE f[m + 1])]
  <1>1. \E f : f = body(f)
    <2>1. \E f : CircuitsTo(f, i, n, NumLevels(i.params) - 1)
      BY CircuitsExist
    <2>2. QED
      BY <2>1, Zenon DEF CircuitsTo, MadeFrom
  <1> DEFINE f == CHOOSE f : f = body(f)
  <1>2. Circuit(i, n) = f[n]
    BY Zenon DEF Circuit
  <1>3. CircuitsTo(f, i, n, bottom)
    BY <1>1, Zenon DEF CircuitsTo, MadeFrom
  <1>4. QED
    BY <1>2, <1>3

LEMMA CircuitUnfolds ==
  ASSUME NEW i, NEW bottom \in Nat, bottom = NumLevels(i.params) - 1
  PROVE  /\ Circuit(i, bottom) = MadeFrom(i, bottom, NotMade)
         /\ \A n \in 0 .. bottom :
               n # bottom => Circuit(i, n) = MadeFrom(i, n, Circuit(i, n + 1))
  <1>1. Circuit(i, bottom) = MadeFrom(i, bottom, NotMade)
    <2>1. PICK f : CircuitsTo(f, i, bottom, bottom) /\ Circuit(i, bottom) = f[bottom]
      BY CircuitIs
    <2>2. QED
      BY <2>1 DEF CircuitsTo
  <1>2. ASSUME NEW n \in 0 .. bottom, n # bottom
        PROVE  Circuit(i, n) = MadeFrom(i, n, Circuit(i, n + 1))
    <2>1. PICK f : CircuitsTo(f, i, n, bottom) /\ Circuit(i, n) = f[n]
      BY CircuitIs
    <2>2. n + 1 \in 0 .. bottom /\ n \in 0 .. n + 1
      BY <1>2
    <2>3. PICK g : CircuitsTo(g, i, n + 1, bottom) /\ Circuit(i, n + 1) = g[n + 1]
      BY <2>2, CircuitIs
    <2>4. f[n] = MadeFrom(i, n, f[n + 1])
      BY <1>2, <2>1 DEF CircuitsTo
    <2>5. g[n + 1] = f[n + 1]
      BY <2>1, <2>2, <2>3, CircuitsAgree
    <2>6. QED
      BY <2>1, <2>3, <2>4, <2>5
  <1>3. QED
    BY <1>1, <1>2

-----------------------------------------------------------------------------
(* The list of a tree.                                                     *)


LEMMA BeforeIsOrder ==
  ASSUME NEW p \in AnyParams, NEW q \in AnyParams, NEW r \in AnyParams
  PROVE  /\ ~ (Before(p, q) /\ Before(q, p))
         /\ Before(p, q) /\ Before(q, r) => Before(p, r)
  <1>1. \A x \in AnyParams :
           TypeRank(x) \in Nat /\ x.depth \in Nat /\ x.initial_depth \in Nat
    BY DEF AnyParams, TypeRank
  <1>2. QED
    BY <1>1 DEF Before

NodesOf(root) == {Node(root, m) : m \in 0 .. NumLevels(root) - 1}

\* A lower level comes first.
LEMMA LowerFirst ==
  ASSUME NEW root, NEW L \in Nat, L = NumLevels(root), Descends(root),
         NEW m \in 0 .. L - 1, NEW n \in 0 .. L - 1, m < n
  PROVE  Before(Node(root, n), Node(root, m))
  <1> DEFINE N(h) == Node(root, h)
             S == {h \in 0 .. n : m < h => Before(N(h), N(m))}
  <1>1. 0 \in S
    OBVIOUS
  <1>2. ASSUME NEW h \in 0 .. n, h \in S, h # n PROVE h + 1 \in S
    <2>1. h \in Nat /\ h \in 0 .. L - 1 /\ h + 1 \in 0 .. L - 1 /\ h # L - 1
      BY <1>2
    <2>2. N(h) \in AnyParams /\ N(m) \in AnyParams /\ N(h + 1) \in AnyParams
          /\ HasChild(N(h)) /\ ChildDefined(N(h))
      BY <2>1 DEF Descends
    <2>3. N(h + 1) = Child(N(h))
      BY <2>1, NodeUnfolds
    <2>4. Before(N(h + 1), N(h))
      BY <2>2, <2>3, ChildIsBelow
    <2> HIDE DEF N
    <2>5. CASE m = h
      BY <1>2, <2>4, <2>5
    <2>6. CASE m < h
      <3>1. Before(N(h), N(m))
        BY <1>2, <2>6
      <3>2. Before(N(h + 1), N(m))
        BY <2>2, <2>4, <3>1, BeforeIsOrder
      <3>3. QED
        BY <1>2, <3>2
    <2>7. CASE h < m
      BY <1>2, <2>7
    <2>8. QED
      BY <1>2, <2>1, <2>5, <2>6, <2>7
  <1>3. n \in S
    <2> HIDE DEF S
    <2>1. n \in Nat
      OBVIOUS
    <2>2. QED
      BY <1>1, <1>2, <2>1, InductionTo
  <1>4. QED
    BY <1>3

\* Levels have different nodes.
LEMMA NodesDiffer ==
  ASSUME NEW root, NEW L \in Nat, L = NumLevels(root), Descends(root),
         NEW m \in 0 .. L - 1, NEW n \in 0 .. L - 1,
         Node(root, m) = Node(root, n)
  PROVE  m = n
  <1>1. NumLevels(Node(root, m)) = L - m /\ NumLevels(Node(root, n)) = L - n
    BY DEF Descends
  <1>2. QED
    BY <1>1

LEMMA SameSize ==
  ASSUME NEW S, NEW n \in Nat, NEW f \in Bijection(1 .. n, S)
  PROVE  IsFiniteSet(S) /\ Cardinality(S) = n
  <1>1. ExistsBijection(1 .. n, S)
    BY DEF ExistsBijection
  <1>2. IsFiniteSet(1 .. n) /\ Cardinality(1 .. n) = n
    BY FS_Interval
  <1>3. QED
    BY <1>1, <1>2, FS_Bijection

\* From the leaf up.
LEMMA NodesCounted ==
  ASSUME NEW root, NEW L \in Nat, L = NumLevels(root), Descends(root)
  PROVE  /\ IsFiniteSet(NodesOf(root)) /\ Cardinality(NodesOf(root)) = L
         /\ \E s \in [1 .. L -> NodesOf(root)] :
               \A m, n \in DOMAIN s : m < n => Before(s[m], s[n])
  <1> DEFINE D == NodesOf(root)
             s == [j \in 1 .. L |-> Node(root, L - j)]
  <1>1. \A j \in 1 .. L : L - j \in 0 .. L - 1
    OBVIOUS
  <1>2. s \in [1 .. L -> D]
    BY <1>1 DEF NodesOf
  <1>3. ASSUME NEW m \in 1 .. L, NEW n \in 1 .. L, s[m] = s[n] PROVE m = n
    <2>1. L - m = L - n
      BY <1>1, <1>3, NodesDiffer
    <2>2. QED
      BY <2>1
  <1>4. ASSUME NEW x \in D PROVE \E j \in 1 .. L : s[j] = x
    <2>1. PICK m \in 0 .. L - 1 : x = Node(root, m)
      BY DEF NodesOf
    <2>2. L - m \in 1 .. L /\ L - (L - m) = m
      OBVIOUS
    <2>3. s[L - m] = x
      BY <2>1, <2>2
    <2>4. QED
      BY <2>2, <2>3
  <1>5. s \in Bijection(1 .. L, D)
    BY <1>2, <1>3, <1>4 DEF Bijection, Injection, Surjection, IsInjective
  <1>6. IsFiniteSet(D) /\ Cardinality(D) = L
    BY <1>5, SameSize
  <1>7. ASSUME NEW m \in 1 .. L, NEW n \in 1 .. L, m < n
        PROVE  Before(s[m], s[n])
    <2>1. L - n < L - m
      BY <1>7
    <2>2. QED
      BY <1>1, <2>1, LowerFirst
  <1>8. DOMAIN s = 1 .. L
    OBVIOUS
  <1>9. QED
    BY <1>2, <1>6, <1>7, <1>8

\* The list has every node once, the root last.
LEMMA RootIsLast ==
  ASSUME NEW root, NEW L \in Nat, L = NumLevels(root), L >= 1, Descends(root),
         NEW s, s = Ascending(NodesOf(root))
  PROVE  /\ s \in Bijection(1 .. L, NodesOf(root))
         /\ s[L] = root
  <1> DEFINE D == NodesOf(root)
  <1>1. /\ s \in [1 .. L -> D]
        /\ \A m, n \in DOMAIN s : m < n => Before(s[m], s[n])
    <2>1. s = CHOOSE t \in [1 .. Cardinality(D) -> D] :
                 \A m, n \in DOMAIN t : m < n => Before(t[m], t[n])
      BY Zenon DEF Ascending
    <2>2. /\ Cardinality(D) = L
          /\ \E t \in [1 .. L -> D] :
                \A m, n \in DOMAIN t : m < n => Before(t[m], t[n])
      BY NodesCounted
    <2> HIDE DEF D
    <2>3. QED
      BY <2>1, <2>2, Zenon
  <1>2. D \subseteq AnyParams
    BY DEF NodesOf, Descends
  <1>3. DOMAIN s = 1 .. L
    BY <1>1
  <1> HIDE DEF D
  <1>4. ASSUME NEW m \in 1 .. L, NEW n \in 1 .. L, m < n, s[m] = s[n] PROVE FALSE
    <2>1. Before(s[m], s[m]) /\ s[m] \in AnyParams
      BY <1>1, <1>2, <1>3, <1>4
    <2>2. QED
      BY <2>1, BeforeIsOrder
  <1>5. s \in Injection(1 .. L, D)
    <2>1. \A m, n \in 1 .. L : s[m] = s[n] => m = n
      BY <1>4
    <2>2. QED
      BY <1>1, <2>1 DEF Injection, IsInjective
  <1>6. s \in Bijection(1 .. L, D)
    <2>1. IsFiniteSet(D) /\ Cardinality(D) = L
      BY NodesCounted DEF D
    <2>2. IsFiniteSet(1 .. L) /\ Cardinality(1 .. L) = L
      BY FS_Interval
    <2>3. s \in Surjection(1 .. L, D)
      BY <1>5, <2>1, <2>2, FS_Injection
    <2>4. QED
      BY <1>5, <2>3 DEF Bijection
  <1>7. s[L] = root
    <2>1. Node(root, 0) = root
      BY NodeUnfolds
    <2>2. root \in D
      BY <2>1 DEF D, NodesOf
    <2>3. PICK j \in 1 .. L : s[j] = root
      BY <1>6, <2>2 DEF Bijection, Surjection
    <2>4. s[L] \in D
      BY <1>1
    <2>5. PICK m \in 0 .. L - 1 : s[L] = Node(root, m)
      BY <2>4 DEF D, NodesOf
    <2>6. SUFFICES ASSUME j # L, m # 0 PROVE FALSE
      BY <2>1, <2>3, <2>5
    <2>7. Before(root, s[L])
      BY <1>1, <1>3, <2>3, <2>6
    <2>8. Before(s[L], root)
      <3>1. 0 \in 0 .. L - 1 /\ 0 < m
        BY <2>6
      <3>2. QED
        BY <2>1, <2>5, <3>1, LowerFirst
    <2>9. QED
      BY <1>2, <2>2, <2>4, <2>7, <2>8, BeforeIsOrder
  <1>8. QED
    BY <1>6, <1>7 DEF D

\* Circuits of different kinds differ, and one that verifies another has it as a part.
LEMMA CircuitKinds ==
  /\ \A a, b, c, d, e : EvmCircuit(a, b) # JoinCircuit(c, d, e)
  /\ \A a, b, c, d : EvmCircuit(a, b) # LeafCircuit(c, d)
  /\ \A a, b, c, d, e : JoinCircuit(a, b, c) # LeafCircuit(d, e)
  /\ \A a, b : EvmCircuit(a, b).child = b /\ EvmCircuit(a, b) # NotMade
  /\ \A a, b, c :
        JoinCircuit(a, b, c).params = b /\ JoinCircuit(a, b, c) # NotMade
  /\ \A a, b : LeafCircuit(a, b) # NotMade
  <1>1. ASSUME NEW a, NEW b
        PROVE  /\ DOMAIN EvmCircuit(a, b) = {"k", "child"}
               /\ EvmCircuit(a, b).child = b
    BY DEF EvmCircuit
  <1>2. ASSUME NEW x, NEW y, NEW z
        PROVE  /\ DOMAIN JoinCircuit(x, y, z) = {"k", "params", "child"}
               /\ JoinCircuit(x, y, z).params = y
    BY DEF JoinCircuit
  <1>3. ASSUME NEW x, NEW y PROVE DOMAIN LeafCircuit(x, y) = {"k", "size"}
    BY DEF LeafCircuit
  <1>4. DOMAIN NotMade = {"circuit"}
    BY DEF NotMade
  <1>5. /\ {"k", "child"} # {"k", "params", "child"}
        /\ {"k", "child"} # {"k", "size"} /\ {"k", "params", "child"} # {"k", "size"}
        /\ {"k", "child"} # {"circuit"} /\ {"k", "size"} # {"circuit"}
        /\ {"k", "params", "child"} # {"circuit"}
    <2>1. "params" \notin {"k", "child"} /\ "size" \notin {"k", "params", "child"}
          /\ "k" \notin {"circuit"}
      OBVIOUS
    <2>2. QED
      BY <2>1
  <1>6. ASSUME NEW a, NEW b, NEW c, NEW d, NEW e
        PROVE  EvmCircuit(a, b) # JoinCircuit(c, d, e)
    <2>1. DOMAIN EvmCircuit(a, b) = {"k", "child"}
      BY <1>1
    <2>2. DOMAIN JoinCircuit(c, d, e) = {"k", "params", "child"}
      BY <1>2
    <2>3. QED
      BY <1>5, <2>1, <2>2, Zenon
  <1>7. \A a, b, c, d : EvmCircuit(a, b) # LeafCircuit(c, d)
    BY <1>1, <1>3, <1>5, Zenon
  <1>8. \A a, b, c, d, e : JoinCircuit(a, b, c) # LeafCircuit(d, e)
    BY <1>2, <1>3, <1>5, Zenon
  <1>9. \A a, b : EvmCircuit(a, b) # NotMade
    BY <1>1, <1>4, <1>5, Zenon
  <1>10. \A a, b, c : JoinCircuit(a, b, c) # NotMade
    BY <1>2, <1>4, <1>5, Zenon
  <1>11. \A a, b : LeafCircuit(a, b) # NotMade
    BY <1>3, <1>4, <1>5, Zenon
  <1>12. QED
    BY <1>1, <1>2, <1>6, <1>7, <1>8, <1>9, <1>10, <1>11

\* What a circuit is, by the type of its node.
LEMMA CircuitOfKind ==
  ASSUME NEW i, i.params \in AnyParams, NEW of
  PROVE  /\ ~ HasChild(i.params) =>
               CircuitOf(i, of) =
                  LeafCircuit(i.k_at_depth[1], i.params.initial_depth)
         /\ i.params.node_type = "Evm" =>
               CircuitOf(i, of) = EvmCircuit(i.k_at_depth[1], of)
         /\ HasChild(i.params) /\ i.params.node_type # "Evm" =>
               CircuitOf(i, of) = JoinCircuit(i.k_at_depth[1], i.params, of)
  BY DEF CircuitOf, HasChild, AnyParams, NodeTypes

LEMMA CircuitIsMade ==
  ASSUME NEW i, i.params \in AnyParams, NEW of
  PROVE  CircuitOf(i, of) # NotMade
  <1>1. i.params.node_type = "Evm" => HasChild(i.params)
    BY DEF HasChild
  <1>2. QED
    BY <1>1, CircuitOfKind, CircuitKinds

\* Levels have different circuits.
LEMMA CircuitsDiffer ==
  ASSUME NEW i, i.params \in AnyParams,
         NEW bottom \in Nat, bottom = NumLevels(i.params) - 1, Descends(i.params)
  PROVE  \A n \in 0 .. bottom : \A m \in 0 .. n - 1 : Circuit(i, m) # Circuit(i, n)
  <1> DEFINE C(n) == Circuit(i, n)
             N(n) == Node(i.params, n)
             of(n) == IF n = bottom THEN NotMade ELSE C(n + 1)
             k(n) == i.k_at_depth[n + 1]
             S == {d \in 0 .. bottom :
                     \A m \in 0 .. bottom : m < bottom - d => C(m) # C(bottom - d)}
  <1>1. ASSUME NEW n \in 0 .. bottom
        PROVE  /\ N(n) \in AnyParams
               /\ n = bottom => C(n) = LeafCircuit(k(n), N(n).initial_depth)
               /\ n # bottom /\ N(n).node_type = "Evm" => C(n) = EvmCircuit(k(n), C(n + 1))
               /\ n # bottom /\ N(n).node_type # "Evm" =>
                     C(n) = JoinCircuit(k(n), N(n), C(n + 1))
    <2> DEFINE x == [k_at_depth |-> <<k(n)>>, params |-> N(n)]
    <2>1. x.params = N(n) /\ x.k_at_depth[1] = k(n)
      OBVIOUS
    <2>2. n \in 0 .. NumLevels(i.params) - 1
      OBVIOUS
    <2>3. /\ N(n) \in AnyParams
          /\ n = bottom => ~ HasChild(N(n))
          /\ n # bottom => HasChild(N(n))
      BY <2>2 DEF Descends
    <2>4. C(n) = CircuitOf(x, of(n))
      BY CircuitUnfolds DEF MadeFrom
    <2>5. N(n).node_type = "Evm" => HasChild(N(n))
      BY DEF HasChild
    <2> HIDE DEF C, N, x, k
    <2>6. QED
      BY <2>1, <2>3, <2>4, <2>5, CircuitOfKind
  <1>2. 0 \in S
    <2>1. ASSUME NEW m \in 0 .. bottom, m < bottom PROVE C(m) # C(bottom)
      <3>1. bottom \in 0 .. bottom /\ m # bottom
        BY <2>1
      <3> HIDE DEF C, N, k
      <3>2. QED
        BY <1>1, <3>1, CircuitKinds
    <2>2. bottom - 0 = bottom
      OBVIOUS
    <2> HIDE DEF C
    <2>3. QED
      BY <2>1, <2>2
  <1>3. ASSUME NEW d \in 0 .. bottom, d \in S, d # bottom PROVE d + 1 \in S
    <2> DEFINE n == bottom - (d + 1)
    <2>1. n \in 0 .. bottom /\ n # bottom /\ n + 1 = bottom - d /\ d + 1 \in 0 .. bottom
      BY <1>3
    <2> HIDE DEF n
    <2>2. ASSUME NEW m \in 0 .. bottom, m < n, C(m) = C(n) PROVE FALSE
      <3>1. m # bottom /\ m + 1 \in 0 .. bottom /\ m + 1 < n + 1 /\ m # n
        BY <2>1, <2>2
      <3>2. C(m + 1) # C(n + 1)
        BY <1>3, <2>1, <3>1
      <3>3. CASE N(n).node_type = "Evm"
        <4> HIDE DEF C, N, k
        <4>1. C(n) = EvmCircuit(k(n), C(n + 1))
          BY <1>1, <2>1, <3>3
        <4>2. N(m).node_type = "Evm"
          BY <1>1, <2>2, <3>1, <4>1, CircuitKinds
        <4>3. C(m) = EvmCircuit(k(m), C(m + 1))
          BY <1>1, <3>1, <4>2
        <4>4. QED
          BY <2>2, <3>2, <4>1, <4>3, CircuitKinds
      <3>4. CASE N(n).node_type # "Evm"
        <4>1. N(m) # N(n)
          <5>1. NumLevels(i.params) = bottom + 1 /\ bottom + 1 \in Nat
            BY LevelsTyped
          <5>2. m \in 0 .. (bottom + 1) - 1 /\ n \in 0 .. (bottom + 1) - 1
            BY <2>1
          <5>3. QED
            BY <3>1, <5>1, <5>2, NodesDiffer
        <4> HIDE DEF C, N, k
        <4>2. C(n) = JoinCircuit(k(n), N(n), C(n + 1))
          BY <1>1, <2>1, <3>4
        <4>3. N(m).node_type # "Evm"
          BY <1>1, <2>2, <3>1, <4>2, CircuitKinds
        <4>4. C(m) = JoinCircuit(k(m), N(m), C(m + 1))
          BY <1>1, <3>1, <4>3
        <4>5. QED
          BY <2>2, <4>1, <4>2, <4>4, CircuitKinds
      <3>5. QED
        BY <3>3, <3>4
    <2> HIDE DEF C
    <2>3. QED
      BY <2>1, <2>2 DEF n
  <1>4. ASSUME NEW n \in 0 .. bottom, NEW m \in 0 .. n - 1 PROVE C(m) # C(n)
    <2>1. \A d \in 0 .. bottom : d \in S
      <3> HIDE DEF S
      <3>1. QED
        BY <1>2, <1>3, InductionTo
    <2>2. bottom - n \in 0 .. bottom /\ bottom - (bottom - n) = n /\ m \in 0 .. bottom /\ m < n
      OBVIOUS
    <2>3. bottom - n \in S
      BY <2>1, <2>2
    <2> HIDE DEF C
    <2>4. QED
      BY <2>2, <2>3
  <1>5. QED
    BY <1>4

\* What is listed of a run that has made every circuit.
LEMMA WholeTreeListed ==
  ASSUME NEW i, i.params \in AnyParams, Descends(i.params),
         NEW L \in Nat, L = NumLevels(i.params), L >= 1,
         NEW repo, DOMAIN repo = NodesOf(i.params),
         \A m \in 0 .. L - 1 : repo[Node(i.params, m)] = Circuit(i, m),
         NEW s, s = Ascending(DOMAIN repo),
         NEW e, e = [n \in DOMAIN s |-> <<s[n], repo[s[n]]>>]
  PROVE  /\ Lists(e, i)
         /\ Last(e)[2] = Circuit(i, 0)
         /\ \A n \in DOMAIN e : s[n] \in DOMAIN repo /\ e[n][2] = repo[s[n]]
  <1> DEFINE D == NodesOf(i.params)
             N(m) == Node(i.params, m)
             C(m) == Circuit(i, m)
  <1>1. s \in Bijection(1 .. L, D) /\ s[L] = i.params
    BY RootIsLast
  <1>2. s \in [1 .. L -> D] /\ DOMAIN s = 1 .. L /\ DOMAIN e = 1 .. L
    BY <1>1 DEF Bijection, Injection
  <1>3. Len(e) = L
    <2>1. e = [n \in 1 .. L |-> <<s[n], repo[s[n]]>>]
      BY <1>2
    <2>2. QED
      BY <2>1, FunctionLength
  <1>4. ASSUME NEW n \in 1 .. L
        PROVE  \E m \in 0 .. L - 1 : s[n] = N(m) /\ e[n] = <<N(m), C(m)>>
    <2>1. s[n] \in D /\ e[n] = <<s[n], repo[s[n]]>>
      BY <1>2
    <2>2. PICK m \in 0 .. L - 1 : s[n] = N(m)
      BY <2>1 DEF NodesOf
    <2>3. repo[s[n]] = C(m)
      BY <2>2
    <2>4. QED
      BY <2>1, <2>2, <2>3
  <1>5. ASSUME NEW m \in 0 .. L - 1
        PROVE  \E n \in 1 .. L : s[n] = N(m) /\ e[n] = <<N(m), C(m)>>
    <2>1. N(m) \in D
      BY DEF NodesOf
    <2>2. PICK n \in 1 .. L : s[n] = N(m)
      BY <1>1, <2>1 DEF Bijection, Surjection
    <2>3. e[n] = <<s[n], repo[s[n]]>>
      BY <1>2
    <2>4. repo[s[n]] = C(m)
      BY <2>2
    <2>5. QED
      BY <2>2, <2>3, <2>4
  <1>n. N(0) = i.params
    BY NodeUnfolds
  <1>6. e[L] = <<i.params, C(0)>>
    <2>1. L \in 1 .. L /\ 0 \in 0 .. L - 1
      OBVIOUS
    <2>2. repo[i.params] = C(0)
      BY <1>n, <2>1
    <2>3. QED
      BY <1>1, <1>2, <2>1, <2>2
  <1>c. ASSUME NEW m \in 0 .. L - 1, NEW n \in 0 .. L - 1, C(m) = C(n) PROVE m = n
    <2>1. L - 1 \in Nat
      OBVIOUS
    <2> HIDE DEF C
    <2>2. \A x \in 0 .. L - 1 : \A y \in 0 .. x - 1 : C(y) # C(x)
      BY <2>1, CircuitsDiffer DEF C
    <2>3. m < n => m \in 0 .. n - 1
      OBVIOUS
    <2>4. n < m => n \in 0 .. m - 1
      OBVIOUS
    <2>5. QED
      BY <1>c, <2>2, <2>3, <2>4
  <1> HIDE DEF N, C, D
  <1>7. ToSet(e) = {<<N(m), C(m)>> : m \in 0 .. L - 1}
    <2>1. ToSet(e) = {e[n] : n \in 1 .. L}
      BY <1>2 DEF ToSet
    <2>2. ASSUME NEW x \in {e[n] : n \in 1 .. L}
          PROVE  x \in {<<N(m), C(m)>> : m \in 0 .. L - 1}
      <3>1. PICK n \in 1 .. L : x = e[n]
        OBVIOUS
      <3>2. PICK m \in 0 .. L - 1 : s[n] = N(m) /\ e[n] = <<N(m), C(m)>>
        BY <1>4
      <3>3. QED
        BY <3>1, <3>2
    <2>3. ASSUME NEW x \in {<<N(m), C(m)>> : m \in 0 .. L - 1}
          PROVE  x \in {e[n] : n \in 1 .. L}
      <3>1. PICK m \in 0 .. L - 1 : x = <<N(m), C(m)>>
        OBVIOUS
      <3>2. PICK n \in 1 .. L : s[n] = N(m) /\ e[n] = <<N(m), C(m)>>
        BY <1>5
      <3>3. QED
        BY <3>1, <3>2
    <2>4. QED
      BY <2>1, <2>2, <2>3
  <1>8. Cardinality({e[n][2] : n \in 1 .. L}) = L
    <2> DEFINE E == {e[n][2] : n \in 1 .. L}
               f == [n \in 1 .. L |-> e[n][2]]
    <2>1. ASSUME NEW m \in 1 .. L, NEW n \in 1 .. L, f[m] = f[n] PROVE m = n
      <3>1. PICK x \in 0 .. L - 1 : s[m] = N(x) /\ e[m] = <<N(x), C(x)>>
        BY <1>4
      <3>2. PICK y \in 0 .. L - 1 : s[n] = N(y) /\ e[n] = <<N(y), C(y)>>
        BY <1>4
      <3>3. C(x) = C(y)
        BY <2>1, <3>1, <3>2
      <3>4. x = y
        BY <1>c, <3>3
      <3>5. s[m] = s[n]
        BY <3>1, <3>2, <3>4
      <3>6. QED
        BY <1>1, <3>5 DEF Bijection, Injection, IsInjective
    <2>2. f \in Bijection(1 .. L, E)
      <3>1. f \in [1 .. L -> E] /\ DOMAIN f = 1 .. L
        OBVIOUS
      <3>2. \A m, n \in 1 .. L : f[m] = f[n] => m = n
        BY <2>1
      <3>3. \A x \in E : \E n \in 1 .. L : f[n] = x
        OBVIOUS
      <3> HIDE DEF f, E
      <3>4. QED
        BY <3>1, <3>2, <3>3 DEF Bijection, Injection, Surjection, IsInjective
    <2>3. Cardinality(E) = L
      BY <2>2, SameSize
    <2>4. QED
      BY <2>3
  <1>9. Lists(e, i)
    <2>1. ToSet(e) = {<<Node(i.params, m), Circuit(i, m)>> :
                              m \in 0 .. NumLevels(i.params) - 1}
      BY <1>7 DEF N, C
    <2>2. e[NumLevels(i.params)] = <<i.params, Circuit(i, 0)>>
      BY <1>6 DEF C
    <2>3. /\ Len(e) = NumLevels(i.params)
          /\ Cardinality({e[m][2] : m \in 1 .. NumLevels(i.params)}) = NumLevels(i.params)
      BY <1>3, <1>8
    <2>4. QED
      BY <2>1, <2>2, <2>3 DEF Lists
  <1>10. Last(e)[2] = C(0)
    BY <1>3, <1>6 DEF Last
  <1>11. \A n \in DOMAIN e : s[n] \in DOMAIN repo /\ e[n][2] = repo[s[n]]
    BY <1>2 DEF D
  <1>12. QED
    BY <1>9, <1>10, <1>11 DEF C

-----------------------------------------------------------------------------
(* A run, step by step.                                                    *)

LEMMA IntentTyped ==
  ASSUME RunTypes
  PROVE  intent \in IntentCalls
  <1>1. NoIntent = [k_at_depth |-> <<>>,
                         params |-> [node_type |-> "Leaf", round |-> 0,
                                     depth |-> 0, initial_depth |-> 0]]
    BY DEF NoIntent, Params
  <1>2. <<>> \in Seq(Nat)
    OBVIOUS
  <1>3. NoIntent \in IntentCalls
    BY <1>1, <1>2 DEF IntentCalls, AnyParams, NodeTypes
  <1>4. QED
    BY KeygenAssumption, <1>3 DEF RunTypes, IntentCalls

LEMMA TypesKept ==
  ASSUME KeygenInv, [KeygenNext]_keygenVars
  PROVE  RunTypes'
  <1> USE DEF KeygenInv, RunTypes
  <1>1. ASSUME NEW i \in Intents, NEW t \in Tags \cup {NoTag}, Start(i, t)
        PROVE  RunTypes'
    <2>1. runs + 1 \in 0 .. MaxRuns
      BY KeygenAssumption, <1>1 DEF Start
    <2>2. QED
      BY <1>1, <2>1 DEF Start
  <1>2. CASE DescendToChild
    BY <1>2 DEF DescendToChild, input
  <1>3. CASE BeginKey
    BY <1>3 DEF BeginKey, input
  <1>4. CASE EndKey
    BY <1>4 DEF EndKey, Return, input
  <1>5. CASE WriteVerifier
    BY <1>5 DEF WriteVerifier, input
  <1>6. CASE CreateCids
    BY <1>6 DEF CreateCids, input
  <1>7. CASE WriteCids
    BY <1>7 DEF WriteCids, input
  <1>8. CASE Die
    BY <1>8 DEF Die, input
  <1>9. CASE UNCHANGED keygenVars
    BY <1>9 DEF keygenVars
  <1>10. QED
    BY <1>1, <1>2, <1>3, <1>4, <1>5, <1>6, <1>7, <1>8, <1>9 DEF KeygenNext

\* Going down a level.
LEMMA CallBelow ==
  ASSUME NEW i \in IntentCalls, NEW call, NEW n \in Nat \ {0},
         CallAt(call, n), call.k_at_depth # <<>>,
         HasChild(call.params), ChildDefined(call.params),
         intent = i
  PROVE  CallAt(ChildIntent(call), n + 1)
  <1> DEFINE c == ChildIntent(call)
             ks == call.k_at_depth
  <1>1. c.k_at_depth = Tail(ks) /\ c.params = Child(call.params)
        /\ c = [k_at_depth |-> Tail(ks), params |-> Child(call.params)]
    BY DEF ChildIntent
  <1>2. /\ ks \in Seq(Nat) /\ call.params \in AnyParams
        /\ call.params = Node(Root, n - 1)
        /\ NumLevels(call.params) = LevelCount - (n - 1)
        /\ Len(ks) = Len(Ks) - (n - 1)
        /\ \A j \in 1 .. Len(ks) : ks[j] = Ks[(n - 1) + j]
    BY DEF CallAt, IntentCalls
  <1>3. /\ Child(call.params) \in AnyParams
        /\ NumLevels(Child(call.params)) = LevelCount - n
    <2>1. LevelCount \in Int
      BY LevelsTyped DEF LevelCount, Root, IntentCalls
    <2> HIDE DEF c, ks
    <2>2. QED
      BY <1>2, <2>1, ChildIsBelow
  <1>4. Child(call.params) = Node(Root, n)
    <2>1. n - 1 \in Nat /\ (n - 1) + 1 = n
      OBVIOUS
    <2>2. Node(Root, (n - 1) + 1) = Child(Node(Root, n - 1))
      BY <2>1, NodeUnfolds
    <2>3. QED
      BY <1>2, <2>1, <2>2
  <1>5. /\ Tail(ks) \in Seq(Nat) /\ Len(Tail(ks)) = Len(Ks) - n
        /\ \A j \in 1 .. Len(Tail(ks)) : Tail(ks)[j] = Ks[n + j]
    <2>1. Ks \in Seq(Nat)
      BY DEF Ks, IntentCalls
    <2>2. /\ Tail(ks) \in Seq(Nat) /\ Len(Tail(ks)) = Len(ks) - 1
          /\ \A j \in 1 .. Len(Tail(ks)) : Tail(ks)[j] = ks[j + 1]
      BY <1>2
    <2> HIDE DEF ks
    <2>3. ASSUME NEW j \in 1 .. Len(Tail(ks)) PROVE Tail(ks)[j] = Ks[n + j]
      <3>1. Len(ks) \in Nat
        BY <1>2
      <3>2. j + 1 \in 1 .. Len(ks) /\ (n - 1) + (j + 1) = n + j
        BY <2>2, <3>1
      <3>3. QED
        BY <1>2, <2>2, <3>2
    <2>4. Len(Ks) \in Nat
      BY <2>1
    <2>5. QED
      BY <1>2, <2>2, <2>3, <2>4
  <1>6. (n + 1) - 1 = n
    OBVIOUS
  <1> HIDE DEF c, ks
  <1>7. c \in IntentCalls
    BY <1>1, <1>3, <1>5 DEF IntentCalls
  <1>8. QED
    BY <1>1, <1>3, <1>4, <1>5, <1>6, <1>7 DEF CallAt, c

LEMMA FrontIs ==
  ASSUME NEW S, NEW s \in Seq(S), s # <<>>
  PROVE  /\ Front(s) \in Seq(S) /\ Len(Front(s)) = Len(s) - 1
         /\ \A m \in 1 .. Len(s) - 1 : Front(s)[m] = s[m]
  <1>1. Front(s) = SubSeq(s, 1, Len(s) - 1)
    BY DEF Front
  <1>2. Len(s) \in Nat \ {0}
    OBVIOUS
  <1>3. \A m \in 1 .. Len(s) - 1 : s[m] \in S
    OBVIOUS
  <1> DEFINE n == Len(s) - 1
  <1>4. n \in Nat
    BY <1>2
  <1> HIDE DEF n
  <1>5. /\ SubSeq(s, 1, n) \in Seq(S)
        /\ Len(SubSeq(s, 1, n)) = IF 1 <= n THEN n - 1 + 1 ELSE 0
        /\ \A m \in 1 .. n - 1 + 1 : SubSeq(s, 1, n)[m] = s[1 + m - 1]
    BY <1>3, <1>4, SubSeqProperties DEF n
  <1>6. /\ SubSeq(s, 1, n) \in Seq(S) /\ Len(SubSeq(s, 1, n)) = n
        /\ \A m \in 1 .. n : SubSeq(s, 1, n)[m] = s[m]
    BY <1>4, <1>5
  <1>7. QED
    BY <1>1, <1>6 DEF n

\* A step that leaves the calls alone.
LEMMA SameCalls ==
  ASSUME CallsDown, UNCHANGED <<intent, calls>>,
         pc' \in {"creating", "writing"} => calls # <<>>,
         pc' \in {"created", "verifier", "listing"} => calls = <<>>
  PROVE  CallsDown'
  BY DEF CallsDown, CallAt, Root, Ks, LevelCount

LEMMA CallsKept ==
  ASSUME KeygenInv, [KeygenNext]_keygenVars
  PROVE  CallsDown'
  <1> USE DEF KeygenInv
  <1>i. intent \in IntentCalls
    BY IntentTyped
  <1>c. /\ calls \in Seq(IntentCalls) /\ Len(calls) \in Nat
        /\ \A n \in 1 .. Len(calls) : calls[n] \in IntentCalls
        /\ calls # <<>> => Len(calls) \in 1 .. Len(calls) /\ Last(calls) = calls[Len(calls)]
    <2>1. calls \in Seq(IntentCalls)
      BY DEF CallsDown, IntentCalls
    <2>2. QED
      BY <2>1 DEF Last
  <1>1. ASSUME NEW i \in Intents, NEW t \in Tags \cup {NoTag}, Start(i, t)
        PROVE  CallsDown'
    <2>1. i \in IntentCalls /\ calls' = <<i>> /\ intent' = i /\ pc' = "creating"
      BY KeygenAssumption, <1>1 DEF Start, IntentCalls
    <2>2. Len(calls') = 1 /\ calls'[1] = i /\ calls' \in Seq(IntentCalls) /\ calls' # <<>>
      BY <2>1
    <2>3. CallAt(calls[1], 1)'
      <3>1. Node(i.params, 0) = i.params
        BY NodeUnfolds
      <3>2. /\ i \in IntentCalls /\ i.params = Node(i.params, 1 - 1)
            /\ NumLevels(i.params) = NumLevels(i.params) - (1 - 1)
            /\ Len(i.k_at_depth) = Len(i.k_at_depth) - (1 - 1)
            /\ \A j \in 1 .. Len(i.k_at_depth) :
                  i.k_at_depth[j] = i.k_at_depth[(1 - 1) + j]
        <4>1. NumLevels(i.params) \in Int /\ Len(i.k_at_depth) \in Nat
          BY <2>1, LevelsTyped DEF IntentCalls
        <4>2. 1 - 1 = 0 /\ \A x \in Int : x - (1 - 1) = x /\ (1 - 1) + x = x
          OBVIOUS
        <4>3. QED
          BY <2>1, <3>1, <4>1, <4>2
      <3>3. QED
        BY <2>1, <2>2, <3>2 DEF CallAt, Root, Ks, LevelCount, IntentCalls
    <2>4. QED
      BY <2>1, <2>2, <2>3 DEF CallsDown, IntentCalls
  <1>2. CASE DescendToChild
    <2> DEFINE n == Len(calls)
               last == Last(calls)
    <2>1. /\ calls' = Append(calls, ChildIntent(last)) /\ last.k_at_depth # <<>>
          /\ HasChild(last.params) /\ ChildDefined(last.params)
          /\ intent' = intent /\ pc' = pc /\ pc = "creating"
      BY <1>2 DEF DescendToChild, input
    <2>2. calls # <<>> /\ last = calls[n] /\ CallAt(last, n) /\ n \in Nat \ {0}
      <3>1. calls # <<>>
        BY <2>1 DEF CallsDown
      <3>2. QED
        BY <1>c, <3>1 DEF CallsDown
    <2> HIDE DEF last
    <2>3. CallAt(ChildIntent(last), n + 1)
      BY <1>i, <2>1, <2>2, CallBelow
    <2>4. ChildIntent(last) \in IntentCalls
      BY <2>3 DEF CallAt, IntentCalls
    <2>5. /\ calls' \in Seq(IntentCalls) /\ Len(calls') = n + 1 /\ calls'[n + 1] = ChildIntent(last)
          /\ \A m \in 1 .. n : calls'[m] = calls[m]
          /\ calls' # <<>>
      BY <1>c, <2>1, <2>4
    <2>6. ASSUME NEW m \in 1 .. Len(calls') PROVE CallAt(calls[m], m)'
      <3>1. CallAt(calls'[m], m)
        <4>1. CASE m = n + 1
          BY <2>3, <2>5, <4>1
        <4>2. CASE m # n + 1
          <5>1. m \in 1 .. n
            BY <1>c, <2>5, <4>2
          <5>2. QED
            BY <2>5, <5>1 DEF CallsDown
        <4>3. QED
          BY <4>1, <4>2
      <3>2. QED
        BY <2>1, <3>1 DEF CallAt, Root, Ks, LevelCount
    <2>7. ASSUME NEW m \in 1 .. Len(calls') - 1
          PROVE  HasChild(calls'[m].params) /\ ChildDefined(calls'[m].params)
      <3>1. m \in 1 .. n /\ calls'[m] = calls[m]
        BY <1>c, <2>5
      <3>2. CASE m = n
        BY <2>1, <2>2, <3>1, <3>2
      <3>3. CASE m # n
        <4>1. m \in 1 .. n - 1
          BY <1>c, <3>1, <3>3
        <4>2. QED
          BY <3>1, <4>1 DEF CallsDown
      <3>4. QED
        BY <3>2, <3>3
    <2>8. QED
      BY <2>1, <2>5, <2>6, <2>7 DEF CallsDown, IntentCalls
  <1>e. CASE EndKey /\ pc' = "idle" /\ calls' = calls
    BY <1>e, SameCalls DEF EndKey, input, CallsDown
  <1>3. CASE EndKey /\ ~ (pc' = "idle" /\ calls' = calls)
    <2> DEFINE n == Len(calls)
    <2>1. /\ calls' = Front(calls) /\ intent' = intent /\ pc = "writing"
          /\ pc' = IF n > 1 THEN "creating" ELSE "created"
      BY <1>3 DEF EndKey, Return, input
    <2>2. calls # <<>> /\ n \in Nat \ {0}
      <3>1. calls # <<>>
        BY <2>1 DEF CallsDown
      <3>2. QED
        BY <1>c, <3>1
    <2>3. /\ calls' \in Seq(IntentCalls) /\ Len(calls') = n - 1
          /\ \A m \in 1 .. n - 1 : calls'[m] = calls[m]
      BY <1>c, <2>1, <2>2, FrontIs
    <2>4. ASSUME NEW m \in 1 .. Len(calls') PROVE CallAt(calls[m], m)'
      <3>1. m \in 1 .. n /\ calls'[m] = calls[m]
        BY <2>2, <2>3
      <3>2. CallAt(calls'[m], m)
        BY <3>1 DEF CallsDown
      <3>3. QED
        BY <2>1, <3>2 DEF CallAt, Root, Ks, LevelCount
    <2>5. ASSUME NEW m \in 1 .. Len(calls') - 1
          PROVE  HasChild(calls'[m].params) /\ ChildDefined(calls'[m].params)
      <3>1. m \in 1 .. n - 1 /\ calls'[m] = calls[m]
        BY <2>2, <2>3
      <3>2. QED
        BY <3>1 DEF CallsDown
    <2>6. /\ n > 1 => calls' # <<>>
          /\ ~ (n > 1) => calls' = <<>>
      BY <2>2, <2>3
    <2>7. QED
      BY <2>1, <2>3, <2>4, <2>5, <2>6 DEF CallsDown, IntentCalls
  <1>4. CASE BeginKey
    BY <1>4, SameCalls DEF BeginKey, input, CallsDown
  <1>5. CASE WriteVerifier \/ CreateCids \/ WriteCids \/ Die
    BY <1>5, SameCalls DEF WriteVerifier, CreateCids, WriteCids, Die,
       input, CallsDown
  <1>6. CASE UNCHANGED keygenVars
    BY <1>6, SameCalls DEF keygenVars, CallsDown
  <1>7. QED
    BY <1>1, <1>2, <1>e, <1>3, <1>4, <1>5, <1>6 DEF KeygenNext

\* A step that makes no circuit.
LEMMA SameMade ==
  ASSUME MadeBelow, UNCHANGED <<intent, calls, child, cid_repo>>,
         child = NotMade => pc' \in {"idle", "creating", "writing"},
         pc' = "writing" => Last(calls).k_at_depth # <<>> /\ ChildIsMade(Last(calls))
  PROVE  MadeBelow'
  BY DEF MadeBelow, Root, Ks, LevelCount, ChildIsMade

\* The innermost call makes the circuit of its level; the first one is the leaf's.
LEMMA CircuitMade ==
  ASSUME KeygenInv, calls # <<>>,
         NEW n, n = Len(calls), NEW last, last = Last(calls),
         last.k_at_depth # <<>>, ChildIsMade(last)
  PROVE  /\ n \in Nat \ {0} /\ last \in IntentCalls /\ last.params = Node(Root, n - 1)
         /\ LevelCount \in Nat /\ n <= LevelCount /\ LevelCount <= Len(Ks) /\ Descends(Root)
         /\ CircuitOf(last, child) = Circuit(intent, n - 1)
         /\ child = NotMade => n = LevelCount
  <1> USE DEF KeygenInv
  <1>1. intent \in IntentCalls /\ Root = intent.params /\ Root \in AnyParams
        /\ Ks = intent.k_at_depth /\ Ks \in Seq(Nat) /\ Len(Ks) \in Nat
        /\ LevelCount \in Int
    BY IntentTyped, LevelsTyped DEF IntentCalls, Root, Ks, LevelCount
  <1>2. calls \in Seq(IntentCalls) /\ calls # <<>> /\ n \in Nat \ {0} /\ last = calls[n]
    BY DEF CallsDown, IntentCalls, Last
  <1>3. CallAt(last, n)
    BY <1>2 DEF CallsDown
  <1>4. /\ last \in IntentCalls /\ last.params = Node(Root, n - 1)
        /\ NumLevels(last.params) = LevelCount - (n - 1)
        /\ Len(last.k_at_depth) = Len(Ks) - (n - 1)
        /\ \A j \in 1 .. Len(last.k_at_depth) : last.k_at_depth[j] = Ks[(n - 1) + j]
    BY <1>3 DEF CallAt, IntentCalls
  <1>6. n <= Len(Ks) /\ last.k_at_depth[1] = Ks[n]
    <2>1. Len(last.k_at_depth) \in Nat \ {0}
      BY <1>4 DEF IntentCalls
    <2>2. 1 \in 1 .. Len(last.k_at_depth) /\ (n - 1) + 1 = n
      BY <1>2, <2>1
    <2>3. last.k_at_depth[1] = Ks[(n - 1) + 1]
      BY <1>4, <2>2
    <2>4. n <= Len(Ks)
      BY <1>1, <1>2, <1>4, <2>1
    <2>5. QED
      BY <2>2, <2>3, <2>4
  <1> DEFINE at(m) == [k_at_depth |-> <<Ks[m + 1]>>, params |-> Node(Root, m)]
  <1>7. /\ last.params \in AnyParams
        /\ last.params = at(n - 1).params /\ last.k_at_depth[1] = at(n - 1).k_at_depth[1]
    <2>1. (n - 1) + 1 = n
      BY <1>2
    <2>2. QED
      BY <1>4, <1>6, <2>1 DEF IntentCalls
  <1>m. ASSUME NEW of
        PROVE  CircuitOf(last, of) = CircuitOf(at(n - 1), of)
    <2> DEFINE j == at(n - 1)
    <2>1. last.params = j.params /\ last.k_at_depth[1] = j.k_at_depth[1]
      BY <1>7
    <2> HIDE DEF j, KeygenInv
    <2>2. CircuitOf(last, of) = CircuitOf(j, of)
      BY <2>1 DEF CircuitOf
    <2>3. QED
      BY <2>2 DEF j
  <1>8. CASE child = NotMade
    <2>1. ~ HasChild(last.params)
      BY <1>8 DEF ChildIsMade
    <2>2. n = LevelCount
      <3>1. LevelCount - (n - 1) = 1
        BY <1>4, <2>1, LeafIsLast
      <3>2. QED
        BY <1>1, <1>2, <3>1
    <2>3. Descends(Root)
      <3>1. ASSUME NEW m \in 0 .. NumLevels(Root) - 1
            PROVE  /\ Node(Root, m) \in AnyParams
                   /\ NumLevels(Node(Root, m)) = NumLevels(Root) - m
                   /\ IF m = NumLevels(Root) - 1 THEN ~ HasChild(Node(Root, m))
                      ELSE /\ HasChild(Node(Root, m))
                           /\ ChildDefined(Node(Root, m))
        <4>1. NumLevels(Root) = n /\ m + 1 \in 1 .. n /\ (m + 1) - 1 = m
          BY <1>2, <2>2 DEF LevelCount
        <4>2. CallAt(calls[m + 1], m + 1)
          BY <4>1 DEF CallsDown
        <4>3. /\ Node(Root, m) \in AnyParams
              /\ NumLevels(Node(Root, m)) = NumLevels(Root) - m
              /\ calls[m + 1].params = Node(Root, m)
          BY <4>1, <4>2 DEF CallAt, LevelCount, IntentCalls
        <4>4. CASE m = n - 1
          <5>1. m + 1 = n
            BY <1>2, <4>4
          <5>2. QED
            BY <1>2, <2>1, <4>1, <4>3, <4>4, <5>1
        <4>5. CASE m # n - 1
          <5>1. m + 1 \in 1 .. n - 1
            BY <1>2, <4>1, <4>5
          <5>2. HasChild(calls[m + 1].params) /\ ChildDefined(calls[m + 1].params)
            BY <5>1 DEF CallsDown
          <5>3. QED
            BY <4>1, <4>3, <4>5, <5>2
        <4>6. QED
          BY <4>4, <4>5
      <3>2. QED
        BY <3>1 DEF Descends
    <2>4. Circuit(intent, n - 1) = CircuitOf(at(n - 1), NotMade)
      <3>1. n - 1 \in Nat /\ n - 1 = NumLevels(intent.params) - 1
        BY <1>1, <1>2, <2>2 DEF LevelCount
      <3>2. QED
        BY <1>1, <3>1, CircuitUnfolds DEF MadeFrom
    <2>5. CircuitOf(last, child) = CircuitOf(at(n - 1), NotMade)
      BY <1>m, <1>8
    <2>6. QED
      BY <1>1, <1>2, <1>4, <1>6, <2>2, <2>3, <2>4, <2>5
  <1>9. CASE child # NotMade
    <2>1. /\ Descends(Root) /\ LevelCount <= Len(Ks) /\ n < LevelCount
          /\ child = Circuit(intent, n)
      BY <1>9 DEF MadeBelow
    <2>2. Circuit(intent, n - 1) = CircuitOf(at(n - 1), child)
      <3> DEFINE bottom == LevelCount - 1
      <3>1. /\ bottom \in Nat /\ n - 1 \in 0 .. bottom /\ n - 1 # bottom /\ (n - 1) + 1 = n
            /\ bottom = NumLevels(intent.params) - 1
        BY <1>1, <1>2, <2>1 DEF LevelCount
      <3> HIDE DEF bottom
      <3>2. Circuit(intent, n - 1) = MadeFrom(intent, n - 1, Circuit(intent, (n - 1) + 1))
        BY <3>1, CircuitUnfolds
      <3>3. QED
        BY <1>1, <2>1, <3>1, <3>2 DEF MadeFrom
    <2>3. CircuitOf(last, child) = CircuitOf(at(n - 1), child)
      BY <1>m
    <2>4. QED
      BY <1>1, <1>2, <1>4, <1>9, <2>1, <2>2, <2>3
  <1>10. QED
    BY <1>8, <1>9

\* No circuit of the run has the place of the one it is making.
LEMMA KeyReturns ==
  ASSUME KeygenInv, EndKey
  PROVE  /\ calls' = Front(calls) /\ child' = CircuitOf(Last(calls), child)
         /\ pc' = IF Len(calls) > 1 THEN "creating" ELSE "created"
  <1> DEFINE last == Last(calls)
             n == Len(calls)
             L == LevelCount
  <1>1. calls # <<>> /\ last.k_at_depth # <<>> /\ ChildIsMade(last)
    BY DEF EndKey, KeygenInv, CallsDown, MadeBelow
  <1>2. /\ n \in Nat \ {0} /\ last.params = Node(Root, n - 1)
        /\ L \in Nat /\ n <= L /\ Descends(Root)
        /\ child = NotMade => n = L
    <2> HIDE DEF last
    <2>1. QED
      BY <1>1, CircuitMade DEF last
  <1>3. last.params \notin DOMAIN cid_repo
    <2>1. CASE child = NotMade
      BY <2>1 DEF KeygenInv, MadeBelow, Empty
    <2>2. CASE child # NotMade
      <3>1. DOMAIN cid_repo = {Node(Root, m) : m \in n .. L - 1}
        BY <2>2 DEF KeygenInv, MadeBelow
      <3>2. ASSUME NEW m \in n .. L - 1 PROVE Node(Root, m) # Node(Root, n - 1)
        <4>1. /\ m \in 0 .. NumLevels(Root) - 1 /\ n - 1 \in 0 .. NumLevels(Root) - 1
              /\ m # n - 1
          BY <1>2 DEF LevelCount
        <4>2. QED
          BY <1>2, <4>1, NodesDiffer DEF LevelCount
      <3>3. QED
        BY <1>2, <3>1, <3>2
    <2>3. QED
      BY <2>1, <2>2
  <1>4. QED
    BY <1>3 DEF EndKey, Return

LEMMA MadeKept ==
  ASSUME KeygenInv, [KeygenNext]_keygenVars
  PROVE  MadeBelow'
  <1> USE DEF KeygenInv
  <1>1. ASSUME NEW i \in Intents, NEW t \in Tags \cup {NoTag}, Start(i, t)
        PROVE  MadeBelow'
    BY <1>1 DEF Start, MadeBelow
  <1>2. CASE DescendToChild
    <2>1. child' = NotMade /\ cid_repo' = Empty /\ pc' = "creating"
      BY <1>2 DEF DescendToChild, MadeBelow
    <2>2. QED
      BY <2>1 DEF MadeBelow
  <1>3. CASE BeginKey
    BY <1>3, SameMade DEF BeginKey, input
  <1>4. CASE EndKey
    <2> DEFINE n == Len(calls)
               last == Last(calls)
               id == CircuitOf(last, child)
               L == LevelCount
               N(m) == Node(Root, m)
               C(m) == Circuit(intent, m)
    <2>1. /\ pc = "writing" /\ child' = id /\ calls' = Front(calls) /\ intent' = intent
          /\ cid_repo' = Put(cid_repo, last.params, id)
          /\ pc' \in {"creating", "created"}
      BY <1>4, KeyReturns DEF EndKey, Return, input
    <2>2. /\ n \in Nat \ {0} /\ last \in IntentCalls /\ last.params = N(n - 1)
          /\ L \in Nat /\ n <= L /\ L <= Len(Ks) /\ Descends(Root)
          /\ id = C(n - 1)
          /\ child = NotMade => n = L
      <3>1. calls # <<>> /\ last.k_at_depth # <<>> /\ ChildIsMade(last)
        BY <2>1 DEF CallsDown, MadeBelow
      <3> HIDE DEF last
      <3>2. QED
        BY <3>1, CircuitMade DEF last
    <2>3. Len(calls') = n - 1
      <3>1. calls \in Seq(IntentCalls) /\ calls # <<>>
        BY <2>1 DEF CallsDown, IntentCalls
      <3>2. QED
        BY <2>1, <3>1, FrontIs
    <2>4. child' # NotMade
      BY <2>1, <2>2, CircuitIsMade DEF IntentCalls
    <2>5. /\ DOMAIN cid_repo = {N(m) : m \in n .. L - 1}
          /\ \A m \in n .. L - 1 : cid_repo[N(m)] = C(m)
      <3>1. CASE child = NotMade
        <4>1. cid_repo = Empty /\ n .. L - 1 = {}
          BY <2>2, <3>1 DEF MadeBelow
        <4>2. DOMAIN cid_repo = {}
          BY <4>1 DEF Empty
        <4>3. QED
          BY <4>1, <4>2
      <3>2. CASE child # NotMade
        BY <3>2 DEF MadeBelow
      <3>3. QED
        BY <3>1, <3>2
    <2>6. /\ DOMAIN cid_repo' = DOMAIN cid_repo \cup {N(n - 1)}
          /\ cid_repo'[N(n - 1)] = C(n - 1)
          /\ \A z \in DOMAIN cid_repo : z # N(n - 1) => cid_repo'[z] = cid_repo[z]
      <3> DEFINE q == N(n - 1)
      <3>1. cid_repo' = Put(cid_repo, q, id) /\ id = C(n - 1)
        BY <2>1, <2>2
      <3> HIDE DEF q, id, C
      <3>2. /\ DOMAIN cid_repo' = DOMAIN cid_repo \cup {q} /\ cid_repo'[q] = C(n - 1)
            /\ \A z \in DOMAIN cid_repo : z # q => cid_repo'[z] = cid_repo[z]
        BY <3>1 DEF Put
      <3>3. QED
        BY <3>2 DEF q
    <2>l. L = NumLevels(Root) /\ Root' = Root /\ LevelCount' = L /\ Len(Ks)' = Len(Ks)
      BY <2>1 DEF LevelCount, Root, Ks
    <2>7. \A m \in n - 1 .. L - 1 : m = n - 1 \/ m \in n .. L - 1
      BY <2>2
    <2>8. DOMAIN cid_repo' = {N(m) : m \in n - 1 .. L - 1}
      <3>1. n - 1 \in n - 1 .. L - 1 /\ n .. L - 1 \subseteq n - 1 .. L - 1
        BY <2>2
      <3> HIDE DEF N, L
      <3>2. QED
        BY <2>5, <2>6, <2>7, <3>1
    <2>9. ASSUME NEW m \in n - 1 .. L - 1 PROVE cid_repo'[N(m)] = C(m)
      <3>1. CASE m = n - 1
        BY <2>6, <3>1
      <3>2. CASE m # n - 1
        <4>1. m \in n .. L - 1
          BY <2>7, <3>2
        <4>2. N(m) # N(n - 1)
          <5>1. m \in 0 .. L - 1 /\ n - 1 \in 0 .. L - 1
            BY <2>2, <4>1
          <5>2. QED
            BY <2>2, <2>l, <3>2, <5>1, NodesDiffer
        <4>3. N(m) \in DOMAIN cid_repo /\ cid_repo[N(m)] = C(m)
          BY <2>5, <4>1
        <4>4. QED
          BY <2>6, <4>2, <4>3
      <3>3. QED
        BY <3>1, <3>2
    <2> HIDE DEF id, last, L
    <2>10. QED
      BY <2>1, <2>2, <2>3, <2>4, <2>8, <2>9, <2>l DEF MadeBelow
  <1>5. CASE WriteVerifier \/ CreateCids \/ WriteCids \/ Die
    <2>1. /\ UNCHANGED <<intent, calls, child, cid_repo>> /\ pc' # "writing"
          /\ pc' # "idle" => pc \in {"created", "verifier", "listing"}
      BY <1>5 DEF WriteVerifier, CreateCids, WriteCids, Die, input
    <2>2. child = NotMade => pc' = "idle"
      BY <2>1 DEF MadeBelow
    <2>3. QED
      BY <2>1, <2>2, SameMade
  <1>6. CASE UNCHANGED keygenVars
    <2>1. UNCHANGED <<intent, calls, child, cid_repo, pc>>
      BY <1>6 DEF keygenVars
    <2>2. QED
      BY <2>1, SameMade DEF MadeBelow
  <1>7. QED
    BY <1>1, <1>2, <1>3, <1>4, <1>5, <1>6 DEF KeygenNext

\* After the outermost call the last circuit is the root's.
LEMMA RootMade ==
  ASSUME KeygenInv, pc \in {"created", "verifier", "listing"}
  PROVE  /\ Descends(Root) /\ LevelCount \in Nat /\ LevelCount >= 1
         /\ child = Circuit(intent, 0)
         /\ DOMAIN cid_repo = NodesOf(Root) /\ Root \in DOMAIN cid_repo
         /\ \A m \in 0 .. LevelCount - 1 : cid_repo[Node(Root, m)] = Circuit(intent, m)
         /\ cid_repo[Root] = child /\ child \in DOMAIN keys
  <1> USE DEF KeygenInv
  <1>1. calls = <<>> /\ Len(calls) = 0
    BY DEF CallsDown
  <1>2. /\ Descends(Root) /\ 0 < LevelCount
        /\ child = Circuit(intent, 0)
        /\ DOMAIN cid_repo = {Node(Root, m) : m \in 0 .. LevelCount - 1}
        /\ \A m \in 0 .. LevelCount - 1 : cid_repo[Node(Root, m)] = Circuit(intent, m)
    BY <1>1 DEF MadeBelow
  <1>3. LevelCount \in Int
    BY IntentTyped, LevelsTyped DEF LevelCount, Root, IntentCalls
  <1>4. 0 \in 0 .. LevelCount - 1 /\ LevelCount \in Nat /\ LevelCount >= 1
    BY <1>2, <1>3
  <1>5. Node(Root, 0) = Root
    BY NodeUnfolds
  <1>6. Root \in DOMAIN cid_repo /\ cid_repo[Root] = child
    BY <1>2, <1>4, <1>5
  <1>7. child \in DOMAIN keys
    BY <1>6 DEF KeysKept
  <1>8. QED
    BY <1>2, <1>4, <1>6, <1>7 DEF NodesOf, LevelCount

LEMMA KeysStayKept ==
  ASSUME KeygenInv, [KeygenNext]_keygenVars
  PROVE  KeysKept'
  <1> USE DEF KeygenInv
  <1>r. runs \in Nat
    BY DEF RunTypes
  <1>1. ASSUME NEW i \in Intents, NEW t \in Tags \cup {NoTag}, Start(i, t)
        PROVE  KeysKept'
    <2>1. /\ runs' = runs + 1 /\ cid_repo' = Empty /\ pc' = "creating"
          /\ UNCHANGED <<keys, verifiers>>
      BY <1>1 DEF Start
    <2>2. ASSUME NEW id \in DOMAIN keys'
          PROVE  /\ keys'[id] \in [whole : BOOLEAN, run : 1 .. runs']
                 /\ keys'[id].run # runs'
      BY <1>r, <2>1 DEF KeysKept
    <2>3. OneCut'
      BY <2>1, <2>2 DEF KeysKept, OneCut
    <2>4. QED
      BY <1>r, <2>1, <2>2, <2>3 DEF KeysKept, Empty
  <1>2. CASE DescendToChild
    <2>1. /\ pc = "creating" /\ UNCHANGED <<pc, intent, runs, child, cid_repo, keys, verifiers>>
      BY <1>2 DEF DescendToChild, input
    <2>2. OneCut'
      BY <2>1 DEF KeysKept, OneCut
    <2>3. QED
      BY <2>1, <2>2 DEF KeysKept, Root
  <1>3. CASE BeginKey
    <2> DEFINE id == CircuitOf(Last(calls), child)
               new == [whole |-> FALSE, run |-> runs]
    <2>1. /\ pc = "creating" /\ pc' = "writing" /\ keys' = Put(keys, id, new)
          /\ UNCHANGED <<calls, child, cid_repo, verifiers, runs>>
      BY <1>3 DEF BeginKey, input
    <2>2. id' = id
      BY <2>1
    <2>3. \A node \in DOMAIN cid_repo :
             cid_repo[node] \in DOMAIN keys /\ keys[cid_repo[node]].whole
      BY <2>1 DEF KeysKept
    <2>n. runs \in 1 .. runs /\ new \in [whole : BOOLEAN, run : 1 .. runs]
          /\ ~ new.whole /\ new.run = runs
      <3>1. runs # 0
        BY <2>1 DEF KeysKept
      <3>2. QED
        BY <1>r, <3>1
    <2> HIDE DEF id, new
    <2>4. /\ DOMAIN keys' = DOMAIN keys \cup {id}
          /\ \A x \in DOMAIN keys' : keys'[x] = IF x = id THEN new ELSE keys[x]
      BY <2>1 DEF Put
    <2>5. ASSUME NEW node \in DOMAIN cid_repo'
          PROVE  /\ cid_repo'[node] \in DOMAIN keys'
                 /\ keys'[cid_repo'[node]].whole \/ cid_repo'[node] = id
      BY <2>1, <2>3, <2>4
    <2>6. \A x \in DOMAIN keys' : keys'[x] \in [whole : BOOLEAN, run : 1 .. runs']
      BY <2>1, <2>4, <2>n DEF KeysKept
    <2>7. \A x \in DOMAIN keys : keys[x].run = runs => keys[x].whole
      BY <2>1 DEF KeysKept, OneCut
    <2>8. /\ \A m, n \in DOMAIN keys' :
                ~ keys'[m].whole /\ ~ keys'[n].whole /\ keys'[m].run = keys'[n].run => m = n
          /\ \A x \in DOMAIN keys' : ~ keys'[x].whole /\ keys'[x].run = runs' => x = id
      <3>1. ASSUME NEW x \in DOMAIN keys', x # id
            PROVE  /\ x \in DOMAIN keys /\ keys'[x] = keys[x]
                   /\ keys[x].run = runs => keys[x].whole
        BY <2>4, <2>7, <3>1
      <3>2. keys'[id] = new
        BY <2>4
      <3>3. \A m, n \in DOMAIN keys :
               ~ keys[m].whole /\ ~ keys[n].whole /\ keys[m].run = keys[n].run => m = n
        BY DEF KeysKept, OneCut
      <3>4. QED
        BY <2>1, <2>n, <3>1, <3>2, <3>3
    <2>9. OneCut'
      BY <2>1, <2>2, <2>8 DEF OneCut, id
    <2>10. QED
      BY <2>1, <2>2, <2>4, <2>5, <2>6, <2>9 DEF KeysKept, id
  <1>4. CASE EndKey
    <2> DEFINE id == CircuitOf(Last(calls), child)
               q == Last(calls).params
               new == [whole |-> TRUE, run |-> runs]
    <2>1. /\ pc = "writing" /\ pc' \in {"creating", "created"}
          /\ keys' = Put(keys, id, new) /\ runs' = runs
          /\ cid_repo' = Put(cid_repo, q, id) /\ verifiers' = verifiers
      BY <1>4, KeyReturns DEF EndKey, Return, input
    <2>2. \A node \in DOMAIN cid_repo :
             /\ cid_repo[node] \in DOMAIN keys
             /\ keys[cid_repo[node]].whole \/ cid_repo[node] = id
      BY <2>1 DEF KeysKept
    <2>n. new \in [whole : BOOLEAN, run : 1 .. runs] /\ new.whole
      <3>1. runs # 0
        BY <2>1 DEF KeysKept
      <3>2. QED
        BY <1>r, <3>1
    <2>c. \A x \in DOMAIN keys : ~ keys[x].whole /\ keys[x].run = runs => x = id
      BY <2>1 DEF KeysKept, OneCut
    <2> HIDE DEF id, q, new
    <2>3. /\ DOMAIN keys' = DOMAIN keys \cup {id}
          /\ \A x \in DOMAIN keys' : keys'[x] = IF x = id THEN new ELSE keys[x]
      BY <2>1 DEF Put
    <2>4. /\ DOMAIN cid_repo' = DOMAIN cid_repo \cup {q}
          /\ \A x \in DOMAIN cid_repo' : cid_repo'[x] = IF x = q THEN id ELSE cid_repo[x]
      BY <2>1 DEF Put
    <2>5. ASSUME NEW node \in DOMAIN cid_repo'
          PROVE  cid_repo'[node] \in DOMAIN keys' /\ keys'[cid_repo'[node]].whole
      BY <2>2, <2>3, <2>4, <2>n
    <2>6. \A x \in DOMAIN keys' : keys'[x] \in [whole : BOOLEAN, run : 1 .. runs']
      BY <2>1, <2>3, <2>n DEF KeysKept
    <2>7. ASSUME NEW x \in DOMAIN keys', ~ keys'[x].whole
          PROVE  x \in DOMAIN keys /\ keys'[x] = keys[x] /\ keys[x].run # runs
      BY <2>3, <2>n, <2>7, <2>c
    <2>8. OneCut'
      BY <2>1, <2>7 DEF KeysKept, OneCut
    <2>9. QED
      BY <2>1, <2>3, <2>5, <2>6, <2>8 DEF KeysKept
  <1>5. CASE WriteVerifier
    <2>1. child \in DOMAIN keys
      BY <1>5, RootMade DEF WriteVerifier
    <2>2. OneCut'
      BY <1>5 DEF WriteVerifier, input, KeysKept, OneCut
    <2>3. QED
      BY <1>5, <2>1, <2>2 DEF WriteVerifier, input, KeysKept, Root
  <1>6. CASE CreateCids
    <2>1. OneCut'
      BY <1>6 DEF CreateCids, input, KeysKept, OneCut
    <2>2. QED
      BY <1>6, <2>1 DEF CreateCids, input, KeysKept, Root
  <1>7. CASE WriteCids \/ Die
    <2>1. OneCut'
      BY <1>7 DEF WriteCids, Die, input, KeysKept, OneCut
    <2>2. QED
      BY <1>7, <2>1 DEF WriteCids, Die, input, KeysKept, Root
  <1>8. CASE UNCHANGED keygenVars
    BY <1>8 DEF keygenVars, KeysKept, OneCut, Root
  <1>9. QED
    BY <1>1, <1>2, <1>3, <1>4, <1>5, <1>6, <1>7, <1>8 DEF KeygenNext

\* Written files are as good as before when keys are added or written over.
LEMMA FilesStay ==
  ASSUME FilesTrue, RunTypes, cids' = cids, runs' \in Nat, runs <= runs',
         pc = "idle" => runs < runs',
         \A id \in DOMAIN keys :
            /\ id \in DOMAIN keys'
            /\ \/ keys'[id] = keys[id] \/ keys'[id].whole
               \/ pc # "idle" /\ keys'[id].run = runs,
         verifiers \subseteq verifiers'
  PROVE  \A name \in DOMAIN cids' :
            /\ cids'[name].run \in Nat /\ cids'[name].run <= runs'
            /\ IF cids'[name].whole
               THEN Lists(cids'[name].entries, cids'[name].intent) /\ Served(cids[name])'
               ELSE cids'[name].entries = <<>>
  <1>r. runs \in Nat
    BY DEF RunTypes
  <1>1. ASSUME NEW name \in DOMAIN cids
        PROVE  /\ cids[name].run \in Nat /\ cids[name].run <= runs'
               /\ IF cids[name].whole
                  THEN Lists(cids[name].entries, cids[name].intent) /\ Served(cids[name])'
                  ELSE cids[name].entries = <<>>
    <2> DEFINE file == cids[name]
    <2>1. /\ file.run \in Nat /\ file.run <= runs
          /\ IF file.whole THEN Lists(file.entries, file.intent) /\ Served(file)
             ELSE file.entries = <<>>
      BY DEF FilesTrue
    <2>2. ASSUME file.whole PROVE Served(file)'
      <3>1. Served(file) /\ file.run < runs' /\ file' = file
        BY <1>r, <2>1, <2>2 DEF Served
      <3> HIDE DEF file
      <3>2. file.run # runs' /\ (pc # "idle" => runs > file.run)
        BY <1>r, <2>1, <3>1 DEF Served
      <3>3. ASSUME NEW n \in DOMAIN file.entries
            PROVE  LET id == file.entries[n][2]
                   IN  id \in DOMAIN keys' /\ (keys'[id].whole \/ keys'[id].run > file.run)
        <4> DEFINE id == file.entries[n][2]
        <4>1. id \in DOMAIN keys /\ (keys[id].whole \/ keys[id].run > file.run)
          BY <3>1 DEF Served
        <4> HIDE DEF id
        <4>2. id \in DOMAIN keys' /\ (keys'[id].whole \/ keys'[id].run > file.run)
          BY <3>2, <4>1
        <4>3. QED
          BY <4>2 DEF id
      <3>4. QED
        BY <3>1, <3>2, <3>3 DEF Served
    <2>3. QED
      BY <1>r, <2>1, <2>2
  <1>2. QED
    BY <1>1

LEMMA FilesStayTrue ==
  ASSUME KeygenInv, [KeygenNext]_keygenVars
  PROVE  FilesTrue'
  <1> USE DEF KeygenInv
  <1>r. runs \in Nat
    BY DEF RunTypes
  <1>1. ASSUME NEW i \in Intents, NEW t \in Tags \cup {NoTag}, Start(i, t)
        PROVE  FilesTrue'
    <2>1. /\ runs' = runs + 1 /\ UNCHANGED <<keys, verifiers, cids>>
      BY <1>1 DEF Start
    <2>2. runs' \in Nat /\ runs < runs' /\ runs <= runs'
      BY <1>r, <2>1
    <2>3. QED
      BY <2>1, <2>2, FilesStay DEF FilesTrue
  <1>2. CASE DescendToChild \/ WriteVerifier \/ Die
    <2>1. /\ pc # "idle" /\ UNCHANGED <<runs, keys, cids>>
          /\ verifiers \subseteq verifiers'
      BY <1>2 DEF DescendToChild, WriteVerifier, Die, input
    <2>2. QED
      BY <1>r, <2>1, FilesStay DEF FilesTrue
  <1>3. CASE BeginKey \/ EndKey
    <2>1. /\ pc # "idle" /\ UNCHANGED <<runs, verifiers, cids>>
          /\ \E x, y : keys' = Put(keys, x, y) /\ y.run = runs
      BY <1>3 DEF BeginKey, EndKey, input
    <2>2. \A id \in DOMAIN keys :
             id \in DOMAIN keys' /\ (keys'[id] = keys[id] \/ keys'[id].run = runs)
      BY <2>1 DEF Put
    <2>3. QED
      BY <1>r, <2>1, <2>2, FilesStay DEF FilesTrue
  <1>4. CASE CreateCids
    <2> DEFINE name == CidsName
               new == [entries |-> <<>>, whole |-> FALSE, intent |-> intent, run |-> runs]
    <2>1. /\ cids' = Put(cids, name, new) /\ pc # "idle"
          /\ UNCHANGED <<keys, verifiers, intent, tag, runs, child>>
      BY <1>4 DEF CreateCids, File, input
    <2>3. new.run = runs /\ ~ new.whole /\ new.entries = <<>>
      OBVIOUS
    <2> HIDE DEF name, new
    <2>4. /\ DOMAIN cids' = DOMAIN cids \cup {name}
          /\ \A x \in DOMAIN cids' : cids'[x] = IF x = name THEN new ELSE cids[x]
      BY <2>1 DEF Put
    <2>5. ASSUME NEW x \in DOMAIN cids'
          PROVE  /\ cids'[x].run \in Nat /\ cids'[x].run <= runs'
                 /\ IF cids'[x].whole
                    THEN Lists(cids'[x].entries, cids'[x].intent) /\ Served(cids[x])'
                    ELSE cids'[x].entries = <<>>
      <3>1. CASE x = name
        BY <1>r, <2>1, <2>3, <2>4, <3>1
      <3>2. CASE x # name
        <4>1. x \in DOMAIN cids /\ cids'[x] = cids[x]
          BY <2>4, <3>2
        <4>2. /\ cids[x].run \in Nat /\ cids[x].run <= runs
              /\ IF cids[x].whole THEN Lists(cids[x].entries, cids[x].intent) /\ Served(cids[x])
                 ELSE cids[x].entries = <<>>
          BY <4>1 DEF FilesTrue
        <4>3. Served(cids[x]) => Served(cids[x])'
          BY <2>1, <4>1 DEF Served
        <4>4. QED
          BY <2>1, <4>1, <4>2, <4>3
      <3>3. QED
        BY <3>1, <3>2
    <2>6. QED
      BY <2>5 DEF FilesTrue
  <1>5. CASE WriteCids
    <2> DEFINE name == CidsName
               e == Entries
               new == [entries |-> e, whole |-> TRUE, intent |-> intent, run |-> runs]
    <2>1. /\ pc = "listing" /\ pc' = "idle"
          /\ cids' = Put(cids, name, new)
          /\ UNCHANGED <<keys, verifiers, intent, runs, child>>
      BY <1>5 DEF WriteCids, File, input
    <2>2. /\ new.run = runs /\ new.whole /\ new.entries = e /\ new.intent = intent
      OBVIOUS
    <2> DEFINE s == Ascending(DOMAIN cid_repo)
    <2>4. /\ Lists(e, intent) /\ Last(e)[2] = child
          /\ \A n \in DOMAIN e : s[n] \in DOMAIN cid_repo /\ e[n][2] = cid_repo[s[n]]
      <3>1. intent.params \in AnyParams /\ LevelCount = NumLevels(intent.params)
        BY IntentTyped DEF Root, LevelCount, IntentCalls
      <3>2. e = [n \in DOMAIN s |-> <<s[n], cid_repo[s[n]]>>]
        BY DEF Entries
      <3>3. /\ Descends(intent.params) /\ LevelCount \in Nat /\ LevelCount >= 1
            /\ child = Circuit(intent, 0)
            /\ DOMAIN cid_repo = NodesOf(intent.params)
            /\ \A m \in 0 .. LevelCount - 1 :
                  cid_repo[Node(intent.params, m)] = Circuit(intent, m)
        BY <2>1, RootMade DEF Root
      <3>4. s = Ascending(DOMAIN cid_repo)
        OBVIOUS
      <3> HIDE DEF e, s
      <3>5. QED
        BY <3>1, <3>2, <3>3, <3>4, WholeTreeListed
    <2> HIDE DEF name, new, e, s
    <2>5. /\ \A n \in DOMAIN e : e[n][2] \in DOMAIN keys /\ keys[e[n][2]].whole
          /\ intent.params.node_type = "Evm" => Last(e)[2] \in verifiers
      BY <2>1, <2>4 DEF KeysKept, Root
    <2>6. /\ DOMAIN cids' = DOMAIN cids \cup {name}
          /\ \A x \in DOMAIN cids' : cids'[x] = IF x = name THEN new ELSE cids[x]
      BY <2>1 DEF Put
    <2>7. ASSUME NEW x \in DOMAIN cids'
          PROVE  /\ cids'[x].run \in Nat /\ cids'[x].run <= runs'
                 /\ IF cids'[x].whole
                    THEN Lists(cids'[x].entries, cids'[x].intent) /\ Served(cids[x])'
                    ELSE cids'[x].entries = <<>>
      <3>1. CASE x = name
        <4>1. cids'[x] = new
          BY <2>6, <3>1
        <4>2. Served(cids[x])'
          BY <2>1, <2>2, <2>5, <4>1 DEF Served
        <4>3. QED
          BY <1>r, <2>1, <2>2, <2>4, <4>1, <4>2
      <3>2. CASE x # name
        <4>1. x \in DOMAIN cids /\ cids'[x] = cids[x]
          BY <2>6, <3>2
        <4>2. /\ cids[x].run \in Nat /\ cids[x].run <= runs
              /\ IF cids[x].whole THEN Lists(cids[x].entries, cids[x].intent) /\ Served(cids[x])
                 ELSE cids[x].entries = <<>>
          BY <4>1 DEF FilesTrue
        <4>3. Served(cids[x]) => Served(cids[x])'
          BY <2>1, <4>1 DEF Served
        <4>4. QED
          BY <2>1, <4>1, <4>2, <4>3
      <3>3. QED
        BY <3>1, <3>2
    <2>8. QED
      BY <2>7 DEF FilesTrue
  <1>6. CASE UNCHANGED keygenVars
    <2>1. UNCHANGED <<pc, intent, tag, child, keys, verifiers, cids, runs>>
      BY <1>6 DEF keygenVars
    <2>2. QED
      BY <2>1 DEF FilesTrue, Served
  <1>7. QED
    BY <1>1, <1>2, <1>3, <1>4, <1>5, <1>6 DEF KeygenNext

\* What a run of the binary has on disk and in its hands, at every moment, also after
\* an earlier run died: the calls under way are the levels of its tree from the root
\* down, what has been made are the circuits of all levels below them, and every list
\* written so far is served by the keys (keygen/mod.rs, bin/keygen.rs).
THEOREM KeysInOrder == KeygenSpec => []KeygenInv
  <1>1. KeygenInit => KeygenInv
    <2> SUFFICES ASSUME KeygenInit PROVE KeygenInv
      OBVIOUS
    <2>1. /\ pc = "idle" /\ intent = NoIntent /\ tag = NoTag /\ calls = <<>>
          /\ child = NotMade /\ cid_repo = Empty /\ keys = Empty
          /\ verifiers = {} /\ cids = Empty /\ runs = 0
      BY DEF KeygenInit
    <2>2. DOMAIN Empty = {}
      BY DEF Empty
    <2>3. RunTypes
      BY KeygenAssumption, <2>1 DEF RunTypes
    <2>4. CallsDown
      BY <2>1 DEF CallsDown
    <2>5. MadeBelow /\ KeysKept /\ FilesTrue
      BY <2>1, <2>2 DEF MadeBelow, KeysKept, OneCut, FilesTrue
    <2>6. QED
      BY <2>3, <2>4, <2>5 DEF KeygenInv
  <1>2. KeygenInv /\ [KeygenNext]_keygenVars => KeygenInv'
    BY TypesKept, CallsKept, MadeKept, KeysStayKept, FilesStayTrue DEF KeygenInv
  <1>3. QED
    BY <1>1, <1>2, PTL DEF KeygenSpec

\* The recursion never loses its place: each call has the node of its level and the ks
\* from that level on, and no verifier is on disk without its key.
THEOREM RunsTypeCorrect == KeygenSpec => []KeygenTypeOK
  <1>1. KeygenInv => KeygenTypeOK
    <2> SUFFICES ASSUME KeygenInv PROVE KeygenTypeOK
      OBVIOUS
    <2> USE DEF KeygenInv
    <2>1. ASSUME NEW n \in DOMAIN calls
          PROVE  /\ calls[n].params = Node(intent.params, n - 1)
                 /\ Len(calls[n].k_at_depth) = Len(intent.k_at_depth) - (n - 1)
      <3>1. n \in 1 .. Len(calls)
        BY DEF CallsDown
      <3>2. CallAt(calls[n], n)
        BY <3>1 DEF CallsDown
      <3>3. QED
        BY <3>2 DEF CallAt, Root, Ks
    <2>2. QED
      BY <2>1 DEF KeygenTypeOK, RunTypes, KeysKept
  <1>2. QED
    BY <1>1, KeysInOrder, PTL

\* A .cids file written to its end lists every node of the intent's tree, the root
\* last, each with a circuit of its own made from its child's, for every shape of tree
\* and however many runs shared the directory.
THEOREM ListsAreTrees == KeygenSpec => []TreeComplete
  <1>1. KeygenInv => TreeComplete
    BY DEF KeygenInv, FilesTrue, Lists, TreeComplete
  <1>2. QED
    BY <1>1, KeysInOrder, PTL

\* The circuits of a written list have their keys on disk, each whole unless a later
\* run died, or still is, writing that very key again; a run leaves at most one key
\* cut; and an Evm tree has its verifier (keygen/mod.rs:428-447, bin/keygen.rs).
THEOREM ListsAreServed == KeygenSpec => []CidsServable
  <1>1. KeygenInv => CidsServable
    <2> SUFFICES ASSUME KeygenInv PROVE CidsServable
      OBVIOUS
    <2>1. ASSUME NEW name \in DOMAIN cids
          PROVE  /\ \A n \in DOMAIN cids[name].entries :
                       /\ cids[name].entries[n][2] \in DOMAIN keys
                       /\ \/ keys[cids[name].entries[n][2]].whole
                          \/ keys[cids[name].entries[n][2]].run > cids[name].run
                 /\ cids[name].whole /\ cids[name].intent.params.node_type = "Evm" =>
                       Last(cids[name].entries)[2] \in verifiers
      <3>1. CASE cids[name].whole
        BY <3>1 DEF KeygenInv, FilesTrue, Served
      <3>2. CASE ~ cids[name].whole
        <4>1. cids[name].entries = <<>>
          BY <3>2 DEF KeygenInv, FilesTrue
        <4>2. DOMAIN cids[name].entries = {}
          BY <4>1
        <4>3. QED
          BY <3>2, <4>2
      <3>3. QED
        BY <3>1, <3>2
    <2>2. \A m, n \in DOMAIN keys :
             ~ keys[m].whole /\ ~ keys[n].whole /\ keys[m].run = keys[n].run => m = n
      BY DEF KeygenInv, KeysKept, OneCut
    <2>3. QED
      BY <2>1, <2>2, Zenon DEF CidsServable
  <1>2. QED
    BY <1>1, KeysInOrder, PTL

\* An intent with fewer ks than levels is found out before any file is written: the
\* assertion on the way down comes before the first key (keygen/mod.rs:372).
THEOREM ShortIntentsWriteNothing == KeygenSpec => ShortIntentWritesNothing
  <1> DEFINE Short == calls # <<>> /\ Len(intent.k_at_depth) < NumLevels(intent.params)
             Quiet == UNCHANGED <<keys, verifiers, cids>>
  <1>1. KeygenInv /\ [KeygenNext]_keygenVars => (Short => Quiet)
    <2> SUFFICES ASSUME KeygenInv, [KeygenNext]_keygenVars, Short PROVE Quiet
      OBVIOUS
    <2>1. ASSUME NEW i \in Intents, NEW t \in Tags \cup {NoTag}, Start(i, t)
          PROVE  Quiet
      BY <2>1 DEF Start
    <2>2. CASE DescendToChild \/ Die
      BY <2>2 DEF DescendToChild, Die
    <2>3. ASSUME Last(calls).k_at_depth # <<>>, ChildIsMade(Last(calls))
          PROVE  FALSE
      <3>1. LevelCount \in Nat /\ LevelCount <= Len(Ks) /\ Len(Ks) < LevelCount
        BY <2>3, CircuitMade DEF LevelCount, Ks, Root
      <3>2. Len(Ks) \in Nat
        BY IntentTyped DEF KeygenInv, Ks, IntentCalls
      <3>3. QED
        BY <3>1, <3>2
    <2>4. CASE BeginKey
      BY <2>3, <2>4 DEF BeginKey
    <2>5. CASE EndKey
      BY <2>3, <2>5 DEF EndKey, KeygenInv, MadeBelow
    <2>6. CASE WriteVerifier \/ CreateCids \/ WriteCids
      <3>1. pc \in {"created", "verifier", "listing"}
        BY <2>6 DEF WriteVerifier, CreateCids, WriteCids
      <3>2. QED
        BY <3>1 DEF KeygenInv, CallsDown
    <2>7. CASE UNCHANGED keygenVars
      BY <2>7 DEF keygenVars
    <2>8. QED
      BY <2>1, <2>2, <2>4, <2>5, <2>6, <2>7 DEF KeygenNext
  <1>2. QED
    BY <1>1, KeysInOrder, PTL DEF KeygenSpec, ShortIntentWritesNothing
=============================================================================

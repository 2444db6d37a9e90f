-------------------------- MODULE RecursiveRequest --------------------------
(***************************************************************************)
(* How both schedulers cut a request into tasks, one per node of the       *)
(* aggregation tree.  A task covers positions start .. end - 1 of a        *)
(* request and carries the claims at them.                                 *)
(***************************************************************************)
EXTENDS NodeParams, Integers, Sequences

Task(request, params, start, end, claims) ==
    [request |-> request, params |-> params,
     start |-> start, end |-> end, claims |-> claims]

NumProofs(t) == t.end - t.start

\* The k-th of the pieces of 2^(child's depth) positions.
PieceFromZero(t, size, k) ==
    LET from == t.start + (k - 1) * size
        to == IF from + size < t.end THEN from + size ELSE t.end
    IN  Task(t.request, Child(t.params), from, to, SubSeq(t.claims, 1, to - from))
Piece(t, size, k) ==
    LET from == t.start + (k - 1) * size
        to == IF from + size < t.end THEN from + size ELSE t.end
    IN  Task(t.request, Child(t.params), from, to,
             SubSeq(t.claims, from - t.start + 1, to - t.start))

IsLeafTask(t) == t.params.depth = t.params.initial_depth

Dependencies(t) ==
    IF IsLeafTask(t) THEN <<>>
    ELSE LET size == 2 ^ Child(t.params).depth
         IN  [k \in 1 .. (NumProofs(t) + size - 1) \div size |-> Piece(t, size, k)]

DependencySet(t) == {Dependencies(t)[k] : k \in DOMAIN Dependencies(t)}

\* The recursion of handle_recursive_request, down to the leaves.
Height(params) == params.round + 1 + params.depth - params.initial_depth
Below(tasks) == UNION {DependencySet(u) : u \in tasks}
Levels(t) ==
    LET level[h \in 0 .. Height(t.params)] ==
            IF h = 0 THEN {t} ELSE Below(level[h - 1])
    IN  level
TreeOf(t) == LET level == Levels(t) IN UNION {level[h] : h \in DOMAIN level}
=============================================================================

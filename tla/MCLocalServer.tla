--------------------------- MODULE MCLocalServer ---------------------------
(***************************************************************************)
(* Requests of a developer: a good one, one for every way to be wrong, and *)
(* one that leaves everything to the server's own defaults.  The keys are  *)
(* those of two complete trees.                                            *)
(***************************************************************************)
EXTENDS LocalServer

CONSTANTS
    evm,        \* positions 2 .. 4, in a tree of three levels, for the chain
    leaf,       \* two positions and a single claim, the snark of a leaf
    single,     \* a leaf of one position: nobody has keys for that
    wrapped,    \* as far backwards as the end - start of a u32 wraps to 2
    large,      \* one position more than the tree has
    short,      \* one position more than it has claims
    empty,
    shallow,    \* a tree less deep than its leaves
    defaults,   \* two claims, and none of the optional fields
    c0, c1, c2

MCPosted ==
    LET request(start, end, claims, depth, final, evm_proof) ==
            [start |-> start, end |-> end, claims |-> claims, depth |-> depth,
             initial_depth |-> IF depth = 0 THEN 1 ELSE Absent,
             is_final |-> final, for_evm |-> evm_proof, rounds |-> Absent]
        all == <<c0, c1, c2>>
    IN  [r \in Requests |->
            CASE r = evm -> [request(2, 5, all, 2, Absent, Absent) EXCEPT !.rounds = 0]
              [] r = leaf -> request(0, 2, <<c0>>, 1, FALSE, FALSE)
              [] r = single ->
                    [request(0, 1, <<c0>>, 0, FALSE, FALSE) EXCEPT !.initial_depth = 0]
              [] r = wrapped -> request(Word - 1, 1, <<c0, c1>>, 2, Absent, Absent)
              [] r = large -> request(0, 5, all \o <<c0, c1>>, 2, Absent, Absent)
              [] r = short -> request(0, 3, <<c0, c1>>, 2, Absent, Absent)
              [] r = empty -> request(1, 1, <<>>, 2, Absent, Absent)
              [] r = defaults -> request(0, 2, <<c0, c1>>, Absent, Absent, Absent)
              [] OTHER -> request(0, 1, <<c0>>, 0, Absent, Absent)]   \* shallow

Descendants(params) ==
    LET chain[k \in 0 .. 4] ==
            IF k = 0 THEN {params}
            ELSE {Child(p) : p \in {q \in chain[k - 1] : HasChild(q)}}
    IN  UNION {chain[k] : k \in 0 .. 4}

MCCids ==
    UNION {Descendants(Params("Evm", EXTRA_ROUNDS, d, INITIAL_DEPTH)) : d \in {1, 2}}
=============================================================================

------------------------------ MODULE MCKeygen ------------------------------
(***************************************************************************)
(* Intents for trees that share circuits, whole or in part: a later run    *)
(* writes over keys that an earlier .cids file names.                      *)
(***************************************************************************)
EXTENDS Keygen

CONSTANT small    \* a tag

intentOf(ks, params) == [k_at_depth |-> ks, params |-> params]

MCIntents ==
    { intentOf(<<23, 22, 21, 20, 20>>, Params("Evm", 1, 2, 1)),
      intentOf(<<22, 21, 20, 20>>, Params("Evm", 0, 2, 1)),     \* a tree of the first
      intentOf(<<20, 20>>, Params("Intermediate", 0, 2, 1)),
      intentOf(<<21, 20, 20>>, Params("Root", 0, 3, 1)),        \* shares the one above
      intentOf(<<22, 20>>, Params("Evm", 0, 1, 1)),             \* no root circuit
      intentOf(<<20>>, Params("Leaf", 0, 1, 1)),
      intentOf(<<20>>, Params("Leaf", 0, 2, 1)),                \* the same circuit
      intentOf(<<22, 21>>, Params("Evm", 0, 2, 1)),             \* too few ks
      intentOf(<<22, 21, 20, 20, 20>>, Params("Evm", 0, 2, 1)), \* one too many
      intentOf(<<20, 20>>, Params("Root", 0, 1, 2)),            \* fails child's assertion
      intentOf(<<>>, Params("Leaf", 0, 1, 1)) }
=============================================================================

---------------------------- MODULE MerkleClaims ----------------------------
(***************************************************************************)
(* The Keccak Merkle tree of claims, as its three authors see it: the      *)
(* circuits that build it, the utility that reads paths off it, and the    *)
(* contract that hashes its way back up.                                   *)
(*                                                                         *)
(* Keccak is injective on what is hashed here, so a digest is modelled by  *)
(* the term it digests.  A leaf digests 84 bytes and a node 64, so a leaf  *)
(* is never a node: a 1-tuple and a 2-tuple.                               *)
(***************************************************************************)
EXTENDS Integers, Sequences

Leaf(claim) == <<claim>>
Node(a, b) == <<a, b>>

\* One level of the tree from the one below it.
Level(nodes) ==
    [k \in 1 .. Len(nodes) \div 2 |-> Node(nodes[2 * k - 1], nodes[2 * k])]

\* The tree over 2^depth leaves: Layers(...)[1] the leaves, the last one <<root>>.
Layers(leaves, depth) ==
    LET layer[d \in 1 .. depth + 1] ==
            IF d = 1 THEN leaves ELSE Level(layer[d - 1])
    IN  layer

\* What such a tree is, however it was computed.
IsTree(layers, leaves, depth) ==
    /\ Len(layers) = depth + 1
    /\ layers[1] = leaves
    /\ \A d \in 1 .. depth : layers[d + 1] = Level(layers[d])
    /\ Len(layers[depth + 1]) = 1

RootOf(layers) == layers[Len(layers)][1]

\* The leaves of a tree of n claims: slots past the count are masked to zero.
MaskedLeaves(slots, n, zero) ==
    [k \in DOMAIN slots |-> Leaf(IF k <= n THEN slots[k] ELSE zero)]

-----------------------------------------------------------------------------
(* Paths, with leaves counted from 0.                                      *)

\* The position of leaf `index` (its ancestor's, higher up) in layer d.
PositionAt(index, d) == index \div 2 ^ (d - 1)

Sibling(position) == IF position % 2 = 0 THEN position + 1 ELSE position - 1

\* (The script's siblingIndex < layer.length is true of every full tree.)
SisterNodes(layers, index) ==
    [d \in 1 .. Len(layers) - 1 |->
        layers[d][Sibling(PositionAt(index, d)) + 1]]

\* Whether the sister is on the left, not whether the node is.
IsLeftNode(layers, index) ==
    [d \in 1 .. Len(layers) - 1 |-> PositionAt(index, d) % 2 # 1]
IsLeft(layers, index) ==
    [d \in 1 .. Len(layers) - 1 |-> PositionAt(index, d) % 2 = 1]

\* One turn of the contract's loop.
Climb(running, sister, isLeft) ==
    IF isLeft THEN Node(sister, running) ELSE Node(running, sister)
=============================================================================

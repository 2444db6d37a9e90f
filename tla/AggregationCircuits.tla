------------------------ MODULE AggregationCircuits ------------------------
(***************************************************************************)
(* What the leaf, intermediate and root circuits accept and expose, for V1 *)
(* and V2 at once: they differ only in what stands for the claims, all the *)
(* slots (V1, hashed by the root circuit) or the root of their tree (V2).  *)
(*                                                                         *)
(* A snark is modelled by its public instances.  `committed` is not one of *)
(* them: it records which claim each leaf put at which position.           *)
(***************************************************************************)
EXTENDS MerkleClaims

CONSTANTS
    VKeys, Roots, Claims,
    ZeroClaim,      \* grant 0, address 0, nullifier 0
    Proven,         \* Proven[<<k, r>>]: claims with a Groth16 proof for key k, root r
    INITIAL_DEPTH,  \* a leaf circuit has 2^INITIAL_DEPTH slots
    MAX_DEPTH       \* the root circuit's depth

Capacity(depth) == 2 ^ depth

ASSUME CircuitAssumption ==
    /\ Proven \in [VKeys \X Roots -> SUBSET Claims]
    /\ ZeroClaim \in Claims
    /\ INITIAL_DEPTH \in Nat /\ MAX_DEPTH \in Nat /\ INITIAL_DEPTH < MAX_DEPTH
    /\ MAX_DEPTH < 32      \* 1 << max_depth bounds a u32

\* A leaf circuit's witness: positions start .. end - 1 of some request, and
\* what fills the slots.
LeafInput ==
    [vk : VKeys, root : Roots, start : Nat, end : Nat, slots : Seq(Claims)]

Count(s) == s.end - s.start

\* DUMMY_CLAIM_ROOTS: roots of the trees whose leaves are all masked.  (The code has
\* them up to depth 13; an intermediate circuit over deeper snarks cannot be built.)
DummyClaimRoot[d \in 0 .. MAX_DEPTH] ==
    IF d = 0 THEN Leaf(ZeroClaim)
    ELSE Node(DummyClaimRoot[d - 1], DummyClaimRoot[d - 1])

-----------------------------------------------------------------------------
(* The leaf circuit.                                                       *)

\* Every slot carries a Groth16 proof that verifies, the unused ones too.
LeafAccepts(in) ==
    /\ in.start < in.end
    /\ Count(in) <= Capacity(INITIAL_DEPTH)
    /\ Len(in.slots) = Capacity(INITIAL_DEPTH)
    /\ \A k \in DOMAIN in.slots : in.slots[k] \in Proven[<<in.vk, in.root>>]

LeafSnark(in) ==
    [depth |-> INITIAL_DEPTH, start |-> in.start, end |-> in.end,
     vk |-> in.vk, root |-> in.root, slots |-> in.slots,
     claimRoot |-> RootOf(Layers(MaskedLeaves(in.slots, Count(in), ZeroClaim),
                                 INITIAL_DEPTH)),
     committed |-> [p \in in.start .. in.end - 1 |-> in.slots[p - in.start + 1]]]

-----------------------------------------------------------------------------
(* The intermediate and the root circuit, on two snarks and a count n.     *)

IsSecondDummy(left, n) == n <= Capacity(left.depth)
JoinedEnd(left, right, n) ==
    IF IsSecondDummy(left, n) THEN left.end ELSE right.end

JoinAcceptsPartialLeft(left, right, n) ==
    LET capacity == Capacity(left.depth)
    IN  /\ left.depth = right.depth /\ left.depth < MAX_DEPTH
        /\ n # 0
        /\ Count(left) \in 0 .. capacity /\ Count(right) \in 0 .. capacity
        /\ IsSecondDummy(left, n) \/ left.end = right.start
        /\ n = JoinedEnd(left, right, n) - left.start
        /\ left.vk = right.vk /\ left.root = right.root
JoinAcceptsAnyKey(left, right, n) ==
    LET capacity == Capacity(left.depth)
    IN  /\ left.depth = right.depth /\ left.depth < MAX_DEPTH
        /\ n # 0
        /\ Count(left) \in 0 .. capacity /\ Count(right) \in 0 .. capacity
        /\ IsSecondDummy(left, n) \/ (left.end = right.start /\ Count(left) = capacity)
        /\ n = JoinedEnd(left, right, n) - left.start
        /\ left.root = right.root
JoinAccepts(left, right, n) ==
    LET capacity == Capacity(left.depth)
    IN  /\ left.depth = right.depth /\ left.depth < MAX_DEPTH
        /\ n # 0
        /\ Count(left) \in 0 .. capacity /\ Count(right) \in 0 .. capacity
        /\ IsSecondDummy(left, n) \/ (left.end = right.start /\ Count(left) = capacity)
        /\ n = JoinedEnd(left, right, n) - left.start
        /\ left.vk = right.vk /\ left.root = right.root

\* V2: a dummy's place in the tree is taken by a tree of masked leaves.
RightClaimRootOfParent(left, right, n) ==
    IF IsSecondDummy(left, n) THEN DummyClaimRoot[left.depth + 1] ELSE right.claimRoot
RightClaimRoot(left, right, n) ==
    IF IsSecondDummy(left, n) THEN DummyClaimRoot[left.depth] ELSE right.claimRoot

\* V1 keeps a dummy's slots, past the end.
JoinSnark(left, right, n) ==
    [depth |-> left.depth + 1, start |-> left.start,
     end |-> JoinedEnd(left, right, n), vk |-> left.vk, root |-> left.root,
     slots |-> left.slots \o right.slots,
     claimRoot |-> Node(left.claimRoot, RightClaimRoot(left, right, n)),
     committed |->
        IF IsSecondDummy(left, n) THEN left.committed
        ELSE [p \in DOMAIN left.committed \cup DOMAIN right.committed |->
                 IF p \in DOMAIN left.committed THEN left.committed[p]
                 ELSE right.committed[p]]]
=============================================================================

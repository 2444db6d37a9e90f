----------------------------- MODULE ProofPool -----------------------------
(***************************************************************************)
(* A prover that has the circuits and follows no plan: it proves any leaf  *)
(* and joins any two snarks it holds, in either order, or one with itself. *)
(* Whatever comes of it at MAX_DEPTH is what a contract may be shown, so   *)
(* what holds of every snark here is what the contracts may rely on.       *)
(***************************************************************************)
EXTENDS AggregationCircuits, FiniteSets

CONSTANTS
    LeafInputs,     \* witnesses a leaf is attempted with
    MaxSnarks       \* bound: snarks held at a time

ASSUME PoolAssumption == LeafInputs \subseteq LeafInput /\ MaxSnarks \in Nat

VARIABLE snarks     \* the snarks held

ProveLeaf(in) ==
    /\ LeafAccepts(in)
    /\ Cardinality(snarks) < MaxSnarks
    /\ snarks' = snarks \cup {LeafSnark(in)}

\* left = right is the scheduler's dummy, a clone of the only dependency.
Join(left, right, n) ==
    /\ JoinAccepts(left, right, n)
    /\ snarks' = (snarks \ {left, right}) \cup {JoinSnark(left, right, n)}

Init == snarks = {}

Next ==
    \/ \E in \in LeafInputs : ProveLeaf(in)
    \/ \E left, right \in snarks : \E n \in 1 .. Capacity(MAX_DEPTH) :
          Join(left, right, n)

Spec == Init /\ [][Next]_snarks

-----------------------------------------------------------------------------
\* Every snark counts at least one claim and at most a tree of its depth.
SnarkTyped(s) ==
    /\ s.depth \in INITIAL_DEPTH .. MAX_DEPTH
    /\ s.start \in Nat /\ s.end \in Nat
    /\ Count(s) \in 1 .. Capacity(s.depth)
    /\ s.vk \in VKeys /\ s.root \in Roots
    /\ s.slots \in Seq(Claims) /\ Len(s.slots) = Capacity(s.depth)
TypeOK == \A s \in snarks : SnarkTyped(s)

\* V1 hashes every slot, so every slot, a dummy's included, must hold a claim
\* proved with the key and against the root that the snark exposes.
Witnessed(s) ==
    \A k \in DOMAIN s.slots : s.slots[k] \in Proven[<<s.vk, s.root>>]
SlotsProven == \A s \in snarks : Witnessed(s)

\* The first slots of a snark are the claims its leaves put at positions
\* start .. end - 1, in that order: no padding, gap or repetition among them,
\* however the snarks were partitioned, swapped or cloned on the way.
InOrder(s) ==
    /\ DOMAIN s.committed = s.start .. s.end - 1
    /\ \A k \in 1 .. Count(s) : s.slots[k] = s.committed[s.start + k - 1]
SlotsInOrder == \A s \in snarks : InOrder(s)

\* V2 exposes the root of the tree over the claims that count, every other leaf
\* masked, at whichever level a dummy came in: the tree users take paths from.
ClaimsTree(s) ==
    s.claimRoot = RootOf(Layers(MaskedLeaves(s.slots, Count(s), ZeroClaim), s.depth))
ClaimRootIsTree == \A s \in snarks : ClaimsTree(s)
=============================================================================

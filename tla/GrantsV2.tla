------------------------------ MODULE GrantsV2 ------------------------------
(***************************************************************************)
(* WorldcoinAggregationV2: validateClaimsRoot records the Merkle root of a *)
(* proved batch; claim pays one claim of any recorded batch against its    *)
(* path, whoever sends it.                                                 *)
(*                                                                         *)
(* A claim transaction is several steps, one per turn of the Merkle loop.  *)
(* The rest of the world moves only between transactions.  A call that     *)
(* fails a check reverts with nothing changed: no step of its own, except  *)
(* where it ends a transaction already begun.                              *)
(***************************************************************************)
EXTENDS GrantAccounts, MerkleClaims

CONSTANTS
    LOG_MAX_NUM_CLAIMS,
    ZeroGrant,        \* uint256(0)
    ZeroNullifier,    \* bytes32(0)
    RootProofs,       \* proofs for validateClaimsRoot
    ClaimCalls        \* calldata of claim

\* The claim of a padding leaf: 84 zero bytes.
ZeroClaim ==
    [grant |-> ZeroGrant, receiver |-> ZeroAddress, nullifier |-> ZeroNullifier]

Capacity == 2 ^ LOG_MAX_NUM_CLAIMS

\* The leaves of the circuits' tree.
Masked(slots, n) == MaskedLeaves(slots, n, ZeroClaim)

\* A proof: what it exposes to the contract, whether VERIFIER accepts it, and
\* the slots and the tree it was made from.
IsRootProof(p) ==
    /\ p.vkeyHash \in VKeys /\ p.root \in Roots /\ p.numClaims \in Nat
    /\ p.valid \in BOOLEAN
    /\ p.slots \in Seq(Claims) /\ Len(p.slots) = Capacity

ClaimsRoot(p) == RootOf(p.layers)

\* Soundness of the proof system: the claims that count were proved, and the
\* root exposed is the one of their tree.
SnarkSound(p) ==
    p.valid =>
        /\ \A k \in 1 .. p.numClaims : p.slots[k] \in Proven[<<p.vkeyHash, p.root>>]
        /\ IsTree(p.layers, Masked(p.slots, p.numClaims), LOG_MAX_NUM_CLAIMS)

\* isLeft stands for the first bytes of isLeftBytes, coerced to bool; the loop
\* reads no others.
IsClaimCall(c) ==
    /\ c.claim \in Claims /\ c.root \in Roots
    /\ c.isLeft \in [1 .. LOG_MAX_NUM_CLAIMS -> BOOLEAN]

ASSUME ProofAssumption ==
    /\ LOG_MAX_NUM_CLAIMS \in 0 .. 32
    /\ ZeroGrant \in Grants /\ ZeroNullifier \in Nullifiers
    /\ \A p \in RootProofs : IsRootProof(p) /\ SnarkSound(p)
    /\ \A c \in ClaimCalls : IsClaimCall(c)

VARIABLES
    validClaimsRoots, \* pairs <<root, claimsRoot>>
    phase,            \* "idle", or "path" inside a claim transaction
    call,             \* calldata of the running, or else the last, claim
    i,                \* the loop index
    runningHash

txVars == <<phase, call, i, runningHash>>
vars == <<chainVars, contractVars, validClaimsRoots, txVars>>

-----------------------------------------------------------------------------
(* validateClaimsRoot.                                                     *)

AcceptsRootAnyVkey(sender, p) ==
    /\ Authorised(sender)
    /\ p.root \in validRoots
    /\ p.numClaims <= Capacity
    /\ p.valid
AcceptsRoot(sender, p) ==
    /\ Authorised(sender)
    /\ p.vkeyHash = VKEY_HASH
    /\ p.root \in validRoots
    /\ p.numClaims <= Capacity
    /\ p.valid

ValidateClaimsRoot(sender, p) ==
    /\ phase = "idle"
    /\ AcceptsRoot(sender, p)
    /\ validClaimsRoots' = validClaimsRoots \cup {<<p.root, ClaimsRoot(p)>>}
    /\ UNCHANGED <<chainVars, contractVars, txVars>>

-----------------------------------------------------------------------------
(* claim.                                                                  *)

\* What claim checks before it looks at the path.
AdmitsUsed(c) ==
    /\ c.claim.receiver # ZeroAddress
    /\ c.claim.grant \in openGrants
    /\ Len(c.sisterNodes) = LOG_MAX_NUM_CLAIMS
AdmitsAnyReceiver(c) ==
    /\ c.claim.nullifier \notin nullifierHashes
    /\ c.claim.grant \in openGrants
    /\ Len(c.sisterNodes) = LOG_MAX_NUM_CLAIMS
Admits(c) ==
    /\ c.claim.nullifier \notin nullifierHashes
    /\ c.claim.receiver # ZeroAddress
    /\ c.claim.grant \in openGrants
    /\ Len(c.sisterNodes) = LOG_MAX_NUM_CLAIMS

BeginClaim(c) ==
    /\ phase = "idle"
    /\ Admits(c)
    /\ phase' = "path"
    /\ call' = c
    /\ i' = 0
    /\ runningHash' = Leaf(c.claim)
    /\ UNCHANGED <<chainVars, contractVars, validClaimsRoots>>

LoopDone == i = Len(call.sisterNodes)

HashStep ==
    /\ phase = "path" /\ ~LoopDone
    /\ runningHash' = Climb(runningHash, call.sisterNodes[i + 1], call.isLeft[i + 1])
    /\ i' = i + 1
    /\ UNCHANGED <<chainVars, contractVars, validClaimsRoots, phase, call>>

RootRecorded == <<call.root, runningHash>> \in validClaimsRoots

\* The effects, in the code's order: mark, transfer, event.
Pay ==
    /\ nullifierHashes' = nullifierHashes \cup {call.claim.nullifier}
    /\ Transfer(call.claim.receiver, Amount[call.claim.grant])
    /\ claimed' = Append(claimed, call.claim)

PayUnrecorded ==
    /\ phase = "path" /\ LoopDone
    /\ CanTransfer(Amount[call.claim.grant])
    /\ Pay
    /\ phase' = "idle"
    /\ UNCHANGED <<supply, validRoots, openGrants, validClaimsRoots, call, i,
                   runningHash>>
PayClaim ==
    /\ phase = "path" /\ LoopDone
    /\ RootRecorded
    /\ CanTransfer(Amount[call.claim.grant])
    /\ Pay
    /\ phase' = "idle"
    /\ UNCHANGED <<supply, validRoots, openGrants, validClaimsRoots, call, i,
                   runningHash>>

\* An unknown root, or a transfer that fails and takes the mark down with it.
RevertKeepingMark ==
    /\ phase = "path" /\ LoopDone
    /\ ~(RootRecorded /\ CanTransfer(Amount[call.claim.grant]))
    /\ phase' = "idle"
    /\ nullifierHashes' = IF RootRecorded
                          THEN nullifierHashes \cup {call.claim.nullifier}
                          ELSE nullifierHashes
    /\ UNCHANGED <<chainVars, claimed, validClaimsRoots, call, i, runningHash>>
RevertClaim ==
    /\ phase = "path" /\ LoopDone
    /\ ~(RootRecorded /\ CanTransfer(Amount[call.claim.grant]))
    /\ phase' = "idle"
    /\ UNCHANGED <<chainVars, contractVars, validClaimsRoots, call, i, runningHash>>

-----------------------------------------------------------------------------
NoCall == [claim |-> ZeroClaim, sisterNodes |-> << >>]

Init ==
    /\ ChainInit
    /\ nullifierHashes = {}
    /\ claimed = << >>
    /\ validClaimsRoots = {}
    /\ phase = "idle"
    /\ call = NoCall
    /\ i = 0
    /\ runningHash = Leaf(ZeroClaim)

Environment ==
    /\ phase = "idle"
    /\ ChainNext
    /\ UNCHANGED <<contractVars, validClaimsRoots, txVars>>

Next ==
    \/ \E sender \in Addresses, p \in RootProofs : ValidateClaimsRoot(sender, p)
    \/ \E c \in ClaimCalls : BeginClaim(c)
    \/ HashStep \/ PayClaim \/ RevertClaim
    \/ Environment

Spec == Init /\ [][Next]_vars

-----------------------------------------------------------------------------
TypeOK ==
    /\ ChainTypeOK
    /\ nullifierHashes \subseteq Nullifiers
    /\ claimed \in Seq(Claims)
    /\ phase \in {"idle", "path"}
    /\ call \in ClaimCalls \cup {NoCall}
    /\ phase = "path" =>
          call \in ClaimCalls /\ Len(call.sisterNodes) = LOG_MAX_NUM_CLAIMS
    /\ i \in 0 .. LOG_MAX_NUM_CLAIMS

\* Accepted proofs whose root the contract has recorded, and the claims that
\* count in them.
Recorded ==
    {p \in RootProofs :
        /\ p.valid /\ p.vkeyHash = VKEY_HASH /\ p.root \in GenuineRoots
        /\ p.numClaims <= Capacity
        /\ <<p.root, ClaimsRoot(p)>> \in validClaimsRoots}
CommittedIn(p) == {p.slots[k] : k \in 1 .. p.numClaims}

\* Whatever path was submitted, the claim it paid is one of those committed in
\* a recorded tree: no path leads from a padding leaf, an inner node or a claim
\* of another batch to a recorded root.
PaidOnlyIfCommitted ==
    \A j \in DOMAIN claimed : \E p \in Recorded : claimed[j] \in CommittedIn(p)

\* Why that holds, part 1: every recorded pair is of an accepted proof.
RootsFromProofs ==
    \A pair \in validClaimsRoots :
        \E p \in Recorded : pair = <<p.root, ClaimsRoot(p)>>

\* Part 2, the invariant of the Merkle loop: from a claim that is no leaf of a
\* tree, the running hash is no node of it, level by level.
IsIn(x, nodes) == \E k \in DOMAIN nodes : nodes[k] = x
PathOutside ==
    phase = "path" =>
        /\ call.claim.receiver # ZeroAddress
        /\ call.claim.nullifier \notin nullifierHashes
        /\ \A p \in RootProofs :
              p.valid /\ ~IsIn(Leaf(call.claim), p.layers[1])
                => ~IsIn(runningHash, p.layers[i + 1])

\* Both entry points together implement the abstract ledger, one claim at a
\* time, with the same claim in several trees, or several times in one.
Ledger == INSTANCE GrantLedger
    WITH Eligible <- EligibleClaims,
         paid <- {claimed[j] : j \in DOMAIN claimed}
ImplementsLedger == Ledger!Spec

\* The claim call for entry k of a recorded batch, with the path that the
\* utility script reads off the tree it rebuilds from the claims.
PathTree(p) == Layers(Masked(p.slots, p.numClaims), LOG_MAX_NUM_CLAIMS)
HonestClaim(p, k) ==
    [claim |-> p.slots[k], root |-> p.root,
     sisterNodes |-> SisterNodes(PathTree(p), k - 1),
     isLeft |-> IsLeft(PathTree(p), k - 1)]

\* A transaction the contract has admitted for such a call, and can afford,
\* pays: the circuit, the script and the contract agree on order and padding.
HonestClaimPaid ==
    [][\A p \in Recorded : \A k \in 1 .. p.numClaims :
         /\ phase = "path" /\ phase' = "idle"
         /\ call = HonestClaim(p, k)
         /\ CanTransfer(Amount[call.claim.grant])
         => claimed' = Append(claimed, p.slots[k])]_vars
=============================================================================

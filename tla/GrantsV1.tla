------------------------------ MODULE GrantsV1 ------------------------------
(***************************************************************************)
(* WorldcoinAggregationV1: distributeGrants pays every claim of a proved   *)
(* batch in one transaction, or none.                                      *)
(*                                                                         *)
(* A transaction is several steps here, so that what happens halfway is    *)
(* visible: Begin runs the checks, PayClaim is one turn of the loop, and   *)
(* Commit or Revert ends it.  The chain runs one transaction at a time, so *)
(* the rest of the world moves only between transactions.                  *)
(***************************************************************************)
EXTENDS GrantAccounts

CONSTANTS
    MAX_NUM_CLAIMS, \* batch capacity, a power of two
    Calls           \* the calldata that senders may submit

\* One word of the hashed output, and the calldata of distributeGrants.  The
\* proof carries the output its circuit exposes and whether VERIFIER accepts it.
Words == VKeys \cup Roots \cup Nat \cup Grants \cup Addresses \cup Nullifiers
CallType ==
    [sender : Addresses, vkeyHash : VKeys, numClaims : Nat, root : Roots,
     grantIds : Seq(Grants), receivers : Seq(Addresses),
     nullifiers : Seq(Nullifiers),
     proof : [output : Seq(Words), valid : BOOLEAN]]

\* The hash preimage, word by word; keccak256 is injective, so the model
\* compares preimages.  abi.encodePacked puts no separator between the arrays.
Packed(vk, root, n, gs, rs, ns) == <<vk, root, n>> \o gs \o rs \o ns

\* What the root circuit hashes: every slot of the arrays, the ones past
\* num_proofs included, each slot holding a claim whose Groth16 proof verifies.
CircuitOutput(vk, root, n, slots) ==
    Packed(vk, root, n,
           [k \in DOMAIN slots |-> slots[k].grant],
           [k \in DOMAIN slots |-> slots[k].receiver],
           [k \in DOMAIN slots |-> slots[k].nullifier])

\* Soundness of the proof system: an accepted proof has a witness.
SnarkSound(c) ==
    c.proof.valid =>
        \E vk \in VKeys, root \in Roots, n \in 1 .. MAX_NUM_CLAIMS :
            \E slots \in [1 .. MAX_NUM_CLAIMS -> Proven[<<vk, root>>]] :
                c.proof.output = CircuitOutput(vk, root, n, slots)

ASSUME CallAssumption ==
    /\ MAX_NUM_CLAIMS \in Nat \ {0}
    /\ Calls \subseteq CallType
    /\ \A c \in Calls : SnarkSound(c)

VARIABLES
    phase,            \* "idle", or "loop" inside a transaction
    call,             \* calldata of the running, or else the last, transaction
    i,                \* the loop index
    saved,            \* the state a revert goes back to
    receipt           \* outcome of the last transaction

txVars == <<phase, call, i, saved, receipt>>
vars == <<chainVars, contractVars, txVars>>

NoCall == [sender |-> ZeroAddress, numClaims |-> 0]

ClaimAt(c, k) ==
    [grant |-> c.grantIds[k], receiver |-> c.receivers[k],
     nullifier |-> c.nullifiers[k]]
BatchOf(c) == [k \in 1 .. c.numClaims |-> ClaimAt(c, k)]

-----------------------------------------------------------------------------
(* The checks before the loop.                                             *)

SameLengths(c) ==
    /\ Len(c.receivers) = Len(c.nullifiers)
    /\ c.numClaims = Len(c.receivers)
    /\ c.numClaims = Len(c.grantIds)

DerivedOutputSwapped(c) ==
    Packed(c.vkeyHash, c.root, c.numClaims, c.receivers, c.grantIds, c.nullifiers)
DerivedOutput(c) ==
    Packed(c.vkeyHash, c.root, c.numClaims, c.grantIds, c.receivers, c.nullifiers)

AcceptsAnyRoot(c) ==
    /\ Authorised(c.sender)
    /\ SameLengths(c)
    /\ c.vkeyHash = VKEY_HASH
    /\ c.numClaims <= MAX_NUM_CLAIMS
    /\ c.proof.output = DerivedOutput(c)
    /\ c.proof.valid
Accepts(c) ==
    /\ Authorised(c.sender)
    /\ SameLengths(c)
    /\ c.vkeyHash = VKEY_HASH
    /\ c.root \in validRoots
    /\ c.numClaims <= MAX_NUM_CLAIMS
    /\ c.proof.output = DerivedOutput(c)
    /\ c.proof.valid

\* A call that fails a check reverts with nothing changed.
Reject(c) ==
    /\ phase = "idle"
    /\ ~Accepts(c)
    /\ call' = c
    /\ i' = 0
    /\ receipt' = "reverted"
    /\ UNCHANGED <<chainVars, contractVars, phase, saved>>

Begin(c) ==
    /\ phase = "idle"
    /\ Accepts(c)
    /\ phase' = "loop"
    /\ call' = c
    /\ i' = 0
    /\ saved' = [wld |-> wld, nullifierHashes |-> nullifierHashes,
                 claimed |-> claimed]
    /\ receipt' = "pending"
    /\ UNCHANGED <<chainVars, contractVars>>

-----------------------------------------------------------------------------
(* The loop over the claims.                                               *)

LoopDoneEarly == i + 1 >= call.numClaims
LoopDone == i = call.numClaims

\* The claim at the loop index, once the index is known to be in range.
Current == ClaimAt(call, i + 1)

CanPay(k) ==
    /\ k.grant \in openGrants
    /\ k.receiver # ZeroAddress
    /\ k.nullifier \notin nullifierHashes
    /\ CanTransfer(Amount[k.grant])

PayWithoutMarking ==
    /\ phase = "loop" /\ ~LoopDone /\ CanPay(Current)
    /\ Transfer(Current.receiver, Amount[Current.grant])
    /\ claimed' = Append(claimed, Current)
    /\ i' = i + 1
    /\ UNCHANGED <<supply, validRoots, openGrants, nullifierHashes, phase, call,
                   saved, receipt>>
PayFirstAmount ==
    /\ phase = "loop" /\ ~LoopDone /\ CanPay(Current)
    /\ nullifierHashes' = nullifierHashes \cup {Current.nullifier}
    /\ CanTransfer(Amount[ClaimAt(call, 1).grant])
    /\ Transfer(Current.receiver, Amount[ClaimAt(call, 1).grant])
    /\ claimed' = Append(claimed, Current)
    /\ i' = i + 1
    /\ UNCHANGED <<supply, validRoots, openGrants, phase, call, saved, receipt>>
PayOrSkip ==
    /\ phase = "loop" /\ ~LoopDone
    /\ Current.grant \in openGrants /\ Current.receiver # ZeroAddress
    /\ Current.nullifier \notin nullifierHashes
    /\ nullifierHashes' = nullifierHashes \cup {Current.nullifier}
    /\ IF CanTransfer(Amount[Current.grant])
       THEN /\ Transfer(Current.receiver, Amount[Current.grant])
            /\ claimed' = Append(claimed, Current)
       ELSE UNCHANGED <<wld, claimed>>
    /\ i' = i + 1
    /\ UNCHANGED <<supply, validRoots, openGrants, phase, call, saved, receipt>>
PayClaim ==
    /\ phase = "loop" /\ ~LoopDone /\ CanPay(Current)
    /\ nullifierHashes' = nullifierHashes \cup {Current.nullifier}
    /\ Transfer(Current.receiver, Amount[Current.grant])
    /\ claimed' = Append(claimed, Current)
    /\ i' = i + 1
    /\ UNCHANGED <<supply, validRoots, openGrants, phase, call, saved, receipt>>

\* Any failure inside the loop undoes the whole transaction.
Revert ==
    /\ phase = "loop" /\ ~LoopDone /\ ~CanPay(Current)
    /\ phase' = "idle"
    /\ wld' = saved.wld
    /\ nullifierHashes' = saved.nullifierHashes
    /\ claimed' = saved.claimed
    /\ receipt' = "reverted"
    /\ UNCHANGED <<supply, validRoots, openGrants, call, i, saved>>

Commit ==
    /\ phase = "loop" /\ LoopDone
    /\ phase' = "idle"
    /\ receipt' = "success"
    /\ UNCHANGED <<chainVars, contractVars, call, i, saved>>

-----------------------------------------------------------------------------
Init ==
    /\ ChainInit
    /\ nullifierHashes = {}
    /\ claimed = << >>
    /\ phase = "idle"
    /\ call = NoCall
    /\ i = 0
    /\ saved = [wld |-> wld, nullifierHashes |-> nullifierHashes,
                claimed |-> claimed]
    /\ receipt = "none"

\* Blocks move the rest of the world between transactions only.
Environment ==
    /\ phase = "idle"
    /\ ChainNext
    /\ UNCHANGED <<contractVars, txVars>>

Execute == PayClaim \/ Revert \/ Commit

Next ==
    \/ \E c \in Calls : Begin(c) \/ Reject(c)
    \/ Execute
    \/ Environment

Spec == Init /\ [][Next]_vars

-----------------------------------------------------------------------------
TypeOK ==
    /\ ChainTypeOK
    /\ nullifierHashes \subseteq Nullifiers
    /\ claimed \in Seq(Claims)
    /\ phase \in {"idle", "loop"}
    /\ call \in Calls \cup {NoCall}
    /\ phase = "loop" => call \in Calls /\ SameLengths(call)
    /\ i \in 0 .. call.numClaims
    /\ saved.wld \in [Addresses -> Nat]
    /\ saved.nullifierHashes \subseteq Nullifiers
    /\ saved.claimed \in Seq(Claims)
    /\ receipt \in {"none", "pending", "success", "reverted"}

\* A transaction that ends has paid its whole batch, in order, or has left
\* the token, the nullifiers and the log as they were before it.
AllOrNothing ==
    [][phase = "loop" /\ phase' = "idle" =>
        \/ /\ receipt' = "success"
           /\ claimed' = saved.claimed \o BatchOf(call)
        \/ /\ receipt' = "reverted"
           /\ wld' = saved.wld
           /\ nullifierHashes' = saved.nullifierHashes
           /\ claimed' = saved.claimed]_vars

\* The committed claims implement the abstract ledger: only eligible claims
\* are paid, a batch at a time, however the calldata and the proof disagree.
Committed == IF phase = "loop" THEN saved.claimed ELSE claimed
Ledger == INSTANCE GrantLedger
    WITH Eligible <- EligibleClaims,
         paid <- {Committed[k] : k \in DOMAIN Committed}
ImplementsLedger == Ledger!Spec

\* Why a commit is a step of the ledger: the loop only ever adds to a sound
\* checkpoint, one claim of the call per turn, each of them eligible.
LoopInvariant ==
    phase = "loop" =>
        /\ saved.nullifierHashes = NullifiersOf(saved.claimed)
        /\ PaidOnce(saved.claimed)
        /\ \A k \in 1 .. call.numClaims : ClaimAt(call, k) \in EligibleClaims
        /\ Len(claimed) = Len(saved.claimed) + i
        /\ \A k \in 1 .. Len(saved.claimed) : claimed[k] = saved.claimed[k]
        /\ \A k \in 1 .. i :
              /\ claimed[Len(saved.claimed) + k] = ClaimAt(call, k)
              /\ ClaimAt(call, k).receiver # ZeroAddress

-----------------------------------------------------------------------------
(* What the scheduler submits, and when the contract ought to pay it.      *)

\* V1ClaimParams::new on the proof of a request for the first n of the root circuit's
\* slots.  The other slots hold what leaves and dummies are filled with: any claims
\* that are proved (AggregationCircuits says which).
HonestCall(root, n, slots) ==
    [sender |-> PROVER, vkeyHash |-> VKEY_HASH, numClaims |-> n,
     root |-> root,
     grantIds |-> [k \in 1 .. n |-> slots[k].grant],
     receivers |-> [k \in 1 .. n |-> slots[k].receiver],
     nullifiers |-> [k \in 1 .. n |-> slots[k].nullifier],
     proof |-> [valid |-> TRUE,
                output |-> CircuitOutput(VKEY_HASH, root, n, slots)]]

HonestCalls(lengths) ==
    UNION {{HonestCall(r, n, slots) :
                slots \in [1 .. MAX_NUM_CLAIMS -> Proven[<<VKEY_HASH, r>>]]} :
           n \in lengths, r \in GenuineRoots}

\* Nothing stands in the way of any claim of the batch.
Distributable(c) ==
    LET batch == BatchOf(c)
        cost == MapThenSumSet(LAMBDA k : Amount[batch[k].grant], DOMAIN batch)
    IN  /\ c.root \in validRoots
        /\ cost <= wld[Distributor]
        /\ \A k \in DOMAIN batch : CanPay(batch[k])
        /\ \A j, k \in DOMAIN batch :
               batch[j].nullifier = batch[k].nullifier => j = k

\* The contract accepts the scheduler's call for a full batch: circuit, client
\* and contract lay the hashed words out alike.
FullBatchAccepted ==
    phase = "idle" =>
        \A c \in HonestCalls({MAX_NUM_CLAIMS}) : Distributable(c) => Accepts(c)

\* The same for the smaller batches the prover takes "as a convenience to the
\* user" (circuit/README.md:60); the error TooManyClaims promises them too.
PartialBatchAccepted ==
    phase = "idle" =>
        \A c \in HonestCalls(1 .. MAX_NUM_CLAIMS) : Distributable(c) => Accepts(c)
=============================================================================

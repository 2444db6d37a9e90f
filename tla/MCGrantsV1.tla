----------------------------- MODULE MCGrantsV1 -----------------------------
(***************************************************************************)
(* Batches of up to two claims over two grants of different amounts, one   *)
(* genuine root and one invented one, and calldata that agrees with its    *)
(* proof, or does not, in each way the contract checks.                    *)
(***************************************************************************)
EXTENDS GrantsV1

CONSTANTS vk, vkOther, root, rootFake, g1, g2, zero, self, prover, alice, bob,
          n1, n2

MCAmount == (g1 :> 1) @@ (g2 :> 2)

claim(g, r, n) == [grant |-> g, receiver |-> r, nullifier |-> n]

\* Alice's claim, a second one she signed for the same nullifier with Bob as
\* the receiver, Bob's claim of the larger grant, and one to the zero address.
MCEligible ==
    {claim(g1, alice, n1), claim(g1, bob, n1), claim(g2, bob, n2),
     claim(g1, zero, n2)}
Forged == {claim(g2, alice, n1), claim(g2, alice, n2)}
MCProven ==
    [kr \in {vk, vkOther} \X {root, rootFake} |->
        IF kr = <<vk, root>> THEN MCEligible ELSE Forged]

\* Proofs against another key or an invented tree.
ForeignCall(k, r, batch) ==
    [HonestCall(r, 2, batch) EXCEPT
        !.vkeyHash = k,
        !.proof.output = CircuitOutput(k, r, 2, batch)]
Foreign == {<<vkOther, root>>, <<vk, rootFake>>}

\* One honest call altered after proving: a receiver, the count, a dropped
\* array entry, the key, the proof's verdict, the sender.
honest == HonestCall(root, 2, <<claim(g1, alice, n1), claim(g2, bob, n2)>>)
Altered ==
    {[honest EXCEPT !.receivers = <<bob, bob>>],
     [honest EXCEPT !.numClaims = 1],
     [honest EXCEPT !.receivers = <<alice>>],
     [honest EXCEPT !.proof.valid = FALSE],
     [honest EXCEPT !.vkeyHash = vkOther],
     [honest EXCEPT !.sender = alice]}

MCCalls ==
    HonestCalls({1, 2})
      \cup {ForeignCall(kr[1], kr[2], b) : kr \in Foreign, b \in [1 .. 2 -> Forged]}
      \cup Altered
=============================================================================

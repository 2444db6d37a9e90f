---------------------------- MODULE MCProofPool ----------------------------
(***************************************************************************)
(* Leaves of two slots, trees of two and three levels.  The ranges overlap,*)
(* leave gaps, and stop halfway through a leaf; a few leaves are for       *)
(* another key, another root or a claim that was never proved.             *)
(***************************************************************************)
EXTENDS ProofPool

CONSTANTS vk, vkOther, root, rootOther, zeroClaim, c0, c1, c2, c3, c4, fake

request == <<c0, c1, c2, c3, c4>>

MCProven ==
    [kr \in {vk, vkOther} \X {root, rootOther} |->
        IF kr = <<vk, root>> THEN {c0, c1, c2, c3, c4}
        ELSE IF kr[1] = vk THEN {c2, c3}
        ELSE {c2, c3, fake}]

\* WorldcoinLeafInput::new on claims start .. end - 1: the first claim pads.
leaf(k, r, start, end) ==
    [vk |-> k, root |-> r, start |-> start, end |-> end,
     slots |-> [s \in 1 .. Capacity(INITIAL_DEPTH) |->
                   IF start + s <= end THEN request[start + s]
                   ELSE request[start + 1]]]

MCLeafInputs ==
    {leaf(vk, root, r[1], r[2]) :
        r \in {<<0, 2>>, <<2, 4>>, <<4, 5>>, <<0, 1>>, <<1, 2>>, <<2, 3>>}}
      \cup {leaf(vkOther, root, 2, 4), leaf(vk, rootOther, 2, 4)}
      \cup {[leaf(vk, root, 2, 4) EXCEPT !.slots[2] = fake],
            [leaf(vk, root, 2, 4) EXCEPT !.end = 2],
            [leaf(vk, root, 2, 4) EXCEPT !.end = 5],
            [leaf(vk, root, 2, 3) EXCEPT !.slots[2] = c0]}
=============================================================================

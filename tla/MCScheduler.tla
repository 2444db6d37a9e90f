----------------------------- MODULE MCScheduler -----------------------------
(***************************************************************************)
(* Requests for the scheduler, told apart by their number of claims and by *)
(* whether every claim was proved.                                         *)
(***************************************************************************)
EXTENDS Scheduler

CONSTANTS
    three, two, one,    \* requests with that many good claims
    bad,                \* a request with an unproven claim
    empty, huge,        \* requests of no claim and of one too many
    vk, root, zeroClaim, c0, c1, c2, c3, c4, fake

good == <<c0, c1, c2, c3, c4>>

MCClaimsOf ==
    [r \in Requests |->
        CASE r = three -> SubSeq(good, 1, 3)
          [] r = two -> SubSeq(good, 1, 2)
          [] r = one -> SubSeq(good, 4, 4)
          [] r = bad -> <<fake>>
          [] r = empty -> <<>>
          [] OTHER -> good]

MCRootIn == [r \in Requests |-> root]
MCProven == [kr \in {vk} \X {root} |-> {c0, c1, c2, c3, c4}]
=============================================================================

------------------------------ MODULE TaskTree ------------------------------
(***************************************************************************)
(* The tasks of the production scheduler's requests, and what it asks of   *)
(* the prover for each of them.                                            *)
(***************************************************************************)
EXTENDS AggregationCircuits, RecursiveRequest, FiniteSets

CONSTANTS
    Requests,       \* requests posted to the scheduler
    ClaimsOf,       \* ClaimsOf[r]: the request's claims
    RootIn,         \* RootIn[r]: the World ID root they are proved against
    VK,             \* the Groth16 key compiled into the scheduler
    EXTRA_ROUNDS    \* the final circuit is Evm(EXTRA_ROUNDS)

ASSUME TaskTreeAssumption ==
    /\ ClaimsOf \in [Requests -> Seq(Claims)]
    /\ RootIn \in [Requests -> Roots]
    /\ VK \in VKeys
    /\ EXTRA_ROUNDS \in Nat

NumClaims(r) == Len(ClaimsOf[r])

FinalParams == Params("Evm", EXTRA_ROUNDS, MAX_DEPTH, INITIAL_DEPTH)

Top(r) == Task(r, FinalParams, 0, NumClaims(r), ClaimsOf[r])

Tree(r) == TreeOf(Top(r))

Admissible(r) == NumClaims(r) # 0 /\ NumClaims(r) <= Capacity(MAX_DEPTH)

-----------------------------------------------------------------------------
(* The prover's side of a task: snarks are those of its dependencies.      *)

\* The first claim pads the slots of a leaf that is not full.
LeafWitness(t) ==
    [vk |-> VK, root |-> RootIn[t.request], start |-> t.start, end |-> t.end,
     slots |-> [s \in 1 .. Capacity(INITIAL_DEPTH) |->
                   IF s <= Len(t.claims) THEN t.claims[s] ELSE t.claims[1]]]

\* A missing second snark is replaced by a clone of the first.
WithDummy(snarks) == IF Len(snarks) = 2 THEN snarks ELSE <<snarks[1], snarks[1]>>

Provable(t, snarks) ==
    CASE t.params.node_type = "Leaf" ->
            Len(t.claims) = Count(t) /\ LeafAccepts(LeafWitness(t))
      [] t.params.node_type = "Evm" -> Len(snarks) = 1
      [] OTHER -> /\ Len(snarks) \in {1, 2}
                  /\ JoinAccepts(WithDummy(snarks)[1], WithDummy(snarks)[2], Count(t))

\* An Evm circuit verifies one snark and exposes its instances.
ProofOf(t, snarks) ==
    CASE t.params.node_type = "Leaf" -> LeafSnark(LeafWitness(t))
      [] t.params.node_type = "Evm" -> snarks[1]
      [] OTHER -> JoinSnark(WithDummy(snarks)[1], WithDummy(snarks)[2], Count(t))
=============================================================================

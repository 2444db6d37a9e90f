----------------------------- MODULE LocalServer -----------------------------
(***************************************************************************)
(* The development server: clients name the range and the shape of the     *)
(* tree themselves, and a request is proved depth first, one task at a     *)
(* time, inside its handler.  The handlers share the prover and its mutex  *)
(* (module ProvingServer).                                                 *)
(***************************************************************************)
EXTENDS RecursiveRequest, FiniteSets

CONSTANTS
    Requests,
    Claims,
    Posted,             \* Posted[r]: the fields of the request's JSON
    Absent,             \* an optional field that is left out
    INITIAL_DEPTH, EXTRA_ROUNDS,    \* what is taken for some of those
    Cids,               \* the node parameters that have a circuit id
    OverflowChecks,     \* whether the build panics on overflow (profile dev)
    Word,               \* 2^32, the values of a u32
    NoRequest           \* nobody proves

Optional(S) == S \cup {Absent}

\* Bound: 1 << depth is a u32.
Depths == 0 .. 31

Fields ==
    [start : 0 .. Word - 1, end : 0 .. Word - 1, claims : Seq(Claims),
     depth : Optional(Depths), initial_depth : Optional(Nat), rounds : Optional(Nat),
     is_final : Optional(BOOLEAN), for_evm : Optional(BOOLEAN)]

ASSUME LocalServerAssumption ==
    /\ Word \in Nat
    /\ Posted \in [Requests -> Fields]
    /\ INITIAL_DEPTH \in Depths /\ EXTRA_ROUNDS \in Nat
    /\ OverflowChecks \in BOOLEAN
    /\ NoRequest \notin Requests

VARIABLES
    phase,      \* phase[r]: how far the handler is
    stack,      \* stack[r]: the calls of recursive_gen_proof under way
    prover,     \* the request whose handler holds the prover's mutex
    stored,     \* the tasks whose proofs have been made
    answer      \* answer[r]: what the client is to get, as the range and the
                \* claims that the proof covers

vars == <<phase, stack, prover, stored, answer>>

Given(field, default) == IF field = Absent THEN default ELSE field
Depth(r) == Given(Posted[r].depth, INITIAL_DEPTH)
InitialDepth(r) == Given(Posted[r].initial_depth, INITIAL_DEPTH)
IsFinal(r) == Given(Posted[r].is_final, TRUE)
ForEvm(r) == Given(Posted[r].for_evm, TRUE)

TopParams(r) ==
    CASE IsFinal(r) /\ ForEvm(r) ->
            Params("Evm", Given(Posted[r].rounds, EXTRA_ROUNDS), Depth(r), InitialDepth(r))
      [] IsFinal(r) /\ ~ ForEvm(r) -> Params("Root", 0, Depth(r), InitialDepth(r))
      [] OTHER -> Params(IF Depth(r) = InitialDepth(r) THEN "Leaf" ELSE "Intermediate",
                         0, Depth(r), InitialDepth(r))

Top(r) == Task(r, TopParams(r), Posted[r].start, Posted[r].end, Posted[r].claims)

Nothing == [start |-> 0, end |-> 0, claims |-> <<>>]

Init ==
    /\ phase = [r \in Requests |-> "new"]
    /\ stack = [r \in Requests |-> <<>>]
    /\ prover = NoRequest
    /\ stored = {}
    /\ answer = [r \in Requests |-> Nothing]

End(r, outcome) ==
    /\ phase' = [phase EXCEPT ![r] = outcome]
    /\ stack' = [stack EXCEPT ![r] = <<>>]

-----------------------------------------------------------------------------
(* The handler, up to the recursion.                                       *)

Backwards(r) == Posted[r].start > Posted[r].end
Overflows(r) == OverflowChecks /\ Backwards(r)
Difference(r) == (Posted[r].end + Word - Posted[r].start) % Word

Refusable(r) ==
    \/ Difference(r) > 2 ^ Depth(r)
    \/ ForEvm(r) /\ ~ IsFinal(r)

Refuse(r) ==
    /\ phase[r] = "new"
    /\ ~ Overflows(r) /\ Refusable(r)
    /\ End(r, "refused")
    /\ UNCHANGED <<prover, stored, answer>>

PanicAtOnce(r) ==
    /\ phase[r] = "new"
    /\ Overflows(r) \/ (~ Refusable(r) /\ ~ WellFormed(TopParams(r)))
    /\ End(r, "panicked")
    /\ UNCHANGED <<prover, stored, answer>>

Call(task) == [task |-> task, snarks |-> <<>>]

Begin(r) ==
    /\ phase[r] = "new"
    /\ ~ Overflows(r) /\ ~ Refusable(r) /\ WellFormed(TopParams(r))
    /\ phase' = [phase EXCEPT ![r] = "working"]
    /\ stack' = [stack EXCEPT ![r] = <<Call(Top(r))>>]
    /\ UNCHANGED <<prover, stored, answer>>

-----------------------------------------------------------------------------
(* recursive_gen_proof: the innermost call of a request goes on.           *)

Innermost(r) == stack[r][Len(stack[r])]
Working(r) == phase[r] = "working" /\ prover # r
Proving(r) == phase[r] = "working" /\ prover = r

\* A piece of the range that the claims do not reach.
SliceFails(t) == ~ IsLeafTask(t) /\ NumProofs(t) > Len(t.claims)

\* get_snarks_for_deps has returned.
HasSnarksOfSome(call) ==
    /\ ~ SliceFails(call.task)
    /\ Len(call.snarks) > 0 \/ Dependencies(call.task) = <<>>
HasSnarks(call) ==
    /\ ~ SliceFails(call.task)
    /\ Len(call.snarks) = Len(Dependencies(call.task))

Descend(r) ==
    /\ Working(r)
    /\ LET call == Innermost(r)
       IN  /\ ~ SliceFails(call.task) /\ ~ HasSnarks(call)
           /\ stack' = [stack EXCEPT ![r] =
                 Append(@, Call(Dependencies(call.task)[Len(call.snarks) + 1]))]
    /\ UNCHANGED <<phase, prover, stored, answer>>

\* assert!(!snarks.is_empty()) on the way to the task's request.
LacksSnarks(call) ==
    HasSnarks(call) /\ ~ IsLeafTask(call.task) /\ call.snarks = <<>>

\* Only the outermost call asks for an EVM proof; a node at the initial depth
\* becomes a leaf's request, of which there is none.
LeafForEvm(r) ==
    /\ HasSnarks(Innermost(r)) /\ IsLeafTask(Innermost(r).task)
    /\ Innermost(r).task.params \in Cids
    /\ ForEvm(r) /\ Len(stack[r]) = 1

Panic(r) ==
    /\ Working(r)
    /\ SliceFails(Innermost(r).task) \/ LacksSnarks(Innermost(r)) \/ LeafForEvm(r)
    /\ End(r, "panicked")
    /\ UNCHANGED <<prover, stored, answer>>

\* The error of get_circuit_id, which every caller hands on.
NoCircuit(r) ==
    /\ Working(r)
    /\ HasSnarks(Innermost(r)) /\ ~ LacksSnarks(Innermost(r))
    /\ Innermost(r).task.params \notin Cids
    /\ End(r, "failed")
    /\ UNCHANGED <<prover, stored, answer>>

StartProof(r) ==
    /\ Working(r)
    /\ HasSnarks(Innermost(r)) /\ ~ LacksSnarks(Innermost(r)) /\ ~ LeafForEvm(r)
    /\ Innermost(r).task.params \in Cids
    /\ prover = NoRequest
    /\ prover' = r
    /\ UNCHANGED <<phase, stack, stored, answer>>

\* A leaf's circuit asserts that it gets as many claims as its range has.
ProvableWithMore(call) ==
    IsLeafTask(call.task) => NumProofs(call.task) <= 2 ^ call.task.params.depth
Provable(call) ==
    IsLeafTask(call.task) =>
        NumProofs(call.task) > 0 /\ Len(call.task.claims) = NumProofs(call.task)

\* Two snarks side by side, or one alone.
ProofOf(call) ==
    IF IsLeafTask(call.task)
    THEN [start |-> call.task.start, end |-> call.task.end, claims |-> call.task.claims]
    ELSE LET last == call.snarks[Len(call.snarks)]
         IN  [start |-> call.snarks[1].start, end |-> last.end,
              claims |-> IF Len(call.snarks) = 1 THEN last.claims
                         ELSE call.snarks[1].claims \o last.claims]

\* The proof goes to the caller: the call below, or the handler.
Prove(r) ==
    /\ Proving(r)
    /\ Provable(Innermost(r))
    /\ prover' = NoRequest
    /\ stored' = stored \cup {Innermost(r).task}
    /\ LET n == Len(stack[r])
           proof == ProofOf(Innermost(r))
       IN  IF n = 1 THEN /\ End(r, "proved")
                         /\ answer' = [answer EXCEPT ![r] = proof]
           ELSE /\ stack' = [stack EXCEPT ![r] =
                      [SubSeq(stack[r], 1, n - 1) EXCEPT ![n - 1].snarks = Append(@, proof)]]
                /\ UNCHANGED <<phase, answer>>

\* An error or a panic of the prover, which loads its files under the mutex too;
\* either frees it.
ProofFailsLocked(r) ==
    /\ Proving(r)
    /\ End(r, "failed")
    /\ UNCHANGED <<prover, stored, answer>>
ProofFails(r) ==
    /\ Proving(r)
    /\ prover' = NoRequest
    /\ End(r, "failed")
    /\ UNCHANGED <<stored, answer>>

\* Only an EVM proof goes to the client; a snark's is answered with nothing.
Answer(r) ==
    /\ phase[r] = "proved"
    /\ End(r, "answered")
    /\ answer' = [answer EXCEPT ![r] = IF ForEvm(r) THEN @ ELSE Nothing]
    /\ UNCHANGED <<prover, stored>>

Step(r) ==
    \/ Refuse(r) \/ PanicAtOnce(r) \/ Begin(r)
    \/ Descend(r) \/ Panic(r) \/ NoCircuit(r) \/ StartProof(r)
    \/ Prove(r) \/ ProofFails(r) \/ Answer(r)

Next == \E r \in Requests : Step(r)

Spec == Init /\ [][Next]_vars

\* Rocket polls the handlers that can go on, and the prover ends every proof.  A
\* handler takes finitely many steps, so it need not be fair to each.
FairSpec == Spec /\ WF_vars(Next)

-----------------------------------------------------------------------------
Divisible(r) == WellFormed(TopParams(r)) /\ ~ Backwards(r) /\ ~ SliceFails(Top(r))
Tasks == UNION {TreeOf(Top(r)) : r \in {q \in Requests : Divisible(q)}}
Needs == [t \in Tasks |-> DependencySet(t)]
TopOf == [r \in Requests |-> Top(r)]
Ended == {"refused", "panicked", "failed", "answered"}

\* The prover works for a handler that is under way, and every call but the
\* innermost waits for a snark of the call above it.
TypeOK ==
    /\ phase \in [Requests -> {"new", "working", "proved"} \cup Ended]
    /\ prover \in Requests \cup {NoRequest}
    /\ stored \subseteq Tasks
    /\ \A r \in Requests :
          /\ prover = r \/ stack[r] # <<>> => phase[r] = "working"
          /\ \A k \in 2 .. Len(stack[r]) :
                LET caller == stack[r][k - 1]
                IN  stack[r][k].task = Dependencies(caller.task)[Len(caller.snarks) + 1]

\* Wherever a range starts and however it is cut, the proof that a request ends up
\* with, and the answer if that is a proof, covers that range and its claims, in
\* order, and nothing past them.
AnswerCoversRange ==
    \A r \in Requests :
        phase[r] = "proved" \/ (phase[r] = "answered" /\ ForEvm(r)) =>
        /\ answer[r].start = Posted[r].start /\ answer[r].end = Posted[r].end
        /\ answer[r].claims = SubSeq(Posted[r].claims, 1, NumProofs(Top(r)))

\* No check of the handler compares the range with the claims.  All the same, of a
\* range that is empty, backwards, longer than the claims or larger than the tree
\* nothing is proved, and no leaf with another number of claims than positions.
BadRangeProvesNothing ==
    \A t \in stored :
        LET p == Posted[t.request]
            n == p.end - p.start
        IN  /\ 0 < n /\ n <= Len(p.claims) /\ n <= 2 ^ Depth(t.request)
            /\ IsLeafTask(t) => Len(t.claims) = NumProofs(t)

\* Depth first, with the requests taking turns at the prover, is one of the orders
\* the task graph allows.
Graph == INSTANCE TaskGraph WITH
    obtained <- stored,
    outcome <- [r \in Requests |->
        CASE phase[r] \in {"new", "working", "proved"} -> "open"
          [] phase[r] = "answered" -> "served"
          [] OTHER -> "abandoned"]
ImplementsTaskGraph == Graph!Spec

\* Every client gets an answer or an error: whatever becomes of one request, the
\* prover is free for the next.
RequestsEnd == <>(\A r \in Requests : phase[r] \in Ended)
=============================================================================

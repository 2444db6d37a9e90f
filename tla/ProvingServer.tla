--------------------------- MODULE ProvingServer ---------------------------
(***************************************************************************)
(* The proving server: concurrent calls of /tasks, /internal/circuit-data  *)
(* and /reset over three caches, one mutex that proofs are made under, and *)
(* proofs kept in out_dir.  A call may be posted twice by a client that    *)
(* lost the answer, and the process may die and be started again.          *)
(*                                                                         *)
(* A cache is read, its file loaded and its entry written under locks that *)
(* are not held from one to the next, so each is a step.                   *)
(***************************************************************************)
EXTENDS Naturals, FiniteSets

CONSTANTS
    Calls,          \* HTTP calls; two may ask for the same
    CallOf,         \* CallOf[c]: its kind, circuit and input
    Circuits, Inputs,
    K,              \* K[id]: the k in the pinning of a circuit
    Pinnings, Keys, \* circuit ids whose .json and .pk are in circuit_data_dir
    Srs,            \* ks whose trusted setup is in srs_dir
    Accepted,       \* <<id, input>> from which the circuit can be built
    OutDir,         \* whether --out-dir is given
    Nobody,
    Absent, Partial,    \* no file, and one whose writing has not come to its end
    MaxCrashes      \* bound: crashes of the process

Kinds == {"evm", "snark", "load", "reset"}

ASSUME ServerAssumption ==
    /\ CallOf \in [Calls -> [kind : Kinds, circuit : Circuits, input : Inputs]]
    /\ K \in [Circuits -> Nat]
    /\ Pinnings \subseteq Circuits /\ Keys \subseteq Circuits /\ Srs \subseteq Nat
    /\ Accepted \subseteq Circuits \X Inputs
    /\ OutDir \in BOOLEAN
    /\ Nobody \notin Calls /\ Absent # Partial
    /\ MaxCrashes \in Nat

VARIABLES
    pc,         \* pc[c]: what call c does next
    mutex,      \* proof_mutex
    pinning, srs, pk,   \* the caches: from a key to what was loaded for it
    got,        \* got[c]: pinning, setup and key that the call has so far
    file,       \* file[p]: a proof in out_dir, or what there is of it
    answer,     \* answer[c]: the proof the call returned
    proved,     \* proved[p]: how often that proof was computed
    crashes,
    cut         \* paths whose writing did not come to its end

vars == <<pc, mutex, pinning, srs, pk, got, file, answer, proved, crashes, cut>>
caches == <<pinning, srs, pk>>
disk == <<file, proved, cut>>

Kind(c) == CallOf[c].kind
Id(c) == CallOf[c].circuit

\* proof_id is a hash of the request, taken to be injective.
Paths == {CallOf[c] : c \in Calls}
PathWithoutCircuit(c) ==
    CHOOSE p \in Paths : p.kind = CallOf[c].kind /\ p.input = CallOf[c].input
Path(c) == CallOf[c]

Proof(g, p) == [pinning |-> g.pinning, srs |-> g.srs, pk |-> g.pk, of |-> p]
Whole(p) ==
    [pinning |-> p.circuit, srs |-> K[p.circuit], pk |-> p.circuit, of |-> p]
\* A proof is not mistaken for a missing or a truncated one.
ASSUME ProofAssumption == \A p \in Paths : Whole(p) \notin {Absent, Partial}

Nothing == [pinning |-> Nobody, srs |-> Nobody, pk |-> Nobody]

Empty == [x \in {} |-> x]
Put(f, x, v) == [y \in DOMAIN f \cup {x} |-> IF y = x THEN v ELSE f[y]]

Init ==
    /\ pc = [c \in Calls |-> "new"]
    /\ mutex = Nobody
    /\ pinning = Empty /\ srs = Empty /\ pk = Empty
    /\ got = [c \in Calls |-> Nothing]
    /\ file = [p \in Paths |-> Absent]
    /\ answer = [c \in Calls |-> Absent]
    /\ proved = [p \in Paths |-> 0]
    /\ crashes = 0
    /\ cut = {}

-----------------------------------------------------------------------------
(* A call's way in and out.                                                *)

Goto(c, where) == pc' = [pc EXCEPT ![c] = where]

\* Returning, with a value or an error, drops the mutex guard and what was loaded.
ReturnUnlessFailed(c, how) ==
    /\ Goto(c, how)
    /\ mutex' = IF mutex = c /\ how # "failed" THEN Nobody ELSE mutex
    /\ got' = [got EXCEPT ![c] = Nothing]
Return(c, how) ==
    /\ Goto(c, how)
    /\ mutex' = IF mutex = c THEN Nobody ELSE mutex
    /\ got' = [got EXCEPT ![c] = Nothing]
Answer(c, proof) ==
    /\ Return(c, "answered")
    /\ answer' = [answer EXCEPT ![c] = proof]

Post(c) ==
    /\ pc[c] = "new"
    /\ Goto(c, CASE Kind(c) \in {"evm", "snark"} -> "locking"
                 [] Kind(c) = "load" -> "pinning"
                 [] Kind(c) = "reset" -> "clear srs")
    /\ UNCHANGED <<mutex, caches, got, disk, answer, crashes>>

\* An unused binding `_` instead of `_mutex_guard` drops the guard at once.
LockAndDrop(c) ==
    /\ pc[c] = "locking"
    /\ mutex = Nobody
    /\ Goto(c, IF Kind(c) = "evm" THEN "checking" ELSE "pinning")
    /\ UNCHANGED <<mutex, caches, got, disk, answer, crashes>>
Lock(c) ==
    /\ pc[c] = "locking"
    /\ mutex = Nobody
    /\ mutex' = c
    /\ Goto(c, IF Kind(c) = "evm" THEN "checking" ELSE "pinning")
    /\ UNCHANGED <<caches, got, disk, answer, crashes>>

\* Whatever the file holds is the answer.
CheckFile(c) ==
    /\ pc[c] = "checking"
    /\ IF OutDir /\ file[Path(c)] # Absent THEN Answer(c, file[Path(c)])
       ELSE Goto(c, "pinning") /\ UNCHANGED <<mutex, got, answer>>
    /\ UNCHANGED <<caches, disk, crashes>>

-----------------------------------------------------------------------------
(* build_circuit: the pinning, the setup of its k, the circuit, the key.   *)

Have(c, g, where) ==
    /\ got' = [got EXCEPT ![c] = g]
    /\ Goto(c, where)

LookUpPinning(c) ==
    /\ pc[c] = "pinning"
    /\ \/ /\ Id(c) \in DOMAIN pinning
          /\ Have(c, [got[c] EXCEPT !.pinning = pinning[Id(c)]], "srs")
       \/ /\ Id(c) \in Pinnings \ DOMAIN pinning
          /\ Have(c, [got[c] EXCEPT !.pinning = Id(c)], "insert pinning")
    /\ UNCHANGED <<mutex, caches, disk, answer, crashes>>

InsertPinning(c) ==
    /\ pc[c] = "insert pinning"
    /\ pinning' = Put(pinning, Id(c), got[c].pinning)
    /\ Goto(c, "srs")
    /\ UNCHANGED <<mutex, srs, pk, got, disk, answer, crashes>>

LookUpSrs(c) ==
    LET k == K[got[c].pinning]
    IN  /\ pc[c] = "srs"
        /\ \/ /\ k \in DOMAIN srs
              /\ Have(c, [got[c] EXCEPT !.srs = srs[k]], "pk")
           \/ /\ k \in Srs \ DOMAIN srs
              /\ Have(c, [got[c] EXCEPT !.srs = k], "insert srs")
        /\ UNCHANGED <<mutex, caches, disk, answer, crashes>>

InsertSrs(c) ==
    /\ pc[c] = "insert srs"
    /\ srs' = Put(srs, got[c].srs, got[c].srs)
    /\ Goto(c, "pk")
    /\ UNCHANGED <<mutex, pinning, pk, got, disk, answer, crashes>>

Built(c) == IF Kind(c) = "load" THEN "loaded" ELSE "proving"

\* The circuit is built from the input before the key is looked up.
LookUpKey(c) ==
    /\ pc[c] = "pk"
    /\ <<got[c].pinning, CallOf[c].input>> \in Accepted
    /\ \/ /\ Id(c) \in DOMAIN pk
          /\ Have(c, [got[c] EXCEPT !.pk = pk[Id(c)]], Built(c))
       \/ /\ Id(c) \in Keys \ DOMAIN pk
          /\ Have(c, [got[c] EXCEPT !.pk = Id(c)], "insert pk")
    /\ UNCHANGED <<mutex, caches, disk, answer, crashes>>

InsertKeyBySetup(c) ==
    /\ pc[c] = "insert pk"
    /\ pk' = Put(pk, got[c].srs, got[c].pk)
    /\ Goto(c, Built(c))
    /\ UNCHANGED <<mutex, pinning, srs, got, disk, answer, crashes>>
InsertKey(c) ==
    /\ pc[c] = "insert pk"
    /\ pk' = Put(pk, Id(c), got[c].pk)
    /\ Goto(c, Built(c))
    /\ UNCHANGED <<mutex, pinning, srs, got, disk, answer, crashes>>

\* A missing file or an input the circuit does not take.  /tasks panics on it,
\* /internal/circuit-data reports it.
LoadFails(c) ==
    /\ \/ pc[c] = "pinning" /\ Id(c) \notin Pinnings \cup DOMAIN pinning
       \/ pc[c] = "srs" /\ K[got[c].pinning] \notin Srs \cup DOMAIN srs
       \/ /\ pc[c] = "pk"
          /\ \/ <<got[c].pinning, CallOf[c].input>> \notin Accepted
             \/ Id(c) \notin Keys \cup DOMAIN pk
    /\ Return(c, "failed")
    /\ UNCHANGED <<caches, disk, answer, crashes>>

CircuitLoaded(c) ==
    /\ pc[c] = "loaded"
    /\ Return(c, "answered")
    /\ UNCHANGED <<caches, disk, answer, crashes>>

-----------------------------------------------------------------------------
(* Proving.                                                                *)

Compute(c) == proved' = [proved EXCEPT ![Path(c)] = @ + 1]

\* Writing opens the file, empty, before it fills it.
ComputeProof(c) ==
    /\ Compute(c)
    /\ IF OutDir
       THEN /\ file' = [file EXCEPT ![Path(c)] = Partial]
            /\ Goto(c, "writing")
            /\ UNCHANGED <<mutex, got, answer>>
       ELSE /\ Answer(c, Proof(got[c], Path(c)))
            /\ UNCHANGED file
    /\ UNCHANGED <<caches, crashes, cut>>

ProveEvm(c) ==
    /\ pc[c] = "proving" /\ Kind(c) = "evm"
    /\ ComputeProof(c)

\* External: gen_snark_shplonk answers from the file at snark_path if that holds
\* a whole snark, and otherwise proves and writes it there.
ProveSnark(c) ==
    /\ pc[c] = "proving" /\ Kind(c) = "snark"
    /\ IF file[Path(c)] \notin {Absent, Partial}
       THEN /\ Answer(c, file[Path(c)])
            /\ UNCHANGED <<caches, disk, crashes>>
       ELSE ComputeProof(c)

\* The prover panics, or in a debug build its proof does not verify.  (A snark that
\* does not verify is in its file by then: that case is left out.)
ProveFails(c) ==
    /\ pc[c] = "proving"
    /\ Return(c, "failed")
    /\ UNCHANGED <<caches, disk, answer, crashes>>

WriteProof(c) ==
    /\ pc[c] = "writing"
    /\ file' = [file EXCEPT ![Path(c)] = Proof(got[c], Path(c))]
    /\ Answer(c, Proof(got[c], Path(c)))
    /\ UNCHANGED <<caches, proved, cut, crashes>>

\* The disk is full, say: what was written stays.
WriteFails(c) ==
    /\ pc[c] = "writing"
    /\ cut' = cut \cup {Path(c)}
    /\ Return(c, "failed")
    /\ UNCHANGED <<caches, file, proved, answer, crashes>>

-----------------------------------------------------------------------------
(* reset, one cache after the other, and a crash.                          *)

Clear(c) ==
    /\ \/ /\ pc[c] = "clear srs"
          /\ srs' = Empty
          /\ Goto(c, "clear pinning")
          /\ UNCHANGED <<mutex, pinning, pk, got>>
       \/ /\ pc[c] = "clear pinning"
          /\ pinning' = Empty
          /\ Goto(c, "clear pk")
          /\ UNCHANGED <<mutex, srs, pk, got>>
       \/ /\ pc[c] = "clear pk"
          /\ pk' = Empty
          /\ Return(c, "answered")
          /\ UNCHANGED <<srs, pinning>>
    /\ UNCHANGED <<disk, answer, crashes>>

Ended == {"answered", "failed", "lost"}
UnderWay(c) == pc[c] \notin Ended \cup {"new"}

\* Every call under way is lost with the memory; the files stay.
Crash ==
    /\ crashes < MaxCrashes
    /\ crashes' = crashes + 1
    /\ pc' = [c \in Calls |-> IF UnderWay(c) THEN "lost" ELSE pc[c]]
    /\ cut' = cut \cup {Path(c) : c \in {d \in Calls : pc[d] = "writing"}}
    /\ mutex' = Nobody
    /\ pinning' = Empty /\ srs' = Empty /\ pk' = Empty
    /\ got' = [c \in Calls |-> Nothing]
    /\ UNCHANGED <<file, proved, answer>>

Load(c) ==
    \/ LookUpPinning(c) \/ InsertPinning(c) \/ LookUpSrs(c) \/ InsertSrs(c)
    \/ LookUpKey(c) \/ InsertKey(c) \/ LoadFails(c)

Step(c) ==
    \/ Lock(c) \/ CheckFile(c) \/ Load(c) \/ CircuitLoaded(c)
    \/ ProveEvm(c) \/ ProveSnark(c) \/ WriteProof(c) \/ Clear(c)

\* Failures that a call does not wait for: NoCallStuck does not count them.
Fail(c) == ProveFails(c) \/ WriteFails(c)

Next == Crash \/ \E c \in Calls : Post(c) \/ Step(c) \/ Fail(c)

Spec == Init /\ [][Next]_vars

-----------------------------------------------------------------------------
Loading == {"pinning", "insert pinning", "srs", "insert srs", "pk", "insert pk"}

\* A cache has under a key what the file of that key held: a circuit's pinning and
\* proving key under its id, a setup under its k.
CachesTrue ==
    /\ DOMAIN pinning \subseteq Circuits /\ \A id \in DOMAIN pinning : pinning[id] = id
    /\ DOMAIN srs \subseteq Nat /\ \A k \in DOMAIN srs : srs[k] = k
    /\ DOMAIN pk \subseteq Circuits /\ \A id \in DOMAIN pk : pk[id] = id

TypeOK ==
    /\ pc \in [Calls -> Loading \cup Ended \cup
                 {"new", "locking", "checking", "loaded", "proving", "writing",
                  "clear srs", "clear pinning", "clear pk"}]
    /\ mutex \in Calls \cup {Nobody}
    /\ CachesTrue
    /\ DOMAIN file = Paths /\ DOMAIN answer = Calls
    /\ proved \in [Paths -> Nat]
    /\ crashes \in 0 .. MaxCrashes
    /\ cut \subseteq Paths

Proves(c) == Kind(c) \in {"evm", "snark"}
UnderMutex(c) ==
    Proves(c) /\ pc[c] \in Loading \cup {"checking", "proving", "writing"}

\* The mutex is held exactly while its holder makes a proof, by one call at a
\* time: neither an early return from the file, nor a panic on a missing key or a
\* full disk, nor a reset leaves it behind.
MutexHeldByProver == \A c \in Calls : UnderMutex(c) <=> mutex = c

\* A call is answered with the proof of its own circuit and input, made with the
\* pinning, setup and key that belong together, whatever is reset, loaded or
\* written meanwhile; only the rest of a write that was cut can stand in for it,
\* and never a file that is still being written.
AnswersAreOwn ==
    \A c \in Calls : Proves(c) /\ pc[c] = "answered" =>
        \/ answer[c] = Whole(CallOf[c])
        \/ answer[c] = Partial /\ Path(c) \in cut

\* With an out_dir, a proof that was asked for twice, by a client that lost the
\* first answer say, is computed once, unless its writing was cut.
ProvedOnce == OutDir => \A p \in Paths \ cut : proved[p] <= 1

\* A call that is under way can go on, or it waits for the mutex and the call that
\* holds it can: nobody waits for a call that has ended, failed or been lost.  No
\* call takes a step twice, so all of them end.
NoCallStuck ==
    \A c \in Calls : UnderWay(c) =>
        \/ ENABLED Step(c)
        \/ pc[c] = "locking" /\ mutex # Nobody /\ ENABLED Step(mutex)

-----------------------------------------------------------------------------
(* What the documentation says and the code does not do.                   *)

\* "Once proving is complete, the prover returns the proof in the response."
ResponsesAreProofs ==
    \A c \in Calls : Proves(c) /\ pc[c] = "answered" => answer[c] = Whole(CallOf[c])
=============================================================================

------------------------------- MODULE Keygen -------------------------------
(***************************************************************************)
(* Key generation: one run of the keygen binary walks from the root of an  *)
(* aggregation tree to its leaf and makes the keys on the way back, child  *)
(* first, into a directory that later runs share.  A run may end at any    *)
(* point: an assertion, a trusted setup or an input file that is missing,  *)
(* a full disk, or the machine.                                            *)
(*                                                                         *)
(* A circuit id is the hash of a verifying key.  The hash is injective and *)
(* tuning is deterministic, so the id is the term of what the circuit is   *)
(* built from.                                                             *)
(*                                                                         *)
(* The names that LocalServer has too begin with "Keygen" here, so that    *)
(* theorems about both can extend the two modules.                         *)
(***************************************************************************)
EXTENDS NodeParams, Sequences, FiniteSets, SequencesExt

CONSTANTS
    Intents,    \* RecursiveIntents read from --intent
    Tags,       \* names given with --tag
    NoTag,      \* the option left out: the root's circuit id is the name
    MaxRuns     \* bound: runs of the binary

\* What parses; WellFormed says what NodeParams::new would have let through.
AnyParams == [node_type : NodeTypes, round : Nat, depth : Nat, initial_depth : Nat]

ASSUME KeygenAssumption ==
    /\ Intents \subseteq [k_at_depth : Seq(Nat), params : AnyParams]
    /\ NoTag \notin Tags
    /\ MaxRuns \in Nat

VARIABLES
    pc,         \* what the run is about to do
    intent,     \* the intent it was given
    tag,        \* its --tag
    calls,      \* intents of the calls under way, the outermost first
    child,      \* circuit that the last call returned
    cid_repo,   \* the run's BTreeMap from node parameters to circuit ids
    keys,       \* keys[id]: whether proving key and pinning are whole in data_dir,
                \* and the run that wrote them last
    verifiers,  \* circuit ids whose .sol file is in data_dir
    cids,       \* cids[name]: the file name.cids, and the run that wrote it
    runs        \* runs started

keygenVars == <<pc, intent, tag, calls, child, cid_repo, keys, verifiers, cids, runs>>
input == <<intent, tag, runs>>

NoIntent == [k_at_depth |-> <<>>, params |-> Params("Leaf", 0, 0, 0)]
NotMade == [circuit |-> "none"]   \* no call has returned yet
Empty == [x \in {} |-> x]
Put(f, x, y) == [z \in DOMAIN f \cup {x} |-> IF z = x THEN y ELSE f[z]]

KeygenInit ==
    /\ pc = "idle" /\ intent = NoIntent /\ tag = NoTag
    /\ calls = <<>> /\ child = NotMade
    /\ cid_repo = Empty /\ keys = Empty /\ verifiers = {} /\ cids = Empty
    /\ runs = 0

-----------------------------------------------------------------------------
(* Circuits.                                                               *)

\* RecursiveIntent::child.
ChildIntentLastTwice(i) ==
    [k_at_depth |-> IF Len(i.k_at_depth) = 1 THEN i.k_at_depth ELSE Tail(i.k_at_depth),
     params |-> Child(i.params)]
ChildIntent(i) ==
    [k_at_depth |-> Tail(i.k_at_depth), params |-> Child(i.params)]

\* A leaf is sized by its initial depth, whatever depth it was asked for.
LeafCircuit(k, initial_depth) == [k |-> k, size |-> 2 ^ initial_depth]

\* Intermediate and root circuits verify two snarks of one child circuit.
JoinCircuit(k, params, of) == [k |-> k, params |-> params, child |-> of]

\* An Evm circuit passes one snark through.
EvmCircuit(k, of) == [k |-> k, child |-> of]

CircuitOf(i, of) ==
    LET k == i.k_at_depth[1]
    IN  CASE i.params.node_type = "Leaf" -> LeafCircuit(k, i.params.initial_depth)
          [] i.params.node_type = "Evm" -> EvmCircuit(k, of)
          [] OTHER -> JoinCircuit(k, i.params, of)

-----------------------------------------------------------------------------
(* main, and the recursion of create_and_serialize_proving_key.            *)

Start(i, t) ==
    /\ pc = "idle" /\ runs < MaxRuns
    /\ i.k_at_depth # <<>>
    /\ pc' = "creating"
    /\ intent' = i /\ tag' = t /\ runs' = runs + 1
    /\ calls' = <<i>> /\ child' = NotMade /\ cid_repo' = Empty
    /\ UNCHANGED <<keys, verifiers, cids>>

\* The child is made first.
DescendToChild ==
    LET i == Last(calls)
    IN  /\ pc = "creating" /\ child = NotMade
        /\ i.k_at_depth # <<>>
        /\ HasChild(i.params) /\ ChildDefined(i.params)
        /\ calls' = Append(calls, ChildIntent(i))
        /\ UNCHANGED <<pc, input, child, cid_repo, keys, verifiers, cids>>

ChildIsMade(i) == HasChild(i.params) => child # NotMade

\* The call's node goes into cid_repo and the call returns, unless another circuit
\* had that place: then the run ends.
Return(i, id) ==
    /\ cid_repo' = Put(cid_repo, i.params, id)
    /\ IF i.params \in DOMAIN cid_repo /\ cid_repo[i.params] # id
       THEN pc' = "idle" /\ UNCHANGED <<calls, child>>
       ELSE /\ calls' = Front(calls)
            /\ child' = id
            /\ pc' = IF Len(calls) > 1 THEN "creating" ELSE "created"

\* Files of an earlier run with the same circuit are written over.
BeginKeyUnlessThere ==
    LET i == Last(calls)
        id == CircuitOf(i, child)
    IN  /\ pc = "creating"
        /\ i.k_at_depth # <<>>
        /\ ChildIsMade(i)
        /\ IF id \in DOMAIN keys THEN Return(i, id) /\ UNCHANGED keys
           ELSE /\ pc' = "writing"
                /\ keys' = Put(keys, id, [whole |-> FALSE, run |-> runs])
                /\ UNCHANGED <<calls, child, cid_repo>>
        /\ UNCHANGED <<input, verifiers, cids>>
BeginKey ==
    LET i == Last(calls)
    IN  /\ pc = "creating"
        /\ i.k_at_depth # <<>>
        /\ ChildIsMade(i)
        /\ pc' = "writing"
        /\ keys' = Put(keys, CircuitOf(i, child), [whole |-> FALSE, run |-> runs])
        /\ UNCHANGED <<input, calls, child, cid_repo, verifiers, cids>>

\* The key is on disk.
EndKey ==
    LET i == Last(calls)
        id == CircuitOf(i, child)
    IN  /\ pc = "writing"
        /\ keys' = Put(keys, id, [whole |-> TRUE, run |-> runs])
        /\ Return(i, id)
        /\ UNCHANGED <<input, verifiers, cids>>

WriteVerifier ==
    /\ pc = "created"
    /\ intent.params.node_type = "Evm"
    /\ verifiers' = verifiers \cup {child}
    /\ pc' = "verifier"
    /\ UNCHANGED <<input, calls, child, cid_repo, keys, cids>>

\* The order derived for NodeParams, in which a BTreeMap is listed.
TypeRankFromTheTop(params) ==
    CASE params.node_type = "Evm" -> 0
      [] params.node_type = "Root" -> 1
      [] params.node_type = "Intermediate" -> 2
      [] OTHER -> 3
TypeRank(params) ==
    CASE params.node_type = "Leaf" -> 0
      [] params.node_type = "Intermediate" -> 1
      [] params.node_type = "Root" -> 2
      [] OTHER -> 3 + params.round

Before(p, q) ==
    \/ TypeRank(p) < TypeRank(q)
    \/ TypeRank(p) = TypeRank(q) /\ p.depth < q.depth
    \/ TypeRank(p) = TypeRank(q) /\ p.depth = q.depth /\ p.initial_depth < q.initial_depth

Ascending(nodes) ==
    CHOOSE s \in [1 .. Cardinality(nodes) -> nodes] :
        \A m, n \in DOMAIN s : m < n => Before(s[m], s[n])

Entries ==
    LET nodes == Ascending(DOMAIN cid_repo)
    IN  [n \in DOMAIN nodes |-> <<nodes[n], cid_repo[nodes[n]]>>]

CidsName == IF tag = NoTag THEN child ELSE tag
File(entries, whole) ==
    [entries |-> entries, whole |-> whole, intent |-> intent, run |-> runs]

\* The file exists, empty, before it has its contents.
CreateCids ==
    /\ pc = (IF intent.params.node_type = "Evm" THEN "verifier" ELSE "created")
    /\ cids' = Put(cids, CidsName, File(<<>>, FALSE))
    /\ pc' = "listing"
    /\ UNCHANGED <<input, calls, child, cid_repo, keys, verifiers>>

WriteCids ==
    /\ pc = "listing"
    /\ cids' = Put(cids, CidsName, File(Entries, TRUE))
    /\ pc' = "idle"
    /\ UNCHANGED <<input, calls, child, cid_repo, keys, verifiers>>

\* Every assertion, `?` and expect on the way, and the end of the process.
Die ==
    /\ pc # "idle"
    /\ pc' = "idle"
    /\ UNCHANGED <<input, calls, child, cid_repo, keys, verifiers, cids>>

KeygenNext ==
    \/ \E i \in Intents, t \in Tags \cup {NoTag} : Start(i, t)
    \/ DescendToChild \/ BeginKey \/ EndKey
    \/ WriteVerifier \/ CreateCids \/ WriteCids \/ Die

KeygenSpec == KeygenInit /\ [][KeygenNext]_keygenVars

-----------------------------------------------------------------------------
(* The tree an intent describes, from its root at level 0 to its leaf.     *)

NumLevels(params) ==
    IF HasChild(params)
    THEN params.depth - params.initial_depth + 1
             + (IF params.node_type = "Evm" THEN params.round + 1 ELSE 0)
    ELSE 1

Node(params, n) ==
    LET node[m \in 0 .. n] == IF m = 0 THEN params ELSE Child(node[m - 1])
    IN  node[n]

\* The circuit at level n, made from the circuit below it and its own k.
Circuit(i, n) ==
    LET bottom == NumLevels(i.params) - 1
        circuit[m \in n .. bottom] ==
            CircuitOf([k_at_depth |-> <<i.k_at_depth[m + 1]>>, params |-> Node(i.params, m)],
                      IF m = bottom THEN NotMade ELSE circuit[m + 1])
    IN  circuit[n]

\* The calls under way are the levels from the root down, and each has the ks
\* from its own level on: create_and_serialize_proving_key takes its own from
\* the front of what its caller passed.
KeygenTypeOK ==
    /\ pc \in {"idle", "creating", "writing", "created", "verifier", "listing"}
    /\ intent \in Intents \cup {NoIntent} /\ tag \in Tags \cup {NoTag}
    /\ \A n \in DOMAIN calls :
          /\ calls[n].params = Node(intent.params, n - 1)
          /\ Len(calls[n].k_at_depth) = Len(intent.k_at_depth) - (n - 1)
    /\ \A id \in DOMAIN keys : keys[id] \in [whole : BOOLEAN, run : 1 .. runs]
    /\ verifiers \subseteq DOMAIN keys
    /\ runs \in 0 .. MaxRuns

\* A .cids file that was written to its end lists every node of the intent's
\* tree, the root last (the scheduler takes the last one for its final circuit),
\* each with a circuit of its own that was made from the circuit listed for its
\* child: the tree of tasks finds all its circuits, and their snarks fit.
TreeComplete ==
    \A name \in DOMAIN cids : cids[name].whole =>
        LET entries == cids[name].entries
            i == cids[name].intent
            n == NumLevels(i.params)
        IN  /\ ToSet(entries) = {<<Node(i.params, m), Circuit(i, m)>> : m \in 0 .. n - 1}
            /\ Len(entries) = n
            /\ entries[n] = <<i.params, Circuit(i, 0)>>
            /\ Cardinality({entries[m][2] : m \in 1 .. n}) = n

\* Each circuit of a written .cids file has its key on disk, and its Evm tree its
\* verifier.  A run that dies in the middle of a key leaves that one key cut, no
\* other; so a listed key is whole unless a later run died, or still is, writing
\* that very key again, and a list written since has it whole once more.
CidsServable ==
    /\ \A name \in DOMAIN cids :
          LET file == cids[name]
          IN  /\ \A n \in DOMAIN file.entries :
                    LET id == file.entries[n][2]
                    IN  id \in DOMAIN keys /\ (keys[id].whole \/ keys[id].run > file.run)
              /\ file.whole /\ file.intent.params.node_type = "Evm" =>
                    Last(file.entries)[2] \in verifiers
    /\ \A m, n \in DOMAIN keys :
          ~ keys[m].whole /\ ~ keys[n].whole /\ keys[m].run = keys[n].run => m = n

\* "The length of k_at_depth must equal" the number of levels: an intent with
\* fewer is found out on the way down, before any file of it is written.
ShortIntentWritesNothing ==
    [][calls # <<>> /\ Len(intent.k_at_depth) < NumLevels(intent.params)
          => UNCHANGED <<keys, verifiers, cids>>]_keygenVars
=============================================================================

----------------------------- MODULE NodeParams -----------------------------
(***************************************************************************)
(* The nodes of an aggregation tree: what key generation makes a circuit   *)
(* for and what the schedulers cut a request into.                         *)
(***************************************************************************)
EXTENDS Naturals

NodeTypes == {"Leaf", "Intermediate", "Root", "Evm"}

\* round counts the SNARK verifications left above an Evm node's root.
Params(node_type, round, depth, initial_depth) ==
    [node_type |-> node_type, round |-> round,
     depth |-> depth, initial_depth |-> initial_depth]

\* NodeParams::new asserts it; deserialised parameters may lack it.
WellFormed(params) == params.depth >= params.initial_depth

HasChild(params) == params.node_type # "Leaf"

\* What child asserts, of the node itself or through new.
ChildDefined(params) ==
    IF params.node_type = "Evm" THEN WellFormed(params)
    ELSE params.depth > params.initial_depth

Child(params) ==
    LET new(node_type, round, depth) ==
            Params(node_type, round, depth, params.initial_depth)
        initial == params.initial_depth
    IN  IF params.node_type = "Evm"
        THEN IF params.round > 0 THEN new("Evm", params.round - 1, params.depth)
             ELSE new(IF params.depth = initial THEN "Leaf" ELSE "Root", 0, params.depth)
        ELSE IF params.depth = initial + 1 THEN new("Leaf", 0, initial)
             ELSE new("Intermediate", 0, params.depth - 1)
=============================================================================

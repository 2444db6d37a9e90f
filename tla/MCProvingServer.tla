-------------------------- MODULE MCProvingServer --------------------------
(***************************************************************************)
(* Calls for the proving server, told apart by what they ask for.          *)
(***************************************************************************)
EXTENDS ProvingServer

CONSTANTS
    c1, c2, c3,     \* circuits, the last one without its files
    x,              \* an input
    evm, evmAgain, evmOther, snark, load, reset

call(kind, circuit, input) == [kind |-> kind, circuit |-> circuit, input |-> input]

MCCallOf ==
    [c \in Calls |->
        CASE c \in {evm, evmAgain} -> call("evm", c1, x)
          [] c = evmOther -> call("evm", c3, x)
          [] c = snark -> call("snark", c2, x)
          [] c = load -> call("load", c1, x)
          [] OTHER -> call("reset", c1, x)]

MCK == [c \in Circuits |-> IF c = c1 THEN 20 ELSE 21]
MCAccepted == Circuits \X {x}
=============================================================================

----------------------------- MODULE MCExecutor -----------------------------
(***************************************************************************)
(* Group loops for Executor, after the scripts in examples/.                *)
(***************************************************************************)
EXTENDS Executor

Call(p, i)    == [call |-> p, star |-> FALSE, next |-> i + 1]
Starred(p, i) == [call |-> p, star |-> TRUE,  next |-> i + 1]
If(p, n)      == [call |-> p, star |-> FALSE, next |-> n]

\* examples/simple: sim, ana
Simple == [control |-> "sim", commands |-> <<Call("sim", 1), Call("ana", 2)>>]

\* examples/fair: sim is timed, ana runs when it is due
Fair == [control  |-> "sim",
         commands |-> <<Call("sim", 1), If("cmp", 5), Call("reset", 3), Call("ana", 4)>>]

\* a body in a body, the control puppet among them, and statements after both
Nested == [control  |-> "sim",
           commands |-> <<If("sim", 5), If("cmp", 4), Call("ana", 3), Call("snd", 4),
                          Call("log", 5)>>]

\* a puppet that is continued at the end of each turn, before and after sim
StarredPuppet ==
    [control  |-> "sim",
     commands |-> <<Starred("io", 1), Call("sim", 2), Call("ana", 3), Starred("out", 4)>>]

\* the control puppet itself is starred
StarredControl ==
    [control |-> "sim", commands |-> <<Starred("sim", 1), Call("ana", 2)>>]

AllScripts == {Simple, Fair, Nested, StarredPuppet, StarredControl}
=============================================================================

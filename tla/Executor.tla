------------------------------ MODULE Executor ------------------------------
(***************************************************************************)
(* henson-hwl.cpp: the loop of an execution group, as one rank runs it, with *)
(* the puppets it drives (puppet.hpp, coroutine.hpp, context.cpp).           *)
(*                                                                          *)
(* A puppet is a program whose main runs as a coroutine: proceed() continues *)
(* it until it yields or main returns; after that, proceed() calls main      *)
(* again.  What a puppet does in between is up to it.                        *)
(***************************************************************************)
EXTENDS Integers, Sequences

CONSTANTS
    Scripts,    \* group loops: their statements in the order of the text, and
                \* the puppet of the while-clause
    MaxYields   \* bound: how often the control puppet yields before it returns

\* a statement: the puppet it calls, whether its name is starred, and the position
\* after its body (the next one, if it has none)
StatementOK(s, i) ==
    /\ s[i] = [call |-> s[i].call, star |-> s[i].star, next |-> s[i].next]
    /\ s[i].star \in BOOLEAN
    /\ s[i].next \in i + 1 .. Len(s) + 1
    /\ s[i].star => s[i].next = i + 1
    /\ \A k \in i + 1 .. s[i].next - 1 : s[k].next <= s[i].next

ASSUME ScriptsAssumption ==
    \A g \in Scripts : /\ g.commands \in Seq({g.commands[i] : i \in DOMAIN g.commands})
                       /\ \A i \in 1 .. Len(g.commands) : StatementOK(g.commands, i)
                       /\ \E i \in 1 .. Len(g.commands) : g.commands[i].call = g.control
ASSUME YieldsAssumption == MaxYields \in Nat

VARIABLES
    script,     \* the group's entry of hwl::Script
    phase,      \* where main is: the loop over the commands, the loop over
                \* revisit, or the destructors of the puppets
    pos,        \* the statement to execute next
    revisit,    \* revisit
    stop,       \* stop_execution
    running,    \* running_ of each puppet
    told,       \* stop_ of each puppet: what its henson_stop() returns
    result,     \* result_ of each puppet
    yields,     \* how often the control puppet has yielded since main was called
    left,       \* puppets not yet destroyed
    calls,      \* history: the calls of this turn's statements
    revisits    \* history: the calls of this turn's loop over revisit

puppetVars == <<running, told, result, yields>>
vars == <<script, phase, pos, revisit, stop, puppetVars, left, calls, revisits>>

Commands == script.commands
Puppets  == {Commands[i].call : i \in 1 .. Len(Commands)}

TypeOK ==
    /\ script \in Scripts
    /\ phase \in {"run", "revisit", "destroy", "over"}
    /\ pos \in 1 .. Len(Commands) + 1
    /\ revisit \in Seq(Puppets)
    /\ stop \in BOOLEAN
    /\ running \in [Puppets -> BOOLEAN] /\ told \in [Puppets -> BOOLEAN]
    /\ result \in [Puppets -> {-1, 0, 1}]
    /\ yields \in 0 .. MaxYields
    /\ left \subseteq Puppets
    /\ calls \in Seq([pos : 1 .. Len(Commands), told : BOOLEAN, exited : BOOLEAN,
                      code : {-1, 0, 1}])
    /\ revisits \in Seq([call : Puppets, told : BOOLEAN, exited : BOOLEAN])

Init ==
    /\ script \in Scripts
    /\ phase = "run" /\ pos = 1 /\ revisit = <<>> /\ stop = FALSE
    /\ running = [p \in Puppets |-> FALSE] /\ told = [p \in Puppets |-> FALSE]
    /\ result = [p \in Puppets |-> -1] /\ yields = 0
    /\ left = Puppets /\ calls = <<>> /\ revisits = <<>>

-----------------------------------------------------------------------------
(* Coroutines                                                               *)

\* henson_yield()
Yield(p) ==
    /\ p = script.control => yields < MaxYields
    /\ running' = [running EXCEPT ![p] = TRUE]
    /\ yields' = IF p = script.control THEN yields + 1 ELSE yields
    /\ UNCHANGED result

\* main returns 0 or an error, and Puppet::exec() yields
Return(p) ==
    /\ \E code \in {0, 1} : result' = [result EXCEPT ![p] = code]
    /\ running' = [running EXCEPT ![p] = FALSE]
    /\ yields' = IF p = script.control THEN 0 ELSE yields

\* the puppet runs until control comes back
Proceed(p) == Yield(p) \/ Return(p)

-----------------------------------------------------------------------------
(* Executor                                                                 *)

HasBody(i) == Commands[i].next > i + 1

\* (mutants: a body is skipped together with the statement after it; the result
\* is not looked at)
After_Skip(i, code) == IF HasBody(i) /\ code # 0 THEN Commands[i].next + 1 ELSE i + 1
After_Past(i, code) == IF HasBody(i) /\ code # 0 THEN i + 2 ELSE i + 1

\* the statement that follows: the body, if there is one, runs on a result of 0
After(i, code) == IF HasBody(i) /\ code # 0 THEN Commands[i].next ELSE i + 1

\* (mutant: only the control puppet is told)
Signal_Control(p) == told[p] \/ (stop /\ p = script.control)

\* signal_stop() when the group is stopping
Signal(p) == told[p] \/ stop

\* (mutant: the control puppet must return twice)
ControlEnds_Restart(p) == p = script.control /\ ~running'[p] /\ running[p] /\ told[p]

\* the puppet of the while-clause has returned
ControlEnds(p) == p = script.control /\ ~running'[p]

\* statement() and exec()
Statement ==
    /\ phase = "run" /\ pos <= Len(Commands)
    /\ LET p == Commands[pos].call IN
       /\ revisit' = IF Commands[pos].star THEN Append(revisit, p) ELSE revisit
       /\ told' = [told EXCEPT ![p] = Signal(p)]
       /\ Proceed(p)
       /\ stop' = (stop \/ ControlEnds(p))
       /\ pos' = After(pos, result'[p])
       /\ calls' = Append(calls, [pos |-> pos, told |-> told'[p], exited |-> ~running'[p],
                                  code |-> result'[p]])
    /\ UNCHANGED <<script, phase, left, revisits>>

EndOfCommands ==
    /\ phase = "run" /\ pos > Len(Commands)
    /\ phase' = "revisit"
    /\ UNCHANGED <<script, pos, revisit, stop, puppetVars, left, calls, revisits>>

\* the puppets of starred statements are continued once more: proceed() alone, without
\* signal_stop() and without a look at whether the control puppet has returned
Revisit ==
    /\ phase = "revisit" /\ revisit # <<>>
    /\ LET p == Head(revisit) IN
       /\ Proceed(p)
       /\ revisits' = Append(revisits, [call |-> p, told |-> told[p], exited |-> ~running'[p]])
    /\ revisit' = Tail(revisit)
    /\ UNCHANGED <<script, phase, pos, stop, told, left, calls>>

EndOfTurn ==
    /\ phase = "revisit" /\ revisit = <<>>
    /\ IF stop
       THEN phase' = "destroy" /\ UNCHANGED <<pos, calls, revisits>>
       ELSE phase' = "run" /\ pos' = 1 /\ calls' = <<>> /\ revisits' = <<>>
    /\ UNCHANGED <<script, revisit, stop, puppetVars, left>>

\* (mutant: the destructor only frees the puppet's memory)
Unfinished_Ignored(p) == FALSE

\* the destructor lets a puppet finish that is in the middle of its main
Unfinished(p) == running[p]

\* ~Puppet(), for the puppets of the map in any order
Destroy ==
    /\ phase = "destroy"
    /\ \E p \in left :
          /\ left' = left \ {p}
          /\ IF Unfinished(p)
             THEN told' = [told EXCEPT ![p] = TRUE] /\ Proceed(p)
             ELSE UNCHANGED puppetVars
    /\ UNCHANGED <<script, phase, pos, revisit, stop, calls, revisits>>

Finish ==
    /\ phase = "destroy" /\ left = {}
    /\ phase' = "over"
    /\ UNCHANGED <<script, pos, revisit, stop, puppetVars, left, calls, revisits>>

Next ==
    \/ Statement \/ EndOfCommands \/ Revisit \/ EndOfTurn \/ Destroy \/ Finish
    \/ phase = "over" /\ UNCHANGED vars

Spec == Init /\ [][Next]_vars

\* puppets yield or return: proceed() comes back
FairSpec == Spec /\ WF_vars(Next)

-----------------------------------------------------------------------------
(* Properties                                                               *)

\* the statements whose bodies contain statement i
Enclosing(i) == {k \in 1 .. i - 1 : i < Commands[k].next}

\* the statements called in this turn, and those whose puppet's result was 0 after it
Called == {calls[k].pos : k \in 1 .. Len(calls)}
Ran    == {calls[k].pos : k \in {n \in 1 .. Len(calls) : calls[n].code = 0}}

\* Each turn of the loop calls its statements in the order of the script, each at most
\* once: a statement that has been passed was called if every body around it ran,
\* that is, was behind a call with the result 0, and was not called otherwise.  A turn
\* ends with its last statement.
LoopInOrder ==
    /\ \A j, k \in 1 .. Len(calls) : j < k => calls[j].pos < calls[k].pos
    /\ \A i \in 1 .. Len(Commands) :
          i < pos \/ phase # "run" => (i \in Called <=> Enclosing(i) \subseteq Ran)

\* the control puppet has returned in the j-th call of this turn's statements, or in
\* the n-th call of its loop over revisit
ControlReturned(j)  == Commands[calls[j].pos].call = script.control /\ calls[j].exited
ControlRevisited(n) == revisits[n].call = script.control /\ revisits[n].exited

\* A statement tells its puppet that the group stops exactly if the control puppet has
\* returned in a statement before it, and a revisited puppet is told exactly if a
\* statement of this turn has told it.  README.md of the repository promises more: a
\* starred puppet whose statement came before the return is revisited after it, but
\* untold, and a control puppet that returns in the loop over revisit makes nobody be
\* told.
RestIsTold ==
    /\ \A k \in 1 .. Len(calls) :
          calls[k].told <=> \E j \in 1 .. k - 1 : ControlReturned(j)
    /\ \A n \in 1 .. Len(revisits) :
          revisits[n].told <=> \E k \in 1 .. Len(calls) :
                                 Commands[calls[k].pos].call = revisits[n].call /\ calls[k].told

\* the control puppet's statement is starred: it is also continued by Revisit, which
\* does not look whether it returns
ControlStarred == \E i \in 1 .. Len(Commands) :
                      Commands[i].star /\ Commands[i].call = script.control

\* No turn begins after one in which the control puppet has returned in a statement, nor,
\* in scripts whose control puppet is not starred, after one in which it has returned
\* at all.  A starred control puppet that returns in the loop over revisit is left out:
\* another turn begins and calls its main again, which README.md of the repository
\* does not say.
LastTurn == [][phase = "revisit" /\ phase' = "run" =>
                 /\ \A j \in 1 .. Len(calls) : ~ControlReturned(j)
                 /\ ~ControlStarred =>
                       \A n \in 1 .. Len(revisits) : ~ControlRevisited(n)]_vars

\* No puppet is abandoned in the middle of its main without having been told to
\* stop and continued once more.
NobodyAbandoned == phase = "over" => \A p \in Puppets : running[p] => told[p]

\* The group ends: a control puppet that returns ends the loop, unless it is starred
\* (then it may return in Revisit again and again, and be started anew each turn).
Termination == <>(ControlStarred \/ phase = "over")
=============================================================================

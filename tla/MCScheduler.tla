---------------------------- MODULE MCScheduler ----------------------------
(***************************************************************************)
(* Instances of Scheduler for TLC: the jobs a script may schedule.          *)
(***************************************************************************)
EXTENDS Scheduler

\* one rank of each job returns a value, the rest return nothing; also a job whose
\* last rank answers, so its first may lag behind
OneAnswerAnywhere ==
    {[size |-> 1, by |-> {0}, rest |-> "none"],
     [size |-> 2, by |-> {0}, rest |-> "none"],
     [size |-> 2, by |-> {1}, rest |-> "none"]}

\* every rank of the job returns a value
AllAnswer ==
    {[size |-> n, by |-> 0 .. n - 1, rest |-> "none"] : n \in {1, 2}}

\* the last rank of a job returns a value, the rest return true or false
BoolElsewhere ==
    {[size |-> n, by |-> {n - 1}, rest |-> "bool"] : n \in {1, 2}}

ChaiSilent   == {"bool"}
PythonSilent == {"none"}
=============================================================================

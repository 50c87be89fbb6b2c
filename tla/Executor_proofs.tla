--------------------------- MODULE Executor_proofs ---------------------------
(***************************************************************************)
(* Proofs about Executor for every script: any statements, any nesting of   *)
(* bodies, any starred statements, and puppets that yield or return at will. *)
(***************************************************************************)
EXTENDS Executor, SequenceTheorems, TLAPS

CallRecord == [pos : 1 .. Len(Commands), told : BOOLEAN, exited : BOOLEAN, code : {-1, 0, 1}]
RevisitRecord == [call : Puppets, told : BOOLEAN, exited : BOOLEAN]

\* the group is stopping if the control puppet has returned in a statement of this turn
StopNoted ==
    phase \in {"run", "revisit"} =>
        (stop <=> \E j \in 1 .. Len(calls) : ControlReturned(j))

\* the puppets told are those that a statement of this turn has told
ToldBy(p) == \E k \in 1 .. Len(calls) : Commands[calls[k].pos].call = p /\ calls[k].told
ToldNoted == phase \in {"run", "revisit"} => \A p \in Puppets : told[p] <=> ToldBy(p)

\* only puppets of starred statements are revisited, after the statements
StarredCall(p) == \E i \in 1 .. Len(Commands) : Commands[i].star /\ Commands[i].call = p
StarredOnly ==
    /\ phase = "run" => Len(revisits) = 0
    /\ \A n \in 1 .. Len(revisit) : StarredCall(revisit[n])
    /\ \A n \in 1 .. Len(revisits) : StarredCall(revisits[n].call)

\* the puppets that are gone had been told, unless they were between two runs of main
GoneWereTold ==
    /\ phase \in {"run", "revisit"} => left = Puppets
    /\ \A p \in Puppets \ left : running[p] => told[p]
    /\ phase = "over" => left = {}

\* statements are called in the order of the text, and the next one comes after them
Onward ==
    /\ \A j, k \in 1 .. Len(calls) : j < k => calls[j].pos < calls[k].pos
    /\ \A k \in 1 .. Len(calls) : calls[k].pos < pos

\* what has been passed was called if the bodies around it run, and those around the
\* next statement run
Decided == \A i \in 1 .. pos - 1 : i \in Called <=> Enclosing(i) \subseteq Ran
Inside  == Enclosing(pos) \subseteq Ran
AtEnd   == phase # "run" => pos = Len(Commands) + 1

Order == Onward /\ Decided /\ Inside /\ AtEnd

Inv == TypeOK /\ StopNoted /\ ToldNoted /\ RestIsTold /\ StarredOnly /\ GoneWereTold

-----------------------------------------------------------------------------
(* Facts about scripts and puppets                                          *)

\* a statement has a position, a puppet, and a statement that follows its body
LEMMA StatementFields ==
    ASSUME script \in Scripts, NEW i \in 1 .. Len(Commands)
    PROVE  /\ Len(Commands) \in Nat
           /\ Commands[i].call \in Puppets
           /\ Commands[i].star \in BOOLEAN
           /\ Commands[i].next \in i + 1 .. Len(Commands) + 1
           /\ \A k \in i + 1 .. Commands[i].next - 1 : Commands[k].next <= Commands[i].next
<1>1. /\ Commands \in Seq({Commands[k] : k \in DOMAIN Commands})
      /\ \A k \in 1 .. Len(Commands) : StatementOK(Commands, k)
  BY ScriptsAssumption DEF Commands
<1>2. Len(Commands) \in Nat
  BY <1>1, LenProperties
<1>3. StatementOK(Commands, i)
  BY <1>1
<1> QED
  BY <1>2, <1>3 DEF StatementOK, Puppets

\* the position after a statement is one of the script, or its end
LEMMA AfterInScript ==
    ASSUME script \in Scripts, NEW i \in 1 .. Len(Commands), NEW code
    PROVE  After(i, code) \in 1 .. Len(Commands) + 1
BY StatementFields DEF After, HasBody

\* whatever a puppet does with control, only its own state changes
LEMMA ProceedOfOne ==
    ASSUME TypeOK, NEW p \in Puppets, Proceed(p)
    PROVE  /\ running' \in [Puppets -> BOOLEAN]
           /\ result' \in [Puppets -> {-1, 0, 1}]
           /\ yields' \in 0 .. MaxYields
           /\ \A q \in Puppets \ {p} : running'[q] = running[q]
<1>1. CASE Yield(p)
  BY <1>1, YieldsAssumption DEF Yield, TypeOK
<1>2. CASE Return(p)
  BY <1>2, YieldsAssumption DEF Return, TypeOK
<1> QED
  BY <1>1, <1>2 DEF Proceed

-----------------------------------------------------------------------------
(* The invariant                                                            *)

LEMMA InitInv == Init => Inv
<1> SUFFICES ASSUME Init PROVE Inv
  OBVIOUS
<1>1. script \in Scripts
  BY DEF Init
<1>2. Len(Commands) \in Nat
  <2>1. Commands \in Seq({Commands[k] : k \in DOMAIN Commands})
    BY <1>1, ScriptsAssumption DEF Commands
  <2> QED
    BY <2>1, LenProperties
<1>3. TypeOK
  <2>1. revisit \in Seq(Puppets) /\ calls \in Seq(CallRecord) /\ revisits \in Seq(RevisitRecord)
    BY EmptySeq DEF Init
  <2>2. result \in [Puppets -> {-1, 0, 1}]
    BY DEF Init
  <2>3. running \in [Puppets -> BOOLEAN] /\ told \in [Puppets -> BOOLEAN]
    BY DEF Init
  <2>4. pos \in 1 .. Len(Commands) + 1 /\ yields \in 0 .. MaxYields
    BY <1>2, YieldsAssumption DEF Init
  <2> QED
    BY <2>1, <2>2, <2>3, <2>4 DEF Init, TypeOK, CallRecord, RevisitRecord
<1>4. Len(calls) = 0 /\ Len(revisits) = 0 /\ Len(revisit) = 0
  BY EmptySeq DEF Init
<1>5. StopNoted /\ ToldNoted
  BY <1>4 DEF Init, StopNoted, ToldNoted, ToldBy
<1>6. RestIsTold /\ StarredOnly
  BY <1>4 DEF RestIsTold, StarredOnly
<1>7. GoneWereTold
  BY DEF Init, GoneWereTold
<1> QED
  BY <1>3, <1>5, <1>6, <1>7 DEF Inv

\* a statement is executed: its puppet is told if the group is stopping, and the group
\* is stopping from then on if the control puppet has returned
LEMMA StatementInv ==
    ASSUME Inv, Statement
    PROVE  Inv'
<1> DEFINE p == Commands[pos].call
           c == [pos |-> pos, told |-> told'[p], exited |-> ~running'[p], code |-> result'[p]]
<1> USE DEF Inv
<1>1. /\ phase = "run" /\ pos \in 1 .. Len(Commands) /\ script \in Scripts
      /\ UNCHANGED <<script, phase, left, revisits>>
  BY StatementFields DEF Statement, TypeOK
<1>2. /\ p \in Puppets /\ Commands' = Commands /\ Puppets' = Puppets
      /\ Len(Commands) \in Nat
  BY <1>1, StatementFields DEF Commands, Puppets
<1>3. /\ told' = [told EXCEPT ![p] = Signal(p)] /\ Proceed(p)
      /\ stop' = (stop \/ ControlEnds(p))
      /\ pos' = After(pos, result'[p])
      /\ calls' = Append(calls, c)
      /\ revisit' = IF Commands[pos].star THEN Append(revisit, p) ELSE revisit
  BY DEF Statement
<1>4. /\ running' \in [Puppets -> BOOLEAN] /\ result' \in [Puppets -> {-1, 0, 1}]
      /\ yields' \in 0 .. MaxYields
  BY <1>2, <1>3, ProceedOfOne
<1>5. /\ told' \in [Puppets -> BOOLEAN] /\ told'[p] = (told[p] \/ stop)
      /\ \A q \in Puppets \ {p} : told'[q] = told[q]
  BY <1>2, <1>3 DEF TypeOK, Signal
<1>6. c \in CallRecord /\ calls \in Seq(CallRecord)
  BY <1>1, <1>2, <1>4, <1>5 DEF TypeOK, CallRecord
<1>7. /\ calls' \in Seq(CallRecord) /\ Len(calls') = Len(calls) + 1
      /\ Len(calls) \in Nat
      /\ \A k \in 1 .. Len(calls) : calls'[k] = calls[k]
      /\ calls'[Len(calls) + 1] = c
  BY <1>3, <1>6, AppendProperties, LenProperties
<1>8. TypeOK'
  <2>1. revisit' \in Seq(Puppets)
    BY <1>2, <1>3, AppendProperties DEF TypeOK
  <2>2. stop' \in BOOLEAN
    BY <1>3 DEF TypeOK, ControlEnds
  <2>3. pos' \in 1 .. Len(Commands) + 1
    BY <1>1, <1>3, AfterInScript
  <2> QED
    BY <1>1, <1>2, <1>4, <1>5, <1>7, <2>1, <2>2, <2>3 DEF TypeOK, CallRecord
<1>9. PICK n \in Nat : n = Len(calls)
  BY <1>7
<1>10. \A k \in 1 .. n + 1 : k \in 1 .. n \/ k = n + 1
  OBVIOUS
<1>11. \A j \in 1 .. n : ControlReturned(j)' <=> ControlReturned(j)
  BY <1>1, <1>2, <1>7, <1>9 DEF ControlReturned
<1>12. ControlReturned(n + 1)' <=> ControlEnds(p)
  <2>1. calls'[n + 1].pos = pos /\ calls'[n + 1].exited = ~running'[p]
    BY <1>7, <1>9
  <2> QED
    BY <1>1, <1>2, <2>1 DEF ControlReturned, ControlEnds
<1>13. stop <=> \E j \in 1 .. n : ControlReturned(j)
  BY <1>1, <1>9 DEF StopNoted
<1>14. StopNoted'
  <2>1. stop' <=> \E j \in 1 .. n + 1 : ControlReturned(j)'
    <3>1. CASE stop
      <4>1. PICK j \in 1 .. n : ControlReturned(j)
        BY <1>13, <3>1
      <4>2. j \in 1 .. n + 1 /\ ControlReturned(j)'
        BY <1>11, <4>1
      <4> QED
        BY <1>3, <3>1, <4>2
    <3>2. CASE ~stop
      <4>1. \A j \in 1 .. n : ~ControlReturned(j)'
        BY <1>11, <1>13, <3>2
      <4>2. (\E j \in 1 .. n + 1 : ControlReturned(j)') <=> ControlReturned(n + 1)'
        BY <1>10, <4>1
      <4> QED
        BY <1>3, <1>12, <3>2, <4>2
    <3> QED
      BY <3>1, <3>2
  <2>2. Len(calls') = n + 1
    BY <1>7, <1>9
  <2> QED
    BY <2>1, <2>2 DEF StopNoted
<1>15. \A k \in 1 .. n : /\ calls'[k].told <=> calls[k].told
                        /\ Commands'[calls'[k].pos].call = Commands[calls[k].pos].call
  BY <1>2, <1>7, <1>9
<1>16. /\ calls'[n + 1].told <=> told'[p]
       /\ Commands'[calls'[n + 1].pos].call = p
  BY <1>2, <1>7, <1>9
<1>17. \A q \in Puppets : told[q] <=> ToldBy(q)
  BY <1>1 DEF ToldNoted
<1>18. ToldNoted'
  <2> SUFFICES ASSUME NEW q \in Puppets PROVE told'[q] <=> ToldBy(q)'
    BY <1>2 DEF ToldNoted
  <2>1. ToldBy(q)' <=> \E k \in 1 .. n + 1 : Commands'[calls'[k].pos].call = q /\ calls'[k].told
    BY <1>7, <1>9 DEF ToldBy
  <2>2. ToldBy(q) <=> \E k \in 1 .. n : Commands'[calls'[k].pos].call = q /\ calls'[k].told
    BY <1>9, <1>15 DEF ToldBy
  <2>3. ToldBy(q)' <=> (ToldBy(q) \/ (p = q /\ told'[p]))
    BY <1>10, <1>16, <2>1, <2>2
  <2>4. CASE p = q
    <3>1. told[p] => told'[p]
      BY <1>5
    <3> QED
      BY <1>2, <1>17, <2>3, <2>4, <3>1
  <2>5. CASE p # q
    BY <1>5, <1>17, <2>3, <2>5
  <2> QED
    BY <2>4, <2>5
<1>19. RestIsTold'
  <2>1. ASSUME NEW k \in 1 .. n
        PROVE  calls'[k].told <=> \E j \in 1 .. k - 1 : ControlReturned(j)'
    <3>1. calls[k].told <=> \E j \in 1 .. k - 1 : ControlReturned(j)
      BY <1>9 DEF RestIsTold
    <3>2. \A j \in 1 .. k - 1 : ControlReturned(j)' <=> ControlReturned(j)
      BY <1>11
    <3> QED
      BY <1>15, <3>1, <3>2
  <2>2. calls'[n + 1].told <=> \E j \in 1 .. n : ControlReturned(j)'
    <3>1. told[p] => stop
      <4>1. told[p] => \E k \in 1 .. n : calls[k].told
        BY <1>2, <1>9, <1>17 DEF ToldBy
      <4>2. \A k \in 1 .. n : calls[k].told => \E j \in 1 .. k - 1 : ControlReturned(j)
        BY <1>9 DEF RestIsTold
      <4> QED
        BY <1>13, <4>1, <4>2
    <3>2. told'[p] <=> stop
      BY <1>5, <3>1
    <3> QED
      BY <1>11, <1>13, <1>16, <3>2
  <2>3. \A k \in 1 .. n + 1 : calls'[k].told <=> \E j \in 1 .. k - 1 : ControlReturned(j)'
    <3> SUFFICES ASSUME NEW k \in 1 .. n + 1
                 PROVE  calls'[k].told <=> \E j \in 1 .. k - 1 : ControlReturned(j)'
      OBVIOUS
    <3>1. CASE k \in 1 .. n
      BY <2>1, <3>1
    <3>2. CASE k = n + 1
      BY <2>2, <3>2
    <3> QED
      BY <1>10, <3>1, <3>2
  <2>4. Len(calls') = n + 1 /\ Len(revisits') = 0
    BY <1>1, <1>7, <1>9 DEF StarredOnly
  <2> QED
    BY <2>3, <2>4 DEF RestIsTold
<1>20. StarredOnly'
  <2>1. \A q : StarredCall(q)' <=> StarredCall(q)
    BY <1>2 DEF StarredCall
  <2>2. Len(revisits') = 0
    BY <1>1 DEF StarredOnly
  <2>3. \A m \in 1 .. Len(revisit') : StarredCall(revisit'[m])
    <3>1. CASE Commands[pos].star
      <4>1. revisit' = Append(revisit, p) /\ revisit \in Seq(Puppets)
        BY <1>3, <3>1 DEF TypeOK
      <4>2. /\ Len(revisit') = Len(revisit) + 1 /\ Len(revisit) \in Nat
            /\ \A m \in 1 .. Len(revisit) : revisit'[m] = revisit[m]
            /\ revisit'[Len(revisit) + 1] = p
        BY <1>2, <4>1, AppendProperties, LenProperties
      <4>3. StarredCall(p)
        BY <1>1, <3>1 DEF StarredCall
      <4>4. \A m \in 1 .. Len(revisit) : StarredCall(revisit[m])
        BY DEF StarredOnly
      <4> QED
        BY <4>2, <4>3, <4>4
    <3>2. CASE ~Commands[pos].star
      BY <1>3, <3>2 DEF StarredOnly
    <3> QED
      BY <3>1, <3>2
  <2> QED
    BY <2>1, <2>2, <2>3 DEF StarredOnly
<1>21. GoneWereTold'
  BY <1>1, <1>2 DEF GoneWereTold
<1> QED
  BY <1>8, <1>14, <1>18, <1>19, <1>20, <1>21

\* one call of the loop over revisit: nothing that is noted or told changes
LEMMA RevisitInv ==
    ASSUME Inv, Revisit
    PROVE  Inv'
<1> DEFINE p == Head(revisit)
           r == [call |-> p, told |-> told[p], exited |-> ~running'[p]]
<1> USE DEF Inv
<1>1. /\ phase = "revisit" /\ revisit # <<>> /\ Proceed(p)
      /\ revisit' = Tail(revisit)
      /\ revisits' = Append(revisits, r)
      /\ UNCHANGED <<script, phase, pos, stop, told, left, calls>>
      /\ Commands' = Commands /\ Puppets' = Puppets
  BY DEF Revisit, Commands, Puppets
<1>2. /\ p \in Puppets /\ revisit' \in Seq(Puppets)
      /\ Len(revisit) \in Nat /\ Len(revisit) # 0 /\ Len(revisit') = Len(revisit) - 1
      /\ p = revisit[1] /\ \A m \in 1 .. Len(revisit') : revisit'[m] = revisit[m + 1]
  BY <1>1, HeadTailProperties, EmptySeq, LenProperties DEF TypeOK
<1>3. /\ running' \in [Puppets -> BOOLEAN] /\ result' \in [Puppets -> {-1, 0, 1}]
      /\ yields' \in 0 .. MaxYields
  BY <1>1, <1>2, ProceedOfOne
<1>4. r \in RevisitRecord /\ revisits \in Seq(RevisitRecord)
  BY <1>2, <1>3 DEF TypeOK, RevisitRecord
<1>5. PICK n \in Nat : n = Len(revisits)
  BY <1>4, LenProperties
<1>6. /\ revisits' \in Seq(RevisitRecord) /\ Len(revisits') = n + 1
      /\ \A m \in 1 .. n : revisits'[m] = revisits[m]
      /\ revisits'[n + 1] = r
  BY <1>1, <1>4, <1>5, AppendProperties
<1>7. TypeOK'
  BY <1>1, <1>2, <1>3, <1>6 DEF TypeOK, RevisitRecord
<1>8. \A j : ControlReturned(j)' <=> ControlReturned(j)
  BY <1>1 DEF ControlReturned
<1>9. \A q : ToldBy(q)' <=> ToldBy(q)
  BY <1>1 DEF ToldBy
<1>10. StopNoted' /\ ToldNoted'
  BY <1>1, <1>8, <1>9 DEF StopNoted, ToldNoted
<1>11. RestIsTold'
  <2>1. \A k \in 1 .. Len(calls') :
          calls'[k].told <=> \E j \in 1 .. k - 1 : ControlReturned(j)'
    BY <1>1, <1>8 DEF RestIsTold
  <2>2. \A m \in 1 .. n : revisits'[m].told <=> ToldBy(revisits'[m].call)
    BY <1>5, <1>6 DEF RestIsTold, ToldBy
  <2>3. revisits'[n + 1].told <=> ToldBy(revisits'[n + 1].call)
    <3>1. told[p] <=> ToldBy(p)
      BY <1>1, <1>2 DEF ToldNoted
    <3>2. revisits'[n + 1].call = p /\ (revisits'[n + 1].told <=> told[p])
      BY <1>6
    <3> QED
      BY <3>1, <3>2
  <2>4. \A m \in 1 .. Len(revisits') : revisits'[m].told <=> ToldBy(revisits'[m].call)
    BY <1>6, <2>2, <2>3
  <2> QED
    BY <1>1, <2>1, <2>4 DEF RestIsTold, ToldBy
<1>12. StarredOnly'
  <2>1. \A q : StarredCall(q)' <=> StarredCall(q)
    BY <1>1 DEF StarredCall
  <2>2. StarredCall(p) /\ \A m \in 1 .. Len(revisit') : StarredCall(revisit'[m])
    BY <1>2 DEF StarredOnly
  <2>3. \A m \in 1 .. n + 1 : StarredCall(revisits'[m].call)
    <3>1. \A m \in 1 .. n : StarredCall(revisits'[m].call)
      BY <1>5, <1>6 DEF StarredOnly
    <3>2. StarredCall(revisits'[n + 1].call)
      BY <1>6, <2>2
    <3> QED
      BY <3>1, <3>2
  <2> QED
    BY <1>1, <1>6, <2>1, <2>2, <2>3 DEF StarredOnly
<1>13. GoneWereTold'
  BY <1>1 DEF GoneWereTold
<1> QED
  BY <1>7, <1>10, <1>11, <1>12, <1>13

\* a step that leaves the turn's calls alone keeps what the calls say
LEMMA CallsUnchanged ==
    ASSUME Inv, UNCHANGED <<script, revisit, calls, revisits>>,
           phase' \in {"run", "revisit"} =>
               phase \in {"run", "revisit"} /\ UNCHANGED <<stop, told>>,
           phase' = "run" => phase = "run"
    PROVE  StopNoted' /\ ToldNoted' /\ RestIsTold' /\ StarredOnly'
<1> USE DEF Inv
<1>1. Commands' = Commands /\ Puppets' = Puppets
  BY DEF Commands, Puppets
<1>2. StopNoted'
  BY <1>1 DEF StopNoted, ControlReturned
<1>3. ToldNoted'
  BY <1>1 DEF ToldNoted, ToldBy
<1>4. RestIsTold'
  BY <1>1 DEF RestIsTold, ControlReturned
<1>5. StarredOnly'
  BY <1>1 DEF StarredOnly, StarredCall
<1> QED
  BY <1>2, <1>3, <1>4, <1>5

\* a destructor: a puppet in the middle of its main is told before it goes
LEMMA DestroyInv ==
    ASSUME Inv, Destroy
    PROVE  Inv'
<1> USE DEF Inv
<1>1. PICK p \in left :
        /\ left' = left \ {p}
        /\ IF Unfinished(p) THEN told' = [told EXCEPT ![p] = TRUE] /\ Proceed(p)
                            ELSE UNCHANGED puppetVars
  BY DEF Destroy
<1>2. /\ phase = "destroy" /\ UNCHANGED <<script, phase, pos, revisit, stop, calls, revisits>>
      /\ Commands' = Commands /\ Puppets' = Puppets
      /\ p \in Puppets /\ left' \subseteq Puppets
  BY <1>1 DEF Destroy, TypeOK, Commands, Puppets
<1>3. StopNoted' /\ ToldNoted' /\ RestIsTold' /\ StarredOnly'
  BY <1>2, CallsUnchanged
<1>4. CASE running[p]
  <2>1. /\ told' = [told EXCEPT ![p] = TRUE]
        /\ running' \in [Puppets -> BOOLEAN] /\ result' \in [Puppets -> {-1, 0, 1}]
        /\ yields' \in 0 .. MaxYields
        /\ \A q \in Puppets \ {p} : running'[q] = running[q]
    BY <1>1, <1>2, <1>4, ProceedOfOne DEF Unfinished
  <2>2. TypeOK'
    BY <1>2, <2>1 DEF TypeOK
  <2>3. GoneWereTold'
    BY <1>1, <1>2, <2>1 DEF GoneWereTold, TypeOK
  <2> QED
    BY <1>3, <2>2, <2>3
<1>5. CASE ~running[p]
  <2>1. UNCHANGED <<running, told, result, yields>>
    BY <1>1, <1>5 DEF Unfinished, puppetVars
  <2>2. TypeOK'
    BY <1>2, <2>1 DEF TypeOK
  <2>3. GoneWereTold'
    BY <1>1, <1>2, <1>5, <2>1 DEF GoneWereTold
  <2> QED
    BY <1>3, <2>2, <2>3
<1> QED
  BY <1>2, <1>4, <1>5

\* a turn ends: the next one begins with nobody told, or the puppets are destroyed
LEMMA EndOfTurnInv ==
    ASSUME Inv, EndOfTurn
    PROVE  Inv'
<1> USE DEF Inv
<1>1. /\ phase = "revisit" /\ revisit = <<>>
      /\ UNCHANGED <<script, revisit, stop, running, told, result, yields, left>>
      /\ Commands' = Commands /\ Puppets' = Puppets
  BY DEF EndOfTurn, puppetVars, Commands, Puppets
<1>2. CASE stop
  <2>1. phase' = "destroy" /\ UNCHANGED <<pos, calls, revisits>>
    BY <1>2 DEF EndOfTurn
  <2>2. TypeOK'
    BY <1>1, <2>1 DEF TypeOK
  <2>3. StopNoted' /\ ToldNoted' /\ RestIsTold' /\ StarredOnly'
    BY <1>1, <2>1, CallsUnchanged
  <2>4. GoneWereTold'
    BY <1>1, <2>1 DEF GoneWereTold
  <2> QED
    BY <2>2, <2>3, <2>4
<1>3. CASE ~stop
  <2>1. phase' = "run" /\ pos' = 1 /\ calls' = <<>> /\ revisits' = <<>>
    BY <1>3 DEF EndOfTurn
  <2>2. /\ calls' \in Seq(CallRecord) /\ Len(calls') = 0
        /\ revisits' \in Seq(RevisitRecord) /\ Len(revisits') = 0
        /\ Len(revisit') = 0
    BY <1>1, <2>1, EmptySeq
  <2>3. 1 \in 1 .. Len(Commands) + 1
    BY DEF TypeOK
  <2>4. TypeOK'
    BY <1>1, <2>1, <2>2, <2>3 DEF TypeOK, CallRecord, RevisitRecord
  <2>5. \A k \in 1 .. Len(calls) : ~calls[k].told
    <3>1. \A j \in 1 .. Len(calls) : ~ControlReturned(j)
      BY <1>1, <1>3 DEF StopNoted
    <3>2. ASSUME NEW k \in 1 .. Len(calls), calls[k].told PROVE FALSE
      <4>1. PICK j \in 1 .. k - 1 : ControlReturned(j)
        BY <3>2 DEF RestIsTold
      <4>2. Len(calls) \in Nat
        BY LenProperties DEF TypeOK
      <4>3. j \in 1 .. Len(calls)
        BY <4>1, <4>2
      <4> QED
        BY <3>1, <4>1, <4>3
    <3> QED
      BY <3>2
  <2>6. \A p \in Puppets : ~told[p]
    BY <1>1, <2>5 DEF ToldNoted, ToldBy
  <2>7. StopNoted' /\ ToldNoted'
    BY <1>1, <1>3, <2>2, <2>6 DEF StopNoted, ToldNoted, ToldBy
  <2>8. RestIsTold' /\ StarredOnly'
    BY <2>2 DEF RestIsTold, StarredOnly
  <2>9. GoneWereTold'
    BY <1>1, <2>1 DEF GoneWereTold
  <2> QED
    BY <2>4, <2>7, <2>8, <2>9
<1> QED
  BY <1>2, <1>3

LEMMA NextInv == Inv /\ [Next]_vars => Inv'
<1> SUFFICES ASSUME Inv, [Next]_vars PROVE Inv'
  OBVIOUS
<1> USE DEF Inv
<1>1. CASE Statement
  BY <1>1, StatementInv
<1>2. CASE EndOfCommands
  <2>1. /\ phase = "run" /\ phase' = "revisit"
        /\ UNCHANGED <<script, pos, revisit, stop, running, told, result, yields, left, calls,
                       revisits>>
        /\ Commands' = Commands /\ Puppets' = Puppets
    BY <1>2 DEF EndOfCommands, puppetVars, Commands, Puppets
  <2>2. TypeOK'
    BY <2>1 DEF TypeOK
  <2>3. GoneWereTold'
    BY <2>1 DEF GoneWereTold
  <2>4. StopNoted' /\ ToldNoted' /\ RestIsTold' /\ StarredOnly'
    BY <2>1, CallsUnchanged
  <2> QED
    BY <2>2, <2>3, <2>4
<1>3. CASE Revisit
  BY <1>3, RevisitInv
<1>4. CASE EndOfTurn
  BY <1>4, EndOfTurnInv
<1>5. CASE Destroy
  BY <1>5, DestroyInv
<1>6. CASE Finish
  <2>1. /\ left = {} /\ phase = "destroy" /\ phase' = "over"
        /\ UNCHANGED <<script, pos, revisit, stop, running, told, result, yields, left, calls,
                       revisits>>
        /\ Commands' = Commands /\ Puppets' = Puppets
    BY <1>6 DEF Finish, puppetVars, Commands, Puppets
  <2>2. TypeOK'
    BY <2>1 DEF TypeOK
  <2>3. GoneWereTold'
    BY <2>1 DEF GoneWereTold
  <2>4. StopNoted' /\ ToldNoted' /\ RestIsTold' /\ StarredOnly'
    BY <2>1, CallsUnchanged
  <2> QED
    BY <2>2, <2>3, <2>4
<1>7. CASE UNCHANGED vars
  <2>1. /\ UNCHANGED <<script, phase, pos, revisit, stop, running, told, result, yields, left,
                       calls, revisits>>
        /\ Commands' = Commands /\ Puppets' = Puppets
    BY <1>7 DEF vars, puppetVars, Commands, Puppets
  <2>2. TypeOK'
    BY <2>1 DEF TypeOK
  <2>3. GoneWereTold'
    BY <2>1 DEF GoneWereTold
  <2>4. StopNoted' /\ ToldNoted' /\ RestIsTold' /\ StarredOnly'
    BY <2>1, CallsUnchanged
  <2> QED
    BY <2>2, <2>3, <2>4
<1> QED
  BY <1>1, <1>2, <1>3, <1>4, <1>5, <1>6, <1>7 DEF Next

LEMMA Invariance == Spec => []Inv
<1> QED
  BY InitInv, NextInv, PTL DEF Spec

-----------------------------------------------------------------------------
(* The order of the calls                                                   *)

LEMMA InitOrder == Init => Order
<1> SUFFICES ASSUME Init PROVE Order
  OBVIOUS
<1>1. phase = "run" /\ pos = 1 /\ calls = <<>> /\ Len(calls) = 0
  BY DEF Init
<1>2. Enclosing(1) = {}
  BY DEF Enclosing
<1> QED
  BY <1>1, <1>2 DEF Order, Onward, Decided, Inside, AtEnd

\* all of it speaks of the script, the calls and the position only
LEMMA OrderUnchanged ==
    ASSUME Order, UNCHANGED <<script, pos, calls>>,
           phase' # "run" => pos = Len(Commands) + 1
    PROVE  Order'
<1>1. Commands' = Commands /\ Called' = Called /\ Ran' = Ran
  BY DEF Commands, Called, Ran
<1>2. \A i : Enclosing(i)' = Enclosing(i)
  BY <1>1 DEF Enclosing
<1> QED
  BY <1>1, <1>2 DEF Order, Onward, Decided, Inside, AtEnd


\* the statement at pos is called, and the next one is behind it or behind its body
LEMMA StatementOrder ==
    ASSUME TypeOK, Order, Statement
    PROVE  Order'
<1> DEFINE p == Commands[pos].call
           code == result'[p]
<1>1. /\ phase = "run" /\ phase' = "run" /\ pos \in 1 .. Len(Commands)
      /\ script' = script /\ Len(Commands) \in Nat /\ script \in Scripts
  BY StatementFields DEF Statement, TypeOK
<1>2. Commands' = Commands /\ \A i : Enclosing(i)' = Enclosing(i)
  BY <1>1 DEF Commands, Enclosing
<1>3. PICK e : e = [pos |-> pos, told |-> told'[p], exited |-> ~running'[p], code |-> code]
  OBVIOUS
<1>4. calls' = Append(calls, e) /\ e.pos = pos /\ e.code = code
  BY <1>3 DEF Statement
<1>5. PICK S : calls \in Seq(S) /\ e \in S
  <2>1. calls \in Seq(CallRecord \cup {e})
    <3>1. calls \in Seq(CallRecord)
      BY DEF TypeOK, CallRecord
    <3>2. Len(calls) \in Nat /\ \A k \in 1 .. Len(calls) : calls[k] \in CallRecord
      BY <3>1, ElementOfSeq, LenProperties
    <3> QED
      BY <3>1
  <2> QED
    BY <2>1
<1>6. PICK n \in Nat : n = Len(calls)
  BY <1>5, LenProperties
<1>7. /\ Len(calls') = n + 1 /\ calls'[n + 1] = e
      /\ \A k \in 1 .. n : calls'[k] = calls[k]
  BY <1>4, <1>5, <1>6, AppendProperties
<1>8. /\ Called' = Called \cup {pos}
      /\ Ran' = IF code = 0 THEN Ran \cup {pos} ELSE Ran
  <2>1. 1 .. n + 1 = (1 .. n) \cup {n + 1}
    OBVIOUS
  <2>2. /\ Called' = {calls'[k].pos : k \in 1 .. n + 1}
        /\ Ran' = {calls'[k].pos : k \in {m \in 1 .. n + 1 : calls'[m].code = 0}}
    BY <1>7 DEF Called, Ran
  <2>3. /\ Called = {calls[k].pos : k \in 1 .. n}
        /\ Ran = {calls[k].pos : k \in {m \in 1 .. n : calls[m].code = 0}}
    BY <1>6 DEF Called, Ran
  <2>4. Called' = Called \cup {pos}
    BY <1>4, <1>7, <2>1, <2>2, <2>3
  <2>5. CASE code = 0
    BY <1>4, <1>7, <2>1, <2>2, <2>3, <2>5
  <2>6. CASE code # 0
    BY <1>4, <1>7, <2>1, <2>2, <2>3, <2>6
  <2> QED
    BY <2>4, <2>5, <2>6
<1>9. /\ \A i \in Called : i \in Nat /\ i < pos
      /\ Ran \subseteq Called
  <2>1. ASSUME NEW k \in 1 .. n PROVE calls[k].pos \in Nat /\ calls[k].pos < pos
    <3>1. calls[k] \in CallRecord
      BY <1>6, ElementOfSeq DEF TypeOK, CallRecord
    <3> QED
      BY <1>6, <3>1 DEF CallRecord, Order, Onward
  <2> QED
    BY <1>6, <2>1 DEF Called, Ran
<1>10. PICK b \in Nat :
          /\ b = Commands[pos].next /\ b >= pos + 1
          /\ \A k \in pos + 1 .. b - 1 : Commands[k].next <= b
  <2>1. /\ Commands[pos].next \in pos + 1 .. Len(Commands) + 1
        /\ \A k \in pos + 1 .. Commands[pos].next - 1 : Commands[k].next <= Commands[pos].next
    BY <1>1, StatementFields
  <2>2. Commands[pos].next \in Nat /\ Commands[pos].next >= pos + 1
    BY <1>1, <2>1
  <2> QED
    BY <2>1, <2>2
<1>11. /\ pos' \in Nat /\ pos < pos' /\ pos' <= b
       /\ pos' = pos + 1 \/ (pos' = b /\ code # 0)
       /\ b > pos + 1 /\ code # 0 => pos' = b
  <2>1. pos' = IF b > pos + 1 /\ code # 0 THEN b ELSE pos + 1
    BY <1>10 DEF Statement, After, HasBody
  <2> QED
    BY <1>1, <1>10, <2>1
<1>12. PICK q \in Nat : q = pos'
  BY <1>11
<1>13. PICK a \in Nat : a = pos
  BY <1>1
<1>14. \A i \in 1 .. q - 1 : i > a => q # a + 1
  OBVIOUS
<1>15. Onward'
  <2>1. ASSUME NEW j \in 1 .. n + 1, NEW k \in 1 .. n + 1, j < k
        PROVE  calls'[j].pos < calls'[k].pos
    <3>1. j \in 1 .. n
      BY <2>1
    <3>2. CASE k \in 1 .. n
      BY <1>6, <1>7, <2>1, <3>1, <3>2 DEF Order, Onward
    <3>3. CASE k = n + 1
      <4>1. calls[j].pos < pos
        BY <1>6, <3>1 DEF Order, Onward
      <4> QED
        BY <1>4, <1>7, <3>1, <3>3, <4>1
    <3> QED
      BY <3>2, <3>3
  <2>2. ASSUME NEW k \in 1 .. n + 1 PROVE calls'[k].pos < pos'
    <3>1. CASE k \in 1 .. n
      <4>1. calls[k].pos \in Called
        BY <1>6, <3>1 DEF Called
      <4>2. calls[k].pos < pos /\ calls[k].pos \in Nat
        BY <1>9, <4>1
      <4> QED
        BY <1>1, <1>7, <1>11, <3>1, <4>2
    <3>2. CASE k = n + 1
      BY <1>4, <1>7, <1>11, <3>2
    <3> QED
      BY <3>1, <3>2
  <2> QED
    BY <1>7, <2>1, <2>2 DEF Onward
<1>16. pos \notin Ran /\ \A i \in Ran' : i \in Ran \/ i = pos
  BY <1>1, <1>8, <1>9
<1>17. \A i : Enclosing(i) \subseteq 1 .. i - 1
  BY DEF Enclosing
<1>18. Decided'
  <2> SUFFICES ASSUME NEW i \in 1 .. pos' - 1
               PROVE  i \in Called \cup {pos} <=> Enclosing(i) \subseteq Ran'
    BY <1>2, <1>8 DEF Decided
  <2>1. CASE i < pos
    <3>1. i \in Called <=> Enclosing(i) \subseteq Ran
      BY <1>1, <2>1 DEF Order, Decided
    <3>2. pos \notin Enclosing(i)
      BY <1>1, <1>17, <2>1
    <3>3. Enclosing(i) \subseteq Ran' <=> Enclosing(i) \subseteq Ran
      BY <1>8, <3>2
    <3> QED
      BY <1>1, <2>1, <3>1, <3>3
  <2>2. CASE i = pos
    BY <1>8, <2>2 DEF Order, Inside
  <2>3. CASE i > pos
    <3>1. pos' = b /\ code # 0
      <4>1. pos' # pos + 1
        BY <1>12, <1>13, <1>14, <2>3
      <4> QED
        BY <1>11, <4>1, Zenon
    <3>2. pos \in Enclosing(i)
      BY <1>1, <1>10, <1>11, <2>3, <3>1 DEF Enclosing
    <3>3. pos \notin Ran'
      BY <1>8, <1>16, <3>1
    <3>4. i \notin Called
      BY <1>1, <1>9, <2>3
    <3> QED
      BY <1>1, <2>3, <3>2, <3>3, <3>4
  <2> QED
    BY <1>1, <2>1, <2>2, <2>3
<1>19. Inside'
  <2> SUFFICES ASSUME NEW k \in Enclosing(pos') PROVE k \in Ran'
    BY <1>2 DEF Inside, Enclosing
  <2>1. k \in 1 .. pos' - 1 /\ pos' < Commands[k].next
    BY DEF Enclosing
  <2>2. CASE k < pos
    <3>1. Commands[k].next \in Nat
      BY <1>1, <2>1, <2>2, StatementFields
    <3>2. k \in Enclosing(pos)
      BY <1>1, <1>11, <2>1, <2>2, <3>1 DEF Enclosing
    <3> QED
      BY <1>8, <3>2 DEF Order, Inside
  <2>3. CASE k = pos
    <3>1. code = 0
      BY <1>1, <1>10, <1>11, <2>1, <2>3
    <3> QED
      BY <1>8, <2>3, <3>1
  <2>4. CASE k > pos
    <3>1. k \in pos + 1 .. b - 1 /\ pos' = b
      <4>1. pos' # pos + 1
        BY <1>12, <1>13, <1>14, <2>1, <2>4
      <4>2. pos' = b
        BY <1>11, <4>1, Zenon
      <4> QED
        BY <1>1, <2>1, <2>4, <4>2
    <3>2. Commands[k].next \in Nat
      <4>1. k \in 1 .. Len(Commands)
        BY <1>1, <1>10, <3>1, StatementFields
      <4> QED
        BY <1>1, <4>1, StatementFields
    <3> QED
      BY <1>10, <2>1, <3>1, <3>2
  <2> QED
    BY <1>1, <2>1, <2>2, <2>3, <2>4
<1>20. AtEnd'
  BY <1>1 DEF AtEnd
<1> QED
  BY <1>15, <1>18, <1>19, <1>20 DEF Order

LEMMA NextOrder == Inv /\ Order /\ [Next]_vars => Order'
<1> SUFFICES ASSUME Inv, Order, [Next]_vars PROVE Order'
  OBVIOUS
<1> USE DEF Inv
<1>1. CASE Statement
  BY <1>1, StatementOrder
<1>2. CASE EndOfCommands
  <2>1. pos \in 1 .. Len(Commands) + 1 /\ pos > Len(Commands)
    BY <1>2 DEF EndOfCommands, TypeOK
  <2>2. Len(Commands) \in Nat
    <3>1. script \in Scripts
      BY DEF TypeOK
    <3>2. Commands \in Seq({Commands[k] : k \in DOMAIN Commands})
      BY <3>1, ScriptsAssumption DEF Commands
    <3> QED
      BY <3>2, LenProperties
  <2>3. pos = Len(Commands) + 1
    BY <2>1, <2>2
  <2> QED
    BY <1>2, <2>3, OrderUnchanged DEF EndOfCommands
<1>3. phase # "run" => pos = Len(Commands) + 1
  BY DEF Order, AtEnd
<1>4. CASE Revisit
  BY <1>3, <1>4, OrderUnchanged DEF Revisit
<1>5. CASE EndOfTurn
  <2>1. CASE stop
    BY <1>3, <1>5, <2>1, OrderUnchanged DEF EndOfTurn
  <2>2. CASE ~stop
    <3>1. phase' = "run" /\ pos' = 1 /\ calls' = <<>> /\ Len(calls') = 0
      BY <1>5, <2>2 DEF EndOfTurn
    <3>2. Enclosing(1)' = {}
      BY DEF Enclosing
    <3> QED
      BY <3>1, <3>2 DEF Order, Onward, Decided, Inside, AtEnd
  <2> QED
    BY <2>1, <2>2
<1>6. CASE Destroy
  BY <1>3, <1>6, OrderUnchanged DEF Destroy
<1>7. CASE Finish
  BY <1>3, <1>7, OrderUnchanged DEF Finish
<1>8. CASE UNCHANGED vars
  BY <1>3, <1>8, OrderUnchanged DEF vars
<1> QED
  BY <1>1, <1>2, <1>4, <1>5, <1>6, <1>7, <1>8 DEF Next

LEMMA InOrder == TypeOK /\ Order => LoopInOrder
<1> SUFFICES ASSUME TypeOK, Order PROVE LoopInOrder
  OBVIOUS
<1>1. \A j, k \in 1 .. Len(calls) : j < k => calls[j].pos < calls[k].pos
  BY DEF Order, Onward
<1>2. ASSUME NEW i \in 1 .. Len(Commands), i < pos \/ phase # "run"
      PROVE  i \in Called <=> Enclosing(i) \subseteq Ran
  <2>1. Len(Commands) \in Nat /\ pos \in 1 .. Len(Commands) + 1
    BY StatementFields DEF TypeOK
  <2>2. i \in 1 .. pos - 1
    BY <1>2, <2>1 DEF Order, AtEnd
  <2> QED
    BY <2>2 DEF Order, Decided
<1> QED
  BY <1>1, <1>2 DEF LoopInOrder

LEMMA OrderInvariant == Spec => []Order
<1> QED
  BY InitOrder, Invariance, NextOrder, PTL DEF Spec

-----------------------------------------------------------------------------
(* Theorems                                                                 *)

\* Types, for every script.
THEOREM TypeCorrect == Spec => []TypeOK
<1>1. Inv => TypeOK
  BY DEF Inv
<1> QED
  BY <1>1, Invariance, PTL

\* Executor::exec(), the loop over revisit: a statement tells its puppet to stop exactly if
\* the control puppet has returned in a statement before it, whatever bodies lie between;
\* a revisited puppet is told exactly if a statement of the turn has told it.
THEOREM WhoIsTold == Spec => []RestIsTold
<1>1. Inv => RestIsTold
  BY DEF Inv
<1> QED
  BY <1>1, Invariance, PTL

\* Executor::statement(): each turn calls its statements in the order of the text, and a
\* statement exactly when every body around it runs, for any nesting and any results.
THEOREM InTheOrderOfTheText == Spec => []LoopInOrder
<1>1. Inv => TypeOK
  BY DEF Inv
<1> QED
  BY <1>1, Invariance, OrderInvariant, InOrder, PTL

\* ~Puppet(): whoever is still in the middle of its main when henson has ended was
\* told to stop.
THEOREM NobodyLeftBehind == Spec => []NobodyAbandoned
<1>1. Inv => NobodyAbandoned
  BY DEF Inv, GoneWereTold, NobodyAbandoned
<1> QED
  BY <1>1, Invariance, PTL

\* The do-while loop of main: no turn begins after one in which the control puppet has
\* returned in a statement and, if it is not starred, after one in which it has returned
\* at all.
THEOREM NoTurnAfter == Spec => LastTurn
<1>1. Inv /\ [Next]_vars =>
        [phase = "revisit" /\ phase' = "run" =>
            /\ \A j \in 1 .. Len(calls) : ~ControlReturned(j)
            /\ ~ControlStarred =>
                  \A n \in 1 .. Len(revisits) : ~ControlRevisited(n)]_vars
  <2> SUFFICES ASSUME Inv, Next, phase = "revisit", phase' = "run"
               PROVE  /\ \A j \in 1 .. Len(calls) : ~ControlReturned(j)
                      /\ ~ControlStarred =>
                            \A n \in 1 .. Len(revisits) : ~ControlRevisited(n)
    OBVIOUS
  <2>1. EndOfTurn
    BY DEF Next, Statement, EndOfCommands, Revisit, Destroy, Finish, vars
  <2>2. ~stop
    BY <2>1 DEF EndOfTurn
  <2>3. \A j \in 1 .. Len(calls) : ~ControlReturned(j)
    BY <2>2 DEF Inv, StopNoted
  <2>4. ASSUME NEW n \in 1 .. Len(revisits), ControlRevisited(n) PROVE ControlStarred
    <3>1. StarredCall(revisits[n].call)
      BY DEF Inv, StarredOnly
    <3> QED
      BY <2>4, <3>1 DEF StarredCall, ControlRevisited, ControlStarred
  <2> QED
    BY <2>3, <2>4
<1> QED
  BY <1>1, Invariance, PTL DEF Spec, LastTurn
=============================================================================

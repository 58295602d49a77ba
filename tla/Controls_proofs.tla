--------------------------- MODULE Controls_proofs ---------------------------
(* Proofs about Controls, for any sets of calls, commands and sessions.     *)
(* What a user is told follows from the contract of the transport alone.    *)

EXTENDS Controls, GatewayTransport_proofs

\* What a finished command has returned, as CallContract promises it.
PromiseInv ==
    \A c \in Writes : phaseOf[c] = "done" =>
        /\ result[c] \in Contract!Outcomes \ {"untyped"}
        /\ result[c] = "ok" => executed[c] = 1
        /\ result[c] \in Contract!Refusals => executed[c] = 0

\* The variables of the contract are typed.
PhasesTyped ==
    /\ executed \in [Calls -> 0 .. 1]
    /\ result \in [Calls -> Outcomes \cup {"none"}]

\* No command has finished before one has begun.
LEMMA InitPromise == Init => PromiseInv
BY ConstantFacts DEF Init, PromiseInv, phaseOf, Running

\* A step of the contract keeps its promise about every command.
LEMMA ContractPromise ==
    ASSUME PhasesTyped, PromiseInv, Contract!ContractNext
    PROVE  PromiseInv'
<1> SUFFICES ASSUME NEW c \in Writes, phaseOf'[c] = "done"
             PROVE  (/\ result[c] \in Contract!Outcomes \ {"untyped"}
                     /\ result[c] = "ok" => executed[c] = 1
                     /\ result[c] \in Contract!Refusals => executed[c] = 0)'
  BY DEF PromiseInv
<1>1. PICK d \in Calls : \/ Contract!Begin(d)
                         \/ Contract!Execute(d)
                         \/ \E r \in Contract!Outcomes : Contract!Return(d, r)
  BY DEF Contract!ContractNext
<1>2. c \in Calls
  BY ConstantFacts
<1> USE <1>2 DEF PhasesTyped, PromiseInv
<1>3. phaseOf \in [Calls -> {phaseOf[e] : e \in Calls}]
  BY DEF phaseOf
<1>4. CASE Contract!Begin(d)
  BY <1>3, <1>4 DEF Contract!Begin, phaseOf
<1>5. CASE Contract!Execute(d)
  BY <1>3, <1>5 DEF Contract!Execute, phaseOf
<1>6. ASSUME NEW r \in Contract!Outcomes, Contract!Return(d, r)
      PROVE  (/\ result[c] \in Contract!Outcomes \ {"untyped"}
              /\ result[c] = "ok" => executed[c] = 1
              /\ result[c] \in Contract!Refusals => executed[c] = 0)'
  BY <1>3, <1>6 DEF Contract!Return, Contract!Refusals, Contract!Ambiguous, phaseOf
<1> QED
  BY <1>1, <1>4, <1>5, <1>6

\* So does every step of the transport, which is one of the contract or none.
LEMMA NextPromise == Inv /\ PromiseInv /\ [Next]_vars => PromiseInv'
<1> SUFFICES ASSUME Inv, PromiseInv, [Next]_vars PROVE PromiseInv'
  OBVIOUS
<1>1. [Contract!ContractNext]_(Contract!contractVars)
  BY NextContract
<1>2. CASE Contract!ContractNext
  BY <1>2, ContractPromise DEF PhasesTyped, Inv, TypeOK
<1>3. CASE UNCHANGED Contract!contractVars
  BY <1>3 DEF Contract!contractVars, PromiseInv, phaseOf
<1> QED
  BY <1>1, <1>2, <1>3

\* The message names the outcome: a reason comes of a refusal alone, and "could not
\* reach the gateway" of none but a lost connection.
LEMMA MessageOf ==
    ASSUME NEW c \in Calls, result[c] \in Contract!Outcomes \ {"untyped"}
    PROVE  /\ PressEnds(c) \in {"pressed"} \cup Denials
           /\ PressEnds(c) = "pressed" \/ CommandEnds(c) = "printed" => result[c] = "ok"
           /\ PressEnds(c) \in Reasons => result[c] \in Contract!Refusals
           /\ PressEnds(c) = "action_cannot_connect" => result[c] = "connection"
<1> USE DEF PressEnds, CommandEnds, ActionError, Classes, Denials, Reasons, Contract!Refusals
<1>1. CASE result[c] = "ok"
  BY <1>1
<1>2. CASE result[c] = "auth"
  BY <1>2
<1>3. CASE result[c] = "capability"
  BY <1>3
<1>4. CASE result[c] = "connection"
  BY <1>4
<1>5. CASE result[c] = "mismatch"
  BY <1>5
<1>6. CASE result[c] = "api"
  BY <1>6
<1> QED
  BY <1>1, <1>2, <1>3, <1>4, <1>5, <1>6 DEF Contract!Outcomes

\* For any number of commands, of calls they share their transport with, and of
\* sessions: success is told of a command that was carried out, a reason of one that
\* was not.
THEOREM MessagesFollowCommands == Spec => []MessageFollowsCommand
<1>1. PromiseInv => MessageFollowsCommand
  <2> SUFFICES ASSUME PromiseInv, NEW c \in Writes, pc[c] = "done"
               PROVE  /\ PressEnds(c) \in {"pressed"} \cup Denials
                      /\ PressEnds(c) = "pressed" \/ CommandEnds(c) = "printed" => executed[c] = 1
                      /\ PressEnds(c) \in Reasons => executed[c] = 0
                      /\ PressEnds(c) = "action_cannot_connect" => result[c] = "connection"
    BY DEF MessageFollowsCommand
  <2>1. c \in Calls /\ phaseOf[c] = "done"
    BY ConstantFacts DEF phaseOf, Running
  <2> QED
    BY <2>1, MessageOf DEF PromiseInv
<1> QED
  BY <1>1, InitPromise, NextPromise, Invariance, PTL DEF Spec

\* A message may deny a command that was carried out, but only if its call ended without
\* an answer or with an error of the console.
THEOREM WrongDenialsAreUnanswered ==
    Spec => [](\A c \in Writes : pc[c] = "done" /\ PressEnds(c) \in Denials /\ executed[c] # 0
                                 => result[c] \in {"connection", "api"})
<1>1. PromiseInv => \A c \in Writes : pc[c] = "done" /\ PressEnds(c) \in Denials /\ executed[c] # 0
                                 => result[c] \in {"connection", "api"}
  <2> SUFFICES ASSUME PromiseInv, NEW c \in Writes, pc[c] = "done",
                      PressEnds(c) \in Denials, executed[c] # 0
               PROVE  result[c] \in {"connection", "api"}
    OBVIOUS
  <2>1. c \in Calls /\ phaseOf[c] = "done"
    BY ConstantFacts DEF phaseOf, Running
  <2>2. /\ result[c] \in Contract!Outcomes \ {"untyped"}
        /\ result[c] \notin Contract!Refusals
    BY <2>1 DEF PromiseInv
  <2>3. result[c] # "ok"
    BY DEF PressEnds, Denials, Reasons
  <2> QED
    BY <2>2, <2>3 DEF Contract!Outcomes, Contract!Refusals
<1> QED
  BY <1>1, InitPromise, NextPromise, Invariance, PTL DEF Spec

=============================================================================

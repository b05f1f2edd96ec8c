---------------------------- MODULE RemoteCalls ----------------------------
(***************************************************************************)
(* What diconlib promises the threads of an application that share one     *)
(* node: "1 request -> 1 response", thread safe.  A call is made, the node *)
(* executes it once, and the caller gets the answer to its own call.  Only *)
(* when the connection has broken may a call come back with an undefined   *)
(* answer (the library ignores the failure of its receive), and it is then *)
(* unknown whether the node executed it.                                   *)
(***************************************************************************)
CONSTANT Threads

VARIABLES
  stage,    \* stage[t]: how far the current call of thread t has come
  answer,   \* answer[t]: what the last call of thread t returned
  broken    \* the connection to the node has broken

vars == <<stage, answer, broken>>

TypeOK ==
  /\ stage \in [Threads -> {"idle", "called", "executed"}]
  /\ answer \in [Threads -> {"own", "undefined"}]
  /\ broken \in BOOLEAN

Init ==
  /\ stage = [t \in Threads |-> "idle"]
  /\ answer = [t \in Threads |-> "undefined"]
  /\ broken = FALSE

\* Thread t calls an operation of the library.
Call(t) ==
  /\ stage[t] = "idle"
  /\ stage' = [stage EXCEPT ![t] = "called"]
  /\ answer' = [answer EXCEPT ![t] = "undefined"]
  /\ UNCHANGED broken

\* The node executes the operation thread t has called.
Execute(t) ==
  /\ stage[t] = "called"
  /\ stage' = [stage EXCEPT ![t] = "executed"]
  /\ UNCHANGED <<answer, broken>>

\* Thread t gets the answer to its own call.
Return(t) ==
  /\ stage[t] = "executed"
  /\ stage' = [stage EXCEPT ![t] = "idle"]
  /\ answer' = [answer EXCEPT ![t] = "own"]
  /\ UNCHANGED broken

\* The connection breaks, for good.
Break ==
  /\ ~broken
  /\ broken' = TRUE
  /\ UNCHANGED <<stage, answer>>

\* A call comes back from the broken connection with an undefined answer.
Fail(t) ==
  /\ broken
  /\ stage[t] # "idle"
  /\ stage' = [stage EXCEPT ![t] = "idle"]
  /\ UNCHANGED <<answer, broken>>

Next ==
  \/ \E t \in Threads : Call(t) \/ Execute(t) \/ Return(t) \/ Fail(t)
  \/ Break

Spec == Init /\ [][Next]_vars
=============================================================================

----------------------------- MODULE AtomicLink -----------------------------
(***************************************************************************)
(* What picolink_transfer promises its callers: a call is executed by the  *)
(* device at most once, between its invocation and its return, while no    *)
(* other call is; it returns the answer to itself, or an error after which *)
(* the device will not execute it any more.                                *)
(***************************************************************************)
EXTENDS Naturals

CONSTANT Threads

VARIABLES
  issued,   \* calls made so far
  op,       \* op[t]: the number of t's latest call
  phase,    \* phase[t]: where that call is
  outcome   \* outcome[t]: how it ended, and which calls the answer is for

vars == <<issued, op, phase, outcome>>

Answers == {"value", "nack"}
Failures == {"error", "fallback", "interrupted"}

Pending == [how |-> "pending", of |-> {}]

Init ==
  /\ issued = 0
  /\ op = [t \in Threads |-> 0]
  /\ phase = [t \in Threads |-> "idle"]
  /\ outcome = [t \in Threads |-> [how |-> "none", of |-> {}]]

Invoke(t) ==
  /\ phase[t] = "idle"
  /\ issued' = issued + 1
  /\ op' = [op EXCEPT ![t] = issued + 1]
  /\ phase' = [phase EXCEPT ![t] = "invoked"]
  /\ outcome' = [outcome EXCEPT ![t] = Pending]

Execute(t) ==
  /\ phase[t] = "invoked"
  /\ \A u \in Threads : phase[u] # "executed"
  /\ phase' = [phase EXCEPT ![t] = "executed"]
  /\ UNCHANGED <<issued, op, outcome>>

Return(t, how) ==
  /\ phase[t] = "executed"
  /\ phase' = [phase EXCEPT ![t] = "idle"]
  /\ outcome' = [outcome EXCEPT ![t] = [how |-> how, of |-> {op[t]}]]
  /\ UNCHANGED <<issued, op>>

(* A call that fails may have been executed or not.                        *)
Fail(t, how) ==
  /\ phase[t] # "idle"
  /\ phase' = [phase EXCEPT ![t] = "idle"]
  /\ outcome' = [outcome EXCEPT ![t] = [how |-> how, of |-> {}]]
  /\ UNCHANGED <<issued, op>>

Next ==
  \E t \in Threads :
    \/ Invoke(t) \/ Execute(t)
    \/ \E how \in Answers : Return(t, how)
    \/ \E how \in Failures : Fail(t, how)

Spec == Init /\ [][Next]_vars

=============================================================================

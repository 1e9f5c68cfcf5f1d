-------------------------- MODULE RequestLifecycle --------------------------
(***************************************************************************)
(* What change requests promise, without saying how: a request is open     *)
(* until it is refused or taken by one agent; only while an agent holds it *)
(* can it have effects; the agent gives it back as done or as failed, and  *)
(* a failed one may be taken again.  An agent may also be lost and leave   *)
(* the request held by nobody.  Done and refused are final.                *)
(***************************************************************************)
CONSTANTS Request, Agent

VARIABLES
  phase,   \* where the request is in its life
  holders, \* the agents that hold it
  effects  \* requests that have had an effect

vars == <<phase, holders, effects>>

Init ==
  /\ phase = [r \in Request |-> "new"]
  /\ holders = [r \in Request |-> {}]
  /\ effects = {}

Open(r) ==
  /\ phase[r] = "new"
  /\ phase' = [phase EXCEPT ![r] = "open"]
  /\ UNCHANGED <<holders, effects>>

Refuse(r) ==
  /\ phase[r] = "open"
  /\ phase' = [phase EXCEPT ![r] = "refused"]
  /\ UNCHANGED <<holders, effects>>

Take(r, a) ==
  /\ phase[r] \in {"open", "failed"}
  /\ holders[r] = {}
  /\ \A q \in Request : a \notin holders[q]
  /\ phase' = [phase EXCEPT ![r] = "held"]
  /\ holders' = [holders EXCEPT ![r] = {a}]
  /\ UNCHANGED effects

Affect(r, a) ==
  /\ phase[r] = "held"
  /\ holders[r] = {a}
  /\ effects' = effects \cup {r}
  /\ UNCHANGED <<phase, holders>>

GiveBack(r, a) ==
  /\ phase[r] = "held"
  /\ holders[r] = {a}
  /\ \E result \in {"done", "failed"} : phase' = [phase EXCEPT ![r] = result]
  /\ holders' = [holders EXCEPT ![r] = {}]
  /\ UNCHANGED effects

Lose(r, a) ==
  /\ holders[r] = {a}
  /\ holders' = [holders EXCEPT ![r] = {}]
  /\ UNCHANGED <<phase, effects>>

Next ==
  \E r \in Request :
    \/ Open(r) \/ Refuse(r)
    \/ \E a \in Agent : Take(r, a) \/ Affect(r, a) \/ GiveBack(r, a) \/ Lose(r, a)

Spec == Init /\ [][Next]_vars
=============================================================================

----------------------------- MODULE AttemptGate -----------------------------
(***************************************************************************)
(* What the registry and the commit gate promise, seen from outside: a run *)
(* has at most one attempt at a time, attempts are numbered upwards, and   *)
(* each attempt is decided at most once, by publication or by an accepted  *)
(* cancellation, never by both. RunLifecycle implements it.                *)
(***************************************************************************)
EXTENDS Naturals

CONSTANT Runs

VARIABLES
  opened,    \* attempts opened so far
  attempt,   \* the open attempt, 0 if none
  decision   \* what the open attempt was decided for

gate == <<opened, attempt, decision>>

GateInit ==
  /\ opened = [r \in Runs |-> 0]
  /\ attempt = [r \in Runs |-> 0]
  /\ decision = [r \in Runs |-> "open"]

Open(r) ==
  /\ attempt[r] = 0
  /\ opened' = [opened EXCEPT ![r] = @ + 1]
  /\ attempt' = [attempt EXCEPT ![r] = opened[r] + 1]
  /\ UNCHANGED decision

Decide(r, d) ==
  /\ attempt[r] # 0 /\ decision[r] = "open"
  /\ decision' = [decision EXCEPT ![r] = d]
  /\ UNCHANGED <<opened, attempt>>

Close(closed) ==
  /\ attempt' = [r \in Runs |-> IF r \in closed THEN 0 ELSE attempt[r]]
  /\ decision' = [r \in Runs |-> IF r \in closed THEN "open" ELSE decision[r]]
  /\ UNCHANGED opened

GateNext ==
  \/ \E r \in Runs : Open(r) \/ Decide(r, "published") \/ Decide(r, "cancelled")
  \/ \E closed \in SUBSET Runs : Close(closed)

GateSpec == GateInit /\ [][GateNext]_gate
=============================================================================

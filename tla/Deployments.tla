---------------------------- MODULE Deployments ----------------------------
(***************************************************************************)
(* What the version of the database promises to those who deploy: a        *)
(* command plans from the version it reads to the version it was asked     *)
(* for, and takes effect in one step, all of it or nothing, and only while *)
(* the database is still at the version it read.  So however many commands *)
(* run at once, those that take effect do so one after another, and none   *)
(* redoes or undoes what it did not know of.                               *)
(***************************************************************************)
EXTENDS Naturals

CONSTANTS Migrators, Latest     \* Latest: the last version

VARIABLES
  version,   \* the version of the database
  plan       \* plan[m]: what m is about to do, {} or {<<from, to>>}

deployment == <<version, plan>>

Init ==
  /\ version = 0
  /\ plan = [m \in Migrators |-> {}]

Begin(m, to) ==
  /\ plan[m] = {} /\ to # version
  /\ plan' = [plan EXCEPT ![m] = {<<version, to>>}]
  /\ UNCHANGED version

Finish(m) ==
  /\ \E to \in 0..Latest : plan[m] = {<<version, to>>} /\ version' = to
  /\ plan' = [plan EXCEPT ![m] = {}]

Fail(m) ==
  /\ plan[m] # {}
  /\ plan' = [plan EXCEPT ![m] = {}]
  /\ UNCHANGED version

Next ==
  \E m \in Migrators : (\E to \in 0..Latest : Begin(m, to)) \/ Finish(m) \/ Fail(m)

Spec == Init /\ [][Next]_deployment
=============================================================================

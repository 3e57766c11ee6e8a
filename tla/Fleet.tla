------------------------------- MODULE Fleet -------------------------------
(***************************************************************************)
(* What the supervisor of workers.go promises, without goroutines and       *)
(* channels: a worker starts once, finishes once, and JTIMON exits normally *)
(* only when no worker that was started is still running.  It may crash at  *)
(* any time.                                                                *)
(***************************************************************************)
CONSTANT Worker

VARIABLES life, program

fleetVars == <<life, program>>

FleetInit ==
    /\ life = [w \in Worker |-> "absent"]
    /\ program = "up"

Start(w) ==
    /\ life[w] = "absent"
    /\ life' = [life EXCEPT ![w] = "running"]
    /\ UNCHANGED program

Finish(w) ==
    /\ life[w] = "running"
    /\ life' = [life EXCEPT ![w] = "finished"]
    /\ UNCHANGED program

Exit ==
    /\ \A w \in Worker : life[w] # "running"
    /\ program' = "exited"
    /\ UNCHANGED life

(* A panic or log.Fatal. *)
Crash ==
    /\ program' = "crashed"
    /\ UNCHANGED life

FleetNext ==
    /\ program = "up"
    /\ \/ \E w \in Worker : Start(w) \/ Finish(w)
       \/ Exit \/ Crash

FleetSpec == FleetInit /\ [][FleetNext]_fleetVars
=============================================================================

------------------------------ MODULE MCInflux ------------------------------
(***************************************************************************)
(* The batch writers: four packets of two measurements, one of them without a *)
(* point and one larger than a batch; the channel of dbBatchWriteM holds two   *)
(* packets.  Or, as the other part of the run, the accumulator: six metrics    *)
(* of two paths, one of them invalid, that share tags, fields, both or none.   *)
(***************************************************************************)
EXTENDS Influx, Accumulator

VARIABLE part

MCMeas == <<"m1", "m1", "m2", "m2">>
MCSize == <<5, 9, 0, 6>>

MCM(path, tags, field, valid) ==
    [path |-> path, tags |-> tags, fields |-> {field}, valid |-> valid]
MCMetric ==
    <<MCM(1, {"t1"}, "f1", TRUE), MCM(1, {"t1"}, "f2", TRUE), MCM(1, {"t1"}, "f1", TRUE),
      MCM(2, {"t2"}, "f1", TRUE), MCM(2, {"t1"}, "f3", FALSE), MCM(2, {"t1"}, "f3", TRUE)>>

MCInit ==
    /\ Init /\ AccInit
    /\ \/ part = "writer"
       \/ part = "accumulator" /\ client /\ started /\ ~noGoroutines /\ ~perMeas
MCNext ==
    \/ part = "writer" /\ Next /\ UNCHANGED <<accVars, part>>
    \/ part = "accumulator" /\ AccNext /\ UNCHANGED <<vars, part>>

MCSpec == MCInit /\ [][MCNext]_<<vars, accVars, part>> /\ Fairness

=============================================================================

---------------------------- MODULE Accumulator ----------------------------
(***************************************************************************)
(* The accumulator of one IOS-XR device (influx.go, pointAcculumator): the   *)
(* goroutines of the subscribed paths send one metric per leaf on             *)
(* accumulatorCh; at every tick what has gathered there is merged into        *)
(* points and written.  Metrics are numbered; a point's field holds the      *)
(* number of the metric it came from.                                        *)
(***************************************************************************)
EXTENDS Integers, Sequences, FiniteSets

CONSTANTS
    Metric,      \* Metric[i]: [path, tags, fields, valid] of the i-th metric
    AccCap,      \* capacity of accumulatorCh (10240 in the code)
    DeviceTs     \* gDeviceTs

Metrics == DOMAIN Metric

ASSUME AccumulatorAssumption ==
    /\ AccCap \in Nat \ {0}
    /\ \A i \in Metrics : Metric[i].valid \in BOOLEAN /\ DeviceTs \notin Metric[i].fields

VARIABLES
    accSent,     \* metrics accumulate was called for
    accCh,       \* accumulatorCh
    acc,         \* control state of the goroutine
    accN,        \* metrics it has still to take at this tick
    took,        \* the valid metrics it took at this tick
    lastPoint,   \* NoPoint, or the point metrics are merged into
    points,      \* the points before it
    ticks        \* what every finished tick took, and the points it wrote

accVars == <<accSent, accCh, acc, accN, took, lastPoint, points, ticks>>

NoPoint == [tags |-> {}, fields |-> <<>>]

-----------------------------------------------------------------------------
AccInit ==
    /\ accSent = {} /\ accCh = <<>>
    /\ acc = "ticker" /\ accN = 0 /\ took = {}
    /\ lastPoint = NoPoint /\ points = <<>>
    /\ ticks = <<>>

(* accumulate, called by the goroutine of its path for one leaf after another *)
accumulate(i) ==
    /\ i \notin accSent /\ Len(accCh) < AccCap
    /\ \A j \in Metrics : j < i /\ Metric[j].path = Metric[i].path => j \in accSent
    /\ accSent' = accSent \cup {i}
    /\ accCh' = Append(accCh, i)
    /\ UNCHANGED <<acc, accN, took, lastPoint, points, ticks>>

(* range ticker.C; n := len(accumulatorCh) *)
AccTick ==
    /\ acc = "ticker" /\ accCh # <<>>
    /\ accN' = Len(accCh)
    /\ acc' = "take"
    /\ UNCHANGED <<accSent, accCh, took, lastPoint, points, ticks>>

NewPoint(i) ==
    [tags |-> Metric[i].tags, fields |-> [f \in Metric[i].fields \cup {DeviceTs} |-> i]]

(* Mutant of CanMerge: fieldFound is not looked at. *)
CanMergeAnyField(i) == lastPoint # NoPoint /\ lastPoint.tags = Metric[i].tags

(* The tags are those of lastPoint and none of the fields is part of it. *)
CanMerge(i) ==
    /\ lastPoint # NoPoint
    /\ lastPoint.tags = Metric[i].tags
    /\ Metric[i].fields \cap DOMAIN lastPoint.fields = {}

(* "get the fields from last point for merging": those prevail, its time included. *)
Merged(i) ==
    [lastPoint EXCEPT !.fields =
        [f \in DOMAIN @ \cup Metric[i].fields |-> IF f \in DOMAIN @ THEN @[f] ELSE i]]

(* m := <-accumulatorCh: a metric the client finds invalid is skipped, the others
   are merged into lastPoint or start a new one. *)
AccTake ==
    LET i == Head(accCh)
    IN
    /\ acc = "take"
    /\ accCh' = Tail(accCh)
    /\ accN' = accN - 1
    /\ acc' = IF accN = 1 THEN "write" ELSE "take"
    /\ IF ~Metric[i].valid
       THEN UNCHANGED <<took, lastPoint, points>>
       ELSE /\ took' = took \cup {i}
            /\ lastPoint' = IF CanMerge(i) THEN Merged(i) ELSE NewPoint(i)
            /\ points' = IF CanMerge(i) \/ lastPoint = NoPoint
                         THEN points ELSE Append(points, lastPoint)
    /\ UNCHANGED <<accSent, ticks>>

(* After the loop lastPoint joins the others, if there are any (two points never
   have the same time, so it differs from the last of them); without any nothing
   is written.  A failed Write and a successful one look the same from here. *)
AccWrite ==
    /\ acc = "write"
    /\ ticks' = Append(ticks, [took |-> took,
                               wrote |-> IF points = <<>> THEN <<>> ELSE Append(points, lastPoint)])
    /\ acc' = "ticker"
    /\ took' = {} /\ lastPoint' = NoPoint /\ points' = <<>>
    /\ UNCHANGED <<accSent, accCh, accN>>

AccNext == AccTick \/ AccTake \/ AccWrite \/ \E i \in Metrics : accumulate(i)

AccSpec == AccInit /\ [][AccNext]_accVars

-----------------------------------------------------------------------------
(* No two metrics of the set would be kept apart: one point holds them all. *)
AllMerge(S) ==
    \A i, j \in S : /\ Metric[i].tags = Metric[j].tags
                    /\ i # j => Metric[i].fields \cap Metric[j].fields = {}

(* "so instead of losing the point we'd not merge" (influx.go:124-125): every field
   of every metric of a tick is in exactly one of the points the tick writes, with
   the metric's own tags, and no point holds anything else; except that a tick
   whose metrics all merge into one point, and only such a tick, writes nothing
   (line 174). *)
MergingKeepsFields ==
    \A k \in DOMAIN ticks :
        LET t == ticks[k]
            In(i, f, p) == f \in DOMAIN p.fields /\ p.fields[f] = i
        IN  \/ t.wrote = <<>> /\ AllMerge(t.took)
            \/ /\ ~AllMerge(t.took)
               /\ \A i \in t.took : \A f \in Metric[i].fields :
                     /\ Cardinality({n \in DOMAIN t.wrote : In(i, f, t.wrote[n])}) = 1
                     /\ \E n \in DOMAIN t.wrote :
                            In(i, f, t.wrote[n]) /\ t.wrote[n].tags = Metric[i].tags
               /\ \A n \in DOMAIN t.wrote : \A f \in DOMAIN t.wrote[n].fields :
                     t.wrote[n].fields[f] \in t.took

=============================================================================

------------------------------- MODULE Influx -------------------------------
(***************************************************************************)
(* The InfluxDB batch writer of one device (influx.go): the goroutines that  *)
(* turn a telemetry packet into points and send them on a channel, and the   *)
(* goroutine, woken by a ticker, that empties the channel and writes the     *)
(* points.  influxInit starts one of two writers: dbBatchWriteM, one series   *)
(* of writes per measurement, or dbBatchWrite, one write for everything.     *)
(* A packet is a number, in the order of arrival; its points are its number  *)
(* and their index.                                                          *)
(***************************************************************************)
EXTENDS Integers, Sequences, SequencesExt, FiniteSets

CONSTANTS
    Meas,        \* Meas[p]: the measurement packet p belongs to
    Size,        \* Size[p]: how many points addIDB makes of it
    BatchSize,   \* cfg.Influx.BatchSize
    MaxReloads,  \* bound: configuration changes of write-per-measurement
    All          \* the one series of dbBatchWrite

Packets == DOMAIN Size
Keys == {Meas[p] : p \in Packets} \cup {All}
Points(p) == [i \in 1 .. Size[p] |-> <<p, i>>]
AllPoints == UNION {Range(Points(p)) : p \in Packets}

ASSUME InfluxAssumption ==
    /\ Size \in Seq(Nat) /\ DOMAIN Meas = DOMAIN Size
    /\ BatchSize \in Nat \ {0} /\ MaxReloads \in Nat
    /\ \A p \in Packets : Meas[p] # All

VARIABLES
    noGoroutines,  \* --no-per-packet-goroutines
    perMeas,       \* influxInit chose dbBatchWriteM, which makes its own channel
    client,        \* influxClient is not nil
    started,       \* the first client of influxInit was made, too
    wpm,           \* jctx.config.Influx.WritePerMeasurement now
    reloads,
    prod,          \* prod[p]: the goroutine that handles packet p
    ch,            \* batchWMCh or batchWCh: packets
    w,             \* control state of the writer
    n,             \* packets it has still to take
    batch,         \* batch[k]: points taken and not written, in series k
    cur,           \* the series it is writing
    written,       \* points InfluxDB has, in the order of arrival
    failed         \* points of failed writes

opts == <<noGoroutines, perMeas, client, started>>
vars == <<opts, wpm, reloads, prod, ch, w, n, batch, cur, written, failed>>

(* "send": sending on the channel of the writer that runs.  "nil": sending on a
   channel that was never made.  "dropped": there is no client to send for. *)
ProdStates == {"off", "send", "nil", "done", "dropped"}

SeriesOf(p) == IF perMeas THEN Meas[p] ELSE All
Cap == IF perMeas THEN BatchSize \div 4 ELSE BatchSize

-----------------------------------------------------------------------------
(* influxInit calls getInfluxClient twice, and either call may fail to resolve the
   server or find none: a writer starts only if both succeed, its senders ask for
   the second client alone. *)
Init ==
    /\ noGoroutines \in BOOLEAN /\ client \in BOOLEAN /\ started \in BOOLEAN
    /\ perMeas \in BOOLEAN /\ wpm = perMeas
    /\ reloads = 0
    /\ prod = [p \in Packets |-> "off"]
    /\ ch = <<>>
    /\ w = "ticker" /\ n = 0
    /\ batch = [k \in Keys |-> <<>>]
    /\ cur = All
    /\ written = <<>> /\ failed = <<>>

(* SIGHUP with another write-per-measurement replaces jctx.config and neither
   starts nor ends a writer. *)
Reload ==
    /\ reloads < MaxReloads
    /\ reloads' = reloads + 1
    /\ wpm' = ~wpm
    /\ UNCHANGED <<opts, prod, ch, w, n, batch, cur, written, failed>>

(* addIDB (publishToInflux for gNMI) makes the points of a packet, in a goroutine
   of its own, which may overtake another, or in that of the receiver, and
   chooses the channel. *)
Packet(p) ==
    /\ prod[p] = "off"
    /\ noGoroutines => \A q \in 1 .. p - 1 : prod[q] \in {"done", "dropped"}
    /\ prod' = [prod EXCEPT ![p] = CASE ~client -> "dropped"
                                     [] client /\ Size[p] = 0 -> "done"
                                     [] client /\ Size[p] # 0 /\ started /\ wpm = perMeas -> "send"
                                     [] OTHER -> "nil"]
    /\ UNCHANGED <<opts, wpm, reloads, ch, w, n, batch, cur, written, failed>>

SendPoints(p) ==
    /\ prod[p] = "send" /\ Len(ch) < Cap
    /\ ch' = Append(ch, p)
    /\ prod' = [prod EXCEPT ![p] = "done"]
    /\ UNCHANGED <<opts, wpm, reloads, w, n, batch, cur, written, failed>>

-----------------------------------------------------------------------------
(* The writer *)

(* Mutant of Tick: one packet too few is counted. *)
TickOneLess ==
    /\ w = "ticker" /\ Len(ch) > 1
    /\ n' = Len(ch) - 1
    /\ w' = "take"
    /\ UNCHANGED <<opts, wpm, reloads, prod, ch, batch, cur, written, failed>>

(* Mutant of Tick: an empty channel is not skipped and the loop runs at least once. *)
TickAlways ==
    /\ w = "ticker"
    /\ n' = Len(ch)
    /\ w' = "take"
    /\ UNCHANGED <<opts, wpm, reloads, prod, ch, batch, cur, written, failed>>

(* range ticker.C; n := len(channel), and if n != 0 ... *)
Tick ==
    /\ w = "ticker" /\ Len(ch) # 0
    /\ n' = Len(ch)
    /\ w' = "take"
    /\ UNCHANGED <<opts, wpm, reloads, prod, ch, batch, cur, written, failed>>

(* Mutant of Take: m[d.measurement] = append(d, v). *)
TakePrepends ==
    /\ w = "take" /\ ch # <<>>
    /\ ch' = Tail(ch)
    /\ LET p == Head(ch)
       IN  batch' = [batch EXCEPT ![SeriesOf(p)] = Points(p) \o @]
    /\ n' = n - 1
    /\ w' = IF n = 1 THEN "range" ELSE "take"
    /\ UNCHANGED <<opts, wpm, reloads, prod, cur, written, failed>>

(* ... that many packets are received and grouped by measurement. *)
Take ==
    /\ w = "take" /\ ch # <<>>
    /\ ch' = Tail(ch)
    /\ LET p == Head(ch)
       IN  batch' = [batch EXCEPT ![SeriesOf(p)] = @ \o Points(p)]
    /\ n' = n - 1
    /\ w' = IF n = 1 THEN "range" ELSE "take"
    /\ UNCHANGED <<opts, wpm, reloads, prod, cur, written, failed>>

(* for measurement, data := range m, in any order *)
PickSeries ==
    /\ w = "range"
    /\ \E k \in Keys : batch[k] # <<>> /\ cur' = k
    /\ w' = "write"
    /\ UNCHANGED <<opts, wpm, reloads, prod, ch, n, batch, written, failed>>

(* dbBatchWriteM writes as soon as it has gathered batchSize points. *)
ChunkLength(pts) == IF perMeas /\ Len(pts) > BatchSize THEN BatchSize ELSE Len(pts)

(* Mutant of Write: the points left over after the full batches are forgotten. *)
WriteFullOnly ==
    /\ w = "write"
    /\ LET k     == ChunkLength(batch[cur])
           chunk == SubSeq(batch[cur], 1, k)
           left  == SubSeq(batch[cur], k + 1, Len(batch[cur]))
           keep  == IF perMeas /\ Len(left) < BatchSize THEN <<>> ELSE left
       IN  /\ batch' = [batch EXCEPT ![cur] = keep]
           /\ w' = IF keep = <<>> THEN "range" ELSE "write"
           /\ \/ written' = written \o chunk /\ UNCHANGED failed
              \/ failed' = failed \o chunk /\ UNCHANGED written
    /\ UNCHANGED <<opts, wpm, reloads, prod, ch, n, cur>>

(* Write(bp), which fails and loses the points, or does not; in dbBatchWriteM for
   every full batch and then for what is left. *)
Write ==
    /\ w = "write"
    /\ LET k     == ChunkLength(batch[cur])
           chunk == SubSeq(batch[cur], 1, k)
           left  == SubSeq(batch[cur], k + 1, Len(batch[cur]))
       IN  /\ batch' = [batch EXCEPT ![cur] = left]
           /\ w' = IF left = <<>> THEN "range" ELSE "write"
           /\ \/ written' = written \o chunk /\ UNCHANGED failed
              \/ failed' = failed \o chunk /\ UNCHANGED written
    /\ UNCHANGED <<opts, wpm, reloads, prod, ch, n, cur>>

RangeEnd ==
    /\ w = "range" /\ \A k \in Keys : batch[k] = <<>>
    /\ w' = "ticker"
    /\ UNCHANGED <<opts, wpm, reloads, prod, ch, n, batch, cur, written, failed>>

-----------------------------------------------------------------------------
Writer == Tick \/ Take \/ PickSeries \/ Write \/ RangeEnd

Next ==
    \/ Reload \/ Writer
    \/ \E p \in Packets : Packet(p) \/ SendPoints(p)

(* The ticker ticks, the writer and the senders run; SF because two senders may
   contend for the one free place in the channel, which Go gives out in order. *)
Spec == Init /\ [][Next]_vars
Fairness == WF_vars(Writer) /\ \A p \in Packets : SF_vars(SendPoints(p))
FairSpec == Spec /\ Fairness

-----------------------------------------------------------------------------
TypeOK ==
    /\ noGoroutines \in BOOLEAN /\ perMeas \in BOOLEAN /\ wpm \in BOOLEAN
    /\ client \in BOOLEAN /\ started \in BOOLEAN
    /\ reloads \in 0 .. MaxReloads
    /\ prod \in [Packets -> ProdStates]
    /\ ch \in Seq(Packets) /\ Len(ch) <= Cap
    /\ w \in {"ticker", "take", "range", "write"}
    /\ n \in 0 .. Cap
    /\ batch \in [Keys -> Seq(AllPoints)]
    /\ cur \in Keys
    /\ written \in Seq(AllPoints) /\ failed \in Seq(AllPoints)

Count(x, s) == Cardinality({i \in DOMAIN s : s[i] = x})

(* Every point of a packet that was sent is in exactly one place, once: in the
   channel, taken by the writer, in the database or in a failed write.  No number
   of packets, ticks and batch boundaries loses or doubles a point. *)
EveryPointOnce ==
    \A p \in Packets : \A x \in Range(Points(p)) :
        Count(p, ch) + Count(x, batch[SeriesOf(p)]) + Count(x, written) + Count(x, failed)
            = IF prod[p] = "done" THEN 1 ELSE 0

(* With --no-per-packet-goroutines the database receives the points of a
   measurement in the order the device sent them, across ticks and batches. *)
OrderIsKept ==
    noGoroutines =>
        \A i, j \in DOMAIN written :
            LET x == written[i]
                y == written[j]
            IN  i < j /\ SeriesOf(x[1]) = SeriesOf(y[1])
                    => x[1] < y[1] \/ (x[1] = y[1] /\ x[2] < y[2])

(* Whoever has points for InfluxDB is not blocked for ever, and its points are written
   or fail to be written; unless write-per-measurement was changed under the writer
   (influx.go:573) or only the second of the two clients of influxInit could be made
   (influx.go:657-663), when the sender may wait on a channel nobody has made. *)
SentIsSettled ==
    \A p \in Packets :
        prod[p] = "send" \/ (prod[p] = "nil" /\ started /\ reloads = 0)
            ~> Range(Points(p)) \subseteq Range(written) \cup Range(failed)

=============================================================================

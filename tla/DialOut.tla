------------------------------ MODULE DialOut ------------------------------
(***************************************************************************)
(* The dial-out server (dialout.go) and one device: the goroutine that      *)
(* consumes the device's configurations from the Kafka topic "gnmi-config"  *)
(* (consumePartition) and the gRPC handlers of the streams the device opens *)
(* (DialOutSubscriber).  They share s.devices and the rpcInfoT of the       *)
(* device, a buffered channel cfgChannel and a pointer config, without a    *)
(* lock.  The messages of the topic, one partition of it, are numbered in   *)
(* the order they were published.                                           *)
(***************************************************************************)
EXTENDS Integers, Sequences, FiniteSets, FiniteSetsExt

CONSTANTS
    Streams,     \* bound: streams the device ever opens, each once
    MaxOpen,     \* bound: handlers of the device running at the same time
    Kind,        \* Kind[n]: what the n-th message holds; bound: its length
    MaxReplays,  \* bound: times the consumer starts over
    ChanCap,     \* capacity of cfgChannel (512 in the code)
    Consumer,    \* the goroutine of consumePartition
    None         \* nil

Actors == Streams \cup {Consumer}
(* An actor creates at most one deviceInfoT and one rpcInfoT for each time it
   finds none; objects are numbered. *)
Objects == 1 .. 2 * Cardinality(Actors)
Slots == 0 .. 1
Messages == 1 .. Len(Kind)

ASSUME DialOutAssumption ==
    /\ IsFiniteSet(Streams) /\ Consumer \notin Streams
    /\ MaxOpen \in Nat /\ MaxReplays \in Nat /\ ChanCap \in Nat \ {0}
    /\ Kind \in Seq({"config", "ignored", "pathless"})
    /\ None \notin Objects

VARIABLES
    published,   \* number of messages in the topic
    pos,         \* how many of them the consumer has read
    replays,
    devices,     \* s.devices[cn]
    rpcs,        \* rpcs[d][i]: device.rpcs, its first two entries
    idSpace,     \* device.rpcIdSpace, as the set of its bits
    made,        \* number of objects created
    cfgChannel, config,  \* of every rpcInfoT; config 0 is nil
    pc,          \* control state of every actor
    dev, rpc,    \* the device and the rpc every actor holds
    cfg,         \* dialOutCfg of the consumer, cfgReq of a handler
    left,        \* messages a handler has still to drain
    raced,       \* handlers that read rpc.config before the consumer's store of it
    crashed

deviceVars == <<devices, rpcs, idSpace, made>>
topicVars  == <<published, pos, replays>>
rpcVars    == <<cfgChannel, config>>
actorVars  == <<pc, dev, rpc, cfg, left, raced>>
vars == <<topicVars, deviceVars, rpcVars, actorVars, crashed>>

(* "lookup" and "store" are createOrUpdateDeviceWithNewRpc, of either. *)
HandlerStates == {"off", "lookup", "store", "length", "config", "drain", "first", "select", "recv", "ended"}
ConsumerStates == {"range", "lookup", "store", "send", "set"}

Open == {s \in Streams : pc[s] \notin {"off", "ended"}}

-----------------------------------------------------------------------------
Init ==
    /\ published = 0 /\ pos = 0 /\ replays = 0
    /\ devices = None
    /\ rpcs = [d \in Objects |-> [i \in Slots |-> None]]
    /\ idSpace = [d \in Objects |-> {}]
    /\ made = 0
    /\ cfgChannel = [r \in Objects |-> <<>>]
    /\ config = [r \in Objects |-> 0]
    /\ pc = [a \in Actors |-> IF a = Consumer THEN "range" ELSE "off"]
    /\ dev = [a \in Actors |-> None]
    /\ rpc = [a \in Actors |-> None]
    /\ cfg = [a \in Actors |-> 0]
    /\ left = [a \in Actors |-> 0]
    /\ raced = {}
    /\ crashed = FALSE

Goto(a, to) == pc' = [pc EXCEPT ![a] = to]

(* getUnusedRpcId: DialOutSubscriber is always the first RPC. *)
getUnusedRpcId == 1

(* createOrUpdateDeviceWithNewRpc, up to the read of s.devices ... *)
Lookup(a) ==
    /\ pc[a] = "lookup"
    /\ dev' = [dev EXCEPT ![a] = devices]
    /\ Goto(a, "store")
    /\ UNCHANGED <<topicVars, deviceVars, rpcVars, rpc, cfg, left, raced, crashed>>

(* ... and the rest: the device and the rpc are created if they are missing, and
   the device is stored, over one that another actor has stored meanwhile. *)
Store(a) ==
    LET id   == getUnusedRpcId
        newD == dev[a] = None
        d    == IF newD THEN made + 1 ELSE dev[a]
        m    == IF newD THEN made + 1 ELSE made
        newR == rpcs[d][id - 1] = None
        r    == IF newR THEN m + 1 ELSE rpcs[d][id - 1]
    IN
    /\ pc[a] = "store" /\ d \in Objects /\ r \in Objects
    /\ made' = IF newR THEN m + 1 ELSE m
    /\ idSpace' = [idSpace EXCEPT ![d] = @ \cup {id - 1}]
    /\ rpcs' = [rpcs EXCEPT ![d][id - 1] = r]
    /\ devices' = d
    /\ dev' = [dev EXCEPT ![a] = d]
    /\ rpc' = [rpc EXCEPT ![a] = r]
    /\ Goto(a, IF a = Consumer THEN "send" ELSE "length")
    /\ UNCHANGED <<topicVars, rpcVars, cfg, left, raced, crashed>>

(* Nothing orders the accesses to the map s.devices: the runtime may find a store
   and another access at the same moment and end the program. *)
MapRace ==
    /\ \E a, b \in Actors :
           /\ a # b /\ pc[a] = "store"
           /\ pc[b] \in {"lookup", "store"} \/ (b = Consumer /\ pc[b] = "range" /\ pos < published)
    /\ crashed' = TRUE
    /\ UNCHANGED <<topicVars, deviceVars, rpcVars, actorVars>>

(* Mutant of removeRpcFromDevice: rpcId - 1, the place the rpc was stored at. *)
removeRpcFromItsSlot(a) ==
    LET id == getUnusedRpcId
        d  == CHOOSE x \in Objects : rpcs[x][id - 1] = rpc[a]
    IN  /\ idSpace' = [idSpace EXCEPT ![d] = @ \ {id - 1}]
        /\ rpcs' = [rpcs EXCEPT ![d][id - 1] = None]

(* removeRpcFromDevice: the rpc's id is one more than its place in the array and
   its bit. *)
removeRpcFromDevice(a) ==
    LET id == getUnusedRpcId
        d  == CHOOSE x \in Objects : rpcs[x][id - 1] = rpc[a]
    IN  /\ idSpace' = [idSpace EXCEPT ![d] = @ \ {id}]
        /\ rpcs' = [rpcs EXCEPT ![d][id] = None]

-----------------------------------------------------------------------------
(* The topic and its consumer *)

(* A JTIMON started with --dial-out publishes a configuration. *)
Publish ==
    /\ published < Len(Kind)
    /\ published' = published + 1
    /\ UNCHANGED <<pos, replays, deviceVars, rpcVars, actorVars, crashed>>

(* for msg := range partitionConsumer.Messages(): the old JSON encoding and other
   RPCs are ignored, a message without paths is indexed out of range; for a
   configuration the device's rpc is found or made. *)
Consume ==
    /\ pc[Consumer] = "range" /\ pos < published
    /\ pos' = pos + 1
    /\ crashed' = (Kind[pos + 1] = "pathless")
    /\ IF Kind[pos + 1] = "config"
       THEN /\ cfg' = [cfg EXCEPT ![Consumer] = pos + 1]
            /\ dev' = [dev EXCEPT ![Consumer] = devices]
            /\ IF devices = None \/ rpcs[devices][getUnusedRpcId - 1] = None
               THEN Goto(Consumer, "lookup") /\ UNCHANGED rpc
               ELSE /\ Goto(Consumer, "send")
                    /\ rpc' = [rpc EXCEPT ![Consumer] = rpcs[devices][getUnusedRpcId - 1]]
       ELSE UNCHANGED <<pc, dev, rpc, cfg>>
    /\ UNCHANGED <<published, replays, deviceVars, rpcVars, left, raced>>

(* rpc.cfgChannel <- &dialOutCfg, then rpc.config = &dialOutCfg *)
SendConfig ==
    /\ pc[Consumer] = "send" /\ Len(cfgChannel[rpc[Consumer]]) < ChanCap
    /\ cfgChannel' = [cfgChannel EXCEPT ![rpc[Consumer]] = Append(@, cfg[Consumer])]
    /\ Goto(Consumer, "set")
    /\ UNCHANGED <<topicVars, deviceVars, config, dev, rpc, cfg, left, raced, crashed>>

(* Mutant of SetConfig: only the first configuration is kept. *)
SetConfigOnce ==
    /\ pc[Consumer] = "set"
    /\ config' = [config EXCEPT ![rpc[Consumer]] = IF @ = 0 THEN cfg[Consumer] ELSE @]
    /\ Goto(Consumer, "range")
    /\ UNCHANGED <<topicVars, deviceVars, cfgChannel, dev, rpc, cfg, left, raced, crashed>>

SetConfig ==
    /\ pc[Consumer] = "set"
    /\ config' = [config EXCEPT ![rpc[Consumer]] = cfg[Consumer]]
    /\ Goto(Consumer, "range")
    /\ UNCHANGED <<topicVars, deviceVars, cfgChannel, dev, rpc, cfg, left, raced, crashed>>

(* The partition consumer ends and populateAllConfig starts it again at the
   oldest offset. *)
Replay ==
    /\ pc[Consumer] = "range" /\ replays < MaxReplays /\ pos > 0
    /\ replays' = replays + 1
    /\ pos' = 0
    /\ UNCHANGED <<published, deviceVars, rpcVars, actorVars, crashed>>

-----------------------------------------------------------------------------
(* DialOutSubscriber, the handler of stream s *)

(* The device dials. *)
Dial(s) ==
    /\ pc[s] = "off" /\ Cardinality(Open) < MaxOpen
    /\ Goto(s, "lookup")
    /\ UNCHANGED <<topicVars, deviceVars, rpcVars, dev, rpc, cfg, left, raced, crashed>>

(* Mutant of ReadLength: length - 1 in an unsigned type, or without the loop's test. *)
ReadLengthMinusOne(s) ==
    LET n == Len(cfgChannel[rpc[s]])
    IN
    /\ pc[s] = "length"
    /\ left' = [left EXCEPT ![s] = n - 1]
    /\ Goto(s, IF n = 0 THEN "config" ELSE "drain")
    /\ UNCHANGED <<topicVars, deviceVars, rpcVars, dev, rpc, cfg, raced, crashed>>

(* Mutant of ReadLength: rpc.config is preferred to what waits in the channel. *)
ReadLengthSkipsChannel(s) ==
    /\ pc[s] = "length"
    /\ Goto(s, "config")
    /\ UNCHANGED <<topicVars, deviceVars, rpcVars, dev, rpc, cfg, left, raced, crashed>>

(* length := len(rpc.cfgChannel): all but the last message are to be drained ... *)
ReadLength(s) ==
    LET n == Len(cfgChannel[rpc[s]])
    IN
    /\ pc[s] = "length"
    /\ left' = [left EXCEPT ![s] = Max({n - 1, 0})]
    /\ Goto(s, IF n = 0 THEN "config" ELSE "drain")
    /\ UNCHANGED <<topicVars, deviceVars, rpcVars, dev, rpc, cfg, raced, crashed>>

(* ... and if there is none, rpc.config is "the latest config", or it waits. *)
ReadConfig(s) ==
    /\ pc[s] = "config"
    /\ IF config[rpc[s]] # 0
       THEN /\ cfg' = [cfg EXCEPT ![s] = config[rpc[s]]]
            /\ raced' = IF pc[Consumer] = "set" /\ rpc[Consumer] = rpc[s] THEN raced \cup {s} ELSE raced
            /\ Goto(s, "first")
       ELSE Goto(s, "drain") /\ UNCHANGED <<cfg, raced>>
    /\ UNCHANGED <<topicVars, deviceVars, rpcVars, dev, rpc, left, crashed>>

(* <-rpc.cfgChannel, the older ones dropped, the last one kept *)
Drain(s) ==
    /\ pc[s] = "drain" /\ cfgChannel[rpc[s]] # <<>>
    /\ cfgChannel' = [cfgChannel EXCEPT ![rpc[s]] = Tail(@)]
    /\ IF left[s] > 0
       THEN left' = [left EXCEPT ![s] = @ - 1] /\ UNCHANGED <<pc, cfg>>
       ELSE /\ cfg' = [cfg EXCEPT ![s] = Head(cfgChannel[rpc[s]])]
            /\ Goto(s, "first")
            /\ UNCHANGED left
    /\ UNCHANGED <<topicVars, deviceVars, config, dev, rpc, raced, crashed>>

(* The first Recv, after which a device that expects it is subscribed with
   cfgReq; the stream may end instead. *)
FirstRecv(s) ==
    /\ pc[s] = "first"
    /\ \E to \in {"select", "ended"} : Goto(s, to)
    /\ UNCHANGED <<topicVars, deviceVars, rpcVars, dev, rpc, cfg, left, raced, crashed>>

(* "The config has changed, finish the RPC gracefully so that the client can
   dial back" *)
ConfigChanged(s) ==
    /\ pc[s] = "select" /\ cfgChannel[rpc[s]] # <<>>
    /\ cfg' = [cfg EXCEPT ![s] = Head(cfgChannel[rpc[s]])]
    /\ cfgChannel' = [cfgChannel EXCEPT ![rpc[s]] = Tail(@)]
    /\ removeRpcFromDevice(s)
    /\ Goto(s, "ended")
    /\ UNCHANGED <<topicVars, devices, made, config, dev, rpc, left, raced, crashed>>

(* default: stream.Recv, which waits for the device *)
Receive(s) ==
    /\ pc[s] = "select" /\ cfgChannel[rpc[s]] = <<>>
    /\ Goto(s, "recv")
    /\ UNCHANGED <<topicVars, deviceVars, rpcVars, dev, rpc, cfg, left, raced, crashed>>

(* A response, passed on to Kafka, or the end of the stream. *)
Response(s) ==
    /\ pc[s] = "recv"
    /\ \E to \in {"select", "ended"} : Goto(s, to)
    /\ UNCHANGED <<topicVars, deviceVars, rpcVars, dev, rpc, cfg, left, raced, crashed>>

-----------------------------------------------------------------------------
ConsumerStep == Consume \/ SendConfig \/ SetConfig \/ Lookup(Consumer) \/ Store(Consumer)
HandlerStep(s) ==
    Lookup(s) \/ Store(s) \/ ReadLength(s) \/ ReadConfig(s) \/ Drain(s) \/ ConfigChanged(s) \/ Receive(s)

Next ==
    /\ ~crashed
    /\ \/ Publish \/ Replay \/ ConsumerStep \/ MapRace
       \/ \E s \in Streams : Dial(s) \/ HandlerStep(s) \/ FirstRecv(s) \/ Response(s)

(* Go schedules the consumer and the handlers; when a device dials, answers or
   hangs up is up to the environment. *)
Spec == Init /\ [][Next]_vars
FairSpec ==
    /\ Spec
    /\ WF_vars(~crashed /\ ConsumerStep)
    /\ \A s \in Streams : WF_vars(~crashed /\ HandlerStep(s))

-----------------------------------------------------------------------------
TypeOK ==
    /\ published \in 0 .. Len(Kind) /\ pos \in 0 .. published /\ replays \in 0 .. MaxReplays
    /\ devices \in Objects \cup {None} /\ made \in {0} \cup Objects
    /\ rpcs \in [Objects -> [Slots -> Objects \cup {None}]]
    /\ idSpace \in [Objects -> SUBSET Slots]
    /\ cfgChannel \in [Objects -> Seq(Messages)]
    /\ \A r \in Objects : Len(cfgChannel[r]) <= ChanCap
    /\ config \in [Objects -> {0} \cup Messages]
    /\ pc \in [Actors -> HandlerStates \cup ConsumerStates]
    /\ dev \in [Actors -> Objects \cup {None}] /\ rpc \in [Actors -> Objects \cup {None}]
    /\ cfg \in [Actors -> {0} \cup Messages]
    /\ left \in [Actors -> 0 .. ChanCap]
    /\ raced \subseteq Streams
    /\ crashed \in BOOLEAN

(* The last configuration among the first n messages *)
Latest(n) == Max({0} \cup {k \in 1 .. n : Kind[k] = "config"})

(* The consumer has read the whole topic and the running stream s has seen all it
   was sent. *)
Settled(s) ==
    /\ pc[s] \in {"select", "recv"} /\ cfgChannel[rpc[s]] = <<>>
    /\ pc[Consumer] = "range" /\ pos = published /\ ~crashed

(* When nothing is left to do, a stream runs with the latest configuration, or with
   the one before it if it read rpc.config in the window between the consumer's
   send on cfgChannel and its store of rpc.config; dropping, replaying and
   draining messages never leave a stream further behind.  One stream of the
   device at a time (MaxOpen = 1). *)
StreamLagsByTheRaceOnly ==
    \A s \in Streams : Settled(s) =>
        \/ cfg[s] = Latest(pos)
        \/ s \in raced /\ cfg[s] = Latest(Latest(pos) - 1)

(* "The config has changed, finish the RPC gracefully so that the client can dial
   back", to be given the latest configuration: when nothing is left to do a
   stream runs with it. *)
StreamRunsLatestConfig ==
    \A s \in Streams : Settled(s) => cfg[s] = Latest(pos)

(* A device that dials when the consumer has stored a configuration for it, as one
   that was sent away to dial back does, finds a configuration and is not left
   waiting for the next (dialout.go:153-181, 213-233), also when its first dial and
   its first configuration each made a deviceInfoT.  It rests on the rpc outliving
   removeRpcFromDevice, and the consumer may not be in between its send and its
   store of a configuration: then the device may wait. *)
DialBackIsServed ==
    \A s \in Streams :
        (pc[s] = "lookup" /\ pc[Consumer] # "set" /\ \E r \in Objects : config[r] # 0)
            ~> (pc[s] \in {"first", "select", "recv", "ended"} \/ crashed)

(* A consumer that waits for room in cfgChannel (dialout.go:382), and every device of its
   partition with it, goes on once a handler of the channel's device starts or looks
   at its select; a device that never dials or answers may block it for ever. *)
FullChannelIsDrained ==
    (pc[Consumer] = "send" /\ \E s \in Streams : rpc[s] = rpc[Consumer] /\ pc[s] \in {"length", "select"})
        ~> (pc[Consumer] # "send" \/ crashed)

=============================================================================

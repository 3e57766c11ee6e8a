------------------------------- MODULE JtiSim -------------------------------
(***************************************************************************)
(* The device simulator (jtisim/): one subscription over the OpenConfig RPC   *)
(* or over gNMI.  Every subscribed sensor gets a goroutine; the goroutines    *)
(* offer their packets on one unbuffered channel, from which the handler      *)
(* sends.  An interface sensor goes round its interfaces ("one wrap"), one     *)
(* packet for a physical interface and one for each of its logical units.     *)
(* A leaf is the sequence of the elements of its path.                        *)
(***************************************************************************)
EXTENDS Integers, Sequences, FiniteSets, Maps

CONSTANTS
    SimCases,     \* [desc, req, random]: interfaces.json [ok, fpc, pic, port, logical, num]
                  \* with num the four counters' ranges, a request [rpc, ok, subs] with subs a sequence of [sensor, freq], -random
    U32, U64,     \* 2^32 and 2^64 in the code
    MaxSimPkts    \* bound: packets sent

ASSUME JtiSimAssumption ==
    /\ MaxSimPkts \in Nat /\ U32 \in Nat \ {0} /\ U64 \in Nat \ {0}
    /\ \A c \in SimCases :
           /\ {c.desc.fpc, c.desc.pic, c.desc.port, c.desc.logical} \subseteq Nat
           /\ c.req.subs \in Seq({c.req.subs[i] : i \in DOMAIN c.req.subs})

VARIABLES
    simDesc, simReq, simRandom,   \* the simulator's description, the request, -random
    simUp,        \* FALSE after log.Fatalf or a panic
    simPc,        \* where the RPC's handler is
    simGo,        \* simGo[i]: the goroutine of the i-th subscription
    simGot        \* what the client got

simVars == <<simDesc, simReq, simRandom, simUp, simPc, simGo, simGot>>

Subs == DOMAIN simReq.subs

-----------------------------------------------------------------------------
(* for i < fpc, j < pic, k < port: the interface at index n *)
generateIList(desc) ==
    [n \in 0 .. desc.fpc * desc.pic * desc.port - 1 |->
        <<n \div (desc.pic * desc.port), (n \div desc.port) % desc.pic, n % desc.port>>]

(* Packets of one wrap *)
WrapLen == simDesc.fpc * simDesc.pic * simDesc.port * (1 + simDesc.logical)

(* The interface at place k of the wrap, and its unit, -1 for the interface itself *)
IfdAt(k) == generateIList(simDesc)[k \div (1 + simDesc.logical)]
UnitAt(k) == (k % (1 + simDesc.logical)) - 1

(* What getRandom may return; Int31n panics without room. *)
getRandom(c) == IF simRandom THEN 0 .. simDesc.num[c] - 1 ELSE {100}

OcIncrement(r, freq) == (r * (freq \div 1000)) % U32
GnmiIncrement(r, freq) == (r * freq * 1000) % U64

Increment(r, i) ==
    LET freq == simReq.subs[i].freq
    IN  IF simReq.rpc = "oc" THEN OcIncrement(r, freq) ELSE GnmiIncrement(r, freq)

-----------------------------------------------------------------------------
(* The leaves of a packet, all of which but a few have the in-octets of the interface
   for their value *)
Counters(S) == {<<"state", "counters", x>> : x \in S}
State(p, S) == {p \o <<"state", x>> : x \in S}
InterfaceRef(p, ref) == {p \o <<"unnumbered", ref, "state", x>> : x \in {"interface", "subinterface"}}
Unnumbered(p) == InterfaceRef(p, "interface-ref") \cup State(p \o <<"unnumbered">>, {"enabled"})

OcIfdLeaves ==
    {<<"init_time">>}
        \cup Counters({"in-octets", "carrier-transitions", "last-clear", "out-octets", "out-pkts",
                       "out-unicast-pkts"})
        \cup State(<<>>, {"description", "enabled", "high-speed", "ifindex", "last-change", "mtu",
                          "name", "parent_ae_name", "type"})

GnmiIfdCounters ==
    {<<"init-time">>}
        \cup Counters({"in-octets", "carrier-transitions", "last-clear", "out-octets", "out-pkts",
                       "out-unicast-pkts"})

GnmiIfdState ==
    State(<<>>, {"description", "enabled", "high-speed", "ifindex", "last-change", "mtu", "name",
                 "parent_ae_name", "type"})

NeighborState ==
    {"expiry", "host-name", "interface-name", "ip", "is-publish", "link-layer-address",
     "logical-router-id", "neighbor-state", "origin", "table-id"}

OcIpLeaves ==
    LET address(f) == <<f, "addresses", "address">>
        neighbor == <<"ipv4", "neighbors", "neighbor">>
    IN  {neighbor \o <<"@ip">>, address("ipv6") \o <<"@ip">>}
        \cup UNION {State(address(f), {"ip", "origin", "prefix-length"})
                      \cup State(address(f) \o <<f>>, {"mtu"}) \cup Unnumbered(address(f) \o <<f>>)
                      \cup State(<<f>>, {"enabled", "mtu"}) \cup Unnumbered(<<f>>)
                    : f \in {"ipv4", "ipv6"}}
        \cup State(address("ipv6"), {"status"}) \cup State(address("ipv6") \o <<"ipv6">>, {"enabled"})
        \cup State(neighbor \o <<"ipv4">>, {"enabled", "mtu"}) \cup Unnumbered(neighbor \o <<"ipv4">>)
        \cup State(neighbor, NeighborState)

OcIflState ==
    Counters({"in-octets", "in-pkts", "out-octets", "out-pkts"})
        \cup State(<<>>, {"description", "enabled", "ifindex", "index", "last-change"})

GnmiIpv4Addresses ==
    LET address == <<"ipv4", "addresses", "address">>
    IN  State(address \o <<"ipv4">>, {"mtu"}) \cup Unnumbered(address \o <<"ipv4">>)
        \cup State(address, {"ip", "origin", "prefix-length"})

GnmiIpv4Neighbors ==
    LET neighbor == <<"ipv4", "neighbors", "neighbor">>
    IN  {neighbor \o <<"@ip">>} \cup State(neighbor \o <<"ipv4">>, {"enabled", "mtu"})
        \cup InterfaceRef(neighbor \o <<"ipv4">>, "interface-ref")

GnmiNeighborState == State(<<"ipv4", "neighbors", "neighbor">>, NeighborState)

GnmiIpv4State == State(<<"ipv4">>, {"enabled", "mtu"}) \cup Unnumbered(<<"ipv4">>)

GnmiIpv6Addresses ==
    LET address == <<"ipv6", "addresses", "address">>
        mistyped == <<"ipv6", "addressesses", "address">>
    IN  {mistyped \o <<"@ip">>} \cup State(mistyped \o <<"ipv6">>, {"enabled", "mtu"})
        \cup Unnumbered(address \o <<"ipv6">>)
        \cup State(address, {"ip", "origin", "prefix-length", "status"})

GnmiIpv6State ==
    State(<<"ipv6">>, {"enabled", "mtu"})
        \cup InterfaceRef(<<"ipv6">>, "interface-red") \cup State(<<"ipv6", "unnumbered">>, {"enabled"})

GnmiIflState ==
    Counters({"in-octets", "in-pkts", "out-octets", "out-pkts"})
        \cup State(<<>>, {"description", "enabled", "ifindex", "index", "last-change"})

IfdLeaves ==
    IF simReq.rpc = "oc" THEN OcIfdLeaves ELSE GnmiIfdCounters \cup GnmiIfdState

IflLeaves ==
    IF simReq.rpc = "oc" THEN OcIpLeaves \cup OcIflState
    ELSE GnmiIpv4Addresses \cup GnmiIpv4Neighbors \cup GnmiNeighborState \cup GnmiIpv4State
            \cup GnmiIpv6Addresses \cup GnmiIpv6State \cup GnmiIflState

(* The leaves with values of their own *)
IfdOwn(n, inp) ==
    [l \in {<<"name">>, <<"state", "oper-status">>, <<"state", "admin-status">>,
            <<"state", "counters", "in-pkts">>} |->
        CASE l = <<"name">> -> n
          [] l = <<"state", "oper-status">> -> "UP"
          [] l = <<"state", "admin-status">> -> "DOWN"
          [] OTHER -> inp]

IflOwn(n, u, inup, inmp) ==
    [l \in {<<"index">>, <<"state", "name">>, <<"state", "oper-status">>, <<"state", "admin-status">>,
            <<"state", "counters", "in-unicast-pkts">>, <<"state", "counters", "in-multicast-pkts">>} |->
        CASE l = <<"index">> -> u
          [] l = <<"state", "name">> -> <<n, u>>
          [] l = <<"state", "oper-status">> -> "UP"
          [] l = <<"state", "admin-status">> -> "DOWN"
          [] l = <<"state", "counters", "in-unicast-pkts">> -> inup
          [] OTHER -> inmp]

-----------------------------------------------------------------------------
Packet(i, seq, n, u, kv) == [sub |-> i, seq |-> seq, ifd |-> n, unit |-> u, kv |-> kv]
SyncResponse == Packet(0, 0, <<>>, -1, <<>>)

Idle == [st |-> "off", k |-> 0, seq |-> 0, hdr |-> 0, ctr |-> <<>>, msg |-> SyncResponse]

SimInit ==
    /\ \E c \in SimCases : simDesc = c.desc /\ simReq = c.req /\ simRandom = c.random
    /\ simUp = TRUE
    /\ simPc = "recv"
    /\ simGo = [i \in Subs |-> Idle]
    /\ simGot = <<>>

simRequest == <<simDesc, simReq, simRandom>>

(* TelemetrySubscribe and Subscribe; the latter ends the simulator for a request it
   does not like and sends the sync response before anything else. *)
SimSubscribe ==
    /\ simUp /\ simPc = "recv"
    /\ simPc' = "spawn"
    /\ simUp' = (simReq.rpc = "oc" \/ simReq.ok)
    /\ simGot' = IF simReq.rpc = "gnmi" /\ simReq.ok THEN <<SyncResponse>> ELSE <<>>
    /\ UNCHANGED <<simRequest, simGo>>

Supported == IF simReq.rpc = "oc" THEN {"/interfaces", "/bgp", "/lldp"} ELSE {"/interfaces"}

(* go s.stream...(ch, path) for the next subscription; an unknown sensor is fatal. *)
SimSpawn ==
    LET waiting == {i \in Subs : simGo[i].st = "off"}
    IN
    /\ simUp /\ simPc = "spawn"
    /\ \/ waiting = {} /\ simPc' = "serve" /\ UNCHANGED <<simUp, simGo>>
       \/ \E i \in waiting :
             /\ \A x \in waiting : i <= x
             /\ simUp' = (simReq.subs[i].sensor \in Supported)
             /\ simGo' = [simGo EXCEPT ![i].st = "start"]
             /\ UNCHANGED simPc
    /\ UNCHANGED <<simRequest, simGot>>

(* parseInterfacesJSON ends the simulator without a good description; generateIList
   starts all counters at 0. *)
SimStart(i) ==
    /\ simUp /\ simGo[i].st = "start"
    /\ simUp' = (simDesc.ok \/ simReq.subs[i].sensor # "/interfaces")
    /\ simGo' = [simGo EXCEPT ![i].st = "run", ![i].ctr = [k \in 0 .. WrapLen - 1 |-> <<0, 0>>]]
    /\ UNCHANGED <<simRequest, simPc, simGot>>

OnInterfaces(i) == simUp /\ simGo[i].st = "run" /\ simReq.subs[i].sensor = "/interfaces"

(* Int31n(num) panics when num is not positive. *)
SimPanic(i) ==
    /\ OnInterfaces(i) /\ simGo[i].k < WrapLen
    /\ \E c \in IF UnitAt(simGo[i].k) = -1 THEN {1, 2} ELSE {3, 4} : getRandom(c) = {}
    /\ simUp' = FALSE
    /\ UNCHANGED <<simRequest, simPc, simGo, simGot>>

(* The physical interface: its counters advance, seq++, ch <- packet; over gNMI the
   header for the packets of its units is made next. *)
SimIfd(i) ==
    LET g == simGo[i]
        n == IfdAt(g.k)
    IN
    /\ OnInterfaces(i) /\ g.k < WrapLen /\ UnitAt(g.k) = -1
    /\ \E r1 \in getRandom(1), r2 \in getRandom(2) :
          LET inp == (g.ctr[g.k][1] + Increment(r1, i)) % U64
              ino == (g.ctr[g.k][2] + Increment(r2, i)) % U64
              kv == MapMerge(IfdOwn(n, inp), [l \in IfdLeaves |-> ino])
          IN  simGo' = [simGo EXCEPT ![i] =
                  [g EXCEPT !.st = "send", !.k = @ + 1, !.seq = @ + 1, !.hdr = g.seq + 1,
                            !.ctr[g.k] = <<inp, ino>>, !.msg = Packet(i, g.seq, n, -1, kv)]]
    /\ UNCHANGED <<simRequest, simUp, simPc, simGot>>

(* Mutant of IflSeq: the OpenConfig packets of the units share one number, too. *)
IflSeqShared(g) == g.hdr

(* The number in the packet of a unit: over gNMI that of the header made before the
   loop over the units. *)
IflSeq(g) == IF simReq.rpc = "oc" THEN g.seq ELSE g.hdr

(* One logical unit: "ino" is still that of the interface. *)
SimIfl(i) ==
    LET g == simGo[i]
        n == IfdAt(g.k)
        u == UnitAt(g.k)
        ino == g.ctr[g.k - u - 1][2]
    IN
    /\ OnInterfaces(i) /\ g.k < WrapLen /\ u >= 0
    /\ \E r1 \in getRandom(3), r2 \in getRandom(4) :
          LET inup == (g.ctr[g.k][1] + Increment(r1, i)) % U64
              inmp == (g.ctr[g.k][2] + Increment(r2, i)) % U64
              kv == MapMerge(IflOwn(n, u, inup, inmp), [l \in IflLeaves |-> ino])
          IN  simGo' = [simGo EXCEPT ![i] =
                  [g EXCEPT !.st = "send", !.k = @ + 1, !.seq = @ + 1,
                            !.ctr[g.k] = <<inup, inmp>>, !.msg = Packet(i, IflSeq(g), n, u, kv)]]
    /\ UNCHANGED <<simRequest, simUp, simPc, simGot>>

(* "finish one wrap": sleep, and from the first interface again *)
SimWrapEnds(i) ==
    /\ OnInterfaces(i) /\ simGo[i].k = WrapLen
    /\ simGo' = [simGo EXCEPT ![i].k = 0]
    /\ UNCHANGED <<simRequest, simUp, simPc, simGot>>

SmallKv(i) == MapOf(<<"state", "foo">>, IF simReq.subs[i].sensor = "/bgp" THEN 1111 ELSE 2222)

(* streamBGP and streamLLDP: one packet, a sleep, seq++ *)
SimSmall(i) ==
    /\ simUp /\ simGo[i].st = "run" /\ simReq.subs[i].sensor \in {"/bgp", "/lldp"}
    /\ simGo' = [simGo EXCEPT ![i].st = "send",
                              ![i].msg = Packet(i, simGo[i].seq, <<>>, -1, SmallKv(i))]
    /\ UNCHANGED <<simRequest, simUp, simPc, simGot>>

SimSleep(i) ==
    /\ simUp /\ simGo[i].st = "sleep"
    /\ simGo' = [simGo EXCEPT ![i].st = "run", ![i].seq = @ + 1]
    /\ UNCHANGED <<simRequest, simUp, simPc, simGot>>

(* data := <-ch and stream.Send, which may fail and end the handler *)
SimSend(i) ==
    /\ simUp /\ simPc = "serve" /\ simGo[i].st = "send"
    /\ simGo' = [simGo EXCEPT ![i].st = IF simReq.subs[i].sensor = "/interfaces" THEN "run" ELSE "sleep"]
    /\ \/ /\ Len(simGot) < MaxSimPkts
          /\ simGot' = Append(simGot, simGo[i].msg)
          /\ UNCHANGED simPc
       \/ simPc' = "returned" /\ UNCHANGED simGot
    /\ UNCHANGED <<simRequest, simUp>>

(* <-stream.Context().Done(); the goroutines stay, with nobody to take what they offer. *)
SimDone ==
    /\ simUp /\ simPc = "serve"
    /\ simPc' = "returned"
    /\ UNCHANGED <<simRequest, simUp, simGo, simGot>>

SimNext ==
    \/ SimSubscribe \/ SimSpawn \/ SimDone
    \/ \E i \in Subs : \/ SimStart(i) \/ SimPanic(i) \/ SimIfd(i) \/ SimIfl(i) \/ SimWrapEnds(i)
                       \/ SimSmall(i) \/ SimSleep(i) \/ SimSend(i)

SimSpec == SimInit /\ [][SimNext]_simVars

-----------------------------------------------------------------------------
(* Packets of its sensor the client got before the j-th packet *)
Earlier(j) == Cardinality({x \in 1 .. j - 1 : simGot[x].sub = simGot[j].sub})

InOctets(m) == m.kv[<<"state", "counters", "in-octets">>]

IsUnit(m) ==
    /\ m.ifd \in (0 .. simDesc.fpc - 1) \X (0 .. simDesc.pic - 1) \X (0 .. simDesc.port - 1)
    /\ m.unit \in -1 .. simDesc.logical - 1

(* The turn of a unit: all interfaces before its own, the interface, its units *)
Turn(m) ==
    ((m.ifd[1] * simDesc.pic + m.ifd[2]) * simDesc.port + m.ifd[3]) * (1 + simDesc.logical) + m.unit + 1

(* However the sensors of a subscription take turns on the channel, what the client gets
   of one of them is in order: every packet is of the interface or unit whose turn it
   is, so that as many as a wrap has name each of them once; it is numbered by
   its place in the stream, except over gNMI a unit's, which all have the number after
   their interface's (jtisim/interfaces.go:602); and a unit's packet follows that of
   its interface and repeats its in-octets. *)
SensorsAreInOrder ==
    \A j \in DOMAIN simGot : simGot[j].sub # 0 =>
        LET m == simGot[j]
            n == Earlier(j)
        IN  /\ m.seq = IF simReq.rpc = "oc" \/ m.unit = -1 THEN n ELSE n - m.unit
            /\ simReq.subs[m.sub].sensor = "/interfaces" =>
                  /\ IsUnit(m) /\ Turn(m) = n % WrapLen
                  /\ m.unit >= 0 => \E x \in 1 .. j - 1 :
                        /\ simGot[x].sub = m.sub /\ Earlier(x) = n - m.unit - 1
                        /\ simGot[x].ifd = m.ifd /\ simGot[x].unit = -1
                        /\ InOctets(simGot[x]) = InOctets(m)

=============================================================================

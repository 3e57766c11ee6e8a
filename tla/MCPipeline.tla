----------------------------- MODULE MCPipeline -----------------------------
(***************************************************************************)
(* The stages around the subscriptions, each on its own instance: a behaviour  *)
(* chooses one of them, part, and leaves the others where they start.          *)
(***************************************************************************)
EXTENDS PromExporter, Rows, GnmiPaths, GnmiParse, IosXr, Logs, KafkaConsumer, KafkaPublisher, JtiSim

VARIABLE part

-----------------------------------------------------------------------------
(* Prometheus: three gNMI packets of one interface, two with a number and a string, one
   with the number alone, and two OpenConfig packets with the same number, one with a
   list and another leaf *)
MCKey(d) == "if" :> d
MCLeaf(n, keys, t, k, v) == [name |-> n, keys |-> keys, tag |-> t, kind |-> k, val |-> v]
MCGnmiPacket(v) ==
    [gnmi |-> TRUE, keys |-> MCKey("a"),
     leaves |-> <<MCLeaf("in", <<>>, "t", "num", v), MCLeaf("oper", <<>>, "op", "str", "up")>>]
MCPromPacket ==
    <<MCGnmiPacket(1), MCGnmiPacket(2),
      [gnmi |-> TRUE, keys |-> MCKey("a"), leaves |-> <<MCLeaf("in", <<>>, "t", "num", 5)>>],
      [gnmi |-> FALSE, keys |-> <<>>,
       leaves |-> <<MCLeaf("in", MCKey("a"), "t", "num", 3), MCLeaf("l", MCKey("b"), "t", "list", "q"),
                    MCLeaf("x", MCKey("b"), "x", "other", 0)>>],
      [gnmi |-> FALSE, keys |-> <<>>, leaves |-> <<MCLeaf("in", MCKey("a"), "t", "num", 4)>>]>>

(* Rows: packets of up to four key-values, among them prefixes of two interfaces, keys
   inside a leaf, absolute paths, and values InfluxDB does not take *)
MCElem(n) == [name |-> n, keys |-> <<>>]
MCKeyed(n, k, v) == [name |-> n, keys |-> k :> v]
MCIf(v) == <<MCElem("ifs"), MCKeyed("if", "@name", v)>>
MCKv(key, abs, path, v) == [key |-> key, abs |-> abs, path |-> path, value |-> v]
MCKvs ==
    {MCKv("prefix", TRUE, MCIf("ge0"), "str"), MCKv("prefix", TRUE, MCIf("ge1"), "str"),
     MCKv("meta", FALSE, <<>>, "uint"),
     MCKv("leaf", FALSE, <<MCElem("in")>>, "uint"), MCKv("leaf", FALSE, <<MCElem("in")>>, "nan"),
     MCKv("leaf", FALSE, <<MCKeyed("q", "@n", "1"), MCElem("drop")>>, "inf"),
     MCKv("leaf", FALSE, <<MCElem("ips")>>, "nolist"),
     MCKv("leaf", TRUE, MCIf("ge0") \o <<MCElem("out")>>, "str"),
     MCKv("leaf", TRUE, <<MCElem("sys")>>, "none")}
MCAlias == (<<"ifs", "if", "@name">> :> <<"name">>) @@ (<<"ifs", "if", "in">> :> <<"in">>)
MCSensor == <<"s", "x", "/ifs/", "p">>

(* Subscriptions of up to three paths: keys in one and in two brackets, one of them
   twice, names and values with "/" and with "and" in them, every mode, intervals that
   overflow *)
MCPathElem(n, ks) == [name |-> n, keys |-> ks]
MCPathKey(k, v) == [key |-> k, value |-> v]
MCPath(p, m, f) == [path |-> p, origin |-> "oc", mode |-> m, freq |-> f, heartbeat |-> 20]
MCIfPath(keys) == <<MCPathElem(<<"ifs">>, <<>>), MCPathElem(<<"if">>, keys), MCPathElem(<<"state">>, <<>>)>>
MCNameKey(v) == MCPathKey(<<"name">>, v)
MCUnitKey(v) == MCPathKey(<<"unit">>, v)
MCPathConfigs ==
    {MCPath(MCIfPath(<<<<MCNameKey(<<"lo0">>), MCUnitKey(<<"0">>)>>>>), "sample", 2500),
     MCPath(MCIfPath(<<<<MCUnitKey(<<"0">>)>>, <<MCNameKey(<<"lo0">>), MCUnitKey(<<"1">>)>>>>), "", 3000),
     MCPath(MCIfPath(<<<<MCNameKey(<<"ge-0", "/", "0">>)>>>>), "", 0),
     MCPath(MCIfPath(<<<<MCNameKey(<<"st", "and", "by">>)>>>>), "sample", 1000),
     MCPath(MCIfPath(<<<<MCPathKey(<<"b", "and", "width">>, <<"1">>)>>>>), "sample", 5000),
     MCPath(<<MCPathElem(<<"st", "and", "by">>, <<>>)>>, "on-change", 9000),
     MCPath(<<MCPathElem(<<"lldp">>, <<>>)>>, "target-defined", 1),
     MCPath(<<MCPathElem(<<"lldp">>, <<>>)>>, "sample", 17000),
     MCPath(<<>>, "sample", 3000)}

(* Notifications of up to three updates and deletes: the same leaf of two interfaces,
   a value that cannot be converted, a list, an update without a path, and headers of
   every kind *)
MCUpdate(p, v) == [hasPath |-> TRUE, path |-> p, list |-> FALSE, val |-> <<v>>]
MCIfLeaf(i, l) == <<MCKeyed("if", "name", i), MCElem(l)>>
MCGnPrefixes ==
    {[elems |-> <<MCElem("ifs")>>, origin |-> ""], [elems |-> <<MCKeyed("ifs", "vr", "main")>>, origin |-> "oc"]}
MCGnUpdates ==
    {MCUpdate(MCIfLeaf("a", "in"), "uint"), MCUpdate(MCIfLeaf("b", "in"), "int"),
     MCUpdate(MCIfLeaf("a", "out"), "badJson"), MCUpdate(<<MCElem(TimestampName)>>, "uint"),
     [MCUpdate(<<>>, "uint") EXCEPT !.hasPath = FALSE],
     [hasPath |-> TRUE, path |-> MCIfLeaf("a", "ips"), list |-> TRUE, val |-> <<"string", "uint">>]}
        \cup {MCUpdate(<<MCElem(HeaderName)>>, v) : v \in {"anyHeader", "anyOther", "anyShort", "anyBad", "badJson"}}
MCGnDeletes == {MCIfLeaf("b", "in")}
MCGnOption(r, u, p, i, v, c) ==
    [removeNS |-> r, uint |-> u, prom |-> p, inline |-> i, verbose |-> v, client |-> c]
MCGnOptions ==
    {MCGnOption(FALSE, FALSE, TRUE, FALSE, TRUE, TRUE), MCGnOption(TRUE, TRUE, TRUE, TRUE, FALSE, TRUE),
     MCGnOption(TRUE, FALSE, TRUE, FALSE, FALSE, TRUE), MCGnOption(TRUE, FALSE, FALSE, FALSE, TRUE, FALSE)}

(* IOS-XR: two schemas, with keys on two levels and two keys on one, and messages
   above, at and below their lists *)
MCName(i) == [ns |-> NoNs, id |-> i]
MCCisco(i) == [ns |-> "Cisco", id |-> i]
MCNode(n, k, kids) == [name |-> n, key |-> k, kids |-> kids]
MCNodeLeaf(n) == MCNode(MCName(n), FALSE, <<>>)
MCNodeKey(n) == MCNode(MCName(n), TRUE, <<>>)
MCField(n, v) == [name |-> MCName(n), val |-> v, fields |-> <<>>]
MCGroup(n, fs) == [name |-> MCName(n), val |-> "", fields |-> fs]
MCXrSchemas ==
    <<<<MCNode(MCCisco("ifs"), FALSE,
          <<MCNode(MCName("if"), FALSE,
              <<MCNodeKey("name"), MCNodeLeaf("in"),
                MCNode(MCName("q"), FALSE, <<MCNodeKey("id"), MCNodeLeaf("drop")>>)>>)>>)>>,
      <<MCNode(MCName("bgp"), FALSE,
          <<MCNode(MCCisco("nb"), FALSE, <<MCNodeKey("vrf"), MCNodeKey("addr"), MCNodeLeaf("up")>>)>>)>>>>
MCQueue(id, v) == MCGroup("q", <<MCField("id", id), MCField("drop", v)>>)
MCXrIf(n, rest) == MCGroup("if", <<MCField("name", n), MCField("in", "1"), MCQueue("7", "2")>> \o rest)
MCXrRow(ks, c) == MCGroup("", <<MCGroup("keys", ks), MCGroup("content", c)>>)
MCXrMessage(p, d) == [ok |-> TRUE, path |-> p, data |-> d]
MCXrMessages ==
    {NoMessage,
     MCXrMessage(<<MCCisco("ifs")>>,
        <<MCXrRow(<<>>, <<MCXrIf("a", <<MCQueue("8", "3")>>), MCXrIf("b", <<MCQueue("8", "3")>>)>>)>>),
     MCXrMessage(<<MCCisco("ifs")>>,
        <<MCXrRow(<<>>, <<MCXrIf("a", <<MCGroup("x", <<MCField("y", "4")>>)>>)>>), MCGroup("", <<>>)>>),
     MCXrMessage(<<MCCisco("ifs"), MCName("if")>>,
        <<MCXrRow(<<MCField("name", "a")>>, <<MCField("in", "1"), MCQueue("7", "2")>>),
          MCXrRow(<<MCField("name", "b")>>, <<MCField("in", "3")>>)>>),
     MCXrMessage(<<MCCisco("ifs"), MCName("if"), MCName("q")>>,
        <<MCXrRow(<<MCField("name", "a"), MCField("id", "7")>>, <<MCField("drop", "1")>>)>>),
     MCXrMessage(<<MCName("bgp"), MCCisco("nb")>>,
        <<MCXrRow(<<MCField("vrf", "a"), MCField("addr", "7")>>, <<MCField("up", "1")>>),
          MCXrRow(<<MCField("vrf", "a"), MCField("addr", "8")>>, <<MCField("up", "1")>>)>>),
     MCXrMessage(<<MCName("bgp"), MCName("zz")>>, <<MCXrRow(<<MCField("vrf", "a")>>, <<MCField("up", "1")>>)>>),
     MCXrMessage(<<>>, <<>>)}

(* Logs: all files, none, and one that another reload changes *)
MCLogConfig(l, d, c, o) == [log |-> l, data |-> d, csv |-> c, other |-> o]
MCLogConfigs ==
    {MCLogConfig(TRUE, TRUE, TRUE, 1), MCLogConfig(FALSE, FALSE, FALSE, 1), MCLogConfig(TRUE, TRUE, FALSE, 2)}

(* Simulator: two sensors on one channel, wraps of four to six packets, and the requests
   and descriptions that end it *)
MCDesc(f, p, q, l, num) == [ok |-> TRUE, fpc |-> f, pic |-> p, port |-> q, logical |-> l, num |-> num]
MCOnes == <<1, 1, 1, 1>>
MCSmallDesc == MCDesc(1, 1, 1, 1, MCOnes)
MCSub(s, f) == [sensor |-> s, freq |-> f]
MCReq(rpc, s) == [rpc |-> rpc, ok |-> TRUE, subs |-> s]
MCCase(d, r, x) == [desc |-> d, req |-> r, random |-> x]
MCSimCases ==
    {MCCase(d, r, FALSE) :
        d \in {MCDesc(1, 1, 2, 2, MCOnes), MCDesc(2, 2, 1, 0, MCOnes), MCDesc(2, 1, 1, 1, MCOnes)},
        r \in {MCReq("oc", <<MCSub("/interfaces", 2000), MCSub("/bgp", 1000)>>),
               MCReq("gnmi", <<MCSub("/interfaces", 2), MCSub("/interfaces", 3)>>)}}
    \cup {MCCase(MCDesc(1, 1, 1, 1, num), MCReq("oc", <<MCSub("/interfaces", f)>>), TRUE) :
             num \in {<<2, 1, 1, 1>>, <<1, 1, 0, 1>>}, f \in {500, 1000}}
    \cup {MCCase(MCSmallDesc, MCReq("oc", <<MCSub("/lldp", 1000), MCSub("/system", 500)>>), FALSE),
          MCCase([MCSmallDesc EXCEPT !.ok = FALSE], MCReq("oc", <<MCSub("/interfaces", 1000)>>), FALSE),
          MCCase(MCSmallDesc, [MCReq("gnmi", <<MCSub("/interfaces", 2)>>) EXCEPT !.ok = FALSE], FALSE)}

-----------------------------------------------------------------------------
Stages == {"prom", "rows", "paths", "parse", "xr", "logs", "consumer", "publisher", "sim"}

(* The part chosen starts in any of its initial states, the others in one of theirs. *)
MCInit ==
    /\ part \in Stages
    /\ PromInit /\ (part # "prom" => \A p \in PromPackets : todo[p] = {})
    /\ RowInit /\ (part # "rows" => rowUint /\ rowClient)
    /\ SubInit /\ (part # "paths" => fromDialOut)
    /\ GnInit /\ (part # "parse" => <<gOpt, gPrefix>> = CHOOSE x \in GnOptions \X GnPrefixes : TRUE)
    /\ XrInit /\ (part # "xr" => removeNS)
    /\ LgInit /\ (part # "logs" => stats /\ lgCfg = CHOOSE c \in LogConfigs : TRUE)
    /\ KInit /\ (part # "consumer" => kDb = CHOOSE f \in [KDevs -> KDbs] : TRUE)
    /\ PbInit /\ (part # "publisher" => dialOutMode /\ fileKafka)
    /\ SimInit /\ (part # "sim" => [desc |-> simDesc, req |-> simReq, random |-> simRandom]
                                         = CHOOSE c \in SimCases : TRUE)

MCNext ==
    /\ UNCHANGED part
    /\ \/ /\ part = "prom" /\ PromNext
          /\ UNCHANGED <<rowVars, subVars, gnVars, xrVars, lgVars, kVars, pbVars, simVars>>
       \/ /\ part = "rows" /\ RowNext
          /\ UNCHANGED <<promVars, subVars, gnVars, xrVars, lgVars, kVars, pbVars, simVars>>
       \/ /\ part = "paths" /\ SubNext
          /\ UNCHANGED <<promVars, rowVars, gnVars, xrVars, lgVars, kVars, pbVars, simVars>>
       \/ /\ part = "parse" /\ GnNext
          /\ UNCHANGED <<promVars, rowVars, subVars, xrVars, lgVars, kVars, pbVars, simVars>>
       \/ /\ part = "xr" /\ XrNext
          /\ UNCHANGED <<promVars, rowVars, subVars, gnVars, lgVars, kVars, pbVars, simVars>>
       \/ /\ part = "logs" /\ LgNext
          /\ UNCHANGED <<promVars, rowVars, subVars, gnVars, xrVars, kVars, pbVars, simVars>>
       \/ /\ part = "consumer" /\ KNext
          /\ UNCHANGED <<promVars, rowVars, subVars, gnVars, xrVars, lgVars, pbVars, simVars>>
       \/ /\ part = "publisher" /\ PbNext
          /\ UNCHANGED <<promVars, rowVars, subVars, gnVars, xrVars, lgVars, kVars, simVars>>
       \/ /\ part = "sim" /\ SimNext
          /\ UNCHANGED <<promVars, rowVars, subVars, gnVars, xrVars, lgVars, kVars, pbVars>>

MCSpec ==
    MCInit /\ [][MCNext]_<<part, promVars, rowVars, subVars, gnVars, xrVars, lgVars, kVars, pbVars, simVars>>

=============================================================================

-------------------------------- MODULE IosXr -------------------------------
(***************************************************************************)
(* The subscription of a Cisco IOS-XR device (subscribe_cisco_iosxr.go): the *)
(* schema is loaded, one goroutine per path receives messages, and each       *)
(* message, a tree of fields, is walked along the schema, which tells the     *)
(* keys; every leaf is handed to the accumulator as one metric with the keys  *)
(* found on the way as tags.  A field is [name, val, fields], a schema node   *)
(* [name, key, kids]; the namespace of a name is a part of its own, [ns, id]. *)
(***************************************************************************)
EXTENDS Integers, Sequences, FiniteSets, SequencesExt

CONSTANTS
    XrPaths,      \* the paths of the configuration
    XrSchemas,    \* XrSchemas[i]: the nodes of the i-th schema file
    XrMessages,   \* messages a device may send: [ok, path, data]
    MaxXr,        \* bound: messages received
    NoNs          \* a name without namespace

VARIABLES
    removeNS,     \* jctx.config.Vendor.RemoveNS
    xrPc,         \* xrPc[p]: the goroutine of path p
    xrSub,        \* subscribeXR: "load", "select" or its result
    xrLast,       \* the message received last
    xrMetrics,    \* the metrics accumulate was called with for it
    xrCount

xrVars == <<removeNS, xrPc, xrSub, xrLast, xrMetrics, xrCount>>

Results == {"SubRcConnRetry", "SubRcSighupRestart", "SubRcSighupNoRestart"}
NilNode == [name |-> [ns |-> NoNs, id |-> ""], key |-> FALSE, kids |-> <<>>]
NoMessage == [ok |-> FALSE, path |-> <<>>, data |-> <<>>]

ASSUME XrAssumption ==
    MaxXr \in Nat /\ \A m \in XrMessages : m.ok \in BOOLEAN

-----------------------------------------------------------------------------
(* getParentPath strips the namespaces, in place. *)
getParentPath(p) ==
    IF removeNS THEN [i \in DOMAIN p |-> [p[i] EXCEPT !.ns = NoNs]] ELSE p

Named(fs, id) == SelectSeq(fs, LAMBDA f : f.name.id = id)

(* getKeysFromMessage, getContentFromMessage: without a field of that name, the last *)
SubField(f, id) ==
    IF Named(f.fields, id) # <<>> THEN Head(Named(f.fields, id)) ELSE Last(f.fields)

(* getKeyValue: "" for a key the message does not have *)
getKeyValue(keys, name) ==
    LET found == SelectSeq(keys.fields, LAMBDA f : f.name = name)
    IN  IF found = <<>> THEN "" ELSE Head(found).val

(* getXRSchema: the nodes of all files, in their order *)
XrSchema == FlattenSeq(XrSchemas)

(* One field of walk: a = [matched, tags, out].  A key joins the tags walk was called
   with and is seen by the fields after it; a field that is not in the schema is
   walked along the node matched before it; the path of a field without a name is
   lost. *)
MatchKids(n, f, p, tags, a) ==
    FoldLeft(LAMBDA b, kid :
                 IF kid.name # f.name THEN b
                 ELSE [b EXCEPT !.matched = kid,
                                !.tags = IF kid.key
                                         THEN Append(tags, [key |-> Append(getParentPath(p), f.name), value |-> f.val])
                                         ELSE @],
             a, n.kids)

RECURSIVE walk(_, _, _, _)
WalkField(n, f, p, tags, a) ==
    LET b == MatchKids(n, f, p, tags, a)
        q == IF f.name.id = "" THEN <<>> ELSE Append(p, f.name)
    IN  [b EXCEPT !.out = @ \o (IF f.fields = <<>>
                                THEN <<[field |-> Append(getParentPath(p), f.name), value |-> f.val, tags |-> b.tags]>>
                                ELSE walk(b.matched, f.fields, q, b.tags))]

(* Mutant of walk: the tags of a key are not kept for its siblings. *)
walkForgets(n, fs, p, tags) ==
    FoldLeft(LAMBDA a, f : WalkField(n, f, p, tags, [a EXCEPT !.tags = tags]),
             [matched |-> NilNode, tags |-> tags, out |-> <<>>], fs).out
walk(n, fs, p, tags) ==
    FoldLeft(LAMBDA a, f : WalkField(n, f, p, tags, a),
             [matched |-> NilNode, tags |-> tags, out |-> <<>>], fs).out

(* multiLevelMsgTags: a = [matched, node, tags] after the elements of the encoding
   path; one that is not in the schema ends the loop only if none was before it. *)
KeyName(n) ==
    LET keys == SelectSeq(n.kids, LAMBDA kid : kid.key)
    IN  CASE n.key -> <<n.name>> [] ~n.key /\ keys # <<>> -> <<Last(keys).name>> [] OTHER -> <<>>

PathElement(ePath, keys, a, i) ==
    LET hits == SelectSeq(a.node.kids, LAMBDA kid : kid.name = ePath[i])
        hit  == Head(hits)
    IN  IF a.stopped THEN a
        ELSE IF hits = <<>> THEN [a EXCEPT !.stopped = ~a.matched]
        ELSE [stopped |-> FALSE, matched |-> TRUE, node |-> hit,
              tags |-> a.tags \o [j \in DOMAIN KeyName(hit) |->
                          [key |-> Append(SubSeq(ePath, 1, i), KeyName(hit)[j]), value |-> getKeyValue(keys, KeyName(hit)[j])]]]

multiLevelMsgTags(node, ePath, m) ==
    FoldLeft(LAMBDA a, i : PathElement(ePath, SubField(m, "keys"), a, i),
             [stopped |-> FALSE, matched |-> FALSE, node |-> node, tags |-> <<>>],
             [i \in 1 .. Len(ePath) - 1 |-> i + 1])

(* walk strips the namespaces of ePath itself when it names a leaf or a key of the top
   level: the next part of the message is compared with the stripped path. *)
StripsPath(n, fs) ==
    removeNS /\ \E f \in Range(fs) : f.fields = <<>> \/ \E kid \in Range(n.kids) : kid.name = f.name /\ kid.key

(* a = [ePath, out] after some parts of the message *)
MultiLevelPart(node, a, m) ==
    LET t  == multiLevelMsgTags(node, a.ePath, m)
        fs == SubField(m, "content").fields
    IN  IF m.fields = <<>> THEN a
        ELSE [ePath |-> IF StripsPath(t.node, fs) THEN getParentPath(a.ePath) ELSE a.ePath,
              out   |-> a.out \o walk(t.node, fs, a.ePath, t.tags)]

processMultiLevelMsg(node, ePath, data) ==
    FoldLeft(LAMBDA a, m : MultiLevelPart(node, a, m), [ePath |-> ePath, out |-> <<>>], data)

processTopLevelMsg(node, m) ==
    IF m.fields = <<>> THEN <<>> ELSE walk(node, SubField(m, "content").fields, <<node.name>>, <<>>)

(* One schema node in the loop of handleOnePath over them: used if its name is the
   first element of the path, which RemoveNS changes for the nodes after it *)
UseNode(a, node, data) ==
    LET first == IF removeNS THEN [a.ePath[1] EXCEPT !.ns = NoNs] ELSE a.ePath[1]
        multi == processMultiLevelMsg(node, [a.ePath EXCEPT ![1] = first], data)
    IN  CASE node.name # a.ePath[1] -> a
          [] node.name = a.ePath[1] /\ Len(a.ePath) = 1 ->
                 [a EXCEPT !.out = @ \o FlattenSeq([i \in DOMAIN data |-> processTopLevelMsg(node, data[i])])]
          [] OTHER -> [ePath |-> multi.ePath, out |-> a.out \o multi.out]

(* The metrics of one message; one that cannot be parsed or has no path is ignored. *)
MetricsOf(msg) ==
    IF ~msg.ok \/ msg.path = <<>> THEN <<>>
    ELSE FoldLeft(LAMBDA a, node : UseNode(a, node, msg.data), [ePath |-> msg.path, out |-> <<>>], XrSchema).out

-----------------------------------------------------------------------------
XrInit ==
    /\ removeNS \in BOOLEAN
    /\ xrPc = [p \in XrPaths |-> "off"]
    /\ xrSub = "load"
    /\ xrLast = NoMessage /\ xrMetrics = <<>> /\ xrCount = 0

(* subscribeXR up to its loop: getXRSchema fails for a file that is
   missing or is no schema *)
XrStart ==
    /\ xrSub = "load"
    /\ \/ xrSub' = "SubRcConnRetry" /\ UNCHANGED xrPc
       \/ xrSub' = "select" /\ xrPc' = [p \in XrPaths |-> "create"]
    /\ UNCHANGED <<removeNS, xrLast, xrMetrics, xrCount>>

XrCreate(p) ==
    /\ xrPc[p] = "create"
    /\ \E s \in {"recv", "datach"} : xrPc' = [xrPc EXCEPT ![p] = s]
    /\ UNCHANGED <<removeNS, xrSub, xrLast, xrMetrics, xrCount>>

XrRecv(p) ==
    /\ xrPc[p] = "recv" /\ xrCount < MaxXr
    /\ xrCount' = xrCount + 1
    /\ \E msg \in XrMessages : xrLast' = msg /\ xrMetrics' = MetricsOf(msg)
    /\ UNCHANGED <<removeNS, xrPc, xrSub>>

XrEnds(p) ==
    /\ xrPc[p] = "recv"
    /\ xrPc' = [xrPc EXCEPT ![p] = "datach"]
    /\ UNCHANGED <<removeNS, xrSub, xrLast, xrMetrics, xrCount>>

(* case <-datach, which has no buffer *)
XrData(p) ==
    /\ xrSub = "select" /\ xrPc[p] = "datach"
    /\ xrPc' = [xrPc EXCEPT ![p] = "returned"]
    /\ xrSub' = "SubRcConnRetry"
    /\ UNCHANGED <<removeNS, xrLast, xrMetrics, xrCount>>

(* case s := <-jctx.control *)
XrControl ==
    /\ xrSub = "select"
    /\ xrSub' \in {"SubRcSighupRestart", "SubRcSighupNoRestart"}
    /\ UNCHANGED <<removeNS, xrPc, xrLast, xrMetrics, xrCount>>

XrNext ==
    \/ XrStart \/ XrControl
    \/ \E p \in XrPaths : XrCreate(p) \/ XrRecv(p) \/ XrEnds(p) \/ XrData(p)

-----------------------------------------------------------------------------
RECURSIVE Regular(_, _)
RECURSIVE LeavesUnder(_, _, _, _)

Kid(n, f) == CHOOSE kid \in Range(n.kids) : kid.name = f.name
KeyFields(n, fs) == {i \in DOMAIN fs : \E kid \in Range(n.kids) : kid.name = fs[i].name /\ kid.key}

(* The fields are in the schema, and the key of a list, one at most, comes first. *)
Regular(n, fs) ==
    /\ KeyFields(n, fs) \subseteq {1}
    /\ \A f \in Range(fs) : \E kid \in Range(n.kids) : kid.name = f.name /\ Regular(kid, f.fields)

(* The leaves of a regular tree, each with the keys of all fields above and beside it *)
LeavesUnder(n, fs, p, tags) ==
    LET own == {[key |-> Append(getParentPath(p), fs[i].name), value |-> fs[i].val] : i \in KeyFields(n, fs)}
    IN  UNION {IF f.fields = <<>>
               THEN {[field |-> Append(getParentPath(p), f.name), value |-> f.val, tags |-> tags \cup own]}
               ELSE LeavesUnder(Kid(n, f), f.fields, Append(p, f.name), tags \cup own) : f \in Range(fs)}

(* The node the path leads to, NilNode if it leaves the schema, and the tags on the way *)
NodeAt(node, path, i) ==
    FoldLeft(LAMBDA n, e : IF \E kid \in Range(n.kids) : kid.name = e THEN Kid(n, [name |-> e]) ELSE NilNode,
             node, SubSeq(path, 2, i))
PathTags(node, path, m) ==
    LET Name(i) == KeyName(NodeAt(node, path, i))
        sent == [path EXCEPT ![1] = IF removeNS THEN [@ EXCEPT !.ns = NoNs] ELSE @]
    IN  {[key |-> Append(SubSeq(sent, 1, i), Name(i)[1]), value |-> getKeyValue(SubField(m, "keys"), Name(i)[1])] :
            i \in {j \in 2 .. Len(path) : Name(j) # <<>>}}

RegularMessage(node, msg) ==
    /\ msg.ok /\ msg.path # <<>> /\ node.name = msg.path[1]
    /\ \A i \in 2 .. Len(msg.path) : NodeAt(node, msg.path, i) # NilNode /\ (removeNS => msg.path[i].ns = NoNs)
    /\ \A m \in Range(msg.data) : m.fields # <<>> /\ Regular(NodeAt(node, msg.path, Len(msg.path)), SubField(m, "content").fields)

(* For a message along the schema whose lists have one key, sent first, every leaf
   becomes one metric, under its own path and with exactly the keys of the lists
   around it, whatever namespaces, levels and number of parts it has
   (subscribe_cisco_iosxr.go:415-582).  The second of two keys replaces the first,
   and a part after one that stripped the namespace of a later path element loses
   the keys of the path. *)
MetricsHaveTheirKeys ==
    \A node \in {n \in Range(XrSchema) : \A k \in Range(XrSchema) : k.name.id = n.name.id => k = n} :
        RegularMessage(node, xrLast) =>
            {[xrMetrics[i] EXCEPT !.tags = Range(@)] : i \in DOMAIN xrMetrics} =
                UNION {LeavesUnder(NodeAt(node, xrLast.path, Len(xrLast.path)), SubField(m, "content").fields,
                                   xrLast.path, PathTags(node, xrLast.path, m)) : m \in Range(xrLast.data)}

=============================================================================

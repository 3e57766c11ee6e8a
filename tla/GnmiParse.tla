----------------------------- MODULE GnmiParse ------------------------------
(***************************************************************************)
(* What becomes of one gNMI notification (gnmiParseNotification and          *)
(* gnmiHandleResponse in subscribe_gnmi.go, gnmi_utils.go): its updates and   *)
(* deletes are parsed into one map of tags, kvpairs, and one of fields,      *)
(* xpaths; a header is looked for; both maps are handed to the goroutine of   *)
(* Prometheus and, without waiting for it, to publishToInflux.  A path is a   *)
(* sequence of elements [name, keys]; a field remembers the update or delete  *)
(* it came from.                                                             *)
(***************************************************************************)
EXTENDS Integers, Sequences, Maps

CONSTANTS
    GnPrefixes,   \* prefixes a notification may have: [elems, origin]
    GnUpdates,    \* updates it may hold: [hasPath, path, list, val], val a sequence of kinds
    GnDeletes,    \* paths it may delete
    GnExts,       \* extensions it may have: "none", "other", "juniper" or "bad"
    GnOptions,    \* [removeNS, uint, prom, inline, verbose, client]
    MaxItems,     \* bound: updates and deletes of a notification
    HeaderName,   \* __juniper_telemetry_header__
    TimestampName \* __timestamp__

VARIABLES
    gOpt,         \* configuration and flags
    gPrefix,      \* the prefix of the notification
    gItems,       \* its updates and deletes up to the one parsed last
    gPc,          \* control state of the handler
    kvpairs, xpaths, jXpaths,
    jHeader,      \* what formJuniperTelemetryHdr found
    gProm         \* the goroutine of publishToPrometheus

gnVars == <<gOpt, gPrefix, gItems, gPc, kvpairs, xpaths, jXpaths, jHeader, gProm>>

IsPath(p) == p \in Seq({p[i] : i \in DOMAIN p})

(* The kinds of values are other than the type of a list and the mark of a delete. *)
ASSUME GnAssumption ==
    /\ MaxItems \in Nat /\ GnExts \subseteq {"none", "other", "juniper", "bad"}
    /\ \A u \in GnUpdates :
           /\ u.hasPath \in BOOLEAN /\ (~u.hasPath => u.path = <<>>)
           /\ IsPath(u.path) /\ u.list \in BOOLEAN
           /\ u.val # <<"delete">> /\ (~u.list => u.val[1] # "strings")
    /\ \A p \in GnDeletes : IsPath(p)
    /\ \A p \in GnPrefixes : IsPath(p.elems)

-----------------------------------------------------------------------------
(* gnmiParsePath: pre extended by the elements, the keys of every element named
   after the path up to it, and whether one of the internal fields is among them *)
PathFrom(pre, pes) == pre \o [i \in DOMAIN pes |-> pes[i].name]

KeysFrom(pre, pes) ==
    UNION {{<<PathFrom(pre, SubSeq(pes, 1, i)), k, pes[i].keys[k]>> : k \in DOMAIN pes[i].keys} :
               i \in DOMAIN pes}

KeyMap(keys) ==
    [t \in {<<k[1], k[2]>> : k \in keys} |-> (CHOOSE k \in keys : <<k[1], k[2]>> = t)[3]]

(* Mutant of WithKeys: a key that is there is kept. *)
WithKeysKept(kv, keys) == MapMerge(kv, KeyMap(keys))

(* kvpairs[...] = v for every key *)
WithKeys(kv, keys) == MapMerge(KeyMap(keys), kv)
Internal(pes) == {pes[i].name : i \in DOMAIN pes} \cap {HeaderName, TimestampName}

(* The prefix starts with the origin, unless namespaces are removed. *)
prefixPath ==
    PathFrom(IF gOpt.removeNS \/ gPrefix.origin = "" THEN <<>> ELSE <<gPrefix.origin>>, gPrefix.elems)

(* gnmiParseValue: the type a value is given, "error" or, for a leaf-list, the type
   of its last element of a type that is kept; numbers other than int64 are not. *)
ScalarType(k, ts) ==
    CASE k \in {"string", "ascii", "bytes", "jsonString"} -> "string"
      [] k \in {"int", "jsonInt"} -> "int64"
      [] k = "uint" -> CASE gOpt.uint -> "uint64" [] ~gOpt.uint /\ ts -> "int64" [] OTHER -> "float64"
      [] k \in {"float", "double", "decimal", "jsonFloat"} -> "float64"
      [] k = "badJson" -> "error"
      [] OTHER -> k
ListTypes == [int64 |-> "ints", bool |-> "bools", string |-> "strings", proto |-> "bytes"]
ListType(ks) ==
    LET kept == {i \in DOMAIN ks : ScalarType(ks[i], FALSE) \in DOMAIN ListTypes}
    IN  IF kept = {} THEN "nil"
        ELSE ListTypes[ScalarType(ks[CHOOSE i \in kept : \A j \in kept : j <= i], FALSE)]
ValueType(u, ts) == IF u.list THEN ListType(u.val) ELSE ScalarType(u.val[1], ts)

-----------------------------------------------------------------------------
GnInit ==
    /\ gOpt \in GnOptions /\ gPrefix \in GnPrefixes
    /\ gItems = <<>>
    /\ gPc = "updates"
    /\ kvpairs = <<>> /\ xpaths = <<>> /\ jXpaths = <<>>
    /\ jHeader = "none" /\ gProm = "off"

(* kvpairs after the prefix, which is parsed before the first update or delete *)
Tags ==
    IF gItems = <<>>
    THEN WithKeys(kvpairs, KeysFrom(SubSeq(prefixPath, 1, Len(prefixPath) - Len(gPrefix.elems)), gPrefix.elems))
    ELSE kvpairs

(* An update without a path, which has no keys either, is passed over. *)
SkipUpdate(u) ==
    /\ gPc = "updates" /\ Len(gItems) < MaxItems /\ ~u.hasPath
    /\ gItems' = Append(gItems, u)
    /\ kvpairs' = WithKeys(Tags, KeysFrom(prefixPath, u.path))
    /\ UNCHANGED <<gOpt, gPrefix, gPc, xpaths, jXpaths, jHeader, gProm>>

(* One round of gnmiParseUpdates: an internal field goes to jXpaths, and a value that
   cannot be parsed ends the handler; the keys join those of the other updates. *)
ParseUpdate(u) ==
    LET xpath == PathFrom(prefixPath, u.path)
    IN
    /\ gPc = "updates" /\ Len(gItems) < MaxItems /\ u.hasPath
    /\ gItems' = Append(gItems, u)
    /\ kvpairs' = WithKeys(Tags, KeysFrom(prefixPath, u.path))
    /\ IF Internal(u.path) = {}
       THEN /\ xpaths' = MapSet(xpaths, xpath, [from |-> Len(gItems) + 1, type |-> ValueType(u, FALSE)])
            /\ gPc' = IF ValueType(u, FALSE) = "error" THEN "failed" ELSE gPc
            /\ UNCHANGED jXpaths
       ELSE /\ jXpaths' = IF HeaderName \in Internal(u.path)
                          THEN MapSet(jXpaths, HeaderName, ValueType(u, FALSE))
                          ELSE MapSet(jXpaths, TimestampName, ValueType(u, TRUE))
            /\ UNCHANGED <<gPc, xpaths>>
    /\ UNCHANGED <<gOpt, gPrefix, jHeader, gProm>>

(* One round of gnmiParseDeletes, which follows the last update *)
ParseDelete(path) ==
    /\ gPc \in {"updates", "deletes"} /\ Len(gItems) < MaxItems
    /\ gPc' = "deletes"
    /\ gItems' = Append(gItems, [hasPath |-> TRUE, path |-> path, list |-> FALSE, val |-> <<"delete">>])
    /\ kvpairs' = WithKeys(Tags, KeysFrom(prefixPath, path))
    /\ xpaths' = MapSet(xpaths, PathFrom(prefixPath, path), [from |-> Len(gItems) + 1, type |-> "nil"])
    /\ UNCHANGED <<gOpt, gPrefix, jXpaths, jHeader, gProm>>

(* An Any whose Path, as it is read, has fewer than two ":": another message, of which
   nothing is read, or a Juniper header with a short or empty Path, also one that
   UnmarshalAny gave up on, whose error is ignored.  "anyHeader" is one with a Path. *)
ShortPaths == {"anyOther", "anyShort"}

(* formJuniperTelemetryHdr: with an internal field in the updates the extension is not
   looked at; a header that could not be parsed counts as an empty extension, and
   one that is not an Any leaves both headers nil. *)
formJuniperTelemetryHdr(ext) ==
    LET value == jXpaths[HeaderName]
    IN  CASE jXpaths # <<>> /\ HeaderName \notin DOMAIN jXpaths -> "absent"
          [] jXpaths # <<>> /\ HeaderName \in DOMAIN jXpaths ->
                 CASE value = "error" -> "emptyExt"
                   [] value \in {"anyHeader"} \cup ShortPaths -> value
                   [] value = "anyBad" -> "error"
                   [] OTHER -> "neither"
          [] jXpaths = <<>> -> CASE ext = "juniper" -> "hdrExt" [] ext = "bad" -> "error" [] OTHER -> "absent"

(* gnmiParseHeader and the checks after it, for a device that has sent its sync
   response: without a header a timestamp of 0 is an error, and splits[2] is out of
   range for a short Path.  The goroutine of Prometheus is started, or called. *)
ParseHeader ==
    /\ gPc \in {"updates", "deletes"}
    /\ \E ext \in GnExts, zeroTimestamp \in BOOLEAN :
           /\ jHeader' = formJuniperTelemetryHdr(ext)
           /\ gPc' = CASE jHeader' = "error" \/ (jHeader' = "absent" /\ zeroTimestamp) -> "failed"
                       [] jHeader' \in ShortPaths -> "panic"
                       [] OTHER -> "print"
    /\ gProm' = IF gPc' = "print" /\ gOpt.prom /\ ~gOpt.inline THEN "tags" ELSE "off"
    /\ UNCHANGED <<gOpt, gPrefix, gItems, kvpairs, xpaths, jXpaths>>

(* publishToPrometheus ranges over kvpairs and then over xpaths. *)
PromTags ==
    /\ gProm = "tags" /\ gProm' = "fields"
    /\ UNCHANGED <<gOpt, gPrefix, gItems, gPc, kvpairs, xpaths, jXpaths, jHeader>>
PromFields ==
    /\ gProm = "fields" /\ gProm' = "done"
    /\ UNCHANGED <<gOpt, gPrefix, gItems, gPc, kvpairs, xpaths, jXpaths, jHeader>>

(* With verbose logging components of an extension header become tags. *)
AddsTags == gOpt.verbose /\ jHeader = "hdrExt"

(* The fields publishToInflux replaces by a string *)
Joined == {x \in DOMAIN xpaths : gOpt.client /\ xpaths[x].type = "strings"}

(* A write to a map another goroutine ranges over ends the program, or is not noticed. *)
PrintTags ==
    /\ gPc = "print"
    /\ \/ gPc' = "influx"
       \/ AddsTags /\ gProm = "tags" /\ gPc' = "panic"
    /\ UNCHANGED <<gOpt, gPrefix, gItems, kvpairs, xpaths, jXpaths, jHeader, gProm>>

(* client.NewPoint may refuse what is left, a float that is not finite. *)
publishToInflux ==
    /\ gPc = "influx"
    /\ \/ /\ gPc' \in IF gOpt.client THEN {"done", "failed"} ELSE {"done"}
          /\ xpaths' = [x \in DOMAIN xpaths |->
                           IF x \in Joined THEN [xpaths[x] EXCEPT !.type = "string"] ELSE xpaths[x]]
       \/ /\ Joined # {} /\ gProm = "fields"
          /\ gPc' = "panic" /\ UNCHANGED xpaths
    /\ UNCHANGED <<gOpt, gPrefix, gItems, kvpairs, jXpaths, jHeader, gProm>>

GnNext ==
    /\ gPc # "panic"
    /\ \/ ParseHeader \/ PrintTags \/ publishToInflux \/ PromTags \/ PromFields
       \/ \E u \in GnUpdates : ParseUpdate(u) \/ SkipUpdate(u)
       \/ \E p \in GnDeletes : ParseDelete(p)

GnSpec == GnInit /\ [][GnNext]_gnVars

-----------------------------------------------------------------------------
ItemPath(i) == PathFrom(prefixPath, gItems[i].path)
ItemKeys(i) == KeysFrom(prefixPath, gItems[i].path)
Field(i) ==
    gItems[i].hasPath /\ (Internal(gItems[i].path) = {} \/ gItems[i].val = <<"delete">>)

(* The Path of the header has no third part, or the goroutine of Prometheus reads a map
   the handler still changes: tags when the log is verbose, fields when one of them is
   a list of strings (subscribe_gnmi.go:205-209, 112-118, 386-429). *)
HeaderOrRace ==
    \/ jHeader \in ShortPaths
    \/ gOpt.prom /\ ~gOpt.inline /\ (gOpt.verbose \/ \E i \in DOMAIN gItems : gItems[i].list)

(* A published notification has a field for every delete and every update with a path,
   and none for anything else the device sent, but for those followed by another of the
   same names, whatever their keys; and the keys of every field are tags unless a later
   path gives one of them another value (one kvpairs and one xpaths for all updates:
   gnmi_utils.go:225-254, 288-291).  What Prometheus and the log do meanwhile changes
   neither; the program ends instead only for a header without a long enough Path, be
   it Juniper's or another message, or in their race for a map. *)
NotificationKeepsUpdates ==
    /\ gPc = "panic" => HeaderOrRace
    /\ gPc = "done" =>
        /\ {xpaths[x].from : x \in DOMAIN xpaths} =
               {i \in DOMAIN gItems :
                    Field(i) /\ \A j \in i + 1 .. Len(gItems) : Field(j) => ItemPath(j) # ItemPath(i)}
        /\ \A i \in DOMAIN gItems : \A k \in ItemKeys(i) :
               /\ <<k[1], k[2]>> \in DOMAIN kvpairs
               /\ \/ kvpairs[<<k[1], k[2]>>] = k[3]
                  \/ \E j \in i + 1 .. Len(gItems) : \E l \in ItemKeys(j) :
                         <<l[1], l[2]>> = <<k[1], k[2]>> /\ l[3] # k[3]

=============================================================================

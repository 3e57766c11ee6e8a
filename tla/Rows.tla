-------------------------------- MODULE Rows --------------------------------
(***************************************************************************)
(* How addIDB (influx.go) makes the points of one OpenConfig packet: a       *)
(* loop over its key-value pairs that carries the last prefix and the rows   *)
(* made so far.  A path is a sequence of elements, each a name and its keys; *)
(* a field of a row remembers the pair it came from.                         *)
(***************************************************************************)
EXTENDS Integers, Sequences, Maps

CONSTANTS
    Kvs,          \* pairs a device may send: [key, abs, path, value]
    MaxKvs,       \* bound: pairs of a packet
    Alias,        \* jctx.alias.m: from paths without keys to shorter ones
    Measurement,  \* cfg.Influx.Measurement, "" if none
    SensorPath    \* ocData.Path, split at ":"

Names(path) == [i \in DOMAIN path |-> path[i].name]

getAlias(input) == IF input \in DOMAIN Alias THEN Alias[input] ELSE input

(* A tag is named after the element it is a key of. *)
TagName(path, i, k) == getAlias(Append(SubSeq(Names(path), 1, i), k))

RowValues == {"str", "uint", "num", "inf", "nan", "list", "nolist", "none"}

(* No two keys of a path become one tag; "nolist" is a leaf-list without strings. *)
ASSUME RowsAssumption ==
    /\ MaxKvs \in Nat
    /\ \A kv \in Kvs :
           /\ kv.key \in {"prefix", "meta", "leaf"} /\ kv.abs \in BOOLEAN /\ kv.value \in RowValues
           /\ kv.path \in Seq({kv.path[i] : i \in DOMAIN kv.path})
           /\ \A i, j \in DOMAIN kv.path : \A k \in DOMAIN kv.path[i].keys, l \in DOMAIN kv.path[j].keys :
                  TagName(kv.path, i, k) = TagName(kv.path, j, l) => i = j /\ k = l

VARIABLES
    rowKv,        \* ocData.Kv, up to the pair handled last
    rowUint,      \* EnableUintSupport
    rowClient,    \* influxClient # nil
    rowPc,        \* "loop", "done" or "panic"
    prefix,       \* the last prefix
    prefixXmlpath,
    prefixTags,   \* <<>> for nil, or <<tags>>
    rows,         \* [tags, fields] each
    rowPoints     \* rowPoints[n]: the point made of row n, [measurement, row]

rowVars == <<rowKv, rowUint, rowClient, rowPc, prefix, prefixXmlpath, prefixTags, rows, rowPoints>>

-----------------------------------------------------------------------------
RowInit ==
    /\ rowKv = <<>>
    /\ rowUint \in BOOLEAN /\ rowClient \in BOOLEAN
    /\ rowPc = "loop"
    /\ prefix = <<>> /\ prefixXmlpath = <<>> /\ prefixTags = <<>>
    /\ rows = <<>> /\ rowPoints = <<>>

HasKeys(path) == \E i \in DOMAIN path : path[i].keys # <<>>

(* spitTagsNPath: the path, which only one with keys has replaced by its alias ... *)
SplitPath(path) == IF HasKeys(path) THEN getAlias(Names(path)) ELSE Names(path)

(* ... and the tags. *)
SplitTags(path) ==
    UNION {{<<TagName(path, i, k), path[i].keys[k]>> : k \in DOMAIN path[i].keys} : i \in DOMAIN path}

KvPrefix(kv) ==
    /\ kv.key = "prefix"
    /\ prefix' = kv.path
    /\ prefixXmlpath' = SplitPath(kv.path)
    /\ prefixTags' = <<SplitTags(kv.path)>>
    /\ UNCHANGED <<rowPc, rows>>

(* The other pairs whose key starts with "__" *)
KvMeta(kv) == kv.key = "meta" /\ UNCHANGED <<rowPc, prefix, prefixXmlpath, prefixTags, rows>>

(* <<xmlpath, tags>> of a leaf, tags as in prefixTags *)
XmlAndTags(kv) ==
    CASE kv.abs        -> <<SplitPath(kv.path), <<SplitTags(kv.path)>>>>
      [] HasKeys(kv.path) /\ ~kv.abs
                       -> <<SplitPath(prefix \o kv.path), <<SplitTags(prefix \o kv.path)>>>>
      [] OTHER         -> <<getAlias(prefixXmlpath \o Names(kv.path)), prefixTags>>

(* What becomes of a value; an infinite float is replaced by the largest. *)
FieldValue(v) ==
    CASE v = "inf"  -> "max"
      [] v = "uint" -> IF rowUint THEN "uint" ELSE "float"
      [] v = "num"  -> "float"
      [] OTHER      -> v

(* Mutant of AddToRows: the tags are not compared with those of the last row. *)
AddToRowsUnchecked(xmlpath, tags, field) ==
    LET last == Len(rows)
    IN  rows' = IF last # 0
                THEN [rows EXCEPT ![last].fields = MapSet(@, xmlpath, field)]
                ELSE Append(rows, [tags |-> tags, fields |-> MapOf(xmlpath, field)])

(* A leaf with the tags of the last row joins it, another one starts a row. *)
AddToRows(xmlpath, tags, field) ==
    LET last == Len(rows)
    IN  rows' = IF last # 0 /\ rows[last].tags = tags
                THEN [rows EXCEPT ![last].fields = MapSet(@, xmlpath, field)]
                ELSE Append(rows, [tags |-> tags, fields |-> MapOf(xmlpath, field)])

(* A relative leaf before the first prefix has no tags and is skipped. *)
KvLeaf(kv) ==
    LET xt == XmlAndTags(kv)
    IN
    /\ kv.key = "leaf"
    /\ rowPc' = IF xt[2] # <<>> /\ kv.value = "nolist" THEN "panic" ELSE rowPc
    /\ IF xt[2] = <<>> \/ kv.value \in {"none", "nolist"} \/ ~rowClient
       THEN UNCHANGED rows
       ELSE AddToRows(xt[1], xt[2][1], [kv |-> Len(rowKv) + 1, val |-> FieldValue(kv.value)])
    /\ UNCHANGED <<prefix, prefixXmlpath, prefixTags>>

(* One round of the loop over ocData.Kv *)
NextKv ==
    /\ rowPc = "loop" /\ Len(rowKv) < MaxKvs
    /\ \E kv \in Kvs :
           /\ rowKv' = Append(rowKv, kv)
           /\ KvPrefix(kv) \/ KvMeta(kv) \/ KvLeaf(kv)
    /\ UNCHANGED <<rowUint, rowClient, rowPoints>>

mName ==
    CASE Measurement # ""     -> Measurement
      [] Len(SensorPath) = 4  -> SensorPath[3]
      [] OTHER                -> ""

(* client.NewPoint refuses a row with a field that is not a number. *)
Refused(r) == \E f \in DOMAIN r.fields : r.fields[f].val = "nan"

(* After the last pair *)
MakePoints ==
    /\ rowPc = "loop"
    /\ rowPc' = "done"
    /\ rowPoints' = [n \in {k \in DOMAIN rows : ~Refused(rows[k])} |->
                        [measurement |-> mName, row |-> rows[n]]]
    /\ UNCHANGED <<rowKv, rowUint, rowClient, prefix, prefixXmlpath, prefixTags, rows>>

RowNext == NextKv \/ MakePoints
RowSpec == RowInit /\ [][RowNext]_rowVars

-----------------------------------------------------------------------------
(* The number of the prefix pair i is relative to, 0 if there is none *)
PrefixOf(i) ==
    LET before == {j \in 1 .. i - 1 : rowKv[j].key = "prefix"}
    IN  IF before = {} THEN 0 ELSE CHOOSE j \in before : \A k \in before : k <= j

(* The path of leaf i as the device means it, and whether it has tags at all *)
FullPath(i) ==
    IF rowKv[i].abs \/ PrefixOf(i) = 0 THEN rowKv[i].path ELSE rowKv[PrefixOf(i)].path \o rowKv[i].path

(* The field it is to become: without keys of its own the path has its prefix and then
   the whole replaced by their aliases. *)
FieldName(i) ==
    IF rowKv[i].abs \/ HasKeys(rowKv[i].path) THEN SplitPath(FullPath(i))
    ELSE getAlias(SplitPath(rowKv[PrefixOf(i)].path) \o Names(rowKv[i].path))

Taken(i) ==
    /\ rowKv[i].key = "leaf" /\ rowKv[i].value # "none"
    /\ rowKv[i].abs \/ PrefixOf(i) # 0 \/ HasKeys(rowKv[i].path)

(* Leaf i is the field f of a row with the keys of its path. *)
IsField(r, f, i) ==
    /\ f \in DOMAIN r.fields /\ r.fields[f].kv = i
    /\ f = FieldName(i) /\ r.tags = SplitTags(FullPath(i))

(* Whatever order prefixes, absolute leaves and relative leaves come in, every leaf
   that has a value reaches a point under its name and with the keys of its whole path
   as tags, unless a leaf of the same name and tags comes later or a row it shares, one
   run of equal tags, holds a value that is not a number; and a point has no other
   fields (influx.go:447-570). *)
PointsKeepEveryLeaf ==
    rowPc = "done" /\ rowClient =>
        /\ \A i \in DOMAIN rowKv : Taken(i) =>
               \/ \E n \in DOMAIN rowPoints : IsField(rowPoints[n].row, FieldName(i), i)
               \/ \E j \in DOMAIN rowKv : /\ Taken(j) /\ SplitTags(FullPath(j)) = SplitTags(FullPath(i))
                                          /\ rowKv[j].value = "nan" \/ (j > i /\ FieldName(j) = FieldName(i))
        /\ \A n \in DOMAIN rowPoints : \A f \in DOMAIN rowPoints[n].row.fields :
               \E i \in DOMAIN rowKv : Taken(i) /\ IsField(rowPoints[n].row, f, i)

=============================================================================

---------------------------- MODULE PacketProofs ----------------------------
(***************************************************************************)
(* Theorems about the loops that make gNMI subscriptions of configured      *)
(* paths (GnmiPaths), and those that take a packet apart and put its points *)
(* together, gNMI notifications (GnmiParse) and OpenConfig packets (Rows):   *)
(* for any updates, paths, keys and aliases, and packets of any length.      *)
(***************************************************************************)
EXTENDS GnmiPaths, GnmiParse, Rows, SequenceTheorems, TLAPS

-----------------------------------------------------------------------------
(* Sequences and maps *)

LEMMA AppendIs ==
  ASSUME NEW S, NEW s \in Seq(S), NEW x \in S
  PROVE  /\ Append(s, x) \in Seq(S) /\ Len(s) \in Nat /\ Len(Append(s, x)) = Len(s) + 1
         /\ DOMAIN s = 1 .. Len(s) /\ DOMAIN Append(s, x) = 1 .. Len(s) + 1
         /\ \A i \in 1 .. Len(s) : Append(s, x)[i] = s[i]
         /\ Append(s, x)[Len(s) + 1] = x
  BY AppendProperties, LenProperties

LEMMA ConcatIs ==
  ASSUME NEW S, NEW s \in Seq(S), NEW T, NEW t \in Seq(T)
  PROVE  /\ s \o t \in Seq(S \cup T)
         /\ Len(s) \in Nat /\ Len(t) \in Nat /\ Len(s \o t) = Len(s) + Len(t)
         /\ DOMAIN s = 1 .. Len(s) /\ DOMAIN t = 1 .. Len(t) /\ DOMAIN (s \o t) = 1 .. Len(s) + Len(t)
         /\ \A i \in 1 .. Len(s) : (s \o t)[i] = s[i]
         /\ \A i \in 1 .. Len(t) : (s \o t)[Len(s) + i] = t[i]
  <1>1. s \in Seq(S \cup T) /\ t \in Seq(S \cup T)
    BY SeqMonotonic
  <1>2. /\ s \o t \in Seq(S \cup T) /\ Len(s \o t) = Len(s) + Len(t)
        /\ \A i \in 1 .. Len(s) + Len(t) : (s \o t)[i] = IF i <= Len(s) THEN s[i] ELSE t[i - Len(s)]
    BY <1>1, ConcatProperties
  <1>3. /\ Len(s) \in Nat /\ Len(t) \in Nat /\ DOMAIN s = 1 .. Len(s) /\ DOMAIN t = 1 .. Len(t)
        /\ DOMAIN (s \o t) = 1 .. Len(s) + Len(t)
    BY <1>1, <1>2, LenProperties
  <1>4. \A i \in 1 .. Len(s) : (s \o t)[i] = s[i]
    BY <1>2, <1>3
  <1>5. \A i \in 1 .. Len(t) : (s \o t)[Len(s) + i] = t[i]
    BY <1>2, <1>3
  <1> QED BY <1>2, <1>3, <1>4, <1>5

LEMMA ConcatLen ==
  ASSUME NEW S, NEW s \in Seq(S), NEW T, NEW t \in Seq(T)
  PROVE  Len(s \o t) = Len(s) + Len(t) /\ Len(s) \in Nat
  BY ConcatIs

LEMMA MapMergeIs ==
  ASSUME NEW m, NEW n
  PROVE  /\ DOMAIN MapMerge(n, m) = DOMAIN m \cup DOMAIN n
         /\ \A x \in DOMAIN n : MapMerge(n, m)[x] = n[x]
         /\ \A x \in DOMAIN m : x \notin DOMAIN n => MapMerge(n, m)[x] = m[x]
  BY DEF MapMerge

-----------------------------------------------------------------------------
(* gNMI notifications *)

(* A key is named after the path up to its element, and paths up to different elements
   have different lengths: no two keys of a path are one tag. *)
LEMMA PrefixLengths ==
  ASSUME NEW S, NEW pre \in Seq(S), NEW pes, IsPath(pes), NEW i \in DOMAIN pes
  PROVE  Len(PathFrom(pre, SubSeq(pes, 1, i))) = Len(pre) + i /\ i \in Nat /\ Len(pre) \in Nat
  <1> DEFINE T == {pes[j] : j \in DOMAIN pes}
             s == SubSeq(pes, 1, i)
             names == [j \in DOMAIN s |-> s[j].name]
             N == {s[j].name : j \in DOMAIN s}
  <1>1. pes \in Seq(T) /\ DOMAIN pes = 1 .. Len(pes) /\ Len(pes) \in Nat
    BY LenProperties DEF IsPath
  <1>2. s \in Seq(T) /\ Len(s) = i
    BY <1>1, SubSeqProperties
  <1>3. DOMAIN s = 1 .. i /\ i \in Nat
    BY <1>1, <1>2, LenProperties
  <1>4. names \in Seq(N) /\ Len(names) = i
    BY <1>3, IsASeq
  <1>5. PathFrom(pre, s) = pre \o names
    BY DEF PathFrom
  <1> HIDE DEF names, N, s
  <1>6. Len(pre \o names) = Len(pre) + i /\ Len(pre) \in Nat
    BY <1>4, ConcatLen, Zenon
  <1> QED BY <1>3, <1>5, <1>6 DEF s

LEMMA KeysAreUnique ==
  ASSUME NEW S, NEW pre \in Seq(S), NEW pes, IsPath(pes),
         NEW k \in KeysFrom(pre, pes), NEW l \in KeysFrom(pre, pes), k[1] = l[1], k[2] = l[2]
  PROVE  k[3] = l[3]
  <1>1. PICK i \in DOMAIN pes : \E x \in DOMAIN pes[i].keys :
            k = <<PathFrom(pre, SubSeq(pes, 1, i)), x, pes[i].keys[x]>>
    BY DEF KeysFrom
  <1>2. PICK j \in DOMAIN pes : \E y \in DOMAIN pes[j].keys :
            l = <<PathFrom(pre, SubSeq(pes, 1, j)), y, pes[j].keys[y]>>
    BY DEF KeysFrom
  <1>3. Len(k[1]) = Len(pre) + i /\ Len(l[1]) = Len(pre) + j /\ i \in Nat /\ j \in Nat /\ Len(pre) \in Nat
    BY <1>1, <1>2, PrefixLengths
  <1>4. i = j
    BY <1>3
  <1> QED BY <1>1, <1>2, <1>4

LEMMA WithKeysIs ==
  ASSUME NEW kv, NEW keys
  PROVE  /\ \A k \in keys : <<k[1], k[2]>> \in DOMAIN WithKeys(kv, keys)
         /\ \A t \in DOMAIN kv : t \in DOMAIN WithKeys(kv, keys)
         /\ \A t \in DOMAIN kv : \/ WithKeys(kv, keys)[t] = kv[t]
                                 \/ \E l \in keys : <<l[1], l[2]>> = t /\ WithKeys(kv, keys)[t] = l[3]
         /\ \A k \in keys : \E l \in keys :
                <<l[1], l[2]>> = <<k[1], k[2]>> /\ WithKeys(kv, keys)[<<k[1], k[2]>>] = l[3]
  <1> DEFINE n == KeyMap(keys)
             w == MapMerge(n, kv)
  <1>1. w = WithKeys(kv, keys)
    BY DEF WithKeys
  <1>2. DOMAIN n = {<<k[1], k[2]>> : k \in keys}
    BY DEF KeyMap
  <1>3. \A t \in DOMAIN n : \E l \in keys : <<l[1], l[2]>> = t /\ n[t] = l[3]
    BY DEF KeyMap
  <1> HIDE DEF n
  <1>4. /\ DOMAIN w = DOMAIN kv \cup DOMAIN n
        /\ \A x \in DOMAIN n : w[x] = n[x]
        /\ \A x \in DOMAIN kv : x \notin DOMAIN n => w[x] = kv[x]
    BY MapMergeIs
  <1> HIDE DEF w
  <1>5. \A k \in keys : <<k[1], k[2]>> \in DOMAIN n
    BY <1>2
  <1>6. \A k \in keys : \E l \in keys : <<l[1], l[2]>> = <<k[1], k[2]>> /\ w[<<k[1], k[2]>>] = l[3]
    <2> TAKE k \in keys
    <2> DEFINE t == <<k[1], k[2]>>
    <2>1. t \in DOMAIN n
      BY <1>5
    <2> HIDE DEF t
    <2>2. \E l \in keys : <<l[1], l[2]>> = t /\ w[t] = l[3]
      BY <1>3, <1>4, <2>1
    <2> QED BY <2>2 DEF t
  <1>7. \A t \in DOMAIN kv : w[t] = kv[t] \/ \E l \in keys : <<l[1], l[2]>> = t /\ w[t] = l[3]
    BY <1>3, <1>4
  <1> QED BY <1>1, <1>4, <1>5, <1>6, <1>7

GnItem == GnUpdates \cup {[hasPath |-> TRUE, path |-> p, list |-> FALSE, val |-> <<"delete">>] : p \in GnDeletes}

GnTypes ==
    /\ gItems \in Seq(GnItem) /\ gPrefix \in GnPrefixes
    /\ \A x \in DOMAIN xpaths : xpaths[x] = [from |-> xpaths[x].from, type |-> xpaths[x].type]

IsFieldItem(u) == u.hasPath /\ (Internal(u.path) = {} \/ u.val = <<"delete">>)
PathOf(u) == PathFrom(prefixPath, u.path)
KeysOf(u) == KeysFrom(prefixPath, u.path)

(* A field comes from the last item with its path, and is a list of strings only if that is
   a list; every item has a field. *)
FieldsAreItems ==
    \A x \in DOMAIN xpaths :
        /\ xpaths[x].from \in DOMAIN gItems
        /\ IsFieldItem(gItems[xpaths[x].from]) /\ PathOf(gItems[xpaths[x].from]) = x
        /\ \A j \in DOMAIN gItems : IsFieldItem(gItems[j]) /\ PathOf(gItems[j]) = x => j <= xpaths[x].from
        /\ xpaths[x].type = "strings" => gItems[xpaths[x].from].list
ItemsAreFields ==
    \A i \in DOMAIN gItems : IsFieldItem(gItems[i]) => PathOf(gItems[i]) \in DOMAIN xpaths

(* The keys of every item are tags, with the value of the last that has them. *)
KeysAreTags ==
    \A i \in DOMAIN gItems : \A k \in KeysOf(gItems[i]) :
        /\ <<k[1], k[2]>> \in DOMAIN kvpairs
        /\ \/ kvpairs[<<k[1], k[2]>>] = k[3]
           \/ \E j \in i + 1 .. Len(gItems) : \E l \in KeysOf(gItems[j]) :
                  <<l[1], l[2]>> = <<k[1], k[2]>> /\ l[3] # k[3]

(* publishToPrometheus runs beside the handler only where it is asked to, and a panic has
   one of its two reasons. *)
PanicHasReason ==
    /\ gProm # "off" => gOpt.prom /\ ~gOpt.inline
    /\ gPc = "panic" => HeaderOrRace

GnInv == GnTypes /\ FieldsAreItems /\ ItemsAreFields /\ KeysAreTags /\ PanicHasReason

LEMMA GnItemsArePaths ==
  ASSUME NEW u \in GnItem
  PROVE  IsPath(u.path)
  BY GnAssumption DEF GnItem

LEMMA PrefixIsSeq ==
  ASSUME GnTypes
  PROVE  \E S : prefixPath \in Seq(S)
  <1> DEFINE o == IF gOpt.removeNS \/ gPrefix.origin = "" THEN <<>> ELSE <<gPrefix.origin>>
             e == gPrefix.elems
             names == [j \in DOMAIN e |-> e[j].name]
             N == {e[j].name : j \in DOMAIN e}
  <1>1. o \in Seq({gPrefix.origin})
    <2>1. <<>> \in Seq({gPrefix.origin}) /\ <<gPrefix.origin>> \in Seq({gPrefix.origin})
      BY EmptySeq
    <2> QED BY <2>1
  <1>2. IsPath(e)
    BY GnAssumption DEF GnTypes
  <1>3. DOMAIN e = 1 .. Len(e) /\ Len(e) \in Nat
    BY <1>2, LenProperties DEF IsPath
  <1>4. names \in Seq(N)
    BY <1>3, IsASeq
  <1>5. prefixPath = o \o names
    BY DEF prefixPath, PathFrom
  <1> HIDE DEF o, names, N
  <1>6. o \o names \in Seq({gPrefix.origin} \cup N)
    BY <1>1, <1>4, ConcatIs
  <1> QED BY <1>5, <1>6

(* One more item *)
AddsItem(u) ==
    /\ gItems' = Append(gItems, u)
    /\ kvpairs' = WithKeys(Tags, KeysFrom(prefixPath, u.path))
    /\ UNCHANGED <<gOpt, gPrefix>>

LEMMA AddsItemIs ==
  ASSUME GnTypes, NEW u \in GnItem, AddsItem(u), NEW n, n = Len(gItems) + 1
  PROVE  /\ gItems' \in Seq(GnItem) /\ n \in Nat \ {0} /\ Len(gItems) = n - 1 /\ Len(gItems') = n
         /\ DOMAIN gItems = 1 .. n - 1 /\ DOMAIN gItems' = 1 .. n
         /\ gItems'[n] = u /\ \A i \in 1 .. n - 1 : gItems'[i] = gItems[i]
         /\ \A x \in GnItem : PathOf(x)' = PathOf(x) /\ KeysOf(x)' = KeysOf(x)
         /\ \A i \in 1 .. n - 1 : gItems[i] \in GnItem
  <1>1. /\ gItems' \in Seq(GnItem) /\ Len(gItems) \in Nat /\ Len(gItems') = Len(gItems) + 1
        /\ DOMAIN gItems = 1 .. Len(gItems) /\ DOMAIN gItems' = 1 .. Len(gItems) + 1
        /\ gItems'[Len(gItems) + 1] = u
        /\ \A i \in 1 .. Len(gItems) : gItems'[i] = gItems[i]
    BY AppendIs DEF GnTypes, AddsItem
  <1>2. prefixPath' = prefixPath
    BY DEF AddsItem, prefixPath
  <1>3. \A x \in GnItem : PathOf(x)' = PathOf(x) /\ KeysOf(x)' = KeysOf(x)
    BY <1>2 DEF PathOf, KeysOf
  <1>4. \A i \in 1 .. Len(gItems) : gItems[i] \in GnItem
    BY <1>1, ElementOfSeq DEF GnTypes
  <1> QED BY <1>1, <1>3, <1>4

LEMMA AddsKeys ==
  ASSUME GnTypes, KeysAreTags, NEW u \in GnItem, AddsItem(u)
  PROVE  KeysAreTags'
  <1>0. PICK n : n = Len(gItems) + 1
    OBVIOUS
  <1>a. PICK keys : keys = KeysOf(u)
    OBVIOUS
  <1>1. /\ \A k \in keys : <<k[1], k[2]>> \in DOMAIN kvpairs'
        /\ \A t \in DOMAIN Tags : t \in DOMAIN kvpairs'
        /\ \A t \in DOMAIN Tags : \/ kvpairs'[t] = Tags[t]
                                  \/ \E l \in keys : <<l[1], l[2]>> = t /\ kvpairs'[t] = l[3]
        /\ \A k \in keys : \E l \in keys :
               <<l[1], l[2]>> = <<k[1], k[2]>> /\ kvpairs'[<<k[1], k[2]>>] = l[3]
    <2>1. kvpairs' = WithKeys(Tags, keys)
      BY <1>a DEF AddsItem, KeysOf
    <2> QED BY <2>1, WithKeysIs
  <1>2. /\ n \in Nat \ {0} /\ Len(gItems) = n - 1 /\ Len(gItems') = n
        /\ DOMAIN gItems = 1 .. n - 1 /\ DOMAIN gItems' = 1 .. n
        /\ gItems'[n] = u /\ (\A i \in 1 .. n - 1 : gItems'[i] = gItems[i])
        /\ \A x \in GnItem : KeysOf(x)' = KeysOf(x)
        /\ \A i \in 1 .. n - 1 : gItems[i] \in GnItem
    BY <1>0, AddsItemIs
  <1>3. \A k, l \in keys : k[1] = l[1] /\ k[2] = l[2] => k[3] = l[3]
    BY <1>a, PrefixIsSeq, GnItemsArePaths, KeysAreUnique DEF KeysOf
  <1>4. ASSUME NEW i \in 1 .. n - 1, NEW k \in KeysOf(gItems[i])
        PROVE  /\ <<k[1], k[2]>> \in DOMAIN kvpairs'
               /\ \/ kvpairs'[<<k[1], k[2]>>] = k[3]
                  \/ \E j \in i + 1 .. n - 1 : \E l \in KeysOf(gItems[j]) :
                         <<l[1], l[2]>> = <<k[1], k[2]>> /\ l[3] # k[3]
                  \/ \E l \in keys : <<l[1], l[2]>> = <<k[1], k[2]>> /\ l[3] # k[3]
    <2>0. PICK t : t = <<k[1], k[2]>>
      OBVIOUS
    <2>1. Tags = kvpairs
      BY <1>2, <1>4 DEF Tags
    <2>2. /\ t \in DOMAIN kvpairs
          /\ \/ kvpairs[t] = k[3]
             \/ \E j \in i + 1 .. n - 1 : \E l \in KeysOf(gItems[j]) : <<l[1], l[2]>> = t /\ l[3] # k[3]
      BY <1>2, <1>4, <2>0 DEF KeysAreTags
    <2>3. t \in DOMAIN kvpairs'
      BY <1>1, <2>1, <2>2
    <2>4. kvpairs'[t] = kvpairs[t] \/ \E l \in keys : <<l[1], l[2]>> = t /\ kvpairs'[t] = l[3]
      BY <1>1, <2>1, <2>2
    <2> QED BY <2>0, <2>2, <2>3, <2>4
  <1>5. ASSUME NEW k \in keys
        PROVE  <<k[1], k[2]>> \in DOMAIN kvpairs' /\ kvpairs'[<<k[1], k[2]>>] = k[3]
    <2>1. PICK l \in keys : <<l[1], l[2]>> = <<k[1], k[2]>> /\ kvpairs'[<<k[1], k[2]>>] = l[3]
      BY <1>1, <1>5
    <2> QED BY <1>1, <1>3, <1>5, <2>1
  <1> SUFFICES ASSUME NEW i \in DOMAIN gItems', NEW k \in KeysOf(gItems[i])'
               PROVE  /\ <<k[1], k[2]>> \in DOMAIN kvpairs'
                      /\ \/ kvpairs'[<<k[1], k[2]>>] = k[3]
                         \/ \E j \in i + 1 .. Len(gItems') : \E l \in KeysOf(gItems[j])' :
                                <<l[1], l[2]>> = <<k[1], k[2]>> /\ l[3] # k[3]
    BY DEF KeysAreTags
  <1>b. \A j \in 1 .. n - 1 : KeysOf(gItems[j])' = KeysOf(gItems[j])
    <2>1. prefixPath' = prefixPath
      BY DEF AddsItem, prefixPath
    <2> QED BY <1>2, <2>1 DEF KeysOf
  <1>c. KeysOf(gItems[n])' = keys
    <2>1. prefixPath' = prefixPath
      BY DEF AddsItem, prefixPath
    <2> QED BY <1>2, <1>a, <2>1 DEF KeysOf
  <1>6. CASE i \in 1 .. n - 1
    <2>1. k \in KeysOf(gItems[i])
      BY <1>6, <1>b
    <2>2. CASE \E j \in i + 1 .. n - 1 : \E l \in KeysOf(gItems[j]) : <<l[1], l[2]>> = <<k[1], k[2]>> /\ l[3] # k[3]
      <3>1. PICK j \in i + 1 .. n - 1 : \E l \in KeysOf(gItems[j]) : <<l[1], l[2]>> = <<k[1], k[2]>> /\ l[3] # k[3]
        BY <2>2
      <3>2. j \in i + 1 .. Len(gItems') /\ KeysOf(gItems[j])' = KeysOf(gItems[j])
        BY <1>2, <1>6, <1>b
      <3> QED BY <1>4, <1>6, <2>1, <3>1, <3>2
    <2>3. CASE \E l \in keys : <<l[1], l[2]>> = <<k[1], k[2]>> /\ l[3] # k[3]
      <3>1. n \in i + 1 .. Len(gItems')
        BY <1>2, <1>6
      <3> QED BY <1>4, <1>6, <1>c, <2>1, <2>3, <3>1
    <2> QED BY <1>4, <1>6, <2>1, <2>2, <2>3
  <1>7. CASE i = n
    BY <1>5, <1>7, <1>c
  <1> QED BY <1>2, <1>6, <1>7

(* It becomes the field PathOf(u), ... *)
LEMMA AddsField ==
  ASSUME GnTypes, FieldsAreItems, ItemsAreFields, NEW u \in GnItem, AddsItem(u), NEW t,
         IsFieldItem(u), t = "strings" => u.list,
         xpaths' = MapSet(xpaths, PathOf(u), [from |-> Len(gItems) + 1, type |-> t])
  PROVE  GnTypes' /\ FieldsAreItems' /\ ItemsAreFields'
  <1>0. PICK n : n = Len(gItems) + 1
    OBVIOUS
  <1>a. PICK x : x = PathOf(u)
    OBVIOUS
  <1>b. PICK v : v = [from |-> n, type |-> t]
    OBVIOUS
  <1>1. /\ gItems' \in Seq(GnItem) /\ n \in Nat \ {0}
        /\ DOMAIN gItems = 1 .. n - 1 /\ DOMAIN gItems' = 1 .. n
        /\ gItems'[n] = u /\ (\A i \in 1 .. n - 1 : gItems'[i] = gItems[i])
        /\ \A i \in 1 .. n - 1 : gItems[i] \in GnItem
    BY <1>0, AddsItemIs
  <1>2. prefixPath' = prefixPath
    BY DEF AddsItem, prefixPath
  <1>3. /\ \A i \in 1 .. n - 1 : PathOf(gItems[i])' = PathOf(gItems[i])
        /\ PathOf(gItems[n])' = x
    BY <1>1, <1>2, <1>a DEF PathOf
  <1>4. /\ DOMAIN xpaths' = DOMAIN xpaths \cup {x} /\ xpaths'[x] = v
        /\ \A y \in DOMAIN xpaths : y # x => xpaths'[y] = xpaths[y]
    <2>1. xpaths' = MapSet(xpaths, x, v)
      BY <1>0, <1>a, <1>b
    <2> QED BY <2>1, Zenon DEF MapSet
  <1>5. v.from = n /\ v.type = t /\ v = [from |-> v.from, type |-> v.type]
    BY <1>b
  <1>6. GnTypes'
    BY <1>1, <1>4, <1>5 DEF GnTypes, AddsItem
  <1>7. ItemsAreFields'
    <2> SUFFICES ASSUME NEW i \in 1 .. n, IsFieldItem(gItems'[i]) PROVE PathOf(gItems[i])' \in DOMAIN xpaths'
      BY <1>1 DEF ItemsAreFields, PathOf
    <2>1. CASE i = n
      BY <1>3, <1>4, <2>1
    <2>2. CASE i \in 1 .. n - 1
      <3>1. PathOf(gItems[i]) \in DOMAIN xpaths
        BY <1>1, <2>2 DEF ItemsAreFields
      <3> QED BY <1>3, <1>4, <2>2, <3>1
    <2> QED BY <1>1, <2>1, <2>2
  <1>8. FieldsAreItems'
    <2> SUFFICES ASSUME NEW y \in DOMAIN xpaths', NEW f, f = xpaths'[y].from
                 PROVE  /\ f \in DOMAIN gItems' /\ IsFieldItem(gItems'[f]) /\ PathOf(gItems[f])' = y
                        /\ \A j \in DOMAIN gItems' : IsFieldItem(gItems'[j]) /\ PathOf(gItems[j])' = y => j <= f
                        /\ xpaths'[y].type = "strings" => gItems'[f].list
      BY DEF FieldsAreItems, PathOf
    <2>1. CASE y = x
      BY <1>1, <1>3, <1>4, <1>5, <2>1
    <2>2. CASE y # x
      <3>1. y \in DOMAIN xpaths /\ xpaths'[y] = xpaths[y]
        BY <1>4, <2>2
      <3>2. /\ f \in 1 .. n - 1 /\ IsFieldItem(gItems[f]) /\ PathOf(gItems[f]) = y
            /\ \A j \in 1 .. n - 1 : IsFieldItem(gItems[j]) /\ PathOf(gItems[j]) = y => j <= f
            /\ xpaths[y].type = "strings" => gItems[f].list
        BY <1>1, <3>1 DEF FieldsAreItems
      <3>3. \A j \in DOMAIN gItems' : PathOf(gItems[j])' = y => j \in 1 .. n - 1
        BY <1>1, <1>3, <2>2
      <3> QED BY <1>1, <1>3, <3>1, <3>2, <3>3
    <2> QED BY <2>1, <2>2
  <1> QED BY <1>6, <1>7, <1>8

(* ... or none. *)
LEMMA AddsNoField ==
  ASSUME GnTypes, FieldsAreItems, ItemsAreFields, NEW u \in GnItem, AddsItem(u),
         ~IsFieldItem(u), xpaths' = xpaths
  PROVE  GnTypes' /\ FieldsAreItems' /\ ItemsAreFields'
  <1>0. PICK n : n = Len(gItems) + 1
    OBVIOUS
  <1>1. /\ gItems' \in Seq(GnItem) /\ n \in Nat \ {0}
        /\ DOMAIN gItems = 1 .. n - 1 /\ DOMAIN gItems' = 1 .. n
        /\ gItems'[n] = u /\ (\A i \in 1 .. n - 1 : gItems'[i] = gItems[i])
    BY <1>0, AddsItemIs
  <1>2. prefixPath' = prefixPath
    BY DEF AddsItem, prefixPath
  <1>3. GnTypes'
    BY <1>1 DEF GnTypes, AddsItem
  <1>4. \A j \in DOMAIN gItems' : IsFieldItem(gItems'[j]) => j \in 1 .. n - 1
    BY <1>1
  <1>5. ItemsAreFields'
    BY <1>1, <1>2, <1>4 DEF ItemsAreFields, PathOf
  <1>6. FieldsAreItems'
    BY <1>1, <1>2, <1>4 DEF FieldsAreItems, PathOf
  <1> QED BY <1>3, <1>5, <1>6

(* A list of strings comes from a list. *)
LEMMA StringsAreLists ==
  ASSUME NEW u \in GnUpdates, ValueType(u, FALSE) = "strings"
  PROVE  u.list
  <1> SUFFICES ASSUME ~u.list PROVE FALSE
    OBVIOUS
  <1>1. ValueType(u, FALSE) = ScalarType(u.val[1], FALSE) /\ u.val[1] # "strings"
    BY GnAssumption DEF ValueType
  <1>2. PICK k : k = u.val[1]
    OBVIOUS
  <1>3. ScalarType(k, FALSE) \in {"string", "int64", "uint64", "float64", "error", k}
    BY DEF ScalarType
  <1> QED BY <1>1, <1>2, <1>3

LEMMA UpdateStep ==
  ASSUME GnInv, gPc # "panic", NEW u \in GnUpdates, ParseUpdate(u)
  PROVE  GnInv'
  <1> USE DEF GnInv
  <1>1. u \in GnItem /\ u.val # <<"delete">>
    BY GnAssumption DEF GnItem
  <1>2. AddsItem(u)
    BY DEF ParseUpdate, AddsItem
  <1>3. KeysAreTags'
    BY <1>1, <1>2, AddsKeys
  <1>4. GnTypes' /\ FieldsAreItems' /\ ItemsAreFields'
    <2>1. CASE Internal(u.path) = {}
      <3>1. xpaths' = MapSet(xpaths, PathOf(u), [from |-> Len(gItems) + 1, type |-> ValueType(u, FALSE)])
        BY <2>1 DEF ParseUpdate, PathOf
      <3>2. IsFieldItem(u)
        BY <2>1 DEF IsFieldItem, ParseUpdate
      <3> QED BY <1>1, <1>2, <3>1, <3>2, AddsField, StringsAreLists
    <2>2. CASE Internal(u.path) # {}
      <3>1. xpaths' = xpaths
        BY <2>2 DEF ParseUpdate
      <3>2. ~IsFieldItem(u)
        BY <1>1, <2>2 DEF IsFieldItem
      <3> QED BY <1>1, <1>2, <3>1, <3>2, AddsNoField
    <2> QED BY <2>1, <2>2
  <1>5. PanicHasReason'
    <2>1. gPc' \in {"failed", gPc} /\ UNCHANGED <<gOpt, gProm>>
      BY DEF ParseUpdate
    <2> QED BY <2>1 DEF PanicHasReason
  <1> QED BY <1>3, <1>4, <1>5

LEMMA SkipStep ==
  ASSUME GnInv, NEW u \in GnUpdates, SkipUpdate(u)
  PROVE  GnInv'
  <1> USE DEF GnInv
  <1>1. u \in GnItem /\ ~IsFieldItem(u) /\ xpaths' = xpaths
    BY DEF GnItem, SkipUpdate, IsFieldItem
  <1>2. AddsItem(u)
    BY DEF SkipUpdate, AddsItem
  <1>3. KeysAreTags'
    BY <1>1, <1>2, AddsKeys
  <1>4. GnTypes' /\ FieldsAreItems' /\ ItemsAreFields'
    BY <1>1, <1>2, AddsNoField
  <1>5. PanicHasReason'
    <2>1. UNCHANGED <<gOpt, gPc, gProm, jHeader>> /\ gItems' = Append(gItems, u)
      BY DEF SkipUpdate
    <2>2. HeaderOrRace => HeaderOrRace'
      <3>1. PICK n : n = Len(gItems) + 1
        OBVIOUS
      <3>2. DOMAIN gItems = 1 .. n - 1 /\ DOMAIN gItems' = 1 .. n /\ n \in Nat \ {0}
            /\ \A i \in 1 .. n - 1 : gItems'[i] = gItems[i]
        BY <1>1, <1>2, <3>1, AddsItemIs
      <3> QED BY <2>1, <3>2 DEF HeaderOrRace
    <2> QED BY <2>1, <2>2 DEF PanicHasReason
  <1> QED BY <1>3, <1>4, <1>5

LEMMA DeleteStep ==
  ASSUME GnInv, NEW p \in GnDeletes, ParseDelete(p)
  PROVE  GnInv'
  <1> USE DEF GnInv
  <1> DEFINE u == [hasPath |-> TRUE, path |-> p, list |-> FALSE, val |-> <<"delete">>]
  <1>1. u \in GnItem /\ u.hasPath /\ u.val = <<"delete">> /\ u.path = p
    BY DEF GnItem
  <1>2. AddsItem(u)
    BY <1>1 DEF ParseDelete, AddsItem
  <1> HIDE DEF u
  <1>3. KeysAreTags'
    BY <1>1, <1>2, AddsKeys
  <1>4. GnTypes' /\ FieldsAreItems' /\ ItemsAreFields'
    <2>1. xpaths' = MapSet(xpaths, PathOf(u), [from |-> Len(gItems) + 1, type |-> "nil"])
      BY <1>1 DEF ParseDelete, PathOf
    <2>2. IsFieldItem(u) /\ ("nil" = "strings" => u.list)
      BY <1>1 DEF IsFieldItem
    <2> QED BY <1>1, <1>2, <2>1, <2>2, AddsField
  <1>5. PanicHasReason'
    BY DEF ParseDelete, PanicHasReason
  <1> QED BY <1>3, <1>4, <1>5

(* The steps after the last item add no field and no tag. *)
LEMMA SameItems ==
  ASSUME GnTypes, FieldsAreItems, ItemsAreFields, KeysAreTags,
         UNCHANGED <<gOpt, gPrefix, gItems, kvpairs>>,
         DOMAIN xpaths' = DOMAIN xpaths,
         \A x \in DOMAIN xpaths :
             \/ xpaths'[x] = xpaths[x]
             \/ xpaths'[x] = [xpaths[x] EXCEPT !.type = "string"]
  PROVE  GnTypes' /\ FieldsAreItems' /\ ItemsAreFields' /\ KeysAreTags'
  <1>1. prefixPath' = prefixPath
    BY DEF prefixPath
  <1>2. \A x \in DOMAIN xpaths :
            /\ xpaths'[x] = [from |-> xpaths'[x].from, type |-> xpaths'[x].type]
            /\ xpaths'[x].from = xpaths[x].from
            /\ xpaths'[x].type \in {"string", xpaths[x].type}
    BY DEF GnTypes
  <1>3. GnTypes'
    BY <1>2 DEF GnTypes
  <1>4. FieldsAreItems'
    BY <1>1, <1>2 DEF FieldsAreItems, PathOf
  <1>5. ItemsAreFields' /\ KeysAreTags'
    BY <1>1 DEF ItemsAreFields, KeysAreTags, PathOf, KeysOf
  <1> QED BY <1>3, <1>4, <1>5

LEMMA HeaderStep ==
  ASSUME GnInv, ParseHeader
  PROVE  GnInv'
  <1> USE DEF GnInv
  <1>1. UNCHANGED <<gOpt, gPrefix, gItems, kvpairs, xpaths>>
    BY DEF ParseHeader
  <1>2. GnTypes' /\ FieldsAreItems' /\ ItemsAreFields' /\ KeysAreTags'
    BY <1>1, SameItems
  <1>3. gPc' = "panic" => jHeader' \in ShortPaths
    BY Zenon DEF ParseHeader
  <1>4. gProm' # "off" => gOpt.prom /\ ~gOpt.inline
    BY DEF ParseHeader
  <1> QED BY <1>1, <1>2, <1>3, <1>4 DEF PanicHasReason, HeaderOrRace

LEMMA PromStep ==
  ASSUME GnInv, PromTags \/ PromFields
  PROVE  GnInv'
  <1> USE DEF GnInv
  <1>1. UNCHANGED <<gOpt, gPrefix, gItems, gPc, kvpairs, xpaths, jHeader>> /\ gProm # "off"
    BY DEF PromTags, PromFields
  <1>2. GnTypes' /\ FieldsAreItems' /\ ItemsAreFields' /\ KeysAreTags'
    BY <1>1, SameItems
  <1> QED BY <1>1, <1>2 DEF PanicHasReason, HeaderOrRace

LEMMA PrintStep ==
  ASSUME GnInv, PrintTags
  PROVE  GnInv'
  <1> USE DEF GnInv
  <1>1. UNCHANGED <<gOpt, gPrefix, gItems, kvpairs, xpaths, jHeader, gProm>>
    BY DEF PrintTags
  <1>2. GnTypes' /\ FieldsAreItems' /\ ItemsAreFields' /\ KeysAreTags'
    BY <1>1, SameItems
  <1>3. gPc' = "panic" => gProm # "off" /\ gOpt.verbose
    BY DEF PrintTags, AddsTags
  <1> QED BY <1>1, <1>2, <1>3 DEF PanicHasReason, HeaderOrRace

LEMMA PublishStep ==
  ASSUME GnInv, publishToInflux
  PROVE  GnInv'
  <1> USE DEF GnInv
  <1>1. UNCHANGED <<gOpt, gPrefix, gItems, kvpairs, jHeader, gProm>>
    BY DEF publishToInflux
  <1>2. DOMAIN xpaths' = DOMAIN xpaths /\ \A x \in DOMAIN xpaths :
            xpaths'[x] = xpaths[x] \/ xpaths'[x] = [xpaths[x] EXCEPT !.type = "string"]
    BY DEF publishToInflux
  <1>3. GnTypes' /\ FieldsAreItems' /\ ItemsAreFields' /\ KeysAreTags'
    BY <1>1, <1>2, SameItems
  <1>4. ASSUME gPc' = "panic" PROVE HeaderOrRace'
    <2>1. gProm = "fields" /\ Joined # {}
      BY <1>4 DEF publishToInflux
    <2>2. PICK x \in DOMAIN xpaths : xpaths[x].type = "strings"
      BY <2>1 DEF Joined
    <2>3. xpaths[x].from \in DOMAIN gItems /\ gItems[xpaths[x].from].list
      BY <2>2 DEF FieldsAreItems
    <2>4. gOpt.prom /\ ~gOpt.inline
      BY <2>1 DEF PanicHasReason
    <2> QED BY <1>1, <2>3, <2>4 DEF HeaderOrRace
  <1>5. gProm' # "off" => gOpt'.prom /\ ~gOpt'.inline
    BY <1>1 DEF PanicHasReason
  <1> QED BY <1>3, <1>4, <1>5 DEF PanicHasReason

LEMMA GnInductive == GnSpec => []GnInv
  <1>1. GnInit => GnInv
    <2> SUFFICES ASSUME GnInit PROVE GnInv
      OBVIOUS
    <2>1. DOMAIN gItems = {} /\ DOMAIN xpaths = {} /\ gItems \in Seq(GnItem)
      BY EmptySeq DEF GnInit
    <2> QED BY <2>1 DEF GnInit, GnInv, GnTypes, FieldsAreItems, ItemsAreFields, KeysAreTags, PanicHasReason
  <1>2. GnInv /\ [GnNext]_gnVars => GnInv'
    <2> SUFFICES ASSUME GnInv, [GnNext]_gnVars PROVE GnInv'
      OBVIOUS
    <2>1. CASE GnNext
      BY <2>1, UpdateStep, SkipStep, DeleteStep, HeaderStep, PromStep, PrintStep, PublishStep
      DEF GnNext
    <2>2. CASE UNCHANGED gnVars
      <3>1. UNCHANGED <<gOpt, gPrefix, gItems, gPc, kvpairs, xpaths, jHeader, gProm>>
        BY <2>2 DEF gnVars
      <3>2. GnTypes' /\ FieldsAreItems' /\ ItemsAreFields' /\ KeysAreTags'
        BY <3>1, SameItems DEF GnInv
      <3> QED BY <3>1, <3>2 DEF GnInv, PanicHasReason, HeaderOrRace
    <2> QED BY <2>1, <2>2
  <1> QED BY <1>1, <1>2, PTL DEF GnSpec

(* A published notification has a field for every delete and every update with a path,
   but for those overwritten by a later one of the same names, and no other; every key is
   a tag unless a later path gives it another value; and only a header whose Path has no
   third part, Juniper's or not, or the race with publishToPrometheus ends the program
   (subscribe_gnmi.go:205-209, 386-429, gnmi_utils.go:225-291).  For any notification. *)
THEOREM UpdatesAreKept == GnSpec => []NotificationKeepsUpdates
  <1>1. GnInv => NotificationKeepsUpdates
    <2> SUFFICES ASSUME GnInv PROVE NotificationKeepsUpdates
      OBVIOUS
    <2> USE DEF GnInv
    <2>1. gPc = "panic" => HeaderOrRace
      BY DEF PanicHasReason
    <2>2. DOMAIN gItems = 1 .. Len(gItems) /\ Len(gItems) \in Nat
      BY LenProperties DEF GnTypes
    <2> DEFINE Kept == {i \in DOMAIN gItems :
                    Field(i) /\ \A j \in i + 1 .. Len(gItems) : Field(j) => ItemPath(j) # ItemPath(i)}
    <2>3. \A i \in DOMAIN gItems : /\ Field(i) <=> IsFieldItem(gItems[i])
                                   /\ ItemPath(i) = PathOf(gItems[i]) /\ ItemKeys(i) = KeysOf(gItems[i])
      BY DEF Field, IsFieldItem, ItemPath, PathOf, ItemKeys, KeysOf
    <2>4. ASSUME NEW x \in DOMAIN xpaths PROVE xpaths[x].from \in Kept
      <3>0. PICK f : f = xpaths[x].from
        OBVIOUS
      <3>1. /\ f \in DOMAIN gItems /\ Field(f) /\ ItemPath(f) = x
            /\ \A j \in DOMAIN gItems : Field(j) /\ ItemPath(j) = x => j <= f
        BY <2>3, <2>4, <3>0 DEF FieldsAreItems
      <3>2. \A j \in f + 1 .. Len(gItems) : j \in DOMAIN gItems /\ ~(j <= f)
        BY <2>2, <3>1
      <3> QED BY <3>0, <3>1, <3>2
    <2>5. ASSUME NEW i \in Kept PROVE \E x \in DOMAIN xpaths : xpaths[x].from = i
      <3>1. i \in DOMAIN gItems /\ Field(i) /\ \A j \in i + 1 .. Len(gItems) : Field(j) => ItemPath(j) # ItemPath(i)
        BY <2>5
      <3>2. PICK x : x = ItemPath(i)
        OBVIOUS
      <3>3. x \in DOMAIN xpaths
        BY <2>3, <3>1, <3>2 DEF ItemsAreFields
      <3>4. PICK f : f = xpaths[x].from
        OBVIOUS
      <3>5. f \in DOMAIN gItems /\ Field(f) /\ ItemPath(f) = x /\ i <= f
        BY <2>3, <3>1, <3>2, <3>3, <3>4 DEF FieldsAreItems
      <3>6. ~(f \in i + 1 .. Len(gItems))
        BY <3>1, <3>2, <3>5
      <3>7. f = i
        BY <2>2, <3>1, <3>5, <3>6
      <3> QED BY <3>3, <3>4, <3>7
    <2>6. {xpaths[x].from : x \in DOMAIN xpaths} = Kept
      BY <2>4, <2>5
    <2>7. \A i \in DOMAIN gItems : \A k \in ItemKeys(i) :
               /\ <<k[1], k[2]>> \in DOMAIN kvpairs
               /\ \/ kvpairs[<<k[1], k[2]>>] = k[3]
                  \/ \E j \in i + 1 .. Len(gItems) : \E l \in ItemKeys(j) :
                         <<l[1], l[2]>> = <<k[1], k[2]>> /\ l[3] # k[3]
      BY DEF KeysAreTags, ItemKeys, KeysOf
    <2> QED BY <2>1, <2>6, <2>7 DEF NotificationKeepsUpdates
  <1> QED BY <1>1, GnInductive, PTL

-----------------------------------------------------------------------------
(* OpenConfig packets *)

LEMMA PathIs ==
  ASSUME NEW s, IsPath(s)
  PROVE  Len(s) \in Nat /\ DOMAIN s = 1 .. Len(s)
  BY LenProperties DEF IsPath

LEMMA AppendPath ==
  ASSUME NEW s, IsPath(s), NEW x
  PROVE  /\ IsPath(Append(s, x)) /\ Len(s) \in Nat /\ Len(Append(s, x)) = Len(s) + 1
         /\ DOMAIN s = 1 .. Len(s) /\ DOMAIN Append(s, x) = 1 .. Len(s) + 1
         /\ \A i \in 1 .. Len(s) : Append(s, x)[i] = s[i]
         /\ Append(s, x)[Len(s) + 1] = x
  <1> DEFINE S == {s[i] : i \in DOMAIN s} \cup {x}
             t == Append(s, x)
  <1>1. s \in Seq(S)
    <2>1. s \in Seq({s[i] : i \in DOMAIN s}) /\ {s[i] : i \in DOMAIN s} \subseteq S
      BY DEF IsPath
    <2> HIDE DEF S
    <2> QED BY <2>1, SeqMonotonic
  <1>2. x \in S
    OBVIOUS
  <1> HIDE DEF S
  <1>3. /\ t \in Seq(S) /\ Len(s) \in Nat /\ Len(t) = Len(s) + 1
        /\ DOMAIN s = 1 .. Len(s) /\ DOMAIN t = 1 .. Len(s) + 1
        /\ \A i \in 1 .. Len(s) : t[i] = s[i]
        /\ t[Len(s) + 1] = x
    BY <1>1, <1>2, AppendIs
  <1>4. IsPath(t)
    <2> HIDE DEF t
    <2>1. \A i \in 1 .. Len(t) : t[i] \in {t[j] : j \in DOMAIN t}
      BY <1>3
    <2>2. t = [i \in 1 .. Len(t) |-> t[i]]
      BY <1>3
    <2>3. [i \in 1 .. Len(t) |-> t[i]] \in Seq({t[j] : j \in DOMAIN t})
      BY <1>3, <2>1, IsASeq
    <2> QED BY <2>2, <2>3 DEF IsPath
  <1> QED BY <1>3, <1>4

(* The prefix of a pair, as a function of the pairs *)
PrefixIn(s, i) ==
    LET before == {j \in 1 .. i - 1 : s[j].key = "prefix"}
    IN  IF before = {} THEN 0 ELSE CHOOSE j \in before : \A k \in before : k <= j

(* m is the last prefix before place n, or 0. *)
LastPrefix(s, n, m) ==
    /\ m \in 0 .. n - 1 /\ (m # 0 => s[m].key = "prefix")
    /\ \A j \in 1 .. n - 1 : s[j].key = "prefix" => j <= m

LEMMA PrefixIs ==
  ASSUME NEW s, NEW n \in Nat, NEW m, LastPrefix(s, n, m)
  PROVE  PrefixIn(s, n) = m
  <1> DEFINE before == {j \in 1 .. n - 1 : s[j].key = "prefix"}
  <1>1. CASE m = 0
    <2>1. before = {}
      BY <1>1 DEF LastPrefix
    <2> QED BY <1>1, <2>1 DEF PrefixIn
  <1>2. CASE m # 0
    <2>1. m \in before /\ \A k \in before : k \in Int /\ k <= m
      BY <1>2 DEF LastPrefix
    <2>2. PrefixIn(s, n) = CHOOSE j \in before : \A k \in before : k <= j
      BY <2>1 DEF PrefixIn
    <2> HIDE DEF before
    <2>3. PICK c : c = CHOOSE j \in before : \A k \in before : k <= j
      OBVIOUS
    <2>4. c \in before /\ \A k \in before : k <= c
      BY <2>1, <2>3
    <2>5. c = m
      BY <2>1, <2>4
    <2> QED BY <2>2, <2>3, <2>5
  <1> QED BY <1>1, <1>2

LEMMA PrefixStays ==
  ASSUME NEW s, NEW t, NEW n \in Nat, \A j \in 1 .. n - 1 : s[j] = t[j]
  PROVE  PrefixIn(s, n) = PrefixIn(t, n)
  <1> DEFINE b == {j \in 1 .. n - 1 : s[j].key = "prefix"}
             c == {j \in 1 .. n - 1 : t[j].key = "prefix"}
             Latest(x) == IF x = {} THEN 0 ELSE CHOOSE j \in x : \A k \in x : k <= j
  <1>1. b = c
    OBVIOUS
  <1>2. PrefixIn(s, n) = Latest(b)
    BY Zenon DEF PrefixIn
  <1>3. PrefixIn(t, n) = Latest(c)
    BY Zenon DEF PrefixIn
  <1> HIDE DEF b, c, Latest
  <1> QED BY <1>1, <1>2, <1>3, Zenon

(* Elements without keys add no tags. *)
LEMMA NoMoreTags ==
  ASSUME NEW p, IsPath(p), NEW q, IsPath(q), ~HasKeys(q)
  PROVE  SplitTags(p \o q) = SplitTags(p)
  <1>0. PICK r : r = p \o q
    OBVIOUS
  <1>1. /\ Len(p) \in Nat /\ Len(q) \in Nat /\ DOMAIN p = 1 .. Len(p) /\ DOMAIN q = 1 .. Len(q)
        /\ DOMAIN r = 1 .. Len(p) + Len(q)
        /\ \A i \in 1 .. Len(p) : r[i] = p[i]
        /\ \A i \in 1 .. Len(q) : r[Len(p) + i] = q[i]
    BY <1>0, ConcatIs DEF IsPath
  <1>2. ASSUME NEW i \in DOMAIN r, i \notin DOMAIN p PROVE r[i].keys = <<>>
    <2>1. i - Len(p) \in DOMAIN q /\ r[i] = q[i - Len(p)]
      BY <1>1, <1>2
    <2> QED BY <2>1 DEF HasKeys
  <1>3. ASSUME NEW i \in DOMAIN p PROVE SubSeq(Names(r), 1, i) = SubSeq(Names(p), 1, i)
    <2> DEFINE N == {Names(r)[j] : j \in DOMAIN r} \cup {Names(p)[j] : j \in DOMAIN p}
    <2>1. /\ DOMAIN Names(r) = 1 .. Len(p) + Len(q) /\ DOMAIN Names(p) = 1 .. Len(p)
          /\ \A j \in 1 .. Len(p) : Names(r)[j] = Names(p)[j]
      BY <1>1 DEF Names
    <2>2. /\ Names(r) = [j \in 1 .. Len(p) + Len(q) |-> Names(r)[j]]
          /\ Names(p) = [j \in 1 .. Len(p) |-> Names(p)[j]]
      BY <1>1 DEF Names
    <2>3. /\ \A j \in 1 .. Len(p) + Len(q) : Names(r)[j] \in N
          /\ \A j \in 1 .. Len(p) : Names(p)[j] \in N
      BY <1>1
    <2> HIDE DEF N
    <2>4. Names(r) \in Seq(N) /\ Len(Names(r)) = Len(p) + Len(q)
      BY <1>1, <2>2, <2>3, IsASeq
    <2>5. Names(p) \in Seq(N) /\ Len(Names(p)) = Len(p)
      BY <1>1, <2>2, <2>3, IsASeq
    <2>6. i \in 1 .. Len(p)
      BY <1>1, <1>3
    <2>7. /\ SubSeq(Names(r), 1, i) \in Seq(N) /\ Len(SubSeq(Names(r), 1, i)) = i
          /\ \A j \in 1 .. i : SubSeq(Names(r), 1, i)[j] = Names(r)[j]
      BY <1>1, <2>4, <2>6, SubSeqProperties
    <2>8. /\ SubSeq(Names(p), 1, i) \in Seq(N) /\ Len(SubSeq(Names(p), 1, i)) = i
          /\ \A j \in 1 .. i : SubSeq(Names(p), 1, i)[j] = Names(p)[j]
      BY <1>1, <2>5, <2>6, SubSeqProperties
    <2>9. \A j \in 1 .. i : SubSeq(Names(r), 1, i)[j] = SubSeq(Names(p), 1, i)[j]
      BY <1>1, <2>1, <2>6, <2>7, <2>8
    <2> QED BY <2>7, <2>8, <2>9, SeqEqual
  <1>4. \A i \in DOMAIN p : r[i].keys = p[i].keys /\ \A k : TagName(r, i, k) = TagName(p, i, k)
    BY <1>1, <1>3 DEF TagName
  <1>5. DOMAIN p \subseteq DOMAIN r
    BY <1>1
  <1>6. \A e : e \in SplitTags(r) <=> \E i \in DOMAIN r : \E k \in DOMAIN r[i].keys :
                   e = <<TagName(r, i, k), r[i].keys[k]>>
    BY DEF SplitTags
  <1>7. \A e : e \in SplitTags(p) <=> \E i \in DOMAIN p : \E k \in DOMAIN p[i].keys :
                   e = <<TagName(p, i, k), p[i].keys[k]>>
    BY DEF SplitTags
  <1>8. \A i \in DOMAIN r : \A k \in DOMAIN r[i].keys : i \in DOMAIN p
    BY <1>2
  <1>9. \A e : e \in SplitTags(r) <=> e \in SplitTags(p)
    BY <1>4, <1>5, <1>6, <1>7, <1>8
  <1> QED BY <1>0, <1>9


(* The path, the field and the value of leaf i, as functions of the pairs *)
FullIn(s, i) ==
    IF s[i].abs \/ PrefixIn(s, i) = 0 THEN s[i].path ELSE s[PrefixIn(s, i)].path \o s[i].path

NameIn(s, i) ==
    IF s[i].abs \/ HasKeys(s[i].path) THEN SplitPath(FullIn(s, i))
    ELSE getAlias(SplitPath(s[PrefixIn(s, i)].path) \o Names(s[i].path))

TakenIn(s, i) ==
    /\ s[i].key = "leaf" /\ s[i].value # "none"
    /\ s[i].abs \/ PrefixIn(s, i) # 0 \/ HasKeys(s[i].path)

FieldIs(s, r, f, i) ==
    /\ f \in DOMAIN r.fields /\ r.fields[f].kv = i
    /\ f = NameIn(s, i) /\ r.tags = SplitTags(FullIn(s, i))

LEMMA LeafIs ==
  ASSUME NEW i
  PROVE  /\ PrefixOf(i) = PrefixIn(rowKv, i) /\ FullPath(i) = FullIn(rowKv, i)
         /\ FieldName(i) = NameIn(rowKv, i)
         /\ Taken(i) <=> TakenIn(rowKv, i)
         /\ \A r, f : IsField(r, f, i) <=> FieldIs(rowKv, r, f, i)
  <1>1. PrefixOf(i) = PrefixIn(rowKv, i)
    BY Zenon DEF PrefixOf, PrefixIn
  <1>2. FullPath(i) = FullIn(rowKv, i)
    BY <1>1, Zenon DEF FullPath, FullIn
  <1>3. FieldName(i) = NameIn(rowKv, i)
    BY <1>1, <1>2, Zenon DEF FieldName, NameIn
  <1>4. Taken(i) <=> TakenIn(rowKv, i)
    BY <1>1, Zenon DEF Taken, TakenIn
  <1>5. \A r, f : IsField(r, f, i) <=> FieldIs(rowKv, r, f, i)
    BY <1>2, <1>3, Zenon DEF IsField, FieldIs
  <1> QED BY <1>1, <1>2, <1>3, <1>4, <1>5

(* A pair that follows changes nothing about a leaf. *)
LEMMA LeafStays ==
  ASSUME NEW s, NEW t, NEW i \in Nat, i # 0, \A j \in 1 .. i : s[j] = t[j],
         \E l : LastPrefix(s, i, l)
  PROVE  /\ s[i] = t[i] /\ FullIn(s, i) = FullIn(t, i)
         /\ TakenIn(s, i) <=> TakenIn(t, i)
         /\ TakenIn(s, i) => /\ NameIn(s, i) = NameIn(t, i)
                             /\ \A r, f : FieldIs(s, r, f, i) <=> FieldIs(t, r, f, i)
  <1>1. s[i] = t[i]
    OBVIOUS
  <1>0. PICK m : LastPrefix(s, i, m)
    OBVIOUS
  <1>2. m = PrefixIn(s, i)
    BY <1>0, PrefixIs
  <1>3. PrefixIn(t, i) = m
    BY <1>2, PrefixStays
  <1>4. m = 0 \/ s[m] = t[m]
    BY <1>0 DEF LastPrefix
  <1>5. FullIn(s, i) = FullIn(t, i)
    BY <1>1, <1>2, <1>3, <1>4, Zenon DEF FullIn
  <1>6. TakenIn(s, i) <=> TakenIn(t, i)
    BY <1>1, <1>2, <1>3, Zenon DEF TakenIn
  <1>7. TakenIn(s, i) => NameIn(s, i) = NameIn(t, i)
    BY <1>1, <1>2, <1>3, <1>4, <1>5, Zenon DEF NameIn, TakenIn
  <1> QED BY <1>1, <1>5, <1>6, <1>7 DEF FieldIs


-----------------------------------------------------------------------------
(* The inductive invariant of the loop *)
RowTypes ==
    /\ rowKv \in Seq(Kvs) /\ rowPc \in {"loop", "done", "panic"}
    /\ IsPath(rows)
    /\ \A n \in DOMAIN rows : rows[n] = [tags |-> rows[n].tags, fields |-> rows[n].fields]

(* The loop carries the last prefix, split, and every pair has one or none. *)
PrefixIsLast(m) ==
    /\ LastPrefix(rowKv, Len(rowKv) + 1, m)
    /\ m = 0 => prefix = <<>> /\ prefixTags = <<>>
    /\ m # 0 => /\ prefix = rowKv[m].path /\ prefixXmlpath = SplitPath(rowKv[m].path)
                /\ prefixTags = <<SplitTags(rowKv[m].path)>>

PrefixIsCarried ==
    /\ \E m : PrefixIsLast(m)
    /\ \A i \in DOMAIN rowKv : \E m : LastPrefix(rowKv, i, m)

FieldsAreLeaves ==
    \A n \in DOMAIN rows : \A f \in DOMAIN rows[n].fields :
        \E i \in DOMAIN rowKv :
            /\ TakenIn(rowKv, i) /\ FieldIs(rowKv, rows[n], f, i)
            /\ rows[n].fields[f].val = "nan" => rowKv[i].value = "nan"

SameField(s, i, j) ==
    /\ TakenIn(s, j) /\ SplitTags(FullIn(s, j)) = SplitTags(FullIn(s, i)) /\ NameIn(s, j) = NameIn(s, i)

LeavesAreFields ==
    rowClient /\ rowPc # "panic" =>
        \A i \in DOMAIN rowKv : TakenIn(rowKv, i) =>
            \/ \E n \in DOMAIN rows : FieldIs(rowKv, rows[n], NameIn(rowKv, i), i)
            \/ \E j \in DOMAIN rowKv : j > i /\ SameField(rowKv, i, j)

PointsAreRows ==
    rowPc = "done" =>
        rowPoints = [n \in {k \in DOMAIN rows : ~Refused(rows[k])} |->
                        [measurement |-> mName, row |-> rows[n]]]

RowInv == RowTypes /\ PrefixIsCarried /\ FieldsAreLeaves /\ LeavesAreFields /\ PointsAreRows

LEMMA PairIs ==
  ASSUME NEW kv \in Kvs
  PROVE  IsPath(kv.path) /\ kv.value \in RowValues /\ kv.abs \in BOOLEAN
  BY RowsAssumption DEF IsPath

(* What the loop makes of a leaf at the next place n is what the device means. *)
LEMMA LeafXml ==
  ASSUME RowTypes, PrefixIsCarried, NEW kv \in Kvs, NEW t, t = Append(rowKv, kv),
         NEW n, n = Len(rowKv) + 1
  PROVE  /\ XmlAndTags(kv)[2] = <<>> <=> ~(kv.abs \/ PrefixIn(t, n) # 0 \/ HasKeys(kv.path))
         /\ XmlAndTags(kv)[2] # <<>> =>
                XmlAndTags(kv)[1] = NameIn(t, n) /\ XmlAndTags(kv)[2][1] = SplitTags(FullIn(t, n))
  <1>1. /\ n \in Nat /\ t[n] = kv /\ Len(rowKv) \in Nat /\ DOMAIN rowKv = 1 .. Len(rowKv)
        /\ \A j \in 1 .. n - 1 : t[j] = rowKv[j] /\ rowKv[j] \in Kvs
    <2>1. rowKv \in Seq(Kvs)
      BY DEF RowTypes
    <2> QED BY <2>1, AppendIs, ElementOfSeq
  <1>2. PICK m : PrefixIsLast(m)
    BY DEF PrefixIsCarried
  <1>3. m = PrefixIn(t, n) /\ (m # 0 => t[m] = rowKv[m] /\ rowKv[m] \in Kvs)
    <2>1. LastPrefix(rowKv, n, m)
      BY <1>2 DEF PrefixIsLast
    <2>2. PrefixIn(rowKv, n) = m
      BY <1>1, <2>1, PrefixIs
    <2>3. PrefixIn(t, n) = m
      <3>1. \A j \in 1 .. n - 1 : rowKv[j] = t[j]
        BY <1>1
      <3> QED BY <1>1, <2>2, <3>1, PrefixStays
    <2>4. m \in 0 .. n - 1
      BY <2>1 DEF LastPrefix
    <2> QED BY <1>1, <2>3, <2>4
  <1>4. CASE kv.abs
    <2>1. XmlAndTags(kv) = <<SplitPath(kv.path), <<SplitTags(kv.path)>>>>
      BY <1>4, Zenon DEF XmlAndTags
    <2>2. FullIn(t, n) = kv.path /\ NameIn(t, n) = SplitPath(kv.path)
      BY <1>1, <1>4 DEF FullIn, NameIn
    <2> QED BY <1>4, <2>1, <2>2
  <1>5. CASE ~kv.abs /\ HasKeys(kv.path)
    <2>1. XmlAndTags(kv) = <<SplitPath(prefix \o kv.path), <<SplitTags(prefix \o kv.path)>>>>
      BY <1>5, Zenon DEF XmlAndTags
    <2>2. FullIn(t, n) = prefix \o kv.path
      <3>1. CASE m = 0
        <4>1. prefix = <<>> /\ <<>> \o kv.path = kv.path
          BY <1>2, <3>1, PairIs, ConcatEmptySeq DEF PrefixIsLast, IsPath
        <4> QED BY <1>1, <1>3, <3>1, <4>1 DEF FullIn
      <3>2. CASE m # 0
        BY <1>1, <1>2, <1>3, <1>5, <3>2 DEF FullIn, PrefixIsLast
      <3> QED BY <3>1, <3>2
    <2>3. NameIn(t, n) = SplitPath(prefix \o kv.path)
      BY <1>1, <1>5, <2>2 DEF NameIn
    <2>4. PICK x, y : x = SplitPath(prefix \o kv.path) /\ y = SplitTags(prefix \o kv.path)
      OBVIOUS
    <2>5. XmlAndTags(kv) = <<x, <<y>>>> /\ NameIn(t, n) = x /\ SplitTags(FullIn(t, n)) = y
      BY <2>1, <2>2, <2>3, <2>4
    <2> QED BY <1>5, <2>5
  <1>6. CASE ~kv.abs /\ ~HasKeys(kv.path)
    <2>1. XmlAndTags(kv) = <<getAlias(prefixXmlpath \o Names(kv.path)), prefixTags>>
      BY <1>6, Zenon DEF XmlAndTags
    <2>2. CASE m = 0
      BY <1>2, <1>3, <1>6, <2>1, <2>2 DEF PrefixIsLast
    <2>3. CASE m # 0
      <3>1. /\ prefix = t[m].path /\ prefixXmlpath = SplitPath(t[m].path)
            /\ prefixTags = <<SplitTags(t[m].path)>> /\ IsPath(t[m].path)
        BY <1>2, <1>3, <2>3, PairIs DEF PrefixIsLast
      <3>2. FullIn(t, n) = t[m].path \o kv.path
        BY <1>1, <1>3, <1>6, <2>3 DEF FullIn
      <3>3. SplitTags(FullIn(t, n)) = SplitTags(t[m].path)
        <4>1. IsPath(kv.path)
          BY PairIs
        <4> QED BY <1>6, <3>1, <3>2, <4>1, NoMoreTags
      <3>4. NameIn(t, n) = getAlias(prefixXmlpath \o Names(kv.path))
        BY <1>1, <1>3, <1>6, <3>1 DEF NameIn
      <3>5. PICK x, y : x = getAlias(prefixXmlpath \o Names(kv.path)) /\ y = SplitTags(t[m].path)
        OBVIOUS
      <3>6. XmlAndTags(kv) = <<x, <<y>>>> /\ NameIn(t, n) = x /\ SplitTags(FullIn(t, n)) = y
        BY <2>1, <3>1, <3>3, <3>4, <3>5
      <3> QED BY <1>3, <1>6, <2>3, <3>6
    <2> QED BY <2>2, <2>3
  <1> QED BY <1>4, <1>5, <1>6

LEMMA OldLeaves ==
  ASSUME RowTypes, PrefixIsCarried, NEW kv \in Kvs, NEW t, t = Append(rowKv, kv), NEW n, n = Len(rowKv) + 1
  PROVE  /\ n \in Nat /\ t \in Seq(Kvs) /\ t[n] = kv /\ Len(t) = n
         /\ DOMAIN rowKv = 1 .. n - 1 /\ DOMAIN t = 1 .. n
         /\ \A i \in DOMAIN rowKv :
                /\ t[i] = rowKv[i] /\ FullIn(t, i) = FullIn(rowKv, i)
                /\ TakenIn(t, i) <=> TakenIn(rowKv, i)
                /\ TakenIn(rowKv, i) => /\ NameIn(t, i) = NameIn(rowKv, i)
                                        /\ \A r, f : FieldIs(rowKv, r, f, i) <=> FieldIs(t, r, f, i)
  <1>1. /\ n \in Nat /\ t \in Seq(Kvs) /\ t[n] = kv /\ Len(t) = n
        /\ DOMAIN rowKv = 1 .. n - 1 /\ DOMAIN t = 1 .. n
        /\ \A j \in 1 .. n - 1 : t[j] = rowKv[j]
    <2>1. rowKv \in Seq(Kvs)
      BY DEF RowTypes
    <2> QED BY <2>1, AppendIs
  <1>2. ASSUME NEW i \in DOMAIN rowKv
        PROVE  /\ t[i] = rowKv[i] /\ FullIn(t, i) = FullIn(rowKv, i)
               /\ TakenIn(t, i) <=> TakenIn(rowKv, i)
               /\ TakenIn(rowKv, i) => /\ NameIn(t, i) = NameIn(rowKv, i)
                                       /\ \A r, f : FieldIs(rowKv, r, f, i) <=> FieldIs(t, r, f, i)
    <2>1. i \in Nat /\ i # 0 /\ \A j \in 1 .. i : rowKv[j] = t[j]
      BY <1>1
    <2>2. \E l : LastPrefix(rowKv, i, l)
      BY DEF PrefixIsCarried
    <2> QED BY <2>1, <2>2, LeafStays
  <1> QED BY <1>1, <1>2

LEMMA CarryPrefix ==
  ASSUME RowTypes, PrefixIsCarried, NEW kv \in Kvs, rowKv' = Append(rowKv, kv),
         KvPrefix(kv) \/ (kv.key # "prefix" /\ UNCHANGED <<prefix, prefixXmlpath, prefixTags>>)
  PROVE  PrefixIsCarried'
  <1>1. PICK t, n : t = rowKv' /\ n = Len(rowKv) + 1
    OBVIOUS
  <1>2. /\ n \in Nat /\ n # 0 /\ t[n] = kv /\ Len(t) = n /\ DOMAIN t = 1 .. n /\ DOMAIN rowKv = 1 .. n - 1
        /\ \A j \in 1 .. n - 1 : t[j] = rowKv[j]
    BY <1>1, OldLeaves
  <1>3. PICK m : PrefixIsLast(m)
    BY DEF PrefixIsCarried
  <1>4. \A i \in 1 .. n : \A l : LastPrefix(rowKv, i, l) => LastPrefix(t, i, l)
    BY <1>2 DEF LastPrefix
  <1>5. LastPrefix(rowKv, n, m)
    BY <1>1, <1>3 DEF PrefixIsLast
  <1>6. ASSUME NEW i \in DOMAIN t PROVE \E l : LastPrefix(t, i, l)
    <2>1. i \in 1 .. n
      BY <1>2
    <2>2. CASE i = n
      BY <1>4, <1>5, <2>1, <2>2
    <2>3. CASE i # n
      <3>1. i \in DOMAIN rowKv
        BY <1>2, <2>1, <2>3
      <3> QED BY <1>4, <2>1, <3>1 DEF PrefixIsCarried
    <2> QED BY <2>2, <2>3
  <1>7. \E l : PrefixIsLast(l)'
    <2>1. CASE KvPrefix(kv)
      <3>1. LastPrefix(t, n + 1, n)
        BY <1>2, <2>1 DEF LastPrefix, KvPrefix
      <3>2. PrefixIsLast(n)'
        BY <1>1, <1>2, <2>1, <3>1 DEF PrefixIsLast, KvPrefix
      <3> QED BY <3>2
    <2>2. CASE kv.key # "prefix" /\ UNCHANGED <<prefix, prefixXmlpath, prefixTags>>
      <3>1. LastPrefix(t, n + 1, m)
        BY <1>2, <1>5, <2>2 DEF LastPrefix
      <3>2. m # 0 => t[m] = rowKv[m]
        BY <1>2, <1>5 DEF LastPrefix
      <3>3. PrefixIsLast(m)'
        BY <1>1, <1>2, <1>3, <2>2, <3>1, <3>2 DEF PrefixIsLast
      <3> QED BY <3>3
    <2> QED BY <2>1, <2>2
  <1> QED BY <1>1, <1>6, <1>7 DEF PrefixIsCarried

(* A pair that is no field of its own leaves the others as they are. *)
LEMMA SameRows ==
  ASSUME RowInv, rowPc = "loop", NEW kv \in Kvs, rowKv' = Append(rowKv, kv), UNCHANGED <<rows, rowClient>>,
         NEW n, n = Len(rowKv) + 1, TakenIn(rowKv', n) /\ rowClient => rowPc' = "panic"
  PROVE  FieldsAreLeaves' /\ LeavesAreFields'
  <1>1. PICK t : t = rowKv'
    OBVIOUS
  <1>2. /\ n \in Nat /\ DOMAIN t = 1 .. n /\ DOMAIN rowKv = 1 .. n - 1
        /\ \A i \in DOMAIN rowKv :
                /\ t[i] = rowKv[i] /\ FullIn(t, i) = FullIn(rowKv, i)
                /\ TakenIn(t, i) <=> TakenIn(rowKv, i)
                /\ TakenIn(rowKv, i) => /\ NameIn(t, i) = NameIn(rowKv, i)
                                        /\ \A r, f : FieldIs(rowKv, r, f, i) <=> FieldIs(t, r, f, i)
    BY <1>1, OldLeaves DEF RowInv
  <1>3. \A i \in DOMAIN t : i = n \/ i \in DOMAIN rowKv
    BY <1>2
  <1>4. \A i \in DOMAIN rowKv : i \in DOMAIN t
    BY <1>2
  <1>5. FieldsAreLeaves'
    <2>1. \A k \in DOMAIN rows : \A f \in DOMAIN rows[k].fields :
              \E i \in DOMAIN t :
                  /\ TakenIn(t, i) /\ FieldIs(t, rows[k], f, i)
                  /\ rows[k].fields[f].val = "nan" => t[i].value = "nan"
      BY <1>2, <1>4 DEF RowInv, FieldsAreLeaves
    <2> QED BY <1>1, <2>1 DEF FieldsAreLeaves
  <1>6. LeavesAreFields'
    <2> SUFFICES ASSUME rowClient, rowPc' # "panic", NEW i \in DOMAIN t, TakenIn(t, i)
                 PROVE  \/ \E k \in DOMAIN rows : FieldIs(t, rows[k], NameIn(t, i), i)
                        \/ \E j \in DOMAIN t : j > i /\ SameField(t, i, j)
      BY <1>1 DEF LeavesAreFields
    <2>1. i \in DOMAIN rowKv /\ TakenIn(rowKv, i)
      BY <1>1, <1>2, <1>3
    <2>2. CASE \E k \in DOMAIN rows : FieldIs(rowKv, rows[k], NameIn(rowKv, i), i)
      BY <1>2, <2>1, <2>2
    <2>3. CASE \E j \in DOMAIN rowKv : j > i /\ SameField(rowKv, i, j)
      BY <1>2, <1>4, <2>1, <2>3 DEF SameField
    <2> QED BY <2>1, <2>2, <2>3 DEF RowInv, LeavesAreFields
  <1> QED BY <1>5, <1>6

LEMMA UpdatePath ==
  ASSUME NEW s, IsPath(s), NEW n \in DOMAIN s, NEW x, NEW u,
         u = [i \in DOMAIN s |-> IF i = n THEN x ELSE s[i]]
  PROVE  IsPath(u) /\ DOMAIN u = DOMAIN s /\ u[n] = x /\ \A i \in DOMAIN s : i # n => u[i] = s[i]
  <1>1. DOMAIN u = DOMAIN s /\ u[n] = x /\ \A i \in DOMAIN s : i # n => u[i] = s[i]
    OBVIOUS
  <1>2. DOMAIN u = 1 .. Len(s) /\ Len(s) \in Nat
    BY <1>1, PathIs
  <1>3. u = [i \in 1 .. Len(s) |-> u[i]]
    BY <1>2
  <1>4. \A i \in 1 .. Len(s) : u[i] \in {u[j] : j \in DOMAIN u}
    BY <1>2
  <1>5. [i \in 1 .. Len(s) |-> u[i]] \in Seq({u[j] : j \in DOMAIN u})
    BY <1>2, <1>4, IsASeq
  <1>6. IsPath(u)
    BY <1>3, <1>5 DEF IsPath
  <1> QED BY <1>1, <1>6

(* The row a field is put in *)
IsAddedTo(R, l, x, g, field) ==
    /\ IsPath(R) /\ \A n \in DOMAIN R : R[n] = [tags |-> R[n].tags, fields |-> R[n].fields]
    /\ l \in DOMAIN R /\ DOMAIN R = DOMAIN rows \cup {l}
    /\ R[l].tags = g /\ x \in DOMAIN R[l].fields /\ R[l].fields[x] = field
    /\ \A k \in DOMAIN rows : k # l => R[k] = rows[k]
    /\ \A f \in DOMAIN R[l].fields : f # x => l \in DOMAIN rows /\ f \in DOMAIN rows[l].fields
    /\ l \in DOMAIN rows =>
           /\ rows[l].tags = g
           /\ \A f \in DOMAIN rows[l].fields : f \in DOMAIN R[l].fields
           /\ \A f \in DOMAIN rows[l].fields : f # x => R[l].fields[f] = rows[l].fields[f]

LEMMA AddToRowsIs ==
  ASSUME RowTypes, NEW x, NEW g, NEW field, AddToRows(x, g, field), NEW R, R = rows'
  PROVE  \E l : IsAddedTo(R, l, x, g, field)
  <1>1. IsPath(rows) /\ Len(rows) \in Nat /\ DOMAIN rows = 1 .. Len(rows)
    BY PathIs DEF RowTypes
  <1>2. \A n \in DOMAIN rows : rows[n] = [tags |-> rows[n].tags, fields |-> rows[n].fields]
    BY DEF RowTypes
  <1>3. PICK l : l = Len(rows)
    OBVIOUS
  <1>4. CASE l # 0 /\ rows[l].tags = g
    <2>1. PICK F : F = MapSet(rows[l].fields, x, field)
      OBVIOUS
    <2>2. l \in DOMAIN rows
      BY <1>1, <1>3, <1>4
    <2>3. PICK w : w = [tags |-> g, fields |-> F]
      OBVIOUS
    <2>4. R = [rows EXCEPT ![l] = w]
      <3>1. R = [rows EXCEPT ![l].fields = MapSet(@, x, field)]
        BY <1>3, <1>4 DEF AddToRows
      <3>2. [rows[l] EXCEPT !.fields = F] = w
        BY <1>2, <1>4, <2>2, <2>3
      <3> QED BY <2>1, <3>1, <3>2
    <2>5. IsPath(R) /\ DOMAIN R = DOMAIN rows /\ R[l] = w /\ \A i \in DOMAIN rows : i # l => R[i] = rows[i]
      <3>1. PICK old : old = rows
        OBVIOUS
      <3>2. IsPath(old) /\ l \in DOMAIN old /\ R = [i \in DOMAIN old |-> IF i = l THEN w ELSE old[i]]
        BY <1>1, <2>2, <2>4, <3>1
      <3>3. IsPath(R) /\ DOMAIN R = DOMAIN old /\ R[l] = w /\ \A i \in DOMAIN old : i # l => R[i] = old[i]
        BY <3>2, UpdatePath
      <3> QED BY <3>1, <3>3
    <2>6. /\ DOMAIN F = DOMAIN rows[l].fields \cup {x} /\ F[x] = field
          /\ \A f \in DOMAIN rows[l].fields : f # x => F[f] = rows[l].fields[f]
      <3>1. PICK old : old = rows[l].fields
        OBVIOUS
      <3> QED BY <2>1, <3>1 DEF MapSet
    <2>7. \A n \in DOMAIN R : R[n] = [tags |-> R[n].tags, fields |-> R[n].fields]
      BY <1>2, <2>3, <2>5
    <2>8. R[l].tags = g /\ R[l].fields = F
      BY <2>3, <2>5
    <2> QED BY <1>4, <2>2, <2>5, <2>6, <2>7, <2>8 DEF IsAddedTo
  <1>5. CASE ~(l # 0 /\ rows[l].tags = g)
    <2>1. PICK F : F = MapOf(x, field)
      OBVIOUS
    <2>2. PICK k : k = Len(rows) + 1
      OBVIOUS
    <2>3. PICK w : w = [tags |-> g, fields |-> F]
      OBVIOUS
    <2>4. R = Append(rows, w)
      BY <1>3, <1>5, <2>1, <2>3 DEF AddToRows
    <2>5. IsPath(R) /\ DOMAIN R = 1 .. k /\ R[k] = w /\ \A i \in 1 .. Len(rows) : R[i] = rows[i]
      BY <1>1, <2>2, <2>4, AppendPath
    <2>6. DOMAIN F = {x} /\ F[x] = field
      BY <2>1 DEF MapOf
    <2>7. k \notin DOMAIN rows /\ k \in DOMAIN R /\ DOMAIN R = DOMAIN rows \cup {k}
      BY <1>1, <2>2, <2>5
    <2>8. \A n \in DOMAIN R : R[n] = [tags |-> R[n].tags, fields |-> R[n].fields]
      BY <1>1, <1>2, <2>3, <2>5, <2>7
    <2>9. R[k].tags = g /\ R[k].fields = F
      BY <2>3, <2>5
    <2>10. \A i \in DOMAIN rows : R[i] = rows[i]
      BY <1>1, <2>5
    <2> QED BY <2>5, <2>6, <2>7, <2>8, <2>9, <2>10 DEF IsAddedTo
  <1> QED BY <1>4, <1>5

(* A leaf that becomes a field takes the place of an earlier one of its name and tags. *)
LEMMA AddedLeaf ==
  ASSUME RowInv, rowPc = "loop", NEW kv \in Kvs, rowKv' = Append(rowKv, kv), UNCHANGED rowClient,
         NEW n, n = Len(rowKv) + 1, TakenIn(rowKv', n), NEW v, v = "nan" => kv.value = "nan",
         AddToRows(NameIn(rowKv', n), SplitTags(FullIn(rowKv', n)), [kv |-> n, val |-> v])
  PROVE  FieldsAreLeaves' /\ LeavesAreFields' /\ IsPath(rows')
            /\ \A k \in DOMAIN rows' : rows'[k] = [tags |-> rows'[k].tags, fields |-> rows'[k].fields]
  <1>1. PICK t, R : t = rowKv' /\ R = rows'
    OBVIOUS
  <1>2. PICK x, g, field : x = NameIn(t, n) /\ g = SplitTags(FullIn(t, n)) /\ field = [kv |-> n, val |-> v]
    OBVIOUS
  <1>3. /\ n \in Nat /\ DOMAIN t = 1 .. n /\ DOMAIN rowKv = 1 .. n - 1 /\ t[n] = kv
        /\ \A i \in DOMAIN rowKv :
                /\ t[i] = rowKv[i] /\ FullIn(t, i) = FullIn(rowKv, i)
                /\ TakenIn(t, i) <=> TakenIn(rowKv, i)
                /\ TakenIn(rowKv, i) => /\ NameIn(t, i) = NameIn(rowKv, i)
                                        /\ \A r, f : FieldIs(rowKv, r, f, i) <=> FieldIs(t, r, f, i)
    BY <1>1, OldLeaves DEF RowInv
  <1>4. /\ \A i \in DOMAIN t : i = n \/ i \in DOMAIN rowKv
        /\ \A i \in DOMAIN rowKv : i \in DOMAIN t /\ n > i
        /\ n \in DOMAIN t
    BY <1>3
  <1>5. PICK l : IsAddedTo(R, l, x, g, field)
    <2>1. AddToRows(x, g, field)
      BY <1>1, <1>2
    <2> QED BY <1>1, <2>1, AddToRowsIs DEF RowInv
  <1>6. TakenIn(t, n)
    BY <1>1
  <1>7. FieldIs(t, R[l], x, n)
    BY <1>2, <1>5 DEF FieldIs, IsAddedTo
  <1>8. ASSUME NEW k \in DOMAIN rows, NEW f \in DOMAIN rows[k].fields, k # l \/ f # x
        PROVE  /\ k \in DOMAIN R /\ f \in DOMAIN R[k].fields /\ R[k].fields[f] = rows[k].fields[f]
               /\ R[k].tags = rows[k].tags
    BY <1>5, <1>8 DEF IsAddedTo
  <1>9. ASSUME NEW k \in DOMAIN rows, NEW f, NEW i \in DOMAIN rowKv, k # l \/ f # x,
               TakenIn(rowKv, i), FieldIs(rowKv, rows[k], f, i)
        PROVE  k \in DOMAIN R /\ FieldIs(t, R[k], f, i)
    <2>1. FieldIs(t, rows[k], f, i)
      BY <1>3, <1>9
    <2> QED BY <1>8, <1>9, <2>1 DEF FieldIs
  <1>10. FieldsAreLeaves'
    <2> SUFFICES ASSUME NEW k \in DOMAIN R, NEW f \in DOMAIN R[k].fields
                 PROVE  \E i \in DOMAIN t : /\ TakenIn(t, i) /\ FieldIs(t, R[k], f, i)
                                            /\ R[k].fields[f].val = "nan" => t[i].value = "nan"
      BY <1>1 DEF FieldsAreLeaves
    <2>1. CASE k = l /\ f = x
      <3>1. R[k].fields[f].val = v
        BY <1>2, <1>5, <2>1 DEF IsAddedTo
      <3> QED BY <1>3, <1>4, <1>6, <1>7, <2>1, <3>1
    <2>2. CASE k # l \/ f # x
      <3>1. k \in DOMAIN rows /\ f \in DOMAIN rows[k].fields
        BY <1>5, <2>2 DEF IsAddedTo
      <3>2. PICK i \in DOMAIN rowKv : /\ TakenIn(rowKv, i) /\ FieldIs(rowKv, rows[k], f, i)
                                      /\ rows[k].fields[f].val = "nan" => rowKv[i].value = "nan"
        BY <3>1 DEF RowInv, FieldsAreLeaves
      <3>3. FieldIs(t, R[k], f, i) /\ R[k].fields[f] = rows[k].fields[f]
        BY <1>8, <1>9, <2>2, <3>1, <3>2
      <3> QED BY <1>3, <1>4, <3>2, <3>3
    <2> QED BY <2>1, <2>2
  <1>11. LeavesAreFields'
    <2> SUFFICES ASSUME rowClient, NEW i \in DOMAIN t, TakenIn(t, i)
                 PROVE  \/ \E k \in DOMAIN R : FieldIs(t, R[k], NameIn(t, i), i)
                        \/ \E j \in DOMAIN t : j > i /\ SameField(t, i, j)
      BY <1>1 DEF LeavesAreFields
    <2>1. CASE i = n
      BY <1>2, <1>5, <1>7, <2>1 DEF IsAddedTo
    <2>2. CASE i # n
      <3>1. i \in DOMAIN rowKv /\ TakenIn(rowKv, i) /\ NameIn(t, i) = NameIn(rowKv, i)
        BY <1>3, <1>4, <2>2
      <3>2. CASE \E j \in DOMAIN rowKv : j > i /\ SameField(rowKv, i, j)
        BY <1>3, <1>4, <3>1, <3>2 DEF SameField
      <3>3. CASE \E k \in DOMAIN rows : FieldIs(rowKv, rows[k], NameIn(rowKv, i), i)
        <4>1. PICK k \in DOMAIN rows : FieldIs(rowKv, rows[k], NameIn(rowKv, i), i)
          BY <3>3
        <4>2. CASE k # l \/ NameIn(rowKv, i) # x
          BY <1>9, <3>1, <4>1, <4>2
        <4>3. CASE k = l /\ NameIn(rowKv, i) = x
          <5>1. rows[k].tags = g
            BY <1>5, <4>3 DEF IsAddedTo
          <5>2. SplitTags(FullIn(t, n)) = SplitTags(FullIn(t, i))
            BY <1>2, <1>3, <3>1, <4>1, <5>1 DEF FieldIs
          <5>3. NameIn(t, n) = NameIn(t, i)
            BY <1>2, <3>1, <4>3
          <5> QED BY <1>4, <1>6, <3>1, <5>2, <5>3 DEF SameField
        <4> QED BY <4>2, <4>3
      <3> QED BY <3>1, <3>2, <3>3 DEF RowInv, LeavesAreFields
    <2> QED BY <2>1, <2>2
  <1> QED BY <1>1, <1>5, <1>10, <1>11 DEF IsAddedTo

LEMMA FieldValueIs ==
  ASSUME NEW v \in RowValues, FieldValue(v) = "nan"
  PROVE  v = "nan"
  <1>1. CASE v = "inf"
    BY <1>1 DEF FieldValue
  <1>2. CASE v = "uint"
    BY <1>2 DEF FieldValue
  <1>3. CASE v = "num"
    BY <1>3 DEF FieldValue
  <1>4. CASE v \notin {"inf", "uint", "num"}
    BY <1>4 DEF FieldValue
  <1> QED BY <1>1, <1>2, <1>3, <1>4

LEMMA KvStep ==
  ASSUME RowInv, NextKv
  PROVE  RowInv'
  <1>1. PICK kv \in Kvs : rowKv' = Append(rowKv, kv) /\ (KvPrefix(kv) \/ KvMeta(kv) \/ KvLeaf(kv))
    BY DEF NextKv
  <1>2. rowPc = "loop" /\ UNCHANGED <<rowClient, rowPoints>>
    BY DEF NextKv
  <1>3. PICK n : n = Len(rowKv) + 1
    OBVIOUS
  <1>4. RowTypes /\ PrefixIsCarried
    BY DEF RowInv
  <1>5. PICK t : t = rowKv'
    OBVIOUS
  <1>6. t \in Seq(Kvs) /\ t[n] = kv
    BY <1>1, <1>3, <1>4, <1>5, OldLeaves
  <1>7. CASE KvPrefix(kv)
    <2>1. ~TakenIn(t, n) /\ rowPc' = "loop" /\ UNCHANGED rows
      BY <1>2, <1>6, <1>7 DEF KvPrefix, TakenIn
    <2>2. FieldsAreLeaves' /\ LeavesAreFields'
      BY <1>1, <1>2, <1>3, <1>5, <2>1, SameRows
    <2>3. PrefixIsCarried'
      BY <1>1, <1>4, <1>7, CarryPrefix
    <2>4. RowTypes' /\ PointsAreRows'
      BY <1>4, <1>5, <1>6, <2>1 DEF RowTypes, PointsAreRows
    <2> QED BY <2>2, <2>3, <2>4 DEF RowInv
  <1>8. CASE KvMeta(kv)
    <2>1. ~TakenIn(t, n) /\ rowPc' = "loop" /\ UNCHANGED rows
      BY <1>2, <1>6, <1>8 DEF KvMeta, TakenIn
    <2>2. FieldsAreLeaves' /\ LeavesAreFields'
      BY <1>1, <1>2, <1>3, <1>5, <2>1, SameRows
    <2>3. PrefixIsCarried'
      BY <1>1, <1>4, <1>8, CarryPrefix DEF KvMeta
    <2>4. RowTypes' /\ PointsAreRows'
      BY <1>4, <1>5, <1>6, <2>1 DEF RowTypes, PointsAreRows
    <2> QED BY <2>2, <2>3, <2>4 DEF RowInv
  <1>9. CASE KvLeaf(kv)
    <2>1. PICK xt : xt = XmlAndTags(kv)
      OBVIOUS
    <2>2. /\ xt[2] = <<>> <=> ~(kv.abs \/ PrefixIn(t, n) # 0 \/ HasKeys(kv.path))
          /\ xt[2] # <<>> => xt[1] = NameIn(t, n) /\ xt[2][1] = SplitTags(FullIn(t, n))
      BY <1>1, <1>3, <1>4, <1>5, <2>1, LeafXml
    <2>3. /\ kv.key = "leaf"
          /\ rowPc' = IF xt[2] # <<>> /\ kv.value = "nolist" THEN "panic" ELSE rowPc
          /\ IF xt[2] = <<>> \/ kv.value \in {"none", "nolist"} \/ ~rowClient
             THEN UNCHANGED rows
             ELSE AddToRows(xt[1], xt[2][1], [kv |-> n, val |-> FieldValue(kv.value)])
          /\ UNCHANGED <<prefix, prefixXmlpath, prefixTags>>
      BY <1>3, <1>9, <2>1 DEF KvLeaf
    <2>4. TakenIn(t, n) <=> xt[2] # <<>> /\ kv.value # "none"
      BY <1>6, <2>2, <2>3 DEF TakenIn
    <2>5. PrefixIsCarried'
      BY <1>1, <1>4, <2>3, CarryPrefix
    <2>6. rowPc' \in {"loop", "panic"}
      BY <1>2, <2>3
    <2>7. CASE xt[2] = <<>> \/ kv.value \in {"none", "nolist"} \/ ~rowClient
      <3>1. UNCHANGED rows /\ (TakenIn(t, n) /\ rowClient => rowPc' = "panic")
        BY <2>3, <2>4, <2>7
      <3>2. FieldsAreLeaves' /\ LeavesAreFields'
        BY <1>1, <1>2, <1>3, <1>5, <3>1, SameRows
      <3>3. RowTypes' /\ PointsAreRows'
        BY <1>4, <1>5, <1>6, <2>6, <3>1 DEF RowTypes, PointsAreRows
      <3> QED BY <2>5, <3>2, <3>3 DEF RowInv
    <2>8. CASE ~(xt[2] = <<>> \/ kv.value \in {"none", "nolist"} \/ ~rowClient)
      <3>1. PICK v : v = FieldValue(kv.value)
        OBVIOUS
      <3>2. v = "nan" => kv.value = "nan"
        BY <3>1, FieldValueIs, PairIs
      <3>3. AddToRows(NameIn(t, n), SplitTags(FullIn(t, n)), [kv |-> n, val |-> v]) /\ TakenIn(t, n)
        BY <2>2, <2>3, <2>4, <2>8, <3>1
      <3>4. /\ FieldsAreLeaves' /\ LeavesAreFields' /\ IsPath(rows')
            /\ \A k \in DOMAIN rows' : rows'[k] = [tags |-> rows'[k].tags, fields |-> rows'[k].fields]
        BY <1>1, <1>2, <1>3, <1>5, <3>2, <3>3, AddedLeaf
      <3>5. RowTypes' /\ PointsAreRows'
        BY <1>5, <1>6, <2>6, <3>4 DEF RowTypes, PointsAreRows
      <3> QED BY <2>5, <3>4, <3>5 DEF RowInv
    <2> QED BY <2>7, <2>8
  <1> QED BY <1>1, <1>7, <1>8, <1>9

LEMMA RowInductive == RowSpec => []RowInv
  <1>1. RowInit => RowInv
    <2> SUFFICES ASSUME RowInit PROVE RowInv
      OBVIOUS
    <2>1. /\ rowKv = <<>> /\ rowPc = "loop" /\ rows = <<>>
          /\ prefix = <<>> /\ prefixXmlpath = <<>> /\ prefixTags = <<>>
      BY DEF RowInit
    <2>2. Len(<<>>) = 0 /\ DOMAIN <<>> = {} /\ <<>> \in Seq(Kvs) /\ <<>> \in Seq({})
      OBVIOUS
    <2>3. {rows[i] : i \in DOMAIN rows} = {}
      BY <2>1, <2>2
    <2>4. RowTypes
      BY <2>1, <2>2, <2>3 DEF RowTypes, IsPath
    <2>5. LastPrefix(rowKv, Len(rowKv) + 1, 0)
      BY <2>1, <2>2 DEF LastPrefix
    <2>6. PrefixIsCarried
      BY <2>1, <2>2, <2>5 DEF PrefixIsCarried, PrefixIsLast
    <2> QED BY <2>1, <2>2, <2>4, <2>6 DEF RowInv, FieldsAreLeaves, LeavesAreFields, PointsAreRows
  <1>2. RowInv /\ [RowNext]_rowVars => RowInv'
    <2> SUFFICES ASSUME RowInv, [RowNext]_rowVars PROVE RowInv'
      OBVIOUS
    <2>1. CASE NextKv
      BY <2>1, KvStep
    <2>2. ASSUME UNCHANGED <<rowKv, rowClient, prefix, prefixXmlpath, prefixTags, rows>>,
                 rowPc' \in {"loop", "done", "panic"}, rowPc = "panic" => rowPc' = "panic"
          PROVE  RowTypes' /\ PrefixIsCarried' /\ FieldsAreLeaves' /\ LeavesAreFields'
      <3>1. RowTypes' /\ PrefixIsCarried' /\ FieldsAreLeaves'
        BY <2>2 DEF RowInv, RowTypes, PrefixIsCarried, PrefixIsLast, FieldsAreLeaves
      <3>2. LeavesAreFields'
        BY <2>2 DEF RowInv, LeavesAreFields
      <3> QED BY <3>1, <3>2
    <2>3. CASE MakePoints
      <3>1. RowTypes' /\ PrefixIsCarried' /\ FieldsAreLeaves' /\ LeavesAreFields'
        BY <2>2, <2>3 DEF MakePoints
      <3>2. PointsAreRows'
        BY <2>3 DEF MakePoints, PointsAreRows
      <3> QED BY <3>1, <3>2 DEF RowInv
    <2>4. CASE UNCHANGED rowVars
      <3>1. UNCHANGED <<rowKv, rowClient, rowPc, prefix, prefixXmlpath, prefixTags, rows, rowPoints>>
        BY <2>4 DEF rowVars
      <3>2. RowTypes' /\ PrefixIsCarried' /\ FieldsAreLeaves' /\ LeavesAreFields'
        BY <2>2, <3>1 DEF RowInv, RowTypes
      <3>3. PointsAreRows'
        BY <3>1 DEF RowInv, PointsAreRows
      <3> QED BY <3>2, <3>3 DEF RowInv
    <2> QED BY <2>1, <2>3, <2>4 DEF RowNext
  <1> QED BY <1>1, <1>2, PTL DEF RowSpec

(* Every leaf that has a value reaches a point under its name and with the keys of its
   whole path as tags, unless a leaf of the same name and tags comes later or a leaf of
   its row is not a number; and a point has no other fields (influx.go:447-570).  For
   packets of any length, in any order of prefixes and leaves, and any aliases. *)
THEOREM LeavesAreKept == RowSpec => []PointsKeepEveryLeaf
  <1>1. RowInv => PointsKeepEveryLeaf
    <2> SUFFICES ASSUME RowInv, rowPc = "done", rowClient
                 PROVE  /\ \A i \in DOMAIN rowKv : Taken(i) =>
                               \/ \E n \in DOMAIN rowPoints : IsField(rowPoints[n].row, FieldName(i), i)
                               \/ \E j \in DOMAIN rowKv :
                                      /\ Taken(j) /\ SplitTags(FullPath(j)) = SplitTags(FullPath(i))
                                      /\ rowKv[j].value = "nan" \/ (j > i /\ FieldName(j) = FieldName(i))
                        /\ \A n \in DOMAIN rowPoints : \A f \in DOMAIN rowPoints[n].row.fields :
                               \E i \in DOMAIN rowKv : Taken(i) /\ IsField(rowPoints[n].row, f, i)
      BY DEF PointsKeepEveryLeaf
    <2>1. \A n : n \in DOMAIN rowPoints <=> n \in DOMAIN rows /\ ~Refused(rows[n])
      BY DEF RowInv, PointsAreRows
    <2>2. \A n \in DOMAIN rowPoints : rowPoints[n].row = rows[n]
      BY DEF RowInv, PointsAreRows
    <2>3. ASSUME NEW i \in DOMAIN rowKv, Taken(i)
          PROVE  \/ \E n \in DOMAIN rowPoints : IsField(rowPoints[n].row, FieldName(i), i)
                 \/ \E j \in DOMAIN rowKv :
                        /\ Taken(j) /\ SplitTags(FullPath(j)) = SplitTags(FullPath(i))
                        /\ rowKv[j].value = "nan" \/ (j > i /\ FieldName(j) = FieldName(i))
      <3>1. CASE \E j \in DOMAIN rowKv : j > i /\ SameField(rowKv, i, j)
        BY <3>1, LeafIs DEF SameField
      <3>2. CASE \E n \in DOMAIN rows : FieldIs(rowKv, rows[n], NameIn(rowKv, i), i)
        <4>1. PICK n \in DOMAIN rows : FieldIs(rowKv, rows[n], NameIn(rowKv, i), i)
          BY <3>2
        <4>2. CASE ~Refused(rows[n])
          BY <2>1, <2>2, <4>1, <4>2, LeafIs
        <4>3. CASE Refused(rows[n])
          <5>1. PICK f \in DOMAIN rows[n].fields : rows[n].fields[f].val = "nan"
            BY <4>3 DEF Refused
          <5>2. PICK j \in DOMAIN rowKv : TakenIn(rowKv, j) /\ FieldIs(rowKv, rows[n], f, j) /\ rowKv[j].value = "nan"
            BY <5>1 DEF RowInv, FieldsAreLeaves
          <5>3. SplitTags(FullIn(rowKv, j)) = SplitTags(FullIn(rowKv, i))
            BY <4>1, <5>2 DEF FieldIs
          <5> QED BY <5>2, <5>3, LeafIs
        <4> QED BY <4>2, <4>3
      <3>3. TakenIn(rowKv, i)
        BY <2>3, LeafIs
      <3> QED BY <3>1, <3>2, <3>3 DEF RowInv, LeavesAreFields
    <2>4. ASSUME NEW n \in DOMAIN rowPoints, NEW f \in DOMAIN rowPoints[n].row.fields
          PROVE  \E i \in DOMAIN rowKv : Taken(i) /\ IsField(rowPoints[n].row, f, i)
      <3>1. n \in DOMAIN rows /\ rowPoints[n].row = rows[n]
        BY <2>1, <2>2, <2>4
      <3>2. PICK i \in DOMAIN rowKv : TakenIn(rowKv, i) /\ FieldIs(rowKv, rows[n], f, i)
        BY <2>4, <3>1 DEF RowInv, FieldsAreLeaves
      <3> QED BY <3>1, <3>2, LeafIs
    <2> QED BY <2>3, <2>4
  <1> QED BY <1>1, RowInductive, PTL

-----------------------------------------------------------------------------
(* Subscriptions *)

LEMMA DivMod ==
  ASSUME NEW a \in Nat, NEW b \in Nat, b > 0
  PROVE  /\ a \div b \in Nat /\ (a % b) \in Nat /\ (a % b) < b
         /\ a = b * (a \div b) + (a % b)
  OBVIOUS

LEMMA MulMono ==
  ASSUME NEW a \in Nat, NEW b \in Nat, NEW c \in Nat, a < b
  PROVE  c * a + c <= c * b
  <1>1. PICK d \in Nat : b = a + 1 + d
    <2>1. b - a - 1 \in Nat /\ b = a + 1 + (b - a - 1)
      OBVIOUS
    <2> QED BY <2>1
  <1>2. c * b = c * a + c + c * d
    BY <1>1
  <1>3. c * d \in Nat /\ c * a \in Nat
    OBVIOUS
  <1> QED BY <1>2, <1>3

LEMMA DivUnique ==
  ASSUME NEW a \in Nat, NEW b \in Nat, NEW q \in Nat, NEW r \in Nat, r < b, a = b * q + r
  PROVE  q = a \div b /\ r = (a % b)
  <1>1. PICK p \in Nat, s \in Nat : p = a \div b /\ s = (a % b) /\ s < b /\ a = b * p + s
    BY DivMod
  <1>2. ~(p < q)
    BY <1>1, MulMono
  <1>3. ~(q < p)
    BY <1>1, MulMono
  <1>4. p = q
    BY <1>2, <1>3
  <1> QED BY <1>1, <1>4

(* What gnmiFreq returns for a frequency that does not overflow *)
LEMMA IntervalIs ==
  ASSUME NEW mode, NEW freq \in Nat, freq * FreqUnits < Word,
         gnmiFreq(mode, freq)[1] # "on-change"
  PROVE  /\ gnmiFreq(mode, freq)[2] >= 2 * FreqUnits
         /\ gnmiFreq(mode, freq)[2] * 1000 >= freq * FreqUnits
  <1>1. FreqUnits \in Nat /\ FreqUnits # 0 /\ FreqUnits % 1000 = 0 /\ Word \in Nat /\ Word > 0
    BY GnmiPathsAssumption
  <1>2. PICK k \in Nat : FreqUnits = 1000 * k /\ k > 0
    <2>1. FreqUnits = 1000 * (FreqUnits \div 1000) + (FreqUnits % 1000) /\ FreqUnits \div 1000 \in Nat
      BY <1>1, DivMod
    <2> QED BY <1>1, <2>1
  <1>3. freq # 0
    BY DEF gnmiFreq
  <1>4. PICK x \in Nat : x = freq * FreqUnits
    BY <1>1
  <1>5. PICK y \in Nat : y = freq * k /\ y > 0 /\ x = 1000 * y
    <2>1. freq * k \in Nat /\ freq * k > 0
      BY <1>2, <1>3
    <2>2. freq * (1000 * k) = 1000 * (freq * k)
      BY <1>2
    <2> QED BY <1>2, <1>4, <2>1, <2>2
  <1>6. x % Word = x
    <2>1. x = Word * 0 + x /\ x < Word
      BY <1>1, <1>4
    <2> QED BY <1>1, <2>1, DivUnique
  <1>7. x \div 1000 = y
    <2>1. x = 1000 * y + 0
      BY <1>5
    <2> QED BY <2>1, DivUnique
  <1>8. gnmiFreq(mode, freq)[2] = IF y < 2 * FreqUnits THEN 2 * FreqUnits ELSE y
    BY <1>3, <1>4, <1>5, <1>6, <1>7 DEF gnmiFreq
  <1> QED BY <1>1, <1>4, <1>5, <1>8

(* The mode and the interval made of a path *)
Sampling(c) == gnmiFreq(gnmiMode(c.mode), c.freq)
MadeOf(sub, c) == sub.mode = Sampling(c)[1] /\ sub.interval = Sampling(c)[2]

(* Every subscription is made of the path at its place; only the path the loop stopped
   at has none. *)
SubInv ==
    /\ cfgPaths \in Seq(PathConfigs)
    /\ subs \in Seq({subs[n] : n \in DOMAIN subs})
    /\ IF subPc = "loop" THEN Len(subs) = Len(cfgPaths) ELSE Len(subs) <= Len(cfgPaths)
    /\ \A n \in DOMAIN subs : MadeOf(subs[n], cfgPaths[n])

LEMMA SubInductive == SubSpec => []SubInv
  <1>1. SubInit => SubInv
    BY DEF SubInit, SubInv
  <1>2. SubInv /\ [SubNext]_subVars => SubInv'
    <2> SUFFICES ASSUME SubInv, [SubNext]_subVars PROVE SubInv'
      OBVIOUS
    <2>1. CASE UNCHANGED subVars
      BY <2>1 DEF SubInv, subVars
    <2>2. CASE SubDone
      BY <2>2 DEF SubInv, SubDone
    <2>3. ASSUME NEW c \in PathConfigs, NextPath(c) PROVE SubInv'
      <3>1. /\ cfgPaths' = Append(cfgPaths, c) /\ subPc = "loop"
            /\ subs' = IF subPc' = "loop" THEN Append(subs, Subscription(c)) ELSE subs
        BY <2>3 DEF NextPath
      <3>2. PICK sub : sub = Subscription(c)
        OBVIOUS
      <3>3. MadeOf(sub, c)
        BY <3>2 DEF Subscription, MadeOf, Sampling
      <3>4. PICK T : T = {subs[n] : n \in DOMAIN subs} \cup {sub}
        OBVIOUS
      <3>5. /\ cfgPaths \in Seq(PathConfigs) /\ cfgPaths' \in Seq(PathConfigs)
            /\ Len(cfgPaths) \in Nat /\ Len(cfgPaths') = Len(cfgPaths) + 1
            /\ \A i \in 1 .. Len(cfgPaths) : cfgPaths'[i] = cfgPaths[i]
            /\ cfgPaths'[Len(cfgPaths) + 1] = c
        BY <3>1, AppendIs DEF SubInv
      <3>6. subs \in Seq(T) /\ Len(subs) = Len(cfgPaths) /\ DOMAIN subs = 1 .. Len(subs)
        <4>1. subs \in Seq(T)
          BY <3>4, SeqMonotonic DEF SubInv
        <4> QED BY <3>1, <4>1, LenProperties DEF SubInv
      <3>7. CASE subPc' # "loop"
        <4>1. subs' = subs
          BY <3>1, <3>7
        <4>2. \A n \in DOMAIN subs' : MadeOf(subs'[n], cfgPaths'[n])
          BY <3>5, <3>6, <4>1 DEF SubInv
        <4>3. subs' \in Seq({subs'[n] : n \in DOMAIN subs'}) /\ Len(subs') <= Len(cfgPaths')
          BY <3>5, <3>6, <4>1 DEF SubInv
        <4> QED BY <3>5, <3>7, <4>2, <4>3 DEF SubInv
      <3>8. CASE subPc' = "loop"
        <4>1. subs' = Append(subs, sub) /\ sub \in T
          BY <3>1, <3>2, <3>4, <3>8
        <4>2. /\ subs' \in Seq(T) /\ Len(subs') = Len(subs) + 1 /\ DOMAIN subs' = 1 .. Len(subs) + 1
              /\ \A i \in 1 .. Len(subs) : subs'[i] = subs[i]
              /\ subs'[Len(subs) + 1] = sub
          BY <3>6, <4>1, AppendIs
        <4>3. ASSUME NEW n \in DOMAIN subs' PROVE MadeOf(subs'[n], cfgPaths'[n])
          <5>1. CASE n = Len(subs) + 1
            BY <3>3, <3>5, <3>6, <4>2, <5>1
          <5>2. CASE n \in 1 .. Len(subs)
            BY <3>5, <3>6, <4>2, <5>2 DEF SubInv
          <5> QED BY <3>5, <3>6, <4>2, <5>1, <5>2
        <4>4. subs' \in Seq({subs'[n] : n \in DOMAIN subs'})
          BY <4>2, LenProperties
        <4> QED BY <3>5, <3>6, <3>8, <4>2, <4>3, <4>4 DEF SubInv
      <3> QED BY <3>7, <3>8
    <2> QED BY <2>1, <2>2, <2>3 DEF SubNext
  <1> QED BY <1>1, <1>2, PTL DEF SubSpec

(* No subscription samples more often than its path asks for or than every two seconds,
   short of an overflow: for any configuration, frequencies and modes, and the paths
   as many as they are. *)
THEOREM IntervalsAreLongEnough == SubSpec => []IntervalsAreKept
  <1>1. SubInv => IntervalsAreKept
    <2> SUFFICES ASSUME SubInv, NEW n \in DOMAIN subs, subs[n].mode # "on-change",
                        cfgPaths[n].freq * FreqUnits < Word
                 PROVE  /\ subs[n].interval >= 2 * FreqUnits
                        /\ subs[n].interval * 1000 >= cfgPaths[n].freq * FreqUnits
      BY DEF IntervalsAreKept
    <2>1. cfgPaths[n] \in PathConfigs
      BY LenProperties DEF SubInv
    <2>2. PICK c \in PathConfigs : c = cfgPaths[n]
      BY <2>1
    <2>3. c.freq \in Nat
      BY GnmiPathsAssumption
    <2>4. PICK mode, freq : mode = gnmiMode(c.mode) /\ freq = c.freq
      OBVIOUS
    <2>5. subs[n].mode = gnmiFreq(mode, freq)[1] /\ subs[n].interval = gnmiFreq(mode, freq)[2]
      BY <2>2, <2>4 DEF SubInv, MadeOf, Sampling
    <2> QED BY <2>2, <2>3, <2>4, <2>5, IntervalIs
  <1> QED BY <1>1, SubInductive, PTL

=============================================================================

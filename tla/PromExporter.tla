---------------------------- MODULE PromExporter ----------------------------
(***************************************************************************)
(* The Prometheus exporter (prometheus_exporter.go): goroutines that turn a  *)
(* packet into samples, addPrometheus for OpenConfig and publishToPrometheus  *)
(* for gNMI, the goroutine that keeps the latest sample of every series and   *)
(* drops old ones, and the scrapes of the server.  Samples of addPrometheus  *)
(* have labels of their own; those of one gNMI packet share one map, to which  *)
(* string leaves are added while earlier samples of the packet are already    *)
(* with the exporter.                                                        *)
(***************************************************************************)
EXTENDS Integers, Sequences, FiniteSets, Maps

CONSTANTS
    PromPacket,  \* PromPacket[p]: [gnmi, keys, leaves], leaves a sequence of [name, keys, tag, kind, val]
    csLLStrValue, \* the label of a leaf-list
    MaxPackets,  \* bound: packets of one behaviour
    Minute,      \* one minute, in units of the clock
    MaxNow,      \* bound: of the clock
    MaxScrapes   \* bound

PromPackets == DOMAIN PromPacket
Leaves(p) == DOMAIN PromPacket[p].leaves
Leaf(p, i) == PromPacket[p].leaves[i]

(* Names and labels are taken after getAlias and promName, which may make two of
   them one.  A leaf is a number, a string, a leaf-list or of a kind that is not
   exported. *)
ASSUME PromAssumption ==
    /\ Minute \in Nat \ {0} /\ MaxNow \in Nat /\ MaxScrapes \in Nat
    /\ 0 \notin PromPackets
    /\ \A p \in PromPackets : \A i \in Leaves(p) : Leaf(p, i).kind \in {"num", "str", "list", "other"}

VARIABLES
    now,         \* time.Now()
    nextTick,    \* when the ticker fires
    todo,        \* todo[p]: leaves of packet p not yet looked at
    labels,      \* labels[p]: promKvpairs of a gNMI packet
    blocked,     \* blocked[p]: the sample its goroutine is sending on exporter.ch
    pm,          \* exporter.m, by mapKey
    scraped,     \* samples Collect has copied and not sent
    output,      \* what the scrape has sent
    scrapes,
    promCrashed

promVars == <<now, nextTick, todo, labels, blocked, pm, scraped, output, scrapes, promCrashed>>

NoSample == [name |-> "none"]

-----------------------------------------------------------------------------
PromInit ==
    /\ now = 0 /\ nextTick = Minute
    /\ \E S \in SUBSET PromPackets :
           /\ Cardinality(S) <= MaxPackets
           /\ todo = [p \in PromPackets |-> IF p \in S THEN Leaves(p) ELSE {}]
    /\ labels = [p \in PromPackets |-> PromPacket[p].keys]
    /\ blocked = [p \in PromPackets |-> NoSample]
    /\ pm = <<>>
    /\ scraped = {} /\ output = {} /\ scrapes = 0
    /\ promCrashed = FALSE

(* The labels of a sample as they are when somebody reads them *)
LabelsOf(s) == IF s.packet \in PromPackets THEN labels[s.packet] ELSE s.own

(* Mutant of getMapKey: the value is part of the key. *)
getMapKeyWithValue(leaf, ls) == <<leaf.name, ls, leaf.val>>

(* The name and all labels, sorted: one key for every series *)
getMapKey(leaf, ls) == <<leaf.name, ls>>

Sample(p, i, ls) ==
    [name |-> Leaf(p, i).name, mapKey |-> getMapKey(Leaf(p, i), ls), time |-> now,
     val |-> IF Leaf(p, i).kind = "num" THEN Leaf(p, i).val ELSE 0,
     packet |-> IF PromPacket[p].gnmi THEN p ELSE 0, own |-> ls]

(* The labels a leaf starts from: the keys of its path, or the packet's map *)
Base(p, i) == IF PromPacket[p].gnmi THEN labels[p] ELSE Leaf(p, i).keys

(* A string leaf becomes a label and a sample of value 0, unless the label is there;
   so does a leaf-list of OpenConfig, always under one name. *)
Skip(p, i) ==
    \/ Leaf(p, i).kind = "other"
    \/ Leaf(p, i).kind = "str" /\ Leaf(p, i).tag \in DOMAIN Base(p, i)

WithLeaf(p, i) ==
    LET leaf == Leaf(p, i)
    IN  CASE leaf.kind = "str" -> MapSet(Base(p, i), leaf.tag, leaf.val)
          [] leaf.kind = "list" /\ ~PromPacket[p].gnmi -> MapSet(Base(p, i), csLLStrValue, leaf.val)
          [] OTHER -> Base(p, i)

(* One round of the loop over ocData.Kv, in order, or over the map xpaths, in any *)
NextLeaf(p, i) ==
    /\ i \in todo[p] /\ blocked[p] = NoSample
    /\ todo' = [todo EXCEPT ![p] = @ \ {i}]
    /\ blocked' = IF Skip(p, i) THEN blocked
                  ELSE [blocked EXCEPT ![p] = Sample(p, i, WithLeaf(p, i))]
    /\ UNCHANGED <<now, nextTick, pm, scraped, output, scrapes, promCrashed>>

addPrometheus(p, i) ==
    /\ ~PromPacket[p].gnmi /\ \A j \in todo[p] : i <= j
    /\ NextLeaf(p, i)
    /\ UNCHANGED labels

publishToPrometheus(p, i) ==
    /\ PromPacket[p].gnmi
    /\ NextLeaf(p, i)
    /\ labels' = IF Skip(p, i) THEN labels ELSE [labels EXCEPT ![p] = WithLeaf(p, i)]

(* case s := <-c.ch, which has no buffer, and c.m[s.mapKey] = s under the lock; in
   between nobody else can see s. *)
PromReceive(p) ==
    /\ blocked[p] # NoSample
    /\ pm' = MapSet(pm, blocked[p].mapKey, blocked[p])
    /\ blocked' = [blocked EXCEPT ![p] = NoSample]
    /\ UNCHANGED <<now, nextTick, todo, labels, scraped, output, scrapes, promCrashed>>

(* Mutant of PromExpire: a minute more. *)
PromExpireLate ==
    /\ now >= nextTick
    /\ nextTick' = now + Minute
    /\ pm' = [k \in {x \in DOMAIN pm : ~(now - 2 * Minute > pm[x].time)} |-> pm[k]]
    /\ UNCHANGED <<now, todo, labels, blocked, scraped, output, scrapes, promCrashed>>

(* case <-ticker *)
PromExpire ==
    /\ now >= nextTick
    /\ nextTick' = now + Minute
    /\ pm' = [k \in {x \in DOMAIN pm : ~(now - Minute > pm[x].time)} |-> pm[k]]
    /\ UNCHANGED <<now, todo, labels, blocked, scraped, output, scrapes, promCrashed>>

(* The exporter takes what is sent to it, and its ticks, in less than a unit of the
   clock. *)
PromClock ==
    /\ now < MaxNow /\ now < nextTick
    /\ \A p \in PromPackets : blocked[p] = NoSample
    /\ now' = now + 1
    /\ UNCHANGED <<nextTick, todo, labels, blocked, pm, scraped, output, scrapes, promCrashed>>

(* Collect copies the samples, not their labels, under the lock ... *)
CollectCopy ==
    /\ scraped = {} /\ scrapes < MaxScrapes /\ pm # <<>>
    /\ scraped' = {pm[k] : k \in DOMAIN pm}
    /\ output' = {}
    /\ scrapes' = scrapes + 1
    /\ UNCHANGED <<now, nextTick, todo, labels, blocked, pm, promCrashed>>

(* ... and makes a metric of every one after it. *)
CollectSend ==
    /\ \E s \in scraped :
           /\ scraped' = scraped \ {s}
           /\ output' = output \cup {[name |-> s.name, labels |-> LabelsOf(s), sample |-> s]}
    /\ UNCHANGED <<now, nextTick, todo, labels, blocked, pm, scrapes, promCrashed>>

(* NewDesc iterates over the labels while the packet's goroutine adds a string leaf
   to them: the runtime ends the program. *)
CollectRace ==
    /\ \E s \in scraped : \E p \in PromPackets : \E i \in todo[p] :
           /\ s.packet = p /\ blocked[p] = NoSample
           /\ Leaf(p, i).kind = "str" /\ ~Skip(p, i)
    /\ promCrashed' = TRUE
    /\ UNCHANGED <<now, nextTick, todo, labels, blocked, pm, scraped, output, scrapes>>

PromNext ==
    /\ ~promCrashed
    /\ \/ PromExpire \/ PromClock \/ CollectCopy \/ CollectSend \/ CollectRace
       \/ \E p \in PromPackets :
              \/ PromReceive(p)
              \/ \E i \in Leaves(p) : addPrometheus(p, i) \/ publishToPrometheus(p, i)

PromSpec == PromInit /\ [][PromNext]_promVars

-----------------------------------------------------------------------------
(* The labels a scrape found on a sample are more than its key was made with: a
   string leaf of its own packet was added to them after the sample was sent
   (subscribe_gnmi.go:63-70, 90-93). *)
Grown(x) ==
    /\ x.sample.packet \in PromPackets
    /\ \E i \in Leaves(x.sample.packet) :
           LET leaf == Leaf(x.sample.packet, i)
           IN  /\ leaf.kind = "str"
               /\ leaf.tag \in DOMAIN x.labels \ DOMAIN x.sample.own
               /\ x.labels[leaf.tag] = leaf.val

(* A scrape is answered with an error if two of its samples have one name and the
   same labels.  The map of the exporter prevents it, whatever is inserted, expired
   or scraped in between, unless the labels of at least one of the two grew under it:
   never if both were read with the labels they are kept under. *)
DuplicatesNeedGrowth ==
    \A x, y \in output :
        x # y /\ x.name = y.name /\ x.labels = y.labels => Grown(x) \/ Grown(y)

(* No scrape copies a sample older than two minutes: one until it is old and one
   until the ticker looks (prometheus_exporter.go:67-75). *)
ScrapeIsFresh ==
    [][\A s \in scraped' \ scraped : now - s.time <= 2 * Minute]_promVars

=============================================================================

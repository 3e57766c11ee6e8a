----------------------------- MODULE GnmiPaths ------------------------------
(***************************************************************************)
(* From the paths of a configuration to gNMI subscriptions                   *)
(* (xPathsTognmiSubscription in subscribe_gnmi.go, gnmi_utils.go).  A        *)
(* configured path is a string; it is modelled by its tokens: "/", "[", "]",  *)
(* "=", "and" and whatever is between them, quotes and spaces left out.       *)
(* A name or a value may contain each of them: "and" is part of "bandwidth".   *)
(***************************************************************************)
EXTENDS Integers, Sequences, FiniteSets, SequencesExt

CONSTANTS
    PathConfigs,  \* configured paths: [path, origin, mode, freq, heartbeat]
    MaxPaths,     \* bound: paths of a configuration
    FreqUnits,    \* gGnmiFreqUnits, a second (10^9 in the code)
    Word          \* 2^64, what uint64 counts modulo

(* A path as its author means it: elements [name, keys], keys the brackets of the
   element, each with its keys [key, value]; names and values are sequences of tokens *)
RenderKey(k) == k.key \o <<"=">> \o k.value
RenderBracket(ks) ==
    <<"[">> \o FoldLeft(LAMBDA acc, k : acc \o <<"and">> \o RenderKey(k), RenderKey(Head(ks)), Tail(ks)) \o <<"]">>
RenderElem(e) == <<"/">> \o e.name \o FlattenSeq([n \in DOMAIN e.keys |-> RenderBracket(e.keys[n])])
Render(path) == FlattenSeq([i \in DOMAIN path |-> RenderElem(path[i])])

(* The keys of an element; one that is given twice has the value given last. *)
KeysOfElem(e) ==
    LET ks == FlattenSeq(e.keys)
    IN  [k \in {ks[j].key : j \in DOMAIN ks} |-> ks[Max({j \in DOMAIN ks : ks[j].key = k})].value]

ASSUME GnmiPathsAssumption ==
    /\ MaxPaths \in Nat /\ FreqUnits \in Nat \ {0} /\ FreqUnits % 1000 = 0 /\ Word \in Nat \ {0}
    /\ \A c \in PathConfigs :
           /\ c.freq \in Nat /\ c.heartbeat \in Nat
           /\ \A i \in DOMAIN c.path :
                  /\ c.path[i].name # <<>> /\ Range(c.path[i].name) \cap {"/", "["} = {}
                  /\ \A n \in DOMAIN c.path[i].keys : c.path[i].keys[n] # <<>>

VARIABLES
    fromDialOut,  \* the paths come in a dial-out request
    cfgPaths,     \* the paths looked at so far
    subs,         \* the subscriptions made of them
    subPc         \* "loop", "done", "error" or "panic"

subVars == <<fromDialOut, cfgPaths, subs, subPc>>

-----------------------------------------------------------------------------
SubInit ==
    /\ fromDialOut \in BOOLEAN
    /\ cfgPaths = <<>> /\ subs = <<>> /\ subPc = "loop"

(* strings.Split *)
Split(s, sep) ==
    LET cuts == {0, Len(s) + 1} \cup {i \in DOMAIN s : s[i] = sep}
        Cut(n) == CHOOSE c \in cuts : Cardinality({d \in cuts : d < c}) = n - 1
    IN  [n \in 1 .. Cardinality(cuts) - 1 |-> SubSeq(s, Cut(n) + 1, Cut(n + 1) - 1)]

(* What matches \[(.*?)\], in order: from a "[" that is not part of a match to the next
   "]"; strings.Trim takes further brackets off its ends. *)
Brackets(s) ==
    LET Close(i) == {j \in i .. Len(s) : s[j] = "]"}
        open == {i \in DOMAIN s : /\ s[i] = "[" /\ Close(i) # {}
                                  /\ \A j \in 1 .. i - 1 : s[j] = "[" => \E k \in j .. i : s[k] = "]"}
        Trim(i) == LET inner == {j \in i .. Min(Close(i)) : s[j] \notin {"[", "]"}}
                   IN  IF inner = {} THEN <<>> ELSE SubSeq(s, Min(inner), Max(inner))
        starts == SetToSortSeq(open, <)
    IN  [n \in DOMAIN starts |-> Trim(starts[n])]

(* The pairs of one part of the path, each split at "=" *)
Pairs(s) ==
    LET PairsOf(b) == [n \in DOMAIN Split(b, "and") |-> Split(Split(b, "and")[n], "=")]
    IN  FlattenSeq([n \in DOMAIN Brackets(s) |-> PairsOf(Brackets(s)[n])])

(* parseKeyValuePairs: name and keys of one part, where a pair replaces an earlier one
   of its key; kv[1] is out of range for a pair without "=". *)
PairPanics(s) == \E n \in DOMAIN Pairs(s) : Len(Pairs(s)[n]) < 2
parseKeyValuePairs(s) ==
    LET kvs == Pairs(s)
    IN  [name |-> Split(s, "[")[1],
         keys |-> [key \in {kvs[n][1] : n \in DOMAIN kvs} |->
                      kvs[Max({n \in DOMAIN kvs : kvs[n][1] = key})][2]]]

Parts(xpath) == SelectSeq(Tail(Split(xpath, "/")), LAMBDA s : s # <<>>)

(* Mutant of xPathTognmiPath: the last element is left out. *)
xPathTognmiPathShort(xpath) ==
    [i \in 1 .. Len(Parts(xpath)) - 1 |-> parseKeyValuePairs(Parts(xpath)[i])]

(* The path is cut at "/" first, and every part looked at for keys. *)
xPathTognmiPath(xpath) == [i \in DOMAIN Parts(xpath) |-> parseKeyValuePairs(Parts(xpath)[i])]

gnmiMode(mode) == IF mode \in {"on-change", "target-defined"} THEN mode ELSE "sample"

(* A frequency in milliseconds, at least two seconds; 0 turns the mode to on-change. *)
gnmiFreq(mode, freq) ==
    LET f == ((freq * FreqUnits) % Word) \div 1000
    IN  IF mode = "on-change" \/ freq = 0 THEN <<"on-change", 0>>
        ELSE <<mode, IF f # 0 /\ f < 2 * FreqUnits THEN 2 * FreqUnits ELSE f>>

gnmiHeartBeat(hb) == ((hb * FreqUnits) % Word) \div 10000

(* A dial-out request has neither origin nor heartbeat. *)
Subscription(c) ==
    LET mf == gnmiFreq(gnmiMode(c.mode), c.freq)
    IN  [path |-> xPathTognmiPath(Render(c.path)), mode |-> mf[1], interval |-> mf[2],
         origin |-> IF fromDialOut THEN "" ELSE c.origin,
         heartbeat |-> IF fromDialOut THEN 0 ELSE gnmiHeartBeat(c.heartbeat)]

(* One round of the loop; a path without elements is an error and ends it. *)
NextPath(c) ==
    LET xpath == Render(c.path)
    IN
    /\ subPc = "loop" /\ Len(cfgPaths) < MaxPaths
    /\ cfgPaths' = Append(cfgPaths, c)
    /\ subPc' = CASE \E i \in DOMAIN Parts(xpath) : PairPanics(Parts(xpath)[i]) -> "panic"
                  [] xPathTognmiPath(xpath) = <<>> -> "error"
                  [] OTHER -> "loop"
    /\ subs' = IF subPc' = "loop" THEN Append(subs, Subscription(c)) ELSE subs
    /\ UNCHANGED fromDialOut

SubDone ==
    /\ subPc = "loop"
    /\ subPc' = "done"
    /\ UNCHANGED <<fromDialOut, cfgPaths, subs>>

SubNext == SubDone \/ \E c \in PathConfigs : NextPath(c)
SubSpec == SubInit /\ [][SubNext]_subVars

-----------------------------------------------------------------------------
(* No name or value of a key contains a token the parser cuts at. *)
Reserved == {"/", "[", "]", "=", "and"}
Plain(path) ==
    \A i \in DOMAIN path : \A k \in Range(FlattenSeq(path[i].keys)) :
        Range(k.key \o k.value) \cap Reserved = {}

(* No subscription, whatever follows it in the configuration, samples more often than
   its path asks for or than every two seconds, unless its frequency in nanoseconds
   exceeds a uint64 (gnmi_utils.go:179-191). *)
IntervalsAreKept ==
    \A n \in DOMAIN subs :
        subs[n].mode # "on-change" /\ cfgPaths[n].freq * FreqUnits < Word =>
            subs[n].interval >= 2 * FreqUnits /\ subs[n].interval * 1000 >= cfgPaths[n].freq * FreqUnits

(* What is subscribed to is what the configuration says, path by path in its order:
   names, keys and an interval not shorter than asked for; provided that no name and
   no value of a key contains "/", "and", "=" or a bracket.  With one of them keys are
   lost, elements appear or the program ends, [bandwidth=1] for one
   (gnmi_utils.go:98-111, 123). *)
SubscriptionIsFaithful ==
    /\ subPc = "panic" => ~Plain(Last(cfgPaths).path)
    /\ IntervalsAreKept
    /\ \A n \in DOMAIN subs :
           LET path == cfgPaths[n].path
           IN  Plain(path) =>
                   subs[n].path = [i \in DOMAIN path |->
                                       [name |-> path[i].name, keys |-> KeysOfElem(path[i])]]

=============================================================================

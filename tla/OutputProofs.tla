---------------------------- MODULE OutputProofs ----------------------------
(***************************************************************************)
(* Theorems about the outputs: the Prometheus exporter, for any packets and  *)
(* any time, the InfluxDB batch writer, for any packets, batch size and       *)
(* schedule, and the accumulator of IOS-XR, for any metrics.                  *)
(***************************************************************************)
EXTENDS PromExporter, Influx, Accumulator, FiniteSetTheorems, SequenceTheorems, TLAPS

-----------------------------------------------------------------------------
(* Prometheus: no old sample is copied *)

ClockInv ==
    /\ now \in Nat /\ nextTick \in Nat /\ now <= nextTick /\ nextTick <= now + Minute
    /\ \A p \in PromPackets : blocked[p] # NoSample => blocked[p].time = now
    /\ \A k \in DOMAIN pm : pm[k].time \in Int /\ pm[k].time >= nextTick - 2 * Minute

(* A sample is as old as its tick allows; the ticker has looked at most a minute ago. *)
LEMMA ClockStep ==
  ASSUME ClockInv, [PromNext]_promVars
  PROVE  ClockInv'
  <1> USE PromAssumption DEF ClockInv
  <1>1. CASE PromExpire
    BY <1>1 DEF PromExpire
  <1>2. CASE PromClock
    BY <1>2 DEF PromClock
  <1>3. CASE CollectCopy \/ CollectSend \/ CollectRace \/ UNCHANGED promVars
    BY <1>3 DEF CollectCopy, CollectSend, CollectRace, promVars
  <1>4. ASSUME NEW p \in PromPackets, PromReceive(p) PROVE ClockInv'
    <2>1. /\ UNCHANGED <<now, nextTick>> /\ blocked[p].time = now
          /\ pm' = MapSet(pm, blocked[p].mapKey, blocked[p])
          /\ blocked' = [blocked EXCEPT ![p] = NoSample]
      BY <1>4 DEF PromReceive
    <2>2. \A k \in DOMAIN pm' : pm'[k] = blocked[p] \/ (k \in DOMAIN pm /\ pm'[k] = pm[k])
      BY <2>1 DEF MapSet
    <2>3. now \in Int /\ now >= nextTick - 2 * Minute
      OBVIOUS
    <2> QED BY <2>1, <2>2, <2>3
  <1>5. ASSUME NEW p \in PromPackets, NEW i \in Leaves(p), NextLeaf(p, i)
        PROVE  ClockInv'
    <2>1. /\ UNCHANGED <<now, nextTick, pm>>
          /\ blocked' = IF Skip(p, i) THEN blocked
                        ELSE [blocked EXCEPT ![p] = Sample(p, i, WithLeaf(p, i))]
      BY <1>5 DEF NextLeaf
    <2>2. Sample(p, i, WithLeaf(p, i)).time = now
      BY DEF Sample
    <2> QED BY <2>1, <2>2
  <1> QED BY <1>1, <1>2, <1>3, <1>4, <1>5 DEF PromNext, addPrometheus, publishToPrometheus

(* No scrape copies a sample older than two minutes, for every clock, packets and order
   of samples, ticks and scrapes (prometheus_exporter.go:67-75): expiry is exact to a
   period of the ticker because no sample waits for the exporter while time passes. *)
THEOREM ScrapesAreFresh == PromSpec => ScrapeIsFresh
  <1>1. PromInit => ClockInv
    BY PromAssumption DEF PromInit, ClockInv
  <1>2. ClockInv /\ [PromNext]_promVars => ClockInv'
    BY ClockStep
  <1>3. ClockInv /\ [PromNext]_promVars
          => [\A s \in scraped' \ scraped : now - s.time <= 2 * Minute]_promVars
    <2> SUFFICES ASSUME ClockInv, PromNext, NEW s \in scraped' \ scraped
                 PROVE  now - s.time <= 2 * Minute
      OBVIOUS
    <2>1. CollectCopy
      BY DEF PromNext, PromExpire, PromClock, CollectSend, CollectRace, PromReceive, NextLeaf,
             addPrometheus, publishToPrometheus
    <2>2. \E k \in DOMAIN pm : s = pm[k]
      BY <2>1 DEF CollectCopy
    <2> QED BY <2>2, PromAssumption DEF ClockInv
  <1> QED BY <1>1, <1>2, <1>3, PTL DEF PromSpec, ScrapeIsFresh

-----------------------------------------------------------------------------
(* Prometheus: one sample for every name and labels *)

(* A sample as addPrometheus and publishToPrometheus make it: under the key of its name
   and of the labels it is made with. *)
WellMade(s) == s.mapKey = <<s.name, s.own>>

(* Labels ls of packet p that began as own: with a string leaf of p more, or unchanged *)
Extends(p, ls, own) ==
    \/ ls = own
    \/ \E i \in Leaves(p) : /\ Leaf(p, i).kind = "str"
                            /\ Leaf(p, i).tag \in DOMAIN ls \ DOMAIN own
                            /\ ls[Leaf(p, i).tag] = Leaf(p, i).val

MayGrow(ls, s) == s.packet \in PromPackets => Extends(s.packet, ls[s.packet], s.own)

LabelsStay == labels = [p \in PromPackets |-> labels[p]]

SamplesAreWellMade ==
    /\ blocked = [p \in PromPackets |-> blocked[p]]
    /\ \A p \in PromPackets :
           blocked[p] # NoSample => WellMade(blocked[p]) /\ MayGrow(labels, blocked[p])
    /\ \A k \in DOMAIN pm : WellMade(pm[k]) /\ pm[k].mapKey = k /\ MayGrow(labels, pm[k])
    /\ \A s \in scraped : WellMade(s) /\ MayGrow(labels, s)

(* Of the samples of one scrape, sent or not, no two have one key. *)
Copied == scraped \cup {x.sample : x \in output}
OneOfEachKey ==
    /\ \A s, t \in Copied : s.mapKey = t.mapKey => s = t
    /\ \A x \in output : /\ x.sample \notin scraped /\ WellMade(x.sample)
                         /\ x.name = x.sample.name
                         /\ x.labels = x.sample.own \/ Grown(x)
    /\ \A x, y \in output : x.sample = y.sample => x = y

SampleInv == LabelsStay /\ SamplesAreWellMade /\ OneOfEachKey

LEMMA SampleInit == PromInit => SampleInv
  BY DEF PromInit, SampleInv, LabelsStay, SamplesAreWellMade, OneOfEachKey, Copied

(* A string leaf is added only under a tag that is not there: what has grown stays so. *)
LEMMA LabelsGrow ==
  ASSUME NEW p \in PromPackets, NEW i \in Leaves(p), Leaf(p, i).kind = "str",
         NEW ls, NEW own, Leaf(p, i).tag \notin DOMAIN ls, Extends(p, ls, own)
  PROVE  Extends(p, MapSet(ls, Leaf(p, i).tag, Leaf(p, i).val), own)
  <1> DEFINE new == MapSet(ls, Leaf(p, i).tag, Leaf(p, i).val)
  <1>1. /\ DOMAIN new = DOMAIN ls \cup {Leaf(p, i).tag} /\ new[Leaf(p, i).tag] = Leaf(p, i).val
        /\ \A t \in DOMAIN ls : new[t] = ls[t]
    BY DEF MapSet
  <1> HIDE DEF new
  <1>2. CASE ls = own
    BY <1>1, <1>2 DEF Extends, new
  <1>3. CASE ls # own
    <2>1. PICK j \in Leaves(p) : /\ Leaf(p, j).kind = "str"
                                /\ Leaf(p, j).tag \in DOMAIN ls \ DOMAIN own
                                /\ ls[Leaf(p, j).tag] = Leaf(p, j).val
      BY <1>3 DEF Extends
    <2>2. new[Leaf(p, j).tag] = Leaf(p, j).val /\ Leaf(p, j).tag \in DOMAIN new \ DOMAIN own
      BY <1>1, <2>1
    <2>3. Extends(p, new, own)
      BY <2>1, <2>2 DEF Extends
    <2> QED BY <2>3 DEF new
  <1> QED BY <1>2, <1>3

(* The labels of packet p after a step of its goroutine *)
LEMMA NewLabels ==
  ASSUME SampleInv, NEW p \in PromPackets, NEW i \in Leaves(p),
         addPrometheus(p, i) \/ publishToPrometheus(p, i)
  PROVE  /\ LabelsStay'
         /\ \A s : MayGrow(labels, s) => MayGrow(labels', s)
         /\ PromPacket[p].gnmi /\ ~Skip(p, i) => labels'[p] = WithLeaf(p, i)
  <1>1. CASE ~PromPacket[p].gnmi \/ Skip(p, i)
    BY <1>1 DEF SampleInv, LabelsStay, addPrometheus, publishToPrometheus
  <1>2. CASE PromPacket[p].gnmi /\ ~Skip(p, i)
    <2>1. labels' = [labels EXCEPT ![p] = WithLeaf(p, i)]
      BY <1>2 DEF addPrometheus, publishToPrometheus
    <2>2. /\ labels'[p] = WithLeaf(p, i) /\ LabelsStay'
          /\ \A q \in PromPackets : q # p => labels'[q] = labels[q]
      BY <2>1 DEF SampleInv, LabelsStay
    <2>3. Base(p, i) = labels[p]
      BY <1>2 DEF Base
    <2>4. CASE Leaf(p, i).kind = "str"
      <3>1. /\ WithLeaf(p, i) = MapSet(labels[p], Leaf(p, i).tag, Leaf(p, i).val)
            /\ Leaf(p, i).tag \notin DOMAIN labels[p]
        BY <1>2, <2>3, <2>4 DEF WithLeaf, Skip
      <3>2. ASSUME NEW own, Extends(p, labels[p], own) PROVE Extends(p, labels'[p], own)
        <4> DEFINE ls == labels[p]
        <4>1. Extends(p, MapSet(ls, Leaf(p, i).tag, Leaf(p, i).val), own)
          <5>1. Extends(p, ls, own) /\ Leaf(p, i).tag \notin DOMAIN ls
            BY <3>1, <3>2
          <5> HIDE DEF ls
          <5> QED BY <2>4, <5>1, LabelsGrow
        <4> QED BY <2>2, <3>1, <4>1
      <3> QED BY <2>2, <3>2 DEF MayGrow
    <2>5. CASE Leaf(p, i).kind # "str"
      <3>1. WithLeaf(p, i) = labels[p]
        BY <1>2, <2>3, <2>5, Zenon DEF WithLeaf
      <3>2. \A q \in PromPackets : labels'[q] = labels[q]
        BY <2>2, <3>1
      <3> QED BY <2>2, <3>2 DEF MayGrow
    <2> QED BY <2>4, <2>5
  <1> QED BY <1>1, <1>2

LEMMA NewSample ==
  ASSUME SampleInv, NEW p \in PromPackets, NEW i \in Leaves(p), ~Skip(p, i),
         addPrometheus(p, i) \/ publishToPrometheus(p, i)
  PROVE  WellMade(Sample(p, i, WithLeaf(p, i))) /\ MayGrow(labels', Sample(p, i, WithLeaf(p, i)))
  <1> DEFINE s == Sample(p, i, WithLeaf(p, i))
  <1>1. /\ s.mapKey = <<s.name, s.own>> /\ s.own = WithLeaf(p, i)
        /\ s.packet = IF PromPacket[p].gnmi THEN p ELSE 0
    BY DEF Sample, getMapKey
  <1>2. s.packet \in PromPackets => PromPacket[p].gnmi /\ s.packet = p
    BY <1>1, PromAssumption
  <1> HIDE DEF s
  <1>3. WellMade(s)
    BY <1>1 DEF WellMade
  <1>4. MayGrow(labels', s)
    BY <1>1, <1>2, NewLabels DEF MayGrow, Extends
  <1> QED BY <1>3, <1>4 DEF s

LEMMA SampleStep ==
  ASSUME SampleInv, [PromNext]_promVars
  PROVE  SampleInv'
  <1> USE DEF SampleInv
  <1>1. CASE PromExpire \/ PromClock \/ CollectRace \/ UNCHANGED promVars
    <2>1. UNCHANGED <<labels, blocked, scraped, output>>
      BY <1>1 DEF PromExpire, PromClock, CollectRace, promVars
    <2>2. \A k \in DOMAIN pm' : k \in DOMAIN pm /\ pm'[k] = pm[k]
      BY <1>1 DEF PromExpire, PromClock, CollectRace, promVars
    <2> QED BY <2>1, <2>2 DEF LabelsStay, SamplesAreWellMade, OneOfEachKey, Copied
  <1>2. CASE CollectCopy
    <2>1. /\ UNCHANGED <<labels, blocked, pm>> /\ output' = {}
          /\ scraped' = {pm[k] : k \in DOMAIN pm}
      BY <1>2 DEF CollectCopy
    <2>2. \A s \in scraped' : WellMade(s) /\ MayGrow(labels, s) /\ \E k \in DOMAIN pm : s = pm[k] /\ s.mapKey = k
      BY <2>1 DEF SamplesAreWellMade
    <2>3. \A s, t \in scraped' : s.mapKey = t.mapKey => s = t
      BY <2>2
    <2>4. Copied' = scraped'
      BY <2>1 DEF Copied
    <2> QED BY <2>1, <2>2, <2>3, <2>4 DEF LabelsStay, SamplesAreWellMade, OneOfEachKey
  <1>3. CASE CollectSend
    <2>1. PICK s \in scraped :
            /\ scraped' = scraped \ {s}
            /\ output' = output \cup {[name |-> s.name, labels |-> LabelsOf(s), sample |-> s]}
            /\ UNCHANGED <<labels, blocked, pm>>
      BY <1>3 DEF CollectSend
    <2> DEFINE e == [name |-> s.name, labels |-> LabelsOf(s), sample |-> s]
    <2>2. e.sample = s /\ e.name = s.name /\ e.labels = LabelsOf(s)
      OBVIOUS
    <2>3. output' = output \cup {e}
      BY <2>1
    <2> HIDE DEF e
    <2>4. Copied' = Copied
      BY <2>1, <2>2, <2>3 DEF Copied
    <2>5. e.labels = s.own \/ Grown(e)
      BY <2>1, <2>2 DEF LabelsOf, SamplesAreWellMade, MayGrow, Extends, Grown
    <2>6. \A x \in output : x.sample # s
      BY DEF OneOfEachKey
    <2> QED BY <2>1, <2>2, <2>3, <2>4, <2>5, <2>6 DEF LabelsStay, SamplesAreWellMade, OneOfEachKey
  <1>4. ASSUME NEW p \in PromPackets, PromReceive(p) PROVE SampleInv'
    <2>1. /\ UNCHANGED <<labels, scraped, output>>
          /\ WellMade(blocked[p]) /\ MayGrow(labels, blocked[p])
          /\ pm' = MapSet(pm, blocked[p].mapKey, blocked[p])
          /\ blocked' = [blocked EXCEPT ![p] = NoSample]
      BY <1>4 DEF PromReceive, SamplesAreWellMade
    <2>2. \A k \in DOMAIN pm' : WellMade(pm'[k]) /\ pm'[k].mapKey = k /\ MayGrow(labels, pm'[k])
      BY <2>1 DEF MapSet, SamplesAreWellMade
    <2> QED BY <2>1, <2>2 DEF LabelsStay, SamplesAreWellMade, OneOfEachKey, Copied
  <1>5. ASSUME NEW p \in PromPackets, NEW i \in Leaves(p),
               addPrometheus(p, i) \/ publishToPrometheus(p, i)
        PROVE  SampleInv'
    <2> DEFINE s == Sample(p, i, WithLeaf(p, i))
    <2>1. /\ UNCHANGED <<pm, scraped, output>>
          /\ blocked' = IF Skip(p, i) THEN blocked ELSE [blocked EXCEPT ![p] = s]
      BY <1>5 DEF addPrometheus, publishToPrometheus, NextLeaf
    <2>2. ~Skip(p, i) => WellMade(s) /\ MayGrow(labels', s)
      BY <1>5, NewSample
    <2>3. LabelsStay' /\ \A t : MayGrow(labels, t) => MayGrow(labels', t)
      BY <1>5, NewLabels
    <2> HIDE DEF s
    <2> QED BY <2>1, <2>2, <2>3 DEF SamplesAreWellMade, OneOfEachKey, Copied
  <1> QED BY <1>1, <1>2, <1>3, <1>4, <1>5 DEF PromNext

(* Of two samples of a scrape with one name and the same labels, one at least has labels
   that grew after its key was made (subscribe_gnmi.go:63-70, 90-93), for every set of
   packets, whatever is inserted, expired or scraped in between. *)
THEOREM DuplicatesHaveGrown == PromSpec => []DuplicatesNeedGrowth
  <1>1. SampleInv => DuplicatesNeedGrowth
    <2> SUFFICES ASSUME SampleInv, NEW x \in output, NEW y \in output,
                        x # y, x.name = y.name, x.labels = y.labels, ~Grown(x), ~Grown(y)
                 PROVE  FALSE
      BY DEF DuplicatesNeedGrowth
    <2>1. x.sample.mapKey = y.sample.mapKey
      BY DEF SampleInv, OneOfEachKey, WellMade
    <2>2. x.sample = y.sample
      BY <2>1 DEF SampleInv, OneOfEachKey, Copied
    <2> QED BY <2>2 DEF SampleInv, OneOfEachKey
  <1> QED BY <1>1, SampleInit, SampleStep, PTL DEF PromSpec

-----------------------------------------------------------------------------
(* InfluxDB: how often a value occurs in a sequence *)

Places(x, s) == {i \in DOMAIN s : s[i] = x}

LEMMA PlacesAreFinite ==
  ASSUME NEW S, NEW s \in Seq(S), NEW x
  PROVE  /\ IsFiniteSet(Places(x, s)) /\ Count(x, s) = Cardinality(Places(x, s))
         /\ Count(x, s) \in Nat
  <1>1. Places(x, s) \in SUBSET (1 .. Len(s)) /\ Len(s) \in Nat
    BY DEF Places
  <1>2. IsFiniteSet(1 .. Len(s))
    BY <1>1, FS_Interval
  <1>3. IsFiniteSet(Places(x, s))
    BY <1>1, <1>2, FS_Subset
  <1> QED BY <1>3, FS_CardinalityType DEF Count, Places

LEMMA CountConcat ==
  ASSUME NEW S, NEW s \in Seq(S), NEW t \in Seq(S), NEW x
  PROVE  Count(x, s \o t) = Count(x, s) + Count(x, t)
  <1> DEFINE k == Len(s)
             A == Places(x, s)
             B == Places(x, t)
             C == {i \in k + 1 .. k + Len(t) : t[i - k] = x}
  <1>1. k \in Nat /\ Len(t) \in Nat /\ s \o t \in Seq(S) /\ Len(s \o t) = k + Len(t)
    OBVIOUS
  <1>2. /\ \A i \in 1 .. k : (s \o t)[i] = s[i]
        /\ \A i \in k + 1 .. k + Len(t) : (s \o t)[i] = t[i - k]
    OBVIOUS
  <1>3. DOMAIN s = 1 .. k /\ DOMAIN t = 1 .. Len(t) /\ DOMAIN (s \o t) = 1 .. k + Len(t)
    BY <1>1
  <1>4. IsFiniteSet(A) /\ IsFiniteSet(B) /\ Count(x, s) = Cardinality(A) /\ Count(x, t) = Cardinality(B)
    BY PlacesAreFinite
  <1>5. Count(x, s \o t) = Cardinality(Places(x, s \o t))
    BY <1>1, PlacesAreFinite
  <1>6. IsFiniteSet(C) /\ Cardinality(C) = Cardinality(B)
    <2> DEFINE f == [i \in B |-> i + k]
    <2>1. B \subseteq 1 .. Len(t)
      BY <1>3 DEF Places
    <2>2. f \in [B -> C]
      BY <1>1, <1>3, <2>1 DEF Places
    <2>3. \A i, j \in B : f[i] = f[j] => i = j
      BY <1>1, <2>1
    <2>4. \A c \in C : c - k \in B /\ f[c - k] = c
      BY <1>1, <1>3 DEF Places
    <2>5. f \in Bijection(B, C)
      <3> HIDE DEF f, B, C
      <3>1. f \in Injection(B, C)
        BY <2>2, <2>3 DEF Injection, IsInjective
      <3>2. f \in Surjection(B, C)
        BY <2>2, <2>4 DEF Surjection
      <3> QED BY <3>1, <3>2 DEF Bijection
    <2>6. ExistsBijection(B, C)
      BY <2>5 DEF ExistsBijection
    <2> QED BY <1>4, <2>6, FS_Bijection
  <1>7. Places(x, s \o t) = A \cup C /\ A \cap C = {}
    <2>1. \A i \in 1 .. k + Len(t) : i \in 1 .. k \/ i \in k + 1 .. k + Len(t)
      BY <1>1
    <2>2. \A i : ~(i \in 1 .. k /\ i \in k + 1 .. k + Len(t))
      BY <1>1
    <2>3. /\ \A i \in 1 .. k : i \in 1 .. k + Len(t)
          /\ \A i \in k + 1 .. k + Len(t) : i \in 1 .. k + Len(t)
      BY <1>1
    <2>4. \A i : i \in A <=> i \in 1 .. k /\ s[i] = x
      BY <1>3 DEF Places
    <2>5. \A i : i \in Places(x, s \o t) <=> i \in 1 .. k + Len(t) /\ (s \o t)[i] = x
      BY <1>3 DEF Places
    <2> HIDE DEF A
    <2> QED BY <1>2, <2>1, <2>2, <2>3, <2>4, <2>5
  <1>8. Cardinality(A \cup C) = Cardinality(A) + Cardinality(C)
    <2> HIDE DEF A, B, C
    <2>1. Cardinality(A \cup C) = Cardinality(A) + Cardinality(C) - Cardinality(A \cap C)
      BY <1>4, <1>6, FS_Union
    <2>2. Cardinality(A) \in Nat /\ Cardinality(C) \in Nat /\ Cardinality(A \cap C) = 0
      BY <1>4, <1>6, <1>7, FS_CardinalityType, FS_EmptySet
    <2> QED BY <2>1, <2>2
  <1> HIDE DEF A, B, C
  <1> QED BY <1>4, <1>5, <1>6, <1>7, <1>8

LEMMA CountOne ==
  ASSUME NEW x, NEW e
  PROVE  Count(x, <<e>>) = IF e = x THEN 1 ELSE 0
  <1>1. CASE e = x
    <2>1. {i \in DOMAIN <<e>> : <<e>>[i] = x} = {1}
      BY <1>1
    <2> QED BY <1>1, <2>1, FS_Singleton DEF Count
  <1>2. CASE e # x
    <2>1. {i \in DOMAIN <<e>> : <<e>>[i] = x} = {}
      BY <1>2
    <2> QED BY <1>2, <2>1, FS_EmptySet DEF Count
  <1> QED BY <1>1, <1>2

LEMMA CountAppend ==
  ASSUME NEW S, NEW s \in Seq(S), NEW e \in S, NEW x
  PROVE  Count(x, Append(s, e)) = Count(x, s) + (IF e = x THEN 1 ELSE 0)
  <1>1. Append(s, e) = s \o <<e>> /\ <<e>> \in Seq(S)
    OBVIOUS
  <1>2. Count(x, s \o <<e>>) = Count(x, s) + Count(x, <<e>>)
    BY <1>1, CountConcat
  <1> QED BY <1>1, <1>2, CountOne

LEMMA CountTail ==
  ASSUME NEW S, NEW s \in Seq(S), s # <<>>, NEW x
  PROVE  Count(x, s) = (IF Head(s) = x THEN 1 ELSE 0) + Count(x, Tail(s))
  <1>1. s = <<Head(s)>> \o Tail(s) /\ <<Head(s)>> \in Seq(S) /\ Tail(s) \in Seq(S)
    BY HeadTailProperties
  <1>2. Count(x, <<Head(s)>> \o Tail(s)) = Count(x, <<Head(s)>>) + Count(x, Tail(s))
    BY <1>1, CountConcat
  <1> QED BY <1>1, <1>2, CountOne

LEMMA CountSplit ==
  ASSUME NEW S, NEW s \in Seq(S), NEW k \in 0 .. Len(s), NEW x
  PROVE  /\ SubSeq(s, 1, k) \in Seq(S) /\ SubSeq(s, k + 1, Len(s)) \in Seq(S)
         /\ Count(x, s) = Count(x, SubSeq(s, 1, k)) + Count(x, SubSeq(s, k + 1, Len(s)))
  <1>1. SubSeq(s, 1, k) \in Seq(S) /\ SubSeq(s, k + 1, Len(s)) \in Seq(S)
    BY SubSeqProperties
  <1>2. s = SubSeq(s, 1, k) \o SubSeq(s, k + 1, Len(s))
    <2>1. /\ 1 \in 1 .. Len(s) + 1 /\ k \in 1 - 1 .. Len(s) /\ Len(s) \in k .. Len(s)
      BY LenProperties
    <2>2. SubSeq(s, 1, k) \o SubSeq(s, k + 1, Len(s)) = SubSeq(s, 1, Len(s))
      BY <2>1, ConcatAdjacentSubSeq
    <2> QED BY <2>2, SubSeqFull
  <1> QED BY <1>1, <1>2, CountConcat

-----------------------------------------------------------------------------
(* InfluxDB: types *)

(* What Tick counted is in the channel, and the points of a series are its own. *)
CountedIsThere == w = "take" => n >= 1 /\ n <= Len(ch)
SeriesIsItsOwn ==
    \A k \in Keys : \A i \in DOMAIN batch[k] : SeriesOf(batch[k][i][1]) = k

(* Write is called for a series that has points. *)
WritesSomething == w = "write" => batch[cur] # <<>>

WriterInv == TypeOK /\ CountedIsThere /\ SeriesIsItsOwn /\ WritesSomething

LEMMA InfluxTypes ==
  /\ Packets = 1 .. Len(Size) /\ Len(Size) \in Nat
  /\ All \in Keys
  /\ \A p \in Packets : Size[p] \in Nat /\ Meas[p] \in Keys /\ Meas[p] # All
  BY InfluxAssumption DEF Packets, Keys

LEMMA CapIsNat == Cap \in Nat
  BY InfluxAssumption DEF Cap

LEMMA SeriesIsKey ==
  ASSUME NEW p \in Packets
  PROVE  SeriesOf(p) \in Keys
  BY InfluxTypes DEF SeriesOf

LEMMA PointsOfPacket ==
  ASSUME NEW p \in Packets
  PROVE  /\ Points(p) \in Seq(AllPoints) /\ Len(Points(p)) = Size[p]
         /\ \A i \in 1 .. Size[p] : Points(p)[i] = <<p, i>> /\ <<p, i>> \in AllPoints
         /\ Range(Points(p)) = {<<p, i>> : i \in 1 .. Size[p]}
  <1> DEFINE k == Size[p]
  <1>1. k \in Nat
    BY InfluxTypes
  <1>2. Points(p) = [i \in 1 .. k |-> <<p, i>>]
    BY DEF Points
  <1>3. Range(Points(p)) = {<<p, i>> : i \in 1 .. k}
    BY <1>2 DEF Range
  <1>4. \A i \in 1 .. k : <<p, i>> \in AllPoints
    <2>1. Range(Points(p)) \subseteq AllPoints
      BY DEF AllPoints
    <2> QED BY <1>3, <2>1
  <1> HIDE DEF k
  <1>5. Points(p) \in [1 .. k -> AllPoints]
    BY <1>2, <1>4
  <1>6. Points(p) \in Seq(AllPoints) /\ Len(Points(p)) = k
    BY <1>1, <1>5
  <1>7. \A i \in 1 .. k : Points(p)[i] = <<p, i>>
    BY <1>2
  <1> QED BY <1>3, <1>4, <1>6, <1>7 DEF k

LEMMA PointHasPacket ==
  ASSUME NEW x \in AllPoints
  PROVE  x[1] \in Packets /\ x[2] \in 1 .. Size[x[1]] /\ x = <<x[1], x[2]>>
  <1>1. PICK p \in Packets : x \in Range(Points(p))
    BY DEF AllPoints
  <1>2. PICK i \in 1 .. Size[p] : x = <<p, i>>
    BY <1>1, PointsOfPacket
  <1> QED BY <1>2

LEMMA ChunkFits ==
  ASSUME NEW s \in Seq(AllPoints)
  PROVE  /\ ChunkLength(s) \in 0 .. Len(s)
         /\ s # <<>> => ChunkLength(s) >= 1
  BY InfluxAssumption DEF ChunkLength

LEMMA WriterInit == Init => WriterInv
  <1> SUFFICES ASSUME Init PROVE WriterInv
    OBVIOUS
  <1>1. TypeOK
    <2>1. Cap \in Nat /\ MaxReloads \in Nat
      BY CapIsNat, InfluxAssumption
    <2> QED BY <2>1, InfluxTypes DEF Init, TypeOK, ProdStates
  <1>2. CountedIsThere /\ SeriesIsItsOwn /\ WritesSomething
    BY DEF Init, CountedIsThere, SeriesIsItsOwn, WritesSomething
  <1> QED BY <1>1, <1>2 DEF WriterInv

(* Where Packet(p) leads: to a channel only if there are points, and to "done" only if
   there are none. *)
LEMMA PacketGoes ==
  ASSUME TypeOK, NEW p \in Packets, Packet(p)
  PROVE  \E v \in ProdStates :
            /\ prod' = [prod EXCEPT ![p] = v]
            /\ v # "off" /\ (v = "done" => Size[p] = 0)
            /\ UNCHANGED <<opts, ch, w, n, batch, cur, written, failed>>
  <1> DEFINE v == CASE ~client -> "dropped"
                    [] client /\ Size[p] = 0 -> "done"
                    [] client /\ Size[p] # 0 /\ started /\ wpm = perMeas -> "send"
                    [] OTHER -> "nil"
  <1>1. prod' = [prod EXCEPT ![p] = v] /\ UNCHANGED <<opts, ch, w, n, batch, cur, written, failed>>
    BY DEF Packet
  <1>2. v \in {"dropped", "done", "send", "nil"} /\ (v = "done" => Size[p] = 0)
    BY Zenon
  <1> HIDE DEF v
  <1> QED BY <1>1, <1>2 DEF ProdStates

LEMMA SameSeries ==
  ASSUME UNCHANGED opts
  PROVE  Cap' = Cap /\ \A p : SeriesOf(p)' = SeriesOf(p)
  BY DEF opts, Cap, SeriesOf

LEMMA WriterStep == WriterInv /\ [Next]_vars => WriterInv'
  <1> SUFFICES ASSUME WriterInv, [Next]_vars PROVE WriterInv'
    OBVIOUS
  <1>0. /\ UNCHANGED opts
        /\ Cap' = Cap /\ Cap \in Nat /\ \A p : SeriesOf(p)' = SeriesOf(p)
    <2>1. UNCHANGED opts
      BY DEF Next, Writer, Reload, Packet, SendPoints, Tick, Take, PickSeries, Write, RangeEnd, vars
    <2> QED BY <2>1, SameSeries, CapIsNat
  <1> USE DEF WriterInv
  <1>1. CASE Reload \/ RangeEnd \/ UNCHANGED vars
    <2>2. UNCHANGED <<opts, prod, ch, n, batch, cur, written, failed>> /\ (w' = w \/ w' = "ticker")
      BY <1>1 DEF Reload, RangeEnd, vars
    <2>3. wpm' \in BOOLEAN
      BY <1>1 DEF TypeOK, Reload, RangeEnd, vars
    <2>4. reloads' \in 0 .. MaxReloads
      BY <1>1, InfluxAssumption DEF TypeOK, Reload, RangeEnd, vars
    <2>1. TypeOK'
      BY <1>0, <2>2, <2>3, <2>4 DEF TypeOK, opts
    <2> QED BY <1>0, <2>1, <2>2 DEF CountedIsThere, SeriesIsItsOwn, WritesSomething
  <1>2. ASSUME NEW p \in Packets, Packet(p) PROVE WriterInv'
    <2>1. PICK v \in ProdStates :
            /\ prod' = [prod EXCEPT ![p] = v]
            /\ UNCHANGED <<opts, ch, w, n, batch, cur, written, failed>>
      BY <1>2, PacketGoes
    <2>2. UNCHANGED <<wpm, reloads>>
      BY <1>2 DEF Packet
    <2>3. TypeOK'
      BY <1>0, <2>1, <2>2 DEF TypeOK, opts
    <2> QED BY <1>0, <2>1, <2>3 DEF CountedIsThere, SeriesIsItsOwn, WritesSomething
  <1>3. ASSUME NEW p \in Packets, SendPoints(p) PROVE WriterInv'
    <2>1. ch' \in Seq(Packets) /\ Len(ch') = Len(ch) + 1 /\ Len(ch) \in Nat /\ Len(ch) < Cap
      BY <1>3 DEF TypeOK, SendPoints
    <2>2. TypeOK'
      BY <1>0, <1>3, <2>1 DEF TypeOK, SendPoints, opts, ProdStates
    <2> QED BY <1>0, <1>3, <2>1, <2>2 DEF SendPoints, TypeOK, CountedIsThere, SeriesIsItsOwn, WritesSomething
  <1>4. CASE Tick
    <2>1. Len(ch) \in Nat /\ n' = Len(ch) /\ n' >= 1 /\ n' <= Cap
      BY <1>4 DEF TypeOK, Tick
    <2>2. TypeOK'
      BY <1>0, <1>4, <2>1 DEF TypeOK, Tick, opts
    <2> QED BY <1>0, <1>4, <2>1, <2>2 DEF Tick, TypeOK, CountedIsThere, SeriesIsItsOwn, WritesSomething
  <1>5. CASE Take
    <2> DEFINE p == Head(ch)
               k == SeriesOf(p)
    <2>1. p \in Packets /\ ch' \in Seq(Packets) /\ Len(ch') = Len(ch) - 1 /\ Len(ch) \in Nat
      BY <1>5, HeadTailProperties DEF Take, TypeOK
    <2>2. k \in Keys /\ Points(p) \in Seq(AllPoints)
      BY <2>1, SeriesIsKey, PointsOfPacket
    <2>3. /\ batch' = [batch EXCEPT ![k] = batch[k] \o Points(p)]
          /\ n' = n - 1 /\ w' = (IF n = 1 THEN "range" ELSE "take")
          /\ UNCHANGED <<opts, wpm, reloads, prod, cur, written, failed>> /\ w = "take"
      BY <1>5, <2>2 DEF Take, TypeOK
    <2> HIDE DEF p, k
    <2>4. batch[k] \in Seq(AllPoints) /\ batch[k] \o Points(p) \in Seq(AllPoints)
      BY <2>2 DEF TypeOK
    <2>5. n' \in 0 .. Cap /\ Len(ch') <= Cap /\ (w' = "take" => n' >= 1 /\ n' <= Len(ch'))
      BY <1>0, <2>1, <2>3 DEF TypeOK, CountedIsThere
    <2>6. TypeOK'
      BY <1>0, <2>1, <2>3, <2>4, <2>5 DEF TypeOK, opts
    <2>7. SeriesIsItsOwn'
      <3>1. \A i \in DOMAIN (batch[k] \o Points(p)) : SeriesOf((batch[k] \o Points(p))[i][1]) = k
        <4> DEFINE b == batch[k]
                   q == Points(p)
        <4>1. \A i \in DOMAIN b : SeriesOf(b[i][1]) = k
          BY <2>2 DEF SeriesIsItsOwn
        <4>6. \A i \in 1 .. Len(q) : q[i] = <<p, i>>
          BY <2>1, PointsOfPacket
        <4>7. \A i \in 1 .. Len(q) : q[i][1] = p
          BY <4>6
        <4>2. SeriesOf(p) = k /\ DOMAIN b = 1 .. Len(b) /\ Len(b) \in Nat /\ Len(q) \in Nat
          BY <2>2, <2>4 DEF k
        <4>3. DOMAIN (b \o q) = 1 .. Len(b) + Len(q)
          BY <2>2, <2>4, ConcatProperties, LenProperties
        <4>4. \A i \in 1 .. Len(b) + Len(q) :
                \/ i \in 1 .. Len(b) /\ (b \o q)[i] = b[i]
                \/ i - Len(b) \in 1 .. Len(q) /\ (b \o q)[i] = q[i - Len(b)]
          BY <2>2, <2>4
        <4> HIDE DEF b, q
        <4>5. \A i \in 1 .. Len(b) + Len(q) : SeriesOf((b \o q)[i][1]) = k
          BY <4>1, <4>2, <4>4, <4>7
        <4> QED BY <4>3, <4>5 DEF b, q
      <3> QED BY <1>0, <2>2, <2>3, <3>1 DEF SeriesIsItsOwn, TypeOK
    <2> QED BY <2>3, <2>5, <2>6, <2>7 DEF CountedIsThere, WritesSomething
  <1>6. CASE PickSeries
    <2>1. PICK k \in Keys : batch[k] # <<>> /\ cur' = k
      BY <1>6 DEF PickSeries
    <2>2. UNCHANGED <<opts, wpm, reloads, prod, ch, n, batch, written, failed>> /\ w' = "write"
      BY <1>6 DEF PickSeries
    <2>3. TypeOK'
      BY <1>0, <2>1, <2>2 DEF TypeOK, opts
    <2> QED BY <1>0, <2>1, <2>2, <2>3 DEF CountedIsThere, SeriesIsItsOwn, WritesSomething
  <1>7. CASE Write
    <2> DEFINE b     == batch[cur]
               k     == ChunkLength(b)
               chunk == SubSeq(b, 1, k)
               left  == SubSeq(b, k + 1, Len(b))
    <2>1. b \in Seq(AllPoints) /\ k \in 0 .. Len(b) /\ Len(b) \in Nat /\ cur \in Keys
      BY ChunkFits DEF TypeOK
    <2>2. chunk \in Seq(AllPoints) /\ left \in Seq(AllPoints)
      BY <2>1, CountSplit
    <2>3. /\ batch' = [batch EXCEPT ![cur] = left]
          /\ w' = IF left = <<>> THEN "range" ELSE "write"
          /\ \/ written' = written \o chunk /\ failed' = failed
             \/ failed' = failed \o chunk /\ written' = written
          /\ UNCHANGED <<opts, wpm, reloads, prod, ch, n, cur>> /\ w = "write"
      BY <1>7 DEF Write
    <2>4. \A i \in DOMAIN left : \E j \in DOMAIN b : left[i] = b[j]
      <3>1. \A i \in k + 1 .. Len(b) : b[i] \in AllPoints /\ i \in DOMAIN b
        BY <2>1
      <3>2. /\ Len(left) = IF k + 1 <= Len(b) THEN Len(b) - (k + 1) + 1 ELSE 0
            /\ \A i \in 1 .. Len(b) - (k + 1) + 1 : left[i] = b[k + 1 + i - 1]
        <4> HIDE DEF b, k
        <4>1. k + 1 \in Int /\ Len(b) \in Int
          BY <2>1
        <4> QED BY <3>1, <4>1, SubSeqProperties
      <3> HIDE DEF b, k, left
      <3>3. \A i \in DOMAIN left : i \in 1 .. Len(b) - (k + 1) + 1 /\ k + 1 + i - 1 \in k + 1 .. Len(b)
        BY <2>1, <2>2, <3>2
      <3> QED BY <3>1, <3>2, <3>3
    <2> HIDE DEF k, chunk, left
    <2>5. batch' \in [Keys -> Seq(AllPoints)] /\ written' \in Seq(AllPoints) /\ failed' \in Seq(AllPoints)
      <3>1. written \in Seq(AllPoints) /\ failed \in Seq(AllPoints)
        BY DEF TypeOK
      <3>2. written \o chunk \in Seq(AllPoints) /\ failed \o chunk \in Seq(AllPoints)
        BY <2>2, <3>1
      <3>3. batch' \in [Keys -> Seq(AllPoints)]
        BY <2>2, <2>3 DEF TypeOK
      <3> QED BY <2>3, <3>1, <3>2, <3>3
    <2>6. TypeOK'
      BY <1>0, <2>3, <2>5 DEF TypeOK, opts
    <2>7. SeriesIsItsOwn'
      BY <1>0, <2>1, <2>3, <2>4 DEF SeriesIsItsOwn, TypeOK
    <2>8. WritesSomething' /\ CountedIsThere'
      BY <2>1, <2>3 DEF WritesSomething, CountedIsThere, TypeOK
    <2> QED BY <2>6, <2>7, <2>8
  <1> QED BY <1>1, <1>2, <1>3, <1>4, <1>5, <1>6, <1>7 DEF Next, Writer

(* Types of the batch writer, for every set of packets and every batch size: a tick
   receives no more packets than the channel holds (influx.go:241-248, 323-340), so the writer never
   blocks there, and no channel exceeds its capacity. *)
THEOREM TypeCorrect == Spec => []TypeOK
  <1>1. WriterInv => TypeOK
    BY DEF WriterInv
  <1> QED BY <1>1, WriterInit, WriterStep, PTL DEF Spec

-----------------------------------------------------------------------------
(* InfluxDB: every point once *)

LEMMA CountPoints ==
  ASSUME NEW p \in Packets, NEW q \in Packets, NEW x \in Range(Points(q))
  PROVE  Count(x, Points(p)) = IF p = q THEN 1 ELSE 0
  <1>1. PICK j \in 1 .. Size[q] : x = <<q, j>>
    BY PointsOfPacket
  <1>2. DOMAIN Points(p) = 1 .. Size[p] /\ \A i \in 1 .. Size[p] : Points(p)[i] = <<p, i>>
    BY DEF Points
  <1>3. Count(x, Points(p)) = Cardinality(Places(x, Points(p)))
    BY DEF Count, Places
  <1>4. CASE p = q
    <2>1. Places(x, Points(p)) = {j}
      BY <1>1, <1>2, <1>4 DEF Places
    <2> QED BY <1>3, <1>4, <2>1, FS_Singleton
  <1>5. CASE p # q
    <2>1. Places(x, Points(p)) = {}
      BY <1>1, <1>2, <1>5 DEF Places
    <2> QED BY <1>3, <1>5, <2>1, FS_EmptySet
  <1> QED BY <1>4, <1>5

LEMMA CountAbsent ==
  ASSUME NEW S, NEW s \in Seq(S), NEW x, \A i \in DOMAIN s : s[i] # x
  PROVE  Count(x, s) = 0
  <1>1. Places(x, s) = {}
    BY DEF Places
  <1> QED BY <1>1, FS_EmptySet DEF Count, Places

(* The number of places a point of packet p is in *)
Total(p, x) ==
    Count(p, ch) + Count(x, batch[SeriesOf(p)]) + Count(x, written) + Count(x, failed)

LEMMA CountsAreNat ==
  ASSUME TypeOK, NEW p \in Packets, NEW x
  PROVE  /\ Count(p, ch) \in Nat /\ Count(x, batch[SeriesOf(p)]) \in Nat
         /\ Count(x, written) \in Nat /\ Count(x, failed) \in Nat
  <1>1. /\ ch \in Seq(Packets) /\ batch[SeriesOf(p)] \in Seq(AllPoints)
        /\ written \in Seq(AllPoints) /\ failed \in Seq(AllPoints)
    BY SeriesIsKey DEF TypeOK
  <1> QED BY <1>1, PlacesAreFinite

(* Taking a packet and writing a batch move a point and keep its number of places. *)
LEMMA TakeMoves ==
  ASSUME WriterInv, Take, NEW p \in Packets, NEW x \in Range(Points(p))
  PROVE  Total(p, x)' = Total(p, x)
  <1> DEFINE h == Head(ch)
             b == batch[SeriesOf(p)]
  <1>1. /\ ch \in Seq(Packets) /\ ch # <<>> /\ h \in Packets /\ ch' = Tail(ch)
        /\ batch' = [batch EXCEPT ![SeriesOf(h)] = batch[SeriesOf(h)] \o Points(h)]
        /\ UNCHANGED <<opts, written, failed>>
    BY HeadTailProperties DEF WriterInv, TypeOK, Take
  <1>2. SeriesOf(p)' = SeriesOf(p) /\ SeriesOf(p) \in Keys
    BY <1>1, SameSeries, SeriesIsKey
  <1>3. b \in Seq(AllPoints) /\ Points(h) \in Seq(AllPoints)
    BY <1>1, <1>2, PointsOfPacket DEF WriterInv, TypeOK
  <1>4. Count(p, ch) = (IF h = p THEN 1 ELSE 0) + Count(p, ch')
    BY <1>1, CountTail
  <1>5. Count(x, batch'[SeriesOf(p)]) = Count(x, b) + (IF h = p THEN 1 ELSE 0)
    <2>1. Count(x, b \o Points(h)) = Count(x, b) + Count(x, Points(h))
      BY <1>3, CountConcat
    <2>2. Count(x, Points(h)) = IF h = p THEN 1 ELSE 0
      BY <1>1, CountPoints
    <2>3. Count(x, b) \in Nat
      BY <1>3, PlacesAreFinite
    <2>4. CASE SeriesOf(h) = SeriesOf(p)
      <3>1. batch'[SeriesOf(p)] = b \o Points(h)
        BY <1>1, <1>2, <2>4 DEF WriterInv, TypeOK
      <3> QED BY <2>1, <2>2, <3>1
    <2>5. CASE SeriesOf(h) # SeriesOf(p)
      <3>1. batch'[SeriesOf(p)] = b /\ h # p
        BY <1>1, <1>2, <2>5 DEF WriterInv, TypeOK
      <3> QED BY <2>3, <3>1
    <2> QED BY <2>4, <2>5
  <1>6. Count(p, ch') \in Nat /\ Count(x, b) \in Nat /\ Count(x, written) \in Nat /\ Count(x, failed) \in Nat
    <2>1. ch' \in Seq(Packets)
      BY <1>1, HeadTailProperties
    <2>2. Count(p, ch') \in Nat
      BY <2>1, PlacesAreFinite
    <2> QED BY <2>2, CountsAreNat DEF WriterInv
  <1>7. Total(p, x)' = Count(p, ch') + Count(x, batch'[SeriesOf(p)]) + Count(x, written) + Count(x, failed)
    BY <1>1, <1>2 DEF Total, Count
  <1>8. Total(p, x) = Count(p, ch) + Count(x, b) + Count(x, written) + Count(x, failed)
    BY DEF Total
  <1>9. \A a, c, d, e, i \in Nat : c + (d + i) + e + a = (i + c) + d + e + a
    OBVIOUS
  <1>10. CASE h = p
    BY <1>4, <1>5, <1>6, <1>7, <1>8, <1>10
  <1>11. CASE h # p
    BY <1>4, <1>5, <1>6, <1>7, <1>8, <1>11
  <1> QED BY <1>10, <1>11

LEMMA WriteMoves ==
  ASSUME WriterInv, Write, NEW p \in Packets, NEW x \in Range(Points(p))
  PROVE  Total(p, x)' = Total(p, x)
  <1> DEFINE b     == batch[cur]
             k     == ChunkLength(b)
             chunk == SubSeq(b, 1, k)
             left  == SubSeq(b, k + 1, Len(b))
  <1>1. /\ b \in Seq(AllPoints) /\ k \in 0 .. Len(b) /\ cur \in Keys
        /\ written \in Seq(AllPoints) /\ failed \in Seq(AllPoints)
    BY ChunkFits DEF WriterInv, TypeOK
  <1>2. /\ chunk \in Seq(AllPoints) /\ left \in Seq(AllPoints)
        /\ Count(x, b) = Count(x, chunk) + Count(x, left)
    BY <1>1, CountSplit
  <1>3. /\ batch' = [batch EXCEPT ![cur] = left]
        /\ \/ written' = written \o chunk /\ failed' = failed
           \/ failed' = failed \o chunk /\ written' = written
        /\ UNCHANGED <<opts, ch>>
    BY DEF Write
  <1> HIDE DEF k, chunk, left
  <1>4. SeriesOf(p)' = SeriesOf(p) /\ SeriesOf(p) \in Keys
    BY <1>3, SameSeries, SeriesIsKey
  <1> DEFINE c == Count(x, chunk)
             o == Count(x, batch[SeriesOf(p)])
  <1>5. /\ c \in Nat /\ Count(x, left) \in Nat /\ o \in Nat
        /\ Count(p, ch) \in Nat /\ Count(x, written) \in Nat /\ Count(x, failed) \in Nat
    BY <1>2, PlacesAreFinite, CountsAreNat DEF WriterInv
  <1>6. Count(x, written \o chunk) = Count(x, written) + c /\ Count(x, failed \o chunk) = Count(x, failed) + c
    BY <1>1, <1>2, CountConcat
  <1>7. Count(x, batch'[SeriesOf(p)]) + c = o
    <2>1. CASE SeriesOf(p) = cur
      <3>1. batch'[SeriesOf(p)] = left /\ batch[SeriesOf(p)] = b
        BY <1>1, <1>3, <2>1 DEF WriterInv, TypeOK
      <3> QED BY <1>2, <1>5, <3>1
    <2>2. CASE SeriesOf(p) # cur
      <3>1. batch'[SeriesOf(p)] = batch[SeriesOf(p)]
        BY <1>3, <1>4, <2>2 DEF WriterInv, TypeOK
      <3>2. x[1] = p
        BY PointsOfPacket
      <3>3. \A i \in DOMAIN b : b[i] # x
        BY <1>1, <2>2, <3>2 DEF WriterInv, SeriesIsItsOwn
      <3>4. Count(x, b) = 0
        BY <1>1, <3>3, CountAbsent
      <3>5. c = 0
        BY <1>2, <1>5, <3>4
      <3> QED BY <1>5, <3>1, <3>5
    <2> QED BY <2>1, <2>2
  <1>8. Count(x, batch'[SeriesOf(p)]) \in Nat
    <2>1. batch'[SeriesOf(p)] \in Seq(AllPoints)
      BY <1>2, <1>3, <1>4 DEF WriterInv, TypeOK
    <2> QED BY <2>1, PlacesAreFinite
  <1>9. Total(p, x)' = Count(p, ch) + Count(x, batch'[SeriesOf(p)]) + Count(x, written') + Count(x, failed')
    BY <1>3, <1>4 DEF Total, Count
  <1>10. Total(p, x) = Count(p, ch) + o + Count(x, written) + Count(x, failed)
    BY DEF Total
  <1> HIDE DEF c, o
  <1>11. \/ Count(x, written') = Count(x, written) + c /\ Count(x, failed') = Count(x, failed)
         \/ Count(x, failed') = Count(x, failed) + c /\ Count(x, written') = Count(x, written)
    BY <1>3, <1>6 DEF c
  <1> QED BY <1>5, <1>7, <1>8, <1>9, <1>10, <1>11

LEMMA OnceStep ==
  ASSUME WriterInv, EveryPointOnce, [Next]_vars
  PROVE  EveryPointOnce'
  <1> SUFFICES ASSUME NEW p \in Packets, NEW x \in Range(Points(p))
               PROVE  Total(p, x)' = IF prod'[p] = "done" THEN 1 ELSE 0
    BY DEF EveryPointOnce, Total, Count, Range, Points
  <1>1. Total(p, x) = IF prod[p] = "done" THEN 1 ELSE 0
    BY DEF EveryPointOnce, Total
  <1>2. prod \in [Packets -> ProdStates] /\ TypeOK
    BY DEF WriterInv, TypeOK
  <1>3. CASE Take \/ Write
    <2>1. prod' = prod
      BY <1>3 DEF Take, Write
    <2> QED BY <1>1, <1>3, <2>1, TakeMoves, WriteMoves
  <1>4. CASE Reload \/ RangeEnd \/ PickSeries \/ Tick \/ UNCHANGED vars
    <2>1. UNCHANGED <<opts, prod, ch, batch, written, failed>>
      BY <1>4 DEF Reload, RangeEnd, PickSeries, Tick, vars
    <2>2. Total(p, x)' = Total(p, x)
      BY <2>1, SameSeries DEF Total, Count
    <2> QED BY <1>1, <2>1, <2>2
  <1>5. ASSUME NEW q \in Packets, Packet(q)
        PROVE  Total(p, x)' = IF prod'[p] = "done" THEN 1 ELSE 0
    <2>1. PICK v \in ProdStates :
            /\ prod' = [prod EXCEPT ![q] = v] /\ (v = "done" => Size[q] = 0)
            /\ UNCHANGED <<opts, ch, batch, written, failed>>
      BY <1>2, <1>5, PacketGoes
    <2>2. Total(p, x)' = Total(p, x)
      BY <2>1, SameSeries DEF Total, Count
    <2>3. Size[p] # 0
      BY PointsOfPacket, InfluxTypes
    <2>4. prod'[p] = "done" <=> prod[p] = "done"
      BY <1>2, <1>5, <2>1, <2>3 DEF Packet
    <2> QED BY <1>1, <2>2, <2>4
  <1>6. ASSUME NEW q \in Packets, SendPoints(q)
        PROVE  Total(p, x)' = IF prod'[p] = "done" THEN 1 ELSE 0
    <2>1. /\ prod[q] = "send" /\ prod' = [prod EXCEPT ![q] = "done"] /\ ch' = Append(ch, q)
          /\ UNCHANGED <<opts, batch, written, failed>> /\ ch \in Seq(Packets)
      BY <1>2, <1>6 DEF SendPoints, TypeOK
    <2>2. Count(p, ch') = Count(p, ch) + (IF q = p THEN 1 ELSE 0)
      BY <2>1, CountAppend
    <2>3. /\ Count(p, ch) \in Nat /\ Count(x, batch[SeriesOf(p)]) \in Nat
          /\ Count(x, written) \in Nat /\ Count(x, failed) \in Nat
      BY <1>2, CountsAreNat
    <2> DEFINE k == SeriesOf(p)
    <2>4. k' = k
      BY <2>1, SameSeries
    <2> HIDE DEF k
    <2>5. Total(p, x)' = Count(p, ch') + Count(x, batch'[k']) + Count(x, written') + Count(x, failed')
      BY DEF Total, Count, k
    <2>6. batch'[k'] = batch[k] /\ written' = written /\ failed' = failed
      BY <2>1, <2>4
    <2>7. Total(p, x)' = Count(p, ch') + Count(x, batch[SeriesOf(p)]) + Count(x, written) + Count(x, failed)
      BY <2>5, <2>6 DEF k
    <2>8. Total(p, x) = Count(p, ch) + Count(x, batch[SeriesOf(p)]) + Count(x, written) + Count(x, failed)
      BY DEF Total
    <2>9. CASE q = p
      BY <1>1, <1>2, <2>1, <2>2, <2>3, <2>7, <2>8, <2>9
    <2>10. CASE q # p
      BY <1>1, <1>2, <2>1, <2>2, <2>3, <2>7, <2>8, <2>10
    <2> QED BY <2>9, <2>10
  <1> QED BY <1>3, <1>4, <1>5, <1>6 DEF Next, Writer

(* Every point of a packet that was sent is in exactly one place, once (influx.go:238-300,
   322-360): for every number, size and measurement of packets, every batch size, either
   writer, and any interleaving of the senders with the ticks, none is lost or doubled
   before its write succeeds or fails. *)
THEOREM PointsAreKept == Spec => []EveryPointOnce
  <1>1. Init => EveryPointOnce
    <2> SUFFICES ASSUME Init, NEW p \in Packets, NEW x \in Range(Points(p))
                 PROVE  Count(p, ch) + Count(x, batch[SeriesOf(p)]) + Count(x, written) + Count(x, failed) = 0
      BY DEF EveryPointOnce, Init
    <2>1. ch = <<>> /\ batch[SeriesOf(p)] = <<>> /\ written = <<>> /\ failed = <<>>
      BY SeriesIsKey DEF Init
    <2>2. Count(p, <<>>) = 0 /\ Count(x, <<>>) = 0
      <3>1. <<>> \in Seq(Packets) /\ \A y : \A i \in DOMAIN <<>> : <<>>[i] # y
        BY EmptySeq
      <3> QED BY <3>1, CountAbsent
    <2> QED BY <2>1, <2>2
  <1>2. WriterInv /\ EveryPointOnce /\ [Next]_vars => EveryPointOnce'
    BY OnceStep
  <1> QED BY <1>1, <1>2, WriterInit, WriterStep, PTL DEF Spec

-----------------------------------------------------------------------------
(* InfluxDB: the order of a measurement *)

Before(x, y) == x[1] < y[1] \/ (x[1] = y[1] /\ x[2] < y[2])
InOrder(s) == \A i, j \in DOMAIN s : i < j => Before(s[i], s[j])

(* The points are of packets that were sent, all before those in the channel. *)
Past(s) ==
    \A i \in DOMAIN s : prod[s[i][1]] = "done" /\ \A j \in DOMAIN ch : s[i][1] < ch[j]

(* A packet starts when all before it have ended. *)
InTurn ==
    \A p, q \in Packets : q < p /\ prod[p] # "off" => prod[q] \in {"done", "dropped"}
ChannelInTurn ==
    /\ \A i \in DOMAIN ch : prod[ch[i]] = "done"
    /\ \A i, j \in DOMAIN ch : i < j => ch[i] < ch[j]
TakenIsPast == Past(written) /\ \A k \in Keys : Past(batch[k])

(* A series is in order, first in the database and then in its batch. *)
BatchesInOrder ==
    \A k \in Keys :
        /\ InOrder(batch[k])
        /\ \A i \in DOMAIN written, j \in DOMAIN batch[k] :
               SeriesOf(written[i][1]) = k => Before(written[i], batch[k][j])
WrittenInOrder ==
    \A i, j \in DOMAIN written :
        i < j /\ SeriesOf(written[i][1]) = SeriesOf(written[j][1]) => Before(written[i], written[j])

OrderParts == InTurn /\ ChannelInTurn /\ TakenIsPast /\ BatchesInOrder /\ WrittenInOrder
OrderInv == noGoroutines => OrderParts

LEMMA ConcatInOrder ==
  ASSUME NEW s \in Seq(AllPoints), NEW t \in Seq(AllPoints), InOrder(s), InOrder(t),
         \A i \in DOMAIN s, j \in DOMAIN t : Before(s[i], t[j])
  PROVE  InOrder(s \o t)
  <1> SUFFICES ASSUME NEW i \in DOMAIN (s \o t), NEW j \in DOMAIN (s \o t), i < j
               PROVE  Before((s \o t)[i], (s \o t)[j])
    BY DEF InOrder
  <1>1. CASE j <= Len(s)
    <2>1. i \in DOMAIN s /\ j \in DOMAIN s /\ (s \o t)[i] = s[i] /\ (s \o t)[j] = s[j]
      BY <1>1
    <2> QED BY <2>1 DEF InOrder
  <1>2. CASE i > Len(s)
    <2>1. /\ i - Len(s) \in DOMAIN t /\ j - Len(s) \in DOMAIN t /\ i - Len(s) < j - Len(s)
          /\ (s \o t)[i] = t[i - Len(s)] /\ (s \o t)[j] = t[j - Len(s)]
      BY <1>2
    <2> QED BY <2>1 DEF InOrder
  <1>3. CASE i <= Len(s) /\ j > Len(s)
    <2>1. /\ i \in DOMAIN s /\ j - Len(s) \in DOMAIN t
          /\ (s \o t)[i] = s[i] /\ (s \o t)[j] = t[j - Len(s)]
      BY <1>3
    <2> QED BY <2>1
  <1> QED BY <1>1, <1>2, <1>3

LEMMA PointsInOrder ==
  ASSUME NEW p \in Packets
  PROVE  InOrder(Points(p))
  <1>1. DOMAIN Points(p) = 1 .. Size[p] /\ \A i \in 1 .. Size[p] : Points(p)[i] = <<p, i>>
    BY DEF Points
  <1> QED BY <1>1 DEF InOrder, Before

LEMMA PlaceInConcat ==
  ASSUME NEW S, NEW s \in Seq(S), NEW t \in Seq(S), NEW i \in DOMAIN (s \o t)
  PROVE  \/ i \in DOMAIN s /\ (s \o t)[i] = s[i]
         \/ i > Len(s) /\ i - Len(s) \in DOMAIN t /\ (s \o t)[i] = t[i - Len(s)]
  OBVIOUS

(* What SendPoints appends is later than all that was sent. *)
LEMMA SentInTurn ==
  ASSUME TypeOK, InTurn, NEW q \in Packets, prod[q] = "send", NEW p \in Packets, prod[p] = "done"
  PROVE  p < q
  <1>1. p \in Nat /\ q \in Nat /\ p # q
    BY InfluxTypes
  <1>2. ~(q < p)
    BY DEF InTurn
  <1> QED BY <1>1, <1>2

LEMMA OrderSend ==
  ASSUME WriterInv, OrderParts, NEW q \in Packets, SendPoints(q)
  PROVE  OrderParts'
  <1> USE DEF WriterInv, OrderParts
  <1>1. /\ prod[q] = "send" /\ prod' = [prod EXCEPT ![q] = "done"] /\ ch' = Append(ch, q)
        /\ UNCHANGED <<opts, batch, written>> /\ ch \in Seq(Packets) /\ prod \in [Packets -> ProdStates]
    BY DEF SendPoints, TypeOK
  <1>2. \A p \in Packets : prod[p] = "done" => prod'[p] = "done" /\ p < q
    BY <1>1, SentInTurn
  <1>3. InTurn'
    BY <1>1 DEF InTurn, ProdStates
  <1>4. DOMAIN ch' = 1 .. Len(ch) + 1 /\ ch'[Len(ch) + 1] = q /\ \A i \in DOMAIN ch : ch'[i] = ch[i] /\ ch[i] \in Packets
    BY <1>1
  <1>5. ChannelInTurn'
    BY <1>1, <1>2, <1>4 DEF ChannelInTurn
  <1>6. ASSUME NEW s \in Seq(AllPoints), Past(s)
        PROVE  \A i \in DOMAIN s : prod'[s[i][1]] = "done" /\ \A j \in DOMAIN ch' : s[i][1] < ch'[j]
    <2> TAKE i \in DOMAIN s
    <2>1. s[i][1] \in Packets
      BY <1>6, PointHasPacket
    <2> QED BY <1>1, <1>2, <1>4, <1>6, <2>1 DEF Past
  <1>7. TakenIsPast'
    <2>1. written \in Seq(AllPoints) /\ \A k \in Keys : batch[k] \in Seq(AllPoints)
      BY DEF TypeOK
    <2>2. Past(written) /\ \A k \in Keys : Past(batch[k])
      BY DEF TakenIsPast
    <2> QED BY <1>1, <1>6, <2>1, <2>2 DEF TakenIsPast, Past
  <1>8. BatchesInOrder' /\ WrittenInOrder'
    BY <1>1, SameSeries DEF BatchesInOrder, WrittenInOrder, InOrder, Before
  <1> QED BY <1>3, <1>5, <1>7, <1>8

LEMMA OrderTake ==
  ASSUME WriterInv, OrderParts, Take
  PROVE  OrderParts'
  <1> USE DEF WriterInv, OrderParts
  <1> DEFINE h == Head(ch)
             k0 == SeriesOf(h)
  <1>1. /\ ch \in Seq(Packets) /\ ch # <<>> /\ h \in Packets /\ h = ch[1] /\ ch' = Tail(ch)
        /\ batch' = [batch EXCEPT ![k0] = batch[k0] \o Points(h)]
        /\ UNCHANGED <<opts, prod, written>> /\ batch \in [Keys -> Seq(AllPoints)]
        /\ written \in Seq(AllPoints)
    BY HeadTailProperties DEF TypeOK, Take
  <1>2. k0 \in Keys /\ Points(h) \in Seq(AllPoints) /\ \A j \in DOMAIN Points(h) : Points(h)[j] \in AllPoints /\ Points(h)[j][1] = h
    <2>1. h \in Packets /\ Size[h] \in Nat
      BY <1>1, InfluxTypes
    <2> HIDE DEF h
    <2>2. DOMAIN Points(h) = 1 .. Size[h]
      BY DEF Points
    <2>3. k0 \in Keys
      BY <2>1, SeriesIsKey
    <2>4. Points(h) \in Seq(AllPoints) /\ \A j \in 1 .. Size[h] : Points(h)[j] = <<h, j>> /\ <<h, j>> \in AllPoints
      BY <2>1, PointsOfPacket
    <2>5. \A j \in DOMAIN Points(h) : Points(h)[j] \in AllPoints
      BY <2>2, <2>4
    <2>6. \A j \in DOMAIN Points(h) : Points(h)[j][1] = h
      <3> TAKE j \in DOMAIN Points(h)
      <3>1. Points(h)[j] = <<h, j>>
        BY <2>2, <2>4
      <3> QED BY <3>1
    <2> QED BY <2>3, <2>4, <2>5, <2>6
  <1> HIDE DEF k0
  <1>3. DOMAIN ch' = 1 .. Len(ch) - 1 /\ \A j \in DOMAIN ch' : ch'[j] = ch[j + 1] /\ j + 1 \in DOMAIN ch /\ 1 \in DOMAIN ch
    BY <1>1
  <1> HIDE DEF h
  <1>4. prod[h] = "done" /\ \A j \in DOMAIN ch' : h < ch'[j]
    BY <1>1, <1>3 DEF ChannelInTurn
  <1>5. InTurn'
    BY <1>1 DEF InTurn
  <1>6. ChannelInTurn'
    BY <1>1, <1>3 DEF ChannelInTurn
  <1>7. \A k \in Keys : batch'[k] = IF k = k0 THEN batch[k] \o Points(h) ELSE batch[k]
    BY <1>1, <1>2
  <1>8. \A k \in Keys : \A i \in DOMAIN batch'[k] :
            \/ i \in DOMAIN batch[k] /\ batch'[k][i] = batch[k][i]
            \/ /\ k = k0 /\ batch'[k][i] \in AllPoints /\ batch'[k][i][1] = h
    <2> TAKE k \in Keys
    <2> TAKE i \in DOMAIN batch'[k]
    <2>1. CASE k = k0
      BY <1>1, <1>2, <1>7, <2>1, PlaceInConcat
    <2>2. CASE k # k0
      BY <1>7, <2>2
    <2> QED BY <2>1, <2>2
  <1>9. TakenIsPast'
    <2>1. ASSUME NEW s, Past(s)
          PROVE  \A i \in DOMAIN s : prod'[s[i][1]] = "done" /\ \A j \in DOMAIN ch' : s[i][1] < ch'[j]
      BY <1>1, <1>3, <2>1 DEF Past
    <2>2. \A i \in DOMAIN written' : prod'[written'[i][1]] = "done" /\ \A j \in DOMAIN ch' : written'[i][1] < ch'[j]
      BY <1>1, <2>1 DEF TakenIsPast
    <2>3. ASSUME NEW k \in Keys, NEW i \in DOMAIN batch'[k]
          PROVE  prod'[batch'[k][i][1]] = "done" /\ \A j \in DOMAIN ch' : batch'[k][i][1] < ch'[j]
      <3>1. Past(batch[k])
        BY DEF TakenIsPast
      <3>2. CASE i \in DOMAIN batch[k] /\ batch'[k][i] = batch[k][i]
        BY <2>1, <3>1, <3>2
      <3>3. CASE batch'[k][i][1] = h
        BY <1>1, <1>4, <3>3
      <3> QED BY <1>8, <2>3, <3>2, <3>3
    <2> QED BY <2>2, <2>3 DEF TakenIsPast, Past
  <1>10. \A k \in Keys : \A i \in DOMAIN batch[k] : batch[k][i] \in AllPoints /\ batch[k][i][1] < h
    BY <1>1, <1>3 DEF TakenIsPast, Past
  <1>11. \A i \in DOMAIN written : written[i] \in AllPoints /\ written[i][1] < h
    BY <1>1, <1>3 DEF TakenIsPast, Past
  <1>12. ASSUME NEW k \in Keys PROVE InOrder(batch'[k])
    <2>1. InOrder(batch[k]) /\ InOrder(Points(h))
      BY <1>1, PointsInOrder DEF BatchesInOrder
    <2>2. \A i \in DOMAIN batch[k], j \in DOMAIN Points(h) : Before(batch[k][i], Points(h)[j])
      BY <1>2, <1>10, <1>12 DEF Before
    <2>3. batch[k] \in Seq(AllPoints)
      BY <1>1
    <2>4. InOrder(batch[k] \o Points(h))
      BY <1>2, <2>1, <2>2, <2>3, ConcatInOrder
    <2> QED BY <1>7, <2>1, <2>4
  <1>13. ASSUME NEW k \in Keys, NEW i \in DOMAIN written, NEW j \in DOMAIN batch'[k],
                SeriesOf(written[i][1]) = k
         PROVE  Before(written[i], batch'[k][j])
    <2>1. CASE j \in DOMAIN batch[k] /\ batch'[k][j] = batch[k][j]
      BY <1>13, <2>1 DEF BatchesInOrder
    <2>2. CASE batch'[k][j][1] = h
      BY <1>11, <2>2 DEF Before
    <2> QED BY <1>8, <2>1, <2>2
  <1>14. BatchesInOrder'
    <2>1. perMeas' = perMeas /\ written' = written
      BY <1>1 DEF opts
    <2>2. \A k \in Keys : (InOrder(batch[k]))'
      BY <1>12 DEF InOrder, Before
    <2>3. ASSUME NEW k \in Keys, NEW i \in DOMAIN written', NEW j \in DOMAIN batch'[k],
                 (SeriesOf(written[i][1]))' = k
          PROVE  Before(written'[i], batch'[k][j])
      <3>1. SeriesOf(written[i][1]) = k
        BY <2>1, <2>3 DEF SeriesOf
      <3> QED BY <1>13, <2>1, <2>3, <3>1
    <2> QED BY <2>2, <2>3 DEF BatchesInOrder, Before, Keys, Packets
  <1>15. WrittenInOrder'
    BY <1>1, SameSeries DEF WrittenInOrder, Before
  <1> QED BY <1>5, <1>6, <1>9, <1>14, <1>15

LEMMA OrderWrite ==
  ASSUME WriterInv, OrderParts, Write
  PROVE  OrderParts'
  <1> USE DEF WriterInv, OrderParts
  <1> DEFINE b     == batch[cur]
             k     == ChunkLength(b)
             chunk == SubSeq(b, 1, k)
             left  == SubSeq(b, k + 1, Len(b))
  <1>1. /\ b \in Seq(AllPoints) /\ k \in 0 .. Len(b) /\ cur \in Keys
        /\ written \in Seq(AllPoints) /\ batch \in [Keys -> Seq(AllPoints)]
    BY ChunkFits DEF TypeOK
  <1>2. /\ batch' = [batch EXCEPT ![cur] = left]
        /\ written' = written \o chunk \/ written' = written
        /\ UNCHANGED <<opts, prod, ch>>
    BY DEF Write
  <1> HIDE DEF k
  <1>3. /\ chunk \in Seq(AllPoints)
        /\ \A i \in DOMAIN chunk : i \in DOMAIN b /\ chunk[i] = b[i] /\ i <= k
    BY <1>1
  <1>4. \A i \in DOMAIN left : k + i \in DOMAIN b /\ left[i] = b[k + i] /\ k + i > k
    BY <1>1
  <1>5. \A c \in Keys : batch'[c] = IF c = cur THEN left ELSE batch[c]
    BY <1>1, <1>2
  <1> HIDE DEF chunk, left
  <1>6. \A i \in DOMAIN written' :
            \/ i \in DOMAIN written /\ written'[i] = written[i]
            \/ /\ i > Len(written) /\ i - Len(written) \in DOMAIN chunk
               /\ written'[i] = chunk[i - Len(written)]
    <2>1. CASE written' = written \o chunk
      BY <1>1, <1>3, <2>1, PlaceInConcat
    <2>2. CASE written' = written
      BY <2>2
    <2> QED BY <1>2, <2>1, <2>2
  <1>7. \A c \in Keys : \A j \in DOMAIN batch'[c] : \E i \in DOMAIN batch[c] : batch'[c][j] = batch[c][i]
    BY <1>4, <1>5
  <1>8. \A i \in DOMAIN b : SeriesOf(b[i][1]) = cur
    BY <1>1 DEF SeriesIsItsOwn
  <1>9. InTurn' /\ ChannelInTurn'
    BY <1>2 DEF InTurn, ChannelInTurn
  <1>10. TakenIsPast'
    <2>1. Past(written) /\ \A c \in Keys : Past(batch[c])
      BY DEF TakenIsPast
    <2>2. ASSUME NEW i \in DOMAIN written'
          PROVE  prod'[written'[i][1]] = "done" /\ \A j \in DOMAIN ch' : written'[i][1] < ch'[j]
      <3>1. CASE i \in DOMAIN written /\ written'[i] = written[i]
        BY <1>2, <2>1, <3>1 DEF Past
      <3>2. CASE i - Len(written) \in DOMAIN chunk /\ written'[i] = chunk[i - Len(written)]
        <4>1. PICK j \in DOMAIN b : written'[i] = b[j]
          BY <1>3, <3>2
        <4> QED BY <1>1, <1>2, <2>1, <4>1 DEF Past
      <3> QED BY <1>6, <3>1, <3>2
    <2>3. ASSUME NEW c \in Keys, NEW i \in DOMAIN batch'[c]
          PROVE  prod'[batch'[c][i][1]] = "done" /\ \A j \in DOMAIN ch' : batch'[c][i][1] < ch'[j]
      <3>1. PICK j \in DOMAIN batch[c] : batch'[c][i] = batch[c][j]
        BY <1>7, <2>3
      <3> QED BY <1>2, <2>1, <3>1 DEF Past
    <2> QED BY <2>2, <2>3 DEF TakenIsPast, Past, Keys, Packets
  <1>11. ASSUME NEW c \in Keys PROVE InOrder(batch'[c])
    <2>1. InOrder(batch[c]) /\ InOrder(b)
      BY <1>1 DEF BatchesInOrder
    <2>2. InOrder(left)
      <3> SUFFICES ASSUME NEW i \in DOMAIN left, NEW j \in DOMAIN left, i < j
                   PROVE  Before(left[i], left[j])
        BY DEF InOrder
      <3>1. k + i < k + j
        BY <1>1 DEF left
      <3> QED BY <1>4, <2>1, <3>1 DEF InOrder
    <2> QED BY <1>5, <2>1, <2>2
  <1>12. ASSUME NEW c \in Keys, NEW i \in DOMAIN written', NEW j \in DOMAIN batch'[c],
                SeriesOf(written'[i][1]) = c
         PROVE  Before(written'[i], batch'[c][j])
    <2>1. CASE i \in DOMAIN written /\ written'[i] = written[i]
      <3>1. PICK m \in DOMAIN batch[c] : batch'[c][j] = batch[c][m]
        BY <1>7, <1>12
      <3> QED BY <1>12, <2>1, <3>1 DEF BatchesInOrder
    <2>2. CASE i - Len(written) \in DOMAIN chunk /\ written'[i] = chunk[i - Len(written)]
      <3>1. PICK m \in DOMAIN b : written'[i] = b[m] /\ m <= k
        BY <1>3, <2>2
      <3>2. c = cur
        BY <1>8, <1>12, <3>1
      <3>3. k + j \in DOMAIN b /\ batch'[c][j] = b[k + j] /\ k + j > k
        BY <1>4, <1>5, <1>12, <3>2
      <3>4. InOrder(b)
        BY <1>1 DEF BatchesInOrder
      <3>5. m < k + j
        BY <1>1, <3>1, <3>3
      <3> QED BY <3>1, <3>3, <3>4, <3>5 DEF InOrder
    <2> QED BY <1>6, <1>12, <2>1, <2>2
  <1>13. ASSUME NEW i \in DOMAIN written', NEW j \in DOMAIN written', i < j,
                SeriesOf(written'[i][1]) = SeriesOf(written'[j][1])
         PROVE  Before(written'[i], written'[j])
    <2>1. i \in Nat /\ j \in Nat /\ Len(written) \in Nat /\ DOMAIN written = 1 .. Len(written)
      <3>1. written' \in Seq(AllPoints)
        <4>1. written \o chunk \in Seq(AllPoints)
          BY <1>1, <1>3
        <4> QED BY <1>1, <1>2, <4>1
      <3> QED BY <1>1, <3>1
    <2>2. CASE i \in DOMAIN written /\ written'[i] = written[i] /\ j \in DOMAIN written /\ written'[j] = written[j]
      BY <1>13, <2>2 DEF WrittenInOrder
    <2>3. CASE /\ i \in DOMAIN written /\ written'[i] = written[i]
               /\ j - Len(written) \in DOMAIN chunk /\ written'[j] = chunk[j - Len(written)]
      <3>1. PICK m \in DOMAIN b : written'[j] = b[m]
        BY <1>3, <2>3
      <3>2. SeriesOf(written[i][1]) = cur
        BY <1>8, <1>13, <2>3, <3>1
      <3> QED BY <1>1, <2>3, <3>1, <3>2 DEF BatchesInOrder
    <2>4. CASE /\ i - Len(written) \in DOMAIN chunk /\ written'[i] = chunk[i - Len(written)]
               /\ j - Len(written) \in DOMAIN chunk /\ written'[j] = chunk[j - Len(written)]
      <3>1. InOrder(b)
        BY <1>1 DEF BatchesInOrder
      <3>2. i - Len(written) < j - Len(written)
        BY <1>13, <2>1
      <3> QED BY <1>3, <2>4, <3>1, <3>2 DEF InOrder
    <2>5. ~(j \in DOMAIN written /\ i > Len(written))
      BY <1>13, <2>1
    <2> QED BY <1>6, <1>13, <2>2, <2>3, <2>4, <2>5
  <1>14. perMeas' = perMeas
    BY <1>2 DEF opts
  <1>15. BatchesInOrder'
    <2>1. \A c \in Keys : (InOrder(batch[c]))'
      BY <1>11 DEF InOrder, Before
    <2>2. ASSUME NEW c \in Keys, NEW i \in DOMAIN written', NEW j \in DOMAIN batch'[c],
                 (SeriesOf(written[i][1]))' = c
          PROVE  Before(written'[i], batch'[c][j])
      <3>1. SeriesOf(written'[i][1]) = c
        BY <1>14, <2>2 DEF SeriesOf
      <3> QED BY <1>12, <2>2, <3>1
    <2> QED BY <2>1, <2>2 DEF BatchesInOrder, Before, Keys, Packets
  <1>16. WrittenInOrder'
    BY <1>13, <1>14 DEF WrittenInOrder, Before, SeriesOf
  <1> QED BY <1>9, <1>10, <1>15, <1>16

LEMMA OrderPacket ==
  ASSUME WriterInv, noGoroutines, OrderParts, NEW p \in Packets, Packet(p)
  PROVE  OrderParts'
  <1> USE DEF WriterInv, OrderParts
  <1>1. PICK v \in ProdStates :
          /\ prod' = [prod EXCEPT ![p] = v] /\ v # "off"
          /\ UNCHANGED <<opts, ch, batch, written>>
    BY PacketGoes
  <1>2. prod[p] = "off" /\ \A q \in 1 .. p - 1 : prod[q] \in {"done", "dropped"}
    BY DEF Packet
  <1>3. prod \in [Packets -> ProdStates] /\ Packets \subseteq Nat /\ \A q \in Packets : q >= 1
    BY InfluxTypes DEF TypeOK
  <1>4. InTurn'
    <2> SUFFICES ASSUME NEW q \in Packets, NEW r \in Packets, r < q, prod'[q] # "off"
                 PROVE  prod'[r] \in {"done", "dropped"}
      BY DEF InTurn, Packets
    <2>1. prod[r] \in {"done", "dropped"}
      <3>1. CASE q = p
        <4>1. r \in 1 .. p - 1
          BY <1>3, <3>1
        <4> QED BY <1>2, <4>1
      <3>2. CASE q # p
        BY <1>1, <1>3, <3>2 DEF InTurn
      <3> QED BY <3>1, <3>2
    <2>2. r # p
      BY <1>2, <2>1
    <2> QED BY <1>1, <1>3, <2>1, <2>2
  <1>5. \A q \in Packets : prod[q] = "done" => prod'[q] = "done"
    BY <1>1, <1>2, <1>3
  <1>6. ChannelInTurn'
    <2>1. \A i \in DOMAIN ch : ch[i] \in Packets
      BY DEF TypeOK
    <2> QED BY <1>1, <1>5, <2>1 DEF ChannelInTurn
  <1>7. TakenIsPast'
    <2>1. /\ \A i \in DOMAIN written : written[i][1] \in Packets
          /\ \A k \in Keys : \A i \in DOMAIN batch[k] : batch[k][i][1] \in Packets
      BY PointHasPacket DEF TypeOK
    <2> QED BY <1>1, <1>5, <2>1 DEF TakenIsPast, Past
  <1>8. BatchesInOrder' /\ WrittenInOrder'
    BY <1>1, SameSeries DEF BatchesInOrder, WrittenInOrder, InOrder, Before
  <1> QED BY <1>4, <1>6, <1>7, <1>8

LEMMA OrderStep == WriterInv /\ OrderInv /\ [Next]_vars => OrderInv'
  <1> SUFFICES ASSUME WriterInv, OrderInv, [Next]_vars, noGoroutines' PROVE OrderParts'
    BY DEF OrderInv
  <1>1. noGoroutines' = noGoroutines
    BY DEF Next, Writer, vars, opts, Reload, Tick, Take, PickSeries, Write, RangeEnd, Packet, SendPoints
  <1>2. OrderParts /\ noGoroutines
    BY <1>1 DEF OrderInv
  <1>3. CASE Take \/ Write
    BY <1>2, <1>3, OrderTake, OrderWrite
  <1>4. CASE \E p \in Packets : Packet(p) \/ SendPoints(p)
    BY <1>2, <1>4, OrderPacket, OrderSend
  <1>5. CASE Reload \/ RangeEnd \/ PickSeries \/ Tick \/ UNCHANGED vars
    <2>1. UNCHANGED <<opts, prod, ch, batch, written>>
      BY <1>5 DEF Reload, RangeEnd, PickSeries, Tick, vars
    <2>2. UNCHANGED InTurn /\ UNCHANGED ChannelInTurn /\ UNCHANGED TakenIsPast
      BY <2>1 DEF InTurn, ChannelInTurn, TakenIsPast, Past
    <2>3. UNCHANGED BatchesInOrder /\ UNCHANGED WrittenInOrder
      BY <2>1, SameSeries DEF BatchesInOrder, WrittenInOrder, InOrder, Before
    <2> QED BY <1>2, <2>2, <2>3 DEF OrderParts
  <1> QED BY <1>3, <1>4, <1>5 DEF Next, Writer

(* With --no-per-packet-goroutines the points of a measurement reach the database in the
   order of the packets, and of the points in each (influx.go:238-300, 322-352): for any packets,
   batch size, writer and schedule, whatever writes fail.  The handler of a packet sends before the next
   starts, the channel is a queue, and a batch is appended to and written from its front. *)
THEOREM MeasurementsAreInOrder == Spec => []OrderIsKept
  <1>1. Init => OrderInv
    BY DEF Init, OrderInv, OrderParts, InTurn, ChannelInTurn, TakenIsPast, Past, BatchesInOrder,
           InOrder, WrittenInOrder
  <1>2. OrderInv => OrderIsKept
    BY DEF OrderInv, OrderParts, WrittenInOrder, OrderIsKept, Before
  <1> QED BY <1>1, <1>2, WriterInit, WriterStep, OrderStep, PTL DEF Spec

-----------------------------------------------------------------------------
(* The accumulator: merging keeps every field *)

FieldNames == (UNION {Metric[i].fields : i \in Metrics}) \cup {DeviceTs}
AccPoint ==
    [tags   : {Metric[i].tags : i \in Metrics} \cup {{}},
     fields : UNION {[D -> Metrics] : D \in SUBSET FieldNames}]

AccTypes ==
    /\ accSent \subseteq Metrics /\ took \subseteq accSent /\ accCh \in Seq(Metrics)
    /\ acc \in {"ticker", "take", "write"} /\ accN \in Nat
    /\ lastPoint \in AccPoint /\ points \in Seq(AccPoint)
    /\ ticks \in Seq([took : SUBSET Metrics, wrote : Seq(AccPoint)])

(* A metric is in the channel at most once, and the tick has not taken it yet. *)
ChannelIsNew ==
    /\ acc = "take" => accN >= 1 /\ accN <= Len(accCh)
    /\ \A a \in DOMAIN accCh : accCh[a] \in accSent /\ accCh[a] \notin took
    /\ \A a, b \in DOMAIN accCh : a # b => accCh[a] # accCh[b]

(* Between two ticks nothing is held; a tick holds a point once it took a metric. *)
TickStartsEmpty ==
    /\ acc = "ticker" => took = {}
    /\ took = {} => lastPoint = NoPoint
    /\ lastPoint = NoPoint => took = {} /\ points = <<>>
    /\ lastPoint # NoPoint => DeviceTs \in DOMAIN lastPoint.fields

(* The field f of metric i is in point p. *)
HasField(i, f, p) == f \in DOMAIN p.fields /\ p.fields[f] = i
Held == Append(points, lastPoint)

(* The points held have the fields of metrics taken, with the tags of each ... *)
HeldIsTaken ==
    \A a \in DOMAIN Held : \A f \in DOMAIN Held[a].fields :
        LET i == Held[a].fields[f]
        IN  /\ i \in took /\ Held[a].tags = Metric[i].tags
            /\ f # DeviceTs => f \in Metric[i].fields

(* ... and each field of each of them in exactly one point. *)
TakenIsHeld ==
    \A i \in took : \A f \in Metric[i].fields :
        \E a \in DOMAIN Held : \A b \in DOMAIN Held : HasField(i, f, Held[b]) <=> b = a

(* There is one point as long as all metrics merge. *)
OneWhileAllMerge ==
    /\ points # <<>> => ~AllMerge(took)
    /\ points = <<>> =>
          \A i \in took : lastPoint.tags = Metric[i].tags /\ Metric[i].fields \subseteq DOMAIN lastPoint.fields
    /\ points = <<>> => AllMerge(took)

MergeInv ==
    /\ AccTypes /\ ChannelIsNew /\ TickStartsEmpty
    /\ HeldIsTaken /\ TakenIsHeld /\ OneWhileAllMerge
    /\ MergingKeepsFields

LEMMA HeldPlaces ==
  ASSUME AccTypes
  PROVE  /\ Held \in Seq(AccPoint) /\ Len(Held) = Len(points) + 1 /\ Len(points) \in Nat
         /\ DOMAIN Held = 1 .. Len(points) + 1 /\ Held[Len(points) + 1] = lastPoint
         /\ \A a \in 1 .. Len(points) : Held[a] = points[a]
  BY DEF AccTypes, Held

LEMMA NoPointIsPoint == NoPoint \in AccPoint /\ DOMAIN NoPoint.fields = {}
  <1>1. <<>> \in [{} -> Metrics] /\ DOMAIN <<>> = {}
    OBVIOUS
  <1>2. {} \in SUBSET FieldNames
    OBVIOUS
  <1> QED BY <1>1, <1>2 DEF NoPoint, AccPoint

LEMMA NewPointIs ==
  ASSUME NEW i \in Metrics
  PROVE  /\ NewPoint(i) \in AccPoint /\ NewPoint(i).tags = Metric[i].tags
         /\ DOMAIN NewPoint(i).fields = Metric[i].fields \cup {DeviceTs}
         /\ \A f \in Metric[i].fields \cup {DeviceTs} : NewPoint(i).fields[f] = i
  <1> DEFINE D == Metric[i].fields \cup {DeviceTs}
  <1>1. D \in SUBSET FieldNames
    <2>1. Metric[i].fields \subseteq FieldNames /\ DeviceTs \in FieldNames
      BY DEF FieldNames
    <2> QED BY <2>1
  <1>2. NewPoint(i) = [tags |-> Metric[i].tags, fields |-> [f \in D |-> i]]
    BY DEF NewPoint
  <1>3. [f \in D |-> i] \in [D -> Metrics]
    OBVIOUS
  <1>4. NewPoint(i) \in AccPoint
    BY <1>1, <1>2, <1>3 DEF AccPoint
  <1> QED BY <1>2, <1>4

LEMMA MergedIs ==
  ASSUME AccTypes, NEW i \in Metrics
  PROVE  /\ Merged(i) \in AccPoint /\ Merged(i).tags = lastPoint.tags
         /\ DOMAIN Merged(i).fields = DOMAIN lastPoint.fields \cup Metric[i].fields
         /\ \A f \in DOMAIN lastPoint.fields : Merged(i).fields[f] = lastPoint.fields[f]
         /\ \A f \in Metric[i].fields \ DOMAIN lastPoint.fields : Merged(i).fields[f] = i
  <1> DEFINE old == lastPoint.fields
             D   == DOMAIN old \cup Metric[i].fields
             new == [f \in D |-> IF f \in DOMAIN old THEN old[f] ELSE i]
  <1>1. lastPoint \in AccPoint
    BY DEF AccTypes
  <1>2. PICK E \in SUBSET FieldNames : old \in [E -> Metrics]
    BY <1>1 DEF AccPoint
  <1>3. D \in SUBSET FieldNames
    BY <1>2 DEF FieldNames
  <1>4. new \in [D -> Metrics]
    BY <1>2
  <1>5. Merged(i) = [lastPoint EXCEPT !.fields = new]
    BY DEF Merged
  <1> HIDE DEF new
  <1>6. Merged(i) \in AccPoint /\ Merged(i).tags = lastPoint.tags /\ Merged(i).fields = new
    BY <1>1, <1>3, <1>4, <1>5 DEF AccPoint
  <1> QED BY <1>6 DEF new

LEMMA MergeInit == AccInit => MergeInv
  <1> SUFFICES ASSUME AccInit PROVE MergeInv
    OBVIOUS
  <1>1. AccTypes
    BY NoPointIsPoint DEF AccInit, AccTypes
  <1>2. ChannelIsNew /\ TickStartsEmpty /\ TakenIsHeld /\ OneWhileAllMerge /\ MergingKeepsFields
    BY DEF AccInit, ChannelIsNew, TickStartsEmpty, TakenIsHeld, OneWhileAllMerge, AllMerge,
           MergingKeepsFields
  <1>3. HeldIsTaken
    <2>1. \A a \in DOMAIN Held : Held[a] = NoPoint
      BY <1>1, HeldPlaces DEF AccInit
    <2> QED BY <2>1, NoPointIsPoint DEF HeldIsTaken
  <1> QED BY <1>1, <1>2, <1>3 DEF MergeInv

(* MergingKeepsFields of one tick *)
TickIsKept(t) ==
    \/ t.wrote = <<>> /\ AllMerge(t.took)
    \/ /\ ~AllMerge(t.took)
       /\ \A i \in t.took : \A f \in Metric[i].fields :
             /\ Cardinality({m \in DOMAIN t.wrote : HasField(i, f, t.wrote[m])}) = 1
             /\ \E m \in DOMAIN t.wrote :
                    HasField(i, f, t.wrote[m]) /\ t.wrote[m].tags = Metric[i].tags
       /\ \A m \in DOMAIN t.wrote : \A f \in DOMAIN t.wrote[m].fields :
             t.wrote[m].fields[f] \in t.took

LEMMA TicksAreKept == MergingKeepsFields <=> \A k \in DOMAIN ticks : TickIsKept(ticks[k])
  BY DEF MergingKeepsFields, TickIsKept, HasField

LEMMA SameMerge ==
  ASSUME UNCHANGED <<took, lastPoint, points, ticks>>
  PROVE  UNCHANGED <<HeldIsTaken, TakenIsHeld, OneWhileAllMerge, MergingKeepsFields>>
  <1>1. UNCHANGED Held
    BY DEF Held
  <1>2. UNCHANGED HeldIsTaken
    BY <1>1 DEF HeldIsTaken
  <1>3. UNCHANGED TakenIsHeld
    BY <1>1 DEF TakenIsHeld, HasField
  <1>4. UNCHANGED OneWhileAllMerge
    BY DEF OneWhileAllMerge, AllMerge
  <1>5. UNCHANGED MergingKeepsFields
    BY DEF MergingKeepsFields, AllMerge
  <1> QED BY <1>2, <1>3, <1>4, <1>5

LEMMA MergeSend ==
  ASSUME MergeInv, NEW i \in Metrics, accumulate(i)
  PROVE  MergeInv'
  <1> USE DEF MergeInv
  <1>1. /\ i \notin accSent /\ accSent' = accSent \cup {i} /\ accCh' = Append(accCh, i)
        /\ UNCHANGED <<acc, accN, took, lastPoint, points, ticks>>
        /\ accCh \in Seq(Metrics) /\ accCh' \in Seq(Metrics)
    BY DEF accumulate, AccTypes
  <1>2. AccTypes'
    BY <1>1 DEF AccTypes
  <1>3. Len(accCh') = Len(accCh) + 1 /\ accCh'[Len(accCh) + 1] = i /\ \A a \in DOMAIN accCh : accCh'[a] = accCh[a]
    BY <1>1
  <1>4. i \notin took
    BY <1>1 DEF AccTypes
  <1>5. ChannelIsNew'
    <2>1. acc' = "take" => accN' >= 1 /\ accN' <= Len(accCh')
      BY <1>1, <1>3 DEF ChannelIsNew, AccTypes
    <2>2. \A a \in DOMAIN accCh' : a = Len(accCh) + 1 \/ a \in DOMAIN accCh
      BY <1>1, <1>3
    <2>3. \A a \in DOMAIN accCh : accCh[a] \in accSent /\ accCh[a] \notin took /\ accCh[a] # i
      BY <1>1 DEF ChannelIsNew
    <2>4. \A a \in DOMAIN accCh' : accCh'[a] \in accSent' /\ accCh'[a] \notin took'
      BY <1>1, <1>3, <1>4, <2>2, <2>3
    <2>5. \A a, b \in DOMAIN accCh' : a # b => accCh'[a] # accCh'[b]
      BY <1>3, <2>2, <2>3 DEF ChannelIsNew
    <2> QED BY <2>1, <2>4, <2>5 DEF ChannelIsNew
  <1>6. (TickStartsEmpty /\ HeldIsTaken /\ TakenIsHeld /\ OneWhileAllMerge /\ MergingKeepsFields)'
    BY <1>1, SameMerge DEF TickStartsEmpty
  <1> QED BY <1>2, <1>5, <1>6

LEMMA MergeTick ==
  ASSUME MergeInv, AccTick \/ UNCHANGED accVars
  PROVE  MergeInv'
  <1> USE DEF MergeInv
  <1>1. /\ UNCHANGED <<accSent, accCh, took, lastPoint, points, ticks>>
        /\ \/ acc' = "take" /\ accN' = Len(accCh) /\ accCh # <<>>
           \/ acc' = acc /\ accN' = accN
    BY DEF AccTick, accVars
  <1>2. AccTypes' /\ ChannelIsNew'
    BY <1>1 DEF AccTypes, ChannelIsNew
  <1>3. (TickStartsEmpty /\ HeldIsTaken /\ TakenIsHeld /\ OneWhileAllMerge /\ MergingKeepsFields)'
    BY <1>1, SameMerge DEF TickStartsEmpty
  <1> QED BY <1>2, <1>3

LEMMA MergeWrite ==
  ASSUME MergeInv, AccWrite
  PROVE  MergeInv'
  <1> USE DEF MergeInv
  <1> DEFINE t == [took |-> took, wrote |-> IF points = <<>> THEN <<>> ELSE Held]
  <1>1. /\ ticks' = Append(ticks, t) /\ acc' = "ticker" /\ took' = {}
        /\ lastPoint' = NoPoint /\ points' = <<>> /\ UNCHANGED <<accSent, accCh, accN>>
    BY DEF AccWrite, Held
  <1>2. t \in [took : SUBSET Metrics, wrote : Seq(AccPoint)]
    BY HeldPlaces DEF AccTypes
  <1> HIDE DEF t
  <1>3. AccTypes'
    BY <1>1, <1>2, NoPointIsPoint DEF AccTypes
  <1>4. ChannelIsNew' /\ TickStartsEmpty' /\ TakenIsHeld' /\ OneWhileAllMerge'
    BY <1>1 DEF ChannelIsNew, TickStartsEmpty, TakenIsHeld, OneWhileAllMerge, AllMerge
  <1>5. HeldIsTaken'
    <2>1. \A a \in DOMAIN Held' : Held'[a] = NoPoint
      BY <1>1 DEF Held
    <2> QED BY <2>1, NoPointIsPoint DEF HeldIsTaken
  <1>6. \A a \in DOMAIN ticks' : ticks'[a] = t \/ (a \in DOMAIN ticks /\ ticks'[a] = ticks[a])
    BY <1>1, <1>2 DEF AccTypes
  <1>7. t.took = took /\ t.wrote = IF points = <<>> THEN <<>> ELSE Held
    BY DEF t
  <1>8. TickIsKept(t) => MergingKeepsFields'
    <2>1. \A a \in DOMAIN ticks : TickIsKept(ticks[a])
      BY TicksAreKept
    <2>2. TickIsKept(t) => \A a \in DOMAIN ticks' : TickIsKept(ticks'[a])
      BY <1>6, <2>1
    <2>3. MergingKeepsFields' <=> \A a \in DOMAIN ticks' : TickIsKept(ticks'[a])
      BY DEF MergingKeepsFields, TickIsKept, AllMerge, HasField
    <2> QED BY <2>2, <2>3
  <1>9. CASE points = <<>>
    <2>1. t.wrote = <<>> /\ AllMerge(t.took)
      BY <1>7, <1>9 DEF OneWhileAllMerge
    <2> QED BY <1>3, <1>4, <1>5, <1>8, <2>1 DEF TickIsKept
  <1>10. CASE points # <<>>
    <2>1. t.wrote = Held /\ t.took = took /\ ~AllMerge(took)
      BY <1>7, <1>10 DEF OneWhileAllMerge
    <2>2. ASSUME NEW i \in took, NEW f \in Metric[i].fields
          PROVE  /\ Cardinality({m \in DOMAIN Held : HasField(i, f, Held[m])}) = 1
                 /\ \E m \in DOMAIN Held : HasField(i, f, Held[m]) /\ Held[m].tags = Metric[i].tags
      <3>1. PICK a \in DOMAIN Held : \A b \in DOMAIN Held : HasField(i, f, Held[b]) <=> b = a
        BY DEF TakenIsHeld
      <3>2. {m \in DOMAIN Held : HasField(i, f, Held[m])} = {a}
        BY <3>1
      <3>3. Held[a].tags = Metric[i].tags
        BY <3>1 DEF HeldIsTaken, HasField
      <3> QED BY <3>1, <3>2, <3>3, FS_Singleton
    <2>3. \A m \in DOMAIN Held : \A f \in DOMAIN Held[m].fields : Held[m].fields[f] \in took
      BY DEF HeldIsTaken
    <2>4. TickIsKept(t)
      <3>1. ASSUME NEW i \in t.took, NEW f \in Metric[i].fields
            PROVE  /\ Cardinality({m \in DOMAIN t.wrote : HasField(i, f, t.wrote[m])}) = 1
                   /\ \E m \in DOMAIN t.wrote :
                          HasField(i, f, t.wrote[m]) /\ t.wrote[m].tags = Metric[i].tags
        <4>1. i \in took
          BY <2>1
        <4>2. {m \in DOMAIN t.wrote : HasField(i, f, t.wrote[m])} = {m \in DOMAIN Held : HasField(i, f, Held[m])}
          BY <2>1
        <4>3. \E m \in DOMAIN Held : HasField(i, f, Held[m]) /\ Held[m].tags = Metric[i].tags
          BY <2>2, <4>1
        <4>4. Cardinality({m \in DOMAIN Held : HasField(i, f, Held[m])}) = 1
          BY <2>2, <4>1
        <4> QED BY <2>1, <4>2, <4>3, <4>4
      <3>2. ~AllMerge(t.took)
        BY <2>1
      <3>3. \A m \in DOMAIN t.wrote : \A f \in DOMAIN t.wrote[m].fields : t.wrote[m].fields[f] \in t.took
        BY <2>1, <2>3
      <3> QED BY <3>1, <3>2, <3>3 DEF TickIsKept
    <2> QED BY <1>3, <1>4, <1>5, <1>8, <2>4
  <1> QED BY <1>9, <1>10

(* What the channel gives is a metric not taken in this tick. *)
LEMMA AccHead ==
  ASSUME MergeInv, AccTake
  PROVE  /\ accCh # <<>> /\ Head(accCh) \in Metrics /\ Head(accCh) \in accSent /\ Head(accCh) \notin took
         /\ accCh' \in Seq(Metrics) /\ accN' \in Nat /\ acc' \in {"take", "write"}
         /\ acc' = "take" => accN' >= 1 /\ accN' <= Len(accCh')
         /\ \A a \in DOMAIN accCh' : accCh'[a] \in accSent /\ accCh'[a] \notin took \cup {Head(accCh)}
         /\ \A a, b \in DOMAIN accCh' : a # b => accCh'[a] # accCh'[b]
  <1>1. acc = "take" /\ accCh' = Tail(accCh) /\ accN' = accN - 1 /\ acc' = IF accN = 1 THEN "write" ELSE "take"
    BY DEF AccTake
  <1>2. accCh \in Seq(Metrics) /\ accN \in Nat /\ accN >= 1 /\ accN <= Len(accCh)
    BY <1>1 DEF MergeInv, AccTypes, ChannelIsNew
  <1>3. accCh # <<>> /\ 1 \in DOMAIN accCh /\ Head(accCh) = accCh[1]
    BY <1>2
  <1>4. /\ accCh' \in Seq(Metrics) /\ Len(accCh') = Len(accCh) - 1
        /\ \A a \in DOMAIN accCh' : a + 1 \in DOMAIN accCh /\ accCh'[a] = accCh[a + 1] /\ a + 1 # 1 /\ a \in Nat
    BY <1>1, <1>2, <1>3
  <1>5. /\ \A a \in DOMAIN accCh : accCh[a] \in accSent /\ accCh[a] \notin took
        /\ \A a, b \in DOMAIN accCh : a # b => accCh[a] # accCh[b]
    BY DEF MergeInv, ChannelIsNew
  <1>6. \A a \in DOMAIN accCh' : accCh'[a] \in accSent /\ accCh'[a] \notin took \cup {Head(accCh)}
    BY <1>3, <1>4, <1>5
  <1>7. \A a, b \in DOMAIN accCh' : a # b => accCh'[a] # accCh'[b]
    <2> SUFFICES ASSUME NEW a \in DOMAIN accCh', NEW b \in DOMAIN accCh', a # b PROVE accCh'[a] # accCh'[b]
      OBVIOUS
    <2>1. a + 1 # b + 1
      BY <1>4
    <2> QED BY <1>4, <1>5, <2>1
  <1>8. accN' \in Nat /\ acc' \in {"take", "write"} /\ (acc' = "take" => accN' >= 1 /\ accN' <= Len(accCh'))
    BY <1>1, <1>2, <1>4
  <1> QED BY <1>2, <1>3, <1>4, <1>5, <1>6, <1>7, <1>8

(* The three ways of a valid metric: it is merged, it is the first, or it starts a new
   point. *)
TakeMerges(i) == lastPoint' = Merged(i) /\ points' = points
TakeFirst(i) == lastPoint = NoPoint /\ lastPoint' = NewPoint(i) /\ points' = points
TakeNew(i) == lastPoint # NoPoint /\ lastPoint' = NewPoint(i) /\ points' = Held

LEMMA TakeMergesStep ==
  ASSUME MergeInv, AccTypes', NEW i \in Metrics, i \notin took, CanMerge(i), TakeMerges(i),
         took' = took \cup {i}
  PROVE  (HeldIsTaken /\ TakenIsHeld /\ OneWhileAllMerge /\ DeviceTs \in DOMAIN lastPoint.fields)'
  <1> USE DEF MergeInv, TakeMerges
  <1> DEFINE z == Len(points) + 1
             D == DOMAIN lastPoint.fields
  <1>1. /\ DOMAIN Held = 1 .. z /\ z \in Nat \ {0} /\ Held[z] = lastPoint
        /\ DOMAIN Held' = 1 .. z /\ Held'[z] = Merged(i)
        /\ \A a \in 1 .. z : a # z => Held'[a] = Held[a]
    BY HeldPlaces DEF AccTypes, Held
  <1>2. /\ lastPoint.tags = Metric[i].tags /\ Metric[i].fields \cap D = {}
        /\ lastPoint # NoPoint /\ DeviceTs \in D
    BY DEF CanMerge, TickStartsEmpty
  <1>3. /\ Merged(i).tags = lastPoint.tags /\ DOMAIN Merged(i).fields = D \cup Metric[i].fields
        /\ \A f \in D : Merged(i).fields[f] = lastPoint.fields[f]
        /\ \A f \in Metric[i].fields : Merged(i).fields[f] = i
    BY <1>2, MergedIs
  <1> HIDE DEF z, D
  <1>4. \A a \in 1 .. z : \A f \in DOMAIN Held[a].fields :
            /\ Held[a].fields[f] \in took /\ Held[a].tags = Metric[Held[a].fields[f]].tags
            /\ f # DeviceTs => f \in Metric[Held[a].fields[f]].fields
    BY <1>1 DEF HeldIsTaken
  <1>5. HeldIsTaken'
    <2> SUFFICES ASSUME NEW a \in 1 .. z, NEW f \in DOMAIN Held'[a].fields
                 PROVE  /\ Held'[a].fields[f] \in took'
                        /\ Held'[a].tags = Metric[Held'[a].fields[f]].tags
                        /\ f # DeviceTs => f \in Metric[Held'[a].fields[f]].fields
      BY <1>1 DEF HeldIsTaken
    <2>1. CASE a # z
      BY <1>1, <1>4, <2>1
    <2>2. CASE a = z /\ f \in D
      BY <1>1, <1>3, <1>4, <2>2 DEF D
    <2>3. CASE a = z /\ f \notin D
      BY <1>1, <1>2, <1>3, <2>3
    <2> QED BY <2>1, <2>2, <2>3
  <1>6. TakenIsHeld'
    <2> SUFFICES ASSUME NEW j \in took', NEW f \in Metric[j].fields
                 PROVE  \E a \in 1 .. z : \A b \in 1 .. z : HasField(j, f, Held'[b]) <=> b = a
      <3>1. DOMAIN Held' = 1 .. z
        BY <1>1
      <3> QED BY <3>1 DEF TakenIsHeld, HasField
    <2>1. CASE j \in took
      <3>0. PICK a \in DOMAIN Held : \A b \in DOMAIN Held : HasField(j, f, Held[b]) <=> b = a
        BY <2>1 DEF TakenIsHeld
      <3>1. a \in 1 .. z /\ \A b \in 1 .. z : HasField(j, f, Held[b]) <=> b = a
        <4>1. DOMAIN Held = 1 .. z
          BY <1>1
        <4> QED BY <3>0, <4>1
      <3>2. j # i
        BY <2>1
      <3>3. HasField(j, f, Merged(i)) <=> HasField(j, f, lastPoint)
        BY <1>3, <3>2 DEF HasField, D
      <3>4. \A b \in 1 .. z : HasField(j, f, Held'[b]) <=> HasField(j, f, Held[b])
        BY <1>1, <3>3
      <3> QED BY <3>1, <3>4
    <2>2. CASE j = i
      <3>1. HasField(i, f, Held'[z])
        BY <1>1, <1>3, <2>2 DEF HasField
      <3>2. \A b \in 1 .. z : b # z => ~HasField(i, f, Held'[b])
        BY <1>1, <1>4 DEF HasField
      <3>3. z \in 1 .. z
        BY <1>1
      <3> QED BY <2>2, <3>1, <3>2, <3>3
    <2> QED BY <2>1, <2>2
  <1>7. OneWhileAllMerge'
    <2>1. points # <<>> => ~AllMerge(took')
      BY DEF OneWhileAllMerge, AllMerge
    <2>2. ASSUME points = <<>>, NEW j \in took'
          PROVE  lastPoint'.tags = Metric[j].tags /\ Metric[j].fields \subseteq DOMAIN lastPoint'.fields
      <3>1. CASE j = i
        BY <1>2, <1>3, <3>1
      <3>2. CASE j \in took
        BY <1>3, <2>2, <3>2 DEF OneWhileAllMerge, D
      <3> QED BY <3>1, <3>2
    <2>3. ASSUME points = <<>> PROVE AllMerge(took')
      <3>1. \A j \in took : Metric[i].tags = Metric[j].tags /\ Metric[j].fields \subseteq D
        BY <1>2, <2>3 DEF OneWhileAllMerge, D
      <3>2. AllMerge(took)
        BY <2>3 DEF OneWhileAllMerge
      <3> QED BY <1>2, <3>1, <3>2 DEF AllMerge
    <2>4. (AllMerge(took))' <=> AllMerge(took')
      BY DEF AllMerge
    <2> QED BY <2>1, <2>2, <2>3, <2>4 DEF OneWhileAllMerge
  <1>8. (DeviceTs \in DOMAIN lastPoint.fields)'
    BY <1>2, <1>3
  <1> QED BY <1>5, <1>6, <1>7, <1>8

LEMMA TakeFirstStep ==
  ASSUME MergeInv, AccTypes', NEW i \in Metrics, TakeFirst(i), took' = took \cup {i}
  PROVE  (HeldIsTaken /\ TakenIsHeld /\ OneWhileAllMerge /\ DeviceTs \in DOMAIN lastPoint.fields)'
  <1> USE DEF MergeInv, TakeFirst
  <1>1. took' = {i} /\ points' = <<>> /\ lastPoint' = NewPoint(i)
    BY DEF TickStartsEmpty
  <1>2. DOMAIN Held' = {1} /\ Held'[1] = NewPoint(i)
    BY <1>1 DEF Held
  <1>3. /\ NewPoint(i).tags = Metric[i].tags
        /\ DOMAIN NewPoint(i).fields = Metric[i].fields \cup {DeviceTs}
        /\ \A f \in Metric[i].fields \cup {DeviceTs} : NewPoint(i).fields[f] = i
    BY NewPointIs
  <1>4. HeldIsTaken'
    BY <1>1, <1>2, <1>3 DEF HeldIsTaken
  <1>5. TakenIsHeld'
    BY <1>1, <1>2, <1>3 DEF TakenIsHeld, HasField
  <1>6. OneWhileAllMerge'
    BY <1>1, <1>3 DEF OneWhileAllMerge, AllMerge
  <1> QED BY <1>1, <1>3, <1>4, <1>5, <1>6

LEMMA TakeNewStep ==
  ASSUME MergeInv, AccTypes', NEW i \in Metrics, i \notin took, ~CanMerge(i), TakeNew(i),
         took' = took \cup {i}
  PROVE  (HeldIsTaken /\ TakenIsHeld /\ OneWhileAllMerge /\ DeviceTs \in DOMAIN lastPoint.fields)'
  <1> USE DEF MergeInv, TakeNew
  <1> DEFINE z == Len(points) + 1
  <1>1. /\ DOMAIN Held = 1 .. z /\ z \in Nat \ {0} /\ Held \in Seq(AccPoint) /\ Held[z] = lastPoint
        /\ Len(Held) = z
    BY HeldPlaces
  <1> HIDE DEF z
  <1>2. Held' = Append(Held, NewPoint(i))
    BY DEF Held
  <1>3. /\ NewPoint(i) \in AccPoint /\ NewPoint(i).tags = Metric[i].tags
        /\ DOMAIN NewPoint(i).fields = Metric[i].fields \cup {DeviceTs}
        /\ \A f \in Metric[i].fields \cup {DeviceTs} : NewPoint(i).fields[f] = i
    BY NewPointIs
  <1>4. DOMAIN Held' = 1 .. z + 1 /\ Held'[z + 1] = NewPoint(i) /\ \A a \in 1 .. z : Held'[a] = Held[a]
    BY <1>1, <1>2, <1>3
  <1>5. \A a \in 1 .. z : \A f \in DOMAIN Held[a].fields :
            /\ Held[a].fields[f] \in took /\ Held[a].tags = Metric[Held[a].fields[f]].tags
            /\ f # DeviceTs => f \in Metric[Held[a].fields[f]].fields
    BY <1>1 DEF HeldIsTaken
  <1>6. \A a \in 1 .. z + 1 : a \in 1 .. z \/ a = z + 1
    BY <1>1
  <1>7. HeldIsTaken'
    <2> SUFFICES ASSUME NEW a \in 1 .. z + 1, NEW f \in DOMAIN Held'[a].fields
                 PROVE  /\ Held'[a].fields[f] \in took'
                        /\ Held'[a].tags = Metric[Held'[a].fields[f]].tags
                        /\ f # DeviceTs => f \in Metric[Held'[a].fields[f]].fields
      BY <1>4 DEF HeldIsTaken
    <2>1. CASE a \in 1 .. z
      BY <1>4, <1>5, <2>1
    <2>2. CASE a = z + 1
      BY <1>3, <1>4, <2>2
    <2> QED BY <1>6, <2>1, <2>2
  <1>8. TakenIsHeld'
    <2> SUFFICES ASSUME NEW j \in took', NEW f \in Metric[j].fields
                 PROVE  \E a \in 1 .. z + 1 : \A b \in 1 .. z + 1 : HasField(j, f, Held'[b]) <=> b = a
      BY <1>4 DEF TakenIsHeld, HasField
    <2>1. CASE j \in took
      <3>0. PICK a \in DOMAIN Held : \A b \in DOMAIN Held : HasField(j, f, Held[b]) <=> b = a
        BY <2>1 DEF TakenIsHeld
      <3>1. a \in 1 .. z /\ \A b \in 1 .. z : HasField(j, f, Held[b]) <=> b = a
        <4>1. DOMAIN Held = 1 .. z
          BY <1>1
        <4> QED BY <3>0, <4>1
      <3>2. ~HasField(j, f, Held'[z + 1])
        BY <1>3, <1>4, <2>1 DEF HasField
      <3>3. \A b \in 1 .. z : HasField(j, f, Held'[b]) <=> HasField(j, f, Held[b])
        BY <1>4
      <3>4. a \in 1 .. z + 1 /\ a # z + 1
        BY <1>1
      <3> QED BY <1>6, <3>1, <3>2, <3>3, <3>4
    <2>2. CASE j = i
      <3>1. HasField(i, f, Held'[z + 1])
        BY <1>3, <1>4, <2>2 DEF HasField
      <3>2. \A b \in 1 .. z : ~HasField(i, f, Held'[b])
        BY <1>4, <1>5 DEF HasField
      <3>3. z + 1 \in 1 .. z + 1 /\ z + 1 \notin 1 .. z
        BY <1>1
      <3> QED BY <1>6, <2>2, <3>1, <3>2, <3>3
    <2> QED BY <2>1, <2>2
  <1>9. ~AllMerge(took')
    <2>1. z \in 1 .. z /\ DeviceTs \in DOMAIN lastPoint.fields
      BY <1>1 DEF TickStartsEmpty
    <2>2. CASE lastPoint.tags # Metric[i].tags
      <3>1. lastPoint.fields[DeviceTs] \in took /\ lastPoint.tags = Metric[lastPoint.fields[DeviceTs]].tags
        BY <1>1, <1>5, <2>1
      <3> QED BY <2>2, <3>1 DEF AllMerge
    <2>3. CASE Metric[i].fields \cap DOMAIN lastPoint.fields # {}
      <3>1. PICK f \in Metric[i].fields : f \in DOMAIN lastPoint.fields
        BY <2>3
      <3>2. f # DeviceTs
        BY AccumulatorAssumption
      <3>3. lastPoint.fields[f] \in took /\ f \in Metric[lastPoint.fields[f]].fields
        BY <1>1, <1>5, <2>1, <3>1, <3>2
      <3> QED BY <3>1, <3>3 DEF AllMerge
    <2> QED BY <2>2, <2>3 DEF CanMerge
  <1>10. OneWhileAllMerge'
    <2>1. points' # <<>>
      BY <1>1
    <2>2. (AllMerge(took))' <=> AllMerge(took')
      BY DEF AllMerge
    <2> QED BY <1>9, <2>1, <2>2 DEF OneWhileAllMerge
  <1> QED BY <1>3, <1>7, <1>8, <1>10

LEMMA MergeTake ==
  ASSUME MergeInv, AccTake
  PROVE  MergeInv'
  <1> DEFINE i == Head(accCh)
  <1>1. UNCHANGED <<accSent, ticks>>
    BY DEF AccTake
  <1>2. /\ i \in Metrics /\ i \in accSent /\ i \notin took /\ acc' # "ticker"
        /\ accCh' \in Seq(Metrics) /\ accN' \in Nat /\ acc' \in {"take", "write"}
    BY AccHead
  <1>3. MergingKeepsFields'
    BY <1>1 DEF MergeInv, MergingKeepsFields, AllMerge
  <1>4. CASE ~Metric[i].valid
    <2>1. UNCHANGED <<took, lastPoint, points>>
      BY <1>4 DEF AccTake
    <2>2. AccTypes'
      BY <1>1, <1>2, <2>1 DEF MergeInv, AccTypes
    <2>3. ChannelIsNew'
      BY <1>1, <2>1, AccHead DEF ChannelIsNew
    <2>4. TickStartsEmpty'
      BY <1>2, <2>1 DEF MergeInv, TickStartsEmpty
    <2> QED BY <1>1, <2>1, <2>2, <2>3, <2>4, SameMerge DEF MergeInv
  <1>5. CASE Metric[i].valid
    <2>1. took' = took \cup {i}
      BY <1>5 DEF AccTake
    <2>2. \/ CanMerge(i) /\ TakeMerges(i)
          \/ TakeFirst(i)
          \/ ~CanMerge(i) /\ TakeNew(i)
      BY <1>5 DEF AccTake, CanMerge, TakeMerges, TakeFirst, TakeNew, Held
    <2>3. AccTypes'
      <3>1. lastPoint' \in AccPoint
        BY <1>2, <2>2, MergedIs, NewPointIs DEF MergeInv, TakeMerges, TakeFirst, TakeNew
      <3>2. points' \in Seq(AccPoint)
        BY <2>2, HeldPlaces DEF MergeInv, AccTypes, TakeMerges, TakeFirst, TakeNew
      <3> QED BY <1>1, <1>2, <2>1, <3>1, <3>2 DEF MergeInv, AccTypes
    <2>4. ChannelIsNew'
      BY <1>1, <2>1, AccHead DEF ChannelIsNew
    <2> HIDE DEF i
    <2>5. (HeldIsTaken /\ TakenIsHeld /\ OneWhileAllMerge /\ DeviceTs \in DOMAIN lastPoint.fields)'
      BY <1>2, <2>1, <2>2, <2>3, TakeMergesStep, TakeFirstStep, TakeNewStep
    <2>6. TickStartsEmpty'
      <3>1. lastPoint' # NoPoint
        BY <2>5, NoPointIsPoint
      <3> QED BY <1>2, <2>1, <2>5, <3>1 DEF TickStartsEmpty
    <2> QED BY <1>3, <2>3, <2>4, <2>5, <2>6 DEF MergeInv
  <1> QED BY <1>4, <1>5

(* Every field of every valid metric of a tick is in exactly one point the tick writes,
   with the metric's tags, unless the whole tick made one point, and then nothing is
   written (influx.go:86-187): for any metrics, channel capacity and any interleaving
   of the paths' goroutines with the ticks. *)
THEOREM MergingLosesNothingElse == AccSpec => []MergingKeepsFields
  <1>1. MergeInv /\ [AccNext]_accVars => MergeInv'
    BY MergeSend, MergeTick, MergeTake, MergeWrite DEF AccNext
  <1>2. MergeInv => MergingKeepsFields
    BY DEF MergeInv
  <1> QED BY <1>1, <1>2, MergeInit, PTL DEF AccSpec

=============================================================================

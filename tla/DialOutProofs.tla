--------------------------- MODULE DialOutProofs ---------------------------
(***************************************************************************)
(* Theorems about the dial-out server: its types, for any number of streams  *)
(* open at a time, and, for one stream at a time, how far a stream may lag    *)
(* behind the topic, for every number of streams, every topic and every       *)
(* capacity of cfgChannel.                                                    *)
(***************************************************************************)
EXTENDS DialOut, FiniteSetTheorems, WellFoundedInduction, SequenceTheorems, TLAPS

-----------------------------------------------------------------------------
(* Maxima: a non-empty finite set of numbers has a largest one, because among the
   sets of the members not below one of its members there is a smallest. *)
LEMMA LargestExists ==
  ASSUME NEW n \in Nat, NEW S \in SUBSET (0 .. n), S # {}
  PROVE  \E x \in S : \A y \in S : x >= y
  <1> DEFINE Above(x) == {y \in S : y >= x}
             T == {Above(x) : x \in S}
  <1>1. IsFiniteSet(S)
    <2>1. IsFiniteSet(0 .. n)
      BY FS_Interval
    <2> QED BY <2>1, FS_Subset
  <1>2. IsWellFoundedOn(StrictSubsetOrdering(S), SUBSET S)
    BY <1>1, FS_StrictSubsetOrderingWellFounded, FS_FiniteSubsetsOfFinite
  <1>3. T \subseteq SUBSET S /\ T # {}
    OBVIOUS
  <1> HIDE DEF T
  <1>4. \E A \in T : \A B \in T : ~ (<<B, A>> \in StrictSubsetOrdering(S))
    BY <1>2, <1>3, WFMin
  <1>5. PICK A \in T : \A B \in T : ~ (<<B, A>> \in StrictSubsetOrdering(S))
    BY <1>4
  <1>6. PICK x \in S : A = Above(x)
    BY DEF T
  <1>7. SUFFICES ASSUME NEW y \in S, ~(x >= y) PROVE FALSE
    OBVIOUS
  <1>8. x \in Int /\ y \in Int /\ y > x
    BY <1>7
  <1>9. Above(y) \subseteq Above(x) /\ Above(y) # Above(x)
    <2>1. \A z \in S : z \in Int /\ (z >= y => z >= x)
      BY <1>8
    <2>3. Above(y) \subseteq Above(x)
      BY <2>1
    <2>2. x \in Above(x) /\ x \notin Above(y)
      BY <1>8
    <2> QED BY <2>2, <2>3
  <1>10. Above(y) \in T
    BY DEF T
  <1>11. <<Above(y), A>> \in StrictSubsetOrdering(S)
    BY <1>6, <1>9 DEF StrictSubsetOrdering
  <1> QED BY <1>5, <1>10, <1>11

LEMMA MaxIsLargest ==
  ASSUME NEW n \in Nat, NEW S \in SUBSET (0 .. n), S # {}
  PROVE  Max(S) \in S /\ \A y \in S : Max(S) >= y
  BY LargestExists DEF Max

(* m is the last configuration among the first n messages, or 0 *)
IsLatest(m, n) ==
    /\ m \in {0} \cup {k \in 1 .. n : Kind[k] = "config"}
    /\ \A k \in 1 .. n : Kind[k] = "config" => k <= m

LEMMA LatestIsLatest ==
  ASSUME NEW n \in Int, n >= -1
  PROVE  Latest(n) \in Int /\ IsLatest(Latest(n), n)
  <1> DEFINE S == {0} \cup {k \in 1 .. n : Kind[k] = "config"}
  <1>1. S \in SUBSET (0 .. n + 1) /\ S # {} /\ n + 1 \in Nat
    OBVIOUS
  <1>2. /\ \A k \in 1 .. n : Kind[k] = "config" => k \in S
        /\ \A k \in S : k \in Int
    OBVIOUS
  <1>3. Latest(n) = Max(S)
    BY DEF Latest
  <1> HIDE DEF S
  <1>4. Max(S) \in S /\ \A y \in S : Max(S) >= y
    BY <1>1, MaxIsLargest
  <1>5. Max(S) \in Int
    BY <1>2, <1>4
  <1>6. \A k \in 1 .. n : Kind[k] = "config" => k <= Max(S)
    BY <1>2, <1>4, <1>5
  <1>7. Max(S) \in {0} \cup {k \in 1 .. n : Kind[k] = "config"}
    BY <1>4 DEF S
  <1> QED BY <1>3, <1>5, <1>6, <1>7 DEF IsLatest

(* What the next message changes *)
LEMMA LatestSteps ==
  ASSUME NEW n \in Nat
  PROVE  /\ Kind[n + 1] # "config" => Latest(n + 1) = Latest(n)
         /\ Kind[n + 1] = "config" => Latest(n + 1) = n + 1
  <1>1. /\ Latest(n) \in Int /\ IsLatest(Latest(n), n)
        /\ Latest(n + 1) \in Int /\ IsLatest(Latest(n + 1), n + 1)
    BY LatestIsLatest
  <1>2. ASSUME NEW a \in Int, NEW b \in Int, IsLatest(a, n), IsLatest(b, n + 1)
        PROVE  /\ Kind[n + 1] # "config" => b = a
               /\ Kind[n + 1] = "config" => b = n + 1
    BY <1>2 DEF IsLatest
  <1> QED BY <1>1, <1>2

LEMMA LatestOfNone == Latest(0) = 0
  <1>1. Latest(0) \in Int /\ IsLatest(Latest(0), 0)
    BY LatestIsLatest
  <1> QED BY <1>1 DEF IsLatest

-----------------------------------------------------------------------------
(* Types *)

WithRpc == {"length", "config", "drain", "first", "select", "recv", "send", "set"}
WithMessage == {"lookup", "store", "send", "set"}

(* An actor has an rpc from the time it has stored or found one. *)
RpcIsHeld == \A a \in Actors : pc[a] \in WithRpc => rpc[a] \in Objects

(* The consumer has a message wherever it is not waiting for one, and its own states. *)
ConsumerHasMessage ==
    /\ pc[Consumer] \in ConsumerStates
    /\ pc[Consumer] \in WithMessage => cfg[Consumer] \in Messages

TypeInv == TypeOK /\ RpcIsHeld /\ ConsumerHasMessage

LEMMA ConstantTypes ==
  /\ Consumer \in Actors /\ Streams \subseteq Actors
  /\ \A s \in Streams : s # Consumer
  /\ Cardinality(Actors) \in Nat /\ Cardinality(Actors) >= 1
  /\ Len(Kind) \in Nat /\ Messages \subseteq Nat /\ 0 \notin Messages
  <1> USE DialOutAssumption DEF Actors
  <1>1. IsFiniteSet(Streams)
    OBVIOUS
  <1>2. Cardinality(Streams) \in Nat
    BY <1>1, FS_CardinalityType
  <1>3. Cardinality(Actors) = Cardinality(Streams) + 1
    BY <1>1, FS_AddElement
  <1>4. Len(Kind) \in Nat
    OBVIOUS
  <1> QED BY <1>2, <1>3, <1>4 DEF Messages

LEMMA ObjectTypes ==
  /\ None \notin Objects
  /\ \A x \in Objects : x \in Nat /\ x >= 1
  /\ \A x \in Int, y \in Objects : x >= 1 /\ x <= y => x \in Objects
  <1>1. Cardinality(Actors) \in Nat
    BY ConstantTypes
  <1> QED BY <1>1, DialOutAssumption DEF Objects

LEMMA MaxOfTwo ==
  ASSUME NEW n \in Nat
  PROVE  Max({n - 1, 0}) = IF n = 0 THEN 0 ELSE n - 1
  <1> DEFINE m == IF n = 0 THEN 0 ELSE n - 1
             S == {n - 1, 0}
  <1>1. m \in S /\ \A y \in S : m >= y
    OBVIOUS
  <1>2. \A x \in S : (\A y \in S : x >= y) => x = m
    OBVIOUS
  <1> HIDE DEF m, S
  <1>3. Max(S) = m
    BY <1>1, <1>2 DEF Max
  <1> QED BY <1>3 DEF m, S

LEMMA TypeInit == Init => TypeInv
  <1> USE ConstantTypes, DialOutAssumption
  <1> SUFFICES ASSUME Init PROVE TypeInv
    OBVIOUS
  <1>3. cfgChannel \in [Objects -> Seq(Messages)] /\ \A r \in Objects : Len(cfgChannel[r]) <= ChanCap
    BY DEF Init
  <1>4. left \in [Actors -> 0 .. ChanCap] /\ published \in 0 .. Len(Kind) /\ pos \in 0 .. published
    BY DEF Init
  <1>5. pc \in [Actors -> HandlerStates \cup ConsumerStates]
    BY DEF Init, HandlerStates, ConsumerStates
  <1>6. /\ rpcs \in [Objects -> [Slots -> Objects \cup {None}]]
        /\ idSpace \in [Objects -> SUBSET Slots]
        /\ config \in [Objects -> {0} \cup Messages]
        /\ dev \in [Actors -> Objects \cup {None}] /\ rpc \in [Actors -> Objects \cup {None}]
        /\ cfg \in [Actors -> {0} \cup Messages]
    BY DEF Init
  <1>7. /\ devices \in Objects \cup {None} /\ made \in {0} \cup Objects
        /\ raced \subseteq Streams /\ crashed \in BOOLEAN
    BY DEF Init
  <1>8. replays \in 0 .. MaxReplays
    BY DEF Init
  <1>1. TypeOK
    BY <1>3, <1>4, <1>5, <1>6, <1>7, <1>8 DEF TypeOK
  <1>2. RpcIsHeld /\ ConsumerHasMessage
    BY DEF Init, RpcIsHeld, ConsumerHasMessage, WithRpc, WithMessage, ConsumerStates
  <1> QED BY <1>1, <1>2 DEF TypeInv

LEMMA LookupType ==
  ASSUME TypeInv, NEW a \in Actors, Lookup(a)
  PROVE  TypeInv'
  BY ConstantTypes
  DEF TypeInv, TypeOK, RpcIsHeld, ConsumerHasMessage, WithRpc, WithMessage, HandlerStates,
      ConsumerStates, Lookup, Goto, topicVars, deviceVars, rpcVars

LEMMA StoreType ==
  ASSUME TypeInv, NEW a \in Actors, Store(a)
  PROVE  TypeInv'
  <1> DEFINE newD == dev[a] = None
             d    == IF newD THEN made + 1 ELSE dev[a]
             m    == IF newD THEN made + 1 ELSE made
             newR == rpcs[d][0] = None
             r    == IF newR THEN m + 1 ELSE rpcs[d][0]
  <1>1. /\ pc[a] = "store" /\ d \in Objects /\ r \in Objects
        /\ made' = IF newR THEN m + 1 ELSE m
        /\ idSpace' = [idSpace EXCEPT ![d] = @ \cup {0}]
        /\ rpcs' = [rpcs EXCEPT ![d][0] = r]
        /\ devices' = d
        /\ dev' = [dev EXCEPT ![a] = d]
        /\ rpc' = [rpc EXCEPT ![a] = r]
        /\ pc' = [pc EXCEPT ![a] = IF a = Consumer THEN "send" ELSE "length"]
        /\ UNCHANGED <<topicVars, rpcVars, cfg, left, raced, crashed>>
    BY DEF Store, Goto, getUnusedRpcId
  <1>2. made' \in {0} \cup Objects
    BY <1>1 DEF TypeInv, TypeOK
  <1> HIDE DEF d, m, newR, r, newD
  <1>3. /\ rpcs' \in [Objects -> [Slots -> Objects \cup {None}]]
        /\ idSpace' \in [Objects -> SUBSET Slots]
        /\ dev' \in [Actors -> Objects \cup {None}] /\ rpc' \in [Actors -> Objects \cup {None}]
        /\ pc' \in [Actors -> HandlerStates \cup ConsumerStates]
    BY <1>1 DEF TypeInv, TypeOK, Slots, HandlerStates, ConsumerStates
  <1>4. TypeOK'
    BY <1>1, <1>2, <1>3 DEF TypeInv, TypeOK, topicVars, rpcVars
  <1>5. RpcIsHeld' /\ ConsumerHasMessage'
    BY <1>1, ConstantTypes
    DEF TypeInv, TypeOK, RpcIsHeld, ConsumerHasMessage, WithRpc, WithMessage, ConsumerStates
  <1> QED BY <1>4, <1>5 DEF TypeInv

LEMMA ConsumerType ==
  ASSUME TypeInv, Publish \/ Consume \/ SendConfig \/ SetConfig \/ Replay
  PROVE  TypeInv'
  <1> USE ConstantTypes
  <1>1. CASE Publish
    BY <1>1 DEF TypeInv, TypeOK, RpcIsHeld, ConsumerHasMessage, Publish, deviceVars, rpcVars, actorVars
  <1>2. CASE Replay
    BY <1>2, DialOutAssumption DEF TypeInv, TypeOK, RpcIsHeld, ConsumerHasMessage, Replay, deviceVars, rpcVars, actorVars
  <1>3. CASE SetConfig
    BY <1>3
    DEF TypeInv, TypeOK, RpcIsHeld, ConsumerHasMessage, SetConfig, Goto, WithRpc, WithMessage,
        HandlerStates, ConsumerStates, topicVars, deviceVars
  <1>4. CASE SendConfig
    <2>1. rpc[Consumer] \in Objects /\ cfg[Consumer] \in Messages
      BY <1>4 DEF TypeInv, RpcIsHeld, ConsumerHasMessage, SendConfig, WithRpc, WithMessage
    <2>2. /\ Append(cfgChannel[rpc[Consumer]], cfg[Consumer]) \in Seq(Messages)
          /\ Len(Append(cfgChannel[rpc[Consumer]], cfg[Consumer])) <= ChanCap
      BY <1>4, <2>1, DialOutAssumption DEF TypeInv, TypeOK, SendConfig
    <2>3. cfgChannel' \in [Objects -> Seq(Messages)] /\ \A r \in Objects : Len(cfgChannel'[r]) <= ChanCap
      BY <1>4, <2>1, <2>2 DEF TypeInv, TypeOK, SendConfig
    <2>4. TypeOK'
      BY <1>4, <2>3 DEF TypeInv, TypeOK, SendConfig, Goto, HandlerStates, ConsumerStates, topicVars, deviceVars
    <2> QED
      BY <1>4, <2>4
      DEF TypeInv, TypeOK, RpcIsHeld, ConsumerHasMessage, SendConfig, Goto, WithRpc, WithMessage, ConsumerStates
  <1>5. CASE Consume
    <2>1. pos + 1 \in Messages /\ pos' \in 0 .. published
      BY <1>5 DEF TypeInv, TypeOK, Consume, Messages
    <2>2. CASE Kind[pos + 1] = "config"
      <3>1. /\ cfg' \in [Actors -> {0} \cup Messages] /\ cfg'[Consumer] = pos + 1
            /\ dev' \in [Actors -> Objects \cup {None}]
            /\ crashed' \in BOOLEAN
        BY <1>5, <2>1, <2>2 DEF TypeInv, TypeOK, Consume
      <3>2. /\ pc' \in [Actors -> HandlerStates \cup ConsumerStates]
            /\ \A a \in Actors : a # Consumer => pc'[a] = pc[a]
            /\ pc'[Consumer] \in {"lookup", "send"}
        BY <1>5, <2>2 DEF TypeInv, TypeOK, Consume, Goto, HandlerStates, ConsumerStates
      <3>3. /\ rpc' \in [Actors -> Objects \cup {None}]
            /\ \A a \in Actors : a # Consumer => rpc'[a] = rpc[a]
            /\ pc'[Consumer] = "send" => rpc'[Consumer] \in Objects
        <4>1. CASE devices = None \/ rpcs[devices][0] = None
          BY <1>5, <2>2, <4>1 DEF TypeInv, TypeOK, Consume, Goto, getUnusedRpcId
        <4>2. CASE ~(devices = None \/ rpcs[devices][0] = None)
          <5>1. rpcs[devices][0] \in Objects
            BY <4>2 DEF TypeInv, TypeOK, Slots
          <5>2. rpc' = [rpc EXCEPT ![Consumer] = rpcs[devices][0]]
            BY <1>5, <2>2, <4>2 DEF Consume, getUnusedRpcId
          <5> QED BY <5>1, <5>2 DEF TypeInv, TypeOK
        <4> QED BY <4>1, <4>2
      <3>4. UNCHANGED <<published, replays, deviceVars, rpcVars, left, raced>>
        BY <1>5 DEF Consume
      <3>5. TypeOK'
        BY <2>1, <3>1, <3>2, <3>3, <3>4 DEF TypeInv, TypeOK, deviceVars, rpcVars
      <3>6. RpcIsHeld' /\ ConsumerHasMessage'
        BY <2>1, <3>1, <3>2, <3>3 DEF TypeInv, RpcIsHeld, ConsumerHasMessage, WithRpc, ConsumerStates
      <3> QED BY <3>5, <3>6 DEF TypeInv
    <2>3. CASE Kind[pos + 1] # "config"
      BY <1>5, <2>1, <2>3
      DEF TypeInv, TypeOK, RpcIsHeld, ConsumerHasMessage, Consume, deviceVars, rpcVars
    <2> QED BY <2>2, <2>3
  <1> QED BY <1>1, <1>2, <1>3, <1>4, <1>5

LEMMA HandlerType ==
  ASSUME TypeInv, NEW s \in Streams,
         Dial(s) \/ ReadLength(s) \/ ReadConfig(s) \/ Drain(s) \/ FirstRecv(s)
         \/ ConfigChanged(s) \/ Receive(s) \/ Response(s)
  PROVE  TypeInv'
  <1> USE ConstantTypes
  <1>1. CASE Dial(s) \/ FirstRecv(s) \/ Receive(s) \/ Response(s)
    BY <1>1
    DEF TypeInv, TypeOK, RpcIsHeld, ConsumerHasMessage, Dial, FirstRecv, Receive, Response, Goto, WithRpc,
        HandlerStates, ConsumerStates, topicVars, deviceVars, rpcVars
  <1>2. CASE ReadLength(s)
    <2>1. rpc[s] \in Objects
      BY <1>2 DEF TypeInv, RpcIsHeld, ReadLength, WithRpc
    <2> DEFINE n == Len(cfgChannel[rpc[s]])
    <2>2. n \in Nat /\ n <= ChanCap
      BY <2>1 DEF TypeInv, TypeOK
    <2>3. Max({n - 1, 0}) \in 0 .. ChanCap
      <3> HIDE DEF n
      <3>1. Max({n - 1, 0}) = IF n = 0 THEN 0 ELSE n - 1
        BY <2>2, MaxOfTwo
      <3> QED BY <2>2, <3>1, DialOutAssumption
    <2>4. left' \in [Actors -> 0 .. ChanCap] /\ pc' = [pc EXCEPT ![s] = IF n = 0 THEN "config" ELSE "drain"]
      BY <1>2, <2>3 DEF TypeInv, TypeOK, ReadLength, Goto
    <2> HIDE DEF n
    <2>5. pc' \in [Actors -> HandlerStates \cup ConsumerStates]
      BY <2>4 DEF TypeInv, TypeOK, HandlerStates
    <2> QED
      BY <1>2, <2>1, <2>4, <2>5
      DEF TypeInv, TypeOK, RpcIsHeld, ConsumerHasMessage, ReadLength, WithRpc, topicVars, deviceVars, rpcVars
  <1>3. CASE ReadConfig(s)
    <2>1. rpc[s] \in Objects
      BY <1>3 DEF TypeInv, RpcIsHeld, ReadConfig, WithRpc
    <2>2. /\ cfg' \in [Actors -> {0} \cup Messages] /\ cfg'[Consumer] = cfg[Consumer]
          /\ raced' \subseteq Streams
      BY <1>3, <2>1 DEF TypeInv, TypeOK, ReadConfig
    <2>3. \E to \in {"first", "drain"} : pc' = [pc EXCEPT ![s] = to]
      BY <1>3 DEF ReadConfig, Goto
    <2>4. UNCHANGED <<topicVars, deviceVars, rpcVars, dev, rpc, left, crashed>>
      BY <1>3 DEF ReadConfig
    <2>5. TypeOK'
      BY <2>2, <2>3, <2>4 DEF TypeInv, TypeOK, HandlerStates, topicVars, deviceVars, rpcVars
    <2> QED BY <2>1, <2>2, <2>3, <2>4, <2>5 DEF TypeInv, TypeOK, RpcIsHeld, ConsumerHasMessage, WithRpc
  <1>4. CASE Drain(s) \/ ConfigChanged(s)
    <2>1. rpc[s] \in Objects /\ cfgChannel[rpc[s]] # <<>>
      BY <1>4 DEF TypeInv, RpcIsHeld, Drain, ConfigChanged, WithRpc
    <2> DEFINE q == cfgChannel[rpc[s]]
    <2>2. Head(q) \in Messages /\ Tail(q) \in Seq(Messages) /\ Len(Tail(q)) <= ChanCap
      <3>1. q \in Seq(Messages) /\ q # <<>> /\ Len(q) <= ChanCap /\ Len(q) \in Nat
        BY <2>1 DEF TypeInv, TypeOK
      <3>2. Len(Tail(q)) = Len(q) - 1 /\ Head(q) \in Messages /\ Tail(q) \in Seq(Messages)
        BY <3>1, HeadTailProperties
      <3> QED BY <3>1, <3>2, DialOutAssumption
    <2>3. cfgChannel' \in [Objects -> Seq(Messages)] /\ \A r \in Objects : Len(cfgChannel'[r]) <= ChanCap
      <3>1. cfgChannel' = [cfgChannel EXCEPT ![rpc[s]] = Tail(q)]
        BY <1>4, <2>1 DEF TypeInv, TypeOK, Drain, ConfigChanged
      <3> HIDE DEF q
      <3> QED BY <2>2, <3>1 DEF TypeInv, TypeOK
    <2> HIDE DEF q
    <2>4. CASE Drain(s)
      <3>1. left' \in [Actors -> 0 .. ChanCap]
        BY <2>4, DialOutAssumption DEF TypeInv, TypeOK, Drain
      <3>2. cfg' \in [Actors -> {0} \cup Messages] /\ cfg'[Consumer] = cfg[Consumer]
        BY <2>2, <2>4 DEF TypeInv, TypeOK, Drain, q
      <3>3. pc' \in [Actors -> HandlerStates \cup ConsumerStates] /\ \A a \in Actors : pc'[a] = pc[a] \/ (a = s /\ pc'[a] = "first")
        BY <2>4 DEF TypeInv, TypeOK, Drain, Goto, HandlerStates
      <3>4. UNCHANGED <<topicVars, deviceVars, config, dev, rpc, raced, crashed>>
        BY <2>4 DEF Drain
      <3>5. TypeOK'
        BY <2>3, <3>1, <3>2, <3>3, <3>4 DEF TypeInv, TypeOK, topicVars, deviceVars
      <3>6. RpcIsHeld' /\ ConsumerHasMessage'
        BY <2>1, <3>2, <3>3, <3>4 DEF TypeInv, RpcIsHeld, ConsumerHasMessage, WithRpc
      <3> QED BY <3>5, <3>6 DEF TypeInv
    <2>5. CASE ConfigChanged(s)
      <3>1. /\ rpcs' \in [Objects -> [Slots -> Objects \cup {None}]]
            /\ idSpace' \in [Objects -> SUBSET Slots]
        <4> DEFINE d == CHOOSE x \in Objects : rpcs[x][0] = rpc[s]
        <4>1. /\ idSpace' = [idSpace EXCEPT ![d] = @ \ {1}]
              /\ rpcs' = [rpcs EXCEPT ![d][1] = None]
          BY <2>5 DEF ConfigChanged, removeRpcFromDevice, getUnusedRpcId
        <4> HIDE DEF d
        <4> QED BY <4>1 DEF TypeInv, TypeOK, Slots
      <3>2. cfg' \in [Actors -> {0} \cup Messages] /\ cfg'[Consumer] = cfg[Consumer]
        BY <2>2, <2>5 DEF TypeInv, TypeOK, ConfigChanged, q
      <3>3. pc' = [pc EXCEPT ![s] = "ended"] /\ UNCHANGED <<topicVars, devices, made, config, dev, rpc, left, raced, crashed>>
        BY <2>5 DEF ConfigChanged, Goto
      <3>4. TypeOK'
        BY <2>3, <3>1, <3>2, <3>3 DEF TypeInv, TypeOK, HandlerStates, topicVars
      <3>5. RpcIsHeld' /\ ConsumerHasMessage'
        BY <3>2, <3>3 DEF TypeInv, TypeOK, RpcIsHeld, ConsumerHasMessage, WithRpc
      <3> QED BY <3>4, <3>5 DEF TypeInv
    <2> QED BY <1>4, <2>4, <2>5
  <1> QED BY <1>1, <1>2, <1>3, <1>4

LEMMA TypeStep == TypeInv /\ [Next]_vars => TypeInv'
  <1> SUFFICES ASSUME TypeInv, [Next]_vars PROVE TypeInv'
    OBVIOUS
  <1> USE ConstantTypes
  <1>1. CASE Publish \/ Replay \/ Consume \/ SendConfig \/ SetConfig
    BY <1>1, ConsumerType
  <1>2. ASSUME NEW a \in Actors, Lookup(a) \/ Store(a) PROVE TypeInv'
    BY <1>2, LookupType, StoreType
  <1>3. CASE MapRace
    BY <1>3
    DEF MapRace, TypeInv, TypeOK, RpcIsHeld, ConsumerHasMessage, topicVars, deviceVars, rpcVars, actorVars
  <1>4. ASSUME NEW s \in Streams,
               Dial(s) \/ ReadLength(s) \/ ReadConfig(s) \/ Drain(s) \/ FirstRecv(s)
               \/ ConfigChanged(s) \/ Receive(s) \/ Response(s)
        PROVE  TypeInv'
    BY <1>4, HandlerType
  <1>5. CASE UNCHANGED vars
    BY <1>5 DEF vars, TypeInv, TypeOK, RpcIsHeld, ConsumerHasMessage, topicVars, deviceVars, rpcVars, actorVars
  <1> QED BY <1>1, <1>2, <1>3, <1>4, <1>5 DEF Next, ConsumerStep, HandlerStep

(* Types of the dial-out server, for every number of streams open at a time: every
   handler and the consumer send on, read and drain the channel of an rpc that exists,
   cfgChannel never holds more than its capacity, and what a handler has still to
   drain, length - 1, is never negative (dialout.go:213-233). *)
THEOREM TypeCorrect == Spec => []TypeOK
  <1>1. TypeInv => TypeOK
    BY DEF TypeInv
  <1> QED BY <1>1, TypeInit, TypeStep, PTL DEF Spec

-----------------------------------------------------------------------------
(* One stream at a time: how far it lags *)

OneOpen == \A s, t \in Open : s = t

(* The rpc every new stream and the consumer find *)
Current == rpcs[devices][0]

(* Nothing was ever sent to or stored in r. *)
Unused(r) == config[r] = 0 /\ cfgChannel[r] = <<>>

(* Objects are numbered as they are made, and those of the future are unused. *)
Numbered ==
    /\ \A d \in Objects : rpcs[d][0] # None => d <= made /\ rpcs[d][0] <= made
    /\ \A a \in Actors : rpc[a] # None => rpc[a] <= made
    /\ \A r \in Objects : r > made => Unused(r)
    /\ devices # None => Current # None

(* Until the consumer has stored or found a device, nothing was sent and no handler
   has got beyond waiting for its configuration. *)
NothingSentYet ==
    pc[Consumer] \in {"lookup", "store"} \/ devices = None =>
        /\ \A r \in Objects : Unused(r)
        /\ \A s \in Streams : pc[s] \in {"off", "lookup", "store", "length", "config", "drain"}

NoDeviceYet ==
    devices = None =>
        /\ pc[Consumer] \in {"range", "lookup", "store"} /\ dev[Consumer] = None
        /\ \A s \in Streams : pc[s] \in {"off", "lookup", "store"} /\ dev[s] = None

(* If a handler stored a device before the consumer could, it is waiting still: nobody
   else can find out that there was none. *)
FirstStreamWaits ==
    pc[Consumer] \in {"lookup", "store"} /\ devices # None =>
        \E s \in Streams : pc[s] \in {"length", "config", "drain"}

(* createOrUpdateDeviceWithNewRpc goes on with the device of s.devices, or it found none. *)
FoundIsCurrent ==
    \A a \in Actors : pc[a] = "store" /\ dev[a] # None => dev[a] = devices

(* A handler has the current rpc, or one that the consumer's store of another device has
   made unreachable: then it waits for ever. *)
Orphan(s) ==
    Unused(rpc[s]) /\ rpc[s] # rpc[Consumer] /\ pc[s] \in {"length", "config", "drain"}
HandlerHasCurrent ==
    \A s \in Streams : pc[s] \in WithRpc => rpc[s] = Current \/ Orphan(s)

(* The consumer sends to the current rpc, or a handler's store has just made that one. *)
ConsumerHasCurrent ==
    pc[Consumer] \in {"send", "set"} => rpc[Consumer] = Current \/ Unused(Current)

(* The consumer holds the message at its position. *)
MessageIsAtPos ==
    pc[Consumer] \in WithMessage => pos >= 1 /\ cfg[Consumer] = pos /\ Kind[pos] = "config"

IsConfig(k) == k \in 1 .. published /\ Kind[k] = "config"

(* rpc.config is the last configuration before the consumer's position, unless there is
   none there since the topic is replayed. *)
Stored == IF pc[Consumer] = "range" THEN pos ELSE pos - 1
ConfigIsLatest ==
    devices # None /\ config[Current] # 0 =>
        /\ IsConfig(config[Current])
        /\ Latest(Stored) \in {0, config[Current]}

(* The last configuration sent to r *)
LastSent(r) ==
    IF pc[Consumer] = "set" /\ rpc[Consumer] = r THEN cfg[Consumer] ELSE config[r]

ChannelEndsInLast ==
    devices # None /\ cfgChannel[Current] # <<>> =>
        cfgChannel[Current][Len(cfgChannel[Current])] = LastSent(Current)

(* A handler that has its configuration, and nothing in the channel, runs with the last
   one sent, or read the one before it too early. *)
OneBefore(k, m) == IsConfig(k) /\ Latest(m - 1) \in {0, k}
StreamHasLast ==
    \A s \in Streams : pc[s] \in {"first", "select", "recv"} =>
        /\ cfg[s] # 0
        /\ cfgChannel[rpc[s]] = <<>> =>
              \/ cfg[s] = LastSent(rpc[s])
              \/ s \in raced /\ LastSent(rpc[s]) # 0 /\ OneBefore(cfg[s], LastSent(rpc[s]))

LagInv ==
    /\ OneOpen /\ Numbered /\ NothingSentYet /\ NoDeviceYet /\ FirstStreamWaits /\ FoundIsCurrent
    /\ HandlerHasCurrent /\ ConsumerHasCurrent /\ MessageIsAtPos
    /\ ConfigIsLatest /\ ChannelEndsInLast /\ StreamHasLast

LEMMA LagInit == Init => LagInv
  <1> SUFFICES ASSUME Init PROVE LagInv
    OBVIOUS
  <1> USE ConstantTypes
  <1>1. OneOpen /\ NoDeviceYet /\ NothingSentYet /\ FirstStreamWaits /\ FoundIsCurrent
    BY DEF Init, OneOpen, Open, NoDeviceYet, NothingSentYet, Unused, FirstStreamWaits, FoundIsCurrent
  <1>2. Numbered
    BY DEF Init, Numbered, Unused, Slots
  <1>3. HandlerHasCurrent /\ ConsumerHasCurrent /\ MessageIsAtPos
    BY DEF Init, HandlerHasCurrent, ConsumerHasCurrent, MessageIsAtPos, WithRpc, WithMessage
  <1>4. ConfigIsLatest /\ ChannelEndsInLast /\ StreamHasLast
    BY DEF Init, ConfigIsLatest, ChannelEndsInLast, StreamHasLast
  <1> QED BY <1>1, <1>2, <1>3, <1>4 DEF LagInv

(* What the steps of a handler leave alone, but for the channel *)
SharedSame ==
    /\ UNCHANGED <<published, pos, devices, made, config, rpc>>
    /\ \A d \in Objects : rpcs'[d][0] = rpcs[d][0]
    /\ pc'[Consumer] = pc[Consumer] /\ cfg'[Consumer] = cfg[Consumer]

LEMMA CurrentSame ==
  ASSUME TypeInv, SharedSame, devices # None
  PROVE  Current' = Current /\ Current \in Objects \cup {None}
  BY DEF TypeInv, TypeOK, SharedSame, Current, Slots

LEMMA HandlerKeepsShared ==
  ASSUME TypeInv, LagInv, SharedSame, UNCHANGED cfgChannel
  PROVE  /\ Numbered' /\ ConsumerHasCurrent' /\ MessageIsAtPos'
         /\ ConfigIsLatest' /\ ChannelEndsInLast'
  <1>1. devices # None => Current' = Current
    BY CurrentSame
  <1>2. Numbered'
    BY <1>1 DEF LagInv, Numbered, Unused, SharedSame
  <1>3. ConsumerHasCurrent' /\ MessageIsAtPos'
    <2>1. pc[Consumer] \in {"send", "set"} => devices # None
      BY DEF LagInv, NoDeviceYet
    <2> QED BY <1>1, <2>1 DEF LagInv, ConsumerHasCurrent, MessageIsAtPos, Unused, SharedSame
  <1>4. ConfigIsLatest'
    <2>1. Latest(Stored)' = Latest(Stored)
      BY DEF Stored, Latest, SharedSame
    <2> QED BY <1>1, <2>1 DEF LagInv, ConfigIsLatest, IsConfig, SharedSame
  <1>5. ChannelEndsInLast'
    BY <1>1 DEF LagInv, ChannelEndsInLast, LastSent, SharedSame
  <1> QED BY <1>2, <1>3, <1>4, <1>5

(* A handler s that goes on, with the rpc it has and without a new configuration *)
LEMMA HandlerGoesOn ==
  ASSUME TypeInv, LagInv, NEW s \in Streams,
         \/ ReadLength(s) \/ FirstRecv(s) \/ Receive(s) \/ Response(s)
  PROVE  LagInv'
  <1> USE ConstantTypes
  <1>1. SharedSame /\ UNCHANGED <<cfgChannel, cfg, dev, raced>>
    BY DEF SharedSame, ReadLength, FirstRecv, Receive, Response, Goto, topicVars, deviceVars, rpcVars, TypeInv, TypeOK
  <1>2. PICK to \in {"config", "drain", "select", "recv", "ended"} :
          /\ pc' = [pc EXCEPT ![s] = to]
          /\ to \in {"config", "drain"} => pc[s] = "length"
          /\ to \in {"select", "recv"} => pc[s] \in {"first", "select", "recv"}
          /\ to = "ended" => pc[s] \in {"first", "recv"}
          /\ pc[s] \in {"length", "first", "select", "recv"}
    BY DEF ReadLength, FirstRecv, Receive, Response, Goto
  <1>3. /\ Numbered' /\ ConsumerHasCurrent' /\ MessageIsAtPos'
        /\ ConfigIsLatest' /\ ChannelEndsInLast'
    BY <1>1, HandlerKeepsShared
  <1>4. pc \in [Actors -> HandlerStates \cup ConsumerStates]
    BY DEF TypeInv, TypeOK
  <1>5. devices # None => Current' = Current
    BY <1>1, CurrentSame
  <1>6. OneOpen' /\ NoDeviceYet' /\ FoundIsCurrent'
    BY <1>1, <1>2, <1>4 DEF LagInv, OneOpen, Open, NoDeviceYet, FoundIsCurrent, SharedSame
  <1>7. NothingSentYet' /\ FirstStreamWaits'
    BY <1>1, <1>2, <1>4 DEF LagInv, NothingSentYet, FirstStreamWaits, Unused, SharedSame
  <1>8. HandlerHasCurrent'
    BY <1>1, <1>2, <1>4, <1>5 DEF LagInv, HandlerHasCurrent, Orphan, Unused, NoDeviceYet, WithRpc, SharedSame
  <1>9. StreamHasLast'
    BY <1>1, <1>2, <1>4 DEF LagInv, StreamHasLast, LastSent, OneBefore, IsConfig, Latest, SharedSame
  <1> QED BY <1>3, <1>6, <1>7, <1>8, <1>9 DEF LagInv

(* A stream is opened when no other is. *)
LEMMA DialLag ==
  ASSUME MaxOpen = 1, TypeInv, LagInv, NEW s \in Streams, Dial(s)
  PROVE  LagInv'
  <1> USE ConstantTypes
  <1>1. SharedSame /\ UNCHANGED <<cfgChannel, cfg, dev, raced>>
    BY DEF SharedSame, Dial, Goto, topicVars, deviceVars, rpcVars, TypeInv, TypeOK
  <1>2. pc[s] = "off" /\ pc' = [pc EXCEPT ![s] = "lookup"]
    BY DEF Dial, Goto
  <1>3. /\ Numbered' /\ ConsumerHasCurrent' /\ MessageIsAtPos'
        /\ ConfigIsLatest' /\ ChannelEndsInLast'
    BY <1>1, HandlerKeepsShared
  <1>4. pc \in [Actors -> HandlerStates \cup ConsumerStates]
    BY DEF TypeInv, TypeOK
  <1>5. devices # None => Current' = Current
    BY <1>1, CurrentSame
  <1>6. Open = {}
    <2>1. IsFiniteSet(Open) /\ Cardinality(Open) \in Nat
      BY DialOutAssumption, FS_Subset, FS_CardinalityType DEF Open
    <2>2. Cardinality(Open) = 0
      BY <2>1 DEF Dial
    <2> QED BY <2>1, <2>2, FS_EmptySet
  <1>7. OneOpen'
    BY <1>2, <1>4, <1>6 DEF OneOpen, Open
  <1>8. NoDeviceYet' /\ FoundIsCurrent' /\ NothingSentYet' /\ FirstStreamWaits'
    BY <1>1, <1>2, <1>4
    DEF LagInv, NoDeviceYet, FoundIsCurrent, NothingSentYet, FirstStreamWaits, Unused, SharedSame
  <1>9. HandlerHasCurrent'
    BY <1>1, <1>2, <1>4, <1>5 DEF LagInv, HandlerHasCurrent, Orphan, Unused, NoDeviceYet, WithRpc, SharedSame
  <1>10. StreamHasLast'
    BY <1>1, <1>2, <1>4 DEF LagInv, StreamHasLast, LastSent, OneBefore, IsConfig, Latest, SharedSame
  <1> QED BY <1>3, <1>7, <1>8, <1>9, <1>10 DEF LagInv

LEMMA LookupLag ==
  ASSUME TypeInv, LagInv, NEW a \in Actors, Lookup(a)
  PROVE  LagInv'
  <1> USE ConstantTypes
  <1>1. /\ UNCHANGED <<published, pos, devices, made, config, rpc, rpcs, cfgChannel, cfg, raced>>
        /\ pc[a] = "lookup" /\ pc' = [pc EXCEPT ![a] = "store"]
        /\ dev' = [dev EXCEPT ![a] = devices]
    BY DEF Lookup, Goto, topicVars, deviceVars, rpcVars
  <1>2. pc \in [Actors -> HandlerStates \cup ConsumerStates] /\ dev \in [Actors -> Objects \cup {None}]
    BY DEF TypeInv, TypeOK
  <1>3. Current' = Current
    BY <1>1 DEF Current
  <1>4. Numbered' /\ ConsumerHasCurrent' /\ MessageIsAtPos'
    BY <1>1, <1>2, <1>3
    DEF LagInv, Numbered, ConsumerHasCurrent, MessageIsAtPos, Unused, WithMessage
  <1>5. ConfigIsLatest' /\ ChannelEndsInLast'
    <2>1. Latest(Stored)' = Latest(Stored)
      BY <1>1, <1>2 DEF Stored, Latest
    <2>2. LastSent(Current)' = LastSent(Current)
      BY <1>1, <1>2, <1>3 DEF LastSent
    <2> QED BY <1>1, <1>3, <2>1, <2>2 DEF LagInv, ConfigIsLatest, ChannelEndsInLast, IsConfig
  <1>6. OneOpen' /\ NoDeviceYet' /\ FoundIsCurrent'
    BY <1>1, <1>2 DEF LagInv, OneOpen, Open, NoDeviceYet, FoundIsCurrent
  <1>7. NothingSentYet' /\ FirstStreamWaits'
    BY <1>1, <1>2 DEF LagInv, NothingSentYet, FirstStreamWaits, Unused
  <1>8. HandlerHasCurrent'
    BY <1>1, <1>2, <1>3 DEF LagInv, HandlerHasCurrent, Orphan, Unused, WithRpc
  <1>9. StreamHasLast'
    <2>1. \A r : LastSent(r)' = LastSent(r)
      BY <1>1, <1>2 DEF LastSent
    <2> QED BY <1>1, <1>2, <2>1 DEF LagInv, StreamHasLast, OneBefore, IsConfig, Latest
  <1> QED BY <1>4, <1>5, <1>6, <1>7, <1>8, <1>9 DEF LagInv

(* A handler reads the current rpc.config while the consumer's store of the next is
   outstanding, or not. *)
LEMMA ReadConfigLag ==
  ASSUME TypeInv, LagInv, NEW s \in Streams, ReadConfig(s)
  PROVE  LagInv'
  <1> USE ConstantTypes
  <1>1. SharedSame /\ UNCHANGED <<cfgChannel, dev>> /\ pc[s] = "config"
    BY DEF SharedSame, ReadConfig, Goto, topicVars, deviceVars, rpcVars, TypeInv, TypeOK
  <1>2. \/ /\ config[rpc[s]] # 0 /\ cfg' = [cfg EXCEPT ![s] = config[rpc[s]]]
           /\ raced' = IF pc[Consumer] = "set" /\ rpc[Consumer] = rpc[s] THEN raced \cup {s} ELSE raced
           /\ pc' = [pc EXCEPT ![s] = "first"]
        \/ config[rpc[s]] = 0 /\ UNCHANGED <<cfg, raced>> /\ pc' = [pc EXCEPT ![s] = "drain"]
    BY DEF ReadConfig, Goto
  <1>3. /\ Numbered' /\ ConsumerHasCurrent' /\ MessageIsAtPos'
        /\ ConfigIsLatest' /\ ChannelEndsInLast'
    BY <1>1, HandlerKeepsShared
  <1>4. /\ pc \in [Actors -> HandlerStates \cup ConsumerStates]
        /\ cfg \in [Actors -> {0} \cup Messages]
        /\ rpc[s] \in Objects
    BY <1>1 DEF TypeInv, TypeOK, RpcIsHeld, WithRpc
  <1>5. devices # None /\ Current' = Current
    BY <1>1, CurrentSame DEF LagInv, NoDeviceYet
  <1>6. OneOpen' /\ NoDeviceYet' /\ FoundIsCurrent'
    BY <1>1, <1>2, <1>4 DEF LagInv, OneOpen, Open, NoDeviceYet, FoundIsCurrent, SharedSame
  <1>7. NothingSentYet' /\ FirstStreamWaits'
    BY <1>1, <1>2, <1>4 DEF LagInv, NothingSentYet, FirstStreamWaits, Unused, SharedSame
  <1>8. HandlerHasCurrent'
    BY <1>1, <1>2, <1>4, <1>5 DEF LagInv, HandlerHasCurrent, Orphan, Unused, WithRpc, SharedSame
  <1>9. StreamHasLast'
    <2>1. \A r : LastSent(r)' = LastSent(r)
      BY <1>1 DEF LastSent, SharedSame
    <2>2. \A k, m : OneBefore(k, m)' = OneBefore(k, m)
      BY <1>1 DEF OneBefore, IsConfig, Latest, SharedSame
    <2>3. ASSUME config[rpc[s]] # 0, pc[Consumer] = "set", rpc[Consumer] = rpc[s]
          PROVE  LastSent(rpc[s]) # 0 /\ OneBefore(config[rpc[s]], LastSent(rpc[s]))
      <3>1. rpc[s] = Current
        BY <1>1, <2>3 DEF LagInv, HandlerHasCurrent, Orphan, WithRpc
      <3>2. LastSent(rpc[s]) = pos /\ pos >= 1 /\ Stored = pos - 1
        BY <2>3 DEF LastSent, LagInv, MessageIsAtPos, WithMessage, Stored
      <3>3. pos # 0
        BY <3>2
      <3> QED BY <1>5, <2>3, <3>1, <3>2, <3>3 DEF LagInv, ConfigIsLatest, OneBefore
    <2>4. ASSUME config[rpc[s]] # 0, ~(pc[Consumer] = "set" /\ rpc[Consumer] = rpc[s])
          PROVE  LastSent(rpc[s]) = config[rpc[s]]
      BY <2>4 DEF LastSent
    <2>5. SUFFICES ASSUME NEW t \in Streams, pc'[t] \in {"first", "select", "recv"}
                   PROVE  /\ cfg'[t] # 0
                          /\ cfgChannel[rpc[t]] = <<>> =>
                                \/ cfg'[t] = LastSent(rpc[t])
                                \/ /\ t \in raced' /\ LastSent(rpc[t]) # 0
                                   /\ OneBefore(cfg'[t], LastSent(rpc[t]))
      BY <1>1, <2>1, <2>2 DEF StreamHasLast, SharedSame
    <2>6. CASE t = s
      BY <1>2, <1>4, <2>3, <2>4, <2>5, <2>6
    <2>7. CASE t # s
      BY <1>2, <1>4, <2>5, <2>7 DEF LagInv, StreamHasLast
    <2> QED BY <2>6, <2>7
  <1> QED BY <1>3, <1>6, <1>7, <1>8, <1>9 DEF LagInv

LEMMA LastOfTail ==
  ASSUME NEW S, NEW q \in Seq(S), q # <<>>
  PROVE  /\ Tail(q) # <<>> => Tail(q)[Len(Tail(q))] = q[Len(q)]
         /\ Tail(q) = <<>> => Head(q) = q[Len(q)]
  <1>1. /\ Len(q) \in Nat /\ Len(q) >= 1 /\ Len(Tail(q)) = Len(q) - 1
        /\ Tail(q) \in Seq(S) /\ \A i \in 1 .. Len(q) - 1 : Tail(q)[i] = q[i + 1]
    OBVIOUS
  <1>2. ASSUME Tail(q) # <<>>
        PROVE  Tail(q)[Len(Tail(q))] = q[Len(q)]
    <2>1. Len(Tail(q)) # 0
      BY <1>1, <1>2, EmptySeq
    <2>2. Len(q) - 1 \in 1 .. Len(q) - 1 /\ (Len(q) - 1) + 1 = Len(q)
      BY <1>1, <2>1
    <2> QED BY <1>1, <2>2
  <1>3. ASSUME Tail(q) = <<>>
        PROVE  Head(q) = q[Len(q)]
    <2>1. Len(Tail(q)) = 0
      BY <1>3, EmptySeq
    <2>2. \A n \in Nat : n - 1 = 0 => n = 1
      OBVIOUS
    <2>3. Len(q) = 1
      BY <1>1, <2>1, <2>2, Zenon
    <2> QED BY <2>3
  <1> QED BY <1>2, <1>3

(* A handler takes a configuration out of the channel: it keeps the last one, or ends. *)
LEMMA TakeLag ==
  ASSUME TypeInv, LagInv, NEW s \in Streams, Drain(s) \/ ConfigChanged(s)
  PROVE  LagInv'
  <1> USE ConstantTypes
  <1> DEFINE q == cfgChannel[rpc[s]]
  <1>1. /\ pc \in [Actors -> HandlerStates \cup ConsumerStates]
        /\ cfg \in [Actors -> {0} \cup Messages] /\ rpc[s] \in Objects
        /\ cfgChannel \in [Objects -> Seq(Messages)]
        /\ q # <<>> /\ q \in Seq(Messages) /\ pc[s] \in {"drain", "select"}
    BY DEF TypeInv, TypeOK, RpcIsHeld, WithRpc, Drain, ConfigChanged
  <1>2. SharedSame
    <2>1. CASE Drain(s)
      BY <2>1, <1>1 DEF SharedSame, Drain, Goto, topicVars, deviceVars
    <2>2. CASE ConfigChanged(s)
      <3> DEFINE d == CHOOSE x \in Objects : rpcs[x][0] = rpc[s]
      <3>1. rpcs' = [rpcs EXCEPT ![d][1] = None]
        BY <2>2 DEF ConfigChanged, removeRpcFromDevice, getUnusedRpcId
      <3> HIDE DEF d
      <3>2. \A x \in Objects : rpcs'[x][0] = rpcs[x][0]
        BY <3>1 DEF TypeInv, TypeOK, Slots
      <3> QED BY <1>1, <2>2, <3>2 DEF SharedSame, ConfigChanged, Goto, topicVars
    <2> QED BY <2>1, <2>2
  <1>3. UNCHANGED <<dev, raced>> /\ cfgChannel' = [cfgChannel EXCEPT ![rpc[s]] = Tail(q)]
    BY DEF Drain, ConfigChanged
  <1>4. \/ UNCHANGED <<pc, cfg>> /\ pc[s] = "drain"
        \/ pc' = [pc EXCEPT ![s] = "first"] /\ cfg' = [cfg EXCEPT ![s] = Head(q)]
        \/ pc' = [pc EXCEPT ![s] = "ended"] /\ cfg' = [cfg EXCEPT ![s] = Head(q)]
    BY DEF Drain, ConfigChanged, Goto
  <1>5. /\ Tail(q) # <<>> => Tail(q)[Len(Tail(q))] = q[Len(q)]
        /\ Tail(q) = <<>> => Head(q) = q[Len(q)]
        /\ Head(q) \in Messages
    BY <1>1, LastOfTail, HeadTailProperties
  <1> HIDE DEF q
  <1>6. /\ pc[Consumer] \notin {"lookup", "store"} /\ devices # None
        /\ rpc[s] = Current /\ ~Unused(Current)
    BY <1>1 DEF LagInv, NothingSentYet, HandlerHasCurrent, Orphan, Unused, WithRpc, q
  <1>7. Current' = Current
    BY <1>2, <1>6, CurrentSame
  <1>8. \A t \in Streams : t # s => pc[t] \in {"off", "ended"} /\ pc'[t] = pc[t]
    BY <1>1, <1>4 DEF LagInv, OneOpen, Open
  <1>9. Numbered'
    <2>1. rpc[s] <= made
      BY <1>1, ObjectTypes DEF LagInv, Numbered
    <2>2. \A r \in Objects : r > made => r # rpc[s]
      BY <1>1, <2>1, ObjectTypes DEF TypeInv, TypeOK
    <2> QED BY <1>1, <1>2, <1>3, <1>7, <2>2 DEF LagInv, Numbered, Unused, SharedSame
  <1>10. ConsumerHasCurrent' /\ MessageIsAtPos'
    BY <1>2, <1>6, <1>7 DEF LagInv, ConsumerHasCurrent, MessageIsAtPos, SharedSame
  <1>11. ConfigIsLatest'
    <2>1. Latest(Stored)' = Latest(Stored)
      BY <1>2 DEF Stored, Latest, SharedSame
    <2> QED BY <1>2, <1>7, <2>1 DEF LagInv, ConfigIsLatest, IsConfig, SharedSame
  <1>12. \A r : LastSent(r)' = LastSent(r)
    BY <1>2 DEF LastSent, SharedSame
  <1>13. q[Len(q)] = LastSent(Current)
    BY <1>1, <1>6 DEF LagInv, ChannelEndsInLast, q
  <1>14. ChannelEndsInLast'
    BY <1>1, <1>3, <1>5, <1>6, <1>7, <1>12, <1>13 DEF ChannelEndsInLast
  <1>15. OneOpen' /\ NoDeviceYet' /\ FoundIsCurrent'
    BY <1>1, <1>2, <1>3, <1>4, <1>6, <1>8 DEF LagInv, OneOpen, Open, NoDeviceYet, FoundIsCurrent, SharedSame
  <1>16. NothingSentYet' /\ FirstStreamWaits'
    BY <1>2, <1>6 DEF NothingSentYet, FirstStreamWaits, SharedSame
  <1>17. HandlerHasCurrent'
    BY <1>2, <1>6, <1>7, <1>8 DEF HandlerHasCurrent, WithRpc, SharedSame
  <1>18. StreamHasLast'
    BY <1>1, <1>2, <1>3, <1>4, <1>5, <1>6, <1>8, <1>12, <1>13 DEF StreamHasLast, SharedSame
  <1> QED BY <1>9, <1>10, <1>11, <1>14, <1>15, <1>16, <1>17, <1>18 DEF LagInv

(* The topic grows, and is replayed. *)
LEMMA TopicLag ==
  ASSUME TypeInv, LagInv, Publish \/ Replay
  PROVE  LagInv'
  <1>1. /\ UNCHANGED <<deviceVars, rpcVars, actorVars, crashed>>
        /\ published' \in Int /\ published' >= published /\ published \in Int
        /\ \/ pos' = pos
           \/ pos' = 0 /\ pc[Consumer] = "range"
    BY ConstantTypes DEF Publish, Replay, TypeInv, TypeOK
  <1>2. \A k : IsConfig(k) => IsConfig(k)'
    BY <1>1 DEF IsConfig
  <1>3. /\ Current' = Current /\ \A r : LastSent(r)' = LastSent(r) /\ Unused(r)' = Unused(r)
        /\ \A s : Orphan(s)' = Orphan(s)
    BY <1>1 DEF Current, LastSent, Unused, Orphan, deviceVars, rpcVars, actorVars
  <1>4. Numbered' /\ ConsumerHasCurrent' /\ HandlerHasCurrent' /\ ChannelEndsInLast'
    BY <1>1, <1>3
    DEF LagInv, Numbered, ConsumerHasCurrent, HandlerHasCurrent, ChannelEndsInLast,
        deviceVars, rpcVars, actorVars
  <1>5. OneOpen' /\ NoDeviceYet' /\ FoundIsCurrent' /\ NothingSentYet' /\ FirstStreamWaits'
    BY <1>1, <1>3
    DEF LagInv, OneOpen, Open, NoDeviceYet, FoundIsCurrent, NothingSentYet, FirstStreamWaits,
        deviceVars, rpcVars, actorVars
  <1>6. MessageIsAtPos'
    BY <1>1 DEF LagInv, MessageIsAtPos, WithMessage, actorVars
  <1>7. ConfigIsLatest'
    <2>1. Latest(Stored)' = Latest(Stored) \/ Latest(Stored)' = 0
      <3>1. CASE pos' = pos
        BY <1>1, <3>1 DEF Latest, Stored, actorVars
      <3>2. CASE pos' = 0 /\ pc[Consumer] = "range"
        BY <1>1, <3>2, LatestOfNone DEF Latest, Stored, actorVars
      <3> QED BY <1>1, <3>1, <3>2
    <2>2. config' = config /\ devices' = devices
      BY <1>1 DEF rpcVars, deviceVars
    <2> QED BY <1>2, <1>3, <2>1, <2>2 DEF LagInv, ConfigIsLatest
  <1>8. StreamHasLast'
    <2>1. \A k, m : OneBefore(k, m) => OneBefore(k, m)'
      BY <1>2 DEF OneBefore, Latest
    <2> QED BY <1>1, <1>3, <2>1 DEF LagInv, StreamHasLast, rpcVars, actorVars
  <1> QED BY <1>4, <1>5, <1>6, <1>7, <1>8 DEF LagInv

(* The consumer takes a message; for a configuration it has the current rpc at once, or
   there is none yet. *)
LEMMA ConsumeLag ==
  ASSUME TypeInv, LagInv, Consume
  PROVE  LagInv'
  <1> USE ConstantTypes
  <1>1. /\ UNCHANGED <<published, devices, rpcs, made, config, cfgChannel, raced>>
        /\ pc[Consumer] = "range" /\ pos \in Nat /\ pos' = pos + 1 /\ pos + 1 <= published
    BY DEF Consume, deviceVars, rpcVars, TypeInv, TypeOK
  <1>2. /\ pc \in [Actors -> HandlerStates \cup ConsumerStates]
        /\ rpc \in [Actors -> Objects \cup {None}] /\ dev \in [Actors -> Objects \cup {None}]
        /\ cfg \in [Actors -> {0} \cup Messages]
    BY DEF TypeInv, TypeOK
  <1>3. Current' = Current /\ \A r : Unused(r)' = Unused(r)
    BY <1>1 DEF Current, Unused
  <1>4. CASE Kind[pos + 1] # "config"
    <2>1. UNCHANGED <<pc, dev, rpc, cfg>>
      BY <1>4 DEF Consume
    <2>2. Latest(Stored)' = Latest(Stored)
      <3>1. Latest(pos + 1) = Latest(pos)
        BY <1>1, <1>4, LatestSteps
      <3> QED BY <1>1, <2>1, <3>1 DEF Stored, Latest
    <2>3. /\ \A r : LastSent(r)' = LastSent(r)
          /\ \A k : IsConfig(k)' = IsConfig(k)
          /\ \A k, m : OneBefore(k, m)' = OneBefore(k, m)
      BY <1>1, <2>1 DEF LastSent, IsConfig, OneBefore, Latest
    <2>4. Numbered' /\ ConsumerHasCurrent' /\ HandlerHasCurrent' /\ ChannelEndsInLast'
      BY <1>1, <1>3, <2>1, <2>3
      DEF LagInv, Numbered, ConsumerHasCurrent, HandlerHasCurrent, Orphan, ChannelEndsInLast
    <2>5. OneOpen' /\ NoDeviceYet' /\ FoundIsCurrent' /\ NothingSentYet' /\ FirstStreamWaits'
      BY <1>1, <1>3, <2>1
      DEF LagInv, OneOpen, Open, NoDeviceYet, FoundIsCurrent, NothingSentYet, FirstStreamWaits
    <2>6. MessageIsAtPos'
      BY <1>1, <2>1 DEF MessageIsAtPos, WithMessage
    <2>7. ConfigIsLatest' /\ StreamHasLast'
      BY <1>1, <1>3, <2>1, <2>2, <2>3 DEF LagInv, ConfigIsLatest, StreamHasLast
    <2> QED BY <2>4, <2>5, <2>6, <2>7 DEF LagInv
  <1>5. CASE Kind[pos + 1] = "config"
    <2>1. /\ cfg' = [cfg EXCEPT ![Consumer] = pos + 1]
          /\ dev' = [dev EXCEPT ![Consumer] = devices]
          /\ \/ devices = None /\ pc' = [pc EXCEPT ![Consumer] = "lookup"] /\ rpc' = rpc
             \/ /\ devices # None /\ pc' = [pc EXCEPT ![Consumer] = "send"]
                /\ rpc' = [rpc EXCEPT ![Consumer] = Current]
      BY <1>5 DEF Consume, Goto, getUnusedRpcId, Current, LagInv, Numbered
    <2>2. /\ pc'[Consumer] \in {"lookup", "send"}
          /\ \A s \in Streams : pc'[s] = pc[s] /\ rpc'[s] = rpc[s] /\ cfg'[s] = cfg[s] /\ dev'[s] = dev[s]
      BY <1>2, <2>1
    <2>3. \A r : LastSent(r)' = LastSent(r)
      BY <1>1, <2>2 DEF LastSent
    <2>4. Latest(Stored)' = Latest(Stored)
      <3>1. Stored' = (pos + 1) - 1 /\ (pos + 1) - 1 = pos /\ Stored = pos
        BY <1>1, <2>2 DEF Stored
      <3> QED BY <3>1 DEF Latest
    <2>5. /\ \A k : IsConfig(k)' = IsConfig(k)
          /\ \A k, m : OneBefore(k, m)' = OneBefore(k, m)
      BY <1>1 DEF IsConfig, OneBefore, Latest
    <2>6. Numbered'
      <3>1. devices # None => Current <= made
        BY DEF LagInv, Numbered, Current, TypeInv, TypeOK
      <3>2. \A a \in Actors : rpc'[a] # None => rpc'[a] <= made
        BY <1>2, <2>1, <3>1 DEF LagInv, Numbered
      <3> QED BY <1>1, <1>3, <3>2 DEF LagInv, Numbered
    <2>7. ConsumerHasCurrent' /\ HandlerHasCurrent' /\ ChannelEndsInLast'
      BY <1>1, <1>2, <1>3, <2>1, <2>2, <2>3
      DEF LagInv, ConsumerHasCurrent, HandlerHasCurrent, Orphan, ChannelEndsInLast
    <2>8. OneOpen' /\ NoDeviceYet' /\ FoundIsCurrent' /\ NothingSentYet' /\ FirstStreamWaits'
      <3>1. OneOpen' /\ NoDeviceYet'
        BY <1>1, <1>2, <2>1, <2>2 DEF LagInv, OneOpen, Open, NoDeviceYet
      <3>2. FoundIsCurrent'
        BY <1>1, <1>2, <2>1, <2>2 DEF LagInv, FoundIsCurrent, Actors
      <3>3. NothingSentYet' /\ FirstStreamWaits'
        BY <1>1, <1>2, <1>3, <2>1, <2>2 DEF LagInv, NothingSentYet, FirstStreamWaits
      <3> QED BY <3>1, <3>2, <3>3
    <2>9. MessageIsAtPos'
      <3>1. cfg'[Consumer] = pos + 1 /\ pos + 1 >= 1
        BY <1>1, <1>2, <2>1
      <3> QED BY <1>1, <1>5, <3>1 DEF MessageIsAtPos
    <2>10. ConfigIsLatest' /\ StreamHasLast'
      BY <1>1, <1>3, <2>2, <2>3, <2>4, <2>5 DEF LagInv, ConfigIsLatest, StreamHasLast
    <2> QED BY <2>6, <2>7, <2>8, <2>9, <2>10 DEF LagInv
  <1> QED BY <1>4, <1>5

LEMMA LastOfAppend ==
  ASSUME NEW S, NEW q \in Seq(S), NEW e \in S
  PROVE  Append(q, e) # <<>> /\ Append(q, e)[Len(Append(q, e))] = e
  OBVIOUS

(* It sends the message, which is then the last in the channel ... *)
LEMMA SendLag ==
  ASSUME TypeInv, LagInv, SendConfig
  PROVE  LagInv'
  <1> USE ConstantTypes
  <1> DEFINE r == rpc[Consumer]
             q == Append(cfgChannel[rpc[Consumer]], cfg[Consumer])
  <1>1. /\ UNCHANGED <<published, pos, devices, rpcs, made, config, dev, rpc, cfg, raced>>
        /\ pc[Consumer] = "send" /\ pc' = [pc EXCEPT ![Consumer] = "set"]
        /\ cfgChannel' = [cfgChannel EXCEPT ![r] = q]
    BY DEF SendConfig, Goto, topicVars, deviceVars
  <1>2. /\ pc \in [Actors -> HandlerStates \cup ConsumerStates]
        /\ r \in Objects /\ cfg[Consumer] \in Messages
        /\ cfgChannel \in [Objects -> Seq(Messages)]
    BY <1>1 DEF TypeInv, TypeOK, RpcIsHeld, ConsumerHasMessage, WithRpc, WithMessage
  <1>3. q # <<>> /\ q[Len(q)] = cfg[Consumer]
    BY <1>2, LastOfAppend
  <1> HIDE DEF q
  <1>4. /\ pc'[Consumer] = "set" /\ \A s \in Streams : pc'[s] = pc[s]
        /\ \A x \in Objects : x # r => cfgChannel'[x] = cfgChannel[x]
        /\ cfgChannel'[r] = q
    BY <1>1, <1>2
  <1>5. Current' = Current /\ devices # None /\ Current \in Objects
    BY <1>1 DEF Current, LagInv, NoDeviceYet, Numbered, TypeInv, TypeOK, Slots
  <1>6. /\ \A x \in Objects : x # r => LastSent(x)' = LastSent(x) /\ Unused(x)' = Unused(x)
        /\ LastSent(r)' = cfg[Consumer]
    BY <1>1, <1>4 DEF LastSent, Unused
  <1>7. Numbered'
    <2>1. r <= made
      BY <1>2, ObjectTypes DEF LagInv, Numbered
    <2>2. \A x \in Objects : x > made => x # r
      BY <1>2, <2>1, ObjectTypes DEF TypeInv, TypeOK
    <2> QED BY <1>1, <1>5, <1>6, <2>2 DEF LagInv, Numbered
  <1>8. ConsumerHasCurrent' /\ HandlerHasCurrent'
    <2>1. ConsumerHasCurrent'
      BY <1>1, <1>5, <1>6 DEF LagInv, ConsumerHasCurrent
    <2>2. \A s \in Streams : pc[s] \in WithRpc => rpc[s] \in Objects
      BY DEF TypeInv, RpcIsHeld
    <2> QED BY <1>1, <1>4, <1>5, <1>6, <2>1, <2>2 DEF LagInv, HandlerHasCurrent, Orphan
  <1>9. ChannelEndsInLast'
    BY <1>1, <1>3, <1>4, <1>5, <1>6 DEF LagInv, ChannelEndsInLast
  <1>10. OneOpen' /\ NoDeviceYet' /\ FoundIsCurrent' /\ NothingSentYet' /\ FirstStreamWaits'
    BY <1>1, <1>4, <1>5
    DEF LagInv, OneOpen, Open, NoDeviceYet, FoundIsCurrent, NothingSentYet, FirstStreamWaits, Actors
  <1>11. MessageIsAtPos'
    BY <1>1, <1>4 DEF LagInv, MessageIsAtPos, WithMessage
  <1>12. ConfigIsLatest'
    <2>1. Latest(Stored)' = Latest(Stored)
      BY <1>1, <1>4 DEF Stored, Latest
    <2> QED BY <1>1, <1>5, <2>1 DEF LagInv, ConfigIsLatest, IsConfig
  <1>13. StreamHasLast'
    <2>1. \A k, m : OneBefore(k, m)' = OneBefore(k, m)
      BY <1>1 DEF OneBefore, IsConfig, Latest
    <2>2. \A s \in Streams : pc[s] \in {"first", "select", "recv"} => rpc[s] \in Objects
      BY DEF TypeInv, RpcIsHeld, WithRpc
    <2> QED BY <1>1, <1>3, <1>4, <1>6, <2>1, <2>2 DEF LagInv, StreamHasLast
  <1> QED BY <1>7, <1>8, <1>9, <1>10, <1>11, <1>12, <1>13 DEF LagInv

(* ... and stores it, which changes nothing of what was sent last. *)
LEMMA SetLag ==
  ASSUME TypeInv, LagInv, SetConfig
  PROVE  LagInv'
  <1> USE ConstantTypes
  <1> DEFINE r == rpc[Consumer]
  <1>1. /\ UNCHANGED <<published, pos, devices, rpcs, made, cfgChannel, dev, rpc, cfg, raced>>
        /\ pc[Consumer] = "set" /\ pc' = [pc EXCEPT ![Consumer] = "range"]
        /\ config' = [config EXCEPT ![r] = cfg[Consumer]]
    BY DEF SetConfig, Goto, topicVars, deviceVars
  <1>2. /\ pc \in [Actors -> HandlerStates \cup ConsumerStates]
        /\ r \in Objects /\ config \in [Objects -> {0} \cup Messages]
        /\ pos \in Nat /\ pos <= published /\ published \in Nat
    BY <1>1 DEF TypeInv, TypeOK, RpcIsHeld, WithRpc
  <1>3. /\ pc'[Consumer] = "range" /\ \A s \in Streams : pc'[s] = pc[s]
        /\ \A x \in Objects : x # r => config'[x] = config[x]
        /\ config'[r] = cfg[Consumer]
    BY <1>1, <1>2
  <1>4. Current' = Current /\ devices # None /\ Current \in Objects
    BY <1>1 DEF Current, LagInv, NoDeviceYet, Numbered, TypeInv, TypeOK, Slots
  <1>5. /\ \A x \in Objects : LastSent(x)' = LastSent(x)
        /\ \A x \in Objects : x # r => Unused(x)' = Unused(x)
    BY <1>1, <1>3 DEF LastSent, Unused
  <1>6. Numbered'
    <2>1. r <= made
      BY <1>2, ObjectTypes DEF LagInv, Numbered
    <2>2. \A x \in Objects : x > made => x # r
      BY <1>2, <2>1, ObjectTypes DEF TypeInv, TypeOK
    <2> QED BY <1>1, <1>4, <1>5, <2>2 DEF LagInv, Numbered
  <1>7. ConsumerHasCurrent' /\ HandlerHasCurrent'
    <2>1. \A s \in Streams : pc[s] \in WithRpc => rpc[s] \in Objects
      BY DEF TypeInv, RpcIsHeld
    <2> QED BY <1>1, <1>3, <1>4, <1>5, <2>1 DEF LagInv, ConsumerHasCurrent, HandlerHasCurrent, Orphan
  <1>8. ChannelEndsInLast'
    BY <1>1, <1>4, <1>5 DEF LagInv, ChannelEndsInLast
  <1>9. OneOpen' /\ NoDeviceYet' /\ FoundIsCurrent' /\ NothingSentYet' /\ FirstStreamWaits'
    BY <1>1, <1>3, <1>4
    DEF LagInv, OneOpen, Open, NoDeviceYet, FoundIsCurrent, NothingSentYet, FirstStreamWaits, Actors
  <1>10. MessageIsAtPos'
    BY <1>3 DEF MessageIsAtPos, WithMessage
  <1>11. ConfigIsLatest'
    <2>1. pos >= 1 /\ cfg[Consumer] = pos /\ Kind[pos] = "config" /\ Stored' = pos
      BY <1>1, <1>3 DEF LagInv, MessageIsAtPos, WithMessage, Stored
    <2>2. Latest(pos) = pos
      <3>1. pos - 1 \in Nat /\ (pos - 1) + 1 = pos
        BY <1>2, <2>1
      <3> QED BY <2>1, <3>1, LatestSteps
    <2>3. IsConfig(pos)'
      BY <1>1, <1>2, <2>1 DEF IsConfig
    <2>4. Latest(Stored)' = pos
      BY <2>1, <2>2 DEF Latest
    <2>5. CASE r = Current
      <3>1. config'[Current'] = pos /\ pos' = pos
        BY <1>1, <1>3, <1>4, <2>1, <2>5
      <3> QED BY <2>3, <2>4, <3>1 DEF ConfigIsLatest, IsConfig
    <2>6. CASE r # Current
      <3>1. config'[Current] = 0
        BY <1>1, <1>3, <1>4, <2>6 DEF LagInv, ConsumerHasCurrent, Unused
      <3> QED BY <1>4, <3>1 DEF ConfigIsLatest
    <2> QED BY <2>5, <2>6
  <1>12. StreamHasLast'
    <2>1. \A k, m : OneBefore(k, m)' = OneBefore(k, m)
      BY <1>1 DEF OneBefore, IsConfig, Latest
    <2>2. \A s \in Streams : pc[s] \in {"first", "select", "recv"} => rpc[s] \in Objects
      BY DEF TypeInv, RpcIsHeld, WithRpc
    <2> QED BY <1>1, <1>3, <1>5, <2>1, <2>2 DEF LagInv, StreamHasLast
  <1> QED BY <1>6, <1>7, <1>8, <1>9, <1>10, <1>11, <1>12 DEF LagInv

(* createOrUpdateDeviceWithNewRpc goes on with the current rpc, or makes a device and an
   rpc that nobody has used. *)
FoundIt(a) ==
    /\ devices # None /\ rpc' = [rpc EXCEPT ![a] = Current]
    /\ UNCHANGED <<devices, made>> /\ \A x \in Objects : rpcs'[x][0] = rpcs[x][0]
MadeIt(a) ==
    \E r \in Objects :
        /\ r > made /\ Unused(r) /\ made' = r
        /\ devices' \in Objects /\ devices' <= r /\ Current' = r
        /\ rpc' = [rpc EXCEPT ![a] = r]
        /\ \A x \in Objects : x # devices' => rpcs'[x][0] = rpcs[x][0]

LEMMA StoreEffect ==
  ASSUME TypeInv, LagInv, NEW a \in Actors, Store(a)
  PROVE  \/ FoundIt(a) /\ dev[a] # None
         \/ MadeIt(a) /\ dev[a] = None
  <1> DEFINE newD == dev[a] = None
             d    == IF newD THEN made + 1 ELSE dev[a]
             m    == IF newD THEN made + 1 ELSE made
             newR == rpcs[d][0] = None
             r    == IF newR THEN m + 1 ELSE rpcs[d][0]
  <1>1. /\ pc[a] = "store" /\ d \in Objects /\ r \in Objects
        /\ made' = IF newR THEN m + 1 ELSE m
        /\ rpcs' = [rpcs EXCEPT ![d][0] = r]
        /\ devices' = d
        /\ rpc' = [rpc EXCEPT ![a] = r]
    BY DEF Store, getUnusedRpcId
  <1>2. rpcs \in [Objects -> [Slots -> Objects \cup {None}]] /\ made \in Nat
    BY ObjectTypes DEF TypeInv, TypeOK
  <1>3. CASE dev[a] # None
    <2>1. d = devices /\ devices # None /\ Current # None
      BY <1>1, <1>3 DEF LagInv, FoundIsCurrent, Numbered
    <2>2. r = Current /\ made' = made
      BY <1>1, <1>3, <2>1 DEF Current
    <2> HIDE DEF d, r, newR, m, newD
    <2>3. \A x \in Objects : rpcs'[x][0] = rpcs[x][0]
      BY <1>1, <1>2, <2>1, <2>2 DEF Current, Slots
    <2> QED BY <1>1, <1>3, <2>1, <2>2, <2>3 DEF FoundIt
  <1>4. CASE dev[a] = None
    <2>1. d = made + 1 /\ m = made + 1
      BY <1>4
    <2>2. rpcs[d][0] = None
      <3>1. rpcs[d][0] # None => d <= made
        BY <1>1 DEF LagInv, Numbered
      <3> QED BY <1>2, <2>1, <3>1
    <2>3. r = made + 2 /\ made' = made + 2
      BY <1>1, <1>2, <2>1, <2>2
    <2> HIDE DEF d, r, newR, m, newD
    <2>4. r > made /\ d <= r
      BY <1>2, <2>1, <2>3
    <2>5. Unused(r)
      BY <1>1, <2>4 DEF LagInv, Numbered
    <2>6. Current' = r /\ \A x \in Objects : x # devices' => rpcs'[x][0] = rpcs[x][0]
      BY <1>1, <1>2 DEF Current, Slots
    <2> QED BY <1>1, <1>4, <2>3, <2>4, <2>5, <2>6 DEF MadeIt
  <1> QED BY <1>3, <1>4

LEMMA StoreLag ==
  ASSUME TypeInv, LagInv, NEW a \in Actors, Store(a)
  PROVE  LagInv'
  <1> USE ConstantTypes
  <1>1. /\ UNCHANGED <<published, pos, config, cfgChannel, cfg, raced>>
        /\ pc[a] = "store" /\ pc' = [pc EXCEPT ![a] = IF a = Consumer THEN "send" ELSE "length"]
        /\ dev' = [dev EXCEPT ![a] = devices']
    BY DEF Store, Goto, topicVars, rpcVars
  <1>2. /\ pc \in [Actors -> HandlerStates \cup ConsumerStates]
        /\ rpc \in [Actors -> Objects \cup {None}] /\ dev \in [Actors -> Objects \cup {None}]
        /\ devices \in Objects \cup {None} /\ made \in Nat
        /\ rpcs \in [Objects -> [Slots -> Objects \cup {None}]]
    BY ObjectTypes DEF TypeInv, TypeOK
  <1>3. /\ \A r : Unused(r)' = Unused(r)
        /\ \A k : IsConfig(k)' = IsConfig(k)
        /\ \A k, m : OneBefore(k, m)' = OneBefore(k, m)
        /\ Latest(Stored)' = Latest(Stored)
    <2>1. pc'[Consumer] = "range" <=> pc[Consumer] = "range"
      BY <1>1, <1>2
    <2> QED BY <1>1, <2>1 DEF Unused, IsConfig, OneBefore, Latest, Stored
  <1>4. OneOpen'
    BY <1>1, <1>2 DEF LagInv, OneOpen, Open
  <1>5. MessageIsAtPos'
    BY <1>1, <1>2 DEF LagInv, MessageIsAtPos, WithMessage
  <1>6. \A t \in Streams : a \in Streams /\ t # a => pc[t] \in {"off", "ended"} /\ pc'[t] = pc[t]
    BY <1>1, <1>2 DEF LagInv, OneOpen, Open
  <1>7. CASE FoundIt(a) /\ dev[a] # None
    <2>1. Current' = Current /\ devices' = devices /\ devices # None
      BY <1>2, <1>7 DEF FoundIt, Current, Slots
    <2>2. rpc' = [rpc EXCEPT ![a] = Current] /\ made' = made
      BY <1>7 DEF FoundIt
    <2>3. Current <= made
      BY <1>2, <2>1 DEF LagInv, Numbered, Current
    <2>4. Numbered'
      <3>1. \A b \in Actors : rpc'[b] # None => rpc'[b] <= made'
        BY <1>2, <2>2, <2>3 DEF LagInv, Numbered
      <3>2. \A d \in Objects : rpcs'[d][0] # None => d <= made' /\ rpcs'[d][0] <= made'
        BY <1>7, <2>2 DEF LagInv, Numbered, FoundIt
      <3> QED BY <1>3, <2>1, <2>2, <3>1, <3>2 DEF LagInv, Numbered
    <2>5. NoDeviceYet' /\ NothingSentYet' /\ FirstStreamWaits'
      BY <1>1, <1>2, <1>3, <2>1 DEF LagInv, NoDeviceYet, NothingSentYet, FirstStreamWaits
    <2>6. FoundIsCurrent'
      BY <1>1, <1>2, <2>1 DEF LagInv, FoundIsCurrent
    <2>7. HandlerHasCurrent' /\ ConsumerHasCurrent'
      BY <1>1, <1>2, <1>3, <2>1, <2>2
      DEF LagInv, HandlerHasCurrent, ConsumerHasCurrent, Orphan, WithRpc
    <2>8. \A r : LastSent(r)' = LastSent(r)
      BY <1>1, <1>2, <2>2 DEF LastSent
    <2>9. ConfigIsLatest' /\ ChannelEndsInLast'
      BY <1>1, <1>3, <2>1, <2>8 DEF LagInv, ConfigIsLatest, ChannelEndsInLast
    <2>10. StreamHasLast'
      BY <1>1, <1>2, <1>3, <2>2, <2>8 DEF LagInv, StreamHasLast
    <2> QED BY <1>4, <1>5, <2>4, <2>5, <2>6, <2>7, <2>9, <2>10 DEF LagInv
  <1>8. CASE MadeIt(a) /\ dev[a] = None
    <2>1. PICK r \in Objects :
            /\ r > made /\ Unused(r) /\ made' = r
            /\ devices' \in Objects /\ devices' <= r /\ Current' = r
            /\ rpc' = [rpc EXCEPT ![a] = r]
            /\ \A x \in Objects : x # devices' => rpcs'[x][0] = rpcs[x][0]
      BY <1>8 DEF MadeIt
    <2>2. devices' # None /\ r # None /\ \A x \in Objects : x \in Nat
      BY <2>1, ObjectTypes
    <2>3. Numbered'
      <3>1. \A b \in Actors : rpc'[b] # None => rpc'[b] <= made'
        BY <1>2, <2>1, <2>2 DEF LagInv, Numbered
      <3>2. \A d \in Objects : rpcs'[d][0] # None => d <= made' /\ rpcs'[d][0] <= made'
        <4>1. \A d \in Objects : rpcs[d][0] \in Objects \cup {None}
          BY <1>2 DEF Slots
        <4>2. rpcs'[devices'][0] = r
          BY <2>1 DEF Current
        <4> QED BY <1>2, <2>1, <2>2, <4>1, <4>2 DEF LagInv, Numbered
      <3>3. \A x \in Objects : x > made' => Unused(x)'
        BY <1>2, <1>3, <2>1, <2>2 DEF LagInv, Numbered
      <3> QED BY <2>1, <2>2, <3>1, <3>2, <3>3 DEF Numbered
    <2>4. NoDeviceYet'
      BY <2>2 DEF NoDeviceYet
    <2>5. ConfigIsLatest' /\ ChannelEndsInLast'
      BY <1>3, <2>1 DEF ConfigIsLatest, ChannelEndsInLast, Unused
    <2>6. CASE a = Consumer
      <3>1. pc'[Consumer] = "send" /\ rpc'[Consumer] = r /\ \A t \in Streams : pc'[t] = pc[t] /\ rpc'[t] = rpc[t]
        BY <1>1, <1>2, <2>1, <2>6
      <3>2. /\ \A x \in Objects : Unused(x)
            /\ \A t \in Streams : pc[t] \in {"off", "lookup", "store", "length", "config", "drain"}
        BY <1>1, <2>6 DEF LagInv, NothingSentYet
      <3>3. NothingSentYet' /\ FirstStreamWaits'
        BY <2>2, <3>1 DEF NothingSentYet, FirstStreamWaits
      <3>4. FoundIsCurrent'
        <4>1. \A t \in Streams : pc[t] = "store" => dev[t] = None
          BY <1>1, <2>6 DEF LagInv, FoundIsCurrent, FirstStreamWaits, OneOpen, Open
        <4> QED BY <1>1, <1>2, <2>6, <3>1, <4>1 DEF FoundIsCurrent, Actors
      <3>5. HandlerHasCurrent'
        <4>1. \A t \in Streams : pc[t] \in WithRpc => rpc[t] \in Objects
          BY DEF TypeInv, RpcIsHeld
        <4>2. \A t \in Streams : pc[t] \in WithRpc => rpc[t] # r
          BY <1>2, <2>1, <2>2, <4>1 DEF LagInv, Numbered
        <4> QED BY <1>3, <3>1, <3>2, <4>1, <4>2 DEF HandlerHasCurrent, Orphan, WithRpc
      <3>6. ConsumerHasCurrent'
        BY <2>1, <3>1 DEF ConsumerHasCurrent
      <3>7. StreamHasLast'
        BY <3>1, <3>2 DEF StreamHasLast
      <3> QED BY <1>4, <1>5, <2>3, <2>4, <2>5, <3>3, <3>4, <3>5, <3>6, <3>7 DEF LagInv
    <2>7. CASE a \in Streams
      <3>1. /\ pc'[Consumer] = pc[Consumer] /\ dev'[Consumer] = dev[Consumer]
            /\ rpc'[Consumer] = rpc[Consumer]
            /\ pc'[a] = "length" /\ rpc'[a] = r /\ a # Consumer
        BY <1>1, <1>2, <2>1, <2>7
      <3>2. pc[Consumer] \in {"lookup", "store"} => devices = None
        BY <1>1, <1>6, <2>7 DEF LagInv, FirstStreamWaits
      <3>3. NothingSentYet' /\ FirstStreamWaits'
        BY <1>1, <1>2, <1>3, <2>2, <2>7, <3>1, <3>2 DEF LagInv, NothingSentYet, FirstStreamWaits
      <3>4. FoundIsCurrent'
        <4>1. pc[Consumer] = "store" => dev[Consumer] = None
          BY <3>2 DEF LagInv, NoDeviceYet
        <4> QED BY <1>6, <2>7, <3>1, <4>1 DEF FoundIsCurrent, Actors
      <3>5. HandlerHasCurrent'
        BY <1>6, <2>1, <2>7, <3>1 DEF HandlerHasCurrent, WithRpc
      <3>6. ConsumerHasCurrent'
        BY <1>3, <2>1 DEF ConsumerHasCurrent
      <3>7. StreamHasLast'
        BY <1>6, <2>7, <3>1 DEF StreamHasLast
      <3> QED BY <1>4, <1>5, <2>3, <2>4, <2>5, <3>3, <3>4, <3>5, <3>6, <3>7 DEF LagInv
    <2> QED BY <2>6, <2>7 DEF Actors
  <1> QED BY <1>7, <1>8, StoreEffect

LEMMA LagStep ==
  ASSUME MaxOpen = 1, TypeInv, LagInv, [Next]_vars
  PROVE  LagInv'
  <1> USE ConstantTypes
  <1>1. CASE Publish \/ Replay \/ Consume \/ SendConfig \/ SetConfig
    BY <1>1, TopicLag, ConsumeLag, SendLag, SetLag
  <1>2. ASSUME NEW a \in Actors, Lookup(a) \/ Store(a) PROVE LagInv'
    BY <1>2, LookupLag, StoreLag
  <1>3. ASSUME NEW s \in Streams, Dial(s) PROVE LagInv'
    BY <1>3, DialLag
  <1>4. ASSUME NEW s \in Streams,
               ReadLength(s) \/ ReadConfig(s) \/ Drain(s) \/ FirstRecv(s)
               \/ ConfigChanged(s) \/ Receive(s) \/ Response(s)
        PROVE  LagInv'
    BY <1>4, HandlerGoesOn, ReadConfigLag, TakeLag
  <1>5. CASE MapRace \/ UNCHANGED vars
    <2>1. UNCHANGED <<topicVars, deviceVars, rpcVars, actorVars>>
      BY <1>5 DEF MapRace, vars
    <2>2. /\ Current' = Current /\ \A r : Unused(r)' = Unused(r) /\ LastSent(r)' = LastSent(r)
          /\ \A k, m : OneBefore(k, m)' = OneBefore(k, m) /\ IsConfig(k)' = IsConfig(k)
          /\ Latest(Stored)' = Latest(Stored)
      BY <2>1
      DEF Current, Unused, LastSent, OneBefore, IsConfig, Latest, Stored, topicVars, deviceVars, rpcVars, actorVars
    <2>3. OneOpen' /\ Numbered' /\ NothingSentYet' /\ NoDeviceYet' /\ FirstStreamWaits' /\ FoundIsCurrent'
      BY <2>1, <2>2
      DEF LagInv, OneOpen, Open, Numbered, NothingSentYet, NoDeviceYet, FirstStreamWaits, FoundIsCurrent,
          deviceVars, actorVars
    <2>4. HandlerHasCurrent' /\ ConsumerHasCurrent' /\ MessageIsAtPos'
      BY <2>1, <2>2
      DEF LagInv, HandlerHasCurrent, Orphan, ConsumerHasCurrent, MessageIsAtPos, topicVars, actorVars
    <2>5. ConfigIsLatest' /\ ChannelEndsInLast' /\ StreamHasLast'
      BY <2>1, <2>2 DEF LagInv, ConfigIsLatest, ChannelEndsInLast, StreamHasLast, deviceVars, rpcVars, actorVars
    <2> QED BY <2>3, <2>4, <2>5 DEF LagInv
  <1> QED BY <1>1, <1>2, <1>3, <1>4, <1>5 DEF Next, ConsumerStep, HandlerStep

(* When the consumer has read the whole topic, the last configuration sent is the
   topic's last, and the one before it is the topic's last but one. *)
LEMMA SettledLags ==
  ASSUME TypeInv, LagInv
  PROVE  StreamLagsByTheRaceOnly
  <1> USE ConstantTypes
  <1> SUFFICES ASSUME NEW s \in Streams, Settled(s)
               PROVE  \/ cfg[s] = Latest(pos)
                      \/ s \in raced /\ cfg[s] = Latest(Latest(pos) - 1)
    BY DEF StreamLagsByTheRaceOnly
  <1>1. /\ pc[s] \in {"select", "recv"} /\ cfgChannel[rpc[s]] = <<>>
        /\ pc[Consumer] = "range" /\ pos = published /\ pos \in Nat
    BY DEF Settled, TypeInv, TypeOK
  <1>2. rpc[s] = Current /\ devices # None
    BY <1>1 DEF LagInv, HandlerHasCurrent, Orphan, WithRpc, NoDeviceYet
  <1>3. LastSent(rpc[s]) = config[Current] /\ Stored = pos
    BY <1>1, <1>2 DEF LastSent, Stored
  <1> DEFINE c == config[Current]
  <1>4. /\ cfg[s] # 0
        /\ cfg[s] = c \/ (s \in raced /\ c # 0 /\ OneBefore(cfg[s], c))
    BY <1>1, <1>2, <1>3 DEF LagInv, StreamHasLast
  <1>5. c # 0
    BY <1>4
  <1>6. IsConfig(c) /\ Latest(pos) \in {0, c}
    BY <1>2, <1>3, <1>5 DEF LagInv, ConfigIsLatest
  <1>7. Latest(pos) \in Int /\ IsLatest(Latest(pos), pos)
    BY <1>1, LatestIsLatest
  <1>8. \A k : IsConfig(k) => k \in 1 .. pos /\ k <= Latest(pos)
    BY <1>1, <1>7 DEF IsConfig, IsLatest
  <1> HIDE DEF c
  <1>9. Latest(pos) = c /\ c \in Nat /\ c >= 1
    BY <1>1, <1>6, <1>7, <1>8
  <1>10. CASE cfg[s] = c
    BY <1>9, <1>10
  <1>11. CASE s \in raced /\ OneBefore(cfg[s], c)
    <2>1. IsConfig(cfg[s]) /\ Latest(c - 1) \in {0, cfg[s]}
      BY <1>11 DEF OneBefore
    <2>2. CASE Latest(c - 1) = cfg[s]
      BY <1>9, <1>11, <2>2
    <2>3. CASE Latest(c - 1) = 0
      <3>1. c - 1 \in Int /\ c - 1 >= -1
        BY <1>9
      <3>2. IsLatest(0, c - 1)
        BY <2>3, <3>1, LatestIsLatest
      <3>3. cfg[s] \in 1 .. pos /\ cfg[s] <= c /\ Kind[cfg[s]] = "config"
        BY <1>8, <1>9, <2>1 DEF IsConfig
      <3>4. ~(cfg[s] <= c - 1)
        BY <1>9, <3>2, <3>3 DEF IsLatest
      <3>5. cfg[s] = c
        BY <1>1, <1>9, <3>3, <3>4
      <3> QED BY <1>9, <3>5
    <2> QED BY <2>1, <2>2, <2>3
  <1> QED BY <1>4, <1>10, <1>11

(* When nothing is left to do, a stream runs with the latest configuration of the topic,
   or, if it read rpc.config between the consumer's send and its store (dialout.go:217-220,
   382-383), with the one before it: whatever is dropped, drained or replayed, and even if
   the first stream and the consumer each make a deviceInfoT.  For every topic, every
   capacity of cfgChannel, every number of streams and replays; the device has one stream
   open at a time, as the comment at dialout.go:32 has it. *)
THEOREM LagIsTheRace == MaxOpen = 1 => (Spec => []StreamLagsByTheRaceOnly)
  <1> SUFFICES ASSUME MaxOpen = 1 PROVE Spec => []StreamLagsByTheRaceOnly
    OBVIOUS
  <1>1. Init => TypeInv /\ LagInv
    BY TypeInit, LagInit
  <1>2. TypeInv /\ LagInv /\ [Next]_vars => (TypeInv /\ LagInv)'
    BY TypeStep, LagStep
  <1>3. TypeInv /\ LagInv => StreamLagsByTheRaceOnly
    BY SettledLags
  <1> QED BY <1>1, <1>2, <1>3, PTL DEF Spec

=============================================================================

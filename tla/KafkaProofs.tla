---------------------------- MODULE KafkaProofs ----------------------------
(***************************************************************************)
(* Theorems about the two ends of Kafka: the contexts of the consumer, for    *)
(* any number of partitions, devices, databases and messages, and what a      *)
(* worker publishes, for any number of versions of its file.                  *)
(***************************************************************************)
EXTENDS KafkaConsumer, KafkaPublisher, FiniteSetTheorems, SequenceTheorems, TLAPS

-----------------------------------------------------------------------------
(* The consumer: types *)

ClaimStates == {"off", "range", "lookup", "init", "assign", "handle"}
HoldsMsg(c) == kPc[c] \in {"lookup", "init", "assign", "handle"}

KTypeOK ==
    /\ kDb \in [KDevs -> KDbs]
    /\ kQueue \in [Claims -> Seq(KMsgs)]
    /\ kPc \in [Claims -> ClaimStates]
    /\ kMsg = [c \in Claims |-> kMsg[c]]
    /\ \A c \in Claims : HoldsMsg(c) => kMsg[c] \in KMsgs
    /\ kLock \subseteq Claims
    /\ dbHandles \in [KDbs -> Nat]
    /\ kHandle \in [Claims -> Nat]
    /\ kCfg \in Seq(KDevs)
    /\ kSync \subseteq 1 .. Len(kCfg)
    /\ kSynced \subseteq KDevs

(* handler.m is held by one claim at most, the one that makes a context. *)
LockIsExclusive ==
    \A c \in Claims : c \in kLock <=> kPc[c] = "init"
LockIsSingle ==
    \A c, d \in kLock : c = d

(* The map has no context for the database a claim is making one for, and a claim that
   has looked one up still has the one in the map, without the lock: no other claim
   replaces it before the session ends. *)
HandleIsCurrent ==
    \A c \in Claims :
        /\ kPc[c] = "init" => dbHandles[DbKey(c)] = 0
        /\ kPc[c] \in {"assign", "handle"} => kHandle[c] = dbHandles[DbKey(c)] /\ kHandle[c] # 0

(* A context of the map holds the configuration of a device of that database. *)
ContextOfDb ==
    \A b \in KDbs :
        dbHandles[b] # 0 => dbHandles[b] \in 1 .. Len(kCfg) /\ kDb[kCfg[dbHandles[b]]] = b

Unshared(d) == \A e \in KDevs : kDb[e] = kDb[d] => e = d

(* receivedSyncRsp of the context of a device that has its database for itself says
   whether that device has synced in this session. *)
SyncIsOwn ==
    \A d \in KDevs : Unshared(d) => (d \in kSynced <=> dbHandles[kDb[d]] \in kSync)

KInv ==
    /\ KTypeOK /\ LockIsExclusive /\ LockIsSingle /\ HandleIsCurrent
    /\ ContextOfDb /\ SyncIsOwn /\ HandledAsConfigured

-----------------------------------------------------------------------------
LEMMA DbKeyInDbs ==
  ASSUME KTypeOK, NEW c \in Claims, HoldsMsg(c)
  PROVE  kMsg[c] \in KMsgs /\ kMsg[c].dev \in KDevs /\ DbKey(c) \in KDbs
  BY DEF KTypeOK, KMsgs, DbKey

LEMMA SetupStep == KInv /\ Setup => KInv'
  <1> SUFFICES ASSUME KInv, Setup PROVE KInv'
    OBVIOUS
  <1> USE DEF KInv, KTypeOK, Setup
  <1>1. KTypeOK'
    BY DEF ClaimStates, HoldsMsg
  <1>2. LockIsExclusive' /\ LockIsSingle'
    BY DEF LockIsExclusive, LockIsSingle
  <1>3. HandleIsCurrent' /\ ContextOfDb'
    BY DEF HandleIsCurrent, ContextOfDb
  <1>4. SyncIsOwn'
    BY DEF SyncIsOwn
  <1>5. HandledAsConfigured'
    BY DEF HandledAsConfigured
  <1> QED BY <1>1, <1>2, <1>3, <1>4, <1>5

LEMMA PublishStep ==
  ASSUME KInv, NEW c \in Claims, KPublish(c)
  PROVE  KInv'
  <1> USE DEF KInv, KTypeOK, KPublish
  <1>1. KTypeOK'
    <2> PICK m \in KMsgs : kQueue' = [kQueue EXCEPT ![c] = Append(@, m)]
      OBVIOUS
    <2> kQueue' \in [Claims -> Seq(KMsgs)]
      OBVIOUS
    <2> QED BY DEF HoldsMsg
  <1>2. /\ LockIsExclusive' /\ LockIsSingle'
        /\ HandleIsCurrent' /\ ContextOfDb' /\ SyncIsOwn' /\ HandledAsConfigured'
    BY DEF LockIsExclusive, LockIsSingle, HandleIsCurrent, ContextOfDb, SyncIsOwn, Unshared,
           HandledAsConfigured, DbKey
  <1> QED BY <1>1, <1>2

LEMMA TakeStep ==
  ASSUME KInv, NEW c \in Claims, KTake(c)
  PROVE  KInv'
  <1> USE DEF KInv, KTypeOK, KTake
  <1>1. Head(kQueue[c]) \in KMsgs /\ Tail(kQueue[c]) \in Seq(KMsgs)
    BY HeadTailProperties
  <1>2. KTypeOK'
    <2>1. kQueue' \in [Claims -> Seq(KMsgs)]
      BY <1>1
    <2>2. kPc' \in [Claims -> ClaimStates] /\ kMsg' = [d \in Claims |-> kMsg'[d]]
      BY DEF ClaimStates
    <2>3. \A d \in Claims : HoldsMsg(d)' => kMsg'[d] \in KMsgs
      BY <1>1 DEF HoldsMsg
    <2> QED BY <2>1, <2>2, <2>3
  <1>3. LockIsExclusive' /\ LockIsSingle' /\ HandleIsCurrent'
    BY DEF LockIsExclusive, LockIsSingle, HandleIsCurrent, DbKey
  <1>4. ContextOfDb' /\ SyncIsOwn' /\ HandledAsConfigured'
    BY DEF ContextOfDb, SyncIsOwn, Unshared, HandledAsConfigured
  <1> QED BY <1>2, <1>3, <1>4

LEMMA LookupStep ==
  ASSUME KInv, NEW c \in Claims, KLookup(c)
  PROVE  KInv'
  <1> USE DEF KInv, KTypeOK, KLookup
  <1>1. DbKey(c) \in KDbs
    BY DbKeyInDbs DEF HoldsMsg
  <1>2. KTypeOK'
    BY <1>1 DEF ClaimStates, HoldsMsg
  <1>3. LockIsExclusive' /\ LockIsSingle'
    BY DEF LockIsExclusive, LockIsSingle, CanLock
  <1>4. HandleIsCurrent'
    BY <1>1 DEF HandleIsCurrent, DbKey
  <1>5. ContextOfDb' /\ SyncIsOwn' /\ HandledAsConfigured'
    BY DEF ContextOfDb, SyncIsOwn, Unshared, HandledAsConfigured
  <1> QED BY <1>2, <1>3, <1>4, <1>5

LEMMA NewStep ==
  ASSUME KInv, NEW c \in Claims, KNew(c)
  PROVE  KInv'
  <1> USE DEF KInv, KTypeOK, KNew
  <1>1. kMsg[c].dev \in KDevs /\ DbKey(c) \in KDbs /\ dbHandles[DbKey(c)] = 0
    BY DbKeyInDbs DEF HoldsMsg, HandleIsCurrent
  <1>2. /\ kCfg' \in Seq(KDevs) /\ Len(kCfg') = Len(kCfg) + 1 /\ Len(kCfg) \in Nat
        /\ kCfg'[Len(kCfg) + 1] = kMsg[c].dev
        /\ \A i \in 1 .. Len(kCfg) : kCfg'[i] = kCfg[i]
    BY <1>1
  <1>3. KTypeOK'
    <2>1. kSync' \subseteq 1 .. Len(kCfg')
      BY <1>2
    <2> QED BY <1>1, <1>2, <2>1 DEF ClaimStates, HoldsMsg
  <1>4. LockIsExclusive' /\ LockIsSingle'
    BY DEF LockIsExclusive, LockIsSingle
  <1>5. HandleIsCurrent'
    <2> SUFFICES ASSUME NEW d \in Claims, HoldsMsg(d)
                 PROVE  /\ kPc'[d] = "init" => dbHandles'[DbKey(d)'] = 0
                        /\ kPc'[d] \in {"assign", "handle"} =>
                              kHandle'[d] = dbHandles'[DbKey(d)'] /\ kHandle'[d] # 0
      BY DEF HandleIsCurrent, HoldsMsg
    <2>1. DbKey(d) \in KDbs /\ DbKey(d)' = DbKey(d)
      BY DbKeyInDbs DEF DbKey
    <2>2. CASE d = c
      BY <1>1, <1>2, <2>1, <2>2
    <2>3. CASE d # c
      <3>1. kPc[d] # "init"
        BY <2>3 DEF LockIsExclusive, LockIsSingle
      <3>2. kPc'[d] = kPc[d] /\ kHandle'[d] = kHandle[d]
        BY <2>3
      <3>3. kPc[d] \in {"assign", "handle"} => DbKey(d) # DbKey(c)
        BY <1>1 DEF HandleIsCurrent
      <3> QED BY <1>1, <2>1, <3>1, <3>2, <3>3 DEF HandleIsCurrent
    <2> QED BY <2>2, <2>3
  <1>6. ContextOfDb'
    BY <1>1, <1>2 DEF ContextOfDb, DbKey
  <1>7. SyncIsOwn'
    <2>1. Len(kCfg) + 1 \notin kSync /\ 0 \notin kSync
      BY <1>2
    <2> QED BY <1>1, <2>1 DEF SyncIsOwn, Unshared
  <1>8. HandledAsConfigured'
    BY DEF HandledAsConfigured
  <1> QED BY <1>3, <1>4, <1>5, <1>6, <1>7, <1>8

LEMMA AssignStep ==
  ASSUME KInv, NEW c \in Claims, KAssign(c)
  PROVE  KInv'
  <1> USE DEF KInv, KTypeOK, KAssign
  <1>1. kMsg[c].dev \in KDevs /\ DbKey(c) \in KDbs
    BY DbKeyInDbs DEF HoldsMsg
  <1>2. kHandle[c] = dbHandles[DbKey(c)] /\ kHandle[c] \in 1 .. Len(kCfg)
    BY <1>1 DEF HandleIsCurrent, ContextOfDb
  <1>3. /\ kCfg' \in Seq(KDevs) /\ Len(kCfg') = Len(kCfg)
        /\ kCfg'[kHandle[c]] = kMsg[c].dev
        /\ \A i \in 1 .. Len(kCfg) : i # kHandle[c] => kCfg'[i] = kCfg[i]
    BY <1>1, <1>2
  <1>4. KTypeOK'
    BY <1>3 DEF ClaimStates, HoldsMsg
  <1>5. LockIsExclusive' /\ LockIsSingle' /\ HandleIsCurrent'
    BY DEF LockIsExclusive, LockIsSingle, HandleIsCurrent, DbKey
  <1>6. ContextOfDb'
    BY <1>1, <1>2, <1>3 DEF ContextOfDb, DbKey
  <1>7. SyncIsOwn' /\ HandledAsConfigured'
    BY DEF SyncIsOwn, Unshared, HandledAsConfigured
  <1> QED BY <1>4, <1>5, <1>6, <1>7

LEMMA HandleStep ==
  ASSUME KInv, NEW c \in Claims, KHandle(c)
  PROVE  KInv'
  <1> USE DEF KInv, KTypeOK, KHandle
  <1> DEFINE h == kHandle[c]
             d == kMsg[c].dev
  <1>1. d \in KDevs /\ DbKey(c) \in KDbs /\ DbKey(c) = kDb[d]
    BY DbKeyInDbs DEF HoldsMsg, DbKey
  <1>2. h = dbHandles[kDb[d]] /\ h \in 1 .. Len(kCfg) /\ kDb[kCfg[h]] = kDb[d]
    BY <1>1 DEF HandleIsCurrent, ContextOfDb
  <1>2a. kCfg[h] \in KDevs /\ h # 0
    <2>1. h # 0
      BY DEF HandleIsCurrent
    <2>2. kCfg \in Seq(KDevs)
      OBVIOUS
    <2> HIDE DEF KInv, KTypeOK, KHandle, h
    <2>3. kCfg[h] \in KDevs
      BY <1>2, <2>2, ElementOfSeq
    <2> QED BY <2>1, <2>3
  <1>3. KTypeOK'
    BY <1>1, <1>2 DEF ClaimStates, HoldsMsg
  <1>4. LockIsExclusive' /\ LockIsSingle' /\ HandleIsCurrent' /\ ContextOfDb'
    BY DEF LockIsExclusive, LockIsSingle, HandleIsCurrent, ContextOfDb, DbKey
  <1>5. CASE kMsg[c].kind = "sync"
    <2>1. kSync' = kSync \cup {h} /\ kSynced' = kSynced \cup {d} /\ kDone' = kDone
      BY <1>5
    <2>2. SyncIsOwn'
      <3> SUFFICES ASSUME NEW e \in KDevs, Unshared(e)
                   PROVE  e \in kSynced' <=> dbHandles[kDb[e]] \in kSync'
        BY DEF SyncIsOwn, Unshared
      <3>1. e \in kSynced <=> dbHandles[kDb[e]] \in kSync
        BY DEF SyncIsOwn
      <3>2. CASE e = d
        BY <1>2, <2>1, <3>2
      <3>3. CASE e # d
        <4>1. kDb[e] # kDb[d]
          BY <1>1, <3>3 DEF Unshared
        <4>2. dbHandles[kDb[e]] # h
          <5> SUFFICES ASSUME dbHandles[kDb[e]] = h PROVE FALSE
            OBVIOUS
          <5>1. kDb[e] \in KDbs /\ h # 0
            BY <1>2a
          <5>2. kDb[kCfg[h]] = kDb[e]
            BY <5>1 DEF ContextOfDb
          <5> QED BY <1>2, <4>1, <5>2
        <4> QED BY <2>1, <3>1, <3>3, <4>2
      <3> QED BY <3>2, <3>3
    <2>3. HandledAsConfigured'
      BY <2>1 DEF HandledAsConfigured
    <2> QED BY <1>3, <1>4, <2>2, <2>3
  <1>6. CASE kMsg[c].kind # "sync"
    <2> DEFINE new == [dev |-> d, cfg |-> kCfg[h], synced |-> d \in kSynced,
                       published |-> kCfg[h] \in EosDevs \/ h \in kSync]
    <2>1. kDone' = kDone \cup {new} /\ UNCHANGED <<kSync, kSynced>>
      BY <1>6
    <2>2. SyncIsOwn'
      BY <2>1 DEF SyncIsOwn, Unshared
    <2>3. HandledAsConfigured'
      <3>1. ASSUME Unshared(d)
            PROVE  new.cfg = new.dev /\ new.published = (new.synced \/ new.dev \in EosDevs)
        <4>1. kCfg[h] = d
          BY <1>2a, <1>1, <1>2, <3>1 DEF Unshared
        <4>2. d \in kSynced <=> h \in kSync
          BY <1>1, <1>2, <3>1 DEF SyncIsOwn
        <4> QED BY <4>1, <4>2
      <3>2. ASSUME ~Unshared(d)
            PROVE  \E e \in KDevs \ {d} : kDb[e] = kDb[d]
        BY <3>2 DEF Unshared
      <3>3. new.dev = d /\ kDb' = kDb
        OBVIOUS
      <3> HIDE DEF new
      <3>4. \A r \in kDone : \/ \E e \in KDevs \ {r.dev} : kDb[e] = kDb[r.dev]
                             \/ r.cfg = r.dev /\ r.published = (r.synced \/ r.dev \in EosDevs)
        BY DEF HandledAsConfigured
      <3>5. \/ \E e \in KDevs \ {new.dev} : kDb[e] = kDb[new.dev]
            \/ new.cfg = new.dev /\ new.published = (new.synced \/ new.dev \in EosDevs)
        <4>1. CASE Unshared(d)
          BY <3>1, <4>1
        <4>2. CASE ~Unshared(d)
          BY <3>2, <3>3, <4>2
        <4> QED BY <4>1, <4>2
      <3> SUFFICES ASSUME NEW r \in kDone'
                   PROVE  \/ \E e \in KDevs \ {r.dev} : kDb[e] = kDb[r.dev]
                          \/ r.cfg = r.dev /\ r.published = (r.synced \/ r.dev \in EosDevs)
        BY <3>3 DEF HandledAsConfigured
      <3>6. CASE r \in kDone
        BY <3>4, <3>6
      <3>7. CASE r = new
        BY <3>5, <3>7
      <3> QED BY <2>1, <3>6, <3>7
    <2> QED BY <1>3, <1>4, <2>2, <2>3
  <1> QED BY <1>5, <1>6

LEMMA KInvariant == KSpec => []KInv
  <1>1. KInit => KInv
    <2> SUFFICES ASSUME KInit PROVE KInv
      OBVIOUS
    <2> USE DEF KInit
    <2>1. KTypeOK
      BY DEF KTypeOK, ClaimStates, HoldsMsg
    <2>2. LockIsExclusive /\ LockIsSingle /\ HandleIsCurrent /\ ContextOfDb
      BY DEF LockIsExclusive, LockIsSingle, HandleIsCurrent, ContextOfDb
    <2>3. SyncIsOwn /\ HandledAsConfigured
      BY DEF SyncIsOwn, HandledAsConfigured
    <2> QED BY <2>1, <2>2, <2>3 DEF KInv
  <1>2. KInv /\ UNCHANGED kVars => KInv'
    BY DEF kVars, KInv, KTypeOK, HoldsMsg, LockIsExclusive, LockIsSingle, HandleIsCurrent,
           ContextOfDb, SyncIsOwn, Unshared, HandledAsConfigured, DbKey
  <1>3. KInv /\ [KNext]_kVars => KInv'
    BY <1>2, SetupStep, PublishStep, TakeStep, LookupStep, NewStep, AssignStep, HandleStep
    DEF KNext
  <1> QED BY <1>1, <1>3, PTL DEF KSpec

(* One context, with one set of InfluxDB writers, serves a database for the whole
   session, although claims use it without holding handler.m. *)
THEOREM OneContext == KSpec => []OneContextPerDb
  <1>1. KInv => OneContextPerDb
    <2> SUFFICES ASSUME KInv, NEW b \in KDbs PROVE Cardinality(InUse(b)) <= 1
      BY DEF OneContextPerDb
    <2>1. InUse(b) \subseteq {dbHandles[b]}
      BY DEF InUse, KInv, HandleIsCurrent, DbKey
    <2>2. CASE InUse(b) = {}
      BY <2>2, FS_EmptySet
    <2>3. CASE InUse(b) # {}
      <3>1. InUse(b) = {dbHandles[b]}
        BY <2>1, <2>3
      <3>2. Cardinality({dbHandles[b]}) = 1
        BY FS_Singleton
      <3> QED BY <3>1, <3>2
    <2> QED BY <2>2, <2>3
  <1> QED BY <1>1, KInvariant, PTL

(* A device that has its database for itself is always handled with its own
   configuration and its own sync state, whatever the partitions its messages come by
   and however often the group is rebalanced. *)
THEOREM ResponsesAreHandledAsConfigured == KSpec => []HandledAsConfigured
  <1>1. KInv => HandledAsConfigured
    BY DEF KInv
  <1> QED BY <1>1, KInvariant, PTL

-----------------------------------------------------------------------------
(* The publisher: what has been connected and published at each point of NewJWorker *)

PbTypeOK ==
    /\ version \in Nat /\ cfgVersion \in Nat
    /\ 1 <= cfgVersion /\ cfgVersion <= version
    /\ pbPc \in {"init", "publish", "select", "panic"}

(* A worker that needs a producer and has none failed to connect or was reloaded. *)
ProducerIsThere ==
    pbPc # "init" /\ producer # "connected" /\ (fileKafka \/ dialOutMode) =>
        connectFailed \/ cfgVersion > 1

PbInv ==
    /\ PbTypeOK /\ ProducerIsThere /\ PublishedIsCurrent
    /\ pbPc = "init" => ~skipped /\ cfgVersion = 1
    /\ pbPc \in {"publish", "panic"} => dialOutMode

LEMMA PbStep == PbInv /\ [PbNext]_pbVars => PbInv'
  <1> SUFFICES ASSUME PbInv, [PbNext]_pbVars PROVE PbInv'
    OBVIOUS
  <1> USE DEF PbInv, PbTypeOK, ProducerIsThere, PublishedIsCurrent
  <1>1. CASE KafkaInit
    BY <1>1 DEF KafkaInit
  <1>2. CASE EditFile
    BY <1>2 DEF EditFile
  <1>3. CASE Sighup
    BY <1>3 DEF Sighup
  <1>4. CASE PublishConfig
    BY <1>4 DEF PublishConfig
  <1>5. CASE addKafka
    BY <1>5 DEF addKafka
  <1>6. CASE UNCHANGED pbVars
    BY <1>6 DEF pbVars
  <1> QED BY <1>1, <1>2, <1>3, <1>4, <1>5, <1>6 DEF PbNext

(* A dial-out worker at its select has published the configuration it holds unless Kafka
   refused it, and loses its producer in no other way than a failed connection or a
   changed configuration, for any number of edits and signals. *)
THEOREM PublishedConfigsAreCurrent == PbSpec => []PublishedIsCurrent
  <1>1. PbInit => PbInv
    BY DEF PbInit, PbInv, PbTypeOK, ProducerIsThere, PublishedIsCurrent
  <1>2. PbInv => PublishedIsCurrent
    BY DEF PbInv
  <1> QED BY <1>1, <1>2, PbStep, PTL DEF PbSpec

=============================================================================

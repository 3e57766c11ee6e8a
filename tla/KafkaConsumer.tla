--------------------------- MODULE KafkaConsumer ----------------------------
(***************************************************************************)
(* The consumer of the gNMI responses that dial-out terminators publish to    *)
(* Kafka (kafka_consumer.go).  One goroutine per claimed partition takes      *)
(* messages, each with the configuration of its device, and handles them with  *)
(* a context, JCtx, that is kept per InfluxDB database and shared by all       *)
(* claims.  A session of the consumer group ends with a rebalance; no offset   *)
(* is ever marked, so that the next one starts with what is published later.   *)
(***************************************************************************)
EXTENDS Integers, Sequences, FiniteSets

CONSTANTS
    Claims,       \* partitions claimed by this process
    KDevs,        \* devices
    KDbs,         \* names of databases
    EosDevs,      \* devices whose configuration has EOS
    MaxKMsgs,     \* bound: messages published
    MaxSessions   \* bound: sessions of the consumer group

ASSUME KafkaConsumerAssumption == MaxKMsgs \in Nat /\ MaxSessions \in Nat /\ EosDevs \subseteq KDevs

VARIABLES
    kDb,          \* kDb[d]: cfg.Influx.Dbname of device d
    kSent,        \* messages published
    kSession,     \* sessions so far
    kQueue,       \* kQueue[c]: messages of claim c not taken
    kPc,          \* kPc[c]: where ConsumeClaim of c is
    kMsg,         \* kMsg[c]: the message it handles
    kLock,        \* the claims that hold handler.m
    dbHandles,    \* dbHandles[b]: the context of database b, 0 if there is none
    kHandle,      \* kHandle[c]: the context claim c has looked up
    kCfg,         \* kCfg[h]: the device whose configuration is in context h
    kSync,        \* contexts with receivedSyncRsp
    kSynced,      \* devices a sync response of which was handled in this session
    kDone         \* the data responses handled: [dev, cfg, published, synced]

kVars == <<kDb, kSent, kSession, kQueue, kPc, kMsg, kLock, dbHandles, kHandle, kCfg, kSync, kSynced, kDone>>

KMsgs == [dev : KDevs, kind : {"sync", "data"}]

-----------------------------------------------------------------------------
KInit ==
    /\ kDb \in [KDevs -> KDbs]
    /\ kSent = 0 /\ kSession = 0
    /\ kQueue = [c \in Claims |-> <<>>]
    /\ kPc = [c \in Claims |-> "off"]
    /\ kMsg = [c \in Claims |-> CHOOSE m \in KMsgs : TRUE]
    /\ kLock = {}
    /\ dbHandles = [b \in KDbs |-> 0]
    /\ kHandle = [c \in Claims |-> 0]
    /\ kCfg = <<>> /\ kSync = {} /\ kSynced = {} /\ kDone = {}

(* Consume calls Setup, which forgets the contexts, and then ConsumeClaim for every
   claim; it does so again once all of them have returned after a rebalance.  Messages
   that were not taken are not seen again. *)
Setup ==
    /\ kSession < MaxSessions /\ \A c \in Claims : kPc[c] \in {"off", "range"}
    /\ kSession' = kSession + 1
    /\ kPc' = [c \in Claims |-> "range"]
    /\ kQueue' = [c \in Claims |-> <<>>]
    /\ dbHandles' = [b \in KDbs |-> 0]
    /\ kSynced' = {}
    /\ UNCHANGED <<kDb, kSent, kMsg, kLock, kHandle, kCfg, kSync, kDone>>

(* A terminator publishes a response, to any partition. *)
KPublish(c) ==
    /\ kSession > 0 /\ kSent < MaxKMsgs
    /\ kSent' = kSent + 1
    /\ \E m \in KMsgs : kQueue' = [kQueue EXCEPT ![c] = Append(@, m)]
    /\ UNCHANGED <<kDb, kSession, kPc, kMsg, kLock, dbHandles, kHandle, kCfg, kSync, kSynced, kDone>>

(* for msg := range claim.Messages() *)
KTake(c) ==
    /\ kPc[c] = "range" /\ kQueue[c] # <<>>
    /\ kMsg' = [kMsg EXCEPT ![c] = Head(kQueue[c])]
    /\ kQueue' = [kQueue EXCEPT ![c] = Tail(@)]
    /\ kPc' = [kPc EXCEPT ![c] = "lookup"]
    /\ UNCHANGED <<kDb, kSent, kSession, kLock, dbHandles, kHandle, kCfg, kSync, kSynced, kDone>>

(* Mutant of CanLock: handler.m.RLock(). *)
CanLockShared(c) == TRUE

CanLock(c) == kLock = {}

(* Mutant of DbKey: one context for all. *)
DbKeyConstant(c) == CHOOSE b \in KDbs : TRUE

DbKey(c) == kDb[kMsg[c].dev]

(* handler.m.Lock(); jctx, ok := handler.dbHandles[cfg.Influx.Dbname]: the lock is
   given back at once for a context that exists. *)
KLookup(c) ==
    /\ kPc[c] = "lookup" /\ CanLock(c)
    /\ IF dbHandles[DbKey(c)] = 0
       THEN /\ kPc' = [kPc EXCEPT ![c] = "init"]
            /\ kLock' = kLock \cup {c}
            /\ UNCHANGED kHandle
       ELSE /\ kPc' = [kPc EXCEPT ![c] = "assign"]
            /\ kHandle' = [kHandle EXCEPT ![c] = dbHandles[DbKey(c)]]
            /\ UNCHANGED kLock
    /\ UNCHANGED <<kDb, kSent, kSession, kQueue, kMsg, dbHandles, kCfg, kSync, kSynced, kDone>>

(* A new context: influxInit, into the map, and the lock is given back. *)
KNew(c) ==
    /\ kPc[c] = "init"
    /\ kCfg' = Append(kCfg, kMsg[c].dev)
    /\ dbHandles' = [dbHandles EXCEPT ![DbKey(c)] = Len(kCfg) + 1]
    /\ kHandle' = [kHandle EXCEPT ![c] = Len(kCfg) + 1]
    /\ kLock' = kLock \ {c}
    /\ kPc' = [kPc EXCEPT ![c] = "handle"]
    /\ UNCHANGED <<kDb, kSent, kSession, kQueue, kMsg, kSync, kSynced, kDone>>

(* jctx.config = cfg, after the lock was given back *)
KAssign(c) ==
    /\ kPc[c] = "assign"
    /\ kCfg' = [kCfg EXCEPT ![kHandle[c]] = kMsg[c].dev]
    /\ kPc' = [kPc EXCEPT ![c] = "handle"]
    /\ UNCHANGED <<kDb, kSent, kSession, kQueue, kMsg, kLock, dbHandles, kHandle, kSync, kSynced, kDone>>

(* gnmiHandleResponse with that context: data before a sync response is dropped unless
   the configuration it finds there has EOS.  Of the devices modelled, none sends a
   Juniper header. *)
KHandle(c) ==
    LET h == kHandle[c]
        d == kMsg[c].dev
    IN
    /\ kPc[c] = "handle"
    /\ kPc' = [kPc EXCEPT ![c] = "range"]
    /\ IF kMsg[c].kind = "sync"
       THEN /\ kSync' = kSync \cup {h} /\ kSynced' = kSynced \cup {d}
            /\ UNCHANGED kDone
       ELSE /\ kDone' = kDone \cup {[dev |-> d, cfg |-> kCfg[h], synced |-> d \in kSynced,
                                     published |-> kCfg[h] \in EosDevs \/ h \in kSync]}
            /\ UNCHANGED <<kSync, kSynced>>
    /\ UNCHANGED <<kDb, kSent, kSession, kQueue, kMsg, kLock, dbHandles, kHandle, kCfg>>

KNext ==
    \/ Setup
    \/ \E c \in Claims : KPublish(c) \/ KTake(c) \/ KLookup(c) \/ KNew(c) \/ KAssign(c) \/ KHandle(c)

KSpec == KInit /\ [][KNext]_kVars

-----------------------------------------------------------------------------
(* Contexts in the hands of a claim or in the map that write to database b *)
InUse(b) ==
    {kHandle[c] : c \in {x \in Claims : kPc[x] \in {"assign", "handle"} /\ kDb[kMsg[x].dev] = b}}
        \cup ({dbHandles[b]} \ {0})

(* In a session one context, with one InfluxDB client and one set of writers, serves a
   database, however many claims meet its first messages at once
   (kafka_consumer.go:91-103). *)
OneContextPerDb == \A b \in KDbs : Cardinality(InUse(b)) <= 1

(* A response is handled with its own device's configuration, is dropped only before a
   sync response of its device in this session, and is published only after one or
   with EOS; except when another device uses the same database, whose configuration or
   sync response may come in between (kafka_consumer.go:92, 102). *)
HandledAsConfigured ==
    \A r \in kDone :
        \/ \E d \in KDevs \ {r.dev} : kDb[d] = kDb[r.dev]
        \/ r.cfg = r.dev /\ r.published = (r.synced \/ r.dev \in EosDevs)

=============================================================================

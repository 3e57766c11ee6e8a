--------------------------- MODULE KafkaPublisher ---------------------------
(***************************************************************************)
(* The Kafka producer of one worker (kafka-publish.go, and the publications   *)
(* of its configuration in NewJWorker, workers.go): connected once, when the   *)
(* configuration is first read, and kept in the configuration itself.          *)
(***************************************************************************)
EXTENDS Integers

CONSTANTS
    MaxVersions   \* bound: versions of the configuration file

ASSUME KafkaPublisherAssumption == MaxVersions \in Nat \ {0}

VARIABLES
    dialOutMode,  \* --dial-out
    fileKafka,    \* the file has a kafka section
    version,      \* version of the file
    cfgVersion,   \* version that jctx.config holds
    producer,     \* jctx.config.Kafka: "nil", "idle" (without a producer) or "connected"
    toKafka,      \* the version published last on gnmi-config, 0 for none
    pbPc,         \* "init", "publish", "select" or "panic"
    connectFailed, \* KafkaInit has failed
    sendFailed,   \* the last SendMessage has failed
    skipped       \* addKafka found no producer

pbVars == <<dialOutMode, fileKafka, version, cfgVersion, producer, toKafka, pbPc, connectFailed, sendFailed, skipped>>

-----------------------------------------------------------------------------
PbInit ==
    /\ dialOutMode \in BOOLEAN /\ fileKafka \in BOOLEAN
    /\ version = 1 /\ cfgVersion = 1
    /\ producer = IF fileKafka THEN "idle" ELSE "nil"
    /\ toKafka = 0 /\ pbPc = "init"
    /\ connectFailed = FALSE /\ sendFailed = FALSE /\ skipped = FALSE

(* KafkaInit: without a kafka section only a dial-out worker connects.  An error is
   logged. *)
KafkaInit ==
    /\ pbPc = "init"
    /\ pbPc' = IF dialOutMode THEN "publish" ELSE "select"
    /\ IF fileKafka \/ dialOutMode
       THEN \/ producer' = "connected" /\ UNCHANGED connectFailed
            \/ producer' = "idle" /\ connectFailed' = TRUE
       ELSE UNCHANGED <<producer, connectFailed>>
    /\ UNCHANGED <<dialOutMode, fileKafka, version, cfgVersion, toKafka, sendFailed, skipped>>

EditFile ==
    /\ version < MaxVersions /\ version' = version + 1
    /\ UNCHANGED <<dialOutMode, fileKafka, cfgVersion, producer, toKafka, pbPc, connectFailed, sendFailed, skipped>>

(* Mutant of Sighup: a dial-out worker does not publish again. *)
SighupSilent ==
    /\ pbPc = "select" /\ pbPc' = "select"
    /\ cfgVersion' = version
    /\ producer' = IF version = cfgVersion THEN producer ELSE IF fileKafka THEN "idle" ELSE "nil"
    /\ UNCHANGED <<dialOutMode, fileKafka, version, toKafka, connectFailed, sendFailed, skipped>>

(* ConfigRead for SIGHUP: a changed configuration replaces the old one, and KafkaInit
   is not called for it. *)
Sighup ==
    /\ pbPc = "select"
    /\ pbPc' = IF dialOutMode THEN "publish" ELSE "select"
    /\ cfgVersion' = version
    /\ producer' = IF version = cfgVersion THEN producer ELSE IF fileKafka THEN "idle" ELSE "nil"
    /\ UNCHANGED <<dialOutMode, fileKafka, version, toKafka, connectFailed, sendFailed, skipped>>

(* ( *jctx.config.Kafka.producer).SendMessage of getDialOutRequest(jctx), whose error is
   logged *)
PublishConfig ==
    /\ pbPc = "publish"
    /\ \/ /\ producer = "connected" /\ pbPc' = "select"
          /\ sendFailed' \in BOOLEAN
          /\ toKafka' = IF sendFailed' THEN toKafka ELSE cfgVersion
       \/ /\ producer # "connected" /\ pbPc' = "panic"
          /\ UNCHANGED <<toKafka, sendFailed>>
    /\ UNCHANGED <<dialOutMode, fileKafka, version, cfgVersion, producer, connectFailed, skipped>>

(* addKafka for a packet *)
addKafka ==
    /\ pbPc = "select" /\ ~dialOutMode
    /\ skipped' = (skipped \/ producer # "connected")
    /\ UNCHANGED <<dialOutMode, fileKafka, version, cfgVersion, producer, toKafka, pbPc, connectFailed, sendFailed>>

PbNext == KafkaInit \/ EditFile \/ Sighup \/ PublishConfig \/ addKafka

PbSpec == PbInit /\ [][PbNext]_pbVars

-----------------------------------------------------------------------------
(* A dial-out worker that has handled its signals has published the configuration it
   holds, if Kafka took it; it ends the program, and a packet for Kafka is skipped
   silently, only if the producer could not be connected or the configuration was
   replaced by a changed one, which has no producer (workers.go:343, config.go:329, kafka-publish.go:124). *)
PublishedIsCurrent ==
    /\ pbPc = "select" /\ dialOutMode => toKafka = cfgVersion \/ sendFailed
    /\ pbPc = "panic" => connectFailed \/ cfgVersion > 1
    /\ fileKafka /\ skipped => connectFailed \/ cfgVersion > 1

=============================================================================

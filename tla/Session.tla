------------------------------ MODULE Session ------------------------------
(***************************************************************************)
(* One device in detail: the worker goroutine of NewJWorker, which re-reads *)
(* the configuration on SIGHUP and hands the signal on over jctx.control,   *)
(* and the goroutine of work, which chooses a vendor, dials, logs in and    *)
(* runs the vendor's subscribe, reconnecting until it is told to stop.      *)
(* Both read and write jctx.config without a lock.                          *)
(*                                                                         *)
(* The pre-post-gnmi vendor runs two subscriptions at once and returns with *)
(* the first result; the other one stays behind in its select for a while,  *)
(* an orphan that still listens on jctx.control.                            *)
(***************************************************************************)
EXTENDS Naturals, FiniteSets

CONSTANTS
    Hosts,       \* host:port pairs; NoHost is the empty one, ":0"
    NoHost,
    Configs,     \* the configurations the file may contain over time
    MaxReloads   \* bound: SIGHUPs that find a changed file

(* What of a configuration the session logic looks at.  "other" is a vendor
   name getVendor does not know; tlsOk says that getSecurityOptions succeeds;
   paths are the kinds of sensor path: marked "pre-gnmi", marked "gnmi", or
   neither. *)
Config == [host : Hosts, vendor : {"junos", "xr", "other"}, gnmi : {"off", "stream", "once"},
           paths : SUBSET {"plain", "pre", "gnmi"}, tlsOk : BOOLEAN]
Fields == {"host", "vendor", "gnmi", "paths", "tlsOk"}

ASSUME ConfigAssumption == Configs \subseteq Config /\ NoHost \in Hosts /\ MaxReloads \in Nat

VARIABLES
    config,      \* jctx.config
    newConfig,   \* the configuration ConfigRead is copying into it
    reloads,
    wst,         \* control state of the worker goroutine
    pc,          \* control state of work
    tryGnmi, tryPrePostGnmi,  \* its local variables
    vendor,      \* the vendor getVendor returned, by name
    host,        \* the host name it dials
    subCfg,      \* subscribeConfig
    subs,        \* the subscriptions of this connection
    waiting,     \* those whose RPC the device has not answered: not in their select yet
    orphans,     \* subscriptions left over from earlier connections
    code,        \* the SubErrorCode of the subscription
    cause,       \* why the stream ended, as the device said it
    receivedSync \* jctx.receivedSyncRsp

workVars == <<tryGnmi, tryPrePostGnmi, vendor, host, subCfg, subs, waiting, orphans,
              code, cause>>
vars == <<config, newConfig, reloads, wst, pc, workVars, receivedSync>>

(* "copy": ConfigRead is replacing jctx.config *)
WorkerStates == {"select", "copy", "ctlHup", "ctlInt", "gone"}
WorkStates == {"start", "connect", "options", "host", "signals", "dial", "login",
               "answer", "subscribe", "stream", "code", "status", "gone", "panic"}
Codes == {"none", "ConnRetry", "SighupRestart", "SighupNoRestart", "OnceComplete",
          "RPCFailedNoRetry"}
Causes == {"none", "eof", "unimplemented", "other"}

HasGnmi(c) == c.gnmi # "off"
WantsPrePost(c) == c.paths \cap {"pre", "gnmi"} # {}

getGnmiPaths(c) == {p \in c.paths : p = "gnmi" \/ (HasGnmi(c) /\ p # "pre")}
getPreGnmiPaths(c) == {p \in c.paths : p = "pre" \/ (~HasGnmi(c) /\ p # "gnmi")}

(* getVendor: the vendor's name, from the configuration and work's flags *)
VendorName(c, gnmi, prePost) ==
    IF prePost THEN "pre-post-gnmi" ELSE IF gnmi THEN "gnmi" ELSE c.vendor

-----------------------------------------------------------------------------
Init ==
    /\ config \in Configs /\ newConfig = config
    /\ reloads = 0
    /\ wst = "select"
    /\ pc = "start"
    /\ tryGnmi = FALSE /\ tryPrePostGnmi = FALSE
    /\ vendor = "other" /\ host = NoHost /\ subCfg = config
    /\ subs = {} /\ waiting = {} /\ orphans = {}
    /\ code = "none" /\ cause = "none"
    /\ receivedSync = FALSE

-----------------------------------------------------------------------------
(* The worker goroutine *)

(* SIGHUP: ConfigRead(&jctx, false, &restart); an unreadable or unchanged file
   changes nothing.  The struct is copied while work may be reading it: some
   fields first, the others later. *)
Sighup ==
    /\ wst = "select" /\ reloads < MaxReloads
    /\ reloads' = reloads + 1
    /\ \E c \in Configs \ {config}, first \in SUBSET Fields :
         /\ newConfig' = c
         /\ config' = [f \in Fields |-> IF f \in first THEN c[f] ELSE config[f]]
    /\ wst' = "copy"
    /\ UNCHANGED <<pc, workVars, receivedSync>>

(* ... then jctx.control <- SIGHUP *)
Copied ==
    /\ wst = "copy"
    /\ config' = newConfig
    /\ wst' = "ctlHup"
    /\ UNCHANGED <<newConfig, reloads, pc, workVars, receivedSync>>

(* os.Interrupt: wg.Done, then jctx.control <- os.Interrupt *)
Interrupt ==
    /\ wst = "select"
    /\ wst' = "ctlInt"
    /\ UNCHANGED <<config, newConfig, reloads, pc, workVars, receivedSync>>

(* case <-statusch: work has ended by itself *)
Status ==
    /\ wst = "select" /\ pc = "status"
    /\ wst' = "gone" /\ pc' = "gone"
    /\ UNCHANGED <<config, newConfig, reloads, workVars, receivedSync>>

-----------------------------------------------------------------------------
(* The goroutine of work *)

Start ==
    /\ pc = "start"
    /\ tryGnmi' = HasGnmi(config)
    /\ tryPrePostGnmi' = WantsPrePost(config)
    /\ pc' = "connect"
    /\ UNCHANGED <<config, newConfig, reloads, wst, vendor, host, subCfg, subs, waiting,
                   orphans, code, cause, receivedSync>>

(* An unknown vendor sleeps and tries again, without looking at jctx.control. *)
GetVendor ==
    /\ pc = "connect"
    /\ VendorName(config, tryGnmi, tryPrePostGnmi) # "other"
    /\ vendor' = VendorName(config, tryGnmi, tryPrePostGnmi)
    /\ pc' = "options"
    /\ UNCHANGED <<config, newConfig, reloads, wst, tryGnmi, tryPrePostGnmi, host, subCfg,
                   subs, waiting, orphans, code, cause, receivedSync>>

GetDialOptions ==
    /\ pc = "options"
    /\ pc' = IF config.tlsOk THEN "host" ELSE "status"
    /\ UNCHANGED <<config, newConfig, reloads, wst, workVars, receivedSync>>

ReadHost ==
    /\ pc = "host"
    /\ host' = config.host
    /\ pc' = IF config.host = NoHost THEN "status" ELSE "signals"
    /\ UNCHANGED <<config, newConfig, reloads, wst, tryGnmi, tryPrePostGnmi, vendor, subCfg,
                   subs, waiting, orphans, code, cause, receivedSync>>

(* Mutant of CheckSignals: SIGINT falls through as SIGHUP does. *)
CheckSignalsFallsThrough ==
    /\ pc = "signals"
    /\ \/ wst = "ctlInt" /\ wst' = "gone"
       \/ wst = "ctlHup" /\ wst' = "select"
       \/ wst \notin {"ctlInt", "ctlHup"} /\ UNCHANGED wst
    /\ pc' = "dial"
    /\ UNCHANGED <<config, newConfig, reloads, workVars, receivedSync>>

(* select { case s := <-jctx.control: ... default: }.  SIGHUP falls through to
   the dial. *)
CheckSignals ==
    /\ pc = "signals"
    /\ \/ wst = "ctlInt" /\ wst' = "gone" /\ pc' = "status"
       \/ wst = "ctlHup" /\ wst' = "select" /\ pc' = "dial"
       \/ wst \notin {"ctlInt", "ctlHup"} /\ pc' = "dial" /\ UNCHANGED wst
    /\ UNCHANGED <<config, newConfig, reloads, workVars, receivedSync>>

(* grpc.Dial; a failure goes back to connect with the flags as they are. *)
GrpcDial ==
    /\ pc = "dial"
    /\ pc' \in {"connect", "login"}
    /\ UNCHANGED <<config, newConfig, reloads, wst, workVars, receivedSync>>

(* Only junos and pre-post-gnmi log in; a failed login refreshes tryGnmi. *)
LoginCheckRequired ==
    \/ vendor = "junos"
    \/ /\ tryPrePostGnmi
       /\ \E p \in config.paths : p = "pre" \/ (~tryGnmi /\ p = "plain")

(* Without credentials, or with Meta, loginCheckJunos makes no call. *)
LoginCheck ==
    /\ pc = "login"
    /\ \/ pc' = "subscribe"
       \/ LoginCheckRequired /\ pc' = "answer"
    /\ UNCHANGED <<config, newConfig, reloads, wst, workVars, receivedSync>>

(* The device answers LoginCheck, which has no deadline: until then work reads
   nothing from jctx.control. *)
LoginAnswer ==
    /\ pc = "answer"
    /\ \/ pc' = "subscribe" /\ UNCHANGED tryGnmi
       \/ pc' = "connect" /\ tryGnmi' = HasGnmi(config)
    /\ UNCHANGED <<config, newConfig, reloads, wst, tryPrePostGnmi, vendor, host, subCfg,
                   subs, waiting, orphans, code, cause, receivedSync>>

(* subscribeConfig := jctx.config and vendor.subscribe, which opens a stream and,
   but for IOS XR, waits for the device before it comes to its select.  A gNMI
   subscription of a configuration without vendor.gnmi dereferences a nil pointer. *)
SubsOf(v, c) ==
    IF v = "pre-post-gnmi"
    THEN (IF getGnmiPaths(c) # {} THEN {"gnmi"} ELSE {})
           \cup (IF getPreGnmiPaths(c) # {} THEN {"junos"} ELSE {})
    ELSE {v}

Subscribe ==
    /\ pc = "subscribe"
    /\ subCfg' = config
    /\ subs' = SubsOf(vendor, config)
    /\ waiting' = subs' \ {"xr"}
    /\ pc' = IF "gnmi" \in subs' /\ ~HasGnmi(config) THEN "panic" ELSE "stream"
    /\ cause' = "none"
    /\ UNCHANGED <<config, newConfig, reloads, wst, tryGnmi, tryPrePostGnmi, vendor, host,
                   orphans, code, receivedSync>>

(* Mutant of Return: the subscription that returned stays behind as well. *)
ReturnLeavesAll(k, c) ==
    /\ code' = c
    /\ pc' = "code"
    /\ subs' = {} /\ waiting' = {}
    /\ orphans' = orphans \cup subs
    /\ UNCHANGED <<config, newConfig, reloads, tryGnmi, tryPrePostGnmi, vendor, host, subCfg>>

(* The subscription k returns c; conn.Close.  pre-post-gnmi leaves the other
   subscription behind; if that one still waits, closing the connection lets it go on. *)
Return(k, c) ==
    /\ code' = c
    /\ pc' = "code"
    /\ subs' = {} /\ waiting' = {}
    /\ orphans' = orphans \cup (subs \ {k})
    /\ UNCHANGED <<config, newConfig, reloads, tryGnmi, tryPrePostGnmi, vendor, host, subCfg>>

(* Mutants of StreamControl: SIGHUP is taken and ignored; SIGHUP is not taken. *)
StreamControlIgnoresHup ==
    /\ pc = "stream"
    /\ \E k \in subs \ waiting :
         \/ /\ wst = "ctlHup" /\ wst' = "select"
            /\ UNCHANGED <<config, newConfig, reloads, pc, tryGnmi, tryPrePostGnmi, vendor,
                           host, subCfg, subs, waiting, orphans, code>>
         \/ wst = "ctlInt" /\ wst' = "gone" /\ Return(k, "SighupNoRestart")
    /\ UNCHANGED <<cause, receivedSync>>
StreamControlIntOnly ==
    /\ pc = "stream"
    /\ wst = "ctlInt" /\ wst' = "gone"
    /\ \E k \in subs \ waiting : Return(k, "SighupNoRestart")
    /\ UNCHANGED <<cause, receivedSync>>

(* case s := <-jctx.control of the subscription's select *)
StreamControl ==
    /\ pc = "stream"
    /\ \E k \in subs \ waiting :
         \/ wst = "ctlHup" /\ wst' = "select" /\ Return(k, "SighupRestart")
         \/ wst = "ctlInt" /\ wst' = "gone" /\ Return(k, "SighupNoRestart")
    /\ UNCHANGED <<cause, receivedSync>>

(* The device answers the call that opens a stream: junos waits for its header, and
   goes on if there is none, gNMI for Subscribe and Send. *)
Opened ==
    /\ pc = "stream"
    /\ \E k \in waiting : waiting' = waiting \ {k}
    /\ UNCHANGED <<config, newConfig, reloads, wst, pc, tryGnmi, tryPrePostGnmi, vendor, host,
                   subCfg, subs, orphans, code, cause, receivedSync>>

(* ... or refuses it; a gNMI path that does not parse ends here as well. *)
OpenFails ==
    /\ pc = "stream"
    /\ \E k \in waiting : Return(k, "ConnRetry")
    /\ cause' = "other"
    /\ UNCHANGED <<wst, receivedSync>>

SyncResponse ==
    /\ pc = "stream" /\ "gnmi" \in subs \ waiting
    /\ receivedSync' = TRUE
    /\ UNCHANGED <<config, newConfig, reloads, wst, pc, workVars>>

(* The code of a gNMI stream that ended for reason e: status.FromError is given
   the outer err, which is nil, so no error of the device is recognised. *)
GnmiCode(e, c, sync) ==
    IF e = "eof" /\ c.gnmi = "once" /\ sync THEN "OnceComplete" ELSE "ConnRetry"

(* The receiving goroutine meets EOF or an error and reports it on datach. *)
StreamEnds ==
    /\ pc = "stream"
    /\ \E k \in subs \ waiting, e \in Causes \ {"none"} :
         /\ cause' = e
         /\ Return(k, IF k = "gnmi" THEN GnmiCode(e, subCfg, receivedSync) ELSE "ConnRetry")
    /\ UNCHANGED <<wst, receivedSync>>

(* Mutants of HandleCode: a retry always tries gNMI; SIGINT reconnects. *)
HandleCodeAlwaysGnmi ==
    /\ pc = "code"
    /\ code' = "none"
    /\ IF code \in {"SighupNoRestart", "OnceComplete"}
       THEN pc' = "status" /\ UNCHANGED tryGnmi
       ELSE pc' = "connect" /\ tryGnmi' = (code # "RPCFailedNoRetry")
    /\ UNCHANGED <<config, newConfig, reloads, wst, tryPrePostGnmi, vendor, host, subCfg,
                   subs, waiting, orphans, cause, receivedSync>>
HandleCodeRestarts ==
    /\ pc = "code"
    /\ code' = "none"
    /\ IF code = "OnceComplete"
       THEN pc' = "status" /\ UNCHANGED tryGnmi
       ELSE pc' = "connect" /\ tryGnmi' = (code # "RPCFailedNoRetry" /\ HasGnmi(config))
    /\ UNCHANGED <<config, newConfig, reloads, wst, tryPrePostGnmi, vendor, host, subCfg,
                   subs, waiting, orphans, cause, receivedSync>>

(* switch code *)
HandleCode ==
    /\ pc = "code"
    /\ code' = "none"
    /\ IF code \in {"SighupNoRestart", "OnceComplete"}
       THEN pc' = "status" /\ UNCHANGED tryGnmi
       ELSE pc' = "connect" /\ tryGnmi' = (code # "RPCFailedNoRetry" /\ HasGnmi(config))
    /\ UNCHANGED <<config, newConfig, reloads, wst, tryPrePostGnmi, vendor, host, subCfg,
                   subs, waiting, orphans, cause, receivedSync>>

(* An orphan takes whatever it is offered on jctx.control, or notices that its
   connection is closed; either way it then waits forever for a reader of its
   result. *)
OrphanControl ==
    /\ \E k \in orphans :
         /\ orphans' = orphans \ {k}
         /\ wst' = CASE wst = "ctlHup" -> "select" [] wst = "ctlInt" -> "gone" [] OTHER -> wst
    /\ wst \in {"ctlHup", "ctlInt"}
    /\ UNCHANGED <<config, newConfig, reloads, pc, tryGnmi, tryPrePostGnmi, vendor, host,
                   subCfg, subs, waiting, code, cause, receivedSync>>

OrphanEnds ==
    /\ \E k \in orphans : orphans' = orphans \ {k}
    /\ UNCHANGED <<config, newConfig, reloads, wst, pc, tryGnmi, tryPrePostGnmi, vendor, host,
                   subCfg, subs, waiting, code, cause, receivedSync>>

-----------------------------------------------------------------------------
(* What the goroutine of work does by itself, and what it needs the device for. *)
WorkStep ==
    \/ Start \/ GetVendor \/ GetDialOptions \/ ReadHost \/ CheckSignals
    \/ GrpcDial \/ LoginCheck \/ Subscribe \/ StreamControl \/ HandleCode

Device == LoginAnswer \/ Opened \/ OpenFails \/ SyncResponse \/ StreamEnds

Worker == Copied \/ Status

Alive == pc # "panic"

Next ==
    /\ Alive
    /\ \/ WorkStep \/ Device \/ Worker
       \/ OrphanControl \/ OrphanEnds
       \/ Sighup \/ Interrupt

(* Go schedules both goroutines, and the receiver of a closed connection ends.
   Whether a device ever answers, when it syncs or ends a stream and which signals
   arrive is up to the environment. *)
Spec == Init /\ [][Next]_vars
FairSpec ==
    /\ Spec
    /\ WF_vars(Alive /\ WorkStep)
    /\ WF_vars(Alive /\ Worker)
    /\ WF_vars(Alive /\ OrphanEnds)

-----------------------------------------------------------------------------
(* Properties *)

TypeOK ==
    /\ config \in Config /\ newConfig \in Config /\ subCfg \in Config
    /\ reloads \in 0 .. MaxReloads
    /\ wst \in WorkerStates /\ pc \in WorkStates
    /\ tryGnmi \in BOOLEAN /\ tryPrePostGnmi \in BOOLEAN /\ receivedSync \in BOOLEAN
    /\ vendor \in {"junos", "xr", "gnmi", "pre-post-gnmi", "other"}
    /\ host \in Hosts
    /\ subs \subseteq {"junos", "xr", "gnmi"} /\ waiting \subseteq subs \ {"xr"}
    /\ orphans \subseteq {"junos", "gnmi"}
    /\ code \in Codes /\ cause \in Causes

(* A stream that no pending SIGHUP is about to restart was subscribed with the
   configuration in force, also when SIGHUP arrived in the middle of a
   connection attempt, or between two reads of a configuration being copied
   (workers.go:317-335, 708-776).  The exception is pre-post-gnmi, whose
   orphans may take the SIGHUP instead. *)
SubscriptionFollowsConfig ==
    ~tryPrePostGnmi /\ pc = "stream" /\ wst = "select" => subCfg = config

(* The same of the connection below it: "Read the host-name and vendor from the
   config as they might be changed" (workers.go:686), "the config is re-read
   for each connection attempt" (workers.go:717-718). *)
ConnectedAsConfigured ==
    ~tryPrePostGnmi /\ pc = "stream" /\ wst = "select" =>
        /\ host = config.host
        /\ vendor = VendorName(config, HasGnmi(config), WantsPrePost(config))

(* "Unimplemented if RPC is not available yet" (subscribe_gnmi.go:592-596) must
   make work "fallback to vendor mode" (workers.go:789-793). *)
UnimplementedFallsBack ==
    pc = "code" /\ vendor = "gnmi" /\ cause = "unimplemented" => code = "RPCFailedNoRetry"

(* The nil dereference of subscribe_gnmi.go:505 needs a path marked gnmi without
   vendor.gnmi, or a reload: the flags are fresh on every other way to it. *)
PanicNeedsReload ==
    pc = "panic" => reloads > 0 \/ ("gnmi" \in config.paths /\ ~HasGnmi(config))

(* No subscription of the connection has come to its select: LoginCheck
   (subscribe_juniper_junos.go:312), stream.Header (191) and gNMI's Subscribe
   (subscribe_gnmi.go:547) have no deadline, so a device that is silent here leaves
   jctx.control without a listener for as long as it likes. *)
WaitsForDevice ==
    \/ pc = "answer"
    \/ pc = "stream" /\ subs # {} /\ subs \subseteq waiting

(* Again and again no call of work is left unanswered. *)
DeviceAnswers == []<>~WaitsForDevice

(* If the device answers, jctx.control is never left without a listener while work
   keeps running: a SIGHUP the worker has begun to hand over is taken
   (workers.go:329-331), unless the vendor is unknown, work is ending, or the
   pre-post-gnmi vendor has nothing to subscribe. *)
SessionGoesOn ==
    /\ pc \notin {"status", "panic"}
    /\ VendorName(config, tryGnmi, tryPrePostGnmi) # "other"
    /\ pc = "stream" => subs # {}
SighupIsTaken ==
    []SessionGoesOn /\ DeviceAnswers => (wst = "ctlHup" ~> wst # "ctlHup")

(* "let the downstream subscribe go routines know we are done and no need to
   restart" (workers.go:312): after SIGINT work stops if the device answers, without
   pre-post-gnmi. *)
InterruptStopsWork ==
    [](~tryPrePostGnmi /\ config.vendor # "other") /\ DeviceAnswers =>
        (wst = "ctlInt" ~> pc \in {"status", "panic"})

(* A worker goroutine that has ended has no session left: its work has stopped
   or stands at statusch, and never streams for a device the operator removed
   (workers.go:304-316, 357-364).  Again, orphans of pre-post-gnmi excepted. *)
EndedWorkerHasNoSession ==
    wst = "gone" /\ ~tryPrePostGnmi => pc \in {"code", "status", "gone", "panic"}
=============================================================================

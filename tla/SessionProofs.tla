--------------------------- MODULE SessionProofs ---------------------------
(***************************************************************************)
(* Theorems about one device's worker: its session, for any set of hosts,  *)
(* and its log files, for any set of configurations and any number of       *)
(* reloads and packets.                                                     *)
(***************************************************************************)
EXTENDS Session, Logs, SequenceTheorems, TLAPS

USE DEF workVars

-----------------------------------------------------------------------------
(* The inductive invariant, by parts *)

(* From GetVendor to Subscribe the vendor is one that getVendor knows. *)
VendorIsKnown ==
    pc \in {"options", "host", "signals", "dial", "login", "answer", "subscribe"} =>
        vendor # "other"

(* Subscriptions exist only inside vendor.subscribe.  Only pre-post-gnmi has two of
   them, so that nothing but it leaves an orphan behind. *)
SubsAreVendors ==
    /\ pc \notin {"stream", "panic"} => subs = {}
    /\ waiting \subseteq subs
    /\ "xr" \in subs => subs = {"xr"}
    /\ pc = "start" => ~tryPrePostGnmi
    /\ ~tryPrePostGnmi =>
         vendor # "pre-post-gnmi" /\ subs \subseteq {vendor} /\ orphans = {}

(* A stream's configuration is behind only while the worker is copying a new one or
   is about to hand SIGHUP over, whatever else the worker does next. *)
StreamIsCurrent ==
    ~tryPrePostGnmi /\ pc = "stream" /\ wst \notin {"copy", "ctlHup"} => subCfg = config

(* A subscription that took SIGINT has told so in its code. *)
InterruptIsInCode ==
    wst = "gone" /\ ~tryPrePostGnmi =>
        /\ pc \in {"code", "status", "gone", "panic"}
        /\ pc = "code" => code = "SighupNoRestart"

(* Until the first reload work's flag and vendor agree with the configuration. *)
FlagsAreFresh ==
    /\ wst = "copy" => reloads > 0
    /\ reloads = 0 => (tryGnmi \/ vendor = "gnmi" => HasGnmi(config))

(* The first two are what type correctness needs; the safety properties rest on all. *)
TypeInv == TypeOK /\ VendorIsKnown /\ SubsAreVendors

SafetyInv == StreamIsCurrent /\ InterruptIsInCode /\ FlagsAreFresh /\ PanicNeedsReload

(* The struct copy of ConfigRead leaves a configuration at every point: each field is
   the old or the new one. *)
LEMMA TornConfig ==
  ASSUME NEW c \in Config, NEW d \in Config, NEW first \in SUBSET Fields
  PROVE  [f \in Fields |-> IF f \in first THEN c[f] ELSE d[f]] \in Config
  BY DEF Config, Fields

LEMMA VendorNames ==
  ASSUME NEW c \in Config, NEW g \in BOOLEAN, NEW p \in BOOLEAN
  PROVE  /\ VendorName(c, g, p) \in {"junos", "xr", "gnmi", "pre-post-gnmi", "other"}
         /\ ~p => VendorName(c, g, p) # "pre-post-gnmi"
         /\ VendorName(c, g, p) = "gnmi" => g
  BY DEF VendorName, Config

LEMMA SubsOfVendor ==
  ASSUME NEW v \in {"junos", "xr", "gnmi", "pre-post-gnmi"}, NEW c \in Config
  PROVE  /\ SubsOf(v, c) \subseteq {"junos", "xr", "gnmi"}
         /\ "xr" \in SubsOf(v, c) => SubsOf(v, c) = {"xr"}
         /\ v # "pre-post-gnmi" => SubsOf(v, c) = {v}
         /\ "gnmi" \in SubsOf(v, c) => v = "gnmi" \/ HasGnmi(c) \/ "gnmi" \in c.paths
  BY DEF SubsOf, getGnmiPaths

LEMMA ReturnTypes ==
  ASSUME TypeOK, SubsAreVendors, NEW k \in subs, NEW c \in Codes, Return(k, c)
  PROVE  /\ orphans' \subseteq {"junos", "gnmi"}
         /\ ~tryPrePostGnmi => orphans' = {}
         /\ subs' = {} /\ waiting' = {} /\ pc' = "code" /\ code' = c
  BY DEF Return, TypeOK, SubsAreVendors

-----------------------------------------------------------------------------
(* Type correctness *)

LEMMA TypeStep == TypeInv /\ [Next]_vars => TypeInv'
  <1> SUFFICES ASSUME TypeInv, [Next]_vars PROVE TypeInv'
    OBVIOUS
  <1> USE ConfigAssumption DEF TypeInv, TypeOK, VendorIsKnown, SubsAreVendors,
                               WorkerStates, WorkStates, Codes, Causes
  <1>1. CASE Start
    BY <1>1 DEF Start, HasGnmi, WantsPrePost
  <1>2. CASE GetVendor
    BY <1>2, VendorNames DEF GetVendor
  <1>3. CASE GetDialOptions
    BY <1>3 DEF GetDialOptions
  <1>4. CASE ReadHost
    BY <1>4 DEF ReadHost, Config
  <1>5. CASE CheckSignals
    BY <1>5 DEF CheckSignals
  <1>6. CASE GrpcDial
    BY <1>6 DEF GrpcDial
  <1>7. CASE LoginCheck
    <2>1. pc' \in {"subscribe", "answer"} /\ pc = "login"
      BY <1>7 DEF LoginCheck
    <2> QED BY <1>7, <2>1 DEF LoginCheck
  <1>8. CASE Subscribe
    BY <1>8, SubsOfVendor DEF Subscribe
  <1>9. CASE StreamControl
    <2>1. PICK k \in subs : \/ wst' = "select" /\ Return(k, "SighupRestart")
                            \/ wst' = "gone" /\ Return(k, "SighupNoRestart")
      BY <1>9 DEF StreamControl
    <2> QED BY <1>9, <2>1, ReturnTypes DEF StreamControl, Return
  <1>10. CASE HandleCode
    <2>1. tryGnmi' \in BOOLEAN
      BY <1>10 DEF HandleCode, HasGnmi
    <2>2. /\ pc = "code" /\ pc' \in {"status", "connect"} /\ code' = "none"
          /\ UNCHANGED <<config, newConfig, reloads, wst, tryPrePostGnmi, vendor, host, subCfg,
                         subs, waiting, orphans, cause, receivedSync>>
      BY <1>10 DEF HandleCode
    <2> QED BY <2>1, <2>2
  <1>11. CASE Copied
    BY <1>11 DEF Copied
  <1>12. CASE Status
    BY <1>12 DEF Status
  <1>13. CASE OrphanControl
    BY <1>13 DEF OrphanControl
  <1>14. CASE OrphanEnds
    BY <1>14 DEF OrphanEnds
  <1>15. CASE Sighup
    <2>1. PICK c \in Configs \ {config}, first \in SUBSET Fields :
                 /\ newConfig' = c
                 /\ config' = [f \in Fields |-> IF f \in first THEN c[f] ELSE config[f]]
      BY <1>15 DEF Sighup
    <2>2. config' \in Config /\ newConfig' \in Config
      BY <2>1, TornConfig
    <2> QED BY <1>15, <2>2 DEF Sighup
  <1>16. CASE Interrupt
    BY <1>16 DEF Interrupt
  <1>17. CASE SyncResponse
    BY <1>17 DEF SyncResponse
  <1>18. CASE StreamEnds
    <2>1. PICK k \in subs \ waiting, e \in Causes \ {"none"} :
                 /\ cause' = e
                 /\ Return(k, IF k = "gnmi" THEN GnmiCode(e, subCfg, receivedSync)
                              ELSE "ConnRetry")
      BY <1>18 DEF StreamEnds
    <2>2. (IF k = "gnmi" THEN GnmiCode(e, subCfg, receivedSync) ELSE "ConnRetry") \in Codes
      BY DEF GnmiCode
    <2> QED BY <1>18, <2>1, <2>2, ReturnTypes DEF StreamEnds, Return
  <1>19. CASE UNCHANGED vars
    BY <1>19 DEF vars
  <1>20. CASE LoginAnswer
    <2>1. tryGnmi' \in BOOLEAN
      BY <1>20 DEF LoginAnswer, HasGnmi
    <2>2. /\ pc = "answer" /\ pc' \in {"subscribe", "connect"}
          /\ UNCHANGED <<config, newConfig, reloads, wst, tryPrePostGnmi, vendor, host, subCfg,
                         subs, waiting, orphans, code, cause, receivedSync>>
      BY <1>20 DEF LoginAnswer
    <2> QED BY <2>1, <2>2
  <1>21. CASE Opened
    BY <1>21 DEF Opened
  <1>22. CASE OpenFails
    <2>1. PICK k \in subs : Return(k, "ConnRetry")
      BY <1>22 DEF OpenFails
    <2> QED BY <1>22, <2>1, ReturnTypes DEF OpenFails, Return
  <1> QED
    BY <1>1, <1>2, <1>3, <1>4, <1>5, <1>6, <1>7, <1>8, <1>9, <1>10, <1>11, <1>12, <1>13,
       <1>14, <1>15, <1>16, <1>17, <1>18, <1>19, <1>20, <1>21, <1>22
    DEF Next, WorkStep, Device, Worker

LEMMA TypeInit == Init => TypeInv
  <1> SUFFICES ASSUME Init PROVE TypeInv
    OBVIOUS
  <1> USE ConfigAssumption DEF Init
  <1>1. /\ config \in Config /\ newConfig \in Config /\ subCfg \in Config
        /\ reloads \in 0 .. MaxReloads /\ host \in Hosts
    OBVIOUS
  <1>2. tryGnmi \in BOOLEAN /\ tryPrePostGnmi \in BOOLEAN /\ receivedSync \in BOOLEAN
    OBVIOUS
  <1>3. wst \in WorkerStates /\ pc \in WorkStates /\ code \in Codes /\ cause \in Causes
    BY DEF WorkerStates, WorkStates, Codes, Causes
  <1>4. VendorIsKnown /\ SubsAreVendors
    BY DEF VendorIsKnown, SubsAreVendors
  <1> QED BY <1>1, <1>2, <1>3, <1>4 DEF TypeInv, TypeOK

(* Every value of the session's state has its type: in particular a torn copy of the
   configuration is one, no subscription of an unknown vendor is ever made, and only
   the two subscriptions of pre-post-gnmi become orphans. *)
THEOREM TypeCorrect == Spec => []TypeOK
  <1>1. TypeInv => TypeOK
    BY DEF TypeInv
  <1> QED BY <1>1, TypeInit, TypeStep, PTL DEF Spec

-----------------------------------------------------------------------------
(* The safety invariants *)

LEMMA SafetyStep == TypeInv /\ SafetyInv /\ [Next]_vars => SafetyInv'
  <1> SUFFICES ASSUME TypeInv, SafetyInv, [Next]_vars PROVE SafetyInv'
    OBVIOUS
  <1> USE ConfigAssumption DEF TypeInv, TypeOK, SubsAreVendors, SafetyInv,
          StreamIsCurrent, InterruptIsInCode, FlagsAreFresh, PanicNeedsReload
  <1>0. reloads \in Nat
    OBVIOUS
  <1>1. CASE Start
    BY <1>1 DEF Start
  <1>2. CASE GetVendor
    BY <1>2, VendorNames DEF GetVendor
  <1>3. CASE GetDialOptions
    BY <1>3 DEF GetDialOptions
  <1>4. CASE ReadHost
    BY <1>4 DEF ReadHost
  <1>5. CASE CheckSignals
    BY <1>5 DEF CheckSignals
  <1>6. CASE GrpcDial
    BY <1>6 DEF GrpcDial
  <1>7. CASE LoginCheck
    BY <1>7 DEF LoginCheck
  <1>8. CASE Subscribe
    BY <1>0, <1>8, SubsOfVendor DEF Subscribe, VendorIsKnown
  <1>9. CASE StreamControl
    <2>1. PICK k \in subs : \/ wst' = "select" /\ Return(k, "SighupRestart")
                            \/ wst' = "gone" /\ Return(k, "SighupNoRestart")
      BY <1>9 DEF StreamControl
    <2> QED BY <1>9, <2>1 DEF StreamControl, Return
  <1>10. CASE HandleCode
    BY <1>10 DEF HandleCode
  <1>11. CASE Copied
    BY <1>0, <1>11 DEF Copied
  <1>12. CASE Status
    BY <1>12 DEF Status
  <1>13. CASE OrphanControl
    BY <1>13 DEF OrphanControl
  <1>14. CASE OrphanEnds
    BY <1>14 DEF OrphanEnds
  <1>15. CASE Sighup
    <2>1. reloads' > 0 /\ wst' = "copy" /\ pc' = pc /\ wst = "select"
      BY <1>0, <1>15 DEF Sighup
    <2> QED BY <1>15, <2>1 DEF Sighup
  <1>16. CASE Interrupt
    BY <1>16 DEF Interrupt
  <1>17. CASE SyncResponse
    BY <1>17 DEF SyncResponse
  <1>18. CASE StreamEnds
    <2>1. PICK k \in subs \ waiting, e \in Causes \ {"none"} :
                 Return(k, IF k = "gnmi" THEN GnmiCode(e, subCfg, receivedSync)
                              ELSE "ConnRetry")
      BY <1>18 DEF StreamEnds
    <2> QED BY <1>18, <2>1 DEF StreamEnds, Return
  <1>19. CASE UNCHANGED vars
    BY <1>19 DEF vars
  <1>20. CASE LoginAnswer
    BY <1>20 DEF LoginAnswer
  <1>21. CASE Opened
    BY <1>21 DEF Opened
  <1>22. CASE OpenFails
    <2>1. PICK k \in waiting : Return(k, "ConnRetry")
      BY <1>22 DEF OpenFails
    <2> QED BY <1>22, <2>1 DEF OpenFails, Return
  <1> QED
    BY <1>1, <1>2, <1>3, <1>4, <1>5, <1>6, <1>7, <1>8, <1>9, <1>10, <1>11, <1>12, <1>13,
       <1>14, <1>15, <1>16, <1>17, <1>18, <1>19, <1>20, <1>21, <1>22
    DEF Next, WorkStep, Device, Worker

LEMMA Safety == Spec => [](TypeInv /\ SafetyInv)
  <1>1. Init => SafetyInv
    BY DEF Init, SafetyInv, StreamIsCurrent, InterruptIsInCode, FlagsAreFresh,
           PanicNeedsReload
  <1> QED BY <1>1, TypeInit, TypeStep, SafetyStep, PTL DEF Spec

(* Whatever point of a connection attempt SIGHUP meets, and however often, a stream that
   no pending SIGHUP is about to restart uses the configuration in force. *)
THEOREM SubscriptionsFollow == Spec => []SubscriptionFollowsConfig
  <1>1. TypeInv /\ SafetyInv => SubscriptionFollowsConfig
    BY DEF SafetyInv, StreamIsCurrent, SubscriptionFollowsConfig
  <1> QED BY <1>1, Safety, PTL

(* The nil dereference of a gNMI subscription needs a reload or a path marked gnmi in
   a configuration without vendor.gnmi. *)
THEOREM PanicsNeedReload == Spec => []PanicNeedsReload
  <1>1. TypeInv /\ SafetyInv => PanicNeedsReload
    BY DEF SafetyInv
  <1> QED BY <1>1, Safety, PTL

(* A worker goroutine that has ended leaves no session behind. *)
THEOREM EndedWorkersHaveNoSession == Spec => []EndedWorkerHasNoSession
  <1>1. TypeInv /\ SafetyInv => EndedWorkerHasNoSession
    BY DEF SafetyInv, InterruptIsInCode, EndedWorkerHasNoSession
  <1> QED BY <1>1, Safety, PTL

-----------------------------------------------------------------------------
(* The worker's steps as positions in one script: a reload runs from 1 to 9, the start
   of the worker from 6 to 9 and its end from 1 to 4.  Place(f) is where file f is
   closed; it is opened again five steps later. *)
Script(i) ==
    IF i = 1 THEN "stop log" ELSE IF i = 2 THEN "stop data" ELSE
    IF i = 3 THEN "stop pre" ELSE IF i = 4 THEN "stop csv" ELSE
    IF i = 5 THEN "assign" ELSE
    IF i = 6 THEN "open log" ELSE IF i = 7 THEN "open data" ELSE
    IF i = 8 THEN "open pre" ELSE "open csv"

Steps == {"stop log", "stop data", "stop pre", "stop csv", "assign",
          "open log", "open data", "open pre", "open csv"}

Place(f) == IF f = "log" THEN 1 ELSE IF f = "data" THEN 2 ELSE IF f = "pre" THEN 3 ELSE 4

Pos == IF lgEnded THEN 5 - Len(lgTodo) ELSE 10 - Len(lgTodo)

TodoIsScript ==
    /\ lgTodo \in Seq(Steps) /\ Len(lgTodo) <= (IF lgEnded THEN 4 ELSE 9)
    /\ \A i \in 1 .. Len(lgTodo) : lgTodo[i] = Script(Pos + i - 1)

LgTypeOK ==
    /\ held \in [Files -> Nat] /\ opened \subseteq Nat
    /\ lastFile \in Nat /\ lgReloads \in Nat
    /\ lgEnded \in BOOLEAN

(* No two loggers write to one file. *)
HeldOnce ==
    /\ \A f \in Files : held[f] <= lastFile
    /\ \A f, g \in Files : held[f] = held[g] /\ f # g => held[f] = 0

(* Also in the middle of a reload no file is leaked. *)
OpenIsHeld == \A x \in Nat : x \in opened <=> x # 0 /\ \E f \in Files : held[f] = x

(* internalJtimonLogStop finds every open CSV file: it is the configuration's. *)
CsvIsConfigured == held["csv"] # 0 => stats /\ lgCfg.csv

(* Between the step that closes a file and the one that opens it again there is none. *)
ClosedMeanwhile ==
    \A f \in Files : Pos \in Place(f) + 1 .. Place(f) + 5 => held[f] = 0

FilesInv ==
    TodoIsScript /\ LgTypeOK /\ HeldOnce /\ OpenIsHeld /\ CsvIsConfigured /\ ClosedMeanwhile

(* Before the first reload, with every file opened: the files are those of the
   configuration, nobody writes before all are open, and a goroutine that has checked
   a logger still finds it. *)
Fresh == lgReloads = 0 /\ ~lgEnded /\ ~lgFailed
FreshFiles ==
    Fresh => /\ Pos >= 6
             /\ \A f \in Files : Wanted(f) /\ Pos > Place(f) + 5 => held[f] # 0
             /\ held["data"] # 0 => lgCfg.data
FreshWriters ==
    Fresh =>
        /\ lgTodo # <<>> => wr["packet"] = <<>> /\ wr["periodic"] = <<>> /\ totalIn = 0
        /\ \A kind \in {"oc", "gnmi"} :
             /\ wr["packet"] = <<kind, "csv">> => held["csv"] # 0
             /\ wr["packet"] = <<kind, "log">> => held["log"] # 0
             /\ wr["packet"] = <<kind, "print">> => held["data"] # 0 /\ held["pre"] # 0
        /\ wr["periodic"] = <<"log">> => held["log"] # 0

WritersInv ==
    /\ DOMAIN wr = Writers
    /\ FreshFiles /\ FreshWriters /\ NilLoggerNeedsReload

-----------------------------------------------------------------------------
(* The script *)

LEMMA StepFiles ==
  /\ StepFile("stop log") = "log" /\ StepFile("open log") = "log"
  /\ StepFile("stop data") = "data" /\ StepFile("open data") = "data"
  /\ StepFile("stop pre") = "pre" /\ StepFile("open pre") = "pre"
  /\ StepFile("stop csv") = "csv" /\ StepFile("open csv") = "csv"
  BY Zenon DEF StepFile

LEMMA WantedFiles ==
  /\ Wanted("log") <=> lgCfg.log
  /\ Wanted("data") <=> lgCfg.data
  /\ Wanted("pre") <=> lgCfg.data
  /\ Wanted("csv") <=> stats /\ lgCfg.csv
  BY Zenon DEF Wanted

LEMMA Names ==
  /\ \A s : s \in {Stops[i] : i \in DOMAIN Stops} <=>
              s \in {"stop log", "stop data", "stop pre", "stop csv"}
  /\ \A s : s \in {Opens[i] : i \in DOMAIN Opens} <=>
              s \in {"open log", "open data", "open pre", "open csv"}
  <1>1. /\ DOMAIN Stops = 1 .. 4 /\ DOMAIN Opens = 1 .. 4
        /\ Stops[1] = "stop log" /\ Stops[2] = "stop data"
        /\ Stops[3] = "stop pre" /\ Stops[4] = "stop csv"
        /\ Opens[1] = "open log" /\ Opens[2] = "open data"
        /\ Opens[3] = "open pre" /\ Opens[4] = "open csv"
    BY DEF Stops, Opens
  <1>2. 1 .. 4 = {1, 2, 3, 4}
    OBVIOUS
  <1> QED BY <1>1, <1>2

LEMMA Scripts ==
  /\ Stops \in Seq(Steps) /\ Len(Stops) = 4
  /\ Opens \in Seq(Steps) /\ Len(Opens) = 4
  /\ \A i \in 1 .. 4 : Stops[i] = Script(i) /\ Opens[i] = Script(i + 5)
  <1>1. Stops \in Seq(Steps)
    BY DEF Stops, Steps
  <1>2. Opens \in Seq(Steps)
    BY DEF Opens, Steps
  <1>3. Len(Stops) = 4 /\ Len(Opens) = 4
    BY DEF Stops, Opens
  <1>4. Stops[1] = "stop log" /\ Stops[2] = "stop data" /\ Stops[3] = "stop pre" /\ Stops[4] = "stop csv"
    BY DEF Stops
  <1>5. Opens[1] = "open log" /\ Opens[2] = "open data" /\ Opens[3] = "open pre" /\ Opens[4] = "open csv"
    BY DEF Opens
  <1>6. ASSUME NEW i \in 1 .. 4 PROVE Stops[i] = Script(i) /\ Opens[i] = Script(i + 5)
    <2>1. i = 1 \/ i = 2 \/ i = 3 \/ i = 4
      BY <1>6
    <2>2. /\ Script(1) = "stop log" /\ Script(2) = "stop data"
          /\ Script(3) = "stop pre" /\ Script(4) = "stop csv"
          /\ Script(1 + 5) = "open log" /\ Script(2 + 5) = "open data"
          /\ Script(3 + 5) = "open pre" /\ Script(4 + 5) = "open csv"
      BY DEF Script
    <2> QED BY <1>4, <1>5, <2>1, <2>2
  <1> QED BY <1>1, <1>2, <1>3, <1>6

LEMMA ReloadScript ==
  /\ Stops \o <<"assign">> \o Opens \in Seq(Steps)
  /\ Len(Stops \o <<"assign">> \o Opens) = 9
  /\ \A i \in 1 .. 9 : (Stops \o <<"assign">> \o Opens)[i] = Script(i)
  <1> DEFINE one == <<"assign">>
             first == Stops \o one
             all == first \o Opens
  <1>1. one \in Seq(Steps) /\ Len(one) = 1 /\ one[1] = "assign"
    BY DEF Steps
  <1> HIDE DEF one
  <1>2. /\ first \in Seq(Steps) /\ Len(first) = 5
        /\ \A i \in 1 .. 5 : first[i] = IF i <= 4 THEN Stops[i] ELSE one[i - 4]
    <2>1. /\ first \in Seq(Steps) /\ Len(first) = Len(Stops) + Len(one)
          /\ \A i \in 1 .. Len(Stops) + Len(one) :
                first[i] = IF i <= Len(Stops) THEN Stops[i] ELSE one[i - Len(Stops)]
      BY <1>1, Scripts, ConcatProperties
    <2>2. Len(Stops) = 4 /\ Len(one) = 1 /\ Len(Stops) + Len(one) = 5
      BY <1>1, Scripts
    <2> QED BY <2>1, <2>2
  <1>3. ASSUME NEW i \in 1 .. 5 PROVE first[i] = Script(i)
    <2>1. CASE i <= 4
      <3>1. i \in 1 .. 4 /\ first[i] = Stops[i]
        BY <1>2, <1>3, <2>1
      <3> QED BY <3>1, Scripts
    <2>2. CASE i = 5
      <3>1. first[5] = one[1]
        BY <1>2
      <3> QED BY <1>1, <2>2, <3>1 DEF Script
    <2>3. i <= 4 \/ i = 5
      BY <1>3
    <2> QED BY <2>1, <2>2, <2>3
  <1> HIDE DEF first
  <1>4. /\ all \in Seq(Steps) /\ Len(all) = 9
        /\ \A i \in 1 .. 9 : all[i] = IF i <= 5 THEN first[i] ELSE Opens[i - 5]
    <2>1. /\ all \in Seq(Steps) /\ Len(all) = Len(first) + Len(Opens)
          /\ \A i \in 1 .. Len(first) + Len(Opens) :
                all[i] = IF i <= Len(first) THEN first[i] ELSE Opens[i - Len(first)]
      BY <1>2, Scripts, ConcatProperties
    <2>2. Len(first) = 5 /\ Len(Opens) = 4 /\ Len(first) + Len(Opens) = 9
      BY <1>2, Scripts
    <2> QED BY <2>1, <2>2
  <1> HIDE DEF all
  <1>5. ASSUME NEW i \in 1 .. 9 PROVE all[i] = Script(i)
    <2>1. CASE i <= 5
      <3>1. i \in 1 .. 5 /\ all[i] = first[i]
        BY <1>4, <1>5, <2>1
      <3> QED BY <1>3, <3>1
    <2>2. CASE i > 5
      <3>1. i - 5 \in 1 .. 4 /\ (i - 5) + 5 = i
        BY <1>5, <2>2
      <3>2. Opens[i - 5] = Script((i - 5) + 5)
        BY <3>1, Scripts
      <3>3. all[i] = Opens[i - 5]
        BY <1>4, <1>5, <2>2
      <3> QED BY <3>1, <3>2, <3>3
    <2> QED BY <1>5, <2>1, <2>2
  <1> QED BY <1>4, <1>5 DEF all, first, one

(* What taking the next step of the script does to the position in it *)
LEMMA TodoStep ==
  ASSUME TodoIsScript, LgTypeOK, lgTodo # <<>>, lgTodo' = Tail(lgTodo), lgEnded' = lgEnded
  PROVE  /\ Head(lgTodo) = Script(Pos) /\ Pos' = Pos + 1
         /\ Pos \in Int /\ Pos \in 1 .. 9 /\ (lgEnded => Pos <= 4)
         /\ TodoIsScript'
  <1> USE DEF TodoIsScript, LgTypeOK
  <1>1. /\ Len(lgTodo) \in Nat /\ Len(lgTodo) >= 1
        /\ Head(lgTodo) = lgTodo[1] /\ Tail(lgTodo) \in Seq(Steps)
        /\ Len(Tail(lgTodo)) = Len(lgTodo) - 1
        /\ \A i \in 1 .. Len(Tail(lgTodo)) : Tail(lgTodo)[i] = lgTodo[i + 1]
    BY HeadTailProperties, EmptySeq
  <1>2. Pos \in Int /\ Pos \in 1 .. 9 /\ (lgEnded => Pos <= 4) /\ Pos' = Pos + 1
    <2>1. CASE lgEnded
      BY <1>1, <2>1 DEF Pos
    <2>2. CASE ~lgEnded
      BY <1>1, <2>2 DEF Pos
    <2> QED BY <2>1, <2>2
  <1>3. Head(lgTodo) = Script(Pos)
    BY <1>1, <1>2
  <1>4. \A i \in 1 .. Len(lgTodo') : lgTodo'[i] = Script(Pos' + i - 1)
    <2> SUFFICES ASSUME NEW i \in 1 .. Len(lgTodo') PROVE lgTodo'[i] = Script(Pos' + i - 1)
      OBVIOUS
    <2>1. lgTodo'[i] = lgTodo[i + 1] /\ i + 1 \in 1 .. Len(lgTodo)
      BY <1>1
    <2>2. Pos + (i + 1) - 1 = Pos' + i - 1
      BY <1>1, <1>2
    <2> QED BY <2>1, <2>2
  <1> QED BY <1>1, <1>2, <1>3, <1>4

-----------------------------------------------------------------------------
(* The files *)

LEMMA Places ==
  /\ Place("log") = 1 /\ Place("data") = 2 /\ Place("pre") = 3 /\ Place("csv") = 4
  /\ \A f \in Files : Place(f) \in 1 .. 4
  /\ \A f, g \in Files : Place(f) = Place(g) => f = g
  BY DEF Place, Files

LEMMA OneToNine ==
  \A p \in 1 .. 9 : p = 1 \/ p = 2 \/ p = 3 \/ p = 4 \/ p = 5 \/ p = 6 \/ p = 7 \/ p = 8 \/ p = 9
  OBVIOUS

LEMMA ScriptValues ==
  /\ Script(1) = "stop log" /\ Script(2) = "stop data"
  /\ Script(3) = "stop pre" /\ Script(4) = "stop csv"
  /\ Script(5) = "assign"
  /\ Script(6) = "open log" /\ Script(7) = "open data"
  /\ Script(8) = "open pre" /\ Script(9) = "open csv"
  BY DEF Script

(* The step at position p closes, or opens, the file whose place is p, or p - 5. *)
LEMMA StopAt ==
  \A p \in 1 .. 9 : Script(p) \in {"stop log", "stop data", "stop pre", "stop csv"} =>
      /\ p \in 1 .. 4 /\ StepFile(Script(p)) \in Files /\ Place(StepFile(Script(p))) = p
      /\ Script(p) = "stop csv" <=> StepFile(Script(p)) = "csv"
  <1> SUFFICES ASSUME NEW p \in 1 .. 9,
                      p \in {1, 2, 3, 4} \/ Script(p) \notin {"stop log", "stop data", "stop pre", "stop csv"},
                      Script(p) \in {"stop log", "stop data", "stop pre", "stop csv"}
               PROVE  /\ p \in 1 .. 4 /\ StepFile(Script(p)) \in Files
                      /\ Place(StepFile(Script(p))) = p
                      /\ Script(p) = "stop csv" <=> StepFile(Script(p)) = "csv"
    BY OneToNine, ScriptValues
  <1>1. p = 1 \/ p = 2 \/ p = 3 \/ p = 4
    OBVIOUS
  <1> QED BY <1>1, StepFiles, ScriptValues, Places DEF Files

LEMMA MinusFive ==
  /\ 6 - 5 = 1 /\ 7 - 5 = 2 /\ 8 - 5 = 3 /\ 9 - 5 = 4
  /\ 6 \in 6 .. 9 /\ 7 \in 6 .. 9 /\ 8 \in 6 .. 9 /\ 9 \in 6 .. 9
  OBVIOUS

LEMMA OpenAt ==
  \A p \in 1 .. 9 : Script(p) \in {"open log", "open data", "open pre", "open csv"} =>
      p \in 6 .. 9 /\ StepFile(Script(p)) \in Files /\ Place(StepFile(Script(p))) = p - 5
  <1> SUFFICES ASSUME NEW p \in 1 .. 9,
                      p \in {6, 7, 8, 9} \/ Script(p) \notin {"open log", "open data", "open pre", "open csv"},
                      Script(p) \in {"open log", "open data", "open pre", "open csv"}
               PROVE  /\ p \in 6 .. 9 /\ StepFile(Script(p)) \in Files
                      /\ Place(StepFile(Script(p))) = p - 5
    BY OneToNine, ScriptValues
  <1>1. p = 6 \/ p = 7 \/ p = 8 \/ p = 9
    OBVIOUS
  <1>2. StepFile(Script(p)) \in Files /\ Place(StepFile(Script(p))) = p - 5
    BY <1>1, MinusFive, StepFiles, ScriptValues, Places, Zenon DEF Files
  <1> QED BY <1>1, <1>2, MinusFive, Zenon

(* One step on, the files closed meanwhile are the same but for the one at p. *)
LEMMA NextPlace ==
  ASSUME NEW p \in Int, NEW q \in 1 .. 4, q # p, p + 1 \in q + 1 .. q + 5
  PROVE  p \in q + 1 .. q + 5
  OBVIOUS

LEMMA StopFiles == FilesInv /\ StopStep => FilesInv'
  <1> SUFFICES ASSUME FilesInv, StopStep PROVE FilesInv'
    OBVIOUS
  <1> DEFINE f == StepFile(Head(lgTodo))
  <1>1. /\ Head(lgTodo) = Script(Pos) /\ Pos' = Pos + 1 /\ Pos \in 1 .. 9 /\ TodoIsScript'
        /\ Pos \in Int
    BY TodoStep DEF FilesInv, StopStep
  <1>2. Pos \in 1 .. 4 /\ f \in Files /\ Place(f) = Pos /\ (Head(lgTodo) = "stop csv" <=> f = "csv")
    BY <1>1, StopAt, Names DEF StopStep
  <1> USE DEF FilesInv, LgTypeOK
  <1>3. CASE Head(lgTodo) = "stop csv" => stats /\ lgCfg.csv
    <2> HIDE DEF f
    <2>1. /\ opened' = opened \ {held[f]} /\ held' = [held EXCEPT ![f] = 0]
          /\ UNCHANGED <<stats, lgCfg, lastFile, lgReloads, lgEnded>>
      BY <1>3 DEF StopStep, CloseFile, f
    <2>2. LgTypeOK'
      BY <1>2, <2>1
    <2>3. HeldOnce'
      <3>1. held'[f] = 0 /\ \A g \in Files : g # f => held'[g] = held[g]
        BY <1>2, <2>1
      <3>2. \A g \in Files : held'[g] <= lastFile'
        BY <2>1, <3>1 DEF HeldOnce
      <3>3. \A g, h \in Files : held'[g] = held'[h] /\ g # h => held'[g] = 0
        BY <3>1 DEF HeldOnce
      <3> QED BY <3>2, <3>3 DEF HeldOnce
    <2>4. OpenIsHeld'
      BY <1>2, <2>1 DEF HeldOnce, OpenIsHeld
    <2>5. CsvIsConfigured'
      BY <1>2, <2>1 DEF CsvIsConfigured, Files
    <2>6. ClosedMeanwhile'
      <3> SUFFICES ASSUME NEW g \in Files, Pos' \in Place(g) + 1 .. Place(g) + 5
                   PROVE  held'[g] = 0
        BY DEF ClosedMeanwhile
      <3>1. CASE g = f
        BY <1>2, <2>1, <3>1
      <3>2. CASE g # f
        <4>1. Place(g) \in 1 .. 4 /\ Place(g) # Pos
          BY <1>2, <3>2, Places, Zenon
        <4>2. Pos \in Place(g) + 1 .. Place(g) + 5
          <5>1. Pos + 1 \in Place(g) + 1 .. Place(g) + 5
            BY <1>1
          <5> QED BY <1>1, <4>1, <5>1, NextPlace, Zenon
        <4> QED BY <1>2, <2>1, <3>2, <4>2 DEF ClosedMeanwhile
      <3> QED BY <3>1, <3>2
    <2> QED BY <1>1, <2>2, <2>3, <2>4, <2>5, <2>6
  <1>4. CASE ~(Head(lgTodo) = "stop csv" => stats /\ lgCfg.csv)
    <2>1. f = "csv" /\ held["csv"] = 0
      BY <1>2, <1>4 DEF CsvIsConfigured
    <2> HIDE DEF f
    <2>2. UNCHANGED <<held, opened, stats, lgCfg, lastFile, lgReloads, lgEnded>>
      BY <1>4 DEF StopStep
    <2>3. LgTypeOK' /\ HeldOnce' /\ OpenIsHeld' /\ CsvIsConfigured'
      BY <2>2 DEF HeldOnce, OpenIsHeld, CsvIsConfigured
    <2>4. ClosedMeanwhile'
      <3> SUFFICES ASSUME NEW g \in Files, Pos' \in Place(g) + 1 .. Place(g) + 5
                   PROVE  held[g] = 0
        BY <2>2 DEF ClosedMeanwhile
      <3>1. CASE g = "csv"
        BY <2>1, <3>1
      <3>2. CASE g # f
        <4>1. Place(g) \in 1 .. 4 /\ Place(g) # Pos
          BY <1>2, <3>2, Places, Zenon
        <4>2. Pos \in Place(g) + 1 .. Place(g) + 5
          <5>1. Pos + 1 \in Place(g) + 1 .. Place(g) + 5
            BY <1>1
          <5> QED BY <1>1, <4>1, <5>1, NextPlace, Zenon
        <4> QED BY <4>2 DEF ClosedMeanwhile
      <3> QED BY <2>1, <3>1, <3>2
    <2> QED BY <1>1, <2>3, <2>4
  <1> QED BY <1>3, <1>4

LEMMA OpenFiles == FilesInv /\ OpenStep => FilesInv'
  <1> SUFFICES ASSUME FilesInv, OpenStep PROVE FilesInv'
    OBVIOUS
  <1> DEFINE f == StepFile(Head(lgTodo))
  <1>1. /\ Head(lgTodo) = Script(Pos) /\ Pos' = Pos + 1 /\ Pos \in 1 .. 9 /\ TodoIsScript'
    BY TodoStep DEF FilesInv, OpenStep
  <1>2. Pos \in 6 .. 9 /\ f \in Files /\ Place(f) = Pos - 5
    BY <1>1, OpenAt, Names DEF OpenStep
  <1> USE DEF FilesInv, LgTypeOK
  <1>3. held[f] = 0
    BY <1>2 DEF ClosedMeanwhile
  <1>4. \A g \in Files : Pos' \in Place(g) + 1 .. Place(g) + 5 =>
                           g # f /\ Pos \in Place(g) + 1 .. Place(g) + 5
    BY <1>1, <1>2, Places
  <1>5. UNCHANGED <<stats, lgCfg, lgReloads, lgEnded>>
    BY DEF OpenStep
  <1>6. CASE /\ Wanted(f) /\ lastFile' = lastFile + 1
             /\ held' = [held EXCEPT ![f] = lastFile + 1]
             /\ opened' = opened \cup {lastFile + 1}
    <2> HIDE DEF f
    <2>1. LgTypeOK'
      BY <1>2, <1>5, <1>6
    <2>2. HeldOnce'
      BY <1>2, <1>6 DEF HeldOnce
    <2>3. OpenIsHeld'
      <3> SUFFICES ASSUME NEW x \in Nat
                   PROVE  x \in opened' <=> x # 0 /\ \E g \in Files : held'[g] = x
        BY DEF OpenIsHeld
      <3>1. held'[f] = lastFile + 1 /\ \A g \in Files : g # f => held'[g] = held[g]
        BY <1>2, <1>6
      <3>2. x \in opened <=> x # 0 /\ \E g \in Files : held[g] = x
        BY DEF OpenIsHeld
      <3> QED BY <1>2, <1>3, <1>6, <3>1, <3>2
    <2>4. CsvIsConfigured'
      BY <1>2, <1>5, <1>6, WantedFiles DEF CsvIsConfigured, Files
    <2>5. ClosedMeanwhile'
      BY <1>2, <1>4, <1>6 DEF ClosedMeanwhile
    <2> QED BY <1>1, <2>1, <2>2, <2>3, <2>4, <2>5
  <1>7. CASE UNCHANGED <<lastFile, held, opened>>
    <2>1. LgTypeOK' /\ HeldOnce' /\ OpenIsHeld' /\ CsvIsConfigured'
      BY <1>5, <1>7 DEF HeldOnce, OpenIsHeld, CsvIsConfigured
    <2>2. ClosedMeanwhile'
      BY <1>4, <1>7 DEF ClosedMeanwhile
    <2> QED BY <1>1, <2>1, <2>2
  <1> QED BY <1>6, <1>7 DEF OpenStep

LEMMA AssignFiles == FilesInv /\ AssignStep => FilesInv'
  <1> SUFFICES ASSUME FilesInv, AssignStep PROVE FilesInv'
    OBVIOUS
  <1>1. /\ Head(lgTodo) = Script(Pos) /\ Pos' = Pos + 1 /\ Pos \in 1 .. 9 /\ TodoIsScript'
    BY TodoStep DEF FilesInv, AssignStep
  <1>2. Pos = 5
    BY <1>1 DEF AssignStep, Script
  <1>3. \A f \in Files : held[f] = 0
    BY <1>2, Places DEF FilesInv, ClosedMeanwhile
  <1>4. opened = {}
    BY <1>3 DEF FilesInv, OpenIsHeld, LgTypeOK
  <1>5. LgTypeOK' /\ HeldOnce' /\ OpenIsHeld' /\ CsvIsConfigured' /\ ClosedMeanwhile'
    BY <1>4 DEF AssignStep, FilesInv, LgTypeOK, HeldOnce, OpenIsHeld, CsvIsConfigured,
                ClosedMeanwhile, Files
  <1> QED BY <1>1, <1>5 DEF FilesInv

LEMMA ReloadFiles ==
  ASSUME FilesInv, NEW new \in LogConfigs, HandleConfigChange(new)
  PROVE  FilesInv'
  <1>1. CASE isConfigChanged(new)
    <2>1. lgTodo' = Stops \o <<"assign">> \o Opens /\ lgEnded' = lgEnded /\ ~lgEnded
      BY <1>1 DEF HandleConfigChange
    <2>2. Pos' = 1
      BY <2>1, ReloadScript DEF Pos
    <2>3. TodoIsScript'
      <3>1. lgTodo' \in Seq(Steps) /\ Len(lgTodo') = 9
        BY <2>1, ReloadScript
      <3>2. ASSUME NEW i \in 1 .. Len(lgTodo') PROVE lgTodo'[i] = Script(Pos' + i - 1)
        <4>1. i \in 1 .. 9 /\ Pos' + i - 1 = i
          BY <2>2, <3>1, <3>2
        <4> QED BY <2>1, <4>1, ReloadScript
      <3> QED BY <2>1, <3>1, <3>2 DEF TodoIsScript
    <2>4. ClosedMeanwhile'
      BY <2>2, Places DEF ClosedMeanwhile
    <2>5. LgTypeOK' /\ HeldOnce' /\ OpenIsHeld' /\ CsvIsConfigured'
      BY DEF FilesInv, LgTypeOK, HeldOnce, OpenIsHeld, CsvIsConfigured, HandleConfigChange
    <2> QED BY <2>3, <2>4, <2>5 DEF FilesInv
  <1>2. CASE ~isConfigChanged(new)
    BY <1>2
    DEF HandleConfigChange, FilesInv, TodoIsScript, Pos, LgTypeOK, HeldOnce, OpenIsHeld,
        CsvIsConfigured, ClosedMeanwhile
  <1> QED BY <1>1, <1>2

LEMMA EndFiles == FilesInv /\ EndWorker => FilesInv'
  <1> SUFFICES ASSUME FilesInv, EndWorker PROVE FilesInv'
    OBVIOUS
  <1>1. lgTodo' = Stops /\ lgEnded'
    BY DEF EndWorker
  <1>2. Pos' = 1
    BY <1>1, Scripts DEF Pos
  <1>3. TodoIsScript'
    BY <1>1, <1>2, Scripts DEF TodoIsScript
  <1>4. ClosedMeanwhile'
    BY <1>2, Places DEF ClosedMeanwhile
  <1>5. LgTypeOK' /\ HeldOnce' /\ OpenIsHeld' /\ CsvIsConfigured'
    BY DEF FilesInv, LgTypeOK, HeldOnce, OpenIsHeld, CsvIsConfigured, EndWorker
  <1> QED BY <1>3, <1>4, <1>5 DEF FilesInv

(* The goroutines that log never touch what the worker owns. *)
Logging ==
    \/ jLogInternalJtimonForPreGnmi \/ jLogInternalJtimonForGnmi \/ periodicStats \/ PeriodicPrint
    \/ \E kind \in {"oc", "gnmi"} :
           HandleRPC(kind) \/ CsvPrint(kind) \/ handleOnePacket(kind) \/ jLogPrint(kind) \/ InternalCheck(kind)

LEMMA LoggingKeepsFiles == Logging => UNCHANGED <<stats, fileVars>>
  BY DEF Logging, jLogInternalJtimonForPreGnmi, jLogInternalJtimonForGnmi, periodicStats,
         PeriodicPrint, HandleRPC, CsvPrint, handleOnePacket, jLogPrint, InternalCheck, Use

LEMMA FilesKept == FilesInv /\ UNCHANGED <<stats, fileVars>> => FilesInv'
  BY DEF fileVars, FilesInv, TodoIsScript, Pos, LgTypeOK, HeldOnce, OpenIsHeld,
         CsvIsConfigured, ClosedMeanwhile

LEMMA FilesInit == LgInit => FilesInv
  <1> SUFFICES ASSUME LgInit PROVE FilesInv
    OBVIOUS
  <1>1. lgTodo = Opens /\ ~lgEnded /\ lgEnded \in BOOLEAN
    BY DEF LgInit
  <1>2. Pos = 6
    BY <1>1, Scripts DEF Pos
  <1>3. TodoIsScript
    <2>1. lgTodo \in Seq(Steps) /\ Len(lgTodo) = 4
      BY <1>1, Scripts
    <2>2. ASSUME NEW i \in 1 .. Len(lgTodo) PROVE lgTodo[i] = Script(Pos + i - 1)
      <3>1. i \in 1 .. 4 /\ Pos + i - 1 = i + 5
        BY <1>2, <2>1, <2>2
      <3> QED BY <1>1, <3>1, Scripts
    <2> QED BY <1>1, <2>1, <2>2 DEF TodoIsScript
  <1>4. LgTypeOK /\ HeldOnce /\ OpenIsHeld /\ CsvIsConfigured /\ ClosedMeanwhile
    <2>1. LgTypeOK
      BY DEF LgInit, LgTypeOK
    <2>2. HeldOnce /\ OpenIsHeld /\ ClosedMeanwhile
      BY DEF LgInit, HeldOnce, OpenIsHeld, ClosedMeanwhile
    <2>3. CsvIsConfigured
      BY DEF LgInit, CsvIsConfigured, Files
    <2> QED BY <2>1, <2>2, <2>3
  <1> QED BY <1>3, <1>4 DEF FilesInv

LEMMA FilesStep == FilesInv /\ [LgNext]_lgVars => FilesInv'
  <1> SUFFICES ASSUME FilesInv, [LgNext]_lgVars PROVE FilesInv'
    OBVIOUS
  <1>1. CASE Logging
    BY <1>1, LoggingKeepsFiles, FilesKept
  <1>2. CASE UNCHANGED lgVars
    BY <1>2, FilesKept DEF lgVars, fileVars
  <1>3. CASE StopStep \/ OpenStep \/ AssignStep \/ EndWorker
    BY <1>3, StopFiles, OpenFiles, AssignFiles, EndFiles
  <1>4. CASE \E new \in LogConfigs : HandleConfigChange(new)
    BY <1>4, ReloadFiles
  <1> QED BY <1>1, <1>2, <1>3, <1>4 DEF LgNext, Logging

(* However often the configuration is changed, and whichever files cannot be opened, a
   worker that is not in the middle of a reload has exactly its loggers' files open,
   and none once it has ended. *)
THEOREM FilesAreHeld == LgSpec => []OpenFilesAreHeld
  <1>1. FilesInv => OpenFilesAreHeld
    <2> SUFFICES ASSUME FilesInv, lgTodo = <<>>
                 PROVE  /\ opened = {held[f] : f \in Files} \ {0}
                        /\ lgEnded => opened = {}
      BY DEF OpenFilesAreHeld
    <2> USE DEF FilesInv, LgTypeOK
    <2>1. opened = {held[f] : f \in Files} \ {0}
      BY DEF OpenIsHeld
    <2>2. ASSUME lgEnded PROVE opened = {}
      <3>1. Pos = 5
        BY <2>2 DEF Pos
      <3>2. \A f \in Files : held[f] = 0
        BY <3>1, Places DEF ClosedMeanwhile
      <3> QED BY <2>1, <3>2
    <2> QED BY <2>1, <2>2
  <1> QED BY <1>1, FilesInit, FilesStep, PTL DEF LgSpec

-----------------------------------------------------------------------------
(* The goroutines that log *)

LEMMA DonePos == FilesInv /\ ~lgEnded => (lgTodo = <<>> <=> Pos = 10)
  <1> SUFFICES ASSUME FilesInv, ~lgEnded PROVE lgTodo = <<>> <=> Pos = 10
    OBVIOUS
  <1>1. lgTodo \in Seq(Steps) /\ Len(lgTodo) \in Nat
    BY DEF FilesInv, TodoIsScript
  <1>2. lgTodo = <<>> <=> Len(lgTodo) = 0
    BY <1>1, EmptySeq
  <1> QED BY <1>1, <1>2 DEF Pos

(* A fresh worker whose script is done holds every file it wants. *)
LEMMA FreshHolds ==
  ASSUME FilesInv, FreshFiles, Fresh, lgTodo = <<>>
  PROVE  /\ stats /\ lgCfg.csv => held["csv"] # 0
         /\ held["data"] # 0 => held["pre"] # 0
  <1>1. Pos = 10
    BY DonePos DEF Fresh
  <1>2. \A f \in Files : Wanted(f) => held[f] # 0
    BY <1>1, Places DEF FreshFiles
  <1> QED BY <1>2, WantedFiles DEF Files, FreshFiles

(* Only a step of the worker before its first reload can matter to a fresh worker. *)
LEMMA WorkerWriters ==
  ASSUME FilesInv, WritersInv, ~lgCrashed,
         StopStep \/ OpenStep \/ AssignStep \/ EndWorker
           \/ \E new \in LogConfigs : HandleConfigChange(new)
  PROVE  WritersInv'
  <1>0. UNCHANGED <<stats, wr, totalIn, lgCrashed>>
    BY DEF StopStep, OpenStep, AssignStep, EndWorker, HandleConfigChange
  <1>1. DOMAIN wr' = Writers /\ NilLoggerNeedsReload'
    BY <1>0 DEF WritersInv, NilLoggerNeedsReload
  <1>2. CASE ~Fresh'
    BY <1>1, <1>2 DEF WritersInv, FreshFiles, FreshWriters
  <1>3. CASE Fresh'
    <2>1. Fresh /\ ~EndWorker /\ ~(\E new \in LogConfigs : HandleConfigChange(new))
      <3>1. ~EndWorker
        BY <1>3 DEF Fresh, EndWorker
      <3>2. ASSUME NEW new \in LogConfigs PROVE ~HandleConfigChange(new)
        BY <1>3 DEF Fresh, HandleConfigChange, FilesInv, LgTypeOK
      <3>3. StopStep \/ OpenStep \/ AssignStep
        BY <3>1, <3>2
      <3>4. Fresh
        <4>1. lgReloads' = lgReloads /\ lgEnded' = lgEnded
          BY <3>3 DEF StopStep, OpenStep, AssignStep
        <4>2. lgFailed => lgFailed'
          BY <3>3 DEF StopStep, OpenStep, AssignStep
        <4> QED BY <1>3, <4>1, <4>2 DEF Fresh
      <3> QED BY <3>1, <3>2, <3>4
    <2>2. Pos >= 6 /\ lgTodo # <<>>
      BY <2>1 DEF WritersInv, FreshFiles, StopStep, OpenStep, AssignStep
    <2>3. lgTodo' = Tail(lgTodo) /\ lgEnded' = lgEnded
      BY <2>1 DEF StopStep, OpenStep, AssignStep
    <2>4. Head(lgTodo) = Script(Pos) /\ Pos' = Pos + 1 /\ Pos \in 1 .. 9 /\ Pos \in Int
      BY <2>2, <2>3, TodoStep DEF FilesInv
    <2>5. OpenStep
      <3>1. ~StopStep
        <4> SUFFICES ASSUME StopStep PROVE FALSE
          OBVIOUS
        <4>1. Pos \in 1 .. 4
          BY <2>4, StopAt, Names DEF StopStep
        <4> QED BY <2>2, <4>1
      <3>2. ~AssignStep
        <4> SUFFICES ASSUME AssignStep PROVE FALSE
          OBVIOUS
        <4>1. Pos = 5
          BY <2>4, OneToNine, ScriptValues DEF AssignStep
        <4> QED BY <2>2, <4>1
      <3> QED BY <2>1, <3>1, <3>2
    <2> DEFINE f == StepFile(Head(lgTodo))
    <2>6. Pos \in 6 .. 9 /\ f \in Files /\ Place(f) = Pos - 5
      BY <2>4, <2>5, OpenAt, Names DEF OpenStep
    <2> HIDE DEF f
    <2>7. \/ held'[f] # 0 /\ Wanted(f) /\ \A g \in Files : g # f => held'[g] = held[g]
          \/ held' = held /\ ~Wanted(f)
      BY <1>3, <2>1, <2>5, <2>6 DEF OpenStep, Fresh, FilesInv, LgTypeOK, f
    <2>8. lgCfg' = lgCfg /\ \A g \in Files : Wanted(g)' = Wanted(g)
      BY <2>5 DEF OpenStep, Wanted
    <2>9. FreshFiles'
      <3>1. Pos' >= 6
        BY <2>2, <2>4
      <3>2. ASSUME NEW g \in Files, Wanted(g), Pos' > Place(g) + 5
            PROVE  held'[g] # 0
        <4>1. CASE g = f
          BY <2>7, <3>2, <4>1
        <4>2. CASE g # f
          <5>1. Place(g) \in 1 .. 4 /\ Place(g) # Place(f) /\ Place(f) \in 1 .. 4
            BY <2>6, <3>2, <4>2, Places, Zenon
          <5>2. Pos > Place(g) + 5
            BY <2>4, <2>6, <3>2, <5>1
          <5>3. held[g] # 0
            BY <2>1, <3>2, <5>2 DEF WritersInv, FreshFiles
          <5> QED BY <2>7, <3>2, <4>2, <5>3
        <4> QED BY <4>1, <4>2
      <3>3. held'["data"] # 0 => lgCfg.data
        BY <2>1, <2>7, WantedFiles DEF WritersInv, FreshFiles, Files
      <3> QED BY <2>8, <3>1, <3>2, <3>3 DEF FreshFiles
    <2>10. wr["packet"] = <<>> /\ wr["periodic"] = <<>> /\ totalIn = 0
      BY <2>1, <2>2 DEF WritersInv, FreshWriters
    <2>11. FreshWriters'
      BY <1>0, <2>10 DEF FreshWriters
    <2> QED BY <1>1, <2>9, <2>11 DEF WritersInv
  <1> QED BY <1>2, <1>3

LEMMA UseIsSafe ==
  ASSUME NEW g \in Writers, NEW f \in Files, NEW next, Use(g, f, next),
         Fresh => held[f] # 0, ~lgCrashed, lgReloads \in Nat
  PROVE  /\ NilLoggerNeedsReload' /\ totalIn' = totalIn
         /\ Fresh => wr' = [wr EXCEPT ![g] = next]
         /\ wr' = wr \/ wr' = [wr EXCEPT ![g] = next]
  <1>1. UNCHANGED <<stats, fileVars, totalIn>>
    BY DEF Use
  <1>2. CASE held[f] = 0
    <2>1. ~Fresh
      BY <1>2
    <2>2. lgReloads > 0 \/ lgEnded \/ lgFailed
      BY <2>1 DEF Fresh
    <2>3. NilLoggerNeedsReload'
      BY <1>1, <2>2 DEF NilLoggerNeedsReload, fileVars
    <2>4. wr' = wr
      BY <1>2 DEF Use
    <2> QED BY <1>1, <2>1, <2>3, <2>4
  <1>3. CASE held[f] # 0
    BY <1>1, <1>3 DEF Use, At, NilLoggerNeedsReload
  <1> QED BY <1>2, <1>3

(* A goroutine may stand where it does if the logger it is about to use is there. *)
Ready(t) ==
    \A k \in {"oc", "gnmi"} :
        /\ t = <<k, "csv">> => held["csv"] # 0
        /\ t = <<k, "log">> => held["log"] # 0
        /\ t = <<k, "print">> => held["data"] # 0 /\ held["pre"] # 0

LEMMA AlwaysReady ==
  /\ Ready(<<>>)
  /\ \A k \in {"oc", "gnmi"} : Ready(<<k>>) /\ Ready(<<k, "data">>) /\ Ready(<<k, "again">>)
  BY DEF Ready

LEMMA PacketMoves ==
  ASSUME WritersInv, Fresh, lgTodo = <<>>, UNCHANGED <<stats, fileVars>>,
         NEW t, wr' = [wr EXCEPT !["packet"] = t], Ready(t)
  PROVE  DOMAIN wr' = Writers /\ FreshWriters'
  <1>1. /\ DOMAIN wr' = Writers
        /\ wr'["packet"] = t /\ wr'["periodic"] = wr["periodic"]
    BY DEF WritersInv, Writers
  <1> QED BY <1>1 DEF WritersInv, FreshWriters, Ready, fileVars

LEMMA PeriodicMoves ==
  ASSUME WritersInv, Fresh, lgTodo = <<>>, UNCHANGED <<stats, fileVars>>,
         NEW t, wr' = [wr EXCEPT !["periodic"] = t], t = <<"log">> => held["log"] # 0
  PROVE  DOMAIN wr' = Writers /\ FreshWriters'
  <1>1. /\ DOMAIN wr' = Writers
        /\ wr'["periodic"] = t /\ wr'["packet"] = wr["packet"]
    BY DEF WritersInv, Writers
  <1> QED BY <1>1 DEF WritersInv, FreshWriters, fileVars

LEMMA LoggingWriters ==
  ASSUME FilesInv, WritersInv, ~lgCrashed, Logging
  PROVE  WritersInv'
  <1>1. /\ UNCHANGED <<stats, fileVars>> /\ lgReloads \in Nat
        /\ Fresh' = Fresh /\ FreshFiles'
    <2>1. UNCHANGED <<stats, fileVars>>
      BY LoggingKeepsFiles
    <2> QED BY <2>1 DEF fileVars, Fresh, FreshFiles, Pos, Wanted, WritersInv, FilesInv, LgTypeOK
  <1> SUFFICES /\ NilLoggerNeedsReload' /\ DOMAIN wr' = Writers
               /\ Fresh => FreshWriters'
    BY <1>1 DEF WritersInv, FreshWriters
  <1>2. ASSUME Fresh, lgTodo = <<>>
        PROVE  /\ stats /\ lgCfg.csv => held["csv"] # 0
               /\ held["data"] # 0 => held["pre"] # 0
    BY <1>2, FreshHolds DEF WritersInv
  <1>3. ASSUME Fresh, wr["packet"] # <<>> \/ wr["periodic"] # <<>> \/ totalIn # 0 \/ Started
        PROVE  lgTodo = <<>>
    BY <1>1, <1>3 DEF WritersInv, FreshWriters, Fresh, Started
  <1>4. ~lgCrashed' => NilLoggerNeedsReload'
    BY DEF NilLoggerNeedsReload
  <1>5. ASSUME NEW g \in Writers, NEW t, wr' = [wr EXCEPT ![g] = t] PROVE DOMAIN wr' = Writers
    BY <1>5 DEF WritersInv
  <1>6. ASSUME NEW kind \in {"oc", "gnmi"}, HandleRPC(kind)
        PROVE  /\ NilLoggerNeedsReload' /\ DOMAIN wr' = Writers
               /\ Fresh => FreshWriters'
    <2>1. PICK t : /\ wr' = [wr EXCEPT !["packet"] = t]
                   /\ \/ t = <<kind, "csv">> /\ stats /\ lgCfg.csv
                      \/ t = <<kind>>
      BY <1>6 DEF HandleRPC, At
    <2>2. ASSUME Fresh PROVE lgTodo = <<>> /\ Ready(t)
      <3>1. lgTodo = <<>>
        BY <1>3, <1>6, <2>2 DEF HandleRPC
      <3>2. t = <<kind>> \/ (t = <<kind, "csv">> /\ held["csv"] # 0)
        BY <1>2, <2>1, <2>2, <3>1
      <3> QED BY <1>6, <3>1, <3>2 DEF Ready
    <2>3. ~lgCrashed'
      BY <1>6 DEF HandleRPC
    <2> QED BY <1>1, <1>4, <1>5, <2>1, <2>2, <2>3, PacketMoves DEF Writers
  <1>7. ASSUME NEW kind \in {"oc", "gnmi"}, CsvPrint(kind)
        PROVE  /\ NilLoggerNeedsReload' /\ DOMAIN wr' = Writers
               /\ Fresh => FreshWriters'
    <2>1. wr["packet"] = <<kind, "csv">> /\ wr["packet"] # <<>>
      BY <1>7 DEF CsvPrint
    <2>2. Fresh => held["csv"] # 0 /\ lgTodo = <<>>
      BY <1>3, <1>7, <2>1 DEF WritersInv, FreshWriters
    <2>3. CASE Use("packet", "csv", <<kind>>)
      BY <1>1, <1>5, <1>7, <2>2, <2>3, UseIsSafe, PacketMoves, AlwaysReady
      DEF Writers, Files, WritersInv
    <2>4. CASE At("packet", <<kind>>) /\ ~lgCrashed'
      BY <1>1, <1>4, <1>5, <1>7, <2>2, <2>4, PacketMoves, AlwaysReady DEF At, Writers
    <2> QED BY <1>7, <2>3, <2>4 DEF CsvPrint
  <1>8. ASSUME NEW kind \in {"oc", "gnmi"}, handleOnePacket(kind)
        PROVE  /\ NilLoggerNeedsReload' /\ DOMAIN wr' = Writers
               /\ Fresh => FreshWriters'
    <2>1. PICK t : /\ wr' = [wr EXCEPT !["packet"] = t]
                   /\ (t = <<kind, "log">> /\ held["log"] # 0) \/ t = <<kind, "data">>
      BY <1>8 DEF handleOnePacket, At
    <2>2. Ready(t)
      BY <1>8, <2>1 DEF Ready
    <2>3. wr["packet"] # <<>> /\ ~lgCrashed'
      BY <1>8 DEF handleOnePacket
    <2> QED BY <1>1, <1>3, <1>4, <1>5, <2>1, <2>2, <2>3, PacketMoves DEF Writers
  <1>9. ASSUME NEW kind \in {"oc", "gnmi"}, jLogPrint(kind)
        PROVE  /\ NilLoggerNeedsReload' /\ DOMAIN wr' = Writers
               /\ Fresh => FreshWriters'
    <2>1. wr["packet"] = <<kind, "log">> /\ wr["packet"] # <<>>
      BY <1>9 DEF jLogPrint
    <2>2. Fresh => held["log"] # 0 /\ lgTodo = <<>>
      BY <1>3, <1>9, <2>1 DEF WritersInv, FreshWriters
    <2> QED BY <1>1, <1>5, <1>9, <2>2, UseIsSafe, PacketMoves, AlwaysReady
            DEF jLogPrint, Writers, Files, WritersInv
  <1>10. ASSUME NEW kind \in {"oc", "gnmi"}, InternalCheck(kind)
        PROVE  /\ NilLoggerNeedsReload' /\ DOMAIN wr' = Writers
               /\ Fresh => FreshWriters'
    <2>1. PICK t : /\ wr' = [wr EXCEPT !["packet"] = t]
                   /\ t \in {<<>>, <<kind, "again">>} \/ (t = <<kind, "print">> /\ held["data"] # 0)
      BY <1>10, Zenon DEF InternalCheck, At
    <2>2. wr["packet"] # <<>> /\ ~lgCrashed'
      BY <1>10 DEF InternalCheck
    <2>3. ASSUME Fresh PROVE lgTodo = <<>> /\ Ready(t)
      <3>1. lgTodo = <<>>
        BY <1>3, <2>2, <2>3
      <3>2. t = <<kind, "print">> => held["data"] # 0 /\ held["pre"] # 0
        BY <1>2, <2>1, <2>3, <3>1
      <3> QED BY <1>10, <2>1, <3>1, <3>2 DEF Ready
    <2> QED BY <1>1, <1>4, <1>5, <2>1, <2>2, <2>3, PacketMoves DEF Writers
  <1>11. CASE jLogInternalJtimonForPreGnmi
    <2>1. wr["packet"] = <<"oc", "print">> /\ wr["packet"] # <<>>
      BY <1>11 DEF jLogInternalJtimonForPreGnmi
    <2>2. Fresh => held["pre"] # 0 /\ lgTodo = <<>>
      BY <1>3, <2>1 DEF WritersInv, FreshWriters
    <2> QED BY <1>1, <1>5, <1>11, <2>2, UseIsSafe, PacketMoves, AlwaysReady
            DEF jLogInternalJtimonForPreGnmi, Writers, Files, WritersInv
  <1>12. CASE jLogInternalJtimonForGnmi
    <2>1. wr["packet"] = <<"gnmi", "print">> /\ wr["packet"] # <<>>
      BY <1>12 DEF jLogInternalJtimonForGnmi
    <2>2. Fresh => held["data"] # 0 /\ lgTodo = <<>>
      BY <1>3, <2>1 DEF WritersInv, FreshWriters
    <2> QED BY <1>1, <1>5, <1>12, <2>2, UseIsSafe, PacketMoves, AlwaysReady
            DEF jLogInternalJtimonForGnmi, Writers, Files, WritersInv
  <1>13. CASE periodicStats
    <2> DEFINE t == IF held["log"] # 0 THEN <<"log">> ELSE <<>>
    <2>1. wr' = [wr EXCEPT !["periodic"] = t] /\ (t = <<"log">> => held["log"] # 0)
      BY <1>13 DEF periodicStats, At
    <2> HIDE DEF t
    <2>2. totalIn # 0 /\ ~lgCrashed'
      BY <1>13 DEF periodicStats
    <2> QED BY <1>1, <1>3, <1>4, <1>5, <2>1, <2>2, PeriodicMoves DEF Writers
  <1>14. CASE PeriodicPrint
    <2>1. wr["periodic"] = <<"log">> /\ wr["periodic"] # <<>>
      BY <1>14 DEF PeriodicPrint
    <2>2. Fresh => held["log"] # 0 /\ lgTodo = <<>>
      BY <1>3, <2>1 DEF WritersInv, FreshWriters
    <2>3. <<>> # <<"log">>
      OBVIOUS
    <2> QED BY <1>1, <1>5, <1>14, <2>2, <2>3, UseIsSafe, PeriodicMoves
            DEF PeriodicPrint, Writers, Files, WritersInv
  <1> QED BY <1>6, <1>7, <1>8, <1>9, <1>10, <1>11, <1>12, <1>13, <1>14 DEF Logging

(* A nil logger is used only by a goroutine that the worker overtook with a reload or
   with its end, or after a file could not be opened: at its first start no goroutine
   can, whichever of them run and wherever they stand. *)
THEOREM NilLoggersNeedReload == LgSpec => []NilLoggerNeedsReload
  <1>1. LgInit => WritersInv
    <2> SUFFICES ASSUME LgInit PROVE WritersInv
      OBVIOUS
    <2>1. Pos = 6
      BY Scripts DEF LgInit, Pos
    <2>2. DOMAIN wr = Writers /\ wr["packet"] = <<>> /\ wr["periodic"] = <<>> /\ totalIn = 0
      BY DEF LgInit, Writers
    <2>3. FreshFiles
      BY <2>1, Places DEF FreshFiles, LgInit, Files
    <2>4. FreshWriters
      BY <2>2 DEF FreshWriters
    <2>5. NilLoggerNeedsReload
      BY DEF LgInit, NilLoggerNeedsReload
    <2> QED BY <2>2, <2>3, <2>4, <2>5 DEF WritersInv
  <1>2. FilesInv /\ WritersInv /\ [LgNext]_lgVars => WritersInv'
    <2> SUFFICES ASSUME FilesInv, WritersInv, [LgNext]_lgVars PROVE WritersInv'
      OBVIOUS
    <2>1. CASE UNCHANGED lgVars
      BY <2>1 DEF lgVars, WritersInv, FreshFiles, FreshWriters, NilLoggerNeedsReload, Fresh,
                  Pos, Wanted
    <2>2. CASE LgNext
      BY <2>2, WorkerWriters, LoggingWriters DEF LgNext, Logging
    <2> QED BY <2>1, <2>2
  <1>3. WritersInv => NilLoggerNeedsReload
    BY DEF WritersInv
  <1> QED BY <1>1, <1>2, <1>3, FilesInit, FilesStep, PTL DEF LgSpec

=============================================================================

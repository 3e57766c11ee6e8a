-------------------------------- MODULE Logs --------------------------------
(***************************************************************************)
(* The log files and statistics of one device (logs.go, internal_jtimon.go,  *)
(* statshandler.go, config.go): up to four files, opened by ConfigRead,       *)
(* closed and opened again by the worker when it reloads a changed            *)
(* configuration, closed when it ends; and the goroutines that write to them   *)
(* meanwhile without a lock, each with a check of a logger and a later use.   *)
(* A file and its logger are set, and reset to nil, together.                 *)
(***************************************************************************)
EXTENDS Integers, Sequences, FiniteSets

CONSTANTS
    LogConfigs,    \* configurations: [log, data, csv, other], what is not "" of the file names
    MaxPkts,       \* bound: packets received
    MaxLogReloads  \* bound: configurations read on SIGHUP

Files == {"log", "data", "pre", "csv"}   \* pre: the file of data with the suffix _pre-gnmi
Writers == {"packet", "periodic"}        \* the receiving goroutine, periodicStats

ASSUME LogsAssumption == MaxPkts \in Nat /\ MaxLogReloads \in Nat

VARIABLES
    stats,       \* --stats-handler
    lgCfg,       \* jctx.config
    lgNew,       \* the configuration HandleConfigChange was called with
    lgTodo,      \* what the worker has still to do
    held,        \* held[f]: the open file, 0 for nil
    opened,      \* files opened and not closed
    lastFile,    \* number of the last file opened
    lgReloads,
    lgEnded,     \* the worker has ended
    lgFailed,    \* some os.OpenFile has failed
    wr,          \* wr[g]: where goroutine g is, <<>> at the start of its loop
    pkts,        \* packets received: [oc, gnmi]
    totalIn,     \* jctx.stats.totalIn
    lgCrashed    \* a nil logger was used

lgVars == <<stats, lgCfg, lgNew, lgTodo, held, opened, lastFile, lgReloads, lgEnded, lgFailed,
            wr, pkts, totalIn, lgCrashed>>
fileVars == <<lgCfg, lgNew, lgTodo, held, opened, lastFile, lgReloads, lgEnded, lgFailed>>

Stops == <<"stop log", "stop data", "stop pre", "stop csv">>
Opens == <<"open log", "open data", "open pre", "open csv">>
StepFile(s) ==
    CASE s \in {"stop log", "open log"} -> "log"
      [] s \in {"stop data", "open data"} -> "data"
      [] s \in {"stop pre", "open pre"} -> "pre"
      [] s \in {"stop csv", "open csv"} -> "csv"

-----------------------------------------------------------------------------
(* ConfigRead at the start; nothing runs before the files are open. *)
LgInit ==
    /\ stats \in BOOLEAN
    /\ lgCfg \in LogConfigs /\ lgNew = lgCfg
    /\ lgTodo = Opens
    /\ held = [f \in Files |-> 0] /\ opened = {} /\ lastFile = 0
    /\ lgReloads = 0 /\ lgEnded = FALSE /\ lgFailed = FALSE
    /\ wr = [g \in Writers |-> <<>>]
    /\ pkts = [oc |-> 0, gnmi |-> 0] /\ totalIn = 0
    /\ lgCrashed = FALSE

Wanted(f) ==
    CASE f = "log" -> lgCfg.log
      [] f \in {"data", "pre"} -> lgCfg.data
      [] f = "csv" -> stats /\ lgCfg.csv

(* Mutant of CloseFile: the handle is forgotten and the file stays open. *)
CloseFileNot(f) == held' = [held EXCEPT ![f] = 0] /\ UNCHANGED opened

CloseFile(f) ==
    /\ opened' = opened \ {held[f]}
    /\ held' = [held EXCEPT ![f] = 0]

(* logStop and internalJtimonLogStop, which closes the CSV file of a configuration
   that has one *)
StopStep ==
    /\ lgTodo # <<>> /\ Head(lgTodo) \in {Stops[i] : i \in DOMAIN Stops}
    /\ lgTodo' = Tail(lgTodo)
    /\ IF Head(lgTodo) = "stop csv" => stats /\ lgCfg.csv
       THEN CloseFile(StepFile(Head(lgTodo)))
       ELSE UNCHANGED <<held, opened>>
    /\ UNCHANGED <<stats, lgCfg, lgNew, lastFile, lgReloads, lgEnded, lgFailed, wr, pkts, totalIn, lgCrashed>>

(* logInit, internalJtimonLogInit, csvStatsLogInit: a file that cannot be opened is
   reported and done without. *)
OpenStep ==
    /\ lgTodo # <<>> /\ Head(lgTodo) \in {Opens[i] : i \in DOMAIN Opens}
    /\ lgTodo' = Tail(lgTodo)
    /\ LET f == StepFile(Head(lgTodo))
       IN  \/ /\ Wanted(f)
              /\ lastFile' = lastFile + 1
              /\ held' = [held EXCEPT ![f] = lastFile + 1]
              /\ opened' = opened \cup {lastFile + 1}
              /\ UNCHANGED lgFailed
           \/ /\ Wanted(f) /\ lgFailed' = TRUE
              /\ UNCHANGED <<lastFile, held, opened>>
           \/ /\ ~Wanted(f)
              /\ UNCHANGED <<lastFile, held, opened, lgFailed>>
    /\ UNCHANGED <<stats, lgCfg, lgNew, lgReloads, lgEnded, wr, pkts, totalIn, lgCrashed>>

(* isConfigChanged looks neither at the CSV file nor at the EOS of InternalJtimon. *)
isConfigChanged(new) == lgCfg.log # new.log \/ lgCfg.data # new.data \/ lgCfg.other # new.other

(* HandleConfigChange, called by the worker for SIGHUP while packets are received *)
HandleConfigChange(new) ==
    /\ lgTodo = <<>> /\ ~lgEnded /\ lgReloads < MaxLogReloads
    /\ lgReloads' = lgReloads + 1
    /\ IF isConfigChanged(new)
       THEN lgNew' = new /\ lgTodo' = Stops \o <<"assign">> \o Opens
       ELSE UNCHANGED <<lgNew, lgTodo>>
    /\ UNCHANGED <<stats, lgCfg, held, opened, lastFile, lgEnded, lgFailed, wr, pkts, totalIn, lgCrashed>>

(* jctx.config = config: the new value has no files. *)
AssignStep ==
    /\ lgTodo # <<>> /\ Head(lgTodo) = "assign"
    /\ lgTodo' = Tail(lgTodo)
    /\ lgCfg' = lgNew
    /\ held' = [f \in Files |-> 0]
    /\ UNCHANGED <<stats, lgNew, opened, lastFile, lgReloads, lgEnded, lgFailed, wr, pkts, totalIn, lgCrashed>>

(* The worker is told to end: printSummary, logStop and internalJtimonLogStop *)
EndWorker ==
    /\ lgTodo = <<>> /\ ~lgEnded
    /\ lgEnded' = TRUE
    /\ lgTodo' = Stops
    /\ UNCHANGED <<stats, lgCfg, lgNew, held, opened, lastFile, lgReloads, lgFailed, wr, pkts, totalIn, lgCrashed>>

-----------------------------------------------------------------------------
At(g, s) == wr' = [wr EXCEPT ![g] = s]

(* A goroutine that has checked a logger, or its file name, uses another value than it
   checked if the worker was faster. *)
Use(g, f, next) ==
    /\ IF held[f] = 0 THEN lgCrashed' = TRUE /\ UNCHANGED wr ELSE At(g, next) /\ UNCHANGED lgCrashed
    /\ UNCHANGED <<stats, fileVars, pkts, totalIn>>

(* The device is connected to after ConfigRead. *)
Started == lgTodo = <<>> \/ lgReloads > 0 \/ lgEnded

(* Mutant of HandleRPC: the name of the CSV file is not looked at. *)
HandleRPCUnchecked(kind) ==
    /\ wr["packet"] = <<>> /\ pkts.oc + pkts.gnmi < MaxPkts
    /\ Started
    /\ pkts' = [pkts EXCEPT ![kind] = @ + 1]
    /\ IF stats
       THEN /\ At("packet", <<kind, "csv">>)
            /\ totalIn' = IF kind = "oc" THEN totalIn + 1 ELSE totalIn
       ELSE At("packet", <<kind>>) /\ UNCHANGED totalIn
    /\ UNCHANGED <<stats, fileVars, lgCrashed>>

(* stream.Recv returns a packet.  On the way HandleRPC, which has locked the
   statistics, counts an OpenConfig packet if there is a CSV file. *)
HandleRPC(kind) ==
    /\ wr["packet"] = <<>> /\ pkts.oc + pkts.gnmi < MaxPkts
    /\ Started
    /\ pkts' = [pkts EXCEPT ![kind] = @ + 1]
    /\ IF stats /\ lgCfg.csv
       THEN /\ At("packet", <<kind, "csv">>)
            /\ totalIn' = IF kind = "oc" THEN totalIn + 1 ELSE totalIn
       ELSE At("packet", <<kind>>) /\ UNCHANGED totalIn
    /\ UNCHANGED <<stats, fileVars, lgCrashed>>

(* csvLogger.Printf, for a packet that carries the timestamps *)
CsvPrint(kind) ==
    /\ wr["packet"] = <<kind, "csv">>
    /\ \/ Use("packet", "csv", <<kind>>)
       \/ At("packet", <<kind>>) /\ UNCHANGED <<stats, fileVars, pkts, totalIn, lgCrashed>>

(* handleOnePacket and gnmiHandleResponse: the packet is counted, and jLog called,
   which looks whether there is a logger. *)
handleOnePacket(kind) ==
    /\ wr["packet"] = <<kind>>
    /\ totalIn' = IF stats THEN totalIn + 1 ELSE totalIn
    /\ At("packet", IF held["log"] # 0 THEN <<kind, "log">> ELSE <<kind, "data">>)
    /\ UNCHANGED <<stats, fileVars, pkts, lgCrashed>>
jLogPrint(kind) ==
    /\ wr["packet"] = <<kind, "log">>
    /\ Use("packet", "log", <<kind, "data">>)

(* isInternalJtimonLogging, and the same check again in jLogInternalJtimonForPreGnmi
   and jLogInternalJtimonForGnmi *)
InternalCheck(kind) ==
    /\ wr["packet"] \in {<<kind, "data">>, <<kind, "again">>}
    /\ At("packet", CASE held["data"] = 0 -> <<>>
                      [] held["data"] # 0 /\ wr["packet"] = <<kind, "data">> -> <<kind, "again">>
                      [] OTHER -> <<kind, "print">>)
    /\ UNCHANGED <<stats, fileVars, pkts, totalIn, lgCrashed>>
jLogInternalJtimonForPreGnmi == wr["packet"] = <<"oc", "print">> /\ Use("packet", "pre", <<>>)
jLogInternalJtimonForGnmi    == wr["packet"] = <<"gnmi", "print">> /\ Use("packet", "data", <<>>)

(* periodicStats: nothing is printed before the first packet *)
periodicStats ==
    /\ wr["periodic"] = <<>> /\ stats /\ totalIn # 0
    /\ At("periodic", IF held["log"] # 0 THEN <<"log">> ELSE <<>>)
    /\ UNCHANGED <<stats, fileVars, pkts, totalIn, lgCrashed>>
PeriodicPrint == wr["periodic"] = <<"log">> /\ Use("periodic", "log", <<>>)

LgNext ==
    /\ ~lgCrashed
    /\ \/ StopStep \/ OpenStep \/ AssignStep \/ EndWorker
       \/ jLogInternalJtimonForPreGnmi \/ jLogInternalJtimonForGnmi \/ periodicStats \/ PeriodicPrint
       \/ \E new \in LogConfigs : HandleConfigChange(new)
       \/ \E kind \in {"oc", "gnmi"} :
              HandleRPC(kind) \/ CsvPrint(kind) \/ handleOnePacket(kind) \/ jLogPrint(kind) \/ InternalCheck(kind)

LgSpec == LgInit /\ [][LgNext]_lgVars

-----------------------------------------------------------------------------
(* Whenever the worker is not in the middle of a reload, the files open are those the
   configuration refers to, and none once the worker has ended: however often it is
   changed, and whichever files cannot be opened, none is leaked and none that is in
   use is closed (config.go:327-332, workers.go:304-313). *)
OpenFilesAreHeld ==
    lgTodo = <<>> =>
        /\ opened = {held[f] : f \in Files} \ {0}
        /\ lgEnded => opened = {}

(* A nil logger is used, which ends the program, only by a goroutine the worker
   overtook with a reload or its end, or after a file could not be opened: the CSV
   file, or the second of the two internal files (logs.go:15-17,
   internal_jtimon.go:307-312, statshandler.go:78-99). *)
NilLoggerNeedsReload ==
    lgCrashed => lgReloads > 0 \/ lgEnded \/ lgFailed

=============================================================================

------------------------------ MODULE Workers ------------------------------
(***************************************************************************)
(* The supervisor of JTIMON (workers.go, main.go): the main goroutine that  *)
(* adds the workers and waits for them, signalHandler, maxRunHandler, and   *)
(* for every worker the goroutine of NewJWorker ("the worker") and the      *)
(* goroutine of work ("the session").  They talk over unbuffered channels   *)
(* (signalch, statusch, control), over statusChan (capacity 1), over        *)
(* sigchan, and share ws.m and the WaitGroup.                               *)
(*                                                                         *)
(* A send on an unbuffered channel is one action of sender and receiver,    *)
(* enabled when both are there; a goroutine that has begun a send it cannot *)
(* complete stays in the control state of that send.                        *)
(***************************************************************************)
EXTENDS Integers, Sequences, FiniteSets

CONSTANTS
    Files,       \* configuration files, one per device
    StartList,   \* the files JTIMON is started with (ws.files)
    Lists,       \* the contents the --config-file-list file may later have
    Modes,       \* the command-line modes explored, see Mode
    MaxInc,      \* bound: workers ever created for one file
    MaxSignals,  \* bound: operating-system signals delivered
    SigCap,      \* capacity of sigchan (10 in the code)
    NoWorker     \* "not in the map"

(* --config-file-list given, --dial-out given, --max-run > 0, and whether the
   configurations name a tunnel server or mark paths for pre-post-gnmi *)
Mode == [fileList : BOOLEAN, dialOut : BOOLEAN, maxRun : BOOLEAN,
         tunnel : BOOLEAN, prePost : BOOLEAN]

Worker == Files \X (1 .. MaxInc)
fileOf(w) == w[1]

StringInSlice(f, l) == \E i \in DOMAIN l : l[i] = f

ASSUME ConstAssumption ==
    /\ IsFiniteSet(Files)
    /\ StartList \in Seq(Files)
    /\ Lists \subseteq Seq(Files)
    /\ Modes \subseteq Mode
    /\ MaxInc \in Nat /\ MaxSignals \in Nat /\ SigCap \in Nat
    /\ NoWorker \notin Worker

VARIABLES
    mode,        \* the mode of this execution
    main,        \* control state of the main goroutine
    toAdd,       \* files main still has to add
    toCont,      \* files whose worker main still has to continue
    m,           \* ws.m
    born,        \* number of workers created so far for each file
    wg,          \* counter of ws.wg
    sigchan, statusChan,
    signals,     \* signals delivered so far (bound)
    h,           \* control state of signalHandler
    hsig,        \* the signal it is propagating
    list,        \* the configuration file list it has read
    todo,        \* what is left of that list
    rest,        \* files its range over ws.m has not reached
    hcur,        \* the worker it is talking to
    r, rrest, rcur, \* the same of maxRunHandler
    wst,         \* control state of each worker goroutine
    kst,         \* control state of each session goroutine
    vendorOk     \* does getVendor accept the worker's current configuration?

mainVars    == <<main, toAdd, toCont>>
handlerVars == <<h, hsig, list, todo, rest, hcur>>
maxRunVars  == <<r, rrest, rcur>>
chanVars    == <<sigchan, statusChan, signals>>
workerVars  == <<wst, kst, vendorOk>>
vars == <<mode, mainVars, m, born, wg, chanVars, handlerVars, maxRunVars, workerVars>>

MainStates == {"add", "cont", "wait", "woken", "exited", "fatal"}
HandlerStates ==
    {"off", "idle", "list", "hup", "add", "cont", "del", "kill", "range", "send", "done"}
MaxRunStates == {"off", "timer", "range", "send", "done"}
(* "publish": in dial-out mode, before its select loop.  "select": in the loop.
   "reload": SIGHUP received.  "ctlHup",
   "ctlInt": sending on control.  "stop": SIGINT received, wg.Done to come.
   "post": statusch received, sending on wsChan.  "posted": wg.Done to come. *)
WorkerStates == {"none", "publish", "select", "reload", "ctlHup", "stop", "ctlInt",
                 "post", "posted", "gone"}
(* "connect": between connect and subscribe.  "status": sending on statusch.
   "tunnel", "tstream": the session goroutine of workTunnel.  "lost": the
   session goroutine returned without using statusch. *)
SessionStates == {"none", "connect", "stream", "tunnel", "tstream", "lost",
                  "status", "gone"}

Alive == main \notin {"exited", "fatal"}

-----------------------------------------------------------------------------
Init ==
    /\ mode \in Modes
    /\ main = "add" /\ toAdd = StartList /\ toCont = {}
    /\ m = [f \in Files |-> NoWorker]
    /\ born = [f \in Files |-> 0]
    /\ wg = 0
    /\ sigchan = <<>> /\ statusChan = <<>> /\ signals = 0
    /\ h = "off" /\ hsig = "SIGHUP" /\ list = <<>> /\ todo = <<>>
    /\ rest = {} /\ hcur = NoWorker
    /\ r = "off" /\ rrest = {} /\ rcur = NoWorker
    /\ wst = [w \in Worker |-> "none"]
    /\ kst = [w \in Worker |-> "none"]
    /\ vendorOk = [w \in Worker |-> TRUE]

FirstState == IF mode.dialOut THEN "publish" ELSE "select"

(* NewJWorker succeeds: the worker w of file f runs, and waits in its select once
   it has published its configuration, if it has to. *)
NewJWorker(f, w) ==
    /\ born[f] < MaxInc /\ w = <<f, born[f] + 1>>
    /\ born' = [born EXCEPT ![f] = born[f] + 1]
    /\ wst' = [wst EXCEPT ![w] = FirstState]
    /\ \E ok \in BOOLEAN : vendorOk' = [vendorOk EXCEPT ![w] = ok]
    /\ UNCHANGED kst

(* ws.wg.Done.  Reaching zero wakes the goroutine in Wait; going below zero
   panics. *)
WgDone ==
    /\ wg' = wg - 1
    /\ main' = CASE wg = 0 -> "fatal"
                 [] wg = 1 /\ main = "wait" -> "woken"
                 [] OTHER -> main

-----------------------------------------------------------------------------
(* The main goroutine: StartWorkers, Wait, exit. *)

(* Mutant of MainAdd: AddWorker without ws.wg.Add. *)
MainAddUncounted ==
    /\ main = "add" /\ toAdd # <<>>
    /\ toAdd' = Tail(toAdd)
    /\ \/ \E w \in Worker :
            /\ NewJWorker(Head(toAdd), w)
            /\ m' = [m EXCEPT ![Head(toAdd)] = w]
       \/ UNCHANGED <<m, born, workerVars>>
    /\ UNCHANGED <<mode, main, wg, toCont, chanVars, handlerVars, maxRunVars>>

(* AddWorkers: one file.  A configuration that cannot be read adds nothing;
   a file listed twice replaces its first worker in the map. *)
MainAdd ==
    /\ main = "add" /\ toAdd # <<>>
    /\ toAdd' = Tail(toAdd)
    /\ \/ \E w \in Worker :
            /\ NewJWorker(Head(toAdd), w)
            /\ m' = [m EXCEPT ![Head(toAdd)] = w]
            /\ wg' = wg + 1
       \/ UNCHANGED <<m, born, wg, workerVars>>
    /\ UNCHANGED <<mode, main, toCont, chanVars, handlerVars, maxRunVars>>

MainAdded ==
    /\ main = "add" /\ toAdd = <<>>
    /\ main' = "cont"
    /\ toCont' = {f \in Files : m[f] # NoWorker /\ ~mode.dialOut}
    /\ UNCHANGED <<mode, toAdd, m, born, wg, chanVars, handlerVars, maxRunVars, workerVars>>

(* v.signalch <- SIGCONT: the worker starts its session, directly or through a
   tunnel. *)
Continue(w) ==
    /\ wst[w] = "select"
    /\ kst' = CASE mode.dialOut -> kst
                [] mode.tunnel  -> [kst EXCEPT ![w] = "tunnel"]
                [] OTHER        -> [kst EXCEPT ![w] = "connect"]
    /\ UNCHANGED <<wst, vendorOk>>

MainCont ==
    /\ main = "cont"
    /\ \E f \in toCont : Continue(m[f]) /\ toCont' = toCont \ {f}
    /\ UNCHANGED <<mode, main, toAdd, m, born, wg, chanVars, handlerVars, maxRunVars>>

(* go signalHandler, go maxRunHandler, then ws.wg.Wait. *)
MainWait ==
    /\ main = "cont" /\ toCont = {}
    /\ main' = IF wg = 0 THEN "exited" ELSE "wait"
    /\ h' = "idle"
    /\ r' = IF mode.maxRun THEN "timer" ELSE "done"
    /\ UNCHANGED <<mode, toAdd, toCont, m, born, wg, chanVars, hsig, list, todo, rest, hcur,
                   rrest, rcur, workerVars>>

(* Wait returns and main exits; a WaitGroup that was reused meanwhile panics. *)
MainExit ==
    /\ main = "woken"
    /\ main' = IF wg = 0 THEN "exited" ELSE "fatal"
    /\ UNCHANGED <<mode, toAdd, toCont, m, born, wg, chanVars, handlerVars, maxRunVars, workerVars>>

-----------------------------------------------------------------------------
(* Mutant of OsSignal: signal.Notify without its list of signals, so that those
   the handler was not written for arrive too. *)
OsSignalAny ==
    /\ h # "off" /\ signals < MaxSignals
    /\ signals' = signals + 1
    /\ \E s \in {"SIGHUP", "SIGINT", "SIGTERM"} :
         sigchan' = IF Len(sigchan) < SigCap THEN Append(sigchan, s) ELSE sigchan
    /\ UNCHANGED <<mode, mainVars, m, born, wg, statusChan, handlerVars, maxRunVars, workerVars>>

(* Operating-system signals reach sigchan once signal.Notify has been called;
   a signal that finds the channel full is dropped. *)
OsSignal ==
    /\ h # "off" /\ signals < MaxSignals
    /\ signals' = signals + 1
    /\ \E s \in {"SIGHUP", "SIGINT"} :
         sigchan' = IF Len(sigchan) < SigCap THEN Append(sigchan, s) ELSE sigchan
    /\ UNCHANGED <<mode, mainVars, m, born, wg, statusChan, handlerVars, maxRunVars, workerVars>>

-----------------------------------------------------------------------------
(* signalHandler. *)

(* case file := <-ws.statusChan *)
HandleStatus ==
    /\ h = "idle" /\ statusChan # <<>>
    /\ statusChan' = Tail(statusChan)
    /\ m' = [m EXCEPT ![Head(statusChan)] = NoWorker]
    /\ UNCHANGED <<mode, mainVars, born, wg, sigchan, signals, handlerVars, maxRunVars, workerVars>>

(* case s := <-sigchan: SIGHUP with a file list reads the list again and keeps
   the old one when that fails; SIGHUP without one and SIGINT range over ws.m. *)
HandleSignal ==
    /\ h = "idle" /\ sigchan # <<>>
    /\ sigchan' = Tail(sigchan)
    /\ hsig' = Head(sigchan)
    /\ \/ /\ Head(sigchan) = "SIGHUP" /\ mode.fileList
          /\ \/ \E l \in Lists : h' = "list" /\ list' = l /\ todo' = l
             \/ UNCHANGED <<h, list, todo>>
          /\ UNCHANGED rest
       \/ /\ ~(Head(sigchan) = "SIGHUP" /\ mode.fileList)
          /\ h' = "range" /\ rest' = Files
          /\ UNCHANGED <<list, todo>>
    /\ UNCHANGED <<mode, mainVars, m, born, wg, statusChan, signals, hcur, maxRunVars, workerVars>>

(* w.signalch <- s, for the worker to reload or to stop. *)
Send(w, s) ==
    /\ wst[w] = "select"
    /\ wst' = [wst EXCEPT ![w] = IF s = "SIGHUP" THEN "reload" ELSE "stop"]
    /\ UNCHANGED <<kst, vendorOk>>

(* handleConfigChanges, the loop over the list: a known file is sent SIGHUP,
   an unknown one is started (and skipped when its configuration is bad). *)
ListKnown ==
    /\ h = "list" /\ todo # <<>> /\ m[Head(todo)] # NoWorker
    /\ h' = "hup" /\ hcur' = m[Head(todo)]
    /\ UNCHANGED <<mode, mainVars, m, born, wg, chanVars, hsig, list, todo, rest,
                   maxRunVars, workerVars>>

ListHup ==
    /\ h = "hup"
    /\ Send(hcur, "SIGHUP")
    /\ h' = "list" /\ todo' = Tail(todo) /\ hcur' = NoWorker
    /\ UNCHANGED <<mode, mainVars, m, born, wg, chanVars, hsig, list, rest, maxRunVars>>

(* StartWorker is AddWorker, here cut at ws.wg.Add, and SIGCONT. *)
ListNew ==
    /\ h = "list" /\ todo # <<>> /\ m[Head(todo)] = NoWorker
    /\ \/ \E w \in Worker :
            /\ NewJWorker(Head(todo), w)
            /\ m' = [m EXCEPT ![Head(todo)] = w]
            /\ h' = "add" /\ hcur' = w /\ todo' = todo
       \/ /\ todo' = Tail(todo)
          /\ UNCHANGED <<h, hcur, m, born, workerVars>>
    /\ UNCHANGED <<mode, mainVars, wg, chanVars, hsig, list, rest, maxRunVars>>

(* Mutant of ListWgAdd: StartWorker without ws.wg.Add. *)
ListWgAddForgotten ==
    /\ h = "add"
    /\ h' = "cont"
    /\ UNCHANGED <<mode, mainVars, m, born, wg, chanVars, hsig, list, todo, rest, hcur,
                   maxRunVars, workerVars>>

ListWgAdd ==
    /\ h = "add"
    /\ wg' = wg + 1
    /\ h' = "cont"
    /\ UNCHANGED <<mode, mainVars, m, born, chanVars, hsig, list, todo, rest, hcur,
                   maxRunVars, workerVars>>

ListCont ==
    /\ h = "cont"
    /\ Continue(hcur)
    /\ h' = "list" /\ todo' = Tail(todo) /\ hcur' = NoWorker
    /\ UNCHANGED <<mode, mainVars, m, born, wg, chanVars, hsig, list, rest, maxRunVars>>

ListEnd ==
    /\ h = "list" /\ todo = <<>>
    /\ h' = "del"
    /\ rest' = {f \in Files : ~StringInSlice(f, list)}
    /\ UNCHANGED <<mode, mainVars, m, born, wg, chanVars, hsig, list, todo, hcur,
                   maxRunVars, workerVars>>

(* Mutant of DelPick: the map entry is deleted before the worker is told. *)
DelPickDeletes ==
    /\ h = "del"
    /\ \E f \in rest :
         /\ m[f] # NoWorker
         /\ hcur' = m[f] /\ rest' = rest \ {f}
         /\ m' = [m EXCEPT ![f] = NoWorker]
    /\ h' = "kill"
    /\ UNCHANGED <<mode, mainVars, born, wg, chanVars, hsig, list, todo, maxRunVars, workerVars>>

(* handleConfigChanges, the deletions: a worker whose file is not in the list
   is interrupted and its map entry removed. *)
DelPick ==
    /\ h = "del"
    /\ \E f \in rest :
         /\ m[f] # NoWorker
         /\ hcur' = m[f] /\ rest' = rest \ {f}
    /\ h' = "kill"
    /\ UNCHANGED <<mode, mainVars, m, born, wg, chanVars, hsig, list, todo, maxRunVars, workerVars>>

DelSend ==
    /\ h = "kill"
    /\ Send(hcur, "SIGINT")
    /\ m' = [m EXCEPT ![fileOf(hcur)] = NoWorker]
    /\ h' = "del" /\ hcur' = NoWorker
    /\ UNCHANGED <<mode, mainVars, born, wg, chanVars, hsig, list, todo, rest, maxRunVars>>

DelEnd ==
    /\ h = "del" /\ \A f \in rest : m[f] = NoWorker
    /\ h' = "idle" /\ list' = <<>> /\ rest' = {}
    /\ UNCHANGED <<mode, mainVars, m, born, wg, chanVars, hsig, todo, hcur,
                   maxRunVars, workerVars>>

(* Mutant of RangePick: a return inside the loop, after the first worker. *)
RangePickOne ==
    /\ h = "range"
    /\ \E f \in rest : m[f] # NoWorker /\ hcur' = m[f]
    /\ rest' = {}
    /\ h' = "send"
    /\ UNCHANGED <<mode, mainVars, m, born, wg, chanVars, hsig, list, todo, maxRunVars, workerVars>>

(* for _, w := range ws.m { w.signalch <- s }; the handler returns after SIGINT. *)
RangePick ==
    /\ h = "range"
    /\ \E f \in rest :
         /\ m[f] # NoWorker
         /\ hcur' = m[f] /\ rest' = rest \ {f}
    /\ h' = "send"
    /\ UNCHANGED <<mode, mainVars, m, born, wg, chanVars, hsig, list, todo, maxRunVars, workerVars>>

RangeSend ==
    /\ h = "send"
    /\ Send(hcur, hsig)
    /\ h' = "range" /\ hcur' = NoWorker
    /\ UNCHANGED <<mode, mainVars, m, born, wg, chanVars, hsig, list, todo, rest, maxRunVars>>

RangeEnd ==
    /\ h = "range" /\ \A f \in rest : m[f] = NoWorker
    /\ h' = IF hsig = "SIGINT" THEN "done" ELSE "idle"
    /\ rest' = {}
    /\ UNCHANGED <<mode, mainVars, m, born, wg, chanVars, hsig, list, todo, hcur,
                   maxRunVars, workerVars>>

-----------------------------------------------------------------------------
(* maxRunHandler: when the timer fires, range over ws.m and interrupt. *)
MaxRunFires ==
    /\ r = "timer"
    /\ r' = "range" /\ rrest' = Files
    /\ UNCHANGED <<mode, mainVars, m, born, wg, chanVars, handlerVars, rcur, workerVars>>

(* Mutant of MaxRunPick: the same in maxRunHandler. *)
MaxRunPickOne ==
    /\ r = "range"
    /\ \E f \in rrest : m[f] # NoWorker /\ rcur' = m[f]
    /\ rrest' = {}
    /\ r' = "send"
    /\ UNCHANGED <<mode, mainVars, m, born, wg, chanVars, handlerVars, workerVars>>

MaxRunPick ==
    /\ r = "range"
    /\ \E f \in rrest :
         /\ m[f] # NoWorker
         /\ rcur' = m[f] /\ rrest' = rrest \ {f}
    /\ r' = "send"
    /\ UNCHANGED <<mode, mainVars, m, born, wg, chanVars, handlerVars, workerVars>>

MaxRunSend ==
    /\ r = "send"
    /\ Send(rcur, "SIGINT")
    /\ r' = "range" /\ rcur' = NoWorker
    /\ UNCHANGED <<mode, mainVars, m, born, wg, chanVars, handlerVars, rrest>>

MaxRunEnd ==
    /\ r = "range" /\ \A f \in rrest : m[f] = NoWorker
    /\ r' = "done"
    /\ UNCHANGED <<mode, mainVars, m, born, wg, chanVars, handlerVars, rrest, rcur, workerVars>>

(* Nothing orders the range over ws.m with signalHandler's writes of it: the
   runtime may find the two at the same moment and end the program. *)
MapRace ==
    /\ r = "range" /\ rrest # {}
    /\ \/ h = "idle" /\ statusChan # <<>>
       \/ h = "list" /\ todo # <<>> /\ m[Head(todo)] = NoWorker
       \/ h = "kill" /\ wst[hcur] = "select"
    /\ main' = "fatal"
    /\ UNCHANGED <<mode, toAdd, toCont, m, born, wg, chanVars, handlerVars, maxRunVars, workerVars>>

-----------------------------------------------------------------------------
(* The worker goroutine, the select loop of NewJWorker. *)

(* Dial-out: the configuration is published with the Kafka producer, a nil
   pointer when KafkaInit could not connect. *)
Publish(w) ==
    /\ wst[w] = "publish"
    /\ \/ wst' = [wst EXCEPT ![w] = "select"] /\ UNCHANGED main
       \/ main' = "fatal" /\ UNCHANGED wst
    /\ UNCHANGED <<mode, toAdd, toCont, m, born, wg, chanVars, handlerVars, maxRunVars,
                   kst, vendorOk>>

(* SIGHUP: ConfigRead.  Only a changed configuration is handed to the session.
   In dial-out mode the configuration is published again; a changed one has
   replaced the old one together with its producer, and the nil pointer
   panics. *)
Reload(w) ==
    /\ wst[w] = "reload"
    /\ \/ /\ ~mode.dialOut
          /\ \E ok \in BOOLEAN : vendorOk' = [vendorOk EXCEPT ![w] = ok]
          /\ wst' = [wst EXCEPT ![w] = "ctlHup"]
          /\ UNCHANGED main
       \/ /\ mode.dialOut /\ main' = "fatal"
          /\ UNCHANGED <<wst, vendorOk>>
       \/ /\ wst' = [wst EXCEPT ![w] = "select"]
          /\ UNCHANGED <<main, vendorOk>>
    /\ UNCHANGED <<mode, toAdd, toCont, m, born, wg, chanVars, handlerVars, maxRunVars, kst>>

(* DecodePassword: whenever a configuration is read, a password decoder that
   fails ends the program. *)
PasswordFatal ==
    /\ \/ main = "add" /\ toAdd # <<>>
       \/ h = "list" /\ todo # <<>> /\ m[Head(todo)] = NoWorker
       \/ \E w \in Worker : wst[w] = "reload"
    /\ main' = "fatal"
    /\ UNCHANGED <<mode, toAdd, toCont, m, born, wg, chanVars, handlerVars, maxRunVars, workerVars>>

(* Mutant of StopDone: an interrupted worker also reports on statusChan. *)
StopDoneReports(w) ==
    /\ wst[w] = "stop" /\ Len(statusChan) < 1
    /\ WgDone
    /\ statusChan' = Append(statusChan, fileOf(w))
    /\ wst' = [wst EXCEPT ![w] = "ctlInt"]
    /\ UNCHANGED <<mode, toAdd, toCont, m, born, sigchan, signals, handlerVars, maxRunVars,
                   kst, vendorOk>>

(* os.Interrupt: wg.Done comes before the session is told. *)
StopDone(w) ==
    /\ wst[w] = "stop"
    /\ WgDone
    /\ wst' = [wst EXCEPT ![w] = "ctlInt"]
    /\ UNCHANGED <<mode, toAdd, toCont, m, born, chanVars, handlerVars, maxRunVars, kst, vendorOk>>

(* case <-statusch *)
Status(w) ==
    /\ wst[w] = "select" /\ kst[w] = "status"
    /\ wst' = [wst EXCEPT ![w] = "post"]
    /\ kst' = [kst EXCEPT ![w] = "gone"]
    /\ UNCHANGED <<mode, mainVars, m, born, wg, chanVars, handlerVars, maxRunVars, vendorOk>>

(* wsChan <- jctx.file, a channel of capacity 1 *)
Post(w) ==
    /\ wst[w] = "post" /\ Len(statusChan) < 1
    /\ statusChan' = Append(statusChan, fileOf(w))
    /\ wst' = [wst EXCEPT ![w] = "posted"]
    /\ UNCHANGED <<mode, mainVars, m, born, wg, sigchan, signals, handlerVars, maxRunVars,
                   kst, vendorOk>>

(* Mutant of PostDone: no ws.wg.Done when the session ended by itself. *)
PostDoneForgotten(w) ==
    /\ wst[w] = "posted"
    /\ wst' = [wst EXCEPT ![w] = "gone"]
    /\ UNCHANGED <<mode, mainVars, m, born, wg, chanVars, handlerVars, maxRunVars, kst, vendorOk>>

PostDone(w) ==
    /\ wst[w] = "posted"
    /\ WgDone
    /\ wst' = [wst EXCEPT ![w] = "gone"]
    /\ UNCHANGED <<mode, toAdd, toCont, m, born, chanVars, handlerVars, maxRunVars, kst, vendorOk>>

-----------------------------------------------------------------------------
(* The session goroutine: work and workTunnel. *)

SessionUnchanged ==
    UNCHANGED <<mode, m, born, wg, chanVars, handlerVars, maxRunVars, vendorOk>>

Step(w, from, to) ==
    /\ kst[w] \in from
    /\ \E s \in to : kst' = [kst EXCEPT ![w] = s]
    /\ UNCHANGED <<mainVars, wst>>
    /\ SessionUnchanged

(* A signal on jctx.control: SIGINT ends the session, SIGHUP makes it go on
   from state "again" with the configuration the worker has read. *)
TakeControl(w, again) ==
    /\ \/ /\ wst[w] = "ctlInt"
          /\ wst' = [wst EXCEPT ![w] = "gone"]
          /\ kst' = [kst EXCEPT ![w] = "status"]
       \/ /\ wst[w] = "ctlHup"
          /\ wst' = [wst EXCEPT ![w] = "select"]
          /\ kst' = [kst EXCEPT ![w] = again]
    /\ UNCHANGED mainVars
    /\ SessionUnchanged

(* One pass from connect: getVendor, which loops while it fails;
   getGPRCDialOptions or an empty host name, which end the worker; the "Check
   signals" select; then dial and log in, whose failures lead back to connect. *)
ConnectFails(w) == vendorOk[w] /\ Step(w, {"connect"}, {"status"})

ConnectControl(w) ==
    /\ kst[w] = "connect" /\ vendorOk[w]
    /\ \E again \in {"connect", "stream"} : TakeControl(w, again)

ConnectDials(w) ==
    /\ vendorOk[w] /\ wst[w] \notin {"ctlInt", "ctlHup"}
    /\ Step(w, {"connect"}, {"stream"})

(* subscribe ends by itself: SubRcConnRetry, SubRcRPCFailedNoRetry reconnect,
   SubRcOnceComplete ends the worker. *)
StreamEnds(w) ==
    \/ Step(w, {"stream"}, {"connect", "status"})
    \/ Step(w, {"tstream"}, {"tunnel", "status"})

(* subscribe's select on jctx.control *)
StreamControl(w) ==
    \/ kst[w] = "stream" /\ TakeControl(w, "connect")
    \/ kst[w] = "tstream" /\ TakeControl(w, "tunnel")

(* A subscription that subscribePrePostGNMI left behind takes the signal, and the
   session does not learn of it. *)
OrphanControl(w) ==
    /\ mode.prePost /\ kst[w] \in {"connect", "stream", "tunnel", "tstream", "status"}
    /\ wst[w] \in {"ctlInt", "ctlHup"}
    /\ wst' = [wst EXCEPT ![w] = IF wst[w] = "ctlInt" THEN "gone" ELSE "select"]
    /\ UNCHANGED <<mainVars, kst>>
    /\ SessionUnchanged

(* workTunnel: a tunnel that fails or a target that never shows leaves no
   session. *)
Tunnel(w) ==
    \/ Step(w, {"tunnel"}, {"lost"})
    \/ vendorOk[w] /\ Step(w, {"tunnel"}, {"status", "tstream"})

(* The session goroutine ends the program: workTunnel when it cannot find a
   vendor or dial, both when they subscribe to gNMI with a configuration that
   has no vendor.gnmi. *)
SessionFatal(w) ==
    /\ kst[w] \in {"connect", "tunnel"}
    /\ main' = "fatal"
    /\ UNCHANGED <<toAdd, toCont, wst, kst>>
    /\ SessionUnchanged

-----------------------------------------------------------------------------
Main == MainAdd \/ MainAdded \/ MainCont \/ MainWait \/ MainExit

Handler ==
    \/ HandleStatus \/ HandleSignal
    \/ ListKnown \/ ListHup \/ ListNew \/ ListWgAdd \/ ListCont \/ ListEnd
    \/ DelPick \/ DelSend \/ DelEnd
    \/ RangePick \/ RangeSend \/ RangeEnd

MaxRunHandler == MaxRunPick \/ MaxRunSend \/ MaxRunEnd

WorkerStep(w) == Publish(w) \/ Reload(w) \/ StopDone(w) \/ Status(w) \/ Post(w) \/ PostDone(w)

SessionStep(w) == ConnectControl(w) \/ StreamControl(w)

(* What the network and the devices do; nothing makes it happen. *)
Environment(w) ==
    \/ ConnectFails(w) \/ ConnectDials(w) \/ StreamEnds(w) \/ OrphanControl(w)
    \/ Tunnel(w) \/ SessionFatal(w)

Running ==
    \/ Main \/ Handler \/ OsSignal \/ MaxRunFires \/ MaxRunHandler \/ MapRace \/ PasswordFatal
    \/ \E w \in Worker : WorkerStep(w) \/ SessionStep(w) \/ Environment(w)

Next == Alive /\ Running

(* Go schedules every goroutine that can run. *)
Fairness ==
    /\ WF_vars(Alive /\ Main)
    /\ WF_vars(Alive /\ Handler)
    /\ WF_vars(Alive /\ MaxRunHandler)
    /\ \A w \in Worker : WF_vars(Alive /\ WorkerStep(w)) /\ WF_vars(Alive /\ SessionStep(w))

Spec == Init /\ [][Next]_vars
FairSpec == Spec /\ Fairness

-----------------------------------------------------------------------------
(* Properties *)

TypeOK ==
    /\ mode \in Modes
    /\ main \in MainStates /\ toAdd \in Seq(Files) /\ toCont \subseteq Files
    /\ m \in [Files -> Worker \cup {NoWorker}]
    /\ born \in [Files -> 0 .. MaxInc]
    /\ wg \in Int
    /\ sigchan \in Seq({"SIGHUP", "SIGINT"}) /\ statusChan \in Seq(Files)
    /\ signals \in 0 .. MaxSignals
    /\ h \in HandlerStates /\ hsig \in {"SIGHUP", "SIGINT"}
    /\ list \in Seq(Files) /\ todo \in Seq(Files)
    /\ h \in {"hup", "add", "cont"} => todo # <<>>
    /\ rest \subseteq Files /\ hcur \in Worker \cup {NoWorker}
    /\ r \in MaxRunStates /\ rrest \subseteq Files /\ rcur \in Worker \cup {NoWorker}
    /\ wst \in [Worker -> WorkerStates]
    /\ kst \in [Worker -> SessionStates]
    /\ vendorOk \in [Worker -> BOOLEAN]

(* A worker whose wg.Done is still to come, and that can still be signalled
   or is on its way out. *)
Active(w) == wst[w] \notin {"none", "ctlInt", "gone"}
Counted(w) == ~(h = "add" /\ hcur = w)
RunningWorkers == {w \in Worker : Active(w) /\ Counted(w)}

(* The WaitGroup counts exactly the added workers that have not called Done:
   no path of the worker goroutine calls Done twice or forgets it
   (workers.go:123-128, 304-364).  Stated without --max-run, where a worker can be
   interrupted between its entry in ws.m and ws.wg.Add. *)
WgCountsRunning ==
    ~mode.maxRun => wg = Cardinality(RunningWorkers)

(* A name in statusChan is always that of the worker in ws.m that posted it,
   so "Worker removed" (workers.go:201-204) never removes a younger worker
   started for the same file. *)
StatusNamesItsWorker ==
    \A i \in DOMAIN statusChan :
        LET w == m[statusChan[i]]
        IN  w \in Worker /\ fileOf(w) = statusChan[i] /\ wst[w] \in {"posted", "gone"}

(* A worker that still waits for signals is the one ws.m names for its file,
   so SIGHUP, SIGINT and --max-run reach it (workers.go:135-207).  The
   exception is a file listed twice at the start, whose first worker nobody
   can reach any more. *)
StartListIsDuplicateFree ==
    \A i, j \in DOMAIN StartList : StartList[i] = StartList[j] => i = j

LiveWorkerIsInMap ==
    StartListIsDuplicateFree =>
        \A w \in Worker :
            wst[w] \in {"publish", "select", "reload", "ctlHup", "post"} => m[fileOf(w)] = w

(* Without --config-file-list no worker is added after the start, and then
   Wait really is "Wait for all the workers to finish" (workers.go:97). *)
ExitAfterAllWorkers ==
    main = "exited" /\ ~mode.fileList /\ ~mode.maxRun => \A w \in Worker : ~Active(w)

(* "Wait for all the workers to finish" (workers.go:97), in every mode. *)
WaitForAllWorkers ==
    main = "exited" => \A w \in Worker : ~Active(w)

(* The supervisor implements Fleet: in the absence of --max-run, workers start
   and finish once and JTIMON exits only when none is running. *)
lifeBar == [w \in Worker |->
              IF wst[w] = "none" \/ ~Counted(w) THEN "absent"
              ELSE IF Active(w) THEN "running" ELSE "finished"]
programBar == CASE main = "exited" -> "exited"
                [] main = "fatal"  -> "crashed"
                [] OTHER           -> "up"
F == INSTANCE Fleet WITH life <- lifeBar, program <- programBar
ImplementsFleet == F!FleetSpec

(* No worker ends by itself, and every session comes back to a select on
   jctx.control: the tunnel and a vendor that getVendor rejects never do. *)
AllSessionsListen ==
    \A w \in Worker :
        /\ kst[w] = "status" => wst[w] = "gone"
        /\ kst[w] \notin {"tunnel", "tstream", "lost"}
        /\ vendorOk[w]

(* While that is so, SIGINT ends JTIMON: the handler reaches every worker, also
   one that is busy handing an earlier SIGHUP to its session
   (workers.go:194-199, 304-316). *)
InterruptEndsProgram ==
    [](AllSessionsListen /\ ~mode.maxRun) => ((h = "range" /\ hsig = "SIGINT") ~> ~Alive)

(* "Once the time expires, interrupt worker go routines" (workers.go:134):
   --max-run ends JTIMON, if no signal interferes. *)
MaxRunEndsProgram ==
    [](AllSessionsListen /\ signals = 0) => (r = "range" ~> ~Alive)

(* "propagate the signal to workers and continue waiting for signals"
   (workers.go:187): the handler of a SIGHUP comes back to its select. *)
SighupIsPropagated ==
    (h \in {"list", "range"} /\ hsig = "SIGHUP") ~> (h = "idle" \/ ~Alive)

-----------------------------------------------------------------------------
(* The inductive invariant behind the safety properties. *)

Live == {"publish", "select", "reload", "ctlHup", "post"}

(* While main starts the workers nobody else is there, and the files still to be
   added have no worker unless they are listed twice. *)
BootInv ==
    /\ main \in {"add", "cont"} => h = "off" /\ r = "off"
    /\ r \notin {"off", "done"} => mode.maxRun
    /\ main = "add" =>
         /\ statusChan = <<>>
         /\ \A w \in Worker : kst[w] = "none" /\ wst[w] \in {"none", "publish", "select"}
    /\ StartListIsDuplicateFree /\ main = "add" =>
         /\ \A i, j \in DOMAIN toAdd : toAdd[i] = toAdd[j] => i = j
         /\ \A i \in DOMAIN toAdd : m[toAdd[i]] = NoWorker

(* A worker that was never created is untouched, and ws.m and the handler only
   name created workers, under their own file. *)
MapInv ==
    /\ \A w \in Worker : (wst[w] = "none" <=> w[2] > born[w[1]])
                         /\ (wst[w] = "none" => kst[w] = "none")
    /\ \A f \in Files : m[f] # NoWorker => fileOf(m[f]) = f /\ wst[m[f]] # "none"
    /\ h \in {"hup", "add", "cont", "kill", "send"} =>
         hcur \in Worker /\ m[fileOf(hcur)] = hcur
    /\ main = "cont" => \A f \in toCont : m[f] # NoWorker

(* The map names every live worker that has a session, and every live worker at
   all when no file was listed twice. *)
LiveInv ==
    /\ \A w \in Worker :
         wst[w] \in Live /\ (kst[w] # "none" \/ StartListIsDuplicateFree)
             => m[fileOf(w)] = w
    /\ \A w \in Worker : wst[w] = "post" => kst[w] = "gone"

StatusInv == Len(statusChan) \in {0, 1} /\ StatusNamesItsWorker

(* The worker the handler has put into ws.m and not yet counted is idle. *)
AddInv ==
    /\ ~mode.maxRun /\ h \in {"add", "cont"} =>
         wst[hcur] \in {"publish", "select"} /\ kst[hcur] = "none"
    /\ h \in {"list", "hup", "add", "cont", "del", "kill"} => mode.fileList

IInv == TypeOK /\ BootInv /\ MapInv /\ LiveInv /\ StatusInv /\ AddInv

WgInv ==
    /\ WgCountsRunning
    /\ main = "exited" => wg = 0
=============================================================================

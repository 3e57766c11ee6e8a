--------------------------- MODULE WorkersProofs ---------------------------
(***************************************************************************)
(* Theorems about the supervisor, for any number of devices, lists,        *)
(* signals and modes: the map and statusChan, then the WaitGroup, which     *)
(* counts the running workers, and so the refinement of Fleet.             *)
(***************************************************************************)
EXTENDS Workers, FiniteSetTheorems, SequenceTheorems, TLAPS

USE DEF mainVars, handlerVars, maxRunVars, chanVars, workerVars

-----------------------------------------------------------------------------
(* Type correctness *)

LEMMA HeadTail ==
  ASSUME NEW S, NEW s \in Seq(S), s # <<>>
  PROVE  Head(s) \in S /\ Tail(s) \in Seq(S)
  BY HeadTailProperties

LEMMA NewWorkerTypes ==
  ASSUME TypeOK, NEW f \in Files, NEW w \in Worker, NewJWorker(f, w)
  PROVE  /\ [m EXCEPT ![f] = w] \in [Files -> Worker \cup {NoWorker}]
         /\ born' \in [Files -> 0 .. MaxInc]
         /\ wst' \in [Worker -> WorkerStates]
         /\ kst' \in [Worker -> SessionStates]
         /\ vendorOk' \in [Worker -> BOOLEAN]
  BY ConstAssumption DEF TypeOK, NewJWorker, FirstState, WorkerStates

LEMMA MainTypes == TypeOK /\ Main => TypeOK'
  <1> SUFFICES ASSUME TypeOK, Main PROVE TypeOK'
    OBVIOUS
  <1> USE ConstAssumption DEF TypeOK
  <1>1. CASE MainAdd
    <2> /\ Head(toAdd) \in Files
        /\ Tail(toAdd) \in Seq(Files)
      BY <1>1, HeadTail DEF MainAdd
    <2>1. wg' \in Int
      BY <1>1 DEF MainAdd
    <2>2. ASSUME NEW w \in Worker, NewJWorker(Head(toAdd), w),
                 m' = [m EXCEPT ![Head(toAdd)] = w]
          PROVE  TypeOK'
      BY <1>1, <2>1, <2>2, NewWorkerTypes DEF MainAdd
    <2>3. CASE UNCHANGED <<m, born, wg, workerVars>>
      BY <1>1, <2>3 DEF MainAdd
    <2> HIDE DEF TypeOK
    <2> QED BY <1>1, <2>2, <2>3 DEF MainAdd
  <1>2. CASE MainAdded
    BY <1>2 DEF MainAdded, MainStates
  <1>3. CASE MainCont
    BY <1>3 DEF MainCont, Continue, SessionStates
  <1>4. CASE MainWait
    BY <1>4 DEF MainWait, MainStates, HandlerStates, MaxRunStates
  <1>5. CASE MainExit
    BY <1>5 DEF MainExit, MainStates
  <1> QED BY <1>1, <1>2, <1>3, <1>4, <1>5 DEF Main

LEMMA HandlerTypes == TypeOK /\ Handler => TypeOK'
  <1> SUFFICES ASSUME TypeOK, Handler PROVE TypeOK'
    OBVIOUS
  <1> USE ConstAssumption DEF TypeOK, HandlerStates
  <1>1. CASE HandleStatus
    BY <1>1, HeadTail DEF HandleStatus
  <1>2. CASE HandleSignal
    <2> /\ Head(sigchan) \in {"SIGHUP", "SIGINT"}
        /\ Tail(sigchan) \in Seq({"SIGHUP", "SIGINT"})
      BY <1>2, HeadTail DEF HandleSignal
    <2>1. /\ h' \in HandlerStates
          /\ list' \in Seq(Files) /\ todo' \in Seq(Files)
          /\ h' \notin {"hup", "add", "cont"}
          /\ rest' \subseteq Files
      BY <1>2 DEF HandleSignal
    <2> QED BY <1>2, <2>1 DEF HandleSignal
  <1>3. CASE ListKnown
    BY <1>3 DEF ListKnown
  <1>4. CASE ListHup
    BY <1>4, HeadTail DEF ListHup, Send, WorkerStates
  <1>5. CASE ListNew
    <2> /\ Head(todo) \in Files
        /\ Tail(todo) \in Seq(Files)
      BY <1>5, HeadTail DEF ListNew
    <2>1. ASSUME NEW w \in Worker, NewJWorker(Head(todo), w),
                 m' = [m EXCEPT ![Head(todo)] = w], h' = "add", hcur' = w, todo' = todo
          PROVE  TypeOK'
      BY <1>5, <2>1, NewWorkerTypes DEF ListNew
    <2>2. CASE todo' = Tail(todo) /\ UNCHANGED <<h, hcur, m, born, workerVars>>
      BY <1>5, <2>2 DEF ListNew
    <2> HIDE DEF TypeOK
    <2> QED BY <1>5, <2>1, <2>2 DEF ListNew
  <1>6. CASE ListWgAdd
    BY <1>6 DEF ListWgAdd
  <1>7. CASE ListCont
    BY <1>7, HeadTail DEF ListCont, Continue, SessionStates
  <1>8. CASE ListEnd
    BY <1>8 DEF ListEnd
  <1>9. CASE DelPick
    BY <1>9 DEF DelPick
  <1>10. CASE DelSend
    BY <1>10 DEF DelSend, Send, WorkerStates
  <1>11. CASE DelEnd
    BY <1>11 DEF DelEnd
  <1>12. CASE RangePick
    BY <1>12 DEF RangePick
  <1>13. CASE RangeSend
    BY <1>13 DEF RangeSend, Send, WorkerStates
  <1>14. CASE RangeEnd
    BY <1>14 DEF RangeEnd
  <1> QED BY <1>1, <1>2, <1>3, <1>4, <1>5, <1>6, <1>7, <1>8, <1>9, <1>10, <1>11, <1>12,
             <1>13, <1>14 DEF Handler

LEMMA MaxRunTypes ==
  ASSUME TypeOK, MaxRunFires \/ MaxRunHandler \/ MapRace \/ PasswordFatal \/ OsSignal
  PROVE  TypeOK'
  <1> USE ConstAssumption DEF TypeOK, MaxRunStates
  <1>1. CASE MaxRunFires
    BY <1>1 DEF MaxRunFires
  <1>2. CASE MaxRunPick
    BY <1>2 DEF MaxRunPick
  <1>3. CASE MaxRunSend
    BY <1>3 DEF MaxRunSend, Send, WorkerStates
  <1>4. CASE MaxRunEnd
    BY <1>4 DEF MaxRunEnd
  <1>5. CASE MapRace
    BY <1>5 DEF MapRace, MainStates
  <1>6. CASE OsSignal
    BY <1>6 DEF OsSignal
  <1>7. CASE PasswordFatal
    BY <1>7 DEF PasswordFatal, MainStates
  <1> QED BY <1>1, <1>2, <1>3, <1>4, <1>5, <1>6, <1>7 DEF MaxRunHandler

LEMMA WorkerTypes ==
  ASSUME TypeOK, NEW w \in Worker, WorkerStep(w)
  PROVE  TypeOK'
  <1> USE ConstAssumption DEF TypeOK, WorkerStates
  <1>0. fileOf(w) \in Files
    BY DEF fileOf, Worker
  <1>1. CASE Reload(w)
    BY <1>1 DEF Reload, MainStates
  <1>2. CASE StopDone(w)
    <2>1. wg' \in Int /\ main' \in MainStates
      BY <1>2 DEF StopDone, WgDone, MainStates
    <2> QED BY <1>2, <2>1 DEF StopDone
  <1>3. CASE Status(w)
    BY <1>3 DEF Status, SessionStates
  <1>4. CASE Post(w)
    BY <1>0, <1>4 DEF Post
  <1>5. CASE PostDone(w)
    <2>1. wg' \in Int /\ main' \in MainStates
      BY <1>5 DEF PostDone, WgDone, MainStates
    <2> QED BY <1>5, <2>1 DEF PostDone
  <1>6. CASE Publish(w)
    BY <1>6 DEF Publish, MainStates
  <1> QED BY <1>1, <1>2, <1>3, <1>4, <1>5, <1>6 DEF WorkerStep

LEMMA SessionTypes ==
  ASSUME TypeOK, NEW w \in Worker, SessionStep(w) \/ Environment(w)
  PROVE  TypeOK'
  <1> USE ConstAssumption DEF TypeOK, WorkerStates, SessionStates, SessionUnchanged
  <1>1. CASE ConnectControl(w)
    BY <1>1 DEF ConnectControl, TakeControl
  <1>2. CASE StreamControl(w)
    BY <1>2 DEF StreamControl, TakeControl
  <1>3. CASE ConnectFails(w)
    BY <1>3 DEF ConnectFails, Step
  <1>4. CASE ConnectDials(w)
    BY <1>4 DEF ConnectDials, Step
  <1>5. CASE StreamEnds(w)
    BY <1>5 DEF StreamEnds, Step
  <1>6. CASE OrphanControl(w)
    BY <1>6 DEF OrphanControl
  <1>7. CASE Tunnel(w)
    BY <1>7 DEF Tunnel, Step
  <1>8. CASE SessionFatal(w)
    BY <1>8 DEF SessionFatal, MainStates
  <1> QED BY <1>1, <1>2, <1>3, <1>4, <1>5, <1>6, <1>7, <1>8 DEF SessionStep, Environment

(* Every variable keeps its type in every step of the supervisor
   (workers.go:49-375): channels hold files or signals, the map names workers,
   every goroutine is in one of its control states. *)
THEOREM TypeCorrect == Spec => []TypeOK
  <1>1. Init => TypeOK
    BY ConstAssumption DEF Init, TypeOK, MainStates, HandlerStates, MaxRunStates,
       WorkerStates, SessionStates
  <1>2. TypeOK /\ [Next]_vars => TypeOK'
    <2> SUFFICES ASSUME TypeOK, [Next]_vars PROVE TypeOK'
      OBVIOUS
    <2>1. CASE Main
      BY <2>1, MainTypes
    <2>2. CASE Handler
      BY <2>2, HandlerTypes
    <2>3. CASE MaxRunFires \/ MaxRunHandler \/ MapRace \/ PasswordFatal \/ OsSignal
      BY <2>3, MaxRunTypes
    <2>4. ASSUME NEW w \in Worker, WorkerStep(w) PROVE TypeOK'
      BY <2>4, WorkerTypes
    <2>5. ASSUME NEW w \in Worker, SessionStep(w) \/ Environment(w) PROVE TypeOK'
      BY <2>5, SessionTypes
    <2>6. CASE UNCHANGED vars
      BY <2>6 DEF vars, TypeOK
    <2> QED BY <2>1, <2>2, <2>3, <2>4, <2>5, <2>6 DEF Next, Running
  <1> QED BY <1>1, <1>2, PTL DEF Spec

-----------------------------------------------------------------------------
(* The inductive invariant *)

LEMMA FileOf == \A w \in Worker : fileOf(w) \in Files
  BY DEF fileOf, Worker

LEMMA NewWorkerFresh ==
  ASSUME IInv, NEW f \in Files, NEW w \in Worker, NewJWorker(f, w)
  PROVE  /\ fileOf(w) = f
         /\ wst[w] = "none" /\ kst[w] = "none"
         /\ wst' = [wst EXCEPT ![w] = FirstState] /\ kst' = kst
         /\ \A v \in Worker : (wst'[v] = "none" <=> v[2] > born'[v[1]])
                              /\ (wst'[v] = "none" => kst'[v] = "none")
         /\ FirstState \in {"publish", "select"}
  <1>f. FirstState \in {"publish", "select"}
    BY DEF FirstState
  <1>1. fileOf(w) = f /\ w[1] = f /\ w[2] = born[f] + 1
    BY DEF NewJWorker, fileOf
  <1>2. wst[w] = "none" /\ kst[w] = "none"
    BY <1>1, ConstAssumption DEF IInv, MapInv, TypeOK
  <1>3. ASSUME NEW v \in Worker, v # w, v[1] = f PROVE v[2] # born[f] + 1
    BY <1>1, <1>3 DEF Worker
  <1>4. ASSUME NEW v \in Worker PROVE v[1] \in Files /\ v[2] \in Nat
    BY ConstAssumption DEF Worker
  <1>5. ASSUME NEW v \in Worker
        PROVE  (wst'[v] = "none" <=> v[2] > born'[v[1]]) /\ (wst'[v] = "none" => kst'[v] = "none")
    <2>1. CASE v = w
      BY <1>f, <1>1, <2>1, ConstAssumption DEF NewJWorker, IInv, TypeOK
    <2>2. CASE v # w /\ v[1] = f
      BY <1>3, <1>4, <2>2, ConstAssumption DEF NewJWorker, IInv, TypeOK, MapInv
    <2>3. CASE v # w /\ v[1] # f
      BY <1>4, <2>3, ConstAssumption DEF NewJWorker, IInv, TypeOK, MapInv
    <2> QED BY <2>1, <2>2, <2>3
  <1> QED BY <1>f, <1>1, <1>2, <1>5 DEF NewJWorker

LEMMA SeqDomainOne ==
  ASSUME NEW S, NEW s \in Seq(S), Len(s) = 1
  PROVE  DOMAIN s = {1}
  <1>1. DOMAIN s = 1 .. Len(s)
    BY LenProperties
  <1> QED BY <1>1

(* The steps of a worker and its session that touch nothing else of what the
   invariant is about: w moves to state a and its session to state k. *)
LEMMA LocalStep ==
  ASSUME IInv, TypeOK', NEW w \in Worker, NEW a \in WorkerStates, NEW k \in SessionStates,
         wst' = [wst EXCEPT ![w] = a], kst' = [kst EXCEPT ![w] = k],
         UNCHANGED <<mode, toAdd, toCont, m, born, statusChan, h, hcur, r>>,
         main' \in {main, "woken", "fatal"},
         wst[w] \notin {"none", "publish", "select"} \/ kst[w] # "none",
         a # "none", k # "none" => kst[w] # "none",
         a \in Live => wst[w] \in Live,
         a = "post" => k = "gone",
         wst[w] \in {"posted", "gone"} => a \in {"posted", "gone"}
  PROVE  IInv'
  <1> USE ConstAssumption, FileOf DEF IInv, TypeOK
  <1>0. wst[w] # "none" /\ main # "add"
    BY DEF BootInv, MapInv
  <1>1. BootInv'
    BY <1>0 DEF BootInv
  <1>2. MapInv'
    BY <1>0 DEF MapInv
  <1>3. LiveInv'
    BY DEF LiveInv, Live
  <1>4. StatusInv'
    BY DEF StatusInv, StatusNamesItsWorker
  <1>5. AddInv'
    BY DEF AddInv
  <1> QED BY <1>1, <1>2, <1>3, <1>4, <1>5

(* maxRunHandler, the map race and the arrival of signals *)
LEMMA MaxRunInv ==
  ASSUME IInv, MaxRunFires \/ MaxRunHandler \/ MapRace \/ PasswordFatal \/ OsSignal
  PROVE  IInv'
  <1>0. TypeOK'
    BY MaxRunTypes DEF IInv
  <1> USE ConstAssumption DEF IInv, TypeOK, BootInv, MapInv, LiveInv, StatusInv, StatusNamesItsWorker, AddInv, Live
  <1>1. CASE MaxRunFires
    <2> USE <1>1 DEF MaxRunFires
    <2>1. BootInv'
      BY FileOf
    <2>2. MapInv'
      BY FileOf
    <2>3. LiveInv'
      BY FileOf
    <2>4. StatusInv'
      BY FileOf
    <2>5. AddInv'
      BY FileOf
    <2> QED BY <1>0, <2>1, <2>2, <2>3, <2>4, <2>5 DEF IInv
  <1>2. CASE MaxRunPick
    <2> USE <1>2 DEF MaxRunPick
    <2>1. BootInv'
      BY FileOf
    <2>2. MapInv'
      BY FileOf
    <2>3. LiveInv'
      BY FileOf
    <2>4. StatusInv'
      BY FileOf
    <2>5. AddInv'
      BY FileOf
    <2> QED BY <1>0, <2>1, <2>2, <2>3, <2>4, <2>5 DEF IInv
  <1>3. CASE MaxRunSend
    <2> USE <1>3 DEF MaxRunSend, Send
    <2>1. BootInv'
      BY FileOf
    <2>2. MapInv'
      BY FileOf
    <2>3. LiveInv'
      BY FileOf
    <2>4. StatusInv'
      BY FileOf
    <2>5. AddInv'
      BY FileOf
    <2> QED BY <1>0, <2>1, <2>2, <2>3, <2>4, <2>5 DEF IInv
  <1>4. CASE MaxRunEnd
    <2> USE <1>4 DEF MaxRunEnd
    <2>1. BootInv'
      BY FileOf
    <2>2. MapInv'
      BY FileOf
    <2>3. LiveInv'
      BY FileOf
    <2>4. StatusInv'
      BY FileOf
    <2>5. AddInv'
      BY FileOf
    <2> QED BY <1>0, <2>1, <2>2, <2>3, <2>4, <2>5 DEF IInv
  <1>5. CASE MapRace
    <2> USE <1>5 DEF MapRace
    <2>1. BootInv'
      BY FileOf
    <2>2. MapInv'
      BY FileOf
    <2>3. LiveInv'
      BY FileOf
    <2>4. StatusInv'
      BY FileOf
    <2>5. AddInv'
      BY FileOf
    <2> QED BY <1>0, <2>1, <2>2, <2>3, <2>4, <2>5 DEF IInv
  <1>6. CASE OsSignal
    <2> USE <1>6 DEF OsSignal
    <2>1. BootInv'
      BY FileOf
    <2>2. MapInv'
      BY FileOf
    <2>3. LiveInv'
      BY FileOf
    <2>4. StatusInv'
      BY FileOf
    <2>5. AddInv'
      BY FileOf
    <2> QED BY <1>0, <2>1, <2>2, <2>3, <2>4, <2>5 DEF IInv
  <1>7. CASE PasswordFatal
    <2> USE <1>7 DEF PasswordFatal
    <2>1. BootInv'
      BY FileOf
    <2>2. MapInv'
      BY FileOf
    <2>3. LiveInv'
      BY FileOf
    <2>4. StatusInv'
      BY FileOf
    <2>5. AddInv'
      BY FileOf
    <2> QED BY <1>0, <2>1, <2>2, <2>3, <2>4, <2>5 DEF IInv
  <1> HIDE DEF IInv
  <1> QED BY <1>1, <1>2, <1>3, <1>4, <1>5, <1>6, <1>7 DEF MaxRunHandler

(* The worker goroutine *)
LEMMA WorkerInv ==
  ASSUME IInv, NEW w \in Worker, WorkerStep(w)
  PROVE  IInv'
  <1>0. TypeOK'
    BY WorkerTypes DEF IInv
  <1> USE ConstAssumption DEF TypeOK, Live, WorkerStates, SessionStates
  <1>t. TypeOK
    BY DEF IInv
  <1>1. CASE Reload(w)
    <2>1. PICK a \in {"select", "ctlHup", "reload"} : wst' = [wst EXCEPT ![w] = a]
      BY <1>1, <1>t DEF Reload
    <2> kst' = [kst EXCEPT ![w] = kst[w]]
      BY <1>1, <1>t DEF Reload
    <2> QED BY <1>1, <2>1, <1>0, <1>t, LocalStep DEF Reload
  <1>2. CASE StopDone(w)
    <2> wst' = [wst EXCEPT ![w] = "ctlInt"] /\ kst' = [kst EXCEPT ![w] = kst[w]]
      BY <1>2, <1>t DEF StopDone, WgDone
    <2> QED BY <1>2, <1>0, <1>t, LocalStep DEF StopDone, WgDone
  <1>3. CASE Status(w)
    BY <1>3, <1>0, LocalStep DEF Status
  <1>4. CASE Post(w)
    <2> USE <1>4, FileOf DEF IInv, BootInv, MapInv, LiveInv, StatusInv, StatusNamesItsWorker, AddInv, Post
    <2>1. BootInv'
      OBVIOUS
    <2>2. MapInv'
      OBVIOUS
    <2>3. LiveInv'
      OBVIOUS
    <2>4. StatusInv'
      <3>1. statusChan \in Seq(Files) /\ Len(statusChan) = 0 /\ fileOf(w) \in Files
        OBVIOUS
      <3>2. Len(statusChan') = 1 /\ statusChan'[1] = fileOf(w)
        BY <3>1, AppendProperties
      <3>3. DOMAIN statusChan' = {1}
        <4>1. statusChan' \in Seq(Files)
          BY <1>0 DEF TypeOK
        <4> HIDE <1>4 DEF Post, IInv, TypeOK, StatusInv, StatusNamesItsWorker
        <4> QED BY <3>2, <4>1, SeqDomainOne
      <3>4. m[fileOf(w)] = w /\ wst'[w] = "posted"
        OBVIOUS
      <3> QED BY <3>2, <3>3, <3>4
    <2>5. AddInv'
      OBVIOUS
    <2> QED BY <1>0, <2>1, <2>2, <2>3, <2>4, <2>5
  <1>5. CASE PostDone(w)
    <2> wst' = [wst EXCEPT ![w] = "gone"] /\ kst' = [kst EXCEPT ![w] = kst[w]]
      BY <1>5, <1>t DEF PostDone, WgDone
    <2> QED BY <1>5, <1>0, <1>t, LocalStep DEF PostDone, WgDone
  <1>6. CASE Publish(w)
    <2> USE <1>6, FileOf DEF Publish
    <2>0. PICK a \in {"publish", "select"} : wst' = [wst EXCEPT ![w] = a]
      BY <1>t
    <2>1. BootInv'
      BY <1>t, <2>0 DEF IInv, BootInv
    <2>2. MapInv'
      BY <1>t, <2>0 DEF IInv, MapInv
    <2>3. LiveInv'
      BY <1>t, <2>0 DEF IInv, LiveInv
    <2>4. StatusInv'
      BY <1>t, <2>0 DEF IInv, StatusInv, StatusNamesItsWorker
    <2>5. AddInv'
      BY <1>t, <2>0 DEF IInv, AddInv
    <2> QED BY <1>0, <2>1, <2>2, <2>3, <2>4, <2>5 DEF IInv
  <1> HIDE DEF TypeOK
  <1> QED BY <1>1, <1>2, <1>3, <1>4, <1>5, <1>6 DEF WorkerStep

(* The session goroutine *)
LEMMA SessionInv ==
  ASSUME IInv, NEW w \in Worker, SessionStep(w) \/ Environment(w)
  PROVE  IInv'
  <1>0. TypeOK'
    BY SessionTypes DEF IInv
  <1> USE ConstAssumption DEF TypeOK, Live, WorkerStates, SessionStates
  <1>t. TypeOK
    BY DEF IInv
  <1>p. (wst[w] = "post" => kst[w] = "gone") /\ (wst[w] = "none" => kst[w] = "none")
    BY DEF IInv, LiveInv, MapInv
  <1>1. CASE ConnectControl(w)
    <2>1. PICK again \in {"connect", "stream"} : TakeControl(w, again)
      BY <1>1 DEF ConnectControl
    <2>2. CASE wst[w] = "ctlInt"
      BY <1>1, <2>1, <2>2, <1>0, <1>t, LocalStep DEF ConnectControl, TakeControl, SessionUnchanged
    <2>3. CASE wst[w] = "ctlHup"
      BY <1>1, <2>1, <2>3, <1>0, <1>t, LocalStep DEF ConnectControl, TakeControl, SessionUnchanged
    <2> HIDE DEF TypeOK
    <2> QED BY <2>1, <2>2, <2>3 DEF TakeControl
  <1>2. CASE StreamControl(w)
    <2>1. PICK again \in {"connect", "tunnel"} : TakeControl(w, again)
      BY <1>2 DEF StreamControl
    <2>2. CASE wst[w] = "ctlInt"
      BY <1>2, <2>1, <2>2, <1>0, <1>t, LocalStep DEF StreamControl, TakeControl, SessionUnchanged
    <2>3. CASE wst[w] = "ctlHup"
      BY <1>2, <2>1, <2>3, <1>0, <1>t, LocalStep DEF StreamControl, TakeControl, SessionUnchanged
    <2> HIDE DEF TypeOK
    <2> QED BY <2>1, <2>2, <2>3 DEF TakeControl
  <1>3. CASE ConnectFails(w)
    <2>1. PICK k \in {"status"} : kst' = [kst EXCEPT ![w] = k]
      BY <1>3 DEF ConnectFails, Step
    <2> wst' = [wst EXCEPT ![w] = wst[w]]
      BY <1>3, <1>t DEF ConnectFails, Step
    <2> QED BY <1>3, <2>1, <1>0, <1>t, <1>p, LocalStep DEF ConnectFails, Step, SessionUnchanged
  <1>4. CASE ConnectDials(w)
    <2>1. PICK k \in {"stream"} : kst' = [kst EXCEPT ![w] = k]
      BY <1>4 DEF ConnectDials, Step
    <2> wst' = [wst EXCEPT ![w] = wst[w]]
      BY <1>4, <1>t DEF ConnectDials, Step
    <2> QED BY <1>4, <2>1, <1>0, <1>t, <1>p, LocalStep DEF ConnectDials, Step, SessionUnchanged
  <1>5. CASE StreamEnds(w)
    <2>1. PICK k \in {"connect", "tunnel", "status"} : kst' = [kst EXCEPT ![w] = k]
      BY <1>5 DEF StreamEnds, Step
    <2> wst' = [wst EXCEPT ![w] = wst[w]]
      BY <1>5, <1>t DEF StreamEnds, Step
    <2> QED BY <1>5, <2>1, <1>0, <1>t, <1>p, LocalStep DEF StreamEnds, Step, SessionUnchanged
  <1>6. CASE OrphanControl(w)
    <2>1. PICK a \in {"select", "gone"} : wst' = [wst EXCEPT ![w] = a]
      BY <1>6 DEF OrphanControl
    <2> kst' = [kst EXCEPT ![w] = kst[w]]
      BY <1>6, <1>t DEF OrphanControl
    <2>2. CASE wst[w] = "ctlInt"
      BY <1>6, <2>1, <2>2, <1>0, <1>t, LocalStep DEF OrphanControl, SessionUnchanged
    <2>3. CASE wst[w] = "ctlHup"
      BY <1>6, <2>1, <2>3, <1>0, <1>t, LocalStep DEF OrphanControl, SessionUnchanged
    <2> QED BY <1>6, <2>2, <2>3 DEF OrphanControl
  <1>7. CASE Tunnel(w)
    <2>1. PICK k \in {"lost", "status", "tstream"} : kst' = [kst EXCEPT ![w] = k]
      BY <1>7 DEF Tunnel, Step
    <2> wst' = [wst EXCEPT ![w] = wst[w]]
      BY <1>7, <1>t DEF Tunnel, Step
    <2> QED BY <1>7, <2>1, <1>0, <1>t, <1>p, LocalStep DEF Tunnel, Step, SessionUnchanged
  <1>8. CASE SessionFatal(w)
    <2> wst' = [wst EXCEPT ![w] = wst[w]] /\ kst' = [kst EXCEPT ![w] = kst[w]]
      BY <1>8, <1>t DEF SessionFatal
    <2> QED BY <1>8, <1>0, <1>t, <1>p, LocalStep DEF SessionFatal, SessionUnchanged
  <1> HIDE DEF TypeOK
  <1> QED BY <1>1, <1>2, <1>3, <1>4, <1>5, <1>6, <1>7, <1>8 DEF SessionStep, Environment

(* signalHandler *)
LEMMA HandlerInv ==
  ASSUME IInv, Handler
  PROVE  IInv'
  <1>0. TypeOK'
    BY HandlerTypes DEF IInv
  <1> USE ConstAssumption DEF IInv, TypeOK, BootInv, MapInv, LiveInv, StatusInv, StatusNamesItsWorker, AddInv, Live
  <1>1. CASE HandleStatus
    <2>0. /\ Head(statusChan) \in Files
          /\ DOMAIN statusChan = {1} /\ statusChan[1] = Head(statusChan)
          /\ statusChan' = <<>>
      <3>1. statusChan \in Seq(Files) /\ statusChan # <<>> /\ Len(statusChan) \in {0, 1}
        BY <1>1 DEF HandleStatus
      <3>2. /\ Len(statusChan) = 1 /\ Head(statusChan) \in Files
            /\ Len(Tail(statusChan)) = 0 /\ Tail(statusChan) \in Seq(Files)
            /\ statusChan[1] = Head(statusChan)
        BY <3>1, EmptySeq, HeadTailProperties
      <3>3. DOMAIN statusChan = {1}
        BY <3>1, <3>2, SeqDomainOne
      <3>4. Tail(statusChan) = <<>>
        BY <3>2, EmptySeq
      <3> QED BY <1>1, <3>2, <3>3, <3>4 DEF HandleStatus
    <2> USE <1>1, <2>0 DEF HandleStatus
    <2>1. BootInv'
      OBVIOUS
    <2>2. MapInv'
      OBVIOUS
    <2>3. LiveInv'
      BY FileOf
    <2>4. StatusInv'
      OBVIOUS
    <2>5. AddInv'
      OBVIOUS
    <2> QED BY <1>0, <2>1, <2>2, <2>3, <2>4, <2>5
  <1>2. CASE HandleSignal
    <2> USE <1>2 DEF HandleSignal
    <2>1. BootInv'
      BY FileOf
    <2>2. MapInv'
      BY FileOf
    <2>3. LiveInv'
      BY FileOf
    <2>4. StatusInv'
      BY FileOf
    <2>5. AddInv'
      BY FileOf
    <2> QED BY <1>0, <2>1, <2>2, <2>3, <2>4, <2>5 DEF IInv
  <1>3. CASE ListKnown
    <2> USE <1>3 DEF ListKnown
    <2>1. BootInv'
      BY FileOf
    <2>2. MapInv'
      BY FileOf
    <2>3. LiveInv'
      BY FileOf
    <2>4. StatusInv'
      BY FileOf
    <2>5. AddInv'
      BY FileOf
    <2> QED BY <1>0, <2>1, <2>2, <2>3, <2>4, <2>5 DEF IInv
  <1>4. CASE ListHup
    <2> USE <1>4 DEF ListHup, Send
    <2>1. BootInv'
      BY FileOf
    <2>2. MapInv'
      BY FileOf
    <2>3. LiveInv'
      BY FileOf
    <2>4. StatusInv'
      BY FileOf
    <2>5. AddInv'
      BY FileOf
    <2> QED BY <1>0, <2>1, <2>2, <2>3, <2>4, <2>5 DEF IInv
  <1>5. CASE ListNew
    <2>0. Head(todo) \in Files
      BY <1>5, HeadTail DEF ListNew
    <2>1. CASE todo' = Tail(todo) /\ UNCHANGED <<h, hcur, m, born, workerVars>>
      BY <1>0, <1>5, <2>1 DEF ListNew
    <2>2. ASSUME NEW w \in Worker, NewJWorker(Head(todo), w),
                 m' = [m EXCEPT ![Head(todo)] = w], h' = "add", hcur' = w
          PROVE  IInv'
      <3>0. /\ fileOf(w) = Head(todo)
            /\ wst[w] = "none" /\ kst[w] = "none"
            /\ wst' = [wst EXCEPT ![w] = FirstState] /\ kst' = kst
            /\ \A v \in Worker : (wst'[v] = "none" <=> v[2] > born'[v[1]])
                                 /\ (wst'[v] = "none" => kst'[v] = "none")
            /\ FirstState \in {"publish", "select"}
        BY <2>0, <2>2, NewWorkerFresh
      <3> USE <1>5, <2>0, <2>2, <3>0 DEF ListNew
      <3>1. BootInv'
        OBVIOUS
      <3>2. MapInv'
        OBVIOUS
      <3>3. LiveInv'
        BY FileOf
      <3>4. StatusInv'
        OBVIOUS
      <3>5. AddInv'
        OBVIOUS
      <3> QED BY <1>0, <3>1, <3>2, <3>3, <3>4, <3>5
    <2> HIDE DEF IInv
    <2> QED BY <1>5, <2>1, <2>2 DEF ListNew
  <1>6. CASE ListWgAdd
    <2> USE <1>6 DEF ListWgAdd
    <2>1. BootInv'
      BY FileOf
    <2>2. MapInv'
      BY FileOf
    <2>3. LiveInv'
      BY FileOf
    <2>4. StatusInv'
      BY FileOf
    <2>5. AddInv'
      BY FileOf
    <2> QED BY <1>0, <2>1, <2>2, <2>3, <2>4, <2>5 DEF IInv
  <1>7. CASE ListCont
    <2> USE <1>7 DEF ListCont, Continue
    <2>1. BootInv'
      BY FileOf
    <2>2. MapInv'
      BY FileOf
    <2>3. LiveInv'
      <3>1. hcur \in Worker /\ m[fileOf(hcur)] = hcur /\ wst[hcur] = "select"
        OBVIOUS
      <3>2. \A w \in Worker : w # hcur => kst'[w] = kst[w]
        OBVIOUS
      <3>3. wst' = wst /\ m' = m
        OBVIOUS
      <3>4. StartListIsDuplicateFree' = StartListIsDuplicateFree
        BY DEF StartListIsDuplicateFree
      <3>5. LiveInv
        OBVIOUS
      <3> HIDE DEF IInv, TypeOK, BootInv, MapInv, StatusInv, StatusNamesItsWorker, AddInv,
               ListCont, Continue
      <3> QED BY <3>1, <3>2, <3>3, <3>4, <3>5
    <2>4. StatusInv'
      BY FileOf
    <2>5. AddInv'
      BY FileOf
    <2> QED BY <1>0, <2>1, <2>2, <2>3, <2>4, <2>5 DEF IInv
  <1>8. CASE ListEnd
    <2> USE <1>8 DEF ListEnd
    <2>1. BootInv'
      BY FileOf
    <2>2. MapInv'
      BY FileOf
    <2>3. LiveInv'
      BY FileOf
    <2>4. StatusInv'
      BY FileOf
    <2>5. AddInv'
      BY FileOf
    <2> QED BY <1>0, <2>1, <2>2, <2>3, <2>4, <2>5 DEF IInv
  <1>9. CASE DelPick
    <2> USE <1>9 DEF DelPick
    <2>1. BootInv'
      BY FileOf
    <2>2. MapInv'
      BY FileOf
    <2>3. LiveInv'
      BY FileOf
    <2>4. StatusInv'
      BY FileOf
    <2>5. AddInv'
      BY FileOf
    <2> QED BY <1>0, <2>1, <2>2, <2>3, <2>4, <2>5 DEF IInv
  <1>10. CASE DelSend
    <2> USE <1>10 DEF DelSend, Send
    <2>1. BootInv'
      BY FileOf
    <2>2. MapInv'
      BY FileOf
    <2>3. LiveInv'
      BY FileOf
    <2>4. StatusInv'
      BY FileOf
    <2>5. AddInv'
      BY FileOf
    <2> QED BY <1>0, <2>1, <2>2, <2>3, <2>4, <2>5 DEF IInv
  <1>11. CASE DelEnd
    <2> USE <1>11 DEF DelEnd
    <2>1. BootInv'
      BY FileOf
    <2>2. MapInv'
      BY FileOf
    <2>3. LiveInv'
      BY FileOf
    <2>4. StatusInv'
      BY FileOf
    <2>5. AddInv'
      BY FileOf
    <2> QED BY <1>0, <2>1, <2>2, <2>3, <2>4, <2>5 DEF IInv
  <1>12. CASE RangePick
    <2> USE <1>12 DEF RangePick
    <2>1. BootInv'
      BY FileOf
    <2>2. MapInv'
      BY FileOf
    <2>3. LiveInv'
      BY FileOf
    <2>4. StatusInv'
      BY FileOf
    <2>5. AddInv'
      BY FileOf
    <2> QED BY <1>0, <2>1, <2>2, <2>3, <2>4, <2>5 DEF IInv
  <1>13. CASE RangeSend
    <2> USE <1>13 DEF RangeSend, Send
    <2>1. BootInv'
      BY FileOf
    <2>2. MapInv'
      BY FileOf
    <2>3. LiveInv'
      BY FileOf
    <2>4. StatusInv'
      BY FileOf
    <2>5. AddInv'
      BY FileOf
    <2> QED BY <1>0, <2>1, <2>2, <2>3, <2>4, <2>5 DEF IInv
  <1>14. CASE RangeEnd
    <2> USE <1>14 DEF RangeEnd
    <2>1. BootInv'
      BY FileOf
    <2>2. MapInv'
      BY FileOf
    <2>3. LiveInv'
      BY FileOf
    <2>4. StatusInv'
      BY FileOf
    <2>5. AddInv'
      BY FileOf
    <2> QED BY <1>0, <2>1, <2>2, <2>3, <2>4, <2>5 DEF IInv
  <1> HIDE DEF IInv
  <1> QED BY <1>1, <1>2, <1>3, <1>4, <1>5, <1>6, <1>7, <1>8, <1>9, <1>10, <1>11, <1>12, <1>13, <1>14 DEF Handler

(* The main goroutine *)
LEMMA MainInv ==
  ASSUME IInv, Main
  PROVE  IInv'
  <1>0. TypeOK'
    BY MainTypes DEF IInv
  <1> USE ConstAssumption DEF IInv, TypeOK, BootInv, MapInv, LiveInv, StatusInv, StatusNamesItsWorker, AddInv, Live
  <1>1. CASE MainAdd
    <2>0. Head(toAdd) \in Files /\ Tail(toAdd) \in Seq(Files)
      BY <1>1, HeadTail DEF MainAdd
    <2>1. /\ \A i \in DOMAIN Tail(toAdd) : i + 1 \in DOMAIN toAdd /\ Tail(toAdd)[i] = toAdd[i + 1]
          /\ 1 \in DOMAIN toAdd /\ Head(toAdd) = toAdd[1]
          /\ \A i \in DOMAIN Tail(toAdd) : i \in Nat \ {0}
      BY <1>1 DEF MainAdd
    <2>2. CASE UNCHANGED <<m, born, wg, workerVars>>
      <3> USE <1>1, <2>2 DEF MainAdd
      <3>1. StartListIsDuplicateFree' = StartListIsDuplicateFree
        BY DEF StartListIsDuplicateFree
      <3>2. StartListIsDuplicateFree =>
              /\ \A i, j \in DOMAIN toAdd' : toAdd'[i] = toAdd'[j] => i = j
              /\ \A i \in DOMAIN toAdd' : m[toAdd'[i]] = NoWorker
        <4> HAVE StartListIsDuplicateFree
        <4>1. \A i, j \in DOMAIN toAdd : toAdd[i] = toAdd[j] => i = j
          OBVIOUS
        <4>2. \A i \in DOMAIN toAdd : m[toAdd[i]] = NoWorker
          OBVIOUS
        <4>3. toAdd' = Tail(toAdd)
          OBVIOUS
        <4>4. \A i, j \in DOMAIN Tail(toAdd) : Tail(toAdd)[i] = Tail(toAdd)[j] => i + 1 = j + 1
          BY <4>1, <2>1
        <4>5. \A i, j \in DOMAIN Tail(toAdd) : i + 1 = j + 1 => i = j
          BY <2>1
        <4> QED BY <4>2, <4>3, <4>4, <4>5, <2>1
      <3>3. BootInv'
        BY <3>1, <3>2
      <3> QED BY <1>0, <3>3
    <2>3. ASSUME NEW w \in Worker, NewJWorker(Head(toAdd), w),
                 m' = [m EXCEPT ![Head(toAdd)] = w]
          PROVE  IInv'
      <3>0. /\ fileOf(w) = Head(toAdd)
            /\ wst[w] = "none" /\ kst[w] = "none"
            /\ wst' = [wst EXCEPT ![w] = FirstState] /\ kst' = kst
            /\ \A v \in Worker : (wst'[v] = "none" <=> v[2] > born'[v[1]])
                                 /\ (wst'[v] = "none" => kst'[v] = "none")
            /\ FirstState \in {"publish", "select"}
        BY <2>0, <2>3, NewWorkerFresh
      <3> USE <1>1, <2>0, <2>3, <3>0 DEF MainAdd
      <3>1. BootInv'
        BY <2>1
      <3>2. MapInv'
        OBVIOUS
      <3>3. LiveInv'
        <4>1. ASSUME NEW v \in Worker, wst'[v] \in Live,
                     kst'[v] # "none" \/ StartListIsDuplicateFree
              PROVE  m'[fileOf(v)] = v
          <5>1. StartListIsDuplicateFree => m[Head(toAdd)] = NoWorker
            BY <2>1
          <5> QED BY <4>1, <5>1, FileOf
        <4> QED BY <4>1
      <3>4. StatusInv'
        OBVIOUS
      <3>5. AddInv'
        OBVIOUS
      <3> QED BY <1>0, <3>1, <3>2, <3>3, <3>4, <3>5
    <2> HIDE DEF IInv
    <2> QED BY <1>1, <2>2, <2>3 DEF MainAdd
  <1>2. CASE MainAdded
    <2> USE <1>2 DEF MainAdded
    <2>1. BootInv'
      BY FileOf
    <2>2. MapInv'
      BY FileOf
    <2>3. LiveInv'
      BY FileOf
    <2>4. StatusInv'
      BY FileOf
    <2>5. AddInv'
      BY FileOf
    <2> QED BY <1>0, <2>1, <2>2, <2>3, <2>4, <2>5 DEF IInv
  <1>3. CASE MainCont
    <2> USE <1>3 DEF MainCont, Continue
    <2>1. BootInv'
      BY FileOf
    <2>2. MapInv'
      BY FileOf
    <2>3. LiveInv'
      BY FileOf
    <2>4. StatusInv'
      BY FileOf
    <2>5. AddInv'
      BY FileOf
    <2> QED BY <1>0, <2>1, <2>2, <2>3, <2>4, <2>5 DEF IInv
  <1>4. CASE MainWait
    <2> USE <1>4 DEF MainWait
    <2>1. BootInv'
      BY FileOf
    <2>2. MapInv'
      BY FileOf
    <2>3. LiveInv'
      BY FileOf
    <2>4. StatusInv'
      BY FileOf
    <2>5. AddInv'
      BY FileOf
    <2> QED BY <1>0, <2>1, <2>2, <2>3, <2>4, <2>5 DEF IInv
  <1>5. CASE MainExit
    <2> USE <1>5 DEF MainExit
    <2>1. BootInv'
      BY FileOf
    <2>2. MapInv'
      BY FileOf
    <2>3. LiveInv'
      BY FileOf
    <2>4. StatusInv'
      BY FileOf
    <2>5. AddInv'
      BY FileOf
    <2> QED BY <1>0, <2>1, <2>2, <2>3, <2>4, <2>5 DEF IInv
  <1> HIDE DEF IInv
  <1> QED BY <1>1, <1>2, <1>3, <1>4, <1>5 DEF Main

LEMMA Inductive == Spec => []IInv
  <1>1. Init => IInv
    <2> SUFFICES ASSUME Init PROVE IInv
      OBVIOUS
    <2>1. TypeOK
      BY ConstAssumption DEF Init, TypeOK, MainStates, HandlerStates, MaxRunStates,
         WorkerStates, SessionStates
    <2>2. \A w \in Worker : w[1] \in Files /\ w[2] \in Nat \ {0}
      BY ConstAssumption DEF Worker
    <2>3. BootInv
      BY ConstAssumption DEF Init, BootInv, StartListIsDuplicateFree
    <2>4. MapInv
      BY <2>2 DEF Init, MapInv
    <2>5. LiveInv /\ StatusInv /\ AddInv
      BY DEF Init, LiveInv, Live, StatusInv, StatusNamesItsWorker, AddInv
    <2> QED BY <2>1, <2>3, <2>4, <2>5 DEF IInv
  <1>2. IInv /\ [Next]_vars => IInv'
    <2> SUFFICES ASSUME IInv, [Next]_vars PROVE IInv'
      OBVIOUS
    <2>1. CASE Main
      BY <2>1, MainInv
    <2>2. CASE Handler
      BY <2>2, HandlerInv
    <2>3. CASE MaxRunFires \/ MaxRunHandler \/ MapRace \/ PasswordFatal \/ OsSignal
      BY <2>3, MaxRunInv
    <2>4. ASSUME NEW w \in Worker, WorkerStep(w) PROVE IInv'
      BY <2>4, WorkerInv
    <2>5. ASSUME NEW w \in Worker, SessionStep(w) \/ Environment(w) PROVE IInv'
      BY <2>5, SessionInv
    <2>6. CASE UNCHANGED vars
      BY <2>6 DEF vars, IInv, TypeOK, BootInv, MapInv, LiveInv, StatusInv,
         StatusNamesItsWorker, AddInv
    <2> QED BY <2>1, <2>2, <2>3, <2>4, <2>5, <2>6 DEF Next, Running
  <1> QED BY <1>1, <1>2, PTL DEF Spec

(* "Worker removed" (workers.go:201-204) takes the worker that posted its name
   out of ws.m, never a younger worker of the same file: for any number of
   files and restarts, in every mode. *)
THEOREM StatusIsNeverStale == Spec => []StatusNamesItsWorker
  <1>1. IInv => StatusNamesItsWorker
    BY DEF IInv, StatusInv
  <1> QED BY Inductive, <1>1, PTL

(* Every worker that still listens on its signalch is the one ws.m names, so
   the loops over ws.m (workers.go:135-207) reach it, provided that no file is
   listed twice at the start. *)
THEOREM LiveWorkerIsReachable == Spec => []LiveWorkerIsInMap
  <1>1. IInv => LiveWorkerIsInMap
    BY DEF IInv, LiveInv, Live, LiveWorkerIsInMap
  <1> QED BY Inductive, <1>1, PTL

-----------------------------------------------------------------------------
(* The WaitGroup *)

LEMMA FiniteWorkers == IsFiniteSet(RunningWorkers)
  <1>1. IsFiniteSet(1 .. MaxInc)
    BY ConstAssumption, FS_Interval
  <1>2. IsFiniteSet(Worker)
    BY <1>1, ConstAssumption, FS_Product DEF Worker
  <1> QED BY <1>2, FS_Subset DEF RunningWorkers

(* A step leaves every worker's life as it is, starts one or finishes one, and
   the WaitGroup counts along.  Only a Done that finds the counter at zero
   crashes the program. *)
Same == lifeBar' = lifeBar /\ wg' = wg
More(w) ==
    /\ lifeBar[w] = "absent" /\ lifeBar' = [lifeBar EXCEPT ![w] = "running"]
    /\ wg' = wg + 1 /\ main' = main
Less(w) ==
    /\ lifeBar[w] = "running" /\ lifeBar' = [lifeBar EXCEPT ![w] = "finished"]
    /\ wg' = wg - 1 /\ (wg # 0 => main' \in {main, "woken"})
Counts == Same \/ \E w \in Worker : More(w) \/ Less(w)

LEMMA RunningIsLife ==
  /\ RunningWorkers = {w \in Worker : lifeBar[w] = "running"}
  /\ RunningWorkers' = {w \in Worker : lifeBar'[w] = "running"}
  BY DEF RunningWorkers, lifeBar, Active, Counted

LEMMA CountsPreserves ==
  ASSUME TypeOK, wg = Cardinality(RunningWorkers), Counts
  PROVE  wg' = Cardinality(RunningWorkers')
  <1>0. lifeBar = [w \in Worker |-> lifeBar[w]]
    BY DEF lifeBar
  <1>1. CASE Same
    <2>1. RunningWorkers' = RunningWorkers
      BY <1>1, RunningIsLife DEF Same
    <2> QED BY <1>1, <2>1 DEF Same
  <1>2. ASSUME NEW w \in Worker, More(w) PROVE wg' = Cardinality(RunningWorkers')
    <2>1. w \notin RunningWorkers /\ RunningWorkers' = RunningWorkers \cup {w}
      BY <1>0, <1>2, RunningIsLife DEF More
    <2> QED BY <1>2, <2>1, FiniteWorkers, FS_AddElement DEF More
  <1>3. ASSUME NEW w \in Worker, Less(w) PROVE wg' = Cardinality(RunningWorkers')
    <2>1. w \in RunningWorkers /\ RunningWorkers' = RunningWorkers \ {w}
      BY <1>0, <1>3, RunningIsLife DEF Less
    <2> QED BY <1>3, <2>1, FiniteWorkers, FS_RemoveElement DEF Less
  <1> QED BY <1>1, <1>2, <1>3 DEF Counts

(* A step that moves one worker between two states that are both counted, or
   both not, and does not touch the handler's "add" state. *)
LEMMA Quiet ==
  ASSUME wg' = wg, h' = "add" <=> h = "add", h = "add" => hcur' = hcur,
         \A w \in Worker : Active(w)' <=> Active(w),
         \A w \in Worker : wst'[w] = "none" <=> wst[w] = "none"
  PROVE  Counts
  BY DEF Counts, Same, lifeBar, Counted

LEMMA WorkerCounts ==
  ASSUME IInv, ~mode.maxRun, NEW w \in Worker, WorkerStep(w)
  PROVE  Counts
  <1> USE DEF IInv, TypeOK
  <1>1. CASE Reload(w)
    BY <1>1, Quiet DEF Reload, Active
  <1>2. CASE Status(w)
    BY <1>2, Quiet DEF Status, Active
  <1>3. CASE Post(w)
    BY <1>3, Quiet DEF Post, Active
  <1>6. CASE Publish(w)
    BY <1>6, Quiet DEF Publish, Active
  <1>4. CASE StopDone(w)
    <2>1. lifeBar[w] = "running"
      BY <1>4 DEF StopDone, lifeBar, Active, Counted, AddInv
    <2>2. lifeBar' = [lifeBar EXCEPT ![w] = "finished"]
      BY <1>4, <2>1 DEF StopDone, lifeBar, Active, Counted
    <2>3. wg' = wg - 1 /\ (wg # 0 => main' \in {main, "woken"})
      BY <1>4 DEF StopDone, WgDone
    <2> QED BY <2>1, <2>2, <2>3 DEF Counts, Less
  <1>5. CASE PostDone(w)
    <2>1. lifeBar[w] = "running"
      BY <1>5 DEF PostDone, lifeBar, Active, Counted, AddInv
    <2>2. lifeBar' = [lifeBar EXCEPT ![w] = "finished"]
      BY <1>5, <2>1 DEF PostDone, lifeBar, Active, Counted
    <2>3. wg' = wg - 1 /\ (wg # 0 => main' \in {main, "woken"})
      BY <1>5 DEF PostDone, WgDone
    <2> QED BY <2>1, <2>2, <2>3 DEF Counts, Less
  <1> QED BY <1>1, <1>2, <1>3, <1>4, <1>5, <1>6 DEF WorkerStep

LEMMA SessionCounts ==
  ASSUME IInv, NEW w \in Worker, SessionStep(w) \/ Environment(w)
  PROVE  Counts
  <1> USE DEF IInv, TypeOK
  <1>1. wg' = wg /\ h' = h /\ hcur' = hcur
    BY DEF SessionStep, ConnectControl, StreamControl, TakeControl, Environment, ConnectFails,
       ConnectDials, StreamEnds, OrphanControl, Tunnel, SessionFatal, Step, SessionUnchanged
  <1>2. \/ wst' = wst
        \/ wst[w] = "ctlInt" /\ wst' = [wst EXCEPT ![w] = "gone"]
        \/ wst[w] = "ctlHup" /\ wst' = [wst EXCEPT ![w] = "select"]
    BY DEF SessionStep, ConnectControl, StreamControl, TakeControl, Environment, ConnectFails,
       ConnectDials, StreamEnds, OrphanControl, Tunnel, SessionFatal, Step, SessionUnchanged
  <1>3. \A v \in Worker : (Active(v)' <=> Active(v)) /\ (wst'[v] = "none" <=> wst[v] = "none")
    BY <1>2 DEF Active
  <1> QED BY <1>1, <1>3, Quiet

(* maxRunHandler is not there, and the map race needs it. *)
LEMMA OtherCounts ==
  ASSUME IInv, ~mode.maxRun, MaxRunFires \/ MaxRunHandler \/ MapRace \/ PasswordFatal \/ OsSignal
  PROVE  Counts
  <1>1. OsSignal \/ PasswordFatal
    BY DEF IInv, BootInv, MaxRunFires, MaxRunHandler, MaxRunPick, MaxRunSend, MaxRunEnd, MapRace
  <1> QED BY <1>1, Quiet DEF OsSignal, PasswordFatal, Active

LEMMA HandlerCounts ==
  ASSUME IInv, ~mode.maxRun, Handler
  PROVE  Counts
  <1> USE DEF IInv, TypeOK
  <1>1. CASE HandleStatus \/ HandleSignal \/ ListKnown \/ ListEnd \/ DelPick \/ DelEnd
             \/ RangePick \/ RangeEnd
    BY <1>1, Quiet DEF HandleStatus, HandleSignal, ListKnown, ListEnd, DelPick, DelEnd,
       RangePick, RangeEnd, Active
  <1>2. CASE ListHup \/ DelSend \/ RangeSend
    BY <1>2, Quiet DEF ListHup, DelSend, RangeSend, Send, Active
  <1>3. CASE ListCont
    BY <1>3, Quiet DEF ListCont, Continue, Active
  <1>4. CASE ListNew
    <2>0. Head(todo) \in Files
      BY <1>4, HeadTail DEF ListNew
    <2>1. CASE todo' = Tail(todo) /\ UNCHANGED <<h, hcur, m, born, workerVars>>
      BY <1>4, <2>1, Quiet DEF ListNew, Active
    <2>2. ASSUME NEW w \in Worker, NewJWorker(Head(todo), w), h' = "add", hcur' = w
          PROVE  Counts
      <3>1. /\ wst[w] = "none" /\ wst' = [wst EXCEPT ![w] = FirstState]
            /\ FirstState \in {"publish", "select"}
        BY <2>0, <2>2, NewWorkerFresh
      <3>2. h = "list" /\ wg' = wg
        BY <1>4 DEF ListNew
      <3>3. lifeBar' = lifeBar
        BY <2>2, <3>1, <3>2 DEF lifeBar, Active, Counted
      <3> QED BY <3>2, <3>3 DEF Counts, Same
    <2> QED BY <1>4, <2>1, <2>2 DEF ListNew
  <1>5. CASE ListWgAdd
    <2>1. hcur \in Worker /\ wst[hcur] \in {"publish", "select"}
      BY <1>5 DEF ListWgAdd, MapInv, AddInv
    <2>2. lifeBar[hcur] = "absent" /\ lifeBar' = [lifeBar EXCEPT ![hcur] = "running"]
      BY <1>5, <2>1 DEF ListWgAdd, lifeBar, Active, Counted
    <2>3. wg' = wg + 1 /\ main' = main
      BY <1>5 DEF ListWgAdd
    <2> QED BY <2>1, <2>2, <2>3 DEF Counts, More
  <1> QED BY <1>1, <1>2, <1>3, <1>4, <1>5 DEF Handler

LEMMA MainCounts ==
  ASSUME IInv, Main
  PROVE  Counts
  <1> USE DEF IInv, TypeOK
  <1>1. CASE MainAdd
    <2>0. Head(toAdd) \in Files /\ h = "off" /\ h' = h
      BY <1>1, HeadTail DEF MainAdd, BootInv
    <2>1. CASE UNCHANGED <<m, born, wg, workerVars>>
      BY <1>1, <2>1, Quiet DEF MainAdd, Active
    <2>2. ASSUME NEW w \in Worker, NewJWorker(Head(toAdd), w), wg' = wg + 1
          PROVE  Counts
      <3>1. /\ wst[w] = "none" /\ wst' = [wst EXCEPT ![w] = FirstState]
            /\ FirstState \in {"publish", "select"}
        BY <2>0, <2>2, NewWorkerFresh
      <3>2. lifeBar[w] = "absent" /\ lifeBar' = [lifeBar EXCEPT ![w] = "running"]
        BY <2>0, <3>1 DEF lifeBar, Active, Counted
      <3> QED BY <1>1, <2>2, <3>2 DEF Counts, More, MainAdd
    <2> QED BY <1>1, <2>1, <2>2 DEF MainAdd
  <1>2. CASE MainCont
    BY <1>2, Quiet DEF MainCont, Continue, Active
  <1>3. CASE MainAdded \/ MainExit
    BY <1>3, Quiet DEF MainAdded, MainExit, Active
  <1>4. CASE MainWait
    <2>1. h = "off"
      BY <1>4 DEF MainWait, BootInv
    <2> QED BY <1>4, <2>1, Quiet DEF MainWait, Active
  <1> QED BY <1>1, <1>2, <1>3, <1>4 DEF Main

(* Main exits only with the counter at zero. *)
LEMMA ExitMeansZero ==
  ASSUME TypeOK, Next, main' = "exited"
  PROVE  wg' = 0
  <1>1. main # "exited"
    BY DEF Next, Alive
  <1>2. CASE Main
    BY <1>1, <1>2 DEF Main, MainAdd, MainAdded, MainCont, MainWait, MainExit
  <1>3. CASE Handler
    BY <1>1, <1>3 DEF Handler, HandleStatus, HandleSignal, ListKnown, ListHup, ListNew, ListWgAdd,
       ListCont, ListEnd, DelPick, DelSend, DelEnd, RangePick, RangeSend, RangeEnd
  <1>4. CASE MaxRunFires \/ MaxRunHandler \/ MapRace \/ PasswordFatal \/ OsSignal
    BY <1>1, <1>4 DEF MaxRunFires, MaxRunHandler, MaxRunPick, MaxRunSend, MaxRunEnd, MapRace, PasswordFatal, OsSignal
  <1>5. ASSUME NEW w \in Worker, WorkerStep(w) PROVE FALSE
    BY <1>1, <1>5 DEF WorkerStep, Publish, Reload, StopDone, Status, Post, PostDone, WgDone
  <1>6. ASSUME NEW w \in Worker, SessionStep(w) \/ Environment(w) PROVE FALSE
    BY <1>1, <1>6 DEF SessionStep, ConnectControl, StreamControl, TakeControl, Environment,
       ConnectFails, ConnectDials, StreamEnds, OrphanControl, Tunnel, SessionFatal, Step, SessionUnchanged
  <1> QED BY <1>2, <1>3, <1>4, <1>5, <1>6 DEF Next, Running

(* The mode is chosen once. *)
LEMMA ModeFixed ==
  ASSUME Next
  PROVE  mode' = mode
  BY DEF Next, Running, Main, MainAdd, MainAdded, MainCont, MainWait, MainExit, Handler,
     HandleStatus, HandleSignal, ListKnown, ListHup, ListNew, ListWgAdd, ListCont, ListEnd, DelPick,
     DelSend, DelEnd, RangePick, RangeSend, RangeEnd, MaxRunFires, MaxRunHandler, MaxRunPick,
     MaxRunSend, MaxRunEnd, MapRace, PasswordFatal, OsSignal, WorkerStep, Publish, Reload, StopDone,
     Status, Post, PostDone,
     SessionStep, ConnectControl, StreamControl, TakeControl, Environment, ConnectFails,
     ConnectDials, StreamEnds, OrphanControl, Tunnel, SessionFatal, Step, SessionUnchanged

LEMMA WgInductive == Spec => []WgInv
  <1>1. Init => WgInv
    <2> SUFFICES ASSUME Init PROVE WgInv
      OBVIOUS
    <2>1. RunningWorkers = {}
      BY DEF Init, RunningWorkers, Active
    <2> QED BY <2>1, FS_EmptySet DEF Init, WgInv, WgCountsRunning
  <1>2. IInv /\ WgInv /\ [Next]_vars => WgInv'
    <2> SUFFICES ASSUME IInv, WgInv, [Next]_vars PROVE WgInv'
      OBVIOUS
    <2>1. CASE UNCHANGED vars
      BY <2>1 DEF vars, WgInv, WgCountsRunning, RunningWorkers, Active, Counted
    <2>2. CASE Next
      <3>1. TypeOK /\ mode' = mode
        BY <2>2, ModeFixed DEF IInv
      <3>2. ASSUME ~mode.maxRun PROVE Counts
        BY <2>2, <3>2, MainCounts, HandlerCounts, OtherCounts, WorkerCounts, SessionCounts
           DEF Next, Running
      <3>3. WgCountsRunning'
        BY <3>1, <3>2, CountsPreserves DEF WgInv, WgCountsRunning
      <3> QED BY <2>2, <3>1, <3>3, ExitMeansZero DEF WgInv
    <2> QED BY <2>1, <2>2
  <1> QED BY <1>1, <1>2, Inductive, PTL DEF Spec

(* ws.wg.Add and Done are balanced on every path of the worker goroutine: the
   counter is the number of added workers that have not called Done
   (workers.go:123-128, 304-364), for any number of workers. *)
THEOREM WaitGroupIsExact == Spec => []WgCountsRunning
  <1>1. WgInv => WgCountsRunning
    BY DEF WgInv
  <1> QED BY WgInductive, <1>1, PTL

(* Without a file list, Wait returns only when every worker has called Done
   (workers.go:97-100). *)
THEOREM ExitIsClean == Spec => []ExitAfterAllWorkers
  <1>1. IInv /\ WgInv => ExitAfterAllWorkers
    <2> SUFFICES ASSUME IInv, WgInv, main = "exited", ~mode.fileList, ~mode.maxRun,
                        NEW w \in Worker
                 PROVE  ~Active(w)
      BY DEF ExitAfterAllWorkers
    <2>1. RunningWorkers = {}
      BY FiniteWorkers, FS_EmptySet DEF WgInv, WgCountsRunning
    <2>2. Counted(w)
      BY DEF IInv, AddInv, Counted
    <2> QED BY <2>1, <2>2 DEF RunningWorkers
  <1> QED BY Inductive, WgInductive, <1>1, PTL

(* The supervisor implements Fleet when no mode sets --max-run: workers start
   and finish once, JTIMON exits only when none is running, and a Done never
   finds the counter at zero. *)
THEOREM SupervisorImplementsFleet ==
  ASSUME \A md \in Modes : ~md.maxRun
  PROVE  Spec => ImplementsFleet
  <1> USE DEF F!FleetInit, F!FleetNext, F!fleetVars, F!Start, F!Finish, F!Exit, F!Crash
  <1>1. Init => F!FleetInit
    BY DEF Init, lifeBar, programBar
  <1>2. IInv /\ WgInv /\ [Next]_vars => [F!FleetNext]_(F!fleetVars)
    <2> SUFFICES ASSUME IInv, WgInv, [Next]_vars PROVE [F!FleetNext]_(F!fleetVars)
      OBVIOUS
    <2>1. CASE UNCHANGED vars
      BY <2>1 DEF vars, lifeBar, programBar, Active, Counted
    <2>2. CASE Next
      <3>0. ~mode.maxRun /\ main \notin {"exited", "fatal"} /\ programBar = "up"
        BY <2>2 DEF IInv, TypeOK, Next, Alive, programBar
      <3>1. Counts
        BY <2>2, <3>0, MainCounts, HandlerCounts, OtherCounts, WorkerCounts, SessionCounts
           DEF Next, Running
      <3>2. CASE Same
        <4>1. CASE main' = "exited"
          <5>1. RunningWorkers = {}
            BY <2>2, <3>0, <3>2, <4>1, ExitMeansZero, FiniteWorkers, FS_EmptySet
               DEF Same, WgInv, WgCountsRunning, IInv
          <5>2. \A w \in Worker : lifeBar[w] # "running"
            BY <5>1, RunningIsLife
          <5> QED BY <3>0, <3>2, <4>1, <5>2 DEF Same, programBar
        <4>2. CASE main' # "exited"
          BY <3>0, <3>2, <4>2 DEF Same, programBar
        <4> QED BY <4>1, <4>2
      <3>3. ASSUME NEW w \in Worker, More(w) PROVE F!FleetNext
        BY <3>0, <3>3 DEF More, programBar
      <3>4. ASSUME NEW w \in Worker, Less(w) PROVE F!FleetNext
        <4>1. wg # 0
          BY <3>0, <3>4, FiniteWorkers, FS_EmptySet, RunningIsLife DEF Less, WgInv, WgCountsRunning
        <4> QED BY <3>0, <3>4, <4>1 DEF Less, programBar
      <3> QED BY <3>1, <3>2, <3>3, <3>4 DEF Counts
    <2> QED BY <2>1, <2>2
  <1> QED BY <1>1, <1>2, Inductive, WgInductive, PTL DEF Spec, ImplementsFleet, F!FleetSpec
===========================================================================

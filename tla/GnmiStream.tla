----------------------------- MODULE GnmiStream -----------------------------
(***************************************************************************)
(* The gNMI subscriptions of one device (subscribegNMI) and the handling of  *)
(* their responses (gnmiHandleResponse).  Every connection has a goroutine   *)
(* that receives responses into the one variable rsp and has each of them    *)
(* handled, by itself (--no-per-packet-goroutines) or by a goroutine that    *)
(* reads rsp when it gets to run.  jctx.receivedSyncRsp is shared by all of   *)
(* them and by all connections of the device.                                *)
(* A response is the connection's number and its place in the script.        *)
(***************************************************************************)
EXTENDS Integers, Sequences, FiniteSets

CONSTANTS
    Modes,      \* the modes explored, see Mode
    Script,     \* Script[i]: the kind of the i-th response of every connection
    MaxConns    \* bound: connections ever made, see Mode.conns

(* "init" carries data of the initial sync, "early" and "update" do not: a Juniper
   device gives them sequence numbers outside the range of the initial sync.
   "bad" cannot be parsed, or has no measurement. *)
Kinds == {"init", "early", "sync", "update", "bad"}

(* --no-per-packet-goroutines, eos and vendor.gnmi.mode ONCE of the configuration,
   whether the device sends the Juniper header, and the bound on connections *)
Mode == [noGoroutines : BOOLEAN, eos : BOOLEAN, once : BOOLEAN, juniper : BOOLEAN,
         conns : 0 .. MaxConns]

ASSUME GnmiStreamAssumption == Modes \subseteq Mode /\ Script \in Seq(Kinds) /\ MaxConns \in Nat

Conns == 1 .. MaxConns
Responses == Conns \X (1 .. Len(Script))
kind(x) == Script[x[2]]

VARIABLES
    mode,       \* the mode of this execution
    conn,       \* the connection in use
    sub,        \* control state of subscribegNMI and its caller
    recv,       \* recv[c]: control state of the receiving goroutine of c
    code,       \* code[c]: the SubErrorCode it reports on datach
    pos,        \* pos[c]: responses received on c
    rsp,        \* rsp[c]: the variable rsp of c, 0 for nil
    hst,        \* hst[x]: the handler of response x
    arg,        \* arg[x]: what that handler, while it runs, found in rsp
    receivedSyncRsp,
    published,  \* responses passed on to InfluxDB and Prometheus
    cut         \* some connection ended in the middle of its script

connVars == <<conn, sub, recv, code, pos, cut>>
handlerVars == <<hst, arg, receivedSyncRsp, published>>
vars == <<mode, connVars, rsp, handlerVars>>

-----------------------------------------------------------------------------
Init ==
    /\ mode \in Modes
    /\ conn = 0 /\ sub = "connect"
    /\ recv = [c \in Conns |-> "off"]
    /\ code = [c \in Conns |-> "none"]
    /\ pos = [c \in Conns |-> 0]
    /\ rsp = [c \in Conns |-> 0]
    /\ hst = [x \in Responses |-> "none"]
    /\ arg = [x \in Responses |-> 0]
    /\ receivedSyncRsp = FALSE
    /\ published = <<>>
    /\ cut = FALSE

(* The request is sent and the receiving goroutine started. *)
Subscribe ==
    /\ sub = "connect" /\ conn < mode.conns
    /\ conn' = conn + 1
    /\ sub' = "select"
    /\ recv' = [recv EXCEPT ![conn + 1] = "recv"]
    /\ UNCHANGED <<mode, code, pos, cut, rsp, handlerVars>>

(* A bad path, a failed Subscribe or Send: SubRcConnRetry. *)
SubscribeFails ==
    /\ sub = "connect" /\ conn < mode.conns
    /\ conn' = conn + 1
    /\ cut' = TRUE
    /\ UNCHANGED <<mode, sub, recv, code, pos, rsp, handlerVars>>

(* Mutant of MayReceive: handlers are always goroutines of their own. *)
MayReceiveAnyway(c) == recv[c] = "recv"

(* gnmiHandleResponse is called in the loop, or beside it. *)
MayReceive(c) ==
    recv[c] = "recv" /\ (mode.noGoroutines => \A i \in 1 .. pos[c] : hst[<<c, i>>] = "done")

(* Mutant of Recv: the end of the stream is taken for one more response. *)
RecvPastEnd(c) ==
    /\ MayReceive(c) /\ pos[c] <= Len(Script)
    /\ pos' = [pos EXCEPT ![c] = @ + 1]
    /\ UNCHANGED <<mode, conn, sub, recv, code, cut, rsp, handlerVars>>

(* rsp, err1 = gNMISubHandle.Recv() *)
Recv(c) ==
    /\ MayReceive(c) /\ pos[c] < Len(Script)
    /\ pos' = [pos EXCEPT ![c] = @ + 1]
    /\ rsp' = [rsp EXCEPT ![c] = pos[c] + 1]
    /\ hst' = [hst EXCEPT ![<<c, pos[c] + 1>>] = "spawned"]
    /\ UNCHANGED <<mode, conn, sub, recv, code, cut, arg, receivedSyncRsp, published>>

(* EOF or an error, after the last response or before; any error is
   SubRcConnRetry, because the status of the wrong variable is looked at. *)
RecvEnds(c) ==
    /\ MayReceive(c)
    /\ rsp' = [rsp EXCEPT ![c] = 0]
    /\ \E eof \in BOOLEAN :
         /\ code' = [code EXCEPT ![c] = IF eof /\ mode.once /\ receivedSyncRsp
                                        THEN "OnceComplete" ELSE "ConnRetry"]
         /\ cut' = (cut \/ pos[c] < Len(Script) \/ ~eof)
    /\ recv' = [recv EXCEPT ![c] = "datach"]
    /\ UNCHANGED <<mode, conn, sub, pos, handlerVars>>

(* datach <- code, for which the select of the same subscription must be there *)
Report(c) ==
    /\ recv[c] = "datach" /\ sub = "select" /\ conn = c
    /\ recv' = [recv EXCEPT ![c] = "gone"]
    /\ sub' = IF code[c] = "OnceComplete" THEN "ended" ELSE "connect"
    /\ UNCHANGED <<mode, conn, code, pos, cut, rsp, handlerVars>>

(* case s := <-jctx.control: SIGHUP reconnects, SIGINT ends the session; the
   receiving goroutine is left to itself. *)
Control ==
    /\ sub = "select"
    /\ sub' \in {"connect", "ended"}
    /\ cut' = TRUE
    /\ UNCHANGED <<mode, conn, recv, code, pos, rsp, handlerVars>>

-----------------------------------------------------------------------------
(* The handler of x begins: its argument is what rsp holds now. *)
Begin(x) ==
    /\ hst[x] = "spawned"
    /\ arg' = [arg EXCEPT ![x] = rsp[x[1]]]
    /\ hst' = [hst EXCEPT ![x] = "handling"]
    /\ UNCHANGED <<mode, connVars, rsp, receivedSyncRsp, published>>

(* Mutants of Dropped: the sequence number is not looked at; nothing is dropped. *)
DroppedAll(k) == ~mode.eos /\ ~receivedSyncRsp
DroppedNever(k) == FALSE

(* "Ignore all packets till sync response is received.", unless eos is set; "For
   juniper packets, ignore only the packets which are numbered in initial sync
   sequence range" *)
Dropped(k) == ~mode.eos /\ ~receivedSyncRsp /\ (mode.juniper => k = "init")

(* Mutant of Handle: the sync response is not remembered. *)
HandleForgetsSync(x) ==
    /\ hst[x] = "handling"
    /\ hst' = [hst EXCEPT ![x] = "done"]
    /\ published' = IF arg[x] = 0 \/ Script[arg[x]] \in {"sync", "bad"} \/ Dropped(Script[arg[x]])
                    THEN published ELSE Append(published, <<x[1], arg[x]>>)
    /\ arg' = [arg EXCEPT ![x] = 0]
    /\ UNCHANGED <<mode, connVars, rsp, receivedSyncRsp>>

(* gnmiHandleResponse: a nil or bad response cannot be parsed, a sync response is
   remembered, everything else is published or dropped. *)
Handle(x) ==
    /\ hst[x] = "handling"
    /\ hst' = [hst EXCEPT ![x] = "done"]
    /\ receivedSyncRsp' = (receivedSyncRsp \/ (arg[x] # 0 /\ Script[arg[x]] = "sync"))
    /\ published' = IF arg[x] = 0 \/ Script[arg[x]] \in {"sync", "bad"} \/ Dropped(Script[arg[x]])
                    THEN published ELSE Append(published, <<x[1], arg[x]>>)
    /\ arg' = [arg EXCEPT ![x] = 0]
    /\ UNCHANGED <<mode, connVars, rsp>>

-----------------------------------------------------------------------------
Next ==
    \/ Subscribe \/ SubscribeFails \/ Control
    \/ \E c \in Conns : Recv(c) \/ RecvEnds(c) \/ Report(c)
    \/ \E x \in Responses : Begin(x) \/ Handle(x)

(* Go runs every goroutine; the device sends its script and ends the stream. *)
Spec == Init /\ [][Next]_vars
FairSpec ==
    /\ Spec
    /\ WF_vars(Subscribe)
    /\ \A c \in Conns : WF_vars(Recv(c) \/ RecvEnds(c)) /\ WF_vars(Report(c))
    /\ \A x \in Responses : WF_vars(Begin(x)) /\ WF_vars(Handle(x))

-----------------------------------------------------------------------------
TypeOK ==
    /\ mode \in Modes
    /\ conn \in 0 .. MaxConns /\ sub \in {"connect", "select", "ended"}
    /\ recv \in [Conns -> {"off", "recv", "datach", "gone"}]
    /\ code \in [Conns -> {"none", "OnceComplete", "ConnRetry"}]
    /\ pos \in [Conns -> 0 .. Len(Script)] /\ rsp \in [Conns -> 0 .. Len(Script)]
    /\ hst \in [Responses -> {"none", "spawned", "handling", "done"}]
    /\ arg \in [Responses -> 0 .. Len(Script)]
    /\ receivedSyncRsp \in BOOLEAN /\ cut \in BOOLEAN
    /\ published \in Seq(Responses)

(* The i-th response of a connection is not to be ignored: it has data, and the initial
   sync was over, is not waited for, or it is not part of it. *)
MustPublish(i) ==
    /\ Script[i] \notin {"sync", "bad"}
    /\ \/ mode.eos \/ (mode.juniper /\ Script[i] # "init")
       \/ \E j \in 1 .. i - 1 : Script[j] = "sync"

(* With --no-per-packet-goroutines every response received on a connection that is not to
   be ignored is published, as soon as it is handled, and what is published of a
   connection is each once and in the order the device sent it, whatever
   reconnections and left-over receivers do (subscribe_gnmi.go:606-611). *)
SequentialKeepsUpdates ==
    mode.noGoroutines => \A c \in Conns :
        /\ \A i \in 1 .. pos[c] : MustPublish(i) =>
               \/ \E k \in DOMAIN published : published[k] = <<c, i>>
               \/ i = pos[c] /\ hst[<<c, i>>] # "done"
        /\ \A k, l \in DOMAIN published :
               k < l /\ published[k][1] = c /\ published[l][1] = c
                   => published[k][2] < published[l][2]

(* The handlers all read the one variable rsp, so with goroutines of their own they
   may lose an update and publish another twice; but once they are all done the
   newest one is published, as long as the stream goes on and no update can be
   taken for one of the initial sync. *)
NewestIsPublished ==
    mode.juniper \/ mode.eos => \A c \in Conns :
        /\ recv[c] = "recv" /\ pos[c] > 0 /\ Script[pos[c]] = "update"
        /\ \A i \in 1 .. pos[c] : hst[<<c, i>>] = "done"
        => \E k \in DOMAIN published : published[k] = <<c, pos[c]>>

(* "Ignore all packets till sync response is received." (subscribe_gnmi.go:348),
   on the first connection of a device handled in sequence: what it sent before
   the sync response is never published. *)
FirstSyncIsIgnored ==
    mode.noGoroutines /\ ~mode.eos =>
        \A i \in DOMAIN published :
            published[i][1] = 1 =>
                \/ kind(published[i]) # "init"
                \/ \E c \in Conns : c > 1 /\ pos[c] > 0
                \/ \E k \in 1 .. published[i][2] : Script[k] = "sync"

(* "For ONCE mode, EOF after sync response indicates successful completion"
   (subscribe_gnmi.go:573): handled in sequence, a device that sends everything and
   closes the stream ends the session. *)
OnceEnds ==
    [](mode.noGoroutines /\ mode.once /\ ~cut) => <>(sub = "ended")

=============================================================================

-------------------------- MODULE GnmiStreamProofs --------------------------
(***************************************************************************)
(* Theorems about the gNMI subscriptions of a device, for any script of     *)
(* responses, any number of connections and any set of modes.               *)
(***************************************************************************)
EXTENDS GnmiStream, SequenceTheorems, TLAPS

USE DEF connVars, handlerVars

-----------------------------------------------------------------------------
(* A connection that was not made has received nothing, and a response has a handler
   only once it was received. *)
Unmade ==
    /\ \A c \in Conns : c > conn => recv[c] = "off"
    /\ \A c \in Conns : recv[c] = "off" => pos[c] = 0
    /\ \A x \in Responses : hst[x] # "none" => x[2] <= pos[x[1]]

(* While a connection is received from, rsp is its newest response: the handler of that
   one cannot have found another in rsp, and what it found is published if it is an
   update that the initial sync cannot hide. *)
IsPublished(x) == \E k \in DOMAIN published : published[k] = x
NewestIsHandled ==
    \A c \in Conns : recv[c] = "recv" /\ pos[c] > 0 =>
        /\ rsp[c] = pos[c]
        /\ hst[<<c, pos[c]>>] # "none"
        /\ hst[<<c, pos[c]>>] = "handling" => arg[<<c, pos[c]>>] = pos[c]
        /\ hst[<<c, pos[c]>>] = "done" /\ Script[pos[c]] = "update" /\ (mode.juniper \/ mode.eos) =>
             IsPublished(<<c, pos[c]>>)

(* Handled in sequence, only the newest response of a connection is in the hands of a
   handler, and that handler has the response it was called with. *)
OneInHand ==
    mode.noGoroutines => \A x \in Responses :
        /\ hst[x] \in {"spawned", "handling"} => x[2] = pos[x[1]]
        /\ hst[x] = "spawned" => rsp[x[1]] = x[2]
        /\ hst[x] = "handling" => arg[x] = x[2]

(* receivedSyncRsp comes from a sync response of the first connection, or there was
   another connection. *)
Again == \E c \in Conns : c > 1 /\ pos[c] > 0
SyncIsReceived ==
    mode.noGoroutines /\ receivedSyncRsp =>
        Again \/ (1 \in Conns /\ \E k \in 1 .. pos[1] : Script[k] = "sync")

StreamInv ==
    /\ TypeOK /\ Unmade /\ NewestIsHandled /\ OneInHand
    /\ SyncIsReceived /\ FirstSyncIsIgnored

(* Handled in sequence: all but the newest response of a connection are done with; what is
   done with was published or rightly ignored, and counts for the sync; and only that
   was published, each response after those before it. *)
OthersAreDone ==
    \A x \in Responses : x[2] < pos[x[1]] => hst[x] = "done"
DoneIsSettled ==
    \A x \in Responses : hst[x] = "done" =>
        /\ kind(x) = "sync" => receivedSyncRsp
        /\ MustPublish(x[2]) => IsPublished(x)
PublishedIsDone ==
    \A k \in DOMAIN published : hst[published[k]] = "done"
PublishedInOrder ==
    \A k, l \in DOMAIN published :
        k < l /\ published[k][1] = published[l][1] => published[k][2] < published[l][2]

SequenceParts == OthersAreDone /\ DoneIsSettled /\ PublishedIsDone /\ PublishedInOrder
SequenceInv == mode.noGoroutines => SequenceParts

-----------------------------------------------------------------------------
LEMMA Lengths == Len(Script) \in Nat /\ MaxConns \in Nat
  BY GnmiStreamAssumption

LEMMA Pairs ==
  /\ \A c \in Conns, i \in 1 .. Len(Script) : <<c, i>> \in Responses
  /\ \A x \in Responses : x[1] \in Conns /\ x[2] \in 1 .. Len(Script) /\ x = <<x[1], x[2]>>
  BY DEF Responses

LEMMA NextConn ==
  ASSUME TypeOK, conn < mode.conns
  PROVE  conn + 1 \in Conns /\ conn + 1 \in 0 .. MaxConns
  BY GnmiStreamAssumption DEF TypeOK, Mode, Conns

LEMMA AppendPublished ==
  ASSUME NEW s \in Seq(Responses), NEW x \in Responses
  PROVE  /\ Append(s, x) \in Seq(Responses)
         /\ DOMAIN s \subseteq DOMAIN Append(s, x)
         /\ \A k \in DOMAIN s : Append(s, x)[k] = s[k]
         /\ \E k \in DOMAIN Append(s, x) : Append(s, x)[k] = x
         /\ \A k \in DOMAIN Append(s, x) : k \in DOMAIN s \/ Append(s, x)[k] = x
  <1>1. /\ Append(s, x) \in Seq(Responses) /\ Len(Append(s, x)) = Len(s) + 1
        /\ \A k \in 1 .. Len(s) : Append(s, x)[k] = s[k]
        /\ Append(s, x)[Len(s) + 1] = x
    BY AppendProperties
  <1>2. DOMAIN s = 1 .. Len(s) /\ DOMAIN Append(s, x) = 1 .. Len(s) + 1 /\ Len(s) \in Nat
    BY <1>1, LenProperties
  <1> QED BY <1>1, <1>2

LEMMA ReceivedIsResponse ==
  ASSUME TypeOK, NEW c \in Conns, pos[c] < Len(Script)
  PROVE  /\ pos[c] \in Nat /\ pos[c] + 1 \in 0 .. Len(Script) /\ pos[c] + 1 \in 1 .. Len(Script)
         /\ <<c, pos[c] + 1>> \in Responses
  <1>1. pos[c] \in Nat /\ pos[c] + 1 \in 0 .. Len(Script) /\ pos[c] + 1 \in 1 .. Len(Script)
    BY Lengths DEF TypeOK
  <1> QED BY <1>1, Pairs

LEMMA TypeStep == TypeOK /\ [Next]_vars => TypeOK'
  <1> SUFFICES ASSUME TypeOK, [Next]_vars PROVE TypeOK'
    OBVIOUS
  <1> USE DEF TypeOK
  <1>1. CASE Subscribe
    BY <1>1, NextConn DEF Subscribe
  <1>2. CASE SubscribeFails
    BY <1>2, NextConn DEF SubscribeFails
  <1>3. CASE Control
    BY <1>3 DEF Control
  <1>4. ASSUME NEW c \in Conns, Recv(c) PROVE TypeOK'
    <2>1. pos[c] + 1 \in 0 .. Len(Script) /\ <<c, pos[c] + 1>> \in Responses
      BY <1>4, ReceivedIsResponse DEF Recv
    <2> QED BY <1>4, <2>1 DEF Recv
  <1>5. ASSUME NEW c \in Conns, RecvEnds(c) PROVE TypeOK'
    <2>1. cut' \in BOOLEAN
      BY <1>5 DEF RecvEnds
    <2>2. 0 \in 0 .. Len(Script)
      BY Lengths
    <2> QED BY <1>5, <2>1, <2>2 DEF RecvEnds
  <1>6. ASSUME NEW c \in Conns, Report(c) PROVE TypeOK'
    BY <1>6 DEF Report
  <1>7. ASSUME NEW x \in Responses, Begin(x) PROVE TypeOK'
    BY <1>7, Pairs DEF Begin
  <1>8. ASSUME NEW x \in Responses, Handle(x) PROVE TypeOK'
    <2>1. receivedSyncRsp' \in BOOLEAN
      BY <1>8 DEF Handle
    <2>2. published' \in Seq(Responses)
      <3>1. CASE arg[x] = 0
        BY <1>8, <3>1 DEF Handle
      <3>2. CASE arg[x] # 0
        <4>1. <<x[1], arg[x]>> \in Responses
          BY <1>8, <3>2, Pairs, Lengths
        <4> QED BY <1>8, <4>1, AppendPublished DEF Handle
      <3> QED BY <3>1, <3>2
    <2>3. 0 \in 0 .. Len(Script)
      BY Lengths
    <2> QED BY <1>8, <2>1, <2>2, <2>3 DEF Handle
  <1>9. CASE UNCHANGED vars
    BY <1>9 DEF vars
  <1> QED BY <1>1, <1>2, <1>3, <1>4, <1>5, <1>6, <1>7, <1>8, <1>9 DEF Next

LEMMA TypeInit == Init => TypeOK
  <1> SUFFICES ASSUME Init PROVE TypeOK
    OBVIOUS
  <1>1. receivedSyncRsp \in BOOLEAN /\ cut \in BOOLEAN
    BY DEF Init
  <1>2. published \in Seq(Responses)
    BY DEF Init
  <1> QED BY <1>1, <1>2, Lengths DEF Init, TypeOK

(* Every goroutine keeps its variables within their types, in every mode. *)
THEOREM TypeCorrect == Spec => []TypeOK
  BY TypeInit, TypeStep, PTL DEF Spec

-----------------------------------------------------------------------------
(* The steps of the invariant *)

LEMMA SubscribeStep == StreamInv /\ (Subscribe \/ SubscribeFails \/ Control) /\ TypeOK' => StreamInv'
  <1> SUFFICES ASSUME StreamInv, TypeOK', Subscribe \/ SubscribeFails \/ Control PROVE StreamInv'
    OBVIOUS
  <1> USE DEF StreamInv
  <1>0. UNCHANGED <<mode, pos, rsp, hst, arg, receivedSyncRsp, published>>
    BY DEF Subscribe, SubscribeFails, Control
  <1>1. OneInHand' /\ SyncIsReceived' /\ FirstSyncIsIgnored'
    BY <1>0 DEF OneInHand, SyncIsReceived, Again, FirstSyncIsIgnored
  <1>2. CASE Subscribe
    <2>1. /\ conn + 1 \in Conns /\ conn \in Int /\ conn' = conn + 1
          /\ recv[conn + 1] = "off" /\ pos[conn + 1] = 0
      BY <1>2, NextConn DEF Subscribe, Unmade, TypeOK
    <2>2. \A c \in Conns : c # conn + 1 => recv'[c] = recv[c]
      BY <1>2 DEF Subscribe, TypeOK
    <2>3. recv'[conn + 1] = "recv"
      BY <1>2, <2>1 DEF Subscribe, TypeOK
    <2>4. Unmade'
      BY <1>0, <2>1, <2>2, <2>3 DEF Unmade, Conns
    <2>5. NewestIsHandled'
      BY <1>0, <2>1, <2>2 DEF NewestIsHandled, IsPublished
    <2> QED BY <1>1, <2>4, <2>5
  <1>3. CASE SubscribeFails \/ Control
    <2>1. recv' = recv /\ conn' \in {conn, conn + 1} /\ conn \in Int
      BY <1>3 DEF SubscribeFails, Control, TypeOK
    <2>2. Unmade'
      BY <1>0, <2>1 DEF Unmade, Conns
    <2>3. NewestIsHandled'
      BY <1>0, <2>1 DEF NewestIsHandled, IsPublished
    <2> QED BY <1>1, <2>2, <2>3
  <1> QED BY <1>2, <1>3

LEMMA RecvStep ==
  ASSUME StreamInv, NEW c \in Conns, Recv(c), TypeOK'
  PROVE  StreamInv'
  <1> DEFINE p == pos[c] + 1
             new == <<c, p>>
  <1> USE DEF StreamInv
  <1>1. p \in 1 .. Len(Script) /\ new \in Responses /\ pos[c] \in Nat
    BY ReceivedIsResponse DEF Recv
  <1>2. /\ recv[c] = "recv" /\ recv' = recv /\ conn' = conn
        /\ UNCHANGED <<mode, arg, receivedSyncRsp, published>>
    BY DEF Recv, MayReceive
  <1>3. /\ pos'[c] = p /\ rsp'[c] = p
        /\ \A d \in Conns : d # c => pos'[d] = pos[d] /\ rsp'[d] = rsp[d]
    BY DEF Recv, TypeOK
  <1>4. hst'[new] = "spawned" /\ \A x \in Responses : x # new => hst'[x] = hst[x]
    BY <1>1 DEF Recv, TypeOK
  <1>5. \A d \in Conns : pos'[d] \in Nat /\ pos[d] \in Nat /\ pos[d] <= pos'[d]
    <2> SUFFICES ASSUME NEW d \in Conns
                 PROVE  pos'[d] \in Nat /\ pos[d] \in Nat /\ pos[d] <= pos'[d]
      OBVIOUS
    <2>1. pos[d] \in Nat
      BY Lengths DEF TypeOK
    <2>2. pos'[d] = pos[d] \/ (d = c /\ pos'[d] = pos[c] + 1)
      BY <1>3
    <2> QED BY <2>1, <2>2
  <1> HIDE DEF p
  <1>6. Unmade'
    <2>1. ASSUME NEW x \in Responses, hst'[x] # "none" PROVE x[2] <= pos'[x[1]]
      <3>1. CASE x = new
        BY <1>1, <1>3, <3>1
      <3>2. CASE x # new
        <4>1. x[1] \in Conns /\ x[2] \in Int /\ x[2] <= pos[x[1]]
          BY <1>4, <2>1, <3>2, Pairs DEF Unmade
        <4> QED BY <1>5, <4>1
      <3> QED BY <3>1, <3>2
    <2> QED BY <1>2, <1>3, <2>1 DEF Unmade
  <1>7. NewestIsHandled'
    <2> SUFFICES ASSUME NEW d \in Conns, recv[d] = "recv", pos'[d] > 0
                 PROVE  /\ rsp'[d] = pos'[d]
                        /\ hst'[<<d, pos'[d]>>] # "none"
                        /\ hst'[<<d, pos'[d]>>] = "handling" => arg[<<d, pos'[d]>>] = pos'[d]
                        /\ hst'[<<d, pos'[d]>>] = "done" /\ Script[pos'[d]] = "update"
                             /\ (mode.juniper \/ mode.eos) => IsPublished(<<d, pos'[d]>>)
      BY <1>2 DEF NewestIsHandled, IsPublished
    <2>1. CASE d = c
      BY <1>3, <1>4, <2>1
    <2>2. CASE d # c
      <3>1. <<d, pos[d]>> \in Responses /\ <<d, pos[d]>> # new /\ pos'[d] = pos[d] /\ rsp'[d] = rsp[d]
        <4>1. pos[d] \in 1 .. Len(Script)
          BY <1>3, <2>2, Lengths DEF TypeOK
        <4> QED BY <1>3, <2>2, <4>1, Pairs
      <3> QED BY <1>4, <3>1 DEF NewestIsHandled
    <2> QED BY <2>1, <2>2
  <1>8. OneInHand'
    <2> SUFFICES ASSUME mode.noGoroutines, NEW x \in Responses
                 PROVE  /\ hst'[x] \in {"spawned", "handling"} => x[2] = pos'[x[1]]
                        /\ hst'[x] = "spawned" => rsp'[x[1]] = x[2]
                        /\ hst'[x] = "handling" => arg[x] = x[2]
      BY <1>2 DEF OneInHand
    <2>1. CASE x = new
      BY <1>3, <1>4, <2>1
    <2>2. CASE x # new /\ x[1] # c
      BY <1>3, <1>4, <2>2, Pairs DEF OneInHand
    <2>3. CASE x # new /\ x[1] = c
      <3>1. hst[x] \notin {"spawned", "handling"}
        <4> SUFFICES ASSUME hst[x] \in {"spawned", "handling"} PROVE FALSE
          OBVIOUS
        <4>1. x[2] = pos[c] /\ x[2] \in 1 .. pos[c] /\ x = <<c, x[2]>>
          BY <2>3, Pairs DEF OneInHand
        <4>2. hst[<<c, x[2]>>] = "done"
          BY <4>1 DEF Recv, MayReceive
        <4> QED BY <4>1, <4>2
      <3> QED BY <1>4, <2>3, <3>1
    <2> QED BY <2>1, <2>2, <2>3
  <1>9. Again => Again'
    BY <1>5 DEF Again
  <1>10. SyncIsReceived'
    <2>1. 1 \in Conns => 1 .. pos[1] \subseteq 1 .. pos'[1]
      BY <1>5
    <2> QED BY <1>2, <1>9, <2>1 DEF SyncIsReceived
  <1>11. FirstSyncIsIgnored'
    BY <1>2, <1>9 DEF FirstSyncIsIgnored, Again
  <1> QED BY <1>6, <1>7, <1>8, <1>10, <1>11

LEMMA RecvEndsStep ==
  ASSUME StreamInv, NEW c \in Conns, RecvEnds(c), TypeOK'
  PROVE  StreamInv'
  <1> USE DEF StreamInv
  <1>1. /\ recv[c] = "recv" /\ recv'[c] = "datach" /\ \A d \in Conns : d # c => recv'[d] = recv[d]
        /\ \A d \in Conns : d # c => rsp'[d] = rsp[d]
        /\ UNCHANGED <<conn, mode, pos, hst, arg, receivedSyncRsp, published>>
    BY DEF RecvEnds, MayReceive, TypeOK
  <1>2. Unmade' /\ NewestIsHandled' /\ SyncIsReceived' /\ FirstSyncIsIgnored'
    <2>1. Unmade'
      BY <1>1 DEF Unmade
    <2>2. NewestIsHandled'
      BY <1>1 DEF NewestIsHandled, IsPublished
    <2>3. SyncIsReceived' /\ FirstSyncIsIgnored'
      BY <1>1 DEF SyncIsReceived, FirstSyncIsIgnored, Again
    <2> QED BY <2>1, <2>2, <2>3
  <1>3. OneInHand'
    <2> SUFFICES ASSUME mode.noGoroutines, NEW x \in Responses
                 PROVE  /\ hst[x] \in {"spawned", "handling"} => x[2] = pos[x[1]]
                        /\ hst[x] = "spawned" => rsp'[x[1]] = x[2]
                        /\ hst[x] = "handling" => arg[x] = x[2]
      BY <1>1 DEF OneInHand
    <2>1. hst[x] = "spawned" => x[1] # c
      <3> SUFFICES ASSUME hst[x] = "spawned", x[1] = c PROVE FALSE
        OBVIOUS
      <3>1. x[2] \in 1 .. pos[c] /\ x = <<c, x[2]>>
        BY Pairs DEF OneInHand
      <3>2. hst[<<c, x[2]>>] = "done"
        BY <3>1 DEF RecvEnds, MayReceive
      <3> QED BY <3>1, <3>2
    <2> QED BY <1>1, <2>1, Pairs DEF OneInHand
  <1> QED BY <1>2, <1>3

LEMMA ReportStep ==
  ASSUME StreamInv, NEW c \in Conns, Report(c), TypeOK'
  PROVE  StreamInv'
  <1> USE DEF StreamInv
  <1>1. /\ recv[c] = "datach" /\ recv'[c] = "gone" /\ \A d \in Conns : d # c => recv'[d] = recv[d]
        /\ UNCHANGED <<conn, mode, pos, rsp, hst, arg, receivedSyncRsp, published>>
    BY DEF Report, TypeOK
  <1>2. Unmade'
    BY <1>1 DEF Unmade
  <1>3. NewestIsHandled'
    BY <1>1 DEF NewestIsHandled, IsPublished
  <1>4. OneInHand' /\ SyncIsReceived' /\ FirstSyncIsIgnored'
    BY <1>1 DEF OneInHand, SyncIsReceived, FirstSyncIsIgnored, Again
  <1> QED BY <1>2, <1>3, <1>4

LEMMA BeginStep ==
  ASSUME StreamInv, NEW x \in Responses, Begin(x), TypeOK'
  PROVE  StreamInv'
  <1> USE DEF StreamInv
  <1>1. /\ hst[x] = "spawned" /\ hst'[x] = "handling" /\ arg'[x] = rsp[x[1]]
        /\ \A y \in Responses : y # x => hst'[y] = hst[y] /\ arg'[y] = arg[y]
        /\ UNCHANGED <<conn, recv, mode, pos, rsp, receivedSyncRsp, published>>
    BY DEF Begin, TypeOK
  <1>2. Unmade'
    BY <1>1 DEF Unmade
  <1>3. NewestIsHandled'
    <2> SUFFICES ASSUME NEW c \in Conns, recv[c] = "recv", pos[c] > 0
                 PROVE  /\ rsp[c] = pos[c]
                        /\ hst'[<<c, pos[c]>>] # "none"
                        /\ hst'[<<c, pos[c]>>] = "handling" => arg'[<<c, pos[c]>>] = pos[c]
                        /\ hst'[<<c, pos[c]>>] = "done" /\ Script[pos[c]] = "update"
                             /\ (mode.juniper \/ mode.eos) => IsPublished(<<c, pos[c]>>)
      BY <1>1 DEF NewestIsHandled, IsPublished
    <2>1. <<c, pos[c]>> \in Responses
      <3>1. pos[c] \in 1 .. Len(Script)
        BY Lengths DEF TypeOK
      <3> QED BY <3>1, Pairs
    <2>2. CASE <<c, pos[c]>> = x
      <3>1. x[1] = c
        BY <2>2
      <3> QED BY <1>1, <2>2, <3>1 DEF NewestIsHandled
    <2>3. CASE <<c, pos[c]>> # x
      BY <1>1, <2>1, <2>3 DEF NewestIsHandled
    <2> QED BY <2>2, <2>3
  <1>4. OneInHand'
    <2> SUFFICES ASSUME mode.noGoroutines, NEW y \in Responses
                 PROVE  /\ hst'[y] \in {"spawned", "handling"} => y[2] = pos[y[1]]
                        /\ hst'[y] = "spawned" => rsp[y[1]] = y[2]
                        /\ hst'[y] = "handling" => arg'[y] = y[2]
      BY <1>1 DEF OneInHand
    <2>1. CASE y = x
      BY <1>1, <2>1 DEF OneInHand
    <2>2. CASE y # x
      BY <1>1, <2>2 DEF OneInHand
    <2> QED BY <2>1, <2>2
  <1>5. SyncIsReceived' /\ FirstSyncIsIgnored'
    BY <1>1 DEF SyncIsReceived, FirstSyncIsIgnored, Again
  <1> QED BY <1>2, <1>3, <1>4, <1>5

(* What Handle adds to published, if anything: the response its handler found in rsp *)
LEMMA HandlePublishes ==
  ASSUME TypeOK, NEW x \in Responses, Handle(x)
  PROVE  LET y == <<x[1], arg[x]>>
         IN  \/ published' = published /\ \/ arg[x] = 0
                                          \/ Script[arg[x]] \in {"sync", "bad"}
                                          \/ Dropped(Script[arg[x]])
             \/ /\ published' = Append(published, y) /\ y \in Responses
                /\ arg[x] # 0 /\ ~Dropped(Script[arg[x]])
  <1>1. CASE arg[x] = 0 \/ Script[arg[x]] \in {"sync", "bad"} \/ Dropped(Script[arg[x]])
    BY <1>1 DEF Handle
  <1>2. CASE ~(arg[x] = 0 \/ Script[arg[x]] \in {"sync", "bad"} \/ Dropped(Script[arg[x]]))
    <2>1. arg[x] \in 1 .. Len(Script)
      BY <1>2, Lengths DEF TypeOK
    <2>2. <<x[1], arg[x]>> \in Responses
      BY <2>1, Pairs
    <2> QED BY <1>2, <2>2 DEF Handle
  <1> QED BY <1>1, <1>2

LEMMA PublishesMore ==
  ASSUME TypeOK, NEW z \in Responses, published' = Append(published, z)
  PROVE  /\ DOMAIN published \subseteq DOMAIN published'
         /\ \A k \in DOMAIN published : published'[k] = published[k]
         /\ \E k \in DOMAIN published' : published'[k] = z
         /\ \A k \in DOMAIN published' : k \in DOMAIN published \/ published'[k] = z
  <1>1. published \in Seq(Responses)
    BY DEF TypeOK
  <1> QED BY <1>1, AppendPublished

LEMMA HandleStep ==
  ASSUME StreamInv, NEW x \in Responses, Handle(x), TypeOK'
  PROVE  StreamInv'
  <1> USE DEF StreamInv
  <1> DEFINE y == <<x[1], arg[x]>>
  <1>1. /\ hst[x] = "handling" /\ hst'[x] = "done"
        /\ \A z \in Responses : z # x => hst'[z] = hst[z] /\ arg'[z] = arg[z]
        /\ UNCHANGED <<conn, recv, mode, pos, rsp>>
    BY DEF Handle, TypeOK
  <1>2. x[1] \in Conns /\ x[2] \in 1 .. Len(Script) /\ x = <<x[1], x[2]>> /\ x[2] <= pos[x[1]]
        /\ pos[x[1]] \in Nat
    <2>1. x[1] \in Conns /\ x[2] \in 1 .. Len(Script) /\ x = <<x[1], x[2]>>
      BY Pairs
    <2>2. x[2] <= pos[x[1]]
      BY <1>1 DEF Unmade
    <2>3. pos[x[1]] \in 0 .. Len(Script)
      BY <2>1 DEF TypeOK
    <2> QED BY <2>1, <2>2, <2>3, Lengths
  <1>3. /\ DOMAIN published \subseteq DOMAIN published'
        /\ \A k \in DOMAIN published : published'[k] = published[k]
    <2>1. CASE published' = published
      BY <2>1
    <2>2. CASE published' = Append(published, y) /\ y \in Responses
      BY <2>2, PublishesMore
    <2> QED BY <2>1, <2>2, HandlePublishes
  <1>4. Unmade'
    BY <1>1 DEF Unmade
  <1>5. NewestIsHandled'
    <2>1. \A z : IsPublished(z) => IsPublished(z)'
      BY <1>3 DEF IsPublished
    <2> SUFFICES ASSUME NEW c \in Conns, recv[c] = "recv", pos[c] > 0
                 PROVE  /\ rsp[c] = pos[c]
                        /\ hst'[<<c, pos[c]>>] # "none"
                        /\ hst'[<<c, pos[c]>>] = "handling" => arg'[<<c, pos[c]>>] = pos[c]
                        /\ hst'[<<c, pos[c]>>] = "done" /\ Script[pos[c]] = "update"
                             /\ (mode.juniper \/ mode.eos) => IsPublished(<<c, pos[c]>>)'
      BY <1>1 DEF NewestIsHandled, IsPublished
    <2>2. <<c, pos[c]>> \in Responses
      <3>1. pos[c] \in 1 .. Len(Script)
        BY Lengths DEF TypeOK
      <3> QED BY <3>1, Pairs
    <2>3. CASE <<c, pos[c]>> = x
      <3>1. x[1] = c /\ arg[x] = pos[c] /\ y = <<c, pos[c]>>
        BY <1>1, <2>3 DEF NewestIsHandled
      <3>2. ASSUME Script[pos[c]] = "update", mode.juniper \/ mode.eos
            PROVE  IsPublished(<<c, pos[c]>>)'
        <4>1. ~Dropped(Script[arg[x]]) /\ arg[x] # 0 /\ Script[arg[x]] \notin {"sync", "bad"}
          BY <3>1, <3>2, Lengths DEF Dropped, TypeOK
        <4>2. published' = Append(published, <<c, pos[c]>>)
          BY <3>1, <4>1, HandlePublishes
        <4>3. \E k \in DOMAIN published' : published'[k] = <<c, pos[c]>>
          BY <2>2, <4>2, PublishesMore
        <4> QED BY <1>1, <4>3 DEF IsPublished
      <3> QED BY <1>1, <2>3, <3>2 DEF NewestIsHandled
    <2>4. CASE <<c, pos[c]>> # x
      BY <1>1, <2>1, <2>2, <2>4 DEF NewestIsHandled
    <2> QED BY <2>3, <2>4
  <1>6. OneInHand'
    <2> SUFFICES ASSUME mode.noGoroutines, NEW z \in Responses
                 PROVE  /\ hst'[z] \in {"spawned", "handling"} => z[2] = pos[z[1]]
                        /\ hst'[z] = "spawned" => rsp[z[1]] = z[2]
                        /\ hst'[z] = "handling" => arg'[z] = z[2]
      BY <1>1 DEF OneInHand
    <2>1. CASE z = x
      BY <1>1, <2>1
    <2>2. CASE z # x
      BY <1>1, <2>2 DEF OneInHand
    <2> QED BY <2>1, <2>2
  <1>7. Again' = Again
    BY <1>1 DEF Again
  <1>8. ASSUME mode.noGoroutines, ~Again PROVE x[1] = 1 /\ arg[x] = pos[1] /\ arg[x] = x[2]
    <2>1. arg[x] = x[2] /\ x[2] = pos[x[1]]
      BY <1>1, <1>8 DEF OneInHand
    <2>2. pos[x[1]] > 0
      BY <1>2
    <2>3. x[1] = 1
      BY <1>2, <1>8, <2>2 DEF Again, Conns
    <2> QED BY <2>1, <2>3
  <1>9. SyncIsReceived'
    <2> SUFFICES ASSUME mode.noGoroutines, receivedSyncRsp', ~Again
                 PROVE  1 \in Conns /\ \E k \in 1 .. pos[1] : Script[k] = "sync"
      BY <1>1, <1>7 DEF SyncIsReceived
    <2>1. CASE receivedSyncRsp
      BY <2>1 DEF SyncIsReceived
    <2>2. CASE arg[x] # 0 /\ Script[arg[x]] = "sync"
      <3>1. pos[1] \in 1 .. pos[1] /\ 1 \in Conns /\ Script[pos[1]] = "sync"
        BY <1>2, <1>8, <2>2
      <3> QED BY <3>1
    <2> QED BY <2>1, <2>2 DEF Handle
  <1>10. FirstSyncIsIgnored'
    <2> SUFFICES ASSUME mode.noGoroutines, ~mode.eos, ~Again,
                        NEW i \in DOMAIN published', published'[i][1] = 1,
                        kind(published'[i]) = "init"
                 PROVE  \E k \in 1 .. published'[i][2] : Script[k] = "sync"
      BY <1>1, <1>7 DEF FirstSyncIsIgnored, Again
    <2>1. CASE i \in DOMAIN published
      BY <1>3, <2>1 DEF FirstSyncIsIgnored, Again
    <2>2. CASE i \notin DOMAIN published
      <3>1. published'[i] = y /\ ~Dropped(Script[arg[x]])
        <4>1. published' # published
          BY <2>2
        <4>2. published' = Append(published, y) /\ y \in Responses /\ ~Dropped(Script[arg[x]])
          BY <4>1, HandlePublishes
        <4>3. published'[i] = y
          BY <2>2, <4>2, PublishesMore
        <4> QED BY <4>2, <4>3
      <3>2. published'[i][2] = pos[1] /\ kind(published'[i]) = Script[arg[x]]
        BY <1>8, <3>1 DEF kind
      <3>3. receivedSyncRsp
        BY <3>1, <3>2 DEF Dropped
      <3>4. \E k \in 1 .. pos[1] : Script[k] = "sync"
        BY <3>3 DEF SyncIsReceived
      <3> QED BY <3>2, <3>4
    <2> QED BY <2>1, <2>2
  <1> QED BY <1>4, <1>5, <1>6, <1>9, <1>10

LEMMA Invariant == Spec => []StreamInv
  <1>1. Init => StreamInv
    <2> SUFFICES ASSUME Init PROVE StreamInv
      OBVIOUS
    <2>1. TypeOK
      BY TypeInit
    <2>2. \A c \in Conns : recv[c] = "off" /\ pos[c] = 0
      BY DEF Init
    <2>3. \A x \in Responses : hst[x] = "none"
      BY DEF Init
    <2>4. ~receivedSyncRsp /\ DOMAIN published = {}
      BY DEF Init
    <2> QED BY <2>1, <2>2, <2>3, <2>4
            DEF StreamInv, Unmade, NewestIsHandled, OneInHand, SyncIsReceived, FirstSyncIsIgnored
  <1>2. StreamInv /\ UNCHANGED vars => StreamInv'
    BY DEF vars, StreamInv, TypeOK, Unmade, NewestIsHandled, IsPublished, OneInHand,
           SyncIsReceived, Again, FirstSyncIsIgnored
  <1>3. StreamInv /\ [Next]_vars => StreamInv'
    <2> SUFFICES ASSUME StreamInv, [Next]_vars PROVE StreamInv'
      OBVIOUS
    <2>1. TypeOK'
      BY TypeStep DEF StreamInv
    <2> QED BY <1>2, <2>1, SubscribeStep, RecvStep, RecvEndsStep, ReportStep, BeginStep,
               HandleStep DEF Next
  <1> QED BY <1>1, <1>3, PTL DEF Spec

(* Handlers that all read the one variable rsp, in whatever order they run, still publish
   the newest update of a stream that goes on, when they are all done. *)
THEOREM NewestUpdateIsPublished == Spec => []NewestIsPublished
  <1>1. StreamInv => NewestIsPublished
    <2> SUFFICES ASSUME StreamInv, mode.juniper \/ mode.eos, NEW c \in Conns,
                        recv[c] = "recv", pos[c] > 0, Script[pos[c]] = "update",
                        \A i \in 1 .. pos[c] : hst[<<c, i>>] = "done"
                 PROVE  \E k \in DOMAIN published : published[k] = <<c, pos[c]>>
      BY DEF NewestIsPublished
    <2>1. pos[c] \in 1 .. pos[c]
      BY Lengths DEF StreamInv, TypeOK
    <2> QED BY <2>1 DEF StreamInv, NewestIsHandled, IsPublished
  <1> QED BY <1>1, Invariant, PTL

(* Handled in sequence, no packet of the initial sync that the device's first connection
   sent before its sync response is ever published. *)
THEOREM InitialSyncIsIgnored == Spec => []FirstSyncIsIgnored
  <1>1. StreamInv => FirstSyncIsIgnored
    BY DEF StreamInv
  <1> QED BY <1>1, Invariant, PTL

-----------------------------------------------------------------------------
(* Handled in sequence *)

LEMMA SequenceRecv ==
  ASSUME StreamInv, SequenceParts, mode.noGoroutines, NEW c \in Conns, Recv(c)
  PROVE  SequenceParts'
  <1> USE DEF StreamInv, SequenceParts
  <1> DEFINE r == <<c, pos[c] + 1>>
  <1>1. /\ pos[c] \in Nat /\ pos[c] + 1 \in 1 .. Len(Script) /\ r \in Responses
        /\ \A i \in 1 .. pos[c] : hst[<<c, i>>] = "done"
    <2>1. pos[c] \in 0 .. Len(Script) /\ pos[c] < Len(Script)
      BY DEF Recv, TypeOK
    <2>2. pos[c] + 1 \in 1 .. Len(Script)
      BY <2>1, Lengths
    <2> QED BY <2>1, <2>2, Lengths, Pairs DEF Recv, MayReceive
  <1>2. /\ pos' = [pos EXCEPT ![c] = pos[c] + 1] /\ hst' = [hst EXCEPT ![r] = "spawned"]
        /\ UNCHANGED <<mode, receivedSyncRsp, published>>
    BY DEF Recv
  <1>3. hst[r] = "none"
    <2>1. ~(r[2] <= pos[r[1]])
      BY <1>1
    <2> QED BY <1>1, <2>1 DEF Unmade
  <1>4. \A x \in Responses : hst[x] = "done" <=> hst'[x] = "done"
    BY <1>1, <1>2, <1>3 DEF TypeOK
  <1>5. OthersAreDone'
    <2> SUFFICES ASSUME NEW x \in Responses, x[2] < pos'[x[1]] PROVE hst[x] = "done"
      BY <1>4 DEF OthersAreDone, Responses, Conns
    <2>1. x[1] \in Conns /\ x[2] \in 1 .. Len(Script) /\ x = <<x[1], x[2]>>
      BY Pairs
    <2>2. CASE x[1] = c
      <3>1. x[2] < pos[c] + 1
        BY <1>2, <2>2 DEF TypeOK
      <3>2. x[2] \in 1 .. pos[c]
        BY <1>1, <2>1, <3>1
      <3> QED BY <1>1, <2>1, <2>2, <3>2
    <2>3. CASE x[1] # c
      BY <1>2, <2>1, <2>3 DEF TypeOK, OthersAreDone
    <2> QED BY <2>2, <2>3
  <1>6. DoneIsSettled'
    BY <1>2, <1>4 DEF DoneIsSettled, IsPublished, MustPublish, kind
  <1>7. PublishedIsDone'
    <2>1. \A k \in DOMAIN published : published[k] \in Responses
      BY DEF TypeOK
    <2> QED BY <1>2, <1>4, <2>1 DEF PublishedIsDone
  <1>8. PublishedInOrder'
    BY <1>2 DEF PublishedInOrder
  <1> QED BY <1>5, <1>6, <1>7, <1>8

LEMMA SequenceBegin ==
  ASSUME StreamInv, SequenceParts, NEW x \in Responses, Begin(x)
  PROVE  SequenceParts'
  <1> USE DEF StreamInv, SequenceParts
  <1>1. /\ hst[x] = "spawned" /\ hst' = [hst EXCEPT ![x] = "handling"]
        /\ UNCHANGED <<mode, pos, receivedSyncRsp, published>>
    BY DEF Begin, connVars
  <1>2. \A z \in Responses : hst[z] = "done" <=> hst'[z] = "done"
    BY <1>1 DEF TypeOK
  <1>3. \A k \in DOMAIN published : published[k] \in Responses
    BY DEF TypeOK
  <1>4. OthersAreDone' /\ PublishedIsDone' /\ PublishedInOrder'
    BY <1>1, <1>2, <1>3 DEF OthersAreDone, PublishedIsDone, PublishedInOrder
  <1>5. DoneIsSettled'
    BY <1>1, <1>2 DEF DoneIsSettled, IsPublished, MustPublish, kind
  <1> QED BY <1>4, <1>5

LEMMA SequenceHandle ==
  ASSUME StreamInv, SequenceParts, mode.noGoroutines, NEW x \in Responses, Handle(x)
  PROVE  SequenceParts'
  <1> USE DEF StreamInv, SequenceParts
  <1>1. /\ hst[x] = "handling" /\ hst' = [hst EXCEPT ![x] = "done"]
        /\ UNCHANGED <<mode, pos>>
        /\ receivedSyncRsp' = (receivedSyncRsp \/ (arg[x] # 0 /\ Script[arg[x]] = "sync"))
    BY DEF Handle, connVars
  <1>2. /\ x[1] \in Conns /\ x[2] \in 1 .. Len(Script) /\ x = <<x[1], x[2]>>
        /\ arg[x] = x[2] /\ x[2] = pos[x[1]]
    BY <1>1, Pairs DEF OneInHand
  <1>3. \A z \in Responses : hst'[z] = "done" <=> z = x \/ hst[z] = "done"
    BY <1>1 DEF TypeOK
  <1>4. \/ published' = published /\ (Script[x[2]] \in {"sync", "bad"} \/ Dropped(Script[x[2]]))
        \/ published' = Append(published, x)
    BY <1>2, Lengths, HandlePublishes
  <1>5. published \in Seq(Responses) /\ \A k \in DOMAIN published : published[k] \in Responses
    BY DEF TypeOK
  <1>6. \A z : IsPublished(z) => IsPublished(z)'
    <2>1. CASE published' = published
      BY <2>1 DEF IsPublished
    <2>2. CASE published' = Append(published, x)
      BY <2>2, PublishesMore DEF IsPublished
    <2> QED BY <1>4, <2>1, <2>2
  <1>7. OthersAreDone'
    BY <1>1, <1>3 DEF OthersAreDone
  <1>8. MustPublish(x[2]) => IsPublished(x)'
    <2> SUFFICES ASSUME MustPublish(x[2]) PROVE IsPublished(x)'
      OBVIOUS
    <2>1. ~Dropped(Script[x[2]])
      <3>1. CASE \E j \in 1 .. x[2] - 1 : Script[j] = "sync"
        <4>1. PICK j \in 1 .. x[2] - 1 : Script[j] = "sync"
          BY <3>1
        <4>2. j \in 1 .. Len(Script) /\ j < x[2]
          BY <1>2, Lengths
        <4>3. <<x[1], j>> \in Responses /\ <<x[1], j>>[1] = x[1] /\ <<x[1], j>>[2] = j
          BY <1>2, <4>2, Pairs
        <4>4. hst[<<x[1], j>>] = "done"
          BY <1>2, <4>2, <4>3 DEF OthersAreDone
        <4>5. receivedSyncRsp
          BY <4>1, <4>3, <4>4 DEF DoneIsSettled, kind
        <4> QED BY <4>5 DEF Dropped
      <3>2. CASE mode.eos \/ (mode.juniper /\ Script[x[2]] # "init")
        BY <3>2 DEF Dropped
      <3> QED BY <3>1, <3>2 DEF MustPublish
    <2>2. published' = Append(published, x)
      BY <1>4, <2>1 DEF MustPublish
    <2> QED BY <2>2, PublishesMore DEF IsPublished
  <1>9. DoneIsSettled'
    <2> SUFFICES ASSUME NEW z \in Responses, hst'[z] = "done"
                 PROVE  /\ kind(z) = "sync" => receivedSyncRsp'
                        /\ MustPublish(z[2]) => IsPublished(z)'
      BY <1>1 DEF DoneIsSettled, MustPublish, kind, IsPublished
    <2>1. CASE z = x
      <3>1. arg[x] # 0 /\ Script[arg[x]] = Script[x[2]]
        BY <1>2, Lengths
      <3>2. Script[x[2]] = "sync" => receivedSyncRsp'
        BY <1>1, <3>1, Zenon
      <3>3. kind(z) = "sync" => receivedSyncRsp'
        BY <2>1, <3>2 DEF kind
      <3>4. MustPublish(z[2]) => IsPublished(z)'
        BY <1>8, <2>1
      <3> QED BY <3>3, <3>4
    <2>2. CASE hst[z] = "done"
      BY <1>1, <1>6, <2>2 DEF DoneIsSettled
    <2> QED BY <1>3, <2>1, <2>2
  <1>10. PublishedIsDone'
    <2>1. CASE published' = published
      BY <1>3, <1>5, <2>1 DEF PublishedIsDone
    <2>2. CASE published' = Append(published, x)
      BY <1>3, <1>5, <2>2, PublishesMore DEF PublishedIsDone
    <2> QED BY <1>4, <2>1, <2>2
  <1>11. PublishedInOrder'
    <2>1. CASE published' = published
      BY <2>1 DEF PublishedInOrder
    <2>2. CASE published' = Append(published, x)
      <3> SUFFICES ASSUME NEW k \in DOMAIN published', NEW l \in DOMAIN published', k < l,
                          published'[k][1] = published'[l][1]
                   PROVE  published'[k][2] < published'[l][2]
        BY DEF PublishedInOrder
      <3>1. /\ DOMAIN published' = 1 .. Len(published) + 1 /\ DOMAIN published = 1 .. Len(published)
            /\ Len(published) \in Nat
            /\ \A m \in 1 .. Len(published) : published'[m] = published[m]
            /\ published'[Len(published) + 1] = x
        BY <1>5, <2>2
      <3>2. k \in DOMAIN published /\ published'[k] = published[k] /\ published[k] \in Responses
        BY <1>5, <3>1
      <3>3. CASE l \in DOMAIN published
        BY <3>1, <3>2, <3>3 DEF PublishedInOrder
      <3>4. CASE l = Len(published) + 1
        <4>1. published'[l] = x /\ published[k][1] = x[1]
          BY <3>1, <3>2, <3>4
        <4>2. published[k] = <<published[k][1], published[k][2]>> /\ published[k][2] \in 1 .. Len(Script)
          BY <3>2, Pairs
        <4>3. hst[published[k]] = "done"
          BY <3>2 DEF PublishedIsDone
        <4>4. published[k][2] # x[2]
          BY <1>1, <1>2, <4>1, <4>2, <4>3
        <4>5. published[k][2] <= x[2]
          BY <1>2, <3>2, <4>1, <4>3 DEF Unmade
        <4> QED BY <1>2, <3>2, <4>1, <4>2, <4>4, <4>5, Lengths
      <3> QED BY <3>1, <3>3, <3>4
    <2> QED BY <1>4, <2>1, <2>2
  <1> QED BY <1>7, <1>9, <1>10, <1>11

LEMMA SequenceStep == StreamInv /\ SequenceInv /\ [Next]_vars => SequenceInv'
  <1> SUFFICES ASSUME StreamInv, SequenceInv, [Next]_vars, mode'.noGoroutines PROVE SequenceParts'
    BY DEF SequenceInv
  <1>1. mode' = mode
    BY DEF Next, vars, Subscribe, SubscribeFails, Control, Recv, RecvEnds, Report, Begin, Handle
  <1>2. mode.noGoroutines /\ SequenceParts
    BY <1>1 DEF SequenceInv
  <1>3. CASE \E c \in Conns : Recv(c)
    BY <1>2, <1>3, SequenceRecv
  <1>4. CASE \E x \in Responses : Begin(x) \/ Handle(x)
    BY <1>2, <1>4, SequenceBegin, SequenceHandle
  <1>5. CASE \/ Subscribe \/ SubscribeFails \/ Control \/ UNCHANGED vars
             \/ \E c \in Conns : RecvEnds(c) \/ Report(c)
    <2>1. UNCHANGED <<mode, pos, hst, receivedSyncRsp, published>>
      BY <1>5 DEF Subscribe, SubscribeFails, Control, RecvEnds, Report, vars, connVars, handlerVars
    <2>2. UNCHANGED <<OthersAreDone, PublishedIsDone, PublishedInOrder>>
      BY <2>1 DEF OthersAreDone, PublishedIsDone, PublishedInOrder
    <2>3. UNCHANGED DoneIsSettled
      BY <2>1 DEF DoneIsSettled, IsPublished, MustPublish, kind
    <2> QED BY <1>2, <2>2, <2>3 DEF SequenceParts
  <1> QED BY <1>3, <1>4, <1>5 DEF Next

(* With --no-per-packet-goroutines every response that is not to be ignored is published
   once it is handled, each once and in the order received (subscribe_gnmi.go:606-611,
   348-358): for any script, any number of connections and any receivers left over
   from earlier ones, because the next response is received when the last is handled. *)
THEOREM SequenceIsKept == Spec => []SequentialKeepsUpdates
  <1>1. Init => SequenceInv
    <2> SUFFICES ASSUME Init PROVE SequenceParts
      BY DEF SequenceInv
    <2>1. /\ \A x \in Responses : hst[x] = "none" /\ x[2] >= 0 /\ pos[x[1]] = 0
          /\ DOMAIN published = {}
      BY Pairs, Lengths DEF Init
    <2>2. \A x \in Responses : ~(x[2] < pos[x[1]])
      BY <2>1, Pairs, Lengths
    <2> QED BY <2>1, <2>2 DEF SequenceParts, OthersAreDone, DoneIsSettled, PublishedIsDone, PublishedInOrder
  <1>2. StreamInv /\ SequenceInv => SequentialKeepsUpdates
    <2> SUFFICES ASSUME StreamInv, SequenceParts, NEW c \in Conns
                 PROVE  /\ \A i \in 1 .. pos[c] : MustPublish(i) =>
                              \/ \E k \in DOMAIN published : published[k] = <<c, i>>
                              \/ i = pos[c] /\ hst[<<c, i>>] # "done"
                        /\ \A k, l \in DOMAIN published :
                              k < l /\ published[k][1] = c /\ published[l][1] = c
                                  => published[k][2] < published[l][2]
      BY DEF SequenceInv, SequentialKeepsUpdates
    <2>1. ASSUME NEW i \in 1 .. pos[c], MustPublish(i), ~(i = pos[c] /\ hst[<<c, i>>] # "done")
          PROVE  \E k \in DOMAIN published : published[k] = <<c, i>>
      <3>1. pos[c] \in 0 .. Len(Script)
        BY DEF StreamInv, TypeOK
      <3>2. i \in 1 .. Len(Script) /\ (i = pos[c] \/ i < pos[c])
        BY <3>1, Lengths
      <3>3. <<c, i>> \in Responses /\ <<c, i>>[1] = c /\ <<c, i>>[2] = i
        BY <3>2, Pairs
      <3>4. hst[<<c, i>>] = "done"
        BY <2>1, <3>2, <3>3 DEF SequenceParts, OthersAreDone
      <3> QED BY <2>1, <3>3, <3>4 DEF SequenceParts, DoneIsSettled, IsPublished
    <2> QED BY <2>1 DEF SequenceParts, PublishedInOrder
  <1> QED BY <1>1, <1>2, SequenceStep, Invariant, PTL DEF Spec

=============================================================================

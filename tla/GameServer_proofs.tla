-------------------------- MODULE GameServer_proofs --------------------------
(***************************************************************************)
(* The hub of a game server is a hub as module TcpService assumes it, so    *)
(* what is proved of the services under the weakest hub holds under this    *)
(* one; no player connection is lost to it, no close either, and it hands   *)
(* the frames of a connection over in order.                                *)
(*                                                                         *)
(* In the process of the server the parts, started one by one, keep all     *)
(* this, also when the runtime is dropped under them, and main leaves no    *)
(* part behind that is still at work.                                       *)
(***************************************************************************)
EXTENDS GameServer, TcpService_proofs

HubTypes ==
    /\ gs \subseteq Vfd /\ rpc_gs \subseteq Vfd
    /\ dispatched \in [Conn -> Nat]
    /\ heard \subseteq Conn

(* A registered number is that of a player connection whose sender has come. *)
GsInv == \A v \in gs : <<"Tcp", v>> \in Known

(* While the hub runs, a reader that has stopped has been heard of or its   *)
(* SocketClosed is queued.                                                  *)
ClosedQueued ==
    hubUp => \A c \in Conn : reader[c] \in {"drop", "gone"} =>
        \/ c \in heard
        \/ \E i \in DOMAIN msgs[Home(c)] : /\ msgs[Home(c)][i].from = c
                                           /\ msgs[Home(c)][i].kind = "SocketClosed"

(* A connection heard of has stopped reading and has nothing queued. *)
HeardInv ==
    /\ \A c \in heard : reader[c] \in {"drop", "gone"}
    /\ \A s \in Srv : \A i \in DOMAIN msgs[s] : msgs[s][i].from \notin heard

(* Every queued frame is younger than the last one of its connection that   *)
(* was given to the script.                                                 *)
DispatchInv ==
    /\ \A c \in Conn : dispatched[c] <= readnum[c]
    /\ \A s \in Srv : \A i \in DOMAIN msgs[s] :
           msgs[s][i].kind # "SocketClosed" =>
               dispatched[msgs[s][i].from] < msgs[s][i].seq

(* The inductive invariant. *)
HubInv == /\ ChannelInv /\ HubTypes /\ GsInv /\ TcpNeverLost
          /\ ClosedQueued /\ HeardInv /\ DispatchInv

-----------------------------------------------------------------------------
(* Every step of this hub is one of the weakest hub's. *)

LEMMA LuaSendsIsHubSends ==
    ASSUME TypeInv, HalvesInv, GsInv, LuaSends PROVE HubSends
<1>1. CASE UNCHANGED inbox
    BY <1>1 DEF HubSends
<1>2. CASE \E v \in gs : inbox' = Sent({<<"Tcp", v>>}, [kind |-> "Tcp", vfd |-> v])
  <2>1. PICK v \in gs : inbox' = Sent({<<"Tcp", v>>}, [kind |-> "Tcp", vfd |-> v])
      BY <1>2
  <2> DEFINE c == <<"Tcp", v>>
  <2>2. c \in Known /\ c \in Conn /\ writer[c] # "none"
      BY DEF GsInv, Known
  <2>3. vfd[c] = v
      BY <2>2 DEF HalvesInv
  <2>4. inbox' = Sent({c}, [kind |-> "Tcp", vfd |-> vfd[c]])
      BY <2>1, <2>3
  <2>5. QED
      BY <2>2, <2>4 DEF HubSends
<1>3. QED
    BY <1>1, <1>2 DEF LuaSends

LEMMA HubStepRefines ==
    ASSUME TypeInv, HalvesInv, GsInv, [HubNext]_allVars PROVE [Next]_vars
<1>1. CASE NetStep
    BY <1>1 DEF Next
<1>2. CASE AddTcp \/ AddRpc
  <2>1. \E s \in Srv : HubTakesConn(s)
      BY <1>2, HubAssumption DEF AddTcp, AddRpc, TakeChan, HubTakesConn
  <2>2. QED
      BY <2>1 DEF Next, HubStep
<1>3. ASSUME NEW s \in Srv, Dispatch(s) PROVE Next
  <2>1. HubSends
      BY <1>3, LuaSendsIsHubSends DEF Dispatch
  <2>2. HubTakesMsg(s)
      BY <1>3, <2>1 DEF Dispatch, TakeMsg, HubTakesMsg
  <2>3. QED
      BY <2>2 DEF Next, HubStep
<1>4. ASSUME NEW s \in Srv, ForgetClosed(s) PROVE Next
  <2>1. HubTakesMsg(s)
      BY <1>4 DEF ForgetClosed, TakeMsg, HubTakesMsg, HubSends
  <2>2. QED
      BY <2>1 DEF Next, HubStep
<1>5. CASE Tick
  <2>1. HubSends
      BY <1>5, LuaSendsIsHubSends DEF Tick
  <2>2. HubTicks
      BY <1>5, <2>1 DEF Tick, HubTicks
  <2>3. QED
      BY <2>2 DEF Next, HubStep
<1>6. CASE Panic
    BY <1>6 DEF Panic, Next, HubStep
<1>7. CASE UNCHANGED allVars
    BY <1>7 DEF allVars
<1>8. QED
    BY <1>1, <1>2, <1>3, <1>4, <1>5, <1>6, <1>7 DEF HubNext

-----------------------------------------------------------------------------
(* HubTypes. *)

LEMMA TypesNext ==
    ASSUME ChannelInv, HubTypes, [HubNext]_allVars PROVE HubTypes'
<1> USE DEF HubTypes
<1>0. TypeInv
    BY DEF ChannelInv, Inv
<1>1. CASE NetStep /\ UNCHANGED hubVars
    BY <1>1 DEF hubVars
<1>2. CASE AddTcp \/ AddRpc
  <2>1. ASSUME NEW s \in Srv, TakeChan(s)
        PROVE  vfd[Head(chan[s])] \in Vfd /\ UNCHANGED <<dispatched, heard>>
    <3>1. Head(chan[s]) \in Conn
        BY <1>0, <2>1, SeqFacts DEF TypeInv, TakeChan
    <3>2. QED
        BY <1>0, <2>1, <3>1 DEF TypeInv, TakeChan
  <2>2. QED
      BY <1>2, <2>1, HubAssumption DEF AddTcp, AddRpc
<1>3. ASSUME NEW s \in Srv, Dispatch(s) \/ ForgetClosed(s) PROVE HubTypes'
  <2> DEFINE m == Head(msgs[s])
  <2>1. msgs[s] # <<>> /\ msgs[s] \in Seq(Msg)
      BY <1>0, <1>3 DEF Dispatch, ForgetClosed, TakeMsg, TypeInv
  <2>2. 1 \in DOMAIN msgs[s] /\ m = msgs[s][1]
      BY <2>1
  <2>3. m.from \in Conn /\ m.seq \in Nat
      BY <1>0, <2>2, QueueElems DEF ChannelInv, QueueInv
  <2>4. QED
      BY <1>3, <2>3 DEF Dispatch, ForgetClosed
<1>4. CASE Tick \/ UNCHANGED allVars
    BY <1>4 DEF Tick, hubVars, allVars
<1>5. CASE Panic
    BY <1>5 DEF Panic
<1>6. QED
    BY <1>1, <1>2, <1>3, <1>4, <1>5 DEF HubNext

-----------------------------------------------------------------------------
(* What the tasks of services and connections do to the connections the hub *)
(* knows and to those it can reach.                                         *)

Kept ==
    /\ UNCHANGED hubUp
    /\ \A d \in Conn :
          /\ writer[d] \notin {"none", "built"} =>
                 writer'[d] \notin {"none", "built"} /\ vfd'[d] = vfd[d]
          /\ Live(d)' => Live(d) \/ InChan(d)'
          /\ InChan(d) => InChan(d)'
          /\ InChan(d)' => InChan(d) \/ writer[d] = "built"

LEMMA KeptConn ==
    ASSUME TypeInv, NEW c \in Conn, ConnStep(c) PROVE Kept
<1>1. UNCHANGED <<chan, vfd, hubUp>>
    BY DEF ConnStep, ReadFrame, ReadFails, WsReadFails, ShutdownNotified,
         LeaveLoop, NotifyClosed, DropReader, WriterRecv, WsWriterRecv, WriteOk,
         WriteFails, PairDropped, EndWriter
<1>2. \/ UNCHANGED writer
      \/ /\ writer[c] \in {"run", "write"}
         /\ \E w \in {"run", "write", "done"} : writer' = [writer EXCEPT ![c] = w]
    BY DEF ConnStep, ReadFrame, ReadFails, WsReadFails, ShutdownNotified,
         LeaveLoop, NotifyClosed, DropReader, WriterRecv, WsWriterRecv, WriteOk,
         WriteFails, PairDropped, EndWriter
<1>3. QED
    BY <1>1, <1>2 DEF Kept, TypeInv, Live, InChan

LEMMA KeptService ==
    ASSUME TypeInv, LoopInv, HalvesInv, NEW s \in Srv, ServiceStep(s) PROVE Kept
<1> USE DEF Kept, TypeInv, Live
<1>1. CASE UNCHANGED <<writer, vfd, chan, hubUp>>
    BY <1>1 DEF InChan
<1>2. ASSUME NewConn(s) PROVE Kept
  <2>1. /\ NextConn(s) \in Conn /\ writer[NextConn(s)] = "none"
        /\ writer' = [writer EXCEPT ![NextConn(s)] = "built"]
        /\ vfd' = [vfd EXCEPT ![NextConn(s)] = counter[s] + 1]
        /\ UNCHANGED <<chan, hubUp>>
      BY <1>2 DEF NewConn, Build, HalvesInv
  <2>2. QED
      BY <2>1 DEF InChan
<1>3. CASE HandOver(s)
  <2>0. PICK c \in Conn : c = Cur(s)
      BY <1>3 DEF HandOver, LoopInv
  <2>1. c \in Conn /\ Home(c) = s /\ writer[c] = "built"
      BY <1>3, <2>0 DEF HandOver, LoopInv, HalvesInv, Cur, Home
  <2>2. /\ chan' = [chan EXCEPT ![s] = Append(@, c)]
        /\ writer' = [writer EXCEPT ![c] = "run"]
        /\ UNCHANGED <<vfd, hubUp>>
      BY <1>3, <2>0, <2>1 DEF HandOver, Register
  <2>3. /\ \A d \in Conn : writer'[d] = IF d = c THEN "run" ELSE writer[d]
        /\ chan'[s] = Append(chan[s], c)
        /\ \A t \in Srv \ {s} : chan'[t] = chan[t]
      BY <2>1, <2>2
  <2>4. chan[s] \in Seq(Conn)
      OBVIOUS
  <2>5. /\ Len(chan[s]) \in Nat /\ DOMAIN chan[s] = 1..Len(chan[s])
        /\ DOMAIN chan'[s] = 1..(Len(chan[s]) + 1)
        /\ \A i \in 1..Len(chan[s]) : chan'[s][i] = chan[s][i]
        /\ chan'[s][Len(chan[s]) + 1] = c
      BY <2>1, <2>3, <2>4, AppendElems
  <2>6. \A d \in Conn : InChan(d)' <=> InChan(d) \/ d = c
    <3>0. Len(chan[s]) + 1 \in DOMAIN chan'[s]
        BY ONLY <2>5
    <3>1. InChan(c)'
        BY ONLY <2>1, <2>5, <3>0 DEF InChan
    <3>2. ASSUME NEW d \in Conn, d # c, Home(d) = s PROVE InChan(d)' <=> InChan(d)
      <4>1. \A i \in DOMAIN chan'[s] : i \in DOMAIN chan[s] \/ i = Len(chan[s]) + 1
          BY ONLY <2>5
      <4>2. \A i \in DOMAIN chan[s] : i \in DOMAIN chan'[s] /\ chan'[s][i] = chan[s][i]
          BY ONLY <2>5
      <4>3. QED
          BY ONLY <3>2, <2>5, <4>1, <4>2 DEF InChan
    <3>3. ASSUME NEW d \in Conn, Home(d) # s PROVE InChan(d)' <=> InChan(d)
      <4>1. chan'[Home(d)] = chan[Home(d)]
          BY <3>3, <2>3, ConnFacts
      <4>2. QED
          BY <4>1 DEF InChan
    <3>4. QED
        BY <3>1, <3>2, <3>3
  <2>7. QED
      BY <2>1, <2>2, <2>3, <2>6
<1>4. CASE HandOverFails(s)
  <2>1. /\ writer' = [writer EXCEPT ![Cur(s)] = "done"]
        /\ UNCHANGED <<chan, vfd, hubUp>>
      BY <1>4 DEF HandOverFails
  <2>2. QED
      BY <2>1 DEF InChan
<1>5. CASE Accept(s) \/ HandshakeDone(s)
    BY <1>2, <1>5 DEF Accept, HandshakeDone
<1>6. CASE \/ Bind(s) \/ BindFails(s) \/ WsAccept(s) \/ AcceptFails(s)
           \/ HandshakeFails(s) \/ Acquire(s) \/ SplitPanics(s)
    BY <1>1, <1>6
    DEF Bind, BindFails, WsAccept, AcceptFails, HandshakeFails, Acquire, AcquirePermit,
        SplitPanics, DropService, connVars
<1>7. QED
    BY <1>3, <1>4, <1>5, <1>6 DEF ServiceStep

LEMMA KnownInChan ==
    /\ Known = {c \in Conn : writer[c] \notin {"none", "built"} /\ ~InChan(c)}
    /\ Known' = {c \in Conn : writer'[c] \notin {"none", "built"} /\ ~InChan(c)'}
  BY DEF Known, InChan

(* The head of a channel leaves it. *)
LEMMA TakeChanFacts ==
    ASSUME ChannelInv, NEW s \in Srv, TakeChan(s)
    PROVE  /\ Head(chan[s]) \in Conn /\ Home(Head(chan[s])) = s
           /\ vfd[Head(chan[s])] = Head(chan[s])[2]
           /\ writer[Head(chan[s])] \notin {"none", "built"}
           /\ \A d \in Conn : InChan(d)' <=> InChan(d) /\ d # Head(chan[s])
<1> DEFINE q == chan[s]
<1>1. /\ q # <<>> /\ q \in Seq(Conn) /\ chan'[s] = Tail(q)
      /\ \A t \in Srv \ {s} : chan'[t] = chan[t]
    BY DEF TakeChan, ChannelInv, Inv, TypeInv
<1>2. 1 \in DOMAIN q /\ Head(q) = q[1] /\ DOMAIN q \subseteq Nat \ {0}
    BY <1>1
<1>3. /\ Head(q) \in Conn /\ Home(Head(q)) = s
      /\ writer[Head(q)] \notin {"none", "built"}
    BY <1>1, <1>2 DEF ChannelInv, ChanInv
<1>4. vfd[Head(q)] = Head(q)[2]
    BY <1>3 DEF ChannelInv, HalvesInv
<1>5. \A i \in DOMAIN Tail(q) : i + 1 \in DOMAIN q /\ Tail(q)[i] = q[i + 1]
    BY <1>1, TailElems
<1>6. \A i \in DOMAIN q \ {1} : i - 1 \in DOMAIN Tail(q) /\ Tail(q)[i - 1] = q[i]
    BY <1>1
<1>7. ASSUME NEW d \in Conn, Home(d) = s PROVE InChan(d)' <=> InChan(d) /\ d # Head(q)
  <2>1. ASSUME NEW i \in DOMAIN Tail(q), Tail(q)[i] = d PROVE InChan(d) /\ d # Head(q)
    <3>1. i + 1 \in DOMAIN q /\ q[i + 1] = d /\ i + 1 # 1
        BY <2>1, <1>1, <1>2, <1>5, TailElems
    <3>2. d # q[1]
        BY <3>1, <1>2 DEF ChannelInv, ChanInv
    <3>3. QED
        BY <3>1, <3>2, <1>2, <1>7 DEF InChan
  <2>2. ASSUME NEW i \in DOMAIN q, q[i] = d, d # Head(q)
        PROVE  \E j \in DOMAIN Tail(q) : Tail(q)[j] = d
      BY <2>2, <1>2, <1>6
  <2>3. QED
      BY <2>1, <2>2, <1>1, <1>7 DEF InChan
<1>8. ASSUME NEW d \in Conn, Home(d) # s PROVE InChan(d)' <=> InChan(d) /\ d # Head(q)
  <2>1. chan'[Home(d)] = chan[Home(d)]
      BY <1>8, <1>1, ConnFacts
  <2>2. QED
      BY <2>1, <1>3, <1>8 DEF InChan
<1>9. QED
    BY <1>3, <1>4, <1>7, <1>8

LEMMA KeptNet ==
    ASSUME ChannelInv, NetStep PROVE Kept
  BY KeptConn, KeptService DEF NetStep, ChannelInv, Inv

-----------------------------------------------------------------------------
(* GsInv and TcpNeverLost. *)

LEMMA GsNext ==
    ASSUME ChannelInv, GsInv, [HubNext]_allVars PROVE GsInv'
<1> USE KnownInChan DEF GsInv
<1>1. CASE NetStep /\ UNCHANGED hubVars
  <2>1. Kept /\ gs' = gs
      BY <1>1, KeptNet DEF hubVars
  <2>2. Known \subseteq Known'
      BY <2>1 DEF Kept
  <2>3. QED
      BY <2>1, <2>2
<1>2. CASE AddTcp
  <2> DEFINE h == Head(chan["Tcp"])
  <2>1. "Tcp" \in Srv /\ TakeChan("Tcp") /\ gs' = gs \cup {vfd[h]} /\ UNCHANGED writer
      BY <1>2, HubAssumption DEF AddTcp, TakeChan
  <2>2. /\ h \in Conn /\ Home(h) = "Tcp" /\ vfd[h] = h[2]
        /\ writer[h] \notin {"none", "built"}
        /\ \A d \in Conn : InChan(d)' <=> InChan(d) /\ d # h
      BY <2>1, TakeChanFacts
  <2>3. h = <<"Tcp", vfd[h]>>
      BY <2>2, ConnFacts
  <2>4. h \in Known' /\ Known \subseteq Known'
      BY <2>1, <2>2
  <2>5. QED
      BY <2>1, <2>3, <2>4
<1>3. CASE AddRpc
  <2>1. "Rpc" \in Srv /\ TakeChan("Rpc") /\ UNCHANGED <<gs, writer>>
      BY <1>3, HubAssumption DEF AddRpc, TakeChan
  <2>2. \A d \in Conn : InChan(d)' => InChan(d)
      BY <2>1, TakeChanFacts
  <2>3. QED
      BY <2>1, <2>2
<1>4. CASE UNCHANGED <<gs, writer, chan>>
    BY <1>4 DEF InChan
<1>5. CASE Panic
    BY <1>5 DEF Panic
<1>6. QED
    BY <1>1, <1>2, <1>3, <1>4, <1>5
    DEF HubNext, Dispatch, ForgetClosed, TakeMsg, Tick, hubVars, allVars, vars, connVars

LEMMA ReachNext ==
    ASSUME ChannelInv, TcpNeverLost, [HubNext]_allVars PROVE TcpNeverLost'
<1> USE DEF TcpNeverLost, ConnOf
<1>1. CASE NetStep /\ UNCHANGED hubVars
  <2>1. Kept /\ gs' = gs
      BY <1>1, KeptNet DEF hubVars
  <2>2. \A d \in Conn : Live(d) => vfd'[d] = vfd[d]
      BY <2>1 DEF Kept, Live
  <2>3. QED
      BY <2>1, <2>2 DEF Kept
<1>2. ASSUME NEW s \in Srv, TakeChan(s), gs \subseteq gs',
             s = "Tcp" => vfd[Head(chan[s])] \in gs'
      PROVE  TcpNeverLost'
  <2>1. \A d \in Conn : InChan(d)' <=> InChan(d) /\ d # Head(chan[s])
      BY <1>2, TakeChanFacts
  <2>2. Home(Head(chan[s])) = s /\ UNCHANGED <<hubUp, vfd, writer>>
      BY <1>2, TakeChanFacts DEF TakeChan
  <2>3. QED
      BY <1>2, <2>1, <2>2 DEF Live
<1>3. CASE AddTcp \/ AddRpc
    BY <1>2, <1>3, HubAssumption DEF AddTcp, AddRpc
<1>4. CASE UNCHANGED <<gs, writer, vfd, chan, hubUp>>
    BY <1>4 DEF InChan, Live
<1>5. CASE Panic
    BY <1>5 DEF Panic, HubDies
<1>6. QED
    BY <1>1, <1>3, <1>4, <1>5
    DEF HubNext, Dispatch, ForgetClosed, TakeMsg, Tick, hubVars, allVars, vars, connVars

-----------------------------------------------------------------------------
(* The queue of messages, as the hub sees it grow and shrink. *)

(* The step puts m into its service's queue. *)
Grows(m) ==
    /\ msgs' = [msgs EXCEPT ![Home(m.from)] = Append(@, m)]
    /\ m.from \in Conn
    /\ reader[m.from] \notin {"drop", "gone"}
    /\ m.kind # "SocketClosed" => m.seq > readnum[m.from]

(* A reader stops only with a SocketClosed in the queue or the hub dead. *)
Stops(m) == \A c \in Conn : reader'[c] \in {"drop", "gone"} =>
                \/ reader[c] \in {"drop", "gone"}
                \/ c = m.from /\ m.kind = "SocketClosed"

QueueStep ==
    /\ Onward
    /\ UNCHANGED hubUp
    /\ \/ /\ UNCHANGED msgs
          /\ hubUp => \A c \in Conn : reader'[c] \in {"drop", "gone"} =>
                                          reader[c] \in {"drop", "gone"}
       \/ \E m \in Msg : Grows(m) /\ Stops(m)

LEMMA QueueStepConn ==
    ASSUME TypeInv, NEW c \in Conn, ConnStep(c) PROVE QueueStep
<1>1. Onward
    BY OnwardConn
<1>2. UNCHANGED hubUp
    BY DEF ConnStep, ReadFrame, ReadFails, WsReadFails, ShutdownNotified,
         LeaveLoop, NotifyClosed, DropReader, WriterRecv, WsWriterRecv, WriteOk,
         WriteFails, PairDropped, EndWriter
<1>3. CASE ReadFrame(c)
  <2> DEFINE m == IF Home(c) \in Ws THEN WsFrame(c) ELSE Frame(c)
  <2>1. m.from = c /\ m.seq = readnum[c] + 1 /\ m.kind \in {"Tcp", "Rpc", "RpcClient"}
      BY ConnFacts, ConnAssumption DEF Frame, WsFrame
  <2>0. vfd[c] \in Vfd /\ readnum[c] \in Nat
      BY DEF TypeInv
  <2>2. m \in Msg
      BY <2>0, ConnFacts, ConnAssumption DEF Frame, WsFrame, Msg
  <2>3. \A d \in Conn : reader'[d] \in {"drop", "gone"} => reader[d] \in {"drop", "gone"}
      BY <1>3 DEF ReadFrame, TypeInv
  <2>4. CASE UNCHANGED msgs
      BY <1>1, <1>2, <2>3, <2>4 DEF QueueStep
  <2>5. CASE msgs' # msgs
    <3>1. msgs' = [msgs EXCEPT ![Home(c)] = Append(@, m)] /\ reader[c] = "run"
        BY <1>3, <2>5 DEF ReadFrame
    <3>2. m.seq > readnum[c]
        BY <2>1 DEF TypeInv
    <3> HIDE DEF m
    <3>3. Grows(m) /\ Stops(m)
        BY <2>1, <2>3, <3>1, <3>2 DEF Grows, Stops
    <3>4. QED
        BY <1>1, <1>2, <2>2, <3>3 DEF QueueStep
  <2>6. QED
      BY <2>4, <2>5
<1>4. CASE NotifyClosed(c)
  <2> DEFINE m == Closed(c)
  <2>1. m.from = c /\ m.kind = "SocketClosed"
      BY DEF Closed
  <2>2. m \in Msg
      BY DEF Closed, Msg, TypeInv
  <2>3. \A d \in Conn : reader'[d] \in {"drop", "gone"} => reader[d] \in {"drop", "gone"} \/ d = c
      BY <1>4 DEF NotifyClosed, TypeInv
  <2>4. CASE ~hubUp /\ UNCHANGED msgs
      BY <1>1, <1>2, <2>4 DEF QueueStep
  <2>5. CASE msgs' = [msgs EXCEPT ![Home(c)] = Append(@, m)]
    <3>1. reader[c] = "notify"
        BY <1>4 DEF NotifyClosed
    <3> HIDE DEF m
    <3>2. Grows(m) /\ Stops(m)
        BY <2>1, <2>3, <2>5, <3>1 DEF Grows, Stops
    <3>3. QED
        BY <1>1, <1>2, <2>2, <3>2 DEF QueueStep
  <2>6. QED
      BY <1>4, <2>4, <2>5 DEF NotifyClosed
<1>5. CASE \/ ReadFails(c) \/ WsReadFails(c) \/ ShutdownNotified(c) \/ DropReader(c)
           \/ WriterRecv(c) \/ WsWriterRecv(c) \/ WriteOk(c) \/ WriteFails(c) \/ PairDropped(c)
  <2>1. /\ UNCHANGED msgs
        /\ \/ UNCHANGED reader
           \/ reader' = [reader EXCEPT ![c] = "notify"]
           \/ reader[c] = "drop" /\ reader' = [reader EXCEPT ![c] = "gone"]
      BY <1>5
      DEF ReadFails, WsReadFails, ShutdownNotified, LeaveLoop, DropReader,
          WriterRecv, WsWriterRecv, WriteOk, WriteFails, PairDropped, EndWriter
  <2>2. \A d \in Conn : reader'[d] \in {"drop", "gone"} => reader[d] \in {"drop", "gone"}
      BY <2>1 DEF TypeInv
  <2>3. QED
      BY <1>1, <1>2, <2>1, <2>2 DEF QueueStep
<1>6. QED
    BY <1>3, <1>4, <1>5 DEF ConnStep

LEMMA QueueStepService ==
    ASSUME TypeInv, LoopInv, NEW s \in Srv, ServiceStep(s) PROVE QueueStep
<1>1. Onward /\ UNCHANGED msgs
    BY OnwardService
<1>2. UNCHANGED hubUp
    BY DEF ServiceStep, Bind, BindFails, Accept, WsAccept, AcceptFails, HandshakeDone,
       HandshakeFails, SplitPanics, Acquire, AcquirePermit, HandOver, HandOverFails, Register,
       NewConn, Build, DropService, connVars
<1>3. \/ ~hubUp
      \/ UNCHANGED reader
      \/ \E c \in Conn, r \in {"built", "run"} : reader' = [reader EXCEPT ![c] = r]
  <2>1. loop[s] = "register" => Cur(s) \in Conn
      BY DEF LoopInv
  <2>2. QED
    BY <2>1
    DEF ServiceStep, Bind, BindFails, Accept, WsAccept, AcceptFails, HandshakeDone,
       HandshakeFails, SplitPanics, Acquire, AcquirePermit, HandOver, HandOverFails, Register,
       NewConn, Build, DropService, connVars
<1>4. hubUp => \A c \in Conn : reader'[c] \in {"drop", "gone"} =>
                                   reader[c] \in {"drop", "gone"}
    BY <1>3 DEF TypeInv
<1>5. QED
    BY <1>1, <1>2, <1>4 DEF QueueStep

LEMMA QueueStepNet == ASSUME ChannelInv, NetStep PROVE QueueStep
  BY QueueStepConn, QueueStepService DEF NetStep, ChannelInv, Inv

(* After Grows(m), the queues hold what they held and m. *)
LEMMA GrowFacts ==
    ASSUME TypeInv, NEW m \in Msg, Grows(m)
    PROVE  /\ \A s \in Srv : \A i \in DOMAIN msgs[s] :
                  i \in DOMAIN msgs'[s] /\ msgs'[s][i] = msgs[s][i]
           /\ \A s \in Srv : \A i \in DOMAIN msgs'[s] :
                  \/ i \in DOMAIN msgs[s] /\ msgs'[s][i] = msgs[s][i]
                  \/ s = Home(m.from) /\ msgs'[s][i] = m
           /\ \E i \in DOMAIN msgs'[Home(m.from)] : msgs'[Home(m.from)][i] = m
<1> DEFINE s == Home(m.from)
           q == msgs[s]
<1>1. s \in Srv
    BY ConnFacts DEF Grows
<1>2. /\ q \in Seq(Msg) /\ msgs'[s] = Append(q, m)
      /\ \A t \in Srv \ {s} : msgs'[t] = msgs[t]
    BY <1>1 DEF Grows, TypeInv
<1>3. /\ Len(q) \in Nat /\ DOMAIN q = 1..Len(q)
      /\ DOMAIN msgs'[s] = 1..(Len(q) + 1)
      /\ \A i \in 1..Len(q) : msgs'[s][i] = q[i]
      /\ msgs'[s][Len(q) + 1] = m
    BY <1>2, AppendElems
<1>4. Len(q) + 1 \in DOMAIN msgs'[s]
    BY ONLY <1>3
<1>5. \A i \in DOMAIN msgs'[s] : i \in DOMAIN q \/ i = Len(q) + 1
    BY ONLY <1>3
<1>6. \A i \in DOMAIN q : i \in DOMAIN msgs'[s] /\ msgs'[s][i] = q[i]
    BY ONLY <1>3
<1>7. QED
    BY ONLY <1>2, <1>3, <1>4, <1>5, <1>6

(* After TakeMsg(s), the queues hold what they held but the head of s's. *)
LEMMA TakeFacts ==
    ASSUME ChannelInv, NEW s \in Srv, TakeMsg(s)
    PROVE  /\ 1 \in DOMAIN msgs[s] /\ Head(msgs[s]) = msgs[s][1]
           /\ \A i \in DOMAIN msgs'[s] : i + 1 \in DOMAIN msgs[s] /\ 1 < i + 1
                                         /\ msgs'[s][i] = msgs[s][i + 1]
           /\ \A i \in DOMAIN msgs[s] : i # 1 =>
                  i - 1 \in DOMAIN msgs'[s] /\ msgs'[s][i - 1] = msgs[s][i]
           /\ \A t \in Srv : t # s => msgs'[t] = msgs[t]
<1> DEFINE q == msgs[s]
<1>1. /\ q # <<>> /\ q \in Seq(Msg) /\ msgs'[s] = Tail(q)
      /\ \A t \in Srv : t # s => msgs'[t] = msgs[t]
    BY DEF TakeMsg, ChannelInv, Inv, TypeInv
<1>2. 1 \in DOMAIN q /\ Head(q) = q[1] /\ DOMAIN q = 1..Len(q)
    BY <1>1
<1>3. \A i \in DOMAIN Tail(q) : i + 1 \in DOMAIN q /\ Tail(q)[i] = q[i + 1]
    BY <1>1, TailElems
<1>4. \A i \in DOMAIN Tail(q) : 1 < i + 1
    BY <1>1
<1>5. \A i \in DOMAIN q : i # 1 => i - 1 \in DOMAIN Tail(q) /\ Tail(q)[i - 1] = q[i]
    BY <1>1
<1>6. QED
    BY ONLY <1>1, <1>2, <1>3, <1>4, <1>5

-----------------------------------------------------------------------------
(* ClosedQueued, HeardInv and DispatchInv. *)

QueueSeen == ClosedQueued /\ HeardInv /\ DispatchInv

LEMMA SeenNet ==
    ASSUME ChannelInv, TypeInv', HubTypes, QueueSeen, NetStep, UNCHANGED hubVars
    PROVE  QueueSeen'
<1>1. Onward /\ UNCHANGED <<hubUp, dispatched, heard>>
    BY QueueStepNet DEF QueueStep, hubVars
<1>2. TypeInv /\ QueueInv /\ \A c \in Conn : Home(c) \in Srv
    BY ConnFacts DEF ChannelInv, Inv
<1>3. \A c \in Conn : dispatched[c] <= readnum'[c]
  <2> SUFFICES ASSUME NEW c \in Conn PROVE dispatched[c] <= readnum'[c]
      OBVIOUS
  <2>1. readnum[c] \in Nat /\ readnum'[c] \in Nat /\ dispatched[c] \in Nat
      BY <1>2 DEF TypeInv, HubTypes
  <2>2. dispatched[c] <= readnum[c] /\ readnum[c] <= readnum'[c]
      BY <1>1, <2>1 DEF QueueSeen, DispatchInv, Onward
  <2>3. QED
      BY <2>1, <2>2
<1>4. \A c \in heard : reader'[c] \in {"drop", "gone"}
    BY <1>1 DEF QueueSeen, HeardInv, Onward, HubTypes
<1>5. CASE /\ UNCHANGED msgs
           /\ hubUp => \A c \in Conn : reader'[c] \in {"drop", "gone"} =>
                                           reader[c] \in {"drop", "gone"}
    BY <1>1, <1>3, <1>4, <1>5 DEF QueueSeen, ClosedQueued, HeardInv, DispatchInv
<1>6. ASSUME NEW m \in Msg, Grows(m), Stops(m) PROVE QueueSeen'
  <2>1. /\ \A s \in Srv : \A i \in DOMAIN msgs[s] :
                  i \in DOMAIN msgs'[s] /\ msgs'[s][i] = msgs[s][i]
        /\ \A s \in Srv : \A i \in DOMAIN msgs'[s] :
                  \/ i \in DOMAIN msgs[s] /\ msgs'[s][i] = msgs[s][i]
                  \/ s = Home(m.from) /\ msgs'[s][i] = m
        /\ \E i \in DOMAIN msgs'[Home(m.from)] : msgs'[Home(m.from)][i] = m
      BY <1>2, <1>6, GrowFacts
  <2>2. m.from \in Conn /\ m.from \notin heard
      BY <1>6 DEF Grows, QueueSeen, HeardInv
  <2>3. m.kind # "SocketClosed" => dispatched[m.from] < m.seq
    <3>1. /\ readnum[m.from] \in Nat /\ dispatched[m.from] \in Nat /\ m.seq \in Nat
          /\ dispatched[m.from] <= readnum[m.from]
        BY <1>2, <2>2 DEF TypeInv, HubTypes, Msg, QueueSeen, DispatchInv
    <3>2. QED
        BY <1>6, <3>1 DEF Grows
  <2>4. ClosedQueued'
      BY <1>1, <1>2, <1>6, <2>1 DEF QueueSeen, ClosedQueued, Stops
  <2>5. HeardInv'
      BY <1>1, <1>4, <2>1, <2>2 DEF QueueSeen, HeardInv
  <2>6. DispatchInv'
      BY <1>1, <1>3, <2>1, <2>3 DEF QueueSeen, DispatchInv
  <2>7. QED
      BY <2>4, <2>5, <2>6 DEF QueueSeen
<1>7. QED
    BY <1>5, <1>6, QueueStepNet DEF QueueStep

LEMMA SeenTake ==
    ASSUME ChannelInv, HubTypes, QueueSeen, NEW s \in Srv, Dispatch(s) \/ ForgetClosed(s)
    PROVE  QueueSeen'
<1> DEFINE m == msgs[s][1]
<1>1. TakeMsg(s) /\ UNCHANGED <<reader, readnum, hubUp>>
    BY DEF Dispatch, ForgetClosed, TakeMsg
<1>2. /\ 1 \in DOMAIN msgs[s] /\ Head(msgs[s]) = m
      /\ \A i \in DOMAIN msgs'[s] : i + 1 \in DOMAIN msgs[s] /\ 1 < i + 1
                                    /\ msgs'[s][i] = msgs[s][i + 1]
      /\ \A i \in DOMAIN msgs[s] : i # 1 =>
             i - 1 \in DOMAIN msgs'[s] /\ msgs'[s][i - 1] = msgs[s][i]
      /\ \A t \in Srv : t # s => msgs'[t] = msgs[t]
    BY <1>1, TakeFacts
<1>3. /\ m.from \in Conn /\ Home(m.from) = s /\ m.seq <= readnum[m.from]
      /\ m.kind = "SocketClosed" => reader[m.from] \in {"drop", "gone"}
    BY <1>2 DEF ChannelInv, QueueInv
<1>4. \/ /\ m.kind # "SocketClosed" /\ UNCHANGED heard
         /\ dispatched' = [dispatched EXCEPT ![m.from] = m.seq]
      \/ /\ m.kind = "SocketClosed" /\ UNCHANGED dispatched
         /\ heard' = heard \cup {m.from}
    BY <1>2 DEF Dispatch, ForgetClosed
<1>5. ASSUME NEW t \in Srv, NEW i \in DOMAIN msgs'[t]
      PROVE  \E j \in DOMAIN msgs[t] :
                 /\ msgs'[t][i] = msgs[t][j]
                 /\ msgs[t][j].from = m.from =>
                        /\ m.kind # "SocketClosed"
                        /\ msgs[t][j].kind # "SocketClosed" => m.seq < msgs[t][j].seq
  <2>1. CASE t = s
      BY <2>1, <1>2 DEF ChannelInv, QueueOrder
  <2>2. CASE t # s
      BY <2>2, <1>2, <1>3 DEF ChannelInv, QueueInv
  <2>3. QED
      BY <2>1, <2>2
<1>6. ClosedQueued'
  <2> SUFFICES ASSUME hubUp', NEW c \in Conn, reader'[c] \in {"drop", "gone"}, c \notin heard'
               PROVE  \E i \in DOMAIN msgs'[Home(c)] :
                          /\ msgs'[Home(c)][i].from = c
                          /\ msgs'[Home(c)][i].kind = "SocketClosed"
      BY DEF ClosedQueued
  <2>1. c \notin heard /\ Home(c) \in Srv
      BY <1>4, ConnFacts
  <2>2. PICK i \in DOMAIN msgs[Home(c)] : /\ msgs[Home(c)][i].from = c
                                          /\ msgs[Home(c)][i].kind = "SocketClosed"
      BY <1>1, <2>1 DEF QueueSeen, ClosedQueued
  <2>3. ~(Home(c) = s /\ i = 1)
      BY <1>4, <2>1, <2>2
  <2>4. QED
      BY <1>2, <2>1, <2>2, <2>3
<1>7. HeardInv'
  <2>1. \A c \in heard' : reader'[c] \in {"drop", "gone"}
      BY <1>1, <1>3, <1>4 DEF QueueSeen, HeardInv
  <2>2. \A t \in Srv : \A i \in DOMAIN msgs'[t] : msgs'[t][i].from \notin heard'
      BY <1>4, <1>5 DEF QueueSeen, HeardInv
  <2>3. QED
      BY <2>1, <2>2 DEF HeardInv
<1>8. DispatchInv'
  <2>1. dispatched \in [Conn -> Nat]
      BY DEF HubTypes
  <2>2. \A c \in Conn :
            \/ dispatched'[c] = dispatched[c]
            \/ c = m.from /\ m.kind # "SocketClosed" /\ dispatched'[c] = m.seq
      BY <1>4, <2>1
  <2>3. \A c \in Conn : dispatched'[c] <= readnum'[c]
    <3>1. readnum' = readnum /\ \A c \in Conn : dispatched[c] <= readnum[c]
        BY <1>1 DEF QueueSeen, DispatchInv
    <3>2. m.seq <= readnum[m.from]
        BY <1>3
    <3>3. QED
        BY ONLY <2>2, <3>1, <3>2
  <2>4. ASSUME NEW t \in Srv, NEW i \in DOMAIN msgs'[t], msgs'[t][i].kind # "SocketClosed"
        PROVE  dispatched'[msgs'[t][i].from] < msgs'[t][i].seq
    <3>1. PICK j \in DOMAIN msgs[t] :
               /\ msgs'[t][i] = msgs[t][j]
               /\ (msgs[t][j].from = m.from /\ msgs[t][j].kind # "SocketClosed")
                      => m.seq < msgs[t][j].seq
        BY <1>5
    <3>2. msgs[t][j].from \in Conn /\ dispatched[msgs[t][j].from] < msgs[t][j].seq
        BY <2>4, <3>1 DEF ChannelInv, QueueInv, QueueSeen, DispatchInv
    <3>3. CASE msgs[t][j].from = m.from /\ m.kind # "SocketClosed"
      <4>1. dispatched'[m.from] = m.seq \/ dispatched'[m.from] = dispatched[m.from]
          BY <1>3, <2>2
      <4>2. QED
          BY <2>4, <3>1, <3>2, <3>3, <4>1
    <3>4. CASE msgs[t][j].from # m.from \/ m.kind = "SocketClosed"
      <4>1. dispatched'[msgs[t][j].from] = dispatched[msgs[t][j].from]
          BY <2>2, <3>2, <3>4
      <4>2. QED
          BY <3>1, <3>2, <4>1
    <3>5. QED
        BY <3>3, <3>4
  <2>5. QED
      BY <2>3, <2>4 DEF DispatchInv
<1>9. QED
    BY <1>6, <1>7, <1>8 DEF QueueSeen

LEMMA SeenNext ==
    ASSUME ChannelInv, TypeInv', HubTypes, QueueSeen, [HubNext]_allVars PROVE QueueSeen'
<1>1. CASE UNCHANGED <<msgs, reader, readnum, hubUp, dispatched, heard>>
    BY <1>1 DEF QueueSeen, ClosedQueued, HeardInv, DispatchInv
<1>2. CASE Panic
    BY <1>2 DEF Panic, HubDies, QueueSeen, ClosedQueued, HeardInv, DispatchInv
<1>3. CASE NetStep /\ UNCHANGED hubVars
    BY <1>3, SeenNet
<1>4. CASE \E s \in Srv : Dispatch(s) \/ ForgetClosed(s)
    BY <1>4, SeenTake
<1>5. CASE AddTcp \/ AddRpc \/ Tick \/ UNCHANGED allVars
    BY <1>1, <1>5
    DEF AddTcp, AddRpc, TakeChan, Tick, hubVars, allVars, vars, connVars
<1>6. QED
    BY <1>2, <1>3, <1>4, <1>5 DEF HubNext

-----------------------------------------------------------------------------
(* The theorems. *)

LEMMA HubInvInit == HubInit => HubInv
<1>1. HubInit => ChannelInv
    BY ChannelInit DEF HubInit
<1>2. HubInit => /\ HubTypes /\ GsInv /\ TcpNeverLost
                 /\ ClosedQueued /\ HeardInv /\ DispatchInv
    BY ConnAssumption
    DEF HubInit, Init, ConnInit, HubTypes, GsInv, TcpNeverLost, ConnOf, Live,
        ClosedQueued, HeardInv, DispatchInv
<1>3. QED
    BY <1>1, <1>2 DEF HubInv

LEMMA HubInvNext == HubInv /\ [HubNext]_allVars => HubInv' /\ [Next]_vars
<1> SUFFICES ASSUME HubInv, [HubNext]_allVars PROVE HubInv' /\ [Next]_vars
    OBVIOUS
<1>1. TypeInv /\ HalvesInv /\ QueueSeen
    BY DEF HubInv, ChannelInv, Inv, QueueSeen
<1>2. [Next]_vars
    BY <1>1, HubStepRefines DEF HubInv
<1>3. ChannelInv' /\ TypeInv'
    BY <1>2, ChannelNext DEF HubInv, ChannelInv, Inv
<1>4. HubTypes' /\ GsInv' /\ TcpNeverLost'
    BY TypesNext, GsNext, ReachNext DEF HubInv
<1>5. QueueSeen'
    BY <1>1, <1>3, SeenNext DEF HubInv
<1>6. QED
    BY <1>2, <1>3, <1>4, <1>5 DEF HubInv, QueueSeen

LEMMA HubAlways == HubSpec => []HubInv
  BY HubInvInit, HubInvNext, PTL DEF HubSpec

(* The game hub implements the weakest hub (game_hub.rs:22-87): every step  *)
(* of its loop takes what is in a channel or sends to a connection whose    *)
(* sender it has received, and nothing else.                                *)
THEOREM HubRefines == HubSpec => Spec
<1>1. HubInit => Init
    BY DEF HubInit
<1>2. QED
    BY <1>1, HubInvInit, HubInvNext, PTL DEF HubSpec, Spec

(* The registries and the state below them stay well typed. *)
THEOREM HubTypeCorrect == HubSpec => []HubTypeOK
<1>1. HubInv => HubTypeOK
    BY InvImpliesTypeOK DEF HubInv, ChannelInv, HubTypes, HubTypeOK
<1>2. QED
    BY <1>1, HubAlways, PTL

(* A player connection whose writer runs is registered in gs or on its way  *)
(* there, however many connections come and go (game_hub.rs:31-33).         *)
THEOREM PlayersReachable == HubSpec => []TcpNeverLost
<1>1. HubInv => TcpNeverLost
    BY DEF HubInv
<1>2. QED
    BY <1>1, HubAlways, PTL

(* The SocketClosed of a connection reaches the hub or waits for it, and is *)
(* the last message of its connection (service.rs:191-200).                 *)
THEOREM ClosesKept == HubSpec => []CloseNotLost
<1>1. HubInv => CloseNotLost
  <2> SUFFICES ASSUME HubInv, hubUp, NEW c \in Conn
      PROVE  /\ reader[c] \in {"drop", "gone"} =>
                   \/ c \in heard
                   \/ \E i \in DOMAIN msgs[Home(c)] :
                          /\ msgs[Home(c)][i].from = c
                          /\ msgs[Home(c)][i].kind = "SocketClosed"
             /\ c \in heard => \A i \in DOMAIN msgs[Home(c)] : msgs[Home(c)][i].from # c
      BY DEF CloseNotLost
  <2>1. QED
      BY ConnFacts DEF HubInv, ClosedQueued, HeardInv
<1>2. QED
    BY <1>1, HubAlways, PTL

(* The script is given the frames of a connection in the order they were    *)
(* read, none twice, and none after its close (game_hub.rs:40-80).          *)
THEOREM DispatchOrdered == HubSpec => DispatchInOrder
<1> DEFINE A == \A c \in Conn : dispatched'[c] # dispatched[c] =>
                    dispatched'[c] > dispatched[c] /\ c \notin heard
<1>1. HubInv /\ [HubNext]_allVars => [A]_allVars
  <2> SUFFICES ASSUME HubInv, HubNext, NEW c \in Conn, dispatched'[c] # dispatched[c]
               PROVE  dispatched'[c] > dispatched[c] /\ c \notin heard
      OBVIOUS
  <2>1. PICK s \in Srv : Dispatch(s)
      BY DEF HubNext, hubVars, AddTcp, AddRpc, TakeChan, ForgetClosed, Tick, Panic
  <2> DEFINE m == msgs[s][1]
  <2>2. /\ 1 \in DOMAIN msgs[s] /\ m.kind # "SocketClosed"
        /\ dispatched' = [dispatched EXCEPT ![m.from] = m.seq]
      BY <2>1, TakeFacts DEF Dispatch, HubInv
  <2>3. dispatched \in [Conn -> Nat] /\ m.from \in Conn
      BY <2>2 DEF HubInv, HubTypes, ChannelInv, QueueInv
  <2>4. c = m.from /\ dispatched'[c] = m.seq
      BY <2>2, <2>3
  <2>5. dispatched[m.from] < m.seq /\ m.from \notin heard
      BY <2>2 DEF HubInv, DispatchInv, HeardInv
  <2>6. m.seq \in Nat
      BY <2>2, QueueElems DEF HubInv, ChannelInv, Inv
  <2>7. QED
      BY <2>3, <2>4, <2>5, <2>6
<1>2. QED
    BY <1>1, HubAlways, PTL DEF HubSpec, DispatchInOrder

-----------------------------------------------------------------------------
(* The process. *)

(* Whoever has been started and is not over holds a sender, and so does     *)
(* main until it waits, which it does when it has started everybody.        *)
CloserInv ==
    /\ \A t \in Task : Spawned(t) => Over(t) \/ t \in closers
    /\ main = "wait" => up = Len(Tasks)

ProcTypes ==
    /\ main \in {"start", "wait", "ended", "panicked"}
    /\ up \in 0..Len(Tasks)
    /\ clientUp \in BOOLEAN
    /\ closers \subseteq Task \cup {"main"}

(* The inductive invariant. *)
ServerInv == HubInv /\ ProcTypes /\ CloserInv

-----------------------------------------------------------------------------
LEMMA TaskFacts ==
    /\ Len(Tasks) = 4 /\ Tasks[1] = "Tcp" /\ Tasks[2] = "Rpc"
    /\ Tasks[3] = "rpc_client_hub" /\ Tasks[4] = "game_hub"
    /\ Task = {"Tcp", "Rpc", "rpc_client_hub", "game_hub"}
    /\ Srv \subseteq Task
    /\ \A i \in 1..4 : Tasks[i] \in Task
<1>1. Tasks = <<"Tcp", "Rpc", "rpc_client_hub", "game_hub">>
    BY DEF Tasks
<1>2. /\ Len(Tasks) = 4 /\ Tasks[1] = "Tcp" /\ Tasks[2] = "Rpc"
      /\ Tasks[3] = "rpc_client_hub" /\ Tasks[4] = "game_hub" /\ DOMAIN Tasks = 1..4
    BY <1>1
<1>3. 1..4 = {1, 2, 3, 4}
    OBVIOUS
<1>4. Task = {"Tcp", "Rpc", "rpc_client_hub", "game_hub"}
    BY <1>2, <1>3 DEF Task
<1>5. QED
    BY <1>2, <1>3, <1>4, HubAssumption

LEMMA OverIs ==
    /\ \A s \in Srv : Over(s) <=> loop[s] = "stopped"
    /\ Over("rpc_client_hub") <=> ~clientUp
    /\ Over("game_hub") <=> ~hubUp
  BY HubAssumption DEF Over

LEMMA OverIsNext ==
    /\ \A s \in Srv : Over(s)' <=> loop'[s] = "stopped"
    /\ Over("rpc_client_hub")' <=> ~clientUp'
    /\ Over("game_hub")' <=> ~hubUp'
  BY HubAssumption DEF Over

(* Who holds a sender is unchanged as long as nobody is started or ends. *)
LEMMA OverSame ==
    ASSUME UNCHANGED <<loop, hubUp, clientUp>>, NEW t \in Task
    PROVE  Over(t)' = Over(t)
  BY TaskFacts, HubAssumption DEF Over

-----------------------------------------------------------------------------
(* The runtime is dropped: nothing is left that an invariant speaks of. *)

(* The readers that return a permit when they are dropped now: those that   *)
(* hold one, and the one of a loop that waits for a permit.                 *)
Owing(s) == {c \in ConnOf(s) : reader[c] \notin {"none", "gone"}}

LEMMA OwingCard ==
    ASSUME Inv, NEW s \in Srv
    PROVE  permits[s] + Cardinality(Owing(s)) \in {MaxConnection, MaxConnection + 1}
<1>1. /\ IsFiniteSet(Holders(s)) /\ Cardinality(Holders(s)) \in Nat
      /\ permits[s] \in Nat /\ MaxConnection \in Nat
    BY ConnFacts, FS_CardinalityType, ConnAssumption DEF Inv, TypeInv
<1>2. \/ permits[s] + Cardinality(Holders(s)) = MaxConnection
      \/ permits[s] + Cardinality(Holders(s)) = MaxConnection + 1 /\ loop[s] = "stopped"
    BY DEF Inv, PermitAccounting
<1>3. \A c \in ConnOf(s) : reader[c] \in ReaderState /\ Home(c) = s
    BY DEF ConnOf, Inv, TypeInv
<1>4. CASE loop[s] = "acquire"
  <2>1. Cur(s) \in ConnOf(s) /\ reader[Cur(s)] = "built"
      BY <1>4 DEF Inv, LoopInv, ConnOf, Cur, Home
  <2>2. \A c \in ConnOf(s) : reader[c] = "built" => c = Cur(s)
      BY <1>3 DEF Inv, LoopInv, ConnOf
  <2>3. Cur(s) \notin Holders(s) /\ Owing(s) = Holders(s) \cup {Cur(s)}
      BY <1>3, <1>4, <2>1, <2>2 DEF Owing, Holders, ReaderState
  <2>4. Cardinality(Owing(s)) = Cardinality(Holders(s)) + 1
      BY <1>1, <2>3, FS_AddElement
  <2>5. QED
      BY <1>1, <1>2, <1>4, <2>4
<1>5. CASE loop[s] # "acquire"
  <2>1. \A c \in ConnOf(s) : reader[c] = "built" => loop[s] = "register"
      BY <1>3, <1>5 DEF Inv, LoopInv, ConnOf
  <2>2. Owing(s) = Holders(s)
      BY <1>3, <2>1 DEF Owing, Holders, ReaderState
  <2>3. QED
      BY <1>1, <1>2, <2>2
<1>6. QED
    BY <1>4, <1>5

LEMMA DroppedCards ==
    ASSUME RuntimeDropped, HubInv PROVE PermitAccounting' /\ TypeInv' /\ LoopInv'
<1>1. /\ reader' = [c \in Conn |-> IF reader[c] = "none" THEN "none" ELSE "gone"]
      /\ writer' = [c \in Conn |-> IF writer[c] = "none" THEN "none" ELSE "done"]
      /\ inbox' = [c \in Conn |-> <<>>]
      /\ permits' = [s \in Srv |-> permits[s] + Cardinality(Owing(s))]
      /\ notified' = [s \in Srv |-> TRUE]
      /\ loop' = [s \in Srv |-> "stopped"]
      /\ hubUp' = FALSE
      /\ chan' = [s \in Srv |-> <<>>]
      /\ msgs' = [s \in Srv |-> <<>>]
      /\ UNCHANGED <<vfd, readnum, counter, backoff>>
    BY DEF RuntimeDropped, RuntimeDroppedBut, Owing
<1>2. TypeInv
    BY DEF HubInv, ChannelInv, Inv
<1>3. \A c \in Conn : reader'[c] \in {"none", "gone"}
    BY <1>1
<1>4. PermitAccounting'
  <2> SUFFICES ASSUME NEW s \in Srv
               PROVE  /\ permits'[s] + Cardinality(Holders(s)') \in
                             {MaxConnection, MaxConnection + 1}
                      /\ loop'[s] = "stopped"
      BY DEF PermitAccounting
  <2>1. Cardinality(Holders(s)') = 0
    <3>1. Holders(s)' = {}
        BY <1>3 DEF Holders, ConnOf
    <3>2. QED
        BY <3>1, FS_EmptySet
  <2>2. permits'[s] \in {MaxConnection, MaxConnection + 1}
    <3>1. Inv
        BY DEF HubInv, ChannelInv
    <3>2. QED
        BY <1>1, <3>1, OwingCard
  <2>3. loop'[s] = "stopped"
      BY <1>1
  <2>4. QED
      BY <2>1, <2>2, <2>3, ConnAssumption
<1>5. TypeInv'
  <2>1. /\ reader' \in [Conn -> ReaderState] /\ writer' \in [Conn -> WriterState]
        /\ inbox' \in [Conn -> Seq(OutMsg)]
      BY <1>1 DEF ReaderState, WriterState
  <2>6. ASSUME NEW s \in Srv
        PROVE  permits[s] + Cardinality(Owing(s)) \in Nat
    <3>1. Inv
        BY DEF HubInv, ChannelInv
    <3>2. permits[s] + Cardinality(Owing(s)) \in {MaxConnection, MaxConnection + 1}
        BY <3>1, OwingCard
    <3>3. MaxConnection \in Nat
        BY ConnAssumption
    <3>4. QED
        BY <3>2, <3>3
  <2>2. /\ permits' \in [Srv -> Nat] /\ notified' \in [Srv -> BOOLEAN]
        /\ chan' \in [Srv -> Seq(Conn)] /\ msgs' \in [Srv -> Seq(Msg)]
      BY <1>1, <2>6
  <2>3. SvcTypeOK'
      BY <1>1, <1>2 DEF TypeInv, SvcTypeOK, LoopState
  <2>4. vfd' \in [Conn -> Vfd] /\ readnum' \in [Conn -> Nat] /\ hubUp' \in BOOLEAN
      BY <1>1, <1>2 DEF TypeInv
  <2>5. QED
      BY <2>1, <2>2, <2>3, <2>4 DEF TypeInv
<1>6. LoopInv'
    BY <1>1, <1>3 DEF LoopInv
<1>7. QED
    BY <1>4, <1>5, <1>6

LEMMA DroppedHub == ASSUME RuntimeDropped, HubInv PROVE HubInv'
<1>1. PermitAccounting' /\ TypeInv' /\ LoopInv'
    BY DroppedCards
<1>2. /\ reader' = [c \in Conn |-> IF reader[c] = "none" THEN "none" ELSE "gone"]
      /\ writer' = [c \in Conn |-> IF writer[c] = "none" THEN "none" ELSE "done"]
      /\ chan' = [s \in Srv |-> <<>>]
      /\ msgs' = [s \in Srv |-> <<>>]
      /\ ~hubUp' /\ gs' = {} /\ rpc_gs' = {}
      /\ UNCHANGED <<vfd, readnum, dispatched, heard>>
    BY DEF RuntimeDropped, RuntimeDroppedBut
<1>3. /\ HalvesInv /\ HubTypes /\ HeardInv /\ DispatchInv
    BY DEF HubInv, ChannelInv
<1>4. HalvesInv'
    BY <1>2, <1>3 DEF HalvesInv
<1>5. \A s \in Srv : DOMAIN chan'[s] = {} /\ DOMAIN msgs'[s] = {}
    BY <1>2
<1>6. ChanInv' /\ QueueInv' /\ QueueOrder'
    BY <1>5 DEF ChanInv, QueueInv, QueueOrder
<1>7. ChannelInv'
    BY <1>1, <1>4, <1>6 DEF ChannelInv, Inv
<1>8. HubTypes' /\ GsInv' /\ TcpNeverLost' /\ ClosedQueued'
    BY <1>2, <1>3 DEF HubTypes, GsInv, TcpNeverLost, ClosedQueued
<1>9. HeardInv'
  <2>1. \A c \in heard : reader'[c] = "gone"
      BY <1>2, <1>3 DEF HeardInv, HubTypes
  <2>2. QED
      BY <1>2, <1>5, <2>1 DEF HeardInv
<1>10. DispatchInv'
    BY <1>2, <1>3, <1>5 DEF DispatchInv
<1>11. QED
    BY <1>7, <1>8, <1>9, <1>10 DEF HubInv

-----------------------------------------------------------------------------
LEMMA ServerInvInit == ServerInit => ServerInv
<1> SUFFICES ASSUME ServerInit PROVE ServerInv
    OBVIOUS
<1>1. HubInv
    BY HubInvInit DEF ServerInit
<1>2. ProcTypes /\ CloserInv
    BY TaskFacts DEF ServerInit, ProcTypes, CloserInv, Spawned
<1>3. QED
    BY <1>1, <1>2 DEF ServerInv

(* The tasks take the steps they take by themselves. *)
LEMMA HubStays ==
    ASSUME ServerInv, ServerNext, ~MainEnds, ~MainPanics PROVE [HubNext]_allVars
<1>1. CASE Launch \/ MainWaits \/ ClientHubPanics
    BY <1>1 DEF Launch, MainWaits, ClientHubPanics
<1>2. ASSUME NEW s \in Srv, SpawnedService(s) PROVE HubNext
    BY <1>2 DEF SpawnedService, HubNext, NetStep
<1>3. CASE Connections
    BY <1>3 DEF Connections, HubNext, NetStep
<1>4. CASE SpawnedHub
    BY <1>4 DEF SpawnedHub, HubNext
<1>5. QED
    BY <1>1, <1>2, <1>3, <1>4 DEF ServerNext

LEMMA HubKept == ASSUME ServerInv, [ServerNext]_serverVars PROVE HubInv'
<1>1. CASE MainEnds \/ MainPanics
    BY <1>1, DroppedHub DEF ServerInv, MainEnds, MainPanics
<1>2. CASE ServerNext /\ ~MainEnds /\ ~MainPanics
    BY <1>2, HubStays, HubInvNext DEF ServerInv
<1>3. CASE UNCHANGED serverVars
  <2>1. [HubNext]_allVars
      BY <1>3 DEF serverVars
  <2>2. QED
      BY <2>1, HubInvNext DEF ServerInv
<1>4. QED
    BY <1>1, <1>2, <1>3

LEMMA ProcTypesNext == ASSUME ProcTypes, [ServerNext]_serverVars PROVE ProcTypes'
<1>1. CASE Launch
  <2>1. /\ main' = "start" /\ up' = up + 1 /\ closers' = closers \cup {Tasks[up + 1]}
        /\ clientUp' = clientUp
      BY <1>1 DEF Launch
  <2>2. up + 1 \in 1..4 /\ up + 1 \in 0..Len(Tasks)
      BY <1>1, TaskFacts DEF Launch, ProcTypes
  <2>3. Tasks[up + 1] \in Task
      BY <2>2, TaskFacts
  <2>4. QED
      BY <2>1, <2>2, <2>3 DEF ProcTypes
<1>2. CASE MainWaits
    BY <1>2 DEF MainWaits, ProcTypes
<1>3. CASE MainEnds
    BY <1>3 DEF MainEnds, RuntimeDropped, RuntimeDroppedBut, ProcTypes
<1>4. CASE MainPanics
    BY <1>4 DEF MainPanics, RuntimeDropped, RuntimeDroppedBut, ProcTypes
<1>5. ASSUME NEW s \in Srv, SpawnedService(s) PROVE ProcTypes'
    BY <1>5 DEF SpawnedService, Releases, ProcTypes
<1>6. CASE Connections
    BY <1>6 DEF Connections, procVars, ProcTypes
<1>7. CASE SpawnedHub
    BY <1>7 DEF SpawnedHub, Releases, ProcTypes
<1>8. CASE ClientHubPanics
    BY <1>8 DEF ClientHubPanics, Releases, ProcTypes
<1>9. CASE UNCHANGED serverVars
    BY <1>9 DEF serverVars, procVars, ProcTypes
<1>10. QED
    BY <1>1, <1>2, <1>3, <1>4, <1>5, <1>6, <1>7, <1>8, <1>9 DEF ServerNext

(* A task gives its sender up only when it is over. *)
LEMMA ReleaseKeeps ==
    ASSUME CloserInv, NEW u \in Task, Releases(u), UNCHANGED <<main, up>>,
           \A t \in Task : Over(t) => Over(t)'
    PROVE  CloserInv'
<1>1. ASSUME NEW t \in Task, Spawned(t), ~Over(t)' PROVE t \in closers'
  <2>1. t \in closers
      BY <1>1 DEF CloserInv
  <2>2. QED
      BY <1>1, <2>1 DEF Releases
<1>2. \A t \in Task : Spawned(t)' <=> Spawned(t)
    BY DEF Spawned
<1>3. QED
    BY <1>1, <1>2 DEF CloserInv

LEMMA ServiceOvers ==
    ASSUME TypeInv, NEW s \in Srv, ServiceStep(s), UNCHANGED clientUp
    PROVE  \A t \in Task : Over(t) => Over(t)'
<1>1. UNCHANGED hubUp
    BY DEF ServiceStep, Bind, BindFails, Accept, WsAccept, AcceptFails, HandshakeDone,
           HandshakeFails, SplitPanics, Acquire, HandOver, HandOverFails, NewConn, Build,
           AcquirePermit, Register, DropService, StopLoop, connVars
<1>2. loop[s] # "stopped"
    BY DEF ServiceStep, Bind, BindFails, Accept, WsAccept, AcceptFails, HandshakeDone,
           HandshakeFails, SplitPanics, Acquire, HandOver, HandOverFails
<1>3. UNCHANGED loop \/ \E l : Goto(s, l)
    BY DEF ServiceStep, Bind, BindFails, Accept, WsAccept, AcceptFails, HandshakeDone,
           HandshakeFails, SplitPanics, Acquire, HandOver, HandOverFails, NewConn, StopLoop
<1>4. \A t \in Srv : loop[t] = "stopped" => loop'[t] = "stopped"
    BY <1>2, <1>3 DEF Goto, TypeInv, SvcTypeOK
<1>5. QED
    BY <1>1, <1>4, OverIs, OverIsNext, TaskFacts, HubAssumption

LEMMA CloserNext ==
    ASSUME ServerInv, [ServerNext]_serverVars PROVE CloserInv'
<1>0. CloserInv /\ ProcTypes
    BY DEF ServerInv
<1>1. CASE Launch
  <2>1. /\ up' = up + 1 /\ closers' = closers \cup {Tasks[up + 1]} /\ main' = "start"
        /\ UNCHANGED <<loop, hubUp, clientUp>> /\ up \in 0..4
      BY <1>1, <1>0, TaskFacts
      DEF Launch, ProcTypes, allVars, vars, connVars, svcVars
  <2>2. \A t \in Task : Over(t)' = Over(t)
      BY <2>1, OverSame
  <2>3. ASSUME NEW t \in Task, Spawned(t)' PROVE Spawned(t) \/ t = Tasks[up + 1]
      BY <2>1, <2>3 DEF Spawned
  <2>4. QED
      BY <1>0, <2>1, <2>2, <2>3 DEF CloserInv
<1>2. CASE MainWaits
  <2>1. /\ up = Len(Tasks) /\ closers' = closers \ {"main"}
        /\ UNCHANGED <<loop, hubUp, clientUp, up>>
      BY <1>2 DEF MainWaits, allVars, vars, connVars, svcVars
  <2>2. \A t \in Task : (Spawned(t)' <=> Spawned(t)) /\ Over(t)' = Over(t) /\ t # "main"
      BY <2>1, OverSame, TaskFacts DEF Spawned
  <2>3. QED
      BY <1>0, <2>1, <2>2 DEF CloserInv
<1>3. CASE MainEnds \/ MainPanics
  <2>1. /\ loop' = [s \in Srv |-> "stopped"] /\ ~hubUp' /\ ~clientUp' /\ main' # "wait"
      BY <1>3 DEF MainEnds, MainPanics, RuntimeDropped, RuntimeDroppedBut
  <2>2. \A t \in Task : Over(t)'
      BY <2>1, OverIsNext, TaskFacts, HubAssumption
  <2>3. QED
      BY <2>1, <2>2 DEF CloserInv
<1>4. ASSUME NEW s \in Srv, SpawnedService(s) PROVE CloserInv'
  <2>1. /\ ServiceStep(s) /\ Releases(s) /\ UNCHANGED <<main, up, clientUp>> /\ s \in Task
      BY <1>4, TaskFacts DEF SpawnedService
  <2>2. TypeInv
      BY DEF ServerInv, HubInv, ChannelInv, Inv
  <2>3. \A t \in Task : Over(t) => Over(t)'
      BY <2>1, <2>2, ServiceOvers
  <2>4. QED
      BY <1>0, <2>1, <2>3, ReleaseKeeps
<1>5. CASE Connections
  <2>1. UNCHANGED <<loop, hubUp, clientUp, up, main, closers>>
      BY <1>5 DEF Connections, svcVars, procVars, ConnStep, ReadFrame, ReadFails, WsReadFails,
                  ShutdownNotified, LeaveLoop, NotifyClosed, DropReader, WriterRecv,
                  WsWriterRecv, WriteOk, WriteFails, PairDropped, EndWriter
  <2>2. \A t \in Task : (Spawned(t)' <=> Spawned(t)) /\ Over(t)' = Over(t)
      BY <2>1, OverSame DEF Spawned
  <2>3. QED
      BY <1>0, <2>1, <2>2 DEF CloserInv
<1>6. CASE SpawnedHub
  <2>1. UNCHANGED <<loop, clientUp, up, main>> /\ Releases("game_hub") /\ (~hubUp => ~hubUp')
      BY <1>6 DEF SpawnedHub, AddTcp, AddRpc, TakeChan, Dispatch, ForgetClosed, TakeMsg, Tick,
                  Panic, HubDies, svcVars
  <2>2. \A t \in Task : Over(t) => Over(t)'
      BY <2>1, OverIs, OverIsNext, TaskFacts, HubAssumption
  <2>3. QED
      BY <1>0, <2>1, <2>2, ReleaseKeeps, TaskFacts
<1>7. CASE ClientHubPanics
  <2>1. /\ UNCHANGED <<loop, hubUp, up, main>> /\ Releases("rpc_client_hub") /\ ~clientUp'
      BY <1>7 DEF ClientHubPanics, allVars, vars, connVars, svcVars
  <2>2. \A t \in Task : Over(t) => Over(t)'
      BY <2>1, OverIs, OverIsNext, TaskFacts, HubAssumption
  <2>3. QED
      BY <1>0, <2>1, <2>2, ReleaseKeeps, TaskFacts
<1>8. CASE UNCHANGED serverVars
  <2>1. UNCHANGED <<loop, hubUp, clientUp, up, main, closers>>
      BY <1>8 DEF serverVars, procVars, allVars, vars, connVars, svcVars
  <2>2. \A t \in Task : (Spawned(t)' <=> Spawned(t)) /\ Over(t)' = Over(t)
      BY <2>1, OverSame DEF Spawned
  <2>3. QED
      BY <1>0, <2>1, <2>2 DEF CloserInv
<1>9. QED
    BY <1>1, <1>2, <1>3, <1>4, <1>5, <1>6, <1>7, <1>8 DEF ServerNext

LEMMA ServerInvNext == ServerInv /\ [ServerNext]_serverVars => ServerInv'
  BY HubKept, ProcTypesNext, CloserNext DEF ServerInv

LEMMA ServerAlways == ServerSpec => []ServerInv
  BY ServerInvInit, ServerInvNext, PTL DEF ServerSpec

-----------------------------------------------------------------------------
(* The process keeps its types from the first spawn to the end, and also    *)
(* when an unwrap in main or the last sender takes the runtime down         *)
(* (services.rs:24-79).                                                     *)
THEOREM ServerTypeCorrect == ServerSpec => []ServerTypeOK
<1>1. ServerInv => ServerTypeOK
    BY InvImpliesTypeOK
    DEF ServerInv, ProcTypes, HubInv, ChannelInv, HubTypes, HubTypeOK, ServerTypeOK
<1>2. QED
    BY <1>1, ServerAlways, PTL

(* In the whole process no permit of a running service is lost or returned  *)
(* twice, whichever parts are already running; when the process ends, the   *)
(* readers dropped with the runtime return all permits that are out, and    *)
(* one more if the loop was still waiting for one (service.rs:162,          *)
(* read.rs:30-34, services.rs:79).                                          *)
THEOREM ServerPermits == ServerSpec => []PermitAccounting
<1>1. ServerInv => PermitAccounting
    BY DEF ServerInv, HubInv, ChannelInv, Inv
<1>2. QED
    BY <1>1, ServerAlways, PTL

(* Services that accept before the hub is started, and the end of the       *)
(* process, change nothing about what the hub is told: frames of a          *)
(* connection are queued in order, its close behind them, and a player      *)
(* whose writer runs is registered or on the way (services/tcp_hub.rs).     *)
THEOREM ServerChannels == ServerSpec => [](QueueOrder /\ TcpNeverLost)
<1>1. ServerInv => QueueOrder /\ TcpNeverLost
    BY DEF ServerInv, HubInv, ChannelInv
<1>2. QED
    BY <1>1, ServerAlways, PTL

(* main returns only when both accept loops and both hubs are over ("each   *)
(* module's service holds a reference", services.rs:24): a task holds its   *)
(* sender from before it is spawned until it is over, and recv() returns    *)
(* None only when no sender is left.                                        *)
THEOREM ServerEndsLast == ServerSpec => EndsLast
<1>1. ServerInv /\ [ServerNext]_serverVars => [main' = "ended" /\ main # "ended" => AllOver]_serverVars
  <2> SUFFICES ASSUME ServerInv, ServerNext, main' = "ended", main # "ended" PROVE AllOver
      OBVIOUS
  <2>1. MainEnds
      BY DEF ServerNext, Launch, MainWaits, MainPanics, SpawnedService, Connections, procVars,
             SpawnedHub, ClientHubPanics
  <2>2. up = Len(Tasks) /\ closers = {}
      BY <2>1 DEF MainEnds, ServerInv, CloserInv
  <2>3. \A t \in Task : Spawned(t)
      BY <2>2, TaskFacts DEF Spawned
  <2>4. QED
      BY <2>2, <2>3 DEF AllOver, ServerInv, CloserInv
<1>2. QED
    BY <1>1, ServerAlways, PTL DEF ServerSpec, EndsLast
=============================================================================

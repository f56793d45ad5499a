-------------------------- MODULE TcpService_proofs --------------------------
(***************************************************************************)
(* Type correctness and the permit accounting of the services, for every   *)
(* set of connections, every capacity and every number of permits; and     *)
(* what the two channels between a service and its hub contain: each       *)
(* connection is registered once, and the messages of a connection are in  *)
(* order with its SocketClosed behind them, for the weakest hub.           *)
(***************************************************************************)
EXTENDS TcpService, FiniteSetTheorems, SequenceTheorems, TLAPS

(* TypeOK without the upper bound of permits, which is a consequence of the *)
(* accounting and no invariant by itself.                                   *)
TypeInv ==
    /\ reader \in [Conn -> ReaderState]
    /\ writer \in [Conn -> WriterState]
    /\ inbox \in [Conn -> Seq(OutMsg)]
    /\ vfd \in [Conn -> Vfd]
    /\ readnum \in [Conn -> Nat]
    /\ permits \in [Srv -> Nat]
    /\ chan \in [Srv -> Seq(Conn)]
    /\ msgs \in [Srv -> Seq(Msg)]
    /\ notified \in [Srv -> BOOLEAN]
    /\ hubUp \in BOOLEAN
    /\ SvcTypeOK

(* The only connection of a service that is built but not running is the    *)
(* one its loop is busy with.                                               *)
LoopInv ==
    /\ \A s \in Srv : loop[s] \in {"acquire", "register"} =>
                          Cur(s) \in Conn /\ reader[Cur(s)] = "built"
    /\ \A c \in Conn : reader[c] = "built" =>
                          c = Cur(Home(c)) /\ loop[Home(c)] \in {"acquire", "register"}

(* The inductive invariant. *)
Inv == TypeInv /\ LoopInv /\ PermitAccounting

-----------------------------------------------------------------------------
(* Facts about the sets and sequences of the model. *)

LEMMA ConnFacts ==
    /\ \A c \in Conn : Home(c) \in Srv /\ c[2] \in Nat /\ c = <<Home(c), c[2]>>
    /\ \A s \in Srv : IsFiniteSet(Holders(s))
<1>1. \A c \in Conn : Home(c) \in Srv /\ c[2] \in Nat /\ c = <<Home(c), c[2]>>
    BY ConnAssumption DEF Home
<1>2. \A s \in Srv : Holders(s) \subseteq Conn
    BY DEF Holders, ConnOf
<1>3. QED
    BY <1>1, <1>2, ConnAssumption, FS_Subset

LEMMA SeqFacts ==
    ASSUME NEW T, NEW q \in Seq(T), NEW e \in T
    PROVE  /\ Append(q, e) \in Seq(T)
           /\ q # <<>> => Tail(q) \in Seq(T) /\ Head(q) \in T
           /\ <<>> \in Seq(T)
  OBVIOUS

(* One more message in a channel of type [Srv -> Seq(T)]. *)
LEMMA AppendType ==
    ASSUME NEW D, NEW T, NEW f \in [D -> Seq(T)], NEW d \in D, NEW e \in T
    PROVE  [f EXCEPT ![d] = Append(@, e)] \in [D -> Seq(T)]
<1>1. Append(f[d], e) \in Seq(T)
    BY SeqFacts
<1>2. QED
    BY <1>1

(* One message less in such a channel. *)
LEMMA TailType ==
    ASSUME NEW D, NEW T, NEW f \in [D -> Seq(T)], NEW d \in D, f[d] # <<>>
    PROVE  [f EXCEPT ![d] = Tail(@)] \in [D -> Seq(T)]
<1>1. Tail(f[d]) \in Seq(T)
    BY SeqFacts
<1>2. QED
    BY <1>1

(* What try_send leaves in the channels is well typed. *)
LEMMA SentType ==
    ASSUME TypeInv, NEW C \in SUBSET Conn, NEW m \in OutMsg
    PROVE  Sent(C, m) \in [Conn -> Seq(OutMsg)]
  BY SeqFacts DEF TypeInv, Sent

LEMMA HubSendsType == ASSUME TypeInv, HubSends PROVE inbox' \in [Conn -> Seq(OutMsg)]
<1>1. CASE UNCHANGED inbox
    BY <1>1 DEF TypeInv
<1>2. CASE \E c \in Known, k \in {"Tcp", "Rpc"} :
               inbox' = Sent({c}, [kind |-> k, vfd |-> vfd[c]])
  <2>1. PICK c \in Known, k \in {"Tcp", "Rpc"} :
            inbox' = Sent({c}, [kind |-> k, vfd |-> vfd[c]])
      BY <1>2
  <2>2. c \in Conn /\ [kind |-> k, vfd |-> vfd[c]] \in OutMsg
      BY DEF Known, OutMsg, TypeInv
  <2>3. QED
      BY <2>1, <2>2, SentType
<1>3. QED
    BY <1>1, <1>2 DEF HubSends

-----------------------------------------------------------------------------
(* TypeInv is preserved by every step. *)

LEMMA TypeInit == Init => TypeInv
  BY ConnAssumption, SvcAssumption
  DEF Init, ConnInit, SvcInit, TypeInv, SvcTypeOK, ReaderState, WriterState, LoopState

LEMMA TypeConn ==
    ASSUME TypeInv, NEW c \in Conn, ConnStep(c), UNCHANGED svcVars
    PROVE  TypeInv'
<1> USE ConnFacts DEF TypeInv, SvcTypeOK, svcVars, ReaderState, WriterState
<1>1. CASE ReadFrame(c)
  <2> DEFINE f == IF Home(c) \in Ws THEN WsFrame(c) ELSE Frame(c)
  <2>1. f \in Msg
    <3>1. Home(c) \in {"Tcp", "Rpc", "RpcClient", "SocketClosed"}
        BY ConnAssumption
    <3>2. vfd[c] \in Vfd /\ readnum[c] + 1 \in Nat
        OBVIOUS
    <3>3. QED
        BY <3>1, <3>2 DEF Frame, WsFrame, Msg
  <2>2. [msgs EXCEPT ![Home(c)] = Append(@, f)] \in [Srv -> Seq(Msg)]
      BY <2>1, AppendType
  <2>3. msgs' \in [Srv -> Seq(Msg)]
      BY <1>1, <2>2 DEF ReadFrame
  <2>4. reader' \in [Conn -> ReaderState]
      BY <1>1, Zenon DEF ReadFrame
  <2>5. readnum' \in [Conn -> Nat]
      BY <1>1 DEF ReadFrame
  <2>6. QED
      BY <1>1, <2>3, <2>4, <2>5 DEF ReadFrame
<1>2. CASE ReadFails(c) \/ WsReadFails(c) \/ ShutdownNotified(c)
    BY <1>2 DEF ReadFails, WsReadFails, ShutdownNotified, LeaveLoop
<1>3. CASE NotifyClosed(c)
  <2>1. Closed(c) \in Msg
      BY DEF Closed, Msg
  <2>2. [msgs EXCEPT ![Home(c)] = Append(@, Closed(c))] \in [Srv -> Seq(Msg)]
      BY <2>1, AppendType
  <2>3. msgs' \in [Srv -> Seq(Msg)]
      BY <1>3, <2>2 DEF NotifyClosed
  <2>4. QED
      BY <1>3, <2>3 DEF NotifyClosed
<1>4. CASE DropReader(c)
  <2>1. reader' \in [Conn -> ReaderState]
      BY <1>4 DEF DropReader
  <2>2. permits' \in [Srv -> Nat]
      BY <1>4 DEF DropReader
  <2>3. QED
      BY <1>4, <2>1, <2>2 DEF DropReader
<1>5. CASE WriterRecv(c)
  <2>1. inbox' \in [Conn -> Seq(OutMsg)]
      BY <1>5, TailType DEF WriterRecv
  <2>2. writer' \in [Conn -> WriterState]
      BY <1>5 DEF WriterRecv
  <2>3. QED
      BY <1>5, <2>1, <2>2 DEF WriterRecv
<1>6. CASE WsWriterRecv(c)
  <2>1. inbox' \in [Conn -> Seq(OutMsg)]
      BY <1>6, TailType DEF WsWriterRecv
  <2>2. writer' \in [Conn -> WriterState]
      BY <1>6 DEF WsWriterRecv
  <2>3. QED
      BY <1>6, <2>1, <2>2 DEF WsWriterRecv
<1>7. CASE WriteOk(c)
    BY <1>7 DEF WriteOk
<1>8. CASE WriteFails(c) \/ PairDropped(c)
  <2>1. inbox' = [inbox EXCEPT ![c] = <<>>] /\ writer' = [writer EXCEPT ![c] = "done"]
      BY <1>8 DEF WriteFails, PairDropped, EndWriter
  <2>2. inbox' \in [Conn -> Seq(OutMsg)]
      BY <2>1, EmptySeq
  <2>3. writer' \in [Conn -> WriterState]
      BY <2>1
  <2>4. QED
      BY <1>8, <2>2, <2>3 DEF WriteFails, PairDropped, EndWriter
<1>9. QED
    BY <1>1, <1>2, <1>3, <1>4, <1>5, <1>6, <1>7, <1>8 DEF ConnStep

LEMMA TypeService ==
    ASSUME TypeInv, LoopInv, NEW s \in Srv, ServiceStep(s)
    PROVE  TypeInv'
<1> USE SvcAssumption
    DEF TypeInv, SvcTypeOK, ReaderState, WriterState, LoopState, Goto, StopLoop
<1> DEFINE n == NextConn(s)
<1>1. CASE Bind(s) \/ HandshakeFails(s)
    BY <1>1 DEF Bind, HandshakeFails, connVars
<1>2. CASE BindFails(s)
    BY <1>2 DEF BindFails, DropService
<1>3. CASE AcceptFails(s)
  <2>1. CASE backoff[s] <= BackoffLimit /\ backoff' = [backoff EXCEPT ![s] = 2 * @]
             /\ UNCHANGED <<connVars, loop, counter>>
    <3>1. 2 * backoff[s] \in 1..(2 * BackoffLimit)
        BY <2>1
    <3>2. QED
        BY <2>1, <3>1 DEF connVars
  <2>2. CASE DropService(s) /\ StopLoop(s)
      BY <2>2 DEF DropService
  <2>3. QED
      BY <1>3, <2>1, <2>2 DEF AcceptFails
<1>4. ASSUME NewConn(s), backoff' \in [Srv -> 1..(2 * BackoffLimit)]
      PROVE  TypeInv'
  <2>1. n \in Conn /\ counter[s] + 1 \in Vfd
      BY <1>4 DEF NewConn, NextConn
  <2>2. /\ reader' \in [Conn -> ReaderState]
        /\ writer' \in [Conn -> WriterState]
        /\ vfd' \in [Conn -> Vfd]
      BY <1>4, <2>1 DEF NewConn, Build
  <2>3. loop' \in [Srv -> LoopState] /\ counter' \in [Srv -> Nat]
      BY <1>4 DEF NewConn
  <2>4. UNCHANGED <<inbox, readnum, permits, chan, msgs, notified, hubUp>>
      BY <1>4 DEF NewConn, Build
  <2>5. QED
      BY <1>4, <2>2, <2>3, <2>4
<1>5. CASE Accept(s)
  <2>1. backoff' \in [Srv -> 1..(2 * BackoffLimit)]
      BY <1>5 DEF Accept
  <2>2. QED
      BY <1>4, <1>5, <2>1 DEF Accept
<1>10. CASE WsAccept(s)
    BY <1>10 DEF WsAccept, connVars
<1>6. CASE HandshakeDone(s)
    BY <1>4, <1>6 DEF HandshakeDone
<1>7. CASE Acquire(s)
  <2>1. permits[s] - 1 \in Nat
      BY <1>7 DEF Acquire, AcquirePermit
  <2>2. QED
      BY <1>7, <2>1 DEF Acquire, AcquirePermit
<1>8. CASE HandOver(s)
  <2>1. Cur(s) \in Conn /\ Home(Cur(s)) = s
      BY <1>8 DEF HandOver, LoopInv, Cur, Home
  <2>2. QED
      BY <1>8, <2>1, SeqFacts DEF HandOver, Register
<1>9. CASE HandOverFails(s)
  <2>1. permits' \in [Srv -> Nat] /\ notified' \in [Srv -> BOOLEAN]
      BY <1>9 DEF HandOverFails
  <2>2. reader' \in [Conn -> ReaderState] /\ writer' \in [Conn -> WriterState]
      BY <1>9 DEF HandOverFails
  <2>3. QED
      BY <1>9, <2>1, <2>2 DEF HandOverFails
<1>12. CASE SplitPanics(s)
  <2>1. /\ permits' \in [Srv -> Nat] /\ notified' \in [Srv -> BOOLEAN]
        /\ counter' \in [Srv -> Nat]
      BY <1>12 DEF SplitPanics
  <2>2. loop' \in [Srv -> LoopState] /\ backoff' \in [Srv -> 1..(2 * BackoffLimit)]
      BY <1>12 DEF SplitPanics
  <2>3. QED
      BY <1>12, <2>1, <2>2 DEF SplitPanics
<1>11. QED
    BY <1>1, <1>2, <1>3, <1>5, <1>6, <1>7, <1>8, <1>9, <1>10, <1>12 DEF ServiceStep

LEMMA TypeHub == ASSUME TypeInv, HubStep PROVE TypeInv'
<1> USE DEF TypeInv, SvcTypeOK, svcVars
<1>1. ASSUME NEW s \in Srv, HubTakesConn(s) PROVE TypeInv'
  <2>1. chan' \in [Srv -> Seq(Conn)]
      BY <1>1, TailType DEF HubTakesConn
  <2>2. QED
      BY <1>1, <2>1 DEF HubTakesConn
<1>2. ASSUME NEW s \in Srv, HubTakesMsg(s) PROVE TypeInv'
  <2>1. msgs' \in [Srv -> Seq(Msg)]
      BY <1>2, TailType DEF HubTakesMsg
  <2>2. inbox' \in [Conn -> Seq(OutMsg)]
      BY <1>2, HubSendsType DEF HubTakesMsg
  <2>3. QED
      BY <1>2, <2>1, <2>2 DEF HubTakesMsg
<1>3. CASE HubTicks
    BY <1>3, HubSendsType DEF HubTicks
<1>4. CASE HubDies /\ UNCHANGED svcVars
  <2>1. chan' \in [Srv -> Seq(Conn)] /\ msgs' \in [Srv -> Seq(Msg)]
      BY <1>4, EmptySeq DEF HubDies
  <2>2. QED
      BY <1>4, <2>1 DEF HubDies
<1>5. QED
    BY <1>1, <1>2, <1>3, <1>4 DEF HubStep

-----------------------------------------------------------------------------
(* LoopInv is preserved by every step. *)

LEMMA LoopInit == Init => LoopInv
  BY DEF Init, ConnInit, SvcInit, LoopInv

(* The tasks of connections and the hub build no connection and leave none. *)
LEMMA BuiltSame ==
    ASSUME TypeInv, NEW c \in Conn, ConnStep(c)
    PROVE  \A d \in Conn : reader'[d] = "built" <=> reader[d] = "built"
  BY DEF TypeInv, ConnStep, ReadFrame, ReadFails, WsReadFails, ShutdownNotified,
         LeaveLoop, NotifyClosed, DropReader, WriterRecv, WsWriterRecv, WriteOk,
         WriteFails, PairDropped, EndWriter

LEMMA LoopConn ==
    ASSUME TypeInv, LoopInv, NEW c \in Conn, ConnStep(c), UNCHANGED svcVars
    PROVE  LoopInv'
  BY BuiltSame DEF LoopInv, Cur, svcVars

LEMMA LoopService ==
    ASSUME TypeInv, LoopInv, NEW s \in Srv, ServiceStep(s)
    PROVE  LoopInv'
<1> USE ConnFacts DEF TypeInv, SvcTypeOK, LoopInv, Goto, StopLoop, Cur, NextConn
<1>1. ASSUME loop[s] \notin {"acquire", "register"}, UNCHANGED <<reader, counter>>,
             \/ UNCHANGED loop
             \/ \E l \in {"accept", "handshake", "stopped"} : Goto(s, l)
      PROVE  LoopInv'
    BY <1>1
<1>2. CASE \/ Bind(s) \/ BindFails(s) \/ WsAccept(s)
           \/ AcceptFails(s) \/ HandshakeFails(s)
    BY <1>1, <1>2
    DEF Bind, BindFails, WsAccept, AcceptFails, HandshakeFails, DropService, connVars
<1>3. ASSUME loop[s] \notin {"acquire", "register"}, NewConn(s)
      PROVE  LoopInv'
  <2>1. /\ NextConn(s) \in Conn
        /\ reader' = [reader EXCEPT ![NextConn(s)] = "built"]
        /\ counter' = [counter EXCEPT ![s] = @ + 1]
        /\ loop' = [loop EXCEPT ![s] = "acquire"]
      BY <1>3 DEF NewConn, Build
  <2>2. Home(NextConn(s)) = s /\ Cur(s)' = NextConn(s)
      BY <2>1 DEF Home
  <2>3. \A t \in Srv \ {s} : Cur(t)' = Cur(t) /\ Cur(t) # NextConn(s) /\ loop'[t] = loop[t]
      BY <2>1
  <2>4. \A d \in Conn : reader'[d] = "built" <=> reader[d] = "built" \/ d = NextConn(s)
      BY <2>1
  <2>5. loop'[s] = "acquire" /\ \A d \in Conn : reader[d] = "built" => Home(d) # s
      BY <1>3, <2>1
  <2>6. \A t \in Srv : loop'[t] \in {"acquire", "register"} =>
                          Cur(t)' \in Conn /\ reader'[Cur(t)'] = "built"
    <3> SUFFICES ASSUME NEW t \in Srv, loop'[t] \in {"acquire", "register"}
                 PROVE  Cur(t)' \in Conn /\ reader'[Cur(t)'] = "built"
        OBVIOUS
    <3>1. CASE t = s
      <4>1. Cur(t)' = NextConn(s)
          BY <3>1, <2>2
      <4>2. NextConn(s) \in Conn /\ reader'[NextConn(s)] = "built"
          BY <2>1, <2>4
      <4>3. QED
          BY ONLY <4>1, <4>2
    <3>2. CASE t # s
      <4>1. Cur(t)' = Cur(t) /\ loop'[t] = loop[t]
          BY <3>2, <2>3
      <4>2. Cur(t) \in Conn /\ reader[Cur(t)] = "built"
          BY <4>1
      <4>3. reader'[Cur(t)] = "built"
          BY <4>2, <2>4
      <4>4. QED
          BY ONLY <4>1, <4>2, <4>3
    <3>3. QED
        BY <3>1, <3>2
  <2>7. \A d \in Conn : reader'[d] = "built" =>
                d = Cur(Home(d))' /\ loop'[Home(d)] \in {"acquire", "register"}
    <3> SUFFICES ASSUME NEW d \in Conn, reader'[d] = "built"
                 PROVE  d = Cur(Home(d))' /\ loop'[Home(d)] \in {"acquire", "register"}
        OBVIOUS
    <3>1. CASE d = NextConn(s)
        BY <3>1, <2>2, <2>5
    <3>2. CASE d # NextConn(s)
      <4>1. reader[d] = "built" /\ Home(d) \in Srv \ {s}
          BY <3>2, <2>4, <2>5
      <4>2. QED
          BY <4>1, <2>3
    <3>3. QED
        BY <3>1, <3>2
  <2>8. QED
      BY <2>6, <2>7
<1>4. CASE Accept(s)
    BY <1>3, <1>4 DEF Accept
<1>5. CASE HandshakeDone(s)
    BY <1>3, <1>5 DEF HandshakeDone
<1>6. CASE Acquire(s)
    BY <1>6 DEF Acquire, AcquirePermit
<1>7. ASSUME loop[s] = "register", UNCHANGED counter,
             \E r \in {"run", "gone"} : reader' = [reader EXCEPT ![Cur(s)] = r],
             \E l \in {"accept", "stopped"} : Goto(s, l)
      PROVE  LoopInv'
  <2>1. \A t \in Srv \ {s} : Cur(t)' = Cur(t) /\ Cur(t) # Cur(s) /\ loop'[t] = loop[t]
      BY <1>7
  <2>2. Cur(s) \in Conn /\ reader'[Cur(s)] # "built"
      BY <1>7
  <2>3. \A d \in Conn : d # Cur(s) => reader'[d] = reader[d]
      BY <1>7
  <2>4. loop'[s] \notin {"acquire", "register"}
      BY <1>7
  <2>5. \A t \in Srv : loop'[t] \in {"acquire", "register"} =>
                          Cur(t)' \in Conn /\ reader'[Cur(t)'] = "built"
    <3> SUFFICES ASSUME NEW t \in Srv, loop'[t] \in {"acquire", "register"}
                 PROVE  Cur(t)' \in Conn /\ reader'[Cur(t)'] = "built"
        OBVIOUS
    <3>1. t # s
        BY <2>4
    <3>2. Cur(t)' = Cur(t) /\ Cur(t) # Cur(s) /\ loop'[t] = loop[t]
        BY <3>1, <2>1
    <3>3. Cur(t) \in Conn /\ reader[Cur(t)] = "built"
        BY <3>2
    <3>4. QED
        BY ONLY <3>2, <3>3, <2>3
  <2>6. \A d \in Conn : reader'[d] = "built" => Home(d) # s
    <3> SUFFICES ASSUME NEW d \in Conn, reader'[d] = "built" PROVE Home(d) # s
        OBVIOUS
    <3>1. d # Cur(s) /\ reader'[d] = reader[d]
        BY <2>2, <2>3
    <3>2. d = Cur(Home(d))
        BY <3>1
    <3>3. QED
        BY ONLY <3>1, <3>2
  <2>7. \A d \in Conn : reader'[d] = "built" =>
                d = Cur(Home(d))' /\ loop'[Home(d)] \in {"acquire", "register"}
      BY <2>1, <2>2, <2>3, <2>6
  <2>8. QED
      BY <2>5, <2>7
<1>8. CASE HandOver(s)
    BY <1>7, <1>8 DEF HandOver, Register
<1>9. CASE HandOverFails(s)
    BY <1>7, <1>9 DEF HandOverFails
<1>11. CASE SplitPanics(s)
  <2>1. /\ \A c \in Conn : reader'[c] = "none"
        /\ loop' = [loop EXCEPT ![s] = "stopped"]
        /\ counter' = [counter EXCEPT ![s] = @ + 1]
      BY <1>11 DEF SplitPanics
  <2>2. \A t \in Srv : loop[t] \notin {"acquire", "register"}
      BY <1>11 DEF SplitPanics
  <2>3. \A t \in Srv : loop'[t] \notin {"acquire", "register"}
      BY <2>1, <2>2
  <2>4. QED
      BY <2>1, <2>3
<1>10. QED
    BY <1>2, <1>4, <1>5, <1>6, <1>8, <1>9, <1>11 DEF ServiceStep

LEMMA LoopHub == ASSUME LoopInv, HubStep PROVE LoopInv'
  BY DEF LoopInv, Cur, HubStep, HubTakesConn, HubTakesMsg, HubTicks, HubDies, svcVars

-----------------------------------------------------------------------------
(* PermitAccounting is preserved by every step: each step that changes      *)
(* permits moves one connection into or out of Holders.                     *)

LEMMA AccountInit == Init => PermitAccounting
<1> SUFFICES ASSUME Init, NEW s \in Srv
             PROVE  permits[s] + Cardinality(Holders(s)) = MaxConnection
    BY DEF PermitAccounting
<1>1. Holders(s) = {}
    BY DEF Init, ConnInit, SvcInit, Holders, ConnOf
<1>2. QED
    BY <1>1, FS_EmptySet, ConnAssumption DEF Init, ConnInit

(* An ended loop does not start again. *)
StayStopped == \A s \in Srv : loop[s] = "stopped" => loop'[s] = "stopped"

LEMMA StayStoppedService ==
    ASSUME TypeInv, NEW s \in Srv, ServiceStep(s) PROVE StayStopped
  BY DEF TypeInv, SvcTypeOK, StayStopped, ServiceStep, Bind, BindFails, Accept, WsAccept,
         AcceptFails, HandshakeDone, HandshakeFails, SplitPanics, NewConn, Acquire,
         HandOver, HandOverFails, Goto, StopLoop

(* A step that leaves the total of each service as it was. *)
LEMMA AccountKept ==
    ASSUME PermitAccounting, StayStopped,
           \A s \in Srv : permits'[s] + Cardinality(Holders(s)')
                             = permits[s] + Cardinality(Holders(s))
    PROVE  PermitAccounting'
  BY DEF PermitAccounting, StayStopped

LEMMA AccountSame ==
    ASSUME PermitAccounting, StayStopped, UNCHANGED permits,
           \A s \in Srv : Holders(s)' = Holders(s)
    PROVE  PermitAccounting'
  BY AccountKept

LEMMA AccountTake ==
    ASSUME Inv, StayStopped, NEW s \in Srv, NEW c \in Conn, c \notin Holders(s),
           permits' = [permits EXCEPT ![s] = @ - 1],
           Holders(s)' = Holders(s) \cup {c},
           \A t \in Srv \ {s} : Holders(t)' = Holders(t)
    PROVE  PermitAccounting'
<1>1. Cardinality(Holders(s)') = Cardinality(Holders(s)) + 1
    BY ConnFacts, FS_AddElement
<1>2. \A t \in Srv : Cardinality(Holders(t)) \in Nat
    BY ConnFacts, FS_CardinalityType
<1>3. permits'[s] + Cardinality(Holders(s)') = permits[s] + Cardinality(Holders(s))
    BY <1>1, <1>2 DEF Inv, TypeInv
<1>4. \A t \in Srv \ {s} : permits'[t] + Cardinality(Holders(t)')
                               = permits[t] + Cardinality(Holders(t))
    BY DEF Inv, TypeInv
<1>5. QED
    BY <1>3, <1>4, AccountKept DEF Inv

LEMMA AccountReturn ==
    ASSUME Inv, StayStopped, NEW s \in Srv, NEW c \in Conn, c \in Holders(s),
           permits' = [permits EXCEPT ![s] = @ + 1],
           Holders(s)' = Holders(s) \ {c},
           \A t \in Srv \ {s} : Holders(t)' = Holders(t)
    PROVE  PermitAccounting'
<1>1. Cardinality(Holders(s)') = Cardinality(Holders(s)) - 1
    BY ConnFacts, FS_RemoveElement
<1>2. \A t \in Srv : Cardinality(Holders(t)) \in Nat
    BY ConnFacts, FS_CardinalityType
<1>3. permits'[s] + Cardinality(Holders(s)') = permits[s] + Cardinality(Holders(s))
    BY <1>1, <1>2 DEF Inv, TypeInv
<1>4. \A t \in Srv \ {s} : permits'[t] + Cardinality(Holders(t)')
                               = permits[t] + Cardinality(Holders(t))
    BY DEF Inv, TypeInv
<1>5. QED
    BY <1>3, <1>4, AccountKept DEF Inv

(* The extra permit of a loop that ends with a reader that has taken none. *)
LEMMA AccountExtra ==
    ASSUME Inv, StayStopped, NEW s \in Srv, loop[s] # "stopped", loop'[s] = "stopped",
           permits' = [permits EXCEPT ![s] = @ + 1],
           \A t \in Srv : Holders(t)' = Holders(t)
    PROVE  PermitAccounting'
<1>1. Cardinality(Holders(s)) \in Nat /\ MaxConnection \in Nat
    BY ConnFacts, FS_CardinalityType, ConnAssumption
<1>2. permits[s] + Cardinality(Holders(s)) = MaxConnection
    BY DEF Inv, PermitAccounting
<1>3. permits'[s] + Cardinality(Holders(s)') = MaxConnection + 1
    BY <1>1, <1>2 DEF Inv, TypeInv
<1>4. \A t \in Srv \ {s} : permits'[t] + Cardinality(Holders(t)')
                               = permits[t] + Cardinality(Holders(t))
    BY DEF Inv, TypeInv
<1>5. QED
    BY <1>3, <1>4 DEF Inv, PermitAccounting, StayStopped

LEMMA AccountConn ==
    ASSUME Inv, NEW c \in Conn, ConnStep(c), UNCHANGED svcVars
    PROVE  PermitAccounting'
<1> USE DEF Inv, TypeInv, Holders, ConnOf, svcVars
<1>0. StayStopped
    BY DEF StayStopped
<1>1. CASE ReadFrame(c)
  <2>1. /\ UNCHANGED <<permits, loop>>
        /\ \/ UNCHANGED reader
           \/ reader[c] = "run" /\ reader' = [reader EXCEPT ![c] = "notify"]
      BY <1>1 DEF ReadFrame
  <2>2. \A s \in Srv : Holders(s)' = Holders(s)
      BY <2>1
  <2>3. QED
      BY <1>0, <2>1, <2>2, AccountSame
<1>2. CASE ReadFails(c) \/ WsReadFails(c) \/ ShutdownNotified(c)
    BY <1>0, <1>2, AccountSame DEF ReadFails, WsReadFails, ShutdownNotified, LeaveLoop
<1>3. CASE NotifyClosed(c)
    BY <1>0, <1>3, AccountSame DEF NotifyClosed
<1>4. CASE DropReader(c)
  <2>1. /\ reader[c] = "drop" /\ reader' = [reader EXCEPT ![c] = "gone"]
        /\ permits' = [permits EXCEPT ![Home(c)] = @ + 1]
        /\ UNCHANGED loop
      BY <1>4 DEF DropReader
  <2>2. c \in Holders(Home(c)) /\ Holders(Home(c))' = Holders(Home(c)) \ {c}
      BY <2>1
  <2>3. \A t \in Srv \ {Home(c)} : Holders(t)' = Holders(t)
      BY <2>1
  <2>4. Home(c) \in Srv /\ c \in Holders(Home(c))
      BY <2>2, ConnFacts
  <2>5. Inv
      OBVIOUS
  <2>6. QED
      BY ONLY <2>1, <2>2, <2>3, <2>4, <2>5, <1>0, AccountReturn
<1>5. CASE WriterRecv(c) \/ WsWriterRecv(c) \/ WriteOk(c) \/ WriteFails(c) \/ PairDropped(c)
    BY <1>0, <1>5, AccountSame
    DEF WriterRecv, WsWriterRecv, WriteOk, WriteFails, PairDropped, EndWriter
<1>6. QED
    BY <1>1, <1>2, <1>3, <1>4, <1>5 DEF ConnStep

LEMMA AccountService ==
    ASSUME Inv, NEW s \in Srv, ServiceStep(s)
    PROVE  PermitAccounting'
<1> USE ConnFacts
    DEF Inv, TypeInv, SvcTypeOK, LoopInv, Holders, ConnOf, Cur, Goto, StopLoop
<1>0. StayStopped
    BY StayStoppedService
<1>1. ASSUME loop[s] # "register", UNCHANGED <<reader, permits>>,
             \/ UNCHANGED loop
             \/ \E l \in {"accept", "handshake", "stopped"} : Goto(s, l)
      PROVE  PermitAccounting'
  <2>1. \A t \in Srv : Holders(t)' = Holders(t)
      BY <1>1
  <2>2. PermitAccounting /\ UNCHANGED permits
      BY <1>1
  <2>3. QED
      BY ONLY <1>0, <2>1, <2>2, AccountSame
<1>2. CASE \/ Bind(s) \/ BindFails(s) \/ WsAccept(s)
           \/ AcceptFails(s) \/ HandshakeFails(s)
    BY <1>1, <1>2
    DEF Bind, BindFails, WsAccept, AcceptFails, HandshakeFails, DropService, connVars
<1>3. ASSUME loop[s] \notin {"acquire", "register"}, NewConn(s)
      PROVE  PermitAccounting'
  <2>1. /\ NextConn(s) \in Conn /\ Home(NextConn(s)) = s
        /\ reader[NextConn(s)] = "none"
        /\ reader' = [reader EXCEPT ![NextConn(s)] = "built"]
        /\ loop' = [loop EXCEPT ![s] = "acquire"]
        /\ UNCHANGED permits
      BY <1>3 DEF NewConn, Build, NextConn, Home
  <2>2. reader'[NextConn(s)] = "built" /\ loop'[s] = "acquire"
      BY <2>1
  <2>3. \A d \in Conn \ {NextConn(s)} : reader'[d] = reader[d]
      BY <2>1
  <2>4. \A t \in Srv \ {s} : loop'[t] = loop[t]
      BY <2>1
  <2>5. \A t \in Srv : Holders(t)' = Holders(t)
    <3>1. Holders(s)' = Holders(s)
        BY <1>3, <2>1, <2>2, <2>3
    <3>2. \A t \in Srv \ {s} : Holders(t)' = Holders(t)
        BY ONLY <2>1, <2>3, <2>4 DEF Holders, ConnOf
    <3>3. QED
        BY ONLY <3>1, <3>2
  <2>6. QED
      BY <1>0, <2>1, <2>5, AccountSame
<1>4. CASE Accept(s)
    BY <1>3, <1>4 DEF Accept
<1>5. CASE HandshakeDone(s)
    BY <1>3, <1>5 DEF HandshakeDone
<1>6. CASE Acquire(s)
  <2>1. /\ loop[s] = "acquire" /\ loop' = [loop EXCEPT ![s] = "register"]
        /\ permits' = [permits EXCEPT ![s] = @ - 1]
        /\ UNCHANGED <<reader, counter>>
      BY <1>6 DEF Acquire, AcquirePermit
  <2>2. Cur(s) \in Conn /\ Home(Cur(s)) = s /\ reader[Cur(s)] = "built"
      BY <2>1 DEF Home
  <2>3. Cur(s) \notin Holders(s) /\ Holders(s)' = Holders(s) \cup {Cur(s)}
      BY <2>1, <2>2
  <2>4. \A t \in Srv \ {s} : Holders(t)' = Holders(t)
      BY <2>1
  <2>5. Inv
      OBVIOUS
  <2>6. QED
      BY ONLY <2>1, <2>2, <2>3, <2>4, <2>5, <1>0, AccountTake
<1>7. CASE HandOver(s)
  <2>1. /\ loop[s] = "register" /\ loop' = [loop EXCEPT ![s] = "accept"]
        /\ reader' = [reader EXCEPT ![Cur(s)] = "run"]
        /\ UNCHANGED permits
      BY <1>7 DEF HandOver, Register
  <2>2. Cur(s) \in Conn /\ Home(Cur(s)) = s /\ reader[Cur(s)] = "built"
      BY <2>1 DEF Home
  <2>3. Holders(s)' = Holders(s)
      BY <2>1, <2>2
  <2>4. \A t \in Srv \ {s} : Holders(t)' = Holders(t)
      BY <2>1, <2>2
  <2>5. \A t \in Srv : Holders(t)' = Holders(t)
      BY ONLY <2>3, <2>4
  <2>6. (UNCHANGED permits) /\ PermitAccounting
      BY <2>1
  <2>7. QED
      BY ONLY <1>0, <2>5, <2>6, AccountSame
<1>8. CASE HandOverFails(s)
  <2>1. /\ loop[s] = "register" /\ loop' = [loop EXCEPT ![s] = "stopped"]
        /\ reader' = [reader EXCEPT ![Cur(s)] = "gone"]
        /\ permits' = [permits EXCEPT ![s] = @ + 1]
      BY <1>8 DEF HandOverFails
  <2>2. Cur(s) \in Conn /\ Home(Cur(s)) = s /\ reader[Cur(s)] = "built"
      BY <2>1 DEF Home
  <2>3. Cur(s) \in Holders(s) /\ Holders(s)' = Holders(s) \ {Cur(s)}
      BY <2>1, <2>2
  <2>4. \A t \in Srv \ {s} : Holders(t)' = Holders(t)
      BY <2>1, <2>2
  <2>5. Inv
      OBVIOUS
  <2>6. QED
      BY ONLY <2>1, <2>2, <2>3, <2>4, <2>5, <1>0, AccountReturn
<1>9. CASE SplitPanics(s)
  <2>1. /\ loop[s] \notin {"register", "stopped"}
        /\ loop' = [loop EXCEPT ![s] = "stopped"]
        /\ permits' = [permits EXCEPT ![s] = @ + 1]
        /\ UNCHANGED reader
      BY <1>9 DEF SplitPanics
  <2>2. \A t \in Srv : Holders(t)' = Holders(t)
      BY <2>1
  <2>3. loop[s] # "stopped" /\ loop'[s] = "stopped"
      BY <2>1
  <2>4. Inv
      OBVIOUS
  <2>5. QED
      BY ONLY <1>0, <2>1, <2>2, <2>3, <2>4, AccountExtra, s \in Srv
<1>10. QED
    BY <1>2, <1>4, <1>5, <1>6, <1>7, <1>8, <1>9 DEF ServiceStep

LEMMA AccountHub == ASSUME PermitAccounting, HubStep PROVE PermitAccounting'
<1>1. UNCHANGED <<reader, loop, permits>>
    BY DEF HubStep, HubTakesConn, HubTakesMsg, HubTicks, HubDies, svcVars
<1>2. QED
    BY <1>1, AccountSame DEF Holders, ConnOf, StayStopped

-----------------------------------------------------------------------------
(* The theorems. *)

LEMMA InvInit == Init => Inv
  BY TypeInit, LoopInit, AccountInit DEF Inv

LEMMA InvNext == Inv /\ [Next]_vars => Inv'
<1> SUFFICES ASSUME Inv, [Next]_vars PROVE Inv'
    OBVIOUS
<1>1. ASSUME NEW s \in Srv, ServiceStep(s) PROVE Inv'
    BY <1>1, TypeService, LoopService, AccountService DEF Inv
<1>2. ASSUME NEW c \in Conn, ConnStep(c), UNCHANGED svcVars PROVE Inv'
    BY <1>2, TypeConn, LoopConn, AccountConn DEF Inv
<1>3. CASE HubStep
    BY <1>3, TypeHub, LoopHub, AccountHub DEF Inv
<1>4. CASE UNCHANGED vars
  <2>1. /\ UNCHANGED permits
        /\ \A s \in Srv : Holders(s)' = Holders(s)
        /\ StayStopped
      BY <1>4 DEF vars, connVars, svcVars, Holders, ConnOf, StayStopped
  <2>2. QED
      BY <1>4, <2>1, AccountSame
      DEF Inv, TypeInv, SvcTypeOK, LoopInv, Cur, vars, connVars, svcVars
<1>5. QED
    BY <1>1, <1>2, <1>3, <1>4 DEF Next, NetStep

LEMMA InvImpliesTypeOK == Inv => TypeOK
<1> SUFFICES ASSUME Inv PROVE TypeOK
    OBVIOUS
<1>1. \A s \in Srv : permits[s] \in 0..(MaxConnection + 1)
  <2>1. \A s \in Srv : Cardinality(Holders(s)) \in Nat
      BY ConnFacts, FS_CardinalityType
  <2>2. \A s \in Srv : permits[s] + Cardinality(Holders(s)) \in
                          {MaxConnection, MaxConnection + 1}
      BY DEF Inv, PermitAccounting
  <2>3. (\A s \in Srv : permits[s] \in Nat) /\ MaxConnection \in Nat
      BY ConnAssumption DEF Inv, TypeInv
  <2>4. QED
      BY ONLY <2>1, <2>2, <2>3
<1>2. QED
    BY <1>1 DEF Inv, TypeInv, TypeOK, ConnTypeOK

(* No sequence of accepts, closes, hub deaths and shutdowns loses a permit  *)
(* of a service whose loop runs or returns one twice (service.rs:162,       *)
(* read.rs:30-34); a loop that has ended has returned at most one too many. *)
THEOREM PermitsBalance == Spec => []PermitAccounting
<1>1. Inv => PermitAccounting
    BY DEF Inv
<1>2. QED
    BY InvInit, InvNext, <1>1, PTL DEF Spec

(* Every reachable state is well typed; in particular a service never has   *)
(* more permits than max_connection and the one of a reader that took none  *)
(* (service.rs:144, 162), nor fewer than none.                              *)
THEOREM TypeCorrect == Spec => []TypeOK
  BY InvInit, InvNext, InvImpliesTypeOK, PTL DEF Spec

LEMMA DelayNext == Inv /\ DelayStartsOver /\ [Next]_vars => DelayStartsOver'
<1> SUFFICES ASSUME Inv, DelayStartsOver, [Next]_vars PROVE DelayStartsOver'
    OBVIOUS
<1> USE DEF Inv, TypeInv, SvcTypeOK, DelayStartsOver
<1>1. ASSUME NEW s \in Srv, ServiceStep(s) PROVE DelayStartsOver'
  <2>1. CASE UNCHANGED <<loop, backoff>>
      BY <2>1
  <2>2. ASSUME loop' = [loop EXCEPT ![s] = "accept"] \/ loop' = [loop EXCEPT ![s] = "stopped"],
               UNCHANGED backoff \/ backoff' = [backoff EXCEPT ![s] = 1]
        PROVE  DelayStartsOver'
      BY <2>2
  <2>3. ASSUME NEW l \in LoopState, loop' = [loop EXCEPT ![s] = l],
               backoff' = [backoff EXCEPT ![s] = 1]
        PROVE  DelayStartsOver'
      BY <2>3
  <2>4. CASE Bind(s) \/ BindFails(s) \/ HandshakeFails(s) \/ SplitPanics(s)
             \/ HandOver(s) \/ HandOverFails(s)
      BY <2>2, <2>4
      DEF Bind, BindFails, HandshakeFails, SplitPanics, HandOver, HandOverFails,
          Goto, StopLoop
  <2>5. CASE Accept(s) \/ WsAccept(s)
      BY <2>3, <2>5 DEF Accept, WsAccept, NewConn, Goto, LoopState
  <2>6. CASE AcceptFails(s)
    <3>1. CASE loop[s] = "accept" /\ backoff' = [backoff EXCEPT ![s] = 2 * @] /\ UNCHANGED loop
        BY <3>1
    <3>2. QED
        BY <2>2, <2>6, <3>1 DEF AcceptFails, StopLoop, Goto
  <2>7. CASE HandshakeDone(s) \/ Acquire(s)
    <3>1. /\ loop[s] \in {"handshake", "acquire"} /\ UNCHANGED backoff
          /\ \E l \in LoopState : loop' = [loop EXCEPT ![s] = l]
        BY <2>7 DEF HandshakeDone, Acquire, NewConn, Goto, LoopState
    <3>2. QED
        BY <3>1
  <2>8. QED
      BY <1>1, <2>4, <2>5, <2>6, <2>7 DEF ServiceStep
<1>2. CASE UNCHANGED svcVars
    BY <1>2 DEF svcVars
<1>3. QED
    BY <1>1, <1>2
    DEF Next, NetStep, HubStep, HubTakesConn, HubTakesMsg, HubTicks, svcVars, vars

(* Whatever failures came before, a connection accepted leaves the delay of *)
(* the next attempt at its start (service.rs:108): the failures that end a  *)
(* service are a row of them.                                               *)
THEOREM DelayRestarts == Spec => []DelayStartsOver
<1>1. Init => DelayStartsOver
    BY DEF Init, SvcInit, DelayStartsOver
<1>2. QED
    BY InvInit, InvNext, DelayNext, <1>1, PTL DEF Spec

-----------------------------------------------------------------------------
(* The channels. *)

(* The two halves are built together, under the number of the connection. *)
HalvesInv ==
    \A c \in Conn : /\ reader[c] = "none" <=> writer[c] = "none"
                    /\ reader[c] = "built" <=> writer[c] = "built"
                    /\ writer[c] # "none" => vfd[c] = c[2]

(* The channel of connections holds running connections of its service,     *)
(* each at most once.                                                       *)
ChanInv ==
    \A s \in Srv :
        /\ \A i \in DOMAIN chan[s] : /\ Home(chan[s][i]) = s
                                     /\ writer[chan[s][i]] \notin {"none", "built"}
        /\ \A i, j \in DOMAIN chan[s] : chan[s][i] = chan[s][j] => i = j

(* A queued message is of its own service's connection and was read before  *)
(* now, and a SocketClosed is queued only when its reader will send nothing *)
(* more.                                                                    *)
QueueInv ==
    \A s \in Srv : \A i \in DOMAIN msgs[s] :
        /\ msgs[s][i].from \in Conn /\ Home(msgs[s][i].from) = s
        /\ msgs[s][i].seq <= readnum[msgs[s][i].from]
        /\ msgs[s][i].kind = "SocketClosed" => reader[msgs[s][i].from] \in {"drop", "gone"}

(* The inductive invariant. *)
ChannelInv == Inv /\ HalvesInv /\ ChanInv /\ QueueInv /\ QueueOrder

-----------------------------------------------------------------------------
(* Facts about sequences. *)

LEMMA AppendElems ==
    ASSUME NEW T, NEW q \in Seq(T), NEW e \in T
    PROVE  /\ Len(q) \in Nat /\ DOMAIN q = 1..Len(q)
           /\ DOMAIN Append(q, e) = 1..(Len(q) + 1)
           /\ \A i \in 1..Len(q) : Append(q, e)[i] = q[i]
           /\ Append(q, e)[Len(q) + 1] = e
  OBVIOUS

LEMMA TailElems ==
    ASSUME NEW T, NEW q \in Seq(T), q # <<>>
    PROVE  /\ \A i \in DOMAIN Tail(q) : i + 1 \in DOMAIN q /\ Tail(q)[i] = q[i + 1]
           /\ DOMAIN Tail(q) \subseteq Nat
  OBVIOUS

-----------------------------------------------------------------------------
(* HalvesInv. *)

LEMMA HalvesConn ==
    ASSUME TypeInv, HalvesInv, NEW c \in Conn, ConnStep(c)
    PROVE  HalvesInv'
<1> USE DEF TypeInv, HalvesInv
<1>1. UNCHANGED vfd
    BY DEF ConnStep, ReadFrame, ReadFails, WsReadFails, ShutdownNotified,
         LeaveLoop, NotifyClosed, DropReader, WriterRecv, WsWriterRecv, WriteOk,
         WriteFails, PairDropped, EndWriter
<1>2. \/ UNCHANGED <<writer, reader>>
      \/ /\ UNCHANGED writer
         /\ reader[c] \notin {"none", "built"}
         /\ \E r \in {"notify", "drop", "gone"} : reader' = [reader EXCEPT ![c] = r]
      \/ /\ UNCHANGED reader
         /\ writer[c] \notin {"none", "built"}
         /\ \E w \in {"run", "write", "done"} : writer' = [writer EXCEPT ![c] = w]
    BY DEF ConnStep, ReadFrame, ReadFails, WsReadFails, ShutdownNotified,
         LeaveLoop, NotifyClosed, DropReader, WriterRecv, WsWriterRecv, WriteOk,
         WriteFails, PairDropped, EndWriter
<1>3. QED
    BY <1>1, <1>2

LEMMA HalvesService ==
    ASSUME TypeInv, LoopInv, HalvesInv, NEW s \in Srv, ServiceStep(s)
    PROVE  HalvesInv'
<1> USE DEF TypeInv, HalvesInv
<1>1. CASE UNCHANGED <<reader, writer, vfd>>
    BY <1>1
<1>2. ASSUME NewConn(s) PROVE HalvesInv'
  <2>1. /\ NextConn(s) \in Conn /\ NextConn(s)[2] = counter[s] + 1
        /\ reader' = [reader EXCEPT ![NextConn(s)] = "built"]
        /\ writer' = [writer EXCEPT ![NextConn(s)] = "built"]
        /\ vfd' = [vfd EXCEPT ![NextConn(s)] = counter[s] + 1]
      BY <1>2 DEF NewConn, Build, NextConn
  <2>2. QED
      BY ONLY <2>1, HalvesInv, TypeInv DEF HalvesInv, TypeInv
<1>3. ASSUME loop[s] = "register", UNCHANGED vfd,
             \E r \in {"run", "gone"}, w \in {"run", "done"} :
                 /\ reader' = [reader EXCEPT ![Cur(s)] = r]
                 /\ writer' = [writer EXCEPT ![Cur(s)] = w]
      PROVE  HalvesInv'
  <2>1. Cur(s) \in Conn /\ reader[Cur(s)] = "built" /\ writer[Cur(s)] = "built"
      BY <1>3 DEF LoopInv
  <2>2. QED
      BY <1>3, <2>1
<1>4. CASE HandOver(s)
    BY <1>3, <1>4 DEF HandOver, Register
<1>5. CASE HandOverFails(s)
    BY <1>3, <1>5 DEF HandOverFails, StopLoop
<1>6. CASE Accept(s) \/ HandshakeDone(s)
    BY <1>2, <1>6 DEF Accept, HandshakeDone
<1>7. CASE \/ Bind(s) \/ BindFails(s) \/ WsAccept(s) \/ AcceptFails(s)
           \/ HandshakeFails(s) \/ Acquire(s) \/ SplitPanics(s)
    BY <1>1, <1>7
    DEF Bind, BindFails, WsAccept, AcceptFails, HandshakeFails, Acquire, AcquirePermit,
        SplitPanics, DropService, connVars
<1>8. QED
    BY <1>4, <1>5, <1>6, <1>7 DEF ServiceStep

LEMMA HalvesHub == ASSUME HalvesInv, HubStep PROVE HalvesInv'
  BY DEF HalvesInv, HubStep, HubTakesConn, HubTakesMsg, HubTicks, HubDies

-----------------------------------------------------------------------------
(* ChanInv. *)

(* A step that leaves the channels and lets no running writer be forgotten. *)
LEMMA ChanSame ==
    ASSUME ChanInv, UNCHANGED chan, TypeInv,
           \A c \in Conn : writer[c] \notin {"none", "built"} =>
                               writer'[c] \notin {"none", "built"}
    PROVE  ChanInv'
<1>1. \A s \in Srv : \A i \in DOMAIN chan[s] : chan[s][i] \in Conn
    BY DEF TypeInv
<1>2. QED
    BY <1>1 DEF ChanInv

LEMMA ChanConn ==
    ASSUME TypeInv, ChanInv, NEW c \in Conn, ConnStep(c)
    PROVE  ChanInv'
<1>1. UNCHANGED chan
    BY DEF ConnStep, ReadFrame, ReadFails, WsReadFails, ShutdownNotified,
         LeaveLoop, NotifyClosed, DropReader, WriterRecv, WsWriterRecv, WriteOk,
         WriteFails, PairDropped, EndWriter
<1>2. \/ UNCHANGED writer
      \/ \E w \in {"run", "write", "done"} : writer' = [writer EXCEPT ![c] = w]
    BY DEF ConnStep, ReadFrame, ReadFails, WsReadFails, ShutdownNotified,
         LeaveLoop, NotifyClosed, DropReader, WriterRecv, WsWriterRecv, WriteOk,
         WriteFails, PairDropped, EndWriter
<1>3. \A d \in Conn : writer[d] \notin {"none", "built"} =>
                          writer'[d] \notin {"none", "built"}
    BY <1>2 DEF TypeInv
<1>4. QED
    BY <1>1, <1>3, ChanSame

LEMMA ChanService ==
    ASSUME TypeInv, LoopInv, HalvesInv, ChanInv, NEW s \in Srv, ServiceStep(s)
    PROVE  ChanInv'
<1>1. CASE UNCHANGED <<writer, chan>>
    BY <1>1, ChanSame
<1>2. ASSUME NewConn(s) PROVE ChanInv'
  <2>1. /\ NextConn(s) \in Conn /\ reader[NextConn(s)] = "none"
        /\ writer' = [writer EXCEPT ![NextConn(s)] = "built"]
        /\ UNCHANGED chan
      BY <1>2 DEF NewConn, Build
  <2>2. writer[NextConn(s)] = "none"
      BY <2>1 DEF HalvesInv
  <2>3. \A d \in Conn : writer[d] \notin {"none", "built"} =>
                            writer'[d] \notin {"none", "built"}
      BY <2>1, <2>2 DEF TypeInv
  <2>4. QED
      BY <2>1, <2>3, ChanSame
<1>3. CASE HandOver(s)
  <2> DEFINE c == Cur(s)
  <2>1. c \in Conn /\ Home(c) = s /\ writer[c] = "built"
      BY <1>3 DEF HandOver, LoopInv, HalvesInv, Cur, Home
  <2>2. /\ chan' = [chan EXCEPT ![s] = Append(@, c)]
        /\ writer' = [writer EXCEPT ![c] = "run"]
      BY <1>3, <2>1 DEF HandOver, Register
  <2>3. /\ \A d \in Conn : writer'[d] = IF d = c THEN "run" ELSE writer[d]
        /\ chan'[s] = Append(chan[s], c)
        /\ \A t \in Srv \ {s} : chan'[t] = chan[t]
      BY <2>1, <2>2 DEF TypeInv
  <2>4. chan[s] \in Seq(Conn)
      BY DEF TypeInv
  <2>5. /\ Len(chan[s]) \in Nat /\ DOMAIN chan[s] = 1..Len(chan[s])
        /\ DOMAIN chan'[s] = 1..(Len(chan[s]) + 1)
        /\ \A i \in 1..Len(chan[s]) : chan'[s][i] = chan[s][i]
        /\ chan'[s][Len(chan[s]) + 1] = c
      BY <2>1, <2>3, <2>4, AppendElems
  <2>6. \A t \in Srv : \A i \in DOMAIN chan[t] : chan[t][i] \in Conn /\ chan[t][i] # c
      BY <2>1 DEF TypeInv, ChanInv
  <2>7. ASSUME NEW i \in DOMAIN chan'[s]
        PROVE  /\ Home(chan'[s][i]) = s /\ writer'[chan'[s][i]] \notin {"none", "built"}
               /\ \A j \in DOMAIN chan'[s] : chan'[s][i] = chan'[s][j] => i = j
    <3>1. CASE i = Len(chan[s]) + 1
        BY <3>1, <2>1, <2>3, <2>5, <2>6
    <3>2. CASE i \in 1..Len(chan[s])
        BY <3>2, <2>1, <2>3, <2>5, <2>6 DEF ChanInv
    <3>3. QED
        BY <3>1, <3>2, <2>5
  <2>8. ASSUME NEW t \in Srv \ {s}, NEW i \in DOMAIN chan'[t]
        PROVE  /\ Home(chan'[t][i]) = t /\ writer'[chan'[t][i]] \notin {"none", "built"}
               /\ \A j \in DOMAIN chan'[t] : chan'[t][i] = chan'[t][j] => i = j
      BY <2>3, <2>6 DEF ChanInv
  <2>9. QED
      BY <2>7, <2>8 DEF ChanInv
<1>4. CASE HandOverFails(s)
  <2>1. (UNCHANGED chan) /\ writer' = [writer EXCEPT ![Cur(s)] = "done"]
      BY <1>4 DEF HandOverFails
  <2>2. \A d \in Conn : writer[d] \notin {"none", "built"} =>
                            writer'[d] \notin {"none", "built"}
      BY <2>1 DEF TypeInv
  <2>3. QED
      BY <2>1, <2>2, ChanSame
<1>5. CASE Accept(s) \/ HandshakeDone(s)
    BY <1>2, <1>5 DEF Accept, HandshakeDone
<1>6. CASE \/ Bind(s) \/ BindFails(s) \/ WsAccept(s) \/ AcceptFails(s)
           \/ HandshakeFails(s) \/ Acquire(s) \/ SplitPanics(s)
    BY <1>1, <1>6
    DEF Bind, BindFails, WsAccept, AcceptFails, HandshakeFails, Acquire, AcquirePermit,
        SplitPanics, DropService, connVars
<1>7. QED
    BY <1>3, <1>4, <1>5, <1>6 DEF ServiceStep

LEMMA ChanHub == ASSUME TypeInv, ChanInv, HubStep PROVE ChanInv'
<1>1. ASSUME NEW s \in Srv, HubTakesConn(s) PROVE ChanInv'
  <2>1. /\ chan[s] # <<>> /\ chan[s] \in Seq(Conn) /\ UNCHANGED writer
        /\ chan'[s] = Tail(chan[s])
        /\ \A t \in Srv \ {s} : chan'[t] = chan[t]
      BY <1>1 DEF HubTakesConn, TypeInv
  <2>2. \A i \in DOMAIN chan'[s] : i + 1 \in DOMAIN chan[s] /\ chan'[s][i] = chan[s][i + 1]
      BY <2>1, TailElems
  <2>3. DOMAIN chan'[s] \subseteq Nat
      BY <2>1, TailElems
  <2>4. \A i, j \in DOMAIN chan'[s] : chan'[s][i] = chan'[s][j] => i = j
    <3> SUFFICES ASSUME NEW i \in DOMAIN chan'[s], NEW j \in DOMAIN chan'[s],
                        chan'[s][i] = chan'[s][j]
                 PROVE  i = j
        OBVIOUS
    <3>1. /\ i + 1 \in DOMAIN chan[s] /\ j + 1 \in DOMAIN chan[s]
          /\ chan[s][i + 1] = chan[s][j + 1]
        BY <2>2
    <3>2. i + 1 = j + 1
        BY <3>1 DEF ChanInv
    <3>3. i \in Nat /\ j \in Nat
        BY <2>3
    <3>4. QED
        BY ONLY <3>2, <3>3
  <2>5. \A i \in DOMAIN chan'[s] : /\ Home(chan'[s][i]) = s
                                   /\ writer'[chan'[s][i]] \notin {"none", "built"}
      BY <2>1, <2>2 DEF ChanInv
  <2>6. \A t \in Srv \ {s} :
            /\ \A i \in DOMAIN chan'[t] : /\ Home(chan'[t][i]) = t
                                          /\ writer'[chan'[t][i]] \notin {"none", "built"}
            /\ \A i, j \in DOMAIN chan'[t] : chan'[t][i] = chan'[t][j] => i = j
      BY <2>1 DEF ChanInv
  <2>7. QED
      BY <2>4, <2>5, <2>6 DEF ChanInv
<1>2. CASE (\E s \in Srv : HubTakesMsg(s)) \/ HubTicks
    BY <1>2, ChanSame DEF HubTakesMsg, HubTicks
<1>3. CASE HubDies
    BY <1>3 DEF HubDies, ChanInv
<1>4. QED
    BY <1>1, <1>2, <1>3 DEF HubStep

-----------------------------------------------------------------------------
(* QueueInv and QueueOrder. *)

(* What no step undoes: the number of frames read, and a reader's end. *)
Onward == \A c \in Conn : /\ readnum'[c] >= readnum[c]
                          /\ reader[c] \in {"drop", "gone"} => reader'[c] \in {"drop", "gone"}

LEMMA OnwardConn ==
    ASSUME TypeInv, NEW c \in Conn, ConnStep(c) PROVE Onward
<1> USE DEF TypeInv, Onward
<1>1. CASE ReadFrame(c)
  <2>1. \A d \in Conn : readnum'[d] >= readnum[d]
      BY <1>1 DEF ReadFrame
  <2>2. \A d \in Conn : reader[d] \in {"drop", "gone"} => reader'[d] \in {"drop", "gone"}
      BY <1>1 DEF ReadFrame
  <2>3. QED
      BY <2>1, <2>2
<1>2. CASE ReadFails(c) \/ WsReadFails(c) \/ ShutdownNotified(c)
    BY <1>2 DEF ReadFails, WsReadFails, ShutdownNotified, LeaveLoop
<1>3. CASE NotifyClosed(c) \/ DropReader(c)
    BY <1>3 DEF NotifyClosed, DropReader
<1>4. CASE WriterRecv(c) \/ WsWriterRecv(c) \/ WriteOk(c) \/ WriteFails(c) \/ PairDropped(c)
    BY <1>4 DEF WriterRecv, WsWriterRecv, WriteOk, WriteFails, PairDropped, EndWriter
<1>5. QED
    BY <1>1, <1>2, <1>3, <1>4 DEF ConnStep

LEMMA OnwardService ==
    ASSUME TypeInv, LoopInv, NEW s \in Srv, ServiceStep(s)
    PROVE  Onward /\ UNCHANGED msgs
<1> USE DEF TypeInv
<1>1. ASSUME NewConn(s) PROVE Onward /\ UNCHANGED msgs
    BY <1>1 DEF NewConn, Build, Onward
<1>2. CASE HandOver(s)
  <2>1. reader[Cur(s)] = "built"
      BY <1>2 DEF HandOver, LoopInv
  <2>2. QED
      BY <1>2, <2>1 DEF HandOver, Register, Onward
<1>3. CASE HandOverFails(s)
    BY <1>3 DEF HandOverFails, Onward
<1>4. CASE Accept(s) \/ HandshakeDone(s)
    BY <1>1, <1>4 DEF Accept, HandshakeDone
<1>5. CASE \/ Bind(s) \/ BindFails(s) \/ WsAccept(s) \/ AcceptFails(s)
           \/ HandshakeFails(s) \/ Acquire(s) \/ SplitPanics(s)
    BY <1>5
    DEF Bind, BindFails, WsAccept, AcceptFails, HandshakeFails, Acquire, AcquirePermit,
        SplitPanics, DropService, connVars, Onward
<1>6. QED
    BY <1>2, <1>3, <1>4, <1>5 DEF ServiceStep

LEMMA QueueSame ==
    ASSUME TypeInv, TypeInv', QueueInv, QueueOrder, Onward, UNCHANGED msgs
    PROVE  QueueInv' /\ QueueOrder'
<1>1. QueueOrder'
    BY DEF QueueOrder
<1>2. ASSUME NEW s \in Srv, NEW i \in DOMAIN msgs[s]
      PROVE  msgs[s][i].seq \in Nat /\ msgs[s][i].from \in Conn
  <2>1. msgs[s] \in Seq(Msg)
      BY DEF TypeInv
  <2>2. msgs[s][i] \in Msg
      BY <2>1
  <2>3. QED
      BY <2>2 DEF QueueInv, Msg
<1>3. QueueInv'
  <2> SUFFICES ASSUME NEW s \in Srv, NEW i \in DOMAIN msgs[s]
               PROVE  /\ msgs[s][i].seq <= readnum'[msgs[s][i].from]
                      /\ msgs[s][i].kind = "SocketClosed" =>
                             reader'[msgs[s][i].from] \in {"drop", "gone"}
      BY <1>2 DEF QueueInv
  <2> DEFINE c == msgs[s][i].from
  <2>1. c \in Conn /\ readnum[c] \in Nat /\ readnum'[c] >= readnum[c]
      BY <1>2 DEF Onward, TypeInv
  <2>2. QED
      BY <2>1, <1>2 DEF QueueInv, Onward, TypeInv
<1>4. QED
    BY <1>1, <1>3

LEMMA QueueElems ==
    ASSUME TypeInv, NEW s \in Srv, NEW i \in DOMAIN msgs[s]
    PROVE  msgs[s] \in Seq(Msg) /\ msgs[s][i] \in Msg /\ msgs[s][i].seq \in Nat
<1>1. msgs[s] \in Seq(Msg)
    BY DEF TypeInv
<1>2. msgs[s][i] \in Msg
    BY <1>1
<1>3. QED
    BY <1>1, <1>2 DEF Msg

LEMMA QueueAppend ==
    ASSUME TypeInv, TypeInv', QueueInv, QueueOrder, Onward,
           NEW s \in Srv, NEW m \in Msg,
           msgs' = [msgs EXCEPT ![s] = Append(@, m)],
           m.from \in Conn, Home(m.from) = s,
           reader[m.from] \notin {"drop", "gone"},
           m.seq <= readnum'[m.from],
           m.kind = "SocketClosed" => reader'[m.from] \in {"drop", "gone"},
           m.kind # "SocketClosed" => m.seq > readnum[m.from]
    PROVE  QueueInv' /\ QueueOrder'
<1> DEFINE n == Len(msgs[s])
<1>1. /\ msgs'[s] = Append(msgs[s], m)
      /\ \A t \in Srv \ {s} : msgs'[t] = msgs[t]
    BY DEF TypeInv
<1>2. msgs[s] \in Seq(Msg)
    BY DEF TypeInv
<1>3. /\ n \in Nat /\ DOMAIN msgs[s] = 1..n /\ DOMAIN msgs'[s] = 1..(n + 1)
      /\ \A i \in 1..n : msgs'[s][i] = msgs[s][i]
      /\ msgs'[s][n + 1] = m
    BY <1>1, <1>2, AppendElems
<1>4. ASSUME NEW t \in Srv, NEW i \in DOMAIN msgs[t]
      PROVE  /\ msgs[t][i].from \in Conn /\ Home(msgs[t][i].from) = t
             /\ msgs[t][i].seq <= readnum[msgs[t][i].from]
             /\ msgs[t][i].seq <= readnum'[msgs[t][i].from]
             /\ msgs[t][i].kind = "SocketClosed" =>
                    /\ reader[msgs[t][i].from] \in {"drop", "gone"}
                    /\ reader'[msgs[t][i].from] \in {"drop", "gone"}
  <2> DEFINE c == msgs[t][i].from
  <2>1. c \in Conn /\ msgs[t][i].seq \in Nat /\ msgs[t][i].seq <= readnum[c]
      BY QueueElems DEF QueueInv
  <2>2. readnum[c] \in Nat /\ readnum'[c] \in Nat /\ readnum'[c] >= readnum[c]
      BY <2>1 DEF TypeInv, Onward
  <2>3. msgs[t][i].kind = "SocketClosed" =>
            reader[c] \in {"drop", "gone"} /\ reader'[c] \in {"drop", "gone"}
      BY <2>1 DEF QueueInv, Onward
  <2>4. Home(c) = t
      BY DEF QueueInv
  <2>5. QED
      BY <2>1, <2>2, <2>3, <2>4
<1>5. QueueInv'
  <2>1. ASSUME NEW i \in DOMAIN msgs'[s]
        PROVE  /\ msgs'[s][i].from \in Conn /\ Home(msgs'[s][i].from) = s
               /\ msgs'[s][i].seq <= readnum'[msgs'[s][i].from]
               /\ msgs'[s][i].kind = "SocketClosed" =>
                      reader'[msgs'[s][i].from] \in {"drop", "gone"}
    <3>1. CASE i = n + 1
        BY <3>1, <1>3
    <3>2. CASE i \in 1..n
        BY <3>2, <1>3, <1>4
    <3>3. QED
        BY <3>1, <3>2, <1>3
  <2>2. QED
      BY <2>1, <1>1, <1>4 DEF QueueInv
<1>6. QueueOrder'
  <2>1. ASSUME NEW i \in DOMAIN msgs'[s], NEW j \in DOMAIN msgs'[s],
               i < j, msgs'[s][i].from = msgs'[s][j].from
        PROVE  /\ msgs'[s][i].kind # "SocketClosed"
               /\ msgs'[s][j].kind # "SocketClosed" => msgs'[s][i].seq < msgs'[s][j].seq
    <3>1. i \in 1..n /\ msgs'[s][i] = msgs[s][i]
        BY <2>1, <1>3
    <3>2. CASE j \in 1..n
      <4>1. msgs'[s][j] = msgs[s][j]
          BY <3>2, <1>3
      <4>2. QED
          BY <2>1, <3>1, <3>2, <4>1, <1>3 DEF QueueOrder
    <3>3. CASE j = n + 1
      <4>1. msgs'[s][j] = m /\ msgs[s][i].from = m.from
          BY <2>1, <3>1, <3>3, <1>3
      <4>2. msgs[s][i].kind # "SocketClosed" /\ msgs[s][i].seq <= readnum[m.from]
          BY <3>1, <4>1, <1>3, <1>4
      <4>3. msgs[s][i].seq \in Nat /\ readnum[m.from] \in Nat /\ m.seq \in Nat
          BY <3>1, <1>3, QueueElems DEF Msg, TypeInv
      <4>4. QED
          BY <3>1, <4>1, <4>2, <4>3
    <3>4. QED
        BY <3>2, <3>3, <1>3
  <2>2. QED
      BY <2>1, <1>1 DEF QueueOrder
<1>7. QED
    BY <1>5, <1>6

LEMMA QueueTail ==
    ASSUME TypeInv, QueueInv, QueueOrder, UNCHANGED <<reader, readnum>>,
           NEW s \in Srv, msgs[s] # <<>>, msgs' = [msgs EXCEPT ![s] = Tail(@)]
    PROVE  QueueInv' /\ QueueOrder'
<1>1. /\ msgs'[s] = Tail(msgs[s]) /\ msgs[s] \in Seq(Msg) /\ msgs[s] # <<>>
      /\ \A t \in Srv \ {s} : msgs'[t] = msgs[t]
    BY DEF TypeInv
<1>2. /\ \A i \in DOMAIN msgs'[s] : i + 1 \in DOMAIN msgs[s] /\ msgs'[s][i] = msgs[s][i + 1]
      /\ DOMAIN msgs'[s] \subseteq Nat
    BY ONLY <1>1, TailElems
<1>3. QueueInv'
  <2>1. ASSUME NEW i \in DOMAIN msgs'[s]
        PROVE  /\ msgs'[s][i].from \in Conn /\ Home(msgs'[s][i].from) = s
               /\ msgs'[s][i].seq <= readnum[msgs'[s][i].from]
               /\ msgs'[s][i].kind = "SocketClosed" =>
                      reader[msgs'[s][i].from] \in {"drop", "gone"}
      BY <1>2 DEF QueueInv
  <2>2. QED
      BY <2>1, <1>1 DEF QueueInv
<1>4. QueueOrder'
  <2>1. ASSUME NEW i \in DOMAIN msgs'[s], NEW j \in DOMAIN msgs'[s],
               i < j, msgs'[s][i].from = msgs'[s][j].from
        PROVE  /\ msgs'[s][i].kind # "SocketClosed"
               /\ msgs'[s][j].kind # "SocketClosed" => msgs'[s][i].seq < msgs'[s][j].seq
    <3>1. /\ i + 1 \in DOMAIN msgs[s] /\ j + 1 \in DOMAIN msgs[s] /\ i + 1 < j + 1
          /\ msgs'[s][i] = msgs[s][i + 1] /\ msgs'[s][j] = msgs[s][j + 1]
        BY <2>1, <1>2
    <3>2. QED
        BY <2>1, <3>1 DEF QueueOrder
  <2>2. QED
      BY <2>1, <1>1 DEF QueueOrder
<1>5. QED
    BY <1>3, <1>4

LEMMA QueueConn ==
    ASSUME TypeInv, TypeInv', QueueInv, QueueOrder, NEW c \in Conn, ConnStep(c)
    PROVE  QueueInv' /\ QueueOrder'
<1>1. Onward
    BY OnwardConn
<1>2. CASE UNCHANGED msgs
    BY <1>1, <1>2, QueueSame
<1>3. CASE ReadFrame(c) /\ msgs' # msgs
  <2> DEFINE m == IF Home(c) \in Ws THEN WsFrame(c) ELSE Frame(c)
  <2>1. /\ reader[c] = "run" /\ readnum' = [readnum EXCEPT ![c] = @ + 1]
        /\ msgs' = [msgs EXCEPT ![Home(c)] = Append(@, m)]
      BY <1>3 DEF ReadFrame
  <2>2. m.from = c /\ m.seq = readnum[c] + 1 /\ m.kind \in {"Tcp", "Rpc", "RpcClient"}
      BY ConnFacts, ConnAssumption DEF Frame, WsFrame
  <2>3. vfd[c] \in Vfd /\ readnum[c] \in Nat /\ readnum'[c] = readnum[c] + 1
      BY <2>1 DEF TypeInv
  <2>4. m \in Msg
      BY <2>3, ConnFacts, ConnAssumption DEF Frame, WsFrame, Msg
  <2>5. /\ m.from \in Conn /\ Home(m.from) = Home(c) /\ reader[m.from] \notin {"drop", "gone"}
        /\ m.seq <= readnum'[m.from] /\ m.seq > readnum[m.from]
        /\ m.kind # "SocketClosed"
      BY <2>1, <2>2, <2>3
  <2>6. Home(c) \in Srv
      BY ConnFacts
  <2> HIDE DEF m
  <2>7. QED
      BY <1>1, <2>1, <2>4, <2>5, <2>6, QueueAppend
<1>4. CASE NotifyClosed(c) /\ msgs' # msgs
  <2> DEFINE m == Closed(c)
  <2>1. /\ reader[c] = "notify" /\ reader' = [reader EXCEPT ![c] = "drop"]
        /\ msgs' = [msgs EXCEPT ![Home(c)] = Append(@, m)]
        /\ UNCHANGED readnum
      BY <1>4 DEF NotifyClosed
  <2>2. m.from = c /\ m.seq = readnum[c] /\ m.kind = "SocketClosed"
      BY DEF Closed
  <2>3. vfd[c] \in Vfd /\ readnum[c] \in Nat /\ reader'[c] = "drop"
      BY <2>1 DEF TypeInv
  <2>4. m \in Msg
      BY <2>3 DEF Closed, Msg
  <2>5. /\ m.from \in Conn /\ Home(m.from) = Home(c) /\ reader[m.from] \notin {"drop", "gone"}
        /\ m.seq <= readnum'[m.from] /\ reader'[m.from] = "drop"
        /\ m.kind = "SocketClosed"
      BY <2>1, <2>2, <2>3
  <2>6. Home(c) \in Srv
      BY ConnFacts
  <2> HIDE DEF m
  <2>7. QED
      BY <1>1, <2>1, <2>4, <2>5, <2>6, QueueAppend
<1>5. QED
    BY <1>2, <1>3, <1>4
    DEF ConnStep, ReadFails, WsReadFails, ShutdownNotified, LeaveLoop, DropReader,
        WriterRecv, WsWriterRecv, WriteOk, WriteFails, PairDropped, EndWriter

LEMMA QueueHub ==
    ASSUME TypeInv, TypeInv', QueueInv, QueueOrder, HubStep PROVE QueueInv' /\ QueueOrder'
<1>1. ASSUME NEW s \in Srv, HubTakesMsg(s) PROVE QueueInv' /\ QueueOrder'
    BY <1>1, QueueTail DEF HubTakesMsg
<1>2. CASE (\E s \in Srv : HubTakesConn(s)) \/ HubTicks
  <2>1. UNCHANGED <<msgs, reader, readnum>>
      BY <1>2 DEF HubTakesConn, HubTicks
  <2>2. Onward
      BY <2>1 DEF Onward, TypeInv
  <2>3. QED
      BY <2>1, <2>2, QueueSame
<1>3. CASE HubDies
    BY <1>3 DEF HubDies, QueueInv, QueueOrder
<1>4. QED
    BY <1>1, <1>2, <1>3 DEF HubStep

-----------------------------------------------------------------------------
(* The order of the messages. *)

LEMMA ChannelInit == Init => ChannelInv
<1>1. Init => HalvesInv /\ ChanInv /\ QueueInv /\ QueueOrder
    BY DEF Init, ConnInit, HalvesInv, ChanInv, QueueInv, QueueOrder
<1>2. QED
    BY <1>1, InvInit DEF ChannelInv

LEMMA ChannelNext == ChannelInv /\ [Next]_vars => ChannelInv'
<1> SUFFICES ASSUME ChannelInv, [Next]_vars PROVE ChannelInv'
    OBVIOUS
<1>1. Inv' /\ TypeInv' /\ TypeInv /\ LoopInv
    BY InvNext DEF ChannelInv, Inv
<1>2. ASSUME NEW s \in Srv, ServiceStep(s) PROVE ChannelInv'
  <2>1. QueueInv' /\ QueueOrder'
      BY <1>1, <1>2, OnwardService, QueueSame DEF ChannelInv
  <2>2. QED
      BY <1>1, <1>2, <2>1, HalvesService, ChanService DEF ChannelInv
<1>3. ASSUME NEW c \in Conn, ConnStep(c) PROVE ChannelInv'
    BY <1>1, <1>3, HalvesConn, ChanConn, QueueConn DEF ChannelInv
<1>4. CASE HubStep
    BY <1>1, <1>4, HalvesHub, ChanHub, QueueHub DEF ChannelInv
<1>5. CASE UNCHANGED vars
    BY <1>1, <1>5
    DEF ChannelInv, HalvesInv, ChanInv, QueueInv, QueueOrder, vars, connVars
<1>6. QED
    BY <1>2, <1>3, <1>4, <1>5 DEF Next, NetStep

(* In no channel, however full it was and whatever the hub does, is a frame *)
(* behind the SocketClosed of its connection or behind a later frame        *)
(* (read.rs:60-70, service.rs:191-200).                                     *)
THEOREM QueueInOrder == Spec => []QueueOrder
<1>1. ChannelInv => QueueOrder
    BY DEF ChannelInv
<1>2. QED
    BY ChannelInit, ChannelNext, <1>1, PTL DEF Spec
=============================================================================

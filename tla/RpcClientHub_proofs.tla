------------------------ MODULE RpcClientHub_proofs ------------------------
(***************************************************************************)
(* The rpc client keeps its registry, its markers, its delay queues and    *)
(* the connections it opens in agreement, and tries the messages of a host *)
(* in order, for any number of hosts, connections and messages and for any *)
(* capacity of the channels.                                               *)
(***************************************************************************)
EXTENDS RpcClientHub, FiniteSetTheorems, SequenceTheorems, TLAPS

Dialing == {"connect", "acquire", "register"}

(* TypeOK without the upper bound of permits, which follows from Account. *)
TypeInv ==
    /\ reader \in [Conn -> ReaderState]
    /\ writer \in [Conn -> WriterState]
    /\ inbox \in [Conn -> Seq(OutMsg)]
    /\ vfd \in [Conn -> Vfd]
    /\ readnum \in [Conn -> Nat]
    /\ permits \in [Srv -> Nat]
    /\ chan \in [Srv -> Seq(Conn)]
    /\ msgs \in [Srv -> Seq(Msg)]
    /\ notified \in [Srv -> BOOLEAN]
    /\ hubUp \in BOOLEAN
    /\ hub \in HubState
    /\ cur \in Host
    /\ pending \in Nat
    /\ batch \in Seq(Nat)
    /\ attempt \in Nat
    /\ senders \in [Host -> Conn \cup {None}]
    /\ proceeding \in [Host -> 0..2]
    /\ delay \in [Host -> Seq(Nat)]
    /\ sent \in [Host -> Nat]
    /\ handed \in [Host -> Nat]
    /\ heard \subseteq Conn

(* The permits of the client: taken by the connection being registered and  *)
(* by every reader that has not been dropped.                               *)
Holders == {c \in Conn : \/ reader[c] \in {"run", "notify", "drop"}
                         \/ reader[c] = "built" /\ hub = "register"}
Account == permits[S] + Cardinality(Holders) = MaxConnection

(* What is true while the task opens a connection: it is the only one built *)
(* and not running, it goes to cur, which is marked, has no sender and no   *)
(* other connection.                                                        *)
DialInv ==
    /\ hub \in {"acquire", "register"} =>
          Cur \in Conn /\ reader[Cur] = "built" /\ vfd[Cur] = cur
    /\ \A c \in Conn : reader[c] = "built" => c = Cur /\ hub \in {"acquire", "register"}
    /\ hub \in Dialing => proceeding[cur] = 1 /\ senders[cur] = None
    /\ hub = "connect" => OpenTo(cur) = {}

(* OneConnectionPerHost without cardinalities. *)
OpenInv ==
    /\ \A c \in Conn : reader[c] # "none" => vfd[c] \in Host
    /\ \A h \in Host : OpenTo(h) # {} => proceeding[h] # 0
    /\ \A h \in Host : \A c, d \in OpenTo(h) : c = d
    /\ \A c \in heard : reader[c] \in {"drop", "gone"}

(* A queued rpc names a host; a queued SocketClosed is of a connection that *)
(* has left its loop and has not been heard, and is the only one of it.     *)
CloseInv ==
    /\ \A i \in DOMAIN msgs[S] :
          /\ msgs[S][i].kind = "Rpc" => msgs[S][i].vfd \in Host
          /\ msgs[S][i].kind = "SocketClosed" =>
                /\ msgs[S][i].from \in Conn \ heard
                /\ msgs[S][i].vfd = vfd[msgs[S][i].from]
                /\ reader[msgs[S][i].from] \in {"drop", "gone"}
    /\ \A i, j \in DOMAIN msgs[S] :
          /\ msgs[S][i].kind = "SocketClosed" /\ msgs[S][j].kind = "SocketClosed"
          /\ msgs[S][i].from = msgs[S][j].from
          => i = j

(* The channel of connections holds connections that run or have run. *)
ChanInv == \A i \in DOMAIN chan[S] : reader[chan[S][i]] \notin {"none", "built"}

(* The inductive invariant. *)
Inv == /\ TypeInv /\ Account /\ DialInv /\ OpenInv /\ CloseInv /\ ChanInv
       /\ MarkerMatches /\ DelayOnlyUnsent

-----------------------------------------------------------------------------
(* Facts about the constants and about sequences. *)

LEMMA Consts ==
    /\ S \in Srv /\ Ws = {}
    /\ \A c \in Conn : Home(c) = S /\ c # None
    /\ \A s \in Srv : s = S
    /\ Host \subseteq Vfd
  BY ConnAssumption, RpcAssumption DEF S, Home, None

LEMMA AppendSeq ==
    ASSUME NEW T, NEW q \in Seq(T), NEW e \in T
    PROVE  /\ Append(q, e) \in Seq(T)
           /\ DOMAIN q = 1..Len(q) /\ DOMAIN Append(q, e) = 1..(Len(q) + 1)
           /\ \A i \in 1..Len(q) : Append(q, e)[i] = q[i] /\ q[i] \in T
           /\ Append(q, e)[Len(q) + 1] = e /\ Len(q) \in Nat
  OBVIOUS

LEMMA TailSeq ==
    ASSUME NEW T, NEW q \in Seq(T), q # <<>>
    PROVE  /\ Tail(q) \in Seq(T) /\ Head(q) \in T
           /\ 1 \in DOMAIN q /\ q[1] = Head(q) /\ DOMAIN Tail(q) \subseteq Nat \ {0}
           /\ \A i \in DOMAIN Tail(q) : i + 1 \in DOMAIN q /\ Tail(q)[i] = q[i + 1]
           /\ \A i \in DOMAIN q \ {1} : i - 1 \in DOMAIN Tail(q) /\ Tail(q)[i - 1] = q[i]
           /\ DOMAIN q \subseteq Nat \ {0}
  OBVIOUS

(* What try_send leaves in the writers' channels is well typed. *)
LEMMA HandType ==
    ASSUME TypeInv, NEW h \in Host, NEW c, NEW n \in Nat, Hand(h, c, n)
    PROVE  inbox' \in [Conn -> Seq(OutMsg)] /\ handed' \in [Host -> Nat]
<1>1. [kind |-> "Rpc", vfd |-> h] \in OutMsg
    BY Consts DEF OutMsg
<1>2. \A d \in Conn : Append(inbox[d], [kind |-> "Rpc", vfd |-> h]) \in Seq(OutMsg)
    BY <1>1 DEF TypeInv
<1>3. QED
    BY <1>2 DEF Hand, Sent, TypeInv

LEMMA DelayedType ==
    ASSUME TypeInv, NEW h \in Host, NEW n \in Nat
    PROVE  Delayed(h, n) \in [Host -> Seq(Nat)]
<1>1. Append(delay[h], n) \in Seq(Nat)
    BY DEF TypeInv
<1>2. QED
    BY <1>1 DEF Delayed, TypeInv

-----------------------------------------------------------------------------
(* What a step of a connection's tasks does to the state of the client: its *)
(* reader moves on, and at most one message is queued.                      *)

Stays == UNCHANGED <<reader, msgs, permits>>
Queues(c) ==
    /\ msgs' = [msgs EXCEPT ![S] = Append(@, Frame(c))]
    /\ UNCHANGED <<reader, permits>>
Leaves(c) ==
    /\ reader[c] = "run"
    /\ reader' = [reader EXCEPT ![c] = "notify"]
    /\ UNCHANGED <<msgs, permits>>
Closes(c) ==
    /\ reader[c] = "notify"
    /\ reader' = [reader EXCEPT ![c] = "drop"]
    /\ \/ msgs' = [msgs EXCEPT ![S] = Append(@, Closed(c))]
       \/ UNCHANGED msgs
    /\ UNCHANGED permits
Drops(c) ==
    /\ reader[c] = "drop"
    /\ reader' = [reader EXCEPT ![c] = "gone"]
    /\ permits' = [permits EXCEPT ![S] = @ + 1]
    /\ UNCHANGED msgs

LEMMA ConnMoves ==
    ASSUME TypeInv, NEW c \in Conn, ConnStep(c)
    PROVE  /\ UNCHANGED <<vfd, chan>>
           /\ Stays \/ Queues(c) \/ Leaves(c) \/ Closes(c) \/ Drops(c)
<1> USE Consts DEF Stays, Queues, Leaves, Closes, Drops
<1>1. CASE ReadFrame(c)
    BY <1>1 DEF ReadFrame
<1>2. CASE ReadFails(c) \/ WsReadFails(c) \/ ShutdownNotified(c)
    BY <1>2 DEF ReadFails, WsReadFails, ShutdownNotified, LeaveLoop
<1>3. CASE NotifyClosed(c)
    BY <1>3 DEF NotifyClosed
<1>4. CASE DropReader(c)
    BY <1>4 DEF DropReader
<1>5. CASE WriterRecv(c) \/ WsWriterRecv(c) \/ WriteOk(c) \/ WriteFails(c) \/ PairDropped(c)
    BY <1>5
    DEF WriterRecv, WsWriterRecv, WriteOk, WriteFails, PairDropped, EndWriter
<1>6. QED
    BY <1>1, <1>2, <1>3, <1>4, <1>5 DEF ConnStep

LEMMA FrameFacts ==
    ASSUME TypeInv, NEW c \in Conn
    PROVE  /\ Frame(c) \in Msg /\ Frame(c).kind = S
           /\ Closed(c) \in Msg /\ Closed(c).kind = "SocketClosed"
           /\ Closed(c).from = c /\ Closed(c).vfd = vfd[c]
<1>1. vfd[c] \in Vfd /\ readnum[c] \in Nat /\ readnum[c] + 1 \in Nat /\ Home(c) = S
    BY Consts DEF TypeInv
<1>2. QED
    BY <1>1 DEF Frame, Closed, Msg, S

-----------------------------------------------------------------------------
(* TypeInv. *)

LEMMA TypeInit == Init => TypeInv
<1> SUFFICES ASSUME Init PROVE TypeInv
    OBVIOUS
<1>1. \A T : <<>> \in Seq(T)
    OBVIOUS
<1>2. QED
    BY <1>1, Consts, ConnAssumption, RpcAssumption
    DEF Init, ConnInit, TypeInv, ReaderState, WriterState, HubState

LEMMA TypeConn ==
    ASSUME TypeInv, NEW c \in Conn, ConnStep(c), UNCHANGED rpcVars
    PROVE  TypeInv'
<1> USE DEF TypeInv, rpcVars, ReaderState, WriterState
<1>1. CASE ReadFrame(c)
  <2>1. [msgs EXCEPT ![S] = Append(@, Frame(c))] \in [Srv -> Seq(Msg)]
      BY Consts, FrameFacts, AppendSeq
  <2>2. msgs' \in [Srv -> Seq(Msg)]
      BY <1>1, <2>1, Consts DEF ReadFrame
  <2>3. reader' \in [Conn -> ReaderState]
      BY <1>1, Zenon DEF ReadFrame
  <2>4. readnum' \in [Conn -> Nat]
      BY <1>1 DEF ReadFrame
  <2>5. QED
      BY <1>1, <2>2, <2>3, <2>4 DEF ReadFrame
<1>2. CASE ReadFails(c) \/ WsReadFails(c) \/ ShutdownNotified(c)
    BY <1>2 DEF ReadFails, WsReadFails, ShutdownNotified, LeaveLoop
<1>3. CASE NotifyClosed(c)
  <2>1. [msgs EXCEPT ![S] = Append(@, Closed(c))] \in [Srv -> Seq(Msg)]
      BY Consts, FrameFacts, AppendSeq
  <2>2. msgs' \in [Srv -> Seq(Msg)]
      BY <1>3, <2>1, Consts DEF NotifyClosed
  <2>3. QED
      BY <1>3, <2>2 DEF NotifyClosed
<1>4. CASE DropReader(c)
  <2>1. reader' \in [Conn -> ReaderState]
      BY <1>4 DEF DropReader
  <2>2. permits' \in [Srv -> Nat]
      BY <1>4, Consts DEF DropReader
  <2>3. QED
      BY <1>4, <2>1, <2>2 DEF DropReader
<1>5. CASE WriterRecv(c)
  <2>1. inbox' \in [Conn -> Seq(OutMsg)]
      BY <1>5, TailSeq DEF WriterRecv
  <2>2. writer' \in [Conn -> WriterState]
      BY <1>5 DEF WriterRecv
  <2>3. QED
      BY <1>5, <2>1, <2>2 DEF WriterRecv
<1>6. CASE WsWriterRecv(c)
    BY <1>6, Consts DEF WsWriterRecv
<1>7. CASE WriteOk(c)
    BY <1>7 DEF WriteOk
<1>8. CASE WriteFails(c) \/ PairDropped(c)
  <2>1. inbox' = [inbox EXCEPT ![c] = <<>>] /\ writer' = [writer EXCEPT ![c] = "done"]
      BY <1>8 DEF WriteFails, PairDropped, EndWriter
  <2>2. inbox' \in [Conn -> Seq(OutMsg)]
      BY <2>1, EmptySeq
  <2>3. writer' \in [Conn -> WriterState]
      BY <2>1
  <2>4. QED
      BY <1>8, <2>2, <2>3 DEF WriteFails, PairDropped, EndWriter
<1>9. QED
    BY <1>1, <1>2, <1>3, <1>4, <1>5, <1>6, <1>7, <1>8 DEF ConnStep

LEMMA RequestFacts ==
    ASSUME TypeInv, NEW h \in Host
    PROVE  LET e == Request(h, sent[h] + 1) IN
           e \in Msg /\ e.kind = "Rpc" /\ e.vfd = h /\ e.seq = sent[h] + 1
<1>1. h \in Vfd /\ sent[h] + 1 \in Nat
    BY Consts DEF TypeInv
<1>2. QED
    BY <1>1 DEF Request, Msg

LEMMA TypeScript == ASSUME TypeInv, NEW h \in Host, ScriptSends(h) PROVE TypeInv'
<1>1. Request(h, sent[h] + 1) \in Msg
    BY RequestFacts
<1>2. [msgs EXCEPT ![S] = Append(@, Request(h, sent[h] + 1))] \in [Srv -> Seq(Msg)]
    BY <1>1, Consts, AppendSeq DEF TypeInv
<1>3. msgs' \in [Srv -> Seq(Msg)]
    BY <1>2 DEF ScriptSends, TypeInv
<1>4. sent' \in [Host -> Nat]
    BY DEF ScriptSends, TypeInv
<1>5. QED
    BY <1>3, <1>4 DEF ScriptSends, TypeInv

(* The head of a channel, and what is left of the channel without it. *)
LEMMA HeadType ==
    ASSUME TypeInv
    PROVE  /\ chan[S] # <<>> => /\ Head(chan[S]) \in Conn
                                /\ [chan EXCEPT ![S] = Tail(@)] \in [Srv -> Seq(Conn)]
           /\ msgs[S] # <<>> => /\ Head(msgs[S]) \in Msg
                                /\ [msgs EXCEPT ![S] = Tail(@)] \in [Srv -> Seq(Msg)]
  BY Consts, TailSeq DEF TypeInv

(* A taken rpc names a host. *)
LEMMA TakenRpc ==
    ASSUME TypeInv, CloseInv, TakeMsg("Rpc")
    PROVE  /\ Head(msgs[S]) \in Msg /\ Head(msgs[S]).kind = "Rpc"
           /\ Head(msgs[S]).vfd \in Host /\ Head(msgs[S]).seq \in Nat
           /\ msgs' = [msgs EXCEPT ![S] = Tail(@)]
<1>1. msgs[S] # <<>> /\ msgs[S] \in Seq(Msg) /\ Head(msgs[S]).kind = "Rpc"
    BY Consts DEF TypeInv, TakeMsg
<1>2. 1 \in DOMAIN msgs[S] /\ msgs[S][1] = Head(msgs[S]) /\ Head(msgs[S]) \in Msg
    BY <1>1, TailSeq
<1>3. Head(msgs[S]).vfd \in Host
    BY <1>1, <1>2 DEF CloseInv
<1>4. Head(msgs[S]).seq \in Nat
    BY <1>2 DEF Msg
<1>5. QED
    BY <1>1, <1>2, <1>3, <1>4 DEF TakeMsg

(* So does a taken SocketClosed, and it is of a connection not heard yet.   *)
LEMMA TakenClose ==
    ASSUME TypeInv, OpenInv, CloseInv, Forget
    PROVE  LET m == Head(msgs[S]) IN
           /\ m.from \in Conn \ heard /\ m.vfd = vfd[m.from] /\ m.vfd \in Host
           /\ reader[m.from] \in {"drop", "gone"}
           /\ \A i \in DOMAIN msgs[S] \ {1} :
                 msgs[S][i].kind = "SocketClosed" => msgs[S][i].from # m.from
<1> DEFINE m == Head(msgs[S])
<1>1. msgs[S] # <<>> /\ msgs[S] \in Seq(Msg) /\ m.kind = "SocketClosed"
    BY Consts DEF TypeInv, Forget
<1>2. 1 \in DOMAIN msgs[S] /\ msgs[S][1] = m
    BY <1>1, TailSeq
<1>3. m.from \in Conn \ heard /\ m.vfd = vfd[m.from] /\ reader[m.from] \in {"drop", "gone"}
    BY <1>1, <1>2 DEF CloseInv
<1>4. vfd[m.from] \in Host
    BY <1>3 DEF OpenInv
<1>5. ASSUME NEW i \in DOMAIN msgs[S] \ {1}, msgs[S][i].kind = "SocketClosed"
      PROVE  msgs[S][i].from # m.from
    BY <1>1, <1>2, <1>5 DEF CloseInv
<1>6. QED
    BY <1>3, <1>4, <1>5

LEMMA TypeTakeConn == ASSUME TypeInv, OpenInv, ChanInv, TakeConn PROVE TypeInv'
<1> DEFINE c == Head(chan[S])
<1>1. /\ c \in Conn /\ chan' \in [Srv -> Seq(Conn)]
    BY HeadType DEF TakeConn
<1>2. vfd[c] \in Host
  <2>1. chan[S] # <<>> /\ chan[S] \in Seq(Conn)
      BY Consts DEF TakeConn, TypeInv
  <2>2. reader[c] # "none"
      BY <2>1, TailSeq DEF ChanInv
  <2>3. QED
      BY <1>1, <2>2 DEF OpenInv
<1>3. /\ senders' \in [Host -> Conn \cup {None}]
      /\ proceeding' \in [Host -> 0..2]
  <2>1. senders' = [senders EXCEPT ![vfd[c]] = c]
      BY DEF TakeConn
  <2>2. proceeding' = [proceeding EXCEPT ![vfd[c]] = 2]
      BY DEF TakeConn
  <2>3. senders \in [Host -> Conn \cup {None}] /\ proceeding \in [Host -> 0..2]
      BY DEF TypeInv
  <2> HIDE DEF c
  <2>4. senders' \in [Host -> Conn \cup {None}]
      BY ONLY <1>1, <1>2, <2>1, <2>3
  <2>5. proceeding' \in [Host -> 0..2]
      BY ONLY <1>2, <2>2, <2>3
  <2>6. QED
      BY ONLY <2>4, <2>5
<1>4. batch' \in Seq(Nat) /\ delay' \in [Host -> Seq(Nat)]
  <2>1. <<>> \in Seq(Nat)
      OBVIOUS
  <2>2. QED
      BY <1>2, <2>1 DEF TakeConn, TypeInv
<1>5. cur' \in Host /\ hub' \in HubState
    BY <1>2 DEF TakeConn, HubState
<1>6. UNCHANGED <<reader, writer, inbox, vfd, readnum, permits, msgs, notified,
                  hubUp, pending, attempt, sent, handed, heard>>
    BY DEF TakeConn
<1>7. QED
    BY <1>1, <1>3, <1>4, <1>5, <1>6 DEF TypeInv

LEMMA TypeRpc ==
    ASSUME TypeInv, CloseInv, RouteSelf \/ SendNow \/ SendLater \/ StartConnect
    PROVE  TypeInv'
<1> DEFINE m == Head(msgs[S])
<1>1. TakeMsg("Rpc")
    BY DEF RouteSelf, SendNow, SendLater, StartConnect
<1>2. m.vfd \in Host /\ m.seq \in Nat /\ msgs[S] # <<>>
    BY <1>1, TakenRpc DEF TakeMsg
<1>3. msgs' \in [Srv -> Seq(Msg)]
    BY <1>1, <1>2, HeadType DEF TakeMsg
<1>4. UNCHANGED <<reader, writer, vfd, readnum, permits, chan, notified, hubUp,
                  batch, attempt, senders, sent>>
    BY <1>1 DEF TakeMsg
<1>5. CASE RouteSelf
    BY <1>3, <1>4, <1>5 DEF RouteSelf, TypeInv
<1>6. CASE SendNow
  <2>1. inbox' \in [Conn -> Seq(OutMsg)] /\ handed' \in [Host -> Nat]
      BY <1>2, <1>6, HandType DEF SendNow
  <2>2. QED
      BY <1>3, <1>4, <1>6, <2>1 DEF SendNow, TypeInv
<1>7. CASE SendLater
  <2>1. delay' \in [Host -> Seq(Nat)]
      BY <1>2, <1>7, DelayedType DEF SendLater
  <2>2. QED
      BY <1>3, <1>4, <1>7, <2>1 DEF SendLater, TypeInv
<1>8. CASE StartConnect
  <2>1. /\ proceeding' \in [Host -> 0..2]
        /\ cur' \in Host /\ pending' \in Nat /\ hub' \in HubState
      BY <1>2, <1>8 DEF StartConnect, TypeInv, HubState
  <2>2. QED
      BY <1>3, <1>4, <1>8, <2>1 DEF StartConnect, TypeInv
<1>9. QED
    BY <1>5, <1>6, <1>7, <1>8

LEMMA TypeOther ==
    ASSUME TypeInv, OpenInv, CloseInv, Flush \/ Forget \/ IgnoreFrame
    PROVE  TypeInv'
<1>1. CASE Flush
  <2>1. Head(batch) \in Nat /\ batch' \in Seq(Nat)
      BY <1>1, TailSeq DEF Flush, TypeInv
  <2>2. inbox' \in [Conn -> Seq(OutMsg)] /\ handed' \in [Host -> Nat]
      BY <1>1, <2>1, HandType DEF Flush, TypeInv
  <2>3. QED
      BY <1>1, <2>1, <2>2 DEF Flush, TypeInv, HubState
<1>2. CASE Forget
  <2>1. Head(msgs[S]).from \in Conn /\ Head(msgs[S]).vfd \in Host
      BY <1>2, TakenClose
  <2>2. msgs' \in [Srv -> Seq(Msg)]
      BY <1>2, HeadType DEF Forget
  <2>3. /\ senders' \in [Host -> Conn \cup {None}]
        /\ proceeding' \in [Host -> 0..2]
        /\ heard' \subseteq Conn
      BY <1>2, <2>1 DEF Forget, TypeInv
  <2>4. QED
      BY <1>2, <2>2, <2>3 DEF Forget, TypeInv
<1>3. CASE IgnoreFrame
  <2>1. msgs' \in [Srv -> Seq(Msg)]
      BY <1>3, HeadType DEF IgnoreFrame, TakeMsg
  <2>2. QED
      BY <1>3, <2>1 DEF IgnoreFrame, TakeMsg, TypeInv
<1>4. QED
    BY <1>1, <1>2, <1>3

LEMMA TypeDial ==
    ASSUME TypeInv, DialInv, ConnectFails \/ Connected \/ Acquire \/ HandOver
    PROVE  TypeInv'
<1> USE Consts
<1>1. CASE ConnectFails
  <2>1. delay' \in [Host -> Seq(Nat)]
      BY <1>1, DelayedType DEF ConnectFails, TypeInv
  <2>2. proceeding' \in [Host -> 0..2]
      BY <1>1 DEF ConnectFails, TypeInv
  <2>3. QED
      BY <1>1, <2>1, <2>2 DEF ConnectFails, TypeInv, HubState, connVars
<1>2. CASE Connected
  <2>1. /\ reader' \in [Conn -> ReaderState]
        /\ writer' \in [Conn -> WriterState]
        /\ vfd' \in [Conn -> Vfd]
      BY <1>2 DEF Connected, Build, TypeInv, ReaderState, WriterState
  <2>2. attempt' \in Nat /\ hub' \in HubState
      BY <1>2 DEF Connected, TypeInv, HubState
  <2>3. QED
      BY <1>2, <2>1, <2>2 DEF Connected, Build, TypeInv
<1>3. CASE Acquire
  <2>1. permits' \in [Srv -> Nat]
      BY <1>3 DEF Acquire, AcquirePermit, TypeInv
  <2>2. QED
      BY <1>3, <2>1 DEF Acquire, AcquirePermit, TypeInv, HubState
<1>4. CASE HandOver
  <2>1. Cur \in Conn /\ Home(Cur) = S
      BY <1>4 DEF HandOver, DialInv
  <2>2. chan' \in [Srv -> Seq(Conn)]
      BY <1>4, <2>1, AppendSeq DEF HandOver, Register, TypeInv
  <2>3. reader' \in [Conn -> ReaderState] /\ writer' \in [Conn -> WriterState]
      BY <1>4 DEF HandOver, Register, TypeInv, ReaderState, WriterState
  <2>4. delay' \in [Host -> Seq(Nat)]
      BY <1>4, DelayedType DEF HandOver, TypeInv
  <2>5. QED
      BY <1>4, <2>2, <2>3, <2>4 DEF HandOver, Register, TypeInv, HubState
<1>5. QED
    BY <1>1, <1>2, <1>3, <1>4

LEMMA TypeHub ==
    ASSUME TypeInv, DialInv, OpenInv, CloseInv, ChanInv, HubStep
    PROVE  TypeInv'
<1>1. CASE Tick
    BY <1>1 DEF Tick, vars, connVars, rpcVars, TypeInv
<1>2. QED
    BY <1>1, TypeTakeConn, TypeRpc, TypeOther, TypeDial DEF HubStep

-----------------------------------------------------------------------------
(* Account: each step that changes permits moves one connection into or out *)
(* of Holders.                                                              *)

LEMMA HoldersFinite == IsFiniteSet(Holders) /\ Cardinality(Holders) \in Nat
  BY ConnAssumption, FS_Subset, FS_CardinalityType DEF Holders

LEMMA AccountSame ==
    ASSUME Account, UNCHANGED permits, Holders' = Holders
    PROVE  Account'
  BY DEF Account

LEMMA AccountInit == Init => Account
<1> SUFFICES ASSUME Init PROVE Account
    OBVIOUS
<1>1. Holders = {}
    BY DEF Init, ConnInit, Holders
<1>2. QED
    BY <1>1, FS_EmptySet, ConnAssumption, Consts DEF Init, ConnInit, Account

LEMMA AccountConn ==
    ASSUME TypeInv, Account, NEW c \in Conn, ConnStep(c), UNCHANGED rpcVars
    PROVE  Account'
<1> USE DEF TypeInv, Holders, rpcVars
<1>1. CASE Stays
    BY <1>1, AccountSame DEF Stays
<1>2. CASE Queues(c)
    BY <1>2, AccountSame DEF Queues
<1>3. CASE Leaves(c)
    BY <1>3, AccountSame DEF Leaves
<1>4. CASE Closes(c)
    BY <1>4, AccountSame DEF Closes
<1>5. CASE Drops(c)
  <2>1. c \in Holders /\ Holders' = Holders \ {c}
      BY <1>5 DEF Drops
  <2>2. Cardinality(Holders') = Cardinality(Holders) - 1
      BY ONLY <2>1, HoldersFinite, FS_RemoveElement
  <2>3. permits'[S] = permits[S] + 1
      BY <1>5, Consts DEF Drops
  <2>4. permits[S] \in Nat
      BY Consts
  <2>5. QED
      BY ONLY <2>2, <2>3, <2>4, Account, HoldersFinite DEF Account
<1>6. QED
    BY <1>1, <1>2, <1>3, <1>4, <1>5, ConnMoves

LEMMA AccountHub ==
    ASSUME TypeInv, DialInv, Account, HubStep
    PROVE  Account'
<1> USE DEF TypeInv, Holders
<1>1. CASE \/ TakeConn \/ Flush \/ ConnectFails \/ Tick \/ Forget
           \/ RouteSelf \/ SendNow \/ SendLater \/ StartConnect \/ IgnoreFrame
  <2>1. UNCHANGED <<reader, permits>>
      BY <1>1
      DEF TakeConn, Flush, ConnectFails, Tick, Forget, RouteSelf, SendNow, SendLater,
          StartConnect, IgnoreFrame, TakeMsg, vars, connVars
  <2>2. hub # "register" /\ hub' # "register"
      BY <1>1
      DEF TakeConn, Flush, ConnectFails, Tick, Forget, RouteSelf, SendNow, SendLater,
          StartConnect, IgnoreFrame, TakeMsg, vars, rpcVars
  <2>3. QED
      BY <2>1, <2>2, AccountSame
<1>2. CASE Connected
  <2>1. /\ reader[NextConn] = "none" /\ reader' = [reader EXCEPT ![NextConn] = "built"]
        /\ hub = "connect" /\ hub' = "acquire" /\ UNCHANGED permits
      BY <1>2 DEF Connected, Build
  <2>2. QED
      BY <2>1, AccountSame
<1>3. CASE Acquire
  <2>1. /\ hub = "acquire" /\ hub' = "register" /\ UNCHANGED <<reader, attempt>>
        /\ permits' = [permits EXCEPT ![S] = @ - 1]
      BY <1>3 DEF Acquire, AcquirePermit
  <2>2. Cur \in Conn /\ Cur \notin Holders /\ Holders' = Holders \cup {Cur}
      BY <2>1 DEF DialInv
  <2>3. Cardinality(Holders') = Cardinality(Holders) + 1
      BY ONLY <2>2, HoldersFinite, FS_AddElement
  <2>4. permits'[S] = permits[S] - 1 /\ permits[S] \in Nat
      BY <2>1, Consts
  <2>5. QED
      BY ONLY <2>3, <2>4, Account, HoldersFinite DEF Account
<1>4. CASE HandOver
  <2>1. /\ hub = "register" /\ hub' = "select" /\ UNCHANGED permits
        /\ reader' = [reader EXCEPT ![Cur] = "run"]
      BY <1>4 DEF HandOver, Register
  <2>2. Cur \in Conn /\ \A c \in Conn : reader[c] = "built" => c = Cur
      BY <2>1 DEF DialInv
  <2>3. reader[Cur] = "built"
      BY <2>1 DEF DialInv
  <2>4. Holders' = Holders
      BY <2>1, <2>2, <2>3
  <2>5. QED
      BY <2>1, <2>4, AccountSame
<1>5. QED
    BY <1>1, <1>2, <1>3, <1>4 DEF HubStep

-----------------------------------------------------------------------------
(* The steps of the connections and of the script layer keep the other      *)
(* parts.                                                                   *)

LEMMA ConnKeeps ==
    ASSUME TypeInv, NEW c \in Conn, ConnStep(c), UNCHANGED rpcVars
    PROVE  /\ \A d \in Conn : /\ reader'[d] = "none" <=> reader[d] = "none"
                              /\ reader'[d] = "built" <=> reader[d] = "built"
                              /\ reader[d] \in {"drop", "gone"} =>
                                    reader'[d] \in {"drop", "gone"}
           /\ \A h : OpenTo(h)' = OpenTo(h)
<1>1. \/ UNCHANGED reader
      \/ /\ reader[c] \in {"run", "notify", "drop"}
         /\ \/ reader' = [reader EXCEPT ![c] = "notify"] /\ reader[c] = "run"
            \/ \E r \in {"drop", "gone"} : reader' = [reader EXCEPT ![c] = r]
    BY ConnMoves DEF Stays, Queues, Leaves, Closes, Drops
<1>2. \A d \in Conn : /\ reader'[d] = "none" <=> reader[d] = "none"
                      /\ reader'[d] = "built" <=> reader[d] = "built"
                      /\ reader[d] \in {"drop", "gone"} => reader'[d] \in {"drop", "gone"}
    BY <1>1 DEF TypeInv
<1>3. UNCHANGED <<vfd, heard>>
    BY ConnMoves DEF rpcVars
<1>4. QED
    BY <1>2, <1>3 DEF OpenTo

LEMMA CloseConn ==
    ASSUME TypeInv, OpenInv, CloseInv, NEW c \in Conn, ConnStep(c), UNCHANGED rpcVars
    PROVE  CloseInv'
<1> DEFINE q == msgs[S]
<1>1. /\ q \in Seq(Msg) /\ UNCHANGED <<vfd, heard>>
      /\ Frame(c) \in Msg /\ Frame(c).kind = "RpcClient" /\ Closed(c) \in Msg
      /\ Closed(c).kind = "SocketClosed" /\ Closed(c).from = c /\ Closed(c).vfd = vfd[c]
    BY Consts, ConnMoves, FrameFacts DEF TypeInv, rpcVars, S
<1>2. \A d \in Conn : reader[d] \in {"drop", "gone"} => reader'[d] \in {"drop", "gone"}
    BY ConnKeeps
<1>3. CASE UNCHANGED msgs
    BY <1>1, <1>2, <1>3 DEF CloseInv
<1>4. ASSUME NEW e \in Msg, msgs' = [msgs EXCEPT ![S] = Append(@, e)],
             e.kind # "Rpc",
             e.kind = "SocketClosed" =>
                /\ e.from = c /\ e.vfd = vfd[c] /\ c \notin heard
                /\ reader[c] = "notify" /\ reader'[c] = "drop"
      PROVE  CloseInv'
  <2>1. /\ DOMAIN q = 1..Len(q) /\ DOMAIN msgs'[S] = 1..(Len(q) + 1)
        /\ \A i \in 1..Len(q) : msgs'[S][i] = q[i]
        /\ msgs'[S][Len(q) + 1] = e /\ Len(q) \in Nat
      BY <1>1, <1>4, AppendSeq, Consts DEF TypeInv
  <2>2. e.kind = "SocketClosed" => \A i \in DOMAIN q :
            q[i].kind = "SocketClosed" => q[i].from # e.from
      BY <1>4 DEF CloseInv
  <2>3. \A i \in DOMAIN msgs'[S] :
          /\ msgs'[S][i].kind = "Rpc" => msgs'[S][i].vfd \in Host
          /\ msgs'[S][i].kind = "SocketClosed" =>
                /\ msgs'[S][i].from \in Conn \ heard'
                /\ msgs'[S][i].vfd = vfd'[msgs'[S][i].from]
                /\ reader'[msgs'[S][i].from] \in {"drop", "gone"}
    <3> SUFFICES ASSUME NEW i \in DOMAIN msgs'[S]
                 PROVE  /\ msgs'[S][i].kind = "Rpc" => msgs'[S][i].vfd \in Host
                        /\ msgs'[S][i].kind = "SocketClosed" =>
                              /\ msgs'[S][i].from \in Conn \ heard'
                              /\ msgs'[S][i].vfd = vfd'[msgs'[S][i].from]
                              /\ reader'[msgs'[S][i].from] \in {"drop", "gone"}
        OBVIOUS
    <3>1. CASE i \in 1..Len(q)
        BY <3>1, <2>1, <1>1, <1>2 DEF CloseInv
    <3>2. CASE i = Len(q) + 1
        BY <3>2, <2>1, <1>1, <1>4
    <3>3. QED
        BY <3>1, <3>2, <2>1
  <2>4. \A i, j \in DOMAIN msgs'[S] :
          /\ msgs'[S][i].kind = "SocketClosed" /\ msgs'[S][j].kind = "SocketClosed"
          /\ msgs'[S][i].from = msgs'[S][j].from
          => i = j
    <3> SUFFICES ASSUME NEW i \in DOMAIN msgs'[S], NEW j \in DOMAIN msgs'[S],
                        msgs'[S][i].kind = "SocketClosed",
                        msgs'[S][j].kind = "SocketClosed",
                        msgs'[S][i].from = msgs'[S][j].from
                 PROVE  i = j
        OBVIOUS
    <3>1. CASE i \in 1..Len(q) /\ j \in 1..Len(q)
        BY <3>1, <2>1 DEF CloseInv
    <3>2. CASE i = Len(q) + 1 /\ j \in 1..Len(q)
        BY <3>2, <2>1, <2>2
    <3>3. CASE i \in 1..Len(q) /\ j = Len(q) + 1
        BY <3>3, <2>1, <2>2
    <3>4. CASE i = Len(q) + 1 /\ j = Len(q) + 1
        BY <3>4
    <3>5. QED
        BY <3>1, <3>2, <3>3, <3>4, <2>1
  <2>5. QED
      BY <2>3, <2>4 DEF CloseInv
<1>5. CASE Queues(c)
    BY <1>1, <1>4, <1>5 DEF Queues
<1>6. CASE Closes(c)
  <2>1. c \notin heard /\ reader[c] = "notify" /\ reader'[c] = "drop"
      BY <1>6 DEF Closes, OpenInv, TypeInv
  <2>2. QED
      BY <1>1, <1>3, <1>4, <1>6, <2>1 DEF Closes
<1>7. QED
    BY <1>3, <1>5, <1>6, ConnMoves DEF Stays, Leaves, Drops

LEMMA ConnKeepsInv ==
    ASSUME Inv, NEW c \in Conn, ConnStep(c), UNCHANGED rpcVars
    PROVE  Inv'
<1> USE DEF Inv
<1>1. /\ UNCHANGED <<vfd, chan>>
      /\ UNCHANGED <<hub, cur, pending, batch, attempt, senders, proceeding, delay,
                     sent, handed, heard>>
    BY ConnMoves DEF rpcVars
<1>2. DialInv'
    BY <1>1, ConnKeeps DEF DialInv, Dialing, Cur
<1>3. OpenInv'
  <2>1. \A d \in Conn : reader'[d] # "none" => vfd'[d] \in Host
      BY <1>1, ConnKeeps DEF OpenInv
  <2>2. \A d \in heard' : reader'[d] \in {"drop", "gone"}
      BY <1>1, ConnKeeps DEF OpenInv, TypeInv
  <2>3. /\ \A h \in Host : OpenTo(h)' # {} => proceeding'[h] # 0
        /\ \A h \in Host : \A d, e \in OpenTo(h)' : d = e
      BY <1>1, ConnKeeps DEF OpenInv
  <2>4. QED
      BY <2>1, <2>2, <2>3 DEF OpenInv
<1>4. ChanInv'
  <2>1. \A i \in DOMAIN chan[S] : chan[S][i] \in Conn
      BY Consts DEF TypeInv
  <2>2. QED
      BY <1>1, <2>1, ConnKeeps DEF ChanInv
<1>5. MarkerMatches' /\ DelayOnlyUnsent'
    BY <1>1 DEF MarkerMatches, DelayOnlyUnsent, Pending
<1>6. QED
    BY <1>2, <1>3, <1>4, <1>5, TypeConn, AccountConn, CloseConn

LEMMA ScriptKeepsInv == ASSUME Inv, NEW h \in Host, ScriptSends(h) PROVE Inv'
<1> USE DEF Inv
<1>1. UNCHANGED <<reader, vfd, permits, chan, hub, cur, attempt, senders, proceeding,
                  delay, heard>>
    BY DEF ScriptSends
<1>2. Account'
    BY <1>1 DEF Account, Holders
<1>3. DialInv' /\ OpenInv' /\ ChanInv'
    BY <1>1 DEF DialInv, OpenInv, ChanInv, OpenTo, Cur, Dialing
<1>4. MarkerMatches' /\ DelayOnlyUnsent'
    BY <1>1 DEF MarkerMatches, DelayOnlyUnsent, Pending
<1>5. CloseInv'
  <2> DEFINE q == msgs[S]
             e == Request(h, sent[h] + 1)
  <2>1. CASE UNCHANGED msgs
      BY <1>1, <2>1 DEF CloseInv
  <2>2. CASE msgs' = [msgs EXCEPT ![S] = Append(@, e)]
    <3>1. e \in Msg /\ e.kind = "Rpc" /\ e.vfd \in Host
        BY RequestFacts
    <3>5. q \in Seq(Msg)
        BY Consts DEF TypeInv
    <3> HIDE DEF e
    <3>2. /\ DOMAIN q = 1..Len(q) /\ DOMAIN msgs'[S] = 1..(Len(q) + 1)
          /\ \A i \in 1..Len(q) : msgs'[S][i] = q[i]
          /\ msgs'[S][Len(q) + 1] = e
        BY <2>2, <3>1, <3>5, AppendSeq, Consts DEF TypeInv
    <3>3. \A i \in DOMAIN msgs'[S] :
              msgs'[S][i].kind = "SocketClosed" => i \in DOMAIN q /\ msgs'[S][i] = q[i]
        BY <3>1, <3>2
    <3>4. \A i \in DOMAIN msgs'[S] : msgs'[S][i].kind = "Rpc" => msgs'[S][i].vfd \in Host
        BY <3>1, <3>2 DEF CloseInv
    <3>6. QED
        BY ONLY <1>1, <3>3, <3>4, CloseInv DEF CloseInv
  <2>3. QED
      BY <2>1, <2>2 DEF ScriptSends
<1>6. QED
    BY <1>2, <1>3, <1>4, <1>5, TypeScript

-----------------------------------------------------------------------------
(* The steps of the hub.  What each of them leaves alone decides which of   *)
(* the parts it could break.                                                *)

LEMMA NothingBuilt ==
    ASSUME DialInv, hub \notin {"acquire", "register"}
    PROVE  \A c \in Conn : reader[c] # "built"
  BY DEF DialInv

LEMMA DialHub ==
    ASSUME TypeInv, DialInv, OpenInv, CloseInv, HubStep
    PROVE  DialInv'
<1> USE DEF TypeInv, Dialing
<1>1. ASSUME hub \notin {"acquire", "register"}, hub' \notin Dialing, UNCHANGED reader
      PROVE  DialInv'
    BY <1>1, NothingBuilt DEF DialInv
<1>2. CASE TakeConn \/ Flush \/ Forget \/ ConnectFails
    BY <1>1, <1>2 DEF TakeConn, Flush, Forget, ConnectFails, connVars
<1>3. CASE RouteSelf \/ SendNow \/ SendLater \/ IgnoreFrame
    BY <1>1, <1>3 DEF RouteSelf, SendNow, SendLater, IgnoreFrame, TakeMsg
<1>4. CASE StartConnect
  <2>2. PICK h \in Host : h = Head(msgs[S]).vfd
      BY <1>4, TakenRpc DEF StartConnect
  <2>1. /\ hub = "select" /\ hub' = "connect" /\ cur' = h
        /\ senders[h] = None /\ proceeding[h] = 0
        /\ proceeding' = [proceeding EXCEPT ![h] = 1]
        /\ UNCHANGED <<reader, vfd, heard, senders>>
      BY <1>4, <2>2 DEF StartConnect, TakeMsg
  <2>3. OpenTo(h) = {}
      BY <2>1 DEF OpenInv
  <2>4. OpenTo(h)' = {}
      BY <2>1, <2>3 DEF OpenTo
  <2>5. proceeding'[cur'] = 1 /\ senders'[cur'] = None
      BY <2>1
  <2>6. OpenTo(cur)' = {}
      BY <2>1, <2>4 DEF OpenTo
  <2>7. \A c \in Conn : reader'[c] # "built"
      BY <2>1, NothingBuilt
  <2>8. QED
      BY ONLY <2>1, <2>5, <2>6, <2>7 DEF DialInv, Dialing
<1>5. CASE Connected
  <2>1. /\ hub = "connect" /\ hub' = "acquire" /\ NextConn \in Conn
        /\ reader' = [reader EXCEPT ![NextConn] = "built"]
        /\ vfd' = [vfd EXCEPT ![NextConn] = cur]
        /\ attempt' = attempt + 1
        /\ UNCHANGED <<cur, senders, proceeding>>
      BY <1>5 DEF Connected, Build
  <2>2. Cur' = NextConn
      BY <2>1 DEF Cur, NextConn
  <2>3. reader'[NextConn] = "built" /\ vfd'[NextConn] = cur'
      BY <2>1
  <2>4. \A c \in Conn : reader'[c] = "built" => c = NextConn
      BY <2>1, NothingBuilt
  <2>5. proceeding[cur] = 1 /\ senders[cur] = None
      BY <2>1 DEF DialInv
  <2>6. QED
      BY ONLY <2>1, <2>2, <2>3, <2>4, <2>5 DEF DialInv, Dialing
<1>6. CASE Acquire
    BY <1>6 DEF Acquire, AcquirePermit, DialInv, Cur
<1>7. CASE HandOver
  <2>1. /\ hub' = "select" /\ reader' = [reader EXCEPT ![Cur] = "run"]
      BY <1>7 DEF HandOver, Register
  <2>2. \A c \in Conn : reader'[c] # "built"
      BY <1>7, <2>1 DEF DialInv
  <2>3. QED
      BY ONLY <2>1, <2>2 DEF DialInv, Dialing
<1>8. CASE Tick
    BY <1>8 DEF Tick, vars, connVars, rpcVars, DialInv, OpenTo, Cur
<1>9. QED
    BY <1>2, <1>3, <1>4, <1>5, <1>6, <1>7, <1>8 DEF HubStep

(* A step that leaves the connections alone and clears no marker. *)
LEMMA OpenSame ==
    ASSUME OpenInv, UNCHANGED <<reader, vfd, heard>>,
           \A h \in Host : proceeding[h] # 0 => proceeding'[h] # 0
    PROVE  OpenInv'
<1>1. \A h : OpenTo(h)' = OpenTo(h)
    BY DEF OpenTo
<1>2. /\ \A h \in Host : OpenTo(h)' # {} => proceeding'[h] # 0
      /\ \A h \in Host : \A c, d \in OpenTo(h)' : c = d
    BY <1>1 DEF OpenInv
<1>3. QED
    BY <1>2 DEF OpenInv

LEMMA OpenHub ==
    ASSUME TypeInv, DialInv, OpenInv, CloseInv, HubStep
    PROVE  OpenInv'
<1> USE DEF TypeInv
<1>1. CASE TakeConn
  <2>1. /\ UNCHANGED <<reader, vfd, heard>>
        /\ proceeding' = [proceeding EXCEPT ![vfd[Head(chan[S])]] = 2]
      BY <1>1 DEF TakeConn
  <2>2. QED
      BY <2>1, OpenSame
<1>2. CASE RouteSelf \/ SendNow \/ SendLater \/ IgnoreFrame \/ Flush \/ Acquire
    BY <1>2, OpenSame
    DEF RouteSelf, SendNow, SendLater, IgnoreFrame, Flush, Acquire, AcquirePermit, TakeMsg
<1>3. CASE StartConnect
  <2>1. /\ UNCHANGED <<reader, vfd, heard>>
        /\ proceeding' = [proceeding EXCEPT ![Head(msgs[S]).vfd] = 1]
      BY <1>3 DEF StartConnect, TakeMsg
  <2>2. QED
      BY <2>1, OpenSame
<1>4. CASE ConnectFails
  <2>1. /\ UNCHANGED <<reader, vfd, heard>>
        /\ proceeding' = [proceeding EXCEPT ![cur] = 0]
        /\ OpenTo(cur) = {}
      BY <1>4 DEF ConnectFails, connVars, DialInv
  <2>2. \A h : OpenTo(h)' = OpenTo(h)
      BY <2>1 DEF OpenTo
  <2>3. \A h \in Host : OpenTo(h)' # {} => proceeding'[h] # 0
      BY <2>1, <2>2 DEF OpenInv
  <2>4. \A h \in Host : \A c, d \in OpenTo(h)' : c = d
      BY <2>2 DEF OpenInv
  <2>5. QED
      BY <2>1, <2>3, <2>4 DEF OpenInv
<1>5. CASE Connected
  <2>1. /\ NextConn \in Conn /\ reader[NextConn] = "none"
        /\ reader' = [reader EXCEPT ![NextConn] = "built"]
        /\ vfd' = [vfd EXCEPT ![NextConn] = cur]
        /\ UNCHANGED <<proceeding, heard>>
        /\ OpenTo(cur) = {} /\ proceeding[cur] = 1
      BY <1>5 DEF Connected, Build, DialInv, Dialing
  <2>2. NextConn \notin heard
      BY <2>1 DEF OpenInv
  <2>3. \A c \in Conn \ {NextConn} : reader'[c] = reader[c] /\ vfd'[c] = vfd[c]
      BY <2>1
  <2>4. reader'[NextConn] = "built" /\ vfd'[NextConn] = cur
      BY <2>1
  <2>5. \A h \in Host : h = cur => \A c \in OpenTo(h)' : c = NextConn
      BY <2>1, <2>3 DEF OpenTo
  <2>6. \A h \in Host \ {cur} : OpenTo(h)' = OpenTo(h)
      BY <2>1, <2>3, <2>4 DEF OpenTo
  <2>7. \A c \in Conn : reader'[c] # "none" => vfd'[c] \in Host
      BY <2>3, <2>4 DEF OpenInv
  <2>8. \A c \in heard' : reader'[c] \in {"drop", "gone"}
      BY <2>1, <2>2, <2>3 DEF OpenInv
  <2>9. \A h \in Host : OpenTo(h)' # {} => proceeding'[h] # 0
    <3> SUFFICES ASSUME NEW h \in Host, OpenTo(h)' # {} PROVE proceeding'[h] # 0
        OBVIOUS
    <3>1. CASE h = cur
        BY <2>1, <3>1
    <3>2. CASE h # cur
      <4>1. OpenTo(h) # {}
          BY <3>2, <2>6
      <4>2. proceeding[h] # 0
          BY <4>1 DEF OpenInv
      <4>3. QED
          BY <4>2, <2>1
    <3>3. QED
        BY <3>1, <3>2
  <2>10. \A h \in Host : \A c, d \in OpenTo(h)' : c = d
    <3> SUFFICES ASSUME NEW h \in Host, NEW c \in OpenTo(h)', NEW d \in OpenTo(h)'
                 PROVE  c = d
        OBVIOUS
    <3>1. CASE h = cur
      <4>1. c = NextConn /\ d = NextConn
          BY <2>5, <3>1
      <4>2. QED
          BY ONLY <4>1
    <3>2. CASE h # cur
      <4>1. c \in OpenTo(h) /\ d \in OpenTo(h)
          BY <3>2, <2>6
      <4>2. QED
          BY <4>1 DEF OpenInv
    <3>3. QED
        BY <3>1, <3>2
  <2>11. QED
      BY ONLY <2>7, <2>8, <2>9, <2>10 DEF OpenInv
<1>6. CASE HandOver
  <2>1. /\ Cur \in Conn /\ reader[Cur] = "built"
        /\ reader' = [reader EXCEPT ![Cur] = "run"]
        /\ UNCHANGED <<vfd, heard, proceeding>>
      BY <1>6 DEF HandOver, Register, DialInv
  <2>2. \A c \in Conn : reader'[c] # "none" <=> reader[c] # "none"
      BY <2>1
  <2>3. \A h : OpenTo(h)' = OpenTo(h)
      BY <2>1, <2>2 DEF OpenTo
  <2>4. \A c \in heard' : reader'[c] \in {"drop", "gone"}
      BY <2>1 DEF OpenInv
  <2>5. \A c \in Conn : reader'[c] # "none" => vfd'[c] \in Host
      BY <2>1, <2>2 DEF OpenInv
  <2>6. /\ \A h \in Host : OpenTo(h)' # {} => proceeding'[h] # 0
        /\ \A h \in Host : \A c, d \in OpenTo(h)' : c = d
      BY <2>1, <2>3 DEF OpenInv
  <2>7. QED
      BY ONLY <2>4, <2>5, <2>6 DEF OpenInv
<1>7. CASE Forget
  <2>0. PICK m : m = Head(msgs[S])
      OBVIOUS
  <2>1. /\ m.from \in Conn \ heard /\ m.vfd = vfd[m.from] /\ m.vfd \in Host
        /\ reader[m.from] \in {"drop", "gone"}
      BY <1>7, <2>0, TakenClose
  <2>2. /\ UNCHANGED <<reader, vfd>> /\ heard' = heard \cup {m.from}
        /\ proceeding' = [proceeding EXCEPT ![m.vfd] = 0]
      BY <1>7, <2>0 DEF Forget
  <2>3. \A h : OpenTo(h)' = OpenTo(h) \ {m.from}
      BY <2>2 DEF OpenTo
  <2>4. m.from \in OpenTo(m.vfd)
      BY <2>1 DEF OpenTo
  <2>5. OpenTo(m.vfd)' = {}
      BY <2>1, <2>3, <2>4 DEF OpenInv
  <2>6. \A h \in Host : OpenTo(h)' # {} => proceeding'[h] # 0
      BY <2>2, <2>3, <2>5 DEF OpenInv
  <2>7. \A h \in Host : \A c, d \in OpenTo(h)' : c = d
      BY <2>3 DEF OpenInv
  <2>8. QED
      BY <2>1, <2>2, <2>6, <2>7 DEF OpenInv
<1>8. CASE Tick
    BY <1>8, OpenSame DEF Tick, vars, connVars, rpcVars
<1>9. QED
    BY <1>1, <1>2, <1>3, <1>4, <1>5, <1>6, <1>7, <1>8 DEF HubStep

LEMMA CloseTail ==
    ASSUME TypeInv, CloseInv, msgs[S] # <<>>, UNCHANGED <<reader, vfd>>,
           msgs' = [msgs EXCEPT ![S] = Tail(@)],
           \A i \in DOMAIN msgs[S] \ {1} :
               msgs[S][i].kind = "SocketClosed" => msgs[S][i].from \notin heard'
    PROVE  CloseInv'
<1> DEFINE q == msgs[S]
<1>1. q \in Seq(Msg) /\ msgs'[S] = Tail(q)
    BY Consts DEF TypeInv
<1>2. /\ \A i \in DOMAIN Tail(q) : i + 1 \in DOMAIN q \ {1} /\ Tail(q)[i] = q[i + 1]
      /\ DOMAIN Tail(q) \subseteq Nat \ {0}
    BY <1>1, TailSeq
<1> HIDE DEF q
<1>3. \A i \in DOMAIN q :
          /\ q[i].kind = "Rpc" => q[i].vfd \in Host
          /\ q[i].kind = "SocketClosed" =>
                /\ q[i].from \in Conn
                /\ q[i].vfd = vfd[q[i].from]
                /\ reader[q[i].from] \in {"drop", "gone"}
    BY DEF CloseInv, q
<1>4. \A i \in DOMAIN q \ {1} : q[i].kind = "SocketClosed" => q[i].from \notin heard'
    BY DEF q
<1>5. \A i, j \in DOMAIN q :
          /\ q[i].kind = "SocketClosed" /\ q[j].kind = "SocketClosed"
          /\ q[i].from = q[j].from
          => i = j
    BY DEF CloseInv, q
<1>6. \A i \in DOMAIN Tail(q) :
          /\ Tail(q)[i].kind = "Rpc" => Tail(q)[i].vfd \in Host
          /\ Tail(q)[i].kind = "SocketClosed" =>
                /\ Tail(q)[i].from \in Conn \ heard'
                /\ Tail(q)[i].vfd = vfd[Tail(q)[i].from]
                /\ reader[Tail(q)[i].from] \in {"drop", "gone"}
    BY <1>2, <1>3, <1>4
<1>7. \A i, j \in DOMAIN Tail(q) :
          /\ Tail(q)[i].kind = "SocketClosed" /\ Tail(q)[j].kind = "SocketClosed"
          /\ Tail(q)[i].from = Tail(q)[j].from
          => i = j
  <2> SUFFICES ASSUME NEW i \in DOMAIN Tail(q), NEW j \in DOMAIN Tail(q),
                      Tail(q)[i].kind = "SocketClosed", Tail(q)[j].kind = "SocketClosed",
                      Tail(q)[i].from = Tail(q)[j].from
               PROVE  i = j
      OBVIOUS
  <2>1. i + 1 = j + 1
      BY <1>2, <1>5
  <2>2. QED
      BY <2>1, <1>2
<1>8. QED
    BY ONLY <1>1, <1>6, <1>7, UNCHANGED <<reader, vfd>> DEF CloseInv

LEMMA CloseSame ==
    ASSUME CloseInv, UNCHANGED <<msgs, heard>>,
           \A c \in Conn : reader[c] \in {"drop", "gone"} =>
                               reader'[c] = reader[c] /\ vfd'[c] = vfd[c]
    PROVE  CloseInv'
  BY DEF CloseInv

LEMMA CloseHub ==
    ASSUME TypeInv, DialInv, OpenInv, CloseInv, HubStep
    PROVE  CloseInv'
<1>1. CASE TakeConn \/ Flush \/ ConnectFails \/ Acquire \/ Tick
    BY <1>1, CloseSame
    DEF TakeConn, Flush, ConnectFails, Acquire, AcquirePermit, Tick, vars, connVars, rpcVars
<1>2. CASE RouteSelf \/ SendNow \/ SendLater \/ StartConnect \/ IgnoreFrame
  <2>1. /\ msgs[S] # <<>> /\ UNCHANGED <<reader, vfd, heard>>
        /\ msgs' = [msgs EXCEPT ![S] = Tail(@)]
      BY <1>2 DEF RouteSelf, SendNow, SendLater, StartConnect, IgnoreFrame, TakeMsg
  <2>2. \A i \in DOMAIN msgs[S] \ {1} :
            msgs[S][i].kind = "SocketClosed" => msgs[S][i].from \notin heard'
      BY <2>1 DEF CloseInv
  <2>3. QED
      BY <2>1, <2>2, CloseTail
<1>3. CASE Forget
  <2>1. /\ msgs[S] # <<>> /\ UNCHANGED <<reader, vfd>>
        /\ msgs' = [msgs EXCEPT ![S] = Tail(@)]
        /\ heard' = heard \cup {Head(msgs[S]).from}
      BY <1>3 DEF Forget
  <2>2. \A i \in DOMAIN msgs[S] \ {1} :
            msgs[S][i].kind = "SocketClosed" => msgs[S][i].from # Head(msgs[S]).from
      BY <1>3, TakenClose
  <2>3. \A i \in DOMAIN msgs[S] \ {1} :
            msgs[S][i].kind = "SocketClosed" => msgs[S][i].from \notin heard'
      BY <2>1, <2>2 DEF CloseInv
  <2>4. QED
      BY <2>1, <2>3, CloseTail
<1>4. CASE Connected
  <2>1. /\ reader[NextConn] = "none"
        /\ reader' = [reader EXCEPT ![NextConn] = "built"]
        /\ vfd' = [vfd EXCEPT ![NextConn] = cur]
        /\ UNCHANGED <<msgs, heard>>
      BY <1>4 DEF Connected, Build
  <2>2. QED
      BY <2>1, CloseSame DEF TypeInv
<1>5. CASE HandOver
  <2>1. /\ reader[Cur] = "built"
        /\ reader' = [reader EXCEPT ![Cur] = "run"]
        /\ UNCHANGED <<msgs, vfd, heard>>
      BY <1>5 DEF HandOver, Register, DialInv
  <2>2. QED
      BY <2>1, CloseSame DEF TypeInv
<1>6. QED
    BY <1>1, <1>2, <1>3, <1>4, <1>5 DEF HubStep

(* What TakeConn takes and leaves, and what HandOver adds. *)
LEMMA TakenConn ==
    ASSUME TypeInv, OpenInv, ChanInv, TakeConn
    PROVE  /\ chan'[S] = Tail(chan[S])
           /\ Head(chan[S]) \in Conn /\ vfd[Head(chan[S])] \in Host
           /\ \A i \in DOMAIN chan'[S] : \E j \in DOMAIN chan[S] : chan'[S][i] = chan[S][j]
           /\ \A j \in DOMAIN chan[S] :
                 \/ chan[S][j] = Head(chan[S])
                 \/ \E i \in DOMAIN chan'[S] : chan'[S][i] = chan[S][j]
<1>1. /\ chan[S] \in Seq(Conn) /\ chan[S] # <<>>
      /\ chan'[S] = Tail(chan[S])
    BY Consts DEF TypeInv, TakeConn
<1>2. /\ Head(chan[S]) \in Conn /\ reader[Head(chan[S])] # "none"
    BY <1>1, TailSeq DEF ChanInv
<1>3. vfd[Head(chan[S])] \in Host
    BY <1>2 DEF OpenInv
<1>4. /\ \A i \in DOMAIN chan'[S] : i + 1 \in DOMAIN chan[S] /\ chan'[S][i] = chan[S][i + 1]
      /\ \A j \in DOMAIN chan[S] \ {1} :
            j - 1 \in DOMAIN chan'[S] /\ chan'[S][j - 1] = chan[S][j]
      /\ chan[S][1] = Head(chan[S])
  <2> DEFINE q == chan[S]
  <2>1. q \in Seq(Conn) /\ q # <<>> /\ chan'[S] = Tail(q)
      BY <1>1
  <2> HIDE DEF q
  <2>2. /\ \A i \in DOMAIN Tail(q) : i + 1 \in DOMAIN q /\ Tail(q)[i] = q[i + 1]
        /\ \A j \in DOMAIN q \ {1} : j - 1 \in DOMAIN Tail(q) /\ Tail(q)[j - 1] = q[j]
        /\ q[1] = Head(q)
      BY ONLY <2>1, TailSeq
  <2>3. QED
      BY ONLY <2>1, <2>2 DEF q
<1>5. \A i \in DOMAIN chan'[S] : \E j \in DOMAIN chan[S] : chan'[S][i] = chan[S][j]
    BY <1>4
<1>6. ASSUME NEW j \in DOMAIN chan[S]
      PROVE  \/ chan[S][j] = Head(chan[S])
             \/ \E i \in DOMAIN chan'[S] : chan'[S][i] = chan[S][j]
  <2>1. CASE j = 1
      BY <2>1, <1>4
  <2>2. CASE j # 1
      BY <2>2, <1>4
  <2>3. QED
      BY <2>1, <2>2
<1>7. QED
    BY <1>1, <1>2, <1>3, <1>5, <1>6

LEMMA AddedConn ==
    ASSUME TypeInv, DialInv, HandOver
    PROVE  /\ Cur \in Conn /\ reader[Cur] = "built" /\ vfd[Cur] = cur
           /\ reader' = [reader EXCEPT ![Cur] = "run"]
           /\ \A i \in DOMAIN chan[S] : i \in DOMAIN chan'[S] /\ chan'[S][i] = chan[S][i]
           /\ \A i \in DOMAIN chan'[S] : \/ i \in DOMAIN chan[S] /\ chan'[S][i] = chan[S][i]
                                         \/ chan'[S][i] = Cur
           /\ \E i \in DOMAIN chan'[S] : chan'[S][i] = Cur
<1>1. /\ Cur \in Conn /\ reader[Cur] = "built" /\ vfd[Cur] = cur
      /\ reader' = [reader EXCEPT ![Cur] = "run"]
    BY DEF HandOver, Register, DialInv
<1>2. chan[S] \in Seq(Conn) /\ chan'[S] = Append(chan[S], Cur)
    BY <1>1, Consts DEF TypeInv, HandOver, Register
<1>3. /\ DOMAIN chan[S] = 1..Len(chan[S]) /\ Len(chan[S]) \in Nat
      /\ DOMAIN chan'[S] = 1..(Len(chan[S]) + 1)
      /\ \A i \in 1..Len(chan[S]) : chan'[S][i] = chan[S][i]
      /\ chan'[S][Len(chan[S]) + 1] = Cur
    BY <1>1, <1>2, AppendSeq
<1>4. QED
    BY <1>1, <1>3

LEMMA ChanHub ==
    ASSUME TypeInv, DialInv, OpenInv, ChanInv, HubStep
    PROVE  ChanInv'
<1>1. ASSUME UNCHANGED <<reader, chan>> PROVE ChanInv'
    BY <1>1 DEF ChanInv
<1>2. CASE Flush \/ ConnectFails \/ Acquire \/ Tick \/ Forget
    BY <1>1, <1>2
    DEF Flush, ConnectFails, Acquire, AcquirePermit, Tick, Forget, vars, connVars
<1>3. CASE RouteSelf \/ SendNow \/ SendLater \/ StartConnect \/ IgnoreFrame
    BY <1>1, <1>3 DEF RouteSelf, SendNow, SendLater, StartConnect, IgnoreFrame, TakeMsg
<1>4. CASE TakeConn
  <2>1. UNCHANGED reader
      BY <1>4 DEF TakeConn
  <2>2. QED
      BY <1>4, <2>1, TakenConn DEF ChanInv
<1>5. CASE Connected
  <2>1. /\ reader[NextConn] = "none"
        /\ reader' = [reader EXCEPT ![NextConn] = "built"]
        /\ UNCHANGED chan
      BY <1>5 DEF Connected, Build
  <2>2. \A i \in DOMAIN chan[S] : chan[S][i] \in Conn
      BY Consts DEF TypeInv
  <2>3. QED
      BY <2>1, <2>2 DEF ChanInv, TypeInv
<1>6. CASE HandOver
  <2>1. \A i \in DOMAIN chan[S] : chan[S][i] \in Conn
      BY Consts DEF TypeInv
  <2>2. QED
    <3>1. /\ Cur \in Conn /\ reader' = [reader EXCEPT ![Cur] = "run"]
          /\ \A i \in DOMAIN chan'[S] : \/ i \in DOMAIN chan[S] /\ chan'[S][i] = chan[S][i]
                                        \/ chan'[S][i] = Cur
        BY <1>6, AddedConn
    <3>2. /\ reader'[Cur] = "run"
          /\ \A c \in Conn \ {Cur} : reader'[c] = reader[c]
        BY <3>1 DEF TypeInv
    <3>3. \A i \in DOMAIN chan'[S] : reader'[chan'[S][i]] \notin {"none", "built"}
        BY ONLY <2>1, <3>1, <3>2, ChanInv DEF ChanInv
    <3>4. QED
        BY ONLY <3>3 DEF ChanInv
<1>7. QED
    BY <1>2, <1>3, <1>4, <1>5, <1>6 DEF HubStep

-----------------------------------------------------------------------------
(* MarkerMatches and DelayOnlyUnsent. *)

(* A marker "connecting" of host h is accounted for. *)
OnItsWay(h) == \/ hub \in Dialing /\ cur = h
               \/ \E i \in DOMAIN chan[S] : vfd[chan[S][i]] = h

LEMMA MarkerForm ==
    /\ TypeInv => (MarkerMatches <=>
          \A h \in Host : /\ proceeding[h] = 2 <=> senders[h] # None
                          /\ proceeding[h] = 1 => OnItsWay(h))
    /\ TypeInv' => (MarkerMatches' <=>
          \A h \in Host : /\ proceeding'[h] = 2 <=> senders'[h] # None
                          /\ proceeding'[h] = 1 => OnItsWay(h)')
<1>1. TypeInv => \A h \in Host :
          OnItsWay(h) <=> \/ hub \in {"connect", "acquire", "register"} /\ cur = h
                          \/ \E c \in Conn : Pending(c) /\ vfd[c] = h
  <2> SUFFICES ASSUME TypeInv
               PROVE  \A h \in Host :
          OnItsWay(h) <=> \/ hub \in {"connect", "acquire", "register"} /\ cur = h
                          \/ \E c \in Conn : Pending(c) /\ vfd[c] = h
      OBVIOUS
  <2>1. \A i \in DOMAIN chan[S] : chan[S][i] \in Conn
      BY Consts DEF TypeInv
  <2>2. QED
      BY <2>1 DEF OnItsWay, Dialing, Pending
<1>2. TypeInv' => \A h \in Host :
          OnItsWay(h)' <=> \/ hub' \in {"connect", "acquire", "register"} /\ cur' = h
                           \/ \E c \in Conn : Pending(c)' /\ vfd'[c] = h
  <2> SUFFICES ASSUME TypeInv'
               PROVE  \A h \in Host :
          OnItsWay(h)' <=> \/ hub' \in {"connect", "acquire", "register"} /\ cur' = h
                           \/ \E c \in Conn : Pending(c)' /\ vfd'[c] = h
      OBVIOUS
  <2>1. \A i \in DOMAIN chan'[S] : chan'[S][i] \in Conn
      BY Consts DEF TypeInv
  <2>2. QED
      BY <2>1 DEF OnItsWay, Dialing, Pending
<1>3. QED
    BY <1>1, <1>2 DEF MarkerMatches

LEMMA MarkerHub == ASSUME Inv, TypeInv', HubStep PROVE MarkerMatches'
<1> USE DEF Inv
<1>1. \A h \in Host : /\ proceeding[h] = 2 <=> senders[h] # None
                      /\ proceeding[h] = 1 => OnItsWay(h)
    BY MarkerForm
<1>2. ASSUME \A h \in Host : /\ proceeding'[h] = 2 <=> senders'[h] # None
                             /\ proceeding'[h] = 1 => OnItsWay(h)'
      PROVE  MarkerMatches'
    BY <1>2, MarkerForm
<1>3. ASSUME UNCHANGED <<proceeding, senders>>,
             \A h \in Host : OnItsWay(h) => OnItsWay(h)'
      PROVE  MarkerMatches'
    BY <1>1, <1>2, <1>3
<1>4. CASE RouteSelf \/ SendNow \/ SendLater \/ IgnoreFrame \/ Flush \/ Acquire \/ Tick
  <2>1. /\ UNCHANGED <<proceeding, senders, chan, vfd, cur>>
        /\ hub \in Dialing => hub' \in Dialing
      BY <1>4
      DEF RouteSelf, SendNow, SendLater, IgnoreFrame, Flush, Acquire, AcquirePermit, Tick,
          TakeMsg, vars, connVars, rpcVars, Dialing
  <2>2. QED
      BY <1>3, <2>1 DEF OnItsWay
<1>5. CASE TakeConn
  <2>0. PICK c, h0 : c = Head(chan[S]) /\ h0 = vfd[c]
      OBVIOUS
  <2>1. /\ c \in Conn /\ h0 \in Host /\ c # None
        /\ \A j \in DOMAIN chan[S] :
              \/ chan[S][j] = c
              \/ \E i \in DOMAIN chan'[S] : chan'[S][i] = chan[S][j]
      BY <1>5, <2>0, TakenConn, Consts
  <2>2. /\ hub = "select" /\ UNCHANGED vfd
        /\ senders' = [senders EXCEPT ![h0] = c]
        /\ proceeding' = [proceeding EXCEPT ![h0] = 2]
      BY <1>5, <2>0 DEF TakeConn
  <2>3. proceeding'[h0] = 2 /\ senders'[h0] # None
      BY <2>1, <2>2 DEF TypeInv
  <2>4. \A h \in Host \ {h0} : proceeding'[h] = proceeding[h] /\ senders'[h] = senders[h]
      BY <2>2 DEF TypeInv
  <2>5. \A h \in Host \ {h0} : OnItsWay(h) => OnItsWay(h)'
      BY <2>0, <2>1, <2>2 DEF OnItsWay, Dialing
  <2>6. QED
      BY <1>1, <1>2, <2>3, <2>4, <2>5
<1>6. CASE StartConnect
  <2>0. PICK h0 \in Host : h0 = Head(msgs[S]).vfd
      BY <1>6, TakenRpc DEF StartConnect
  <2>1. /\ hub = "select" /\ hub' = "connect" /\ cur' = h0 /\ senders[h0] = None
        /\ proceeding' = [proceeding EXCEPT ![h0] = 1]
        /\ UNCHANGED <<senders, chan, vfd>>
      BY <1>6, <2>0 DEF StartConnect, TakeMsg
  <2>2. proceeding'[h0] = 1 /\ OnItsWay(h0)'
      BY <2>1 DEF TypeInv, OnItsWay, Dialing
  <2>3. \A h \in Host \ {h0} : /\ proceeding'[h] = proceeding[h]
                               /\ OnItsWay(h) => OnItsWay(h)'
      BY <2>1 DEF TypeInv, OnItsWay, Dialing
  <2>4. QED
      BY <1>1, <1>2, <2>1, <2>2, <2>3
<1>7. CASE ConnectFails
  <2>1. /\ proceeding' = [proceeding EXCEPT ![cur] = 0]
        /\ UNCHANGED <<senders, chan, vfd, cur>>
        /\ senders[cur] = None
      BY <1>7 DEF ConnectFails, connVars, DialInv, Dialing
  <2>2. proceeding'[cur] = 0 /\ cur \in Host
      BY <2>1 DEF TypeInv
  <2>3. \A h \in Host \ {cur} : /\ proceeding'[h] = proceeding[h]
                                /\ OnItsWay(h) => OnItsWay(h)'
      BY <2>1 DEF TypeInv, OnItsWay
  <2>4. QED
      BY <1>1, <1>2, <2>1, <2>2, <2>3
<1>8. CASE Connected
  <2>1. /\ hub' = "acquire" /\ reader[NextConn] = "none"
        /\ vfd' = [vfd EXCEPT ![NextConn] = cur]
        /\ UNCHANGED <<proceeding, senders, chan, cur>>
      BY <1>8 DEF Connected, Build
  <2>2. \A i \in DOMAIN chan[S] : chan[S][i] \in Conn \ {NextConn}
    <3>1. \A i \in DOMAIN chan[S] : chan[S][i] \in Conn
        BY ONLY TypeInv, Consts DEF TypeInv
    <3>2. \A i \in DOMAIN chan[S] : reader[chan[S][i]] # "none"
        BY DEF ChanInv
    <3>3. QED
        BY ONLY <2>1, <3>1, <3>2
  <2>3. \A i \in DOMAIN chan[S] : vfd'[chan[S][i]] = vfd[chan[S][i]]
      BY <2>1, <2>2 DEF TypeInv
  <2>4. QED
      BY <1>3, <2>1, <2>3 DEF OnItsWay, Dialing
<1>9. CASE HandOver
  <2>1. /\ vfd[Cur] = cur
        /\ \A i \in DOMAIN chan[S] : i \in DOMAIN chan'[S] /\ chan'[S][i] = chan[S][i]
        /\ \E i \in DOMAIN chan'[S] : chan'[S][i] = Cur
      BY <1>9, AddedConn
  <2>2. UNCHANGED <<proceeding, senders, vfd>>
      BY <1>9 DEF HandOver, Register
  <2>3. QED
      BY <1>3, <2>1, <2>2 DEF OnItsWay
<1>10. CASE Forget
  <2>0. PICK h0 \in Host : h0 = Head(msgs[S]).vfd
      BY <1>10, TakenClose
  <2>1. /\ senders' = [senders EXCEPT ![h0] = None]
        /\ proceeding' = [proceeding EXCEPT ![h0] = 0]
        /\ UNCHANGED <<hub, cur, chan, vfd>>
      BY <1>10, <2>0 DEF Forget
  <2>2. proceeding'[h0] = 0 /\ senders'[h0] = None
      BY <2>1 DEF TypeInv
  <2>3. \A h \in Host \ {h0} : /\ proceeding'[h] = proceeding[h]
                               /\ senders'[h] = senders[h]
                               /\ OnItsWay(h) => OnItsWay(h)'
      BY <2>1 DEF TypeInv, OnItsWay
  <2>4. QED
      BY <1>1, <1>2, <2>2, <2>3
<1>11. QED
    BY <1>4, <1>5, <1>6, <1>7, <1>8, <1>9, <1>10 DEF HubStep

LEMMA DelayHub == ASSUME Inv, HubStep PROVE DelayOnlyUnsent'
<1> USE DEF Inv, DelayOnlyUnsent
<1>1. CASE UNCHANGED <<senders, delay>>
    BY <1>1
<1>2. ASSUME NEW h \in Host, senders[h] = None, UNCHANGED senders,
             \E n : delay' = Delayed(h, n)
      PROVE  DelayOnlyUnsent'
    BY <1>2 DEF Delayed, TypeInv
<1>3. CASE TakeConn
  <2>0. PICK h0 \in Host : h0 = vfd[Head(chan[S])]
      BY <1>3, TakenConn
  <2>1. /\ delay' = [delay EXCEPT ![h0] = <<>>]
        /\ \E c : senders' = [senders EXCEPT ![h0] = c]
      BY <1>3, <2>0 DEF TakeConn
  <2>2. QED
      BY <2>1 DEF TypeInv
<1>4. CASE SendLater
    BY <1>2, <1>4, TakenRpc DEF SendLater, TakeMsg
<1>5. CASE ConnectFails \/ HandOver
  <2>1. cur \in Host /\ senders[cur] = None
      BY <1>5 DEF ConnectFails, HandOver, DialInv, Dialing, TypeInv
  <2>2. delay' = Delayed(cur, pending) /\ UNCHANGED senders
      BY <1>5 DEF ConnectFails, HandOver
  <2>3. QED
      BY <1>2, <2>1, <2>2
<1>6. CASE Forget
  <2>1. senders' = [senders EXCEPT ![Head(msgs[S]).vfd] = None] /\ UNCHANGED delay
      BY <1>6 DEF Forget
  <2>2. QED
      BY <2>1 DEF TypeInv
<1>7. CASE \/ RouteSelf \/ SendNow \/ StartConnect \/ IgnoreFrame \/ Flush
           \/ Connected \/ Acquire \/ Tick
    BY <1>1, <1>7
    DEF RouteSelf, SendNow, StartConnect, IgnoreFrame, Flush, Connected, Acquire, Tick,
        TakeMsg, vars, rpcVars
<1>8. QED
    BY <1>3, <1>4, <1>5, <1>6, <1>7 DEF HubStep

-----------------------------------------------------------------------------
(* The theorems. *)

LEMMA InvInit == Init => Inv
<1> SUFFICES ASSUME Init PROVE Inv
    OBVIOUS
<1>1. DialInv /\ OpenInv /\ ChanInv /\ DelayOnlyUnsent
    BY Consts
    DEF Init, ConnInit, DialInv, OpenInv, ChanInv, DelayOnlyUnsent, OpenTo, Dialing
<1>2. CloseInv
    BY Consts DEF Init, ConnInit, CloseInv
<1>3. MarkerMatches
    BY DEF Init, MarkerMatches
<1>4. QED
    BY <1>1, <1>2, <1>3, TypeInit, AccountInit DEF Inv

LEMMA InvNext == Inv /\ [Next]_vars => Inv'
<1> SUFFICES ASSUME Inv, [Next]_vars PROVE Inv'
    OBVIOUS
<1>1. CASE HubStep
    BY <1>1, TypeHub, AccountHub, DialHub, OpenHub, CloseHub, ChanHub, MarkerHub, DelayHub
    DEF Inv
<1>2. ASSUME NEW h \in Host, ScriptSends(h) PROVE Inv'
    BY <1>2, ScriptKeepsInv
<1>3. ASSUME NEW c \in Conn, ConnStep(c), UNCHANGED rpcVars PROVE Inv'
    BY <1>3, ConnKeepsInv
<1>4. CASE UNCHANGED vars
  <2>1. Account' /\ TypeInv'
      BY <1>4 DEF vars, connVars, rpcVars, Inv, Account, Holders, TypeInv
  <2>2. DialInv' /\ OpenInv' /\ CloseInv' /\ ChanInv'
      BY <1>4
      DEF vars, connVars, rpcVars, Inv, DialInv, OpenInv, CloseInv, ChanInv, OpenTo, Cur,
          Dialing
  <2>3. MarkerMatches' /\ DelayOnlyUnsent'
      BY <1>4 DEF vars, connVars, rpcVars, Inv, MarkerMatches, DelayOnlyUnsent, Pending
  <2>4. QED
      BY <2>1, <2>2, <2>3 DEF Inv
<1>5. QED
    BY <1>1, <1>2, <1>3, <1>4 DEF Next

LEMMA InvImpliesTypeOK == Inv => TypeOK
<1> SUFFICES ASSUME Inv PROVE TypeOK
    OBVIOUS
<1>1. \A s \in Srv : permits[s] \in 0..MaxConnection
    BY Consts, HoldersFinite, ConnAssumption DEF Inv, Account, TypeInv
<1>2. permits \in [Srv -> 0..(MaxConnection + 1)] /\ permits[S] <= MaxConnection
    BY <1>1, Consts, ConnAssumption DEF Inv, TypeInv
<1>3. QED
    BY <1>2 DEF Inv, TypeInv, TypeOK, ConnTypeOK

LEMMA InvImpliesOne == Inv => OneConnectionPerHost
<1> SUFFICES ASSUME Inv, NEW h \in Host
             PROVE  Cardinality(OpenTo(h)) <= 1 /\ (OpenTo(h) # {} => proceeding[h] # 0)
    BY DEF OneConnectionPerHost
<1>1. CASE OpenTo(h) = {}
    BY <1>1, FS_EmptySet
<1>2. CASE OpenTo(h) # {}
  <2>1. PICK c : c \in OpenTo(h)
      BY <1>2
  <2>2. OpenTo(h) = {c}
      BY <2>1 DEF Inv, OpenInv
  <2>3. Cardinality(OpenTo(h)) = 1
      BY ONLY <2>2, FS_Singleton
  <2>4. QED
      BY <2>3 DEF Inv, OpenInv
<1>3. QED
    BY <1>1, <1>2

(* The marker and the registry agree, and "connecting" means that a         *)
(* connection is on its way, however connects, registrations and closes     *)
(* interleave (rpc_client_hub.rs:44-55, 96-137, 189).                       *)
THEOREM MarkersMatch == Spec => []MarkerMatches
<1>1. Inv => MarkerMatches
    BY DEF Inv
<1>2. QED
    BY InvInit, InvNext, <1>1, PTL DEF Spec

(* A host with a sender has no delayed messages (rpc_client_hub.rs:48-55).  *)
THEOREM NothingStaysDelayed == Spec => []DelayOnlyUnsent
<1>1. Inv => DelayOnlyUnsent
    BY DEF Inv
<1>2. QED
    BY InvInit, InvNext, <1>1, PTL DEF Spec

(* A host never has two connections that are open and not heard closed, and *)
(* one that has any is marked, so it is never dialled twice                 *)
(* (rpc_client_hub.rs:96-137).                                              *)
THEOREM NeverTwoConnections == Spec => []OneConnectionPerHost
  BY InvInit, InvNext, InvImpliesOne, PTL DEF Spec

(* Every reachable state is well typed; in particular the permits of the    *)
(* client balance (client_service.rs, read.rs:30-34).                       *)
THEOREM TypeCorrect == Spec => []TypeOK
  BY InvInit, InvNext, InvImpliesTypeOK, PTL DEF Spec

-----------------------------------------------------------------------------
(* InOrder.  The messages of a host that have not been tried stand in one   *)
(* line: those being flushed, those delayed, the one that made the task     *)
(* dial, those still in the message channel.  Every step moves the head of  *)
(* one part to the end of an earlier one, or drops it.                      *)

Elems(q) == {q[i] : i \in DOMAIN q}
Flushed(h) == IF hub = "flush" /\ cur = h THEN Elems(batch) ELSE {}
Dialled(h) == IF hub \in Dialing /\ cur = h THEN {pending} ELSE {}
IsRpc(m, h) == m.kind = "Rpc" /\ m.vfd = h
Queued(h) == {msgs[S][i].seq : i \in {j \in DOMAIN msgs[S] : IsRpc(msgs[S][j], h)}}

Before(A, B) == \A a \in A, b \in B : a < b
Rising(q) == \A i, j \in DOMAIN q : i < j => q[i] < q[j]

(* Message n was tried last, s is the last one sent. *)
InLine(n, F, D, P, Q, s) ==
    /\ Before({n}, F) /\ Before({n}, D) /\ Before({n}, P) /\ Before({n}, Q)
    /\ Before(F, D) /\ Before(F, P) /\ Before(F, Q)
    /\ Before(D, P) /\ Before(D, Q)
    /\ Before(P, Q)
    /\ \A m \in {n} \cup F \cup D \cup P \cup Q : m <= s

Line(h) == InLine(handed[h], Flushed(h), Elems(delay[h]), Dialled(h), Queued(h), sent[h])

QueueRising ==
    \A h \in Host : \A i, j \in DOMAIN msgs[S] :
        i < j /\ IsRpc(msgs[S][i], h) /\ IsRpc(msgs[S][j], h) => msgs[S][i].seq < msgs[S][j].seq

OrderInv ==
    /\ \A h \in Host : Line(h) /\ Rising(delay[h])
    /\ Rising(batch)
    /\ QueueRising

(* The message channel, one message longer or shorter. *)
LEMMA QueueGrows ==
    ASSUME TypeInv, QueueRising, NEW e \in Msg, msgs' = [msgs EXCEPT ![S] = Append(@, e)],
           \A h \in Host : IsRpc(e, h) => \A n \in Queued(h) : n < e.seq
    PROVE  /\ \A h \in Host : \A n \in Queued(h)' : n \in Queued(h) \/ (IsRpc(e, h) /\ n = e.seq)
           /\ QueueRising'
<1> DEFINE q == msgs[S]
<1>1. /\ DOMAIN q = 1..Len(q) /\ DOMAIN msgs'[S] = 1..(Len(q) + 1)
      /\ \A i \in 1..Len(q) : msgs'[S][i] = q[i]
      /\ msgs'[S][Len(q) + 1] = e /\ Len(q) \in Nat
  <2>1. q \in Seq(Msg) /\ msgs'[S] = Append(q, e)
      BY Consts DEF TypeInv
  <2>2. QED
      BY ONLY <2>1, AppendSeq, e \in Msg
<1>2. \A h \in Host : \A n \in Queued(h)' : n \in Queued(h) \/ (IsRpc(e, h) /\ n = e.seq)
    BY <1>1 DEF Queued
<1>3. QueueRising'
  <2> SUFFICES ASSUME NEW h \in Host, NEW i \in DOMAIN msgs'[S], NEW j \in DOMAIN msgs'[S],
                      i < j, IsRpc(msgs'[S][i], h), IsRpc(msgs'[S][j], h)
               PROVE  msgs'[S][i].seq < msgs'[S][j].seq
      BY DEF QueueRising, IsRpc
  <2>1. CASE j \in 1..Len(q)
    <3>1. i \in 1..Len(q)
        BY <1>1, <2>1
    <3>2. QED
        BY <1>1, <2>1, <3>1 DEF QueueRising
  <2>2. CASE j = Len(q) + 1
    <3>1. i \in 1..Len(q) /\ msgs'[S][i] = q[i] /\ msgs'[S][j] = e
        BY <1>1, <2>2
    <3>2. q[i].seq \in Queued(h)
        BY <1>1, <3>1 DEF Queued
    <3>3. QED
        BY <3>1, <3>2
  <2>3. QED
      BY <1>1, <2>1, <2>2
<1>4. QED
    BY <1>2, <1>3

LEMMA QueueShrinks ==
    ASSUME TypeInv, QueueRising, msgs[S] # <<>>, msgs' = [msgs EXCEPT ![S] = Tail(@)]
    PROVE  /\ \A h \in Host : Queued(h)' \subseteq Queued(h)
           /\ \A h \in Host : IsRpc(Head(msgs[S]), h) =>
                 /\ Head(msgs[S]).seq \in Queued(h)
                 /\ \A n \in Queued(h)' : Head(msgs[S]).seq < n
           /\ QueueRising'
<1> DEFINE q == msgs[S]
           p == Tail(q)
<1>1. q \in Seq(Msg) /\ q # <<>> /\ msgs'[S] = p
    BY Consts DEF TypeInv
<1>2. /\ \A i \in DOMAIN p : i + 1 \in DOMAIN q /\ p[i] = q[i + 1]
      /\ DOMAIN p \subseteq Nat \ {0} /\ 1 \in DOMAIN q /\ q[1] = Head(q)
    BY ONLY <1>1, TailSeq
<1> HIDE DEF p
<1>3. \A h \in Host : Queued(h)' = {p[i].seq : i \in {j \in DOMAIN p : IsRpc(p[j], h)}}
    BY <1>1 DEF Queued, IsRpc
<1>4. \A h \in Host : Queued(h)' \subseteq Queued(h)
    BY <1>2, <1>3 DEF Queued
<1>5. ASSUME NEW h \in Host, IsRpc(Head(q), h)
      PROVE  Head(q).seq \in Queued(h) /\ \A n \in Queued(h)' : Head(q).seq < n
  <2>1. Head(q).seq \in Queued(h)
      BY <1>2, <1>5 DEF Queued
  <2>2. \A i \in DOMAIN p : IsRpc(p[i], h) => Head(q).seq < p[i].seq
    <3> SUFFICES ASSUME NEW i \in DOMAIN p, IsRpc(p[i], h) PROVE Head(q).seq < p[i].seq
        OBVIOUS
    <3>1. 1 < i + 1 /\ i + 1 \in DOMAIN q /\ p[i] = q[i + 1]
        BY <1>2
    <3>2. QED
        BY <1>2, <1>5, <3>1 DEF QueueRising
  <2>3. QED
      BY <1>3, <2>1, <2>2
<1>6. QueueRising'
  <2> SUFFICES ASSUME NEW h \in Host, NEW i \in DOMAIN p, NEW j \in DOMAIN p,
                      i < j, IsRpc(p[i], h), IsRpc(p[j], h)
               PROVE  p[i].seq < p[j].seq
      BY <1>1 DEF QueueRising, IsRpc
  <2>1. i + 1 < j + 1 /\ i + 1 \in DOMAIN q /\ j + 1 \in DOMAIN q
      BY <1>2
  <2>2. QED
      BY <1>2, <2>1 DEF QueueRising
<1>7. QED
    BY <1>4, <1>5, <1>6

(* The line stays in order when its parts only lose messages, ... *)
LEMMA LineShrinks ==
    ASSUME NEW n, NEW F, NEW D, NEW P, NEW Q, NEW s \in Nat, InLine(n, F, D, P, Q, s),
           NEW F1 \in SUBSET F, NEW D1 \in SUBSET D, NEW P1 \in SUBSET P, NEW Q1 \in SUBSET Q
    PROVE  InLine(n, F1, D1, P1, Q1, s)
  BY DEF InLine, Before

(* ... when one more is sent, ... *)
LEMMA LineGrows ==
    ASSUME NEW n \in Nat, NEW F \in SUBSET Nat, NEW D \in SUBSET Nat, NEW P \in SUBSET Nat,
           NEW Q \in SUBSET Nat, NEW s \in Nat, InLine(n, F, D, P, Q, s),
           NEW Q1 \in SUBSET (Q \cup {s + 1})
    PROVE  InLine(n, F, D, P, Q1, s + 1)
  BY DEF InLine, Before

(* ... when the first one of those being flushed is tried, ... *)
LEMMA LineFlush ==
    ASSUME NEW n, NEW F, NEW D, NEW P, NEW Q, NEW s, InLine(n, F, D, P, Q, s),
           NEW x \in F, NEW F1 \in SUBSET F, Before({x}, F1)
    PROVE  InLine(x, F1, D, P, Q, s)
  BY DEF InLine, Before

(* ... when the delayed ones are going to be flushed, ... *)
LEMMA LineTaken ==
    ASSUME NEW n, NEW D, NEW Q, NEW s, InLine(n, {}, D, {}, Q, s)
    PROVE  InLine(n, D, {}, {}, Q, s)
  BY DEF InLine, Before

(* ... when the first one queued is tried, delayed or dialled for, ... *)
LEMMA LineQueue ==
    ASSUME NEW n, NEW D, NEW Q, NEW s, InLine(n, {}, D, {}, Q, s),
           NEW x \in Q, NEW Q1 \in SUBSET Q, Before({x}, Q1)
    PROVE  /\ D = {} => InLine(x, {}, {}, {}, Q1, s)
           /\ \A D1 \in SUBSET (D \cup {x}) : InLine(n, {}, D1, {}, Q1, s)
           /\ InLine(n, {}, D, {x}, Q1, s)
  BY DEF InLine, Before

(* ... and when the one dialled for is delayed. *)
LEMMA LineDelay ==
    ASSUME NEW n, NEW D, NEW x, NEW Q, NEW s, InLine(n, {}, D, {x}, Q, s),
           NEW D1 \in SUBSET (D \cup {x})
    PROVE  InLine(n, {}, D1, {}, Q, s)
  BY DEF InLine, Before

(* A delay queue grows at its end or not at all. *)
LEMMA DelayedRising ==
    ASSUME TypeInv, NEW h \in Host, NEW n \in Nat, Rising(delay[h]),
           \A m \in Elems(delay[h]) : m < n
    PROVE  /\ Rising(Delayed(h, n)[h])
           /\ Elems(Delayed(h, n)[h]) \subseteq Elems(delay[h]) \cup {n}
           /\ \A k \in Host \ {h} : Delayed(h, n)[k] = delay[k]
<1>1. delay[h] \in Seq(Nat)
    BY DEF TypeInv
<1>2. \A k \in Host \ {h} : Delayed(h, n)[k] = delay[k]
    BY DEF Delayed, TypeInv
<1>3. CASE Delayed(h, n)[h] = delay[h]
    BY <1>2, <1>3
<1>4. CASE Delayed(h, n)[h] = Append(delay[h], n)
  <2> DEFINE q == delay[h]
  <2>1. /\ DOMAIN q = 1..Len(q) /\ DOMAIN Append(q, n) = 1..(Len(q) + 1)
        /\ \A i \in 1..Len(q) : Append(q, n)[i] = q[i]
        /\ Append(q, n)[Len(q) + 1] = n /\ Len(q) \in Nat
      BY <1>1, AppendSeq
  <2>2. \A i \in DOMAIN q : q[i] < n
      BY DEF Elems
  <2> HIDE DEF q
  <2>3. Rising(q)
      BY DEF q
  <2>4. Rising(Append(q, n))
      BY ONLY <2>1, <2>2, <2>3 DEF Rising
  <2>5. Elems(Append(q, n)) \subseteq Elems(q) \cup {n}
      BY ONLY <2>1 DEF Elems
  <2>6. QED
      BY <1>2, <1>4, <2>4, <2>5 DEF q
<1>5. QED
    BY <1>3, <1>4 DEF Delayed, TypeInv

LEMMA OrderShrinks ==
    ASSUME TypeInv, OrderInv, QueueRising', UNCHANGED <<delay, batch, handed, sent>>,
           \A h \in Host : /\ Flushed(h)' \subseteq Flushed(h)
                           /\ Dialled(h)' \subseteq Dialled(h)
                           /\ Queued(h)' \subseteq Queued(h)
    PROVE  OrderInv'
<1>1. ASSUME NEW h \in Host PROVE Line(h)' /\ Rising(delay[h])'
  <2>1. InLine(handed[h], Flushed(h), Elems(delay[h]), Dialled(h), Queued(h), sent[h])
      BY DEF OrderInv, Line
  <2>2. sent[h] \in Nat
      BY DEF TypeInv
  <2>3. InLine(handed[h], Flushed(h)', Elems(delay[h]), Dialled(h)', Queued(h)', sent[h])
      BY ONLY <2>1, <2>2, LineShrinks, h \in Host,
         \A k \in Host : /\ Flushed(k)' \subseteq Flushed(k)
                         /\ Dialled(k)' \subseteq Dialled(k)
                         /\ Queued(k)' \subseteq Queued(k)
  <2>4. Rising(delay[h])
      BY DEF OrderInv
  <2>5. QED
      BY <2>3, <2>4 DEF Line
<1>2. Rising(batch)'
    BY DEF OrderInv
<1>3. QED
    BY <1>1, <1>2 DEF OrderInv

LEMMA OrderConn ==
    ASSUME TypeInv, OrderInv, NEW c \in Conn, ConnStep(c), UNCHANGED rpcVars
    PROVE  OrderInv'
<1>1. /\ UNCHANGED <<delay, batch, handed, sent>>
      /\ \A h \in Host : /\ Flushed(h)' \subseteq Flushed(h)
                         /\ Dialled(h)' \subseteq Dialled(h)
    BY DEF rpcVars, Flushed, Dialled
<1>2. (\A h \in Host : Queued(h)' \subseteq Queued(h)) /\ QueueRising'
  <2>1. CASE UNCHANGED msgs
      BY <2>1 DEF Queued, QueueRising, OrderInv
  <2>2. ASSUME NEW e \in Msg, e.kind # "Rpc", msgs' = [msgs EXCEPT ![S] = Append(@, e)]
        PROVE  (\A h \in Host : Queued(h)' \subseteq Queued(h)) /\ QueueRising'
    <3>1. \A h : ~IsRpc(e, h)
        BY <2>2 DEF IsRpc
    <3>2. QueueRising
        BY DEF OrderInv
    <3>3. (\A h \in Host : \A n \in Queued(h)' : n \in Queued(h)) /\ QueueRising'
        BY ONLY <2>2, <3>1, <3>2, QueueGrows, TypeInv
    <3>4. QED
        BY ONLY <3>3
  <2>3. CASE Queues(c)
      BY <2>2, <2>3, FrameFacts DEF Queues, S
  <2>4. CASE Closes(c)
      BY <2>1, <2>2, <2>4, FrameFacts DEF Closes
  <2>5. QED
      BY <2>1, <2>3, <2>4, ConnMoves DEF Stays, Leaves, Drops
<1>3. QED
    BY <1>1, <1>2, OrderShrinks

LEMMA OrderScript ==
    ASSUME TypeInv, OrderInv, NEW h \in Host, ScriptSends(h)
    PROVE  OrderInv'
<1>0. PICK e \in Msg : e = Request(h, sent[h] + 1) /\ IsRpc(e, h) /\ e.seq = sent[h] + 1
    BY RequestFacts DEF IsRpc
<1>1. /\ UNCHANGED <<delay, batch, handed, hub, cur, pending>>
      /\ \A k : Flushed(k)' = Flushed(k) /\ Dialled(k)' = Dialled(k)
      /\ sent' = [sent EXCEPT ![h] = @ + 1]
    BY DEF ScriptSends, Flushed, Dialled
<1>2. sent'[h] = sent[h] + 1 /\ \A k \in Host \ {h} : sent'[k] = sent[k]
    BY <1>1 DEF TypeInv
<1>3. \A k \in Host : Line(k) /\ Rising(delay[k])
    BY DEF OrderInv
<1>4. Queued(h) \subseteq Nat
  <2>1. \A i \in DOMAIN msgs[S] : msgs[S][i] \in Msg
      BY Consts DEF TypeInv
  <2>2. \A m \in Msg : m.seq \in Nat
      BY DEF Msg
  <2>3. QED
      BY ONLY <2>1, <2>2 DEF Queued
<1>5. /\ Queued(h)' \subseteq Queued(h) \cup {sent[h] + 1}
      /\ \A k \in Host \ {h} : Queued(k)' \subseteq Queued(k)
      /\ QueueRising'
  <2>1. CASE UNCHANGED msgs
      BY <2>1 DEF Queued, QueueRising, OrderInv
  <2>2. CASE msgs' = [msgs EXCEPT ![S] = Append(@, Request(h, sent[h] + 1))]
    <3>1. \A k \in Host : IsRpc(e, k) => k = h
        BY <1>0 DEF IsRpc
    <3>2. \A n \in Queued(h) : n <= sent[h] /\ n \in Nat
        BY <1>3, <1>4 DEF Line, InLine
    <3>3. sent[h] \in Nat
        BY DEF TypeInv
    <3>4. \A k \in Host : IsRpc(e, k) => \A n \in Queued(k) : n < e.seq
        BY <1>0, <3>1, <3>2, <3>3
    <3>5. msgs' = [msgs EXCEPT ![S] = Append(@, e)] /\ QueueRising
        BY <1>0, <2>2 DEF OrderInv
    <3>6. /\ \A k \in Host : \A n \in Queued(k)' : n \in Queued(k) \/ (IsRpc(e, k) /\ n = e.seq)
          /\ QueueRising'
        BY ONLY <3>4, <3>5, QueueGrows, TypeInv, e \in Msg
    <3>7. QED
        BY <1>0, <3>1, <3>6
  <2>3. QED
      BY <2>1, <2>2 DEF ScriptSends
<1>6. Line(h)'
  <2>1. /\ handed[h] \in Nat /\ sent[h] \in Nat
        /\ Flushed(h) \subseteq Nat /\ Elems(delay[h]) \subseteq Nat
        /\ Dialled(h) \subseteq Nat /\ Queued(h) \subseteq Nat
    <3>1. delay[h] \in Seq(Nat) /\ batch \in Seq(Nat) /\ pending \in Nat
        BY DEF TypeInv
    <3>2. QED
        BY <3>1, <1>4 DEF TypeInv, Flushed, Elems, Dialled
  <2>2. InLine(handed[h], Flushed(h), Elems(delay[h]), Dialled(h), Queued(h), sent[h])
      BY <1>3 DEF Line
  <2>3. InLine(handed[h], Flushed(h), Elems(delay[h]), Dialled(h), Queued(h)', sent[h] + 1)
      BY ONLY <2>1, <2>2, <1>5, LineGrows
  <2>4. QED
      BY <1>1, <1>2, <2>3 DEF Line
<1>7. \A k \in Host \ {h} : Line(k)'
  <2> SUFFICES ASSUME NEW k \in Host \ {h} PROVE Line(k)'
      OBVIOUS
  <2>1. InLine(handed[k], Flushed(k), Elems(delay[k]), Dialled(k), Queued(k), sent[k])
      BY <1>3 DEF Line
  <2>2. sent[k] \in Nat
      BY DEF TypeInv
  <2>3. InLine(handed[k], Flushed(k), Elems(delay[k]), Dialled(k), Queued(k)', sent[k])
      BY ONLY <2>1, <2>2, <1>5, LineShrinks, k \in Host \ {h}
  <2>4. QED
      BY <1>1, <1>2, <2>3 DEF Line
<1>8. QED
    BY <1>1, <1>3, <1>5, <1>6, <1>7 DEF OrderInv

(* A step of the hub changes the line of one host only. *)
LEMMA OrderOne ==
    ASSUME OrderInv, NEW h \in Host, Line(h)', Rising(delay'[h]), Rising(batch'),
           QueueRising', UNCHANGED sent,
           \A k \in Host \ {h} :
               /\ handed'[k] = handed[k] /\ delay'[k] = delay[k]
               /\ Flushed(k)' = {} /\ Dialled(k)' = {}
               /\ Queued(k)' \subseteq Queued(k),
           TypeInv
    PROVE  OrderInv'
<1>1. ASSUME NEW k \in Host \ {h} PROVE Line(k)' /\ Rising(delay'[k])
  <2>1. InLine(handed[k], Flushed(k), Elems(delay[k]), Dialled(k), Queued(k), sent[k])
      BY DEF OrderInv, Line
  <2>2. sent[k] \in Nat /\ Queued(k)' \subseteq Queued(k)
      BY DEF TypeInv
  <2>3. InLine(handed[k], {}, Elems(delay[k]), {}, Queued(k)', sent[k])
      BY ONLY <2>1, <2>2, LineShrinks
  <2>4. /\ handed'[k] = handed[k] /\ delay'[k] = delay[k] /\ sent' = sent
        /\ Flushed(k)' = {} /\ Dialled(k)' = {}
      OBVIOUS
  <2>5. Line(k)'
      BY ONLY <2>3, <2>4 DEF Line
  <2>6. Rising(delay[k])
      BY DEF OrderInv
  <2>7. QED
      BY <2>4, <2>5, <2>6
<1>2. QED
    BY <1>1 DEF OrderInv

LEMMA OrderHub == ASSUME Inv, OrderInv, HubStep PROVE OrderInv'
<1> USE DEF Inv
<1>1. \A k \in Host : /\ InLine(handed[k], Flushed(k), Elems(delay[k]), Dialled(k),
                                Queued(k), sent[k])
                      /\ Rising(delay[k])
    BY DEF OrderInv, Line
<1>2. Rising(batch) /\ QueueRising
    BY DEF OrderInv
<1>3. hub = "select" => \A k : Flushed(k) = {} /\ Dialled(k) = {}
    BY DEF Flushed, Dialled, Dialing
<1>4. CASE TakeConn
  <2>0. PICK h \in Host : h = vfd[Head(chan[S])]
      BY <1>4, TakenConn
  <2>1. /\ hub = "select" /\ batch' = delay[h] /\ cur' = h
        /\ delay' = [delay EXCEPT ![h] = <<>>]
        /\ hub' = IF delay[h] = <<>> THEN "select" ELSE "flush"
        /\ UNCHANGED <<msgs, sent, handed>>
      BY <1>4, <2>0 DEF TakeConn
  <2>2. delay'[h] = <<>> /\ \A k \in Host \ {h} : delay'[k] = delay[k]
      BY <2>1 DEF TypeInv
  <2>3. \A k : Queued(k)' = Queued(k)
      BY <2>1 DEF Queued
  <2>4. QueueRising'
      BY <1>2, <2>1 DEF QueueRising
  <2>5. Flushed(h)' = Elems(delay[h]) /\ \A k \in Host \ {h} : Flushed(k)' = {}
      BY <2>1 DEF Flushed, Elems
  <2>6. \A k : Dialled(k)' = {}
      BY <2>1 DEF Dialled, Dialing
  <2>7. Elems(delay'[h]) = {} /\ Rising(delay'[h])
      BY <2>2 DEF Elems, Rising
  <2>8. InLine(handed[h], Elems(delay[h]), {}, {}, Queued(h), sent[h])
      BY <1>1, <1>3, <2>1, LineTaken
  <2>9. Line(h)'
      BY ONLY <2>1, <2>3, <2>5, <2>6, <2>7, <2>8 DEF Line
  <2>10. Rising(batch')
      BY <1>1, <2>1
  <2>11. QED
      BY <2>1, <2>2, <2>3, <2>4, <2>5, <2>6, <2>7, <2>9, <2>10, OrderOne
<1>5. CASE Flush
  <2>0. PICK h \in Host : h = cur
      BY DEF TypeInv
  <2>1. /\ hub = "flush" /\ batch # <<>> /\ batch' = Tail(batch) /\ cur' = h
        /\ handed' = [handed EXCEPT ![h] = Head(batch)]
        /\ hub' = IF Tail(batch) = <<>> THEN "select" ELSE "flush"
        /\ UNCHANGED <<msgs, sent, delay>>
      BY <1>5, <2>0 DEF Flush, Hand
  <2>2. /\ handed'[h] = Head(batch)
        /\ \A k \in Host \ {h} : handed'[k] = handed[k]
      BY <2>1 DEF TypeInv
  <2>3. \A k : Queued(k)' = Queued(k)
      BY <2>1 DEF Queued
  <2>4. QueueRising'
      BY <1>2, <2>1 DEF QueueRising
  <2>5. /\ \A k : Dialled(k)' = {} /\ (k = h => Dialled(k) = {})
        /\ \A k \in Host \ {h} : Flushed(k)' = {}
      BY <2>0, <2>1 DEF Dialled, Dialing, Flushed
  <2>6. /\ Flushed(h) = Elems(batch) /\ Flushed(h)' \subseteq Elems(Tail(batch))
      BY <2>0, <2>1 DEF Flushed, Elems
  <2>7. /\ Head(batch) \in Elems(batch) /\ Elems(Tail(batch)) \subseteq Elems(batch)
        /\ Before({Head(batch)}, Elems(Tail(batch))) /\ Rising(Tail(batch))
    <3>1. /\ 1 \in DOMAIN batch /\ batch[1] = Head(batch)
          /\ DOMAIN Tail(batch) \subseteq Nat \ {0}
          /\ \A i \in DOMAIN Tail(batch) : i + 1 \in DOMAIN batch /\ Tail(batch)[i] = batch[i + 1]
        BY ONLY <2>1, TypeInv, TailSeq DEF TypeInv
    <3>2. \A i \in DOMAIN Tail(batch) : 1 < i + 1 /\ i + 1 \in DOMAIN batch
        BY <3>1
    <3>3. \A i \in DOMAIN Tail(batch) : Head(batch) < Tail(batch)[i]
        BY ONLY <1>2, <3>1, <3>2 DEF Rising
    <3>4. \A i, j \in DOMAIN Tail(batch) : i < j => i + 1 < j + 1
        BY <3>1
    <3>5. Rising(Tail(batch))
        BY ONLY <1>2, <3>1, <3>4 DEF Rising
    <3>6. QED
        BY ONLY <3>1, <3>3, <3>5 DEF Elems, Before
  <2>8. InLine(handed[h], Elems(batch), Elems(delay[h]), {}, Queued(h), sent[h])
      BY <1>1, <2>5, <2>6
  <2>9. Before({Head(batch)}, Flushed(h)')
      BY <2>6, <2>7 DEF Before
  <2>10. Flushed(h)' \subseteq Elems(batch)
      BY <2>6, <2>7
  <2>11. InLine(Head(batch), Flushed(h)', Elems(delay[h]), {}, Queued(h), sent[h])
      BY ONLY <2>7, <2>8, <2>9, <2>10, LineFlush
  <2>12. Line(h)'
      BY ONLY <2>1, <2>2, <2>3, <2>5, <2>11 DEF Line
  <2>13. Rising(delay'[h]) /\ Rising(batch')
      BY <1>1, <2>1, <2>7
  <2>14. QED
      BY <2>1, <2>2, <2>3, <2>4, <2>5, <2>12, <2>13, OrderOne
<1>6. CASE IgnoreFrame \/ Forget \/ RouteSelf
  <2>1. /\ msgs[S] # <<>> /\ msgs' = [msgs EXCEPT ![S] = Tail(@)]
        /\ UNCHANGED <<hub, cur, pending, batch, delay, handed, sent>>
      BY <1>6 DEF IgnoreFrame, Forget, RouteSelf, TakeMsg
  <2>2. (\A k \in Host : Queued(k)' \subseteq Queued(k)) /\ QueueRising'
      BY <1>2, <2>1, QueueShrinks
  <2>3. \A k \in Host : Flushed(k)' = Flushed(k) /\ Dialled(k)' = Dialled(k)
      BY <2>1 DEF Flushed, Dialled
  <2>4. QED
      BY <2>1, <2>2, <2>3, OrderShrinks
<1>7. CASE SendNow \/ SendLater \/ StartConnect
  <2>0. PICK h \in Host, x \in Nat : /\ h = Head(msgs[S]).vfd /\ x = Head(msgs[S]).seq
                                     /\ IsRpc(Head(msgs[S]), h)
      BY <1>7, TakenRpc DEF SendNow, SendLater, StartConnect, IsRpc
  <2>1. /\ hub = "select" /\ msgs[S] # <<>> /\ msgs' = [msgs EXCEPT ![S] = Tail(@)]
        /\ UNCHANGED <<batch, sent>>
      BY <1>7 DEF SendNow, SendLater, StartConnect, TakeMsg
  <2>2. /\ \A k \in Host : Queued(k)' \subseteq Queued(k)
        /\ x \in Queued(h) /\ Before({x}, Queued(h)')
        /\ QueueRising'
      BY <1>2, <2>0, <2>1, QueueShrinks DEF Before
  <2>3. InLine(handed[h], {}, Elems(delay[h]), {}, Queued(h), sent[h])
      BY <1>1, <1>3, <2>1
  <2>4. /\ Elems(delay[h]) = {} => InLine(x, {}, {}, {}, Queued(h)', sent[h])
        /\ \A D1 \in SUBSET (Elems(delay[h]) \cup {x}) :
              InLine(handed[h], {}, D1, {}, Queued(h)', sent[h])
        /\ InLine(handed[h], {}, Elems(delay[h]), {x}, Queued(h)', sent[h])
      BY ONLY <2>2, <2>3, h \in Host, LineQueue
  <2>5. Rising(delay[h]) /\ Rising(batch)
      BY <1>1, <1>2
  <2>6. CASE SendNow
    <3>1. /\ hub' = "select" /\ UNCHANGED delay /\ senders[h] # None
          /\ handed' = [handed EXCEPT ![h] = x]
        BY <2>0, <2>1, <2>6 DEF SendNow, Hand
    <3>2. delay[h] = <<>> /\ Elems(delay[h]) = {}
        BY <3>1 DEF DelayOnlyUnsent, Elems
    <3>3. handed'[h] = x /\ \A k \in Host \ {h} : handed'[k] = handed[k]
        BY <3>1 DEF TypeInv
    <3>4. \A k : Flushed(k)' = {} /\ Dialled(k)' = {}
        BY <3>1 DEF Flushed, Dialled, Dialing
    <3>5. Line(h)'
        BY ONLY <2>1, <2>4, <3>1, <3>2, <3>3, <3>4 DEF Line
    <3>6. QED
        BY <2>1, <2>2, <2>5, <3>1, <3>3, <3>4, <3>5, OrderOne
  <2>7. CASE SendLater
    <3>1. /\ hub' = "select" /\ UNCHANGED handed /\ delay' = Delayed(h, x)
        BY <2>0, <2>1, <2>7 DEF SendLater
    <3>2. \A n \in Elems(delay[h]) : n < x
        BY <2>2, <2>3 DEF InLine, Before
    <3>3. /\ Rising(delay'[h]) /\ Elems(delay'[h]) \subseteq Elems(delay[h]) \cup {x}
          /\ \A k \in Host \ {h} : delay'[k] = delay[k]
        BY <2>5, <3>1, <3>2, DelayedRising
    <3>4. \A k : Flushed(k)' = {} /\ Dialled(k)' = {}
        BY <3>1 DEF Flushed, Dialled, Dialing
    <3>5. InLine(handed[h], {}, Elems(delay'[h]), {}, Queued(h)', sent[h])
        BY <2>4, <3>3
    <3>6. Line(h)'
        BY ONLY <2>1, <3>1, <3>4, <3>5 DEF Line
    <3>7. QED
        BY <2>1, <2>2, <2>5, <3>1, <3>3, <3>4, <3>6, OrderOne
  <2>8. CASE StartConnect
    <3>1. /\ hub' = "connect" /\ cur' = h /\ pending' = x /\ UNCHANGED <<handed, delay>>
        BY <2>0, <2>1, <2>8 DEF StartConnect
    <3>2. /\ \A k : Flushed(k)' = {}
          /\ Dialled(h)' = {x} /\ \A k \in Host \ {h} : Dialled(k)' = {}
        BY <3>1 DEF Flushed, Dialled, Dialing
    <3>3. Line(h)'
        BY ONLY <2>1, <2>4, <3>1, <3>2 DEF Line
    <3>4. QED
        BY <2>1, <2>2, <2>5, <3>1, <3>2, <3>3, OrderOne
  <2>9. QED
      BY <1>7, <2>6, <2>7, <2>8
<1>8. CASE ConnectFails \/ HandOver
  <2>0. PICK h \in Host : h = cur
      BY DEF TypeInv
  <2>1. /\ hub \in Dialing /\ hub' = "select" /\ delay' = Delayed(h, pending)
        /\ UNCHANGED <<msgs, batch, sent, handed>>
      BY <1>8, <2>0 DEF ConnectFails, HandOver, Register, Dialing, connVars
  <2>2. Dialled(h) = {pending} /\ Flushed(h) = {}
      BY <2>0, <2>1 DEF Dialled, Flushed, Dialing
  <2>3. InLine(handed[h], {}, Elems(delay[h]), {pending}, Queued(h), sent[h])
      BY <1>1, <2>2
  <2>4. \A n \in Elems(delay[h]) : n < pending
      BY <2>3 DEF InLine, Before
  <2>5. pending \in Nat
      BY DEF TypeInv
  <2>6. /\ Rising(delay'[h]) /\ Elems(delay'[h]) \subseteq Elems(delay[h]) \cup {pending}
        /\ \A k \in Host \ {h} : delay'[k] = delay[k]
      BY <1>1, <2>1, <2>4, <2>5, DelayedRising
  <2>7. \A k : Queued(k)' = Queued(k) /\ Flushed(k)' = {} /\ Dialled(k)' = {}
      BY <2>1 DEF Queued, Flushed, Dialled, Dialing
  <2>8. InLine(handed[h], {}, Elems(delay'[h]), {}, Queued(h), sent[h])
      BY ONLY <2>3, <2>6, LineDelay
  <2>9. Line(h)'
      BY ONLY <2>1, <2>7, <2>8 DEF Line
  <2>10. QueueRising'
      BY <1>2, <2>1 DEF QueueRising
  <2>11. QED
      BY <1>2, <2>1, <2>6, <2>7, <2>9, <2>10, OrderOne
<1>9. CASE Connected \/ Acquire \/ Tick
  <2>1. /\ UNCHANGED <<msgs, cur, pending, batch, delay, handed, sent>>
        /\ \/ UNCHANGED hub
           \/ hub \in Dialing /\ hub' \in Dialing
      BY <1>9
      DEF Connected, Build, Acquire, AcquirePermit, Tick, vars, connVars, rpcVars, Dialing
  <2>2. \A k \in Host : /\ Queued(k)' = Queued(k) /\ Flushed(k)' = Flushed(k)
                        /\ Dialled(k)' = Dialled(k)
      BY <2>1 DEF Queued, Flushed, Dialled, Dialing
  <2>3. QueueRising'
      BY <1>2, <2>1 DEF QueueRising
  <2>4. QED
      BY <2>1, <2>2, <2>3, OrderShrinks
<1>10. QED
    BY <1>4, <1>5, <1>6, <1>7, <1>8, <1>9 DEF HubStep

LEMMA OrderInit == Init => OrderInv
<1> SUFFICES ASSUME Init PROVE OrderInv
    OBVIOUS
<1>1. ASSUME NEW h \in Host PROVE Line(h)
  <2>1. /\ Elems(delay[h]) = {} /\ Flushed(h) = {} /\ Dialled(h) = {} /\ Queued(h) = {}
        /\ handed[h] = 0 /\ sent[h] = 0
      BY <1>1, Consts DEF Init, ConnInit, Elems, Flushed, Dialled, Dialing, Queued
  <2>2. QED
      BY <2>1 DEF Line, InLine, Before
<1>2. QED
    BY <1>1, Consts DEF Init, ConnInit, OrderInv, Rising, QueueRising

LEMMA OrderNext == Inv /\ OrderInv /\ [Next]_vars => OrderInv'
<1> SUFFICES ASSUME Inv, OrderInv, [Next]_vars PROVE OrderInv'
    OBVIOUS
<1>1. CASE HubStep
    BY <1>1, OrderHub
<1>2. ASSUME NEW h \in Host, ScriptSends(h) PROVE OrderInv'
    BY <1>2, OrderScript DEF Inv
<1>3. ASSUME NEW c \in Conn, ConnStep(c), UNCHANGED rpcVars PROVE OrderInv'
    BY <1>3, OrderConn DEF Inv
<1>4. CASE UNCHANGED vars
  <2>1. \A h : /\ Queued(h)' = Queued(h) /\ Flushed(h)' = Flushed(h)
               /\ Dialled(h)' = Dialled(h)
      BY <1>4 DEF vars, connVars, rpcVars, Queued, Flushed, Dialled
  <2>2. UNCHANGED <<delay, batch, handed, sent, msgs>>
      BY <1>4 DEF vars, connVars, rpcVars
  <2>3. QueueRising'
      BY <2>2 DEF OrderInv, QueueRising
  <2>4. QED
      BY <2>1, <2>2, <2>3, OrderShrinks DEF Inv
<1>5. QED
    BY <1>1, <1>2, <1>3, <1>4 DEF Next

(* The message tried on a connection is the head of the line. *)
LEMMA TriesInOrder ==
    ASSUME Inv, OrderInv, [Next]_vars, NEW h \in Host, handed'[h] # handed[h]
    PROVE  handed'[h] > handed[h]
<1>1. InLine(handed[h], Flushed(h), Elems(delay[h]), Dialled(h), Queued(h), sent[h])
    BY DEF OrderInv, Line
<1>2. CASE Flush
  <2>1. /\ hub = "flush" /\ batch # <<>>
        /\ handed' = [handed EXCEPT ![cur] = Head(batch)]
      BY <1>2 DEF Flush, Hand
  <2>2. h = cur /\ handed'[h] = Head(batch)
      BY <2>1 DEF Inv, TypeInv
  <2>3. Head(batch) \in Elems(batch)
      BY ONLY <2>1, Inv, TailSeq DEF Inv, TypeInv, Elems
  <2>4. Flushed(h) = Elems(batch)
      BY <2>1, <2>2 DEF Flushed
  <2>5. QED
      BY <1>1, <2>2, <2>3, <2>4 DEF InLine, Before, Inv, TypeInv
<1>3. CASE SendNow
  <2>0. PICK k \in Host, x \in Nat : /\ k = Head(msgs[S]).vfd /\ x = Head(msgs[S]).seq
                                     /\ IsRpc(Head(msgs[S]), k)
      BY <1>3, TakenRpc DEF SendNow, IsRpc, Inv
  <2>1. /\ msgs[S] # <<>> /\ msgs' = [msgs EXCEPT ![S] = Tail(@)]
        /\ handed' = [handed EXCEPT ![k] = x]
      BY <1>3, <2>0 DEF SendNow, TakeMsg, Hand
  <2>2. h = k /\ handed'[h] = x
      BY <2>1 DEF Inv, TypeInv
  <2>3. x \in Queued(h)
      BY <2>0, <2>1, <2>2, QueueShrinks DEF OrderInv, Inv
  <2>4. QED
      BY <1>1, <2>2, <2>3 DEF InLine, Before, Inv, TypeInv
<1>4. CASE HubStep /\ ~Flush /\ ~SendNow
    BY <1>4
    DEF HubStep, TakeConn, RouteSelf, SendLater, StartConnect, Forget, IgnoreFrame,
        ConnectFails, Connected, Acquire, HandOver, Tick, vars, rpcVars
<1>5. CASE \E k \in Host : ScriptSends(k)
    BY <1>5 DEF ScriptSends
<1>6. CASE UNCHANGED rpcVars
    BY <1>6 DEF rpcVars
<1>7. QED
    BY <1>2, <1>3, <1>4, <1>5, <1>6 DEF Next, vars

(* The messages of a host are tried on its connections in the order the     *)
(* script sent them and none twice, through the delay queue or around it    *)
(* (rpc_client_hub.rs:48-55, 96-137).                                       *)
THEOREM TriedInOrder == Spec => InOrder
<1>1. Inv /\ OrderInv /\ [Next]_vars =>
          [\A h \in Host : handed'[h] # handed[h] => handed'[h] > handed[h]]_vars
    BY TriesInOrder
<1>2. QED
    BY InvInit, InvNext, OrderInit, OrderNext, <1>1, PTL DEF Spec, InOrder

=============================================================================

---------------------------- MODULE Robot_proofs ----------------------------
(***************************************************************************)
(* The test client never waits for itself, and dispatches the frames of a  *)
(* robot in order, after its login is tried and before its close, for any  *)
(* number of robots, permits and places in the channels.                   *)
(***************************************************************************)
EXTENDS Robot, FiniteSetTheorems, SequenceTheorems, TLAPS

(* Only connections send to the message channel. *)
ConnMsg == {m \in Msg : m.from \in Conn}

(* TypeOK without the upper bound of permits, which follows from Account. *)
TypeInv ==
    /\ reader \in [Conn -> ReaderState]
    /\ writer \in [Conn -> WriterState]
    /\ inbox \in [Conn -> Seq(OutMsg)]
    /\ vfd \in [Conn -> Vfd]
    /\ readnum \in [Conn -> Nat]
    /\ permits \in [Srv -> Nat]
    /\ chan \in [Srv -> Seq(Conn)]
    /\ msgs \in [Srv -> Seq(ConnMsg)]
    /\ notified \in [Srv -> BOOLEAN]
    /\ hubUp \in BOOLEAN
    /\ hub \in {"dial", "acquire", "register", "select"}
    /\ next \in Nat \ {0}
    /\ known \subseteq Vfd
    /\ logins \subseteq Conn
    /\ dispatched \in [Conn -> Nat]
    /\ heard \subseteq Conn

Cur == <<S, next>>

(* The connection being dialled is the only one built and not running. *)
BuiltInv ==
    /\ hub \in {"acquire", "register"} =>
          next <= RobotNum /\ Cur \in Conn /\ reader[Cur] = "built"
    /\ \A c \in Conn : reader[c] = "built" => c = Cur /\ hub \in {"acquire", "register"}

Holders == {c \in Conn : \/ reader[c] \in {"run", "notify", "drop"}
                         \/ reader[c] = "built" /\ hub = "register"}
Account == permits[S] + Cardinality(Holders) = MaxConnection

(* While it dials, the task has used one permit and one place in its        *)
(* channel for each identity before next, at most.                          *)
Left == IF hub = "register" THEN MaxConnection - next ELSE MaxConnection - next + 1
RoomInv ==
    hub # "select" => permits[S] >= Left /\ Len(chan[S]) < next

(* The inductive invariant of DialsThrough and TypeOK. *)
Inv == TypeInv /\ BuiltInv /\ Account /\ RoomInv

-----------------------------------------------------------------------------
(* Facts about the constants and about sequences. *)

LEMMA Consts ==
    /\ S \in Srv /\ Ws = {}
    /\ \A c \in Conn : Home(c) = S /\ c[2] \in Nat /\ c = <<S, c[2]>>
    /\ \A s \in Srv : s = S
    /\ \A n \in Nat \ {0} : n <= RobotNum => <<S, n>> \in Conn /\ n \in Vfd
<1>1. /\ S \in Srv /\ Ws = {} /\ \A s \in Srv : s = S
    BY RobotAssumption DEF S
<1>2. \A c \in Conn : Home(c) = S /\ c[2] \in Nat /\ c = <<S, c[2]>>
    BY ConnAssumption, RobotAssumption DEF S, Home
<1>3. \A n \in Nat \ {0} : n <= RobotNum => n \in 1..RobotNum /\ n \in 0..RobotNum
    BY RobotAssumption
<1>4. \A n \in Nat \ {0} : n <= RobotNum => <<S, n>> \in Conn /\ n \in Vfd
    BY <1>3, RobotAssumption DEF S
<1>5. QED
    BY <1>1, <1>2, <1>4

LEMMA AppendSeq ==
    ASSUME NEW T, NEW q \in Seq(T), NEW e \in T
    PROVE  /\ Append(q, e) \in Seq(T)
           /\ DOMAIN q = 1..Len(q) /\ DOMAIN Append(q, e) = 1..(Len(q) + 1)
           /\ \A i \in 1..Len(q) : Append(q, e)[i] = q[i] /\ q[i] \in T
           /\ Append(q, e)[Len(q) + 1] = e
           /\ Len(q) \in Nat /\ Len(Append(q, e)) = Len(q) + 1
  OBVIOUS

LEMMA TailSeq ==
    ASSUME NEW T, NEW q \in Seq(T), q # <<>>
    PROVE  /\ Tail(q) \in Seq(T) /\ Head(q) \in T
           /\ 1 \in DOMAIN q /\ q[1] = Head(q) /\ DOMAIN Tail(q) \subseteq Nat \ {0}
           /\ \A i \in DOMAIN Tail(q) : i + 1 \in DOMAIN q /\ Tail(q)[i] = q[i + 1]
  OBVIOUS

LEMMA HoldersFinite == IsFiniteSet(Holders) /\ Cardinality(Holders) \in Nat
  BY ConnAssumption, FS_Subset, FS_CardinalityType DEF Holders

-----------------------------------------------------------------------------
(* What a step of a connection's tasks does to the state of the client: its *)
(* reader moves on, and at most one message is queued.                      *)

Stays(c) == UNCHANGED <<reader, readnum, msgs, permits>>
Reads(c) ==
    /\ reader[c] = "run"
    /\ readnum' = [readnum EXCEPT ![c] = @ + 1]
    /\ \/ msgs' = [msgs EXCEPT ![S] = Append(@, Frame(c))] /\ UNCHANGED reader
       \/ reader' = [reader EXCEPT ![c] = "notify"] /\ UNCHANGED msgs
       \/ UNCHANGED <<reader, msgs>>
    /\ UNCHANGED permits
Leaves(c) ==
    /\ reader[c] = "run"
    /\ reader' = [reader EXCEPT ![c] = "notify"]
    /\ UNCHANGED <<readnum, msgs, permits>>
Closes(c) ==
    /\ reader[c] = "notify"
    /\ reader' = [reader EXCEPT ![c] = "drop"]
    /\ \/ msgs' = [msgs EXCEPT ![S] = Append(@, Closed(c))]
       \/ UNCHANGED msgs
    /\ UNCHANGED <<readnum, permits>>
Drops(c) ==
    /\ reader[c] = "drop"
    /\ reader' = [reader EXCEPT ![c] = "gone"]
    /\ permits' = [permits EXCEPT ![S] = @ + 1]
    /\ UNCHANGED <<readnum, msgs>>

LEMMA ConnMoves ==
    ASSUME TypeInv, NEW c \in Conn, ConnStep(c)
    PROVE  /\ UNCHANGED <<vfd, chan, notified, hubUp>>
           /\ Stays(c) \/ Reads(c) \/ Leaves(c) \/ Closes(c) \/ Drops(c)
<1> USE Consts DEF Stays, Reads, Leaves, Closes, Drops
<1>1. CASE ReadFrame(c)
    BY <1>1 DEF ReadFrame
<1>2. CASE ReadFails(c) \/ WsReadFails(c) \/ ShutdownNotified(c)
    BY <1>2 DEF ReadFails, WsReadFails, ShutdownNotified, LeaveLoop
<1>3. CASE NotifyClosed(c)
    BY <1>3 DEF NotifyClosed
<1>4. CASE DropReader(c)
    BY <1>4 DEF DropReader
<1>5. CASE WriterRecv(c) \/ WsWriterRecv(c) \/ WriteOk(c) \/ WriteFails(c) \/ PairDropped(c)
    BY <1>5
    DEF WriterRecv, WsWriterRecv, WriteOk, WriteFails, PairDropped, EndWriter
<1>6. QED
    BY <1>1, <1>2, <1>3, <1>4, <1>5 DEF ConnStep

LEMMA ConnWriter ==
    ASSUME TypeInv, NEW c \in Conn, ConnStep(c)
    PROVE  writer' \in [Conn -> WriterState] /\ inbox' \in [Conn -> Seq(OutMsg)]
<1> USE Consts DEF TypeInv, WriterState
<1>1. CASE WriterRecv(c)
  <2>1. inbox' \in [Conn -> Seq(OutMsg)]
      BY <1>1, TailSeq DEF WriterRecv
  <2>2. writer' \in [Conn -> WriterState]
      BY <1>1 DEF WriterRecv
  <2>3. QED
      BY <2>1, <2>2
<1>2. CASE WriteOk(c)
    BY <1>2 DEF WriteOk
<1>3. CASE WriteFails(c) \/ PairDropped(c)
  <2>1. inbox' = [inbox EXCEPT ![c] = <<>>] /\ writer' = [writer EXCEPT ![c] = "done"]
      BY <1>3 DEF WriteFails, PairDropped, EndWriter
  <2>2. inbox' \in [Conn -> Seq(OutMsg)]
      BY <2>1, EmptySeq
  <2>3. writer' \in [Conn -> WriterState]
      BY <2>1
  <2>4. QED
      BY <2>2, <2>3
<1>4. CASE UNCHANGED <<writer, inbox>>
    BY <1>4
<1>5. QED
    BY <1>1, <1>2, <1>3, <1>4
    DEF ConnStep, ReadFrame, ReadFails, WsReadFails, ShutdownNotified, LeaveLoop,
        NotifyClosed, DropReader, WsWriterRecv

LEMMA FrameFacts ==
    ASSUME TypeInv, NEW c \in Conn
    PROVE  /\ Frame(c) \in ConnMsg /\ Frame(c).kind = "Tcp" /\ Frame(c).from = c
           /\ Frame(c).vfd = vfd[c] /\ Frame(c).seq = readnum[c] + 1
           /\ Closed(c) \in ConnMsg /\ Closed(c).kind = "SocketClosed"
           /\ Closed(c).from = c /\ Closed(c).vfd = vfd[c] /\ Closed(c).seq = readnum[c]
<1>1. vfd[c] \in Vfd /\ readnum[c] \in Nat /\ readnum[c] + 1 \in Nat /\ Home(c) = S
    BY Consts DEF TypeInv
<1>2. QED
    BY <1>1 DEF Frame, Closed, ConnMsg, Msg, S

-----------------------------------------------------------------------------
(* TypeInv. *)

LEMMA TypeInit == Init => TypeInv
<1> SUFFICES ASSUME Init PROVE TypeInv
    OBVIOUS
<1>1. \A T : <<>> \in Seq(T)
    OBVIOUS
<1>2. QED
    BY <1>1, Consts, ConnAssumption, RobotAssumption
    DEF Init, ConnInit, TypeInv, ReaderState, WriterState

LEMMA TypeConn ==
    ASSUME TypeInv, NEW c \in Conn, ConnStep(c), UNCHANGED robotVars
    PROVE  TypeInv'
<1>1. writer' \in [Conn -> WriterState] /\ inbox' \in [Conn -> Seq(OutMsg)]
    BY ConnWriter
<1>2. UNCHANGED <<vfd, chan, notified, hubUp>>
    BY ConnMoves
<1>3. reader' \in [Conn -> ReaderState]
  <2>1. \/ UNCHANGED reader
        \/ \E r \in ReaderState : reader' = [reader EXCEPT ![c] = r]
      BY ConnMoves DEF Stays, Reads, Leaves, Closes, Drops, ReaderState
  <2>2. QED
      BY <2>1 DEF TypeInv
<1>4. readnum' \in [Conn -> Nat]
  <2>1. \/ UNCHANGED readnum
        \/ readnum' = [readnum EXCEPT ![c] = @ + 1]
      BY ConnMoves DEF Stays, Reads, Leaves, Closes, Drops
  <2>2. QED
      BY <2>1 DEF TypeInv
<1>5. permits' \in [Srv -> Nat]
  <2>1. \/ UNCHANGED permits
        \/ permits' = [permits EXCEPT ![S] = @ + 1]
      BY ConnMoves DEF Stays, Reads, Leaves, Closes, Drops
  <2>2. QED
      BY <2>1, Consts DEF TypeInv
<1>6. msgs' \in [Srv -> Seq(ConnMsg)]
  <2>1. \/ UNCHANGED msgs
        \/ \E e \in ConnMsg : msgs' = [msgs EXCEPT ![S] = Append(@, e)]
      BY ConnMoves, FrameFacts DEF Stays, Reads, Leaves, Closes, Drops
  <2>2. ASSUME NEW e \in ConnMsg PROVE Append(msgs[S], e) \in Seq(ConnMsg)
      BY Consts DEF TypeInv
  <2>3. QED
      BY <2>1, <2>2 DEF TypeInv
<1>7. QED
    BY <1>1, <1>2, <1>3, <1>4, <1>5, <1>6 DEF TypeInv, robotVars

LEMMA TypeDial ==
    ASSUME TypeInv, BuiltInv, ConnectFails \/ Connected \/ Acquire \/ HandOver \/ DialDone
    PROVE  TypeInv'
<1>1. CASE ConnectFails \/ DialDone
    BY <1>1 DEF ConnectFails, DialDone, connVars, TypeInv
<1>2. CASE Connected
  <2>1. next \in Vfd
      BY <1>2, Consts DEF Connected, Dialling, TypeInv
  <2>2. /\ reader' \in [Conn -> ReaderState]
        /\ writer' \in [Conn -> WriterState]
        /\ vfd' \in [Conn -> Vfd]
      BY <1>2, <2>1 DEF Connected, Build, TypeInv, ReaderState, WriterState
  <2>3. QED
      BY <1>2, <2>2 DEF Connected, Build, TypeInv
<1>3. CASE Acquire
  <2>1. permits' \in [Srv -> Nat]
      BY <1>3, Consts DEF Acquire, AcquirePermit, TypeInv
  <2>2. QED
      BY <1>3, <2>1 DEF Acquire, AcquirePermit, TypeInv
<1>4. CASE HandOver
  <2>1. Cur \in Conn /\ Home(Cur) = S
      BY <1>4, Consts DEF HandOver, BuiltInv
  <2>2. chan' \in [Srv -> Seq(Conn)]
    <3>1. Append(chan[S], Cur) \in Seq(Conn)
        BY <2>1, Consts DEF TypeInv
    <3>2. chan' = [chan EXCEPT ![S] = Append(@, Cur)]
        BY <1>4, <2>1 DEF HandOver, Register, Cur
    <3>3. QED
        BY <3>1, <3>2 DEF TypeInv
  <2>3. reader' \in [Conn -> ReaderState]
      BY <1>4 DEF HandOver, Register, TypeInv, ReaderState
  <2>4. writer' \in [Conn -> WriterState]
      BY <1>4 DEF HandOver, Register, TypeInv, WriterState
  <2>5. QED
      BY <1>4, <2>2, <2>3, <2>4 DEF HandOver, Register, TypeInv
<1>5. QED
    BY <1>1, <1>2, <1>3, <1>4

LEMMA TypeTakeConn == ASSUME TypeInv, TakeConn PROVE TypeInv'
<1> DEFINE c == Head(chan[S])
<1>1. c \in Conn /\ vfd[c] \in Vfd /\ chan' \in [Srv -> Seq(Conn)]
    BY Consts, TailSeq DEF TakeConn, TypeInv
<1>2. [kind |-> "Tcp", vfd |-> vfd[c]] \in OutMsg
    BY <1>1 DEF OutMsg
<1>3. \A d \in Conn : Append(inbox[d], [kind |-> "Tcp", vfd |-> vfd[c]]) \in Seq(OutMsg)
    BY <1>2 DEF TypeInv
<1>4. inbox' \in [Conn -> Seq(OutMsg)]
    BY <1>3 DEF TakeConn, Sent, TypeInv
<1>5. QED
    BY <1>1, <1>4 DEF TakeConn, TypeInv

(* What a taken message is, and what the channel is without it. *)
LEMMA Taken ==
    ASSUME TypeInv, Dispatch \/ Dump \/ Forget
    PROVE  /\ msgs[S] # <<>> /\ msgs[S] \in Seq(ConnMsg) /\ Head(msgs[S]) \in ConnMsg
           /\ msgs' = [msgs EXCEPT ![S] = Tail(@)] /\ msgs' \in [Srv -> Seq(ConnMsg)]
           /\ UNCHANGED <<reader, writer, inbox, vfd, readnum, permits, chan, notified,
                          hubUp, hub, next, logins>>
           /\ hub = "select"
<1>1. /\ hub = "select" /\ msgs[S] # <<>> /\ msgs' = [msgs EXCEPT ![S] = Tail(@)]
      /\ UNCHANGED <<reader, writer, inbox, vfd, readnum, permits, chan, notified,
                     hubUp, hub, next, logins>>
    BY DEF Dispatch, Dump, Forget, TakeMsg
<1>2. msgs[S] \in Seq(ConnMsg)
    BY Consts DEF TypeInv
<1>3. Head(msgs[S]) \in ConnMsg /\ Tail(msgs[S]) \in Seq(ConnMsg)
    BY ONLY <1>1, <1>2, TailSeq
<1>4. msgs' \in [Srv -> Seq(ConnMsg)]
    BY <1>1, <1>3 DEF TypeInv
<1>5. QED
    BY <1>1, <1>2, <1>3, <1>4

LEMMA TypeMsg == ASSUME TypeInv, Dispatch \/ Dump \/ Forget PROVE TypeInv'
<1> DEFINE m == Head(msgs[S])
<1>1. /\ m \in ConnMsg /\ msgs' \in [Srv -> Seq(ConnMsg)]
      /\ UNCHANGED <<reader, writer, inbox, vfd, readnum, permits, chan, notified,
                     hubUp, hub, next, logins>>
    BY Taken
<1>2. m.vfd \in Vfd /\ m.seq \in Nat /\ m.from \in Conn
    BY <1>1 DEF ConnMsg, Msg
<1>3. CASE Dispatch
  <2>1. dispatched' \in [Conn -> Nat] /\ UNCHANGED <<known, heard>>
      BY <1>2, <1>3 DEF Dispatch, TypeInv
  <2>2. QED
      BY <1>1, <2>1 DEF TypeInv
<1>4. CASE Dump
    BY <1>1, <1>4 DEF Dump, TypeInv
<1>5. CASE Forget
  <2>2. known' \subseteq Vfd /\ UNCHANGED dispatched /\ heard' = heard \cup {m.from}
      BY <1>5 DEF Forget, TypeInv
  <2>3. QED
      BY <1>1, <1>2, <2>2 DEF TypeInv
<1>6. QED
    BY <1>3, <1>4, <1>5

-----------------------------------------------------------------------------
(* The other parts. *)

LEMMA BuiltSame ==
    ASSUME BuiltInv, UNCHANGED <<hub, next>>,
           \A c \in Conn : reader'[c] = "built" <=> reader[c] = "built"
    PROVE  BuiltInv'
  BY DEF BuiltInv, Cur

LEMMA ConnKeeps ==
    ASSUME Inv, NEW c \in Conn, ConnStep(c), UNCHANGED robotVars
    PROVE  BuiltInv' /\ Account' /\ RoomInv'
<1> USE DEF Inv
<1>1. \/ UNCHANGED <<reader, permits>>
      \/ /\ reader[c] \in {"run", "notify"} /\ UNCHANGED permits
         /\ \E r \in {"notify", "drop"} : reader' = [reader EXCEPT ![c] = r]
      \/ /\ reader[c] = "drop" /\ reader' = [reader EXCEPT ![c] = "gone"]
         /\ permits' = [permits EXCEPT ![S] = @ + 1]
    BY ConnMoves DEF Stays, Reads, Leaves, Closes, Drops
<1>2. \A d \in Conn : reader'[d] = "built" <=> reader[d] = "built"
    BY <1>1 DEF TypeInv
<1>3. BuiltInv'
    BY <1>2, BuiltSame DEF robotVars
<1>4. permits[S] \in Nat
    BY Consts DEF TypeInv
<1>5. RoomInv'
  <2>1. permits'[S] >= permits[S]
      BY <1>1, <1>4, Consts DEF TypeInv
  <2>2. UNCHANGED <<chan, hub, next>>
      BY ConnMoves DEF robotVars
  <2>3. hub # "select" => permits'[S] >= Left
    <3>1. next \in Nat /\ MaxConnection \in Nat /\ permits'[S] \in Nat
        BY TypeConn, ConnAssumption, Consts DEF TypeInv
    <3>2. hub # "select" => permits[S] >= Left
        BY DEF RoomInv
    <3>3. QED
        BY ONLY <1>4, <2>1, <3>1, <3>2 DEF Left
  <2>4. QED
      BY <2>2, <2>3 DEF RoomInv, Left
<1>6. Account'
  <2>1. CASE UNCHANGED permits
    <3>1. \/ UNCHANGED reader
          \/ /\ reader[c] \in {"run", "notify"}
             /\ \E r \in {"notify", "drop"} : reader' = [reader EXCEPT ![c] = r]
      <4>1. permits' # [permits EXCEPT ![S] = @ + 1]
          BY <1>4, <2>1, Consts DEF TypeInv
      <4>2. QED
          BY <1>1, <4>1
    <3>3. Holders' = Holders
        BY <3>1 DEF Holders, TypeInv, robotVars
    <3>2. QED
        BY <2>1, <3>3 DEF Account
  <2>2. CASE permits' = [permits EXCEPT ![S] = @ + 1]
    <3>1. reader[c] = "drop" /\ reader' = [reader EXCEPT ![c] = "gone"] /\ UNCHANGED hub
        BY <1>1, <1>4, <2>2, Consts DEF TypeInv, robotVars
    <3>2. c \in Holders /\ Holders' = Holders \ {c}
        BY <3>1 DEF Holders, TypeInv
    <3>3. Cardinality(Holders') = Cardinality(Holders) - 1
        BY ONLY <3>2, HoldersFinite, FS_RemoveElement
    <3>4. permits'[S] = permits[S] + 1
        BY <2>2, Consts DEF TypeInv
    <3>5. QED
        BY ONLY <1>4, <3>3, <3>4, Account, HoldersFinite DEF Account
  <2>3. QED
      BY <1>1, <2>1, <2>2
<1>7. QED
    BY <1>3, <1>5, <1>6

LEMMA DialKeeps ==
    ASSUME Inv, ConnectFails \/ Connected \/ Acquire \/ HandOver \/ DialDone
    PROVE  BuiltInv' /\ Account' /\ RoomInv'
<1> USE DEF Inv
<1>0. /\ permits[S] \in Nat /\ next \in Nat \ {0} /\ MaxConnection \in Nat
      /\ Len(chan[S]) \in Nat /\ permits \in [Srv -> Nat] /\ S \in Srv
    BY Consts, ConnAssumption DEF TypeInv
<1>1. CASE ConnectFails \/ DialDone
  <2>1. /\ hub = "dial" /\ hub' \in {"dial", "select"} /\ UNCHANGED <<reader, permits, chan>>
        /\ next' \in {next, next + 1}
      BY <1>1 DEF ConnectFails, DialDone, connVars
  <2>2. BuiltInv'
      BY <2>1 DEF BuiltInv
  <2>3. Account'
      BY <2>1 DEF Account, Holders
  <2>4. RoomInv'
      BY <1>0, <2>1 DEF RoomInv, Left
  <2>5. QED
      BY <2>2, <2>3, <2>4
<1>2. CASE Connected
  <2>1. /\ hub = "dial" /\ hub' = "acquire" /\ next <= RobotNum
        /\ reader[Cur] = "none" /\ reader' = [reader EXCEPT ![Cur] = "built"]
        /\ UNCHANGED <<permits, chan, next>>
      BY <1>2 DEF Connected, Build, Dialling, Cur
  <2>2. Cur \in Conn
      BY <1>0, <2>1, Consts DEF Cur
  <2>3. BuiltInv'
      BY <2>1, <2>2 DEF BuiltInv, Cur, TypeInv
  <2>4. Account'
      BY <2>1, <2>2 DEF Account, Holders, TypeInv
  <2>5. RoomInv'
      BY <1>0, <2>1 DEF RoomInv, Left
  <2>6. QED
      BY <2>3, <2>4, <2>5
<1>3. CASE Acquire
  <2>1. /\ hub = "acquire" /\ hub' = "register" /\ UNCHANGED <<reader, chan, next>>
        /\ permits' = [permits EXCEPT ![S] = @ - 1]
      BY <1>3 DEF Acquire, AcquirePermit
  <2>2. permits'[S] = permits[S] - 1
      BY <1>0, <2>1
  <2>3. BuiltInv'
      BY <2>1 DEF BuiltInv, Cur
  <2>4. Cur \in Conn /\ Cur \notin Holders /\ Holders' = Holders \cup {Cur}
      BY <2>1 DEF BuiltInv, Holders
  <2>5. Cardinality(Holders') = Cardinality(Holders) + 1
      BY ONLY <2>4, HoldersFinite, FS_AddElement
  <2>6. Account'
      BY ONLY <1>0, <2>2, <2>5, Account, HoldersFinite DEF Account
  <2>7. RoomInv'
      BY <1>0, <2>1, <2>2 DEF RoomInv, Left
  <2>8. QED
      BY <2>3, <2>6, <2>7
<1>4. CASE HandOver
  <2>1. Cur \in Conn /\ Home(Cur) = S /\ reader[Cur] = "built"
      BY <1>4, Consts DEF HandOver, BuiltInv
  <2>2. /\ hub = "register" /\ hub' = "dial" /\ next' = next + 1
        /\ reader' = [reader EXCEPT ![Cur] = "run"] /\ UNCHANGED permits
        /\ chan' = [chan EXCEPT ![S] = Append(@, Cur)]
      BY <1>4, <2>1 DEF HandOver, Register, Cur
  <2>3. BuiltInv'
      BY <2>2 DEF BuiltInv, TypeInv
  <2>4. Holders' = Holders
      BY <2>1, <2>2 DEF Holders, BuiltInv, TypeInv
  <2>5. Account'
      BY <2>2, <2>4 DEF Account
  <2>6. Len(chan'[S]) = Len(chan[S]) + 1
      BY <2>1, <2>2, <1>0, AppendSeq DEF TypeInv
  <2>7. RoomInv'
      BY <1>0, <2>2, <2>6 DEF RoomInv, Left
  <2>8. QED
      BY <2>3, <2>5, <2>7
<1>5. QED
    BY <1>1, <1>2, <1>3, <1>4

LEMMA SelectKeeps ==
    ASSUME Inv, TakeConn \/ Dispatch \/ Dump \/ Forget
    PROVE  BuiltInv' /\ Account' /\ RoomInv'
<1>1. hub = "select" /\ UNCHANGED <<reader, permits, hub, next>>
    BY DEF TakeConn, Dispatch, Dump, Forget, TakeMsg
<1>2. QED
    BY <1>1 DEF Inv, BuiltInv, Cur, Account, Holders, RoomInv

LEMMA InvInit == Init => Inv
<1> SUFFICES ASSUME Init PROVE Inv
    OBVIOUS
<1>1. BuiltInv
    BY DEF Init, ConnInit, BuiltInv
<1>2. Holders = {}
    BY DEF Init, ConnInit, Holders
<1>3. Account
    BY <1>2, FS_EmptySet, ConnAssumption, Consts DEF Init, ConnInit, Account
<1>4. RoomInv
    BY ConnAssumption, Consts DEF Init, ConnInit, RoomInv, Left
<1>5. QED
    BY <1>1, <1>3, <1>4, TypeInit DEF Inv

LEMMA InvNext == Inv /\ [Next]_vars => Inv'
<1> SUFFICES ASSUME Inv, [Next]_vars PROVE Inv'
    OBVIOUS
<1>1. CASE ConnectFails \/ Connected \/ Acquire \/ HandOver \/ DialDone
    BY <1>1, TypeDial, DialKeeps DEF Inv
<1>2. CASE TakeConn \/ Dispatch \/ Dump \/ Forget
    BY <1>2, TypeTakeConn, TypeMsg, SelectKeeps DEF Inv
<1>3. ASSUME NEW c \in Conn, ConnStep(c), UNCHANGED robotVars PROVE Inv'
    BY <1>3, TypeConn, ConnKeeps DEF Inv
<1>4. CASE UNCHANGED vars
  <2>1. TypeInv'
      BY <1>4 DEF vars, connVars, robotVars, Inv, TypeInv
  <2>2. BuiltInv' /\ Account' /\ RoomInv'
      BY <1>4
      DEF vars, connVars, robotVars, Inv, BuiltInv, Cur, Account, Holders, RoomInv, Left
  <2>3. QED
      BY <2>1, <2>2 DEF Inv
<1>5. QED
    BY <1>1, <1>2, <1>3, <1>4 DEF Next

(* The task never waits for a permit or for room that only it could make,   *)
(* for any number of robots up to conn_chan_size and max_connection         *)
(* (src/robot/src/services/client_hub.rs:93-111).                           *)
THEOREM NeverWaitsForItself == Spec => []DialsThrough
<1>1. Inv => DialsThrough
  <2> SUFFICES ASSUME Inv PROVE DialsThrough
      OBVIOUS
  <2>1. /\ permits[S] \in Nat /\ next \in Nat /\ Len(chan[S]) \in Nat
        /\ hub \in {"acquire", "register"} => next <= RobotNum
        /\ hub # "select" => permits[S] >= Left /\ Len(chan[S]) < next
      BY Consts DEF Inv, TypeInv, BuiltInv, RoomInv
  <2>2. QED
      BY ONLY <2>1, ConnAssumption, RobotAssumption DEF DialsThrough, Left
<1>2. QED
    BY InvInit, InvNext, <1>1, PTL DEF Spec

(* Every reachable state is well typed; in particular the permits balance.  *)
THEOREM TypeCorrect == Spec => []TypeOK
<1>1. Inv => TypeOK
  <2> SUFFICES ASSUME Inv PROVE TypeOK
      OBVIOUS
  <2>1. \A s \in Srv : permits[s] \in 0..MaxConnection
      BY Consts, HoldersFinite, ConnAssumption DEF Inv, Account, TypeInv
  <2>2. permits \in [Srv -> 0..(MaxConnection + 1)] /\ permits[S] <= MaxConnection
      BY <2>1, Consts, ConnAssumption DEF Inv, TypeInv
  <2>3. msgs \in [Srv -> Seq(Msg)]
    <3>1. \A q : q \in Seq(ConnMsg) => q \in Seq(Msg)
        BY DEF ConnMsg
    <3>2. QED
        BY <3>1 DEF Inv, TypeInv
  <2>4. QED
      BY <2>2, <2>3 DEF Inv, TypeInv, TypeOK, ConnTypeOK
<1>2. QED
    BY InvInit, InvNext, <1>1, PTL DEF Spec

-----------------------------------------------------------------------------
(* AnswersLogin.  A connection carries its identity, an identity that is    *)
(* known has been logged in, and what is queued of a connection has not     *)
(* been dispatched, is in the order read and is not of a closed one.        *)

Fresh(m) ==
    /\ m.vfd = m.from[2]
    /\ m.from \notin heard
    /\ reader[m.from] # "none"
    /\ m.seq <= readnum[m.from]
    /\ m.kind = "Tcp" => dispatched[m.from] < m.seq
    /\ m.kind = "SocketClosed" => reader[m.from] \in {"drop", "gone"}

Follows(m, n) ==
    m.from = n.from => m.kind # "SocketClosed" /\ (n.kind = "Tcp" => m.seq < n.seq)

QueueInv ==
    /\ \A i \in DOMAIN msgs[S] : Fresh(msgs[S][i])
    /\ \A i, j \in DOMAIN msgs[S] : i < j => Follows(msgs[S][i], msgs[S][j])

LoginInv ==
    /\ \A c \in Conn : reader[c] # "none" => vfd[c] = c[2]
    /\ \A i \in DOMAIN chan[S] : reader[chan[S][i]] # "none"
    /\ \A v \in known : <<S, v>> \in logins
    /\ \A c \in Conn : dispatched[c] <= readnum[c]
    /\ \A c \in heard : reader[c] \in {"drop", "gone"}

LEMMA QueueTail ==
    ASSUME TypeInv, QueueInv, Dispatch \/ Dump \/ Forget
    PROVE  /\ Fresh(Head(msgs[S]))
           /\ \A i \in DOMAIN msgs'[S] : /\ Fresh(msgs'[S][i])
                                         /\ Follows(Head(msgs[S]), msgs'[S][i])
           /\ \A i, j \in DOMAIN msgs'[S] : i < j => Follows(msgs'[S][i], msgs'[S][j])
<1> DEFINE q == msgs[S]
           p == Tail(q)
<1>1. q \in Seq(ConnMsg) /\ q # <<>> /\ msgs'[S] = p
    BY Taken, Consts DEF TypeInv
<1>2. /\ \A i \in DOMAIN p : i + 1 \in DOMAIN q /\ p[i] = q[i + 1]
      /\ DOMAIN p \subseteq Nat \ {0} /\ 1 \in DOMAIN q /\ q[1] = Head(q)
    BY ONLY <1>1, TailSeq
<1>3. /\ \A i \in DOMAIN q : Fresh(q[i])
      /\ \A i, j \in DOMAIN q : i < j => Follows(q[i], q[j])
    BY DEF QueueInv
<1> HIDE DEF q, p
<1>4. \A i \in DOMAIN p : 1 < i + 1
    BY <1>2
<1>5. \A i, j \in DOMAIN p : i < j => i + 1 < j + 1
    BY <1>2
<1>6. /\ Fresh(Head(q))
      /\ \A i \in DOMAIN p : Fresh(p[i]) /\ Follows(Head(q), p[i])
      /\ \A i, j \in DOMAIN p : i < j => Follows(p[i], p[j])
    BY ONLY <1>2, <1>3, <1>4, <1>5
<1>7. QED
    BY ONLY <1>1, <1>6 DEF q

(* No connection's life runs backwards. *)
Grows ==
    \A d \in Conn :
        /\ reader[d] # "none" => reader'[d] # "none"
        /\ reader[d] \in {"drop", "gone"} => reader'[d] \in {"drop", "gone"}
        /\ readnum'[d] \in Nat /\ readnum[d] <= readnum'[d]

LEMMA FreshKept ==
    ASSUME TypeInv, Grows, NEW m \in ConnMsg, Fresh(m), m.from \notin heard',
           m.kind = "Tcp" => dispatched'[m.from] < m.seq
    PROVE  Fresh(m)'
<1>1. m.from \in Conn /\ m.seq \in Nat
    BY DEF ConnMsg, Msg
<1>2. readnum[m.from] \in Nat /\ readnum'[m.from] \in Nat
      /\ readnum[m.from] <= readnum'[m.from]
    BY <1>1 DEF Grows, TypeInv
<1>3. m.seq <= readnum'[m.from]
    BY <1>1, <1>2 DEF Fresh
<1>4. /\ reader'[m.from] # "none"
      /\ m.kind = "SocketClosed" => reader'[m.from] \in {"drop", "gone"}
    BY <1>1 DEF Fresh, Grows
<1>5. m.vfd = m.from[2]
    BY DEF Fresh
<1>6. QED
    BY <1>3, <1>4, <1>5 DEF Fresh

LEMMA QueueAgain ==
    ASSUME \A i \in DOMAIN msgs'[S] : \E m \in ConnMsg : m = msgs'[S][i] /\ Fresh(m)',
           \A i, j \in DOMAIN msgs'[S] : i < j => Follows(msgs'[S][i], msgs'[S][j])
    PROVE  QueueInv'
<1>1. ASSUME NEW i \in DOMAIN msgs'[S] PROVE Fresh(msgs[S][i])'
  <2>1. PICK m \in ConnMsg : m = msgs'[S][i] /\ Fresh(m)'
      BY <1>1
  <2>2. QED
      BY <2>1 DEF Fresh
<1>2. QED
    BY <1>1 DEF QueueInv, Follows

LEMMA QueueSame ==
    ASSUME TypeInv, QueueInv, Grows, UNCHANGED <<msgs, dispatched, heard>>
    PROVE  QueueInv'
<1>1. ASSUME NEW i \in DOMAIN msgs'[S]
      PROVE  \E m \in ConnMsg : m = msgs'[S][i] /\ Fresh(m)'
  <2>1. PICK m \in ConnMsg : m = msgs[S][i]
      BY <1>1, Consts DEF TypeInv
  <2>2. Fresh(m)
      BY <1>1, <2>1 DEF QueueInv
  <2>3. m.from \notin heard' /\ (m.kind = "Tcp" => dispatched'[m.from] < m.seq)
      BY <2>2 DEF Fresh
  <2>4. QED
      BY <2>1, <2>2, <2>3, FreshKept
<1>2. QED
    BY <1>1, QueueAgain DEF QueueInv

LEMMA QueueAppend ==
    ASSUME TypeInv, QueueInv, Grows, UNCHANGED <<dispatched, heard>>,
           NEW e \in ConnMsg, msgs' = [msgs EXCEPT ![S] = Append(@, e)], Fresh(e)',
           \A m \in ConnMsg : Fresh(m) => Follows(m, e)
    PROVE  QueueInv'
<1> DEFINE q == msgs[S]
<1>1. q \in Seq(ConnMsg) /\ msgs'[S] = Append(q, e)
    BY Consts DEF TypeInv
<1>2. /\ DOMAIN q = 1..Len(q) /\ DOMAIN msgs'[S] = 1..(Len(q) + 1)
      /\ \A i \in 1..Len(q) : msgs'[S][i] = q[i] /\ q[i] \in ConnMsg
      /\ msgs'[S][Len(q) + 1] = e /\ Len(q) \in Nat
    BY ONLY <1>1, AppendSeq, e \in ConnMsg
<1>3. \A i \in 1..Len(q) : Fresh(q[i])
    BY <1>2 DEF QueueInv
<1>4. \A i, j \in 1..Len(q) : i < j => Follows(q[i], q[j])
    BY <1>2 DEF QueueInv
<1>5. ASSUME NEW i \in DOMAIN msgs'[S]
      PROVE  \E m \in ConnMsg : m = msgs'[S][i] /\ Fresh(m)'
  <2>1. CASE i = Len(q) + 1
      BY <1>2, <2>1
  <2>2. CASE i \in 1..Len(q)
    <3>1. PICK m \in ConnMsg : m = q[i] /\ m = msgs'[S][i]
        BY <1>2, <2>2
    <3>2. Fresh(m)
        BY <1>3, <2>2, <3>1
    <3>3. m.from \notin heard' /\ (m.kind = "Tcp" => dispatched'[m.from] < m.seq)
        BY <3>2 DEF Fresh
    <3>4. QED
        BY <3>1, <3>2, <3>3, FreshKept
  <2>3. QED
      BY <1>2, <1>5, <2>1, <2>2
<1>6. \A i \in 1..Len(q) : Follows(q[i], e)
    BY <1>2, <1>3
<1> HIDE DEF q
<1>7. ASSUME NEW i \in DOMAIN msgs'[S], NEW j \in DOMAIN msgs'[S], i < j
      PROVE  Follows(msgs'[S][i], msgs'[S][j])
  <2>1. i \in 1..Len(q) /\ msgs'[S][i] = q[i]
      BY <1>2, <1>7
  <2>2. CASE j \in 1..Len(q)
      BY <1>2, <1>4, <1>7, <2>1, <2>2
  <2>3. CASE j = Len(q) + 1
      BY <1>2, <1>6, <2>1, <2>3
  <2>4. QED
      BY <1>2, <1>7, <2>2, <2>3
<1>8. QED
    BY <1>5, <1>7, QueueAgain

(* The steps of a connection's tasks. *)
LEMMA ConnGrows ==
    ASSUME TypeInv, NEW c \in Conn, ConnStep(c)
    PROVE  /\ Grows
           /\ \A d \in Conn : reader'[d] # "none" => reader[d] # "none"
<1>1. \/ UNCHANGED reader
      \/ reader[c] \in {"run", "notify"} /\ reader' = [reader EXCEPT ![c] = "notify"]
      \/ reader[c] \in {"notify", "drop"} /\ \E r \in {"drop", "gone"} : reader' = [reader EXCEPT ![c] = r]
    BY ConnMoves DEF Stays, Reads, Leaves, Closes, Drops
<1>2. UNCHANGED readnum \/ readnum' = [readnum EXCEPT ![c] = @ + 1]
    BY ConnMoves DEF Stays, Reads, Leaves, Closes, Drops
<1>3. \A d \in Conn : readnum'[d] \in Nat /\ readnum[d] <= readnum'[d]
  <2>1. ASSUME NEW d \in Conn PROVE readnum'[d] \in {readnum[d], readnum[d] + 1}
      BY <1>2 DEF TypeInv
  <2>2. \A d \in Conn : readnum[d] \in Nat
      BY DEF TypeInv
  <2>3. QED
      BY ONLY <2>1, <2>2
<1>4. \A d \in Conn :
        /\ reader[d] # "none" <=> reader'[d] # "none"
        /\ reader[d] \in {"drop", "gone"} => reader'[d] \in {"drop", "gone"}
    BY <1>1 DEF TypeInv
<1>5. QED
    BY <1>3, <1>4 DEF Grows

LEMMA QueueConn ==
    ASSUME TypeInv, LoginInv, QueueInv, NEW c \in Conn, ConnStep(c), UNCHANGED robotVars
    PROVE  QueueInv'
<1>1. Grows /\ UNCHANGED <<vfd, dispatched, heard>>
    BY ConnGrows, ConnMoves DEF robotVars
<1>2. readnum[c] \in Nat /\ dispatched[c] \in Nat /\ dispatched[c] <= readnum[c]
    BY DEF TypeInv, LoginInv
<1>3. CASE UNCHANGED msgs
    BY <1>1, <1>3, QueueSame
<1>4. CASE Reads(c) /\ msgs' = [msgs EXCEPT ![S] = Append(@, Frame(c))]
  <2>1. PICK e \in ConnMsg : e = Frame(c)
      BY FrameFacts
  <2>2. /\ e.kind = "Tcp" /\ e.from = c /\ e.seq = readnum[c] + 1 /\ e.vfd = vfd[c]
        /\ readnum'[c] = readnum[c] + 1 /\ reader[c] = "run" /\ reader'[c] # "none"
      BY <1>1, <1>4, <2>1, FrameFacts DEF Reads, Grows, TypeInv
  <2>3. e.vfd = c[2] /\ c \notin heard
      BY <2>2 DEF LoginInv
  <2>4. Fresh(e)'
      BY <1>1, <1>2, <2>2, <2>3 DEF Fresh
  <2>5. \A m \in ConnMsg : Fresh(m) => Follows(m, e)
      BY <1>2, <2>2 DEF Fresh, Follows, ConnMsg, Msg
  <2>6. QED
      BY <1>1, <1>4, <2>1, <2>4, <2>5, QueueAppend
<1>5. CASE Closes(c) /\ msgs' = [msgs EXCEPT ![S] = Append(@, Closed(c))]
  <2>1. PICK e \in ConnMsg : e = Closed(c)
      BY FrameFacts
  <2>2. /\ e.kind = "SocketClosed" /\ e.from = c /\ e.seq = readnum[c] /\ e.vfd = vfd[c]
        /\ readnum'[c] = readnum[c] /\ reader[c] = "notify" /\ reader'[c] = "drop"
      BY <1>5, <2>1, FrameFacts DEF Closes, TypeInv
  <2>3. e.vfd = c[2] /\ c \notin heard
      BY <2>2 DEF LoginInv
  <2>4. Fresh(e)'
      BY <1>1, <1>2, <2>2, <2>3 DEF Fresh
  <2>5. \A m \in ConnMsg : Fresh(m) => Follows(m, e)
      BY <2>2 DEF Fresh, Follows
  <2>6. QED
      BY <1>1, <1>5, <2>1, <2>4, <2>5, QueueAppend
<1>6. QED
    BY <1>3, <1>4, <1>5, ConnMoves DEF Stays, Reads, Leaves, Closes, Drops

LEMMA LoginConn ==
    ASSUME TypeInv, LoginInv, NEW c \in Conn, ConnStep(c), UNCHANGED robotVars
    PROVE  LoginInv'
<1>1. /\ UNCHANGED <<vfd, chan, known, logins, dispatched, heard>> /\ Grows
      /\ \A d \in Conn : reader'[d] # "none" => reader[d] # "none"
    BY ConnGrows, ConnMoves DEF robotVars
<1>2. \A d \in Conn : reader'[d] # "none" => vfd'[d] = d[2]
    BY <1>1 DEF LoginInv
<1>3. \A i \in DOMAIN chan'[S] : reader'[chan'[S][i]] # "none"
  <2>1. \A i \in DOMAIN chan[S] : chan[S][i] \in Conn
      BY Consts DEF TypeInv
  <2>2. QED
      BY <1>1, <2>1 DEF LoginInv, Grows
<1>4. \A d \in Conn : dispatched'[d] <= readnum'[d]
    BY <1>1 DEF LoginInv, Grows, TypeInv
<1>5. \A d \in heard' : reader'[d] \in {"drop", "gone"}
    BY <1>1 DEF LoginInv, Grows, TypeInv
<1>6. QED
    BY <1>1, <1>2, <1>3, <1>4, <1>5 DEF LoginInv

(* The steps of the dialling loop. *)
LEMMA LoginDial ==
    ASSUME TypeInv, BuiltInv, LoginInv,
           ConnectFails \/ Connected \/ Acquire \/ HandOver \/ DialDone
    PROVE  /\ LoginInv' /\ Grows
           /\ UNCHANGED <<msgs, dispatched, heard>>
<1>1. UNCHANGED <<readnum, msgs, known, logins, dispatched, heard>>
    BY DEF ConnectFails, Connected, Acquire, HandOver, DialDone, connVars, Build,
           AcquirePermit, Register
<1>2. CASE ConnectFails \/ Acquire \/ DialDone
  <2>1. UNCHANGED <<reader, vfd, chan>>
      BY <1>2 DEF ConnectFails, Acquire, DialDone, connVars, AcquirePermit
  <2>2. QED
      BY <1>1, <2>1 DEF LoginInv, Grows, TypeInv
<1>3. CASE Connected
  <2>1. /\ Cur \in Conn /\ Cur[2] = next /\ reader[Cur] = "none"
        /\ reader' = [reader EXCEPT ![Cur] = "built"] /\ vfd' = [vfd EXCEPT ![Cur] = next]
        /\ UNCHANGED chan
      BY <1>3, Consts DEF Connected, Build, Dialling, Cur, TypeInv
  <2>2. \A d \in Conn : /\ d # Cur => reader'[d] = reader[d] /\ vfd'[d] = vfd[d]
                        /\ reader'[Cur] = "built" /\ vfd'[Cur] = Cur[2]
      BY <2>1 DEF TypeInv
  <2>3. Grows
      BY <1>1, <2>1, <2>2 DEF Grows, TypeInv
  <2>4. \A d \in Conn : reader'[d] # "none" => vfd'[d] = d[2]
      BY <2>2 DEF LoginInv
  <2>5. \A i \in DOMAIN chan'[S] : reader'[chan'[S][i]] # "none"
    <3>1. \A i \in DOMAIN chan[S] : chan[S][i] \in Conn
        BY Consts DEF TypeInv
    <3>2. QED
        BY <2>1, <2>3, <3>1 DEF LoginInv, Grows
  <2>6. \A d \in heard' : reader'[d] \in {"drop", "gone"}
      BY <1>1, <2>3 DEF LoginInv, Grows, TypeInv
  <2>7. QED
      BY <1>1, <2>3, <2>4, <2>5, <2>6 DEF LoginInv
<1>4. CASE HandOver
  <2>1. Cur \in Conn /\ reader[Cur] = "built"
      BY <1>4 DEF HandOver, BuiltInv
  <2>2. /\ reader' = [reader EXCEPT ![Cur] = "run"] /\ UNCHANGED vfd
        /\ chan' = [chan EXCEPT ![S] = Append(@, Cur)]
      BY <1>4, <2>1, Consts DEF HandOver, Register, Cur
  <2>3. \A d \in Conn : (d # Cur => reader'[d] = reader[d]) /\ reader'[Cur] = "run"
      BY <2>1, <2>2 DEF TypeInv
  <2>4. Grows
      BY <1>1, <2>1, <2>3 DEF Grows, TypeInv
  <2>5. \A d \in Conn : reader'[d] # "none" => vfd'[d] = d[2]
      BY <2>1, <2>2, <2>3 DEF LoginInv
  <2>6. \A i \in DOMAIN chan'[S] : reader'[chan'[S][i]] # "none"
    <3>1. chan[S] \in Seq(Conn) /\ chan'[S] = Append(chan[S], Cur)
        BY <2>2, Consts DEF TypeInv
    <3>2. /\ DOMAIN chan[S] = 1..Len(chan[S]) /\ DOMAIN chan'[S] = 1..(Len(chan[S]) + 1)
          /\ \A i \in 1..Len(chan[S]) : chan'[S][i] = chan[S][i] /\ chan[S][i] \in Conn
          /\ chan'[S][Len(chan[S]) + 1] = Cur /\ Len(chan[S]) \in Nat
        BY ONLY <2>1, <3>1, AppendSeq
    <3>3. \A i \in 1..Len(chan[S]) : reader'[chan'[S][i]] # "none"
        BY <2>4, <3>2 DEF LoginInv, Grows
    <3>4. reader'[chan'[S][Len(chan[S]) + 1]] # "none"
        BY <2>1, <2>3, <3>2
    <3>5. QED
        BY <3>2, <3>3, <3>4
  <2>7. \A d \in heard' : reader'[d] \in {"drop", "gone"}
      BY <1>1, <2>4 DEF LoginInv, Grows, TypeInv
  <2>8. QED
      BY <1>1, <2>2, <2>4, <2>5, <2>6, <2>7 DEF LoginInv
<1>5. QED
    BY <1>2, <1>3, <1>4

LEMMA LoginTakeConn ==
    ASSUME TypeInv, LoginInv, TakeConn
    PROVE  /\ LoginInv' /\ Grows
           /\ UNCHANGED <<msgs, dispatched, heard>>
<1> DEFINE c == Head(chan[S])
<1>1. /\ UNCHANGED <<reader, vfd, readnum, msgs, dispatched, heard>>
      /\ known' = known \cup {vfd[c]} /\ logins' = logins \cup {c}
      /\ chan[S] \in Seq(Conn) /\ chan[S] # <<>> /\ chan'[S] = Tail(chan[S])
    BY Consts DEF TakeConn, TypeInv
<1>2. /\ c \in Conn /\ 1 \in DOMAIN chan[S] /\ chan[S][1] = c
      /\ \A i \in DOMAIN chan'[S] : i + 1 \in DOMAIN chan[S] /\ chan'[S][i] = chan[S][i + 1]
    BY ONLY <1>1, TailSeq
<1>3. vfd[c] = c[2] /\ c = <<S, c[2]>>
    BY <1>2, Consts DEF LoginInv
<1>4. \A v \in known' : <<S, v>> \in logins'
    BY <1>1, <1>3 DEF LoginInv
<1>5. \A i \in DOMAIN chan'[S] : reader'[chan'[S][i]] # "none"
    BY <1>1, <1>2 DEF LoginInv
<1>6. Grows
    BY <1>1 DEF Grows, TypeInv
<1>7. QED
    BY <1>1, <1>4, <1>5, <1>6 DEF LoginInv

(* The steps that take a message. *)
LEMMA LoginMsg ==
    ASSUME TypeInv, LoginInv, QueueInv, Dispatch \/ Dump \/ Forget
    PROVE  LoginInv'
<1>1. PICK m \in ConnMsg : m = Head(msgs[S])
    BY Taken
<1>2. Fresh(m) /\ m.from \in Conn /\ m.seq \in Nat
    BY <1>1, QueueTail DEF ConnMsg, Msg
<1>3. UNCHANGED <<reader, vfd, readnum, chan, logins>>
    BY Taken
<1>4. CASE Dispatch
  <2>1. dispatched' = [dispatched EXCEPT ![m.from] = m.seq] /\ UNCHANGED <<known, heard>>
      BY <1>1, <1>4 DEF Dispatch
  <2>2. \A d \in Conn : dispatched'[d] <= readnum'[d]
      BY <1>2, <1>3, <2>1 DEF LoginInv, Fresh, TypeInv
  <2>3. QED
      BY <1>3, <2>1, <2>2 DEF LoginInv
<1>5. CASE Dump
    BY <1>3, <1>5 DEF Dump, LoginInv
<1>6. CASE Forget
  <2>1. /\ known' \subseteq known /\ heard' = heard \cup {m.from} /\ UNCHANGED dispatched
        /\ m.kind = "SocketClosed"
      BY <1>1, <1>6 DEF Forget, TakeMsg
  <2>2. reader[m.from] \in {"drop", "gone"}
      BY <1>2, <2>1 DEF Fresh
  <2>3. QED
      BY <1>3, <2>1, <2>2 DEF LoginInv
<1>7. QED
    BY <1>4, <1>5, <1>6

LEMMA QueueMsg ==
    ASSUME TypeInv, QueueInv, Dispatch \/ Dump \/ Forget
    PROVE  QueueInv'
<1>1. PICK m \in ConnMsg : m = Head(msgs[S])
    BY Taken
<1>2. /\ \A i \in DOMAIN msgs'[S] : Fresh(msgs'[S][i]) /\ Follows(m, msgs'[S][i])
      /\ \A i, j \in DOMAIN msgs'[S] : i < j => Follows(msgs'[S][i], msgs'[S][j])
      /\ Fresh(m)
    BY <1>1, QueueTail
<1>3. Grows /\ m.from \in Conn /\ msgs' \in [Srv -> Seq(ConnMsg)]
  <2>1. UNCHANGED <<reader, readnum>> /\ msgs' \in [Srv -> Seq(ConnMsg)]
      BY Taken
  <2>2. \A d \in Conn : readnum[d] \in Nat
      BY DEF TypeInv
  <2>3. QED
      BY <2>1, <2>2 DEF Grows, ConnMsg
<1>4. \/ m.kind = "Tcp" /\ UNCHANGED heard
         /\ (UNCHANGED dispatched \/ dispatched' = [dispatched EXCEPT ![m.from] = m.seq])
      \/ m.kind = "SocketClosed" /\ heard' = heard \cup {m.from} /\ UNCHANGED dispatched
    BY <1>1 DEF Dispatch, Dump, Forget, TakeMsg
<1>5. ASSUME NEW i \in DOMAIN msgs'[S]
      PROVE  \E n \in ConnMsg : n = msgs'[S][i] /\ Fresh(n)'
  <2>1. PICK n \in ConnMsg : n = msgs'[S][i]
      BY <1>3, <1>5, Consts
  <2>2. Fresh(n) /\ Follows(m, n) /\ n.from \in Conn
      BY <1>2, <1>5, <2>1 DEF ConnMsg
  <2>3. n.from \notin heard'
      BY <1>4, <2>2 DEF Fresh, Follows
  <2>4. n.kind = "Tcp" => dispatched'[n.from] < n.seq
      BY <1>4, <2>2, <1>3 DEF Fresh, Follows, TypeInv
  <2>5. QED
      BY <1>3, <2>1, <2>2, <2>3, <2>4, FreshKept
<1>6. QED
    BY <1>2, <1>5, QueueAgain

(* Inv, with what the queue and the registrations hold. *)
OrderInv == Inv /\ LoginInv /\ QueueInv

LEMMA OrderInit == Init => OrderInv
<1> SUFFICES ASSUME Init PROVE OrderInv
    OBVIOUS
<1>1. DOMAIN msgs[S] = {} /\ DOMAIN chan[S] = {}
    BY Consts DEF Init, ConnInit
<1>2. LoginInv
    BY <1>1 DEF Init, ConnInit, LoginInv
<1>3. QueueInv
    BY <1>1 DEF QueueInv
<1>4. QED
    BY <1>2, <1>3, InvInit DEF OrderInv

LEMMA OrderNext == OrderInv /\ [Next]_vars => OrderInv'
<1> SUFFICES ASSUME OrderInv, [Next]_vars PROVE OrderInv'
    OBVIOUS
<1>1. Inv' /\ TypeInv /\ BuiltInv /\ LoginInv /\ QueueInv
    BY InvNext DEF OrderInv, Inv
<1>2. CASE ConnectFails \/ Connected \/ Acquire \/ HandOver \/ DialDone
    BY <1>1, <1>2, LoginDial, QueueSame DEF OrderInv
<1>3. CASE TakeConn
    BY <1>1, <1>3, LoginTakeConn, QueueSame DEF OrderInv
<1>4. CASE Dispatch \/ Dump \/ Forget
    BY <1>1, <1>4, LoginMsg, QueueMsg DEF OrderInv
<1>5. ASSUME NEW c \in Conn, ConnStep(c), UNCHANGED robotVars PROVE OrderInv'
    BY <1>1, <1>5, LoginConn, QueueConn DEF OrderInv
<1>6. CASE UNCHANGED vars
  <2>1. LoginInv' /\ QueueInv'
      BY <1>1, <1>6
      DEF vars, connVars, robotVars, LoginInv, QueueInv, Fresh, Follows
  <2>2. QED
      BY <1>1, <2>1 DEF OrderInv
<1>7. QED
    BY <1>2, <1>3, <1>4, <1>5, <1>6 DEF Next

(* Every frame is dispatched after the login of its robot was sent or, if   *)
(* its writer was gone, tried; in the order read and before the close of    *)
(* its connection, however long the task was busy dialling                  *)
(* (src/robot/src/services/client_hub.rs:55-91).                            *)
THEOREM DispatchesInOrder == Spec => AnswersLogin
<1> DEFINE Step == \A c \in Conn : dispatched'[c] # dispatched[c] =>
                       /\ c \in logins \ heard
                       /\ dispatched'[c] > dispatched[c]
<1>1. OrderInv /\ [Next]_vars => [Step]_vars
  <2> SUFFICES ASSUME OrderInv, [Next]_vars, NEW c \in Conn, dispatched'[c] # dispatched[c]
               PROVE  c \in logins \ heard /\ dispatched'[c] > dispatched[c]
      OBVIOUS
  <2>1. TypeInv /\ LoginInv /\ QueueInv
      BY DEF OrderInv, Inv
  <2>2. Dispatch
      BY DEF Next, vars, connVars, robotVars, ConnectFails, Connected, Acquire, HandOver,
             DialDone, TakeConn, Dump, Forget
  <2>3. PICK m \in ConnMsg : m = Head(msgs[S])
      BY <2>1, <2>2, Taken
  <2>4. /\ Fresh(m) /\ m.vfd \in known /\ m.kind = "Tcp" /\ m.from \in Conn
        /\ dispatched' = [dispatched EXCEPT ![m.from] = m.seq]
      BY <2>1, <2>2, <2>3, QueueTail DEF Dispatch, TakeMsg, ConnMsg
  <2>5. c = m.from /\ dispatched'[c] = m.seq /\ dispatched[c] \in Nat /\ m.seq \in Nat
      BY <2>1, <2>3, <2>4 DEF TypeInv, ConnMsg, Msg
  <2>6. c \in logins /\ c \notin heard
      BY <2>1, <2>4, <2>5, Consts DEF Fresh, LoginInv
  <2>7. QED
      BY <2>4, <2>5, <2>6 DEF Fresh
<1>2. Spec => [][Step]_vars
    BY OrderInit, OrderNext, <1>1, PTL DEF Spec
<1>3. QED
    BY <1>2 DEF AnswersLogin

=============================================================================

----------------------------- MODULE Connection -----------------------------
(***************************************************************************)
(* One network connection of cable: the reader task, the writer task, the  *)
(* permit it takes from the service's semaphore and the three bounded      *)
(* channels it uses.  The life cycle is the same for the TCP service       *)
(* (network/tcp), the WebSocket service (network/ws) and the connections   *)
(* the rpc client opens itself (tcp/client_service.rs); the modules that   *)
(* EXTEND this one decide when a connection is built and what the hub at   *)
(* the other end of the channels does.                                     *)
(*                                                                         *)
(* A connection is <<service, ordinal>>.  Every action is one step between *)
(* two await points of one tokio task.                                     *)
(***************************************************************************)
EXTENDS Integers, Sequences, FiniteSets

CONSTANTS
    Srv,             \* services, named by the MessageType their readers produce
    Ws,              \* services run by run_as_websocket (conf is_ws)
    Conn,            \* the connections that may ever exist (bounds the model)
    Vfd,             \* values of the identifier `vfd: u64`; 0: not assigned yet
    MaxConnection,   \* conf max_connection: permits of each service
    ConnChanSize,    \* conf conn_chan_size: capacity of (vfd, sender) channel
    MsgChanSize,     \* conf tcp_msg_chan_size: capacity of the message channel
    ConnMsgChanSize, \* conf conn_msg_chan_size: capacity of a writer's channel
    MaxRead          \* frames one connection may receive (bounds the model)

ASSUME ConnAssumption ==
    /\ Srv \subseteq {"Tcp", "Rpc", "RpcClient"}
    /\ Ws \subseteq Srv \cap {"Tcp"}
    /\ Conn \subseteq Srv \X Nat
    /\ IsFiniteSet(Conn)
    /\ Vfd \subseteq Nat /\ 0 \in Vfd
    /\ MaxConnection \in Nat \ {0}
    /\ {ConnChanSize, MsgChanSize, ConnMsgChanSize} \subseteq Nat \ {0}
    /\ MaxRead \in Nat

VARIABLES
    reader,   \* state of the connection's reader task
    writer,   \* state of the connection's writer task
    inbox,    \* the writer's channel: what the hub has handed to the connection
    vfd,      \* the identifier the connection was built with
    readnum,  \* ConnReader.readnum: frames decoded so far
    permits,  \* available permits of each service's semaphore
    chan,     \* channel of new connections, from service to hub
    msgs,     \* channel of incoming messages, from readers to hub
    notified, \* has the service dropped notify_client_shutdown?
    hubUp     \* is the hub task, the owner of both receivers, alive?

readerVars == <<reader, readnum>>
writerVars == <<writer, inbox>>
chanVars   == <<chan, msgs>>
connVars   == <<reader, writer, inbox, vfd, readnum, permits, chan, msgs,
                notified, hubUp>>

Home(c) == c[1]
ConnOf(s) == {c \in Conn : Home(c) = s}

(* "none": not yet accepted; "built": split_stream done, tasks not spawned; *)
(* "run": in the select loop; "notify": loop left, sending SocketClosed;    *)
(* "drop": SocketClosed sent, ConnReader not yet dropped; "gone": dropped.  *)
ReaderState == {"none", "built", "run", "notify", "drop", "gone"}

(* "run": in the select loop; "write": awaiting write_frame; "done": ended. *)
WriterState == {"none", "built", "run", "write", "done"}

(* The sender of a message that does not come from a connection. *)
Game == <<"Game", 0>>

(* SystemMsg.  The field `from` is a history value: no action reads it. *)
Msg == [kind : {"Tcp", "Rpc", "RpcClient", "SocketClosed"},
        vfd  : Vfd,
        from : Conn \cup {Game},
        seq  : Nat]

OutMsg == [kind : {"Tcp", "Rpc"}, vfd : Vfd]

ConnTypeOK ==
    /\ reader \in [Conn -> ReaderState]
    /\ writer \in [Conn -> WriterState]
    /\ inbox \in [Conn -> Seq(OutMsg)]
    /\ vfd \in [Conn -> Vfd]
    /\ readnum \in [Conn -> Nat]
    /\ permits \in [Srv -> 0..(MaxConnection + 1)]
    /\ chan \in [Srv -> Seq(Conn)]
    /\ msgs \in [Srv -> Seq(Msg)]
    /\ notified \in [Srv -> BOOLEAN]
    /\ hubUp \in BOOLEAN

ConnInit ==
    /\ reader = [c \in Conn |-> "none"]
    /\ writer = [c \in Conn |-> "none"]
    /\ inbox = [c \in Conn |-> <<>>]
    /\ vfd = [c \in Conn |-> 0]
    /\ readnum = [c \in Conn |-> 0]
    /\ permits = [s \in Srv |-> MaxConnection]
    /\ chan = [s \in Srv |-> <<>>]
    /\ msgs = [s \in Srv |-> <<>>]
    /\ notified = [s \in Srv |-> FALSE]
    /\ hubUp = TRUE

-----------------------------------------------------------------------------
(* Steps a service takes for a new connection (Service::handle_stream). *)

(* split_stream: both halves and the writer's channel are created before   *)
(* the permit is taken.                                                    *)
Build(c, v) ==
    /\ reader[c] = "none"
    /\ reader' = [reader EXCEPT ![c] = "built"]
    /\ writer' = [writer EXCEPT ![c] = "built"]
    /\ vfd' = [vfd EXCEPT ![c] = v]
    /\ UNCHANGED <<inbox, readnum, permits, chan, msgs, notified, hubUp>>

(* Mutated forms of AcquirePermit: without forget() the permit goes back at *)
(* once; without await the permit is taken although there is none.          *)
AcquireUnforgotten(s) ==
    /\ permits[s] > 0
    /\ UNCHANGED connVars

AcquireUnawaited(s) ==
    /\ permits' = [permits EXCEPT ![s] = @ - 1]
    /\ UNCHANGED <<reader, writer, inbox, vfd, readnum, chan, msgs, notified, hubUp>>

(* limit_connections.acquire().await.unwrap().forget() *)
AcquirePermit(s) ==
    /\ permits[s] > 0
    /\ permits' = [permits EXCEPT ![s] = @ - 1]
    /\ UNCHANGED <<reader, writer, inbox, vfd, readnum, chan, msgs, notified, hubUp>>

(* chan_sender.send((vfd, conn_tx)).await, which blocks while the channel  *)
(* is full, then start_read_write spawns the two tasks.                    *)
Register(c) ==
    LET s == Home(c) IN
    /\ hubUp
    /\ Len(chan[s]) < ConnChanSize
    /\ chan' = [chan EXCEPT ![s] = Append(@, c)]
    /\ reader' = [reader EXCEPT ![c] = "run"]
    /\ writer' = [writer EXCEPT ![c] = "run"]
    /\ UNCHANGED <<inbox, vfd, readnum, permits, msgs, notified, hubUp>>

(* Mutated form of DropService: a clone of the sender stays alive. *)
DropServiceKept(s) == UNCHANGED connVars

(* The service value is dropped: the broadcast sender closes. *)
DropService(s) ==
    /\ notified' = [notified EXCEPT ![s] = TRUE]
    /\ UNCHANGED <<reader, writer, inbox, vfd, readnum, permits, chan, msgs, hubUp>>

-----------------------------------------------------------------------------
(* The reader task (ConnReader::run and the closure that spawns it). *)

(* What read_frame returns; a WebSocket reader calls every message Tcp. *)
Frame(c) == [kind |-> Home(c), vfd |-> vfd[c], from |-> c, seq |-> readnum[c] + 1]
WsFrame(c) == [Frame(c) EXCEPT !.kind = "Tcp"]
Closed(c) == [kind |-> "SocketClosed", vfd |-> vfd[c], from |-> c, seq |-> readnum[c]]

(* read_frame succeeds; try_send drops the frame when the channel is full  *)
(* and ends the loop when it is closed.  (A WebSocket reader also skips     *)
(* control and text messages, which changes nothing here.)                 *)
ReadFrame(c) ==
    LET s == Home(c) IN
    /\ reader[c] = "run"
    /\ readnum[c] < MaxRead
    /\ readnum' = [readnum EXCEPT ![c] = @ + 1]
    /\ \/ /\ hubUp
          /\ Len(msgs[s]) < MsgChanSize
          /\ msgs' = [msgs EXCEPT ![s] =
                        Append(@, IF s \in Ws THEN WsFrame(c) ELSE Frame(c))]
          /\ UNCHANGED reader
       \/ /\ hubUp
          /\ Len(msgs[s]) >= MsgChanSize
          /\ UNCHANGED <<msgs, reader>>
       \/ /\ ~hubUp
          /\ reader' = [reader EXCEPT ![c] = "notify"]
          /\ UNCHANGED msgs
    /\ UNCHANGED <<writer, inbox, vfd, permits, chan, notified, hubUp>>

(* The loop of run ends, by an error of read_frame or by service_notify. *)
LeaveLoop(c) ==
    /\ reader[c] = "run"
    /\ reader' = [reader EXCEPT ![c] = "notify"]
    /\ UNCHANGED <<writer, inbox, vfd, readnum, permits, chan, msgs, notified, hubUp>>

(* End of stream, i/o error, body_len too large, undecodable body. *)
ReadFails(c) == Home(c) \notin Ws /\ LeaveLoop(c)

(* The same, and a Close, a message shorter than the header or one whose    *)
(* body_len is not the length of its body.                                  *)
WsReadFails(c) == Home(c) \in Ws /\ LeaveLoop(c)

(* The service value was dropped. *)
ShutdownNotified(c) == notified[Home(c)] /\ LeaveLoop(c)

(* Mutated forms of NotifyClosed: sent by a task that does not wait for run *)
(* to return; sent by try_send; sent again and again until it succeeds.     *)
NotifyClosedEarly(c) ==
    LET s == Home(c) IN
    /\ reader[c] \in {"run", "notify"}
    /\ hubUp
    /\ Len(msgs[s]) < MsgChanSize
    /\ msgs' = [msgs EXCEPT ![s] = Append(@, Closed(c))]
    /\ reader' = [reader EXCEPT ![c] = IF @ = "run" THEN "run" ELSE "drop"]
    /\ UNCHANGED <<writer, inbox, vfd, readnum, permits, chan, notified, hubUp>>

NotifyClosedTry(c) ==
    LET s == Home(c) IN
    /\ reader[c] = "notify"
    /\ msgs' = IF hubUp /\ Len(msgs[s]) < MsgChanSize
               THEN [msgs EXCEPT ![s] = Append(@, Closed(c))] ELSE msgs
    /\ reader' = [reader EXCEPT ![c] = "drop"]
    /\ UNCHANGED <<writer, inbox, vfd, readnum, permits, chan, notified, hubUp>>

NotifyClosedForced(c) == hubUp /\ NotifyClosedTry(c) /\ msgs' # msgs

(* close_notify.send((SocketClosed, vfd, ..)).await: waits for room, and    *)
(* its result is ignored when the hub is gone.                             *)
NotifyClosed(c) ==
    LET s == Home(c) IN
    /\ reader[c] = "notify"
    /\ \/ /\ hubUp
          /\ Len(msgs[s]) < MsgChanSize
          /\ msgs' = [msgs EXCEPT ![s] = Append(@, Closed(c))]
       \/ /\ ~hubUp
          /\ UNCHANGED msgs
    /\ reader' = [reader EXCEPT ![c] = "drop"]
    /\ UNCHANGED <<writer, inbox, vfd, readnum, permits, chan, notified, hubUp>>

(* Drop for ConnReader: add_permits(1), and the writer's pairdrop closes. *)
DropReader(c) ==
    /\ reader[c] = "drop"
    /\ reader' = [reader EXCEPT ![c] = "gone"]
    /\ permits' = [permits EXCEPT ![Home(c)] = @ + 1]
    /\ UNCHANGED <<writer, inbox, vfd, readnum, chan, msgs, notified, hubUp>>

-----------------------------------------------------------------------------
(* The writer task (ConnWriter::run). *)

(* The type check of the tcp writer: what fails it is logged and forgotten. *)
Accepts(c, m) == IF Home(c) = "Tcp" THEN m.kind = "Tcp" ELSE m.kind = "Rpc"

WriterRecv(c) ==
    /\ Home(c) \notin Ws
    /\ writer[c] = "run"
    /\ inbox[c] # <<>>
    /\ inbox' = [inbox EXCEPT ![c] = Tail(@)]
    /\ writer' = [writer EXCEPT ![c] =
                    IF Accepts(c, Head(inbox[c])) THEN "write" ELSE "run"]
    /\ UNCHANGED <<reader, vfd, readnum, permits, chan, msgs, notified, hubUp>>

(* The WebSocket writer checks no type. *)
WsWriterRecv(c) ==
    /\ Home(c) \in Ws
    /\ writer[c] = "run"
    /\ inbox[c] # <<>>
    /\ inbox' = [inbox EXCEPT ![c] = Tail(@)]
    /\ writer' = [writer EXCEPT ![c] = "write"]
    /\ UNCHANGED <<reader, vfd, readnum, permits, chan, msgs, notified, hubUp>>

WriteOk(c) ==
    /\ writer[c] = "write"
    /\ writer' = [writer EXCEPT ![c] = "run"]
    /\ UNCHANGED <<reader, inbox, vfd, readnum, permits, chan, msgs, notified, hubUp>>

(* The task ends and drops its receiver with everything still queued in it. *)
EndWriter(c) ==
    /\ writer' = [writer EXCEPT ![c] = "done"]
    /\ inbox' = [inbox EXCEPT ![c] = <<>>]
    /\ UNCHANGED <<reader, vfd, readnum, permits, chan, msgs, notified, hubUp>>

(* encode or write_frame fails. *)
WriteFails(c) == writer[c] = "write" /\ EndWriter(c)

(* Mutated form of PairDropped: looked at only when a message has come. *)
PairDroppedLate(c) == inbox[c] # <<>> /\ writer[c] = "run" /\ reader[c] = "gone" /\ EndWriter(c)

(* pairdrop_receiver.recv() is polled only between two frames. *)
PairDropped(c) == writer[c] = "run" /\ reader[c] = "gone" /\ EndWriter(c)

ConnStep(c) ==
    \/ ReadFrame(c) \/ ReadFails(c) \/ WsReadFails(c) \/ ShutdownNotified(c)
    \/ NotifyClosed(c) \/ DropReader(c)
    \/ WriterRecv(c) \/ WsWriterRecv(c) \/ WriteOk(c) \/ WriteFails(c) \/ PairDropped(c)

-----------------------------------------------------------------------------
(* What the hub does with its ends of the channels. *)

(* The value of inbox after network::try_send of m to each connection of C: *)
(* lost when the writer has ended (Closed) or its channel is full.          *)
Sent(C, m) ==
    [c \in Conn |-> IF /\ c \in C
                       /\ writer[c] # "done"
                       /\ Len(inbox[c]) < ConnMsgChanSize
                    THEN Append(inbox[c], m) ELSE inbox[c]]

(* The hub task ends by a panic; both receivers and what they hold vanish. *)
HubDies ==
    /\ hubUp
    /\ hubUp' = FALSE
    /\ chan' = [s \in Srv |-> <<>>]
    /\ msgs' = [s \in Srv |-> <<>>]
    /\ UNCHANGED <<reader, writer, inbox, vfd, readnum, permits, notified>>

(* Fairness of the two tasks of a connection: a task that can take a step   *)
(* is polled again.  pairdrop needs strong fairness because select! picks   *)
(* at random between two ready branches, and the blocking send needs it     *)
(* because other senders may take the room it waits for; tokio serves the   *)
(* waiting senders in order.  Nothing is assumed of the peer: it need not   *)
(* send, close, or ever let a write complete.                               *)
ConnFairness ==
    \A c \in Conn :
        /\ SF_connVars(NotifyClosed(c))
        /\ WF_connVars(DropReader(c))
        /\ WF_connVars(ShutdownNotified(c))
        /\ WF_connVars(WriterRecv(c) \/ WsWriterRecv(c))
        /\ SF_connVars(PairDropped(c))

-----------------------------------------------------------------------------
(* Property. *)

(* The writer follows its reader: pairdrop ends it, unless its peer lets a  *)
(* write_frame hang for ever, during which pairdrop is not polled           *)
(* (write.rs:84, 94).                                                       *)
WriterFollows ==
    \A c \in Conn : (reader[c] = "gone") ~>
                        (writer[c] = "done" \/ [](writer[c] = "write"))

=============================================================================

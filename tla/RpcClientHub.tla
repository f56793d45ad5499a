---------------------------- MODULE RpcClientHub ----------------------------
(***************************************************************************)
(* The rpc client of a server (services/rpc_client_hub.rs): one task that  *)
(* takes the rpc messages of the script layer, opens one connection per    *)
(* destination host on demand and keeps what cannot be sent yet.  It is at *)
(* once the service that builds the connections and the hub that receives  *)
(* their senders and their SocketClosed, so while it awaits a connect, a   *)
(* permit or room in its own channel it receives nothing.                  *)
(*                                                                         *)
(* Here <<"RpcClient", n>> is the n-th connection the task opens, and the  *)
(* identifier of a connection is the destination host.                     *)
(***************************************************************************)
EXTENDS Connection

CONSTANTS
    Host,        \* destinations a script may name, HostId among them
    HostId,      \* this server (conf host_id)
    DelayLimit,  \* length at which a host's delay queue is full (500)
    MaxSend      \* messages the script sends to one host (bounds the model)

ASSUME RpcAssumption ==
    /\ Srv = {"RpcClient"}
    /\ Host \subseteq Vfd \ {0}
    /\ HostId \in Host
    /\ DelayLimit \in Nat \ {0}
    /\ MaxSend \in Nat

VARIABLES
    hub,        \* where the task is
    cur,        \* host of the connection being opened, or being flushed to
    pending,    \* number of the message that made the task open a connection
    batch,      \* delayed messages not flushed yet
    attempt,    \* connections opened so far
    senders,    \* gs.tcp_state.conn_map: host -> connection
    proceeding, \* proceeding_connections: 0 absent, 1 connecting, 2 finished
    delay,      \* delay_msg: host -> numbers of the delayed messages
    sent,       \* history: messages the script has sent to each host
    handed,     \* history: number of the last message tried on a connection
    heard       \* history: connections whose SocketClosed has been handled

rpcVars == <<hub, cur, pending, batch, attempt, senders, proceeding, delay,
             sent, handed, heard>>
vars == <<connVars, rpcVars>>

S == "RpcClient"
None == <<"None", 0>>
NextConn == <<S, attempt + 1>>
Cur == <<S, attempt>>

HubState == {"select", "connect", "acquire", "register", "flush"}

TypeOK ==
    /\ ConnTypeOK
    /\ permits[S] <= MaxConnection
    /\ hub \in HubState
    /\ cur \in Host
    /\ pending \in Nat
    /\ batch \in Seq(Nat)
    /\ attempt \in Nat
    /\ senders \in [Host -> Conn \cup {None}]
    /\ proceeding \in [Host -> 0..2]
    /\ delay \in [Host -> Seq(Nat)]
    /\ sent \in [Host -> Nat]
    /\ handed \in [Host -> Nat]
    /\ heard \subseteq Conn

Init ==
    /\ ConnInit
    /\ hub = "select"
    /\ cur = HostId
    /\ pending = 0
    /\ batch = <<>>
    /\ attempt = 0
    /\ senders = [h \in Host |-> None]
    /\ proceeding = [h \in Host |-> 0]
    /\ delay = [h \in Host |-> <<>>]
    /\ sent = [h \in Host |-> 0]
    /\ handed = [h \in Host |-> 0]
    /\ heard = {}

-----------------------------------------------------------------------------
(* The script layer: rpc_send, a try_send into the hub's message channel.   *)

Request(h, n) == [kind |-> "Rpc", vfd |-> h, from |-> Game, seq |-> n]

ScriptSends(h) ==
    /\ sent[h] < MaxSend
    /\ sent' = [sent EXCEPT ![h] = @ + 1]
    /\ \/ /\ Len(msgs[S]) < MsgChanSize
          /\ msgs' = [msgs EXCEPT ![S] = Append(@, Request(h, sent[h] + 1))]
       \/ /\ Len(msgs[S]) >= MsgChanSize
          /\ UNCHANGED msgs
    /\ UNCHANGED <<reader, writer, inbox, vfd, readnum, permits, chan, notified, hubUp,
                   hub, cur, pending, batch, attempt, senders, proceeding, delay,
                   handed, heard>>

-----------------------------------------------------------------------------
(* The hub. *)

(* try_send_rpc of message n to connection c, whatever becomes of it. *)
Hand(h, c, n) ==
    /\ inbox' = Sent({c}, [kind |-> "Rpc", vfd |-> h])
    /\ handed' = [handed EXCEPT ![h] = n]

(* Mutated form of Delayed: the newest message first. *)
DelayedFirst(h, n) ==
    [delay EXCEPT ![h] = IF Len(@) < DelayLimit THEN <<n>> \o @ ELSE @]

(* The delay queue of a host, n added at its end if there is room. *)
Delayed(h, n) ==
    [delay EXCEPT ![h] = IF Len(@) < DelayLimit THEN Append(@, n) ELSE @]

(* Mutated form of TakeConn: the delayed messages are read, not removed. *)
TakeConnKeepsDelay ==
    LET c == Head(chan[S])
        h == vfd[c]
    IN  /\ hub = "select"
        /\ chan[S] # <<>>
        /\ chan' = [chan EXCEPT ![S] = Tail(@)]
        /\ senders' = [senders EXCEPT ![h] = c]
        /\ proceeding' = [proceeding EXCEPT ![h] = 2]
        /\ batch' = delay[h]
        /\ cur' = h
        /\ hub' = IF delay[h] = <<>> THEN "select" ELSE "flush"
        /\ UNCHANGED <<reader, writer, inbox, vfd, readnum, permits, msgs, notified,
                       hubUp, pending, attempt, delay, sent, handed, heard>>

(* A new connection is registered and marked finished; what was delayed for *)
(* its host is taken out and tried on it, one message at a time.            *)
TakeConn ==
    LET c == Head(chan[S])
        h == vfd[c]
    IN  /\ hub = "select"
        /\ chan[S] # <<>>
        /\ chan' = [chan EXCEPT ![S] = Tail(@)]
        /\ senders' = [senders EXCEPT ![h] = c]
        /\ proceeding' = [proceeding EXCEPT ![h] = 2]
        /\ batch' = delay[h]
        /\ delay' = [delay EXCEPT ![h] = <<>>]
        /\ cur' = h
        /\ hub' = IF delay[h] = <<>> THEN "select" ELSE "flush"
        /\ UNCHANGED <<reader, writer, inbox, vfd, readnum, permits, msgs, notified,
                       hubUp, pending, attempt, sent, handed, heard>>

Flush ==
    /\ hub = "flush"
    /\ batch # <<>>
    /\ Hand(cur, senders[cur], Head(batch))
    /\ batch' = Tail(batch)
    /\ hub' = IF Tail(batch) = <<>> THEN "select" ELSE "flush"
    /\ UNCHANGED <<reader, writer, vfd, readnum, permits, chan, msgs, notified, hubUp,
                   cur, pending, attempt, senders, proceeding, delay, sent, heard>>

TakeMsg(kind) ==
    /\ hub = "select"
    /\ msgs[S] # <<>>
    /\ Head(msgs[S]).kind = kind
    /\ msgs' = [msgs EXCEPT ![S] = Tail(@)]
    /\ UNCHANGED <<reader, writer, vfd, readnum, permits, chan, notified, hubUp,
                   batch, attempt, senders, sent>>

(* A message to this server itself is refused. *)
RouteSelf ==
    /\ TakeMsg("Rpc")
    /\ Head(msgs[S]).vfd = HostId
    /\ UNCHANGED <<inbox, hub, cur, pending, proceeding, delay, handed, heard>>

(* There is a sender for the host: use it. *)
SendNow ==
    LET m == Head(msgs[S]) IN
    /\ TakeMsg("Rpc")
    /\ m.vfd # HostId
    /\ senders[m.vfd] # None
    /\ Hand(m.vfd, senders[m.vfd], m.seq)
    /\ UNCHANGED <<hub, cur, pending, proceeding, delay, heard>>

(* There is no sender but a marker: delay the message. *)
SendLater ==
    LET m == Head(msgs[S]) IN
    /\ TakeMsg("Rpc")
    /\ m.vfd # HostId
    /\ senders[m.vfd] = None
    /\ proceeding[m.vfd] # 0
    /\ delay' = Delayed(m.vfd, m.seq)
    /\ UNCHANGED <<inbox, hub, cur, pending, proceeding, handed, heard>>

(* Mutated form of StartConnect: the host is not marked as connecting. *)
StartConnectUnmarked ==
    LET m == Head(msgs[S]) IN
    /\ TakeMsg("Rpc")
    /\ m.vfd # HostId
    /\ senders[m.vfd] = None
    /\ proceeding[m.vfd] = 0
    /\ hub' = "connect"
    /\ cur' = m.vfd
    /\ pending' = m.seq
    /\ UNCHANGED <<inbox, proceeding, delay, handed, heard>>

(* There is neither: open a connection, and await it here. *)
StartConnect ==
    LET m == Head(msgs[S]) IN
    /\ TakeMsg("Rpc")
    /\ m.vfd # HostId
    /\ senders[m.vfd] = None
    /\ proceeding[m.vfd] = 0
    /\ proceeding' = [proceeding EXCEPT ![m.vfd] = 1]
    /\ hub' = "connect"
    /\ cur' = m.vfd
    /\ pending' = m.seq
    /\ UNCHANGED <<inbox, delay, handed, heard>>

(* Mutated form of ConnectFails: the marker stays. *)
ConnectFailsMarked ==
    /\ hub = "connect"
    /\ hub' = "select"
    /\ delay' = Delayed(cur, pending)
    /\ UNCHANGED <<connVars, cur, pending, batch, attempt, senders, proceeding, sent,
                   handed, heard>>

(* An empty address or a failed connect: the marker goes, the message is    *)
(* delayed all the same.                                                    *)
ConnectFails ==
    /\ hub = "connect"
    /\ hub' = "select"
    /\ proceeding' = [proceeding EXCEPT ![cur] = 0]
    /\ delay' = Delayed(cur, pending)
    /\ UNCHANGED <<connVars, cur, pending, batch, attempt, senders, sent, handed, heard>>

Connected ==
    /\ hub = "connect"
    /\ NextConn \in Conn
    /\ Build(NextConn, cur)
    /\ attempt' = attempt + 1
    /\ hub' = "acquire"
    /\ UNCHANGED <<cur, pending, batch, senders, proceeding, delay, sent, handed, heard>>

Acquire ==
    /\ hub = "acquire"
    /\ AcquirePermit(S)
    /\ hub' = "register"
    /\ UNCHANGED <<cur, pending, batch, attempt, senders, proceeding, delay, sent,
                   handed, heard>>

(* The task sends to the channel it receives from, then delays the message. *)
HandOver ==
    /\ hub = "register"
    /\ Register(Cur)
    /\ hub' = "select"
    /\ delay' = Delayed(cur, pending)
    /\ UNCHANGED <<cur, pending, batch, attempt, senders, proceeding, sent, handed, heard>>

(* Mutated form of Forget: the marker stays. *)
ForgetSenderOnly ==
    LET m == Head(msgs[S]) IN
    /\ hub = "select"
    /\ msgs[S] # <<>>
    /\ m.kind = "SocketClosed"
    /\ msgs' = [msgs EXCEPT ![S] = Tail(@)]
    /\ senders' = [senders EXCEPT ![m.vfd] = None]
    /\ heard' = heard \cup {m.from}
    /\ UNCHANGED <<reader, writer, inbox, vfd, readnum, permits, chan, notified, hubUp,
                   hub, cur, pending, batch, attempt, proceeding, delay, sent, handed>>

(* SocketClosed: sender and marker of the host are removed. *)
Forget ==
    LET m == Head(msgs[S]) IN
    /\ hub = "select"
    /\ msgs[S] # <<>>
    /\ m.kind = "SocketClosed"
    /\ m.vfd # HostId
    /\ msgs' = [msgs EXCEPT ![S] = Tail(@)]
    /\ senders' = [senders EXCEPT ![m.vfd] = None]
    /\ proceeding' = [proceeding EXCEPT ![m.vfd] = 0]
    /\ heard' = heard \cup {m.from}
    /\ UNCHANGED <<reader, writer, inbox, vfd, readnum, permits, chan, notified, hubUp,
                   hub, cur, pending, batch, attempt, delay, sent, handed>>

(* A frame from the peer is logged and dropped. *)
IgnoreFrame ==
    /\ TakeMsg("RpcClient")
    /\ UNCHANGED <<inbox, hub, cur, pending, proceeding, delay, handed, heard>>

(* heart_beat.tick(): nothing. *)
Tick == hub = "select" /\ UNCHANGED vars

HubStep ==
    \/ TakeConn \/ Flush
    \/ RouteSelf \/ SendNow \/ SendLater \/ StartConnect \/ Forget \/ IgnoreFrame
    \/ ConnectFails \/ Connected \/ Acquire \/ HandOver
    \/ Tick

Next ==
    \/ HubStep
    \/ \E h \in Host : ScriptSends(h)
    \/ \E c \in Conn : ConnStep(c) /\ UNCHANGED rpcVars

Spec == Init /\ [][Next]_vars

(* A connect succeeds or fails in the end, a branch of select! that stays   *)
(* ready is taken, and the task makes its own steps.                        *)
Fairness ==
    /\ ConnFairness
    /\ WF_vars(ConnectFails \/ Connected) /\ WF_vars(Acquire) /\ WF_vars(HandOver)
    /\ WF_vars(Flush)
    /\ SF_vars(TakeConn)
    /\ SF_vars(RouteSelf \/ SendNow \/ SendLater \/ StartConnect \/ Forget \/ IgnoreFrame)

FairSpec == Spec /\ Fairness

-----------------------------------------------------------------------------
(* Properties. *)

Pending(c) == \E i \in DOMAIN chan[S] : chan[S][i] = c

(* The marker and the registry, two maps changed in different branches,     *)
(* agree: "finished" exactly when there is a sender, so the branch for      *)
(* "finished, but something is wrong" (rpc_client_hub.rs:107) never runs,   *)
(* and "connecting" only while a connection of the host really is on its    *)
(* way, so that no host is left connecting for ever.                        *)
MarkerMatches ==
    \A h \in Host :
        /\ proceeding[h] = 2 <=> senders[h] # None
        /\ proceeding[h] = 1 =>
              \/ hub \in {"connect", "acquire", "register"} /\ cur = h
              \/ \E c \in Conn : Pending(c) /\ vfd[c] = h

(* Nothing is delayed for a host that has a sender: the flush at the end of *)
(* connecting (rpc_client_hub.rs:48-55) leaves nothing behind.              *)
DelayOnlyUnsent == \A h \in Host : senders[h] # None => delay[h] = <<>>

(* At most one connection per host is open and not yet heard closed, however *)
(* registrations and closes overtake each other, and it has a marker.        *)
OpenTo(h) == {c \in Conn : vfd[c] = h /\ reader[c] # "none" /\ c \notin heard}
OneConnectionPerHost ==
    \A h \in Host : /\ Cardinality(OpenTo(h)) <= 1
                    /\ OpenTo(h) # {} => proceeding[h] # 0

(* Messages to a host are tried in the order the script sent them, none     *)
(* twice, although they pass through the delay queue or around it.          *)
InOrder == [][\A h \in Host : handed'[h] # handed[h] => handed'[h] > handed[h]]_vars

(* What waits for a connection being opened is tried on it or the attempt   *)
(* fails; it does not wait on a connection nobody is opening.               *)
ConnectingEnds ==
    \A h \in Host : (proceeding[h] = 1) ~> (proceeding[h] # 1)

(* "the connection is finished" (rpc_client_hub.rs:45) should mean that     *)
(* there is one.  It fails: the SocketClosed of a connection may be taken   *)
(* before its registration, which then stays for good, and every later      *)
(* message to the host goes to the dead connection.                         *)
FinishedIsOpen == \A h \in Host : proceeding[h] = 2 => senders[h] \notin heard

=============================================================================

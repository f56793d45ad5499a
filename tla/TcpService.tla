----------------------------- MODULE TcpService -----------------------------
(***************************************************************************)
(* The accept loop of one or several services (network/tcp/service.rs, and *)
(* network/ws/service.rs for the services of Ws), over the connections of  *)
(* module Connection.  The hub at the other end of the two channels is the *)
(* weakest one: it takes what is in them, in any order, and may die.       *)
(* Module GameHub replaces it by the code's own hub.                       *)
(***************************************************************************)
EXTENDS Connection

CONSTANTS
    FirstVfd,      \* value of Service.counter before the first connection (100)
    BackoffLimit   \* largest delay after which accept still retries (64)

ASSUME SvcAssumption ==
    /\ FirstVfd \in Nat
    /\ BackoffLimit \in Nat \ {0}
    /\ \A c \in Conn : c[2] \in Vfd

VARIABLES
    loop,      \* where the accept loop of the service is
    counter,   \* Service.counter
    backoff    \* local variable of accept

svcVars == <<loop, counter, backoff>>
vars == <<connVars, svcVars>>

LoopState == {"bind", "accept", "handshake", "acquire", "register", "stopped"}

SvcTypeOK ==
    /\ loop \in [Srv -> LoopState]
    /\ counter \in [Srv -> Nat]
    /\ backoff \in [Srv -> 1..(2 * BackoffLimit)]

TypeOK == ConnTypeOK /\ SvcTypeOK

SvcInit ==
    /\ loop = [s \in Srv |-> "bind"]
    /\ counter = [s \in Srv |-> FirstVfd]
    /\ backoff = [s \in Srv |-> 1]

Init == ConnInit /\ SvcInit

(* The connection the loop is handling, and the one it will accept next. *)
Cur(s) == <<s, counter[s]>>
NextConn(s) == <<s, counter[s] + 1>>

Goto(s, l) == loop' = [loop EXCEPT ![s] = l]

(* init_listener: bind(..).await.unwrap() *)
Bind(s) ==
    /\ loop[s] = "bind"
    /\ Goto(s, "accept")
    /\ UNCHANGED <<connVars, counter, backoff>>

(* The loop ends, by an error that `?` returns or by the panic of bind: the *)
(* service value is dropped on the way, and the draining part of run (wait  *)
(* for every reader) is never reached because start_loop never returns Ok.  *)
StopLoop(s) ==
    /\ Goto(s, "stopped")
    /\ UNCHANGED <<counter, backoff>>

BindFails(s) == loop[s] = "bind" /\ DropService(s) /\ StopLoop(s)

(* Mutated form of AcceptFails: it never gives up. *)
AcceptFailsForever(s) ==
    /\ loop[s] = "accept"
    /\ backoff' = [backoff EXCEPT ![s] = 2 * @]
    /\ UNCHANGED <<connVars, loop, counter>>

(* listener.accept() fails: wait and double the delay, or give up. *)
AcceptFails(s) ==
    /\ loop[s] = "accept"
    /\ \/ /\ backoff[s] <= BackoffLimit
          /\ backoff' = [backoff EXCEPT ![s] = 2 * @]
          /\ UNCHANGED <<connVars, loop, counter>>
       \/ /\ backoff[s] > BackoffLimit
          /\ DropService(s)
          /\ StopLoop(s)

(* inc_counter, then the stream is split under the new identifier. *)
NewConn(s) ==
    /\ NextConn(s) \in Conn
    /\ counter' = [counter EXCEPT ![s] = @ + 1]
    /\ Build(NextConn(s), counter[s] + 1)
    /\ Goto(s, "acquire")

(* Mutated form of Accept: the delay outlives the call. *)
AcceptKeepsDelay(s) ==
    /\ s \notin Ws
    /\ loop[s] = "accept"
    /\ NewConn(s)
    /\ UNCHANGED backoff

(* accept() returns a socket. *)
Accept(s) ==
    /\ s \notin Ws
    /\ loop[s] = "accept"
    /\ backoff' = [backoff EXCEPT ![s] = 1]
    /\ NewConn(s)

(* A WebSocket service then awaits the tls and WebSocket handshakes of this *)
(* peer, in the accept loop itself.                                         *)
WsAccept(s) ==
    /\ s \in Ws
    /\ loop[s] = "accept"
    /\ backoff' = [backoff EXCEPT ![s] = 1]
    /\ Goto(s, "handshake")
    /\ UNCHANGED <<connVars, counter>>

HandshakeDone(s) == loop[s] = "handshake" /\ NewConn(s) /\ UNCHANGED backoff

HandshakeFails(s) ==
    /\ loop[s] = "handshake"
    /\ Goto(s, "accept")
    /\ UNCHANGED <<connVars, counter, backoff>>

(* conn_msg_chan_size is missing, or is 0, which mpsc::channel refuses: the *)
(* panic of split_stream ends the task of the loop.  The connection comes   *)
(* and goes within the step, but the reader half it has just been given     *)
(* returns a permit (Drop) that nobody has taken.  The setting is the same  *)
(* for every connection, so none has been split before.                     *)
SplitPanics(s) ==
    /\ loop[s] = IF s \in Ws THEN "handshake" ELSE "accept"
    /\ \A c \in Conn : reader[c] = "none"
    /\ counter' = [counter EXCEPT ![s] = @ + 1]
    /\ backoff' = [backoff EXCEPT ![s] = 1]
    /\ Goto(s, "stopped")
    /\ permits' = [permits EXCEPT ![s] = @ + 1]
    /\ notified' = [notified EXCEPT ![s] = TRUE]
    /\ UNCHANGED <<reader, writer, inbox, vfd, readnum, chan, msgs, hubUp>>

Acquire(s) ==
    /\ loop[s] = "acquire"
    /\ AcquirePermit(s)
    /\ Goto(s, "register")
    /\ UNCHANGED <<counter, backoff>>

(* The (vfd, sender) pair is given to the hub; back to accept. *)
HandOver(s) ==
    /\ loop[s] = "register"
    /\ Register(Cur(s))
    /\ Goto(s, "accept")
    /\ UNCHANGED <<counter, backoff>>

(* The receiver is gone: handle_stream drops both halves of the connection, *)
(* which returns the permit, and the error ends the loop.                   *)
HandOverFails(s) ==
    /\ loop[s] = "register"
    /\ ~hubUp
    /\ reader' = [reader EXCEPT ![Cur(s)] = "gone"]
    /\ writer' = [writer EXCEPT ![Cur(s)] = "done"]
    /\ permits' = [permits EXCEPT ![s] = @ + 1]
    /\ notified' = [notified EXCEPT ![s] = TRUE]
    /\ StopLoop(s)
    /\ UNCHANGED <<inbox, vfd, readnum, chan, msgs, hubUp>>

ServiceStep(s) ==
    \/ Bind(s) \/ BindFails(s)
    \/ Accept(s) \/ WsAccept(s) \/ AcceptFails(s)
    \/ HandshakeDone(s) \/ HandshakeFails(s) \/ SplitPanics(s)
    \/ Acquire(s) \/ HandOver(s) \/ HandOverFails(s)

(* What the tasks of the services and their connections do. *)
NetStep ==
    \/ \E s \in Srv : ServiceStep(s)
    \/ \E c \in Conn : ConnStep(c) /\ UNCHANGED svcVars

-----------------------------------------------------------------------------
(* The weakest hub. *)

HubTakesConn(s) ==
    /\ hubUp
    /\ chan[s] # <<>>
    /\ chan' = [chan EXCEPT ![s] = Tail(@)]
    /\ UNCHANGED <<reader, writer, inbox, vfd, readnum, permits, msgs, notified,
                   hubUp, svcVars>>

(* The connections whose sender the hub has received. *)
Known == {c \in Conn : /\ writer[c] \notin {"none", "built"}
                       /\ c \notin {chan[Home(c)][i] : i \in DOMAIN chan[Home(c)]}}

(* On every turn the hub may send one message to a connection it knows. *)
HubSends == \/ UNCHANGED inbox
            \/ \E c \in Known, k \in {"Tcp", "Rpc"} :
                  inbox' = Sent({c}, [kind |-> k, vfd |-> vfd[c]])

HubTakesMsg(s) ==
    /\ hubUp
    /\ msgs[s] # <<>>
    /\ msgs' = [msgs EXCEPT ![s] = Tail(@)]
    /\ HubSends
    /\ UNCHANGED <<reader, writer, vfd, readnum, permits, chan, notified, hubUp, svcVars>>

HubTicks ==
    /\ hubUp
    /\ HubSends
    /\ UNCHANGED <<reader, writer, vfd, readnum, permits, chan, msgs, notified, hubUp, svcVars>>

HubStep ==
    \/ \E s \in Srv : HubTakesConn(s) \/ HubTakesMsg(s)
    \/ HubTicks
    \/ HubDies /\ UNCHANGED svcVars

Next == NetStep \/ HubStep

(* The tasks of a service, and a hub whose select! takes every branch that  *)
(* stays ready.  Accepting, shaking hands and failing are up to the peers.  *)
SvcFairness ==
    /\ ConnFairness
    /\ \A s \in Srv : /\ WF_vars(Bind(s) \/ BindFails(s))
                      /\ SF_vars(Acquire(s))
                      /\ WF_vars(HandOver(s))
                      /\ WF_vars(HandOverFails(s))

Spec == Init /\ [][Next]_vars
FairSpec == /\ Spec
            /\ SvcFairness
            /\ \A s \in Srv : WF_vars(HubTakesConn(s)) /\ WF_vars(HubTakesMsg(s))

-----------------------------------------------------------------------------
(* Properties. *)

(* The connections that have taken a permit and not returned it. *)
Holders(s) ==
    {c \in ConnOf(s) : \/ reader[c] \in {"run", "notify", "drop"}
                       \/ reader[c] = "built" /\ loop[s] = "register"}

(* As long as the accept loop runs, no permit is lost or returned twice,    *)
(* whatever order the tasks end in: acquire().forget() in handle_stream     *)
(* (service.rs:162), Drop for ConnReader (read.rs:30) and the error exit of *)
(* handle_stream balance.  A loop that ended between the two (its task was  *)
(* dropped at acquire().await, or split_stream panicked) has returned one   *)
(* permit it had not taken; nobody is left to take it.                      *)
PermitAccounting ==
    \A s \in Srv :
        LET total == permits[s] + Cardinality(Holders(s)) IN
        \/ total = MaxConnection
        \/ total = MaxConnection + 1 /\ loop[s] = "stopped"

(* The delay between two attempts to accept starts over for the next        *)
(* connection (`let mut backoff = 1` in accept, service.rs:108), so what    *)
(* ends a service is a row of failures, not their sum over its life.        *)
DelayStartsOver ==
    \A s \in Srv :
        loop[s] \in {"handshake", "acquire", "register"} => backoff[s] = 1

(* What waits in the message channel of one connection is in the order it   *)
(* was read, and the SocketClosed of a connection is behind all its frames  *)
(* and there once: the closure of start_read_write sends it only after      *)
(* run() has returned (service.rs:191-200).                                 *)
QueueOrder ==
    \A s \in Srv : \A i, j \in DOMAIN msgs[s] :
        (i < j /\ msgs[s][i].from = msgs[s][j].from) =>
            /\ msgs[s][i].kind # "SocketClosed"
            /\ msgs[s][j].kind # "SocketClosed" => msgs[s][i].seq < msgs[s][j].seq

(* A reader that has left its loop gives its permit back, although its      *)
(* SocketClosed has to wait for room in the hub's channel.                  *)
PermitReturned == \A c \in Conn : (reader[c] = "notify") ~> (reader[c] = "gone")

(* When an accept loop has ended, every connection of the service closes,   *)
(* although the draining code of run is skipped: the broadcast sender is    *)
(* dropped with the service value.                                          *)
StoppedServiceDrains ==
    \A c \in Conn : (loop[Home(c)] = "stopped") ~> (reader[c] \in {"none", "gone"})

=============================================================================

------------------------------- MODULE Robot -------------------------------
(***************************************************************************)
(* The test client (src/robot): one task that dials robot_num connections  *)
(* to a server, registers and logs in each, and reads what comes back.  It *)
(* dials all of them inside one branch of its select!, so until the last   *)
(* one is dialled it takes nothing from the channels that the connections, *)
(* and it itself, send to.  Connection <<"Tcp", n>> is the one of identity *)
(* n.  The server it talks to is any peer.                                 *)
(***************************************************************************)
EXTENDS Connection

CONSTANT RobotNum  \* conf robot_num

(* The channel and the permits suffice for all robots: the configuration    *)
(* asks for it (src/robot/etc/sysconfig.conf:13-17), the code does not.     *)
ASSUME RobotAssumption ==
    /\ Srv = {"Tcp"} /\ Ws = {}
    /\ RobotNum \in Nat
    /\ 0..RobotNum \subseteq Vfd
    /\ {"Tcp"} \X (1..RobotNum) \subseteq Conn
    /\ RobotNum <= ConnChanSize
    /\ RobotNum <= MaxConnection

VARIABLES
    hub,        \* where the task is: in the dialling loop, or in its select!
    next,       \* identity to dial next
    known,      \* gs.tcp_state.conn_map: identities with a sender
    logins,     \* history: connections registered, and their login tried
    dispatched, \* history: number of the last frame dispatched
    heard       \* history: connections whose SocketClosed has been handled

robotVars == <<hub, next, known, logins, dispatched, heard>>
vars == <<connVars, robotVars>>

S == "Tcp"

TypeOK ==
    /\ ConnTypeOK
    /\ permits[S] <= MaxConnection
    /\ hub \in {"dial", "acquire", "register", "select"}
    /\ next \in Nat
    /\ known \subseteq Vfd
    /\ logins \subseteq Conn
    /\ dispatched \in [Conn -> Nat]
    /\ heard \subseteq Conn

Init ==
    /\ ConnInit
    /\ hub = "dial"
    /\ next = 1
    /\ known = {}
    /\ logins = {}
    /\ dispatched = [c \in Conn |-> 0]
    /\ heard = {}

-----------------------------------------------------------------------------
(* The first heart_beat.tick(): new_client_service for each identity. *)

(* Mutated form of Dialling: 0..=robot_num. *)
DiallingOneMore == next <= RobotNum + 1

Dialling == next <= RobotNum

ConnectFails ==
    /\ hub = "dial" /\ Dialling
    /\ next' = next + 1
    /\ UNCHANGED <<connVars, hub, known, logins, dispatched, heard>>

Connected ==
    /\ hub = "dial" /\ Dialling
    /\ Build(<<S, next>>, next)
    /\ hub' = "acquire"
    /\ UNCHANGED <<next, known, logins, dispatched, heard>>

Acquire ==
    /\ hub = "acquire"
    /\ AcquirePermit(S)
    /\ hub' = "register"
    /\ UNCHANGED <<next, known, logins, dispatched, heard>>

HandOver ==
    /\ hub = "register"
    /\ Register(<<S, next>>)
    /\ hub' = "dial"
    /\ next' = next + 1
    /\ UNCHANGED <<known, logins, dispatched, heard>>

(* is_init = true; later ticks do nothing. *)
DialDone ==
    /\ hub = "dial" /\ ~Dialling
    /\ hub' = "select"
    /\ UNCHANGED <<connVars, next, known, logins, dispatched, heard>>

-----------------------------------------------------------------------------
(* The other branches. *)

(* Mutated form of TakeConn: only the newest registration is looked at. *)
TakeConnNewest ==
    LET c == chan[S][Len(chan[S])] IN
    /\ hub = "select" /\ chan[S] # <<>>
    /\ chan' = [chan EXCEPT ![S] = <<>>]
    /\ known' = known \cup {vfd[c]}
    /\ inbox' = Sent({c}, [kind |-> "Tcp", vfd |-> vfd[c]])
    /\ logins' = logins \cup {c}
    /\ UNCHANGED <<reader, writer, vfd, readnum, permits, msgs, notified, hubUp,
                   hub, next, dispatched, heard>>

(* The sender is registered and the login sent on it; send().await does not *)
(* wait, because the login is the first message of the connection.  If the  *)
(* writer is gone the send fails, and the robot goes on.                    *)
TakeConn ==
    LET c == Head(chan[S]) IN
    /\ hub = "select" /\ chan[S] # <<>>
    /\ chan' = [chan EXCEPT ![S] = Tail(@)]
    /\ known' = known \cup {vfd[c]}
    /\ inbox' = Sent({c}, [kind |-> "Tcp", vfd |-> vfd[c]])
    /\ logins' = logins \cup {c}
    /\ UNCHANGED <<reader, writer, vfd, readnum, permits, msgs, notified, hubUp,
                   hub, next, dispatched, heard>>

TakeMsg(kind) ==
    /\ hub = "select" /\ msgs[S] # <<>>
    /\ Head(msgs[S]).kind = kind
    /\ msgs' = [msgs EXCEPT ![S] = Tail(@)]
    /\ UNCHANGED <<reader, writer, inbox, vfd, readnum, permits, chan, notified, hubUp,
                   hub, next, logins>>

(* Mutated form of Dispatch: the sender is not looked up. *)
DispatchAny ==
    LET m == Head(msgs[S]) IN
    /\ TakeMsg("Tcp")
    /\ dispatched' = [dispatched EXCEPT ![m.from] = m.seq]
    /\ UNCHANGED <<known, heard>>

(* robot_dispatch: a frame of a robot that has a sender. *)
Dispatch ==
    LET m == Head(msgs[S]) IN
    /\ TakeMsg("Tcp")
    /\ m.vfd \in known
    /\ dispatched' = [dispatched EXCEPT ![m.from] = m.seq]
    /\ UNCHANGED <<known, heard>>

(* A frame that comes before the registration is thrown away. *)
Dump ==
    /\ TakeMsg("Tcp")
    /\ Head(msgs[S]).vfd \notin known
    /\ UNCHANGED <<known, dispatched, heard>>

Forget ==
    LET m == Head(msgs[S]) IN
    /\ TakeMsg("SocketClosed")
    /\ known' = known \ {m.vfd}
    /\ heard' = heard \cup {m.from}
    /\ UNCHANGED dispatched

Next ==
    \/ ConnectFails \/ Connected \/ Acquire \/ HandOver \/ DialDone
    \/ TakeConn \/ Dispatch \/ Dump \/ Forget
    \/ \E c \in Conn : ConnStep(c) /\ UNCHANGED robotVars

Spec == Init /\ [][Next]_vars

(* A connect succeeds or fails in the end; a branch of select! that stays   *)
(* ready is taken.                                                          *)
FairSpec ==
    /\ Spec
    /\ ConnFairness
    /\ WF_vars(ConnectFails \/ Connected) /\ WF_vars(Acquire) /\ WF_vars(HandOver)
    /\ WF_vars(DialDone)
    /\ SF_vars(TakeConn)
    /\ SF_vars(Dispatch \/ Dump \/ Forget)

-----------------------------------------------------------------------------
(* Properties. *)

(* The task never waits for itself: when it needs a permit there is one,    *)
(* and when it sends a registration to the channel only it receives from,   *)
(* there is room, whatever the connections dialled so far have done.        *)
DialsThrough ==
    /\ hub = "acquire" => permits[S] > 0
    /\ hub = "register" => Len(chan[S]) < ConnChanSize

(* A frame is dispatched only after the registration of its connection, and *)
(* so after its login was sent or, with the writer gone, tried              *)
(* (client_hub.rs:55); in the order read, and never after its close: a      *)
(* frame that overtakes the registration is lost, not kept (line 74).       *)
AnswersLogin ==
    [][\A c \in Conn : dispatched'[c] # dispatched[c] =>
          /\ c \in logins \ heard
          /\ dispatched'[c] > dispatched[c]]_vars

(* Every connection that is dialled is registered, and its login tried,     *)
(* although its frames and close wait in front of a task that is busy       *)
(* dialling the rest.                                                       *)
EveryoneLogsIn == \A c \in Conn : (reader[c] = "run") ~> (c \in logins)

=============================================================================

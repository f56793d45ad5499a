----------------------------- MODULE GameServer -----------------------------
(***************************************************************************)
(* The process of a game server (services.rs, services/tcp_hub.rs): main   *)
(* starts the accept loops of the player and the rpc service, the rpc      *)
(* client hub and the game hub, in this order and as tasks of their own,   *)
(* and then waits until each has dropped its clone of                      *)
(* all_srv_close_sender.  The services accept and queue before the hub     *)
(* exists; when main returns, or panics on the way, the runtime is dropped *)
(* and with it every task that is left.                                    *)
(***************************************************************************)
EXTENDS GameHub

VARIABLES
    main,     \* where run_game_server is
    up,       \* how many of Tasks have been spawned
    clientUp, \* has the rpc client hub not panicked?
    closers   \* the tasks that hold a clone of all_srv_close_sender

procVars == <<main, up, clientUp, closers>>
serverVars == <<allVars, procVars>>

(* In the order of run_game_server, for service_type = game_service. *)
Tasks == <<"Tcp", "Rpc", "rpc_client_hub", "game_hub">>
Task == {Tasks[i] : i \in DOMAIN Tasks}
Spawned(t) == \E i \in 1..up : Tasks[i] = t

ServerTypeOK ==
    /\ HubTypeOK
    /\ main \in {"start", "wait", "ended", "panicked"}
    /\ up \in 0..Len(Tasks)
    /\ clientUp \in BOOLEAN
    /\ closers \subseteq Task \cup {"main"}

ServerInit ==
    /\ HubInit
    /\ main = "start"
    /\ up = 0
    /\ clientUp = TRUE
    /\ closers = {"main"}

(* Mutated form of Launch: the game hub is not given a sender to hold. *)
LaunchUncounted ==
    /\ main = "start"
    /\ up < Len(Tasks)
    /\ up' = up + 1
    /\ closers' = closers \cup ({Tasks[up + 1]} \ {"game_hub"})
    /\ UNCHANGED <<allVars, main, clientUp>>

(* The next task is built and spawned with its clone of the sender. *)
Launch ==
    /\ main = "start"
    /\ up < Len(Tasks)
    /\ up' = up + 1
    /\ closers' = closers \cup {Tasks[up + 1]}
    /\ UNCHANGED <<allVars, main, clientUp>>

(* Mutated form of MainWaits: main waits with its own sender in its hands. *)
MainWaitsHolding ==
    /\ main = "start"
    /\ up = Len(Tasks)
    /\ main' = "wait"
    /\ UNCHANGED <<allVars, up, clientUp, closers>>

(* drop(all_srv_close_sender) *)
MainWaits ==
    /\ main = "start"
    /\ up = Len(Tasks)
    /\ main' = "wait"
    /\ closers' = closers \ {"main"}
    /\ UNCHANGED <<allVars, up, clientUp>>

(* What a dropped runtime leaves of the state, but for the permits. *)
RuntimeDroppedBut ==
    /\ reader' = [c \in Conn |-> IF reader[c] = "none" THEN "none" ELSE "gone"]
    /\ writer' = [c \in Conn |-> IF writer[c] = "none" THEN "none" ELSE "done"]
    /\ inbox' = [c \in Conn |-> <<>>]
    /\ notified' = [s \in Srv |-> TRUE]
    /\ loop' = [s \in Srv |-> "stopped"]
    /\ hubUp' = FALSE
    /\ chan' = [s \in Srv |-> <<>>]
    /\ msgs' = [s \in Srv |-> <<>>]
    /\ gs' = {}
    /\ rpc_gs' = {}
    /\ clientUp' = FALSE
    /\ closers' = {}
    /\ UNCHANGED <<vfd, readnum, counter, backoff, dispatched, heard, up>>

(* Mutated form of RuntimeDropped: a permit for every reader there has been. *)
RuntimeDroppedTwice ==
    /\ RuntimeDroppedBut
    /\ permits' = [s \in Srv |->
                     permits[s] + Cardinality({c \in ConnOf(s) : reader[c] # "none"})]

(* The runtime is dropped: each task ends at the await it has reached, and  *)
(* drops what it owns.  A ConnReader returns a permit (Drop), that of a     *)
(* loop still waiting to take one included.                                 *)
RuntimeDropped ==
    /\ RuntimeDroppedBut
    /\ permits' = [s \in Srv |->
                     permits[s] + Cardinality({c \in ConnOf(s) : reader[c] \notin {"none", "gone"}})]

(* all_srv_close_receiver.recv() returns None once no sender is left. *)
MainEnds ==
    /\ main = "wait"
    /\ closers = {}
    /\ main' = "ended"
    /\ RuntimeDropped

(* A missing setting or a script that does not load: an unwrap in main. *)
MainPanics ==
    /\ main = "start"
    /\ main' = "panicked"
    /\ RuntimeDropped

Over(t) == CASE t \in Srv -> loop[t] = "stopped"
             [] t = "rpc_client_hub" -> ~clientUp
             [] t = "game_hub" -> ~hubUp

(* A task that ends, by return or by unwinding, drops its sender with the   *)
(* rest of what it owns, in the poll in which it ends.                      *)
Releases(t) == closers' = IF Over(t)' THEN closers \ {t} ELSE closers

(* tcp_hub::start: a service runs once it is spawned. *)
SpawnedService(s) ==
    /\ Spawned(s)
    /\ ServiceStep(s)
    /\ Releases(s)
    /\ UNCHANGED <<hubVars, main, up, clientUp>>

Connections ==
    \E c \in Conn : ConnStep(c) /\ UNCHANGED <<svcVars, hubVars, procVars>>

(* game_hub::start: until the task runs, its channels only fill. *)
SpawnedHub ==
    /\ Spawned("game_hub")
    /\ \/ AddTcp \/ AddRpc
       \/ \E s \in Srv : Dispatch(s) \/ ForgetClosed(s)
       \/ Tick \/ Panic
    /\ Releases("game_hub")
    /\ UNCHANGED <<main, up, clientUp>>

(* The rpc client hub ends only by a panic as well: its Module, and the     *)
(* Service it dials with, keep senders of its channels.                     *)
ClientHubPanics ==
    /\ Spawned("rpc_client_hub")
    /\ clientUp
    /\ clientUp' = FALSE
    /\ Releases("rpc_client_hub")
    /\ UNCHANGED <<allVars, main, up>>

ServerNext ==
    \/ Launch \/ MainWaits \/ MainEnds \/ MainPanics
    \/ \E s \in Srv : SpawnedService(s)
    \/ Connections
    \/ SpawnedHub
    \/ ClientHubPanics

ServerSpec == ServerInit /\ [][ServerNext]_serverVars

(* main and the tasks are polled; nothing is assumed of panics. *)
ServerFairness ==
    /\ WF_serverVars(Launch) /\ WF_serverVars(MainWaits) /\ WF_serverVars(MainEnds)

FairServerSpec == ServerSpec /\ SvcFairness /\ HubFairness /\ ServerFairness

-----------------------------------------------------------------------------
(* Properties. *)

AllOver == \A t \in Task : Over(t)

(* main returns, which ends the process, only when both accept loops and    *)
(* both hubs are over ("each module's service holds a reference",           *)
(* services.rs:24): no step before RuntimeDropped finds a task it would     *)
(* kill, except connections on their way out.                               *)
EndsLast == [][main' = "ended" /\ main # "ended" => AllOver]_serverVars

(* When they are over, the process does end: nobody else, main included,    *)
(* still holds a sender ("wait for the other services", services.rs:79).    *)
ServerEnds == (AllOver /\ main = "wait") ~> (main = "ended")

=============================================================================

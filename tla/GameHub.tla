------------------------------ MODULE GameHub ------------------------------
(***************************************************************************)
(* The hub of a game server (services/game_hub.rs): one task that owns the *)
(* receivers of the player service ("Tcp") and of the rpc service ("Rpc"), *)
(* the registries of both (states/tcp_state.rs) and the Lua state.  Its    *)
(* select! takes any ready branch, so what two channels carry about one    *)
(* connection may be seen in either order.                                 *)
(***************************************************************************)
EXTENDS TcpService

ASSUME HubAssumption == Srv = {"Tcp", "Rpc"}

VARIABLES
    gs,          \* identifiers registered in gs.tcp_state.conn_map
    rpc_gs,      \* identifiers registered in rpc_gs.tcp_state.conn_map
    dispatched,  \* history: number of the last frame of a connection given to Lua
    heard        \* history: connections whose SocketClosed the hub has handled

hubVars == <<gs, rpc_gs, dispatched, heard>>
allVars == <<vars, hubVars>>

HubTypeOK ==
    /\ TypeOK
    /\ gs \subseteq Vfd
    /\ rpc_gs \subseteq Vfd
    /\ dispatched \in [Conn -> Nat]
    /\ heard \subseteq Conn

HubInit ==
    /\ Init
    /\ gs = {}
    /\ rpc_gs = {}
    /\ dispatched = [c \in Conn |-> 0]
    /\ heard = {}

-----------------------------------------------------------------------------
(* Mutated form of LuaSends: the identifier is not looked up. *)
LuaSendsUnchecked ==
    \/ UNCHANGED inbox
    \/ \E v \in Vfd : inbox' = Sent({<<"Tcp", v>>}, [kind |-> "Tcp", vfd |-> v])

(* The script layer may call tcp_send: look the identifier up in gs and     *)
(* try_send to it.  (luautil.rs registers gs's registry only.)              *)
LuaSends ==
    \/ UNCHANGED inbox
    \/ \E v \in gs : inbox' = Sent({<<"Tcp", v>>}, [kind |-> "Tcp", vfd |-> v])

TakeChan(s) ==
    /\ hubUp
    /\ chan[s] # <<>>
    /\ chan' = [chan EXCEPT ![s] = Tail(@)]
    /\ UNCHANGED <<reader, writer, inbox, vfd, readnum, permits, msgs, notified,
                   hubUp, svcVars, dispatched, heard>>

AddTcp == /\ TakeChan("Tcp")
          /\ gs' = gs \cup {vfd[Head(chan["Tcp"])]}
          /\ UNCHANGED rpc_gs

AddRpc == /\ TakeChan("Rpc")
          /\ rpc_gs' = rpc_gs \cup {vfd[Head(chan["Rpc"])]}
          /\ UNCHANGED gs

TakeMsg(s) ==
    /\ hubUp
    /\ msgs[s] # <<>>
    /\ msgs' = [msgs EXCEPT ![s] = Tail(@)]
    /\ UNCHANGED <<reader, writer, vfd, readnum, permits, chan, notified, hubUp, svcVars>>

(* gs.dispatch and gs.rpc_dispatch: call into Lua. *)
Dispatch(s) ==
    LET m == Head(msgs[s]) IN
    /\ TakeMsg(s)
    /\ m.kind # "SocketClosed"
    /\ dispatched' = [dispatched EXCEPT ![m.from] = m.seq]
    /\ LuaSends
    /\ UNCHANGED <<gs, rpc_gs, heard>>

(* Mutated form of ForgetClosed: the number is removed from both registries. *)
ForgetClosedTwice(s) ==
    LET m == Head(msgs[s]) IN
    /\ TakeMsg(s)
    /\ m.kind = "SocketClosed"
    /\ gs' = gs \ {m.vfd}
    /\ rpc_gs' = rpc_gs \ {m.vfd}
    /\ heard' = heard \cup {m.from}
    /\ UNCHANGED <<inbox, dispatched>>

(* A closed connection is removed from rpc_gs, whichever service it was of. *)
ForgetClosed(s) ==
    LET m == Head(msgs[s]) IN
    /\ TakeMsg(s)
    /\ m.kind = "SocketClosed"
    /\ rpc_gs' = rpc_gs \ {m.vfd}
    /\ heard' = heard \cup {m.from}
    /\ UNCHANGED <<inbox, gs, dispatched>>

(* heart_beat.tick(): gs.update_timer may run the script's timers. *)
Tick ==
    /\ hubUp
    /\ LuaSends
    /\ UNCHANGED <<reader, writer, vfd, readnum, permits, chan, msgs, notified,
                   hubUp, svcVars, hubVars>>

(* A panic in the hub task, such as the division of TimerState::add_timer.  *)
(* No branch of the loop ends it otherwise: the hub's own Module values     *)
(* keep a sender of each of its channels, so recv() never returns None.     *)
Panic ==
    /\ HubDies
    /\ gs' = {}
    /\ rpc_gs' = {}
    /\ UNCHANGED <<svcVars, dispatched, heard>>

HubNext ==
    \/ NetStep /\ UNCHANGED hubVars
    \/ AddTcp \/ AddRpc
    \/ \E s \in Srv : Dispatch(s) \/ ForgetClosed(s)
    \/ Tick \/ Panic

HubSpec == HubInit /\ [][HubNext]_allVars

(* Each branch of select! that stays ready is taken in the end. *)
HubFairness ==
    /\ WF_allVars(AddTcp) /\ WF_allVars(AddRpc)
    /\ \A s \in Srv : WF_allVars(Dispatch(s) \/ ForgetClosed(s))

FairHubSpec == HubSpec /\ SvcFairness /\ HubFairness

-----------------------------------------------------------------------------
(* Properties. *)

InChan(c) == \E i \in DOMAIN chan[Home(c)] : chan[Home(c)][i] = c
Live(c) == writer[c] \in {"run", "write"}

(* While the hub runs, every live player connection can be reached: its     *)
(* sender is registered, or on its way in the channel (game_hub.rs:31-33).  *)
TcpNeverLost ==
    hubUp => \A c \in ConnOf("Tcp") : Live(c) => InChan(c) \/ vfd[c] \in gs

(* The same of rpc connections, for which rpc_gs "maintains the sender"     *)
(* (game_hub.rs:56).  It fails: closing a player connection removes the rpc *)
(* connection that happens to have the same number.                         *)
RpcNeverLost ==
    hubUp => \A c \in ConnOf("Rpc") :
                 (Live(c) /\ reader[c] = "run") => InChan(c) \/ vfd[c] \in rpc_gs

(* conn_map holds "all connections once they are complete" (tcp_state.rs:6), *)
(* so the script can answer the frame it is given.  It fails: the first      *)
(* frames of a connection may be dispatched before its sender is registered. *)
SenderBeforeFrames ==
    [][\A c \in ConnOf("Tcp") : dispatched'[c] # dispatched[c] => vfd[c] \in gs]_allVars

(* Lua sees the frames of one connection in the order they were read, each  *)
(* at most once, and none after the hub has handled its SocketClosed.       *)
DispatchInOrder ==
    [][\A c \in Conn : dispatched'[c] # dispatched[c] =>
            dispatched'[c] > dispatched[c] /\ c \notin heard]_allVars

(* No close is lost: a reader that has stopped has been heard of, or its    *)
(* SocketClosed is still queued, and a connection heard of has no message   *)
(* left behind it.                                                          *)
CloseNotLost ==
    hubUp => \A c \in Conn :
        LET queued == {i \in DOMAIN msgs[Home(c)] : msgs[Home(c)][i].from = c} IN
        /\ reader[c] \in {"drop", "gone"} =>
              \/ c \in heard
              \/ \E i \in queued : msgs[Home(c)][i].kind = "SocketClosed"
        /\ c \in heard => queued = {}

(* The hub hears of every connection whose reader stops, unless it dies. *)
CloseHeard == \A c \in Conn : (reader[c] = "notify") ~> (c \in heard \/ ~hubUp)

=============================================================================

---------------------------- MODULE ScriptCalls ----------------------------
(***************************************************************************)
(* The two ways in which a table leaves a script (luautil.rs): tcp_send    *)
(* makes it a message, rpc_send the text of one.  A script is at one call  *)
(* at a time.                                                              *)
(***************************************************************************)
EXTENDS ListFields, ScriptText

ASSUME CallAssumption == Heaps # {}

VARIABLE call

callVars == <<call, listVars, textVars>>

CallTypeOK == call \in {"tcp_send", "rpc_send"} /\ ListTypeOK /\ TextTypeOK

CallInit ==
    \/ /\ call = "tcp_send"
       /\ ListInit
       /\ heap \in {CHOOSE h \in Heaps : TRUE}
       /\ stack = <<>> /\ text = <<>> /\ outcome = "writing"
    \/ /\ call = "rpc_send"
       /\ TextInit
       /\ first = <<>> /\ list = <<>> /\ table = <<>>
       /\ edited = FALSE /\ sends = 0 /\ refused = FALSE

CallNext ==
    \/ call = "tcp_send" /\ ListStep /\ UNCHANGED <<call, textVars>>
    \/ call = "rpc_send" /\ TextStep /\ UNCHANGED <<call, listVars>>

CallSpec == CallInit /\ [][CallNext]_callVars

=============================================================================

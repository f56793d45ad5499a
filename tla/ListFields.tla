----------------------------- MODULE ListFields -----------------------------
(***************************************************************************)
(* How a repeated field of a message crosses between Rust and Lua: the     *)
(* code that the generator (src/protogen/build.rs) writes for it.  A frame *)
(* that is dispatched becomes a table for the script, and the table a      *)
(* script passes to tcp_send becomes a message again.  Elements are copied *)
(* by index, from 0 in both directions, but the number of elements of a    *)
(* table is what Lua says, which counts from 1.                            *)
(*                                                                         *)
(* A script passes the list on, as it came or changed, to a peer, which    *)
(* may send it back, and so on: `sends` counts the times.                  *)
(***************************************************************************)
EXTENDS Integers, Sequences

CONSTANTS
    Item,      \* elements
    Nested,    \* are they messages themselves?
    ListLimit, \* a nested list this long is refused (1000)
    MaxLen,    \* elements of the first list (bounds the model)
    Slots,     \* indices a script may set (bounds the model)
    MaxSends   \* (bounds the model)

ASSUME ListAssumption ==
    /\ Nested \in BOOLEAN
    /\ {ListLimit, MaxLen, MaxSends} \subseteq Nat
    /\ Slots \subseteq Int

VARIABLES
    first,  \* history: the list as it was received for the first time
    list,   \* the field of the message
    table,  \* the script's table for it: a function from the indices in use
    edited, \* history: has a script changed a table?
    sends,  \* history: messages made from tables
    refused \* history: did the last tcp_send fail?

listVars == <<first, list, table, edited, sends, refused>>

(* The lists of at most n elements. *)
Lists(n) == UNION {[1..k -> Item] : k \in 0..n}

ListTypeOK ==
    /\ first \in Seq(Item)
    /\ list \in Seq(Item)
    /\ DOMAIN table \subseteq Int /\ \A k \in DOMAIN table : table[k] \in Item
    /\ edited \in BOOLEAN
    /\ sends \in Nat
    /\ refused \in BOOLEAN

-----------------------------------------------------------------------------
(* to_lua_table *)
ToTable(s) == [k \in 0..(Len(s) - 1) |-> s[k + 1]]

(* table.len(): any n such that index n is in use, or n = 0, and index n+1  *)
(* is not.                                                                  *)
Borders(t) == {n \in (DOMAIN t \cup {0}) \cap Nat : n + 1 \notin DOMAIN t}

(* Mutated form of Refuses: the indices looked at are 1..=len. *)
RefusesFromOne(t, n) == (Nested /\ n >= ListLimit) \/ ~(1..n \subseteq DOMAIN t)

(* from_lua_table returns an error: too long, or nil where an element is    *)
(* expected.  (nil does as a bool; the lists here are of other types.)      *)
Refuses(t, n) == (Nested /\ n >= ListLimit) \/ ~(0..(n - 1) \subseteq DOMAIN t)

(* from_lua_table: for index in 0..len. *)
FromTable(t, n) == [i \in 1..n |-> t[i - 1]]

-----------------------------------------------------------------------------
ListInit ==
    /\ first \in Lists(MaxLen)
    /\ list = first
    /\ table = ToTable(first)
    /\ edited = FALSE
    /\ sends = 0
    /\ refused = FALSE

(* The script sets an index to an element or to nil. *)
Edit ==
    /\ \E k \in Slots :
          \/ \E e \in Item :
                table' = [j \in DOMAIN table \cup {k} |-> IF j = k THEN e ELSE table[j]]
          \/ table' = [j \in DOMAIN table \ {k} |-> table[j]]
    /\ edited' = TRUE
    /\ refused' = FALSE
    /\ UNCHANGED <<first, list, sends>>

(* tcp_send: the message is made and goes out, and the peer sends it back.  *)
SendList ==
    /\ sends < MaxSends
    /\ \E n \in Borders(table) :
          /\ ~Refuses(table, n)
          /\ list' = FromTable(table, n)
    /\ table' = ToTable(list')
    /\ sends' = sends + 1
    /\ refused' = FALSE
    /\ UNCHANGED <<first, edited>>

(* tcp_send raises an error in the script, and nothing is sent. *)
RefuseList ==
    /\ \E n \in Borders(table) : Refuses(table, n)
    /\ refused' = TRUE
    /\ UNCHANGED <<first, list, table, edited, sends>>

ListStep == Edit \/ SendList \/ RefuseList

ListSpec == ListInit /\ [][ListStep]_listVars

-----------------------------------------------------------------------------
(* Properties. *)

(* A list that a script passes on as it came is the list it was.            *)
(* src/protogen/proto/inventory/c2s_inventory_req.proto:7 says of its list  *)
(* "all items of the backpack"; build.rs:595 and 623 copy the indices from  *)
(* 0 up to a length that Lua counts from 1.                                 *)
AllItemsKept == ~edited => list = first

(* What becomes of such a list instead: it loses its last element each      *)
(* time, and nothing else.                                                  *)
ShrinksByOne ==
    ~edited => list = SubSeq(first, 1, IF sends < Len(first) THEN Len(first) - sends ELSE 0)

(* Scripts must leave the last index to a filler: with indices 0 to n, what *)
(* is sent is the elements 0 to n-1; and a list counted from 1, as Lua's    *)
(* own are, is never sent at all.                                           *)
FillerNeeded ==
    \A n \in 0..(MaxLen + 1) :
        /\ DOMAIN table = 0..n => Borders(table) = {n}
        /\ n > 0 /\ DOMAIN table = 1..n => \A b \in Borders(table) : Refuses(table, b)

=============================================================================

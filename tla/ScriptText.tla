----------------------------- MODULE ScriptText -----------------------------
(***************************************************************************)
(* How the arguments of an rpc call travel (protos.rs): rpc_send writes    *)
(* the script's table as the text of a Lua table constructor, and the      *)
(* script of the other server loads that text.  The writer walks the       *)
(* table depth first, its pairs in no particular order.  Tables are        *)
(* objects, which may contain each other and themselves.                   *)
(*                                                                         *)
(* A Lua value is a pair <<type, content>>.  A number is an integer of 64   *)
(* bits or a float, and is named by its value: 1 and 1.0 have the same      *)
(* content.  "inf" is infinity or NaN, "neginf" its negative.  A string is  *)
(* a sequence of bytes, named where they mean something to the writer or    *)
(* the reader; "zero" and "r" stand for all ordinary bytes.                 *)
(***************************************************************************)
EXTENDS Naturals, Sequences, SequencesExt, FiniteSets

CONSTANTS
    Id,       \* tables
    Root,     \* the table the script passes to rpc_send
    Heaps,    \* the contents the tables may have
    MaxDepth, \* tables within tables (20)
    Ints,     \* values of integers
    LeastInt, \* the least of them, -2^63
    Floats    \* finite values of floats

Byte == {"quote", "backslash", "newline", "return", "nul", "zero", "r", "invalid"}
Number == ({"int"} \X Ints) \cup ({"float"} \X Floats)
Value == Number \cup ({"str"} \X Seq(Byte)) \cup ({"tab"} \X Id)
            \cup {<<"true", 0>>, <<"inf", 0>>, <<"neginf", 0>>, <<"fun", 0>>}

(* Lua keeps a key that is a float with an integer's value as the integer.  *)
AsKey(v) == IF v[1] = "float" /\ v[2] \in Ints THEN <<"int", v[2]>> ELSE v

IsTable(D) ==
    /\ IsFiniteSet(D) /\ D \subseteq Value \X Value
    /\ \A p \in D : AsKey(p[1]) = p[1]
    /\ \A p, q \in D : p[1] = q[1] => p = q

ASSUME TextAssumption ==
    /\ Root \in Id
    /\ MaxDepth \in Nat \ {0}
    /\ LeastInt \in Ints
    /\ \A h \in Heaps : DOMAIN h = Id /\ \A i \in Id : IsTable(h[i])

VARIABLES
    heap,    \* the pairs of each table
    stack,   \* for each table being written, the pairs that are left
    text,    \* what is written: braces, keys and values
    outcome  \* of serialize_table_to_string

(* What is written for a value that is not a table. *)
Word == ({"num"} \X (Ints \cup Floats)) \cup ({"str"} \X Seq(Byte))
            \cup {<<"true", 0>>, <<"inf", 0>>, <<"neginf", 0>>}

textVars == <<heap, stack, text, outcome>>

TextTypeOK ==
    /\ DOMAIN heap = Id /\ \A i \in Id : IsTable(heap[i])
    /\ stack \in Seq(UNION {SUBSET heap[i] : i \in Id}) /\ Len(stack) <= MaxDepth
    /\ text \in Seq({<<"open", 0>>, <<"close", 0>>} \cup ({"key", "val"} \X Word))
    /\ outcome \in {"writing", "ok", "failed"}

-----------------------------------------------------------------------------
(* Strings. *)

(* Mutated form of Escaped: only what would end the string is escaped. *)
EscapedBasic(b) ==
    IF b \in {"quote", "backslash"} THEN <<"backslash", b>> ELSE <<b>>

(* to_string, one byte. *)
Escaped(b) ==
    CASE b \in {"quote", "backslash", "newline"} -> <<"backslash", b>>
      [] b = "return" -> <<"backslash", "r">>
      [] b = "nul" -> <<"backslash", "zero", "zero", "zero">>
      [] OTHER -> <<b>>

Quoted(s) == <<"quote">> \o FlattenSeq([i \in DOMAIN s |-> Escaped(s[i])]) \o <<"quote">>

-----------------------------------------------------------------------------
(* The writer. *)

(* Keys of other types (booleans too), functions, and strings that are not  *)
(* utf-8 fail.                                                              *)
IsText(s) == "invalid" \notin Range(s)
GoodKey(k) ==
    \/ k[1] \in {"int", "float", "inf", "neginf"}
    \/ k[1] = "str" /\ IsText(k[2])

(* Mutated form of GoodValue: a value of an unknown type is written as is.  *)
GoodValueAny(v) == v[1] = "str" => IsText(v[2])

GoodValue(v) == v[1] \in {"tab", "true"} \/ GoodKey(v)

(* Mutated form of TooDeep. *)
TooDeepLate(depth) == depth > MaxDepth

(* table_to_string at this depth fails. *)
TooDeep(depth) == depth >= MaxDepth

(* write! gives the digits of a number: 1 for 1.0 as well, and inf, -inf or *)
(* NaN for what has no digits.                                              *)
Written(v) ==
    CASE v[1] = "str" -> <<"str", Quoted(v[2])>>
      [] v[1] \in {"int", "float"} -> <<"num", v[2]>>
      [] OTHER -> v

Top == stack[Len(stack)]
Below == SubSeq(stack, 1, Len(stack) - 1)

TextInit ==
    /\ heap \in Heaps
    /\ stack = <<heap[Root]>>
    /\ text = <<<<"open", 0>>>>
    /\ outcome = "writing"

(* A pair whose value is not a table. *)
WritePair ==
    /\ outcome = "writing"
    /\ \E p \in Top :
          /\ GoodKey(p[1]) /\ GoodValue(p[2]) /\ p[2][1] # "tab"
          /\ text' = text \o <<<<"key", Written(p[1])>>, <<"val", Written(p[2])>>>>
          /\ stack' = Append(Below, Top \ {p})
    /\ UNCHANGED <<heap, outcome>>

(* A pair whose value is a table: its pairs come next. *)
EnterTable ==
    /\ outcome = "writing"
    /\ \E p \in Top :
          /\ GoodKey(p[1]) /\ p[2][1] = "tab" /\ ~TooDeep(Len(stack))
          /\ text' = text \o <<<<"key", Written(p[1])>>, <<"open", 0>>>>
          /\ stack' = Below \o <<Top \ {p}, heap[p[2][2]]>>
    /\ UNCHANGED <<heap, outcome>>

LeaveTable ==
    /\ outcome = "writing" /\ Top = {}
    /\ text' = Append(text, <<"close", 0>>)
    /\ stack' = Below
    /\ outcome' = IF Len(stack) = 1 THEN "ok" ELSE "writing"
    /\ UNCHANGED heap

(* The error goes up to the script; nothing is sent. *)
Fail ==
    /\ outcome = "writing"
    /\ \E p \in Top : \/ ~GoodKey(p[1])
                      \/ ~GoodValue(p[2])
                      \/ p[2][1] = "tab" /\ TooDeep(Len(stack))
    /\ stack' = <<>> /\ text' = <<>> /\ outcome' = "failed"
    /\ UNCHANGED heap

TextStep == WritePair \/ EnterTable \/ LeaveTable \/ Fail

-----------------------------------------------------------------------------
(* The reader, which is Lua. *)

Bad == <<"bad", 0>>

(* The bytes of a string literal, one after the other. *)
InLiteral(out, b) ==
    CASE b = "quote" -> [out |-> out, mode |-> "end"]
      [] b = "backslash" -> [out |-> out, mode |-> "escape"]
      [] b \in {"newline", "return"} -> [out |-> out, mode |-> "bad"]
      [] OTHER -> [out |-> Append(out, b), mode |-> "in"]

LexByte(l, b) ==
    CASE l.mode = "start" -> [l EXCEPT !.mode = IF b = "quote" THEN "in" ELSE "bad"]
      [] l.mode = "in" -> InLiteral(l.out, b)
      [] l.mode = "escape" /\ b = "zero" -> [l EXCEPT !.mode = "digit1"]
      [] l.mode = "escape" /\ b = "r" -> [out |-> Append(l.out, "return"), mode |-> "in"]
      [] l.mode = "escape" /\ b \in {"quote", "backslash", "newline"} ->
            [out |-> Append(l.out, b), mode |-> "in"]
      [] l.mode = "digit1" /\ b = "zero" -> [l EXCEPT !.mode = "digit2"]
      [] l.mode = "digit2" /\ b = "zero" -> [out |-> Append(l.out, "nul"), mode |-> "in"]
      [] l.mode \in {"digit1", "digit2"} /\ b # "zero" ->
            InLiteral(Append(l.out, "nul"), b)
      [] OTHER -> [l EXCEPT !.mode = "bad"]

Literal(s) ==
    LET l == FoldLeft(LexByte, [out |-> <<>>, mode |-> "start"], s)
    IN  IF l.mode = "end" THEN <<"str", l.out>> ELSE Bad

(* Digits without a point are an integer if it fits; the least one does not, *)
(* since its sign is an operator on the digits.                             *)
Numeral(x) == <<IF x \in Ints \ {LeastInt} THEN "int" ELSE "float", x>>

Atom(w) ==
    CASE w[1] = "str" -> Literal(w[2])
      [] w[1] = "num" -> Numeral(w[2])
      [] OTHER -> w

(* A field gets its value.  inf and NaN are names that are not defined, so  *)
(* they are nil, and the field is not set; but -inf is an operation on nil, *)
(* an error, with which nothing is loaded: no constructor is left.          *)
Settled(outer, f, v) ==
    IF v[1] \in {"neginf", "bad"} THEN <<>>
    ELSE Append(outer, [f EXCEPT !.pairs = IF v[1] = "inf" THEN @ ELSE @ \cup {<<f.key, v>>}])

(* nil as a key is an error too. *)
Keyed(outer, f, k) ==
    IF k[1] \in {"inf", "neginf", "bad"} THEN <<>> ELSE Append(outer, [f EXCEPT !.key = k])

(* The table constructors that are open, the first one for the whole text. *)
LoadToken(fs, t) ==
    LET f == fs[Len(fs)]
        outer == SubSeq(fs, 1, Len(fs) - 1)
    IN  CASE fs = <<>> -> <<>>
          [] fs # <<>> /\ t[1] = "open" -> Append(fs, [key |-> Bad, pairs |-> {}])
          [] fs # <<>> /\ t[1] = "key" -> Keyed(outer, f, AsKey(Atom(t[2])))
          [] fs # <<>> /\ t[1] = "val" -> Settled(outer, f, Atom(t[2]))
          [] fs # <<>> /\ t[1] = "close" ->
                Settled(SubSeq(outer, 1, Len(outer) - 1), outer[Len(outer)], <<"tab", f.pairs>>)

Whole == [key |-> <<"str", <<>>>>, pairs |-> {}]

(* The value of the whole text. *)
Load(s) ==
    LET fs == FoldLeft(LoadToken, <<Whole>>, s)
    IN  IF fs = <<>> THEN Bad ELSE (CHOOSE p \in fs[1].pairs : TRUE)[2]

-----------------------------------------------------------------------------
(* Properties. *)

(* Level[n]: the tables the writer would enter n levels down. *)
Tables(I) == {p[2][2] : p \in {q \in UNION {heap[i] : i \in I} : q[2][1] = "tab"}}
Level[n \in 0..MaxDepth] == IF n = 0 THEN {Root} ELSE Tables(Level[n - 1])
Within == UNION {Level[n] : n \in 0..(MaxDepth - 1)}

(* A pair that has a text: its key and value are numbers or utf-8 strings,  *)
(* or its value a table.                                                    *)
HasText(p) ==
    /\ p[1][1] \in {"int", "float", "inf", "neginf", "str"}
    /\ p[2][1] # "fun"
    /\ \A i \in 1..2 : p[i][1] = "str" => \A j \in DOMAIN p[i][2] : p[i][2][j] # "invalid"

(* A table is refused if and only if something in it has no text or it is   *)
(* nested too deep, as every table that contains itself is: no order in     *)
(* which pairs come up lets one through or refuses one without a cause      *)
(* (protos.rs:13, 27-91).  That the writer comes to an end at all is not    *)
(* said here: TextTypeOK bounds how deep it goes.                           *)
RefusedForCause ==
    outcome # "writing" =>
        (outcome = "ok" <=>
            /\ Level[MaxDepth] = {}
            /\ \A i \in Within : \A p \in heap[i] : HasText(p))

(* Can a pair be loaded, if the tables arrive as c says? *)
Loadable(p, c) ==
    /\ p[1][1] \notin {"inf", "neginf"}
    /\ p[2][1] # "neginf"
    /\ p[2][1] = "tab" => c[p[2][2]] # Bad

Arrived(p, c) ==
    <<p[1], CASE p[2][1] = "tab" -> c[p[2][2]]
              [] p[2][1] \in {"int", "float"} -> Numeral(p[2][2])
              [] OTHER -> p[2]>>

(* A table of the pairs D as it arrives: without the entries whose value is *)
(* infinite or NaN, and not at all if anything in it cannot be loaded.      *)
TableOf(D, c) ==
    IF \A p \in D : Loadable(p, c)
    THEN <<"tab", {Arrived(p, c) : p \in {q \in D : q[2][1] # "inf"}}>>
    ELSE Bad

(* Contents[n][i]: table i with everything in it, n levels deep. *)
Contents[n \in 0..MaxDepth] ==
    [i \in Id |-> IF n = 0 THEN <<"tab", {}>> ELSE TableOf(heap[i], Contents[n - 1])]

(* The other server loads the table that was sent: whatever bytes its       *)
(* strings have, no string ends early, swallows what follows it or comes    *)
(* out changed (protos.rs:93-94 compares with Lua's own "%q", and           *)
(* simplifies).  Its numbers arrive with the values they have, though 1.0   *)
(* as an integer and the least integer as a float; infinite values are      *)
(* lost.  It does not load exactly if a negative infinite value or an       *)
(* infinite key is anywhere in it (protos.rs:35, 62).                       *)
ReadsBack == outcome = "ok" => Load(text) = Contents[MaxDepth][Root]

=============================================================================

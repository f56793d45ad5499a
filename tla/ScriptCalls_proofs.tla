------------------------- MODULE ScriptCalls_proofs -------------------------
(***************************************************************************)
(* A list that scripts pass on unchanged loses exactly its last element    *)
(* each time, for any elements, lengths and number of times.  A table for  *)
(* another server is refused when, and only when, there is a cause, for    *)
(* any tables, however they contain each other, and any depth; and if it   *)
(* is not, it is known exactly what the other server loads: the table, but *)
(* for its infinite values, or nothing.                                    *)
(***************************************************************************)
EXTENDS ScriptCalls, FlattenTheorems, SequenceTheorems, TLAPS

(* Until a script changes it, the table is the one made from the list, and  *)
(* the list is what is left of the first.                                   *)
Kept ==
    ~edited => /\ table = ToTable(list)
               /\ Len(list) = IF sends < Len(first) THEN Len(first) - sends ELSE 0
               /\ \A i \in 1..Len(list) : list[i] = first[i]

ListInv == ListTypeOK /\ Kept

-----------------------------------------------------------------------------
(* The conversions. *)

LEMMA ListsAreSeqs == \A s \in Lists(MaxLen) : s \in Seq(Item)
  BY ListAssumption DEF Lists

LEMMA TableFrom ==
    ASSUME NEW s \in Seq(Item)
    PROVE  /\ DOMAIN ToTable(s) = 0..(Len(s) - 1)
           /\ \A k \in 0..(Len(s) - 1) : ToTable(s)[k] = s[k + 1] /\ s[k + 1] \in Item
           /\ DOMAIN ToTable(s) \subseteq Int
           /\ \A k \in DOMAIN ToTable(s) : ToTable(s)[k] \in Item
<1>1. Len(s) \in Nat /\ \A k \in 0..(Len(s) - 1) : k + 1 \in 1..Len(s)
    OBVIOUS
<1>2. \A k \in 0..(Len(s) - 1) : s[k + 1] \in Item
    BY <1>1
<1>3. QED
    BY <1>1, <1>2 DEF ToTable

(* What is sent is a list of as many elements as the border says. *)
LEMMA ListOf ==
    ASSUME NEW t, \A k \in DOMAIN t : t[k] \in Item, NEW n \in Borders(t), ~Refuses(t, n)
    PROVE  /\ FromTable(t, n) \in Seq(Item) /\ Len(FromTable(t, n)) = n /\ n \in Nat
           /\ \A i \in 1..n : FromTable(t, n)[i] = t[i - 1] /\ i - 1 \in DOMAIN t
<1>1. n \in Nat
    BY DEF Borders
<1>2. \A i \in 1..n : i - 1 \in DOMAIN t
    BY <1>1 DEF Refuses
<1>3. \A i \in 1..n : t[i - 1] \in Item
    BY <1>2
<1>4. FromTable(t, n) \in [1..n -> Item]
    BY <1>3 DEF FromTable
<1>5. FromTable(t, n) \in Seq(Item) /\ Len(FromTable(t, n)) = n
    BY ONLY <1>1, <1>4
<1>6. QED
    BY <1>1, <1>2, <1>5 DEF FromTable

(* Lua counts the table of a list one short. *)
LEMMA OneShort ==
    ASSUME NEW s \in Seq(Item), NEW n \in Borders(ToTable(s))
    PROVE  n = IF Len(s) = 0 THEN 0 ELSE Len(s) - 1
<1>1. /\ Len(s) \in Nat /\ n \in Nat
      /\ n \in 0..(Len(s) - 1) \/ n = 0
      /\ n + 1 \notin 0..(Len(s) - 1)
    BY TableFrom DEF Borders
<1>2. QED
    BY <1>1

-----------------------------------------------------------------------------
LEMMA ListInvInit == ListInit => ListInv
<1> SUFFICES ASSUME ListInit PROVE ListInv
    OBVIOUS
<1>1. first \in Seq(Item) /\ list = first /\ table = ToTable(first)
    BY ListsAreSeqs DEF ListInit
<1>2. Kept
    BY <1>1 DEF ListInit, Kept
<1>3. QED
    BY <1>1, <1>2, TableFrom DEF ListInit, ListInv, ListTypeOK

LEMMA EditKeeps == ASSUME ListInv, Edit PROVE ListInv'
<1>1. DOMAIN table' \subseteq Int /\ \A k \in DOMAIN table' : table'[k] \in Item
  <2>1. PICK k \in Slots :
          \/ \E e \in Item :
                table' = [j \in DOMAIN table \cup {k} |-> IF j = k THEN e ELSE table[j]]
          \/ table' = [j \in DOMAIN table \ {k} |-> table[j]]
      BY DEF Edit
  <2>2. k \in Int /\ DOMAIN table \subseteq Int /\ \A j \in DOMAIN table : table[j] \in Item
      BY ListAssumption DEF ListInv, ListTypeOK
  <2>3. CASE table' = [j \in DOMAIN table \ {k} |-> table[j]]
      BY <2>2, <2>3
  <2>4. ASSUME NEW e \in Item,
               table' = [j \in DOMAIN table \cup {k} |-> IF j = k THEN e ELSE table[j]]
        PROVE  DOMAIN table' \subseteq Int /\ \A j \in DOMAIN table' : table'[j] \in Item
      BY <2>2, <2>4
  <2>5. QED
      BY <2>1, <2>3, <2>4
<1>2. QED
    BY <1>1 DEF Edit, ListInv, ListTypeOK, Kept

LEMMA SendKeeps == ASSUME ListInv, SendList PROVE ListInv'
<1>1. PICK n \in Borders(table) : ~Refuses(table, n) /\ list' = FromTable(table, n)
    BY DEF SendList
<1>2. /\ list' \in Seq(Item) /\ Len(list') = n /\ n \in Nat
      /\ \A i \in 1..n : list'[i] = table[i - 1]
    BY <1>1, ListOf DEF ListInv, ListTypeOK
<1>3. /\ table' = ToTable(list') /\ sends' = sends + 1 /\ refused' = FALSE
      /\ UNCHANGED <<first, edited>>
    BY DEF SendList
<1>4. DOMAIN table' \subseteq Int /\ \A k \in DOMAIN table' : table'[k] \in Item
    BY <1>2, <1>3, TableFrom
<1>5. ListTypeOK'
  <2>1. first' \in Seq(Item) /\ sends' \in Nat
      BY <1>3 DEF ListInv, ListTypeOK
  <2>2. edited' \in BOOLEAN /\ refused' \in BOOLEAN
      BY <1>3 DEF ListInv, ListTypeOK
  <2>3. QED
      BY <1>2, <1>4, <2>1, <2>2 DEF ListTypeOK
<1>6. ASSUME ~edited
      PROVE  /\ Len(list') = IF sends' < Len(first) THEN Len(first) - sends' ELSE 0
             /\ \A i \in 1..Len(list') : list'[i] = first[i]
  <2>1. /\ table = ToTable(list) /\ list \in Seq(Item) /\ sends \in Nat
        /\ Len(list) = IF sends < Len(first) THEN Len(first) - sends ELSE 0
        /\ \A i \in 1..Len(list) : list[i] = first[i]
        /\ Len(list) \in Nat /\ Len(first) \in Nat
      BY <1>6 DEF ListInv, ListTypeOK, Kept
  <2>2. n = IF Len(list) = 0 THEN 0 ELSE Len(list) - 1
      BY <1>1, <2>1, OneShort
  <2>3. Len(list') = IF sends' < Len(first) THEN Len(first) - sends' ELSE 0
      BY ONLY <1>2, <1>3, <2>1, <2>2
  <2>4. ASSUME NEW i \in 1..n PROVE list'[i] = first[i]
    <3>1. i - 1 \in 0..(Len(list) - 1) /\ (i - 1) + 1 = i /\ i \in 1..Len(list)
        BY ONLY <2>1, <2>2, <1>2, <2>4
    <3>2. table[i - 1] = list[(i - 1) + 1]
        BY <2>1, <3>1, TableFrom
    <3>3. QED
        BY <1>2, <2>1, <3>1, <3>2
  <2>5. QED
      BY <1>2, <2>3, <2>4
<1>7. Kept'
    BY <1>3, <1>6 DEF Kept
<1>8. QED
    BY <1>5, <1>7 DEF ListInv

LEMMA ListInvNext == ListInv /\ [ListStep]_listVars => ListInv'
<1> SUFFICES ASSUME ListInv, [ListStep]_listVars PROVE ListInv'
    OBVIOUS
<1>1. CASE RefuseList
    BY <1>1 DEF RefuseList, ListInv, ListTypeOK, Kept
<1>2. CASE UNCHANGED listVars
    BY <1>2 DEF listVars, ListInv, ListTypeOK, Kept
<1>3. QED
    BY <1>1, <1>2, EditKeeps, SendKeeps DEF ListStep

(* What is left of the list is its beginning. *)
LEMMA LastIsLost == ListInv => ShrinksByOne
<1> SUFFICES ASSUME ListInv, ~edited
             PROVE  list = SubSeq(first, 1, IF sends < Len(first)
                                            THEN Len(first) - sends ELSE 0)
    BY DEF ShrinksByOne
<1> DEFINE k == IF sends < Len(first) THEN Len(first) - sends ELSE 0
<1>1. /\ list \in Seq(Item) /\ first \in Seq(Item) /\ Len(list) = k
      /\ \A i \in 1..k : list[i] = first[i]
      /\ k \in 0..Len(first) /\ Len(first) \in Nat
    BY DEF ListInv, ListTypeOK, Kept
<1> HIDE DEF k
<1>2. /\ SubSeq(first, 1, k) \in Seq(Item) /\ Len(SubSeq(first, 1, k)) = k
      /\ \A i \in 1..k : SubSeq(first, 1, k)[i] = first[i]
    BY ONLY <1>1
<1>3. list = SubSeq(first, 1, k)
    BY ONLY <1>1, <1>2, SeqEqual
<1>4. QED
    BY <1>3 DEF k

-----------------------------------------------------------------------------
(* Sequences that are used as stacks. *)

LEMMA Popped ==
    ASSUME NEW S, NEW q \in Seq(S), Len(q) # 0
    PROVE  LET r == SubSeq(q, 1, Len(q) - 1) IN
           /\ r \in Seq(S) /\ Len(r) = Len(q) - 1 /\ Len(q) \in Nat
           /\ \A k \in 1..(Len(q) - 1) : r[k] = q[k]
<1>1. PICK r : r = SubSeq(q, 1, Len(q) - 1)
    OBVIOUS
<1>2. Len(q) \in Nat /\ 1 \in Int /\ Len(q) - 1 \in Int
    OBVIOUS
<1>3. \A i \in 1..(Len(q) - 1) : q[i] \in S
    OBVIOUS
<1>4. /\ r \in Seq(S)
      /\ Len(r) = IF 1 <= Len(q) - 1 THEN Len(q) - 1 - 1 + 1 ELSE 0
      /\ \A i \in 1..(Len(q) - 1 - 1 + 1) : r[i] = q[1 + i - 1]
    BY <1>1, <1>2, <1>3, SubSeqProperties
<1>5. Len(r) = Len(q) - 1
  <2>1. PICK n, m : n = Len(q) /\ m = Len(r)
      OBVIOUS
  <2>2. n \in Nat /\ n # 0
      BY <1>2, <2>1
  <2>3. m = IF 1 <= n - 1 THEN n - 1 - 1 + 1 ELSE 0
      BY <1>4, <2>1
  <2>4. m = n - 1
      BY ONLY <2>2, <2>3
  <2>5. QED
      BY <2>1, <2>4
<1>6. \A k \in 1..(Len(q) - 1) : r[k] = q[k]
    BY <1>2, <1>4
<1>7. QED
    BY <1>1, <1>2, <1>4, <1>5, <1>6

LEMMA Pushed ==
    ASSUME NEW S, NEW q \in Seq(S), NEW x \in S
    PROVE  LET r == Append(q, x) IN
           /\ r \in Seq(S) /\ Len(r) = Len(q) + 1 /\ Len(q) \in Nat
           /\ \A k \in 1..Len(q) : r[k] = q[k]
           /\ r[Len(q) + 1] = x
  OBVIOUS

LEMMA Replaced ==
    ASSUME NEW S, NEW q \in Seq(S), Len(q) # 0, NEW x \in S
    PROVE  LET r == Append(SubSeq(q, 1, Len(q) - 1), x) IN
           /\ r \in Seq(S) /\ Len(r) = Len(q) /\ Len(q) \in Nat
           /\ \A k \in 1..(Len(q) - 1) : r[k] = q[k]
           /\ r[Len(q)] = x
<1>1. PICK b : b = SubSeq(q, 1, Len(q) - 1)
    OBVIOUS
<1>2. /\ b \in Seq(S) /\ Len(b) = Len(q) - 1 /\ Len(q) \in Nat
      /\ \A k \in 1..(Len(q) - 1) : b[k] = q[k]
    BY <1>1, Popped
<1>3. PICK r : r = Append(b, x)
    OBVIOUS
<1>4. /\ r \in Seq(S) /\ Len(r) = Len(b) + 1
      /\ \A k \in 1..Len(b) : r[k] = b[k]
      /\ r[Len(b) + 1] = x
    BY <1>2, <1>3, Pushed
<1>5. QED
    BY <1>1, <1>2, <1>3, <1>4

LEMMA TwoMore ==
    ASSUME NEW S, NEW q \in Seq(S), NEW x \in S, NEW y \in S
    PROVE  q \o <<x, y>> = Append(Append(q, x), y)
  OBVIOUS

-----------------------------------------------------------------------------
(* Values and their texts. *)

LEMMA ValueKinds ==
    ASSUME NEW v \in Value
    PROVE  /\ v[1] \in {"int", "float", "str", "tab", "true", "inf", "neginf", "fun"}
           /\ v = <<v[1], v[2]>>
           /\ v[1] = "str" => v[2] \in Seq(Byte)
           /\ v[1] = "tab" => v[2] \in Id
           /\ v[1] = "int" => v[2] \in Ints
           /\ v[1] = "float" => v[2] \in Floats
           /\ v[1] \in {"true", "inf", "neginf"} => v[2] = 0
  BY DEF Value, Number

LEMMA EscapedBytes == ASSUME NEW b \in Byte PROVE Escaped(b) \in Seq(Byte)
<1>1. "backslash" \in Byte /\ "zero" \in Byte /\ "r" \in Byte
    BY DEF Byte
<1>2. /\ <<b>> \in Seq(Byte) /\ <<"backslash", b>> \in Seq(Byte)
      /\ <<"backslash", "r">> \in Seq(Byte)
      /\ <<"backslash", "zero", "zero", "zero">> \in Seq(Byte)
    BY <1>1
<1>3. QED
    BY <1>2 DEF Escaped

Inside(s) == [i \in DOMAIN s |-> Escaped(s[i])]

LEMMA InsideBytes ==
    ASSUME NEW s \in Seq(Byte)
    PROVE  Inside(s) \in Seq(Seq(Byte)) /\ FlattenSeq(Inside(s)) \in Seq(Byte)
<1>1. PICK e, n : e = Inside(s) /\ n = Len(s)
    OBVIOUS
<1>2. n \in Nat /\ DOMAIN s = 1..n /\ \A i \in 1..n : s[i] \in Byte
    BY <1>1
<1>3. e \in [1..n -> Seq(Byte)]
    BY <1>1, <1>2, EscapedBytes DEF Inside
<1>4. n \in Nat
    BY <1>2
<1>5. e \in Seq(Seq(Byte))
    BY ONLY <1>3, <1>4
<1>6. FlattenSeq(e) \in Seq(Byte)
    BY <1>5, FlattenTyped
<1>7. QED
    BY <1>1, <1>5, <1>6

LEMMA QuotedBytes == ASSUME NEW s \in Seq(Byte) PROVE Quoted(s) \in Seq(Byte)
<1>1. PICK f : f = FlattenSeq(Inside(s))
    OBVIOUS
<1>2. f \in Seq(Byte) /\ <<"quote">> \in Seq(Byte)
    BY <1>1, InsideBytes DEF Byte
<1>3. (<<"quote">> \o f) \o <<"quote">> \in Seq(Byte)
    BY <1>2
<1>4. QED
    BY <1>1, <1>3 DEF Quoted, Inside

LEMMA WrittenWord ==
    ASSUME NEW v \in Value, v[1] \notin {"tab", "fun"} PROVE Written(v) \in Word
<1>1. CASE v[1] = "str"
  <2>1. Quoted(v[2]) \in Seq(Byte)
      BY <1>1, ValueKinds, QuotedBytes
  <2>2. QED
      BY <1>1, <2>1 DEF Written, Word
<1>2. CASE v[1] \in {"int", "float"}
  <2>1. v[2] \in Ints \cup Floats
      BY <1>2, ValueKinds
  <2>2. Written(v) = <<"num", v[2]>>
      BY <1>2 DEF Written
  <2>3. QED
      BY <2>1, <2>2 DEF Word
<1>3. CASE v[1] \in {"true", "inf", "neginf"}
  <2>1. Written(v) = v
      BY <1>3 DEF Written
  <2>2. v \in {<<"true", 0>>, <<"inf", 0>>, <<"neginf", 0>>}
      BY <1>3, ValueKinds
  <2>3. QED
      BY <2>1, <2>2 DEF Word
<1>4. QED
    BY <1>1, <1>2, <1>3, ValueKinds

(* The writer takes the pairs that have a text. *)
LEMMA PairText ==
    ASSUME NEW p \in Value \X Value
    PROVE  HasText(p) <=> GoodKey(p[1]) /\ GoodValue(p[2])
<1>1. p[1] \in Value /\ p[2] \in Value
    OBVIOUS
<1>2. \A x : IsText(x) <=> \A j \in DOMAIN x : x[j] # "invalid"
    BY DEF IsText, Range
<1>3. HasText(p) <=> /\ p[1][1] \in {"int", "float", "inf", "neginf", "str"}
                     /\ p[2][1] # "fun"
                     /\ p[1][1] = "str" => IsText(p[1][2])
                     /\ p[2][1] = "str" => IsText(p[2][2])
  <2>1. 1..2 = {1, 2}
      OBVIOUS
  <2>2. QED
      BY <1>2, <2>1 DEF HasText
<1>4. QED
    BY <1>1, <1>3, ValueKinds DEF GoodKey, GoodValue

-----------------------------------------------------------------------------
(* FoldLeft, for the two folds of the reader: the bytes of a literal and    *)
(* the tokens of a text.                                                    *)

LexBegin == [out |-> <<>>, mode |-> "start"]
Lex(s) == FoldLeft(LexByte, LexBegin, s)

(* The recursion of FoldLeft(LexByte): a function of the sets of indices that  *)
(* are behind.                                                              *)
LexFold(g, s, k) ==
    g = [t \in SUBSET (1..k) |->
            IF t = {} THEN LexBegin ELSE LexByte(g[t \ {Max(t)}], s[Max(t)])]

LEMMA LexStep ==
    ASSUME NEW s, NEW k \in Nat, NEW g, LexFold(g, s, k)
    PROVE  \E h : LexFold(h, s, k + 1)
<1>1. PICK h : h = [t \in SUBSET (1..(k + 1)) |->
                      IF k + 1 \in t THEN LexByte(g[t \ {k + 1}], s[k + 1]) ELSE g[t]]
    OBVIOUS
<1>2. ASSUME NEW t \in SUBSET (1..(k + 1))
      PROVE  h[t] = IF t = {} THEN LexBegin ELSE LexByte(h[t \ {Max(t)}], s[Max(t)])
  <2>1. CASE k + 1 \in t
    <3>1. Max(t) = k + 1
        BY <2>1, MaxIsLast
    <3>2. t \ {k + 1} \in SUBSET (1..k)
        OBVIOUS
    <3>3. t \ {k + 1} \in SUBSET (1..(k + 1)) /\ k + 1 \notin t \ {k + 1}
        OBVIOUS
    <3>4. h[t \ {k + 1}] = g[t \ {k + 1}]
        BY <1>1, <3>3
    <3>5. h[t] = LexByte(g[t \ {k + 1}], s[k + 1])
        BY <1>1, <2>1
    <3>6. QED
        BY <2>1, <3>1, <3>4, <3>5
  <2>2. CASE k + 1 \notin t
    <3>1. t \in SUBSET (1..k)
        BY <2>2
    <3>2. h[t] = g[t]
        BY <1>1, <2>2
    <3>3. g[t] = IF t = {} THEN LexBegin ELSE LexByte(g[t \ {Max(t)}], s[Max(t)])
        BY <3>1 DEF LexFold
    <3>4. t \ {Max(t)} \in SUBSET (1..(k + 1)) /\ k + 1 \notin t \ {Max(t)}
        BY <2>2
    <3>5. h[t \ {Max(t)}] = g[t \ {Max(t)}]
        BY <1>1, <3>4
    <3>6. QED
        BY <3>2, <3>3, <3>5
  <2>3. QED
      BY <2>1, <2>2
<1>3. h = [t \in SUBSET (1..(k + 1)) |-> h[t]]
    BY <1>1
<1>4. h = [t \in SUBSET (1..(k + 1)) |->
             IF t = {} THEN LexBegin ELSE LexByte(h[t \ {Max(t)}], s[Max(t)])]
    BY ONLY <1>2, <1>3, Zenon
<1>5. QED
    BY <1>4 DEF LexFold

LEMMA LexExists == ASSUME NEW s, NEW n \in Nat PROVE \E g : LexFold(g, s, n)
<1> DEFINE T == {k \in Nat : \E g : LexFold(g, s, k)}
<1>1. 0 \in T
  <2>1. PICK g : g = [t \in SUBSET (1..0) |-> LexBegin]
      OBVIOUS
  <2>2. SUBSET (1..0) = {{}}
      OBVIOUS
  <2>3. \A t \in SUBSET (1..0) : t = {}
      OBVIOUS
  <2>4. g = [t \in SUBSET (1..0) |->
               IF t = {} THEN LexBegin ELSE LexByte(g[t \ {Max(t)}], s[Max(t)])]
      BY ONLY <2>1, <2>3, Zenon
  <2>5. QED
      BY <2>4 DEF LexFold
<1>2. ASSUME NEW k \in T PROVE k + 1 \in T
  <2>1. PICK g : LexFold(g, s, k)
      OBVIOUS
  <2>2. k \in Nat /\ k + 1 \in Nat
      OBVIOUS
  <2>3. \E h : LexFold(h, s, k + 1)
      BY <2>1, <2>2, LexStep
  <2>4. QED
      BY <2>2, <2>3
<1>3. T \in SUBSET Nat
    OBVIOUS
<1> HIDE DEF T
<1>4. T = Nat
    BY <1>1, <1>2, <1>3, Induct
<1>5. QED
    BY <1>4 DEF T

(* What is in front does not depend on what is behind. *)
LEMMA LexAgree ==
    ASSUME NEW s, NEW t, NEW f, NEW g, NEW n \in Nat, NEW m \in Nat, n <= m,
           LexFold(f, s, n), LexFold(g, t, m), \A i \in 1..n : s[i] = t[i]
    PROVE  \A k \in 0..n : f[1..k] = g[1..k]
<1> DEFINE T == {k \in Nat : k \in 0..n => f[1..k] = g[1..k]}
<1>1. 0 \in T
  <2>1. PICK e : e = 1..0
      OBVIOUS
  <2>2. e = {} /\ e \in SUBSET (1..n) /\ e \in SUBSET (1..m)
      BY <2>1
  <2>3. f[e] = LexBegin /\ g[e] = LexBegin
      BY <2>2 DEF LexFold
  <2>4. QED
      BY <2>1, <2>3
<1>2. ASSUME NEW k \in T PROVE k + 1 \in T
  <2>1. k \in Nat /\ (k \in 0..n => f[1..k] = g[1..k])
      OBVIOUS
  <2>2. ASSUME k + 1 \in 0..n PROVE f[1..(k + 1)] = g[1..(k + 1)]
    <3>1. k \in 0..n /\ k + 1 \in 1..n /\ k + 1 <= n /\ k + 1 <= m
        BY <2>1, <2>2
    <3>2. PICK d, e : d = 1..k /\ e = 1..(k + 1)
        OBVIOUS
    <3>3. /\ e # {} /\ e \in SUBSET (1..n) /\ e \in SUBSET (1..m)
          /\ e \ {k + 1} = d
        BY <2>1, <3>1, <3>2, Segment
    <3>4. Max(e) = k + 1
        BY <2>1, <3>2, MaxIsLast
    <3>5. f[e] = LexByte(f[d], s[k + 1]) /\ g[e] = LexByte(g[d], t[k + 1])
        BY <3>3, <3>4 DEF LexFold
    <3>6. QED
        BY <2>1, <3>1, <3>2, <3>5
  <2>3. QED
      BY <2>1, <2>2
<1>3. T \in SUBSET Nat
    OBVIOUS
<1> HIDE DEF T
<1>4. T = Nat
    BY <1>1, <1>2, <1>3, Induct
<1>5. QED
    BY <1>4 DEF T

LEMMA LexIs ==
    ASSUME NEW S, NEW s \in Seq(S)
    PROVE  \E g : LexFold(g, s, Len(s)) /\ Lex(s) = g[1..Len(s)]
<1>1. DOMAIN s = 1..Len(s) /\ Len(s) \in Nat
    OBVIOUS
<1>2. PICK g : g = CHOOSE f : LexFold(f, s, Len(s))
    OBVIOUS
<1>3. LexFold(g, s, Len(s))
    BY <1>1, <1>2, LexExists
<1>4. Lex(s) = g[1..Len(s)]
    BY <1>1, <1>2 DEF Lex, FoldLeft, MapThenFoldSet, LexFold
<1>5. QED
    BY <1>3, <1>4

LEMMA LexNothing == Lex(<<>>) = LexBegin
<1>1. PICK s : s = <<>>
    OBVIOUS
<1>2. s \in Seq({}) /\ Len(s) = 0
    BY <1>1
<1>3. PICK g : LexFold(g, s, Len(s)) /\ Lex(s) = g[1..Len(s)]
    BY <1>2, LexIs
<1>4. 1..Len(s) = {} /\ {} \in SUBSET (1..Len(s))
    BY <1>2
<1>5. g[{}] = LexBegin
    BY <1>3, <1>4 DEF LexFold
<1>6. QED
    BY <1>1, <1>3, <1>4, <1>5

LEMMA LexAppend ==
    ASSUME NEW S, NEW s \in Seq(S), NEW x \in S
    PROVE  Lex(Append(s, x)) = LexByte(Lex(s), x)
<1>1. PICK n, t : n = Len(s) /\ t = Append(s, x)
    OBVIOUS
<1>2. /\ t \in Seq(S) /\ n \in Nat /\ Len(t) = n + 1 /\ t[n + 1] = x
      /\ \A i \in 1..n : s[i] = t[i]
    BY <1>1
<1>3. PICK f : LexFold(f, s, n) /\ Lex(s) = f[1..n]
    BY <1>1, LexIs
<1>4. PICK g : LexFold(g, t, n + 1) /\ Lex(t) = g[1..(n + 1)]
    BY <1>2, LexIs
<1>5. f[1..n] = g[1..n]
  <2>1. n + 1 \in Nat /\ n <= n + 1 /\ n \in 0..n
      BY <1>2
  <2>2. QED
      BY <1>2, <1>3, <1>4, <2>1, LexAgree
<1>6. PICK d, e : d = 1..n /\ e = 1..(n + 1)
    OBVIOUS
<1>7. e # {} /\ e \in SUBSET (1..(n + 1)) /\ e \ {n + 1} = d
    BY <1>2, <1>6, Segment
<1>8. Max(e) = n + 1
    BY <1>2, <1>6, MaxIsLast
<1>9. g[e] = LexByte(g[d], t[n + 1])
    BY <1>4, <1>7, <1>8 DEF LexFold
<1>10. QED
    BY <1>1, <1>2, <1>3, <1>4, <1>5, <1>6, <1>9

Frames(s) == FoldLeft(LoadToken, <<Whole>>, s)

(* The recursion of FoldLeft(LoadToken): a function of the sets of indices that  *)
(* are behind.                                                              *)
LoadFold(g, s, k) ==
    g = [t \in SUBSET (1..k) |->
            IF t = {} THEN <<Whole>> ELSE LoadToken(g[t \ {Max(t)}], s[Max(t)])]

LEMMA LoadStep ==
    ASSUME NEW s, NEW k \in Nat, NEW g, LoadFold(g, s, k)
    PROVE  \E h : LoadFold(h, s, k + 1)
<1>1. PICK h : h = [t \in SUBSET (1..(k + 1)) |->
                      IF k + 1 \in t THEN LoadToken(g[t \ {k + 1}], s[k + 1]) ELSE g[t]]
    OBVIOUS
<1>2. ASSUME NEW t \in SUBSET (1..(k + 1))
      PROVE  h[t] = IF t = {} THEN <<Whole>> ELSE LoadToken(h[t \ {Max(t)}], s[Max(t)])
  <2>1. CASE k + 1 \in t
    <3>1. Max(t) = k + 1
        BY <2>1, MaxIsLast
    <3>2. t \ {k + 1} \in SUBSET (1..k)
        OBVIOUS
    <3>3. t \ {k + 1} \in SUBSET (1..(k + 1)) /\ k + 1 \notin t \ {k + 1}
        OBVIOUS
    <3>4. h[t \ {k + 1}] = g[t \ {k + 1}]
        BY <1>1, <3>3
    <3>5. h[t] = LoadToken(g[t \ {k + 1}], s[k + 1])
        BY <1>1, <2>1
    <3>6. QED
        BY <2>1, <3>1, <3>4, <3>5
  <2>2. CASE k + 1 \notin t
    <3>1. t \in SUBSET (1..k)
        BY <2>2
    <3>2. h[t] = g[t]
        BY <1>1, <2>2
    <3>3. g[t] = IF t = {} THEN <<Whole>> ELSE LoadToken(g[t \ {Max(t)}], s[Max(t)])
        BY <3>1 DEF LoadFold
    <3>4. t \ {Max(t)} \in SUBSET (1..(k + 1)) /\ k + 1 \notin t \ {Max(t)}
        BY <2>2
    <3>5. h[t \ {Max(t)}] = g[t \ {Max(t)}]
        BY <1>1, <3>4
    <3>6. QED
        BY <3>2, <3>3, <3>5
  <2>3. QED
      BY <2>1, <2>2
<1>3. h = [t \in SUBSET (1..(k + 1)) |-> h[t]]
    BY <1>1
<1>4. h = [t \in SUBSET (1..(k + 1)) |->
             IF t = {} THEN <<Whole>> ELSE LoadToken(h[t \ {Max(t)}], s[Max(t)])]
    BY ONLY <1>2, <1>3, Zenon
<1>5. QED
    BY <1>4 DEF LoadFold

LEMMA LoadExists == ASSUME NEW s, NEW n \in Nat PROVE \E g : LoadFold(g, s, n)
<1> DEFINE T == {k \in Nat : \E g : LoadFold(g, s, k)}
<1>1. 0 \in T
  <2>1. PICK g : g = [t \in SUBSET (1..0) |-> <<Whole>>]
      OBVIOUS
  <2>2. SUBSET (1..0) = {{}}
      OBVIOUS
  <2>3. \A t \in SUBSET (1..0) : t = {}
      OBVIOUS
  <2>4. g = [t \in SUBSET (1..0) |->
               IF t = {} THEN <<Whole>> ELSE LoadToken(g[t \ {Max(t)}], s[Max(t)])]
      BY ONLY <2>1, <2>3, Zenon
  <2>5. QED
      BY <2>4 DEF LoadFold
<1>2. ASSUME NEW k \in T PROVE k + 1 \in T
  <2>1. PICK g : LoadFold(g, s, k)
      OBVIOUS
  <2>2. k \in Nat /\ k + 1 \in Nat
      OBVIOUS
  <2>3. \E h : LoadFold(h, s, k + 1)
      BY <2>1, <2>2, LoadStep
  <2>4. QED
      BY <2>2, <2>3
<1>3. T \in SUBSET Nat
    OBVIOUS
<1> HIDE DEF T
<1>4. T = Nat
    BY <1>1, <1>2, <1>3, Induct
<1>5. QED
    BY <1>4 DEF T

(* What is in front does not depend on what is behind. *)
LEMMA LoadAgree ==
    ASSUME NEW s, NEW t, NEW f, NEW g, NEW n \in Nat, NEW m \in Nat, n <= m,
           LoadFold(f, s, n), LoadFold(g, t, m), \A i \in 1..n : s[i] = t[i]
    PROVE  \A k \in 0..n : f[1..k] = g[1..k]
<1> DEFINE T == {k \in Nat : k \in 0..n => f[1..k] = g[1..k]}
<1>1. 0 \in T
  <2>1. PICK e : e = 1..0
      OBVIOUS
  <2>2. e = {} /\ e \in SUBSET (1..n) /\ e \in SUBSET (1..m)
      BY <2>1
  <2>3. f[e] = <<Whole>> /\ g[e] = <<Whole>>
      BY <2>2 DEF LoadFold
  <2>4. QED
      BY <2>1, <2>3
<1>2. ASSUME NEW k \in T PROVE k + 1 \in T
  <2>1. k \in Nat /\ (k \in 0..n => f[1..k] = g[1..k])
      OBVIOUS
  <2>2. ASSUME k + 1 \in 0..n PROVE f[1..(k + 1)] = g[1..(k + 1)]
    <3>1. k \in 0..n /\ k + 1 \in 1..n /\ k + 1 <= n /\ k + 1 <= m
        BY <2>1, <2>2
    <3>2. PICK d, e : d = 1..k /\ e = 1..(k + 1)
        OBVIOUS
    <3>3. /\ e # {} /\ e \in SUBSET (1..n) /\ e \in SUBSET (1..m)
          /\ e \ {k + 1} = d
        BY <2>1, <3>1, <3>2, Segment
    <3>4. Max(e) = k + 1
        BY <2>1, <3>2, MaxIsLast
    <3>5. f[e] = LoadToken(f[d], s[k + 1]) /\ g[e] = LoadToken(g[d], t[k + 1])
        BY <3>3, <3>4 DEF LoadFold
    <3>6. QED
        BY <2>1, <3>1, <3>2, <3>5
  <2>3. QED
      BY <2>1, <2>2
<1>3. T \in SUBSET Nat
    OBVIOUS
<1> HIDE DEF T
<1>4. T = Nat
    BY <1>1, <1>2, <1>3, Induct
<1>5. QED
    BY <1>4 DEF T

LEMMA LoadIs ==
    ASSUME NEW S, NEW s \in Seq(S)
    PROVE  \E g : LoadFold(g, s, Len(s)) /\ Frames(s) = g[1..Len(s)]
<1>1. DOMAIN s = 1..Len(s) /\ Len(s) \in Nat
    OBVIOUS
<1>2. PICK g : g = CHOOSE f : LoadFold(f, s, Len(s))
    OBVIOUS
<1>3. LoadFold(g, s, Len(s))
    BY <1>1, <1>2, LoadExists
<1>4. Frames(s) = g[1..Len(s)]
    BY <1>1, <1>2 DEF Frames, FoldLeft, MapThenFoldSet, LoadFold
<1>5. QED
    BY <1>3, <1>4

LEMMA LoadNothing == Frames(<<>>) = <<Whole>>
<1>1. PICK s : s = <<>>
    OBVIOUS
<1>2. s \in Seq({}) /\ Len(s) = 0
    BY <1>1
<1>3. PICK g : LoadFold(g, s, Len(s)) /\ Frames(s) = g[1..Len(s)]
    BY <1>2, LoadIs
<1>4. 1..Len(s) = {} /\ {} \in SUBSET (1..Len(s))
    BY <1>2
<1>5. g[{}] = <<Whole>>
    BY <1>3, <1>4 DEF LoadFold
<1>6. QED
    BY <1>1, <1>3, <1>4, <1>5

LEMMA LoadAppend ==
    ASSUME NEW S, NEW s \in Seq(S), NEW x \in S
    PROVE  Frames(Append(s, x)) = LoadToken(Frames(s), x)
<1>1. PICK n, t : n = Len(s) /\ t = Append(s, x)
    OBVIOUS
<1>2. /\ t \in Seq(S) /\ n \in Nat /\ Len(t) = n + 1 /\ t[n + 1] = x
      /\ \A i \in 1..n : s[i] = t[i]
    BY <1>1
<1>3. PICK f : LoadFold(f, s, n) /\ Frames(s) = f[1..n]
    BY <1>1, LoadIs
<1>4. PICK g : LoadFold(g, t, n + 1) /\ Frames(t) = g[1..(n + 1)]
    BY <1>2, LoadIs
<1>5. f[1..n] = g[1..n]
  <2>1. n + 1 \in Nat /\ n <= n + 1 /\ n \in 0..n
      BY <1>2
  <2>2. QED
      BY <1>2, <1>3, <1>4, <2>1, LoadAgree
<1>6. PICK d, e : d = 1..n /\ e = 1..(n + 1)
    OBVIOUS
<1>7. e # {} /\ e \in SUBSET (1..(n + 1)) /\ e \ {n + 1} = d
    BY <1>2, <1>6, Segment
<1>8. Max(e) = n + 1
    BY <1>2, <1>6, MaxIsLast
<1>9. g[e] = LoadToken(g[d], t[n + 1])
    BY <1>4, <1>7, <1>8 DEF LoadFold
<1>10. QED
    BY <1>1, <1>2, <1>3, <1>4, <1>5, <1>6, <1>9

-----------------------------------------------------------------------------
(* A string is read as it was written. *)

Reading(out) == [out |-> out, mode |-> "in"]

(* The reader takes what stands for a byte as that byte, and is then where  *)
(* it was: inside the string.                                               *)
LEMMA LexEscaped ==
    ASSUME NEW q \in Seq(Byte), NEW o \in Seq(Byte), NEW b \in Byte, Lex(q) = Reading(o)
    PROVE  Lex(q \o Escaped(b)) = Reading(Append(o, b))
<1>0. /\ "backslash" \in Byte /\ "zero" \in Byte /\ "r" \in Byte
      /\ Reading(o).mode = "in" /\ Reading(o).out = o
    BY DEF Byte, Reading
<1>1. PICK q1, l1 : q1 = Append(q, "backslash") /\ l1 = [out |-> o, mode |-> "escape"]
    OBVIOUS
<1>2. q1 \in Seq(Byte) /\ l1.mode = "escape" /\ l1.out = o
    BY <1>0, <1>1
<1>3. Lex(q1) = l1
  <2>1. Lex(q1) = LexByte(Reading(o), "backslash")
      BY <1>0, <1>1, LexAppend
  <2>2. QED
      BY <1>0, <1>1, <2>1 DEF LexByte, InLiteral
<1>4. ASSUME NEW c \in Byte PROVE Lex(Append(q1, c)) = LexByte(l1, c)
    BY <1>2, <1>3, LexAppend
<1>5. CASE b \in {"quote", "backslash", "newline"}
  <2>1. q \o Escaped(b) = Append(q1, b)
    <3>1. Escaped(b) = <<"backslash", b>>
        BY <1>5 DEF Escaped
    <3>2. q \o <<"backslash", b>> = Append(Append(q, "backslash"), b)
        BY <1>0, TwoMore
    <3>3. QED
        BY <1>1, <3>1, <3>2
  <2>2. LexByte(l1, b) = Reading(Append(o, b))
      BY <1>2, <1>5 DEF LexByte, Reading
  <2>3. QED
      BY <1>4, <2>1, <2>2
<1>6. CASE b = "return"
  <2>1. q \o Escaped(b) = Append(q1, "r")
    <3>1. Escaped(b) = <<"backslash", "r">>
        BY <1>6 DEF Escaped
    <3>2. q \o <<"backslash", "r">> = Append(Append(q, "backslash"), "r")
        BY <1>0, TwoMore
    <3>3. QED
        BY <1>1, <3>1, <3>2
  <2>2. LexByte(l1, "r") = Reading(Append(o, b))
      BY <1>2, <1>6 DEF LexByte, Reading
  <2>3. QED
      BY <1>0, <1>4, <2>1, <2>2
<1>7. CASE b = "nul"
  <2>1. PICK q2, q3, q4 : /\ q2 = Append(q1, "zero") /\ q3 = Append(q2, "zero")
                          /\ q4 = Append(q3, "zero")
      OBVIOUS
  <2>2. PICK l2, l3 : /\ l2 = [out |-> o, mode |-> "digit1"]
                      /\ l3 = [out |-> o, mode |-> "digit2"]
      OBVIOUS
  <2>3. /\ q2 \in Seq(Byte) /\ q3 \in Seq(Byte)
        /\ l2.mode = "digit1" /\ l2.out = o /\ l3.mode = "digit2" /\ l3.out = o
      BY <1>0, <1>2, <2>1, <2>2
  <2>4. Lex(q2) = l2
    <3>1. LexByte(l1, "zero") = l2
        BY <1>1, <1>2, <2>2 DEF LexByte
    <3>2. QED
        BY <1>0, <1>4, <2>1, <3>1
  <2>5. Lex(q3) = l3
    <3>1. LexByte(l2, "zero") = l3
        BY <2>2, <2>3 DEF LexByte
    <3>2. Lex(q3) = LexByte(l2, "zero")
        BY <1>0, <2>1, <2>3, <2>4, LexAppend
    <3>3. QED
        BY <3>1, <3>2
  <2>6. Lex(q4) = Reading(Append(o, b))
    <3>1. LexByte(l3, "zero") = Reading(Append(o, b))
        BY <1>7, <2>3 DEF LexByte, Reading
    <3>2. Lex(q4) = LexByte(l3, "zero")
        BY <1>0, <2>1, <2>3, <2>5, LexAppend
    <3>3. QED
        BY <3>1, <3>2
  <2>7. q \o Escaped(b) = q4
    <3>1. Escaped(b) = <<"backslash", "zero", "zero", "zero">>
        BY <1>7 DEF Escaped
    <3>2. q \o <<"backslash", "zero", "zero", "zero">>
            = Append(Append(Append(Append(q, "backslash"), "zero"), "zero"), "zero")
        BY <1>0
    <3>3. QED
        BY <1>1, <2>1, <3>1, <3>2
  <2>8. QED
      BY <2>6, <2>7
<1>8. CASE b \notin {"quote", "backslash", "newline", "return", "nul"}
  <2>1. q \o Escaped(b) = Append(q, b)
    <3>1. Escaped(b) = <<b>>
        BY <1>8 DEF Escaped
    <3>2. q \o <<b>> = Append(q, b)
        OBVIOUS
    <3>3. QED
        BY <3>1, <3>2
  <2>2. Lex(Append(q, b)) = LexByte(Reading(o), b)
      BY LexAppend
  <2>3. LexByte(Reading(o), b) = Reading(Append(o, b))
      BY <1>0, <1>8 DEF LexByte, InLiteral, Reading
  <2>4. QED
      BY <2>1, <2>2, <2>3
<1>9. QED
    BY <1>5, <1>6, <1>7, <1>8

LEMMA InsideAppend ==
    ASSUME NEW s \in Seq(Byte), NEW b \in Byte
    PROVE  FlattenSeq(Inside(Append(s, b))) = FlattenSeq(Inside(s)) \o Escaped(b)
<1>1. PICK e, x : e = Inside(s) /\ x = Escaped(b)
    OBVIOUS
<1>2. e \in Seq(Seq(Byte)) /\ x \in Seq(Byte)
    BY <1>1, InsideBytes, EscapedBytes
<1>3. Inside(Append(s, b)) = Append(e, x)
  <2>1. PICK t, f, n : t = Append(s, b) /\ f = Inside(t) /\ n = Len(s)
      OBVIOUS
  <2>2. /\ t \in Seq(Byte) /\ Len(t) = n + 1 /\ t[n + 1] = b /\ n \in Nat
        /\ \A i \in 1..n : t[i] = s[i]
        /\ DOMAIN t = 1..(n + 1) /\ DOMAIN s = 1..n
      BY <2>1
  <2>3. f \in Seq(Seq(Byte))
      BY <2>1, <2>2, InsideBytes
  <2>4. DOMAIN f = 1..(n + 1) /\ DOMAIN e = 1..n
      BY <1>1, <2>1, <2>2 DEF Inside
  <2>5. Len(f) = n + 1 /\ Len(e) = n
      BY ONLY <1>2, <2>2, <2>3, <2>4
  <2>6. /\ \A i \in 1..n : f[i] = Escaped(t[i]) /\ e[i] = Escaped(s[i])
        /\ f[n + 1] = Escaped(t[n + 1])
    <3>1. n + 1 \in 1..(n + 1) /\ \A i \in 1..n : i \in 1..(n + 1)
        BY <2>2
    <3>2. QED
        BY <1>1, <2>1, <2>2, <3>1 DEF Inside
  <2>7. PICK g : g = Append(e, x)
      OBVIOUS
  <2>8. /\ g \in Seq(Seq(Byte)) /\ Len(g) = n + 1 /\ g[n + 1] = x
        /\ \A i \in 1..n : g[i] = e[i]
      BY ONLY <1>2, <2>5, <2>7
  <2>9. \A i \in 1..Len(f) : f[i] = g[i]
    <3>1. \A i \in 1..(n + 1) : i \in 1..n \/ i = n + 1
        BY <2>2
    <3>2. f[n + 1] = x
        BY <1>1, <2>2, <2>6
    <3>3. QED
        BY <2>2, <2>5, <2>6, <2>8, <3>1, <3>2
  <2>10. f = g
      BY ONLY <2>3, <2>5, <2>8, <2>9, SeqEqual
  <2>11. QED
      BY <2>1, <2>7, <2>10
<1>4. FlattenSeq(Append(e, x)) = FlattenSeq(e) \o x
    BY <1>2, FlattenAppend
<1>5. QED
    BY <1>1, <1>3, <1>4

LEMMA LexInside ==
    \A s \in Seq(Byte) : Lex(<<"quote">> \o FlattenSeq(Inside(s))) = Reading(s)
<1> DEFINE T == {n \in Nat : \A s \in Seq(Byte) : Len(s) = n =>
                    Lex(<<"quote">> \o FlattenSeq(Inside(s))) = Reading(s)}
<1>0. "quote" \in Byte
    BY DEF Byte
<1>1. 0 \in T
  <2> SUFFICES ASSUME NEW s \in Seq(Byte), Len(s) = 0
               PROVE  Lex(<<"quote">> \o FlattenSeq(Inside(s))) = Reading(s)
      OBVIOUS
  <2>1. s = <<>>
      OBVIOUS
  <2>2. PICK e : e = Inside(s)
      OBVIOUS
  <2>3. e \in Seq(Seq(Byte)) /\ DOMAIN e = 1..0
    <3>1. DOMAIN s = 1..0
        OBVIOUS
    <3>2. QED
        BY <2>2, <3>1, InsideBytes DEF Inside
  <2>4. e = <<>>
      BY ONLY <2>3
  <2>5. FlattenSeq(e) = <<>>
      BY <2>4, FlattenEmpty
  <2>6. <<"quote">> \o <<>> = Append(<<>>, "quote") /\ <<>> \in Seq(Byte)
      BY <1>0
  <2>7. Lex(Append(<<>>, "quote")) = LexByte(LexBegin, "quote")
      BY <1>0, <2>6, LexAppend, LexNothing
  <2>8. LexByte(LexBegin, "quote") = Reading(<<>>)
      BY DEF LexByte, LexBegin, Reading
  <2>9. QED
      BY <2>1, <2>2, <2>5, <2>6, <2>7, <2>8
<1>2. ASSUME NEW n \in T PROVE n + 1 \in T
  <2>0. n \in Nat /\ \A s \in Seq(Byte) : Len(s) = n =>
                    Lex(<<"quote">> \o FlattenSeq(Inside(s))) = Reading(s)
      OBVIOUS
  <2> HIDE DEF T
  <2>1. ASSUME NEW s \in Seq(Byte), Len(s) = n + 1
        PROVE  Lex(<<"quote">> \o FlattenSeq(Inside(s))) = Reading(s)
    <3>1. PICK t, b : t = SubSeq(s, 1, n) /\ b = s[n + 1]
        OBVIOUS
    <3>2. t \in Seq(Byte) /\ Len(t) = n /\ b \in Byte /\ s = Append(t, b)
      <4>1. n + 1 \in 1..Len(s) /\ n \in Nat /\ Len(s) - 1 = n
          BY <2>0, <2>1
      <4>2. /\ t \in Seq(Byte) /\ Len(t) = n
            /\ \A i \in 1..n : t[i] = s[i]
          BY ONLY <3>1, <4>1, <2>1
      <4>3. b \in Byte
          BY <2>1, <3>1, <4>1
      <4>4. PICK u : u = Append(t, b)
          OBVIOUS
      <4>5. /\ u \in Seq(Byte) /\ Len(u) = n + 1 /\ u[n + 1] = b
            /\ \A i \in 1..n : u[i] = t[i]
          BY ONLY <4>2, <4>3, <4>4
      <4>6. \A i \in 1..Len(s) : s[i] = u[i]
        <5>1. \A i \in 1..Len(s) : i \in 1..n \/ i = n + 1
            BY <2>1, <4>1
        <5>2. QED
            BY <3>1, <4>2, <4>5, <5>1
      <4>7. s = u
          BY ONLY <2>1, <4>5, <4>6, SeqEqual
      <4>8. QED
          BY <4>2, <4>3, <4>4, <4>7
    <3>3. PICK f, q : f = FlattenSeq(Inside(t)) /\ q = <<"quote">> \o f
        OBVIOUS
    <3>4. f \in Seq(Byte) /\ q \in Seq(Byte) /\ Escaped(b) \in Seq(Byte)
      <4>1. f \in Seq(Byte) /\ Escaped(b) \in Seq(Byte)
          BY <3>2, <3>3, InsideBytes, EscapedBytes
      <4>2. QED
          BY <1>0, <3>3, <4>1
    <3>5. Lex(q) = Reading(t)
        BY <2>0, <3>2, <3>3
    <3>6. Lex(q \o Escaped(b)) = Reading(Append(t, b))
        BY <3>2, <3>4, <3>5, LexEscaped
    <3>7. <<"quote">> \o (f \o Escaped(b)) = q \o Escaped(b)
      <4>1. PICK x : x = Escaped(b)
          OBVIOUS
      <4>2. x \in Seq(Byte) /\ <<"quote">> \in Seq(Byte)
          BY <1>0, <3>4, <4>1
      <4>3. <<"quote">> \o (f \o x) = (<<"quote">> \o f) \o x
          BY ONLY <3>4, <4>2
      <4>4. QED
          BY <3>3, <4>1, <4>3
    <3>8. FlattenSeq(Inside(s)) = f \o Escaped(b)
        BY <3>2, <3>3, InsideAppend
    <3>9. QED
        BY <3>2, <3>6, <3>7, <3>8
  <2>2. n + 1 \in Nat
      BY <2>0
  <2>3. QED
      BY <2>1, <2>2 DEF T
<1>3. T \in SUBSET Nat
    OBVIOUS
<1> HIDE DEF T
<1>4. T = Nat
    BY <1>1, <1>2, <1>3, Induct
<1>5. QED
  <2>1. ASSUME NEW s \in Seq(Byte)
        PROVE  Lex(<<"quote">> \o FlattenSeq(Inside(s))) = Reading(s)
    <3>1. Len(s) \in T
        BY <1>4
    <3>2. QED
        BY <3>1 DEF T
  <2>2. QED
      BY <2>1

(* No byte of a string ends it early or comes out changed. *)
LEMMA LiteralIs == ASSUME NEW s \in Seq(Byte) PROVE Literal(Quoted(s)) = <<"str", s>>
<1>1. PICK f, q : f = FlattenSeq(Inside(s)) /\ q = <<"quote">> \o f
    OBVIOUS
<1>2. "quote" \in Byte
    BY DEF Byte
<1>3. f \in Seq(Byte) /\ q \in Seq(Byte)
  <2>1. f \in Seq(Byte)
      BY <1>1, InsideBytes
  <2>2. QED
      BY <1>1, <1>2, <2>1
<1>4. Lex(q) = Reading(s)
    BY <1>1, LexInside
<1>5. Quoted(s) = Append(q, "quote")
  <2>1. Quoted(s) = (<<"quote">> \o f) \o <<"quote">>
      BY <1>1 DEF Quoted, Inside
  <2>2. q \o <<"quote">> = Append(q, "quote")
      BY <1>3
  <2>3. QED
      BY <1>1, <2>1, <2>2
<1>6. Lex(Quoted(s)) = LexByte(Reading(s), "quote")
    BY <1>2, <1>3, <1>4, <1>5, LexAppend
<1>7. LexByte(Reading(s), "quote") = [out |-> s, mode |-> "end"]
    BY DEF LexByte, InLiteral, Reading
<1>8. Literal(Quoted(s)) = IF Lex(Quoted(s)).mode = "end" THEN <<"str", Lex(Quoted(s)).out>>
                           ELSE Bad
    BY DEF Literal, Lex, LexBegin
<1>9. QED
    BY <1>6, <1>7, <1>8

(* What a value that is not a table is read as. *)
Got(v) == IF v[1] \in {"int", "float"} THEN Numeral(v[2]) ELSE v

LEMMA AtomWritten == ASSUME NEW v \in Value PROVE Atom(Written(v)) = Got(v)
<1>1. CASE v[1] = "str"
  <2>1. v[2] \in Seq(Byte) /\ v = <<"str", v[2]>>
      BY <1>1, ValueKinds
  <2>2. Atom(Written(v)) = Literal(Quoted(v[2]))
      BY <1>1 DEF Atom, Written
  <2>3. Got(v) = v
      BY <1>1 DEF Got
  <2>4. QED
      BY <2>1, <2>2, <2>3, LiteralIs
<1>2. CASE v[1] \in {"int", "float"}
    BY <1>2 DEF Atom, Written, Got
<1>3. CASE v[1] \in {"tab", "true", "inf", "neginf", "fun"}
    BY <1>3 DEF Atom, Written, Got
<1>4. QED
    BY <1>1, <1>2, <1>3, ValueKinds

(* A key comes back as it was, whichever type its number is read as. *)
LEMMA KeyWritten ==
    ASSUME NEW v \in Value, AsKey(v) = v PROVE AsKey(Atom(Written(v))) = v
<1>1. Atom(Written(v)) = Got(v)
    BY AtomWritten
<1>2. CASE v[1] = "int"
  <2>1. PICK x : x = v[2]
      OBVIOUS
  <2>2. x \in Ints /\ v = <<"int", x>> /\ Got(v) = Numeral(x)
      BY <1>2, <2>1, ValueKinds DEF Got
  <2>3. CASE x = LeastInt
      BY <1>1, <2>2, <2>3 DEF Numeral, AsKey
  <2>4. CASE x # LeastInt
      BY <1>1, <2>2, <2>4 DEF Numeral, AsKey
  <2>5. QED
      BY <2>3, <2>4
<1>3. CASE v[1] = "float"
  <2>1. PICK x : x = v[2]
      OBVIOUS
  <2>2. v = <<"float", x>> /\ Got(v) = Numeral(x)
      BY <1>3, <2>1, ValueKinds DEF Got
  <2>3. x \notin Ints
      BY <2>2 DEF AsKey
  <2>4. QED
      BY <1>1, <2>2, <2>3 DEF Numeral
<1>4. CASE v[1] \notin {"int", "float"}
    BY <1>1, <1>4 DEF Got
<1>5. QED
    BY <1>2, <1>3, <1>4

-----------------------------------------------------------------------------
(* What the loader does with the tokens of a pair and of a table. *)

Frame(k, ps) == [key |-> k, pairs |-> ps]

LEMMA FrameIs ==
    ASSUME NEW k, NEW ps
    PROVE  /\ Frame(k, ps).key = k /\ Frame(k, ps).pairs = ps
           /\ \A x : [Frame(k, ps) EXCEPT !.key = x] = Frame(x, ps)
           /\ \A x : [Frame(k, ps) EXCEPT !.pairs = x] = Frame(k, x)
  BY DEF Frame

Having(k, ps, v) == IF v[1] = "inf" THEN ps ELSE ps \cup {<<k, v>>}

LEMMA SettledIs ==
    ASSUME NEW o, NEW k, NEW ps, NEW v, v[1] \notin {"neginf", "bad"}
    PROVE  Settled(o, Frame(k, ps), v) = Append(o, Frame(k, Having(k, ps, v)))
<1>1. PICK f : f = Frame(k, ps)
    OBVIOUS
<1>2. f.key = k /\ f.pairs = ps
    BY <1>1, FrameIs
<1>3. CASE v[1] = "inf"
  <2>1. [f EXCEPT !.pairs = @] = Frame(k, ps)
      BY <1>1 DEF Frame
  <2>2. Settled(o, f, v) = Append(o, [f EXCEPT !.pairs = @])
      BY <1>3 DEF Settled
  <2>3. QED
      BY <1>1, <1>3, <2>1, <2>2 DEF Having
<1>4. CASE v[1] # "inf"
  <2>1. [f EXCEPT !.pairs = @ \cup {<<f.key, v>>}] = Frame(k, ps \cup {<<k, v>>})
      BY <1>1 DEF Frame
  <2>2. Settled(o, f, v) = Append(o, [f EXCEPT !.pairs = @ \cup {<<f.key, v>>}])
      BY <1>4 DEF Settled
  <2>3. QED
      BY <1>1, <1>4, <2>1, <2>2 DEF Having
<1>5. QED
    BY <1>3, <1>4

(* Once the text has failed, nothing more is read. *)
LEMMA ReadNothing == ASSUME NEW x PROVE LoadToken(<<>>, x) = <<>>
  BY DEF LoadToken

LEMMA ReadKey ==
    ASSUME NEW S, NEW fs \in Seq(S), NEW k, NEW ps, NEW v \in Value, AsKey(v) = v,
           v[1] \in {"int", "float", "str"}, Len(fs) # 0, fs[Len(fs)] = Frame(k, ps)
    PROVE  LoadToken(fs, <<"key", Written(v)>>)
              = Append(SubSeq(fs, 1, Len(fs) - 1), Frame(v, ps))
<1>1. PICK f, o, x : f = fs[Len(fs)] /\ o = SubSeq(fs, 1, Len(fs) - 1) /\ x = Written(v)
    OBVIOUS
<1>2. fs # <<>>
    OBVIOUS
<1>3. LoadToken(fs, <<"key", x>>) = Keyed(o, f, AsKey(Atom(x)))
    BY <1>1, <1>2 DEF LoadToken
<1>4. AsKey(Atom(x)) = v
    BY <1>1, KeyWritten
<1>5. Keyed(o, f, v) = Append(o, Frame(v, ps))
    BY <1>1, FrameIs DEF Keyed
<1>6. QED
    BY <1>1, <1>3, <1>4, <1>5

LEMMA ReadKeyFails ==
    ASSUME NEW fs, fs # <<>>, NEW v \in Value, AsKey(v) = v, v[1] \in {"inf", "neginf"}
    PROVE  LoadToken(fs, <<"key", Written(v)>>) = <<>>
<1>1. PICK f, o, x : f = fs[Len(fs)] /\ o = SubSeq(fs, 1, Len(fs) - 1) /\ x = Written(v)
    OBVIOUS
<1>2. LoadToken(fs, <<"key", x>>) = Keyed(o, f, AsKey(Atom(x)))
    BY <1>1 DEF LoadToken
<1>3. AsKey(Atom(x)) = v
    BY <1>1, KeyWritten
<1>4. QED
    BY <1>1, <1>2, <1>3 DEF Keyed

LEMMA ReadOpen ==
    ASSUME NEW fs, fs # <<>>
    PROVE  LoadToken(fs, <<"open", 0>>) = Append(fs, Frame(Bad, {}))
  BY DEF LoadToken, Frame

LEMMA Topped ==
    ASSUME NEW S, NEW q \in Seq(S), Len(q) # 0, NEW x
    PROVE  LET r == Append(SubSeq(q, 1, Len(q) - 1), x) IN
           /\ r \in Seq(S \cup {x}) /\ Len(r) = Len(q)
           /\ \A k \in 1..(Len(q) - 1) : r[k] = q[k]
           /\ r[Len(q)] = x
           /\ SubSeq(r, 1, Len(r) - 1) = SubSeq(q, 1, Len(q) - 1)
<1>1. PICK X, r, b : /\ X = S \cup {x} /\ b = SubSeq(q, 1, Len(q) - 1)
                     /\ r = Append(b, x)
    OBVIOUS
<1>2. q \in Seq(X) /\ x \in X
    BY <1>1
<1>3. /\ r \in Seq(X) /\ Len(r) = Len(q) /\ Len(q) \in Nat
      /\ \A k \in 1..(Len(q) - 1) : r[k] = q[k]
      /\ r[Len(q)] = x
    BY <1>1, <1>2, Replaced
<1>4. b \in Seq(X) /\ Len(b) = Len(q) - 1
    BY <1>1, <1>2, Popped
<1>5. SubSeq(r, 1, Len(r) - 1) = b
  <2>1. PICK n \in Nat : n = Len(b)
      BY <1>4
  <2>2. Len(r) - 1 = n
      BY <1>3, <1>4, <2>1
  <2>3. SubSeq(Append(b, x), 1, n) = b
      BY ONLY <1>2, <1>4, <2>1
  <2>4. QED
      BY <1>1, <2>2, <2>3
<1>6. QED
    BY <1>1, <1>3, <1>5

LEMMA GotKind ==
    ASSUME NEW v \in Value
    PROVE  Got(v)[1] # "bad" /\ (v[1] # "neginf" => Got(v)[1] # "neginf")
           /\ (Got(v)[1] = "inf" <=> v[1] = "inf")
<1>1. CASE v[1] \in {"int", "float"}
  <2>1. Got(v)[1] \in {"int", "float"}
      BY <1>1 DEF Got, Numeral
  <2>2. QED
      BY <1>1, <2>1
<1>2. CASE v[1] \notin {"int", "float"}
  <2>1. Got(v) = v
      BY <1>2 DEF Got
  <2>2. QED
      BY <2>1, ValueKinds
<1>3. QED
    BY <1>1, <1>2

LEMMA ReadVal ==
    ASSUME NEW gs, NEW key, NEW ps, NEW v \in Value, v[1] # "neginf",
           gs # <<>>, gs[Len(gs)] = Frame(key, ps)
    PROVE  LoadToken(gs, <<"val", Written(v)>>)
              = Append(SubSeq(gs, 1, Len(gs) - 1), Frame(key, Having(key, ps, Got(v))))
<1>1. PICK f, o, x, y : /\ f = Frame(key, ps) /\ o = SubSeq(gs, 1, Len(gs) - 1)
                        /\ x = Written(v) /\ y = Got(v)
    OBVIOUS
<1>2. y[1] \notin {"neginf", "bad"} /\ Atom(x) = y
    BY <1>1, GotKind, AtomWritten
<1>3. LoadToken(gs, <<"val", x>>) = Settled(o, f, y)
    BY <1>1, <1>2 DEF LoadToken
<1>4. Settled(o, Frame(key, ps), y) = Append(o, Frame(key, Having(key, ps, y)))
    BY <1>2, SettledIs
<1>5. QED
    BY <1>1, <1>3, <1>4

LEMMA ReadValFails ==
    ASSUME NEW gs, gs # <<>>, NEW v \in Value, v[1] = "neginf"
    PROVE  LoadToken(gs, <<"val", Written(v)>>) = <<>>
<1>1. PICK f, o, x : f = gs[Len(gs)] /\ o = SubSeq(gs, 1, Len(gs) - 1) /\ x = Written(v)
    OBVIOUS
<1>2. Atom(x) = v
    BY <1>1, AtomWritten DEF Got
<1>3. LoadToken(gs, <<"val", x>>) = Settled(o, f, v)
    BY <1>1, <1>2 DEF LoadToken
<1>4. QED
    BY <1>1, <1>3 DEF Settled

LEMMA ReadClose ==
    ASSUME NEW S, NEW fs \in Seq(S), NEW a, NEW ps, NEW k, NEW qs, NEW n \in Nat,
           Len(fs) = n + 2, fs[n + 2] = Frame(a, ps), fs[n + 1] = Frame(k, qs)
    PROVE  LoadToken(fs, <<"close", 0>>)
              = Append(SubSeq(fs, 1, n), Frame(k, Having(k, qs, <<"tab", ps>>)))
<1>1. PICK b : b = SubSeq(fs, 1, n + 1)
    OBVIOUS
<1>2. /\ b \in Seq(S) /\ Len(b) = n + 1 /\ b[n + 1] = fs[n + 1]
      /\ SubSeq(b, 1, n) = SubSeq(fs, 1, n)
  <2>1. b \in Seq(S) /\ Len(b) = n + 1 /\ \A i \in 1..(n + 1) : b[i] = fs[i]
      BY <1>1
  <2>2. n + 1 \in 1..(n + 1)
      OBVIOUS
  <2>3. PICK c, d : c = SubSeq(b, 1, n) /\ d = SubSeq(fs, 1, n)
      OBVIOUS
  <2>4. c \in Seq(S) /\ Len(c) = n /\ \A i \in 1..n : c[i] = b[i]
      BY <2>1, <2>3
  <2>5. d \in Seq(S) /\ Len(d) = n /\ \A i \in 1..n : d[i] = fs[i]
      BY <2>3
  <2>6. \A i \in 1..n : i \in 1..(n + 1)
      OBVIOUS
  <2>7. c = d
      BY <2>1, <2>4, <2>5, <2>6, SeqEqual
  <2>8. QED
      BY <2>1, <2>2, <2>3, <2>7
<1>3. (n + 2) - 1 = n + 1 /\ (n + 1) - 1 = n
    OBVIOUS
<1>4. LoadToken(fs, <<"close", 0>>)
         = Settled(SubSeq(b, 1, Len(b) - 1), b[Len(b)], <<"tab", fs[Len(fs)].pairs>>)
  <2>1. fs # <<>>
      OBVIOUS
  <2>2. QED
      BY <1>1, <1>3, <2>1 DEF LoadToken
<1>5. \A o : Settled(o, Frame(k, qs), <<"tab", ps>>)
               = Append(o, Frame(k, Having(k, qs, <<"tab", ps>>)))
    BY SettledIs
<1>6. fs[Len(fs)].pairs = ps
    BY FrameIs
<1>7. QED
    BY <1>2, <1>3, <1>4, <1>5, <1>6

-----------------------------------------------------------------------------
(* Why a table is refused: a way into it. *)

(* Each table of ts is in the one before it; the first is what was passed.  *)
Path(ts) ==
    /\ ts \in Seq(Id) /\ Len(ts) # 0 /\ ts[1] = Root
    /\ \A k \in 1..(Len(ts) - 1) :
          \E p \in heap[ts[k]] : p[2][1] = "tab" /\ p[2][2] = ts[k + 1]

(* G[d] are tables that may be entered where d levels are left: all in them *)
(* has a text and is not too deep.                                          *)
Family(G) ==
    /\ G \in [0..MaxDepth -> SUBSET Id] /\ G[0] = {}
    /\ \A d \in 1..MaxDepth : \A i \in G[d] : \A p \in heap[i] :
          HasText(p) /\ (p[2][1] = "tab" => p[2][2] \in G[d - 1])

(* The writer is in the tables ts: of each one, the pairs that are not left *)
(* are written, but for the one whose table it is in.                       *)
Walk(ts, G) ==
    /\ Path(ts) /\ Len(ts) = Len(stack) /\ Len(stack) <= MaxDepth /\ Family(G)
    /\ \A k \in 1..Len(stack) :
          /\ stack[k] \subseteq heap[ts[k]]
          /\ \A p \in heap[ts[k]] \ stack[k] :
                /\ HasText(p)
                /\ p[2][1] = "tab" => \/ p[2][2] \in G[MaxDepth - k]
                                      \/ k < Len(stack) /\ p[2][2] = ts[k + 1]

Refused(ts) ==
    /\ Path(ts)
    /\ \/ Len(ts) = MaxDepth + 1
       \/ Len(ts) <= MaxDepth /\ \E p \in heap[ts[Len(ts)]] : ~HasText(p)

CauseInv ==
    /\ outcome = "writing" => \E ts, G : Walk(ts, G)
    /\ outcome = "ok" => \E G : Family(G) /\ Root \in G[MaxDepth]
    /\ outcome = "failed" => \E ts : Refused(ts)

TextInv == TextTypeOK /\ CauseInv

Subtables == UNION {SUBSET heap[i] : i \in Id}
Token == {<<"open", 0>>, <<"close", 0>>} \cup ({"key", "val"} \X Word)

LEMMA Tokens ==
    /\ <<"open", 0>> \in Token /\ <<"close", 0>> \in Token
    /\ \A v \in Value : GoodKey(v) => <<"key", Written(v)>> \in Token
    /\ \A v \in Value : GoodValue(v) /\ v[1] # "tab" => <<"val", Written(v)>> \in Token
<1>1. ASSUME NEW v \in Value, GoodKey(v) \/ (GoodValue(v) /\ v[1] # "tab")
      PROVE  Written(v) \in Word
  <2>1. v[1] \notin {"tab", "fun"}
      BY <1>1 DEF GoodKey, GoodValue
  <2>2. QED
      BY <2>1, WrittenWord
<1>2. QED
    BY <1>1 DEF Token

LEMMA TextTypeIs ==
    TextTypeOK <=> /\ DOMAIN heap = Id /\ \A i \in Id : IsTable(heap[i])
                   /\ stack \in Seq(Subtables) /\ Len(stack) <= MaxDepth
                   /\ text \in Seq(Token)
                   /\ outcome \in {"writing", "ok", "failed"}
  BY DEF TextTypeOK, Subtables, Token

LEMMA TextTypeIsNext ==
    ASSUME UNCHANGED heap
    PROVE  TextTypeOK' <=>
                   /\ DOMAIN heap = Id /\ \A i \in Id : IsTable(heap[i])
                   /\ stack' \in Seq(Subtables) /\ Len(stack') <= MaxDepth
                   /\ text' \in Seq(Token)
                   /\ outcome' \in {"writing", "ok", "failed"}
  BY DEF TextTypeOK, Subtables, Token

LEMMA HeapTables ==
    ASSUME TextTypeOK, NEW i \in Id
    PROVE  heap[i] \subseteq Value \X Value /\ \A p \in heap[i] : AsKey(p[1]) = p[1]
  BY DEF TextTypeOK, IsTable

LEMMA HeapSame ==
    ASSUME UNCHANGED heap
    PROVE  /\ \A ts : Path(ts)' <=> Path(ts)
           /\ \A G : Family(G)' <=> Family(G)
           /\ \A ts : Refused(ts)' <=> Refused(ts)
           /\ \A p : HasText(p)' <=> HasText(p)
  BY DEF Path, Family, Refused, HasText

-----------------------------------------------------------------------------
(* The steps of the writer. *)

(* The tables of a path have contents, and the one at its end more tables.  *)
LEMMA PathFacts ==
    ASSUME TextTypeOK, NEW ts, NEW G, Walk(ts, G), outcome = "writing"
    PROVE  /\ Len(stack) \in 1..MaxDepth /\ Len(ts) = Len(stack) /\ ts \in Seq(Id)
           /\ stack \in Seq(Subtables)
           /\ \A k \in 1..Len(stack) :
                 /\ ts[k] \in Id /\ heap[ts[k]] \in Subtables
                 /\ stack[k] \subseteq heap[ts[k]] /\ heap[ts[k]] \subseteq Value \X Value
           /\ Top \subseteq heap[ts[Len(stack)]] /\ Top \subseteq Value \X Value
           /\ \A X : X \subseteq Top => X \in Subtables
           /\ \A i \in Id : heap[i] \in Subtables
<1>1. /\ ts \in Seq(Id) /\ Len(ts) # 0 /\ Len(ts) = Len(stack) /\ Len(stack) <= MaxDepth
      /\ \A k \in 1..Len(stack) : stack[k] \subseteq heap[ts[k]]
    BY DEF Walk, Path
<1>2. stack \in Seq(Subtables) /\ \A i \in Id : heap[i] \subseteq Value \X Value
    BY TextTypeIs, HeapTables
<1>3. Len(stack) \in 1..MaxDepth
    BY <1>1, <1>2, TextAssumption
<1>4. \A k \in 1..Len(stack) : ts[k] \in Id
    BY <1>1
<1>5. \A i \in Id : \A X : X \subseteq heap[i] => X \in Subtables
    BY DEF Subtables
<1>6. Len(stack) \in 1..Len(stack)
    BY <1>3
<1>7. Top \subseteq heap[ts[Len(stack)]]
    BY <1>1, <1>6 DEF Top
<1>8. ts[Len(stack)] \in Id
    BY <1>4, <1>6
<1>9. \A X : X \subseteq Top => X \in Subtables
    BY <1>5, <1>7, <1>8
<1>10. Top \subseteq Value \X Value
    BY <1>2, <1>7, <1>8
<1>11. \A k \in 1..Len(stack) : heap[ts[k]] \in Subtables /\ heap[ts[k]] \subseteq Value \X Value
    BY <1>2, <1>4, <1>5
<1>12. QED
    BY <1>1, <1>2, <1>3, <1>4, <1>5, <1>7, <1>9, <1>10, <1>11

LEMMA PairKeeps == ASSUME TextInv, WritePair PROVE TextInv'
<1>0. TextTypeOK /\ outcome = "writing" /\ UNCHANGED <<heap, outcome>>
    BY DEF TextInv, WritePair
<1>1. PICK ts, G : Walk(ts, G)
    BY <1>0 DEF TextInv, CauseInv
<1>2. PICK p \in Top :
         /\ GoodKey(p[1]) /\ GoodValue(p[2]) /\ p[2][1] # "tab"
         /\ text' = text \o <<<<"key", Written(p[1])>>, <<"val", Written(p[2])>>>>
         /\ stack' = Append(Below, Top \ {p})
    BY DEF WritePair
<1>3. PICK n, x : n = Len(stack) /\ x = Top \ {p}
    OBVIOUS
<1>4. /\ n \in 1..MaxDepth /\ Len(ts) = n /\ stack \in Seq(Subtables) /\ x \in Subtables
      /\ p \in heap[ts[n]] /\ p \in Value \X Value
    BY <1>0, <1>1, <1>3, PathFacts
<1>5. /\ stack' \in Seq(Subtables) /\ Len(stack') = n
      /\ \A k \in 1..(n - 1) : stack'[k] = stack[k]
      /\ stack'[n] = x
    BY <1>2, <1>3, <1>4, Replaced DEF Below
<1>6. HasText(p)
    BY <1>2, <1>4, PairText
<1>7. ASSUME NEW k \in 1..n
      PROVE  /\ stack'[k] \subseteq heap[ts[k]]
             /\ \A q \in heap[ts[k]] \ stack'[k] :
                   /\ HasText(q)
                   /\ q[2][1] = "tab" => \/ q[2][2] \in G[MaxDepth - k]
                                         \/ k < n /\ q[2][2] = ts[k + 1]
  <2>1. /\ stack[k] \subseteq heap[ts[k]]
        /\ \A q \in heap[ts[k]] \ stack[k] :
              /\ HasText(q)
              /\ q[2][1] = "tab" => \/ q[2][2] \in G[MaxDepth - k]
                                    \/ k < n /\ q[2][2] = ts[k + 1]
      BY <1>1, <1>3, <1>7 DEF Walk
  <2>2. CASE k = n
    <3>1. stack[k] = Top /\ stack'[k] = Top \ {p}
        BY <1>3, <1>5, <2>2 DEF Top
    <3>2. QED
        BY <1>2, <1>6, <2>1, <3>1
  <2>3. CASE k # n
    <3>1. stack'[k] = stack[k]
        BY <1>4, <1>5, <2>3
    <3>2. QED
        BY <2>1, <3>1
  <2>4. QED
      BY <2>2, <2>3
<1>8. Walk(ts, G)'
  <2>1. Path(ts)' /\ Family(G)' /\ \A q : HasText(q)' <=> HasText(q)
      BY <1>0, <1>1, HeapSame DEF Walk
  <2>2. n <= MaxDepth
      BY <1>4, TextAssumption
  <2>3. QED
      BY <1>0, <1>4, <1>5, <1>7, <2>1, <2>2 DEF Walk
<1>9. text' \in Seq(Token)
  <2>1. PICK a, b, t : a = <<"key", Written(p[1])>> /\ b = <<"val", Written(p[2])>> /\ t = text
      OBVIOUS
  <2>2. a \in Token /\ b \in Token
      BY <1>2, <1>4, <2>1, Tokens
  <2>3. t \in Seq(Token)
      BY <1>0, <2>1, TextTypeIs
  <2>4. t \o <<a, b>> \in Seq(Token)
      BY ONLY <2>2, <2>3
  <2>5. QED
      BY <1>2, <2>1, <2>4
<1>10. TextTypeOK'
  <2>1. Len(stack') <= MaxDepth
      BY <1>4, <1>5, TextAssumption
  <2>2. QED
      BY <1>0, <1>5, <1>9, <2>1, TextTypeIs, TextTypeIsNext
<1>11. CauseInv'
    BY <1>0, <1>8 DEF CauseInv
<1>12. QED
    BY <1>10, <1>11 DEF TextInv

LEMMA EnterKeeps == ASSUME TextInv, EnterTable PROVE TextInv'
<1>0. TextTypeOK /\ outcome = "writing" /\ UNCHANGED <<heap, outcome>>
    BY DEF TextInv, EnterTable
<1>1. PICK ts, G : Walk(ts, G)
    BY <1>0 DEF TextInv, CauseInv
<1>2. PICK p \in Top :
         /\ GoodKey(p[1]) /\ p[2][1] = "tab" /\ ~TooDeep(Len(stack))
         /\ text' = text \o <<<<"key", Written(p[1])>>, <<"open", 0>>>>
         /\ stack' = Below \o <<Top \ {p}, heap[p[2][2]]>>
    BY DEF EnterTable
<1>3. PICK n, x, i, y : n = Len(stack) /\ x = Top \ {p} /\ i = p[2][2] /\ y = heap[i]
    OBVIOUS
<1>4. /\ n \in 1..MaxDepth /\ Len(ts) = n /\ stack \in Seq(Subtables) /\ x \in Subtables
      /\ p \in heap[ts[n]] /\ p \in Value \X Value /\ ts \in Seq(Id)
    BY <1>0, <1>1, <1>3, PathFacts
<1>5. i \in Id /\ y \in Subtables /\ n < MaxDepth
  <2>1. p[2] \in Value
      BY <1>4
  <2>2. i \in Id
      BY <1>2, <1>3, <2>1, ValueKinds
  <2>3. y \in Subtables
      BY <1>0, <1>1, <1>3, <2>2, PathFacts
  <2>4. QED
      BY <1>2, <1>3, <1>4, <2>2, <2>3, TextAssumption DEF TooDeep
<1>6. /\ stack' \in Seq(Subtables) /\ Len(stack') = n + 1
      /\ \A k \in 1..(n - 1) : stack'[k] = stack[k]
      /\ stack'[n] = x /\ stack'[n + 1] = y
  <2>1. PICK b, r : b = Below /\ r = Append(b, x)
      OBVIOUS
  <2>2. b \in Seq(Subtables)
      BY <1>3, <1>4, <2>1, Popped DEF Below
  <2>3. /\ r \in Seq(Subtables) /\ Len(r) = n
        /\ \A k \in 1..(n - 1) : r[k] = stack[k]
        /\ r[n] = x
      BY <1>3, <1>4, <2>1, Replaced DEF Below
  <2>4. stack' = Append(r, y)
    <3>1. stack' = b \o <<x, y>>
        BY <1>2, <1>3, <2>1
    <3>2. b \o <<x, y>> = Append(Append(b, x), y)
        BY ONLY <1>4, <1>5, <2>2, TwoMore
    <3>3. QED
        BY <2>1, <3>1, <3>2
  <2>5. /\ stack' \in Seq(Subtables) /\ Len(stack') = n + 1
        /\ \A k \in 1..n : stack'[k] = r[k]
        /\ stack'[n + 1] = y
      BY <1>5, <2>3, <2>4, Pushed
  <2>6. QED
      BY <1>4, <2>3, <2>5
<1>7. PICK us : us = Append(ts, i)
    OBVIOUS
<1>8. /\ us \in Seq(Id) /\ Len(us) = n + 1 /\ us[n + 1] = i
      /\ \A k \in 1..n : us[k] = ts[k]
    BY <1>4, <1>5, <1>7, Pushed
<1>9. Path(us)
  <2>1. us[1] = Root
      BY <1>1, <1>4, <1>8 DEF Walk, Path
  <2>2. ASSUME NEW k \in 1..n PROVE \E q \in heap[us[k]] : q[2][1] = "tab" /\ q[2][2] = us[k + 1]
    <3>1. CASE k = n
        BY <1>2, <1>3, <1>4, <1>8, <3>1
    <3>2. CASE k # n
      <4>1. k \in 1..(Len(ts) - 1) /\ k + 1 \in 1..n
          BY <1>4, <3>2
      <4>2. \E q \in heap[ts[k]] : q[2][1] = "tab" /\ q[2][2] = ts[k + 1]
          BY <1>1, <4>1 DEF Walk, Path
      <4>3. QED
          BY <1>8, <4>1, <4>2
    <3>3. QED
        BY <3>1, <3>2
  <2>3. Len(us) # 0 /\ Len(us) - 1 = n
      BY <1>4, <1>8
  <2>4. QED
      BY <1>8, <2>1, <2>2, <2>3 DEF Path
<1>10. HasText(p)
    BY <1>2, <1>4, PairText DEF GoodValue
<1>11. ASSUME NEW k \in 1..(n + 1)
       PROVE  /\ stack'[k] \subseteq heap[us[k]]
              /\ \A q \in heap[us[k]] \ stack'[k] :
                    /\ HasText(q)
                    /\ q[2][1] = "tab" => \/ q[2][2] \in G[MaxDepth - k]
                                          \/ k < n + 1 /\ q[2][2] = us[k + 1]
  <2>1. CASE k = n + 1
    <3>1. stack'[k] = heap[us[k]]
        BY <1>3, <1>6, <1>8, <2>1
    <3>2. QED
        BY <3>1
  <2>2. ASSUME k \in 1..n
        PROVE  /\ stack[k] \subseteq heap[us[k]]
               /\ \A q \in heap[us[k]] \ stack[k] :
                     /\ HasText(q)
                     /\ q[2][1] = "tab" => \/ q[2][2] \in G[MaxDepth - k]
                                           \/ k < n /\ q[2][2] = ts[k + 1]
      BY <1>1, <1>3, <1>8, <2>2 DEF Walk
  <2>3. CASE k = n
    <3>1. stack[k] = Top /\ stack'[k] = Top \ {p} /\ k < n + 1 /\ p[2][2] = us[k + 1] /\ k \in 1..n
        BY <1>3, <1>4, <1>6, <1>8, <2>3 DEF Top
    <3>2. QED
        BY <1>10, <2>2, <2>3, <3>1
  <2>4. CASE k # n /\ k # n + 1
    <3>1. stack'[k] = stack[k] /\ us[k + 1] = ts[k + 1] /\ k < n + 1 /\ k \in 1..n
      <4>1. k \in 1..(n - 1) /\ k + 1 \in 1..n /\ k < n + 1
          BY <1>4, <2>4
      <4>2. stack'[k] = stack[k]
          BY <1>6, <4>1
      <4>3. us[k + 1] = ts[k + 1] /\ k \in 1..n
          BY <1>4, <1>8, <4>1
      <4>4. QED
          BY <4>1, <4>2, <4>3
    <3>2. QED
        BY <2>2, <3>1
  <2>5. QED
      BY <2>1, <2>3, <2>4
<1>12. Walk(us, G)'
  <2>1. Path(us)' /\ Family(G)' /\ \A q : HasText(q)' <=> HasText(q)
      BY <1>0, <1>1, <1>9, HeapSame DEF Walk
  <2>2. n + 1 <= MaxDepth
      BY <1>4, <1>5, TextAssumption
  <2>3. QED
      BY <1>0, <1>6, <1>8, <1>11, <2>1, <2>2 DEF Walk
<1>13. text' \in Seq(Token)
  <2>1. PICK a, b, t : a = <<"key", Written(p[1])>> /\ b = <<"open", 0>> /\ t = text
      OBVIOUS
  <2>2. a \in Token /\ b \in Token
      BY <1>2, <1>4, <2>1, Tokens
  <2>3. t \in Seq(Token)
      BY <1>0, <2>1, TextTypeIs
  <2>4. t \o <<a, b>> \in Seq(Token)
      BY ONLY <2>2, <2>3
  <2>5. QED
      BY <1>2, <2>1, <2>4
<1>14. TextTypeOK'
  <2>1. Len(stack') <= MaxDepth
      BY <1>4, <1>5, <1>6, TextAssumption
  <2>2. QED
      BY <1>0, <1>6, <1>13, <2>1, TextTypeIs, TextTypeIsNext
<1>15. CauseInv'
    BY <1>0, <1>12 DEF CauseInv
<1>16. QED
    BY <1>14, <1>15 DEF TextInv

(* A table that is left joins its family. *)
LEMMA FamilyGrows ==
    ASSUME TextTypeOK, NEW G, Family(G), NEW d \in 1..MaxDepth, NEW i \in Id,
           \A p \in heap[i] : HasText(p) /\ (p[2][1] = "tab" => p[2][2] \in G[d - 1])
    PROVE  \E H : /\ Family(H) /\ i \in H[d]
                  /\ \A e \in 0..MaxDepth : G[e] \subseteq H[e]
<1> DEFINE H == [G EXCEPT ![d] = G[d] \cup {i}]
<1>0. MaxDepth \in Nat /\ d \in 0..MaxDepth /\ d - 1 \in 0..MaxDepth
    BY TextAssumption
<1>1. /\ G \in [0..MaxDepth -> SUBSET Id] /\ G[0] = {}
      /\ \A c \in 1..MaxDepth : \A j \in G[c] : \A p \in heap[j] :
            HasText(p) /\ (p[2][1] = "tab" => p[2][2] \in G[c - 1])
    BY DEF Family
<1>2. H \in [0..MaxDepth -> SUBSET Id]
    BY <1>0, <1>1
<1>3. H[d] = G[d] \cup {i} /\ \A e \in 0..MaxDepth : e # d => H[e] = G[e]
    BY <1>0, <1>1
<1> HIDE DEF H
<1>4. \A e \in 0..MaxDepth : G[e] \subseteq H[e]
    BY <1>3
<1>5. H[0] = {}
    BY <1>0, <1>1, <1>3
<1>6. ASSUME NEW c \in 1..MaxDepth, NEW j \in H[c], NEW p \in heap[j]
      PROVE  HasText(p) /\ (p[2][1] = "tab" => p[2][2] \in H[c - 1])
  <2>1. c \in 0..MaxDepth /\ c - 1 \in 0..MaxDepth
      BY <1>0
  <2>2. HasText(p) /\ (p[2][1] = "tab" => p[2][2] \in G[c - 1])
      BY <1>1, <1>3, <2>1
  <2>3. QED
      BY <1>4, <2>1, <2>2
<1>7. Family(H)
    BY <1>2, <1>5, <1>6 DEF Family
<1>8. QED
    BY <1>3, <1>4, <1>7

LEMMA LeaveKeeps == ASSUME TextInv, LeaveTable PROVE TextInv'
<1>0. /\ TextTypeOK /\ outcome = "writing" /\ UNCHANGED heap /\ Top = {}
      /\ text' = Append(text, <<"close", 0>>) /\ stack' = Below
      /\ outcome' = IF Len(stack) = 1 THEN "ok" ELSE "writing"
    BY DEF TextInv, LeaveTable
<1>1. PICK ts, G : Walk(ts, G)
    BY <1>0 DEF TextInv, CauseInv
<1>2. PICK n, d : n = Len(stack) /\ d = MaxDepth - n + 1
    OBVIOUS
<1>3. /\ n \in 1..MaxDepth /\ Len(ts) = n /\ stack \in Seq(Subtables) /\ ts \in Seq(Id)
      /\ ts[n] \in Id
  <2>1. /\ n \in 1..MaxDepth /\ Len(ts) = n /\ stack \in Seq(Subtables) /\ ts \in Seq(Id)
        /\ \A k \in 1..n : ts[k] \in Id
      BY <1>0, <1>1, <1>2, PathFacts
  <2>2. n \in 1..n
      BY <2>1
  <2>3. QED
      BY <2>1, <2>2
<1>4. d \in 1..MaxDepth /\ d - 1 = MaxDepth - n /\ n \in 1..n
    BY <1>2, <1>3, TextAssumption
<1>5. \A p \in heap[ts[n]] : HasText(p) /\ (p[2][1] = "tab" => p[2][2] \in G[d - 1])
  <2>1. stack[n] = {}
      BY <1>0, <1>2 DEF Top
  <2>2. \A p \in heap[ts[n]] \ stack[n] :
           HasText(p) /\ (p[2][1] = "tab" => p[2][2] \in G[MaxDepth - n] \/ n < n)
      BY <1>1, <1>2, <1>4 DEF Walk
  <2>3. ~(n < n)
      BY <1>3
  <2>4. QED
      BY <1>4, <2>1, <2>2, <2>3
<1>6. PICK H : /\ Family(H) /\ ts[n] \in H[d]
               /\ \A e \in 0..MaxDepth : G[e] \subseteq H[e]
  <2>1. Family(G)
      BY <1>1 DEF Walk
  <2>2. QED
      BY <1>0, <1>3, <1>4, <1>5, <2>1, FamilyGrows
<1>7. /\ stack' \in Seq(Subtables) /\ Len(stack') = n - 1
      /\ \A k \in 1..(n - 1) : stack'[k] = stack[k]
    BY <1>0, <1>2, <1>3, Popped DEF Below
<1>8. TextTypeOK'
  <2>1. Len(stack') <= MaxDepth
      BY <1>3, <1>7, TextAssumption
  <2>2. text' \in Seq(Token)
    <3>1. text \in Seq(Token) /\ <<"close", 0>> \in Token
        BY <1>0, TextTypeIs DEF Token
    <3>2. QED
        BY <1>0, <3>1
  <2>3. outcome' \in {"writing", "ok", "failed"}
      BY <1>0
  <2>4. QED
      BY <1>0, <1>7, <2>1, <2>2, <2>3, TextTypeIs, TextTypeIsNext
<1>9. CASE n = 1
  <2>1. ts[1] = Root /\ d = MaxDepth
      BY <1>1, <1>2, <1>9, TextAssumption DEF Walk, Path
  <2>2. Family(H)' /\ Root \in H[MaxDepth]
      BY <1>0, <1>6, <1>9, <2>1, HeapSame
  <2>3. outcome' = "ok"
      BY <1>0, <1>2, <1>9
  <2>4. CauseInv'
      BY <2>2, <2>3 DEF CauseInv
  <2>5. QED
      BY <1>8, <2>4 DEF TextInv
<1>10. CASE n # 1
  <2>1. PICK us : us = SubSeq(ts, 1, n - 1)
      OBVIOUS
  <2>2. /\ us \in Seq(Id) /\ Len(us) = n - 1
        /\ \A k \in 1..(n - 1) : us[k] = ts[k]
      BY <1>3, <2>1, Popped
  <2>3. Path(us)
    <3>1. us[1] = Root
      <4>1. 1 \in 1..(n - 1)
          BY <1>3, <1>10
      <4>2. QED
          BY <1>1, <2>2, <4>1 DEF Walk, Path
    <3>2. ASSUME NEW k \in 1..(n - 1 - 1)
          PROVE  \E q \in heap[us[k]] : q[2][1] = "tab" /\ q[2][2] = us[k + 1]
      <4>1. k \in 1..(n - 1) /\ k + 1 \in 1..(n - 1)
          BY <1>3
      <4>2. \E q \in heap[ts[k]] : q[2][1] = "tab" /\ q[2][2] = ts[k + 1]
          BY <1>1, <1>3, <4>1 DEF Walk, Path
      <4>3. QED
          BY <2>2, <4>1, <4>2
    <3>3. Len(us) # 0
        BY <1>3, <1>10, <2>2
    <3>4. QED
        BY <2>2, <3>1, <3>2, <3>3 DEF Path
  <2>4. ASSUME NEW k \in 1..(n - 1)
        PROVE  /\ stack'[k] \subseteq heap[us[k]]
               /\ \A q \in heap[us[k]] \ stack'[k] :
                     /\ HasText(q)
                     /\ q[2][1] = "tab" => \/ q[2][2] \in H[MaxDepth - k]
                                           \/ k < n - 1 /\ q[2][2] = us[k + 1]
    <3>1. k \in 1..n /\ MaxDepth - k \in 0..MaxDepth
        BY <1>3, TextAssumption
    <3>2. /\ stack'[k] \subseteq heap[us[k]]
          /\ \A q \in heap[us[k]] \ stack'[k] :
                /\ HasText(q)
                /\ q[2][1] = "tab" => \/ q[2][2] \in G[MaxDepth - k]
                                      \/ k < n /\ q[2][2] = ts[k + 1]
        BY <1>1, <1>2, <1>7, <2>2, <3>1 DEF Walk
    <3>3. G[MaxDepth - k] \subseteq H[MaxDepth - k]
        BY <1>6, <3>1
    <3>4. CASE k = n - 1
      <4>1. ts[k + 1] \in H[MaxDepth - k]
        <5>1. k + 1 = n /\ d = MaxDepth - k
            BY <1>2, <1>3, <3>4, TextAssumption
        <5>2. QED
            BY <1>6, <5>1
      <4>2. QED
          BY <3>2, <3>3, <4>1
    <3>5. CASE k # n - 1
      <4>1. k < n - 1 /\ k + 1 \in 1..(n - 1)
          BY <1>3, <3>5
      <4>2. us[k + 1] = ts[k + 1]
          BY <2>2, <4>1
      <4>3. QED
          BY <3>2, <3>3, <4>1, <4>2
    <3>6. QED
        BY <3>4, <3>5
  <2>5. Walk(us, H)'
    <3>1. Path(us)' /\ Family(H)' /\ \A q : HasText(q)' <=> HasText(q)
        BY <1>0, <1>6, <2>3, HeapSame
    <3>2. n - 1 <= MaxDepth
        BY <1>3, TextAssumption
    <3>3. QED
        BY <1>0, <1>7, <2>2, <2>4, <3>1, <3>2 DEF Walk
  <2>6. outcome' = "writing"
      BY <1>0, <1>2, <1>10
  <2>7. CauseInv'
      BY <2>5, <2>6 DEF CauseInv
  <2>8. QED
      BY <1>8, <2>7 DEF TextInv
<1>11. QED
    BY <1>9, <1>10

LEMMA FailKeeps == ASSUME TextInv, Fail PROVE TextInv'
<1>0. /\ TextTypeOK /\ outcome = "writing" /\ UNCHANGED heap
      /\ stack' = <<>> /\ text' = <<>> /\ outcome' = "failed"
    BY DEF TextInv, Fail
<1>1. PICK ts, G : Walk(ts, G)
    BY <1>0 DEF TextInv, CauseInv
<1>2. PICK p \in Top : \/ ~GoodKey(p[1])
                       \/ ~GoodValue(p[2])
                       \/ p[2][1] = "tab" /\ TooDeep(Len(stack))
    BY DEF Fail
<1>3. PICK n : n = Len(stack)
    OBVIOUS
<1>4. /\ n \in 1..MaxDepth /\ Len(ts) = n /\ p \in heap[ts[n]]
      /\ p \in Value \X Value /\ ts \in Seq(Id)
    BY <1>0, <1>1, <1>3, PathFacts
<1>5. Path(ts)
    BY <1>1 DEF Walk
<1>6. ASSUME ~GoodKey(p[1]) \/ ~GoodValue(p[2]) PROVE \E us : Refused(us)
  <2>1. ~HasText(p)
      BY <1>4, <1>6, PairText
  <2>2. n <= MaxDepth
      BY <1>4, TextAssumption
  <2>3. Refused(ts)
      BY <1>4, <1>5, <2>1, <2>2 DEF Refused
  <2>4. QED
      BY <2>3
<1>7. ASSUME p[2][1] = "tab", TooDeep(Len(stack)) PROVE \E us : Refused(us)
  <2>1. n = MaxDepth
      BY <1>3, <1>4, <1>7, TextAssumption DEF TooDeep
  <2>2. p[2][2] \in Id
      BY <1>4, <1>7, ValueKinds
  <2>3. PICK i, us : i = p[2][2] /\ us = Append(ts, i)
      OBVIOUS
  <2>4. /\ us \in Seq(Id) /\ Len(us) = n + 1 /\ us[n + 1] = i
        /\ \A k \in 1..n : us[k] = ts[k]
      BY <1>4, <2>2, <2>3, Pushed
  <2>5. us[1] = Root
      BY <1>4, <1>5, <2>4 DEF Path
  <2>6. ASSUME NEW k \in 1..n PROVE \E q \in heap[us[k]] : q[2][1] = "tab" /\ q[2][2] = us[k + 1]
    <3>1. CASE k = n
        BY <1>4, <1>7, <2>3, <2>4, <3>1
    <3>2. CASE k # n
      <4>1. k \in 1..(Len(ts) - 1) /\ k + 1 \in 1..n
          BY <1>4, <3>2
      <4>2. \E q \in heap[ts[k]] : q[2][1] = "tab" /\ q[2][2] = ts[k + 1]
          BY <1>5, <4>1 DEF Path
      <4>3. QED
          BY <2>4, <4>1, <4>2
    <3>3. QED
        BY <3>1, <3>2
  <2>7. Len(us) # 0 /\ Len(us) - 1 = n /\ Len(us) = MaxDepth + 1
      BY <1>4, <2>1, <2>4
  <2>8. Path(us)
      BY <2>4, <2>5, <2>6, <2>7 DEF Path
  <2>9. QED
      BY <2>7, <2>8 DEF Refused
<1>8. PICK us : Refused(us)
    BY <1>2, <1>6, <1>7
<1>9. CauseInv'
    BY <1>0, <1>8, HeapSame DEF CauseInv
<1>10. TextTypeOK'
  <2>1. <<>> \in Seq(Subtables) /\ Len(<<>>) <= MaxDepth /\ <<>> \in Seq(Token)
      BY TextAssumption
  <2>2. QED
      BY <1>0, <2>1, TextTypeIs, TextTypeIsNext
<1>11. QED
    BY <1>9, <1>10 DEF TextInv

LEMMA TextBegins == ASSUME TextInit PROVE TextInv
<1>1. /\ heap \in Heaps /\ stack = <<heap[Root]>> /\ text = <<<<"open", 0>>>>
      /\ outcome = "writing"
    BY DEF TextInit
<1>2. /\ DOMAIN heap = Id /\ \A i \in Id : IsTable(heap[i])
    BY <1>1, TextAssumption
<1>3. Root \in Id /\ heap[Root] \in Subtables
    BY TextAssumption DEF Subtables
<1>4. /\ stack \in Seq(Subtables) /\ Len(stack) = 1 /\ stack[1] = heap[Root]
    BY <1>1, <1>3
<1>5. text \in Seq(Token)
    BY <1>1 DEF Token
<1>6. TextTypeOK
    BY <1>1, <1>2, <1>4, <1>5, TextTypeIs, TextAssumption
<1>7. PICK ts, G : ts = <<Root>> /\ G = [d \in 0..MaxDepth |-> {}]
    OBVIOUS
<1>8. ts \in Seq(Id) /\ Len(ts) = 1 /\ ts[1] = Root
    BY <1>3, <1>7
<1>9. Path(ts)
    BY <1>8 DEF Path
<1>10. Family(G)
  <2>1. 0 \in 0..MaxDepth /\ \A d \in 1..MaxDepth : d \in 0..MaxDepth
      BY TextAssumption
  <2>2. \A d \in 0..MaxDepth : G[d] = {}
      BY <1>7
  <2>3. G \in [0..MaxDepth -> SUBSET Id]
      BY <1>7
  <2>4. QED
      BY <2>1, <2>2, <2>3 DEF Family
<1>11. Walk(ts, G)
  <2>1. \A k \in 1..Len(stack) : k = 1
      BY <1>4
  <2>2. QED
      BY <1>4, <1>8, <1>9, <1>10, <2>1, TextAssumption DEF Walk
<1>12. QED
    BY <1>1, <1>6, <1>11 DEF TextInv, CauseInv

-----------------------------------------------------------------------------
(* Level is a recursive function; it is what its definition says. *)

Levels(g, k) == g = [n \in 0..k |-> IF n = 0 THEN {Root} ELSE Tables(g[n - 1])]

LEMMA LevelsStep ==
    ASSUME NEW k \in Nat, NEW g, Levels(g, k) PROVE \E h : Levels(h, k + 1)
<1> DEFINE h == [n \in 0..(k + 1) |-> IF n <= k THEN g[n] ELSE Tables(g[n - 1])]
<1>1. \A n \in 0..k : g[n] = IF n = 0 THEN {Root} ELSE Tables(g[n - 1])
    BY DEF Levels
<1>2. ASSUME NEW n \in 0..(k + 1)
      PROVE  h[n] = IF n = 0 THEN {Root} ELSE Tables(h[n - 1])
  <2>1. CASE n = 0
    <3>1. n \in 0..k /\ n <= k
        BY <2>1
    <3>2. h[n] = g[n]
        BY <3>1
    <3>3. QED
        BY <1>1, <2>1, <3>1, <3>2
  <2>2. CASE n # 0
    <3>1. n - 1 \in 0..(k + 1) /\ n - 1 <= k
        BY <2>2
    <3>2. h[n - 1] = g[n - 1]
        BY <3>1
    <3>3. h[n] = Tables(g[n - 1])
      <4>1. CASE n <= k
        <5>1. n \in 0..k /\ h[n] = g[n]
            BY <4>1
        <5>2. QED
            BY <1>1, <2>2, <5>1
      <4>2. CASE ~(n <= k)
          BY <4>2
      <4>3. QED
          BY <4>1, <4>2
    <3>4. QED
        BY <2>2, <3>2, <3>3
  <2>3. QED
      BY <2>1, <2>2
<1>3. h = [n \in 0..(k + 1) |-> h[n]]
    OBVIOUS
<1>4. h = [n \in 0..(k + 1) |-> IF n = 0 THEN {Root} ELSE Tables(h[n - 1])]
    BY ONLY <1>2, <1>3, Zenon
<1>5. QED
    BY <1>4 DEF Levels

LEMMA LevelsExist == ASSUME NEW n \in Nat PROVE \E g : Levels(g, n)
<1> DEFINE T == {k \in Nat : \E g : Levels(g, k)}
<1>1. 0 \in T
  <2>1. PICK g : g = [n_1 \in 0..0 |-> {Root}]
      OBVIOUS
  <2>2. 0..0 = {0}
      OBVIOUS
  <2>3. g = [n_1 \in 0..0 |-> IF n_1 = 0 THEN {Root} ELSE Tables(g[n_1 - 1])]
      BY <2>1, <2>2
  <2>4. Levels(g, 0)
      BY <2>3 DEF Levels
  <2>5. QED
      BY <2>4
<1>2. ASSUME NEW k \in T PROVE k + 1 \in T
  <2>1. PICK g : Levels(g, k)
      OBVIOUS
  <2>2. k \in Nat /\ k + 1 \in Nat
      OBVIOUS
  <2>3. \E h : Levels(h, k + 1)
      BY <2>1, <2>2, LevelsStep
  <2>4. QED
      BY <2>2, <2>3
<1>3. T \in SUBSET Nat
    OBVIOUS
<1> HIDE DEF T
<1>4. T = Nat
    BY <1>1, <1>2, <1>3, Induct
<1>5. QED
    BY <1>4 DEF T

LEMMA LevelIs ==
    /\ Level[0] = {Root}
    /\ \A n \in 1..MaxDepth : Level[n] = Tables(Level[n - 1])
<1>0. MaxDepth \in Nat
    BY TextAssumption
<1>1. \E g : g = [n \in 0..MaxDepth |-> IF n = 0 THEN {Root} ELSE Tables(g[n - 1])]
    BY <1>0, LevelsExist DEF Levels
<1>2. Level = [n \in 0..MaxDepth |-> IF n = 0 THEN {Root} ELSE Tables(Level[n - 1])]
  <2>1. PICK f : f = CHOOSE g : g = [n \in 0..MaxDepth |->
                                       IF n = 0 THEN {Root} ELSE Tables(g[n - 1])]
      OBVIOUS
  <2>2. f = [n \in 0..MaxDepth |-> IF n = 0 THEN {Root} ELSE Tables(f[n - 1])]
      BY <1>1, <2>1
  <2>3. Level = f
      BY <2>1 DEF Level
  <2>4. QED
      BY <2>2, <2>3
<1>3. PICK f : f = Level
    OBVIOUS
<1>4. f = [n \in 0..MaxDepth |-> IF n = 0 THEN {Root} ELSE Tables(f[n - 1])]
    BY <1>2, <1>3
<1>5. 0 \in 0..MaxDepth /\ \A n \in 1..MaxDepth : n \in 0..MaxDepth /\ n # 0
    BY <1>0
<1>6. f[0] = {Root} /\ \A n \in 1..MaxDepth : f[n] = Tables(f[n - 1])
    BY ONLY <1>4, <1>5
<1>7. QED
    BY <1>3, <1>6

LEMMA TablesAre ==
    ASSUME NEW I, NEW x
    PROVE  x \in Tables(I) <=> \E i \in I : \E p \in heap[i] : p[2][1] = "tab" /\ p[2][2] = x
  BY DEF Tables

(* The tables of a path are on the levels. *)
LEMMA PathLevels ==
    ASSUME NEW ts, Path(ts), Len(ts) <= MaxDepth + 1
    PROVE  \A k \in 1..Len(ts) : ts[k] \in Level[k - 1]
<1> DEFINE T == {j \in Nat : j + 1 \in 1..Len(ts) => ts[j + 1] \in Level[j]}
<1>0. /\ ts \in Seq(Id) /\ Len(ts) \in Nat /\ Len(ts) # 0 /\ ts[1] = Root
      /\ \A k \in 1..(Len(ts) - 1) :
            \E p \in heap[ts[k]] : p[2][1] = "tab" /\ p[2][2] = ts[k + 1]
      /\ MaxDepth \in Nat
    BY TextAssumption DEF Path
<1>1. 0 \in T
    BY <1>0, LevelIs
<1>2. ASSUME NEW j \in T PROVE j + 1 \in T
  <2>1. j \in Nat /\ (j + 1 \in 1..Len(ts) => ts[j + 1] \in Level[j])
      OBVIOUS
  <2>2. ASSUME (j + 1) + 1 \in 1..Len(ts) PROVE ts[(j + 1) + 1] \in Level[j + 1]
    <3>1. j + 1 \in 1..(Len(ts) - 1) /\ j + 1 \in 1..MaxDepth /\ j + 1 \in 1..Len(ts)
        BY <1>0, <2>1, <2>2
    <3>2. PICK p \in heap[ts[j + 1]] : p[2][1] = "tab" /\ p[2][2] = ts[(j + 1) + 1]
        BY <1>0, <3>1
    <3>3. ts[j + 1] \in Level[j]
        BY <2>1, <3>1
    <3>4. ts[(j + 1) + 1] \in Tables(Level[j])
        BY <3>2, <3>3, TablesAre
    <3>5. Level[j + 1] = Tables(Level[j])
      <4>1. Level[j + 1] = Tables(Level[(j + 1) - 1]) /\ (j + 1) - 1 = j
          BY <2>1, <3>1, LevelIs
      <4>2. QED
          BY <4>1
    <3>6. QED
        BY <3>4, <3>5
  <2>3. QED
      BY <2>1, <2>2
<1>3. T \in SUBSET Nat
    OBVIOUS
<1> HIDE DEF T
<1>4. T = Nat
    BY <1>1, <1>2, <1>3, Induct
<1>5. ASSUME NEW k \in 1..Len(ts) PROVE ts[k] \in Level[k - 1]
  <2>1. k - 1 \in T /\ (k - 1) + 1 = k
      BY <1>0, <1>4
  <2>2. QED
      BY <2>1 DEF T
<1>6. QED
    BY <1>5

(* The tables on the levels are in a family that the passed one is in. *)
LEMMA FamilyLevels ==
    ASSUME NEW G, Family(G), Root \in G[MaxDepth]
    PROVE  \A n \in 0..MaxDepth : Level[n] \subseteq G[MaxDepth - n]
<1> DEFINE T == {n \in Nat : n <= MaxDepth => Level[n] \subseteq G[MaxDepth - n]}
<1>0. MaxDepth \in Nat
    BY TextAssumption
<1>1. 0 \in T
    BY <1>0, LevelIs
<1>2. ASSUME NEW n \in T PROVE n + 1 \in T
  <2>1. n \in Nat /\ (n <= MaxDepth => Level[n] \subseteq G[MaxDepth - n])
      OBVIOUS
  <2>2. ASSUME n + 1 <= MaxDepth, NEW x \in Level[n + 1] PROVE x \in G[MaxDepth - (n + 1)]
    <3>1. n + 1 \in 1..MaxDepth /\ (n + 1) - 1 = n /\ n <= MaxDepth
        BY <1>0, <2>1, <2>2
    <3>2. Level[n + 1] = Tables(Level[n])
      <4>1. Level[n + 1] = Tables(Level[(n + 1) - 1])
          BY <3>1, LevelIs
      <4>2. QED
          BY <3>1, <4>1
    <3>3. PICK i \in Level[n] : \E p \in heap[i] : p[2][1] = "tab" /\ p[2][2] = x
        BY <2>2, <3>2, TablesAre
    <3>4. /\ i \in G[MaxDepth - n] /\ MaxDepth - n \in 1..MaxDepth
          /\ (MaxDepth - n) - 1 = MaxDepth - (n + 1)
        BY <1>0, <2>1, <2>2, <3>1
    <3>5. x \in G[(MaxDepth - n) - 1]
        BY <3>3, <3>4 DEF Family
    <3>6. QED
        BY <3>4, <3>5
  <2>3. n + 1 <= MaxDepth => Level[n + 1] \subseteq G[MaxDepth - (n + 1)]
      BY <2>2
  <2>4. QED
      BY <2>1, <2>3
<1>3. T \in SUBSET Nat
    OBVIOUS
<1> HIDE DEF T
<1>4. T = Nat
    BY <1>1, <1>2, <1>3, Induct
<1>5. ASSUME NEW n \in 0..MaxDepth PROVE Level[n] \subseteq G[MaxDepth - n]
  <2>1. n \in T /\ n <= MaxDepth
      BY <1>0, <1>4
  <2>2. QED
      BY <2>1 DEF T
<1>6. QED
    BY <1>5

LEMMA CauseIs == TextInv => RefusedForCause
<1> SUFFICES ASSUME TextInv, outcome # "writing"
    PROVE  outcome = "ok" <=>
              /\ Level[MaxDepth] = {}
              /\ \A i \in Within : \A p \in heap[i] : HasText(p)
    BY DEF RefusedForCause
<1>0. MaxDepth \in Nat /\ MaxDepth # 0 /\ outcome \in {"ok", "failed"}
    BY TextAssumption DEF TextInv, TextTypeOK
<1>1. ASSUME outcome = "ok"
      PROVE  /\ Level[MaxDepth] = {}
             /\ \A i \in Within : \A p \in heap[i] : HasText(p)
  <2>1. PICK G : Family(G) /\ Root \in G[MaxDepth]
      BY <1>1 DEF TextInv, CauseInv
  <2>2. \A n \in 0..MaxDepth : Level[n] \subseteq G[MaxDepth - n]
      BY <2>1, FamilyLevels
  <2>3. Level[MaxDepth] = {}
    <3>1. MaxDepth \in 0..MaxDepth /\ MaxDepth - MaxDepth = 0
        BY <1>0
    <3>2. Level[MaxDepth] \subseteq G[0]
        BY <2>2, <3>1
    <3>3. QED
        BY <2>1, <3>2 DEF Family
  <2>4. ASSUME NEW i \in Within, NEW p \in heap[i] PROVE HasText(p)
    <3>1. PICK n \in 0..(MaxDepth - 1) : i \in Level[n]
        BY DEF Within
    <3>2. n \in 0..MaxDepth /\ MaxDepth - n \in 1..MaxDepth
        BY <1>0
    <3>3. i \in G[MaxDepth - n]
        BY <2>2, <3>1, <3>2
    <3>4. QED
        BY <2>1, <3>2, <3>3 DEF Family
  <2>5. QED
      BY <2>3, <2>4
<1>2. ASSUME outcome = "failed"
      PROVE  ~ /\ Level[MaxDepth] = {}
               /\ \A i \in Within : \A p \in heap[i] : HasText(p)
  <2>1. PICK ts : Refused(ts)
      BY <1>2 DEF TextInv, CauseInv
  <2>2. PICK n : n = Len(ts)
      OBVIOUS
  <2>3. Path(ts) /\ n \in Nat /\ n # 0
      BY <2>1, <2>2 DEF Refused, Path
  <2>4. n <= MaxDepth + 1
      BY <1>0, <2>1, <2>2, <2>3 DEF Refused
  <2>5. ts[n] \in Level[n - 1]
    <3>1. n \in 1..n
        BY <2>3
    <3>2. QED
        BY <2>2, <2>3, <2>4, <3>1, PathLevels
  <2>6. CASE n = MaxDepth + 1
    <3>1. n - 1 = MaxDepth
        BY <1>0, <2>6
    <3>2. QED
        BY <2>5, <3>1
  <2>7. CASE n <= MaxDepth /\ \E p \in heap[ts[n]] : ~HasText(p)
    <3>1. n - 1 \in 0..(MaxDepth - 1)
        BY <1>0, <2>3, <2>7
    <3>2. ts[n] \in Within
        BY <2>5, <3>1 DEF Within
    <3>3. QED
        BY <2>7, <3>2
  <2>8. QED
      BY <2>1, <2>2, <2>6, <2>7 DEF Refused
<1>3. QED
    BY <1>0, <1>1, <1>2

-----------------------------------------------------------------------------
(* Contents is a recursive function; it is what its definition says. *)

Nothing == <<"tab", {}>>
Entries(D, c) == {Arrived(p, c) : p \in {q \in D : q[2][1] # "inf"}}

ContentsTo(C, k) ==
    C = [n \in 0..k |-> [i \in Id |->
            IF n = 0 THEN Nothing ELSE TableOf(heap[i], C[n - 1])]]

LEMMA ContentsStep ==
    ASSUME NEW k \in Nat, NEW C, ContentsTo(C, k) PROVE \E E : ContentsTo(E, k + 1)
<1>1. PICK E : E = [n \in 0..(k + 1) |->
                      IF n <= k THEN C[n]
                      ELSE [i \in Id |-> TableOf(heap[i], C[n - 1])]]
    OBVIOUS
<1>2. ASSUME NEW n \in 0..(k + 1)
      PROVE  E[n] = [i \in Id |-> IF n = 0 THEN Nothing ELSE TableOf(heap[i], E[n - 1])]
  <2>1. CASE n <= k
    <3>1. n \in 0..k
        BY <2>1
    <3>2. E[n] = C[n]
        BY <1>1, <2>1
    <3>3. C[n] = [i \in Id |-> IF n = 0 THEN Nothing ELSE TableOf(heap[i], C[n - 1])]
        BY <3>1 DEF ContentsTo
    <3>4. n # 0 => E[n - 1] = C[n - 1]
      <4>1. n # 0 => n - 1 \in 0..(k + 1) /\ n - 1 <= k
          BY <2>1
      <4>2. QED
          BY <1>1, <4>1
    <3>5. QED
      <4>1. CASE n = 0
          BY <3>2, <3>3, <4>1
      <4>2. CASE n # 0
          BY <3>2, <3>3, <3>4, <4>2
      <4>3. QED
          BY <4>1, <4>2
  <2>2. CASE ~(n <= k)
    <3>1. n # 0 /\ n - 1 \in 0..(k + 1) /\ n - 1 <= k
        BY <2>2
    <3>2. E[n - 1] = C[n - 1]
        BY <1>1, <3>1
    <3>3. E[n] = [i \in Id |-> TableOf(heap[i], C[n - 1])]
        BY <1>1, <2>2
    <3>4. QED
        BY <3>1, <3>2, <3>3
  <2>3. QED
      BY <2>1, <2>2
<1>3. E = [n \in 0..(k + 1) |-> E[n]]
    BY <1>1
<1>4. E = [n \in 0..(k + 1) |-> [i \in Id |->
             IF n = 0 THEN Nothing ELSE TableOf(heap[i], E[n - 1])]]
    BY ONLY <1>2, <1>3, Zenon
<1>5. QED
    BY <1>4 DEF ContentsTo

LEMMA ContentsExist == ASSUME NEW m \in Nat PROVE \E C : ContentsTo(C, m)
<1> DEFINE T == {k \in Nat : \E C : ContentsTo(C, k)}
<1>1. 0 \in T
  <2>1. PICK C : C = [n \in 0..0 |-> [i \in Id |-> Nothing]]
      OBVIOUS
  <2>2. \A n \in 0..0 : n = 0
      OBVIOUS
  <2>3. C = [n \in 0..0 |-> [i \in Id |->
               IF n = 0 THEN Nothing ELSE TableOf(heap[i], C[n - 1])]]
      BY ONLY <2>1, <2>2, Zenon
  <2>4. QED
      BY <2>3 DEF ContentsTo
<1>2. ASSUME NEW k \in T PROVE k + 1 \in T
  <2>1. PICK C : ContentsTo(C, k)
      OBVIOUS
  <2>2. k \in Nat /\ k + 1 \in Nat
      OBVIOUS
  <2>3. \E E : ContentsTo(E, k + 1)
      BY <2>1, <2>2, ContentsStep
  <2>4. QED
      BY <2>2, <2>3
<1>3. T \in SUBSET Nat
    OBVIOUS
<1> HIDE DEF T
<1>4. T = Nat
    BY <1>1, <1>2, <1>3, Induct
<1>5. QED
    BY <1>4 DEF T

LEMMA ContentsIs == ContentsTo(Contents, MaxDepth)
<1>1. MaxDepth \in Nat
    BY TextAssumption
<1>2. Contents = CHOOSE C : ContentsTo(C, MaxDepth)
    BY DEF Contents, ContentsTo, Nothing
<1>3. QED
    BY <1>1, <1>2, ContentsExist

LEMMA ContentsSame ==
    ASSUME NEW C, NEW E, ContentsTo(C, MaxDepth), ContentsTo(E, MaxDepth)
    PROVE  C[MaxDepth] = E[MaxDepth]
<1> DEFINE T == {k \in Nat : k <= MaxDepth => C[k] = E[k]}
<1>0. MaxDepth \in Nat
    BY TextAssumption
<1>a. ASSUME NEW n \in 0..MaxDepth
      PROVE  /\ C[n] = [i \in Id |-> IF n = 0 THEN Nothing ELSE TableOf(heap[i], C[n - 1])]
             /\ E[n] = [i \in Id |-> IF n = 0 THEN Nothing ELSE TableOf(heap[i], E[n - 1])]
    BY DEF ContentsTo
<1>1. 0 \in T
  <2>1. 0 \in 0..MaxDepth
      BY <1>0
  <2>2. C[0] = [i \in Id |-> Nothing] /\ E[0] = [i \in Id |-> Nothing]
      BY <1>a, <2>1
  <2>3. QED
      BY <2>2
<1>2. ASSUME NEW k \in T PROVE k + 1 \in T
  <2>1. k \in Nat /\ (k <= MaxDepth => C[k] = E[k])
      OBVIOUS
  <2>2. ASSUME k + 1 <= MaxDepth PROVE C[k + 1] = E[k + 1]
    <3>1. PICK n : n = k + 1
        OBVIOUS
    <3>2. n \in 0..MaxDepth /\ n # 0 /\ n - 1 = k /\ k <= MaxDepth
        BY <1>0, <2>1, <2>2, <3>1
    <3>3. /\ C[n] = [i \in Id |-> TableOf(heap[i], C[k])]
          /\ E[n] = [i \in Id |-> TableOf(heap[i], E[k])]
        BY <1>a, <3>2
    <3>4. QED
        BY <2>1, <3>1, <3>2, <3>3
  <2>3. QED
      BY <2>1, <2>2
<1>3. T \in SUBSET Nat
    OBVIOUS
<1> HIDE DEF T
<1>4. T = Nat
    BY <1>1, <1>2, <1>3, Induct
<1>5. MaxDepth \in T
    BY <1>0, <1>4
<1>6. QED
    BY <1>0, <1>5 DEF T

LEMMA ContentsAt ==
    ASSUME NEW C, ContentsTo(C, MaxDepth), NEW m \in 0..(MaxDepth - 1), NEW i \in Id
    PROVE  C[m + 1][i] = TableOf(heap[i], C[m])
<1>0. MaxDepth \in Nat
    BY TextAssumption
<1>1. ASSUME NEW k \in 0..MaxDepth
      PROVE  C[k] = [j \in Id |-> IF k = 0 THEN Nothing ELSE TableOf(heap[j], C[k - 1])]
    BY DEF ContentsTo
<1>2. PICK k : k = m + 1
    OBVIOUS
<1>3. k \in 0..MaxDepth /\ k # 0 /\ k - 1 = m
    BY <1>0, <1>2
<1>4. C[k] = [j \in Id |-> TableOf(heap[j], C[m])]
    BY <1>1, <1>3
<1>5. QED
    BY <1>2, <1>4

LEMMA TableGood ==
    ASSUME NEW D, NEW c, \A p \in D : Loadable(p, c)
    PROVE  TableOf(D, c) = <<"tab", Entries(D, c)>>
  BY DEF TableOf, Entries

LEMMA TableBad ==
    ASSUME NEW D, NEW c, NEW p \in D, ~Loadable(p, c) PROVE TableOf(D, c) = Bad
  BY DEF TableOf

-----------------------------------------------------------------------------
(* Where the loader is when the writer is in the tables ts. *)

(* The pair of ts[k] whose table the writer is in is es[k]; the other pairs *)
(* that are not left are loaded.                                            *)
Loaded(ts, es, st, k) == {p \in heap[ts[k]] \ st[k] : k < Len(st) => p # es[k]}

LoadedAs(C, ts, es, st, fs, k) ==
    /\ \E a : /\ fs[k + 1] = Frame(a, Entries(Loaded(ts, es, st, k), C[MaxDepth - k]))
              /\ k < Len(st) => a = es[k][1]
    /\ \A p \in Loaded(ts, es, st, k) : Loadable(p, C[MaxDepth - k])

Loads(C, ts, es, st, fs) ==
    /\ Path(ts) /\ Len(ts) = Len(st) /\ Len(st) <= MaxDepth
    /\ ContentsTo(C, MaxDepth)
    /\ es \in [1..MaxDepth -> Value \X Value]
    /\ \A k \in 1..Len(st) : st[k] \subseteq heap[ts[k]]
    /\ \A k \in 1..(Len(st) - 1) :
          /\ es[k] \in heap[ts[k]] \ st[k]
          /\ es[k][2] = <<"tab", ts[k + 1]>> /\ es[k][1][1] \in {"int", "float", "str"}
    /\ \E S : fs \in Seq(S)
    /\ Len(fs) = Len(st) + 1 /\ fs[1] = Whole
    /\ \A k \in 1..Len(st) : LoadedAs(C, ts, es, st, fs, k)

(* The table does not arrive. *)
Lost(C) == ContentsTo(C, MaxDepth) /\ C[MaxDepth][Root] = Bad

LoadInv ==
    /\ outcome = "writing" =>
          \/ Frames(text) = <<>> /\ \E C : Lost(C)
          \/ \E C, ts, es : Loads(C, ts, es, stack, Frames(text))
    /\ outcome = "ok" => \E C : ContentsTo(C, MaxDepth) /\ Load(text) = C[MaxDepth][Root]

LEMMA ContentsToSame ==
    ASSUME UNCHANGED heap, NEW C PROVE ContentsTo(C, MaxDepth)' <=> ContentsTo(C, MaxDepth)
  BY DEF ContentsTo, TableOf

LEMMA LoadsNext ==
    ASSUME UNCHANGED heap, NEW C, NEW ts, NEW es,
           Loads(C, ts, es, stack', Frames(text'))
    PROVE  Loads(C, ts, es, stack, Frames(text))'
<1>1. Path(ts)' /\ ContentsTo(C, MaxDepth)'
    BY HeapSame, ContentsToSame DEF Loads
<1>2. ASSUME NEW k \in 1..Len(stack') PROVE LoadedAs(C, ts, es, stack, Frames(text), k)'
  <2>1. LoadedAs(C, ts, es, stack', Frames(text'), k)
      BY DEF Loads
  <2>2. QED
      BY <2>1 DEF LoadedAs, Loaded
<1>3. QED
    BY <1>1, <1>2 DEF Loads

(* The tables further out are not touched. *)
LEMMA LoadedKept ==
    ASSUME NEW C, NEW ts, NEW es, NEW st, NEW fs, NEW us, NEW ds, NEW rt, NEW gs, NEW k,
           LoadedAs(C, ts, es, st, fs, k), k < Len(st), k < Len(rt),
           gs[k + 1] = fs[k + 1], rt[k] = st[k], us[k] = ts[k], ds[k] = es[k]
    PROVE  LoadedAs(C, us, ds, rt, gs, k)
  BY DEF LoadedAs, Loaded

LEMMA EntriesMore ==
    ASSUME NEW D, NEW c, NEW p, p[2][1] # "inf"
    PROVE  Entries(D \cup {p}, c) = Entries(D, c) \cup {Arrived(p, c)}
  BY DEF Entries

LEMMA EntriesSame ==
    ASSUME NEW D, NEW c, NEW p, p[2][1] = "inf"
    PROVE  Entries(D \cup {p}, c) = Entries(D, c)
  BY DEF Entries

LEMMA LoadsLengths ==
    ASSUME NEW C, NEW ts, NEW es, NEW st, NEW fs, Loads(C, ts, es, st, fs),
           st \in Seq(Subtables)
    PROVE  Len(st) \in 1..MaxDepth /\ Len(ts) = Len(st) /\ ts \in Seq(Id)
           /\ Len(fs) = Len(st) + 1
<1>1. /\ ts \in Seq(Id) /\ Len(ts) # 0 /\ Len(ts) = Len(st) /\ Len(st) <= MaxDepth
      /\ Len(fs) = Len(st) + 1
    BY DEF Loads, Path
<1>2. Len(st) \in 1..MaxDepth
    BY <1>1, TextAssumption
<1>3. QED
    BY <1>1, <1>2

LEMMA LoadsTables ==
    ASSUME TextTypeOK, NEW C, NEW ts, NEW es, NEW st, NEW fs, Loads(C, ts, es, st, fs),
           NEW k \in 1..Len(st)
    PROVE  /\ ts[k] \in Id /\ st[k] \subseteq heap[ts[k]]
           /\ heap[ts[k]] \subseteq Value \X Value
           /\ \A p \in heap[ts[k]] : AsKey(p[1]) = p[1]
           /\ \A X : X \subseteq st[k] => X \in Subtables
<1>1. ts \in Seq(Id) /\ Len(ts) = Len(st) /\ st[k] \subseteq heap[ts[k]]
    BY DEF Loads, Path
<1>2. ts[k] \in Id
    BY <1>1
<1>3. /\ heap[ts[k]] \subseteq Value \X Value
      /\ \A p \in heap[ts[k]] : AsKey(p[1]) = p[1]
    BY <1>2, HeapTables
<1>4. \A X : X \subseteq heap[ts[k]] => X \in Subtables
    BY <1>2 DEF Subtables
<1>5. QED
    BY <1>1, <1>2, <1>3, <1>4

(* A pair that is written is loaded. *)
LEMMA LoadsPair ==
    ASSUME TextTypeOK, NEW C, NEW ts, NEW es, NEW st \in Seq(Subtables), NEW fs,
           Loads(C, ts, es, st, fs),
           NEW p \in st[Len(st)], p[1][1] \in {"int", "float", "str"},
           p[2][1] \notin {"tab", "neginf"}
    PROVE  Loads(C, ts, es, Append(SubSeq(st, 1, Len(st) - 1), st[Len(st)] \ {p}),
                 LoadToken(LoadToken(fs, <<"key", Written(p[1])>>), <<"val", Written(p[2])>>))
<1>1. PICK n, rt, gs, x :
         /\ n = Len(st) /\ x = st[n] \ {p} /\ rt = Append(SubSeq(st, 1, n - 1), x)
         /\ gs = LoadToken(LoadToken(fs, <<"key", Written(p[1])>>), <<"val", Written(p[2])>>)
    OBVIOUS
<1>2. /\ n \in 1..MaxDepth /\ n \in 1..n /\ n \in Nat /\ Len(fs) = n + 1 /\ p \in Value \X Value
      /\ p \in heap[ts[n]] /\ st[n] \subseteq heap[ts[n]] /\ AsKey(p[1]) = p[1]
      /\ x \in Subtables
  <2>1. n \in 1..MaxDepth /\ Len(fs) = n + 1
      BY <1>1, LoadsLengths
  <2>2. n \in 1..n /\ n \in Nat
      BY <2>1
  <2>3. /\ st[n] \subseteq heap[ts[n]] /\ heap[ts[n]] \subseteq Value \X Value /\ x \in Subtables
        /\ \A q \in heap[ts[n]] : AsKey(q[1]) = q[1]
      BY <1>1, <2>2, LoadsTables
  <2>4. QED
      BY <1>1, <2>1, <2>2, <2>3
<1>3. PICK S : fs \in Seq(S)
    BY DEF Loads
<1>4. /\ rt \in Seq(Subtables) /\ Len(rt) = n /\ rt[n] = x
      /\ \A k \in 1..(n - 1) : rt[k] = st[k]
    BY <1>1, <1>2, Replaced
<1>e. /\ \E a : fs[n + 1] = Frame(a, Entries(Loaded(ts, es, st, n), C[MaxDepth - n]))
      /\ \A q \in Loaded(ts, es, st, n) : Loadable(q, C[MaxDepth - n])
    BY <1>1, <1>2 DEF Loads, LoadedAs
<1>5. PICK a : fs[n + 1] = Frame(a, Entries(Loaded(ts, es, st, n), C[MaxDepth - n]))
    BY <1>e
<1>6. PICK c, ps, qs : /\ c = C[MaxDepth - n] /\ ps = Entries(Loaded(ts, es, st, n), c)
                       /\ qs = Entries(Loaded(ts, es, rt, n), c)
    OBVIOUS
<1>l. Loaded(ts, es, rt, n) = Loaded(ts, es, st, n) \cup {p}
    BY <1>1, <1>2, <1>4 DEF Loaded
<1>m. \A q \in Loaded(ts, es, rt, n) : Loadable(q, c)
  <2>1. Loadable(p, c)
      BY DEF Loadable
  <2>2. QED
      BY <1>6, <1>e, <1>l, <2>1
<1>7. qs = Having(p[1], ps, Got(p[2]))
  <2>1. p[2] \in Value
      BY <1>2
  <2>2. Got(p[2])[1] = "inf" <=> p[2][1] = "inf"
      BY <2>1, GotKind
  <2>3. CASE p[2][1] = "inf"
      BY <1>6, <1>l, <2>2, <2>3, EntriesSame DEF Having
  <2>4. CASE p[2][1] # "inf"
    <3>1. PICK g : g = Got(p[2])
        OBVIOUS
    <3>2. Arrived(p, c) = <<p[1], g>>
        BY <3>1 DEF Arrived, Got
    <3>3. Having(p[1], ps, g) = ps \cup {<<p[1], g>>}
        BY <2>2, <2>4, <3>1 DEF Having
    <3>4. PICK D : D = Loaded(ts, es, st, n)
        OBVIOUS
    <3>5. Entries(D \cup {p}, c) = Entries(D, c) \cup {Arrived(p, c)}
        BY <2>4, EntriesMore
    <3>6. qs = Entries(D \cup {p}, c) /\ ps = Entries(D, c)
        BY <1>6, <1>l, <3>4
    <3>7. QED
        BY <3>1, <3>2, <3>3, <3>5, <3>6
  <2>5. QED
      BY <2>3, <2>4
<1>8. gs = Append(SubSeq(fs, 1, Len(fs) - 1), Frame(p[1], qs))
  <2>1. /\ p[1] \in Value /\ p[2] \in Value /\ Len(fs) # 0
        /\ fs[Len(fs)] = Frame(a, ps)
      BY <1>2, <1>5, <1>6
  <2>2. PICK key, v, hs : /\ key = p[1] /\ v = p[2]
                          /\ hs = LoadToken(fs, <<"key", Written(key)>>)
      OBVIOUS
  <2>3. hs = Append(SubSeq(fs, 1, Len(fs) - 1), Frame(key, ps))
    <3>1. key \in Value /\ AsKey(key) = key /\ key[1] \in {"int", "float", "str"}
        BY <1>2, <2>1, <2>2
    <3>2. QED
        BY ONLY <1>3, <2>1, <2>2, <3>1, ReadKey
  <2>4. /\ hs[Len(hs)] = Frame(key, ps) /\ hs # <<>>
        /\ SubSeq(hs, 1, Len(hs) - 1) = SubSeq(fs, 1, Len(fs) - 1)
    <3>1. /\ hs[Len(fs)] = Frame(key, ps) /\ Len(hs) = Len(fs)
          /\ SubSeq(hs, 1, Len(hs) - 1) = SubSeq(fs, 1, Len(fs) - 1)
        BY <1>3, <2>1, <2>3, Topped
    <3>2. QED
        BY <2>1, <3>1
  <2>5. LoadToken(hs, <<"val", Written(v)>>)
           = Append(SubSeq(hs, 1, Len(hs) - 1), Frame(key, qs))
    <3>1. /\ v \in Value /\ v[1] # "neginf" /\ qs = Having(key, ps, Got(v))
          /\ hs # <<>> /\ hs[Len(hs)] = Frame(key, ps)
        BY <1>7, <2>1, <2>2, <2>4
    <3>2. LoadToken(hs, <<"val", Written(v)>>)
             = Append(SubSeq(hs, 1, Len(hs) - 1), Frame(key, Having(key, ps, Got(v))))
        BY ONLY <3>1, ReadVal
    <3>3. QED
        BY <3>1, <3>2
  <2>6. QED
      BY <1>1, <2>2, <2>4, <2>5
<1>9. /\ gs \in Seq(S \cup {Frame(p[1], qs)}) /\ Len(gs) = n + 1
      /\ \A k \in 1..n : gs[k] = fs[k]
      /\ gs[n + 1] = Frame(p[1], qs)
  <2>1. Len(fs) # 0 /\ Len(fs) - 1 = n
      BY <1>2
  <2>2. QED
      BY <1>2, <1>3, <1>8, <2>1, Topped
<1>10. ASSUME NEW k \in 1..n PROVE LoadedAs(C, ts, es, rt, gs, k)
  <2>1. CASE k = n
      BY <1>4, <1>6, <1>9, <1>2, <1>m, <2>1 DEF LoadedAs
  <2>2. CASE k # n
    <3>1. k < n /\ k \in 1..(n - 1) /\ k + 1 \in 1..n
        BY <1>2, <2>2
    <3>2. LoadedAs(C, ts, es, st, fs, k)
        BY <1>1 DEF Loads
    <3>3. gs[k + 1] = fs[k + 1] /\ rt[k] = st[k] /\ k < Len(st) /\ k < Len(rt)
        BY <1>1, <1>4, <1>9, <3>1
    <3>4. QED
        BY <3>2, <3>3, LoadedKept
  <2>3. QED
      BY <2>1, <2>2
<1>11. /\ \A k \in 1..n : rt[k] \subseteq heap[ts[k]]
       /\ \A k \in 1..(n - 1) : es[k] \in heap[ts[k]] \ rt[k]
  <2>1. \A k \in 1..n : st[k] \subseteq heap[ts[k]]
      BY <1>1 DEF Loads
  <2>2. \A k \in 1..(n - 1) : es[k] \in heap[ts[k]] \ st[k]
      BY <1>1 DEF Loads
  <2>3. \A k \in 1..n : k = n \/ k \in 1..(n - 1)
      BY <1>2
  <2>4. QED
      BY <1>1, <1>2, <1>4, <2>1, <2>2, <2>3
<1>12. gs[1] = Whole
    BY <1>2, <1>9 DEF Loads
<1>13. Loads(C, ts, es, rt, gs)
  <2>1. /\ Path(ts) /\ Len(ts) = n /\ n <= MaxDepth /\ ContentsTo(C, MaxDepth)
        /\ es \in [1..MaxDepth -> Value \X Value]
        /\ \A k \in 1..(n - 1) :
              es[k][2] = <<"tab", ts[k + 1]>> /\ es[k][1][1] \in {"int", "float", "str"}
      BY <1>1 DEF Loads
  <2>2. \E R : gs \in Seq(R)
      BY <1>9
  <2>3. QED
      BY ONLY <2>1, <2>2, <1>4, <1>9, <1>10, <1>11, <1>12 DEF Loads
<1>14. QED
    BY <1>1, <1>13

(* A table that is entered is opened, under the key it has. *)
LEMMA LoadsEnter ==
    ASSUME TextTypeOK, NEW C, NEW ts, NEW es, NEW st \in Seq(Subtables), NEW fs,
           Loads(C, ts, es, st, fs), Len(st) < MaxDepth,
           NEW p \in st[Len(st)], p[1][1] \in {"int", "float", "str"}, p[2][1] = "tab"
    PROVE  Loads(C, Append(ts, p[2][2]), [es EXCEPT ![Len(st)] = p],
                 SubSeq(st, 1, Len(st) - 1) \o <<st[Len(st)] \ {p}, heap[p[2][2]]>>,
                 LoadToken(LoadToken(fs, <<"key", Written(p[1])>>), <<"open", 0>>))
<1>1. PICK n, i, x, y, us, ds, rt, gs :
         /\ n = Len(st) /\ i = p[2][2] /\ x = st[n] \ {p} /\ y = heap[i]
         /\ us = Append(ts, i) /\ ds = [es EXCEPT ![n] = p]
         /\ rt = SubSeq(st, 1, n - 1) \o <<x, y>>
         /\ gs = LoadToken(LoadToken(fs, <<"key", Written(p[1])>>), <<"open", 0>>)
    OBVIOUS
<1>2. /\ n \in 1..MaxDepth /\ n + 1 \in 1..MaxDepth /\ n \in 1..n /\ n \in Nat /\ MaxDepth \in Nat
      /\ Len(fs) = n + 1 /\ Len(ts) = n /\ ts \in Seq(Id)
  <2>1. n \in 1..MaxDepth /\ Len(fs) = n + 1 /\ Len(ts) = n /\ ts \in Seq(Id)
      BY <1>1, LoadsLengths
  <2>2. QED
      BY <1>1, <2>1, TextAssumption
<1>3. /\ p \in Value \X Value /\ p \in heap[ts[n]] /\ st[n] \subseteq heap[ts[n]]
      /\ AsKey(p[1]) = p[1]
      /\ x \in Subtables /\ y \in Subtables /\ i \in Id /\ p[2] = <<"tab", i>>
  <2>1. /\ st[n] \subseteq heap[ts[n]] /\ heap[ts[n]] \subseteq Value \X Value /\ x \in Subtables
        /\ \A q \in heap[ts[n]] : AsKey(q[1]) = q[1]
      BY <1>1, <1>2, LoadsTables
  <2>2. p \in Value \X Value
      BY <1>1, <2>1
  <2>3. p[2] \in Value
      BY <2>2
  <2>4. i \in Id /\ p[2] = <<"tab", i>>
      BY <1>1, <2>3, ValueKinds
  <2>5. y \in Subtables
    <3>1. \A j \in Id : heap[j] \in Subtables
        BY DEF Subtables
    <3>2. QED
        BY <1>1, <2>4, <3>1
  <2>6. QED
      BY <1>1, <2>1, <2>2, <2>4, <2>5
<1>4. PICK S : fs \in Seq(S)
    BY DEF Loads
<1>5. PICK r : r = Append(SubSeq(st, 1, n - 1), x)
    OBVIOUS
<1>6. r \in Seq(Subtables) /\ Len(r) = n /\ r[n] = x /\ \A k \in 1..(n - 1) : r[k] = st[k]
    BY <1>1, <1>2, <1>3, <1>5, Replaced
<1>7. rt = Append(r, y)
  <2>1. PICK b : b = SubSeq(st, 1, n - 1)
      OBVIOUS
  <2>2. b \in Seq(Subtables)
      BY <1>1, <1>2, <2>1, Popped
  <2>3. b \o <<x, y>> = Append(Append(b, x), y)
      BY <1>3, <2>2, TwoMore
  <2>4. QED
      BY <1>1, <1>5, <2>1, <2>3
<1>8. /\ rt \in Seq(Subtables) /\ Len(rt) = n + 1 /\ rt[n + 1] = y /\ rt[n] = x
      /\ \A k \in 1..(n - 1) : rt[k] = st[k]
  <2>1. /\ rt \in Seq(Subtables) /\ Len(rt) = n + 1 /\ rt[n + 1] = y
        /\ \A k \in 1..n : rt[k] = r[k]
      BY ONLY <1>3, <1>6, <1>7
  <2>2. \A k \in 1..(n - 1) : k \in 1..n
      BY <1>2
  <2>3. QED
      BY <1>2, <1>6, <2>1, <2>2
<1>9. /\ us \in Seq(Id) /\ Len(us) = n + 1 /\ us[n + 1] = i
      /\ \A k \in 1..n : us[k] = ts[k]
  <2>1. us = Append(ts, i)
      BY <1>1
  <2>2. QED
      BY ONLY <1>2, <1>3, <2>1
<1>10. /\ ds \in [1..MaxDepth -> Value \X Value] /\ ds[n] = p
       /\ \A k \in 1..(n - 1) : ds[k] = es[k]
  <2>1. es \in [1..MaxDepth -> Value \X Value]
      BY DEF Loads
  <2>2. \A k \in 1..(n - 1) : k \in 1..MaxDepth /\ k # n
      BY <1>2
  <2>3. QED
      BY <1>1, <1>2, <1>3, <2>1, <2>2
<1>e. /\ \E a : fs[n + 1] = Frame(a, Entries(Loaded(ts, es, st, n), C[MaxDepth - n]))
      /\ \A q \in Loaded(ts, es, st, n) : Loadable(q, C[MaxDepth - n])
    BY <1>1, <1>2 DEF Loads, LoadedAs
<1>11. PICK a, ps : /\ ps = Entries(Loaded(ts, es, st, n), C[MaxDepth - n])
                    /\ fs[n + 1] = Frame(a, ps)
    BY <1>e
<1>12. PICK key, hs, e : /\ key = p[1] /\ hs = LoadToken(fs, <<"key", Written(key)>>)
                         /\ e = Frame(Bad, {})
    OBVIOUS
<1>13. hs = Append(SubSeq(fs, 1, Len(fs) - 1), Frame(key, ps))
  <2>1. key \in Value /\ Len(fs) # 0 /\ fs[Len(fs)] = Frame(a, ps)
      BY <1>2, <1>3, <1>11, <1>12
  <2>2. QED
      BY <1>3, <1>4, <1>12, <2>1, ReadKey
<1>14. PICK R : R = S \cup {Frame(key, ps)}
    OBVIOUS
<1>15. /\ hs \in Seq(R) /\ Len(hs) = n + 1 /\ hs[n + 1] = Frame(key, ps)
       /\ \A k \in 1..n : hs[k] = fs[k]
  <2>1. Len(fs) # 0 /\ Len(fs) - 1 = n
      BY <1>2
  <2>2. QED
      BY <1>2, <1>4, <1>13, <1>14, <2>1, Topped
<1>16. gs = Append(hs, e)
  <2>1. hs # <<>>
      BY <1>2, <1>15
  <2>2. QED
      BY <1>1, <1>12, <2>1, ReadOpen
<1>17. PICK Q : Q = R \cup {e}
    OBVIOUS
<1>18. /\ gs \in Seq(Q) /\ Len(gs) = n + 2 /\ gs[n + 2] = e /\ gs[n + 1] = Frame(key, ps)
       /\ \A k \in 1..n : gs[k] = fs[k]
  <2>1. hs \in Seq(Q) /\ e \in Q
      BY <1>15, <1>17
  <2>2. gs \in Seq(Q) /\ Len(gs) = (n + 1) + 1 /\ gs[(n + 1) + 1] = e
        /\ \A k \in 1..(n + 1) : gs[k] = hs[k]
      BY ONLY <2>1, <1>15, <1>16
  <2>3. (n + 1) + 1 = n + 2 /\ n + 1 \in 1..(n + 1) /\ \A k \in 1..n : k \in 1..(n + 1)
      BY <1>2
  <2>4. QED
      BY <1>15, <2>2, <2>3
<1>19. ASSUME NEW k \in 1..(n + 1) PROVE LoadedAs(C, us, ds, rt, gs, k)
  <2>1. CASE k = n + 1
    <3>1. Loaded(us, ds, rt, n + 1) = {}
        BY <1>1, <1>8, <1>9 DEF Loaded
    <3>2. Entries({}, C[MaxDepth - k]) = {}
        BY DEF Entries
    <3>3. (n + 1) + 1 = n + 2 /\ ~(n + 1 < Len(rt))
        BY <1>2, <1>8
    <3>4. QED
        BY <1>12, <1>18, <2>1, <3>1, <3>2, <3>3 DEF LoadedAs
  <2>2. CASE k = n
    <3>1. n < Len(rt) /\ ~(n < Len(st))
        BY <1>1, <1>2, <1>8
    <3>2. Loaded(us, ds, rt, n) = Loaded(ts, es, st, n)
        BY <1>1, <1>2, <1>3, <1>8, <1>9, <1>10, <3>1 DEF Loaded
    <3>3. gs[n + 1] = Frame(ds[n][1], Entries(Loaded(us, ds, rt, n), C[MaxDepth - n]))
        BY <1>10, <1>11, <1>12, <1>18, <3>2
    <3>4. QED
        BY <1>e, <2>2, <3>2, <3>3 DEF LoadedAs
  <2>3. CASE k \in 1..(n - 1)
    <3>1. k < Len(st) /\ k < Len(rt) /\ k + 1 \in 1..n /\ k \in 1..n
        BY <1>1, <1>2, <1>8, <2>3
    <3>2. LoadedAs(C, ts, es, st, fs, k)
        BY <1>1, <3>1 DEF Loads
    <3>3. gs[k + 1] = fs[k + 1] /\ rt[k] = st[k] /\ us[k] = ts[k] /\ ds[k] = es[k]
        BY <1>8, <1>9, <1>10, <1>18, <2>3, <3>1
    <3>4. QED
        BY <3>1, <3>2, <3>3, LoadedKept
  <2>4. k = n + 1 \/ k = n \/ k \in 1..(n - 1)
      BY <1>2
  <2>5. QED
      BY <2>1, <2>2, <2>3, <2>4
<1>20. ASSUME NEW k \in 1..(n + 1) PROVE rt[k] \subseteq heap[us[k]]
  <2>1. CASE k = n + 1
      BY <1>1, <1>8, <1>9, <2>1
  <2>2. CASE k = n
      BY <1>1, <1>2, <1>3, <1>8, <1>9, <2>2
  <2>3. CASE k \in 1..(n - 1)
    <3>1. k \in 1..n /\ st[k] \subseteq heap[ts[k]]
        BY <1>1, <1>2, <2>3 DEF Loads
    <3>2. QED
        BY <1>8, <1>9, <2>3, <3>1
  <2>4. k = n + 1 \/ k = n \/ k \in 1..(n - 1)
      BY <1>2
  <2>5. QED
      BY <2>1, <2>2, <2>3, <2>4
<1>21. ASSUME NEW k \in 1..n
       PROVE  /\ ds[k] \in heap[us[k]] \ rt[k]
              /\ ds[k][2] = <<"tab", us[k + 1]>> /\ ds[k][1][1] \in {"int", "float", "str"}
  <2>1. CASE k = n
      BY <1>1, <1>2, <1>3, <1>8, <1>9, <1>10, <2>1
  <2>2. CASE k \in 1..(n - 1)
    <3>1. k + 1 \in 1..n
        BY <1>2, <2>2
    <3>2. /\ es[k] \in heap[ts[k]] \ st[k]
          /\ es[k][2] = <<"tab", ts[k + 1]>> /\ es[k][1][1] \in {"int", "float", "str"}
        BY <1>1, <2>2 DEF Loads
    <3>3. QED
        BY <1>8, <1>9, <1>10, <2>2, <3>1, <3>2
  <2>3. k = n \/ k \in 1..(n - 1)
      BY <1>2
  <2>4. QED
      BY <2>1, <2>2, <2>3
<1>22. Path(us)
  <2>1. us[1] = Root /\ Len(us) # 0
    <3>1. 1 \in 1..n /\ ts[1] = Root
        BY <1>2 DEF Loads, Path
    <3>2. QED
        BY <1>2, <1>9, <3>1
  <2>2. ASSUME NEW k \in 1..n
        PROVE  \E q \in heap[us[k]] : q[2][1] = "tab" /\ q[2][2] = us[k + 1]
    <3>1. ds[k] \in heap[us[k]] /\ ds[k][2] = <<"tab", us[k + 1]>>
        BY <1>21
    <3>2. PICK q : q = ds[k]
        OBVIOUS
    <3>3. q \in heap[us[k]] /\ q[2][1] = "tab" /\ q[2][2] = us[k + 1]
        BY <3>1, <3>2
    <3>4. QED
        BY <3>3
  <2>3. Len(us) - 1 = n
      BY <1>2, <1>9
  <2>4. QED
      BY <1>9, <2>1, <2>2, <2>3 DEF Path
<1>23. gs[1] = Whole
    BY <1>2, <1>18 DEF Loads
<1>24. Loads(C, us, ds, rt, gs)
  <2>1. ContentsTo(C, MaxDepth)
      BY DEF Loads
  <2>2. \E X : gs \in Seq(X)
      BY <1>18
  <2>3. /\ Len(us) = Len(rt) /\ Len(rt) = n + 1 /\ n + 1 <= MaxDepth /\ (n + 1) - 1 = n
        /\ Len(gs) = Len(rt) + 1
      BY <1>2, <1>8, <1>9, <1>18
  <2>4. QED
      BY ONLY <2>1, <2>2, <2>3, <1>10, <1>19, <1>20, <1>21, <1>22, <1>23 DEF Loads
<1>25. QED
    BY <1>1, <1>24

(* A frame has all of a table. *)
Completed(f, v) == \E a, ps : f = Frame(a, ps) /\ v = <<"tab", ps>>

(* The whole text stands for one value. *)
Single(fs, v) == fs # <<>> /\ \E k : fs[1].pairs = {<<k, v>>}

(* The contents of a table that is left are complete. *)
LEMMA LoadsComplete ==
    ASSUME NEW C, NEW ts, NEW es, NEW st \in Seq(Subtables), NEW fs,
           Loads(C, ts, es, st, fs), st[Len(st)] = {}
    PROVE  Completed(fs[Len(st) + 1], C[MaxDepth - Len(st) + 1][ts[Len(st)]])
<1>1. PICK n, m : n = Len(st) /\ m = MaxDepth - n
    OBVIOUS
<1>2. n \in 1..n /\ m \in 0..(MaxDepth - 1) /\ ts[n] \in Id
  <2>1. n \in 1..MaxDepth /\ Len(ts) = n /\ ts \in Seq(Id)
      BY <1>1, LoadsLengths
  <2>2. n \in 1..n /\ ts[n] \in Id
      BY <2>1
  <2>3. QED
      BY <1>1, <2>1, <2>2, TextAssumption
<1>3. /\ \E a : fs[n + 1] = Frame(a, Entries(Loaded(ts, es, st, n), C[m]))
      /\ \A p \in Loaded(ts, es, st, n) : Loadable(p, C[m])
    BY <1>1, <1>2 DEF Loads, LoadedAs
<1>4. Loaded(ts, es, st, n) = heap[ts[n]]
    BY <1>1, <1>2 DEF Loaded
<1>5. C[m + 1][ts[n]] = TableOf(heap[ts[n]], C[m])
    BY <1>2, ContentsAt DEF Loads
<1>6. TableOf(heap[ts[n]], C[m]) = <<"tab", Entries(heap[ts[n]], C[m])>>
    BY <1>3, <1>4, TableGood
<1>7. QED
    BY <1>1, <1>3, <1>4, <1>5, <1>6 DEF Completed

(* If a pair cannot be loaded, neither can the tables it is in. *)
LEMMA FailsUp ==
    ASSUME NEW C, NEW ts, NEW es, NEW st \in Seq(Subtables), NEW fs,
           Loads(C, ts, es, st, fs), NEW p \in heap[ts[Len(st)]],
           ~Loadable(p, C[MaxDepth - Len(st)])
    PROVE  Lost(C)
<1>1. PICK n, m : n = Len(st) /\ m = MaxDepth - n
    OBVIOUS
<1>2. /\ n \in 1..MaxDepth /\ MaxDepth \in Nat /\ m \in 0..(MaxDepth - 1)
      /\ \A k \in 1..n : ts[k] \in Id
  <2>1. n \in 1..MaxDepth /\ Len(ts) = n /\ ts \in Seq(Id)
      BY <1>1, LoadsLengths
  <2>2. QED
      BY <1>1, <2>1, TextAssumption
<1>3. /\ ContentsTo(C, MaxDepth) /\ ts[1] = Root
      /\ \A k \in 1..(n - 1) : es[k] \in heap[ts[k]] /\ es[k][2] = <<"tab", ts[k + 1]>>
    BY <1>1 DEF Loads, Path
<1> DEFINE T == {j \in Nat : j < n => C[m + 1 + j][ts[n - j]] = Bad}
<1>4. 0 \in T
  <2>1. n \in 1..n /\ n - 0 = n /\ m + 1 + 0 = m + 1
      BY <1>2
  <2>2. C[m + 1][ts[n]] = TableOf(heap[ts[n]], C[m])
      BY <1>2, <1>3, <2>1, ContentsAt
  <2>3. TableOf(heap[ts[n]], C[m]) = Bad
      BY <1>1, TableBad
  <2>4. QED
      BY <2>1, <2>2, <2>3
<1>5. ASSUME NEW j \in T PROVE j + 1 \in T
  <2>1. j \in Nat /\ (j < n => C[m + 1 + j][ts[n - j]] = Bad)
      OBVIOUS
  <2>2. ASSUME j + 1 < n PROVE C[m + 1 + (j + 1)][ts[n - (j + 1)]] = Bad
    <3>1. PICK k, l : k = n - (j + 1) /\ l = m + 1 + j
        OBVIOUS
    <3>2. /\ k \in 1..(n - 1) /\ k \in 1..n /\ k + 1 = n - j /\ l \in 0..(MaxDepth - 1)
          /\ m + 1 + (j + 1) = l + 1 /\ j < n
      <4>1. PICK M : M = MaxDepth
          OBVIOUS
      <4>2. M \in Nat /\ n \in 1..M /\ m = M - n /\ j \in Nat /\ j + 1 < n
          BY <1>1, <1>2, <2>1, <2>2, <4>1
      <4>3. /\ k \in 1..(n - 1) /\ k \in 1..n /\ k + 1 = n - j /\ l \in 0..(M - 1)
            /\ m + 1 + (j + 1) = l + 1 /\ j < n
          BY ONLY <3>1, <4>2
      <4>4. QED
          BY <4>1, <4>3
    <3>3. PICK q : q = es[k]
        OBVIOUS
    <3>4. q \in heap[ts[k]] /\ q[2][1] = "tab" /\ q[2][2] = ts[n - j]
      <4>1. q \in heap[ts[k]] /\ q[2] = <<"tab", ts[k + 1]>>
          BY <1>3, <3>2, <3>3
      <4>2. QED
          BY <3>2, <4>1
    <3>5. ~Loadable(q, C[l])
        BY <2>1, <3>1, <3>2, <3>4 DEF Loadable
    <3>6. C[l + 1][ts[k]] = TableOf(heap[ts[k]], C[l])
        BY <1>2, <1>3, <3>2, ContentsAt
    <3>7. TableOf(heap[ts[k]], C[l]) = Bad
        BY <3>4, <3>5, TableBad
    <3>8. QED
        BY <3>1, <3>2, <3>6, <3>7
  <2>3. QED
      BY <2>1, <2>2
<1>6. T \in SUBSET Nat
    OBVIOUS
<1> HIDE DEF T
<1>7. T = Nat
    BY <1>4, <1>5, <1>6, Induct
<1>8. n - 1 \in T
    BY <1>2, <1>7
<1>9. n - 1 < n /\ m + 1 + (n - 1) = MaxDepth /\ n - (n - 1) = 1
    BY <1>1, <1>2
<1>10. C[m + 1 + (n - 1)][ts[n - (n - 1)]] = Bad
    BY <1>8, <1>9 DEF T
<1>11. QED
    BY <1>3, <1>9, <1>10 DEF Lost

(* It is then an entry of the table it is in. *)
LEMMA LoadsLeave ==
    ASSUME TextTypeOK, NEW C, NEW ts, NEW es, NEW st \in Seq(Subtables), NEW fs,
           Loads(C, ts, es, st, fs), Len(st) # 1, st[Len(st)] = {}
    PROVE  Loads(C, SubSeq(ts, 1, Len(ts) - 1), es, SubSeq(st, 1, Len(st) - 1),
                 LoadToken(fs, <<"close", 0>>))
<1>1. PICK n, m, us, rt, gs :
         /\ n = Len(st) /\ m = n - 1 /\ us = SubSeq(ts, 1, n - 1)
         /\ rt = SubSeq(st, 1, n - 1) /\ gs = LoadToken(fs, <<"close", 0>>)
    OBVIOUS
<1>2. /\ n \in 1..MaxDepth /\ m \in 1..MaxDepth /\ m \in 1..m /\ m \in Nat /\ n \in Nat /\ m + 1 = n
      /\ Len(fs) = m + 2 /\ Len(ts) = n /\ ts \in Seq(Id) /\ MaxDepth \in Nat
  <2>1. n \in 1..MaxDepth /\ Len(fs) = n + 1 /\ Len(ts) = n /\ ts \in Seq(Id)
      BY <1>1, LoadsLengths
  <2>2. QED
      BY <1>1, <2>1, TextAssumption
<1>3. PICK S : fs \in Seq(S)
    BY DEF Loads
<1>4. rt \in Seq(Subtables) /\ Len(rt) = m /\ \A k \in 1..m : rt[k] = st[k]
    BY <1>1, <1>2, Popped
<1>5. us \in Seq(Id) /\ Len(us) = m /\ \A k \in 1..m : us[k] = ts[k]
  <2>1. Len(ts) # 0
      BY <1>2
  <2>2. QED
      BY <1>1, <1>2, <2>1, Popped
<1>6. PICK a, ps : fs[m + 2] = Frame(a, ps) /\ C[MaxDepth - m][ts[n]] = <<"tab", ps>>
  <2>1. n + 1 = m + 2 /\ MaxDepth - n + 1 = MaxDepth - m
      BY <1>2
  <2>2. Completed(fs[n + 1], C[MaxDepth - n + 1][ts[n]])
      BY <1>1, LoadsComplete
  <2>3. QED
      BY <2>1, <2>2 DEF Completed
<1>7. PICK k, c, qs : /\ k = es[m][1] /\ c = C[MaxDepth - m]
                      /\ qs = Entries(Loaded(ts, es, st, m), c)
    OBVIOUS
<1>8. /\ fs[m + 1] = Frame(k, qs)
      /\ \A p \in Loaded(ts, es, st, m) : Loadable(p, c)
  <2>1. LoadedAs(C, ts, es, st, fs, m)
    <3>1. m \in 1..Len(st)
        BY <1>1, <1>2
    <3>2. QED
        BY <3>1 DEF Loads
  <2>2. m < Len(st)
      BY <1>1, <1>2
  <2>3. QED
      BY <1>7, <2>1, <2>2 DEF LoadedAs
<1>9. /\ es[m] \in heap[ts[m]] \ st[m] /\ es[m][2] = <<"tab", ts[n]>>
      /\ k[1] \in {"int", "float", "str"}
  <2>1. m \in 1..(Len(st) - 1)
      BY <1>1, <1>2
  <2>2. QED
      BY <1>2, <1>7, <2>1 DEF Loads
<1>10. PICK d : d = <<k, <<"tab", ps>>>>
    OBVIOUS
<1>11. gs = Append(SubSeq(fs, 1, m), Frame(k, qs \cup {d}))
  <2>2. LoadToken(fs, <<"close", 0>>)
           = Append(SubSeq(fs, 1, m), Frame(k, Having(k, qs, <<"tab", ps>>)))
      BY ONLY <1>2, <1>3, <1>6, <1>8, ReadClose
  <2>3. QED
      BY <1>1, <1>10, <2>2 DEF Having
<1>12. PICK x, R : x = Frame(k, qs \cup {d}) /\ R = S \cup {x}
    OBVIOUS
<1>13. /\ gs \in Seq(R) /\ Len(gs) = m + 1 /\ gs[m + 1] = x
       /\ \A j \in 1..m : gs[j] = fs[j]
  <2>1. PICK b : b = SubSeq(fs, 1, m)
      OBVIOUS
  <2>2. fs \in Seq(R) /\ x \in R
      BY <1>3, <1>12
  <2>3. b \in Seq(R) /\ Len(b) = m /\ \A j \in 1..m : b[j] = fs[j]
      BY ONLY <1>2, <2>1, <2>2
  <2>4. gs = Append(b, x)
      BY <1>11, <1>12, <2>1
  <2>5. /\ gs \in Seq(R) /\ Len(gs) = m + 1 /\ gs[m + 1] = x
        /\ \A j \in 1..m : gs[j] = b[j]
      BY ONLY <1>2, <2>2, <2>3, <2>4
  <2>6. QED
      BY <2>3, <2>5
<1>14. /\ qs \cup {d} = Entries(Loaded(us, es, rt, m), c)
       /\ \A p \in Loaded(us, es, rt, m) : Loadable(p, c)
  <2>1. PICK p : p = es[m]
      OBVIOUS
  <2>2. /\ p \in heap[ts[m]] \ st[m] /\ p[2] = <<"tab", ts[n]>> /\ p[1] = k
        /\ p[2][1] = "tab" /\ p[2][1] # "inf" /\ p[2][2] = ts[n]
      BY <1>7, <1>9, <2>1
  <2>3. rt[m] = st[m] /\ us[m] = ts[m] /\ m < Len(st) /\ ~(m < Len(rt))
      BY <1>1, <1>2, <1>4, <1>5
  <2>4. Loaded(us, es, rt, m) = Loaded(ts, es, st, m) \cup {p}
      BY <2>1, <2>2, <2>3 DEF Loaded
  <2>5. Arrived(p, c) = d
      BY <1>6, <1>7, <1>10, <2>2 DEF Arrived
  <2>6. Loadable(p, c)
    <3>1. c[p[2][2]] # Bad
        BY <1>6, <1>7, <2>2 DEF Bad
    <3>2. p[1][1] \notin {"inf", "neginf"} /\ p[2][1] # "neginf"
        BY <1>9, <2>2
    <3>3. QED
        BY <3>1, <3>2 DEF Loadable
  <2>7. qs \cup {d} = Entries(Loaded(us, es, rt, m), c)
      BY <1>7, <2>2, <2>4, <2>5, EntriesMore
  <2>8. QED
      BY <1>8, <2>4, <2>6, <2>7
<1>15. ASSUME NEW j \in 1..m PROVE LoadedAs(C, us, es, rt, gs, j)
  <2>1. CASE j = m
      BY <1>4, <1>7, <1>12, <1>13, <1>14, <2>1, <1>2 DEF LoadedAs
  <2>2. CASE j # m
    <3>1. j < Len(st) /\ j < Len(rt) /\ j + 1 \in 1..m /\ j \in 1..Len(st)
        BY <1>1, <1>2, <1>4, <2>2
    <3>2. LoadedAs(C, ts, es, st, fs, j)
        BY <3>1 DEF Loads
    <3>3. gs[j + 1] = fs[j + 1] /\ rt[j] = st[j] /\ us[j] = ts[j]
        BY <1>4, <1>5, <1>13, <3>1
    <3>4. QED
        BY <3>1, <3>2, <3>3, LoadedKept
  <2>3. QED
      BY <2>1, <2>2
<1>16. ASSUME NEW j \in 1..m PROVE rt[j] \subseteq heap[us[j]]
  <2>1. j \in 1..Len(st)
      BY <1>1, <1>2
  <2>2. st[j] \subseteq heap[ts[j]]
      BY <2>1 DEF Loads
  <2>3. QED
      BY <1>4, <1>5, <2>2
<1>17. ASSUME NEW j \in 1..(m - 1)
       PROVE  /\ es[j] \in heap[us[j]] \ rt[j]
              /\ es[j][2] = <<"tab", us[j + 1]>> /\ es[j][1][1] \in {"int", "float", "str"}
  <2>1. j \in 1..(Len(st) - 1) /\ j \in 1..m /\ j + 1 \in 1..m
      BY <1>1, <1>2
  <2>2. /\ es[j] \in heap[ts[j]] \ st[j]
        /\ es[j][2] = <<"tab", ts[j + 1]>> /\ es[j][1][1] \in {"int", "float", "str"}
      BY <2>1 DEF Loads
  <2>3. QED
      BY <1>4, <1>5, <2>1, <2>2
<1>18. Path(us)
  <2>1. us[1] = Root /\ Len(us) # 0
    <3>1. 1 \in 1..m /\ ts[1] = Root
        BY <1>2 DEF Loads, Path
    <3>2. QED
        BY <1>2, <1>5, <3>1
  <2>2. ASSUME NEW j \in 1..(m - 1)
        PROVE  \E q \in heap[us[j]] : q[2][1] = "tab" /\ q[2][2] = us[j + 1]
    <3>1. es[j] \in heap[us[j]] /\ es[j][2] = <<"tab", us[j + 1]>>
        BY <1>17
    <3>2. PICK q : q = es[j]
        OBVIOUS
    <3>3. q \in heap[us[j]] /\ q[2][1] = "tab" /\ q[2][2] = us[j + 1]
        BY <3>1, <3>2
    <3>4. QED
        BY <3>3
  <2>3. QED
      BY <1>5, <2>1, <2>2 DEF Path
<1>19. gs[1] = Whole
    BY <1>2, <1>13 DEF Loads
<1>20. Loads(C, us, es, rt, gs)
  <2>1. ContentsTo(C, MaxDepth) /\ es \in [1..MaxDepth -> Value \X Value]
      BY DEF Loads
  <2>2. \E X : gs \in Seq(X)
      BY <1>13
  <2>3. /\ Len(us) = Len(rt) /\ Len(rt) = m /\ m <= MaxDepth /\ Len(gs) = Len(rt) + 1
      BY <1>2, <1>4, <1>5, <1>13
  <2>4. QED
      BY ONLY <2>1, <2>2, <2>3, <1>15, <1>16, <1>17, <1>18, <1>19 DEF Loads
<1>21. QED
  <2>1. Len(ts) = n
      BY <1>2
  <2>2. QED
      BY <1>1, <1>20, <2>1

(* The first table, with everything in it, is what the text stands for. *)
LEMMA LoadsLast ==
    ASSUME TextTypeOK, NEW C, NEW ts, NEW es, NEW st \in Seq(Subtables), NEW fs,
           Loads(C, ts, es, st, fs), Len(st) = 1, st[Len(st)] = {}
    PROVE  Single(LoadToken(fs, <<"close", 0>>), C[MaxDepth][Root])
<1>1. PICK k : k = Whole.key
    OBVIOUS
<1>2. Len(fs) = 0 + 2 /\ fs[0 + 1] = Frame(k, {}) /\ ts[1] = Root
    BY <1>1 DEF Loads, Whole, Frame, Path
<1>3. PICK a, ps : fs[0 + 2] = Frame(a, ps) /\ C[MaxDepth][Root] = <<"tab", ps>>
  <2>1. MaxDepth - 1 + 1 = MaxDepth
      BY TextAssumption
  <2>2. PICK n : n = Len(st)
      OBVIOUS
  <2>3. Completed(fs[n + 1], C[MaxDepth - n + 1][ts[n]])
    <3>1. Loads(C, ts, es, st, fs) /\ st[Len(st)] = {} /\ st \in Seq(Subtables)
        OBVIOUS
    <3>2. QED
        BY ONLY <2>2, <3>1, LoadsComplete
  <2>4. n = 1 /\ 1 + 1 = 0 + 2
      BY <2>2
  <2>5. QED
      BY <1>2, <2>1, <2>3, <2>4 DEF Completed
<1>4. PICK S : fs \in Seq(S)
    BY DEF Loads
<1>5. PICK d, x : d = <<k, <<"tab", ps>>>> /\ x = Frame(k, {} \cup {d})
    OBVIOUS
<1>6. LoadToken(fs, <<"close", 0>>) = Append(SubSeq(fs, 1, 0), x)
  <2>1. PICK z \in Nat : z = 0
      OBVIOUS
  <2>2. /\ Len(fs) = z + 2 /\ fs[z + 2] = Frame(a, ps) /\ fs[z + 1] = Frame(k, {})
        /\ fs \in Seq(S)
      BY <1>2, <1>3, <1>4, <2>1
  <2>3. LoadToken(fs, <<"close", 0>>)
           = Append(SubSeq(fs, 1, z), Frame(k, Having(k, {}, <<"tab", ps>>)))
      BY ONLY <2>1, <2>2, ReadClose
  <2>4. QED
      BY <1>5, <2>1, <2>3 DEF Having
<1>7. Append(SubSeq(fs, 1, 0), x)[1] = x /\ Append(SubSeq(fs, 1, 0), x) # <<>>
    BY <1>4
<1>8. x.pairs = {d}
    BY <1>5, FrameIs
<1>9. QED
    BY <1>3, <1>5, <1>6, <1>7, <1>8 DEF Single

-----------------------------------------------------------------------------
(* The steps of the writer, as the loader sees them. *)

LEMMA FramesTwo ==
    ASSUME NEW s \in Seq(Token), NEW x \in Token, NEW y \in Token
    PROVE  Frames(s \o <<x, y>>) = LoadToken(LoadToken(Frames(s), x), y)
<1>1. PICK t : t = Append(s, x)
    OBVIOUS
<1>2. t \in Seq(Token) /\ s \o <<x, y>> = Append(t, y)
    BY <1>1, TwoMore
<1>3. Frames(t) = LoadToken(Frames(s), x)
    BY <1>1, LoadAppend
<1>4. Frames(Append(t, y)) = LoadToken(Frames(t), y)
    BY <1>2, LoadAppend
<1>5. QED
    BY <1>2, <1>3, <1>4

LEMMA ReadKeySome ==
    ASSUME NEW C, NEW ts, NEW es, NEW st, NEW fs, Loads(C, ts, es, st, fs), fs # <<>>,
           NEW v \in Value, AsKey(v) = v, v[1] \in {"int", "float", "str"}
    PROVE  LoadToken(fs, <<"key", Written(v)>>) # <<>>
<1>1. PICK f, o, x : f = fs[Len(fs)] /\ o = SubSeq(fs, 1, Len(fs) - 1) /\ x = Written(v)
    OBVIOUS
<1>2. LoadToken(fs, <<"key", x>>) = Keyed(o, f, AsKey(Atom(x)))
    BY <1>1 DEF LoadToken
<1>3. AsKey(Atom(x)) = v
    BY <1>1, KeyWritten
<1>4. PICK S : fs \in Seq(S)
    BY DEF Loads
<1>5. Len(fs) # 0
    BY <1>4
<1>6. o \in Seq(S)
    BY <1>1, <1>4, <1>5, Popped
<1>7. Keyed(o, f, v) = Append(o, [f EXCEPT !.key = v])
    BY DEF Keyed
<1>8. PICK g : g = [f EXCEPT !.key = v]
    OBVIOUS
<1>9. Append(o, g) # <<>>
  <2>1. PICK X, q : X = S \cup {g} /\ q = Append(o, g)
      OBVIOUS
  <2>2. o \in Seq(X) /\ g \in X
      BY <1>6, <2>1
  <2>3. q \in Seq(X) /\ Len(q) = Len(o) + 1 /\ Len(o) \in Nat
      BY <2>1, <2>2, Pushed
  <2>4. q # <<>>
      BY ONLY <2>3
  <2>5. QED
      BY <2>1, <2>4
<1>10. QED
    BY <1>1, <1>2, <1>3, <1>7, <1>8, <1>9

LEMMA TopPairs ==
    ASSUME TextInv, outcome = "writing", NEW p \in Top
    PROVE  p[1] \in Value /\ p[2] \in Value
<1>1. PICK ts, G : Walk(ts, G)
    BY DEF TextInv, CauseInv
<1>2. Top \subseteq Value \X Value
    BY <1>1, PathFacts DEF TextInv
<1>3. QED
    BY <1>2

LEMMA TopValues ==
    ASSUME TextTypeOK, NEW C, NEW ts, NEW es, NEW fs, Loads(C, ts, es, stack, fs),
           NEW p \in Top
    PROVE  /\ p[1] \in Value /\ p[2] \in Value /\ AsKey(p[1]) = p[1]
           /\ p \in heap[ts[Len(stack)]] /\ stack \in Seq(Subtables) /\ fs # <<>>
<1>1. PICK n : n = Len(stack)
    OBVIOUS
<1>2. stack \in Seq(Subtables)
    BY TextTypeIs
<1>3. n \in 1..MaxDepth /\ Len(fs) = n + 1
    BY <1>1, <1>2, LoadsLengths
<1>4. n \in 1..n /\ fs # <<>>
    BY <1>3
<1>5. /\ stack[n] \subseteq heap[ts[n]] /\ heap[ts[n]] \subseteq Value \X Value
      /\ \A q \in heap[ts[n]] : AsKey(q[1]) = q[1]
    BY <1>1, <1>4, LoadsTables
<1>6. p \in heap[ts[n]] /\ p \in Value \X Value
    BY <1>1, <1>5 DEF Top
<1>7. QED
    BY <1>1, <1>2, <1>4, <1>5, <1>6

(* With a pair that cannot be loaded, nothing is. *)
LEMMA LostIfBad ==
    ASSUME TextTypeOK, NEW C, NEW ts, NEW es, NEW fs, Loads(C, ts, es, stack, fs),
           NEW p \in Top, p[1][1] \in {"inf", "neginf"} \/ p[2][1] = "neginf"
    PROVE  Lost(C)
<1>1. p \in heap[ts[Len(stack)]] /\ stack \in Seq(Subtables)
    BY TopValues
<1>2. ~Loadable(p, C[MaxDepth - Len(stack)])
    BY DEF Loadable
<1>3. QED
    BY <1>1, <1>2, FailsUp

LEMMA LostNext ==
    ASSUME UNCHANGED heap, NEW C, Lost(C), outcome' = "writing", Frames(text') = <<>>
    PROVE  LoadInv'
<1>1. ContentsTo(C, MaxDepth)' /\ C[MaxDepth][Root] = Bad
    BY ContentsToSame DEF Lost
<1>2. Lost(C)'
    BY <1>1 DEF Lost
<1>3. Frames(text)' = <<>>
    OBVIOUS
<1>4. QED
    BY <1>2, <1>3 DEF LoadInv

LEMMA LoadKeepsPair == ASSUME TextInv, LoadInv, WritePair PROVE LoadInv'
<1>0. TextTypeOK
    BY DEF TextInv
<1>1. outcome = "writing" /\ UNCHANGED heap /\ outcome' = "writing"
    BY DEF WritePair
<1>2. PICK p \in Top :
         /\ GoodKey(p[1]) /\ GoodValue(p[2]) /\ p[2][1] # "tab"
         /\ text' = text \o <<<<"key", Written(p[1])>>, <<"val", Written(p[2])>>>>
         /\ stack' = Append(Below, Top \ {p})
    BY DEF WritePair
<1>3. PICK x, y, fs : /\ x = <<"key", Written(p[1])>> /\ y = <<"val", Written(p[2])>>
                      /\ fs = Frames(text)
    OBVIOUS
<1>4. p[1] \in Value /\ p[2] \in Value
    BY <1>1, TopPairs
<1>5. x \in Token /\ y \in Token /\ text \in Seq(Token)
    BY <1>0, <1>2, <1>3, <1>4, Tokens, TextTypeIs
<1>6. Frames(text') = LoadToken(LoadToken(fs, x), y)
    BY <1>2, <1>3, <1>5, FramesTwo
<1>7. ASSUME NEW C, Lost(C), fs = <<>> PROVE LoadInv'
  <2>1. Frames(text') = <<>>
      BY <1>6, <1>7, ReadNothing
  <2>2. QED
      BY <1>1, <1>7, <2>1, LostNext
<1>8. ASSUME NEW C, NEW ts, NEW es, Loads(C, ts, es, stack, fs) PROVE LoadInv'
  <2>1. fs # <<>> /\ AsKey(p[1]) = p[1]
      BY <1>0, <1>8, TopValues
  <2>2. CASE p[1][1] \in {"inf", "neginf"}
    <3>1. LoadToken(fs, x) = <<>>
        BY <1>3, <1>4, <2>1, <2>2, ReadKeyFails
    <3>2. Frames(text') = <<>>
        BY <1>6, <3>1, ReadNothing
    <3>3. Lost(C)
        BY <1>0, <1>8, <2>2, LostIfBad
    <3>4. QED
        BY <1>1, <3>2, <3>3, LostNext
  <2>3. CASE p[1][1] \notin {"inf", "neginf"}
    <3>1. p[1][1] \in {"int", "float", "str"}
        BY <1>2, <2>3 DEF GoodKey
    <3>2. CASE p[2][1] = "neginf"
      <4>1. LoadToken(fs, x) # <<>>
          BY <1>3, <1>4, <1>8, <2>1, <3>1, ReadKeySome
      <4>2. LoadToken(LoadToken(fs, x), y) = <<>>
          BY <1>3, <1>4, <3>2, <4>1, ReadValFails
      <4>3. Lost(C)
          BY <1>0, <1>8, <3>2, LostIfBad
      <4>4. QED
          BY <1>1, <1>6, <4>2, <4>3, LostNext
    <3>3. CASE p[2][1] # "neginf"
      <4>1. PICK st : st = stack
          OBVIOUS
      <4>2. /\ st \in Seq(Subtables) /\ Loads(C, ts, es, st, fs) /\ p \in st[Len(st)]
            /\ p[2][1] \notin {"tab", "neginf"}
          BY <1>0, <1>2, <1>8, <3>3, <4>1, TextTypeIs DEF Top
      <4>3. Loads(C, ts, es, Append(SubSeq(st, 1, Len(st) - 1), st[Len(st)] \ {p}),
                  LoadToken(LoadToken(fs, <<"key", Written(p[1])>>),
                            <<"val", Written(p[2])>>))
          BY <1>0, <3>1, <4>2, LoadsPair
      <4>4. Loads(C, ts, es, stack', Frames(text'))
          BY <1>2, <1>3, <1>6, <4>1, <4>3 DEF Below, Top
      <4>5. Loads(C, ts, es, stack, Frames(text))'
          BY <1>1, <4>4, LoadsNext
      <4>6. QED
          BY <1>1, <4>5 DEF LoadInv
    <3>4. QED
        BY <3>2, <3>3
  <2>4. QED
      BY <2>2, <2>3
<1>9. QED
    BY <1>1, <1>3, <1>7, <1>8 DEF LoadInv

LEMMA LoadKeepsEnter == ASSUME TextInv, LoadInv, EnterTable PROVE LoadInv'
<1>0. TextTypeOK
    BY DEF TextInv
<1>1. outcome = "writing" /\ UNCHANGED heap /\ outcome' = "writing"
    BY DEF EnterTable
<1>2. PICK p \in Top :
         /\ GoodKey(p[1]) /\ p[2][1] = "tab" /\ ~TooDeep(Len(stack))
         /\ text' = text \o <<<<"key", Written(p[1])>>, <<"open", 0>>>>
         /\ stack' = Below \o <<Top \ {p}, heap[p[2][2]]>>
    BY DEF EnterTable
<1>3. PICK x, y, fs : /\ x = <<"key", Written(p[1])>> /\ y = <<"open", 0>>
                      /\ fs = Frames(text)
    OBVIOUS
<1>4. p[1] \in Value /\ p[2] \in Value
    BY <1>1, TopPairs
<1>5. x \in Token /\ y \in Token /\ text \in Seq(Token)
    BY <1>0, <1>2, <1>3, <1>4, Tokens, TextTypeIs
<1>6. Frames(text') = LoadToken(LoadToken(fs, x), y)
    BY <1>2, <1>3, <1>5, FramesTwo
<1>7. ASSUME NEW C, Lost(C), fs = <<>> PROVE LoadInv'
  <2>1. Frames(text') = <<>>
      BY <1>6, <1>7, ReadNothing
  <2>2. QED
      BY <1>1, <1>7, <2>1, LostNext
<1>8. ASSUME NEW C, NEW ts, NEW es, Loads(C, ts, es, stack, fs) PROVE LoadInv'
  <2>1. fs # <<>> /\ AsKey(p[1]) = p[1]
      BY <1>0, <1>8, TopValues
  <2>2. CASE p[1][1] \in {"inf", "neginf"}
    <3>1. LoadToken(fs, x) = <<>>
        BY <1>3, <1>4, <2>1, <2>2, ReadKeyFails
    <3>2. Frames(text') = <<>>
        BY <1>6, <3>1, ReadNothing
    <3>3. Lost(C)
        BY <1>0, <1>8, <2>2, LostIfBad
    <3>4. QED
        BY <1>1, <3>2, <3>3, LostNext
  <2>3. CASE p[1][1] \notin {"inf", "neginf"}
    <3>1. p[1][1] \in {"int", "float", "str"}
        BY <1>2, <2>3 DEF GoodKey
    <3>2. PICK st : st = stack
        OBVIOUS
    <3>3. /\ st \in Seq(Subtables) /\ Loads(C, ts, es, st, fs) /\ p \in st[Len(st)]
          /\ Len(st) < MaxDepth
      <4>1. stack \in Seq(Subtables)
          BY <1>0, TextTypeIs
      <4>2. Len(stack) \in 1..MaxDepth
          BY <1>0, <1>8, <4>1, LoadsLengths
      <4>3. QED
          BY <1>2, <1>8, <3>2, <4>1, <4>2, TextAssumption DEF Top, TooDeep
    <3>4. Loads(C, Append(ts, p[2][2]), [es EXCEPT ![Len(st)] = p],
                SubSeq(st, 1, Len(st) - 1) \o <<st[Len(st)] \ {p}, heap[p[2][2]]>>,
                LoadToken(LoadToken(fs, <<"key", Written(p[1])>>), <<"open", 0>>))
        BY <1>0, <1>2, <3>1, <3>3, LoadsEnter
    <3>5. PICK us, ds : us = Append(ts, p[2][2]) /\ ds = [es EXCEPT ![Len(st)] = p]
        OBVIOUS
    <3>6. Loads(C, us, ds, stack', Frames(text'))
        BY <1>2, <1>3, <1>6, <3>2, <3>4, <3>5 DEF Below, Top
    <3>7. Loads(C, us, ds, stack, Frames(text))'
        BY <1>1, <3>6, LoadsNext
    <3>8. QED
        BY <1>1, <3>7 DEF LoadInv
  <2>4. QED
      BY <2>2, <2>3
<1>9. QED
    BY <1>1, <1>3, <1>7, <1>8 DEF LoadInv

LEMMA LoadKeepsLeave == ASSUME TextInv, LoadInv, LeaveTable PROVE LoadInv'
<1>0. TextTypeOK
    BY DEF TextInv
<1>1. /\ outcome = "writing" /\ UNCHANGED heap /\ Top = {}
      /\ text' = Append(text, <<"close", 0>>) /\ stack' = Below
      /\ outcome' = IF Len(stack) = 1 THEN "ok" ELSE "writing"
    BY DEF LeaveTable
<1>2. text \in Seq(Token) /\ stack \in Seq(Subtables)
    BY <1>0, TextTypeIs
<1>3. PICK st, fs : st = stack /\ fs = Frames(text)
    OBVIOUS
<1>4. Frames(text') = LoadToken(fs, <<"close", 0>>)
    BY <1>1, <1>2, <1>3, Tokens, LoadAppend
<1>5. ASSUME NEW C, Lost(C), fs = <<>> PROVE LoadInv'
  <2>1. Frames(text') = <<>>
      BY <1>4, <1>5, ReadNothing
  <2>2. CASE outcome' = "writing"
      BY <1>1, <1>5, <2>1, <2>2, LostNext
  <2>3. CASE outcome' = "ok"
    <3>1. ContentsTo(C, MaxDepth)' /\ C[MaxDepth][Root] = Bad
        BY <1>1, <1>5, ContentsToSame DEF Lost
    <3>2. Load(text') = Bad
        BY <2>1 DEF Load, Frames
    <3>3. QED
        BY <2>3, <3>1, <3>2 DEF LoadInv
  <2>4. QED
      BY <1>1, <2>2, <2>3
<1>6. ASSUME NEW C, NEW ts, NEW es, Loads(C, ts, es, stack, fs) PROVE LoadInv'
  <2>1. st \in Seq(Subtables) /\ Loads(C, ts, es, st, fs) /\ st[Len(st)] = {}
      BY <1>1, <1>2, <1>3, <1>6 DEF Top
  <2>2. CASE Len(stack) = 1
    <3>1. Len(st) = 1
        BY <1>3, <2>2
    <3>2. PICK gs, v : gs = Frames(text') /\ v = C[MaxDepth][Root]
        OBVIOUS
    <3>3. Single(gs, v)
        BY <1>0, <1>4, <2>1, <3>1, <3>2, LoadsLast
    <3>4. PICK q : q = CHOOSE p \in gs[1].pairs : TRUE
        OBVIOUS
    <3>5. Load(text') = q[2]
        BY <3>2, <3>3, <3>4 DEF Load, Frames, Single
    <3>6. \E k : q = <<k, v>>
      <4>1. PICK k : gs[1].pairs = {<<k, v>>}
          BY <3>3 DEF Single
      <4>2. q \in gs[1].pairs
          BY <3>4, <4>1
      <4>3. QED
          BY <4>1, <4>2
    <3>7. Load(text') = v
        BY <3>5, <3>6
    <3>8. ContentsTo(C, MaxDepth)'
        BY <1>1, <1>6, ContentsToSame DEF Loads
    <3>9. outcome' = "ok"
        BY <1>1, <2>2
    <3>10. QED
        BY <3>2, <3>7, <3>8, <3>9 DEF LoadInv
  <2>3. CASE Len(stack) # 1
    <3>1. Len(st) # 1 /\ outcome' = "writing"
        BY <1>1, <1>3, <2>3
    <3>2. PICK us : us = SubSeq(ts, 1, Len(ts) - 1)
        OBVIOUS
    <3>3. Loads(C, us, es, SubSeq(st, 1, Len(st) - 1), LoadToken(fs, <<"close", 0>>))
        BY <1>0, <2>1, <3>1, <3>2, LoadsLeave
    <3>4. Loads(C, us, es, stack', Frames(text'))
        BY <1>1, <1>3, <1>4, <3>3 DEF Below
    <3>5. Loads(C, us, es, stack, Frames(text))'
        BY <1>1, <3>4, LoadsNext
    <3>6. QED
        BY <3>1, <3>5 DEF LoadInv
  <2>4. QED
      BY <2>2, <2>3
<1>7. QED
    BY <1>1, <1>3, <1>5, <1>6 DEF LoadInv

LEMMA LoadBegins == ASSUME TextInit PROVE LoadInv
<1>1. /\ stack = <<heap[Root]>> /\ text = <<<<"open", 0>>>> /\ outcome = "writing"
    BY DEF TextInit
<1>2. PICK C : ContentsTo(C, MaxDepth)
    BY TextAssumption, ContentsExist
<1>3. PICK ts, v, es, e, f, fs :
         /\ ts = <<Root>> /\ v = <<"true", 0>> /\ es = [k \in 1..MaxDepth |-> <<v, v>>]
         /\ e = Frame(Bad, {}) /\ f = <<Whole>> /\ fs = Append(f, e)
    OBVIOUS
<1>4. ts \in Seq(Id) /\ Len(ts) = 1 /\ ts[1] = Root
    BY <1>3, TextAssumption
<1>5. Path(ts)
    BY <1>4 DEF Path
<1>6. es \in [1..MaxDepth -> Value \X Value]
  <2>1. v \in Value
      BY <1>3 DEF Value
  <2>2. QED
      BY <1>3, <2>1
<1>7. Frames(text) = fs
  <2>1. PICK s, x : s = <<>> /\ x = <<"open", 0>>
      OBVIOUS
  <2>2. s \in Seq(Token) /\ x \in Token /\ text = Append(s, x)
      BY <1>1, <2>1, Tokens
  <2>3. Frames(Append(s, x)) = LoadToken(Frames(s), x)
      BY <2>2, LoadAppend
  <2>4. Frames(s) = f
      BY <1>3, <2>1, LoadNothing
  <2>5. LoadToken(f, x) = fs
    <3>1. f # <<>>
        BY <1>3
    <3>2. QED
        BY <1>3, <2>1, <3>1, ReadOpen
  <2>6. QED
      BY <2>2, <2>3, <2>4, <2>5
<1>8. PICK S : S = {Whole, e}
    OBVIOUS
<1>9. fs \in Seq(S) /\ Len(fs) = 2 /\ fs[1] = Whole /\ fs[2] = e
  <2>1. f \in Seq(S) /\ Len(f) = 1 /\ f[1] = Whole /\ e \in S
      BY <1>3, <1>8
  <2>2. QED
      BY <1>3, <2>1
<1>10. Len(stack) = 1 /\ stack[1] = heap[Root]
    BY <1>1
<1>11. LoadedAs(C, ts, es, stack, fs, 1)
  <2>1. Loaded(ts, es, stack, 1) = {}
      BY <1>4, <1>10 DEF Loaded
  <2>2. Entries({}, C[MaxDepth - 1]) = {}
      BY DEF Entries
  <2>3. 1 + 1 = 2 /\ ~(1 < Len(stack))
      BY <1>10
  <2>4. QED
      BY <1>3, <1>9, <2>1, <2>2, <2>3 DEF LoadedAs
<1>12. Loads(C, ts, es, stack, fs)
  <2>1. \A k \in 1..Len(stack) : k = 1
      BY <1>10
  <2>2. \A k \in 1..(Len(stack) - 1) : FALSE
      BY <1>10
  <2>3. Len(ts) = Len(stack) /\ Len(stack) <= MaxDepth /\ Len(fs) = Len(stack) + 1
      BY <1>4, <1>9, <1>10, TextAssumption
  <2>4. \E X : fs \in Seq(X)
      BY <1>9
  <2>5. stack[1] \subseteq heap[ts[1]]
      BY <1>4, <1>10
  <2>6. QED
      BY ONLY <1>2, <1>5, <1>6, <1>9, <1>11, <2>1, <2>2, <2>3, <2>4, <2>5 DEF Loads
<1>13. QED
    BY <1>1, <1>7, <1>12 DEF LoadInv

LEMMA LoadSame == ASSUME LoadInv, UNCHANGED textVars PROVE LoadInv'
<1>1. UNCHANGED heap /\ outcome' = outcome /\ stack' = stack /\ text' = text
    BY DEF textVars
<1>2. ASSUME NEW C, NEW ts, NEW es, Loads(C, ts, es, stack, Frames(text))
      PROVE  Loads(C, ts, es, stack, Frames(text))'
  <2>1. Loads(C, ts, es, stack', Frames(text'))
      BY <1>1, <1>2
  <2>2. QED
      BY <1>1, <2>1, LoadsNext
<1>3. CASE outcome = "writing"
  <2>1. ASSUME NEW C, Lost(C), Frames(text) = <<>> PROVE LoadInv'
      BY <1>1, <1>3, <2>1, LostNext
  <2>2. ASSUME NEW C, NEW ts, NEW es, Loads(C, ts, es, stack, Frames(text)) PROVE LoadInv'
    <3>1. Loads(C, ts, es, stack, Frames(text))'
        BY <1>2, <2>2
    <3>2. QED
        BY <1>1, <1>3, <3>1 DEF LoadInv
  <2>3. QED
      BY <1>3, <2>1, <2>2 DEF LoadInv
<1>4. CASE outcome = "ok"
  <2>1. PICK C : ContentsTo(C, MaxDepth) /\ Load(text) = C[MaxDepth][Root]
      BY <1>4 DEF LoadInv
  <2>2. ContentsTo(C, MaxDepth)'
      BY <1>1, <2>1, ContentsToSame
  <2>3. QED
      BY <1>1, <1>4, <2>1, <2>2 DEF LoadInv
<1>5. CASE outcome \notin {"writing", "ok"}
    BY <1>1, <1>5 DEF LoadInv
<1>6. QED
    BY <1>3, <1>4, <1>5

LEMMA LoadKeepsFail == ASSUME Fail PROVE LoadInv'
  BY DEF Fail, LoadInv

LEMMA LoadInvNext == ASSUME TextInv, LoadInv, TextStep PROVE LoadInv'
  BY LoadKeepsPair, LoadKeepsEnter, LoadKeepsLeave, LoadKeepsFail DEF TextStep

(* What is loaded is what the property says. *)
LEMMA ReadsBackIs == LoadInv => ReadsBack
<1> SUFFICES ASSUME LoadInv, outcome = "ok" PROVE Load(text) = Contents[MaxDepth][Root]
    BY DEF ReadsBack
<1>1. PICK C : ContentsTo(C, MaxDepth) /\ Load(text) = C[MaxDepth][Root]
    BY DEF LoadInv
<1>2. C[MaxDepth] = Contents[MaxDepth]
    BY <1>1, ContentsIs, ContentsSame
<1>3. QED
    BY <1>1, <1>2

-----------------------------------------------------------------------------
(* Both calls.  A call leaves the other's variables as they began. *)

CallInv ==
    /\ call \in {"tcp_send", "rpc_send"}
    /\ ListInv /\ TextTypeOK
    /\ call = "rpc_send" => CauseInv /\ LoadInv
    /\ call = "tcp_send" => outcome = "writing"

LEMMA CallBegins == CallInit => CallInv
<1>1. ASSUME call = "tcp_send", ListInit, heap \in {CHOOSE h \in Heaps : TRUE},
             stack = <<>>, text = <<>>, outcome = "writing"
      PROVE  CallInv
  <2>1. heap \in Heaps
      BY <1>1, CallAssumption
  <2>2. DOMAIN heap = Id /\ \A i \in Id : IsTable(heap[i])
      BY <2>1, TextAssumption
  <2>3. <<>> \in Seq(Subtables) /\ Len(<<>>) <= MaxDepth /\ <<>> \in Seq(Token)
      BY TextAssumption
  <2>4. TextTypeOK
      BY <1>1, <2>2, <2>3, TextTypeIs
  <2>5. QED
      BY <1>1, <2>4, ListInvInit DEF CallInv
<1>2. ASSUME call = "rpc_send", TextInit, first = <<>>, list = <<>>, table = <<>>,
             edited = FALSE, sends = 0, refused = FALSE
      PROVE  CallInv
  <2>0. PICK e : e = <<>>
      OBVIOUS
  <2>1. e \in Seq(Item) /\ Len(e) = 0 /\ e = <<>>
      BY <2>0
  <2>2. DOMAIN e = {}
      BY <2>1
  <2>3. e = ToTable(e)
    <3>1. DOMAIN ToTable(e) = {}
        BY <2>1 DEF ToTable
    <3>2. e = [k \in {} |-> e[k]]
        BY <2>1, <2>2
    <3>3. ToTable(e) = [k \in {} |-> e[k]]
        BY <2>1 DEF ToTable
    <3>4. QED
        BY <3>2, <3>3
  <2>4. /\ first = e /\ list = e /\ table = e /\ edited \in BOOLEAN /\ refused \in BOOLEAN
        /\ sends \in Nat /\ sends = 0
      BY <1>2, <2>1
  <2>5. ListTypeOK
      BY <2>1, <2>2, <2>4 DEF ListTypeOK
  <2>6. Kept
      BY <2>1, <2>3, <2>4 DEF Kept
  <2>7. QED
      BY <1>2, <2>5, <2>6, TextBegins, LoadBegins DEF CallInv, TextInv, ListInv
<1>3. QED
    BY <1>1, <1>2 DEF CallInit

LEMMA TextSame == ASSUME TextInv, UNCHANGED textVars PROVE TextInv'
<1>1. UNCHANGED <<heap, stack, text, outcome>>
    BY DEF textVars
<1>2. TextTypeOK'
    BY <1>1, TextTypeIs, TextTypeIsNext DEF TextInv
<1>3. CauseInv'
  <2>1. \A ts, G : Walk(ts, G)' <=> Walk(ts, G)
      BY <1>1 DEF Walk, Path, Family, HasText
  <2>2. QED
      BY <1>1, <2>1, HeapSame DEF TextInv, CauseInv
<1>4. QED
    BY <1>2, <1>3 DEF TextInv

LEMMA TextInvNext == ASSUME TextInv, TextStep PROVE TextInv'
  BY PairKeeps, EnterKeeps, LeaveKeeps, FailKeeps DEF TextStep

LEMMA CallKeeps == CallInv /\ [CallNext]_callVars => CallInv'
<1> SUFFICES ASSUME CallInv, [CallNext]_callVars PROVE CallInv'
    OBVIOUS
<1>1. ASSUME UNCHANGED textVars PROVE TextTypeOK' /\ outcome' = outcome
  <2>1. UNCHANGED <<heap, stack, text, outcome>>
      BY <1>1 DEF textVars
  <2>2. QED
      BY <2>1, TextTypeIs, TextTypeIsNext DEF CallInv
<1>2. CASE call = "tcp_send" /\ ListStep /\ UNCHANGED <<call, textVars>>
  <2>1. ListInv'
      BY <1>2, ListInvNext DEF CallInv
  <2>2. QED
      BY <1>1, <1>2, <2>1 DEF CallInv
<1>3. CASE call = "rpc_send" /\ TextStep /\ UNCHANGED <<call, listVars>>
  <2>1. ListInv'
      BY <1>3, ListInvNext DEF CallInv
  <2>2. TextInv' /\ LoadInv'
      BY <1>3, TextInvNext, LoadInvNext DEF CallInv, TextInv
  <2>3. QED
      BY <1>3, <2>1, <2>2 DEF CallInv, TextInv
<1>4. CASE UNCHANGED callVars
  <2>1. UNCHANGED <<call, listVars, textVars>>
      BY <1>4 DEF callVars
  <2>2. ListInv'
      BY <2>1, ListInvNext DEF CallInv
  <2>3. ASSUME call = "rpc_send" PROVE TextInv' /\ LoadInv'
      BY <2>1, <2>3, TextSame, LoadSame DEF CallInv, TextInv
  <2>4. QED
      BY <1>1, <2>1, <2>2, <2>3 DEF CallInv, TextInv
<1>5. QED
    BY <1>2, <1>3, <1>4 DEF CallNext

(* Every reachable state is well typed: no list made from a table has a     *)
(* hole in it, the writer is never in more than MaxDepth tables, and it     *)
(* writes nothing but what stands for values (src/protogen/build.rs:588-640, *)
(* src/cable/src/protos.rs:24-78).                                          *)
THEOREM CallTypeCorrect == CallSpec => []CallTypeOK
<1>1. CallInv => CallTypeOK
    BY DEF CallInv, ListInv, CallTypeOK
<1>2. QED
    BY CallBegins, CallKeeps, <1>1, PTL DEF CallSpec

(* A list that is passed on as it came loses its last element each time it  *)
(* is sent, and nothing else: the indices the generated code gives start at *)
(* 0 and the length it asks Lua for does not (src/protogen/build.rs:588-595). *)
(* So AllItemsKept is false of every list that is not empty, and this is    *)
(* how much of it is lost.                                                  *)
THEOREM LosesTheLast == CallSpec => []ShrinksByOne
<1>1. CallInv => ShrinksByOne
    BY LastIsLost DEF CallInv
<1>2. QED
    BY CallBegins, CallKeeps, <1>1, PTL DEF CallSpec

(* Whatever a script does to its table, a list counted from 1 is refused,   *)
(* and of one counted from 0 the last element is the one not sent           *)
(* (src/protogen/build.rs:588-595).                                         *)
THEOREM FillerIsNeeded == CallSpec => []FillerNeeded
<1>1. FillerNeeded
  <2> SUFFICES ASSUME NEW n \in 0..(MaxLen + 1)
               PROVE  /\ DOMAIN table = 0..n => Borders(table) = {n}
                      /\ n > 0 /\ DOMAIN table = 1..n =>
                            \A b \in Borders(table) : Refuses(table, b)
      BY DEF FillerNeeded
  <2>1. n \in Nat
      BY ListAssumption
  <2>2. ASSUME DOMAIN table = 0..n PROVE Borders(table) = {n}
      BY <2>1, <2>2 DEF Borders
  <2>3. ASSUME n > 0, DOMAIN table = 1..n, NEW b \in Borders(table)
        PROVE  Refuses(table, b)
    <3>1. b \in 1..n
        BY <2>1, <2>3 DEF Borders
    <3>2. 0 \in 0..(b - 1) /\ 0 \notin DOMAIN table
        BY <2>1, <2>3, <3>1
    <3>3. QED
        BY <3>2 DEF Refuses
  <2>4. QED
      BY <2>2, <2>3
<1>2. QED
    BY <1>1, PTL

(* In whatever order its pairs come up, a table is refused if and only if a *)
(* key or value in it has no text or it goes more than MaxDepth levels deep, *)
(* as a table in itself does (src/cable/src/protos.rs:24-27, 48-72).        *)
THEOREM RefusedForCauseKept == CallSpec => []RefusedForCause
<1>1. CallInv => RefusedForCause
  <2>1. CallInv /\ call = "rpc_send" => RefusedForCause
      BY CauseIs DEF CallInv, TextInv
  <2>2. CallInv /\ call = "tcp_send" => RefusedForCause
      BY DEF CallInv, RefusedForCause
  <2>3. QED
      BY <2>1, <2>2 DEF CallInv
<1>2. QED
    BY CallBegins, CallKeeps, <1>1, PTL DEF CallSpec

(* What rpc_send writes, the other server loads as the table that was sent, *)
(* for any strings in it, any nesting and any order of its pairs: the bytes *)
(* that are escaped (src/cable/src/protos.rs:126-154) are enough for no     *)
(* string to end early or to swallow what is behind it.  The exceptions are *)
(* exactly these (src/cable/src/protos.rs:35-41, 62-68): a float with an    *)
(* integer's value arrives as the integer, and the least integer as a       *)
(* float; an entry whose value is infinite, or NaN, is missing; and with a  *)
(* negative infinite value, or an infinite key, nothing is loaded at all.   *)
THEOREM ReadsBackKept == CallSpec => []ReadsBack
<1>1. CallInv => ReadsBack
  <2>1. CallInv /\ call = "rpc_send" => ReadsBack
      BY ReadsBackIs DEF CallInv
  <2>2. CallInv /\ call = "tcp_send" => ReadsBack
      BY DEF CallInv, ReadsBack
  <2>3. QED
      BY <2>1, <2>2 DEF CallInv
<1>2. QED
    BY CallBegins, CallKeeps, <1>1, PTL DEF CallSpec

=============================================================================

-------------------------- MODULE FlattenTheorems --------------------------
(***************************************************************************)
(* Induction on the naturals, with a set in place of a predicate: a set of *)
(* naturals that has 0 and the successor of each member is Nat.  By it,    *)
(* what FlattenSeq, a recursive function, does with one sequence more; and *)
(* the facts about segments of the indices that such inductions, also      *)
(* those over FoldLeft, use.                                               *)
(***************************************************************************)
EXTENDS Integers, Sequences, SequencesExt, WellFoundedInduction, TLAPS

LEMMA Least ==
    ASSUME NEW T \in SUBSET Nat, T # {}
    PROVE  \E n \in T : \A m \in T : n <= m
<1>1. IsWellFoundedOn({p \in Nat \X Nat : p[1] < p[2]}, Nat)
    BY NatLessThanWellFounded DEF OpToRel
<1>2. PICK R : R = {p \in Nat \X Nat : p[1] < p[2]}
    OBVIOUS
<1>3. IsWellFoundedOn(R, Nat)
    BY <1>1, <1>2
<1>4. PICK n \in T : \A m \in T : <<m, n>> \notin R
    BY <1>3, WFMin
<1>5. ASSUME NEW m \in T PROVE n <= m
  <2>1. m \in Nat /\ n \in Nat
      OBVIOUS
  <2>2. ~(m < n)
      BY <1>2, <1>4, <2>1
  <2>3. QED
      BY <2>1, <2>2
<1>6. QED
    BY <1>5

LEMMA Induct ==
    ASSUME NEW T \in SUBSET Nat, 0 \in T, \A n \in T : n + 1 \in T
    PROVE  T = Nat
<1> SUFFICES ASSUME Nat \ T # {} PROVE FALSE
    OBVIOUS
<1>1. PICK n \in Nat \ T : \A m \in Nat \ T : n <= m
    BY Least
<1>2. n - 1 \in T
    BY <1>1
<1>3. QED
    BY <1>1, <1>2

(* The indices up to k + 1 are those up to k, and k + 1. *)
LEMMA Segment ==
    ASSUME NEW k \in Nat
    PROVE  /\ 1..(k + 1) # {} /\ (1..(k + 1)) \ {k + 1} = 1..k
           /\ \A m \in Nat : k + 1 <= m => 1..(k + 1) \in SUBSET (1..m)
<1>1. k + 1 \in 1..(k + 1)
    OBVIOUS
<1>2. \A i : i \in 1..(k + 1) <=> i \in 1..k \/ i = k + 1
    OBVIOUS
<1>3. k + 1 \notin 1..k
    OBVIOUS
<1>4. (1..(k + 1)) \ {k + 1} = 1..k
    BY <1>2, <1>3
<1>5. \A m \in Nat : k + 1 <= m => 1..(k + 1) \in SUBSET (1..m)
    OBVIOUS
<1>6. QED
    BY <1>1, <1>4, <1>5

(* The greatest of the indices up to k is k, if it is among them. *)
LEMMA MaxIsLast ==
    ASSUME NEW k \in Nat, NEW t \in SUBSET (1..(k + 1)), k + 1 \in t
    PROVE  Max(t) = k + 1
<1>1. \A y \in t : k + 1 >= y
    OBVIOUS
<1>2. \E x \in t : \A y \in t : x >= y
    BY <1>1
<1>3. PICK m : m = Max(t)
    OBVIOUS
<1>4. m \in t /\ \A y \in t : m >= y
    BY <1>2, <1>3 DEF Max
<1>5. m \in Nat /\ m <= k + 1 /\ m >= k + 1
    BY <1>1, <1>4
<1>6. QED
    BY <1>3, <1>5

(* The recursion of FlattenSeq, as far as its k-th value. *)
Flattens(g, s, k) == g = [i \in 1..k |-> IF i = 1 THEN s[i] ELSE g[i - 1] \o s[i]]

LEMMA FlattensStep ==
    ASSUME NEW s, NEW k \in Nat, NEW g, Flattens(g, s, k)
    PROVE  \E h : Flattens(h, s, k + 1)
<1> DEFINE h == [i \in 1..(k + 1) |->
                   IF i <= k THEN g[i] ELSE IF i = 1 THEN s[i] ELSE g[i - 1] \o s[i]]
<1>1. \A i \in 1..k : g[i] = IF i = 1 THEN s[i] ELSE g[i - 1] \o s[i]
    BY DEF Flattens
<1>2. ASSUME NEW i \in 1..(k + 1)
      PROVE  h[i] = IF i = 1 THEN s[i] ELSE h[i - 1] \o s[i]
  <2>1. CASE i = 1
      BY <1>1, <2>1
  <2>2. CASE i # 1
    <3>1. i - 1 \in 1..k /\ i - 1 \in 1..(k + 1) /\ i - 1 <= k
        BY <2>2
    <3>2. h[i - 1] = g[i - 1]
        BY <3>1
    <3>3. CASE i <= k
      <4>1. i \in 1..k
          BY <3>3
      <4>2. h[i] = g[i]
          BY <3>3
      <4>3. QED
          BY <1>1, <2>2, <3>2, <4>1, <4>2
    <3>4. CASE ~(i <= k)
        BY <2>2, <3>2, <3>4
    <3>5. QED
        BY <3>3, <3>4
  <2>3. QED
      BY <2>1, <2>2
<1>3. h = [i \in 1..(k + 1) |-> h[i]]
    OBVIOUS
<1>4. h = [i \in 1..(k + 1) |-> IF i = 1 THEN s[i] ELSE h[i - 1] \o s[i]]
    BY ONLY <1>2, <1>3, Zenon
<1>5. QED
    BY <1>4 DEF Flattens

LEMMA FlattensExists == ASSUME NEW s, NEW n \in Nat PROVE \E g : Flattens(g, s, n)
<1> DEFINE T == {k \in Nat : \E g : Flattens(g, s, k)}
<1>1. 0 \in T
  <2>1. Flattens(<<>>, s, 0)
      BY DEF Flattens
  <2>2. QED
      BY <2>1
<1>2. ASSUME NEW k \in T PROVE k + 1 \in T
  <2>1. PICK g : Flattens(g, s, k)
      OBVIOUS
  <2>2. k \in Nat /\ k + 1 \in Nat
      OBVIOUS
  <2>3. \E h : Flattens(h, s, k + 1)
      BY <2>1, <2>2, FlattensStep
  <2>4. QED
      BY <2>2, <2>3
<1>3. T \in SUBSET Nat
    OBVIOUS
<1> HIDE DEF T
<1>4. T = Nat
    BY <1>1, <1>2, <1>3, Induct
<1>5. QED
    BY <1>4 DEF T

LEMMA FlattenSeqIs ==
    ASSUME NEW s, Len(s) # 0, Len(s) \in Nat
    PROVE  \E f : Flattens(f, s, Len(s)) /\ FlattenSeq(s) = f[Len(s)]
<1>1. PICK n \in Nat : n = Len(s)
    OBVIOUS
<1>2. \E g : g = [i \in 1..Len(s) |-> IF i = 1 THEN s[i] ELSE g[i - 1] \o s[i]]
    BY <1>1, FlattensExists DEF Flattens
<1>3. PICK f : f = CHOOSE g : g = [i \in 1..Len(s) |-> IF i = 1 THEN s[i] ELSE g[i - 1] \o s[i]]
    OBVIOUS
<1>4. f = [i \in 1..Len(s) |-> IF i = 1 THEN s[i] ELSE f[i - 1] \o s[i]]
    BY <1>2, <1>3
<1>5. FlattenSeq(s) = f[Len(s)]
    BY <1>3 DEF FlattenSeq
<1>6. QED
    BY <1>4, <1>5 DEF Flattens

(* Two flattenings agree as far as the sequences do. *)
LEMMA FlattensAgree ==
    ASSUME NEW s, NEW t, NEW f, NEW g, NEW n \in Nat, NEW m \in Nat, n <= m,
           Flattens(f, s, n), Flattens(g, t, m),
           \A i \in 1..n : s[i] = t[i]
    PROVE  \A i \in 1..n : f[i] = g[i]
<1> DEFINE T == {k \in Nat : k \in 1..n => f[k] = g[k]}
<1>0. /\ \A i \in 1..n : f[i] = IF i = 1 THEN s[i] ELSE f[i - 1] \o s[i]
      /\ \A i \in 1..m : g[i] = IF i = 1 THEN t[i] ELSE g[i - 1] \o t[i]
    BY DEF Flattens
<1>1. 0 \in T
    OBVIOUS
<1>2. ASSUME NEW k \in T PROVE k + 1 \in T
  <2>1. k \in Nat /\ (k \in 1..n => f[k] = g[k])
      OBVIOUS
  <2>2. ASSUME k + 1 \in 1..n PROVE f[k + 1] = g[k + 1]
    <3>1. k + 1 \in 1..m
        BY <2>2
    <3>2. CASE k = 0
        BY <1>0, <2>2, <3>1, <3>2
    <3>3. CASE k # 0
      <4>1. k \in 1..n /\ (k + 1) - 1 = k /\ k + 1 # 1
          BY <2>1, <2>2, <3>3
      <4>2. f[k + 1] = f[k] \o s[k + 1] /\ g[k + 1] = g[k] \o t[k + 1]
          BY <1>0, <2>2, <3>1, <4>1
      <4>3. QED
          BY <2>1, <2>2, <4>1, <4>2
    <3>4. QED
        BY <3>2, <3>3
  <2>3. QED
      BY <2>1, <2>2
<1>3. T \in SUBSET Nat
    OBVIOUS
<1> HIDE DEF T
<1>4. T = Nat
    BY <1>1, <1>2, <1>3, Induct
<1>5. QED
    BY <1>4 DEF T

LEMMA FlattensTyped ==
    ASSUME NEW S, NEW s \in Seq(Seq(S)), NEW f, Flattens(f, s, Len(s))
    PROVE  \A i \in 1..Len(s) : f[i] \in Seq(S)
<1>1. PICK n \in Nat : n = Len(s)
    OBVIOUS
<1> DEFINE T == {k \in Nat : k \in 1..n => f[k] \in Seq(S)}
<1>2. \A i \in 1..n : f[i] = IF i = 1 THEN s[i] ELSE f[i - 1] \o s[i]
    BY <1>1 DEF Flattens
<1>3. \A i \in 1..n : s[i] \in Seq(S)
    BY <1>1
<1>4. 0 \in T
    OBVIOUS
<1>5. ASSUME NEW k \in T PROVE k + 1 \in T
  <2>1. k \in Nat /\ (k \in 1..n => f[k] \in Seq(S))
      OBVIOUS
  <2>2. ASSUME k + 1 \in 1..n PROVE f[k + 1] \in Seq(S)
    <3>1. CASE k = 0
        BY <1>2, <1>3, <2>2, <3>1
    <3>2. CASE k # 0
      <4>1. k \in 1..n /\ (k + 1) - 1 = k /\ k + 1 # 1
          BY <2>1, <2>2, <3>2
      <4>2. f[k + 1] = f[k] \o s[k + 1]
          BY <1>2, <2>2, <4>1
      <4>3. f[k] \in Seq(S) /\ s[k + 1] \in Seq(S)
          BY <1>3, <2>1, <2>2, <4>1
      <4>4. QED
          BY <4>2, <4>3
    <3>3. QED
        BY <3>1, <3>2
  <2>3. QED
      BY <2>1, <2>2
<1>6. T \in SUBSET Nat
    OBVIOUS
<1> HIDE DEF T
<1>7. T = Nat
    BY <1>4, <1>5, <1>6, Induct
<1>8. QED
    BY <1>1, <1>7 DEF T

LEMMA FlattenEmpty == FlattenSeq(<<>>) = <<>>
  BY DEF FlattenSeq

LEMMA FlattenTyped == ASSUME NEW S, NEW s \in Seq(Seq(S)) PROVE FlattenSeq(s) \in Seq(S)
<1>0. Len(s) \in Nat
    OBVIOUS
<1>1. CASE Len(s) = 0
  <2>1. s = <<>>
      BY <1>1
  <2>2. <<>> \in Seq(S)
      OBVIOUS
  <2>3. FlattenSeq(s) = <<>>
      BY <2>1, FlattenEmpty
  <2>4. QED
      BY <2>2, <2>3
<1>2. CASE Len(s) # 0
  <2>1. PICK f : Flattens(f, s, Len(s)) /\ FlattenSeq(s) = f[Len(s)]
      BY <1>0, <1>2, FlattenSeqIs
  <2>2. Len(s) \in 1..Len(s)
      BY <1>0, <1>2
  <2>3. QED
      BY <2>1, <2>2, FlattensTyped
<1>3. QED
    BY <1>1, <1>2

LEMMA FlattenAppend ==
    ASSUME NEW S, NEW s \in Seq(Seq(S)), NEW x \in Seq(S)
    PROVE  FlattenSeq(Append(s, x)) = FlattenSeq(s) \o x
<1>0. PICK n : n = Len(s)
    OBVIOUS
<1>a. n \in Nat
    BY <1>0
<1>b. PICK t : t = Append(s, x)
    OBVIOUS
<1>1. n \in Nat /\ n = Len(s) /\ t = Append(s, x)
    BY <1>0, <1>a, <1>b
<1>2. /\ Len(t) = n + 1 /\ n + 1 # 0 /\ n + 1 \in Nat /\ t[n + 1] = x
      /\ \A i \in 1..n : s[i] = t[i]
    BY <1>1
<1>3. PICK g : Flattens(g, t, n + 1) /\ FlattenSeq(t) = g[n + 1]
    BY <1>2, FlattenSeqIs
<1>4. g[n + 1] = IF n + 1 = 1 THEN x ELSE g[n] \o x
  <2>1. n + 1 \in 1..(n + 1) /\ (n + 1) - 1 = n
      BY <1>1
  <2>2. QED
      BY <1>2, <1>3, <2>1 DEF Flattens
<1>5. CASE n = 0
  <2>0. Len(s) = 0
      BY <1>0, <1>5
  <2>1. s = <<>>
      BY ONLY <2>0, s \in Seq(Seq(S))
  <2>2. FlattenSeq(s) = <<>>
      BY <2>1, FlattenEmpty
  <2>3. FlattenSeq(s) \o x = x
      BY <2>2
  <2>4. g[n + 1] = x
      BY <1>4, <1>5
  <2>5. QED
      BY <1>1, <1>3, <2>3, <2>4, Zenon
<1>6. CASE n # 0
  <2>1. PICK f : Flattens(f, s, n) /\ FlattenSeq(s) = f[n]
      BY <1>1, <1>6, FlattenSeqIs
  <2>2. f[n] = g[n]
    <3>1. n <= n + 1 /\ n \in 1..n
        BY <1>1, <1>6
    <3>a. PICK m : m = n + 1
        OBVIOUS
    <3>b. m \in Nat /\ n <= m /\ Flattens(g, t, m)
        BY <1>2, <1>3, <3>1, <3>a
    <3>2. \A i \in 1..n : f[i] = g[i]
        BY ONLY <1>a, <1>2, <2>1, <3>b, FlattensAgree
    <3>3. QED
        BY <3>1, <3>2
  <2>3. n + 1 # 1
      BY <1>1, <1>6
  <2>4. QED
      BY <1>1, <1>3, <1>4, <2>1, <2>2, <2>3
<1>7. QED
    BY <1>5, <1>6

=============================================================================

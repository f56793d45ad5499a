-------------------------- MODULE TimerState_proofs --------------------------
(***************************************************************************)
(* The two lists of timers stay sorted and hold the live timers, each      *)
(* once, so that an update fires exactly the timers that are due, none     *)
(* that is dead and none before its period has passed: for any rate,       *)
(* delays, periods, number of timers and movement of the clock.            *)
(***************************************************************************)
EXTENDS TimerState, FiniteSetTheorems, FunctionTheorems, SequenceTheorems, TLAPS

Distinct(s) == \A i, j \in DOMAIN s : s[i].id = s[j].id => i = j

(* The lists hold each live timer once, in order. *)
ListInv ==
    /\ Ordered(orders) /\ Ordered(once_orders)
    /\ Distinct(orders) /\ Distinct(once_orders)
    /\ Ids(orders) \cap Ids(once_orders) = {}
    /\ Ids(orders) \cup Ids(once_orders) = (1..inc_id) \ dead

(* A periodic timer that has fired is due a period later; one that is not   *)
(* accepted yet has not fired.                                              *)
LastInv ==
    /\ \A i \in DOMAIN orders :
          last[orders[i].id] # -1 => orders[i].timeout >= last[orders[i].id] + orders[i].freq
    /\ \A i \in 1..MaxTimers : i > inc_id => last[i] = -1
    /\ dead \subseteq 1..inc_id

Inv == TypeOK /\ ListInv /\ LastInv

-----------------------------------------------------------------------------
(* Lists of timers. *)

LEMMA FunSeq ==
    ASSUME NEW T, NEW k \in Nat, NEW f \in [1..k -> T]
    PROVE  f \in Seq(T) /\ Len(f) = k
  OBVIOUS

LEMMA SeqOf ==
    ASSUME NEW s \in Seq(Timer)
    PROVE  /\ Len(s) \in Nat /\ DOMAIN s = 1..Len(s) /\ IsFiniteSet(DOMAIN s)
           /\ Cardinality(DOMAIN s) = Len(s)
           /\ \A i \in DOMAIN s : /\ s[i] \in Timer /\ s[i].timeout \in Nat
                                  /\ s[i].id \in 1..MaxTimers /\ s[i].freq \in Nat
                                  /\ i \in Nat
<1>1. Len(s) \in Nat /\ DOMAIN s = 1..Len(s) /\ \A i \in DOMAIN s : s[i] \in Timer
    OBVIOUS
<1>2. IsFiniteSet(1..Len(s)) /\ Cardinality(1..Len(s)) = Len(s)
    BY <1>1, FS_Interval
<1>3. \A t \in Timer : t.timeout \in Nat /\ t.id \in 1..MaxTimers /\ t.freq \in Nat
    BY DEF Timer
<1>4. QED
    BY <1>1, <1>2, <1>3

(* The identifiers of a list without duplicates are as many as its elements. *)
LEMMA Counted ==
    ASSUME NEW s \in Seq(Timer), Distinct(s)
    PROVE  Cardinality(Ids(s)) = Len(s)
<1> DEFINE f == [i \in DOMAIN s |-> s[i].id]
<1>1. f \in Bijection(DOMAIN s, Ids(s))
  <2>1. f \in [DOMAIN s -> Ids(s)]
      BY DEF Ids
  <2>2. \A i, j \in DOMAIN s : f[i] = f[j] => i = j
      BY DEF Distinct
  <2>3. \A x \in Ids(s) : \E i \in DOMAIN s : f[i] = x
      BY DEF Ids
  <2>4. QED
      BY <2>1, <2>2, <2>3 DEF Bijection, Injection, IsInjective, Surjection
<1>2. QED
    BY <1>1, SeqOf, FS_Bijection DEF ExistsBijection

(* In a sorted list the elements that are due are the first ones. *)
LEMMA DueFirst ==
    ASSUME NEW s \in Seq(Timer), Ordered(s), clock \in Nat
    PROVE  /\ DueCount(s) \in 0..Len(s)
           /\ \A i \in DOMAIN s : s[i].timeout <= clock <=> i <= DueCount(s)
<1> DEFINE D == {i \in DOMAIN s : s[i].timeout <= clock}
           c == Cardinality(D)
<1>1. D \in SUBSET (DOMAIN s)
    OBVIOUS
<1>2. IsFiniteSet(D) /\ c \in Nat /\ c <= Len(s)
    BY <1>1, SeqOf, FS_Subset, FS_CardinalityType
<1>3. \A i \in D : 1..i \subseteq D
  <2> SUFFICES ASSUME NEW i \in D, NEW j \in 1..i PROVE j \in D
      OBVIOUS
  <2>1. i \in DOMAIN s /\ j \in DOMAIN s /\ s[i].timeout <= clock /\ i \in Nat /\ j \in Nat
      BY SeqOf
  <2>2. s[j].timeout <= s[i].timeout
    <3>1. s[i].timeout \in Nat /\ j <= i
        BY <2>1, SeqOf
    <3>2. CASE j = i
        BY <3>1, <3>2
    <3>3. CASE j < i
        BY <2>1, <3>3 DEF Ordered
    <3>4. QED
        BY <2>1, <3>1, <3>2, <3>3
  <2>3. QED
      BY <2>1, <2>2, SeqOf
<1> HIDE DEF D, c
<1>4. \A i \in D : i \in 1..c
  <2> SUFFICES ASSUME NEW i \in D PROVE i \in 1..c
      OBVIOUS
  <2>1. i \in Nat /\ i >= 1
    <3>1. i \in DOMAIN s
        BY <1>1
    <3>2. QED
        BY <3>1, SeqOf
  <2>2. Cardinality(1..i) = i
      BY <2>1, FS_Interval
  <2>3. Cardinality(1..i) <= c
      BY <1>2, <1>3, FS_Subset DEF c
  <2>4. QED
      BY <1>2, <2>1, <2>2, <2>3
<1>5. D = 1..c
  <2>1. D \in SUBSET (1..c)
      BY <1>4
  <2>2. IsFiniteSet(1..c) /\ Cardinality(1..c) = c
      BY <1>2, FS_Interval
  <2>3. QED
      BY <2>1, <2>2, FS_Subset DEF c
<1>6. \A i \in DOMAIN s : s[i].timeout <= clock <=> i \in 1..c
    BY <1>5 DEF D
<1>7. DueCount(s) = c
    BY DEF DueCount, c, D
<1>8. QED
    BY <1>2, <1>6, <1>7, SeqOf

-----------------------------------------------------------------------------
(* sort_by. *)

Before(s, j, i) == \/ s[j].timeout < s[i].timeout
                   \/ s[j].timeout = s[i].timeout /\ j < i
Front(s, i) == {j \in DOMAIN s : Before(s, j, i)}

LEMMA Placing ==
    ASSUME NEW s \in Seq(Timer)
    PROVE  /\ \A i \in DOMAIN s : Place(s, i) \in DOMAIN s
           /\ \A i, j \in DOMAIN s : Before(s, j, i) => Place(s, j) < Place(s, i)
           /\ \A i, j \in DOMAIN s : i = j \/ Before(s, i, j) \/ Before(s, j, i)
<1>1. \A i, j, k \in DOMAIN s : Before(s, i, j) /\ Before(s, j, k) => Before(s, i, k)
    BY SeqOf DEF Before
<1>2. \A i \in DOMAIN s : ~Before(s, i, i)
    BY SeqOf DEF Before
<1>3. \A i, j \in DOMAIN s : i = j \/ Before(s, i, j) \/ Before(s, j, i)
    BY SeqOf DEF Before
<1>4. \A i \in DOMAIN s : /\ Place(s, i) = 1 + Cardinality(Front(s, i))
                          /\ IsFiniteSet(Front(s, i)) /\ Cardinality(Front(s, i)) \in Nat
  <2> SUFFICES ASSUME NEW i \in DOMAIN s
               PROVE  /\ Place(s, i) = 1 + Cardinality(Front(s, i))
                      /\ IsFiniteSet(Front(s, i)) /\ Cardinality(Front(s, i)) \in Nat
      OBVIOUS
  <2>1. Front(s, i) \in SUBSET (DOMAIN s)
      BY DEF Front
  <2>2. QED
      BY <2>1, SeqOf, FS_Subset, FS_CardinalityType DEF Place, Front, Before
<1>5. \A i \in DOMAIN s : Place(s, i) \in DOMAIN s
  <2> SUFFICES ASSUME NEW i \in DOMAIN s PROVE Place(s, i) \in DOMAIN s
      OBVIOUS
  <2>1. Front(s, i) \in SUBSET (DOMAIN s) /\ Front(s, i) # DOMAIN s
      BY <1>2 DEF Front
  <2>2. Cardinality(Front(s, i)) <= Len(s) /\ Cardinality(Front(s, i)) # Len(s)
      BY <2>1, SeqOf, FS_Subset
  <2>3. QED
      BY <1>4, <2>2, SeqOf
<1>6. ASSUME NEW i \in DOMAIN s, NEW j \in DOMAIN s, Before(s, j, i)
      PROVE  Place(s, j) < Place(s, i)
  <2>1. Front(s, j) \in SUBSET Front(s, i) /\ j \in Front(s, i) /\ j \notin Front(s, j)
      BY <1>1, <1>2, <1>6 DEF Front
  <2>2. Cardinality(Front(s, j)) <= Cardinality(Front(s, i))
        /\ Cardinality(Front(s, j)) # Cardinality(Front(s, i))
      BY <1>4, <2>1, FS_Subset
  <2>3. QED
      BY <1>4, <2>2
<1>7. QED
    BY <1>3, <1>5, <1>6

(* Sorted shuffles the list, and puts it in order. *)
LEMMA Shuffled ==
    ASSUME NEW s \in Seq(Timer)
    PROVE  \E p \in [DOMAIN s -> DOMAIN s] :
              /\ Sorted(s) = [k \in DOMAIN s |-> s[p[k]]]
              /\ \A k, l \in DOMAIN s : p[k] = p[l] => k = l
              /\ \A i \in DOMAIN s : \E k \in DOMAIN s : p[k] = i
              /\ \A k, l \in DOMAIN s : k < l => s[p[k]].timeout <= s[p[l]].timeout
<1> DEFINE P == [i \in DOMAIN s |-> Place(s, i)]
           p == [k \in DOMAIN s |-> CHOOSE i \in DOMAIN s : Place(s, i) = k]
<1>1. /\ \A i \in DOMAIN s : Place(s, i) \in DOMAIN s /\ Place(s, i) \in Nat
      /\ \A i, j \in DOMAIN s : Before(s, j, i) => Place(s, j) < Place(s, i)
      /\ \A i, j \in DOMAIN s : i = j \/ Before(s, i, j) \/ Before(s, j, i)
    BY Placing, SeqOf
<1>2. \A i, j \in DOMAIN s : Place(s, i) = Place(s, j) => i = j
    BY <1>1
<1>3. P \in Injection(DOMAIN s, DOMAIN s)
    BY <1>1, <1>2 DEF Injection, IsInjective
<1>4. P \in Surjection(DOMAIN s, DOMAIN s)
    BY <1>3, SeqOf, FS_Injection
<1>5. \A k \in DOMAIN s : \E i \in DOMAIN s : Place(s, i) = k
    BY <1>4 DEF Surjection
<1>6. \A k \in DOMAIN s : p[k] \in DOMAIN s /\ Place(s, p[k]) = k
    BY <1>5
<1>7. p \in [DOMAIN s -> DOMAIN s] /\ Sorted(s) = [k \in DOMAIN s |-> s[p[k]]]
    BY <1>6 DEF Sorted
<1> HIDE DEF p, P
<1>8. \A k, l \in DOMAIN s : p[k] = p[l] => k = l
    BY <1>6
<1>9. \A i \in DOMAIN s : \E k \in DOMAIN s : p[k] = i
    BY <1>1, <1>2, <1>6
<1>10. ASSUME NEW k \in DOMAIN s, NEW l \in DOMAIN s, k < l
       PROVE  s[p[k]].timeout <= s[p[l]].timeout
  <2>1. p[k] \in DOMAIN s /\ p[l] \in DOMAIN s /\ k \in Nat /\ l \in Nat
      BY <1>6, SeqOf
  <2>2. ~(Place(s, p[l]) < Place(s, p[k]))
      BY <1>6, <1>10, <2>1
  <2>3. ~Before(s, p[l], p[k])
      BY <1>1, <2>1, <2>2
  <2>4. QED
      BY <2>1, <2>3, SeqOf DEF Before
<1>11. QED
    BY <1>7, <1>8, <1>9, <1>10

LEMMA SortedFacts ==
    ASSUME NEW s \in Seq(Timer), Distinct(s)
    PROVE  /\ Sorted(s) \in Seq(Timer) /\ Len(Sorted(s)) = Len(s)
           /\ Ordered(Sorted(s)) /\ Distinct(Sorted(s)) /\ Ids(Sorted(s)) = Ids(s)
           /\ \A k \in DOMAIN Sorted(s) : \E i \in DOMAIN s : Sorted(s)[k] = s[i]
<1>1. PICK p \in [DOMAIN s -> DOMAIN s] :
          /\ Sorted(s) = [k \in DOMAIN s |-> s[p[k]]]
          /\ \A k, l \in DOMAIN s : p[k] = p[l] => k = l
          /\ \A i \in DOMAIN s : \E k \in DOMAIN s : p[k] = i
          /\ \A k, l \in DOMAIN s : k < l => s[p[k]].timeout <= s[p[l]].timeout
    BY Shuffled
<1>2. \A k \in DOMAIN s : p[k] \in DOMAIN s /\ Sorted(s)[k] = s[p[k]] /\ s[p[k]] \in Timer
    BY <1>1, SeqOf
<1>3. Sorted(s) \in [1..Len(s) -> Timer] /\ Len(s) \in Nat /\ DOMAIN s = 1..Len(s)
    BY <1>1, <1>2, SeqOf
<1>4. Sorted(s) \in Seq(Timer) /\ Len(Sorted(s)) = Len(s) /\ DOMAIN Sorted(s) = DOMAIN s
    BY ONLY <1>3
<1>5. Ordered(Sorted(s))
  <2> SUFFICES ASSUME NEW k \in DOMAIN s, NEW l \in DOMAIN s, k < l
               PROVE  Sorted(s)[k].timeout <= Sorted(s)[l].timeout
      BY <1>4 DEF Ordered
  <2>1. Sorted(s)[k] = s[p[k]] /\ Sorted(s)[l] = s[p[l]]
      BY <1>2
  <2>2. s[p[k]].timeout <= s[p[l]].timeout
      BY <1>1
  <2>3. QED
      BY <2>1, <2>2
<1>6. Distinct(Sorted(s))
    BY <1>1, <1>2, <1>4 DEF Distinct
<1>7. Ids(Sorted(s)) = Ids(s)
    BY <1>1, <1>2, <1>4 DEF Ids
<1>8. \A k \in DOMAIN Sorted(s) : \E i \in DOMAIN s : Sorted(s)[k] = s[i]
    BY <1>2, <1>4
<1>9. QED
    BY <1>4, <1>5, <1>6, <1>7, <1>8

-----------------------------------------------------------------------------
(* push, and Vec::remove. *)

LEMMA Pushed ==
    ASSUME NEW s \in Seq(Timer), Distinct(s), NEW t \in Timer, t.id \notin Ids(s)
    PROVE  /\ Append(s, t) \in Seq(Timer) /\ Distinct(Append(s, t))
           /\ Ids(Append(s, t)) = Ids(s) \cup {t.id}
           /\ \A i \in DOMAIN Append(s, t) :
                 Append(s, t)[i] = t \/ \E j \in DOMAIN s : Append(s, t)[i] = s[j]
<1> DEFINE a == Append(s, t)
           n == Len(s)
<1>1. /\ a \in Seq(Timer) /\ n \in Nat /\ DOMAIN s = 1..n /\ DOMAIN a = 1..(n + 1)
      /\ a[n + 1] = t /\ \A i \in 1..n : a[i] = s[i]
    OBVIOUS
<1> HIDE DEF a, n
<1>2. \A i \in DOMAIN a : i = n + 1 \/ i \in DOMAIN s
    BY <1>1
<1>3. \A i \in DOMAIN s : s[i].id # t.id
    BY DEF Ids
<1>4. Distinct(a)
    BY <1>1, <1>2, <1>3 DEF Distinct
<1>5. Ids(a) = Ids(s) \cup {t.id}
  <2>1. n + 1 \in DOMAIN a /\ DOMAIN s \subseteq DOMAIN a
      BY <1>1
  <2>2. QED
      BY <1>1, <1>2, <2>1 DEF Ids
<1>6. \A i \in DOMAIN a : a[i] = t \/ \E j \in DOMAIN s : a[i] = s[j]
    BY <1>1, <1>2
<1>7. QED
    BY <1>1, <1>4, <1>5, <1>6 DEF a

LEMMA Joined ==
    ASSUME NEW T, NEW u \in Seq(T), NEW v \in Seq(T)
    PROVE  /\ u \o v \in Seq(T) /\ Len(u \o v) = Len(u) + Len(v)
           /\ \A i \in 1..(Len(u) + Len(v)) :
                 (u \o v)[i] = IF i <= Len(u) THEN u[i] ELSE v[i - Len(u)]
  BY ConcatProperties

LEMMA Removed ==
    ASSUME NEW s \in Seq(Timer), Distinct(s), Ordered(s), NEW id
    PROVE  /\ Without(s, id) \in Seq(Timer)
           /\ Distinct(Without(s, id)) /\ Ordered(Without(s, id))
           /\ Ids(Without(s, id)) = Ids(s) \ {id}
           /\ \A i \in DOMAIN Without(s, id) : \E j \in DOMAIN s : Without(s, id)[i] = s[j]
<1> DEFINE w == Without(s, id)
           n == Len(s)
           at == {i \in DOMAIN s : s[i].id = id}
<1>1. n \in Nat /\ DOMAIN s = 1..n
    BY SeqOf
<1>2. CASE at = {}
  <2>1. w = s
      BY <1>2 DEF Without
  <2>2. id \notin Ids(s)
      BY <1>2 DEF Ids
  <2>3. QED
      BY <2>1, <2>2
<1>3. CASE at # {}
  <2>1. PICK k \in DOMAIN s : s[k].id = id
      BY <1>3
  <2>2. at = {k} /\ k \in 1..n
      BY <1>1, <2>1 DEF Distinct
  <2>3. (CHOOSE i \in at : \A j \in at : i <= j) = k
      BY <1>1, <2>2
  <2>4. w = SubSeq(s, 1, k - 1) \o SubSeq(s, k + 1, n)
      BY <1>3, <2>3 DEF Without
  <2> DEFINE g(i) == IF i < k THEN i ELSE i + 1
  <2>5. /\ w \in Seq(Timer) /\ DOMAIN w = 1..(n - 1)
        /\ \A i \in 1..(n - 1) : w[i] = s[g(i)]
    <3>1. /\ SubSeq(s, 1, k - 1) \in Seq(Timer) /\ Len(SubSeq(s, 1, k - 1)) = k - 1
          /\ \A i \in 1..(k - 1) : SubSeq(s, 1, k - 1)[i] = s[i]
        BY ONLY <1>1, <2>2, s \in Seq(Timer)
    <3>2. /\ SubSeq(s, k + 1, n) \in Seq(Timer) /\ Len(SubSeq(s, k + 1, n)) = n - k
          /\ \A i \in 1..(n - k) : SubSeq(s, k + 1, n)[i] = s[k + i]
        BY ONLY <1>1, <2>2, s \in Seq(Timer)
    <3> DEFINE u == SubSeq(s, 1, k - 1)
               v == SubSeq(s, k + 1, n)
    <3> HIDE DEF u, v
    <3>3. /\ u \o v \in Seq(Timer) /\ Len(u \o v) = n - 1
          /\ \A i \in 1..(n - 1) : (u \o v)[i] = IF i < k THEN u[i] ELSE v[i - (k - 1)]
      <4>1. u \in Seq(Timer) /\ v \in Seq(Timer) /\ Len(u) = k - 1 /\ Len(v) = n - k
          BY <3>1, <3>2 DEF u, v
      <4>2. n \in Nat /\ k \in 1..n
          BY <1>1, <2>2
      <4>3. Len(u) + Len(v) = n - 1
          BY ONLY <4>1, <4>2
      <4>4. /\ u \o v \in Seq(Timer) /\ Len(u \o v) = Len(u) + Len(v)
            /\ \A i \in 1..(Len(u) + Len(v)) :
                  (u \o v)[i] = IF i <= Len(u) THEN u[i] ELSE v[i - Len(u)]
          BY <4>1, Joined
      <4>5. /\ u \o v \in Seq(Timer) /\ Len(u \o v) = n - 1
            /\ \A i \in 1..(n - 1) : (u \o v)[i] = IF i <= k - 1 THEN u[i] ELSE v[i - (k - 1)]
          BY ONLY <4>1, <4>3, <4>4
      <4>6. \A i \in 1..(n - 1) : (i <= k - 1) <=> (i < k)
          BY ONLY <4>2
      <4>7. QED
          BY ONLY <4>5, <4>6
    <3>4. ASSUME NEW i \in 1..(n - 1) PROVE (u \o v)[i] = s[g(i)]
      <4>1. CASE i < k
        <5>1. i \in 1..(k - 1)
            BY <1>1, <2>2, <3>4, <4>1
        <5>2. QED
            BY <3>1, <3>3, <3>4, <4>1, <5>1 DEF u
      <4>2. CASE ~(i < k)
        <5>1. i - (k - 1) \in 1..(n - k) /\ k + (i - (k - 1)) = i + 1
            BY <1>1, <2>2, <3>4, <4>2
        <5>2. QED
            BY <3>2, <3>3, <3>4, <4>2, <5>1 DEF v
      <4>3. QED
          BY <4>1, <4>2
    <3>5. w = u \o v
        BY <2>4 DEF u, v
    <3>6. QED
        BY <3>3, <3>4, <3>5
  <2>6. /\ \A i \in 1..(n - 1) : g(i) \in DOMAIN s /\ g(i) # k
        /\ \A i, j \in 1..(n - 1) : (g(i) = g(j) => i = j) /\ (i < j => g(i) < g(j))
        /\ \A j \in DOMAIN s : j # k => \E i \in 1..(n - 1) : g(i) = j
    <3>1. \A j \in DOMAIN s : j # k => \E i \in 1..(n - 1) : g(i) = j
      <4> SUFFICES ASSUME NEW j \in DOMAIN s, j # k PROVE \E i \in 1..(n - 1) : g(i) = j
          OBVIOUS
      <4>1. CASE j < k
        <5>1. j \in 1..(n - 1) /\ g(j) = j
            BY <1>1, <2>2, <4>1
        <5>2. QED
            BY <5>1
      <4>2. CASE ~(j < k)
        <5>1. j - 1 \in 1..(n - 1) /\ g(j - 1) = j
            BY <1>1, <2>2, <4>2
        <5>2. QED
            BY <5>1
      <4>3. QED
          BY <4>1, <4>2
    <3>2. QED
        BY <1>1, <2>2, <3>1
  <2> HIDE DEF w, g
  <2>7. Distinct(w)
    <3> SUFFICES ASSUME NEW i \in 1..(n - 1), NEW j \in 1..(n - 1), w[i].id = w[j].id
                 PROVE  i = j
        BY <2>5 DEF Distinct
    <3>1. g(i) \in DOMAIN s /\ g(j) \in DOMAIN s /\ s[g(i)].id = s[g(j)].id
        BY <2>5, <2>6
    <3>2. g(i) = g(j)
        BY <3>1 DEF Distinct
    <3>3. QED
        BY <2>6, <3>2
  <2>8. Ordered(w)
    <3> SUFFICES ASSUME NEW i \in 1..(n - 1), NEW j \in 1..(n - 1), i < j
                 PROVE  w[i].timeout <= w[j].timeout
        BY <2>5 DEF Ordered
    <3>1. g(i) \in DOMAIN s /\ g(j) \in DOMAIN s /\ g(i) < g(j)
        BY <2>6
    <3>2. s[g(i)].timeout <= s[g(j)].timeout
        BY <3>1 DEF Ordered
    <3>3. QED
        BY <2>5, <3>2
  <2>9. Ids(w) = Ids(s) \ {id}
    <3>1. \A i \in 1..(n - 1) : w[i].id \in Ids(s) /\ w[i].id # id
        BY <2>1, <2>5, <2>6 DEF Ids, Distinct
    <3>2. \A j \in DOMAIN s : s[j].id # id => \E i \in 1..(n - 1) : w[i].id = s[j].id
        BY <2>1, <2>5, <2>6
    <3>3. Ids(w) = {w[i].id : i \in 1..(n - 1)} /\ Ids(s) = {s[j].id : j \in DOMAIN s}
        BY <2>5 DEF Ids
    <3>4. \A x : x \in Ids(w) <=> x \in Ids(s) \ {id}
      <4>1. \A x : x \in Ids(w) => x \in Ids(s) \ {id}
          BY ONLY <3>1, <3>3
      <4>2. \A x : x \in Ids(s) \ {id} => x \in Ids(w)
          BY ONLY <3>2, <3>3
      <4>3. QED
          BY ONLY <4>1, <4>2
    <3>5. QED
        BY ONLY <3>4
  <2>10. \A i \in DOMAIN w : \E j \in DOMAIN s : w[i] = s[j]
      BY <2>5, <2>6
  <2>11. QED
      BY <2>5, <2>7, <2>8, <2>9, <2>10 DEF w
<1>4. QED
    BY <1>2, <1>3

-----------------------------------------------------------------------------
(* What an update does to the lists. *)

LEMMA RescheduledFacts ==
    ASSUME TypeOK, Distinct(orders), NEW n \in Nat
    PROVE  /\ Rescheduled(n) \in Seq(Timer) /\ DOMAIN Rescheduled(n) = DOMAIN orders
           /\ \A i \in DOMAIN orders :
                 /\ Rescheduled(n)[i].id = orders[i].id
                 /\ Rescheduled(n)[i].freq = orders[i].freq
                 /\ Rescheduled(n)[i].timeout =
                       IF i <= n THEN clock + orders[i].freq ELSE orders[i].timeout
           /\ Distinct(Rescheduled(n)) /\ Ids(Rescheduled(n)) = Ids(orders)
<1> DEFINE r == Rescheduled(n)
<1>1. orders \in Seq(Timer) /\ clock \in Nat
    BY TimerAssumption DEF TypeOK
<1>2. \A i \in DOMAIN orders : /\ orders[i] \in Timer /\ orders[i].freq \in Nat
                               /\ clock + orders[i].freq \in Nat
    BY <1>1, SeqOf
<1>3. \A i \in DOMAIN orders :
        /\ r[i] = IF i <= n THEN [orders[i] EXCEPT !.timeout = clock + orders[i].freq]
                            ELSE orders[i]
        /\ r[i] \in Timer
        /\ r[i].id = orders[i].id /\ r[i].freq = orders[i].freq
        /\ r[i].timeout = IF i <= n THEN clock + orders[i].freq ELSE orders[i].timeout
    BY <1>2 DEF Rescheduled, Timer
<1>4. DOMAIN r = DOMAIN orders
    BY DEF Rescheduled
<1>5. r \in Seq(Timer)
  <2>1. DOMAIN orders = 1..Len(orders) /\ Len(orders) \in Nat
      BY <1>1, SeqOf
  <2>2. r \in [1..Len(orders) -> Timer]
      BY <1>3, <2>1 DEF Rescheduled
  <2>3. QED
      BY ONLY <2>1, <2>2
<1> HIDE DEF r
<1>6. Distinct(r)
    BY <1>3, <1>4 DEF Distinct
<1>7. Ids(r) = Ids(orders)
    BY <1>3, <1>4 DEF Ids
<1>8. QED
    BY <1>3, <1>4, <1>5, <1>6, <1>7 DEF r

LEMMA RestFacts ==
    ASSUME NEW s \in Seq(Timer), Distinct(s), NEW m \in 0..Len(s)
    PROVE  LET r == SubSeq(s, m + 1, Len(s)) IN
           /\ r \in Seq(Timer) /\ Distinct(r)
           /\ Ids(r) = Ids(s) \ {s[i].id : i \in 1..m}
<1> DEFINE r == SubSeq(s, m + 1, Len(s))
           n == Len(s)
<1>1. n \in Nat /\ DOMAIN s = 1..n /\ m \in Nat /\ m <= n
    BY SeqOf
<1>2. /\ r \in Seq(Timer) /\ DOMAIN r = 1..(n - m)
      /\ \A i \in 1..(n - m) : r[i] = s[m + i]
    BY ONLY <1>1, s \in Seq(Timer)
<1> HIDE DEF r, n
<1>3. \A i \in 1..(n - m) : m + i \in DOMAIN s /\ m + i \notin 1..m
    BY <1>1
<1>4. \A j \in DOMAIN s : j \notin 1..m => j - m \in 1..(n - m) /\ m + (j - m) = j
    BY <1>1
<1>5. Distinct(r)
  <2> SUFFICES ASSUME NEW i \in 1..(n - m), NEW j \in 1..(n - m), r[i].id = r[j].id
               PROVE  i = j
      BY <1>2 DEF Distinct
  <2>1. s[m + i].id = s[m + j].id
      BY <1>2
  <2>2. m + i = m + j
      BY <1>3, <2>1 DEF Distinct
  <2>3. QED
      BY <1>1, <2>2
<1>6. \A x : x \in Ids(r) <=> x \in Ids(s) \ {s[i].id : i \in 1..m}
  <2>1. ASSUME NEW x \in Ids(r) PROVE x \in Ids(s) \ {s[i].id : i \in 1..m}
    <3>1. PICK i \in 1..(n - m) : x = s[m + i].id
        BY <1>2, <2>1 DEF Ids
    <3>2. \A j \in 1..m : j \in DOMAIN s /\ s[j].id # x
        BY <1>1, <1>3, <3>1 DEF Distinct
    <3>3. QED
        BY <1>3, <3>1, <3>2 DEF Ids
  <2>2. ASSUME NEW x \in Ids(s) \ {s[i].id : i \in 1..m} PROVE x \in Ids(r)
    <3>1. PICK j \in DOMAIN s : x = s[j].id /\ j \notin 1..m
        BY <2>2 DEF Ids
    <3>2. r[j - m].id = x /\ j - m \in DOMAIN r
        BY <1>2, <1>4, <3>1
    <3>3. QED
        BY <3>2 DEF Ids
  <2>3. QED
      BY <2>1, <2>2
<1>7. QED
    BY <1>2, <1>5, <1>6 DEF r, n

(* The identifiers that an update fires: those of the timers due, each once. *)
LEMMA TriggerFacts ==
    ASSUME Inv, orders # <<>>
    PROVE  LET n == DueCount(orders)
               m == DueCount(once_orders)
               t == Trigger(n, m)
           IN  /\ n \in 0..Len(orders) /\ m \in 0..Len(once_orders)
               /\ t \in Seq(1..MaxTimers) /\ Len(t) = n + m
               /\ {t[i] : i \in DOMAIN t} = {orders[i].id : i \in 1..n}
                                              \cup {once_orders[i].id : i \in 1..m}
               /\ {t[i] : i \in DOMAIN t} = DueIds
               /\ Cardinality({t[i] : i \in DOMAIN t}) = Len(t)
<1> DEFINE n == DueCount(orders)
           m == DueCount(once_orders)
           t == Trigger(n, m)
           F == {t[i] : i \in DOMAIN t}
<1>1. /\ orders \in Seq(Timer) /\ once_orders \in Seq(Timer) /\ clock \in Nat
      /\ Ordered(orders) /\ Ordered(once_orders) /\ Distinct(orders) /\ Distinct(once_orders)
      /\ Ids(orders) \cap Ids(once_orders) = {}
    BY TimerAssumption DEF Inv, TypeOK, ListInv
<1>2. /\ n \in 0..Len(orders)
      /\ \A i \in DOMAIN orders : orders[i].timeout <= clock <=> i <= n
    BY <1>1, DueFirst
<1>3. /\ m \in 0..Len(once_orders)
      /\ \A i \in DOMAIN once_orders : once_orders[i].timeout <= clock <=> i <= m
    BY <1>1, DueFirst
<1>4. /\ Len(orders) \in Nat /\ DOMAIN orders = 1..Len(orders)
      /\ Len(once_orders) \in Nat /\ DOMAIN once_orders = 1..Len(once_orders)
    BY <1>1, SeqOf
<1> HIDE DEF n, m
<1>5. n \in Nat /\ m \in Nat /\ 1..n \subseteq DOMAIN orders /\ 1..m \subseteq DOMAIN once_orders
    BY <1>2, <1>3, <1>4
<1>6. /\ \A i \in 1..n : t[i] = orders[i].id /\ i \in 1..(n + m)
      /\ \A i \in 1..m : t[n + i] = once_orders[i].id /\ n + i \in 1..(n + m)
      /\ \A i \in 1..(n + m) : i \in 1..n \/ (i - n \in 1..m /\ n + (i - n) = i)
      /\ DOMAIN t = 1..(n + m)
  <2>1. \A i \in 1..m : n + i \in 1..(n + m) /\ ~(n + i <= n) /\ (n + i) - n = i
      BY <1>5
  <2>2. \A i \in 1..n : i \in 1..(n + m) /\ i <= n
      BY <1>5
  <2>3. \A i \in 1..(n + m) : i \in 1..n \/ (i - n \in 1..m /\ n + (i - n) = i)
      BY <1>5
  <2>4. QED
      BY <2>1, <2>2, <2>3 DEF Trigger
<1>7. \A i \in DOMAIN orders, j \in DOMAIN once_orders : orders[i].id # once_orders[j].id
    BY <1>1 DEF Ids
<1> HIDE DEF t
<1>8. t \in Seq(1..MaxTimers) /\ Len(t) = n + m
  <2>1. \A i \in 1..(n + m) : t[i] \in 1..MaxTimers
    <3>1. \A i \in 1..n : orders[i].id \in 1..MaxTimers
        BY <1>1, <1>5, SeqOf
    <3>2. \A i \in 1..m : once_orders[i].id \in 1..MaxTimers
        BY <1>1, <1>5, SeqOf
    <3>3. QED
        BY <1>6, <3>1, <3>2
  <2>2. t \in [1..(n + m) -> 1..MaxTimers] /\ n + m \in Nat
      BY <1>5, <1>6, <2>1 DEF t, Trigger
  <2>3. QED
      BY <2>2, FunSeq
<1>9. F = {orders[i].id : i \in 1..n} \cup {once_orders[i].id : i \in 1..m}
  <2>1. ASSUME NEW x \in F
        PROVE  x \in {orders[i].id : i \in 1..n} \cup {once_orders[i].id : i \in 1..m}
    <3>1. PICK i \in 1..(n + m) : x = t[i]
        BY <1>6, <2>1
    <3>2. CASE i \in 1..n
        BY <1>6, <3>1, <3>2
    <3>3. CASE i - n \in 1..m /\ n + (i - n) = i
        BY <1>6, <3>1, <3>3
    <3>4. QED
        BY <1>6, <3>2, <3>3
  <2>2. \A i \in 1..n : orders[i].id \in F
      BY <1>6
  <2>3. \A i \in 1..m : once_orders[i].id \in F
      BY <1>6
  <2>4. QED
      BY <2>1, <2>2, <2>3
<1>10. F = DueIds
  <2>1. /\ {j \in DOMAIN orders : orders[j].timeout <= clock} = 1..n
        /\ {j \in DOMAIN once_orders : once_orders[j].timeout <= clock} = 1..m
      BY <1>2, <1>3, <1>4, <1>5
  <2>2. QED
      BY <1>9, <2>1 DEF DueIds
<1>11. Cardinality(F) = Len(t)
  <2>1. \A i, j \in 1..(n + m) : t[i] = t[j] => i = j
    <3> SUFFICES ASSUME NEW i \in 1..(n + m), NEW j \in 1..(n + m), t[i] = t[j]
                 PROVE  i = j
        OBVIOUS
    <3>1. CASE i \in 1..n /\ j \in 1..n
      <4>1. orders[i].id = orders[j].id
          BY <1>6, <3>1
      <4>2. QED
          BY <1>1, <1>5, <3>1, <4>1 DEF Distinct
    <3>2. CASE i - n \in 1..m /\ n + (i - n) = i /\ j - n \in 1..m /\ n + (j - n) = j
      <4>1. once_orders[i - n].id = once_orders[j - n].id
          BY <1>6, <3>2
      <4>2. i - n = j - n
          BY <1>1, <1>5, <3>2, <4>1 DEF Distinct
      <4>3. QED
          BY <3>2, <4>2
    <3>3. CASE i \in 1..n /\ j - n \in 1..m /\ n + (j - n) = j
      <4>1. t[i] = orders[i].id /\ t[j] = once_orders[j - n].id
          BY <1>6, <3>3
      <4>2. QED
          BY <1>5, <1>7, <3>3, <4>1
    <3>4. CASE j \in 1..n /\ i - n \in 1..m /\ n + (i - n) = i
      <4>1. t[j] = orders[j].id /\ t[i] = once_orders[i - n].id
          BY <1>6, <3>4
      <4>2. QED
          BY <1>5, <1>7, <3>4, <4>1
    <3>5. QED
        BY <1>6, <3>1, <3>2, <3>3, <3>4
  <2>2. t \in Bijection(1..(n + m), F)
    <3>1. t \in [1..(n + m) -> F]
        BY <1>6, <1>8
    <3>2. \A x \in F : \E i \in 1..(n + m) : t[i] = x
        BY <1>6
    <3> HIDE DEF F
    <3>3. QED
        BY <2>1, <3>1, <3>2 DEF Bijection, Injection, IsInjective, Surjection
  <2>3. IsFiniteSet(1..(n + m)) /\ Cardinality(1..(n + m)) = n + m
      BY <1>5, FS_Interval
  <2>4. QED
      BY <1>8, <2>2, <2>3, FS_Bijection DEF ExistsBijection
<1>12. QED
    BY <1>2, <1>3, <1>8, <1>9, <1>10, <1>11 DEF t, n, m

-----------------------------------------------------------------------------
(* The invariant. *)

LEMMA InvInit == Init => Inv
<1> SUFFICES ASSUME Init PROVE Inv
    OBVIOUS
<1>1. \A T : <<>> \in Seq(T)
    OBVIOUS
<1>2. TypeOK
  <2>1. MaxClock \in Nat /\ MaxTimers \in Nat
      BY TimerAssumption
  <2>2. clock \in 0..MaxClock /\ inc_id \in 0..MaxTimers
        /\ last \in [1..MaxTimers -> -1..MaxClock]
      BY <2>1 DEF Init
  <2>3. panicked \in BOOLEAN /\ updated \in BOOLEAN
      BY DEF Init
  <2>4. QED
      BY <1>1, <2>2, <2>3 DEF Init, TypeOK
<1>3. orders = <<>> /\ once_orders = <<>> /\ Ids(orders) = {} /\ Ids(once_orders) = {}
    BY DEF Init, Ids
<1>4. ListInv
    BY <1>3 DEF Init, ListInv, Ordered, Distinct
<1>5. LastInv
    BY <1>3 DEF Init, LastInv
<1>6. QED
    BY <1>2, <1>4, <1>5 DEF Inv

(* Steps that fire nothing and leave the clock alone keep most of TypeOK. *)
LEMMA QuietType ==
    ASSUME Inv, NotUpdate, UNCHANGED last,
           orders' \in Seq(Timer), once_orders' \in Seq(Timer),
           clock' \in 0..MaxClock, inc_id' \in 0..MaxTimers, panicked' \in BOOLEAN,
           dead' \subseteq 1..MaxTimers
    PROVE  TypeOK'
<1>1. updated' \in BOOLEAN /\ fired' \in Seq(1..MaxTimers)
  <2>1. \A T : <<>> \in Seq(T)
      OBVIOUS
  <2>2. QED
      BY <2>1 DEF NotUpdate
<1>2. last' \in [1..MaxTimers -> -1..MaxClock]
    BY DEF Inv, TypeOK
<1>3. QED
    BY <1>1, <1>2 DEF TypeOK

LEMMA ClockKeeps == ASSUME Inv, ClockMoves PROVE Inv'
<1>1. TypeOK'
    BY QuietType DEF ClockMoves, Inv, TypeOK
<1>2. ListInv' /\ LastInv'
    BY DEF ClockMoves, Inv, ListInv, LastInv
<1>3. QED
    BY <1>1, <1>2 DEF Inv

LEMMA PanicKeeps ==
    ASSUME Inv, NEW b \in Begins, NEW f \in Freqs, AddTimerPanics(b, f) PROVE Inv'
<1>1. TypeOK'
    BY QuietType DEF AddTimerPanics, Inv, TypeOK
<1>2. ListInv' /\ LastInv'
    BY DEF AddTimerPanics, Inv, ListInv, LastInv
<1>3. QED
    BY <1>1, <1>2 DEF Inv

LEMMA AddKeeps ==
    ASSUME Inv, NEW b \in Begins, NEW f \in Freqs, AddTimer(b, f) PROVE Inv'
<1> DEFINE t == [timeout |-> clock + b, id |-> inc_id + 1, freq |-> f]
<1>1. /\ b >= 0 /\ f >= 0 /\ inc_id < MaxTimers /\ inc_id' = inc_id + 1 /\ NotUpdate
      /\ UNCHANGED <<clock, panicked, last, dead>>
      /\ \/ once_orders' = Sorted(Append(once_orders, t)) /\ UNCHANGED orders
         \/ orders' = Sorted(Append(orders, t)) /\ UNCHANGED once_orders
    BY DEF AddTimer
<1>2. b \in Nat /\ f \in Nat /\ MaxTimers \in Nat /\ clock \in Nat /\ inc_id \in Nat
    BY <1>1, TimerAssumption DEF Inv, TypeOK
<1>3. t \in Timer /\ t.id = inc_id + 1
    BY <1>1, <1>2 DEF Timer
<1>4. /\ orders \in Seq(Timer) /\ once_orders \in Seq(Timer)
      /\ Distinct(orders) /\ Distinct(once_orders) /\ Ordered(orders) /\ Ordered(once_orders)
      /\ Ids(orders) \cap Ids(once_orders) = {}
      /\ Ids(orders) \cup Ids(once_orders) = (1..inc_id) \ dead
      /\ dead \subseteq 1..inc_id
    BY DEF Inv, TypeOK, ListInv, LastInv
<1>5. t.id \notin Ids(orders) \cup Ids(once_orders)
    BY <1>2, <1>3, <1>4
<1>6. (1..inc_id') \ dead' = ((1..inc_id) \ dead) \cup {t.id}
    BY <1>1, <1>2, <1>3, <1>4
<1> HIDE DEF t
<1>7. ASSUME NEW s \in {orders, once_orders}, NEW r, r = Sorted(Append(s, t))
      PROVE  /\ r \in Seq(Timer) /\ Distinct(r) /\ Ordered(r) /\ Ids(r) = Ids(s) \cup {t.id}
             /\ \A i \in DOMAIN r : r[i] = t \/ \E j \in DOMAIN s : r[i] = s[j]
  <2>1. s \in Seq(Timer) /\ Distinct(s) /\ t.id \notin Ids(s)
      BY <1>4, <1>5
  <2>2. /\ Append(s, t) \in Seq(Timer) /\ Distinct(Append(s, t))
        /\ Ids(Append(s, t)) = Ids(s) \cup {t.id}
        /\ \A i \in DOMAIN Append(s, t) :
              Append(s, t)[i] = t \/ \E j \in DOMAIN s : Append(s, t)[i] = s[j]
      BY <1>3, <2>1, Pushed
  <2>3. /\ r \in Seq(Timer) /\ Distinct(r) /\ Ordered(r) /\ Ids(r) = Ids(Append(s, t))
        /\ \A k \in DOMAIN r : \E i \in DOMAIN Append(s, t) : r[k] = Append(s, t)[i]
      BY <1>7, <2>2, SortedFacts
  <2>4. QED
      BY <2>2, <2>3
<1>8. PICK q, o : q = orders' /\ o = once_orders'
    OBVIOUS
<1>9. /\ q \in Seq(Timer) /\ o \in Seq(Timer) /\ Distinct(q) /\ Distinct(o)
      /\ Ordered(q) /\ Ordered(o)
      /\ \/ Ids(q) = Ids(orders) /\ Ids(o) = Ids(once_orders) \cup {t.id}
         \/ Ids(o) = Ids(once_orders) /\ Ids(q) = Ids(orders) \cup {t.id}
      /\ \A i \in DOMAIN q : q[i] = t \/ \E j \in DOMAIN orders : q[i] = orders[j]
  <2>1. CASE o = Sorted(Append(once_orders, t)) /\ q = orders
      BY <1>4, <1>7, <2>1
  <2>2. CASE q = Sorted(Append(orders, t)) /\ o = once_orders
      BY <1>4, <1>7, <2>2
  <2>3. QED
      BY <1>1, <1>8, <2>1, <2>2 DEF t
<1>10. TypeOK'
  <2>1. inc_id' \in 0..MaxTimers /\ clock' \in 0..MaxClock /\ panicked' \in BOOLEAN
        /\ dead' \subseteq 1..MaxTimers
      BY <1>1, <1>2 DEF Inv, TypeOK
  <2>2. QED
      BY <1>1, <1>8, <1>9, <2>1, QuietType
<1>11. ListInv'
  <2>1. Ids(q) \cap Ids(o) = {} /\ Ids(q) \cup Ids(o) = (1..inc_id') \ dead'
      BY <1>4, <1>5, <1>6, <1>9
  <2>2. QED
      BY <1>8, <1>9, <2>1 DEF ListInv
<1>12. LastInv'
  <2>1. \A i \in 1..MaxTimers : i > inc_id' => last'[i] = -1
      BY <1>1, <1>2 DEF Inv, LastInv
  <2>2. dead' \subseteq 1..inc_id'
      BY <1>1, <1>2, <1>4
  <2>3. last[t.id] = -1
      BY <1>1, <1>2, <1>3 DEF Inv, LastInv
  <2>4. \A i \in DOMAIN q : last'[q[i].id] # -1 => q[i].timeout >= last'[q[i].id] + q[i].freq
      BY <1>1, <1>9, <2>3 DEF Inv, LastInv
  <2>5. QED
      BY <1>8, <2>1, <2>2, <2>4 DEF LastInv
<1>13. QED
    BY <1>10, <1>11, <1>12 DEF Inv

LEMMA RemoveKeeps ==
    ASSUME Inv, NEW id \in 1..MaxTimers, RemoveTimer(id) PROVE Inv'
<1>1. /\ id \in Ids(orders) \cup Ids(once_orders) /\ NotUpdate
      /\ orders' = Without(orders, id) /\ once_orders' = Without(once_orders, id)
      /\ dead' = dead \cup {id} /\ UNCHANGED <<clock, inc_id, panicked, last>>
    BY DEF RemoveTimer
<1>2. /\ orders \in Seq(Timer) /\ once_orders \in Seq(Timer)
      /\ Distinct(orders) /\ Distinct(once_orders) /\ Ordered(orders) /\ Ordered(once_orders)
      /\ Ids(orders) \cap Ids(once_orders) = {}
      /\ Ids(orders) \cup Ids(once_orders) = (1..inc_id) \ dead
      /\ dead \subseteq 1..inc_id /\ dead \subseteq 1..MaxTimers
    BY DEF Inv, TypeOK, ListInv, LastInv
<1>3. PICK q, o : q = Without(orders, id) /\ o = Without(once_orders, id)
    OBVIOUS
<1>4. /\ q \in Seq(Timer) /\ Distinct(q) /\ Ordered(q) /\ Ids(q) = Ids(orders) \ {id}
      /\ \A i \in DOMAIN q : \E j \in DOMAIN orders : q[i] = orders[j]
    BY <1>2, <1>3, Removed
<1>5. o \in Seq(Timer) /\ Distinct(o) /\ Ordered(o) /\ Ids(o) = Ids(once_orders) \ {id}
    BY <1>2, <1>3, Removed
<1>6. q = orders' /\ o = once_orders'
    BY <1>1, <1>3
<1>7. TypeOK'
  <2>1. inc_id' \in 0..MaxTimers /\ clock' \in 0..MaxClock /\ panicked' \in BOOLEAN
        /\ dead' \subseteq 1..MaxTimers
      BY <1>1, <1>2 DEF Inv, TypeOK
  <2>2. QED
      BY <1>1, <1>4, <1>5, <1>6, <2>1, QuietType
<1>8. ListInv'
  <2>1. Ids(q) \cap Ids(o) = {} /\ Ids(q) \cup Ids(o) = (1..inc_id') \ dead'
      BY <1>1, <1>2, <1>4, <1>5
  <2>2. QED
      BY <1>4, <1>5, <1>6, <2>1 DEF ListInv
<1>9. LastInv'
  <2>1. dead' \subseteq 1..inc_id'
      BY <1>1, <1>2
  <2>2. \A i \in DOMAIN q : last'[q[i].id] # -1 => q[i].timeout >= last'[q[i].id] + q[i].freq
      BY <1>1, <1>4 DEF Inv, LastInv
  <2>3. QED
      BY <1>1, <1>6, <2>1, <2>2 DEF Inv, LastInv
<1>10. QED
    BY <1>7, <1>8, <1>9 DEF Inv

LEMMA UpdateEmpty ==
    ASSUME Inv, Update, orders = <<>>
    PROVE  /\ UNCHANGED <<clock, inc_id, panicked, orders, once_orders, dead>>
           /\ updated' = TRUE /\ fired' = <<>> /\ last' = last
<1>1. {(<<>>)[i] : i \in DOMAIN <<>>} = {}
    OBVIOUS
<1>2. /\ UNCHANGED <<clock, inc_id, panicked, orders, once_orders>>
      /\ updated' = TRUE /\ fired' = <<>>
      /\ last' = [i \in DOMAIN last |-> IF i \in {} THEN clock ELSE last[i]]
      /\ dead' = dead \cup ({} \cap Ids(once_orders))
    BY <1>1, Zenon DEF Update
<1>3. last \in [1..MaxTimers -> -1..MaxClock]
    BY DEF Inv, TypeOK
<1>4. QED
    BY <1>2, <1>3

LEMMA UpdateFires ==
    ASSUME Inv, Update, orders # <<>>
    PROVE  LET n == DueCount(orders)
               m == DueCount(once_orders)
               t == Trigger(n, m)
               F == {t[i] : i \in DOMAIN t}
           IN  /\ updated' = TRUE /\ fired' = t /\ UNCHANGED <<clock, inc_id, panicked>>
               /\ orders' = Sorted(Rescheduled(n))
               /\ once_orders' = Sorted(SubSeq(once_orders, m + 1, Len(once_orders)))
               /\ last' = [i \in DOMAIN last |-> IF i \in F THEN clock ELSE last[i]]
               /\ dead' = dead \cup (F \cap Ids(once_orders))
  BY Zenon DEF Update

LEMMA UpdateKeeps == ASSUME Inv, Update, orders # <<>> PROVE Inv'
<1> DEFINE t == Trigger(DueCount(orders), DueCount(once_orders))
<1>1. PICK n, m, F, W : /\ n = DueCount(orders) /\ m = DueCount(once_orders)
                        /\ F = {t[i] : i \in DOMAIN t}
                        /\ W = {once_orders[i].id : i \in 1..m}
    OBVIOUS
<1>2. /\ n \in 0..Len(orders) /\ m \in 0..Len(once_orders) /\ t \in Seq(1..MaxTimers)
      /\ F = {orders[i].id : i \in 1..n} \cup W
    BY <1>1, TriggerFacts
<1>3. /\ updated' = TRUE /\ fired' = t /\ UNCHANGED <<clock, inc_id, panicked>>
      /\ orders' = Sorted(Rescheduled(n))
      /\ once_orders' = Sorted(SubSeq(once_orders, m + 1, Len(once_orders)))
      /\ last' = [i \in DOMAIN last |-> IF i \in F THEN clock ELSE last[i]]
      /\ dead' = dead \cup (F \cap Ids(once_orders))
    BY <1>1, UpdateFires
<1>4. /\ orders \in Seq(Timer) /\ once_orders \in Seq(Timer)
      /\ Distinct(orders) /\ Distinct(once_orders)
      /\ Ids(orders) \cap Ids(once_orders) = {}
      /\ Ids(orders) \cup Ids(once_orders) = (1..inc_id) \ dead
      /\ dead \subseteq 1..inc_id /\ inc_id \in 0..MaxTimers /\ MaxTimers \in Nat
      /\ last \in [1..MaxTimers -> -1..MaxClock] /\ clock \in 0..MaxClock /\ MaxClock \in Nat
    BY TimerAssumption DEF Inv, TypeOK, ListInv, LastInv
<1>5. n \in Nat /\ m \in Nat /\ 1..n \subseteq DOMAIN orders /\ 1..m \subseteq DOMAIN once_orders
  <2>1. /\ Len(orders) \in Nat /\ DOMAIN orders = 1..Len(orders)
        /\ Len(once_orders) \in Nat /\ DOMAIN once_orders = 1..Len(once_orders)
      BY <1>4, SeqOf
  <2>2. QED
      BY ONLY <1>2, <2>1
<1> HIDE DEF t
<1>6. W \subseteq Ids(once_orders) /\ {orders[i].id : i \in 1..n} \subseteq Ids(orders)
    BY <1>1, <1>5 DEF Ids
<1>7. F \cap Ids(once_orders) = W /\ F \subseteq 1..inc_id /\ W \subseteq 1..inc_id
    BY <1>2, <1>4, <1>6
<1>8. PICK r, q : r = Rescheduled(n) /\ q = Sorted(r)
    OBVIOUS
<1>9. /\ r \in Seq(Timer) /\ DOMAIN r = DOMAIN orders /\ Distinct(r) /\ Ids(r) = Ids(orders)
      /\ \A i \in DOMAIN orders :
            /\ r[i].id = orders[i].id /\ r[i].freq = orders[i].freq
            /\ r[i].timeout = IF i <= n THEN clock + orders[i].freq ELSE orders[i].timeout
    BY <1>4, <1>5, <1>8, RescheduledFacts DEF Inv
<1>10. /\ q \in Seq(Timer) /\ Ordered(q) /\ Distinct(q) /\ Ids(q) = Ids(orders)
       /\ \A k \in DOMAIN q : \E i \in DOMAIN orders : q[k] = r[i]
    BY <1>8, <1>9, SortedFacts
<1>11. PICK u, o : u = SubSeq(once_orders, m + 1, Len(once_orders)) /\ o = Sorted(u)
    OBVIOUS
<1>12. u \in Seq(Timer) /\ Distinct(u) /\ Ids(u) = Ids(once_orders) \ W
    BY <1>1, <1>2, <1>4, <1>11, RestFacts
<1>13. o \in Seq(Timer) /\ Ordered(o) /\ Distinct(o) /\ Ids(o) = Ids(once_orders) \ W
    BY <1>11, <1>12, SortedFacts
<1>14. q = orders' /\ o = once_orders' /\ dead' = dead \cup W
    BY <1>3, <1>7, <1>8, <1>11
<1>15. TypeOK'
  <2>1. last' \in [1..MaxTimers -> -1..MaxClock]
    <3>1. \A i \in 1..MaxTimers : (IF i \in F THEN clock ELSE last[i]) \in -1..MaxClock
        BY <1>4
    <3>2. QED
        BY <1>3, <1>4, <3>1
  <2>2. updated' \in BOOLEAN /\ panicked' \in BOOLEAN
      BY <1>3 DEF Inv, TypeOK
  <2>3. clock' \in 0..MaxClock /\ inc_id' \in 0..MaxTimers /\ fired' \in Seq(1..MaxTimers)
      BY <1>2, <1>3, <1>4
  <2>4. dead' \subseteq 1..MaxTimers
      BY <1>4, <1>7, <1>14
  <2>5. QED
      BY <1>10, <1>13, <1>14, <2>1, <2>2, <2>3, <2>4 DEF TypeOK
<1>16. ListInv'
  <2>1. Ids(q) \cap Ids(o) = {} /\ Ids(q) \cup Ids(o) = (1..inc_id') \ dead'
      BY <1>3, <1>4, <1>6, <1>10, <1>13, <1>14
  <2>2. QED
      BY <1>10, <1>13, <1>14, <2>1 DEF ListInv
<1>17. \A i \in DOMAIN q : last'[q[i].id] # -1 => q[i].timeout >= last'[q[i].id] + q[i].freq
  <2> SUFFICES ASSUME NEW i \in DOMAIN q, last'[q[i].id] # -1
               PROVE  q[i].timeout >= last'[q[i].id] + q[i].freq
      OBVIOUS
  <2>1. PICK k \in DOMAIN orders : q[i] = r[k]
      BY <1>10
  <2>2. /\ orders[k].id \in 1..MaxTimers /\ orders[k].freq \in Nat /\ orders[k].id \in Ids(orders)
        /\ q[i].id = orders[k].id /\ q[i].freq = orders[k].freq
        /\ q[i].timeout = IF k <= n THEN clock + orders[k].freq ELSE orders[k].timeout
        /\ k \in Nat /\ k >= 1
    <3>1. k \in Nat /\ k >= 1 /\ orders[k].id \in 1..MaxTimers /\ orders[k].freq \in Nat
        BY <1>4, SeqOf
    <3>2. QED
        BY <1>9, <2>1, <3>1 DEF Ids
  <2>3. CASE k <= n
    <3>1. orders[k].id \in F
        BY <1>2, <1>5, <2>2, <2>3
    <3>2. last'[orders[k].id] = clock
        BY <1>3, <1>4, <2>2, <3>1
    <3>3. QED
        BY <1>4, <2>2, <2>3, <3>2
  <2>4. CASE ~(k <= n)
    <3>1. \A j \in 1..n : orders[j].id # orders[k].id
        BY <1>4, <1>5, <2>2, <2>4 DEF Distinct
    <3>2. orders[k].id \notin F
        BY <1>2, <1>4, <1>6, <2>2, <3>1
    <3>3. last'[orders[k].id] = last[orders[k].id]
        BY <1>3, <1>4, <2>2, <3>2
    <3>4. QED
        BY <2>2, <2>4, <3>3 DEF Inv, LastInv
  <2>5. QED
      BY <2>3, <2>4
<1>18. LastInv'
  <2>1. \A i \in 1..MaxTimers : i > inc_id' => last'[i] = -1
    <3>1. \A i \in 1..MaxTimers : i > inc_id => i \notin F /\ last[i] = -1
        BY <1>4, <1>7 DEF Inv, LastInv
    <3>2. QED
        BY <1>3, <1>4, <3>1
  <2>2. dead' \subseteq 1..inc_id'
      BY <1>3, <1>4, <1>7, <1>14
  <2>3. QED
      BY <1>14, <1>17, <2>1, <2>2 DEF LastInv
<1>19. QED
    BY <1>15, <1>16, <1>18 DEF Inv

LEMMA InvNext == Inv /\ [Next]_vars => Inv'
<1> SUFFICES ASSUME Inv, [Next]_vars PROVE Inv'
    OBVIOUS
<1>1. CASE ClockMoves
    BY <1>1, ClockKeeps
<1>2. ASSUME NEW b \in Begins, NEW f \in Freqs, AddTimer(b, f) \/ AddTimerPanics(b, f)
      PROVE  Inv'
    BY <1>2, AddKeeps, PanicKeeps
<1>3. ASSUME NEW id \in 1..MaxTimers, RemoveTimer(id) PROVE Inv'
    BY <1>3, RemoveKeeps
<1>4. CASE Update
  <2>1. CASE orders = <<>>
    <3>1. /\ UNCHANGED <<clock, inc_id, panicked, orders, once_orders, dead, last>>
          /\ updated' = TRUE /\ fired' = <<>>
        BY <1>4, <2>1, UpdateEmpty
    <3>2. \A T : <<>> \in Seq(T)
        OBVIOUS
    <3>3. updated' \in BOOLEAN /\ panicked' \in BOOLEAN /\ fired' \in Seq(1..MaxTimers)
        BY <3>1, <3>2 DEF Inv, TypeOK
    <3>4. TypeOK'
        BY <3>1, <3>3 DEF Inv, TypeOK
    <3>5. ListInv' /\ LastInv'
        BY <3>1 DEF Inv, ListInv, LastInv
    <3>6. QED
        BY <3>4, <3>5 DEF Inv
  <2>2. QED
      BY <1>4, <2>1, UpdateKeeps
<1>5. CASE UNCHANGED vars
  <2>1. TypeOK'
      BY <1>5 DEF vars, Inv, TypeOK
  <2>2. ListInv' /\ LastInv'
      BY <1>5 DEF vars, Inv, ListInv, LastInv
  <2>3. QED
      BY <2>1, <2>2 DEF Inv
<1>6. QED
    BY <1>1, <1>2, <1>3, <1>4, <1>5 DEF Next

-----------------------------------------------------------------------------
(* The theorems. *)

(* A step fires nothing, or exactly what is due. *)
LEMMA StepFires ==
    ASSUME Inv, Next
    PROVE  \/ fired' = <<>> /\ FiredIds' = {}
           \/ /\ FiredIds' = DueIds /\ Cardinality(FiredIds') = Len(fired')
              /\ DueIds \subseteq Ids(orders) \cup Ids(once_orders)
<1>1. CASE fired' = <<>>
    BY <1>1 DEF FiredIds
<1>2. CASE Update /\ orders # <<>>
  <2> DEFINE t == Trigger(DueCount(orders), DueCount(once_orders))
  <2>1. fired' = t
      BY <1>2, UpdateFires
  <2>2. /\ {t[i] : i \in DOMAIN t} = DueIds
        /\ Cardinality({t[i] : i \in DOMAIN t}) = Len(t)
      BY <1>2, TriggerFacts
  <2> HIDE DEF t
  <2>3. FiredIds' = {t[i] : i \in DOMAIN t}
      BY <2>1 DEF FiredIds
  <2>4. DueIds \subseteq Ids(orders) \cup Ids(once_orders)
      BY DEF DueIds, Ids
  <2>5. QED
      BY <2>1, <2>2, <2>3, <2>4
<1>3. CASE Update /\ orders = <<>>
    BY <1>1, <1>3, UpdateEmpty
<1>4. CASE ~Update
    BY <1>1, <1>4 DEF Next, ClockMoves, AddTimer, AddTimerPanics, RemoveTimer, NotUpdate
<1>5. QED
    BY <1>2, <1>3, <1>4

(* Every reachable state is well typed. *)
THEOREM TypeCorrect == Spec => []TypeOK
<1>1. Inv => TypeOK
    BY DEF Inv
<1>2. QED
    BY InvInit, InvNext, <1>1, PTL DEF Spec

(* Both lists stay sorted by timeout, whatever the clock does, and hold     *)
(* each live timer once (src/cable/src/states/timer_state.rs:58-71, 110).   *)
THEOREM ListsKeptInOrder == Spec => []ListsInOrder
<1>1. Inv => ListsInOrder
  <2> SUFFICES ASSUME Inv PROVE ListsInOrder
      OBVIOUS
  <2>1. Cardinality(Ids(orders)) = Len(orders)
      BY Counted DEF Inv, TypeOK, ListInv
  <2>2. Cardinality(Ids(once_orders)) = Len(once_orders)
      BY Counted DEF Inv, TypeOK, ListInv
  <2>3. QED
      BY <2>1, <2>2 DEF Inv, ListInv, ListsInOrder
<1>2. QED
    BY InvInit, InvNext, <1>1, PTL DEF Spec

(* An update that fires anything fires what is due, all of it and once      *)
(* (src/cable/src/states/timer_state.rs:85-129).                            *)
THEOREM FiresWhatIsDue == Spec => FiresExactlyDue
<1> DEFINE Step == fired' # <<>> => /\ FiredIds' = DueIds
                                    /\ Cardinality(FiredIds') = Len(fired')
<1>1. Inv /\ [Next]_vars => [Step]_vars
    BY StepFires
<1>2. Spec => [][Step]_vars
    BY InvInit, InvNext, <1>1, PTL DEF Spec
<1>3. QED
    BY <1>2 DEF FiresExactlyDue

(* A timer that was removed, or a one-shot timer that has fired, never      *)
(* fires again (src/cable/src/states/timer_state.rs:62-82, 119-122).        *)
THEOREM DeadNeverFire == Spec => DeadStayDead
<1> DEFINE Step == FiredIds' \cap dead = {}
<1>1. Inv /\ [Next]_vars => [Step]_vars
  <2> SUFFICES ASSUME Inv, Next PROVE Step
      OBVIOUS
  <2>1. (Ids(orders) \cup Ids(once_orders)) \cap dead = {}
      BY DEF Inv, ListInv
  <2>2. QED
      BY <2>1, StepFires
<1>2. Spec => [][Step]_vars
    BY InvInit, InvNext, <1>1, PTL DEF Spec
<1>3. QED
    BY <1>2 DEF DeadStayDead

(* A periodic timer does not fire before its period has passed, however     *)
(* late the updates come and however the clock is set                       *)
(* (src/cable/src/states/timer_state.rs:112).                               *)
THEOREM PeriodIsKept == Spec => PeriodKept
<1> DEFINE Step == \A i \in DOMAIN orders :
                      LET t == orders[i] IN
                      (t.id \in FiredIds' /\ last[t.id] # -1) => clock >= last[t.id] + t.freq
<1>1. Inv /\ [Next]_vars => [Step]_vars
  <2> SUFFICES ASSUME Inv, Next, NEW i \in DOMAIN orders,
                      orders[i].id \in FiredIds', last[orders[i].id] # -1
               PROVE  clock >= last[orders[i].id] + orders[i].freq
      OBVIOUS
  <2>1. /\ orders \in Seq(Timer) /\ Distinct(orders) /\ clock \in Nat
        /\ Ids(orders) \cap Ids(once_orders) = {}
        /\ last \in [1..MaxTimers -> -1..MaxClock]
        /\ orders[i].timeout >= last[orders[i].id] + orders[i].freq
      BY TimerAssumption DEF Inv, TypeOK, ListInv, LastInv
  <2>2. orders[i].id \in DueIds /\ orders[i].id \in Ids(orders)
      BY StepFires DEF Ids
  <2>3. \A j \in DOMAIN once_orders : once_orders[j].id # orders[i].id
      BY <2>1, <2>2 DEF Ids
  <2>4. PICK j \in DOMAIN orders : orders[j].id = orders[i].id /\ orders[j].timeout <= clock
      BY <2>2, <2>3 DEF DueIds
  <2>5. orders[i].timeout <= clock
      BY <2>1, <2>4 DEF Distinct
  <2>6. /\ orders[i].timeout \in Nat /\ orders[i].freq \in Nat
        /\ last[orders[i].id] \in Int
      BY <2>1, SeqOf
  <2>7. QED
      BY ONLY <2>1, <2>5, <2>6
<1>2. Spec => [][Step]_vars
    BY InvInit, InvNext, <1>1, PTL DEF Spec
<1>3. QED
    BY <1>2 DEF PeriodKept

=============================================================================

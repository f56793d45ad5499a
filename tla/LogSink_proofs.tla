--------------------------- MODULE LogSink_proofs ---------------------------
(***************************************************************************)
(* A log file has the messages of one day, as far as a restart can know,   *)
(* and is rolled when it is full; the files are one book; and a thread     *)
(* that goes on loses a message in one case only: for any number of tasks, *)
(* dates, messages of any length and shape, and restarts.                  *)
(***************************************************************************)
EXTENDS LogSink, FlattenTheorems, SequenceTheorems, TLAPS

AllDated(f) == \A i \in DOMAIN f : f[i].shape = "dated"
OneDay(f) == \A i \in 1..(Len(f) - 1) : Bears(f[i]) => f[i + 1].written = f[i].written

(* The bytes of text in a file. *)
TextSize(f) == DiskSize(f) - Len(f)

(* Could a process that had written line k of the file add another one? *)
Room(f, k) == (\A j \in 1..k : f[j].shape = "dated") => f[k].end - k < MaxSize
Rationed(f) == \A i \in 2..Len(f) : f[i].by = f[i - 1].by => Room(f, i - 1)

(* The last file that was rolled was filled by this process. *)
FullRoll(g) ==
    /\ g.old # <<>>
    /\ Last(Last(g.old)).by = starts
    /\ Last(Last(g.old)).end >= MaxSize

(* What the thread knows of the file it has open; without an open file it   *)
(* has none, or has not looked yet, and then it has written nothing to it.  *)
Counted(g) ==
    /\ g.size <= DiskSize(g.file)
    /\ AllDated(g.file) => TextSize(g.file) <= g.size
Known(g) ==
    /\ g.open => /\ g.file # <<>> /\ g.file[Len(g.file)].written = g.date
                 /\ Counted(g) /\ g.size < MaxSize
    /\ g.open => g.date # 0
    /\ ~g.open /\ g.date # 0 => g.file = <<>> /\ FullRoll(g)

(* Who has written the current file. *)
Writers(g, n) == \A i \in DOMAIN g.file : g.file[i].by <= n
Fresh(g) == g.date = 0 => \A i \in DOMAIN g.file : g.file[i].by # starts

FileInv(g) ==
    /\ OneDay(g.file) /\ Rationed(g.file)
    /\ \A i \in DOMAIN g.old : OneDay(g.old[i]) /\ Rationed(g.old[i])

Inv == TypeOK /\ Known(log) /\ Writers(log, starts) /\ Fresh(log) /\ FileInv(log)

-----------------------------------------------------------------------------
(* Before check_size the counter may be past the limit. *)
Log0 == [file : Seq(Line), old : Seq(Seq(Line)),
         open : BOOLEAN, date : Days \cup {0}, size : Nat]

OldsGood(g) == \A i \in DOMAIN g.old : OneDay(g.old[i]) /\ Rationed(g.old[i])

LEMMA AppendSeq ==
    ASSUME NEW T, NEW q \in Seq(T), NEW e \in T
    PROVE  /\ Append(q, e) \in Seq(T) /\ Append(q, e) # <<>>
           /\ Len(q) \in Nat /\ DOMAIN q = 1..Len(q)
           /\ Len(Append(q, e)) = Len(q) + 1 /\ DOMAIN Append(q, e) = 1..(Len(q) + 1)
           /\ \A i \in 1..Len(q) : Append(q, e)[i] = q[i]
           /\ Append(q, e)[Len(q) + 1] = e
  OBVIOUS

LEMMA NoLines ==
    /\ <<>> \in Seq(Line) /\ Len(<<>>) = 0 /\ AllDated(<<>>) /\ OneDay(<<>>)
    /\ Rationed(<<>>)
  BY DEF AllDated, OneDay, Rationed

LEMMA Sizes ==
    ASSUME NEW f \in Seq(Line)
    PROVE  /\ DiskSize(f) \in Nat
           /\ f = <<>> => DiskSize(f) = 0 /\ TextSize(f) = 0
           /\ f # <<>> => DiskSize(f) = f[Len(f)].end
<1>1. f # <<>> => Len(f) \in DOMAIN f /\ f[Len(f)] \in Line
    OBVIOUS
<1>2. QED
    BY <1>1 DEF DiskSize, TextSize, Last, Line

LEMMA RolledFacts ==
    ASSUME NEW g \in Log0, NEW d \in Days, Rationed(g.file), OneDay(g.file), OldsGood(g)
    PROVE  /\ Rolled(g, d) \in Log0 /\ OldsGood(Rolled(g, d))
           /\ Rolled(g, d).file = <<>> /\ Rolled(g, d).open = FALSE
           /\ Rolled(g, d).size = 0 /\ Rolled(g, d).date = d
           /\ Rolled(g, d).old # <<>> /\ Last(Rolled(g, d).old) = g.file
<1> DEFINE h == Rolled(g, d)
<1>1. g.old \in Seq(Seq(Line)) /\ g.file \in Seq(Line)
    BY DEF Log0
<1>2. /\ h.file = <<>> /\ h.open = FALSE /\ h.size = 0 /\ h.date = d
      /\ h.old = Append(g.old, g.file)
    BY DEF Rolled, Log0
<1>3. Append(g.old, g.file) \in Seq(Seq(Line))
    BY <1>1
<1>4. h \in Log0
    BY <1>3, NoLines DEF Rolled, Log0
<1>5. \A i \in DOMAIN h.old : h.old[i] = g.file \/ (i \in DOMAIN g.old /\ h.old[i] = g.old[i])
    BY <1>1, <1>2
<1>6. OldsGood(h)
    BY <1>5 DEF OldsGood
<1>7. h.old # <<>> /\ Last(h.old) = g.file
    BY <1>1, <1>2 DEF Last
<1>8. QED
    BY <1>2, <1>4, <1>6, <1>7

(* A message may be added on day d to a file that is empty, or was last     *)
(* written to on that day as far as its last line shows, of which n bytes   *)
(* are counted, and which has room if this process wrote the last line.     *)
Ready(g, d, n) ==
    /\ g \in Log0 /\ FileInv(g) /\ Writers(g, starts) /\ g.date = d /\ n \in Nat
    /\ g.file # <<>> /\ Bears(g.file[Len(g.file)]) => g.file[Len(g.file)].written = d
    /\ n <= DiskSize(g.file)
    /\ AllDated(g.file) => TextSize(g.file) <= n
    /\ g.file # <<>> /\ AllDated(g.file) /\ g.file[Len(g.file)].by = starts
            => TextSize(g.file) < MaxSize

(* What that leaves: perhaps a full file. *)
Done(h, d) ==
    /\ h \in Log0 /\ OldsGood(h) /\ OneDay(h.file) /\ Rationed(h.file)
    /\ h.open = TRUE /\ h.date = d /\ h.file # <<>>
    /\ h.file[Len(h.file)].written = d /\ h.file[Len(h.file)].by = starts
    /\ Writers(h, starts) /\ Counted(h)

LEMMA WrittenFacts ==
    ASSUME NEW g, NEW m \in Message, NEW d \in Days, NEW n, Ready(g, d, n),
           starts \in Nat
    PROVE  Done(Written(g, m, d, n), d)
<1>0. /\ g \in Log0 /\ FileInv(g) /\ Writers(g, starts) /\ g.date = d /\ n \in Nat
      /\ g.file # <<>> /\ Bears(g.file[Len(g.file)]) => g.file[Len(g.file)].written = d
      /\ n <= DiskSize(g.file)
      /\ AllDated(g.file) => TextSize(g.file) <= n
      /\ g.file # <<>> /\ AllDated(g.file) /\ g.file[Len(g.file)].by = starts
            => TextSize(g.file) < MaxSize
    BY DEF Ready
<1> DEFINE h == Written(g, m, d, n)
           z == DiskSize(g.file) + m.len + 1
           l == [id |-> m.id, stamp |-> m.stamp, shape |-> m.shape, written |-> d,
                 by |-> starts, end |-> z]
           k == Len(g.file)
           f == Append(g.file, l)
<1>2. g.file \in Seq(Line) /\ g.old \in Seq(Seq(Line))
    BY <1>0 DEF Log0
<1>a. DiskSize(g.file) \in Nat /\ m.len \in Nat /\ z \in Nat
    BY <1>2, Sizes DEF Message
<1>1. l \in Line /\ l.written = d /\ l.by = starts /\ l.end = z
    BY <1>a DEF Line, Message
<1>3. /\ h.open = TRUE /\ h.date = d /\ h.size = n + m.len /\ h.file = f /\ h.old = g.old
    BY <1>0 DEF Written, Log0
<1>4. /\ f \in Seq(Line) /\ f # <<>> /\ k \in Nat /\ DOMAIN g.file = 1..k
      /\ Len(f) = k + 1 /\ DOMAIN f = 1..(k + 1)
      /\ \A i \in 1..k : f[i] = g.file[i]
      /\ f[k + 1] = l
  <2>1. PICK q, e : q = g.file /\ e = l
      OBVIOUS
  <2>2. q \in Seq(Line) /\ e \in Line
      BY <1>1, <1>2, <2>1
  <2>3. /\ Append(q, e) \in Seq(Line) /\ Append(q, e) # <<>>
        /\ Len(q) \in Nat /\ DOMAIN q = 1..Len(q)
        /\ Len(Append(q, e)) = Len(q) + 1 /\ DOMAIN Append(q, e) = 1..(Len(q) + 1)
        /\ \A i \in 1..Len(q) : Append(q, e)[i] = q[i]
        /\ Append(q, e)[Len(q) + 1] = e
      BY ONLY <2>2, AppendSeq
  <2>4. QED
      BY ONLY <2>1, <2>3
<1>5. h = [g EXCEPT !.open = TRUE, !.size = n + m.len, !.file = f]
    BY <1>0 DEF Written, Log0
<1> HIDE DEF h, l, f
<1>6. h \in Log0
  <2>1. n + m.len \in Nat
      BY <1>0, <1>a
  <2>2. QED
      BY <1>0, <1>4, <1>5, <2>1 DEF Log0
<1>7. OldsGood(h)
    BY <1>0, <1>3 DEF OldsGood, FileInv
<1>8. AllDated(f) => AllDated(g.file)
    BY <1>4 DEF AllDated
<1>9. DiskSize(f) = z
    BY <1>1, <1>4, Sizes
<1>10. Counted(h)
  <2>1. h.size <= DiskSize(f)
      BY <1>0, <1>3, <1>9, <1>a
  <2>2. AllDated(f) => TextSize(f) <= h.size
    <3>1. AllDated(f) => DiskSize(g.file) - k <= n
        BY <1>0, <1>8 DEF TextSize
    <3>2. QED
        BY <1>0, <1>3, <1>4, <1>9, <1>a, <3>1 DEF TextSize
  <2>3. QED
      BY <1>3, <2>1, <2>2 DEF Counted
<1>11. OneDay(f)
  <2> SUFFICES ASSUME NEW i \in 1..k, Bears(f[i]) PROVE f[i + 1].written = f[i].written
      BY <1>4 DEF OneDay
  <2>1. CASE i = k
    <3>1. k # 0 /\ f[k] = g.file[k] /\ f[k + 1] = l
        BY <1>4, <2>1
    <3>2. g.file # <<>>
        BY <3>1
    <3>3. g.file[k].written = d
        BY <1>0, <2>1, <3>1, <3>2
    <3>4. QED
        BY <1>1, <2>1, <3>1, <3>3
  <2>2. CASE i # k
    <3>1. i \in 1..(k - 1) /\ i + 1 \in 1..k
        BY <1>4, <2>2
    <3>2. g.file[i + 1].written = g.file[i].written
        BY <1>0, <1>4, <3>1 DEF FileInv, OneDay
    <3>3. QED
        BY <1>4, <3>1, <3>2
  <2>3. QED
      BY <2>1, <2>2
<1>12. Rationed(f)
  <2> SUFFICES ASSUME NEW i \in 2..(k + 1), f[i].by = f[i - 1].by,
                      \A j \in 1..(i - 1) : f[j].shape = "dated"
               PROVE  f[i - 1].end - (i - 1) < MaxSize
      BY <1>4 DEF Rationed, Room
  <2>1. i - 1 \in 1..k /\ f[i - 1] = g.file[i - 1]
      BY <1>4
  <2>2. \A j \in 1..(i - 1) : g.file[j].shape = "dated"
    <3>1. ASSUME NEW j \in 1..(i - 1) PROVE g.file[j].shape = "dated"
      <4>1. j \in 1..k
          BY <1>4
      <4>2. QED
          BY <1>4, <4>1
    <3>2. QED
        BY <3>1
  <2>3. CASE i <= k
    <3>1. i \in 2..k /\ f[i] = g.file[i]
        BY <1>4, <2>3
    <3>2. Rationed(g.file)
        BY <1>0 DEF FileInv
    <3>3. Room(g.file, i - 1)
        BY <2>1, <3>1, <3>2 DEF Rationed
    <3>4. QED
        BY <2>1, <2>2, <3>3 DEF Room
  <2>4. CASE i = k + 1
    <3>1. k \in 1..k /\ i - 1 = k /\ f[i] = l
        BY <1>4, <2>4
    <3>2. g.file # <<>> /\ AllDated(g.file) /\ g.file[k].by = starts
        BY <1>1, <1>4, <2>1, <2>2, <3>1 DEF AllDated
    <3>3. TextSize(g.file) < MaxSize
        BY <1>0, <3>2
    <3>4. DiskSize(g.file) = g.file[k].end
        BY <1>2, <3>2, Sizes
    <3>5. QED
        BY <2>1, <3>1, <3>3, <3>4 DEF TextSize
  <2>5. QED
      BY <1>4, <2>3, <2>4
<1>13. Writers(h, starts)
    BY <1>0, <1>1, <1>3, <1>4 DEF Writers
<1>14. f[Len(f)].written = d /\ f[Len(f)].by = starts
    BY <1>1, <1>4
<1>15. QED
  <2>1. h = Written(g, m, d, n)
      BY DEF h
  <2>2. Done(h, d)
      BY <1>3, <1>4, <1>6, <1>7, <1>10, <1>11, <1>12, <1>13, <1>14 DEF Done
  <2>3. QED
      BY <2>1, <2>2

(* check_size, which leaves a file that may be written to again. *)
LEMMA SizeFacts ==
    ASSUME NEW h, NEW d \in Days, Done(h, d)
    PROVE  /\ CheckSize(h, d) \in Log /\ Known(CheckSize(h, d)) /\ FileInv(CheckSize(h, d))
           /\ Writers(CheckSize(h, d), starts) /\ Fresh(CheckSize(h, d))
<1>0. /\ h \in Log0 /\ OldsGood(h) /\ OneDay(h.file) /\ Rationed(h.file)
      /\ h.open = TRUE /\ h.date = d /\ h.file # <<>>
      /\ h.file[Len(h.file)].written = d /\ h.file[Len(h.file)].by = starts
      /\ Writers(h, starts) /\ Counted(h)
      /\ d # 0
    BY LogAssumption DEF Done
<1>1. CASE h.size >= MaxSize
  <2>1. PICK r : r = Rolled(h, d) /\ r = CheckSize(h, d)
      BY <1>1 DEF CheckSize
  <2>2. /\ r \in Log0 /\ OldsGood(r) /\ r.file = <<>> /\ r.open = FALSE
        /\ r.size = 0 /\ r.date = d /\ r.old # <<>> /\ Last(r.old) = h.file
    <3>1. /\ Rolled(h, d) \in Log0 /\ OldsGood(Rolled(h, d))
          /\ Rolled(h, d).file = <<>> /\ Rolled(h, d).open = FALSE
          /\ Rolled(h, d).size = 0 /\ Rolled(h, d).date = d
          /\ Rolled(h, d).old # <<>> /\ Last(Rolled(h, d).old) = h.file
        BY <1>0, RolledFacts
    <3>2. QED
        BY <2>1, <3>1
  <2>3. r \in Log
    <3>1. 0 \in 0..(MaxSize - 1)
        BY LogAssumption
    <3>2. QED
        BY <2>2, <3>1 DEF Log, Log0
  <2>4. FullRoll(r)
    <3>1. h.file \in Seq(Line) /\ h.size \in Nat
        BY <1>0 DEF Log0
    <3>2. DiskSize(h.file) = h.file[Len(h.file)].end /\ DiskSize(h.file) \in Nat
        BY <1>0, <3>1, Sizes
    <3>3. h.file[Len(h.file)].end >= MaxSize
        BY <1>0, <1>1, <3>1, <3>2, LogAssumption DEF Counted
    <3>4. Last(h.file) = h.file[Len(h.file)]
        BY DEF Last
    <3>5. QED
        BY <1>0, <2>2, <3>3, <3>4 DEF FullRoll
  <2>5. Known(r)
      BY <2>2, <2>4 DEF Known
  <2>6. FileInv(r) /\ Writers(r, starts) /\ Fresh(r)
      BY <1>0, <2>2, NoLines DEF FileInv, OldsGood, Writers, Fresh
  <2>7. QED
      BY <2>1, <2>3, <2>5, <2>6
<1>2. CASE ~(h.size >= MaxSize)
  <2>1. CheckSize(h, d) = h
      BY <1>2 DEF CheckSize
  <2>2. h.size \in 0..(MaxSize - 1) /\ h.size < MaxSize
      BY <1>0, <1>2, LogAssumption DEF Log0
  <2>3. h \in Log
      BY <1>0, <2>2 DEF Log, Log0
  <2>4. Known(h)
      BY <1>0, <2>2 DEF Known
  <2>5. FileInv(h) /\ Fresh(h)
      BY <1>0 DEF FileInv, OldsGood, Fresh
  <2>6. QED
      BY <1>0, <2>1, <2>3, <2>4, <2>5
<1>3. QED
    BY <1>1, <1>2

-----------------------------------------------------------------------------
LEMMA InvInit == Init => Inv
<1> SUFFICES ASSUME Init PROVE Inv
    OBVIOUS
<1>1. /\ log.file = <<>> /\ log.old = <<>> /\ log.open = FALSE /\ log.date = 0
      /\ log.size = 0
    BY DEF Init
<1>2. \A T : <<>> \in Seq(T)
    OBVIOUS
<1>3. TypeOK
  <2>1. log \in Log
    <3>1. 0 \in 0..(MaxSize - 1)
        BY LogAssumption
    <3>2. QED
        BY <1>2, <3>1 DEF Init, Log
  <2>2. logged \in 0..MaxLog /\ starts \in Nat
      BY LogAssumption DEF Init
  <2>3. QED
      BY <1>2, <2>1, <2>2 DEF Init, TypeOK
<1>4. Known(log)
    BY <1>1 DEF Known
<1>5. FileInv(log) /\ Writers(log, starts) /\ Fresh(log)
    BY <1>1, NoLines DEF FileInv, Writers, Fresh
<1>6. QED
    BY <1>3, <1>4, <1>5 DEF Inv

(* check_date leaves a file of today, or one that is not open. *)
Today(g, d) ==
    /\ g \in Log0 /\ FileInv(g) /\ Writers(g, starts) /\ g.date = d
    /\ g.open => /\ g.file # <<>> /\ g.file[Len(g.file)].written = d
                 /\ Counted(g) /\ g.size < MaxSize
    /\ ~g.open => \A i \in DOMAIN g.file : g.file[i].by # starts

LEMMA DateFacts ==
    ASSUME Inv, ~NothingToRoll, NEW d, d = today
    PROVE  Today(CheckDate(log, d), d)
<1>1. /\ log \in Log /\ Known(log) /\ Writers(log, starts) /\ Fresh(log) /\ FileInv(log)
      /\ d \in Days /\ d # 0
    BY LogAssumption DEF Inv, TypeOK
<1>2. log \in Log0
    BY <1>1, LogAssumption DEF Log, Log0
<1>3. CASE log.date = 0
  <2>1. CheckDate(log, d) = [log EXCEPT !.date = d]
      BY <1>3 DEF CheckDate
  <2>2. PICK g : g = [log EXCEPT !.date = d]
      OBVIOUS
  <2>3. /\ g \in Log0 /\ g.date = d /\ g.open = log.open /\ g.file = log.file
        /\ g.old = log.old
      BY <1>1, <1>2, <2>2 DEF Log0
  <2>4. ~g.open /\ \A i \in DOMAIN g.file : g.file[i].by # starts
      BY <1>1, <1>3, <2>3 DEF Known, Fresh
  <2>5. FileInv(g) /\ Writers(g, starts)
      BY <1>1, <2>3 DEF FileInv, Writers
  <2>6. QED
      BY <2>1, <2>2, <2>3, <2>4, <2>5 DEF Today
<1>4. CASE log.date # 0 /\ log.date # d
  <2>1. PICK g : g = Rolled(log, d)
      OBVIOUS
  <2>2. CheckDate(log, d) = g
      BY <1>4, <2>1 DEF CheckDate
  <2>3. Rationed(log.file) /\ OneDay(log.file) /\ OldsGood(log)
      BY <1>1 DEF FileInv, OldsGood
  <2>4. /\ g \in Log0 /\ OldsGood(g) /\ g.file = <<>> /\ g.open = FALSE /\ g.date = d
      BY <1>1, <1>2, <2>1, <2>3, RolledFacts
  <2>5. FileInv(g) /\ Writers(g, starts)
      BY <2>4, NoLines DEF FileInv, OldsGood, Writers
  <2>6. QED
      BY <2>2, <2>4, <2>5 DEF Today
<1>5. CASE log.date = d
  <2>1. CheckDate(log, d) = log
      BY <1>1, <1>5 DEF CheckDate
  <2>2. ~log.open => log.file = <<>>
      BY <1>1, <1>5 DEF Known
  <2>3. log.open => /\ log.file # <<>> /\ log.file[Len(log.file)].written = d
                    /\ Counted(log) /\ log.size < MaxSize
      BY <1>1, <1>5 DEF Known
  <2>4. QED
      BY <1>1, <1>2, <1>5, <2>1, <2>2, <2>3 DEF Today
<1>6. QED
    BY <1>3, <1>4, <1>5

(* A file that is opened is continued, rolled or begun; either way the      *)
(* message may be added.                                                    *)
LEMMA ActualFacts ==
    ASSUME NEW g, NEW m \in Message, NEW d \in Days, Today(g, d), starts \in Nat
    PROVE  Done(ActualWrite(g, m, d), d)
<1>4. /\ g \in Log0 /\ FileInv(g) /\ Writers(g, starts) /\ g.date = d
      /\ g.open => /\ g.file # <<>> /\ g.file[Len(g.file)].written = d
                   /\ Counted(g) /\ g.size < MaxSize
      /\ ~g.open => \A i \in DOMAIN g.file : g.file[i].by # starts
    BY DEF Today
<1>5. /\ g.file \in Seq(Line) /\ Len(g.file) \in Nat /\ DOMAIN g.file = 1..Len(g.file)
      /\ g.size \in Nat
    BY <1>4 DEF Log0
<1> DEFINE last == g.file[Len(g.file)]
<1>6. /\ DiskSize(g.file) \in Nat /\ TextSize(g.file) <= DiskSize(g.file)
      /\ g.file = <<>> => DiskSize(g.file) = 0 /\ TextSize(g.file) = 0
      /\ g.file # <<>> => Len(g.file) \in DOMAIN g.file
  <2>1. DiskSize(g.file) \in Nat
      BY <1>5, Sizes
  <2>2. TextSize(g.file) <= DiskSize(g.file)
      BY <1>5, <2>1 DEF TextSize
  <2>3. QED
      BY <1>5, <2>1, <2>2, Sizes
<1>7. ~g.open /\ g.file # <<>> => last.by # starts
    BY <1>4, <1>6
<1>8. \E p, n : ActualWrite(g, m, d) = Written(p, m, d, n) /\ Ready(p, d, n)
  <2>1. CASE g.open
    <3>1. ActualWrite(g, m, d) = Written(g, m, d, g.size)
        BY <2>1 DEF ActualWrite
    <3>2. AllDated(g.file) => TextSize(g.file) < MaxSize
        BY <1>4, <1>5, <1>6, <2>1, LogAssumption DEF Counted, TextSize
    <3>3. Ready(g, d, g.size)
        BY <1>4, <1>5, <2>1, <3>2 DEF Ready, Counted
    <3>4. QED
        BY <3>1, <3>3
  <2>2. CASE ~g.open /\ LastDated(g) /\ last.stamp = d
    <3>1. ActualWrite(g, m, d) = Written(g, m, d, DiskSize(g.file))
        BY <2>2 DEF ActualWrite, Last
    <3>2. Bears(last) => last.written = d
        BY <2>2 DEF Bears
    <3>3. Ready(g, d, DiskSize(g.file))
        BY <1>4, <1>5, <1>6, <1>7, <2>2, <3>2 DEF Ready
    <3>4. QED
        BY <3>1, <3>3
  <2>3. CASE ~g.open /\ LastDated(g) /\ last.stamp # d
    <3>1. PICK p : p = Rolled(g, d)
        OBVIOUS
    <3>2. Rationed(g.file) /\ OneDay(g.file) /\ OldsGood(g)
        BY <1>4 DEF FileInv, OldsGood
    <3>3. p \in Log0 /\ OldsGood(p) /\ p.file = <<>> /\ p.date = d
        BY <1>4, <3>1, <3>2, RolledFacts
    <3>4. FileInv(p) /\ Writers(p, starts)
        BY <3>3, NoLines DEF FileInv, OldsGood, Writers
    <3>5. ActualWrite(g, m, d) = Written(p, m, d, 0)
        BY <2>3, <3>1 DEF ActualWrite, Last
    <3>6. DiskSize(p.file) = 0 /\ TextSize(p.file) = 0
        BY <3>3, NoLines, Sizes
    <3>7. QED
        BY <3>3, <3>4, <3>5, <3>6 DEF Ready
  <2>4. CASE ~g.open /\ ~LastDated(g)
    <3>1. ActualWrite(g, m, d) = Written(g, m, d, 0)
        BY <2>4 DEF ActualWrite
    <3>2. g.file = <<>> \/ last.shape # "dated"
        BY <2>4 DEF LastDated, Last
    <3>3. ~(g.file # <<>> /\ Bears(last))
        BY <3>2 DEF Bears
    <3>4. AllDated(g.file) => g.file = <<>>
        BY <1>6, <3>2 DEF AllDated
    <3>5. Ready(g, d, 0)
        BY <1>4, <1>6, <3>3, <3>4 DEF Ready
    <3>6. QED
        BY <3>1, <3>5
  <2>5. QED
      BY <2>1, <2>2, <2>3, <2>4
<1>9. PICK p, n : ActualWrite(g, m, d) = Written(p, m, d, n) /\ Ready(p, d, n)
    BY <1>8
<1>10. QED
    BY <1>9, WrittenFacts

LEMMA TakenFacts ==
    ASSUME Inv, CanWrite
    PROVE  Done(Taken, today) /\ queue \in Seq(Message) /\ today \in Days
<1>1. PICK d, m, g : d = today /\ m = Head(queue) /\ g = CheckDate(log, d)
    OBVIOUS
<1>2. queue # <<>> /\ ~NothingToRoll
    BY DEF CanWrite
<1>3. queue \in Seq(Message) /\ d \in Days /\ starts \in Nat
    BY <1>1 DEF Inv, TypeOK
<1>4. m \in Message
    BY <1>1, <1>2, <1>3
<1>5. Today(g, d)
    BY <1>1, <1>2, DateFacts
<1>6. Done(ActualWrite(g, m, d), d)
    BY <1>3, <1>4, <1>5, ActualFacts
<1>7. QED
    BY <1>1, <1>3, <1>6 DEF Taken

LEMMA WriteKeeps == ASSUME Inv, WriteMsg PROVE Inv'
<1>1. PICK h, d, r : h = Taken /\ d = today /\ r = CheckSize(h, d)
    OBVIOUS
<1>2. /\ log' = r /\ queue' = Tail(queue) /\ queue # <<>>
      /\ UNCHANGED <<today, starts, logged, held, up>>
    BY <1>1 DEF WriteMsg, CanWrite
<1>3. Done(h, d) /\ queue \in Seq(Message) /\ d \in Days
    BY <1>1, TakenFacts DEF WriteMsg
<1>4. r \in Log /\ Known(r) /\ FileInv(r) /\ Writers(r, starts) /\ Fresh(r)
    BY <1>1, <1>3, SizeFacts
<1>5. queue' \in Seq(Message)
    BY <1>2, <1>3
<1>6. TypeOK'
    BY <1>2, <1>4, <1>5 DEF Inv, TypeOK
<1>7. QED
    BY <1>2, <1>4, <1>6 DEF Inv, Known, FullRoll, FileInv, Writers, Fresh

(* The message that is lost leaves no file, and none open. *)
LEMMA LoseKeeps == ASSUME Inv, LoseMsg PROVE Inv'
<1>1. PICK d : d = today
    OBVIOUS
<1>2. /\ log' = [log EXCEPT !.date = d] /\ queue' = Tail(queue) /\ queue # <<>>
      /\ log.date # 0 /\ log.file = <<>> /\ UNCHANGED <<today, starts, logged, held, up>>
    BY <1>1 DEF LoseMsg, NothingToRoll
<1>3. /\ log \in Log /\ Known(log) /\ FileInv(log) /\ d \in Days /\ d # 0
    BY <1>1, LogAssumption DEF Inv, TypeOK
<1>4. /\ log' \in Log /\ log'.date = d /\ log'.file = log.file /\ log'.old = log.old
      /\ log'.open = log.open
    BY <1>2, <1>3 DEF Log
<1>5. ~log.open /\ FullRoll(log)
    BY <1>2, <1>3 DEF Known
<1>6. Known(log)'
    BY <1>2, <1>4, <1>5 DEF Known, FullRoll
<1>7. FileInv(log') /\ Writers(log', starts') /\ Fresh(log)'
    BY <1>2, <1>3, <1>4, NoLines DEF FileInv, Writers, Fresh
<1>8. queue' \in Seq(Message)
    BY <1>2 DEF Inv, TypeOK
<1>9. TypeOK'
    BY <1>2, <1>4, <1>8 DEF Inv, TypeOK
<1>10. QED
    BY <1>6, <1>7, <1>9 DEF Inv, FileInv, Writers

LEMMA ForgottenFacts ==
    ASSUME NEW g \in Log0
    PROVE  /\ Forgotten(g) \in Log
           /\ Forgotten(g).open = FALSE /\ Forgotten(g).date = 0
           /\ Forgotten(g).file = g.file /\ Forgotten(g).old = g.old
<1>1. 0 \in 0..(MaxSize - 1)
    BY LogAssumption
<1>2. QED
    BY <1>1 DEF Forgotten, Log0, Log

(* A thread that panics has not written to the file: it was to open it.     *)
LEMMA PanicKeeps == ASSUME Inv, ThreadPanics PROVE Inv'
<1>1. /\ log' = Forgotten(log) /\ queue' = <<>> /\ up' = FALSE
      /\ UNCHANGED <<today, starts, logged, held>> /\ CannotSlice
    BY DEF ThreadPanics
<1>2. /\ log \in Log /\ Known(log) /\ Writers(log, starts) /\ Fresh(log) /\ FileInv(log)
    BY DEF Inv, TypeOK
<1>3. log \in Log0
    BY <1>2, LogAssumption DEF Log, Log0
<1>4. log.date = 0
  <2>1. SUFFICES ASSUME log.date # 0 PROVE FALSE
      OBVIOUS
  <2>2. CASE log.date = today
    <3>1. CheckDate(log, today) = log
        BY <2>1, <2>2 DEF CheckDate
    <3>2. QED
        BY <1>1, <1>2, <2>1, <3>1 DEF CannotSlice, Known
  <2>3. CASE log.date # today
    <3>1. CheckDate(log, today) = Rolled(log, today)
        BY <2>1, <2>3 DEF CheckDate
    <3>2. Rolled(log, today).file = <<>>
        BY <1>3 DEF Rolled, Log0
    <3>3. QED
        BY <1>1, <3>1, <3>2 DEF CannotSlice
  <2>4. QED
      BY <2>2, <2>3
<1>5. /\ log' \in Log /\ log'.open = FALSE /\ log'.date = 0
      /\ log'.file = log.file /\ log'.old = log.old
    BY <1>1, <1>3, ForgottenFacts
<1>6. Known(log)' /\ FileInv(log') /\ Writers(log', starts') /\ Fresh(log)'
    BY <1>1, <1>2, <1>4, <1>5 DEF Known, FileInv, Writers, Fresh
<1>7. TypeOK'
  <2>1. queue' \in Seq(Message) /\ up' \in BOOLEAN
    <3>1. queue' \in Seq(Message)
        BY <1>1
    <3>2. up' = FALSE
        BY DEF ThreadPanics
    <3>3. up' \in BOOLEAN
        BY ONLY <3>2, Zenon
    <3>4. QED
        BY <3>1, <3>3
  <2>2. today' \in Days /\ starts' \in Nat /\ logged' \in 0..MaxLog
      BY <1>1 DEF Inv, TypeOK
  <2>3. held' \in [Task -> Message \cup {NoMsg}]
      BY <1>1 DEF Inv, TypeOK
  <2>4. QED
      BY <1>5, <2>1, <2>2, <2>3 DEF TypeOK
<1>8. QED
    BY <1>6, <1>7 DEF Inv, FileInv, Writers

(* A process that starts knows nothing, so it holds nothing wrong. *)
LEMMA RebornKeeps ==
    ASSUME Inv, NEW g \in Log0, FileInv(g), Writers(g, starts), Reborn(g)
    PROVE  Inv'
<1>1. /\ log' = Forgotten(g) /\ up' = TRUE
      /\ queue' = <<>> /\ held' = [t \in Task |-> NoMsg] /\ starts' = starts + 1
      /\ UNCHANGED <<today, logged>>
    BY DEF Reborn
<1>2. starts \in Nat /\ g.file \in Seq(Line)
    BY DEF Inv, TypeOK, Log0
<1>3. /\ log' \in Log /\ log'.open = FALSE /\ log'.date = 0
      /\ log'.file = g.file /\ log'.old = g.old
    BY <1>1, ForgottenFacts
<1>4. Known(log)' /\ FileInv(log')
    BY <1>3 DEF Known, FileInv
<1>5. Writers(log', starts') /\ Fresh(log)'
  <2>1. \A i \in DOMAIN g.file : g.file[i].by \in Nat /\ g.file[i].by <= starts
    <3>1. \A i \in DOMAIN g.file : g.file[i] \in Line
        BY <1>2
    <3>2. QED
        BY <3>1 DEF Writers, Line
  <2>2. QED
      BY <1>1, <1>2, <1>3, <2>1 DEF Writers, Fresh
<1>6. TypeOK'
  <2>1. queue' \in Seq(Message) /\ held' \in [Task -> Message \cup {NoMsg}]
      BY <1>1
  <2>2. starts' \in Nat /\ today' \in Days /\ logged' \in 0..MaxLog
      BY <1>1 DEF Inv, TypeOK
  <2>3. QED
      BY <1>1, <1>3, <2>1, <2>2 DEF TypeOK
<1>7. QED
    BY <1>4, <1>5, <1>6 DEF Inv, FileInv, Writers

LEMMA RestartKeeps == ASSUME Inv, Restart PROVE Inv'
<1>1. log \in Log0 /\ FileInv(log) /\ Writers(log, starts)
    BY LogAssumption DEF Inv, TypeOK, Log, Log0
<1>2. QED
    BY <1>1, RebornKeeps DEF Restart

LEMMA EndKeeps == ASSUME Inv, EndMidWrite PROVE Inv'
<1>1. PICK h, d : h = Taken /\ d = today
    OBVIOUS
<1>2. Done(h, d) /\ Reborn(h)
    BY <1>1, TakenFacts DEF EndMidWrite
<1>3. h \in Log0 /\ FileInv(h) /\ Writers(h, starts)
    BY <1>2 DEF Done, FileInv, OldsGood
<1>4. QED
    BY <1>2, <1>3, RebornKeeps

(* The other steps leave the file alone. *)
LEMMA FileUntouched == ASSUME Inv, TypeOK', UNCHANGED <<log, starts>> PROVE Inv'
  BY DEF Inv, Known, FullRoll, FileInv, Writers, Fresh

LEMMA StampKeeps == ASSUME Inv, NEW t \in Task, Stamp(t) PROVE Inv'
<1>1. PICK x \in Texts :
         held' = [held EXCEPT ![t] =
                    [id |-> logged + 1, stamp |-> today, shape |-> x.shape, len |-> x.len]]
    BY DEF Stamp
<1>2. /\ logged' = logged + 1 /\ logged < MaxLog
      /\ UNCHANGED <<today, starts, queue, up, log>>
    BY DEF Stamp
<1>3. logged' \in 1..MaxLog
    BY <1>2, LogAssumption DEF Inv, TypeOK
<1>4. [id |-> logged + 1, stamp |-> today, shape |-> x.shape, len |-> x.len] \in Message
    BY <1>1, <1>2, <1>3, LogAssumption DEF Inv, TypeOK, Message
<1>5. held' \in [Task -> Message \cup {NoMsg}]
  <2>1. held \in [Task -> Message \cup {NoMsg}]
      BY DEF Inv, TypeOK
  <2>2. QED
      BY <1>1, <1>4, <2>1
<1>6. logged' \in 0..MaxLog
    BY <1>3, LogAssumption
<1>7. TypeOK'
    BY <1>2, <1>5, <1>6 DEF Inv, TypeOK
<1>8. QED
    BY <1>2, <1>7, FileUntouched

LEMMA SendKeeps == ASSUME Inv, NEW t \in Task, Send(t) PROVE Inv'
<1>1. /\ held[t] # NoMsg /\ queue' = IF up THEN Append(queue, held[t]) ELSE queue
      /\ held' = [held EXCEPT ![t] = NoMsg]
      /\ UNCHANGED <<today, starts, logged, up, log>>
    BY DEF Send
<1>2. held \in [Task -> Message \cup {NoMsg}] /\ queue \in Seq(Message)
    BY DEF Inv, TypeOK
<1>3. held[t] \in Message
    BY <1>1, <1>2
<1>4. queue' \in Seq(Message)
    BY <1>1, <1>2, <1>3
<1>5. held' \in [Task -> Message \cup {NoMsg}]
    BY <1>1, <1>2
<1>6. TypeOK'
    BY <1>1, <1>4, <1>5 DEF Inv, TypeOK
<1>7. QED
    BY <1>1, <1>6, FileUntouched

LEMMA InvNext == Inv /\ [Next]_vars => Inv'
<1> SUFFICES ASSUME Inv, [Next]_vars PROVE Inv'
    OBVIOUS
<1>1. ASSUME NEW t \in Task, Stamp(t) \/ Send(t) PROVE Inv'
    BY <1>1, StampKeeps, SendKeeps
<1>2. CASE WriteMsg
    BY <1>2, WriteKeeps
<1>3. CASE LoseMsg
    BY <1>3, LoseKeeps
<1>4. CASE ClockMoves
  <2>1. TypeOK'
      BY <1>4 DEF ClockMoves, Inv, TypeOK
  <2>2. QED
      BY <1>4, <2>1, FileUntouched DEF ClockMoves
<1>5. CASE Restart \/ EndMidWrite
    BY <1>5, RestartKeeps, EndKeeps
<1>6. CASE UNCHANGED vars
  <2>1. TypeOK'
      BY <1>6 DEF vars, Inv, TypeOK
  <2>2. QED
      BY <1>6, <2>1, FileUntouched DEF vars
<1>7. CASE ThreadPanics
    BY <1>7, PanicKeeps
<1>8. QED
    BY <1>1, <1>2, <1>3, <1>4, <1>5, <1>6, <1>7 DEF Next

LEMMA InvHolds == Spec => []Inv
<1>1. QED
    BY InvInit, InvNext, PTL DEF Spec

-----------------------------------------------------------------------------
(* The thread's record of its file and what is on disk keep their types:    *)
(* the size it counts is below the limit between two messages (check_size,  *)
(* inner.rs:96, which runs after every write).                              *)
THEOREM TypeCorrect == Spec => []TypeOK
<1>1. Inv => TypeOK
    BY DEF Inv
<1>2. QED
    BY InvHolds, <1>1, PTL

(* A file, the current one or a rolled one, has the messages of one day, as *)
(* far as its lines show their day ("check whether the date rolls the file  *)
(* before writing", inner.rs:52), however the clock moves and whenever a    *)
(* process ends.                                                            *)
THEOREM OneDayKept == Spec => []OneDayPerFile
<1>1. Inv => OneDayPerFile
  <2> SUFFICES ASSUME Inv, NEW f \in Files PROVE OneDay(f)
      BY DEF OneDayPerFile, OneDay
  <2>1. QED
      BY DEF Inv, FileInv, Files
<1>2. QED
    BY InvHolds, <1>1, PTL

(* A file is rolled at its limit: no process adds a message to a file with  *)
(* max_size bytes of text, whatever the lengths of messages and however     *)
(* often the count was lost, until a message with a line break has been     *)
(* written to it.  The size is looked at after a write (inner.rs:55, 68),   *)
(* so that a process takes a file past inner.rs:18's upper limit by its     *)
(* last message at most, and the line breaks.                               *)
THEOREM LimitKept == Spec => []WithinLimit
<1>1. Inv => WithinLimit
  <2> SUFFICES ASSUME Inv, NEW f \in Files,
                      NEW i \in 2..Len(f), f[i].by = f[i - 1].by,
                      \A j \in 1..(i - 1) : f[j].shape = "dated"
               PROVE  f[i - 1].end - (i - 1) < MaxSize
      BY DEF WithinLimit
  <2>1. Rationed(f)
      BY DEF Inv, FileInv, Files
  <2>2. QED
      BY <2>1 DEF Rationed, Room
<1>2. QED
    BY InvHolds, <1>1, PTL

-----------------------------------------------------------------------------
(* What is written, in the order it was. *)
Lines(g) == FlattenSeq(g.old) \o g.file
IdsOf(q) == {q[i].id : i \in DOMAIN q}

LEMMA IdsFacts ==
    ASSUME NEW S, \A e \in S : e.id \in 1..MaxLog, NEW q \in Seq(S)
    PROVE  /\ Ids(q) \in Seq(1..MaxLog) /\ Len(Ids(q)) = Len(q)
           /\ DOMAIN Ids(q) = DOMAIN q /\ \A i \in 1..Len(q) : Ids(q)[i] = q[i].id
<1>1. DOMAIN q = 1..Len(q) /\ Len(q) \in Nat /\ \A i \in 1..Len(q) : q[i] \in S
    OBVIOUS
<1>2. Ids(q) = [i \in 1..Len(q) |-> q[i].id]
    BY <1>1 DEF Ids
<1>3. Ids(q) \in [1..Len(q) -> 1..MaxLog]
    BY <1>1, <1>2
<1>4. Ids(q) \in Seq(1..MaxLog)
  <2>0. PICK n, A, f : n = Len(q) /\ A = 1..MaxLog /\ f = Ids(q)
      OBVIOUS
  <2>1. n \in Nat
      BY <1>1, <2>0
  <2>2. f \in [1..n -> A]
      BY <1>3, <2>0
  <2>3. f \in Seq(A)
      BY ONLY <2>1, <2>2
  <2>4. QED
      BY <2>0, <2>3
<1>5. QED
    BY <1>1, <1>2, <1>4

LEMMA IdsAppend ==
    ASSUME NEW S, \A e \in S : e.id \in 1..MaxLog, NEW q \in Seq(S), NEW e \in S
    PROVE  /\ Ids(Append(q, e)) = Append(Ids(q), e.id)
           /\ IdsOf(Append(q, e)) = IdsOf(q) \cup {e.id}
<1>1. PICK r : r = Append(q, e)
    OBVIOUS
<1>2. /\ r \in Seq(S) /\ Len(r) = Len(q) + 1 /\ Len(q) \in Nat
      /\ DOMAIN q = 1..Len(q) /\ DOMAIN r = 1..(Len(q) + 1)
      /\ \A i \in 1..Len(q) : r[i] = q[i]
      /\ r[Len(q) + 1] = e
    BY <1>1, AppendSeq
<1>3. /\ Ids(q) \in Seq(1..MaxLog) /\ Len(Ids(q)) = Len(q)
      /\ \A i \in 1..Len(q) : Ids(q)[i] = q[i].id
    BY IdsFacts
<1>4. /\ Ids(r) \in Seq(1..MaxLog) /\ Len(Ids(r)) = Len(r)
      /\ \A i \in 1..Len(r) : Ids(r)[i] = r[i].id
    BY <1>2, IdsFacts
<1>5. e.id \in 1..MaxLog
    OBVIOUS
<1>6. PICK a, b : a = Ids(q) /\ b = Append(a, e.id)
    OBVIOUS
<1>7. /\ b \in Seq(1..MaxLog) /\ Len(b) = Len(a) + 1
      /\ \A i \in 1..Len(a) : b[i] = a[i]
      /\ b[Len(a) + 1] = e.id
    BY <1>3, <1>5, <1>6
<1>8. Ids(r) = b
  <2>1. Len(Ids(r)) = Len(b)
      BY <1>2, <1>3, <1>4, <1>6, <1>7
  <2>2. \A i \in 1..Len(b) : Ids(r)[i] = b[i]
      BY <1>2, <1>3, <1>4, <1>6, <1>7
  <2>3. QED
      BY <1>4, <1>7, <2>1, <2>2, SeqEqual
<1>9. IdsOf(r) = IdsOf(q) \cup {e.id}
    BY <1>2 DEF IdsOf
<1>10. QED
    BY <1>1, <1>6, <1>8, <1>9

LEMMA IdsTail ==
    ASSUME NEW S, \A e \in S : e.id \in 1..MaxLog, NEW q \in Seq(S), q # <<>>
    PROVE  /\ Ids(q) # <<>> /\ Ids(Tail(q)) = Tail(Ids(q)) /\ Head(Ids(q)) = Head(q).id
           /\ IdsOf(q) = IdsOf(Tail(q)) \cup {Head(q).id}
<1>1. PICK r : r = Tail(q)
    OBVIOUS
<1>2. /\ r \in Seq(S) /\ Len(q) \in Nat /\ Len(q) # 0 /\ Len(r) = Len(q) - 1
      /\ DOMAIN q = 1..Len(q) /\ DOMAIN r = 1..(Len(q) - 1)
      /\ \A i \in 1..(Len(q) - 1) : r[i] = q[i + 1]
      /\ Head(q) = q[1]
    BY <1>1
<1>3. /\ Ids(q) \in Seq(1..MaxLog) /\ Len(Ids(q)) = Len(q)
      /\ \A i \in 1..Len(q) : Ids(q)[i] = q[i].id
    BY IdsFacts
<1>4. /\ Ids(r) \in Seq(1..MaxLog) /\ Len(Ids(r)) = Len(r)
      /\ \A i \in 1..Len(r) : Ids(r)[i] = r[i].id
    BY <1>2, IdsFacts
<1>5. PICK a, b : a = Ids(q) /\ b = Tail(a)
    OBVIOUS
<1>6. a # <<>> /\ Head(a) = a[1]
    BY <1>2, <1>3, <1>5
<1>7. /\ b \in Seq(1..MaxLog) /\ Len(b) = Len(a) - 1
      /\ \A i \in 1..(Len(a) - 1) : b[i] = a[i + 1]
    BY <1>2, <1>3, <1>5, <1>6
<1>8. Ids(r) = b
  <2>1. Len(Ids(r)) = Len(b)
      BY <1>2, <1>3, <1>4, <1>5, <1>7
  <2>2. ASSUME NEW i \in 1..Len(b) PROVE Ids(r)[i] = b[i]
    <3>1. i \in 1..Len(r) /\ i \in 1..(Len(q) - 1) /\ i + 1 \in 1..Len(q)
        BY <1>2, <1>3, <1>5, <1>7
    <3>2. Ids(r)[i] = q[i + 1].id
        BY <1>2, <1>4, <3>1
    <3>3. b[i] = q[i + 1].id
        BY <1>2, <1>3, <1>5, <1>7, <3>1
    <3>4. QED
        BY <3>2, <3>3
  <2>3. QED
      BY <1>4, <1>7, <2>1, <2>2, SeqEqual
<1>9. IdsOf(q) = IdsOf(r) \cup {Head(q).id}
  <2>1. ASSUME NEW i \in 1..Len(q) PROVE q[i].id \in IdsOf(r) \cup {Head(q).id}
    <3>1. CASE i = 1
        BY <1>2, <3>1
    <3>2. CASE i # 1
      <4>1. i - 1 \in 1..(Len(q) - 1) /\ (i - 1) + 1 = i
          BY <1>2, <3>2
      <4>2. r[i - 1] = q[i]
          BY <1>2, <4>1
      <4>3. r[i - 1].id \in IdsOf(r)
          BY <1>2, <4>1 DEF IdsOf
      <4>4. QED
          BY <4>2, <4>3
    <3>3. QED
        BY <3>1, <3>2
  <2>2. ASSUME NEW i \in 1..(Len(q) - 1) PROVE r[i].id \in IdsOf(q)
    <3>1. i + 1 \in DOMAIN q /\ r[i] = q[i + 1]
        BY <1>2
    <3>2. QED
        BY <3>1 DEF IdsOf
  <2>3. Head(q).id \in IdsOf(q)
      BY <1>2 DEF IdsOf
  <2>4. QED
      BY <1>2, <2>1, <2>2, <2>3 DEF IdsOf
<1>10. QED
    BY <1>1, <1>2, <1>3, <1>5, <1>6, <1>8, <1>9

(* Renaming a file moves its lines to the end of the rolled ones. *)
LEMMA RolledLines ==
    ASSUME NEW g \in Log0, NEW d \in Days
    PROVE  Rolled(g, d) \in Log0 /\ Lines(Rolled(g, d)) = Lines(g)
<1>1. PICK o, f, h : o = g.old /\ f = g.file /\ h = Rolled(g, d)
    OBVIOUS
<1>2. o \in Seq(Seq(Line)) /\ f \in Seq(Line)
    BY <1>1 DEF Log0
<1>3. h.file = <<>> /\ h.old = Append(o, f)
    BY <1>1 DEF Rolled, Log0
<1>4. h \in Log0
  <2>1. Append(o, f) \in Seq(Seq(Line)) /\ <<>> \in Seq(Line)
      BY <1>2
  <2>2. QED
      BY <1>1, <2>1 DEF Rolled, Log0
<1>5. FlattenSeq(h.old) = FlattenSeq(o) \o f /\ FlattenSeq(o) \in Seq(Line)
    BY <1>2, <1>3, FlattenAppend, FlattenTyped
<1>6. (FlattenSeq(o) \o f) \o <<>> = FlattenSeq(o) \o f
  <2>1. FlattenSeq(o) \o f \in Seq(Line)
      BY <1>2, <1>5
  <2>2. QED
      BY <2>1, ConcatEmptySeq
<1>7. QED
    BY <1>1, <1>3, <1>4, <1>5, <1>6 DEF Lines

LEMMA LinesTyped == ASSUME NEW g \in Log0 PROVE Lines(g) \in Seq(Line)
<1>1. PICK o, f : o = g.old /\ f = g.file
    OBVIOUS
<1>2. o \in Seq(Seq(Line)) /\ f \in Seq(Line)
    BY <1>1 DEF Log0
<1>3. FlattenSeq(o) \in Seq(Line)
    BY <1>2, FlattenTyped
<1>4. FlattenSeq(o) \o f \in Seq(Line)
    BY <1>2, <1>3
<1>5. QED
    BY <1>1, <1>4 DEF Lines

LEMMA AppendConcat ==
    ASSUME NEW S, NEW a \in Seq(S), NEW b \in Seq(S), NEW e \in S
    PROVE  a \o Append(b, e) = Append(a \o b, e)
<1>1. PICK x, y, c : x = Append(b, e) /\ c = a \o b /\ y = Append(c, e)
    OBVIOUS
<1>2. /\ x \in Seq(S) /\ Len(x) = Len(b) + 1 /\ x[Len(b) + 1] = e
      /\ \A i \in 1..Len(b) : x[i] = b[i]
    BY <1>1, AppendSeq
<1>3. /\ c \in Seq(S) /\ Len(c) = Len(a) + Len(b)
      /\ \A i \in 1..(Len(a) + Len(b)) : c[i] = IF i <= Len(a) THEN a[i] ELSE b[i - Len(a)]
    BY <1>1, ConcatProperties
<1>4. /\ y \in Seq(S) /\ Len(y) = Len(c) + 1 /\ y[Len(c) + 1] = e
      /\ \A i \in 1..Len(c) : y[i] = c[i]
    BY <1>1, <1>3, AppendSeq
<1>5. PICK z : z = a \o x
    OBVIOUS
<1>6. /\ z \in Seq(S) /\ Len(z) = Len(a) + Len(x)
      /\ \A i \in 1..(Len(a) + Len(x)) : z[i] = IF i <= Len(a) THEN a[i] ELSE x[i - Len(a)]
  <2>1. x \in Seq(S) /\ a \in Seq(S)
      BY <1>2
  <2>2. QED
      BY ONLY <1>5, <2>1, ConcatProperties
<1>7. Len(a) \in Nat /\ Len(b) \in Nat
    OBVIOUS
<1>8. ASSUME NEW i \in 1..Len(z) PROVE z[i] = y[i]
  <2>1. CASE i <= Len(a)
    <3>1. i \in 1..(Len(a) + Len(b)) /\ i \in 1..(Len(a) + Len(x)) /\ i \in 1..Len(c)
        BY <1>2, <1>3, <1>7, <2>1
    <3>2. z[i] = a[i]
        BY <1>6, <2>1, <3>1
    <3>3. y[i] = a[i]
        BY <1>3, <1>4, <2>1, <3>1
    <3>4. QED
        BY <3>2, <3>3
  <2>2. CASE ~(i <= Len(a)) /\ i <= Len(a) + Len(b)
    <3>1. /\ i - Len(a) \in 1..Len(b) /\ i \in 1..(Len(a) + Len(b))
          /\ i \in 1..(Len(a) + Len(x)) /\ i \in 1..Len(c)
        BY <1>2, <1>3, <1>7, <2>2
    <3>2. z[i] = x[i - Len(a)]
        BY <1>6, <2>2, <3>1
    <3>3. y[i] = b[i - Len(a)]
        BY <1>3, <1>4, <2>2, <3>1
    <3>4. QED
        BY <1>2, <3>1, <3>2, <3>3
  <2>3. CASE i = Len(a) + Len(b) + 1
    <3>1. i - Len(a) = Len(b) + 1 /\ ~(i <= Len(a)) /\ i = Len(c) + 1
        BY <1>3, <1>7, <2>3
    <3>2. QED
        BY <1>2, <1>4, <1>6, <3>1
  <2>4. i \in 1..(Len(a) + Len(b) + 1)
    <3>1. Len(z) = Len(a) + Len(b) + 1
        BY <1>2, <1>6, <1>7
    <3>2. QED
        BY <3>1
  <2>5. QED
      BY <1>7, <2>1, <2>2, <2>3, <2>4
<1>9. Len(z) = Len(y)
    BY <1>2, <1>3, <1>4, <1>6, <1>7
<1>10. z = y
    BY <1>4, <1>6, <1>2, <1>7, <1>8, <1>9, SeqEqual
<1>11. QED
    BY <1>1, <1>5, <1>10

LEMMA WrittenLines ==
    ASSUME NEW g \in Log0, NEW m \in Message, NEW d \in Days, NEW n \in Nat,
           starts \in Nat
    PROVE  /\ Written(g, m, d, n) \in Log0
           /\ Ids(Lines(Written(g, m, d, n))) = Append(Ids(Lines(g)), m.id)
           /\ IdsOf(Lines(Written(g, m, d, n))) = IdsOf(Lines(g)) \cup {m.id}
<1>1. PICK o, f, h, l :
         /\ o = g.old /\ f = g.file /\ h = Written(g, m, d, n)
         /\ l = [id |-> m.id, stamp |-> m.stamp, shape |-> m.shape, written |-> d,
                 by |-> starts, end |-> DiskSize(g.file) + m.len + 1]
    OBVIOUS
<1>2. o \in Seq(Seq(Line)) /\ f \in Seq(Line) /\ l \in Line /\ l.id = m.id
  <2>1. g.file \in Seq(Line) /\ m.len \in Nat
      BY DEF Log0, Message
  <2>2. DiskSize(g.file) + m.len + 1 \in Nat
      BY <2>1, Sizes
  <2>3. QED
      BY <1>1, <2>2 DEF Log0, Line, Message
<1>3. h = [g EXCEPT !.open = TRUE, !.size = n + m.len, !.file = Append(f, l)]
    BY <1>1 DEF Written, Log0
<1>4. h.file = Append(f, l) /\ h.old = o
    BY <1>1, <1>3 DEF Log0
<1>5. h \in Log0
  <2>1. Append(f, l) \in Seq(Line) /\ n + m.len \in Nat
      BY <1>2 DEF Message
  <2>2. QED
      BY <1>3, <2>1 DEF Log0
<1>6. FlattenSeq(o) \in Seq(Line)
    BY <1>2, FlattenTyped
<1>7. FlattenSeq(o) \o Append(f, l) = Append(FlattenSeq(o) \o f, l)
    BY <1>2, <1>6, AppendConcat
<1>8. Lines(h) = Append(Lines(g), l)
    BY <1>1, <1>4, <1>7 DEF Lines
<1>9. Lines(g) \in Seq(Line)
    BY LinesTyped
<1>10. \A e \in Line : e.id \in 1..MaxLog
    BY DEF Line
<1>11. /\ Ids(Append(Lines(g), l)) = Append(Ids(Lines(g)), l.id)
       /\ IdsOf(Append(Lines(g), l)) = IdsOf(Lines(g)) \cup {l.id}
  <2>1. PICK q, S : q = Lines(g) /\ S = Line
      OBVIOUS
  <2>2. q \in Seq(S) /\ l \in S /\ \A e \in S : e.id \in 1..MaxLog
      BY <1>2, <1>9, <1>10, <2>1
  <2>3. /\ Ids(Append(q, l)) = Append(Ids(q), l.id)
        /\ IdsOf(Append(q, l)) = IdsOf(q) \cup {l.id}
      BY ONLY <2>2, IdsAppend
  <2>4. QED
      BY <2>1, <2>3
<1>12. QED
    BY <1>1, <1>2, <1>5, <1>8, <1>11

(* One turn of the thread adds the message, and nothing else, to the lines. *)
LEMMA DateLines ==
    ASSUME NEW g \in Log0, NEW d \in Days
    PROVE  CheckDate(g, d) \in Log0 /\ Lines(CheckDate(g, d)) = Lines(g)
<1>1. PICK h : h = [g EXCEPT !.date = d]
    OBVIOUS
<1>2. h \in Log0 /\ h.old = g.old /\ h.file = g.file
    BY <1>1 DEF Log0
<1>3. Lines(h) = Lines(g)
    BY <1>2 DEF Lines
<1>4. QED
    BY <1>1, <1>2, <1>3, RolledLines DEF CheckDate

LEMMA ActualLines ==
    ASSUME NEW g \in Log0, NEW m \in Message, NEW d \in Days, starts \in Nat
    PROVE  /\ ActualWrite(g, m, d) \in Log0
           /\ Ids(Lines(ActualWrite(g, m, d))) = Append(Ids(Lines(g)), m.id)
           /\ IdsOf(Lines(ActualWrite(g, m, d))) = IdsOf(Lines(g)) \cup {m.id}
<1>1. g.size \in Nat /\ DiskSize(g.file) \in Nat /\ 0 \in Nat
    BY Sizes DEF Log0
<1>2. Rolled(g, d) \in Log0 /\ Lines(Rolled(g, d)) = Lines(g)
    BY RolledLines
<1>3. \E p \in Log0 : \E n \in Nat :
         ActualWrite(g, m, d) = Written(p, m, d, n) /\ Lines(p) = Lines(g)
    BY <1>1, <1>2 DEF ActualWrite
<1>4. PICK p \in Log0, n \in Nat :
         ActualWrite(g, m, d) = Written(p, m, d, n) /\ Lines(p) = Lines(g)
    BY <1>3
<1>5. /\ Written(p, m, d, n) \in Log0
      /\ Ids(Lines(Written(p, m, d, n))) = Append(Ids(Lines(p)), m.id)
      /\ IdsOf(Lines(Written(p, m, d, n))) = IdsOf(Lines(p)) \cup {m.id}
    BY WrittenLines
<1>6. QED
    BY <1>4, <1>5

LEMMA TakenAdds ==
    ASSUME TypeOK, CanWrite
    PROVE  /\ Taken \in Log0
           /\ Ids(Lines(Taken)) = Append(Ids(Lines(log)), Head(queue).id)
           /\ IdsOf(Lines(Taken)) = IdsOf(Lines(log)) \cup {Head(queue).id}
<1>1. PICK d, m, g, h : /\ d = today /\ m = Head(queue)
                        /\ g = CheckDate(log, d) /\ h = ActualWrite(g, m, d)
    OBVIOUS
<1>2. h = Taken
    BY <1>1 DEF Taken
<1>3. m \in Message /\ d \in Days /\ starts \in Nat
  <2>1. queue \in Seq(Message) /\ queue # <<>>
      BY DEF TypeOK, CanWrite
  <2>2. Head(queue) \in Message
      BY <2>1
  <2>3. QED
      BY <1>1, <2>2 DEF TypeOK
<1>4. log \in Log0
    BY LogAssumption DEF TypeOK, Log, Log0
<1>5. g \in Log0 /\ Lines(g) = Lines(log)
    BY <1>1, <1>3, <1>4, DateLines
<1>6. /\ h \in Log0 /\ Ids(Lines(h)) = Append(Ids(Lines(g)), m.id)
      /\ IdsOf(Lines(h)) = IdsOf(Lines(g)) \cup {m.id}
    BY <1>1, <1>3, <1>5, ActualLines
<1>7. QED
    BY <1>1, <1>2, <1>5, <1>6

LEMMA WriteAdds ==
    ASSUME TypeOK, WriteMsg
    PROVE  /\ Ids(Lines(log')) = Append(Ids(Lines(log)), Head(queue).id)
           /\ IdsOf(Lines(log')) = IdsOf(Lines(log)) \cup {Head(queue).id}
<1>1. PICK h, d : h = Taken /\ d = today
    OBVIOUS
<1>2. log' = CheckSize(h, d) /\ CanWrite /\ d \in Days
    BY <1>1 DEF WriteMsg, TypeOK
<1>3. h \in Log0
    BY <1>1, <1>2, TakenAdds
<1>4. Lines(CheckSize(h, d)) = Lines(h)
    BY <1>2, <1>3, RolledLines DEF CheckSize
<1>5. QED
    BY <1>1, <1>2, <1>4, TakenAdds

-----------------------------------------------------------------------------
(* No two messages have one identity: those stamped are numbered, and a     *)
(* task sends a message once.                                               *)
UsedIds == IdsOf(queue) \cup IdsOf(Lines(log))
IdInv ==
    /\ UsedIds \subseteq 1..logged
    /\ \A t \in Task : held[t] # NoMsg => held[t].id \in (1..logged) \ UsedIds
    /\ \A t, u \in Task : t # u /\ held[t] # NoMsg /\ held[u] # NoMsg
                             => held[t].id # held[u].id

(* It is kept when messages are used up and none is stamped. *)
LEMMA IdsUsedUp ==
    ASSUME IdInv, UsedIds' \subseteq UsedIds, UNCHANGED logged,
           \A t \in Task : held'[t] \in {held[t], NoMsg}
    PROVE  IdInv'
  BY DEF IdInv

BookStep == [Book!Next]_<<Ids(queue), Ids(Lines(log))>>

LEMMA UsedIs == ASSUME TypeOK PROVE Book!used = UsedIds
<1>1. DOMAIN Ids(queue) = DOMAIN queue /\ \A i \in DOMAIN queue : Ids(queue)[i] = queue[i].id
    BY DEF Ids
<1>2. /\ DOMAIN Ids(Lines(log)) = DOMAIN Lines(log)
      /\ \A i \in DOMAIN Lines(log) : Ids(Lines(log))[i] = Lines(log)[i].id
    BY DEF Ids
<1>3. {Ids(queue)[i] : i \in DOMAIN Ids(queue)} = IdsOf(queue)
    BY <1>1 DEF IdsOf
<1>4. {Ids(Lines(log))[i] : i \in DOMAIN Ids(Lines(log))} = IdsOf(Lines(log))
    BY <1>2 DEF IdsOf
<1>5. QED
    BY <1>3, <1>4 DEF Book!used, UsedIds, Lines

LEMMA BookStamp == ASSUME TypeOK, IdInv, NEW t \in Task, Stamp(t) PROVE IdInv' /\ BookStep
<1>1. PICK x \in Texts :
         held' = [held EXCEPT ![t] =
                    [id |-> logged + 1, stamp |-> today, shape |-> x.shape, len |-> x.len]]
    BY DEF Stamp
<1>2. logged' = logged + 1 /\ logged \in Nat /\ UNCHANGED <<queue, log>>
    BY LogAssumption DEF Stamp, TypeOK
<1>3. UsedIds' = UsedIds
    BY <1>2 DEF UsedIds
<1>4. /\ held'[t].id = logged + 1
      /\ \A u \in Task : u # t => held'[u] = held[u]
    BY <1>1 DEF TypeOK
<1>5. IdInv'
    BY <1>2, <1>3, <1>4 DEF IdInv
<1>6. BookStep
    BY <1>2 DEF BookStep
<1>7. QED
    BY <1>5, <1>6

(* A message that is sent to a thread that is gone is used up. *)
LEMMA BookSendFails ==
    ASSUME TypeOK, IdInv, NEW t \in Task, Send(t), ~up PROVE IdInv' /\ BookStep
<1>1. /\ queue' = queue /\ held' = [held EXCEPT ![t] = NoMsg] /\ UNCHANGED <<logged, log>>
    BY DEF Send
<1>2. UsedIds' = UsedIds
    BY <1>1 DEF UsedIds
<1>3. \A u \in Task : held'[u] \in {held[u], NoMsg}
    BY <1>1 DEF TypeOK
<1>4. IdInv'
    BY <1>1, <1>2, <1>3, IdsUsedUp
<1>5. QED
    BY <1>1, <1>4 DEF BookStep

LEMMA BookSend == ASSUME TypeOK, IdInv, NEW t \in Task, Send(t), up PROVE IdInv' /\ BookStep
<1>1. PICK m : m = held[t]
    OBVIOUS
<1>2. /\ m # NoMsg /\ queue' = Append(queue, m) /\ held' = [held EXCEPT ![t] = NoMsg]
      /\ UNCHANGED <<logged, log>>
    BY <1>1 DEF Send
<1>3. m \in Message /\ queue \in Seq(Message) /\ \A e \in Message : e.id \in 1..MaxLog
    BY <1>1, <1>2 DEF TypeOK, Message
<1>4. Ids(queue') = Append(Ids(queue), m.id) /\ IdsOf(queue') = IdsOf(queue) \cup {m.id}
    BY <1>2, <1>3, IdsAppend
<1>5. UsedIds' = UsedIds \cup {m.id}
    BY <1>2, <1>4 DEF UsedIds
<1>6. m.id \in (1..logged) \ UsedIds /\ m.id \in 1..MaxLog
    BY <1>1, <1>2, <1>3 DEF IdInv
<1>7. held'[t] = NoMsg /\ \A u \in Task : u # t => held'[u] = held[u]
    BY <1>2 DEF TypeOK
<1>8. IdInv'
  <2>1. UsedIds' \subseteq 1..logged'
      BY <1>2, <1>5, <1>6 DEF IdInv
  <2>2. ASSUME NEW u \in Task, held'[u] # NoMsg
        PROVE  held'[u].id \in (1..logged') \ UsedIds'
    <3>1. u # t /\ held'[u] = held[u]
        BY <1>7, <2>2
    <3>2. held[u].id \in (1..logged) \ UsedIds /\ held[u].id # m.id
        BY <1>1, <1>2, <2>2, <3>1 DEF IdInv
    <3>3. QED
        BY <1>2, <1>5, <3>1, <3>2
  <2>3. \A u, v \in Task : u # v /\ held'[u] # NoMsg /\ held'[v] # NoMsg
                               => held'[u].id # held'[v].id
      BY <1>7 DEF IdInv
  <2>4. QED
      BY <2>1, <2>2, <2>3 DEF IdInv
<1>9. Book!Accept
  <2>1. m.id \in (1..MaxLog) \ Book!used
      BY <1>6, UsedIs
  <2>2. UNCHANGED Ids(FlattenSeq(log.old) \o log.file)
      BY <1>2
  <2>3. QED
      BY <1>4, <2>1, <2>2 DEF Book!Accept
<1>10. BookStep
    BY <1>9 DEF BookStep, Book!Next
<1>11. QED
    BY <1>8, <1>10

LEMMA BookTake ==
    ASSUME TypeOK, queue # <<>>, queue' = Tail(queue)
    PROVE  /\ Ids(queue) # <<>> /\ Ids(queue') = Tail(Ids(queue))
           /\ Head(Ids(queue)) = Head(queue).id
           /\ IdsOf(queue) = IdsOf(queue') \cup {Head(queue).id}
<1>1. queue \in Seq(Message) /\ \A e \in Message : e.id \in 1..MaxLog
    BY DEF TypeOK, Message
<1>2. QED
    BY <1>1, IdsTail

LEMMA BookWrite == ASSUME TypeOK, IdInv, WriteMsg PROVE IdInv' /\ BookStep
<1>1. queue # <<>> /\ queue' = Tail(queue) /\ UNCHANGED <<logged, held>>
    BY DEF WriteMsg, CanWrite
<1>2. /\ Ids(queue) # <<>> /\ Ids(queue') = Tail(Ids(queue))
      /\ Head(Ids(queue)) = Head(queue).id
      /\ IdsOf(queue) = IdsOf(queue') \cup {Head(queue).id}
    BY <1>1, BookTake
<1>3. /\ Ids(Lines(log')) = Append(Ids(Lines(log)), Head(queue).id)
      /\ IdsOf(Lines(log')) = IdsOf(Lines(log)) \cup {Head(queue).id}
    BY WriteAdds
<1>4. UsedIds' \subseteq UsedIds
    BY <1>2, <1>3 DEF UsedIds
<1>5. IdInv'
    BY <1>1, <1>4, IdsUsedUp
<1>6. Book!Write
    BY <1>2, <1>3 DEF Book!Write, Lines
<1>7. QED
    BY <1>5, <1>6 DEF BookStep, Book!Next

LEMMA BookLose == ASSUME TypeOK, IdInv, LoseMsg PROVE IdInv' /\ BookStep
<1>1. /\ queue # <<>> /\ queue' = Tail(queue) /\ UNCHANGED <<logged, held>>
      /\ log' = [log EXCEPT !.date = today] /\ log \in Log
    BY DEF LoseMsg, TypeOK
<1>2. /\ Ids(queue) # <<>> /\ Ids(queue') = Tail(Ids(queue))
      /\ IdsOf(queue) = IdsOf(queue') \cup {Head(queue).id}
    BY <1>1, BookTake
<1>3. log'.old = log.old /\ log'.file = log.file
    BY <1>1 DEF Log
<1>4. Lines(log') = Lines(log)
    BY <1>3 DEF Lines
<1>5. UsedIds' \subseteq UsedIds
    BY <1>2, <1>4 DEF UsedIds
<1>6. IdInv'
    BY <1>1, <1>5, IdsUsedUp
<1>7. Book!Lose
    BY <1>2, <1>4 DEF Book!Lose, Lines
<1>8. QED
    BY <1>6, <1>7 DEF BookStep, Book!Next

(* The process ends, or its thread: the queue is gone, and the lines are as *)
(* they were or one more.                                                   *)
LEMMA BookCrash ==
    ASSUME TypeOK, IdInv, queue' = <<>>, UNCHANGED logged,
           \A t \in Task : held'[t] \in {held[t], NoMsg},
           \/ Lines(log') = Lines(log)
           \/ /\ queue # <<>>
              /\ Ids(Lines(log')) = Append(Ids(Lines(log)), Head(queue).id)
              /\ IdsOf(Lines(log')) = IdsOf(Lines(log)) \cup {Head(queue).id}
    PROVE  IdInv' /\ BookStep
<1>1. Ids(queue') = <<>> /\ IdsOf(queue') = {}
    BY DEF Ids, IdsOf
<1>2. CASE Lines(log') = Lines(log)
  <2>1. UsedIds' \subseteq UsedIds
      BY <1>1, <1>2 DEF UsedIds
  <2>2. Book!Crash
      BY <1>1, <1>2 DEF Book!Crash, Lines
  <2>3. QED
      BY <2>1, <2>2, IdsUsedUp DEF BookStep, Book!Next
<1>3. CASE /\ queue # <<>>
           /\ Ids(Lines(log')) = Append(Ids(Lines(log)), Head(queue).id)
           /\ IdsOf(Lines(log')) = IdsOf(Lines(log)) \cup {Head(queue).id}
  <2>1. /\ Ids(queue) # <<>> /\ Head(Ids(queue)) = Head(queue).id
        /\ Head(queue).id \in IdsOf(queue)
    <3>1. queue \in Seq(Message) /\ \A e \in Message : e.id \in 1..MaxLog
        BY DEF TypeOK, Message
    <3>2. QED
        BY <1>3, <3>1, IdsTail
  <2>2. UsedIds' \subseteq UsedIds
      BY <1>1, <1>3, <2>1 DEF UsedIds
  <2>3. Book!Crash
      BY <1>1, <1>3, <2>1 DEF Book!Crash, Lines
  <2>4. QED
      BY <2>2, <2>3, IdsUsedUp DEF BookStep, Book!Next
<1>4. QED
    BY <1>2, <1>3

LEMMA ForgottenLines == ASSUME NEW g \in Log0 PROVE Lines(Forgotten(g)) = Lines(g)
  BY ForgottenFacts DEF Lines

LEMMA BookRestart ==
    ASSUME TypeOK, IdInv, Restart \/ EndMidWrite \/ ThreadPanics PROVE IdInv' /\ BookStep
<1>1. log \in Log0
    BY LogAssumption DEF TypeOK, Log, Log0
<1>2. /\ queue' = <<>> /\ UNCHANGED logged
      /\ \A t \in Task : held'[t] \in {held[t], NoMsg}
    BY DEF Restart, EndMidWrite, Reborn, ThreadPanics
<1>3. CASE Restart \/ ThreadPanics
  <2>1. log' = Forgotten(log)
      BY <1>3 DEF Restart, Reborn, ThreadPanics
  <2>2. Lines(log') = Lines(log)
      BY <1>1, <2>1, ForgottenLines
  <2>3. QED
      BY <1>2, <2>2, BookCrash
<1>4. CASE EndMidWrite
  <2>1. log' = Forgotten(Taken) /\ CanWrite /\ queue # <<>>
      BY <1>4 DEF EndMidWrite, Reborn, CanWrite
  <2>2. Lines(log') = Lines(Taken)
      BY <2>1, TakenAdds, ForgottenLines
  <2>3. QED
      BY <1>2, <2>1, <2>2, TakenAdds, BookCrash
<1>5. QED
    BY <1>3, <1>4

LEMMA BookInit == ASSUME Init PROVE IdInv /\ Book!Init
<1>1. /\ queue = <<>> /\ held = [t \in Task |-> NoMsg] /\ logged = 0
      /\ log.old = <<>> /\ log.file = <<>>
    BY DEF Init
<1>2. Lines(log) = <<>>
    BY <1>1, FlattenEmpty DEF Lines
<1>3. IdsOf(<<>>) = {} /\ Ids(<<>>) = <<>>
    BY DEF IdsOf, Ids
<1>4. IdInv
    BY <1>1, <1>2, <1>3 DEF IdInv, UsedIds
<1>5. Book!Init
    BY <1>1, <1>2, <1>3 DEF Book!Init, Lines
<1>6. QED
    BY <1>4, <1>5

LEMMA BookNext == ASSUME TypeOK, IdInv, [Next]_vars PROVE IdInv' /\ BookStep
<1>1. ASSUME NEW t \in Task, Stamp(t) \/ Send(t) PROVE IdInv' /\ BookStep
    BY <1>1, BookStamp, BookSend, BookSendFails
<1>2. CASE ClockMoves \/ UNCHANGED vars
  <2>1. UNCHANGED <<queue, log, held, logged>>
      BY <1>2 DEF ClockMoves, vars
  <2>2. QED
      BY <2>1 DEF IdInv, UsedIds, BookStep
<1>3. QED
    BY <1>1, <1>2, BookWrite, BookLose, BookRestart DEF Next

(* The files, one after the other, are a log book: however tasks interleave *)
(* between stamp and send (Outter::log), whatever the clock does and        *)
(* whenever processes end, no roll, rename, lost message or restart         *)
(* reorders, repeats or removes what was written.                           *)
THEOREM BookKept == Spec => KeepsBook
<1>1. Init => IdInv /\ Book!Init
    BY BookInit
<1>2. TypeOK /\ IdInv /\ [Next]_vars => IdInv' /\ BookStep
    BY BookNext
<1>3. Spec => Book!Init /\ [][Book!Next]_<<Ids(queue), Ids(Lines(log))>>
    BY <1>1, <1>2, TypeCorrect, PTL DEF Spec, BookStep
<1>4. QED
    BY <1>3, PTL DEF KeepsBook, Book!Spec, Lines

-----------------------------------------------------------------------------
(* A message is lost by a thread that goes on only if the one before it,    *)
(* from the same process, filled its file, and a roll for the date then     *)
(* found none (inner.rs:52-55, 87): every other message taken from the      *)
(* channel is in a file.                                                    *)
THEOREM LossExplained == Spec => LosesOnlyAfterFull
<1>1. ASSUME Inv, [Next]_vars, LostInWriting PROVE FilledJustNow
  <2>1. /\ queue # <<>> /\ queue' = Tail(queue) /\ starts' = starts /\ up'
        /\ log'.file = log.file /\ log'.old = log.old
        /\ queue \in Seq(Message) /\ Len(queue') # Len(queue)
        /\ starts \in Nat
    <3>1. queue \in Seq(Message) /\ starts \in Nat
        BY <1>1 DEF Inv, TypeOK
    <3>2. PICK q : q = queue
        OBVIOUS
    <3>3. q # <<>> /\ q \in Seq(Message) /\ queue' = Tail(q)
        BY <1>1, <3>1, <3>2 DEF LostInWriting
    <3>4. Len(Tail(q)) # Len(q)
        BY ONLY <3>3
    <3>5. QED
        BY <1>1, <3>1, <3>2, <3>3, <3>4 DEF LostInWriting
  <2>2. CASE LoseMsg
    <3>1. log.date # 0 /\ log.file = <<>> /\ log'.open = log.open
        BY <1>1, <2>2 DEF LoseMsg, NothingToRoll, Inv, TypeOK, Log
    <3>2. Known(log)
        BY <1>1 DEF Inv
    <3>3. FullRoll(log)
        BY <3>1, <3>2 DEF Known
    <3>4. QED
        BY <3>1, <3>3 DEF FilledJustNow, FullRoll
  <2>3. ASSUME WriteMsg PROVE FALSE
    <3>1. PICK q, e, n : q = Ids(Lines(log)) /\ e = Head(queue).id /\ n = MaxLog
        OBVIOUS
    <3>2. Lines(log') = Lines(log)
        BY <2>1 DEF Lines
    <3>3. Ids(Lines(log')) = Append(q, e)
        BY <1>1, <2>3, <3>1, WriteAdds DEF Inv
    <3>4. log \in Log0
        BY <1>1, LogAssumption DEF Inv, TypeOK, Log, Log0
    <3>5. q \in Seq(1..n)
      <4>1. Lines(log) \in Seq(Line)
          BY <3>4, LinesTyped
      <4>2. \A l \in Line : l.id \in 1..MaxLog
          BY DEF Line
      <4>3. QED
          BY <3>1, <4>1, <4>2, IdsFacts
    <3>6. Head(queue) \in Message
      <4>1. PICK w : w = queue
          OBVIOUS
      <4>2. w \in Seq(Message) /\ w # <<>>
          BY <2>1, <4>1
      <4>3. Head(w) \in Message
          BY ONLY <4>2
      <4>4. QED
          BY <4>1, <4>3
    <3>7. e \in 1..n
        BY <3>1, <3>6 DEF Message
    <3>8. Len(Append(q, e)) = Len(q) + 1 /\ Len(q) \in Nat
        BY ONLY <3>5, <3>7
    <3>9. QED
        BY <3>1, <3>2, <3>3, <3>8
  <2>4. ASSUME Restart \/ EndMidWrite PROVE FALSE
      BY <2>1, <2>4 DEF Restart, EndMidWrite, Reborn
  <2>5. ASSUME ThreadPanics PROVE FALSE
      BY <2>1, <2>5 DEF ThreadPanics
  <2>6. ASSUME NEW t \in Task, Stamp(t) \/ Send(t) PROVE FALSE
    <3>1. CASE Stamp(t)
        BY <2>1, <3>1 DEF Stamp
    <3>2. CASE Send(t)
      <4>1. PICK q, m : q = queue /\ m = held[t]
          OBVIOUS
      <4>2. q \in Seq(Message) /\ m # NoMsg
          BY <2>1, <3>2, <4>1 DEF Send
      <4>3. m \in Message
          BY <1>1, <2>1, <4>1, <4>2 DEF Inv, TypeOK
      <4>4. Append(q, m) # Tail(q) /\ q # Tail(q)
        <5>1. q # <<>>
            BY <2>1, <4>1
        <5>2. Len(Append(q, m)) = Len(q) + 1 /\ Len(Tail(q)) = Len(q) - 1 /\ Len(q) \in Nat
            BY ONLY <4>2, <4>3, <5>1
        <5>3. QED
            BY <5>2
      <4>5. QED
          BY <2>1, <3>2, <4>1, <4>4 DEF Send
    <3>3. QED
        BY <2>6, <3>1, <3>2
  <2>7. ASSUME ClockMoves \/ UNCHANGED vars PROVE FALSE
      BY <2>1, <2>7 DEF ClockMoves, vars
  <2>8. QED
      BY <1>1, <2>2, <2>3, <2>4, <2>5, <2>6, <2>7 DEF Next
<1>2. Inv /\ [Next]_vars => [LostInWriting => FilledJustNow]_vars
    BY <1>1
<1>3. QED
    BY <1>2, InvHolds, PTL DEF Spec, LosesOnlyAfterFull

=============================================================================

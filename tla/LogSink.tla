------------------------------ MODULE LogSink ------------------------------
(***************************************************************************)
(* The logger (logger/): tasks stamp their messages and send them to one   *)
(* thread, which writes each to a file and rolls the file, that is renames *)
(* it, when the date has changed or the file is full.  One file is         *)
(* modelled: files do not touch each other.  What the thread knows of its  *)
(* file is lost when the process ends; the next process reads the last     *)
(* line of the file to find out whose day it is.                           *)
(*                                                                         *)
(* The clock stands still while one message is written, and a process ends *)
(* between two messages, or when one is written and the size of the file   *)
(* not checked yet.  "gm:close" never reaches the thread, because          *)
(* Outter::log puts a stamp before every message.                          *)
(***************************************************************************)
EXTENDS Integers, Sequences, SequencesExt

CONSTANTS
    Task,     \* tasks that log
    Days,     \* dates the clock may show
    Texts,    \* what may be logged: length in bytes, with the stamp, and shape
    MaxSize,  \* Inner.max_size, in bytes
    MaxLog,   \* messages ever logged (bounds the model)
    MaxStarts \* processes ever started (bounds the model)

(* A message: a "dated" one is one line, which begins with the stamp; the   *)
(* text of an "undated" one has a line break in it, or at its end, so that  *)
(* its last line has no stamp or is empty.  The last line of a "cut" one    *)
(* has a "]" in it and begins with a character of several bytes, which the  *)
(* slice of inner.rs:130 would cut.                                         *)
Shapes == {"dated", "undated", "cut"}
Message == [id : 1..MaxLog, stamp : Days, shape : Shapes, len : Nat]

(* A message in a file: the date it was written on, the process that wrote  *)
(* it, and the size the file had then, line breaks included.                *)
Line == [id : 1..MaxLog, stamp : Days, shape : Shapes, written : Days, by : Nat, end : Nat]

ASSUME LogAssumption ==
    /\ Days \subseteq Nat \ {0}
    /\ Texts \subseteq [len : Nat, shape : Shapes]
    /\ MaxSize \in Nat \ {0}
    /\ MaxLog \in Nat
    /\ MaxStarts \in Nat

VARIABLES
    today,   \* Local::now(), which may be set forwards and back
    starts,  \* processes started
    logged,  \* messages stamped
    held,    \* the message a task has stamped and not sent yet
    queue,   \* the unbounded channel to the thread
    up,      \* does the thread run?  It does not if it has panicked
    log      \* the file, its predecessors, and the thread's Inner for it

vars == <<today, starts, logged, held, queue, up, log>>

NoMsg == [id |-> 0]

(* file and old are on disk: the lines of the current file (none: there is  *)
(* no file) and of the rolled ones.  The other fields are Inner's; date is  *)
(* create_date, and 0 while the thread has no Inner for the path.           *)
Log == [file : Seq(Line), old : Seq(Seq(Line)),
        open : BOOLEAN, date : Days \cup {0}, size : 0..(MaxSize - 1)]

TypeOK ==
    /\ today \in Days
    /\ starts \in Nat
    /\ logged \in 0..MaxLog
    /\ held \in [Task -> Message \cup {NoMsg}]
    /\ queue \in Seq(Message)
    /\ up \in BOOLEAN
    /\ log \in Log

Init ==
    /\ today \in Days
    /\ starts = 1
    /\ logged = 0
    /\ held = [t \in Task |-> NoMsg]
    /\ queue = <<>>
    /\ up = TRUE
    /\ log = [file |-> <<>>, old |-> <<>>, open |-> FALSE, date |-> 0, size |-> 0]

-----------------------------------------------------------------------------
(* The tasks (Outter::log): the stamp is taken before the send, and another *)
(* task may come in between.                                                *)

Stamp(t) ==
    /\ held[t] = NoMsg
    /\ logged < MaxLog
    /\ logged' = logged + 1
    /\ \E x \in Texts :
          held' = [held EXCEPT ![t] =
                      [id |-> logged + 1, stamp |-> today, shape |-> x.shape, len |-> x.len]]
    /\ UNCHANGED <<today, starts, queue, up, log>>

(* The send fails when the thread is gone. *)
Send(t) ==
    /\ held[t] # NoMsg
    /\ queue' = IF up THEN Append(queue, held[t]) ELSE queue
    /\ held' = [held EXCEPT ![t] = NoMsg]
    /\ UNCHANGED <<today, starts, logged, up, log>>

-----------------------------------------------------------------------------
(* The thread. *)

(* Mutated form of Rolled: two files are renamed to the same name. *)
RolledOver(g, d) ==
    [g EXCEPT !.open = FALSE, !.size = 0, !.date = d, !.file = <<>>, !.old = <<g.file>>]

(* Inner::roll on date d, of a file that exists: it is renamed to a name    *)
(* that no other file has (the time of day, to the microsecond).            *)
Rolled(g, d) ==
    [g EXCEPT !.open = FALSE, !.size = 0, !.date = d,
              !.file = <<>>, !.old = Append(@, g.file)]

(* Mutated form of CheckDate: an open file is never rolled for its date. *)
CheckDateOnce(g, d) == IF g.date = 0 THEN [g EXCEPT !.date = d] ELSE g

(* Inner::new on the first message for the path; Inner::check_date. *)
CheckDate(g, d) ==
    IF g.date = 0 THEN [g EXCEPT !.date = d]
    ELSE IF g.date # d THEN Rolled(g, d) ELSE g

(* The size of a file on disk. *)
DiskSize(f) == IF f = <<>> THEN 0 ELSE Last(f).end

(* dowrite to a file of which n bytes are counted.  The line break is not   *)
(* counted.                                                                 *)
Written(g, m, d, n) ==
    [g EXCEPT !.open = TRUE, !.size = n + m.len,
              !.file = Append(@, [id |-> m.id, stamp |-> m.stamp, shape |-> m.shape,
                                  written |-> d, by |-> starts,
                                  end |-> DiskSize(g.file) + m.len + 1])]

LastDated(g) == g.file # <<>> /\ Last(g.file).shape = "dated"

(* Mutated form of ActualWrite: the size of a file found is not looked up. *)
ActualWriteUnsized(g, m, d) ==
    IF g.open THEN Written(g, m, d, g.size)
    ELSE IF LastDated(g) /\ Last(g.file).stamp # d THEN Written(Rolled(g, d), m, d, 0)
    ELSE Written(g, m, d, 0)

(* Inner::actual_write.  A file found on disk is continued if its last line *)
(* has today's date, with the size the disk says (line breaks counted), and *)
(* rolled if it has another one.  If it has none, the file that is          *)
(* "created" is the same file, opened to append and counted from 0.         *)
ActualWrite(g, m, d) ==
    IF g.open THEN Written(g, m, d, g.size)
    ELSE IF LastDated(g) /\ Last(g.file).stamp = d THEN Written(g, m, d, DiskSize(g.file))
    ELSE IF LastDated(g) THEN Written(Rolled(g, d), m, d, 0)
    ELSE Written(g, m, d, 0)

(* Mutated form of CheckSize: a file of just max_size is not rolled. *)
CheckSizeLate(g, d) == IF g.size > MaxSize THEN Rolled(g, d) ELSE g

(* Inner::check_size *)
CheckSize(g, d) == IF g.size >= MaxSize THEN Rolled(g, d) ELSE g

(* Mutated form of NothingToRoll: an Inner that is new has no date either.  *)
NothingToRollAtFirst == log.date # today /\ log.file = <<>>

(* check_date finds a new date and no file to rename: the last message      *)
(* filled the file, so it was rolled already.                               *)
NothingToRoll == log.date \notin {0, today} /\ log.file = <<>>

(* actual_write is to open a file whose last line it cannot slice. *)
CannotSlice ==
    LET g == CheckDate(log, today)
    IN  ~g.open /\ g.file # <<>> /\ Last(g.file).shape = "cut"

(* recv(), check_date and actual_write, which leave the file as in Taken.   *)
CanWrite == up /\ queue # <<>> /\ ~NothingToRoll /\ ~CannotSlice
Taken == ActualWrite(CheckDate(log, today), Head(queue), today)

(* recv() and Inner::write. *)
WriteMsg ==
    /\ CanWrite
    /\ log' = CheckSize(Taken, today)
    /\ queue' = Tail(queue)
    /\ UNCHANGED <<today, starts, logged, held, up>>

(* The rename fails, and write returns its error before anything is written. *)
LoseMsg ==
    /\ up /\ queue # <<>>
    /\ NothingToRoll
    /\ log' = [log EXCEPT !.date = today]
    /\ queue' = Tail(queue)
    /\ UNCHANGED <<today, starts, logged, held, up>>

(* What is left of a file without the thread's Inner. *)
Forgotten(g) == [g EXCEPT !.open = FALSE, !.date = 0, !.size = 0]

(* The thread panics, and its end of the channel is dropped.  The file's    *)
(* last line stays as it is, so the next process will fare no better.       *)
ThreadPanics ==
    /\ up /\ queue # <<>>
    /\ ~NothingToRoll /\ CannotSlice
    /\ up' = FALSE
    /\ queue' = <<>>
    /\ log' = Forgotten(log)
    /\ UNCHANGED <<today, starts, logged, held>>

-----------------------------------------------------------------------------
(* The clock and the process. *)

ClockMoves == today' \in Days \ {today} /\ UNCHANGED <<starts, logged, held, queue, up, log>>

(* The process ends, by main returning or otherwise, and nobody waits for   *)
(* the thread; another process starts, and finds the file as it is in g.    *)
Reborn(g) ==
    /\ starts < MaxStarts
    /\ starts' = starts + 1
    /\ held' = [t \in Task |-> NoMsg]
    /\ queue' = <<>>
    /\ up' = TRUE
    /\ log' = Forgotten(g)
    /\ UNCHANGED <<today, logged>>

Restart == Reborn(log)

(* It ends between actual_write and check_size. *)
EndMidWrite ==
    /\ CanWrite
    /\ Reborn(Taken)

Next ==
    \/ \E t \in Task : Stamp(t) \/ Send(t)
    \/ WriteMsg \/ LoseMsg \/ ThreadPanics
    \/ ClockMoves \/ Restart \/ EndMidWrite

Spec == Init /\ [][Next]_vars

-----------------------------------------------------------------------------
(* Properties. *)

Files == {log.old[i] : i \in DOMAIN log.old} \cup {log.file}

(* The files, one after the other, are a log book: no roll, rename, restart *)
(* or lost message reorders, repeats or removes what was written.           *)
Ids(s) == [i \in DOMAIN s |-> s[i].id]
Book == INSTANCE LogBook WITH
            Id <- 1..MaxLog,
            queue <- Ids(queue),
            book <- Ids(FlattenSeq(log.old) \o log.file)
KeepsBook == Book!Spec

(* A file has the messages of one day ("check whether the date rolls the    *)
(* file before writing", inner.rs:52): lines written on different days are  *)
(* neighbours only if the first does not bear the date it was written on,   *)
(* so that a restart could not know.                                        *)
Bears(l) == l.shape = "dated" /\ l.stamp = l.written
OneDayPerFile ==
    \A f \in Files : \A i \in 1..(Len(f) - 1) :
        Bears(f[i]) => f[i + 1].written = f[i].written

(* A file is rolled at its limit: no process adds a message to a file with  *)
(* max_size bytes of text, however often the count was lost, until a        *)
(* message with a line break has been written to it.  So a process takes it *)
(* past the limit by its last message at most.  inner.rs:18 calls max_size  *)
(* the upper limit of the size of a file, which it is not: it is looked at  *)
(* after the write (inner.rs:55, 68), and line breaks do not count.         *)
WithinLimit ==
    \A f \in Files : \A i \in 2..Len(f) :
        (\A j \in 1..(i - 1) : f[j].shape = "dated") /\ f[i].by = f[i - 1].by
            => f[i - 1].end - (i - 1) < MaxSize

(* A message is lost by a thread that goes on only if the one before it,    *)
(* from the same process, filled its file, and a roll for the date then     *)
(* found none (inner.rs:52-55, 87).                                         *)
LostInWriting ==
    /\ queue # <<>> /\ queue' = Tail(queue)
    /\ log'.file = log.file /\ log'.old = log.old
    /\ starts' = starts /\ up'
FilledJustNow ==
    /\ log.file = <<>> /\ log.old # <<>>
    /\ Last(Last(log.old)).by = starts
    /\ Last(Last(log.old)).end >= MaxSize
LosesOnlyAfterFull == [][LostInWriting => FilledJustNow]_vars

=============================================================================

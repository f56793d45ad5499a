----------------------------- MODULE TimerState -----------------------------
(***************************************************************************)
(* The timers of the script layer (states/timer_state.rs).  The hub calls  *)
(* update on every tick with the wall clock; scripts add and remove timers *)
(* at any time, each time reading the wall clock, which an administrator   *)
(* or ntp may also set back.  That a delay or a period could take a time   *)
(* past the range of i64 (timer_state.rs:47, 112) is left out.             *)
(***************************************************************************)
EXTENDS Integers, Sequences, FiniteSets

CONSTANTS
    Fps,       \* conf fps
    Second,    \* milliseconds in a second (1000)
    Word,      \* 2^32: `freq as i32` keeps freq modulo Word
    Begins,    \* first delays a script may ask for
    Freqs,     \* periods a script may ask for; 0 is a one-shot timer
    Jumps,     \* changes of the clock between two steps
    MaxClock,  \* the clock stays in 0..MaxClock (bounds the model)
    MaxTimers  \* timers ever accepted (bounds the model)

ASSUME TimerAssumption ==
    /\ {Fps, Second} \subseteq Nat \ {0}
    /\ Word \in Nat /\ Word % 2 = 0 /\ Word > Second
    /\ Begins \cup Freqs \cup Jumps \subseteq Int
    /\ {MaxClock, MaxTimers} \subseteq Nat

VARIABLES
    clock,       \* Local::now().timestamp_millis()
    inc_id,      \* identifier of the last timer accepted
    orders,      \* the periodic timers, by timeout
    once_orders, \* the one-shot timers, by timeout
    panicked,    \* a division by zero has ended the hub task
    updated,     \* history: was the last step an update?
    fired,       \* what that update gave to Lua's _timer_msg
    last,        \* history: when a timer fired last, or -1
    dead         \* history: timers removed, and one-shot timers that fired

vars == <<clock, inc_id, orders, once_orders, panicked, updated, fired, last, dead>>

Timer == [timeout : Nat, id : 1..MaxTimers, freq : Nat]

TypeOK ==
    /\ clock \in 0..MaxClock
    /\ inc_id \in 0..MaxTimers
    /\ orders \in Seq(Timer)
    /\ once_orders \in Seq(Timer)
    /\ panicked \in BOOLEAN
    /\ updated \in BOOLEAN
    /\ fired \in Seq(1..MaxTimers)
    /\ last \in [1..MaxTimers -> -1..MaxClock]
    /\ dead \subseteq 1..MaxTimers

Init ==
    /\ clock = 0
    /\ inc_id = 0
    /\ orders = <<>>
    /\ once_orders = <<>>
    /\ panicked = FALSE
    /\ updated = FALSE
    /\ fired = <<>>
    /\ last = [i \in 1..MaxTimers |-> -1]
    /\ dead = {}

-----------------------------------------------------------------------------

Ids(s) == {s[i].id : i \in DOMAIN s}

(* Mutated form of DueCount: a timer is due a moment too late. *)
DueCountStrict(s) == Cardinality({i \in DOMAIN s : s[i].timeout < clock})

DueCount(s) == Cardinality({i \in DOMAIN s : s[i].timeout <= clock})

(* sort_by timeout, which is stable: the position of element i is the       *)
(* number of elements that must stand before it.                            *)
Place(s, i) ==
    1 + Cardinality({j \in DOMAIN s : \/ s[j].timeout < s[i].timeout
                                      \/ s[j].timeout = s[i].timeout /\ j < i})

(* Mutated form of Sorted: the sort is forgotten. *)
SortedNot(s) == s

Sorted(s) == [k \in DOMAIN s |-> s[CHOOSE i \in DOMAIN s : Place(s, i) = k]]

(* `freq as i32` *)
AsI32(n) == ((n + Word \div 2) % Word) - Word \div 2

Divides(freq) == freq > 0 => AsI32(freq) # 0

(* tar_fps <= fps, where a negative divisor makes tar_fps 0 or negative. *)
WithinFps(freq) == AsI32(freq) > 0 => Second \div AsI32(freq) <= Fps

(* iter().position, and Vec::remove if the identifier is there. *)
Without(s, id) ==
    LET at  == {i \in DOMAIN s : s[i].id = id}
        pos == CHOOSE i \in at : \A j \in at : i <= j
    IN  IF at = {} THEN s ELSE SubSeq(s, 1, pos - 1) \o SubSeq(s, pos + 1, Len(s))

NotUpdate == updated' = FALSE /\ fired' = <<>>

ClockMoves ==
    /\ \E d \in Jumps : clock + d \in 0..MaxClock /\ clock' = clock + d
    /\ NotUpdate
    /\ UNCHANGED <<inc_id, orders, once_orders, panicked, last, dead>>

(* Mutated form of AddTimer: negative arguments are not refused. *)
AddTimerAny(begin, freq) ==
    /\ ~panicked
    /\ Divides(freq) /\ WithinFps(freq)
    /\ inc_id < MaxTimers
    /\ inc_id' = inc_id + 1
    /\ orders' = Sorted(Append(orders, [timeout |-> clock + begin, id |-> inc_id + 1,
                                        freq |-> freq]))
    /\ NotUpdate
    /\ UNCHANGED <<clock, once_orders, panicked, last, dead>>

(* add_timer with arguments it accepts; with others it returns 0 and        *)
(* changes nothing.                                                         *)
AddTimer(begin, freq) ==
    LET t == [timeout |-> clock + begin, id |-> inc_id + 1, freq |-> freq] IN
    /\ ~panicked
    /\ begin >= 0 /\ freq >= 0
    /\ Divides(freq) /\ WithinFps(freq)
    /\ inc_id < MaxTimers
    /\ inc_id' = inc_id + 1
    /\ IF freq = 0
       THEN once_orders' = Sorted(Append(once_orders, t)) /\ UNCHANGED orders
       ELSE orders' = Sorted(Append(orders, t)) /\ UNCHANGED once_orders
    /\ NotUpdate
    /\ UNCHANGED <<clock, panicked, last, dead>>

(* 1000 / freq as i32 divides by zero when freq is a multiple of 2^32. *)
AddTimerPanics(begin, freq) ==
    /\ ~panicked
    /\ begin >= 0
    /\ ~Divides(freq)
    /\ panicked' = TRUE
    /\ NotUpdate
    /\ UNCHANGED <<clock, inc_id, orders, once_orders, last, dead>>

(* Mutated form of RemoveTimer: only the periodic timers are searched. *)
RemoveTimerPeriodic(id) ==
    /\ ~panicked
    /\ id \in Ids(orders) \cup Ids(once_orders)
    /\ orders' = Without(orders, id)
    /\ dead' = dead \cup {id}
    /\ NotUpdate
    /\ UNCHANGED <<clock, inc_id, once_orders, panicked, last>>

RemoveTimer(id) ==
    /\ ~panicked
    /\ id \in Ids(orders) \cup Ids(once_orders)
    /\ orders' = Without(orders, id)
    /\ once_orders' = Without(once_orders, id)
    /\ dead' = dead \cup {id}
    /\ NotUpdate
    /\ UNCHANGED <<clock, inc_id, panicked, last>>

(* Mutated form of Rescheduled: the next timeout is counted from the last. *)
RescheduledFromLast(n) ==
    [i \in DOMAIN orders |->
        IF i <= n THEN [orders[i] EXCEPT !.timeout = @ + orders[i].freq]
                  ELSE orders[i]]

(* The first n elements of both lists are the ones that are due, because    *)
(* the lists are sorted: the periodic ones get a new timeout counted from   *)
(* now, the others are removed from the front.                              *)
Rescheduled(n) ==
    [i \in DOMAIN orders |->
        IF i <= n THEN [orders[i] EXCEPT !.timeout = clock + orders[i].freq]
                  ELSE orders[i]]

Trigger(n, m) ==
    [i \in 1..(n + m) |-> IF i <= n THEN orders[i].id ELSE once_orders[i - n].id]

(* update(now).  With no periodic timer it returns before it looks at the   *)
(* one-shot timers.                                                         *)
Update ==
    LET n == DueCount(orders)
        m == DueCount(once_orders)
        t == IF orders = <<>> THEN <<>> ELSE Trigger(n, m)
        ids == {t[i] : i \in DOMAIN t}
    IN  /\ ~panicked
        /\ updated' = TRUE
        /\ fired' = t
        /\ IF orders = <<>>
           THEN UNCHANGED <<orders, once_orders>>
           ELSE /\ orders' = Sorted(Rescheduled(n))
                /\ once_orders' = Sorted(SubSeq(once_orders, m + 1, Len(once_orders)))
        /\ last' = [i \in DOMAIN last |-> IF i \in ids THEN clock ELSE last[i]]
        /\ dead' = dead \cup (ids \cap Ids(once_orders))
        /\ UNCHANGED <<clock, inc_id, panicked>>

Next ==
    \/ ClockMoves
    \/ \E b \in Begins, f \in Freqs : AddTimer(b, f) \/ AddTimerPanics(b, f)
    \/ \E i \in 1..MaxTimers : RemoveTimer(i)
    \/ Update

Spec == Init /\ [][Next]_vars

-----------------------------------------------------------------------------
(* Properties. *)

DueIds == {orders[i].id : i \in {j \in DOMAIN orders : orders[j].timeout <= clock}}
          \cup {once_orders[i].id :
                    i \in {j \in DOMAIN once_orders : once_orders[j].timeout <= clock}}

FiredIds == {fired[i] : i \in DOMAIN fired}

Ordered(s) == \A i, j \in DOMAIN s : i < j => s[i].timeout <= s[j].timeout

(* "kept in order" (timer_state.rs:14): both lists are sorted by timeout    *)
(* whatever the clock does, no timer is in two places, and the timers in    *)
(* them are the ones accepted and neither removed nor done.                 *)
ListsInOrder ==
    /\ Ordered(orders) /\ Ordered(once_orders)
    /\ Cardinality(Ids(orders)) = Len(orders)
    /\ Cardinality(Ids(once_orders)) = Len(once_orders)
    /\ Ids(orders) \cap Ids(once_orders) = {}
    /\ Ids(orders) \cup Ids(once_orders) = (1..inc_id) \ dead

(* When update fires anything it fires every timer that is due, none that   *)
(* is not, and none twice: taking the first n of each list is right.        *)
FiresExactlyDue ==
    [][fired' # <<>> => /\ FiredIds' = DueIds
                        /\ Cardinality(FiredIds') = Len(fired')]_vars

(* A timer that was removed, or was a one-shot and fired, never fires again. *)
DeadStayDead == [][FiredIds' \cap dead = {}]_vars

(* A periodic timer does not fire again before its period has passed on the *)
(* clock: ticks that came late, or a clock that jumped, cause no burst.     *)
PeriodKept ==
    [][\A i \in DOMAIN orders :
          LET t == orders[i] IN
          (t.id \in FiredIds' /\ last[t.id] # -1) => clock >= last[t.id] + t.freq]_vars

(* "a timer that is executed once" (timer_state.rs:15, 49) is executed by   *)
(* the first update after its time.  It fails while there is no periodic    *)
(* timer, because update returns early (timer_state.rs:85-88).              *)
UpdateFiresAllDue ==
    updated => /\ \A i \in DOMAIN orders : orders[i].timeout > clock
               /\ \A i \in DOMAIN once_orders : once_orders[i].timeout > clock

=============================================================================

------------------------------ MODULE LogBook ------------------------------
(***************************************************************************)
(* What the logger promises of one log: a book that is only ever written   *)
(* at its end, with the accepted messages in the order they were accepted, *)
(* each at most once.  It does not promise that all of them are written.   *)
(***************************************************************************)
EXTENDS Naturals, Sequences

CONSTANT Id   \* identities of messages

VARIABLES
    queue,  \* accepted and not yet taken up
    book    \* written

used == {queue[i] : i \in DOMAIN queue} \cup {book[i] : i \in DOMAIN book}

Init == queue = <<>> /\ book = <<>>

Accept == /\ \E m \in Id \ used : queue' = Append(queue, m)
          /\ UNCHANGED book

Write == /\ queue # <<>>
         /\ queue' = Tail(queue)
         /\ book' = Append(book, Head(queue))

(* A message is given up: nothing of it is written, now or later. *)
Lose == /\ queue # <<>>
        /\ queue' = Tail(queue)
        /\ UNCHANGED book

(* The process ends; what it had accepted is gone, what it wrote, at the    *)
(* very end perhaps, is not.                                                *)
Crash == /\ queue' = <<>>
         /\ \/ UNCHANGED book
            \/ queue # <<>> /\ book' = Append(book, Head(queue))

Next == Accept \/ Write \/ Lose \/ Crash

Spec == Init /\ [][Next]_<<queue, book>>

=============================================================================

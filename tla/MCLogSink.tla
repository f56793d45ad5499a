----------------------------- MODULE MCLogSink -----------------------------
(* Two tasks, two dates, files of two bytes, messages of one byte or two,  *)
(* two restarts.                                                           *)
EXTENDS LogSink
MCDays == {1, 2}
MCTexts == {[len |-> 1, shape |-> "dated"], [len |-> 2, shape |-> "dated"],
            [len |-> 1, shape |-> "undated"], [len |-> 1, shape |-> "cut"]}
=============================================================================

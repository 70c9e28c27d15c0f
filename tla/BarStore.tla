------------------------------ MODULE BarStore ------------------------------
(***************************************************************************)
(* What a reader of the parquet files (a dashboard) may rely on, without   *)
(* temporary files, crashes or restarts (F-DAT-020): the bars of a series  *)
(* appear in one step, are added to those already there, and turn          *)
(* unreadable only by damage from outside, which is counted.               *)
(* Module ParquetStore is shown to implement it.                           *)
(***************************************************************************)
EXTENDS Naturals

CONSTANTS Series, Slot   \* the files, and the timestamps a bar may have

VARIABLES
    content,   \* what a reader finds of each series
    damage     \* how often a file was damaged from outside

vars == <<content, damage>>

Absent == [kind |-> "none", bars |-> {}]
Corrupt == [kind |-> "bad", bars |-> {}]
Holding(bars) == [kind |-> "ok", bars |-> bars]

Contents == {Absent, Corrupt} \cup {Holding(bars) : bars \in SUBSET Slot}

Init == content \in [Series -> Contents] /\ damage = 0

\* What an absent or an unreadable file held does not survive an addition.
Add(s, bars) ==
    /\ content' = [content EXCEPT ![s] = Holding(@.bars \cup bars)]
    /\ UNCHANGED damage

Discard(s) ==
    /\ content[s] = Corrupt
    /\ content' = [content EXCEPT ![s] = Absent]
    /\ UNCHANGED damage

Spoil(s) ==
    /\ content' = [content EXCEPT ![s] = Corrupt]
    /\ damage' = damage + 1

Next ==
    \E s \in Series :
        \/ \E bars \in SUBSET Slot : Add(s, bars)
        \/ Discard(s)
        \/ Spoil(s)

Spec == Init /\ [][Next]_vars
=============================================================================

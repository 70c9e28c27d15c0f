------------------------------- MODULE MCIntake -------------------------------
(* A small instance of Intake for TLC: two watch files, and two tickers, of     *)
(* which the API is asked for one, with or without a time frame.                *)
EXTENDS Intake

CONSTANTS t1, t2

MCTimeframes == {"1D", "1h"}
OneTicker == {[ticker |-> t1, timeframes |-> tfs] : tfs \in {{}, {"1h"}}}
OneMapped == {[t \in Tickers |-> IF t = t1 THEN "absent" ELSE "mapped"]}
==============================================================================

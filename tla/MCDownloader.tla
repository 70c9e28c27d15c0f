----------------------------- MODULE MCDownloader -----------------------------
(***************************************************************************)
(* Small instances of Downloader for TLC.  A window of a few slots stands  *)
(* for years of bars: two chunks are enough for a preemption, a skipped    *)
(* chunk and a failed one to leave slots behind.                           *)
(***************************************************************************)
EXTENDS Downloader

CONSTANTS t1, t2

MCTimeframes == {"1D"}

Asks(t, p) == [ticker |-> t, timeframe |-> "1D", priority |-> p]

\* One ticker wanted by both sides, another one only by the watcher.
MixedRequests == {Asks(t1, API), Asks(t1, WATCHER), Asks(t2, WATCHER)}

\* The watcher wants one ticker, the API the other.
TwoTickers == {Asks(t1, WATCHER), Asks(t2, API)}

Lookback4 == [tf \in MCTimeframes |-> 4]
Chunks2   == [tf \in MCTimeframes |-> 1]

NothingStored == {{}}
================================================================================

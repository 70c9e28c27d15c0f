---------------------------- MODULE MCMarketClock ----------------------------
(* MarketClock for TLC: two weeks and a half with any holidays around the first  *)
(* two weekends, and the clock put forward, back or left alone on the first.     *)
EXTENDS MarketClock

MCCalendars == SUBSET {3, 4, 7, 11, 14}
MCShifts == {-2, 0, 2}
==============================================================================

--------------------------- MODULE MCHistoryRequest ---------------------------
(* HistoryRequest for TLC, in hours: every time frame, exchanges in New York, in *)
(* London and in Frankfurt, and pauses from an hour to a month and a half.       *)
EXTENDS HistoryRequest

MCTimeframes == DOMAIN CHUNK_DURATION
MCSkews == {-5, 0, 1}
MCGaps == (1..30) \cup {36, 71, 240, 1080}
==============================================================================

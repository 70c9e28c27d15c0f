------------------------------ MODULE TickerLists ------------------------------
(***************************************************************************)
(* What the node promises about its two lists of tickers, the blacklist    *)
(* (failed_ticker.json) and the ticker map (ticker_map.json), to the user  *)
(* who edits both (F-FNC-070, F-IMP-070), without files, queue or gateway: *)
(* nothing is asked for but what both lists let through; a ticker comes    *)
(* onto the blacklist only by a refusal of something asked for, or because *)
(* the map excludes it; it leaves the blacklist by bars or by the user;    *)
(* the map is only added to, and only for a ticker without an entry.       *)
(* Modules Downloader and Intake, which see the end of a download from     *)
(* inside and from outside, are both shown to implement it.                *)
(***************************************************************************)
CONSTANTS Tickers, Timeframes

VARIABLES
    asked,      \* the series asked for and not served yet, <<ticker, timeframe>>
    blacklist,  \* the tickers in failed_ticker.json
    tmap,       \* the entry of each ticker in ticker_map.json
    readable    \* ticker_map.json parses

vars == <<asked, blacklist, tmap, readable>>

Entries == {"absent", "mapped", "null"}

Init ==
    /\ asked = {} /\ blacklist = {} /\ readable = TRUE
    /\ tmap \in [Tickers -> Entries]

Passes(t) == t \notin blacklist /\ readable /\ tmap[t] # "null"

Registered(t) == [tmap EXCEPT ![t] = IF @ = "absent" /\ readable THEN "null" ELSE @]

\* A series may have been asked for several times.
Serves(s) == asked' \in {asked, asked \ {s}}

Ask(series) ==
    /\ \A s \in series : Passes(s[1])
    /\ asked' = asked \cup series
    /\ UNCHANGED <<blacklist, tmap, readable>>

\* The gateway does not know the ticker.
Refuse(s) ==
    /\ s \in asked
    /\ blacklist' = blacklist \cup {s[1]}
    /\ tmap' = Registered(s[1])
    /\ Serves(s) /\ UNCHANGED readable

\* Bars came.  A refusal of a later part of the same series shows in the map only.
Recover(s) ==
    /\ s \in asked
    /\ blacklist' = blacklist \ {s[1]}
    /\ tmap' \in {tmap, Registered(s[1])}
    /\ Serves(s) /\ UNCHANGED readable

\* No bars and no refusal, or a failure of the node's own.
End(s) ==
    /\ s \in asked
    /\ asked' = asked \ {s}
    /\ UNCHANGED <<blacklist, tmap, readable>>

\* A ticker that the map excludes is asked for.
Reject(t) ==
    /\ readable /\ tmap[t] = "null"
    /\ blacklist' = blacklist \cup {t}
    /\ UNCHANGED <<asked, tmap, readable>>

\* The node ends, and starts again.
Forget == asked' = {} /\ UNCHANGED <<blacklist, tmap, readable>>

UserMaps(t) ==
    /\ readable
    /\ tmap' = [tmap EXCEPT ![t] = "mapped"]
    /\ UNCHANGED <<asked, blacklist, readable>>

UserUnblacklists(t) ==
    /\ blacklist' = blacklist \ {t}
    /\ UNCHANGED <<asked, tmap, readable>>

UserBreaksOrRepairs ==
    /\ readable' = ~readable
    /\ UNCHANGED <<asked, blacklist, tmap>>

Next ==
    \/ \E series \in SUBSET (Tickers \X Timeframes) : Ask(series)
    \/ \E s \in Tickers \X Timeframes : Refuse(s) \/ Recover(s) \/ End(s)
    \/ \E t \in Tickers : Reject(t) \/ UserMaps(t) \/ UserUnblacklists(t)
    \/ Forget \/ UserBreaksOrRepairs

Spec == Init /\ [][Next]_vars
================================================================================

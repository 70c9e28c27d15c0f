------------------------------ MODULE WorkQueue ------------------------------
(***************************************************************************)
(* What the download queue and its single worker promise to whoever hands  *)
(* in a request, without gateway, chunks or files (F-FNC-010, F-FNC-020):  *)
(* one request at a time, the most urgent first, requests of one priority  *)
(* in the order in which they came, an interruption only for a strictly    *)
(* more urgent request, and a settled request never touched again.         *)
(* Module Downloader is shown to implement it.                             *)
(***************************************************************************)
EXTENDS Integers, Sequences

CONSTANT Priorities   \* numbers, of which the smaller is the more urgent

VARIABLES
    prio,    \* the priorities of the requests, in order of arrival
    phase    \* per request: "waiting", "active", "settled" or "lost"

vars == <<prio, phase>>

Phases == {"waiting", "active", "settled", "lost"}

Init == prio = <<>> /\ phase = <<>>

Idle == \A i \in DOMAIN phase : phase[i] # "active"

\* i goes ahead of j.
Before(i, j) == prio[i] < prio[j] \/ (prio[i] = prio[j] /\ i < j)

Best(i) ==
    /\ phase[i] = "waiting"
    /\ \A j \in DOMAIN phase : phase[j] = "waiting" => i = j \/ Before(i, j)

Accept(p) ==
    /\ prio' = Append(prio, p)
    /\ phase' = Append(phase, "waiting")

Begin(i) ==
    /\ Idle /\ Best(i)
    /\ phase' = [phase EXCEPT ![i] = "active"]
    /\ UNCHANGED prio

\* A request for which there is nothing to do is settled as it is taken.
SettleAtOnce(i) ==
    /\ Idle /\ Best(i)
    /\ phase' = [phase EXCEPT ![i] = "settled"]
    /\ UNCHANGED prio

GiveWay(i) ==
    /\ phase[i] = "active"
    /\ \E j \in DOMAIN phase : phase[j] = "waiting" /\ prio[j] < prio[i]
    /\ phase' = [phase EXCEPT ![i] = "waiting"]
    /\ UNCHANGED prio

Settle(i) ==
    /\ phase[i] = "active"
    /\ phase' = [phase EXCEPT ![i] = "settled"]
    /\ UNCHANGED prio

\* The worker may fail while it holds a request; the request is then gone.
Lose(i) ==
    /\ phase[i] = "active"
    /\ phase' = [phase EXCEPT ![i] = "lost"]
    /\ UNCHANGED prio

Next ==
    \/ \E p \in Priorities : Accept(p)
    \/ \E i \in DOMAIN phase :
         Begin(i) \/ SettleAtOnce(i) \/ GiveWay(i) \/ Settle(i) \/ Lose(i)

Spec == Init /\ [][Next]_vars

-----------------------------------------------------------------------------
TypeOK ==
    /\ prio \in Seq(Priorities)
    /\ phase \in Seq(Phases)
    /\ Len(prio) = Len(phase)

\* The worker holds one request at a time.
OneActive ==
    \A i, j \in DOMAIN phase : phase[i] = "active" /\ phase[j] = "active" => i = j

\* Nothing of a priority is begun before everything of that priority that
\* came earlier is finished with, interruptions notwithstanding.
InOrder ==
    \A i, j \in DOMAIN phase :
        (i < j /\ prio[i] = prio[j] /\ phase[j] # "waiting")
            => phase[i] \in {"settled", "lost"}
=============================================================================

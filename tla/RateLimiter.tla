------------------------------ MODULE RateLimiter ------------------------------
(***************************************************************************)
(* AdaptiveRateLimiter of src/src/rate_limiter.py: a semaphore, a pacing   *)
(* delay since the last request, and a backoff that doubles on a pacing    *)
(* error and falls back to the base delay on a success.                    *)
(*                                                                         *)
(* Time is relative: `since` is the time since _last_request_time and a    *)
(* sleeper's timer is what it still has to sleep.  Beyond MAX_BACKOFF more *)
(* elapsed time makes no difference, so `since` stops there.               *)
(***************************************************************************)
EXTENDS Integers

CONSTANTS
    Callers,        \* tasks that call acquire(); the node has one, the downloader
    DEFAULT_DELAY,  \* the delay before configure()
    MAX_BACKOFF,
    BatchConfigs    \* what configure() may be given: [pacing, concurrent]

ASSUME RateLimiterAssumption ==
    /\ MAX_BACKOFF \in Nat
    /\ DEFAULT_DELAY \in 0..MAX_BACKOFF
    /\ BatchConfigs \subseteq [pacing : 0..MAX_BACKOFF, concurrent : Nat \ {0}]

\* No two calls overlap: the semaphore has one slot (Delayed), or there is one
\* task that calls acquire() (the downloader, also when it is configured Live).
OneAtATime ==
    \/ \A batch \in BatchConfigs : batch.concurrent = 1
    \/ \A c, d \in Callers : c = d

VARIABLES
    base,        \* _base_delay
    delay,       \* _current_delay
    free,        \* free slots of _semaphore
    configured,  \* configure() was called; main does so once, before the loop starts
    since,       \* time since _last_request_time
    at,          \* per caller: "idle", "queued" for a slot, "sleeping", "granted"
    timer,       \* per caller: what is left of its asyncio.sleep
    asked        \* per caller: _current_delay when it worked out its wait

vars == <<base, delay, free, configured, since, at, timer, asked>>

Least(a, b) == IF a <= b THEN a ELSE b

Init ==
    /\ base = DEFAULT_DELAY /\ delay = DEFAULT_DELAY
    /\ free = 1 /\ configured = FALSE
    /\ since \in 0..MAX_BACKOFF
    /\ at = [c \in Callers |-> "idle"]
    /\ timer = [c \in Callers |-> 0]
    /\ asked = [c \in Callers |-> 0]

Configure(batch) ==
    /\ ~configured /\ \A c \in Callers : at[c] = "idle"
    /\ configured' = TRUE
    /\ base' = batch.pacing /\ delay' = batch.pacing /\ free' = batch.concurrent
    /\ UNCHANGED <<since, at, timer, asked>>

\* acquire(): ask for a slot of the semaphore.
Enter(c) ==
    /\ at[c] = "idle" /\ configured
    /\ at' = [at EXCEPT ![c] = "queued"]
    /\ UNCHANGED <<base, delay, free, configured, since, timer, asked>>

\* With the slot in hand: nothing left to wait, the request may go out.
PassAtOnce(c) ==
    /\ at[c] = "queued" /\ free > 0
    /\ delay - since <= 0
    /\ since' = 0
    /\ at' = [at EXCEPT ![c] = "granted"]
    /\ asked' = [asked EXCEPT ![c] = delay]
    /\ UNCHANGED <<base, delay, free, configured, timer>>

\* Sleeping without the slot of the semaphore.
SleepOutside(c) ==
    /\ at[c] = "queued" /\ free > 0
    /\ delay - since > 0
    /\ at' = [at EXCEPT ![c] = "sleeping"]
    /\ timer' = [timer EXCEPT ![c] = delay - since]
    /\ asked' = [asked EXCEPT ![c] = delay]
    /\ UNCHANGED <<base, delay, free, configured, since>>

\* With the slot in hand: sleep for what is left of the delay, keeping the slot.
Sleep(c) ==
    /\ at[c] = "queued" /\ free > 0
    /\ delay - since > 0
    /\ free' = free - 1
    /\ at' = [at EXCEPT ![c] = "sleeping"]
    /\ timer' = [timer EXCEPT ![c] = delay - since]
    /\ asked' = [asked EXCEPT ![c] = delay]
    /\ UNCHANGED <<base, delay, configured, since>>

\* The sleep is over, maybe later than asked for: the request may go out.
WakeUp(c) ==
    /\ at[c] = "sleeping" /\ timer[c] = 0
    /\ since' = 0
    /\ free' = free + 1
    /\ at' = [at EXCEPT ![c] = "granted"]
    /\ UNCHANGED <<base, delay, configured, timer, asked>>

\* The request is over and the caller reports nothing (an error that is no
\* pacing error, downloader.py 224-267).
Return(c) ==
    /\ at[c] = "granted"
    /\ at' = [at EXCEPT ![c] = "idle"]
    /\ UNCHANGED <<base, delay, free, configured, since, timer, asked>>

\* Doubling without the cap.
ReportPacingErrorUncapped(c) ==
    /\ at[c] = "granted"
    /\ delay' = 2 * delay
    /\ at' = [at EXCEPT ![c] = "idle"]
    /\ UNCHANGED <<base, free, configured, since, timer, asked>>

ReportPacingError(c) ==
    /\ at[c] = "granted"
    /\ delay' = Least(2 * delay, MAX_BACKOFF)
    /\ at' = [at EXCEPT ![c] = "idle"]
    /\ UNCHANGED <<base, free, configured, since, timer, asked>>

ReportSuccess(c) ==
    /\ at[c] = "granted"
    /\ delay' = base
    /\ at' = [at EXCEPT ![c] = "idle"]
    /\ UNCHANGED <<base, free, configured, since, timer, asked>>

Tick ==
    /\ since' = Least(since + 1, MAX_BACKOFF)
    /\ timer' = [c \in Callers |-> IF timer[c] = 0 THEN 0 ELSE timer[c] - 1]
    /\ UNCHANGED <<base, delay, free, configured, at, asked>>

Next ==
    \/ \E batch \in BatchConfigs : Configure(batch)
    \/ \E c \in Callers :
         \/ Enter(c) \/ PassAtOnce(c) \/ Sleep(c) \/ WakeUp(c)
         \/ Return(c) \/ ReportPacingError(c) \/ ReportSuccess(c)
    \/ Tick

Spec == Init /\ [][Next]_vars

-----------------------------------------------------------------------------
(* Properties *)

\* Types, and the delay stays between the base delay and the maximum.
TypeOK ==
    /\ base \in 0..MAX_BACKOFF /\ delay \in base..MAX_BACKOFF
    /\ free \in Nat /\ configured \in BOOLEAN /\ since \in 0..MAX_BACKOFF
    /\ at \in [Callers -> {"idle", "queued", "sleeping", "granted"}]
    /\ timer \in [Callers -> 0..MAX_BACKOFF]
    /\ asked \in [Callers -> 0..MAX_BACKOFF]

\* A caller is let through only when the delay it was told to keep, which is never
\* below the base delay, has passed since the request before (F-FNC-050).
PacingKept ==
    [][\A c \in Callers :
         (at[c] # "granted" /\ at'[c] = "granted")
            => asked'[c] >= base /\ since >= asked'[c]]_vars
=============================================================================

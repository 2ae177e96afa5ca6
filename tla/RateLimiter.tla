---------------------------- MODULE RateLimiter ----------------------------
(***************************************************************************)
(* providers/rate_limiter.py: how a command paces its calls of a provider. *)
(* What its limiter remembers -- the last call and the end of the cooldown *)
(* -- is in its memory: a command started later begins with nothing.       *)
(***************************************************************************)
EXTENDS Naturals

CONSTANTS MinInterval, Cooldown429, Cooldown529,
          MaxClock, \* bound: the time
          MaxLate   \* bound: how much longer than asked for a sleep may take

ASSUME LimiterAssumption ==
    {MinInterval, Cooldown429, Cooldown529, MaxClock, MaxLate} \subseteq Nat

VARIABLES clock,
          limiter, \* what the limiter remembers, and whether the command waits or calls
          called,  \* history: when the command has called
          limited  \* history: which limits it has met, and when

limiterVars == <<clock, limiter, called, limited>>

Never == 0       \* times begin with 1: the provider is not in the dictionary
Cooldown(code) == IF code = 429 THEN Cooldown429 ELSE Cooldown529

Fresh == [at |-> "idle", last |-> Never, until |-> Never, wake |-> Never]

LimiterInit == clock = 1 /\ limiter = Fresh /\ called = {} /\ limited = {}

\* Time passes, and no sleeper is later than MaxLate.
Tick == /\ clock < MaxClock
        /\ limiter.at = "asleep" => clock < limiter.wake + MaxLate
        /\ clock' = clock + 1
        /\ UNCHANGED <<limiter, called, limited>>

Later(t, u) == IF t >= u THEN t ELSE u
Rested == IF limiter.last = Never THEN clock ELSE limiter.last + MinInterval

\* wait_until: what is not in the dictionaries counts as now.
WaitUntil == Later(clock, Later(Rested, limiter.until))

\* Mutant: the last call is when the sleep was to end.
NowAsPlanned == IF limiter.at = "asleep" THEN limiter.wake ELSE clock
Now == clock

\* wait_before_dispatch(): the call, for which the limiter takes the time of its return;
\* at once, or after a sleep.
Call == /\ limiter' = [limiter EXCEPT !.at = "calls", !.last = Now]
        /\ called' = called \cup {clock}
        /\ UNCHANGED <<clock, limited>>

WaitBeforeDispatch ==
    /\ limiter.at = "idle"
    /\ IF WaitUntil > clock
       THEN /\ limiter' = [limiter EXCEPT !.at = "asleep", !.wake = WaitUntil]
            /\ UNCHANGED <<clock, called, limited>>
       ELSE Call

Wake == limiter.at = "asleep" /\ clock >= limiter.wake /\ Call

\* The provider has answered, or failed without a word of a limit.
Answer ==
    /\ limiter.at = "calls"
    /\ limiter' = [limiter EXCEPT !.at = "idle"]
    /\ UNCHANGED <<clock, called, limited>>

\* The cooldown; never one that ends before the one there is.
CooledUntil(code) == Later(limiter.until, clock + Cooldown(code))

RecordProviderError(code) ==
    /\ limiter.at = "calls"
    /\ limiter' = [limiter EXCEPT !.at = "idle", !.until = CooledUntil(code)]
    /\ limited' = limited \cup {<<clock, code>>}
    /\ UNCHANGED <<clock, called>>

LimiterNext == \/ Tick \/ WaitBeforeDispatch \/ Wake \/ Answer
               \/ \E code \in {429, 529} : RecordProviderError(code)

LimiterSpec == LimiterInit /\ [][LimiterNext]_limiterVars
-----------------------------------------------------------------------------
\* A command's calls are MinInterval apart, and none is made within a cooldown that it
\* has met, however late a sleep ends and however long a call takes
\* (rate_limiter.py:74-83, 104).
CallsArePaced ==
    \A t \in called :
        /\ \A u \in called : t < u => t + MinInterval <= u
        /\ \A l \in limited : l[1] < t => l[1] + Cooldown(l[2]) <= t

\* No wait is longer than the longest of the three settings: the interval and the
\* cooldowns, met one after the other, do not add up.
WaitsAreBounded ==
    limiter.at = "asleep" => limiter.wake <= clock + Later(MinInterval, Later(Cooldown429, Cooldown529))

\* Both bounds of a wait: never too short for the provider, never longer than it asks.
PacingHolds == CallsArePaced /\ WaitsAreBounded
=============================================================================

----------------------------- MODULE DevicePoll -----------------------------
(***************************************************************************)
(* The pace of PollDeviceAuth (auth.go): how long it waits between polls,  *)
(* in the int64 arithmetic of time.Duration, and when it gives up.  What a *)
(* poll does to storage is modelled in DeviceAuth.tla.                     *)
(***************************************************************************)
EXTENDS Integers

CONSTANTS
    Second,      \* time.Second
    MaxInt,      \* the largest int64
    Intervals,   \* values of DeviceAuth.Interval, in seconds
    Lifetimes,   \* times from the start of a flow to DeviceAuth.ExpiresAt
    Timeout,     \* deadline of the caller's context
    MaxTime,     \* bound on the clock
    MaxAsked     \* bound on the pause the server asks for by slow_down, in seconds

ASSUME DurationAssumption ==
    /\ Second \in Nat \ {0} /\ MaxInt \in Nat /\ Timeout \in Nat
    /\ Intervals \subseteq 1 .. MaxInt
    /\ Lifetimes \subseteq Nat \ {0}
\* A Duration holds any time the clock can show: 2^63 ns are 292 years.
ASSUME ClockAssumption == MaxAsked \in Nat /\ MaxTime \in Nat /\ MaxTime + 5 * Second <= MaxInt

VARIABLES
    now,         \* the clock
    poll         \* the PollDeviceAuth call

\* since and asked are history: when the server last answered, and the seconds
\* it has asked to wait since.
Poll == [pc : {"idle", "loop", "timer", "ask", "granted", "failed"},
         interval : -(MaxInt + 1) .. MaxInt, seconds : Intervals \cup {0},
         expiresAt : Nat, timer : Nat, since : 0 .. MaxTime, asked : Nat]

PollTypeOK == now \in 0 .. MaxTime /\ poll \in Poll

IdlePoll == [pc |-> "idle", interval |-> 0, seconds |-> 0, expiresAt |-> 0, timer |-> 0,
             since |-> 0, asked |-> 0]

PollInit == now = 0 /\ poll = IdlePoll

-----------------------------------------------------------------------------
\* Two's complement arithmetic.
Wrap(d) == ((d + MaxInt + 1) % (2 * (MaxInt + 1))) - (MaxInt + 1)

maximum(a, b) == IF a < b THEN b ELSE a
minimum(a, b) == IF a < b THEN a ELSE b

\* SlowedDown, forgotten.
SlowedDownNot(interval) == interval

\* A slow_down answer adds five seconds.
SlowedDown(interval) == Wrap(interval + 5 * Second)

\* CtxDone, for a context without a deadline.
CtxNeverDone == FALSE

CtxDone == now >= Timeout

Fail == poll' = [IdlePoll EXCEPT !.pc = "failed"]

StartPoll(i, lifetime) ==
    /\ poll.pc = "idle"
    /\ ~CtxDone
    /\ poll' = [poll EXCEPT !.pc = "loop", !.interval = Wrap(i * Second), !.seconds = i,
                            !.expiresAt = now + lifetime, !.since = now, !.asked = i]
    /\ UNCHANGED now

\* The head of the loop: expired, or a timer for the interval, which a
\* negative duration fires at once.
SetTimer ==
    LET remaining == poll.expiresAt - now
        wait == minimum(poll.interval, remaining)
    IN
    /\ poll.pc = "loop"
    /\ IF remaining <= 0
       THEN Fail
       ELSE poll' = [poll EXCEPT !.pc = "timer", !.timer = now + maximum(wait, 0)]
    /\ UNCHANGED now

TimerFires ==
    /\ poll.pc = "timer"
    /\ now >= poll.timer
    /\ IF now >= poll.expiresAt THEN Fail ELSE poll' = [poll EXCEPT !.pc = "ask", !.timer = 0]
    /\ UNCHANGED now

TimerCanceled ==
    /\ poll.pc = "timer"
    /\ CtxDone
    /\ Fail
    /\ UNCHANGED now

\* PollDeviceAuthOnce, under a context that ends at expiresAt.
Live == ~CtxDone /\ now < poll.expiresAt

PollGranted ==
    /\ poll.pc = "ask"
    /\ Live
    /\ poll' = [IdlePoll EXCEPT !.pc = "granted"]
    /\ UNCHANGED now

PollPending(slowDown) ==
    /\ poll.pc = "ask"
    /\ Live
    /\ slowDown => poll.asked + 5 <= MaxAsked
    /\ poll' = [poll EXCEPT !.pc = "loop", !.since = now,
                            !.interval = IF slowDown THEN SlowedDown(@) ELSE @,
                            !.asked = IF slowDown THEN @ + 5 ELSE @]
    /\ UNCHANGED now

\* Denied, expired, canceled, or not delivered.
PollFails ==
    /\ poll.pc = "ask"
    /\ Fail
    /\ UNCHANGED now

PollStep ==
    \/ SetTimer \/ TimerFires \/ TimerCanceled \/ PollGranted \/ PollFails
    \/ \E slowDown \in BOOLEAN : PollPending(slowDown)

Tick ==
    /\ now < MaxTime
    /\ now' = now + 1
    /\ UNCHANGED poll
=============================================================================

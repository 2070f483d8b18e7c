--------------------- MODULE TestmodeSpendRequestProofs ---------------------
(***************************************************************************)
(* The example program and the polling loop of PollDeviceAuth, for every   *)
(* interval, lifetime, timeout and width of time.Duration.                 *)
(***************************************************************************)
EXTENDS TestmodeSpendRequest, TLAPS

\* Two's complement arithmetic stays in range and is exact within it.
LEMMA WrapRange ==
    ASSUME NEW d \in Int
    PROVE  /\ Wrap(d) \in -(MaxInt + 1) .. MaxInt
           /\ d \in -(MaxInt + 1) .. MaxInt => Wrap(d) = d
<1> DEFINE m == MaxInt + 1
<1>0. m \in Nat /\ m > 0 /\ MaxInt = m - 1
  BY DurationAssumption
<1>a. d + MaxInt + 1 = d + m
  BY <1>0
<1> HIDE DEF m
<1>1. (d + m) % (2 * m) \in 0 .. (2 * m - 1)
  BY <1>0
<1>2. d + m \in 0 .. (2 * m - 1) => (d + m) % (2 * m) = d + m
  BY <1>0
<1>3. Wrap(d) = ((d + m) % (2 * m)) - m
  BY <1>a, Zenon DEF Wrap, m
<1> QED BY <1>0, <1>1, <1>2, <1>3

\* The steps of PollDeviceAuth keep its state in its type.
LEMMA PollStepType ==
    ASSUME PollTypeOK, PollStep
    PROVE  PollTypeOK'
<1>0. now' = now /\ now \in 0 .. MaxTime /\ poll \in Poll
  BY DEF PollTypeOK, PollStep, SetTimer, TimerFires, TimerCanceled, PollGranted, PollFails, PollPending
<1>a. now \in Nat /\ Second \in Nat /\ MaxInt \in Nat
  BY <1>0, DurationAssumption, ClockAssumption
<1>b. /\ poll.interval \in -(MaxInt + 1) .. MaxInt /\ poll.interval \in Int
      /\ poll.expiresAt \in Nat /\ poll.asked \in Nat
  BY <1>0, <1>a DEF Poll
<1>1. CASE Fail \/ poll' = [IdlePoll EXCEPT !.pc = "granted"]
  <2>1. IdlePoll \in Poll
    BY DurationAssumption, ClockAssumption DEF IdlePoll, Poll
  <2>2. poll' \in Poll
    BY <1>1, <2>1 DEF Fail, Poll
  <2> QED BY <1>0, <2>2 DEF PollTypeOK
<1>2. CASE /\ poll.expiresAt - now > 0
           /\ poll' = [poll EXCEPT !.pc = "timer",
                        !.timer = now + maximum(minimum(poll.interval, poll.expiresAt - now), 0)]
  <2>1. now + maximum(minimum(poll.interval, poll.expiresAt - now), 0) \in Nat
    BY <1>a, <1>b DEF maximum, minimum
  <2>2. poll' \in Poll
    BY <1>0, <1>2, <2>1 DEF Poll
  <2> QED BY <1>0, <2>2 DEF PollTypeOK
<1>3. CASE poll' = [poll EXCEPT !.pc = "ask", !.timer = 0]
  <2>1. poll' \in Poll
    BY <1>0, <1>3 DEF Poll
  <2> QED BY <1>0, <2>1 DEF PollTypeOK
<1>4. ASSUME NEW slowDown \in BOOLEAN, PollPending(slowDown) PROVE PollTypeOK'
  <2> DEFINE i == IF slowDown THEN SlowedDown(poll.interval) ELSE poll.interval
             a == IF slowDown THEN poll.asked + 5 ELSE poll.asked
  <2>1. i \in -(MaxInt + 1) .. MaxInt
    BY <1>a, <1>b, WrapRange DEF SlowedDown
  <2>2. a \in Nat
    BY <1>b
  <2>3. poll' = [poll EXCEPT !.pc = "loop", !.since = now, !.interval = i, !.asked = a]
    BY <1>4 DEF PollPending
  <2> HIDE DEF i, a
  <2>4. poll' \in Poll
    BY <1>0, <2>1, <2>2, <2>3 DEF Poll
  <2> QED BY <1>0, <2>4 DEF PollTypeOK
<1>5. CASE SetTimer
  <2>1. IF poll.expiresAt - now <= 0 THEN Fail
        ELSE poll' = [poll EXCEPT !.pc = "timer",
                        !.timer = now + maximum(minimum(poll.interval, poll.expiresAt - now), 0)]
    BY <1>5, Zenon DEF SetTimer
  <2>2. poll.expiresAt - now <= 0 \/ poll.expiresAt - now > 0
    BY <1>a, <1>b
  <2> QED BY <1>1, <1>2, <2>1, <2>2, Zenon
<1> QED
  BY <1>1, <1>3, <1>4, <1>5, Zenon DEF PollStep, TimerFires, TimerCanceled, PollGranted, PollFails

\* The multiplications of the model are of naturals.
LEMMA Product ==
    ASSUME NEW a \in Nat, NEW b \in Nat
    PROVE  a * b \in Nat
OBVIOUS

\* Every variable of the program keeps its type; the interval of the polling
\* loop remains an int64.
LEMMA TypeStep ==
    ASSUME TypeOK, [Next]_vars
    PROVE  TypeOK'
<1>a. now \in 0 .. MaxTime /\ poll \in Poll /\ ticker \in Nat
  BY Zenon DEF TypeOK, PollTypeOK
<1>b. MaxTime \in Nat /\ Period \in Nat /\ Period > 0
  BY ClockAssumption, ProgramAssumption
<1>0. /\ now \in 0 .. MaxTime /\ now \in Nat /\ ticker \in Nat /\ poll \in Poll
      /\ MaxTime \in Nat /\ Period \in Nat /\ Period > 0
  BY <1>a, <1>b
<1>1. CASE Start \/ InitiateFails \/ Authenticated \/ WaitTimesOut
           \/ \E ok \in BOOLEAN : ListPaymentMethods(ok)
  <2>1. UNCHANGED <<now, poll, spend, ticker>>
    BY <1>1 DEF Start, InitiateFails, Authenticated, WaitTimesOut, ListPaymentMethods
  <2>2. main' \in {"authenticate", "list", "create", "exit 1"}
    BY <1>1 DEF Start, InitiateFails, Authenticated, WaitTimesOut, ListPaymentMethods, fatalf
  <2> QED BY <2>1, <2>2 DEF TypeOK, PollTypeOK, SpendTypeOK
<1>2. CASE InitiateDeviceAuth
  <2>1. PICK i \in Intervals, lifetime \in Lifetimes : StartPoll(i, lifetime)
    BY <1>2 DEF InitiateDeviceAuth
  <2>2. i \in Nat /\ lifetime \in Nat /\ Second \in Nat
    BY DurationAssumption
  <2>3. Wrap(i * Second) \in -(MaxInt + 1) .. MaxInt
    BY <2>2, WrapRange, Product
  <2>4. now + lifetime \in Nat /\ now' = now
    BY <1>0, <2>1, <2>2 DEF StartPoll
  <2>5. poll' \in Poll
    BY <1>0, <2>1, <2>2, <2>3, <2>4 DEF StartPoll, Poll
  <2> QED BY <1>2, <2>4, <2>5 DEF InitiateDeviceAuth, TypeOK, PollTypeOK, SpendTypeOK
<1>3. CASE PollDeviceAuth
  BY <1>3, PollStepType DEF PollDeviceAuth, TypeOK, SpendTypeOK
<1>4. ASSUME NEW o \in Outcomes, CreateSpendRequest(o) \/ CancelSpendRequest(o) PROVE TypeOK'
  <2>1. SpendTypeOK'
    BY <1>4 DEF CreateSpendRequest, CancelSpendRequest, Create, Cancel, mutateSpendRequest,
                TypeOK, SpendTypeOK, SpendRequestStatus
  <2>2. UNCHANGED <<now, poll>> /\ main' \in {"retrieve", "exit 0", "exit 1"}
    BY <1>4 DEF CreateSpendRequest, CancelSpendRequest, fatalf
  <2>3. ticker' = now + Period \/ ticker' = ticker
    BY <1>4 DEF CreateSpendRequest, CancelSpendRequest
  <2>4. ticker' \in Nat
    BY <1>0, <2>3
  <2> QED BY <2>1, <2>2, <2>4 DEF TypeOK, PollTypeOK
<1>5. ASSUME NEW o \in Outcomes, NEW card \in BOOLEAN, RetrieveTestCard(o, card) PROVE TypeOK'
  BY <1>5 DEF RetrieveTestCard, fatalf, TypeOK, PollTypeOK, SpendTypeOK
<1>6. CASE Ticked
  <2> DEFINE n == (now - ticker) \div Period + 1
  <2>1. n \in Nat
    BY <1>0, <1>6 DEF Ticked
  <2>2. ticker' = ticker + n * Period
    BY <1>6 DEF Ticked
  <2> HIDE DEF n
  <2>3. n * Period \in Nat
    BY <1>0, <2>1, Product
  <2>4. ticker' \in Nat
    BY <1>0, <2>2, <2>3
  <2> QED BY <1>6, <2>4 DEF Ticked, TypeOK, PollTypeOK, SpendTypeOK
<1>7. CASE Tick /\ UNCHANGED <<spend, main, ticker>>
  <2>1. now' \in 0 .. MaxTime /\ poll' = poll
    BY <1>0, <1>7 DEF Tick
  <2> QED BY <1>7, <2>1 DEF TypeOK, PollTypeOK, SpendTypeOK
<1>8. CASE (Decides \/ Others) /\ UNCHANGED <<now, poll, main, ticker>>
  <2>1. spend' \in SpendRequestStatus
    BY <1>8 DEF Decides, Others, Update, Cancel, RequestApproval, mutateSpendRequest,
                TypeOK, SpendTypeOK, SpendRequestStatus
  <2> QED BY <1>8, <2>1 DEF TypeOK, PollTypeOK, SpendTypeOK
<1>9. CASE UNCHANGED vars
  BY <1>9 DEF vars, TypeOK, PollTypeOK, SpendTypeOK
<1> QED BY <1>1, <1>2, <1>3, <1>4, <1>5, <1>6, <1>7, <1>8, <1>9 DEF Next, Step

\* Every variable of the program keeps its type, the Duration of the polling
\* loop included.
THEOREM TypeCorrect == Spec => []TypeOK
<1>1. Init => TypeOK
  <2> SUFFICES ASSUME Init PROVE TypeOK
    OBVIOUS
  <2>1. poll \in Poll
    BY DurationAssumption, ClockAssumption DEF Init, PollInit, IdlePoll, Poll
  <2>2. now \in 0 .. MaxTime /\ ticker \in Nat
    BY ClockAssumption DEF Init, PollInit
  <2>3. main = "start" /\ SpendTypeOK
    BY Zenon DEF Init, SpendInit, SpendTypeOK
  <2> QED BY <2>1, <2>2, <2>3 DEF TypeOK, PollTypeOK
<1>2. TypeOK /\ [Next]_vars => TypeOK'
  BY TypeStep
<1> QED BY <1>1, <1>2, PTL DEF Spec

-----------------------------------------------------------------------------
(***************************************************************************)
(* Pace.  The interval is what the server has asked for, exactly: it could *)
(* only wrap by a slow_down, which answers a poll that has waited for the  *)
(* interval, so that the interval is at most what the clock shows.         *)
(***************************************************************************)
PaceInv ==
    poll.pc \in {"loop", "timer", "ask"} /\ poll.seconds * Second <= MaxInt =>
        /\ poll.interval = poll.asked * Second
        /\ poll.since <= now
        /\ poll.pc = "timer" => poll.timer >= poll.since + poll.interval
                                \/ poll.timer >= poll.expiresAt
        /\ poll.pc = "ask" => now >= poll.since + poll.interval

\* What the polling loop may do in a step of the program.
PollMoves ==
    \/ UNCHANGED <<now, poll>>
    \/ Tick
    \/ \E i \in Intervals, lifetime \in Lifetimes : StartPoll(i, lifetime)
    \/ PollStep

\* The rest of the program leaves the loop alone.
LEMMA PollMovesStep ==
    ASSUME [Next]_vars
    PROVE  PollMoves
<1>1. CASE Step
  BY <1>1 DEF Step, Start, InitiateDeviceAuth, InitiateFails, PollDeviceAuth, Authenticated,
              ListPaymentMethods, CreateSpendRequest, CancelSpendRequest, RetrieveTestCard, Ticked,
              WaitTimesOut, PollMoves
<1>2. CASE ~Step
  BY <1>2 DEF Next, vars, PollMoves
<1> QED BY <1>1, <1>2

\* A poll is sent only when the interval the server has asked for is over.
LEMMA PaceStep ==
    ASSUME PollTypeOK, PaceInv, PollMoves
    PROVE  /\ PaceInv'
           /\ poll.pc = "timer" /\ poll'.pc = "ask" /\ poll.seconds * Second <= MaxInt
                  => now - poll.since >= poll.asked * Second
<1>0. /\ now \in Nat /\ now \in 0 .. MaxTime /\ poll \in Poll /\ Second \in Nat /\ MaxInt \in Nat
      /\ MaxTime \in Nat /\ MaxTime + 5 * Second <= MaxInt
  <2>1. now \in 0 .. MaxTime /\ poll \in Poll
    BY DEF PollTypeOK
  <2> QED BY <2>1, DurationAssumption, ClockAssumption
<1>a. /\ poll.interval \in Int /\ poll.expiresAt \in Nat /\ poll.asked \in Nat
      /\ poll.timer \in Nat /\ poll.since \in Nat /\ poll.seconds \in Nat
  <2>1. /\ poll.interval \in -(MaxInt + 1) .. MaxInt /\ poll.expiresAt \in Nat
        /\ poll.asked \in Nat /\ poll.timer \in Nat /\ poll.since \in 0 .. MaxTime
        /\ poll.seconds \in Intervals \cup {0}
    BY <1>0 DEF Poll
  <2>2. Intervals \cup {0} \subseteq Nat
    BY DurationAssumption
  <2> QED BY <1>0, <2>1, <2>2
<1>b. poll.asked * Second \in Nat /\ (poll.asked + 5) * Second = poll.asked * Second + 5 * Second
  BY <1>0, <1>a, Product
<1>1. CASE UNCHANGED <<now, poll>>
  BY <1>1 DEF PaceInv
<1>2. CASE Tick
  <2>1. now' = now + 1 /\ poll' = poll
    BY <1>2 DEF Tick
  <2> QED BY <1>0, <1>a, <2>1 DEF PaceInv
<1>3. CASE Fail \/ poll' = [IdlePoll EXCEPT !.pc = "granted"]
  <2>1. poll'.pc \in {"failed", "granted"}
    BY <1>3 DEF Fail, IdlePoll
  <2> QED BY <2>1 DEF PaceInv
<1>4. ASSUME NEW i \in Intervals, NEW lifetime \in Lifetimes, StartPoll(i, lifetime)
      PROVE  /\ PaceInv'
             /\ poll.pc # "timer"
  <2>1. i \in Nat /\ i * Second \in Nat
    BY <1>0, DurationAssumption, Product
  <2>2. /\ poll.pc = "idle" /\ now' = now /\ poll'.pc = "loop" /\ poll'.interval = Wrap(i * Second)
        /\ poll'.seconds = i /\ poll'.since = now /\ poll'.asked = i
    BY <1>0, <1>4 DEF StartPoll, Poll
  <2>3. i * Second <= MaxInt => Wrap(i * Second) = i * Second
    BY <1>0, <2>1, WrapRange
  <2> QED BY <1>0, <2>2, <2>3 DEF PaceInv
<1>5. CASE SetTimer
  <2> DEFINE t == now + maximum(minimum(poll.interval, poll.expiresAt - now), 0)
  <2>1. now' = now /\ poll.pc = "loop"
    BY <1>5 DEF SetTimer
  <2>2. Fail \/ poll' = [poll EXCEPT !.pc = "timer", !.timer = t]
    BY <1>5, Zenon DEF SetTimer
  <2>3. CASE poll' = [poll EXCEPT !.pc = "timer", !.timer = t]
    <3>1. t >= now + poll.interval \/ t >= poll.expiresAt
      BY <1>0, <1>a DEF maximum, minimum
    <3>2. /\ poll'.pc = "timer" /\ poll'.timer = t /\ poll'.seconds = poll.seconds
          /\ poll'.interval = poll.interval /\ poll'.asked = poll.asked
          /\ poll'.since = poll.since /\ poll'.expiresAt = poll.expiresAt
      BY <1>0, <2>3 DEF Poll
    <3>3. t \in Int
      BY <1>0, <1>a DEF maximum, minimum
    <3> HIDE DEF t
    <3> QED BY <1>0, <1>a, <2>1, <3>1, <3>2, <3>3 DEF PaceInv
  <2> QED BY <1>3, <2>1, <2>2, <2>3
<1>6. CASE TimerFires
  <2>1. now' = now /\ poll.pc = "timer" /\ now >= poll.timer
    BY <1>6 DEF TimerFires
  <2>2. Fail \/ (now < poll.expiresAt /\ poll' = [poll EXCEPT !.pc = "ask", !.timer = 0])
    BY <1>0, <1>a, <1>6 DEF TimerFires
  <2>3. CASE now < poll.expiresAt /\ poll' = [poll EXCEPT !.pc = "ask", !.timer = 0]
    <3>1. /\ poll'.pc = "ask" /\ poll'.seconds = poll.seconds
          /\ poll'.interval = poll.interval /\ poll'.asked = poll.asked /\ poll'.since = poll.since
      BY <1>0, <2>3 DEF Poll
    <3>2. poll.seconds * Second <= MaxInt =>
              poll.interval = poll.asked * Second /\ now >= poll.since + poll.interval
      BY <1>0, <1>a, <2>1, <2>3 DEF PaceInv
    <3>3. PaceInv'
      BY <2>1, <3>1, <3>2 DEF PaceInv
    <3> QED BY <1>0, <1>a, <1>b, <3>2, <3>3
  <2>4. CASE Fail
    <3>1. poll'.pc = "failed"
      BY <2>4 DEF Fail, IdlePoll
    <3> QED BY <3>1 DEF PaceInv
  <2> QED BY <2>2, <2>3, <2>4
<1>7. ASSUME NEW slowDown \in BOOLEAN, PollPending(slowDown)
      PROVE  PaceInv' /\ poll.pc # "timer"
  <2>1. /\ poll.pc = "ask" /\ now' = now /\ poll'.pc = "loop" /\ poll'.since = now
        /\ poll'.seconds = poll.seconds
        /\ \/ poll'.interval = poll.interval /\ poll'.asked = poll.asked
           \/ poll'.interval = Wrap(poll.interval + 5 * Second) /\ poll'.asked = poll.asked + 5
    BY <1>0, <1>7 DEF PollPending, SlowedDown, Poll
  <2>2. poll.seconds * Second <= MaxInt =>
            /\ poll.interval = poll.asked * Second /\ poll.since + poll.interval <= now
    BY <2>1 DEF PaceInv
  <2>3. poll.seconds * Second <= MaxInt =>
            poll.interval + 5 * Second \in -(MaxInt + 1) .. MaxInt
    BY <1>0, <1>a, <1>b, <2>2
  <2>4. poll.seconds * Second <= MaxInt =>
            Wrap(poll.interval + 5 * Second) = poll.interval + 5 * Second
    BY <1>0, <1>a, <2>3, WrapRange
  <2> QED BY <1>0, <1>b, <2>1, <2>2, <2>4 DEF PaceInv
<1>8. CASE TimerCanceled \/ PollGranted \/ PollFails
  <2>1. poll'.pc \in {"failed", "granted"}
    BY <1>8 DEF TimerCanceled, PollGranted, PollFails, Fail, IdlePoll
  <2> QED BY <2>1 DEF PaceInv
<1> QED
  <2>1. poll' = poll => ~(poll.pc = "timer" /\ poll'.pc = "ask")
    OBVIOUS
  <2> QED BY <1>1, <1>2, <1>4, <1>5, <1>6, <1>7, <1>8, <2>1, Zenon DEF PollMoves, PollStep, Tick

\* PollDeviceAuth never polls sooner than the server has asked for, slow_down
\* answers included, for every interval that is a Duration at all.
THEOREM PollsSpacedHolds == Spec => PollsSpaced
<1>1. Init => PaceInv
  BY DEF Init, PollInit, IdlePoll, PaceInv
<1>2. TypeOK /\ PaceInv /\ [Next]_vars => PaceInv'
  BY PollMovesStep, PaceStep DEF TypeOK
<1>3. TypeOK /\ PaceInv /\ [Next]_vars =>
          [poll.pc = "timer" /\ poll'.pc = "ask" /\ poll.seconds * Second <= MaxInt
              => now - poll.since >= poll.asked * Second]_vars
  BY PollMovesStep, PaceStep DEF TypeOK
<1> QED BY <1>1, <1>2, <1>3, TypeCorrect, PTL DEF Spec, PollsSpaced
=============================================================================

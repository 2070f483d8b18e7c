------------------------ MODULE TestmodeSpendRequest ------------------------
(***************************************************************************)
(* The example program (examples/testmode-spend-request/main.go): log in   *)
(* if asked to, create a spend request, wait until it is approved, and     *)
(* cancel it in a deferred call, which fatalf (os.Exit) skips.             *)
(***************************************************************************)
EXTENDS DevicePoll, SpendRequests

CONSTANT Period     \* of the ticker in waitForTestCard

ASSUME ProgramAssumption == Period \in Nat \ {0} /\ Timeout < MaxTime

VARIABLES
    main,        \* where the program is
    ticker       \* the next tick of the ticker

vars == <<now, poll, spend, main, ticker>>

TypeOK ==
    /\ PollTypeOK
    /\ SpendTypeOK
    /\ main \in {"start", "authenticate", "list", "create", "retrieve", "select", "cleanup",
                 "exit 0", "exit 1"}
    /\ ticker \in Nat

Init ==
    /\ PollInit
    /\ SpendInit
    /\ main = "start"
    /\ ticker = 0

-----------------------------------------------------------------------------
fatalf == main' = "exit 1"

\* The flags, the storage and the Client; login is a flag.
Start ==
    /\ main = "start"
    /\ main' \in {"authenticate", "list", "exit 1"}
    /\ UNCHANGED <<now, poll, spend, ticker>>

InitiateDeviceAuth ==
    /\ main = "authenticate"
    /\ \E i \in Intervals, lifetime \in Lifetimes : StartPoll(i, lifetime)
    /\ UNCHANGED <<spend, main, ticker>>

InitiateFails ==
    /\ main = "authenticate"
    /\ poll.pc = "idle"
    /\ fatalf
    /\ UNCHANGED <<now, poll, spend, ticker>>

PollDeviceAuth ==
    /\ main = "authenticate"
    /\ PollStep
    /\ UNCHANGED <<spend, main, ticker>>

Authenticated ==
    /\ main = "authenticate"
    /\ poll.pc \in {"granted", "failed"}
    /\ IF poll.pc = "granted" THEN main' = "list" ELSE fatalf
    /\ UNCHANGED <<now, poll, spend, ticker>>

\* An error, or no payment method at all, is fatal.
ListPaymentMethods(ok) ==
    /\ main = "list"
    /\ ok => ~CtxDone
    /\ IF ok THEN main' = "create" ELSE fatalf
    /\ UNCHANGED <<now, poll, spend, ticker>>

\* The deferred clean-up is registered and the wait begins.
CreateSpendRequest(o) ==
    /\ main = "create"
    /\ o = "ok" => ~CtxDone
    /\ Create(o, TRUE, FALSE)
    /\ IF o = "ok" THEN main' = "retrieve" ELSE fatalf
    /\ ticker' = IF o = "ok" THEN now + Period ELSE ticker
    /\ UNCHANGED <<now, poll>>

\* One round of waitForTestCard, and what main does with its result; card: the
\* approved request carries complete credentials.
RetrieveTestCard(o, card) ==
    /\ main = "retrieve"
    /\ o = "ok" => ~CtxDone
    /\ Retrieve(o)
    /\ IF o # "ok" \/ spend \in {"denied", "expired", "failed", "canceled"}
       THEN fatalf
       ELSE IF spend = "approved"
            THEN IF card THEN main' = "cleanup" ELSE fatalf
            ELSE main' = "select"
    /\ UNCHANGED <<now, poll, spend, ticker>>

\* A ticker drops the ticks nobody received.
Ticked ==
    /\ main = "select"
    /\ now >= ticker
    /\ main' = "retrieve"
    /\ ticker' = ticker + ((now - ticker) \div Period + 1) * Period
    /\ UNCHANGED <<now, poll, spend>>

WaitTimesOut ==
    /\ main = "select"
    /\ CtxDone
    /\ fatalf
    /\ UNCHANGED <<now, poll, spend, ticker>>

\* The deferred function, under a context of its own; an error only prints a
\* warning.
CancelSpendRequest(o) ==
    /\ main = "cleanup"
    /\ Cancel(o)
    /\ main' = "exit 0"
    /\ UNCHANGED <<now, poll, ticker>>

Step ==
    \/ Start \/ InitiateDeviceAuth \/ InitiateFails \/ PollDeviceAuth \/ Authenticated
    \/ \E ok \in BOOLEAN : ListPaymentMethods(ok)
    \/ \E o \in Outcomes : CreateSpendRequest(o) \/ CancelSpendRequest(o)
    \/ \E o \in Outcomes, card \in BOOLEAN : RetrieveTestCard(o, card)
    \/ Ticked \/ WaitTimesOut

Next ==
    \/ Step
    \/ Tick /\ UNCHANGED <<spend, main, ticker>>
    \/ (Decides \/ Others) /\ UNCHANGED <<now, poll, main, ticker>>

\* Every exchange of the program runs under a context with a deadline, and
\* time passes.
Spec == Init /\ [][Next]_vars /\ WF_vars(Step) /\ WF_vars(Tick /\ UNCHANGED <<spend, main, ticker>>)

-----------------------------------------------------------------------------
\* PollDeviceAuth leaves the server the pause it has asked for, five seconds
\* more after each slow_down, provided that the interval it was given can be
\* represented as a Duration.
PollsSpaced ==
    [][poll.pc = "timer" /\ poll'.pc = "ask" /\ poll.seconds * Second <= MaxInt
          => now - poll.since >= poll.asked * Second]_vars

\* What the comment on the program says: it cancels the request on exit, so that
\* it leaves none behind that can still be approved or paid with.
CanceledOnExit == main \in {"exit 0", "exit 1"} => spend \notin Open

\* The program ends, whatever the user, the server and other programs do: the
\* loops are bounded by the expiry of the code and the context of main.
ProgramEnds == <>(main \in {"exit 0", "exit 1"})
=============================================================================

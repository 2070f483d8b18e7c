----------------------------- MODULE DeviceAuth -----------------------------
(***************************************************************************)
(* Device authorization and logout (auth.go, auth_tokens.go): several      *)
(* goroutines or processes run InitiateDeviceAuth, PollDeviceAuth,         *)
(* PollDeviceAuthOnce, ResumeDeviceAuth and Logout over one AuthStorage,   *)
(* against an auth server that answers when and as it likes.               *)
(***************************************************************************)
EXTENDS AuthStorage

CONSTANTS
    Flows,            \* goroutines that run auth operations
    Codes,            \* device codes the server can issue
    Tokens,           \* generations of credentials the server can issue
    LegacyFile,       \* may the credential file start without expires_at?
    MaxTurns          \* bound on reservations and wipes

ASSUME LegacyAssumption == LegacyFile \in BOOLEAN /\ (LegacyFile => Kind = "file")
ASSUME MaxTurnsAssumption == MaxTurns \in Nat

VARIABLES
    state,      \* the stored AuthStorageState
    op,         \* each goroutine's operation: pc and locals
    canceled,   \* goroutines whose context is canceled
    expired,    \* codes past their absolute expiry
    \* The server:
    issued,     \* codes and tokens it has issued
    closed,     \* codes it has answered for good (granted, denied, expired)
    revoked,    \* tokens it has revoked
    \* History:
    turns,         \* number of reservations and wipes so far
    overtaken,     \* initiations whose reservation somebody else has overtaken
    dropped,       \* codes that were pending and are no longer
    stranded       \* revoked tokens whose removal failed or died with a process

serverVars == <<issued, closed, revoked>>
vars == <<state, op, canceled, expired, serverVars, turns, overtaken, dropped, stranded>>

AuthTokens == [id : Tokens, dated : BOOLEAN]
ASSUME NoneAssumption == None \notin Flows \cup Codes \cup Tokens \cup AuthTokens

PCs == {"idle", "code", "persist", "initiated", "wait", "poll", "commit", "terminal",
        "expire", "revoke", "clear"}
Op == [pc : PCs, gen : Generations, prev : AuthTokens \cup {None}, code : Codes \cup {None},
       tok : Tokens \cup {None}, loop : BOOLEAN]
Idle == [pc |-> "idle", gen |-> 0, prev |-> None, code |-> None, tok |-> None,
         loop |-> FALSE]

TypeOK ==
    /\ state \in [auth : AuthTokens \cup {None}, pending : Codes \cup {None}, gen : Generations]
    /\ op \in [Flows -> Op]
    /\ canceled \in SUBSET Flows
    /\ expired \in SUBSET Codes
    /\ issued \in SUBSET (Codes \cup Tokens)
    /\ closed \in SUBSET Codes
    /\ revoked \in SUBSET Tokens
    /\ turns \in 0 .. MaxTurns
    /\ overtaken \in SUBSET Flows
    /\ dropped \in SUBSET Codes
    /\ stranded \in SUBSET Tokens

Init ==
    /\ \/ state = newStorageState /\ issued = {}
       \/ \E t \in Tokens, d \in BOOLEAN :
             /\ LegacyFile \/ d
             /\ state = [newStorageState EXCEPT !.auth = [id |-> t, dated |-> d]]
             /\ issued = {t}
    /\ op = [f \in Flows |-> Idle]
    /\ canceled = {}
    /\ expired = {}
    /\ closed = {}
    /\ revoked = {}
    /\ turns = 0
    /\ overtaken = {}
    /\ dropped = {}
    /\ stranded = {}

-----------------------------------------------------------------------------
sameAuthTokens(a, b) == a = b
Decoded(t) == [id |-> t, dated |-> TRUE]

\* Flows between their reservation and their commit.
Reserved == {f \in Flows : op[f].pc \in {"code", "persist"}}

\* Transact, with the callback working on the stored state instead of a copy:
\* an error of the callback or the context leaves its changes in place.
TransactInPlace(f, o, s) ==
    LET new == prepareStorageSnapshot(s) IN
    /\ o \in Outcomes
    /\ state' = new
    /\ overtaken' = IF new.gen # state.gen \/ new.auth # state.auth
                    THEN (overtaken \cup Reserved) \ {f} ELSE overtaken \ {f}
    /\ dropped' = IF new.pending # state.pending /\ state.pending # None
                  THEN dropped \cup {state.pending} ELSE dropped

\* Transact with a callback that turns state into s.  Whoever changes the
\* generation or the credentials overtakes the initiations under way.
Transact(f, o, s) ==
    LET new == IF o = "unchanged" THEN state ELSE prepareStorageSnapshot(s) IN
    /\ o \in Outcomes
    /\ state' = new
    /\ overtaken' = IF new.gen # state.gen \/ (IF new.auth = None THEN state.auth # None
                                               ELSE state.auth = None \/ new.auth.id # state.auth.id)
                    THEN (overtaken \cup Reserved) \ {f} ELSE overtaken \ {f}
    /\ dropped' = IF new.pending # state.pending /\ state.pending # None
                  THEN dropped \cup {state.pending} ELSE dropped

\* The operation returns.
Done(f) ==
    /\ op' = [op EXCEPT ![f] = Idle]
    /\ canceled' = canceled \ {f}

Goto(f, l) ==
    /\ op' = [op EXCEPT ![f].pc = l]
    /\ UNCHANGED canceled

\* The context a poll runs under: the caller's, bounded by the expiry.
Live(f) == f \notin canceled /\ ~(op[f].loop /\ op[f].code \in expired)

-----------------------------------------------------------------------------
(* InitiateDeviceAuth *)

Reserve(f, o) ==
    /\ op[f].pc = "idle"
    /\ f \notin canceled
    /\ turns < MaxTurns
    /\ turns' = turns + 1
    /\ Transact(f, o, [state EXCEPT !.gen = nextGeneration(@)])
    /\ IF o = "ok"
       THEN /\ op' = [op EXCEPT ![f] = [Idle EXCEPT !.pc = "code", !.gen = nextGeneration(state.gen),
                                                 !.prev = state.auth]]
            /\ UNCHANGED canceled
       ELSE Done(f)
    /\ UNCHANGED <<expired, serverVars, stranded>>

CodeIssued(f, d) ==
    /\ op[f].pc = "code"
    /\ f \notin canceled
    /\ d \in Codes \ issued
    /\ issued' = issued \cup {d}
    /\ op' = [op EXCEPT ![f].pc = "persist", ![f].code = d]
    /\ UNCHANGED <<state, canceled, expired, closed, revoked, turns, overtaken, dropped, stranded>>

CodeFails(f) ==
    /\ op[f].pc = "code"
    /\ Done(f)
    /\ overtaken' = overtaken \ {f}
    /\ UNCHANGED <<state, expired, serverVars, turns, dropped, stranded>>

\* ReservationCurrent, without the generation.
ReservationSameSession(f) == sameAuthTokens(state.auth, op[f].prev)

\* ReservationCurrent, refused while an older flow is pending.
ReservationExclusive(f) ==
    /\ state.pending = None
    /\ state.gen = op[f].gen
    /\ sameAuthTokens(state.auth, op[f].prev)

\* May this response still become the pending authorization?
ReservationCurrent(f) ==
    /\ state.gen = op[f].gen
    /\ sameAuthTokens(state.auth, op[f].prev)

Persist(f, o) ==
    /\ op[f].pc = "persist"
    /\ ReservationCurrent(f)
    /\ f \in canceled => o = "unchanged"
    /\ Transact(f, o, [state EXCEPT !.pending = op[f].code])
    /\ IF o = "ok" THEN Goto(f, "initiated") ELSE Done(f)
    /\ UNCHANGED <<expired, serverVars, turns, stranded>>

PersistSuperseded(f) ==
    /\ op[f].pc = "persist"
    /\ ~ReservationCurrent(f)
    /\ Done(f)
    /\ overtaken' = overtaken \ {f}
    /\ UNCHANGED <<state, expired, serverVars, turns, dropped, stranded>>

-----------------------------------------------------------------------------
(* PollDeviceAuth, PollDeviceAuthOnce, ResumeDeviceAuth *)

\* The caller of InitiateDeviceAuth polls: to the end, or once.
StartPoll(f, loop) ==
    /\ op[f].pc = "initiated"
    /\ f \notin canceled
    /\ op' = [op EXCEPT ![f] = [Idle EXCEPT !.pc = IF loop THEN "wait" ELSE "poll",
                                            !.code = op[f].code, !.loop = loop]]
    /\ UNCHANGED <<state, canceled, expired, serverVars, turns, overtaken, dropped, stranded>>

Resume(f, o) ==
    LET d == state.pending IN
    /\ op[f].pc = "idle"
    /\ f \notin canceled
    /\ Transact(f, o, IF d \in expired
                      THEN [state EXCEPT !.pending = None, !.gen = nextGeneration(@)] ELSE state)
    /\ IF o = "ok" /\ d # None /\ d \notin expired
       THEN /\ op' = [op EXCEPT ![f] = [Idle EXCEPT !.pc = "wait", !.code = d, !.loop = TRUE]]
            /\ UNCHANGED canceled
       ELSE Done(f)
    /\ UNCHANGED <<expired, serverVars, turns, stranded>>

\* One turn of the loop: the timer fires, then the expiry is looked at.
Wait(f) ==
    /\ op[f].pc = "wait"
    /\ IF f \in canceled THEN Done(f)
       ELSE Goto(f, IF op[f].code \in expired THEN "expire" ELSE "poll")
    /\ UNCHANGED <<state, expired, serverVars, turns, overtaken, dropped, stranded>>

\* authorization_pending, slow_down
PollPending(f) ==
    /\ op[f].pc = "poll"
    /\ Live(f)
    /\ op[f].code \notin closed
    /\ IF op[f].loop THEN Goto(f, "wait") ELSE Goto(f, "initiated")
    /\ UNCHANGED <<state, expired, serverVars, turns, overtaken, dropped, stranded>>

PollGranted(f, t) ==
    /\ op[f].pc = "poll"
    /\ Live(f)
    /\ op[f].code \notin closed
    /\ t \in Tokens \ issued
    /\ closed' = closed \cup {op[f].code}
    /\ issued' = issued \cup {t}
    /\ op' = [op EXCEPT ![f].pc = "commit", ![f].tok = t]
    /\ UNCHANGED <<state, canceled, expired, revoked, turns, overtaken, dropped, stranded>>

\* expired_token, access_denied
PollTerminal(f) ==
    /\ op[f].pc = "poll"
    /\ Live(f)
    /\ closed' = closed \cup {op[f].code}
    /\ Goto(f, "terminal")
    /\ UNCHANGED <<state, expired, issued, revoked, turns, overtaken, dropped, stranded>>

\* What PollDeviceAuth does with an error of PollDeviceAuthOnce.
AfterError(f) ==
    IF op[f].loop /\ f \notin canceled /\ op[f].code \in expired
    THEN Goto(f, "expire") ELSE Done(f)

\* Any other answer, or none; a grant may be lost on the way.
PollFails(f, lost) ==
    /\ op[f].pc = "poll"
    /\ closed' = IF lost THEN closed \cup {op[f].code} ELSE closed
    /\ AfterError(f)
    /\ UNCHANGED <<state, expired, issued, revoked, turns, overtaken, dropped, stranded>>

\* StillPending, content with any pending authorization.
AnyPending(f) == state.pending # None

\* Is this code still the pending authorization?
StillPending(f) == state.pending = op[f].code

CommitLogin(f, o) ==
    /\ op[f].pc = "commit"
    /\ StillPending(f)
    /\ Live(f) \/ o = "unchanged"
    /\ Transact(f, o, [auth |-> Decoded(op[f].tok), pending |-> None,
                       gen |-> nextGeneration(state.gen)])
    /\ IF o = "ok" THEN Done(f) ELSE AfterError(f)
    /\ UNCHANGED <<expired, serverVars, turns, stranded>>

CommitSuperseded(f) ==
    /\ op[f].pc = "commit"
    /\ ~StillPending(f)
    /\ AfterError(f)
    /\ UNCHANGED <<state, expired, serverVars, turns, overtaken, dropped, stranded>>

\* clearTerminalPending removes the flow's own pending authorization.
ClearTerminal(f) ==
    IF StillPending(f)
    THEN [state EXCEPT !.pending = None, !.gen = nextGeneration(@)] ELSE state

\* The server ended the flow.
Terminal(f, o) ==
    /\ op[f].pc = "terminal"
    /\ Live(f) \/ o = "unchanged"
    /\ Transact(f, o, ClearTerminal(f))
    /\ AfterError(f)
    /\ UNCHANGED <<expired, serverVars, turns, stranded>>

\* Expire, tried again until storage takes it.
ExpireRetried(f, o) ==
    /\ op[f].pc = "expire"
    /\ f \notin canceled \/ o = "unchanged"
    /\ Transact(f, o, ClearTerminal(f))
    /\ IF o = "ok" THEN Done(f) ELSE Goto(f, "wait")
    /\ UNCHANGED <<expired, serverVars, turns, stranded>>

\* The clock ended the flow.
Expire(f, o) ==
    /\ op[f].pc = "expire"
    /\ f \notin canceled \/ o = "unchanged"
    /\ Transact(f, o, ClearTerminal(f))
    /\ Done(f)
    /\ UNCHANGED <<expired, serverVars, turns, stranded>>

-----------------------------------------------------------------------------
(* Logout *)

LogoutLoad(f) ==
    /\ op[f].pc = "idle"
    /\ f \notin canceled
    /\ state.auth # None
    /\ op' = [op EXCEPT ![f] = [Idle EXCEPT !.pc = "revoke", !.tok = state.auth.id]]
    /\ UNCHANGED <<state, canceled, expired, serverVars, turns, overtaken, dropped, stranded>>

\* Revoked now, or invalid_token: revoked before.
RevokeSucceeds(f) ==
    /\ op[f].pc = "revoke"
    /\ f \notin canceled
    /\ revoked' = revoked \cup {op[f].tok}
    /\ Goto(f, "clear")
    /\ UNCHANGED <<state, expired, issued, closed, turns, overtaken, dropped, stranded>>

\* An error keeps the credentials, even if the server did revoke and only the
\* answer was lost.
RevokeFails(f, lost) ==
    /\ op[f].pc = "revoke"
    /\ revoked' = IF lost THEN revoked \cup {op[f].tok} ELSE revoked
    /\ stranded' = IF lost THEN stranded \cup {op[f].tok} ELSE stranded
    /\ Done(f)
    /\ UNCHANGED <<state, expired, issued, closed, turns, overtaken, dropped>>

\* Storage is wiped by f (None: a user of the storage, or another Client).
Wipe(f, o, s) ==
    LET new == IF o = "unchanged" THEN state ELSE s IN
    /\ o \in Outcomes
    /\ state' = new
    /\ overtaken' = IF o = "unchanged" THEN overtaken ELSE (overtaken \cup Reserved) \ {f}
    /\ dropped' = IF new.pending # state.pending THEN dropped \cup {state.pending} ELSE dropped

\* LogoutClear, under the caller's context.
LogoutClearCancelable(f, o) ==
    /\ op[f].pc = "clear"
    /\ f \in canceled => o = "unchanged"
    /\ Wipe(f, o, Cleared(state))
    /\ stranded' = IF o = "unchanged" /\ f \notin canceled
                   THEN stranded \cup {op[f].tok} ELSE stranded
    /\ Done(f)
    /\ UNCHANGED <<expired, serverVars, turns>>

\* The caller's cancellation no longer matters here.
LogoutClear(f, o) ==
    /\ op[f].pc = "clear"
    /\ Wipe(f, o, Cleared(state))
    /\ stranded' = IF o = "unchanged" THEN stranded \cup {op[f].tok} ELSE stranded
    /\ Done(f)
    /\ UNCHANGED <<expired, serverVars, turns>>

-----------------------------------------------------------------------------
(* The environment *)

\* The application clears or deletes the storage itself.
Clear(o) ==
    /\ turns < MaxTurns
    /\ turns' = turns + 1
    /\ Wipe(None, o, Cleared(state))
    /\ UNCHANGED <<op, canceled, expired, serverVars, stranded>>

Delete(o) ==
    /\ Kind = "file"
    /\ turns < MaxTurns
    /\ turns' = turns + 1
    /\ Wipe(None, o, Deleted(state))
    /\ UNCHANGED <<op, canceled, expired, serverVars, stranded>>

\* A tokenProvider commits a refreshed generation.
RefreshCommit(t) ==
    /\ state.auth # None
    /\ t \in Tokens \ issued
    /\ issued' = issued \cup {t}
    /\ Transact(None, "ok", [state EXCEPT !.auth = Decoded(t)])
    /\ UNCHANGED <<op, canceled, expired, closed, revoked, turns, stranded>>

Cancel(f) ==
    /\ op[f].pc \notin {"idle", "initiated"}
    /\ f \notin canceled
    /\ canceled' = canceled \cup {f}
    /\ UNCHANGED <<state, op, expired, serverVars, turns, overtaken, dropped, stranded>>

CodeExpires(d) ==
    /\ d \in (Codes \cap issued) \ expired
    /\ expired' = expired \cup {d}
    /\ UNCHANGED <<state, op, canceled, serverVars, turns, overtaken, dropped, stranded>>

\* The goroutine's process dies and is started again, or the application gives
\* the initiated flow up.
Restart(f) ==
    /\ op[f].pc # "idle"
    /\ Done(f)
    /\ overtaken' = overtaken \ {f}
    /\ stranded' = IF op[f].pc = "clear" THEN stranded \cup {op[f].tok} ELSE stranded
    /\ UNCHANGED <<state, expired, serverVars, turns, dropped>>

-----------------------------------------------------------------------------
InitiateStep(f) ==
    \/ \E d \in Codes : CodeIssued(f, d)
    \/ CodeFails(f)
    \/ \E o \in Outcomes : Persist(f, o)
    \/ PersistSuperseded(f)

PollStep(f) ==
    \/ Wait(f) \/ PollPending(f) \/ PollTerminal(f) \/ CommitSuperseded(f)
    \/ \E t \in Tokens : PollGranted(f, t)
    \/ \E lost \in BOOLEAN : PollFails(f, lost)
    \/ \E o \in Outcomes : CommitLogin(f, o) \/ Terminal(f, o) \/ Expire(f, o)

LogoutStep(f) ==
    \/ RevokeSucceeds(f)
    \/ \E lost \in BOOLEAN : RevokeFails(f, lost)
    \/ \E o \in Outcomes : LogoutClear(f, o)

Start(f) ==
    \/ \E o \in Outcomes : Reserve(f, o) \/ Resume(f, o)
    \/ \E loop \in BOOLEAN : StartPoll(f, loop)
    \/ LogoutLoad(f)

Environment ==
    \/ \E o \in Outcomes : Clear(o) \/ Delete(o)
    \/ \E t \in Tokens : RefreshCommit(t)
    \/ \E f \in Flows : Cancel(f) \/ Restart(f)
    \/ \E d \in Codes : CodeExpires(d)

Next ==
    \/ \E f \in Flows : Start(f) \/ InitiateStep(f) \/ PollStep(f) \/ LogoutStep(f)
    \/ Environment

Spec == Init /\ [][Next]_vars

\* The poll loop's timers fire and its requests end, at the latest at the
\* deadline its context carries; the clock reaches every expiry.
Fairness ==
    /\ \A f \in Flows : WF_vars(PollStep(f))
    /\ \A d \in Codes : WF_vars(CodeExpires(d))

FairSpec == Spec /\ Fairness

-----------------------------------------------------------------------------
(* Properties *)

\* An initiation becomes the pending authorization only if nobody has changed
\* the session or started another flow since it reserved its generation: a
\* late response to a superseded initiation is rejected.
PendingFromNewest ==
    [][\A f \in Flows :
          op[f].pc = "persist" /\ state'.pending = op[f].code /\ state.pending # op[f].code
              => f \notin overtaken]_vars

\* An initiation is told it was superseded only if somebody else did change the
\* session or start another flow.
SupersededByOthers ==
    \A f \in Flows : op[f].pc = "persist" /\ ~ReservationCurrent(f) => f \in overtaken

\* Approving a code that has been replaced, ended or cleared logs nobody in,
\* however late its tokens arrive.
NoStaleLogin ==
    [][\A f \in Flows :
          op[f].pc = "commit" /\ state'.auth # None /\ state'.auth.id = op[f].tok
              => op[f].code \notin dropped]_vars

\* A resumable flow leaves storage only when it has expired or the server has
\* ended it, when storage is wiped, or when an initiation replaces it whose own
\* reservation storage still shows, by a code that was never pending before:
\* cancellations, crashes and the outcomes of other flows preserve it.
PendingLostForCause ==
    [][state.pending # None /\ state'.pending # state.pending =>
          \/ state'.pending = None /\ state.pending \in expired \cup closed
          \/ state' \in {Cleared(state), Deleted(state)}
          \/ \E f \in Flows : /\ op[f].pc = "persist" /\ state'.pending = op[f].code
                              /\ ReservationCurrent(f) /\ op[f].code \notin dropped]_vars

\* What the comment on InitiateDeviceAuth says: an initiation that returns an
\* error, wherever it fails, preserves the previous resumable flow.
FailedInitiationKeepsPending ==
    [][\A f \in Flows :
          op[f].pc \in {"code", "persist"} /\ op'[f].pc = "idle" /\ state.pending # None
              => state'.pending = state.pending]_vars

\* A token that a Logout has seen revoked is on its way out of storage, unless the
\* answer, the write or the process was lost: cancelling the caller after the
\* revocation does not keep it.
RevokedOnItsWayOut ==
    state.auth # None /\ state.auth.id \in revoked =>
        \/ state.auth.id \in stranded
        \/ \E f \in Flows : op[f].pc = "clear" /\ op[f].tok = state.auth.id

\* What Logout promises: the session it clears is the one it revoked.
LogoutRevokesWhatItClears ==
    [][\A f \in Flows :
          op[f].pc = "clear" /\ state.auth # None /\ state'.auth = None
              => state.auth.id \in revoked]_vars

\* A blocking poll always ends, at the latest when its code expires.
PollEnds == \A f \in Flows : op[f].loop ~> ~op[f].loop
=============================================================================

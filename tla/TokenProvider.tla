--------------------------- MODULE TokenProvider ---------------------------
(***************************************************************************)
(* The storage-backed access-token source of a Client (tokens.go):         *)
(* single-flight, generation-aware refresh.  Several Clients, in one or in *)
(* several processes, share one AuthStorage; each has its own              *)
(* tokenProvider.  Storage operations are atomic here: what FileStorage    *)
(* does to provide that is modelled in FileStorage.tla.                    *)
(*                                                                         *)
(* An AuthTokens value is one generation of credentials (access and        *)
(* refresh token) together with whether expires_at is present: tokens      *)
(* decoded from a server response always carry it, a credential file may   *)
(* lack it, and every committed transaction fills it in (prepareAuth).     *)
(* Neither ever lacks a token (validateAuth, decodeAuthTokens), so the     *)
(* branches of token() and runRefresh for empty tokens are dead.           *)
(***************************************************************************)
EXTENDS Naturals, FiniteSets

CONSTANTS
    Providers,    \* the tokenProviders, one per Client
    Callers,      \* goroutines that ask for an access token
    ProviderOf,   \* the provider each caller uses
    Tokens,       \* generations of credentials the auth server can issue
    CallIds,      \* identities of refreshCall objects
    LegacyFile,   \* may the credential file start without expires_at?
    None          \* nil; as a result of token() or of a refresh, an error

ASSUME ProviderOfAssumption == ProviderOf \in [Callers -> Providers]
ASSUME LegacyAssumption == LegacyFile \in BOOLEAN
ASSUME NoneAssumption ==
    /\ None \notin Tokens \cup CallIds \cup Callers \cup Providers
    /\ None \notin [id : Tokens, dated : BOOLEAN]

VARIABLES
    stored,     \* Auth of the persisted AuthStorageState
    pc,         \* where each caller is in token()
    rejected,   \* AccessTokenRequest of each caller: RejectedToken, None when not forced
    result,     \* what token() last returned to each caller
    canceled,   \* callers whose context is canceled
    snapshot,   \* the local "stored" of each caller
    joined,     \* the refreshCall each caller waits for
    inflight,   \* tokenProvider.inflight
    decision,   \* holder of tokenProvider.decision
    calls,      \* the refreshCalls and the goroutines that run them
    \* The world outside, and history for the properties:
    issued,     \* generations the auth server has issued
    origin,     \* the login each issued generation descends from
    redeemed,   \* providers whose refresh of a generation the server accepted
    unsaved,    \* generations whose replacement was lost before it was stored
    retired,    \* generations storage no longer holds
    session     \* the login storage holds, None after logout

callerVars == <<pc, rejected, result, canceled, snapshot, joined>>
providerVars == <<inflight, decision>>
serverVars == <<issued, origin, redeemed>>
historyVars == <<unsaved, retired, session>>
vars == <<stored, callerVars, providerVars, calls, serverVars, historyVars>>

AuthTokens == [id : Tokens, dated : BOOLEAN]
Phases == {"unused", "remote", "reload", "commit", "finish", "done"}
Running == {"remote", "reload", "commit", "finish"}
RefreshCall ==
    [phase : Phases, owner : Providers \cup {None}, source : AuthTokens \cup {None},
     refreshed : Tokens \cup {None}, out : Tokens \cup {None}, waiters : Nat]
\* An object nobody refers to.
UnusedCall ==
    [phase |-> "unused", owner |-> None, source |-> None,
     refreshed |-> None, out |-> None, waiters |-> 0]

TypeOK ==
    /\ stored \in AuthTokens \cup {None}
    /\ pc \in [Callers -> {"idle", "gate", "check", "load", "decide", "wait"}]
    /\ rejected \in [Callers -> Tokens \cup {None}]
    /\ result \in [Callers -> Tokens \cup {None}]
    /\ canceled \in SUBSET Callers
    /\ snapshot \in [Callers -> AuthTokens \cup {None}]
    /\ joined \in [Callers -> CallIds \cup {None}]
    /\ inflight \in [Providers -> CallIds \cup {None}]
    /\ decision \in [Providers -> Callers \cup {None}]
    /\ calls \in [CallIds -> RefreshCall]
    /\ issued \in SUBSET Tokens
    /\ origin \in [Tokens -> Tokens \cup {None}]
    /\ redeemed \in [Tokens -> SUBSET Providers]
    /\ unsaved \in SUBSET Tokens
    /\ retired \in SUBSET Tokens
    /\ session \in Tokens \cup {None}

-----------------------------------------------------------------------------
sameAuthTokens(a, b) == a = b

prepareAuth(auth) == [auth EXCEPT !.dated = TRUE]

\* due: the clock has reached expires_at minus the skew.
tokenNeedsRefresh(auth, due) == auth.dated /\ due

\* The AuthTokens of a generation decoded from a server response.
Decoded(t) == [id |-> t, dated |-> TRUE]

\* The generation that stored' no longer holds, if it held one.
Retire == retired' = retired \cup (IF stored = None THEN {} ELSE {stored.id})

Init ==
    /\ \/ /\ stored = None
          /\ issued = {}
          /\ origin = [t \in Tokens |-> None]
          /\ session = None
       \/ \E t \in Tokens, d \in BOOLEAN :
             /\ LegacyFile \/ d
             /\ stored = [id |-> t, dated |-> d]
             /\ issued = {t}
             /\ origin = [x \in Tokens |-> IF x = t THEN t ELSE None]
             /\ session = t
    /\ pc = [c \in Callers |-> "idle"]
    /\ rejected = [c \in Callers |-> None]
    /\ result = [c \in Callers |-> None]
    /\ canceled = {}
    /\ snapshot = [c \in Callers |-> None]
    /\ joined = [c \in Callers |-> None]
    /\ inflight = [p \in Providers |-> None]
    /\ decision = [p \in Providers |-> None]
    /\ calls = [k \in CallIds |-> UnusedCall]
    /\ redeemed = [t \in Tokens |-> {}]
    /\ unsaved = {}
    /\ retired = {}

-----------------------------------------------------------------------------
(***************************************************************************)
(* token(): every exit drops the locals; an exit from inside the decision  *)
(* releases it.                                                            *)
(***************************************************************************)
Return(c, value) ==
    /\ pc' = [pc EXCEPT ![c] = "idle"]
    /\ result' = [result EXCEPT ![c] = value]
    /\ canceled' = canceled \ {c}
    /\ snapshot' = [snapshot EXCEPT ![c] = None]
    /\ joined' = [joined EXCEPT ![c] = None]
    /\ rejected' = [rejected EXCEPT ![c] = None]

Unlock(c) == decision' = [decision EXCEPT ![ProviderOf[c]] = None]

\* Become a waiter of the call in flight.
Join(c) ==
    LET k == inflight[ProviderOf[c]] IN
    /\ calls' = [calls EXCEPT ![k].waiters = @ + 1]
    /\ joined' = [joined EXCEPT ![c] = k]
    /\ pc' = [pc EXCEPT ![c] = "wait"]
    /\ snapshot' = [snapshot EXCEPT ![c] = None]
    /\ UNCHANGED inflight

\* A caller asks for a token: plainly, or after a 401 for the token it was
\* given last.  Shared work is joined before storage is touched.
Token(c, r) ==
    /\ pc[c] = "idle"
    /\ r = None \/ (r \in Tokens /\ r = result[c])
    /\ rejected' = [rejected EXCEPT ![c] = r]
    /\ result' = [result EXCEPT ![c] = None]
    /\ IF inflight[ProviderOf[c]] # None
       THEN Join(c)
       ELSE /\ pc' = [pc EXCEPT ![c] = "gate"]
            /\ UNCHANGED <<snapshot, joined, inflight, calls>>
    /\ UNCHANGED <<stored, canceled, decision, serverVars, historyVars>>

LockDecision(c) ==
    /\ pc[c] = "gate"
    /\ c \notin canceled
    /\ decision[ProviderOf[c]] = None
    /\ decision' = [decision EXCEPT ![ProviderOf[c]] = c]
    /\ pc' = [pc EXCEPT ![c] = "check"]
    /\ UNCHANGED <<stored, rejected, result, canceled, snapshot, joined, inflight, calls,
                   serverVars, historyVars>>

LockCanceled(c) ==
    /\ pc[c] = "gate"
    /\ c \in canceled
    /\ Return(c, None)
    /\ UNCHANGED <<stored, providerVars, calls, serverVars, historyVars>>

\* CheckInflight, with the second look at inflight left out.
CheckInflightBlind(c) ==
    /\ pc[c] = "check"
    /\ pc' = [pc EXCEPT ![c] = "load"]
    /\ UNCHANGED <<stored, rejected, result, canceled, snapshot, joined, providerVars, calls,
                   serverVars, historyVars>>

\* A call may have been published while this caller waited for the decision.
CheckInflight(c) ==
    /\ pc[c] = "check"
    /\ IF inflight[ProviderOf[c]] # None
       THEN Join(c) /\ Unlock(c)
       ELSE /\ pc' = [pc EXCEPT ![c] = "load"]
            /\ UNCHANGED <<snapshot, joined, providerVars, calls>>
    /\ UNCHANGED <<stored, rejected, result, canceled, serverVars, historyVars>>

Load(c) ==
    /\ pc[c] = "load"
    /\ c \notin canceled
    /\ snapshot' = [snapshot EXCEPT ![c] = stored]
    /\ pc' = [pc EXCEPT ![c] = "decide"]
    /\ UNCHANGED <<stored, rejected, result, canceled, joined, providerVars, calls,
                   serverVars, historyVars>>

\* LoadFails, with the decision still held.
LoadFailsHeld(c) ==
    /\ pc[c] = "load"
    /\ Return(c, None)
    /\ UNCHANGED <<stored, providerVars, calls, serverVars, historyVars>>

LoadFails(c) ==
    /\ pc[c] = "load"
    /\ Return(c, None)
    /\ Unlock(c)
    /\ UNCHANGED <<stored, inflight, calls, serverVars, historyVars>>

\* AnswerFromStorage, with a forced request always refreshing.
AnswerForcedNever(c, due) == rejected[c] = None /\ ~tokenNeedsRefresh(snapshot[c], due)

\* A forced request for a generation that is no longer the stored one, or a
\* plain request for one that is fresh enough, is answered from storage.
AnswerFromStorage(c, due) ==
    IF rejected[c] # None
    THEN rejected[c] # snapshot[c].id
    ELSE ~tokenNeedsRefresh(snapshot[c], due)

Publish(c, k) ==
    /\ calls' = [calls EXCEPT ![k] =
                    [phase |-> "remote", owner |-> ProviderOf[c], source |-> snapshot[c],
                     refreshed |-> None, out |-> None, waiters |-> 1]]
    /\ inflight' = [inflight EXCEPT ![ProviderOf[c]] = k]
    /\ joined' = [joined EXCEPT ![c] = k]
    /\ pc' = [pc EXCEPT ![c] = "wait"]
    /\ snapshot' = [snapshot EXCEPT ![c] = None]

\* The decision proper, in one critical section of mu.
DecideFromStorage(c, due) ==
    /\ pc[c] = "decide"
    /\ inflight[ProviderOf[c]] = None
    /\ \/ snapshot[c] = None /\ Return(c, None)
       \/ snapshot[c] # None /\ AnswerFromStorage(c, due) /\ Return(c, snapshot[c].id)
    /\ Unlock(c)
    /\ UNCHANGED <<stored, inflight, calls, serverVars, historyVars>>

DecideRefresh(c, due) ==
    /\ pc[c] = "decide"
    /\ IF inflight[ProviderOf[c]] # None
       THEN Join(c)
       ELSE /\ snapshot[c] # None
            /\ ~AnswerFromStorage(c, due)
            /\ \E k \in CallIds : calls[k].phase = "unused" /\ Publish(c, k)
    /\ Unlock(c)
    /\ UNCHANGED <<stored, rejected, result, canceled, serverVars, historyVars>>

-----------------------------------------------------------------------------
(***************************************************************************)
(* waitForRefresh(): completion wins over a simultaneous cancellation.     *)
(***************************************************************************)
WaitDone(c) ==
    /\ pc[c] = "wait"
    /\ calls[joined[c]].phase = "done"
    /\ Return(c, calls[joined[c]].out)
    /\ calls' = IF \E d \in Callers \ {c} : joined[d] = joined[c]
                THEN calls
                ELSE [calls EXCEPT ![joined[c]] = UnusedCall]
    /\ UNCHANGED <<stored, providerVars, serverVars, historyVars>>

\* WaitCanceled, with the last waiter withdrawing the call it leaves running.
WaitCanceledWithdraws(c) ==
    /\ pc[c] = "wait"
    /\ c \in canceled
    /\ calls[joined[c]].phase # "done"
    /\ calls' = [calls EXCEPT ![joined[c]].waiters = IF @ > 0 THEN @ - 1 ELSE @]
    /\ inflight' = IF calls[joined[c]].waiters = 1
                   THEN [inflight EXCEPT ![ProviderOf[c]] = None] ELSE inflight
    /\ Return(c, None)
    /\ UNCHANGED <<stored, decision, serverVars, historyVars>>

WaitCanceled(c) ==
    /\ pc[c] = "wait"
    /\ c \in canceled
    /\ calls[joined[c]].phase # "done"
    /\ calls' = [calls EXCEPT ![joined[c]].waiters = IF @ > 0 THEN @ - 1 ELSE @]
    /\ Return(c, None)
    /\ UNCHANGED <<stored, providerVars, serverVars, historyVars>>

-----------------------------------------------------------------------------
(***************************************************************************)
(* runRefresh(): RefreshToken, then either a look at storage (failure) or  *)
(* the compare-and-replace transaction (success), then finishRefresh.      *)
(***************************************************************************)
Redeem(k) ==
    redeemed' = [redeemed EXCEPT ![calls[k].source.id] = @ \cup {calls[k].owner}]

RefreshSucceeds(k, t) ==
    /\ calls[k].phase = "remote"
    /\ t \in Tokens \ issued
    /\ issued' = issued \cup {t}
    /\ origin' = [origin EXCEPT ![t] = origin[calls[k].source.id]]
    /\ Redeem(k)
    /\ calls' = [calls EXCEPT ![k].phase = "commit", ![k].refreshed = t]
    /\ UNCHANGED <<stored, callerVars, providerVars, historyVars>>

\* The server refuses, or cannot be reached.
RefreshFails(k) ==
    /\ calls[k].phase = "remote"
    /\ calls' = [calls EXCEPT ![k].phase = "reload"]
    /\ UNCHANGED <<stored, callerVars, providerVars, serverVars, historyVars>>

\* The server rotates but the response is lost, late or not decodable.
RefreshResponseLost(k) ==
    /\ calls[k].phase = "remote"
    /\ Redeem(k)
    /\ unsaved' = unsaved \cup {calls[k].source.id}
    /\ calls' = [calls EXCEPT ![k].phase = "reload"]
    /\ UNCHANGED <<stored, callerVars, providerVars, issued, origin, retired, session>>

\* After a failure, prefer a generation somebody else has stored meanwhile.
Reload(k, ok) ==
    /\ calls[k].phase = "reload"
    /\ calls' = [calls EXCEPT
                    ![k].phase = "finish",
                    ![k].out = IF ok /\ stored # None /\ ~sameAuthTokens(stored, calls[k].source)
                               THEN stored.id ELSE None]
    /\ UNCHANGED <<stored, callerVars, providerVars, serverVars, historyVars>>

Outcome(k, value) == calls' = [calls EXCEPT ![k].phase = "finish", ![k].out = value]

\* CommitRefreshed, with the refreshed tokens used but not written.
CommitUnwritten(k, ok) ==
    /\ calls[k].phase = "commit"
    /\ stored # None
    /\ sameAuthTokens(stored, calls[k].source)
    /\ Outcome(k, IF ok THEN calls[k].refreshed ELSE None)
    /\ UNCHANGED <<stored, callerVars, providerVars, serverVars, historyVars>>

\* CommitRefreshed, with no comparison against the source generation.
CommitBlind(k, ok) ==
    /\ calls[k].phase = "commit"
    /\ stored # None
    /\ stored' = prepareAuth(Decoded(calls[k].refreshed))
    /\ Retire
    /\ Outcome(k, IF ok THEN calls[k].refreshed ELSE None)
    /\ UNCHANGED <<callerVars, providerVars, serverVars, unsaved, session>>

\* The transaction replaces the source generation.  ok is false when Transact
\* reports an error although the replacement is in place (directory sync).
CommitRefreshed(k, ok) ==
    /\ calls[k].phase = "commit"
    /\ stored # None
    /\ sameAuthTokens(stored, calls[k].source)
    /\ stored' = prepareAuth(Decoded(calls[k].refreshed))
    /\ Retire
    /\ Outcome(k, IF ok THEN calls[k].refreshed ELSE None)
    /\ UNCHANGED <<callerVars, providerVars, serverVars, unsaved, session>>

\* Another generation is stored: it is kept and becomes the result.
CommitSuperseded(k, ok) ==
    /\ calls[k].phase = "commit"
    /\ stored # None
    /\ ~sameAuthTokens(stored, calls[k].source)
    /\ stored' = prepareAuth(stored)
    /\ Outcome(k, IF ok THEN stored.id ELSE None)
    /\ UNCHANGED <<callerVars, providerVars, serverVars, historyVars>>

\* The session was cleared: the callback returns ErrNotAuthenticated.
CommitLoggedOut(k) ==
    /\ calls[k].phase = "commit"
    /\ stored = None
    /\ Outcome(k, None)
    /\ UNCHANGED <<stored, callerVars, providerVars, serverVars, historyVars>>

\* CommitFails, with the tokens handed out although they were not stored.
CommitFailsServed(k) ==
    /\ calls[k].phase = "commit"
    /\ Outcome(k, calls[k].refreshed)
    /\ unsaved' = unsaved \cup {calls[k].source.id}
    /\ UNCHANGED <<stored, callerVars, providerVars, serverVars, retired, session>>

\* Transact fails before the replacement: storage is unchanged.
CommitFails(k) ==
    /\ calls[k].phase = "commit"
    /\ Outcome(k, None)
    /\ unsaved' = unsaved \cup {calls[k].source.id}
    /\ UNCHANGED <<stored, callerVars, providerVars, serverVars, retired, session>>

\* FinishRefresh, with inflight not reset.
FinishRefreshKept(k) ==
    /\ calls[k].phase = "finish"
    /\ calls' = [calls EXCEPT ![k] = [UnusedCall EXCEPT !.phase = "done", !.owner = calls[k].owner,
                                                        !.out = calls[k].out]]
    /\ UNCHANGED <<stored, callerVars, providerVars, serverVars, historyVars>>

FinishRefresh(k) ==
    /\ calls[k].phase = "finish"
    /\ calls' = [calls EXCEPT ![k] =
                    IF \E c \in Callers : joined[c] = k
                    THEN [UnusedCall EXCEPT !.phase = "done", !.owner = calls[k].owner,
                                            !.out = calls[k].out]
                    ELSE UnusedCall]
    /\ inflight' = [p \in Providers |-> IF p = calls[k].owner /\ inflight[p] = k
                                        THEN None ELSE inflight[p]]
    /\ UNCHANGED <<stored, callerVars, decision, serverVars, historyVars>>

-----------------------------------------------------------------------------
(***************************************************************************)
(* The environment: contexts, other users of the storage, crashes.         *)
(***************************************************************************)
Cancel(c) ==
    /\ pc[c] # "idle"
    /\ c \notin canceled
    /\ canceled' = canceled \cup {c}
    /\ UNCHANGED <<stored, pc, rejected, result, snapshot, joined, providerVars, calls,
                   serverVars, historyVars>>

\* A device authorization completes (PollDeviceAuthOnce).
Login(t) ==
    /\ t \in Tokens \ issued
    /\ issued' = issued \cup {t}
    /\ origin' = [origin EXCEPT ![t] = t]
    /\ stored' = prepareAuth(Decoded(t))
    /\ session' = t
    /\ Retire
    /\ UNCHANGED <<callerVars, providerVars, calls, redeemed, unsaved>>

\* Logout clears the stored session.
Logout ==
    /\ stored # None
    /\ stored' = None
    /\ session' = None
    /\ Retire
    /\ UNCHANGED <<callerVars, providerVars, calls, serverVars, unsaved>>

\* Any other transaction (a device flow that reserves its generation, say)
\* rewrites the complete state and so fills in a missing expires_at.
OtherTransact ==
    /\ stored # None
    /\ stored # prepareAuth(stored)
    /\ stored' = prepareAuth(stored)
    /\ UNCHANGED <<callerVars, providerVars, calls, serverVars, historyVars>>

\* The process of a Client dies and comes back: only storage survives.
Crash(p) ==
    LET mine == {c \in Callers : ProviderOf[c] = p} IN
    /\ inflight[p] # None \/ decision[p] # None
    /\ pc' = [c \in Callers |-> IF c \in mine THEN "idle" ELSE pc[c]]
    /\ rejected' = [c \in Callers |-> IF c \in mine THEN None ELSE rejected[c]]
    /\ result' = [c \in Callers |-> IF c \in mine THEN None ELSE result[c]]
    /\ canceled' = canceled \ mine
    /\ snapshot' = [c \in Callers |-> IF c \in mine THEN None ELSE snapshot[c]]
    /\ joined' = [c \in Callers |-> IF c \in mine THEN None ELSE joined[c]]
    /\ inflight' = [inflight EXCEPT ![p] = None]
    /\ decision' = [decision EXCEPT ![p] = None]
    /\ calls' = [k \in CallIds |->
                    IF calls[k].owner = p THEN UnusedCall ELSE calls[k]]
    /\ unsaved' = unsaved \cup {t \in Tokens : \E k \in CallIds :
                    calls[k].owner = p /\ calls[k].phase = "commit" /\ calls[k].source.id = t}
    /\ UNCHANGED <<stored, serverVars, retired, session>>

-----------------------------------------------------------------------------
CallerStep(c) ==
    \/ LockDecision(c) \/ LockCanceled(c) \/ CheckInflight(c) \/ Load(c) \/ LoadFails(c)
    \/ (\E due \in BOOLEAN : DecideFromStorage(c, due) \/ DecideRefresh(c, due))
    \/ WaitDone(c) \/ WaitCanceled(c)

RefreshStep(k) ==
    \/ \E t \in Tokens : RefreshSucceeds(k, t)
    \/ RefreshFails(k) \/ RefreshResponseLost(k)
    \/ \E ok \in BOOLEAN : Reload(k, ok) \/ CommitRefreshed(k, ok) \/ CommitSuperseded(k, ok)
    \/ CommitLoggedOut(k) \/ CommitFails(k) \/ FinishRefresh(k)

Environment ==
    \/ \E c \in Callers : Cancel(c)
    \/ \E t \in Tokens : Login(t)
    \/ Logout \/ OtherTransact
    \/ \E p \in Providers : Crash(p)

Next ==
    \/ \E c \in Callers, r \in Tokens \cup {None} : Token(c, r)
    \/ \E c \in Callers : CallerStep(c)
    \/ \E k \in CallIds : RefreshStep(k)
    \/ Environment

Spec == Init /\ [][Next]_vars

\* Goroutines are scheduled; the gate is a channel, whose receivers queue in
\* order; a refresh runs under a context with a deadline.
Fairness ==
    /\ \A c \in Callers : WF_vars(CallerStep(c)) /\ SF_vars(LockDecision(c))
    /\ \A k \in CallIds : WF_vars(RefreshStep(k))

FairSpec == Spec /\ Fairness

-----------------------------------------------------------------------------
(* Safety. *)

\* Within one tokenProvider at most one refresh runs at a time, and it is the
\* published one, so that every later caller finds and joins it.
SingleFlight ==
    \A k \in CallIds :
        calls[k].phase \in Running => inflight[calls[k].owner] = k

\* A caller between its check of inflight and its decision holds the decision
\* gate, and no refresh can appear meanwhile: what it read from storage is not
\* about to be replaced by its own provider (the third look at inflight in
\* token() never finds a call).
DecisionExclusive ==
    \A c \in Callers :
        /\ pc[c] \in {"check", "load", "decide"} <=> decision[ProviderOf[c]] = c
        /\ pc[c] \in {"load", "decide"} => inflight[ProviderOf[c]] = None

\* An access token is handed out only if its generation has been in storage:
\* no request uses a token whose persistence failed.
ReturnedWasStored ==
    \A c \in Callers :
        result[c] \in Tokens =>
            result[c] \in retired \/ (stored # None /\ result[c] = stored.id)

\* A refresh that was in flight across a logout or a new login brings no
\* generation of the old session back into storage.
SessionNotResurrected ==
    IF stored = None THEN session = None ELSE origin[stored.id] = session

\* Once the server has accepted a refresh of a generation, that generation has
\* left storage, or its replacement is about to be committed, or the
\* replacement was lost with a response, a write or a process.
RotationAccounted ==
    \A t \in Tokens : redeemed[t] # {} =>
        \/ t \in retired \cup unsaved
        \/ \E k \in CallIds : calls[k].phase = "commit" /\ calls[k].source.id = t

\* A provider does not present a single-use refresh token again after the server
\* accepted it from this same provider, unless the replacement was lost: a
\* delayed 401 cannot rotate twice.
NoSecondRotation ==
    \A k \in CallIds :
        calls[k].phase = "remote" /\ calls[k].owner \in redeemed[calls[k].source.id]
            => calls[k].source.id \in unsaved

-----------------------------------------------------------------------------
(* Liveness. *)

\* Every token() call returns: nobody waits for ever on the decision gate or on
\* a refresh, however other callers are canceled.
Answered == \A c \in Callers : pc[c] # "idle" ~> pc[c] = "idle"

\* A published refresh ends and makes room for the next one.
RefreshEnds == \A p \in Providers : inflight[p] # None ~> inflight[p] = None
=============================================================================

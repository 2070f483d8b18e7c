------------------------ MODULE RequestEngineProofs ------------------------
(***************************************************************************)
(* The request engine drives each tokenProvider only in ways that          *)
(* TokenProvider.tla allows, so that what is proved there of every         *)
(* provider holds under the engine.                                        *)
(***************************************************************************)
EXTENDS RequestEngine, TokenProviderProofs

\* The provider's part of a getAccessToken call is a Token call or nothing.
LEMMA GetAccessTokenStep ==
    ASSUME NEW c \in Callers, NEW r, NEW old, GetAccessToken(c, r, old)
    PROVE  Next \/ UNCHANGED vars
<1>1. CASE Token(c, old)
  <2>1. old \in Tokens \cup {None}
    BY <1>1 DEF Token
  <2>2. QED
    BY <1>1, <2>1, Zenon DEF Next
<1>2. QED
  BY <1>1, Zenon DEF GetAccessToken

\* A step of token() is a CallerStep, with the clock's verdict for due.
LEMMA ProviderStepStep ==
    ASSUME NEW c \in Callers, ProviderStep(c)
    PROVE  Next
<1>1. Due(c) \in BOOLEAN
  BY DEF Due
<1>2. CallerStep(c)
  BY <1>1, Zenon DEF ProviderStep, CallerStep
<1>3. QED
  BY <1>2, Zenon DEF Next

\* Every step of the engine is a step of the providers or leaves them alone.
LEMMA EngineStep ==
    ASSUME [EngineNext]_allVars
    PROVE  [Next]_vars
<1>1. CASE UNCHANGED allVars
  BY <1>1 DEF allVars
<1>2. ASSUME NEW c \in Callers, NEW req \in Requests, Do(c, req)
      PROVE  [Next]_vars
  BY <1>2, GetAccessTokenStep, Zenon DEF Do
<1>3. ASSUME NEW c \in Callers, ProviderStep(c)
      PROVE  [Next]_vars
  BY <1>3, ProviderStepStep
<1>4. ASSUME NEW c \in Callers, Finished(c)
      PROVE  [Next]_vars
  BY <1>4 DEF Finished
<1>5. ASSUME NEW c \in Callers, Unauthorized(c)
      PROVE  [Next]_vars
  BY <1>5, GetAccessTokenStep, Zenon DEF Unauthorized
<1>6. ASSUME NEW c \in Callers, CancelRequest(c)
      PROVE  [Next]_vars
  BY <1>6, Zenon DEF CancelRequest, Next, Environment
<1>7. ASSUME NEW k \in CallIds, RefreshStep(k)
      PROVE  [Next]_vars
  BY <1>7, Zenon DEF Next
<1>8. ASSUME NEW t \in Tokens, Login(t)
      PROVE  [Next]_vars
  BY <1>8, Zenon DEF Next, Environment
<1>9. ASSUME NEW t \in Tokens, Lapse(t)
      PROVE  [Next]_vars
  BY <1>9 DEF Lapse
<1>10. ASSUME Logout \/ OtherTransact
       PROVE  [Next]_vars
  BY <1>10, Zenon DEF Next, Environment
<1>11. ASSUME NEW p \in Providers, ProcessCrash(p)
       PROVE  [Next]_vars
  BY <1>11, Zenon DEF ProcessCrash, Next, Environment
<1>12. QED
  BY <1>1, <1>2, <1>3, <1>4, <1>5, <1>6, <1>7, <1>8, <1>9, <1>10, <1>11, Zenon DEF EngineNext

\* core.do uses the provider as TokenProvider.tla says callers do: the engine
\* implements the providers' specification.
THEOREM EngineImplementsProvider == EngineSpec => Spec
<1>1. EngineInit => Init
  BY DEF EngineInit
<1>2. [EngineNext]_allVars => [Next]_vars
  BY EngineStep
<1>3. QED
  BY <1>1, <1>2, PTL DEF EngineSpec, Spec

\* Under concurrent requests, canceled and refused in any order, at most one
\* refresh runs per Client and later requests find it.
THEOREM EngineSingleFlight == EngineSpec => []SingleFlight
BY EngineImplementsProvider, SingleFlightHolds, PTL

\* A request that was being retried across a logout or a new login does not
\* bring the old session back.
THEOREM EngineSessionNotResurrected == EngineSpec => []SessionNotResurrected
BY EngineImplementsProvider, SessionNotResurrectedHolds, PTL

-----------------------------------------------------------------------------
(***************************************************************************)
(* Why a rotation happens.  RotationJustified is not inductive: that the   *)
(* server redeems a refresh token for a reason rests on a refresh being    *)
(* started for a reason, and that on forced requests naming only           *)
(* generations the API has refused.                                        *)
(***************************************************************************)
ForcedForRefused == \A c \in Callers : rejected[c] # None => rejected[c] \in refused

StartedForReason ==
    \A k \in CallIds : calls[k].phase = "remote" => calls[k].source.id \in refused \cup expired

JustInv == ForcedForRefused /\ StartedForReason /\ RotationJustified

\* What a step must not do to break JustInv, short of starting or redeeming.
Harmless ==
    /\ refused \subseteq refused' /\ expired \subseteq expired'
    /\ \A c \in Callers : rejected'[c] \in {rejected[c], None} \cup refused'
    /\ \A k \in CallIds : calls'[k].phase = "remote" =>
          calls[k].phase = "remote" /\ calls'[k].source = calls[k].source
    /\ redeemed' = redeemed

\* Such a step keeps every rotation justified.
LEMMA HarmlessKeeps == ASSUME JustInv, Harmless PROVE JustInv'
<1>1. ForcedForRefused'
  BY DEF JustInv, Harmless, ForcedForRefused
<1>2. StartedForReason'
  BY DEF JustInv, Harmless, StartedForReason
<1>3. RotationJustified'
  BY DEF JustInv, Harmless, RotationJustified
<1> QED BY <1>1, <1>2, <1>3 DEF JustInv

\* A call of token() for a refused generation, or for none, is harmless.
LEMMA TokenHarmless ==
    ASSUME StructInv, NEW c \in Callers, NEW r, r = None \/ r \in refused', Token(c, r),
           refused \subseteq refused', expired' = expired
    PROVE  Harmless
<1>1. rejected' = [rejected EXCEPT ![c] = r] /\ redeemed' = redeemed
  BY DEF Token, serverVars
<1>2. \A d \in Callers : rejected'[d] \in {rejected[d], None} \cup refused'
  BY <1>1 DEF StructInv, TypeOK
<1>3. OnlyWaitersChange
  <2>1. CASE inflight[ProviderOf[c]] # None
    BY <2>1, JoinEffect DEF Token
  <2>2. CASE inflight[ProviderOf[c]] = None
    BY <2>2 DEF Token, OnlyWaitersChange
  <2> QED BY <2>1, <2>2
<1> QED BY <1>1, <1>2, <1>3 DEF Harmless, OnlyWaitersChange

\* So is the engine asking any source for a token.
LEMMA GetAccessTokenHarmless ==
    ASSUME StructInv, NEW c \in Callers, NEW r, NEW old, GetAccessToken(c, r, old),
           old \in Tokens => old \in refused',
           refused \subseteq refused', expired' = expired
    PROVE  Harmless
<1>1. CASE Token(c, old)
  <2>1. old = None \/ old \in refused'
    BY <1>1 DEF Token
  <2> QED BY <1>1, <2>1, TokenHarmless
<1>2. CASE UNCHANGED vars
  BY <1>2 DEF Harmless, vars, callerVars, serverVars
<1> QED BY <1>1, <1>2, Zenon DEF GetAccessToken

\* Returning to the request drops the rejected token, whatever the calls do.
LEMMA ReturnHarmless ==
    ASSUME StructInv, NEW c \in Callers, NEW v, Return(c, v), redeemed' = redeemed,
           refused' = refused, expired' = expired,
           \A k \in CallIds : calls'[k].phase = "remote" =>
               calls[k].phase = "remote" /\ calls'[k].source = calls[k].source
    PROVE  Harmless
<1>1. rejected' = [rejected EXCEPT ![c] = None]
  BY DEF Return
<1>2. \A d \in Callers : rejected'[d] \in {rejected[d], None}
  BY <1>1 DEF StructInv, TypeOK
<1> QED BY <1>2 DEF Harmless

\* A decision starts a refresh only for a generation that is refused or due.
LEMMA DecideRefreshJust ==
    ASSUME StructInv, JustInv, NEW c \in Callers, DecideRefresh(c, Due(c)),
           refused' = refused, expired' = expired
    PROVE  JustInv'
<1>1. rejected' = rejected /\ redeemed' = redeemed
  BY DEF DecideRefresh, serverVars
<1>2. CASE inflight[ProviderOf[c]] # None
  <2>1. OnlyWaitersChange
    BY <1>2, JoinEffect DEF DecideRefresh
  <2>2. Harmless
    BY <1>1, <2>1 DEF Harmless, OnlyWaitersChange
  <2> QED BY <2>2, HarmlessKeeps
<1>3. CASE inflight[ProviderOf[c]] = None
  <2>1. PICK k \in CallIds : Publish(c, k)
    BY <1>3 DEF DecideRefresh
  <2>2. snapshot[c] # None /\ ~AnswerFromStorage(c, Due(c))
    BY <1>3 DEF DecideRefresh
  <2>3. snapshot[c].id \in refused \cup expired
    <3>1. CASE rejected[c] # None
      BY <2>2, <3>1 DEF AnswerFromStorage, JustInv, ForcedForRefused
    <3>2. CASE rejected[c] = None
      BY <2>2, <3>2 DEF AnswerFromStorage, tokenNeedsRefresh, Due
    <3> QED BY <3>1, <3>2
  <2>4. calls' = [calls EXCEPT ![k] =
                    [phase |-> "remote", owner |-> ProviderOf[c], source |-> snapshot[c],
                     refreshed |-> None, out |-> None, waiters |-> 1]]
    BY <2>1 DEF Publish
  <2>5. StartedForReason'
    BY <2>3, <2>4 DEF JustInv, StartedForReason, StructInv, TypeOK
  <2>6. ForcedForRefused' /\ RotationJustified'
    BY <1>1 DEF JustInv, ForcedForRefused, RotationJustified
  <2> QED BY <2>5, <2>6 DEF JustInv
<1> QED BY <1>2, <1>3

\* The other steps of token() start nothing.
LEMMA ProviderStepJust ==
    ASSUME StructInv, JustInv, NEW c \in Callers, ProviderStep(c)
    PROVE  JustInv'
<1> USE DEF callerVars, providerVars, serverVars, historyVars
<1>1. refused' = refused /\ expired' = expired
  BY DEF ProviderStep
<1>2. ASSUME rejected' = rejected, redeemed' = redeemed, OnlyWaitersChange
      PROVE  JustInv'
  <2>1. Harmless
    BY <1>1, <1>2 DEF Harmless, OnlyWaitersChange
  <2> QED BY <2>1, HarmlessKeeps
<1>3. ASSUME UNCHANGED calls PROVE OnlyWaitersChange
  BY <1>3 DEF OnlyWaitersChange
<1>4. CASE LockDecision(c) \/ Load(c)
  <2>1. UNCHANGED <<rejected, calls, redeemed>>
    BY <1>4 DEF LockDecision, Load
  <2> QED BY <1>2, <1>3, <2>1
<1>5. CASE CheckInflight(c)
  <2>1. OnlyWaitersChange
    <3>1. CASE inflight[ProviderOf[c]] # None
      BY <1>5, <3>1, JoinEffect DEF CheckInflight
    <3>2. CASE inflight[ProviderOf[c]] = None
      BY <1>3, <1>5, <3>2 DEF CheckInflight
    <3> QED BY <3>1, <3>2
  <2>2. UNCHANGED <<rejected, redeemed>>
    BY <1>5 DEF CheckInflight
  <2> QED BY <1>2, <2>1, <2>2
<1>6. CASE LockCanceled(c) \/ LoadFails(c) \/ DecideFromStorage(c, Due(c))
  <2>1. UNCHANGED <<calls, redeemed>> /\ \E v : Return(c, v)
    BY <1>6 DEF LockCanceled, LoadFails, DecideFromStorage
  <2>2. Harmless
    BY <1>1, <2>1, ReturnHarmless
  <2> QED BY <2>2, HarmlessKeeps
<1>7. CASE DecideRefresh(c, Due(c))
  BY <1>1, <1>7, DecideRefreshJust
<1>8. CASE WaitDone(c)
  <2>1. joined[c] \in CallIds
    BY <1>8 DEF WaitDone, StructInv, WaitShape
  <2>2. \A k \in CallIds : calls'[k] = calls[k] \/ calls'[k] = UnusedCall
    BY <1>8, <2>1 DEF WaitDone, StructInv, TypeOK
  <2>3. UnusedCall.phase # "remote"
    BY DEF UnusedCall
  <2>4. UNCHANGED redeemed /\ \E v : Return(c, v)
    BY <1>8 DEF WaitDone
  <2>5. Harmless
    BY <1>1, <2>2, <2>3, <2>4, ReturnHarmless
  <2> QED BY <2>5, HarmlessKeeps
<1>9. CASE WaitCanceled(c)
  <2>1. joined[c] \in CallIds
    BY <1>9 DEF WaitCanceled, StructInv, WaitShape
  <2>2. OnlyWaitersChange
    BY <1>9, <2>1 DEF WaitCanceled, StructInv, TypeOK, RefreshCall, OnlyWaitersChange
  <2>3. UNCHANGED redeemed /\ Return(c, None)
    BY <1>9 DEF WaitCanceled
  <2>4. Harmless
    BY <1>1, <2>2, <2>3, ReturnHarmless DEF OnlyWaitersChange
  <2> QED BY <2>4, HarmlessKeeps
<1> QED BY <1>4, <1>5, <1>6, <1>7, <1>8, <1>9, Zenon DEF ProviderStep

\* The server redeems what a refresh presents, and a refresh was started for a
\* reason; the steps after that redeem nothing and present nothing.
LEMMA RefreshStepJust ==
    ASSUME StructInv, JustInv, NEW k \in CallIds, RefreshStep(k), UNCHANGED engineVars
    PROVE  JustInv'
<1> USE DEF callerVars, providerVars, serverVars, historyVars
<1>1. refused' = refused /\ expired' = expired
  BY DEF engineVars
<1>2. rejected' = rejected
  BY DEF RefreshStep, RefreshSucceeds, RefreshFails, RefreshResponseLost, Reload,
         CommitRefreshed, CommitSuperseded, CommitLoggedOut, CommitFails, FinishRefresh
<1>3. calls'[k].phase # "remote" /\ \A j \in CallIds \ {k} : calls'[j] = calls[j]
  <2> USE DEF StructInv, TypeOK
  <2>1. CASE RefreshFails(k) \/ RefreshResponseLost(k) \/ \E t \in Tokens : RefreshSucceeds(k, t)
    BY <2>1 DEF RefreshFails, RefreshResponseLost, RefreshSucceeds, RefreshCall
  <2>2. CASE \E ok \in BOOLEAN : Reload(k, ok)
    BY <2>2 DEF Reload, RefreshCall
  <2>3. ASSUME NEW v, Outcome(k, v)
        PROVE  calls'[k].phase # "remote" /\ \A j \in CallIds \ {k} : calls'[j] = calls[j]
    BY <2>3 DEF Outcome, RefreshCall
  <2>4. CASE \/ \E ok \in BOOLEAN : CommitRefreshed(k, ok) \/ CommitSuperseded(k, ok)
             \/ CommitLoggedOut(k) \/ CommitFails(k)
    <3>1. \E v : Outcome(k, v)
      BY <2>4, Zenon DEF CommitRefreshed, CommitSuperseded, CommitLoggedOut, CommitFails
    <3> QED BY <2>3, <3>1
  <2>5. CASE FinishRefresh(k)
    <3> DEFINE v == IF \E c \in Callers : joined[c] = k
                    THEN [UnusedCall EXCEPT !.phase = "done", !.owner = calls[k].owner,
                                            !.out = calls[k].out]
                    ELSE UnusedCall
    <3>1. calls' = [calls EXCEPT ![k] = v]
      BY <2>5 DEF FinishRefresh
    <3>2. v.phase # "remote"
      BY DEF UnusedCall
    <3> HIDE DEF v
    <3> QED BY <3>1, <3>2
  <2> QED BY <2>1, <2>2, <2>4, <2>5, Zenon DEF RefreshStep
<1>4. ForcedForRefused' /\ StartedForReason'
  BY <1>1, <1>2, <1>3 DEF JustInv, ForcedForRefused, StartedForReason
<1>5. redeemed' = redeemed \/ (calls[k].phase = "remote" /\ Redeem(k))
  BY DEF RefreshStep, RefreshSucceeds, RefreshFails, RefreshResponseLost, Reload,
         CommitRefreshed, CommitSuperseded, CommitLoggedOut, CommitFails, FinishRefresh
<1>6. RotationJustified'
  <2>1. CASE redeemed' = redeemed
    BY <1>1, <2>1 DEF JustInv, RotationJustified
  <2>2. CASE calls[k].phase = "remote" /\ Redeem(k)
    <3>1. calls[k].source.id \in refused \cup expired
      BY <2>2 DEF JustInv, StartedForReason
    <3>2. \A t \in Tokens : t # calls[k].source.id => redeemed'[t] = redeemed[t]
      BY <2>2 DEF Redeem, StructInv, TypeOK
    <3> QED BY <1>1, <3>1, <3>2 DEF JustInv, RotationJustified
  <2> QED BY <1>5, <2>1, <2>2
<1> QED BY <1>4, <1>6 DEF JustInv

\* Every step of the engine keeps rotations justified.
LEMMA EngineJust ==
    ASSUME StructInv, JustInv, [EngineNext]_allVars
    PROVE  JustInv'
<1> USE DEF vars, engineVars, callerVars, providerVars, serverVars, historyVars
<1>1. ASSUME refused \subseteq refused', expired \subseteq expired', UNCHANGED <<rejected, calls, redeemed>>
      PROVE  JustInv'
  <2>1. Harmless
    BY <1>1 DEF Harmless
  <2> QED BY <2>1, HarmlessKeeps
<1>2. CASE UNCHANGED allVars
  BY <1>1, <1>2 DEF allVars
<1>3. ASSUME NEW c \in Callers, NEW req \in Requests, Do(c, req)
      PROVE  JustInv'
  <2>1. PICK r : GetAccessToken(c, r, None) /\ refused' = refused /\ expired' = expired
    BY <1>3, Zenon DEF Do
  <2>2. Harmless
    BY <2>1, NoneAssumption, GetAccessTokenHarmless
  <2> QED BY <2>2, HarmlessKeeps
<1>4. ASSUME NEW c \in Callers, Unauthorized(c)
      PROVE  JustInv'
  <2>1. /\ refused \subseteq refused' /\ expired' = expired
        /\ request[c].token \in Tokens => request[c].token \in refused'
    BY <1>4 DEF Unauthorized
  <2>2. \/ UNCHANGED vars
        \/ \E r : GetAccessToken(c, r, request[c].token)
    BY <1>4, Zenon DEF Unauthorized
  <2>3. CASE UNCHANGED vars
    BY <1>1, <2>1, <2>3
  <2>4. CASE \E r : GetAccessToken(c, r, request[c].token)
    <3>1. Harmless
      BY <2>1, <2>4, GetAccessTokenHarmless
    <3> QED BY <3>1, HarmlessKeeps
  <2> QED BY <2>2, <2>3, <2>4
<1>5. ASSUME NEW c \in Callers, Finished(c) \/ CancelRequest(c)
      PROVE  JustInv'
  <2>1. UNCHANGED <<rejected, calls, redeemed, refused, expired>>
    BY <1>5 DEF Finished, CancelRequest, Cancel
  <2> QED BY <1>1, <2>1
<1>6. ASSUME NEW t \in Tokens, Login(t) /\ UNCHANGED engineVars
      PROVE  JustInv'
  BY <1>1, <1>6 DEF Login
<1>7. ASSUME NEW t \in Tokens, Lapse(t)
      PROVE  JustInv'
  BY <1>1, <1>7 DEF Lapse
<1>8. ASSUME (Logout \/ OtherTransact) /\ UNCHANGED engineVars
      PROVE  JustInv'
  BY <1>1, <1>8 DEF Logout, OtherTransact
<1>9. ASSUME NEW p \in Providers, ProcessCrash(p)
      PROVE  JustInv'
  <2>1. UNCHANGED <<refused, expired, redeemed>>
    BY <1>9 DEF ProcessCrash, Crash
  <2>2. \A c \in Callers : rejected'[c] \in {rejected[c], None}
    BY <1>9 DEF ProcessCrash, Crash
  <2>3. \A k \in CallIds : calls'[k] = calls[k] \/ calls'[k].phase # "remote"
    BY <1>9 DEF ProcessCrash, Crash, UnusedCall
  <2>4. Harmless
    BY <2>1, <2>2, <2>3 DEF Harmless
  <2> QED BY <2>4, HarmlessKeeps
<1>10. ASSUME NEW c \in Callers, ProviderStep(c)
       PROVE  JustInv'
  BY <1>10, ProviderStepJust
<1>11. ASSUME NEW k \in CallIds, RefreshStep(k) /\ UNCHANGED engineVars
       PROVE  JustInv'
  BY <1>11, RefreshStepJust
<1> QED
  BY <1>2, <1>3, <1>4, <1>5, <1>6, <1>7, <1>8, <1>9, <1>10, <1>11, Zenon DEF EngineNext

\* The server never accepts a rotation of a generation that the API had not
\* refused and whose clock had not run out, however requests, 401s, refreshes
\* and crashes interleave.
THEOREM RotationJustifiedHolds == EngineSpec => []RotationJustified
<1>1. EngineInit => JustInv
  BY NoneAssumption DEF EngineInit, Init, JustInv, ForcedForRefused, StartedForReason,
                        RotationJustified, UnusedCall
<1>2. StructInv /\ JustInv /\ [EngineNext]_allVars => JustInv'
  BY EngineJust
<1>3. JustInv => RotationJustified
  BY DEF JustInv
<1> QED BY <1>1, <1>2, <1>3, EngineImplementsProvider, StructInvariant, PTL DEF EngineSpec

-----------------------------------------------------------------------------
(***************************************************************************)
(* How often a request is sent.  SentOnce needs the attempt counter of do, *)
(* its agreement with what has left for the server, and that a request     *)
(* whose caller is inside token() is between two attempts.                 *)
(***************************************************************************)
Between == {r \in Request : r.attempt <= maximumAttempts(r.req) /\ r.sent = r.attempt - 1}
Sent == {r \in Request : r.attempt <= maximumAttempts(r.req) /\ r.sent = r.attempt}

SendInv ==
    /\ request = [c \in Callers |-> request[c]]
    /\ \A c \in Callers :
          /\ \/ request[c] = None
             \/ request[c] \in Between /\ request[c].pc = "token"
             \/ request[c] \in Sent /\ request[c].pc = "exchange"
          /\ pc[c] # "idle" => request[c] \in Between /\ request[c].pc = "token"

\* The policy allows at most two attempts, and one for a mutation.
LEMMA MaximumAttemptsBound ==
    ASSUME NEW req \in Requests
    PROVE  /\ maximumAttempts(req) \in {1, 2}
           /\ req.method = "POST" => maximumAttempts(req) = 1
BY DEF Requests, ListPaymentMethods, ListShippingAddresses, RetrieveUserInfo, ListSpendRequests,
       RetrieveSpendRequest, MutateSpendRequest, CreateReport, SignWebBotAuth, Read, Mutation,
       maximumAttempts

\* A step that gives one caller a well-formed request, or none, and leaves the
\* others to themselves, keeps SendInv.
LEMMA SendFrame ==
    ASSUME SendInv, NEW c \in Callers, NEW x, request' = [request EXCEPT ![c] = x],
           \A d \in Callers \ {c} : pc'[d] = pc[d],
           \/ x = None /\ pc'[c] = "idle"
           \/ x \in Between /\ x.pc = "token"
           \/ x \in Sent /\ x.pc = "exchange" /\ pc'[c] = "idle"
    PROVE  SendInv'
<1>1. request'[c] = x /\ \A d \in Callers \ {c} : request'[d] = request[d]
  BY DEF SendInv
<1>2. request' = [d \in Callers |-> request'[d]]
  BY DEF SendInv
<1> QED BY <1>1, <1>2 DEF SendInv

\* doAttempt sends what getAccessToken prepared, or the request ends.
LEMMA SuppliedSend ==
    ASSUME SendInv, NEW c \in Callers, NEW r \in Between, NEW t \in Bearers, Supplied(c, r, t),
           \A d \in Callers \ {c} : pc'[d] = pc[d], pc'[c] = "idle"
    PROVE  SendInv'
<1> DEFINE x == [r EXCEPT !.pc = "exchange", !.token = t, !.sent = @ + 1]
<1>1. x \in Sent /\ x.pc = "exchange"
  <2>1. /\ r \in Request /\ r.attempt <= maximumAttempts(r.req) /\ r.sent = r.attempt - 1
        /\ r.attempt \in 1 .. 2 /\ r.sent \in 0 .. 2
    BY DEF Between, Request
  <2>2. r.sent + 1 = r.attempt /\ r.sent + 1 \in 0 .. 2
    BY <2>1
  <2>3. /\ x \in Request /\ x.req = r.req /\ x.attempt = r.attempt
        /\ x.sent = r.attempt /\ x.pc = "exchange"
    BY <2>1, <2>2 DEF Request
  <2> HIDE DEF x
  <2> QED BY <2>1, <2>3 DEF Sent
<1>2. request' = [request EXCEPT ![c] = IF t = None \/ c \in ctx THEN None ELSE x]
  BY DEF Supplied
<1> HIDE DEF x
<1> QED BY <1>1, <1>2, SendFrame

\* Asking for a token keeps SendInv, whatever the source.
LEMMA GetAccessTokenSend ==
    ASSUME StructInv, SendInv, NEW c \in Callers, NEW r \in Between, NEW old,
           GetAccessToken(c, r, old), pc[c] = "idle"
    PROVE  SendInv'
<1>1. CASE UNCHANGED vars /\ \E t \in Bearers : Supplied(c, r, t)
  BY <1>1, SuppliedSend DEF vars, callerVars
<1>2. CASE /\ Token(c, old)
           /\ request' = [request EXCEPT ![c] = [r EXCEPT !.pc = "token", !.token = None]]
  <2> DEFINE x == [r EXCEPT !.pc = "token", !.token = None]
  <2>1. x \in Between /\ x.pc = "token"
    BY DEF Between, Request, Bearers
  <2>2. \A d \in Callers \ {c} : pc'[d] = pc[d]
    BY <1>2 DEF Token, Join, StructInv, TypeOK
  <2>3. request' = [request EXCEPT ![c] = x]
    BY <1>2
  <2> HIDE DEF x
  <2> QED BY <2>1, <2>2, <2>3, SendFrame
<1> QED BY <1>1, <1>2 DEF GetAccessToken, Bearers

\* A step of token() concerns its own caller, who is inside it.
LEMMA ProviderStepFrame ==
    ASSUME StructInv, NEW c \in Callers, ProviderStep(c)
    PROVE  pc[c] # "idle" /\ \A d \in Callers \ {c} : pc'[d] = pc[d]
<1> USE DEF StructInv, TypeOK
<1>1. CASE LockDecision(c) \/ Load(c)
  BY <1>1 DEF LockDecision, Load
<1>2. CASE CheckInflight(c)
  BY <1>2 DEF CheckInflight, Join
<1>3. CASE DecideRefresh(c, Due(c))
  BY <1>3 DEF DecideRefresh, Join, Publish
<1>4. CASE \/ LockCanceled(c) \/ LoadFails(c) \/ DecideFromStorage(c, Due(c))
           \/ WaitDone(c) \/ WaitCanceled(c)
  BY <1>4 DEF LockCanceled, LoadFails, DecideFromStorage, WaitDone, WaitCanceled, Return
<1> QED BY <1>1, <1>2, <1>3, <1>4, Zenon DEF ProviderStep

\* Every step of the engine keeps SendInv.
LEMMA EngineSend ==
    ASSUME StructInv, StructInv', SendInv, [EngineNext]_allVars
    PROVE  SendInv'
<1> USE DEF vars, engineVars, callerVars
<1>1. ASSUME UNCHANGED <<pc, request>> PROVE SendInv'
  BY <1>1 DEF SendInv
<1>2. CASE UNCHANGED allVars
  BY <1>1, <1>2 DEF allVars
<1>3. ASSUME NEW c \in Callers, NEW req \in Requests, Do(c, req)
      PROVE  SendInv'
  <2> DEFINE r == [pc |-> "token", req |-> req, attempt |-> 1, token |-> None,
                   replaced |-> None, sent |-> 0]
  <2>1. r \in Between
    BY MaximumAttemptsBound DEF Between, Request, Bearers
  <2>2. request[c] = None /\ GetAccessToken(c, r, None)
    BY <1>3, Zenon DEF Do
  <2> HIDE DEF r
  <2>3. pc[c] = "idle"
    BY <2>2, RequestAssumption DEF SendInv, Between
  <2> QED BY <2>1, <2>2, <2>3, GetAccessTokenSend
<1>4. ASSUME NEW c \in Callers, ProviderStep(c)
      PROVE  SendInv'
  <2>1. pc[c] # "idle" /\ \A d \in Callers \ {c} : pc'[d] = pc[d]
    BY <1>4, ProviderStepFrame
  <2>2. request[c] \in Between /\ request[c].pc = "token"
    BY <2>1 DEF SendInv
  <2>3. CASE pc'[c] = "idle"
    <3>1. Supplied(c, request[c], result'[c])
      BY <1>4, <2>3 DEF ProviderStep
    <3>2. result'[c] \in Bearers
      BY DEF StructInv, TypeOK, Bearers
    <3> QED BY <2>1, <2>2, <2>3, <3>1, <3>2, SuppliedSend
  <2>4. CASE pc'[c] # "idle"
    <3>1. request' = request
      BY <1>4, <2>4 DEF ProviderStep
    <3> QED BY <2>1, <2>2, <3>1 DEF SendInv
  <2> QED BY <2>3, <2>4
<1>5. ASSUME NEW c \in Callers, request[c] # None, request[c].pc = "exchange"
      PROVE  request[c] \in Sent /\ pc[c] = "idle"
  BY <1>5 DEF SendInv
<1>6. ASSUME NEW c \in Callers, End(c), pc[c] = "idle", UNCHANGED vars
      PROVE  SendInv'
  BY <1>6, SendFrame DEF End
<1>7. ASSUME NEW c \in Callers, Finished(c)
      PROVE  SendInv'
  BY <1>5, <1>6, <1>7 DEF Finished
<1>8. ASSUME NEW c \in Callers, Unauthorized(c)
      PROVE  SendInv'
  <2> DEFINE r == [request[c] EXCEPT !.attempt = @ + 1, !.replaced = request[c].token]
  <2>1. request[c] \in Sent /\ pc[c] = "idle"
    BY <1>5, <1>8 DEF Unauthorized
  <2>2. \/ End(c) /\ UNCHANGED vars
        \/ /\ request[c].attempt # maximumAttempts(request[c].req)
           /\ GetAccessToken(c, r, request[c].token)
    BY <1>8, Zenon DEF Unauthorized
  <2>3. CASE End(c) /\ UNCHANGED vars
    BY <1>6, <2>1, <2>3
  <2>4. CASE /\ request[c].attempt # maximumAttempts(request[c].req)
             /\ GetAccessToken(c, r, request[c].token)
    <3> DEFINE old == request[c]
    <3>1. /\ old \in Request /\ old.attempt <= maximumAttempts(old.req)
          /\ old.sent = old.attempt /\ old.req \in Requests /\ old.attempt \in 1 .. 2
      BY <2>1 DEF Sent, Request
    <3>2. /\ old.attempt + 1 <= maximumAttempts(old.req)
          /\ old.attempt + 1 \in 1 .. 2 /\ old.sent = (old.attempt + 1) - 1
      BY <2>4, <3>1, MaximumAttemptsBound
    <3>3. /\ r \in Request /\ r.req = old.req /\ r.attempt = old.attempt + 1
          /\ r.sent = old.sent
      BY <3>1, <3>2 DEF Request
    <3> HIDE DEF r
    <3>4. r \in Between
      BY <3>2, <3>3 DEF Between
    <3> QED BY <2>1, <2>4, <3>4, GetAccessTokenSend
  <2> QED BY <2>2, <2>3, <2>4
<1>9. ASSUME NEW c \in Callers, CancelRequest(c)
      PROVE  SendInv'
  BY <1>1, <1>9 DEF CancelRequest, Cancel
<1>10. ASSUME NEW k \in CallIds, RefreshStep(k) /\ UNCHANGED engineVars
       PROVE  SendInv'
  <2>1. pc' = pc
    BY <1>10 DEF RefreshStep, RefreshSucceeds, RefreshFails, RefreshResponseLost, Reload,
                 CommitRefreshed, CommitSuperseded, CommitLoggedOut, CommitFails, FinishRefresh
  <2> QED BY <1>1, <1>10, <2>1
<1>11. ASSUME NEW t \in Tokens, Login(t) /\ UNCHANGED engineVars
       PROVE  SendInv'
  BY <1>1, <1>11 DEF Login
<1>12. ASSUME NEW t \in Tokens, Lapse(t)
       PROVE  SendInv'
  BY <1>1, <1>12 DEF Lapse
<1>13. ASSUME (Logout \/ OtherTransact) /\ UNCHANGED engineVars
       PROVE  SendInv'
  BY <1>1, <1>13 DEF Logout, OtherTransact
<1>14. ASSUME NEW p \in Providers, ProcessCrash(p)
       PROVE  SendInv'
  BY <1>14 DEF ProcessCrash, Crash, SendInv
<1> QED
  BY <1>2, <1>3, <1>4, <1>7, <1>8, <1>9, <1>10, <1>11, <1>12, <1>13, <1>14, Zenon DEF EngineNext

\* Attempts and transmissions agree.
THEOREM SendInvariant == EngineSpec => []SendInv
<1>1. EngineInit => SendInv
  BY DEF EngineInit, Init, SendInv
<1>2. StructInv /\ StructInv' /\ SendInv /\ [EngineNext]_allVars => SendInv'
  BY EngineSend
<1> QED BY <1>1, <1>2, EngineImplementsProvider, StructInvariant, PTL DEF EngineSpec

\* No mutation is sent twice and no read three times, for any number of
\* concurrent requests, 401s, refreshes, cancellations and crashes.
THEOREM SentOnceHolds == EngineSpec => []SentOnce
<1>1. SendInv => SentOnce
  <2> SUFFICES ASSUME SendInv, NEW c \in Callers, request[c] # None
               PROVE  request[c].sent <= (IF request[c].req.method = "POST" THEN 1 ELSE 2)
    BY DEF SentOnce
  <2>1. request[c] \in Between \cup Sent
    BY DEF SendInv
  <2>2. request[c].req \in Requests /\ request[c].attempt \in 1 .. 2
    BY <2>1 DEF Between, Sent, Request
  <2> QED BY <2>1, <2>2, MaximumAttemptsBound DEF Between, Sent
<1> QED BY <1>1, SendInvariant, PTL
=============================================================================

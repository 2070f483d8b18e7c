---------------------------- MODULE ReplayProofs ----------------------------
(***************************************************************************)
(* Which tokens the requests of core.do carry, for any number of Clients,  *)
(* requests and generations: only ones the auth server has issued, and in  *)
(* the replay after a 401 another one than the API refused.  The engine    *)
(* implements the providers' specification, so that their invariants hold  *)
(* under it.                                                               *)
(***************************************************************************)
EXTENDS RequestEngineProofs, RotationProofs

\* The fields of EngineTypeOK, and where the tokens of requests come from.
TokenInv ==
    /\ source \in [Providers -> Sources]
    /\ ctx \in SUBSET Callers
    /\ expired \in SUBSET issued
    /\ refused \in SUBSET issued
    /\ \A c \in Callers : request[c] # None =>
          /\ request[c].token \in Tokens => request[c].token \in issued
          /\ request[c].pc = "exchange" => request[c].token # None

\* While a read that was refused asks for another token, it is that token's
\* generation it asks to replace.
ReplayInv ==
    \A c \in Callers :
        request[c] # None /\ request[c].attempt = 2 /\ source[ProviderOf[c]] = "managed" =>
            /\ request[c].pc = "token" => rejected[c] = request[c].replaced /\ rejected[c] # None
            /\ request[c].pc = "exchange" => request[c].token # request[c].replaced

(***************************************************************************)
(* What a step may do to a request.                                        *)
(***************************************************************************)
Left(c) == request'[c] = request[c] /\ rejected'[c] = rejected[c]

\* Request c asks the provider, for the first time or after a 401.
Asked(c) ==
    /\ request'[c].pc = "token" /\ request'[c].token = None
    /\ \/ request'[c].attempt = 1
       \/ /\ request[c] # None /\ request[c].pc = "exchange"
          /\ request'[c].replaced = request[c].token /\ rejected'[c] = request[c].token

\* It is sent, with the token the source has supplied.
Transmitted(c) ==
    /\ request'[c].pc = "exchange" /\ request'[c].token # None
    /\ \/ request'[c].token \notin Tokens /\ source[ProviderOf[c]] # "managed"
       \/ /\ ProviderStep(c) /\ pc'[c] = "idle" /\ request'[c].token = result'[c]
          /\ request[c] # None /\ request[c].pc = "token"
          /\ request'[c].attempt = request[c].attempt
          /\ request'[c].replaced = request[c].replaced

RequestMove(c) == Left(c) \/ request'[c] = None \/ Asked(c) \/ Transmitted(c)

\* doAttempt sends the request with the token supplied, or the request ends.
LEMMA SuppliedMove ==
    ASSUME SendInv, NEW c \in Callers, NEW r \in Request, NEW t, Supplied(c, r, t)
    PROVE  /\ \A d \in Callers \ {c} : request'[d] = request[d]
           /\ \/ request'[c] = None
              \/ /\ t # None /\ request'[c].pc = "exchange" /\ request'[c].token = t
                 /\ request'[c].attempt = r.attempt /\ request'[c].replaced = r.replaced
<1> DEFINE x == [r EXCEPT !.pc = "exchange", !.token = t, !.sent = @ + 1]
<1>1. /\ x.pc = "exchange" /\ x.token = t /\ x.attempt = r.attempt /\ x.replaced = r.replaced
  BY DEF Request
<1>2. request' = [request EXCEPT ![c] = IF t = None \/ c \in ctx THEN None ELSE x]
  BY DEF Supplied
<1>3. request = [d \in Callers |-> request[d]]
  BY DEF SendInv
<1> HIDE DEF x
<1> QED BY <1>1, <1>2, <1>3

\* Asking for a token concerns one request.
LEMMA GetAccessTokenMove ==
    ASSUME StructInv, SendInv, NEW c \in Callers, NEW r \in Request, NEW old,
           GetAccessToken(c, r, old),
           \/ r.attempt = 1
           \/ /\ request[c] # None /\ request[c].pc = "exchange"
              /\ r.replaced = request[c].token /\ old = request[c].token
    PROVE  \A d \in Callers : RequestMove(d)
<1>1. request = [d \in Callers |-> request[d]]
  BY DEF SendInv
<1>2. CASE /\ Token(c, old)
           /\ request' = [request EXCEPT ![c] = [r EXCEPT !.pc = "token", !.token = None]]
  <2> DEFINE x == [r EXCEPT !.pc = "token", !.token = None]
  <2>1. x.pc = "token" /\ x.token = None /\ x.attempt = r.attempt /\ x.replaced = r.replaced
    BY DEF Request
  <2>2. request' = [request EXCEPT ![c] = x]
    BY <1>2
  <2>3. rejected'[c] = old /\ \A d \in Callers \ {c} : rejected'[d] = rejected[d]
    BY <1>2 DEF Token, StructInv, TypeOK
  <2> HIDE DEF x
  <2>4. request'[c] = x /\ \A d \in Callers \ {c} : request'[d] = request[d]
    BY <1>1, <2>2
  <2>5. Asked(c)
    BY <2>1, <2>3, <2>4 DEF Asked
  <2>6. \A d \in Callers \ {c} : Left(d)
    BY <2>3, <2>4 DEF Left
  <2> QED BY <2>5, <2>6 DEF RequestMove
<1>3. CASE /\ source[ProviderOf[c]] # "managed" /\ UNCHANGED vars
           /\ \E t \in {OptionToken, None} : Supplied(c, r, t)
  <2>1. PICK t \in {OptionToken, None} : Supplied(c, r, t)
    BY <1>3
  <2>2. rejected' = rejected
    BY <1>3 DEF vars, callerVars
  <2>3. /\ \A d \in Callers \ {c} : request'[d] = request[d]
        /\ request'[c] = None \/ (t # None /\ request'[c].pc = "exchange" /\ request'[c].token = t)
    BY <2>1, SuppliedMove
  <2>4. request'[c] = None \/ Transmitted(c)
    BY <1>3, <2>1, <2>3, OptionTokenAssumption DEF Transmitted
  <2>5. \A d \in Callers \ {c} : Left(d)
    BY <2>2, <2>3 DEF Left
  <2> QED BY <2>4, <2>5 DEF RequestMove
<1> QED BY <1>2, <1>3, Zenon DEF GetAccessToken

\* token() forgets the rejected generation only when it returns, and no other
\* caller's.
LEMMA ProviderStepRejected ==
    ASSUME StructInv, NEW c \in Callers, ProviderStep(c)
    PROVE  /\ \A d \in Callers \ {c} : rejected'[d] = rejected[d]
           /\ pc'[c] # "idle" => rejected'[c] = rejected[c]
<1> USE DEF StructInv, TypeOK, callerVars
<1>1. CASE \/ LockDecision(c) \/ CheckInflight(c) \/ Load(c) \/ DecideRefresh(c, Due(c))
  BY <1>1 DEF LockDecision, CheckInflight, Load, DecideRefresh
<1>2. CASE \/ LockCanceled(c) \/ LoadFails(c) \/ DecideFromStorage(c, Due(c))
           \/ WaitDone(c) \/ WaitCanceled(c)
  BY <1>2 DEF LockCanceled, LoadFails, DecideFromStorage, WaitDone, WaitCanceled, Return
<1> QED BY <1>1, <1>2, Zenon DEF ProviderStep

\* A step of token() sends its request, ends it or leaves it waiting.
LEMMA ProviderStepMove ==
    ASSUME StructInv, SendInv, NEW c \in Callers, ProviderStep(c)
    PROVE  \A d \in Callers : RequestMove(d)
<1>1. /\ \A d \in Callers \ {c} : rejected'[d] = rejected[d]
      /\ pc'[c] # "idle" => rejected'[c] = rejected[c]
  BY ProviderStepRejected
<1>2. request[c] \in Request /\ request[c] # None /\ request[c].pc = "token"
  BY ProviderStepFrame, RequestAssumption DEF SendInv, Between
<1>3. CASE pc'[c] = "idle"
  <2>1. Supplied(c, request[c], result'[c])
    BY <1>3 DEF ProviderStep
  <2>2. /\ \A d \in Callers \ {c} : request'[d] = request[d]
        /\ \/ request'[c] = None
           \/ /\ result'[c] # None /\ request'[c].pc = "exchange" /\ request'[c].token = result'[c]
              /\ request'[c].attempt = request[c].attempt
              /\ request'[c].replaced = request[c].replaced
    BY <1>2, <2>1, SuppliedMove
  <2>3. request'[c] = None \/ Transmitted(c)
    BY <1>2, <1>3, <2>2 DEF Transmitted
  <2>4. \A d \in Callers \ {c} : Left(d)
    BY <1>1, <2>2 DEF Left
  <2> QED BY <2>3, <2>4 DEF RequestMove
<1>4. CASE pc'[c] # "idle"
  <2>1. request' = request
    BY <1>4 DEF ProviderStep
  <2> QED BY <1>1, <1>4, <2>1 DEF RequestMove, Left
<1> QED BY <1>3, <1>4

\* Every step of the engine does to every request one of these things.
LEMMA RequestMoves ==
    ASSUME StructInv, SendInv, [EngineNext]_allVars
    PROVE  \A d \in Callers : RequestMove(d)
<1> USE DEF vars, engineVars, callerVars
<1>1. ASSUME UNCHANGED <<rejected, request>> PROVE \A d \in Callers : RequestMove(d)
  BY <1>1 DEF RequestMove, Left
<1>2. CASE UNCHANGED allVars
  BY <1>1, <1>2 DEF allVars
<1>3. ASSUME NEW c \in Callers, NEW req \in Requests, Do(c, req)
      PROVE  \A d \in Callers : RequestMove(d)
  <2> DEFINE r == [pc |-> "token", req |-> req, attempt |-> 1, token |-> None,
                   replaced |-> None, sent |-> 0]
  <2>1. r \in Request /\ r.attempt = 1
    BY DEF Request, Bearers
  <2>2. GetAccessToken(c, r, None)
    BY <1>3, Zenon DEF Do
  <2> HIDE DEF r
  <2> QED BY <2>1, <2>2, GetAccessTokenMove
<1>4. ASSUME NEW c \in Callers, ProviderStep(c)
      PROVE  \A d \in Callers : RequestMove(d)
  BY <1>4, ProviderStepMove
<1>5. ASSUME NEW c \in Callers, End(c), UNCHANGED vars
      PROVE  \A d \in Callers : RequestMove(d)
  BY <1>5 DEF End, SendInv, RequestMove, Left
<1>6. ASSUME NEW c \in Callers, Finished(c)
      PROVE  \A d \in Callers : RequestMove(d)
  BY <1>5, <1>6 DEF Finished
<1>7. ASSUME NEW c \in Callers, Unauthorized(c)
      PROVE  \A d \in Callers : RequestMove(d)
  <2> DEFINE r == [request[c] EXCEPT !.attempt = @ + 1, !.replaced = request[c].token]
  <2>1. request[c] # None /\ request[c].pc = "exchange" /\ request[c] \in Sent
    BY <1>7 DEF Unauthorized, SendInv
  <2>2. \/ End(c) /\ UNCHANGED vars
        \/ /\ request[c].attempt # maximumAttempts(request[c].req)
           /\ GetAccessToken(c, r, request[c].token)
    BY <1>7, Zenon DEF Unauthorized
  <2>3. CASE /\ request[c].attempt # maximumAttempts(request[c].req)
             /\ GetAccessToken(c, r, request[c].token)
    <3> DEFINE old == request[c]
    <3>1. /\ old \in Request /\ old.attempt <= maximumAttempts(old.req)
          /\ old.req \in Requests /\ old.attempt \in 1 .. 2 /\ old.token \in Bearers
      BY <2>1 DEF Sent, Request
    <3>2. old.attempt + 1 \in 1 .. 2
      BY <2>3, <3>1, MaximumAttemptsBound
    <3>3. r \in Request /\ r.replaced = request[c].token
      BY <3>1, <3>2 DEF Request
    <3> HIDE DEF r
    <3> QED BY <2>1, <2>3, <3>3, GetAccessTokenMove
  <2> QED BY <1>5, <2>2, <2>3
<1>8. ASSUME NEW c \in Callers, CancelRequest(c)
      PROVE  \A d \in Callers : RequestMove(d)
  BY <1>1, <1>8 DEF CancelRequest, Cancel
<1>9. ASSUME NEW k \in CallIds, RefreshStep(k) /\ UNCHANGED engineVars
      PROVE  \A d \in Callers : RequestMove(d)
  <2>1. rejected' = rejected
    BY <1>9 DEF RefreshStep, RefreshSucceeds, RefreshFails, RefreshResponseLost, Reload,
                CommitRefreshed, CommitSuperseded, CommitLoggedOut, CommitFails, FinishRefresh
  <2> QED BY <1>1, <1>9, <2>1
<1>10. ASSUME NEW t \in Tokens, Lapse(t) \/ (Login(t) /\ UNCHANGED engineVars)
       PROVE  \A d \in Callers : RequestMove(d)
  BY <1>1, <1>10 DEF Lapse, Login
<1>11. ASSUME (Logout \/ OtherTransact) /\ UNCHANGED engineVars
       PROVE  \A d \in Callers : RequestMove(d)
  BY <1>1, <1>11 DEF Logout, OtherTransact
<1>12. ASSUME NEW p \in Providers, ProcessCrash(p)
       PROVE  \A d \in Callers : RequestMove(d)
  BY <1>12 DEF ProcessCrash, Crash, RequestMove, Left
<1> QED
  BY <1>2, <1>3, <1>4, <1>6, <1>7, <1>8, <1>9, <1>10, <1>11, <1>12, Zenon DEF EngineNext

\* What else of the engine's own state a step may change.
LEMMA EngineFrame ==
    ASSUME ctx \in SUBSET Callers, [EngineNext]_allVars
    PROVE  /\ source' = source /\ ctx' \in SUBSET Callers
           /\ expired' = expired \/ \E t \in Tokens : Lapse(t)
           /\ \/ refused' = refused
              \/ \E c \in Callers : /\ request[c] # None
                                    /\ refused' = refused \cup ({request[c].token} \cap Tokens)
<1> USE DEF engineVars
<1>1. CASE UNCHANGED engineVars
  BY <1>1
<1>2. CASE \E c \in Callers, req \in Requests : Do(c, req)
  BY <1>2 DEF Do
<1>3. ASSUME NEW c \in Callers, ProviderStep(c)
      PROVE  UNCHANGED <<source, expired, refused>> /\ ctx' \in SUBSET Callers
  BY <1>3 DEF ProviderStep
<1>4. ASSUME NEW c \in Callers, Finished(c) \/ CancelRequest(c)
      PROVE  UNCHANGED <<source, expired, refused>> /\ ctx' \in SUBSET Callers
  BY <1>4 DEF Finished, End, CancelRequest
<1>5. ASSUME NEW c \in Callers, Unauthorized(c)
      PROVE  /\ UNCHANGED <<source, expired>> /\ ctx' \in SUBSET Callers /\ request[c] # None
             /\ refused' = refused \cup ({request[c].token} \cap Tokens)
  <2>1. ctx' = ctx \ {c} \/ ctx' = {d \in ctx : request'[d] # None}
    BY <1>5, Zenon DEF Unauthorized, End
  <2> QED BY <1>5, <2>1 DEF Unauthorized
<1>6. ASSUME NEW t \in Tokens, Lapse(t) PROVE UNCHANGED <<source, ctx, refused>>
  BY <1>6 DEF Lapse
<1>7. ASSUME NEW p \in Providers, ProcessCrash(p)
      PROVE  UNCHANGED <<source, expired, refused>> /\ ctx' \in SUBSET Callers
  BY <1>7 DEF ProcessCrash
<1>8. \/ UNCHANGED engineVars
      \/ \E c \in Callers, req \in Requests : Do(c, req)
      \/ \E c \in Callers : ProviderStep(c) \/ Finished(c) \/ Unauthorized(c) \/ CancelRequest(c)
      \/ \E t \in Tokens : Lapse(t)
      \/ \E p \in Providers : ProcessCrash(p)
  BY Zenon DEF EngineNext, allVars
<1> QED BY <1>1, <1>2, <1>3, <1>4, <1>5, <1>6, <1>7, <1>8

\* Requests carry issued tokens, and only issued ones expire or are refused.
LEMMA TokenInvStep ==
    ASSUME StructInv, StructInv', StoredInv, StoredInv', SendInv, TokenInv, [EngineNext]_allVars
    PROVE  TokenInv'
<1> USE NoneAssumption
<1>1. issued \subseteq issued'
  <2>1. [Next]_vars
    BY EngineStep
  <2> QED BY <2>1, StepMoves DEF StoredInv, Move
<1>2. /\ source' = source /\ ctx' \in SUBSET Callers
      /\ expired' = expired \/ \E t \in Tokens : Lapse(t)
      /\ \/ refused' = refused
         \/ \E c \in Callers : /\ request[c] # None
                               /\ refused' = refused \cup ({request[c].token} \cap Tokens)
  BY EngineFrame DEF TokenInv
<1>3. \A t \in Tokens : WasStored(t) => t \in issued
  BY DEF StoredInv, Fresh, WasStored, StoredIn
<1>4. expired' \in SUBSET issued'
  <2>1. ASSUME NEW t \in Tokens, Lapse(t) PROVE t \in issued /\ expired' = expired \cup {t}
    <3>1. /\ expired' = expired \cup {t}
          /\ \/ stored # None /\ stored.id = t
             \/ \E c \in Callers : snapshot[c] # None /\ snapshot[c].id = t
      BY <2>1 DEF Lapse
    <3>2. WasStored(t)
      BY <3>1 DEF StoredInv, Kept, WasStored, StoredIn
    <3> QED BY <1>3, <3>1, <3>2
  <2> QED BY <1>1, <1>2, <2>1 DEF TokenInv
<1>5. refused' \in SUBSET issued'
  BY <1>1, <1>2 DEF TokenInv
<1>6. ASSUME NEW c \in Callers, request'[c] # None
      PROVE  /\ request'[c].token \in Tokens => request'[c].token \in issued'
             /\ request'[c].pc = "exchange" => request'[c].token # None
  <2>1. RequestMove(c)
    BY RequestMoves
  <2>2. CASE Left(c)
    BY <1>1, <1>6, <2>2 DEF Left, TokenInv
  <2>3. CASE Asked(c)
    BY <2>3 DEF Asked
  <2>4. CASE Transmitted(c)
    <3>1. result'[c] \in Tokens => result'[c] \in issued'
      BY DEF StoredInv, Kept, Fresh, WasStored, StoredIn
    <3> QED BY <2>4, <3>1 DEF Transmitted
  <2> QED BY <1>6, <2>1, <2>2, <2>3, <2>4 DEF RequestMove
<1> QED BY <1>2, <1>4, <1>5, <1>6 DEF TokenInv

\* The invariant holds of the engine.
THEOREM TokenInvariant == EngineSpec => []TokenInv
<1>1. EngineInit => TokenInv
  BY DEF EngineInit, TokenInv
<1>2. StructInv /\ StructInv' /\ StoredInv /\ StoredInv' /\ SendInv /\ TokenInv
          /\ [EngineNext]_allVars => TokenInv'
  BY TokenInvStep
<1> QED
  BY <1>1, <1>2, EngineImplementsProvider, StructInvariant, StoredInvariant, SendInvariant, PTL
     DEF EngineSpec

\* The engine's state has its type: among others, the API refuses and the clock
\* overtakes only generations that the auth server has issued.
THEOREM EngineTypeCorrect == EngineSpec => []EngineTypeOK
<1>1. StructInv /\ SendInv /\ TokenInv => EngineTypeOK
  <2> SUFFICES ASSUME StructInv, SendInv, TokenInv PROVE EngineTypeOK
    OBVIOUS
  <2>1. \A c \in Callers : request[c] \in Request \cup {None}
    BY DEF SendInv, Between, Sent
  <2>2. request \in [Callers -> Request \cup {None}]
    BY <2>1 DEF SendInv
  <2> QED BY <2>2 DEF EngineTypeOK, StructInv, TokenInv
<1> QED
  BY <1>1, EngineImplementsProvider, StructInvariant, SendInvariant, TokenInvariant, PTL

-----------------------------------------------------------------------------
\* token() never answers with the generation the caller has rejected: not from
\* storage, not from a refresh of its own, not from one it joined.
LEMMA AnotherToken ==
    ASSUME StructInv, Newest, NEW c \in Callers, rejected[c] # None,
           ProviderStep(c), pc'[c] = "idle"
    PROVE  result'[c] # rejected[c]
<1> USE DEF StructInv, TypeOK
<1>1. CASE LockDecision(c) \/ CheckInflight(c) \/ Load(c) \/ DecideRefresh(c, Due(c))
  BY <1>1 DEF LockDecision, CheckInflight, Load, DecideRefresh, Join, Publish
<1>2. CASE LockCanceled(c) \/ LoadFails(c) \/ WaitCanceled(c)
  BY <1>2 DEF LockCanceled, LoadFails, WaitCanceled, Return
<1>3. CASE DecideFromStorage(c, Due(c))
  BY <1>3 DEF DecideFromStorage, AnswerFromStorage, Return
<1>4. CASE WaitDone(c)
  BY <1>4 DEF WaitDone, Return, Newest
<1> QED BY <1>1, <1>2, <1>3, <1>4, Zenon DEF ProviderStep

\* A replay waits for, and carries, another token.
LEMMA ReplayInvStep ==
    ASSUME StructInv, SendInv, Newest, TokenInv, ReplayInv, [EngineNext]_allVars
    PROVE  ReplayInv'
<1>1. source' = source
  BY EngineFrame DEF TokenInv
<1> SUFFICES ASSUME NEW c \in Callers, request'[c] # None, request'[c].attempt = 2,
                    source[ProviderOf[c]] = "managed"
             PROVE  /\ request'[c].pc = "token" =>
                          rejected'[c] = request'[c].replaced /\ rejected'[c] # None
                    /\ request'[c].pc = "exchange" => request'[c].token # request'[c].replaced
  BY <1>1 DEF ReplayInv
<1>2. RequestMove(c)
  BY RequestMoves
<1>3. CASE Left(c)
  BY <1>3 DEF Left, ReplayInv
<1>4. CASE Asked(c)
  BY <1>4 DEF Asked, TokenInv
<1>5. CASE Transmitted(c)
  BY <1>5, AnotherToken DEF Transmitted, ReplayInv
<1> QED BY <1>2, <1>3, <1>4, <1>5 DEF RequestMove

\* A read that is replayed after a 401 carries a token of another generation than
\* the refused one, whoever has refreshed meanwhile, in this process or another.
THEOREM ReplayWithAnotherTokenHolds ==
    ASSUME ~LegacyFile PROVE EngineSpec => []ReplayWithAnotherToken
<1>1. EngineInit => ReplayInv
  BY DEF EngineInit, ReplayInv
<1>2. StructInv /\ SendInv /\ RotationInv /\ TokenInv /\ ReplayInv
          /\ [EngineNext]_allVars => ReplayInv'
  BY ReplayInvStep DEF RotationInv
<1>3. ReplayInv => ReplayWithAnotherToken
  BY DEF ReplayInv, ReplayWithAnotherToken
<1> QED
  BY <1>1, <1>2, <1>3, EngineImplementsProvider, StructInvariant, SendInvariant,
     RotationInvariant, TokenInvariant, PTL DEF EngineSpec

\* No interleaving of requests, 401s and crashes makes a Client redeem a refresh
\* token twice.
THEOREM EngineNoSecondRotation == ASSUME ~LegacyFile PROVE EngineSpec => []NoSecondRotation
BY EngineImplementsProvider, NoSecondRotationHolds, PTL

\* No request is sent with a token that was not stored first.
THEOREM EngineReturnedWasStored == EngineSpec => []ReturnedWasStored
BY EngineImplementsProvider, ReturnedWasStoredHolds, PTL
=============================================================================

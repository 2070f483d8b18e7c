--------------------------- MODULE RequestEngine ---------------------------
(***************************************************************************)
(* core.do (transport.go): every authenticated request of a Client obtains *)
(* a bearer token, is sent, and after a 401 is sent once more with a token *)
(* of another generation if it is a safe read.  A Client takes its tokens  *)
(* from one of three sources (NewClient); the managed one is the           *)
(* tokenProvider of TokenProvider.tla, whose callers are the requests      *)
(* here: a step of this module that touches the provider is a step of that *)
(* module.                                                                 *)
(***************************************************************************)
EXTENDS TokenProvider

CONSTANTS
    Sources,      \* the token sources a Client may be configured with
    OptionToken,  \* the bearer token of a source that Options supplies
    MaxLapses     \* bound: how many generations may live until their refresh time

ASSUME SourcesAssumption == Sources \subseteq {"managed", "static", "custom"}
ASSUME MaxLapsesAssumption == MaxLapses \in Nat
ASSUME OptionTokenAssumption == OptionToken \notin Tokens \cup {None}

VARIABLES
    source,     \* core.getAccessToken of each Client
    request,    \* the request each caller is executing
    ctx,        \* callers whose request context is canceled
    expired,    \* generations for which the clock has passed expires_at minus the skew
    refused     \* generations the API has answered with a 401

engineVars == <<source, request, ctx, expired, refused>>
allVars == <<vars, engineVars>>

Bearers == Tokens \cup {OptionToken, None}

\* The policy of an apiRequest, and the resources' requests: reads may be
\* replayed, mutations may not.  Whatever a resource checks before and decodes
\* after its one request changes nothing.
Read == [method |-> "GET", retryOnUnauthorized |-> TRUE]
Mutation == [method |-> "POST", retryOnUnauthorized |-> FALSE]

ListPaymentMethods == Read
ListShippingAddresses == Read
RetrieveUserInfo == Read
ListSpendRequests == Read
RetrieveSpendRequest == Read
MutateSpendRequest == Mutation
CreateReport == Mutation
SignWebBotAuth == Mutation

Requests == {ListPaymentMethods, ListShippingAddresses, RetrieveUserInfo, ListSpendRequests,
             RetrieveSpendRequest, MutateSpendRequest, CreateReport, SignWebBotAuth}

\* req is executing its attempt-th attempt with this token; replaced is the
\* token whose 401 led to it, and sent counts what has left for the server.
Request == [pc : {"token", "exchange"}, req : Requests, attempt : 1 .. 2,
            token : Bearers, replaced : Bearers, sent : 0 .. 2]

ASSUME RequestAssumption == None \notin Request

EngineTypeOK ==
    /\ TypeOK
    /\ source \in [Providers -> Sources]
    /\ request \in [Callers -> Request \cup {None}]
    /\ ctx \in SUBSET Callers
    /\ expired \in SUBSET issued
    /\ refused \in SUBSET issued

EngineInit ==
    /\ Init
    /\ source \in [Providers -> Sources]
    /\ request = [c \in Callers |-> None]
    /\ ctx = {}
    /\ expired = {}
    /\ refused = {}

-----------------------------------------------------------------------------
\* maximumAttempts, with mutations replayed like reads.
MaximumAttemptsAlways(req) == 2

\* maximumAttempts, with one attempt too many.
MaximumAttemptsMore(req) == IF req.retryOnUnauthorized /\ req.method = "GET" THEN 3 ELSE 1

maximumAttempts(req) == IF req.retryOnUnauthorized /\ req.method = "GET" THEN 2 ELSE 1

\* Request r of c once getAccessToken has returned t: an error, or a context
\* that is canceled by now, ends it; otherwise doAttempt sends it.
Supplied(c, r, t) ==
    request' = [request EXCEPT ![c] =
        IF t = None \/ c \in ctx THEN None
        ELSE [r EXCEPT !.pc = "exchange", !.token = t, !.sent = @ + 1]]

\* The request is over; its context goes with it.
End(c) ==
    /\ request' = [request EXCEPT ![c] = None]
    /\ ctx' = ctx \ {c}

\* getAccessToken(ctx, {ForceRefresh, RejectedToken: old}) for request r.
GetAccessToken(c, r, old) ==
    \/ /\ source[ProviderOf[c]] = "managed"
       /\ Token(c, old)
       /\ request' = [request EXCEPT ![c] = [r EXCEPT !.pc = "token", !.token = None]]
    \/ /\ source[ProviderOf[c]] = "static"
       /\ Supplied(c, r, OptionToken)
       /\ UNCHANGED vars
    \/ /\ source[ProviderOf[c]] = "custom"
       /\ \E t \in {OptionToken, None} : Supplied(c, r, t)
       /\ UNCHANGED vars

\* A resource method starts a request.
Do(c, req) ==
    /\ request[c] = None
    /\ GetAccessToken(c, [pc |-> "token", req |-> req, attempt |-> 1, token |-> None,
                          replaced |-> None, sent |-> 0], None)
    /\ UNCHANGED <<source, ctx, expired, refused>>

\* The provider's clock check, by the clock.
Due(c) == snapshot[c] # None /\ snapshot[c].id \in expired

\* The provider works for the request; when token() returns, do goes on.
ProviderStep(c) ==
    /\ \/ LockDecision(c) \/ LockCanceled(c) \/ CheckInflight(c) \/ Load(c) \/ LoadFails(c)
       \/ DecideFromStorage(c, Due(c)) \/ DecideRefresh(c, Due(c))
       \/ WaitDone(c) \/ WaitCanceled(c)
    /\ IF pc'[c] = "idle" THEN Supplied(c, request[c], result'[c]) ELSE UNCHANGED request
    /\ ctx' = {d \in ctx : request'[d] # None}
    /\ UNCHANGED <<source, expired, refused>>

\* Any answer but a 401, or none at all: a transport error, a redirect, a
\* response too large, a canceled context.
Finished(c) ==
    /\ request[c] # None
    /\ request[c].pc = "exchange"
    /\ End(c)
    /\ UNCHANGED <<vars, source, expired, refused>>

\* Unauthorized, with the refresh forced for whatever generation is stored.
UnauthorizedPlain(c) ==
    /\ request[c] # None
    /\ request[c].pc = "exchange"
    /\ refused' = refused \cup ({request[c].token} \cap Tokens)
    /\ IF \/ request[c].attempt = maximumAttempts(request[c].req)
          \/ source[ProviderOf[c]] = "managed" /\ c \in ctx
       THEN End(c) /\ UNCHANGED vars
       ELSE /\ GetAccessToken(c, [request[c] EXCEPT !.attempt = @ + 1,
                                                    !.replaced = request[c].token], None)
            /\ ctx' = {d \in ctx : request'[d] # None}
    /\ UNCHANGED <<source, expired>>

\* A 401 for the token of this attempt.  The last attempt returns it; else do
\* asks for a token again (the provider refuses a canceled context at once).
Unauthorized(c) ==
    /\ request[c] # None
    /\ request[c].pc = "exchange"
    /\ refused' = refused \cup ({request[c].token} \cap Tokens)
    /\ IF \/ request[c].attempt = maximumAttempts(request[c].req)
          \/ source[ProviderOf[c]] = "managed" /\ c \in ctx
       THEN End(c) /\ UNCHANGED vars
       ELSE /\ GetAccessToken(c, [request[c] EXCEPT !.attempt = @ + 1,
                                                    !.replaced = request[c].token],
                              request[c].token)
            /\ ctx' = {d \in ctx : request'[d] # None}
    /\ UNCHANGED <<source, expired>>

-----------------------------------------------------------------------------
\* The caller's context is canceled, in whatever state its request is.
CancelRequest(c) ==
    /\ request[c] # None
    /\ c \notin ctx
    /\ ctx' = ctx \cup {c}
    /\ IF pc[c] # "idle" THEN Cancel(c) ELSE UNCHANGED vars
    /\ UNCHANGED <<source, request, expired, refused>>

\* The clock passes the refresh time of a generation somebody may still judge.
Lapse(t) ==
    /\ t \notin expired
    /\ Cardinality(expired) < MaxLapses
    /\ \E auth \in {stored} \cup {snapshot[c] : c \in Callers} : auth # None /\ auth.id = t
    /\ expired' = expired \cup {t}
    /\ UNCHANGED <<vars, source, request, ctx, refused>>

\* The process dies: its requests die with it.
ProcessCrash(p) ==
    /\ Crash(p)
    /\ request' = [c \in Callers |-> IF ProviderOf[c] = p THEN None ELSE request[c]]
    /\ ctx' = {c \in ctx : ProviderOf[c] # p}
    /\ UNCHANGED <<source, expired, refused>>

EngineNext ==
    \/ \E c \in Callers, req \in Requests : Do(c, req)
    \/ \E c \in Callers : ProviderStep(c) \/ Finished(c) \/ Unauthorized(c) \/ CancelRequest(c)
    \/ \E k \in CallIds : RefreshStep(k) /\ UNCHANGED engineVars
    \/ \E t \in Tokens : Login(t) /\ UNCHANGED engineVars
    \/ \E t \in Tokens : Lapse(t)
    \/ (Logout \/ OtherTransact) /\ UNCHANGED engineVars
    \/ \E p \in Providers : ProcessCrash(p)

EngineSpec == EngineInit /\ [][EngineNext]_allVars

-----------------------------------------------------------------------------
\* A mutation reaches the wire at most once and a read at most twice, however
\* tokens are refused and refreshed (retryOnUnauthorized).
SentOnce ==
    \A c \in Callers : request[c] # None =>
        request[c].sent <= (IF request[c].req.method = "POST" THEN 1 ELSE 2)

\* The replay of a read carries a token of another generation than the one the
\* API refused, whoever rotated it: a forced refresh that joined shared work,
\* that found storage already rotated or that lost to another process never
\* hands the refused token back.
ReplayWithAnotherToken ==
    \A c \in Callers :
        /\ request[c] # None
        /\ request[c].pc = "exchange"
        /\ request[c].attempt = 2
        /\ source[ProviderOf[c]] = "managed"
        => request[c].token # request[c].replaced

\* No refresh token is spent without a reason: the server accepts a rotation of
\* a generation only after the API refused it or its clock ran out, so a
\* delayed 401 for an older generation never rotates a good one.
RotationJustified ==
    \A t \in Tokens : redeemed[t] # {} => t \in refused \cup expired
=============================================================================

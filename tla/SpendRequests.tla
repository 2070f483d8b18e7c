--------------------------- MODULE SpendRequests ---------------------------
(***************************************************************************)
(* SpendRequestsResource (spend_requests.go) over the API: what its        *)
(* operations do to one spend request.  The resource keeps no state; an    *)
(* operation is one authenticated request that is sent at most once        *)
(* (RequestEngine.tla), so that an error leaves open whether the server    *)
(* executed it.                                                            *)
(***************************************************************************)
EXTENDS Naturals

VARIABLE spend      \* the status of the request at the server, "none" before it exists

SpendRequestStatus == {"created", "pending_approval", "expired", "approved", "denied",
                       "succeeded", "failed", "canceled"}

\* A spend request that can still be approved or paid with.
Open == {"created", "pending_approval", "approved"}

\* ok: executed and decoded.  lost: executed, but no response, a malformed one
\* or one that fails validation.  refused: an invalid argument, no token, not
\* delivered, or an API error.
Outcomes == {"ok", "lost", "refused"}

SpendTypeOK == spend \in SpendRequestStatus \cup {"none"}

SpendInit == spend = "none"

-----------------------------------------------------------------------------
\* One mutation: the server executes it where it applies, or not at all.
mutateSpendRequest(o, applies, new) ==
    /\ o # "refused" => applies
    /\ spend' = IF o = "refused" THEN spend ELSE new

\* Create, /create_delegated when approve is set.
Create(o, requestApproval, approve) ==
    mutateSpendRequest(o, spend = "none",
        IF approve THEN "approved" ELSE IF requestApproval THEN "pending_approval" ELSE "created")

Update(o) == mutateSpendRequest(o, spend \in {"created", "pending_approval"}, spend)

Cancel(o) == mutateSpendRequest(o, spend \in Open, "canceled")

RequestApproval(o) == mutateSpendRequest(o, spend = "created", "pending_approval")

\* Retrieve returns the status there is; ErrNotFound is refused.
Retrieve(o) == o = "ok" => spend # "none"

-----------------------------------------------------------------------------
\* The server: the user decides, time passes, the credential is used.
Decides ==
    /\ \/ spend = "pending_approval" /\ spend' \in {"approved", "denied", "expired"}
       \/ spend = "created" /\ spend' = "expired"
       \/ spend = "approved" /\ spend' \in {"succeeded", "failed", "expired"}

\* Another program of the account works on the same request.
Others ==
    /\ spend # "none"
    /\ \E o \in {"ok", "lost"} : Update(o) \/ Cancel(o) \/ RequestApproval(o)
=============================================================================

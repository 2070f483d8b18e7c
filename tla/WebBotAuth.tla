----------------------------- MODULE WebBotAuth -----------------------------
(***************************************************************************)
(* WebBotAuthResource.SignURL (web_bot_auth.go): signature blocks cached   *)
(* per authority until shortly before they expire, and fetched once for    *)
(* all callers that wait.  The last waiter to leave cancels the fetch.     *)
(* Each call object has at most one block, so a block is named by its call.*)
(***************************************************************************)
EXTENDS Integers, FiniteSets

CONSTANTS
    Callers,      \* goroutines that call SignURL
    Authorities,  \* canonical hostnames
    Calls,        \* webBotAuthCall objects
    Buffer,       \* webBotAuthExpiryBuffer
    MaxTime,      \* bound on the clock
    MaxDelay,     \* longest time from reading the clock to holding mu
    None

ASSUME BufferAssumption == Buffer \in Nat /\ MaxTime \in Nat /\ MaxDelay \in 0 .. Buffer
ASSUME CallersAssumption == IsFiniteSet(Callers)
ASSUME NoneAssumption == None \notin Calls \cup Authorities

VARIABLES
    now,        \* the clock
    caller,     \* each caller's SignURL: pc and locals
    canceled,   \* callers whose context is canceled
    cache,      \* the block cached for each authority
    inflight,   \* the call in flight for each authority
    call        \* the webBotAuthCalls and the goroutines that run them

vars == <<now, caller, canceled, cache, inflight, call>>

Caller == [pc : {"idle", "sampled", "wait"}, authority : Authorities \cup {None},
           at : 0 .. MaxTime, call : Calls \cup {None}, result : Calls \cup {None}]
Call == [phase : {"unused", "fetch", "fetched", "done"}, authority : Authorities \cup {None},
         waiters : Nat, canceled : BOOLEAN, ok : BOOLEAN, expiresAt : 0 .. MaxTime + 1]

TypeOK ==
    /\ now \in 0 .. MaxTime
    /\ caller \in [Callers -> Caller]
    /\ canceled \in SUBSET Callers
    /\ cache \in [Authorities -> Calls \cup {None}]
    /\ inflight \in [Authorities -> Calls \cup {None}]
    /\ call \in [Calls -> Call]

Idle == [pc |-> "idle", authority |-> None, at |-> 0, call |-> None, result |-> None]
Unused == [phase |-> "unused", authority |-> None, waiters |-> 0, canceled |-> FALSE,
           ok |-> FALSE, expiresAt |-> 0]

Init ==
    /\ now = 0
    /\ caller = [c \in Callers |-> Idle]
    /\ canceled = {}
    /\ cache = [a \in Authorities |-> None]
    /\ inflight = [a \in Authorities |-> None]
    /\ call = [k \in Calls |-> Unused]

-----------------------------------------------------------------------------
\* Fresh, without the buffer.
FreshToTheEnd(k, t) == t < call[k].expiresAt

\* May the block of k be served from the cache at time t?
Fresh(k, t) == t < call[k].expiresAt - Buffer

\* SignURL returns the block of k, or an error.
Return(c, k) ==
    /\ caller' = [caller EXCEPT ![c] = [Idle EXCEPT !.result = k]]
    /\ canceled' = canceled \ {c}

\* SignURL up to reading the clock.
SignURL(c, a) ==
    /\ caller[c].pc = "idle"
    /\ caller' = [caller EXCEPT ![c] = [Idle EXCEPT !.pc = "sampled", !.authority = a, !.at = now]]
    /\ UNCHANGED <<now, canceled, cache, inflight, call>>

\* The rest of SignURL runs under mu.
Hit(c) == LET k == cache[caller[c].authority] IN k # None /\ Fresh(k, caller[c].at)

ServeCached(c) ==
    /\ caller[c].pc = "sampled"
    /\ Hit(c)
    /\ Return(c, cache[caller[c].authority])
    /\ UNCHANGED <<now, cache, inflight, call>>

\* A stale entry goes; the caller waits for k.
Await(c, k) ==
    /\ cache' = [cache EXCEPT ![caller[c].authority] = None]
    /\ caller' = [caller EXCEPT ![c].pc = "wait", ![c].call = k]

\* Join, with the waiter not counted.
JoinUncounted(c) ==
    LET k == inflight[caller[c].authority] IN
    /\ caller[c].pc = "sampled"
    /\ ~Hit(c)
    /\ k # None
    /\ Await(c, k)
    /\ UNCHANGED <<now, canceled, inflight, call>>

Join(c) ==
    LET k == inflight[caller[c].authority] IN
    /\ caller[c].pc = "sampled"
    /\ ~Hit(c)
    /\ k # None
    /\ Await(c, k)
    /\ call' = [call EXCEPT ![k].waiters = @ + 1]
    /\ UNCHANGED <<now, canceled, inflight>>

\* A new call object for a may take the name of one that nobody refers to any more.
Free(k, a) ==
    /\ call[k].phase \in {"unused", "done"}
    /\ \A b \in Authorities \ {a} : cache[b] # k
    /\ \A c \in Callers : caller[c].call # k /\ caller[c].result # k

StartCall(c, k) ==
    LET a == caller[c].authority IN
    /\ caller[c].pc = "sampled"
    /\ ~Hit(c)
    /\ inflight[a] = None
    /\ Free(k, a)
    /\ Await(c, k)
    /\ call' = [call EXCEPT ![k] = [Unused EXCEPT !.phase = "fetch", !.authority = a, !.waiters = 1]]
    /\ inflight' = [inflight EXCEPT ![a] = k]
    /\ UNCHANGED <<now, canceled>>

-----------------------------------------------------------------------------
(* waitForWebBotAuth: whichever of the two events the select picks *)

\* releaseWebBotWaiter counts the waiter out.
Released(waiters) == IF waiters > 0 THEN waiters - 1 ELSE waiters

\* WaitDone, woken by a success only.
WaitDoneSuccess(c) ==
    LET k == caller[c].call IN
    /\ caller[c].pc = "wait"
    /\ call[k].phase = "done"
    /\ call[k].ok
    /\ call' = [call EXCEPT ![k].waiters = Released(@)]
    /\ Return(c, k)
    /\ UNCHANGED <<now, cache, inflight>>

WaitDone(c) ==
    LET k == caller[c].call IN
    /\ caller[c].pc = "wait"
    /\ call[k].phase = "done"
    /\ call' = [call EXCEPT ![k].waiters = Released(@)]
    /\ Return(c, IF call[k].ok THEN k ELSE None)
    /\ UNCHANGED <<now, cache, inflight>>

\* Abandons, for every waiter that leaves.
AbandonsAlways(c, k) == call[k].phase # "done"

\* Does the waiter leave k with nobody to wait for it?
Abandons(c, k) == Released(call[k].waiters) = 0 /\ call[k].phase # "done"

\* WaitCanceled, with the abandoned call left running.
WaitCanceledRunsOn(c) ==
    LET k == caller[c].call
        a == call[k].authority IN
    /\ caller[c].pc = "wait"
    /\ c \in canceled
    /\ call' = [call EXCEPT ![k].waiters = Released(@)]
    /\ inflight' = IF Abandons(c, k) /\ inflight[a] = k
                   THEN [inflight EXCEPT ![a] = None] ELSE inflight
    /\ Return(c, None)
    /\ UNCHANGED <<now, cache>>

WaitCanceled(c) ==
    LET k == caller[c].call
        a == call[k].authority IN
    /\ caller[c].pc = "wait"
    /\ c \in canceled
    /\ call' = [call EXCEPT ![k].waiters = Released(@), ![k].canceled = @ \/ Abandons(c, k)]
    /\ inflight' = IF Abandons(c, k) /\ inflight[a] = k
                   THEN [inflight EXCEPT ![a] = None] ELSE inflight
    /\ Return(c, None)
    /\ UNCHANGED <<now, cache>>

-----------------------------------------------------------------------------
(* The goroutine of a call *)

\* A valid block for the authority that has not expired yet.
FetchSucceeds(k, e) ==
    /\ call[k].phase = "fetch"
    /\ ~call[k].canceled
    /\ e > now
    /\ call' = [call EXCEPT ![k].phase = "fetched", ![k].ok = TRUE, ![k].expiresAt = e]
    /\ UNCHANGED <<now, caller, canceled, cache, inflight>>

FetchFails(k) ==
    /\ call[k].phase = "fetch"
    /\ call' = [call EXCEPT ![k].phase = "fetched"]
    /\ UNCHANGED <<now, caller, canceled, cache, inflight>>

\* Current, for abandoned calls too.
CurrentAlways(k) == TRUE

\* Is k still the call in flight for its authority?
Current(k) == inflight[call[k].authority] = k

signWebBotAuth(k) ==
    LET a == call[k].authority IN
    /\ call[k].phase = "fetched"
    /\ call' = [call EXCEPT ![k].phase = "done"]
    /\ inflight' = IF Current(k) THEN [inflight EXCEPT ![a] = None] ELSE inflight
    /\ cache' = IF Current(k) /\ call[k].ok /\ Fresh(k, now)
                THEN [cache EXCEPT ![a] = k] ELSE cache
    /\ UNCHANGED <<now, caller, canceled>>

-----------------------------------------------------------------------------
Cancel(c) ==
    /\ caller[c].pc = "wait"
    /\ c \notin canceled
    /\ canceled' = canceled \cup {c}
    /\ UNCHANGED <<now, caller, cache, inflight, call>>

Tick ==
    /\ now < MaxTime
    /\ \A c \in Callers : caller[c].pc = "sampled" => now - caller[c].at < MaxDelay
    /\ now' = now + 1
    /\ UNCHANGED <<caller, canceled, cache, inflight, call>>

Wake(c) == WaitDone(c) \/ WaitCanceled(c)

Next ==
    \/ \E c \in Callers :
          \/ \E a \in Authorities : SignURL(c, a)
          \/ ServeCached(c) \/ Join(c) \/ Wake(c) \/ Cancel(c)
          \/ \E k \in Calls : StartCall(c, k)
    \/ \E k \in Calls :
          \/ \E e \in 1 .. MaxTime + 1 : FetchSucceeds(k, e)
          \/ FetchFails(k) \/ signWebBotAuth(k)
    \/ Tick

Spec == Init /\ [][Next]_vars

\* A goroutine that can run does, and a canceled HTTP request ends.  Nothing
\* bounds a request that is not canceled.
Fairness ==
    /\ \A c \in Callers : WF_vars(Wake(c))
    /\ \A k \in Calls : WF_vars(call[k].canceled /\ FetchFails(k)) /\ WF_vars(signWebBotAuth(k))

FairSpec == Spec /\ Fairness

-----------------------------------------------------------------------------
(* Properties *)

Waiting(k) == {c \in Callers : caller[c].pc = "wait" /\ caller[c].call = k}

\* The waiter count, which decides when shared work is canceled, is exact: it
\* neither leaks a fetch nobody waits for nor drops to zero early.
WaitersExact == \A k \in Calls : call[k].waiters = Cardinality(Waiting(k))

\* One caller's cancellation never reaches another: nobody waits for, or can
\* still join, a call that was canceled.
NobodyWaitsForCanceled ==
    \A k \in Calls : call[k].canceled => Waiting(k) = {} /\ \A a \in Authorities : inflight[a] # k

\* Same-host misses share one fetch: of the fetches under way for an authority
\* all but one have been canceled.
OneLiveFetch ==
    \A j, k \in Calls :
        /\ call[j].phase \in {"fetch", "fetched"} /\ ~call[j].canceled
        /\ call[k].phase \in {"fetch", "fetched"} /\ ~call[k].canceled
        /\ call[j].authority = call[k].authority
        => j = k

\* A cached signature stays until the buffer before its expiry: no late result,
\* failure or cancellation of another call replaces or drops it earlier.
CacheKeptWhileFresh ==
    [][\A a \in Authorities :
          cache[a] # None /\ cache'[a] # cache[a] => ~Fresh(cache[a], now)]_vars

\* The result of a call all its waiters have abandoned is never cached, however
\* late it arrives.
AbandonedNotCached == \A a \in Authorities : cache[a] # None => ~call[cache[a]].canceled

\* A block served from the cache has not expired when it is served, although the
\* clock was read before the mutex was acquired: the buffer covers the delay.
ServedUnexpired ==
    [][\A c \in Callers :
          caller[c].pc = "sampled" /\ caller'[c].pc = "idle"
              => now < call[caller'[c].result].expiresAt]_vars

\* A waiter returns once its context is canceled or its call has completed.
WaiterReturns ==
    \A c \in Callers :
        caller[c].pc = "wait" /\ (c \in canceled \/ call[caller[c].call].phase = "done")
            ~> caller[c].pc = "idle"

\* When the last waiter has left, the fetch and its goroutine end, although no
\* timeout bounds the request: leaving cancels it.
AbandonedWorkEnds ==
    \A k \in Calls :
        call[k].phase \in {"fetch", "fetched"} /\ Waiting(k) = {} ~> call[k].phase = "done"
=============================================================================

------------------------ MODULE TokenProviderProofs ------------------------
(***************************************************************************)
(* Proofs about TokenProvider, for any number of Clients, callers,         *)
(* generations and refreshes.                                              *)
(***************************************************************************)
EXTENDS TokenProvider, TLAPS

(***************************************************************************)
(* The structural invariant: who holds the gate, what a published call     *)
(* looks like, and which calls the waiters refer to.                       *)
(***************************************************************************)
GateShape ==
    \A p \in Providers : decision[p] # None =>
        ProviderOf[decision[p]] = p

InflightShape ==
    \A p \in Providers : inflight[p] # None =>
        calls[inflight[p]].phase \in Running /\ calls[inflight[p]].owner = p

CallShape ==
    \A k \in CallIds :
        /\ calls[k].phase # "unused" => calls[k].owner \in Providers
        /\ calls[k].phase \in Running => calls[k].source \in AuthTokens
        /\ calls[k].phase = "commit" => calls[k].refreshed \in Tokens

WaitShape ==
    \A c \in Callers :
        IF pc[c] = "wait"
        THEN /\ joined[c] \in CallIds
             /\ calls[joined[c]].phase \in Running \cup {"done"}
             /\ calls[joined[c]].owner = ProviderOf[c]
        ELSE joined[c] = None

StructInv ==
    /\ TypeOK
    /\ SingleFlight
    /\ DecisionExclusive
    /\ GateShape
    /\ InflightShape
    /\ CallShape
    /\ WaitShape

\* What a step that only counts waiters leaves alone in the calls.
OnlyWaitersChange ==
    \A j \in CallIds :
        /\ calls'[j].phase = calls[j].phase
        /\ calls'[j].owner = calls[j].owner
        /\ calls'[j].source = calls[j].source
        /\ calls'[j].refreshed = calls[j].refreshed
        /\ calls'[j].out = calls[j].out

\* Joining a call finds one, and changes nothing of it but the waiters.
LEMMA JoinEffect ==
    ASSUME StructInv, NEW c \in Callers, inflight[ProviderOf[c]] # None, Join(c)
    PROVE  /\ inflight[ProviderOf[c]] \in CallIds
           /\ calls' \in [CallIds -> RefreshCall]
           /\ OnlyWaitersChange
<1> DEFINE k == inflight[ProviderOf[c]]
<1>1. ProviderOf[c] \in Providers /\ k \in CallIds
  BY ProviderOfAssumption DEF StructInv, TypeOK
<1>2. calls[k] \in RefreshCall /\ calls' = [calls EXCEPT ![k].waiters = @ + 1]
  BY <1>1 DEF StructInv, TypeOK, Join
<1> HIDE DEF k
<1>3. calls' \in [CallIds -> RefreshCall]
  <2>1. [calls[k] EXCEPT !.waiters = @ + 1] \in RefreshCall
    BY <1>2 DEF RefreshCall
  <2> QED BY <1>1, <1>2, <2>1 DEF StructInv, TypeOK
<1>4. OnlyWaitersChange
  BY <1>1, <1>2 DEF StructInv, TypeOK, RefreshCall, OnlyWaitersChange
<1> QED BY <1>1, <1>3, <1>4 DEF k

\* Token preserves the structural invariant.
LEMMA TokenStruct ==
    ASSUME StructInv, NEW c \in Callers, NEW r \in Tokens \cup {None}, Token(c, r)
    PROVE  StructInv'
<1> USE ProviderOfAssumption, NoneAssumption
<1> USE DEF StructInv, Running, callerVars, providerVars, serverVars, historyVars
<1>1. CASE inflight[ProviderOf[c]] # None
  <2>1. /\ Join(c)
        /\ UNCHANGED <<stored, canceled, decision, serverVars, historyVars>>
        /\ pc[c] = "idle"
        /\ rejected' = [rejected EXCEPT ![c] = r] /\ result' = [result EXCEPT ![c] = None]
    BY <1>1 DEF Token
  <2>2. /\ inflight[ProviderOf[c]] \in CallIds
        /\ calls' \in [CallIds -> RefreshCall]
        /\ OnlyWaitersChange
    BY <1>1, <2>1, JoinEffect
  <2>3. /\ pc' = [pc EXCEPT ![c] = "wait"]
        /\ joined' = [joined EXCEPT ![c] = inflight[ProviderOf[c]]]
        /\ snapshot' = [snapshot EXCEPT ![c] = None]
        /\ UNCHANGED inflight
    BY <2>1 DEF Join
  <2>4. TypeOK'
    BY <2>1, <2>2, <2>3 DEF TypeOK
  <2>5. SingleFlight' /\ CallShape' /\ InflightShape'
    <3>1. SingleFlight' /\ CallShape'
      BY <2>2, <2>3 DEF OnlyWaitersChange, SingleFlight, CallShape
    <3>2. InflightShape'
      BY <2>2, <2>3 DEF TypeOK, OnlyWaitersChange, InflightShape
    <3> QED BY <3>1, <3>2
  <2>8. GateShape'
    BY <2>1 DEF TypeOK, GateShape
  <2>6. DecisionExclusive'
    BY <2>1, <2>2, <2>3 DEF TypeOK, DecisionExclusive
  <2>7. WaitShape'
    BY <2>1, <2>2, <2>3 DEF TypeOK, OnlyWaitersChange, InflightShape, WaitShape
  <2> QED BY <2>4, <2>5, <2>6, <2>7, <2>8
<1>2. CASE inflight[ProviderOf[c]] = None
  <2>1. /\ pc' = [pc EXCEPT ![c] = "gate"]
        /\ rejected' = [rejected EXCEPT ![c] = r] /\ result' = [result EXCEPT ![c] = None]
        /\ pc[c] = "idle"
        /\ UNCHANGED <<stored, canceled, snapshot, joined, inflight, decision, calls, serverVars, historyVars>>
    BY <1>2 DEF Token
  <2>2. TypeOK'
    BY <2>1 DEF TypeOK
  <2>3. SingleFlight' /\ GateShape' /\ InflightShape' /\ CallShape'
    BY <2>1 DEF SingleFlight, GateShape, InflightShape, CallShape
  <2>4. DecisionExclusive' /\ WaitShape'
    BY <2>1 DEF TypeOK, DecisionExclusive, WaitShape
  <2> QED BY <2>2, <2>3, <2>4
<1> QED BY <1>1, <1>2

\* Taking the decision gate preserves the structural invariant.
LEMMA LockDecisionStruct ==
    ASSUME StructInv, NEW c \in Callers, LockDecision(c)
    PROVE  StructInv'
<1> USE ProviderOfAssumption, NoneAssumption
<1> USE DEF StructInv, Running, serverVars, historyVars
<1>1. TypeOK'
  BY DEF TypeOK, LockDecision
<1>2. SingleFlight' /\ InflightShape' /\ CallShape'
  BY DEF LockDecision, SingleFlight, InflightShape, CallShape
<1>3. GateShape' /\ WaitShape'
  BY DEF TypeOK, LockDecision, GateShape, WaitShape
<1>4. DecisionExclusive'
  <2> SUFFICES ASSUME NEW d \in Callers
               PROVE  /\ pc'[d] \in {"check", "load", "decide"} <=> decision'[ProviderOf[d]] = d
                      /\ pc'[d] \in {"load", "decide"} => inflight'[ProviderOf[d]] = None
    BY DEF DecisionExclusive
  <2>1. CASE d = c
    BY <2>1 DEF TypeOK, LockDecision
  <2>2. CASE d # c
    <3>1. pc'[d] = pc[d] /\ inflight' = inflight
      BY <2>2 DEF TypeOK, LockDecision
    <3>2. decision'[ProviderOf[d]] = d <=> decision[ProviderOf[d]] = d
      BY <2>2 DEF TypeOK, LockDecision
    <3> QED BY <3>1, <3>2 DEF DecisionExclusive
  <2> QED BY <2>1, <2>2
<1> QED BY <1>1, <1>2, <1>3, <1>4

\* The second look at inflight preserves the structural invariant.
LEMMA CheckInflightStruct ==
    ASSUME StructInv, NEW c \in Callers, CheckInflight(c)
    PROVE  StructInv'
<1> USE ProviderOfAssumption, NoneAssumption
<1> USE DEF StructInv, Running, callerVars, providerVars, serverVars, historyVars
<1>1. CASE inflight[ProviderOf[c]] # None
  <2>1. /\ Join(c)
        /\ decision' = [decision EXCEPT ![ProviderOf[c]] = None]
        /\ UNCHANGED <<stored, rejected, result, canceled, serverVars, historyVars>>
        /\ pc[c] = "check"
    BY <1>1 DEF CheckInflight, Unlock
  <2>2. /\ inflight[ProviderOf[c]] \in CallIds
        /\ calls' \in [CallIds -> RefreshCall]
        /\ OnlyWaitersChange
    BY <1>1, <2>1, JoinEffect
  <2>3. /\ pc' = [pc EXCEPT ![c] = "wait"]
        /\ joined' = [joined EXCEPT ![c] = inflight[ProviderOf[c]]]
        /\ snapshot' = [snapshot EXCEPT ![c] = None]
        /\ UNCHANGED inflight
    BY <2>1 DEF Join
  <2>4. TypeOK'
    BY <2>1, <2>2, <2>3 DEF TypeOK
  <2>5. SingleFlight' /\ CallShape' /\ InflightShape'
    <3>1. SingleFlight' /\ CallShape'
      BY <2>2, <2>3 DEF OnlyWaitersChange, SingleFlight, CallShape
    <3>2. InflightShape'
      BY <2>2, <2>3 DEF TypeOK, OnlyWaitersChange, InflightShape
    <3> QED BY <3>1, <3>2
  <2>8. GateShape'
    BY <2>1 DEF TypeOK, GateShape
  <2>6. DecisionExclusive'
    BY <2>1, <2>2, <2>3 DEF TypeOK, DecisionExclusive
  <2>7. WaitShape'
    BY <2>1, <2>2, <2>3 DEF TypeOK, OnlyWaitersChange, InflightShape, WaitShape
  <2> QED BY <2>4, <2>5, <2>6, <2>7, <2>8
<1>2. CASE inflight[ProviderOf[c]] = None
  <2>1. /\ pc' = [pc EXCEPT ![c] = "load"]
        /\ pc[c] = "check"
        /\ UNCHANGED <<stored, rejected, result, canceled, snapshot, joined, inflight, decision, calls, serverVars, historyVars>>
    BY <1>2 DEF CheckInflight
  <2>2. TypeOK'
    BY <2>1 DEF TypeOK
  <2>3. SingleFlight' /\ GateShape' /\ InflightShape' /\ CallShape'
    BY <2>1 DEF SingleFlight, GateShape, InflightShape, CallShape
  <2>4. DecisionExclusive' /\ WaitShape'
    BY <1>2, <2>1 DEF TypeOK, DecisionExclusive, WaitShape
  <2> QED BY <2>2, <2>3, <2>4
<1> QED BY <1>1, <1>2

\* Publishing a refresh preserves the structural invariant; its third look at
\* inflight finds nothing.
LEMMA DecideRefreshStruct ==
    ASSUME StructInv, NEW c \in Callers, NEW due \in BOOLEAN, DecideRefresh(c, due)
    PROVE  StructInv'
<1> USE ProviderOfAssumption, NoneAssumption
<1> USE DEF StructInv, Running, callerVars, providerVars, serverVars, historyVars
<1>1. pc[c] = "decide" /\ inflight[ProviderOf[c]] = None /\ ProviderOf[c] \in Providers
  BY DEF DecideRefresh, DecisionExclusive
<1>2. PICK k \in CallIds : calls[k].phase = "unused" /\ Publish(c, k)
  BY <1>1 DEF DecideRefresh
<1>3. /\ snapshot[c] \in AuthTokens
      /\ decision' = [decision EXCEPT ![ProviderOf[c]] = None]
      /\ UNCHANGED <<stored, rejected, result, canceled, serverVars, historyVars>>
  BY <1>1 DEF DecideRefresh, Unlock, TypeOK
<1>4. /\ inflight' = [inflight EXCEPT ![ProviderOf[c]] = k]
      /\ joined' = [joined EXCEPT ![c] = k]
      /\ pc' = [pc EXCEPT ![c] = "wait"]
      /\ snapshot' = [snapshot EXCEPT ![c] = None]
  BY <1>2 DEF Publish
<1> DEFINE new == [phase |-> "remote", owner |-> ProviderOf[c], source |-> snapshot[c],
                   refreshed |-> None, out |-> None, waiters |-> 1]
<1>5. /\ calls' = [calls EXCEPT ![k] = new]
      /\ new \in RefreshCall
      /\ new.phase = "remote" /\ new.owner = ProviderOf[c] /\ new.source \in AuthTokens
  BY <1>2, <1>3, <1>1 DEF Publish, RefreshCall, Phases
<1> HIDE DEF new
<1>6. TypeOK'
  BY <1>1, <1>3, <1>4, <1>5 DEF TypeOK
<1>7. SingleFlight' /\ CallShape'
  BY <1>1, <1>2, <1>4, <1>5 DEF TypeOK, SingleFlight, CallShape
<1>8. GateShape' /\ InflightShape'
  <2>1. InflightShape'
    BY <1>1, <1>2, <1>4, <1>5 DEF TypeOK, InflightShape
  <2> QED BY <2>1, <1>3 DEF TypeOK, GateShape
<1>9. DecisionExclusive'
  BY <1>1, <1>3, <1>4 DEF TypeOK, DecisionExclusive
<1>10. WaitShape'
  BY <1>1, <1>2, <1>4, <1>5 DEF TypeOK, WaitShape
<1> QED BY <1>6, <1>7, <1>8, <1>9, <1>10

\* Returning from outside the decision preserves the structural invariant, if
\* nothing but this caller's locals and the calls' waiters change.
LEMMA ReturnStruct ==
    ASSUME StructInv, NEW c \in Callers, NEW v \in Tokens \cup {None},
           pc[c] \in {"gate", "wait"}, Return(c, v),
           calls' \in [CallIds -> RefreshCall], OnlyWaitersChange,
           UNCHANGED <<stored, providerVars, serverVars, historyVars>>
    PROVE  StructInv'
<1> USE ProviderOfAssumption, NoneAssumption
<1> USE DEF StructInv, Running, providerVars, serverVars, historyVars, Return
<1>1. TypeOK'
  BY DEF TypeOK
<1>2. SingleFlight' /\ InflightShape' /\ CallShape' /\ GateShape'
  <2>1. SingleFlight' /\ CallShape'
    BY DEF OnlyWaitersChange, SingleFlight, CallShape
  <2>2. InflightShape'
    BY DEF TypeOK, OnlyWaitersChange, InflightShape
  <2> QED BY <2>1, <2>2 DEF GateShape
<1>3. DecisionExclusive'
  BY DEF TypeOK, DecisionExclusive
<1>4. WaitShape'
  BY DEF TypeOK, OnlyWaitersChange, WaitShape
<1> QED BY <1>1, <1>2, <1>3, <1>4

\* Returning from inside the decision, which releases the gate, does too.
LEMMA ReturnUnlockStruct ==
    ASSUME StructInv, NEW c \in Callers, NEW v \in Tokens \cup {None},
           pc[c] \in {"load", "decide"}, Return(c, v), Unlock(c),
           UNCHANGED <<stored, inflight, calls, serverVars, historyVars>>
    PROVE  StructInv'
<1> USE ProviderOfAssumption, NoneAssumption
<1> USE DEF StructInv, Running, serverVars, historyVars, Return, Unlock
<1>1. TypeOK'
  BY DEF TypeOK
<1>2. SingleFlight' /\ InflightShape' /\ CallShape'
  BY DEF SingleFlight, InflightShape, CallShape
<1>3. GateShape' /\ WaitShape'
  BY DEF TypeOK, GateShape, WaitShape
<1>4. DecisionExclusive'
  <2> SUFFICES ASSUME NEW d \in Callers
               PROVE  /\ pc'[d] \in {"check", "load", "decide"} <=> decision'[ProviderOf[d]] = d
                      /\ pc'[d] \in {"load", "decide"} => inflight'[ProviderOf[d]] = None
    BY DEF DecisionExclusive
  <2>1. CASE d = c
    BY <2>1 DEF TypeOK
  <2>2. CASE d # c
    <3>1. pc'[d] = pc[d] /\ inflight' = inflight
      BY <2>2 DEF TypeOK
    <3>2. decision'[ProviderOf[d]] = d <=> decision[ProviderOf[d]] = d
      BY <2>2 DEF TypeOK, DecisionExclusive
    <3> QED BY <3>1, <3>2 DEF DecisionExclusive
  <2> QED BY <2>1, <2>2
<1> QED BY <1>1, <1>2, <1>3, <1>4

\* Reading storage inside the decision preserves the structural invariant.
LEMMA LoadStruct ==
    ASSUME StructInv, NEW c \in Callers, Load(c)
    PROVE  StructInv'
<1> USE ProviderOfAssumption, NoneAssumption
<1> USE DEF StructInv, Running, providerVars, serverVars, historyVars, Load
<1>1. TypeOK'
  BY DEF TypeOK
<1>2. SingleFlight' /\ GateShape' /\ InflightShape' /\ CallShape'
  BY DEF SingleFlight, GateShape, InflightShape, CallShape
<1>3. DecisionExclusive' /\ WaitShape'
  BY DEF TypeOK, DecisionExclusive, WaitShape
<1> QED BY <1>1, <1>2, <1>3

\* The last waiter of a finished call lets go of it.
LEMMA WaitDoneStruct ==
    ASSUME StructInv, NEW c \in Callers, WaitDone(c)
    PROVE  StructInv'
<1> USE ProviderOfAssumption, NoneAssumption
<1> USE DEF StructInv, Running, providerVars, serverVars, historyVars
<1>1. /\ pc[c] = "wait" /\ joined[c] \in CallIds
      /\ calls[joined[c]].phase = "done"
      /\ calls[joined[c]].out \in Tokens \cup {None}
  BY DEF WaitDone, WaitShape, TypeOK, RefreshCall
<1>2. CASE \E d \in Callers \ {c} : joined[d] = joined[c]
  <2>1. calls' = calls /\ Return(c, calls[joined[c]].out)
        /\ UNCHANGED <<stored, providerVars, serverVars, historyVars>>
    BY <1>2 DEF WaitDone
  <2>2. OnlyWaitersChange /\ calls' \in [CallIds -> RefreshCall]
    BY <2>1 DEF OnlyWaitersChange, TypeOK
  <2> QED BY <1>1, <2>1, <2>2, ReturnStruct
<1>3. CASE ~ \E d \in Callers \ {c} : joined[d] = joined[c]
  <2>1. /\ calls' = [calls EXCEPT ![joined[c]] = UnusedCall]
        /\ pc' = [pc EXCEPT ![c] = "idle"] /\ joined' = [joined EXCEPT ![c] = None]
        /\ UNCHANGED <<stored, inflight, decision, serverVars, historyVars>>
    BY <1>3 DEF WaitDone, Return
  <2>2. UnusedCall \in RefreshCall /\ UnusedCall.phase = "unused"
    BY DEF UnusedCall, RefreshCall, Phases
  <2>3. TypeOK'
    BY <1>1, <2>1, <2>2 DEF TypeOK, WaitDone, Return
  <2>4. SingleFlight' /\ CallShape' /\ GateShape'
    BY <1>1, <2>1, <2>2 DEF TypeOK, SingleFlight, CallShape, GateShape
  <2>5. InflightShape'
    BY <1>1, <2>1, <2>2 DEF TypeOK, InflightShape
  <2>6. DecisionExclusive'
    BY <1>1, <2>1 DEF TypeOK, DecisionExclusive
  <2>7. WaitShape'
    BY <1>1, <1>3, <2>1, <2>2 DEF TypeOK, WaitShape
  <2> QED BY <2>3, <2>4, <2>5, <2>6, <2>7
<1> QED BY <1>2, <1>3

\* A canceled waiter leaves the running call as it is.
LEMMA WaitCanceledStruct ==
    ASSUME StructInv, NEW c \in Callers, WaitCanceled(c)
    PROVE  StructInv'
<1> DEFINE k == joined[c]
<1>1. pc[c] = "wait" /\ k \in CallIds /\ calls[k] \in RefreshCall
  BY DEF StructInv, WaitCanceled, WaitShape, TypeOK
<1>2. calls' = [calls EXCEPT ![k].waiters = IF @ > 0 THEN @ - 1 ELSE @]
  BY DEF WaitCanceled
<1>3. Return(c, None) /\ UNCHANGED <<stored, providerVars, serverVars, historyVars>>
  BY DEF WaitCanceled
<1> HIDE DEF k
<1>4. calls' \in [CallIds -> RefreshCall]
  <2>1. [calls[k] EXCEPT !.waiters = IF @ > 0 THEN @ - 1 ELSE @] \in RefreshCall
    BY <1>1 DEF RefreshCall
  <2> QED BY <1>1, <1>2, <2>1 DEF StructInv, TypeOK
<1>5. OnlyWaitersChange
  BY <1>1, <1>2 DEF StructInv, TypeOK, RefreshCall, OnlyWaitersChange
<1> QED BY <1>1, <1>3, <1>4, <1>5, ReturnStruct

\* A step of a refresh that keeps it running.
LEMMA RunningStruct ==
    ASSUME StructInv, NEW k \in CallIds, NEW r \in RefreshCall, TypeOK',
           calls[k].phase \in Running, calls' = [calls EXCEPT ![k] = r],
           r.phase \in Running, r.owner = calls[k].owner, r.source = calls[k].source,
           r.phase = "commit" => r.refreshed \in Tokens,
           UNCHANGED <<callerVars, providerVars>>
    PROVE  StructInv'
<1> USE DEF StructInv, Running, callerVars, providerVars
<1>1. SingleFlight' /\ CallShape' /\ GateShape' /\ InflightShape'
  BY DEF TypeOK, SingleFlight, CallShape, GateShape, InflightShape
<1>2. DecisionExclusive'
  BY DEF DecisionExclusive
<1>3. WaitShape'
  BY DEF TypeOK, WaitShape
<1> QED BY <1>1, <1>2, <1>3

\* Every step of runRefresh before finishRefresh preserves the structural invariant.
LEMMA RefreshStruct ==
    ASSUME StructInv, NEW k \in CallIds,
           \/ \E t \in Tokens : RefreshSucceeds(k, t)
           \/ RefreshFails(k) \/ RefreshResponseLost(k)
           \/ \E ok \in BOOLEAN : Reload(k, ok) \/ CommitRefreshed(k, ok) \/ CommitSuperseded(k, ok)
           \/ CommitLoggedOut(k) \/ CommitFails(k)
    PROVE  StructInv'
<1> USE NoneAssumption
<1> USE DEF StructInv, Running, callerVars, providerVars, serverVars, historyVars
<1>1. calls[k] \in RefreshCall
  BY DEF TypeOK
<1>2. ASSUME calls[k].phase \in Running
      PROVE  calls[k].source \in AuthTokens /\ calls[k].owner \in Providers /\ calls[k].source.id \in Tokens
  BY <1>2 DEF CallShape, AuthTokens
<1>3. ASSUME NEW t \in Tokens, RefreshSucceeds(k, t) PROVE StructInv'
  <2> DEFINE r == [calls[k] EXCEPT !.phase = "commit", !.refreshed = t]
  <2>1. /\ r \in RefreshCall /\ r.phase = "commit" /\ r.refreshed = t
        /\ r.owner = calls[k].owner /\ r.source = calls[k].source
    BY <1>1 DEF RefreshCall, Phases
  <2>2. calls' = [calls EXCEPT ![k] = r] /\ calls[k].phase \in Running
    BY <1>3, <1>1 DEF RefreshSucceeds, RefreshCall, TypeOK
  <2> HIDE DEF r
  <2>3. TypeOK'
    <3>1. redeemed' \in [Tokens -> SUBSET Providers] /\ origin' \in [Tokens -> Tokens \cup {None}]
      BY <1>2, <1>3, <2>2 DEF TypeOK, RefreshSucceeds, Redeem
    <3>2. calls' \in [CallIds -> RefreshCall]
      BY <2>1, <2>2 DEF TypeOK
    <3>3. /\ issued' \in SUBSET Tokens
          /\ UNCHANGED <<stored, callerVars, providerVars, historyVars>>
      BY <1>3 DEF TypeOK, RefreshSucceeds
    <3> QED BY <3>1, <3>2, <3>3 DEF TypeOK
  <2> QED BY <1>3, <2>1, <2>2, <2>3, RunningStruct DEF RefreshSucceeds
<1>4. ASSUME RefreshFails(k) \/ RefreshResponseLost(k) PROVE StructInv'
  <2> DEFINE r == [calls[k] EXCEPT !.phase = "reload"]
  <2>1. /\ r \in RefreshCall /\ r.phase = "reload"
        /\ r.owner = calls[k].owner /\ r.source = calls[k].source
    BY <1>1 DEF RefreshCall, Phases
  <2>2. calls' = [calls EXCEPT ![k] = r] /\ calls[k].phase \in Running
    BY <1>4, <1>1 DEF RefreshFails, RefreshResponseLost, RefreshCall, TypeOK
  <2> HIDE DEF r
  <2>3. TypeOK'
    <3>1. CASE RefreshFails(k)
      BY <3>1, <2>1, <2>2 DEF TypeOK, RefreshFails
    <3>2. CASE RefreshResponseLost(k)
      <4>1. redeemed' \in [Tokens -> SUBSET Providers] /\ unsaved' \in SUBSET Tokens
        BY <1>2, <2>2, <3>2 DEF TypeOK, RefreshResponseLost, Redeem
      <4> QED BY <3>2, <2>1, <2>2, <4>1 DEF TypeOK, RefreshResponseLost
    <3> QED BY <1>4, <3>1, <3>2
  <2> QED BY <1>4, <2>1, <2>2, <2>3, RunningStruct DEF RefreshFails, RefreshResponseLost
<1>5. ASSUME NEW v \in Tokens \cup {None}, Outcome(k, v), calls[k].phase \in Running,
             stored' \in AuthTokens \cup {None},
             retired' \in SUBSET Tokens, unsaved' \in SUBSET Tokens,
             UNCHANGED <<callerVars, providerVars, serverVars, session>>
      PROVE  StructInv'
  <2> DEFINE r == [calls[k] EXCEPT !.phase = "finish", !.out = v]
  <2>1. /\ r \in RefreshCall /\ r.phase = "finish"
        /\ r.owner = calls[k].owner /\ r.source = calls[k].source
    BY <1>1 DEF RefreshCall, Phases
  <2>2. calls' = [calls EXCEPT ![k] = r]
    BY <1>5, <1>1 DEF Outcome, RefreshCall, TypeOK
  <2> HIDE DEF r
  <2>3. TypeOK'
    BY <1>5, <2>1, <2>2 DEF TypeOK
  <2> QED BY <1>5, <2>1, <2>2, <2>3, RunningStruct
<1>6. ASSUME NEW ok \in BOOLEAN, Reload(k, ok) PROVE StructInv'
  <2> DEFINE v == IF ok /\ stored # None /\ ~sameAuthTokens(stored, calls[k].source) THEN stored.id ELSE None
  <2>1. v \in Tokens \cup {None}
    BY DEF TypeOK, AuthTokens
  <2>2. Outcome(k, v)
    BY <1>6 DEF Reload, Outcome
  <2> QED BY <1>5, <1>6, <2>1, <2>2 DEF Reload, TypeOK
<1>7. ASSUME NEW ok \in BOOLEAN, CommitRefreshed(k, ok) PROVE StructInv'
  <2> DEFINE v == IF ok THEN calls[k].refreshed ELSE None
  <2>1. v \in Tokens \cup {None} /\ Outcome(k, v) /\ calls[k].refreshed \in Tokens
    BY <1>7 DEF CommitRefreshed, CallShape
  <2>2. stored' \in AuthTokens \cup {None} /\ retired' \in SUBSET Tokens
    BY <1>7, <2>1 DEF CommitRefreshed, Retire, prepareAuth, Decoded, TypeOK, AuthTokens
  <2> QED BY <1>5, <1>7, <2>1, <2>2 DEF CommitRefreshed, TypeOK
<1>8. ASSUME NEW ok \in BOOLEAN, CommitSuperseded(k, ok) PROVE StructInv'
  <2> DEFINE v == IF ok THEN stored.id ELSE None
  <2>1. v \in Tokens \cup {None} /\ Outcome(k, v)
    BY <1>8 DEF CommitSuperseded, TypeOK, AuthTokens
  <2>2. stored' \in AuthTokens
    BY <1>8 DEF CommitSuperseded, prepareAuth, TypeOK, AuthTokens
  <2> QED BY <1>5, <1>8, <2>1, <2>2 DEF CommitSuperseded, TypeOK
<1>9. ASSUME CommitLoggedOut(k) \/ CommitFails(k) PROVE StructInv'
  <2>1. Outcome(k, None) /\ calls[k].phase = "commit" /\ UNCHANGED <<stored, retired>>
    BY <1>9 DEF CommitLoggedOut, CommitFails
  <2>2. unsaved' \in SUBSET Tokens
    BY <1>2, <1>9, <2>1 DEF CommitLoggedOut, CommitFails, TypeOK
  <2> QED BY <1>5, <1>9, <2>1, <2>2 DEF CommitLoggedOut, CommitFails, TypeOK
<1> QED BY <1>3, <1>4, <1>6, <1>7, <1>8, <1>9

\* finishRefresh withdraws the call it completes and no other.
LEMMA FinishStruct ==
    ASSUME StructInv, NEW k \in CallIds, FinishRefresh(k)
    PROVE  StructInv'
<1> USE NoneAssumption
<1> USE DEF StructInv, Running, callerVars, serverVars, historyVars
<1> DEFINE r == IF \E c \in Callers : joined[c] = k
                THEN [UnusedCall EXCEPT !.phase = "done", !.owner = calls[k].owner,
                                        !.out = calls[k].out]
                ELSE UnusedCall
<1>1. /\ calls[k].phase = "finish" /\ calls[k] \in RefreshCall
      /\ calls[k].owner \in Providers /\ inflight[calls[k].owner] = k
  BY DEF FinishRefresh, TypeOK, CallShape, SingleFlight
<1>2. /\ r \in RefreshCall /\ r.phase \in {"done", "unused"}
      /\ r.phase = "done" => r.owner = calls[k].owner
      /\ (\E c \in Callers : joined[c] = k) => r.phase = "done"
  BY <1>1 DEF RefreshCall, UnusedCall, Phases
<1>3. calls' = [calls EXCEPT ![k] = r]
  BY DEF FinishRefresh
<1>4. inflight' = [inflight EXCEPT ![calls[k].owner] = None]
  BY <1>1 DEF FinishRefresh, TypeOK
<1>5. UNCHANGED <<stored, callerVars, decision, serverVars, historyVars>>
  BY DEF FinishRefresh
<1> HIDE DEF r
<1>6. TypeOK'
  BY <1>1, <1>2, <1>3, <1>4, <1>5 DEF TypeOK
<1>7. SingleFlight' /\ CallShape'
  BY <1>1, <1>2, <1>3, <1>4 DEF TypeOK, SingleFlight, CallShape, InflightShape
<1>8. InflightShape' /\ GateShape'
  BY <1>1, <1>2, <1>3, <1>4, <1>5 DEF TypeOK, InflightShape, GateShape
<1>9. DecisionExclusive'
  BY <1>1, <1>4, <1>5, ProviderOfAssumption DEF TypeOK, DecisionExclusive
<1>10. WaitShape'
  BY <1>1, <1>2, <1>3, <1>5 DEF TypeOK, WaitShape
<1> QED BY <1>6, <1>7, <1>8, <1>9, <1>10

\* A crash takes a Client's callers, gate and refresh away together.
LEMMA CrashStruct ==
    ASSUME StructInv, NEW p \in Providers, Crash(p)
    PROVE  StructInv'
<1> USE ProviderOfAssumption, NoneAssumption
<1> USE DEF StructInv, Running, serverVars
<1>1. UnusedCall \in RefreshCall /\ UnusedCall.phase = "unused"
  BY DEF UnusedCall, RefreshCall, Phases
<1>2. TypeOK'
  BY <1>1 DEF TypeOK, Crash
<1>3. SingleFlight' /\ CallShape'
  BY <1>1 DEF TypeOK, Crash, SingleFlight, CallShape
<1>4. GateShape' /\ InflightShape'
  BY <1>1 DEF TypeOK, Crash, GateShape, InflightShape
<1>5. DecisionExclusive'
  BY DEF TypeOK, Crash, GateShape, DecisionExclusive
<1>6. WaitShape'
  BY <1>1 DEF TypeOK, Crash, WaitShape
<1> QED BY <1>2, <1>3, <1>4, <1>5, <1>6

\* What contexts and the other users of the storage do preserves it.
LEMMA OutsideStruct ==
    ASSUME StructInv,
           \/ \E c \in Callers : Cancel(c)
           \/ \E t \in Tokens : Login(t)
           \/ Logout \/ OtherTransact \/ UNCHANGED vars
    PROVE  StructInv'
<1> USE DEF StructInv, callerVars, providerVars, serverVars, historyVars
<1>1. TypeOK'
  <2>1. CASE \E c \in Callers : Cancel(c)
    BY <2>1 DEF TypeOK, Cancel
  <2>2. CASE \E t \in Tokens : Login(t)
    <3>1. PICK t \in Tokens : Login(t)
      BY <2>2
    <3>2. stored' \in AuthTokens
      BY <3>1 DEF Login, prepareAuth, Decoded, AuthTokens
    <3>3. retired' \in SUBSET Tokens
      BY <3>1 DEF Login, Retire, TypeOK, AuthTokens
    <3> QED BY <3>1, <3>2, <3>3 DEF TypeOK, Login
  <2>3. CASE Logout
    BY <2>3 DEF TypeOK, Logout, Retire, AuthTokens
  <2>4. CASE OtherTransact
    BY <2>4 DEF TypeOK, OtherTransact, prepareAuth, AuthTokens
  <2>5. CASE UNCHANGED vars
    BY <2>5 DEF TypeOK, vars
  <2> QED BY <2>1, <2>2, <2>3, <2>4, <2>5
<1>2. UNCHANGED <<pc, joined, inflight, decision, calls>>
  BY DEF Cancel, Login, Logout, OtherTransact, vars
<1> QED
  BY <1>1, <1>2 DEF SingleFlight, DecisionExclusive, GateShape, InflightShape, CallShape, WaitShape

\* The structural invariant is inductive.
THEOREM StructInvariant == Spec => []StructInv
<1>1. Init => StructInv
  <2> SUFFICES ASSUME Init PROVE StructInv
    OBVIOUS
  <2> USE ProviderOfAssumption, NoneAssumption
  <2>1. UnusedCall \in RefreshCall /\ UnusedCall.phase = "unused"
    BY DEF UnusedCall, RefreshCall, Phases
  <2>2. TypeOK
    BY <2>1 DEF Init, TypeOK, AuthTokens
  <2> QED BY <2>1, <2>2 DEF Init, StructInv, SingleFlight, DecisionExclusive, GateShape,
                            InflightShape, CallShape, WaitShape, Running
<1>2. StructInv /\ [Next]_vars => StructInv'
  <2> SUFFICES ASSUME StructInv, [Next]_vars PROVE StructInv'
    OBVIOUS
  <2>1. ASSUME NEW c \in Callers, NEW r \in Tokens \cup {None}, Token(c, r) PROVE StructInv'
    BY <2>1, TokenStruct
  <2>2. ASSUME NEW c \in Callers, CallerStep(c) PROVE StructInv'
    <3>1. CASE LockDecision(c)
      BY <3>1, LockDecisionStruct
    <3>2. CASE LockCanceled(c)
      <4>1. OnlyWaitersChange /\ calls' \in [CallIds -> RefreshCall]
        BY <3>2 DEF LockCanceled, OnlyWaitersChange, StructInv, TypeOK
      <4> QED BY <3>2, <4>1, ReturnStruct DEF LockCanceled, providerVars
    <3>3. CASE CheckInflight(c)
      BY <3>3, CheckInflightStruct
    <3>4. CASE Load(c)
      BY <3>4, LoadStruct
    <3>5. CASE LoadFails(c)
      BY <3>5, ReturnUnlockStruct DEF LoadFails
    <3>6. ASSUME NEW due \in BOOLEAN, DecideFromStorage(c, due) PROVE StructInv'
      <4>1. PICK v \in Tokens \cup {None} : Return(c, v)
        BY <3>6 DEF DecideFromStorage, StructInv, TypeOK, AuthTokens
      <4> QED BY <3>6, <4>1, ReturnUnlockStruct DEF DecideFromStorage
    <3>7. ASSUME NEW due \in BOOLEAN, DecideRefresh(c, due) PROVE StructInv'
      BY <3>7, DecideRefreshStruct
    <3>8. CASE WaitDone(c)
      BY <3>8, WaitDoneStruct
    <3>9. CASE WaitCanceled(c)
      BY <3>9, WaitCanceledStruct
    <3> QED BY <2>2, <3>1, <3>2, <3>3, <3>4, <3>5, <3>6, <3>7, <3>8, <3>9 DEF CallerStep
  <2>3. ASSUME NEW k \in CallIds, RefreshStep(k) PROVE StructInv'
    BY <2>3, RefreshStruct, FinishStruct DEF RefreshStep
  <2>4. CASE Environment
    BY <2>4, OutsideStruct, CrashStruct DEF Environment
  <2>5. CASE UNCHANGED vars
    BY <2>5, OutsideStruct
  <2> QED BY <2>1, <2>2, <2>3, <2>4, <2>5 DEF Next
<1> QED BY <1>1, <1>2, PTL DEF Spec

\* Every variable keeps its type.
THEOREM TypeCorrect == Spec => []TypeOK
<1>1. StructInv => TypeOK
  BY DEF StructInv
<1> QED BY <1>1, StructInvariant, PTL

\* However many callers, Clients, cancellations and crashes there are, one
\* tokenProvider runs one refresh at a time (tokens.go, inflight).
THEOREM SingleFlightHolds == Spec => []SingleFlight
<1>1. StructInv => SingleFlight
  BY DEF StructInv
<1> QED BY <1>1, StructInvariant, PTL

\* The gate is held exactly by the caller between check and decision, and no
\* refresh of its provider is published meanwhile: the third look at inflight
\* in token() is redundant.
THEOREM DecisionExclusiveHolds == Spec => []DecisionExclusive
<1>1. StructInv => DecisionExclusive
  BY DEF StructInv
<1> QED BY <1>1, StructInvariant, PTL

-----------------------------------------------------------------------------
(***************************************************************************)
(* Sessions.  A generation descends from the login its source descends     *)
(* from, and that never changes once it is issued.                         *)
(***************************************************************************)
Lineage(k) ==
    /\ calls[k].phase \in Running => calls[k].source.id \in issued
    /\ calls[k].phase = "commit" =>
          calls[k].refreshed \in issued /\ origin[calls[k].refreshed] = origin[calls[k].source.id]

SessionInv ==
    /\ SessionNotResurrected
    /\ stored # None => stored.id \in issued
    /\ \A c \in Callers : snapshot[c] # None => snapshot[c].id \in issued
    /\ \A k \in CallIds : Lineage(k)

\* Steps that issue nothing, store nothing and start no refresh keep lineages.
LEMMA LineageFrame ==
    ASSUME StructInv, SessionInv, UNCHANGED <<stored, issued, origin, session>>,
           \A c \in Callers : snapshot'[c] \in {snapshot[c], None},
           \A k \in CallIds :
               \/ calls'[k].phase \notin Running
               \/ /\ calls'[k].source = calls[k].source
                  /\ calls[k].phase \in Running
                  /\ calls'[k].phase = "commit" =>
                        calls[k].phase = "commit" /\ calls'[k].refreshed = calls[k].refreshed
    PROVE  SessionInv'
<1>1. SessionNotResurrected' /\ (stored' # None => stored'.id \in issued')
  BY DEF SessionInv, SessionNotResurrected
<1>2. \A c \in Callers : snapshot'[c] # None => snapshot'[c].id \in issued'
  BY DEF SessionInv
<1>3. \A k \in CallIds : Lineage(k)'
  BY DEF SessionInv, Lineage, Running
<1> QED BY <1>1, <1>2, <1>3 DEF SessionInv

\* The steps of token() and of the waiters keep lineages.
LEMMA CallerSession ==
    ASSUME StructInv, SessionInv, NEW c \in Callers,
           CallerStep(c) \/ \E r \in Tokens \cup {None} : Token(c, r)
    PROVE  SessionInv'
<1> USE ProviderOfAssumption, NoneAssumption
<1> USE DEF callerVars, providerVars, serverVars, historyVars
<1>1. ASSUME OnlyWaitersChange, UNCHANGED <<stored, issued, origin, session>>,
             \A d \in Callers : snapshot'[d] \in {snapshot[d], None}
      PROVE  SessionInv'
  BY <1>1, LineageFrame DEF OnlyWaitersChange
<1>2. ASSUME UNCHANGED calls PROVE OnlyWaitersChange
  BY <1>2 DEF OnlyWaitersChange
<1>3. ASSUME inflight[ProviderOf[c]] # None, Join(c)
      PROVE  OnlyWaitersChange /\ \A d \in Callers : snapshot'[d] \in {snapshot[d], None}
  BY <1>3, JoinEffect DEF Join, StructInv, TypeOK
<1>4. ASSUME NEW v, Return(c, v)
      PROVE  \A d \in Callers : snapshot'[d] \in {snapshot[d], None}
  BY <1>4 DEF Return, StructInv, TypeOK
<1>5. CASE \E r \in Tokens \cup {None} : Token(c, r)
  BY <1>1, <1>2, <1>3, <1>5 DEF Token
<1>6. CASE LockDecision(c) \/ CheckInflight(c)
  BY <1>1, <1>2, <1>3, <1>6 DEF LockDecision, CheckInflight
<1>7. CASE LockCanceled(c) \/ LoadFails(c) \/ \E due \in BOOLEAN : DecideFromStorage(c, due)
  <2>1. /\ \E v : Return(c, v)
        /\ UNCHANGED <<stored, calls, issued, origin, session>>
    BY <1>7 DEF LockCanceled, LoadFails, DecideFromStorage
  <2> QED BY <1>1, <1>2, <1>4, <2>1
<1>8. CASE Load(c)
  <2>1. /\ snapshot' = [snapshot EXCEPT ![c] = stored]
        /\ UNCHANGED <<stored, calls, issued, origin, session>>
    BY <1>8 DEF Load
  <2> QED BY <2>1 DEF StructInv, TypeOK, SessionInv, SessionNotResurrected, Lineage
<1>9. ASSUME NEW due \in BOOLEAN, DecideRefresh(c, due) PROVE SessionInv'
  <2>1. pc[c] = "decide" /\ inflight[ProviderOf[c]] = None
    BY <1>9 DEF DecideRefresh, StructInv, DecisionExclusive
  <2>2. PICK k \in CallIds : Publish(c, k)
    BY <1>9, <2>1 DEF DecideRefresh
  <2>3. snapshot[c] # None /\ UNCHANGED <<stored, issued, origin, session>>
    BY <1>9, <2>1 DEF DecideRefresh
  <2>4. /\ calls'[k].phase = "remote" /\ calls'[k].source = snapshot[c]
        /\ \A j \in CallIds \ {k} : calls'[j] = calls[j]
        /\ \A d \in Callers : snapshot'[d] \in {snapshot[d], None}
    BY <2>2 DEF Publish, StructInv, TypeOK
  <2>5. Lineage(k)'
    BY <2>3, <2>4 DEF SessionInv, Lineage
  <2>6. \A j \in CallIds \ {k} : Lineage(j)'
    BY <2>3, <2>4 DEF SessionInv, Lineage
  <2> QED BY <2>3, <2>4, <2>5, <2>6 DEF SessionInv, SessionNotResurrected
<1>10. CASE WaitDone(c)
  <2>1. UnusedCall.phase \notin Running
    BY DEF UnusedCall, Running
  <2>2. joined[c] \in CallIds
    BY <1>10 DEF WaitDone, StructInv, WaitShape
  <2>3. \A k \in CallIds : calls'[k] = calls[k] \/ calls'[k] = UnusedCall
    BY <1>10, <2>2 DEF WaitDone, StructInv, TypeOK
  <2>4. UNCHANGED <<stored, issued, origin, session>> /\ \E v : Return(c, v)
    BY <1>10 DEF WaitDone
  <2> QED BY <1>4, <2>1, <2>3, <2>4, LineageFrame
<1>11. CASE WaitCanceled(c)
  <2>1. joined[c] \in CallIds
    BY <1>11 DEF WaitCanceled, StructInv, WaitShape
  <2>2. OnlyWaitersChange
    BY <1>11, <2>1 DEF WaitCanceled, StructInv, TypeOK, RefreshCall, OnlyWaitersChange
  <2>3. UNCHANGED <<stored, issued, origin, session>> /\ Return(c, None)
    BY <1>11 DEF WaitCanceled
  <2> QED BY <1>1, <1>4, <2>2, <2>3
<1> QED BY <1>5, <1>6, <1>7, <1>8, <1>9, <1>10, <1>11 DEF CallerStep

\* The steps of a refresh keep lineages: a commit stores a descendant of what it
\* replaces, in the same session.
LEMMA RefreshSession ==
    ASSUME StructInv, SessionInv, NEW k \in CallIds, RefreshStep(k)
    PROVE  SessionInv'
<1> USE NoneAssumption
<1> USE DEF callerVars, providerVars, serverVars, historyVars
<1>1. ASSUME calls[k].phase \in Running
      PROVE  calls[k] \in RefreshCall /\ calls[k].source \in AuthTokens
  BY <1>1 DEF StructInv, TypeOK, CallShape
<1>2. ASSUME NEW t \in Tokens, RefreshSucceeds(k, t) PROVE SessionInv'
  <2>1. /\ t \notin issued /\ issued' = issued \cup {t}
        /\ origin' = [origin EXCEPT ![t] = origin[calls[k].source.id]]
        /\ UNCHANGED <<stored, snapshot, session>>
    BY <1>2 DEF RefreshSucceeds
  <2>2. /\ calls[k].phase = "remote" /\ calls'[k].phase = "commit" /\ calls'[k].refreshed = t
        /\ calls'[k].source = calls[k].source
        /\ \A j \in CallIds \ {k} : calls'[j] = calls[j]
    BY <1>2 DEF RefreshSucceeds, StructInv, TypeOK, RefreshCall
  <2>3. calls[k].source.id \in issued
    BY <2>2 DEF SessionInv, Lineage, Running
  <2>4. \A x \in issued : origin'[x] = origin[x]
    BY <2>1 DEF StructInv, TypeOK
  <2>5. origin'[t] = origin'[calls[k].source.id]
    BY <2>1, <2>3, <2>4 DEF StructInv, TypeOK
  <2>6. Lineage(k)'
    BY <2>1, <2>2, <2>3, <2>5 DEF Lineage
  <2>7. \A j \in CallIds \ {k} : Lineage(j)'
    BY <2>1, <2>2, <2>4 DEF SessionInv, Lineage, Running
  <2> QED BY <2>1, <2>4, <2>6, <2>7 DEF SessionInv, SessionNotResurrected
<1>3. CASE RefreshFails(k) \/ RefreshResponseLost(k)
  <2>1. /\ calls[k].phase = "remote" /\ calls'[k].phase = "reload"
        /\ calls'[k].source = calls[k].source
        /\ \A j \in CallIds \ {k} : calls'[j] = calls[j]
    BY <1>3 DEF RefreshFails, RefreshResponseLost, StructInv, TypeOK, RefreshCall
  <2>2. UNCHANGED <<stored, issued, origin, session, snapshot>>
    BY <1>3 DEF RefreshFails, RefreshResponseLost
  <2> QED BY <2>1, <2>2, LineageFrame DEF Running
<1>4. ASSUME NEW v, Outcome(k, v), calls[k].phase \in Running
      PROVE  /\ calls'[k].phase = "finish" /\ calls'[k].source = calls[k].source
             /\ \A j \in CallIds \ {k} : calls'[j] = calls[j]
  BY <1>4 DEF Outcome, StructInv, TypeOK, RefreshCall
<1>5. CASE (\E ok \in BOOLEAN : Reload(k, ok)) \/ CommitLoggedOut(k) \/ CommitFails(k)
  <2>1. /\ \E v : Outcome(k, v)
        /\ calls[k].phase \in Running
        /\ UNCHANGED <<stored, issued, origin, session, snapshot>>
    BY <1>5 DEF Reload, CommitLoggedOut, CommitFails, Outcome, Running
  <2> QED BY <1>4, <2>1, LineageFrame DEF Running
<1>6. ASSUME NEW ok \in BOOLEAN, CommitRefreshed(k, ok) PROVE SessionInv'
  <2>1. /\ \E v : Outcome(k, v)
        /\ calls[k].phase = "commit" /\ stored # None /\ stored = calls[k].source
        /\ stored' = [id |-> calls[k].refreshed, dated |-> TRUE]
        /\ UNCHANGED <<issued, origin, session, snapshot>>
    BY <1>6 DEF CommitRefreshed, sameAuthTokens, prepareAuth, Decoded
  <2>2. stored' # None /\ stored'.id = calls[k].refreshed
    <3>1. stored' \in [id : Tokens, dated : BOOLEAN]
      BY <2>1 DEF StructInv, CallShape
    <3> QED BY <2>1, <3>1
  <2>3. calls[k].refreshed \in issued /\ origin[calls[k].refreshed] = session
    BY <2>1 DEF SessionInv, SessionNotResurrected, Lineage
  <2>4. \A j \in CallIds : Lineage(j)'
    BY <1>4, <2>1 DEF SessionInv, Lineage, Running
  <2> QED BY <2>1, <2>2, <2>3, <2>4 DEF SessionInv, SessionNotResurrected
<1>7. ASSUME NEW ok \in BOOLEAN, CommitSuperseded(k, ok) PROVE SessionInv'
  <2>1. /\ \E v : Outcome(k, v)
        /\ calls[k].phase = "commit" /\ stored # None
        /\ stored' = [stored EXCEPT !.dated = TRUE]
        /\ UNCHANGED <<issued, origin, session, snapshot>>
    BY <1>7 DEF CommitSuperseded, prepareAuth
  <2>2. stored' # None /\ stored'.id = stored.id
    BY <2>1 DEF StructInv, TypeOK, AuthTokens
  <2>3. \A j \in CallIds : Lineage(j)'
    BY <1>4, <2>1 DEF SessionInv, Lineage, Running
  <2> QED BY <2>1, <2>2, <2>3 DEF SessionInv, SessionNotResurrected
<1>8. CASE FinishRefresh(k)
  <2>1. /\ calls'[k].phase \notin Running
        /\ \A j \in CallIds \ {k} : calls'[j] = calls[j]
    BY <1>8 DEF FinishRefresh, UnusedCall, Running, StructInv, TypeOK
  <2>2. UNCHANGED <<stored, issued, origin, session, snapshot>>
    BY <1>8 DEF FinishRefresh
  <2> QED BY <2>1, <2>2, LineageFrame
<1> QED BY <1>2, <1>3, <1>5, <1>6, <1>7, <1>8 DEF RefreshStep

\* Logins, logouts, other transactions, cancellations and crashes keep lineages.
LEMMA EnvironmentSession ==
    ASSUME StructInv, SessionInv, Environment \/ UNCHANGED vars
    PROVE  SessionInv'
<1> USE NoneAssumption
<1> USE DEF callerVars, providerVars, serverVars, historyVars
<1>1. CASE UNCHANGED vars \/ \E c \in Callers : Cancel(c)
  <2>1. UNCHANGED <<stored, issued, origin, session, snapshot, calls>>
    BY <1>1 DEF vars, Cancel
  <2> QED BY <2>1 DEF SessionInv, SessionNotResurrected, Lineage
<1>2. ASSUME NEW t \in Tokens, Login(t) PROVE SessionInv'
  <2>1. /\ t \notin issued /\ issued' = issued \cup {t}
        /\ origin' = [origin EXCEPT ![t] = t] /\ session' = t
        /\ stored' = [id |-> t, dated |-> TRUE]
        /\ UNCHANGED <<snapshot, calls>>
    BY <1>2 DEF Login, prepareAuth, Decoded
  <2>2. (\A x \in issued : origin'[x] = origin[x]) /\ origin'[t] = t
    BY <2>1 DEF StructInv, TypeOK
  <2>3. \A k \in CallIds : Lineage(k)'
    BY <2>1, <2>2 DEF SessionInv, Lineage, Running
  <2>4. stored' # None /\ stored'.id = t
    <3>1. stored' \in [id : Tokens, dated : BOOLEAN]
      BY <2>1
    <3> QED BY <2>1, <3>1
  <2> QED BY <2>1, <2>2, <2>3, <2>4 DEF SessionInv, SessionNotResurrected
<1>3. CASE Logout
  <2>1. stored' = None /\ session' = None /\ UNCHANGED <<issued, origin, snapshot, calls>>
    BY <1>3 DEF Logout
  <2> QED BY <2>1 DEF SessionInv, SessionNotResurrected, Lineage
<1>4. CASE OtherTransact
  <2>1. /\ stored # None /\ stored' = [stored EXCEPT !.dated = TRUE]
        /\ UNCHANGED <<issued, origin, session, snapshot, calls>>
    BY <1>4 DEF OtherTransact, prepareAuth
  <2>2. stored' # None /\ stored'.id = stored.id
    BY <2>1 DEF StructInv, TypeOK, AuthTokens
  <2> QED BY <2>1, <2>2 DEF SessionInv, SessionNotResurrected, Lineage
<1>5. ASSUME NEW p \in Providers, Crash(p) PROVE SessionInv'
  <2>1. /\ \A k \in CallIds : calls'[k] = calls[k] \/ calls'[k].phase \notin Running
        /\ \A c \in Callers : snapshot'[c] \in {snapshot[c], None}
        /\ UNCHANGED <<stored, issued, origin, session>>
    BY <1>5 DEF Crash, UnusedCall, Running
  <2> QED BY <2>1, LineageFrame
<1> QED BY <1>1, <1>2, <1>3, <1>4, <1>5 DEF Environment

\* A refresh that was in flight across a logout or a login never brings the old
\* session back: whatever storage holds descends from the last login, and after
\* a logout it holds nothing (the compare-and-replace of runRefresh).
THEOREM SessionNotResurrectedHolds == Spec => []SessionNotResurrected
<1>1. Init => SessionInv
  BY NoneAssumption DEF Init, SessionInv, SessionNotResurrected, Lineage, UnusedCall, Running
<1>2. StructInv /\ SessionInv /\ [Next]_vars => SessionInv'
  BY CallerSession, RefreshSession, EnvironmentSession DEF Next
<1>3. SessionInv => SessionNotResurrected
  BY DEF SessionInv
<1> QED BY <1>1, <1>2, <1>3, StructInvariant, PTL DEF Spec
=============================================================================

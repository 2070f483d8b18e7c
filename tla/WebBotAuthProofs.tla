-------------------------- MODULE WebBotAuthProofs --------------------------
(***************************************************************************)
(* Theorems about WebBotAuth, for any finite set of callers and any number *)
(* of authorities and fetches: the waiter count is exact, a cancellation   *)
(* reaches nobody else, one fetch is live per authority, and the cache     *)
(* holds and serves what it should.                                        *)
(***************************************************************************)
EXTENDS WebBotAuth, FiniteSetTheorems, TLAPS

Live == {"fetch", "fetched"}

\* A caller under mu has an authority and read the clock at most MaxDelay ago.
CallerShape ==
    \A c \in Callers :
        /\ caller[c].pc = "sampled" =>
              /\ caller[c].authority \in Authorities
              /\ caller[c].at <= now /\ now - caller[c].at <= MaxDelay
        /\ caller[c].pc = "wait" =>
              caller[c].call \in Calls /\ call[caller[c].call].authority \in Authorities

\* The call in flight for an authority is a live one for it, and while there is
\* one nothing is cached.
InflightShape ==
    \A a \in Authorities : inflight[a] # None =>
        /\ call[inflight[a]].phase \in Live
        /\ call[inflight[a]].authority = a
        /\ cache[a] = None

\* A live call that was not canceled is the one in flight.
LiveInflight ==
    \A k \in Calls : call[k].phase \in Live =>
        /\ call[k].authority \in Authorities
        /\ call[k].canceled \/ inflight[call[k].authority] = k

\* What is cached is the block of a completed call, for that authority.
CacheShape ==
    \A a \in Authorities : cache[a] # None =>
        call[cache[a]].phase = "done" /\ call[cache[a]].authority = a

WebInv ==
    /\ TypeOK
    /\ WaitersExact
    /\ NobodyWaitsForCanceled
    /\ AbandonedNotCached
    /\ CallerShape
    /\ InflightShape
    /\ LiveInflight
    /\ CacheShape

-----------------------------------------------------------------------------
(* What a step does to the sets of waiters *)

\* A caller's step moves that caller alone into or out of the waiters of a call.
LEMMA WaitingMoves ==
    ASSUME TypeOK, NEW c \in Callers, NEW r \in Caller, caller' = [caller EXCEPT ![c] = r],
           NEW k \in Calls
    PROVE  Waiting(k)' = IF r.pc = "wait" /\ r.call = k
                         THEN Waiting(k) \cup {c} ELSE Waiting(k) \ {c}
BY DEF TypeOK, Waiting

\* Counting the waiters, one joining and one leaving.
LEMMA WaitingCounts ==
    ASSUME NEW k \in Calls, NEW c
    PROVE  /\ Cardinality(Waiting(k)) \in Nat
           /\ Cardinality(Waiting(k) \cup {c}) =
                 IF c \in Waiting(k) THEN Cardinality(Waiting(k)) ELSE Cardinality(Waiting(k)) + 1
           /\ Cardinality(Waiting(k) \ {c}) =
                 IF c \in Waiting(k) THEN Cardinality(Waiting(k)) - 1 ELSE Cardinality(Waiting(k))
           /\ Cardinality(Waiting(k)) = 0 <=> Waiting(k) = {}
           /\ Cardinality(Waiting(k)) = 1 /\ c \in Waiting(k) => Waiting(k) \ {c} = {}
<1>1. IsFiniteSet(Waiting(k))
  <2>1. Waiting(k) \in SUBSET Callers
    BY DEF Waiting
  <2> QED BY <2>1, CallersAssumption, FS_Subset
<1>2. Cardinality(Waiting(k)) \in Nat
  BY <1>1, FS_CardinalityType
<1>3. Cardinality(Waiting(k)) = 0 <=> Waiting(k) = {}
  BY <1>1, FS_EmptySet
<1>4. Cardinality(Waiting(k) \cup {c}) =
          IF c \in Waiting(k) THEN Cardinality(Waiting(k)) ELSE Cardinality(Waiting(k)) + 1
  BY <1>1, FS_AddElement
<1>5. /\ IsFiniteSet(Waiting(k) \ {c})
      /\ Cardinality(Waiting(k) \ {c}) =
            IF c \in Waiting(k) THEN Cardinality(Waiting(k)) - 1 ELSE Cardinality(Waiting(k))
  BY <1>1, FS_RemoveElement
<1>6. Cardinality(Waiting(k)) = 1 /\ c \in Waiting(k) => Waiting(k) \ {c} = {}
  BY <1>5, FS_EmptySet
<1> QED BY <1>2, <1>3, <1>4, <1>5, <1>6

\* Return leaves the caller idle and out of every set of waiters.
LEMMA ReturnEffect ==
    ASSUME TypeOK, NEW c \in Callers, NEW k \in Calls \cup {None}, Return(c, k)
    PROVE  /\ caller' \in [Callers -> Caller] /\ canceled' \in SUBSET Callers
           /\ caller'[c].pc = "idle" /\ caller'[c].result = k
           /\ \A d \in Callers \ {c} : caller'[d] = caller[d]
           /\ \A j \in Calls : Waiting(j)' = Waiting(j) \ {c}
<1> DEFINE r == [Idle EXCEPT !.result = k]
<1>1. r \in Caller /\ r.pc = "idle" /\ r.result = k
  BY BufferAssumption DEF Idle, Caller
<1>2. caller' = [caller EXCEPT ![c] = r] /\ canceled' = canceled \ {c}
  BY DEF Return
<1> HIDE DEF r
<1>3. \A j \in Calls : Waiting(j)' = Waiting(j) \ {c}
  BY <1>1, <1>2, WaitingMoves
<1> QED BY <1>1, <1>2, <1>3 DEF TypeOK

-----------------------------------------------------------------------------
(* One lemma per action *)

\* Reading the clock gives the caller an authority and a time.
LEMMA SignURLKeeps ==
    ASSUME WebInv, NEW c \in Callers, NEW a \in Authorities, SignURL(c, a)
    PROVE  WebInv'
<1> DEFINE r == [Idle EXCEPT !.pc = "sampled", !.authority = a, !.at = now]
<1>0. TypeOK
  BY DEF WebInv
<1>1. r \in Caller /\ r.pc = "sampled" /\ r.authority = a /\ r.at = now
  BY <1>0 DEF Idle, Caller, TypeOK
<1>2. /\ caller' = [caller EXCEPT ![c] = r] /\ caller[c].pc = "idle"
      /\ UNCHANGED <<now, canceled, cache, inflight, call>>
  BY DEF SignURL
<1> HIDE DEF r
<1>3. \A j \in Calls : Waiting(j)' = Waiting(j)
  <2>1. \A j \in Calls : c \notin Waiting(j)
    BY <1>2 DEF Waiting
  <2>2. \A j \in Calls : Waiting(j)' = Waiting(j) \ {c}
    BY <1>0, <1>1, <1>2, WaitingMoves
  <2> QED BY <2>1, <2>2
<1>4. TypeOK'
  BY <1>0, <1>1, <1>2 DEF TypeOK
<1>5. WaitersExact' /\ NobodyWaitsForCanceled'
  BY <1>2, <1>3 DEF WebInv, WaitersExact, NobodyWaitsForCanceled
<1>6. AbandonedNotCached' /\ InflightShape' /\ LiveInflight' /\ CacheShape'
  BY <1>2 DEF WebInv, AbandonedNotCached, InflightShape, LiveInflight, CacheShape
<1>7. CallerShape'
  BY <1>0, <1>1, <1>2, BufferAssumption DEF WebInv, CallerShape, TypeOK
<1> QED BY <1>4, <1>5, <1>6, <1>7 DEF WebInv

\* A hit changes nothing but its caller.
LEMMA ServeCachedKeeps ==
    ASSUME WebInv, NEW c \in Callers, ServeCached(c)
    PROVE  WebInv'
<1> DEFINE k == cache[caller[c].authority]
<1>0. TypeOK /\ caller[c].pc = "sampled" /\ caller[c].authority \in Authorities
  BY DEF WebInv, ServeCached, CallerShape
<1>1. k \in Calls \cup {None} /\ Return(c, k) /\ UNCHANGED <<now, cache, inflight, call>>
  BY <1>0 DEF ServeCached, TypeOK
<1> HIDE DEF k
<1>2. /\ caller' \in [Callers -> Caller] /\ canceled' \in SUBSET Callers
      /\ caller'[c].pc = "idle" /\ \A d \in Callers \ {c} : caller'[d] = caller[d]
      /\ \A j \in Calls : Waiting(j)' = Waiting(j) \ {c}
  BY <1>0, <1>1, ReturnEffect
<1>3. \A j \in Calls : Waiting(j)' = Waiting(j)
  BY <1>0, <1>2 DEF Waiting
<1>4. TypeOK'
  BY <1>0, <1>1, <1>2 DEF TypeOK
<1>5. WaitersExact' /\ NobodyWaitsForCanceled'
  BY <1>1, <1>3 DEF WebInv, WaitersExact, NobodyWaitsForCanceled
<1>6. AbandonedNotCached' /\ InflightShape' /\ LiveInflight' /\ CacheShape'
  BY <1>1 DEF WebInv, AbandonedNotCached, InflightShape, LiveInflight, CacheShape
<1>7. CallerShape'
  BY <1>1, <1>2 DEF WebInv, CallerShape
<1> QED BY <1>4, <1>5, <1>6, <1>7 DEF WebInv

\* What Await does, whichever call the caller waits for.
LEMMA AwaitEffect ==
    ASSUME WebInv, NEW c \in Callers, caller[c].pc = "sampled", NEW k \in Calls, Await(c, k)
    PROVE  /\ caller' \in [Callers -> Caller]
           /\ caller'[c].pc = "wait" /\ caller'[c].call = k
           /\ \A d \in Callers \ {c} : caller'[d] = caller[d]
           /\ cache' \in [Authorities -> Calls \cup {None}]
           /\ cache'[caller[c].authority] = None
           /\ \A a \in Authorities \ {caller[c].authority} : cache'[a] = cache[a]
           /\ Waiting(k)' = Waiting(k) \cup {c} /\ c \notin Waiting(k)
           /\ \A j \in Calls \ {k} : Waiting(j)' = Waiting(j)
<1> DEFINE r == [caller[c] EXCEPT !.pc = "wait", !.call = k]
<1>0. TypeOK /\ caller[c].authority \in Authorities /\ caller[c] \in Caller
  BY DEF WebInv, CallerShape, TypeOK
<1>1. r \in Caller /\ r.pc = "wait" /\ r.call = k
  BY <1>0 DEF Caller
<1>2. caller' = [caller EXCEPT ![c] = r]
  BY <1>0 DEF Await, TypeOK
<1> HIDE DEF r
<1>3. \A j \in Calls : c \notin Waiting(j)
  BY DEF Waiting
<1>4. \A j \in Calls : Waiting(j)' = IF k = j THEN Waiting(j) \cup {c} ELSE Waiting(j) \ {c}
  BY <1>0, <1>1, <1>2, WaitingMoves
<1>5. cache' = [cache EXCEPT ![caller[c].authority] = None]
  BY DEF Await
<1>6. /\ caller' \in [Callers -> Caller] /\ caller'[c] = r
      /\ \A d \in Callers \ {c} : caller'[d] = caller[d]
  BY <1>0, <1>1, <1>2 DEF TypeOK
<1>7. /\ cache' \in [Authorities -> Calls \cup {None}]
      /\ cache'[caller[c].authority] = None
      /\ \A a \in Authorities \ {caller[c].authority} : cache'[a] = cache[a]
  BY <1>0, <1>5 DEF TypeOK
<1>8. \A j \in Calls \ {k} : Waiting(j)' = Waiting(j)
  BY <1>3, <1>4
<1> QED BY <1>1, <1>3, <1>4, <1>6, <1>7, <1>8

\* A caller that joins is counted.
LEMMA JoinKeeps ==
    ASSUME WebInv, NEW c \in Callers, Join(c)
    PROVE  WebInv'
<1>a. TypeOK /\ caller[c].pc = "sampled" /\ caller[c].authority \in Authorities
  BY DEF WebInv, Join, CallerShape
<1>b. PICK a \in Authorities : a = caller[c].authority
  BY <1>a
<1>c. PICK k \in Calls : k = inflight[a]
  BY <1>a, <1>b DEF Join, TypeOK
<1>0. TypeOK /\ caller[c].pc = "sampled" /\ caller[c].authority = a
  BY <1>a, <1>b
<1>1. /\ k \in Calls /\ Await(c, k) /\ call' = [call EXCEPT ![k].waiters = @ + 1]
      /\ UNCHANGED <<now, canceled, inflight>>
  BY <1>b, <1>c DEF Join
<1>2. /\ call' \in [Calls -> Call]
      /\ call'[k].waiters = call[k].waiters + 1
      /\ \A j \in Calls \ {k} : call'[j].waiters = call[j].waiters
      /\ \A j \in Calls : /\ call'[j].phase = call[j].phase
                          /\ call'[j].authority = call[j].authority
                          /\ call'[j].canceled = call[j].canceled
  BY <1>0, <1>1 DEF TypeOK, Call
<1>3. /\ caller' \in [Callers -> Caller]
      /\ caller'[c].pc = "wait" /\ caller'[c].call = k
      /\ \A d \in Callers \ {c} : caller'[d] = caller[d]
      /\ cache' \in [Authorities -> Calls \cup {None}]
      /\ cache'[a] = None
      /\ \A b \in Authorities \ {a} : cache'[b] = cache[b]
      /\ Waiting(k)' = Waiting(k) \cup {c} /\ c \notin Waiting(k)
      /\ \A j \in Calls \ {k} : Waiting(j)' = Waiting(j)
  BY <1>0, <1>1, AwaitEffect
<1>4. call[k].authority = a /\ ~call[k].canceled
  BY <1>c, NoneAssumption DEF WebInv, InflightShape, NobodyWaitsForCanceled
<1>5. TypeOK'
  BY <1>0, <1>1, <1>2, <1>3 DEF TypeOK
<1>6. WaitersExact'
  <2>1. call'[k].waiters = Cardinality(Waiting(k)')
    BY <1>1, <1>2, <1>3, WaitingCounts DEF WebInv, WaitersExact
  <2>2. \A j \in Calls \ {k} : call'[j].waiters = Cardinality(Waiting(j)')
    BY <1>2, <1>3 DEF WebInv, WaitersExact
  <2> QED BY <2>1, <2>2 DEF WaitersExact
<1>7. NobodyWaitsForCanceled'
  BY <1>1, <1>2, <1>3, <1>4 DEF WebInv, NobodyWaitsForCanceled
<1>8. AbandonedNotCached' /\ CacheShape'
  BY <1>0, <1>1, <1>2, <1>3 DEF WebInv, AbandonedNotCached, CacheShape, TypeOK
<1>9. InflightShape' /\ LiveInflight'
  BY <1>0, <1>1, <1>2, <1>3, NoneAssumption DEF WebInv, InflightShape, LiveInflight, TypeOK
<1>10. CallerShape'
  BY <1>0, <1>1, <1>2, <1>3, <1>4 DEF WebInv, CallerShape
<1> QED BY <1>5, <1>6, <1>7, <1>8, <1>9, <1>10 DEF WebInv

\* A call that takes the name of one nobody refers to starts with one waiter.
LEMMA StartCallKeeps ==
    ASSUME WebInv, NEW c \in Callers, NEW k \in Calls, StartCall(c, k)
    PROVE  WebInv'
<1> DEFINE a == caller[c].authority
           q == [Unused EXCEPT !.phase = "fetch", !.authority = a, !.waiters = 1]
<1>0. TypeOK /\ caller[c].pc = "sampled" /\ a \in Authorities
  BY DEF WebInv, StartCall, CallerShape
<1>1. /\ Await(c, k) /\ call' = [call EXCEPT ![k] = q] /\ inflight[a] = None /\ Free(k, a)
      /\ inflight' = [inflight EXCEPT ![a] = k] /\ UNCHANGED <<now, canceled>>
  BY <1>0 DEF StartCall
<1>2. q \in Call /\ q.phase = "fetch" /\ q.authority = a /\ q.waiters = 1 /\ ~q.canceled
  <2>1. Unused \in Call /\ ~Unused.canceled
    BY BufferAssumption DEF Unused, Call
  <2> QED BY <1>0, <2>1 DEF Call
<1>3. /\ caller' \in [Callers -> Caller]
      /\ caller'[c].pc = "wait" /\ caller'[c].call = k
      /\ \A d \in Callers \ {c} : caller'[d] = caller[d]
      /\ cache' \in [Authorities -> Calls \cup {None}]
      /\ cache'[a] = None
      /\ \A b \in Authorities \ {a} : cache'[b] = cache[b]
      /\ Waiting(k)' = Waiting(k) \cup {c} /\ c \notin Waiting(k)
      /\ \A j \in Calls \ {k} : Waiting(j)' = Waiting(j)
  BY <1>0, <1>1, AwaitEffect
<1> HIDE DEF q, a
<1>4. /\ Waiting(k) = {} /\ call[k].phase \notin Live
      /\ \A b \in Authorities : cache'[b] # k
      /\ \A d \in Callers : caller[d].call # k
  BY <1>0, <1>1, <1>3, NoneAssumption DEF Free, Waiting, Live
<1>5. \A b \in Authorities : inflight[b] # k
  BY <1>4, NoneAssumption DEF WebInv, InflightShape, TypeOK
<1>6. call'[k] = q /\ \A j \in Calls \ {k} : call'[j] = call[j]
  BY <1>0, <1>1 DEF TypeOK
<1>7. inflight'[a] = k /\ \A b \in Authorities \ {a} : inflight'[b] = inflight[b]
  BY <1>0, <1>1 DEF TypeOK
<1>8. TypeOK'
  BY <1>0, <1>1, <1>2, <1>3 DEF TypeOK
<1>9. WaitersExact'
  <2>1. Cardinality(Waiting(k)') = 1
    BY <1>3, <1>4, FS_Singleton
  <2>2. call'[k].waiters = Cardinality(Waiting(k)')
    BY <2>1, <1>2, <1>6
  <2>3. \A j \in Calls \ {k} : call'[j].waiters = Cardinality(Waiting(j)')
    BY <1>3, <1>6 DEF WebInv, WaitersExact
  <2> QED BY <2>2, <2>3 DEF WaitersExact
<1>10. NobodyWaitsForCanceled'
  BY <1>0, <1>2, <1>3, <1>6, <1>7 DEF WebInv, NobodyWaitsForCanceled
<1>11. AbandonedNotCached' /\ CacheShape'
  BY <1>0, <1>3, <1>4, <1>6 DEF WebInv, AbandonedNotCached, CacheShape, TypeOK
<1>12. InflightShape'
  BY <1>0, <1>2, <1>3, <1>5, <1>6, <1>7 DEF WebInv, InflightShape, TypeOK, Live
<1>13. LiveInflight'
  BY <1>0, <1>1, <1>2, <1>6, <1>7, NoneAssumption DEF WebInv, LiveInflight, TypeOK, Live
<1>14. CallerShape'
  BY <1>0, <1>1, <1>2, <1>3, <1>4, <1>6 DEF WebInv, CallerShape
<1> QED BY <1>8, <1>9, <1>10, <1>11, <1>12, <1>13, <1>14 DEF WebInv

\* A waiter that leaves takes itself off the count, which was at least one.
LEMMA LeaveEffect ==
    ASSUME WebInv, NEW c \in Callers, caller[c].pc = "wait", NEW k \in Calls, caller[c].call = k,
           NEW r \in Calls \cup {None}, Return(c, r),
           call' \in [Calls -> Call], call'[k].waiters = call[k].waiters - 1,
           \A j \in Calls \ {k} : call'[j] = call[j]
    PROVE  /\ WaitersExact'
           /\ \A j \in Calls \ {k} : Waiting(j)' = Waiting(j)
           /\ Waiting(k)' = Waiting(k) \ {c}
<1>0. TypeOK
  BY DEF WebInv
<1>1. \A j \in Calls : Waiting(j)' = Waiting(j) \ {c}
  BY <1>0, ReturnEffect
<1>2. c \in Waiting(k) /\ \A j \in Calls \ {k} : c \notin Waiting(j)
  BY DEF Waiting
<1>3. \A j \in Calls \ {k} : Waiting(j)' = Waiting(j)
  <2> SUFFICES ASSUME NEW j \in Calls \ {k} PROVE Waiting(j)' = Waiting(j)
    OBVIOUS
  <2>1. Waiting(j) \ {c} = Waiting(j)
    BY <1>2
  <2> QED BY <1>1, <2>1
<1>4. call'[k].waiters = Cardinality(Waiting(k)')
  <2>1. Cardinality(Waiting(k) \ {c}) = Cardinality(Waiting(k)) - 1
    BY <1>2, WaitingCounts
  <2>2. call[k].waiters = Cardinality(Waiting(k))
    BY DEF WebInv, WaitersExact
  <2> QED BY <1>1, <2>1, <2>2
<1>5. \A j \in Calls \ {k} : call'[j].waiters = Cardinality(Waiting(j)')
  BY <1>3 DEF WebInv, WaitersExact
<1> QED BY <1>1, <1>3, <1>4, <1>5 DEF WaitersExact

\* The count of a call that a caller waits for is positive.
LEMMA WaitersPositive ==
    ASSUME WebInv, NEW c \in Callers, caller[c].pc = "wait", NEW k \in Calls, caller[c].call = k
    PROVE  call[k].waiters \in Nat \ {0}
<1>1. c \in Waiting(k)
  BY DEF Waiting
<1>2. Cardinality(Waiting(k)) \in Nat \ {0}
  BY <1>1, WaitingCounts
<1> QED BY <1>2 DEF WebInv, WaitersExact

\* A waiter woken by the completion of its call leaves.
LEMMA WaitDoneKeeps ==
    ASSUME WebInv, NEW c \in Callers, WaitDone(c)
    PROVE  WebInv'
<1>1. TypeOK /\ caller[c].pc = "wait" /\ caller[c].call \in Calls
  BY DEF WebInv, WaitDone, CallerShape
<1>2. PICK k \in Calls : k = caller[c].call
  BY <1>1
<1>3. PICK r \in Calls \cup {None} : Return(c, r)
  BY <1>2 DEF WaitDone
<1>4. call[k].waiters \in Nat \ {0}
  BY <1>1, <1>2, WaitersPositive
<1>5. /\ call' \in [Calls -> Call]
      /\ call'[k].waiters = call[k].waiters - 1
      /\ \A j \in Calls \ {k} : call'[j] = call[j]
      /\ \A j \in Calls : /\ call'[j].phase = call[j].phase
                          /\ call'[j].authority = call[j].authority
                          /\ call'[j].canceled = call[j].canceled
  <2>0. Released(call[k].waiters) = call[k].waiters - 1 /\ call[k].waiters - 1 \in Nat
    BY <1>4 DEF Released
  <2>1. call' = [call EXCEPT ![k].waiters = call[k].waiters - 1]
    BY <1>2, <2>0 DEF WaitDone
  <2> QED BY <1>1, <2>0, <2>1 DEF TypeOK, Call
<1>6. UNCHANGED <<now, cache, inflight>>
  BY DEF WaitDone
<1>7. /\ WaitersExact'
      /\ \A j \in Calls \ {k} : Waiting(j)' = Waiting(j)
      /\ Waiting(k)' = Waiting(k) \ {c}
  BY <1>1, <1>2, <1>3, <1>5, LeaveEffect
<1>8. /\ caller' \in [Callers -> Caller] /\ canceled' \in SUBSET Callers
      /\ caller'[c].pc = "idle" /\ \A d \in Callers \ {c} : caller'[d] = caller[d]
  BY <1>1, <1>3, ReturnEffect
<1>9. TypeOK'
  BY <1>1, <1>5, <1>6, <1>8 DEF TypeOK
<1>10. NobodyWaitsForCanceled'
  BY <1>5, <1>6, <1>7 DEF WebInv, NobodyWaitsForCanceled
<1>11. AbandonedNotCached' /\ CacheShape'
  BY <1>1, <1>5, <1>6 DEF WebInv, AbandonedNotCached, CacheShape, TypeOK
<1>12. InflightShape' /\ LiveInflight'
  BY <1>1, <1>5, <1>6 DEF WebInv, InflightShape, LiveInflight, TypeOK
<1>13. CallerShape'
  BY <1>5, <1>6, <1>8 DEF WebInv, CallerShape
<1> QED BY <1>7, <1>9, <1>10, <1>11, <1>12, <1>13 DEF WebInv

\* A waiter whose context is canceled leaves, and cancels the call only if it
\* was the last one.
LEMMA WaitCanceledKeeps ==
    ASSUME WebInv, NEW c \in Callers, WaitCanceled(c)
    PROVE  WebInv'
<1>1. TypeOK /\ caller[c].pc = "wait" /\ caller[c].call \in Calls
  BY DEF WebInv, WaitCanceled, CallerShape
<1>2. PICK k \in Calls : k = caller[c].call
  BY <1>1
<1>3. Return(c, None)
  BY DEF WaitCanceled
<1>4. call[k].waiters \in Nat \ {0}
  BY <1>1, <1>2, WaitersPositive
<1>5. PICK a \in Authorities : a = call[k].authority
  BY <1>1, <1>2 DEF WebInv, CallerShape
<1>6. PICK last \in BOOLEAN : last = Abandons(c, k)
  BY DEF Abandons
<1>7. /\ call' \in [Calls -> Call]
      /\ call'[k].waiters = call[k].waiters - 1
      /\ call'[k].canceled = (call[k].canceled \/ last)
      /\ \A j \in Calls \ {k} : call'[j] = call[j]
      /\ \A j \in Calls : /\ call'[j].phase = call[j].phase
                          /\ call'[j].authority = call[j].authority
  <2>0. Released(call[k].waiters) = call[k].waiters - 1 /\ call[k].waiters - 1 \in Nat
    BY <1>4 DEF Released
  <2>1. call' = [call EXCEPT ![k].waiters = call[k].waiters - 1, ![k].canceled = @ \/ last]
    BY <1>2, <1>6, <2>0 DEF WaitCanceled
  <2>2. call[k].canceled \in BOOLEAN
    BY <1>1 DEF TypeOK, Call
  <2> QED BY <1>1, <2>0, <2>1, <2>2 DEF TypeOK, Call
<1>8. /\ inflight' = IF last /\ inflight[a] = k THEN [inflight EXCEPT ![a] = None] ELSE inflight
      /\ UNCHANGED <<now, cache>>
  BY <1>2, <1>5, <1>6 DEF WaitCanceled
<1>9. /\ inflight' \in [Authorities -> Calls \cup {None}]
      /\ \A b \in Authorities : inflight'[b] = IF b = a /\ last /\ inflight[a] = k
                                               THEN None ELSE inflight[b]
  BY <1>1, <1>8 DEF TypeOK
<1>10. /\ WaitersExact'
       /\ \A j \in Calls \ {k} : Waiting(j)' = Waiting(j)
       /\ Waiting(k)' = Waiting(k) \ {c}
  BY <1>1, <1>2, <1>3, <1>7, LeaveEffect
<1>11. /\ caller' \in [Callers -> Caller] /\ canceled' \in SUBSET Callers
       /\ caller'[c].pc = "idle" /\ \A d \in Callers \ {c} : caller'[d] = caller[d]
  BY <1>1, <1>3, ReturnEffect
<1>12. last => Waiting(k)' = {} /\ call[k].phase # "done"
  <2>a. last => Released(call[k].waiters) = 0 /\ call[k].phase # "done"
    BY <1>6, Zenon DEF Abandons
  <2>b. Released(call[k].waiters) = 0 => call[k].waiters = 1
    BY <1>4 DEF Released
  <2>0. last => call[k].waiters = 1 /\ call[k].phase # "done"
    BY <2>a, <2>b, Zenon
  <2>1. last => Cardinality(Waiting(k)) = 1 /\ c \in Waiting(k) /\ call[k].phase # "done"
    BY <1>1, <1>2, <2>0 DEF WebInv, WaitersExact, Waiting
  <2>2. last => Waiting(k) \ {c} = {}
    BY <2>1, WaitingCounts
  <2> QED BY <1>10, <2>1, <2>2
<1>13. \A b \in Authorities : inflight[b] = k => b = a
  BY <1>5, NoneAssumption DEF WebInv, InflightShape
<1>14. TypeOK'
  BY <1>1, <1>7, <1>8, <1>9, <1>11 DEF TypeOK
<1>15. NobodyWaitsForCanceled'
  <2>1. call'[k].canceled => Waiting(k)' = {} /\ \A b \in Authorities : inflight'[b] # k
    BY <1>7, <1>9, <1>10, <1>12, <1>13, NoneAssumption DEF WebInv, NobodyWaitsForCanceled
  <2>2. \A j \in Calls \ {k} : call'[j].canceled =>
            Waiting(j)' = {} /\ \A b \in Authorities : inflight'[b] # j
    BY <1>7, <1>9, <1>10, NoneAssumption DEF WebInv, NobodyWaitsForCanceled
  <2> QED BY <2>1, <2>2 DEF NobodyWaitsForCanceled
<1>16. AbandonedNotCached' /\ CacheShape'
  BY <1>1, <1>7, <1>8, <1>12 DEF WebInv, AbandonedNotCached, CacheShape, TypeOK
<1>17. InflightShape'
  <2> SUFFICES ASSUME NEW b \in Authorities, inflight'[b] # None
               PROVE  /\ call'[inflight'[b]].phase \in Live
                      /\ call'[inflight'[b]].authority = b /\ cache'[b] = None
    BY DEF InflightShape
  <2>1. inflight'[b] = inflight[b] /\ inflight[b] \in Calls
    BY <1>1, <1>9 DEF TypeOK
  <2> QED BY <2>1, <1>7, <1>8 DEF WebInv, InflightShape
<1>18. LiveInflight'
  <2> SUFFICES ASSUME NEW j \in Calls, call'[j].phase \in Live
               PROVE  /\ call'[j].authority \in Authorities
                      /\ call'[j].canceled \/ inflight'[call'[j].authority] = j
    BY DEF LiveInflight
  <2>1. CASE j = k
    BY <2>1, <1>5, <1>7, <1>9 DEF WebInv, LiveInflight
  <2>2. CASE j # k
    BY <2>2, <1>7, <1>9 DEF WebInv, LiveInflight
  <2> QED BY <2>1, <2>2
<1>19. CallerShape'
  BY <1>7, <1>8, <1>11 DEF WebInv, CallerShape
<1> QED BY <1>10, <1>14, <1>15, <1>16, <1>17, <1>18, <1>19 DEF WebInv

\* A fetch that ends, well or not, stays the one in flight.
LEMMA FetchKeeps ==
    ASSUME WebInv, NEW k \in Calls,
           FetchFails(k) \/ \E e \in 1 .. MaxTime + 1 : FetchSucceeds(k, e)
    PROVE  WebInv'
<1>0. TypeOK
  BY DEF WebInv
<1>1. /\ call' \in [Calls -> Call] /\ call[k].phase = "fetch" /\ call'[k].phase = "fetched"
      /\ \A j \in Calls : /\ j # k => call'[j].phase = call[j].phase
                          /\ call'[j].waiters = call[j].waiters
                          /\ call'[j].authority = call[j].authority
                          /\ call'[j].canceled = call[j].canceled
  <2>1. CASE FetchFails(k)
    BY <1>0, <2>1 DEF FetchFails, TypeOK, Call
  <2>2. CASE \E e \in 1 .. MaxTime + 1 : FetchSucceeds(k, e)
    <3>1. PICK e \in 1 .. MaxTime + 1 : FetchSucceeds(k, e)
      BY <2>2
    <3>2. e \in 0 .. MaxTime + 1
      BY BufferAssumption
    <3> DEFINE q == [call[k] EXCEPT !.phase = "fetched", !.ok = TRUE, !.expiresAt = e]
    <3>3. call' = [call EXCEPT ![k] = q] /\ call[k].phase = "fetch"
      BY <1>0, <3>1 DEF FetchSucceeds, TypeOK
    <3>4. /\ q \in Call /\ q.phase = "fetched" /\ q.waiters = call[k].waiters
          /\ q.authority = call[k].authority /\ q.canceled = call[k].canceled
      BY <1>0, <3>2 DEF TypeOK, Call
    <3> HIDE DEF q
    <3> QED BY <1>0, <3>3, <3>4 DEF TypeOK
  <2> QED BY <2>1, <2>2
<1>2. UNCHANGED <<now, caller, canceled, cache, inflight>>
  BY DEF FetchFails, FetchSucceeds
<1>3. \A j \in Calls : Waiting(j)' = Waiting(j)
  BY <1>2 DEF Waiting
<1>4. TypeOK'
  BY <1>0, <1>1, <1>2 DEF TypeOK
<1>5. WaitersExact' /\ NobodyWaitsForCanceled'
  BY <1>1, <1>2, <1>3 DEF WebInv, WaitersExact, NobodyWaitsForCanceled
<1>6. AbandonedNotCached' /\ CacheShape'
  BY <1>0, <1>1, <1>2 DEF WebInv, AbandonedNotCached, CacheShape, TypeOK
<1>7. InflightShape' /\ LiveInflight'
  BY <1>0, <1>1, <1>2 DEF WebInv, InflightShape, LiveInflight, TypeOK, Live
<1>8. CallerShape'
  BY <1>1, <1>2 DEF WebInv, CallerShape
<1> QED BY <1>4, <1>5, <1>6, <1>7, <1>8 DEF WebInv

\* A call that completes is cached only if it is the one in flight.
LEMMA signWebBotAuthKeeps ==
    ASSUME WebInv, NEW k \in Calls, signWebBotAuth(k)
    PROVE  WebInv'
<1>0. TypeOK
  BY DEF WebInv
<1>1. PICK a \in Authorities : a = call[k].authority
  BY DEF WebInv, signWebBotAuth, LiveInflight, Live
<1>2. /\ call' \in [Calls -> Call] /\ call[k].phase = "fetched" /\ call'[k].phase = "done"
      /\ \A j \in Calls : /\ j # k => call'[j].phase = call[j].phase
                          /\ call'[j].waiters = call[j].waiters
                          /\ call'[j].authority = call[j].authority
                          /\ call'[j].canceled = call[j].canceled
  BY <1>0 DEF signWebBotAuth, TypeOK, Call
<1>3. UNCHANGED <<now, caller, canceled>>
  BY DEF signWebBotAuth
<1>4. /\ inflight' \in [Authorities -> Calls \cup {None}]
      /\ \A b \in Authorities : inflight'[b] = IF b = a /\ inflight[a] = k THEN None ELSE inflight[b]
  BY <1>0, <1>1 DEF signWebBotAuth, Current, TypeOK
<1>5. /\ cache' \in [Authorities -> Calls \cup {None}]
      /\ \A b \in Authorities : cache'[b] = cache[b] \/ (b = a /\ inflight[a] = k /\ cache'[b] = k)
  BY <1>0, <1>1 DEF signWebBotAuth, Current, TypeOK
<1>6. \A j \in Calls : Waiting(j)' = Waiting(j)
  BY <1>3 DEF Waiting
<1>7. inflight[a] = k => ~call[k].canceled /\ cache[a] = None
  BY NoneAssumption DEF WebInv, NobodyWaitsForCanceled, InflightShape
<1>8. TypeOK'
  BY <1>0, <1>2, <1>3, <1>4, <1>5 DEF TypeOK
<1>9. WaitersExact'
  BY <1>2, <1>6 DEF WebInv, WaitersExact
<1>10. NobodyWaitsForCanceled'
  BY <1>2, <1>4, <1>6, NoneAssumption DEF WebInv, NobodyWaitsForCanceled
<1>11. AbandonedNotCached' /\ CacheShape'
  <2> SUFFICES ASSUME NEW b \in Authorities, cache'[b] # None
               PROVE  /\ ~call'[cache'[b]].canceled
                      /\ call'[cache'[b]].phase = "done" /\ call'[cache'[b]].authority = b
    BY DEF AbandonedNotCached, CacheShape
  <2>1. CASE cache'[b] = cache[b]
    BY <2>1, <1>0, <1>2 DEF WebInv, AbandonedNotCached, CacheShape, TypeOK
  <2>2. CASE b = a /\ inflight[a] = k /\ cache'[b] = k
    BY <2>2, <1>1, <1>2, <1>7
  <2> QED BY <1>5, <2>1, <2>2
<1>12. InflightShape'
  <2> SUFFICES ASSUME NEW b \in Authorities, inflight'[b] # None
               PROVE  /\ call'[inflight'[b]].phase \in Live
                      /\ call'[inflight'[b]].authority = b /\ cache'[b] = None
    BY DEF InflightShape
  <2>1. inflight'[b] = inflight[b] /\ inflight[b] \in Calls /\ ~(b = a /\ inflight[a] = k)
    BY <1>0, <1>4 DEF TypeOK
  <2>2. call[inflight[b]].authority = b /\ call[inflight[b]].phase \in Live /\ cache[b] = None
    BY <2>1 DEF WebInv, InflightShape
  <2>3. inflight[b] # k
    BY <2>1, <2>2, <1>1
  <2> QED BY <2>1, <2>2, <2>3, <1>2, <1>5
<1>13. LiveInflight'
  <2> SUFFICES ASSUME NEW j \in Calls, call'[j].phase \in Live
               PROVE  /\ call'[j].authority \in Authorities
                      /\ call'[j].canceled \/ inflight'[call'[j].authority] = j
    BY DEF LiveInflight
  <2>1. j # k /\ call[j].phase \in Live
    BY <1>2 DEF Live
  <2> QED BY <2>1, <1>2, <1>4 DEF WebInv, LiveInflight
<1>14. CallerShape'
  BY <1>2, <1>3 DEF WebInv, CallerShape
<1> QED BY <1>8, <1>9, <1>10, <1>11, <1>12, <1>13, <1>14 DEF WebInv

\* The environment cancels a context, or the clock advances, no further than
\* the callers under mu allow.
LEMMA EnvironmentKeeps ==
    ASSUME WebInv, Tick \/ (\E c \in Callers : Cancel(c)) \/ UNCHANGED vars
    PROVE  WebInv'
<1>0. TypeOK
  BY DEF WebInv
<1>1. UNCHANGED <<caller, cache, inflight, call>>
  BY DEF Tick, Cancel, vars
<1>2. \A j \in Calls : Waiting(j)' = Waiting(j)
  BY <1>1 DEF Waiting
<1>3. TypeOK'
  BY <1>0, BufferAssumption DEF TypeOK, Tick, Cancel, vars
<1>4. CallerShape'
  <2>1. CASE Tick
    BY <2>1, <1>0, BufferAssumption DEF WebInv, Tick, CallerShape, TypeOK, Caller
  <2>2. CASE UNCHANGED now
    BY <2>2, <1>1 DEF WebInv, CallerShape
  <2> QED BY <2>1, <2>2 DEF Cancel, vars
<1>5. WaitersExact' /\ NobodyWaitsForCanceled'
  BY <1>1, <1>2 DEF WebInv, WaitersExact, NobodyWaitsForCanceled
<1>6. AbandonedNotCached' /\ InflightShape' /\ LiveInflight' /\ CacheShape'
  BY <1>1 DEF WebInv, AbandonedNotCached, InflightShape, LiveInflight, CacheShape
<1> QED BY <1>3, <1>4, <1>5, <1>6 DEF WebInv

-----------------------------------------------------------------------------
\* The invariant of WebBotAuth.
THEOREM WebInvariant == Spec => []WebInv
<1>1. Init => WebInv
  <2> SUFFICES ASSUME Init PROVE WebInv
    OBVIOUS
  <2>1. Idle \in Caller /\ Idle.pc = "idle" /\ Unused \in Call
    BY BufferAssumption DEF Idle, Caller, Unused, Call
  <2>2. \A k \in Calls : call[k] = Unused /\ Waiting(k) = {}
    BY <2>1 DEF Init, Waiting
  <2>3. Unused.phase = "unused" /\ Unused.waiters = 0 /\ ~Unused.canceled
    BY DEF Unused
  <2>4. TypeOK
    BY <2>1, BufferAssumption DEF Init, TypeOK
  <2>5. WaitersExact /\ NobodyWaitsForCanceled /\ LiveInflight
    BY <2>2, <2>3, FS_EmptySet DEF WaitersExact, NobodyWaitsForCanceled, LiveInflight, Live
  <2>6. AbandonedNotCached /\ InflightShape /\ CacheShape /\ CallerShape
    BY <2>1 DEF Init, AbandonedNotCached, InflightShape, CacheShape, CallerShape
  <2> QED BY <2>4, <2>5, <2>6 DEF WebInv
<1>2. WebInv /\ [Next]_vars => WebInv'
  BY SignURLKeeps, ServeCachedKeeps, JoinKeeps, WaitDoneKeeps, WaitCanceledKeeps,
     StartCallKeeps, FetchKeeps, signWebBotAuthKeeps, EnvironmentKeeps DEF Next, Wake
<1> QED BY <1>1, <1>2, PTL DEF Spec

\* WebBotAuth's state has its type; in particular the count never goes negative.
THEOREM TypeCorrect == Spec => []TypeOK
<1>1. WebInv => TypeOK
  BY DEF WebInv
<1> QED BY <1>1, WebInvariant, PTL

\* The waiter count equals the number of callers that wait for the call.
THEOREM WaitersExactHolds == Spec => []WaitersExact
<1>1. WebInv => WaitersExact
  BY DEF WebInv
<1> QED BY <1>1, WebInvariant, PTL

\* A caller's cancellation reaches no other caller: nobody waits for, or can
\* join, a call that was canceled.
THEOREM NobodyWaitsForCanceledHolds == Spec => []NobodyWaitsForCanceled
<1>1. WebInv => NobodyWaitsForCanceled
  BY DEF WebInv
<1> QED BY <1>1, WebInvariant, PTL

\* Of the fetches under way for an authority at most one is not canceled.
THEOREM OneLiveFetchHolds == Spec => []OneLiveFetch
<1>1. WebInv => OneLiveFetch
  BY DEF WebInv, LiveInflight, Live, OneLiveFetch
<1> QED BY <1>1, WebInvariant, PTL

\* The result of an abandoned call is never cached.
THEOREM AbandonedNotCachedHolds == Spec => []AbandonedNotCached
<1>1. WebInv => AbandonedNotCached
  BY DEF WebInv
<1> QED BY <1>1, WebInvariant, PTL

\* A cached block is dropped or replaced only once it is no longer fresh: a miss
\* drops it on a clock reading that is not ahead of the clock, and a call that
\* completes finds nothing cached.
THEOREM CacheKeptWhileFreshHolds == Spec => CacheKeptWhileFresh
<1> DEFINE Kept == \A a \in Authorities : cache[a] # None /\ cache'[a] # cache[a] => ~Fresh(cache[a], now)
<1>1. WebInv /\ [Next]_vars => [Kept]_vars
  <2> SUFFICES ASSUME WebInv, [Next]_vars,
                      NEW a \in Authorities, cache[a] # None, cache'[a] # cache[a]
               PROVE  ~Fresh(cache[a], now)
    BY DEF Kept
  <2>0. TypeOK /\ cache[a] \in Calls
    BY DEF WebInv, TypeOK
  <2>1. ASSUME NEW c \in Callers, NEW k, caller[c].pc = "sampled", ~Hit(c), Await(c, k)
        PROVE  ~Fresh(cache[a], now)
    <3>1. caller[c].authority = a
      BY <2>0, <2>1 DEF Await, TypeOK
    <3>2. ~Fresh(cache[a], caller[c].at)
      BY <2>1, <3>1 DEF Hit
    <3>3. /\ caller[c].at \in Int /\ now \in Int /\ caller[c].at <= now
          /\ call[cache[a]].expiresAt \in Int /\ Buffer \in Int
      BY <2>0, <2>1, BufferAssumption DEF WebInv, CallerShape, TypeOK, Caller, Call
    <3> QED BY <3>2, <3>3 DEF Fresh
  <2>2. ASSUME NEW k \in Calls, signWebBotAuth(k) PROVE FALSE
    <3>1. call[k].authority = a /\ inflight[a] = k
      BY <2>0, <2>2 DEF signWebBotAuth, Current, TypeOK
    <3> QED BY <3>1, NoneAssumption DEF WebInv, InflightShape
  <2>3. \/ \E c \in Callers : Join(c) \/ \E k \in Calls : StartCall(c, k)
        \/ \E k \in Calls : signWebBotAuth(k)
    BY DEF Next, Wake, SignURL, ServeCached, WaitDone, WaitCanceled, Cancel, FetchSucceeds,
           FetchFails, Tick, vars
  <2> QED BY <2>1, <2>2, <2>3 DEF Join, StartCall
<1> QED BY <1>1, WebInvariant, PTL DEF Spec, CacheKeptWhileFresh, Kept

\* A block served from the cache has not expired when it is served: the clock
\* was read at most MaxDelay earlier, which the buffer covers.
THEOREM ServedUnexpiredHolds == Spec => ServedUnexpired
<1> DEFINE Unexpired == \A c \in Callers :
              caller[c].pc = "sampled" /\ caller'[c].pc = "idle"
                  => now < call[caller'[c].result].expiresAt
<1>1. WebInv /\ [Next]_vars => [Unexpired]_vars
  <2> SUFFICES ASSUME WebInv, [Next]_vars,
                      NEW c \in Callers, caller[c].pc = "sampled", caller'[c].pc = "idle"
               PROVE  now < call[caller'[c].result].expiresAt
    BY DEF Unexpired
  <2>0. TypeOK /\ caller[c].authority \in Authorities
    BY DEF WebInv, CallerShape
  <2>1. ServeCached(c)
    <3>1. ASSUME NEW d \in Callers, NEW a \in Authorities, SignURL(d, a) PROVE FALSE
      BY <3>1, <2>0 DEF SignURL, TypeOK, Idle
    <3>2. ASSUME NEW d \in Callers, ServeCached(d) PROVE d = c
      BY <3>2, <2>0 DEF ServeCached, Return, TypeOK
    <3>3. ASSUME NEW d \in Callers, NEW k, Await(d, k) PROVE FALSE
      BY <3>3, <2>0 DEF Await, TypeOK, Caller
    <3>4. ASSUME NEW d \in Callers, NEW k, Return(d, k), caller[d].pc = "wait" PROVE FALSE
      BY <3>4, <2>0 DEF Return, TypeOK
    <3>5. caller' # caller
      OBVIOUS
    <3>6. \E d \in Callers :
             \/ \E a \in Authorities : SignURL(d, a)
             \/ ServeCached(d) \/ Join(d) \/ Wake(d)
             \/ \E k \in Calls : StartCall(d, k)
      BY <3>5 DEF Next, Cancel, FetchSucceeds, FetchFails, signWebBotAuth, Tick, vars
    <3> QED BY <3>1, <3>2, <3>3, <3>4, <3>6 DEF Join, StartCall, Wake, WaitDone, WaitCanceled
  <2>2. PICK k \in Calls : k = cache[caller[c].authority]
    BY <2>0, <2>1 DEF ServeCached, Hit, TypeOK
  <2>3. Fresh(k, caller[c].at) /\ Return(c, k)
    BY <2>1, <2>2 DEF ServeCached, Hit
  <2>4. caller'[c].result = k
    BY <2>0, <2>3, ReturnEffect
  <2>5. /\ caller[c].at \in Int /\ now \in Int /\ now - caller[c].at <= MaxDelay
        /\ call[k].expiresAt \in Int /\ Buffer \in Int /\ MaxDelay \in Int /\ MaxDelay <= Buffer
    BY <2>0, BufferAssumption DEF WebInv, CallerShape, TypeOK, Caller, Call
  <2> QED BY <2>3, <2>4, <2>5 DEF Fresh
<1> QED BY <1>1, WebInvariant, PTL DEF Spec, ServedUnexpired, Unexpired
=============================================================================

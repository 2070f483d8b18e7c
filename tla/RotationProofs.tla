--------------------------- MODULE RotationProofs ---------------------------
(***************************************************************************)
(* Which generations a tokenProvider hands out and which it rotates, for   *)
(* any number of Clients, callers, generations and refreshes: a token that *)
(* is handed out was stored, an accepted rotation is accounted for and is  *)
(* not attempted again, and whoever asks for another token than the one    *)
(* the API has refused gets another one.                                   *)
(***************************************************************************)
EXTENDS TokenProviderProofs

\* The generation t, where storage holds s and has held the generations r.
StoredIn(s, r, t) == t \in r \/ (s # None /\ s.id = t)

\* Storage holds or has held the generation t.
WasStored(t) == StoredIn(stored, retired, t)

\* What a caller has read from storage it uses at once, inside the decision.
SnapShape == \A c \in Callers : snapshot[c] # None => pc[c] = "decide"

\* Whatever callers and refreshes hold, but for the outcome of a rotation that
\* waits for its commit, storage has held.
Kept ==
    /\ \A c \in Callers :
          /\ result[c] # None => WasStored(result[c])
          /\ rejected[c] # None => WasStored(rejected[c])
          /\ snapshot[c] # None => WasStored(snapshot[c].id)
    /\ \A k \in CallIds :
          /\ calls[k].out # None => WasStored(calls[k].out)
          /\ calls[k].phase \in Running => WasStored(calls[k].source.id)

\* A generation is stored once, and one that waits for its commit not yet.
Fresh ==
    /\ retired \subseteq issued
    /\ stored # None => stored.id \in issued /\ stored.id \notin retired
    /\ \A k \in CallIds : calls[k].phase = "commit" =>
          /\ calls[k].refreshed \in issued /\ ~WasStored(calls[k].refreshed)
          /\ \A j \in CallIds \ {k} :
                calls[j].phase = "commit" => calls[j].refreshed # calls[k].refreshed

StoredInv == SnapShape /\ Kept /\ Fresh

\* No credentials lack expires_at, so that equal generations are equal values
\* (sameAuthTokens compares the values).
Dated ==
    /\ stored # None => stored.dated
    /\ \A c \in Callers : snapshot[c] # None => snapshot[c].dated
    /\ \A k \in CallIds : calls[k].phase \in Running => calls[k].source.dated

\* RotationAccounted, for each provider of its own.
AccountedByOwner ==
    \A t \in Tokens : \A p \in redeemed[t] :
        \/ t \in retired \cup unsaved
        \/ \E k \in CallIds :
              calls[k].phase = "commit" /\ calls[k].owner = p /\ calls[k].source.id = t

\* NoSecondRotation, from the moment the generation is read.
NotReadAgain ==
    \A c \in Callers :
        snapshot[c] # None /\ ProviderOf[c] \in redeemed[snapshot[c].id]
            => snapshot[c].id \in unsaved

\* A caller of p holds the token x, or can get it from a refresh that is over,
\* where R and J are the callers' tokens and C the refreshes.
HoldsIn(R, J, C, p, x) ==
    \/ \E c \in Callers : ProviderOf[c] = p /\ x \in {R[c], J[c]}
    \/ \E j \in CallIds : C[j].owner = p /\ C[j].phase = "done" /\ C[j].out = x

Holds(p, x) == HoldsIn(result, rejected, calls, p, x)

\* While a provider decides or refreshes, its callers hold nothing newer than the
\* generation it works from; the outcome of its refresh is new to all of them.
Newest ==
    /\ \A c \in Callers, x \in Tokens :
          snapshot[c] # None /\ Holds(ProviderOf[c], x) => x \in retired \cup {snapshot[c].id}
    /\ \A k \in CallIds, x \in Tokens :
          calls[k].phase \in {"remote", "reload", "commit"} /\ Holds(calls[k].owner, x)
              => x \in retired \cup {calls[k].source.id}
    /\ \A k \in CallIds :
          calls[k].phase = "finish" /\ calls[k].out # None => ~Holds(calls[k].owner, calls[k].out)
    /\ \A c \in Callers :
          pc[c] = "wait" /\ calls[joined[c]].phase = "done" /\ rejected[c] # None
              => calls[joined[c]].out # rejected[c]

RotationInv == Dated /\ AccountedByOwner /\ NotReadAgain /\ NoSecondRotation /\ Newest

(***************************************************************************)
(* What a step may do, as far as these invariants can tell.                *)
(***************************************************************************)

\* A caller keeps or drops what it holds, is answered from what it read or from
\* a refresh that is over, or reads storage.
CallerMove(c) ==
    /\ rejected'[c] \in {rejected[c], None, result[c]}
    /\ \/ result'[c] \in {result[c], None}
       \/ snapshot[c] # None /\ snapshot'[c] = None /\ result'[c] = snapshot[c].id
       \/ /\ joined[c] \in CallIds /\ calls[joined[c]].phase = "done"
          /\ calls[joined[c]].owner = ProviderOf[c] /\ result'[c] = calls[joined[c]].out
    /\ \/ snapshot'[c] \in {snapshot[c], None}
       \/ snapshot'[c] = stored /\ UNCHANGED <<stored, retired>>
    /\ pc'[c] = "wait" =>
          \/ pc[c] = "wait" /\ joined'[c] = joined[c] /\ rejected'[c] = rejected[c]
          \/ joined'[c] = inflight'[ProviderOf[c]]

\* What may become of the refresh k.
Same(k) ==
    /\ calls'[k].phase = calls[k].phase /\ calls'[k].owner = calls[k].owner
    /\ calls'[k].source = calls[k].source /\ calls'[k].refreshed = calls[k].refreshed
    /\ calls'[k].out = calls[k].out

Ended(k) ==
    /\ calls'[k].phase = "unused" /\ calls'[k].out = None
    /\ calls[k].phase = "commit" => calls[k].source.id \in unsaved'

Published(k) ==
    /\ calls[k].phase = "unused" /\ calls'[k].phase = "remote" /\ calls'[k].out = None
    /\ \E c \in Callers : /\ snapshot[c] # None /\ calls'[k].source = snapshot[c]
                          /\ calls'[k].owner = ProviderOf[c]

Granted(k) ==
    /\ calls[k].phase = "remote" /\ calls'[k].phase = "commit"
    /\ calls'[k].owner = calls[k].owner /\ calls'[k].source = calls[k].source
    /\ calls'[k].out = calls[k].out
    /\ calls'[k].refreshed \in issued' \ issued /\ UNCHANGED <<stored, retired>>

Reloading(k) ==
    /\ calls[k].phase = "remote" /\ calls'[k].phase = "reload"
    /\ calls'[k].owner = calls[k].owner /\ calls'[k].source = calls[k].source
    /\ calls'[k].out = calls[k].out

Concluded(k) ==
    /\ calls[k].phase \in {"reload", "commit"} /\ calls'[k].phase = "finish"
    /\ calls'[k].owner = calls[k].owner /\ calls'[k].source = calls[k].source
    /\ \/ calls'[k].out = None
       \/ /\ stored # None /\ stored # calls[k].source /\ calls'[k].out = stored.id
       \/ /\ calls[k].phase = "commit" /\ calls'[k].out = calls[k].refreshed
          /\ stored' # None /\ stored'.id = calls[k].refreshed
    /\ calls[k].phase = "commit" =>
          \/ calls[k].source.id \in unsaved' \cup retired'
          \/ stored # calls[k].source

Completed(k) ==
    /\ calls[k].phase = "finish" /\ calls'[k].phase = "done"
    /\ calls'[k].owner = calls[k].owner /\ calls'[k].out = calls[k].out

\* Storage keeps its generation, and at most dates it.
StorageKept ==
    /\ retired' = retired
    /\ IF stored = None THEN stored' = None
       ELSE stored' # None /\ stored'.id = stored.id /\ (stored' = stored \/ stored'.dated)

\* Storage is cleared, or takes a new login or what the refresh m has brought for
\* the generation it holds.
StorageReplaced(m) ==
    /\ Retire
    /\ stored' # None =>
          /\ stored'.dated
          /\ \/ stored'.id \in issued' \ issued
             \/ /\ m \in CallIds /\ calls[m].phase = "commit" /\ calls'[m].phase = "finish"
                /\ stored'.id = calls[m].refreshed

\* A step in which no refresh but m makes progress.
Move(m) ==
    /\ StructInv' /\ SnapShape'
    /\ \A c \in Callers : CallerMove(c)
    /\ \A k \in CallIds :
          \/ Same(k) \/ Ended(k)
          \/ k = m /\ (Published(k) \/ Granted(k) \/ Reloading(k) \/ Concluded(k) \/ Completed(k))
    /\ StorageKept \/ StorageReplaced(m)
    /\ issued \subseteq issued' /\ unsaved \subseteq unsaved'
    /\ \/ redeemed' = redeemed
       \/ /\ m \in CallIds /\ Redeem(m)
          /\ Granted(m) \/ (Reloading(m) /\ calls[m].source.id \in unsaved')

\* What storage has held it has held for ever.
LEMMA WasStoredStays ==
    ASSUME NEW m, Move(m), NEW t, WasStored(t)
    PROVE  StoredIn(stored', retired', t)
BY DEF Move, StorageKept, StorageReplaced, Retire, WasStored, StoredIn

\* Tokens handed out and sources of refreshes have been stored.
LEMMA KeptMove ==
    ASSUME StructInv, StoredInv, NEW m, Move(m)
    PROVE  Kept'
<1> USE NoneAssumption
<1>1. \A t : WasStored(t) => StoredIn(stored', retired', t)
  BY WasStoredStays
<1>2. stored' # None => StoredIn(stored', retired', stored'.id)
  BY DEF WasStored, StoredIn
<1>3. ASSUME NEW c \in Callers
      PROVE  /\ result'[c] # None => StoredIn(stored', retired', result'[c])
             /\ rejected'[c] # None => StoredIn(stored', retired', rejected'[c])
             /\ snapshot'[c] # None => StoredIn(stored', retired', snapshot'[c].id)
  <2>1. CallerMove(c)
    BY DEF Move
  <2>2. /\ result[c] # None => WasStored(result[c])
        /\ rejected[c] # None => WasStored(rejected[c])
        /\ snapshot[c] # None => WasStored(snapshot[c].id)
        /\ \A k \in CallIds : calls[k].out # None => WasStored(calls[k].out)
    BY DEF StoredInv, Kept
  <2> QED BY <1>1, <1>2, <2>1, <2>2 DEF CallerMove
<1>4. ASSUME NEW k \in CallIds
      PROVE  /\ calls'[k].out # None => StoredIn(stored', retired', calls'[k].out)
             /\ calls'[k].phase \in Running => StoredIn(stored', retired', calls'[k].source.id)
  <2>1. /\ calls[k].out # None => WasStored(calls[k].out)
        /\ calls[k].phase \in Running => WasStored(calls[k].source.id)
        /\ \A c \in Callers : snapshot[c] # None => WasStored(snapshot[c].id)
    BY DEF StoredInv, Kept
  <2>2. CASE Same(k)
    BY <1>1, <2>1, <2>2 DEF Same
  <2>3. CASE Ended(k)
    BY <2>3 DEF Ended, Running
  <2>4. CASE Published(k)
    BY <1>1, <2>1, <2>4 DEF Published
  <2>5. CASE Granted(k) \/ Reloading(k)
    BY <1>1, <2>1, <2>5 DEF Granted, Reloading, Running
  <2>6. CASE Concluded(k)
    <3>1. stored # None => WasStored(stored.id)
      BY DEF WasStored, StoredIn
    <3> QED BY <1>1, <1>2, <2>1, <2>6, <3>1 DEF Concluded, Running
  <2>7. CASE Completed(k)
    BY <1>1, <2>1, <2>7 DEF Completed, Running
  <2> QED BY <2>2, <2>3, <2>4, <2>5, <2>6, <2>7 DEF Move
<1> QED BY <1>3, <1>4 DEF Kept, WasStored, StoredIn

\* A generation is stored once.
LEMMA FreshMove ==
    ASSUME StructInv, StoredInv, NEW m, Move(m)
    PROVE  Fresh'
<1> USE NoneAssumption
<1>0. Fresh /\ Kept /\ issued \subseteq issued'
  BY DEF StoredInv, Move
<1>1. /\ retired' \subseteq issued'
      /\ stored' # None => stored'.id \in issued' /\ stored'.id \notin retired'
  <2>1. CASE StorageKept
    BY <1>0, <2>1 DEF StorageKept, Fresh
  <2>2. CASE StorageReplaced(m)
    BY <1>0, <2>2 DEF StorageReplaced, Retire, Fresh, WasStored, StoredIn
  <2> QED BY <2>1, <2>2 DEF Move
<1>2. ASSUME NEW k \in CallIds, calls'[k].phase = "commit"
      PROVE  \/ Granted(k) /\ k = m
             \/ calls[k].phase = "commit" /\ calls'[k].refreshed = calls[k].refreshed
  BY <1>2 DEF Move, Same, Ended, Published, Reloading, Concluded, Completed
<1>3. ASSUME NEW k \in CallIds, calls'[k].phase = "commit"
      PROVE  /\ calls'[k].refreshed \in issued' /\ ~StoredIn(stored', retired', calls'[k].refreshed)
             /\ \A j \in CallIds \ {k} :
                   calls'[j].phase = "commit" => calls'[j].refreshed # calls'[k].refreshed
  <2>1. CASE Granted(k) /\ k = m
    <3>1. calls'[k].refreshed \in issued' \ issued /\ UNCHANGED <<stored, retired>>
      BY <2>1 DEF Granted
    <3>2. ~StoredIn(stored', retired', calls'[k].refreshed)
      BY <1>0, <3>1 DEF Fresh, WasStored, StoredIn
    <3>3. \A j \in CallIds \ {k} : calls'[j].phase = "commit" => calls'[j].refreshed \in issued
      BY <1>0, <1>2, <2>1 DEF Fresh
    <3> QED BY <3>1, <3>2, <3>3
  <2>2. CASE calls[k].phase = "commit" /\ calls'[k].refreshed = calls[k].refreshed
    <3>1. /\ calls[k].refreshed \in issued /\ ~WasStored(calls[k].refreshed)
          /\ \A j \in CallIds \ {k} :
                calls[j].phase = "commit" => calls[j].refreshed # calls[k].refreshed
      BY <1>0, <2>2 DEF Fresh
    <3>2. ~StoredIn(stored', retired', calls[k].refreshed)
      <4>1. CASE StorageKept
        BY <3>1, <4>1 DEF StorageKept, WasStored, StoredIn
      <4>2. CASE StorageReplaced(m)
        BY <1>3, <2>2, <3>1, <4>2 DEF StorageReplaced, Retire, WasStored, StoredIn
      <4> QED BY <4>1, <4>2 DEF Move
    <3>3. \A j \in CallIds \ {k} :
              calls'[j].phase = "commit" => calls'[j].refreshed # calls[k].refreshed
      BY <1>2, <3>1 DEF Granted
    <3> QED BY <1>0, <2>2, <3>1, <3>2, <3>3
  <2> QED BY <1>2, <1>3, <2>1, <2>2
<1> QED BY <1>1, <1>3 DEF Fresh, WasStored, StoredIn

\* Every transaction dates what it stores.
LEMMA DatedMove ==
    ASSUME StructInv, Dated, NEW m, Move(m)
    PROVE  Dated'
<1>1. stored' # None => stored'.dated
  BY DEF Dated, Move, StorageKept, StorageReplaced
<1>2. \A c \in Callers : snapshot'[c] # None => snapshot'[c].dated
  BY DEF Dated, Move, CallerMove
<1>3. ASSUME NEW k \in CallIds, calls'[k].phase \in Running PROVE calls'[k].source.dated
  <2>1. \/ calls[k].phase \in Running /\ calls'[k].source = calls[k].source
        \/ \E c \in Callers : snapshot[c] # None /\ calls'[k].source = snapshot[c]
    BY <1>3 DEF Move, Running, Same, Ended, Published, Granted, Reloading, Concluded, Completed
  <2> QED BY <2>1 DEF Dated
<1> QED BY <1>1, <1>2, <1>3 DEF Dated

\* A generation that a refresh started from and that storage does not hold any
\* more, as a value, is retired.
LEMMA SourceRetired ==
    ASSUME StructInv, Kept, Dated, NEW k \in CallIds, calls[k].phase \in Running,
           stored # calls[k].source
    PROVE  calls[k].source.id \in retired
<1>1. ASSUME NEW a \in AuthTokens, NEW b \in AuthTokens, a.id = b.id, a.dated, b.dated
      PROVE  a = b
  BY <1>1 DEF AuthTokens
<1>2. /\ calls[k].source \in AuthTokens /\ calls[k].source.dated
      /\ stored # None => stored \in AuthTokens /\ stored.dated
  BY DEF StructInv, TypeOK, CallShape, Dated
<1> QED BY <1>1, <1>2 DEF Kept, WasStored, StoredIn

\* Every accepted rotation stays accounted for, to the provider that made it.
LEMMA AccountedMove ==
    ASSUME StructInv, StoredInv, RotationInv, NEW m, Move(m)
    PROVE  AccountedByOwner'
<1> USE NoneAssumption
<1>0. StructInv' /\ retired \subseteq retired' /\ unsaved \subseteq unsaved'
  BY DEF Move, StorageKept, StorageReplaced, Retire
<1> SUFFICES ASSUME NEW t \in Tokens, NEW p \in redeemed'[t], t \notin retired' \cup unsaved'
             PROVE  \E k \in CallIds :
                        /\ calls'[k].phase = "commit" /\ calls'[k].owner = p
                        /\ calls'[k].source.id = t
  BY DEF AccountedByOwner
<1>1. CASE p \in redeemed[t]
  <2>1. PICK k \in CallIds :
            calls[k].phase = "commit" /\ calls[k].owner = p /\ calls[k].source.id = t
    BY <1>0, <1>1 DEF RotationInv, AccountedByOwner
  <2>2. ~Ended(k)
    BY <2>1 DEF Ended
  <2>3. ~Concluded(k)
    <3>1. stored # calls[k].source => calls[k].source.id \in retired
      BY <2>1, SourceRetired DEF StoredInv, RotationInv, Running
    <3> QED BY <1>0, <2>1, <3>1 DEF Concluded
  <2>4. Same(k)
    BY <2>1, <2>2, <2>3 DEF Move, Published, Granted, Reloading, Completed
  <2> QED BY <2>1, <2>4 DEF Same
<1>2. CASE p \notin redeemed[t]
  <2>1. /\ m \in CallIds /\ Redeem(m)
        /\ Granted(m) \/ (Reloading(m) /\ calls[m].source.id \in unsaved')
    BY <1>2 DEF Move
  <2>2. t = calls[m].source.id /\ p = calls[m].owner
    BY <1>2, <2>1 DEF Redeem, StructInv, TypeOK
  <2> QED BY <2>1, <2>2 DEF Granted
<1> QED BY <1>1, <1>2

\* A running refresh excludes the decisions and the other refreshes of its
\* provider.
LEMMA Alone ==
    ASSUME StructInv, SnapShape, NEW k \in CallIds, calls[k].phase \in Running
    PROVE  /\ \A c \in Callers : ProviderOf[c] = calls[k].owner => snapshot[c] = None
           /\ \A j \in CallIds : calls[j].phase \in Running /\ calls[j].owner = calls[k].owner => j = k
BY NoneAssumption DEF StructInv, SnapShape, SingleFlight, DecisionExclusive

\* Who redeems a generation was running a refresh of it.
LEMMA RedeemMove ==
    ASSUME StructInv, NEW m, Move(m), NEW t \in Tokens, NEW p, p \in redeemed'[t], p \notin redeemed[t]
    PROVE  /\ m \in CallIds /\ calls[m].phase = "remote" /\ calls[m].owner = p
           /\ calls[m].source.id = t /\ calls'[m].phase # "remote"
<1>1. m \in CallIds /\ Redeem(m) /\ (Granted(m) \/ Reloading(m))
  BY DEF Move
<1> QED BY <1>1 DEF Redeem, StructInv, TypeOK, Granted, Reloading

\* A provider does not read from storage what it has redeemed.
LEMMA NotReadAgainMove ==
    ASSUME StructInv, StoredInv, RotationInv, NEW m, Move(m), AccountedByOwner', Fresh'
    PROVE  NotReadAgain'
<1> USE NoneAssumption
<1> SUFFICES ASSUME NEW c \in Callers, snapshot'[c] # None,
                    ProviderOf[c] \in redeemed'[snapshot'[c].id]
             PROVE  snapshot'[c].id \in unsaved'
  BY DEF NotReadAgain
<1>0. StructInv' /\ SnapShape' /\ unsaved \subseteq unsaved'
  BY DEF Move
<1>1. snapshot'[c].id \in Tokens
  BY <1>0 DEF StructInv, TypeOK, AuthTokens
<1>2. CASE snapshot'[c] = snapshot[c]
  <2>1. CASE ProviderOf[c] \in redeemed[snapshot[c].id]
    BY <1>0, <1>2, <2>1 DEF RotationInv, NotReadAgain
  <2>2. CASE ProviderOf[c] \notin redeemed[snapshot[c].id]
    <3>1. m \in CallIds /\ calls[m].phase = "remote" /\ calls[m].owner = ProviderOf[c]
      BY <1>1, <1>2, <2>2, RedeemMove
    <3> QED BY <1>2, <3>1, Alone DEF StoredInv, Running
  <2> QED BY <2>1, <2>2
<1>3. CASE snapshot'[c] = stored /\ UNCHANGED <<stored, retired>>
  <2>1. stored'.id \notin retired' /\ stored'.id = snapshot'[c].id
    BY <1>3 DEF Fresh
  <2>2. ~ \E k \in CallIds : calls'[k].phase = "commit" /\ calls'[k].owner = ProviderOf[c]
    BY <1>0 DEF StructInv, SnapShape, SingleFlight, DecisionExclusive, Running
  <2> QED BY <1>1, <2>1, <2>2 DEF AccountedByOwner
<1> QED BY <1>2, <1>3 DEF Move, CallerMove

\* Nor does it present it again.
LEMMA NoSecondRotationMove ==
    ASSUME StructInv, StoredInv, RotationInv, NEW m, Move(m)
    PROVE  NoSecondRotation'
<1> USE NoneAssumption
<1> SUFFICES ASSUME NEW k \in CallIds, calls'[k].phase = "remote",
                    calls'[k].owner \in redeemed'[calls'[k].source.id]
             PROVE  calls'[k].source.id \in unsaved'
  BY DEF NoSecondRotation
<1>0. StructInv' /\ unsaved \subseteq unsaved' /\ calls'[k].source.id \in Tokens
  BY DEF Move, StructInv, CallShape, AuthTokens, Running
<1>1. CASE calls'[k].owner \in redeemed[calls'[k].source.id]
  <2>1. CASE calls[k].phase = "remote" /\ calls'[k].owner = calls[k].owner
             /\ calls'[k].source = calls[k].source
    BY <1>0, <1>1, <2>1 DEF RotationInv, NoSecondRotation
  <2>2. CASE Published(k)
    BY <1>0, <1>1, <2>2 DEF RotationInv, NotReadAgain, Published
  <2> QED BY <2>1, <2>2 DEF Move, Same, Ended, Granted, Reloading, Concluded, Completed
<1>2. CASE calls'[k].owner \notin redeemed[calls'[k].source.id]
  <2>1. /\ m \in CallIds /\ calls[m].phase = "remote" /\ calls[m].owner = calls'[k].owner
        /\ calls'[m].phase # "remote"
    BY <1>0, <1>2, RedeemMove
  <2>2. k # m
    BY <2>1
  <2>3. calls[k].phase = "remote" /\ calls[k].owner = calls'[k].owner
    BY <2>2 DEF Move, Same, Ended
  <2> QED BY <2>1, <2>2, <2>3, Alone DEF StoredInv, Running
<1> QED BY <1>1, <1>2

\* A token that is new to a provider's callers is what one of them has just read
\* from storage, or the outcome of the refresh that is finishing.
LEMMA HoldsMove ==
    ASSUME StructInv, NEW m, Move(m), NEW p, NEW x \in Tokens,
           HoldsIn(result', rejected', calls', p, x)
    PROVE  \/ Holds(p, x)
           \/ \E c \in Callers : /\ ProviderOf[c] = p /\ snapshot[c] # None
                                 /\ snapshot'[c] = None /\ x = snapshot[c].id
           \/ m \in CallIds /\ Completed(m) /\ calls[m].owner = p /\ calls[m].out = x
<1> USE NoneAssumption
<1>1. ASSUME NEW c \in Callers, ProviderOf[c] = p, x = result'[c] \/ x = rejected'[c]
      PROVE  \/ Holds(p, x)
             \/ snapshot[c] # None /\ snapshot'[c] = None /\ x = snapshot[c].id
  <2>1. CallerMove(c)
    BY DEF Move
  <2> QED BY <1>1, <2>1 DEF CallerMove, Holds, HoldsIn
<1>2. ASSUME NEW j \in CallIds, calls'[j].owner = p, calls'[j].phase = "done", calls'[j].out = x
      PROVE  \/ Holds(p, x)
             \/ m \in CallIds /\ Completed(m) /\ calls[m].owner = p /\ calls[m].out = x
  <2>1. Same(j) \/ (j = m /\ Completed(j))
    BY <1>2 DEF Move, Ended, Published, Granted, Reloading, Concluded
  <2> QED BY <1>2, <2>1 DEF Same, Completed, Holds, HoldsIn
<1> QED BY <1>1, <1>2 DEF HoldsIn

\* Whatever the callers of a provider hold has been stored.
LEMMA HeldWasStored ==
    ASSUME Kept, NEW p, NEW x \in Tokens, Holds(p, x)
    PROVE  WasStored(x)
BY NoneAssumption DEF Kept, Holds, HoldsIn

\* While a provider has a refresh running, its callers learn of no new token but
\* by the end of that refresh.
LEMMA HeldWhileRunning ==
    ASSUME StructInv, SnapShape, NEW m, Move(m), NEW k \in CallIds, calls[k].phase \in Running,
           ~Completed(k), NEW x \in Tokens, HoldsIn(result', rejected', calls', calls[k].owner, x)
    PROVE  Holds(calls[k].owner, x)
<1>1. /\ \A c \in Callers : ProviderOf[c] = calls[k].owner => snapshot[c] = None
      /\ \A j \in CallIds : calls[j].phase \in Running /\ calls[j].owner = calls[k].owner => j = k
  BY Alone
<1>2. Completed(m) => calls[m].phase \in Running
  BY DEF Completed, Running
<1> QED BY <1>1, <1>2, HoldsMove

\* The outcome of a refresh is new to the callers of its provider.
LEMMA NewestMove ==
    ASSUME StructInv, StoredInv, RotationInv, NEW m, Move(m), Kept'
    PROVE  Newest'
<1> USE NoneAssumption
<1>0. /\ StructInv' /\ SnapShape /\ SnapShape' /\ Kept /\ Fresh /\ Dated /\ Newest
      /\ retired \subseteq retired'
  BY DEF Move, StorageKept, StorageReplaced, Retire, StoredInv, RotationInv
<1>1. ASSUME NEW c \in Callers, NEW x \in Tokens, snapshot'[c] # None,
             HoldsIn(result', rejected', calls', ProviderOf[c], x)
      PROVE  x \in retired' \cup {snapshot'[c].id}
  <2>1. CASE snapshot'[c] = snapshot[c]
    <3>1. Holds(ProviderOf[c], x)
      <4>1. pc[c] = "decide" /\ decision[ProviderOf[c]] = c /\ inflight[ProviderOf[c]] = None
        BY <1>0, <1>1, <2>1 DEF SnapShape, StructInv, DecisionExclusive
      <4>2. \A d \in Callers : ProviderOf[d] = ProviderOf[c] /\ snapshot[d] # None => d = c
        BY <1>0, <4>1 DEF SnapShape, StructInv, DecisionExclusive
      <4>3. \A j \in CallIds : calls[j].phase \in Running => calls[j].owner # ProviderOf[c]
        BY <4>1 DEF StructInv, SingleFlight
      <4>4. Completed(m) => calls[m].phase \in Running
        BY DEF Completed, Running
      <4> QED BY <1>1, <4>2, <4>3, <4>4, HoldsMove
    <3> QED BY <1>0, <1>1, <2>1, <3>1 DEF Newest
  <2>2. CASE snapshot'[c] = stored /\ UNCHANGED <<stored, retired>>
    <3>1. StoredIn(stored', retired', x)
      BY <1>1 DEF Kept, WasStored, HoldsIn
    <3> QED BY <2>2, <3>1 DEF StoredIn
  <2> QED BY <1>1, <2>1, <2>2 DEF Move, CallerMove
<1>2. ASSUME NEW k \in CallIds, NEW x \in Tokens,
             calls'[k].phase \in {"remote", "reload", "commit"},
             HoldsIn(result', rejected', calls', calls'[k].owner, x)
      PROVE  x \in retired' \cup {calls'[k].source.id}
  <2>1. CASE /\ calls[k].phase \in {"remote", "reload", "commit"}
             /\ calls'[k].owner = calls[k].owner /\ calls'[k].source = calls[k].source
    <3>1. Holds(calls[k].owner, x)
      BY <1>0, <1>2, <2>1, HeldWhileRunning DEF Running, Completed
    <3> QED BY <1>0, <2>1, <3>1 DEF Newest
  <2>2. CASE Published(k) /\ k = m
    <3>1. PICK c \in Callers : /\ snapshot[c] # None /\ calls'[k].source = snapshot[c]
                               /\ calls'[k].owner = ProviderOf[c]
      BY <2>2 DEF Published
    <3>2. \A d \in Callers : ProviderOf[d] = ProviderOf[c] /\ snapshot[d] # None => d = c
      BY <1>0, <3>1 DEF SnapShape, StructInv, DecisionExclusive
    <3>3. ~Completed(m)
      BY <2>2 DEF Published, Completed
    <3>4. Holds(ProviderOf[c], x) \/ x = snapshot[c].id
      BY <1>2, <3>1, <3>2, <3>3, HoldsMove
    <3> QED BY <1>0, <3>1, <3>4 DEF Newest
  <2> QED BY <1>2, <2>1, <2>2 DEF Move, Same, Ended, Granted, Reloading, Concluded, Completed
<1>3. ASSUME NEW k \in CallIds, calls'[k].phase = "finish", calls'[k].out # None
      PROVE  ~HoldsIn(result', rejected', calls', calls'[k].owner, calls'[k].out)
  <2>0. calls'[k].out \in Tokens
    BY <1>0, <1>3 DEF StructInv, TypeOK, RefreshCall
  <2>1. CASE Same(k)
    BY <1>0, <1>3, <2>0, <2>1, HeldWhileRunning DEF Newest, Same, Running, Completed
  <2>2. CASE Concluded(k)
    <3>1. ~Holds(calls[k].owner, calls'[k].out)
      <4>1. CASE stored # None /\ stored # calls[k].source /\ calls'[k].out = stored.id
        <5>1. calls[k].source.id \in retired
          BY <1>0, <2>2, <4>1, SourceRetired DEF Concluded, Running
        <5> QED BY <1>0, <2>0, <2>2, <4>1, <5>1 DEF Newest, Fresh, Concluded
      <4>2. CASE calls[k].phase = "commit" /\ calls'[k].out = calls[k].refreshed
        BY <1>0, <2>0, <4>2, HeldWasStored DEF Fresh
      <4> QED BY <1>3, <2>2, <4>1, <4>2 DEF Concluded
    <3> QED BY <1>0, <2>0, <2>2, <3>1, HeldWhileRunning DEF Concluded, Running, Completed
  <2> QED BY <1>3, <2>1, <2>2 DEF Move, Ended, Published, Granted, Reloading, Completed
<1>4. ASSUME NEW c \in Callers, pc'[c] = "wait", calls'[joined'[c]].phase = "done",
             rejected'[c] # None
      PROVE  calls'[joined'[c]].out # rejected'[c]
  <2> DEFINE k == joined'[c]
  <2>1. k \in CallIds /\ ProviderOf[c] \in Providers
    BY <1>0, <1>4, ProviderOfAssumption DEF StructInv, WaitShape
  <2>2. inflight'[ProviderOf[c]] # k
    BY <1>0, <1>4, <2>1 DEF StructInv, InflightShape, Running
  <2>3. pc[c] = "wait" /\ joined[c] = k /\ rejected'[c] = rejected[c]
    BY <1>4, <2>2 DEF Move, CallerMove
  <2>4. CASE Same(k)
    BY <1>0, <1>4, <2>3, <2>4 DEF Newest, Same
  <2>5. CASE Completed(k)
    <3>1. calls[k].owner = ProviderOf[c] /\ rejected[c] \in Tokens
      BY <1>4, <2>3 DEF StructInv, WaitShape, TypeOK
    <3>2. Holds(calls[k].owner, rejected[c])
      BY <3>1 DEF Holds, HoldsIn
    <3>3. calls[k].out = rejected[c] => calls[k].out # None
      BY <1>4, <2>3
    <3> QED BY <1>0, <2>1, <2>3, <2>5, <3>2, <3>3 DEF Newest, Completed
  <2> QED BY <1>4, <2>1, <2>4, <2>5 DEF Move, Ended, Published, Granted, Reloading, Concluded
<1> QED BY <1>1, <1>2, <1>3, <1>4 DEF Newest, Holds

-----------------------------------------------------------------------------
(* Every step is such a move *)

\* What the caller d does not do.
Untouched(d) ==
    /\ pc'[d] = pc[d] /\ rejected'[d] = rejected[d] /\ result'[d] = result[d]
    /\ snapshot'[d] = snapshot[d] /\ joined'[d] = joined[d]

\* A step of token() for c.
LEMMA OneCaller ==
    ASSUME StructInv', SnapShape, NEW m, NEW c \in Callers, CallerMove(c),
           snapshot'[c] # None => pc'[c] = "decide",
           \A d \in Callers \ {c} : Untouched(d),
           \A k \in CallIds : Same(k) \/ Ended(k) \/ (k = m /\ Published(k)),
           UNCHANGED <<stored, retired, issued, unsaved, redeemed>>
    PROVE  Move(m)
<1>1. \A d \in Callers : CallerMove(d)
  BY DEF Untouched, CallerMove
<1>2. SnapShape'
  BY DEF SnapShape, Untouched
<1>3. StorageKept
  BY DEF StorageKept
<1> QED BY <1>1, <1>2, <1>3 DEF Move

\* token() returns.
LEMMA ReturnMove ==
    ASSUME StructInv, StructInv', SnapShape, NEW c \in Callers, NEW v, Return(c, v),
           \/ v = None
           \/ snapshot[c] # None /\ v = snapshot[c].id
           \/ /\ joined[c] \in CallIds /\ calls[joined[c]].phase = "done"
              /\ calls[joined[c]].owner = ProviderOf[c] /\ v = calls[joined[c]].out,
           \A k \in CallIds : Same(k) \/ Ended(k),
           UNCHANGED <<stored, retired, issued, unsaved, redeemed>>
    PROVE  Move(None)
<1>1. /\ pc'[c] = "idle" /\ result'[c] = v /\ snapshot'[c] = None /\ rejected'[c] = None
      /\ \A d \in Callers \ {c} : Untouched(d)
  BY DEF Return, StructInv, TypeOK, Untouched
<1>2. CallerMove(c)
  BY <1>1 DEF CallerMove
<1> QED BY <1>1, <1>2, OneCaller

\* Every step of a caller is a move.
LEMMA CallerMoves ==
    ASSUME StructInv, StructInv', SnapShape, NEW c \in Callers,
           CallerStep(c) \/ \E r \in Tokens \cup {None} : Token(c, r)
    PROVE  \E m : Move(m)
<1> USE ProviderOfAssumption, NoneAssumption
<1> USE DEF callerVars, providerVars, serverVars, historyVars
<1>1. ASSUME UNCHANGED calls PROVE \A k \in CallIds : Same(k) \/ Ended(k)
  BY <1>1 DEF Same
<1>2. ASSUME OnlyWaitersChange PROVE \A k \in CallIds : Same(k) \/ Ended(k)
  BY <1>2 DEF Same, OnlyWaitersChange
<1>3. ASSUME inflight[ProviderOf[c]] # None, Join(c)
      PROVE  /\ pc'[c] = "wait" /\ joined'[c] = inflight'[ProviderOf[c]] /\ snapshot'[c] = None
             /\ \A k \in CallIds : Same(k) \/ Ended(k)
             /\ \A d \in Callers \ {c} : /\ pc'[d] = pc[d] /\ joined'[d] = joined[d]
                                         /\ snapshot'[d] = snapshot[d]
  <2>1. OnlyWaitersChange
    BY <1>3, JoinEffect
  <2> QED BY <1>2, <1>3, <2>1 DEF Join, StructInv, TypeOK
<1>4. ASSUME NEW r \in Tokens \cup {None}, Token(c, r) PROVE Move(None)
  <2>1. /\ pc[c] = "idle" /\ r \in {None, result[c]} /\ snapshot[c] = None
        /\ rejected'[c] = r /\ result'[c] = None
        /\ \A d \in Callers \ {c} : rejected'[d] = rejected[d] /\ result'[d] = result[d]
        /\ UNCHANGED <<stored, retired, issued, unsaved, redeemed>>
    BY <1>4 DEF Token, SnapShape, StructInv, TypeOK
  <2>2. /\ snapshot'[c] = None
        /\ pc'[c] = "wait" => joined'[c] = inflight'[ProviderOf[c]]
        /\ \A k \in CallIds : Same(k) \/ Ended(k)
        /\ \A d \in Callers \ {c} : /\ pc'[d] = pc[d] /\ joined'[d] = joined[d]
                                    /\ snapshot'[d] = snapshot[d]
    <3>1. CASE inflight[ProviderOf[c]] # None
      BY <1>3, <1>4, <3>1 DEF Token
    <3>2. CASE inflight[ProviderOf[c]] = None
      <4>1. pc' = [pc EXCEPT ![c] = "gate"] /\ UNCHANGED <<snapshot, joined, inflight, calls>>
        BY <1>4, <3>2 DEF Token
      <4> QED BY <1>1, <2>1, <4>1 DEF StructInv, TypeOK
    <3> QED BY <3>1, <3>2
  <2>3. CallerMove(c)
    BY <2>1, <2>2 DEF CallerMove
  <2> QED BY <2>1, <2>2, <2>3, OneCaller DEF Untouched
<1>5. CASE LockDecision(c) \/ CheckInflight(c)
  <2>1. /\ UNCHANGED <<stored, retired, issued, unsaved, redeemed, rejected, result>>
        /\ snapshot[c] = None
    BY <1>5 DEF LockDecision, CheckInflight, SnapShape
  <2>2. /\ snapshot'[c] = None
        /\ pc'[c] = "wait" => joined'[c] = inflight'[ProviderOf[c]]
        /\ \A k \in CallIds : Same(k) \/ Ended(k)
        /\ \A d \in Callers \ {c} : /\ pc'[d] = pc[d] /\ joined'[d] = joined[d]
                                    /\ snapshot'[d] = snapshot[d]
    <3>1. CASE inflight[ProviderOf[c]] # None /\ CheckInflight(c)
      BY <1>3, <3>1 DEF CheckInflight
    <3>2. CASE LockDecision(c) \/ (inflight[ProviderOf[c]] = None /\ CheckInflight(c))
      <4>1. /\ \E l \in {"check", "load"} : pc' = [pc EXCEPT ![c] = l]
            /\ UNCHANGED <<snapshot, joined, calls>>
        BY <3>2 DEF LockDecision, CheckInflight
      <4> QED BY <1>1, <2>1, <4>1 DEF StructInv, TypeOK
    <3> QED BY <1>5, <3>1, <3>2
  <2>3. CallerMove(c)
    BY <2>1, <2>2 DEF CallerMove
  <2> QED BY <2>1, <2>2, <2>3, OneCaller DEF Untouched
<1>6. CASE Load(c)
  <2>1. /\ pc'[c] = "decide" /\ snapshot'[c] = stored
        /\ \A d \in Callers \ {c} : Untouched(d)
        /\ UNCHANGED <<stored, retired, issued, unsaved, redeemed, rejected, result, calls>>
    BY <1>6 DEF Load, StructInv, TypeOK, Untouched
  <2>2. CallerMove(c)
    BY <2>1 DEF CallerMove
  <2> QED BY <1>1, <2>1, <2>2, OneCaller
<1>7. CASE LockCanceled(c) \/ LoadFails(c) \/ \E due \in BOOLEAN : DecideFromStorage(c, due)
  <2>1. /\ \E v : Return(c, v) /\ (v = None \/ (snapshot[c] # None /\ v = snapshot[c].id))
        /\ UNCHANGED <<stored, retired, issued, unsaved, redeemed, calls>>
    BY <1>7, Zenon DEF LockCanceled, LoadFails, DecideFromStorage
  <2> QED BY <1>1, <2>1, ReturnMove
<1>8. ASSUME NEW due \in BOOLEAN, DecideRefresh(c, due) PROVE \E m : Move(m)
  <2>1. pc[c] = "decide" /\ inflight[ProviderOf[c]] = None
    BY <1>8 DEF DecideRefresh, StructInv, DecisionExclusive
  <2>2. PICK k \in CallIds : calls[k].phase = "unused" /\ Publish(c, k)
    BY <1>8, <2>1 DEF DecideRefresh
  <2>3. /\ snapshot[c] # None
        /\ UNCHANGED <<stored, retired, issued, unsaved, redeemed, rejected, result>>
    BY <1>8, <2>1 DEF DecideRefresh
  <2>4. /\ pc'[c] = "wait" /\ joined'[c] = inflight'[ProviderOf[c]] /\ snapshot'[c] = None
        /\ \A d \in Callers \ {c} : Untouched(d)
    BY <2>2, <2>3 DEF Publish, StructInv, TypeOK, Untouched
  <2>5. /\ calls'[k].phase = "remote" /\ calls'[k].out = None /\ calls'[k].source = snapshot[c]
        /\ calls'[k].owner = ProviderOf[c]
        /\ \A j \in CallIds \ {k} : calls'[j] = calls[j]
    BY <2>2 DEF Publish, StructInv, TypeOK
  <2>6. Published(k) /\ \A j \in CallIds \ {k} : Same(j)
    BY <2>2, <2>3, <2>5 DEF Published, Same
  <2>7. CallerMove(c)
    BY <2>3, <2>4 DEF CallerMove
  <2> QED BY <2>3, <2>4, <2>6, <2>7, OneCaller
<1>9. CASE WaitDone(c)
  <2>1. /\ pc[c] = "wait" /\ joined[c] \in CallIds /\ calls[joined[c]].phase = "done"
        /\ calls[joined[c]].owner = ProviderOf[c]
    BY <1>9 DEF WaitDone, StructInv, WaitShape
  <2>2. UnusedCall.phase = "unused" /\ UnusedCall.out = None
    BY DEF UnusedCall
  <2>3. \A k \in CallIds : Same(k) \/ Ended(k)
    BY <1>9, <2>1, <2>2 DEF WaitDone, StructInv, TypeOK, Same, Ended
  <2>4. /\ Return(c, calls[joined[c]].out)
        /\ UNCHANGED <<stored, retired, issued, unsaved, redeemed>>
    BY <1>9 DEF WaitDone
  <2> QED BY <2>1, <2>3, <2>4, ReturnMove
<1>10. CASE WaitCanceled(c)
  <2>1. joined[c] \in CallIds
    BY <1>10 DEF WaitCanceled, StructInv, WaitShape
  <2>2. OnlyWaitersChange
    BY <1>10, <2>1 DEF WaitCanceled, StructInv, TypeOK, RefreshCall, OnlyWaitersChange
  <2>3. Return(c, None) /\ UNCHANGED <<stored, retired, issued, unsaved, redeemed>>
    BY <1>10 DEF WaitCanceled
  <2> QED BY <1>2, <2>2, <2>3, ReturnMove
<1> QED BY <1>4, <1>5, <1>6, <1>7, <1>8, <1>9, <1>10 DEF CallerStep

\* A step that leaves the callers alone.
LEMMA NoCaller ==
    ASSUME StructInv', SnapShape, NEW m,
           UNCHANGED <<pc, rejected, result, snapshot, joined>>,
           \A k \in CallIds :
               \/ Same(k) \/ Ended(k)
               \/ k = m /\ (Published(k) \/ Granted(k) \/ Reloading(k) \/ Concluded(k) \/ Completed(k)),
           StorageKept \/ StorageReplaced(m),
           issued \subseteq issued', unsaved \subseteq unsaved',
           \/ redeemed' = redeemed
           \/ /\ m \in CallIds /\ Redeem(m)
              /\ Granted(m) \/ (Reloading(m) /\ calls[m].source.id \in unsaved')
    PROVE  Move(m)
<1>1. SnapShape'
  BY DEF SnapShape
<1>2. \A c \in Callers : CallerMove(c)
  BY DEF CallerMove
<1> QED BY <1>1, <1>2 DEF Move

\* Every step of a refresh is a move.
LEMMA RefreshMoves ==
    ASSUME StructInv, StructInv', SnapShape, NEW k \in CallIds, RefreshStep(k)
    PROVE  Move(k)
<1> USE NoneAssumption
<1> USE DEF callerVars, providerVars, serverVars, historyVars
<1>0. calls[k] \in RefreshCall /\ calls \in [CallIds -> RefreshCall]
  BY DEF StructInv, TypeOK
<1>1. ASSUME NEW r, calls' = [calls EXCEPT ![k] = r]
      PROVE  calls'[k] = r /\ \A j \in CallIds \ {k} : Same(j)
  BY <1>0, <1>1 DEF Same
<1>2. ASSUME UNCHANGED <<stored, retired>> PROVE StorageKept
  BY <1>2 DEF StorageKept
<1>3. ASSUME NEW t \in Tokens, RefreshSucceeds(k, t) PROVE Move(k)
  <2> DEFINE r == [calls[k] EXCEPT !.phase = "commit", !.refreshed = t]
  <2>1. /\ r.phase = "commit" /\ r.refreshed = t /\ r.owner = calls[k].owner
        /\ r.source = calls[k].source /\ r.out = calls[k].out
    BY <1>0 DEF RefreshCall
  <2>2. calls' = [calls EXCEPT ![k] = r]
    BY <1>0, <1>3 DEF RefreshSucceeds, RefreshCall
  <2> HIDE DEF r
  <2>3. /\ calls[k].phase = "remote" /\ t \notin issued /\ issued' = issued \cup {t} /\ Redeem(k)
        /\ UNCHANGED <<stored, retired, unsaved, pc, rejected, result, snapshot, joined>>
    BY <1>3 DEF RefreshSucceeds
  <2>4. Granted(k)
    BY <1>1, <2>1, <2>2, <2>3 DEF Granted
  <2> QED BY <1>1, <1>2, <2>2, <2>3, <2>4, NoCaller
<1>4. CASE RefreshFails(k) \/ RefreshResponseLost(k)
  <2> DEFINE r == [calls[k] EXCEPT !.phase = "reload"]
  <2>1. /\ r.phase = "reload" /\ r.owner = calls[k].owner
        /\ r.source = calls[k].source /\ r.out = calls[k].out
    BY <1>0 DEF RefreshCall
  <2>2. calls' = [calls EXCEPT ![k] = r]
    BY <1>0, <1>4 DEF RefreshFails, RefreshResponseLost, RefreshCall
  <2> HIDE DEF r
  <2>3. /\ calls[k].phase = "remote" /\ unsaved \subseteq unsaved'
        /\ redeemed' = redeemed \/ (Redeem(k) /\ calls[k].source.id \in unsaved')
        /\ UNCHANGED <<stored, retired, issued, pc, rejected, result, snapshot, joined>>
    BY <1>4 DEF RefreshFails, RefreshResponseLost
  <2>4. Reloading(k)
    BY <1>1, <2>1, <2>2, <2>3 DEF Reloading
  <2> QED BY <1>1, <1>2, <2>2, <2>3, <2>4, NoCaller
<1>5. ASSUME NEW v, Outcome(k, v)
      PROVE  /\ calls'[k].phase = "finish" /\ calls'[k].owner = calls[k].owner
             /\ calls'[k].source = calls[k].source /\ calls'[k].out = v
             /\ \A j \in CallIds \ {k} : Same(j)
  <2> DEFINE r == [calls[k] EXCEPT !.phase = "finish", !.out = v]
  <2>1. /\ r.phase = "finish" /\ r.owner = calls[k].owner
        /\ r.source = calls[k].source /\ r.out = v
    BY <1>0 DEF RefreshCall
  <2>2. calls' = [calls EXCEPT ![k] = r]
    BY <1>0, <1>5 DEF Outcome, RefreshCall
  <2> HIDE DEF r
  <2> QED BY <1>1, <2>1, <2>2
<1>6. CASE \E ok \in BOOLEAN : Reload(k, ok)
  <2>1. PICK v : /\ Outcome(k, v)
                 /\ v = None \/ (stored # None /\ stored # calls[k].source /\ v = stored.id)
    BY <1>6, Zenon DEF Reload, Outcome, sameAuthTokens
  <2>2. /\ calls[k].phase = "reload"
        /\ UNCHANGED <<stored, retired, issued, unsaved, redeemed, pc, rejected, result, snapshot, joined>>
    BY <1>6 DEF Reload
  <2>3. Concluded(k)
    BY <1>5, <2>1, <2>2 DEF Concluded
  <2> QED BY <1>2, <1>5, <2>1, <2>2, <2>3, NoCaller
<1>7. ASSUME NEW ok \in BOOLEAN, CommitRefreshed(k, ok) PROVE Move(k)
  <2>1. /\ calls[k].phase = "commit" /\ stored # None /\ stored = calls[k].source /\ Retire
        /\ calls[k].refreshed \in Tokens
        /\ stored' = [id |-> calls[k].refreshed, dated |-> TRUE]
        /\ UNCHANGED <<issued, unsaved, redeemed, pc, rejected, result, snapshot, joined>>
    BY <1>7 DEF CommitRefreshed, sameAuthTokens, prepareAuth, Decoded, StructInv, CallShape
  <2>2. stored' # None /\ stored'.id = calls[k].refreshed /\ stored'.dated
    <3>1. stored' \in [id : Tokens, dated : BOOLEAN]
      BY <2>1
    <3> QED BY <2>1, <3>1
  <2>3. PICK v \in {calls[k].refreshed, None} : Outcome(k, v)
    BY <1>7 DEF CommitRefreshed
  <2>4. calls[k].source.id \in retired'
    BY <2>1 DEF Retire
  <2>5. Concluded(k)
    BY <1>5, <2>1, <2>2, <2>3, <2>4 DEF Concluded
  <2>6. StorageReplaced(k)
    BY <1>5, <2>1, <2>2, <2>3 DEF StorageReplaced
  <2> QED BY <1>5, <2>1, <2>3, <2>5, <2>6, NoCaller
<1>8. ASSUME NEW ok \in BOOLEAN, CommitSuperseded(k, ok) PROVE Move(k)
  <2>1. /\ calls[k].phase = "commit" /\ stored # None /\ stored # calls[k].source
        /\ stored' = [stored EXCEPT !.dated = TRUE]
        /\ UNCHANGED <<retired, issued, unsaved, redeemed, pc, rejected, result, snapshot, joined>>
    BY <1>8 DEF CommitSuperseded, sameAuthTokens, prepareAuth
  <2>2. PICK v \in {stored.id, None} : Outcome(k, v)
    BY <1>8 DEF CommitSuperseded
  <2>3. Concluded(k)
    BY <1>5, <2>1, <2>2 DEF Concluded
  <2>4. StorageKept
    BY <2>1 DEF StorageKept, StructInv, TypeOK, AuthTokens
  <2> QED BY <1>5, <2>1, <2>2, <2>3, <2>4, NoCaller
<1>9. CASE CommitLoggedOut(k) \/ CommitFails(k)
  <2>1. /\ Outcome(k, None) /\ calls[k].phase = "commit" /\ unsaved \subseteq unsaved'
        /\ stored = None \/ calls[k].source.id \in unsaved'
        /\ UNCHANGED <<stored, retired, issued, redeemed, pc, rejected, result, snapshot, joined>>
    BY <1>9 DEF CommitLoggedOut, CommitFails
  <2>2. calls[k].source # None
    BY <2>1 DEF StructInv, CallShape, Running, AuthTokens
  <2>3. Concluded(k)
    BY <1>5, <2>1, <2>2 DEF Concluded
  <2> QED BY <1>2, <1>5, <2>1, <2>3, NoCaller
<1>10. CASE FinishRefresh(k)
  <2> DEFINE r == IF \E c \in Callers : joined[c] = k
                  THEN [UnusedCall EXCEPT !.phase = "done", !.owner = calls[k].owner,
                                          !.out = calls[k].out]
                  ELSE UnusedCall
  <2>1. \/ r.phase = "done" /\ r.owner = calls[k].owner /\ r.out = calls[k].out
        \/ r.phase = "unused" /\ r.out = None
    BY DEF UnusedCall
  <2>2. /\ calls' = [calls EXCEPT ![k] = r] /\ calls[k].phase = "finish"
        /\ UNCHANGED <<stored, retired, issued, unsaved, redeemed, pc, rejected, result, snapshot, joined>>
    BY <1>10 DEF FinishRefresh
  <2> HIDE DEF r
  <2>3. Completed(k) \/ Ended(k)
    BY <1>1, <2>1, <2>2 DEF Completed, Ended
  <2> QED BY <1>1, <1>2, <2>2, <2>3, NoCaller
<1> QED BY <1>3, <1>4, <1>6, <1>7, <1>8, <1>9, <1>10 DEF RefreshStep

\* So is whatever the environment does.
LEMMA EnvironmentMoves ==
    ASSUME StructInv, StructInv', SnapShape, Environment \/ UNCHANGED vars
    PROVE  Move(None)
<1> USE NoneAssumption
<1> USE DEF callerVars, providerVars, serverVars, historyVars
<1>1. ASSUME UNCHANGED calls PROVE \A k \in CallIds : Same(k)
  BY <1>1 DEF Same
<1>2. CASE UNCHANGED vars \/ \E c \in Callers : Cancel(c)
  <2>1. UNCHANGED <<stored, retired, issued, unsaved, redeemed, calls, pc, rejected, result, snapshot, joined>>
    BY <1>2 DEF vars, Cancel
  <2>2. StorageKept
    BY <2>1 DEF StorageKept
  <2> QED BY <1>1, <2>1, <2>2, NoCaller
<1>3. ASSUME NEW t \in Tokens, Login(t) PROVE Move(None)
  <2>1. /\ t \notin issued /\ issued' = issued \cup {t} /\ Retire
        /\ stored' = [id |-> t, dated |-> TRUE]
        /\ UNCHANGED <<unsaved, redeemed, calls, pc, rejected, result, snapshot, joined>>
    BY <1>3 DEF Login, prepareAuth, Decoded
  <2>2. StorageReplaced(None)
    BY <2>1 DEF StorageReplaced
  <2> QED BY <1>1, <2>1, <2>2, NoCaller
<1>4. CASE Logout
  <2>1. /\ stored' = None /\ Retire
        /\ UNCHANGED <<issued, unsaved, redeemed, calls, pc, rejected, result, snapshot, joined>>
    BY <1>4 DEF Logout
  <2>2. StorageReplaced(None)
    BY <2>1 DEF StorageReplaced
  <2> QED BY <1>1, <2>1, <2>2, NoCaller
<1>5. CASE OtherTransact
  <2>1. /\ stored # None /\ stored' = [stored EXCEPT !.dated = TRUE]
        /\ UNCHANGED <<retired, issued, unsaved, redeemed, calls, pc, rejected, result, snapshot, joined>>
    BY <1>5 DEF OtherTransact, prepareAuth
  <2>2. StorageKept
    BY <2>1 DEF StorageKept, StructInv, TypeOK, AuthTokens
  <2> QED BY <1>1, <2>1, <2>2, NoCaller
<1>6. ASSUME NEW p \in Providers, Crash(p) PROVE Move(None)
  <2>1. /\ UNCHANGED <<stored, retired, issued, redeemed>> /\ unsaved \subseteq unsaved'
    BY <1>6 DEF Crash
  <2>2. \A k \in CallIds : calls[k].phase = "commit" => calls[k].source.id \in Tokens
    BY DEF StructInv, CallShape, AuthTokens, Running
  <2>3. UnusedCall.phase = "unused" /\ UnusedCall.out = None
    BY DEF UnusedCall
  <2>4. \A k \in CallIds : Same(k) \/ Ended(k)
    BY <1>6, <2>2, <2>3 DEF Crash, Same, Ended
  <2>5. \A c \in Callers :
            \/ Untouched(c)
            \/ pc'[c] = "idle" /\ rejected'[c] = None /\ result'[c] = None /\ snapshot'[c] = None
    BY <1>6 DEF Crash, Untouched
  <2>6. \A c \in Callers : CallerMove(c)
    BY <2>5 DEF Untouched, CallerMove
  <2>7. SnapShape' /\ StorageKept
    BY <2>1, <2>5 DEF Untouched, SnapShape, StorageKept
  <2> QED BY <2>1, <2>4, <2>6, <2>7 DEF Move
<1> QED BY <1>2, <1>3, <1>4, <1>5, <1>6 DEF Environment

\* Every step moves as described.
LEMMA StepMoves ==
    ASSUME StructInv, StructInv', SnapShape, [Next]_vars
    PROVE  \E m : Move(m)
<1>1. CASE \E c \in Callers : CallerStep(c) \/ \E r \in Tokens \cup {None} : Token(c, r)
  BY <1>1, CallerMoves
<1>2. CASE \E k \in CallIds : RefreshStep(k)
  BY <1>2, RefreshMoves
<1>3. CASE Environment \/ UNCHANGED vars
  BY <1>3, EnvironmentMoves
<1> QED BY <1>1, <1>2, <1>3, Zenon DEF Next

-----------------------------------------------------------------------------
\* What callers and refreshes hold has been stored; a generation is stored once.
THEOREM StoredInvariant == Spec => []StoredInv
<1>1. Init => StoredInv
  <2> SUFFICES ASSUME Init PROVE StoredInv
    OBVIOUS
  <2>1. \A k \in CallIds : calls[k].phase = "unused" /\ calls[k].out = None
    BY DEF Init, UnusedCall
  <2>2. SnapShape /\ Kept
    BY <2>1 DEF Init, SnapShape, Kept, Running
  <2>3. retired = {} /\ (stored # None => stored.id \in issued)
    BY NoneAssumption DEF Init
  <2>4. Fresh
    BY <2>1, <2>3 DEF Fresh
  <2> QED BY <2>2, <2>4 DEF StoredInv
<1>2. StructInv /\ StructInv' /\ StoredInv /\ [Next]_vars => StoredInv'
  <2> SUFFICES ASSUME StructInv, StructInv', StoredInv, [Next]_vars PROVE StoredInv'
    OBVIOUS
  <2>1. PICK m : Move(m)
    BY StepMoves DEF StoredInv
  <2>2. SnapShape' /\ Kept' /\ Fresh'
    BY <2>1, KeptMove, FreshMove DEF Move
  <2> QED BY <2>2 DEF StoredInv
<1> QED BY <1>1, <1>2, StructInvariant, PTL DEF Spec

\* No caller of token() is given an access token that was not stored before,
\* whatever reads, refreshes, commits, cancellations and crashes interleave.
THEOREM ReturnedWasStoredHolds == Spec => []ReturnedWasStored
<1>1. StoredInv => ReturnedWasStored
  BY NoneAssumption DEF StoredInv, Kept, WasStored, StoredIn, ReturnedWasStored
<1> QED BY <1>1, StoredInvariant, PTL

-----------------------------------------------------------------------------
(***************************************************************************)
(* The rest supposes that no credentials lack expires_at, which only a     *)
(* file written by hand or by an older version does: with such a file      *)
(* sameAuthTokens tells a generation from its dated copy, and a rotation   *)
(* can be lost silently (run TokenProvider_legacy).                        *)
(***************************************************************************)

\* Accepted rotations are accounted for, and nobody works from a generation its
\* own provider has replaced.
THEOREM RotationInvariant == ASSUME ~LegacyFile PROVE Spec => []RotationInv
<1>1. Init => RotationInv
  <2> SUFFICES ASSUME Init PROVE RotationInv
    OBVIOUS
  <2> USE NoneAssumption
  <2>1. \A k \in CallIds : calls[k].phase = "unused" /\ calls[k].out = None
    BY DEF Init, UnusedCall
  <2>2. Dated
    BY <2>1 DEF Init, Dated, Running
  <2>3. AccountedByOwner /\ NotReadAgain /\ NoSecondRotation
    BY <2>1 DEF Init, AccountedByOwner, NotReadAgain, NoSecondRotation
  <2>4. \A c \in Callers : snapshot[c] = None /\ pc[c] = "idle"
    BY DEF Init
  <2>5. Newest
    BY <2>1, <2>4 DEF Newest
  <2> QED BY <2>2, <2>3, <2>5 DEF RotationInv
<1>2. StructInv /\ StructInv' /\ StoredInv /\ StoredInv' /\ RotationInv /\ [Next]_vars => RotationInv'
  <2> SUFFICES ASSUME StructInv, StructInv', StoredInv, StoredInv', RotationInv, [Next]_vars
               PROVE  RotationInv'
    OBVIOUS
  <2>1. PICK m : Move(m)
    BY StepMoves DEF StoredInv
  <2>2. Kept' /\ Fresh'
    BY DEF StoredInv
  <2>3. Dated' /\ AccountedByOwner'
    BY <2>1, DatedMove, AccountedMove DEF RotationInv
  <2>4. NotReadAgain' /\ NoSecondRotation'
    BY <2>1, <2>2, <2>3, NotReadAgainMove, NoSecondRotationMove
  <2>5. Newest'
    BY <2>1, <2>2, NewestMove
  <2> QED BY <2>3, <2>4, <2>5 DEF RotationInv
<1> QED BY <1>1, <1>2, StructInvariant, StoredInvariant, PTL DEF Spec

\* A rotation the server has accepted is never forgotten: the old generation has
\* left storage, or its replacement is being committed, or it was lost for a
\* reason runRefresh could do nothing about.
THEOREM RotationAccountedHolds == ASSUME ~LegacyFile PROVE Spec => []RotationAccounted
<1>1. StructInv /\ RotationInv => RotationAccounted
  <2> SUFFICES ASSUME StructInv, RotationInv, NEW t \in Tokens, redeemed[t] # {}
               PROVE  \/ t \in retired \cup unsaved
                      \/ \E k \in CallIds : calls[k].phase = "commit" /\ calls[k].source.id = t
    BY DEF RotationAccounted
  <2>1. PICK p : p \in redeemed[t]
    OBVIOUS
  <2> QED BY <2>1 DEF RotationInv, AccountedByOwner
<1> QED BY <1>1, StructInvariant, RotationInvariant, PTL

\* A provider does not redeem a refresh token twice, however its callers' 401s
\* are delayed and whatever the other providers of the storage do.
THEOREM NoSecondRotationHolds == ASSUME ~LegacyFile PROVE Spec => []NoSecondRotation
<1>1. RotationInv => NoSecondRotation
  BY DEF RotationInv
<1> QED BY <1>1, RotationInvariant, PTL
=============================================================================

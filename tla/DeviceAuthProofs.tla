-------------------------- MODULE DeviceAuthProofs --------------------------
(***************************************************************************)
(* Theorems about DeviceAuth, for any number of flows, codes, tokens and   *)
(* reservations: late answers log nobody in, a resumable flow is lost only *)
(* for a cause, a superseded initiation is refused and only a superseded   *)
(* one is, and a revoked token leaves storage.                             *)
(***************************************************************************)
EXTENDS DeviceAuth, TLAPS

(***************************************************************************)
(* The inductive invariant.  Codes and tokens are issued once: a code on   *)
(* its way to storage is not there yet and was never there, and a token on *)
(* its way to storage is held by one flow and was never revoked.           *)
(***************************************************************************)
State == [auth : AuthTokens \cup {None}, pending : Codes \cup {None}, gen : Generations]

WithCode == {"persist", "initiated", "wait", "poll", "commit", "terminal", "expire"}
Removing == {"revoke", "clear"}

\* Do a and b belong to the same generation of credentials, or are both none?
SameSession(a, b) == IF a = None THEN b = None ELSE b # None /\ a.id = b.id

\* What the operation o carries, as its pc tells, where the server has issued I
\* and closed C, and the codes in E have expired.
FlowShape(o, I, C, E) ==
    /\ o.pc \in WithCode => o.code \in Codes /\ o.code \in I
    /\ o.pc \in {"commit", "terminal"} => o.code \in C
    /\ o.pc = "expire" => o.code \in E
    /\ o.pc \in Removing \cup {"commit"} => o.tok \in Tokens /\ o.tok \in I
    /\ o.pc \in {"code", "persist"} /\ o.prev # None => o.prev.id \in I

FlowsShaped == \A f \in Flows : FlowShape(op[f], issued, closed, expired)

Issued ==
    /\ state.pending # None => state.pending \in issued /\ state.pending \notin dropped
    /\ state.auth # None => state.auth.id \in issued
    /\ dropped \cup revoked \in SUBSET issued

\* A code that is not stored yet is the flow's own.
CodeFresh ==
    \A f \in Flows : op[f].pc = "persist" =>
        /\ op[f].code \notin dropped /\ op[f].code # state.pending
        /\ \A g \in Flows \ {f} : op[g].pc = "persist" => op[g].code # op[f].code

\* A token that is not stored yet is the flow's own.
TokenFresh ==
    \A f \in Flows : op[f].pc = "commit" =>
        /\ op[f].tok \notin revoked
        /\ state.auth # None => state.auth.id # op[f].tok
        /\ \A g \in Flows \ {f} :
              op[g].pc \in Removing \cup {"commit"} => op[g].tok # op[f].tok

AuthInv == TypeOK /\ FlowsShaped /\ Issued /\ CodeFresh /\ TokenFresh /\ RevokedOnItsWayOut

(***************************************************************************)
(* What a step may do, as far as the properties can tell.                  *)
(***************************************************************************)

\* The server never takes back what it has said.
Grows ==
    /\ issued \in SUBSET issued' /\ closed \in SUBSET closed' /\ expired \in SUBSET expired'
    /\ revoked \in SUBSET revoked' /\ stranded \in SUBSET stranded'

\* A pending authorization that is replaced or removed is remembered as dropped,
\* and is removed only for a cause.
PendingMove ==
    /\ dropped' = IF state'.pending # state.pending /\ state.pending # None
                  THEN dropped \cup {state.pending} ELSE dropped
    /\ state.pending # None /\ state'.pending = None =>
          state.pending \in expired \cup closed \/ state' \in {Cleared(state), Deleted(state)}

\* Whoever changes the session overtakes the reservations of all others, and
\* nothing else does; the generation moves on with every change of the session
\* but a refresh, which stores a token nobody has seen.
SessionMove(f) ==
    /\ \A g \in Reserved \ {f} :
          /\ g \in overtaken => g \in overtaken'
          /\ g \notin overtaken' => state'.gen = state.gen /\ SameSession(state.auth, state'.auth)
          /\ g \in overtaken' \ overtaken /\ Kind = "memory" /\ state.gen < MaxUint64 =>
                state'.gen # state.gen \/ ~SameSession(state.auth, state'.auth)
    /\ Kind = "memory" /\ state.gen < MaxUint64 =>
          /\ state'.gen \in {state.gen, state.gen + 1}
          /\ state'.gen = state.gen /\ ~SameSession(state.auth, state'.auth) =>
                state'.auth # None /\ state'.auth.id \notin issued
    /\ state' = state \/ (state'.auth # None => state'.auth.dated)

\* Flow f moves on with operation r.
FlowMove(f, r) ==
    /\ r \in Op /\ op' = [op EXCEPT ![f] = r] /\ TypeOK' /\ Grows /\ PendingMove
    /\ FlowShape(r, issued', closed', expired')
    /\ r.pc = "persist" => /\ r.code \notin issued /\ state' = state
    /\ r.pc = "commit" => /\ r.tok \notin issued /\ state' = state
    /\ r.pc \in Removing => /\ state' = state
                            /\ \/ op[f].pc \in Removing /\ r.tok = op[f].tok
                               \/ state.auth # None /\ r.tok = state.auth.id
    /\ \/ state'.pending \in {state.pending, None}
       \/ op[f].pc = "persist" /\ state'.pending = op[f].code /\ ReservationCurrent(f)
    /\ \/ state'.auth = None
       \/ SameSession(state.auth, state'.auth)
       \/ op[f].pc = "commit" /\ state'.auth.id = op[f].tok /\ state.pending = op[f].code
    /\ revoked' \in SUBSET (revoked \cup (IF op[f].pc = "revoke" THEN {op[f].tok} ELSE {}))
    /\ revoked' # revoked => op[f].tok \in stranded' \/ (r.pc = "clear" /\ r.tok = op[f].tok)
    /\ op[f].pc = "clear" => state'.auth = None \/ op[f].tok \in stranded'
    /\ SessionMove(f)
    /\ r.pc = "code" => /\ r.gen = state'.gen /\ r.prev = state.auth /\ f \notin overtaken'
                        /\ SameSession(state.auth, state'.auth)
    /\ r.pc = "persist" => /\ op[f].pc = "code" /\ r.gen = op[f].gen /\ r.prev = op[f].prev
                           /\ overtaken' = overtaken

\* The environment changes storage, a context or the clock.
WorldMove ==
    /\ op' = op /\ TypeOK' /\ Grows /\ PendingMove
    /\ state'.pending \in {state.pending, None}
    /\ \/ state'.auth = None
       \/ SameSession(state.auth, state'.auth)
       \/ state'.auth.id \in issued' \ issued
    /\ revoked' = revoked
    /\ SessionMove(None)

\* A move of a flow keeps the invariant.
LEMMA FlowMoveKeeps ==
    ASSUME AuthInv, NEW f \in Flows, NEW r, FlowMove(f, r)
    PROVE  AuthInv'
<1> USE NoneAssumption
<1>0. TypeOK /\ TypeOK' /\ Grows /\ PendingMove
  BY DEF AuthInv, FlowMove
<1>1. op'[f] = r /\ \A g \in Flows \ {f} : op'[g] = op[g]
  BY <1>0 DEF FlowMove, TypeOK
<1>2. FlowsShaped'
  <2> SUFFICES ASSUME NEW g \in Flows PROVE FlowShape(op'[g], issued', closed', expired')
    BY DEF FlowsShaped
  <2>1. CASE g = f
    BY <2>1, <1>1 DEF FlowMove
  <2>2. CASE g # f
    <3>1. FlowShape(op[g], issued, closed, expired)
      BY DEF AuthInv, FlowsShaped
    <3> QED BY <2>2, <3>1, <1>0, <1>1 DEF FlowShape, Grows
  <2> QED BY <2>1, <2>2
<1>3. FlowShape(op[f], issued, closed, expired)
  BY DEF AuthInv, FlowsShaped
<1>4. Issued'
  <2>1. state'.pending # None => state'.pending \in issued' /\ state'.pending \notin dropped'
    BY <1>0, <1>3 DEF AuthInv, Issued, CodeFresh, FlowMove, PendingMove, FlowShape, WithCode, Grows
  <2>2. state'.auth # None => state'.auth.id \in issued'
    BY <1>0, <1>3 DEF AuthInv, Issued, FlowMove, FlowShape, Grows, SameSession
  <2>3. dropped' \cup revoked' \in SUBSET issued'
    BY <1>0, <1>3 DEF AuthInv, Issued, FlowMove, PendingMove, FlowShape, Grows, Removing
  <2> QED BY <2>1, <2>2, <2>3 DEF Issued
<1>5. CodeFresh'
  <2> SUFFICES ASSUME NEW g \in Flows, op'[g].pc = "persist"
               PROVE  /\ op'[g].code \notin dropped' /\ op'[g].code # state'.pending
                      /\ \A h \in Flows \ {g} : op'[h].pc = "persist" => op'[h].code # op'[g].code
    BY DEF CodeFresh
  <2>1. CASE g = f
    <3>1. op'[g].code \notin issued /\ state' = state /\ op'[g].code \in Codes
      BY <2>1, <1>0, <1>1 DEF FlowMove, FlowShape, WithCode
    <3>2. op'[g].code \notin dropped' /\ op'[g].code # state'.pending
      BY <3>1, <1>0 DEF AuthInv, Issued, PendingMove
    <3>3. \A h \in Flows \ {g} : op'[h].pc = "persist" => op'[h].code \in issued
      BY <2>1, <1>1 DEF AuthInv, FlowsShaped, FlowShape, WithCode
    <3> QED BY <3>1, <3>2, <3>3
  <2>2. CASE g # f
    <3>1. op'[g] = op[g] /\ op[g].code \in issued /\ op[g].code \in Codes
      BY <2>2, <1>1 DEF AuthInv, FlowsShaped, FlowShape, WithCode
    <3>2. op[g].code # state'.pending
      BY <2>2, <3>1, <1>0 DEF AuthInv, CodeFresh, FlowMove
    <3>3. op[g].code \notin dropped'
      BY <3>1, <1>0 DEF AuthInv, CodeFresh, PendingMove
    <3>4. \A h \in Flows \ {g} : op'[h].pc = "persist" => op'[h].code # op'[g].code
      BY <2>2, <3>1, <1>1 DEF AuthInv, CodeFresh, FlowMove
    <3> QED BY <3>1, <3>2, <3>3, <3>4
  <2> QED BY <2>1, <2>2
<1>6. TokenFresh'
  <2> SUFFICES ASSUME NEW g \in Flows, op'[g].pc = "commit"
               PROVE  /\ op'[g].tok \notin revoked'
                      /\ state'.auth # None => state'.auth.id # op'[g].tok
                      /\ \A h \in Flows \ {g} :
                            op'[h].pc \in Removing \cup {"commit"} => op'[h].tok # op'[g].tok
    BY DEF TokenFresh
  <2>1. CASE g = f
    <3>1. r.tok \notin issued /\ state' = state /\ op'[g].tok = r.tok
      BY <2>1, <1>1 DEF FlowMove
    <3>2. revoked' \in SUBSET issued
      BY <1>3 DEF FlowMove, AuthInv, Issued, FlowShape, Removing
    <3>3. \A h \in Flows \ {g} : op'[h].pc \in Removing \cup {"commit"} => op'[h].tok \in issued
      BY <2>1, <1>1 DEF AuthInv, FlowsShaped, FlowShape
    <3> QED BY <3>1, <3>2, <3>3 DEF AuthInv, Issued
  <2>2. CASE g # f
    <3>1. op'[g] = op[g] /\ op[g].tok \in issued
      BY <2>2, <1>1 DEF AuthInv, FlowsShaped, FlowShape
    <3>2. /\ op[g].tok \notin revoked
          /\ state.auth # None => state.auth.id # op[g].tok
          /\ \A h \in Flows \ {g} : op[h].pc \in Removing \cup {"commit"} => op[h].tok # op[g].tok
      BY <3>1 DEF AuthInv, TokenFresh
    <3>3. op[g].tok \notin revoked'
      BY <2>2, <3>2 DEF FlowMove, Removing
    <3>4. state'.auth # None => state'.auth.id # op[g].tok
      BY <2>2, <3>2 DEF FlowMove, SameSession
    <3>5. r.pc \in Removing \cup {"commit"} => r.tok # op[g].tok
      BY <2>2, <3>1, <3>2 DEF FlowMove, Removing
    <3> QED BY <2>2, <3>1, <3>2, <3>3, <3>4, <3>5, <1>1
  <2> QED BY <2>1, <2>2
<1>7. RevokedOnItsWayOut'
  <2> SUFFICES ASSUME state'.auth # None, state'.auth.id \in revoked'
               PROVE  \/ state'.auth.id \in stranded'
                      \/ \E g \in Flows : op'[g].pc = "clear" /\ op'[g].tok = state'.auth.id
    BY DEF RevokedOnItsWayOut
  <2>1. SameSession(state.auth, state'.auth)
    BY <1>3 DEF FlowMove, AuthInv, TokenFresh, Removing, FlowShape
  <2>2. state.auth # None /\ state'.auth.id = state.auth.id
    BY <2>1 DEF SameSession
  <2>3. CASE state.auth.id \in revoked
    <3>1. CASE state.auth.id \in stranded
      BY <3>1, <2>2, <1>0 DEF Grows
    <3>2. CASE \E g \in Flows : op[g].pc = "clear" /\ op[g].tok = state.auth.id
      BY <3>2, <2>2, <1>1 DEF FlowMove
    <3> QED BY <2>2, <2>3, <3>1, <3>2 DEF AuthInv, RevokedOnItsWayOut
  <2>4. CASE state.auth.id \notin revoked
    <3>1. state.auth.id = op[f].tok /\ revoked' # revoked
      BY <2>2, <2>4 DEF FlowMove
    <3> QED BY <3>1, <2>2, <1>1 DEF FlowMove
  <2> QED BY <2>3, <2>4
<1> QED BY <1>0, <1>2, <1>4, <1>5, <1>6, <1>7 DEF AuthInv

\* So does a move of the environment.
LEMMA WorldMoveKeeps ==
    ASSUME AuthInv, WorldMove
    PROVE  AuthInv'
<1> USE NoneAssumption
<1>0. TypeOK /\ TypeOK' /\ Grows /\ PendingMove /\ op' = op
  BY DEF AuthInv, WorldMove
<1>1. FlowsShaped'
  BY <1>0 DEF AuthInv, FlowsShaped, FlowShape, Grows
<1>2. Issued'
  <2>1. state'.pending # None => state'.pending \in issued' /\ state'.pending \notin dropped'
    BY <1>0 DEF AuthInv, Issued, WorldMove, PendingMove, Grows
  <2>2. state'.auth # None => state'.auth.id \in issued'
    BY <1>0 DEF AuthInv, Issued, WorldMove, Grows, SameSession
  <2>3. dropped' \cup revoked' \in SUBSET issued'
    BY <1>0 DEF AuthInv, Issued, WorldMove, PendingMove, Grows
  <2> QED BY <2>1, <2>2, <2>3 DEF Issued
<1>3. CodeFresh'
  <2>1. \A f \in Flows : op[f].pc = "persist" =>
            op[f].code # state'.pending /\ op[f].code \notin dropped'
    BY <1>0 DEF AuthInv, CodeFresh, FlowsShaped, FlowShape, WithCode, WorldMove, PendingMove
  <2> QED BY <2>1, <1>0 DEF AuthInv, CodeFresh
<1>4. TokenFresh'
  <2>1. \A f \in Flows : op[f].pc = "commit" /\ state'.auth # None => state'.auth.id # op[f].tok
    BY DEF AuthInv, TokenFresh, FlowsShaped, FlowShape, WorldMove, SameSession
  <2> QED BY <2>1, <1>0 DEF AuthInv, TokenFresh, WorldMove
<1>5. RevokedOnItsWayOut'
  <2> SUFFICES ASSUME state'.auth # None, state'.auth.id \in revoked'
               PROVE  \/ state'.auth.id \in stranded'
                      \/ \E g \in Flows : op'[g].pc = "clear" /\ op'[g].tok = state'.auth.id
    BY DEF RevokedOnItsWayOut
  <2>1. state.auth # None /\ state'.auth.id = state.auth.id /\ state.auth.id \in revoked
    BY DEF WorldMove, SameSession, AuthInv, Issued
  <2> QED BY <2>1, <1>0 DEF AuthInv, RevokedOnItsWayOut, Grows
<1> QED BY <1>0, <1>1, <1>2, <1>3, <1>4, <1>5 DEF AuthInv

-----------------------------------------------------------------------------
(* The two ways storage changes *)

\* What a change of storage by f leaves to say.
StoreMove(f) ==
    /\ state' \in State /\ overtaken' \in SUBSET Flows /\ dropped' \in SUBSET Codes
    /\ dropped' = IF state'.pending # state.pending /\ state.pending # None
                  THEN dropped \cup {state.pending} ELSE dropped
    /\ \A g \in Reserved \ {f} :
          /\ g \in overtaken => g \in overtaken'
          /\ g \notin overtaken' => state'.gen = state.gen /\ SameSession(state.auth, state'.auth)
          /\ g \in overtaken' \ overtaken /\ Kind = "memory" /\ state.gen < MaxUint64 =>
                state'.gen # state.gen \/ ~SameSession(state.auth, state'.auth)
    /\ state' = state \/ (state'.auth # None => state'.auth.dated)

\* Transact stores the callback's state, its credentials dated, or nothing.
LEMMA TransactEffect ==
    ASSUME TypeOK, NEW f \in Flows \cup {None}, NEW o, NEW s \in State, Transact(f, o, s)
    PROVE  /\ \/ state' = state /\ o = "unchanged"
              \/ /\ state'.pending = s.pending /\ state'.gen = s.gen
                 /\ SameSession(s.auth, state'.auth)
                 /\ o # "unchanged"
           /\ StoreMove(f) /\ f \notin overtaken'
<1> USE NoneAssumption
<1> DEFINE p == prepareStorageSnapshot(s)
<1>1. p \in State /\ p.pending = s.pending /\ p.gen = s.gen /\ p.auth = prepareAuth(s.auth)
  <2>1. s.auth \in AuthTokens \cup {None}
    BY DEF State
  <2>2. prepareAuth(s.auth) \in AuthTokens \cup {None}
    BY <2>1 DEF prepareAuth, AuthTokens
  <2> QED BY <2>2 DEF prepareStorageSnapshot, State
<1>2. SameSession(s.auth, p.auth) /\ (p.auth # None => p.auth.dated)
  <2>1. CASE s.auth = None
    BY <1>1, <2>1 DEF prepareAuth, SameSession
  <2>2. CASE s.auth \in AuthTokens
    <3>1. p.auth = [s.auth EXCEPT !.dated = TRUE] /\ s.auth # None
      BY <1>1, <2>2 DEF prepareAuth
    <3>2. p.auth \in AuthTokens /\ p.auth.id = s.auth.id /\ p.auth.dated
      BY <3>1, <2>2 DEF AuthTokens
    <3> QED BY <3>1, <3>2 DEF SameSession
  <2> QED BY <2>1, <2>2 DEF State
<1>3. state' = IF o = "unchanged" THEN state ELSE p
  BY DEF Transact
<1> HIDE DEF p
<1>4. /\ state' \in State /\ state \in State
      /\ \/ state' = state /\ o = "unchanged"
         \/ /\ state'.pending = s.pending /\ state'.gen = s.gen
            /\ SameSession(s.auth, state'.auth)
            /\ o # "unchanged"
      /\ state' = state \/ (state'.auth # None => state'.auth.dated)
  BY <1>1, <1>2, <1>3 DEF TypeOK, State
<1>5. overtaken' = IF state'.gen # state.gen \/ ~SameSession(state.auth, state'.auth)
                   THEN (overtaken \cup Reserved) \ {f} ELSE overtaken \ {f}
  BY <1>3 DEF Transact, SameSession, p
<1>6. dropped' = IF state'.pending # state.pending /\ state.pending # None
                 THEN dropped \cup {state.pending} ELSE dropped
  BY <1>3 DEF Transact, p
<1>7. dropped' \in SUBSET Codes
  BY <1>4, <1>6 DEF TypeOK, State
<1>8. overtaken' \in SUBSET Flows
  BY <1>5 DEF TypeOK, Reserved
<1> QED BY <1>4, <1>5, <1>6, <1>7, <1>8 DEF StoreMove

\* Clear and Delete leave no session and no pending authorization.
LEMMA WipeEffect ==
    ASSUME TypeOK, NEW f \in Flows \cup {None}, NEW o, NEW s \in State, Wipe(f, o, s),
           s.auth = None, s.pending = None,
           Kind = "memory" /\ state.gen < MaxUint64 => s.gen # state.gen
    PROVE  /\ \/ state' = state /\ o = "unchanged"
              \/ state' = s /\ o # "unchanged"
           /\ StoreMove(f)
<1> USE NoneAssumption
<1>1. state' = IF o = "unchanged" THEN state ELSE s
  BY DEF Wipe
<1>2. overtaken' = IF o = "unchanged" THEN overtaken ELSE (overtaken \cup Reserved) \ {f}
  BY DEF Wipe
<1>3. dropped' = IF state'.pending # state.pending THEN dropped \cup {state.pending} ELSE dropped
  BY DEF Wipe
<1>4. state \in State /\ state' \in State
  BY <1>1 DEF TypeOK, State
<1>5. dropped' = IF state'.pending # state.pending /\ state.pending # None
                 THEN dropped \cup {state.pending} ELSE dropped
  BY <1>1, <1>3
<1>6. dropped' \in SUBSET Codes
  BY <1>4, <1>5 DEF TypeOK, State
<1>7. overtaken' \in SUBSET Flows
  BY <1>2 DEF TypeOK, Reserved
<1>8. \A g \in Reserved \ {f} :
          /\ g \in overtaken => g \in overtaken'
          /\ g \notin overtaken' => state'.gen = state.gen /\ SameSession(state.auth, state'.auth)
          /\ g \in overtaken' \ overtaken /\ Kind = "memory" /\ state.gen < MaxUint64 =>
                state'.gen # state.gen \/ ~SameSession(state.auth, state'.auth)
  BY <1>1, <1>2 DEF SameSession
<1> QED BY <1>1, <1>4, <1>5, <1>6, <1>7, <1>8 DEF StoreMove

\* Clearing storage moves the generation of a MemoryStorage on.
LEMMA ClearedState ==
    ASSUME TypeOK, NEW s \in {Cleared(state), Deleted(state)}
    PROVE  /\ s \in State /\ s.auth = None /\ s.pending = None
           /\ Kind = "memory" /\ s = Cleared(state) => s.gen = nextGeneration(state.gen)
<1> USE MaxUint64Assumption, KindAssumption
<1>1. /\ newStorageState \in State /\ newStorageState.auth = None
      /\ newStorageState.pending = None
  BY DEF newStorageState, State, Generations
<1>2. \A g \in Generations : nextGeneration(g) \in Generations
  BY DEF nextGeneration, Generations
<1>3. state.gen \in Generations /\ 0 \in Generations
  BY DEF TypeOK, Generations
<1>4. \A g \in Generations :
          LET t == [newStorageState EXCEPT !.gen = nextGeneration(g)] IN
          t \in State /\ t.auth = None /\ t.pending = None /\ t.gen = nextGeneration(g)
  BY <1>1, <1>2 DEF State
<1> QED BY <1>1, <1>3, <1>4 DEF Cleared, Deleted

\* The next generation differs from this one, and is the successor but for the
\* wrap-around.
LEMMA NextGeneration ==
    ASSUME NEW g \in Generations
    PROVE  /\ nextGeneration(g) \in Generations
           /\ g < MaxUint64 => nextGeneration(g) = g + 1
BY MaxUint64Assumption DEF nextGeneration, Generations

\* A flow that leaves storage alone.
LEMMA QuietMove ==
    ASSUME AuthInv, NEW f \in Flows, NEW r \in Op, op' = [op EXCEPT ![f] = r],
           UNCHANGED <<state, expired, turns, dropped>>, Grows,
           canceled' \in SUBSET Flows, issued' \in SUBSET (Codes \cup Tokens),
           closed' \in SUBSET Codes, revoked' \in SUBSET Tokens, stranded' \in SUBSET Tokens,
           overtaken' \in {overtaken, overtaken \ {f}},
           FlowShape(r, issued', closed', expired),
           r.pc # "code",
           r.pc = "persist" => /\ r.code \notin issued /\ overtaken' = overtaken
                               /\ op[f].pc = "code" /\ r.gen = op[f].gen /\ r.prev = op[f].prev,
           r.pc = "commit" => r.tok \notin issued,
           r.pc \in Removing => \/ op[f].pc \in Removing /\ r.tok = op[f].tok
                                \/ state.auth # None /\ r.tok = state.auth.id,
           revoked' \in SUBSET (revoked \cup (IF op[f].pc = "revoke" THEN {op[f].tok} ELSE {})),
           revoked' # revoked => op[f].tok \in stranded' \/ (r.pc = "clear" /\ r.tok = op[f].tok),
           op[f].pc = "clear" => op[f].tok \in stranded'
    PROVE  FlowMove(f, r)
<1>0. TypeOK
  BY DEF AuthInv
<1>1. TypeOK'
  BY <1>0 DEF TypeOK
<1>2. PendingMove
  BY DEF PendingMove
<1>3. SameSession(state.auth, state.auth)
  BY DEF SameSession
<1>4. SessionMove(f)
  BY <1>3 DEF SessionMove
<1> QED BY <1>1, <1>2, <1>3, <1>4 DEF FlowMove

\* A flow that changes storage.
LEMMA StoringMove ==
    ASSUME AuthInv, NEW f \in Flows, NEW r \in Op, op' = [op EXCEPT ![f] = r],
           UNCHANGED <<expired, serverVars>>, StoreMove(f),
           turns' \in 0 .. MaxTurns, canceled' \in SUBSET Flows, stranded' \in SUBSET Tokens,
           stranded \in SUBSET stranded',
           r.pc \notin {"persist", "commit"} \cup Removing,
           FlowShape(r, issued, closed, expired),
           \/ state'.pending \in {state.pending, None}
           \/ op[f].pc = "persist" /\ state'.pending = op[f].code /\ ReservationCurrent(f),
           state.pending # None /\ state'.pending = None =>
              \/ state.pending \in expired \cup closed
              \/ state' \in {Cleared(state), Deleted(state)},
           \/ state'.auth = None
           \/ SameSession(state.auth, state'.auth)
           \/ op[f].pc = "commit" /\ state'.auth.id = op[f].tok /\ state.pending = op[f].code,
           Kind = "memory" /\ state.gen < MaxUint64 =>
              \/ state'.gen = state.gen + 1
              \/ state'.gen = state.gen /\ SameSession(state.auth, state'.auth),
           op[f].pc = "clear" => state'.auth = None \/ op[f].tok \in stranded',
           r.pc = "code" => /\ r.gen = state'.gen /\ r.prev = state.auth /\ f \notin overtaken'
                            /\ SameSession(state.auth, state'.auth)
    PROVE  FlowMove(f, r)
<1>0. TypeOK
  BY DEF AuthInv
<1>1. TypeOK'
  BY <1>0 DEF TypeOK, StoreMove, State, serverVars
<1>2. Grows /\ UNCHANGED <<issued, closed, expired, revoked>>
  BY DEF Grows, serverVars
<1>3. PendingMove
  BY DEF PendingMove, StoreMove
<1>4. SessionMove(f)
  <2>1. Kind = "memory" /\ state.gen < MaxUint64 =>
            /\ state'.gen \in {state.gen, state.gen + 1}
            /\ state'.gen = state.gen => SameSession(state.auth, state'.auth)
    BY <1>0, MaxUint64Assumption DEF TypeOK, Generations
  <2> QED BY <2>1 DEF SessionMove, StoreMove
<1> QED BY <1>1, <1>2, <1>3, <1>4 DEF FlowMove, StoreMove

-----------------------------------------------------------------------------
(* Every action is such a move *)

\* The operation is r next, and whatever pc r has it has the shape for it.
Moves(f, r) ==
    /\ r \in Op /\ op' = [op EXCEPT ![f] = r] /\ canceled' \in SUBSET Flows

\* The operation of an idle flow.
LEMMA IdleOp == Idle \in Op /\ Idle.pc = "idle"
BY MaxUint64Assumption DEF Idle, Op, PCs, Generations

\* An operation that returns leaves the flow idle.
LEMMA DoneMoves ==
    ASSUME TypeOK, NEW f \in Flows, Done(f)
    PROVE  Moves(f, Idle) /\ Idle.pc = "idle"
<1> QED BY IdleOp DEF Done, Moves, TypeOK

\* An idle flow carries nothing.
LEMMA PlainShape ==
    ASSUME NEW r, r.pc = "idle", NEW I, NEW C, NEW E
    PROVE  FlowShape(r, I, C, E)
BY DEF FlowShape, WithCode, Removing

\* Goto changes the pc alone.
LEMMA GotoMoves ==
    ASSUME TypeOK, NEW f \in Flows, NEW l \in PCs, Goto(f, l)
    PROVE  \E r : /\ Moves(f, r) /\ r.pc = l /\ r.code = op[f].code /\ r.tok = op[f].tok
                  /\ r.gen = op[f].gen /\ r.prev = op[f].prev /\ canceled' = canceled
<1> DEFINE r == [op[f] EXCEPT !.pc = l]
<1>1. /\ r \in Op /\ r.pc = l /\ r.code = op[f].code /\ r.tok = op[f].tok
      /\ r.gen = op[f].gen /\ r.prev = op[f].prev
  BY DEF TypeOK, Op
<1>2. op' = [op EXCEPT ![f] = r] /\ canceled' = canceled
  BY DEF Goto, TypeOK
<1> HIDE DEF r
<1> QED BY <1>1, <1>2 DEF Moves, TypeOK

\* After an error a blocking poll whose code has expired removes it; any other
\* poll returns.
LEMMA AfterErrorMoves ==
    ASSUME AuthInv, NEW f \in Flows, op[f].pc \in WithCode, AfterError(f)
    PROVE  \E r : /\ Moves(f, r) /\ r.pc \in {"idle", "expire"}
                  /\ FlowShape(r, issued, closed, expired)
<1>0. TypeOK /\ FlowShape(op[f], issued, closed, expired)
  BY DEF AuthInv, FlowsShaped
<1>1. CASE Done(f)
  BY <1>0, <1>1, DoneMoves, PlainShape
<1>2. CASE Goto(f, "expire") /\ op[f].code \in expired
  <2>1. PICK r : Moves(f, r) /\ r.pc = "expire" /\ r.code = op[f].code
    BY <1>0, <1>2, GotoMoves DEF PCs
  <2>2. FlowShape(r, issued, closed, expired)
    BY <2>1, <1>0, <1>2 DEF FlowShape, WithCode, Removing
  <2> QED BY <2>1, <2>2
<1> QED BY <1>1, <1>2 DEF AfterError

\* The next generation, put into the stored state.
LEMMA BumpedState ==
    ASSUME TypeOK
    PROVE  /\ LET s == [state EXCEPT !.gen = nextGeneration(@)] IN
              s \in State /\ s.auth = state.auth /\ s.pending = state.pending
                /\ s.gen = nextGeneration(state.gen)
           /\ LET s == [state EXCEPT !.pending = None, !.gen = nextGeneration(@)] IN
              s \in State /\ s.auth = state.auth /\ s.pending = None
                /\ s.gen = nextGeneration(state.gen)
<1>1. state \in State /\ nextGeneration(state.gen) \in Generations
  BY NextGeneration DEF TypeOK, State
<1> QED BY <1>1 DEF State

\* Reserving a generation.
LEMMA ReserveMoves ==
    ASSUME AuthInv, NEW f \in Flows, NEW o, Reserve(f, o)
    PROVE  \E r : FlowMove(f, r)
<1> USE NoneAssumption
<1>0. TypeOK /\ state \in State /\ SameSession(state.auth, state.auth)
  BY DEF AuthInv, TypeOK, State, SameSession
<1> DEFINE s == [state EXCEPT !.gen = nextGeneration(@)]
<1>1. /\ s \in State /\ s.auth = state.auth /\ s.pending = state.pending
      /\ s.gen = nextGeneration(state.gen)
  BY <1>0, BumpedState
<1>2. Transact(f, o, s) /\ op[f].pc = "idle" /\ UNCHANGED <<expired, serverVars, stranded>>
  BY DEF Reserve
<1> HIDE DEF s
<1>3. /\ \/ state' = state /\ o = "unchanged"
         \/ /\ state'.pending = s.pending /\ state'.gen = s.gen
            /\ SameSession(s.auth, state'.auth)
            /\ o # "unchanged"
      /\ StoreMove(f) /\ f \notin overtaken'
  BY <1>0, <1>1, <1>2, TransactEffect
<1>4. /\ SameSession(state.auth, state'.auth) /\ state'.pending = state.pending
      /\ Kind = "memory" /\ state.gen < MaxUint64 => state'.gen \in {state.gen, state.gen + 1}
  BY <1>0, <1>1, <1>3, NextGeneration DEF State
<1>5. \E r : /\ Moves(f, r) /\ r.pc \in {"idle", "code"}
             /\ r.pc = "code" => /\ r.gen = state'.gen /\ r.prev = state.auth
  <2>1. CASE o = "ok"
    <3> DEFINE r == [Idle EXCEPT !.pc = "code", !.gen = nextGeneration(state.gen),
                                 !.prev = state.auth]
    <3>1. /\ Idle \in Op /\ "code" \in PCs /\ nextGeneration(state.gen) \in Generations
          /\ state.auth \in AuthTokens \cup {None}
      BY <1>0, IdleOp, NextGeneration DEF State, PCs
    <3>2. r \in Op
      BY <3>1, Zenon DEF Op
    <3>3. r.pc = "code" /\ r.gen = nextGeneration(state.gen) /\ r.prev = state.auth
      BY <3>1 DEF Op
    <3>4. op' = [op EXCEPT ![f] = r] /\ canceled' = canceled
      BY <2>1 DEF Reserve
    <3> HIDE DEF r
    <3> QED BY <3>2, <3>3, <3>4, <2>1, <1>0, <1>1, <1>3 DEF Moves, TypeOK
  <2>2. CASE o # "ok"
    BY <2>2, <1>0, DoneMoves DEF Reserve
  <2> QED BY <2>1, <2>2
<1>6. PICK r : /\ Moves(f, r) /\ r.pc \in {"idle", "code"}
               /\ r.pc = "code" => /\ r.gen = state'.gen /\ r.prev = state.auth
  BY <1>5
<1>7. turns' \in 0 .. MaxTurns
  BY <1>0, MaxTurnsAssumption DEF Reserve, TypeOK
<1>8. FlowShape(r, issued, closed, expired)
  BY <1>6, <1>0 DEF FlowShape, WithCode, Removing, AuthInv, Issued
<1>9. stranded' \in SUBSET Tokens
  BY <1>0, <1>2 DEF TypeOK
<1> QED BY <1>2, <1>3, <1>4, <1>6, <1>7, <1>8, <1>9, StoringMove DEF Moves, Removing

\* The server issues a code.
LEMMA CodeIssuedMoves ==
    ASSUME AuthInv, NEW f \in Flows, NEW d \in Codes, CodeIssued(f, d)
    PROVE  \E r : FlowMove(f, r)
<1> DEFINE r == [op[f] EXCEPT !.pc = "persist", !.code = d]
<1>0. TypeOK /\ op[f] \in Op /\ FlowShape(op[f], issued, closed, expired)
  BY DEF AuthInv, TypeOK, FlowsShaped
<1>1. r \in Op
  BY <1>0, Zenon DEF Op, PCs
<1>2. r.pc = "persist" /\ r.code = d /\ r.gen = op[f].gen /\ r.prev = op[f].prev
  BY <1>0 DEF Op
<1>3. /\ op' = [op EXCEPT ![f] = r] /\ op[f].pc = "code" /\ issued' = issued \cup {d}
      /\ d \notin issued
      /\ UNCHANGED <<state, canceled, expired, closed, revoked, turns, overtaken, dropped, stranded>>
  BY <1>0 DEF CodeIssued, TypeOK
<1> HIDE DEF r
<1>4. FlowShape(r, issued', closed', expired)
  BY <1>0, <1>2, <1>3 DEF FlowShape, WithCode, Removing
<1>5. Grows /\ issued' \in SUBSET (Codes \cup Tokens)
  BY <1>0, <1>3 DEF Grows, TypeOK
<1> QED BY <1>0, <1>1, <1>2, <1>3, <1>4, <1>5, QuietMove DEF TypeOK, Removing

\* The flow ends and nothing else happens, but for what the server does or hears
\* in its last step.
LEMMA DoneQuietly ==
    ASSUME AuthInv, NEW f \in Flows, Done(f), op[f].pc = "clear" => op[f].tok \in stranded',
           UNCHANGED <<state, expired, issued, turns, dropped>>,
           closed' \in SUBSET Codes, closed \in SUBSET closed',
           stranded' \in SUBSET Tokens, stranded \in SUBSET stranded',
           revoked' \in SUBSET Tokens, revoked \in SUBSET revoked',
           revoked' \in SUBSET (revoked \cup (IF op[f].pc = "revoke" THEN {op[f].tok} ELSE {})),
           revoked' # revoked => op[f].tok \in stranded',
           overtaken' \in {overtaken, overtaken \ {f}}
    PROVE  \E r : FlowMove(f, r)
<1>0. TypeOK
  BY DEF AuthInv
<1>1. Moves(f, Idle) /\ Idle.pc = "idle"
  BY <1>0, DoneMoves
<1>2. FlowShape(Idle, issued', closed', expired)
  BY <1>1, PlainShape
<1>3. Grows /\ issued' \in SUBSET (Codes \cup Tokens)
  BY <1>0 DEF Grows, TypeOK
<1> QED BY <1>1, <1>2, <1>3, QuietMove DEF Moves, Removing

\* The code request fails, the response is superseded, or a process dies.
LEMMA EndsMove ==
    ASSUME AuthInv, NEW f \in Flows, CodeFails(f) \/ PersistSuperseded(f) \/ Restart(f)
    PROVE  \E r : FlowMove(f, r)
<1>0. TypeOK /\ FlowShape(op[f], issued, closed, expired)
  BY DEF AuthInv, FlowsShaped
<1>1. CASE CodeFails(f)
  BY <1>0, <1>1, DoneQuietly DEF CodeFails, serverVars, TypeOK
<1>2. CASE PersistSuperseded(f)
  BY <1>0, <1>2, DoneQuietly DEF PersistSuperseded, serverVars, TypeOK
<1>3. CASE Restart(f)
  <2>1. op[f].pc = "clear" => op[f].tok \in Tokens
    BY <1>0 DEF FlowShape, Removing
  <2> QED BY <2>1, <1>0, <1>3, DoneQuietly DEF Restart, serverVars, TypeOK
<1> QED BY <1>1, <1>2, <1>3

\* The code becomes the pending authorization.
LEMMA PersistMoves ==
    ASSUME AuthInv, NEW f \in Flows, NEW o, Persist(f, o)
    PROVE  \E r : FlowMove(f, r)
<1> USE NoneAssumption
<1>0. /\ TypeOK /\ state \in State /\ SameSession(state.auth, state.auth)
      /\ FlowShape(op[f], issued, closed, expired) /\ op[f].pc = "persist"
  BY DEF AuthInv, TypeOK, State, SameSession, FlowsShaped, Persist
<1> DEFINE s == [state EXCEPT !.pending = op[f].code]
<1>1. op[f].code \in Codes /\ op[f].code \in issued
  BY <1>0 DEF FlowShape, WithCode
<1>2. s \in State /\ s.auth = state.auth /\ s.pending = op[f].code /\ s.gen = state.gen
  BY <1>0, <1>1 DEF State
<1>3. Transact(f, o, s) /\ UNCHANGED <<expired, serverVars, turns, stranded>>
  BY DEF Persist
<1> HIDE DEF s
<1>4. /\ \/ state' = state /\ o = "unchanged"
         \/ /\ state'.pending = s.pending /\ state'.gen = s.gen
            /\ SameSession(s.auth, state'.auth)
            /\ o # "unchanged"
      /\ StoreMove(f) /\ f \notin overtaken'
  BY <1>0, <1>2, <1>3, TransactEffect
<1>5. SameSession(state.auth, state'.auth) /\ state'.gen = state.gen
  BY <1>0, <1>2, <1>4
<1>6. PICK r : Moves(f, r) /\ r.pc \in {"idle", "initiated"} /\ FlowShape(r, issued, closed, expired)
  <2>1. CASE Done(f)
    BY <2>1, <1>0, DoneMoves, PlainShape
  <2>2. CASE Goto(f, "initiated")
    <3>1. PICK r : Moves(f, r) /\ r.pc = "initiated" /\ r.code = op[f].code
      BY <2>2, <1>0, GotoMoves DEF PCs
    <3>2. FlowShape(r, issued, closed, expired)
      BY <3>1, <1>1 DEF FlowShape, WithCode, Removing
    <3> QED BY <3>1, <3>2
  <2> QED BY <2>1, <2>2 DEF Persist
<1>7. stranded' \in SUBSET Tokens /\ turns' \in 0 .. MaxTurns
  BY <1>0, <1>3 DEF TypeOK
<1>8. \/ state'.pending = state.pending
      \/ /\ op[f].pc = "persist" /\ state'.pending = op[f].code /\ state'.pending # None
         /\ ReservationCurrent(f)
  BY <1>0, <1>1, <1>2, <1>4 DEF Persist
<1> QED BY <1>0, <1>3, <1>4, <1>5, <1>6, <1>7, <1>8, StoringMove DEF Moves, Removing

\* A poll goes from one of its places to another, and storage stays.
LEMMA PollGoes ==
    ASSUME AuthInv, NEW f \in Flows, NEW r, Moves(f, r),
           r.pc \in (WithCode \ {"persist", "commit"}) \cup {"idle"},
           FlowShape(r, issued, closed', expired), op[f].pc # "clear",
           UNCHANGED <<state, expired, issued, revoked, turns, overtaken, dropped, stranded>>,
           closed' \in SUBSET Codes, closed \in SUBSET closed'
    PROVE  \E q : FlowMove(f, q)
<1>0. TypeOK
  BY DEF AuthInv
<1>1. Grows
  BY DEF Grows
<1> QED BY <1>0, <1>1, QuietMove DEF Moves, TypeOK, WithCode, Removing

\* The application starts to poll the code it was given.
LEMMA StartPollMoves ==
    ASSUME AuthInv, NEW f \in Flows, NEW loop \in BOOLEAN, StartPoll(f, loop)
    PROVE  \E r : FlowMove(f, r)
<1> DEFINE l == IF loop THEN "wait" ELSE "poll"
           r == [Idle EXCEPT !.pc = l, !.code = op[f].code, !.loop = loop]
<1>0. /\ TypeOK /\ op[f] \in Op /\ FlowShape(op[f], issued, closed, expired)
      /\ op[f].pc = "initiated"
  BY DEF AuthInv, TypeOK, FlowsShaped, StartPoll
<1>1. op[f].code \in Codes /\ op[f].code \in issued /\ l \in {"wait", "poll"}
  BY <1>0 DEF FlowShape, WithCode
<1>2. /\ op' = [op EXCEPT ![f] = r]
      /\ UNCHANGED <<state, canceled, expired, serverVars, turns, overtaken, dropped, stranded>>
  BY <1>0 DEF StartPoll
<1> HIDE DEF l
<1>3. Idle \in Op /\ l \in PCs /\ op[f].code \in Codes \cup {None}
  BY <1>1, IdleOp DEF PCs
<1>4. r \in Op
  BY <1>3, Zenon DEF Op
<1>5. r.pc = l /\ r.code = op[f].code
  BY <1>3 DEF Op
<1> HIDE DEF r
<1>6. FlowShape(r, issued, closed, expired)
  BY <1>1, <1>5 DEF FlowShape, WithCode, Removing
<1> QED BY <1>0, <1>1, <1>2, <1>4, <1>5, <1>6, PollGoes DEF Moves, TypeOK, serverVars, WithCode

\* A poll waits for its turn, hears that the user has not decided, is told that
\* the flow is over, fails, or finds its code superseded.
LEMMA PollingMoves ==
    ASSUME AuthInv, NEW f \in Flows,
           \/ Wait(f) \/ PollPending(f) \/ PollTerminal(f) \/ CommitSuperseded(f)
           \/ \E lost \in BOOLEAN : PollFails(f, lost)
    PROVE  \E r : FlowMove(f, r)
<1>0. /\ TypeOK /\ FlowShape(op[f], issued, closed, expired)
      /\ op[f].pc \in {"wait", "poll", "commit"} /\ op[f].code \in Codes /\ op[f].code \in issued
  BY DEF AuthInv, FlowsShaped, Wait, PollPending, PollTerminal, CommitSuperseded, PollFails,
         FlowShape, WithCode
<1>1. /\ UNCHANGED <<state, expired, issued, revoked, turns, overtaken, dropped, stranded>>
      /\ closed' \in SUBSET Codes /\ closed \in SUBSET closed'
  BY <1>0 DEF Wait, PollPending, PollTerminal, CommitSuperseded, PollFails, serverVars, TypeOK
<1>2. ASSUME NEW l \in {"initiated", "wait", "poll", "terminal", "expire"}, Goto(f, l),
             l = "terminal" => op[f].code \in closed', l = "expire" => op[f].code \in expired
      PROVE  \E r : FlowMove(f, r)
  <2>1. PICK r : Moves(f, r) /\ r.pc = l /\ r.code = op[f].code
    BY <1>0, <1>2, GotoMoves DEF PCs
  <2>2. FlowShape(r, issued, closed', expired)
    BY <2>1, <1>0, <1>2 DEF FlowShape, WithCode, Removing
  <2> QED BY <2>1, <2>2, <1>0, <1>1, PollGoes DEF WithCode
<1>3. CASE Done(f)
  <2>1. Moves(f, Idle) /\ Idle.pc = "idle" /\ FlowShape(Idle, issued, closed', expired)
    BY <1>0, <1>3, DoneMoves, PlainShape
  <2> QED BY <2>1, <1>0, <1>1, PollGoes
<1>4. CASE Wait(f)
  BY <1>2, <1>3, <1>4 DEF Wait
<1>5. CASE PollPending(f)
  BY <1>2, <1>5 DEF PollPending
<1>6. CASE PollTerminal(f)
  BY <1>2, <1>6 DEF PollTerminal
<1>7. CASE AfterError(f)
  BY <1>2, <1>3, <1>7 DEF AfterError
<1> QED BY <1>4, <1>5, <1>6, <1>7 DEF CommitSuperseded, PollFails

\* The server grants the code a token nobody has seen.
LEMMA PollGrantedMoves ==
    ASSUME AuthInv, NEW f \in Flows, NEW t \in Tokens, PollGranted(f, t)
    PROVE  \E r : FlowMove(f, r)
<1> DEFINE r == [op[f] EXCEPT !.pc = "commit", !.tok = t]
<1>0. TypeOK /\ op[f] \in Op /\ FlowShape(op[f], issued, closed, expired)
  BY DEF AuthInv, TypeOK, FlowsShaped
<1>1. r \in Op
  BY <1>0, Zenon DEF Op, PCs
<1>2. r.pc = "commit" /\ r.tok = t /\ r.code = op[f].code
  BY <1>0 DEF Op
<1>3. /\ op' = [op EXCEPT ![f] = r] /\ op[f].pc = "poll" /\ issued' = issued \cup {t}
      /\ t \notin issued /\ closed' = closed \cup {op[f].code}
      /\ UNCHANGED <<state, canceled, expired, revoked, turns, overtaken, dropped, stranded>>
  BY <1>0 DEF PollGranted, TypeOK
<1> HIDE DEF r
<1>4. op[f].code \in Codes /\ op[f].code \in issued
  BY <1>0, <1>3 DEF FlowShape, WithCode
<1>5. FlowShape(r, issued', closed', expired)
  BY <1>2, <1>3, <1>4 DEF FlowShape, WithCode, Removing
<1>6. Grows /\ issued' \in SUBSET (Codes \cup Tokens) /\ closed' \in SUBSET Codes
  BY <1>0, <1>3, <1>4 DEF Grows, TypeOK
<1> QED BY <1>0, <1>1, <1>2, <1>3, <1>5, <1>6, QuietMove DEF TypeOK, Removing

\* A flow whose code has expired, or was closed, removes it from storage, if it
\* is still there.
LEMMA RemovesPending ==
    ASSUME AuthInv, NEW f \in Flows, NEW o, NEW s \in State, Transact(f, o, s),
           \/ s = state
           \/ /\ s.pending = None /\ s.auth = state.auth /\ s.gen = nextGeneration(state.gen)
              /\ state.pending \in expired \cup closed,
           NEW r, Moves(f, r), r.pc \in {"idle", "wait", "expire"},
           FlowShape(r, issued, closed, expired), op[f].pc # "clear",
           UNCHANGED <<expired, serverVars, turns, stranded>>
    PROVE  FlowMove(f, r)
<1>0. /\ TypeOK /\ state \in State /\ SameSession(state.auth, state.auth)
  BY DEF AuthInv, TypeOK, State, SameSession
<1>1. /\ \/ state' = state /\ o = "unchanged"
         \/ /\ state'.pending = s.pending /\ state'.gen = s.gen
            /\ SameSession(s.auth, state'.auth)
            /\ o # "unchanged"
      /\ StoreMove(f)
  BY <1>0, TransactEffect
<1>2. SameSession(state.auth, state'.auth)
  BY <1>0, <1>1
<1>3. /\ state'.pending \in {state.pending, None}
      /\ state'.pending # state.pending => state.pending \in expired \cup closed
      /\ Kind = "memory" /\ state.gen < MaxUint64 => state'.gen \in {state.gen, state.gen + 1}
  BY <1>0, <1>1, NextGeneration DEF State
<1>4. stranded' \in SUBSET Tokens /\ turns' \in 0 .. MaxTurns
  BY <1>0 DEF TypeOK
<1> QED BY <1>1, <1>2, <1>3, <1>4, StoringMove DEF Moves, Removing

\* ResumeDeviceAuth takes up the pending authorization, or removes one that has
\* expired.
LEMMA ResumeMoves ==
    ASSUME AuthInv, NEW f \in Flows, NEW o, Resume(f, o)
    PROVE  \E r : FlowMove(f, r)
<1> USE NoneAssumption
<1> DEFINE d == state.pending
           s == IF d \in expired
                THEN [state EXCEPT !.pending = None, !.gen = nextGeneration(@)] ELSE state
<1>0. TypeOK /\ state \in State /\ op[f].pc = "idle"
  BY DEF AuthInv, TypeOK, State, Resume
<1>1. /\ s \in State
      /\ \/ s = state
         \/ /\ s.pending = None /\ s.auth = state.auth /\ s.gen = nextGeneration(state.gen)
            /\ state.pending \in expired \cup closed
  BY <1>0, BumpedState
<1>2. Transact(f, o, s) /\ UNCHANGED <<expired, serverVars, turns, stranded>>
  BY DEF Resume
<1> HIDE DEF s
<1>3. PICK r : /\ Moves(f, r) /\ r.pc \in {"idle", "wait"}
               /\ FlowShape(r, issued, closed, expired)
  <2>1. CASE Done(f)
    BY <2>1, <1>0, DoneMoves, PlainShape
  <2>2. CASE /\ d # None
             /\ op' = [op EXCEPT ![f] = [Idle EXCEPT !.pc = "wait", !.code = d, !.loop = TRUE]]
             /\ UNCHANGED canceled
    <3> DEFINE r == [Idle EXCEPT !.pc = "wait", !.code = d, !.loop = TRUE]
    <3>1. Idle \in Op /\ "wait" \in PCs /\ d \in Codes /\ d \in issued
      BY <2>2, <1>0, IdleOp DEF PCs, State, AuthInv, Issued
    <3>2. r \in Op
      BY <3>1, Zenon DEF Op
    <3>3. r.pc = "wait" /\ r.code = d
      BY <3>1 DEF Op
    <3>4. op' = [op EXCEPT ![f] = r] /\ canceled' \in SUBSET Flows
      BY <2>2, <1>0 DEF TypeOK
    <3> HIDE DEF r
    <3>5. FlowShape(r, issued, closed, expired)
      BY <3>1, <3>3 DEF FlowShape, WithCode, Removing
    <3> QED BY <3>2, <3>3, <3>4, <3>5 DEF Moves
  <2> QED BY <2>1, <2>2 DEF Resume
<1> QED BY <1>0, <1>1, <1>2, <1>3, RemovesPending

\* A flow that the server or the clock has ended.
LEMMA EndedMoves ==
    ASSUME AuthInv, NEW f \in Flows, NEW o, Terminal(f, o) \/ Expire(f, o)
    PROVE  \E r : FlowMove(f, r)
<1>0. /\ TypeOK /\ state \in State /\ op[f].pc \in {"terminal", "expire"}
      /\ op[f].code \in expired \cup closed
  BY DEF AuthInv, TypeOK, State, Terminal, Expire, FlowsShaped, FlowShape
<1> DEFINE s == ClearTerminal(f)
<1>1. /\ s \in State
      /\ \/ s = state
         \/ /\ s.pending = None /\ s.auth = state.auth /\ s.gen = nextGeneration(state.gen)
            /\ state.pending \in expired \cup closed
  BY <1>0, BumpedState DEF ClearTerminal, StillPending
<1>2. Transact(f, o, s) /\ UNCHANGED <<expired, serverVars, turns, stranded>>
  BY DEF Terminal, Expire
<1> HIDE DEF s
<1>3. PICK r : /\ Moves(f, r) /\ r.pc \in {"idle", "expire"}
               /\ FlowShape(r, issued, closed, expired)
  <2>1. CASE Done(f)
    BY <2>1, <1>0, DoneMoves, PlainShape
  <2>2. CASE AfterError(f)
    BY <2>2, <1>0, AfterErrorMoves DEF WithCode
  <2> QED BY <2>1, <2>2 DEF Terminal, Expire
<1> QED BY <1>0, <1>1, <1>2, <1>3, RemovesPending

\* The login is committed while its code is pending.
LEMMA CommitLoginMoves ==
    ASSUME AuthInv, NEW f \in Flows, NEW o, CommitLogin(f, o)
    PROVE  \E r : FlowMove(f, r)
<1> USE NoneAssumption
<1> DEFINE s == [auth |-> Decoded(op[f].tok), pending |-> None, gen |-> nextGeneration(state.gen)]
<1>0. /\ TypeOK /\ state \in State /\ op[f].pc = "commit" /\ state.pending = op[f].code
      /\ op[f].code \in closed /\ op[f].tok \in Tokens
  BY DEF AuthInv, TypeOK, State, CommitLogin, StillPending, FlowsShaped, FlowShape
<1>1. /\ Decoded(op[f].tok) \in AuthTokens /\ Decoded(op[f].tok).id = op[f].tok
      /\ nextGeneration(state.gen) \in Generations
  BY <1>0, NextGeneration DEF Decoded, AuthTokens, State
<1>2. /\ s \in State /\ s.auth # None /\ s.auth.id = op[f].tok /\ s.pending = None
      /\ s.gen = nextGeneration(state.gen)
  BY <1>1 DEF State
<1>3. Transact(f, o, s) /\ UNCHANGED <<expired, serverVars, turns, stranded>>
  BY DEF CommitLogin
<1> HIDE DEF s
<1>4. /\ \/ state' = state /\ o = "unchanged"
         \/ /\ state'.pending = s.pending /\ state'.gen = s.gen
            /\ SameSession(s.auth, state'.auth)
            /\ o # "unchanged"
      /\ StoreMove(f)
  BY <1>0, <1>2, <1>3, TransactEffect
<1>5. PICK r : /\ Moves(f, r) /\ r.pc \in {"idle", "expire"}
               /\ FlowShape(r, issued, closed, expired)
  <2>1. CASE Done(f)
    BY <2>1, <1>0, DoneMoves, PlainShape
  <2>2. CASE AfterError(f)
    BY <2>2, <1>0, AfterErrorMoves DEF WithCode
  <2> QED BY <2>1, <2>2 DEF CommitLogin
<1>6. CASE state' = state
  <2>1. SameSession(state.auth, state'.auth)
    BY <1>6 DEF SameSession
  <2> QED BY <2>1, <1>0, <1>3, <1>4, <1>5, <1>6, StoringMove DEF Moves, Removing, TypeOK
<1>7. CASE /\ state'.pending = None /\ state'.gen = nextGeneration(state.gen)
           /\ SameSession(s.auth, state'.auth)
  <2>1. state'.auth # None /\ state'.auth.id = op[f].tok
    BY <1>2, <1>7 DEF SameSession
  <2>2. Kind = "memory" /\ state.gen < MaxUint64 => state'.gen = state.gen + 1
    BY <1>0, <1>7, NextGeneration DEF State
  <2> QED BY <2>1, <2>2, <1>0, <1>3, <1>4, <1>5, <1>7, StoringMove DEF Moves, Removing, TypeOK
<1> QED BY <1>2, <1>4, <1>6, <1>7

\* Logout reads the token to revoke, and the server's answer.
LEMMA RevokingMoves ==
    ASSUME AuthInv, NEW f \in Flows,
           LogoutLoad(f) \/ RevokeSucceeds(f) \/ \E lost \in BOOLEAN : RevokeFails(f, lost)
    PROVE  \E r : FlowMove(f, r)
<1> USE NoneAssumption
<1>0. TypeOK /\ state \in State /\ FlowShape(op[f], issued, closed, expired)
  BY DEF AuthInv, TypeOK, State, FlowsShaped
<1>1. CASE LogoutLoad(f)
  <2> DEFINE r == [Idle EXCEPT !.pc = "revoke", !.tok = state.auth.id]
  <2>1. Idle \in Op /\ "revoke" \in PCs /\ state.auth.id \in Tokens /\ state.auth.id \in issued
    BY <1>0, <1>1, IdleOp DEF PCs, LogoutLoad, State, AuthTokens, AuthInv, Issued
  <2>2. r \in Op
    BY <2>1, Zenon DEF Op
  <2>3. r.pc = "revoke" /\ r.tok = state.auth.id
    BY <2>1 DEF Op
  <2>4. /\ op' = [op EXCEPT ![f] = r] /\ op[f].pc = "idle" /\ state.auth # None
        /\ UNCHANGED <<state, canceled, expired, serverVars, turns, overtaken, dropped, stranded>>
    BY <1>1 DEF LogoutLoad
  <2> HIDE DEF r
  <2>5. FlowShape(r, issued, closed, expired)
    BY <2>1, <2>3 DEF FlowShape, WithCode, Removing
  <2>6. Grows
    BY <2>4 DEF Grows, serverVars
  <2> QED BY <2>2, <2>3, <2>4, <2>5, <2>6, <1>0, QuietMove DEF serverVars, Removing, TypeOK
<1>2. CASE RevokeSucceeds(f)
  <2>1. op[f].pc = "revoke" /\ op[f].tok \in Tokens /\ op[f].tok \in issued
    BY <1>0, <1>2 DEF RevokeSucceeds, FlowShape, Removing
  <2>2. PICK r : /\ Moves(f, r) /\ r.pc = "clear" /\ r.tok = op[f].tok
    BY <1>0, <1>2, GotoMoves DEF RevokeSucceeds, PCs
  <2>3. /\ revoked' = revoked \cup {op[f].tok}
        /\ UNCHANGED <<state, expired, issued, closed, turns, overtaken, dropped, stranded>>
    BY <1>2 DEF RevokeSucceeds
  <2>4. FlowShape(r, issued, closed, expired)
    BY <2>1, <2>2 DEF FlowShape, WithCode, Removing
  <2>5. Grows /\ revoked' \in SUBSET Tokens
    BY <2>1, <2>3, <1>0 DEF Grows, TypeOK
  <2> QED BY <2>1, <2>2, <2>3, <2>4, <2>5, <1>0, QuietMove DEF Moves, Removing, TypeOK
<1>3. CASE \E lost \in BOOLEAN : RevokeFails(f, lost)
  <2>1. op[f].pc = "revoke" /\ op[f].tok \in Tokens
    BY <1>0, <1>3 DEF RevokeFails, FlowShape, Removing
  <2>2. PICK lost \in BOOLEAN : RevokeFails(f, lost)
    BY <1>3
  <2> QED BY <2>1, <2>2, <1>0, DoneQuietly DEF RevokeFails, TypeOK
<1> QED BY <1>1, <1>2, <1>3

\* Clear and Delete are changes of the session that the generation of a
\* MemoryStorage shows.
LEMMA WipeMoves ==
    ASSUME AuthInv, NEW f \in Flows \cup {None}, NEW o, NEW s \in {Cleared(state), Deleted(state)},
           s = Deleted(state) => Kind = "file" \/ s = Cleared(state), Wipe(f, o, s)
    PROVE  /\ StoreMove(f)
           /\ \/ state' = state /\ o = "unchanged"
              \/ /\ state' = s /\ state'.auth = None /\ state'.pending = None
                 /\ Kind = "memory" /\ state.gen < MaxUint64 => state'.gen = state.gen + 1
<1> USE KindAssumption
<1>0. TypeOK /\ state.gen \in Generations
  BY DEF AuthInv, TypeOK
<1>1. /\ s \in State /\ s.auth = None /\ s.pending = None
      /\ Kind = "memory" => s.gen = nextGeneration(state.gen)
  BY <1>0, ClearedState
<1>2. Kind = "memory" /\ state.gen < MaxUint64 => s.gen = state.gen + 1 /\ s.gen # state.gen
  BY <1>0, <1>1, NextGeneration DEF Generations
<1> QED BY <1>0, <1>1, <1>2, WipeEffect

\* Logout clears storage, or leaves a revoked token stranded there.
LEMMA LogoutClearMoves ==
    ASSUME AuthInv, NEW f \in Flows, NEW o, LogoutClear(f, o)
    PROVE  \E r : FlowMove(f, r)
<1>0. /\ TypeOK /\ op[f].pc = "clear" /\ op[f].tok \in Tokens /\ Moves(f, Idle)
      /\ Idle.pc = "idle" /\ SameSession(state.auth, state.auth)
  BY DoneMoves DEF AuthInv, LogoutClear, FlowsShaped, FlowShape, Removing, SameSession
<1>1. FlowShape(Idle, issued, closed, expired)
  BY <1>0, PlainShape
<1>2. /\ Wipe(f, o, Cleared(state)) /\ UNCHANGED <<expired, serverVars, turns>>
      /\ stranded' = IF o = "unchanged" THEN stranded \cup {op[f].tok} ELSE stranded
  BY DEF LogoutClear
<1>3. /\ StoreMove(f)
      /\ \/ state' = state /\ o = "unchanged"
         \/ /\ state' = Cleared(state) /\ state'.auth = None /\ state'.pending = None
            /\ Kind = "memory" /\ state.gen < MaxUint64 => state'.gen = state.gen + 1
  BY <1>2, WipeMoves
<1>4. /\ stranded' \in SUBSET Tokens /\ stranded \in SUBSET stranded'
      /\ turns' \in 0 .. MaxTurns
  BY <1>0, <1>2 DEF TypeOK
<1>5. /\ state'.pending \in {state.pending, None}
      /\ state.pending # None /\ state'.pending = None =>
            state' \in {Cleared(state), Deleted(state)}
      /\ state'.auth = None \/ SameSession(state.auth, state'.auth)
      /\ state'.auth = None \/ op[f].tok \in stranded'
      /\ Kind = "memory" /\ state.gen < MaxUint64 =>
            \/ state'.gen = state.gen + 1
            \/ state'.gen = state.gen /\ SameSession(state.auth, state'.auth)
  BY <1>0, <1>2, <1>3
<1> HIDE DEF Idle
<1> QED BY <1>0, <1>1, <1>2, <1>3, <1>4, <1>5, StoringMove DEF Moves, Removing

\* What the environment does, other than to kill a process.
LEMMA WorldMoves ==
    ASSUME AuthInv,
           \/ \E o \in Outcomes : Clear(o) \/ Delete(o)
           \/ \E t \in Tokens : RefreshCommit(t)
           \/ \E f \in Flows : Cancel(f)
           \/ \E d \in Codes : CodeExpires(d)
           \/ UNCHANGED vars
    PROVE  WorldMove
<1> USE NoneAssumption
<1>0. TypeOK /\ state \in State /\ SameSession(state.auth, state.auth)
  BY DEF AuthInv, TypeOK, State, SameSession
<1>1. ASSUME UNCHANGED <<state, op, serverVars, turns, overtaken, dropped, stranded>>,
             canceled' \in SUBSET Flows, expired' \in SUBSET Codes, expired \in SUBSET expired'
      PROVE  WorldMove
  <2>1. TypeOK'
    BY <1>0, <1>1 DEF TypeOK, serverVars
  <2>2. Grows /\ PendingMove /\ SessionMove(None)
    BY <1>0, <1>1 DEF Grows, PendingMove, SessionMove, serverVars
  <2> QED BY <2>1, <2>2, <1>0, <1>1 DEF WorldMove, serverVars
<1>2. ASSUME NEW o \in Outcomes, Clear(o) \/ Delete(o) PROVE WorldMove
  <2>1. PICK s \in {Cleared(state), Deleted(state)} :
            (s = Deleted(state) => Kind = "file" \/ s = Cleared(state)) /\ Wipe(None, o, s)
    BY <1>2 DEF Clear, Delete
  <2>2. /\ StoreMove(None)
        /\ \/ state' = state /\ o = "unchanged"
           \/ /\ state' = s /\ state'.auth = None /\ state'.pending = None
              /\ Kind = "memory" /\ state.gen < MaxUint64 => state'.gen = state.gen + 1
    BY <2>1, WipeMoves
  <2>3. /\ UNCHANGED <<op, canceled, expired, serverVars, stranded>> /\ turns' \in 0 .. MaxTurns
    BY <1>0, <1>2, MaxTurnsAssumption DEF Clear, Delete, TypeOK
  <2>4. TypeOK'
    BY <1>0, <2>2, <2>3 DEF TypeOK, StoreMove, State, serverVars
  <2>5. Grows /\ PendingMove
    BY <2>1, <2>2, <2>3 DEF Grows, PendingMove, StoreMove, serverVars
  <2>6. Kind = "memory" /\ state.gen < MaxUint64 =>
          /\ state'.gen \in {state.gen, state.gen + 1}
          /\ state'.gen = state.gen => SameSession(state.auth, state'.auth)
    BY <1>0, <2>2 DEF State, Generations
  <2>7. SessionMove(None)
    BY <2>2, <2>6 DEF SessionMove, StoreMove
  <2> QED BY <1>0, <2>2, <2>3, <2>4, <2>5, <2>7 DEF WorldMove, serverVars
<1>3. ASSUME NEW t \in Tokens, RefreshCommit(t) PROVE WorldMove
  <2> DEFINE s == [state EXCEPT !.auth = Decoded(t)]
  <2>1. Decoded(t) \in AuthTokens /\ Decoded(t).id = t
    BY DEF Decoded, AuthTokens
  <2>2. /\ s \in State /\ s.auth # None /\ s.auth.id = t /\ s.pending = state.pending
        /\ s.gen = state.gen
    BY <1>0, <2>1 DEF State
  <2>3. /\ Transact(None, "ok", s) /\ t \notin issued /\ issued' = issued \cup {t}
        /\ UNCHANGED <<op, canceled, expired, closed, revoked, turns, stranded>>
    BY <1>3 DEF RefreshCommit
  <2> HIDE DEF s
  <2>4. /\ state'.pending = s.pending /\ state'.gen = s.gen /\ SameSession(s.auth, state'.auth)
        /\ StoreMove(None)
    BY <1>0, <2>2, <2>3, TransactEffect
  <2>5. /\ state'.pending = state.pending /\ state'.gen = state.gen
        /\ state'.auth # None /\ state'.auth.id = t
    BY <2>2, <2>4 DEF SameSession
  <2>6. TypeOK'
    BY <1>0, <2>3, <2>4 DEF TypeOK, StoreMove, State
  <2>7. Grows /\ PendingMove
    BY <2>3, <2>4, <2>5 DEF Grows, PendingMove, StoreMove
  <2>8. SessionMove(None)
    BY <2>3, <2>4, <2>5 DEF SessionMove, StoreMove
  <2> QED BY <2>3, <2>5, <2>6, <2>7, <2>8 DEF WorldMove
<1>4. ASSUME NEW f \in Flows, Cancel(f) PROVE WorldMove
  BY <1>0, <1>1, <1>4 DEF Cancel, TypeOK
<1>5. ASSUME NEW d \in Codes, CodeExpires(d) PROVE WorldMove
  BY <1>0, <1>1, <1>5 DEF CodeExpires, TypeOK
<1>6. CASE UNCHANGED vars
  BY <1>0, <1>1, <1>6 DEF vars, TypeOK
<1> QED BY <1>2, <1>3, <1>4, <1>5, <1>6

\* Every step is a move of a flow or of the environment.
LEMMA StepMoves ==
    ASSUME AuthInv, [Next]_vars
    PROVE  (\E f \in Flows : \E r : FlowMove(f, r)) \/ WorldMove
<1>1. ASSUME NEW f \in Flows, Start(f) \/ InitiateStep(f)
      PROVE  \E r : FlowMove(f, r)
  BY <1>1, ReserveMoves, ResumeMoves, StartPollMoves, RevokingMoves, CodeIssuedMoves, EndsMove,
     PersistMoves DEF Start, InitiateStep
<1>2. ASSUME NEW f \in Flows, PollStep(f) \/ LogoutStep(f)
      PROVE  \E r : FlowMove(f, r)
  BY <1>2, PollingMoves, PollGrantedMoves, CommitLoginMoves, EndedMoves, RevokingMoves,
     LogoutClearMoves DEF PollStep, LogoutStep
<1>3. CASE Environment
  BY <1>3, EndsMove, WorldMoves DEF Environment
<1>4. CASE UNCHANGED vars
  BY <1>4, WorldMoves
<1> QED BY <1>1, <1>2, <1>3, <1>4 DEF Next

-----------------------------------------------------------------------------
(* The theorems *)

\* Nothing is issued, pending or under way in the beginning, but for the session
\* a credential file may start with.
LEMMA InitInv == Init => AuthInv
<1> USE NoneAssumption, MaxUint64Assumption, MaxTurnsAssumption
<1> SUFFICES ASSUME Init PROVE AuthInv
  OBVIOUS
<1>1. newStorageState \in State /\ newStorageState.auth = None /\ newStorageState.pending = None
  BY DEF newStorageState, State, Generations
<1>2. /\ state \in State /\ state.pending = None /\ issued \in SUBSET Tokens
      /\ state.auth # None => state.auth.id \in issued
  <2>1. CASE state = newStorageState /\ issued = {}
    BY <1>1, <2>1
  <2>2. ASSUME NEW t \in Tokens, NEW d \in BOOLEAN, issued = {t},
               state = [newStorageState EXCEPT !.auth = [id |-> t, dated |-> d]]
        PROVE  /\ state \in State /\ state.pending = None /\ issued \in SUBSET Tokens
               /\ state.auth # None => state.auth.id \in issued
    <3> DEFINE a == [id |-> t, dated |-> d]
    <3>1. a \in AuthTokens /\ a.id = t
      BY DEF AuthTokens
    <3>2. state = [newStorageState EXCEPT !.auth = a]
      BY <2>2
    <3> HIDE DEF a
    <3> QED BY <1>1, <2>2, <3>1, <3>2 DEF State
  <2> QED BY <2>1, <2>2 DEF Init
<1>3. \A f \in Flows : op[f] = Idle /\ op[f] \in Op /\ op[f].pc = "idle"
  BY IdleOp DEF Init
<1>4. TypeOK
  BY <1>2, <1>3 DEF TypeOK, State, Init
<1>5. FlowsShaped
  BY <1>3, PlainShape DEF FlowsShaped
<1>6. Issued
  BY <1>2 DEF Issued, Init
<1>7. CodeFresh /\ TokenFresh
  BY <1>3 DEF CodeFresh, TokenFresh
<1>8. RevokedOnItsWayOut
  BY DEF RevokedOnItsWayOut, Init
<1> QED BY <1>4, <1>5, <1>6, <1>7, <1>8 DEF AuthInv

\* Every step keeps the invariant.
LEMMA NextKeeps == AuthInv /\ [Next]_vars => AuthInv'
BY StepMoves, FlowMoveKeeps, WorldMoveKeeps

\* The inductive invariant holds of every behaviour.
THEOREM AuthInvariant == Spec => []AuthInv
BY InitInv, NextKeeps, PTL DEF Spec

\* Every variable keeps its type, whatever the server, the storage and the
\* other flows answer.
THEOREM TypeCorrect == Spec => []TypeOK
<1>1. AuthInv => TypeOK
  BY DEF AuthInv
<1> QED BY <1>1, AuthInvariant, PTL

\* A token a Logout has seen revoked leaves storage with that Logout, unless the
\* answer, the write or the process was lost.
THEOREM RevokedOnItsWayOutHolds == Spec => []RevokedOnItsWayOut
<1>1. AuthInv => RevokedOnItsWayOut
  BY DEF AuthInv
<1> QED BY <1>1, AuthInvariant, PTL

\* However late the tokens of a code arrive, they log nobody in once the code has
\* been replaced, ended or cleared: CommitLogin compares the pending code, and no
\* code becomes pending twice.
THEOREM NoStaleLoginHolds == Spec => NoStaleLogin
<1> USE NoneAssumption
<1>1. ASSUME AuthInv, [Next]_vars, NEW f \in Flows, op[f].pc = "commit",
             state'.auth # None, state'.auth.id = op[f].tok
      PROVE  op[f].code \notin dropped
  <2>1. /\ op[f].code \in Codes /\ op[f].tok \in issued
        /\ state.auth # None => state.auth.id # op[f].tok
    BY <1>1 DEF AuthInv, FlowsShaped, FlowShape, WithCode, TokenFresh
  <2>2. ~SameSession(state.auth, state'.auth)
    BY <1>1, <2>1 DEF SameSession
  <2>3. CASE WorldMove
    BY <1>1, <2>1, <2>2, <2>3 DEF WorldMove
  <2>4. ASSUME NEW g \in Flows, NEW r, FlowMove(g, r) PROVE op[f].code \notin dropped
    <3>1. op[g].pc = "commit" /\ state'.auth.id = op[g].tok /\ state.pending = op[g].code
      BY <1>1, <2>2, <2>4 DEF FlowMove
    <3>2. g = f
      BY <1>1, <3>1 DEF AuthInv, TokenFresh
    <3> QED BY <1>1, <2>1, <3>1, <3>2 DEF AuthInv, Issued
  <2> QED BY <1>1, <2>3, <2>4, StepMoves
<1>2. AuthInv /\ [Next]_vars =>
          [\A f \in Flows :
              op[f].pc = "commit" /\ state'.auth # None /\ state'.auth.id = op[f].tok
                  => op[f].code \notin dropped]_vars
  BY <1>1
<1> QED BY <1>2, AuthInvariant, PTL DEF Spec, NoStaleLogin

\* A resumable flow leaves storage only because it has expired, because the server
\* has ended it, because storage is wiped, or because an initiation replaces it
\* whose reservation is current, by a code that was never pending before.
THEOREM PendingLostForCauseHolds == Spec => PendingLostForCause
<1>1. ASSUME AuthInv, [Next]_vars, state.pending # None, state'.pending # state.pending
      PROVE  \/ state'.pending = None /\ state.pending \in expired \cup closed
             \/ state' \in {Cleared(state), Deleted(state)}
             \/ \E f \in Flows : /\ op[f].pc = "persist" /\ state'.pending = op[f].code
                                 /\ ReservationCurrent(f) /\ op[f].code \notin dropped
  <2>1. CASE WorldMove
    BY <1>1, <2>1 DEF WorldMove, PendingMove
  <2>2. ASSUME NEW f \in Flows, NEW r, FlowMove(f, r), state'.pending # None
        PROVE  /\ op[f].pc = "persist" /\ state'.pending = op[f].code
               /\ ReservationCurrent(f) /\ op[f].code \notin dropped
    BY <1>1, <2>2 DEF FlowMove, AuthInv, CodeFresh
  <2>3. ASSUME NEW f \in Flows, NEW r, FlowMove(f, r), state'.pending = None
        PROVE  \/ state.pending \in expired \cup closed
               \/ state' \in {Cleared(state), Deleted(state)}
    BY <1>1, <2>3 DEF FlowMove, PendingMove
  <2> QED BY <1>1, <2>1, <2>2, <2>3, StepMoves
<1>2. AuthInv /\ [Next]_vars =>
          [state.pending # None /\ state'.pending # state.pending =>
              \/ state'.pending = None /\ state.pending \in expired \cup closed
              \/ state' \in {Cleared(state), Deleted(state)}
              \/ \E f \in Flows : /\ op[f].pc = "persist" /\ state'.pending = op[f].code
                                  /\ ReservationCurrent(f) /\ op[f].code \notin dropped]_vars
  BY <1>1
<1> QED BY <1>2, AuthInvariant, PTL DEF Spec, PendingLostForCause

\* A flow inside an initiation comes to its end by an error only, and that end
\* leaves the pending authorization alone, if storage has no errors after the
\* change.
LEMMA InitiationEnds ==
    ASSUME TypeOK, Kind = "memory", [Next]_vars, NEW f \in Flows,
           op[f].pc \in {"code", "persist"}, op'[f].pc = "idle"
    PROVE  state'.pending = state.pending
<1>0. op \in [Flows -> Op] /\ Idle.pc = "idle"
  BY DEF TypeOK, Idle
<1>1. CASE CodeFails(f) \/ PersistSuperseded(f) \/ Restart(f)
  BY <1>1 DEF CodeFails, PersistSuperseded, Restart
<1>2. ASSUME NEW o \in Outcomes, Persist(f, o) PROVE state'.pending = state.pending
  <2>1. o = "ok" => Goto(f, "initiated")
    BY <1>2 DEF Persist
  <2>2. Goto(f, "initiated") => op'[f].pc = "initiated"
    BY <1>0 DEF Goto, Op
  <2>3. o = "unchanged"
    BY <2>1, <2>2, <1>2 DEF Outcomes
  <2> QED BY <1>2, <2>3 DEF Persist, Transact
<1>3. ASSUME NEW g \in Flows, op' = [op EXCEPT ![g] = op'[g]],
             g = f => op[f].pc \notin {"code", "persist"} \/ op'[f].pc # "idle"
      PROVE  FALSE
  BY <1>0, <1>3
<1>4. CASE op' = op
  BY <1>4
<1>5. ASSUME NEW g \in Flows, NEW o \in Outcomes, Reserve(g, o) \/ Resume(g, o) PROVE FALSE
  BY <1>0, <1>5, <1>3 DEF Reserve, Resume, Done
<1>6. ASSUME NEW g \in Flows, LogoutLoad(g) \/ \E loop \in BOOLEAN : StartPoll(g, loop) PROVE FALSE
  BY <1>0, <1>6, <1>3 DEF LogoutLoad, StartPoll
<1>7. ASSUME NEW g \in Flows, NEW d \in Codes, CodeIssued(g, d) PROVE FALSE
  <2>1. op' = [op EXCEPT ![g] = op'[g]] /\ op'[g].pc = "persist"
    BY <1>0, <1>7 DEF CodeIssued, Op
  <2> QED BY <2>1, <1>3
<1>8. ASSUME NEW g \in Flows \ {f}, CodeFails(g) \/ PersistSuperseded(g) \/ Restart(g)
                                    \/ \E o \in Outcomes : Persist(g, o)
      PROVE  FALSE
  BY <1>0, <1>8 DEF CodeFails, PersistSuperseded, Restart, Persist, Done, Goto
<1>9. ASSUME NEW g \in Flows, PollStep(g) PROVE FALSE
  <2>1. op[g].pc \in {"wait", "poll", "commit", "terminal", "expire"}
    BY <1>9 DEF PollStep, Wait, PollPending, PollTerminal, CommitSuperseded, PollGranted, PollFails,
                CommitLogin, Terminal, Expire
  <2>2. op' = [op EXCEPT ![g] = op'[g]]
    BY <1>0, <1>9 DEF PollStep, Wait, PollPending, PollTerminal, CommitSuperseded, PollGranted,
                PollFails, CommitLogin, Terminal, Expire, AfterError, Done, Goto
  <2> QED BY <2>1, <2>2, <1>3
<1>10. ASSUME NEW g \in Flows, LogoutStep(g) PROVE FALSE
  <2>1. op[g].pc \in {"revoke", "clear"}
    BY <1>10 DEF LogoutStep, RevokeSucceeds, RevokeFails, LogoutClear
  <2>2. op' = [op EXCEPT ![g] = op'[g]]
    BY <1>0, <1>10 DEF LogoutStep, RevokeSucceeds, RevokeFails, LogoutClear, Done, Goto
  <2> QED BY <2>1, <2>2, <1>3
<1>11. ASSUME NEW g \in Flows, Start(g) PROVE FALSE
  BY <1>5, <1>6, <1>11 DEF Start
<1>12. ASSUME NEW g \in Flows, InitiateStep(g) PROVE state'.pending = state.pending
  BY <1>1, <1>2, <1>7, <1>8, <1>12 DEF InitiateStep
<1>13. CASE Environment
  <2>1. CASE \E g \in Flows : Restart(g)
    BY <2>1, <1>1, <1>8
  <2>2. CASE ~\E g \in Flows : Restart(g)
    BY <1>4, <1>13, <2>2 DEF Environment, Clear, Delete, RefreshCommit, Cancel, CodeExpires
  <2> QED BY <2>1, <2>2
<1>14. CASE UNCHANGED vars
  BY <1>14 DEF vars
<1> QED BY <1>9, <1>10, <1>11, <1>12, <1>13, <1>14 DEF Next

\* On a MemoryStorage an initiation that returns an error, wherever it fails,
\* preserves the previous resumable flow.
THEOREM FailedInitiationKeepsPendingHolds ==
    ASSUME Kind = "memory"
    PROVE  Spec => FailedInitiationKeepsPending
<1>1. TypeOK /\ [Next]_vars =>
          [\A f \in Flows :
              op[f].pc \in {"code", "persist"} /\ op'[f].pc = "idle" /\ state.pending # None
                  => state'.pending = state.pending]_vars
  BY InitiationEnds
<1> QED BY <1>1, TypeCorrect, PTL DEF Spec, FailedInitiationKeepsPending

-----------------------------------------------------------------------------
(***************************************************************************)
(* What a reservation is worth.  An initiation that nobody has overtaken   *)
(* still finds the generation and the session it reserved with: this is    *)
(* the invariant behind "told it was superseded only if it was".  It needs *)
(* credentials that no normalisation changes, which only a file written    *)
(* without expires_at violates.                                            *)
(***************************************************************************)
Dated ==
    /\ state.auth # None => state.auth.dated
    /\ \A f \in Reserved : op[f].prev # None => op[f].prev.dated

StillReserved ==
    \A f \in Reserved : f \notin overtaken =>
        state.gen = op[f].gen /\ SameSession(op[f].prev, state.auth)

ReservationInv == AuthInv /\ Dated /\ StillReserved

\* How a step changes the reservations: one flow may begin one or carry it on,
\* and the others keep theirs.
LEMMA ReservationsMove ==
    ASSUME AuthInv, [Next]_vars
    PROVE  \E f \in Flows \cup {None} :
              /\ SessionMove(f)
              /\ \A g \in Reserved' \ {f} : g \in Reserved /\ op'[g] = op[g]
              /\ f \in Reserved' =>
                    \/ /\ op'[f].gen = state'.gen /\ op'[f].prev = state.auth
                       /\ f \notin overtaken' /\ SameSession(state.auth, state'.auth)
                    \/ /\ f \in Reserved /\ op'[f].gen = op[f].gen /\ op'[f].prev = op[f].prev
                       /\ overtaken' = overtaken /\ state' = state
<1> USE NoneAssumption
<1>0. TypeOK
  BY DEF AuthInv
<1>1. CASE WorldMove
  BY <1>1 DEF WorldMove, Reserved
<1>2. ASSUME NEW f \in Flows, NEW r, FlowMove(f, r)
      PROVE  /\ SessionMove(f)
             /\ \A g \in Reserved' \ {f} : g \in Reserved /\ op'[g] = op[g]
             /\ f \in Reserved' =>
                   \/ /\ op'[f].gen = state'.gen /\ op'[f].prev = state.auth
                      /\ f \notin overtaken' /\ SameSession(state.auth, state'.auth)
                   \/ /\ f \in Reserved /\ op'[f].gen = op[f].gen /\ op'[f].prev = op[f].prev
                      /\ overtaken' = overtaken /\ state' = state
  <2>1. op'[f] = r /\ \A g \in Flows \ {f} : op'[g] = op[g]
    BY <1>0, <1>2 DEF FlowMove, TypeOK
  <2>2. f \in Reserved' => r.pc \in {"code", "persist"}
    BY <2>1 DEF Reserved
  <2>3. \A g \in Reserved' \ {f} : g \in Reserved /\ op'[g] = op[g]
    BY <2>1 DEF Reserved
  <2> QED BY <1>2, <2>1, <2>2, <2>3 DEF FlowMove, Reserved
<1> QED BY <1>1, <1>2, StepMoves

\* An initiation is told it was superseded only if somebody else did change the
\* session or start another flow, on a MemoryStorage and on a file whose
\* credentials carry their expiry.
THEOREM SupersededByOthersHolds ==
    ASSUME ~LegacyFile
    PROVE  Spec => []SupersededByOthers
<1> USE NoneAssumption
<1>1. Init => ReservationInv
  <2> SUFFICES ASSUME Init PROVE Dated /\ StillReserved
    BY InitInv DEF ReservationInv
  <2>1. Reserved = {}
    BY IdleOp DEF Init, Reserved
  <2>2. state.auth # None => state.auth.dated
    <3>1. CASE state = newStorageState
      BY <3>1 DEF newStorageState
    <3>2. ASSUME NEW t \in Tokens, state = [newStorageState EXCEPT !.auth = [id |-> t, dated |-> TRUE]]
          PROVE  state.auth.dated
      BY <3>2 DEF newStorageState
    <3> QED BY <3>1, <3>2 DEF Init
  <2> QED BY <2>1, <2>2 DEF Dated, StillReserved
<1>2. ASSUME ReservationInv, [Next]_vars PROVE ReservationInv'
  <2>1. AuthInv' /\ TypeOK /\ TypeOK'
    BY <1>2, NextKeeps DEF ReservationInv, AuthInv
  <2>2. PICK f \in Flows \cup {None} :
              /\ SessionMove(f)
              /\ \A g \in Reserved' \ {f} : g \in Reserved /\ op'[g] = op[g]
              /\ f \in Reserved' =>
                    \/ /\ op'[f].gen = state'.gen /\ op'[f].prev = state.auth
                       /\ f \notin overtaken' /\ SameSession(state.auth, state'.auth)
                    \/ /\ f \in Reserved /\ op'[f].gen = op[f].gen /\ op'[f].prev = op[f].prev
                       /\ overtaken' = overtaken /\ state' = state
    BY <1>2, ReservationsMove DEF ReservationInv
  <2>3. Dated'
    <3>1. state'.auth # None => state'.auth.dated
      BY <1>2, <2>2 DEF ReservationInv, Dated, SessionMove
    <3>2. \A g \in Reserved' : op'[g].prev # None => op'[g].prev.dated
      BY <1>2, <2>2 DEF ReservationInv, Dated
    <3> QED BY <3>1, <3>2 DEF Dated
  <2>4. StillReserved'
    <3> SUFFICES ASSUME NEW g \in Reserved', g \notin overtaken'
                 PROVE  state'.gen = op'[g].gen /\ SameSession(op'[g].prev, state'.auth)
      BY DEF StillReserved
    <3>1. CASE g = f
      BY <1>2, <2>2, <3>1 DEF ReservationInv, StillReserved
    <3>2. CASE g # f
      <4>1. /\ g \in Reserved /\ op'[g] = op[g] /\ g \notin overtaken
            /\ state'.gen = state.gen /\ SameSession(state.auth, state'.auth)
        BY <2>2, <3>2 DEF SessionMove
      <4>2. state.gen = op[g].gen /\ SameSession(op[g].prev, state.auth)
        BY <1>2, <4>1 DEF ReservationInv, StillReserved
      <4> QED BY <4>1, <4>2 DEF SameSession
    <3> QED BY <3>1, <3>2
  <2> QED BY <2>1, <2>3, <2>4 DEF ReservationInv
<1>3. ReservationInv => SupersededByOthers
  <2> SUFFICES ASSUME ReservationInv, NEW f \in Flows, op[f].pc = "persist", f \notin overtaken
               PROVE  ReservationCurrent(f)
    BY DEF SupersededByOthers
  <2>1. f \in Reserved
    BY DEF Reserved
  <2>2. /\ state.gen = op[f].gen /\ SameSession(op[f].prev, state.auth)
        /\ op[f].prev \in AuthTokens \cup {None} /\ state.auth \in AuthTokens \cup {None}
        /\ state.auth # None => state.auth.dated
        /\ op[f].prev # None => op[f].prev.dated
    BY <2>1 DEF ReservationInv, AuthInv, TypeOK, Op, Dated, StillReserved
  <2>3. state.auth = op[f].prev
    <3>1. ASSUME NEW a \in AuthTokens, NEW b \in AuthTokens, a.id = b.id, a.dated, b.dated
          PROVE  a = b
      BY <3>1 DEF AuthTokens
    <3> QED BY <2>2, <3>1 DEF SameSession
  <2> QED BY <2>2, <2>3 DEF ReservationCurrent, sameAuthTokens
<1> QED BY <1>1, <1>2, <1>3, PTL DEF Spec

(***************************************************************************)
(* The converse: a reservation that somebody has overtaken is recognised,  *)
(* by its generation or, after a refresh, by a token nobody had seen when  *)
(* it was made.  It needs a generation that only grows, as a MemoryStorage *)
(* keeps it short of the wrap-around; the Clear and Delete of FileStorage  *)
(* start it over, and a reservation from before a wipe can meet its number *)
(* again.                                                                  *)
(***************************************************************************)
NoWrap == state.gen < MaxUint64

OvertakenShows ==
    \A f \in Reserved :
        /\ op[f].gen <= state.gen
        /\ f \in overtaken /\ op[f].gen = state.gen =>
              /\ state.auth # None
              /\ op[f].prev # None => state.auth.id # op[f].prev.id

\* An initiation becomes the pending authorization only if nobody has changed the
\* session or started another flow since its reservation, on a MemoryStorage whose
\* generation has not wrapped around.
THEOREM PendingFromNewestHolds ==
    ASSUME Kind = "memory"
    PROVE  Spec /\ []NoWrap => PendingFromNewest
<1> USE NoneAssumption
<1>1. Init => OvertakenShows
  <2> SUFFICES ASSUME Init PROVE OvertakenShows
    OBVIOUS
  <2>1. Reserved = {}
    BY IdleOp DEF Init, Reserved
  <2> QED BY <2>1 DEF OvertakenShows
<1>2. ASSUME AuthInv, NoWrap, OvertakenShows, [Next]_vars PROVE OvertakenShows'
  <2>1. PICK f \in Flows \cup {None} :
              /\ SessionMove(f)
              /\ \A g \in Reserved' \ {f} : g \in Reserved /\ op'[g] = op[g]
              /\ f \in Reserved' =>
                    \/ /\ op'[f].gen = state'.gen /\ op'[f].prev = state.auth
                       /\ f \notin overtaken' /\ SameSession(state.auth, state'.auth)
                    \/ /\ f \in Reserved /\ op'[f].gen = op[f].gen /\ op'[f].prev = op[f].prev
                       /\ overtaken' = overtaken /\ state' = state
    BY <1>2, ReservationsMove
  <2>2. TypeOK /\ TypeOK'
    BY <1>2, NextKeeps DEF AuthInv
  <2>3. /\ state.gen \in Nat /\ state'.gen \in Nat
        /\ \A g \in Flows : op[g].gen \in Nat /\ op'[g].gen \in Nat
    BY <2>2, MaxUint64Assumption DEF TypeOK, Op, Generations
  <2> SUFFICES ASSUME NEW g \in Reserved'
               PROVE  /\ op'[g].gen <= state'.gen
                      /\ g \in overtaken' /\ op'[g].gen = state'.gen =>
                            /\ state'.auth # None
                            /\ op'[g].prev # None => state'.auth.id # op'[g].prev.id
    BY DEF OvertakenShows
  <2>4. g \in Flows
    BY DEF Reserved
  <2>5. CASE g = f
    BY <1>2, <2>1, <2>3, <2>4, <2>5 DEF OvertakenShows
  <2>6. CASE g # f
    <3>1. /\ g \in Reserved /\ op'[g] = op[g] /\ op[g].gen <= state.gen
          /\ g \in overtaken /\ op[g].gen = state.gen =>
                /\ state.auth # None
                /\ op[g].prev # None => state.auth.id # op[g].prev.id
      BY <1>2, <2>1, <2>6 DEF OvertakenShows
    <3>2. op[g].prev # None => op[g].prev.id \in issued
      BY <1>2, <3>1 DEF AuthInv, FlowsShaped, FlowShape, Reserved
    <3>3. /\ state'.gen \in {state.gen, state.gen + 1}
          /\ state'.gen = state.gen /\ ~SameSession(state.auth, state'.auth) =>
                state'.auth # None /\ state'.auth.id \notin issued
          /\ g \in overtaken' \ overtaken =>
                state'.gen # state.gen \/ ~SameSession(state.auth, state'.auth)
      BY <1>2, <2>1, <2>6, <3>1 DEF NoWrap, SessionMove
    <3>4. CASE state'.gen = state.gen + 1
      BY <2>3, <2>4, <3>1, <3>4
    <3>5. CASE state'.gen = state.gen /\ ~SameSession(state.auth, state'.auth)
      BY <3>1, <3>2, <3>3, <3>5
    <3>6. CASE state'.gen = state.gen /\ SameSession(state.auth, state'.auth)
      BY <3>1, <3>3, <3>6 DEF SameSession
    <3> QED BY <3>3, <3>4, <3>5, <3>6
  <2> QED BY <2>5, <2>6
<1>3. ASSUME AuthInv, OvertakenShows, [Next]_vars, NEW f \in Flows, op[f].pc = "persist",
             state'.pending = op[f].code, state.pending # op[f].code
      PROVE  f \notin overtaken
  <2>1. op[f].code \in Codes /\ f \in Reserved
    BY <1>3 DEF AuthInv, FlowsShaped, FlowShape, WithCode, Reserved
  <2>2. CASE WorldMove
    BY <1>3, <2>1, <2>2 DEF WorldMove
  <2>3. ASSUME NEW g \in Flows, NEW r, FlowMove(g, r) PROVE f \notin overtaken
    <3>1. op[g].pc = "persist" /\ op[g].code = op[f].code /\ ReservationCurrent(g)
      BY <1>3, <2>1, <2>3 DEF FlowMove
    <3>2. g = f
      BY <1>3, <3>1 DEF AuthInv, CodeFresh
    <3> QED BY <1>3, <2>1, <3>1, <3>2 DEF OvertakenShows, ReservationCurrent, sameAuthTokens
  <2> QED BY <1>3, <2>2, <2>3, StepMoves
<1>4. AuthInv /\ OvertakenShows /\ [Next]_vars =>
          [\A f \in Flows :
              op[f].pc = "persist" /\ state'.pending = op[f].code /\ state.pending # op[f].code
                  => f \notin overtaken]_vars
  BY <1>3
<1> QED BY <1>1, <1>2, <1>4, AuthInvariant, PTL DEF Spec, PendingFromNewest
=============================================================================

----------------------------- MODULE AtomicStore -----------------------------
(***************************************************************************)
(* What a credential store promises (the AuthStorage interface and the     *)
(* comment on FileStorage): every operation takes effect at one instant or *)
(* not at all, Load sees what was in the store at that instant, and a      *)
(* change survives a power loss once the operation that made it has        *)
(* succeeded.                                                              *)
(***************************************************************************)
CONSTANTS
    Workers,    \* goroutines that use the store
    Missing     \* nothing is stored

VARIABLES
    store,      \* what is stored: the workers whose Transact is part of it
    survivors,  \* what a power loss can leave
    call        \* each worker's call

vars == <<store, survivors, call>>

Values == {Missing} \cup SUBSET Workers
Kinds == {"load", "transact", "clear", "delete"}
NoCall == [kind |-> "load", phase |-> "idle", seen |-> Missing]

Content(v) == IF v = Missing THEN {} ELSE v

\* What an operation makes of v.
Effect(kind, w, v) ==
    CASE kind = "transact" -> Content(v) \cup {w}
      [] kind = "clear"    -> IF v = Missing THEN Missing ELSE {}
      [] kind = "delete"   -> Missing
      [] kind = "load"     -> v

Init ==
    /\ store \in Values
    /\ survivors = {store}
    /\ call = [w \in Workers |-> NoCall]

Call(w, kind) ==
    /\ call[w].phase = "idle"
    /\ call' = [call EXCEPT ![w] = [NoCall EXCEPT !.kind = kind, !.phase = "called"]]
    /\ UNCHANGED <<store, survivors>>

\* The change is there for everyone to see; a power loss may still undo it.
Apply(w) ==
    /\ call[w].phase = "called"
    /\ call[w].kind # "load"
    /\ store' = Effect(call[w].kind, w, store)
    /\ survivors' = survivors \cup {store'}
    /\ call' = [call EXCEPT ![w].phase = "applied"]

\* The change is permanent, and only then the operation succeeds.
Settle(w) ==
    /\ call[w].phase = "applied"
    /\ survivors' = {store}
    /\ call' = [call EXCEPT ![w].phase = "succeeded"]
    /\ UNCHANGED store

\* The change is there, but its permanence is in doubt: an error.
Doubt(w) ==
    /\ call[w].phase = "applied"
    /\ call' = [call EXCEPT ![w].phase = "failed"]
    /\ UNCHANGED <<store, survivors>>

\* There is nothing to change.  What is there may be another operation's change
\* whose permanence is still in doubt: this success does not vouch for it.
Answer(w) ==
    /\ call[w].phase = "called"
    /\ Effect(call[w].kind, w, store) = store
    /\ call' = [call EXCEPT ![w].phase = "succeeded",
                            ![w].seen = IF call[w].kind = "load" THEN store ELSE Missing]
    /\ UNCHANGED <<store, survivors>>

\* Any error before the change: nothing has changed and nothing will.
Fail(w) ==
    /\ call[w].phase = "called"
    /\ call' = [call EXCEPT ![w].phase = "failed"]
    /\ UNCHANGED <<store, survivors>>

Return(w) ==
    /\ call[w].phase \in {"succeeded", "failed"}
    /\ call' = [call EXCEPT ![w] = NoCall]
    /\ UNCHANGED <<store, survivors>>

\* Processes die; their calls are never heard of again.
Crash(W) ==
    /\ call' = [w \in Workers |-> IF w \in W THEN NoCall ELSE call[w]]
    /\ UNCHANGED <<store, survivors>>

PowerLoss ==
    /\ store' \in survivors
    /\ survivors' = {store'}
    /\ call' = [w \in Workers |-> NoCall]

Next ==
    \/ \E w \in Workers :
          \/ \E kind \in Kinds : Call(w, kind)
          \/ Apply(w) \/ Settle(w) \/ Doubt(w) \/ Answer(w) \/ Fail(w) \/ Return(w)
    \/ \E W \in SUBSET Workers : Crash(W)
    \/ PowerLoss

Spec == Init /\ [][Next]_vars
=============================================================================

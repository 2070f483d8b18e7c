-------------------------- MODULE FileStorageProofs --------------------------
(***************************************************************************)
(* Theorems about FileStorage, for any number of processes, goroutines and *)
(* operations: the lock file excludes, no torn file is ever read, no       *)
(* temporary credential file is left by an operation that ends, and the    *)
(* multi-step write under the lock implements the atomic store.            *)
(***************************************************************************)
EXTENDS FileStorage, TLAPS

(***************************************************************************)
(* The inductive invariant.  An operation between flock and Close owns the *)
(* lock, so what it has read of the file is still true when it renames.    *)
(***************************************************************************)

\* The operation has a temporary file, which the rename or the cleanup will take.
WithTemp == {"write", "sync", "close", "rename", "cleanup"}

\* What the operation o of worker w has done so far, as its pc tells, where v
\* is the file's content.
Shape(w, o, v) ==
    /\ o.pc = "idle" => o = Idle
    /\ o.out # "none" <=> o.pc \in {"cleanup", "unlock", "ungate"}
    /\ o.pc \in {"gate", "stat", "flock", "read"} => o.val = Missing
    /\ o.pc \in {"temp", "write", "sync", "close", "rename"} =>
          \/ o.kind = "transact" /\ o.val = newStorageState(v) \cup {w}
          \/ o.kind = "clear" /\ o.val = {} /\ v # Missing
    /\ o.pc \in {"close", "rename"} => o.flushed
    /\ o.pc = "remove" => o.kind = "delete"
    /\ o.pc = "dirsync" => o.kind # "load"

LockHeld == \A w \in Workers : op[w].pc \in Locked => lock = w
Shaped == \A w \in Workers : Shape(w, op[w], file)

FileInv == TypeOK /\ NeverTorn /\ LockHeld /\ TempsRemoved /\ Shaped

\* A step of worker w that leaves its operation as o keeps the invariant if o
\* has the shape of its pc, if only the lock's owner takes the lock away or
\* changes the file, and if the file it leaves is whole.
LEMMA MoveKeeps ==
    ASSUME FileInv, NEW w \in Workers, NEW o \in Op,
           op' = [op EXCEPT ![w] = o],
           Shape(w, o, file'),
           o.pc \in Locked => lock' = w,
           lock' \in Workers \cup {None},
           lock \notin {w, None} => lock' = lock,
           file' # file => op[w].pc \in Locked,
           file' \in Contents, survivors' \in SUBSET Contents,
           temps' \in SUBSET (temps \cup {w}),
           w \in temps' => o.pc \in WithTemp,
           gate' \in [Handles -> Workers \cup {None}],
           canceled' \in SUBSET Workers, calls' \in 0 .. MaxCalls
    PROVE  FileInv'
<1>1. op'[w] = o /\ \A v \in Workers \ {w} : op'[v] = op[v]
  BY DEF FileInv, TypeOK
<1>2. TypeOK'
  BY DEF FileInv, TypeOK
<1>3. NeverTorn'
  BY ContentAssumption DEF NeverTorn, Contents
<1>4. LockHeld'
  BY <1>1, ContentAssumption DEF FileInv, LockHeld
<1>5. TempsRemoved'
  BY <1>1 DEF FileInv, TypeOK, TempsRemoved, WithTemp
<1>6. Shaped'
  <2> SUFFICES ASSUME NEW v \in Workers PROVE Shape(v, op'[v], file')
    BY DEF Shaped
  <2>1. CASE v = w
    BY <2>1, <1>1
  <2>2. CASE v # w /\ file' = file
    BY <2>2, <1>1 DEF FileInv, Shaped
  <2>3. CASE v # w /\ file' # file
    <3>1. op[v].pc \notin Locked
      BY <2>3 DEF FileInv, LockHeld
    <3>2. Shape(v, op[v], file)
      BY DEF FileInv, Shaped
    <3> QED
      BY <3>1, <3>2, <2>3, <1>1 DEF Shape, Locked
  <2> QED BY <2>1, <2>2, <2>3
<1> QED BY <1>2, <1>3, <1>4, <1>5, <1>6 DEF FileInv

\* The operation of w moved to l, and moved there with its outcome.
Moved(w, l) == [op[w] EXCEPT !.pc = l]
Ended(w, r, l) == [op[w] EXCEPT !.pc = l, !.out = r]

\* Goto moves the operation, which stays the same in the other fields.
LEMMA Moves ==
    ASSUME TypeOK, NEW w \in Workers, NEW l \in PCs
    PROVE  /\ Goto(w, l) => op' = [op EXCEPT ![w] = Moved(w, l)]
           /\ Moved(w, l) \in Op /\ Moved(w, l).pc = l
           /\ Moved(w, l).kind = op[w].kind /\ Moved(w, l).val = op[w].val
           /\ Moved(w, l).flushed = op[w].flushed /\ Moved(w, l).out = op[w].out
BY DEF TypeOK, Op, Goto, Moved

\* Finish gives the operation its outcome, too.
LEMMA Finishes ==
    ASSUME TypeOK, NEW w \in Workers, NEW l \in PCs, NEW r \in {"none", "ok", "error"}
    PROVE  /\ Finish(w, r, l) => op' = [op EXCEPT ![w] = Ended(w, r, l)]
           /\ Ended(w, r, l) \in Op /\ Ended(w, r, l).pc = l /\ Ended(w, r, l).out = r
           /\ Ended(w, r, l).kind = op[w].kind /\ Ended(w, r, l).val = op[w].val
           /\ Ended(w, r, l).flushed = op[w].flushed
BY DEF TypeOK, Op, Finish, Ended

\* Every step of an operation keeps the invariant.
LEMMA StepKeeps ==
    ASSUME FileInv, NEW w \in Workers, Step(w)
    PROVE  FileInv'
<1> USE ContentAssumption, HandleAssumption
<1>0. /\ TypeOK /\ NeverTorn
      /\ op[w] \in Op /\ Shape(w, op[w], file)
      /\ op[w].pc \in Locked => lock = w
      /\ w \in temps => op[w].pc \in WithTemp
  BY DEF FileInv, TypeOK, Shaped, LockHeld, TempsRemoved, WithTemp
<1>1. /\ file \in Contents /\ survivors \in SUBSET Contents
      /\ lock \in Workers \cup {None} /\ temps \in SUBSET Workers
      /\ canceled \in SUBSET Workers /\ calls \in 0 .. MaxCalls
      /\ gate \in [Handles -> Workers \cup {None}] /\ HandleOf[w] \in Handles
  BY <1>0 DEF TypeOK, NeverTorn
<1>2. Idle \in Op /\ Shape(w, Idle, file) /\ Idle.pc \notin Locked \cup WithTemp
  BY DEF Idle, Op, PCs, FailTo, Kinds, Contents, Shape, Locked, WithTemp
<1>3. CASE GateLock(w)
  <2> DEFINE o == Moved(w, "stat")
  <2>1. /\ op' = [op EXCEPT ![w] = o] /\ o \in Op /\ o.pc = "stat"
        /\ o.val = op[w].val /\ o.out = op[w].out
    BY <1>3, <1>0, Moves DEF GateLock, PCs, FailTo
  <2>2. gate' \in [Handles -> Workers \cup {None}]
    BY <1>3, <1>1 DEF GateLock
  <2>3. /\ UNCHANGED <<file, survivors, lock, canceled, temps, calls>> /\ op[w].pc = "gate"
    BY <1>3 DEF GateLock
  <2> HIDE DEF o
  <2>4. Shape(w, o, file') /\ o.pc \notin Locked /\ w \notin temps
    BY <2>1, <2>3, <1>0 DEF Shape, Locked, WithTemp
  <2> QED BY <2>1, <2>2, <2>3, <2>4, <1>1, MoveKeeps
<1>4. CASE GateCanceled(w)
  <2>1. /\ op' = [op EXCEPT ![w] = Idle] /\ canceled' = canceled \ {w} /\ op[w].pc = "gate"
        /\ UNCHANGED <<file, survivors, gate, lock, temps, calls>>
    BY <1>4 DEF GateCanceled, Done
  <2>2. w \notin temps
    BY <2>1, <1>0 DEF WithTemp
  <2> QED BY <2>1, <2>2, <1>1, <1>2, MoveKeeps
<1>5. CASE Stat(w)
  <2>0. /\ UNCHANGED <<file, survivors, gate, lock, canceled, temps, calls>> /\ op[w].pc = "stat"
    BY <1>5 DEF Stat
  <2>1. CASE Finish(w, "ok", "ungate")
    <3> DEFINE o == Ended(w, "ok", "ungate")
    <3>1. op' = [op EXCEPT ![w] = o] /\ o \in Op /\ o.pc = "ungate" /\ o.out = "ok"
      BY <2>1, <1>0, Finishes DEF PCs, FailTo
    <3> HIDE DEF o
    <3>2. Shape(w, o, file') /\ o.pc \notin Locked /\ w \notin temps
      BY <3>1, <2>0, <1>0 DEF Shape, Locked, WithTemp
    <3> QED BY <3>1, <3>2, <2>0, <1>1, MoveKeeps
  <2>2. CASE Goto(w, "flock")
    <3> DEFINE o == Moved(w, "flock")
    <3>1. /\ op' = [op EXCEPT ![w] = o] /\ o \in Op /\ o.pc = "flock"
          /\ o.val = op[w].val /\ o.out = op[w].out
      BY <2>2, <1>0, Moves DEF PCs, FailTo
    <3> HIDE DEF o
    <3>2. Shape(w, o, file') /\ o.pc \notin Locked /\ w \notin temps
      BY <3>1, <2>0, <1>0 DEF Shape, Locked, WithTemp
    <3> QED BY <3>1, <3>2, <2>0, <1>1, MoveKeeps
  <2> QED BY <1>5, <2>1, <2>2 DEF Stat
<1>6. CASE Flock(w)
  <2>0. /\ UNCHANGED <<file, survivors, gate, canceled, temps, calls>> /\ op[w].pc = "flock"
        /\ lock = None /\ lock' = w
    BY <1>6 DEF Flock
  <2> DEFINE o == Moved(w, "read")
  <2>1. /\ op' = [op EXCEPT ![w] = o] /\ o \in Op /\ o.pc = "read"
        /\ o.val = op[w].val /\ o.out = op[w].out
    BY <1>6, <1>0, Moves DEF Flock, PCs, FailTo
  <2> HIDE DEF o
  <2>2. Shape(w, o, file') /\ w \notin temps
    BY <2>0, <2>1, <1>0 DEF Shape, WithTemp
  <2> QED BY <2>0, <2>1, <2>2, <1>1, MoveKeeps
<1>7. CASE Read(w)
  <2>0. /\ UNCHANGED <<file, survivors, gate, lock, canceled, temps, calls>> /\ op[w].pc = "read"
        /\ lock = w /\ w \notin temps /\ op[w].out = "none" /\ op[w].val = Missing
    BY <1>7, <1>0 DEF Read, Locked, WithTemp, Shape, Op
  <2> SUFFICES ASSUME NEW o \in Op, op' = [op EXCEPT ![w] = o], Shape(w, o, file)
               PROVE  FileInv'
    <3>1. CASE op[w].kind = "load"
      <4> DEFINE o == [op[w] EXCEPT !.pc = "unlock", !.out = "ok", !.val = file]
      <4>1. op' = [op EXCEPT ![w] = o]
        BY <1>7, <3>1, <1>0 DEF Read, TypeOK
      <4>2. o \in Op /\ o.pc = "unlock" /\ o.out = "ok"
        BY <1>0, <1>1 DEF Op, PCs
      <4> HIDE DEF o
      <4>3. Shape(w, o, file)
        BY <4>2 DEF Shape
      <4> QED BY <4>1, <4>2, <4>3
    <3>2. CASE op[w].kind # "load" /\ ~Changes(w)
      <4> DEFINE o == Ended(w, "ok", "unlock")
      <4>1. Finish(w, "ok", "unlock")
        BY <1>7, <3>2 DEF Read
      <4>2. op' = [op EXCEPT ![w] = o] /\ o \in Op /\ o.pc = "unlock" /\ o.out = "ok"
        BY <4>1, <1>0, Finishes DEF PCs
      <4> HIDE DEF o
      <4>3. Shape(w, o, file)
        BY <4>2 DEF Shape
      <4> QED BY <4>2, <4>3
    <3>3. CASE op[w].kind = "transact" /\ Changes(w)
      <4> DEFINE o == [op[w] EXCEPT !.pc = "temp", !.val = newStorageState(file) \cup {w}]
      <4>1. op' = [op EXCEPT ![w] = o]
        BY <1>7, <3>3, <1>0 DEF Read, TypeOK
      <4>2. newStorageState(file) \cup {w} \in Contents
        BY <1>1 DEF newStorageState, Contents
      <4>3. /\ o \in Op /\ o.pc = "temp" /\ o.out = "none" /\ o.kind = "transact"
            /\ o.val = newStorageState(file) \cup {w}
        BY <1>0, <2>0, <3>3, <4>2 DEF Op, PCs, FailTo
      <4> HIDE DEF o
      <4>4. Shape(w, o, file)
        BY <4>3 DEF Shape
      <4> QED BY <4>1, <4>3, <4>4
    <3>4. CASE op[w].kind = "clear" /\ Changes(w)
      <4> DEFINE o == [op[w] EXCEPT !.pc = "temp", !.val = {}]
      <4>1. op' = [op EXCEPT ![w] = o]
        BY <1>7, <3>4, <1>0 DEF Read, TypeOK
      <4>2. {} \in Contents /\ file # Missing
        BY <3>4 DEF Contents, Changes
      <4>3. /\ o \in Op /\ o.pc = "temp" /\ o.out = "none" /\ o.kind = "clear" /\ o.val = {}
        BY <1>0, <2>0, <3>4, <4>2 DEF Op, PCs, FailTo
      <4> HIDE DEF o
      <4>4. Shape(w, o, file)
        BY <4>2, <4>3 DEF Shape
      <4> QED BY <4>1, <4>3, <4>4
    <3>5. CASE op[w].kind = "delete" /\ Changes(w)
      <4> DEFINE o == Moved(w, "remove")
      <4>1. Goto(w, "remove")
        BY <1>7, <3>5 DEF Read
      <4>2. /\ op' = [op EXCEPT ![w] = o] /\ o \in Op /\ o.pc = "remove"
            /\ o.kind = op[w].kind /\ o.out = op[w].out
        BY <4>1, <1>0, Moves DEF PCs, FailTo
      <4> HIDE DEF o
      <4>3. Shape(w, o, file)
        BY <4>2, <2>0, <3>5 DEF Shape
      <4> QED BY <4>2, <4>3
    <3> QED BY <3>1, <3>2, <3>3, <3>4, <3>5, <1>0 DEF Op, Kinds
  <2> QED BY <2>0, <1>1, MoveKeeps
<1>8. ASSUME NEW l \in PCs, Goto(w, l), UNCHANGED <<file, survivors, gate, lock, canceled, calls>>,
             <<op[w].pc, l>> \in {<<"temp", "write">>, <<"write", "sync">>, <<"close", "rename">>},
             temps' \in SUBSET (temps \cup {w})
      PROVE  FileInv'
  <2> DEFINE o == Moved(w, l)
  <2>1. /\ op' = [op EXCEPT ![w] = o] /\ o \in Op /\ o.pc = l
        /\ o.kind = op[w].kind /\ o.val = op[w].val
        /\ o.flushed = op[w].flushed /\ o.out = op[w].out
    BY <1>8, <1>0, Moves
  <2> HIDE DEF o
  <2>2. Shape(w, o, file) /\ lock = w /\ o.pc \in WithTemp
    BY <1>8, <2>1, <1>0 DEF Shape, Locked, WithTemp
  <2> QED BY <1>8, <2>1, <2>2, <1>1, MoveKeeps
<1>9. CASE CreateTemp(w)
  BY <1>8, <1>9 DEF CreateTemp, PCs, FailTo
<1>10. CASE Write(w)
  BY <1>8, <1>10 DEF Write, PCs, FailTo
<1>11. CASE Close(w)
  BY <1>8, <1>11 DEF Close, PCs, FailTo
<1>12. CASE Sync(w)
  <2> DEFINE o == [op[w] EXCEPT !.pc = "close", !.flushed = TRUE]
  <2>1. op' = [op EXCEPT ![w] = o] /\ op[w].pc = "sync"
    BY <1>12, <1>0 DEF Sync, TypeOK
  <2>2. /\ o \in Op /\ o.pc = "close" /\ o.flushed
        /\ o.kind = op[w].kind /\ o.val = op[w].val /\ o.out = op[w].out
    BY <1>0 DEF Op, PCs, FailTo
  <2>3. UNCHANGED <<file, survivors, gate, lock, canceled, temps, calls>>
    BY <1>12 DEF Sync
  <2> HIDE DEF o
  <2>4. Shape(w, o, file) /\ lock = w /\ o.pc \in WithTemp
    BY <2>1, <2>2, <1>0 DEF Shape, Locked, WithTemp
  <2> QED BY <2>1, <2>2, <2>3, <2>4, <1>1, MoveKeeps
<1>13. ASSUME NEW v \in Contents, Replace(w, v), v = Missing \/ op[w].flushed,
              Goto(w, "dirsync"), UNCHANGED <<gate, lock, canceled, calls>>,
              temps' = temps \ {w}, op[w].pc \in {"rename", "remove"}
       PROVE  FileInv'
  <2> DEFINE o == Moved(w, "dirsync")
  <2>1. /\ op' = [op EXCEPT ![w] = o] /\ o \in Op /\ o.pc = "dirsync"
        /\ o.kind = op[w].kind /\ o.out = op[w].out
    BY <1>13, <1>0, Moves DEF PCs, FailTo
  <2>2. file' = v /\ survivors' = survivors \cup {v}
    BY <1>13 DEF Replace
  <2> HIDE DEF o
  <2>3. Shape(w, o, v) /\ lock = w /\ op[w].pc \in Locked
    BY <1>13, <2>1, <1>0 DEF Shape, Locked
  <2> QED BY <1>13, <2>1, <2>2, <2>3, <1>1, MoveKeeps
<1>14. CASE Rename(w)
  <2>1. op[w].val \in Contents /\ op[w].flushed
    BY <1>14, <1>0 DEF Rename, Op, Shape
  <2> QED BY <1>13, <1>14, <2>1 DEF Rename
<1>15. CASE Remove(w)
  <2>1. Missing \in Contents /\ temps = temps \ {w}
    BY <1>15, <1>0 DEF Remove, Contents, WithTemp
  <2> QED BY <1>13, <1>15, <2>1 DEF Remove
<1>16. ASSUME NEW l \in {"cleanup", "unlock", "ungate"}, NEW r \in {"ok", "error"}, Finish(w, r, l),
              UNCHANGED <<file, gate, lock, canceled, temps, calls>>,
              survivors' \in SUBSET Contents,
              l \in Locked => op[w].pc \in Locked,
              op[w].pc \in WithTemp => l = "cleanup"
       PROVE  FileInv'
  <2> DEFINE o == Ended(w, r, l)
  <2>1. op' = [op EXCEPT ![w] = o] /\ o \in Op /\ o.pc = l /\ o.out = r
    BY <1>16, <1>0, Finishes DEF PCs
  <2> HIDE DEF o
  <2>2. Shape(w, o, file) /\ (o.pc \in Locked => lock = w) /\ (w \in temps => o.pc \in WithTemp)
    BY <1>16, <2>1, <1>0 DEF Shape, Locked, WithTemp
  <2> QED BY <1>16, <2>1, <2>2, <1>1, MoveKeeps
<1>17. CASE SyncDirectory(w)
  <2>1. survivors' \in SUBSET Contents
    BY <1>17, <1>1, <1>0 DEF SyncDirectory, NeverTorn
  <2> QED BY <1>16, <1>17, <2>1 DEF SyncDirectory, Locked, WithTemp
<1>18. CASE Fails(w)
  <2> DEFINE l == FailTo[op[w].pc]
  <2>1. /\ l \in {"cleanup", "unlock", "ungate"}
        /\ l \in Locked => op[w].pc \in Locked
        /\ op[w].pc \in WithTemp => l = "cleanup"
    BY <1>18 DEF Fails, FailTo, Locked, WithTemp
  <2>2. Finish(w, "error", l) /\ UNCHANGED <<file, survivors, gate, lock, canceled, temps, calls>>
    BY <1>18 DEF Fails
  <2> HIDE DEF l
  <2> QED BY <1>16, <2>1, <2>2, <1>1
<1>19. ASSUME NEW l \in {"unlock", "ungate"}, Goto(w, l), op[w].out # "none",
              UNCHANGED <<file, survivors, gate, canceled, calls>>,
              lock' = lock \/ (lock = w /\ lock' = None),
              l = "unlock" => op[w].pc \in Locked /\ lock' = lock,
              temps' = temps \ {w}
       PROVE  FileInv'
  <2> DEFINE o == Moved(w, l)
  <2>1. op' = [op EXCEPT ![w] = o] /\ o \in Op /\ o.pc = l /\ o.out = op[w].out
    BY <1>19, <1>0, Moves DEF PCs
  <2> HIDE DEF o
  <2>2. Shape(w, o, file) /\ (o.pc \in Locked => lock' = w)
    BY <1>19, <2>1, <1>0 DEF Shape, Locked
  <2> QED BY <1>19, <2>1, <2>2, <1>1, MoveKeeps
<1>20. CASE Cleanup(w)
  BY <1>19, <1>20, <1>0 DEF Cleanup, Locked, Shape
<1>21. CASE LockClose(w)
  <2>1. temps = temps \ {w} /\ op[w].out # "none"
    BY <1>21, <1>0 DEF LockClose, WithTemp, Shape
  <2> QED BY <1>19, <1>21, <2>1 DEF LockClose
<1>22. CASE GateUnlock(w)
  <2>1. /\ op' = [op EXCEPT ![w] = Idle] /\ canceled' = canceled \ {w} /\ op[w].pc = "ungate"
        /\ UNCHANGED <<file, survivors, lock, temps, calls>>
        /\ gate' \in [Handles -> Workers \cup {None}]
    BY <1>22, <1>1 DEF GateUnlock, Done
  <2>2. w \notin temps
    BY <2>1, <1>0 DEF WithTemp
  <2> QED BY <2>1, <2>2, <1>1, <1>2, MoveKeeps
<1> QED
  BY <1>3, <1>4, <1>5, <1>6, <1>7, <1>9, <1>10, <1>11, <1>12, <1>14, <1>15, <1>17,
     <1>18, <1>20, <1>21, <1>22 DEF Step

\* Death, of one process or of all in a power loss, keeps the invariant: the
\* kernel drops the locks of the dead, and only a whole file survives.
LEMMA DieKeeps ==
    ASSUME FileInv, NEW W \in SUBSET Workers, Die(W),
           file' \in Contents, survivors' \in SUBSET Contents,
           file' # file => W = Workers
    PROVE  FileInv'
<1> USE ContentAssumption
<1>0. TypeOK
  BY DEF FileInv
<1>1. Idle \in Op /\ Idle.pc = "idle" /\ \A v \in Workers : Shape(v, Idle, file')
  BY DEF Idle, Op, PCs, Kinds, Contents, Shape
<1>2. \A v \in Workers : op'[v] = IF v \in W THEN Idle ELSE op[v]
  BY DEF Die
<1>3. TypeOK'
  BY <1>0, <1>1 DEF TypeOK, Die
<1>4. NeverTorn'
  BY DEF NeverTorn, Contents
<1>5. LockHeld'
  BY <1>1, <1>2 DEF FileInv, LockHeld, Die, Locked
<1>6. TempsRemoved'
  BY <1>0, <1>2 DEF FileInv, TypeOK, TempsRemoved, Die
<1>7. Shaped'
  BY <1>1, <1>2 DEF FileInv, Shaped
<1> QED BY <1>3, <1>4, <1>5, <1>6, <1>7 DEF FileInv

\* So does every step of the specification.
LEMMA NextKeeps ==
    ASSUME FileInv, [Next]_vars
    PROVE  FileInv'
<1> USE ContentAssumption, MaxCallsAssumption
<1>0. TypeOK /\ file \in Contents /\ survivors \in SUBSET Contents
  BY DEF FileInv, TypeOK, NeverTorn
<1>1. ASSUME NEW w \in Workers, Step(w) PROVE FileInv'
  BY <1>1, StepKeeps
<1>2. ASSUME NEW w \in Workers, Cancel(w) PROVE FileInv'
  BY <1>2 DEF Cancel, FileInv, TypeOK, NeverTorn, LockHeld, TempsRemoved, Shaped
<1>3. ASSUME NEW w \in Workers, NEW kind \in Kinds, Start(w, kind) PROVE FileInv'
  <2> DEFINE o == [Idle EXCEPT !.pc = "gate", !.kind = kind]
  <2>1. /\ o \in Op /\ o.pc = "gate" /\ o.val = Missing /\ o.out = "none"
    BY DEF Idle, Op, PCs, Contents
  <2>2. /\ op' = [op EXCEPT ![w] = o] /\ op[w].pc = "idle" /\ calls' \in 0 .. MaxCalls
        /\ UNCHANGED <<file, survivors, gate, lock, canceled, temps>>
    BY <1>3, <1>0 DEF Start, TypeOK
  <2> HIDE DEF o
  <2>3. Shape(w, o, file) /\ o.pc \notin Locked /\ w \notin temps
    BY <2>1, <2>2 DEF Shape, Locked, FileInv, TempsRemoved
  <2> QED BY <2>1, <2>2, <2>3, <1>0, MoveKeeps DEF TypeOK
<1>4. ASSUME NEW h \in Handles, Crash(h) PROVE FileInv'
  BY <1>0, <1>4, DieKeeps DEF Crash
<1>5. CASE PowerLoss
  BY <1>0, <1>5, DieKeeps DEF PowerLoss
<1>6. CASE UNCHANGED vars
  BY <1>6 DEF vars, FileInv, TypeOK, NeverTorn, LockHeld, TempsRemoved, Shaped
<1> QED BY <1>1, <1>2, <1>3, <1>4, <1>5, <1>6 DEF Next

\* The invariant of FileStorage: it holds whatever fails, is canceled or dies,
\* and wherever.
THEOREM FileInvariant == Spec => []FileInv
<1> USE ContentAssumption, MaxCallsAssumption
<1>1. Init => FileInv
  <2> SUFFICES ASSUME Init PROVE FileInv
    OBVIOUS
  <2>1. Idle \in Op /\ Idle.pc = "idle" /\ \A w \in Workers : Shape(w, Idle, file)
    BY DEF Idle, Op, PCs, Kinds, Contents, Shape
  <2>2. \A w \in Workers : op[w] = Idle
    BY DEF Init
  <2>3. TypeOK /\ NeverTorn
    BY <2>1 DEF Init, TypeOK, NeverTorn, Contents
  <2>4. LockHeld /\ TempsRemoved /\ Shaped
    BY <2>1, <2>2 DEF Init, LockHeld, TempsRemoved, Shaped, Locked
  <2> QED BY <2>3, <2>4 DEF FileInv
<1>2. FileInv /\ [Next]_vars => FileInv'
  BY NextKeeps
<1> QED BY <1>1, <1>2, PTL DEF Spec

\* FileStorage's state has its type.
THEOREM TypeCorrect == Spec => []TypeOK
<1>1. FileInv => TypeOK
  BY DEF FileInv
<1> QED BY <1>1, FileInvariant, PTL

\* writeStorageState syncs the temporary file before it renames it: no reader,
\* even after a power loss, finds a file whose data is not there.
THEOREM NeverTornHolds == Spec => []NeverTorn
<1>1. FileInv => NeverTorn
  BY DEF FileInv
<1> QED BY <1>1, FileInvariant, PTL

\* acquireStorageLock excludes: of all goroutines of all processes one at most
\* is between flock and Close.
THEOREM LockExclusiveHolds == Spec => []LockExclusive
<1>1. FileInv => LockExclusive
  BY DEF FileInv, LockHeld, LockExclusive
<1> QED BY <1>1, FileInvariant, PTL

\* Whatever fails, writeStorageState has renamed its temporary file or tried to
\* remove it before the operation ends.
THEOREM TempsRemovedHolds == Spec => []TempsRemoved
<1>1. FileInv => TempsRemoved
  BY DEF FileInv
<1> QED BY <1>1, FileInvariant, PTL

-----------------------------------------------------------------------------
(***************************************************************************)
(* FileStorage implements AtomicStore.  The change takes effect with the   *)
(* rename or the removal; what the operation then makes of the store is    *)
(* what AtomicStore says, because the lock kept the file as it was read.   *)
(***************************************************************************)

\* The abstract call of operation o: Call(w) is CallOf(op[w]).
PhaseOf(o) ==
    CASE o.out = "ok" -> "succeeded"
      [] o.out = "error" -> "failed"
      [] o.pc = "dirsync" -> "applied"
      [] o.pc = "idle" -> "idle"
      [] OTHER -> "called"

SeenOf(o) == IF o.kind = "load" /\ o.out = "ok" THEN o.val ELSE Missing

CallOf(o) == [kind |-> o.kind, phase |-> PhaseOf(o), seen |-> SeenOf(o)]

\* The abstract calls, the variable call of AtomicStore.
calling == [w \in Workers |-> Call(w)]

\* The outcome tells the phase, and before there is one the pc does.
LEMMA Phases ==
    ASSUME NEW o \in Op, o.out # "none" => o.pc \notin {"idle", "dirsync"}
    PROVE  /\ o.out = "ok" => PhaseOf(o) = "succeeded"
           /\ o.out = "error" => PhaseOf(o) = "failed" /\ SeenOf(o) = Missing
           /\ o.out = "none" => SeenOf(o) = Missing /\
                 PhaseOf(o) = IF o.pc = "dirsync" THEN "applied"
                              ELSE IF o.pc = "idle" THEN "idle" ELSE "called"
           /\ o.kind # "load" => SeenOf(o) = Missing
           /\ o.kind = "load" /\ o.out = "ok" => SeenOf(o) = o.val
<1>1. o.out = "ok" => PhaseOf(o) = "succeeded"
  BY DEF PhaseOf
<1>2. o.out = "error" => PhaseOf(o) = "failed"
  BY DEF PhaseOf
<1>3. o.out = "none" =>
          PhaseOf(o) = IF o.pc = "dirsync" THEN "applied"
                       ELSE IF o.pc = "idle" THEN "idle" ELSE "called"
  BY DEF PhaseOf
<1>4. /\ o.out \in {"error", "none"} \/ o.kind # "load" => SeenOf(o) = Missing
      /\ o.kind = "load" /\ o.out = "ok" => SeenOf(o) = o.val
  BY DEF SeenOf
<1> QED BY <1>1, <1>2, <1>3, <1>4

\* A step of w changes the abstract call of w alone.
LEMMA CallMoves ==
    ASSUME TypeOK, NEW w \in Workers, NEW o \in Op, op' = [op EXCEPT ![w] = o]
    PROVE  calling[w] = CallOf(op[w]) /\ calling' = [calling EXCEPT ![w] = CallOf(o)]
<1>1. op'[w] = o /\ \A v \in Workers \ {w} : op'[v] = op[v]
  BY DEF TypeOK
<1>2. \A v \in Workers : Call(v) = CallOf(op[v])
  BY DEF Call, CallOf, Phase, PhaseOf, SeenOf
<1>3. \A v \in Workers : Call(v)' = CallOf(op'[v])
  BY DEF Call, CallOf, Phase, PhaseOf, SeenOf
<1> QED BY <1>1, <1>2, <1>3 DEF calling

\* The steps that only prepare or clean up are invisible.
LEMMA Invisible ==
    ASSUME TypeOK, NEW w \in Workers, NEW o \in Op, op' = [op EXCEPT ![w] = o],
           o.kind = op[w].kind, o.out = op[w].out,
           {o.pc, op[w].pc} \cap {"idle", "dirsync"} = {},
           o.out = "ok" => o.val = op[w].val
    PROVE  calling' = calling
<1>0. op[w] \in Op
  BY DEF TypeOK
<1>1. CallOf(o) = CallOf(op[w])
  <2>1. PhaseOf(o) = PhaseOf(op[w])
    BY <1>0, Phases DEF Op
  <2>2. SeenOf(o) = SeenOf(op[w])
    BY DEF SeenOf
  <2> QED BY <2>1, <2>2 DEF CallOf
<1>2. calling = [calling EXCEPT ![w] = calling[w]]
  BY DEF calling
<1>3. calling[w] = CallOf(op[w]) /\ calling' = [calling EXCEPT ![w] = CallOf(o)]
  BY CallMoves
<1> QED BY <1>1, <1>2, <1>3

\* An operation that finds nothing to change answers, and Load answers with the
\* file's content.
LEMMA Answers ==
    ASSUME FileInv, NEW w \in Workers, NEW o \in Op, op' = [op EXCEPT ![w] = o],
           UNCHANGED <<file, survivors>>,
           op[w].pc \in {"stat", "read"}, op[w].out = "none", o.out = "ok",
           o.kind = op[w].kind, o.kind = "load" => o.val = file, ~Changes(w),
           op[w].kind = "transact" => op[w].pc = "read",
           o.pc \notin {"idle", "dirsync"}
    PROVE  Atomic!Answer(w)
<1> USE ContentAssumption
<1>0. op[w] \in Op
  BY DEF FileInv, TypeOK
<1>1. calling[w] = CallOf(op[w]) /\ calling' = [calling EXCEPT ![w] = CallOf(o)]
  BY CallMoves DEF FileInv
<1>2. calling[w].phase = "called" /\ calling[w].kind = op[w].kind /\ calling[w].seen = Missing
  BY <1>0, <1>1, Phases DEF CallOf
<1> DEFINE s == IF op[w].kind = "load" THEN file ELSE Missing
<1>3. CallOf(o) = [calling[w] EXCEPT !.phase = "succeeded", !.seen = s]
  <2>1. PhaseOf(o) = "succeeded" /\ SeenOf(o) = s
    BY Phases
  <2> HIDE DEF s
  <2>2. calling[w] = [kind |-> op[w].kind, phase |-> PhaseOf(op[w]), seen |-> SeenOf(op[w])]
    BY <1>1 DEF CallOf
  <2>3. [calling[w] EXCEPT !.phase = "succeeded", !.seen = s]
           = [kind |-> op[w].kind, phase |-> "succeeded", seen |-> s]
    <3> DEFINE d == [calling[w] EXCEPT !.phase = "succeeded"]
    <3>1. d = [kind |-> op[w].kind, phase |-> "succeeded", seen |-> SeenOf(op[w])]
      BY <2>2
    <3> HIDE DEF d
    <3>2. [d EXCEPT !.seen = s] = [kind |-> op[w].kind, phase |-> "succeeded", seen |-> s]
      BY <3>1
    <3> QED BY <3>2 DEF d
  <2> QED BY <2>1, <2>3, Zenon DEF CallOf
<1>4. Atomic!Effect(op[w].kind, w, file) = file
  <2>1. op[w].kind \in Kinds /\ file \in Contents
    BY DEF FileInv, TypeOK, Op, NeverTorn
  <2> QED BY <2>1 DEF Kinds, Contents, Changes, newStorageState, Atomic!Effect, Atomic!Content
<1>5. calling' = [calling EXCEPT ![w].phase = "succeeded",
                      ![w].seen = IF calling[w].kind = "load" THEN file ELSE Missing]
  BY <1>1, <1>2, <1>3 DEF calling
<1> QED BY <1>2, <1>4, <1>5 DEF Atomic!Answer, calling

\* The rename and the removal change the store as AtomicStore says.
LEMMA Applies ==
    ASSUME FileInv, NEW w \in Workers, NEW o \in Op, op' = [op EXCEPT ![w] = o],
           op[w].pc \in {"rename", "remove"}, o.pc = "dirsync",
           o.kind = op[w].kind, o.out = op[w].out,
           file' = IF op[w].pc = "rename" THEN op[w].val ELSE Missing,
           survivors' = survivors \cup {file'}
    PROVE  Atomic!Apply(w)
<1> USE ContentAssumption
<1>0. Shape(w, op[w], file) /\ op[w] \in Op
  BY DEF FileInv, Shaped, TypeOK
<1>1. calling[w] = CallOf(op[w]) /\ calling' = [calling EXCEPT ![w] = CallOf(o)]
  BY CallMoves DEF FileInv
<1>2. op[w].out = "none" /\ op[w].kind # "load"
  BY <1>0 DEF Shape
<1>3. calling[w].phase = "called" /\ calling[w].kind = op[w].kind
  BY <1>0, <1>1, <1>2, Phases DEF CallOf
<1>4. CallOf(o) = [calling[w] EXCEPT !.phase = "applied"]
  BY <1>0, <1>1, <1>2, Phases DEF CallOf
<1>5. file' = Atomic!Effect(op[w].kind, w, file)
  BY <1>0 DEF Shape, newStorageState, Atomic!Effect, Atomic!Content
<1>6. calling' = [calling EXCEPT ![w].phase = "applied"]
  BY <1>1, <1>4 DEF calling
<1> QED BY <1>2, <1>3, <1>5, <1>6 DEF Atomic!Apply, calling

\* The directory sync makes the change permanent before the operation succeeds.
LEMMA Settles ==
    ASSUME FileInv, NEW w \in Workers, NEW o \in Op, op' = [op EXCEPT ![w] = o],
           op[w].pc = "dirsync", o.kind = op[w].kind, o.out = "ok",
           survivors' = {file}, file' = file,
           o.pc \notin {"idle", "dirsync"}
    PROVE  Atomic!Settle(w)
<1>0. Shape(w, op[w], file) /\ op[w] \in Op
  BY DEF FileInv, Shaped, TypeOK
<1>1. calling[w] = CallOf(op[w]) /\ calling' = [calling EXCEPT ![w] = CallOf(o)]
  BY CallMoves DEF FileInv
<1>2. calling[w].phase = "applied" /\ CallOf(o) = [calling[w] EXCEPT !.phase = "succeeded"]
  BY <1>0, <1>1, Phases DEF CallOf, Shape
<1>3. calling' = [calling EXCEPT ![w].phase = "succeeded"]
  BY <1>1, <1>2 DEF calling
<1> QED BY <1>2, <1>3 DEF Atomic!Settle, calling

\* An error before the change leaves the store as it was; one of the directory
\* sync leaves its permanence in doubt.
LEMMA FailsOrDoubts ==
    ASSUME FileInv, NEW w \in Workers, NEW o \in Op, op' = [op EXCEPT ![w] = o],
           op[w].pc \in DOMAIN FailTo, o.kind = op[w].kind, o.out = "error",
           UNCHANGED <<file, survivors>>,
           o.pc \notin {"idle", "dirsync"}
    PROVE  Atomic!Fail(w) \/ Atomic!Doubt(w)
<1>0. Shape(w, op[w], file) /\ op[w] \in Op
  BY DEF FileInv, Shaped, TypeOK
<1>1. calling[w] = CallOf(op[w]) /\ calling' = [calling EXCEPT ![w] = CallOf(o)]
  BY CallMoves DEF FileInv
<1>2. /\ calling[w].phase = IF op[w].pc = "dirsync" THEN "applied" ELSE "called"
      /\ CallOf(o) = [calling[w] EXCEPT !.phase = "failed"]
  BY <1>0, <1>1, Phases DEF CallOf, Shape, FailTo
<1>3. calling' = [calling EXCEPT ![w].phase = "failed"]
  BY <1>1, <1>2 DEF calling
<1> QED BY <1>2, <1>3 DEF Atomic!Fail, Atomic!Doubt, calling

\* Every step of an operation is a step of the atomic store, or none.
LEMMA StepRefines ==
    ASSUME FileInv, NEW w \in Workers, Step(w)
    PROVE  \/ Atomic!Answer(w) \/ Atomic!Apply(w) \/ Atomic!Settle(w) \/ Atomic!Doubt(w)
           \/ Atomic!Fail(w) \/ Atomic!Return(w) \/ Atomic!Crash({w})
           \/ UNCHANGED <<file, survivors, calling>>
<1> USE ContentAssumption
<1>0. /\ TypeOK /\ NeverTorn /\ file \in Contents
      /\ op[w] \in Op /\ Shape(w, op[w], file)
  BY DEF FileInv, TypeOK, Shaped, NeverTorn
<1>1. ASSUME NEW l \in PCs \ {"idle", "dirsync"}, Goto(w, l), op[w].pc \notin {"idle", "dirsync"}
      PROVE  calling' = calling
  BY <1>0, <1>1, Moves, Invisible
<1>2. ASSUME Done(w), op[w].pc # "idle", UNCHANGED <<file, survivors>>
      PROVE  IF op[w].out = "none" THEN Atomic!Crash({w}) ELSE Atomic!Return(w)
  <2>1. op' = [op EXCEPT ![w] = Idle] /\ Idle \in Op
    BY <1>2 DEF Done, Idle, Op, PCs, Kinds, Contents
  <2>2. calling[w] = CallOf(op[w]) /\ calling' = [calling EXCEPT ![w] = CallOf(Idle)]
    BY <2>1, <1>0, CallMoves
  <2>3. CallOf(Idle) = Atomic!NoCall
    BY DEF CallOf, PhaseOf, SeenOf, Idle, Atomic!NoCall
  <2>4. calling' = [v \in Workers |-> IF v \in {w} THEN Atomic!NoCall ELSE calling[v]]
    BY <2>2, <2>3 DEF calling
  <2>5. CASE op[w].out = "none"
    BY <2>4, <2>5, <1>2 DEF Atomic!Crash, calling
  <2>6. CASE op[w].out # "none"
    <3>1. op[w].out \in {"ok", "error"} /\ op[w].pc \notin {"idle", "dirsync"}
      BY <2>6, <1>0 DEF Op, Shape
    <3>2. calling[w].phase \in {"succeeded", "failed"}
      BY <3>1, <2>2, <1>0, Phases DEF CallOf
    <3> QED BY <2>2, <2>3, <2>6, <3>2, <1>2 DEF Atomic!Return, calling
  <2> QED BY <2>5, <2>6
<1>3. CASE GateLock(w)
  BY <1>1, <1>3 DEF GateLock, PCs, FailTo
<1>4. CASE GateCanceled(w)
  BY <1>2, <1>4 DEF GateCanceled
<1>5. CASE Stat(w)
  <2>1. CASE Goto(w, "flock")
    BY <1>1, <1>5, <2>1 DEF Stat, PCs, FailTo
  <2>2. CASE Finish(w, "ok", "ungate") /\ file = Missing /\ op[w].kind # "transact"
    <3>1. /\ op' = [op EXCEPT ![w] = Ended(w, "ok", "ungate")]
          /\ Ended(w, "ok", "ungate") \in Op
          /\ Ended(w, "ok", "ungate").pc = "ungate" /\ Ended(w, "ok", "ungate").out = "ok"
          /\ Ended(w, "ok", "ungate").kind = op[w].kind
          /\ Ended(w, "ok", "ungate").val = op[w].val
      BY <2>2, <1>0, Finishes DEF PCs
    <3>2. /\ op[w].pc = "stat" /\ op[w].out = "none" /\ op[w].val = Missing
          /\ UNCHANGED <<file, survivors>>
      BY <1>5, <1>0 DEF Stat, Shape
    <3>3. ~Changes(w)
      BY <2>2 DEF Changes
    <3> QED BY <2>2, <3>1, <3>2, <3>3, Answers
  <2> QED BY <1>5, <2>1, <2>2 DEF Stat
<1>6. CASE Flock(w)
  BY <1>1, <1>6 DEF Flock, PCs, FailTo
<1>7. CASE Read(w)
  <2>0. /\ op[w].pc = "read" /\ op[w].out = "none" /\ UNCHANGED <<file, survivors>>
    BY <1>7, <1>0 DEF Read, Shape
  <2>1. CASE op[w].kind = "load"
    <3> DEFINE o == [op[w] EXCEPT !.pc = "unlock", !.out = "ok", !.val = file]
    <3>1. op' = [op EXCEPT ![w] = o]
      BY <1>7, <2>1, <1>0 DEF Read, TypeOK
    <3>2. o \in Op /\ o.pc = "unlock" /\ o.out = "ok" /\ o.kind = op[w].kind /\ o.val = file
      BY <1>0 DEF Op, PCs
    <3>3. ~Changes(w)
      BY <2>1 DEF Changes
    <3> HIDE DEF o
    <3> QED BY <2>0, <2>1, <3>1, <3>2, <3>3, Answers
  <2>2. CASE op[w].kind # "load" /\ ~Changes(w)
    <3>1. Finish(w, "ok", "unlock")
      BY <1>7, <2>2 DEF Read
    <3>2. /\ op' = [op EXCEPT ![w] = Ended(w, "ok", "unlock")]
          /\ Ended(w, "ok", "unlock") \in Op
          /\ Ended(w, "ok", "unlock").pc = "unlock" /\ Ended(w, "ok", "unlock").out = "ok"
          /\ Ended(w, "ok", "unlock").kind = op[w].kind
      BY <3>1, <1>0, Finishes DEF PCs
    <3> QED BY <2>0, <2>2, <3>2, Answers
  <2>3. CASE op[w].kind \in {"transact", "clear"} /\ Changes(w)
    <3> DEFINE v == IF op[w].kind = "transact" THEN newStorageState(file) \cup {w} ELSE {}
               o == [op[w] EXCEPT !.pc = "temp", !.val = v]
    <3>1. op' = [op EXCEPT ![w] = o]
      BY <1>7, <2>3, <1>0 DEF Read, TypeOK
    <3>2. v \in Contents
      BY <1>0 DEF newStorageState, Contents
    <3> HIDE DEF v
    <3>3. o \in Op /\ o.pc = "temp" /\ o.out = "none" /\ o.kind = op[w].kind
      BY <1>0, <2>0, <3>2 DEF Op, PCs, FailTo
    <3> HIDE DEF o
    <3> QED BY <2>0, <3>1, <3>3, <1>0, Invisible
  <2>4. CASE op[w].kind = "delete" /\ Changes(w)
    <3>1. Goto(w, "remove")
      BY <1>7, <2>4 DEF Read
    <3> QED BY <1>1, <2>0, <3>1 DEF PCs, FailTo
  <2> QED BY <2>1, <2>2, <2>3, <2>4, <1>0 DEF Op, Kinds
<1>8. CASE CreateTemp(w) \/ Write(w) \/ Close(w)
  BY <1>1, <1>8 DEF CreateTemp, Write, Close, PCs, FailTo
<1>9. CASE Sync(w)
  <2> DEFINE o == [op[w] EXCEPT !.pc = "close", !.flushed = TRUE]
  <2>1. op' = [op EXCEPT ![w] = o] /\ op[w].pc = "sync" /\ UNCHANGED <<file, survivors>>
    BY <1>9, <1>0 DEF Sync, TypeOK
  <2>2. /\ o \in Op /\ o.pc = "close"
        /\ o.kind = op[w].kind /\ o.val = op[w].val /\ o.out = op[w].out
    BY <1>0 DEF Op, PCs, FailTo
  <2> HIDE DEF o
  <2> QED BY <2>1, <2>2, <1>0, Invisible
<1>10. CASE Rename(w) \/ Remove(w)
  <2>1. /\ op' = [op EXCEPT ![w] = Moved(w, "dirsync")]
        /\ Moved(w, "dirsync") \in Op /\ Moved(w, "dirsync").pc = "dirsync"
        /\ Moved(w, "dirsync").kind = op[w].kind /\ Moved(w, "dirsync").out = op[w].out
    BY <1>0, <1>10, Moves DEF Rename, Remove, PCs, FailTo
  <2>2. /\ op[w].pc \in {"rename", "remove"}
        /\ file' = IF op[w].pc = "rename" THEN op[w].val ELSE Missing
        /\ survivors' = survivors \cup {file'}
    BY <1>0, <1>10 DEF Rename, Remove, Replace, Shape
  <2> QED BY <2>1, <2>2, Applies
<1>11. CASE SyncDirectory(w)
  <2>1. /\ op' = [op EXCEPT ![w] = Ended(w, "ok", "unlock")]
        /\ Ended(w, "ok", "unlock") \in Op
        /\ Ended(w, "ok", "unlock").pc = "unlock" /\ Ended(w, "ok", "unlock").out = "ok"
        /\ Ended(w, "ok", "unlock").kind = op[w].kind
    BY <1>0, <1>11, Finishes DEF SyncDirectory, PCs
  <2>2. op[w].pc = "dirsync" /\ file' = file /\ survivors' = {file}
    BY <1>0, <1>11 DEF SyncDirectory, NeverTorn
  <2> QED BY <2>1, <2>2, Settles
<1>12. CASE Fails(w)
  <2> DEFINE l == FailTo[op[w].pc]
  <2>1. l \in {"cleanup", "unlock", "ungate"} /\ op[w].pc \in DOMAIN FailTo
    BY <1>12 DEF Fails, FailTo
  <2>2. Finish(w, "error", l) /\ UNCHANGED <<file, survivors>>
    BY <1>12 DEF Fails
  <2> HIDE DEF l
  <2>3. /\ op' = [op EXCEPT ![w] = Ended(w, "error", l)]
        /\ Ended(w, "error", l) \in Op
        /\ Ended(w, "error", l).pc = l /\ Ended(w, "error", l).out = "error"
        /\ Ended(w, "error", l).kind = op[w].kind
    BY <1>0, <2>1, <2>2, Finishes DEF PCs
  <2> QED BY <2>1, <2>2, <2>3, FailsOrDoubts
<1>13. CASE Cleanup(w) \/ LockClose(w)
  BY <1>1, <1>13 DEF Cleanup, LockClose, PCs
<1>14. CASE GateUnlock(w)
  BY <1>2, <1>14 DEF GateUnlock
<1> QED
  BY <1>3, <1>4, <1>5, <1>6, <1>7, <1>8, <1>9, <1>10, <1>11, <1>12, <1>13, <1>14 DEF Step

\* FileStorage implements the atomic store: every operation takes effect at the
\* rename or the removal or not at all, Load sees the file as it is at that
\* instant, and a change whose directory was synced survives a power loss.
THEOREM FileStorageImplementsAtomicStore == Spec => ImplementsAtomicStore
<1> USE ContentAssumption
<1>1. Init => Atomic!Init
  <2> SUFFICES ASSUME Init PROVE Atomic!Init
    OBVIOUS
  <2>1. \A w \in Workers : Call(w) = Atomic!NoCall
    BY DEF Init, Call, Phase, Idle, Atomic!NoCall
  <2> QED BY <2>1 DEF Init, Atomic!Init, Atomic!Values
<1>2. FileInv /\ [Next]_vars => [Atomic!Next]_(Atomic!vars)
  <2> SUFFICES ASSUME FileInv, [Next]_vars
               PROVE  Atomic!Next \/ UNCHANGED <<file, survivors, calling>>
    BY DEF Atomic!vars, calling
  <2>0. TypeOK /\ \A v \in Workers : Call(v) = CallOf(op[v]) /\ Call(v)' = CallOf(op'[v])
    BY DEF FileInv, Call, CallOf, Phase, PhaseOf, SeenOf
  <2>1. ASSUME NEW w \in Workers, Step(w)
        PROVE  Atomic!Next \/ UNCHANGED <<file, survivors, calling>>
    BY <2>1, StepRefines DEF Atomic!Next
  <2>2. ASSUME NEW w \in Workers, Cancel(w)
        PROVE  UNCHANGED <<file, survivors, calling>>
    BY <2>2 DEF Cancel, calling, Call, Phase
  <2>3. ASSUME NEW w \in Workers, NEW kind \in Kinds, Start(w, kind)
        PROVE  Atomic!Call(w, kind)
    <3> DEFINE o == [Idle EXCEPT !.pc = "gate", !.kind = kind]
    <3>1. /\ o \in Op /\ o.pc = "gate" /\ o.kind = kind /\ o.out = "none"
      BY DEF Idle, Op, PCs, Contents
    <3>2. /\ op' = [op EXCEPT ![w] = o] /\ op[w] = Idle /\ UNCHANGED <<file, survivors>>
      BY <2>3 DEF Start, FileInv, Shaped, Shape
    <3>3. CallOf(op[w]) = Atomic!NoCall
      BY <3>2 DEF CallOf, PhaseOf, SeenOf, Idle, Atomic!NoCall
    <3> HIDE DEF o
    <3>4. calling[w] = Atomic!NoCall /\ calling' = [calling EXCEPT ![w] = CallOf(o)]
      BY <3>1, <3>2, <3>3, <2>0, CallMoves
    <3>5. CallOf(o) = [Atomic!NoCall EXCEPT !.kind = kind, !.phase = "called"]
      <4>1. CallOf(o) = [kind |-> kind, phase |-> "called", seen |-> Missing]
        BY <3>1, Phases DEF CallOf
      <4>2. [Atomic!NoCall EXCEPT !.kind = kind, !.phase = "called"]
               = [kind |-> kind, phase |-> "called", seen |-> Missing]
        <5> DEFINE d == [Atomic!NoCall EXCEPT !.kind = kind]
        <5>1. d = [kind |-> kind, phase |-> "idle", seen |-> Missing]
          BY DEF Atomic!NoCall
        <5> HIDE DEF d
        <5>2. [d EXCEPT !.phase = "called"] = [kind |-> kind, phase |-> "called", seen |-> Missing]
          BY <5>1
        <5> QED BY <5>2 DEF d
      <4> QED BY <4>1, <4>2
    <3>6. calling[w].phase = "idle"
      BY <3>4 DEF Atomic!NoCall
    <3> QED BY <3>2, <3>4, <3>5, <3>6 DEF Atomic!Call, calling
  <2>4. ASSUME NEW W \in SUBSET Workers, Die(W)
        PROVE  calling' = [v \in Workers |-> IF v \in W THEN Atomic!NoCall ELSE calling[v]]
    <3>1. \A v \in Workers : op'[v] = IF v \in W THEN Idle ELSE op[v]
      BY <2>4 DEF Die
    <3>2. CallOf(Idle) = Atomic!NoCall
      BY DEF CallOf, PhaseOf, SeenOf, Idle, Atomic!NoCall
    <3> QED BY <3>1, <3>2, <2>0 DEF calling
  <2>5. ASSUME NEW h \in Handles, Crash(h) PROVE Atomic!Next
    <3> DEFINE W == {w \in Workers : HandleOf[w] = h}
    <3>1. Atomic!Crash(W)
      BY <2>4, <2>5 DEF Crash, Atomic!Crash, calling
    <3> QED BY <3>1 DEF Atomic!Next
  <2>6. CASE PowerLoss
    <3>1. Atomic!PowerLoss
      BY <2>4, <2>6 DEF PowerLoss, Atomic!PowerLoss, calling
    <3> QED BY <3>1 DEF Atomic!Next
  <2>7. CASE UNCHANGED vars
    BY <2>7 DEF vars, calling, Call, Phase
  <2> QED BY <2>1, <2>2, <2>3, <2>5, <2>6, <2>7 DEF Next, Atomic!Next, Kinds, Atomic!Kinds
<1> QED BY <1>1, <1>2, FileInvariant, PTL DEF Spec, ImplementsAtomicStore, Atomic!Spec
=============================================================================

----------------------------- MODULE FileStorage -----------------------------
(***************************************************************************)
(* FileStorage (storage.go, storage_codec.go, storage_lock_unix.go,        *)
(* storage_sync_unix.go): goroutines of several processes load, transact,     *)
(* clear and delete one credential file, each through a FileStorage whose  *)
(* gate serialises its own users, under a lock file that serialises the    *)
(* processes.  Any call can fail, be canceled or die with its process, and *)
(* the power can fail.                                                     *)
(* The content of the file is the set of workers whose transaction is part *)
(* of it, which tells a lost update from a kept one.                       *)
(***************************************************************************)
EXTENDS Naturals

CONSTANTS
    Workers,    \* goroutines, one operation each at a time
    Handles,    \* FileStorage values on the same path
    HandleOf,   \* the FileStorage each worker uses
    Missing,    \* there is no file
    Torn,       \* a file whose data never reached the disk
    MaxCalls,   \* bound on the number of operations
    MayHang,    \* workers that may hang, in a system call or with their process
    None

ASSUME HandleAssumption == HandleOf \in [Workers -> Handles]
ASSUME MaxCallsAssumption == MaxCalls \in Nat
ASSUME MayHangAssumption == MayHang \subseteq Workers
ASSUME ContentAssumption ==
    /\ Missing # Torn
    /\ \A v \in SUBSET Workers : v # Missing /\ v # Torn
    /\ None \notin Workers

VARIABLES
    file,       \* what path names now
    survivors,  \* what path may name after a power loss
    gate,       \* the holder of each FileStorage's gate
    lock,       \* the holder of the lock file
    op,         \* each worker's operation: pc and locals
    canceled,   \* workers whose context is canceled
    temps,      \* workers whose temporary file their operation has yet to remove
    calls       \* number of operations so far

vars == <<file, survivors, gate, lock, op, canceled, temps, calls>>

Contents == {Missing} \cup SUBSET Workers
Kinds == {"load", "transact", "clear", "delete"}

\* FailTo, with the temporary file forgotten once it is written.
FailToForgetful ==
    [stat |-> "ungate", flock |-> "ungate", read |-> "unlock", temp |-> "unlock",
     write |-> "cleanup", sync |-> "unlock", close |-> "unlock", rename |-> "unlock",
     remove |-> "unlock", dirsync |-> "unlock"]

\* Where an operation goes when the step at its pc fails or finds the context
\* canceled: what it has opened, locked or created is undone in reverse order.
FailTo ==
    [stat |-> "ungate", flock |-> "ungate", read |-> "unlock", temp |-> "unlock",
     write |-> "cleanup", sync |-> "cleanup", close |-> "cleanup", rename |-> "cleanup",
     remove |-> "unlock", dirsync |-> "unlock"]

PCs == DOMAIN FailTo \cup {"idle", "gate", "cleanup", "unlock", "ungate"}
Op == [pc : PCs, kind : Kinds, val : Contents, flushed : BOOLEAN,
       out : {"none", "ok", "error"}]
Idle == [pc |-> "idle", kind |-> "load", val |-> Missing, flushed |-> FALSE, out |-> "none"]

TypeOK ==
    /\ file \in {Torn} \cup Contents
    /\ survivors \in SUBSET ({Torn} \cup Contents)
    /\ gate \in [Handles -> Workers \cup {None}]
    /\ lock \in Workers \cup {None}
    /\ op \in [Workers -> Op]
    /\ canceled \in SUBSET Workers
    /\ temps \in SUBSET Workers
    /\ calls \in 0 .. MaxCalls

Init ==
    /\ file \in {Missing, {}}
    /\ survivors = {file}
    /\ gate = [h \in Handles |-> None]
    /\ lock = None
    /\ op = [w \in Workers |-> Idle]
    /\ canceled = {}
    /\ temps = {}
    /\ calls = 0

-----------------------------------------------------------------------------
newStorageState(v) == IF v = Missing THEN {} ELSE v

Goto(w, l) == op' = [op EXCEPT ![w].pc = l]

\* The operation has its result; the deferred calls are still to run.
Finish(w, out, l) == op' = [op EXCEPT ![w].pc = l, ![w].out = out]

Done(w) ==
    /\ op' = [op EXCEPT ![w] = Idle]
    /\ canceled' = canceled \ {w}

Start(w, kind) ==
    /\ op[w].pc = "idle"
    /\ calls < MaxCalls
    /\ calls' = calls + 1
    /\ op' = [op EXCEPT ![w] = [Idle EXCEPT !.pc = "gate", !.kind = kind]]
    /\ UNCHANGED <<file, survivors, gate, lock, canceled, temps>>

\* storageGate.lock
GateLock(w) ==
    /\ op[w].pc = "gate"
    /\ gate[HandleOf[w]] = None
    /\ w \notin canceled
    /\ gate' = [gate EXCEPT ![HandleOf[w]] = w]
    /\ Goto(w, "stat")
    /\ UNCHANGED <<file, survivors, lock, canceled, temps, calls>>

GateCanceled(w) ==
    /\ op[w].pc = "gate"
    /\ w \in canceled
    /\ Done(w)
    /\ UNCHANGED <<file, survivors, gate, lock, temps, calls>>

\* The first Lstat.  A missing file answers everything but Transact, which
\* makes the directory and carries on.
Stat(w) ==
    /\ op[w].pc = "stat"
    /\ IF file = Missing /\ op[w].kind # "transact"
       THEN Finish(w, "ok", "ungate") ELSE Goto(w, "flock")
    /\ UNCHANGED <<file, survivors, gate, lock, canceled, temps, calls>>

\* Flock, with the lock file opened but not locked.
FlockOpens(w) ==
    /\ op[w].pc = "flock"
    /\ lock' = w
    /\ Goto(w, "read")
    /\ UNCHANGED <<file, survivors, gate, canceled, temps, calls>>

\* acquireStorageLock: flock, tried again until nobody holds it.
Flock(w) ==
    /\ op[w].pc = "flock"
    /\ lock = None
    /\ lock' = w
    /\ Goto(w, "read")
    /\ UNCHANGED <<file, survivors, gate, canceled, temps, calls>>

\* Does the callback leave a state that has to be written, or Delete find a
\* file to remove?
Changes(w) ==
    \/ op[w].kind = "transact" /\ w \notin newStorageState(file)
    \/ op[w].kind \in {"clear", "delete"} /\ file # Missing

\* readStorageState (for Delete the second Lstat) and the callback.
Read(w) ==
    /\ op[w].pc = "read"
    /\ w \notin canceled
    /\ CASE op[w].kind = "load" ->
              op' = [op EXCEPT ![w].pc = "unlock", ![w].out = "ok", ![w].val = file]
         [] op[w].kind # "load" /\ ~Changes(w) -> Finish(w, "ok", "unlock")
         [] op[w].kind = "transact" /\ Changes(w) ->
              op' = [op EXCEPT ![w].pc = "temp", ![w].val = newStorageState(file) \cup {w}]
         [] op[w].kind = "clear" /\ Changes(w) ->
              op' = [op EXCEPT ![w].pc = "temp", ![w].val = {}]
         [] op[w].kind = "delete" /\ Changes(w) -> Goto(w, "remove")
    /\ UNCHANGED <<file, survivors, gate, lock, canceled, temps, calls>>

-----------------------------------------------------------------------------
(* writeStorageState *)

CreateTemp(w) ==
    /\ op[w].pc = "temp"
    /\ w \notin canceled
    /\ temps' = temps \cup {w}
    /\ Goto(w, "write")
    /\ UNCHANGED <<file, survivors, gate, lock, canceled, calls>>

\* Write, with the file sync left out.
WriteUnsynced(w) ==
    /\ op[w].pc = "write"
    /\ w \notin canceled
    /\ Goto(w, "close")
    /\ UNCHANGED <<file, survivors, gate, lock, canceled, temps, calls>>

Write(w) ==
    /\ op[w].pc = "write"
    /\ w \notin canceled
    /\ Goto(w, "sync")
    /\ UNCHANGED <<file, survivors, gate, lock, canceled, temps, calls>>

Sync(w) ==
    /\ op[w].pc = "sync"
    /\ w \notin canceled
    /\ op' = [op EXCEPT ![w].pc = "close", ![w].flushed = TRUE]
    /\ UNCHANGED <<file, survivors, gate, lock, canceled, temps, calls>>

\* Close, then the last look at the destination and at the context.
Close(w) ==
    /\ op[w].pc = "close"
    /\ w \notin canceled
    /\ Goto(w, "rename")
    /\ UNCHANGED <<file, survivors, gate, lock, canceled, temps, calls>>

\* The directory entry changes at once; until the directory is synced a power
\* loss may bring the old one back, or find the new one without its data.
Replace(w, v) ==
    /\ file' = v
    /\ survivors' = survivors \cup {v} \cup (IF v = Missing \/ op[w].flushed THEN {} ELSE {Torn})

Rename(w) ==
    /\ op[w].pc = "rename"
    /\ Replace(w, op[w].val)
    /\ temps' = temps \ {w}
    /\ Goto(w, "dirsync")
    /\ UNCHANGED <<gate, lock, canceled, calls>>

\* Delete
Remove(w) ==
    /\ op[w].pc = "remove"
    /\ Replace(w, Missing)
    /\ Goto(w, "dirsync")
    /\ UNCHANGED <<gate, lock, canceled, temps, calls>>

\* syncDirectory
SyncDirectory(w) ==
    /\ op[w].pc = "dirsync"
    /\ survivors' = {file} \cup (survivors \cap {Torn})
    /\ Finish(w, "ok", "unlock")
    /\ UNCHANGED <<file, gate, lock, canceled, temps, calls>>

\* Fails, with the directory sync's error ignored.
FailsQuietly(w) ==
    /\ op[w].pc \in DOMAIN FailTo
    /\ Finish(w, IF op[w].pc = "dirsync" THEN "ok" ELSE "error", FailTo[op[w].pc])
    /\ UNCHANGED <<file, survivors, gate, lock, canceled, temps, calls>>

\* Fails, with the wait for the lock file deaf to the context.
FailsDeaf(w) ==
    /\ op[w].pc \in DOMAIN FailTo \ {"flock"}
    /\ Finish(w, "error", FailTo[op[w].pc])
    /\ UNCHANGED <<file, survivors, gate, lock, canceled, temps, calls>>

\* The step at pc fails, or its context check does.
Fails(w) ==
    /\ op[w].pc \in DOMAIN FailTo
    /\ Finish(w, "error", FailTo[op[w].pc])
    /\ UNCHANGED <<file, survivors, gate, lock, canceled, temps, calls>>

\* cleanup, and the deferred second attempt at it: a file that neither can remove
\* stays, and the error says so.
Cleanup(w) ==
    /\ op[w].pc = "cleanup"
    /\ temps' = temps \ {w}
    /\ Goto(w, "unlock")
    /\ UNCHANGED <<file, survivors, gate, lock, canceled, calls>>

-----------------------------------------------------------------------------
(* The deferred calls *)

\* LockClose, with the lock never released.
LockCloseLeaks(w) ==
    /\ op[w].pc = "unlock"
    /\ Goto(w, "ungate")
    /\ UNCHANGED <<file, survivors, gate, lock, canceled, temps, calls>>

LockClose(w) ==
    /\ op[w].pc = "unlock"
    /\ lock' = IF lock = w THEN None ELSE lock
    /\ Goto(w, "ungate")
    /\ UNCHANGED <<file, survivors, gate, canceled, temps, calls>>

GateUnlock(w) ==
    /\ op[w].pc = "ungate"
    /\ gate' = [gate EXCEPT ![HandleOf[w]] = None]
    /\ Done(w)
    /\ UNCHANGED <<file, survivors, lock, temps, calls>>

-----------------------------------------------------------------------------
(* The environment *)

Cancel(w) ==
    /\ op[w].pc # "idle"
    /\ w \notin canceled
    /\ canceled' = canceled \cup {w}
    /\ UNCHANGED <<file, survivors, gate, lock, op, temps, calls>>

\* The workers W die: the kernel drops their locks and nobody removes their
\* temporary files.
Die(W) ==
    /\ op' = [w \in Workers |-> IF w \in W THEN Idle ELSE op[w]]
    /\ canceled' = canceled \ W
    /\ gate' = [h \in Handles |-> IF gate[h] \in W THEN None ELSE gate[h]]
    /\ lock' = IF lock \in W THEN None ELSE lock
    /\ temps' = temps \ W
    /\ UNCHANGED calls

\* The process of a FileStorage dies.
Crash(h) ==
    /\ Die({w \in Workers : HandleOf[w] = h})
    /\ UNCHANGED <<file, survivors>>

PowerLoss ==
    /\ file' \in survivors
    /\ survivors' = {file'}
    /\ Die(Workers)

-----------------------------------------------------------------------------
Step(w) ==
    \/ GateLock(w) \/ GateCanceled(w) \/ Stat(w) \/ Flock(w) \/ Read(w)
    \/ CreateTemp(w) \/ Write(w) \/ Sync(w) \/ Close(w) \/ Rename(w) \/ Remove(w)
    \/ SyncDirectory(w) \/ Fails(w)
    \/ Cleanup(w) \/ LockClose(w) \/ GateUnlock(w)

Next ==
    \/ \E w \in Workers : Step(w) \/ Cancel(w) \/ \E kind \in Kinds : Start(w, kind)
    \/ \E h \in Handles : Crash(h)
    \/ PowerLoss

Spec == Init /\ [][Next]_vars

\* The wait for the lock file polls, for as long as somebody holds it and the
\* context lives; that it might fail meanwhile is no promise that it will.
LockWait(w) == op[w].pc = "flock" /\ lock # None /\ w \notin canceled

\* A canceled operation keeps running; without a cancellation, those of MayHang
\* may stop for ever and keep the gate or the lock file they hold.
Runs(w) == w \in canceled \/ (w \notin MayHang /\ ~LockWait(w))

FairSpec == Spec /\ \A w \in Workers : WF_vars(Runs(w) /\ Step(w))

-----------------------------------------------------------------------------
(* Properties *)

\* The file is always one that was written whole: a reader, even after a power
\* loss, never finds one whose rename overtook its data.
NeverTorn == Torn \notin survivors \cup {file}

\* Operations of different processes are never both between acquireStorageLock
\* and Close: what one has read stays true until it has written.
Locked == {"read", "temp", "write", "sync", "close", "rename", "remove", "dirsync",
           "cleanup", "unlock"}
LockExclusive ==
    \A v, w \in Workers : op[v].pc \in Locked /\ op[w].pc \in Locked => v = w

\* No operation ends without having renamed its temporary credential file or
\* tried to remove it, whatever failed and wherever the cancellation came.
TempsRemoved ==
    \A w \in temps : op[w].pc \in {"write", "sync", "close", "rename", "cleanup"}

\* A call's phase in AtomicStore: called until the directory entry changes.
Phase(w) ==
    CASE op[w].out = "ok" -> "succeeded"
      [] op[w].out = "error" -> "failed"
      [] op[w].pc = "dirsync" -> "applied"
      [] op[w].pc = "idle" -> "idle"
      [] OTHER -> "called"

Call(w) ==
    [kind |-> op[w].kind, phase |-> Phase(w),
     seen |-> IF op[w].kind = "load" /\ op[w].out = "ok" THEN op[w].val ELSE Missing]

Atomic == INSTANCE AtomicStore WITH store <- file, call <- [w \in Workers |-> Call(w)]

\* FileStorage is an atomic store: no update is lost or seen in part, an error
\* before the rename changes nothing, and a change survives a power loss once the
\* operation that made it has succeeded (one that finds it made already vouches
\* for nothing: AckedDurable).
ImplementsAtomicStore == Atomic!Spec

\* What the comment on FileStorage says of every write: once Transact has
\* returned nil, its change is durable.
AckedDurable ==
    \A w \in Workers :
        op[w].pc = "unlock" /\ op[w].kind = "transact" /\ op[w].out = "ok"
            => \A v \in survivors : w \in newStorageState(v)

\* A canceled operation ends, wherever the cancellation finds it, even if the
\* holder of the gate or of the lock file never lets go.
CanceledEnds == \A w \in Workers : w \in canceled ~> op[w].pc = "idle"

\* The lock never stays with an operation that does not hang.
LockPasses == \A w \in Workers \ MayHang : lock = w ~> lock # w
=============================================================================

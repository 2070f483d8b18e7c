---------------------------- MODULE AuthStorage ----------------------------
(***************************************************************************)
(* What an AuthStorage holds and what its operations do to it, each as one *)
(* atomic change (storage.go, storage_codec.go, memory_storage.go).  How   *)
(* FileStorage makes them atomic is a matter of its own.                   *)
(***************************************************************************)
EXTENDS Naturals

CONSTANTS
    MaxUint64,   \* the largest generation
    Kind,        \* "file" for FileStorage, "memory" for MemoryStorage
    None         \* nil

ASSUME MaxUint64Assumption == MaxUint64 \in Nat \ {0}
ASSUME KindAssumption == Kind \in {"file", "memory"}

\* Outcomes of an operation: done; an error and nothing changed; an error
\* although the new state is in place (the directory sync after the rename).
Outcomes == IF Kind = "file" THEN {"ok", "unchanged", "late"} ELSE {"ok", "unchanged"}

Generations == 0 .. MaxUint64

nextGeneration(g) == IF g = MaxUint64 THEN 1 ELSE g + 1

\* A missing expires_at is computed from expires_in.
prepareAuth(auth) == IF auth = None THEN None ELSE [auth EXCEPT !.dated = TRUE]

\* Every commit writes the complete, validated and normalised state.
prepareStorageSnapshot(s) == [s EXCEPT !.auth = prepareAuth(@)]

\* No credential file, or a new MemoryStorage.
newStorageState == [auth |-> None, pending |-> None, gen |-> 0]

\* MemoryStorage advances the generation.  FileStorage leaves a missing file
\* alone, and otherwise drops every key, the generation among them, before it
\* bumps what is then generation zero.
Cleared(s) ==
    IF Kind = "memory" THEN [newStorageState EXCEPT !.gen = nextGeneration(s.gen)]
    ELSE IF s = newStorageState THEN s
    ELSE [newStorageState EXCEPT !.gen = nextGeneration(0)]

\* FileStorage.Delete removes the file.
Deleted(s) == newStorageState
=============================================================================

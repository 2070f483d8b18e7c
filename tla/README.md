# A TLA+ verification of stripelink

stripelink is a Go client for the Link API. Its difficult parts are the ones that
keep an OAuth session alive: a shared, automatically refreshed access token, requests
that are replayed when it is refused, a resumable device login, a credential file that
several processes write, and a shared signature cache. This directory models them in TLA+, checks the models
with TLC on small instances and proves the safety properties that hold with TLAPS for instances of
any size.

## 1. The system

| Component | Source | State | Operations |
|---|---|---|---|
| `tokenProvider` | `tokens.go` | `inflight`, the decision gate, `refreshCall`s | `token`, `waitForRefresh`, `runRefresh`, `finishRefresh` |
| `AuthResource` | `auth.go`, `auth_tokens.go` | none of its own; the stored session | `InitiateDeviceAuth`, `PollDeviceAuth(Once)`, `ResumeDeviceAuth`, `RefreshToken`, `RevokeToken`, `Logout` |
| `AuthStorage`, `MemoryStorage` | `storage.go`, `memory_storage.go` | auth, pending flow, generation | `Load`, `Transact`, `Clear` |
| `FileStorage` | `storage.go`, `storage_codec.go`, `storage_lock_unix.go`, `storage_sync_unix.go` | the credential file, the lock file, a gate, temporary files | the same and `Delete` |
| `WebBotAuthResource` | `web_bot_auth.go` | signature cache, `inflight` per host | `SignURL` |
| request engine `core` | `transport.go` | the requests being executed | `do`, `doAttempt`, `doJSON` |
| resources | `spend_requests.go`, `payment_methods.go`, ... | none | one request each |
| `Client` | `client.go` | configuration | `NewClient` |
| example program | `examples/testmode-spend-request` | one spend request | a sequential script |

**Interaction.** Every authenticated request asks the token source of its Client;
for a managed session that is `tokenProvider.token`. It reads storage and, when the
token is due or was rejected with a 401, starts one refresh goroutine that calls the
auth server and commits the answer in one storage transaction. The device flow and
`Logout` change the same stored session. Several Clients, in one or several processes,
may share a storage; nothing but the storage coordinates them.

**What is hard.** Network round trips between reading the session and changing it;
single-use refresh tokens, so that a lost or repeated refresh ends the session;
waiters that are canceled while shared work goes on; delayed 401s; processes that die
between two steps; files replaced by several processes; power loss; write errors
after the change is already visible. `PROJECT.json` lists each hazard at its line with
the properties that cover it.

**What makes each part correct.**

* `tokenProvider`: one refresh at a time; a token is used only once it is stored; a rotation the server accepted is not dropped;
  an ended session does not come back; every call returns.
* request engine: a mutation is sent at most once; the replay of a read carries another
  token than the refused one; a refresh token is spent only for a token that was refused
  or is due.
* device flow: a late response of a superseded flow has no effect; a resumable flow is
  lost only for a cause; a poll ends. `Logout`: a revoked token leaves storage.
* `FileStorage`: an atomic, durable store for all cooperating processes.
* `WebBotAuthResource`: one live fetch per host; cancellation never spreads; the cache
  holds what is current.
* poll loop and example program: the server gets the pause it asked for; the program
  ends, and cancels its spend request.

## 2. Modules

| Module | Models |
|---|---|
| `TokenProvider` | `tokenProvider` of any number of Clients over one storage |
| `TokenProviderProofs` | theorems about `TokenProvider`: the single flight, the session |
| `RotationProofs` (extends `TokenProviderProofs`) | which generations a provider hands out and rotates |
| `RequestEngine` (extends `TokenProvider`) | `core.do` of any number of Clients, driving their providers |
| `RequestEngineProofs` | the engine implements the provider specification; how often requests are sent, why tokens are rotated |
| `ReplayProofs` (extends both) | which tokens requests and their replays carry |
| `AuthStorage` | the stored state and what the operations of either storage do to it |
| `DeviceAuth` (extends `AuthStorage`) | device flow and logout over one storage |
| `DeviceAuthProofs` | theorems about `DeviceAuth` |
| `AtomicStore` | abstract specification of a credential store |
| `FileStorage` | `FileStorage` step by step; refines `AtomicStore` |
| `FileStorageProofs` | theorems about `FileStorage`, the refinement among them |
| `WebBotAuth` | `SignURL` |
| `WebBotAuthProofs` | theorems about `WebBotAuth` |
| `DevicePoll` | the pace of `PollDeviceAuth`, in int64 durations |
| `SpendRequests` | what the operations of `SpendRequestsResource` do to a spend request |
| `TestmodeSpendRequest` (extends both) | the example program |
| `TestmodeSpendRequestProofs` | theorems about the program and the polling loop |
| `MC*` | constants and symmetry sets of the TLC instances |

The models meet at the storage operations. `FileStorage` shows that they are atomic,
with three outcomes: done, an error and nothing changed, an error although the change
is visible. `TokenProvider` and `DeviceAuth` use them as single steps with exactly
these outcomes.

### TokenProvider

One action per segment of `token()` between two points where another goroutine can
interfere: `Token` (the first look at `inflight`), `LockDecision` / `LockCanceled`,
`CheckInflight`, `Load` / `LoadFails`, `DecideFromStorage` / `DecideRefresh`, then
`WaitDone` / `WaitCanceled`. The refresh goroutine goes through `RefreshSucceeds`,
`RefreshFails` or `RefreshResponseLost`, then `Reload` or one of the four `Commit…`
actions, then `FinishRefresh`. The environment cancels contexts, logs in and out, runs
other transactions and kills processes.

A generation of credentials (access and refresh token) is one model value. What is
kept besides is whether `expires_at` is present, because `sameAuthTokens` compares it
and every transaction fills it in. Whether the clock has reached the expiry is a
free choice at each decision. A forced request always names the token it was last
given: that is how the request engine uses `token()`.

History variables: `redeemed` (refreshes the server accepted), `unsaved` (rotations
lost with a response, a write or a process), `retired` (generations that were stored),
`origin` and `session` (which login a generation descends from).

### RequestEngine

The callers of `TokenProvider` are requests here. `Do` starts the request of a resource
method (reads may be replayed, mutations not) and asks the Client's token source:
`tokenProvider.token` (managed), a fixed token (static) or a function of the application,
which returns a token or an error (custom). `ProviderStep` is a step of `token()` for the
request; when it returns, the same step sends the request (`Supplied`) or ends it.
`Finished` is every answer but a 401, and every error; `Unauthorized` is a 401, which ends
the last attempt and otherwise asks for a token again with the refused one as
`RejectedToken`. Whether a token is due is no longer a free choice: `expired` holds the
generations whose refresh time has passed (`Lapse`). `refused` remembers the 401s. The
refresh goroutines, logins, logouts and crashes are those of `TokenProvider`, conjoined
with what they do to the requests.

A 401 may come at any time for any token: the API may refuse what it accepted before. A
request whose context is canceled may still be answered.

### DeviceAuth

`op[f]` holds a goroutine's position and locals. `Reserve`, `CodeIssued`, `Persist` are
the three parts of `InitiateDeviceAuth`; `Wait`, `PollPending`, `PollGranted`,
`PollTerminal`, `PollFails`, `CommitLogin`, `Terminal`, `Expire` are the poll loop with
`PollDeviceAuthOnce` inside; `Resume` is `ResumeDeviceAuth` up to its poll; `LogoutLoad`,
`RevokeSucceeds` / `RevokeFails`, `LogoutClear` are `Logout`. A code has expired or not;
the pace of the loop is left to `DevicePoll`. `Kind` selects the storage: `Clear` of `FileStorage` restarts
the generation, that of `MemoryStorage` advances it.

### FileStorage and AtomicStore

Each operation goes gate, `Lstat`, lock file, read and callback, temporary file, write,
sync, close, rename, directory sync, and back through the deferred calls. `Fails` lets
any step fail or find its context canceled and sends the operation where the code's
error path does (`FailTo`). The content of the file is the set of workers whose
transaction is part of it. `survivors` is the set of contents a power loss can leave:
a rename or removal adds one, a directory sync leaves the visible one, and a rename of
unsynced data adds `Torn`.

`AtomicStore` is the promise: an operation takes effect at one instant or not at all,
and success after a change of its own means that the change survives. An operation that
found nothing to change may succeed although what it found is not yet durable; the run
`FileStorage_retry` is about that gap. The refinement mapping takes the
visible file for the store and reads a call's phase off its position: called until the
directory entry changes, applied until the directory is synced.

### WebBotAuth

`SignURL` is split where the clock is read and where `mu` is acquired; everything under
`mu` is one step. A block is named by the call that fetched it. Time is a counter; the
delay between reading the clock and acquiring `mu` is at most `MaxDelay <= Buffer`.

### DevicePoll, SpendRequests, TestmodeSpendRequest

`DevicePoll` is the loop of `PollDeviceAuth` against a clock: `SetTimer`, `TimerFires` or
`TimerCanceled`, then an answer of the server. Durations are two's complement numbers
(`Wrap`) with a small `MaxInt`: the interval the server sends is multiplied by `Second` and
may overflow, as in the code.

`SpendRequests` gives each mutation three outcomes: executed and reported, executed but
the response lost or malformed, refused. By `SentOnce` of the request engine the server
executes it at most once. The life cycle at the server (`Decides`) and other programs of
the account (`Others`) are the environment.

`TestmodeSpendRequest` follows `main`: flags and Client, device login if asked for, the list
of payment methods, `Create`, the wait for approval with its ticker and context, and the
deferred `Cancel`, which runs only if `main` returns: `fatalf` exits the process.

## 3. Runs

Passing runs (distinct states in parentheses):

| Run | Shows |
|---|---|
| `RequestEngine_shared` (2.5 M) | two requests of one Client, three generations, each token source: `SentOnce`, `ReplayWithAnotherToken`, `RotationJustified`, `SingleFlight`, `DecisionExclusive`, `NoSecondRotation`, `ReturnedWasStored`, `SessionNotResurrected`, `RotationAccounted`, `EngineTypeOK` |
| `TokenProvider_live` (236 k) | files with and without `expires_at`: `Answered`, `RefreshEnds` |
| `DeviceAuth_memory` (1.3 M) | `MemoryStorage`: `PendingFromNewest`, `SupersededByOthers`, `NoStaleLogin`, `FailedInitiationKeepsPending` |
| `DeviceAuth_file` (355 k) | `FileStorage` with failing writes and undated files: `PendingLostForCause`, `RevokedOnItsWayOut`, `PollEnds` |
| `FileStorage_unix` (35 k) | `ImplementsAtomicStore`, `LockExclusive`, `NeverTorn`, `TempsRemoved`, `LockPasses`; `CanceledEnds` although two of three goroutines may hang for ever |
| `WebBotAuth_host` (466 k) | three callers of one host: `OneLiveFetch`, `WaitersExact`, `NobodyWaitsForCanceled`, `AbandonedNotCached`, `CacheKeptWhileFresh`, `ServedUnexpired`, `WaiterReturns`, `AbandonedWorkEnds` |
| `TestmodeSpendRequest` (849 k) | the example program: `PollsSpaced`, `ProgramEnds` |

Runs that refute what a comment or document says (each is a finding in `PROJECT.json`):

| Run | Shows |
|---|---|
| `TokenProvider_legacy` | with an undated token in the file, another transaction during a refresh makes `runRefresh` drop the rotated tokens |
| `DeviceAuth_late` | on a `FileStorage`, an initiation that reports a failed directory sync has already replaced the previous resumable flow |
| `DeviceAuth_logout` | a refresh between `Logout`'s load and clear leaves the newer token unrevoked |
| `FileStorage_retry` | `Transact` repeated after a failed directory sync succeeds without durability |
| `TestmodeSpendRequest_exit` | the example program exits with a spend request that is still open |

The passing runs of the same properties exclude what the findings are about and nothing
else: the safety properties of `TokenProvider` and `RequestEngine` are checked for files
with `expires_at` (`ReplayWithAnotherToken` and `NoSecondRotation` fail without it for the
same reason as `RotationAccounted`), and `FailedInitiationKeepsPending` for `MemoryStorage`,
whose writes fail before they change anything or not at all. `PendingFromNewest` is checked for
`MemoryStorage` too: `Clear` and `Delete` of `FileStorage` restart the generation
(`storage.go:300`), so that a response reserved before a wipe can find its number current
again and become pending; TLC shows it when the property is checked with `Kind = "file"`.
`SupersededByOthers` too is checked for `MemoryStorage` only: with an undated file the reservation's own
transaction changes what the commit compares, and an initiation nobody overtook is
refused. The theorems have the same hypotheses, and only where they are needed (section 4).

**Bounds.** Two callers of one provider show every race of the single flight (one
publishes, one joins, is canceled, or decides next); three generations let a refresh be
overtaken by another generation and that one be refreshed again. The runs have one Client,
whose refreshes meet the logins, logouts and transactions of other users of the storage;
that Clients which refresh the same generation do no harm to each other is proved, for any
number of them (section 4). `MaxLapses` lets one generation reach its refresh time, next to any
number of 401s. In `DeviceAuth` two goroutines, two codes and two credentials,
with at most three reservations and wipes (`MaxTurns`), let a flow be superseded, wiped
and repeated. In `FileStorage` three goroutines, two of
which share a gate, run any two operations (`MaxCalls`), side by side or one after the
other: a holder and a waiter at its gate or at the lock, a reader after a failure, death
or power loss. Two of them, one at each gate, may hang (`MayHang`). In `WebBotAuth` three
callers and two calls let an abandoned call and its successor, with its waiters, coexist;
`MaxTime` lets a block expire and be replaced. `MaxUint64` is large enough that generations
do not wrap. In `TestmodeSpendRequest` a second is three ticks and `MaxInt` is 63: of the
intervals 1, 2, 22 and 43 seconds the last two overflow, once to a negative and once to a
short wait; `MaxAsked` lets the server ask twice to slow down; `Timeout` comes before
or after the expiry of the code, and `MaxTime` after both. As in the code, where 2^63 ns are
292 years, a Duration holds every time the clock shows (`ClockAssumption`).

`PollsSpaced` is about intervals whose nanoseconds fit an int64. The code does not check
that they do (`auth.go:111`, `226-230`): a larger one wraps around in the model as in the
code, and the loop then polls too soon or without pause.

`CanceledOnExit` is what `main.go:3-5` says of the program: it "cancels the request on
exit". `fatalf` skips the deferred cancellation, so that a failure or timeout of the wait
leaves the request open; a lost response of `Create` leaves one whose id nobody knows; and a
failed `Cancel` is only a warning.

**Deadlock** is checked in every run but those of `TestmodeSpendRequest`, whose program ends.

**Fairness.** `TokenProvider`: goroutines are scheduled (weak fairness of every caller
and refresh); a gate is a channel whose receivers queue in order (strong fairness of
`LockDecision`); a refresh runs under a 30-second context (`detachedAuthContext`), so it
ends; a `Load` is taken to end, which on a `FileStorage` presupposes that whoever holds the
lock file lets go of it. `DeviceAuth`: timers fire and requests end at the latest at the deadline
`PollDeviceAuth` gives them; the clock reaches every expiry. `FileStorage`:
goroutines are scheduled (`Runs`), but the wait for the lock file polls for ever: that it
may fail is no promise that it will, and nothing is claimed of an operation that is neither
canceled nor granted the lock. Workers in `MayHang` may stop anywhere and keep gate and lock,
unless they are canceled; `CanceledEnds` holds in spite of them.
`WebBotAuth`: goroutines are scheduled and a canceled HTTP request ends; the Client sets
no HTTP timeout, so nothing bounds a fetch that nobody cancels. `AbandonedWorkEnds` says that
a fetch without waiters ends, which takes the cancellation by the last one to leave.
`TestmodeSpendRequest`: the program takes steps (its requests run under contexts with a
deadline) and time passes; nothing is assumed of the user, the server or other programs.
`RequestEngine` claims no liveness of its own: an exchange is not bounded by the Client, and
that `token()` returns is shown by `TokenProvider_live`.

Behind each operator that models code stand the variants a slip in the code would
produce (`MaximumAttemptsAlways`, `CommitBlind`, `WriteUnsynced`, ...); `PROJECT.json` pairs each
property with one that breaks it.

## 4. Proofs

Every invariant and every action property that a passing run checks, and the refinement
of `AtomicStore`, is also a theorem; so is the type invariant of each component
(`TypeCorrect`), on which the others rest. A theorem holds for any number of Clients, callers,
generations, processes, codes and fetches. Liveness is only model-checked: it rests on
fairness and `ENABLED`, which are out of the prover's reach.

Each component has one inductive invariant (or a few, stacked), and its proof has the same
form: an operator says what a step may do as far as the invariant can tell (`OnlyWaitersChange`,
`Move`, `FlowMove`, `RequestMove`, `Harmless`), lemmas show action by action that every
step is of that kind, and that a step of that kind keeps each conjunct.

The proofs use the assumptions stated with the constants, which TLC evaluates in the
runs: `None` is none of the other values, `ProviderOf` is a function, the configured token
is none of the issued ones, the callers of `WebBotAuth` are finitely many (they are
counted), `MaxDelay` is within the buffer, and a Duration holds every time the clock shows.
Two further hypotheses stand in the theorems that need them:

* `~LegacyFile` (no credentials without `expires_at`) in `RotationAccountedHolds`,
  `NoSecondRotationHolds`, `ReplayWithAnotherTokenHolds`, `EngineNoSecondRotation` and
  `SupersededByOthersHolds`. With such a file `sameAuthTokens` tells a generation from its
  dated copy and the properties fail (run `TokenProvider_legacy`).
* `Kind = "memory"` in `FailedInitiationKeepsPendingHolds` (run `DeviceAuth_late`), and with
  `[]NoWrap` in `PendingFromNewestHolds`: on a `FileStorage` `Clear` restarts the
  generation, and one that has gone round all of uint64 may meet its old value.

**TokenProvider** (`TokenProviderProofs`): `TypeCorrect`, `SingleFlightHolds`,
`DecisionExclusiveHolds`, `SessionNotResurrectedHolds`. `SingleFlight` is not inductive:
whether a new refresh may be published depends on who holds the decision gate, on what
that caller has seen and on what `inflight` points to. `StructInv` adds that exactly the
callers inside the decision hold the gate of their provider (`GateShape`), that `inflight`
points to a running call of its provider (`InflightShape`), that unused and finished calls
carry nothing (`CallShape`) and that waiters wait for a call of their own provider
(`WaitShape`). `SessionNotResurrected` further needs to know where a refresh's tokens descend
from: `SessionInv` says of every running call that its source and its refreshed generation
have the same origin (`Lineage`) and that issued generations have one. A commit replaces the
stored generation only if it equals the source, so the origin of what is stored does not
change.

**Rotation** (`RotationProofs`), on top of `StructInv`:

* `ReturnedWasStoredHolds`. `StoredInv` says that whatever callers and refreshes hold has
  been stored (`Kept`), that a generation is stored once and one that waits for its commit
  not yet (`Fresh`), and that a caller holds what it has read only inside the decision
  (`SnapShape`).
* `RotationAccountedHolds`, `NoSecondRotationHolds`. `RotationInv` says of each provider that
  what it redeemed has left storage, is lost, or is being committed by that provider
  (`AccountedByOwner`), and that a generation it redeemed is not read again (`NotReadAgain`).
  The argument: while a provider commits it has `inflight` set, so nobody of it is between
  `CheckInflight` and the decision; and when its commit is over, the source is no longer
  stored. That last step is where `expires_at` matters (`Dated`): the commit drops its
  outcome if the stored value differs from the source, and only for dated credentials does
  this mean that the source is gone.
* `Newest`, also part of `RotationInv`, is for the replay: while a provider decides or refreshes, its
  callers hold nothing newer than the generation it works from, so the outcome of the
  refresh is new to all of them, those included that join it later with a rejected token
  of their own.

**RequestEngine** (`RequestEngineProofs`, `ReplayProofs`):

* `EngineImplementsProvider`: `EngineSpec => Spec`. Every step of the engine is a step of
  the providers or leaves them alone, action by action; so what is proved of the providers
  holds under it (`EngineSingleFlight`, `EngineSessionNotResurrected`, `EngineNoSecondRotation`,
  `EngineReturnedWasStored`).
* `RotationJustifiedHolds`. `JustInv` adds that forced callers name refused generations
  (`ForcedForRefused`) and that a refresh at the server was started for a generation that
  was refused or due (`StartedForReason`).
* `SentOnceHolds`. `SendInv` relates the attempt counter to what was sent: a request inside
  `token()` is between two attempts, an exchange belongs to the current one, and the counter
  stays within `maximumAttempts`.
* `EngineTypeCorrect`. That only issued generations expire or are refused needs `StoredInv` and
  that the tokens of requests are issued ones (`TokenInv`).
* `ReplayWithAnotherTokenHolds`. `ReplayInv` says that a refused read asks to replace the very
  token it was refused with; `AnotherToken` shows from `Newest` that no return of `token()`, from
  storage or from a refresh, hands a rejected token back.

**FileStorage** (`FileStorageProofs`): `TypeCorrect`, `NeverTornHolds`, `LockExclusiveHolds`,
`TempsRemovedHolds`, `FileStorageImplementsAtomicStore`. `FileInv` says that whoever is
between `flock` and `Close` owns the lock (`LockHeld`) and, for each position of an
operation, what it has read, synced and decided (`Shape`): what a writer computed from the
file is still true of the file when it renames, because only the owner of the lock changes
it. The refinement maps every step to a step of `AtomicStore` or to a stutter, under `FileInv`;
the outcome recorded on an error path (`Shape`'s second conjunct) makes the phase of a call
unambiguous.

**WebBotAuth** (`WebBotAuthProofs`): `TypeCorrect`, `WaitersExactHolds`,
`NobodyWaitsForCanceledHolds`, `OneLiveFetchHolds`, `AbandonedNotCachedHolds`,
`CacheKeptWhileFreshHolds`, `ServedUnexpiredHolds`. `WebInv` adds to the properties that the
call in flight is live and nothing is cached beside it (`InflightShape`), that a live call
that was not canceled is the one in flight (`LiveInflight`), where cached blocks come from
(`CacheShape`) and how old a caller's reading of the clock is (`CallerShape`). The count of
waiters is a cardinality: each step moves one caller into or out of the set.

**DeviceAuth** (`DeviceAuthProofs`): `TypeCorrect`, `RevokedOnItsWayOutHolds`,
`NoStaleLoginHolds`, `PendingLostForCauseHolds`, `FailedInitiationKeepsPendingHolds`,
`SupersededByOthersHolds`, `PendingFromNewestHolds`. `AuthInv` says what each flow carries at each position
(`FlowShape`) and that codes and tokens are fresh: one on its way to storage was never
there and belongs to one flow (`CodeFresh`, `TokenFresh`). So a code that was dropped cannot
become pending again, and a token that a `Logout` revokes is not about to be stored.
`PendingLostForCause` covers replacements: the flow that replaces another one still has its
reservation, on either storage, and its code was never pending before.
`StillReserved` and `OvertakenShows` relate a reservation to what storage shows: nobody
overtook it, so generation and session are as it left them; or somebody did, and one of
the two tells.

**Example program and polling loop** (`TestmodeSpendRequestProofs`): `TypeCorrect`,
`PollsSpacedHolds`. `PaceInv` says that the interval is exactly what the
server has asked for. It could only wrap by a `slow_down`, and that answers a poll which
has waited for the interval: the interval is then at most what the clock shows, and five
seconds more still fit a Duration (`WrapRange`).

**Only model-checked**: `Answered`, `RefreshEnds`, `PollEnds`, `CanceledEnds`, `LockPasses`,
`WaiterReturns`, `AbandonedWorkEnds` and `ProgramEnds`, which are liveness properties, and the
counterexamples behind the findings.

## 5. Not modelled

The fallbacks for platforms without flock and directory sync (`storage_lock_other.go`,
`storage_sync_other.go`), where processes do not coordinate; JSON decoding, unknown keys and the size bound of the credential file; file modes and
symbolic links (any such refusal is a failing step); the directory above the credential
file; hostname canonicalisation; redaction of diagnostics and formatting of the wire types;
option defaulting and URL validation of `NewClient`; what the resources check before and
decode after their request, beyond whether it succeeds. `link-cli`, which ignores the lock file, is outside.

## 6. Plan

What the development could still add:

1. Weaker hypotheses: how much of `NoSecondRotation` and `ReplayWithAnotherToken` survives
   a file without `expires_at` as long as no other transaction runs during a refresh, and
   `PendingFromNewest` on a `FileStorage` that is not wiped.
2. The safety half of the liveness arguments (nobody waits for a call that has ended, the
   holder of a gate or lock has a step to take), as invariants.

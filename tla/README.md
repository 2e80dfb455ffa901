# A verification development of rcodex

rcodex lets the stock Codex terminal UI work on a remote host: it enrolls this
machine as a controller, keeps the session's tokens fresh, and bridges the
local Codex client and the host's app server through a relay. This directory
holds TLA+ models of its parts, TLC runs that check them on small instances and
TLAPS proofs of what holds for every instance. Paths below are relative to the
repository.

- [1. The system](#1-the-system)
- [2. The modules](#2-the-modules)
- [3. The runs](#3-the-runs)
- [4. What is proved](#4-what-is-proved)
- [5. Where the code and its words disagree](#5-where-the-code-and-its-words-disagree)
- [6. What is not modelled](#6-what-is-not-modelled)
- [7. Plan](#7-plan)

To check: `tlc -config X.cfg M` for each run of `PROJECT.json`, `tlapm M.tla` for
each proof module.

## 1. The system

| part | state | operations | talks to |
|---|---|---|---|
| bridge: `transport.rs` `RelayTransport` | stream id, next client sequence, pending request ids, last server sequence | forward a local message, observe a relay frame, close | local Codex (websocket or stdio), relay websocket, reassembler |
| reassembler: `transport.rs` `ServerMessageReassembler` | table of assemblies, byte counter | `observe` | called by the bridge |
| segmentation: `transport.rs` `segment_client_message` | none across calls | split one message | called by the bridge |
| updates: `update.rs`, `main.rs` | executable, `rcodex.previous`, `update.json`, lock file | install, automatic update, rollback, enable, disable, sessions | GitHub, other rcodex processes |
| authentication: `auth.rs`, `api.rs` | `auth.json`, shared with the stock Codex | API call with retries, token refresh | authorization server, relay's API |
| identity: `controller.rs`, `state.rs`, `device_key.rs` | `state.json`, Keychain keys, registrations at the server | enroll, refresh a session, unenroll | API, Keychain, browser |
| broker: `broker.rs`, `main.rs` | `initialized`, the request ids used | handshake, pair, list hosts, open | client on stdin/stdout, API, bridge |
| step-up authorization: `oauth.rs` | one callback listener | wait for the browser | browser, authorization server |
| launch: `main.rs` `run_remote_tui`, `shim.rs` | session, host list, session lock, TUI process, one loopback listener | list and select a host, connect, launch the TUI, bridge it, end | API, relay, stock Codex TUI, other local programs, other rcodex processes |
| payloads: `protocol.rs`, `relay.rs`; versions: `compatibility.rs` | none | build, validate, compare | - |
| monitoring: `scripts/`, `.github/workflows/` | issues and pull requests | propose, check | GitHub |

What is hard in it:

- **Streams.** An `initialize` renews the stream while frames of the old one are
  still on their way, in segments, repeated, reordered. The right outcome is
  the promise of `StreamDelivery`.
- **Attribution.** An error without an id is given to the oldest of a deque of
  ids that every other message of either side may change.
- **Incremental accounting.** The reassembler's limits rest on counters kept
  over five ways of dropping an assembly, with `saturating_sub`.
- **Processes without coordination.** Several rcodex processes share
  `auth.json`, `state.json`, the Keychain, the server's registrations and the
  executable; only the last has a lock. Any of them may crash anywhere.
- **Answers that are lost.** The server may have acted when a request fails.
- **Handover.** The broker's requests and the bridge's messages share one stdin.
- **Races to the end.** The bridge, the TUI and an interrupt end a launch, whichever comes
  first, and what is dropped then, in which order, decides what is left behind.
- **Answers to an earlier question.** A browser page, a list of hosts, a session or a chosen
  release may be used long after it was asked for.

Every such hazard, with its line and the properties that cover it or the reason
why none does, is in `PROJECT.json` under "hazards".

## 2. The modules

| module | models | composition |
|---|---|---|
| `Reassembler` | `ServerMessageReassembler` | |
| `MCReassembler` | its segments and objects for TLC | EXTENDS `Reassembler` |
| `ReassemblerProofs` | theorems about it | EXTENDS `Reassembler` |
| `StreamDelivery` | the promise of the transport (abstract) | |
| `RelayTransport` | the bridge, with client, relay and host around it | INSTANCE `Reassembler`, `StreamDelivery` |
| `MCRelay` | the surroundings it is checked in | EXTENDS `RelayTransport` |
| `RelayTransportProofs` | theorems about it, the refinement among them | EXTENDS `RelayTransport`; INSTANCE `ReassemblerProofs` |
| `Segmentation`, `MCSegmentation` | `segment_client_message` | INSTANCE `Reassembler` for the receiver's rules |
| `SegmentationProofs` | theorems about it | EXTENDS `Segmentation` |
| `Update`, `MCUpdate` | installation, choice of a release, rollback and settings | |
| `UpdateProofs` | theorems about them | EXTENDS `Update` |
| `RelayApi` | API calls and token refresh | |
| `RelayApiProofs` | theorems about them | EXTENDS `RelayApi` |
| `HostList` | the paged list of hosts | |
| `Enrollment` | the controller's identity, its authorization in one step (abstract) | |
| `Enrolling`, `MCEnrolling` | the same with the step-up authorization in full | EXTENDS `Enrollment`, which it implements |
| `EnrollmentProofs` | theorems about both, the refinement among them | EXTENDS `Enrolling` |
| `Broker` | the broker's session and its handover | its bridge is `RelayTransport` |
| `BrokerProofs` | theorems about it | EXTENDS `Broker` |
| `RemoteTui`, `MCRemoteTui` | one launch of rcodex as the user starts it, with the shim | EXTENDS `HostList`; its bridge is `RelayTransport`, its lock `Update`'s |
| `RemoteTuiProofs` | theorems about it | EXTENDS `RemoteTui` |

Definitions named `...OffByOne`, `...Forgetting`, `...Silently` and so on, whose
comment begins "The slip of", are mutations: plausible mistakes, used in
no specification, that show the properties can fail. `PROJECT.json` pairs
each property with one.

### Reassembler

State: `assemblies` (the `HashMap`, as a function on the open keys, a missing
entry of `Vec<Option<..>>` being an id outside `DOMAIN chunks`) and `buffered`.
One action per outcome of `observe`, with the checks in the code's order:
`Refuse` (an error before the table is touched), `Discard` (an error that removes
the assembly), `Hold`, `Reject` (complete, but not an object of that size),
`Return`. A chunk is its length and an abstract content. `saturating_sub` is
itself, so a drift of the counters would show.

### RelayTransport and StreamDelivery

`select!` picks a ready branch and handles it to its end, so each branch is one
action: `TakeLocal` (`outgoing_app_segments`, with `initialize` renewing
stream, sequence numbers, pending ids and reassembler; or `CloseLocal`, whose `client_closed`
goes out or is lost, as the result of sending it is discarded) and
`TakeFrame` (`observe_server_envelope`, with the stale-stream test, the
reassembler, the sequence test, the attribution of errors, in this order).
`ConnectionFails` stands for everything that ends `bridge_local` or
`bridge_stdio` with an I/O error, as it may at any time.

Around it, external: the local client, with fresh ids for its requests; the host, which numbers
the messages of each stream from 1 and answers requests; the relay. What they send and how
freely is the variable `around`, one of the constant `Surroundings`, so that one run holds several:
with `"reordering"` the relay delivers any frame sent so far in any order and any number of
times, with `"repeating"` it may repeat delivered ones, and otherwise it delivers in order;
with `"reply order"` the host answers in any order. A stream id is a counter, as a fresh UUID is one
nobody has used. Whether a payload is a JSON object is the kind `"garbled"`. Sequence numbers
saturate at 2^64 in the code and are out of reach in any run.

`StreamDelivery` says what all of this is for: on each stream the client gets
the host's messages in order, once each, without a gap after the first, nothing
from a stream it has left; a bridge that cannot do so goes down. `RelayTransport`
implements it under the mapping `delivered <- toLocal` (with the id the bridge
put into an error taken out again) and `up <- Bridging`.

### Segmentation

The loop of `segment_client_message` over numbers: the message's length, the
length of the rest of the envelope, the base64 expansion. One action per
iteration. The digits of `segment_id` and the like are counted in the constant
`SegmentFields`, so frames are exact to a few bytes; what is said about this function
in section 5 rests on differences far larger, or on equalities that do not depend on it.

### Update

State: the executable and its backup as versions, the settings, the lock
(exclusive holder, shared holders), and per process the step it is at, the
version it runs, the version it is about to install and the settings it has read.
Steps are split where another process can come between: reading the
settings, taking the lock, reading again and marking, asking for a release, downloading, writing
the backup, writing the executable. `atomic_write` is one step, as its rename is.
Releases are published in the order of their versions, each of the kind its place in `catalog` says:
`Find` is `Repository::find` over all of them, less those the code passes over (drafts, no manifest, another
Codex); the newest left decides, and a search that comes to one it cannot verify ends there.
The lock is advisory and tried, never awaited; it goes with its process, so `Crash`
releases it. `StepFails` is any failure of a step: a request, a verification, `gh`, a file that cannot be read or
written (under the lock too, before or after the write the step is for), or the 45 s timeout of an
automatic update; dropping the future drops the lock. After an automatic installation the lock is let go
first (`SwapAuto`) and the process becomes the executable there is by then (`Restart`), or, if the
error came after the write or the restart fails, it does not.

### RelayApi

One process is one call of `send_with_status_policy`, with `refresh_codex_auth` inside
split at its accesses: read the bytes, read again (`load_codex_auth`), request,
read and compare, replace, load. The server takes a live refresh token and answers with a new
access token, a new refresh token that replaces the old, both or neither (`Answers`: each field of
`RefreshResponse` is optional); or it refuses; or its answer is lost, perhaps after the
replacement. The answers are numbered, and what an answer brings bears its number: the tokens, and the
`last_refresh` with which it is written (`Merge`). The stock Codex writes the file at any time.

### Enrollment

State: the enrollment named by `state.json`, the keys in the Keychain, the
registrations of the server, and per process its step and its enrollment. An
enrollment is identified with the attempt that made it. Every step of `enroll` and of `unenroll` may fail or be the last
before a crash, and the two requests that change the server may fail after it has acted. `saved` and `abandoned`
are history: the enrollments that reached `save`, and the keys nobody is left to
delete (the process died with it, or its best-effort deletion failed).

### Enrolling

What `Enrollment` takes for one step, `Authorize`, is here `request_step_up_token` whole: the
port each process listens on (`port`), the connections waiting at it (`waiting`), the pages open in
the browser (`tabs`), and the code a process has taken (`code`). The random `state` is identified with the
attempt it was made for, which is what comparing it tells. `NotFound` goes on listening; `RefuseCallback`, `TimesOut`
and `AuthorizationFails` are `Enrollment`'s `EnrollFails` with the listener dropped; `Exchange` is its
`Authorize`; the rest of `Enrollment`'s actions are used as they are. External: a page is
answered once, at any time, to the port it names, whoever listens there by then; strangers
connect and ask for something else, send rubbish, or say nothing.

### HostList and RemoteTui

`HostList` is the loop of `list_environments`: what was accepted, the cursors seen, and as history
the pages the server answered with, which may be of any size and give any cursor. `TooMany` and
`BadCursor` are `accept_environment_page`'s two refusals.

`RemoteTui` is `run_remote_tui`: `stage` is the place in the function, `session` and `chosen` what it has
read and will use later, `lock` the installation's lock with another process that may replace the
executable, `child` the TUI, `bridge` the future of `LocalShim::serve`. Every return, the `?` of each
fallible step included, is `Return`: the locals are dropped in reverse order, the bridge and the
TUI (`kill_on_drop`) first, the lock last, which is the separate step `Unlock`. `Crash` leaves the TUI
running, as the system does. Serving, the three branches of the `select!` are actions of
their own (`BridgeFails`, `BridgeEnds`, `AcceptTimesOut` and `Handshake`; `TuiEnded`; `Interrupt`).

### Broker

State: `BrokerSession`, the pipe and the `BufReader`, the responses, and the
history of frames, pairings and what went on to the host. One action per way a
frame is dealt with. `Fill` takes any nonempty prefix of the pipe, as a read may;
`PassOn` is `bridge_stdio` with its own reader on what is left in the pipe. Whether the
client is `patient`, awaiting each response before it writes again, is chosen in `Init`.

## 3. The runs

All numbers are bounds of `.cfg` constants. "Shows" refers to the properties'
comments in the modules, which quote the sentence of the repository they state.

| run | bounds | shows |
|---|---|---|
| `reassembler` | 3 keys, 3 segments, 4 bytes, 2 slots, each limit overstepped by one | `CountersAreExact`, `Bounded`, `HeldAreIncomplete`, `ChunksAreFinal` |
| `relay_any` | 1 renewal; either 2 local messages and 4 from the host, whole or in 2 segments, 2 slots, 3 bytes, any delivery; or 3 and 3 of every kind, repeated, replies in any order | `ImplementsStreamDelivery`, `WireIsFaithful`, `AssembliesAreUnmixed`, `ErrorsAreOwed` |
| `relay_orderly` | a relay and a host in order, one slot, 1 renewal, 2 local messages and 3 from the host, fairness | `OrderlyRelayIsEnough`, `ErrorsReachTheirRequest`, `EveryMessageArrives` |
| `segmentation` | target 40, frame 60, message 120 bytes, every length and every amount of metadata up to beyond the limits | `SegmentsCarryTheMessage`, `LongMessagesAreReceivable`, `EndsWhenThereIsRoom` |
| `update` | 2 processes, 3 versions with releases of every kind, 2 days, 5 commands of all kinds | `RollbackSticks`, `OneCheckADay`, `OnlyFittingInstalled`, `ReplacedBetweenSessions`, `ReplacedIsBackedUp` |
| `relay_api` | 2 processes, 2 calls, 3 answers of the server with either token or without, 1 retry, fairness | `AnswersItsSnapshot`, `RefusedOnlyForWantOfAnother`, `AbandonsIfChangedInFlight`, `EveryCallEnds` |
| `enrollment` | 1 enrolling and 1 unenrolling process, 3 enrollments, the code's 2 ports, 1 stranger, a user who retries, fairness | `EnrollingTypeOK`, `KeysAreAccountedFor`, `KeysOutliveRegistrations`, `RegisteredIsOnFile`, `CodeIsOwn`, `RetriedUnenrollFinishes`, `AuthorizationEnds`, `ImplementsEnrollment` |
| `broker` | 4 frames of 7 kinds, 2 ids, patient and impatient clients, a host list that fits and one that does not, fairness | `ResponsesFollowFrames`, `PairedOnce`, `BridgeStartsWhereRequestsEnd`, `EveryFrameIsAnswered` |
| `remote_tui` | 2 hosts in 4 kinds of entries, pages of 2, lists of 2 hosts and 2 pages, each limit overstepped, `--device` given or not, fairness | `TypeOK`, `FittingListIsReturned`, `ConnectsToTheRightHost`, `TuiWithinSession`, `EveryLaunchSettles` |

The modules without a type invariant in this table have one, `TypeOK`, which is true of
these runs too, and proved.

Three more runs expect a violation: section 5.

Why the bounds are enough to be of use: each limit of the code (slots, bytes, retries,
channel, frame) is a constant that the runs reach and overstep; a race of this
code needs two processes and one interruption, and the runs have two of each
role where it matters (in `enrollment` one of each: some of its properties do not
hold with more, as section 5 says, and those that do are proved for any number; one enrolling process is enough
for a late page, as its second attempt takes the port of its first); a second stream, a second enrollment, a third version and a second day are the
smallest number with an old and a new, or an overtaken, one.

Deadlock checking is off in most runs: a bridge that has closed, a process whose
number of commands is used up and a broker that has ended have nothing left
to do. `MCReassembler.cfg` keeps it on.

Symmetry is used for safety only, over keys and over processes, which no definition tells
apart.

### Fairness

- `RelayTransport!FairSpec`: weak fairness of `TakeLocal` and of `TakeFrame`.
  `select!` without `biased` starts with a random branch, so a branch that stays
  ready is taken. That the relay goes on delivering is an assumption about it.
- `Segmentation!Spec`: weak fairness of `Next`. The function does not suspend.
- `RelayApi!FairSpec`: weak fairness of each process's steps: a call is awaited,
  and the HTTP client has a timeout. Which answer comes is not assumed, nor that a process does not
  crash.
- `Enrolling!FairEnrollingSpec`: strong fairness of the steps of unenroll: the user retries and no
  step fails for ever. The property is a promise to exactly that user (README.md, "`unenroll`
  is safe to retry"). And weak fairness of `TimesOut`, as tokio's timer goes off whatever the listener
  is reading, and of the exchange succeeding or failing, as the HTTP client has a timeout.
  Nothing is assumed of the browser, of the user's answer or of strangers.
- `RemoteTui!FairSpec`: weak fairness of `Progress`, what rcodex does of itself: each request,
  the websocket, the challenge, the version checks, the update and the wait for a connection have timeouts in
  the code. It leaves out the handshake with one who says nothing, which has none, and
  everything that the TUI, the user or the relay decides.
- `Broker!FairSpec`: weak fairness of reading and of serving; the relay's requests
  have a timeout.

## 4. What is proved

Everything in this section holds for every value of the constants that the named assumptions allow.
They say of a constant only what it is: a number, a set of kinds, a release catalog whose first
release is installed and so fits. The one that is more than a type is `ProcsAssumption`, that no process is the
`"nobody"` who has no lock. Four theorems have hypotheses, `OneOfEach` or `KeepsOrder` and `RoomForOne`, which
are discussed with them. Every invariant and every action property that a passing run checks is proved.

A strengthening is said to be needed where the property alone is not inductive; each was checked by TLC,
as an invariant of the run's instance, before it was proved.

### `ReassemblerProofs`

From `SegmentsAssumption` and `LimitsAssumption`:

- `TypeCorrect`, by induction over the actions;
- `CountersAreAlwaysExact`. The exactness is an equality of a counter and the cardinality
  of a set of bytes, a union over the table. The lemmas first reduce it to how that
  set changes when one assembly is put or dropped, using that sets of bytes of
  different keys are disjoint; then each action is arithmetic on cardinalities. The
  invariant is `TypeOK` with exactness (`ExactIsInvariant`). That the table's total is at least an
  assembly's part is what makes `SaturatingSub` a subtraction;
- `AlwaysBounded`, `HeldAreAlwaysIncomplete`, each inductive together with the above;
- `ChunksAreAlwaysFinal`, an action property, from the type invariant.

### `RelayTransportProofs`

For any `Surroundings`, a relay that holds, repeats and reorders and a host that answers in any order among
them, and for any numbers of messages and streams:

- `BridgeImplementsStreamDelivery`, the refinement. Under the mapping each step of the bridge is one of
  `StreamDelivery`'s or leaves its variables alone. It rests on `BridgeReadingInv`: `SentInv`, that
  the host's numbers name its messages, one each; `AssembliesAreUnmixed`, that an assembly holds
  chunks of the one message its key belongs to, so that what is complete is a message that was sent; and
  `DeliveredInv`, that the last message delivered on the stream is the one `seen` names, without which
  "one more than `seen`" says nothing about what the client already has.
- `AlwaysUnmixed`, as one of its conjuncts.
- `AlwaysFaithfulWire`. `WireIsFaithful` compares the wire with what the client sent. It is inductive with
  `NothingLost` (what is on the wire is the beginning of what the client sent, and while the bridge goes on
  the inbox is the rest) and `Numbered` (`nextSeq` is one more than what the stream has carried). It does not say
  that a bridge which ended well has sent everything: its `client_closed` may be lost unnoticed.
- `AlwaysOwed`, a count on each stream: for every id, its places in `pending` and the errors that named it
  are together no more than the messages that bore it. The property counts `pending` in and so is inductive beside
  `BridgeReadingInv`: an error moves one place from the one count to the other, which is shown by bijections of places.
- `BridgeReassemblesWithinLimits`. `ReassemblerProofs` is about a table that goes on for ever; the bridge's is cleared by
  every `initialize`, and only sees segments of what the host sent. An instance of `ReassemblerProofs` by the
  bridge's values gives its theorems here once each step of the bridge is shown to be one of the
  reassembler's, to leave the table alone, or to begin it anew (`BridgeStepsTable`).
- `BridgeTyped`, `TypeOK` in full. That the stream, the client's sequence and the queues stay within what was sent is
  `CountInv`: the stream is the number of `initialize`s on the wire, the next number of a stream no
  more than one past what the wire has carried, and a pending id one the client may use.

Two theorems are about a relay that delivers in order and once, and a host that answers in order:
`OrderlyRelayIsAlwaysEnough` (the bridge gives up only with a connection or over a garbled message) and
`ErrorsAlwaysReachTheirRequest`. Their hypotheses:

- `KeepsOrder(around)`: no freedoms, no requests by the host, and so no answers by the client. That is what the
  run `relay_orderly` assumes too, and without it they are false: `relay_no_pending` shows what a request of the
  host does to the first, section 5 what an answer does to the second.
- `RoomForOne`: a slot, and two bytes for a message of two segments of one byte. The code has room for far more.

`OrderInv` is the invariant. The host's side of it: the client's ids are the places of its requests (`IdsArePlaces`), the
host numbers the messages of each stream without a gap (`SentInOrder`) and answers each request of a stream once
and after those before it (`AnsweredInOrder`), and the relay is at a frame or at the end (`CursorInPlace`). The bridge's
side, `ReadsInOrder`, says of an open bridge what it knows in terms of the frames that have passed: `seen` is the number
of the stream's messages among them; the table holds the first half of the message the relay is halfway
through, if it is on the stream, and else nothing (`TableInOrder`); the pending ids are those of the stream's requests no reply
has passed for, in their order (`PendingInOrder`). So the next whole message is the next in sequence
(`CurrentIsNext`) and the next reply is to the head of `pending` (`ReplyIsToTheOldest`), which is what both theorems
come down to. Each needs the other's half: a gap would end the bridge before the error, and an id that stayed in
`pending` would name the next.

### `SegmentationProofs`

From `SizesAssumption`, for any limits, lengths and metadata:

- `SegmentsAlwaysCarryTheMessage`, `LongMessagesAreAlwaysReceivable`, `SegmentationTyped`. The trial's invariant
  is that every count tried leaves each segment at least a byte, and that as long as segments of the
  target size fit it is still at the first count (`TrialInv`), whose segments are more than one, as the message is
  beyond the target, and no more than a message at the limit would make (`FirstTrialIsReceivable`).
  The arithmetic is in three lemmas on `DivCeil`, that it is the least number whose multiple reaches
  (`CeilBounds`, `CeilIsLeast`) and so grows with what is divided (`CeilIsMonotonic`).

### `UpdateProofs`

One inductive invariant, `IInv`, for all: `TypeOK` with

- `LockInv`, that a process at a step under the lock has it, and that nobody is in a session then;
- `PlanInv`, that a plan made is of a release that fits, as catalogs do not change;
- `RestoreInv`, that a rollback restores only once updates are disabled, `RestoredInv`, that they stay so from then
  on and the executable is the backup, `AutoInv`, that an automatic update past its second look at the
  settings finds them enabled, `BackupInv`, that between the two writes of an installation the backup is the
  executable, and `CheckInv`, that the day on file is no earlier than any check since updates were enabled.

From it `AlwaysOneCheckADay`, `AlwaysFitting`, and the action properties `RollbackAlwaysSticks`,
`AlwaysReplacedBetweenSessions` and `AlwaysReplacedIsBackedUp`. The lock is the crux of all but `AlwaysFitting`.
`RollbackSticks` is about what a step may do after a rollback: it enables nothing and leaves the restored
executable in place, unless it is itself an `enable` or an `install` that ends the rollback's reign (`restored`). That
the settings are read again under the lock is why: an automatic update that read them before the rollback
cannot get to its writes after it (`AutoInv`).

### `RelayApiProofs`

The crux is that comparing contents stands for comparing histories: every write of `auth.json`, this program's or
the stock Codex's, has a `last_refresh` the file never had and no process has seen
(`Fresh`, `Known`), so that a file which equals what was read has not been written meanwhile, changes
back and forth included. `Compares` says so for each step of a refresh; `Reads`, what a call has in its hands.
From `IInv`:

- `AlwaysAnswersItsSnapshot`, and the action properties `AlwaysAbandonsIfChanged` and
  `AlwaysRefusedOnlyForWantOfAnother`. The last is about the token a call presents after a 401. The file has been
  written since the refusal, by this call or by whoever it left the file to, so the answer last written is not the one that
  brought the refused token (`Compares`); if that answer brought no access token, the refused one may still be there.

That writes differ in their `last_refresh` is a premise: the code takes it from the clock, in milliseconds.
That they differ in a token is not assumed, and does not hold of an answer that brings none.

### `EnrollmentProofs`

For any sets of processes, overlapping or not, and any number of enrollments:

- `TypeCorrect`;
- `KeysAlwaysOutliveRegistrations`, which the run `enrollment` checks for one process of each kind. It is not inductive:
  it needs to be known that an enrollment in progress is not a saved one, that no two
  processes have the same in progress, that its key is there from `authorize` to `save`,
  that what an unenroll has loaded is a saved one, and that it is not registered once
  it has been revoked (nobody registers a saved enrollment again). These are the conjuncts of `Inv`;
- `KeysAreAlwaysAccountedFor` and `RegisteredIsAlwaysOnFile`, under `OneOfEach`: at most one process enrolls and
  at most one unenrolls. Nothing in the code sees to that, and with two of either both are false, as `NeverReplaced` and
  `DeletesWhatItRevoked` of section 5 show; it is how the program is meant to be used. `FileInv` adds to `Inv` that
  there is no state file while one enrolls, that the file stays what an unenroll has loaded until it deletes
  it, and that by then nothing of it is left.

And of `Enrolling`, for any processes and ports and any number of strangers:

- `EnrollingImplementsEnrollment`: each step is one of `Enrollment`'s or leaves its variables
  alone, so every theorem about `Enrollment` is one about `Enrolling`;
- `EnrollingKeepsKeys` and, under `OneOfEach`, `EnrollingKeepsAccounts`, as instances of that;
- `CodesAreAlwaysOwn`, from the inductive `CodeInv` (a process has a code only from its authorization
  on, and the one of its attempt) with `Inv`, that an attempt in progress is one at all;
- `EnrollingTyped`: no two processes listen on one port, and connections wait only where one does. `PortInv` is
  `EnrollingTypeOK` less `Enrollment`'s part, and that nobody waits at `NoPort`.

### `BrokerProofs`

For any client, patient or not, any frames, ids and host lists:

- `AlwaysFollowFrames`, `AlwaysPairedOnce`, `AlwaysStartsWhereRequestsEnd`. Their `IInv` accounts for
  each frame: while requests are served (`Serving`), what was written is what was answered, then the buffer, then the
  pipe, in this order; and to a patient client there is at most one frame that is not answered, so that none is in the
  buffer when `open_app_server` is. After it (`BridgingPatiently`) all that follows is passed on or in the pipe.
  `Paired` says that what was paired is among the request ids used.

### `RemoteTuiProofs`

For any hosts, entries and limits:

- `TuiIsAlwaysWithinSession`, from `LockInv`: the lock is had at every stage from `verify` to `serving`, and
  the TUI runs only while `serving`, since every way out is `Return`, which kills it. Both are needed: the
  second alone says nothing about the lock, and a replacer may take it as soon as it is free;
- `ListingIsAlwaysBounded`, from `ListInv`: there are as many answers as cursors seen while the list is
  being asked for. Every other step leaves the list alone (`StepIsOfTheList`);
- `AlwaysConnectsToTheRightHost`, from `HostInv`: from the selection on the choice is right, by
  the two cases of `Selectable`, and the list it was made from is no longer changed;
- `RemoteTuiTyped`, of `ListTypeOK` with `ListInv` (a new cursor is counted, so it stays in its range) and `TuiTyped`;
- `FittingListIsAlwaysReturned`, from `FitInv`: the accepted entries are the answers', in order (`Listed`), as long as there is
  more to ask for every answer had a cursor and those are the cursors seen, and what was refused does not fit. `Count` is a recursive
  function of the answers; that there is such a function, and so that it satisfies its equation, is shown by way of
  a least number of answers for which there would be none (`SomethingCounts`).

### What is only model-checked

- Liveness: the prover has no rule for fairness here. `EveryMessageArrives`, `EndsWhenThereIsRoom`, `EveryCallEnds`,
  `RetriedUnenrollFinishes`, `AuthorizationEnds`, `EveryFrameIsAnswered` and `EveryLaunchSettles`.
- The three properties of section 5, which are refuted.

Induction over data cannot be cited from the library, whose theorems take an operator. Where a least element is enough,
as for `Max` in `UpdateProofs`, `RemoveFirst` in `RelayTransportProofs` and `Count` in `RemoteTuiProofs`, it comes from `WFMin`, which takes sets.

## 5. Where the code and its words disagree

Three have a run that expects TLC to find the counterexample; `PROJECT.json` quotes the line
each contradicts.

| run | what happens |
|---|---|
| `relay_no_pending` | a host request with the number of a pending client request unregisters it; the error for it ends the bridge as "no pending request" |
| `segmentation_one_segment` | a message under the target in an envelope over it is sent as one "chunk" of one, which the same rules refuse on receipt |
| `update_rollback` | two concurrent installs: the backup is the new version |

The others are stated in the modules as definitions no run checks. Each is refuted by TLC
in seconds under the constants given, the rest being those of the run named.

| definition | what happens | constants |
|---|---|---|
| `RelayTransport!ErrorsNameWaitingRequests` | an error without an id is delivered under the id of the client's own answer to a host request | `relay_any` |
| `RelayTransport!TooManyIncompleteIsTrue` | repeated segments of a delivered message take up slots, until a good message is refused as "too many incomplete" | `relay_any` |
| `Segmentation!AlwaysEnds` | with large metadata the loop tries one size for ever: `chunks()` makes fewer chunks than asked, and the increment is undone | `segmentation` |
| `Update!UpdatesGoForward` | an install that was overtaken installs an older release over a newer one | `update` |
| `RelayApi!NoWriteIsLost` | a write of `auth.json` between comparison and replacement is lost | `relay_api` |
| `Enrollment!NeverReplaced` | of two concurrent enrollments the first is replaced, its key and registration forgotten | `enrollment` with `Enrollers = {p1, p3}` |
| `Enrollment!DeletesWhatItRevoked` | a slow unenroll deletes the state of a later enrollment | `enrollment` with `Unenrollers = {p2, p3}` |
| `RemoteTui!SuccessIsTheTuis` | the bridge ends before its TUI has: the TUI is killed and rcodex succeeds, whatever the TUI's status would have been | `remote_tui` |
| `RemoteTui!HostIsTold` | `child.wait()` is ahead of the bridge, which is dropped before it sends `client_closed` | `remote_tui` |
| `Broker!BridgeStartsWhereRequestsEnd` without `patient` | app messages sent behind `open_app_server` without waiting are lost in the request reader | `broker` |
| `Broker!HostListsAreAnswered` | a long list of hosts ends the broker instead of being answered | `broker` |

`AlwaysEnds` fails only with metadata of a size the real ids do not reach; it is a
property of the function as exported and tested. The others need a
coincidence of two processes, an unusual message or an impatient client.

One more observation, without a sentence of the repository to contradict: when `auth.json` changes
between the two reads at the start of a refresh (`auth.rs` lines 199 and 203), the request uses the
new token, the comparison with the first read fails, and the answer to a token
that was the file's own is thrown away; if the server rotated it, the file is left with a dead
one. A crash between the answer and the save does the same and cannot be
helped. It is listed as a hazard.

Further observations of the same kind:

- An answer to a refresh that brings no access token is accepted and saved (`auth.rs` lines 106 and 181). After a 401
  the one retry then presents the token that was just refused. `RefusedOnlyForWantOfAnother` says it happens only so.
- `client_closed` may be lost and `bridge_local` and `bridge_stdio` return `Ok` (`transport.rs` lines 352 and 421).
- A page that completes a list of exactly 100 hosts and gives a cursor is refused, though the next page
  may be empty; so is a 33rd cursor. `MeansWellAndFits` says what a server must not do.
- The shim takes the first connection there is and waits for its handshake without a timeout. A
  local program that connects before the TUI and says nothing keeps it out until
  somebody ends it; one that says something wrong ends the launch.
- A browser page of an attempt that has timed out, answered while a later attempt
  listens on the same port, fails that attempt: it is refused by its state, as `CodeIsOwn` demands,
  but the listener gives up instead of going on.
- A newest release that cannot be verified ends the search for an update, though an older one would fit.
- Parity of versions is asked of the raw strings when a release is chosen (`update.rs` line 397), of their first
  tokens when the host is reached (`compatibility.rs` line 60). `sameVersion` takes them for equal or not.

## 6. What is not modelled

- The probe's `send_app_message`, `next_app_message` and `close`: one exchange each, in sequence.
- `protocol.rs`'s and `relay.rs`'s bodies and canonical byte strings, `compatibility.rs`'s parsing of versions
  and help: pure functions whose hazards are of formatting and comparison of fields; the tests pin
  their bytes. Their outcomes are guards of `RemoteTui`.
- Content of messages, tokens, certificates and attestations: a verification is a step that may fail.
- The Keychain's own failures inside `create`: a step that succeeds or fails whole.
- Commands that print: `status`, `devices`, `revoke-client`, `probe`. What the third does to this client is
  `ServerForgets`.
- `scripts/` and workflows: see the plan.
- A host that goes offline or is upgraded after it was listed: `RemoteTui` keeps the list it got, and
  `ConnectsToTheRightHost` is about what the list said.
- Time, except for days in `Update`, expiry of tokens and sessions, and timers that go off.

## 7. Plan

Done, in this order: the reassembler and its proofs; the bridge and its promise; segmentation; updates; API
calls; identity and its proofs; the broker; the choice of a release; the step-up authorization with its
refinement and proofs; the host list and the launch with its shim; the proofs about updates, the bridge with its
refinement, API calls, the broker, the state file and the choice of a host; those about segmentation, the
list that fits, the orderly relay and the types and the table of the bridge.

Next, models:

1. `Proposal`: the daily job's deduplication of issues and pull requests.
2. `Broker` composed with `Enrolling`'s `ensure_session`: a broker that serves while the identity changes.

Next, proofs: what is left is liveness, which waits for a prover with rules for fairness. What its arguments
would rest on is at hand: `SegmentationTyped` and `TrialInv` for the measure of the trial, `OrderInv` for the frames on their way.

# AI Photo Prompt in TLA+

AI Photo Prompt is a booth game: a player picks a level, sees a challenge
picture, writes a prompt against the clock, an external `pi` agent draws and
grades a picture, and the round ends on a leaderboard. One Python process
(FastAPI, asyncio) serves one or more kiosks; rounds and attempt claims live in
a ShelfDB database, pictures in a directory it serves.

This directory specifies that program in TLA+, model-checks it with TLC and
proves the most important results with TLAPS. Paths below are relative to the
repository root; the application is `src/app/`.

## 1. Inventory

| Part | Where | State it keeps | Operations | Interacts with |
|---|---|---|---|---|
| Round and claim store | `persistence/rounds.py`, `persistence/claims.py` | shelves `rounds`, `attempt_claims` | create, compare-and-set of a round, acquire / renew / release of a claim, finalization of round and claim in one transaction | called by the service, in worker threads |
| Game round service | `services/game_round.py` | the set of active generation tasks, the admission flag; everything else is in the store | the requests of a player (configure, continue, submit, abandon, show result, complete), one generation attempt, `close()`, leaderboard projections | store, pipeline |
| Round state machine | `domain/state.py` | none (rebuilt from the record) | the legal edges between scenes | service |
| Pi pipeline | `ai/pi_pipeline.py` | process-wide count of admitted runs | admission, image call, publication, evaluation call, cleanup, discard | RPC, artifact store |
| Pi RPC transport | `ai/pi_rpc.py` | per call: child, two readers, bounded queue | exchange of JSON lines with a deadline; termination of the process group | child process |
| Pi RPC protocol | `ai/pi_rpc.py` (`handle_item`), `ai/pi_pipeline.py` (validators) | per call: which tool calls are open, what was retained | accept or refuse each event; judge the result | pipeline |
| Artifact store | `ai/generated_artifacts.py` | private workspaces, public pictures, quarantine names, one lock | prepare, publish, read, clean up, discard, startup reconciliation | pipeline, lifespan, the agent's files |
| Leaderboard | `services/game_round.py` (from line 559) | none | order, competition ranks, window of four rows, the listing in a second transaction | leaderboard page |
| HTTP application | `server.py`, `web.py` | the lifespan's objects, cookies | routes; startup (sync, reconcile), shutdown (`close()`, then the database) | everything |
| Kiosk scenes | `templates/*.ts` | timers and flags of one page | countdowns of prompt, reveal and leaderboard, generation poller with its native fallback | HTTP routes |
| Staff search | `services/staff.py` | login tokens, sessions, failed logins | login, session, logout, search | HTTP routes |
| Challenge content | `content/`, `src/build/challenges.py`, `persistence/challenges.py` | materialized catalog | import, directory swap, sync | startup |
| Scoring | `domain/scoring.py` | none | score of an evaluation | pipeline |
| Configuration, deployment, tools, audio | `config.py`, `deploy/`, `.agents/tools/`, `design/audio/` | none at run time | load, deploy, maintain | operators |

What makes it correct, and what makes that hard:

* **Rounds.** A round only moves along the edges of the state machine; a
  submission is final; nothing revives an abandoned round. Hard, because every
  request reads in one transaction and writes in another, so any two requests
  and an attempt can interleave between the two.
* **Claims.** Of the attempts of a round only the holder of the live claim may
  decide it, and at most once. Hard, because a lease can run out under a living
  provider, abandonment clears the claim, and the process can crash and restart.
* **Pictures.** A picture a round shows is never removed; a picture no round
  shows does not stay. Hard, because commit, rollback, discard, cancellation
  and the startup sweep race each other.
* **Attempts end.** Cancellations are swallowed in settle loops so that cleanup
  always finishes; shutdown must still complete, and a provider working for an
  abandoned round must be stopped.
* **RPC.** Output is bounded by a queue that two tasks fill and one empties; the
  deadline, the child's exit, a flood of output and the caller's cancellation
  race each other.
* **Protocol.** The client must settle on every lawful exchange and on no other,
  although five pieces of state say which calls are open.
* **Capacity.** Admission slots must not leak whatever way a run ends.
* **Pages.** A page is put together from several reads and then acts on its own;
  it must not wait for something that will not come, and browser and server, with
  a clock each, meet at the instant of a deadline.
* **Leaderboard.** The player's own row and its neighbours must be right although
  the own round and the others are read in two transactions.

`PROJECT.json` lists the single hazards with their lines.

## 2. Modules

| Module | Models | Role |
|---|---|---|
| `RoundStore` | the shelves and their transactions, the clock | data component, no process of its own |
| `GenerationAttempts` (extends `RoundStore`) | one asyncio task per attempt with its provider and heartbeat; shutdown, crash, restart | component |
| `RoundRequests` (extends `RoundStore`) | all other requests, each as a read and a compare-and-set | component |
| `GameRoundService` | composition of the three; properties, fairness, refinement mappings | system |
| `RoundLifecycle` | scenes and results of rounds as the game promises them | abstract specification |
| `AttemptFence` | holders and winners of rounds without leases or clocks | abstract specification |
| `MCGameRoundService` | the symmetry set for TLC | instance |
| `PiRpcTransport` | one call of `run_pi_rpc`: who reads, waits, kills and returns when | component and its properties |
| `PiRpcProtocol` | what the events of one call mean: `handle_item`, and the pipeline's validators | component, and a definition of a lawful transcript it is compared with |
| `PiPipeline` | concurrent runs of `PiAIPipeline` | component and its properties |
| `GeneratedArtifacts` (extends `PngContainer`) | the artifact store, one filesystem call per step, with crashes between any two and orphaned agents | component and its properties |
| `PngContainer` | what `_parse_png` accepts, on abstract chunks | pure algorithm, and a reference definition of a well-formed container |
| `MCGeneratedArtifacts` | two attempts of one round and the files an agent may write | instance |
| `Kiosk` (extends `Leaderboard`) | one browser tab with its scripts against every player route | component and its properties |
| `Leaderboard` | ranks, window, projection | pure algorithm, and a reference definition of a right projection |
| `GameRoundServiceProofs`, `GameRoundServiceRefinement` | safety of the service; its refinements, and what follows on the way | proofs |
| `PiPipelineProofs`, `PiRpcTransportProofs`, `PiRpcProtocolProofs` | theorems of the module named | proofs |
| `KioskProofs` | theorems of `Kiosk` and `Leaderboard` | proofs |
| `GeneratedArtifactsProofs` | theorems of `GeneratedArtifacts` and `PngContainer` | proofs |
| `Recursion` | induction over the naturals and over recursive functions | lemmas the proofs share |

Operators named `...Blindly`, `...Badly` and the like, with the comment
"Variant for mutation", are not part of any specification: each is a plausible
bug in the definition that follows it, kept to show that a property notices it.

### How state and steps correspond to the code

*Granularity.* asyncio is cooperative, so a step of a model is the code between
two awaits that can let something else run, or one store transaction in a worker
thread. A transaction takes the process-wide write lock and reads the clock
inside it, so it is one step. The two halves of a request, and the read, the
claim and the commit of an attempt, are separate steps.

*Cancellation.* `task.cancel()` is an element of `cancelled` until the task
reaches an await that lets it through. Where the code shields and settles a
worker (`_settle_cancelled_task`, `_run_filesystem_unit`, `_cleanup_resilient`),
the element stays or is dropped exactly as the loop keeps or swallows it.

*Records.* A round record keeps what transitions test: scene, `updated_at` (it
makes two writes of the same scene differ, as in the code's whole-record
comparison), the deadline of the scene, the submission reason, the artifact's
token, and whether a failure is recorded. `deadline` stands for
`prompt_deadline`, `reveal_deadline` or `leaderboard_deadline`, of which each
scene uses one.

*Attempts.* `pc` names the awaits of `_generate_round`: `read` (record), `acquire`
(claim in a thread), `acquired`, `running` (supervision), `settle` (heartbeat
lost), `finish` (heartbeat being cancelled), `commit`, `rollback`, `unwind` and
`unclaim` (cancellation). A token names one attempt for ever, as `uuid4` does.

*Process.* `Shutdown` is `close()` up to its wait, `Stop` its return followed by
closing the database, `Crash` the death of the process, `Restart` the lifespan's
startup with the reconciliation of the public directory.

*Abstractions.* The clock is monotone and shared. The read of a request and its
timestamp are one step (the comparison at the write makes the order irrelevant);
so are an attempt's read and its `requested_at`. The heartbeat's sleep is
untimed: a renewal may come at any moment while the heartbeat lives. In
`GenerationAttempts` the discard of a cancelled or failed provider succeeds;
`PiPipeline` models its failure (`stuck`). A result that is not a valid envelope
counts as a failure of the provider; `PiAIPipeline` never returns one. Admission
is in `PiPipeline` only; to an attempt a busy pipeline is a failure.
`asyncio.Condition` in the admission is never held across an await, so
`try_acquire` and `release` are immediate. In `PiRpcTransport` a line of output
stands for what `handle_item` makes of it (accepted, the settlement, refused) or
for garbage the reader reports; SIGKILL ends the child; a descendant outside
the process group may keep the pipes open.

*Events of the agent.* `PiRpcProtocol` says which events are accepted: an event it
accepts is `event` or `settled` in `PiRpcTransport`, one it refuses is `refused`.
The fields of an event are abstracted to what a test tells apart (a response is
`ok` or not, a tool's end has a result that is an image at the expected path,
elsewhere, an error, or malformed). The two requests are those of the pipeline;
no other caller exists.

*Files.* In `GeneratedArtifacts` a path is a sequence of names with a mark (plain,
temporary, or the start that moved it to a quarantine name), and a file is its
sequence of chunks, empty while it is being written. One step is one call that
changes the filesystem; a call that only looks is part of the step it guards.
`os.replace` and `rename` are atomic and a crash is one of the process: what a
call did stays done, as the code's `fsync` makes it. Nothing but the store and
its agent writes below the roots, so the checks against symbolic links and
replaced inodes never fire and are left out.

*The tab.* A navigation in `Kiosk` is asked, then answered by the server, which may
redirect; a newer one replaces it, and the server still handles a form that was
replaced (`late`). `ShowGenerating` takes three steps because `generating_scene`
reads the record, the status's record and its claim separately. `due` is the
server's clock against the deadline of the scene (before, at, after). The browser
has its own: `deploy/README.md:86-89` and `209-214` put the server on a remote
host behind Caddy with the kiosks as its clients, and nothing keeps the two
clocks together. The countdowns of the prompt and of the leaderboard compare
`Date.now()` with the server's deadline, and the reveal is counted from the
image's load; so each timer may fire before, at or long after the deadline it
stands for. A mishap is a reload, a failed fetch or
an attempt that ends without a record. Every navigation is answered, and images
load: `generating.ts` starts the reveal countdown from the `load` event and has no
listener for an error. Other tabs, the back button and the links of the header
are not modelled.

## 3. Runs

| Run | Instance | Checks |
|---|---|---|
| `Attempts` | 1 round, 2 attempts, 2 request handlers, lease 2, clock to 2 | types; `PictureOnDisk`, `OrphansAreExplained`, `LiveLeftoverIsStaleSnapshot`, `EndedMeansSettled`; `ResultIsFenced`, `SubmissionIsFinal`, `LeftoverLapses`; the refinements `RefinesFence` and `RefinesLifecycle` |
| `Stopping` | 1 round, 2 attempts, 1 handler, clock to 1, fair | `ShutdownCompletes`, `AbandonStopsProvider`, `AttemptsEnd` |
| `Exchange` | queue of 2, child of at most 3 lines, fair | `NoLineLost`, `SuccessIsWhole`, `NothingLeft`; `ExchangeEnds`, `ReturnsUnlessStuck` |
| `Protocol` | both requests, 2 call identifiers, 2 tools, every transcript of up to 7 events | the client's books agree (`TypeOK`); `SettledIsLawful`, `RefusalIsDeserved`, `EvidenceSuffices`, `VerdictIsRight` |
| `PiPipeline` | 3 attempts, capacity 2, fair | `SlotsCounted`, `EndedClean`; `SlotsReturn` |
| `Artifacts` | 2 attempts of one round, 3 starts, crashes anywhere, fair sweep | the files are a tree (`TypeOK`); `PublicIsWhole`, `ReferencedKept`; `OthersUntouched`, `SweepLeaves`; `SweepEnds` |
| `Kiosk` | 1 tab, 1 round, 2 mishaps, up to 5 other players, fair | types; `Awake`, `BoardIsRight`; `RefusedOnlyEarly`; `GenerationSettles`, `RevealLeads` |
| `FailureClaim`, `FencedPicture`, `ReaderStuck`, `LostPicture`, `StaleScene` | as above, or smaller | a sentence of the documentation each, which the code does not keep (section 5) |

*Bounds.* One round is enough for the service: no variable relates two rounds,
and the store's transactions touch one key. Two attempts give takeover after
expiry, a late loser and a retry; with lease 2 and a clock to 2 a lease can be
taken, renewed, expire and be taken over by the second attempt. Two handlers are
the double click; a handler and an attempt are a stale request against a commit.
Deadlines of one tick put every request before, at and after its deadline. A
queue of two with a child of three lines is full with a line left over, and both
readers compete for its room. Seven events hold the longest useful image exchange
(response, confirmation, start, end, agent end, settlement) and one event that
does not belong, at every place; `MaxEvidence` is 6 there, the smallest bound that
suffices, against 64 in the code. Three runs on two slots give a refusal while
others run. Two attempts of one round share its directories, the only sharing
there is; three starts let a reconciliation meet the leftovers of one that was
cut short. Six rows are two more than the window, so it can lie at either end or
in the middle, with ties; two mishaps let a page fall back to native forms and
its attempt then end without a record. Counters are bounded by guards
(`MaxTime`, `MaxLines`, `MaxEvents`, `MaxStarts`, `MaxMishaps`), not by constraints,
so liveness is checked on the whole graph. Attempts and handlers are symmetric in
`Attempts` only, which checks no liveness.

*Fairness.* `FairSpec` of the service lets every ready task, renewal, pending
write and cancelled provider go on, as the event loop and the worker threads do,
and lets `close()` return when it can. No player, crash, shutdown or restart is
fair, and a provider that nobody cancelled may run for ever. `AttemptsEnd`
therefore has that as its exception; in the code `asyncio.wait_for` with
`provider_timeout` closes it. That a cancelled provider ends rests on
`PiPipeline` (filesystem units are threads that end) and on `PiRpcTransport`,
where the first finding of section 5 is the exception. `PiRpcTransport` fires
every timer of the code and runs every task that can run; the child owes
nothing. `PiPipeline` takes the ends of filesystem units as fair, and the shared
deadline of a call, unless its cleanup hangs: by the first finding of section 5
`run_pi_rpc` may never return, so a call may become `hung`, out of which nothing
leads, not even a cancellation. Its admission slot is then lost until the
process ends (`ai/pi_pipeline.py:165` is not reached). `SlotsReturn` has that as
its exception: a full admission opens again, unless a hung call holds every
slot. In `GeneratedArtifacts` only the reconciliation is fair: it is a thread
that runs; agents, attempts and crashes are free. In `Kiosk` requests are
answered, timers fire, attempts end (that is `AttemptsEnd`) and time passes;
nothing obliges the player, and no mishap has to happen. `GenerationSettles` has
one exception, `Stranded`: a reloaded page watches the attempt an earlier page
asked for, and that attempt ends without a record. The status is then `waiting`,
on which the poller of that page only asks again, until somebody reloads it.

Deadlock is checked in the service. The other models stop when their calls have
returned, their attempts are over or the player does nothing.

## 4. Proofs

All theorems hold for arbitrary constants under the modules' named assumptions:
`None` is none of the values it stands beside, times and bounds are natural
numbers, the set of pipeline attempts is finite, capacity is 1 to 3 as the
constructor checks, and the leaderboard's window has at least three rows (the
code has four; with two the window would miss the player's own row between two
others). In the artifact store the lock's free value is no attempt, the files an
agent writes are sequences of chunks, and both bounds are positive. No counter
needs its model-checking bound: a proof does not depend on how large `MaxTime`,
`MaxLines`, `MaxEvents` or `MaxMishaps` is.

`GameRoundServiceProofs`

* `Typed`: `TypeOK`, with `Placed`: an attempt that started has a round, and one
  that read has a record.
* `PictureInvariant`, from which `PicturesStay` (`PictureOnDisk`) and `EndsSettled`
  (`EndedMeansSettled`). `PictureOnDisk` is not inductive: nothing in it forbids
  a rollback of a committed picture. The invariant adds that a request in flight
  attaches no picture (`RequestsAddNoPicture`), that a success is public until its
  commit (`SuccessIsPublic`), that an attempt whose picture a round carries has
  ended and so never rolls back (`WinnersEnded`), that a process that is down runs
  nothing (`DownIsIdle`), and where the task stands while its provider and
  heartbeat run (`Supervised`).
* `ResultsFenced` (`ResultIsFenced`), an action property, from the types and the
  same invariant: a picture enters a round only by a commit, and a commit
  requires the live claim.

`GameRoundServiceRefinement`

* `ServiceInvariant` (`ServiceInv`) is inductive together with the invariant
  above. It says what a stored record holds ahead of its scene (`RoundsLawful`),
  what an attempt works on (`SnapsLawful`), which write a request may have in
  flight (`WritesLawful`: along an edge, keeping picture and submission, a new
  submission with its label, taking the claim away when it leaves the
  generation), that claims stand on generating rounds (`ClaimsPlaced`), that a
  token is never used twice (`TokensFresh`), and why a claim or a picture may
  outlive its attempt (`Leftovers`, `LostBeats`, `PublicsKnown`).
* `OrphansExplained` and `LeftoversExplained` follow from it: the two ways in
  which an ended attempt may leave something behind are the only ones. They are
  what makes the findings `FencedPicture` and `FailureClaim` of section 5
  exhaustive.
* `SubmissionsFinal` (`SubmissionIsFinal`), an action property. That a submission is
  labelled `timeout` exactly when it met the deadline is carried from the read to
  the write by `WritesLawful`.
* `LeftoversLapse` (`LeftoverLapses`), an action property: after a crash, or a
  refused commit, the claim left behind blocks its round for a lease and no
  longer. `ClaimRule` says what a step may do to a claim (bring a fresh one,
  prolong it by the heartbeat of its attempt, remove it or leave it),
  `ClaimsTimed` that none reaches further than a lease ahead; no ended attempt
  has a heartbeat.
* `ImplementsLifecycle` and `ImplementsFence`, the refinements. Initial states
  map to initial states; every action of the service maps to an action of the
  abstract specification or to a stutter, one step per action. For the lifecycle
  only three kinds of step change what is seen (`BegunStep`, `WrittenStep`,
  `CommittedStep`), and `WritesLawful` says that a write moves along an edge.
  For the fence `TokensFresh` shows that an acquisition brings a fresh holder,
  and `ClaimsPlaced` that no holder is left on a round that was abandoned.

`PiPipelineProofs`

* `RunsTyped`, `SlotsAreCounted`, `RunsEndClean`. The counter's bounds follow only
  with `Slots`, which equates it with the number of admitted runs; each step
  changes the set of admitted runs by the run that moves, and the cardinality
  theorems of the library do the counting. `Files` says at every point of a run
  which of its files exist.

`PiRpcTransportProofs`

* `Typed`: `TypeOK`, the bound of the queue included, for every capacity.
* `LeavesNothing` (`NothingLeft`), from `Swept`: the child is ended before the
  readers are awaited, and the call returns after both.
* `LosesNoLine` (`NoLineLost`). The invariant `Flow` follows a line from the pipe
  through the reader's hand and the queue to the handler; `ItemsPlaced` says that
  only the reader of stdout ever carries one. Which lines a queue holds is a
  recursive function of the queue, so the proof first shows what an item put at
  the end adds to it.
* `WholeSuccess` (`SuccessIsWhole`), from `Account` (what was handled before and
  after the settlement) and `LosesNoLine`.

`PiRpcProtocolProofs`

* `Typed` (the client's sets and maps of calls agree) is not inductive: nothing in
  it forbids a second call while one is open. `Books` says that there is none, is
  one open call, or is one closed call.
* `SixSuffice` (`EvidenceSuffices`, for `MaxEvidence >= 6`; the code has 64).
  `Counted` bounds what is retained by the flags and calls that were set for it.
* `ProtocolInvariant` (`ProtocolInv`), from which `SettlesLawfully`
  (`SettledIsLawful`), `RefusesDeservedly` (`RefusalIsDeserved`) and `JudgesRightly`
  (`VerdictIsRight`). The client forgets the transcript, so the invariant tells the
  transcript from what is kept: `Opening`, `Ending`, `Speaking`, `Calling` and
  `Keeping` say where in it each flag, call, text and retained event comes from.
  A refusal is deserved because the event contradicts one of them, and an
  extension of a transcript that contradicts them is not lawful either.

`KioskProofs`

* `KioskInvariant` (`KioskInv`), from which `Typed` (`TypeOK`), `StaysAwake`
  (`Awake`) and `DeadlineForgives` (`RefusedOnlyEarly`), which holds whatever
  the browser's clock says: the invariant ties neither the timer nor the form to
  `due`. `Awake` is not inductive: a page might answer a navigation of another
  scene. The invariant adds which pages and requests can exist before the
  submission (`Early`), how far the prompt's form can have got while its page is
  there (`Prompting`), that the round is started only from where it is ready
  (`StartsReady`), and that a script that holds the button polls or is about to
  be replaced (`Polling`).
* `BoardRight` (`BoardIsRight`), for any number of other players and any scores.
  `Before` is a strict total order on rows with distinct ids, so counting the rows
  before a row numbers the rows without gaps (`Places`, `PlacesTaken`), `Ordered`
  sorts (`OrderedSorts`), the rank computed row by row is one more than the number
  of better scores (`BetterAbove`, `EntriesRank`), and the window is a stretch of
  the entries that has the player's own and its neighbours (`WindowShows`).

`GeneratedArtifactsProofs`, for any attempts and rounds, any files an agent may
write, any number of starts and any bound of the reconciliation

* `ArtifactInvariant` (`ArtifactInv`), from which `Typed` (`TypeOK`),
  `PicturesWhole` (`PublicIsWhole`), `ReferencesKept` (`ReferencedKept`) and the
  action property `OthersAlone` (`OthersUntouched`), from the call that takes
  the lock to the one that frees it. None of the three invariants is inductive.
  * `Tree` says of every entry which place it has, under whatever marks, that it is
    of the kind of its place and in a directory. That a rename keeps it is the
    lemma `TreeRenamed`, on which `TypeOK` rests.
  * `PublicIsWhole` speaks of the names the mount serves, but a directory may come
    back to such a name from a quarantine name. `WholePictures` says the same of
    every picture under the name of its attempt, wherever its directory is, and
    `Locked` that what `os.replace` moves is the file that was parsed.
  * `Pictured` keeps the picture of a durable round. It needs `Sweeping`: nothing a
    durable round refers to is planned or captured, and what is captured is a way
    down from a planned root and still there, so the unlink at its end hits what
    the plan meant. A picture becomes referenced only where one was published,
    and `Lives` says that it is still at its name then.
* `SweepLeft` (`SweepLeaves`), an action property that looks back at all a start
  did. `Accounts` has it step by step. `Home` is the name an entry had when this
  start planned; `Placed` says that the captured paths tell where every entry
  has got to; `Accounted`, that an entry with a canonical home is still planned,
  is captured, or has a reason to be left. `Past` gives the uniqueness of
  quarantine names: none has the number of a start to come.
* `ParserExact`: `Parses` and `WellFormed` agree on files of any number of
  chunks. What the parser's state says after n chunks (`Told`, `Counted`) is
  shown by the induction of `Recursion`, over a recursive function.

The proof of `ParserExact` found an unclear place in the model: the arms of
`Consume`'s CASE overlapped, so which of them applied rested on TLC's trying them
in order. At most one applies now; what the parser accepts has not changed.

`Recursion` proves induction over the naturals for a set of numbers, without an
operator parameter, from the library's theorem that `<` is well-founded, and
that a recursion over 0 to k has a solution. The proofs about `LinesOf`,
`Entries` and `Parses` use it.

`ServiceInv`, `ProtocolInv`, `KioskInv`, `ArtifactInv` and `Accounts` were
model-checked on the instances of the runs `Attempts`, `Protocol`, `Kiosk` and
`Artifacts` before they were proved.

Only model-checked: all liveness (`ShutdownCompletes`, `AbandonStopsProvider`,
`AttemptsEnd`, `ExchangeEnds`, `ReturnsUnlessStuck`, `SlotsReturn`, `SweepEnds`,
`GenerationSettles`, `RevealLeads`), which is out of the prover's reach. Every
invariant and every safety property of a step that a passing run checks is a
theorem. The five findings of section 5 are counterexamples, so there is nothing
to prove of them.

## 5. Where code and documentation part

1. `ReaderStuck` (`ai/pi_rpc.py:305`). A reader that waits at a full queue when the
   consumer has stopped is cancelled once, and its `finally` waits at the same
   queue again. Nobody empties it, so `_cleanup_process` waits for the reader
   without a bound and `run_pi_rpc` does not return, nor does a cancellation get
   through. `design/code-architecture.md:297-310` promises a hard deadline and
   that the child is awaited. `ReturnsUnlessStuck` shows it is the only way a
   cleanup fails to return. The run that made the call never releases its
   admission slot (`ai/pi_pipeline.py:165`); after as many such calls as there are
   slots every attempt is refused as busy until the process is restarted, which
   `SlotsReturn` names as its exception.
2. `FencedPicture` (`services/game_round.py:670`). If the heartbeat's loss is
   noticed together with the provider's success, the picture stays until the
   next start. `design/code-architecture.md:319` says it is removed.
   `OrphansAreExplained` shows there is no other way but a crash.
3. `FailureClaim` (`services/game_round.py:1029`). A failure that finds its snapshot
   stale raises a conflict and keeps its live claim until the lease expires.
   `design/code-architecture.md:223` says the claim is released. `LeftoverLapses`
   bounds the damage: the round can be taken over after a lease.
4. `LostPicture` (`ai/generated_artifacts.py:1198`). To see whether the public
   directory of a round can go, the reconciliation renames it to a quarantine
   name and, when it still holds the picture of a durable round, back. A crash
   in between leaves the quarantine name, which later starts skip: the picture
   answers 404 for good. The docstring at 332-334 promises to remove a picture
   only when its URL is absent; `README.md:16` says pictures are retained.
   `ReferencedKept` shows that the file itself is never deleted.
5. `StaleScene` (`server.py:679`). `generating_scene` reads the record for its
   layout, and the record and the claim again for the status. When an attempt
   commits in between, the page fits neither state, its script does nothing, and
   the picture that is ready is not shown until the player presses something.
   `design/ui-scenes.md:70-72` says it is revealed by itself.

Two disagreements have no run. `design/ui-scenes.md:65-66` says that the current
prompt is submitted when the countdown reaches zero. The page counts with the
browser's clock (`templates/prompt.ts:15-19`, `43-47`); one that is ahead of the
server's sends `timeout` before the server's deadline, and
`services/game_round.py:244-246` refuses it, so the player sees an error page
and the prompt is not submitted. `RefusedOnlyEarly` names this and the press
with nothing typed as the only refusals. It has no run because the sentence
supposes clocks that agree, and then the timer is never early. And
`design/code-architecture.md:333-336` has bounded admission before claim
acquisition; the service acquires the claim first (`services/game_round.py:342`)
and the pipeline admits later (`ai/pi_pipeline.py:160`). `PiPipeline` models
that order; a refused admission becomes a recorded failure.

## 6. Not modelled, and the plan

Left out for good: rendering, cookies and status codes; parsing and validation of
content and configuration; scoring, which is arithmetic on floating-point
weights; the caller-time methods of the claims repository, which the service does
not use; the tools and the sound assets, which have no behaviour over time; the
fake pipeline, a test double whose outcomes are among the provider's.

Left out so far: staff login and search (`services/staff.py`), which touches no
round; the public leaderboard page, the first rows of the order `Leaderboard`
defines; the importer's directory swap (`content/importer.py:307`), two renames of a
tool run by hand; `deploy/deploy.py`, whose check for running attempts happens
before it stops the service, and what the stop does is `ShutdownCompletes`; the
bridge of the agent, `deploy/codex-bridge.ts`, which is part of the environment
`PiRpcProtocol` leaves free.

What is left of the proofs is what was named above: liveness stays with TLC. The
next things to model would be the staff routes and the directory swap.

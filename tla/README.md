# Specular: a TLA+ verification project

Specular keeps an author's private workspace in three places: on the screen, in
a record of the browser's IndexedDB, and in a D1 database behind a Worker. What
the author is promised is simple to say: nothing written is lost, overwritten or
blended, a screen that says "Saved" means it, the model that organizes, reflects
and transcribes never writes over the author, and leaving or coming back changes
none of that. It is hard to get right, because every one of those places is
reached by an asynchronous call that may be late, lost or repeated, and because
several tabs, devices and handlers work at once. These modules model that core,
and the earlier product that is kept in the same repository: a local
conversation with its database, its voice sessions and its native server.

Paths below are relative to the root of the repository. `PROJECT.json` maps each
definition to the lines it models, lists the hazards of the code at their lines,
and names for every property a plausible bug of the code that it catches (the
operators marked `\* mutant`; nothing uses them).

## 1. Inventory of the system

| component | state | operations | talks to |
|---|---|---|---|
| **Hosted workspace** `worker/index.ts`, `db/schema.ts` | one row per account: namespace, revision, state; receipts of applied mutations | read (creates the row), save by compare-and-set, archive, delete account | D1, one statement or batch at a time |
| **Inference allowance** `worker/index.ts` 485-547 | a row per UTC day: global count, counts by account, last reservation | reserve one model call | D1; called by four routes |
| **Model-backed handlers** `worker/index.ts` 192-484 | none | reflect, organize, transcribe, clean | the allowance, the provider; called by App |
| **Reconciliation** `src/sync/workspace-sync.ts` 30-154 | none: a pure function of three workspaces | three-way merge with conflict copies | called by push |
| **Synchronization** `src/sync/workspace-sync.ts` 156-345 | base, revision, status, save sequence, queue of puts, queue of pushes; the device's record | load, save, push, clear, close | hosted workspace over HTTP; IndexedDB; App through promises and a status listener |
| **Authoring** `src/app/App.tsx` | React state of the workspace, selection, dictation draft, calibration field, flags of requests in flight | edit, branch, delete, organize, reflect, correct, snapshot, settings; debounced save, retry when online, archive, sign out | all of the above |
| **Published snapshots** `worker/index.ts` 628-675, `src/thinking/share-client.ts` | rows with owner, payload, visibility, revocation | publish, read, list, revoke | D1; two revocation paths in App |
| **Leaving** `src/app/App.tsx`, `src/pwa/reload-safety.ts` | a way out under way, the device recovery that covers for it | sign out, delete the account, update the application | synchronization, the Worker |
| **Session boundary** `src/auth/*` | the verified session, a verification in flight | verify (timer, focus, online), lock on 401 | `/api/session`; an event bus |
| **Dictation** `src/dictation/capture.ts` | session number, recorder, stream, wake lock, transcription queue | start, pause, resume, finish, cancel; interruptions | browser media; transcription route; App's draft and calibration field |
| **Local conversation** `src/application/conversation-service.ts`, `src/app/use-specular.ts` | the page's view and activity; nothing between calls | submit, retry, conclude, keep, finish, activate, delete, accept an exchange | the repositories, the provider |
| **Local database** `src/storage/*`, `src/application/product-telemetry.ts` | four stores of IndexedDB, a remembered failed migration, telemetry preferences | transactions, open and migrate, recover, reset, export | several pages at once |
| **Native server** `server/*` | the limiter's map; per request a deadline, an abort signal and an operation | HTTP routes, an operation with one repair, realtime credential, MCP | provider, telemetry sink |
| **Realtime voice** `src/voice/*` | sessions, an accumulator of events, a queue of completed exchanges | start, stop, events, accept, speak | WebRTC, the conversation |
| **Exports, PWA updates, components, tooling** | none of their own | formatting, plumbing, rendering, evaluations | - |

What is hard in each, and what makes it correct:

- *Hosted workspace.* Handlers overlap between statements; requests are delivered
  twice; an account is deleted in three statements while saves run. Correct: one
  commit per revision; an acknowledged save was committed; a refused one never
  takes effect; a refusal moves the device forward.
- *Allowance.* The test precedes the count by a round trip, the day's row is
  created by whoever comes first, midnight passes in between. Correct: no limit
  is exceeded, and nothing is refused below it.
- *Model-backed handlers and the margin.* The author goes on writing, deleting
  and correcting while an answer is awaited. Correct: no late answer replaces the
  author's words, title or tag; what was said about one reflection stays with it;
  nothing shows as busy for ever.
- *Reconciliation.* Two independent edits of anything. Correct: no words are
  lost, independent changes combine without a copy, structure follows the words,
  and the version kept is the server's, intact.
- *Synchronization.* A merge lands while the author goes on writing; saves queue
  behind a push; answers are lost; tabs close; two tabs share one record.
  Correct: "Saved" is true, no writing leaves the device but for the server, and
  the tabs come to rest.
- *Published pages, leaving, session.* Older answers after newer ones, lost
  answers of requests that are not idempotent, an edit made while the way out is
  being saved. Correct: pages are as the author was told; leaving keeps all
  writing and clears the device; the gate shuts when the session is over.
- *Dictation.* Five kinds of callbacks (permission, wake lock, stop events,
  transcriptions, cleanup) arrive after the session that asked for them may be
  over. Correct: the draft shows what the recorder does, holds its own words and,
  when reviewed, all of them; the microphone does not outlive it.
- *Local conversation and database.* A call reads rows, waits for the provider,
  and writes whole rows back; a voice exchange, another page or a reload comes
  between. Correct: what is stored can always be exported, every accepted turn
  has one reply, a finished thread is never written again; a cleaned-up run of an
  effect holds no connection, and events outlive no withdrawal of consent.
- *Native server.* A deadline, a departing client and a provider race to end one
  request; the limiter forgets addresses. Correct: one answer, true to what was
  validated and recorded; fairness to an address.
- *Voice.* Permission, credential and connection settle after their session was
  replaced; provider events come in any order. Correct: silence when inactive,
  replies paired by their links.

## 2. Modules

| module | what it is |
|---|---|
| `WorkspaceServer` | the handlers of the hosted workspace, one action per SQL statement |
| `RevisionRegister` | what they promise a device: a register of numbered states |
| `WorkspaceServerProofs` | theorems about `WorkspaceServer`, with proofs |
| `InferenceQuota` | the daily allowance |
| `Interlocutor`, `InterlocutorProofs` | organization, reflection and calibration in App, over the four routes, each behind `InferenceQuota`; the theorems of both |
| `Reconcile` | three-way merge of a collection by id: pure operators |
| `Reconciliation`, `ReconciliationProofs` | two sides edit a workspace as App does, then `reconcileWorkspaces` merges them; its theorems |
| `WorkspaceSync`, `WorkspaceSyncProofs` | tabs, devices' records and the server, over `Reconcile` and the register; its theorems |
| `SessionBoundary` | the gate: verification and loss of authentication |
| `HostedPage`, `HostedPageProofs` | App behind the gate: published pages, and the ways an author leaves; its theorems |
| `DictationCapture`, `DictationCaptureProofs` | the dictation controller, its recorders and queue, and the draft App makes of it; its theorems |
| `LocalRepositories` | the transactions of the local database and the integrity an export demands: pure operators |
| `Conversation`, `ConversationProofs` | pages whose calls read, wait and write those repositories; its theorems |
| `LocalDatabase` | opening, failed migration, recovery and reset of the database, and telemetry |
| `LegacyServer` | the native server: a request from its headers to its answer, and the limiter |
| `RealtimeEvents` | the accumulator of a voice session's events: pure operators |
| `RealtimeVoice` | the voice sessions, the queue of exchanges and the hook, over `RealtimeEvents` |
| `NativeProofs` | the theorems of `LocalDatabase`, `LegacyServer` and `RealtimeVoice`, which share no state |
| `MC...` | constants and bounds for TLC |

How they compose: `WorkspaceSync` takes the server for one atomic
compare-and-set; that `WorkspaceServer` may be taken for that is what
`ImplementsRegister` says, by a run and by a proof. `HostedPage` extends
`SessionBoundary`, whose answers mount and unmount the page. `Interlocutor`
extends `InferenceQuota` and uses its actions as they are. `RealtimeVoice` hands
exchanges to the page; what becomes of one is `Conversation`'s slot "voice".
`Reconcile` is used by `Reconciliation`, which has the whole structure of a
workspace and no concurrency, and by `WorkspaceSync`, which has all of the
concurrency and of a workspace only documents and settings.

### WorkspaceServer

`row` and `receipts` are the account's rows in the two tables; tables are keyed
by account and no statement names two, so one account is enough. A handler has a
program counter (`pc`), its parsed request (`input`), the row its `workspaceFor`
returned (`cur`) and, when it ends, an `answer`. D1 runs a statement, or a batch
in one transaction, atomically, so each is one action: `Select`, `Insert`,
`Reselect` (`workspaceFor`), `Lookup` (the receipt, then the revision), `Batch`
(conditional update and conditional receipt), `Won`, `Relookup`, and the three
deletions of `deleteAccount`. `Fail` stops any handler before any statement: a
statement that throws answers 503 and keeps what was committed. A save carries
any revision the devices may have learnt, however old, and may be a second
delivery of an earlier one. `log` is a history variable: what was committed.

### InferenceQuota

`usage` is the row of each day. `Arrives` reads the clock once; `ReadUsage`,
`Update`, `InsertUsage` and `Retry` are the four statements; `Midnight` moves the
clock between any two. A request whose reservation was counted may still fail
(`Fail` after `admitted`): the code does not give reservations back. `granted` is
history. The reservation id that the code compares is the identity of the
request: a statement's own RETURNING row is the only one it reads.

### Interlocutor

One document of one page. `order`, `block`, `title`, `consent` and `selected` are
the document as the author sees it: of a block, how many words it has, the kind
it is classified as, and its version (`updatedAt`); `read` is the version the
generated kind was made from, which the code does not store. `organizer` is
`organizationInFlight` with the fingerprint of the last attempt, `busy` is
`reflectionBusy`, `correction` the calibration field with its dictation's session
and status, `mic` what the controller holds, `finishing` where
`finishCalibrationDictation` awaits. `asked` is what the page awaits of each
inference request.

A request is the page's (`Organize`, `Reflect`, `Respond`, `Checkpoint`...) and
then the Worker's: `Reserves` are the statements of `InferenceQuota`, `Hears` is
the answer of a request that was admitted, refused or failed, with whatever the
handler may have made of it, together with what the page does with it
(`Organized`, `Reflected`, `Transcribed`, `Cleaned`); `Lost` is an answer that never
comes. A transcription whose dictation was cancelled is "unwanted": the
controller's session has passed and it changes nothing. Requests of the other
account compete for the global allowance.

What React derives from state is derived here: the selected block, its newest
open annotation (`Current`), and the effect on its id that empties the field
(`Shown`). `Environment = {}` is an author who does not delete the block a
reflection is awaited for, nor turn elsewhere while a correction is dictated;
section 3 says what happens to the other one.

### Reconcile and Reconciliation

A collection is a function from ids to values, `Absent` outside its domain.
`ThreeWay` is `reconcileById`, and what the loops of `reconcileWorkspaces` do to
documents that only one side changed; `Conflicts` are the documents both sides
changed. In `Reconciliation` a document is the side that wrote it last, whether
its title leaves room for a suffix, and its sequence of blocks; every edit of
App stamps what it changes, so material written by two sides never coincides.
The edits are App's: write, retitle, branch, delete a block (with its
connections, annotations and snapshot entries), create a document (and open it),
snapshot, annotate, change a setting. `Merge` is one call of
`reconcileWorkspaces`, with the order of its steps that matters: the copies of
conflicting documents and what depends on them first, then the merge by id of
what remains. `BaseAssumption` is what the application's own workspaces satisfy: a
block is in one document, once, and connections and snapshots stay in one
document. Ids of copies and links are new, as UUIDs are (`CopiesAreNew`).

### WorkspaceSync

Per tab: `view` and `timer` (React state and the armed debounce of 180 ms),
`base`, `rev`, `status` (fields of `WorkspaceSynchronization`), `saves` (calls of
`save` not yet pushing, with whether their record is stored), `push` (the one in
progress), `phase` and `fetched` (progress of `load`). Per device: `cache`, its
record, and `writes`, its IndexedDB puts in order. `history` is the server,
revision by revision, and `late` the requests nobody waits for any more.

Between two awaits of the code lies one action. `Open`, `Fetch`, `Loaded`,
`LoadFails` are `load`; `Debounced`, `Online` and `SaveNow` are the callers of
`save`, whose `Save` queues a put and a push; `StartPush`, `Serve`, `SavedAnswer`,
`ConflictAnswer`, `Fails` are `push`; `Stored` completes a put and resumes
whichever await was on it (`LoadStored`, `SaveStored`, `ResultStored`,
`MergeStored`); `Resolve` is App's use of what a push resolves to; `Close` is a
tab that closes, reloads or crashes, whose puts still complete or are aborted. A
put that follows a save's reads `base` and `rev` when it is issued, not when the
save was called, as the code does.

A document's material is the number of the edit that made it. `seen` remembers
the material each edit was made over, so that "overwritten" can be told from
"edited". A setting has two values and can be changed back; a document cannot
(`updatedAt`). Blocks, connections and snapshots are `Reconciliation`'s concern.

### SessionBoundary and HostedPage

`gate` is what `SessionBoundary` shows, whether it has a verified session, and
the one verification in flight with the answer it will bring; `signedIn` is the
platform's session, which ends or begins anywhere. `Verify` has the code's guard
(nothing while one is pending, nor offline once verified); `Unverified` is a
failed request; `LosesAuthentication` is what any protected request's 401 does.

`HostedPage` is the App that is mounted while the gate is open. A workspace is
how much was written and, for one snapshot, its published link and the readers
shown. `saves`, `status`, `base` and `device` abstract `WorkspaceSync`: a save is
stored on the device and then reaches the server or not. `pages` are the rows of
the Worker, `calls` the requests somebody waits for, `adrift` those whose page
is gone (they still reach the server). `leave` is a `signOut`, `deleteAccount` or
update under way, at each of its awaits: the save, the status read after it, the
device recovery that covers for unsynced words, the clearing of the record, the
navigation. `told`, `left` and `files` are history: the links the author was told
are revoked, the workspaces left with, the downloads made. Under `Plans` a run
explores publishing or leaving, with the same code; the bound of each is its own.

### DictationCapture

`capture` is the controller: its `session` number, whether it has handlers
(`handling`), its stream, recorder and checkpoint timer, `continuing`, and the
transcription `queue`. A `chunk` is what one recorder records; it is recording,
stopping (`stop()` was called, its event is not delivered), queued, and then
heard, silent, failed or dropped. `draft` is App's, whose words are the numbers of
the chunks they come from, and `calls` are the calls of `start`, `pause` and
`finish` that await something: permission, the wake lock, a stop event, the
transcriptions queued when they looked, or the cleanup. The private methods
(`StopRecorder`, `Interrupt`, `StartRecorder`...) are functions from one state of
the controller to the next, because the code calls them inside one another:
`Transcribed("failed")` interrupts, `StopEvent` queues and perhaps starts the next
recorder, as one step. What resumes in a microtask (`Ready`) comes before any
event or click (`Quiet`). `Environment` says how patient the author is.

### LocalRepositories and Conversation

`db` is the stores: threads with their lists of turn ids, turns, capsules. Each
operator of `LocalRepositories` is one IndexedDB transaction, with the assertion
that may refuse it (`...Allowed`) and the stores it leaves; `Exportable` is the
integrity that `parseSpecularExport` demands.

`call` holds, for each page, the call behind its controls (slot "ui", which the
hook's activity makes exclusive) and the acceptance of a voice exchange (slot
"voice"). A call is a program counter with what it read; every await of the
service that reads, writes or waits for the provider ends a step, so other calls
come between a read and the transaction that writes the whole row back. A page
may reload anywhere (its call is gone, the stores stay), a write may fail
("quota"), an answer may fail. `view` is the hook's view model.
`Environment` without "overlap" is the exclusion the passing run needs: a voice
exchange is not accepted between the reads and the write of another call.

### LocalDatabase

`run` are the runs of a page's effect, each waiting for the browser to open the
database, reading, or done, active or cleaned up; `deps` is the run whose
repositories the page uses; `view` are the three fields of the view model that the
effect and the reset set, `initialized`, `recoveryRequired` and whether there is
an `error`. `requests` is the browser's queue: the openings and deletions of one
database are served in the order they were made. A migration may fail on an absent
database, which the page remembers (`failed`), shows as recovery and refuses
writes over until it is reset. An opening may fail without a migration, and a read
may fail on a closed connection or an open one: both add an error to the view as
it is. A reset deletes the database, which waits until every connection is closed,
also those of other pages (their `versionchange` handler closes them), and forgets
the failure; the page then loads again with `recoveryRequired` set anew, which
only a successful read takes away (`use-specular.ts:281`). So a load that fails
after a reset leaves recovery beside an error with nothing remembered, and
`unlocked`, the state of `StorageRecovery`, stays over a reset. In this commit
only tests mount `useSpecular` and `StorageRecovery`. Telemetry events are stored
with `consent`, the number of times it was switched on, so that an event can be
told to be older than a withdrawal.

### LegacyServer

A request goes through `stage`s: header checks and limiter in one step, body,
provider, one repair when the output does not validate, record, answer. A
deadline or the client's departure (`cut`) may come at any of them. `entries` is
the limiter's Map in insertion order, with expiry, eviction and counting as the
code does them; `served` is history. `log` is what the telemetry sink was told.
The limiter sees only that a request comes and from where, so `MCLegacyServer`
explores all of a request while few were admitted, and the limiter after that.

### RealtimeEvents and RealtimeVoice

`RealtimeEvents` folds provider events into an accumulator: items and their
links, transcripts, response outputs and statuses, each possibly repeated or out
of order; a contradiction is malformed and ends the session. It emits a pair once
its parts and the chain of links between them are known. `RealtimeVoice` has the
sessions of the controller with what each has acquired (deadline, credential,
microphone, channel), the queue of exchanges saved one after the other, speech,
and the hook, which follows the page's thread.

## 3. Properties and runs

| run | properties | what they say |
|---|---|---|
| `server_live` | `RefusedNeverCommits` | a refused mutation never takes effect, before or after |
| | `ConflictMovesForward` | a refusal carries a committed row later than the base it was sent with |
| | `ImplementsRegister` | the handlers refine `RevisionRegister` |
| `server_erase` | `ServerInv` | the inductive invariant, with deletions |
| | `OneCommitPerRevision` | compare-and-set within a generation |
| | `AcknowledgedWasCommitted` | "saved at n" means that n was committed with that state |
| `interlocutor` | `AllowanceInv` | neither an account's limit nor the global one is exceeded, and nothing is refused below both, while a page makes the requests |
| | `MetadataOfTheseWords` | a generated kind or title is of the very text that is on the page, and replaces none of the author's |
| | `MarginInv` | types; an annotation has its block (`Anchored`); a correction is never under another reflection (`CorrectionStaysPut`); a live microphone shows as recording (`MicrophoneShown`); each flag is up exactly while its one request is awaited (`OneOfEach`) |
| `reconciliation` | `WordsSurvive` | what either side wrote is in the result, under its id or in a copy |
| | `IndependentChangesCombine` | copies only of documents both sides changed; one-sided settings and annotations are kept |
| | `StructureSurvives` | connections and snapshots of a changed document follow its words; none dangles |
| `sync_patient` | `WritingInv` | types; no last writer wins (`NothingOverwritten`); no document disappears (`DocumentsStay`) |
| | `SavedMeansSaved`, `NoNeedlessCopy` | "Saved" is true; no copy of words that do not conflict |
| `sync_faults` | `BaseIsARevision` | the base of every merge is the revision sent with it |
| | `DeviceKeepsWriting` | under "Saved on this device" all writing on the screen is in a record that will be saved again, or the server has held it (`UnsyncedIsStored`); writing leaves a record only for the server or for later writing (`RecordsKeep`; one tab a device) |
| | `Settles` | unless a save was lost, every open tab comes to show "Saved" and stays there |
| `hosted` | `PagesAsShown` | a working link has the readers shown; one the author was told is revoked never works; none does once the account is deleted |
| | `LeavingKeepsWords` | what was written when the author signed out is on the server or in a download, at an update there or in the device's record (words given up with a deleted account are exempt), and signing out or deleting clears the device |
| | `GateShuts` | once the session has ended for good, so has the view of the workspace |
| `dictation` | `MicrophoneInv` | types; "Recording" is shown only while something is recorded, or between two chunks; no stream outlives its dictation |
| | `OwnWords`, `ReviewIsComplete` | a draft's words were said in it, in order, once; under review it has every chunk that was not interrupted |
| | `ProcessingEnds` | "Preparing" ends |
| `conversation` | `ConversationInv` | what is stored can be exported; a capsule cites accepted turns of its range |
| | `OneReplyEach` | a user's turn is accepted exactly when one reply to it is stored |
| | `ShownIsStored` | a page without a call in flight shows the thread and turns that are stored |
| | `FinishedIsFinal`, `CallsEnd` | a finished thread is never written again; every call ends |
| `local_database` | `LocalDatabaseInv` | types; only a page's current run has a connection (`OnlyCurrentRunOwns`); a page that ended in recovery or an error writes nothing, and recovery without an error beside it rests on a remembered failure (`RecoveryIsPaused`) |
| | `OptOutIsFinal`, `ResetEnds` | stored events are of the present consent; loading and resetting end |
| `legacy_server` | `HonestAnswer` | the answer, the telemetry and the validation agree; one repair; nothing is sent to a client who left |
| | `Answered` | every request ends, whatever body, provider and client do |
| | `FairLimiter` | the limiter is bounded and counts against an address only what it was admitted; while the addresses fit, none is admitted more than its allowance at an instant, nor twice that in a window's length |
| | `OldestForgotten` | a window that still counts is forgotten only by a full limiter, when all it remembers count and end no earlier, and alone |
| `voice` | `SilentWhenInactive` | no microphone or speech without an active hook; one microphone at most |
| | `PairedByLinks`, `ConnectingEnds` | a reply is paired with the user item the links lead to; connecting ends and the queue drains |

All runs pass. Where the code does not do what a document, comment or test of the
repository says, the run leaves that case out by a constant, and TLC finds the
counterexample when the constant is put back. These are the ones we know, each
with the change that shows it:

- *Lost update.* `NothingOverwritten` in `sync_patient` with one document, no
  setting, three edits, `Environment = {"impatient"}`: a save queued behind a push
  that merges was taken from the screen before the merge; it is pushed unmerged
  at the new revision (`workspace-sync.ts:234`) and the other device's words are
  gone. `docs/adr/0011`: "Specular preserves both versions by creating a conflict
  copy rather than applying last-writer-wins".
- *First load.* `DocumentsStay` with `Environment = {"impatient", "load"}`, two edits
  and one fault: a first load that fails leaves a blank workspace on the screen
  (`App.tsx:964`) which the author's next edit puts over the account's documents.
  `.scratch/specular-multitenancy/issues/04`: "Synchronization never merges,
  rewrites, or discards document prose."
- *Next generation.* `GenerationIsolation` as an invariant of `server_erase`: a save
  that checked its namespace before an account's deletion is written into the
  next generation, since the conditional update does not name the namespace
  (`worker/index.ts:605`). `.scratch/specular-multitenancy/spec.md:86`: "Rotate
  that namespace when all account data is deleted so stale devices cannot reapply
  pre-deletion changes."
- *Overlapping dictations.* `OwnWords` in `dictation` with `Environment =
  {"overlap"}`: the cleanup of a cancelled dictation is put into the draft of the
  next one (`App.tsx:1398`), which is shown for review while it still records;
  `capture.test.ts:123`: "ignores a late transcript after the author cancels
  capture".
- *Title.* `merged # <<NoResult>>` is violated in three steps of `reconciliation`:
  a conflicting title of more than 284 characters leaves no room for
  " (Conflict copy)" (`workspace-sync.ts:96`), the schema rejects the merge, and
  every later push of that document throws again.
- *Server's version.* `ServerVersionIntact` as an invariant of `reconciliation`:
  deleting a block of a document that was changed elsewhere removes its
  connection from the server's version, which is kept (`workspace-sync.ts:115`).
- *Lost answer.* `NoNeedlessCopy`, with `Environment = {"answer"}` and one fault:
  a save applied without an answer is retried under a new mutation id
  (`workspace-sync.ts:218`), conflicts with itself, and leaves a copy of the
  author's own older words. (The issue that introduced synchronization says
  "Retried mutations are idempotent".)
- *Online retry.* `NothingOverwritten`, with `Environment = {"request"}` and one
  fault: `retrySynchronization` (`App.tsx:1007`) ignores what `save` resolves to,
  so that a merge stays off the screen and the next edit overwrites it, even for
  an author who waits.
- *Screen ahead of the record.* `UnsyncedIsStored` without `OnServer`, with
  `Environment = {"request", "saveNow"}`, three edits and two faults: while the
  result of a merge is stored, `SaveNow` saves the screen that does not show it yet.
  The merge comes on the screen and equals the base, so the debounced save returns
  early (`workspace-sync.ts:215`); the older screen becomes the record (`:221`) and
  its push fails. "Saved on this device" then covers words that only the server has;
  none is lost, which is what the property says.
- *Taken back.* `SavedMeansSaved`, with `Environment = {"impatient"}` and a
  setting: a setting changed back before the first save's record is stored
  equals `base` while `status` still is "synchronized" (`workspace-sync.ts:215`);
  it is not saved, and "Saved" is shown over a server that holds the change.
- *Two tabs.* `DeviceKeepsWriting`, with `DeviceOf <- OneDevice`,
  `Device = {v1}`, `Environment = {"request"}` and one fault: a second tab that
  loads puts the server's workspace over the first one's pending record
  (`workspace-sync.ts:197`).
- *Interrupted early.* `RecordingMeansRecording`, with `Environment = {"wake",
  "early"}`: an interruption while `start` waits for the wake lock closes the
  stream; `start` then records nothing and still calls `onStarted`
  (`capture.ts:82`), which shows "Recording" over the interruption.
- *Cancelled, then begun again.* `RecordingMeansRecording` and `MicrophoneOff`,
  with `Environment = {"overlap"}`: a `finish` whose dictation was cancelled goes on
  when its transcriptions are done, and closes the stream of the next dictation
  (`capture.ts:106`), or shows it for review with the microphone open.
- *Done at a checkpoint.* `ReviewIsComplete`, with `Environment = {"quick"}`: when
  Done falls between a checkpoint's `stop()` and its event, the recorder is
  already inactive and `finish` does not wait for the chunk (`capture.ts:154`); the
  draft goes to review without its last words. `OwnWords`, with the same
  environment: the stop event of a cancelled recorder is delivered after the next
  dictation began and is queued under it (`capture.ts:139`).
- *Uprooted reflection.* `Anchored` in `interlocutor` with `Environment =
  {"uproot"}`: a reflection is added under the block it was asked for although the
  author deleted it meanwhile (`App.tsx:1693`). The merge then carries an
  annotation of no block.
- *Restless correction.* `CorrectionStaysPut` and `MicrophoneShown` with
  `Environment = {"restless"}`: the effect that empties the field when another
  reflection is shown (`App.tsx:1201`) does not cancel the controller. The
  microphone stays on under an idle field, and a finish that resumes late
  (`App.tsx:1308`) writes one reflection's correction into another's field, or
  over what was typed since. `.scratch/specular-refinement/issues/03`: interruption
  "makes it impossible to mistake capture for still recording".
- *Cleared without a request.* `ClearedWhenSent` as a property of `interlocutor`, as
  it stands: Respond on a reflection whose block has lost its words sends nothing
  (`App.tsx:1661`) and the typed correction is cleared all the same (617). The
  same issue: "clears the ephemeral draft only after the request starts
  successfully".
- *Overlapping readers, publishing, saving.* `PagesAsShown` in `hosted` with
  `Overlap = {"readers"}`: the readers chosen while a page is being published are
  shown but not the page's (`App.tsx:815`, 830); with `{"publish"}`: a page
  published while the account is deleted outlives it (`App.tsx:2096`).
  `LeavingKeepsWords` with `{"save"}`: an edit made while the way out is saved is
  covered by nothing (`App.tsx:1067`; `.scratch/specular-multitenancy/spec.md:39`).
- *Two pages of one conversation.* `AlwaysExportable` in `conversation` with `Page =
  {1, 2}`, one thread, four turns, no capsules, `Environment = {}`: a thread deleted
  in one page while the other awaits a reply; the reply's transaction puts the
  whole thread, or a turn without one, back (`indexed-db.ts:472`). The design
  (`docs/superpowers/specs/2026-07-09-specular-production-design.md:268`) says
  otherwise. With `Environment = {"voice", "overlap"}` the same happens in one page: an
  exchange's turn ids are lost from the list, or a deleted thread comes back.

Smaller ones, seen while modelling and not stated as properties: more than 200
written blocks make every organization request a 400 (`worker/index.ts:106`); a
result is applied although consent was withdrawn while it was awaited; leaving a
block's field marks the document changed and so discards a title under way; a
reflection that fails takes the typed correction with it; the answer of a revoke
that was applied is lost, and the retry answers 404 (`worker/index.ts:661`); the
answer of a publish is lost, and publishing again makes a second page (640); a
deletion whose answer is lost shows "Nothing was removed" (`App.tsx:2097`); the
status of a locked session is set to synchronizing by a put that was pending
(`workspace-sync.ts:222`); a conclusion started from a capsule cites turns of
another thread; the text of a submit whose first write fails is gone from the
field.

## 4. Bounds, and why they are enough

- *Server.* Three savers and two readers, three mutations, three states; with
  deletion two savers, two readers and an eraser, two mutations, three namespaces:
  every pair of statements of two saves interleaves in every way, with a third
  handler's reads, a re-delivery and an account that is created again. The
  theorems remove the bounds.
- *Interlocutor and the allowance.* One reservation a day to an account and two in
  all, over two days. Either the page makes two requests, an organization and a
  reflection or a transcription and a cleanup in flight together, which race for
  the account's only reservation or for the day's first row; or it makes one, from
  its first workspace, while two other accounts make one each, so that three race
  for the two that the global limit leaves and one is refused below its own
  (`MCInterlocutor`). The theorems remove the bounds. One change by the author,
  three blocks, two reflections, a first workspace or one with two blocks and an
  open reflection. Which unused request is drawn makes no difference, so they are
  drawn in order. A page shares no state with the statements of the Worker, so its
  steps are explored before and after a request's statements and not between them
  (`Between`), and midnight while reservations are under way (`Passes`).
- *Reconciliation.* Two edits by each side of a workspace with two documents, a
  branch, a connection, a snapshot and an annotation. Two edits reach every
  pairing of kinds of change within and across documents.
- *Synchronization.* Two tabs, each on its device; one or two documents, a
  setting; two to four edits; two saves waiting in a tab (the one pushed is not
  counted); one fault. Four edits are what a device needs to be refused three
  times in one push. `Attempts`, 16 in the code, is 3, so that giving up is
  reached in `sync_patient`. In `sync_faults` it is 6, more than the conflicts one
  push can meet under the other bounds: with fewer than that many attempts a tab
  may end "Saved on this device" with nothing scheduled to retry it, which in the
  code takes sixteen competing saves during one push. Documents are symmetric
  where there are two; `sync_faults`, with liveness, uses no symmetry.
- *Hosted page.* One page to publish, words up to two, three faults, downloads or
  ways out for an author who leaves and one for an author who publishes.
- *Dictation.* Two dictations, so that one can be taken for the other; four chunks
  in all and the code's backlog of two, so that one chunk is recorded while two
  wait and the backlog is exceeded; three calls of `start` after a load, for a
  pause and an interruption in one dictation.
- *Conversation.* One page, three threads, five turns and a capsule: a finished
  thread beside an active one, two exchanges and a pending turn, a reload at any
  point. A conclusion needs one accepted turn instead of two.
- *Local database.* Two pages, three runs of each effect (a mount, a reset and
  another), two consents around one event. Three runs are what a load that fails
  after a reset needs, with a further reset behind it.
- *Native server.* One request at a time, on every route and at every stage until
  two were admitted; after that requests end at their body, by the timeout. Two
  admissions to a window of two ticks, the clock to 4, and two remembered of three
  addresses, so that forgetting the oldest differs from forgetting the newest or
  all. One address is admitted up to four times, the others twice: four are twice
  the allowance, and four within a window's length are what `FairLimiter`
  excludes.
- *Voice.* Two sessions, the second replacing the first; two user items and two
  responses in any order, with repetitions; one change of thread.

Deadlock is not checked: every module stops where its bounds do, when authors
have made their edits and handlers have answered.

## 5. Fairness

Liveness is claimed only where the code or its platform schedules the step.

- `WorkspaceSync` (`Settles`). `Protocol(t)` is weakly fair for each tab: promises
  resolve, a request that is not lost is answered, an armed timer fires.
  `Stored(v)` is weakly fair for each device: IndexedDB completes the puts it has
  accepted, in order. Nothing is assumed of authors, `online` events, failures or
  crashes. Behaviours that lose a save are excepted by the property, since
  after a lost save nothing in the code retries before the next edit or `online`
  event.
- `DictationCapture` (`ProcessingEnds`). A recorder that was stopped delivers its
  event, a transcription or cleanup answers or fails, and a resolved promise
  resumes whoever awaits it. The client abandons a request whose headers do not
  come within 45 seconds, but clears its timer when they come
  (`dictation/client.ts:49`): that a body which stalls then ends is assumed of the
  platform. Nothing is assumed of permission, the wake lock, the author or interruptions.
- `HostedPage` (`GateShuts`). `Verification` is weakly fair: an interval of the page
  starts one, and a request is answered or fails.
- `Conversation` (`CallsEnd`). Each slot's call is strongly fair: a database request
  completes and the provider is aborted after 15 seconds. Strong, because the
  exclusion of the two slots' sections may disable a call again and again;
  in the code nothing disables it.
- `LocalDatabase` (`ResetEnds`). The browser serves the request that is first in its
  queue, completes reads and delivers `versionchange`: weak fairness of each. That
  a page which resets again and again keeps nobody from opening is the queue's
  order, not an assumption.
- `LegacyServer` (`Answered`). Timers fire, the sink's promise settles, a response
  closes. Nothing is assumed of body, provider or client.
- `RealtimeVoice` (`ConnectingEnds`). React runs its effects, an acceptance begins
  and ends, the deadline fires. Nothing is assumed of permission, credential or
  connection.

`Interlocutor` claims safety only; that a flag does not stay up is `OneOfEach`,
which needs no fairness.

## 6. What is proved

`tlapm` checks every theorem below for all values of the constants, from the
named assumptions of the modules only: sentinels differ from real values, the
sets of handlers are disjoint, limits are positive, requests are finitely many.

`WorkspaceServerProofs`:

- `ServerInvariant` (`ServerInv`) is the induction. Beside types it says what each
  program counter knows (`LocalsOK`, `AnswersEndHandlers`), that every namespace in
  use was drawn (`NamespacesDrawn`), that a namespace's row is its latest commit or
  later and was committed (`RowIsLatest`, `RowWasCommitted`), that a mutation is one
  request (`OneRequestPerMutation`) and that receipts and acknowledgements point at
  commits (`ReceiptsAreEarned`). That the update tests the revision and that
  namespaces are never reused is what makes it inductive when accounts are deleted
  and created under running saves.
- `CompareAndSet` (`OneCommitPerRevision`) and `AcknowledgementIsDurable`
  (`AcknowledgedWasCommitted`) follow from it.
- `LivingAccountInvariant` assumes `Eraser = {}` and is the stronger induction:
  there is one generation, every commit has a receipt, a handler past the revision
  test sent the row's or an older base, every row read was committed, and a refused
  mutation has no receipt and can get none (`OneGeneration`, `CommitsHaveReceipts`,
  `BasePassed`, `RowsReadWereCommitted`, `RefusalIsFinal`). `RefusalsStand`,
  `ConflictsMoveForward` and `ServerImplementsRegister` rest on it: every action
  is mapped to a commit, an acknowledgement, a refusal or a stutter of
  `RevisionRegister`. They do not hold with erasers, and *Next generation* in section 3 is why.

`InterlocutorProofs`, on the allowance: `QuotaInvariant` says that the counters of a row are
exactly the cardinalities of the requests counted in it, by account and overall,
which needs that a request is counted once and on its own day; `QuotaLimitsHold`
and `QuotaRefusesOnlyAtLimit` follow.

`WorkspaceSyncProofs` holds for any tabs, devices, documents and edits:

- `BasesAreRevisions` (`BaseIsARevision`), in every environment: whatever is lost,
  late or crashes, and however many tabs share a record. The induction,
  `KnowledgeInv`, says what each place knows of the server's history: every record,
  every put on its way, what a load has fetched, the base of a tab and of its push
  are a workspace with the number of the revision it was. Each conjunct is a
  family over tabs or devices, and a lemma per action shows what it leaves to the
  others (`Untouched`).
- `NoLastWriterWins` (`WritingInv`) and `SavedIsSaved` (`SavedMeansSaved`), for authors
  who wait for "Saved" (`Patient`: `Environment` has at most crashes), as
  `sync_patient` checks them. `PatientInv` adds to the former that of every pair of
  a workspace and its base, wherever it is kept, the first has all that the second
  says, or writing made over it (`Carries`); that consecutive revisions are such a
  pair; and that a tab has one save at a time, of what is on its screen. Its heart
  are two lemmas about the merge: `MergeIsOverServer`, that a merge is such a pair
  with the server's workspace, and `MergeIsWritten`. Without patience the theorem is false
  (*Lost update* and *Online retry* in section 3), and the induction shows where: a
  save that waits behind a push that merges.
- `CopiesKeepLostWords` (`NoNeedlessCopy`), for those authors on a device each
  (`OneTabEach`) when nothing fails (`Undisturbed`), which is what `sync_patient`
  checks. Its induction, `KeepInv`, says whose words are whose: what a tab has that
  its base has not (`Mine`) is on no revision and in no other tab, and was written
  over what the base says (`Drafted`). So words that a merge finds at the server are
  never the tab's own, and a copy of them cannot be needless (`MergeKeeps`: what a
  merge drafts over the server's workspace is a part of what the tab had drafted
  over its own base). Both hypotheses are needed. A second tab of a device, or the
  same tab after a crash, resumes the pending record and pushes the same words
  again; a lost answer makes the device push them again itself (*Lost answer* in
  section 3). Whichever push comes second is refused and keeps a copy of itself.

- `DevicesKeepWriting` (`DeviceKeepsWriting`), in every environment, impatient authors,
  saves at any moment, lost answers and late requests included, with a tab on
  each device (`OneTabEach`, as in `sync_faults`; without it see *Two tabs* in
  section 3). The order behind it is `Within`: all that one workspace says, another
  says, or was written over, or some revision said. `StoreInv` puts everything a
  tab has on its way to the server into that order: the record and the puts behind
  it are within one another as they will be stored (`DeviceStores`), those within
  the last save and the screen (`ScreenHolds`), an earlier save within a later one
  (`SavesInOrder`), and a push has what its save had, whatever it merged
  (`PushInOrder`). So a record is only ever replaced by one it is within. The rest
  says where the newest writing is when nothing waits any more: each put stores
  the save it is for (`PutsInOrder`), a save that no put is for is in the record
  (`WorkStored`), and what is on the screen with no debounce armed is saved
  (`ScreenSaved`). A merge is within what the device had and the other way round,
  but for the server's words (`MergeContains`); it is the only lemma that looks
  into a merge.

They assume that `None` is not a workspace (`NullNone`) and, but for the first, that
the id of a conflict copy is that of no other document (`CopiesAreNew`): the code
draws a UUID.

`ReconciliationProofs` proves all that the run of `Reconciliation` checks, for
every base that `BaseAssumption` admits and any numbers of ids and edits:
`WordsAlwaysSurvive` (`WordsSurvive`), `IndependentChangesAlwaysCombine`
(`IndependentChangesCombine`) and `StructureAlwaysSurvives` (`StructureSurvives`).
Of each side, the induction `ReconciliationInd` says what it made of the base
(`Grown`): a document without the side's stamp is the base's, and none of the base
is gone (`Documents`); a connection lies in one document and was made or removed
with a stamp of that document (`Connections`); a snapshot of the base that changed
is of a document with the stamp (`Snapshots`). Of the two sides together, it says
that what both have was in the base (`Apart`). The edits that change a document
are one kind of step, `DocumentEdit`, and preserve it for one reason
(`EditedGrows`). The merge by id is one lemma for all collections, `ThreeWayAt`:
at every id the server's value if the server changed it, this device's otherwise.
From there the argument is about stamps. A connection belongs to the document that
stamps it, so a document that the server left alone has its connections unchanged
there, and this device's are taken (`ResultConnectionKept`); a document that both
changed takes all of them to its copy (`ResultConnectionCopy`); and the server's
connections end in blocks that either the server's version of their document
holds, or this device's, which has not removed them (`ServerEndsHeld`). Were a
document's blocks changed without its stamp, none of it would hold. It assumes
`CopiesAreNew` and that `Absent`, like `undefined`, is not stored
(`AbsentIsNotStored`).

`InterlocutorProofs`: `PageImplementsQuota` says that every step of a page, and of the
routes it calls, is a step of the allowance or leaves it alone, so that
`PageAllowance` (`AllowanceInv`) is `QuotaAllowance` under a page's requests.
`GeneratedMetadataIsOfTheseWords` (`MetadataOfTheseWords`) needs only the types of
blocks and title as induction (`Typed`): every action is shown to generate
nothing (`NothingGenerated`), except the organizer's answer, whose tests of
version, kind and title are what the property says (`OrganizedKeeps`).
`MarginOfAPatientAuthor` (`MarginInv`) assumes `Environment = {}`, as the run does: with
an impatient author it is false (section 3). Its induction is `MarginInd`, in three
parts that a step disturbs in turn. `BlocksInv`: the order lists the blocks, each
once, and an annotation, or a reflection that is awaited, is of one of them.
`AsksInv`: each flag is up exactly while its one request is awaited. `CorrectionInv` is
the argument. While a correction is dictated, transcribed or cleaned, everything of it
(the field, the session, the words that are cleaned, the transcripts still to come) is
of the reflection on the screen, and that reflection cannot change: a patient author
stays, and the one step of the page's own that shows another reflection, the answer
to *Reflect*, is not awaited then, because it is asked for only where no reflection
is shown, and the microphone is not opened while it is awaited. A dictation that is
cancelled takes its transcripts along (`UnwantedIsNotAwaited`). The rest are lemmas
about orders: with a block inserted, appended or removed they stay orders
(`OrderInserted`, `OrderAppended`, `OrderWithout`); and a set of ids has a newest one
(`NewestIsThere`). It assumes that `Nothing` has no fields (`NothingHasNoFields`), as
`null` has none.

`HostedPageProofs` holds for any pages, plans and bounds:

- `PagesAreAsShown` (`PagesAsShown`), for an author who changes no readers while a page
  is being published and publishes nothing while the account is deleted
  (`PatientPublisher`); without either it is false (*Overlapping readers, publishing,
  saving*). The run has `Overlap = {}`, the theorem allows overlapping saves. Its
  induction, `PagesInd`, says that every workspace with a link agrees with that
  link's page wherever it is kept: on the server, on the device, in a queued save,
  on the screen (`PublishedInv`). For the link that a publication will write, it
  says that every publication under way, the ones whose answer nobody awaits any
  more included, has a page to itself, free until it is served (`CallsInv`); and
  that no publication and no deletion are under way together (`ErasedInv`), which
  is why no page survives the account.
- `LeaversKeepTheirWords` (`LeavingKeepsWords`), for an author who waits for a save that
  a way out made (`PatientLeaver`); without it it is false. The heart of its induction,
  `LeavingInd`, is that words only grow on their way: server, each queued save,
  device, page (`WordsInv`). So a save that arrives loses none, and neither does a
  record that replaces another. Around it: the save a way out awaits is that way's
  own (`OfWay`), a sign out clears the device only with no save behind it
  (`SavesInv`), an account is erased before its device is (`StepsInv`), what a way
  out has saved stays so until it ends and after (`WayKept`, `LeftKept`). An erased
  account keeps nothing, and the property asks nothing of it.

`NativeProofs`, on `LocalDatabase`: `OwnedAndPaused` (`LocalDatabaseInv`) and
`EventsOfThisConsent` (`OptOutIsFinal`), for any numbers of pages, runs, consents
and events and from the module's own assumption alone. The former needs that the
runs of a page are numbered without gaps and only the last is active or has a
connection (`RunsInv`): the cleanup of an effect closes what its run opened,
however late the opening ends. Of the view it needs that a page is initialized
only when its last run is done, so that a reset, which forgets the failure, leaves
a page that loads (`ViewFits`). The latter needs that whoever switched telemetry
on counted a consent (`PreferencesInv`).

`NativeProofs`, on `LegacyServer`, for any requests, addresses and bounds and from
the module's assumption alone:

- `AllowanceIsKept` (`FairLimiter`). The induction, `LimiterInvariant` (`LimiterInd`), says
  of every entry that it counts no more than its window admitted and that nothing
  was admitted after the window (`LimiterBound`); that holds whatever was evicted.
  While no more addresses came than the Map holds, nothing that lives was evicted
  (`NothingForgotten`): every address that was admitted has its entry, which counts
  exactly what its window admitted; the window begins with an admission, so that
  fewer than `Maximum` are later than its first instant; and of any interval of a
  window's length that reaches into it, fewer than `Maximum` admissions came before
  it (`Spent`). The two bounds of `FairLimiter` are what a window leaves behind when it
  expires (`Allowance`). The lemmas are of the Map as a list (what `Deleted`, `MakeRoom`
  and `Consumed` keep of it), and of counts of admissions in an interval.
- `OldestIsForgotten` (`OldestForgotten`). The induction, `OrderInd`, is that the Map is
  in the order its windows end (`AdmittedInOrder`), which holds because an entry
  whose window has ended is removed and put at the end, never renewed in its
  place. What `makeRoom` drops of entries that live is then a first one, and it
  drops one only when all live (`AliveKeeps`, `RoomForOne`).
- `AnswersAreHonest` (`HonestAnswer`). `RequestsInvariant` (`RequestsInd`) says at each
  stage what may have been tried, recorded and answered: nothing is sent before the
  outcome is recorded, and what is recorded says whether the answer that waits
  behind it is 200 (`HandledWell`). An abort may find a request at any of them.

`NativeProofs`, on `RealtimeVoice`, for any conversation, threads and sessions, from
`VoiceInvariant` (`VoiceInv`):

- `InactiveIsSilent` (`SilentWhenInactive`): a session that has started is the active
  one exactly if it is not cleaned up, and only that one has a deadline, a
  microphone or a channel (`ActiveInv`); each promise that resolves late looks at
  this first.
- `PairsFollowLinks` (`PairedByLinks`): after every event nothing is left that could be
  emitted, and an exchange in the queue has its item among the used ones of its
  session, until that is cleaned up and hears no more (`PairsInv`). The argument is
  about the walk over the links: the last user item before an answer with no gap
  between is the user item it follows in the conversation (`LinkedIsTrue`), whatever has
  been heard so far; and emitting one pair never completes another
  (`FewerAnswers`), so that nothing waits once the statuses were gone through
  (`NothingWaits`).

In both modules what JavaScript writes as a loop (`makeRoom`, `emitCompleted`) is a recursive
function over a prefix. `LoopEnds` says that there is such a function, and `LeastOf`
reduces what a loop has to what its step keeps, by the least prefix without it.

`DictationCaptureProofs`: `MicrophoneOfAPatientSpeaker` (`MicrophoneInv`),
`WordsOfThisDictation` (`OwnWords`) and `ReviewHasEverything` (`ReviewIsComplete`) hold
for any numbers of dictations, recordings, sessions and queued checkpoints, for an
author who waits for each act (`PatientSpeaker`: `Environment` has at most "wake", as
the run has); with "early", "overlap" or "quick" they are false (section 3). They also
assume that `None` is neither a number nor a record (`NoneIsNothing`), as `undefined`
is. The induction, `DictationInd`, is a conjunction of families: what the recorders
are up to (`RecorderInv`: at most the newest recording runs or ends, it is of the
last draft, a checkpoint is armed only for it, `continuing` means that one is
ending); what the queue holds (`QueueInv`: exactly the recordings that wait, in the
order they were made, each of this session and draft or cut off by an
interruption, so that a controller without handlers has only those); the draft's
words (`WordsInv`: heard recordings of it, ascending, before every one that is
queued, and all that was heard before an interruption); what the call that is under
way has found (`AtInv`, `KindInv`: it awaits the recorder that is ending, or the last
transcription there was when it looked, and is still what the draft's status
says); and that the numbers of recordings and sessions leave room. The private
methods of the controller call one another, so each has two lemmas over controller
states, what it changes and that it keeps the controller's part; an action then
composes them (`StopEventInd`, `AnsweredInd`, `LifecycleInd`...).

`ConversationProofs` holds for any numbers of threads, turns and capsules, any
gathering limit and any of quota failures, voice and reloads, of one page and its
voice session: `StoresStayExportable` (`ConversationInv`), `TurnsAreAnsweredOnce`
(`OneReplyEach`), `PagesShowWhatIsStored` (`ShownIsStored`) and
`FinishedThreadsStay` (`FinishedIsFinal`). They assume `OnePage`, which is how the
run is set: no second page, and no call of the page between the reads and the
write of its other one; with either they are false (*Two pages of one
conversation* in section 3). They also assume that `None`, as `undefined`, is no
number, set or record (`NoneIsNull`). The induction, `ConvInd`, has three parts.
`Stores`: rows have distinct drawn ids, a thread lists exactly its turns in the
order of their positions, whatever is cited was accepted, every accepted turn has
one reply in its thread. `CallInv`: from a call's last read until its write, its
snapshot of the thread is the stored row and is active (`Snapshot`); the turn it
is to settle is stored and open (`Holds`), from the moment it is stored to its
reply or failure, over the wait for the provider during which a voice exchange may
be stored beside it. `PageInv`: the call behind the controls is of the thread the
page shows (`Here`); the page shows that thread's turns but for the one under way
(`ShowsTurns`); a voice exchange is of a thread that exists or has existed, and
not of one that a test has just begun (`Spoken`). Two steps show why parts are
needed together: a failed turn is put back as it was read (`FailUserTurn`), which
is safe only because its thread is the one shown, and so neither deleted nor
finished; and an exchange of a thread that has been finished is refused where it
asks for its snapshot (`RequireActiveThread`). Each transaction has a lemma on the
stores (`TurnAdded`, `TurnSettled`, `ReplyStored`, `FinishStored`...), each action
one that composes it with the call and the view. For `FinishedIsFinal`, `Spares`
says of a pair of stores what the property says of a step, and every transaction
is shown to touch one active thread only (`ActiveSpared`).

Only model-checked, as this prover has no fairness: liveness (`Settles`,
`ProcessingEnds`, `GateShuts`, `CallsEnd`, `ResetEnds`, `Answered`,
`ConnectingEnds`).

## 7. What is not modelled, and why

- *Synchronization:* a put that IndexedDB rejects. What `recoverWorkspaceState` does
  to a loaded workspace is modelled in `DictationCapture` (`Reload`), where it
  matters: it changes the draft's status.
- *Margin:* several documents at once, the version history, sources, search and
  navigation; what a model writes, beyond the blocks it names a kind for and
  whether speech had words. The controller of the dictation is `DictationCapture`'s
  and only a microphone with awaited transcripts here; a block's dictation beside
  a calibration's is in neither.
- *Dictation:* edits of the draft's text, and its length limit; browsers without a
  recorder, and a recorder that cannot be constructed; two recorders of one
  stream; the wake lock itself, of which only the wait matters; a draft not yet
  saved when the page is reloaded (the save follows within 180 ms).
- *Reconciliation:* a base that already holds a conflict copy and its link across
  documents; the clock, so `Date.now()` of two edits never coincides. The block
  of an annotation is not moved to a copy by the code (`workspace-sync.ts:151`);
  what should become of it is stated nowhere, so no property says it.
- *Server:* the request parser (what it refuses reaches no statement) and rows
  that do not parse. `readShare` reads what `pages` holds; the listing of pages is
  the library's view of it, and its contents are not compared.
- *Snapshots emptied by deleting their blocks* (`App.tsx:1604`): the schema rejects
  every later save; `Reconciliation` leaves such workspaces out, because save
  rejects them before a merge sees them.
- *Conversation:* `finishThread` (called by nothing), import and export as actions,
  titles, understanding, telemetry, `trySendStatic` of the server, the bodies of
  MCP tools (`mcp.ts`), configuration and prompts.
- *Exports, presentation, evaluations, scripts, deployment:* formatting of one
  workspace, rendering and tooling without shared state of their own.

## 8. What is left

Modelling is complete up to section 7. Every invariant and every action property
that a run checks is a theorem of its module; the liveness properties stay with
TLC.

# LINE message playground: a verification project

The program is a Django backend and a React frontend for one owner of a LINE
bot.  The owner links an account, registers as recipient of a channel's
messages, previews and sends messages, administers channels and their rich
menus; LINE posts webhook events, which are recorded, dispatched to handlers and
sometimes answered.  Everything interesting happens between a MySQL database and
an HTTP service that cannot take part in its transactions: every effect on LINE
is made outside the transactions that announce and record it, by workers that
may die at any point, while other requests run.  That is what is modelled here.

Paths below are relative to `src/`; `backend/` and `frontend/` are the two
halves of the repository, and `.kiro/specs/<feature>/` holds the requirements
and designs the code was written from.

## 1. Inventory

### 1.1 Linked recipient delivery (`backend/delivery`)

*State.* Table `delivery_deliveryattempt`: operation id, request fingerprint,
status (`processing`, `succeeded`, `failed`, `unknown`), failure code,
`active_request_fingerprint` (unique, NULL once terminal), deadline, receipt.
Signed confirmation tokens are state held by clients.

*Operations.* Preview; send (`accept_confirmed`, `push_accepted` with
credential, recheck of the target and one push outside any transaction,
`finalize_linked_push` by compare-and-set); status with expiry of a silent
attempt (`check_linked_status`); recipient's receipt (`confirm_receipt`, a
postback routed here by the interactions).

*Interactions.* Reads recipient and channel (`TargetDirectory`), so it races
with unlink, relink and channel changes; calls LINE's push API; is called by
`lineinteractions`.

*Hard.* The same send repeated or made in two tabs; the unique key that fails
and is reread in another transaction; a push whose answer is lost; an expiry
that wins against a live worker; a receipt that arrives before the result of the
push; a target that changes between preview, accept and push.

*Correct when.* An operation is pushed at most once, to what was confirmed; the
recorded outcome is true; no two live attempts of the same content unless one
was expired; terminal rows and receipts stand; an attempt asked about ends.

### 1.2 Webhook ingress (`backend/linewebhooks`)

*State.* `EventReceipt` per `webhookEventId`: `processing`, `processed`,
`failed`, `unsupported`, with a failure code.

*Operations.* Check of channel, signature and payload; `accept_batch`, one
transaction for all events of a batch; dispatch in batch order under a deadline
of two seconds with reserves; settlement of each receipt by compare-and-set;
the HTTP answer.

*Interactions.* LINE repeats any batch it got no 200 for; calls the handlers of
`linefriendships` (profile `local`) and `lineinteractions` (profile
`deadline_managed_external`).

*Hard.* Batches that overlap or repeat an event, concurrently; a commit whose
outcome is unknown; a worker that dies between handler and settlement; the time
left when the n-th event is reached.

*Correct when.* No event reaches its handler twice; receipts tell the truth;
200 is only answered for a batch that is on record and settled; the answer
comes in time.

### 1.3 Interactions (`backend/lineinteractions`)

*State.* `InteractionAudit` per event.

*Operations.* Parse and resolve a message or postback; reserve the audit row;
look at the clock; reply once, or run the registered action once; replace the
row; tell the ingress.

*Hard.* Between reservation and replacement there is an effect that no
transaction covers; the replacement may fail or be of unknown outcome.

*Correct when.* One effect per event; the row never claims what did not happen;
receipt and audit agree; the handler is what the ingress assumes of a handler.

### 1.4 Friendship sync (`backend/linefriendships`, recipients of `backend/lineaccounts`)

*State.* `DeliveryRecipient` (friendship, key of the last event projected),
`FriendshipSyncAudit`, row locks of `OwnerAccount` and `LineChannel`.

*Operations.* Projection of follow and unfollow; registration in two
transactions with LINE asked in between; enable, disable, unlink a recipient;
unlink and relink of the account.

*Hard.* Events in any order, repeated, of the same millisecond, or of before the
registration; a registration that races with the event; lock order.

*Correct when.* The newest event wins; what is shown is true once the last event
was heard; an event has one effect; locks are taken in one order.

### 1.5 Account, sessions and unlink (`backend/lineaccounts`)

*State.* `OwnerAccount` (one row: `vacant`, `active`, `deauthorization_pending`,
`local_deletion_pending`, with a generation), `LineIdentity`,
`DeliveryRecipient`, `OwnerSession`, a MySQL advisory lock that belongs to a
connection; on LINE: the owner's grant to the app.

*Operations.* Login, session read and end; preview of the unlink; unlink in
three transactions (fence, marker, deletion) with LINE's revocation between the
first two under the advisory lock; resume after any failure.

*Hard.* Two tabs; a resume of an old tab after the account was linked again;
revocation that happened but whose answer is lost; a lock that vanishes with its
connection while LINE is being asked.

*Correct when.* What is deleted is what was shown; the marker means LINE said
204; LINE is asked by one request at a time; nothing is left behind; nobody
deletes another life of the account.

### 1.6 Channels, keys, deactivation (`backend/linechannels`)

*State.* `LineChannel` (`is_active`, `updated_at` as revision), a pair of
credentials (ciphertexts with a key id), the keyring each process read when it
started, the named lock of the rotation command, `ChannelDeactivationState` (one
current intent: `checking`, `unlinking`, `confirmation_required`, `completed`).

*Operations.* Register, update, check of the connection, delete (with a
directory of references that may block it); deactivation that assesses the
channel's rich menu on LINE, may unlink it, and completes by compare-and-set, or
waits for an explicit recheck; reactivation; rotation of the encryption keys row
by row, in the operator's procedure of adding a key, restarting, running the
command, removing the old key.

*Interactions.* Every other part refers to channels, under the row lock of
`lock_existing`.

*Hard.* The intent outlives requests and workers; assessment and completion are
different transactions with LINE asked between them; rich menu operations
accepted before the fence.  A rotation is interrupted, loses the named lock with
its connection and works on, or runs while credentials are edited; a reference is
inserted while its channel is deleted; a check ends after an edit.

*Correct when.* A channel becomes inactive only with nothing of it left on LINE
or in progress; what is stored is what the owner entered last and can be read
with the keys of the setting, with the new one alone once the old one may go; no
row refers to a deleted channel.

### 1.7 Rich menus (`backend/linerichmenus`)

*State.* `RichMenuChannelState` (current resource, active and blocking
operation, last observation), `RichMenuOperation` (kind, status, stage),
`ManagedRichMenu` (candidate, applied, old, cleanup_required, deleted,
released), append-only transitions; on LINE: menus and the default.

*Operations.* Apply (create, upload, set default, verify), unlink (clear
default, verify), release (local), recheck of an unknown operation against
LINE, clean-up of one resource, headless use by the deactivation; the view of
the current menu, which reads the database, LINE and the database again without
a lock; a command that repairs what an older version left, one menu at a time;
the purge of a channel's history.

*Hard.* Every stage is claimed, calls LINE, and is completed in another
transaction behind a fence on owner and channel revision; an expired claim
becomes `unknown`; a recovery operation moves the blocker.

*Correct when.* One operation at a time per channel; success is confirmed, never
inferred; no menu created on LINE is forgotten; no menu the program does not own
is deleted; what is shown was so at one moment; no proof that a menu may be
deleted is lost before it was used.

### 1.8 Browser client (`frontend/src`)

*Delivery page.* `deliveryState.ts`: a form that is edited, previewed, sent and
checked; the operation id in `sessionStorage`.  *Gate and account page.*
`AuthGate.tsx` counts generations of flows (refresh, login, logout) around LIFF,
with a flag in `sessionStorage` that a fresh login was asked for before an
unlink.  *Rich menu page.* `useRichMenuAdmin.ts`: reads by generation, one
mutation at a time, an operation followed to its end.  The other pages (channel
administration, editors, history, themes) answer each call by itself.

*Hard.* Answers that arrive late, out of order or never; a page that is left,
reloaded or loses its session with calls on their way; a reload that forgets, or
should not forget, what was sent.

*Correct when.* What is sent is what was shown; an outcome on the page is the
outcome of the attempt; nothing is sent in ignorance of what was sent before; a
logout is not undone by a late answer; an unlink follows a fresh login; the end
of an operation stands beside a menu read after it.

### 1.9 Text judgment lab (`backend/textjudgmentlab`, `frontend/src`)

A page behind a gate of its own passes texts to an external judge.  *State.* The
page's access, composer and entries; per owner a flag `running` and a window of
starts (`limits.py`).  *Hard.* A verdict that races the timeout of the page, the
end of the token, and the next submission.  *Correct when.* A verdict stands
beside its own text and is taken only while the token holds.

### 1.10 The rest

Signature verification, serializers, message catalogue, image rendering: pure
functions.  Settings, health, scripts: wiring.  `.agents/skills/yomiyasu` is a
vendored tool for the prose of the documents.

`PROJECT.json` lists every component with its status, and the hazards line by
line with the properties that watch them.

## 2. Modules

| Module | What it is |
|---|---|
| `Delivery` | the delivery attempt: requests, status checks, receipts, target changes, crashes |
| `DeliveryPromise` | what a delivery promises its owner, without workers, rows or deadlines |
| `DeliveryProofs` | the proofs, also of the refinement, an `INSTANCE` at the end of `Delivery` |
| `WebhookIngress` | the ingress with an abstract handler (one step `Handle`) |
| `WebhookProofs` | its proofs |
| `Interactions` | the handler for messages and postbacks in steps; instantiates `WebhookIngress` and refines its step `Handle` |
| `InteractionsProofs` | the proofs, also of that refinement |
| `FriendshipSync`, `FriendshipProofs` | the handler for follow and unfollow against the owner's requests, with row locks |
| `AccountUnlink` | login, sessions and the unlink |
| `UnlinkProofs` | its proofs |
| `RichMenus` | the operations on the rich menus of a channel, in their stages, against what LINE holds |
| `ChannelDeactivation` | extends it with the coordinator that deactivates the channel; its `Next` is that of both |
| `RichMenusProofs` | the proofs of both |
| `CurrentMenu` | the view of the current menu, with the changes it races as an environment |
| `MenuRepair` | what an older version left behind, the repair command, the clean-up and the purge |
| `Channels` | rows of channels with their row locks: registration, edits, deletion, references, connection checks |
| `KeyRotation`, `RotationProofs` | extends it with the keys, the operator and the rotation commands |
| `DeliveryPage` | the page that previews, sends and checks a delivery, with the server it calls |
| `OwnerSession` | the gate and the account page, with LIFF and the server's sessions |
| `MenuPage` | the page of a channel's rich menu, with the server it calls |
| `JudgmentLab` | the lab: page, gate, limits and the call of the judge |
| `ConsoleProofs` | the proofs of the four and of `CurrentMenu` and `MenuRepair`, in one module since they share nothing |
| `MC*` | finite instances: symmetry and the batches, ids and workers of the runs |

`MCConsole` puts six systems that share no variable (`DeliveryPage`,
`OwnerSession`, `MenuPage`, `CurrentMenu`, `MenuRepair`, `JudgmentLab`) side by
side, and `MCBackend` two (`WebhookIngress`, `KeyRotation`): the initial state
chooses one (`scene`), and the others stand still.  It is a convenience of the
instances and says nothing about how they interact.  Where a page meets a backend, the page's module has a server
of its own, as small as the page can tell: `DeliveryPage` does not compose with
`Delivery`, nor `MenuPage` with `RichMenus`.

One action is one piece of code between two points at which another process may
run: a transaction, a call of LINE or a look at the clock, with everything that
follows it locally.  The constants are sets of requests, workers, ids and
contents, the deadlines, and bounds that are named `Max...`.

### 2.1 `Delivery`

`attempts[op]` is the row, `req[r]` the worker's local state with a program
counter, `line[op]` what LINE did with the push, `pushed` the pushes handed over
with what their worker knew, `target` what `TargetDirectory.resolve` reads.

| Action | Code |
|---|---|
| `Preview`, `Submit`, `Reconfirm` | the views with the signed confirmation, the first half of `accept_confirmed` |
| `Lookup`, `Insert`, `RereadOperation`, `RereadActive` | `accept` of `repositories.py`: classification, INSERT, and the rereads after an `IntegrityError`, each its own transaction |
| `FetchCredential`, `Recheck`, `PushOnce`, `Receive`, `Finalize` | `push_accepted`, the gateway, `finalize_linked_push` and `finalize` |
| `LineDecides` | LINE accepts or refuses, also after the worker is gone (external) |
| `CheckStatus`, `Expire` | the read and the conditional update of `get_for_owner` |
| `Tap`, `RecordReceipt` | the receipt postback: classification and update in `confirm_receipt` |
| `ChangeTarget`, `Unlink`, `Relink`, `DeleteChannel` | what other apps do to the target |
| `StorageFails`, `Crash`, `Tick` | database errors with 503, death of a worker, one unit of time |

A content stands for message and receipt option: with one target it is what the
fingerprint identifies.  Deadlines are the time left to them.

### 2.2 `WebhookIngress` and `Interactions`

`receipts[e]` is the row with its creator, `req[r]` holds the batch, the
positions still to be dispatched and the time since the request came in; `runs`
the handler calls.  `Accept` is `accept_batch`; `Dispatch` computes the time
left and chooses between dispatch and `dispatch_deadline_exceeded`; `Handle` is
a handler call of some duration and verdict; `Finalize` settles one receipt;
`Respond` answers.  Payload and signature checks are one choice of `Receive`.

`Interactions` replaces `Handle` by `Begin`, `ReserveAudit`, `Credential`,
`Reply`/`Act` and `Finish`, in transactions that may fail, with a reply that
LINE accepts, rejects or leaves unanswered.  The gateway calls every answer but a
200 `rejected` (`gateways.py:96-98`), also a 5xx that follows a reply LINE took,
so only `accepted` tells what happened (`Told`), and `AuditTellsTheTruth` asks no
more of `rejected` and `unknown` than that a call was made.  `PutAside` is what
the row says of an event that goes no further than `Begin`.  Its time is bounded so that the
whole is one `Handle` of the ingress: `ImplementsIngress`.  The outcomes the
code records and answers alike (`unknown`, `invalid`, `out_of_scope`,
`unlinked`) are the one outcome `no_op`.

### 2.3 `FriendshipSync`

`history` is what happened on LINE, `relation` what LINE holds, `row` the
recipient with `registered` and `fetched` (not stored: what it was created with
and which events had happened when LINE was asked), `locks` the two row locks.
`LockReference` and `Project` are the two halves of `handle`, `LockOwner`,
`Ask`, `Create`, `Mutate` those of the owner's requests; every transaction may
be rolled back (`Fail`, `Abandon`).  `audits` is a bag: the table has no unique
key and gets a row for every handling, so `EffectOnce` counts copies too.  One unit of time is a millisecond, so that
two events may share one.  `enabled` and the display name are left out: nothing
modelled reads them.

### 2.4 `AccountUnlink`

`owner` is the row of `OwnerAccount`, `tab[t]` a request with the confirmation
it holds, `lock` the holder of `GET_LOCK`, `line` the grant, `attempts` what was
shown and what LINE said per generation.  A transaction is one step: every one
of them begins with the row lock of the owner.  `LoseConnection` takes the lock
from its holder without ending the request, which is what MySQL does with
`GET_LOCK` when a connection is lost.

### 2.5 `RichMenus` and `ChannelDeactivation`

`ops` and `menus` are the tables (every apply creates one menu at most, which has
its operation's name), `state` the row with the current menu and the active and
blocking operation, `line` what LINE has: its menus, the default, calls given up
that may still arrive, and what was ever shown.  `job[w]` is a request,
`task[w]` a request as the coordinator, `intent` the row of the deactivation.

| Action | Code |
|---|---|
| `Start*`, `Accept`, `AcceptRecovery`, `Refuse` | `start_operation` up to the acceptance with its fence, and the conditions that are read again there |
| `CreateMenu`, `UploadImage`, `LookBeforeSet`, `SetDefault`, `ClearDefault`, `SkipClear`, `LookAfter`, `ReleaseMenu` | the stages: the claim, and the call or the look at LINE with its answer |
| `Settle`, `CompleteStage`, `CompleteStale`, `CompleteRefused` | the transactions after the answer: first the one on the menu, then `complete_stage` with the channel's fence and the state machine |
| `RecheckLook`, `KeepFound`, `Handoff`, `RecoverApply`, `CompleteRecovery` | the recheck of an unknown operation |
| `LookBeforeDelete`, `DeleteMenu`, `MarkDeleted`, `FinishCleanup` | the clean-up |
| `Deactivate`, `RecheckDeactivation`, `AssessLook`, `Decide`, `ReserveUnlink`, `UnlinkLook`, `Returned`, `CompleteInactive`, `SaveResult`, `NotStored`, `RecordStale` | the coordinator, `headless.py` and `reserve_disable_unlink` |
| `EditChannel`, `SwitchOff`, `Reactivate`, `ChangeDefault`, `Arrive`, `Die` | the owner, the operator's command, other tools on LINE, late calls, death of a request |

The coordinator runs its unlink and its recheck with the actions of the other
requests (`job[w].inner`), so their steps interleave as they do in the code.
Steps were merged where nobody can tell: a claim and its call of LINE (only the
request that was accepted claims, so a claim is never found expired), a look at
LINE and the list of menus it is compared with, the check of the owner's scope
that is repeated by the fence of the next transaction, and the two transactions
of `KeepFound`.  `record_observation` is kept while a deactivation is pending,
the only time that anything reads it.  The coordinator's status `unlinking` has
no place: an unlink returns to it only when it has ended.

### 2.6 `Channels` and `KeyRotation`

`rows[c]` has existence, a revision and two ciphertexts, each a key and the
number of the edit that supplied it; `lock[c]` is the row lock; `ring[p]` the
keys a process has, `env` those of the setting; `given[c]` the edit the owner was
last told is stored.  `job[p]` is a request, `rot[r]` a command.

| Action | Code |
|---|---|
| `Register`, `Ask`, `LockForUpdate`, `LockForDelete`, `CommitCredentials`, `CommitChange`, `CommitDelete`, `Rollback`, `Command` | `admin_services.py` and `admin_repositories.py`, and the operator's command |
| `LockExisting`, `CommitReference` | `reference_fence.py`, `lock_existing`, used by whoever inserts a reference |
| `Snapshot`, `Conclude` | the two transactions of `check_connection` |
| `AddKey`, `RemoveOld`, `Restart` | the operator's procedure in the README of the repository (its order is the guard) |
| `Start`, `ReadRow`, `WriteRow`, `FailRow`, `ListAgain`, `VerifyRow`, `StorageFails`, `Report` | `rotate_all`, `process`, `replace_credentials_locked`, `verify_with_primary`, the summary |
| `LoseConnection`, `Interrupt` | the end of the connection that had the named lock, and of the command |

### 2.7 The pages

Each page has its reducer's state, a set of calls with what they will answer
(`calls`, `flows`, `waits`, `jobs`), and the server as far as the answers go.  A
call is answered, broken or lost, and its answer is taken by the page as the
code does: by sequence number, by generation, by operation id.  In
`OwnerSession` a flow is `current`, superseded or of a page that is `gone`,
which is what its generation number tells; in `MenuPage` a call whose generation
has passed is dropped at once.  Loading a page again empties its state and keeps
what is in `sessionStorage`; calls on their way still arrive.

### 2.8 `CurrentMenu` and `MenuRepair`

`CurrentMenu` is one request: `Capture` (first transaction), `Observe`,
`Download` and `ObserveAgain` at LINE, `Answer` (second transaction, which
compares and records), `ReadAgain`.  `kept` and `seat` are the rows it compares,
with a stamp that every change moves.

`MenuRepair` numbers menus as they are made.  `ApplyMenu` is an apply of the old
version, which leaves the replaced menu, or of the new one, which hands it to a
clean-up; `Repair` is the command on one operation (`cleanup_repair.py`);
`AcceptCleanup`, `DeleteAtLine` and `FinishCleanup` are the clean-up it makes
possible; `TakeDown` unlinks or releases the applied menu.  Both this and
`ApplyMenu` need what the acceptance needs (`Acceptable`), not what the page
offers, so that either may take away the proof for a menu that is left: such menus
are `abandoned`, and `ProofLasts` is about all others (section 6).  `PurgeHistory`
removes a channel's rows when nothing is left of them.

## 3. Runs

TLC explores each instance exhaustively.

| Run | States | Shows |
|---|---|---|
| `delivery` | 691 k | two requests, two operation ids, two contents and two confirmations, a receipt, storage faults and crashes: `AtMostOnePush`, `OutcomeTruthful`, `ReceiptTruthful`, `NoParallelTwins`, the refinement `KeepsPromise` |
| `delivery_liveness` | 344 k | a target that changes; under `FairSpec`, `AttemptSettles`; `PushedAsConfirmed` |
| `delivery_duplicate` | violation | a duplicate send answered 503 (section 6) |
| `webhook` | 931 k | two requests, three events of the three profiles, batches that are empty, nested and self-repeating: `HandledAtMostOnce`, `ReceiptsTellTheTruth`, `AcceptedIsSettled`, `AnsweredInTime`; and, on its own, the rotation beside requests on the channel: `KeysSuffice`, `GivenKept`, `NoOrphans` |
| `interactions` | 1.3 M | a message, a postback and a follow: `OneEffectPerEvent`, `AuditTellsTheTruth`, `ImplementsIngress` |
| `interactions_audit` | violation | an audit row that says `not_started` of a reply that LINE accepted |
| `friendship` | 3.7 M | `NewestWins`, `TrueWhenHeard`, `EffectOnce` with a worker, two requests of the owner, two events, repeats, two recipient rows, two lives of the account |
| `friendship_order` | violation | the lock order |
| `account_unlink` | 1.1 M | two tabs, two lives of the account, two recipients, two attempts, three grants |
| `rich_menus` | 1.1 M | two requests, three operations, three revisions of the channel: `UnresolvedBlocks`, `AppliedWasShown`, `NoMenuForgotten`, `NothingShownIsDeleted`, `CompletionIsClear` |
| `rich_menus_unlink` | violation | an unlink that never ends (section 6) |
| `console` | 1.1 M | the six systems of `MCConsole`, one after the other: the delivery page (`SentAsShown`, `SendsKnowingly`, `OutcomeShown`), the gate (`ReadyIsFresh`, `LogoutIsSeen`), the rich menu page (`OneAtATime`, `ShownWithItsEnd`), the current menu (`ShownAsItWas`), the repair (`ProofLasts`), the lab (`VerdictInTime`) |

Type invariants and inductive invariants were checked with TLC on the same
instances while the proofs were written; they are proved (section 4), so the runs
leave them out.

### Bounds, and why they are enough

* *Two requests, tabs or clients.*  The hazards are races between two actors:
  two sends of an operation, send against status check, old tab against new.
  The one place where three matter, the holder of a lock and two that wait, is
  covered by the proofs, which are for any number.
* *Two operation ids and two contents* are the least at which an id is reused
  for another content and two operations race with the same one.  A change of
  the target has its own run, so that both have faults to spare.
* *Deadlines of one or two units* only have to let every deadline pass in every
  state; what happens between two deadlines depends on their order alone, and
  `ConstantAssumption` keeps that order.
* *Deadline 5 with reserves 1* in `webhook` lets a batch of three be dispatched
  fully, partly or not at all; `MaxAccept` 2 lets it be recorded too late, and
  `MaxOverrun` 1 lets a handler take more than its reserve.
* *Two lives of the account, two attempts, three grants* are the least at which
  a request of the first life meets the second, and LINE's grant is renewed
  between them.
* *Two events and a clock of three milliseconds* give equal, ordered and
  reordered stamps; `MaxRepeats` 1 hands one over again.
* *Three operations and three revisions* (`MaxRev`; edits and the operator stop
  at `LastEdit` 2) let a menu be applied, replaced and cleaned up, or its lost
  call be rechecked while the channel changes, and a deactivation be overtaken
  by an edit, completed, and followed by a reactivation.
* *Two processes, two commands, one channel, keys 1 to 3 and two edits* (`webhook`)
  let a second rotation follow the first and an edit fall between any two
  steps of a command.
* *In `console`*: two drafts, two sends and two previews let answers change
  places and a page be left between them; two flows of the gate are the race that
  generations decide; three calls of the rich menu page are a call given up and
  still on its way, its successor and a read; four menus let three
  be left by the old version, so that the order of repairs matters; a window of
  one unit with one start and two submissions brings the lab to its limit.

`CHECK_DEADLOCK FALSE` is set for `FriendshipSync`, `AccountUnlink`, the rich
menus and `console` only: the bounds on rows, events, grants and operations let every actor
run out of work, and a system without work may stop.  Symmetry is used in safety runs over actors that no
action tells apart, never in the liveness run.

### Fairness

Only `delivery_liveness` assumes any: the clock ticks, and the owner keeps
asking for the status of what was sent.  The second is a condition, not a fact
about the program: the browser does not poll, it offers a button while an
attempt is in processing, and `AttemptSettles` is about the attempts somebody
asks about.  Nothing is assumed of the workers: they may die or never run, and
the property still holds, because the status check expires what nobody settles.
The same condition is why a processing attempt that nobody asks about may stay
for ever, and why its content stays blocked by the unique key until then.

The webhook handlers have no liveness property on purpose: a receipt whose
worker dies stays in `processing`, and nothing in the code takes it up again.

## 4. Proofs

TLAPS checks the theorems below for every value of the constants.

**Delivery.**  `Invariance` proves `IInv`.  Properties alone are not inductive:
that only one worker pushes an operation rests on the row being inserted once
(`RowsAreValid`), on its owner being alone (`OwnersAreAlone`), and on a push
belonging to a row whose owner is past pushing (`PushesAreOwned`); that the
stored outcome is true rests on what a worker is about to store being true
(`ResultsAreTrue`) and on nobody being left to push a failed row
(`FailedIsAbandoned`).  From it: `TypeCorrect`, `PushesOnce`,
`PushesConfirmed`, `OutcomesAreTrue`, `ReceiptsAreTrue`, `TwinsAreExpired`.
The last part shows what one step may do to one row (`NextRow`) and
derives `OutcomesAreFinal`, `ReceiptsAreKept` and `PromiseKept`: the protocol
implements `DeliveryPromise`.

**Webhook ingress.**  `IngressIsInvariant` proves `IngressInv`: what is still to
be dispatched was recorded by this very request, is in `processing`, appears
once, and was handled only if its verdict waits to be written (`TodoIsOwned`);
the time needed for what is pending is still there (`TimeIsKept`).  The lemmas
on the reserves multiply them out, and the first position of a batch is found by
the well-foundedness of the naturals.  From it: `NoEventHandledTwice`,
`ReceiptsAreTrue`, `AcceptedMeansSettled`, `ResponsesKeepTheDeadline`.

**Interactions.**  Every step of a handler is a step of the ingress or leaves it
alone (`HandlerImplementsIngress`), so `IngressInv` is not proved again but taken
over (`IngressProofs == INSTANCE WebhookProofs`): an event is in the hands of one
request, once.  `InteractionsInv` adds what a handler call has done by its phase
(`JobOK`), that an event still to be dispatched was touched by nobody but the
call in hand (`PendingOK`) and one never handed over by none
(`RestIsUntouched`), and that a success the ingress believes is on the audit
(`SuccessIsOnRecord`).  That the ingress keeps its time needs the time a call has
spent (`InTime`): what a reply may add is what the ingress allows less the
handler's own reserve.  From it: `EventsHaveOneEffect`, `AuditIsTrue`.

**Account unlink.**  `UnlinkIsInvariant` proves `UnlinkInv`, an invariant of the
account and one of each tab: a request past the fence works for an attempt of
its own principal, and whoever calls LINE without having lost the connection
holds the lock.  `OthersKeep`, `AnswerKeeps`, `MoveKeeps` and `QuietMove` say
once what every action needs: the tabs that did not move keep their invariant.
From it: `DeletesWhatWasShown`, `MarkedIsRevoked`, `SingleFlight`,
`NothingIsLeft`, `OwnAccountOnly`.

**Channels and keys.**  `RotationInvariant` proves `RotationInv`.  Two facts carry
it: whoever is about to write a row holds its lock, so the row is as it was read
(`JobOK`, `RotOK`), and a command only writes a row that still needs its old key,
so whatever an old command writes, it writes with the present one
(`WritesPresentKey`).  `KeysInv` says where keys may be before and after the
report: a command that found every row and every process at the present key
finds them so at its end, since what is written meanwhile is written with that
key (`RotKept`).  From it: `KeysAlwaysSuffice`, `GivenStays`, `NeverOrphans`.

**Friendship sync.**  `FriendshipInv` holds `NewestWins` and `EffectOnce` together,
since each needs the other's fact about the key in the row: that an event is the
newest is told from the key, and that it has no second effect from the same key.
It adds that an audit row is of an event that happened and of a recipient that
was, so a new recipient starts with none.  From it: `ShowsTheNewest`,
`EffectIsOnce`.  `LineInv` says of the row, and of a request between its question
to LINE and its write, that the state carried is LINE's answer after some prefix
of the history; what happened to us since decides what LINE holds now
(`HeardMeansTrue`).

**Rich menus and deactivation.**  None of the properties is inductive, and they do
not become so one by one: `RichInv` holds them together.  It has three parts.
*The rows* (`Rows`): what may be true of a menu by what became of its
apply, above all which calls to LINE may still arrive (`MenuOK`: a late creation
only while the apply stands at `creating`, a late change of the default only at
`setting_default`, a late deletion only for a menu that is not the default);
that an operation runs exactly when the channel names it as active
(`ActiveOK`); that what is unresolved blocks, and that a recovery left unknown is
a dead end nothing else follows (`BlockingOK`, `DeadEnd`).
*The work*: one request at most is at work (`OneAtWork`), for the active
operation, and its local state is tied point by point to the status and stage on
record (`WorkOK`).  So whatever a request read before its call to LINE is
still so when it writes: it is this, and no lock, that makes the transactions safe.
*The coordinator* (`TaskOK`): while the intent it works for is pending and the
channel's revision is the one it saw, nothing it found in order can
change (`NothingLeft`, `NotReleased`), since no operation is accepted meanwhile.
From it: `NothingUnresolvedEscapes`, `AppliedMenusWereShown`,
`NoMenuIsForgotten`; and for the steps, by way of which actions may delete a menu
or switch the channel off, `NothingShownIsEverDeleted` and
`CompletionIsAlwaysClear`.

**Current menu.**  `ReadingInv` relates the request to the moment it took its
first look at the rows: stamps only grow, and rows with the same stamp are the
same (`StampsTell`), so if the second transaction finds them unchanged, what LINE
showed in between was shown while they were so (`ObservedThen`).  From it:
`ShowsAsItWas`.

**Repair.**  `ProofLasts` is not inductive alone: the menu a clean-up deletes must
not be the proof for another one that is left.  `RepairInv` adds that the heir of
an old menu is younger and of no other (`HeirsAreLater`, `HeirsDiffer`), and that
no menu that the blocking one replaced itself is left with a claim to its proof
(`BlockedIsEldest`): either those were given up when its successor was applied
(`abandoned`), or the repair has looked.

**Delivery page.**  `PageInv` says that the page waits for one call about an
operation at a time, the operation it shows, and that a call given up is a send on
its way (`CallsOK`); that whatever was sent is what the storage names or was told
to the owner (`FormOK`); and that an answer, once it is on its way, is about what
the attempt has come to.  Reloads, which forget all but the storage, keep it.
From it: `SendsWhatIsShown`, `NothingSentUnknowingly`, `OutcomesShown`.

**Owner session.**  The gate heeds one flow at most (`FlowsOK`).  `LogoutIsSeen` is
not inductive: it must be known of the answers still to come.  `LogoutOK` says of
every flow the gate heeds that it does not answer `authenticated` after the server
has ended the session.  `FreshOK` adds to `ReadyIsFresh` that a
login which is noticed after it was asked for is a fresh one: the request is taken
back when the SDK cannot leave, and else the former login has ended before the page
goes.  From them: `LogoutsAreSeen`,
`UnlinksWithAFreshLogin`.

**Rich menu page.**  Of the operations started since the page was opened all but
the one it shows have come to their end (`ShownOK`), because it starts another
only when it was told so; and an end that a call brings has come (`WaitOK`), for
good as far as the page can tell.  From it: `StartsOneAtATime`,
`EndsShowWithTheirMenu`.

**Lab.**  The page waits for the job that runs, and there is one (`OneJob`); what it
takes for the end of its token is never after the true one, since it counts from
when it asked (`UntilTold`), also when the timer goes off while it asks again.  That the limits forget a prefix of the starts is
shown by the well-foundedness of the naturals (`ForgottenIsAPrefix`).  From it:
`VerdictsInTime`.

*Assumptions.*  Those on the constants, named in each module and evaluated by
TLC in every run: `None` and `Nobody` are no ids, deadlines are natural and
ordered as in the code, event profiles are disjoint.  `ResponsesKeepTheDeadline`
is relative to the bound `MaxOverrun` on a handler and to settlements that stay
within their reserve; both are part of the model.

*Only model-checked.*  `AttemptSettles`, which needs fairness and `ENABLED` and is
out of the prover's reach.  Every invariant, action property and refinement that a
passing run checks has a theorem.

## 5. What the models leave out

* One channel and one recipient in `Delivery`; the directory's refusals are
  kept.  Message text, fingerprints and ids are model values; HMAC and
  encryption are injective.
* A transaction is one step wherever it holds the row lock all its readers
  need; in `FriendshipSync`, where the locks are the point, it is several.
* Isolation is what MySQL gives those transactions: locking reads see the last
  commit.  Where the code reads without a lock and acts in a later transaction
  the model has two steps.
* Time is discrete.  Only deadlines, baselines and stamps are modelled.
* In the rich menus: errors of the database, a second owner or provider, the
  content of templates and images, the expiry of a confirmation, the display of
  the history.  Other tools set the default to menus of their own
  or to none; that they pick one of ours is left out, since no check before a
  deletion could win that race.
* In `Channels` and `KeyRotation`: what a row holds beside its credentials, which
  is only its revision; the cryptography, of which a ciphertext is its key and its
  value.  A pending deactivation refuses edits: it is one of the reasons of
  `Rollback`, since `ChannelDeactivation` has no row of this module.
* In the pages: templates, drafts and images of menus, profiles, the list of
  channels, the comparison of two verdicts, and whatever only changes the wording.
* Not modelled: the channel administration page and the editors, history, theme
  and routes, which keep nothing between calls that a later one relies on beyond
  what section 6 says; catalogue, rendering, presenters and serializers, which are
  pure; settings, health and scripts, which are wiring; `yomiyasu`, which is
  vendored and no part of the system.
* Wording, presenters, logging and metrics.

## 6. Where the code and its documents disagree

1. `delivery_duplicate`.  A second send of the content being processed fails the
   unique key; if the first attempt becomes terminal before the reread
   (`backend/delivery/repositories.py:193-204`) the exception is raised again
   and the owner is told 503, although `linked-recipient-delivery/design.md:452`
   promises the canonical operation.
2. `interactions_audit`.  If the replacement of the reserved row fails after the
   reply, the row keeps `not_started` for a reply that LINE accepted
   (`backend/lineinteractions/services.py:400`), against
   `line-webhook-command-dispatch/requirements.md:110`.
3. `friendship_order`.  An event locks channel then owner, a request owner then
   channel (`backend/linefriendships/services.py:94`), against
   `line-friendship-sync/design.md:741`.  The loser of the deadlock is an event
   that is on record and never handled again.
4. `rich_menus_unlink`.  An unlink of a menu that LINE no longer shows completes
   its first stage with `succeeded` (`backend/linerichmenus/services.py:1532`),
   which the state machine does not allow there: the operation stays in process
   and keeps every other out, against
   `line-rich-menu-foundation/requirements.md:129`.

Met while reading, without a run of their own:

* `line-rich-menu-foundation/design.md:366` sends an operation whose worker died
  to `unknown` on the next status check or recheck; no such path exists in the
  service, `claim_stage` alone looks at the age of a claim.
* `line-rich-menu-foundation/requirements.md:149`: a recheck confirms the real
  outcome of an unlink or a deletion too.  `_recheck_context` loads the menu as
  candidate for an apply only, so those stay unknown.
* `line-rich-menu-foundation/requirements.md:38`: nothing is started on an
  inactive channel.  The acceptance does not look at the channel again, and a
  completed intent lets it pass; the stages then end as `unknown`.
* `line-rich-menu-admin-lifecycle/design.md:252`: every explicit recheck of a
  deactivation brings a new recovery id.  `advance_recheck_revision` takes the
  first one only and answers `recovery_conflict` from then on.
* The unlink that a deactivation starts leaves its menu in `cleanup_required`
  without a blocking operation, so no request of the owner can clean it up, and
  the assessment that follows can never be clear
  (`line-rich-menu-admin-lifecycle/design.md:251` expects it to be).
* `line-account-linking/design.md:669` lets a request that finds the account
  `vacant` under the lock converge to completed; `unlink_services.py:260`
  answers `unlink_attempt_stale`.
* `line-account-linking/design.md:342` says LINE is never called again after the
  marker is committed.  A request that loses the connection that carried its
  lock can still be inside the call; `CallsOnlyWhilePending` excludes exactly
  those requests.
* A logout whose session the server no longer knows (401): the handler of every
  401 begins a new generation first, so the branch for it
  (`frontend/src/AuthGate.tsx:216-222`) is never reached, and storage and the login
  at LINE stay.  The 401 of another call of the page during a logout does the same
  to an answer that succeeded.
* Delivery page, loaded again right after a send: the status check that asks for
  the stored id may arrive before the send, is told 404, and the id is forgotten;
  so is it after a broken send that a later check does not find, which is shown as
  rejected although the send may still arrive.  `SendsKnowingly` counts both as
  told.
* Rich menu page: a start refused with 409 is treated as one whose answer was lost
  (`frontend/src/useRichMenuAdmin.ts:340-345`), so the page follows an operation
  the server does not know until it is left.
* Channel page: with an operation under way, `mutate` returns `false` without an
  error, and the dialog for the activation shows success although nothing was
  sent (`frontend/src/ChannelActions.tsx`, `confirmState`).
* A key is added and a process not yet restarted cannot read the rows that those
  already restarted write; the procedure has every process restarted before the
  rotation, not before the key is used.
* The acceptance of an apply, an unlink or a release (`repository.py`, `accept`)
  does not look for a menu left by the old version; only the page withholds them
  (`backend/linerichmenus/current_service.py:393-400`).  If the menu that proves
  another's replacement is cleaned up or unlinked first, the repair refuses it
  (`no_proven_replacement`) for good, and with it stay the deactivation and the
  deletion of the channel.  `abandoned` in `MenuRepair` marks both cases; `ProofLasts`
  says that there is no third.
* `record_observation` (`backend/linerichmenus/repository.py:892-932`) keeps the
  observation that is written last, which may be the older one of two reads.
* The limits of the lab take the time before the mutex
  (`backend/textjudgmentlab/limits.py:51`), so two starts may enter the window in
  the wrong order.

## 7. Plan

Done, in this order: Delivery with its abstract promise and proofs, the ingress
with its proofs, the interactions as a refinement of its handler, friendship
sync with its proofs, the account with its proofs, the rich menus composed with the
deactivation; then channels and the rotation of their keys with proofs, the
delivery page, the gate, the rich menu page and the lab, the view of the current
menu and the repair, both with proofs; then the proofs of the interactions, of the
rich menus, of the pages and of the lab.

Next:

1. **Rich menus**: errors of the database between the transaction on the menu
   and the one on the operation.
2. **Composition**: `DeliveryPage` over `Delivery` by way of `DeliveryPromise`,
   so that a page and a backend with an expiry meet; `Channels` and
   `ChannelDeactivation` over one row.

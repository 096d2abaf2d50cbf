# ClawSweeper: a verification project in TLA+

ClawSweeper reviews issues and pull requests of GitHub repositories with coding
agents, keeps the resulting records on a *state branch*, and acts on them
(comments, labels, closing, repair). Its coordination runs in a Cloudflare
Worker with Durable Objects (`dashboard/`); the work runs in GitHub Actions
(`.github/workflows/`, `src/`). The two sides meet over HTTP requests that may
be lost, repeated or late, and over workflow runs that may be duplicated,
re-run, killed or never started. This directory models that coordination.

Paths in this file are relative to the repository root.

## 1. Inventory

| Component | State it keeps | Operations | Talks to |
|---|---|---|---|
| State writer coordinator, `dashboard/state-writer-coordinator.ts`, client `src/repair/state-writer-coordinator.ts` | ticket rows (queued, leased, completed, expired; token, expiry, deadline), two turn counters; client: token and expiry it was last told, a detached watchdog process | acquire, heartbeat, release, stats; each reclaims and prunes first | every workflow job that pushes to the state branch |
| Exact-review queue, review lane, `dashboard/exact-review-queue.ts` | one item per target (state, revision, decision, lease with claimant and generation, retry counters, watermark), durable revision allocator, supersession audits | enqueue, alarm (reclaim, preflight, admit, probe, dispatch, merge failures), claim, heartbeat, complete, reconcile, finish | webhook ingress, GitHub API, workflow runs, publication lane |
| Exact-review queue, publication lane, same file | publication items, publisher leases, heads | enqueue of results, batch dispatch, batch completion, head checks | batch store, direct publication, lifecycle |
| Publication batch store, `dashboard/exact-review-publication-batches.ts` | batches, memberships, claim generations | claim, heartbeat, complete, fetch, ownsActiveFence, stats, cleanup | publication lane, batch publisher workflow |
| Direct publication and canonical records, `dashboard/exact-review-direct-publication.ts`, `canonical-bodies.ts` | publication receipts, record rows in two storage formats, export index, bodies in a bucket | prepare, upload, commit, move, migrate, clean up, prune, export | queue, publication lane, replicas |
| Lifecycle and command acknowledgement, `dashboard/exact-review-lifecycle.ts` | lifecycle projections, attempt authorizations, finalizer drivers | project, plan, authorize, fence, acknowledge, cancel | queue, finalizer job, status comments |
| Command intake, `dashboard/exact-review-command-intake.ts` | intake records, receipts and a watermark per comment | admit, verify, enqueue, acknowledge, defer, finish, prune | ingress, queue alarm, GitHub |
| Review loop and budget, `dashboard/exact-review-review-loop.ts` | source-drift counters, token bucket | charge, trip, release | queue |
| Artifact cache, `dashboard/exact-review-artifact-cache.ts` | artifacts by digest | put, get, evict | publication |
| Ingress and router, `dashboard/worker.ts`, `exact-review-decision.ts`, `target-dispatch-ingress.ts` | none of its own | authenticate, build the decision, route | all Durable Objects |
| Webhook read model, `dashboard/github-webhook-read-model.ts`, `github-etag-cache.ts` | last known target states with authority sequence | apply, read, probe | queue |
| Snapshots, `dashboard/record-snapshots.ts`, `record-snapshot-uploads.ts` | uploads and parts | begin, put part, commit | readers of records |
| Telemetry and pages, `dashboard/*` | counters, rendered pages | read | operators |
| Review comment leases, `src/clawsweeper-review-comment-leases.ts` | lease markers in GitHub comments: posted ones, the durable review comment, status comments of commands | reserve, elect, confirm, clean up, adopt, release | review and apply workflows |
| Review, apply, retry workflows, action ledger, `src/` | files on the state branch | plan, review, apply with guards, retry | GitHub |
| Git publishing, batch publisher, comment router, fan-out, `src/repair/` | git worktrees | fetch, rebase, push, retry | state branch, coordinator, queue |
| Planner, policies, presentation, agents | none | pure decisions, prompts | workflows |

What is hard in it, and what each part must guarantee:

* **Two writers of the state branch.** A lease that expires by time is checked
  by a client that remembers an expiry. Correct: a writer that believes it may
  write is the only one, and a waiting writer of any class gets its turn.
* **Handlers that await.** `/claim` and the alarm read state, await GitHub, and
  read it again. Correct: what was checked before the await is still true of
  what is written after it (one claimant, no more active reviews than slots).
* **Runs that are duplicated, re-run or lost.** Correct: a lease has one run, a
  claim generation one attempt, its budget is charged once, and a lease ends
  even if everybody who knows of it is gone.
* **Coalescing of events and commands.** An item keeps one decision and at most
  one follow-up. Correct: merging, revoking, refreshing and retrying never drop
  the newest command, and a failing input is not retried for ever.
* **Batches of publications.** Correct: a publication result is applied once,
  from the present owner of the item only, and a dead publisher's items come
  back; joining, redelivering and superseding publications loses none.
* **Records written in two steps.** Bodies are uploaded, then the row is
  committed, while formats are switched, rows are migrated and replicas page.
  Correct: the newest review of a route stays, every export can be read, and
  maintenance is invisible.
* **Commands.** The versions of a comment arrive in any order and are verified
  across awaits; an exhausted command is acknowledged by a job that may be late
  or replaced. Correct: the version the comment shows is not dropped, each
  accepted command is answered, and no late job writes over what came after it.
* **Exclusion through GitHub comments.** There is no compare-and-set, only lists,
  POSTs and PATCHes. Correct: one elected lease of a head, shared only with who
  publishes its report, and cleanup spares it.

`PROJECT.json` lists every component with its status, and every hazard at the
line where it bites, with the properties that cover it.

## 2. Modules

| Module | Models |
|---|---|
| `StateWriterCoordinator` | the coordinator, its routes, the polling client, its watchdog, the network between them |
| `WriterLock` | what its users need: a lock (abstract) |
| `StateWriterCoordinator_proofs` | theorems about the two above |
| `ExactReviewQueue` | the review lane of the queue: pull-request events, commands, one-shot recoveries, the alarm, the worker's requests |
| `CommandIntake` | the tables of command comments and the part of the alarm that verifies, enqueues and acknowledges a command |
| `PublicationBatches` | the batch store and publishers that remember every grant for ever |
| `FencedOwnership` | what publication needs of the store: numbered owners (abstract) |
| `PublicationBatches_proofs` | theorems about the two above |
| `PublicationLane` | publication items, lineages, heads and the dead-letter lane, composed with `PublicationBatches` (an instance of it) |
| `CanonicalRecords` | publication receipts and the record tuple of one target: both routes, two storage formats, maintenance, replicas |
| `ParkedCommands` | the acknowledgement of an exhausted command: queue alarm, lifecycle projection, finalizer job, target |
| `ReviewCommentLeases` | leases in GitHub comments: reviewers, sweepers, cleanup, election |
| `ExactReviewQueue_proofs`, `CommandIntake_proofs`, `PublicationLane_proofs`, `CanonicalRecords_proofs`, `ParkedCommands_proofs`, `ReviewCommentLeases_proofs` | theorems about the module of the name |
| `MC...` | constants and bounds for TLC |

Operators named `Mut_...` are plausible bugs of the definition that follows
them; replacing the definition by one must violate a property. No specification
uses them.

### StateWriterCoordinator

`row` is the ticket table, `earlier` the order of `seq` among queued rows,
`batchTurns` and `intakeTurns` the meta counters, `client` the process behind a
ticket, `late` requests whose sender stopped waiting. Every server operation is
one transaction that starts with `ReclaimAndPrune` (`AcquireTx`, `HeartbeatTx`,
`ReleaseTx`, `Stats`). A client action is a client step together with the
transaction that answers it, or with a message put into `late` when there is no
answer; `Deliver` applies such a message at any later moment, `Lose` never. The
watchdog survives or dies with its writer (`Crash`). Absolute timestamps are the
time that remains until them, so behaviours are finite though time is not.

Tickets and lease tokens are UUIDs. A ticket identity is reused only when
nothing remembers it (`NewClient`); a token is fresh when no row, client or
message carries it (`FreshTokens`). When an instance
has no fresh token left, a grant waits until a receipt is pruned or a message
is gone; the token sets are large enough that the holder, the next holder and a
late request of an earlier one have different tokens.

The release that a client sends when its acquire deadline passes carries no
token; the route answers 400 before it reaches the coordinator, so
`PollTimedOut` changes nothing on the server.

### ExactReviewQueue

`items` holds the item columns, `alloc` the durable revision allocator, `alarm`
the alarm invocation in progress (`pc` names the await it is in), `runs` the
workflow runs a dispatch created, `claiming` the claims that await the
hosted-target probe, `workers` every granted claim (a worker may use its tuple
late or twice), `audits` the supersession audit rows. `streak`, `starts` and
`owed` are history variables for the properties.

One action per handler: `EnqueueEvent`, `EnqueueCommand`, `EnqueueRecovery`;
`AlarmStart`, `AlarmBlocked`, `AlarmAdmit`, `AlarmObserve`, `DispatchItem`,
`AlarmFinish` (the alarm between its awaits); `ClaimBegin`, `ClaimSettle`;
`Heartbeat`, `Complete`, `Reconcile`. The helpers keep the code's names where
they can: `ClearLease`, `Reclaim`, `RecoverParked`, `Finish`, `Merge`, `Park`.

Data that is abstracted: a decision is its kind (a *push* stands for the actions
that supersede a review in progress, a *draft* for the other pull-request
events), its source head and its command. A head is a number and the source
timestamp of its event. A lease id is its number. Time is two flags of an item:
`live` (the lease has not expired) and `due` (its next attempt time has come),
so every length of every timeout is covered. Limits on admission other than the
review capacity (per-target capacity, pass size) only make the admitted set
smaller, and `AlarmAdmit` chooses any subset.

Not in the module: issue, manual, scheduled, publication and finalizer items,
the source-drift breaker, delivery receipts, budgets and the token bucket,
version 1 claims, operator finalization of parked commands, comment ids of
acknowledgements, lifecycle projections.

### CommandIntake

`intake`, `receipt` and `mark` are the three tables for the versions of one
comment, `live` and `past` the comment on GitHub, `todo` the records the alarm
read at its start, `cur` and `pc` the record it works on and the await it is in.
A version is a timestamp (in seconds) and a body, so two versions may share the
timestamp. `Deliver` is `admit`; `TakeRecord` to `Effects` are the stretches of
`processCommandIntakes` between its awaits, `RequestFails` its catch block,
`Restart` the loss of the alarm. Receipts keep their outcome with the kind of
their detail: *stale* (rejected for the comment's version) and *refused*
(rejected for the target). GitHub's answer to the acknowledgement and the
reaction is one step; an edit makes a version the comment did not have before.

### PublicationBatches

`batch`, `member` and `generation` are the three tables, `told` what publishers
remember, `accepted` the history of completions applied to the queue. `Claim`
lets any set of items be tried: the queue's selection of candidates only makes
it smaller. A generation is raised before `INSERT OR IGNORE` may skip the item
and stays raised when the batch turns out empty, as in the code. `Heartbeat`
and `Complete` take any part of the fences a publisher was told.

### PublicationLane

The store is `INSTANCE PublicationBatches`; a step of the lane is a step of the
store together with what its callback does to the queue's items. `item` holds
the publications of one target by producer run, `head` the newest source
revision, `fetched` the decisions publishers took away, `dead` the dead-letter
lane. `Enqueue` joins deliveries of one lineage (`Collapsed`), `Finished` is
`finishExactReviewPublicationQueueItem`: at a later revision the item is
queued again (`Requeued`), otherwise the report decides (`Reported`), which may
park it (`Parked`). `Reconcile` joins the unowned items of a lineage into one
with the newest decision (`Refreshed`). The initial states contain every
backlog of separate items, which older deployments leave behind.

The queue also ends publications without a publisher. A claim asks GitHub
whether the target is public and, if it is not, deletes its candidate and grants
nothing (`ClaimRefused`); a repeated claim of a batch (`Replay`) asks again and
completes the batch's members itself, as superseded or throttled; the alarm,
a departure and a reconciliation delete publications of targets that are closed
or private (`Terminalize`); the alarm drops superseded items and has expired
ones reviewed again, owned or not (`Maintain`). All of them await GitHub and act
on the items as they are afterwards: `gone` is what GitHub has answered so far,
`Answer` gives an answer at any time, and `reviewing` says that a review of the
target is queued or runs. `Exhausted` is the retry budget of
`exact-review-publication-retry.ts`: by attempts, or by the time since the first
failure (*outlasted*). `artifact_unavailable` is a failure until its limit and a
*refresh* from then on.

Not in the module: publications with a command or a manual policy, item-leased
publishers, and what an operator does: replaying, recovering or resolving dead
letters, the parked publications that then move into the free slots, and the
operator's own supersession request, which removes what `Maintain` removes.

### CanonicalRecords

`v1`, `v2`, `export`, `backfill` and `bucket` are the tables and the bucket,
`receipts` and `moved` the receipts of publications and tuple mutations, `req`
the requests between their awaits, `pass` and `sweep` the snapshots of the
migration and of the hydration cleanup, `replica` a reader of the export. A
request reads its authority, uploads, and rechecks in the transaction of
`Commit`. Bodies are digests; `Stored` is the normalisation of a body.

### ParkedCommands

`item` is the exhausted command, `projection` its lifecycle rows by revision,
`driver` the finalizer items, `job` the workflow jobs, `comment` the status
comment. The alarm's probe, the job's claim, its attempt authorization, lookup,
write fence, PATCH and receipt are separate steps; leases and windows end by
steps of their own. The wait of the alarm for another status writer is part of
the write window. Left out: the endpoints for router receipts, finalizers of
ordinary reviews, delivery receipts of webhooks. A lookup that outlasts its
attempt counts as one of `MaxFaults`.

### ReviewCommentLeases

A lease marker is in one of three places: a comment that the runner POSTs
(*posted*), the durable review comment (*in place*), or the status comment of a
command (*command*; *answered* once its status is terminal). `comments` holds
the first and the third kind, which the election counts alike, and `durable`
the second. Each call to GitHub or to the queue is a step: assert authority,
list, POST (or read and PATCH of the durable comment), list again, confirm
authority and head, clean up by the old list (`stale`), read the context, claim
the supplied lease, review, publish, drop.

The review of a command does none of the election: `Fence` checks the queue's
authority and that the status is not terminal, `Mark` PATCHes the status comment
with the lease (`sweep.yml:552`, `update-command-status.ts:203`). Status comments
are posted by the router (`Acknowledge`) and written by workers, the router and
finalizers (`WriteStatus`), which takes a lease out of them; no deletion touches
them.

`reports` are the lease tuples (comment id, owner, head) of finished reviews. Any
run that publishes a report adopts the lease it names (`Begin`, `Refresh`); with
no live lease it posts one, with another one it stops. A run whose publication is
queued lets its lease lapse (`HandOver`, `Lapse`), a run that does not get that
far takes back what carries its name (`Unsuccessful`, `Release`).

Reports that name no lease, which older versions wrote, are not in the module:
their publishers mutate without one (`clawsweeper-apply-decision-workflow.ts:1182`).
Lease durations are a flag that `Expire` clears.

## 3. Runs

| Run | Instance | Shows |
|---|---|---|
| `state_writer` | a batch and an intake ticket, 4 tokens, lease 2, deadline 3, stale 2, retention 1, one late request, fair | `TypeOK`, `AtMostOneLease`, `ServiceBound`, `LiveLeaseEndsOnlyByItsOwner`, `ImplementsWriterLock`, `QueuedIsServed` |
| `queue_claims` | one pull request, two runs of a dispatch, two attempts, two claims in flight, fair | `OneClaimantPerGeneration`, `GenerationChargedOnce`, `LeaseEnds` |
| `queue_commands` | two versions of one command comment, two heads, three revisions, two leases, one parked recovery, two policy epochs | `TypeOK`, `CommandKept`, `RetryBudget` |
| `queue_capacity` | two pull requests, one slot | `ActiveWithinCapacity` |
| `queue_supersession` | one command, two heads, three revisions | violates `SupersededCompletionAcknowledged` |
| `command_intake` | an edited comment, a push, two faults, fair | `TypeOK`, `LiveVersionNotDropped`, `AcceptedIsAnswered` |
| `publication_batches` | two items, two batch ids, one owner, lease spans 1 and 2, two generations, fair | `TypeOK`, `OwnershipIsLeased`, `ImplementsOwnership`, `MembershipEnds` |
| `publication_lane` | two producers of one lineage and one of a newer revision, two batches, three generations, failure limit 3, one dead-letter slot, a target that goes or an artifact that expires | `TypeOK`, `FetchedIsCurrent`, `PublicationNotLost` |
| `records` | two direct and two batch publications, one of them regenerated, a tuple mutation, two requests at a time, a hydrated first record | `TypeOK`, `ExportReadable`, `RouteKeepsNewest`, `ReplicaFaithful`, `ChangesRaiseRevision`, `MaintenanceKeepsRecords` |
| `parked_commands` | two jobs, short grace, a newer command, one closure, two faults | `TypeOK`, `CancelledNeverAcknowledged`, `WriteNotOverSuccessor`, `RemovedOnlyAcknowledged` |
| `parked_live` | one job, four revisions, a closure, an edit, a repository that stops being public, two faults, fair | `ClosedCommandSettled` |
| `comment_leases` | a reviewer and a sweeper, two heads, two comments (posted or of commands), two tries, two runs of the sweeper | `TypeOK`, `OneDedicatedHolder`, `CleanupSparesCurrentHead` |

Why the bounds are enough for what the runs ask:

* *State writer.* A fencing error needs a holder, a second client, a request of
  the holder that arrives late, and an expiry between them; the deadline (3) is
  longer than a lease (2), so a lease is renewed at least once and is then cut
  by the deadline. The intake ticket returns again and again while the batch
  ticket waits, which is what its turn limit is for. The ordinary class and the
  shared budget are covered by the theorem `SpecServiceBound`.
* *Queue.* One item meets all interleavings of its own handlers, since handlers
  touch only the item of their key, except for the count of active items (two
  items, one slot) and a global failure of a pass. Two leases let an old worker
  meet a new lease; three revisions let an event, a follow-up and a revoking
  event meet one lease. The constraint `MCBounds` of `MCExactReviewQueue` keeps
  apart what need not meet: a second head and a second lease, a parked recovery
  and a third revision, a changed policy and either.
* *Intake.* Two versions are of the same second or not, and arrive in both
  orders; two faults let a failure follow a restart; one push makes a verified
  decision stale.
* *Batches and lane.* Two ids and two generations let a completion arrive after
  its batch expired, was cleaned up, and its id was claimed again by the same
  owner for the same item; several owners are in the theorems. `MCBounds` of
  `MCPublicationLane` lets a newer revision meet two batches, or a batch lease
  its items again until the dead-letter lane is full, not both; GitHub's answers,
  the age of an item and a running review come one at a time, with the first
  lease or once an item is parked. A failure limit of 3 tells exhaustion by
  attempts from exhaustion by time.
* *Records.* Two requests overlap each other, or one overlaps the replica or a
  maintenance pass (`MCBounds` of `MCCanonicalRecords`); publications of one
  behaviour come by one route, see remark 9. Six store revisions let a replica
  page over a rewritten row.
* *Parked commands.* The safety run takes the short grace, which allows every
  behaviour of the default one and late jobs besides, and the liveness run the
  default.
* *Comment leases.* An election needs two runners; two heads let a lease become
  superseded, two runs of the sweeper let one meet what its predecessor left, two
  comments are a status comment and a posted one or two posted ones. A reviewer
  begins again only by the tries of its run: its later runs are other reviewers,
  which the theorems cover. The instance reaches two runners with live leases of
  one head, one of them in a status comment, and two that share a posted lease by
  its report.

Jobs, requests and the ids of the lane's batches are interchangeable; symmetry is
used for them where no liveness is checked.

No run turns the deadlock check off.

### Fairness

* `StateWriterCoordinator`: time passes, and a client that polls keeps polling
  (the acquire loop of `src/repair/state-writer-coordinator.ts:86` sleeps and
  asks again until it is answered otherwise). Nothing is
  owed by a holder: it may hang for ever with its watchdog alive. The premise
  `<>[][~QueueDeath]_vars` of `QueuedIsServed` is not a fairness assumption on
  the code but a limit of it: see remark 7.
* `ExactReviewQueue`: `WF(AlarmStep)`, because the platform re-runs a Durable
  Object alarm that throws and every handler that leaves work behind sets the
  next alarm; `WF(LeaseRunsOut)`, because time passes. Claims, workers and
  webhooks owe nothing.
* `PublicationBatches`: time passes, and the store is read, because the queue's
  alarm is set to the next lease expiry. Publishers owe nothing; `MembershipEnds`
  speaks of behaviours in which they stop renewing.
* `CommandIntake`: `WF(AlarmStep)` as for the queue (`/command-intake` arms a
  wake-up, and the next alarm is set to the earliest record), `WF(Elapse)`,
  because time passes. Faults are bounded: what fails for ever is retried for
  ever by design.
* `ParkedCommands`: the alarm runs, a dispatched job starts and takes its steps
  or fails (GitHub ends a job after its timeout), and leases, windows and rests
  end by time. Faults are bounded. `ClosedCommandSettled` speaks of behaviours in
  which the repository is public all the time (`[]public`, remark 11).

## 4. Proofs

Every safety invariant and action property that a passing run checks, and both
refinements, are proved for all values of the constants; `PROJECT.json` lists
the theorems. The assumptions are named in the modules:

* tick counts, sizes, limits and bounds are positive where the code configures
  them so; sentinels are no values (`None` is no ticket, token, owner, digest or
  publication; `"plain"` is no command body), and a ticket has one of the three
  classes;
* `KeysAssumption` of the queue and the lane: the items are finitely many (rows
  of a table), which is what counting active reviews needs;
* `BodiesAssumption`: a command comment can have some body;
* `RunnersAssumption` of the comment leases: no runner is both a reviewer and a
  sweeper, and nobody (`None`) is no owner;
* `PlansAssumption` of the records: normalising a body twice is normalising it
  once, publications and moves have different ids, and the bound on store
  revisions admits the two revisions one transaction may use;
* `FencesAssumption` of the records: publications under one fence come by one
  route, those of a batch fence are of one reviewed revision (the fence is the
  membership of one queue item), and a direct publication is of the revision
  that its review leased.

Each proof has the same shape: an inductive invariant, one lemma for each
operator that several handlers use, one step for each action. Action properties
follow from the invariant in the state before the step.

`StateWriterCoordinator_proofs`

* `SpecTypeOK`, `SpecAtMostOneLease`, `SpecBelievedLeaseIsHeld` follow from the
  inductive invariant `LockInv`. `BelievedLeaseIsHeld` alone is not inductive: a
  tick could expire the row before the client's belief. `LockInv` adds
  `BeliefBacked` (the remaining time a writer believes in is at most what the
  row has left, under its own token), `LeaseWithinLimits` (a lease never has
  more time left than its deadline, so the deadline cannot end it earlier than
  the client was told) and `ReleaseOnlyAfterWriting` (a release in the network,
  which could take the lease away, belongs to a client that no longer writes).
* `SpecImplementsWriterLock`: with `LockInv` there is at most one believer, and
  every step either keeps the set of believers, empties it, or fills it from
  empty; the refinement mapping is `writing <- Believers`.
* `SpecLiveLeaseEndsOnlyByItsOwner`: `ReleaseCarriesToken` is added, that a
  release in the network carries the token its sender was told. A client that
  posted one is gone, keeps its token, and its ticket is not used again while
  the message exists, so the message is never of another life of the ticket.
* `SpecServiceBound`: `ServiceInv` relates the two saturated turn counters to
  the number of grants each class has been passed over by; the bounds 2
  (ordinary), 3 (batch), 3 (intake) are tight.

`PublicationBatches_proofs`

* `SpecStoreTypeOK`, `SpecOwnershipIsLeased` follow from `StoreInv`: types, at
  most one unfinished membership of an item, unfinished members exactly in
  leased batches, and the generation of an unfinished membership between 1 and
  the item's last generation. The last part makes an owner's number nonzero and
  never larger than what was issued, which the refinement needs.
* `SpecImplementsOwnership`: reclaim, claim, completion and cleanup each keep,
  end, replace or accept the ownership of every key as `FencedOwnership` allows
  (`ClosingStep`, `ClaimAbstract`, `CompleteAbstract`).

`BelievedLeaseIsHeld` is proved and not run: it is what the refinement checked
by `state_writer` rests on.

`ExactReviewQueue_proofs` (`QueueInv`)

* An item is sound by itself (`ItemInv`): its columns agree with its state, its
  failures since the last new input are at most `recov * RetryLimit + fails`
  (why `RetryBudget` holds over parked recoveries), a charged generation is not
  charged again, and a leased decision that is no longer the item's belongs to
  an older revision. Every helper keeps that, whichever handler calls it, so
  most steps of the proof are one lemma on one helper (`Follows`).
* Around the items: every lease number was issued and a run knows only issued
  ones (`Numbered`); a worker of the current lease is its claimant or an earlier
  attempt of it (`Claimed`), which gives `SpecOneClaimantPerGeneration` although
  `/claim` checks before its await and grants after it; active reviews and the
  candidates under the probes of the alarm together fit into the slots
  (`Slots`). Only the alarm fills slots, so `SpecActiveWithinCapacity` follows.
* `SpecTypeOK`, `SpecCommandKept`, `SpecRetryBudget`,
  `SpecGenerationChargedOnce`.

`CommandIntake_proofs` (`IntakeInv`)

* `SpecTypeOK`, `SpecLiveVersionNotDropped`. The watermark is a version the
  comment had, and none is later than the one it shows (`CommentOK`, `MarkOK`);
  nothing with a receipt is after the watermark (`ReceiptOK`); a record that the
  alarm works on keeps its receipt (`AlarmOK`). `LiveOK` also covers the version
  that is the watermark and whose receipt is pruned: it would be rejected as
  stale if it were delivered again, so it must have been answered before.

`PublicationLane_proofs` (`LaneInv`)

* `SpecTypeOK`, `SpecFetchedIsCurrent`, `SpecPublicationNotLost`. An owned item
  is pending, at the revision of its membership or a later one (`OwnedPresent`),
  and while it is there its decision is not newer than what was fetched under the
  membership, unless its revision moved on (`FetchedOK`). A fetched decision never
  becomes current again, because a new membership has a generation above all
  earlier ones (`MembersOK`). No item is of a source newer than the head
  (`HeadOK`), so dropping what is older keeps the newest. `PublicationNotLost`
  lists every cause for which a publication leaves, those without a publisher
  included, and what each of them needs: an item that a batch leases is not
  deleted for its closed target, one that is gone for the target's privacy is
  still at the leased revision, and an expired one leaves a review behind.

`CanonicalRecords_proofs` (`RecordsInv`)

* `SpecExportReadable`: what requests and passes carry across their awaits stays
  true of the bucket (`RequestsOK`, `PassOK`, `SweepOK`), and format 2 has no
  row before the switch (`RowsOK`).
* `SpecReplicaFaithful`: an entry on its way is the next one after the cursor or
  was exported again behind it (`ReplicaOK`, with the export order `OrderOK`).
* `SpecRouteKeepsNewest`: nothing that was written or has a receipt is newer
  than the publication head (batch) or the item's revision (direct)
  (`FencesOK`), by `FencesAssumption`.
* `SpecTypeOK`, `SpecChangesRaiseRevision`, `SpecMaintenanceKeepsRecords`.

`ParkedCommands_proofs` (`ParkedInv`)

* `SpecTypeOK`, `SpecCancelledNeverAcknowledged`, `SpecRemovedOnlyAcknowledged`;
  `SpecWriteNotOverSuccessor` because only a leased driver has a write window, no
  review runs while there is one (`WindowBlocks`), and a job between fence and
  PATCH that has its driver's lease has the window (`FencedHasWindow`).

`ReviewCommentLeases_proofs` (`LeaseInv`)

* `SpecOneDedicatedHolder`: the property is not inductive, since a second runner
  may be about to confirm. A runner that found itself elected holds the *first*
  live lease of its head among the posted ones (`HoldsFirst`): ids of posted
  comments only grow, and a lease that expired never lives again. A run holds a
  lease in its own name or that of a report (`RunKnown`), and the posted lease of
  a report is a first one too (`ReportsAreFirst`), which is why adoption does not
  bring in a second lease. Leases in status comments are outside the argument
  and the property: they have old ids and come without an election (remark 15).
* `SpecCleanupSparesCurrentHead`: a list to clean up from, however old, names
  only posted comments of heads before the runner's own (`StaleOld`).
* `SpecTypeOK`.

Only model-checked: the five liveness properties `QueuedIsServed`, `LeaseEnds`,
`AcceptedIsAnswered`, `MembershipEnds` and `ClosedCommandSettled`. The prover
handles neither fairness nor `ENABLED`.

## 5. Finding and remarks

**Finding** (`queue_supersession`). When a source event revokes an active
review, `/enqueue` writes an audit row with the item's *current* revision
(`dashboard/exact-review-queue.ts:2470`), while a late completion is looked up
by the revision of its *lease* (13408). If a follow-up raised the revision
first, they differ: an event is dispatched and claimed at revision 1, a draft
event or a command makes it revision 2, a push revokes the lease and audits
revision 2, and the worker's completion is answered `lease_not_claimed`.
`docs/scheduler.md:236` says that a superseded completion stops without an
error; every other 409 fails the step. The heartbeat path (3235) stores the
lease's revision.

Remarks on behaviour the models reproduce:

1. `exactReviewDecisionCanSupersedeReview` does not compare the watermark when
   the active decision has no source head.
2. A scanner refusal restores the lease's decision and so ends a command queued
   as the follow-up.
3. An event that does not revoke the active review replaces a queued follow-up
   command, whose status is finalized as superseded. `CommandKept` says so. It
   claims nothing of a command any more once such an event arrives, also when the
   command is the one under review and its worker may still answer it.
4. The live-head refresh of a command raises `item.revision` without the
   durable allocator (6412); the allocator takes the item's revision as a floor
   while the item exists.
5. An expired lease is not a counted failure: a worker that dies every time is
   dispatched again without limit. `RetryBudget` bounds counted failures.
6. The path of `/claim` that finds the target answered finishes the item under
   policy epoch 0, not the deployed one.
7. A priority client that dies in the queue blocks it until its ticket is stale
   and uses up no turn; such clients, one after another, starve the others.
8. An ambiguous dispatch failure returns the item to the queue though a run may
   have started; the claim tuple makes that run harmless (`docs/limits.md:246`).

9. The order of reviews is kept on each publication route (`RouteKeepsNewest`),
   not between them: a direct publication records no publication head, so an
   older review still queued as a batch publication commits over a newer one
   that was published directly (`dashboard/exact-review-queue.ts:10227`;
   `docs/canonical-body-tiering.md:108` asks for a recheck of superseding
   publications). A result sent again after its receipt expired, and before it
   is pruned, is the other exception.
10. An enqueue while a batch owns an item of the lineage drops an unowned
    duplicate even when that has the newer artifact; the owned one is published.
11. `/claim` deletes the driver of a parked command when the repository is not
    public at that moment (3006), where `docs/live-dashboard.md:1585` says that
    it is deferred; the command stays parked. `ClosedCommandSettled` therefore
    speaks of repositories that are public from the start on.
12. A job between its fence and its PATCH can lose its driver under the write.
    With a heartbeat grace below the run time of a job, the late receipt of an
    old attempt deletes the driver (the deployed grace is 20 minutes,
    `wrangler.toml:83`). With any grace, the receipt of another job that finds
    the repository not public queues every driver of the target again, also the
    fenced one (`dashboard/exact-review-queue.ts:11353`, 11416). A review of a
    newer command may then start before the PATCH arrives.
    `WriteNotOverSuccessor` claims what holds: a job that still has the lease
    does not write over such a review. The second case takes two jobs and three
    revisions, more than the run has; it appeared in the proof.
13. A background reviewer writes its lease into the durable review comment from
    a body it read before (`src/clawsweeper-review-comment-leases.ts:289`). The
    comment at 276 says that queue ownership serializes such updates; a sweeper
    with a dedicated lease and no queue ownership publishes to the same comment
    (`src/clawsweeper-review-comment-publication.ts:300`), and when it does so
    between the two calls its review is put back to the older one.
14. `markVerified` ends the siblings of the same second that were admitted after
    the comment was read for the verification; `LiveVersionNotDropped` names
    this case.
15. Two runners can hold live leases of one head at once when one of them is the
    review of a command. Its lease is written into the status comment, which is
    older than every lease posted later, so the election of
    `src/repair/comment-router/admission.ts:313` prefers it to a posted lease that
    was confirmed before; the comment at 310 says that a reused id must never
    displace a confirmed POST lease, and the code sees to that for in-place leases
    only. The displaced runner finds out at its next check (`ClaimSupplied`,
    `Refresh`, `Guard`); what it writes between a check and the lease of the
    command is not prevented. `OneDedicatedHolder` excepts status comments.
16. The reviewer and a publisher of its report hold the same lease, by design:
    whoever has the report adopts the lease that it names
    (`src/clawsweeper-apply-lease-guards.ts:79`). Two publishers of one report can
    both pass their guards.
17. `expireReviewLeaseCommand` goes by the comment only: after a hand-over it lets
    the in-place marker of another runner lapse if that was written meanwhile
    (`Lapse`).
18. A publication that a batch leases is refreshed all the same when its artifact
    is past the retention (`expireExactReviewPublicationItems` does not ask for
    the owner); the publisher's completion then finds no item.
19. `deadLetterCapacityAvailableSync` finds room for an id in any status, and the
    insert keeps an older row of that id with its item: a publication that ends
    under a key and revision of an earlier dead letter leaves no letter of its own.

## 6. Plan and what is not modelled

Done: the state writer, the batch store, the review lane and the publication
lane of the queue, command intake, canonical records, the acknowledgement of
exhausted commands, comment leases. Next, in this order:

1. **Proofs** of what the runs check are done; new properties come with theirs.
   Left: `PublicationLane` implements `PublicationBatches` as a theorem (its
   steps are steps of the instance by construction, apart from reads), and an
   abstract specification of the review lane, one owner for each generation of
   a lease, of which `OneClaimantPerGeneration` is the invariant form.
2. **More of the review lane**: a property for status-phase supersession, the
   source-drift breaker and the scheduled budget; issue and scheduled items.
3. **Publications with commands** and item-leased publishers of the lane, and
   the direct route composed with it.
4. **Failed-review retry, apply guards, snapshot uploads, webhook read model,
   action ledger.**

Not modelled, and not planned: telemetry and pages (read only), the planner,
prompts, policies and presentation (pure decisions over text), the artifact
cache (a cache of immutable bytes by digest), git itself (an external program
whose exclusion is the state writer's lease). Most of the repository is of this
kind: text, policies, workflows of one process and their command-line tools,
which keep no state that two actors share. The models cover the parts that do.

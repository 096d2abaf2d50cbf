-------------------------- MODULE ExactReviewQueue --------------------------
(***************************************************************************)
(* The review lane of the exact-review queue, a Durable Object             *)
(* (dashboard/exact-review-queue.ts): admission of pull-request events,    *)
(* commands and one-shot recoveries, the alarm that dispatches workflow    *)
(* runs, and the claim / heartbeat / complete / reconcile requests of      *)
(* those runs.                                                             *)
(*                                                                         *)
(* A request handler runs in one step from its read of the state to its    *)
(* write, except where it awaits the network: /claim awaits the hosted-    *)
(* target probe between two reads of the state (ClaimBegin, ClaimSettle),  *)
(* and the alarm awaits the workflow preflight, the live probes and each   *)
(* dispatch.  Any other request may run at those points.                   *)
(*                                                                         *)
(* A worker keeps its lease tuple for ever, so it may heartbeat or         *)
(* complete late or twice.  Time is abstracted to two flags an item        *)
(* carries: live (the effective lease expiry is in the future) and due     *)
(* (nextAttemptAt, or parkedRecoveryAt of a parked item, has passed).      *)
(* The module follows pull-request review items.  Publication, finalizer,  *)
(* issue, manual and scheduled items, the source-drift loop breaker, the   *)
(* delivery receipts and the lifecycle projections are not in it.          *)
(***************************************************************************)
EXTENDS Integers, FiniteSets

CONSTANTS
  Keys,                 \* queue keys, one per pull request (exactReviewItemKey)
  Capacity,             \* exactReviewQueueCapacity
  RetryLimit,           \* EXACT_REVIEW_RETRY_LIMIT
  ParkedRecoveryLimit,  \* EXACT_REVIEW_PARKED_RECOVERY_LIMIT
  Commands,             \* <<comment, version>> of the command comments
  MaxHead,              \* bound: pushes to a pull request
  MaxRevision,          \* bound: revisions of an item
  MaxLease,             \* bound: leases of an item
  MaxRuns,              \* bound: workflow runs one dispatch starts
  MaxAttempt,           \* bound: attempts of a workflow run
  MaxClaims,            \* bound: claim requests in flight
  MaxEpoch              \* bound: deployments that change the retry policy

ASSUME KeysAssumption == IsFiniteSet(Keys)
ASSUME CapacityAssumption == Capacity \in Nat \ {0}
ASSUME LimitsAssumption ==
  /\ RetryLimit \in Nat \ {0} /\ ParkedRecoveryLimit \in Nat
  /\ MaxHead \in Nat \ {0} /\ MaxRevision \in Nat /\ MaxLease \in Nat
  /\ MaxRuns \in Nat \ {0} /\ MaxAttempt \in Nat /\ MaxClaims \in Nat
  /\ MaxEpoch \in Nat
ASSUME CommandsAssumption == Commands \subseteq (Nat \ {0}) \X (Nat \ {0})

VARIABLES
  items,     \* key |-> queue item (st = "absent": no row)
  alloc,     \* key |-> last revision of the durable allocator
  leases,    \* key |-> leases created so far (a lease id is its number)
  alarm,     \* the alarm invocation in progress
  runs,      \* workflow runs created by a dispatch
  claiming,  \* claim requests that await the hosted-target probe
  workers,   \* run attempts whose claim was granted
  audits,    \* supersession audit rows that name a claimant
  answered,  \* key |-> a review of the pull request was published
  live,      \* key |-> head of the pull request on GitHub
  epoch,     \* exactReviewRetryPolicyEpoch of the deployed code
  owed       \* history: key |-> the admitted command not yet ended

vars == <<items, alloc, leases, alarm, runs, claiming, workers, audits,
          answered, live, epoch, owed>>

----------------------------------------------------------------------------
(* Decisions.  kind is the source action: "push" stands for the actions    *)
(* that set supersedesInProgress (synchronize, edited, ...), "draft" for   *)
(* the other pull-request events.  src is the source head (0: none).       *)

NoCommand == <<0, 0>>
Kinds == {"push", "draft", "command", "recovery"}
Decision == [kind : Kinds, src : 0 .. MaxHead, cmd : Commands \cup {NoCommand}]
NoDecision == [kind |-> "draft", src |-> 0, cmd |-> NoCommand]

HasCommandContext(d) == d.cmd # NoCommand
Supersedes(d) == d.kind = "push"
IsAutomatic(d) == ~HasCommandContext(d)

Mut_MergeTakesNext(current, next) ==
  [next EXCEPT !.src = IF next.src # 0 THEN next.src ELSE current.src]

\* mergePendingExactReviewDecision: the fields next carries replace current's.
Merge(current, next) ==
  [kind |-> next.kind,
   src |-> IF next.src # 0 THEN next.src ELSE current.src,
   cmd |-> IF HasCommandContext(next) THEN next.cmd ELSE current.cmd]

\* exactReviewInputIdentityChanged: source fingerprint (action and head
\* included) or command identity.
InputIdentityChanged(prior, next) == prior # next

CommandVersionIsOlder(active, incoming) ==
  /\ active.cmd[1] = incoming.cmd[1]
  /\ incoming.cmd[2] < active.cmd[2]

----------------------------------------------------------------------------
(* Items.  streak and starts are history: review failures counted against *)
(* the same input, and budget charges of the current claim generation.    *)

NoItem == [st |-> "absent", rev |-> 0, dec |-> NoDecision, wm |-> 0,
           lease |-> 0, leaseRev |-> 0, leaseDec |-> NoDecision, live |-> FALSE,
           phase |-> "none", statusSup |-> 0, run |-> 0, att |-> 0, gen |-> 0,
           chargeGen |-> 0, fails |-> 0, reason |-> "none", recov |-> 0,
           due |-> FALSE, epoch |-> 0, streak |-> 0, starts |-> 0]

Recoverable == {"dispatch_rejected", "review_retry_exhausted"}
Holds == {"maintainer_request_required", "oversized_pull_request"}
Reasons == {"none", "scanner_refused", "source_incompatible"} \cup Recoverable \cup Holds
Phases == {"none", "review", "status", "finalizing"}

With(f, k, v) == [j \in Keys |-> IF j = k THEN v ELSE f[j]]

IsActive(it) == it.st \in {"dispatching", "leased"}
ActiveDecision(it) == IF it.lease # 0 THEN it.leaseDec ELSE it.dec
HasNewerRevision(it) == it.rev > it.leaseRev

Mut_ClearKeepsClaimant(it) ==
  [it EXCEPT !.lease = 0, !.leaseRev = 0, !.leaseDec = NoDecision, !.live = FALSE,
             !.phase = "none", !.statusSup = 0, !.chargeGen = 0, !.starts = 0]

\* clearExactReviewLease
ClearLease(it) ==
  [it EXCEPT !.lease = 0, !.leaseRev = 0, !.leaseDec = NoDecision, !.live = FALSE,
             !.phase = "none", !.statusSup = 0, !.run = 0, !.att = 0, !.gen = 0,
             !.chargeGen = 0, !.starts = 0]

\* resetExactReviewAdmittedRetryState
ResetAdmitted(it) ==
  [it EXCEPT !.st = "pending", !.reason = "none", !.recov = 0, !.fails = 0,
             !.epoch = epoch, !.streak = 0]

RetryIdentityChanged(it, prior, next) ==
  it.epoch # epoch \/ InputIdentityChanged(prior, next)

\* parkRecoverableExactReviewItem
Park(it, reason) == [it EXCEPT !.st = "parked", !.reason = reason, !.due = FALSE]

Mut_ReclaimOnlyLeased(it) ==
  IF it.st # "leased" \/ it.live THEN it
  ELSE IF it.leaseDec.kind = "recovery" THEN NoItem
  ELSE [ClearLease(it) EXCEPT !.st = "pending", !.due = TRUE]

\* reclaimExpiredExactReviewLease: an expired lease returns the item to the
\* queue; a one-shot recovery without newer input ends.
Reclaim(it) ==
  IF ~IsActive(it) \/ it.live THEN it
  ELSE IF ~RetryIdentityChanged(it, it.leaseDec, it.dec)
  THEN IF it.leaseDec.kind = "recovery" THEN NoItem
       ELSE [ClearLease(it) EXCEPT !.st = "pending", !.due = TRUE]
  ELSE [ClearLease(it) EXCEPT !.st = "pending", !.due = TRUE, !.fails = 0,
                              !.epoch = epoch, !.streak = 0]

ReclaimAll == [k \in Keys |-> Reclaim(items[k])]

Mut_RecoverForFree(it) ==
  IF it.st = "parked" /\ it.reason \in Recoverable /\ it.due
  THEN [it EXCEPT !.st = "pending", !.reason = "none", !.fails = 0]
  ELSE it

\* recoverParkedExactReviewItems, for one item
RecoverParked(it) ==
  IF /\ it.st = "parked" /\ it.reason \in Recoverable
     /\ it.recov < ParkedRecoveryLimit /\ it.due
  THEN [it EXCEPT !.st = "pending", !.reason = "none", !.fails = 0, !.epoch = epoch,
                  !.recov = IF it.epoch # epoch THEN 0 ELSE it.recov + 1,
                  !.streak = IF it.epoch # epoch THEN 0 ELSE it.streak]
  ELSE it

\* exactReviewParkedOperatorEligible
OperatorEligible(it) ==
  /\ it.st = "parked"
  /\ \/ it.reason \in Holds \cup {"source_incompatible"}
     \/ it.reason \in Recoverable /\ it.recov >= ParkedRecoveryLimit

----------------------------------------------------------------------------
(* finishExactReviewQueueItem.  The outcomes of a completion:              *)
(*   success, requeue (success with requeue_latest), hold (success with a  *)
(*   review_hold), failure (retryable), deferral (failure with retry_kind),*)
(*   terminal, incompatible, refusal (failure with a terminal reason).     *)

Outcomes == {"success", "requeue", "hold", "failure", "deferral", "terminal",
             "incompatible", "refusal"}

IsRetrying(outcome) == outcome \in {"failure", "deferral"}

\* One more counted failure; at the limit the item is parked.
CountFailure(it) ==
  LET n == [it EXCEPT !.fails = it.fails + 1, !.streak = it.streak + 1,
                      !.epoch = epoch, !.due = FALSE]
  IN IF n.fails >= RetryLimit THEN Park(n, "review_retry_exhausted") ELSE n

\* What an item that is neither requeued nor refused becomes.
Settled(it, outcome) ==
  IF outcome = "hold" /\ ~HasNewerRevision(it) /\ ~HasCommandContext(it.leaseDec)
  THEN [Park(ClearLease(it), "oversized_pull_request") EXCEPT !.dec = it.leaseDec]
  ELSE IF outcome = "incompatible" /\ it.dec.src # 0 /\ ~HasCommandContext(it.dec)
  THEN Park(ClearLease(it), "source_incompatible")
  ELSE NoItem

Requeued(it, outcome, requeueLatest, sourceChanged, policyChanged, policy) ==
  LET p == [ClearLease(it) EXCEPT !.st = "pending", !.due = FALSE]
  IN IF outcome = "deferral" /\ ~sourceChanged /\ ~requeueLatest
     THEN [p EXCEPT !.reason = "none"]
     ELSE IF IsRetrying(outcome) /\ ~sourceChanged /\ ~policyChanged
     THEN CountFailure(p)
     ELSE [p EXCEPT !.fails = 0, !.epoch = policy, !.reason = "none", !.recov = 0,
                    !.streak = 0]

Finish(it, outcome, requeueLatest, policy) ==
  LET policyChanged == it.epoch # policy
      sourceChanged == HasNewerRevision(it) /\ InputIdentityChanged(it.leaseDec, it.dec)
      oneShot == it.leaseDec.kind = "recovery"
      retrying == IsRetrying(outcome)
      requeued == \/ outcome = "deferral" /\ ~sourceChanged /\ ~requeueLatest
                  \/ ~oneShot /\ retrying
                  \/ sourceChanged
                  \/ retrying /\ policyChanged
                  \/ requeueLatest
  IN IF outcome = "refusal"
     THEN [ClearLease(it) EXCEPT !.dec = it.leaseDec, !.st = "parked",
                                 !.reason = "scanner_refused", !.due = FALSE]
     ELSE IF requeued
     THEN Requeued(it, outcome, requeueLatest, sourceChanged, policyChanged, policy)
     ELSE Settled(it, outcome)

\* history: the lease's own command ends with the item, and a refusal ends
\* whatever the item carried.
OwedAfterFinish(k, it, new, outcome) ==
  IF \/ outcome = "refusal"
     \/ it.leaseDec.cmd = owed[k] /\ (new = NoItem \/ new.dec.cmd # owed[k])
  THEN NoCommand ELSE owed[k]

----------------------------------------------------------------------------
(* /enqueue                                                                *)

\* allocateItemRevision.  The revisions other stores retain also raise the result,
\* which only leaves gaps.
NextRevision(k, minimum) == 1 + (IF alloc[k] > minimum - 1 THEN alloc[k] ELSE minimum - 1)

NewItem(d, rev) ==
  [NoItem EXCEPT !.st = "pending", !.rev = rev, !.dec = d, !.epoch = epoch,
                 !.wm = IF d.kind \in {"push", "draft"} THEN d.src ELSE 0]

\* exactReviewDecisionCanSupersedeReview for a verified webhook event.  Events
\* are numbered by their source timestamp; a tie is decided by the authority
\* sequence, which grows with every delivery.
CanSupersede(it, d) ==
  ActiveDecision(it).src = 0 \/ it.wm = 0 \/ d.src >= it.wm

\* The claimant an item's lease names, as an audit row or a worker record it.
Claimant(k, it) ==
  [key |-> k, lease |-> it.lease, rev |-> it.leaseRev, run |-> it.run,
   att |-> it.att, gen |-> it.gen]

\* The item after an event decision replaced or joined its decision.
AdmitEvent(it, d, rev) ==
  LET revoked == Supersedes(d) /\ it.phase # "status" /\ IsActive(it)
      status == /\ Supersedes(d) /\ it.phase = "status" /\ IsActive(it)
                /\ InputIdentityChanged(it.leaseDec, d)
      cur == IF revoked THEN [ClearLease(it) EXCEPT !.st = "pending", !.reason = "none"]
             ELSE IF status THEN [it EXCEPT !.statusSup = rev] ELSE it
      mergeable == cur.st \in {"pending", "parked"}
      preserves == revoked /\ HasCommandContext(it.dec)
      next == IF revoked /\ ~preserves THEN d
              ELSE IF mergeable THEN Merge(it.dec, d) ELSE d
      keepsBudget == /\ mergeable /\ cur.reason \notin Holds
                     /\ ~RetryIdentityChanged(cur, it.dec, next)
      new == [cur EXCEPT !.dec = next, !.rev = rev, !.wm = d.src]
  IN IF keepsBudget THEN new
     ELSE IF mergeable THEN [ResetAdmitted(new) EXCEPT !.due = FALSE]
     ELSE [new EXCEPT !.due = FALSE]

EventDecision(kind, i) == [kind |-> kind, src |-> i, cmd |-> NoCommand]

\* A pull-request webhook event for source i is admitted, or rejected as stale.
EnqueueEvent(k, kind, i) ==
  LET cur == Reclaim(items[k])
      d == EventDecision(kind, i)
      rev == NextRevision(k, cur.rev + 1)
      scannerHold == cur.st = "parked" /\ cur.reason = "scanner_refused"
      accepted == CanSupersede(cur, d)
      revokes == accepted /\ Supersedes(d) /\ cur.phase # "status" /\ IsActive(cur)
  IN /\ i <= live[k]
     /\ rev <= MaxRevision
     /\ ~answered[k] \/ HasCommandContext(items[k].dec)
     /\ \/ /\ scannerHold /\ cur.epoch = epoch
           /\ items' = ReclaimAll
           /\ UNCHANGED <<alloc, audits, owed>>
        \/ /\ cur.st = "absent" \/ (scannerHold /\ cur.epoch # epoch)
           /\ items' = With(ReclaimAll, k, NewItem(d, rev))
           /\ alloc' = With(alloc, k, rev)
           /\ UNCHANGED <<audits, owed>>
        \/ /\ cur.st # "absent" /\ ~scannerHold
           /\ alloc' = With(alloc, k, rev)
           /\ items' = IF accepted THEN With(ReclaimAll, k, AdmitEvent(cur, d, rev))
                       ELSE ReclaimAll
           /\ audits' = IF revokes /\ cur.run # 0
                        THEN audits \cup {[Claimant(k, cur) EXCEPT !.rev = cur.rev]}
                        ELSE audits
           \* An event that does not revoke the active review replaces a queued
           \* follow-up command; its status is finalized as superseded.
           /\ owed' = IF accepted /\ IsActive(cur) /\ ~revokes
                      THEN With(owed, k, NoCommand) ELSE owed
     /\ UNCHANGED <<leases, alarm, runs, claiming, workers, answered, live, epoch>>

\* A command comment, delivered without a webhook authority tuple.  It joins a
\* waiting item, and becomes the follow-up of an active one.  fresh: the comment
\* was written after the refusal that holds the item.
EnqueueCommand(k, c, fresh) ==
  LET cur == Reclaim(items[k])
      d == [kind |-> "command", src |-> 0, cmd |-> c]
      rev == NextRevision(k, cur.rev + 1)
      scannerHold == cur.st = "parked" /\ cur.reason = "scanner_refused"
      joined == [cur EXCEPT !.dec = Merge(cur.dec, d), !.rev = rev]
  IN /\ rev <= MaxRevision
     /\ \/ /\ scannerHold /\ ~fresh
           /\ items' = ReclaimAll
           /\ UNCHANGED <<alloc, owed>>
        \/ /\ cur.st = "absent" \/ (scannerHold /\ fresh)
           /\ items' = With(ReclaimAll, k, NewItem(d, rev))
           /\ alloc' = With(alloc, k, rev)
           /\ owed' = With(owed, k, c)
        \/ /\ cur.st # "absent" /\ ~scannerHold
           /\ IF CommandVersionIsOlder(ActiveDecision(cur), d)
              THEN /\ items' = ReclaimAll
                   /\ UNCHANGED <<alloc, owed>>
              ELSE /\ items' = With(ReclaimAll, k,
                                 IF IsActive(cur) THEN [joined EXCEPT !.due = FALSE]
                                 ELSE [ResetAdmitted(joined) EXCEPT !.due = FALSE])
                   /\ alloc' = With(alloc, k, rev)
                   /\ owed' = With(owed, k, c)
     /\ UNCHANGED <<leases, alarm, runs, claiming, workers, audits, answered, live,
                    epoch>>

\* A one-shot recovery of a failed review shard.  It never touches an existing
\* item, and backpressure may shed it.
EnqueueRecovery(k, i) ==
  LET cur == Reclaim(items[k])
      d == [kind |-> "recovery", src |-> i, cmd |-> NoCommand]
      rev == NextRevision(k, cur.rev + 1)
      releases == /\ cur.st = "parked" /\ cur.reason = "scanner_refused"
                  /\ cur.epoch # epoch
  IN /\ i \in 1 .. live[k]
     /\ rev <= MaxRevision
     /\ ~answered[k]
     /\ IF cur.st = "absent" \/ releases
        THEN /\ items' = With(ReclaimAll, k, NewItem(d, rev))
             /\ alloc' = With(alloc, k, rev)
        ELSE items' = ReclaimAll /\ UNCHANGED alloc
     /\ UNCHANGED <<leases, alarm, runs, claiming, workers, audits, answered, live,
                    epoch, owed>>

----------------------------------------------------------------------------
(* The alarm.  pc names the await the invocation is in: "preflight" (the   *)
(* workflow state), "probing" (the live target reads), "departing" (the    *)
(* dispatch requests).  cand holds state and revision of the items chosen  *)
(* and head the heads then, departs the leases to dispatch, todo the       *)
(* requests not yet answered, failed the dispatches that failed.           *)

NoCandidate == [st |-> "absent", rev |-> 0]
NoCandidates == [k \in Keys |-> NoCandidate]
NoLeases == [k \in Keys |-> 0]
NoFailures == [k \in Keys |-> "none"]
Idle == [pc |-> "idle", cand |-> NoCandidates, head |-> NoLeases,
         departs |-> NoLeases, todo |-> {}, failed |-> NoFailures]

\* Housekeeping before the first await.
AlarmStart ==
  /\ alarm.pc = "idle"
  /\ items' = [k \in Keys |-> RecoverParked(ReclaimAll[k])]
  /\ alarm' = [alarm EXCEPT !.pc = "preflight"]
  /\ UNCHANGED <<alloc, leases, runs, claiming, workers, audits, answered, live, epoch,
                 owed>>

\* The workflow is not active, or its state could not be read.
AlarmBlocked ==
  /\ alarm.pc = "preflight"
  /\ items' = ReclaimAll
  /\ alarm' = Idle
  /\ UNCHANGED <<alloc, leases, runs, claiming, workers, audits, answered, live, epoch,
                 owed>>

Mut_SlotsIgnoreActive(its) == Capacity

\* exactReviewQueueAdmittedItems: the free review slots.
ReviewSlots(its) ==
  LET active == Cardinality({k \in Keys : IsActive(its[k])})
  IN IF active < Capacity THEN Capacity - active ELSE 0

\* Preflight passed: the state is read again and candidates are chosen.  The
\* other limits (target capacity, the size of a pass) only make the set smaller.
AlarmAdmit ==
  /\ alarm.pc = "preflight"
  /\ items' = ReclaimAll
  /\ \E chosen \in SUBSET {k \in Keys : ReclaimAll[k].st = "pending" /\ ReclaimAll[k].due},
        parked \in SUBSET {k \in Keys : OperatorEligible(ReclaimAll[k])} :
       /\ Cardinality(chosen) <= ReviewSlots(ReclaimAll)
       /\ Cardinality(parked) <= 1
       /\ alarm' = [Idle EXCEPT !.pc = "probing", !.head = live,
                      !.cand = [k \in Keys |-> IF k \in chosen \cup parked
                                               THEN [st |-> ReclaimAll[k].st,
                                                     rev |-> ReclaimAll[k].rev]
                                               ELSE NoCandidate]]
  /\ UNCHANGED <<alloc, leases, runs, claiming, workers, audits, answered, live, epoch,
                 owed>>

\* What the probes of one candidate report.  "quiet": open, and the quiet
\* window of an automatic pull request has passed; "busy": it has not.
Observations == {"target_terminal", "target_retryable", "closed", "maintainer", "quiet",
                 "busy", "unavailable", "unavailable_global"}
OpenObservations == {"maintainer", "quiet", "busy"}

StaleLiveHead(it, head) == it.dec.src # 0 /\ it.dec.src # head

\* A pending item whose target is open.
ObservedOpen(it, o, head, isAnswered) ==
  LET fresh == [it EXCEPT !.dec.src = head, 
                         !.wm = IF it.wm # 0 /\ head >= it.wm THEN head ELSE it.wm]
  IN IF o = "maintainer" /\ ~HasCommandContext(it.dec)
     THEN Park(it, "maintainer_request_required")
     ELSE IF IsAutomatic(it.dec)
     THEN IF isAnswered THEN NoItem
          ELSE IF o = "busy" THEN [fresh EXCEPT !.due = FALSE] ELSE fresh
     ELSE IF StaleLiveHead(it, head)
     THEN [ResetAdmitted(it) EXCEPT !.dec.src = head, !.rev = it.rev + 1, !.due = FALSE]
     ELSE it

\* A pending item whose target could not be read.
ObservedUnavailable(it) ==
  CountFailure(IF it.epoch # epoch THEN [it EXCEPT !.fails = 0, !.recov = 0, !.streak = 0]
               ELSE it)

ObservedPending(it, o, global, head, isAnswered) ==
  CASE o = "target_terminal" -> NoItem
    [] o = "target_retryable" -> [it EXCEPT !.due = FALSE]
    [] o = "closed" -> IF HasCommandContext(it.dec) THEN it ELSE NoItem
    [] o \in OpenObservations -> ObservedOpen(it, o, head, isAnswered)
    [] OTHER -> IF global THEN it ELSE ObservedUnavailable(it)

\* A parked item is only checked for cleanup; a parked command stays.
ObservedParked(it, o, head) ==
  IF HasCommandContext(it.dec) THEN it
  ELSE IF o \in {"target_terminal", "closed"} THEN NoItem
  ELSE IF o \in {"quiet", "busy"} /\ it.reason = "maintainer_request_required"
  THEN [it EXCEPT !.st = "pending", !.reason = "none", !.due = FALSE]
  ELSE IF o \in OpenObservations /\ StaleLiveHead(it, head) THEN NoItem
  ELSE it

\* The item still is the candidate the probes looked at.
IsCandidate(k) ==
  /\ alarm.cand[k].st # "absent"
  /\ items[k].rev = alarm.cand[k].rev /\ items[k].st = alarm.cand[k].st

Observed(k, o, global, head) ==
  IF ~IsCandidate(k) THEN items[k]
  ELSE IF items[k].st = "parked" THEN ObservedParked(items[k], o, head[k])
  ELSE ObservedPending(items[k], o, global, head[k], answered[k])

Dispatchable(k, it, o) ==
  /\ alarm.cand[k].st = "pending"
  /\ it.st = "pending" /\ it.rev = alarm.cand[k].rev /\ it.due
  /\ o \in OpenObservations \/ (o = "closed" /\ HasCommandContext(it.dec))

DispatchLease(it, lease) ==
  [it EXCEPT !.st = "dispatching", !.lease = lease, !.leaseRev = it.rev,
             !.leaseDec = it.dec, !.live = TRUE, !.run = 0, !.att = 0, !.gen = 0]

\* The probes are answered: the state is read again, observations are applied
\* to the candidates that did not change, and the rest departs.  The head they
\* report was read before a push that came since, or after it.
AlarmObserve(obs, head) ==
  LET global == \E k \in Keys : obs[k] = "unavailable_global" /\ alarm.cand[k].st = "pending"
      seen == [k \in Keys |-> Observed(k, obs[k], global, head)]
      departing == {k \in Keys : ~global /\ Dispatchable(k, seen[k], obs[k])}
  IN /\ alarm.pc = "probing"
     /\ \A k \in departing : leases[k] < MaxLease
     /\ \A k \in Keys : seen[k].rev <= MaxRevision
     /\ items' = [k \in Keys |-> IF k \in departing
                                 THEN DispatchLease(seen[k], leases[k] + 1) ELSE seen[k]]
     /\ leases' = [k \in Keys |-> IF k \in departing THEN leases[k] + 1 ELSE leases[k]]
     /\ alarm' = IF departing = {} THEN Idle
                 ELSE [Idle EXCEPT !.pc = "departing", !.todo = departing,
                         !.departs = [k \in Keys |-> IF k \in departing
                                                     THEN leases[k] + 1 ELSE 0]]
     /\ owed' = [k \in Keys |-> IF /\ IsCandidate(k) /\ items[k].st = "pending"
                                   /\ obs[k] = "target_terminal"
                                THEN NoCommand ELSE owed[k]]
     /\ UNCHANGED <<alloc, runs, claiming, workers, audits, answered, live, epoch>>

\* One repository_dispatch request.  n workflow runs start for it: a duplicate
\* delivery starts two, and a request whose answer was lost may have started
\* one.  A global failure ends the pass: the other requests are not made.
DispatchItem(k, result, n) ==
  /\ alarm.pc = "departing" /\ k \in alarm.todo
  /\ n \in (IF result = "ok" THEN 1 .. MaxRuns ELSE IF result = "global" THEN {0, 1} ELSE {0})
  /\ runs' = runs \cup {[key |-> k, lease |-> alarm.departs[k], run |-> r] : r \in 1 .. n}
  /\ alarm' = [alarm EXCEPT
       !.todo = IF result = "global" THEN {} ELSE @ \ {k},
       !.failed = [j \in Keys |->
          IF j = k /\ result # "ok" THEN result
          ELSE IF result = "global" /\ j \in alarm.todo THEN "global"
          ELSE alarm.failed[j]]]
  /\ UNCHANGED <<items, alloc, leases, claiming, workers, audits, answered, live, epoch,
                 owed>>

\* The failed dispatch still owns the item: no run claimed its lease meanwhile.
FailureOwnsItem(k) ==
  /\ alarm.failed[k] # "none"
  /\ items[k].lease = alarm.departs[k] /\ items[k].st = "dispatching" /\ items[k].run = 0

AlarmFinish ==
  /\ alarm.pc = "departing" /\ alarm.todo = {}
  /\ items' = [k \in Keys |->
       IF ~FailureOwnsItem(k) THEN items[k]
       ELSE IF alarm.failed[k] = "item"
       THEN [Park(ClearLease(items[k]), "dispatch_rejected") EXCEPT !.epoch = epoch]
       ELSE [ClearLease(items[k]) EXCEPT !.st = "pending", !.due = TRUE]]
  /\ alarm' = Idle
  /\ UNCHANGED <<alloc, leases, runs, claiming, workers, audits, answered, live, epoch,
                 owed>>

----------------------------------------------------------------------------
(* /claim                                                                  *)

\* The lease is live and no other run holds it.
Claimable(it, c) == it.lease = c.lease /\ it.live /\ it.run \in {0, c.run}

\* A run attempt asks for its lease; the request now awaits the probe.
ClaimBegin(r, att) ==
  LET it == items[r.key]
      c == [key |-> r.key, lease |-> r.lease, run |-> r.run, att |-> att]
  IN /\ Cardinality(claiming) < MaxClaims
     /\ IF Reclaim(it) # it
        THEN items' = With(items, r.key, Reclaim(it)) /\ UNCHANGED claiming
        ELSE Claimable(it, c) /\ claiming' = claiming \cup {c} /\ UNCHANGED items
     /\ UNCHANGED <<alloc, leases, alarm, runs, workers, audits, answered, live, epoch,
                    owed>>

Mut_SettleUnchecked(it, c) == it.lease = c.lease /\ it.live

\* The check that /claim makes again after the await.
StillClaimable(it, c) == Claimable(it, c)

Granted(it, c) ==
  IF it.run # 0 /\ it.att = c.att THEN it
  ELSE [it EXCEPT !.st = "leased", !.run = c.run, !.att = c.att, !.gen = it.gen + 1,
                  !.chargeGen = it.gen + 1, !.starts = 0]

\* A command queued behind an automatic review that needs no answer any more.
RequestedFollowUp(it) == HasNewerRevision(it) /\ HasCommandContext(it.dec)

\* The probe is answered: the target is public, no longer eligible, or unknown.
ClaimSettle(c, admission) ==
  LET k == c.key
      it == items[k]
      done == Finish(it, "success", RequestedFollowUp(it), 0)
      new == Granted(it, c)
  IN /\ claiming' = claiming \ {c}
     /\ \/ /\ ~StillClaimable(it, c) \/ admission = "retryable"
           /\ UNCHANGED <<items, owed, workers>>
        \/ /\ StillClaimable(it, c) /\ admission = "terminal"
           /\ items' = With(items, k, NoItem)
           /\ owed' = With(owed, k, NoCommand)
           /\ UNCHANGED workers
        \/ /\ StillClaimable(it, c) /\ admission = "public"
           /\ IsAutomatic(it.leaseDec) /\ answered[k]
           /\ items' = With(items, k, done)
           /\ UNCHANGED <<owed, workers>>
        \/ /\ StillClaimable(it, c) /\ admission = "public"
           /\ ~(IsAutomatic(it.leaseDec) /\ answered[k])
           /\ c.att >= it.att
           /\ items' = With(items, k, new)
           /\ workers' = workers \cup {[Claimant(k, new) EXCEPT !.run = c.run, !.att = c.att]}
           /\ UNCHANGED owed
        \/ /\ StillClaimable(it, c) /\ admission = "public"
           /\ ~(IsAutomatic(it.leaseDec) /\ answered[k])
           /\ c.att < it.att
           /\ UNCHANGED <<items, owed, workers>>
     /\ UNCHANGED <<alloc, leases, alarm, runs, audits, answered, live, epoch>>

----------------------------------------------------------------------------
(* /heartbeat, /complete, /reconcile                                       *)

Owns(w, it) ==
  /\ it.lease = w.lease /\ it.leaseRev = w.rev /\ it.run = w.run /\ it.gen = w.gen

\* A superseding event arrived while the status phase protected the lease.
StatusSuccessorSupersedes(it, phase) ==
  /\ phase # "status" /\ it.phase = "status"
  /\ \/ it.statusSup > it.leaseRev
     \/ /\ it.statusSup = 0 /\ HasNewerRevision(it) /\ Supersedes(it.dec)
        /\ InputIdentityChanged(it.leaseDec, it.dec)

Mut_KeepChargeGeneration(it) == it

ClearCharge(it) == [it EXCEPT !.chargeGen = 0]

Heartbeat(w, phase, start) ==
  LET k == w.key
      it == items[k]
      charge == start /\ it.chargeGen # 0 /\ it.chargeGen = it.gen
      kept == IF charge
              THEN [ClearCharge(it) EXCEPT !.starts = IF it.starts < 2 THEN it.starts + 1 ELSE 2]
              ELSE it
  IN /\ start => phase = "review"
     /\ \/ /\ Reclaim(it) # it
           /\ items' = With(items, k, Reclaim(it))
           /\ UNCHANGED <<audits>>
        \/ /\ Reclaim(it) = it /\ Owns(w, it) /\ it.st = "leased" /\ it.att = w.att /\ it.live
           /\ IF StatusSuccessorSupersedes(it, phase)
              THEN /\ items' = With(items, k, [ClearLease(it) EXCEPT !.st = "pending",
                                                                     !.due = FALSE])
                   /\ audits' = audits \cup {Claimant(k, it)}
              ELSE /\ items' = With(items, k, [kept EXCEPT !.phase = phase])
                   /\ UNCHANGED audits
     /\ UNCHANGED <<alloc, leases, alarm, runs, claiming, workers, answered, live, epoch, owed>>

\* The item a completion or reconciliation of its owner leaves.
FinishBy(w, outcome) ==
  LET it == items[w.key]
      new == Finish(it, outcome, outcome = "requeue", epoch)
  IN /\ items' = With(items, w.key, new)
     /\ owed' = With(owed, w.key, OwedAfterFinish(w.key, it, new, outcome))
     /\ UNCHANGED <<alloc, leases, alarm, runs, claiming, workers, audits, answered, live,
                    epoch>>

\* The run reports its result.  There is no check that the lease is live.
Complete(w, outcome) ==
  /\ Owns(w, items[w.key]) /\ items[w.key].att = w.att
  /\ FinishBy(w, outcome)

\* supersededCompletionRevisionSync: the answer to a completion that does not
\* own the lease.
CompletionConflict(w) == IF w \in audits THEN "lease_superseded" ELSE "lease_not_claimed"

\* The reconciler reports a run attempt that GitHub shows as finished.  A run id
\* is unique on GitHub; here a lease and a number together name a run.
Reconcile(w, outcome) ==
  /\ items[w.key].st = "leased" /\ items[w.key].run = w.run
  /\ items[w.key].gen = w.gen /\ items[w.key].att = w.att /\ items[w.key].lease = w.lease
  /\ FinishBy(w, outcome)

----------------------------------------------------------------------------
(* The environment.                                                        *)

envVars == <<alloc, leases, runs, workers, audits, owed>>

Push(k) ==
  /\ live[k] < MaxHead
  /\ live' = With(live, k, live[k] + 1)
  /\ UNCHANGED <<envVars, items, alarm, claiming, answered, epoch>>

\* The publication lane publishes a review of the pull request.
PublishAnswer(k) ==
  /\ ~answered[k] /\ \E w \in workers : w.key = k
  /\ answered' = With(answered, k, TRUE)
  /\ UNCHANGED <<envVars, items, alarm, claiming, live, epoch>>

\* The dispatch, execution or heartbeat grace of a lease has passed.
LeaseRunsOut(k) ==
  /\ IsActive(items[k]) /\ items[k].live
  /\ items' = With(items, k, [items[k] EXCEPT !.live = FALSE])
  /\ UNCHANGED <<envVars, alarm, claiming, answered, live, epoch>>

BackoffElapses(k) ==
  /\ ~items[k].due
  /\ \/ items[k].st = "pending"
     \/ items[k].st = "parked" /\ items[k].reason \in Recoverable
                               /\ items[k].recov < ParkedRecoveryLimit
  /\ items' = With(items, k, [items[k] EXCEPT !.due = TRUE])
  /\ UNCHANGED <<envVars, alarm, claiming, answered, live, epoch>>

\* The Durable Object restarts: requests and the alarm in progress are lost.
Restart ==
  /\ alarm.pc # "idle" \/ claiming # {}
  /\ alarm' = Idle /\ claiming' = {}
  /\ UNCHANGED <<envVars, items, answered, live, epoch>>

\* A deployment restarts it and changes the retry policy epoch.
Deploy ==
  /\ epoch < MaxEpoch
  /\ epoch' = epoch + 1
  /\ alarm' = Idle /\ claiming' = {}
  /\ UNCHANGED <<envVars, items, answered, live>>

----------------------------------------------------------------------------
Init ==
  /\ items = [k \in Keys |-> NoItem]
  /\ alloc = [k \in Keys |-> 0]
  /\ leases = [k \in Keys |-> 0]
  /\ alarm = Idle
  /\ runs = {} /\ claiming = {} /\ workers = {} /\ audits = {}
  /\ answered = [k \in Keys |-> FALSE]
  /\ live = [k \in Keys |-> 1]
  /\ epoch = 0
  /\ owed = [k \in Keys |-> NoCommand]

Enqueue ==
  \E k \in Keys :
    \/ \E kind \in {"push", "draft"}, i \in 1 .. MaxHead : EnqueueEvent(k, kind, i)
    \/ \E c \in Commands, fresh \in BOOLEAN : EnqueueCommand(k, c, fresh)
    \/ \E i \in 1 .. MaxHead : EnqueueRecovery(k, i)

AlarmStep ==
  \/ AlarmStart
  \/ AlarmBlocked
  \/ AlarmAdmit
  \/ \E obs \in [{k \in Keys : alarm.cand[k].st # "absent"} -> Observations],
        head \in {alarm.head, live} :
       AlarmObserve([k \in Keys |-> IF k \in DOMAIN obs THEN obs[k] ELSE "unavailable"], head)
  \/ \E k \in Keys, result \in {"ok", "item", "global"}, n \in 0 .. MaxRuns : DispatchItem(k, result, n)
  \/ AlarmFinish

RunStep ==
  \/ \E r \in runs, att \in 1 .. MaxAttempt : ClaimBegin(r, att)
  \/ \E c \in claiming, admission \in {"public", "terminal", "retryable"} :
       ClaimSettle(c, admission)
  \/ \E w \in workers :
       \/ \E phase \in Phases \ {"none"}, start \in BOOLEAN : Heartbeat(w, phase, start)
       \/ \E outcome \in Outcomes : Complete(w, outcome)
       \/ \E outcome \in {"success", "failure"} : Reconcile(w, outcome)

Environment ==
  \/ \E k \in Keys : Push(k) \/ PublishAnswer(k) \/ LeaseRunsOut(k) \/ BackoffElapses(k)
  \/ Restart
  \/ Deploy

Next == Enqueue \/ AlarmStep \/ RunStep \/ Environment

Spec == Init /\ [][Next]_vars

\* The platform re-runs the alarm until it succeeds, and time passes.
Fairness ==
  /\ WF_vars(AlarmStep)
  /\ \A k \in Keys : WF_vars(LeaseRunsOut(k))

FairSpec == Spec /\ Fairness

----------------------------------------------------------------------------
(* Properties.                                                             *)

Tuples == [key : Keys, lease : Nat, rev : Nat, run : Nat, att : Nat, gen : Nat]

ItemType ==
  [st : {"absent", "pending", "dispatching", "leased", "parked"},
   rev : Nat, dec : Decision, wm : 0 .. MaxHead, lease : Nat, leaseRev : Nat,
   leaseDec : Decision, live : BOOLEAN, phase : Phases, statusSup : Nat, run : Nat,
   att : Nat, gen : Nat, chargeGen : Nat, fails : 0 .. RetryLimit, reason : Reasons,
   recov : 0 .. ParkedRecoveryLimit, due : BOOLEAN, epoch : Nat, streak : Nat,
   starts : 0 .. 2]

\* The columns of every item agree with its state: only an active item has a
\* lease, only a leased one a claimant, only a parked one a reason to be parked.
WellFormed(it) ==
  /\ IsActive(it) <=> it.lease # 0
  /\ it.st = "leased" <=> it.run # 0
  /\ it.st = "leased" <=> it.gen # 0
  /\ it.st = "parked" <=> it.reason # "none"
  /\ IsActive(it) => it.leaseRev \in 1 .. it.rev

\* Type correctness, and the agreement of an item's columns with its state
\* through every handler (the item fields at exact-review-queue.ts:380).
TypeOK ==
  /\ items \in [Keys -> ItemType]
  /\ \A k \in Keys : WellFormed(items[k])
  /\ alloc \in [Keys -> Nat] /\ leases \in [Keys -> Nat]
  /\ alarm.pc \in {"idle", "preflight", "probing", "departing"}
  /\ runs \subseteq [key : Keys, lease : Nat, run : Nat]
  /\ claiming \subseteq [key : Keys, lease : Nat, run : Nat, att : Nat]
  /\ workers \subseteq Tuples /\ audits \subseteq Tuples
  /\ answered \in [Keys -> BOOLEAN] /\ live \in [Keys -> 1 .. MaxHead]
  /\ epoch \in 0 .. MaxEpoch
  /\ owed \in [Keys -> Commands \cup {NoCommand}]

\* A lease belongs to one workflow run, and one of its claim generations to one
\* attempt of that run, although duplicate dispatches start several runs for
\* the lease and two claims can wait for the same probe (/claim).
OneClaimantPerGeneration ==
  \A v, w \in workers :
    v.key = w.key /\ v.lease = w.lease =>
      /\ v.run = w.run
      /\ v.gen = w.gen <=> v.att = w.att

\* The newest command admitted for a pull request stays in the item's decision
\* until its own review ends, the target is gone, the input scanner refuses the
\* item or a non-revoking event ends a queued follow-up: merges, revocations,
\* live-head refreshes, expired leases and the end of an older review keep it.
CommandKept ==
  \A k \in Keys : owed[k] # NoCommand => items[k].st # "absent" /\ items[k].dec.cmd = owed[k]

\* A review fails at most RetryLimit times per recovery before new input or a
\* new retry policy gives it a new budget: retries and parked recoveries of one
\* input are bounded together, however leases expire and dispatches fail.
RetryBudget ==
  \A k \in Keys : items[k].streak <= RetryLimit * (ParkedRecoveryLimit + 1)

\* Never more reviews at work than review slots, although slots are counted
\* before the probes and used after them (alarm).
ActiveWithinCapacity == Cardinality({k \in Keys : IsActive(items[k])}) <= Capacity

\* The review budget is charged once per claim generation however often the
\* generation-start heartbeat is repeated or answered late.
GenerationChargedOnce == \A k \in Keys : items[k].starts <= 1

\* A lease does not outlive its claimant: it ends when it is completed, revoked
\* or expired, whatever request or alarm is lost.
LeaseEnds ==
  \A k \in Keys : \A l \in 1 .. MaxLease :
    (IsActive(items[k]) /\ items[k].lease = l) ~> (items[k].lease # l)

\* A completion of a claimant whose lease a newer source event revoked is
\* answered lease_superseded, the only conflict after which the completion step
\* of the workflow does not fail.
SupersededCompletionAcknowledged ==
  \A w \in workers :
    (\E a \in audits : a.key = w.key /\ a.lease = w.lease /\ a.run = w.run
                      /\ a.att = w.att /\ a.gen = w.gen)
      => CompletionConflict(w) = "lease_superseded"
=============================================================================

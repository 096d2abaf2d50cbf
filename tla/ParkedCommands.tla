--------------------------- MODULE ParkedCommands ---------------------------
(***************************************************************************)
(* The acknowledgement of an exhausted command (parked-command finalizers, *)
(* dashboard/exact-review-queue.ts), its lifecycle projections             *)
(* (dashboard/exact-review-lifecycle.ts) and the workflow job that writes  *)
(* the final status comment (event-review-terminal-finalization of         *)
(* sweep.yml with src/repair/update-command-status.ts).                    *)
(*                                                                         *)
(* One item of the queue holds a command whose review used up its retries. *)
(* The alarm plans a driver for the observed target, a job claims the      *)
(* driver, asks for an attempt, looks the status comment up, fences the    *)
(* write again, PATCHes the comment, and sends a receipt.  Meanwhile the   *)
(* target closes, reopens or is edited, the repository stops being public, *)
(* newer commands arrive and are reviewed, jobs die and calls are lost.    *)
(*                                                                         *)
(* Time is abstract: the attempt lease and the write window (five minutes  *)
(* each) end by a step of their own.  A fenced PATCH ends within its       *)
(* timeout of 20 s, so the window does not close while one is under way; a *)
(* job (15 minutes) ends before its lease does (20 minutes without a       *)
(* heartbeat), so a lease is reclaimed only from a job that is over, unless*)
(* the grace is configured shorter (seven minutes at least); and a         *)
(* requeued driver rests for as long as an attempt's lease.                *)
(***************************************************************************)
EXTENDS Integers, FiniteSets

CONSTANTS
  Jobs,            \* workflow jobs that can run at the same time
  None,            \* no job
  ShortGrace,      \* the heartbeat grace is configured below a job's run time
  MaxRevision,     \* bound: lifecycle revisions of the item
  MaxCommands,     \* bound: newer commands
  MaxClosures,     \* bound: times the target closes
  MaxEdits,        \* bound: edits of the target
  MaxRevocations,  \* bound: times the repository stops being public
  MaxFaults        \* bound: jobs and calls that fail

ASSUME JobsAssumption == IsFiniteSet(Jobs) /\ None \notin Jobs /\ ShortGrace \in BOOLEAN
ASSUME BoundsAssumption ==
  /\ MaxRevision \in Nat \ {0}
  /\ MaxCommands \in Nat /\ MaxClosures \in Nat /\ MaxEdits \in Nat /\ MaxRevocations \in Nat /\ MaxFaults \in Nat

VARIABLES
  item,        \* the queue item of the command: state, revision, source
  target,      \* the issue or pull request on GitHub
  public,      \* whether the repository is public and hosted
  probe,       \* what the alarm read before its last await
  projection,  \* revision |-> lifecycle projection
  driver,      \* revision |-> terminal-finalization item
  job,         \* job |-> what the workflow job does
  comment,     \* the status comment: text and revision it speaks of
  budget       \* what is left of the bounds on the environment

vars == <<item, target, public, probe, projection, driver, job, comment, budget>>

Revisions == 1..MaxRevision
Nothing == [kind |-> "none", at |-> 0]

\* exactReviewClosedCommandTarget: a closed target is named by its closure, an
\* open one by its content, and only while that is what the command was given.
Identity(t, source) ==
  IF t.closed # 0 THEN [kind |-> "closed", at |-> t.closed]
  ELSE IF t.content = source THEN [kind |-> "open", at |-> t.content]
  ELSE Nothing

NoProbe == [rev |-> 0, seen |-> Nothing]
NoDriver == [state |-> "none", owner |-> None, window |-> FALSE, plan |-> Nothing]
IdleJob == [pc |-> "idle", rev |-> 0, seen |-> Nothing, public |-> FALSE, latest |-> FALSE]
FreshProjection ==
  [disposition |-> "none", attempt |-> "none", observed |-> FALSE, cancelled |-> FALSE]

Init ==
  /\ item = [state |-> "parked", rev |-> 1, source |-> 0]
  /\ target = [closed |-> 0, content |-> 0]
  /\ public = TRUE
  /\ probe = NoProbe
  /\ projection = [r \in Revisions |-> FreshProjection]
  /\ driver = [r \in Revisions |-> NoDriver]
  /\ job = [j \in Jobs |-> IdleJob]
  /\ comment = [text |-> "progress", rev |-> 1]
  /\ budget = [rev |-> 1, commands |-> 0, closures |-> 0, edits |-> 0, revocations |-> 0, faults |-> 0]

----------------------------------------------------------------------------
(* Lifecycle projections                                                   *)

\* Of the attempts of a revision the latest is kept: a new one is made only
\* when the earlier ones have failed or expired, and those never change again.
Settled(p) == p.observed \/ p.attempt = "skipped"

Mut_DispositionIsKind(plan) == plan.kind

\* The disposition that a plan records (planParkedCommandFinalization).
DispositionOf(plan) == IF plan.kind = "open" THEN "failure" ELSE "target_closed"

\* authorizeCommandAcknowledgement, after recordTerminalDisposition
MayAttempt(p, kind) ==
  /\ p.disposition \in {"none", kind}
  /\ ~Settled(p) /\ ~p.cancelled /\ p.attempt # "live"

\* cancelParkedCommandClosureSync keeps an acknowledgement that was observed.
Cancelled(p) ==
  IF p.observed THEN p ELSE [p EXCEPT !.cancelled = TRUE, !.disposition = "failure"]

----------------------------------------------------------------------------
(* Queue items                                                             *)

\* exactReviewParkedCommandProducer: the parked item the plan was made for.
Producer(r) == item.state = "parked" /\ item.rev = r

\* exactReviewTerminalFinalizationLeaseActive
LeaseActive(j, r) == driver[r].state = "leased" /\ driver[r].owner = j

\* exactReviewParkedCommandWriteOwner: a driver owns the status write.
WriteOwned == \E r \in Revisions : driver[r].state = "leased" /\ driver[r].window

Mut_RemoveWhateverRevision(r) ==
  IF driver[r].plan.kind # "open" THEN [item EXCEPT !.state = "gone"] ELSE item

\* removeAcknowledgedParkedCommandProducer: only the item of the plan, and only
\* for a closed target, goes with the driver.
AfterAcknowledgement(r) ==
  IF Producer(r) /\ driver[r].plan.kind # "open" THEN [item EXCEPT !.state = "gone"] ELSE item

Without(r) == [driver EXCEPT ![r] = NoDriver]

\* clearExactReviewLease, and back to the queue for a later attempt.
Requeued(r) ==
  [driver EXCEPT ![r].state = "pending", ![r].owner = None, ![r].window = FALSE]

Fault == budget.faults < MaxFaults /\ budget' = [budget EXCEPT !.faults = @ + 1]

End(j) == job' = [job EXCEPT ![j] = IdleJob]
Goto(j, pc) == job' = [job EXCEPT ![j].pc = pc]

----------------------------------------------------------------------------
(* The alarm                                                               *)

\* The target of the parked item is read (twice, with the same result) before
\* the state is read again.
Probe ==
  /\ item.state = "parked" /\ probe = NoProbe /\ public
  /\ probe' = [rev |-> item.rev, seen |-> Identity(target, item.source)]
  /\ UNCHANGED <<item, target, public, projection, driver, job, comment, budget>>

Mut_OnlyCancelled(p, seen) == p.cancelled /\ ~p.observed

\* A later closure after a stopped receipt or a cancelled plan gets a fresh
\* revision; the item stays parked.
NeedsRevision(p, seen) ==
  \/ p.cancelled /\ ~p.observed
  \/ seen.kind = "closed" /\ p.disposition = "failure" /\ Settled(p)

\* ensureLifecycleTerminalFinalizationDriver
MayDrive(r) ==
  /\ projection[r].disposition \in {"none", "target_closed", "failure"}
  /\ driver[r] = NoDriver
  /\ ~projection[r].cancelled /\ ~Settled(projection[r])

\* planParkedCommandFinalization
Plan ==
  LET seen == probe.seen
      fresh == NeedsRevision(projection[item.rev], seen)
      r == IF fresh THEN budget.rev + 1 ELSE item.rev
  IN /\ probe # NoProbe
     /\ probe' = NoProbe
     /\ IF Producer(probe.rev) /\ public /\ seen # Nothing /\ r \in Revisions
        THEN /\ item' = [item EXCEPT !.rev = r]
             /\ budget' = [budget EXCEPT !.rev = IF fresh THEN r ELSE @]
             /\ driver' = IF MayDrive(r)
                          THEN [driver EXCEPT ![r] = [NoDriver EXCEPT !.state = "pending",
                                                                      !.plan = seen]]
                          ELSE driver
        ELSE UNCHANGED <<item, budget, driver>>
     /\ UNCHANGED <<target, public, projection, job, comment>>

\* A driver is dispatched while its repository is public.  It rested for as
\* long as an attempt lives.
Dispatch(r, j) ==
  /\ driver[r].state = "pending" /\ job[j] = IdleJob /\ public
  /\ projection[r].attempt # "live"
  /\ driver' = [driver EXCEPT ![r].state = "dispatching", ![r].owner = j]
  /\ job' = [job EXCEPT ![j] = [IdleJob EXCEPT !.pc = "claim", !.rev = r]]
  /\ UNCHANGED <<item, target, public, probe, projection, comment, budget>>

\* Dispatch of the review of a newer command: not through an owned write.
DispatchReview ==
  /\ item.state = "pending" /\ public
  /\ ~WriteOwned
  /\ item' = [item EXCEPT !.state = "reviewing"]
  /\ comment' = [text |-> "progress", rev |-> item.rev]
  /\ UNCHANGED <<target, public, probe, projection, driver, job, budget>>

\* reclaimExpiredExactReviewLease of a job that is over, or went too long
\* without a heartbeat.
Reclaim(r) ==
  /\ driver[r].state \in {"dispatching", "leased"}
  /\ LET j == driver[r].owner
     IN job[j].rev # r \/ (ShortGrace /\ job[j].pc # "fenced")
  /\ driver' = Requeued(r)
  /\ UNCHANGED <<item, target, public, probe, projection, job, comment, budget>>

----------------------------------------------------------------------------
(* The workflow job and the endpoints it calls                             *)

\* /claim: a repository that is no longer public ends the driver
\* (recordHostedTargetTerminal keeps a disposition that is already there).
Claim(j) ==
  LET r == job[j].rev
      mine == driver[r].state = "dispatching" /\ driver[r].owner = j
  IN /\ job[j].pc = "claim"
     /\ \/ /\ ~mine
           /\ End(j)
           /\ UNCHANGED <<driver, projection>>
        \/ /\ mine /\ public
           /\ driver' = [driver EXCEPT ![r].state = "leased"]
           /\ Goto(j, "begin")
           /\ UNCHANGED projection
        \/ /\ mine /\ ~public
           /\ driver' = Without(r)
           /\ projection' = [projection EXCEPT ![r].disposition =
                               IF @ = "none" THEN "superseded" ELSE @]
           /\ End(j)
     /\ UNCHANGED <<item, target, public, probe, comment, budget>>

\* The first part of /terminal-finalization/attempt: the target is read.
Read(j, from, to) ==
  LET r == job[j].rev
  IN /\ job[j].pc = from
     /\ \/ /\ ~LeaseActive(j, r)
           /\ End(j)
           /\ UNCHANGED <<projection, driver>>
        \/ /\ LeaseActive(j, r) /\ ~Producer(r)
           /\ projection' = [projection EXCEPT ![r] = Cancelled(@)]
           /\ driver' = Without(r)
           /\ End(j)
        \/ /\ LeaseActive(j, r) /\ Producer(r)
           /\ job' = [job EXCEPT ![j].pc = to, ![j].public = public,
                                 ![j].seen = Identity(target, item.source)]
           /\ UNCHANGED <<projection, driver>>
     /\ UNCHANGED <<item, target, public, probe, comment, budget>>

ReadToBegin(j) == Read(j, "begin", "authorize")
ReadToVerify(j) == Read(j, "lookup", "verify")

Mut_LeaseOnly(j) == ~LeaseActive(j, job[j].rev)

\* Its last part, after the target was read: the lease, the item and the
\* target are checked again.
Unowned(j) == ~LeaseActive(j, job[j].rev) \/ ~Producer(job[j].rev)
TargetChanged(j) == job[j].seen # driver[job[j].rev].plan

Revoke(j, at) ==
  LET r == job[j].rev
  IN /\ job[j].pc = at
     /\ \/ /\ Unowned(j)
           /\ UNCHANGED <<projection, driver>>
        \/ /\ ~Unowned(j) /\ ~job[j].public
           /\ driver' = Requeued(r)
           /\ UNCHANGED projection
        \/ /\ ~Unowned(j) /\ job[j].public /\ TargetChanged(j)
           /\ projection' = [projection EXCEPT ![r] = Cancelled(@)]
           /\ driver' = Without(r)
     /\ End(j)
     /\ UNCHANGED <<item, target, public, probe, comment, budget>>

RevokeAttempt(j) == Revoke(j, "authorize")
RevokeWrite(j) == Revoke(j, "verify")

\* A new attempt; the driver takes the write window.
Authorize(j) ==
  LET r == job[j].rev
      kind == DispositionOf(driver[r].plan)
  IN /\ job[j].pc = "authorize"
     /\ ~Unowned(j) /\ job[j].public /\ ~TargetChanged(j)
     /\ IF MayAttempt(projection[r], kind)
        THEN /\ projection' = [projection EXCEPT ![r].disposition = kind, ![r].attempt = "live"]
             /\ driver' = [driver EXCEPT ![r].window = TRUE]
             /\ job' = [i \in Jobs |->
                         IF i = j THEN [job[j] EXCEPT !.pc = "lookup", !.latest = TRUE]
                         ELSE IF job[i].rev = r THEN [job[i] EXCEPT !.latest = FALSE]
                         ELSE job[i]]
        ELSE /\ Goto(j, "retry")
             /\ UNCHANGED <<projection, driver>>
     /\ UNCHANGED <<item, target, public, probe, comment, budget>>

\* verify_only: the attempt is live, and the window starts again.
Verify(j) ==
  LET r == job[j].rev
  IN /\ job[j].pc = "verify"
     /\ ~Unowned(j) /\ job[j].public /\ ~TargetChanged(j)
     /\ IF job[j].latest /\ projection[r].attempt = "live" /\ ~projection[r].observed
        THEN /\ driver' = [driver EXCEPT ![r].window = TRUE]
             /\ Goto(j, "fenced")
        ELSE /\ Goto(j, "retry")
             /\ UNCHANGED driver
     /\ UNCHANGED <<item, target, public, probe, projection, comment, budget>>

FinalText(r) == [text |-> DispositionOf(driver[r].plan), rev |-> r]

\* The PATCH of the status comment; a comment that already says so is a receipt.
Patch(j) ==
  LET r == job[j].rev
  IN /\ job[j].pc = "fenced"
     /\ comment' = FinalText(r)
     /\ Goto(j, IF comment = FinalText(r) THEN "verified" ELSE "patched")
     /\ UNCHANGED <<item, target, public, probe, projection, driver, budget>>

\* The PATCH fails, before or after GitHub applied it.
PatchFails(j) ==
  /\ job[j].pc = "fenced"
  /\ comment' \in {comment, FinalText(job[j].rev)}
  /\ Goto(j, "failed")
  /\ Fault
  /\ UNCHANGED <<item, target, public, probe, projection, driver>>

\* The comment is missing or the conversation is locked.
NoComment(j) ==
  /\ job[j].pc = "fenced"
  /\ Goto(j, "skip")
  /\ Fault
  /\ UNCHANGED <<item, target, public, probe, projection, driver, comment>>

\* release_status_write, whose answer the job does not look at.
Release(j) ==
  /\ job[j].pc = "patched"
  /\ driver' = IF LeaseActive(j, job[j].rev)
               THEN [driver EXCEPT ![job[j].rev].window = FALSE] ELSE driver
  /\ Goto(j, "verified")
  /\ UNCHANGED <<item, target, public, probe, projection, comment, budget>>

Mut_AcceptsCancelled(p) == p.attempt # "none"

\* Whether observeCommandAcknowledgement accepts the receipt of a revision.
Accepts(p) == p.attempt # "none" /\ ~p.cancelled

\* /lifecycle/command-ack/observed: no lease is asked for.  When the repository
\* is no longer public the drivers of the target wait.
Observe(j) ==
  LET r == job[j].rev
  IN /\ job[j].pc = "verified"
     /\ \/ /\ ~public
           /\ driver' = [q \in Revisions |->
                          IF driver[q] = NoDriver THEN NoDriver ELSE Requeued(q)[q]]
           /\ Goto(j, "retry")
           /\ UNCHANGED <<item, projection, budget>>
        \/ /\ public /\ Accepts(projection[r])
           /\ projection' = [projection EXCEPT ![r].observed = TRUE]
           /\ item' = AfterAcknowledgement(r)
           /\ driver' = Without(r)
           /\ \/ End(j) /\ UNCHANGED budget
              \/ Goto(j, "retry") /\ Fault  \* the answer is lost
        \/ /\ public /\ ~Accepts(projection[r])
           /\ Goto(j, "retry")
           /\ UNCHANGED <<item, projection, driver, budget>>
     /\ UNCHANGED <<target, public, probe, comment>>

\* The receipt is lost.
ReceiptLost(j) ==
  /\ job[j].pc = "verified"
  /\ Goto(j, "retry") /\ Fault
  /\ UNCHANGED <<item, target, public, probe, projection, driver, comment>>

\* /terminal-finalization/skip
Skip(j) ==
  LET r == job[j].rev
  IN /\ job[j].pc = "skip"
     /\ IF LeaseActive(j, r) /\ ~projection[r].observed
           /\ job[j].latest /\ projection[r].attempt \in {"live", "stale", "skipped"}
        THEN /\ projection' = [projection EXCEPT ![r].attempt = "skipped"]
             /\ item' = AfterAcknowledgement(r)
             /\ driver' = Without(r)
             /\ End(j)
        ELSE /\ Goto(j, "retry")
             /\ UNCHANGED <<item, projection, driver>>
     /\ UNCHANGED <<target, public, probe, comment, budget>>

\* /lifecycle/command-ack/failed
Fail(j) ==
  LET r == job[j].rev
  IN /\ job[j].pc = "failed"
     /\ projection' =
          IF job[j].latest /\ projection[r].attempt \in {"live", "stale"} /\ ~projection[r].observed
          THEN [projection EXCEPT ![r].attempt = "failed"] ELSE projection
     /\ Goto(j, "retry")
     /\ UNCHANGED <<item, target, public, probe, driver, comment, budget>>

\* /terminal-finalization/retry
Retry(j) ==
  LET r == job[j].rev
  IN /\ job[j].pc = "retry"
     /\ \/ /\ ~LeaseActive(j, r)
           /\ UNCHANGED <<item, driver>>
        \/ /\ LeaseActive(j, r) /\ projection[r].observed
           /\ item' = AfterAcknowledgement(r)
           /\ driver' = Without(r)
        \/ /\ LeaseActive(j, r) /\ ~projection[r].observed
           /\ driver' = Requeued(r)
           /\ UNCHANGED item
     /\ End(j)
     /\ UNCHANGED <<target, public, probe, projection, comment, budget>>

Crash(j) ==
  /\ job[j].pc # "idle"
  /\ End(j) /\ Fault
  /\ UNCHANGED <<item, target, public, probe, projection, driver, comment>>

----------------------------------------------------------------------------
(* Time, GitHub and newer commands                                         *)

\* A job that outlasts the lease of its attempt is a fault (the lease is longer
\* than a lookup takes).
AttemptLeaseEnds(r) ==
  /\ projection[r].attempt = "live"
  /\ projection' = [projection EXCEPT ![r].attempt = "stale"]
  /\ IF \E j \in Jobs : job[j].rev = r /\ job[j].latest THEN Fault ELSE UNCHANGED budget
  /\ UNCHANGED <<item, target, public, probe, driver, job, comment>>

WindowEnds(r) ==
  /\ driver[r].window
  /\ ~\E j \in Jobs : job[j].pc = "fenced" /\ LeaseActive(j, r)
  /\ driver' = [driver EXCEPT ![r].window = FALSE]
  /\ UNCHANGED <<item, target, public, probe, projection, job, comment, budget>>

Environment == UNCHANGED <<probe, projection, driver, job, comment>>

Close ==
  /\ target.closed = 0 /\ budget.closures < MaxClosures
  /\ target' = [target EXCEPT !.closed = budget.closures + 1]
  /\ budget' = [budget EXCEPT !.closures = @ + 1]
  /\ Environment /\ UNCHANGED <<item, public>>

Reopen ==
  /\ target.closed # 0
  /\ target' = [target EXCEPT !.closed = 0]
  /\ Environment /\ UNCHANGED <<item, public, budget>>

Edit ==
  /\ budget.edits < MaxEdits
  /\ target' = [target EXCEPT !.content = budget.edits + 1]
  /\ budget' = [budget EXCEPT !.edits = @ + 1]
  /\ Environment /\ UNCHANGED <<item, public>>

LosePublic ==
  /\ public /\ budget.revocations < MaxRevocations
  /\ public' = FALSE
  /\ budget' = [budget EXCEPT !.revocations = @ + 1]
  /\ Environment /\ UNCHANGED <<item, target>>

RegainPublic ==
  /\ ~public
  /\ public' = TRUE
  /\ Environment /\ UNCHANGED <<item, target, budget>>

\* A newer command takes the item, with a revision of its own.
NewCommand ==
  /\ item.state \in {"parked", "gone"}
  /\ budget.commands < MaxCommands /\ budget.rev < MaxRevision
  /\ item' = [state |-> "pending", rev |-> budget.rev + 1, source |-> target.content]
  /\ budget' = [budget EXCEPT !.rev = @ + 1, !.commands = @ + 1]
  /\ Environment /\ UNCHANGED <<target, public>>

\* Its review ends: it is answered, or uses up its retries and is parked.
ReviewEnds ==
  /\ item.state = "reviewing"
  /\ \E s \in {"gone", "parked"} : item' = [item EXCEPT !.state = s]
  /\ Environment /\ UNCHANGED <<target, public, budget>>

\* Nothing is left to do.
Finished ==
  /\ item.state = "gone"
  /\ \A r \in Revisions : driver[r] = NoDriver
  /\ \A j \in Jobs : job[j] = IdleJob
  /\ UNCHANGED vars

----------------------------------------------------------------------------

JobStep(j) ==
  \/ Claim(j) \/ ReadToBegin(j) \/ RevokeAttempt(j) \/ Authorize(j)
  \/ ReadToVerify(j) \/ RevokeWrite(j) \/ Verify(j)
  \/ Patch(j) \/ Release(j) \/ Observe(j) \/ Skip(j) \/ Fail(j) \/ Retry(j)

Next ==
  \/ Probe \/ Plan \/ DispatchReview
  \/ \E r \in Revisions :
       \/ Reclaim(r) \/ AttemptLeaseEnds(r) \/ WindowEnds(r)
       \/ \E j \in Jobs : Dispatch(r, j)
  \/ \E j \in Jobs : JobStep(j) \/ ReceiptLost(j) \/ PatchFails(j) \/ NoComment(j) \/ Crash(j)
  \/ Close \/ Reopen \/ Edit \/ LosePublic \/ RegainPublic \/ NewCommand \/ ReviewEnds
  \/ Finished

Spec == Init /\ [][Next]_vars

\* Alarms repeat, time passes, and a job that runs goes on.
Fairness ==
  /\ WF_vars(Probe) /\ WF_vars(Plan) /\ WF_vars(DispatchReview)
  /\ \A r \in Revisions :
       /\ WF_vars(Reclaim(r)) /\ WF_vars(AttemptLeaseEnds(r)) /\ WF_vars(WindowEnds(r))
       /\ WF_vars(\E j \in Jobs : Dispatch(r, j))
  /\ \A j \in Jobs : WF_vars(JobStep(j))

FairSpec == Spec /\ Fairness

----------------------------------------------------------------------------

Plans == [kind : {"none", "open", "closed"}, at : Nat]

\* The queue items, projections and jobs keep their types.
TypeOK ==
  /\ item \in [state : {"parked", "pending", "reviewing", "gone"}, rev : Revisions, source : Nat]
  /\ target \in [closed : 0..MaxClosures, content : 0..MaxEdits]
  /\ public \in BOOLEAN
  /\ probe \in [rev : {0} \cup Revisions, seen : Plans]
  /\ projection \in [Revisions -> [disposition : {"none", "failure", "target_closed", "superseded"},
                                  attempt : {"none", "live", "stale", "failed", "skipped"},
                                  observed : BOOLEAN, cancelled : BOOLEAN]]
  /\ driver \in [Revisions -> [state : {"none", "pending", "dispatching", "leased"},
                              owner : Jobs \cup {None}, window : BOOLEAN, plan : Plans]]
  /\ comment \in [text : {"progress", "failure", "target_closed"}, rev : Revisions]
  /\ \A j \in Jobs : job[j].pc # "idle" => job[j].rev \in Revisions

\* A revision whose plan was cancelled is never acknowledged, however late its
\* receipt arrives, and a revision that was acknowledged is never cancelled.
CancelledNeverAcknowledged ==
  \A r \in Revisions : ~(projection[r].cancelled /\ projection[r].observed)

\* A job that holds its driver's lease never writes the final status of an
\* exhausted command while the review of a newer command runs: it would
\* overwrite the progress of that review.  (A job loses the lease under its
\* write when a receipt of another job finds the repository no longer public,
\* or when the grace is short.)
WriteNotOverSuccessor ==
  [][\A j \in Jobs :
       /\ job[j].pc = "fenced" /\ job'[j].pc # "fenced" /\ comment' # comment
       /\ LeaseActive(j, job[j].rev)
       => item.state # "reviewing"]_vars

\* A command leaves the queue unreviewed only when its own revision was
\* acknowledged, or its comment is gone: an acknowledgement of an older
\* revision never takes a newer command away.
RemovedOnlyAcknowledged ==
  [][item'.state = "gone" /\ item.state # "gone" =>
       item.state = "reviewing" \/ Settled(projection'[item.rev])]_vars

\* While the repository stays public, an exhausted command on a target that
\* stays closed does not stay in the queue: it is acknowledged, or its comment
\* is gone, and the item removed.  Without the premise a driver that /claim
\* deleted leaves the command parked.
ClosedCommandSettled ==
  []public => []<>~(item.state = "parked" /\ target.closed # 0)
=============================================================================

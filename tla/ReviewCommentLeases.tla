------------------------ MODULE ReviewCommentLeases ------------------------
(***************************************************************************)
(* Mutual exclusion through the comments of a pull request                 *)
(* (src/clawsweeper-review-comment-leases.ts, the apply side in            *)
(* src/clawsweeper-apply-lease-guards.ts).  A runner announces its review  *)
(* or its apply mutation in a lease marker, in one of three places: a      *)
(* comment of its own, which it POSTs; the status comment of a command,    *)
(* which is there already (src/repair/update-command-status.ts); or the    *)
(* durable review comment (in place).  GitHub offers no compare-and-set: a *)
(* runner lists the comments, writes its marker, lists again, and the      *)
(* election of the second list decides.  The review of a command writes    *)
(* its marker on the queue's authority alone, without an election.         *)
(*                                                                         *)
(* Every call to GitHub or to the queue is a step of its own.  A runner is *)
(* a reviewer, which has the queue's authority and may publish its report  *)
(* in the same run, or a sweeper, which publishes reports of other runs.   *)
(* Runs crash, lose answers and start again as a later attempt.            *)
(*                                                                         *)
(* A push creates a head that was not used before.  Lease durations are    *)
(* abstracted to the flag fresh, which Expire clears at any time.  Reports *)
(* without a lease tuple, whose publishers take no lease, are left out.    *)
(***************************************************************************)
EXTENDS Integers, FiniteSets

CONSTANTS
  Reviewers,    \* runners with queue authority
  Sweepers,     \* runners that only apply
  None,         \* no lease, nobody
  MaxHead,      \* bound: heads of the pull request
  MaxId,        \* bound: comments posted
  MaxTries,     \* tries of a reservation in one run (5 in sweep.yml)
  MaxAttempt,   \* bound, per runner: attempts of its run
  MaxReview     \* bound: reviews published

ASSUME RunnersAssumption ==
  /\ Reviewers \cap Sweepers = {} /\ None \notin Reviewers
  /\ None \notin [runner : Reviewers \cup Sweepers, attempt : Nat]
ASSUME LimitsAssumption ==
  MaxHead \in Nat \ {0} /\ MaxId \in Nat /\ MaxReview \in Nat
  /\ MaxTries \in Nat \ {0} /\ MaxAttempt \in [Reviewers \cup Sweepers -> Nat]

Runners == Reviewers \cup Sweepers

VARIABLES
  head,       \* live head of the pull request
  authority,  \* the reviewer whose heartbeat the queue accepts
  comments,   \* dedicated lease comments, and status comments of commands
  nextId,     \* the id GitHub gives to the next comment
  durable,    \* the durable review comment: its review and its lease marker
  published,  \* number of the last published review
  reports,    \* reports of finished reviews: the lease they were made under
  run         \* runner |-> its progress

vars == <<head, authority, comments, nextId, durable, published, reports, run>>

Owner(p) == [runner |-> p, attempt |-> run[p].attempt]
InPlaceId == 0

\* Before a lease is held (in postReviewStartStatusComment, or for a command),
\* with a lease, and afterwards.
Acquiring == {"assert", "list", "write", "patch", "confirm", "fence", "mark"}
Confirmed == {"authority", "cleanup", "holding", "claim", "review", "refresh", "guard", "mutate"}
Ending == {"idle", "hand", "lapse", "release", "drop", "clear", "done"}

NoMarker == [review |-> 0, lease |-> None]
\* id, owner, sha: the lease that the run holds or that its report names.
NoRun == [pc |-> "idle", attempt |-> 1, tries |-> 1, apply |-> FALSE, sha |-> 0,
          id |-> 0, owner |-> None, seen |-> NoMarker, stale |-> {}]

Go(p, pc) == run' = [run EXCEPT ![p].pc = pc]

\* The run ends; the queue or the next sweep starts another attempt.
EndOfRun(p) ==
  run' = [run EXCEPT ![p] =
    IF @.attempt < MaxAttempt[p] THEN [NoRun EXCEPT !.attempt = run[p].attempt + 1]
                                 ELSE [NoRun EXCEPT !.attempt = run[p].attempt, !.pc = "done"]]

Mut_TryWithoutLimit(p) ==
  IF run[p].apply THEN EndOfRun(p)
  ELSE run' = [run EXCEPT ![p] = [NoRun EXCEPT !.pc = "assert", !.sha = head,
                 !.attempt = run[p].attempt, !.tries = run[p].tries + 1]]

\* "retry required": the reservation step calls the command again in the same
\* run, which reads the head again; an apply fails.
TryAgain(p) ==
  IF run[p].apply \/ run[p].tries = MaxTries THEN EndOfRun(p)
  ELSE run' = [run EXCEPT ![p] = [NoRun EXCEPT !.pc = "assert", !.sha = head,
                 !.attempt = run[p].attempt, !.tries = run[p].tries + 1]]

\* A step of a reviewer's workflow fails or gives up: its leases are taken back.
Unsuccessful(p) ==
  /\ p \in Reviewers
  /\ run' = [run EXCEPT ![p] = [NoRun EXCEPT !.pc = "release", !.attempt = run[p].attempt,
                                             !.tries = MaxTries]]

----------------------------------------------------------------------------
(* freshExactHeadReviewStartLease: dedicated before in place, then the     *)
(* lowest id.  A command status comment counts as dedicated.               *)

FreshFor(cs, sha) == {c \in cs : c.sha = sha /\ c.fresh}

InPlaceLeases == IF durable.lease = None THEN {} ELSE {durable.lease}

FreshLeases(sha) == FreshFor(comments, sha) \cup FreshFor(InPlaceLeases, sha)

Precedes(c, e) ==
  \/ c.id # InPlaceId /\ e.id = InPlaceId
  \/ (c.id # InPlaceId <=> e.id # InPlaceId) /\ c.id <= e.id

Elected(c, sha) ==
  c \in FreshLeases(sha) /\ \A e \in FreshLeases(sha) : Precedes(c, e)

\* The comment still carries the lease that the runner posted or adopted.
Mine(p, c) == c.id = run[p].id /\ c.owner = run[p].owner /\ c.sha = run[p].sha

IsElected(p) == \E c \in FreshLeases(run[p].sha) : Mine(p, c) /\ Elected(c, run[p].sha)

Lease(p, id, kind) ==
  [id |-> id, kind |-> kind, owner |-> Owner(p), sha |-> run[p].sha, fresh |-> TRUE]

\* kind: "posted", and for status comments "command" or, once the status is
\* terminal, "answered"; a status comment may carry no lease.
IsStatus(c) == c.kind \in {"command", "answered"}
StatusOnly(id, kind) == [id |-> id, kind |-> kind, owner |-> None, sha |-> 0, fresh |-> FALSE]
WithId(id) == {c \in comments : c.id = id}
Expired(c) == [c EXCEPT !.fresh = FALSE]

----------------------------------------------------------------------------
(* Begin, and the review of a command                                      *)

\* A reviewer starts with the queue's claim, for a command with its status
\* comment; a sweeper with a report, whose lease it adopts if it is still there.
Begin(p) ==
  /\ run[p].pc = "idle"
  /\ \/ /\ p \in Reviewers
        /\ authority' = p
        /\ \/ run' = [run EXCEPT ![p].pc = "assert", ![p].sha = head]
           \/ \E c \in comments :
                /\ IsStatus(c)
                /\ run' = [run EXCEPT ![p].pc = "fence", ![p].sha = head, ![p].id = c.id]
     \/ /\ p \in Sweepers
        /\ authority' = authority
        /\ \/ run' = [run EXCEPT ![p].pc = "refresh", ![p].apply = TRUE, ![p].sha = head]
           \/ \E r \in reports :
                /\ r.sha = head
                /\ run' = [run EXCEPT ![p].pc = "refresh", ![p].apply = TRUE, ![p].sha = head,
                                      ![p].id = r.id, ![p].owner = r.owner]
  /\ UNCHANGED <<head, comments, nextId, durable, published, reports>>

\* updateCommandStatus before its PATCH: the status is not terminal, and the
\* queue accepts the heartbeat.
Fence(p) ==
  /\ run[p].pc = "fence"
  /\ \/ authority = p /\ (\E c \in WithId(run[p].id) : c.kind = "command") /\ Go(p, "mark")
     \/ EndOfRun(p)
  /\ UNCHANGED <<head, authority, comments, nextId, durable, published, reports>>

\* The PATCH of the status comment: its lease is replaced.  Nothing is listed
\* and nothing is confirmed.
Mark(p) ==
  /\ run[p].pc = "mark"
  /\ comments' = (comments \ WithId(run[p].id)) \cup {Lease(p, run[p].id, "command")}
  /\ \/ run' = [run EXCEPT ![p].pc = "holding", ![p].owner = Owner(p)]
     \/ EndOfRun(p)
  /\ UNCHANGED <<head, authority, nextId, durable, published, reports>>

----------------------------------------------------------------------------
(* postReviewStartStatusComment                                            *)

\* assertExactReviewQueueAuthority before any public effect.  The queue may be
\* out of reach.
AssertAuthority(p) ==
  /\ run[p].pc = "assert"
  /\ \/ authority = p /\ Go(p, "list")
     \/ authority # p /\ EndOfRun(p)
     \/ TryAgain(p)
  /\ UNCHANGED <<head, authority, comments, nextId, durable, published, reports>>

\* The first list.  A retry of this very run finds its own lease; any other
\* lease means held.  Without one the expired dedicated leases are deleted, but
\* no status comment, as far as the calls succeed.
List(p) ==
  /\ run[p].pc = "list"
  /\ \/ \E c \in FreshLeases(run[p].sha) :
          /\ Elected(c, run[p].sha)
          /\ \/ /\ ~run[p].apply /\ c.owner = Owner(p)
                /\ run' = [run EXCEPT ![p].pc = "authority", ![p].id = c.id,
                                      ![p].owner = c.owner, ![p].stale = {}]
             \/ /\ run[p].apply \/ c.owner # Owner(p)
                /\ EndOfRun(p)
          /\ UNCHANGED comments
     \/ /\ FreshLeases(run[p].sha) = {}
        /\ \E reaped \in SUBSET {c \in comments : ~c.fresh /\ ~IsStatus(c)} :
             comments' = comments \ reaped
        /\ Go(p, "write")
  /\ UNCHANGED <<head, authority, nextId, durable, published, reports>>

\* POST of a dedicated comment.  When its answer names no comment the lease
\* stays behind.
Post(p) ==
  /\ run[p].pc = "write"
  /\ nextId <= MaxId
  /\ comments' = comments \cup {Lease(p, nextId, "posted")}
  /\ nextId' = nextId + 1
  /\ \/ run' = [run EXCEPT ![p].pc = "confirm", ![p].id = nextId, ![p].owner = Owner(p)]
     \/ TryAgain(p)
  /\ UNCHANGED <<head, authority, durable, published, reports>>

\* The quiet path of a background review: raw GET of the durable comment,
\* then the heartbeat, ...
QuietRead(p) ==
  /\ run[p].pc = "write" /\ ~run[p].apply
  /\ \/ FreshFor(InPlaceLeases, run[p].sha) # {} /\ EndOfRun(p)
     \/ /\ FreshFor(InPlaceLeases, run[p].sha) = {}
        /\ \/ authority # p /\ EndOfRun(p)
           \/ /\ authority = p
              /\ run' = [run EXCEPT ![p].pc = "patch", ![p].seen = durable]
           \/ TryAgain(p)
  /\ UNCHANGED <<head, authority, comments, nextId, durable, published, reports>>

\* ... then the PATCH of what was read plus the marker.
QuietPatch(p) ==
  /\ run[p].pc = "patch"
  /\ durable' = [review |-> run[p].seen.review, lease |-> Lease(p, InPlaceId, "in place")]
  /\ \/ run' = [run EXCEPT ![p].pc = "confirm", ![p].id = InPlaceId, ![p].owner = Owner(p),
                               ![p].seen = NoMarker]
     \/ TryAgain(p)
  /\ UNCHANGED <<head, authority, comments, nextId, published, reports>>

Mut_ConfirmUnread(p) ==
  /\ run[p].pc = "confirm"
  /\ run' = [run EXCEPT ![p].pc = IF run[p].apply THEN "guard" ELSE "authority",
                        ![p].stale = {c \in comments : c.sha # run[p].sha /\ ~IsStatus(c)}]
  /\ UNCHANGED <<head, authority, comments, nextId, durable, published, reports>>

\* The second list: the elected runner goes on, the others take their
\* marker back.
Confirm(p) ==
  /\ run[p].pc = "confirm"
  /\ \/ /\ IsElected(p)
        /\ run' = [run EXCEPT ![p].pc = IF run[p].apply THEN "guard" ELSE "authority",
                              ![p].stale = {c \in comments : c.sha # run[p].sha /\ ~IsStatus(c)}]
     \/ ~IsElected(p) /\ Go(p, "drop")
  /\ UNCHANGED <<head, authority, comments, nextId, durable, published, reports>>

Mut_AuthorityWithoutHead(p) ==
  /\ run[p].pc = "authority"
  /\ \/ authority = p /\ Go(p, "cleanup")
     \/ authority # p /\ Go(p, "drop")
  /\ UNCHANGED <<head, authority, comments, nextId, durable, published, reports>>

\* confirmQueueAuthority: live head, then heartbeat.  The lease is kept when
\* the queue is out of reach.
ConfirmAuthority(p) ==
  /\ run[p].pc = "authority"
  /\ \/ head = run[p].sha /\ authority = p /\ Go(p, "cleanup")
     \/ (head # run[p].sha \/ authority # p) /\ Go(p, "drop")
     \/ head = run[p].sha /\ TryAgain(p)
  /\ UNCHANGED <<head, authority, comments, nextId, durable, published, reports>>

\* reapSupersededDedicatedReviewStartLeases over the list of Confirm, as far
\* as the calls succeed; without allowSupersededLeaseCleanup nothing is
\* deleted.
CleanUp(p) ==
  /\ run[p].pc = "cleanup"
  /\ \E reaped \in SUBSET {c.id : c \in run[p].stale} :
        comments' = {c \in comments : c.id \notin reaped}
  /\ run' = [run EXCEPT ![p].pc = "holding", ![p].stale = {}]
  /\ UNCHANGED <<head, authority, nextId, durable, published, reports>>

----------------------------------------------------------------------------
(* Review, publication, apply                                              *)

\* The revision of the context that the review reads must be the lease's, ...
ReadContext(p) ==
  /\ run[p].pc = "holding"
  /\ \/ head = run[p].sha /\ Go(p, "claim")
     \/ head # run[p].sha /\ Unsuccessful(p)
  /\ UNCHANGED <<head, authority, comments, nextId, durable, published, reports>>

\* ... and the lease must be the elected one (claimSuppliedReviewLease).
ClaimSupplied(p) ==
  /\ run[p].pc = "claim"
  /\ \/ IsElected(p) /\ Go(p, "review")
     \/ ~IsElected(p) /\ Unsuccessful(p)
  /\ UNCHANGED <<head, authority, comments, nextId, durable, published, reports>>

Report(c) == [id |-> c.id, owner |-> c.owner, sha |-> c.sha]

\* The review ends: its report names the lease and is published by this run or
\* by another one; or the review fails.
Review(p) ==
  /\ run[p].pc = "review"
  /\ \/ /\ reports' = reports \cup {Report(run[p])}
        /\ \/ run' = [run EXCEPT ![p].pc = "refresh", ![p].apply = TRUE]
           \/ Go(p, "hand")
     \/ Unsuccessful(p) /\ UNCHANGED reports
  /\ UNCHANGED <<head, authority, comments, nextId, durable, published>>

\* Without a publication the workflow takes back every lease in the name of the
\* run, but no status comment: the in-place marker in two calls (Clear).
Release(p) ==
  /\ run[p].pc = "release"
  /\ \/ /\ \E c \in InPlaceLeases : c.owner = Owner(p)
        /\ run' = [run EXCEPT ![p].pc = "clear", ![p].seen = durable]
        /\ UNCHANGED comments
     \/ /\ comments' = {c \in comments : IsStatus(c) \/ c.owner # Owner(p)}
        /\ EndOfRun(p)
  /\ UNCHANGED <<head, authority, nextId, durable, published, reports>>

\* The publication is queued; the lease is made to expire, a command's lease is
\* left.  In place the body is read ...
HandOver(p) ==
  /\ run[p].pc = "hand"
  /\ \/ /\ \E c \in WithId(run[p].id) :
             ~IsStatus(c) /\ comments' = (comments \ {c}) \cup {Expired(c)}
        /\ EndOfRun(p)
     \/ /\ run[p].id = InPlaceId
        /\ run' = [run EXCEPT ![p].pc = "lapse", ![p].seen = durable]
        /\ UNCHANGED comments
     \/ EndOfRun(p) /\ UNCHANGED comments
  /\ UNCHANGED <<head, authority, nextId, durable, published, reports>>

\* ... and written back, whoever owns the marker in it.
Lapse(p) ==
  /\ run[p].pc = "lapse"
  /\ \/ /\ run[p].seen.lease # None
        /\ durable' = [run[p].seen EXCEPT !.lease.fresh = FALSE]
     \/ UNCHANGED durable
  /\ EndOfRun(p)
  /\ UNCHANGED <<head, authority, comments, nextId, published, reports>>

\* refreshReviewStartLeaseState and acquireApplyMutationLease: the lease of
\* the report is adopted, any other lease blocks, and without a lease one is
\* posted.  The head is read before and after the comments.
Refresh(p) ==
  /\ run[p].pc = "refresh"
  /\ \/ head # run[p].sha /\ EndOfRun(p)
     \/ /\ head = run[p].sha
        /\ \/ IsElected(p) /\ Go(p, "guard")
           \/ ~IsElected(p) /\ FreshLeases(head) # {} /\ EndOfRun(p)
           \/ FreshLeases(head) = {} /\ Go(p, "list")
  /\ UNCHANGED <<head, authority, comments, nextId, durable, published, reports>>

\* ownedApplyMutationLeaseBlockReason, before every mutation.
Guard(p) ==
  /\ run[p].pc = "guard"
  /\ \/ head = run[p].sha /\ IsElected(p) /\ Go(p, "mutate")
     \/ (head # run[p].sha \/ ~IsElected(p)) /\ Go(p, "drop")
  /\ UNCHANGED <<head, authority, comments, nextId, durable, published, reports>>

\* upsertReviewComment with preserveReviewStartLease: an in-place lease of
\* its own is kept (and must still be there), another marker is overwritten.
Mutate(p) ==
  /\ run[p].pc = "mutate"
  /\ \/ /\ run[p].id = InPlaceId => \E c \in InPlaceLeases : Mine(p, c)
        /\ published < MaxReview
        /\ published' = published + 1
        /\ durable' = [review |-> published',
                       lease |-> IF run[p].id = InPlaceId THEN durable.lease ELSE None]
        /\ Go(p, "guard")
     \/ Go(p, "drop") /\ UNCHANGED <<durable, published, reports>>
  /\ UNCHANGED <<head, authority, comments, nextId, reports>>

\* deleteOwnedDedicatedReviewStartLease: a dedicated comment is deleted, a status
\* comment is left; an in-place marker is read with the body and cleared in a
\* second call.  A failed call leaves the marker.  The run ends (held, superseded, applied) or
\* tries again (the lease was not confirmed, the revision changed).
Drop(p) ==
  /\ run[p].pc = "drop"
  /\ \/ /\ run[p].id # InPlaceId
        /\ comments' = {c \in comments : IsStatus(c) \/ ~Mine(p, c)}
        /\ EndOfRun(p) \/ TryAgain(p)
     \/ /\ run[p].id = InPlaceId /\ \E c \in InPlaceLeases : Mine(p, c)
        /\ run' = [run EXCEPT ![p].pc = "clear", ![p].seen = durable]
        /\ UNCHANGED comments
     \/ /\ EndOfRun(p) \/ TryAgain(p)
        /\ UNCHANGED comments
  /\ UNCHANGED <<head, authority, nextId, durable, published, reports>>

Clear(p) ==
  /\ run[p].pc = "clear"
  /\ \/ durable' = [review |-> run[p].seen.review, lease |-> None]
     \/ UNCHANGED durable
  /\ EndOfRun(p) \/ TryAgain(p) \/ Unsuccessful(p)
  /\ UNCHANGED <<head, authority, comments, nextId, published, reports>>

----------------------------------------------------------------------------
(* Environment                                                             *)

\* The runner is lost, or a step fails.
Crash(p) ==
  /\ run[p].pc \notin {"idle", "done"}
  /\ EndOfRun(p) \/ Unsuccessful(p)
  /\ UNCHANGED <<head, authority, comments, nextId, durable, published, reports>>

\* A command is acknowledged; a worker, the router or a finalizer writes its
\* status, which takes a lease out of it (mergeCommandProgressSection).
Acknowledge ==
  /\ nextId <= MaxId
  /\ comments' = comments \cup {StatusOnly(nextId, "command")}
  /\ nextId' = nextId + 1
  /\ UNCHANGED <<head, authority, durable, published, reports, run>>

WriteStatus ==
  /\ \E c \in comments, kind \in {"command", "answered"} :
       /\ IsStatus(c)
       /\ comments' = (comments \ {c}) \cup {StatusOnly(c.id, kind)}
  /\ UNCHANGED <<head, authority, nextId, durable, published, reports, run>>

Expire ==
  /\ \/ \E c \in comments :
          /\ c.fresh
          /\ comments' = (comments \ {c}) \cup {Expired(c)}
          /\ UNCHANGED durable
     \/ /\ durable.lease # None /\ durable.lease.fresh
        /\ durable' = [durable EXCEPT !.lease.fresh = FALSE]
        /\ UNCHANGED comments
  /\ UNCHANGED <<head, authority, nextId, published, reports, run>>

\* A push, or the queue's revocation of the reviewer's lease, in any order.
Push ==
  /\ head < MaxHead
  /\ head' = head + 1
  /\ UNCHANGED <<authority, comments, nextId, durable, published, reports, run>>

LoseAuthority ==
  /\ authority # None
  /\ authority' = None
  /\ UNCHANGED <<head, comments, nextId, durable, published, reports, run>>

Finished ==
  /\ \A p \in Runners : run[p].pc \in {"done", "write"}
  /\ UNCHANGED vars

----------------------------------------------------------------------------
Init ==
  /\ head = 1 /\ authority = None
  /\ comments = {} /\ nextId = 1
  /\ durable = NoMarker /\ published = 0 /\ reports = {}
  /\ run = [p \in Runners |-> NoRun]

Advance(p) ==
  \/ Begin(p) \/ Fence(p) \/ Mark(p) \/ AssertAuthority(p) \/ List(p) \/ Post(p)
  \/ QuietRead(p) \/ QuietPatch(p) \/ Confirm(p) \/ ConfirmAuthority(p)
  \/ CleanUp(p) \/ ReadContext(p) \/ ClaimSupplied(p) \/ Review(p) \/ Release(p)
  \/ HandOver(p) \/ Lapse(p) \/ Refresh(p) \/ Guard(p) \/ Mutate(p)
  \/ Drop(p) \/ Clear(p)

Next ==
  \/ \E p \in Runners : Advance(p) \/ Crash(p)
  \/ Acknowledge \/ WriteStatus \/ Expire \/ Push \/ LoseAuthority \/ Finished

Spec == Init /\ [][Next]_vars

----------------------------------------------------------------------------
(* Properties                                                              *)

Names == [runner : Runners, attempt : Nat]
LeasesAt(ids, kinds) ==
  [id : ids, kind : kinds, owner : Names \cup {None}, sha : 0..MaxHead, fresh : BOOLEAN]
Leases == LeasesAt(1..MaxId, {"posted", "command", "answered"})
Markers == [review : 0..MaxReview, lease : LeasesAt({InPlaceId}, {"in place"}) \cup {None}]

\* The variables keep their types; ids of comments are unique and below the next
\* id, and a live lease has an owner.
TypeOK ==
  /\ head \in 1..MaxHead
  /\ authority \in Reviewers \cup {None}
  /\ comments \subseteq Leases
  /\ nextId \in 1..(MaxId + 1)
  /\ \A c \in comments : c.id < nextId /\ (c.fresh => c.owner # None)
  /\ \A c, e \in comments : c.id = e.id => c = e
  /\ durable \in Markers
  /\ published \in 0..MaxReview
  /\ reports \subseteq [id : 0..MaxId, owner : Names \cup {None}, sha : 0..MaxHead]
  /\ run \in [Runners -> [pc : Acquiring \cup Confirmed \cup Ending, attempt : Nat,
                          tries : 1..MaxTries, apply : BOOLEAN, sha : 0..MaxHead, id : 0..MaxId,
                          owner : Names \cup {None}, seen : Markers, stale : SUBSET Leases]]

Holds(p, c) == run[p].pc \in Confirmed /\ Mine(p, c)

\* Two runners that hold live dedicated leases of the same head hold the same
\* one, and not before its report exists: it is then the lease of the publishers of
\* that report.  Whatever the order of lists, POSTs, deletions, expiries, adoptions
\* and crashes (the election of postReviewStartStatusComment).  Leases in status
\* comments are excepted: they were not elected and their ids are old.
OneDedicatedHolder ==
  \A p, q \in Runners : \A c, e \in comments :
     Holds(p, c) /\ Holds(q, e) /\ c.fresh /\ e.fresh /\ c.sha = e.sha
     => p = q \/ (c = e /\ Report(c) \in reports) \/ IsStatus(c) \/ IsStatus(e)

\* No cleanup deletes a live lease of the current head, or the status comment of a
\* command: lists are old when their entries are deleted (reapExpired...,
\* reapSuperseded..., deleteOwnedDedicatedReviewStartLease).  Only its owner does,
\* or the publisher of the report that was made under it.
CleanupSparesCurrentHead ==
  [][\A c \in comments :
       IsStatus(c) \/ (c.fresh /\ c.sha = head) =>
         \/ \E e \in comments' : e.id = c.id
         \/ \E p \in Runners : /\ run[p].pc \in {"drop", "release"} /\ ~IsStatus(c)
                               /\ c.owner = Owner(p) \/ (Mine(p, c) /\ Report(c) \in reports)]_vars
=============================================================================

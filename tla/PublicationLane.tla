-------------------------- MODULE PublicationLane --------------------------
(***************************************************************************)
(* The publication lane of the queue (dashboard/exact-review-queue.ts)     *)
(* composed with the store of publication batches (PublicationBatches):    *)
(* the publications of ONE pull request or issue.                          *)
(*                                                                         *)
(* A finished review sends a publication: the queue key names the producer *)
(* run, the lineage is (revision of the reviewed item, claim generation).  *)
(* Deliveries repeat and arrive in any order.  Publishers lease items in   *)
(* batches, fetch their decisions, publish, and complete late or never.    *)
(* The store's transaction calls back into the queue, so that both change  *)
(* in one step.                                                            *)
(*                                                                         *)
(* The target may be closed or become private.  Requests ask GitHub and go *)
(* on after the answer with the queue as it is then; the answer may be old *)
(* by that time.  gone is the set of such answers given so far; "public,   *)
(* open" and "ask again later" are possible answers at any time.           *)
(*                                                                         *)
(* Publications without a command, a direct receipt or a manual policy:    *)
(* they are batched and may be superseded without an acknowledgement.  The *)
(* order of creation is not kept: where the code takes the oldest item,    *)
(* any of them may be taken.  Left out: what an operator does with dead    *)
(* letters (replay, recover, resolve, and the parked publications that     *)
(* then move into the freed slots), and the operator's own supersession    *)
(* request, which removes the same items as Maintain.                      *)
(***************************************************************************)
EXTENDS Integers, FiniteSets, Sequences

CONSTANTS
  Keys,            \* producer runs, in the order of their run ids
  Lineage,         \* producer |-> [src : revision, gen : claim generation]
  Batches, Owners, None, MaxItems, MaxConcurrent, LeaseSpans, RetentionTicks,
  MaxRevision, MaxGeneration,  \* the parameters of PublicationBatches
  FailureLimit,    \* failed attempts before the dead-letter lane
  DeadLetterSlots  \* capacity of the dead-letter lane

ASSUME KeysAssumption ==
  /\ Keys \subseteq Nat /\ IsFiniteSet(Keys)
  /\ Lineage \in [Keys -> [src : Nat, gen : Nat]]
ASSUME LaneLimitsAssumption ==
  FailureLimit \in Nat \ {0} /\ DeadLetterSlots \in Nat /\ MaxRevision \in Nat \ {0}

VARIABLES
  batch, member, generation, told, accepted,  \* the batch store
  item,     \* key |-> publication item
  head,     \* newest source revision admitted (publication head)
  fetched,  \* decisions that publishers fetched, with their fences
  dead,     \* dead letters: key and revision
  gone,     \* what GitHub has answered of the target: "closed", "private"
  reviewing \* a review of the target is queued or running

Store == INSTANCE PublicationBatches
storeVars == <<batch, member, generation, told, accepted>>
world == <<gone, reviewing>>
vars == <<batch, member, generation, told, accepted, item, head, fetched, dead, gone, reviewing>>

\* aged: past the retention of artifacts, counted from the item's creation.
NoItem == [st |-> "absent", prod |-> 0, rev |-> 0, fails |-> 0, aged |-> FALSE]
NewItem(p) == [st |-> "pending", prod |-> p, rev |-> 1, fails |-> 0, aged |-> FALSE]

Present(is) == {k \in Keys : is[k].st # "absent"}
SourceOf(it) == Lineage[it.prod].src
Newest(S) == CHOOSE n \in S : \A m \in S : m <= n

\* activeBatchItemKeys of a request: activeLeaseSnapshot reclaims first.
BatchOwned == Store!Owned(Store!ReclaimedMember)
Removed(is, S) == [k \in Keys |-> IF k \in S THEN NoItem ELSE is[k]]

----------------------------------------------------------------------------
(* /enqueue of a publication                                               *)

SameLineage(p) == {k \in Present(item) : Lineage[item[k].prod] = Lineage[p]}

\* The retained item of a lineage keeps its key; the newest producer's
\* artifact replaces its decision unless a publisher already works on one.
Mut_RefreshEvenOwned(p, kept) ==
  LET prods == {item[k].prod : k \in SameLineage(p)} \cup {p}
      removed == (SameLineage(p) \ {kept}) \ BatchOwned
  IN [Removed(item, removed) EXCEPT ![kept].prod = Newest(prods)]

Collapsed(p, kept) ==
  LET prods == {item[k].prod : k \in SameLineage(p)} \cup {p}
      removed == (SameLineage(p) \ {kept}) \ BatchOwned
  IN IF SameLineage(p) \cap BatchOwned # {}
     THEN Removed(item, removed)
     ELSE [Removed(item, removed) EXCEPT ![kept].prod = Newest(prods)]

\* The delivery only repeats what the lineage's retained item stands for.
IsSemanticRepeat(p, kept) ==
  \/ item[kept].prod # p
  \/ kept # p
  \/ SameLineage(p) \cap BatchOwned = {} /\ \E k \in SameLineage(p) : item[k].prod > p

\* Older publications that no batch owns end when a newer one is admitted.
SupersededBy(p, is) ==
  {k \in Present(is) : SourceOf(is[k]) < Lineage[p].src /\ k \notin BatchOwned}

\* A redelivery of the same key raises the revision and resets the retries.
Redelivered(it, p) == [it EXCEPT !.st = "pending", !.prod = p, !.rev = @ + 1, !.fails = 0]
Admitted(p, is) ==
  [is EXCEPT ![p] = IF @.st = "absent" THEN NewItem(p) ELSE Redelivered(@, p)]

Enqueue(p) ==
  LET newest == Newest({head, Lineage[p].src} \cup {SourceOf(item[k]) : k \in Present(item)})
      admit(is) == Admitted(p, Removed(is, SupersededBy(p, is)))
  IN /\ item[p].rev < MaxRevision
     /\ head' = newest
     /\ \/ /\ Lineage[p].src < newest
           /\ UNCHANGED item
        \/ /\ Lineage[p].src = newest
           /\ \/ SameLineage(p) = {} /\ item' = admit(item)
              \/ \E kept \in SameLineage(p) :
                   /\ SameLineage(p) \cap BatchOwned # {} => kept \in BatchOwned
                   /\ item' = IF IsSemanticRepeat(p, kept) THEN Collapsed(p, kept)
                              ELSE admit(Collapsed(p, kept))
     /\ Store!Read
     /\ UNCHANGED <<fetched, dead, world>>

----------------------------------------------------------------------------
(* Batches                                                                 *)

\* publicationBatchCandidates: pending, not owned, not superseded; one item
\* of a pull request in a batch.
Candidates ==
  {k \in Present(item) : item[k].st = "pending" /\ k \notin BatchOwned
                         /\ SourceOf(item[k]) >= head}

\* claimPublicationBatch after its awaits: state, candidates and store are
\* read again and used in one step.
Claim(b, owner, k, span) ==
  /\ k \in Candidates
  /\ Store!Claim(b, owner, {k}, [x \in {k} |-> item[x].rev], span)
  /\ UNCHANGED <<item, head, fetched, dead, world>>

\* The probe answered that the target is not public: its candidate is deleted
\* and nothing is granted.  (Another answer than "public" grants nothing either:
\* a StoreStep.)
ClaimRefused(k) ==
  /\ k \in Candidates /\ "private" \in gone
  /\ item' = Removed(item, {k})
  /\ Store!Read
  /\ UNCHANGED <<head, fetched, dead, world>>

Holds(w) == Store!Holds(w)

\* Members whose item ended, has another revision or is superseded.
StaleMembers(w) ==
  {k \in DOMAIN w.fence :
     /\ Store!Accepts(w, k)
     /\ \/ item[k].st = "absent" \/ item[k].rev # w.fence[k].rev
        \/ SourceOf(item[k]) < head}

\* fetchPublicationBatch: stale members end as superseded, with the items that
\* are still at the member's revision; the others are handed out.
Fetch(w) ==
  LET stale == StaleMembers(w)
      ended == {k \in stale : item[k].st # "absent" /\ item[k].rev = w.fence[k].rev}
      given == {k \in DOMAIN w.fence \ stale : Store!Accepts(w, k)}
  IN /\ Holds(w)
     /\ IF stale = {} THEN Store!Read ELSE Store!Complete(w, stale, "superseded")
     /\ item' = Removed(item, ended)
     /\ fetched' = fetched \cup
          {[batch |-> w.batch, key |-> k, gen |-> w.fence[k].gen,
            prod |-> item[k].prod, rev |-> item[k].rev] : k \in given}
     /\ UNCHANGED <<head, dead, world>>

Heartbeat(w, span) ==
  /\ Store!Heartbeat(w, DOMAIN w.fence, span)
  /\ UNCHANGED <<item, head, fetched, dead, world>>

\* Completions: published, superseded; a failure that was not attempted
\* (throttle), a failed attempt, one whose reason allows no more time or fewer
\* attempts, an artifact that must be produced again.
Kinds == {"published", "superseded", "throttled", "failed", "outlasted", "refresh"}
Outcome(kind) == IF kind \in {"published", "superseded"} THEN kind ELSE "lease_expired"

Requeued(it, fails) == [it EXCEPT !.st = "pending", !.fails = fails]
Parked(it) == [it EXCEPT !.st = "parked", !.fails = @ + 1]

Mut_DeadLetterOneTooMany(k, rev) == Cardinality(dead) <= DeadLetterSlots

\* deadLetterCapacityAvailableSync: room, or the id is there already.
DeadLetterFits(k, rev) ==
  Cardinality(dead) < DeadLetterSlots \/ [key |-> k, rev |-> rev] \in dead

\* By the number of attempts, or by the time since the first failure (never at
\* the first) and by reasons with a smaller limit.
Exhausted(it, kind) ==
  \/ kind \in {"failed", "outlasted"} /\ it.fails + 1 >= FailureLimit
  \/ kind = "outlasted" /\ it.fails > 0

\* What becomes of an item whose decision the publisher reports on.
Reported(it, k, owned, kind) ==
  CASE kind \in {"published", "superseded", "refresh"} -> NoItem
    [] kind = "throttled" -> Requeued(it, it.fails)
    [] OTHER -> IF ~Exhausted(it, kind) THEN Requeued(it, it.fails + 1)
                ELSE IF DeadLetterFits(k, owned) THEN NoItem
                ELSE Parked(it)

Mut_FinishWhateverRevision(it, k, owned, kind) == Reported(it, k, owned, kind)

\* finishExactReviewPublicationQueueItem
Finished(it, k, owned, kind) ==
  IF it.rev > owned THEN Requeued(it, 0) ELSE Reported(it, k, owned, kind)

HasFetched(w, k) ==
  \E f \in fetched : f.batch = w.batch /\ f.key = k /\ f.gen = w.fence[k].gen

\* completePublicationBatch.  The store checks the member's fence; an item that
\* ended or started over is left alone.  A refreshed publication queues a review
\* (refreshExactReviewPublicationItem) unless one is there already.
Settle(w, k, kind) ==
  LET owned == w.fence[k].rev
      applies == Store!Accepts(w, k) /\ item[k].st # "absent" /\ item[k].rev >= owned
  IN /\ Holds(w)
     /\ Store!Complete(w, {k}, Outcome(kind))
     /\ item' = IF applies THEN [item EXCEPT ![k] = Finished(item[k], k, owned, kind)] ELSE item
     /\ dead' = IF /\ applies /\ item[k].rev = owned
                   /\ Exhausted(item[k], kind) /\ DeadLetterFits(k, owned)
                THEN dead \cup {[key |-> k, rev |-> owned]} ELSE dead
     /\ reviewing' = (reviewing \/ (applies /\ kind = "refresh" /\ item[k].rev = owned))
     /\ UNCHANGED <<head, fetched, gone>>

\* The publisher reports on a decision it fetched.
Complete(w, k, kind) == HasFetched(w, k) /\ Settle(w, k, kind)

\* A repeated claim of a batch by its owner (replayExistingBatch): the targets
\* are probed again, and members whose target is not public now are completed
\* for the publisher.
Replay(w, k) ==
  /\ Store!Accepts(w, k) /\ item[k].st # "absent" /\ item[k].rev = w.fence[k].rev
  /\ \/ "private" \in gone /\ Settle(w, k, "superseded")
     \/ Settle(w, k, "throttled")

\* A request of a publisher whose batch is no longer leased.
Late(w) == Store!CompleteLate(w) /\ UNCHANGED <<item, head, fetched, dead, world>>

----------------------------------------------------------------------------
(* Maintenance                                                             *)

\* Stale items that no batch owns (stalePublicationCandidatesSync).
Stale ==
  LET newest == Newest({head} \cup {SourceOf(item[k]) : k \in Present(item)})
  IN {k \in Present(item) : SourceOf(item[k]) < newest /\ k \notin BatchOwned}

\* expireExactReviewPublicationItems: pending, past the retention, owned or not.
PastRetention == {k \in Present(item) : item[k].st = "pending" /\ item[k].aged}

\* The alarm drops stale items, some at a time (pruneStalePublicationsSync), and
\* has the decisions of expired items reviewed again; it repeats the second after
\* its awaits.
Maintain(pruned) ==
  LET expired == PastRetention \ pruned
  IN /\ pruned \subseteq Stale
     /\ item' = Removed(item, pruned \cup expired)
     /\ reviewing' = (reviewing \/ expired # {})
     /\ Store!Read
     /\ UNCHANGED <<head, fetched, dead, gone>>

\* The last publication of a target of which nothing else is going on: the one a
\* reconciliation may end although it is parked.
LastOfTarget(k) ==
  /\ ~reviewing /\ SourceOf(item[k]) >= head
  /\ \A j \in Present(item) : j \notin BatchOwned /\ item[j].prod <= item[k].prod

\* The alarm, a departure and a reconciliation end publications of a target that
\* GitHub said is closed or private (livePublicationStates,
\* terminalizePublicationCandidates), unless a batch owns them by then.
Terminalize(S) ==
  /\ gone # {} /\ S \subseteq Present(item) \ BatchOwned
  /\ \A k \in S : item[k].st = "pending" \/ LastOfTarget(k)
  /\ item' = Removed(item, S)
  /\ Store!Read
  /\ UNCHANGED <<head, fetched, dead, world>>

\* One item of a lineage is retained, with the newest producer's decision.
Refreshed(it, newest) ==
  [it EXCEPT !.rev = IF newest > it.prod THEN @ + 1 ELSE @, !.prod = newest]

Retained(kept, same) ==
  [Removed(item, same \ {kept}) EXCEPT
     ![kept] = Refreshed(item[kept], Newest({item[k].prod : k \in same}))]

\* reconcilePublicationCandidates: joins the items of a lineage that no batch
\* owns and drops stale ones (a request without either changes nothing).
Reconcile ==
  /\ \E kept \in Present(item) :
       LET same == SameLineage(item[kept].prod)
       IN /\ same \cap BatchOwned = {} /\ Cardinality(same) > 1
          /\ kept \notin Stale
          /\ item[kept].rev < MaxRevision
          /\ item' = Removed(Retained(kept, same), Stale)
  /\ Store!Read
  /\ UNCHANGED <<head, fetched, dead, world>>

StoreStep ==
  /\ Store!Read \/ Store!Stats \/ Store!Tick
  /\ UNCHANGED <<item, head, fetched, dead, world>>

----------------------------------------------------------------------------
(* What happens outside the lane                                           *)

Answer(a) ==
  /\ a \notin gone /\ gone' = gone \cup {a}
  /\ UNCHANGED <<storeVars, item, head, fetched, dead, reviewing>>

Age(k) ==
  /\ item[k].st # "absent" /\ ~item[k].aged
  /\ item' = [item EXCEPT ![k].aged = TRUE]
  /\ UNCHANGED <<storeVars, head, fetched, dead, world>>

\* Reviews of the target are queued by events, and end.
ReviewMoves ==
  /\ reviewing' = ~reviewing
  /\ UNCHANGED <<storeVars, item, head, fetched, dead, gone>>

\* A backlog written before deliveries of one lineage were joined: an item per
\* producer.  backfillPublicationHeadsSync takes the heads from it.
Init ==
  /\ Store!Init
  /\ \E backlog \in SUBSET Keys :
       /\ item = [k \in Keys |-> IF k \in backlog THEN NewItem(k) ELSE NoItem]
       /\ head = Newest({0} \cup {Lineage[k].src : k \in backlog})
  /\ fetched = {} /\ dead = {} /\ gone = {} /\ reviewing = FALSE

Publisher(w) ==
  \/ Fetch(w)
  \/ \E span \in LeaseSpans : Heartbeat(w, span)
  \/ \E k \in DOMAIN w.fence, kind \in Kinds : Complete(w, k, kind)
  \/ \E k \in DOMAIN w.fence : Replay(w, k)
  \/ Late(w)

Next ==
  \/ \E p \in Keys : Enqueue(p)
  \/ \E b \in Batches, owner \in Owners, k \in Keys, span \in LeaseSpans : Claim(b, owner, k, span)
  \/ \E k \in Keys : ClaimRefused(k)
  \/ \E w \in told : Publisher(w)
  \/ \E S \in SUBSET Keys : Maintain(S) \/ Terminalize(S)
  \/ Reconcile \/ StoreStep
  \/ \E a \in {"closed", "private"} : Answer(a)
  \/ \E k \in Keys : Age(k)
  \/ ReviewMoves

Spec == Init /\ [][Next]_vars

----------------------------------------------------------------------------
(* Properties                                                              *)

\* The variables keep their types; the dead-letter lane keeps its capacity
\* (deadLetterCapacityAvailableSync), and an item has the revision and decision
\* of a delivery.
TypeOK ==
  /\ item \in [Keys -> [st : {"absent", "pending", "parked"}, prod : Keys \cup {0},
                        rev : 0..MaxRevision, fails : 0..FailureLimit, aged : BOOLEAN]]
  /\ head \in Nat
  /\ fetched \subseteq [batch : Batches, key : Keys, gen : Nat, prod : Keys, rev : 1..MaxRevision]
  /\ dead \subseteq [key : Keys, rev : Nat] /\ Cardinality(dead) <= DeadLetterSlots
  /\ gone \subseteq {"closed", "private"} /\ reviewing \in BOOLEAN
  /\ \A k \in Present(item) : item[k].prod \in Keys /\ item[k].rev > 0

\* A publisher holds item k as it is: the decision it fetched, under a membership
\* that is still open, is of the item's lineage and not older.
HeldBy(f, k) ==
  /\ f.key = k /\ f.rev = item[k].rev /\ f.prod >= item[k].prod
  /\ Lineage[f.prod] = Lineage[item[k].prod]
  /\ member[f.batch][k].out = "open" /\ member[f.batch][k].gen = f.gen

\* Its publication is reported as done or unnecessary, or it became a dead
\* letter, or the target is to be reviewed again.
Accounted(f, k) ==
  \/ member'[f.batch][k].out \in {"published", "superseded"}
  \/ [key |-> k, rev |-> item[k].rev] \in dead'
  \/ reviewing'

\* A batch leases the item, at the revision it has.
Leases(k) ==
  \E b \in Batches : /\ Store!ReclaimedMember[b][k].out = "open"
                      /\ Store!ReclaimedMember[b][k].rev = item[k].rev

\* A publication leaves the queue only because
\*  - a publisher that holds it reported on it, and it is accounted for,
\*  - a newer source revision is known,
\*  - an item of the same lineage stays, with the same or a newer artifact or
\*    already in the hands of a publisher,
\*  - GitHub said the target is closed or private and no batch owns the item, or
\*    that it is private and the item is still what its batch leased, or
\*  - it is past the retention, and the target is to be reviewed again
\* (deliveries, refreshes and duplicates during a lease; a late, early or repeated
\* completion; a fence that was issued for an earlier life of the key; answers of
\* GitHub that come after the item changed or was leased).
PublicationNotLost ==
  [][\A k \in Present(item) :
       item'[k].st = "absent" =>
         \/ \E f \in fetched : HeldBy(f, k) /\ Accounted(f, k)
         \/ SourceOf(item[k]) < head'
         \/ \E e \in Present(item') : /\ Lineage[item'[e].prod] = Lineage[item[k].prod]
                                      /\ item'[e].prod >= item[k].prod \/ e \in BatchOwned
         \/ gone # {} /\ k \notin BatchOwned
         \/ "private" \in gone /\ Leases(k)
         \/ item[k].st = "pending" /\ item[k].aged /\ reviewing']_vars

\* What a publisher fetched under a membership that is still open is of the
\* lineage of its item and not older than what the item holds, unless the item's
\* revision has moved on and its completion will give the item back.  (Older: an
\* owned item expired and its key was delivered again.)
FetchedIsCurrent ==
  \A f \in fetched :
    LET m == member[f.batch][f.key]
    IN m.out = "open" /\ m.gen = f.gen /\ item[f.key].st # "absent" /\ item[f.key].rev = m.rev
       => f.prod >= item[f.key].prod /\ Lineage[f.prod] = Lineage[item[f.key].prod]
=============================================================================

------------------------- MODULE PublicationBatches -------------------------
(***************************************************************************)
(* The store of publication batches (ExactReviewPublicationBatchStore,     *)
(* dashboard/exact-review-publication-batches.ts): a batch leases several  *)
(* queue items to one publisher workflow, and each membership is fenced by *)
(* the item's revision and a claim generation.                             *)
(*                                                                         *)
(* Every store operation is one storage transaction, and all but the       *)
(* telemetry writes start with reclaimExpiredSync.  A publisher keeps what *)
(* it was told for ever: it may heartbeat or complete late, repeatedly,    *)
(* partially, after its batch expired, after the receipt was cleaned up    *)
(* and after the same workflow claimed the same batch id again.            *)
(*                                                                         *)
(* Absolute times are kept as the time that remains until them.  The       *)
(* candidates of a claim are any items: the queue's selection only makes   *)
(* them fewer.                                                             *)
(***************************************************************************)
EXTENDS Integers, FiniteSets, Sequences

CONSTANTS
  Keys,            \* item keys
  Batches,         \* batch ids (claim ids)
  Owners,          \* lease owners
  None,            \* no owner
  MaxItems,        \* maxItems, the configured batch size
  MaxConcurrent,   \* maxConcurrentBatches
  LeaseSpans,      \* the lease times configured over time, in ticks
  RetentionTicks,  \* completedTtlMs
  MaxRevision,     \* bound: revisions of an item
  MaxGeneration    \* bound: claim generations of an item

ASSUME SizesAssumption == MaxItems \in Nat \ {0} /\ MaxConcurrent \in Nat \ {0}
ASSUME SpansAssumption == LeaseSpans \subseteq Nat \ {0} /\ RetentionTicks \in Nat
ASSUME BoundsAssumption == MaxRevision \in Nat \ {0} /\ MaxGeneration \in Nat
ASSUME NoneAssumption == None \notin Owners

VARIABLES
  batch,       \* batch id |-> row (st = "absent": no row)
  member,      \* batch id |-> item key |-> membership (out = "none": no row)
  generation,  \* key |-> last claim generation, 0: no row
  told,        \* grants a publisher was told of
  accepted     \* history: key |-> generations whose completion was accepted

vars == <<batch, member, generation, told, accepted>>

NoBatch == [st |-> "absent", owner |-> None, left |-> 0]
NoMember == [rev |-> 0, gen |-> 0, out |-> "none"]
\* A failed publication ends its membership as lease_expired.
Outcomes == {"published", "superseded", "lease_expired"}

GreatestOf(a, b) == IF a > b THEN a ELSE b

Open(ms, b) == {k \in Keys : ms[b][k].out = "open"}
Owned(ms) == {k \in Keys : \E b \in Batches : ms[b][k].out = "open"}

----------------------------------------------------------------------------
(* reclaimExpiredSync                                                      *)

Mut_ExpireOnlyUntouched(b) ==
  /\ batch[b].st = "leased" /\ batch[b].left = 0
  /\ \A k \in Keys : member[b][k].out \in {"none", "open"}

Expired(b) == batch[b].st = "leased" /\ batch[b].left = 0

ReclaimedBatch ==
  [b \in Batches |-> IF Expired(b)
                     THEN [batch[b] EXCEPT !.st = "expired", !.left = RetentionTicks]
                     ELSE batch[b]]

Mut_ExpireOnlyBatch == member

ReclaimedMember ==
  [b \in Batches |-> [k \in Keys |->
     IF Expired(b) /\ member[b][k].out = "open"
     THEN [member[b][k] EXCEPT !.out = "lease_expired"] ELSE member[b][k]]]

\* fetch, ownsActiveFence, activeLeaseSnapshot, observability: reads that
\* reclaim first.
Read ==
  /\ batch' = ReclaimedBatch /\ member' = ReclaimedMember
  /\ UNCHANGED <<generation, told, accepted>>

----------------------------------------------------------------------------
(* claim.  tried are the candidates the loop reaches before the batch is   *)
(* full; INSERT OR IGNORE skips those with an unfinished membership, after *)
(* their generation was raised.                                            *)

Leased(bs) == {b \in Batches : bs[b].st = "leased"}

Mut_GenerationFromReceipts(tried) ==
  [k \in Keys |->
     IF k \notin tried THEN generation[k]
     ELSE 1 + CHOOSE g \in 0 .. MaxGeneration :
                /\ \A b \in Batches : member[b][k].gen <= g
                /\ g = 0 \/ \E b \in Batches : member[b][k].gen = g]

Mut_GenerationNotRaised(tried) == generation

\* nextClaimGenerationSync
NextGeneration(tried) == [k \in Keys |-> IF k \in tried THEN generation[k] + 1 ELSE generation[k]]

Inserted(tried) == tried \ Owned(ReclaimedMember)

Grant(b, owner, tried, revs) ==
  [batch |-> b, owner |-> owner,
   fence |-> [k \in Inserted(tried) |-> [rev |-> revs[k], gen |-> NextGeneration(tried)[k]]]]

Claim(b, owner, tried, revs, span) ==
  /\ ReclaimedBatch[b].st = "absent"
  /\ Cardinality(Leased(ReclaimedBatch)) < MaxConcurrent
  /\ Cardinality(Inserted(tried)) <= MaxItems
  /\ \A k \in tried : NextGeneration(tried)[k] <= MaxGeneration
  /\ generation' = NextGeneration(tried)
  /\ \/ /\ Inserted(tried) = {}
        /\ batch' = ReclaimedBatch /\ member' = ReclaimedMember
        /\ UNCHANGED told
     \/ /\ Inserted(tried) # {}
        /\ batch' = [ReclaimedBatch EXCEPT ![b] =
                       [st |-> "leased", owner |-> owner, left |-> span]]
        /\ member' = [ReclaimedMember EXCEPT ![b] = [k \in Keys |->
             IF k \in Inserted(tried)
             THEN [rev |-> revs[k], gen |-> NextGeneration(tried)[k], out |-> "open"]
             ELSE NoMember]]
        /\ told' = told \cup {Grant(b, owner, tried, revs)}
  /\ UNCHANGED accepted

\* A claim of an id that has a row: an idempotent answer to its owner while it
\* is leased, else a refusal; and a claim when all batch slots are taken.
ClaimAnswered(b) ==
  /\ ReclaimedBatch[b].st # "absent" \/ Cardinality(Leased(ReclaimedBatch)) >= MaxConcurrent
  /\ Read

----------------------------------------------------------------------------
(* heartbeat and complete, with any part S of the fences a grant named.    *)

MatchesFence(w, k, ms) ==
  ms[w.batch][k].rev = w.fence[k].rev /\ ms[w.batch][k].gen = w.fence[k].gen

Holds(w) == ReclaimedBatch[w.batch].st = "leased" /\ ReclaimedBatch[w.batch].owner = w.owner

Heartbeat(w, S, span) ==
  /\ Holds(w)
  /\ \A k \in S : MatchesFence(w, k, ReclaimedMember)
  /\ Open(ReclaimedMember, w.batch) \subseteq S
  /\ batch' = [ReclaimedBatch EXCEPT ![w.batch].left = GreatestOf(@, span)]
  /\ member' = ReclaimedMember
  /\ UNCHANGED <<generation, told, accepted>>

Accepts(w, k) == ReclaimedMember[w.batch][k].out = "open" /\ MatchesFence(w, k, ReclaimedMember)

\* countUnfinishedItemsSync(batchId) = 0
AllFinished(b, ms) == Open(ms, b) = {}

\* Members whose fence matches and that are unfinished get their outcome; the
\* caller's onAccepted applies them to the queue in the same transaction.
Complete(w, S, outcome) ==
  LET acc == {k \in S : Accepts(w, k)}
      ms == [ReclaimedMember EXCEPT ![w.batch] =
               [k \in Keys |-> IF k \in acc THEN [@[k] EXCEPT !.out = outcome] ELSE @[k]]]
  IN /\ Holds(w)
     /\ member' = ms
     /\ batch' = IF AllFinished(w.batch, ms)
                 THEN [ReclaimedBatch EXCEPT ![w.batch].st = "completed",
                                             ![w.batch].left = RetentionTicks]
                 ELSE ReclaimedBatch
     /\ accepted' = [k \in Keys |-> IF k \in acc
                                    THEN Append(accepted[k], w.fence[k].gen) ELSE accepted[k]]
     /\ UNCHANGED <<generation, told>>

\* A late completion of a batch that is finished, expired, cleaned up or not
\* its own: an acknowledgement or a refusal, without effect.
CompleteLate(w) == ~Holds(w) /\ Read

----------------------------------------------------------------------------
\* stats: terminal batches past their retention are deleted.
Stats ==
  LET old == {b \in Batches : /\ ReclaimedBatch[b].st \in {"completed", "expired"}
                              /\ ReclaimedBatch[b].left = 0}
  IN /\ batch' = [b \in Batches |-> IF b \in old THEN NoBatch ELSE ReclaimedBatch[b]]
     /\ member' = [b \in Batches |-> IF b \in old THEN [k \in Keys |-> NoMember]
                                     ELSE ReclaimedMember[b]]
     /\ UNCHANGED <<generation, told, accepted>>

Remaining(n) == IF n = 0 THEN 0 ELSE n - 1

Tick ==
  /\ batch' = [b \in Batches |-> [batch[b] EXCEPT !.left = Remaining(@)]]
  /\ UNCHANGED <<member, generation, told, accepted>>

Init ==
  /\ batch = [b \in Batches |-> NoBatch]
  /\ member = [b \in Batches |-> [k \in Keys |-> NoMember]]
  /\ generation = [k \in Keys |-> 0]
  /\ told = {}
  /\ accepted = [k \in Keys |-> <<>>]

Publisher(w) ==
  \/ \E S \in SUBSET DOMAIN w.fence :
       \/ \E span \in LeaseSpans : Heartbeat(w, S, span)
       \/ \E outcome \in Outcomes : Complete(w, S, outcome)
  \/ CompleteLate(w)

Next ==
  \/ \E b \in Batches, owner \in Owners, tried \in SUBSET Keys, span \in LeaseSpans :
       \E revs \in [tried -> 1 .. MaxRevision] : Claim(b, owner, tried, revs, span)
  \/ \E b \in Batches : ClaimAnswered(b)
  \/ \E w \in told : Publisher(w)
  \/ Read
  \/ Stats
  \/ Tick

Spec == Init /\ [][Next]_vars

\* Time passes, and the queue's alarm, set to the next lease expiry, reads the
\* store.
FairSpec == Spec /\ WF_vars(Tick) /\ WF_vars(Read)

----------------------------------------------------------------------------
(* Properties.                                                             *)

Fences == [rev : Nat, gen : Nat]

\* Every table of the store and every publisher's memory has its type, and an
\* unfinished membership has a generation that was issued for its item.
TypeOK ==
  /\ batch \in [Batches -> [st : {"absent", "leased", "completed", "expired"},
                            owner : Owners \cup {None}, left : Nat]]
  /\ member \in [Batches -> [Keys -> [rev : Nat, gen : Nat,
                 out : {"none", "open", "lease_expired"} \cup Outcomes]]]
  /\ generation \in [Keys -> Nat]
  /\ \A w \in told : /\ w.batch \in Batches /\ w.owner \in Owners
                     /\ DOMAIN w.fence \subseteq Keys
                     /\ w.fence \in [DOMAIN w.fence -> Fences]
  /\ accepted \in [Keys -> Seq(Nat)]
  /\ \A b \in Batches : \A k \in Open(member, b) : member[b][k].gen \in 1 .. generation[k]

\* Nothing keeps an item or a batch slot without a lease that will run out: an
\* unfinished membership belongs to one batch only, that batch is leased, and a
\* leased batch has unfinished members (claim, complete, reclaimExpiredSync).
OwnershipIsLeased ==
  /\ \A b, c \in Batches : \A k \in Keys :
       member[b][k].out = "open" /\ member[c][k].out = "open" => b = c
  /\ \A b \in Batches : Open(member, b) # {} <=> batch[b].st = "leased"

HolderOf(k) ==
  IF \E b \in Batches : member[b][k].out = "open"
  THEN member[CHOOSE b \in Batches : member[b][k].out = "open"][k].gen
  ELSE 0

Ownership == INSTANCE FencedOwnership WITH
               holder <- [k \in Keys |-> HolderOf(k)], issued <- generation

\* A completion is applied to the queue only for the membership that owns the
\* item at that moment, once, and never after a newer claim of the item; a claim
\* generation is never issued twice, so "delayed completions can never match a
\* later lease after an ID is reused", through expiry, cleanup and reuse.
ImplementsOwnership == Ownership!Spec

IsHeartbeat == \E w \in told : \E S \in SUBSET DOMAIN w.fence, span \in LeaseSpans : Heartbeat(w, S, span)

\* An item whose publisher stops renewing is given back, whatever its batch
\* completed before and whichever other batches come and go.
MembershipEnds ==
  <>[][~IsHeartbeat]_vars =>
    \A b \in Batches : \A k \in Keys :
      member[b][k].out = "open" ~> member[b][k].out # "open"
=============================================================================

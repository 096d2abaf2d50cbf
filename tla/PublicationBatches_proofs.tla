---------------------- MODULE PublicationBatches_proofs ----------------------
(***************************************************************************)
(* Proofs about the publication batch store, for any number of keys,       *)
(* batches, owners, spans and bounds: it keeps its types, every unfinished *)
(* membership is under a lease, and it implements FencedOwnership.         *)
(***************************************************************************)
EXTENDS PublicationBatches, TLAPS

BatchRows == [st : {"absent", "leased", "completed", "expired"},
              owner : Owners \cup {None}, left : Nat]
MemberRows == [rev : Nat, gen : Nat, out : {"none", "open", "lease_expired"} \cup Outcomes]

\* The three tables agree.  The last part makes the ownership inductive: an open
\* membership has a generation that was issued, so the next one is new.
StoreOK(bs, ms, gs) ==
  /\ bs \in [Batches -> BatchRows]
  /\ ms \in [Batches -> [Keys -> MemberRows]]
  /\ gs \in [Keys -> Nat]
  /\ \A b, c \in Batches : \A k \in Keys :
       ms[b][k].out = "open" /\ ms[c][k].out = "open" => b = c
  /\ \A b \in Batches : (\E k \in Keys : ms[b][k].out = "open") <=> bs[b].st = "leased"
  /\ \A b \in Batches : \A k \in Keys :
       ms[b][k].out = "open" => ms[b][k].gen > 0 /\ ms[b][k].gen <= gs[k]

ToldOK == \A w \in told : /\ w.batch \in Batches /\ w.owner \in Owners
                          /\ DOMAIN w.fence \subseteq Keys
                          /\ w.fence \in [DOMAIN w.fence -> Fences]

StoreInv == /\ StoreOK(batch, member, generation)
            /\ ToldOK
            /\ accepted \in [Keys -> Seq(Nat)]

----------------------------------------------------------------------------
\* The inductive invariant gives the two invariants that the runs check.
LEMMA StoreInvImplies == StoreInv => TypeOK /\ OwnershipIsLeased
<1> SUFFICES ASSUME StoreInv PROVE TypeOK /\ OwnershipIsLeased
  OBVIOUS
<1>1. \A b \in Batches : \A k \in Open(member, b) : member[b][k].gen \in 1 .. generation[k]
  BY DEF StoreInv, StoreOK, MemberRows, Open
<1>4. TypeOK
  BY <1>1 DEF StoreInv, StoreOK, ToldOK, TypeOK, BatchRows, MemberRows
<1>2. \A b \in Batches : Open(member, b) # {} <=> \E k \in Keys : member[b][k].out = "open"
  BY DEF Open
<1>3. OwnershipIsLeased
  BY <1>2 DEF StoreInv, StoreOK, OwnershipIsLeased
<1> QED
  BY <1>3, <1>4

\* reclaimExpiredSync keeps the tables in agreement, and only closes memberships.
LEMMA ReclaimOK ==
  ASSUME StoreOK(batch, member, generation)
  PROVE  /\ StoreOK(ReclaimedBatch, ReclaimedMember, generation)
         /\ \A b \in Batches : \A k \in Keys :
              ReclaimedMember[b][k].out = "open" => ReclaimedMember[b][k] = member[b][k]
<1>1. ReclaimedBatch \in [Batches -> BatchRows]
  BY SpansAssumption DEF StoreOK, ReclaimedBatch, BatchRows
<1>2. ReclaimedMember \in [Batches -> [Keys -> MemberRows]]
  BY DEF StoreOK, ReclaimedMember, MemberRows
<1>3. \A b \in Batches : \A k \in Keys :
        ReclaimedMember[b][k].out = "open" <=> member[b][k].out = "open" /\ ~Expired(b)
  BY DEF StoreOK, ReclaimedMember, MemberRows
<1>4. \A b \in Batches : \A k \in Keys :
        ReclaimedMember[b][k].out = "open" => ReclaimedMember[b][k] = member[b][k]
  BY DEF StoreOK, ReclaimedMember, MemberRows
<1>5. \A b \in Batches : ReclaimedBatch[b].st = "leased" <=> batch[b].st = "leased" /\ ~Expired(b)
  BY DEF StoreOK, ReclaimedBatch, BatchRows, Expired
<1>6. \A b \in Batches : (\E k \in Keys : ReclaimedMember[b][k].out = "open")
                           <=> ReclaimedBatch[b].st = "leased"
  BY <1>3, <1>5 DEF StoreOK
<1>7. \A b, c \in Batches : \A k \in Keys :
        ReclaimedMember[b][k].out = "open" /\ ReclaimedMember[c][k].out = "open" => b = c
  BY <1>3 DEF StoreOK
<1>8. \A b \in Batches : \A k \in Keys :
        ReclaimedMember[b][k].out = "open"
          => ReclaimedMember[b][k].gen > 0 /\ ReclaimedMember[b][k].gen <= generation[k]
  BY <1>4, <1>3 DEF StoreOK
<1> QED
  BY <1>1, <1>2, <1>4, <1>6, <1>7, <1>8 DEF StoreOK

----------------------------------------------------------------------------
(* The initial state and each action keep the invariant.                   *)

LEMMA InitStoreInv == Init => StoreInv
<1> SUFFICES ASSUME Init PROVE StoreInv
  OBVIOUS
<1>1. StoreOK(batch, member, generation)
  BY DEF Init, StoreOK, NoBatch, NoMember, BatchRows, MemberRows, Outcomes
<1>2. ToldOK /\ accepted \in [Keys -> Seq(Nat)]
  BY DEF Init, ToldOK
<1> QED
  BY <1>1, <1>2 DEF StoreInv

LEMMA ReadStep == StoreInv /\ Read => StoreInv'
  BY ReclaimOK DEF StoreInv, Read, ToldOK

LEMMA ClaimStep ==
  ASSUME StoreInv,
         NEW b \in Batches, NEW owner \in Owners, NEW tried \in SUBSET Keys,
         NEW revs \in [tried -> 1 .. MaxRevision], NEW span \in LeaseSpans,
         Claim(b, owner, tried, revs, span)
  PROVE  StoreInv'
<1> DEFINE rb == ReclaimedBatch
           rm == ReclaimedMember
           new == Inserted(tried)
           gs == NextGeneration(tried)
<1>0. StoreOK(rb, rm, generation)
  BY ReclaimOK DEF StoreInv
<1>1. gs \in [Keys -> Nat] /\ \A k \in Keys : gs[k] >= generation[k]
  BY <1>0 DEF NextGeneration, StoreOK
<1>2. new \subseteq tried /\ new \subseteq Keys
  BY DEF Inserted
<1>3. \A k \in new : \A c \in Batches : rm[c][k].out # "open"
  BY <1>2 DEF Inserted, Owned
<1>4. \A k \in new : gs[k] = generation[k] + 1 /\ gs[k] > 0 /\ revs[k] \in Nat
  BY <1>0, <1>2, BoundsAssumption DEF NextGeneration, StoreOK
<1>5. rb[b].st = "absent" /\ generation' = gs /\ accepted' = accepted
  BY DEF Claim
<1>6. CASE new = {}
  <2>1. batch' = rb /\ member' = rm /\ told' = told
    BY <1>6 DEF Claim
  <2>2. StoreOK(rb, rm, gs)
    BY <1>0, <1>1 DEF StoreOK, MemberRows
  <2> QED
    BY <2>1, <2>2, <1>5 DEF StoreInv, ToldOK
<1>7. CASE new # {}
  <2> DEFINE row == [st |-> "leased", owner |-> owner, left |-> span]
             ms == [k \in Keys |-> IF k \in new
                                   THEN [rev |-> revs[k], gen |-> gs[k], out |-> "open"]
                                   ELSE NoMember]
  <2>1. /\ batch' = [rb EXCEPT ![b] = row]
        /\ member' = [rm EXCEPT ![b] = ms]
        /\ told' = told \cup {Grant(b, owner, tried, revs)}
    BY <1>7 DEF Claim
  <2>2. row \in BatchRows
    BY SpansAssumption DEF BatchRows
  <2>3. ms \in [Keys -> MemberRows]
    BY <1>1, <1>4 DEF MemberRows, NoMember
  <2>4. batch' \in [Batches -> BatchRows] /\ member' \in [Batches -> [Keys -> MemberRows]]
    BY <1>0, <2>1, <2>2, <2>3 DEF StoreOK
  <2>5. \A k \in Keys : ms[k].out = "open" <=> k \in new
    BY DEF NoMember
  <2>6. /\ member'[b] = ms /\ batch'[b].st = "leased"
        /\ \A c \in Batches \ {b} : member'[c] = rm[c] /\ batch'[c] = rb[c]
    BY <1>0, <2>1 DEF StoreOK
  <2> HIDE DEF ms, row, gs, new, rb, rm
  <2>7. \A c, d \in Batches : \A k \in Keys :
          member'[c][k].out = "open" /\ member'[d][k].out = "open" => c = d
    BY <1>0, <1>3, <2>5, <2>6 DEF StoreOK
  <2>8. \A c \in Batches : (\E k \in Keys : member'[c][k].out = "open") <=> batch'[c].st = "leased"
    BY <1>0, <1>2, <1>7, <2>5, <2>6 DEF StoreOK
  <2>9. \A k \in new : ms[k].gen = gs[k]
    BY <1>2 DEF ms
  <2>10. \A c \in Batches : \A k \in Keys :
          member'[c][k].out = "open" => member'[c][k].gen > 0 /\ member'[c][k].gen <= gs[k]
    <3> SUFFICES ASSUME NEW c \in Batches, NEW k \in Keys, member'[c][k].out = "open"
                 PROVE  member'[c][k].gen > 0 /\ member'[c][k].gen <= gs[k]
      OBVIOUS
    <3>1. CASE c = b
      <4>1. k \in new
        BY <3>1, <2>5, <2>6
      <4> QED
        BY <3>1, <4>1, <1>1, <1>4, <2>6, <2>9
    <3>2. CASE c # b
      <4>1. rm[c][k].gen > 0 /\ rm[c][k].gen <= generation[k] /\ rm[c][k].gen \in Nat
        BY <3>2, <2>6, <1>0 DEF StoreOK, MemberRows
      <4>2. gs[k] >= generation[k] /\ gs[k] \in Nat /\ generation[k] \in Nat
        BY <1>0, <1>1 DEF StoreOK
      <4> QED
        BY <3>2, <4>1, <4>2, <2>6
    <3> QED
      BY <3>1, <3>2
  <2>11. StoreOK(batch', member', generation')
    BY <1>1, <1>5, <2>4, <2>7, <2>8, <2>10 DEF StoreOK
  <2>12. ToldOK'
    <3> DEFINE g == Grant(b, owner, tried, revs)
    <3>1. g.batch = b /\ g.owner = owner /\ DOMAIN g.fence = new
      BY DEF Grant, new
    <3>2. g.fence \in [new -> Fences]
      BY <1>1, <1>2, <1>4 DEF Grant, Fences, new, gs
    <3> HIDE DEF g
    <3> QED
      BY <3>1, <3>2, <1>2, <2>1 DEF ToldOK, StoreInv, g
  <2> QED
    BY <2>11, <2>12, <1>5 DEF StoreInv
<1> QED
  BY <1>6, <1>7

LEMMA HeartbeatStep ==
  ASSUME StoreInv, NEW w \in told, NEW S \in SUBSET DOMAIN w.fence, NEW span \in LeaseSpans,
         Heartbeat(w, S, span)
  PROVE  StoreInv'
<1> DEFINE rb == ReclaimedBatch
           rm == ReclaimedMember
<1>0. StoreOK(rb, rm, generation)
  BY ReclaimOK DEF StoreInv
<1>1. w.batch \in Batches
  BY DEF StoreInv, ToldOK
<1>2. batch' = [rb EXCEPT ![w.batch].left = GreatestOf(@, span)] /\ member' = rm
  BY DEF Heartbeat
<1>3. batch' \in [Batches -> BatchRows] /\ \A b \in Batches : batch'[b].st = rb[b].st
  <2>1. rb[w.batch] \in BatchRows /\ span \in Nat
    BY <1>0, <1>1, SpansAssumption DEF StoreOK
  <2>2. GreatestOf(rb[w.batch].left, span) \in Nat
    BY <2>1 DEF BatchRows, GreatestOf
  <2>3. [rb[w.batch] EXCEPT !.left = GreatestOf(@, span)] \in BatchRows
    BY <2>1, <2>2 DEF BatchRows
  <2>4. batch' = [rb EXCEPT ![w.batch] = [rb[w.batch] EXCEPT !.left = GreatestOf(@, span)]]
    BY <1>2
  <2> HIDE DEF rb
  <2> QED
    BY <1>0, <1>1, <2>1, <2>3, <2>4 DEF StoreOK, BatchRows
<1>4. StoreOK(batch', member', generation)
  BY <1>0, <1>2, <1>3 DEF StoreOK
<1> QED
  BY <1>4 DEF StoreInv, ToldOK, Heartbeat

LEMMA CompleteStep ==
  ASSUME StoreInv, NEW w \in told, NEW S \in SUBSET DOMAIN w.fence, NEW outcome \in Outcomes,
         Complete(w, S, outcome)
  PROVE  StoreInv'
<1> DEFINE rb == ReclaimedBatch
           rm == ReclaimedMember
           acc == {k \in S : Accepts(w, k)}
           fin == [k \in Keys |-> IF k \in acc THEN [rm[w.batch][k] EXCEPT !.out = outcome]
                                  ELSE rm[w.batch][k]]
           ms == [rm EXCEPT ![w.batch] = fin]
<1>0. StoreOK(rb, rm, generation)
  BY ReclaimOK DEF StoreInv
<1>1. w.batch \in Batches /\ S \subseteq Keys /\ w.fence \in [DOMAIN w.fence -> Fences]
  BY DEF StoreInv, ToldOK
<1>2. /\ member' = ms
      /\ batch' = IF AllFinished(w.batch, ms)
                  THEN [rb EXCEPT ![w.batch].st = "completed", ![w.batch].left = RetentionTicks]
                  ELSE rb
      /\ rb[w.batch].st = "leased"
      /\ generation' = generation /\ told' = told
      /\ accepted' = [k \in Keys |-> IF k \in acc
                                     THEN Append(accepted[k], w.fence[k].gen) ELSE accepted[k]]
  BY <1>0, <1>1 DEF Complete, Holds, StoreOK
<1>3. fin \in [Keys -> MemberRows]
  <2>1. \A k \in Keys : rm[w.batch][k] \in MemberRows
    BY <1>0, <1>1 DEF StoreOK
  <2>2. \A k \in Keys : [rm[w.batch][k] EXCEPT !.out = outcome] \in MemberRows
    BY <2>1 DEF MemberRows
  <2> QED
    BY <2>1, <2>2
<1>4. ms \in [Batches -> [Keys -> MemberRows]]
  BY <1>0, <1>1, <1>3 DEF StoreOK
<1>5. /\ ms[w.batch] = fin
      /\ \A b \in Batches \ {w.batch} : ms[b] = rm[b]
  BY <1>0, <1>1 DEF StoreOK
<1>6. \A k \in Keys : fin[k].out = "open" => fin[k] = rm[w.batch][k]
  BY <1>0, <1>1 DEF StoreOK, MemberRows, Outcomes
<1>7. \A b \in Batches : \A k \in Keys : ms[b][k].out = "open" => ms[b][k] = rm[b][k]
  BY <1>5, <1>6
<1>8. batch' \in [Batches -> BatchRows]
  <2> DEFINE done == [rb EXCEPT ![w.batch].st = "completed", ![w.batch].left = RetentionTicks]
  <2>1. rb \in [Batches -> BatchRows]
    BY <1>0 DEF StoreOK
  <2> HIDE DEF rb, ms
  <2>2. \A b \in Batches : done[b] \in BatchRows
    BY <2>1, SpansAssumption DEF BatchRows
  <2>3. done \in [Batches -> BatchRows]
    BY <2>1, <2>2
  <2>4. batch' = done \/ batch' = rb
    BY <1>2
  <2> QED
    BY <2>1, <2>3, <2>4
<1>9. accepted' \in [Keys -> Seq(Nat)]
  <2>1. \A k \in acc : k \in Keys /\ w.fence[k].gen \in Nat
    BY <1>1 DEF Fences
  <2>2. \A k \in acc : Append(accepted[k], w.fence[k].gen) \in Seq(Nat)
    BY <2>1 DEF StoreInv
  <2> QED
    BY <1>2, <2>2 DEF StoreInv
<1> HIDE DEF ms, fin, acc
<1>10. \A b \in Batches : (\E k \in Keys : ms[b][k].out = "open") <=> batch'[b].st = "leased"
  <2> SUFFICES ASSUME NEW b \in Batches
               PROVE  (\E k \in Keys : ms[b][k].out = "open") <=> batch'[b].st = "leased"
    OBVIOUS
  <2>1. CASE b # w.batch
    <3>1. batch'[b] = rb[b] /\ ms[b] = rm[b]
      BY <2>1, <1>0, <1>1, <1>2, <1>5 DEF StoreOK
    <3> QED
      BY <3>1, <1>0 DEF StoreOK
  <2>2. CASE b = w.batch /\ AllFinished(b, ms)
    <3>1. batch'[b].st = "completed"
      BY <2>2, <1>0, <1>1, <1>2 DEF StoreOK, BatchRows
    <3> QED
      BY <2>2, <3>1 DEF AllFinished, Open
  <2>3. CASE b = w.batch /\ ~AllFinished(b, ms)
    BY <2>3, <1>2 DEF AllFinished, Open
  <2> QED
    BY <2>1, <2>2, <2>3
<1>11. StoreOK(batch', ms, generation)
  BY <1>0, <1>4, <1>7, <1>8, <1>10 DEF StoreOK
<1> QED
  BY <1>2, <1>9, <1>11 DEF StoreInv, ToldOK

LEMMA StatsStep == StoreInv /\ Stats => StoreInv'
<1> SUFFICES ASSUME StoreInv, Stats PROVE StoreInv'
  OBVIOUS
<1> DEFINE rb == ReclaimedBatch
           rm == ReclaimedMember
           old == {b \in Batches : rb[b].st \in {"completed", "expired"} /\ rb[b].left = 0}
<1>0. StoreOK(rb, rm, generation)
  BY ReclaimOK DEF StoreInv
<1>1. /\ batch' = [b \in Batches |-> IF b \in old THEN NoBatch ELSE rb[b]]
      /\ member' = [b \in Batches |-> IF b \in old THEN [k \in Keys |-> NoMember] ELSE rm[b]]
  BY DEF Stats
<1>2. batch' \in [Batches -> BatchRows] /\ member' \in [Batches -> [Keys -> MemberRows]]
  BY <1>0, <1>1 DEF StoreOK, NoBatch, NoMember, BatchRows, MemberRows
<1>3. \A b \in Batches : batch'[b].st = "leased" <=> rb[b].st = "leased"
  BY <1>0, <1>1 DEF StoreOK, NoBatch, BatchRows
<1>4. \A b \in Batches : \A k \in Keys :
        /\ member'[b][k].out = "open" => member'[b][k] = rm[b][k]
        /\ rm[b][k].out = "open" => member'[b][k] = rm[b][k]
  BY <1>0, <1>1 DEF StoreOK, NoMember, BatchRows
<1>5. StoreOK(batch', member', generation)
  BY <1>0, <1>2, <1>3, <1>4 DEF StoreOK
<1> QED
  BY <1>5 DEF StoreInv, ToldOK, Stats

LEMMA TickStep == StoreInv /\ Tick => StoreInv'
<1> SUFFICES ASSUME StoreInv, Tick PROVE StoreInv'
  OBVIOUS
<1>1. batch' \in [Batches -> BatchRows] /\ \A b \in Batches : batch'[b].st = batch[b].st
  <2>1. \A n \in Nat : Remaining(n) \in Nat
    BY DEF Remaining
  <2>2. \A b \in Batches : [batch[b] EXCEPT !.left = Remaining(@)] \in BatchRows
    BY <2>1 DEF StoreInv, StoreOK, BatchRows
  <2> QED
    BY <2>2 DEF Tick, StoreInv, StoreOK, BatchRows
<1>2. StoreOK(batch', member, generation)
  BY <1>1 DEF StoreInv, StoreOK
<1> QED
  BY <1>2 DEF StoreInv, ToldOK, Tick

LEMMA NextStoreInv == StoreInv /\ [Next]_vars => StoreInv'
<1> SUFFICES ASSUME StoreInv, [Next]_vars PROVE StoreInv'
  OBVIOUS
<1>1. ASSUME NEW b \in Batches, NEW owner \in Owners, NEW tried \in SUBSET Keys,
             NEW span \in LeaseSpans, NEW revs \in [tried -> 1 .. MaxRevision],
             Claim(b, owner, tried, revs, span)
      PROVE  StoreInv'
  BY <1>1, ClaimStep
<1>2. ASSUME NEW b \in Batches, ClaimAnswered(b) PROVE StoreInv'
  BY <1>2, ReadStep DEF ClaimAnswered
<1>3. ASSUME NEW w \in told, Publisher(w) PROVE StoreInv'
  <2>1. ASSUME NEW S \in SUBSET DOMAIN w.fence, NEW span \in LeaseSpans, Heartbeat(w, S, span)
        PROVE  StoreInv'
    BY <2>1, HeartbeatStep
  <2>2. ASSUME NEW S \in SUBSET DOMAIN w.fence, NEW outcome \in Outcomes, Complete(w, S, outcome)
        PROVE  StoreInv'
    BY <2>2, CompleteStep
  <2>3. CASE CompleteLate(w)
    BY <2>3, ReadStep DEF CompleteLate
  <2> QED
    BY <1>3, <2>1, <2>2, <2>3 DEF Publisher
<1>4. CASE UNCHANGED vars
  BY <1>4 DEF vars, StoreInv, ToldOK
<1> QED
  BY <1>1, <1>2, <1>3, <1>4, ReadStep, StatsStep, TickStep DEF Next

\* The inductive invariant holds in every behaviour of the store.
THEOREM SpecStoreInv == Spec => []StoreInv
  BY InitStoreInv, NextStoreInv, PTL DEF Spec

\* Types of the store's tables, for all sizes of it.
THEOREM SpecStoreTypeOK == Spec => []TypeOK
  BY SpecStoreInv, StoreInvImplies, PTL

\* No unfinished membership without a lease, no lease without an unfinished
\* membership, and never two owners of an item.
THEOREM SpecOwnershipIsLeased == Spec => []OwnershipIsLeased
  BY SpecStoreInv, StoreInvImplies, PTL
----------------------------------------------------------------------------
(* The refinement.  HolderIn(ms, k) is the refinement mapping's holder[k]  *)
(* for the membership table ms.                                            *)

HolderIn(ms, k) ==
  IF \E b \in Batches : ms[b][k].out = "open"
  THEN ms[CHOOSE b \in Batches : ms[b][k].out = "open"][k].gen
  ELSE 0

LEMMA HolderIsOpen ==
  ASSUME NEW bs, NEW ms, NEW gs, StoreOK(bs, ms, gs), NEW k \in Keys,
         NEW b \in Batches, ms[b][k].out = "open"
  PROVE  HolderIn(ms, k) = ms[b][k].gen
  BY DEF HolderIn, StoreOK

LEMMA NoHolder ==
  ASSUME NEW ms, NEW k \in Keys, \A b \in Batches : ms[b][k].out # "open"
  PROVE  HolderIn(ms, k) = 0
  BY DEF HolderIn

\* A table whose open memberships were open in member, unchanged, gives a key the
\* holder it had or none.
LEMMA HolderKeptOrLapsed ==
  ASSUME StoreInv, NEW bs, NEW ms, NEW gs, StoreOK(bs, ms, gs), NEW k \in Keys,
         \A b \in Batches : ms[b][k].out = "open" => ms[b][k] = member[b][k]
  PROVE  HolderIn(ms, k) = HolderOf(k) \/ HolderIn(ms, k) = 0
<1>0. HolderOf(k) = HolderIn(member, k)
  BY DEF HolderOf, HolderIn
<1>1. CASE \A b \in Batches : ms[b][k].out # "open"
  BY <1>1, NoHolder
<1>2. ASSUME NEW b \in Batches, ms[b][k].out = "open"
      PROVE  HolderIn(ms, k) = HolderOf(k)
  <2>1. HolderIn(ms, k) = ms[b][k].gen
    BY <1>2, HolderIsOpen
  <2>2. HolderIn(member, k) = member[b][k].gen
    BY <1>2, HolderIsOpen DEF StoreInv
  <2> QED
    BY <1>0, <1>2, <2>1, <2>2
<1> QED
  BY <1>1, <1>2

\* What a step does to one key, in terms of the abstract specification.
AbstractStep(k) ==
  /\ generation'[k] >= generation[k]
  /\ \/ HolderIn(member', k) = HolderOf(k) /\ accepted'[k] = accepted[k]
     \/ /\ HolderIn(member', k) > generation[k] /\ generation'[k] = HolderIn(member', k)
        /\ accepted'[k] = accepted[k]
     \/ HolderIn(member', k) = 0 /\ accepted'[k] = accepted[k]
     \/ /\ HolderOf(k) # 0 /\ HolderIn(member', k) = 0
        /\ accepted'[k] = Append(accepted[k], HolderOf(k))

\* Steps that only close memberships and accept nothing.
LEMMA ClosingStep ==
  ASSUME StoreInv, StoreInv', generation' = generation, accepted' = accepted,
         \A b \in Batches : \A k \in Keys :
           member'[b][k].out = "open" => member'[b][k] = member[b][k]
  PROVE  \A k \in Keys : AbstractStep(k)
<1> SUFFICES ASSUME NEW k \in Keys PROVE AbstractStep(k)
  OBVIOUS
<1>1. StoreOK(batch', member', generation')
  BY DEF StoreInv
<1>2. HolderIn(member', k) = HolderOf(k) \/ HolderIn(member', k) = 0
  BY <1>1, HolderKeptOrLapsed
<1>3. generation[k] \in Nat
  BY DEF StoreInv, StoreOK
<1> QED
  BY <1>2, <1>3 DEF AbstractStep

LEMMA ReadAbstract == StoreInv /\ StoreInv' /\ Read => \A k \in Keys : AbstractStep(k)
  BY ReclaimOK, ClosingStep DEF StoreInv, Read

LEMMA StatsAbstract == StoreInv /\ StoreInv' /\ Stats => \A k \in Keys : AbstractStep(k)
<1> SUFFICES ASSUME StoreInv, StoreInv', Stats PROVE \A k \in Keys : AbstractStep(k)
  OBVIOUS
<1>1. \A b \in Batches : \A k \in Keys :
        member'[b][k].out = "open" => member'[b][k] = ReclaimedMember[b][k]
  BY DEF Stats, NoMember
<1>2. \A b \in Batches : \A k \in Keys :
        member'[b][k].out = "open" => member'[b][k] = member[b][k]
  BY <1>1, ReclaimOK DEF StoreInv
<1> QED
  BY <1>2, ClosingStep DEF Stats

LEMMA ClaimAbstract ==
  ASSUME StoreInv, StoreInv',
         NEW b \in Batches, NEW owner \in Owners, NEW tried \in SUBSET Keys,
         NEW revs \in [tried -> 1 .. MaxRevision], NEW span \in LeaseSpans,
         Claim(b, owner, tried, revs, span)
  PROVE  \A k \in Keys : AbstractStep(k)
<1> SUFFICES ASSUME NEW k \in Keys PROVE AbstractStep(k)
  OBVIOUS
<1> DEFINE rm == ReclaimedMember
           new == Inserted(tried)
           gs == NextGeneration(tried)
<1>0. StoreOK(ReclaimedBatch, rm, generation)
  BY ReclaimOK DEF StoreInv
<1>1. generation' = gs /\ accepted' = accepted
  BY DEF Claim
<1>2. generation[k] \in Nat /\ generation'[k] \in Nat /\ generation'[k] >= generation[k]
  BY <1>0, <1>1 DEF NextGeneration, StoreOK
<1>3. StoreOK(batch', member', generation')
  BY DEF StoreInv
<1>4. CASE k \in new
  <2>1. new # {}
    BY <1>4
  <2>2. member' = [rm EXCEPT ![b] = [j \in Keys |->
                     IF j \in new THEN [rev |-> revs[j], gen |-> gs[j], out |-> "open"]
                     ELSE NoMember]]
    BY <2>1 DEF Claim
  <2>3. member'[b][k].out = "open" /\ member'[b][k].gen = gs[k]
    BY <1>0, <1>4, <2>2 DEF StoreOK
  <2>4. HolderIn(member', k) = gs[k]
    BY <1>3, <2>3, HolderIsOpen
  <2>5. gs[k] = generation[k] + 1
    BY <1>4 DEF NextGeneration, Inserted
  <2> QED
    BY <1>1, <1>2, <2>4, <2>5 DEF AbstractStep
<1>5. CASE k \notin new
  <2>1. \A c \in Batches : member'[c][k].out = "open" => member'[c][k] = rm[c][k]
    <3>1. CASE new = {}
      BY <3>1 DEF Claim
    <3>2. CASE new # {}
      <4>1. member' = [rm EXCEPT ![b] = [j \in Keys |->
                     IF j \in new THEN [rev |-> revs[j], gen |-> gs[j], out |-> "open"]
                     ELSE NoMember]]
        BY <3>2 DEF Claim
      <4> QED
        BY <1>0, <1>5, <4>1 DEF StoreOK, NoMember
    <3> QED
      BY <3>1, <3>2
  <2>2. \A c \in Batches : member'[c][k].out = "open" => member'[c][k] = member[c][k]
    BY <2>1, ReclaimOK DEF StoreInv
  <2>3. HolderIn(member', k) = HolderOf(k) \/ HolderIn(member', k) = 0
    BY <1>3, <2>2, HolderKeptOrLapsed
  <2> QED
    BY <1>1, <1>2, <2>3 DEF AbstractStep
<1> QED
  BY <1>4, <1>5

LEMMA CompleteAbstract ==
  ASSUME StoreInv, StoreInv', NEW w \in told, NEW S \in SUBSET DOMAIN w.fence,
         NEW outcome \in Outcomes, Complete(w, S, outcome)
  PROVE  \A k \in Keys : AbstractStep(k)
<1> SUFFICES ASSUME NEW k \in Keys PROVE AbstractStep(k)
  OBVIOUS
<1> DEFINE rm == ReclaimedMember
           acc == {j \in S : Accepts(w, j)}
           fin == [j \in Keys |-> IF j \in acc THEN [rm[w.batch][j] EXCEPT !.out = outcome]
                                  ELSE rm[w.batch][j]]
<1>0. StoreOK(ReclaimedBatch, rm, generation) /\ StoreOK(batch, member, generation)
  BY ReclaimOK DEF StoreInv
<1>1. w.batch \in Batches /\ S \subseteq Keys
  BY DEF StoreInv, ToldOK
<1>2. /\ member' = [rm EXCEPT ![w.batch] = fin]
      /\ generation' = generation
      /\ accepted' = [j \in Keys |-> IF j \in acc
                                     THEN Append(accepted[j], w.fence[j].gen) ELSE accepted[j]]
  BY <1>0, <1>1 DEF Complete, StoreOK
<1>3. \A b \in Batches : member'[b] = IF b = w.batch THEN fin ELSE rm[b]
  BY <1>0, <1>1, <1>2 DEF StoreOK
<1>4. StoreOK(batch', member', generation')
  BY DEF StoreInv
<1>5. generation[k] \in Nat
  BY <1>0 DEF StoreOK
<1>6. CASE k \in acc
  <2>1. rm[w.batch][k].out = "open" /\ rm[w.batch][k].gen = w.fence[k].gen
    BY <1>6 DEF Accepts, MatchesFence
  <2>2. member[w.batch][k] = rm[w.batch][k]
    BY <1>1, <2>1, ReclaimOK DEF StoreInv
  <2>3. HolderIn(member, k) = w.fence[k].gen /\ w.fence[k].gen # 0
    <3>1. HolderIn(member, k) = member[w.batch][k].gen
      BY <1>0, <1>1, <2>1, <2>2, HolderIsOpen
    <3>2. member[w.batch][k].gen > 0 /\ member[w.batch][k].gen \in Nat
      BY <1>0, <1>1, <2>1, <2>2 DEF StoreOK, MemberRows
    <3> QED
      BY <2>1, <2>2, <3>1, <3>2
  <2>4. \A b \in Batches : member'[b][k].out # "open"
    <3> SUFFICES ASSUME NEW b \in Batches PROVE member'[b][k].out # "open"
      OBVIOUS
    <3>1. CASE b = w.batch
      <4>1. member'[b][k] = [rm[w.batch][k] EXCEPT !.out = outcome]
        BY <3>1, <1>3, <1>6
      <4>2. rm[w.batch][k] \in MemberRows
        BY <1>0, <1>1 DEF StoreOK
      <4> QED
        BY <4>1, <4>2 DEF MemberRows, Outcomes
    <3>2. CASE b # w.batch
      <4>1. member'[b][k] = rm[b][k]
        BY <3>2, <1>3
      <4>2. rm[b][k].out = "open" => b = w.batch
        BY <1>0, <1>1, <2>1 DEF StoreOK
      <4> QED
        BY <3>2, <4>1, <4>2
    <3> QED
      BY <3>1, <3>2
  <2>5. HolderIn(member', k) = 0
    BY <2>4, NoHolder
  <2>6. HolderOf(k) = HolderIn(member, k)
    BY DEF HolderOf, HolderIn
  <2>7. accepted'[k] = Append(accepted[k], HolderOf(k))
    BY <1>2, <1>6, <2>3, <2>6
  <2> QED
    BY <1>2, <1>5, <2>3, <2>5, <2>6, <2>7 DEF AbstractStep
<1>7. CASE k \notin acc
  <2>1. \A b \in Batches : member'[b][k] = rm[b][k]
    <3>1. fin[k] = rm[w.batch][k]
      BY <1>7
    <3> HIDE DEF fin, rm
    <3> QED
      BY <1>3, <3>1
  <2>2. \A b \in Batches : member'[b][k].out = "open" => member'[b][k] = member[b][k]
    BY <2>1, ReclaimOK DEF StoreInv
  <2>3. HolderIn(member', k) = HolderOf(k) \/ HolderIn(member', k) = 0
    BY <1>4, <2>2, HolderKeptOrLapsed
  <2>4. accepted'[k] = accepted[k]
    BY <1>2, <1>7
  <2> QED
    BY <1>2, <1>5, <2>3, <2>4 DEF AbstractStep
<1> QED
  BY <1>6, <1>7

LEMMA NextAbstract == StoreInv /\ StoreInv' /\ Next => \A k \in Keys : AbstractStep(k)
<1> SUFFICES ASSUME StoreInv, StoreInv', Next PROVE \A k \in Keys : AbstractStep(k)
  OBVIOUS
<1>1. ASSUME NEW b \in Batches, NEW owner \in Owners, NEW tried \in SUBSET Keys,
             NEW span \in LeaseSpans, NEW revs \in [tried -> 1 .. MaxRevision],
             Claim(b, owner, tried, revs, span)
      PROVE  \A k \in Keys : AbstractStep(k)
  BY <1>1, ClaimAbstract
<1>2. ASSUME NEW b \in Batches, ClaimAnswered(b) PROVE \A k \in Keys : AbstractStep(k)
  BY <1>2, ReadAbstract DEF ClaimAnswered
<1>3. ASSUME NEW w \in told, Publisher(w) PROVE \A k \in Keys : AbstractStep(k)
  <2>1. ASSUME NEW S \in SUBSET DOMAIN w.fence, NEW span \in LeaseSpans, Heartbeat(w, S, span)
        PROVE  \A k \in Keys : AbstractStep(k)
    BY <2>1, ReclaimOK, ClosingStep DEF StoreInv, Heartbeat
  <2>2. ASSUME NEW S \in SUBSET DOMAIN w.fence, NEW outcome \in Outcomes, Complete(w, S, outcome)
        PROVE  \A k \in Keys : AbstractStep(k)
    BY <2>2, CompleteAbstract
  <2>3. CASE CompleteLate(w)
    BY <2>3, ReadAbstract DEF CompleteLate
  <2> QED
    BY <1>3, <2>1, <2>2, <2>3 DEF Publisher
<1>4. CASE Tick
  BY <1>4, ClosingStep DEF Tick
<1> QED
  BY <1>1, <1>2, <1>3, <1>4, ReadAbstract, StatsAbstract DEF Next

\* For every size of the store, completions are applied to the queue only for
\* the present owner of an item, in the order of the claim generations, which
\* are never issued twice.
THEOREM SpecImplementsOwnership == Spec => ImplementsOwnership
<1>1. Init => Ownership!Init
  <2> SUFFICES ASSUME Init PROVE Ownership!Init
    OBVIOUS
  <2>1. \A k \in Keys : HolderOf(k) = 0
    BY DEF Init, HolderOf, NoMember
  <2> QED
    BY <2>1 DEF Init, Ownership!Init
<1>2. StoreInv /\ StoreInv' /\ [Next]_vars => [Ownership!Next]_(Ownership!vars)
  <2> SUFFICES ASSUME StoreInv, StoreInv', [Next]_vars
               PROVE  [Ownership!Next]_(Ownership!vars)
    OBVIOUS
  <2>1. CASE Next
    <3>1. \A k \in Keys : AbstractStep(k)
      BY <2>1, NextAbstract
    <3>2. \A k \in Keys : HolderOf(k)' = HolderIn(member', k)
      BY DEF HolderOf, HolderIn
    <3> QED
      BY <3>1, <3>2 DEF AbstractStep, Ownership!Next, Ownership!Keep, Ownership!Own,
                        Ownership!Lapse, Ownership!Accept
  <2>2. CASE UNCHANGED vars
    <3>1. \A k \in Keys : HolderOf(k)' = HolderOf(k)
      BY <2>2 DEF vars, HolderOf
    <3> QED
      BY <2>2, <3>1 DEF vars, Ownership!vars
  <2> QED
    BY <2>1, <2>2
<1> QED
  BY <1>1, <1>2, SpecStoreInv, PTL DEF Spec, ImplementsOwnership, Ownership!Spec
=============================================================================

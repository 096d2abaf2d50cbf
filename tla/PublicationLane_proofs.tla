----------------------- MODULE PublicationLane_proofs -----------------------
(***************************************************************************)
(* Proofs about the publication lane, for every number of producers,       *)
(* lineages, batches and publishers and every limit (the run of this       *)
(* module bounds them and which of them overlap).                          *)
(*                                                                         *)
(* What a publisher fetched stays what its item holds because an item that *)
(* a batch owns is only changed together with its revision, or expires:    *)
(* deliveries, supersession and maintenance leave owned items alone, or    *)
(* raise their revision; an expired one that is delivered again starts     *)
(* with its own producer's decision, which is the oldest its key ever has. *)
(* That in turn rests on the numbers of the batch store: a new membership  *)
(* has a generation above every generation handed out before.              *)
(***************************************************************************)
EXTENDS PublicationLane, FiniteSetTheorems, WellFoundedInduction, TLAPS

ItemType == [st : {"absent", "pending", "parked"}, prod : Keys \cup {0},
             rev : 0..MaxRevision, fails : 0..FailureLimit, aged : BOOLEAN]
MemberType == [rev : Nat, gen : Nat,
               out : {"none", "open", "lease_expired", "published", "superseded"}]
FetchedType == [batch : Batches, key : Keys, gen : Nat, prod : Keys, rev : 1..MaxRevision]

\* An item that is in the queue.
GoodItem(it) ==
  /\ it \in ItemType
  /\ it.st # "absent" => it.prod \in Keys /\ it.rev > 0
  /\ it.st = "pending" => it.fails < FailureLimit

\* An item holds the decision of the producer that is its key, or a newer one of
\* its lineage.
KeyOK(k, it) == it.st # "absent" => it.prod >= k /\ Lineage[it.prod] = Lineage[k]

KeysOK == \A k \in Keys : KeyOK(k, item[k])

ItemsOK == item \in [Keys -> ItemType] /\ \A k \in Keys : GoodItem(item[k])

HeadOK == head \in Nat /\ \A k \in Keys : item[k].st # "absent" => SourceOf(item[k]) <= head

MembersOK ==
  /\ member \in [Batches -> [Keys -> MemberType]] /\ generation \in [Keys -> Nat]
  /\ \A b, c \in Batches : \A k \in Keys :
       member[b][k].out = "open" /\ member[c][k].out = "open" => b = c
  /\ \A b \in Batches : \A k \in Keys :
       member[b][k].out = "open" => member[b][k].gen <= generation[k]

ToldOK ==
  \A w \in told : /\ w.batch \in Batches /\ DOMAIN w.fence \subseteq Keys
                  /\ \A k \in DOMAIN w.fence : w.fence[k].rev \in Nat /\ w.fence[k].gen \in Nat

\* An item that a batch owns is pending, unless it expired.
OwnedPresent ==
  \A b \in Batches : \A k \in Keys :
    member[b][k].out = "open" => item[k].st \in {"absent", "pending"}

\* A decision that a publisher holds is the item's or a newer one, under an open
\* membership and until the item's revision moves on.
FetchOK(f) ==
  /\ f \in FetchedType /\ f.gen <= generation[f.key]
  /\ f.prod >= f.key /\ Lineage[f.prod] = Lineage[f.key]
  /\ LET m == member[f.batch][f.key]
     IN m.out = "open" /\ m.gen = f.gen
        => /\ m.rev = f.rev
           /\ item[f.key].st # "absent" /\ item[f.key].rev = m.rev => item[f.key].prod <= f.prod

FetchedOK == \A f \in fetched : FetchOK(f)

DeadOK ==
  /\ dead \subseteq [key : Keys, rev : Nat]
  /\ IsFiniteSet(dead) /\ Cardinality(dead) <= DeadLetterSlots

LaneInv ==
  /\ ItemsOK /\ KeysOK /\ HeadOK /\ MembersOK /\ ToldOK /\ OwnedPresent /\ FetchedOK /\ DeadOK

WorldOK == gone \subseteq {"closed", "private"} /\ reviewing \in BOOLEAN

----------------------------------------------------------------------------
(* Constants and operators                                                 *)

LEMMA ConstantsLemma ==
  /\ Keys \subseteq Nat /\ IsFiniteSet(Keys)
  /\ \A k \in Keys : Lineage[k] \in [src : Nat, gen : Nat] /\ Lineage[k].src \in Nat
  /\ MaxRevision \in Nat /\ MaxRevision >= 1 /\ FailureLimit \in Nat /\ FailureLimit >= 1
  /\ DeadLetterSlots \in Nat
BY KeysAssumption, LaneLimitsAssumption

\* A set of numbers has a least one (no infinite descent).
LEMMA LeastLemma ==
  ASSUME NEW C \in SUBSET Nat, C # {}
  PROVE  \E x \in C : \A y \in C : x <= y
<1> DEFINE R == OpToRel(<, Nat)
<1>1. IsWellFoundedOn(R, Nat) BY NatLessThanWellFounded
<1>2. \A x, y \in Nat : y < x => <<y, x>> \in R BY DEF OpToRel
<1> HIDE DEF R
<1>3. PICK x \in C : \A y \in C : ~(<<y, x>> \in R) BY <1>1, WFMin
<1>4. \A y \in C : ~(y < x) BY <1>2, <1>3
<1> QED BY <1>3, <1>4

\* The newest of finitely many: the one with the fewest above it.
LEMMA NewestLemma ==
  ASSUME NEW S \in SUBSET Nat, S # {}, IsFiniteSet(S)
  PROVE  Newest(S) \in S /\ \A m \in S : m <= Newest(S)
<1> DEFINE up(x) == {y \in S : y > x}
           C == {Cardinality(up(x)) : x \in S}
<1>1. \A x \in S : IsFiniteSet(up(x)) /\ Cardinality(up(x)) \in Nat
  <2> SUFFICES ASSUME NEW x \in S PROVE IsFiniteSet(up(x)) /\ Cardinality(up(x)) \in Nat
    OBVIOUS
  <2>1. up(x) \subseteq S OBVIOUS
  <2> HIDE DEF up
  <2> QED BY <2>1, FS_Subset, FS_CardinalityType
<1>2. PICK c \in C : \A d \in C : c <= d
  <2>1. C \in SUBSET Nat /\ C # {} BY <1>1
  <2> HIDE DEF C
  <2> QED BY <2>1, LeastLemma
<1>3. PICK x \in S : c = Cardinality(up(x)) OBVIOUS
<1>4. up(x) = {}
  <2> SUFFICES ASSUME NEW y \in up(x) PROVE FALSE OBVIOUS
  <2>1. y \in S /\ y > x /\ x \in Nat /\ y \in Nat OBVIOUS
  <2>2. Cardinality(up(x)) <= Cardinality(up(y)) BY <1>2, <1>3, <2>1
  <2>3. y \in up(x) /\ y \notin up(y) BY <2>1
  <2>4. \A z \in S : z > y => z > x BY <2>1
  <2>5. up(y) \subseteq up(x) BY <2>4
  <2> HIDE DEF up
  <2>6. Cardinality(up(y)) <= Cardinality(up(x)) /\ up(y) # up(x)
    BY <1>1, <2>3, <2>5, FS_Subset
  <2>7. Cardinality(up(y)) # Cardinality(up(x)) BY <1>1, <2>5, <2>6, FS_Subset
  <2> QED BY <1>1, <2>1, <2>2, <2>6, <2>7
<1>5. \A m \in S : m <= x BY <1>4
<1> QED BY <1>5, Zenon DEF Newest

LEMMA ImageLemma ==
  ASSUME NEW S, IsFiniteSet(S), NEW f \in [S -> Nat]
  PROVE  IsFiniteSet({f[x] : x \in S})
<1>1. f \in Surjection(S, {f[x] : x \in S}) BY DEF Surjection
<1> QED BY <1>1, FS_Surjection

\* The newest source revision among some known ones and the items.
LEMMA NewestSource ==
  ASSUME ItemsOK, NEW A \in SUBSET Nat, IsFiniteSet(A), A # {}
  PROVE  LET n == Newest(A \cup {SourceOf(item[k]) : k \in Present(item)})
         IN /\ n \in Nat /\ \A a \in A : a <= n
            /\ \A k \in Keys : item[k].st # "absent" => SourceOf(item[k]) <= n
            /\ n \in A \/ \E k \in Present(item) : n = SourceOf(item[k])
<1> DEFINE P == Present(item)
           f == [k \in P |-> SourceOf(item[k])]
           B == {f[k] : k \in P}
<1>1. P \subseteq Keys /\ IsFiniteSet(P) BY ConstantsLemma, FS_Subset DEF Present
<1>2. \A k \in P : SourceOf(item[k]) \in Nat
  BY ConstantsLemma DEF Present, SourceOf, ItemsOK, GoodItem
<1>3. f \in [P -> Nat] BY <1>2
<1>4. B = {SourceOf(item[k]) : k \in Present(item)} OBVIOUS
<1>5. \A k \in P : SourceOf(item[k]) \in B BY <1>4
<1>6. \A k \in Keys : item[k].st # "absent" => k \in P BY DEF Present
<1> HIDE DEF P, f
<1>7. IsFiniteSet(B) BY <1>1, <1>3, ImageLemma
<1>8. B \in SUBSET Nat BY <1>3
<1> HIDE DEF B
<1>9. IsFiniteSet(A \cup B) BY <1>7, FS_Union
<1>10. /\ Newest(A \cup B) \in A \cup B /\ \A m \in A \cup B : m <= Newest(A \cup B)
  BY <1>8, <1>9, NewestLemma
<1>11. Newest(A \cup B) \in Nat BY <1>8, <1>10
<1>12. Newest(A \cup B) \in B => \E k \in Present(item) : Newest(A \cup B) = SourceOf(item[k])
  BY <1>4 DEF P
<1> QED BY <1>4, <1>5, <1>6, <1>10, <1>11, <1>12

\* The newest producer among some items and perhaps another one.
LEMMA NewestProducer ==
  ASSUME ItemsOK, NEW same \in SUBSET Present(item), NEW A \in SUBSET Keys, IsFiniteSet(A),
         A # {} \/ same # {}
  PROVE  LET n == Newest({item[k].prod : k \in same} \cup A)
         IN /\ n \in Keys /\ (n \in A \/ \E k \in same : n = item[k].prod)
            /\ \A k \in same : item[k].prod <= n
            /\ \A a \in A : a <= n
<1> DEFINE f == [k \in same |-> item[k].prod]
           B == {f[k] : k \in same}
<1>1. same \subseteq Keys /\ IsFiniteSet(same) BY ConstantsLemma, FS_Subset DEF Present
<1>2. \A k \in same : item[k].prod \in Keys /\ item[k].prod \in Nat
  BY ConstantsLemma DEF Present, ItemsOK, GoodItem
<1>3. f \in [same -> Nat] BY <1>2
<1>4. B = {item[k].prod : k \in same} OBVIOUS
<1>5. B \subseteq Keys BY <1>2, <1>4
<1>6. same # {} => B # {} OBVIOUS
<1> HIDE DEF f
<1>7. IsFiniteSet(B) BY <1>1, <1>3, ImageLemma
<1> HIDE DEF B
<1>8. IsFiniteSet(B \cup A) BY <1>7, FS_Union
<1>9. B \cup A \in SUBSET Nat /\ B \cup A # {} BY <1>5, <1>6, ConstantsLemma
<1>10. /\ Newest(B \cup A) \in B \cup A /\ \A m \in B \cup A : m <= Newest(B \cup A)
  BY <1>8, <1>9, NewestLemma
<1>11. Newest(B \cup A) \in Keys BY <1>5, <1>10
<1> QED BY <1>4, <1>10, <1>11

LEMMA NoItemLemma ==
  /\ NoItem \in ItemType /\ NoItem.st = "absent" /\ GoodItem(NoItem)
  /\ \A p \in Keys : /\ NewItem(p) \in ItemType /\ GoodItem(NewItem(p))
                     /\ NewItem(p).st = "pending" /\ NewItem(p).prod = p /\ NewItem(p).rev = 1
BY ConstantsLemma DEF NoItem, NewItem, ItemType, GoodItem

LEMMA RemovedLemma ==
  ASSUME NEW is, NEW S
  PROVE  \A k \in Keys : Removed(is, S)[k] = IF k \in S THEN NoItem ELSE is[k]
BY DEF Removed

----------------------------------------------------------------------------
(* The batch store                                                         *)

\* Memberships are only closed, never changed otherwise.
Closes(ms) ==
  /\ ms \in [Batches -> [Keys -> MemberType]]
  /\ \A b \in Batches : \A k \in Keys : ms[b][k].out = "open" => ms[b][k] = member[b][k]

\* reclaimExpiredSync
LEMMA ReclaimLemma ==
  ASSUME MembersOK
  PROVE  /\ Closes(Store!ReclaimedMember)
         /\ \A k : k \in BatchOwned <=>
              k \in Keys /\ \E b \in Batches : Store!ReclaimedMember[b][k].out = "open"
<1> DEFINE rm == Store!ReclaimedMember
           lapsed(b, k) == [member[b][k] EXCEPT !.out = "lease_expired"]
<1>1. \A b \in Batches : \A k \in Keys :
        rm[b][k] = IF Store!Expired(b) /\ member[b][k].out = "open" THEN lapsed(b, k) ELSE member[b][k]
  BY DEF Store!ReclaimedMember
<1>2. \A b \in Batches : \A k \in Keys :
        lapsed(b, k) \in MemberType /\ lapsed(b, k).out = "lease_expired" /\ member[b][k] \in MemberType
  BY DEF MembersOK, MemberType
<1>3. rm = [b \in Batches |-> [k \in Keys |->
              IF Store!Expired(b) /\ member[b][k].out = "open" THEN lapsed(b, k) ELSE member[b][k]]]
  BY DEF Store!ReclaimedMember
<1> HIDE DEF lapsed
<1>4. rm \in [Batches -> [Keys -> MemberType]] BY <1>2, <1>3
<1>5. \A b \in Batches : \A k \in Keys : rm[b][k].out = "open" => rm[b][k] = member[b][k]
  BY <1>1, <1>2
<1>6. \A k : k \in BatchOwned <=> k \in Keys /\ \E b \in Batches : rm[b][k].out = "open"
  BY DEF BatchOwned, Store!Owned
<1> QED BY <1>4, <1>5, <1>6 DEF Closes

----------------------------------------------------------------------------
(* What a step leaves alone                                                *)

\* An item a batch owns keeps its decision as long as its revision; it may end, and
\* then its own delivery may start it again.
Kept(k) ==
  item'[k].st # "absent" =>
    /\ item'[k].st = "pending"
    /\ \/ item'[k].prod = k
       \/ item[k].st # "absent" /\ item'[k].rev = item[k].rev /\ item'[k].prod = item[k].prod

\* An item takes newer decisions of its lineage, or starts with its own.
Grows(k) ==
  item'[k].st # "absent" =>
    \/ item'[k].prod = k
    \/ /\ item[k].st # "absent" /\ item'[k].prod \in Nat /\ item'[k].prod >= item[k].prod
       /\ Lineage[item'[k].prod] = Lineage[item[k].prod]

OwnedIn(ms) == {k \in Keys : \E b \in Batches : ms[b][k].out = "open"}

\* How an item may leave the queue.
Allowed(k) ==
  \/ \E f \in fetched : HeldBy(f, k) /\ Accounted(f, k)
  \/ SourceOf(item[k]) < head'
  \/ \E e \in Present(item') : /\ Lineage[item'[e].prod] = Lineage[item[k].prod]
                               /\ item'[e].prod >= item[k].prod \/ e \in BatchOwned
  \/ gone # {} /\ k \notin BatchOwned
  \/ "private" \in gone /\ Leases(k)
  \/ item[k].st = "pending" /\ item[k].aged /\ reviewing'

LaneStep == \A k \in Present(item) : item'[k].st = "absent" => Allowed(k)

\* The steps of the store that claim nothing.
LEMMA CarryLemma ==
  ASSUME LaneInv, Closes(member'), generation' = generation,
         \A k \in OwnedIn(member') : Kept(k)
  PROVE  MembersOK' /\ OwnedPresent' /\ \A f \in fetched : FetchOK(f)'
<1>1. /\ MembersOK /\ OwnedPresent /\ FetchedOK /\ ItemsOK BY DEF LaneInv
<1>2. \A b \in Batches : \A k \in Keys :
        member'[b][k].out = "open" => member'[b][k] = member[b][k] /\ member[b][k].out = "open"
  BY DEF Closes
<1>3. MembersOK' BY <1>1, <1>2 DEF MembersOK, Closes
<1>4. ASSUME NEW b \in Batches, NEW k \in Keys, member'[b][k].out = "open"
      PROVE  Kept(k)
  BY <1>1, <1>4 DEF OwnedIn
<1>5. OwnedPresent' BY <1>4 DEF OwnedPresent, Kept
<1>6. ASSUME NEW f \in fetched PROVE FetchOK(f)'
  <2> DEFINE b == f.batch
             k == f.key
  <2>1. /\ f \in FetchedType /\ f.gen <= generation[k] /\ f.prod >= k
        /\ Lineage[f.prod] = Lineage[k]
        /\ member[b][k].out = "open" /\ member[b][k].gen = f.gen
             => /\ member[b][k].rev = f.rev
                /\ item[k].st # "absent" /\ item[k].rev = member[b][k].rev => item[k].prod <= f.prod
    BY <1>1 DEF FetchedOK, FetchOK
  <2>2. b \in Batches /\ k \in Keys BY <2>1 DEF FetchedType
  <2> HIDE DEF b, k
  <2>3. ASSUME member'[b][k].out = "open", member'[b][k].gen = f.gen
        PROVE  /\ member'[b][k].rev = f.rev
               /\ item'[k].st # "absent" /\ item'[k].rev = member'[b][k].rev => item'[k].prod <= f.prod
    <3>1. member'[b][k] = member[b][k] /\ member[b][k].out = "open" BY <1>2, <2>2, <2>3
    <3>2. /\ member[b][k].rev = f.rev
          /\ item[k].st # "absent" /\ item[k].rev = member[b][k].rev => item[k].prod <= f.prod
      BY <2>1, <2>3, <3>1
    <3>3. Kept(k) BY <1>4, <2>2, <2>3
    <3>4. k <= f.prod BY <2>1, <2>2, ConstantsLemma DEF FetchedType
    <3> QED BY <3>1, <3>2, <3>3, <3>4 DEF Kept
  <2>4. f.gen <= generation'[k] BY <2>1
  <2> QED BY <2>1, <2>3, <2>4 DEF FetchOK, b, k
<1> QED BY <1>3, <1>5, <1>6

\* Producers only grow, so an item stays with its key.
LEMMA GrowsLemma ==
  ASSUME LaneInv, \A k \in Keys : Grows(k)
  PROVE  KeysOK'
<1> SUFFICES ASSUME NEW k \in Keys PROVE KeyOK(k, item[k])' BY DEF KeysOK
<1>1. KeyOK(k, item[k]) /\ item[k] \in ItemType /\ GoodItem(item[k])
  BY DEF LaneInv, KeysOK, ItemsOK
<1>2. k \in Nat /\ (item[k].st # "absent" => item[k].prod \in Nat)
  BY <1>1, ConstantsLemma DEF GoodItem
<1> QED BY <1>1, <1>2 DEF Grows, KeyOK

\* Items that do not change are kept.
LEMMA SameItems ==
  ASSUME LaneInv, Closes(member'), item' = item
  PROVE  /\ \A k \in OwnedIn(member') : Kept(k)
         /\ ItemsOK' /\ KeysOK' /\ LaneStep
<1>1. ASSUME NEW k \in OwnedIn(member') PROVE Kept(k)
  <2>1. PICK b \in Batches : member'[b][k].out = "open" BY DEF OwnedIn
  <2>2. k \in Keys BY DEF OwnedIn
  <2>3. member[b][k].out = "open" BY <2>1, <2>2 DEF Closes
  <2>4. item[k].st \in {"absent", "pending"} BY <2>2, <2>3 DEF LaneInv, OwnedPresent
  <2> QED BY <2>4 DEF Kept
<1>2. ItemsOK' /\ KeysOK' BY DEF LaneInv, ItemsOK, GoodItem, KeysOK, KeyOK
<1>3. LaneStep BY DEF LaneStep, Present
<1> QED BY <1>1, <1>2, <1>3

\* Steps of the store alone.
LEMMA QuietLemma ==
  ASSUME LaneInv, Closes(member'), UNCHANGED <<generation, told, item, head, fetched, dead>>
  PROVE  LaneInv' /\ LaneStep
<1>1. \A k \in OwnedIn(member') : Kept(k) BY SameItems
<1>2. ItemsOK' /\ KeysOK' /\ LaneStep BY SameItems
<1>3. MembersOK' /\ OwnedPresent' /\ \A f \in fetched : FetchOK(f)' BY <1>1, CarryLemma
<1>4. HeadOK' BY DEF LaneInv, HeadOK
<1>5. ToldOK' /\ DeadOK' BY DEF LaneInv, ToldOK, DeadOK
<1>6. FetchedOK' BY <1>3 DEF FetchedOK
<1> QED BY <1>2, <1>3, <1>4, <1>5, <1>6 DEF LaneInv

LEMMA ReadLemma ==
  ASSUME MembersOK, Store!Read
  PROVE  /\ Closes(member') /\ generation' = generation /\ told' = told
         /\ OwnedIn(member') = BatchOwned
<1>1. member' = Store!ReclaimedMember /\ generation' = generation /\ told' = told
  BY DEF Store!Read
<1>2. OwnedIn(member') = BatchOwned BY <1>1, ReclaimLemma DEF OwnedIn
<1> QED BY <1>1, <1>2, ReclaimLemma

LEMMA StatsLemma ==
  ASSUME MembersOK, Store!Stats
  PROVE  Closes(member') /\ generation' = generation /\ told' = told
<1> DEFINE rm == Store!ReclaimedMember
<1>1. PICK old : member' = [b \in Batches |-> IF b \in old THEN [k \in Keys |-> Store!NoMember]
                                              ELSE rm[b]]
  BY DEF Store!Stats
<1>2. Closes(rm) BY ReclaimLemma
<1>3. Store!NoMember \in MemberType /\ Store!NoMember.out = "none"
  BY DEF Store!NoMember, MemberType
<1> HIDE DEF rm
<1>4. [k \in Keys |-> Store!NoMember] \in [Keys -> MemberType] BY <1>3
<1>5. member' \in [Batches -> [Keys -> MemberType]] BY <1>1, <1>2, <1>4 DEF Closes
<1>6. \A b \in Batches : \A k \in Keys : member'[b][k].out = "open" => member'[b][k] = member[b][k]
  BY <1>1, <1>2, <1>3 DEF Closes
<1> QED BY <1>5, <1>6 DEF Closes, Store!Stats

LEMMA StoreStepLemma ==
  ASSUME LaneInv, StoreStep
  PROVE  LaneInv' /\ LaneStep
<1>1. MembersOK /\ UNCHANGED <<item, head, fetched, dead>> BY DEF LaneInv, StoreStep
<1>2. CASE Store!Read BY <1>1, <1>2, ReadLemma, QuietLemma
<1>3. CASE Store!Stats BY <1>1, <1>3, StatsLemma, QuietLemma
<1>4. CASE Store!Tick
  <2>1. member' = member /\ generation' = generation /\ told' = told BY <1>4 DEF Store!Tick
  <2>2. Closes(member') BY <1>1, <2>1 DEF Closes, MembersOK
  <2> QED BY <1>1, <2>1, <2>2, QuietLemma
<1> QED BY <1>2, <1>3, <1>4 DEF StoreStep

LEMMA HeartbeatLemma ==
  ASSUME LaneInv, NEW w, NEW span, Heartbeat(w, span)
  PROVE  LaneInv' /\ LaneStep
<1>1. /\ member' = Store!ReclaimedMember /\ generation' = generation /\ told' = told
      /\ UNCHANGED <<item, head, fetched, dead>>
  BY DEF Heartbeat, Store!Heartbeat
<1>2. Closes(member') BY <1>1, ReclaimLemma DEF LaneInv
<1> QED BY <1>1, <1>2, QuietLemma

LEMMA LateLemma ==
  ASSUME LaneInv, NEW w, Late(w)
  PROVE  LaneInv' /\ LaneStep
<1>1. Store!Read /\ UNCHANGED <<item, head, fetched, dead>> BY DEF Late, Store!CompleteLate
<1>2. Closes(member') /\ generation' = generation /\ told' = told BY <1>1, ReadLemma DEF LaneInv
<1> QED BY <1>1, <1>2, QuietLemma

----------------------------------------------------------------------------
(* Batches                                                                 *)

\* A new membership has the item's revision and a generation that no publisher
\* has seen.
LEMMA ClaimLemma ==
  ASSUME LaneInv, NEW b \in Batches, NEW owner, NEW k \in Keys, NEW span, Claim(b, owner, k, span)
  PROVE  LaneInv' /\ LaneStep
<1> DEFINE rm == Store!ReclaimedMember
           revs == [x \in {k} |-> item[x].rev]
           gs == Store!NextGeneration({k})
           new == [rev |-> item[k].rev, gen |-> generation[k] + 1, out |-> "open"]
           row == [x \in Keys |-> IF x = k THEN new ELSE Store!NoMember]
           grant == Store!Grant(b, owner, {k}, revs)
<1>1. /\ k \in Candidates /\ Store!Claim(b, owner, {k}, revs, span)
      /\ UNCHANGED <<item, head, fetched, dead>>
  BY DEF Claim
<1>2. /\ MembersOK /\ ItemsOK /\ OwnedPresent /\ FetchedOK /\ ToldOK BY DEF LaneInv
<1>3. /\ item[k].st = "pending" /\ k \notin BatchOwned BY <1>1 DEF Candidates
<1>4. Closes(rm) /\ \A c \in Batches : rm[c][k].out # "open" BY <1>2, <1>3, ReclaimLemma
<1>5. Store!Inserted({k}) = {k}
  BY <1>3 DEF Store!Inserted, BatchOwned
<1>6. /\ gs \in [Keys -> Nat] /\ gs[k] = generation[k] + 1
      /\ \A x \in Keys : x # k => gs[x] = generation[x]
  BY <1>2 DEF Store!NextGeneration, MembersOK
<1>7. item[k] \in ItemType /\ item[k].rev \in Nat BY <1>2, ConstantsLemma DEF ItemsOK, ItemType
<1>8. generation[k] \in Nat BY <1>2 DEF MembersOK
<1>9. /\ new \in MemberType /\ new.rev = item[k].rev /\ new.gen = generation[k] + 1
      /\ new.out = "open"
  BY <1>7, <1>8 DEF MemberType
<1>10. Store!NoMember \in MemberType /\ Store!NoMember.out = "none"
  BY DEF Store!NoMember, MemberType
<1>11. /\ generation' = gs /\ told' = told \cup {grant}
       /\ member' = [rm EXCEPT ![b] = [x \in Keys |-> IF x \in {k}
                       THEN [rev |-> revs[x], gen |-> gs[x], out |-> "open"] ELSE Store!NoMember]]
  BY <1>1, <1>5 DEF Store!Claim
<1>12. [x \in Keys |-> IF x \in {k} THEN [rev |-> revs[x], gen |-> gs[x], out |-> "open"]
                       ELSE Store!NoMember] = row
  BY <1>6
<1>13. member' = [rm EXCEPT ![b] = row] BY <1>11, <1>12
<1>14. /\ grant.batch = b /\ DOMAIN grant.fence = {k}
       /\ grant.fence[k].rev = item[k].rev /\ grant.fence[k].gen = gs[k]
  BY <1>5 DEF Store!Grant
<1> HIDE DEF new, grant, gs, rm
<1>15. row \in [Keys -> MemberType] /\ \A x \in Keys : row[x] = IF x = k THEN new ELSE Store!NoMember
  BY <1>9, <1>10
<1> HIDE DEF row
<1>16. member' \in [Batches -> [Keys -> MemberType]] BY <1>4, <1>13, <1>15 DEF Closes
<1>17. \A c \in Batches : member'[c] = IF c = b THEN row ELSE rm[c]
  BY <1>4, <1>13 DEF Closes
<1>18. ASSUME NEW c \in Batches, NEW x \in Keys, member'[c][x].out = "open"
       PROVE  IF c = b THEN x = k /\ member'[c][x] = new
                       ELSE x # k /\ member'[c][x] = member[c][x] /\ member[c][x].out = "open"
  BY <1>4, <1>10, <1>15, <1>17, <1>18 DEF Closes
<1>19. MembersOK'
  <2>1. ASSUME NEW c \in Batches, NEW d \in Batches, NEW x \in Keys,
               member'[c][x].out = "open", member'[d][x].out = "open"
        PROVE  c = d
    BY <1>2, <1>18, <2>1 DEF MembersOK
  <2>2. ASSUME NEW c \in Batches, NEW x \in Keys, member'[c][x].out = "open"
        PROVE  member'[c][x].gen <= generation'[x]
    <3>1. CASE c = b BY <1>6, <1>8, <1>9, <1>11, <1>18, <2>2, <3>1
    <3>2. CASE c # b
      <4>1. x # k /\ member'[c][x] = member[c][x] /\ member[c][x].out = "open" BY <1>18, <2>2, <3>2
      <4> QED BY <1>2, <1>6, <1>11, <4>1 DEF MembersOK
    <3> QED BY <3>1, <3>2
  <2>3. generation' \in [Keys -> Nat] BY <1>6, <1>11
  <2> QED BY <1>16, <2>1, <2>2, <2>3 DEF MembersOK
<1>20. OwnedPresent'
  <2> SUFFICES ASSUME NEW c \in Batches, NEW x \in Keys, member'[c][x].out = "open"
               PROVE  item'[x].st \in {"absent", "pending"}
    BY DEF OwnedPresent
  <2>1. CASE c = b BY <1>1, <1>3, <1>18, <2>1
  <2>2. CASE c # b BY <1>1, <1>2, <1>18, <2>2 DEF OwnedPresent
  <2> QED BY <2>1, <2>2
<1>21. ASSUME NEW f \in fetched PROVE FetchOK(f)'
  <2>1. FetchOK(f) BY <1>2 DEF FetchedOK
  <2>2. /\ f \in FetchedType /\ f.batch \in Batches /\ f.key \in Keys /\ f.gen \in Nat
        /\ f.gen <= generation[f.key]
    BY <2>1 DEF FetchOK, FetchedType
  <2>3. generation[f.key] \in Nat /\ f.gen <= generation'[f.key]
    BY <1>2, <1>6, <1>8, <1>11, <2>2 DEF MembersOK
  <2>4. ASSUME member'[f.batch][f.key].out = "open", member'[f.batch][f.key].gen = f.gen
        PROVE  member'[f.batch][f.key] = member[f.batch][f.key] /\ member[f.batch][f.key].out = "open"
    <3>1. CASE f.batch = b
      <4>1. f.key = k /\ f.gen = generation[k] + 1 BY <1>9, <1>18, <2>2, <2>4, <3>1
      <4> QED BY <1>8, <2>2, <4>1
    <3>2. CASE f.batch # b BY <1>18, <2>2, <2>4, <3>2
    <3> QED BY <3>1, <3>2
  <2>5. item' = item BY <1>1
  <2> QED BY <2>1, <2>2, <2>3, <2>4, <2>5 DEF FetchOK
<1>22. FetchedOK' BY <1>1, <1>21 DEF FetchedOK
<1>23. ToldOK'
  <2>1. gs[k] \in Nat BY <1>6
  <2> QED BY <1>2, <1>7, <1>11, <1>14, <2>1 DEF ToldOK
<1>24. ItemsOK' /\ KeysOK' /\ HeadOK' /\ DeadOK'
  BY <1>1 DEF LaneInv, ItemsOK, GoodItem, KeysOK, KeyOK, HeadOK, DeadOK
<1>25. LaneStep BY <1>1 DEF LaneStep, Present
<1> QED BY <1>19, <1>20, <1>22, <1>23, <1>24, <1>25 DEF LaneInv

\* What a completion does to the memberships.
LEMMA CompleteStoreLemma ==
  ASSUME MembersOK, ToldOK, NEW w \in told, NEW S \in SUBSET DOMAIN w.fence,
         NEW outcome \in {"lease_expired", "published", "superseded"},
         Store!Complete(w, S, outcome)
  PROVE  /\ Closes(member') /\ generation' = generation /\ told' = told
         /\ \A k \in S : Store!Accepts(w, k) => /\ \A b \in Batches : member'[b][k].out # "open"
                                              /\ member'[w.batch][k].out = outcome
         /\ \A k \in Keys : k \in OwnedIn(member') => k \in BatchOwned
<1> DEFINE rm == Store!ReclaimedMember
           acc == {k \in S : Store!Accepts(w, k)}
           closed(k) == [rm[w.batch][k] EXCEPT !.out = outcome]
           row == [k \in Keys |-> IF k \in acc THEN closed(k) ELSE rm[w.batch][k]]
<1>1. w.batch \in Batches /\ S \subseteq Keys BY DEF ToldOK
<1>2. Closes(rm) BY ReclaimLemma
<1>3. member' = [rm EXCEPT ![w.batch] = [k \in Keys |-> IF k \in acc
                   THEN [rm[w.batch][k] EXCEPT !.out = outcome] ELSE rm[w.batch][k]]]
  BY DEF Store!Complete
<1>4. member' = [rm EXCEPT ![w.batch] = row] BY <1>3
<1>5. generation' = generation /\ told' = told BY DEF Store!Complete
<1>6. \A k \in Keys : rm[w.batch][k] \in MemberType BY <1>1, <1>2 DEF Closes
<1>7. \A k \in Keys : closed(k) \in MemberType /\ closed(k).out = outcome
  BY <1>6 DEF MemberType
<1>8. \A k \in acc : k \in S /\ k \in Keys /\ rm[w.batch][k].out = "open"
  BY <1>1 DEF Store!Accepts
<1>9. \A k \in S : Store!Accepts(w, k) => k \in acc OBVIOUS
<1>10. \A k : k \in BatchOwned <=> k \in Keys /\ \E b \in Batches : rm[b][k].out = "open"
  BY ReclaimLemma
<1> HIDE DEF rm, acc, closed
<1>11. /\ row \in [Keys -> MemberType]
       /\ \A k \in Keys : row[k] = IF k \in acc THEN closed(k) ELSE rm[w.batch][k]
  BY <1>6, <1>7
<1> HIDE DEF row
<1>12. member' \in [Batches -> [Keys -> MemberType]] BY <1>2, <1>4, <1>11 DEF Closes
<1>13. \A b \in Batches : member'[b] = IF b = w.batch THEN row ELSE rm[b]
  BY <1>2, <1>4 DEF Closes
<1>14. \A b \in Batches : \A k \in Keys :
         member'[b][k].out = "open" => member'[b][k] = rm[b][k] /\ ~(b = w.batch /\ k \in acc)
  BY <1>7, <1>11, <1>13
<1>15. Closes(member') BY <1>2, <1>12, <1>14 DEF Closes
<1>16. ASSUME NEW k \in acc, NEW b \in Batches, member'[b][k].out = "open" PROVE FALSE
  <2>1. b # w.batch /\ rm[b][k].out = "open" BY <1>8, <1>14, <1>16
  <2>2. rm[w.batch][k].out = "open" BY <1>8
  <2>3. member[b][k].out = "open" /\ member[w.batch][k].out = "open"
    BY <1>1, <1>2, <1>8, <2>1, <2>2 DEF Closes
  <2> QED BY <1>1, <1>8, <2>1, <2>3 DEF MembersOK
<1>17. \A k \in Keys : k \in OwnedIn(member') => k \in BatchOwned BY <1>10, <1>14 DEF OwnedIn
<1>18. \A k \in acc : member'[w.batch][k].out = outcome BY <1>1, <1>7, <1>8, <1>11, <1>13
<1> QED BY <1>5, <1>9, <1>15, <1>16, <1>17, <1>18

\* What an accepted fence says of the item.
LEMMA AcceptsLemma ==
  ASSUME LaneInv, NEW w \in told, NEW k \in DOMAIN w.fence, Store!Accepts(w, k)
  PROVE  /\ w.batch \in Batches /\ k \in Keys /\ member[w.batch][k].out = "open"
         /\ member[w.batch][k].rev = w.fence[k].rev /\ member[w.batch][k].gen = w.fence[k].gen
         /\ item[k].st \in {"absent", "pending"} /\ item[k] \in ItemType
         /\ GoodItem(item[k]) /\ KeyOK(k, item[k]) /\ k \in BatchOwned
         /\ item[k].rev = w.fence[k].rev => Leases(k)
<1>1. w.batch \in Batches /\ k \in Keys BY DEF LaneInv, ToldOK
<1>2. Closes(Store!ReclaimedMember) BY ReclaimLemma DEF LaneInv
<1>3. /\ Store!ReclaimedMember[w.batch][k].out = "open"
      /\ Store!ReclaimedMember[w.batch][k].rev = w.fence[k].rev
      /\ Store!ReclaimedMember[w.batch][k].gen = w.fence[k].gen
  BY DEF Store!Accepts, Store!MatchesFence
<1>4. Store!ReclaimedMember[w.batch][k] = member[w.batch][k] BY <1>1, <1>2, <1>3 DEF Closes
<1>5. k \in BatchOwned BY <1>1, <1>3, ReclaimLemma DEF LaneInv
<1>6. item[k].st \in {"absent", "pending"}
  BY <1>1, <1>3, <1>4 DEF LaneInv, OwnedPresent
<1>7. item[k] \in ItemType /\ GoodItem(item[k]) /\ KeyOK(k, item[k])
  BY <1>1 DEF LaneInv, ItemsOK, KeysOK
<1>8. item[k].rev = w.fence[k].rev => Leases(k) BY <1>1, <1>3 DEF Leases
<1> QED BY <1>1, <1>3, <1>4, <1>5, <1>6, <1>7, <1>8

\* A fetch ends only stale items, whose memberships it closes, and hands out
\* the others as they are.
LEMMA FetchLemma ==
  ASSUME LaneInv, NEW w \in told, Fetch(w)
  PROVE  LaneInv' /\ LaneStep
<1> DEFINE stale == StaleMembers(w)
           ended == {k \in stale : item[k].st # "absent" /\ item[k].rev = w.fence[k].rev}
           given == {k \in DOMAIN w.fence \ stale : Store!Accepts(w, k)}
           handed(k) == [batch |-> w.batch, key |-> k, gen |-> w.fence[k].gen,
                         prod |-> item[k].prod, rev |-> item[k].rev]
<1>1. /\ IF stale = {} THEN Store!Read ELSE Store!Complete(w, stale, "superseded")
      /\ item' = Removed(item, ended) /\ head' = head /\ dead' = dead
      /\ fetched' = fetched \cup {handed(k) : k \in given}
  BY DEF Fetch
<1>2. MembersOK /\ ToldOK /\ ItemsOK /\ FetchedOK BY DEF LaneInv
<1>3. stale \subseteq DOMAIN w.fence /\ \A k \in stale : Store!Accepts(w, k)
  BY DEF StaleMembers
<1>4. \A k \in ended : k \in stale /\ SourceOf(item[k]) < head
  BY DEF StaleMembers
<1>5. \A k \in given : /\ k \in DOMAIN w.fence /\ Store!Accepts(w, k) /\ k \notin ended
                       /\ item[k].st # "absent" /\ item[k].rev = w.fence[k].rev
  BY DEF StaleMembers
<1> HIDE DEF stale, ended, given
<1>6. /\ Closes(member') /\ generation' = generation /\ told' = told
      /\ \A k \in stale : \A b \in Batches : member'[b][k].out # "open"
  BY <1>1, <1>2, <1>3, ReadLemma, CompleteStoreLemma
<1>7. \A k \in Keys : item'[k] = IF k \in ended THEN NoItem ELSE item[k]
  BY <1>1, RemovedLemma
<1>8. \A k \in Keys : item'[k].st # "absent" => item'[k] = item[k] BY <1>7, NoItemLemma
<1>9. ASSUME NEW k \in OwnedIn(member') PROVE Kept(k)
  <2>1. PICK b \in Batches : member'[b][k].out = "open" BY DEF OwnedIn
  <2>2. k \in Keys BY DEF OwnedIn
  <2>3. member[b][k].out = "open" BY <1>6, <2>1, <2>2 DEF Closes
  <2>4. item[k].st \in {"absent", "pending"} BY <2>2, <2>3 DEF LaneInv, OwnedPresent
  <2> QED BY <1>8, <2>2, <2>4 DEF Kept
<1>10. MembersOK' /\ OwnedPresent' /\ \A f \in fetched : FetchOK(f)'
  BY <1>6, <1>9, CarryLemma
<1>11. ItemsOK'
  <2>1. item' = [k \in Keys |-> IF k \in ended THEN NoItem ELSE item[k]] BY <1>1 DEF Removed
  <2>2. \A k \in Keys : GoodItem(item'[k]) /\ item'[k] \in ItemType
    BY <1>2, <1>7, NoItemLemma DEF ItemsOK
  <2>3. \A k \in Keys : GoodItem(item[k])' BY <2>2 DEF GoodItem
  <2>4. item' \in [Keys -> ItemType] BY <2>1, <2>2
  <2> QED BY <2>3, <2>4 DEF ItemsOK
<1>12. HeadOK' /\ KeysOK' BY <1>1, <1>8 DEF LaneInv, HeadOK, SourceOf, KeysOK, KeyOK
<1>13. ASSUME NEW k \in given, NEW f, f = handed(k) PROVE FetchOK(f)'
  <2>1. k \in DOMAIN w.fence /\ Store!Accepts(w, k) /\ item[k].rev = w.fence[k].rev /\ k \notin ended
    BY <1>5
  <2>2. /\ w.batch \in Batches /\ k \in Keys /\ member[w.batch][k].out = "open"
        /\ member[w.batch][k].rev = w.fence[k].rev /\ member[w.batch][k].gen = w.fence[k].gen
        /\ item[k].st = "pending" /\ item[k] \in ItemType /\ GoodItem(item[k]) /\ KeyOK(k, item[k])
    BY <1>5, <2>1, AcceptsLemma
  <2>3. w.fence[k].gen \in Nat /\ w.fence[k].gen <= generation[k]
    BY <1>2, <2>1, <2>2 DEF MembersOK, ToldOK
  <2>4. item[k].prod \in Keys /\ item[k].rev \in 1..MaxRevision
    BY <2>2, ConstantsLemma DEF GoodItem, ItemType
  <2>5. f \in FetchedType BY <1>13, <2>2, <2>3, <2>4 DEF FetchedType
  <2>6. f.batch = w.batch /\ f.key = k /\ f.gen = w.fence[k].gen /\ f.prod = item[k].prod
        /\ f.rev = item[k].rev
    BY <1>13
  <2>7. item'[k] = item[k] BY <1>7, <2>1, <2>2
  <2>8. member'[w.batch][k].out = "open" => member'[w.batch][k] = member[w.batch][k]
    BY <1>6, <2>2 DEF Closes
  <2>9. f.gen <= generation'[k] BY <1>6, <2>3, <2>6
  <2>10. f.prod >= f.key /\ Lineage[f.prod] = Lineage[f.key] BY <2>2, <2>6 DEF KeyOK
  <2>11. f.prod <= f.prod
    <3>1. f.prod \in Keys BY <2>4, <2>6
    <3>2. f.prod \in Nat BY <3>1, ConstantsLemma
    <3> HIDE DEF handed
    <3> QED BY <3>2
  <2> QED BY <2>1, <2>2, <2>5, <2>6, <2>7, <2>8, <2>9, <2>10, <2>11 DEF FetchOK
<1>14. FetchedOK'
  <2>1. \A f \in fetched' : f \in fetched \/ \E k \in given : f = handed(k) BY <1>1
  <2> HIDE DEF handed
  <2> QED BY <1>10, <1>13, <2>1 DEF FetchedOK
<1>15. ToldOK' /\ DeadOK' BY <1>1, <1>2, <1>6 DEF LaneInv, ToldOK, DeadOK
<1>16. LaneStep
  <2> SUFFICES ASSUME NEW k \in Present(item), item'[k].st = "absent" PROVE Allowed(k)
    BY DEF LaneStep
  <2>1. k \in Keys /\ item[k].st # "absent" BY DEF Present
  <2>2. k \in ended BY <1>7, <2>1
  <2> QED BY <1>1, <1>4, <2>2 DEF Allowed
<1> QED BY <1>10, <1>11, <1>12, <1>14, <1>15, <1>16 DEF LaneInv

\* A requeued or parked item differs only in its state and its failures.
LEMMA RequeuedLemma ==
  ASSUME NEW it \in ItemType, it.prod \in Keys, it.rev > 0,
         NEW n \in 0..FailureLimit, n < FailureLimit
  PROVE  /\ Requeued(it, n) \in ItemType /\ GoodItem(Requeued(it, n))
         /\ Requeued(it, n).prod = it.prod /\ Requeued(it, n).st = "pending"
<1> DEFINE new == Requeued(it, n)
<1>1. new \in ItemType BY DEF ItemType, Requeued
<1>2. new.st = "pending" /\ new.fails = n /\ new.prod = it.prod /\ new.rev = it.rev
  BY DEF ItemType, Requeued
<1>3. GoodItem(new) BY <1>1, <1>2 DEF GoodItem
<1> QED BY <1>1, <1>2, <1>3

LEMMA ParkedLemma ==
  ASSUME NEW it \in ItemType, it.prod \in Keys, it.rev > 0, it.fails + 1 \in 0..FailureLimit
  PROVE  /\ Parked(it) \in ItemType /\ GoodItem(Parked(it))
         /\ Parked(it).prod = it.prod /\ Parked(it).st = "parked"
<1> DEFINE new == Parked(it)
<1>1. new \in ItemType BY DEF ItemType, Parked
<1>2. new.st = "parked" /\ new.prod = it.prod /\ new.rev = it.rev BY DEF ItemType, Parked
<1>3. GoodItem(new) BY <1>1, <1>2 DEF GoodItem
<1> QED BY <1>1, <1>2, <1>3

\* What a completion makes of an item that the publisher's batch owns.
LEMMA FinishedLemma ==
  ASSUME NEW it \in ItemType, GoodItem(it), NEW k \in Keys, NEW owned \in Nat, NEW kind \in Kinds,
         it.st = "pending", it.rev >= owned
  PROVE  /\ Finished(it, k, owned, kind) \in ItemType /\ GoodItem(Finished(it, k, owned, kind))
         /\ Finished(it, k, owned, kind).st # "absent" => Finished(it, k, owned, kind).prod = it.prod
         /\ Finished(it, k, owned, kind).st = "absent"
              => /\ it.rev = owned
                 /\ \/ kind \in {"published", "superseded", "refresh"}
                    \/ Exhausted(it, kind) /\ DeadLetterFits(k, owned)
<1> DEFINE done == Finished(it, k, owned, kind)
<1>1. /\ it.prod \in Keys /\ it.rev \in Nat /\ it.rev > 0
      /\ it.fails \in Nat /\ it.fails < FailureLimit
  BY ConstantsLemma DEF GoodItem, ItemType
<1>2. FailureLimit \in Nat /\ FailureLimit >= 1 BY ConstantsLemma
<1>3. CASE it.rev > owned
  <2>1. done = Requeued(it, 0) BY <1>3 DEF Finished
  <2> QED BY <1>1, <1>2, <2>1, RequeuedLemma
<1>4. CASE ~(it.rev > owned) /\ kind \in {"published", "superseded", "refresh"}
  <2>1. done = NoItem BY <1>4 DEF Finished, Reported
  <2> QED BY <1>1, <1>4, <2>1, NoItemLemma
<1>5. CASE ~(it.rev > owned) /\ kind = "throttled"
  <2>1. done = Requeued(it, it.fails) BY <1>5 DEF Finished, Reported
  <2> QED BY <1>1, <1>2, <2>1, RequeuedLemma
<1>6. CASE ~(it.rev > owned) /\ kind \in {"failed", "outlasted"}
  <2>1. CASE ~Exhausted(it, kind)
    <3>1. done = Requeued(it, it.fails + 1) BY <1>6, <2>1 DEF Finished, Reported
    <3>2. it.fails + 1 \in 0..FailureLimit /\ it.fails + 1 < FailureLimit
      BY <1>1, <1>2, <1>6, <2>1 DEF Exhausted
    <3> QED BY <1>1, <3>1, <3>2, RequeuedLemma
  <2>2. CASE Exhausted(it, kind) /\ DeadLetterFits(k, owned)
    <3>1. done = NoItem BY <1>6, <2>2 DEF Finished, Reported
    <3>2. it.rev = owned BY <1>1, <1>6
    <3> QED BY <2>2, <3>1, <3>2, NoItemLemma
  <2>3. CASE Exhausted(it, kind) /\ ~DeadLetterFits(k, owned)
    <3>1. done = Parked(it) BY <1>6, <2>3 DEF Finished, Reported
    <3>2. it.fails + 1 \in 0..FailureLimit BY <1>1, <1>2
    <3> QED BY <1>1, <3>1, <3>2, ParkedLemma
  <2> QED BY <2>1, <2>2, <2>3
<1> QED BY <1>3, <1>4, <1>5, <1>6 DEF Kinds

\* A completion closes the membership and ends the item only at the revision of
\* the membership, and it is accounted for.
LEMMA SettleLemma ==
  ASSUME LaneInv, NEW w \in told, NEW k \in DOMAIN w.fence, NEW kind \in Kinds, Settle(w, k, kind)
  PROVE  /\ LaneInv'
         /\ \A x \in Present(item) : item'[x].st = "absent" =>
              /\ x = k /\ Store!Accepts(w, k) /\ item[k].rev = w.fence[k].rev
              /\ \/ member'[w.batch][k].out \in {"published", "superseded"}
                 \/ [key |-> k, rev |-> item[k].rev] \in dead'
                 \/ reviewing'
<1> DEFINE owned == w.fence[k].rev
           done == Finished(item[k], k, owned, kind)
           letter == [key |-> k, rev |-> owned]
           applies == Store!Accepts(w, k) /\ item[k].st # "absent" /\ item[k].rev >= owned
<1>1. MembersOK /\ ToldOK /\ ItemsOK /\ FetchedOK BY DEF LaneInv
<1>2. Outcome(kind) \in {"lease_expired", "published", "superseded"} BY DEF Outcome, Kinds
<1>3. /\ Store!Complete(w, {k}, Outcome(kind)) /\ head' = head /\ fetched' = fetched
  BY DEF Settle
<1>4. /\ Closes(member') /\ generation' = generation /\ told' = told
      /\ Store!Accepts(w, k) => /\ \A b \in Batches : member'[b][k].out # "open"
                                /\ member'[w.batch][k].out = Outcome(kind)
  BY <1>1, <1>2, <1>3, CompleteStoreLemma
<1>5. CASE ~applies
  <2>1. item' = item /\ dead' = dead BY <1>5 DEF Settle
  <2>2. LaneInv' BY <1>3, <1>4, <2>1, QuietLemma
  <2> QED BY <2>1, <2>2 DEF Present
<1>6. CASE applies
  <2>1. /\ Store!Accepts(w, k) /\ w.batch \in Batches /\ k \in Keys
        /\ item[k].st = "pending" /\ item[k].rev >= owned /\ owned \in Nat
    BY <1>1, <1>6, AcceptsLemma DEF ToldOK
  <2>2. /\ item' = [item EXCEPT ![k] = done]
        /\ dead' = IF item[k].rev = owned /\ Exhausted(item[k], kind) /\ DeadLetterFits(k, owned)
                   THEN dead \cup {letter} ELSE dead
        /\ kind = "refresh" /\ item[k].rev = owned => reviewing'
    BY <1>6 DEF Settle
  <2>3. /\ done \in ItemType /\ GoodItem(done)
        /\ done.st # "absent" => done.prod = item[k].prod
        /\ done.st = "absent"
             => /\ item[k].rev = owned
                /\ \/ kind \in {"published", "superseded", "refresh"}
                   \/ Exhausted(item[k], kind) /\ DeadLetterFits(k, owned)
    BY <1>1, <2>1, FinishedLemma DEF ItemsOK
  <2> HIDE DEF done, applies
  <2>4. \A x \in Keys : item'[x] = IF x = k THEN done ELSE item[x]
    BY <1>1, <2>2 DEF ItemsOK
  <2>5. ItemsOK'
    <3>1. item' \in [Keys -> ItemType] BY <1>1, <2>2, <2>3 DEF ItemsOK
    <3>2. \A x \in Keys : GoodItem(item'[x]) BY <1>1, <2>3, <2>4 DEF ItemsOK
    <3>3. \A x \in Keys : GoodItem(item[x])' BY <3>2 DEF GoodItem
    <3> QED BY <3>1, <3>3 DEF ItemsOK
  <2>6. \A x \in Keys : item'[x].st # "absent"
          => item[x].st # "absent" /\ item'[x].prod = item[x].prod
    BY <2>1, <2>3, <2>4
  <2>7. HeadOK' /\ KeysOK'
    BY <1>3, <2>6 DEF LaneInv, HeadOK, SourceOf, KeysOK, KeyOK
  <2>8. ASSUME NEW x \in OwnedIn(member') PROVE Kept(x)
    <3>1. PICK b \in Batches : member'[b][x].out = "open" BY DEF OwnedIn
    <3>2. x \in Keys /\ x # k BY <1>4, <2>1, <3>1 DEF OwnedIn
    <3>3. member[b][x].out = "open" BY <1>4, <3>1, <3>2 DEF Closes
    <3>4. item'[x] = item[x] /\ item[x].st \in {"absent", "pending"}
      BY <2>4, <3>2, <3>3 DEF LaneInv, OwnedPresent
    <3> QED BY <3>4 DEF Kept
  <2>9. MembersOK' /\ OwnedPresent' /\ \A f \in fetched : FetchOK(f)'
    BY <1>4, <2>8, CarryLemma
  <2>10. FetchedOK' BY <1>3, <2>9 DEF FetchedOK
  <2>11. DeadOK'
    <3>1. dead \subseteq [key : Keys, rev : Nat] /\ IsFiniteSet(dead)
          /\ Cardinality(dead) <= DeadLetterSlots
      BY DEF LaneInv, DeadOK
    <3>2. CASE dead' = dead BY <3>1, <3>2 DEF DeadOK
    <3>3. CASE DeadLetterFits(k, owned) /\ dead' = dead \cup {letter}
      <4>1. letter \in [key : Keys, rev : Nat] BY <2>1
      <4>2. Cardinality(dead) < DeadLetterSlots \/ letter \in dead BY <3>3 DEF DeadLetterFits
      <4> HIDE DEF letter
      <4>3. /\ IsFiniteSet(dead')
            /\ Cardinality(dead') = IF letter \in dead THEN Cardinality(dead) ELSE Cardinality(dead) + 1
        BY <3>1, <3>3, FS_AddElement
      <4>4. Cardinality(dead) \in Nat BY <3>1, FS_CardinalityType
      <4>5. Cardinality(dead') <= DeadLetterSlots BY <3>1, <4>2, <4>3, <4>4, ConstantsLemma
      <4>6. dead' \subseteq [key : Keys, rev : Nat] BY <3>1, <3>3, <4>1
      <4> QED BY <4>3, <4>5, <4>6 DEF DeadOK
    <3> QED BY <2>2, <3>2, <3>3
  <2>12. ASSUME NEW x \in Present(item), item'[x].st = "absent"
         PROVE  /\ x = k /\ item[k].rev = owned
                /\ \/ member'[w.batch][k].out \in {"published", "superseded"}
                   \/ [key |-> k, rev |-> item[k].rev] \in dead'
                   \/ reviewing'
    <3>1. x = k /\ done.st = "absent" BY <2>4, <2>12 DEF Present
    <3>2. CASE kind \in {"published", "superseded"} BY <1>4, <2>1, <2>3, <3>1, <3>2 DEF Outcome
    <3>3. CASE kind = "refresh" BY <2>2, <2>3, <3>1, <3>3
    <3>4. CASE Exhausted(item[k], kind) /\ DeadLetterFits(k, owned) BY <2>2, <2>3, <3>1, <3>4
    <3> QED BY <2>3, <3>1, <3>2, <3>3, <3>4
  <2>13. ToldOK' BY <1>1, <1>4 DEF ToldOK
  <2>14. LaneInv' BY <2>5, <2>7, <2>9, <2>10, <2>11, <2>13 DEF LaneInv
  <2> QED BY <2>1, <2>12, <2>14
<1> QED BY <1>5, <1>6

\* A publisher reports on what it holds.
LEMMA CompleteLemma ==
  ASSUME LaneInv, NEW w \in told, NEW k \in DOMAIN w.fence, NEW kind \in Kinds, Complete(w, k, kind)
  PROVE  LaneInv' /\ LaneStep
<1>1. Settle(w, k, kind) /\ HasFetched(w, k) BY DEF Complete
<1>2. LaneInv' BY <1>1, SettleLemma
<1>3. LaneStep
  <2> SUFFICES ASSUME NEW x \in Present(item), item'[x].st = "absent" PROVE Allowed(x)
    BY DEF LaneStep
  <2>1. /\ x = k /\ Store!Accepts(w, k) /\ item[k].rev = w.fence[k].rev
        /\ \/ member'[w.batch][k].out \in {"published", "superseded"}
           \/ [key |-> k, rev |-> item[k].rev] \in dead'
           \/ reviewing'
    BY <1>1, SettleLemma
  <2>2. PICK f \in fetched : f.batch = w.batch /\ f.key = k /\ f.gen = w.fence[k].gen
    BY <1>1 DEF HasFetched
  <2>3. /\ member[w.batch][k].out = "open" /\ member[w.batch][k].rev = w.fence[k].rev
        /\ member[w.batch][k].gen = w.fence[k].gen /\ KeyOK(k, item[k])
        /\ item[k].st # "absent" /\ GoodItem(item[k]) /\ k \in Keys
    BY <2>1, AcceptsLemma DEF Present
  <2>4. FetchOK(f) BY DEF LaneInv, FetchedOK
  <2>5. /\ f.rev = item[k].rev /\ item[k].prod <= f.prod /\ f.prod \in Keys
        /\ Lineage[f.prod] = Lineage[item[k].prod]
    BY <2>1, <2>2, <2>3, <2>4 DEF FetchOK, FetchedType, KeyOK
  <2>6. f.prod >= item[k].prod BY <2>3, <2>5, ConstantsLemma DEF GoodItem
  <2>7. HeldBy(f, k) BY <2>2, <2>3, <2>5, <2>6 DEF HeldBy
  <2>8. Accounted(f, k) BY <2>1, <2>2 DEF Accounted
  <2> QED BY <2>1, <2>7, <2>8 DEF Allowed
<1> QED BY <1>2, <1>3

\* The server ends a member only because the target is private.
LEMMA ReplayLemma ==
  ASSUME LaneInv, NEW w \in told, NEW k \in DOMAIN w.fence, Replay(w, k)
  PROVE  LaneInv' /\ LaneStep
<1>1. CASE "private" \in gone /\ Settle(w, k, "superseded")
  <2>1. "superseded" \in Kinds BY DEF Kinds
  <2>2. LaneInv' BY <1>1, <2>1, SettleLemma
  <2>3. \A x \in Present(item) : item'[x].st = "absent" =>
          x = k /\ Store!Accepts(w, k) /\ item[k].rev = w.fence[k].rev
    BY <1>1, <2>1, SettleLemma
  <2>4. LaneStep BY <1>1, <2>3, AcceptsLemma DEF LaneStep, Allowed
  <2> QED BY <2>2, <2>4
<1>2. CASE Settle(w, k, "throttled")
  <2>1. "throttled" \in Kinds BY DEF Kinds
  <2>2. LaneInv' BY <1>2, <2>1, SettleLemma
  <2>3. ASSUME NEW x \in Present(item), item'[x].st = "absent" PROVE FALSE
    <3>1. x = k /\ Store!Accepts(w, k) /\ item[k].rev = w.fence[k].rev
      BY <1>2, <2>1, <2>3, SettleLemma
    <3>2. item[k].st = "pending" /\ item[k] \in ItemType /\ GoodItem(item[k]) /\ k \in Keys
      BY <3>1, AcceptsLemma DEF Present
    <3>3. w.fence[k].rev \in Nat BY DEF LaneInv, ToldOK
    <3>4. item' = item \/ item' = [item EXCEPT ![k] = Finished(item[k], k, w.fence[k].rev, "throttled")]
      BY <1>2 DEF Settle
    <3>5. item'[k] = item[k] \/ item'[k] = Finished(item[k], k, w.fence[k].rev, "throttled")
      BY <3>2, <3>4 DEF LaneInv, ItemsOK
    <3>6. Finished(item[k], k, w.fence[k].rev, "throttled") = Requeued(item[k], item[k].fails)
      BY <3>1, <3>2, <3>3 DEF Finished, Reported
    <3>7. Requeued(item[k], item[k].fails).st = "pending"
      BY <3>2 DEF Requeued, ItemType
    <3> QED BY <2>3, <3>1, <3>2, <3>5, <3>6, <3>7
  <2> QED BY <2>2, <2>3 DEF LaneStep
<1> QED BY <1>1, <1>2 DEF Replay

----------------------------------------------------------------------------
(* Deliveries                                                              *)

\* A step of the queue that reads the store.
LEMMA QueueStepLemma ==
  ASSUME LaneInv, Store!Read, UNCHANGED <<fetched, dead>>, ItemsOK', HeadOK', LaneStep,
         \A k \in Keys : Grows(k), \A k \in BatchOwned : Kept(k)
  PROVE  LaneInv' /\ LaneStep
<1>1. /\ Closes(member') /\ generation' = generation /\ told' = told
      /\ OwnedIn(member') = BatchOwned
  BY ReadLemma DEF LaneInv
<1>2. MembersOK' /\ OwnedPresent' /\ \A f \in fetched : FetchOK(f)' BY <1>1, CarryLemma
<1>3. FetchedOK' BY <1>2 DEF FetchedOK
<1>4. ToldOK' /\ DeadOK' BY <1>1 DEF LaneInv, ToldOK, DeadOK
<1>5. KeysOK' BY GrowsLemma
<1> QED BY <1>2, <1>3, <1>4, <1>5 DEF LaneInv

LEMMA OwnedLemma ==
  ASSUME LaneInv, NEW k \in BatchOwned
  PROVE  k \in Keys /\ item[k].st \in {"absent", "pending"}
<1>1. PICK b \in Batches : k \in Keys /\ Store!ReclaimedMember[b][k].out = "open"
  BY ReclaimLemma DEF LaneInv
<1>2. member[b][k].out = "open" BY <1>1, ReclaimLemma DEF LaneInv, Closes
<1>3. item[k].st \in {"absent", "pending"} BY <1>1, <1>2 DEF LaneInv, OwnedPresent
<1> QED BY <1>1, <1>3

LEMMA SameGrowsLemma ==
  ASSUME ItemsOK, NEW k \in Keys,
         item'[k].st # "absent" => item[k].st # "absent" /\ item'[k].prod = item[k].prod
  PROVE  Grows(k)
<1>1. item[k].st # "absent" => item[k].prod \in Nat BY ConstantsLemma DEF ItemsOK, GoodItem
<1> QED BY <1>1 DEF Grows

WithProd(it, n) == [it EXCEPT !.prod = n]

LEMMA WithProdLemma ==
  ASSUME NEW it \in ItemType, GoodItem(it), NEW n \in Keys
  PROVE  /\ WithProd(it, n) \in ItemType /\ GoodItem(WithProd(it, n))
         /\ WithProd(it, n).st = it.st /\ WithProd(it, n).prod = n /\ WithProd(it, n).rev = it.rev
<1> DEFINE new == WithProd(it, n)
<1>1. new \in ItemType BY DEF ItemType, WithProd
<1>2. new.st = it.st /\ new.fails = it.fails /\ new.prod = n /\ new.rev = it.rev
  BY DEF ItemType, WithProd
<1>3. GoodItem(new) BY <1>1, <1>2 DEF GoodItem
<1> QED BY <1>1, <1>2, <1>3

\* Items of the lineage are joined in the retained one; those that a batch owns
\* stay as they are.
Joined(is, p, kept) ==
  /\ is \in [Keys -> ItemType] /\ \A k \in Keys : GoodItem(is[k])
  /\ \A k \in Keys : \/ is[k] = item[k]
                     \/ k \notin BatchOwned /\ k \in SameLineage(p) \ {kept} /\ is[k] = NoItem
                     \/ k \notin BatchOwned /\ k = kept /\ is[k].st = item[k].st
                        /\ is[k].rev = item[k].rev
  /\ item[kept].st # "absent" /\ Lineage[is[kept].prod] = Lineage[p]
  /\ is[kept].prod = p \/ \E k \in SameLineage(p) : is[kept].prod = item[k].prod
  /\ kept \in BatchOwned \/ \A k \in SameLineage(p) : item[k].prod <= is[kept].prod

LEMMA CollapsedLemma ==
  ASSUME LaneInv, NEW p \in Keys, NEW kept \in SameLineage(p),
         SameLineage(p) \cap BatchOwned # {} => kept \in BatchOwned
  PROVE  Joined(Collapsed(p, kept), p, kept)
<1> DEFINE same == SameLineage(p)
           prods == {item[k].prod : k \in same} \cup {p}
           removed == (same \ {kept}) \ BatchOwned
           base == Removed(item, removed)
           n == Newest(prods)
<1>1. ItemsOK BY DEF LaneInv
<1>2. /\ same \subseteq Present(item) /\ same \subseteq Keys /\ kept \in same /\ kept \notin removed
      /\ \A k \in same : item[k].st # "absent" /\ Lineage[item[k].prod] = Lineage[p]
  BY DEF SameLineage, Present
<1>3. /\ n \in Keys /\ (n = p \/ \E k \in same : n = item[k].prod)
      /\ \A k \in same : item[k].prod <= n
  <2>1. {p} \in SUBSET Keys /\ IsFiniteSet({p}) /\ {p} # {} BY FS_Singleton
  <2> HIDE DEF same
  <2> QED BY <1>1, <1>2, <2>1, NewestProducer
<1> HIDE DEF n
<1>4. Lineage[n] = Lineage[p] BY <1>2, <1>3
<1>5. \A k \in Keys : base[k] = IF k \in removed THEN NoItem ELSE item[k] BY RemovedLemma
<1>6. base \in [Keys -> ItemType] /\ \A k \in Keys : GoodItem(base[k])
  <2>1. base = [k \in Keys |-> IF k \in removed THEN NoItem ELSE item[k]] BY DEF Removed
  <2> HIDE DEF removed
  <2> QED BY <1>1, <2>1, NoItemLemma DEF ItemsOK
<1>7. CASE same \cap BatchOwned # {}
  <2>1. Collapsed(p, kept) = base BY <1>7 DEF Collapsed
  <2>2. kept \in BatchOwned BY <1>7
  <2> HIDE DEF base
  <2>3. \A k \in Keys : base[k] = item[k]
                        \/ (k \notin BatchOwned /\ k \in same \ {kept} /\ base[k] = NoItem)
    BY <1>5
  <2>4. base[kept] = item[kept] BY <1>2, <1>5
  <2> QED BY <1>2, <1>6, <2>1, <2>2, <2>3, <2>4 DEF Joined
<1>8. CASE same \cap BatchOwned = {}
  <2> DEFINE new == WithProd(item[kept], n)
             is == [base EXCEPT ![kept] = new]
  <2>1. Collapsed(p, kept) = [base EXCEPT ![kept].prod = n] BY <1>8 DEF Collapsed, n
  <2>2. base[kept] = item[kept] BY <1>2, <1>5
  <2>3. Collapsed(p, kept) = is BY <1>2, <1>6, <2>1, <2>2 DEF WithProd
  <2>4. /\ new \in ItemType /\ GoodItem(new) /\ new.st = item[kept].st
        /\ new.prod = n /\ new.rev = item[kept].rev
    <3>1. item[kept] \in ItemType /\ GoodItem(item[kept]) BY <1>1, <1>2 DEF ItemsOK
    <3>2. n \in Keys BY <1>3
    <3> QED BY <3>1, <3>2, WithProdLemma
  <2> HIDE DEF base, new
  <2>5. \A k \in Keys : is[k] = IF k = kept THEN new ELSE base[k] BY <1>6
  <2>6. is \in [Keys -> ItemType] /\ \A k \in Keys : GoodItem(is[k])
    BY <1>2, <1>6, <2>4, <2>5
  <2> HIDE DEF is
  <2>7. kept \in Keys /\ kept \notin BatchOwned BY <1>2, <1>8
  <2>8. is[kept] = new BY <2>5, <2>7
  <2>9. ASSUME NEW k \in Keys
        PROVE  \/ is[k] = item[k]
               \/ k \notin BatchOwned /\ k \in same \ {kept} /\ is[k] = NoItem
               \/ k \notin BatchOwned /\ k = kept /\ is[k].st = item[k].st /\ is[k].rev = item[k].rev
    <3>1. CASE k = kept BY <2>4, <2>7, <2>8, <3>1
    <3>2. CASE k # kept BY <1>5, <2>5, <3>2
    <3> QED BY <3>1, <3>2
  <2>10. /\ Lineage[is[kept].prod] = Lineage[p] /\ \A k \in same : item[k].prod <= is[kept].prod
         /\ (is[kept].prod = p \/ \E k \in same : is[kept].prod = item[k].prod)
    BY <1>3, <1>4, <2>4, <2>8
  <2>11. item[kept].st # "absent" BY <1>2
  <2> HIDE DEF same
  <2>12. Joined(is, p, kept) BY <2>6, <2>9, <2>10, <2>11 DEF Joined, same
  <2> QED BY <2>3, <2>12
<1> QED BY <1>7, <1>8

LEMMA AdmittedLemma ==
  ASSUME NEW is \in [Keys -> ItemType], \A k \in Keys : GoodItem(is[k]), NEW p \in Keys,
         is[p].rev < MaxRevision
  PROVE  /\ Admitted(p, is) \in [Keys -> ItemType] /\ \A k \in Keys : GoodItem(Admitted(p, is)[k])
         /\ \A k \in Keys : k # p => Admitted(p, is)[k] = is[k]
         /\ Admitted(p, is)[p].st = "pending" /\ Admitted(p, is)[p].prod = p
         /\ is[p].st # "absent" => Admitted(p, is)[p].rev = is[p].rev + 1
<1> DEFINE again == Redelivered(is[p], p)
           new == IF is[p].st = "absent" THEN NewItem(p) ELSE again
<1>1. Admitted(p, is) = [is EXCEPT ![p] = new] BY DEF Admitted
<1>2. is[p].rev \in Nat /\ is[p].rev + 1 \in 0..MaxRevision /\ is[p].rev + 1 > 0
  BY ConstantsLemma DEF ItemType
<1>3. again \in ItemType
  <2>1. is[p] \in ItemType /\ 0 \in 0..FailureLimit BY ConstantsLemma
  <2>2. p \in Keys \cup {0} /\ "pending" \in {"absent", "pending", "parked"} OBVIOUS
  <2> QED BY <1>2, <2>1, <2>2 DEF ItemType, Redelivered
<1>4. again.st = "pending" /\ again.prod = p /\ again.rev = is[p].rev + 1 /\ again.fails = 0
  BY DEF ItemType, Redelivered
<1> HIDE DEF again
<1>5. /\ new \in ItemType /\ new.st = "pending" /\ new.prod = p /\ GoodItem(new)
      /\ is[p].st # "absent" => new.rev = is[p].rev + 1
  <2>1. GoodItem(again) BY <1>2, <1>3, <1>4, ConstantsLemma DEF GoodItem
  <2> QED BY <1>3, <1>4, <2>1, NoItemLemma
<1> HIDE DEF new
<1>6. \A k \in Keys : [is EXCEPT ![p] = new][k] = IF k = p THEN new ELSE is[k] OBVIOUS
<1>7. [is EXCEPT ![p] = new] \in [Keys -> ItemType] BY <1>5
<1> QED BY <1>1, <1>5, <1>6, <1>7

\* A delivery is admitted: on the items as they are, or on its lineage joined in
\* its own item.
LEMMA AdmitLemma ==
  ASSUME LaneInv, NEW p \in Keys, item[p].rev < MaxRevision,
         NEW is, \/ is = item /\ SameLineage(p) = {}
                 \/ Joined(is, p, p) /\ p \in SameLineage(p) /\ is[p].prod = p,
         head' \in Nat, head' = Lineage[p].src,
         \A k \in Keys : item[k].st # "absent" => SourceOf(item[k]) <= head',
         item' = Admitted(p, Removed(is, SupersededBy(p, is)))
  PROVE  /\ ItemsOK' /\ HeadOK' /\ LaneStep
         /\ \A k \in Keys : Grows(k) /\ \A x \in BatchOwned : Kept(x)
<1> DEFINE over == SupersededBy(p, is)
           base == Removed(is, over)
<1>1. ItemsOK BY DEF LaneInv
<1>2. is \in [Keys -> ItemType] /\ \A k \in Keys : GoodItem(is[k])
  BY <1>1 DEF Joined, ItemsOK
<1>3. ASSUME NEW k \in Keys
      PROVE  /\ is[k].st # "absent"
                  => item[k].st # "absent" /\ Lineage[is[k].prod] = Lineage[item[k].prod]
             /\ k \in BatchOwned => is[k] = item[k]
             /\ item[k].st # "absent" /\ is[k].st = "absent"
                  => /\ Lineage[item[k].prod] = Lineage[p]
                     /\ (item[k].prod <= p \/ p \in BatchOwned)
  <2>1. CASE is = item BY <2>1
  <2>2. CASE Joined(is, p, p) /\ p \in SameLineage(p) /\ is[p].prod = p
    <3>1. Lineage[item[p].prod] = Lineage[p] /\ Lineage[is[p].prod] = Lineage[p]
      BY <2>2 DEF SameLineage
    <3>2. CASE is[k] = item[k] BY <3>2
    <3>3. CASE k \notin BatchOwned /\ k \in SameLineage(p) \ {p} /\ is[k] = NoItem
      <4>1. Lineage[item[k].prod] = Lineage[p] BY <3>3 DEF SameLineage
      <4>2. item[k].prod <= p \/ p \in BatchOwned BY <2>2, <3>3 DEF Joined
      <4> QED BY <3>3, <4>1, <4>2, NoItemLemma
    <3>4. CASE k \notin BatchOwned /\ k = p /\ is[k].st = item[k].st
      BY <3>1, <3>4
    <3> QED BY <2>2, <3>2, <3>3, <3>4 DEF Joined
  <2> QED BY <2>1, <2>2
<1>4. is[p].rev = item[p].rev
  BY NoItemLemma DEF Joined
<1>5. \A k \in Keys : base[k] = IF k \in over THEN NoItem ELSE is[k] BY RemovedLemma
<1>6. base \in [Keys -> ItemType] /\ \A k \in Keys : GoodItem(base[k])
  <2>1. base = [k \in Keys |-> IF k \in over THEN NoItem ELSE is[k]] BY DEF Removed
  <2> HIDE DEF over
  <2> QED BY <1>2, <2>1, NoItemLemma
<1>7. \A k \in over : /\ k \in Keys /\ is[k].st # "absent"
                      /\ SourceOf(is[k]) < Lineage[p].src /\ k \notin BatchOwned
  BY DEF SupersededBy, Present
<1> HIDE DEF over
<1>8. base[p].rev < MaxRevision
  <2>1. CASE p \in over
    <3>1. base[p].rev = 0 BY <1>5, <2>1 DEF NoItem
    <3> QED BY <3>1, ConstantsLemma
  <2>2. CASE p \notin over BY <1>4, <1>5, <2>2
  <2> QED BY <2>1, <2>2
<1> HIDE DEF base
<1>9. /\ item' \in [Keys -> ItemType] /\ \A k \in Keys : GoodItem(item'[k])
      /\ \A k \in Keys : k # p => item'[k] = base[k]
      /\ item'[p].st = "pending" /\ item'[p].prod = p
      /\ base[p].st # "absent" => item'[p].rev = base[p].rev + 1
  <2>1. item' = Admitted(p, base) BY DEF base, over
  <2> QED BY <1>6, <1>8, <2>1, AdmittedLemma
<1>10. ItemsOK'
  <2>1. \A k \in Keys : GoodItem(item[k])' BY <1>9 DEF GoodItem
  <2> QED BY <1>9, <2>1 DEF ItemsOK
<1>11. HeadOK'
  <2> SUFFICES ASSUME NEW k \in Keys, item'[k].st # "absent" PROVE SourceOf(item'[k]) <= head'
    BY DEF HeadOK, SourceOf
  <2>1. CASE k = p BY <1>9, <2>1, ConstantsLemma DEF SourceOf
  <2>2. CASE k # p
    <3>1. item'[k] = is[k] /\ is[k].st # "absent" BY <1>5, <1>9, <2>2, NoItemLemma
    <3>2. item[k].st # "absent" /\ SourceOf(is[k]) = SourceOf(item[k]) BY <1>3, <3>1 DEF SourceOf
    <3> QED BY <3>1, <3>2
  <2> QED BY <2>1, <2>2
<1>12. ASSUME NEW k \in BatchOwned PROVE Kept(k)
  <2>1. k \in Keys /\ item[k].st \in {"absent", "pending"} BY OwnedLemma
  <2>2. base[k] = item[k] BY <1>3, <1>5, <1>7, <2>1
  <2>3. CASE k = p BY <1>9, <2>3 DEF Kept
  <2>4. CASE k # p BY <1>9, <2>1, <2>2, <2>4 DEF Kept
  <2> QED BY <2>3, <2>4
<1>14. ASSUME NEW k \in Keys PROVE Grows(k)
  <2>1. CASE k = p BY <1>9, <2>1 DEF Grows
  <2>2. CASE k # p
    <3>1. item'[k].st # "absent" => item'[k] = is[k] /\ is[k].st # "absent"
      BY <1>5, <1>9, <2>2, NoItemLemma
    <3>2. is[k].st # "absent" => is[k] = item[k] BY <2>2, NoItemLemma DEF Joined
    <3> QED BY <1>1, <3>1, <3>2, SameGrowsLemma
  <2> QED BY <2>1, <2>2
<1>13. LaneStep
  <2> SUFFICES ASSUME NEW k \in Present(item), item'[k].st = "absent" PROVE Allowed(k)
    BY DEF LaneStep
  <2>1. k \in Keys /\ item[k].st # "absent" BY DEF Present
  <2>2. k # p /\ base[k].st = "absent" BY <1>9, <2>1
  <2>3. CASE k \in over
    <3>1. Lineage[is[k].prod] = Lineage[item[k].prod] BY <1>3, <1>7, <2>3
    <3>2. SourceOf(item[k]) < head' BY <1>7, <2>3, <3>1 DEF SourceOf
    <3> QED BY <3>2 DEF Allowed
  <2>4. CASE k \notin over
    <3>1. is[k].st = "absent" BY <1>5, <2>1, <2>2, <2>4
    <3>2. Lineage[item[k].prod] = Lineage[p] /\ (item[k].prod <= p \/ p \in BatchOwned)
      BY <1>3, <2>1, <3>1
    <3>3. item[k].prod \in Nat /\ p \in Nat
      BY <1>1, <2>1, ConstantsLemma DEF ItemsOK, GoodItem
    <3>4. p \in Present(item') /\ item'[p].prod = p BY <1>9 DEF Present
    <3>5. item'[p].prod >= item[k].prod \/ p \in BatchOwned BY <3>2, <3>3, <3>4
    <3> QED BY <3>2, <3>4, <3>5 DEF Allowed
  <2> QED BY <2>3, <2>4
<1> QED BY <1>10, <1>11, <1>12, <1>13, <1>14

LEMMA EnqueueLemma ==
  ASSUME LaneInv, NEW p \in Keys, Enqueue(p)
  PROVE  LaneInv' /\ LaneStep
<1> DEFINE newest == Newest({head, Lineage[p].src} \cup {SourceOf(item[k]) : k \in Present(item)})
           same == SameLineage(p)
<1>1. ItemsOK /\ head \in Nat BY DEF LaneInv, HeadOK
<1>2. /\ newest \in Nat /\ head <= newest /\ Lineage[p].src <= newest
      /\ \A k \in Keys : item[k].st # "absent" => SourceOf(item[k]) <= newest
  <2>1. {head, Lineage[p].src} \in SUBSET Nat /\ {head, Lineage[p].src} # {}
    BY <1>1, ConstantsLemma
  <2>2. IsFiniteSet({head, Lineage[p].src})
    <3>1. {head, Lineage[p].src} = {head} \cup {Lineage[p].src} OBVIOUS
    <3>2. IsFiniteSet({head}) /\ IsFiniteSet({Lineage[p].src}) BY FS_Singleton
    <3> QED BY <3>1, <3>2, FS_Union
  <2> QED BY <1>1, <2>1, <2>2, NewestSource
<1>3. /\ item[p].rev < MaxRevision /\ head' = newest
      /\ Store!Read /\ UNCHANGED <<fetched, dead>>
  BY DEF Enqueue
<1>4. \/ item' = item
      \/ /\ Lineage[p].src = newest /\ same = {}
         /\ item' = Admitted(p, Removed(item, SupersededBy(p, item)))
      \/ \E kept \in same :
           /\ Lineage[p].src = newest
           /\ same \cap BatchOwned # {} => kept \in BatchOwned
           /\ item' = IF IsSemanticRepeat(p, kept) THEN Collapsed(p, kept)
                      ELSE Admitted(p, Removed(Collapsed(p, kept), SupersededBy(p, Collapsed(p, kept))))
  BY Zenon DEF Enqueue
<1> HIDE DEF newest, same
<1>5. CASE item' = item
  <2>1. ItemsOK' BY <1>1, <1>5 DEF ItemsOK, GoodItem
  <2>2. HeadOK' BY <1>2, <1>3, <1>5 DEF HeadOK, SourceOf
  <2>3. LaneStep BY <1>5 DEF LaneStep, Present
  <2>4. \A k \in BatchOwned : Kept(k) BY <1>5, OwnedLemma DEF Kept
  <2>5. \A k \in Keys : Grows(k) BY <1>1, <1>5, SameGrowsLemma
  <2> QED BY <1>3, <2>1, <2>2, <2>3, <2>4, <2>5, QueueStepLemma
<1>6. CASE /\ Lineage[p].src = newest /\ same = {}
           /\ item' = Admitted(p, Removed(item, SupersededBy(p, item)))
  <2>1. /\ ItemsOK' /\ HeadOK' /\ LaneStep
        /\ \A k \in Keys : Grows(k) /\ \A x \in BatchOwned : Kept(x)
    BY <1>2, <1>3, <1>6, AdmitLemma DEF same
  <2> QED BY <1>3, <2>1, QueueStepLemma
<1>7. ASSUME NEW kept \in same, Lineage[p].src = newest,
             same \cap BatchOwned # {} => kept \in BatchOwned,
             item' = IF IsSemanticRepeat(p, kept) THEN Collapsed(p, kept)
                     ELSE Admitted(p, Removed(Collapsed(p, kept), SupersededBy(p, Collapsed(p, kept))))
      PROVE  LaneInv' /\ LaneStep
  <2> DEFINE is == Collapsed(p, kept)
  <2>1. Joined(is, p, kept) BY <1>7, CollapsedLemma DEF same
  <2>2. kept \in Keys BY <1>7 DEF same, SameLineage, Present
  <2>3. CASE ~IsSemanticRepeat(p, kept)
    <3>1. item' = Admitted(p, Removed(is, SupersededBy(p, is))) BY <1>7, <2>3
    <3>2. kept = p /\ item[p].prod = p
      BY <2>3 DEF IsSemanticRepeat
    <3> HIDE DEF is
    <3>3. is[p].prod = p
      <4>1. p \in same BY <1>7, <3>2
      <4>2. CASE same \cap BatchOwned # {}
        <5>1. p \in BatchOwned BY <1>7, <3>2, <4>2
        <5>2. is[p] = item[p] BY <2>1, <3>2, <5>1 DEF Joined
        <5> QED BY <3>2, <5>2
      <4>3. CASE same \cap BatchOwned = {}
        <5>1. \A k \in same : ~(item[k].prod > p)
          BY <2>3, <4>3 DEF IsSemanticRepeat, same
        <5>2. \A k \in same : item[k].prod \in Nat
          BY <1>1, ConstantsLemma DEF same, SameLineage, Present, ItemsOK, GoodItem
        <5>3. p \notin BatchOwned BY <4>1, <4>3
        <5>4. p <= is[p].prod BY <2>1, <3>2, <4>1, <5>3 DEF Joined, same
        <5>5. is[p].prod = p \/ \E k \in same : is[p].prod = item[k].prod
          BY <2>1, <3>2 DEF Joined, same
        <5> QED BY <5>1, <5>2, <5>4, <5>5, ConstantsLemma
      <4> QED BY <4>2, <4>3
    <3> QED BY <1>2, <1>3, <1>7, <2>1, <3>1, <3>2, <3>3, AdmitLemma, QueueStepLemma DEF same
  <2>4. CASE IsSemanticRepeat(p, kept)
    <3>1. item' = is BY <1>7, <2>4
    <3> HIDE DEF is
    <3>2. \A k \in Keys : \/ item'[k] = item[k]
                          \/ /\ k \notin BatchOwned /\ k \in same \ {kept} /\ item'[k] = NoItem
                          \/ /\ k \notin BatchOwned /\ k = kept /\ item'[k].st = item[k].st
      BY <2>1, <3>1 DEF Joined, same
    <3>3. /\ item[kept].st # "absent" /\ Lineage[item'[kept].prod] = Lineage[p]
          /\ kept \in BatchOwned \/ \A k \in same : item[k].prod <= item'[kept].prod
      BY <2>1, <3>1 DEF Joined, same
    <3>4. ItemsOK'
      <4>1. item' \in [Keys -> ItemType] /\ \A k \in Keys : GoodItem(item'[k])
        BY <2>1, <3>1 DEF Joined
      <4>2. \A k \in Keys : GoodItem(item[k])' BY <4>1 DEF GoodItem
      <4> QED BY <4>1, <4>2 DEF ItemsOK
    <3>5. HeadOK'
      <4> SUFFICES ASSUME NEW k \in Keys, item'[k].st # "absent" PROVE SourceOf(item'[k]) <= head'
        BY <1>2, <1>3 DEF HeadOK, SourceOf
      <4>1. CASE item'[k] = item[k] BY <1>2, <1>3, <4>1
      <4>2. CASE k = kept
        <5>1. SourceOf(item'[k]) = Lineage[p].src BY <3>3, <4>2 DEF SourceOf
        <5> QED BY <1>2, <1>3, <5>1
      <4>3. CASE item'[k] = NoItem BY <4>3, NoItemLemma
      <4> QED BY <3>2, <4>1, <4>2, <4>3
    <3>6. \A k \in BatchOwned : Kept(k) BY <3>2, OwnedLemma, NoItemLemma DEF Kept
    <3>8. ASSUME NEW k \in Keys PROVE Grows(k)
      <4>1. CASE item'[k] = item[k] BY <1>1, <4>1, SameGrowsLemma
      <4>2. CASE item'[k] = NoItem BY <4>2, NoItemLemma DEF Grows
      <4>3. CASE k = kept /\ k \notin BatchOwned
        <5>1. item[k].prod <= item'[k].prod /\ Lineage[item'[k].prod] = Lineage[item[k].prod]
          BY <1>7, <3>3, <4>3 DEF same, SameLineage
        <5>2. /\ item[k].st # "absent" /\ item[k].prod \in Nat
              /\ item'[k].st # "absent" => item'[k].prod \in Nat
          BY <1>1, <3>3, <3>4, <4>3, ConstantsLemma DEF ItemsOK, GoodItem
        <5> QED BY <5>1, <5>2 DEF Grows
      <4> QED BY <3>2, <4>1, <4>2, <4>3
    <3>7. LaneStep
      <4> SUFFICES ASSUME NEW k \in Present(item), item'[k].st = "absent" PROVE Allowed(k)
        BY DEF LaneStep
      <4>1. k \in Keys /\ item[k].st # "absent" BY DEF Present
      <4>2. k # kept /\ k \in same BY <3>2, <3>3, <4>1
      <4>3. item'[kept].st # "absent" BY <2>2, <3>2, <3>3
      <4>4. kept \in Present(item') BY <2>2, <4>3 DEF Present
      <4>5. Lineage[item[k].prod] = Lineage[item'[kept].prod]
        BY <3>3, <4>2 DEF same, SameLineage
      <4>6. item[k].prod \in Nat /\ item'[kept].prod \in Nat
        BY <1>1, <2>2, <3>4, <4>1, <4>3, ConstantsLemma DEF ItemsOK, GoodItem
      <4>7. item'[kept].prod >= item[k].prod \/ kept \in BatchOwned BY <3>3, <4>2, <4>6
      <4> QED BY <4>4, <4>5, <4>7 DEF Allowed
    <3> QED BY <1>3, <3>4, <3>5, <3>6, <3>7, <3>8, QueueStepLemma
  <2> QED BY <2>3, <2>4
<1> QED BY <1>4, <1>5, <1>6, <1>7

----------------------------------------------------------------------------
(* Maintenance                                                             *)

\* The newest revision that items have is never above the head.
LEMMA NewestIsHead ==
  ASSUME LaneInv
  PROVE  Newest({head} \cup {SourceOf(item[k]) : k \in Present(item)}) = head
<1> DEFINE newest == Newest({head} \cup {SourceOf(item[k]) : k \in Present(item)})
<1>1. ItemsOK /\ HeadOK /\ head \in Nat BY DEF LaneInv, HeadOK
<1>2. {head} \in SUBSET Nat /\ {head} # {} /\ IsFiniteSet({head}) BY <1>1, FS_Singleton
<1>3. /\ newest \in Nat /\ head <= newest
      /\ (newest \in {head} \/ \E k \in Present(item) : newest = SourceOf(item[k]))
  BY <1>1, <1>2, NewestSource
<1> HIDE DEF newest
<1>4. newest <= head BY <1>1, <1>3 DEF HeadOK, Present
<1> QED BY <1>1, <1>3, <1>4 DEF newest

\* Items are removed, each with a reason.
LEMMA RemovalLemma ==
  ASSUME LaneInv, NEW S, item' = Removed(item, S), Store!Read,
         UNCHANGED <<head, fetched, dead>>, \A k \in S \cap Present(item) : Allowed(k)
  PROVE  LaneInv' /\ LaneStep
<1>1. \A k \in Keys : item'[k] = IF k \in S THEN NoItem ELSE item[k] BY RemovedLemma
<1>2. ItemsOK'
  <2>1. item' = [k \in Keys |-> IF k \in S THEN NoItem ELSE item[k]] BY DEF Removed
  <2>2. item' \in [Keys -> ItemType] /\ \A k \in Keys : GoodItem(item'[k])
    BY <1>1, <2>1, NoItemLemma DEF LaneInv, ItemsOK
  <2>3. \A k \in Keys : GoodItem(item[k])' BY <2>2 DEF GoodItem
  <2> QED BY <2>2, <2>3 DEF ItemsOK
<1>3. \A k \in Keys : item'[k].st # "absent" => item'[k] = item[k] BY <1>1, NoItemLemma
<1>4. HeadOK' BY <1>3 DEF LaneInv, HeadOK, SourceOf
<1>5. LaneStep
  <2> SUFFICES ASSUME NEW k \in Present(item), item'[k].st = "absent" PROVE Allowed(k)
    BY DEF LaneStep
  <2>1. k \in S BY <1>1 DEF Present
  <2> QED BY <2>1
<1>6. \A k \in BatchOwned : Kept(k) BY <1>3, OwnedLemma DEF Kept
<1>7. \A k \in Keys : Grows(k) BY <1>3, SameGrowsLemma DEF LaneInv
<1> QED BY <1>2, <1>4, <1>5, <1>6, <1>7, QueueStepLemma

\* What is stale for the alarm is older than the head.
LEMMA StaleLemma ==
  ASSUME LaneInv
  PROVE  Stale = {k \in Present(item) : SourceOf(item[k]) < head /\ k \notin BatchOwned}
BY NewestIsHead DEF Stale

LEMMA MaintainLemma ==
  ASSUME LaneInv, NEW pruned, Maintain(pruned)
  PROVE  LaneInv' /\ LaneStep
<1> DEFINE expired == PastRetention \ pruned
<1>1. /\ pruned \subseteq Stale /\ item' = Removed(item, pruned \cup expired)
      /\ Store!Read /\ UNCHANGED <<head, fetched, dead>>
      /\ expired # {} => reviewing'
  BY DEF Maintain
<1>2. ASSUME NEW k \in pruned PROVE Allowed(k)
  <2>1. SourceOf(item[k]) < head BY <1>1, <1>2, StaleLemma
  <2> QED BY <1>1, <2>1 DEF Allowed
<1>3. ASSUME NEW k \in expired PROVE Allowed(k)
  BY <1>1, <1>3 DEF Allowed, PastRetention
<1> QED BY <1>1, <1>2, <1>3, RemovalLemma

LEMMA TerminalizeLemma ==
  ASSUME LaneInv, NEW S, Terminalize(S)
  PROVE  LaneInv' /\ LaneStep
BY RemovalLemma DEF Terminalize, Allowed

LEMMA ClaimRefusedLemma ==
  ASSUME LaneInv, NEW k, ClaimRefused(k)
  PROVE  LaneInv' /\ LaneStep
BY RemovalLemma DEF ClaimRefused, Candidates, Allowed

LEMMA RefreshedLemma ==
  ASSUME NEW it \in ItemType, GoodItem(it), it.rev < MaxRevision, NEW n \in Keys
  PROVE  /\ Refreshed(it, n) \in ItemType /\ GoodItem(Refreshed(it, n))
         /\ Refreshed(it, n).st = it.st /\ Refreshed(it, n).prod = n
<1> DEFINE new == Refreshed(it, n)
           r == IF n > it.prod THEN it.rev + 1 ELSE it.rev
<1>1. r \in 0..MaxRevision /\ (it.rev > 0 => r > 0) BY ConstantsLemma DEF ItemType
<1>2. new = [it EXCEPT !.rev = r, !.prod = n] BY DEF Refreshed
<1> HIDE DEF r, new
<1>3. new \in ItemType BY <1>1, <1>2 DEF ItemType
<1>4. new.st = it.st /\ new.fails = it.fails /\ new.prod = n /\ new.rev = r
  BY <1>2 DEF ItemType
<1>5. GoodItem(new) BY <1>1, <1>3, <1>4 DEF GoodItem
<1> QED BY <1>3, <1>4, <1>5 DEF new

LEMMA ReconcileLemma ==
  ASSUME LaneInv, Reconcile
  PROVE  LaneInv' /\ LaneStep
<1>1. Store!Read /\ UNCHANGED <<head, fetched, dead>> BY DEF Reconcile
<1>2. PICK kept \in Present(item) :
        LET same == SameLineage(item[kept].prod)
        IN /\ same \cap BatchOwned = {} /\ kept \notin Stale
           /\ item[kept].rev < MaxRevision
           /\ item' = Removed(Retained(kept, same), Stale)
  BY Zenon DEF Reconcile
<1> DEFINE same == SameLineage(item[kept].prod)
           stale == Stale
           n == Newest({item[k].prod : k \in same})
           new == Refreshed(item[kept], n)
           base == Removed(item, same \ {kept})
           is == [base EXCEPT ![kept] = new]
<1>3. /\ same \cap BatchOwned = {} /\ kept \notin stale
      /\ item[kept].rev < MaxRevision /\ item' = Removed(Retained(kept, same), stale)
  BY <1>2
<1>4. Retained(kept, same) = is BY DEF Retained
<1>5. ItemsOK /\ HeadOK /\ head \in Nat BY DEF LaneInv, HeadOK
<1>6. /\ kept \in Keys /\ item[kept].st # "absent" /\ item[kept].prod \in Keys
      /\ item[kept] \in ItemType /\ GoodItem(item[kept])
  BY <1>5 DEF Present, ItemsOK, GoodItem
<1>7. /\ kept \in same /\ same \subseteq Present(item)
      /\ \A k \in same : Lineage[item[k].prod] = Lineage[item[kept].prod]
  BY DEF SameLineage
<1>8. \A k \in stale : k \in Keys /\ k \notin BatchOwned /\ SourceOf(item[k]) < head
  BY StaleLemma DEF Present
<1>9. /\ n \in Keys /\ (\E k \in same : n = item[k].prod)
      /\ \A k \in same : item[k].prod <= n
  <2>1. {} \in SUBSET Keys /\ IsFiniteSet({}) BY FS_EmptySet
  <2>2. {item[k].prod : k \in same} = {item[k].prod : k \in same} \cup {} OBVIOUS
  <2> DEFINE m == Newest({item[k].prod : k \in same} \cup {})
  <2>3. m = n BY <2>2
  <2> HIDE DEF same
  <2>4. /\ m \in Keys /\ (m \in {} \/ \E k \in same : m = item[k].prod)
        /\ \A k \in same : item[k].prod <= m
    BY <1>5, <1>7, <2>1, NewestProducer
  <2> HIDE DEF m, n
  <2> QED BY <2>3, <2>4
<1> HIDE DEF same, stale, n
<1>10. Lineage[n] = Lineage[item[kept].prod] BY <1>7, <1>9
<1>11. /\ new \in ItemType /\ GoodItem(new) /\ new.st = item[kept].st /\ new.prod = n
  BY <1>3, <1>6, <1>9, RefreshedLemma
<1>12. \A k \in Keys : base[k] = IF k \in same \ {kept} THEN NoItem ELSE item[k]
  BY RemovedLemma
<1>13. base \in [Keys -> ItemType] /\ \A k \in Keys : GoodItem(base[k])
  <2>1. base = [k \in Keys |-> IF k \in same \ {kept} THEN NoItem ELSE item[k]] BY DEF Removed
  <2> HIDE DEF base
  <2> QED BY <1>5, <1>12, <2>1, NoItemLemma DEF ItemsOK
<1> HIDE DEF base, new
<1>14. /\ is \in [Keys -> ItemType]
       /\ \A k \in Keys : is[k] = IF k = kept THEN new ELSE base[k]
  BY <1>6, <1>11, <1>13
<1> HIDE DEF is
<1>15. \A k \in Keys : item'[k] = IF k \in stale THEN NoItem ELSE is[k]
  BY <1>3, <1>4, RemovedLemma
<1>16. kept \notin stale BY <1>3
<1>17. item'[kept] = new BY <1>6, <1>14, <1>15, <1>16
<1>18. ASSUME NEW k \in Keys, k # kept
       PROVE  item'[k] = IF k \in stale \/ k \in same THEN NoItem ELSE item[k]
  BY <1>12, <1>14, <1>15, <1>18
<1>19. ItemsOK'
  <2>1. item' = [k \in Keys |-> IF k \in stale THEN NoItem ELSE is[k]] BY <1>3, <1>4 DEF Removed
  <2>2. item' \in [Keys -> ItemType] BY <1>14, <2>1, NoItemLemma
  <2>3. ASSUME NEW k \in Keys PROVE GoodItem(item'[k])
    <3>1. CASE k = kept BY <1>11, <1>17, <3>1
    <3>2. CASE k # kept BY <1>5, <1>18, <3>2, NoItemLemma DEF ItemsOK
    <3> QED BY <3>1, <3>2
  <2>4. \A k \in Keys : GoodItem(item[k])' BY <2>3 DEF GoodItem
  <2> QED BY <2>2, <2>4 DEF ItemsOK
<1>20. HeadOK'
  <2> SUFFICES ASSUME NEW k \in Keys, item'[k].st # "absent" PROVE SourceOf(item'[k]) <= head
    BY <1>1, <1>5 DEF HeadOK, SourceOf
  <2>1. CASE k = kept
    <3>1. SourceOf(item'[k]) = SourceOf(item[kept]) BY <1>10, <1>11, <1>17, <2>1 DEF SourceOf
    <3> QED BY <1>5, <1>6, <3>1 DEF HeadOK
  <2>2. CASE k # kept
    <3>1. item'[k] = item[k] BY <1>18, <2>2, NoItemLemma
    <3> QED BY <1>5, <3>1 DEF HeadOK
  <2> QED BY <2>1, <2>2
<1>21. \A k \in BatchOwned : Kept(k)
  <2> SUFFICES ASSUME NEW k \in BatchOwned PROVE Kept(k) OBVIOUS
  <2>1. k \in Keys /\ item[k].st \in {"absent", "pending"} BY OwnedLemma
  <2>2. k \notin same /\ k \notin stale /\ k # kept BY <1>3, <1>7, <1>8
  <2>3. item'[k] = item[k] BY <1>18, <2>1, <2>2
  <2> QED BY <2>1, <2>3 DEF Kept
<1>22. LaneStep
  <2> SUFFICES ASSUME NEW k \in Present(item), item'[k].st = "absent" PROVE Allowed(k)
    BY DEF LaneStep
  <2>1. k \in Keys /\ item[k].st # "absent" BY DEF Present
  <2>2. k # kept BY <1>6, <1>11, <1>17, <2>1
  <2>3. k \in stale \/ k \in same BY <1>18, <2>1, <2>2
  <2>4. CASE k \in stale BY <1>1, <1>8, <2>4 DEF Allowed
  <2>5. CASE k \in same
    <3>1. kept \in Present(item') BY <1>6, <1>11, <1>17 DEF Present
    <3>2. Lineage[item'[kept].prod] = Lineage[item[k].prod]
      BY <1>7, <1>10, <1>11, <1>17, <2>5
    <3>3. item[k].prod <= n /\ item[k].prod \in Nat /\ n \in Nat
      BY <1>5, <1>9, <2>1, <2>5, ConstantsLemma DEF ItemsOK, GoodItem
    <3>4. item'[kept].prod >= item[k].prod BY <1>11, <1>17, <3>3
    <3> QED BY <3>1, <3>2, <3>4 DEF Allowed
  <2> QED BY <2>3, <2>4, <2>5
<1>23. ASSUME NEW k \in Keys PROVE Grows(k)
  <2>1. CASE k = kept
    <3>1. item[k].prod <= n /\ item[k].prod \in Nat /\ n \in Nat /\ item'[k].prod = n
      BY <1>6, <1>7, <1>9, <1>11, <1>17, <2>1, ConstantsLemma
    <3> QED BY <1>6, <1>10, <2>1, <3>1 DEF Grows
  <2>2. CASE k # kept
    <3>1. item'[k].st # "absent" => item'[k] = item[k] BY <1>18, <2>2, NoItemLemma
    <3> QED BY <1>5, <3>1, SameGrowsLemma
  <2> QED BY <2>1, <2>2
<1> QED BY <1>1, <1>19, <1>20, <1>21, <1>22, <1>23, QueueStepLemma

----------------------------------------------------------------------------
(* What happens outside the lane                                           *)

LEMMA AgeLemma ==
  ASSUME LaneInv, NEW k \in Keys, Age(k)
  PROVE  LaneInv' /\ LaneStep
<1> DEFINE new == [item[k] EXCEPT !.aged = TRUE]
<1>1. /\ item' = [item EXCEPT ![k] = new] /\ UNCHANGED <<head, fetched, dead>>
      /\ member' = member /\ generation' = generation /\ told' = told
  BY DEF Age, storeVars, world
<1>2. item[k] \in ItemType /\ GoodItem(item[k]) /\ item \in [Keys -> ItemType]
  BY DEF LaneInv, ItemsOK
<1>3. new \in ItemType BY <1>2 DEF ItemType
<1>4. /\ new.st = item[k].st /\ new.prod = item[k].prod /\ new.rev = item[k].rev
      /\ new.fails = item[k].fails
  BY <1>2 DEF ItemType
<1> HIDE DEF new
<1>5. \A x \in Keys : item'[x] = IF x = k THEN new ELSE item[x] BY <1>1, <1>2
<1>6. \A x \in Keys : item'[x].st = item[x].st /\ item'[x].prod = item[x].prod
                        /\ item'[x].rev = item[x].rev /\ item'[x].fails = item[x].fails
  BY <1>4, <1>5
<1>7. ItemsOK'
  <2>1. item' \in [Keys -> ItemType] BY <1>1, <1>2, <1>3
  <2>2. \A x \in Keys : GoodItem(item'[x]) BY <1>6, <2>1 DEF LaneInv, ItemsOK, GoodItem
  <2>3. \A x \in Keys : GoodItem(item[x])' BY <2>2 DEF GoodItem
  <2> QED BY <2>1, <2>3 DEF ItemsOK
<1>8. HeadOK' /\ KeysOK' BY <1>1, <1>6 DEF LaneInv, HeadOK, SourceOf, KeysOK, KeyOK
<1>9. Closes(member') BY <1>1 DEF Closes, LaneInv, MembersOK
<1>10. ASSUME NEW x \in OwnedIn(member') PROVE Kept(x)
  <2>1. x \in Keys /\ \E b \in Batches : member[b][x].out = "open" BY <1>1 DEF OwnedIn
  <2>2. item[x].st \in {"absent", "pending"} BY <2>1 DEF LaneInv, OwnedPresent
  <2> QED BY <1>6, <2>1, <2>2 DEF Kept
<1>11. MembersOK' /\ OwnedPresent' /\ \A f \in fetched : FetchOK(f)'
  BY <1>1, <1>9, <1>10, CarryLemma
<1>12. FetchedOK' BY <1>1, <1>11 DEF FetchedOK
<1>13. ToldOK' /\ DeadOK' BY <1>1 DEF LaneInv, ToldOK, DeadOK
<1>14. LaneStep BY <1>6 DEF LaneStep, Present
<1> QED BY <1>7, <1>8, <1>11, <1>12, <1>13, <1>14 DEF LaneInv

\* Answers and reviews leave the lane alone.
LEMMA WorldStepLemma ==
  ASSUME LaneInv, UNCHANGED <<member, generation, told, item, head, fetched, dead>>
  PROVE  LaneInv' /\ LaneStep
<1>1. Closes(member') BY DEF Closes, LaneInv, MembersOK
<1> QED BY <1>1, QuietLemma

----------------------------------------------------------------------------
(* The theorems                                                            *)

LEMMA InitLemma == Init => LaneInv
<1> SUFFICES ASSUME Init PROVE LaneInv OBVIOUS
<1>1. PICK backlog \in SUBSET Keys :
        /\ item = [k \in Keys |-> IF k \in backlog THEN NewItem(k) ELSE NoItem]
        /\ head = Newest({0} \cup {Lineage[k].src : k \in backlog})
  BY DEF Init
<1>2. /\ member = [b \in Batches |-> [k \in Keys |-> Store!NoMember]]
      /\ generation = [k \in Keys |-> 0] /\ told = {} /\ fetched = {} /\ dead = {}
  BY DEF Init, Store!Init
<1>3. ItemsOK
  <2>1. item \in [Keys -> ItemType] BY <1>1, NoItemLemma
  <2>2. \A k \in Keys : GoodItem(item[k]) BY <1>1, NoItemLemma
  <2> QED BY <2>1, <2>2 DEF ItemsOK
<1>10. KeysOK BY <1>1, NoItemLemma, ConstantsLemma DEF KeysOK, KeyOK
<1>4. HeadOK
  <2> DEFINE f == [k \in backlog |-> Lineage[k].src]
             S == {f[k] : k \in backlog}
             T == {0} \cup S
  <2>1. f \in [backlog -> Nat] BY ConstantsLemma
  <2>2. head = Newest(T) BY <1>1
  <2>3. \A k \in backlog : Lineage[k].src \in S OBVIOUS
  <2>4. IsFiniteSet(backlog) BY ConstantsLemma, FS_Subset
  <2> HIDE DEF f
  <2>5. IsFiniteSet(S) /\ S \in SUBSET Nat BY <2>1, <2>4, ImageLemma
  <2> HIDE DEF S
  <2>6. T \in SUBSET Nat /\ T # {} BY <2>5
  <2>7. IsFiniteSet({0}) BY FS_Singleton
  <2>8. IsFiniteSet(T) BY <2>5, <2>7, FS_Union
  <2>9. \A k \in backlog : Lineage[k].src \in T BY <2>3
  <2> HIDE DEF T
  <2>10. head \in T /\ \A m \in T : m <= head BY <2>2, <2>6, <2>8, NewestLemma
  <2>11. ASSUME NEW k \in Keys, item[k].st # "absent" PROVE SourceOf(item[k]) <= head
    <3>1. k \in backlog /\ item[k].prod = k BY <1>1, <2>11, NoItemLemma
    <3> QED BY <2>9, <2>10, <3>1 DEF SourceOf
  <2> QED BY <2>6, <2>10, <2>11 DEF HeadOK
<1>5. Store!NoMember \in MemberType /\ Store!NoMember.out = "none"
  BY DEF Store!NoMember, MemberType
<1>6. member \in [Batches -> [Keys -> MemberType]]
      /\ \A b \in Batches : \A k \in Keys : member[b][k].out # "open"
  BY <1>2, <1>5
<1>7. MembersOK /\ OwnedPresent
  <2>1. generation \in [Keys -> Nat] BY <1>2
  <2> QED BY <1>6, <2>1 DEF MembersOK, OwnedPresent
<1>8. ToldOK /\ FetchedOK BY <1>2 DEF ToldOK, FetchedOK
<1>9. DeadOK BY <1>2, FS_EmptySet, ConstantsLemma DEF DeadOK
<1> QED BY <1>3, <1>4, <1>7, <1>8, <1>9, <1>10 DEF LaneInv

LEMMA NextLemma ==
  ASSUME LaneInv, [Next]_vars
  PROVE  LaneInv' /\ LaneStep
<1>1. CASE \E p \in Keys : Enqueue(p) BY <1>1, EnqueueLemma
<1>2. CASE \E b \in Batches, owner \in Owners, k \in Keys, span \in LeaseSpans :
             Claim(b, owner, k, span)
  BY <1>2, ClaimLemma
<1>3. CASE \E w \in told : Publisher(w)
  <2>1. PICK w \in told : Publisher(w) BY <1>3
  <2>2. CASE Fetch(w) BY <2>2, FetchLemma
  <2>3. CASE \E span \in LeaseSpans : Heartbeat(w, span) BY <2>3, HeartbeatLemma
  <2>4. CASE \E k \in DOMAIN w.fence, kind \in Kinds : Complete(w, k, kind)
    BY <2>4, CompleteLemma
  <2>5. CASE \E k \in DOMAIN w.fence : Replay(w, k) BY <2>5, ReplayLemma
  <2>6. CASE Late(w) BY <2>6, LateLemma
  <2> QED BY <2>1, <2>2, <2>3, <2>4, <2>5, <2>6 DEF Publisher
<1>4. CASE \E k \in Keys : ClaimRefused(k) BY <1>4, ClaimRefusedLemma
<1>5. CASE \E S \in SUBSET Keys : Maintain(S) \/ Terminalize(S)
  BY <1>5, MaintainLemma, TerminalizeLemma
<1>6. CASE Reconcile BY <1>6, ReconcileLemma
<1>7. CASE StoreStep BY <1>7, StoreStepLemma
<1>8. CASE \E k \in Keys : Age(k) BY <1>8, AgeLemma
<1>9. CASE (\E a \in {"closed", "private"} : Answer(a)) \/ ReviewMoves \/ UNCHANGED vars
  <2>1. UNCHANGED <<member, generation, told, item, head, fetched, dead>>
    BY <1>9 DEF Answer, ReviewMoves, storeVars, vars
  <2> QED BY <2>1, WorldStepLemma
<1> QED BY <1>1, <1>2, <1>3, <1>4, <1>5, <1>6, <1>7, <1>8, <1>9 DEF Next

LEMMA WorldLemma ==
  /\ Init => WorldOK
  /\ WorldOK /\ [Next]_vars => WorldOK'
<1>1. Init => WorldOK BY DEF Init, WorldOK
<1> SUFFICES ASSUME WorldOK, [Next]_vars PROVE WorldOK' BY <1>1
<1>2. CASE \E p \in Keys : Enqueue(p) BY <1>2 DEF Enqueue, world, WorldOK
<1>3. CASE \E b \in Batches, owner \in Owners, k \in Keys, span \in LeaseSpans :
             Claim(b, owner, k, span)
  BY <1>3 DEF Claim, world, WorldOK
<1>4. CASE \E k \in Keys : ClaimRefused(k) BY <1>4 DEF ClaimRefused, world, WorldOK
<1>5. CASE \E w \in told : Publisher(w)
  <2>1. PICK w \in told : Publisher(w) BY <1>5
  <2>2. CASE Fetch(w) BY <2>2 DEF Fetch, world, WorldOK
  <2>3. CASE \E span \in LeaseSpans : Heartbeat(w, span) BY <2>3 DEF Heartbeat, world, WorldOK
  <2>4. ASSUME NEW k, NEW kind, Settle(w, k, kind) PROVE WorldOK' BY <2>4 DEF Settle, WorldOK
  <2>5. CASE \E k \in DOMAIN w.fence, kind \in Kinds : Complete(w, k, kind)
    BY <2>4, <2>5 DEF Complete
  <2>6. CASE \E k \in DOMAIN w.fence : Replay(w, k) BY <2>4, <2>6 DEF Replay
  <2>7. CASE Late(w) BY <2>7 DEF Late, world, WorldOK
  <2> QED BY <2>1, <2>2, <2>3, <2>5, <2>6, <2>7 DEF Publisher
<1>6. CASE \E S \in SUBSET Keys : Maintain(S) \/ Terminalize(S)
  BY <1>6 DEF Maintain, Terminalize, world, WorldOK
<1>7. CASE Reconcile BY <1>7 DEF Reconcile, world, WorldOK
<1>8. CASE StoreStep BY <1>8 DEF StoreStep, world, WorldOK
<1>9. CASE \E k \in Keys : Age(k) BY <1>9 DEF Age, world, WorldOK
<1>10. CASE \E a \in {"closed", "private"} : Answer(a) BY <1>10 DEF Answer, WorldOK
<1>11. CASE ReviewMoves BY <1>11 DEF ReviewMoves, WorldOK
<1>12. CASE UNCHANGED vars BY <1>12 DEF vars, WorldOK
<1> QED BY <1>2, <1>3, <1>4, <1>5, <1>6, <1>7, <1>8, <1>9, <1>10, <1>11, <1>12 DEF Next

\* The inductive invariant: what the items, the memberships and the publishers'
\* fetched decisions know of each other.
THEOREM SpecLaneInv == Spec => []LaneInv
<1>1. LaneInv /\ [Next]_vars => LaneInv' BY NextLemma
<1> QED BY <1>1, InitLemma, PTL DEF Spec

\* The variables keep their types and the dead-letter lane its capacity
\* (deadLetterCapacityAvailableSync).
THEOREM SpecTypeOK == Spec => []TypeOK
<1>1. LaneInv /\ WorldOK => TypeOK
  <2> SUFFICES ASSUME LaneInv, WorldOK PROVE TypeOK OBVIOUS
  <2>1. fetched \subseteq FetchedType BY DEF LaneInv, FetchedOK, FetchOK
  <2>2. \A k \in Present(item) : item[k].prod \in Keys /\ item[k].rev > 0
    BY DEF LaneInv, ItemsOK, GoodItem, Present
  <2>3. item \in [Keys -> ItemType] /\ head \in Nat BY DEF LaneInv, ItemsOK, HeadOK
  <2>4. dead \subseteq [key : Keys, rev : Nat] /\ Cardinality(dead) <= DeadLetterSlots
    BY DEF LaneInv, DeadOK
  <2> QED BY <2>1, <2>2, <2>3, <2>4 DEF TypeOK, ItemType, FetchedType, WorldOK
<1>2. Spec => []WorldOK BY WorldLemma, PTL DEF Spec
<1> QED BY <1>1, <1>2, SpecLaneInv, PTL

\* What a publisher fetched under a membership that is still open is of its item's
\* lineage and not older, unless the item's revision moved on
\* (fetchPublicationBatch against enqueue, reconcile, prune and expiry).
THEOREM SpecFetchedIsCurrent == Spec => []FetchedIsCurrent
<1>1. LaneInv => FetchedIsCurrent
  <2> SUFFICES ASSUME LaneInv, NEW f \in fetched,
                      member[f.batch][f.key].out = "open", member[f.batch][f.key].gen = f.gen,
                      item[f.key].st # "absent", item[f.key].rev = member[f.batch][f.key].rev
               PROVE  f.prod >= item[f.key].prod /\ Lineage[f.prod] = Lineage[item[f.key].prod]
    BY DEF FetchedIsCurrent
  <2>1. FetchOK(f) BY DEF LaneInv, FetchedOK
  <2>2. f.key \in Keys /\ f.prod \in Keys /\ item[f.key].prod <= f.prod
        /\ Lineage[f.prod] = Lineage[f.key]
    BY <2>1 DEF FetchOK, FetchedType
  <2>3. KeyOK(f.key, item[f.key]) /\ GoodItem(item[f.key]) BY <2>2 DEF LaneInv, KeysOK, ItemsOK
  <2> QED BY <2>2, <2>3, ConstantsLemma DEF KeyOK, GoodItem
<1> QED BY <1>1, SpecLaneInv, PTL

\* A publication leaves the queue only by the report of a publisher that holds
\* this decision, accounted for, or for a newer source revision, or for an item of
\* its lineage that stays, or because GitHub said that its target is gone and no
\* publisher holds it as it is (or the target is private), or past its retention
\* for a new review.
THEOREM SpecPublicationNotLost == Spec => PublicationNotLost
<1>1. LaneInv /\ [Next]_vars =>
        [\A k \in Present(item) :
           item'[k].st = "absent" =>
             \/ \E f \in fetched : HeldBy(f, k) /\ Accounted(f, k)
             \/ SourceOf(item[k]) < head'
             \/ \E e \in Present(item') :
                  /\ Lineage[item'[e].prod] = Lineage[item[k].prod]
                  /\ item'[e].prod >= item[k].prod \/ e \in BatchOwned
             \/ gone # {} /\ k \notin BatchOwned
             \/ "private" \in gone /\ Leases(k)
             \/ item[k].st = "pending" /\ item[k].aged /\ reviewing']_vars
  BY NextLemma DEF LaneStep, Allowed
<1> QED BY <1>1, SpecLaneInv, PTL DEF Spec, PublicationNotLost
=============================================================================

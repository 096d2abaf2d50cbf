----------------------- MODULE ExactReviewQueue_proofs -----------------------
(***************************************************************************)
(* Safety of the review lane, for any number of pull requests, heads,      *)
(* revisions, leases, runs, claims and deployments.                        *)
(*                                                                         *)
(* The argument has two layers.  An item is sound by itself (ItemInv): its *)
(* columns agree, its failures are paid for by recoveries, a generation is *)
(* charged once, and a lease whose input is outdated is an older revision. *)
(* Every helper of the queue keeps that, whichever request calls it.  The  *)
(* queue relates items to what is outside of them (QueueInv): lease numbers*)
(* to the runs and workers that hold them, candidates of the alarm to free *)
(* slots, admitted commands to the decision that carries them.             *)
(***************************************************************************)
EXTENDS ExactReviewQueue, TLAPS, FiniteSetTheorems

\* The failures a number of recoveries pays for.
Paid(n) == RetryLimit * n

Sound(it) ==
  /\ it.st # "absent" => it.rev > 0
  /\ it.st = "absent" => it.dec.cmd = NoCommand
  /\ it.streak <= Paid(it.recov) + it.fails
  /\ it.fails = RetryLimit => it.st = "parked" /\ it.reason = "review_retry_exhausted"
  /\ it.chargeGen # 0 => it.starts = 0
  /\ it.starts <= 1
  /\ it.dec.kind = "recovery" => it.dec.cmd = NoCommand
  /\ IsActive(it) /\ it.leaseDec.kind = "recovery" => it.leaseDec.cmd = NoCommand
  /\ IsActive(it) /\ it.dec # it.leaseDec => HasNewerRevision(it)

ItemInv(it) == it \in ItemType /\ WellFormed(it) /\ Sound(it)

\* A lease ends or stays with its claimant.
KeepsLease(it, new) ==
  \/ new.lease = 0
  \/ new.lease = it.lease /\ new.run = it.run /\ new.att = it.att /\ new.gen = it.gen

\* The command of an item stays, and no refusal is recorded.
KeepsCommand(it, new) ==
  /\ it.dec.cmd # NoCommand => new.st # "absent" /\ new.dec.cmd = it.dec.cmd
  /\ new.reason = "scanner_refused" => it.reason = "scanner_refused"

Follows(it, new) == ItemInv(new) /\ KeepsLease(it, new) /\ KeepsCommand(it, new)

----------------------------------------------------------------------------
(* Constants                                                               *)

LEMMA PaidLemma ==
  /\ Paid(0) = 0
  /\ \A n \in Nat : Paid(n) \in Nat /\ Paid(n + 1) = Paid(n) + RetryLimit
  /\ \A m, n \in Nat : m <= n => Paid(m) <= Paid(n)
<1>1. RetryLimit \in Nat BY LimitsAssumption
<1>2. \A n \in Nat : Paid(n) \in Nat BY <1>1 DEF Paid
<1>3. \A n \in Nat : Paid(n + 1) = Paid(n) + RetryLimit BY <1>1 DEF Paid
<1>4. \A m, n \in Nat : m <= n => Paid(m) <= Paid(n) BY <1>1 DEF Paid
<1> QED BY <1>1, <1>2, <1>3, <1>4 DEF Paid

LEMMA ConstantsLemma ==
  /\ NoDecision \in Decision /\ NoDecision.cmd = NoCommand /\ NoDecision.kind # "recovery"
  /\ "none" \in Phases /\ "none" \in Reasons
  /\ 0 \in 0 .. 2 /\ 1 \in 0 .. 2 /\ 0 \in 0 .. MaxHead /\ 0 \in 0 .. RetryLimit
  /\ 0 \in 0 .. ParkedRecoveryLimit
  /\ RetryLimit \in Nat /\ RetryLimit > 0 /\ ParkedRecoveryLimit \in Nat
BY LimitsAssumption DEF NoDecision, Decision, Kinds, Phases, Reasons, NoCommand

LEMMA NoItemLemma == ItemInv(NoItem) /\ NoItem.st = "absent" /\ NoItem.lease = 0
<1>1. NoItem \in ItemType BY ConstantsLemma DEF NoItem, ItemType
<1>2. WellFormed(NoItem) BY DEF NoItem, WellFormed, IsActive
<1>3. Sound(NoItem)
  <2>1. Paid(0) = 0 /\ RetryLimit # 0 BY PaidLemma, ConstantsLemma
  <2>2. /\ NoItem.st = "absent" /\ NoItem.streak = 0 /\ NoItem.recov = 0 /\ NoItem.fails = 0
        /\ NoItem.chargeGen = 0 /\ NoItem.starts = 0 /\ NoItem.dec = NoDecision
    BY DEF NoItem
  <2> QED BY <2>1, <2>2, ConstantsLemma DEF Sound, IsActive
<1> QED BY <1>1, <1>2, <1>3 DEF ItemInv, NoItem

\* clearExactReviewLease, and where its callers take the item.
LEMMA ClearLeaseLemma ==
  ASSUME NEW it \in ItemType
  PROVE  LET c == ClearLease(it)
         IN  /\ c \in ItemType
             /\ c.st = it.st /\ c.rev = it.rev /\ c.dec = it.dec /\ c.wm = it.wm
             /\ c.fails = it.fails /\ c.reason = it.reason /\ c.recov = it.recov
             /\ c.epoch = it.epoch /\ c.streak = it.streak /\ c.due = it.due
             /\ c.lease = 0 /\ c.run = 0 /\ c.att = 0 /\ c.gen = 0
             /\ c.chargeGen = 0 /\ c.starts = 0 /\ c.leaseRev = 0 /\ c.phase = "none"
<1>1. ClearLease(it) \in ItemType BY ConstantsLemma DEF ClearLease, ItemType
<1> QED BY <1>1 DEF ClearLease, ItemType

\* An item without a lease that waits in the queue.
LEMMA PendingLemma ==
  ASSUME NEW it \in ItemType, NEW c \in ItemType, ItemInv(it),
         c.lease = 0, c.run = 0, c.gen = 0, c.chargeGen = 0, c.starts = 0,
         c.st = "pending", c.reason = "none", c.rev >= it.rev, c.rev > 0,
         c.dec.kind = "recovery" => c.dec.cmd = NoCommand,
         \/ c.fails = it.fails /\ c.recov = it.recov /\ c.streak = it.streak /\ it.st # "parked"
         \/ c.fails = 0 /\ c.streak = 0
  PROVE  ItemInv(c) /\ KeepsLease(it, c)
<1>1. WellFormed(c) BY DEF WellFormed, IsActive
<1>2. c.recov \in Nat BY ConstantsLemma DEF ItemType
<1>3. Paid(c.recov) \in Nat /\ RetryLimit # 0
  <2>1. Paid(c.recov) \in Nat BY <1>2, PaidLemma, Zenon
  <2>2. RetryLimit # 0 BY ConstantsLemma
  <2> QED BY <2>1, <2>2
<1>4. c.streak <= Paid(c.recov) + c.fails /\ c.fails # RetryLimit
  BY <1>3 DEF Sound, ItemInv
<1>5. Sound(c) BY <1>4 DEF Sound, IsActive
<1> QED BY <1>1, <1>5 DEF ItemInv, KeepsLease

LEMMA BudgetType ==
  ASSUME NEW it \in ItemType, NEW reason \in Reasons, NEW fails \in 0 .. RetryLimit,
         NEW policy \in Nat, NEW recov \in 0 .. ParkedRecoveryLimit, NEW streak \in Nat
  PROVE  [it EXCEPT !.st = "pending", !.reason = reason, !.fails = fails, !.epoch = policy,
                    !.recov = recov, !.streak = streak] \in ItemType
BY DEF ItemType

LEMMA SelfFollows ==
  ASSUME NEW it, ItemInv(it)
  PROVE  Follows(it, it)
BY DEF Follows, KeepsLease, KeepsCommand, ItemInv, Sound

\* reclaimExpiredExactReviewLease
LEMMA ReclaimFollows ==
  ASSUME NEW it, ItemInv(it), epoch \in Nat
  PROVE  Follows(it, Reclaim(it))
<1> DEFINE c == ClearLease(it)
<1>1. /\ it \in ItemType /\ c \in ItemType
      /\ c.rev = it.rev /\ c.dec = it.dec /\ c.wm = it.wm
      /\ c.fails = it.fails /\ c.reason = it.reason /\ c.recov = it.recov
      /\ c.streak = it.streak /\ c.lease = 0 /\ c.run = 0 /\ c.gen = 0
      /\ c.chargeGen = 0 /\ c.starts = 0
  BY ClearLeaseLemma DEF ItemInv
<1>2. CASE ~IsActive(it) \/ it.live BY <1>2, SelfFollows DEF Reclaim
<1>3. CASE IsActive(it) /\ ~it.live
  <2>1. it.st # "parked" /\ it.st # "absent" /\ it.reason = "none"
    BY <1>3 DEF IsActive, ItemInv, WellFormed
  <2>2. CASE ~RetryIdentityChanged(it, it.leaseDec, it.dec) /\ it.leaseDec.kind = "recovery"
    <3>1. it.dec.cmd = NoCommand
      BY <2>2 DEF RetryIdentityChanged, InputIdentityChanged, ItemInv, Sound
    <3>2. Reclaim(it) = NoItem BY <1>3, <2>2 DEF Reclaim
    <3> QED BY <3>1, <3>2, NoItemLemma DEF Follows, KeepsLease, KeepsCommand, NoItem
  <2>3. CASE ~RetryIdentityChanged(it, it.leaseDec, it.dec) /\ it.leaseDec.kind # "recovery"
    <3> DEFINE new == [c EXCEPT !.st = "pending", !.due = TRUE]
    <3>1. Reclaim(it) = new BY <1>3, <2>3 DEF Reclaim
    <3> HIDE DEF c
    <3>2. new \in ItemType BY <1>1 DEF ItemType
    <3>3. /\ new.st = "pending" /\ new.rev = it.rev /\ new.dec = it.dec
          /\ new.fails = it.fails /\ new.reason = "none" /\ new.recov = it.recov
          /\ new.streak = it.streak /\ new.lease = 0 /\ new.run = 0 /\ new.gen = 0
          /\ new.chargeGen = 0 /\ new.starts = 0
      BY <1>1, <2>1 DEF ItemType
    <3> HIDE DEF new
    <3>4. ItemInv(new) /\ KeepsLease(it, new)
      BY <1>1, <2>1, <3>2, <3>3, PendingLemma DEF ItemInv, Sound, ItemType
    <3> QED BY <3>1, <3>3, <3>4 DEF Follows, KeepsCommand
  <2>4. CASE RetryIdentityChanged(it, it.leaseDec, it.dec)
    <3> DEFINE new == [c EXCEPT !.st = "pending", !.due = TRUE, !.fails = 0,
                                !.epoch = epoch, !.streak = 0]
    <3>1. Reclaim(it) = new BY <1>3, <2>4 DEF Reclaim
    <3> HIDE DEF c
    <3>2. new \in ItemType BY <1>1, ConstantsLemma DEF ItemType
    <3>3. /\ new.st = "pending" /\ new.rev = it.rev /\ new.dec = it.dec
          /\ new.fails = 0 /\ new.reason = "none" /\ new.streak = 0
          /\ new.lease = 0 /\ new.run = 0 /\ new.gen = 0
          /\ new.chargeGen = 0 /\ new.starts = 0
      BY <1>1, <2>1 DEF ItemType
    <3> HIDE DEF new
    <3>4. ItemInv(new) /\ KeepsLease(it, new)
      BY <1>1, <2>1, <3>2, <3>3, PendingLemma DEF ItemInv, Sound, ItemType
    <3> QED BY <3>1, <3>3, <3>4 DEF Follows, KeepsCommand
  <2> QED BY <2>2, <2>3, <2>4
<1> QED BY <1>2, <1>3

\* recoverParkedExactReviewItems: a recovery pays for the failures it forgets.
LEMMA RecoverParkedFollows ==
  ASSUME NEW it, ItemInv(it), epoch \in Nat
  PROVE  Follows(it, RecoverParked(it))
<1> DEFINE new == [it EXCEPT !.st = "pending", !.reason = "none", !.fails = 0, !.epoch = epoch,
                  !.recov = IF it.epoch # epoch THEN 0 ELSE it.recov + 1,
                  !.streak = IF it.epoch # epoch THEN 0 ELSE it.streak]
           recov == IF it.epoch # epoch THEN 0 ELSE it.recov + 1
           streak == IF it.epoch # epoch THEN 0 ELSE it.streak
<1>1. CASE RecoverParked(it) = it BY <1>1, SelfFollows
<1>2. CASE /\ it.st = "parked" /\ it.reason \in Recoverable
           /\ it.recov < ParkedRecoveryLimit /\ it.due
  <2>1. it \in ItemType BY DEF ItemInv
  <2>2. recov \in 0 .. ParkedRecoveryLimit /\ streak \in Nat
    BY <1>2, <2>1, ConstantsLemma DEF ItemType
  <2>3. RecoverParked(it) = new /\ new = [it EXCEPT !.st = "pending", !.reason = "none", !.fails = 0,
                                          !.epoch = epoch, !.recov = recov, !.streak = streak]
    BY <1>2 DEF RecoverParked
  <2>4. streak <= Paid(recov)
    <3>1. it.recov \in Nat /\ it.fails \in 0 .. RetryLimit /\ it.streak \in Nat
      BY <2>1, ConstantsLemma DEF ItemType
    <3>2. Paid(0) = 0 /\ Paid(it.recov) \in Nat /\ Paid(it.recov + 1) = Paid(it.recov) + RetryLimit
      BY <3>1, PaidLemma
    <3>3. it.streak <= Paid(it.recov) + it.fails BY DEF ItemInv, Sound
    <3> QED BY <3>1, <3>2, <3>3, ConstantsLemma
  <2> HIDE DEF recov, streak, new
  <2>5. new \in ItemType
    <3>1. "none" \in Reasons /\ 0 \in 0 .. RetryLimit BY ConstantsLemma
    <3>2. [it EXCEPT !.st = "pending", !.reason = "none", !.fails = 0,
                     !.epoch = epoch, !.recov = recov, !.streak = streak] \in ItemType
      BY <2>1, <2>2, <3>1, BudgetType, Zenon
    <3> QED BY <2>3, <3>2, Zenon
  <2>6. /\ new.st = "pending" /\ new.reason = "none" /\ new.fails = 0 /\ new.recov = recov
        /\ new.streak = streak /\ new.rev = it.rev /\ new.dec = it.dec /\ new.lease = it.lease
        /\ new.run = it.run /\ new.att = it.att /\ new.gen = it.gen /\ new.chargeGen = it.chargeGen
        /\ new.starts = it.starts
    BY <2>1, <2>3 DEF ItemType
  <2>7. it.lease = 0 /\ it.run = 0 /\ it.gen = 0
    BY <1>2 DEF ItemInv, WellFormed, IsActive
  <2>8. WellFormed(new) BY <2>6, <2>7 DEF WellFormed, IsActive
  <2>9. Sound(new)
    <3>0. recov \in Nat BY <2>2, ConstantsLemma
    <3>1. Paid(recov) \in Nat BY <3>0, PaidLemma
    <3>2. new.streak <= Paid(new.recov) + new.fails BY <2>2, <2>4, <2>6, <3>1
    <3> QED BY <1>2, <2>6, <3>2, ConstantsLemma DEF Sound, IsActive, ItemInv
  <2> QED BY <1>2, <2>3, <2>5, <2>6, <2>8, <2>9 DEF Follows, KeepsLease, KeepsCommand, ItemInv
<1> QED BY <1>1, <1>2 DEF RecoverParked

LEMMA FollowsTrans ==
  ASSUME NEW it, NEW mid, NEW new, Follows(it, mid), Follows(mid, new)
  PROVE  Follows(it, new)
BY DEF Follows, KeepsLease, KeepsCommand

----------------------------------------------------------------------------
(* Items that wait: pending or parked, without a lease.                    *)

\* What an item without a lease needs to be sound.
LEMMA WaitingLemma ==
  ASSUME NEW c \in ItemType,
         c.lease = 0, c.run = 0, c.gen = 0, c.rev > 0,
         c.chargeGen # 0 => c.starts = 0, c.starts <= 1,
         (c.st = "pending" /\ c.reason = "none") \/ (c.st = "parked" /\ c.reason # "none"),
         c.dec.kind = "recovery" => c.dec.cmd = NoCommand,
         c.streak <= Paid(c.recov) + c.fails,
         c.fails = RetryLimit => c.reason = "review_retry_exhausted"
  PROVE  ItemInv(c)
<1>1. WellFormed(c) BY DEF WellFormed, IsActive
<1>2. "review_retry_exhausted" # "none" OBVIOUS
<1>3. Sound(c) BY <1>2 DEF Sound, IsActive
<1> QED BY <1>1, <1>3 DEF ItemInv

\* The same facts, read from a sound item that waits.
LEMMA WaitingFacts ==
  ASSUME NEW it, ItemInv(it), it.st \in {"pending", "parked"}
  PROVE  /\ it \in ItemType /\ it.lease = 0 /\ it.run = 0 /\ it.gen = 0 /\ it.rev > 0
         /\ it.chargeGen # 0 => it.starts = 0
         /\ it.starts <= 1
         /\ it.dec.kind = "recovery" => it.dec.cmd = NoCommand
         /\ it.streak <= Paid(it.recov) + it.fails
         /\ it.fails = RetryLimit => it.reason = "review_retry_exhausted"
         /\ it.st = "pending" => it.reason = "none" /\ it.fails < RetryLimit
<1>1. it \in ItemType /\ WellFormed(it) /\ Sound(it) BY DEF ItemInv
<1>2. it.fails \in 0 .. RetryLimit BY <1>1 DEF ItemType
<1>3. it.fails # RetryLimit => it.fails < RetryLimit BY <1>2, ConstantsLemma
<1> QED BY <1>1, <1>3 DEF WellFormed, Sound, IsActive

\* A new row of the queue.
LEMMA NewItemLemma ==
  ASSUME NEW d \in Decision, NEW rev \in Nat \ {0}, epoch \in Nat,
         d.kind = "recovery" => d.cmd = NoCommand
  PROVE  /\ ItemInv(NewItem(d, rev)) /\ NewItem(d, rev).lease = 0
         /\ NewItem(d, rev).st = "pending" /\ NewItem(d, rev).dec = d
         /\ NewItem(d, rev).reason = "none"
<1> DEFINE wm == IF d.kind \in {"push", "draft"} THEN d.src ELSE 0
           new == [NoItem EXCEPT !.st = "pending", !.rev = rev, !.dec = d, !.epoch = epoch,
                                 !.wm = wm]
<1>1. wm \in 0 .. MaxHead BY ConstantsLemma DEF Decision
<1>2. NewItem(d, rev) = new BY DEF NewItem
<1>3. NoItem \in ItemType BY NoItemLemma DEF ItemInv
<1> HIDE DEF wm
<1>4. new \in ItemType BY <1>1, <1>3 DEF ItemType
<1>5. /\ new.st = "pending" /\ new.rev = rev /\ new.dec = d /\ new.lease = 0 /\ new.run = 0
      /\ new.gen = 0 /\ new.chargeGen = 0 /\ new.starts = 0 /\ new.fails = 0
      /\ new.recov = 0 /\ new.streak = 0 /\ new.reason = "none"
  BY DEF NoItem
<1> HIDE DEF new
<1>6. Paid(0) = 0 /\ RetryLimit # 0 BY PaidLemma, ConstantsLemma
<1>7. new.streak <= Paid(new.recov) + new.fails /\ new.fails # RetryLimit BY <1>5, <1>6
<1>8. ItemInv(new)
  <2>1. new.rev > 0 /\ new.starts <= 1 /\ (new.chargeGen # 0 => new.starts = 0)
        /\ (new.dec.kind = "recovery" => new.dec.cmd = NoCommand)
    BY <1>5
  <2>2. ((new.st = "pending" /\ new.reason = "none") \/ (new.st = "parked" /\ new.reason # "none"))
        /\ (new.fails = RetryLimit => new.reason = "review_retry_exhausted")
    BY <1>5, <1>7
  <2> QED BY <1>4, <1>5, <1>7, <2>1, <2>2, WaitingLemma, Zenon
<1> QED BY <1>2, <1>5, <1>8

\* resetExactReviewAdmittedRetryState of an item without a lease.
LEMMA ResetAdmittedLemma ==
  ASSUME NEW it, ItemInv(it), it.st \in {"pending", "parked"}, epoch \in Nat
  PROVE  LET new == ResetAdmitted(it)
         IN  /\ ItemInv(new) /\ new.st = "pending" /\ new.reason = "none"
             /\ new.dec = it.dec /\ new.rev = it.rev /\ new.lease = 0 /\ new.wm = it.wm
<1> DEFINE new == ResetAdmitted(it)
<1>1. it \in ItemType BY DEF ItemInv
<1>2. new \in ItemType
  <2>1. "none" \in Reasons /\ 0 \in 0 .. RetryLimit /\ 0 \in 0 .. ParkedRecoveryLimit /\ 0 \in Nat
    BY ConstantsLemma
  <2>2. [it EXCEPT !.st = "pending", !.reason = "none", !.recov = 0, !.fails = 0,
                   !.epoch = epoch, !.streak = 0]
          = [it EXCEPT !.st = "pending", !.reason = "none", !.fails = 0, !.epoch = epoch,
                       !.recov = 0, !.streak = 0]
    BY <1>1 DEF ItemType
  <2>3. [it EXCEPT !.st = "pending", !.reason = "none", !.fails = 0, !.epoch = epoch,
                   !.recov = 0, !.streak = 0] \in ItemType
    BY <1>1, <2>1, BudgetType, Zenon
  <2> QED BY <2>2, <2>3, Zenon DEF ResetAdmitted
<1>3. /\ new.st = "pending" /\ new.reason = "none" /\ new.recov = 0 /\ new.fails = 0
      /\ new.streak = 0 /\ new.dec = it.dec /\ new.rev = it.rev /\ new.lease = it.lease
      /\ new.run = it.run /\ new.gen = it.gen /\ new.chargeGen = it.chargeGen
      /\ new.starts = it.starts /\ new.wm = it.wm
  BY <1>1 DEF ResetAdmitted, ItemType
<1> HIDE DEF new
<1>4. Paid(0) = 0 /\ RetryLimit # 0 BY PaidLemma, ConstantsLemma
<1>5. ItemInv(new)
  <2>1. new.streak <= Paid(new.recov) + new.fails /\ new.fails # RetryLimit BY <1>3, <1>4
  <2>2. /\ new.lease = 0 /\ new.run = 0 /\ new.gen = 0 /\ new.rev > 0
        /\ new.chargeGen # 0 => new.starts = 0
        /\ new.starts <= 1
        /\ new.dec.kind = "recovery" => new.dec.cmd = NoCommand
    BY <1>3, WaitingFacts
  <2>3. ((new.st = "pending" /\ new.reason = "none") \/ (new.st = "parked" /\ new.reason # "none"))
        /\ (new.fails = RetryLimit => new.reason = "review_retry_exhausted")
    BY <1>3, <2>1
  <2> QED BY <1>2, <2>1, <2>2, <2>3, WaitingLemma, Zenon
<1> QED BY <1>3, <1>5, WaitingFacts DEF new

\* parkRecoverableExactReviewItem of an item without a lease.
LEMMA ParkLemma ==
  ASSUME NEW c \in ItemType, NEW reason \in Reasons, reason # "none",
         c.lease = 0, c.run = 0, c.gen = 0, c.rev > 0,
         c.chargeGen # 0 => c.starts = 0, c.starts <= 1,
         c.dec.kind = "recovery" => c.dec.cmd = NoCommand,
         c.streak <= Paid(c.recov) + c.fails,
         c.fails = RetryLimit => reason = "review_retry_exhausted"
  PROVE  LET new == Park(c, reason)
         IN  /\ ItemInv(new) /\ new.st = "parked" /\ new.reason = reason
             /\ new.dec = c.dec /\ new.lease = 0 /\ new.rev = c.rev
<1> DEFINE new == Park(c, reason)
<1>1. new \in ItemType BY DEF Park, ItemType
<1>2. /\ new.st = "parked" /\ new.reason = reason /\ new.recov = c.recov /\ new.fails = c.fails
      /\ new.streak = c.streak /\ new.dec = c.dec /\ new.rev = c.rev /\ new.lease = 0
      /\ new.run = 0 /\ new.gen = 0 /\ new.chargeGen = c.chargeGen
      /\ new.starts = c.starts
  BY DEF Park, ItemType
<1> HIDE DEF new
<1>3. ItemInv(new) BY <1>1, <1>2, WaitingLemma
<1> QED BY <1>2, <1>3 DEF new

LEMMA CountType ==
  ASSUME NEW it \in ItemType, NEW fails \in 0 .. RetryLimit, NEW streak \in Nat,
         NEW policy \in Nat
  PROVE  [it EXCEPT !.fails = fails, !.streak = streak, !.epoch = policy, !.due = FALSE]
           \in ItemType
BY DEF ItemType

\* One more failure of a waiting item: it stays below the limit or is parked.
LEMMA CountFailureLemma ==
  ASSUME NEW it, ItemInv(it), it.st = "pending", epoch \in Nat
  PROVE  LET new == CountFailure(it)
         IN  /\ ItemInv(new) /\ new.lease = 0 /\ new.dec = it.dec
             /\ new.st # "absent" /\ new.reason # "scanner_refused"
<1> DEFINE n == [it EXCEPT !.fails = it.fails + 1, !.streak = it.streak + 1,
                           !.epoch = epoch, !.due = FALSE]
<1>1. /\ it \in ItemType /\ it.lease = 0 /\ it.run = 0 /\ it.gen = 0 /\ it.rev > 0
      /\ it.chargeGen # 0 => it.starts = 0
      /\ it.starts <= 1
      /\ it.dec.kind = "recovery" => it.dec.cmd = NoCommand
      /\ it.streak <= Paid(it.recov) + it.fails
      /\ it.reason = "none" /\ it.fails < RetryLimit
  BY WaitingFacts
<1>2. it.fails + 1 \in 0 .. RetryLimit /\ it.streak + 1 \in Nat /\ it.fails \in Nat
      /\ it.streak \in Nat /\ it.recov \in Nat
  BY <1>1, ConstantsLemma DEF ItemType
<1>3. n \in ItemType BY <1>1, <1>2, CountType, Zenon
<1>4. /\ n.st = "pending" /\ n.reason = "none" /\ n.recov = it.recov /\ n.fails = it.fails + 1
      /\ n.streak = it.streak + 1 /\ n.dec = it.dec /\ n.rev = it.rev /\ n.lease = 0
      /\ n.run = 0 /\ n.gen = 0 /\ n.chargeGen = it.chargeGen
      /\ n.starts = it.starts
  BY <1>1 DEF ItemType
<1>5. CountFailure(it) = IF n.fails >= RetryLimit THEN Park(n, "review_retry_exhausted") ELSE n
  BY DEF CountFailure
<1> HIDE DEF n
<1>6. Paid(it.recov) \in Nat BY <1>2, PaidLemma
<1>7. n.streak <= Paid(n.recov) + n.fails BY <1>1, <1>2, <1>4, <1>6
<1>8. CASE n.fails >= RetryLimit
  <2>1. "review_retry_exhausted" \in Reasons /\ "review_retry_exhausted" # "none"
        /\ "review_retry_exhausted" # "scanner_refused"
    BY DEF Reasons, Recoverable
  <2> QED BY <1>1, <1>3, <1>4, <1>5, <1>7, <1>8, <2>1, ParkLemma
<1>9. CASE ~(n.fails >= RetryLimit)
  <2>1. n.fails # RetryLimit BY <1>2, <1>4, <1>9, ConstantsLemma
  <2>2. CountFailure(it) = n BY <1>5, <1>9
  <2>3. n.rev > 0 /\ n.starts <= 1 /\ (n.chargeGen # 0 => n.starts = 0)
        /\ (n.dec.kind = "recovery" => n.dec.cmd = NoCommand)
    BY <1>1, <1>4
  <2>4. ((n.st = "pending" /\ n.reason = "none") \/ (n.st = "parked" /\ n.reason # "none"))
        /\ (n.fails = RetryLimit => n.reason = "review_retry_exhausted")
    BY <1>4, <2>1
  <2>5. ItemInv(n) BY <1>3, <1>4, <1>7, <2>3, <2>4, WaitingLemma, Zenon
  <2> QED BY <1>4, <2>2, <2>5
<1> QED BY <1>8, <1>9

----------------------------------------------------------------------------
(* finishExactReviewQueueItem                                              *)

\* An active item whose lease is cleared: what it still carries.
LEMMA ClearedFacts ==
  ASSUME NEW it, ItemInv(it), IsActive(it)
  PROVE  LET c == ClearLease(it)
         IN  /\ it \in ItemType /\ c \in ItemType
             /\ c.rev = it.rev /\ c.dec = it.dec /\ c.fails = it.fails /\ c.recov = it.recov
             /\ c.streak = it.streak /\ c.lease = 0 /\ c.run = 0 /\ c.gen = 0
             /\ c.chargeGen = 0 /\ c.starts = 0 /\ c.epoch = it.epoch
             /\ c.reason = "none" /\ c.rev > 0 /\ c.fails # RetryLimit
             /\ c.streak <= Paid(c.recov) + c.fails
             /\ c.dec.kind = "recovery" => c.dec.cmd = NoCommand
<1> DEFINE c == ClearLease(it)
<1>1. it \in ItemType BY DEF ItemInv
<1>2. /\ c \in ItemType
      /\ c.st = it.st /\ c.rev = it.rev /\ c.dec = it.dec
      /\ c.fails = it.fails /\ c.reason = it.reason /\ c.recov = it.recov
      /\ c.epoch = it.epoch /\ c.streak = it.streak
      /\ c.lease = 0 /\ c.run = 0 /\ c.gen = 0 /\ c.chargeGen = 0 /\ c.starts = 0
  BY <1>1, ClearLeaseLemma
<1>3. it.st # "parked" /\ it.st # "absent" /\ it.reason = "none"
  BY DEF IsActive, ItemInv, WellFormed
<1>4. it.rev > 0 /\ it.fails # RetryLimit /\ it.streak <= Paid(it.recov) + it.fails
      /\ (it.dec.kind = "recovery" => it.dec.cmd = NoCommand)
  BY <1>3 DEF ItemInv, Sound
<1> HIDE DEF c
<1> QED BY <1>1, <1>2, <1>3, <1>4 DEF c

\* The item goes back to the queue with its command.
LEMMA RequeuedLemma ==
  ASSUME NEW it, ItemInv(it), IsActive(it), epoch \in Nat, NEW policy \in Nat,
         NEW outcome, NEW requeueLatest, NEW sourceChanged, NEW policyChanged
  PROVE  LET new == Requeued(it, outcome, requeueLatest, sourceChanged, policyChanged, policy)
         IN  /\ ItemInv(new) /\ new.lease = 0 /\ new.dec = it.dec
             /\ new.st # "absent" /\ new.reason # "scanner_refused"
<1> DEFINE c == ClearLease(it)
           p == [c EXCEPT !.st = "pending", !.due = FALSE]
           q == [p EXCEPT !.reason = "none"]
           r == [p EXCEPT !.fails = 0, !.epoch = policy, !.reason = "none", !.recov = 0,
                          !.streak = 0]
<1>1. /\ c \in ItemType
      /\ c.rev = it.rev /\ c.dec = it.dec /\ c.lease = 0 /\ c.run = 0 /\ c.gen = 0
      /\ c.chargeGen = 0 /\ c.starts = 0
      /\ c.reason = "none" /\ c.rev > 0 /\ c.fails # RetryLimit
      /\ c.streak <= Paid(c.recov) + c.fails
      /\ c.dec.kind = "recovery" => c.dec.cmd = NoCommand
  BY ClearedFacts
<1>2. Requeued(it, outcome, requeueLatest, sourceChanged, policyChanged, policy) \in
        {q, CountFailure(p), r}
  BY DEF Requeued
<1> HIDE DEF c
<1>3. p \in ItemType BY <1>1 DEF ItemType
<1>4. /\ p.st = "pending" /\ p.reason = "none" /\ p.rev = c.rev /\ p.dec = c.dec
      /\ p.fails = c.fails /\ p.recov = c.recov /\ p.streak = c.streak
      /\ p.lease = 0 /\ p.run = 0 /\ p.gen = 0 /\ p.chargeGen = 0 /\ p.starts = 0
  BY <1>1 DEF ItemType
<1> HIDE DEF p
<1>5. ItemInv(p)
  <2>1. ((p.st = "pending" /\ p.reason = "none") \/ (p.st = "parked" /\ p.reason # "none"))
        /\ (p.fails = RetryLimit => p.reason = "review_retry_exhausted")
    BY <1>1, <1>4
  <2>2. /\ p.rev > 0 /\ p.starts <= 1 /\ (p.chargeGen # 0 => p.starts = 0)
        /\ (p.dec.kind = "recovery" => p.dec.cmd = NoCommand)
        /\ p.streak <= Paid(p.recov) + p.fails
    BY <1>1, <1>4
  <2> QED BY <1>3, <1>4, <2>1, <2>2, WaitingLemma, Zenon
<1>6. q = p
  BY <1>3, <1>4 DEF ItemType
<1>7. /\ ItemInv(CountFailure(p)) /\ CountFailure(p).lease = 0 /\ CountFailure(p).dec = p.dec
      /\ CountFailure(p).st # "absent" /\ CountFailure(p).reason # "scanner_refused"
  BY <1>4, <1>5, CountFailureLemma
<1>8. ItemInv(r) /\ r.lease = 0 /\ r.dec = p.dec /\ r.st = "pending" /\ r.reason = "none"
  <2>1. /\ "none" \in Reasons /\ 0 \in 0 .. RetryLimit /\ 0 \in 0 .. ParkedRecoveryLimit /\ 0 \in Nat
    BY ConstantsLemma
  <2>2. r = [p EXCEPT !.st = "pending", !.reason = "none", !.fails = 0, !.epoch = policy,
                      !.recov = 0, !.streak = 0]
    BY <1>3, <1>4 DEF ItemType
  <2>3. r \in ItemType
    <3>1. [p EXCEPT !.st = "pending", !.reason = "none", !.fails = 0, !.epoch = policy,
                    !.recov = 0, !.streak = 0] \in ItemType
      BY <1>3, <2>1, BudgetType, Zenon
    <3> QED BY <2>2, <3>1, Zenon
  <2>4. /\ r.st = "pending" /\ r.reason = "none" /\ r.rev = p.rev /\ r.dec = p.dec
        /\ r.fails = 0 /\ r.recov = 0 /\ r.streak = 0
        /\ r.lease = 0 /\ r.run = 0 /\ r.gen = 0 /\ r.chargeGen = 0 /\ r.starts = 0
    BY <1>3, <1>4 DEF ItemType
  <2> HIDE DEF r
  <2>5. ItemInv(r)
    <3>0. Paid(0) = 0 /\ RetryLimit # 0 BY PaidLemma, ConstantsLemma
    <3>1. ((r.st = "pending" /\ r.reason = "none") \/ (r.st = "parked" /\ r.reason # "none"))
          /\ (r.fails = RetryLimit => r.reason = "review_retry_exhausted")
      BY <2>4, <3>0
    <3>2. /\ r.rev > 0 /\ r.starts <= 1 /\ (r.chargeGen # 0 => r.starts = 0)
          /\ (r.dec.kind = "recovery" => r.dec.cmd = NoCommand)
          /\ r.streak <= Paid(r.recov) + r.fails
      BY <1>1, <1>4, <2>4, <3>0
    <3> QED BY <2>3, <2>4, <3>1, <3>2, WaitingLemma, Zenon
  <2> QED BY <2>4, <2>5
<1> HIDE DEF r, q
<1> QED BY <1>1, <1>2, <1>4, <1>5, <1>6, <1>7, <1>8

\* The review ended and nothing newer waits.
LEMMA SettledLemma ==
  ASSUME NEW it, ItemInv(it), IsActive(it), NEW outcome,
         it.leaseDec.kind = "recovery" => it.leaseDec.cmd = NoCommand
  PROVE  LET new == Settled(it, outcome)
         IN  /\ ItemInv(new) /\ new.lease = 0 /\ new.reason # "scanner_refused"
             /\ new.st = "absent" => new = NoItem
<1> DEFINE c == ClearLease(it)
           h == [Park(c, "oversized_pull_request") EXCEPT !.dec = it.leaseDec]
           i == Park(c, "source_incompatible")
<1>1. /\ it \in ItemType /\ c \in ItemType
      /\ c.rev = it.rev /\ c.dec = it.dec /\ c.lease = 0 /\ c.run = 0 /\ c.gen = 0
      /\ c.chargeGen = 0 /\ c.starts = 0
      /\ c.reason = "none" /\ c.rev > 0 /\ c.fails # RetryLimit
      /\ c.streak <= Paid(c.recov) + c.fails
      /\ c.dec.kind = "recovery" => c.dec.cmd = NoCommand
  BY ClearedFacts
<1>2. Settled(it, outcome) \in {h, i, NoItem} BY DEF Settled
<1> HIDE DEF c
<1>3. "oversized_pull_request" \in Reasons /\ "source_incompatible" \in Reasons
  BY DEF Reasons, Holds
<1>4. ItemInv(i) /\ i.lease = 0 /\ i.reason = "source_incompatible" /\ i.st = "parked"
  BY <1>1, <1>3, ParkLemma
<1>5. ItemInv(h) /\ h.lease = 0 /\ h.reason = "oversized_pull_request" /\ h.st = "parked"
  <2> DEFINE e == [c EXCEPT !.dec = it.leaseDec]
  <2>1. it.leaseDec \in Decision BY <1>1 DEF ItemType
  <2>2. e \in ItemType BY <1>1, <2>1 DEF ItemType
  <2>3. /\ e.rev = c.rev /\ e.dec = it.leaseDec /\ e.fails = c.fails /\ e.recov = c.recov
        /\ e.streak = c.streak /\ e.lease = 0 /\ e.run = 0 /\ e.gen = 0
        /\ e.chargeGen = 0 /\ e.starts = 0
    BY <1>1 DEF ItemType
  <2>4. h = Park(e, "oversized_pull_request")
    BY <1>1, <2>1 DEF ItemType, Park
  <2> HIDE DEF e, h
  <2>5. Park(e, "oversized_pull_request").lease = 0 /\ ItemInv(Park(e, "oversized_pull_request"))
        /\ Park(e, "oversized_pull_request").reason = "oversized_pull_request"
        /\ Park(e, "oversized_pull_request").st = "parked"
    BY <1>1, <1>3, <2>2, <2>3, ParkLemma
  <2> QED BY <2>4, <2>5
<1>6. NoItem.reason = "none" /\ NoItem.lease = 0 /\ ItemInv(NoItem) BY NoItemLemma DEF NoItem
<1> HIDE DEF h, i
<1> QED BY <1>2, <1>4, <1>5, <1>6

\* A completion: the item is released, and it loses its command only with the
\* review of that command or by a refusal.
LEMMA FinishLemma ==
  ASSUME NEW it, ItemInv(it), IsActive(it), epoch \in Nat, NEW policy \in Nat,
         NEW outcome, NEW requeueLatest
  PROVE  LET new == Finish(it, outcome, requeueLatest, policy)
         IN  /\ ItemInv(new) /\ new.lease = 0
             /\ new.st = "absent" => new = NoItem
             /\ new.reason = "scanner_refused" => outcome = "refusal"
             /\ outcome # "refusal" =>
                  \/ new.st # "absent" /\ new.dec = it.dec
                  \/ it.dec = it.leaseDec
<1> DEFINE c == ClearLease(it)
           f == [c EXCEPT !.dec = it.leaseDec, !.st = "parked",
                          !.reason = "scanner_refused", !.due = FALSE]
           policyChanged == it.epoch # policy
           sourceChanged == HasNewerRevision(it) /\ InputIdentityChanged(it.leaseDec, it.dec)
           r == Requeued(it, outcome, requeueLatest, sourceChanged, policyChanged, policy)
           s == Settled(it, outcome)
           new == Finish(it, outcome, requeueLatest, policy)
<1>1. /\ it \in ItemType /\ c \in ItemType
      /\ c.rev = it.rev /\ c.dec = it.dec /\ c.lease = 0 /\ c.run = 0 /\ c.gen = 0
      /\ c.chargeGen = 0 /\ c.starts = 0
      /\ c.reason = "none" /\ c.rev > 0 /\ c.fails # RetryLimit
      /\ c.streak <= Paid(c.recov) + c.fails
  BY ClearedFacts
<1>2. it.leaseDec.kind = "recovery" => it.leaseDec.cmd = NoCommand BY DEF ItemInv, Sound
<1>3. \/ outcome = "refusal" /\ new = f
      \/ outcome # "refusal" /\ new = r
      \/ outcome # "refusal" /\ new = s /\ ~sourceChanged
  BY DEF Finish
<1>4. ~sourceChanged => it.dec = it.leaseDec
  BY DEF InputIdentityChanged, ItemInv, Sound
<1>5. /\ ItemInv(r) /\ r.lease = 0 /\ r.dec = it.dec
      /\ r.st # "absent" /\ r.reason # "scanner_refused"
  BY RequeuedLemma
<1>6. /\ ItemInv(s) /\ s.lease = 0 /\ s.reason # "scanner_refused"
      /\ s.st = "absent" => s = NoItem
  BY <1>2, SettledLemma
<1> HIDE DEF c
<1>7. ItemInv(f) /\ f.lease = 0 /\ f.st = "parked"
  <2>1. it.leaseDec \in Decision BY <1>1 DEF ItemType
  <2>2. "scanner_refused" \in Reasons BY DEF Reasons
  <2>3. f \in ItemType BY <1>1, <2>1, <2>2 DEF ItemType
  <2>4. /\ f.st = "parked" /\ f.reason = "scanner_refused"
        /\ f.rev = c.rev /\ f.dec = it.leaseDec /\ f.fails = c.fails /\ f.recov = c.recov
        /\ f.streak = c.streak /\ f.lease = 0 /\ f.run = 0 /\ f.gen = 0
        /\ f.chargeGen = 0 /\ f.starts = 0
    BY <1>1 DEF ItemType
  <2> HIDE DEF f
  <2>5. ((f.st = "pending" /\ f.reason = "none") \/ (f.st = "parked" /\ f.reason # "none"))
        /\ (f.fails = RetryLimit => f.reason = "review_retry_exhausted")
    BY <1>1, <2>4
  <2>6. /\ f.rev > 0 /\ f.starts <= 1 /\ (f.chargeGen # 0 => f.starts = 0)
        /\ (f.dec.kind = "recovery" => f.dec.cmd = NoCommand)
        /\ f.streak <= Paid(f.recov) + f.fails
    BY <1>1, <1>2, <2>4
  <2>7. ItemInv(f) BY <2>3, <2>4, <2>5, <2>6, WaitingLemma, Zenon
  <2> QED BY <2>4, <2>7
<1> HIDE DEF f, r, s, sourceChanged
<1> QED BY <1>3, <1>4, <1>5, <1>6, <1>7

----------------------------------------------------------------------------
(* /enqueue                                                                *)

LEMMA MergeLemma ==
  ASSUME NEW current \in Decision, NEW next \in Decision
  PROVE  /\ Merge(current, next) \in Decision /\ Merge(current, next).kind = next.kind
         /\ next.cmd # NoCommand => Merge(current, next).cmd = next.cmd
         /\ next.cmd = NoCommand => Merge(current, next).cmd = current.cmd
BY DEF Merge, Decision, HasCommandContext

\* An item whose decision, revision and watermark change.
Redecide(it, d, rev, wm) == [it EXCEPT !.dec = d, !.rev = rev, !.wm = wm]

\* A newer decision behind a lease; sup: the revision the status phase held back.
FollowUp(it, d, rev, wm, sup) ==
  [it EXCEPT !.dec = d, !.rev = rev, !.wm = wm, !.due = FALSE, !.statusSup = sup]

LEMMA RedecideLemma ==
  ASSUME NEW it, ItemInv(it), it.st \in {"pending", "parked"},
         NEW d \in Decision, NEW rev \in Nat \ {0}, NEW wm \in 0 .. MaxHead,
         d.kind = "recovery" => d.cmd = NoCommand
  PROVE  LET new == Redecide(it, d, rev, wm)
         IN  /\ ItemInv(new) /\ new.lease = 0 /\ new.dec = d /\ new.st = it.st
             /\ new.reason = it.reason /\ new.rev = rev
<1> DEFINE new == Redecide(it, d, rev, wm)
<1>1. /\ it \in ItemType /\ it.lease = 0 /\ it.run = 0 /\ it.gen = 0 /\ it.rev > 0
      /\ it.chargeGen # 0 => it.starts = 0
      /\ it.starts <= 1
      /\ it.streak <= Paid(it.recov) + it.fails
      /\ it.fails = RetryLimit => it.reason = "review_retry_exhausted"
  BY WaitingFacts
<1>2. new \in ItemType BY <1>1 DEF ItemType, Redecide
<1>3. /\ new.st = it.st /\ new.reason = it.reason
      /\ new.rev = rev /\ new.dec = d /\ new.fails = it.fails /\ new.recov = it.recov
      /\ new.streak = it.streak /\ new.lease = 0 /\ new.run = 0 /\ new.gen = 0
      /\ new.chargeGen = it.chargeGen /\ new.starts = it.starts
  BY <1>1 DEF ItemType, Redecide
<1> HIDE DEF new
<1>4. ((new.st = "pending" /\ new.reason = "none") \/ (new.st = "parked" /\ new.reason # "none"))
      /\ (new.fails = RetryLimit => new.reason = "review_retry_exhausted")
  BY <1>1, <1>3 DEF ItemInv, WellFormed
<1>5. /\ new.rev > 0 /\ new.starts <= 1 /\ (new.chargeGen # 0 => new.starts = 0)
      /\ (new.dec.kind = "recovery" => new.dec.cmd = NoCommand)
      /\ new.streak <= Paid(new.recov) + new.fails
  BY <1>1, <1>3
<1>6. ItemInv(new) BY <1>2, <1>3, <1>4, <1>5, WaitingLemma, Zenon
<1> QED BY <1>3, <1>6 DEF new

\* An active item that gets newer input behind its lease.
LEMMA FollowUpLemma ==
  ASSUME NEW it, ItemInv(it), IsActive(it),
         NEW d \in Decision, NEW rev \in Nat, rev > it.rev, NEW wm \in 0 .. MaxHead,
         NEW sup \in Nat, d.kind = "recovery" => d.cmd = NoCommand
  PROVE  LET new == FollowUp(it, d, rev, wm, sup)
         IN  /\ ItemInv(new) /\ KeepsLease(it, new) /\ new.dec = d /\ new.st = it.st
             /\ new.reason = "none"
<1> DEFINE new == FollowUp(it, d, rev, wm, sup)
<1>1. it \in ItemType /\ WellFormed(it) /\ Sound(it) BY DEF ItemInv
<1>2. new \in ItemType BY <1>1 DEF ItemType, FollowUp
<1>3. /\ new.st = it.st /\ new.reason = it.reason
      /\ new.rev = rev /\ new.dec = d /\ new.fails = it.fails /\ new.recov = it.recov
      /\ new.streak = it.streak /\ new.lease = it.lease /\ new.run = it.run
      /\ new.gen = it.gen /\ new.att = it.att /\ new.leaseRev = it.leaseRev
      /\ new.leaseDec = it.leaseDec
      /\ new.chargeGen = it.chargeGen /\ new.starts = it.starts
  BY <1>1 DEF ItemType, FollowUp
<1> HIDE DEF new
<1>4. it.reason = "none" BY <1>1 DEF WellFormed, IsActive
<1>5. it.rev \in Nat /\ it.leaseRev \in 1 .. it.rev BY <1>1 DEF WellFormed, ItemType
<1>6. rev > it.leaseRev /\ it.leaseRev \in 1 .. rev /\ rev > 0 BY <1>5
<1>7. WellFormed(new) BY <1>1, <1>3, <1>6 DEF WellFormed, IsActive
<1>8. Sound(new) BY <1>1, <1>3, <1>6 DEF Sound, IsActive, HasNewerRevision
<1> QED BY <1>2, <1>3, <1>4, <1>7, <1>8 DEF ItemInv, KeepsLease, new

\* Only the time an item waits for changes.
LEMMA DueLemma ==
  ASSUME NEW it, ItemInv(it), NEW due \in BOOLEAN
  PROVE  LET new == [it EXCEPT !.due = due]
         IN  Follows(it, new) /\ new.dec = it.dec /\ new.reason = it.reason /\ new.st = it.st
             /\ new.lease = it.lease
<1> DEFINE new == [it EXCEPT !.due = due]
<1>1. it \in ItemType /\ WellFormed(it) /\ Sound(it) BY DEF ItemInv
<1>2. new \in ItemType BY <1>1 DEF ItemType
<1>3. /\ new.st = it.st /\ new.reason = it.reason /\ new.rev = it.rev /\ new.dec = it.dec
      /\ new.fails = it.fails /\ new.recov = it.recov /\ new.streak = it.streak
      /\ new.lease = it.lease /\ new.run = it.run /\ new.gen = it.gen /\ new.att = it.att
      /\ new.leaseRev = it.leaseRev /\ new.leaseDec = it.leaseDec
      /\ new.chargeGen = it.chargeGen /\ new.starts = it.starts
  BY <1>1 DEF ItemType
<1> HIDE DEF new
<1>4. WellFormed(new) BY <1>1, <1>3 DEF WellFormed, IsActive
<1>5. Sound(new) BY <1>1, <1>3 DEF Sound, IsActive, HasNewerRevision
<1> QED BY <1>1, <1>2, <1>3, <1>4, <1>5 DEF Follows, ItemInv, KeepsLease, KeepsCommand, Sound, new

\* A waiting item that is admitted again, with its budget or with a new one.
LEMMA AdmitWaiting ==
  ASSUME NEW cur, ItemInv(cur), cur.st \in {"pending", "parked"}, epoch \in Nat,
         NEW d \in Decision, NEW rev \in Nat \ {0}, NEW wm \in 0 .. MaxHead,
         d.kind = "recovery" => d.cmd = NoCommand
  PROVE  LET new == Redecide(cur, d, rev, wm)
             anew == [ResetAdmitted(new) EXCEPT !.due = FALSE]
         IN  /\ ItemInv(new) /\ new.lease = 0 /\ new.dec = d /\ new.st = cur.st
             /\ new.reason = cur.reason
             /\ ItemInv(anew) /\ anew.lease = 0 /\ anew.dec = d /\ anew.st = "pending"
             /\ anew.reason = "none"
<1> DEFINE new == Redecide(cur, d, rev, wm)
           reset == ResetAdmitted(new)
           anew == [reset EXCEPT !.due = FALSE]
<1>3. ItemInv(new) /\ new.lease = 0 /\ new.dec = d /\ new.st = cur.st /\ new.reason = cur.reason
  BY RedecideLemma
<1> HIDE DEF new
<1>4. ItemInv(reset) /\ reset.dec = d /\ reset.st = "pending" /\ reset.reason = "none"
      /\ reset.lease = 0
  BY <1>3, ResetAdmittedLemma
<1> HIDE DEF reset
<1>5. ItemInv(anew) /\ anew.lease = 0 /\ anew.dec = d /\ anew.st = "pending"
      /\ anew.reason = "none"
  <2>1. FALSE \in BOOLEAN OBVIOUS
  <2> QED BY <1>4, <2>1, DueLemma DEF Follows
<1> QED BY <1>3, <1>5 DEF new, reset

\* A revoked lease leaves an item that waits.
LEMMA RevokedLemma ==
  ASSUME NEW it, ItemInv(it), IsActive(it), NEW due \in BOOLEAN
  PROVE  LET new == [ClearLease(it) EXCEPT !.st = "pending", !.due = due]
         IN  ItemInv(new) /\ new.lease = 0 /\ new.dec = it.dec /\ new.st = "pending"
             /\ new.reason = "none" /\ new.rev = it.rev
<1> DEFINE c == ClearLease(it)
           p == [c EXCEPT !.st = "pending", !.due = due]
<1>1. /\ c \in ItemType
      /\ c.rev = it.rev /\ c.dec = it.dec /\ c.lease = 0 /\ c.run = 0 /\ c.gen = 0
      /\ c.chargeGen = 0 /\ c.starts = 0
      /\ c.reason = "none" /\ c.rev > 0 /\ c.fails # RetryLimit
      /\ c.streak <= Paid(c.recov) + c.fails
      /\ c.dec.kind = "recovery" => c.dec.cmd = NoCommand
  BY ClearedFacts
<1> HIDE DEF c
<1>3. p \in ItemType BY <1>1 DEF ItemType
<1>4. /\ p.st = "pending" /\ p.reason = "none" /\ p.rev = c.rev /\ p.dec = c.dec
      /\ p.fails = c.fails /\ p.recov = c.recov /\ p.streak = c.streak
      /\ p.lease = 0 /\ p.run = 0 /\ p.gen = 0 /\ p.chargeGen = 0 /\ p.starts = 0
  BY <1>1 DEF ItemType
<1> HIDE DEF p
<1>5. ItemInv(p)
  <2>1. ((p.st = "pending" /\ p.reason = "none") \/ (p.st = "parked" /\ p.reason # "none"))
        /\ (p.fails = RetryLimit => p.reason = "review_retry_exhausted")
    BY <1>1, <1>4
  <2>2. /\ p.rev > 0 /\ p.starts <= 1 /\ (p.chargeGen # 0 => p.starts = 0)
        /\ (p.dec.kind = "recovery" => p.dec.cmd = NoCommand)
        /\ p.streak <= Paid(p.recov) + p.fails
    BY <1>1, <1>4
  <2> QED BY <1>3, <1>4, <2>1, <2>2, WaitingLemma, Zenon
<1> QED BY <1>1, <1>4, <1>5 DEF p, c

\* A pull-request event: it drops a command only by not revoking the active
\* review the command waits for.
LEMMA AdmitEventLemma ==
  ASSUME NEW it, ItemInv(it), it.st # "absent", epoch \in Nat,
         NEW d \in Decision, d.cmd = NoCommand, d.kind # "recovery",
         NEW rev \in Nat, rev > it.rev
  PROVE  LET new == AdmitEvent(it, d, rev)
         IN  /\ ItemInv(new) /\ KeepsLease(it, new) /\ new.st # "absent"
             /\ new.reason = "scanner_refused" => it.reason = "scanner_refused"
             /\ \/ it.dec.cmd # NoCommand => new.dec.cmd = it.dec.cmd
                \/ IsActive(it) /\ ~(Supersedes(d) /\ it.phase # "status")
<1> DEFINE revoked == Supersedes(d) /\ it.phase # "status" /\ IsActive(it)
           merged == Merge(it.dec, d)
           final == AdmitEvent(it, d, rev)
<1>1. it \in ItemType /\ it.rev \in Nat /\ it.dec \in Decision BY DEF ItemInv, ItemType
<1>2. rev \in Nat \ {0} BY <1>1
<1>3. d.src \in 0 .. MaxHead BY DEF Decision
<1>4. /\ merged \in Decision /\ merged.kind = d.kind /\ merged.cmd = it.dec.cmd
  BY <1>1, MergeLemma
<1>5. CASE revoked
  <2> DEFINE c == ClearLease(it)
             cur == [c EXCEPT !.st = "pending", !.reason = "none"]
             next == IF HasCommandContext(it.dec) THEN merged ELSE d
             new == Redecide(cur, next, rev, d.src)
             anew == [ResetAdmitted(new) EXCEPT !.due = FALSE]
  <2>1. next \in Decision /\ next.kind # "recovery"
        /\ (it.dec.cmd # NoCommand => next.cmd = it.dec.cmd)
    BY <1>4 DEF HasCommandContext
  <2>2. cur.st = "pending" /\ final \in {new, anew}
    <3>1. c \in ItemType BY <1>1, ClearLeaseLemma
    <3>2. cur.st = "pending" BY <3>1 DEF ItemType
    <3> QED BY <1>5, <3>2 DEF AdmitEvent, Redecide
  <2>3. ItemInv(cur) /\ cur.reason = "none"
    <3>1. c \in ItemType /\ c.due = it.due /\ c.reason = "none" /\ it.due \in BOOLEAN
      BY <1>1, <1>5, ClearLeaseLemma, ClearedFacts DEF ItemType
    <3>2. cur = [c EXCEPT !.st = "pending", !.due = it.due]
      <4> HIDE DEF c
      <4> QED BY <3>1 DEF ItemType
    <3>3. LET x == [c EXCEPT !.st = "pending", !.due = it.due]
          IN  ItemInv(x) /\ x.reason = "none"
      BY <1>5, <3>1, RevokedLemma, Zenon
    <3> QED BY <3>2, <3>3
  <2> HIDE DEF cur, next
  <2>4. /\ ItemInv(new) /\ new.lease = 0 /\ new.dec = next /\ new.st = cur.st
        /\ new.reason = cur.reason
        /\ ItemInv(anew) /\ anew.lease = 0 /\ anew.dec = next /\ anew.st = "pending"
        /\ anew.reason = "none"
    <3>1. cur.st \in {"pending", "parked"} BY <2>2
    <3> QED BY <1>2, <1>3, <2>1, <2>3, <3>1, AdmitWaiting
  <2> HIDE DEF new, anew, final
  <2> QED BY <2>1, <2>2, <2>3, <2>4 DEF KeepsLease, final
<1>6. CASE ~IsActive(it)
  <2> DEFINE new == Redecide(it, merged, rev, d.src)
             anew == [ResetAdmitted(new) EXCEPT !.due = FALSE]
  <2>1. it.st \in {"pending", "parked"} BY <1>1, <1>6 DEF IsActive, ItemType
  <2>2. final \in {new, anew} BY <1>6, <2>1 DEF AdmitEvent, Redecide
  <2> HIDE DEF merged
  <2>3. /\ ItemInv(new) /\ new.lease = 0 /\ new.dec = merged /\ new.st = it.st
        /\ new.reason = it.reason
        /\ ItemInv(anew) /\ anew.lease = 0 /\ anew.dec = merged /\ anew.st = "pending"
        /\ anew.reason = "none"
    <3>1. merged.kind = "recovery" => merged.cmd = NoCommand BY <1>4
    <3> QED BY <1>2, <1>3, <1>4, <2>1, <3>1, AdmitWaiting
  <2> HIDE DEF new, anew, final
  <2> QED BY <1>4, <2>1, <2>2, <2>3 DEF KeepsLease, final
<1>7. CASE IsActive(it) /\ ~revoked
  <2> DEFINE status == /\ Supersedes(d) /\ it.phase = "status" /\ IsActive(it)
                       /\ InputIdentityChanged(it.leaseDec, d)
             sup == IF status THEN rev ELSE it.statusSup
             new == FollowUp(it, d, rev, d.src, sup)
  <2>1. sup \in Nat BY <1>1 DEF ItemType
  <2>2. final = new
    <3>1. CASE status
      <4>1. [it EXCEPT !.statusSup = rev].st \notin {"pending", "parked"}
        BY <1>1, <1>7 DEF ItemType, IsActive
      <4>2. final = [[[it EXCEPT !.statusSup = rev] EXCEPT !.dec = d, !.rev = rev, !.wm = d.src]
                       EXCEPT !.due = FALSE]
        BY <1>7, <3>1, <4>1 DEF AdmitEvent, Redecide
      <4> QED BY <1>1, <3>1, <4>2 DEF ItemType, FollowUp
    <3>2. CASE ~status
      <4>1. it.st \notin {"pending", "parked"} BY <1>7 DEF IsActive
      <4>2. final = [[it EXCEPT !.dec = d, !.rev = rev, !.wm = d.src] EXCEPT !.due = FALSE]
        BY <1>7, <3>2, <4>1 DEF AdmitEvent, Redecide
      <4> QED BY <1>1, <3>2, <4>2 DEF ItemType, FollowUp
    <3> QED BY <3>1, <3>2
  <2> HIDE DEF sup
  <2>3. ItemInv(new) /\ KeepsLease(it, new) /\ new.st = it.st /\ new.reason = "none"
    BY <1>3, <1>7, <2>1, FollowUpLemma
  <2> HIDE DEF new, final
  <2> QED BY <1>7, <2>2, <2>3 DEF final, IsActive
<1> QED BY <1>5, <1>6, <1>7

\* A command joins a waiting item or follows the active review.
Joined(cur, d, rev) ==
  LET joined == [cur EXCEPT !.dec = Merge(cur.dec, d), !.rev = rev]
  IN IF IsActive(cur) THEN [joined EXCEPT !.due = FALSE]
     ELSE [ResetAdmitted(joined) EXCEPT !.due = FALSE]

LEMMA CommandLemma ==
  ASSUME NEW cur, ItemInv(cur), cur.st # "absent", epoch \in Nat, NEW rev \in Nat,
         rev > cur.rev, NEW d \in Decision, d.cmd # NoCommand, d.kind = "command"
  PROVE  LET new == Joined(cur, d, rev)
         IN  /\ ItemInv(new) /\ KeepsLease(cur, new) /\ new.st # "absent"
             /\ new.dec.cmd = d.cmd /\ new.reason = "none"
<1> DEFINE merged == Merge(cur.dec, d)
           joined == [cur EXCEPT !.dec = merged, !.rev = rev]
           new == IF IsActive(cur) THEN [joined EXCEPT !.due = FALSE]
                  ELSE [ResetAdmitted(joined) EXCEPT !.due = FALSE]
<1>1. /\ cur \in ItemType /\ cur.rev \in Nat /\ cur.dec \in Decision /\ cur.wm \in 0 .. MaxHead
      /\ cur.statusSup \in Nat
  BY DEF ItemInv, ItemType
<1>2. rev \in Nat \ {0} BY <1>1
<1>3. merged \in Decision /\ merged.kind = "command" /\ merged.cmd = d.cmd
  BY <1>1, MergeLemma
<1>4. merged.kind # "recovery" BY <1>3
<1>0. Joined(cur, d, rev) = new BY DEF Joined
<1> HIDE DEF merged
<1>5. CASE IsActive(cur)
  <2>1. new = FollowUp(cur, merged, rev, cur.wm, cur.statusSup)
    BY <1>1, <1>5 DEF ItemType, FollowUp
  <2> HIDE DEF new, joined
  <2>2. ItemInv(new) /\ KeepsLease(cur, new) /\ new.dec = merged /\ new.st = cur.st
        /\ new.reason = "none"
    BY <1>1, <1>3, <1>4, <1>5, <2>1, FollowUpLemma
  <2> QED BY <1>0, <1>3, <1>5, <2>2 DEF IsActive
<1>6. CASE ~IsActive(cur)
  <2>1. cur.st \in {"pending", "parked"} BY <1>1, <1>6 DEF IsActive, ItemType
  <2>2. joined = Redecide(cur, merged, rev, cur.wm) BY <1>1 DEF ItemType, Redecide
  <2> DEFINE anew == [ResetAdmitted(Redecide(cur, merged, rev, cur.wm)) EXCEPT !.due = FALSE]
  <2>3. new = anew BY <1>6, <2>2
  <2>4. ItemInv(anew) /\ anew.lease = 0 /\ anew.dec = merged /\ anew.st = "pending"
        /\ anew.reason = "none"
    BY <1>1, <1>2, <1>3, <1>4, <2>1, AdmitWaiting
  <2> HIDE DEF new, anew, joined
  <2> QED BY <1>0, <1>3, <2>3, <2>4 DEF KeepsLease
<1> QED BY <1>5, <1>6

----------------------------------------------------------------------------
(* The alarm                                                               *)

\* A pending item whose target is open.
LEMMA ObservedOpenFollows ==
  ASSUME NEW it, ItemInv(it), it.st = "pending", epoch \in Nat, NEW o,
         NEW head \in 1 .. MaxHead, NEW isAnswered
  PROVE  Follows(it, ObservedOpen(it, o, head, isAnswered))
<1> DEFINE wm == IF it.wm # 0 /\ head >= it.wm THEN head ELSE it.wm
           d == [it.dec EXCEPT !.src = head]
           fresh == Redecide(it, d, it.rev, wm)
           waits == [fresh EXCEPT !.due = FALSE]
           reset == ResetAdmitted(it)
           moved == Redecide(reset, d, it.rev + 1, reset.wm)
           again == [moved EXCEPT !.due = FALSE]
           new == ObservedOpen(it, o, head, isAnswered)
<1>1. /\ it \in ItemType /\ it.lease = 0 /\ it.run = 0 /\ it.gen = 0 /\ it.rev > 0
      /\ it.chargeGen # 0 => it.starts = 0
      /\ it.starts <= 1
      /\ it.dec.kind = "recovery" => it.dec.cmd = NoCommand
      /\ it.streak <= Paid(it.recov) + it.fails
      /\ it.fails # RetryLimit /\ it.reason = "none" /\ it.rev \in Nat /\ it.dec \in Decision
      /\ it.wm \in 0 .. MaxHead
  <2>1. it.fails < RetryLimit /\ it.fails \in 0 .. RetryLimit BY WaitingFacts DEF ItemType
  <2>2. it.fails # RetryLimit BY <2>1, ConstantsLemma
  <2> QED BY <2>2, WaitingFacts DEF ItemType
<1>2. head \in 0 .. MaxHead /\ wm \in 0 .. MaxHead BY <1>1, ConstantsLemma
<1>3. d \in Decision /\ d.kind = it.dec.kind /\ d.cmd = it.dec.cmd BY <1>1, <1>2 DEF Decision
<1>4. /\ ItemInv(reset) /\ reset.st = "pending" /\ reset.reason = "none"
      /\ reset.dec = it.dec /\ reset.rev = it.rev /\ reset.wm = it.wm
  BY ResetAdmittedLemma
<1>5. new \in {Park(it, "maintainer_request_required"), fresh, waits, again, it}
      \/ (new = NoItem /\ it.dec.cmd = NoCommand)
  <2>1. [it EXCEPT !.dec.src = head, !.wm = wm] = fresh
    BY <1>1 DEF ItemType, Redecide
  <2>2. [reset EXCEPT !.dec.src = head, !.rev = it.rev + 1, !.due = FALSE] = again
    <3>1. reset \in ItemType BY <1>4 DEF ItemInv
    <3> HIDE DEF reset
    <3> QED BY <1>4, <3>1 DEF ItemType, Redecide
  <2> HIDE DEF fresh, again
  <2>3. new = IF o = "maintainer" /\ ~HasCommandContext(it.dec)
     THEN Park(it, "maintainer_request_required")
     ELSE IF IsAutomatic(it.dec)
     THEN IF isAnswered THEN NoItem
          ELSE IF o = "busy" THEN [[it EXCEPT !.dec.src = head, !.wm = wm] EXCEPT !.due = FALSE]
               ELSE [it EXCEPT !.dec.src = head, !.wm = wm]
     ELSE IF StaleLiveHead(it, head)
     THEN [reset EXCEPT !.dec.src = head, !.rev = it.rev + 1, !.due = FALSE]
     ELSE it
    BY DEF ObservedOpen
  <2> HIDE DEF new
  <2> QED BY <2>1, <2>2, <2>3 DEF IsAutomatic, HasCommandContext
<1> HIDE DEF reset, wm, d, new
<1>6. Follows(it, NoItem) \/ it.dec.cmd # NoCommand
  BY NoItemLemma DEF Follows, KeepsLease, KeepsCommand, NoItem
<1>7. Follows(it, it) BY SelfFollows
<1>8. Follows(it, Park(it, "maintainer_request_required"))
  <2>1. "maintainer_request_required" \in Reasons BY DEF Reasons, Holds
  <2> DEFINE p == Park(it, "maintainer_request_required")
  <2>2. ItemInv(p) /\ p.st = "parked" /\ p.reason = "maintainer_request_required"
        /\ p.dec = it.dec /\ p.lease = 0
    BY <1>1, <2>1, ParkLemma
  <2> HIDE DEF p
  <2> QED BY <2>2 DEF Follows, KeepsLease, KeepsCommand, p
<1>9. /\ ItemInv(fresh) /\ fresh.lease = 0 /\ fresh.dec = d /\ fresh.st = it.st
      /\ fresh.reason = it.reason
  <2>1. it.rev \in Nat \ {0} BY <1>1
  <2> QED BY <1>1, <1>2, <1>3, <2>1, RedecideLemma
<1>10. Follows(it, fresh)
  <2> HIDE DEF fresh
  <2> QED BY <1>1, <1>3, <1>9 DEF Follows, KeepsLease, KeepsCommand
<1>11. Follows(it, waits)
  <2>1. FALSE \in BOOLEAN OBVIOUS
  <2> HIDE DEF fresh
  <2>2. Follows(fresh, waits) BY <1>9, <2>1, DueLemma
  <2> QED BY <1>10, <2>2, FollowsTrans
<1>12. /\ ItemInv(moved) /\ moved.lease = 0 /\ moved.dec = d /\ moved.st = "pending"
       /\ moved.reason = "none"
  <2>1. it.rev + 1 \in Nat \ {0} BY <1>1
  <2> QED BY <1>1, <1>3, <1>4, <2>1, RedecideLemma
<1>13. Follows(it, again)
  <2>1. FALSE \in BOOLEAN OBVIOUS
  <2> HIDE DEF moved
  <2>2. Follows(moved, again) BY <1>12, <2>1, DueLemma
  <2>3. Follows(it, moved) BY <1>1, <1>3, <1>12 DEF Follows, KeepsLease, KeepsCommand
  <2> QED BY <2>2, <2>3, FollowsTrans
<1> HIDE DEF fresh, waits, again
<1> QED BY <1>5, <1>6, <1>7, <1>8, <1>10, <1>11, <1>13 DEF new

\* A pending item whose target could not be read.
LEMMA ObservedUnavailableFollows ==
  ASSUME NEW it, ItemInv(it), it.st = "pending", epoch \in Nat
  PROVE  Follows(it, ObservedUnavailable(it))
<1> DEFINE z == [it EXCEPT !.fails = 0, !.recov = 0, !.streak = 0]
           b == IF it.epoch # epoch THEN z ELSE it
           new == CountFailure(b)
<1>1. it \in ItemType /\ it.epoch \in Nat /\ it.reason = "none"
  BY WaitingFacts DEF ItemType
<1>2. ItemInv(z) /\ z.st = "pending" /\ z.dec = it.dec
  <2>1. "none" \in Reasons /\ 0 \in 0 .. RetryLimit /\ 0 \in 0 .. ParkedRecoveryLimit /\ 0 \in Nat
    BY ConstantsLemma
  <2>2. z = [it EXCEPT !.st = "pending", !.reason = "none", !.fails = 0, !.epoch = it.epoch,
                       !.recov = 0, !.streak = 0]
    BY <1>1 DEF ItemType
  <2>3. z \in ItemType
    <3>1. [it EXCEPT !.st = "pending", !.reason = "none", !.fails = 0, !.epoch = it.epoch,
                     !.recov = 0, !.streak = 0] \in ItemType
      BY <1>1, <2>1, BudgetType, Zenon
    <3> QED BY <2>2, <3>1, Zenon
  <2>4. /\ z.st = "pending" /\ z.reason = "none" /\ z.recov = 0 /\ z.fails = 0
        /\ z.streak = 0 /\ z.dec = it.dec /\ z.rev = it.rev /\ z.lease = it.lease
        /\ z.run = it.run /\ z.gen = it.gen /\ z.chargeGen = it.chargeGen
        /\ z.starts = it.starts
    BY <1>1 DEF ItemType
  <2> HIDE DEF z
  <2>5. Paid(0) = 0 /\ RetryLimit # 0 BY PaidLemma, ConstantsLemma
  <2>6. /\ it.lease = 0 /\ it.run = 0 /\ it.gen = 0 /\ it.rev > 0
        /\ it.chargeGen # 0 => it.starts = 0
        /\ it.starts <= 1
        /\ it.dec.kind = "recovery" => it.dec.cmd = NoCommand
    BY WaitingFacts
  <2>7. z.streak <= Paid(z.recov) + z.fails /\ z.fails # RetryLimit BY <2>4, <2>5
  <2>8. ItemInv(z) BY <2>3, <2>4, <2>6, <2>7, WaitingLemma
  <2> QED BY <2>4, <2>8
<1>3. ItemInv(b) /\ b.st = "pending" /\ b.dec = it.dec
  <2> HIDE DEF z
  <2> QED BY <1>2
<1>4. ObservedUnavailable(it) = new BY DEF ObservedUnavailable
<1> HIDE DEF b
<1>5. /\ ItemInv(new) /\ new.lease = 0 /\ new.dec = b.dec
      /\ new.st # "absent" /\ new.reason # "scanner_refused"
  BY <1>3, CountFailureLemma
<1> HIDE DEF new
<1> QED BY <1>3, <1>4, <1>5 DEF Follows, KeepsLease, KeepsCommand

\* Only a target that is gone takes a command along.
LEMMA ObservedPendingLemma ==
  ASSUME NEW it, ItemInv(it), it.st = "pending", epoch \in Nat, NEW o, NEW global,
         NEW head \in 1 .. MaxHead, NEW isAnswered
  PROVE  LET new == ObservedPending(it, o, global, head, isAnswered)
         IN  /\ ItemInv(new) /\ new.lease = 0
             /\ o # "target_terminal" => Follows(it, new)
<1> DEFINE new == ObservedPending(it, o, global, head, isAnswered)
           w == [it EXCEPT !.due = FALSE]
<1>1. \/ new = NoItem /\ (o = "target_terminal" \/ it.dec.cmd = NoCommand)
      \/ new \in {w, it, ObservedOpen(it, o, head, isAnswered), ObservedUnavailable(it)}
  BY DEF ObservedPending, HasCommandContext
<1>2. ItemInv(NoItem) /\ NoItem.lease = 0 /\ NoItem.reason = "none" BY NoItemLemma DEF NoItem
<1>3. it.dec.cmd = NoCommand => Follows(it, NoItem) BY <1>2 DEF Follows, KeepsLease, KeepsCommand
<1>4. Follows(it, w)
  <2>1. FALSE \in BOOLEAN OBVIOUS
  <2> QED BY <2>1, DueLemma
<1>5. Follows(it, it) BY SelfFollows
<1>6. Follows(it, ObservedOpen(it, o, head, isAnswered)) BY ObservedOpenFollows
<1>7. Follows(it, ObservedUnavailable(it)) BY ObservedUnavailableFollows
<1>8. it.lease = 0 BY WaitingFacts
<1> HIDE DEF new, w
<1>9. Follows(it, new) \/ (new = NoItem /\ o = "target_terminal")
  BY <1>1, <1>3, <1>4, <1>5, <1>6, <1>7
<1> QED BY <1>2, <1>8, <1>9 DEF new, Follows, KeepsLease

\* Cleanup of a parked item.
LEMMA ObservedParkedFollows ==
  ASSUME NEW it, ItemInv(it), it.st = "parked", NEW o, NEW head
  PROVE  Follows(it, ObservedParked(it, o, head))
<1> DEFINE new == ObservedParked(it, o, head)
           w == [it EXCEPT !.st = "pending", !.reason = "none", !.due = FALSE]
<1>1. \/ new = it
      \/ new = NoItem /\ it.dec.cmd = NoCommand
      \/ new = w /\ it.reason = "maintainer_request_required"
  BY DEF ObservedParked, HasCommandContext
<1>2. it.dec.cmd = NoCommand => Follows(it, NoItem)
  BY NoItemLemma DEF NoItem, Follows, KeepsLease, KeepsCommand
<1>3. it.reason = "maintainer_request_required" => Follows(it, w)
  <2> SUFFICES ASSUME it.reason = "maintainer_request_required" PROVE Follows(it, w) OBVIOUS
  <2>1. /\ it \in ItemType /\ it.lease = 0 /\ it.run = 0 /\ it.gen = 0 /\ it.rev > 0
        /\ it.chargeGen # 0 => it.starts = 0
        /\ it.starts <= 1
        /\ it.dec.kind = "recovery" => it.dec.cmd = NoCommand
        /\ it.streak <= Paid(it.recov) + it.fails
        /\ it.fails # RetryLimit
    BY WaitingFacts
  <2>2. w \in ItemType BY <2>1, ConstantsLemma DEF ItemType
  <2>3. /\ w.st = "pending" /\ w.reason = "none" /\ w.recov = it.recov /\ w.fails = it.fails
        /\ w.streak = it.streak /\ w.dec = it.dec /\ w.rev = it.rev /\ w.lease = 0
        /\ w.run = 0 /\ w.gen = 0 /\ w.chargeGen = it.chargeGen
        /\ w.starts = it.starts
    BY <2>1 DEF ItemType
  <2> HIDE DEF w
  <2>4. ItemInv(w) BY <2>1, <2>2, <2>3, WaitingLemma
  <2> QED BY <2>3, <2>4 DEF Follows, KeepsLease, KeepsCommand
<1>4. Follows(it, it) BY SelfFollows
<1> HIDE DEF new, w
<1> QED BY <1>1, <1>2, <1>3, <1>4 DEF new

\* A lease is created for a pending item.
LEMMA DispatchLemma ==
  ASSUME NEW it, ItemInv(it), it.st = "pending", NEW lease \in Nat \ {0}
  PROVE  LET new == DispatchLease(it, lease)
         IN  /\ ItemInv(new) /\ new.lease = lease /\ new.run = 0 /\ new.dec = it.dec
             /\ new.st = "dispatching" /\ new.reason = "none"
<1> DEFINE new == DispatchLease(it, lease)
<1>1. /\ it \in ItemType /\ it.rev > 0 /\ it.reason = "none" /\ it.rev \in Nat
      /\ it.dec \in Decision
  BY WaitingFacts DEF ItemType
<1>2. Sound(it) BY DEF ItemInv
<1>3. new \in ItemType BY <1>1 DEF ItemType, DispatchLease
<1>4. /\ new.st = "dispatching" /\ new.reason = "none" /\ new.rev = it.rev /\ new.dec = it.dec
      /\ new.fails = it.fails /\ new.recov = it.recov /\ new.streak = it.streak
      /\ new.lease = lease /\ new.run = 0 /\ new.gen = 0 /\ new.leaseRev = it.rev
      /\ new.leaseDec = it.dec /\ new.chargeGen = it.chargeGen /\ new.starts = it.starts
  BY <1>1 DEF ItemType, DispatchLease
<1> HIDE DEF new
<1>5. WellFormed(new) BY <1>1, <1>4 DEF WellFormed, IsActive
<1>6. Sound(new) BY <1>1, <1>2, <1>4 DEF Sound, IsActive, HasNewerRevision
<1> QED BY <1>3, <1>4, <1>5, <1>6 DEF ItemInv, new

----------------------------------------------------------------------------
(* Workers                                                                 *)

\* What no lemma below changes of an item: all but its claimant and its clocks.
SameWork(it, new) ==
  /\ new.rev = it.rev /\ new.dec = it.dec /\ new.reason = it.reason /\ new.lease = it.lease
  /\ new.leaseRev = it.leaseRev /\ new.leaseDec = it.leaseDec /\ new.fails = it.fails
  /\ new.recov = it.recov /\ new.streak = it.streak

LEMMA GrantType ==
  ASSUME NEW it \in ItemType, NEW run \in Nat, NEW att \in Nat, NEW gen \in Nat
  PROVE  [it EXCEPT !.st = "leased", !.run = run, !.att = att, !.gen = gen,
                    !.chargeGen = gen, !.starts = 0] \in ItemType
BY ConstantsLemma DEF ItemType

\* A claim: the attempt of the run holds the lease, in a generation of its own.
LEMMA GrantLemma ==
  ASSUME NEW it, ItemInv(it), IsActive(it), NEW c, c.run \in Nat \ {0}, c.att \in Nat,
         it.run \in {0, c.run}
  PROVE  LET new == Granted(it, c)
         IN  /\ ItemInv(new) /\ new.lease = it.lease /\ new.dec = it.dec /\ new.st # "absent"
             /\ new.reason = it.reason /\ IsActive(new)
             /\ new.run = c.run /\ new.att = c.att
             /\ \/ new.gen = it.gen /\ it.run # 0 /\ it.att = c.att
                \/ new.gen = it.gen + 1 /\ (it.run = 0 \/ it.att # c.att)
<1> DEFINE new == [it EXCEPT !.st = "leased", !.run = c.run, !.att = c.att, !.gen = it.gen + 1,
                             !.chargeGen = it.gen + 1, !.starts = 0]
<1>1. it \in ItemType /\ it.gen \in Nat /\ it.run \in Nat /\ WellFormed(it) /\ Sound(it)
  BY DEF ItemInv, ItemType
<1>2. CASE it.run # 0 /\ it.att = c.att
  <2>1. Granted(it, c) = it /\ it.run = c.run BY <1>2 DEF Granted
  <2> QED BY <1>2, <2>1 DEF IsActive
<1>3. CASE ~(it.run # 0 /\ it.att = c.att)
  <2>1. Granted(it, c) = new BY <1>3 DEF Granted
  <2>2. new \in ItemType
    <3>1. c.run \in Nat /\ it.gen + 1 \in Nat BY <1>1
    <3> QED BY <1>1, <3>1, GrantType, Zenon
  <2>3. /\ SameWork(it, new) /\ new.st = "leased" /\ new.run = c.run /\ new.att = c.att
        /\ new.gen = it.gen + 1 /\ new.chargeGen = it.gen + 1 /\ new.starts = 0
    BY <1>1 DEF ItemType, SameWork
  <2> HIDE DEF new
  <2>4. c.run # 0 /\ it.gen + 1 # 0 BY <1>1
  <2>5. WellFormed(new) BY <1>1, <2>3, <2>4 DEF WellFormed, IsActive, SameWork
  <2>6. Sound(new) BY <1>1, <2>3 DEF Sound, IsActive, HasNewerRevision, SameWork
  <2> QED BY <1>3, <2>1, <2>2, <2>3, <2>5, <2>6 DEF ItemInv, IsActive, SameWork
<1> QED BY <1>2, <1>3

\* A lease runs out.
LEMMA RunsOutLemma ==
  ASSUME NEW it, ItemInv(it)
  PROVE  Follows(it, [it EXCEPT !.live = FALSE])
<1> DEFINE new == [it EXCEPT !.live = FALSE]
<1>1. it \in ItemType /\ WellFormed(it) /\ Sound(it) BY DEF ItemInv
<1>2. new \in ItemType BY <1>1 DEF ItemType
<1>3. /\ SameWork(it, new) /\ new.st = it.st /\ new.run = it.run /\ new.att = it.att
      /\ new.gen = it.gen /\ new.chargeGen = it.chargeGen /\ new.starts = it.starts
  BY <1>1 DEF ItemType, SameWork
<1> HIDE DEF new
<1>4. WellFormed(new) BY <1>1, <1>3 DEF WellFormed, IsActive, SameWork
<1>5. Sound(new) BY <1>1, <1>3 DEF Sound, IsActive, HasNewerRevision, SameWork
<1>6. ItemInv(new) BY <1>2, <1>4, <1>5 DEF ItemInv
<1> QED BY <1>1, <1>3, <1>6 DEF Follows, KeepsLease, KeepsCommand, SameWork, Sound, new

\* A heartbeat charges a generation that was not charged, and only once.
LEMMA HeartbeatLemma ==
  ASSUME NEW it, ItemInv(it), NEW phase \in Phases, NEW start
  PROVE  LET charge == start /\ it.chargeGen # 0 /\ it.chargeGen = it.gen
             kept == IF charge
                     THEN [ClearCharge(it) EXCEPT !.starts = IF it.starts < 2 THEN it.starts + 1 ELSE 2]
                     ELSE it
         IN  Follows(it, [kept EXCEPT !.phase = phase])
<1> DEFINE charge == start /\ it.chargeGen # 0 /\ it.chargeGen = it.gen
           kept == IF charge
                   THEN [ClearCharge(it) EXCEPT !.starts = IF it.starts < 2 THEN it.starts + 1 ELSE 2]
                   ELSE it
           new == [kept EXCEPT !.phase = phase]
<1>1. it \in ItemType /\ WellFormed(it) /\ Sound(it) BY DEF ItemInv
<1>2. /\ kept \in ItemType
      /\ SameWork(it, kept) /\ kept.st = it.st /\ kept.run = it.run /\ kept.att = it.att
      /\ kept.gen = it.gen /\ kept.starts <= 1 /\ (kept.chargeGen # 0 => kept.starts = 0)
  <2>1. CASE ~charge
    <3>1. kept = it BY <2>1
    <3> HIDE DEF kept
    <3> QED BY <1>1, <3>1 DEF Sound, SameWork
  <2>2. CASE charge
    <3> DEFINE paid == [it EXCEPT !.chargeGen = 0, !.starts = 1]
    <3>1. it.starts = 0 BY <1>1, <2>2 DEF Sound
    <3>2. kept = paid BY <1>1, <2>2, <3>1 DEF ClearCharge, ItemType
    <3>3. paid \in ItemType BY <1>1, ConstantsLemma DEF ItemType
    <3>4. /\ SameWork(it, paid) /\ paid.st = it.st /\ paid.run = it.run /\ paid.att = it.att
          /\ paid.gen = it.gen /\ paid.starts = 1 /\ paid.chargeGen = 0
      BY <1>1 DEF ItemType, SameWork
    <3> HIDE DEF kept, paid
    <3> QED BY <3>2, <3>3, <3>4
  <2> QED BY <2>1, <2>2
<1> HIDE DEF kept
<1>3. new \in ItemType BY <1>2 DEF ItemType
<1>4. /\ SameWork(kept, new) /\ new.st = kept.st /\ new.run = kept.run /\ new.att = kept.att
      /\ new.gen = kept.gen /\ new.chargeGen = kept.chargeGen /\ new.starts = kept.starts
  BY <1>2 DEF ItemType, SameWork
<1> HIDE DEF new
<1>5. SameWork(it, new) BY <1>2, <1>4 DEF SameWork
<1>6. /\ new.st = it.st /\ new.run = it.run /\ new.att = it.att /\ new.gen = it.gen
      /\ new.starts <= 1 /\ (new.chargeGen # 0 => new.starts = 0)
  BY <1>2, <1>4
<1>7. WellFormed(new) BY <1>1, <1>5, <1>6 DEF WellFormed, IsActive, SameWork
<1>8. Sound(new) BY <1>1, <1>5, <1>6 DEF Sound, IsActive, HasNewerRevision, SameWork
<1>9. ItemInv(new) BY <1>3, <1>7, <1>8 DEF ItemInv
<1> QED BY <1>1, <1>5, <1>6, <1>9 DEF Follows, KeepsLease, KeepsCommand, SameWork, Sound, new, kept

\* A dispatch that failed.
LEMMA RejectedLemma ==
  ASSUME NEW it, ItemInv(it), IsActive(it), epoch \in Nat
  PROVE  LET new == [Park(ClearLease(it), "dispatch_rejected") EXCEPT !.epoch = epoch]
         IN  Follows(it, new)
<1> DEFINE c == ClearLease(it)
           p == Park(c, "dispatch_rejected")
           new == [p EXCEPT !.epoch = epoch]
<1>1. /\ c \in ItemType /\ c.dec = it.dec /\ c.lease = 0 /\ c.run = 0 /\ c.gen = 0
      /\ c.chargeGen = 0 /\ c.starts = 0 /\ c.rev > 0 /\ c.fails # RetryLimit
      /\ c.streak <= Paid(c.recov) + c.fails
      /\ c.dec.kind = "recovery" => c.dec.cmd = NoCommand
  BY ClearedFacts
<1>2. "dispatch_rejected" \in Reasons BY DEF Reasons, Recoverable
<1> HIDE DEF c
<1>3. ItemInv(p) /\ p.st = "parked" /\ p.reason = "dispatch_rejected" /\ p.dec = it.dec
      /\ p.lease = 0
  BY <1>1, <1>2, ParkLemma
<1>4. p \in ItemType /\ WellFormed(p) /\ Sound(p) BY <1>3 DEF ItemInv
<1> HIDE DEF p
<1>5. new \in ItemType BY <1>4 DEF ItemType
<1>6. /\ SameWork(p, new) /\ new.st = p.st /\ new.run = p.run /\ new.att = p.att
      /\ new.gen = p.gen /\ new.chargeGen = p.chargeGen /\ new.starts = p.starts
  BY <1>4 DEF ItemType, SameWork
<1> HIDE DEF new
<1>7. WellFormed(new) BY <1>4, <1>6 DEF WellFormed, IsActive, SameWork
<1>8. Sound(new) BY <1>4, <1>6 DEF Sound, IsActive, HasNewerRevision, SameWork
<1>9. ItemInv(new) BY <1>5, <1>7, <1>8 DEF ItemInv
<1> QED BY <1>3, <1>6, <1>9 DEF Follows, KeepsLease, KeepsCommand, SameWork, new, p, c

----------------------------------------------------------------------------
(* The queue.                                                              *)

AlarmType ==
  [pc : {"idle", "preflight", "probing", "departing"},
   cand : [Keys -> [st : {"absent", "pending", "parked"}, rev : Nat]],
   head : [Keys -> 0 .. MaxHead], departs : [Keys -> Nat], todo : SUBSET Keys,
   failed : [Keys -> {"none", "item", "global"}]]

AlarmOK ==
  /\ alarm \in AlarmType
  /\ alarm.pc = "probing" => alarm.head \in [Keys -> 1 .. MaxHead]

\* A lease number was given out before anything names it.
Numbered ==
  /\ \A k \in Keys : items[k].lease <= leases[k]
  /\ \A r \in runs : r.lease \in 1 .. leases[r.key] /\ r.run > 0
  /\ \A c \in claiming : c.lease \in 1 .. leases[c.key] /\ c.run > 0 /\ c.att > 0
  /\ \A w \in workers : w.lease \in 1 .. leases[w.key] /\ w.run > 0
  /\ \A k \in alarm.todo : alarm.departs[k] \in 1 .. leases[k]

\* A worker of the current lease is its claimant or an earlier attempt.
Holder(w, it) ==
  /\ w.run = it.run /\ w.gen <= it.gen /\ w.att <= it.att
  /\ w.gen = it.gen <=> w.att = it.att

Claimed == \A w \in workers : w.lease = items[w.key].lease => Holder(w, items[w.key])

CommandHeld ==
  \A k \in Keys : owed[k] # NoCommand =>
    items[k].st # "absent" /\ items[k].dec.cmd = owed[k] /\ items[k].reason # "scanner_refused"

Active == {k \in Keys : IsActive(items[k])}
Booked == {k \in Keys : alarm.cand[k].st = "pending"}

\* The slots of the candidates under probe stay free.
Slots ==
  /\ Cardinality(Active) <= Capacity
  /\ alarm.pc = "probing" => Cardinality(Active \cup Booked) <= Capacity

QueueInv ==
  /\ TypeOK /\ AlarmOK /\ \A k \in Keys : Sound(items[k])
  /\ Numbered /\ Claimed /\ OneClaimantPerGeneration /\ CommandHeld /\ Slots

----------------------------------------------------------------------------
(* What a step may do without endangering the queue.                       *)

\* Every item stays sound, and its lease ends or stays with its claimant.
Calm ==
  /\ items' = [k \in Keys |-> items'[k]]
  /\ \A k \in Keys : ItemInv(items'[k]) /\ KeepsLease(items[k], items'[k])

\* A command is kept, ended, or new in the item that carries it.
CommandStep ==
  \A k \in Keys : owed'[k] # NoCommand =>
    \/ owed'[k] = owed[k] /\ KeepsCommand(items[k], items'[k])
    \/ /\ items'[k].st # "absent" /\ items'[k].dec.cmd = owed'[k]
       /\ items'[k].reason # "scanner_refused"

LEMMA WithLemma ==
  ASSUME NEW f, NEW k \in Keys, NEW v
  PROVE  /\ With(f, k, v) = [j \in Keys |-> With(f, k, v)[j]]
         /\ With(f, k, v)[k] = v
         /\ \A j \in Keys : j # k => With(f, k, v)[j] = f[j]
BY DEF With

LEMMA SoundTypes ==
  ASSUME NEW f, f = [k \in Keys |-> f[k]], \A k \in Keys : ItemInv(f[k])
  PROVE  /\ f \in [Keys -> ItemType] /\ \A k \in Keys : WellFormed(f[k])
         /\ \A k \in Keys : Sound(f[k])
BY DEF ItemInv

LEMMA QueueItems ==
  ASSUME QueueInv
  PROVE  /\ \A k \in Keys : ItemInv(items[k])
         /\ items = [k \in Keys |-> items[k]] /\ epoch \in Nat
         /\ \A k \in Keys : alloc[k] \in Nat /\ leases[k] \in Nat
BY LimitsAssumption DEF QueueInv, TypeOK, ItemInv

\* Without a lease of its own no run claims an item: the claimants stay apart.
LEMMA CalmClaims ==
  ASSUME QueueInv, Calm, UNCHANGED <<leases, workers>>
  PROVE  /\ \A k \in Keys : items'[k].lease <= leases'[k]
         /\ Claimed' /\ OneClaimantPerGeneration'
<1>1. \A k \in Keys : items[k].lease <= leases[k] /\ leases[k] \in Nat /\ items[k].lease \in Nat
  BY DEF QueueInv, TypeOK, Numbered, ItemType
<1>2. \A w \in workers : w.key \in Keys /\ w.lease > 0
  BY <1>1 DEF QueueInv, TypeOK, Tuples, Numbered
<1>3. \A k \in Keys : items'[k].lease <= leases'[k] BY <1>1 DEF Calm, KeepsLease
<1>4. Claimed'
  <2> SUFFICES ASSUME NEW w \in workers, w.lease = items'[w.key].lease
               PROVE  Holder(w, items'[w.key])
    BY DEF Claimed, Holder
  <2>1. /\ items'[w.key].lease = items[w.key].lease /\ items'[w.key].run = items[w.key].run
        /\ items'[w.key].att = items[w.key].att /\ items'[w.key].gen = items[w.key].gen
    BY <1>2 DEF Calm, KeepsLease
  <2>2. Holder(w, items[w.key]) BY <2>1 DEF QueueInv, Claimed
  <2> QED BY <2>1, <2>2 DEF Holder
<1>5. OneClaimantPerGeneration' BY DEF QueueInv, OneClaimantPerGeneration
<1> QED BY <1>3, <1>4, <1>5

\* A calm step opens no review slot twice.
LEMMA CalmActive ==
  ASSUME QueueInv, Calm
  PROVE  Active' \subseteq Active
<1> SUFFICES ASSUME NEW k \in Keys, IsActive(items'[k]) PROVE IsActive(items[k])
  BY DEF Active
<1>1. ItemInv(items'[k]) /\ ItemInv(items[k]) /\ KeepsLease(items[k], items'[k])
  BY QueueItems DEF Calm
<1>2. items'[k].lease # 0 BY <1>1 DEF ItemInv, WellFormed
<1>3. items[k].lease # 0 BY <1>1, <1>2 DEF KeepsLease
<1> QED BY <1>1, <1>3 DEF ItemInv, WellFormed

LEMMA SmallerSet ==
  ASSUME NEW S \in SUBSET Keys, NEW T \in SUBSET Keys, S \subseteq T, Cardinality(T) <= Capacity
  PROVE  Cardinality(S) <= Capacity
<1>1. IsFiniteSet(T) BY KeysAssumption, FS_Subset
<1>2. Cardinality(S) <= Cardinality(T) /\ IsFiniteSet(S) BY <1>1, FS_Subset
<1>3. Cardinality(S) \in Nat /\ Cardinality(T) \in Nat BY <1>1, <1>2, FS_CardinalityType
<1> QED BY <1>2, <1>3, CapacityAssumption

LEMMA CalmSlots ==
  ASSUME QueueInv, Calm, alarm'.pc = "probing" => alarm.pc = "probing" /\ alarm'.cand = alarm.cand
  PROVE  Slots'
<1>1. Active' \subseteq Active BY CalmActive
<1>2. Active \in SUBSET Keys /\ Active' \in SUBSET Keys /\ Booked \in SUBSET Keys
      /\ Booked' \in SUBSET Keys
  BY DEF Active, Booked
<1>3. Cardinality(Active') <= Capacity
  BY <1>1, <1>2, SmallerSet DEF QueueInv, Slots
<1>4. ASSUME alarm'.pc = "probing" PROVE Cardinality(Active' \cup Booked') <= Capacity
  <2>1. Booked' = Booked BY <1>4 DEF Booked
  <2>2. Active' \cup Booked' \in SUBSET Keys /\ Active \cup Booked \in SUBSET Keys
        /\ Active' \cup Booked' \subseteq Active \cup Booked
    BY <1>1, <1>2, <2>1
  <2>3. Cardinality(Active \cup Booked) <= Capacity BY <1>4 DEF QueueInv, Slots
  <2> QED BY <2>2, <2>3, SmallerSet
<1> QED BY <1>3, <1>4 DEF Slots

LEMMA CommandStepHolds ==
  ASSUME QueueInv, CommandStep
  PROVE  CommandHeld'
<1> SUFFICES ASSUME NEW k \in Keys, owed'[k] # NoCommand
             PROVE  items'[k].st # "absent" /\ items'[k].dec.cmd = owed'[k]
                    /\ items'[k].reason # "scanner_refused"
  BY DEF CommandHeld
<1>1. owed[k] # NoCommand => items[k].st # "absent" /\ items[k].dec.cmd = owed[k]
                            /\ items[k].reason # "scanner_refused"
  BY DEF QueueInv, CommandHeld
<1> QED BY <1>1 DEF CommandStep, KeepsCommand

LEMMA IdleLemma == Idle \in AlarmType /\ Idle.pc = "idle" /\ Idle.todo = {}
BY LimitsAssumption DEF Idle, AlarmType, NoCandidates, NoCandidate, NoLeases, NoFailures

\* The steps that give out no lease, start no run and choose no candidate.
Quiet ==
  /\ Calm /\ CommandStep
  /\ UNCHANGED <<leases, runs, workers>> /\ claiming' \subseteq claiming
  /\ alarm' \in {alarm, Idle} \/ (alarm.pc = "idle" /\ alarm' = [alarm EXCEPT !.pc = "preflight"])
  /\ alloc' \in [Keys -> Nat] /\ audits' \subseteq Tuples /\ answered' \in [Keys -> BOOLEAN]
  /\ live' \in [Keys -> 1 .. MaxHead] /\ epoch' \in 0 .. MaxEpoch
  /\ owed' \in [Keys -> Commands \cup {NoCommand}]

LEMMA QuietKeepsInv ==
  ASSUME QueueInv, Quiet
  PROVE  QueueInv'
<1>1. AlarmOK' /\ alarm'.todo \subseteq alarm.todo
      /\ (alarm' = Idle \/ alarm'.departs = alarm.departs)
      /\ (alarm'.pc = "probing" => alarm.pc = "probing" /\ alarm'.cand = alarm.cand)
  <2>1. alarm \in AlarmType /\ AlarmOK BY DEF QueueInv, AlarmOK
  <2>2. CASE alarm' = alarm BY <2>1, <2>2 DEF AlarmOK
  <2>3. CASE alarm' = Idle BY <2>3, IdleLemma DEF AlarmOK
  <2>4. CASE alarm' = [alarm EXCEPT !.pc = "preflight"]
    <3>1. alarm' \in AlarmType /\ alarm'.pc = "preflight" /\ alarm'.todo = alarm.todo
          /\ alarm'.departs = alarm.departs
      BY <2>1, <2>4 DEF AlarmType
    <3> QED BY <3>1 DEF AlarmOK
  <2> QED BY <2>2, <2>3, <2>4 DEF Quiet
<1>2. /\ items' \in [Keys -> ItemType] /\ \A k \in Keys : WellFormed(items'[k])
      /\ \A k \in Keys : Sound(items'[k])
  BY SoundTypes DEF Quiet, Calm
<1>3. TypeOK'
  <2>1. alarm'.pc \in {"idle", "preflight", "probing", "departing"}
    BY <1>1 DEF AlarmOK, AlarmType
  <2> QED BY <1>2, <2>1 DEF TypeOK, QueueInv, Quiet
<1>4. (\A k \in Keys : items'[k].lease <= leases'[k]) /\ Claimed' /\ OneClaimantPerGeneration'
  BY CalmClaims DEF Quiet
<1>5. Numbered'
  <2>1. \A k \in alarm'.todo : alarm'.departs[k] \in 1 .. leases[k]
    <3>1. CASE alarm' = Idle BY <3>1, IdleLemma
    <3>2. CASE alarm'.departs = alarm.departs BY <1>1, <3>2 DEF QueueInv, Numbered
    <3> QED BY <1>1, <3>1, <3>2
  <2> QED BY <1>4, <2>1 DEF Numbered, QueueInv, Quiet
<1>6. CommandHeld' BY CommandStepHolds DEF Quiet
<1>7. Slots' BY <1>1, CalmSlots DEF Quiet
<1> QED BY <1>1, <1>2, <1>3, <1>4, <1>5, <1>6, <1>7 DEF QueueInv

----------------------------------------------------------------------------
(* The requests that change one item.                                      *)

LEMMA ReclaimAllFollows ==
  ASSUME QueueInv
  PROVE  /\ ReclaimAll = [k \in Keys |-> ReclaimAll[k]]
         /\ \A k \in Keys : ReclaimAll[k] = Reclaim(items[k]) /\ Follows(items[k], ReclaimAll[k])
<1>1. \A k \in Keys : Follows(items[k], Reclaim(items[k])) BY QueueItems, ReclaimFollows
<1> QED BY <1>1 DEF ReclaimAll

LEMMA ItemsFollow ==
  ASSUME QueueInv
  PROVE  /\ items = [k \in Keys |-> items[k]]
         /\ \A k \in Keys : Follows(items[k], items[k])
<1>1. \A k \in Keys : Follows(items[k], items[k]) BY QueueItems, SelfFollows
<1> QED BY <1>1, QueueItems

\* Every item follows from its predecessor.
LEMMA AllFollow ==
  ASSUME QueueInv, items' = [k \in Keys |-> items'[k]],
         \A k \in Keys : Follows(items[k], items'[k])
  PROVE  Calm /\ (UNCHANGED owed => CommandStep)
BY DEF Calm, CommandStep, Follows

\* One item is replaced and the others follow from their predecessors.
LEMMA OneItem ==
  ASSUME QueueInv, NEW k \in Keys, NEW f, f = [j \in Keys |-> f[j]],
         \A j \in Keys : Follows(items[j], f[j]),
         NEW new, ItemInv(new), KeepsLease(items[k], new), items' = With(f, k, new)
  PROVE  /\ Calm /\ items'[k] = new
         /\ \A j \in Keys : j # k => KeepsCommand(items[j], items'[j])
<1>1. /\ items' = [j \in Keys |-> items'[j]] /\ items'[k] = new
      /\ \A j \in Keys : j # k => items'[j] = f[j]
  BY WithLemma
<1> QED BY <1>1 DEF Calm, Follows

LEMMA NextRevisionLemma ==
  ASSUME NEW k \in Keys, alloc[k] \in Nat, NEW rev \in Nat
  PROVE  NextRevision(k, rev + 1) \in Nat /\ NextRevision(k, rev + 1) > rev
BY DEF NextRevision

LEMMA ClaimantType ==
  ASSUME NEW k \in Keys, NEW it \in ItemType, NEW rev \in Nat
  PROVE  Claimant(k, it) \in Tuples /\ [Claimant(k, it) EXCEPT !.rev = rev] \in Tuples
BY DEF Claimant, Tuples, ItemType

\* What a request needs to know of the item it reads.
LEMMA Current ==
  ASSUME QueueInv, NEW k \in Keys
  PROVE  LET cur == Reclaim(items[k])
         IN  /\ ItemInv(cur) /\ cur \in ItemType /\ cur.rev \in Nat
             /\ NextRevision(k, cur.rev + 1) \in Nat \ {0}
             /\ NextRevision(k, cur.rev + 1) > cur.rev
             /\ cur.st = "absent" \/ cur.reason = "scanner_refused" => owed[k] = NoCommand
             /\ Follows(items[k], cur)
<1> DEFINE cur == Reclaim(items[k])
<1>1. Follows(items[k], cur) BY QueueItems, ReclaimFollows
<1> HIDE DEF cur
<1>2. ItemInv(cur) /\ cur \in ItemType /\ cur.rev \in Nat BY <1>1 DEF Follows, ItemInv, ItemType
<1>3. NextRevision(k, cur.rev + 1) \in Nat /\ NextRevision(k, cur.rev + 1) > cur.rev
  BY <1>2, QueueItems, NextRevisionLemma
<1>4. NextRevision(k, cur.rev + 1) \in Nat \ {0} BY <1>2, <1>3
<1>5. cur.st = "absent" \/ cur.reason = "scanner_refused" => owed[k] = NoCommand
  <2>1. owed[k] # NoCommand => items[k].dec.cmd # NoCommand /\ items[k].reason # "scanner_refused"
    BY DEF QueueInv, CommandHeld
  <2> QED BY <1>1, <2>1 DEF Follows, KeepsCommand
<1> QED BY <1>1, <1>2, <1>3, <1>4, <1>5 DEF cur

LEMMA EnqueueEventKeepsInv ==
  ASSUME QueueInv, NEW k \in Keys, NEW kind \in {"push", "draft"}, NEW i \in 1 .. MaxHead,
         EnqueueEvent(k, kind, i)
  PROVE  QueueInv'
<1> DEFINE cur == Reclaim(items[k])
           d == EventDecision(kind, i)
           rev == NextRevision(k, cur.rev + 1)
           new == NewItem(d, rev)
           adm == AdmitEvent(cur, d, rev)
           accepted == CanSupersede(cur, d)
           revokes == accepted /\ Supersedes(d) /\ cur.phase # "status" /\ IsActive(cur)
<1>1. /\ ItemInv(cur) /\ cur \in ItemType /\ cur.rev \in Nat /\ rev \in Nat \ {0} /\ rev > cur.rev
      /\ cur.st = "absent" \/ cur.reason = "scanner_refused" => owed[k] = NoCommand
      /\ Follows(items[k], cur)
  BY Current
<1>2. d \in Decision /\ d.cmd = NoCommand /\ d.kind # "recovery"
  BY LimitsAssumption DEF EventDecision, Decision, Kinds
<1>3. /\ ReclaimAll = [j \in Keys |-> ReclaimAll[j]]
      /\ \A j \in Keys : ReclaimAll[j] = Reclaim(items[j]) /\ Follows(items[j], ReclaimAll[j])
  BY ReclaimAllFollows
<1>4. epoch \in Nat /\ alloc \in [Keys -> Nat] /\ audits \subseteq Tuples
      /\ owed \in [Keys -> Commands \cup {NoCommand}]
  BY LimitsAssumption DEF QueueInv, TypeOK
<1>5. UNCHANGED <<leases, alarm, runs, claiming, workers, answered, live, epoch>>
  BY DEF EnqueueEvent
<1>6. CASE UNCHANGED <<alloc, audits, owed>> /\ items' = ReclaimAll
  <2>1. Calm /\ CommandStep BY <1>3, <1>6, AllFollow
  <2>2. Quiet BY <1>5, <1>6, <2>1 DEF Quiet, QueueInv, TypeOK
  <2> QED BY <2>2, QuietKeepsInv
<1>7. CASE /\ cur.st = "absent" \/ cur.reason = "scanner_refused"
           /\ items' = With(ReclaimAll, k, new)
           /\ alloc' = With(alloc, k, rev)
           /\ UNCHANGED <<audits, owed>>
  <2>1. ItemInv(new) /\ KeepsLease(items[k], new)
    BY <1>1, <1>2, <1>4, NewItemLemma DEF KeepsLease
  <2> HIDE DEF new
  <2>2. Calm /\ \A j \in Keys : j # k => KeepsCommand(items[j], items'[j])
    BY <1>3, <1>7, <2>1, OneItem
  <2>3. CommandStep BY <1>1, <1>7, <2>2 DEF CommandStep
  <2>4. alloc' \in [Keys -> Nat] BY <1>1, <1>4, <1>7 DEF With
  <2>5. Quiet BY <1>5, <1>7, <2>2, <2>3, <2>4 DEF Quiet, QueueInv, TypeOK
  <2> QED BY <2>5, QuietKeepsInv
<1>8. CASE /\ cur.st # "absent"
           /\ alloc' = With(alloc, k, rev)
           /\ items' = IF accepted THEN With(ReclaimAll, k, adm) ELSE ReclaimAll
           /\ audits' = IF revokes /\ cur.run # 0
                        THEN audits \cup {[Claimant(k, cur) EXCEPT !.rev = cur.rev]}
                        ELSE audits
           /\ owed' = IF accepted /\ IsActive(cur) /\ ~revokes
                      THEN With(owed, k, NoCommand) ELSE owed
  <2>1. alloc' \in [Keys -> Nat] BY <1>1, <1>4, <1>8 DEF With
  <2>2. audits' \subseteq Tuples
    <3>1. [Claimant(k, cur) EXCEPT !.rev = cur.rev] \in Tuples BY <1>1, ClaimantType
    <3> QED BY <1>4, <1>8, <3>1
  <2>3. owed' \in [Keys -> Commands \cup {NoCommand}] BY <1>4, <1>8 DEF With
  <2>4. CASE ~accepted
    <3>1. items' = ReclaimAll /\ owed' = owed BY <1>8, <2>4
    <3>2. Calm /\ CommandStep BY <1>3, <3>1, AllFollow
    <3>3. Quiet BY <1>5, <2>1, <2>2, <2>3, <3>2 DEF Quiet, QueueInv, TypeOK
    <3> QED BY <3>3, QuietKeepsInv
  <2>5. CASE accepted
    <3>1. /\ ItemInv(adm) /\ KeepsLease(cur, adm) /\ adm.st # "absent"
          /\ adm.reason = "scanner_refused" => cur.reason = "scanner_refused"
          /\ \/ cur.dec.cmd # NoCommand => adm.dec.cmd = cur.dec.cmd
             \/ IsActive(cur) /\ ~(Supersedes(d) /\ cur.phase # "status")
      BY <1>1, <1>2, <1>4, <1>8, AdmitEventLemma
    <3>2. items' = With(ReclaimAll, k, adm) BY <1>8, <2>5
    <3>3. KeepsLease(items[k], adm) BY <1>1, <3>1 DEF Follows, KeepsLease
    <3> HIDE DEF adm
    <3>4. Calm /\ items'[k] = adm /\ \A j \in Keys : j # k => KeepsCommand(items[j], items'[j])
      BY <1>3, <3>1, <3>2, <3>3, OneItem
    <3>5. CommandStep
      <4>1. CASE IsActive(cur) /\ ~revokes
        <5>1. owed' = With(owed, k, NoCommand) BY <1>8, <2>5, <4>1
        <5>2. owed'[k] = NoCommand /\ \A j \in Keys : j # k => owed'[j] = owed[j]
          BY <5>1, WithLemma
        <5> QED BY <3>4, <5>2 DEF CommandStep
      <4>2. CASE ~(IsActive(cur) /\ ~revokes)
        <5>1. owed' = owed BY <1>8, <4>2
        <5>2. KeepsCommand(cur, adm) BY <2>5, <3>1, <4>2 DEF KeepsCommand
        <5>3. KeepsCommand(items[k], adm)
          BY <1>1, <5>2 DEF Follows, KeepsCommand
        <5> QED BY <3>4, <5>1, <5>3 DEF CommandStep
      <4> QED BY <4>1, <4>2
    <3>6. Quiet BY <1>5, <2>1, <2>2, <2>3, <3>4, <3>5 DEF Quiet, QueueInv, TypeOK
    <3> QED BY <3>6, QuietKeepsInv
  <2> QED BY <2>4, <2>5
<1> HIDE DEF new, adm
<1> QED BY <1>6, <1>7, <1>8 DEF EnqueueEvent, new, adm

LEMMA EnqueueCommandKeepsInv ==
  ASSUME QueueInv, NEW k \in Keys, NEW c \in Commands, NEW fresh \in BOOLEAN,
         EnqueueCommand(k, c, fresh)
  PROVE  QueueInv'
<1> DEFINE cur == Reclaim(items[k])
           d == [kind |-> "command", src |-> 0, cmd |-> c]
           rev == NextRevision(k, cur.rev + 1)
           new == NewItem(d, rev)
           joined == [cur EXCEPT !.dec = Merge(cur.dec, d), !.rev = rev]
           adm == IF IsActive(cur) THEN [joined EXCEPT !.due = FALSE]
                  ELSE [ResetAdmitted(joined) EXCEPT !.due = FALSE]
<1>1. /\ ItemInv(cur) /\ cur \in ItemType /\ cur.rev \in Nat /\ rev \in Nat \ {0} /\ rev > cur.rev
      /\ Follows(items[k], cur)
  BY Current
<1>2. c # NoCommand BY CommandsAssumption DEF NoCommand
<1>3. d \in Decision /\ d.cmd = c /\ d.kind = "command"
  BY LimitsAssumption DEF Decision, Kinds
<1>4. /\ ReclaimAll = [j \in Keys |-> ReclaimAll[j]]
      /\ \A j \in Keys : ReclaimAll[j] = Reclaim(items[j]) /\ Follows(items[j], ReclaimAll[j])
  BY ReclaimAllFollows
<1>5. epoch \in Nat /\ alloc \in [Keys -> Nat] /\ owed \in [Keys -> Commands \cup {NoCommand}]
  BY LimitsAssumption DEF QueueInv, TypeOK
<1>6. UNCHANGED <<leases, alarm, runs, claiming, workers, audits, answered, live, epoch>>
  BY DEF EnqueueCommand
<1>7. ASSUME NEW it, ItemInv(it), KeepsLease(items[k], it), it.st # "absent", it.dec.cmd = c,
             it.reason = "none", items' = With(ReclaimAll, k, it),
             alloc' = With(alloc, k, rev), owed' = With(owed, k, c)
      PROVE  QueueInv'
  <2>1. Calm /\ items'[k] = it /\ \A j \in Keys : j # k => KeepsCommand(items[j], items'[j])
    BY <1>4, <1>7, OneItem
  <2>2. owed'[k] = c /\ \A j \in Keys : j # k => owed'[j] = owed[j] BY <1>7, WithLemma
  <2>3. CommandStep BY <1>7, <2>1, <2>2 DEF CommandStep
  <2>4. alloc' \in [Keys -> Nat] /\ owed' \in [Keys -> Commands \cup {NoCommand}]
    BY <1>1, <1>5, <1>7 DEF With
  <2>5. Quiet BY <1>6, <2>1, <2>3, <2>4 DEF Quiet, QueueInv, TypeOK
  <2> QED BY <2>5, QuietKeepsInv
<1>8. CASE UNCHANGED <<alloc, owed>> /\ items' = ReclaimAll
  <2>1. Calm /\ CommandStep BY <1>4, <1>8, AllFollow
  <2>2. Quiet BY <1>6, <1>8, <2>1 DEF Quiet, QueueInv, TypeOK
  <2> QED BY <2>2, QuietKeepsInv
<1>9. CASE items' = With(ReclaimAll, k, new) /\ alloc' = With(alloc, k, rev)
           /\ owed' = With(owed, k, c)
  <2>1. ItemInv(new) /\ new.lease = 0 /\ new.st = "pending" /\ new.dec = d /\ new.reason = "none"
    BY <1>1, <1>3, <1>5, NewItemLemma
  <2> HIDE DEF new
  <2>2. KeepsLease(items[k], new) BY <2>1 DEF KeepsLease
  <2> QED BY <1>3, <1>7, <1>9, <2>1, <2>2
<1>10. CASE /\ cur.st # "absent" /\ items' = With(ReclaimAll, k, adm)
            /\ alloc' = With(alloc, k, rev) /\ owed' = With(owed, k, c)
  <2>1. /\ ItemInv(adm) /\ KeepsLease(cur, adm) /\ adm.st # "absent"
        /\ adm.dec.cmd = d.cmd /\ adm.reason = "none"
    <3>1. adm = Joined(cur, d, rev) BY DEF Joined
    <3> HIDE DEF d, cur, rev, adm
    <3> QED BY <1>1, <1>2, <1>3, <1>5, <1>10, <3>1, CommandLemma
  <2> HIDE DEF adm
  <2>2. KeepsLease(items[k], adm) BY <1>1, <2>1 DEF Follows, KeepsLease
  <2> QED BY <1>3, <1>7, <1>10, <2>1, <2>2
<1> HIDE DEF new, adm
<1> QED BY <1>8, <1>9, <1>10 DEF EnqueueCommand, new, adm

LEMMA EnqueueRecoveryKeepsInv ==
  ASSUME QueueInv, NEW k \in Keys, NEW i \in 1 .. MaxHead, EnqueueRecovery(k, i)
  PROVE  QueueInv'
<1> DEFINE cur == Reclaim(items[k])
           d == [kind |-> "recovery", src |-> i, cmd |-> NoCommand]
           rev == NextRevision(k, cur.rev + 1)
           new == NewItem(d, rev)
<1>1. /\ rev \in Nat \ {0}
      /\ cur.st = "absent" \/ cur.reason = "scanner_refused" => owed[k] = NoCommand
  BY Current
<1>2. d \in Decision /\ d.cmd = NoCommand
  BY LimitsAssumption DEF Decision, Kinds
<1>3. /\ ReclaimAll = [j \in Keys |-> ReclaimAll[j]]
      /\ \A j \in Keys : ReclaimAll[j] = Reclaim(items[j]) /\ Follows(items[j], ReclaimAll[j])
  BY ReclaimAllFollows
<1>4. epoch \in Nat /\ alloc \in [Keys -> Nat] BY LimitsAssumption DEF QueueInv, TypeOK
<1>5. UNCHANGED <<leases, alarm, runs, claiming, workers, audits, answered, live, epoch, owed>>
  BY DEF EnqueueRecovery
<1>6. CASE UNCHANGED alloc /\ items' = ReclaimAll
  <2>1. Calm /\ CommandStep BY <1>3, <1>5, <1>6, AllFollow
  <2>2. Quiet BY <1>5, <1>6, <2>1 DEF Quiet, QueueInv, TypeOK
  <2> QED BY <2>2, QuietKeepsInv
<1>7. CASE /\ cur.st = "absent" \/ cur.reason = "scanner_refused"
           /\ items' = With(ReclaimAll, k, new)
           /\ alloc' = With(alloc, k, rev)
  <2>1. ItemInv(new) /\ KeepsLease(items[k], new)
    BY <1>1, <1>2, <1>4, NewItemLemma DEF KeepsLease
  <2> HIDE DEF new
  <2>2. Calm /\ \A j \in Keys : j # k => KeepsCommand(items[j], items'[j])
    BY <1>3, <1>7, <2>1, OneItem
  <2>3. CommandStep BY <1>1, <1>5, <1>7, <2>2 DEF CommandStep
  <2>4. alloc' \in [Keys -> Nat] BY <1>1, <1>4, <1>7 DEF With
  <2>5. Quiet BY <1>5, <1>7, <2>2, <2>3, <2>4 DEF Quiet, QueueInv, TypeOK
  <2> QED BY <2>5, QuietKeepsInv
<1> HIDE DEF new
<1> QED BY <1>6, <1>7 DEF EnqueueRecovery, new

----------------------------------------------------------------------------
(* The alarm                                                               *)

LEMMA AlarmStartKeepsInv ==
  ASSUME QueueInv, AlarmStart
  PROVE  QueueInv'
<1>1. \A k \in Keys : ReclaimAll[k] = Reclaim(items[k]) /\ Follows(items[k], ReclaimAll[k])
  BY ReclaimAllFollows
<1>2. items' = [k \in Keys |-> RecoverParked(ReclaimAll[k])] BY DEF AlarmStart
<1>3. ASSUME NEW k \in Keys PROVE Follows(items[k], items'[k])
  <2>1. Follows(items[k], ReclaimAll[k]) BY <1>1
  <2>2. Follows(ReclaimAll[k], RecoverParked(ReclaimAll[k]))
    BY <2>1, QueueItems, RecoverParkedFollows DEF Follows
  <2> QED BY <1>2, <2>1, <2>2, FollowsTrans
<1>4. items' = [k \in Keys |-> items'[k]] BY <1>2
<1>5. Calm /\ CommandStep BY <1>3, <1>4, AllFollow DEF AlarmStart
<1>6. Quiet BY <1>5 DEF AlarmStart, Quiet, QueueInv, TypeOK
<1> QED BY <1>6, QuietKeepsInv

LEMMA AlarmBlockedKeepsInv ==
  ASSUME QueueInv, AlarmBlocked
  PROVE  QueueInv'
<1>1. Calm /\ CommandStep BY ReclaimAllFollows, AllFollow DEF AlarmBlocked
<1>2. Quiet BY <1>1 DEF AlarmBlocked, Quiet, QueueInv, TypeOK
<1> QED BY <1>2, QuietKeepsInv

LEMMA AlarmFinishKeepsInv ==
  ASSUME QueueInv, AlarmFinish
  PROVE  QueueInv'
<1>1. ASSUME NEW k \in Keys PROVE Follows(items[k], items'[k])
  <2> DEFINE rejected == [Park(ClearLease(items[k]), "dispatch_rejected") EXCEPT !.epoch = epoch]
             back == [ClearLease(items[k]) EXCEPT !.st = "pending", !.due = TRUE]
  <2>1. items'[k] = IF ~FailureOwnsItem(k) THEN items[k]
                    ELSE IF alarm.failed[k] = "item" THEN rejected ELSE back
    BY DEF AlarmFinish
  <2>2. ItemInv(items[k]) /\ epoch \in Nat BY QueueItems
  <2>3. Follows(items[k], items[k]) BY <2>2, SelfFollows
  <2>4. ASSUME FailureOwnsItem(k) PROVE Follows(items[k], rejected) /\ Follows(items[k], back)
    <3>1. IsActive(items[k]) BY <2>4 DEF FailureOwnsItem, IsActive
    <3>2. Follows(items[k], rejected) BY <2>2, <3>1, RejectedLemma
    <3>3. ItemInv(back) /\ back.lease = 0 /\ back.dec = items[k].dec /\ back.st = "pending"
          /\ back.reason = "none"
      <4>1. TRUE \in BOOLEAN OBVIOUS
      <4> QED BY <2>2, <3>1, <4>1, RevokedLemma
    <3> HIDE DEF back
    <3>4. Follows(items[k], back) BY <3>3 DEF Follows, KeepsLease, KeepsCommand
    <3> QED BY <3>2, <3>4
  <2> HIDE DEF rejected, back
  <2> QED BY <2>1, <2>3, <2>4
<1>2. items' = [k \in Keys |-> items'[k]] BY DEF AlarmFinish
<1>3. Calm /\ CommandStep BY <1>1, <1>2, AllFollow DEF AlarmFinish
<1>4. Quiet BY <1>3 DEF AlarmFinish, Quiet, QueueInv, TypeOK
<1> QED BY <1>4, QuietKeepsInv

\* The candidates and the reviews at work fit into the slots together.
LEMMA AlarmAdmitKeepsInv ==
  ASSUME QueueInv, AlarmAdmit
  PROVE  QueueInv'
<1> DEFINE f == ReclaimAll
<1>1. PICK chosen \in SUBSET {k \in Keys : f[k].st = "pending" /\ f[k].due},
           parked \in SUBSET {k \in Keys : OperatorEligible(f[k])} :
        /\ Cardinality(chosen) <= ReviewSlots(f)
        /\ alarm' = [Idle EXCEPT !.pc = "probing", !.head = live,
                       !.cand = [k \in Keys |-> IF k \in chosen \cup parked
                                                THEN [st |-> f[k].st, rev |-> f[k].rev]
                                                ELSE NoCandidate]]
  BY DEF AlarmAdmit
<1>2. /\ items' = f /\ f = [k \in Keys |-> f[k]] /\ \A k \in Keys : Follows(items[k], f[k])
      /\ UNCHANGED <<alloc, leases, runs, claiming, workers, audits, answered, live, epoch, owed>>
  BY ReclaimAllFollows DEF AlarmAdmit
<1> HIDE DEF f
<1>3. Calm /\ CommandStep BY <1>2, AllFollow
<1>4. /\ items' \in [Keys -> ItemType] /\ \A k \in Keys : WellFormed(items'[k])
      /\ \A k \in Keys : Sound(items'[k])
  BY <1>3, SoundTypes DEF Calm
<1>5. /\ alarm'.pc = "probing" /\ alarm'.head = live /\ alarm'.todo = {}
      /\ alarm'.departs = NoLeases /\ alarm'.failed = NoFailures
      /\ alarm'.cand = [k \in Keys |-> IF k \in chosen \cup parked
                                      THEN [st |-> f[k].st, rev |-> f[k].rev] ELSE NoCandidate]
      /\ alarm' = [pc |-> alarm'.pc, cand |-> alarm'.cand, head |-> alarm'.head,
                   departs |-> alarm'.departs, todo |-> alarm'.todo, failed |-> alarm'.failed]
  BY <1>1 DEF Idle
<1>6. \A k \in chosen \cup parked : k \in Keys /\ f[k].st \in {"pending", "parked"} /\ f[k].rev \in Nat
  <2>1. \A k \in Keys : f[k].rev \in Nat BY <1>2, <1>4 DEF ItemType
  <2> QED BY <2>1 DEF OperatorEligible
<1>7. AlarmOK'
  <2>1. alarm'.cand \in [Keys -> [st : {"absent", "pending", "parked"}, rev : Nat]]
    BY <1>5, <1>6 DEF NoCandidate
  <2>2. alarm'.head \in [Keys -> 1 .. MaxHead] /\ alarm'.head \in [Keys -> 0 .. MaxHead]
    BY <1>5, LimitsAssumption DEF QueueInv, TypeOK
  <2>3. alarm'.departs \in [Keys -> Nat] /\ alarm'.failed \in [Keys -> {"none", "item", "global"}]
    BY <1>5 DEF NoLeases, NoFailures
  <2>4. alarm' \in AlarmType BY <1>5, <2>1, <2>2, <2>3 DEF AlarmType
  <2> QED BY <2>2, <2>4 DEF AlarmOK
<1>8. TypeOK' BY <1>2, <1>4, <1>5 DEF TypeOK, QueueInv
<1>9. (\A k \in Keys : items'[k].lease <= leases'[k]) /\ Claimed' /\ OneClaimantPerGeneration'
  BY <1>2, <1>3, CalmClaims
<1>10. Numbered' BY <1>2, <1>5, <1>9 DEF Numbered, QueueInv
<1>11. CommandHeld' BY <1>3, CommandStepHolds
<1>12. Slots'
  <2>1. Booked' \subseteq chosen
    <3> SUFFICES ASSUME NEW k \in Keys, alarm'.cand[k].st = "pending" PROVE k \in chosen
      BY DEF Booked
    <3>1. k \in chosen \cup parked /\ f[k].st = "pending"
      BY <1>5 DEF NoCandidate
    <3>2. k \notin parked BY <3>1 DEF OperatorEligible
    <3> QED BY <3>1, <3>2
  <2>2. Active' \subseteq Active /\ Active \in SUBSET Keys /\ Active' \in SUBSET Keys
    BY <1>3, CalmActive DEF Active
  <2>3. Cardinality(Active') <= Capacity
    BY <2>2, SmallerSet DEF QueueInv, Slots
  <2>4. IsFiniteSet(Active') /\ IsFiniteSet(chosen) /\ chosen \in SUBSET Keys
    BY <2>2, KeysAssumption, FS_Subset
  <2>5. /\ Cardinality(Active') \in Nat /\ Cardinality(chosen) \in Nat
    BY <2>4, FS_CardinalityType
  <2>6. /\ IsFiniteSet(Active' \cup chosen)
        /\ Cardinality(Active' \cup chosen) = Cardinality(Active') + Cardinality(chosen)
                                                - Cardinality(Active' \cap chosen)
    BY <2>4, FS_Union
  <2>7. Cardinality(Active' \cap chosen) \in Nat
    BY <2>4, FS_Intersection, FS_CardinalityType
  <2>8. Cardinality(chosen) <= (IF Cardinality(Active') < Capacity
                                THEN Capacity - Cardinality(Active') ELSE 0)
    <3>1. Active' = {k \in Keys : IsActive(f[k])} BY <1>2 DEF Active
    <3> QED BY <1>1, <3>1 DEF ReviewSlots
  <2>9. Cardinality(Active' \cup chosen) <= Capacity
    BY <2>3, <2>5, <2>6, <2>7, <2>8, CapacityAssumption
  <2>10. Cardinality(Active' \cup Booked') <= Capacity
    <3>1. Active' \cup Booked' \subseteq Active' \cup chosen /\ Active' \cup Booked' \in SUBSET Keys
          /\ Active' \cup chosen \in SUBSET Keys
      BY <2>1, <2>2, <2>4
    <3> QED BY <2>9, <3>1, SmallerSet
  <2> QED BY <2>3, <2>10 DEF Slots
<1> QED BY <1>4, <1>7, <1>8, <1>9, <1>10, <1>11, <1>12 DEF QueueInv

LEMMA DispatchItemKeepsInv ==
  ASSUME QueueInv, NEW k \in Keys, NEW result \in {"ok", "item", "global"},
         NEW n \in 0 .. MaxRuns, DispatchItem(k, result, n)
  PROVE  QueueInv'
<1> DEFINE failed == [j \in Keys |->
                        IF j = k /\ result # "ok" THEN result
                        ELSE IF result = "global" /\ j \in alarm.todo THEN "global"
                        ELSE alarm.failed[j]]
           todo == IF result = "global" THEN {} ELSE alarm.todo \ {k}
<1>1. alarm \in AlarmType /\ alarm.pc = "departing" /\ k \in alarm.todo
  BY DEF QueueInv, AlarmOK, DispatchItem
<1>2. alarm' = [alarm EXCEPT !.todo = todo, !.failed = failed]
  BY DEF DispatchItem
<1>3. failed \in [Keys -> {"none", "item", "global"}]
  <2>1. alarm.failed \in [Keys -> {"none", "item", "global"}] BY <1>1 DEF AlarmType
  <2> QED BY <2>1
<1>4. todo \in SUBSET Keys /\ todo \subseteq alarm.todo
  <2>1. alarm.todo \in SUBSET Keys BY <1>1 DEF AlarmType
  <2> QED BY <2>1
<1> HIDE DEF failed, todo
<1>5. /\ alarm' \in AlarmType /\ alarm'.pc = "departing" /\ alarm'.todo = todo
      /\ alarm'.departs = alarm.departs
  BY <1>1, <1>2, <1>3, <1>4 DEF AlarmType
<1>6. AlarmOK' BY <1>5 DEF AlarmOK
<1>7. /\ runs' = runs \cup {[key |-> k, lease |-> alarm.departs[k], run |-> r] : r \in 1 .. n}
      /\ UNCHANGED <<items, alloc, leases, claiming, workers, audits, answered, live, epoch, owed>>
  BY DEF DispatchItem
<1>8. \A r \in runs' : /\ r \in [key : Keys, lease : Nat, run : Nat]
                       /\ r.lease \in 1 .. leases[r.key] /\ r.run > 0
  <2>1. alarm.departs[k] \in 1 .. leases[k] /\ leases[k] \in Nat
    BY <1>1 DEF QueueInv, Numbered, TypeOK
  <2>2. \A r \in runs : /\ r \in [key : Keys, lease : Nat, run : Nat]
                        /\ r.lease \in 1 .. leases[r.key] /\ r.run > 0
    BY DEF QueueInv, Numbered, TypeOK
  <2>3. \A r \in 1 .. n : r \in Nat /\ r > 0 BY LimitsAssumption
  <2> QED BY <1>7, <2>1, <2>2, <2>3
<1>9. TypeOK' BY <1>5, <1>7, <1>8 DEF TypeOK, QueueInv
<1>10. Numbered' BY <1>4, <1>5, <1>7, <1>8 DEF Numbered, QueueInv
<1>11. Claimed' /\ OneClaimantPerGeneration' /\ CommandHeld' /\ \A j \in Keys : Sound(items'[j])
  BY <1>7 DEF QueueInv, Claimed, OneClaimantPerGeneration, CommandHeld
<1>12. Slots' BY <1>5, <1>7 DEF QueueInv, Slots, Active
<1> QED BY <1>6, <1>9, <1>10, <1>11, <1>12 DEF QueueInv

\* What the probes of a candidate do to its item.
LEMMA ObservedLemma ==
  ASSUME QueueInv, NEW k \in Keys, NEW o, NEW global, NEW head \in [Keys -> 1 .. MaxHead]
  PROVE  LET seen == Observed(k, o, global, head)
             gone == IsCandidate(k) /\ items[k].st = "pending" /\ o = "target_terminal"
         IN  /\ ItemInv(seen) /\ KeepsLease(items[k], seen)
             /\ ~gone => Follows(items[k], seen)
<1> DEFINE it == items[k]
           seen == Observed(k, o, global, head)
<1>1. ItemInv(it) /\ epoch \in Nat /\ Follows(it, it) /\ head[k] \in 1 .. MaxHead
  BY QueueItems, SelfFollows
<1>2. CASE ~IsCandidate(k) BY <1>1, <1>2 DEF Observed, Follows
<1>3. CASE IsCandidate(k) /\ it.st = "parked"
  <2>1. seen = ObservedParked(it, o, head[k]) BY <1>3 DEF Observed
  <2>2. Follows(it, ObservedParked(it, o, head[k])) BY <1>1, <1>3, ObservedParkedFollows
  <2> QED BY <2>1, <2>2 DEF Follows
<1>4. CASE IsCandidate(k) /\ it.st # "parked"
  <2> DEFINE new == ObservedPending(it, o, global, head[k], answered[k])
  <2>1. it.st = "pending"
    BY <1>4 DEF IsCandidate, QueueInv, AlarmOK, AlarmType
  <2>2. seen = new BY <1>4 DEF Observed
  <2>3. ItemInv(new) /\ new.lease = 0 /\ (o # "target_terminal" => Follows(it, new))
    BY <1>1, <2>1, ObservedPendingLemma
  <2> HIDE DEF new
  <2> QED BY <1>4, <2>1, <2>2, <2>3 DEF KeepsLease
<1> QED BY <1>2, <1>3, <1>4

LEMMA AlarmObserveKeepsInv ==
  ASSUME QueueInv, NEW obs, NEW head \in {alarm.head, live}, AlarmObserve(obs, head)
  PROVE  QueueInv'
<1> DEFINE global == \E k \in Keys : obs[k] = "unavailable_global" /\ alarm.cand[k].st = "pending"
           seen == [k \in Keys |-> Observed(k, obs[k], global, head)]
           departing == {k \in Keys : ~global /\ Dispatchable(k, seen[k], obs[k])}
           gone(k) == IsCandidate(k) /\ items[k].st = "pending" /\ obs[k] = "target_terminal"
<1>1. /\ alarm.pc = "probing"
      /\ items' = [k \in Keys |-> IF k \in departing
                                 THEN DispatchLease(seen[k], leases[k] + 1) ELSE seen[k]]
      /\ leases' = [k \in Keys |-> IF k \in departing THEN leases[k] + 1 ELSE leases[k]]
      /\ alarm' = IF departing = {} THEN Idle
                 ELSE [Idle EXCEPT !.pc = "departing", !.todo = departing,
                         !.departs = [k \in Keys |-> IF k \in departing
                                                     THEN leases[k] + 1 ELSE 0]]
      /\ owed' = [k \in Keys |-> IF gone(k) THEN NoCommand ELSE owed[k]]
      /\ UNCHANGED <<alloc, runs, claiming, workers, audits, answered, live, epoch>>
  BY DEF AlarmObserve
<1>2. head \in [Keys -> 1 .. MaxHead] BY <1>1 DEF QueueInv, AlarmOK, TypeOK
<1>3. \A k \in Keys : /\ ItemInv(seen[k]) /\ KeepsLease(items[k], seen[k])
                      /\ ~gone(k) => Follows(items[k], seen[k])
  <2> HIDE DEF global
  <2> SUFFICES ASSUME NEW k \in Keys
               PROVE  /\ ItemInv(seen[k]) /\ KeepsLease(items[k], seen[k])
                      /\ ~gone(k) => Follows(items[k], seen[k])
    OBVIOUS
  <2>1. seen[k] = Observed(k, obs[k], global, head) OBVIOUS
  <2> HIDE DEF seen
  <2> QED BY <1>2, <2>1, ObservedLemma
<1>4. \A k \in departing : k \in Keys /\ seen[k].st = "pending" /\ k \in Booked
  BY DEF Dispatchable, Booked
<1>5. \A k \in Keys : leases[k] \in Nat BY QueueItems
<1> HIDE DEF global, seen, departing, gone
<1>6. \A k \in Keys : k \notin departing => items'[k] = seen[k] /\ leases'[k] = leases[k]
  BY <1>1
<1>7. ASSUME NEW k \in departing
      PROVE  /\ k \in Keys /\ leases'[k] = leases[k] + 1 /\ ItemInv(items'[k])
             /\ items'[k].lease = leases[k] + 1 /\ items'[k].dec = seen[k].dec
             /\ items'[k].st = "dispatching" /\ items'[k].reason = "none"
  <2> DEFINE d == DispatchLease(seen[k], leases[k] + 1)
  <2>1. items'[k] = d /\ leases'[k] = leases[k] + 1 /\ k \in Keys /\ leases[k] + 1 \in Nat \ {0}
    BY <1>1, <1>4, <1>5
  <2>2. ItemInv(d) /\ d.lease = leases[k] + 1 /\ d.dec = seen[k].dec
        /\ d.st = "dispatching" /\ d.reason = "none"
    BY <1>3, <1>4, <2>1, DispatchLemma
  <2> HIDE DEF d
  <2> QED BY <2>1, <2>2
<1>8. items' = [k \in Keys |-> items'[k]] /\ \A k \in Keys : ItemInv(items'[k])
  BY <1>1, <1>3, <1>6, <1>7
<1>9. /\ items' \in [Keys -> ItemType] /\ \A k \in Keys : WellFormed(items'[k])
      /\ \A k \in Keys : Sound(items'[k])
  BY <1>8, SoundTypes
<1>10. \A k \in Keys : leases'[k] \in Nat /\ leases[k] <= leases'[k] BY <1>5, <1>6, <1>7
<1>11. AlarmOK' /\ alarm'.pc # "probing" /\ \A k \in alarm'.todo : alarm'.departs[k] \in 1 .. leases'[k]
  <2>1. CASE departing = {} BY <1>1, <2>1, IdleLemma DEF AlarmOK
  <2>2. CASE departing # {}
    <3> DEFINE departs == [k \in Keys |-> IF k \in departing THEN leases[k] + 1 ELSE 0]
    <3>1. departs \in [Keys -> Nat] BY <1>5
    <3>2. departing \in SUBSET Keys BY <1>4
    <3>3. \A k \in departing : departs[k] = leases'[k] /\ departs[k] \in 1 .. leases'[k]
      BY <1>4, <1>5, <1>7
    <3>4. alarm' = [Idle EXCEPT !.pc = "departing", !.todo = departing, !.departs = departs]
      BY <1>1, <2>2
    <3> HIDE DEF departs
    <3>5. alarm' \in AlarmType /\ alarm'.pc = "departing" /\ alarm'.todo = departing
          /\ alarm'.departs = departs
      BY <3>1, <3>2, <3>4, IdleLemma DEF AlarmType
    <3> QED BY <3>3, <3>5 DEF AlarmOK
  <2> QED BY <2>1, <2>2
<1>12. TypeOK'
  <2>1. leases' \in [Keys -> Nat] BY <1>1, <1>5
  <2>2. owed' \in [Keys -> Commands \cup {NoCommand}] BY <1>1 DEF QueueInv, TypeOK
  <2>3. alarm'.pc \in {"idle", "preflight", "probing", "departing"}
    BY <1>11 DEF AlarmOK, AlarmType
  <2> QED BY <1>1, <1>9, <2>1, <2>2, <2>3 DEF TypeOK, QueueInv
<1>13. Numbered'
  <2>1. \A k \in Keys : items'[k].lease <= leases'[k]
    <3> SUFFICES ASSUME NEW k \in Keys PROVE items'[k].lease <= leases'[k] OBVIOUS
    <3>1. CASE k \in departing BY <1>5, <1>7, <3>1
    <3>2. CASE k \notin departing
      <4>1. items[k].lease <= leases[k] BY DEF QueueInv, Numbered
      <4>2. seen[k].lease = 0 \/ seen[k].lease = items[k].lease BY <1>3 DEF KeepsLease
      <4> QED BY <1>5, <1>6, <3>2, <4>1, <4>2
    <3> QED BY <3>1, <3>2
  <2>2. \A r \in runs : r.key \in Keys /\ r.lease \in Nat /\ r.lease \in 1 .. leases[r.key] /\ r.run > 0
    BY DEF QueueInv, TypeOK, Numbered
  <2>3. \A r \in claiming : r.key \in Keys /\ r.lease \in Nat /\ r.lease \in 1 .. leases[r.key]
                            /\ r.run > 0 /\ r.att > 0
    BY DEF QueueInv, TypeOK, Numbered
  <2>4. \A r \in workers : r.key \in Keys /\ r.lease \in Nat /\ r.lease \in 1 .. leases[r.key] /\ r.run > 0
    BY DEF QueueInv, TypeOK, Numbered, Tuples
  <2>5. \A k \in Keys : \A l \in Nat : l \in 1 .. leases[k] => l \in 1 .. leases'[k]
    BY <1>5, <1>10
  <2>6. \A r \in runs' : r.lease \in 1 .. leases'[r.key] /\ r.run > 0 BY <1>1, <2>2, <2>5
  <2>7. \A r \in claiming' : r.lease \in 1 .. leases'[r.key] /\ r.run > 0 /\ r.att > 0
    BY <1>1, <2>3, <2>5
  <2>8. \A r \in workers' : r.lease \in 1 .. leases'[r.key] /\ r.run > 0 BY <1>1, <2>4, <2>5
  <2> QED BY <1>11, <2>1, <2>6, <2>7, <2>8 DEF Numbered
<1>14. Claimed'
  <2> SUFFICES ASSUME NEW w \in workers, w.lease = items'[w.key].lease
               PROVE  Holder(w, items'[w.key])
    BY <1>1 DEF Claimed, Holder
  <2>1. w.key \in Keys /\ w.lease \in Nat /\ w.lease \in 1 .. leases[w.key]
    BY DEF QueueInv, TypeOK, Tuples, Numbered
  <2>2. w.key \notin departing BY <1>5, <1>7, <2>1
  <2>3. items'[w.key] = seen[w.key] /\ KeepsLease(items[w.key], seen[w.key])
    BY <1>3, <1>6, <2>1, <2>2
  <2>4. w.lease # 0 BY <2>1
  <2>5. /\ items'[w.key].lease = items[w.key].lease /\ items'[w.key].run = items[w.key].run
        /\ items'[w.key].att = items[w.key].att /\ items'[w.key].gen = items[w.key].gen
    BY <2>3, <2>4 DEF KeepsLease
  <2>6. Holder(w, items[w.key]) BY <2>5 DEF QueueInv, Claimed
  <2> QED BY <2>5, <2>6 DEF Holder
<1>15. OneClaimantPerGeneration' BY <1>1 DEF QueueInv, OneClaimantPerGeneration
<1>16. CommandHeld'
  <2>1. CommandStep
    <3> SUFFICES ASSUME NEW k \in Keys, owed'[k] # NoCommand
                 PROVE  owed'[k] = owed[k] /\ KeepsCommand(items[k], items'[k])
      BY DEF CommandStep
    <3>1. ~gone(k) /\ owed'[k] = owed[k] BY <1>1
    <3>2. KeepsCommand(items[k], seen[k]) BY <1>3, <3>1 DEF Follows
    <3>3. KeepsCommand(items[k], items'[k]) BY <1>6, <1>7, <3>2 DEF KeepsCommand
    <3> QED BY <3>1, <3>3
  <2> QED BY <2>1, CommandStepHolds
<1>17. Slots'
  <2>1. Active' \subseteq Active \cup Booked
    <3> SUFFICES ASSUME NEW k \in Keys, IsActive(items'[k]), k \notin Booked PROVE IsActive(items[k])
      BY DEF Active
    <3>1. items'[k] = seen[k] BY <1>4, <1>6
    <3>2. items'[k].lease # 0 BY <1>8 DEF ItemInv, WellFormed
    <3>3. items[k].lease # 0 BY <1>3, <3>1, <3>2 DEF KeepsLease
    <3> QED BY <3>3, QueueItems DEF ItemInv, WellFormed
  <2>2. Active' \in SUBSET Keys /\ Active \cup Booked \in SUBSET Keys BY DEF Active, Booked
  <2>3. Cardinality(Active \cup Booked) <= Capacity BY <1>1 DEF QueueInv, Slots
  <2>4. Cardinality(Active') <= Capacity BY <2>1, <2>2, <2>3, SmallerSet
  <2> QED BY <1>11, <2>4 DEF Slots
<1> QED BY <1>9, <1>11, <1>12, <1>13, <1>14, <1>15, <1>16, <1>17 DEF QueueInv

----------------------------------------------------------------------------
(* Runs and workers                                                        *)

\* One item is replaced, no command is admitted.
LEMMA OneItemQuiet ==
  ASSUME QueueInv, NEW k \in Keys, NEW new, ItemInv(new), KeepsLease(items[k], new),
         items' = With(items, k, new),
         \/ UNCHANGED owed /\ KeepsCommand(items[k], new)
         \/ UNCHANGED owed /\ owed[k] = NoCommand
         \/ owed' = With(owed, k, NoCommand),
         UNCHANGED <<alloc, leases, alarm, runs, workers, answered, live, epoch>>,
         claiming' \subseteq claiming, audits' \subseteq Tuples
  PROVE  QueueInv'
<1>1. items = [j \in Keys |-> items[j]] /\ \A j \in Keys : Follows(items[j], items[j])
  BY ItemsFollow
<1>2. Calm /\ items'[k] = new /\ \A j \in Keys : j # k => KeepsCommand(items[j], items'[j])
  BY <1>1, OneItem
<1>3. /\ \A j \in Keys : j # k => owed'[j] = owed[j]
      /\ owed'[k] = NoCommand \/ (owed'[k] = owed[k] /\ KeepsCommand(items[k], new))
      /\ owed' \in [Keys -> Commands \cup {NoCommand}]
  <2>1. owed \in [Keys -> Commands \cup {NoCommand}] BY DEF QueueInv, TypeOK
  <2> QED BY <2>1, WithLemma DEF With
<1>4. CommandStep BY <1>2, <1>3 DEF CommandStep
<1>5. Quiet BY <1>2, <1>3, <1>4 DEF Quiet, QueueInv, TypeOK
<1> QED BY <1>5, QuietKeepsInv

LEMMA ClaimBeginKeepsInv ==
  ASSUME QueueInv, NEW r \in runs, NEW att \in 1 .. MaxAttempt, ClaimBegin(r, att)
  PROVE  QueueInv'
<1> DEFINE c == [key |-> r.key, lease |-> r.lease, run |-> r.run, att |-> att]
<1>1. /\ r \in [key : Keys, lease : Nat, run : Nat] /\ r.key \in Keys
      /\ r.lease \in 1 .. leases[r.key] /\ r.run > 0
  BY DEF QueueInv, TypeOK, Numbered
<1>2. UNCHANGED <<alloc, leases, alarm, runs, workers, audits, answered, live, epoch, owed>>
  BY DEF ClaimBegin
<1>3. CASE items' = With(items, r.key, Reclaim(items[r.key])) /\ UNCHANGED claiming
  <2>1. Follows(items[r.key], Reclaim(items[r.key])) BY <1>1, QueueItems, ReclaimFollows
  <2>2. audits' \subseteq Tuples BY <1>2 DEF QueueInv, TypeOK
  <2> QED BY <1>1, <1>2, <1>3, <2>1, <2>2, OneItemQuiet DEF Follows
<1>4. CASE claiming' = claiming \cup {c} /\ UNCHANGED items
  <2>1. c \in [key : Keys, lease : Nat, run : Nat, att : Nat] /\ c.att > 0
        /\ c.lease = r.lease /\ c.key = r.key /\ c.run = r.run
    BY <1>1, LimitsAssumption
  <2> HIDE DEF c
  <2>2. TypeOK' BY <1>2, <1>4, <2>1 DEF QueueInv, TypeOK
  <2>3. Numbered' BY <1>1, <1>2, <1>4, <2>1 DEF QueueInv, Numbered
  <2>4. /\ Claimed' /\ OneClaimantPerGeneration' /\ CommandHeld' /\ \A j \in Keys : Sound(items'[j])
        /\ AlarmOK' /\ Slots'
    BY <1>2, <1>4 DEF QueueInv, Claimed, OneClaimantPerGeneration, CommandHeld, AlarmOK, Slots,
                      Active, Booked
  <2> QED BY <2>2, <2>3, <2>4 DEF QueueInv
<1> QED BY <1>3, <1>4 DEF ClaimBegin

\* A claimable item is active, and the run that claims it is the only one.
LEMMA GrantKeepsInv ==
  ASSUME QueueInv, NEW c \in claiming, StillClaimable(items[c.key], c),
         c.att >= items[c.key].att, claiming' = claiming \ {c},
         items' = With(items, c.key, Granted(items[c.key], c)),
         workers' = workers \cup {[Claimant(c.key, Granted(items[c.key], c)) EXCEPT
                                     !.run = c.run, !.att = c.att]},
         UNCHANGED <<alloc, leases, alarm, runs, audits, answered, live, epoch, owed>>
  PROVE  QueueInv'
<1> DEFINE k == c.key
           it == items[k]
           new == Granted(it, c)
           x == [Claimant(k, new) EXCEPT !.run = c.run, !.att = c.att]
<1>1. /\ c \in [key : Keys, lease : Nat, run : Nat, att : Nat] /\ k \in Keys /\ c.run \in Nat \ {0}
      /\ c.att \in Nat /\ c.att > 0 /\ c.lease \in 1 .. leases[k] /\ c.lease \in Nat
      /\ leases[k] \in Nat
  BY QueueItems DEF QueueInv, TypeOK, Numbered
<1>2. ItemInv(it) /\ it \in ItemType /\ it.gen \in Nat /\ it.att \in Nat /\ it.run \in Nat
  BY <1>1, QueueItems DEF ItemInv, ItemType
<1>3. it.lease = c.lease /\ it.run \in {0, c.run} /\ c.lease # 0
  BY <1>1 DEF StillClaimable, Claimable
<1>4. IsActive(it) BY <1>2, <1>3 DEF ItemInv, WellFormed
<1>5. /\ ItemInv(new) /\ new.lease = it.lease /\ new.dec = it.dec /\ new.st # "absent"
      /\ new.reason = it.reason /\ IsActive(new)
      /\ new.run = c.run /\ new.att = c.att
      /\ \/ new.gen = it.gen /\ it.run # 0 /\ it.att = c.att
         \/ new.gen = it.gen + 1 /\ (it.run = 0 \/ it.att # c.att)
  BY <1>1, <1>2, <1>3, <1>4, GrantLemma
<1>6. /\ items' = With(items, k, new) /\ workers' = workers \cup {x} OBVIOUS
<1> HIDE DEF new
<1>7. new \in ItemType BY <1>5 DEF ItemInv
<1>8. /\ x \in Tuples /\ x.key = k /\ x.lease = c.lease /\ x.run = c.run /\ x.att = c.att
      /\ x.gen = new.gen
  BY <1>1, <1>3, <1>5, <1>7 DEF Claimant, Tuples, ItemType
<1> HIDE DEF x
<1>9. /\ items' = [j \in Keys |-> items'[j]] /\ items'[k] = new
      /\ \A j \in Keys : j # k => items'[j] = items[j]
  BY <1>1, <1>6, WithLemma
<1>10. \A j \in Keys : ItemInv(items'[j]) BY <1>5, <1>9, QueueItems
<1>11. /\ items' \in [Keys -> ItemType] /\ \A j \in Keys : WellFormed(items'[j])
       /\ \A j \in Keys : Sound(items'[j])
  BY <1>9, <1>10, SoundTypes
<1>12. TypeOK' BY <1>6, <1>8, <1>11 DEF QueueInv, TypeOK
<1>13. AlarmOK' BY DEF QueueInv, AlarmOK
<1>14. Numbered'
  <2>1. \A j \in Keys : items'[j].lease <= leases[j]
    BY <1>1, <1>3, <1>5, <1>9 DEF QueueInv, Numbered
  <2> QED BY <1>1, <1>6, <1>8, <2>1 DEF QueueInv, Numbered
<1>15. \A w \in workers : w \in Tuples /\ w.key \in Keys /\ w.run \in Nat /\ w.run > 0 /\ w.gen \in Nat
                          /\ w.att \in Nat /\ (w.lease = items[w.key].lease => Holder(w, items[w.key]))
  BY DEF QueueInv, TypeOK, Tuples, Numbered, Claimed
<1>16. ASSUME NEW w \in workers, w.key = k, w.lease = c.lease
       PROVE  Holder(w, new)
  <2>1. Holder(w, it) /\ w.run > 0 /\ w.run \in Nat /\ w.gen \in Nat /\ w.att \in Nat
    BY <1>3, <1>15, <1>16
  <2>2. it.run = c.run /\ it.run # 0 BY <1>1, <1>3, <2>1 DEF Holder
  <2>3. CASE new.gen = it.gen /\ it.att = c.att BY <1>5, <2>1, <2>2, <2>3 DEF Holder
  <2>4. CASE new.gen = it.gen + 1 /\ it.att # c.att
    <3>1. c.att > it.att BY <1>1, <1>2, <2>4
    <3>2. w.gen < new.gen /\ w.att < new.att BY <1>1, <1>2, <1>5, <2>1, <2>4, <3>1 DEF Holder
    <3>3. w.run = new.run BY <1>5, <2>1, <2>2 DEF Holder
    <3>4. new.gen \in Nat /\ new.att \in Nat BY <1>1, <1>2, <1>5, <2>4
    <3> QED BY <2>1, <3>2, <3>3, <3>4 DEF Holder
  <2> QED BY <1>5, <2>2, <2>3, <2>4
<1>17. Claimed'
  <2> SUFFICES ASSUME NEW w \in workers', w.lease = items'[w.key].lease
               PROVE  Holder(w, items'[w.key])
    BY DEF Claimed, Holder
  <2>1. CASE w = x
    <3>1. new.gen \in Nat /\ new.att \in Nat BY <1>7 DEF ItemType
    <3> QED BY <1>5, <1>8, <1>9, <2>1, <3>1 DEF Holder
  <2>2. CASE w \in workers /\ w.key = k BY <1>3, <1>5, <1>9, <1>16, <2>2
  <2>3. CASE w \in workers /\ w.key # k BY <1>9, <1>15, <2>3
  <2> QED BY <1>6, <2>1, <2>2, <2>3
<1>18. OneClaimantPerGeneration'
  <2>1. ASSUME NEW w \in workers, w.key = x.key, w.lease = x.lease
        PROVE  w.run = x.run /\ (w.gen = x.gen <=> w.att = x.att)
    <3>1. Holder(w, new) BY <1>8, <1>16, <2>1
    <3> QED BY <1>5, <1>8, <3>1 DEF Holder
  <2>2. OneClaimantPerGeneration BY DEF QueueInv
  <2> SUFFICES ASSUME NEW v \in workers', NEW w \in workers', v.key = w.key, v.lease = w.lease
               PROVE  v.run = w.run /\ (v.gen = w.gen <=> v.att = w.att)
    BY DEF OneClaimantPerGeneration
  <2>3. CASE v \in workers /\ w \in workers BY <2>2, <2>3 DEF OneClaimantPerGeneration
  <2>4. CASE v = x /\ w = x BY <2>4
  <2>5. CASE v = x /\ w \in workers BY <2>1, <2>5
  <2>6. CASE w = x /\ v \in workers BY <2>1, <2>6
  <2> QED BY <1>6, <2>3, <2>4, <2>5, <2>6
<1>19. CommandHeld' BY <1>1, <1>5, <1>9 DEF QueueInv, CommandHeld
<1>20. Slots'
  <2>1. Active' = Active BY <1>1, <1>4, <1>5, <1>9 DEF Active
  <2>2. Booked' = Booked BY DEF Booked
  <2> QED BY <2>1, <2>2 DEF QueueInv, Slots
<1> QED BY <1>11, <1>12, <1>13, <1>14, <1>17, <1>18, <1>19, <1>20 DEF QueueInv

LEMMA ClaimSettleKeepsInv ==
  ASSUME QueueInv, NEW c \in claiming, NEW admission, ClaimSettle(c, admission)
  PROVE  QueueInv'
<1> DEFINE k == c.key
           it == items[k]
           done == Finish(it, "success", RequestedFollowUp(it), 0)
<1>1. k \in Keys /\ c.lease \in 1 .. leases[k] /\ leases[k] \in Nat
  BY QueueItems DEF QueueInv, TypeOK, Numbered
<1>2. ItemInv(it) /\ epoch \in Nat BY <1>1, QueueItems
<1>3. /\ claiming' = claiming \ {c} /\ audits' \subseteq Tuples
      /\ UNCHANGED <<alloc, leases, alarm, runs, audits, answered, live, epoch>>
  BY DEF ClaimSettle, QueueInv, TypeOK
<1>4. CASE UNCHANGED <<items, owed, workers>>
  <2>1. Calm /\ CommandStep BY <1>4, ItemsFollow, AllFollow
  <2>2. Quiet BY <1>3, <1>4, <2>1 DEF Quiet, QueueInv, TypeOK
  <2> QED BY <2>2, QuietKeepsInv
<1>5. CASE items' = With(items, k, NoItem) /\ owed' = With(owed, k, NoCommand) /\ UNCHANGED workers
  <2>1. ItemInv(NoItem) /\ KeepsLease(it, NoItem) BY NoItemLemma DEF KeepsLease
  <2> QED BY <1>1, <1>3, <1>5, <2>1, OneItemQuiet
<1>6. CASE /\ StillClaimable(it, c) /\ IsAutomatic(it.leaseDec)
           /\ items' = With(items, k, done) /\ UNCHANGED <<owed, workers>>
  <2>1. it.lease # 0 BY <1>1, <1>6 DEF StillClaimable, Claimable
  <2>2. IsActive(it) BY <1>2, <2>1 DEF ItemInv, WellFormed
  <2>3. /\ ItemInv(done) /\ done.lease = 0
        /\ done.reason # "scanner_refused"
        /\ \/ done.st # "absent" /\ done.dec = it.dec
           \/ it.dec = it.leaseDec
    BY <1>2, <2>2, FinishLemma
  <2> HIDE DEF done
  <2>4. KeepsLease(it, done) BY <2>3 DEF KeepsLease
  <2>5. it.leaseDec.cmd = NoCommand BY <1>6 DEF IsAutomatic, HasCommandContext
  <2>6. KeepsCommand(it, done) BY <2>3, <2>5 DEF KeepsCommand
  <2> QED BY <1>1, <1>3, <1>6, <2>3, <2>4, <2>6, OneItemQuiet
<1>7. CASE /\ StillClaimable(it, c) /\ c.att >= it.att
           /\ items' = With(items, k, Granted(it, c))
           /\ workers' = workers \cup {[Claimant(k, Granted(it, c)) EXCEPT !.run = c.run, !.att = c.att]}
           /\ UNCHANGED owed
  BY <1>3, <1>7, GrantKeepsInv
<1> HIDE DEF done
<1> QED BY <1>4, <1>5, <1>6, <1>7 DEF ClaimSettle, done

LEMMA HeartbeatKeepsInv ==
  ASSUME QueueInv, NEW w \in workers, NEW phase \in Phases, NEW start, Heartbeat(w, phase, start)
  PROVE  QueueInv'
<1> DEFINE k == w.key
           it == items[k]
           charge == start /\ it.chargeGen # 0 /\ it.chargeGen = it.gen
           kept == IF charge
                   THEN [ClearCharge(it) EXCEPT !.starts = IF it.starts < 2 THEN it.starts + 1 ELSE 2]
                   ELSE it
           beat == [kept EXCEPT !.phase = phase]
           back == [ClearLease(it) EXCEPT !.st = "pending", !.due = FALSE]
<1>1. k \in Keys BY DEF QueueInv, TypeOK, Tuples
<1>2. ItemInv(it) /\ it \in ItemType /\ epoch \in Nat BY <1>1, QueueItems DEF ItemInv
<1>3. UNCHANGED <<alloc, leases, alarm, runs, claiming, workers, answered, live, epoch, owed>>
  BY DEF Heartbeat
<1>4. audits' \subseteq Tuples
  <2>1. Claimant(k, it) \in Tuples
    <3>1. it.rev \in Nat BY <1>2 DEF ItemType
    <3> QED BY <1>1, <1>2, <3>1, ClaimantType
  <2>2. audits' = audits \/ audits' = audits \cup {Claimant(k, it)} BY DEF Heartbeat
  <2> QED BY <2>1, <2>2 DEF QueueInv, TypeOK
<1>5. Follows(it, Reclaim(it)) BY <1>2, ReclaimFollows
<1>6. Follows(it, beat) BY <1>2, HeartbeatLemma
<1>7. ASSUME it.st = "leased" PROVE Follows(it, back)
  <2>1. IsActive(it) /\ FALSE \in BOOLEAN BY <1>7 DEF IsActive
  <2>2. ItemInv(back) /\ back.lease = 0 /\ back.dec = it.dec /\ back.st = "pending"
        /\ back.reason = "none"
    BY <1>2, <2>1, RevokedLemma
  <2> HIDE DEF back
  <2> QED BY <2>2 DEF Follows, KeepsLease, KeepsCommand
<1>8. \/ items' = With(items, k, Reclaim(it))
      \/ items' = With(items, k, back) /\ it.st = "leased"
      \/ items' = With(items, k, beat)
  BY DEF Heartbeat
<1> HIDE DEF back, beat
<1>9. PICK new : Follows(it, new) /\ items' = With(items, k, new) BY <1>5, <1>6, <1>7, <1>8
<1> QED BY <1>1, <1>3, <1>4, <1>9, OneItemQuiet DEF Follows

\* A completion ends the command it answers, or keeps it for the next review.
LEMMA FinishByKeepsInv ==
  ASSUME QueueInv, NEW w \in workers, IsActive(items[w.key]), NEW outcome, FinishBy(w, outcome)
  PROVE  QueueInv'
<1> DEFINE k == w.key
           it == items[k]
           new == Finish(it, outcome, outcome = "requeue", epoch)
           left == OwedAfterFinish(k, it, new, outcome)
<1>1. k \in Keys BY DEF QueueInv, TypeOK, Tuples
<1>2. ItemInv(it) /\ epoch \in Nat BY <1>1, QueueItems
<1>3. /\ items' = With(items, k, new) /\ owed' = With(owed, k, left)
      /\ UNCHANGED <<alloc, leases, alarm, runs, claiming, workers, audits, answered, live, epoch>>
  BY DEF FinishBy
<1>4. /\ ItemInv(new) /\ new.lease = 0
      /\ new.st = "absent" => new = NoItem
      /\ new.reason = "scanner_refused" => outcome = "refusal"
      /\ outcome # "refusal" => (new.st # "absent" /\ new.dec = it.dec) \/ it.dec = it.leaseDec
  BY <1>2, FinishLemma
<1>5. left = IF \/ outcome = "refusal"
                \/ it.leaseDec.cmd = owed[k] /\ (new = NoItem \/ new.dec.cmd # owed[k])
             THEN NoCommand ELSE owed[k]
  BY DEF OwedAfterFinish
<1>6. audits' \subseteq Tuples /\ owed \in [Keys -> Commands \cup {NoCommand}]
  BY <1>3 DEF QueueInv, TypeOK
<1> HIDE DEF new, left
<1>7. KeepsLease(it, new) BY <1>4 DEF KeepsLease
<1>8. CASE left = NoCommand BY <1>1, <1>3, <1>4, <1>6, <1>7, <1>8, OneItemQuiet
<1>9. CASE left # NoCommand
  <2>1. left = owed[k] /\ outcome # "refusal"
        /\ (it.leaseDec.cmd = owed[k] => new # NoItem /\ new.dec.cmd = owed[k])
    BY <1>5, <1>9
  <2>2. owed' = owed BY <1>1, <1>3, <1>6, <2>1 DEF With
  <2>3. it.dec.cmd = owed[k] BY <1>1, <1>9, <2>1 DEF QueueInv, CommandHeld
  <2>4. new.st # "absent" /\ new.dec.cmd = it.dec.cmd BY <1>4, <2>1, <2>3
  <2>5. KeepsCommand(it, new) BY <1>4, <2>1, <2>4 DEF KeepsCommand
  <2> QED BY <1>1, <1>3, <1>4, <1>6, <1>7, <2>2, <2>5, OneItemQuiet
<1> QED BY <1>8, <1>9

\* A worker that owns a lease finds its item active.
LEMMA OwnerIsActive ==
  ASSUME QueueInv, NEW w \in workers, items[w.key].lease = w.lease
  PROVE  IsActive(items[w.key])
<1>1. w.key \in Keys /\ w.lease \in 1 .. leases[w.key] /\ leases[w.key] \in Nat
  BY QueueItems DEF QueueInv, TypeOK, Tuples, Numbered
<1>2. items[w.key].lease # 0 BY <1>1
<1> QED BY <1>1, <1>2, QueueItems DEF ItemInv, WellFormed

----------------------------------------------------------------------------
(* The environment                                                         *)

LEMMA EnvironmentKeepsInv ==
  ASSUME QueueInv, Environment
  PROVE  QueueInv'
<1>0. audits \subseteq Tuples /\ live \in [Keys -> 1 .. MaxHead] /\ answered \in [Keys -> BOOLEAN]
      /\ epoch \in 0 .. MaxEpoch /\ alloc \in [Keys -> Nat]
      /\ owed \in [Keys -> Commands \cup {NoCommand}]
  BY DEF QueueInv, TypeOK
<1>1. ASSUME NEW k \in Keys, LeaseRunsOut(k) PROVE QueueInv'
  <2> DEFINE new == [items[k] EXCEPT !.live = FALSE]
  <2>1. Follows(items[k], new) BY QueueItems, RunsOutLemma
  <2>2. items' = With(items, k, new) BY <1>1 DEF LeaseRunsOut
  <2> HIDE DEF new
  <2> QED BY <1>0, <1>1, <2>1, <2>2, OneItemQuiet DEF LeaseRunsOut, envVars, Follows
<1>2. ASSUME NEW k \in Keys, BackoffElapses(k) PROVE QueueInv'
  <2> DEFINE new == [items[k] EXCEPT !.due = TRUE]
  <2>1. Follows(items[k], new)
    <3>1. TRUE \in BOOLEAN OBVIOUS
    <3> QED BY <3>1, QueueItems, DueLemma
  <2>2. items' = With(items, k, new) BY <1>2 DEF BackoffElapses
  <2> HIDE DEF new
  <2> QED BY <1>0, <1>2, <2>1, <2>2, OneItemQuiet DEF BackoffElapses, envVars, Follows
<1>3. ASSUME UNCHANGED <<envVars, items>>, claiming' \subseteq claiming, alarm' \in {alarm, Idle},
             live' \in [Keys -> 1 .. MaxHead], answered' \in [Keys -> BOOLEAN],
             epoch' \in 0 .. MaxEpoch
      PROVE  QueueInv'
  <2>1. Calm /\ CommandStep BY <1>3, ItemsFollow, AllFollow DEF envVars
  <2>2. Quiet BY <1>0, <1>3, <2>1 DEF Quiet, envVars
  <2> QED BY <2>2, QuietKeepsInv
<1>4. ASSUME NEW k \in Keys, Push(k) PROVE QueueInv'
  <2>1. live' \in [Keys -> 1 .. MaxHead]
    <3>1. live[k] + 1 \in 1 .. MaxHead BY <1>0, <1>4, LimitsAssumption DEF Push
    <3> QED BY <1>0, <1>4, <3>1 DEF Push, With
  <2> QED BY <1>0, <1>3, <1>4, <2>1 DEF Push
<1>5. ASSUME NEW k \in Keys, PublishAnswer(k) PROVE QueueInv'
  <2>1. answered' \in [Keys -> BOOLEAN] BY <1>0, <1>5 DEF PublishAnswer, With
  <2> QED BY <1>0, <1>3, <1>5, <2>1 DEF PublishAnswer
<1>6. CASE Restart BY <1>0, <1>3, <1>6 DEF Restart
<1>7. CASE Deploy
  <2>1. epoch' \in 0 .. MaxEpoch BY <1>0, <1>7, LimitsAssumption DEF Deploy
  <2> QED BY <1>0, <1>3, <1>7, <2>1 DEF Deploy
<1> QED BY <1>1, <1>2, <1>4, <1>5, <1>6, <1>7 DEF Environment

----------------------------------------------------------------------------
(* The inductive invariant                                                 *)

LEMMA InitQueueInv == Init => QueueInv
<1> SUFFICES ASSUME Init PROVE QueueInv OBVIOUS
<1>1. \A k \in Keys : items[k] = NoItem BY DEF Init
<1>2. /\ items \in [Keys -> ItemType] /\ \A k \in Keys : WellFormed(items[k])
      /\ \A k \in Keys : Sound(items[k])
  BY <1>1, NoItemLemma DEF ItemInv, Init
<1>3. TypeOK
  <2>1. alarm.pc = "idle" BY IdleLemma DEF Init
  <2>2. 1 \in 1 .. MaxHead /\ 0 \in 0 .. MaxEpoch BY LimitsAssumption
  <2> QED BY <1>2, <2>1, <2>2 DEF Init, TypeOK
<1>4. AlarmOK BY IdleLemma DEF Init, AlarmOK
<1>5. Numbered BY <1>1, IdleLemma, NoItemLemma DEF Init, Numbered
<1>6. Claimed /\ OneClaimantPerGeneration /\ CommandHeld
  BY DEF Init, Claimed, OneClaimantPerGeneration, CommandHeld
<1>7. Slots
  <2>1. Active = {}
    BY <1>1, NoItemLemma DEF Active, IsActive
  <2>2. Cardinality(Active) = 0 BY <2>1, FS_EmptySet
  <2>3. alarm.pc = "idle" BY IdleLemma DEF Init
  <2> QED BY <2>2, <2>3, CapacityAssumption DEF Slots
<1> QED BY <1>2, <1>3, <1>4, <1>5, <1>6, <1>7 DEF QueueInv

LEMMA NextQueueInv == QueueInv /\ [Next]_vars => QueueInv'
<1> SUFFICES ASSUME QueueInv, [Next]_vars PROVE QueueInv' OBVIOUS
<1>1. CASE Enqueue
  BY <1>1, EnqueueEventKeepsInv, EnqueueCommandKeepsInv, EnqueueRecoveryKeepsInv DEF Enqueue
<1>2. CASE AlarmStep
  BY <1>2, AlarmStartKeepsInv, AlarmBlockedKeepsInv, AlarmAdmitKeepsInv, AlarmObserveKeepsInv,
     DispatchItemKeepsInv, AlarmFinishKeepsInv DEF AlarmStep
<1>3. CASE RunStep
  <2>1. ASSUME NEW w \in workers, NEW outcome, Complete(w, outcome) PROVE QueueInv'
    BY <2>1, OwnerIsActive, FinishByKeepsInv DEF Complete, Owns
  <2>2. ASSUME NEW w \in workers, NEW outcome, Reconcile(w, outcome) PROVE QueueInv'
    BY <2>2, OwnerIsActive, FinishByKeepsInv DEF Reconcile
  <2> QED BY <1>3, <2>1, <2>2, ClaimBeginKeepsInv, ClaimSettleKeepsInv, HeartbeatKeepsInv DEF RunStep
<1>4. CASE Environment BY <1>4, EnvironmentKeepsInv
<1>5. CASE UNCHANGED vars
  BY <1>5 DEF vars, QueueInv, TypeOK, AlarmOK, Numbered, Claimed, OneClaimantPerGeneration,
              CommandHeld, Slots, Active, Booked
<1> QED BY <1>1, <1>2, <1>3, <1>4, <1>5 DEF Next

LEMMA SpecQueueInv == Spec => []QueueInv
BY InitQueueInv, NextQueueInv, PTL DEF Spec

----------------------------------------------------------------------------
(* Theorems                                                                *)

\* Type correctness: the columns of an item agree with its state through every
\* handler, whichever of them run between the awaits of the others.
THEOREM SpecTypeOK == Spec => []TypeOK
BY SpecQueueInv, PTL DEF QueueInv

\* A lease belongs to one workflow run and a claim generation to one attempt of
\* it, although /claim awaits the probe between its check and its grant.
THEOREM SpecOneClaimantPerGeneration == Spec => []OneClaimantPerGeneration
BY SpecQueueInv, PTL DEF QueueInv

\* The newest admitted command stays in the decision of its item until its own
\* review ends: merges, revocations, expiries, refreshes, recoveries and the
\* completion of an older review all keep it.
THEOREM SpecCommandKept == Spec => []CommandKept
<1>1. QueueInv => CommandKept BY DEF QueueInv, CommandHeld, CommandKept
<1> QED BY <1>1, SpecQueueInv, PTL

\* Retries and parked recoveries of one input share one bounded budget.
THEOREM SpecRetryBudget == Spec => []RetryBudget
<1>1. ASSUME QueueInv, NEW k \in Keys
      PROVE  items[k].streak <= RetryLimit * (ParkedRecoveryLimit + 1)
  <2> DEFINE it == items[k]
  <2>1. /\ it.streak <= Paid(it.recov) + it.fails /\ it.fails \in 0 .. RetryLimit
        /\ it.recov \in 0 .. ParkedRecoveryLimit /\ it.streak \in Nat
    BY <1>1, QueueItems DEF ItemInv, Sound, ItemType
  <2>2. RetryLimit \in Nat /\ ParkedRecoveryLimit \in Nat BY ConstantsLemma
  <2>3. it.recov \in Nat /\ it.recov <= ParkedRecoveryLimit BY <2>1, <2>2
  <2>4. /\ Paid(it.recov) \in Nat /\ Paid(ParkedRecoveryLimit) \in Nat
        /\ Paid(it.recov) <= Paid(ParkedRecoveryLimit)
        /\ Paid(ParkedRecoveryLimit + 1) = Paid(ParkedRecoveryLimit) + RetryLimit
    BY <2>2, <2>3, PaidLemma
  <2>5. it.streak <= Paid(ParkedRecoveryLimit + 1) BY <2>1, <2>2, <2>4
  <2> QED BY <2>5 DEF Paid
<1>2. QueueInv => RetryBudget BY <1>1 DEF RetryBudget
<1> QED BY <1>2, SpecQueueInv, PTL

\* Never more reviews at work than slots: the alarm counts the slots before its
\* probes and fills them after, and nothing takes them meanwhile.
THEOREM SpecActiveWithinCapacity == Spec => []ActiveWithinCapacity
<1>1. QueueInv => ActiveWithinCapacity BY DEF QueueInv, Slots, Active, ActiveWithinCapacity
<1> QED BY <1>1, SpecQueueInv, PTL

\* The review budget is charged once per claim generation, however often or late
\* the generation-start heartbeat arrives.
THEOREM SpecGenerationChargedOnce == Spec => []GenerationChargedOnce
<1>1. QueueInv => GenerationChargedOnce BY DEF QueueInv, Sound, GenerationChargedOnce
<1> QED BY <1>1, SpecQueueInv, PTL
=============================================================================

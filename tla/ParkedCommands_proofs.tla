------------------------ MODULE ParkedCommands_proofs ------------------------
(***************************************************************************)
(* Proofs about the finalization of exhausted commands, for every set of   *)
(* jobs, either grace and every bound.                                     *)
(*                                                                         *)
(* The invariant adds to the types what the fenced write rests on: only a  *)
(* leased driver has a write window, no review runs while there is one,    *)
(* and a job that is between its fence and its PATCH and still has its     *)
(* driver's lease has the window too.                                      *)
(***************************************************************************)
EXTENDS ParkedCommands, TLAPS

DriverType == [state : {"none", "pending", "dispatching", "leased"},
               owner : Jobs \cup {None}, window : BOOLEAN, plan : Plans]
ProjectionType == [disposition : {"none", "failure", "target_closed", "superseded"},
                   attempt : {"none", "live", "stale", "failed", "skipped"},
                   observed : BOOLEAN, cancelled : BOOLEAN]
ItemType == [state : {"parked", "pending", "reviewing", "gone"}, rev : Revisions, source : Nat]
Steps == {"idle", "claim", "begin", "authorize", "lookup", "verify", "fenced", "patched",
          "verified", "failed", "skip", "retry"}
JobType == [pc : Steps, rev : {0} \cup Revisions, seen : Plans, public : BOOLEAN, latest : BOOLEAN]
BudgetType == [rev : Revisions, commands : Nat, closures : 0..MaxClosures, edits : 0..MaxEdits,
               revocations : Nat, faults : Nat]

\* A window blocks reviews, and only a leased driver has one.
WindowBlocks ==
  \A r \in Revisions : driver[r].window => driver[r].state = "leased" /\ item.state # "reviewing"

\* A job that is about to write, and still has the lease, has the window.
FencedHasWindow ==
  \A j \in Jobs : job[j].pc = "fenced" /\ LeaseActive(j, job[j].rev) => driver[job[j].rev].window

ParkedInv ==
  /\ TypeOK /\ job \in [Jobs -> JobType] /\ budget \in BudgetType
  /\ CancelledNeverAcknowledged /\ WindowBlocks /\ FencedHasWindow

----------------------------------------------------------------------------
(* Constants and operators                                                 *)

LEMMA ConstantsLemma ==
  /\ NoDriver \in DriverType /\ NoDriver.window = FALSE /\ NoDriver.state = "none"
  /\ IdleJob \in JobType /\ IdleJob.pc = "idle" /\ IdleJob.rev = 0
  /\ Nothing \in Plans /\ FreshProjection \in ProjectionType
  /\ FreshProjection.cancelled = FALSE
  /\ NoProbe.rev = 0
<1>1. Nothing \in Plans BY DEF Nothing, Plans
<1>2. FALSE \in BOOLEAN OBVIOUS
<1>3. NoDriver \in DriverType BY <1>1, <1>2 DEF NoDriver, DriverType
<1>4. IdleJob \in JobType BY <1>1, <1>2 DEF IdleJob, JobType, Steps
<1>5. FreshProjection \in ProjectionType BY <1>2 DEF FreshProjection, ProjectionType
<1> QED BY <1>1, <1>3, <1>4, <1>5 DEF NoDriver, IdleJob, FreshProjection, NoProbe

\* The parts of the types.
LEMMA TypeParts ==
  ASSUME TypeOK
  PROVE  /\ item \in ItemType /\ driver \in [Revisions -> DriverType]
         /\ projection \in [Revisions -> ProjectionType]
         /\ probe \in [rev : {0} \cup Revisions, seen : Plans]
         /\ target \in [closed : 0..MaxClosures, content : 0..MaxEdits]
         /\ public \in BOOLEAN
         /\ comment \in [text : {"progress", "failure", "target_closed"}, rev : Revisions]
         /\ \A j \in Jobs : job[j].pc # "idle" => job[j].rev \in Revisions
BY DEF TypeOK, ItemType, DriverType, ProjectionType

LEMMA TypeFromParts ==
  ASSUME item' \in ItemType, driver' \in [Revisions -> DriverType],
         projection' \in [Revisions -> ProjectionType],
         probe' \in [rev : {0} \cup Revisions, seen : Plans],
         target' \in [closed : 0..MaxClosures, content : 0..MaxEdits],
         public' \in BOOLEAN,
         comment' \in [text : {"progress", "failure", "target_closed"}, rev : Revisions],
         \A j \in Jobs : job'[j].pc # "idle" => job'[j].rev \in Revisions
  PROVE  TypeOK'
BY DEF TypeOK, ItemType, DriverType, ProjectionType

LEMMA IdentityType ==
  ASSUME NEW t \in [closed : 0..MaxClosures, content : 0..MaxEdits], NEW source
  PROVE  Identity(t, source) \in Plans
<1>1. t.closed \in Nat /\ t.content \in Nat BY BoundsAssumption
<1> QED BY <1>1 DEF Identity, Plans, Nothing

\* The updates of drivers, projections and the item.
LEMMA RequeuedLemma ==
  ASSUME driver \in [Revisions -> DriverType], NEW r \in Revisions
  PROVE  /\ Requeued(r) \in [Revisions -> DriverType]
         /\ Requeued(r)[r].state = "pending" /\ Requeued(r)[r].window = FALSE
         /\ \A q \in Revisions : q # r => Requeued(r)[q] = driver[q]
<1>1. FALSE \in BOOLEAN OBVIOUS
<1> QED BY <1>1 DEF Requeued, DriverType

LEMMA WithoutLemma ==
  ASSUME driver \in [Revisions -> DriverType], NEW r \in Revisions
  PROVE  /\ Without(r) \in [Revisions -> DriverType]
         /\ Without(r)[r].state = "none" /\ Without(r)[r].window = FALSE
         /\ \A q \in Revisions : q # r => Without(r)[q] = driver[q]
BY ConstantsLemma DEF Without

LEMMA CancelledLemma ==
  ASSUME NEW p \in ProjectionType, ~(p.cancelled /\ p.observed)
  PROVE  /\ Cancelled(p) \in ProjectionType
         /\ ~(Cancelled(p).cancelled /\ Cancelled(p).observed)
<1>1. TRUE \in BOOLEAN OBVIOUS
<1>2. CASE p.observed BY <1>2 DEF Cancelled
<1>3. CASE ~p.observed BY <1>1, <1>3 DEF Cancelled, ProjectionType
<1> QED BY <1>2, <1>3

LEMMA AfterAcknowledgementLemma ==
  ASSUME item \in ItemType, NEW r \in Revisions
  PROVE  /\ AfterAcknowledgement(r) \in ItemType
         /\ \/ AfterAcknowledgement(r) = item
            \/ /\ AfterAcknowledgement(r).state = "gone"
               /\ item.rev = r /\ item.state = "parked"
BY DEF AfterAcknowledgement, Producer, ItemType

----------------------------------------------------------------------------
(* What a step does to drivers and jobs                                    *)

\* A driver of which the window does not open.
Shut(r) == driver'[r].window => driver[r].window /\ driver'[r] = driver[r]

\* A driver is given up, requeued or left alone.
LEMMA ShutLemma ==
  ASSUME driver \in [Revisions -> DriverType], NEW r \in Revisions,
         driver' \in {driver, Requeued(r), Without(r)}
  PROVE  /\ driver' \in [Revisions -> DriverType]
         /\ \A q \in Revisions : Shut(q)
         /\ \A q \in Revisions : driver'[q].state = "leased" => driver'[q] = driver[q]
<1>1. CASE driver' = driver BY <1>1 DEF Shut
<1>2. CASE driver' = Requeued(r) BY <1>2, RequeuedLemma DEF Shut
<1>3. CASE driver' = Without(r) BY <1>3, WithoutLemma DEF Shut
<1> QED BY <1>1, <1>2, <1>3

\* Such a step keeps the windows when no review starts and no job is fenced.
LEMMA ShutKeeps ==
  ASSUME WindowBlocks, FencedHasWindow, job \in [Jobs -> JobType],
         \A q \in Revisions : Shut(q),
         \A q \in Revisions : driver'[q].state = "leased" => driver'[q] = driver[q],
         item'.state = "reviewing" => item.state = "reviewing",
         \A j \in Jobs : job'[j].pc = "fenced" => job'[j] = job[j],
         \A j \in Jobs : job[j].pc # "idle" => job[j].rev \in Revisions
  PROVE  WindowBlocks' /\ FencedHasWindow'
<1>1. WindowBlocks' BY DEF WindowBlocks, Shut
<1>2. FencedHasWindow' 
  <2> SUFFICES ASSUME NEW j \in Jobs, job'[j].pc = "fenced",
                      LeaseActive(j, job[j].rev)', job'[j] = job[j]
               PROVE  driver'[job[j].rev].window
    BY DEF FencedHasWindow
  <2>1. job[j].rev \in Revisions OBVIOUS
  <2>2. driver'[job[j].rev] = driver[job[j].rev] BY <2>1 DEF LeaseActive
  <2> QED BY <2>2 DEF FencedHasWindow, LeaseActive
<1> QED BY <1>1, <1>2

\* A job ends or goes to another step.
LEMMA JobLemma ==
  ASSUME job \in [Jobs -> JobType], NEW j \in Jobs, NEW pc \in Steps,
         \A i \in Jobs : job[i].pc # "idle" => job[i].rev \in Revisions,
         job[j].pc # "idle", End(j) \/ (pc # "fenced" /\ Goto(j, pc))
  PROVE  /\ job' \in [Jobs -> JobType]
         /\ \A i \in Jobs : job'[i].pc # "idle" => job'[i].rev \in Revisions
         /\ \A i \in Jobs : job'[i].pc = "fenced" => job'[i] = job[i]
<1>1. CASE End(j) BY <1>1, ConstantsLemma DEF End
<1>2. CASE pc # "fenced" /\ Goto(j, pc)
  BY <1>2 DEF Goto, JobType
<1> QED BY <1>1, <1>2

\* What is left of the invariant: types and the two clauses about windows.
LEMMA InvFromParts ==
  ASSUME TypeOK', job' \in [Jobs -> JobType], budget' \in BudgetType,
         CancelledNeverAcknowledged', WindowBlocks', FencedHasWindow'
  PROVE  ParkedInv'
BY DEF ParkedInv

LEMMA InvParts ==
  ASSUME ParkedInv
  PROVE  /\ item \in ItemType /\ driver \in [Revisions -> DriverType]
         /\ projection \in [Revisions -> ProjectionType]
         /\ probe \in [rev : {0} \cup Revisions, seen : Plans]
         /\ target \in [closed : 0..MaxClosures, content : 0..MaxEdits]
         /\ public \in BOOLEAN
         /\ comment \in [text : {"progress", "failure", "target_closed"}, rev : Revisions]
         /\ \A j \in Jobs : job[j].pc # "idle" => job[j].rev \in Revisions
         /\ job \in [Jobs -> JobType] /\ budget \in BudgetType
         /\ CancelledNeverAcknowledged /\ WindowBlocks /\ FencedHasWindow
BY TypeParts DEF ParkedInv

LEMMA FaultType == ASSUME budget \in BudgetType, Fault PROVE budget' \in BudgetType
BY DEF Fault, BudgetType

LEMMA InitInv == Init => ParkedInv
<1> SUFFICES ASSUME Init PROVE ParkedInv OBVIOUS
<1>1. MaxRevision \in Nat /\ 1 \in Revisions /\ 0 \in 0..MaxClosures /\ 0 \in 0..MaxEdits
  BY BoundsAssumption DEF Revisions
<1>2. TypeOK
  <2>1. item \in ItemType BY <1>1 DEF Init, ItemType
  <2>2. target \in [closed : 0..MaxClosures, content : 0..MaxEdits] /\ public \in BOOLEAN
    BY <1>1 DEF Init
  <2>3. probe \in [rev : {0} \cup Revisions, seen : Plans]
    BY ConstantsLemma DEF Init, NoProbe
  <2>4. projection \in [Revisions -> ProjectionType] /\ driver \in [Revisions -> DriverType]
    BY ConstantsLemma DEF Init
  <2>5. comment \in [text : {"progress", "failure", "target_closed"}, rev : Revisions]
    BY <1>1 DEF Init
  <2>6. \A j \in Jobs : job[j].pc # "idle" => job[j].rev \in Revisions
    BY ConstantsLemma DEF Init
  <2> QED BY <2>1, <2>2, <2>3, <2>4, <2>5, <2>6 DEF TypeOK, ItemType, ProjectionType, DriverType
<1>3. job \in [Jobs -> JobType] BY ConstantsLemma DEF Init
<1>4. budget \in BudgetType BY <1>1 DEF Init, BudgetType
<1>5. CancelledNeverAcknowledged BY ConstantsLemma DEF Init, CancelledNeverAcknowledged
<1>6. WindowBlocks BY ConstantsLemma DEF Init, WindowBlocks
<1>7. FencedHasWindow BY ConstantsLemma DEF Init, FencedHasWindow
<1> QED BY <1>2, <1>3, <1>4, <1>5, <1>6, <1>7 DEF ParkedInv

----------------------------------------------------------------------------
(* The alarm                                                               *)

LEMMA ProbeKeeps == ASSUME ParkedInv, Probe PROVE ParkedInv'
<1> USE DEF Probe
<1>1. Identity(target, item.source) \in Plans BY InvParts, IdentityType
<1>2. TypeOK' BY <1>1, InvParts, TypeFromParts DEF ItemType
<1>3. CancelledNeverAcknowledged' /\ WindowBlocks' /\ FencedHasWindow'
  BY InvParts DEF CancelledNeverAcknowledged, WindowBlocks, FencedHasWindow, LeaseActive
<1> QED BY <1>2, <1>3, InvParts, InvFromParts

LEMMA PlanKeeps == ASSUME ParkedInv, Plan PROVE ParkedInv'
<1> DEFINE r == IF NeedsRevision(projection[item.rev], probe.seen) THEN budget.rev + 1 ELSE item.rev
           new == [NoDriver EXCEPT !.state = "pending", !.plan = probe.seen]
<1>1. /\ probe' = NoProbe
      /\ UNCHANGED <<target, public, projection, job, comment>>
  BY DEF Plan
<1>2. probe' \in [rev : {0} \cup Revisions, seen : Plans] BY <1>1, ConstantsLemma DEF NoProbe
<1>3. CASE UNCHANGED <<item, budget, driver>>
  <2>1. TypeOK' BY <1>1, <1>2, <1>3, InvParts, TypeFromParts
  <2>2. CancelledNeverAcknowledged' /\ WindowBlocks' /\ FencedHasWindow'
    BY <1>1, <1>3, InvParts DEF CancelledNeverAcknowledged, WindowBlocks, FencedHasWindow, LeaseActive
  <2> QED BY <1>1, <1>3, <2>1, <2>2, InvParts, InvFromParts
<1>4. CASE /\ r \in Revisions
           /\ item' = [item EXCEPT !.rev = r]
           /\ budget' = [budget EXCEPT !.rev = IF NeedsRevision(projection[item.rev], probe.seen)
                                               THEN r ELSE @]
           /\ driver' = IF MayDrive(r) THEN [driver EXCEPT ![r] = new] ELSE driver
  <2>1. new \in DriverType /\ new.window = FALSE /\ new.state = "pending"
    BY InvParts, ConstantsLemma DEF NoDriver, DriverType
  <2>2. driver' \in [Revisions -> DriverType]
    BY <1>4, <2>1, InvParts
  <2>3. /\ \A q \in Revisions : Shut(q)
        /\ \A q \in Revisions : driver'[q].state = "leased" => driver'[q] = driver[q]
    BY <1>4, <2>1, InvParts DEF Shut
  <2>4. item' \in ItemType /\ item'.state = item.state BY <1>4, InvParts DEF ItemType
  <2>5. budget' \in BudgetType BY <1>4, InvParts DEF BudgetType
  <2>6. TypeOK' BY <1>1, <1>2, <2>2, <2>4, InvParts, TypeFromParts
  <2>7. WindowBlocks' /\ FencedHasWindow' BY <1>1, <2>3, <2>4, InvParts, ShutKeeps
  <2>8. CancelledNeverAcknowledged' BY <1>1, InvParts DEF CancelledNeverAcknowledged
  <2> QED BY <1>1, <2>5, <2>6, <2>7, <2>8, InvParts, InvFromParts
<1> QED BY <1>3, <1>4 DEF Plan

LEMMA DispatchKeeps ==
  ASSUME ParkedInv, NEW r \in Revisions, NEW j \in Jobs, Dispatch(r, j)
  PROVE  ParkedInv'
<1> DEFINE new == [IdleJob EXCEPT !.pc = "claim", !.rev = r]
<1>1. /\ driver[r].state = "pending" /\ job[j] = IdleJob
      /\ driver' = [driver EXCEPT ![r].state = "dispatching", ![r].owner = j]
      /\ job' = [job EXCEPT ![j] = new]
      /\ UNCHANGED <<item, target, public, probe, projection, comment, budget>>
  BY DEF Dispatch
<1>2. new \in JobType /\ new.pc = "claim" /\ new.rev = r
  BY ConstantsLemma DEF IdleJob, JobType, Steps
<1>3. /\ job' \in [Jobs -> JobType]
      /\ \A i \in Jobs : job'[i].pc # "idle" => job'[i].rev \in Revisions
      /\ \A i \in Jobs : job'[i].pc = "fenced" => job'[i] = job[i]
  BY <1>1, <1>2, InvParts
<1>4. driver' \in [Revisions -> DriverType]
  <2> DEFINE d == [driver[r] EXCEPT !.state = "dispatching", !.owner = j]
  <2>1. driver[r] \in DriverType /\ driver \in [Revisions -> DriverType] BY InvParts
  <2>2. d \in DriverType BY <2>1 DEF DriverType
  <2>3. driver' = [driver EXCEPT ![r] = d] BY <1>1
  <2> HIDE DEF d
  <2> QED BY <2>1, <2>2, <2>3
<1>5. ~driver[r].window BY <1>1, InvParts DEF WindowBlocks
<1>6. /\ \A q \in Revisions : Shut(q)
      /\ \A q \in Revisions : driver'[q].state = "leased" => driver'[q] = driver[q]
  BY <1>1, <1>5, InvParts DEF Shut, DriverType
<1>7. TypeOK' BY <1>1, <1>3, <1>4, InvParts, TypeFromParts
<1>8. WindowBlocks' /\ FencedHasWindow' BY <1>1, <1>3, <1>6, InvParts, ShutKeeps
<1>9. CancelledNeverAcknowledged' BY <1>1, InvParts DEF CancelledNeverAcknowledged
<1> QED BY <1>1, <1>3, <1>7, <1>8, <1>9, InvParts, InvFromParts

LEMMA DispatchReviewKeeps == ASSUME ParkedInv, DispatchReview PROVE ParkedInv'
<1>1. /\ ~WriteOwned /\ item' = [item EXCEPT !.state = "reviewing"]
      /\ comment' = [text |-> "progress", rev |-> item.rev]
      /\ UNCHANGED <<target, public, probe, projection, driver, job, budget>>
  BY DEF DispatchReview
<1>2. item' \in ItemType BY <1>1, InvParts DEF ItemType
<1>3. comment' \in [text : {"progress", "failure", "target_closed"}, rev : Revisions]
  BY <1>1, InvParts DEF ItemType
<1>4. TypeOK' BY <1>1, <1>2, <1>3, InvParts, TypeFromParts
<1>5. WindowBlocks' BY <1>1, InvParts DEF WindowBlocks, WriteOwned
<1>6. FencedHasWindow' BY <1>1, InvParts DEF FencedHasWindow, LeaseActive
<1>7. CancelledNeverAcknowledged' BY <1>1, InvParts DEF CancelledNeverAcknowledged
<1> QED BY <1>1, <1>4, <1>5, <1>6, <1>7, InvParts, InvFromParts

LEMMA ReclaimKeeps ==
  ASSUME ParkedInv, NEW r \in Revisions, Reclaim(r)
  PROVE  ParkedInv'
<1>1. /\ driver' = Requeued(r)
      /\ UNCHANGED <<item, target, public, probe, projection, job, comment, budget>>
  BY DEF Reclaim
<1>2. /\ driver' \in [Revisions -> DriverType]
      /\ \A q \in Revisions : Shut(q)
      /\ \A q \in Revisions : driver'[q].state = "leased" => driver'[q] = driver[q]
  BY <1>1, InvParts, ShutLemma
<1>3. TypeOK' BY <1>1, <1>2, InvParts, TypeFromParts
<1>4. WindowBlocks' /\ FencedHasWindow' BY <1>1, <1>2, InvParts, ShutKeeps
<1>5. CancelledNeverAcknowledged' BY <1>1, InvParts DEF CancelledNeverAcknowledged
<1> QED BY <1>1, <1>3, <1>4, <1>5, InvParts, InvFromParts

----------------------------------------------------------------------------
(* The workflow job                                                        *)

\* A job that ends or goes on without a write, and gives its driver up,
\* requeues it or leaves it alone.
LEMMA QuietJob ==
  ASSUME ParkedInv, NEW j \in Jobs, job[j].pc # "idle", NEW to \in Steps,
         End(j) \/ (to # "fenced" /\ Goto(j, to)),
         driver' \in {driver, Requeued(job[j].rev), Without(job[j].rev)},
         projection' \in [Revisions -> ProjectionType], CancelledNeverAcknowledged',
         item' \in ItemType, item'.state = "reviewing" => item.state = "reviewing",
         comment' \in [text : {"progress", "failure", "target_closed"}, rev : Revisions],
         budget' \in BudgetType, UNCHANGED <<target, public, probe>>
  PROVE  ParkedInv'
<1>1. job[j].rev \in Revisions BY InvParts
<1>2. /\ driver' \in [Revisions -> DriverType]
      /\ \A q \in Revisions : Shut(q)
      /\ \A q \in Revisions : driver'[q].state = "leased" => driver'[q] = driver[q]
  BY <1>1, InvParts, ShutLemma
<1>3. /\ job' \in [Jobs -> JobType]
      /\ \A i \in Jobs : job'[i].pc # "idle" => job'[i].rev \in Revisions
      /\ \A i \in Jobs : job'[i].pc = "fenced" => job'[i] = job[i]
  BY InvParts, JobLemma
<1>4. TypeOK' BY <1>2, <1>3, InvParts, TypeFromParts
<1>5. WindowBlocks' /\ FencedHasWindow' BY <1>2, <1>3, InvParts, ShutKeeps
<1> QED BY <1>3, <1>4, <1>5, InvFromParts

\* A projection of which neither mark changes.
LEMMA MarksKept ==
  ASSUME ParkedInv, NEW r \in Revisions, NEW p \in ProjectionType,
         p.cancelled = projection[r].cancelled, p.observed = projection[r].observed,
         projection' = [projection EXCEPT ![r] = p]
  PROVE  projection' \in [Revisions -> ProjectionType] /\ CancelledNeverAcknowledged'
BY InvParts DEF CancelledNeverAcknowledged

\* cancelParkedCommandClosureSync
LEMMA CancelledKept ==
  ASSUME ParkedInv, NEW r \in Revisions,
         projection' = [projection EXCEPT ![r] = Cancelled(projection[r])]
  PROVE  projection' \in [Revisions -> ProjectionType] /\ CancelledNeverAcknowledged'
<1>1. projection[r] \in ProjectionType /\ ~(projection[r].cancelled /\ projection[r].observed)
  BY InvParts DEF CancelledNeverAcknowledged
<1>2. /\ Cancelled(projection[r]) \in ProjectionType
      /\ ~(Cancelled(projection[r]).cancelled /\ Cancelled(projection[r]).observed)
  BY <1>1, CancelledLemma
<1> QED BY <1>2, InvParts DEF CancelledNeverAcknowledged

LEMMA SameKept ==
  ASSUME ParkedInv, projection' = projection
  PROVE  projection' \in [Revisions -> ProjectionType] /\ CancelledNeverAcknowledged'
BY InvParts DEF CancelledNeverAcknowledged

LEMMA StepNames ==
  /\ "claim" \in Steps /\ "begin" \in Steps /\ "authorize" \in Steps /\ "lookup" \in Steps
  /\ "verify" \in Steps /\ "fenced" \in Steps /\ "patched" \in Steps /\ "verified" \in Steps
  /\ "failed" \in Steps /\ "skip" \in Steps /\ "retry" \in Steps
BY DEF Steps

\* The driver of a job changes, and the job does not go to its write.
LEMMA ClaimKeeps == ASSUME ParkedInv, NEW j \in Jobs, Claim(j) PROVE ParkedInv'
<1> DEFINE r == job[j].rev
<1>1. /\ job[j].pc = "claim" /\ job[j].pc # "idle"
      /\ UNCHANGED <<item, target, public, probe, comment, budget>>
  BY DEF Claim
<1>2. r \in Revisions BY <1>1, InvParts
<1>3. CASE End(j) /\ UNCHANGED <<driver, projection>>
  BY <1>1, <1>3, InvParts, SameKept, StepNames, QuietJob
<1>4. CASE /\ driver[r].state = "dispatching" /\ driver[r].owner = j
           /\ driver' = [driver EXCEPT ![r].state = "leased"]
           /\ Goto(j, "begin") /\ UNCHANGED projection
  <2>1. /\ job' \in [Jobs -> JobType]
        /\ \A i \in Jobs : job'[i].pc # "idle" => job'[i].rev \in Revisions
        /\ \A i \in Jobs : job'[i].pc = "fenced" => job'[i] = job[i]
    BY <1>1, <1>4, InvParts, JobLemma, StepNames
  <2>2. job'[j].pc = "begin" BY <1>4, InvParts DEF Goto, JobType
  <2>3. driver' \in [Revisions -> DriverType] BY <1>2, <1>4, InvParts DEF DriverType
  <2>4. ~driver[r].window BY <1>2, <1>4, InvParts DEF WindowBlocks
  <2>5. /\ driver'[r].window = driver[r].window /\ driver'[r].owner = j
        /\ \A q \in Revisions : q # r => driver'[q] = driver[q]
    BY <1>2, <1>4, InvParts DEF DriverType
  <2>6. WindowBlocks' BY <1>1, <2>4, <2>5, InvParts DEF WindowBlocks
  <2>7. FencedHasWindow'
    <3> SUFFICES ASSUME NEW i \in Jobs, job'[i].pc = "fenced", LeaseActive(i, job[i].rev)',
                        job'[i] = job[i]
                 PROVE  driver'[job[i].rev].window
      BY <2>1 DEF FencedHasWindow
    <3>1. i # j BY <2>2
    <3>2. job[i].rev \in Revisions BY InvParts
    <3>3. job[i].rev # r BY <3>1, <2>5 DEF LeaseActive
    <3> QED BY <3>2, <3>3, <2>5, InvParts DEF FencedHasWindow, LeaseActive
  <2>8. TypeOK' BY <1>1, <1>4, <2>1, <2>3, InvParts, TypeFromParts
  <2> QED BY <1>1, <1>4, <2>1, <2>6, <2>7, <2>8, InvParts, SameKept, InvFromParts
<1>5. CASE /\ driver' = Without(r) /\ End(j)
           /\ projection' = [projection EXCEPT ![r].disposition =
                               IF @ = "none" THEN "superseded" ELSE @]
  <2> DEFINE p == [projection[r] EXCEPT !.disposition = IF @ = "none" THEN "superseded" ELSE @]
  <2>1. /\ p \in ProjectionType /\ p.cancelled = projection[r].cancelled
        /\ p.observed = projection[r].observed
    BY <1>2, InvParts DEF ProjectionType
  <2>2. projection' = [projection EXCEPT ![r] = p] BY <1>5
  <2>3. projection' \in [Revisions -> ProjectionType] /\ CancelledNeverAcknowledged'
    BY <1>2, <2>1, <2>2, MarksKept
  <2> QED BY <1>1, <1>5, <2>3, InvParts, StepNames, QuietJob
<1> QED BY <1>3, <1>4, <1>5 DEF Claim

LEMMA ReadKeeps ==
  ASSUME ParkedInv, NEW j \in Jobs, NEW from \in Steps, NEW to \in Steps,
         from # "idle", to # "fenced", Read(j, from, to)
  PROVE  ParkedInv'
<1> DEFINE r == job[j].rev
<1>1. /\ job[j].pc # "idle"
      /\ UNCHANGED <<item, target, public, probe, comment, budget>>
  BY DEF Read
<1>2. r \in Revisions BY <1>1, InvParts
<1>3. CASE End(j) /\ UNCHANGED <<projection, driver>>
  BY <1>1, <1>3, InvParts, SameKept, QuietJob
<1>4. CASE /\ projection' = [projection EXCEPT ![r] = Cancelled(@)]
           /\ driver' = Without(r) /\ End(j)
  <2>1. projection' \in [Revisions -> ProjectionType] /\ CancelledNeverAcknowledged'
    BY <1>2, <1>4, CancelledKept
  <2> QED BY <1>1, <1>4, <2>1, InvParts, QuietJob
<1>5. CASE /\ job' = [job EXCEPT ![j].pc = to, ![j].public = public,
                                ![j].seen = Identity(target, item.source)]
           /\ UNCHANGED <<projection, driver>>
  <2>1. Identity(target, item.source) \in Plans BY InvParts, IdentityType
  <2>2. /\ job' \in [Jobs -> JobType]
        /\ \A i \in Jobs : job'[i].pc # "idle" => job'[i].rev \in Revisions
        /\ \A i \in Jobs : job'[i].pc = "fenced" => job'[i] = job[i]
    <3> DEFINE new == [job[j] EXCEPT !.pc = to, !.public = public,
                                     !.seen = Identity(target, item.source)]
    <3>1. job[j] \in JobType /\ public \in BOOLEAN BY InvParts
    <3>2. new \in JobType /\ new.pc = to /\ new.rev = r BY <2>1, <3>1 DEF JobType
    <3>3. job' = [job EXCEPT ![j] = new] BY <1>5
    <3> HIDE DEF new
    <3> QED BY <1>2, <3>2, <3>3, InvParts
  <2>3. TypeOK' BY <1>1, <1>5, <2>2, InvParts, TypeFromParts
  <2>4. WindowBlocks' /\ FencedHasWindow' BY <1>1, <1>5, <2>2, InvParts, ShutKeeps DEF Shut
  <2> QED BY <1>1, <1>5, <2>2, <2>3, <2>4, InvParts, SameKept, InvFromParts
<1> QED BY <1>3, <1>4, <1>5 DEF Read

LEMMA RevokeKeeps ==
  ASSUME ParkedInv, NEW j \in Jobs, NEW at \in Steps, at # "idle", Revoke(j, at)
  PROVE  ParkedInv'
<1> DEFINE r == job[j].rev
<1>1. /\ job[j].pc # "idle" /\ End(j)
      /\ UNCHANGED <<item, target, public, probe, comment, budget>>
  BY DEF Revoke
<1>2. r \in Revisions BY <1>1, InvParts
<1>3. CASE UNCHANGED projection /\ driver' \in {driver, Requeued(r)}
  BY <1>1, <1>3, InvParts, SameKept, QuietJob
<1>4. CASE projection' = [projection EXCEPT ![r] = Cancelled(@)] /\ driver' = Without(r)
  <2>1. projection' \in [Revisions -> ProjectionType] /\ CancelledNeverAcknowledged'
    BY <1>2, <1>4, CancelledKept
  <2> QED BY <1>1, <1>4, <2>1, InvParts, QuietJob
<1> QED BY <1>3, <1>4 DEF Revoke

\* The job gets its attempt: the window opens while the item is parked, and no
\* other job with the lease is at its write.
LEMMA AuthorizeKeeps == ASSUME ParkedInv, NEW j \in Jobs, Authorize(j) PROVE ParkedInv'
<1> DEFINE r == job[j].rev
           kind == DispositionOf(driver[r].plan)
<1>1. /\ job[j].pc # "idle" /\ ~Unowned(j)
      /\ UNCHANGED <<item, target, public, probe, comment, budget>>
  BY DEF Authorize
<1>2. r \in Revisions BY <1>1, InvParts
<1>3. CASE Goto(j, "retry") /\ UNCHANGED <<projection, driver>>
  BY <1>1, <1>3, InvParts, SameKept, StepNames, QuietJob
<1>4. CASE /\ projection' = [projection EXCEPT ![r].disposition = kind, ![r].attempt = "live"]
           /\ driver' = [driver EXCEPT ![r].window = TRUE]
           /\ job' = [i \in Jobs |->
                       IF i = j THEN [job[j] EXCEPT !.pc = "lookup", !.latest = TRUE]
                       ELSE IF job[i].rev = r THEN [job[i] EXCEPT !.latest = FALSE]
                       ELSE job[i]]
  <2>1. driver[r].state = "leased" /\ driver[r].owner = j /\ item.state = "parked"
    BY <1>1 DEF Unowned, LeaseActive, Producer
  <2>2. \A i \in Jobs : /\ job'[i] \in JobType /\ job'[i].rev = job[i].rev
                        /\ job'[i].pc = (IF i = j THEN "lookup" ELSE job[i].pc)
    <3> SUFFICES ASSUME NEW i \in Jobs
                 PROVE  /\ job'[i] \in JobType /\ job'[i].rev = job[i].rev
                        /\ job'[i].pc = (IF i = j THEN "lookup" ELSE job[i].pc)
      OBVIOUS
    <3>1. job[i] \in JobType /\ TRUE \in BOOLEAN /\ FALSE \in BOOLEAN BY InvParts
    <3>2. CASE i = j BY <1>4, <3>1, <3>2, StepNames DEF JobType
    <3>3. CASE i # j /\ job[i].rev = r BY <1>4, <3>1, <3>3 DEF JobType
    <3>4. CASE i # j /\ job[i].rev # r BY <1>4, <3>1, <3>4
    <3> QED BY <3>2, <3>3, <3>4
  <2>3. job' \in [Jobs -> JobType] BY <1>4, <2>2
  <2>4. TRUE \in BOOLEAN OBVIOUS
  <2>5. /\ driver' \in [Revisions -> DriverType]
        /\ driver'[r].state = "leased" /\ driver'[r].owner = j /\ driver'[r].window
        /\ \A q \in Revisions : q # r => driver'[q] = driver[q]
    BY <1>2, <1>4, <2>1, <2>4, InvParts DEF DriverType
  <2>6. WindowBlocks' BY <1>1, <2>1, <2>5, InvParts DEF WindowBlocks
  <2>7. FencedHasWindow'
    <3> SUFFICES ASSUME NEW i \in Jobs, job'[i].pc = "fenced",
                        driver'[job'[i].rev].state = "leased", driver'[job'[i].rev].owner = i
                 PROVE  driver'[job'[i].rev].window
      BY DEF FencedHasWindow, LeaseActive
    <3>1. i # j /\ job[i].pc = "fenced" /\ job'[i].rev = job[i].rev BY <2>2
    <3>2. job[i].rev \in Revisions BY <3>1, InvParts
    <3>3. job[i].rev # r BY <3>1, <2>5
    <3> QED BY <3>1, <3>2, <3>3, <2>5, InvParts DEF FencedHasWindow, LeaseActive
  <2>8. \A i \in Jobs : job'[i].pc # "idle" => job'[i].rev \in Revisions
    BY <1>2, <2>2, InvParts
  <2> DEFINE p == [projection[r] EXCEPT !.disposition = kind, !.attempt = "live"]
  <2>9. /\ p \in ProjectionType /\ p.cancelled = projection[r].cancelled
        /\ p.observed = projection[r].observed
    <3>1. kind \in {"failure", "target_closed"} BY DEF DispositionOf
    <3>2. projection[r] \in ProjectionType BY <1>2, InvParts
    <3> HIDE DEF kind
    <3> QED BY <3>1, <3>2 DEF ProjectionType
  <2>10. projection' = [projection EXCEPT ![r] = p] BY <1>4
  <2>11. projection' \in [Revisions -> ProjectionType] /\ CancelledNeverAcknowledged'
    BY <1>2, <2>9, <2>10, MarksKept
  <2>12. TypeOK' BY <1>1, <2>5, <2>8, <2>11, InvParts, TypeFromParts
  <2> QED BY <1>1, <2>3, <2>6, <2>7, <2>11, <2>12, InvParts, InvFromParts
<1> QED BY <1>3, <1>4 DEF Authorize

\* The fence before the write.
LEMMA VerifyKeeps == ASSUME ParkedInv, NEW j \in Jobs, Verify(j) PROVE ParkedInv'
<1> DEFINE r == job[j].rev
<1>1. /\ job[j].pc # "idle" /\ ~Unowned(j)
      /\ UNCHANGED <<item, target, public, probe, projection, comment, budget>>
  BY DEF Verify
<1>2. r \in Revisions BY <1>1, InvParts
<1>3. CASE Goto(j, "retry") /\ UNCHANGED driver
  BY <1>1, <1>3, InvParts, SameKept, StepNames, QuietJob
<1>4. CASE driver' = [driver EXCEPT ![r].window = TRUE] /\ Goto(j, "fenced")
  <2>1. driver[r].state = "leased" /\ driver[r].owner = j /\ item.state = "parked"
    BY <1>1 DEF Unowned, LeaseActive, Producer
  <2>2. TRUE \in BOOLEAN OBVIOUS
  <2>3. /\ driver' \in [Revisions -> DriverType]
        /\ driver'[r].state = "leased" /\ driver'[r].owner = j /\ driver'[r].window
        /\ \A q \in Revisions : q # r => driver'[q] = driver[q]
    BY <1>2, <1>4, <2>1, <2>2, InvParts DEF DriverType
  <2>4. /\ job' \in [Jobs -> JobType] /\ job'[j].rev = r
        /\ \A i \in Jobs : i # j => job'[i] = job[i]
    BY <1>4, InvParts DEF Goto, JobType, Steps
  <2>5. WindowBlocks' BY <1>1, <2>1, <2>3, InvParts DEF WindowBlocks
  <2>6. FencedHasWindow'
    <3> SUFFICES ASSUME NEW i \in Jobs, job'[i].pc = "fenced",
                        driver'[job'[i].rev].state = "leased", driver'[job'[i].rev].owner = i
                 PROVE  driver'[job'[i].rev].window
      BY DEF FencedHasWindow, LeaseActive
    <3>1. CASE i = j BY <3>1, <2>3, <2>4
    <3>2. CASE i # j
      <4>1. job[i].pc = "fenced" /\ job'[i] = job[i] BY <3>2, <2>4
      <4>2. job[i].rev \in Revisions BY <4>1, InvParts
      <4>3. job[i].rev # r BY <3>2, <4>1, <2>3
      <4> QED BY <4>1, <4>2, <4>3, <2>3, InvParts DEF FencedHasWindow, LeaseActive
    <3> QED BY <3>1, <3>2
  <2>7. \A i \in Jobs : job'[i].pc # "idle" => job'[i].rev \in Revisions
    BY <1>2, <2>4, InvParts
  <2>8. TypeOK' BY <1>1, <2>3, <2>7, InvParts, TypeFromParts
  <2> QED BY <1>1, <2>4, <2>5, <2>6, <2>8, InvParts, SameKept, InvFromParts
<1> QED BY <1>3, <1>4 DEF Verify

LEMMA FinalTextType ==
  ASSUME NEW r \in Revisions
  PROVE  FinalText(r) \in [text : {"progress", "failure", "target_closed"}, rev : Revisions]
BY DEF FinalText, DispositionOf

LEMMA PatchKeeps == ASSUME ParkedInv, NEW j \in Jobs, Patch(j) PROVE ParkedInv'
<1>1. /\ job[j].pc # "idle" /\ comment' = FinalText(job[j].rev)
      /\ Goto(j, "verified") \/ Goto(j, "patched")
      /\ UNCHANGED <<item, target, public, probe, projection, driver, budget>>
  BY DEF Patch
<1>2. comment' \in [text : {"progress", "failure", "target_closed"}, rev : Revisions]
  BY <1>1, InvParts, FinalTextType
<1>3. projection' \in [Revisions -> ProjectionType] /\ CancelledNeverAcknowledged'
  BY <1>1, SameKept
<1>4. CASE Goto(j, "verified") BY <1>1, <1>2, <1>3, <1>4, InvParts, StepNames, QuietJob
<1>5. CASE Goto(j, "patched") BY <1>1, <1>2, <1>3, <1>5, InvParts, StepNames, QuietJob
<1> QED BY <1>1, <1>4, <1>5

LEMMA PatchFailsKeeps == ASSUME ParkedInv, NEW j \in Jobs, PatchFails(j) PROVE ParkedInv'
<1>1. /\ job[j].pc # "idle" /\ comment' \in {comment, FinalText(job[j].rev)}
      /\ Goto(j, "failed") /\ Fault
      /\ UNCHANGED <<item, target, public, probe, projection, driver>>
  BY DEF PatchFails
<1>2. comment' \in [text : {"progress", "failure", "target_closed"}, rev : Revisions]
  BY <1>1, InvParts, FinalTextType
<1>3. budget' \in BudgetType BY <1>1, InvParts, FaultType
<1> QED BY <1>1, <1>2, <1>3, InvParts, SameKept, StepNames, QuietJob

LEMMA NoCommentKeeps == ASSUME ParkedInv, NEW j \in Jobs, NoComment(j) PROVE ParkedInv'
<1>1. /\ job[j].pc # "idle" /\ Goto(j, "skip") /\ Fault
      /\ UNCHANGED <<item, target, public, probe, projection, driver, comment>>
  BY DEF NoComment
<1>2. budget' \in BudgetType BY <1>1, InvParts, FaultType
<1> QED BY <1>1, <1>2, InvParts, SameKept, StepNames, QuietJob

\* The windows of drivers that are taken back: no job at its write has the lease
\* of one of them.
LEMMA ShutWindow ==
  ASSUME ParkedInv, NEW r \in Revisions,
         driver' = [driver EXCEPT ![r].window = FALSE], UNCHANGED item,
         job' \in [Jobs -> JobType],
         \A i \in Jobs : job'[i].pc # "idle" => job'[i].rev \in Revisions,
         \A i \in Jobs : job'[i].pc = "fenced" => job'[i] = job[i] /\ ~LeaseActive(i, r)
  PROVE  driver' \in [Revisions -> DriverType] /\ WindowBlocks' /\ FencedHasWindow'
<1>0. FALSE \in BOOLEAN OBVIOUS
<1>1. /\ driver' \in [Revisions -> DriverType] /\ driver'[r].window = FALSE
      /\ driver'[r].state = driver[r].state /\ driver'[r].owner = driver[r].owner
      /\ \A q \in Revisions : q # r => driver'[q] = driver[q]
  BY <1>0, InvParts DEF DriverType
<1>2. WindowBlocks' BY <1>1, InvParts DEF WindowBlocks
<1>3. FencedHasWindow'
  <2> SUFFICES ASSUME NEW i \in Jobs, job'[i].pc = "fenced",
                      driver'[job'[i].rev].state = "leased", driver'[job'[i].rev].owner = i
               PROVE  driver'[job'[i].rev].window
    BY DEF FencedHasWindow, LeaseActive
  <2>1. job'[i] = job[i] /\ ~LeaseActive(i, r) /\ job[i].rev \in Revisions BY InvParts
  <2>2. job[i].rev # r BY <1>1, <2>1 DEF LeaseActive
  <2> QED BY <1>1, <2>1, <2>2, InvParts DEF FencedHasWindow, LeaseActive
<1> QED BY <1>1, <1>2, <1>3

LEMMA ReleaseKeeps == ASSUME ParkedInv, NEW j \in Jobs, Release(j) PROVE ParkedInv'
<1> DEFINE r == job[j].rev
<1>1. /\ job[j].pc = "patched" /\ job[j].pc # "idle" /\ Goto(j, "verified")
      /\ UNCHANGED <<item, target, public, probe, projection, comment, budget>>
  BY DEF Release
<1>2. r \in Revisions BY <1>1, InvParts
<1>3. CASE driver' = driver BY <1>1, <1>3, InvParts, SameKept, StepNames, QuietJob
<1>4. CASE LeaseActive(j, r) /\ driver' = [driver EXCEPT ![r].window = FALSE]
  <2>1. /\ job' \in [Jobs -> JobType]
        /\ \A i \in Jobs : job'[i].pc # "idle" => job'[i].rev \in Revisions
        /\ \A i \in Jobs : job'[i].pc = "fenced" => job'[i] = job[i]
    BY <1>1, InvParts, JobLemma, StepNames
  <2>2. \A i \in Jobs : job'[i].pc = "fenced" => job'[i] = job[i] /\ ~LeaseActive(i, r)
    BY <1>1, <1>4, <2>1 DEF LeaseActive
  <2>3. driver' \in [Revisions -> DriverType] /\ WindowBlocks' /\ FencedHasWindow'
    BY <1>1, <1>2, <1>4, <2>1, <2>2, ShutWindow
  <2>4. TypeOK' BY <1>1, <2>1, <2>3, InvParts, TypeFromParts
  <2> QED BY <1>1, <2>1, <2>3, <2>4, InvParts, SameKept, InvFromParts
<1> QED BY <1>3, <1>4 DEF Release

LEMMA ObserveKeeps == ASSUME ParkedInv, NEW j \in Jobs, Observe(j) PROVE ParkedInv'
<1> DEFINE r == job[j].rev
<1>1. job[j].pc # "idle" /\ UNCHANGED <<target, public, probe, comment>>
  BY DEF Observe
<1>2. r \in Revisions BY <1>1, InvParts
<1>3. CASE /\ driver' = [q \in Revisions |->
                          IF driver[q] = NoDriver THEN NoDriver ELSE Requeued(q)[q]]
           /\ Goto(j, "retry") /\ UNCHANGED <<item, projection, budget>>
  <2>1. \A q \in Revisions : /\ driver'[q] \in DriverType /\ driver'[q].window = FALSE
                             /\ driver'[q].state # "leased"
    <3> SUFFICES ASSUME NEW q \in Revisions
                 PROVE  /\ driver'[q] \in DriverType /\ driver'[q].window = FALSE
                        /\ driver'[q].state # "leased"
      OBVIOUS
    <3>1. driver'[q] = IF driver[q] = NoDriver THEN NoDriver ELSE Requeued(q)[q] BY <1>3
    <3>2. /\ Requeued(q)[q] \in DriverType /\ Requeued(q)[q].window = FALSE
          /\ Requeued(q)[q].state # "leased"
      <4>1. /\ Requeued(q) \in [Revisions -> DriverType]
            /\ Requeued(q)[q].state = "pending" /\ Requeued(q)[q].window = FALSE
        BY InvParts, RequeuedLemma
      <4>2. Requeued(q)[q] \in DriverType BY <4>1
      <4> QED BY <4>1, <4>2
    <3>3. NoDriver \in DriverType /\ NoDriver.window = FALSE /\ NoDriver.state # "leased"
      BY ConstantsLemma
    <3> QED BY <3>1, <3>2, <3>3
  <2>2. driver' \in [Revisions -> DriverType] BY <1>3, <2>1
  <2>3. \A q \in Revisions : Shut(q) BY <2>1 DEF Shut
  <2>4. /\ job' \in [Jobs -> JobType]
        /\ \A i \in Jobs : job'[i].pc # "idle" => job'[i].rev \in Revisions
        /\ \A i \in Jobs : job'[i].pc = "fenced" => job'[i] = job[i]
    BY <1>1, <1>3, InvParts, JobLemma, StepNames
  <2>5. WindowBlocks' /\ FencedHasWindow' BY <1>3, <2>1, <2>3, <2>4, InvParts, ShutKeeps
  <2>6. TypeOK' BY <1>1, <1>3, <2>2, <2>4, InvParts, TypeFromParts
  <2> QED BY <1>3, <2>4, <2>5, <2>6, InvParts, SameKept, InvFromParts
<1>4. CASE /\ Accepts(projection[r])
           /\ projection' = [projection EXCEPT ![r].observed = TRUE]
           /\ item' = AfterAcknowledgement(r) /\ driver' = Without(r)
           /\ \/ End(j) /\ UNCHANGED budget
              \/ Goto(j, "retry") /\ Fault
  <2>1. TRUE \in BOOLEAN OBVIOUS
  <2>2. ~projection[r].cancelled BY <1>4 DEF Accepts
  <2>3. projection' \in [Revisions -> ProjectionType] /\ CancelledNeverAcknowledged'
    <3> DEFINE p == [projection[r] EXCEPT !.observed = TRUE]
    <3>1. projection[r] \in ProjectionType BY <1>2, InvParts
    <3>2. p \in ProjectionType /\ p.cancelled = projection[r].cancelled
      BY <2>1, <3>1 DEF ProjectionType
    <3>3. projection' = [projection EXCEPT ![r] = p] BY <1>4
    <3> HIDE DEF p
    <3> QED BY <1>2, <2>2, <3>2, <3>3, InvParts DEF CancelledNeverAcknowledged
  <2>4. item' \in ItemType /\ (item'.state = "reviewing" => item.state = "reviewing")
    BY <1>2, <1>4, InvParts, AfterAcknowledgementLemma
  <2>5. budget' \in BudgetType BY <1>4, InvParts, FaultType
  <2>6. End(j) \/ Goto(j, "retry") BY <1>4
  <2> QED BY <1>1, <1>4, <2>3, <2>4, <2>5, <2>6, InvParts, StepNames, QuietJob
<1>5. CASE Goto(j, "retry") /\ UNCHANGED <<item, projection, driver, budget>>
  BY <1>1, <1>5, InvParts, SameKept, StepNames, QuietJob
<1> QED BY <1>3, <1>4, <1>5 DEF Observe

LEMMA ReceiptLostKeeps == ASSUME ParkedInv, NEW j \in Jobs, ReceiptLost(j) PROVE ParkedInv'
<1>1. /\ job[j].pc # "idle" /\ Goto(j, "retry") /\ Fault
      /\ UNCHANGED <<item, target, public, probe, projection, driver, comment>>
  BY DEF ReceiptLost
<1>2. budget' \in BudgetType BY <1>1, InvParts, FaultType
<1> QED BY <1>1, <1>2, InvParts, SameKept, StepNames, QuietJob

\* An attempt of a revision changes, and nothing else of its projection.
LEMMA AttemptKept ==
  ASSUME ParkedInv, NEW r \in Revisions, NEW a \in {"none", "live", "stale", "failed", "skipped"},
         projection' = [projection EXCEPT ![r].attempt = a]
  PROVE  projection' \in [Revisions -> ProjectionType] /\ CancelledNeverAcknowledged'
<1> DEFINE p == [projection[r] EXCEPT !.attempt = a]
<1>1. /\ p \in ProjectionType /\ p.cancelled = projection[r].cancelled
      /\ p.observed = projection[r].observed
  BY InvParts DEF ProjectionType
<1>2. projection' = [projection EXCEPT ![r] = p] OBVIOUS
<1> QED BY <1>1, <1>2, MarksKept

LEMMA SkipKeeps == ASSUME ParkedInv, NEW j \in Jobs, Skip(j) PROVE ParkedInv'
<1> DEFINE r == job[j].rev
<1>1. job[j].pc # "idle" /\ UNCHANGED <<target, public, probe, comment, budget>>
  BY DEF Skip
<1>2. r \in Revisions BY <1>1, InvParts
<1>3. CASE /\ projection' = [projection EXCEPT ![r].attempt = "skipped"]
           /\ item' = AfterAcknowledgement(r) /\ driver' = Without(r) /\ End(j)
  <2>1. projection' \in [Revisions -> ProjectionType] /\ CancelledNeverAcknowledged'
    BY <1>2, <1>3, AttemptKept
  <2>2. item' \in ItemType /\ (item'.state = "reviewing" => item.state = "reviewing")
    BY <1>2, <1>3, InvParts, AfterAcknowledgementLemma
  <2> QED BY <1>1, <1>3, <2>1, <2>2, InvParts, StepNames, QuietJob
<1>4. CASE Goto(j, "retry") /\ UNCHANGED <<item, projection, driver>>
  BY <1>1, <1>4, InvParts, SameKept, StepNames, QuietJob
<1> QED BY <1>3, <1>4 DEF Skip

LEMMA FailKeeps == ASSUME ParkedInv, NEW j \in Jobs, Fail(j) PROVE ParkedInv'
<1> DEFINE r == job[j].rev
<1>1. /\ job[j].pc # "idle" /\ Goto(j, "retry")
      /\ projection' = [projection EXCEPT ![r].attempt = "failed"] \/ projection' = projection
      /\ UNCHANGED <<item, target, public, probe, driver, comment, budget>>
  BY DEF Fail
<1>2. r \in Revisions BY <1>1, InvParts
<1>3. projection' \in [Revisions -> ProjectionType] /\ CancelledNeverAcknowledged'
  BY <1>1, <1>2, AttemptKept, SameKept
<1> QED BY <1>1, <1>3, InvParts, StepNames, QuietJob

LEMMA RetryKeeps == ASSUME ParkedInv, NEW j \in Jobs, Retry(j) PROVE ParkedInv'
<1> DEFINE r == job[j].rev
<1>1. /\ job[j].pc # "idle" /\ End(j)
      /\ UNCHANGED <<target, public, probe, projection, comment, budget>>
      /\ item' \in {item, AfterAcknowledgement(r)}
      /\ driver' \in {driver, Without(r), Requeued(r)}
  BY DEF Retry
<1>2. r \in Revisions BY <1>1, InvParts
<1>3. item' \in ItemType /\ (item'.state = "reviewing" => item.state = "reviewing")
  BY <1>1, <1>2, InvParts, AfterAcknowledgementLemma
<1> QED BY <1>1, <1>3, InvParts, SameKept, StepNames, QuietJob

LEMMA CrashKeeps == ASSUME ParkedInv, NEW j \in Jobs, Crash(j) PROVE ParkedInv'
<1>1. /\ job[j].pc # "idle" /\ End(j) /\ Fault
      /\ UNCHANGED <<item, target, public, probe, projection, driver, comment>>
  BY DEF Crash
<1>2. budget' \in BudgetType BY <1>1, InvParts, FaultType
<1> QED BY <1>1, <1>2, InvParts, SameKept, StepNames, QuietJob

----------------------------------------------------------------------------
(* Time, GitHub and newer commands                                         *)

LEMMA AttemptLeaseEndsKeeps ==
  ASSUME ParkedInv, NEW r \in Revisions, AttemptLeaseEnds(r)
  PROVE  ParkedInv'
<1>1. /\ projection' = [projection EXCEPT ![r].attempt = "stale"]
      /\ Fault \/ UNCHANGED budget
      /\ UNCHANGED <<item, target, public, probe, driver, job, comment>>
  BY DEF AttemptLeaseEnds
<1>2. projection' \in [Revisions -> ProjectionType] /\ CancelledNeverAcknowledged'
  BY <1>1, AttemptKept
<1>3. budget' \in BudgetType BY <1>1, InvParts, FaultType
<1>4. TypeOK' BY <1>1, <1>2, InvParts, TypeFromParts
<1>5. WindowBlocks' /\ FencedHasWindow'
  BY <1>1, InvParts DEF WindowBlocks, FencedHasWindow, LeaseActive
<1> QED BY <1>1, <1>2, <1>3, <1>4, <1>5, InvParts, InvFromParts

LEMMA WindowEndsKeeps ==
  ASSUME ParkedInv, NEW r \in Revisions, WindowEnds(r)
  PROVE  ParkedInv'
<1>1. /\ \A j \in Jobs : job[j].pc = "fenced" => ~LeaseActive(j, r)
      /\ driver' = [driver EXCEPT ![r].window = FALSE]
      /\ UNCHANGED <<item, target, public, probe, projection, job, comment, budget>>
  BY DEF WindowEnds
<1>2. driver' \in [Revisions -> DriverType] /\ WindowBlocks' /\ FencedHasWindow'
  BY <1>1, InvParts, ShutWindow
<1>3. TypeOK' BY <1>1, <1>2, InvParts, TypeFromParts
<1> QED BY <1>1, <1>2, <1>3, InvParts, SameKept, InvFromParts

\* The environment changes the item, the target, the visibility or the budget.
LEMMA EnvironmentKeeps ==
  ASSUME ParkedInv, Environment, item' \in ItemType, budget' \in BudgetType,
         item'.state = "reviewing" => item.state = "reviewing",
         target' \in [closed : 0..MaxClosures, content : 0..MaxEdits], public' \in BOOLEAN
  PROVE  ParkedInv'
<1>1. UNCHANGED <<probe, projection, driver, job, comment>> BY DEF Environment
<1>2. TypeOK' BY <1>1, InvParts, TypeFromParts
<1>3. WindowBlocks' BY <1>1, InvParts DEF WindowBlocks
<1>4. FencedHasWindow' BY <1>1, InvParts DEF FencedHasWindow, LeaseActive
<1> QED BY <1>1, <1>2, <1>3, <1>4, InvParts, SameKept, InvFromParts

LEMMA TargetKeeps ==
  ASSUME ParkedInv, Close \/ Reopen \/ Edit
  PROVE  ParkedInv'
<1>0. /\ MaxClosures \in Nat /\ MaxEdits \in Nat BY BoundsAssumption
<1>1. Environment /\ UNCHANGED <<item, public>> BY DEF Close, Reopen, Edit
<1>2. target' \in [closed : 0..MaxClosures, content : 0..MaxEdits]
  BY <1>0, InvParts DEF Close, Reopen, Edit, BudgetType
<1>3. budget' \in BudgetType BY <1>0, InvParts DEF Close, Reopen, Edit, BudgetType
<1> QED BY <1>1, <1>2, <1>3, InvParts, EnvironmentKeeps

LEMMA VisibilityKeeps ==
  ASSUME ParkedInv, LosePublic \/ RegainPublic
  PROVE  ParkedInv'
<1>1. Environment /\ UNCHANGED <<item, target>> BY DEF LosePublic, RegainPublic
<1>2. public' \in BOOLEAN BY DEF LosePublic, RegainPublic
<1>3. budget' \in BudgetType BY InvParts DEF LosePublic, RegainPublic, BudgetType
<1> QED BY <1>1, <1>2, <1>3, InvParts, EnvironmentKeeps

LEMMA CommandKeeps ==
  ASSUME ParkedInv, NewCommand \/ ReviewEnds
  PROVE  ParkedInv'
<1>1. Environment /\ UNCHANGED <<target, public>> BY DEF NewCommand, ReviewEnds
<1>2. CASE NewCommand
  <2>1. budget.rev + 1 \in Revisions /\ target.content \in Nat
    BY <1>2, InvParts, BoundsAssumption DEF NewCommand, BudgetType, Revisions
  <2>2. item' \in ItemType /\ item'.state = "pending"
    BY <1>2, <2>1 DEF NewCommand, ItemType
  <2>3. budget' \in BudgetType
    <3>1. budget' = [budget EXCEPT !.rev = budget.rev + 1, !.commands = budget.commands + 1]
      BY <1>2 DEF NewCommand
    <3>2. budget \in BudgetType /\ budget.commands + 1 \in Nat BY InvParts DEF BudgetType
    <3> QED BY <2>1, <3>1, <3>2 DEF BudgetType
  <2> QED BY <1>1, <2>2, <2>3, InvParts, EnvironmentKeeps
<1>3. CASE ReviewEnds
  <2>1. item' \in ItemType /\ item'.state # "reviewing" /\ UNCHANGED budget
    BY <1>3, InvParts DEF ReviewEnds, ItemType
  <2> QED BY <1>1, <2>1, InvParts, EnvironmentKeeps
<1> QED BY <1>2, <1>3

LEMMA StutterKeeps == ASSUME ParkedInv, UNCHANGED vars PROVE ParkedInv'
<1>1. UNCHANGED <<item, target, public, probe, projection, driver, job, comment, budget>>
  BY DEF vars
<1>2. TypeOK' BY <1>1, InvParts, TypeFromParts
<1>3. WindowBlocks' BY <1>1, InvParts DEF WindowBlocks
<1>4. FencedHasWindow' BY <1>1, InvParts DEF FencedHasWindow, LeaseActive
<1> QED BY <1>1, <1>2, <1>3, <1>4, InvParts, SameKept, InvFromParts

LEMMA JobStepKeeps == ASSUME ParkedInv, NEW j \in Jobs, JobStep(j) PROVE ParkedInv'
<1>1. CASE Claim(j) BY <1>1, ClaimKeeps
<1>2. CASE ReadToBegin(j) BY <1>2, ReadKeeps, StepNames DEF ReadToBegin
<1>3. CASE RevokeAttempt(j) BY <1>3, RevokeKeeps, StepNames DEF RevokeAttempt
<1>4. CASE Authorize(j) BY <1>4, AuthorizeKeeps
<1>5. CASE ReadToVerify(j) BY <1>5, ReadKeeps, StepNames DEF ReadToVerify
<1>6. CASE RevokeWrite(j) BY <1>6, RevokeKeeps, StepNames DEF RevokeWrite
<1>7. CASE Verify(j) BY <1>7, VerifyKeeps
<1>8. CASE Patch(j) BY <1>8, PatchKeeps
<1>9. CASE Release(j) BY <1>9, ReleaseKeeps
<1>10. CASE Observe(j) BY <1>10, ObserveKeeps
<1>11. CASE Skip(j) BY <1>11, SkipKeeps
<1>12. CASE Fail(j) BY <1>12, FailKeeps
<1>13. CASE Retry(j) BY <1>13, RetryKeeps
<1> QED BY <1>1, <1>2, <1>3, <1>4, <1>5, <1>6, <1>7, <1>8, <1>9, <1>10, <1>11, <1>12, <1>13
        DEF JobStep

LEMMA NextKeeps == ParkedInv /\ [Next]_vars => ParkedInv'
<1> SUFFICES ASSUME ParkedInv, [Next]_vars PROVE ParkedInv' OBVIOUS
<1>1. CASE Probe BY <1>1, ProbeKeeps
<1>2. CASE Plan BY <1>2, PlanKeeps
<1>3. CASE DispatchReview BY <1>3, DispatchReviewKeeps
<1>4. ASSUME NEW r \in Revisions, Reclaim(r) PROVE ParkedInv' BY <1>4, ReclaimKeeps
<1>5. ASSUME NEW r \in Revisions, AttemptLeaseEnds(r) PROVE ParkedInv'
  BY <1>5, AttemptLeaseEndsKeeps
<1>6. ASSUME NEW r \in Revisions, WindowEnds(r) PROVE ParkedInv' BY <1>6, WindowEndsKeeps
<1>7. ASSUME NEW r \in Revisions, NEW j \in Jobs, Dispatch(r, j) PROVE ParkedInv'
  BY <1>7, DispatchKeeps
<1>8. ASSUME NEW j \in Jobs, JobStep(j) PROVE ParkedInv' BY <1>8, JobStepKeeps
<1>9. ASSUME NEW j \in Jobs, ReceiptLost(j) PROVE ParkedInv' BY <1>9, ReceiptLostKeeps
<1>10. ASSUME NEW j \in Jobs, PatchFails(j) PROVE ParkedInv' BY <1>10, PatchFailsKeeps
<1>11. ASSUME NEW j \in Jobs, NoComment(j) PROVE ParkedInv' BY <1>11, NoCommentKeeps
<1>12. ASSUME NEW j \in Jobs, Crash(j) PROVE ParkedInv' BY <1>12, CrashKeeps
<1>13. CASE Close \/ Reopen \/ Edit BY <1>13, TargetKeeps
<1>14. CASE LosePublic \/ RegainPublic BY <1>14, VisibilityKeeps
<1>15. CASE NewCommand \/ ReviewEnds BY <1>15, CommandKeeps
<1>16. CASE Finished BY <1>16, StutterKeeps DEF Finished
<1>17. CASE UNCHANGED vars BY <1>17, StutterKeeps
<1> QED BY <1>1, <1>2, <1>3, <1>4, <1>5, <1>6, <1>7, <1>8, <1>9, <1>10, <1>11, <1>12, <1>13,
           <1>14, <1>15, <1>16, <1>17 DEF Next

----------------------------------------------------------------------------
(* Theorems                                                                *)

\* The inductive invariant: fences, write windows, jobs and reviews agree
\* (beginFinalization, authorizeAttempt, recordReceipt) in every reachable state.
THEOREM SpecParkedInv == Spec => []ParkedInv
BY InitInv, NextKeeps, PTL DEF Spec

\* Items, projections, drivers and the status comment keep their types over all
\* interleavings of jobs, alarms, faults and newer commands.
THEOREM SpecTypeOK == Spec => []TypeOK
<1>1. ParkedInv => TypeOK BY DEF ParkedInv
<1> QED BY <1>1, SpecParkedInv, PTL

\* A cancelled revision is never acknowledged and an acknowledged one is never
\* cancelled.
THEOREM SpecCancelledNeverAcknowledged == Spec => []CancelledNeverAcknowledged
<1>1. ParkedInv => CancelledNeverAcknowledged BY DEF ParkedInv
<1> QED BY <1>1, SpecParkedInv, PTL

\* A job with its driver's lease never writes a final status over the progress
\* of a newer review, for any number of jobs and either grace.
THEOREM SpecWriteNotOverSuccessor == Spec => WriteNotOverSuccessor
<1>1. ASSUME ParkedInv, NEW j \in Jobs, job[j].pc = "fenced", LeaseActive(j, job[j].rev)
      PROVE  item.state # "reviewing"
  <2>1. job[j].rev \in Revisions BY <1>1, InvParts
  <2> QED BY <1>1, <2>1, InvParts DEF WindowBlocks, FencedHasWindow
<1>2. ParkedInv =>
        [\A j \in Jobs :
           /\ job[j].pc = "fenced" /\ job'[j].pc # "fenced" /\ comment' # comment
           /\ LeaseActive(j, job[j].rev)
           => item.state # "reviewing"]_vars
  BY <1>1
<1> QED BY <1>2, SpecParkedInv, PTL DEF WriteNotOverSuccessor

\* What a step may do to the item of an unreviewed command.
Removal == item'.state = "gone" /\ item.state # "gone" =>
             item.state = "reviewing" \/ Settled(projection'[item.rev])

LEMMA AcknowledgedRemoval ==
  ASSUME item \in ItemType, NEW r \in Revisions, item' = AfterAcknowledgement(r),
         Settled(projection'[r])
  PROVE  Removal
BY AfterAcknowledgementLemma DEF Removal

LEMMA NextRemoval == ASSUME ParkedInv, [Next]_vars PROVE Removal
<1>1. CASE item'.state = item.state BY <1>1 DEF Removal
<1>2. CASE UNCHANGED item BY <1>2 DEF Removal
<1>3. CASE Plan
  <2>1. item' = item \/ \E r : item' = [item EXCEPT !.rev = r] BY <1>3 DEF Plan
  <2> QED BY <1>1, <2>1, InvParts DEF ItemType
<1>4. CASE DispatchReview BY <1>4, InvParts DEF DispatchReview, Removal, ItemType
<1>5. CASE NewCommand \/ ReviewEnds BY <1>5, InvParts DEF NewCommand, ReviewEnds, Removal, ItemType
<1>6. ASSUME NEW j \in Jobs, Observe(j) PROVE Removal
  <2>1. job[j].rev \in Revisions BY <1>6, InvParts DEF Observe
  <2>2. CASE UNCHANGED item BY <2>2, <1>2
  <2>3. CASE /\ projection' = [projection EXCEPT ![job[j].rev].observed = TRUE]
             /\ item' = AfterAcknowledgement(job[j].rev)
    <3>1. projection'[job[j].rev].observed BY <2>1, <2>3, InvParts DEF ProjectionType
    <3> QED BY <2>1, <2>3, <3>1, InvParts, AcknowledgedRemoval DEF Settled
  <2> QED BY <1>6, <2>2, <2>3 DEF Observe
<1>7. ASSUME NEW j \in Jobs, Skip(j) PROVE Removal
  <2>1. job[j].rev \in Revisions BY <1>7, InvParts DEF Skip
  <2>2. CASE UNCHANGED item BY <2>2, <1>2
  <2>3. CASE /\ projection' = [projection EXCEPT ![job[j].rev].attempt = "skipped"]
             /\ item' = AfterAcknowledgement(job[j].rev)
    <3>1. projection'[job[j].rev].attempt = "skipped" BY <2>1, <2>3, InvParts DEF ProjectionType
    <3> QED BY <2>1, <2>3, <3>1, InvParts, AcknowledgedRemoval DEF Settled
  <2> QED BY <1>7, <2>2, <2>3 DEF Skip
<1>8. ASSUME NEW j \in Jobs, Retry(j) PROVE Removal
  <2>1. job[j].rev \in Revisions /\ projection' = projection BY <1>8, InvParts DEF Retry
  <2>2. CASE UNCHANGED item BY <2>2, <1>2
  <2>3. CASE projection[job[j].rev].observed /\ item' = AfterAcknowledgement(job[j].rev)
    BY <2>1, <2>3, InvParts, AcknowledgedRemoval DEF Settled
  <2> QED BY <1>8, <2>2, <2>3 DEF Retry
<1>9. ASSUME NEW j \in Jobs, JobStep(j) PROVE Removal
  BY <1>2, <1>6, <1>7, <1>8, <1>9 DEF JobStep, Claim, ReadToBegin, ReadToVerify, Read,
     RevokeAttempt, RevokeWrite, Revoke, Authorize, Verify, Patch, Release, Fail
<1>10. CASE Close \/ Reopen \/ Edit \/ LosePublic \/ RegainPublic
  BY <1>2, <1>10 DEF Close, Reopen, Edit, LosePublic, RegainPublic
<1>11. CASE Probe BY <1>2, <1>11 DEF Probe
<1>12. CASE Finished \/ UNCHANGED vars BY <1>2, <1>12 DEF Finished, vars
<1> QED BY <1>2, <1>3, <1>4, <1>5, <1>9, <1>10, <1>11, <1>12
        DEF Next, Reclaim, AttemptLeaseEnds, WindowEnds, Dispatch, ReceiptLost, PatchFails,
            NoComment, Crash

\* A command leaves the queue unreviewed only with its own acknowledgement.
THEOREM SpecRemovedOnlyAcknowledged == Spec => RemovedOnlyAcknowledged
<1>1. ParkedInv /\ [Next]_vars =>
        [item'.state = "gone" /\ item.state # "gone" =>
           item.state = "reviewing" \/ Settled(projection'[item.rev])]_vars
  BY NextRemoval DEF Removal
<1> QED BY <1>1, SpecParkedInv, PTL DEF Spec, RemovedOnlyAcknowledged
=============================================================================

--------------------- MODULE ReviewCommentLeases_proofs ---------------------
(***************************************************************************)
(* The election among lease comments is safe for any number of runners,    *)
(* heads, comments, tries and attempts, next to the leases in the status   *)
(* comments of commands, which are written without an election.            *)
(*                                                                         *)
(* OneDedicatedHolder is not inductive.  What is: a runner that found      *)
(* itself elected, or that adopts the lease of a report, holds the FIRST   *)
(* live lease of its head among the posted ones (FirstLease), since ids of *)
(* posts only grow and an expired lease never lives again; it holds a      *)
(* lease of its own or of a report (RunKnown); and the list a runner       *)
(* cleans up from, however old it is, names only posted comments of heads  *)
(* before its own (StaleOld).                                              *)
(***************************************************************************)
EXTENDS ReviewCommentLeases, TLAPS

RunType == [pc : Acquiring \cup Confirmed \cup Ending, attempt : Nat,
            tries : 1..MaxTries, apply : BOOLEAN, sha : 0..MaxHead, id : 0..MaxId,
            owner : Names \cup {None}, seen : Markers, stale : SUBSET Leases]

ReportType == [id : 0..MaxId, owner : Names \cup {None}, sha : 0..MaxHead]

CommentsOK ==
  /\ comments \subseteq Leases /\ nextId \in 1..(MaxId + 1)
  /\ \A c \in comments : c.id < nextId /\ (c.fresh => c.owner # None)
  /\ \A c, e \in comments : c.id = e.id => c = e

\* No head is ahead of the live one, no id ahead of GitHub's.
PastKnown ==
  /\ \A c \in comments : c.sha <= head
  /\ \A r \in reports : r.id < nextId

FirstLease(c) ==
  \A e \in comments : e.fresh /\ e.sha = c.sha /\ ~IsStatus(e) => c.id <= e.id

ReportsAreFirst ==
  \A c \in comments : Report(c) \in reports /\ c.fresh /\ ~IsStatus(c) => FirstLease(c)

RunKnown(p) ==
  /\ run[p].sha <= head /\ run[p].id < nextId
  /\ run[p].owner \in {None, Owner(p)} \/ Report(run[p]) \in reports
  /\ run[p].pc = "idle" => run[p].owner = None /\ run[p].stale = {}
  /\ run[p].pc \in {"fence", "mark"} => \E c \in comments : c.id = run[p].id /\ IsStatus(c)

StaleOld(p) ==
  \A s \in run[p].stale :
    /\ s.id < nextId /\ s.sha <= head /\ s.sha # run[p].sha
    /\ run[p].pc = "cleanup" => s.sha < run[p].sha
    /\ \A c \in comments : c.id = s.id => c.sha = s.sha /\ ~IsStatus(c)

HoldsFirst(p) ==
  \A c \in comments : Holds(p, c) /\ c.fresh /\ ~IsStatus(c) => FirstLease(c)

RunInv(p) == RunKnown(p) /\ StaleOld(p) /\ HoldsFirst(p)

LeaseInv == TypeOK /\ PastKnown /\ ReportsAreFirst /\ \A p \in Runners : RunInv(p)

----------------------------------------------------------------------------
(* Types, and steps of one run.                                            *)

LEMMA TypeParts == TypeOK <=>
  /\ head \in 1..MaxHead /\ authority \in Reviewers \cup {None}
  /\ CommentsOK
  /\ durable \in Markers /\ published \in 0..MaxReview
  /\ reports \subseteq ReportType
  /\ run \in [Runners -> RunType]
BY DEF TypeOK, CommentsOK, RunType, ReportType

Others(p) == \A q \in Runners : q # p => run'[q] = run[q]

Moves(p) == run' \in [Runners -> RunType] /\ Others(p)

\* The run starts over, or ends: it holds nothing.
Restarts(p) ==
  /\ Moves(p)
  /\ run'[p].pc \notin Confirmed \cup {"fence", "mark"}
  /\ run'[p].id = 0 /\ run'[p].owner = None /\ run'[p].stale = {}
  /\ run'[p].sha \in {0, head}

\* The run goes on with what it has, or does nothing.
Follows(p) ==
  /\ run'[p].attempt = run[p].attempt
  /\ run'[p].sha = run[p].sha /\ run'[p].id = run[p].id /\ run'[p].owner = run[p].owner
  /\ run'[p].stale \in {run[p].stale, {}}
  /\ run'[p].pc \in Confirmed => run[p].pc \in Confirmed
  /\ run'[p].pc \in {"fence", "mark"} => run[p].pc \in {"fence", "mark"}
  /\ run'[p].pc \in {"idle", "cleanup"} => run'[p].pc = run[p].pc

LEMMA NoRunType == NoRun \in RunType /\ NoMarker \in Markers
<1>1. 1 \in 1..MaxTries /\ 0 \in 0..MaxHead /\ 0 \in 0..MaxId /\ 0 \in 0..MaxReview
  BY LimitsAssumption
<1>2. {} \in SUBSET Leases OBVIOUS
<1>3. NoMarker \in Markers BY <1>1 DEF NoMarker, Markers
<1> QED BY <1>1, <1>2, <1>3 DEF NoRun, RunType, Ending

LEMMA EndRestarts ==
  ASSUME TypeOK, NEW p \in Runners, EndOfRun(p)
  PROVE  Restarts(p)
<1>1. run \in [Runners -> RunType] BY TypeParts
<1>2. run[p].attempt \in Nat BY <1>1 DEF RunType
<1>3. run'[p] = IF run[p].attempt < MaxAttempt[p]
                THEN [NoRun EXCEPT !.attempt = run[p].attempt + 1]
                ELSE [NoRun EXCEPT !.attempt = run[p].attempt, !.pc = "done"]
  BY <1>1 DEF EndOfRun
<1>4. run'[p] \in RunType
  <2>1. "done" \in Ending BY DEF Ending
  <2>2. [NoRun EXCEPT !.attempt = run[p].attempt + 1] \in RunType
    BY <1>2, NoRunType DEF RunType
  <2>3. [NoRun EXCEPT !.attempt = run[p].attempt, !.pc = "done"] \in RunType
    BY <1>2, <2>1, NoRunType DEF RunType
  <2> QED BY <1>3, <2>2, <2>3
<1>5. Moves(p) BY <1>1, <1>3, <1>4 DEF EndOfRun, Moves, Others
<1> QED BY <1>3, <1>5 DEF Restarts, NoRun, Confirmed

LEMMA TryRestarts ==
  ASSUME TypeOK, NEW p \in Runners, TryAgain(p)
  PROVE  Restarts(p)
<1>1. run \in [Runners -> RunType] /\ head \in 1..MaxHead BY TypeParts
<1>2. run[p].attempt \in Nat /\ run[p].tries \in 1..MaxTries BY <1>1 DEF RunType
<1>3. CASE EndOfRun(p) BY <1>3, EndRestarts
<1>4. CASE ~EndOfRun(p)
  <2> DEFINE new == [NoRun EXCEPT !.pc = "assert", !.sha = head,
                       !.attempt = run[p].attempt, !.tries = run[p].tries + 1]
  <2>1. run[p].tries # MaxTries /\ run' = [run EXCEPT ![p] = new]
    BY <1>4 DEF TryAgain
  <2>2. run[p].tries + 1 \in 1..MaxTries /\ head \in 0..MaxHead
    BY <1>1, <1>2, <2>1, LimitsAssumption
  <2>3. new \in RunType
    <3>1. "assert" \in Acquiring BY DEF Acquiring
    <3> QED BY <1>2, <2>2, <3>1, NoRunType DEF RunType
  <2>4. Moves(p) /\ run'[p] = new
    BY <1>1, <2>1, <2>3 DEF Moves, Others
  <2> QED BY <2>4 DEF Restarts, NoRun, Confirmed
<1> QED BY <1>3, <1>4

LEMMA UnsuccessfulRestarts ==
  ASSUME TypeOK, NEW p \in Runners, Unsuccessful(p)
  PROVE  Restarts(p)
<1> DEFINE new == [NoRun EXCEPT !.pc = "release", !.attempt = run[p].attempt, !.tries = MaxTries]
<1>1. run \in [Runners -> RunType] BY TypeParts
<1>2. run[p].attempt \in Nat BY <1>1 DEF RunType
<1>3. run' = [run EXCEPT ![p] = new] BY DEF Unsuccessful
<1>4. new \in RunType
  <2>1. "release" \in Ending /\ MaxTries \in 1..MaxTries BY LimitsAssumption DEF Ending
  <2> QED BY <1>2, <2>1, NoRunType DEF RunType
<1>5. Moves(p) /\ run'[p] = new BY <1>1, <1>3, <1>4 DEF Moves, Others
<1> QED BY <1>5 DEF Restarts, NoRun, Confirmed

Phases == Acquiring \cup Confirmed \cup Ending

LEMMA GoMoves ==
  ASSUME TypeOK, NEW p \in Runners, NEW pc \in Phases, Go(p, pc)
  PROVE  /\ Moves(p)
         /\ run'[p].pc = pc /\ run'[p].attempt = run[p].attempt
         /\ run'[p].sha = run[p].sha /\ run'[p].id = run[p].id /\ run'[p].owner = run[p].owner
         /\ run'[p].stale = run[p].stale
<1>1. run \in [Runners -> RunType] BY TypeParts
<1>2. run'[p] = [run[p] EXCEPT !.pc = pc] BY <1>1 DEF Go
<1>3. run'[p] \in RunType BY <1>1, <1>2 DEF RunType, Phases
<1>4. Moves(p) BY <1>1, <1>3 DEF Go, Moves, Others
<1> QED BY <1>1, <1>2, <1>4 DEF RunType

----------------------------------------------------------------------------
(* What a step leaves of the invariant.                                    *)

\* A posted comment keeps its lease or lets it expire; a status comment stays
\* one, whatever its lease.
SameComment(d, c) ==
  /\ d.id = c.id /\ (IsStatus(d) <=> IsStatus(c))
  /\ ~IsStatus(c) => d.sha = c.sha /\ d.owner = c.owner /\ (c.fresh => d.fresh)

\* No comment is added, and none of a command goes.
Settled ==
  /\ head' = head /\ nextId' = nextId
  /\ \A c \in comments' : c.sha <= head /\ \E d \in comments : SameComment(d, c)
  /\ \A c \in comments : IsStatus(c) => \E e \in comments' : e.id = c.id /\ IsStatus(e)

LEMMA FirstStays ==
  ASSUME Settled, NEW c \in comments', NEW d \in comments, SameComment(d, c),
         ~IsStatus(c), FirstLease(d)
  PROVE  FirstLease(c)'
<1> SUFFICES ASSUME NEW e \in comments', e.fresh, e.sha = c.sha, ~IsStatus(e)
             PROVE  c.id <= e.id
  BY DEF FirstLease
<1>1. PICK f \in comments : SameComment(f, e) BY DEF Settled
<1>2. f.fresh /\ f.sha = d.sha /\ ~IsStatus(f) /\ f.id = e.id /\ d.id = c.id
  BY <1>1 DEF SameComment
<1> QED BY <1>2 DEF FirstLease

LEMMA SettledPast ==
  ASSUME LeaseInv, Settled, UNCHANGED reports
  PROVE  PastKnown' /\ ReportsAreFirst'
<1>1. PastKnown' BY DEF LeaseInv, PastKnown, Settled
<1>2. ReportsAreFirst'
  <2> SUFFICES ASSUME NEW c \in comments', Report(c) \in reports, c.fresh, ~IsStatus(c)
               PROVE  FirstLease(c)'
    BY DEF ReportsAreFirst
  <2>1. PICK d \in comments : SameComment(d, c) BY DEF Settled
  <2>2. Report(d) = Report(c) /\ d.fresh /\ ~IsStatus(d) BY <2>1 DEF SameComment, Report
  <2>3. FirstLease(d) BY <2>2 DEF LeaseInv, ReportsAreFirst
  <2> QED BY <2>1, <2>3, FirstStays
<1> QED BY <1>1, <1>2

LEMMA FollowsKeeps ==
  ASSUME LeaseInv, Settled, reports \subseteq reports', NEW p \in Runners, Follows(p)
  PROVE  RunInv(p)'
<1> USE DEF LeaseInv, RunInv
<1>1. RunKnown(p)'
  <2>1. run'[p].sha <= head' /\ run'[p].id < nextId'
    BY DEF RunKnown, Follows, Settled
  <2>2. Owner(p)' = Owner(p) /\ Report(run'[p]) = Report(run[p])
    BY DEF Follows, Owner, Report
  <2>3. run'[p].owner \in {None, Owner(p)'} \/ Report(run'[p]) \in reports'
    BY <2>2 DEF RunKnown, Follows
  <2>4. run'[p].pc = "idle" => run'[p].owner = None /\ run'[p].stale = {}
    BY DEF RunKnown, Follows
  <2>5. run'[p].pc \in {"fence", "mark"} => \E c \in comments' : c.id = run'[p].id /\ IsStatus(c)
    BY DEF RunKnown, Follows, Settled
  <2> QED BY <2>1, <2>3, <2>4, <2>5 DEF RunKnown, Report
<1>2. StaleOld(p)'
  <2> SUFFICES ASSUME NEW s \in run'[p].stale
               PROVE  /\ s.id < nextId' /\ s.sha <= head' /\ s.sha # run'[p].sha
                      /\ run'[p].pc = "cleanup" => s.sha < run'[p].sha
                      /\ \A c \in comments' : c.id = s.id => c.sha = s.sha /\ ~IsStatus(c)
    BY DEF StaleOld
  <2>1. s \in run[p].stale BY DEF Follows
  <2>2. /\ s.id < nextId /\ s.sha <= head /\ s.sha # run[p].sha
        /\ run[p].pc = "cleanup" => s.sha < run[p].sha
        /\ \A c \in comments : c.id = s.id => c.sha = s.sha /\ ~IsStatus(c)
    BY <2>1 DEF StaleOld
  <2>3. ASSUME NEW c \in comments', c.id = s.id PROVE c.sha = s.sha /\ ~IsStatus(c)
    <3>1. PICK d \in comments : SameComment(d, c) BY DEF Settled
    <3> QED BY <2>2, <2>3, <3>1 DEF SameComment
  <2> QED BY <2>2, <2>3 DEF Follows, Settled
<1>3. HoldsFirst(p)'
  <2> SUFFICES ASSUME NEW c \in comments', Holds(p, c)', c.fresh, ~IsStatus(c)
               PROVE  FirstLease(c)'
    BY DEF HoldsFirst
  <2>1. PICK d \in comments : SameComment(d, c) BY DEF Settled
  <2>2. Holds(p, d) /\ d.fresh /\ ~IsStatus(d)
    BY <2>1 DEF SameComment, Holds, Mine, Follows
  <2>3. FirstLease(d) BY <2>2 DEF HoldsFirst
  <2> QED BY <2>1, <2>3, FirstStays
<1> QED BY <1>1, <1>2, <1>3

LEMMA RestartKeeps ==
  ASSUME LeaseInv, head' = head, nextId' \in {nextId, nextId + 1}, NEW p \in Runners, Restarts(p)
  PROVE  RunInv(p)'
<1>1. head \in 1..MaxHead /\ nextId \in 1..(MaxId + 1)
  BY TypeParts DEF LeaseInv, CommentsOK
<1>2. RunKnown(p)' BY <1>1, LimitsAssumption DEF Restarts, RunKnown
<1>3. StaleOld(p)' BY DEF Restarts, StaleOld
<1>4. HoldsFirst(p)' BY DEF Restarts, HoldsFirst, Holds
<1> QED BY <1>2, <1>3, <1>4 DEF RunInv

\* A step of one run that adds no comment and no report.
LEMMA StepKeeps ==
  ASSUME LeaseInv, Settled, UNCHANGED reports, TypeOK', NEW p \in Runners, Others(p), RunInv(p)'
  PROVE  LeaseInv'
<1>1. ASSUME NEW q \in Runners PROVE RunInv(q)'
  <2>1. CASE q = p BY <2>1
  <2>2. CASE q # p
    <3>1. run'[q] = run[q] BY <2>2 DEF Others
    <3>2. Follows(q) BY <3>1 DEF Follows
    <3> QED BY <3>2, FollowsKeeps
  <2> QED BY <2>1, <2>2
<1> QED BY <1>1, SettledPast DEF LeaseInv

----------------------------------------------------------------------------
(* Steps that only move their run.                                         *)

OnlyRun == UNCHANGED <<head, authority, comments, nextId, durable, published, reports>>

LEMMA UnchangedSettled ==
  ASSUME LeaseInv, UNCHANGED <<head, comments, nextId>>
  PROVE  Settled
BY DEF LeaseInv, PastKnown, Settled, SameComment

LEMMA OnlyRunType ==
  ASSUME TypeOK, OnlyRun, run' \in [Runners -> RunType]
  PROVE  TypeOK'
BY TypeParts DEF OnlyRun, TypeOK, RunType, Leases, LeasesAt, Markers, InPlaceId, Names, Runners

LEMMA RestartOnly ==
  ASSUME LeaseInv, NEW p \in Runners, OnlyRun, EndOfRun(p) \/ TryAgain(p) \/ Unsuccessful(p)
  PROVE  LeaseInv'
<1>1. Restarts(p) BY EndRestarts, TryRestarts, UnsuccessfulRestarts DEF LeaseInv
<1>2. Settled BY UnchangedSettled DEF OnlyRun
<1>3. TypeOK' BY <1>1, OnlyRunType DEF LeaseInv, Restarts, Moves
<1> QED BY <1>1, <1>2, <1>3, RestartKeeps, StepKeeps DEF OnlyRun, Restarts, Moves, Settled

LEMMA FollowOnly ==
  ASSUME LeaseInv, NEW p \in Runners, OnlyRun, Moves(p), Follows(p)
  PROVE  LeaseInv'
<1>1. Settled BY UnchangedSettled DEF OnlyRun
<1>2. TypeOK' BY OnlyRunType DEF LeaseInv, Moves
<1>3. RunInv(p)' BY <1>1, FollowsKeeps DEF OnlyRun
<1> QED BY <1>1, <1>2, <1>3, StepKeeps DEF OnlyRun, Moves

LEMMA GoOnly ==
  ASSUME LeaseInv, NEW p \in Runners, OnlyRun,
         NEW pc \in Phases \ {"idle", "cleanup"}, Go(p, pc),
         pc \in Confirmed => run[p].pc \in Confirmed,
         pc \in {"fence", "mark"} => run[p].pc \in {"fence", "mark"}
  PROVE  LeaseInv'
<1>1. Moves(p) /\ Follows(p) BY GoMoves DEF LeaseInv, Follows
<1> QED BY <1>1, FollowOnly

----------------------------------------------------------------------------
(* Who is elected, and who adopts.                                         *)

\* freshExactHeadReviewStartLease elects the first live dedicated comment.
LEMMA ElectedIsFirst ==
  ASSUME TypeOK, NEW sha, NEW c, Elected(c, sha), NEW d \in comments, d.id = c.id
  PROVE  d = c /\ d.sha = sha /\ FirstLease(d)
<1>1. \A e \in comments : e.id # InPlaceId
  BY TypeParts DEF CommentsOK, Leases, LeasesAt, InPlaceId
<1>2. \A e \in InPlaceLeases : e.id = InPlaceId
  BY TypeParts DEF InPlaceLeases, Markers, LeasesAt
<1>3. c \in comments /\ c.sha = sha
  BY <1>1, <1>2 DEF Elected, FreshLeases, FreshFor
<1>4. d = c BY <1>3, TypeParts DEF CommentsOK
<1>5. \A e \in comments : e.fresh /\ e.sha = sha => Precedes(c, e)
  BY DEF Elected, FreshLeases, FreshFor
<1> QED BY <1>1, <1>3, <1>4, <1>5 DEF Precedes, FirstLease

LEMMA BecomesHolder ==
  ASSUME LeaseInv, NEW p \in Runners, NEW c \in FreshLeases(run[p].sha), Elected(c, run[p].sha),
         OnlyRun, Moves(p),
         run'[p].sha = run[p].sha, run'[p].attempt = run[p].attempt,
         run'[p].id = c.id, run'[p].owner = c.owner,
         run'[p].owner \in {None, Owner(p)} \/ Report(run'[p]) \in reports,
         run'[p].pc \in Confirmed \ {"cleanup"},
         run'[p].stale \subseteq {e \in comments : e.sha # run[p].sha /\ ~IsStatus(e)}
  PROVE  LeaseInv'
<1>1. UNCHANGED <<head, comments, nextId, reports>> BY DEF OnlyRun
<1>2. TypeOK' BY OnlyRunType DEF LeaseInv, Moves
<1>3. RunKnown(p)'
  <2>1. c.id < nextId
    <3>1. nextId \in 1..(MaxId + 1) /\ \A e \in comments : e.id < nextId
      BY TypeParts DEF LeaseInv, CommentsOK
    <3>2. \A e \in InPlaceLeases : e.id = 0
      BY TypeParts DEF LeaseInv, InPlaceLeases, Markers, LeasesAt, InPlaceId
    <3> QED BY <3>1, <3>2, LimitsAssumption DEF FreshLeases, FreshFor
  <2>2. run'[p].sha <= head BY DEF LeaseInv, RunInv, RunKnown
  <2>3. Owner(p)' = Owner(p) BY DEF Owner
  <2>4. run'[p].pc \notin {"idle", "fence", "mark"} BY DEF Confirmed
  <2> QED BY <1>1, <2>1, <2>2, <2>3, <2>4 DEF RunKnown, Report
<1>4. StaleOld(p)'
  <2>1. \A s \in comments : s.id < nextId /\ s.sha <= head
                           /\ \A e \in comments : e.id = s.id => e = s
    BY TypeParts DEF LeaseInv, CommentsOK, PastKnown
  <2>2. \A s \in run'[p].stale : s \in comments /\ s.sha # run[p].sha /\ ~IsStatus(s)
    OBVIOUS
  <2> QED BY <1>1, <2>1, <2>2 DEF StaleOld
<1>5. HoldsFirst(p)'
  <2> SUFFICES ASSUME NEW d \in comments, Holds(p, d)'
               PROVE  FirstLease(d)
    BY <1>1 DEF HoldsFirst, FirstLease
  <2>1. d.id = c.id BY DEF Holds, Mine
  <2> QED BY <2>1, ElectedIsFirst DEF LeaseInv
<1> QED BY <1>1, <1>2, <1>3, <1>4, <1>5, UnchangedSettled, StepKeeps DEF RunInv, Moves

\* A sweeper adopts the lease of a report, which is the first one if it lives.
LEMMA BeginStep ==
  ASSUME LeaseInv, NEW p \in Runners, Begin(p)
  PROVE  LeaseInv'
<1>1. /\ run \in [Runners -> RunType] /\ head \in 1..MaxHead /\ reports \subseteq ReportType
      /\ authority \in Reviewers \cup {None} /\ CommentsOK
  BY TypeParts DEF LeaseInv
<1>2. /\ run[p].owner = None /\ run[p].stale = {} /\ run[p].id < nextId
  BY DEF Begin, LeaseInv, RunInv, RunKnown
<1>3. UNCHANGED <<head, comments, nextId, durable, published, reports>> /\ Settled
  BY UnchangedSettled DEF Begin
<1>4. authority' \in Reviewers \cup {None} BY <1>1 DEF Begin
<1>5. ASSUME Moves(p) PROVE TypeOK'
  BY <1>3, <1>4, <1>5, TypeParts DEF LeaseInv, TypeOK, Moves, RunType, Leases, LeasesAt, Markers,
     InPlaceId, Names, Runners
<1>6. head \in 0..MaxHead /\ {"assert", "fence", "refresh"} \subseteq Phases
  BY <1>1, LimitsAssumption DEF Phases, Acquiring, Confirmed
<1>7. \A c \in comments : c.id \in 0..MaxId /\ c.id < nextId
  BY <1>1, LimitsAssumption DEF CommentsOK, Leases, LeasesAt
<1>8. ASSUME NEW pc \in {"assert", "refresh"}, NEW apply \in BOOLEAN,
             run' = [run EXCEPT ![p].pc = pc, ![p].apply = apply, ![p].sha = head]
      PROVE  LeaseInv'
  <2>1. run'[p] = [run[p] EXCEPT !.pc = pc, !.apply = apply, !.sha = head] BY <1>1, <1>8
  <2>2. run'[p] \in RunType
    <3>1. pc \in Phases /\ run[p] \in RunType BY <1>1, <1>6
    <3> QED BY <1>6, <2>1, <3>1 DEF RunType, Phases
  <2>3. Moves(p) BY <1>1, <1>8, <2>2 DEF Moves, Others
  <2>4. /\ run'[p].pc = pc /\ run'[p].sha = head /\ run'[p].id = run[p].id
        /\ run'[p].owner = None /\ run'[p].stale = {}
    BY <1>1, <1>2, <2>1 DEF RunType
  <2>5. RunKnown(p)' BY <1>1, <1>2, <1>3, <2>4 DEF RunKnown
  <2>6. StaleOld(p)' BY <2>4 DEF StaleOld
  <2>7. HoldsFirst(p)' BY <1>1, <1>3, <2>4 DEF HoldsFirst, Holds, Mine, CommentsOK
  <2> QED BY <1>3, <1>5, <2>3, <2>5, <2>6, <2>7, StepKeeps DEF RunInv, Moves
<1>9. ASSUME NEW c \in comments, IsStatus(c),
             run' = [run EXCEPT ![p].pc = "fence", ![p].sha = head, ![p].id = c.id]
      PROVE  LeaseInv'
  <2>1. run'[p] = [run[p] EXCEPT !.pc = "fence", !.sha = head, !.id = c.id] BY <1>1, <1>9
  <2>2. run'[p] \in RunType BY <1>1, <1>6, <1>7, <2>1 DEF RunType, Phases
  <2>3. Moves(p) BY <1>1, <1>9, <2>2 DEF Moves, Others
  <2>4. /\ run'[p].pc = "fence" /\ run'[p].sha = head /\ run'[p].id = c.id
        /\ run'[p].owner = None /\ run'[p].stale = {}
    BY <1>1, <1>2, <2>1 DEF RunType
  <2>5. RunKnown(p)' BY <1>1, <1>3, <1>7, <1>9, <2>4 DEF RunKnown
  <2>6. StaleOld(p)' BY <2>4 DEF StaleOld
  <2>7. HoldsFirst(p)' BY <1>1, <1>3, <2>4 DEF HoldsFirst, Holds, Mine, CommentsOK
  <2> QED BY <1>3, <1>5, <2>3, <2>5, <2>6, <2>7, StepKeeps DEF RunInv, Moves
<1>10. ASSUME NEW r \in reports, r.sha = head,
              run' = [run EXCEPT ![p].pc = "refresh", ![p].apply = TRUE, ![p].sha = head,
                                 ![p].id = r.id, ![p].owner = r.owner]
       PROVE  LeaseInv'
  <2>1. run'[p] = [run[p] EXCEPT !.pc = "refresh", !.apply = TRUE, !.sha = head,
                                 !.id = r.id, !.owner = r.owner]
    BY <1>1, <1>10
  <2>2. r.id \in 0..MaxId /\ r.owner \in Names \cup {None} /\ r.id < nextId
        /\ r = [id |-> r.id, owner |-> r.owner, sha |-> r.sha]
    BY <1>1 DEF ReportType, LeaseInv, PastKnown
  <2>3. run'[p] \in RunType BY <1>1, <1>6, <2>1, <2>2 DEF RunType, Phases
  <2>4. Moves(p) BY <1>1, <1>10, <2>3 DEF Moves, Others
  <2>5. /\ run'[p].pc = "refresh" /\ run'[p].sha = head /\ run'[p].id = r.id
        /\ run'[p].owner = r.owner /\ run'[p].stale = {}
    BY <1>1, <1>2, <2>1 DEF RunType
  <2>6. Report(run'[p]) = r BY <1>10, <2>2, <2>5 DEF Report
  <2>7. RunKnown(p)' BY <1>1, <1>3, <2>2, <2>5, <2>6 DEF RunKnown, Report
  <2>8. StaleOld(p)' BY <2>5 DEF StaleOld
  <2>9. HoldsFirst(p)'
    <3> SUFFICES ASSUME NEW c \in comments, Holds(p, c)', c.fresh, ~IsStatus(c)
                 PROVE  FirstLease(c)
      BY <1>3 DEF HoldsFirst, FirstLease
    <3>1. Report(c) = r BY <2>6 DEF Holds, Mine, Report
    <3> QED BY <3>1 DEF LeaseInv, ReportsAreFirst
  <2> QED BY <1>3, <1>5, <2>4, <2>7, <2>8, <2>9, StepKeeps DEF RunInv, Moves
<1>11. CASE run' = [run EXCEPT ![p].pc = "assert", ![p].sha = head]
  <2>1. run[p] = [run[p] EXCEPT !.apply = run[p].apply] BY <1>1 DEF RunType
  <2>2. run' = [run EXCEPT ![p].pc = "assert", ![p].apply = run[p].apply, ![p].sha = head]
    BY <1>1, <1>11, <2>1 DEF RunType
  <2>3. run[p].apply \in BOOLEAN BY <1>1 DEF RunType
  <2> QED BY <1>8, <2>2, <2>3
<1> QED BY <1>8, <1>9, <1>10, <1>11 DEF Begin

LEMMA ListStep ==
  ASSUME LeaseInv, NEW p \in Runners, List(p)
  PROVE  LeaseInv'
<1>1. run \in [Runners -> RunType] /\ CommentsOK BY TypeParts DEF LeaseInv
<1>2. ASSUME NEW c \in FreshLeases(run[p].sha),
             Elected(c, run[p].sha), c.owner = Owner(p),
             run' = [run EXCEPT ![p].pc = "authority", ![p].id = c.id,
                                ![p].owner = c.owner, ![p].stale = {}],
             UNCHANGED comments
      PROVE  LeaseInv'
  <2>1. c.id \in 0..MaxId /\ c.owner \in Names \cup {None}
    <3>1. CASE c \in comments
      BY <1>1, <3>1, LimitsAssumption DEF CommentsOK, Leases, LeasesAt
    <3>2. CASE c \in InPlaceLeases
      <4>1. durable.lease \in LeasesAt({InPlaceId}, {"in place"}) /\ c = durable.lease
        BY <3>2, TypeParts DEF LeaseInv, InPlaceLeases, Markers
      <4>2. c.id = 0 /\ c.owner \in Names \cup {None} BY <4>1 DEF LeasesAt, InPlaceId
      <4> QED BY <4>2, LimitsAssumption
    <3> QED BY <3>1, <3>2 DEF FreshLeases, FreshFor
  <2>2. run'[p] = [run[p] EXCEPT !.pc = "authority", !.id = c.id, !.owner = c.owner, !.stale = {}]
    BY <1>1, <1>2
  <2>3. "authority" \in Confirmed \ {"cleanup"} /\ {} \in SUBSET Leases BY DEF Confirmed
  <2>4. run'[p] \in RunType BY <1>1, <2>1, <2>2, <2>3 DEF RunType
  <2>5. Moves(p) BY <1>1, <1>2, <2>4 DEF Moves, Others
  <2>6. OnlyRun BY <1>2 DEF List, OnlyRun
  <2>7. /\ run'[p].sha = run[p].sha /\ run'[p].attempt = run[p].attempt
        /\ run'[p].id = c.id /\ run'[p].owner = c.owner /\ run'[p].pc = "authority"
        /\ run'[p].stale = {}
    BY <1>1, <2>2 DEF RunType
  <2> QED BY <1>2, <2>3, <2>5, <2>6, <2>7, BecomesHolder
<1>3. CASE EndOfRun(p) /\ UNCHANGED comments
  BY <1>3, RestartOnly DEF List, OnlyRun
<1>4. CASE /\ \E reaped \in SUBSET {c \in comments : ~c.fresh /\ ~IsStatus(c)} :
                 comments' = comments \ reaped
           /\ Go(p, "write")
  <2>1. "write" \in Phases \ (Confirmed \cup {"idle", "cleanup", "fence", "mark"})
    BY DEF Phases, Acquiring, Confirmed
  <2>2. Moves(p) /\ Follows(p) BY <1>4, <2>1, GoMoves DEF LeaseInv, Follows
  <2>3. comments' \subseteq comments /\ (\A c \in comments : IsStatus(c) => c \in comments')
        /\ UNCHANGED <<head, authority, nextId, durable, published, reports>>
    BY <1>4 DEF List
  <2>4. Settled BY <2>3 DEF Settled, SameComment, LeaseInv, PastKnown
  <2>5. CommentsOK' BY <1>1, <2>3 DEF CommentsOK
  <2>6. TypeOK'
    BY <2>2, <2>3, <2>5, TypeParts DEF LeaseInv, Moves, TypeOK, CommentsOK, RunType, Leases,
       LeasesAt, Markers, InPlaceId, Names, Runners
  <2> QED BY <2>2, <2>3, <2>4, <2>6, FollowsKeeps, StepKeeps DEF Moves
<1> QED BY <1>2, <1>3, <1>4 DEF List

----------------------------------------------------------------------------
(* Changes of the comments.                                                *)

LEMMA TypeStep ==
  ASSUME head' \in 1..MaxHead, authority' \in Reviewers \cup {None}, CommentsOK',
         durable' \in Markers, published' \in 0..MaxReview, reports' \subseteq ReportType,
         run' \in [Runners -> RunType]
  PROVE  TypeOK'
BY DEF TypeOK, CommentsOK, RunType, ReportType, Leases, LeasesAt, Markers, InPlaceId, Names, Runners

\* Posted comments go.
LEMMA FewerComments ==
  ASSUME LeaseInv, UNCHANGED <<head, nextId>>, comments' \subseteq comments,
         \A c \in comments : IsStatus(c) => c \in comments'
  PROVE  Settled /\ CommentsOK'
<1>1. CommentsOK BY TypeParts DEF LeaseInv
<1>2. CommentsOK' BY <1>1 DEF CommentsOK
<1> QED BY <1>2 DEF Settled, SameComment, LeaseInv, PastKnown

\* One comment is written: a status comment, or a lease that expires.
LEMMA OneWritten ==
  ASSUME LeaseInv, UNCHANGED <<head, nextId>>, NEW c \in comments, NEW new \in Leases,
         SameComment(c, new), new.sha <= head, new.fresh => new.owner # None,
         comments' = (comments \ {c}) \cup {new}
  PROVE  Settled /\ CommentsOK'
<1>1. CommentsOK /\ PastKnown BY TypeParts DEF LeaseInv
<1>2. new.id = c.id BY DEF SameComment
<1>3. CommentsOK' BY <1>1, <1>2 DEF CommentsOK
<1>4. \A d \in comments' : d.sha <= head /\ \E e \in comments : SameComment(e, d)
  <2> SUFFICES ASSUME NEW d \in comments'
               PROVE  d.sha <= head /\ \E e \in comments : SameComment(e, d)
    OBVIOUS
  <2>1. CASE d = new BY <2>1
  <2>2. CASE d \in comments
    <3>1. SameComment(d, d) BY DEF SameComment
    <3> QED BY <1>1, <2>2, <3>1 DEF PastKnown
  <2> QED BY <2>1, <2>2
<1>5. \A d \in comments : IsStatus(d) => \E e \in comments' : e.id = d.id /\ IsStatus(e)
  BY DEF SameComment
<1> QED BY <1>3, <1>4, <1>5 DEF Settled

LEMMA ExpiredComment ==
  ASSUME LeaseInv, UNCHANGED <<head, nextId>>, NEW c \in comments,
         comments' = (comments \ {c}) \cup {Expired(c)}
  PROVE  Settled /\ CommentsOK'
<1>1. c \in Leases /\ c.sha <= head BY TypeParts DEF LeaseInv, CommentsOK, PastKnown
<1>2. Expired(c) \in Leases /\ Expired(c).sha = c.sha /\ Expired(c).fresh = FALSE
  BY <1>1 DEF Expired, Leases, LeasesAt
<1>3. SameComment(c, Expired(c))
  BY <1>1, <1>2 DEF SameComment, Expired, Leases, LeasesAt, IsStatus
<1> QED BY <1>1, <1>2, <1>3, OneWritten

\* The lease a run writes names the run and a head that is not ahead.
LEMMA LeaseFacts ==
  ASSUME LeaseInv, NEW p \in Runners
  PROVE  /\ Owner(p) \in Names /\ Owner(p) # None
         /\ run[p].sha \in 0..MaxHead /\ run[p].sha <= head
<1>1. run[p].attempt \in Nat /\ run[p].sha \in 0..MaxHead
  BY TypeParts DEF LeaseInv, RunType
<1>2. Owner(p) \in Names /\ Owner(p) # None
  BY <1>1, RunnersAssumption DEF Owner, Names, Runners
<1> QED BY <1>1, <1>2 DEF LeaseInv, RunInv, RunKnown

\* GitHub's next comment: its id is above every lease that a run or a report knows.
LEMMA AddedComment ==
  ASSUME LeaseInv, NEW new \in Leases, new.id = nextId, nextId <= MaxId,
         new.fresh => new.owner # None, new.sha <= head,
         comments' = comments \cup {new}, nextId' = nextId + 1, UNCHANGED <<head, reports>>
  PROVE  /\ CommentsOK' /\ PastKnown' /\ ReportsAreFirst'
         /\ \A q \in Runners : run'[q] = run[q] => RunInv(q)'
         /\ \A q \in Runners : /\ run'[q].stale = run[q].stale /\ run'[q].sha = run[q].sha
                               /\ run'[q].pc # "cleanup"
                               => StaleOld(q)'
<1>1. CommentsOK /\ PastKnown /\ nextId \in Nat /\ reports \subseteq ReportType
      /\ run \in [Runners -> RunType]
  BY TypeParts, LimitsAssumption DEF LeaseInv, CommentsOK
<1>2. /\ \A c \in comments : c.id < nextId /\ c.id \in Nat
      /\ \A r \in reports : r.id < nextId /\ r.id \in Nat
  BY <1>1, LimitsAssumption DEF CommentsOK, PastKnown, Leases, LeasesAt, ReportType
<1>3. CommentsOK' BY <1>1, <1>2, LimitsAssumption DEF CommentsOK
<1>4. PastKnown' BY <1>1, <1>2 DEF PastKnown
<1>5. \A c \in comments : FirstLease(c) => FirstLease(c)' BY <1>1, <1>2 DEF FirstLease
<1>6. ReportsAreFirst'
  <2> SUFFICES ASSUME NEW c \in comments', Report(c) \in reports, c.fresh, ~IsStatus(c)
               PROVE  FirstLease(c)'
    BY DEF ReportsAreFirst
  <2>1. c # new BY <1>1, <1>2 DEF Report
  <2> QED BY <1>5, <2>1 DEF LeaseInv, ReportsAreFirst
<1>7. ASSUME NEW q \in Runners, run'[q].stale = run[q].stale, run'[q].sha = run[q].sha,
             run'[q].pc = "cleanup" => run[q].pc = "cleanup"
      PROVE  StaleOld(q)'
  <2> SUFFICES ASSUME NEW s \in run[q].stale
               PROVE  /\ s.id < nextId' /\ s.sha <= head' /\ s.sha # run[q].sha
                      /\ run'[q].pc = "cleanup" => s.sha < run[q].sha
                      /\ \A c \in comments' : c.id = s.id => c.sha = s.sha /\ ~IsStatus(c)
    BY <1>7 DEF StaleOld
  <2>1. /\ s.id < nextId /\ s.sha <= head /\ s.sha # run[q].sha
        /\ run[q].pc = "cleanup" => s.sha < run[q].sha
        /\ \A c \in comments : c.id = s.id => c.sha = s.sha /\ ~IsStatus(c)
    BY DEF LeaseInv, RunInv, StaleOld
  <2>2. s.id \in Nat BY <1>1, LimitsAssumption DEF RunType, Leases, LeasesAt
  <2> QED BY <1>1, <1>7, <2>1, <2>2
<1>8. ASSUME NEW q \in Runners, run'[q] = run[q] PROVE RunInv(q)'
  <2>1. run[q].id \in Nat /\ run[q].id < nextId
    BY <1>1, LimitsAssumption DEF RunType, LeaseInv, RunInv, RunKnown
  <2>2. RunKnown(q)'
    BY <1>1, <1>8, <2>1 DEF LeaseInv, RunInv, RunKnown, Owner
  <2>3. HoldsFirst(q)'
    <3> SUFFICES ASSUME NEW c \in comments', Holds(q, c)', c.fresh, ~IsStatus(c)
                 PROVE  FirstLease(c)'
      BY DEF HoldsFirst
    <3>1. Holds(q, c) /\ c # new BY <1>1, <1>8, <2>1 DEF Holds, Mine
    <3> QED BY <1>5, <3>1 DEF LeaseInv, RunInv, HoldsFirst
  <2> QED BY <1>7, <1>8, <2>2, <2>3 DEF RunInv
<1> QED BY <1>3, <1>4, <1>6, <1>7, <1>8

----------------------------------------------------------------------------
(* Acquiring.                                                              *)

\* The status comment of the command gets the lease; no posted one changes.
LEMMA MarkStep ==
  ASSUME LeaseInv, NEW p \in Runners, Mark(p)
  PROVE  LeaseInv'
<1> DEFINE new == Lease(p, run[p].id, "command")
<1>1. run \in [Runners -> RunType] /\ CommentsOK /\ PastKnown
  BY TypeParts DEF LeaseInv
<1>2. UNCHANGED <<head, authority, nextId, durable, published, reports>> BY DEF Mark
<1>3. PICK c \in comments : c.id = run[p].id /\ IsStatus(c)
  BY DEF Mark, LeaseInv, RunInv, RunKnown
<1>4. comments' = (comments \ {c}) \cup {new}
  <2>1. WithId(run[p].id) = {c} BY <1>1, <1>3 DEF WithId, CommentsOK
  <2> QED BY <2>1 DEF Mark
<1>5. /\ new.id = c.id /\ new.kind = "command" /\ new.owner \in Names /\ new.owner # None
      /\ new.sha \in 0..MaxHead /\ new.sha <= head /\ new.fresh = TRUE
  BY <1>3, LeaseFacts DEF Lease
<1>6. new \in Leases /\ SameComment(c, new)
  <2>1. c.id \in 1..MaxId BY <1>1 DEF CommentsOK, Leases, LeasesAt
  <2>2. new = [id |-> new.id, kind |-> new.kind, owner |-> new.owner, sha |-> new.sha,
               fresh |-> new.fresh]
    BY DEF Lease
  <2> HIDE DEF new
  <2>3. new \in Leases BY <1>5, <2>1, <2>2 DEF Leases, LeasesAt
  <2> QED BY <1>3, <1>5, <2>3 DEF SameComment, IsStatus
<1> HIDE DEF new
<1>7. Settled /\ CommentsOK' BY <1>2, <1>4, <1>5, <1>6, OneWritten
<1>8. ASSUME Moves(p) PROVE TypeOK'
  BY <1>2, <1>7, <1>8, TypeParts, TypeStep DEF LeaseInv, Moves
<1>9. CASE EndOfRun(p)
  BY <1>2, <1>7, <1>8, <1>9, EndRestarts, RestartKeeps, StepKeeps DEF LeaseInv, Restarts, Moves
<1>10. CASE run' = [run EXCEPT ![p].pc = "holding", ![p].owner = Owner(p)]
  <2>1. run'[p] = [run[p] EXCEPT !.pc = "holding", !.owner = Owner(p)] BY <1>1, <1>10
  <2>2. "holding" \in Confirmed \ {"idle", "cleanup", "fence", "mark"} /\ Owner(p) \in Names
    BY LeaseFacts DEF Confirmed
  <2>3. run'[p] \in RunType BY <1>1, <2>1, <2>2 DEF RunType
  <2>4. Moves(p) BY <1>1, <1>10, <2>3 DEF Moves, Others
  <2>5. /\ run'[p].pc = "holding" /\ run'[p].owner = Owner(p) /\ run'[p].sha = run[p].sha
        /\ run'[p].id = run[p].id /\ run'[p].stale = run[p].stale
        /\ run'[p].attempt = run[p].attempt
    BY <1>1, <2>1 DEF RunType
  <2>6. RunKnown(p)' BY <1>2, <2>2, <2>5 DEF LeaseInv, RunInv, RunKnown, Owner
  <2>7. StaleOld(p)'
    <3> SUFFICES ASSUME NEW s \in run[p].stale
                 PROVE  /\ s.id < nextId /\ s.sha <= head /\ s.sha # run[p].sha
                        /\ \A d \in comments' : d.id = s.id => d.sha = s.sha /\ ~IsStatus(d)
      BY <1>2, <2>2, <2>5 DEF StaleOld
    <3>1. /\ s.id < nextId /\ s.sha <= head /\ s.sha # run[p].sha
          /\ \A d \in comments : d.id = s.id => d.sha = s.sha /\ ~IsStatus(d)
      BY DEF LeaseInv, RunInv, StaleOld
    <3>2. s.id # new.id BY <1>3, <1>5, <3>1
    <3> QED BY <1>4, <3>1, <3>2
  <2>8. HoldsFirst(p)'
    <3> SUFFICES ASSUME NEW d \in comments', Holds(p, d)' PROVE IsStatus(d)
      BY DEF HoldsFirst
    <3>1. d.id = c.id BY <1>3, <2>5 DEF Holds, Mine
    <3>2. d = new BY <1>1, <1>4, <3>1 DEF CommentsOK
    <3> QED BY <1>5, <3>2 DEF IsStatus
  <2> QED BY <1>2, <1>7, <1>8, <2>4, <2>6, <2>7, <2>8, StepKeeps DEF RunInv, Moves
<1> QED BY <1>9, <1>10 DEF Mark

\* A POST adds the last comment; its owner does not hold it yet.
LEMMA PostStep ==
  ASSUME LeaseInv, NEW p \in Runners, Post(p)
  PROVE  LeaseInv'
<1> DEFINE new == Lease(p, nextId, "posted")
<1>1. /\ run \in [Runners -> RunType] /\ nextId \in 1..MaxId /\ nextId \in 0..MaxId
  BY TypeParts, LimitsAssumption DEF LeaseInv, Post, CommentsOK
<1>2. /\ comments' = comments \cup {new} /\ nextId' = nextId + 1 /\ nextId <= MaxId
      /\ UNCHANGED <<head, authority, durable, published, reports>>
  BY DEF Post
<1>3. /\ new.id = nextId /\ new.kind = "posted" /\ new.owner = Owner(p) /\ Owner(p) \in Names
      /\ Owner(p) # None /\ new.sha \in 0..MaxHead /\ new.sha <= head /\ new.fresh = TRUE
  BY LeaseFacts DEF Lease
<1>4. new \in Leases
  <2>1. new = [id |-> new.id, kind |-> new.kind, owner |-> new.owner, sha |-> new.sha,
               fresh |-> new.fresh]
    BY DEF Lease
  <2> HIDE DEF new
  <2> QED BY <1>1, <1>3, <2>1 DEF Leases, LeasesAt
<1> HIDE DEF new
<1>5. /\ CommentsOK' /\ PastKnown' /\ ReportsAreFirst'
      /\ \A q \in Runners : run'[q] = run[q] => RunInv(q)'
      /\ \A q \in Runners : /\ run'[q].stale = run[q].stale /\ run'[q].sha = run[q].sha
                            /\ run'[q].pc # "cleanup"
                            => StaleOld(q)'
  BY <1>2, <1>3, <1>4, AddedComment
<1>6. Moves(p) /\ RunInv(p)'
  <2>1. CASE TryAgain(p)
    BY <1>2, <2>1, TryRestarts, RestartKeeps DEF LeaseInv, Restarts
  <2>2. CASE run' = [run EXCEPT ![p].pc = "confirm", ![p].id = nextId, ![p].owner = Owner(p)]
    <3>1. run'[p] = [run[p] EXCEPT !.pc = "confirm", !.id = nextId, !.owner = Owner(p)]
      BY <1>1, <2>2
    <3>2. "confirm" \in Acquiring \ (Confirmed \cup {"idle", "cleanup", "fence", "mark"})
      BY DEF Acquiring, Confirmed
    <3>3. run'[p] \in RunType BY <1>1, <1>3, <3>1, <3>2 DEF RunType
    <3>4. Moves(p) BY <1>1, <2>2, <3>3 DEF Moves, Others
    <3>5. /\ run'[p].pc = "confirm" /\ run'[p].owner = Owner(p) /\ run'[p].sha = run[p].sha
          /\ run'[p].id = nextId /\ run'[p].stale = run[p].stale
          /\ run'[p].attempt = run[p].attempt
      BY <1>1, <3>1 DEF RunType
    <3>6. RunKnown(p)'
      BY <1>1, <1>2, <3>2, <3>5 DEF LeaseInv, RunInv, RunKnown, Owner
    <3>7. StaleOld(p)' BY <1>5, <3>2, <3>5
    <3>8. HoldsFirst(p)' BY <3>2, <3>5 DEF HoldsFirst, Holds
    <3> QED BY <3>4, <3>6, <3>7, <3>8 DEF RunInv
  <2> QED BY <2>1, <2>2 DEF Post
<1>7. TypeOK' BY <1>2, <1>5, <1>6, TypeParts, TypeStep DEF LeaseInv, Moves
<1>8. ASSUME NEW q \in Runners PROVE RunInv(q)'
  BY <1>5, <1>6 DEF Moves, Others
<1> QED BY <1>5, <1>7, <1>8 DEF LeaseInv

LEMMA QuietReadStep ==
  ASSUME LeaseInv, NEW p \in Runners, QuietRead(p)
  PROVE  LeaseInv'
<1>1. OnlyRun BY DEF QuietRead, OnlyRun
<1>2. CASE EndOfRun(p) \/ TryAgain(p) BY <1>1, <1>2, RestartOnly
<1>3. CASE run' = [run EXCEPT ![p].pc = "patch", ![p].seen = durable]
  <2>1. run \in [Runners -> RunType] /\ durable \in Markers BY TypeParts DEF LeaseInv
  <2>2. run'[p] = [run[p] EXCEPT !.pc = "patch", !.seen = durable] BY <1>3, <2>1
  <2>3. "patch" \in Acquiring \ (Confirmed \cup {"idle", "cleanup", "fence", "mark"})
    BY DEF Acquiring, Confirmed
  <2>4. run'[p] \in RunType BY <2>1, <2>2, <2>3 DEF RunType
  <2>5. Moves(p) BY <1>3, <2>1, <2>4 DEF Moves, Others
  <2>6. Follows(p) BY <2>1, <2>2, <2>3 DEF Follows, RunType
  <2> QED BY <1>1, <2>5, <2>6, FollowOnly
<1> QED BY <1>2, <1>3 DEF QuietRead

\* An in-place lease is no comment: nobody holds a comment by it.
LEMMA QuietPatchStep ==
  ASSUME LeaseInv, NEW p \in Runners, QuietPatch(p)
  PROVE  LeaseInv'
<1>1. run \in [Runners -> RunType] /\ nextId \in 1..(MaxId + 1)
  BY TypeParts DEF LeaseInv, CommentsOK
<1>2. UNCHANGED <<head, authority, comments, nextId, published, reports>> BY DEF QuietPatch
<1>3. durable' \in Markers
  <2> DEFINE new == Lease(p, InPlaceId, "in place")
  <2>1. /\ new.id = InPlaceId /\ new.kind = "in place" /\ new.owner \in Names
        /\ new.sha \in 0..MaxHead /\ new.fresh = TRUE
    BY LeaseFacts DEF Lease
  <2>2. new = [id |-> new.id, kind |-> new.kind, owner |-> new.owner, sha |-> new.sha,
               fresh |-> new.fresh]
    BY DEF Lease
  <2>3. durable' = [review |-> run[p].seen.review, lease |-> new] BY DEF QuietPatch
  <2> HIDE DEF new
  <2>4. new \in LeasesAt({InPlaceId}, {"in place"}) BY <2>1, <2>2 DEF LeasesAt
  <2>5. run[p].seen.review \in 0..MaxReview BY <1>1 DEF RunType, Markers
  <2> QED BY <2>3, <2>4, <2>5 DEF Markers
<1>4. Settled BY <1>2, UnchangedSettled
<1>5. ASSUME Moves(p) PROVE TypeOK'
  <2>1. CommentsOK' BY <1>2, TypeParts DEF LeaseInv, CommentsOK
  <2> QED BY <1>2, <1>3, <1>5, <2>1, TypeParts, TypeStep DEF LeaseInv, Moves
<1>6. CASE TryAgain(p)
  BY <1>2, <1>4, <1>5, <1>6, TryRestarts, RestartKeeps, StepKeeps DEF LeaseInv, Restarts, Moves
<1>7. CASE run' = [run EXCEPT ![p].pc = "confirm", ![p].id = InPlaceId, ![p].owner = Owner(p),
                              ![p].seen = NoMarker]
  <2>1. run'[p] = [run[p] EXCEPT !.pc = "confirm", !.id = InPlaceId, !.owner = Owner(p),
                                 !.seen = NoMarker]
    BY <1>1, <1>7
  <2>2. "confirm" \in Acquiring \ (Confirmed \cup {"idle", "cleanup", "fence", "mark"})
    BY DEF Acquiring, Confirmed
  <2>3. InPlaceId \in 0..MaxId /\ InPlaceId < nextId /\ Owner(p) \in Names
    BY <1>1, LimitsAssumption, LeaseFacts DEF InPlaceId
  <2>4. run'[p] \in RunType BY <1>1, <2>1, <2>2, <2>3, NoRunType DEF RunType
  <2>5. Moves(p) BY <1>1, <1>7, <2>4 DEF Moves, Others
  <2>6. /\ run'[p].pc = "confirm" /\ run'[p].owner = Owner(p) /\ run'[p].sha = run[p].sha
        /\ run'[p].id = InPlaceId /\ run'[p].stale = run[p].stale
        /\ run'[p].attempt = run[p].attempt
    BY <1>1, <2>1 DEF RunType
  <2>7. RunKnown(p)' BY <1>2, <2>2, <2>3, <2>6 DEF LeaseInv, RunInv, RunKnown, Owner
  <2>8. StaleOld(p)' BY <1>2, <2>2, <2>6 DEF LeaseInv, RunInv, StaleOld
  <2>9. HoldsFirst(p)' BY <2>2, <2>6 DEF HoldsFirst, Holds
  <2> QED BY <1>2, <1>4, <1>5, <2>5, <2>7, <2>8, <2>9, StepKeeps DEF RunInv, Moves
<1> QED BY <1>6, <1>7 DEF QuietPatch

\* The second list: who finds itself elected holds the first lease.
LEMMA ConfirmStep ==
  ASSUME LeaseInv, NEW p \in Runners, Confirm(p)
  PROVE  LeaseInv'
<1>1. run \in [Runners -> RunType] /\ comments \subseteq Leases
  BY TypeParts DEF LeaseInv, CommentsOK
<1>2. OnlyRun BY DEF Confirm, OnlyRun
<1>3. CASE Go(p, "drop")
  <2>1. "drop" \in Phases \ (Confirmed \cup {"idle", "cleanup", "fence", "mark"})
    BY DEF Phases, Ending, Confirmed
  <2> QED BY <1>2, <1>3, <2>1, GoOnly
<1>4. CASE /\ IsElected(p)
           /\ run' = [run EXCEPT ![p].pc = IF run[p].apply THEN "guard" ELSE "authority",
                                 ![p].stale = {c \in comments : c.sha # run[p].sha /\ ~IsStatus(c)}]
  <2> DEFINE pc == IF run[p].apply THEN "guard" ELSE "authority"
             old == {c \in comments : c.sha # run[p].sha /\ ~IsStatus(c)}
  <2>1. PICK c \in FreshLeases(run[p].sha) : Mine(p, c) /\ Elected(c, run[p].sha)
    BY <1>4 DEF IsElected
  <2>2. pc \in Confirmed \ {"cleanup"} BY DEF Confirmed
  <2>3. old \in SUBSET Leases BY <1>1
  <2>4. run' = [run EXCEPT ![p].pc = pc, ![p].stale = old] BY <1>4
  <2>5. old \subseteq {e \in comments : e.sha # run[p].sha /\ ~IsStatus(e)} OBVIOUS
  <2> HIDE DEF pc, old
  <2>6. run'[p] = [run[p] EXCEPT !.pc = pc, !.stale = old] BY <1>1, <2>4
  <2>7. run'[p] \in RunType BY <1>1, <2>2, <2>3, <2>6 DEF RunType
  <2>8. Moves(p) BY <1>1, <2>4, <2>7 DEF Moves, Others
  <2>9. /\ run'[p].sha = run[p].sha /\ run'[p].attempt = run[p].attempt
        /\ run'[p].id = run[p].id /\ run'[p].owner = run[p].owner
        /\ run'[p].pc = pc /\ run'[p].stale = old
    BY <1>1, <2>6 DEF RunType
  <2>10. run'[p].owner \in {None, Owner(p)} \/ Report(run'[p]) \in reports
    BY <2>9 DEF Report, LeaseInv, RunInv, RunKnown
  <2> QED BY <1>2, <2>1, <2>2, <2>5, <2>8, <2>9, <2>10, BecomesHolder DEF Mine
<1> QED BY <1>3, <1>4 DEF Confirm


\* confirmQueueAuthority read the live head: what the list names besides the
\* run's own head is of an earlier one.
LEMMA ConfirmAuthorityStep ==
  ASSUME LeaseInv, NEW p \in Runners, ConfirmAuthority(p)
  PROVE  LeaseInv'
<1>1. OnlyRun /\ run[p].pc = "authority" BY DEF ConfirmAuthority, OnlyRun
<1>2. CASE TryAgain(p) BY <1>1, <1>2, RestartOnly
<1>3. CASE Go(p, "drop")
  <2>1. "drop" \in Phases \ (Confirmed \cup {"idle", "cleanup", "fence", "mark"})
    BY DEF Phases, Ending, Confirmed
  <2> QED BY <1>1, <1>3, <2>1, GoOnly
<1>4. CASE head = run[p].sha /\ Go(p, "cleanup")
  <2>1. {"cleanup", "authority"} \subseteq Confirmed \ {"idle", "fence", "mark"} BY DEF Confirmed
  <2>2. Moves(p) /\ run'[p].pc = "cleanup" /\ run'[p].attempt = run[p].attempt
        /\ run'[p].sha = run[p].sha /\ run'[p].id = run[p].id /\ run'[p].owner = run[p].owner
        /\ run'[p].stale = run[p].stale
    BY <1>4, <2>1, GoMoves DEF LeaseInv, Phases
  <2>3. TypeOK' BY <1>1, <2>2, OnlyRunType DEF LeaseInv, Moves
  <2>4. UNCHANGED <<head, comments, nextId, reports>> BY <1>1 DEF OnlyRun
  <2>5. RunKnown(p)' BY <2>1, <2>2, <2>4 DEF LeaseInv, RunInv, RunKnown, Owner, Report
  <2>6. StaleOld(p)'
    <3>1. \A s \in run[p].stale : s.sha < run[p].sha
      <4> SUFFICES ASSUME NEW s \in run[p].stale PROVE s.sha < run[p].sha OBVIOUS
      <4>1. s \in Leases /\ head \in 1..MaxHead BY TypeParts DEF LeaseInv, RunType
      <4>2. s.sha \in 0..MaxHead BY <4>1 DEF Leases, LeasesAt
      <4>3. s.sha <= head /\ s.sha # run[p].sha BY DEF LeaseInv, RunInv, StaleOld
      <4> QED BY <1>4, <4>1, <4>2, <4>3, LimitsAssumption
    <3> QED BY <2>2, <2>4, <3>1 DEF LeaseInv, RunInv, StaleOld
  <2>7. HoldsFirst(p)'
    <3>1. \A c \in comments : Holds(p, c)' => Holds(p, c)
      BY <1>1, <2>1, <2>2 DEF Holds, Mine
    <3> QED BY <2>4, <3>1 DEF LeaseInv, RunInv, HoldsFirst, FirstLease
  <2> QED BY <2>2, <2>3, <2>4, <2>5, <2>6, <2>7, UnchangedSettled, StepKeeps DEF RunInv, Moves
<1> QED BY <1>2, <1>3, <1>4 DEF ConfirmAuthority

LEMMA CleanUpStep ==
  ASSUME LeaseInv, NEW p \in Runners, CleanUp(p)
  PROVE  LeaseInv'
<1>1. run \in [Runners -> RunType] BY TypeParts DEF LeaseInv
<1>2. run'[p] = [run[p] EXCEPT !.pc = "holding", !.stale = {}] BY <1>1 DEF CleanUp
<1>3. {"holding", "cleanup"} \subseteq Confirmed /\ {} \in SUBSET Leases BY DEF Confirmed
<1>4. run'[p] \in RunType BY <1>1, <1>2, <1>3 DEF RunType
<1>5. Moves(p) BY <1>1, <1>4 DEF CleanUp, Moves, Others
<1>6. Follows(p) BY <1>1, <1>2, <1>3 DEF Follows, RunType, CleanUp
<1>7. UNCHANGED <<head, authority, nextId, durable, published, reports>>
      /\ comments' \subseteq comments
  BY DEF CleanUp
<1>8. \A c \in comments : IsStatus(c) => c \in comments'
  <2>1. \A c \in comments, s \in run[p].stale : c.id = s.id => ~IsStatus(c)
    BY DEF LeaseInv, RunInv, StaleOld
  <2> QED BY <2>1 DEF CleanUp
<1>9. Settled /\ CommentsOK' BY <1>7, <1>8, FewerComments
<1>10. TypeOK' BY <1>5, <1>7, <1>9, TypeParts, TypeStep DEF LeaseInv, Moves
<1> QED BY <1>5, <1>6, <1>7, <1>9, <1>10, FollowsKeeps, StepKeeps DEF Moves

----------------------------------------------------------------------------
(* Review, publication, apply.                                             *)

\* The steps that only read: they go on, give up or drop the lease.
LEMMA ReadStep ==
  ASSUME LeaseInv, NEW p \in Runners,
         \/ Fence(p) \/ AssertAuthority(p) \/ ReadContext(p) \/ ClaimSupplied(p)
         \/ Refresh(p) \/ Guard(p)
  PROVE  LeaseInv'
<1>1. OnlyRun
  BY DEF Fence, AssertAuthority, ReadContext, ClaimSupplied, Refresh, Guard, OnlyRun
<1>2. /\ {"holding", "claim", "review", "refresh", "guard", "mutate"} \subseteq Confirmed
      /\ {"mark", "list"} \cap Confirmed = {}
      /\ {"mark", "list", "claim", "review", "guard", "mutate", "drop"} \subseteq Phases
      /\ "drop" \notin Confirmed
  BY DEF Phases, Acquiring, Confirmed, Ending
<1>3. CASE EndOfRun(p) \/ TryAgain(p) \/ Unsuccessful(p) BY <1>1, <1>3, RestartOnly
<1>4. CASE \E pc \in {"list", "drop"} : Go(p, pc) BY <1>1, <1>2, <1>4, GoOnly
<1>5. CASE run[p].pc = "fence" /\ Go(p, "mark") BY <1>1, <1>2, <1>5, GoOnly
<1>6. CASE /\ run[p].pc \in {"holding", "claim", "refresh", "guard"}
           /\ \E pc \in {"claim", "review", "guard", "mutate"} : Go(p, pc)
  BY <1>1, <1>2, <1>6, GoOnly
<1> QED BY <1>3, <1>4, <1>5, <1>6
  DEF Fence, AssertAuthority, ReadContext, ClaimSupplied, Refresh, Guard

\* A report is made under a lease that its run holds: the first one, if it lives.
LEMMA ReviewStep ==
  ASSUME LeaseInv, NEW p \in Runners, Review(p)
  PROVE  LeaseInv'
<1>1. run[p].pc = "review" /\ UNCHANGED <<head, authority, comments, nextId, durable, published>>
  BY DEF Review
<1>2. {"review", "refresh"} \subseteq Confirmed /\ "hand" \notin Confirmed
      /\ "hand" \in Phases \ {"idle", "cleanup", "fence", "mark"}
  BY DEF Phases, Ending, Confirmed
<1>3. CASE Unsuccessful(p) /\ UNCHANGED reports
  BY <1>1, <1>3, RestartOnly DEF OnlyRun
<1>4. CASE /\ reports' = reports \cup {Report(run[p])}
           /\ \/ run' = [run EXCEPT ![p].pc = "refresh", ![p].apply = TRUE]
              \/ Go(p, "hand")
  <2>1. run \in [Runners -> RunType] /\ CommentsOK BY TypeParts DEF LeaseInv
  <2>2. Moves(p) /\ Follows(p)
    <3>1. CASE Go(p, "hand") BY <1>1, <1>2, <3>1, GoMoves DEF LeaseInv, Follows
    <3>2. CASE run' = [run EXCEPT ![p].pc = "refresh", ![p].apply = TRUE]
      <4>1. run'[p] = [run[p] EXCEPT !.pc = "refresh", !.apply = TRUE] BY <2>1, <3>2
      <4>2. run'[p] \in RunType BY <1>2, <2>1, <4>1 DEF RunType
      <4> QED BY <1>1, <1>2, <2>1, <3>2, <4>1, <4>2 DEF Moves, Others, Follows, RunType
    <3> QED BY <1>4, <3>1, <3>2
  <2>3. Settled /\ CommentsOK'
    BY <1>1, <2>1, UnchangedSettled DEF CommentsOK
  <2>4. Report(run[p]) \in ReportType BY <2>1 DEF Report, ReportType, RunType
  <2>5. reports' \subseteq ReportType BY <1>4, <2>4, TypeParts DEF LeaseInv
  <2>6. TypeOK' BY <1>1, <2>2, <2>3, <2>5, TypeParts, TypeStep DEF LeaseInv, Moves
  <2>7. \A q \in Runners : RunInv(q)'
    <3> SUFFICES ASSUME NEW q \in Runners PROVE RunInv(q)' OBVIOUS
    <3>1. Follows(q)
      <4>1. CASE q = p BY <2>2, <4>1
      <4>2. CASE q # p
        <5>1. run'[q] = run[q] BY <2>2, <4>2 DEF Moves, Others
        <5> QED BY <5>1 DEF Follows
      <4> QED BY <4>1, <4>2
    <3> QED BY <1>4, <2>3, <3>1, FollowsKeeps
  <2>8. PastKnown'
    BY <1>1, <1>4 DEF LeaseInv, PastKnown, RunInv, RunKnown, Report
  <2>9. ReportsAreFirst'
    <3> SUFFICES ASSUME NEW c \in comments, Report(c) \in reports', c.fresh, ~IsStatus(c)
                 PROVE  FirstLease(c)
      BY <1>1 DEF ReportsAreFirst, FirstLease
    <3>1. CASE Report(c) \in reports BY <3>1 DEF LeaseInv, ReportsAreFirst
    <3>2. CASE Report(c) = Report(run[p])
      <4>1. Holds(p, c) BY <1>1, <1>2, <3>2 DEF Report, Holds, Mine
      <4> QED BY <4>1 DEF LeaseInv, RunInv, HoldsFirst
    <3> QED BY <1>4, <3>1, <3>2
  <2> QED BY <2>6, <2>7, <2>8, <2>9 DEF LeaseInv
<1> QED BY <1>3, <1>4 DEF Review

LEMMA WriteStep ==
  ASSUME LeaseInv, Settled, CommentsOK', UNCHANGED <<head, authority, reports>>,
         durable' \in Markers, published' \in 0..MaxReview,
         NEW p \in Runners, Restarts(p) \/ (Moves(p) /\ Follows(p))
  PROVE  LeaseInv'
<1>1. Moves(p) BY DEF Restarts
<1>2. TypeOK' BY <1>1, TypeParts, TypeStep DEF LeaseInv, Moves
<1>3. RunInv(p)' BY RestartKeeps, FollowsKeeps DEF Settled
<1> QED BY <1>1, <1>2, <1>3, StepKeeps DEF Moves

LEMMA SameComments ==
  ASSUME LeaseInv, UNCHANGED <<head, comments, nextId>>
  PROVE  Settled /\ CommentsOK'
BY UnchangedSettled, TypeParts DEF LeaseInv, CommentsOK

\* A move to a later phase, with what was read of the durable comment.
LEMMA ReadsDurable ==
  ASSUME LeaseInv, NEW p \in Runners, NEW pc \in {"lapse", "clear"},
         run' = [run EXCEPT ![p].pc = pc, ![p].seen = durable]
  PROVE  Moves(p) /\ Follows(p)
<1>1. run \in [Runners -> RunType] /\ durable \in Markers BY TypeParts DEF LeaseInv
<1>2. run'[p] = [run[p] EXCEPT !.pc = pc, !.seen = durable] BY <1>1
<1>3. pc \in Ending \ (Confirmed \cup {"idle", "cleanup", "fence", "mark"})
  BY DEF Ending, Confirmed
<1>4. run'[p] \in RunType BY <1>1, <1>2, <1>3 DEF RunType
<1> QED BY <1>1, <1>2, <1>3, <1>4 DEF Moves, Others, Follows, RunType

LEMMA HandOverStep ==
  ASSUME LeaseInv, NEW p \in Runners, HandOver(p)
  PROVE  LeaseInv'
<1>1. UNCHANGED <<head, authority, nextId, durable, published, reports>> BY DEF HandOver
<1>2. durable \in Markers /\ published \in 0..MaxReview BY TypeParts DEF LeaseInv
<1>3. Restarts(p) \/ (Moves(p) /\ Follows(p))
  BY EndRestarts, ReadsDurable DEF HandOver, LeaseInv
<1>4. Settled /\ CommentsOK'
  <2>1. CASE UNCHANGED comments BY <1>1, <2>1, SameComments
  <2>2. CASE \E c \in WithId(run[p].id) : comments' = (comments \ {c}) \cup {Expired(c)}
    BY <1>1, <2>2, ExpiredComment DEF WithId
  <2> QED BY <2>1, <2>2 DEF HandOver
<1> QED BY <1>1, <1>2, <1>3, <1>4, WriteStep

\* The marker that was read is written back expired, or without a lease.
LEMMA LapseStep ==
  ASSUME LeaseInv, NEW p \in Runners, Lapse(p) \/ Clear(p)
  PROVE  LeaseInv'
<1>1. UNCHANGED <<head, authority, comments, nextId, published, reports>> BY DEF Lapse, Clear
<1>2. /\ durable \in Markers /\ published \in 0..MaxReview /\ run[p].seen \in Markers
  BY TypeParts DEF LeaseInv, RunType
<1>3. Restarts(p) BY EndRestarts, TryRestarts, UnsuccessfulRestarts DEF Lapse, Clear, LeaseInv
<1>4. durable' \in Markers
  <2>1. CASE UNCHANGED durable BY <1>2, <2>1
  <2>2. CASE durable' = [review |-> run[p].seen.review, lease |-> None]
    BY <1>2, <2>2 DEF Markers
  <2>3. CASE run[p].seen.lease # None /\ durable' = [run[p].seen EXCEPT !.lease.fresh = FALSE]
    <3>1. run[p].seen.lease \in LeasesAt({InPlaceId}, {"in place"}) BY <1>2, <2>3 DEF Markers
    <3>2. [run[p].seen.lease EXCEPT !.fresh = FALSE] \in LeasesAt({InPlaceId}, {"in place"})
      BY <3>1 DEF LeasesAt
    <3> QED BY <1>2, <2>3, <3>2 DEF Markers
  <2> QED BY <2>1, <2>2, <2>3 DEF Lapse, Clear
<1> QED BY <1>1, <1>2, <1>3, <1>4, SameComments, WriteStep

LEMMA MutateStep ==
  ASSUME LeaseInv, NEW p \in Runners, Mutate(p)
  PROVE  LeaseInv'
<1>1. run[p].pc = "mutate" /\ UNCHANGED <<head, authority, comments, nextId, reports>>
  BY DEF Mutate
<1>2. /\ {"mutate", "guard"} \subseteq Confirmed /\ "drop" \notin Confirmed
      /\ {"guard", "drop"} \subseteq Phases \ {"idle", "cleanup", "fence", "mark"}
  BY DEF Phases, Ending, Confirmed
<1>3. Moves(p) /\ Follows(p)
  <2>1. PICK pc \in {"guard", "drop"} : Go(p, pc) BY DEF Mutate
  <2> QED BY <1>1, <1>2, <2>1, GoMoves DEF LeaseInv, Follows
<1>4. durable' \in Markers /\ published' \in 0..MaxReview
  <2>1. durable \in Markers /\ published \in 0..MaxReview BY TypeParts DEF LeaseInv
  <2>2. CASE UNCHANGED <<durable, published>> BY <2>1, <2>2
  <2>3. CASE /\ published < MaxReview
             /\ published' = published + 1
             /\ durable' = [review |-> published',
                            lease |-> IF run[p].id = InPlaceId THEN durable.lease ELSE None]
    <3>1. published' \in 0..MaxReview BY <2>1, <2>3, LimitsAssumption
    <3> QED BY <2>1, <2>3, <3>1 DEF Markers
  <2> QED BY <2>2, <2>3 DEF Mutate
<1> QED BY <1>1, <1>3, <1>4, SameComments, WriteStep

LEMMA DropStep ==
  ASSUME LeaseInv, NEW p \in Runners, Drop(p) \/ Release(p)
  PROVE  LeaseInv'
<1>1. UNCHANGED <<head, authority, nextId, durable, published, reports>> BY DEF Drop, Release
<1>2. durable \in Markers /\ published \in 0..MaxReview BY TypeParts DEF LeaseInv
<1>3. Restarts(p) \/ (Moves(p) /\ Follows(p))
  BY EndRestarts, TryRestarts, ReadsDurable DEF Drop, Release, LeaseInv
<1>4. Settled /\ CommentsOK'
  <2>1. comments' \subseteq comments /\ \A c \in comments : IsStatus(c) => c \in comments'
    BY DEF Drop, Release
  <2> QED BY <1>1, <2>1, FewerComments
<1> QED BY <1>1, <1>2, <1>3, <1>4, WriteStep

----------------------------------------------------------------------------
(* The environment.                                                        *)

LEMMA EnvironmentStep ==
  ASSUME LeaseInv, Settled, CommentsOK', UNCHANGED <<published, reports, run>>,
         authority' \in Reviewers \cup {None}, durable' \in Markers
  PROVE  LeaseInv'
<1>1. TypeOK' BY TypeParts, TypeStep DEF LeaseInv, Settled
<1>2. \A p \in Runners : Follows(p) BY DEF Follows
<1>3. \A p \in Runners : RunInv(p)' BY <1>2, FollowsKeeps
<1> QED BY <1>1, <1>3, SettledPast DEF LeaseInv

LEMMA AcknowledgeStep ==
  ASSUME LeaseInv, Acknowledge
  PROVE  LeaseInv'
<1> DEFINE new == StatusOnly(nextId, "command")
<1>1. /\ comments' = comments \cup {new} /\ nextId' = nextId + 1 /\ nextId <= MaxId
      /\ UNCHANGED <<head, authority, durable, published, reports, run>>
  BY DEF Acknowledge
<1>2. head \in 1..MaxHead /\ nextId \in 1..MaxId
  BY <1>1, TypeParts, LimitsAssumption DEF LeaseInv, CommentsOK
<1>3. new \in Leases /\ new.id = nextId /\ new.fresh = FALSE /\ new.sha = 0
  BY <1>2, LimitsAssumption DEF StatusOnly, Leases, LeasesAt
<1> HIDE DEF new
<1>4. /\ CommentsOK' /\ PastKnown' /\ ReportsAreFirst'
      /\ \A q \in Runners : run'[q] = run[q] => RunInv(q)'
  BY <1>1, <1>2, <1>3, AddedComment
<1>5. TypeOK' BY <1>1, <1>4, TypeParts, TypeStep DEF LeaseInv
<1> QED BY <1>1, <1>4, <1>5 DEF LeaseInv

LEMMA WriteStatusStep ==
  ASSUME LeaseInv, WriteStatus
  PROVE  LeaseInv'
<1>1. UNCHANGED <<head, authority, nextId, durable, published, reports, run>>
  BY DEF WriteStatus
<1>2. PICK c \in comments, kind \in {"command", "answered"} :
         IsStatus(c) /\ comments' = (comments \ {c}) \cup {StatusOnly(c.id, kind)}
  BY DEF WriteStatus
<1> DEFINE new == StatusOnly(c.id, kind)
<1>3. head \in 1..MaxHead /\ c.id \in 1..MaxId
  BY TypeParts DEF LeaseInv, CommentsOK, Leases, LeasesAt
<1>4. /\ new \in Leases /\ new.id = c.id /\ new.fresh = FALSE /\ new.sha = 0 /\ IsStatus(new)
  BY <1>3, LimitsAssumption DEF StatusOnly, Leases, LeasesAt, IsStatus
<1>5. SameComment(c, new) BY <1>2, <1>4 DEF SameComment
<1> HIDE DEF new
<1>6. Settled /\ CommentsOK'
  <2>1. comments' = (comments \ {c}) \cup {new} BY <1>2 DEF new
  <2> QED BY <1>1, <1>3, <1>4, <1>5, <2>1, OneWritten
<1> QED BY <1>1, <1>6, EnvironmentStep, TypeParts DEF LeaseInv

\* A lease that expires keeps its place; it only leaves the election.
LEMMA ExpireStep ==
  ASSUME LeaseInv, Expire
  PROVE  LeaseInv'
<1>1. UNCHANGED <<head, authority, nextId, published, reports, run>> BY DEF Expire
<1>2. CASE \E c \in comments : comments' = (comments \ {c}) \cup {Expired(c)} /\ UNCHANGED durable
  BY <1>1, <1>2, ExpiredComment, EnvironmentStep, TypeParts DEF LeaseInv
<1>3. CASE /\ durable.lease # None /\ durable' = [durable EXCEPT !.lease.fresh = FALSE]
           /\ UNCHANGED comments
  <2>1. durable \in Markers BY TypeParts DEF LeaseInv
  <2>2. durable.lease \in LeasesAt({InPlaceId}, {"in place"}) BY <1>3, <2>1 DEF Markers
  <2>3. [durable.lease EXCEPT !.fresh = FALSE] \in LeasesAt({InPlaceId}, {"in place"})
    BY <2>2 DEF LeasesAt
  <2>4. durable' \in Markers BY <1>3, <2>1, <2>3 DEF Markers
  <2> QED BY <1>1, <1>3, <2>4, SameComments, EnvironmentStep, TypeParts DEF LeaseInv
<1> QED BY <1>2, <1>3 DEF Expire

LEMMA PushStep ==
  ASSUME LeaseInv, Push
  PROVE  LeaseInv'
<1>1. head \in 1..MaxHead /\ head' \in 1..MaxHead /\ head' = head + 1
  BY TypeParts, LimitsAssumption DEF LeaseInv, Push
<1>2. UNCHANGED <<authority, comments, nextId, durable, published, reports, run>> BY DEF Push
<1>3. CommentsOK /\ CommentsOK' BY <1>2, TypeParts DEF LeaseInv, CommentsOK
<1>4. TypeOK' BY <1>1, <1>2, <1>3, TypeParts, TypeStep DEF LeaseInv
<1>5. /\ \A p \in Runners : run[p].sha \in Nat /\ \A s \in run[p].stale : s.sha \in Nat
      /\ \A c \in comments : c.sha \in Nat
  <2>1. \A c \in Leases : c.sha \in Nat BY LimitsAssumption DEF Leases, LeasesAt
  <2>2. \A p \in Runners : run[p].stale \subseteq Leases /\ run[p].sha \in 0..MaxHead
    BY TypeParts DEF LeaseInv, RunType
  <2> QED BY <1>3, <2>1, <2>2, LimitsAssumption DEF CommentsOK
<1>6. PastKnown' BY <1>1, <1>2, <1>5 DEF LeaseInv, PastKnown
<1>7. ReportsAreFirst' BY <1>2 DEF LeaseInv, ReportsAreFirst, FirstLease
<1>8. ASSUME NEW p \in Runners PROVE RunInv(p)'
  <2>1. RunKnown(p)' BY <1>1, <1>2, <1>5 DEF LeaseInv, RunInv, RunKnown, Owner
  <2>2. StaleOld(p)' BY <1>1, <1>2, <1>5 DEF LeaseInv, RunInv, StaleOld
  <2>3. HoldsFirst(p)' BY <1>2 DEF LeaseInv, RunInv, HoldsFirst, Holds, Mine, FirstLease
  <2> QED BY <2>1, <2>2, <2>3 DEF RunInv
<1> QED BY <1>4, <1>6, <1>7, <1>8 DEF LeaseInv

----------------------------------------------------------------------------

LEMMA InitLeaseInv == Init => LeaseInv
<1> SUFFICES ASSUME Init PROVE LeaseInv OBVIOUS
<1>1. TypeOK
  <2>1. run \in [Runners -> RunType] /\ durable \in Markers BY NoRunType DEF Init
  <2>2. /\ head \in 1..MaxHead /\ nextId \in 1..(MaxId + 1) /\ published \in 0..MaxReview
    BY LimitsAssumption DEF Init
  <2> QED BY <2>1, <2>2, TypeParts DEF Init, CommentsOK
<1>2. PastKnown /\ ReportsAreFirst BY DEF Init, PastKnown, ReportsAreFirst
<1>3. ASSUME NEW p \in Runners PROVE RunInv(p)
  BY DEF Init, NoRun, RunInv, RunKnown, StaleOld, HoldsFirst
<1> QED BY <1>1, <1>2, <1>3 DEF LeaseInv

LEMMA NextLeaseInv == LeaseInv /\ [Next]_vars => LeaseInv'
<1> SUFFICES ASSUME LeaseInv, [Next]_vars PROVE LeaseInv' OBVIOUS
<1>1. ASSUME NEW p \in Runners, Crash(p) PROVE LeaseInv'
  BY <1>1, RestartOnly DEF Crash, OnlyRun
<1>2. ASSUME NEW p \in Runners, Advance(p) PROVE LeaseInv'
  BY <1>2, BeginStep, MarkStep, ListStep, PostStep, QuietReadStep, QuietPatchStep, ConfirmStep,
     ConfirmAuthorityStep, CleanUpStep, ReadStep, ReviewStep, HandOverStep, LapseStep, MutateStep,
     DropStep DEF Advance
<1>3. CASE LoseAuthority
  BY <1>3, SameComments, EnvironmentStep, TypeParts DEF LeaseInv, LoseAuthority
<1>4. CASE Finished \/ UNCHANGED vars
  BY <1>4, SameComments, EnvironmentStep, TypeParts DEF Finished, vars, LeaseInv
<1> QED BY <1>1, <1>2, <1>3, <1>4, AcknowledgeStep, WriteStatusStep, ExpireStep, PushStep DEF Next

LEMMA SpecLeaseInv == Spec => []LeaseInv
BY InitLeaseInv, NextLeaseInv, PTL DEF Spec

\* The variables keep their types through every call, crash and retry; ids of
\* comments stay unique and below the next id, and a live lease has an owner.
THEOREM SpecTypeOK == Spec => []TypeOK
BY SpecLeaseInv, PTL DEF LeaseInv

\* Whatever number of runners list, post, confirm, adopt, hand over, clean up,
\* crash and come back, and whatever commands write into their status comments:
\* two runners that hold live posted leases of the same head hold the same one,
\* under its report (the election of postReviewStartStatusComment excludes).
THEOREM SpecOneDedicatedHolder == Spec => []OneDedicatedHolder
<1>1. LeaseInv => OneDedicatedHolder
  <2> SUFFICES ASSUME LeaseInv, NEW p \in Runners, NEW q \in Runners,
                      NEW c \in comments, NEW e \in comments,
                      Holds(p, c), Holds(q, e), c.fresh, e.fresh, c.sha = e.sha,
                      ~IsStatus(c), ~IsStatus(e)
               PROVE  p = q \/ (c = e /\ Report(c) \in reports)
    BY DEF OneDedicatedHolder
  <2>1. c.id <= e.id /\ e.id <= c.id BY DEF LeaseInv, RunInv, HoldsFirst, FirstLease
  <2>2. CommentsOK BY TypeParts DEF LeaseInv
  <2>3. c.id \in Nat /\ e.id \in Nat
    BY <2>2, LimitsAssumption DEF CommentsOK, Leases, LeasesAt
  <2>4. c = e /\ c.owner # None BY <2>1, <2>2, <2>3 DEF CommentsOK
  <2>5. /\ Report(run[p]) = Report(c) /\ Report(run[q]) = Report(c)
        /\ run[p].owner = c.owner /\ run[q].owner = c.owner
    BY <2>4 DEF Holds, Mine, Report
  <2>6. CASE c.owner = Owner(p) /\ c.owner = Owner(q) BY <2>6 DEF Owner
  <2>7. CASE c.owner # Owner(p) \/ c.owner # Owner(q)
    BY <2>4, <2>5, <2>7 DEF LeaseInv, RunInv, RunKnown
  <2> QED BY <2>6, <2>7
<1> QED BY <1>1, SpecLeaseInv, PTL

\* A step that deletes comments, seen from one comment.
Spared(c) ==
  IsStatus(c) \/ (c.fresh /\ c.sha = head) =>
    \/ \E e \in comments' : e.id = c.id
    \/ \E p \in Runners : /\ run[p].pc \in {"drop", "release"} /\ ~IsStatus(c)
                          /\ c.owner = Owner(p) \/ (Mine(p, c) /\ Report(c) \in reports)

LEMMA NextSpares ==
  ASSUME LeaseInv, [Next]_vars, NEW c \in comments
  PROVE  Spared(c)
<1>1. CASE \E e \in comments' : e.id = c.id BY <1>1 DEF Spared
<1>2. ASSUME NEW d \in comments, NEW new, new.id = d.id, comments' = (comments \ {d}) \cup {new}
      PROVE  Spared(c)
  BY <1>1, <1>2
<1>3. \A d \in comments : Expired(d).id = d.id
  BY TypeParts DEF LeaseInv, CommentsOK, Expired, Leases, LeasesAt
<1>4. ASSUME NEW p \in Runners, List(p) PROVE Spared(c)
  BY <1>4 DEF List, Spared
<1>5. ASSUME NEW p \in Runners, Mark(p) PROVE Spared(c)
  <2>1. CASE c.id = run[p].id
    <3>1. Lease(p, run[p].id, "command") \in comments' BY <1>5 DEF Mark
    <3>2. Lease(p, run[p].id, "command").id = run[p].id BY DEF Lease
    <3> QED BY <1>1, <2>1, <3>1, <3>2
  <2>2. CASE c.id # run[p].id BY <1>1, <1>5, <2>2 DEF Mark, WithId
  <2> QED BY <2>1, <2>2
<1>6. ASSUME NEW p \in Runners, CleanUp(p) PROVE Spared(c)
  <2> SUFFICES ASSUME IsStatus(c) \/ c.sha = head PROVE c \in comments' BY <1>1 DEF Spared
  <2>1. ASSUME NEW s \in run[p].stale PROVE c.id # s.id
    <3>1. c.id = s.id => c.sha = s.sha /\ ~IsStatus(c) BY DEF LeaseInv, RunInv, StaleOld
    <3>2. s.sha < run[p].sha /\ run[p].sha <= head
      BY <1>6 DEF CleanUp, LeaseInv, RunInv, RunKnown, StaleOld
    <3>3. s.sha \in Nat /\ run[p].sha \in Nat /\ head \in Nat
      <4>1. s \in Leases /\ run[p].sha \in 0..MaxHead /\ head \in 1..MaxHead
        BY TypeParts DEF LeaseInv, RunType
      <4> QED BY <4>1, LimitsAssumption DEF Leases, LeasesAt
    <3> QED BY <3>1, <3>2, <3>3
  <2> QED BY <1>6, <2>1 DEF CleanUp
<1>7. ASSUME NEW p \in Runners, HandOver(p) PROVE Spared(c)
  BY <1>1, <1>2, <1>3, <1>7 DEF HandOver, WithId
<1>8. ASSUME NEW p \in Runners, Drop(p) PROVE Spared(c)
  <2> SUFFICES ASSUME c.fresh, ~IsStatus(c), Mine(p, c), run[p].pc = "drop"
               PROVE  c.owner = Owner(p) \/ Report(c) \in reports
    BY <1>8 DEF Drop, Spared
  <2>1. c.owner # None BY TypeParts DEF LeaseInv, CommentsOK
  <2>2. Report(c) = Report(run[p]) BY DEF Mine, Report
  <2> QED BY <2>1, <2>2 DEF Mine, LeaseInv, RunInv, RunKnown
<1>9. CASE Expire BY <1>1, <1>2, <1>3, <1>9 DEF Expire
<1>10. CASE WriteStatus
  BY <1>2, <1>10 DEF WriteStatus, StatusOnly
<1>11. ASSUME NEW p \in Runners, Release(p) PROVE Spared(c)
  BY <1>11 DEF Release, Spared
<1>12. ASSUME comments \subseteq comments' PROVE Spared(c) BY <1>1, <1>12
<1>13. ASSUME NEW p \in Runners, Advance(p) PROVE Spared(c)
  BY <1>4, <1>5, <1>6, <1>7, <1>8, <1>11, <1>12, <1>13 DEF Advance, Begin, Fence, AssertAuthority, Post,
     QuietRead, QuietPatch, Confirm, ConfirmAuthority, ReadContext, ClaimSupplied, Review, Lapse,
     Refresh, Guard, Mutate, Clear
<1>14. CASE UNCHANGED vars BY <1>12, <1>14 DEF vars
<1> QED BY <1>9, <1>10, <1>12, <1>13, <1>14
  DEF Next, Crash, Acknowledge, Push, LoseAuthority, Finished, vars

\* No deletion, however old the list it works from, takes the status comment of
\* a command, or a live lease of the current head from a runner that neither owns
\* it nor publishes its report.
THEOREM SpecCleanupSparesCurrentHead == Spec => CleanupSparesCurrentHead
<1>1. LeaseInv /\ [Next]_vars =>
        [\A c \in comments :
           IsStatus(c) \/ (c.fresh /\ c.sha = head) =>
             \/ \E e \in comments' : e.id = c.id
             \/ \E p \in Runners :
                  /\ run[p].pc \in {"drop", "release"} /\ ~IsStatus(c)
                  /\ c.owner = Owner(p) \/ (Mine(p, c) /\ Report(c) \in reports)]_vars
  BY NextSpares DEF Spared
<1> QED BY <1>1, SpecLeaseInv, PTL DEF Spec, CleanupSparesCurrentHead
=============================================================================

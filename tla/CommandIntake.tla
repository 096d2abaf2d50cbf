--------------------------- MODULE CommandIntake ---------------------------
(***************************************************************************)
(* The intake of re-review commands (ExactReviewCommandIntakeStore,        *)
(* dashboard/exact-review-command-intake.ts) and the part of the queue's   *)
(* alarm that works it off (processCommandIntakes, verifyCommandIntake):   *)
(* the versions of ONE source comment.                                     *)
(*                                                                         *)
(* A version is (updated_at, body): GitHub's timestamps count seconds, so  *)
(* an edit may keep the timestamp.  Deliveries of every version the        *)
(* comment ever had repeat and arrive in any order, also between the       *)
(* awaits of the alarm.  One alarm runs at a time, on the records it read  *)
(* at its start; a restart loses it and keeps the tables.                  *)
(*                                                                         *)
(* The timestamps of records and receipts are abstracted: a deferred record*)
(* becomes due (Elapse), a terminal receipt outlives its retention between *)
(* two alarms (PruneTerminalReceipts).                                     *)
(***************************************************************************)
EXTENDS Integers, FiniteSets

CONSTANTS
  Bodies,        \* bodies of the comment that are commands
  MaxTime,       \* bound: seconds in which the comment is edited
  MaxEdits,      \* bound: edits of the comment
  MaxSource,     \* bound: source revisions of the pull request
  MaxFaults,     \* bound: failed requests, unreadable targets and restarts
  AttemptLimit   \* EXACT_REVIEW_COMMAND_TARGET_ADMISSION_ATTEMPT_LIMIT

ASSUME IntakeBoundsAssumption ==
  /\ MaxTime \in Nat \ {0} /\ MaxEdits \in Nat /\ MaxSource \in Nat \ {0}
  /\ MaxFaults \in Nat /\ AttemptLimit \in Nat \ {0}
ASSUME BodiesAssumption == Bodies # {} /\ "plain" \notin Bodies

VARIABLES
  live,      \* the comment now; at = 0: deleted
  past,      \* command versions that the comment has had
  source,    \* source revision of the pull request
  target,    \* the pull request is open, closed or no longer public
  intake,    \* exact_review_command_intakes (stage = "none": no row)
  receipt,   \* exact_review_command_receipts: outcome and kind of detail
  mark,      \* exact_review_command_watermarks (at = 0: no row)
  todo,      \* records of this alarm that are still to be worked off
  cur,       \* the record the alarm works on
  pc,        \* what the alarm waits for; "idle": nothing
  faults,    \* bound: faults so far
  verified,  \* history: versions that markVerified accepted
  answered   \* history: versions that were completed or refused

comment == <<live, past, source, target>>
alarm == <<todo, cur, pc>>
history == <<verified, answered>>
vars == <<comment, intake, receipt, mark, alarm, faults, history>>

Versions == [at : 1..MaxTime, body : Bodies]
NoIntake == [stage |-> "none", attempts |-> 0, src |-> 0, due |-> FALSE]
NewIntake == [stage |-> "verify", attempts |-> 0, src |-> 0, due |-> TRUE]
Gone == [at |-> 0, body |-> "plain"]
NoMark == Gone
RecordOf(v) == [ver |-> v, stage |-> intake[v].stage, src |-> intake[v].src,
                attempts |-> intake[v].attempts]
NoRecord == [ver |-> Gone, stage |-> "none", src |-> 0, attempts |-> 0]

----------------------------------------------------------------------------
(* The comment and its pull request (external).                            *)

\* An edit makes a version the comment did not have before.
Edit ==
  /\ live.at > 0 /\ Cardinality(past) < MaxEdits + 1
  /\ \E t \in {live.at, live.at + 1}, b \in Bodies \cup {"plain"} :
       /\ t <= MaxTime /\ [at |-> t, body |-> b] \notin past /\ b # live.body
       /\ live' = [at |-> t, body |-> b]
       /\ past' = IF b \in Bodies THEN past \cup {live'} ELSE past
  /\ UNCHANGED <<source, target, intake, receipt, mark, alarm, faults, history>>

DeleteComment ==
  /\ live.at > 0
  /\ live' = Gone
  /\ UNCHANGED <<past, source, target, intake, receipt, mark, alarm, faults, history>>

Push ==
  /\ source < MaxSource
  /\ source' = source + 1
  /\ UNCHANGED <<live, past, target, intake, receipt, mark, alarm, faults, history>>

CloseTarget ==
  /\ target = "open"
  /\ target' \in {"closed", "private"}
  /\ UNCHANGED <<live, past, source, intake, receipt, mark, alarm, faults, history>>

----------------------------------------------------------------------------
(* The store's transactions.                                               *)

\* Receipts that end because of a version W of the comment.
Superseded(W) == [v \in Versions |-> IF v \in W /\ receipt[v] = "pending"
                                     THEN "superseded" ELSE receipt[v]]
Mut_KeepRows(W) == intake

Deleted(W) == [v \in Versions |-> IF v \in W THEN NoIntake ELSE intake[v]]

\* Versions that admitting v ends: all of them when v is strictly newer.
Mut_AlsoSiblings(v) == IF mark.at > 0 /\ mark.at <= v.at THEN Versions ELSE {}

EndedBy(v) == IF mark.at > 0 /\ mark.at < v.at THEN Versions ELSE {}

\* A delivery that its receipt answers, or for a target that is not public.
DeliverAnswered(v) == (target = "private" \/ receipt[v] # "none") /\ UNCHANGED vars

\* admit: the delivery of a version v without a receipt.  An older version, or
\* the watermark's own version once its receipt is pruned, is rejected; a
\* version of the same second waits beside its siblings.
Deliver(v) ==
  /\ target # "private"
  /\ receipt[v] = "none"
  /\ \/ /\ mark.at > v.at \/ mark = v
        /\ receipt' = [receipt EXCEPT ![v] = "stale"]
        /\ UNCHANGED <<intake, mark>>
     \/ /\ mark.at <= v.at /\ mark # v
        /\ receipt' = [Superseded(EndedBy(v)) EXCEPT ![v] = "pending"]
        /\ intake' = [Deleted(EndedBy(v)) EXCEPT ![v] = NewIntake]
        /\ mark' = IF mark.at < v.at THEN v ELSE mark
  /\ UNCHANGED <<comment, alarm, faults, history>>

IsCurrent(r) == mark.at = r.ver.at /\ (r.stage = "verify" \/ mark = r.ver)

\* finish: the receipt takes the outcome, whatever it was, and the row goes.
FinishAs(v, outcome) ==
  /\ receipt' = [receipt EXCEPT ![v] = outcome]
  /\ intake' = [intake EXCEPT ![v] = NoIntake]
  /\ answered' = IF outcome \in {"completed", "refused"} THEN answered \cup {v} ELSE answered

\* attempts is only compared with the limit and kept up to it.
Tried(n, more) == IF n + more < AttemptLimit THEN n + more ELSE AttemptLimit

\* defer: the stored row, if there still is one, waits for its next attempt.
Deferred(v, n) ==
  IF intake[v].stage = "none" THEN intake
  ELSE [intake EXCEPT ![v].attempts = Tried(@, n), ![v].due = FALSE]

Mut_RetryOnlyEnqueue(v) == Deferred(v, 1)

\* retryVerification: back to the first stage, without the old decision.
RetryVerification(v) ==
  IF intake[v].stage = "none" THEN intake
  ELSE [intake EXCEPT ![v].stage = "verify", ![v].src = 0,
                      ![v].attempts = Tried(@, 1), ![v].due = FALSE]

\* advance: only a row that is still there moves on.
Advanced(is, r) ==
  IF is[r.ver].stage = "none" THEN is
  ELSE [is EXCEPT ![r.ver] = [stage |-> r.stage, attempts |-> 0, src |-> r.src, due |-> TRUE]]

----------------------------------------------------------------------------
(* processCommandIntakes, one step per await.                              *)

Fault == faults < MaxFaults /\ faults' = faults + 1
NoFault == UNCHANGED faults

Leave == pc' = "idle" /\ cur' = NoRecord /\ UNCHANGED todo
WaitAt(p, r) == pc' = p /\ cur' = r /\ UNCHANGED todo

Finish(outcome) ==
  /\ FinishAs(cur.ver, outcome) /\ Leave /\ NoFault
  /\ UNCHANGED <<comment, mark, verified>>

Defer(n) ==
  /\ intake' = Deferred(cur.ver, n) /\ Leave /\ Fault
  /\ UNCHANGED <<comment, receipt, mark, history>>

Due == {v \in Versions : intake[v].stage # "none" /\ intake[v].due}

BeginAlarm ==
  /\ pc = "idle" /\ todo = {} /\ Due # {}
  /\ todo' = {RecordOf(v) : v \in Due}
  /\ UNCHANGED <<comment, intake, receipt, mark, cur, pc, faults, history>>

\* The first isCurrent check, before the target's visibility is read.
TakeRecord ==
  /\ pc = "idle"
  /\ \E r \in todo :
       /\ todo' = todo \ {r}
       /\ \/ /\ IsCurrent(r)
             /\ cur' = r /\ pc' = "visibility"
             /\ UNCHANGED <<intake, receipt, answered>>
          \/ /\ ~IsCurrent(r)
             /\ FinishAs(r.ver, "superseded")
             /\ UNCHANGED <<cur, pc>>
  /\ UNCHANGED <<comment, mark, faults, verified>>

\* hostedTargetAdmission has answered.
ReadVisibility ==
  /\ pc = "visibility"
  /\ \/ ~IsCurrent(cur) /\ Finish("superseded")
     \/ IsCurrent(cur) /\ target = "private" /\ Finish("refused")
     \/ /\ IsCurrent(cur) /\ target # "private"
        /\ WaitAt(cur.stage, cur) /\ NoFault
        /\ UNCHANGED <<comment, intake, receipt, mark, history>>

\* The visibility cannot be verified; the attempts for that are limited.
VisibilityUnverified ==
  /\ pc = "visibility" /\ IsCurrent(cur)
  /\ \/ /\ cur.attempts + 1 >= AttemptLimit
        /\ Fault /\ FinishAs(cur.ver, "refused") /\ Leave
        /\ UNCHANGED <<comment, mark, verified>>
     \/ cur.attempts + 1 < AttemptLimit /\ Defer(1)

\* The credential circuit of the target's app is open.
CircuitOpen == pc = "visibility" /\ IsCurrent(cur) /\ target # "private" /\ Defer(0)

\* verifyCommandIntake: the source comment.
ReadComment ==
  /\ pc = "verify"
  /\ \/ live # cur.ver /\ live.at >= cur.ver.at /\ Finish("stale")
     \/ live = Gone /\ Finish("stale")
     \/ /\ live = cur.ver
        /\ WaitAt("item", cur) /\ NoFault
        /\ UNCHANGED <<comment, intake, receipt, mark, history>>

\* verifyCommandIntake: the pull request.  A command that names a head is
\* refused when the head has moved on.
ReadItem ==
  /\ pc = "item"
  /\ \/ (target # "open" \/ source > 1) /\ Finish("refused")
     \/ /\ target = "open"
        /\ WaitAt("mark", [cur EXCEPT !.src = source]) /\ NoFault
        /\ UNCHANGED <<comment, intake, receipt, mark, history>>

\* markVerified: the verified version ends its siblings.
MarkVerified ==
  /\ pc = "mark"
  /\ \/ mark.at > cur.ver.at /\ Finish("superseded")
     \/ LET others == Versions \ {cur.ver}
            next == [cur EXCEPT !.stage = "enqueue"]
        IN /\ mark.at <= cur.ver.at
           /\ mark' = IF mark.at = cur.ver.at THEN cur.ver ELSE mark
           /\ receipt' = Superseded(others)
           /\ intake' = Advanced(Deleted(others), next)
           /\ WaitAt("enqueue", next) /\ NoFault
           /\ verified' = verified \cup {cur.ver}
           /\ UNCHANGED <<comment, answered>>

\* The queue answers the enqueue: it took the command (or had it), it knows a
\* newer source than the decision names, or it refuses the closed target.
Enqueue ==
  /\ pc = "enqueue"
  /\ \/ /\ WaitAt("queued", [cur EXCEPT !.stage = "effects"]) /\ NoFault
        /\ UNCHANGED <<comment, intake, receipt, mark, history>>
     \/ /\ cur.src < source
        /\ intake' = RetryVerification(cur.ver) /\ Leave /\ NoFault
        /\ UNCHANGED <<comment, receipt, mark, history>>
     \/ target # "open" /\ Finish("refused")

\* The answer is stored, and the effects begin unless a newer version came.
StartEffects ==
  /\ pc = "queued"
  /\ \/ /\ ~IsCurrent(cur)
        /\ Finish("superseded")
     \/ /\ IsCurrent(cur)
        /\ intake' = Advanced(intake, cur)
        /\ WaitAt("effects", cur) /\ NoFault
        /\ UNCHANGED <<comment, receipt, mark, history>>

\* convergeCommandAcknowledgement and addCommandReaction have both ended.
Effects == pc = "effects" /\ Finish("completed")

\* A request of the try block fails: GitHub, the queue, or a comment that is
\* read in a version older than the one admitted.
RequestFails == pc \in {"verify", "item", "enqueue", "effects"} /\ Defer(1)

Restart ==
  /\ pc # "idle" \/ todo # {}
  /\ pc' = "idle" /\ todo' = {} /\ cur' = NoRecord /\ Fault
  /\ UNCHANGED <<comment, intake, receipt, mark, history>>

----------------------------------------------------------------------------

Elapse(v) ==
  /\ intake[v].stage # "none" /\ ~intake[v].due
  /\ intake' = [intake EXCEPT ![v].due = TRUE]
  /\ UNCHANGED <<comment, receipt, mark, alarm, faults, history>>

PruneTerminalReceipts(v) ==
  /\ pc = "idle" /\ todo = {} /\ receipt[v] \notin {"none", "pending"}
  /\ receipt' = [receipt EXCEPT ![v] = "none"]
  /\ UNCHANGED <<comment, intake, mark, alarm, faults, history>>

Init ==
  /\ live = [at |-> 1, body |-> CHOOSE b \in Bodies : TRUE] /\ past = {live}
  /\ source = 1 /\ target = "open"
  /\ intake = [v \in Versions |-> NoIntake]
  /\ receipt = [v \in Versions |-> "none"]
  /\ mark = NoMark
  /\ todo = {} /\ cur = NoRecord /\ pc = "idle"
  /\ faults = 0 /\ verified = {} /\ answered = {}

AlarmStep ==
  \/ BeginAlarm \/ TakeRecord
  \/ ReadVisibility \/ VisibilityUnverified \/ CircuitOpen
  \/ ReadComment \/ ReadItem \/ MarkVerified \/ Enqueue \/ StartEffects \/ Effects
  \/ RequestFails

Next ==
  \/ Edit \/ DeleteComment \/ Push \/ CloseTarget
  \/ \E v \in past : Deliver(v) \/ DeliverAnswered(v)
  \/ AlarmStep \/ Restart
  \/ \E v \in Versions : Elapse(v) \/ PruneTerminalReceipts(v)

Spec == Init /\ [][Next]_vars

\* The runtime retries alarms, the queue sets the next one to the earliest
\* record, and every request is answered or times out.
FairSpec == Spec /\ WF_vars(AlarmStep) /\ \A v \in Versions : WF_vars(Elapse(v))

----------------------------------------------------------------------------
(* Properties                                                              *)

Stages == {"verify", "enqueue", "effects"}
Outcomes == {"completed", "superseded", "stale", "refused"}

\* Types; and over every path (admit, markVerified, finish of a record that was
\* read before another delivery replaced it) a receipt is pending exactly while
\* a row of the intake will still lead to its end.
TypeOK ==
  /\ intake \in [Versions -> [stage : Stages \cup {"none"}, attempts : 0..AttemptLimit,
                              src : 0..MaxSource, due : BOOLEAN]]
  /\ receipt \in [Versions -> {"none", "pending"} \cup Outcomes]
  /\ mark \in Versions \cup {NoMark}
  /\ pc \in {"idle", "visibility", "item", "mark", "queued"} \cup Stages
  /\ faults \in 0..MaxFaults
  /\ \A v \in Versions : receipt[v] = "pending" <=> intake[v].stage # "none"

\* The version that the comment shows is never dropped as outdated: whatever
\* older, newer-looking or repeated deliveries came before or after it, its
\* receipt ends as superseded or stale only when a version of the same second
\* was verified, or after the command had its answer before.
LiveVersionNotDropped ==
  live \in Versions /\ receipt[live] \in {"superseded", "stale"} =>
    \/ live \in answered
    \/ \E w \in verified : w.at = live.at /\ w # live

\* Every accepted command ends: it is completed, refused or replaced, through
\* failures, restarts, pushes and edits.
AcceptedIsAnswered == \A v \in Versions : receipt[v] = "pending" ~> receipt[v] # "pending"
============================================================================

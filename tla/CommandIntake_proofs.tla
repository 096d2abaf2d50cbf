------------------------ MODULE CommandIntake_proofs ------------------------
(***************************************************************************)
(* Proofs about the intake of re-review commands, for every number of      *)
(* bodies, edits, pushes and faults.                                       *)
(*                                                                         *)
(* That the version the comment shows is not dropped rests on the order of *)
(* timestamps: the watermark is a version the comment had, never a later   *)
(* one, and nothing that has a receipt is after the watermark.  The        *)
(* watermark leaves a verified version only for a verified sibling or for  *)
(* a later second.  A record that the alarm works on keeps its receipt.    *)
(***************************************************************************)
EXTENDS CommandIntake, TLAPS

RowType == [stage : Stages \cup {"none"}, attempts : 0..AttemptLimit,
            src : 0..MaxSource, due : BOOLEAN]
ReceiptType == {"none", "pending"} \cup Outcomes
RecordType == [ver : Versions, stage : Stages, src : 0..MaxSource, attempts : 0..AttemptLimit]
LiveType == [at : 0..MaxTime, body : Bodies \cup {"plain"}]

\* The comment's versions: none of them is later than the one it shows.
CommentOK ==
  /\ past \subseteq Versions /\ live \in LiveType /\ source \in 1..MaxSource
  /\ live.at > 0 => \A w \in past : w.at <= live.at

\* The watermark, and the versions that were verified.
MarkOK ==
  /\ mark \in past \cup {NoMark} /\ verified \subseteq Versions
  /\ \A v \in verified : v.at <= mark.at /\ (v.at = mark.at => mark \in verified)

ReceiptOK(v) ==
  /\ receipt[v] # "none" => v \in past /\ v.at <= mark.at
  /\ receipt[v] \in {"completed", "refused"} => v \in answered
  /\ intake[v].stage \in {"enqueue", "effects"} => v \in verified

\* A record that the alarm read.
RecordOK(r) ==
  /\ r \in RecordType /\ receipt[r.ver] # "none"
  /\ r.stage # "verify" => r.ver \in verified

AlarmOK ==
  /\ \A r \in todo : RecordOK(r)
  /\ pc # "idle" => RecordOK(cur)
  /\ pc \in Stages => cur.stage = pc
  /\ pc = "queued" => cur.stage = "effects"

\* Why a version may end without its own answer.
Excused(v) == v \in answered \/ \E w \in verified : w.at = v.at /\ w # v

\* The version that the comment shows; one whose receipt is pruned and that is
\* the watermark would be rejected when it comes again.
LiveOK ==
  /\ live \in Versions
  /\ receipt[live] \in {"superseded", "stale"} \/ (mark = live /\ receipt[live] = "none")
  => Excused(live)


\* A receipt is pending exactly while there is a row.
RowsOK ==
  /\ intake \in [Versions -> RowType] /\ receipt \in [Versions -> ReceiptType]
  /\ \A v \in Versions : receipt[v] = "pending" <=> intake[v].stage # "none"

PcType == {"idle", "visibility", "item", "mark", "queued"} \cup Stages

IntakeInv ==
  /\ TypeOK /\ CommentOK /\ MarkOK /\ AlarmOK /\ LiveOK
  /\ \A v \in Versions : ReceiptOK(v)

----------------------------------------------------------------------------
(* Constants and parts of the invariant                                    *)

LEMMA ConstantsLemma ==
  /\ NoIntake \in RowType /\ NoIntake.stage = "none"
  /\ NewIntake \in RowType /\ NewIntake.stage = "verify"
  /\ Gone \in LiveType /\ Gone.at = 0 /\ Gone \notin Versions
  /\ \A v \in Versions : v.at \in Nat /\ v.at > 0
  /\ 0 \in 0..AttemptLimit /\ 0 \in 0..MaxSource
<1>1. MaxTime \in Nat /\ AttemptLimit \in Nat /\ MaxSource \in Nat BY IntakeBoundsAssumption
<1>2. 0 \in 0..AttemptLimit /\ 0 \in 0..MaxSource /\ 0 \in 0..MaxTime BY <1>1
<1>3. TRUE \in BOOLEAN /\ FALSE \in BOOLEAN OBVIOUS
<1>4. NoIntake \in RowType /\ NewIntake \in RowType
  BY <1>2, <1>3 DEF NoIntake, NewIntake, RowType, Stages
<1>5. Gone \in LiveType BY <1>2 DEF Gone, LiveType
<1>6. \A v \in Versions : v.at \in Nat /\ v.at > 0 BY <1>1 DEF Versions
<1> QED BY <1>2, <1>4, <1>5, <1>6 DEF NoIntake, NewIntake, Gone

LEMMA InvParts ==
  ASSUME IntakeInv
  PROVE  /\ RowsOK /\ pc \in PcType /\ faults \in 0..MaxFaults
         /\ CommentOK /\ MarkOK /\ AlarmOK /\ LiveOK /\ \A v \in Versions : ReceiptOK(v)
BY DEF IntakeInv, TypeOK, RowsOK, RowType, ReceiptType, PcType

LEMMA InvFromParts ==
  ASSUME RowsOK', pc' \in PcType, faults' \in 0..MaxFaults, CommentOK', MarkOK', AlarmOK',
         LiveOK', \A v \in Versions : ReceiptOK(v)'
  PROVE  IntakeInv'
<1>1. mark' \in Versions \cup {NoMark} BY DEF MarkOK, CommentOK
<1> QED BY <1>1 DEF IntakeInv, TypeOK, RowsOK, RowType, ReceiptType, PcType

\* The watermark and timestamps of versions are numbers.
LEMMA Numbers ==
  ASSUME IntakeInv
  PROVE  /\ mark \in Versions \cup {NoMark} /\ mark.at \in Nat /\ live.at \in Nat
         /\ \A v \in Versions : v.at \in Nat /\ v.at > 0
         /\ \A v \in past : v \in Versions
         /\ live.at > 0 => mark.at <= live.at
<1>1. past \subseteq Versions /\ live \in LiveType /\ mark \in past \cup {NoMark}
  BY InvParts DEF CommentOK, MarkOK
<1>2. live.at \in Nat BY <1>1, IntakeBoundsAssumption DEF LiveType
<1>3. mark.at \in Nat BY <1>1, ConstantsLemma DEF NoMark
<1>4. live.at > 0 => mark.at <= live.at
  BY <1>1, <1>2, ConstantsLemma, InvParts DEF CommentOK, NoMark
<1> QED BY <1>1, <1>2, <1>3, <1>4, ConstantsLemma

\* The version that the comment shows is a version with a time.
LEMMA LiveVersion ==
  ASSUME IntakeInv, live \in Versions
  PROVE  mark.at <= live.at /\ mark.at \in Nat /\ live.at \in Nat
         /\ \A w \in past : w.at <= live.at
BY Numbers, InvParts DEF CommentOK

LEMMA InitInv == Init => IntakeInv
<1> SUFFICES ASSUME Init PROVE IntakeInv OBVIOUS
<1>1. 1 \in 1..MaxTime /\ 1 \in 0..MaxTime /\ 1 \in 1..MaxSource /\ 0 \in 0..MaxFaults
  BY IntakeBoundsAssumption
<1>2. (CHOOSE b \in Bodies : TRUE) \in Bodies BY BodiesAssumption
<1>3. live \in Versions /\ live \in LiveType /\ past = {live}
  BY <1>1, <1>2 DEF Init, Versions, LiveType
<1>4. live.at = 1 BY DEF Init
<1>5. RowsOK BY ConstantsLemma DEF Init, RowsOK, ReceiptType
<1>6. CommentOK BY <1>1, <1>3, <1>4 DEF Init, CommentOK
<1>7. MarkOK BY DEF Init, MarkOK
<1>8. AlarmOK BY DEF Init, AlarmOK, Stages
<1>9. LiveOK
  <2>1. mark # live BY <1>3, ConstantsLemma DEF Init, NoMark
  <2>2. receipt[live] = "none" BY <1>3 DEF Init
  <2> QED BY <2>1, <2>2 DEF LiveOK
<1>10. \A v \in Versions : ReceiptOK(v) BY ConstantsLemma DEF Init, ReceiptOK
<1>11. mark \in Versions \cup {NoMark} BY DEF Init
<1>12. pc \in PcType /\ faults \in 0..MaxFaults BY <1>1 DEF Init, PcType
<1> QED BY <1>5, <1>6, <1>7, <1>8, <1>9, <1>10, <1>11, <1>12
        DEF IntakeInv, TypeOK, RowsOK, RowType, ReceiptType, PcType

----------------------------------------------------------------------------
(* The comment and its pull request                                        *)

LEMMA FaultType == ASSUME IntakeInv, Fault \/ NoFault PROVE faults' \in 0..MaxFaults
BY InvParts, IntakeBoundsAssumption DEF Fault, NoFault

\* The store does not change.
LEMMA StoreKept ==
  ASSUME IntakeInv, UNCHANGED <<intake, receipt, mark, history>>, past \subseteq past'
  PROVE  /\ RowsOK' /\ MarkOK' /\ \A v \in Versions : ReceiptOK(v)'
         /\ \A r : RecordOK(r) => RecordOK(r)'
BY InvParts DEF RowsOK, MarkOK, ReceiptOK, RecordOK, history

LEMMA AlarmKept ==
  ASSUME IntakeInv, UNCHANGED alarm, \A r : RecordOK(r) => RecordOK(r)'
  PROVE  AlarmOK' /\ pc' \in PcType
<1>1. todo' = todo /\ cur' = cur /\ pc' = pc BY DEF alarm
<1>2. AlarmOK /\ pc \in PcType BY InvParts
<1>3. RecordOK(cur) => RecordOK(cur)'
  <2>1. RecordOK(cur)' <=> /\ cur \in RecordType /\ receipt'[cur.ver] # "none"
                           /\ cur.stage # "verify" => cur.ver \in verified'
    BY <1>1 DEF RecordOK
  <2> QED BY <2>1 DEF RecordOK
<1> QED BY <1>1, <1>2, <1>3 DEF AlarmOK

LEMMA EditKeeps == ASSUME IntakeInv, Edit PROVE IntakeInv'
<1>1. PICK n \in {live.at, live.at + 1}, b \in Bodies \cup {"plain"} :
         /\ live.at > 0 /\ n <= MaxTime /\ [at |-> n, body |-> b] \notin past
         /\ live' = [at |-> n, body |-> b]
         /\ past' = IF b \in Bodies THEN past \cup {live'} ELSE past
  BY DEF Edit
<1>2. UNCHANGED <<source, target, intake, receipt, mark, alarm, faults, history>> BY DEF Edit
<1>3. n \in Nat /\ n > 0 /\ n >= live.at /\ live.at \in Nat BY <1>1, Numbers
<1>4. n \in 0..MaxTime /\ n \in 1..MaxTime BY <1>1, <1>3, IntakeBoundsAssumption
<1>5. live' \in LiveType /\ live'.at = n /\ live'.body = b BY <1>1, <1>4 DEF LiveType
<1>6. b \in Bodies => live' \in Versions BY <1>1, <1>4 DEF Versions
<1>7. past' \subseteq Versions /\ past \subseteq past' BY <1>1, <1>6, InvParts DEF CommentOK
<1>8. \A w \in past' : w.at <= live'.at
  <2>1. \A w \in past : w.at \in Nat /\ w.at <= live.at
    BY <1>1, Numbers, InvParts DEF CommentOK
  <2>2. \A w \in past : w.at <= n BY <1>3, <2>1
  <2> QED BY <1>1, <1>3, <1>5, <2>2
<1>9. CommentOK' BY <1>2, <1>5, <1>7, <1>8, InvParts DEF CommentOK
<1>10. LiveOK'
  <2> SUFFICES ASSUME live' \in Versions
               PROVE  receipt'[live'] = "none" /\ mark' # live'
    BY DEF LiveOK
  <2>1. live' \notin past BY <1>1
  <2>2. mark \in past \cup {NoMark} /\ NoMark \notin Versions
    BY InvParts, ConstantsLemma DEF MarkOK, NoMark
  <2> QED BY <1>2, <2>1, <2>2, InvParts DEF ReceiptOK
<1> QED BY <1>2, <1>7, <1>9, <1>10, StoreKept, AlarmKept, InvParts, InvFromParts

LEMMA CommentKeeps == ASSUME IntakeInv, DeleteComment \/ Push \/ CloseTarget PROVE IntakeInv'
<1>1. UNCHANGED <<past, intake, receipt, mark, alarm, faults, history>>
  BY DEF DeleteComment, Push, CloseTarget
<1>2. live' = live \/ live' = Gone BY DEF DeleteComment, Push, CloseTarget
<1>3. source' \in 1..MaxSource
  BY InvParts, IntakeBoundsAssumption DEF DeleteComment, Push, CloseTarget, CommentOK
<1>4. CommentOK' BY <1>1, <1>2, <1>3, InvParts, ConstantsLemma DEF CommentOK
<1>5. LiveOK'
  <2> SUFFICES ASSUME live' \in Versions PROVE LiveOK' BY DEF LiveOK
  <2>1. live' = live BY <1>2, ConstantsLemma
  <2> QED BY <1>1, <2>1, InvParts DEF LiveOK, Excused, history
<1> QED BY <1>1, <1>4, <1>5, StoreKept, AlarmKept, InvParts, InvFromParts

----------------------------------------------------------------------------
(* The store's transactions                                                *)

\* Receipts are only added or ended, and no version is forgotten.
LEMMA RecordsKept ==
  ASSUME \A v \in Versions : receipt[v] # "none" => receipt'[v] # "none",
         verified \subseteq verified'
  PROVE  \A r : RecordOK(r) => RecordOK(r)'
BY DEF RecordOK, RecordType

LEMMA SupersededLemma ==
  ASSUME IntakeInv, NEW W \in SUBSET Versions
  PROVE  /\ Superseded(W) \in [Versions -> ReceiptType]
         /\ \A v \in Versions :
              /\ Superseded(W)[v] = "none" <=> receipt[v] = "none"
              /\ Superseded(W)[v] = "pending" <=> receipt[v] = "pending" /\ v \notin W
              /\ Superseded(W)[v] \in {"completed", "refused"} => Superseded(W)[v] = receipt[v]
              /\ Superseded(W)[v] # receipt[v] => v \in W /\ receipt[v] = "pending"
BY InvParts DEF RowsOK, ReceiptType, Outcomes, Superseded

LEMMA DeletedLemma ==
  ASSUME IntakeInv, NEW W \in SUBSET Versions
  PROVE  /\ Deleted(W) \in [Versions -> RowType]
         /\ \A v \in Versions : Deleted(W)[v] = IF v \in W THEN NoIntake ELSE intake[v]
BY InvParts, ConstantsLemma DEF RowsOK, Deleted

\* admit of a version that is accepted.  A version that is shown and pending is
\* not older than the watermark, so that no delivery ends it.
LEMMA AcceptKeeps ==
  ASSUME IntakeInv, NEW v \in past, receipt[v] = "none", mark.at <= v.at, mark # v,
         receipt' = [Superseded(EndedBy(v)) EXCEPT ![v] = "pending"],
         intake' = [Deleted(EndedBy(v)) EXCEPT ![v] = NewIntake],
         mark' = IF mark.at < v.at THEN v ELSE mark,
         UNCHANGED <<comment, alarm, faults, history>>
  PROVE  IntakeInv'
<1>1. v \in Versions /\ v.at \in Nat /\ mark.at \in Nat BY Numbers
<1>2. EndedBy(v) \in SUBSET Versions BY DEF EndedBy
<1> DEFINE R == Superseded(EndedBy(v))
           I == Deleted(EndedBy(v))
<1>3. /\ R \in [Versions -> ReceiptType] /\ I \in [Versions -> RowType]
      /\ \A u \in Versions :
           /\ R[u] = "none" <=> receipt[u] = "none"
           /\ R[u] = "pending" <=> receipt[u] = "pending" /\ u \notin EndedBy(v)
           /\ R[u] \in {"completed", "refused"} => R[u] = receipt[u]
           /\ R[u] # receipt[u] => u \in EndedBy(v) /\ receipt[u] = "pending"
           /\ I[u] = IF u \in EndedBy(v) THEN NoIntake ELSE intake[u]
  <2>1. R \in [Versions -> ReceiptType] /\ I \in [Versions -> RowType]
    BY <1>2, SupersededLemma, DeletedLemma
  <2>2. \A u \in Versions :
           /\ R[u] = "none" <=> receipt[u] = "none"
           /\ R[u] = "pending" <=> receipt[u] = "pending" /\ u \notin EndedBy(v)
           /\ R[u] \in {"completed", "refused"} => R[u] = receipt[u]
           /\ R[u] # receipt[u] => u \in EndedBy(v) /\ receipt[u] = "pending"
    BY <1>2, SupersededLemma
  <2>3. \A u \in Versions : I[u] = IF u \in EndedBy(v) THEN NoIntake ELSE intake[u]
    BY <1>2, DeletedLemma
  <2> QED BY <2>1, <2>2, <2>3
<1>4. receipt' = [R EXCEPT ![v] = "pending"] /\ intake' = [I EXCEPT ![v] = NewIntake] OBVIOUS
<1> HIDE DEF R, I
<1>5. RowsOK'
  <2>1. receipt' \in [Versions -> ReceiptType] /\ intake' \in [Versions -> RowType]
    BY <1>1, <1>3, <1>4, ConstantsLemma DEF ReceiptType
  <2>2. \A u \in Versions : receipt'[u] = "pending" <=> intake'[u].stage # "none"
    BY <1>1, <1>3, <1>4, ConstantsLemma, InvParts DEF RowsOK
  <2> QED BY <2>1, <2>2 DEF RowsOK
<1>6. mark' \in past /\ mark'.at \in Nat /\ mark'.at >= mark.at /\ mark'.at >= v.at
  <2>1. mark # NoMark => mark \in past BY InvParts DEF MarkOK
  <2>2. mark = NoMark => mark.at < v.at BY <1>1, ConstantsLemma DEF NoMark
  <2> QED BY <1>1, <2>1, <2>2
<1>7. past' = past /\ live' = live /\ source' = source /\ verified' = verified /\ answered' = answered
  BY DEF comment, history
<1>8. MarkOK'
  <2>1. ASSUME NEW w \in verified PROVE w.at <= mark'.at /\ (w.at = mark'.at => mark' \in verified)
    <3>1. w.at \in Nat /\ w.at <= mark.at /\ (w.at = mark.at => mark \in verified)
      BY Numbers, InvParts DEF MarkOK
    <3>2. CASE mark.at < v.at BY <1>1, <3>1, <3>2
    <3>3. CASE ~(mark.at < v.at) BY <3>1, <3>3
    <3> QED BY <3>2, <3>3
  <2> QED BY <1>6, <1>7, <2>1, InvParts DEF MarkOK
<1>9. \A u \in Versions : ReceiptOK(u)'
  <2> SUFFICES ASSUME NEW u \in Versions PROVE ReceiptOK(u)' OBVIOUS
  <2>1. receipt'[u] # "none" => u \in past /\ u.at <= mark'.at
    <3>1. CASE u = v BY <3>1, <1>6
    <3>2. CASE u # v
      <4>1. receipt'[u] # "none" => receipt[u] # "none" BY <1>1, <1>3, <1>4, <3>2
      <4>2. receipt[u] # "none" => u \in past /\ u.at <= mark.at BY InvParts DEF ReceiptOK
      <4> QED BY <4>1, <4>2, <1>1, <1>6, Numbers
    <3> QED BY <3>1, <3>2
  <2>2. receipt'[u] \in {"completed", "refused"} => u \in answered
    BY <1>1, <1>3, <1>4, InvParts DEF ReceiptOK
  <2>3. intake'[u].stage \in {"enqueue", "effects"} => u \in verified
    BY <1>1, <1>3, <1>4, ConstantsLemma, InvParts DEF ReceiptOK
  <2> QED BY <1>7, <2>1, <2>2, <2>3 DEF ReceiptOK
<1>10. LiveOK'
  <2> SUFFICES ASSUME live \in Versions, \/ receipt'[live] \in {"superseded", "stale"}
                                         \/ mark' = live /\ receipt'[live] = "none"
               PROVE  Excused(live)
    BY <1>7 DEF LiveOK, Excused
  <2>1. live # v BY <1>1, <1>3, <1>4
  <2>2. receipt'[live] = R[live] BY <1>1, <1>3, <1>4, <2>1
  <2>3. v.at <= live.at /\ live.at \in Nat BY LiveVersion
  <2>4. receipt[live] # "pending" \/ live \notin EndedBy(v)
    <3> SUFFICES ASSUME receipt[live] = "pending", mark.at < v.at PROVE FALSE
      BY DEF EndedBy
    <3>1. live.at <= mark.at BY InvParts DEF ReceiptOK
    <3> QED BY <1>1, <2>3, <3>1
  <2>5. receipt'[live] = receipt[live] BY <1>3, <2>2, <2>4
  <2>6. mark' = live => mark = live BY <2>1
  <2> QED BY <2>5, <2>6, InvParts DEF LiveOK
<1>11. \A r : RecordOK(r) => RecordOK(r)'
  <2>1. \A u \in Versions : receipt[u] # "none" => receipt'[u] # "none" BY <1>1, <1>3, <1>4
  <2> QED BY <1>7, <2>1, RecordsKept
<1>12. CommentOK' BY <1>7, InvParts DEF CommentOK
<1> QED BY <1>5, <1>8, <1>9, <1>10, <1>11, <1>12, AlarmKept, InvParts, InvFromParts

\* A receipt ends; the version that is shown ends so only with an excuse.
LEMMA ReceiptEnds ==
  ASSUME IntakeInv, NEW v \in Versions, NEW outcome \in Outcomes,
         receipt' = [receipt EXCEPT ![v] = outcome],
         intake' = [intake EXCEPT ![v] = NoIntake],
         answered' = IF outcome \in {"completed", "refused"} THEN answered \cup {v} ELSE answered,
         v \in past /\ v.at <= mark.at,
         v = live /\ outcome \in {"superseded", "stale"} => Excused(v),
         UNCHANGED <<comment, mark, verified>>
  PROVE  /\ RowsOK' /\ CommentOK' /\ MarkOK' /\ LiveOK'
         /\ \A u \in Versions : ReceiptOK(u)'
         /\ \A r : RecordOK(r) => RecordOK(r)'
<1>1. past' = past /\ live' = live /\ source' = source BY DEF comment
<1>2. outcome # "none" /\ outcome # "pending" BY DEF Outcomes
<1>3. RowsOK'
  <2>1. receipt' \in [Versions -> ReceiptType] /\ intake' \in [Versions -> RowType]
    BY InvParts, ConstantsLemma DEF RowsOK, ReceiptType
  <2>2. \A u \in Versions : receipt'[u] = "pending" <=> intake'[u].stage # "none"
    BY <1>2, InvParts, ConstantsLemma DEF RowsOK
  <2> QED BY <2>1, <2>2 DEF RowsOK
<1>4. CommentOK' /\ MarkOK' BY <1>1, InvParts DEF CommentOK, MarkOK
<1>5. \A u \in Versions :
        /\ receipt'[u] = IF u = v THEN outcome ELSE receipt[u]
        /\ intake'[u] = IF u = v THEN NoIntake ELSE intake[u]
  BY InvParts DEF RowsOK
<1>6. \A u \in Versions : ReceiptOK(u)'
  <2> SUFFICES ASSUME NEW u \in Versions PROVE ReceiptOK(u)' OBVIOUS
  <2>1. CASE u = v BY <1>1, <1>5, <2>1, ConstantsLemma DEF ReceiptOK
  <2>2. CASE u # v BY <1>1, <1>5, <2>2, InvParts DEF ReceiptOK
  <2> QED BY <2>1, <2>2
<1>7. LiveOK'
  <2> SUFFICES ASSUME live \in Versions, \/ receipt'[live] \in {"superseded", "stale"}
                                         \/ mark = live /\ receipt'[live] = "none"
               PROVE  Excused(live)'
    BY <1>1 DEF LiveOK
  <2>1. Excused(live) => Excused(live)' BY <1>1 DEF Excused
  <2>2. CASE live = v BY <1>2, <1>5, <2>1, <2>2
  <2>3. CASE live # v BY <1>5, <2>1, <2>3, InvParts DEF LiveOK
  <2> QED BY <2>2, <2>3
<1>8. \A r : RecordOK(r) => RecordOK(r)'
  <2>1. \A u \in Versions : receipt[u] # "none" => receipt'[u] # "none" BY <1>2, <1>5
  <2> QED BY <2>1, RecordsKept
<1> QED BY <1>3, <1>4, <1>6, <1>7, <1>8

\* admit of an outdated version, or of the watermark's own once its receipt is
\* pruned: the version that is shown had its answer then.
LEMMA RejectKeeps ==
  ASSUME IntakeInv, NEW v \in past, receipt[v] = "none", mark.at > v.at \/ mark = v,
         receipt' = [receipt EXCEPT ![v] = "stale"],
         UNCHANGED <<intake, mark, comment, alarm, faults, history>>
  PROVE  IntakeInv'
<1>1. v \in Versions /\ v.at \in Nat /\ mark.at \in Nat BY Numbers
<1>2. /\ past' = past /\ live' = live /\ source' = source /\ verified' = verified
      /\ answered' = answered
  BY DEF comment, history
<1>3. \A u \in Versions : receipt'[u] = IF u = v THEN "stale" ELSE receipt[u]
  BY InvParts DEF RowsOK
<1>4. RowsOK'
  <2>1. receipt' \in [Versions -> ReceiptType] BY InvParts DEF RowsOK, ReceiptType, Outcomes
  <2> QED BY <1>1, <1>3, <2>1, InvParts DEF RowsOK
<1>5. CommentOK' /\ MarkOK' BY <1>2, InvParts DEF CommentOK, MarkOK
<1>6. \A u \in Versions : ReceiptOK(u)' BY <1>1, <1>2, <1>3, InvParts DEF ReceiptOK
<1>7. LiveOK'
  <2> SUFFICES ASSUME live \in Versions, \/ receipt'[live] \in {"superseded", "stale"}
                                         \/ mark = live /\ receipt'[live] = "none"
               PROVE  Excused(live)
    BY <1>2 DEF LiveOK, Excused
  <2>1. CASE live = v
    <3>1. mark = v BY <1>1, <2>1, LiveVersion
    <3> QED BY <2>1, <3>1, InvParts DEF LiveOK
  <2>2. CASE live # v BY <1>3, <2>2, InvParts DEF LiveOK
  <2> QED BY <2>1, <2>2
<1>8. \A r : RecordOK(r) => RecordOK(r)'
  <2>1. \A u \in Versions : receipt[u] # "none" => receipt'[u] # "none" BY <1>3
  <2> QED BY <1>2, <2>1, RecordsKept
<1> QED BY <1>4, <1>5, <1>6, <1>7, <1>8, AlarmKept, InvParts, InvFromParts

LEMMA DeliverKeeps == ASSUME IntakeInv, NEW v \in past, Deliver(v) PROVE IntakeInv'
<1>1. receipt[v] = "none" /\ UNCHANGED <<comment, alarm, faults, history>> BY DEF Deliver
<1>2. CASE /\ mark.at > v.at \/ mark = v
           /\ receipt' = [receipt EXCEPT ![v] = "stale"]
           /\ UNCHANGED <<intake, mark>>
  BY <1>1, <1>2, RejectKeeps
<1>3. CASE /\ mark.at <= v.at /\ mark # v
           /\ receipt' = [Superseded(EndedBy(v)) EXCEPT ![v] = "pending"]
           /\ intake' = [Deleted(EndedBy(v)) EXCEPT ![v] = NewIntake]
           /\ mark' = IF mark.at < v.at THEN v ELSE mark
  BY <1>1, <1>3, AcceptKeeps
<1> QED BY <1>2, <1>3 DEF Deliver

\* Rows change, and none comes or goes.
LEMMA RowChanges ==
  ASSUME IntakeInv, intake' \in [Versions -> RowType],
         \A u \in Versions : intake'[u].stage = "none" <=> intake[u].stage = "none",
         \A u \in Versions : intake'[u].stage \in {"enqueue", "effects"} => u \in verified,
         UNCHANGED <<comment, receipt, mark, history>>
  PROVE  /\ RowsOK' /\ CommentOK' /\ MarkOK' /\ LiveOK'
         /\ \A u \in Versions : ReceiptOK(u)'
         /\ \A r : RecordOK(r) => RecordOK(r)'
<1>1. /\ past' = past /\ live' = live /\ source' = source /\ verified' = verified
      /\ answered' = answered
  BY DEF comment, history
<1>2. RowsOK' BY InvParts DEF RowsOK
<1>3. CommentOK' /\ MarkOK' /\ LiveOK'
  BY <1>1, InvParts DEF CommentOK, MarkOK, LiveOK, Excused
<1>4. \A u \in Versions : ReceiptOK(u)' BY <1>1, InvParts DEF ReceiptOK
<1>5. \A r : RecordOK(r) => RecordOK(r)' BY <1>1, RecordsKept
<1> QED BY <1>2, <1>3, <1>4, <1>5

LEMMA TriedType ==
  ASSUME NEW n \in 0..AttemptLimit, NEW more \in 0..1
  PROVE  Tried(n, more) \in 0..AttemptLimit
BY IntakeBoundsAssumption DEF Tried

\* One row is replaced by another one of a stage that its version has reached.
LEMMA RowReplaced ==
  ASSUME IntakeInv, NEW v \in Versions, NEW row \in RowType, intake[v].stage # "none",
         row.stage # "none", row.stage # "verify" => v \in verified,
         intake' = [intake EXCEPT ![v] = row]
  PROVE  /\ intake' \in [Versions -> RowType]
         /\ \A u \in Versions : intake'[u].stage = "none" <=> intake[u].stage = "none"
         /\ \A u \in Versions : intake'[u].stage \in {"enqueue", "effects"} => u \in verified
<1>1. intake \in [Versions -> RowType] BY InvParts DEF RowsOK
<1>2. \A u \in Versions : intake[u].stage \in {"enqueue", "effects"} => u \in verified
  BY InvParts DEF ReceiptOK
<1> QED BY <1>1, <1>2

LEMMA SameRows ==
  ASSUME IntakeInv, intake' = intake
  PROVE  /\ intake' \in [Versions -> RowType]
         /\ \A u \in Versions : intake'[u].stage = "none" <=> intake[u].stage = "none"
         /\ \A u \in Versions : intake'[u].stage \in {"enqueue", "effects"} => u \in verified
BY InvParts DEF RowsOK, ReceiptOK

LEMMA DeferredRows ==
  ASSUME IntakeInv, NEW v \in Versions, NEW n \in 0..1,
         intake' = Deferred(v, n) \/ intake' = RetryVerification(v)
  PROVE  /\ intake' \in [Versions -> RowType]
         /\ \A u \in Versions : intake'[u].stage = "none" <=> intake[u].stage = "none"
         /\ \A u \in Versions : intake'[u].stage \in {"enqueue", "effects"} => u \in verified
<1> DEFINE k == Tried(intake[v].attempts, n)
           m == Tried(intake[v].attempts, 1)
           later == [intake[v] EXCEPT !.attempts = k, !.due = FALSE]
           again == [intake[v] EXCEPT !.stage = "verify", !.src = 0, !.attempts = m, !.due = FALSE]
<1>1. intake[v] \in RowType BY InvParts DEF RowsOK
<1>2. k \in 0..AttemptLimit /\ m \in 0..AttemptLimit
  <2>1. intake[v].attempts \in 0..AttemptLimit /\ 1 \in 0..1 BY <1>1 DEF RowType
  <2> QED BY <2>1, TriedType
<1>3. CASE intake[v].stage = "none"
  BY <1>3, SameRows DEF Deferred, RetryVerification
<1>4. CASE intake[v].stage # "none" /\ intake' = Deferred(v, n)
  <2>1. intake' = [intake EXCEPT ![v] = later] BY <1>4 DEF Deferred
  <2>2. FALSE \in BOOLEAN OBVIOUS
  <2> HIDE DEF k
  <2>3. later \in RowType /\ later.stage = intake[v].stage
    BY <1>1, <1>2, <2>2 DEF RowType
  <2>4. later.stage # "verify" => v \in verified
    BY <1>1, <1>4, <2>3, InvParts DEF ReceiptOK, RowType, Stages
  <2> HIDE DEF later
  <2> QED BY <1>4, <2>1, <2>3, <2>4, RowReplaced
<1>5. CASE intake[v].stage # "none" /\ intake' = RetryVerification(v)
  <2>1. intake' = [intake EXCEPT ![v] = again] BY <1>5 DEF RetryVerification
  <2>2. FALSE \in BOOLEAN /\ 0 \in 0..MaxSource /\ "verify" \in Stages \cup {"none"}
    BY ConstantsLemma DEF Stages
  <2> HIDE DEF m
  <2>3. again \in RowType /\ again.stage = "verify" BY <1>1, <1>2, <2>2 DEF RowType
  <2> HIDE DEF again
  <2> QED BY <1>5, <2>1, <2>3, RowReplaced
<1> QED BY <1>3, <1>4, <1>5

----------------------------------------------------------------------------
(* The alarm                                                               *)

LEMMA RecordParts ==
  ASSUME IntakeInv, NEW r, RecordOK(r)
  PROVE  /\ r.ver \in Versions /\ r.ver \in past /\ r.ver.at <= mark.at
         /\ r.stage \in Stages /\ r.src \in 0..MaxSource /\ r.attempts \in 0..AttemptLimit
<1>1. /\ r.ver \in Versions /\ r.stage \in Stages /\ r.src \in 0..MaxSource
      /\ r.attempts \in 0..AttemptLimit /\ receipt[r.ver] # "none"
  BY DEF RecordOK, RecordType
<1> QED BY <1>1, InvParts DEF ReceiptOK

\* A record of the version that is shown is overtaken only by a verified one.
LEMMA NotCurrent ==
  ASSUME IntakeInv, NEW r, RecordOK(r), ~IsCurrent(r), r.ver = live
  PROVE  Excused(r.ver)
<1>1. r.ver \in Versions /\ r.ver.at <= mark.at BY RecordParts
<1>2. mark.at <= live.at /\ mark.at \in Nat /\ live.at \in Nat BY <1>1, LiveVersion
<1>3. mark.at = r.ver.at BY <1>1, <1>2
<1>4. r.stage # "verify" /\ mark # r.ver BY <1>3 DEF IsCurrent
<1>5. r.ver \in verified BY <1>4 DEF RecordOK
<1>6. mark \in verified BY <1>3, <1>5, InvParts DEF MarkOK
<1> QED BY <1>3, <1>4, <1>6 DEF Excused

LEMMA LeaveOK ==
  ASSUME IntakeInv, Leave, \A r : RecordOK(r) => RecordOK(r)'
  PROVE  AlarmOK' /\ pc' \in PcType
BY InvParts DEF Leave, AlarmOK, Stages, PcType

LEMMA WaitOK ==
  ASSUME IntakeInv, NEW p \in PcType, NEW r, WaitAt(p, r),
         r \in RecordType, receipt'[r.ver] # "none", r.stage # "verify" => r.ver \in verified',
         p \in Stages => r.stage = p, p = "queued" => r.stage = "effects",
         \A s : RecordOK(s) => RecordOK(s)'
  PROVE  AlarmOK' /\ pc' \in PcType
<1>1. pc' = p /\ cur' = r /\ todo' = todo BY DEF WaitAt
<1>2. RecordOK(cur)' BY <1>1 DEF RecordOK
<1> QED BY <1>1, <1>2, InvParts DEF AlarmOK

LEMMA FinishRecord ==
  ASSUME IntakeInv, NEW r, RecordOK(r), NEW outcome \in Outcomes, FinishAs(r.ver, outcome),
         r.ver = live /\ outcome \in {"superseded", "stale"} => Excused(r.ver),
         UNCHANGED <<comment, mark, verified>>
  PROVE  /\ RowsOK' /\ CommentOK' /\ MarkOK' /\ LiveOK'
         /\ \A u \in Versions : ReceiptOK(u)'
         /\ \A s : RecordOK(s) => RecordOK(s)'
<1> DEFINE v == r.ver
<1>1. v \in Versions /\ v \in past /\ v.at <= mark.at BY RecordParts
<1>2. /\ receipt' = [receipt EXCEPT ![v] = outcome]
      /\ intake' = [intake EXCEPT ![v] = NoIntake]
      /\ answered' = IF outcome \in {"completed", "refused"} THEN answered \cup {v} ELSE answered
  BY DEF FinishAs
<1> HIDE DEF v
<1>3. v = live /\ outcome \in {"superseded", "stale"} => Excused(v) BY DEF v
<1> QED BY <1>1, <1>2, <1>3, ReceiptEnds

LEMMA FinishKeeps ==
  ASSUME IntakeInv, pc # "idle", NEW outcome \in Outcomes,
         FinishAs(cur.ver, outcome), Leave, Fault \/ NoFault,
         cur.ver = live /\ outcome \in {"superseded", "stale"} => Excused(cur.ver),
         UNCHANGED <<comment, mark, verified>>
  PROVE  IntakeInv'
<1>1. RecordOK(cur) BY InvParts DEF AlarmOK
<1>2. /\ RowsOK' /\ CommentOK' /\ MarkOK' /\ LiveOK'
      /\ \A u \in Versions : ReceiptOK(u)'
      /\ \A s : RecordOK(s) => RecordOK(s)'
  BY <1>1, FinishRecord
<1>3. AlarmOK' /\ pc' \in PcType BY <1>2, LeaveOK
<1> QED BY <1>2, <1>3, FaultType, InvFromParts

LEMMA DeferKeeps ==
  ASSUME IntakeInv, pc # "idle", NEW n \in 0..1, Defer(n)
  PROVE  IntakeInv'
<1>1. /\ intake' = Deferred(cur.ver, n) /\ Leave /\ Fault
      /\ UNCHANGED <<comment, receipt, mark, history>>
  BY DEF Defer
<1>2. cur.ver \in Versions BY InvParts, RecordParts DEF AlarmOK
<1>3. /\ RowsOK' /\ CommentOK' /\ MarkOK' /\ LiveOK'
      /\ \A u \in Versions : ReceiptOK(u)'
      /\ \A s : RecordOK(s) => RecordOK(s)'
  <2>1. /\ intake' \in [Versions -> RowType]
        /\ \A u \in Versions : intake'[u].stage = "none" <=> intake[u].stage = "none"
        /\ \A u \in Versions : intake'[u].stage \in {"enqueue", "effects"} => u \in verified
    BY <1>1, <1>2, DeferredRows
  <2> QED BY <1>1, <2>1, RowChanges
<1>4. AlarmOK' /\ pc' \in PcType BY <1>1, <1>3, LeaveOK
<1> QED BY <1>1, <1>3, <1>4, FaultType, InvFromParts

\* Only the alarm's own state changes.
LEMMA WaitKeeps ==
  ASSUME IntakeInv, pc # "idle", NEW p \in PcType, NEW r, WaitAt(p, r), NoFault,
         r \in RecordType, receipt[r.ver] # "none", r.stage # "verify" => r.ver \in verified,
         p \in Stages => r.stage = p, p = "queued" => r.stage = "effects",
         UNCHANGED <<comment, intake, receipt, mark, history>>
  PROVE  IntakeInv'
<1>1. /\ RowsOK' /\ CommentOK' /\ MarkOK' /\ LiveOK'
      /\ \A u \in Versions : ReceiptOK(u)'
      /\ \A s : RecordOK(s) => RecordOK(s)'
  BY SameRows, RowChanges
<1>2. verified' = verified BY DEF history
<1>3. AlarmOK' /\ pc' \in PcType BY <1>1, <1>2, WaitOK
<1> QED BY <1>1, <1>3, FaultType, InvFromParts

LEMMA BeginAlarmKeeps == ASSUME IntakeInv, BeginAlarm PROVE IntakeInv'
<1>1. /\ pc = "idle" /\ todo' = {RecordOf(v) : v \in Due}
      /\ UNCHANGED <<comment, intake, receipt, mark, cur, pc, faults, history>>
  BY DEF BeginAlarm
<1>2. /\ RowsOK' /\ CommentOK' /\ MarkOK' /\ LiveOK'
      /\ \A u \in Versions : ReceiptOK(u)'
  BY <1>1, SameRows, RowChanges
<1>3. ASSUME NEW v \in Due
      PROVE  /\ RecordOf(v) \in RecordType /\ receipt[RecordOf(v).ver] # "none"
             /\ RecordOf(v).stage # "verify" => RecordOf(v).ver \in verified
  <2>1. v \in Versions /\ intake[v].stage # "none" BY <1>3 DEF Due
  <2>2. intake[v] \in RowType /\ receipt[v] = "pending" BY <2>1, InvParts DEF RowsOK
  <2>3. /\ intake[v].stage \in Stages /\ intake[v].src \in 0..MaxSource
        /\ intake[v].attempts \in 0..AttemptLimit
    BY <2>1, <2>2 DEF RowType
  <2>4. intake[v].stage # "verify" => v \in verified
    BY <2>1, <2>3, InvParts DEF ReceiptOK, Stages
  <2> QED BY <2>1, <2>2, <2>3, <2>4 DEF RecordOf, RecordType
<1>4. \A r \in todo' : RecordOK(r)'
  <2> SUFFICES ASSUME NEW r \in todo' PROVE RecordOK(r)' OBVIOUS
  <2>1. PICK v \in Due : r = RecordOf(v) BY <1>1
  <2>2. receipt' = receipt /\ verified' = verified BY <1>1 DEF history
  <2> QED BY <1>3, <2>1, <2>2 DEF RecordOK
<1>5. AlarmOK' BY <1>1, <1>4 DEF AlarmOK, Stages
<1> QED BY <1>1, <1>2, <1>5, InvParts, InvFromParts

LEMMA TakeRecordKeeps == ASSUME IntakeInv, TakeRecord PROVE IntakeInv'
<1>1. PICK r \in todo :
        /\ todo' = todo \ {r}
        /\ \/ /\ IsCurrent(r) /\ cur' = r /\ pc' = "visibility"
              /\ UNCHANGED <<intake, receipt, answered>>
           \/ /\ ~IsCurrent(r) /\ FinishAs(r.ver, "superseded") /\ UNCHANGED <<cur, pc>>
  BY DEF TakeRecord
<1>2. pc = "idle" /\ UNCHANGED <<comment, mark, faults, verified>> BY DEF TakeRecord
<1>3. RecordOK(r) BY InvParts DEF AlarmOK
<1>4. CASE /\ cur' = r /\ pc' = "visibility" /\ UNCHANGED <<intake, receipt, answered>>
  <2>1. /\ RowsOK' /\ CommentOK' /\ MarkOK' /\ LiveOK'
        /\ \A u \in Versions : ReceiptOK(u)'
        /\ \A s : RecordOK(s) => RecordOK(s)'
    BY <1>2, <1>4, SameRows, RowChanges DEF history
  <2>2. RecordOK(cur)'
    BY <1>2, <1>3, <1>4 DEF RecordOK
  <2>3. AlarmOK' BY <1>1, <1>4, <2>1, <2>2, InvParts DEF AlarmOK, Stages
  <2>4. pc' \in PcType BY <1>4 DEF PcType
  <2> QED BY <1>2, <2>1, <2>3, <2>4, InvParts, InvFromParts
<1>5. CASE ~IsCurrent(r) /\ FinishAs(r.ver, "superseded") /\ UNCHANGED <<cur, pc>>
  <2>1. r.ver = live => Excused(r.ver) BY <1>3, <1>5, NotCurrent
  <2>2. "superseded" \in Outcomes BY DEF Outcomes
  <2>3. /\ RowsOK' /\ CommentOK' /\ MarkOK' /\ LiveOK'
        /\ \A u \in Versions : ReceiptOK(u)'
        /\ \A s : RecordOK(s) => RecordOK(s)'
    BY <1>2, <1>3, <1>5, <2>1, <2>2, FinishRecord
  <2>4. AlarmOK' BY <1>1, <1>2, <1>5, <2>3, InvParts DEF AlarmOK, Stages
  <2> QED BY <1>2, <1>5, <2>3, <2>4, InvParts, InvFromParts
<1> QED BY <1>1, <1>4, <1>5

LEMMA FinishStep ==
  ASSUME IntakeInv, pc # "idle", NEW outcome \in Outcomes, Finish(outcome),
         cur.ver = live /\ outcome \in {"superseded", "stale"} => Excused(cur.ver)
  PROVE  IntakeInv'
BY FinishKeeps DEF Finish

\* A record that is overtaken.
LEMMA OvertakenKeeps ==
  ASSUME IntakeInv, pc # "idle", ~IsCurrent(cur), Finish("superseded")
  PROVE  IntakeInv'
<1>1. RecordOK(cur) BY InvParts DEF AlarmOK
<1>2. cur.ver = live => Excused(cur.ver) BY <1>1, NotCurrent
<1> QED BY <1>2, FinishStep DEF Outcomes

LEMMA CurParts ==
  ASSUME IntakeInv, pc # "idle"
  PROVE  /\ cur \in RecordType /\ receipt[cur.ver] # "none"
         /\ cur.stage # "verify" => cur.ver \in verified
         /\ cur.ver \in Versions /\ cur.ver.at <= mark.at /\ cur.stage \in Stages
<1>1. RecordOK(cur) BY InvParts DEF AlarmOK
<1> QED BY <1>1, RecordParts DEF RecordOK

LEMMA RefusedKeeps ==
  ASSUME IntakeInv, pc # "idle", Finish("refused") \/ Finish("completed")
  PROVE  IntakeInv'
BY FinishStep DEF Outcomes

LEMMA VisibilityKeeps ==
  ASSUME IntakeInv, ReadVisibility \/ VisibilityUnverified \/ CircuitOpen
  PROVE  IntakeInv'
<1>1. pc # "idle" BY DEF ReadVisibility, VisibilityUnverified, CircuitOpen
<1>2. CASE ~IsCurrent(cur) /\ Finish("superseded") BY <1>1, <1>2, OvertakenKeeps
<1>3. CASE Finish("refused") BY <1>1, <1>3, RefusedKeeps
<1>4. CASE WaitAt(cur.stage, cur) /\ NoFault /\ UNCHANGED <<comment, intake, receipt, mark, history>>
  <2>1. cur.stage \in PcType /\ cur.stage # "queued" BY <1>1, CurParts DEF PcType, Stages
  <2> QED BY <1>1, <1>4, <2>1, CurParts, WaitKeeps
<1>5. CASE /\ Fault /\ FinishAs(cur.ver, "refused") /\ Leave
           /\ UNCHANGED <<comment, mark, verified>>
  BY <1>1, <1>5, FinishKeeps DEF Outcomes
<1>6. CASE Defer(0) \/ Defer(1) BY <1>1, <1>6, DeferKeeps
<1> QED BY <1>2, <1>3, <1>4, <1>5, <1>6 DEF ReadVisibility, VisibilityUnverified, CircuitOpen

LEMMA ReadCommentKeeps == ASSUME IntakeInv, ReadComment PROVE IntakeInv'
<1>1. pc = "verify" /\ pc # "idle" BY DEF ReadComment
<1>2. CASE live # cur.ver /\ Finish("stale") BY <1>1, <1>2, FinishStep DEF Outcomes
<1>3. CASE live = Gone /\ Finish("stale")
  <2>1. live # cur.ver BY <1>1, <1>3, CurParts, ConstantsLemma
  <2> QED BY <1>2, <1>3, <2>1
<1>4. CASE WaitAt("item", cur) /\ NoFault /\ UNCHANGED <<comment, intake, receipt, mark, history>>
  <2>1. "item" \in PcType /\ "item" \notin Stages BY DEF PcType, Stages
  <2> QED BY <1>1, <1>4, <2>1, CurParts, WaitKeeps
<1> QED BY <1>2, <1>3, <1>4 DEF ReadComment

LEMMA RecordWithSource ==
  ASSUME NEW r \in RecordType, NEW s \in 0..MaxSource
  PROVE  LET n == [r EXCEPT !.src = s]
         IN  n \in RecordType /\ n.ver = r.ver /\ n.stage = r.stage
BY DEF RecordType

LEMMA RecordWithStage ==
  ASSUME NEW r \in RecordType, NEW s \in Stages
  PROVE  LET n == [r EXCEPT !.stage = s]
         IN  n \in RecordType /\ n.ver = r.ver /\ n.stage = s /\ n.src = r.src
BY DEF RecordType

LEMMA ReadItemKeeps == ASSUME IntakeInv, ReadItem PROVE IntakeInv'
<1>1. pc # "idle" BY DEF ReadItem
<1>2. CASE Finish("refused") BY <1>1, <1>2, RefusedKeeps
<1>3. CASE /\ WaitAt("mark", [cur EXCEPT !.src = source]) /\ NoFault
           /\ UNCHANGED <<comment, intake, receipt, mark, history>>
  <2> DEFINE n == [cur EXCEPT !.src = source]
  <2>1. source \in 0..MaxSource BY InvParts, IntakeBoundsAssumption DEF CommentOK
  <2>2. n \in RecordType /\ n.ver = cur.ver /\ n.stage = cur.stage
    BY <1>1, <2>1, CurParts, RecordWithSource
  <2>3. WaitAt("mark", n) BY <1>3
  <2> HIDE DEF n
  <2>4. "mark" \in PcType /\ "mark" \notin Stages BY DEF PcType, Stages
  <2>5. receipt[n.ver] # "none" /\ (n.stage # "verify" => n.ver \in verified)
    BY <1>1, <2>2, CurParts
  <2> QED BY <1>1, <1>3, <2>2, <2>3, <2>4, <2>5, WaitKeeps
<1> QED BY <1>2, <1>3 DEF ReadItem

\* advance of one row.
LEMMA AdvancedLemma ==
  ASSUME NEW is \in [Versions -> RowType], NEW r \in RecordType
  PROVE  /\ Advanced(is, r) \in [Versions -> RowType]
         /\ \A u \in Versions : u # r.ver => Advanced(is, r)[u] = is[u]
         /\ Advanced(is, r)[r.ver].stage = IF is[r.ver].stage = "none" THEN "none" ELSE r.stage
<1> DEFINE row == [stage |-> r.stage, attempts |-> 0, src |-> r.src, due |-> TRUE]
<1>1. r.ver \in Versions /\ r.stage \in Stages /\ r.src \in 0..MaxSource BY DEF RecordType
<1>2. row \in RowType /\ row.stage = r.stage BY <1>1, ConstantsLemma DEF RowType
<1>3. CASE is[r.ver].stage = "none" BY <1>3 DEF Advanced
<1>4. CASE is[r.ver].stage # "none"
  <2>1. Advanced(is, r) = [is EXCEPT ![r.ver] = row] BY <1>4 DEF Advanced
  <2> HIDE DEF row
  <2> QED BY <1>1, <1>2, <1>4, <2>1
<1> QED BY <1>3, <1>4

\* markVerified: the verified version is of the watermark's second and becomes
\* the watermark; a sibling that is shown ends with an excuse.
LEMMA MarkVerifiedKeeps == ASSUME IntakeInv, MarkVerified PROVE IntakeInv'
<1>1. pc = "mark" /\ pc # "idle" BY DEF MarkVerified
<1> DEFINE v == cur.ver
           others == Versions \ {v}
           next == [cur EXCEPT !.stage = "enqueue"]
<1>2. v \in Versions /\ v.at \in Nat /\ mark.at \in Nat /\ v.at <= mark.at /\ receipt[v] # "none"
  BY <1>1, CurParts, Numbers
<1>3. CASE mark.at > v.at /\ Finish("superseded")
  <2>1. v # live BY <1>2, <1>3, LiveVersion
  <2> QED BY <1>1, <1>3, <2>1, FinishStep DEF Outcomes
<1>4. CASE /\ mark.at <= v.at /\ mark' = IF mark.at = v.at THEN v ELSE mark
           /\ receipt' = Superseded(others) /\ intake' = Advanced(Deleted(others), next)
           /\ WaitAt("enqueue", next) /\ NoFault
           /\ verified' = verified \cup {v} /\ UNCHANGED <<comment, answered>>
  <2>1. mark.at = v.at /\ mark' = v BY <1>2, <1>4
  <2>2. next \in RecordType /\ next.ver = v /\ next.stage = "enqueue"
    BY <1>1, CurParts, RecordWithStage DEF Stages
  <2>3. others \in SUBSET Versions OBVIOUS
  <2>4. /\ receipt' \in [Versions -> ReceiptType]
        /\ \A u \in Versions :
              /\ receipt'[u] = "none" <=> receipt[u] = "none"
              /\ receipt'[u] = "pending" <=> receipt[u] = "pending" /\ u = v
              /\ receipt'[u] \in {"completed", "refused"} => receipt'[u] = receipt[u]
              /\ receipt'[u] # receipt[u] => u # v /\ receipt[u] = "pending"
    <3>1. receipt' \in [Versions -> ReceiptType] BY <1>4, <2>3, SupersededLemma
    <3>2. \A u \in Versions :
              /\ receipt'[u] = "none" <=> receipt[u] = "none"
              /\ receipt'[u] = "pending" <=> receipt[u] = "pending" /\ u \notin others
              /\ receipt'[u] \in {"completed", "refused"} => receipt'[u] = receipt[u]
              /\ receipt'[u] # receipt[u] => u \in others /\ receipt[u] = "pending"
      BY <1>4, <2>3, SupersededLemma
    <3> QED BY <3>1, <3>2
  <2>5. /\ intake' \in [Versions -> RowType]
        /\ \A u \in Versions : u # v => intake'[u].stage = "none"
        /\ intake'[v].stage = IF intake[v].stage = "none" THEN "none" ELSE "enqueue"
    <3> DEFINE D == Deleted(others)
    <3>1. /\ D \in [Versions -> RowType]
          /\ \A u \in Versions : D[u] = IF u \in others THEN NoIntake ELSE intake[u]
      BY <2>3, DeletedLemma
    <3>2. intake' = Advanced(D, next) BY <1>4
    <3> HIDE DEF D, next
    <3>3. /\ intake' \in [Versions -> RowType]
          /\ \A u \in Versions : u # v => intake'[u] = D[u]
          /\ intake'[v].stage = IF D[v].stage = "none" THEN "none" ELSE "enqueue"
      BY <2>2, <3>1, <3>2, AdvancedLemma
    <3> QED BY <1>2, <3>1, <3>3, ConstantsLemma
  <2> HIDE DEF next, others
  <2>6. RowsOK' BY <1>2, <2>4, <2>5, InvParts DEF RowsOK
  <2>7. past' = past /\ live' = live /\ source' = source /\ answered' = answered
    BY <1>4 DEF comment
  <2>8. CommentOK' BY <2>7, InvParts DEF CommentOK
  <2>9. MarkOK'
    <3>1. v \in past BY <1>2, InvParts DEF ReceiptOK
    <3>2. \A w \in verified : w.at <= v.at BY <2>1, InvParts DEF MarkOK
    <3> QED BY <1>2, <1>4, <2>1, <2>7, <3>1, <3>2, InvParts DEF MarkOK
  <2>10. \A u \in Versions : ReceiptOK(u)'
    <3> SUFFICES ASSUME NEW u \in Versions PROVE ReceiptOK(u)' OBVIOUS
    <3>1. receipt'[u] # "none" => u \in past /\ u.at <= mark'.at
      BY <2>1, <2>4, InvParts DEF ReceiptOK
    <3>2. receipt'[u] \in {"completed", "refused"} => u \in answered
      BY <2>4, InvParts DEF ReceiptOK
    <3>3. intake'[u].stage \in {"enqueue", "effects"} => u \in verified'
      BY <1>4, <2>5
    <3> QED BY <2>7, <3>1, <3>2, <3>3 DEF ReceiptOK
  <2>11. LiveOK'
    <3> SUFFICES ASSUME live \in Versions, \/ receipt'[live] \in {"superseded", "stale"}
                                           \/ v = live /\ receipt'[live] = "none"
                 PROVE  Excused(live)'
      BY <2>1, <2>7 DEF LiveOK
    <3>1. Excused(live) => Excused(live)' BY <1>4, <2>7 DEF Excused
    <3>2. CASE receipt'[live] = receipt[live]
      <4>1. receipt[live] # "none" \/ v # live BY <1>2
      <4> QED BY <3>1, <3>2, <4>1, InvParts DEF LiveOK
    <3>3. CASE receipt'[live] # receipt[live]
      <4>1. live # v /\ receipt[live] = "pending" BY <2>4, <3>3
      <4>2. live.at <= mark.at BY <4>1, InvParts DEF ReceiptOK
      <4>3. live.at = v.at BY <2>1, <4>2, LiveVersion
      <4>4. v \in verified' /\ answered' = answered /\ live' = live BY <1>4, <2>7
      <4> QED BY <4>1, <4>3, <4>4 DEF Excused
    <3> QED BY <3>2, <3>3
  <2>12. \A s : RecordOK(s) => RecordOK(s)'
    <3>1. \A u \in Versions : receipt[u] # "none" => receipt'[u] # "none" BY <2>4
    <3> QED BY <1>4, <3>1, RecordsKept
  <2>13. AlarmOK' /\ pc' \in PcType
    <3>1. "enqueue" \in PcType BY DEF PcType, Stages
    <3>2. receipt'[v] # "none" /\ v \in verified' BY <1>2, <1>4, <2>4
    <3> QED BY <1>4, <2>2, <2>12, <3>1, <3>2, WaitOK
  <2> QED BY <1>4, <2>6, <2>8, <2>9, <2>10, <2>11, <2>13, FaultType, InvFromParts
<1> QED BY <1>3, <1>4 DEF MarkVerified

LEMMA EnqueueKeeps == ASSUME IntakeInv, Enqueue PROVE IntakeInv'
<1>1. pc = "enqueue" /\ pc # "idle" BY DEF Enqueue
<1>2. cur.stage = "enqueue" BY <1>1, InvParts DEF AlarmOK, Stages
<1>3. CASE /\ WaitAt("queued", [cur EXCEPT !.stage = "effects"]) /\ NoFault
           /\ UNCHANGED <<comment, intake, receipt, mark, history>>
  <2> DEFINE n == [cur EXCEPT !.stage = "effects"]
  <2>1. n \in RecordType /\ n.ver = cur.ver /\ n.stage = "effects"
    BY <1>1, CurParts, RecordWithStage DEF Stages
  <2>2. WaitAt("queued", n) BY <1>3
  <2> HIDE DEF n
  <2>3. "queued" \in PcType /\ "queued" \notin Stages BY DEF PcType, Stages
  <2>4. receipt[n.ver] # "none" /\ n.ver \in verified BY <1>1, <1>2, <2>1, CurParts
  <2> QED BY <1>1, <1>3, <2>1, <2>2, <2>3, <2>4, WaitKeeps
<1>4. CASE /\ intake' = RetryVerification(cur.ver) /\ Leave /\ NoFault
           /\ UNCHANGED <<comment, receipt, mark, history>>
  <2>1. /\ intake' \in [Versions -> RowType]
        /\ \A u \in Versions : intake'[u].stage = "none" <=> intake[u].stage = "none"
        /\ \A u \in Versions : intake'[u].stage \in {"enqueue", "effects"} => u \in verified
    <3>1. cur.ver \in Versions /\ 1 \in 0..1 BY <1>1, CurParts
    <3> QED BY <1>4, <3>1, DeferredRows
  <2>2. /\ RowsOK' /\ CommentOK' /\ MarkOK' /\ LiveOK'
        /\ \A u \in Versions : ReceiptOK(u)'
        /\ \A s : RecordOK(s) => RecordOK(s)'
    BY <1>4, <2>1, RowChanges
  <2>3. AlarmOK' /\ pc' \in PcType BY <1>4, <2>2, LeaveOK
  <2> QED BY <1>4, <2>2, <2>3, FaultType, InvFromParts
<1>5. CASE Finish("refused") BY <1>1, <1>5, RefusedKeeps
<1> QED BY <1>3, <1>4, <1>5 DEF Enqueue

LEMMA StartEffectsKeeps == ASSUME IntakeInv, StartEffects PROVE IntakeInv'
<1>1. pc = "queued" /\ pc # "idle" BY DEF StartEffects
<1>2. cur.stage = "effects" BY <1>1, InvParts DEF AlarmOK
<1>3. CASE ~IsCurrent(cur) /\ Finish("superseded") BY <1>1, <1>3, OvertakenKeeps
<1>4. CASE /\ intake' = Advanced(intake, cur) /\ WaitAt("effects", cur) /\ NoFault
           /\ UNCHANGED <<comment, receipt, mark, history>>
  <2>1. /\ cur \in RecordType /\ cur.ver \in Versions /\ cur.ver \in verified
        /\ receipt[cur.ver] # "none"
    BY <1>1, <1>2, CurParts
  <2>2. intake \in [Versions -> RowType] BY InvParts DEF RowsOK
  <2>3. /\ intake' \in [Versions -> RowType]
        /\ \A u \in Versions : u # cur.ver => intake'[u] = intake[u]
        /\ intake'[cur.ver].stage = IF intake[cur.ver].stage = "none" THEN "none" ELSE "effects"
    BY <1>2, <1>4, <2>1, <2>2, AdvancedLemma
  <2>4. /\ \A u \in Versions : intake'[u].stage = "none" <=> intake[u].stage = "none"
        /\ \A u \in Versions : intake'[u].stage \in {"enqueue", "effects"} => u \in verified
    <3>1. \A u \in Versions : intake[u].stage \in {"enqueue", "effects"} => u \in verified
      BY InvParts DEF ReceiptOK
    <3> QED BY <2>1, <2>3, <3>1
  <2>5. /\ RowsOK' /\ CommentOK' /\ MarkOK' /\ LiveOK'
        /\ \A u \in Versions : ReceiptOK(u)'
        /\ \A s : RecordOK(s) => RecordOK(s)'
    BY <1>4, <2>3, <2>4, RowChanges
  <2>6. AlarmOK' /\ pc' \in PcType
    <3>1. "effects" \in PcType BY DEF PcType, Stages
    <3>2. receipt'[cur.ver] # "none" /\ cur.ver \in verified' BY <1>4, <2>1 DEF history
    <3> QED BY <1>2, <1>4, <2>1, <2>5, <3>1, <3>2, WaitOK
  <2> QED BY <1>4, <2>5, <2>6, FaultType, InvFromParts
<1> QED BY <1>3, <1>4 DEF StartEffects

LEMMA EndKeeps == ASSUME IntakeInv, Effects \/ RequestFails PROVE IntakeInv'
<1>1. pc # "idle" BY DEF Effects, RequestFails
<1>2. CASE Effects BY <1>1, <1>2, RefusedKeeps DEF Effects
<1>3. CASE RequestFails
  <2>1. Defer(1) /\ 1 \in 0..1 BY <1>3 DEF RequestFails
  <2> QED BY <1>1, <2>1, DeferKeeps
<1> QED BY <1>2, <1>3

LEMMA RestartKeeps == ASSUME IntakeInv, Restart PROVE IntakeInv'
<1>1. /\ pc' = "idle" /\ todo' = {} /\ Fault
      /\ UNCHANGED <<comment, intake, receipt, mark, history>>
  BY DEF Restart
<1>2. /\ RowsOK' /\ CommentOK' /\ MarkOK' /\ LiveOK'
      /\ \A u \in Versions : ReceiptOK(u)'
  BY <1>1, SameRows, RowChanges
<1>3. AlarmOK' /\ pc' \in PcType BY <1>1 DEF AlarmOK, Stages, PcType
<1> QED BY <1>1, <1>2, <1>3, FaultType, InvFromParts

LEMMA ElapseKeeps == ASSUME IntakeInv, NEW v \in Versions, Elapse(v) PROVE IntakeInv'
<1>1. /\ intake[v].stage # "none" /\ intake' = [intake EXCEPT ![v].due = TRUE]
      /\ UNCHANGED <<comment, receipt, mark, alarm, faults, history>>
  BY DEF Elapse
<1> DEFINE row == [intake[v] EXCEPT !.due = TRUE]
<1>2. intake[v] \in RowType /\ TRUE \in BOOLEAN BY InvParts DEF RowsOK
<1>3. row \in RowType /\ row.stage = intake[v].stage BY <1>2 DEF RowType
<1>4. row.stage # "verify" => v \in verified
  BY <1>1, <1>2, <1>3, InvParts DEF ReceiptOK, RowType, Stages
<1>5. intake' = [intake EXCEPT ![v] = row] BY <1>1
<1> HIDE DEF row
<1>6. /\ intake' \in [Versions -> RowType]
      /\ \A u \in Versions : intake'[u].stage = "none" <=> intake[u].stage = "none"
      /\ \A u \in Versions : intake'[u].stage \in {"enqueue", "effects"} => u \in verified
  BY <1>1, <1>3, <1>4, <1>5, RowReplaced
<1>7. /\ RowsOK' /\ CommentOK' /\ MarkOK' /\ LiveOK'
      /\ \A u \in Versions : ReceiptOK(u)'
      /\ \A s : RecordOK(s) => RecordOK(s)'
  BY <1>1, <1>6, RowChanges
<1> QED BY <1>1, <1>7, AlarmKept, InvParts, InvFromParts

\* A pruned receipt leaves its answer, or its excuse, behind.
LEMMA PruneKeeps ==
  ASSUME IntakeInv, NEW v \in Versions, PruneTerminalReceipts(v)
  PROVE  IntakeInv'
<1>1. /\ pc = "idle" /\ todo = {} /\ receipt[v] \notin {"none", "pending"}
      /\ receipt' = [receipt EXCEPT ![v] = "none"]
      /\ UNCHANGED <<comment, intake, mark, alarm, faults, history>>
  BY DEF PruneTerminalReceipts
<1>2. /\ past' = past /\ live' = live /\ source' = source /\ verified' = verified
      /\ answered' = answered /\ pc' = pc /\ todo' = todo
  BY <1>1 DEF comment, history, alarm
<1>3. \A u \in Versions : receipt'[u] = IF u = v THEN "none" ELSE receipt[u]
  BY <1>1, InvParts DEF RowsOK
<1>4. RowsOK'
  <2>1. receipt' \in [Versions -> ReceiptType] BY <1>1, InvParts DEF RowsOK, ReceiptType
  <2> QED BY <1>1, <1>3, <2>1, InvParts DEF RowsOK
<1>5. CommentOK' /\ MarkOK' BY <1>1, <1>2, InvParts DEF CommentOK, MarkOK
<1>6. \A u \in Versions : ReceiptOK(u)' BY <1>1, <1>2, <1>3, InvParts DEF ReceiptOK
<1>7. LiveOK'
  <2> SUFFICES ASSUME live \in Versions, \/ receipt'[live] \in {"superseded", "stale"}
                                         \/ mark = live /\ receipt'[live] = "none"
               PROVE  Excused(live)
    BY <1>1, <1>2 DEF LiveOK, Excused
  <2>1. CASE live = v
    <3>1. receipt[v] \in {"completed", "refused", "superseded", "stale"}
      BY <1>1, InvParts DEF RowsOK, ReceiptType, Outcomes
    <3>2. receipt[v] \in {"completed", "refused"} => v \in answered BY InvParts DEF ReceiptOK
    <3> QED BY <2>1, <3>1, <3>2, InvParts DEF LiveOK, Excused
  <2>2. CASE live # v BY <1>3, <2>2, InvParts DEF LiveOK
  <2> QED BY <2>1, <2>2
<1>8. AlarmOK' BY <1>1, <1>2 DEF AlarmOK, Stages
<1> QED BY <1>1, <1>2, <1>4, <1>5, <1>6, <1>7, <1>8, InvParts, InvFromParts

LEMMA StutterKeeps == ASSUME IntakeInv, UNCHANGED vars PROVE IntakeInv'
<1>1. UNCHANGED <<comment, intake, receipt, mark, alarm, faults, history>> BY DEF vars
<1>2. /\ RowsOK' /\ CommentOK' /\ MarkOK' /\ LiveOK'
      /\ \A u \in Versions : ReceiptOK(u)'
      /\ \A s : RecordOK(s) => RecordOK(s)'
  BY <1>1, SameRows, RowChanges
<1> QED BY <1>1, <1>2, AlarmKept, InvParts, InvFromParts

LEMMA NextKeeps == IntakeInv /\ [Next]_vars => IntakeInv'
<1> SUFFICES ASSUME IntakeInv, [Next]_vars PROVE IntakeInv' OBVIOUS
<1>1. CASE Edit BY <1>1, EditKeeps
<1>2. CASE DeleteComment \/ Push \/ CloseTarget BY <1>2, CommentKeeps
<1>3. ASSUME NEW v \in past, Deliver(v) \/ DeliverAnswered(v) PROVE IntakeInv'
  BY <1>3, DeliverKeeps, StutterKeeps DEF DeliverAnswered
<1>4. CASE AlarmStep
  BY <1>4, BeginAlarmKeeps, TakeRecordKeeps, VisibilityKeeps, ReadCommentKeeps, ReadItemKeeps,
     MarkVerifiedKeeps, EnqueueKeeps, StartEffectsKeeps, EndKeeps DEF AlarmStep
<1>5. CASE Restart BY <1>5, RestartKeeps
<1>6. ASSUME NEW v \in Versions, Elapse(v) \/ PruneTerminalReceipts(v) PROVE IntakeInv'
  BY <1>6, ElapseKeeps, PruneKeeps
<1>7. CASE UNCHANGED vars BY <1>7, StutterKeeps
<1> QED BY <1>1, <1>2, <1>3, <1>4, <1>5, <1>6, <1>7 DEF Next

----------------------------------------------------------------------------
(* Theorems                                                                *)

\* The inductive invariant: receipts, rows, the watermark and the record of the
\* alarm agree in every reachable state (admit, markVerified, finish).
THEOREM SpecIntakeInv == Spec => []IntakeInv
BY InitInv, NextKeeps, PTL DEF Spec

\* Types; and a receipt is pending exactly while a row will lead to its end,
\* over admit, markVerified, finish, retries and restarts.
THEOREM SpecTypeOK == Spec => []TypeOK
<1>1. IntakeInv => TypeOK BY DEF IntakeInv
<1> QED BY <1>1, SpecIntakeInv, PTL

\* The version that the comment shows is never dropped as outdated, for every
\* order and repetition of deliveries.
THEOREM SpecLiveVersionNotDropped == Spec => []LiveVersionNotDropped
<1>1. IntakeInv => LiveVersionNotDropped
  BY DEF IntakeInv, LiveOK, Excused, LiveVersionNotDropped
<1> QED BY <1>1, SpecIntakeInv, PTL
=============================================================================

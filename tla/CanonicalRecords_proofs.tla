----------------------- MODULE CanonicalRecords_proofs -----------------------
(***************************************************************************)
(* Proofs about the canonical records, for every number of publications,   *)
(* moves, requests and bodies and every interleaving of them (the run of   *)
(* this module bounds which of them overlap).                              *)
(*                                                                         *)
(* What the index exports is readable because of what requests and passes  *)
(* carry across their awaits: a prepared request or pass has its bodies in *)
(* the bucket, there is no row of format 2 before the switch.  A replica   *)
(* is faithful because an export only ever moves behind the last store     *)
(* revision, also while an entry is on its way.  The order of publications *)
(* rests on the fences: nothing of a batch was written, or has a receipt,  *)
(* that is newer than the publication head, and nothing direct that is     *)
(* newer than the item.                                                    *)
(***************************************************************************)
EXTENDS CanonicalRecords, FiniteSetTheorems, TLAPS

Body == Digests \cup {None}
RowType == [dig : Body, rev : Nat, by : Plans \cup Deliveries \cup {None}]
ExportType == [dig : Body, rev : Nat, at : Nat, src : {"none", "canonical", "backfill"}]
ReceiptType == [fence : {PlanOf[p].fence : p \in Plans}, rev : Nat, plan : Plans,
                st : {"published", "superseded"}, old : BOOLEAN]
MoveType == [id : Deliveries, old : BOOLEAN]
PublishSteps == {"publish", "unprepared", "prepared"}
MoveSteps == {"move", "move-unprepared", "move-prepared"}
RequestType == [pc : {"idle"} \cup PublishSteps \cup MoveSteps, what : Plans \cup Deliveries \cup {None}]
Entry == [sec : Sections, dig : Body, at : Nat]
Unseen == [s \in {} |-> None]
Tuple == {f \in [Sections -> Body] : f["items"] \in Digests}

StoreType ==
  /\ fmt \in {1, 2} /\ v1 \in [Sections -> RowType] /\ v2 \in [Sections -> RowType]
  /\ export \in [Sections -> ExportType] /\ backfill \in [Sections -> Body]
  /\ bucket \subseteq Digests /\ seq \in 0..MaxSeq

FenceType ==
  /\ itemRev \in Nat /\ head \in Nat /\ lane \in [BatchFences -> {"none", "queued", "owned"}]

\* Written rows have a revision, and format 2 is empty before the switch.
RowsOK ==
  /\ \A s \in Sections : /\ v1[s] # NoRow => v1[s].rev > 0
                         /\ v2[s] # NoRow => v2[s].rev > 0
  /\ fmt = 1 => \A s \in Sections : v2[s] = NoRow

\* The export order.
OrderOK ==
  /\ \A s \in Sections : export[s].at <= seq
  /\ \A s, t \in Sections : s # t /\ export[s].at > 0 => export[s].at # export[t].at

ReceiptsOK ==
  /\ receipts \subseteq ReceiptType /\ moved \subseteq MoveType
  /\ \A q, r \in receipts : q.fence = r.fence /\ q.rev = r.rev => q = r
  /\ \A r \in receipts : r.fence = PlanOf[r.plan].fence /\ r.rev = PlanOf[r.plan].rev

\* What requests carry across their awaits.
RequestOK(r) ==
  /\ r.pc \in PublishSteps => r.what \in Plans
  /\ r.pc \in MoveSteps => r.what \in Deliveries /\ seen[r.what] \in Tuple
  /\ r.pc = "prepared" => Stored[PlanOf[r.what].dig] \in bucket
  /\ r.pc = "move-prepared" => Stored[seen[r.what]["items"]] \in bucket

RequestsOK ==
  /\ req \in [Requests -> RequestType] /\ \A r \in Requests : RequestOK(req[r])
  /\ seen \in [Deliveries -> Tuple \cup {Unseen}]

\* What maintenance passes carry across theirs.
PassOK ==
  \/ pass = <<>>
  \/ /\ fmt = 2 /\ pass[1].rows \in [Sections -> RowType]
     /\ \A s \in Sections : pass[1].rows[s].dig # None => pass[1].rows[s].dig \in bucket

SweepOK ==
  \/ sweep = <<>>
  \/ /\ sweep[1].rows \in [Sections -> RowType]
     /\ sweep[1].prepared => \A s \in Hydrated(sweep[1].rows) : Stored[sweep[1].rows[s].dig] \in bucket

\* The replica, and the entry that is on its way: it is the next one after the
\* cursor, or was exported again behind it.
PageOK(e, cursor) ==
  /\ e \in Entry /\ e.at > cursor /\ e.at <= seq
  /\ export[e.sec].at >= e.at
  /\ \A t \in Sections :
       /\ export[t].at <= cursor \/ export[t].at >= e.at
       /\ export[t].at = e.at => t = e.sec /\ export[t].dig = e.dig

ReplicaOK ==
  /\ replica \in [copy : [Sections -> Body], cursor : Nat, page : Seq(Entry)]
  /\ replica.cursor <= seq
  /\ replica.page = <<>> \/ PageOK(replica.page[1], replica.cursor)

\* A publication that took effect, or has a receipt.
Passed(p) == IF PlanOf[p].batch THEN PlanOf[p].src <= head ELSE PlanOf[p].rev <= itemRev

FencesOK ==
  /\ \A p \in Plans : PlanOf[p].batch /\ lane[PlanOf[p].fence] # "none" => PlanOf[p].src <= head
  /\ \A r \in receipts : Passed(r.plan)
  /\ \A s \in Sections : /\ v1[s].by \in Plans => Passed(v1[s].by)
                         /\ v2[s].by \in Plans => Passed(v2[s].by)

RecordsInv ==
  /\ StoreType /\ FenceType /\ RowsOK /\ OrderOK /\ ReceiptsOK /\ RequestsOK /\ PassOK /\ SweepOK
  /\ ExportReadable /\ ReplicaOK /\ ReplicaFaithful /\ FencesOK

----------------------------------------------------------------------------
(* Constants and operators                                                 *)

LEMMA ConstantsLemma ==
  /\ NoRow \in RowType /\ NoRow.dig = None /\ NoRow.rev = 0 /\ NoRow.by = None
  /\ NoExport \in ExportType /\ NoExport.at = 0 /\ NoExport.src = "none"
  /\ NoExport.rev = 0 /\ NoExport.dig = None
  /\ Idle \in RequestType /\ Idle.pc = "idle"
  /\ "items" \in Sections /\ "closed" \in Sections /\ None \in Body /\ None \notin Digests
  /\ None \notin Plans /\ MaxSeq \in Nat /\ MaxSeq >= 2
  /\ \A d \in Digests : Stored[d] \in Digests /\ Stored[Stored[d]] = Stored[d] /\ d \in Body
  /\ \A p \in Plans : /\ PlanOf[p].rev \in Nat /\ PlanOf[p].src \in Nat
                      /\ PlanOf[p].sec \in Sections /\ PlanOf[p].dig \in Digests
                      /\ PlanOf[p].batch \in BOOLEAN
<1>1. NoRow \in RowType BY DEF NoRow, RowType, Body
<1>2. NoExport \in ExportType BY DEF NoExport, ExportType, Body
<1>3. Idle \in RequestType BY DEF Idle, RequestType
<1>4. "items" \in Sections /\ "closed" \in Sections BY DEF Sections
<1> QED BY <1>1, <1>2, <1>3, <1>4, PlansAssumption DEF NoRow, NoExport, Idle, Body

LEMMA NewestTwo ==
  ASSUME NEW a \in Nat, NEW b \in Nat
  PROVE  Newest({a, b}) \in {a, b} /\ Newest({a, b}) >= a /\ Newest({a, b}) >= b
<1>1. \E n \in {a, b} : \A m \in {a, b} : m <= n
  <2>1. CASE a <= b BY <2>1
  <2>2. CASE b <= a BY <2>2
  <2> QED BY <2>1, <2>2
<1>2. Newest({a, b}) \in {a, b} /\ \A m \in {a, b} : m <= Newest({a, b})
  BY <1>1, Zenon DEF Newest
<1> QED BY <1>2

LEMMA ViewType ==
  ASSUME StoreType
  PROVE  /\ View \in [Sections -> RowType]
         /\ \A s \in Sections : View[s] = (IF v2[s] # NoRow THEN v2[s] ELSE v1[s])
         /\ \A s \in Sections : View[s].rev \in Nat /\ View[s].dig \in Body
<1>1. \A s \in Sections : View[s] = (IF v2[s] # NoRow THEN v2[s] ELSE v1[s]) BY DEF View
<1>2. View \in [Sections -> RowType] BY DEF View, StoreType
<1> QED BY <1>1, <1>2 DEF RowType

LEMMA TupleRevision ==
  ASSUME StoreType
  PROVE  /\ NextTupleRevision \in Nat /\ NextTupleRevision > 0
         /\ \A s \in Sections : NextTupleRevision > View[s].rev
<1> DEFINE a == View["items"].rev
           b == View["closed"].rev
<1>1. a \in Nat /\ b \in Nat BY ViewType, ConstantsLemma
<1>2. {View[s].rev : s \in Sections} = {a, b} BY DEF Sections
<1>3. NextTupleRevision = Newest({a, b}) + 1 BY <1>2 DEF NextTupleRevision
<1> HIDE DEF a, b
<1>4. Newest({a, b}) \in Nat /\ Newest({a, b}) >= a /\ Newest({a, b}) >= b
  BY <1>1, NewestTwo
<1>5. NextTupleRevision \in Nat /\ NextTupleRevision > a /\ NextTupleRevision > b
  BY <1>1, <1>3, <1>4
<1>6. \A s \in Sections : View[s].rev = a \/ View[s].rev = b BY DEF a, b, Sections
<1> QED BY <1>1, <1>5, <1>6

LEMMA SectionsCardinality ==
  /\ Cardinality(Sections) = 2 /\ Cardinality({}) = 0
  /\ \A s \in Sections : Cardinality({s}) = 1
<1>1. IsFiniteSet({"items"}) /\ Cardinality({"items"}) = 1 BY FS_Singleton
<1>2. Sections = {"items"} \cup {"closed"} /\ "closed" \notin {"items"} BY DEF Sections
<1>3. Cardinality({"items"} \cup {"closed"}) = Cardinality({"items"}) + 1
  BY <1>1, <1>2, FS_AddElement
<1>4. \A s \in Sections : Cardinality({s}) = 1 BY FS_Singleton
<1>5. Cardinality({}) = 0 BY FS_EmptySet
<1>6. Cardinality(Sections) = 2 BY <1>1, <1>2, <1>3
<1> QED BY <1>4, <1>5, <1>6

----------------------------------------------------------------------------
(* Steps of the store                                                      *)

\* Tables, index and bucket agree.
Core == StoreType /\ RowsOK /\ OrderOK /\ ExportReadable

\* An export only moves behind the last store revision.
Advance ==
  /\ seq' \in Nat /\ seq' >= seq
  /\ \A s \in Sections : export'[s] = export[s] \/ export'[s].at > seq

\* What is said of one section.
Readable(s) ==
  /\ v1[s] = NoRow \/ v2[s] = NoRow
  /\ v2[s].dig # None => v2[s].dig \in bucket
  /\ export[s].src = "canonical" => View[s].dig = export[s].dig /\ View[s].rev = export[s].rev
  /\ export[s].src = "backfill" => View[s] = NoRow /\ backfill[s] = export[s].dig
  /\ View[s] # NoRow => export[s].src = "canonical"

LEMMA ReadableEach == ExportReadable <=> \A s \in Sections : Readable(s)
BY DEF ExportReadable, Readable

\* writeCanonicalOperationSync of both sections.
LEMMA WriteLemma ==
  ASSUME Core, NEW ops \in [Sections -> Body], NEW first \in Sections, NEW rev \in Nat,
         rev > 0, NEW by \in Plans \cup Deliveries, Write(ops, first, rev, by),
         fmt' = fmt, bucket' = bucket, seq + 2 <= MaxSeq,
         fmt = 2 => \A s \in Sections : ops[s] # None => ops[s] \in bucket
  PROVE  /\ Core' /\ Advance
         /\ \A s \in Sections : View'[s].by = by /\ View'[s].rev = rev
         /\ \A s \in Sections : /\ v1'[s].by \in {by, None, v1[s].by}
                                /\ v2'[s].by \in {by, None, v2[s].by}
<1> DEFINE row(s) == [dig |-> ops[s], rev |-> rev, by |-> by]
           at(s) == IF s = first THEN seq + 1 ELSE seq + 2
           ptr(s) == [dig |-> ops[s], rev |-> rev, at |-> at(s), src |-> "canonical"]
<1>1. DOMAIN ops = Sections OBVIOUS
<1>2. seq \in Nat /\ seq \in 0..MaxSeq /\ MaxSeq \in Nat BY ConstantsLemma DEF Core, StoreType
<1>3. /\ v2' = [s \in Sections |-> IF fmt = 2 THEN row(s) ELSE v2[s]]
      /\ v1' = [s \in Sections |-> IF fmt = 2 THEN NoRow ELSE row(s)]
      /\ backfill' = [s \in Sections |-> None]
  BY <1>1 DEF Write
<1>4. export' = [s \in Sections |-> ptr(s)]
  BY <1>1 DEF Write
<1>5. seq' = seq + 2 BY <1>1, SectionsCardinality DEF Write
<1>6. \A s \in Sections : /\ row(s) \in RowType /\ row(s).dig = ops[s] /\ row(s).rev = rev
                          /\ row(s).by = by /\ row(s) # NoRow
  BY ConstantsLemma DEF RowType
<1>7. \A s \in Sections :
        /\ ptr(s) \in ExportType /\ ptr(s).dig = ops[s] /\ ptr(s).rev = rev
        /\ ptr(s).src = "canonical" /\ ptr(s).at = at(s)
  BY <1>2 DEF ExportType
<1>8. \A s \in Sections : at(s) > seq /\ at(s) <= seq + 2 /\ at(s) \in Nat BY <1>2
<1>9. \A s, t \in Sections : s # t => at(s) # at(t) BY <1>2 DEF Sections
<1> HIDE DEF row, ptr, at
<1>10. StoreType'
  <2>1. v1' \in [Sections -> RowType] /\ v2' \in [Sections -> RowType]
    BY <1>3, <1>6, ConstantsLemma DEF Core, StoreType
  <2>2. export' \in [Sections -> ExportType] /\ backfill' \in [Sections -> Body]
    BY <1>3, <1>4, <1>7, ConstantsLemma
  <2>3. seq' \in 0..MaxSeq BY <1>2, <1>5
  <2> QED BY <2>1, <2>2, <2>3 DEF Core, StoreType
<1>11. RowsOK' BY <1>3, <1>6 DEF Core, RowsOK
<1>12. OrderOK' BY <1>2, <1>4, <1>5, <1>7, <1>8, <1>9 DEF OrderOK
<1>13. Advance BY <1>2, <1>4, <1>5, <1>7, <1>8 DEF Advance
<1>14. \A s \in Sections : View'[s] = row(s)
  <2> SUFFICES ASSUME NEW s \in Sections PROVE View'[s] = row(s) OBVIOUS
  <2>1. View'[s] = IF v2'[s] # NoRow THEN v2'[s] ELSE v1'[s] BY DEF View
  <2>2. CASE fmt = 2 BY <1>3, <1>6, <2>1, <2>2
  <2>3. CASE fmt # 2
    <3>1. v2[s] = NoRow BY <2>3 DEF Core, RowsOK, StoreType
    <3> QED BY <1>3, <2>1, <2>3, <3>1
  <2> QED BY <2>2, <2>3
<1>15. ASSUME NEW s \in Sections PROVE Readable(s)'
  <2>1. v1'[s] = NoRow \/ v2'[s] = NoRow
    BY <1>3 DEF Core, RowsOK, StoreType
  <2>2. v2'[s].dig # None => v2'[s].dig \in bucket'
    <3>1. CASE fmt = 2 BY <1>3, <1>6, <3>1
    <3>2. CASE fmt # 2
      <4>1. v2'[s] = NoRow BY <1>3, <3>2 DEF Core, RowsOK, StoreType
      <4> QED BY <4>1, ConstantsLemma
    <3> QED BY <3>1, <3>2
  <2>3. /\ View'[s].dig = export'[s].dig /\ View'[s].rev = export'[s].rev
        /\ export'[s].src = "canonical"
    BY <1>4, <1>6, <1>7, <1>14
  <2> QED BY <2>1, <2>2, <2>3 DEF Readable
<1>16. ExportReadable' BY <1>15, ReadableEach DEF ExportReadable, Readable
<1>17. \A s \in Sections : /\ v1'[s].by \in {by, None, v1[s].by}
                           /\ v2'[s].by \in {by, None, v2[s].by}
  BY <1>3, <1>6, ConstantsLemma
<1>18. \A s \in Sections : View'[s].by = by /\ View'[s].rev = rev BY <1>6, <1>14
<1> QED BY <1>10, <1>11, <1>12, <1>13, <1>16, <1>17, <1>18 DEF Core

\* retireHydrationCacheSync: the rows of format 1 get a new revision.
LEMMA RewrittenLemma ==
  ASSUME Core, NEW rev \in Nat, rev > 0, Rewritten(v1, rev),
         fmt' = fmt, bucket' = bucket, seq + 2 <= MaxSeq,
         fmt = 2 => \A s \in Hydrated(v1) : Stored[v1[s].dig] \in bucket
  PROVE  /\ Core' /\ Advance
         /\ \A s \in Sections : \/ View'[s] = View[s]
                                \/ View'[s] = [dig |-> IF View[s].dig = None THEN None
                                                       ELSE Stored[View[s].dig],
                                               rev |-> rev, by |-> View[s].by]
         /\ \A s \in Sections : /\ v1'[s].by \in {v1[s].by, None}
                                /\ v2'[s].by \in {v1[s].by, v2[s].by}
<1> DEFINE D == {x \in Sections : v1[x] # NoRow}
           body(s) == IF v1[s].dig = None THEN None ELSE Stored[v1[s].dig]
           row(s) == [dig |-> body(s), rev |-> rev, by |-> v1[s].by]
           at(s) == IF s = "closed" \/ "closed" \notin D THEN seq + 1 ELSE seq + 2
           toV2(s) == fmt = 2 /\ s \in Hydrated(v1)
           ptr(s) == [export[s] EXCEPT !.dig = body(s), !.rev = rev, !.at = at(s)]
<1>1. seq \in Nat /\ seq \in 0..MaxSeq /\ MaxSeq \in Nat BY ConstantsLemma DEF Core, StoreType
<1>2. /\ v2' = [s \in Sections |-> IF s \in D /\ toV2(s) THEN row(s) ELSE v2[s]]
      /\ v1' = [s \in Sections |-> IF s \notin D THEN v1[s] ELSE IF toV2(s) THEN NoRow ELSE row(s)]
      /\ backfill' = [s \in Sections |-> IF s \in Hydrated(v1) THEN None ELSE backfill[s]]
      /\ seq' = seq + Cardinality(D)
  BY DEF Rewritten
<1>3. export' = [s \in Sections |-> IF s \in D THEN ptr(s) ELSE export[s]]
  BY DEF Rewritten, Republished
<1>4. \A s \in Sections : body(s) \in Body
  BY ConstantsLemma DEF Core, StoreType, RowType, Body
<1>5. \A s \in Sections : /\ row(s) \in RowType /\ row(s).dig = body(s) /\ row(s).rev = rev
                          /\ row(s).by = v1[s].by /\ row(s) # NoRow
  <2> SUFFICES ASSUME NEW s \in Sections
               PROVE  /\ row(s) \in RowType /\ row(s).dig = body(s) /\ row(s).rev = rev
                      /\ row(s).by = v1[s].by /\ row(s) # NoRow
    OBVIOUS
  <2>1. v1[s].by \in Plans \cup Deliveries \cup {None} BY DEF Core, StoreType, RowType
  <2>2. body(s) \in Body BY <1>4
  <2> HIDE DEF body
  <2> QED BY <2>1, <2>2, ConstantsLemma DEF RowType
<1>6. \A s \in Sections : at(s) > seq /\ at(s) \in Nat /\ at(s) <= seq + 2 BY <1>1
<1>7. \A s \in Sections :
        /\ ptr(s) \in ExportType /\ ptr(s).dig = body(s) /\ ptr(s).rev = rev
        /\ ptr(s).src = export[s].src /\ ptr(s).at = at(s)
  <2> SUFFICES ASSUME NEW s \in Sections
               PROVE  /\ ptr(s) \in ExportType /\ ptr(s).dig = body(s) /\ ptr(s).rev = rev
                      /\ ptr(s).src = export[s].src /\ ptr(s).at = at(s)
    OBVIOUS
  <2>1. body(s) \in Body /\ at(s) \in Nat /\ export[s] \in ExportType
    BY <1>4, <1>6 DEF Core, StoreType
  <2> HIDE DEF body, at
  <2> QED BY <2>1 DEF ExportType
<1>8. Cardinality(D) \in 0..2 /\ \A s \in D : at(s) <= seq + Cardinality(D)
  <2>1. CASE "closed" \in D /\ "items" \in D
    <3>1. D = Sections BY <2>1 DEF Sections
    <3>2. Cardinality(D) = 2 BY <3>1, SectionsCardinality
    <3>3. \A s \in Sections : at(s) <= seq + 2 BY <1>6
    <3> HIDE DEF D, at
    <3> QED BY <1>1, <3>1, <3>2, <3>3
  <2>2. CASE "closed" \in D /\ "items" \notin D
    <3>1. D = {"closed"} BY <2>2 DEF Sections
    <3>2. Cardinality(D) = 1 BY <3>1, SectionsCardinality, ConstantsLemma
    <3> HIDE DEF D
    <3> QED BY <1>1, <3>1, <3>2
  <2>3. CASE "closed" \notin D /\ "items" \in D
    <3>1. D = {"items"} BY <2>3 DEF Sections
    <3>2. Cardinality(D) = 1 BY <3>1, SectionsCardinality, ConstantsLemma
    <3> HIDE DEF D
    <3> QED BY <1>1, <3>1, <3>2
  <2>4. CASE "closed" \notin D /\ "items" \notin D
    <3>1. D = {} BY <2>4 DEF Sections
    <3>2. Cardinality(D) = 0 BY <3>1, SectionsCardinality
    <3> HIDE DEF D
    <3> QED BY <1>1, <3>1, <3>2
  <2> QED BY <2>1, <2>2, <2>3, <2>4
<1>9. \A s, t \in D : s # t => at(s) # at(t) BY <1>1 DEF Sections
<1>10. \A s \in Sections : s \in D <=> v1[s] # NoRow OBVIOUS
<1>11. D \subseteq Sections OBVIOUS
<1>12. \A s \in D : v2[s] = NoRow /\ View[s] = v1[s] /\ export[s].src = "canonical"
  BY <1>10, <1>11, ReadableEach, ViewType DEF Core, Readable
<1>13. \A s \in Sections : toV2(s) /\ body(s) # None => body(s) \in bucket
  BY DEF Hydrated
<1>14. \A s \in Hydrated(v1) : s \in D /\ s \in Sections
  BY ConstantsLemma DEF Hydrated
<1> HIDE DEF row, ptr, at, D, toV2
<1>15. StoreType'
  <2>1. v1' \in [Sections -> RowType] /\ v2' \in [Sections -> RowType]
    BY <1>2, <1>5, ConstantsLemma DEF Core, StoreType
  <2>2. export' \in [Sections -> ExportType] BY <1>3, <1>7 DEF Core, StoreType
  <2>3. backfill' \in [Sections -> Body] BY <1>2, ConstantsLemma DEF Core, StoreType
  <2>4. seq' \in 0..MaxSeq BY <1>1, <1>2, <1>8
  <2> QED BY <2>1, <2>2, <2>3, <2>4 DEF Core, StoreType
<1>16. RowsOK'
  <2>1. fmt = 1 => \A s \in Sections : ~toV2(s) BY DEF toV2
  <2> QED BY <1>2, <1>5, <2>1 DEF Core, RowsOK
<1>17. \A s \in Sections : export[s].at \in Nat /\ export[s].at <= seq
  BY DEF Core, StoreType, ExportType, OrderOK
<1>18. OrderOK'
  <2>1. \A s \in Sections : export'[s].at = IF s \in D THEN at(s) ELSE export[s].at
    BY <1>3, <1>7
  <2>2. seq' \in Nat /\ seq' >= seq /\ \A s \in D : at(s) <= seq' BY <1>1, <1>2, <1>8
  <2>3. \A s \in Sections : export'[s].at <= seq' BY <1>1, <1>6, <1>17, <2>1, <2>2
  <2>4. ASSUME NEW s \in Sections, NEW u \in Sections, s # u, export'[s].at > 0
        PROVE  export'[s].at # export'[u].at
    <3>1. CASE s \in D /\ u \in D BY <1>9, <2>1, <2>4, <3>1
    <3>2. CASE s \in D /\ u \notin D BY <1>1, <1>6, <1>17, <2>1, <3>2
    <3>3. CASE s \notin D /\ u \in D BY <1>1, <1>6, <1>17, <2>1, <3>3
    <3>4. CASE s \notin D /\ u \notin D BY <2>1, <2>4, <3>4 DEF Core, OrderOK
    <3> QED BY <3>1, <3>2, <3>3, <3>4
  <2> QED BY <2>3, <2>4 DEF OrderOK
<1>19. Advance BY <1>1, <1>2, <1>3, <1>6, <1>7, <1>8 DEF Advance
<1>20. \A s \in Sections : View'[s] = IF s \in D THEN row(s) ELSE View[s]
  <2> SUFFICES ASSUME NEW s \in Sections
               PROVE  View'[s] = IF s \in D THEN row(s) ELSE View[s]
    OBVIOUS
  <2>1. /\ View'[s] = IF v2'[s] # NoRow THEN v2'[s] ELSE v1'[s]
        /\ View[s] = IF v2[s] # NoRow THEN v2[s] ELSE v1[s]
    BY DEF View
  <2>2. CASE s \in D /\ toV2(s) BY <1>2, <1>5, <2>1, <2>2
  <2>3. CASE s \in D /\ ~toV2(s) BY <1>2, <1>12, <2>1, <2>3
  <2>4. CASE s \notin D BY <1>2, <2>1, <2>4
  <2> QED BY <2>2, <2>3, <2>4
<1>21. ASSUME NEW s \in Sections PROVE Readable(s)'
  <2>0. Readable(s) BY ReadableEach DEF Core
  <2>1. v1'[s] = NoRow \/ v2'[s] = NoRow
    <3>1. CASE s \in D BY <1>2, <1>12, <3>1
    <3>2. CASE s \notin D BY <1>2, <2>0, <3>2 DEF Readable
    <3> QED BY <3>1, <3>2
  <2>2. v2'[s].dig # None => v2'[s].dig \in bucket'
    <3>1. CASE s \in D /\ toV2(s) BY <1>2, <1>5, <1>13, <3>1
    <3>2. CASE ~(s \in D /\ toV2(s)) BY <1>2, <2>0, <3>2 DEF Readable
    <3> QED BY <3>1, <3>2
  <2>3. CASE s \in D
    <3>1. /\ View'[s].dig = export'[s].dig /\ View'[s].rev = export'[s].rev
          /\ export'[s].src = "canonical"
      BY <1>3, <1>5, <1>7, <1>12, <1>20, <2>3
    <3> QED BY <2>1, <2>2, <3>1 DEF Readable
  <2>4. CASE s \notin D
    <3>1. View'[s] = View[s] /\ export'[s] = export[s] /\ backfill'[s] = backfill[s]
      BY <1>2, <1>3, <1>14, <1>20, <2>4
    <3> QED BY <2>0, <2>1, <2>2, <3>1 DEF Readable
  <2> QED BY <2>3, <2>4
<1>22. ExportReadable' BY <1>21 DEF ExportReadable, Readable
<1>23. \A s \in Sections : \/ View'[s] = View[s]
                           \/ View'[s] = [dig |-> IF View[s].dig = None THEN None
                                                  ELSE Stored[View[s].dig],
                                          rev |-> rev, by |-> View[s].by]
  BY <1>12, <1>20 DEF row
<1>24. \A s \in Sections : /\ v1'[s].by \in {v1[s].by, None}
                           /\ v2'[s].by \in {v1[s].by, v2[s].by}
  BY <1>2, <1>5, ConstantsLemma
<1> QED BY <1>15, <1>16, <1>18, <1>19, <1>22, <1>23, <1>24 DEF Core

----------------------------------------------------------------------------
(* What a step leaves alone                                                *)

\* Bodies are only added, and the format never goes back.
Grows ==
  /\ bucket \subseteq bucket' /\ bucket' \subseteq Digests
  /\ fmt' \in {1, 2} /\ (fmt = 2 => fmt' = 2)

\* How the tuple may change: not, up to normalisation under a new revision ...
Normalised ==
  \A s \in Sections : \/ View'[s] = View[s]
                      \/ View'[s] = [dig |-> IF View[s].dig = None THEN None
                                             ELSE Stored[View[s].dig],
                                     rev |-> NextTupleRevision, by |-> View[s].by]

\* ... by a publication without a retained receipt ...
Published(p) ==
  /\ Authorized(p) /\ ReceiptOf(Retained, p) = {} /\ Receipt(p, "published") \in receipts'
  /\ \A s \in Sections : View'[s].by = p /\ View'[s].rev \in Nat /\ View'[s].rev >= NextTupleRevision

\* ... or by a tuple mutation without one.
Moved(d) ==
  /\ ~\E m \in RetainedMoves : m.id = d
  /\ [id |-> d, old |-> FALSE] \in moved'
  /\ \A s \in Sections : View'[s].by = d /\ View'[s].rev \in Nat /\ View'[s].rev >= NextTupleRevision

ViewStep == Normalised \/ (\E p \in Plans : Published(p)) \/ (\E d \in Deliveries : Moved(d))

LEMMA CoreQuiet ==
  ASSUME Core, UNCHANGED store, Grows
  PROVE  Core' /\ Advance /\ ViewStep
<1>1. /\ v1' = v1 /\ v2' = v2 /\ export' = export /\ backfill' = backfill /\ seq' = seq
  BY DEF store
<1>2. View' = View BY <1>1 DEF View
<1>3. StoreType' BY <1>1 DEF Core, StoreType, Grows
<1>4. RowsOK'
  <2>1. fmt' = 1 => fmt = 1 BY DEF Grows, Core, StoreType
  <2> QED BY <1>1, <2>1 DEF Core, RowsOK
<1>5. OrderOK' BY <1>1 DEF Core, OrderOK
<1>6. ExportReadable' BY <1>1, <1>2 DEF Core, ExportReadable, Grows
<1>7. Advance
  <2>1. seq \in Nat BY ConstantsLemma DEF Core, StoreType
  <2> QED BY <1>1, <2>1 DEF Advance
<1>8. ViewStep BY <1>2 DEF ViewStep, Normalised
<1> QED BY <1>3, <1>4, <1>5, <1>6, <1>7, <1>8 DEF Core

LEMMA ReplicaQuiet ==
  ASSUME Core, Core', ReplicaOK, ReplicaFaithful, Advance, replica' = replica
  PROVE  ReplicaOK' /\ ReplicaFaithful'
<1>1. seq \in Nat /\ seq' \in Nat /\ seq' >= seq BY ConstantsLemma DEF Core, StoreType, Advance
<1>2. \A s \in Sections : export[s].at \in Nat /\ export'[s].at \in Nat
  BY DEF Core, StoreType, ExportType
<1>3. replica.cursor \in Nat /\ replica.cursor <= seq BY DEF ReplicaOK
<1>4. \A s \in Sections : export'[s] = export[s] \/ export'[s].at > seq BY DEF Advance
<1>5. ReplicaFaithful'
  <2> SUFFICES ASSUME NEW s \in Sections, export'[s].at \in 1..replica'.cursor
               PROVE  replica'.copy[s] = export'[s].dig
    BY DEF ReplicaFaithful
  <2>1. export'[s].at <= seq BY <1>1, <1>2, <1>3
  <2>2. export'[s] = export[s] BY <1>1, <1>2, <1>4, <2>1
  <2> QED BY <2>2 DEF ReplicaFaithful
<1>6. ASSUME replica.page # <<>>
      PROVE  PageOK(replica.page[1], replica.cursor)'
  <2> DEFINE e == replica.page[1]
             c == replica.cursor
  <2>1. PageOK(e, c) BY <1>6 DEF ReplicaOK
  <2>2. e' = e /\ c' = c OBVIOUS
  <2> HIDE DEF e, c
  <2>3. e \in Entry /\ e.at > c /\ e.at <= seq /\ export[e.sec].at >= e.at BY <2>1 DEF PageOK
  <2>4. e.sec \in Sections /\ e.at \in Nat /\ c \in Nat BY <1>3, <2>3 DEF Entry, c
  <2>5. \A t \in Sections : /\ export[t].at <= c \/ export[t].at >= e.at
                            /\ export[t].at = e.at => t = e.sec /\ export[t].dig = e.dig
    BY <2>1 DEF PageOK
  <2>6. e.at <= seq' BY <1>1, <2>3, <2>4
  <2>7. export'[e.sec].at >= e.at BY <1>1, <1>2, <1>4, <2>3, <2>4
  <2>8. ASSUME NEW t \in Sections
        PROVE  /\ export'[t].at <= c \/ export'[t].at >= e.at
               /\ export'[t].at = e.at => t = e.sec /\ export'[t].dig = e.dig
    <3>1. CASE export'[t] = export[t] BY <2>5, <3>1
    <3>2. CASE export'[t].at > seq BY <1>1, <1>2, <2>3, <2>4, <3>2
    <3> QED BY <1>4, <3>1, <3>2
  <2>9. PageOK(e, c)' BY <2>2, <2>3, <2>6, <2>7, <2>8 DEF PageOK
  <2> QED BY <2>9 DEF e, c
<1>7. replica'.cursor <= seq' BY <1>1, <1>3
<1> QED BY <1>5, <1>6, <1>7 DEF ReplicaOK

LEMMA PassesQuiet ==
  ASSUME PassOK, SweepOK, Grows, pass' = pass, sweep' = sweep
  PROVE  PassOK' /\ SweepOK'
BY DEF PassOK, SweepOK, Grows, Hydrated

LEMMA RequestsQuiet ==
  ASSUME RequestsOK, Grows, req' = req, seen' = seen
  PROVE  RequestsOK'
BY DEF RequestsOK, RequestOK, Grows

LEMMA RequestStep ==
  ASSUME RequestsOK, Grows, seen' = seen, NEW r \in Requests, NEW new \in RequestType,
         req' = [req EXCEPT ![r] = new],
         new.pc \in PublishSteps => new.what \in Plans,
         new.pc \in MoveSteps => new.what \in Deliveries /\ seen[new.what] \in Tuple,
         new.pc = "prepared" => Stored[PlanOf[new.what].dig] \in bucket',
         new.pc = "move-prepared" => Stored[seen[new.what]["items"]] \in bucket'
  PROVE  RequestsOK'
<1>1. req' \in [Requests -> RequestType] BY DEF RequestsOK
<1>2. ASSUME NEW x \in Requests PROVE RequestOK(req[x])'
  <2>1. CASE x = r
    <3>1. req'[x] = new BY <2>1 DEF RequestsOK
    <3> QED BY <3>1 DEF RequestOK
  <2>2. CASE x # r
    <3>1. req'[x] = req[x] BY <2>2 DEF RequestsOK
    <3>2. RequestOK(req[x]) BY DEF RequestsOK
    <3> QED BY <3>1, <3>2 DEF RequestOK, Grows
  <2> QED BY <2>1, <2>2
<1> QED BY <1>1, <1>2 DEF RequestsOK

LEMMA EndLemma ==
  ASSUME RequestsOK, Grows, seen' = seen, NEW r \in Requests, End(r)
  PROVE  RequestsOK'
<1>1. Idle \in RequestType /\ Idle.pc = "idle" BY ConstantsLemma
<1>2. Idle.pc \notin PublishSteps /\ Idle.pc \notin MoveSteps BY <1>1 DEF PublishSteps, MoveSteps
<1>3. Idle.pc # "prepared" /\ Idle.pc # "move-prepared" BY <1>1
<1>4. req' = [req EXCEPT ![r] = Idle] BY DEF End
<1> HIDE DEF Idle
<1> QED BY <1>1, <1>2, <1>3, <1>4, RequestStep

LEMMA FencesQuiet ==
  ASSUME FencesOK, UNCHANGED fences,
         \A r \in receipts' : Passed(r.plan),
         \A s \in Sections : /\ v1'[s].by \in Plans => Passed(v1'[s].by)
                             /\ v2'[s].by \in Plans => Passed(v2'[s].by)
  PROVE  FencesOK'
<1>1. itemRev' = itemRev /\ head' = head /\ lane' = lane BY DEF fences
<1>2. \A p : Passed(p)' <=> Passed(p) BY <1>1 DEF Passed
<1> QED BY <1>1 DEF FencesOK, Passed

\* The steps that touch neither the store nor the fences.
LEMMA StoreQuiet ==
  ASSUME RecordsInv, UNCHANGED <<store, fences, receipts, moved, pass, sweep, replica>>, Grows,
         RequestsOK'
  PROVE  RecordsInv' /\ ViewStep
<1>1. /\ UNCHANGED store /\ UNCHANGED fences /\ receipts' = receipts /\ moved' = moved
      /\ pass' = pass /\ sweep' = sweep /\ replica' = replica
  OBVIOUS
<1>2. Core BY DEF RecordsInv, Core
<1>3. Core' /\ Advance /\ ViewStep BY <1>1, <1>2, CoreQuiet
<1>4. ReplicaOK' /\ ReplicaFaithful' BY <1>1, <1>2, <1>3, ReplicaQuiet DEF RecordsInv
<1>5. PassOK' /\ SweepOK' BY <1>1, PassesQuiet DEF RecordsInv
<1>6. FencesOK'
  <2>1. v1' = v1 /\ v2' = v2 BY DEF store
  <2> QED BY <1>1, <2>1, FencesQuiet DEF RecordsInv, FencesOK
<1>7. FenceType' BY <1>1 DEF RecordsInv, FenceType, fences
<1>8. ReceiptsOK' BY <1>1 DEF RecordsInv, ReceiptsOK
<1> QED BY <1>3, <1>4, <1>5, <1>6, <1>7, <1>8 DEF RecordsInv, Core

----------------------------------------------------------------------------
(* Requests                                                                *)

LEMMA SubmitLemma ==
  ASSUME RecordsInv, NEW r \in Requests, NEW p \in Plans, Submit(r, p)
  PROVE  RecordsInv' /\ ViewStep
<1> DEFINE new == [pc |-> "publish", what |-> p]
<1>1. /\ req' = [req EXCEPT ![r] = new]
      /\ UNCHANGED <<fmt, store, bucket, receipts, moved, fences, seen, pass, sweep, replica>>
  BY DEF Submit
<1>2. Grows BY <1>1 DEF Grows, RecordsInv, StoreType
<1>3. new \in RequestType /\ new.pc = "publish" /\ new.what = p
  BY DEF RequestType, PublishSteps
<1> HIDE DEF new
<1>4. RequestsOK' BY <1>1, <1>2, <1>3, RequestStep DEF RecordsInv, MoveSteps
<1> QED BY <1>1, <1>2, <1>4, StoreQuiet

LEMMA SeenLemma ==
  ASSUME RequestsOK, NEW d \in Deliveries
  PROVE  /\ seen[d] # Unseen <=> seen[d] \in Tuple
         /\ seen[d] \in Tuple => seen[d] \in [Sections -> Body] /\ seen[d]["items"] \in Digests
<1>1. seen[d] \in Tuple \cup {Unseen} BY DEF RequestsOK
<1>2. ASSUME NEW f \in Tuple PROVE f # Unseen
  <2>1. DOMAIN f = Sections BY DEF Tuple
  <2>2. DOMAIN Unseen = {} BY DEF Unseen
  <2> QED BY <2>1, <2>2, ConstantsLemma
<1>3. \A f \in Tuple : f \in [Sections -> Body] /\ f["items"] \in Digests BY DEF Tuple
<1> QED BY <1>1, <1>2, <1>3

LEMMA SendLemma ==
  ASSUME RecordsInv, NEW r \in Requests, NEW d \in Deliveries, Send(r, d)
  PROVE  RecordsInv' /\ ViewStep
<1> DEFINE new == [pc |-> "move", what |-> d]
<1>1. /\ req' = [req EXCEPT ![r] = new] /\ seen[d] # Unseen
      /\ UNCHANGED <<fmt, store, bucket, receipts, moved, fences, seen, pass, sweep, replica>>
  BY DEF Send, Unseen
<1>2. Grows BY <1>1 DEF Grows, RecordsInv, StoreType
<1>3. new \in RequestType /\ new.pc = "move" /\ new.what = d
  BY DEF RequestType, MoveSteps
<1>4. seen[d] \in Tuple BY <1>1, SeenLemma DEF RecordsInv
<1> HIDE DEF new
<1>5. RequestsOK' BY <1>1, <1>2, <1>3, <1>4, RequestStep DEF RecordsInv, PublishSteps
<1> QED BY <1>1, <1>2, <1>5, StoreQuiet

LEMMA UploadFailsLemma ==
  ASSUME RecordsInv, NEW r \in Requests, UploadFails(r)
  PROVE  RecordsInv' /\ ViewStep
<1>1. /\ End(r) /\ UNCHANGED <<fmt, store, bucket, receipts, moved, fences, seen, pass, sweep, replica>>
  BY DEF UploadFails
<1>2. Grows BY <1>1 DEF Grows, RecordsInv, StoreType
<1>3. RequestsOK' BY <1>1, <1>2, EndLemma DEF RecordsInv
<1> QED BY <1>1, <1>2, <1>3, StoreQuiet

LEMMA ObserveLemma ==
  ASSUME RecordsInv, NEW d \in Deliveries, Observe(d)
  PROVE  RecordsInv' /\ ViewStep
<1>1. /\ seen[d] = Unseen /\ Current["items"] # None /\ seen' = [seen EXCEPT ![d] = Current]
      /\ UNCHANGED <<fmt, store, bucket, receipts, moved, fences, req, pass, sweep, replica>>
  BY DEF Observe, Unseen
<1>2. Grows BY <1>1 DEF Grows, RecordsInv, StoreType
<1>3. Current \in Tuple
  <2>1. \A s \in Sections : View[s].dig \in Body /\ export[s].dig \in Body
    BY ViewType DEF RecordsInv, StoreType, ExportType
  <2>2. Current \in [Sections -> Body] BY <2>1 DEF Current
  <2>3. Current["items"] \in Digests BY <1>1, <2>2, ConstantsLemma DEF Body
  <2> QED BY <2>2, <2>3 DEF Tuple
<1>4. seen' \in [Deliveries -> Tuple \cup {Unseen}] BY <1>1, <1>3 DEF RecordsInv, RequestsOK
<1>5. ASSUME NEW x \in Requests PROVE RequestOK(req[x])'
  <2>1. RequestOK(req[x]) BY DEF RecordsInv, RequestsOK
  <2>2. CASE req[x].pc \in MoveSteps
    <3>1. req[x].what \in Deliveries /\ seen[req[x].what] \in Tuple
      BY <2>1, <2>2 DEF RequestOK
    <3>2. req[x].what # d BY <1>1, <3>1, SeenLemma DEF RecordsInv
    <3>3. seen'[req[x].what] = seen[req[x].what] BY <1>1, <3>1, <3>2 DEF RecordsInv, RequestsOK
    <3> QED BY <1>1, <2>1, <3>3 DEF RequestOK
  <2>3. CASE req[x].pc \notin MoveSteps BY <1>1, <2>1, <2>3 DEF RequestOK, MoveSteps
  <2> QED BY <2>2, <2>3
<1>6. RequestsOK' BY <1>1, <1>4, <1>5 DEF RecordsInv, RequestsOK
<1> QED BY <1>1, <1>2, <1>6, StoreQuiet

LEMMA ReprepareLemma ==
  ASSUME RecordsInv, NEW r \in Requests, Reprepare(r)
  PROVE  RecordsInv' /\ ViewStep
<1> DEFINE w == req[r].what
           dig == IF w \in Plans THEN PlanOf[w].dig ELSE seen[w]["items"]
           pc == IF req[r].pc = "unprepared" THEN "prepared" ELSE "move-prepared"
           new == [req[r] EXCEPT !.pc = pc]
<1>1. /\ req[r].pc \in {"unprepared", "move-unprepared"} /\ fmt = 2
      /\ req' = [req EXCEPT ![r] = new]
      /\ bucket' = bucket \cup {Stored[dig]}
      /\ UNCHANGED <<fmt, store, receipts, moved, fences, seen, pass, sweep, replica>>
  BY DEF Reprepare
<1>2. RequestOK(req[r]) /\ req[r] \in RequestType BY DEF RecordsInv, RequestsOK
<1>3. new \in RequestType /\ new.pc = pc /\ new.what = w
  BY <1>2 DEF RequestType, PublishSteps, MoveSteps
<1>4. CASE req[r].pc = "unprepared"
  <2>1. w \in Plans BY <1>2, <1>4 DEF RequestOK, PublishSteps
  <2>2. dig = PlanOf[w].dig /\ Stored[dig] \in Digests BY <2>1, ConstantsLemma
  <2>3. Grows BY <1>1, <2>2 DEF Grows, RecordsInv, StoreType
  <2>4. pc = "prepared" BY <1>4
  <2>5. Stored[PlanOf[w].dig] \in bucket' BY <1>1, <2>2
  <2> HIDE DEF new, w, dig, pc
  <2>6. RequestsOK' BY <1>1, <1>3, <2>1, <2>3, <2>4, <2>5, RequestStep DEF RecordsInv, MoveSteps
  <2> QED BY <1>1, <2>3, <2>6, StoreQuiet
<1>5. CASE req[r].pc = "move-unprepared"
  <2>1. w \in Deliveries /\ seen[w] \in Tuple BY <1>2, <1>5 DEF RequestOK, MoveSteps
  <2>2. w \notin Plans BY <2>1, PlansAssumption
  <2>3. seen[w]["items"] \in Digests BY <2>1, SeenLemma DEF RecordsInv
  <2>4. dig = seen[w]["items"] /\ Stored[dig] \in Digests BY <2>2, <2>3, ConstantsLemma
  <2>5. Grows BY <1>1, <2>4 DEF Grows, RecordsInv, StoreType
  <2>6. pc = "move-prepared" BY <1>5
  <2>7. Stored[seen[w]["items"]] \in bucket' BY <1>1, <2>4
  <2> HIDE DEF new, w, dig, pc
  <2>8. RequestsOK' BY <1>1, <1>3, <2>1, <2>5, <2>6, <2>7, RequestStep DEF RecordsInv, PublishSteps
  <2> QED BY <1>1, <2>5, <2>8, StoreQuiet
<1> QED BY <1>1, <1>4, <1>5

----------------------------------------------------------------------------
(* Publications                                                            *)

\* A publication that may be written is not newer than its fence.
LEMMA AuthorizedPassed ==
  ASSUME ReceiptsOK, FencesOK, NEW p \in Plans, Authorized(p)
  PROVE  Passed(p)
<1>1. CASE BatchOwned(p) BY <1>1 DEF BatchOwned, FencesOK, Passed
<1>2. CASE ~PlanOf[p].batch /\ itemRev = PlanOf[p].rev BY <1>2, ConstantsLemma DEF Passed
<1>3. CASE ReceiptOf(receipts, p) # {}
  <2>1. PICK x \in receipts : x.fence = PlanOf[p].fence /\ x.rev = PlanOf[p].rev
    BY <1>3 DEF ReceiptOf
  <2>2. x.plan \in Plans BY DEF ReceiptsOK, ReceiptType
  <2>3. PlanOf[x.plan].fence = PlanOf[p].fence /\ PlanOf[x.plan].rev = PlanOf[p].rev
    BY <2>1 DEF ReceiptsOK
  <2>4. /\ PlanOf[x.plan].batch = PlanOf[p].batch
        /\ PlanOf[p].batch => PlanOf[x.plan].src = PlanOf[p].src
    BY <2>2, <2>3, FencesAssumption
  <2>5. Passed(x.plan) BY DEF FencesOK
  <2> QED BY <2>3, <2>4, <2>5 DEF Passed
<1> QED BY <1>1, <1>2, <1>3 DEF Authorized, ValidFence

LEMMA ReceiptLemma ==
  ASSUME NEW p \in Plans, NEW st \in {"published", "superseded"}
  PROVE  /\ Receipt(p, st) \in ReceiptType /\ Receipt(p, st).plan = p /\ ~Receipt(p, st).old
         /\ Receipt(p, st).fence = PlanOf[p].fence /\ Receipt(p, st).rev = PlanOf[p].rev
BY ConstantsLemma DEF Receipt, ReceiptType

\* A receipt is added where no retained one is.
LEMMA ReceiptAdded ==
  ASSUME ReceiptsOK, NEW p \in Plans, NEW st \in {"published", "superseded"},
         ReceiptOf(Retained, p) = {}, receipts' = Retained \cup {Receipt(p, st)}, moved' = moved
  PROVE  ReceiptsOK' /\ \A r \in receipts' : r \in receipts \/ r.plan = p
<1> DEFINE new == Receipt(p, st)
<1>1. /\ new \in ReceiptType /\ new.plan = p
      /\ new.fence = PlanOf[p].fence /\ new.rev = PlanOf[p].rev
  BY ReceiptLemma
<1>2. receipts' = Retained \cup {new} OBVIOUS
<1> HIDE DEF new
<1>3. Retained \subseteq receipts BY DEF Retained
<1>4. \A r \in Retained : ~(r.fence = new.fence /\ r.rev = new.rev) BY <1>1 DEF ReceiptOf
<1>5. receipts' \subseteq ReceiptType /\ moved' \subseteq MoveType BY <1>1, <1>2, <1>3 DEF ReceiptsOK
<1>6. \A q, r \in receipts' : q.fence = r.fence /\ q.rev = r.rev => q = r
  BY <1>2, <1>3, <1>4 DEF ReceiptsOK
<1>7. \A r \in receipts' : r.fence = PlanOf[r.plan].fence /\ r.rev = PlanOf[r.plan].rev
  BY <1>1, <1>2, <1>3 DEF ReceiptsOK
<1> QED BY <1>1, <1>2, <1>3, <1>5, <1>6, <1>7 DEF ReceiptsOK

LEMMA OperationsLemma ==
  ASSUME NEW sec \in Sections, NEW dig \in Digests
  PROVE  /\ Operations(sec, dig) \in [Sections -> Body]
         /\ \A s \in Sections : Operations(sec, dig)[s] \in {Stored[dig], None}
BY ConstantsLemma DEF Operations, Body

\* accept, after the last await.
LEMMA AcceptLemma ==
  ASSUME RecordsInv, NEW p \in Plans, Authorized(p), Accept(p),
         UNCHANGED <<fmt, bucket, moved, fences>>,
         NeedsBodies(p) => seq + 2 <= MaxSeq,
         NeedsBodies(p) /\ fmt = 2 => Stored[PlanOf[p].dig] \in bucket
  PROVE  Core' /\ Advance /\ ReceiptsOK' /\ FencesOK' /\ ViewStep
<1>1. Core /\ StoreType /\ ReceiptsOK /\ FencesOK BY DEF RecordsInv, Core
<1>2. Passed(p) BY <1>1, AuthorizedPassed
<1>3. Grows BY DEF Grows, RecordsInv, StoreType
<1>4. UNCHANGED fences /\ moved' = moved /\ fmt' = fmt /\ bucket' = bucket OBVIOUS
<1>5. ASSUME UNCHANGED store, receipts' \subseteq receipts
      PROVE  Core' /\ Advance /\ ReceiptsOK' /\ FencesOK' /\ ViewStep
  <2>1. Core' /\ Advance /\ ViewStep BY <1>1, <1>3, <1>5, CoreQuiet
  <2>2. ReceiptsOK' BY <1>1, <1>4, <1>5 DEF ReceiptsOK
  <2>3. v1' = v1 /\ v2' = v2 BY <1>5 DEF store
  <2>4. FencesOK' BY <1>1, <1>4, <1>5, <2>3, FencesQuiet DEF FencesOK
  <2> QED BY <2>1, <2>2, <2>4
<1>6. Retained \subseteq receipts BY DEF Retained
<1>7. CASE UNCHANGED <<store, receipts>> BY <1>5, <1>7
<1>8. CASE UNCHANGED store /\ receipts' \in {Retained, receipts} BY <1>5, <1>6, <1>8
<1>9. CASE /\ ReceiptOf(Retained, p) = {} /\ UNCHANGED store
           /\ receipts' = Retained \cup {Receipt(p, "superseded")}
  <2>1. Core' /\ Advance /\ ViewStep BY <1>1, <1>3, <1>9, CoreQuiet
  <2>2. ReceiptsOK' /\ \A r \in receipts' : r \in receipts \/ r.plan = p
    BY <1>1, <1>4, <1>9, ReceiptAdded
  <2>3. v1' = v1 /\ v2' = v2 BY <1>9 DEF store
  <2>4. \A r \in receipts' : Passed(r.plan) BY <1>1, <1>2, <2>2 DEF FencesOK
  <2>5. FencesOK' BY <1>1, <1>4, <2>3, <2>4, FencesQuiet DEF FencesOK
  <2> QED BY <2>1, <2>2, <2>5
<1>10. CASE /\ ReceiptOf(Retained, p) = {} /\ NewerThan(Retained, p) = {}
            /\ receipts' = Retained \cup {Receipt(p, "published")}
            /\ Write(Operations(PlanOf[p].sec, PlanOf[p].dig), PlanOf[p].sec,
                     Newest({PlanOf[p].rev, NextTupleRevision}), p)
  <2> DEFINE ops == Operations(PlanOf[p].sec, PlanOf[p].dig)
             first == PlanOf[p].sec
             rev == Newest({PlanOf[p].rev, NextTupleRevision})
  <2>1. NeedsBodies(p) BY <1>10 DEF NeedsBodies
  <2>2. NextTupleRevision \in Nat /\ NextTupleRevision > 0 BY <1>1, TupleRevision
  <2>3. rev \in Nat /\ rev >= NextTupleRevision /\ rev > 0
    <3>1. PlanOf[p].rev \in Nat BY ConstantsLemma
    <3>2. rev \in {PlanOf[p].rev, NextTupleRevision} /\ rev >= NextTupleRevision
      BY <2>2, <3>1, NewestTwo
    <3> HIDE DEF rev
    <3> QED BY <2>2, <3>1, <3>2
  <2>4. first \in Sections /\ ops \in [Sections -> Body] BY ConstantsLemma, OperationsLemma
  <2>5. \A s \in Sections : ops[s] \in {Stored[PlanOf[p].dig], None}
    BY ConstantsLemma, OperationsLemma
  <2>6. fmt = 2 => \A s \in Sections : ops[s] # None => ops[s] \in bucket BY <2>1, <2>5
  <2>7. Write(ops, first, rev, p) BY <1>10
  <2> HIDE DEF ops, first, rev
  <2>8. /\ Core' /\ Advance
        /\ \A s \in Sections : View'[s].by = p /\ View'[s].rev = rev
        /\ \A s \in Sections : /\ v1'[s].by \in {p, None, v1[s].by}
                               /\ v2'[s].by \in {p, None, v2[s].by}
    BY <1>1, <1>4, <2>1, <2>3, <2>4, <2>6, <2>7, WriteLemma
  <2>9. ReceiptsOK' /\ \A r \in receipts' : r \in receipts \/ r.plan = p
    BY <1>1, <1>4, <1>10, ReceiptAdded
  <2>10. \A r \in receipts' : Passed(r.plan) BY <1>1, <1>2, <2>9 DEF FencesOK
  <2>11. \A s \in Sections : /\ v1'[s].by \in Plans => Passed(v1'[s].by)
                             /\ v2'[s].by \in Plans => Passed(v2'[s].by)
    BY <1>1, <1>2, <2>8, ConstantsLemma DEF FencesOK
  <2>12. FencesOK' BY <1>1, <1>4, <2>10, <2>11, FencesQuiet
  <2>13. \A s \in Sections : View'[s].by = p /\ View'[s].rev \in Nat /\ View'[s].rev >= NextTupleRevision
    BY <2>3, <2>8
  <2>14. Receipt(p, "published") \in receipts' BY <1>10
  <2>15. Published(p) BY <1>10, <2>13, <2>14 DEF Published
  <2> QED BY <2>8, <2>9, <2>12, <2>15 DEF ViewStep
<1>11. \/ UNCHANGED <<store, receipts>>
       \/ UNCHANGED store /\ receipts' \in {Retained, receipts}
       \/ /\ ReceiptOf(Retained, p) = {} /\ UNCHANGED store
          /\ receipts' = Retained \cup {Receipt(p, "superseded")}
       \/ /\ ReceiptOf(Retained, p) = {} /\ NewerThan(Retained, p) = {}
          /\ receipts' = Retained \cup {Receipt(p, "published")}
          /\ Write(Operations(PlanOf[p].sec, PlanOf[p].dig), PlanOf[p].sec,
                   Newest({PlanOf[p].rev, NextTupleRevision}), p)
  BY Zenon DEF Accept
<1> QED BY <1>7, <1>8, <1>9, <1>10, <1>11

\* What the commits of publications and of moves have in common.
LEMMA WriterQuiet ==
  ASSUME RecordsInv, Core', Advance, ReceiptsOK', FencesOK', RequestsOK', Grows,
         UNCHANGED <<fences, pass, sweep, replica>>
  PROVE  RecordsInv'
<1>1. /\ UNCHANGED fences /\ pass' = pass /\ sweep' = sweep /\ replica' = replica OBVIOUS
<1>2. Core BY DEF RecordsInv, Core
<1>3. ReplicaOK' /\ ReplicaFaithful' BY <1>1, <1>2, ReplicaQuiet DEF RecordsInv
<1>4. PassOK' /\ SweepOK' BY <1>1, PassesQuiet DEF RecordsInv
<1>5. FenceType' BY <1>1 DEF RecordsInv, FenceType, fences
<1> QED BY <1>3, <1>4, <1>5 DEF RecordsInv, Core

LEMMA PublishLemma ==
  ASSUME RecordsInv, NEW r \in Requests, Publish(r)
  PROVE  RecordsInv' /\ ViewStep
<1> DEFINE p == req[r].what
<1>1. /\ req[r].pc = "publish"
      /\ UNCHANGED <<fmt, moved, fences, seen, pass, sweep, replica>>
  BY DEF Publish
<1>2. RequestOK(req[r]) /\ req[r] \in RequestType /\ RequestsOK BY DEF RecordsInv, RequestsOK
<1>3. p \in Plans BY <1>1, <1>2 DEF RequestOK, PublishSteps
<1>4. CASE ~Authorized(p) /\ End(r) /\ UNCHANGED <<store, receipts, bucket>>
  <2>1. Grows BY <1>1, <1>4 DEF Grows, RecordsInv, StoreType
  <2>2. RequestsOK' BY <1>1, <1>2, <1>4, <2>1, EndLemma
  <2> QED BY <1>1, <1>4, <2>1, <2>2, StoreQuiet
<1>5. CASE Authorized(p) /\ ~NeedsBodies(p) /\ Accept(p) /\ End(r) /\ UNCHANGED bucket
  <2>1. Grows BY <1>1, <1>5 DEF Grows, RecordsInv, StoreType
  <2>2. RequestsOK' BY <1>1, <1>2, <1>5, <2>1, EndLemma
  <2> HIDE DEF p
  <2>3. Core' /\ Advance /\ ReceiptsOK' /\ FencesOK' /\ ViewStep
    BY <1>1, <1>3, <1>5, AcceptLemma
  <2> QED BY <1>1, <2>1, <2>2, <2>3, WriterQuiet
<1>6. CASE /\ req' = [req EXCEPT ![r].pc = IF fmt = 1 THEN "unprepared" ELSE "prepared"]
           /\ bucket' = IF fmt = 1 THEN bucket ELSE bucket \cup {Stored[PlanOf[p].dig]}
           /\ UNCHANGED <<store, receipts>>
  <2> DEFINE pc == IF fmt = 1 THEN "unprepared" ELSE "prepared"
             new == [req[r] EXCEPT !.pc = pc]
  <2>1. Stored[PlanOf[p].dig] \in Digests BY <1>3, ConstantsLemma
  <2>2. Grows BY <1>1, <1>6, <2>1 DEF Grows, RecordsInv, StoreType
  <2>3. req' = [req EXCEPT ![r] = new] BY <1>6
  <2>4. new \in RequestType /\ new.pc = pc /\ new.what = p BY <1>2 DEF RequestType, PublishSteps
  <2>5. pc = "prepared" => Stored[PlanOf[p].dig] \in bucket' BY <1>6
  <2>6. pc \in {"unprepared", "prepared"} OBVIOUS
  <2> HIDE DEF pc, new, p
  <2>7. RequestsOK'
    BY <1>1, <1>2, <1>3, <2>2, <2>3, <2>4, <2>5, <2>6, RequestStep DEF MoveSteps
  <2> QED BY <1>1, <1>6, <2>2, <2>7, StoreQuiet
<1> QED BY <1>4, <1>5, <1>6 DEF Publish

LEMMA CommitLemma ==
  ASSUME RecordsInv, NEW r \in Requests, Commit(r)
  PROVE  RecordsInv' /\ ViewStep
<1> DEFINE p == req[r].what
<1>1. /\ req[r].pc \in {"unprepared", "prepared"} /\ (req[r].pc = "unprepared" => fmt = 1)
      /\ seq + 2 <= MaxSeq /\ End(r)
      /\ UNCHANGED <<fmt, bucket, moved, fences, seen, pass, sweep, replica>>
  BY DEF Commit
<1>2. RequestOK(req[r]) /\ RequestsOK BY DEF RecordsInv, RequestsOK
<1>3. p \in Plans BY <1>1, <1>2 DEF RequestOK, PublishSteps
<1>4. fmt = 2 => Stored[PlanOf[p].dig] \in bucket BY <1>1, <1>2 DEF RequestOK
<1>5. Grows BY <1>1 DEF Grows, RecordsInv, StoreType
<1>6. RequestsOK' BY <1>1, <1>2, <1>5, EndLemma
<1>7. CASE UNCHANGED <<store, receipts>> BY <1>1, <1>5, <1>6, <1>7, StoreQuiet
<1>8. CASE Authorized(p) /\ Accept(p)
  <2> HIDE DEF p
  <2>1. Core' /\ Advance /\ ReceiptsOK' /\ FencesOK' /\ ViewStep
    BY <1>1, <1>3, <1>4, <1>8, AcceptLemma
  <2> QED BY <1>1, <1>5, <1>6, <2>1, WriterQuiet
<1> QED BY <1>7, <1>8 DEF Commit

----------------------------------------------------------------------------
(* Tuple mutations                                                         *)

\* acceptCanonicalTupleMutation, after the last await.
LEMMA AcceptMoveLemma ==
  ASSUME RecordsInv, NEW d \in Deliveries, AcceptMove(d), seen[d] \in Tuple,
         UNCHANGED <<fmt, bucket, receipts, fences>>,
         (\E m \in RetainedMoves : m.id = d) \/ seq + 2 <= MaxSeq,
         (\E m \in RetainedMoves : m.id = d) \/ (fmt = 2 => Stored[seen[d]["items"]] \in bucket)
  PROVE  Core' /\ Advance /\ ReceiptsOK' /\ FencesOK' /\ ViewStep
<1>1. Core /\ StoreType /\ ReceiptsOK /\ FencesOK BY DEF RecordsInv, Core
<1>2. Grows BY DEF Grows, RecordsInv, StoreType
<1>3. UNCHANGED fences /\ receipts' = receipts /\ fmt' = fmt /\ bucket' = bucket OBVIOUS
<1>4. RetainedMoves \subseteq moved BY DEF RetainedMoves
<1>5. ASSUME moved' \subseteq MoveType PROVE ReceiptsOK' BY <1>1, <1>3, <1>5 DEF ReceiptsOK
<1>6. CASE UNCHANGED store /\ moved' \in {RetainedMoves, moved}
  <2>1. Core' /\ Advance /\ ViewStep BY <1>1, <1>2, <1>6, CoreQuiet
  <2>2. ReceiptsOK' BY <1>1, <1>4, <1>5, <1>6 DEF ReceiptsOK
  <2>3. v1' = v1 /\ v2' = v2 BY <1>6 DEF store
  <2>4. FencesOK' BY <1>1, <1>3, <2>3, FencesQuiet DEF FencesOK
  <2> QED BY <2>1, <2>2, <2>4
<1>7. CASE /\ ~\E m \in RetainedMoves : m.id = d
           /\ moved' = RetainedMoves \cup {[id |-> d, old |-> FALSE]}
           /\ Write(Operations("closed", seen[d]["items"]), "closed", NextTupleRevision, d)
  <2> DEFINE ops == Operations("closed", seen[d]["items"])
             rev == NextTupleRevision
  <2>1. seen[d]["items"] \in Digests BY SeenLemma DEF RecordsInv
  <2>2. rev \in Nat /\ rev > 0 BY <1>1, TupleRevision
  <2>3. ops \in [Sections -> Body] BY <2>1, ConstantsLemma, OperationsLemma
  <2>4. \A s \in Sections : ops[s] \in {Stored[seen[d]["items"]], None}
    BY <2>1, ConstantsLemma, OperationsLemma
  <2>5. fmt = 2 => \A s \in Sections : ops[s] # None => ops[s] \in bucket BY <1>7, <2>4
  <2>6. Write(ops, "closed", rev, d) BY <1>7
  <2> HIDE DEF ops, rev
  <2>7. /\ Core' /\ Advance
        /\ \A s \in Sections : View'[s].by = d /\ View'[s].rev = rev
        /\ \A s \in Sections : /\ v1'[s].by \in {d, None, v1[s].by}
                               /\ v2'[s].by \in {d, None, v2[s].by}
    BY <1>1, <1>3, <1>7, <2>2, <2>3, <2>5, <2>6, ConstantsLemma, WriteLemma
  <2>8. moved' \subseteq MoveType
    <3>1. [id |-> d, old |-> FALSE] \in MoveType BY DEF MoveType
    <3>2. moved \subseteq MoveType BY <1>1 DEF ReceiptsOK
    <3> QED BY <1>4, <1>7, <3>1, <3>2
  <2>9. d \notin Plans BY PlansAssumption
  <2>10. \A s \in Sections : /\ v1'[s].by \in Plans => Passed(v1'[s].by)
                             /\ v2'[s].by \in Plans => Passed(v2'[s].by)
    BY <1>1, <2>7, <2>9, ConstantsLemma DEF FencesOK
  <2>11. FencesOK' BY <1>1, <1>3, <2>10, FencesQuiet DEF FencesOK
  <2>12. \A s \in Sections : View'[s].by = d /\ View'[s].rev \in Nat /\ View'[s].rev >= NextTupleRevision
    BY <2>2, <2>7 DEF rev
  <2>13. [id |-> d, old |-> FALSE] \in moved' BY <1>7
  <2>14. Moved(d) BY <1>7, <2>12, <2>13 DEF Moved
  <2> QED BY <1>5, <2>7, <2>8, <2>11, <2>14 DEF ViewStep
<1> QED BY <1>6, <1>7 DEF AcceptMove

LEMMA MoveLemma ==
  ASSUME RecordsInv, NEW r \in Requests, Move(r)
  PROVE  RecordsInv' /\ ViewStep
<1> DEFINE d == req[r].what
<1>1. /\ req[r].pc = "move"
      /\ UNCHANGED <<fmt, receipts, fences, seen, pass, sweep, replica>>
  BY DEF Move
<1>2. RequestOK(req[r]) /\ req[r] \in RequestType /\ RequestsOK BY DEF RecordsInv, RequestsOK
<1>3. d \in Deliveries /\ seen[d] \in Tuple BY <1>1, <1>2 DEF RequestOK, MoveSteps
<1>4. CASE (\E m \in RetainedMoves : m.id = d) /\ AcceptMove(d) /\ End(r) /\ UNCHANGED bucket
  <2>1. Grows BY <1>1, <1>4 DEF Grows, RecordsInv, StoreType
  <2>2. RequestsOK' BY <1>1, <1>2, <1>4, <2>1, EndLemma
  <2> HIDE DEF d
  <2>3. Core' /\ Advance /\ ReceiptsOK' /\ FencesOK' /\ ViewStep
    BY <1>1, <1>3, <1>4, AcceptMoveLemma
  <2> QED BY <1>1, <2>1, <2>2, <2>3, WriterQuiet
<1>5. CASE /\ req' = [req EXCEPT ![r].pc = IF fmt = 1 THEN "move-unprepared" ELSE "move-prepared"]
           /\ bucket' = IF fmt = 1 THEN bucket ELSE bucket \cup {Stored[seen[d]["items"]]}
           /\ UNCHANGED <<moved, store>>
  <2> DEFINE pc == IF fmt = 1 THEN "move-unprepared" ELSE "move-prepared"
             new == [req[r] EXCEPT !.pc = pc]
  <2>1. Stored[seen[d]["items"]] \in Digests BY <1>2, <1>3, SeenLemma, ConstantsLemma
  <2>2. Grows BY <1>1, <1>5, <2>1 DEF Grows, RecordsInv, StoreType
  <2>3. req' = [req EXCEPT ![r] = new] BY <1>5
  <2>4. new \in RequestType /\ new.pc = pc /\ new.what = d BY <1>2 DEF RequestType, MoveSteps
  <2>5. pc = "move-prepared" => Stored[seen[d]["items"]] \in bucket' BY <1>5
  <2>6. pc \in {"move-unprepared", "move-prepared"} OBVIOUS
  <2> HIDE DEF pc, new, d
  <2>7. RequestsOK'
    BY <1>1, <1>2, <1>3, <2>2, <2>3, <2>4, <2>5, <2>6, RequestStep DEF PublishSteps
  <2> QED BY <1>1, <1>5, <2>2, <2>7, StoreQuiet
<1> QED BY <1>4, <1>5 DEF Move

LEMMA CommitMoveLemma ==
  ASSUME RecordsInv, NEW r \in Requests, CommitMove(r)
  PROVE  RecordsInv' /\ ViewStep
<1> DEFINE d == req[r].what
<1>1. /\ req[r].pc \in {"move-unprepared", "move-prepared"}
      /\ (req[r].pc = "move-unprepared" => fmt = 1) /\ seq + 2 <= MaxSeq
      /\ AcceptMove(d) /\ End(r)
      /\ UNCHANGED <<fmt, bucket, receipts, fences, seen, pass, sweep, replica>>
  BY DEF CommitMove
<1>2. RequestOK(req[r]) /\ RequestsOK BY DEF RecordsInv, RequestsOK
<1>3. d \in Deliveries /\ seen[d] \in Tuple BY <1>1, <1>2 DEF RequestOK, MoveSteps
<1>4. fmt = 2 => Stored[seen[d]["items"]] \in bucket BY <1>1, <1>2 DEF RequestOK
<1>5. Grows BY <1>1 DEF Grows, RecordsInv, StoreType
<1>6. RequestsOK' BY <1>1, <1>2, <1>5, EndLemma
<1> HIDE DEF d
<1>7. Core' /\ Advance /\ ReceiptsOK' /\ FencesOK' /\ ViewStep
  BY <1>1, <1>3, <1>4, AcceptMoveLemma
<1> QED BY <1>1, <1>5, <1>6, <1>7, WriterQuiet

----------------------------------------------------------------------------
(* Maintenance                                                             *)

\* The steps that change neither the store nor the fences, whatever they do to
\* receipts, passes and the replica.
LEMMA StoreStep ==
  ASSUME RecordsInv, UNCHANGED <<store, fences>>, Grows, RequestsOK', ReceiptsOK',
         \A r \in receipts' : Passed(r.plan), PassOK', SweepOK', ReplicaOK', ReplicaFaithful'
  PROVE  RecordsInv' /\ ViewStep
<1>1. UNCHANGED store /\ UNCHANGED fences OBVIOUS
<1>2. Core BY DEF RecordsInv, Core
<1>3. Core' /\ Advance /\ ViewStep BY <1>1, <1>2, CoreQuiet
<1>4. FencesOK'
  <2>1. v1' = v1 /\ v2' = v2 BY DEF store
  <2> QED BY <1>1, <2>1, FencesQuiet DEF RecordsInv, FencesOK
<1>5. FenceType' BY <1>1 DEF RecordsInv, FenceType, fences
<1> QED BY <1>3, <1>4, <1>5 DEF RecordsInv, Core

LEMMA ReplicaStill ==
  ASSUME RecordsInv, UNCHANGED store, replica' = replica
  PROVE  ReplicaOK' /\ ReplicaFaithful'
<1>1. export' = export /\ seq' = seq BY DEF store
<1> QED BY <1>1 DEF RecordsInv, ReplicaOK, ReplicaFaithful, PageOK

LEMMA ActivateLemma ==
  ASSUME RecordsInv, Activate
  PROVE  RecordsInv' /\ ViewStep
<1>1. /\ fmt' = 2
      /\ UNCHANGED <<store, bucket, receipts, moved, fences, req, seen, pass, sweep, replica>>
  BY DEF Activate
<1>2. Grows BY <1>1 DEF Grows, RecordsInv, StoreType
<1>3. RequestsOK' BY <1>1, <1>2, RequestsQuiet DEF RecordsInv
<1> QED BY <1>1, <1>2, <1>3, StoreQuiet

LEMMA PrepareTieringLemma ==
  ASSUME RecordsInv, PrepareTiering
  PROVE  RecordsInv' /\ ViewStep
<1> DEFINE bodies == {v1[s].dig : s \in {x \in Sections : v1[x].dig # None}}
<1>1. /\ fmt = 2 /\ pass' = <<Snapshot>> /\ bucket' = bucket \cup bodies
      /\ UNCHANGED <<fmt, store, receipts, moved, fences, req, seen, sweep, replica>>
  BY DEF PrepareTiering
<1>2. \A s \in Sections : v1[s].dig \in Body BY DEF RecordsInv, StoreType, RowType
<1>3. bodies \subseteq Digests BY <1>2 DEF Body
<1>4. \A s \in Sections : v1[s].dig # None => v1[s].dig \in bodies OBVIOUS
<1> HIDE DEF bodies
<1>5. Grows BY <1>1, <1>3 DEF Grows, RecordsInv, StoreType
<1>6. RequestsOK' BY <1>1, <1>5, RequestsQuiet DEF RecordsInv
<1>7. PassOK'
  <2>1. pass'[1].rows = View BY <1>1 DEF Snapshot
  <2>2. View \in [Sections -> RowType] BY ViewType DEF RecordsInv
  <2>3. ASSUME NEW s \in Sections, View[s].dig # None PROVE View[s].dig \in bucket'
    <3>1. View[s] = (IF v2[s] # NoRow THEN v2[s] ELSE v1[s]) BY ViewType DEF RecordsInv
    <3>2. v2[s].dig # None => v2[s].dig \in bucket BY DEF RecordsInv, ExportReadable
    <3> QED BY <1>1, <1>4, <2>3, <3>1, <3>2
  <2>4. fmt' = 2 BY <1>1
  <2> QED BY <2>1, <2>2, <2>3, <2>4 DEF PassOK
<1>8. SweepOK' BY <1>1, <1>5 DEF RecordsInv, SweepOK, Grows, Hydrated
<1>9. ReplicaOK' /\ ReplicaFaithful' BY <1>1, ReplicaStill
<1>10. ReceiptsOK' /\ \A r \in receipts' : Passed(r.plan)
  BY <1>1 DEF RecordsInv, ReceiptsOK, FencesOK
<1> QED BY <1>1, <1>5, <1>6, <1>7, <1>8, <1>9, <1>10, StoreStep

LEMMA CommitTieringLemma ==
  ASSUME RecordsInv, CommitTiering
  PROVE  RecordsInv' /\ ViewStep
<1>1. /\ pass # <<>> /\ pass' = <<>>
      /\ UNCHANGED <<fmt, export, backfill, bucket, seq, receipts, moved, fences, req, seen, sweep, replica>>
  BY DEF CommitTiering
<1>2. Grows BY <1>1 DEF Grows, RecordsInv, StoreType
<1>3. RequestsOK' BY <1>1, <1>2, RequestsQuiet DEF RecordsInv
<1>4. ReceiptsOK' /\ \A r \in receipts' : Passed(r.plan)
  BY <1>1 DEF RecordsInv, ReceiptsOK, FencesOK
<1>5. PassOK' BY <1>1 DEF PassOK
<1>6. SweepOK' BY <1>1, <1>2 DEF RecordsInv, SweepOK, Grows, Hydrated
<1>7. ReplicaOK' /\ ReplicaFaithful'
  BY <1>1 DEF RecordsInv, ReplicaOK, ReplicaFaithful, PageOK
<1>8. CASE UNCHANGED <<v1, v2>>
  <2>1. UNCHANGED store BY <1>1, <1>8 DEF store
  <2> QED BY <1>1, <1>2, <1>3, <1>4, <1>5, <1>6, <1>7, <2>1, StoreStep
<1>9. CASE /\ pass[1].rows = View
           /\ v2' = [s \in Sections |-> IF View[s] # NoRow THEN View[s] ELSE v2[s]]
           /\ v1' = [s \in Sections |-> IF View[s] # NoRow THEN NoRow ELSE v1[s]]
  <2>1. fmt = 2 /\ \A s \in Sections : View[s].dig # None => View[s].dig \in bucket
    BY <1>1, <1>9 DEF RecordsInv, PassOK
  <2>2. /\ View \in [Sections -> RowType]
        /\ \A s \in Sections : View[s] = (IF v2[s] # NoRow THEN v2[s] ELSE v1[s])
    BY ViewType DEF RecordsInv
  <2>3. \A s \in Sections :
          IF View[s] # NoRow THEN v2'[s] = View[s] /\ v1'[s] = NoRow
                             ELSE v2'[s] = NoRow /\ v1'[s] = NoRow
    BY <1>9, <2>2
  <2>4. View' = View
    <3>1. \A s \in Sections : View'[s] = View[s]
      <4> SUFFICES ASSUME NEW s \in Sections PROVE View'[s] = View[s] OBVIOUS
      <4>1. View'[s] = IF v2'[s] # NoRow THEN v2'[s] ELSE v1'[s] BY DEF View
      <4> QED BY <2>3, <4>1
    <3> QED BY <3>1, Zenon DEF View
  <2>5. v1' \in [Sections -> RowType] /\ v2' \in [Sections -> RowType]
    BY <1>9, <2>2, ConstantsLemma DEF RecordsInv, StoreType
  <2>6. StoreType' BY <1>1, <2>5 DEF RecordsInv, StoreType
  <2>7. RowsOK'
    <3>1. \A s \in Sections : View[s] # NoRow => View[s].rev > 0
      BY <2>2 DEF RecordsInv, RowsOK
    <3> QED BY <1>1, <2>1, <2>3, <3>1 DEF RowsOK
  <2>8. OrderOK' BY <1>1 DEF RecordsInv, OrderOK
  <2>9. ExportReadable'
    <3>1. \A s \in Sections : v1'[s] = NoRow BY <2>3
    <3>2. \A s \in Sections : v2'[s].dig # None => v2'[s].dig \in bucket'
      BY <1>1, <2>1, <2>3, ConstantsLemma
    <3> QED BY <1>1, <2>4, <3>1, <3>2 DEF RecordsInv, ExportReadable
  <2>10. FencesOK'
    <3>1. \A s \in Sections : View[s].by \in Plans => Passed(View[s].by)
      BY <2>2 DEF RecordsInv, FencesOK
    <3>2. \A s \in Sections : /\ v1'[s].by \in Plans => Passed(v1'[s].by)
                              /\ v2'[s].by \in Plans => Passed(v2'[s].by)
      BY <2>3, <3>1, ConstantsLemma
    <3> QED BY <1>1, <1>4, <3>2, FencesQuiet DEF RecordsInv
  <2>11. FenceType' BY <1>1 DEF RecordsInv, FenceType, fences
  <2>12. ViewStep BY <2>4 DEF ViewStep, Normalised
  <2> QED BY <1>3, <1>4, <1>5, <1>6, <1>7, <2>6, <2>7, <2>8, <2>9, <2>10, <2>11, <2>12
          DEF RecordsInv
<1> QED BY <1>8, <1>9 DEF CommitTiering, TieringUnchanged, Snapshot

LEMMA PrepareCleanupLemma ==
  ASSUME RecordsInv, PrepareCleanup
  PROVE  RecordsInv' /\ ViewStep
<1> DEFINE bodies == {Stored[v1[s].dig] : s \in Hydrated(v1)}
<1>1. /\ sweep' = <<[rows |-> v1, exports |-> export, prepared |-> fmt = 2]>>
      /\ bucket' = IF fmt = 2 THEN bucket \cup bodies ELSE bucket
      /\ UNCHANGED <<fmt, store, receipts, moved, fences, req, seen, pass, replica>>
  BY DEF PrepareCleanup
<1>2. \A s \in Hydrated(v1) : Stored[v1[s].dig] \in Digests
  BY ConstantsLemma DEF Hydrated, RecordsInv, StoreType, RowType, Body
<1>3. bodies \subseteq Digests BY <1>2
<1>4. \A s \in Hydrated(v1) : Stored[v1[s].dig] \in bodies OBVIOUS
<1> HIDE DEF bodies
<1>5. Grows BY <1>1, <1>3 DEF Grows, RecordsInv, StoreType
<1>6. RequestsOK' BY <1>1, <1>5, RequestsQuiet DEF RecordsInv
<1>7. SweepOK'
  <2>1. sweep'[1].rows = v1 /\ (sweep'[1].prepared <=> fmt = 2) BY <1>1
  <2>2. v1 \in [Sections -> RowType] BY DEF RecordsInv, StoreType
  <2>3. fmt = 2 => \A s \in Hydrated(v1) : Stored[v1[s].dig] \in bucket' BY <1>1, <1>4
  <2>4. Hydrated(sweep'[1].rows) = Hydrated(v1) BY <2>1
  <2> QED BY <2>1, <2>2, <2>3, <2>4 DEF SweepOK, Hydrated
<1>8. PassOK' BY <1>1, <1>5 DEF RecordsInv, PassOK, Grows
<1>9. ReplicaOK' /\ ReplicaFaithful' BY <1>1, ReplicaStill
<1>10. ReceiptsOK' /\ \A r \in receipts' : Passed(r.plan)
  BY <1>1 DEF RecordsInv, ReceiptsOK, FencesOK
<1> QED BY <1>1, <1>5, <1>6, <1>7, <1>8, <1>9, <1>10, StoreStep

LEMMA CommitCleanupLemma ==
  ASSUME RecordsInv, CommitCleanup
  PROVE  RecordsInv' /\ ViewStep
<1>1. /\ sweep # <<>> /\ seq + 2 <= MaxSeq /\ sweep' = <<>>
      /\ UNCHANGED <<fmt, bucket, receipts, moved, fences, req, seen, pass, replica>>
  BY DEF CommitCleanup
<1>2. Grows BY <1>1 DEF Grows, RecordsInv, StoreType
<1>3. RequestsOK' BY <1>1, <1>2, RequestsQuiet DEF RecordsInv
<1>4. ReceiptsOK' /\ \A r \in receipts' : Passed(r.plan)
  BY <1>1 DEF RecordsInv, ReceiptsOK, FencesOK
<1>5. PassOK' BY <1>1, <1>2 DEF RecordsInv, PassOK, Grows
<1>6. SweepOK' BY <1>1 DEF SweepOK
<1>7. CASE UNCHANGED store
  <2>1. ReplicaOK' /\ ReplicaFaithful' BY <1>1, <1>7, ReplicaStill
  <2> QED BY <1>1, <1>2, <1>3, <1>4, <1>5, <1>6, <1>7, <2>1, StoreStep
<1>8. CASE /\ sweep[1].rows = v1 /\ (fmt = 1 \/ sweep[1].prepared)
           /\ Rewritten(v1, NextTupleRevision)
  <2>1. Core /\ StoreType BY DEF RecordsInv, Core
  <2>2. NextTupleRevision \in Nat /\ NextTupleRevision > 0 BY <2>1, TupleRevision
  <2>3. fmt = 2 => \A s \in Hydrated(v1) : Stored[v1[s].dig] \in bucket
    BY <1>1, <1>8 DEF RecordsInv, SweepOK
  <2>4. /\ Core' /\ Advance
        /\ \A s \in Sections : \/ View'[s] = View[s]
                               \/ View'[s] = [dig |-> IF View[s].dig = None THEN None
                                                      ELSE Stored[View[s].dig],
                                              rev |-> NextTupleRevision, by |-> View[s].by]
        /\ \A s \in Sections : /\ v1'[s].by \in {v1[s].by, None}
                               /\ v2'[s].by \in {v1[s].by, v2[s].by}
    BY <1>1, <1>8, <2>1, <2>2, <2>3, RewrittenLemma
  <2>5. ViewStep BY <2>4 DEF ViewStep, Normalised
  <2>6. \A s \in Sections : /\ v1'[s].by \in Plans => Passed(v1'[s].by)
                            /\ v2'[s].by \in Plans => Passed(v2'[s].by)
    BY <2>4, ConstantsLemma DEF RecordsInv, FencesOK
  <2>7. FencesOK' BY <1>1, <1>4, <2>6, FencesQuiet DEF RecordsInv
  <2>8. FenceType' BY <1>1 DEF RecordsInv, FenceType, fences
  <2>9. ReplicaOK' /\ ReplicaFaithful' BY <1>1, <2>1, <2>4, ReplicaQuiet DEF RecordsInv
  <2> QED BY <1>3, <1>4, <1>5, <1>6, <2>4, <2>5, <2>7, <2>8, <2>9 DEF RecordsInv, Core
<1> QED BY <1>7, <1>8 DEF CommitCleanup, CleanupUnchanged

LEMMA PruneBackfillLemma ==
  ASSUME RecordsInv, PruneBackfill
  PROVE  RecordsInv' /\ ViewStep
<1> DEFINE shadowed == {s \in Sections : /\ backfill[s] # None /\ export[s].src = "canonical"
                                         /\ View[s].rev = export[s].rev /\ View[s].dig = export[s].dig}
<1>1. /\ backfill' = [s \in Sections |-> IF s \in shadowed THEN None ELSE backfill[s]]
      /\ UNCHANGED <<fmt, v1, v2, export, seq, bucket, receipts, moved, fences, req, seen, pass, sweep, replica>>
  BY DEF PruneBackfill
<1>2. \A s \in shadowed : export[s].src = "canonical" OBVIOUS
<1> HIDE DEF shadowed
<1>3. Grows BY <1>1 DEF Grows, RecordsInv, StoreType
<1>4. View' = View BY <1>1 DEF View
<1>5. StoreType' BY <1>1, ConstantsLemma DEF RecordsInv, StoreType
<1>6. RowsOK' /\ OrderOK' BY <1>1 DEF RecordsInv, RowsOK, OrderOK
<1>7. ExportReadable'
  <2>1. \A s \in Sections : export[s].src = "backfill" => backfill'[s] = backfill[s] BY <1>1, <1>2
  <2> QED BY <1>1, <1>4, <2>1 DEF RecordsInv, ExportReadable
<1>8. ReplicaOK' /\ ReplicaFaithful'
  BY <1>1 DEF RecordsInv, ReplicaOK, ReplicaFaithful, PageOK
<1>9. RequestsOK' BY <1>1, <1>3, RequestsQuiet DEF RecordsInv
<1>10. PassOK' /\ SweepOK' BY <1>1, <1>3, PassesQuiet DEF RecordsInv
<1>11. ReceiptsOK' BY <1>1 DEF RecordsInv, ReceiptsOK
<1>12. FencesOK' BY <1>1, FencesQuiet DEF RecordsInv, FencesOK
<1>13. FenceType' BY <1>1 DEF RecordsInv, FenceType, fences
<1>14. ViewStep BY <1>4 DEF ViewStep, Normalised
<1> QED BY <1>5, <1>6, <1>7, <1>8, <1>9, <1>10, <1>11, <1>12, <1>13, <1>14 DEF RecordsInv

LEMMA AgeLemma ==
  ASSUME RecordsInv, Age
  PROVE  RecordsInv' /\ ViewStep
<1>1. UNCHANGED <<fmt, store, bucket, fences, req, seen, pass, sweep, replica>> BY DEF Age
<1>2. Grows BY <1>1 DEF Grows, RecordsInv, StoreType
<1>3. RequestsOK' BY <1>1, <1>2, RequestsQuiet DEF RecordsInv
<1>4. PassOK' /\ SweepOK' BY <1>1, <1>2, PassesQuiet DEF RecordsInv
<1>5. ReplicaOK' /\ ReplicaFaithful' BY <1>1, ReplicaStill
<1>6. CASE \E m \in RetainedMoves : moved' = (moved \ {m}) \cup {[m EXCEPT !.old = TRUE]} /\ UNCHANGED receipts
  <2>1. PICK m \in RetainedMoves : moved' = (moved \ {m}) \cup {[m EXCEPT !.old = TRUE]} /\ UNCHANGED receipts
    BY <1>6
  <2>2. m \in MoveType BY DEF RetainedMoves, RecordsInv, ReceiptsOK
  <2>3. [m EXCEPT !.old = TRUE] \in MoveType BY <2>2 DEF MoveType
  <2>4. moved' \subseteq MoveType BY <2>1, <2>3 DEF RecordsInv, ReceiptsOK
  <2>5. ReceiptsOK' /\ \A r \in receipts' : Passed(r.plan)
    BY <2>1, <2>4 DEF RecordsInv, ReceiptsOK, FencesOK
  <2> QED BY <1>1, <1>2, <1>3, <1>4, <1>5, <2>5, StoreStep
<1>7. CASE \E r \in Retained : receipts' = (receipts \ {r}) \cup {[r EXCEPT !.old = TRUE]} /\ UNCHANGED moved
  <2>1. PICK r \in Retained : receipts' = (receipts \ {r}) \cup {[r EXCEPT !.old = TRUE]} /\ UNCHANGED moved
    BY <1>7
  <2> DEFINE new == [r EXCEPT !.old = TRUE]
  <2>2. r \in receipts /\ r \in ReceiptType BY DEF Retained, RecordsInv, ReceiptsOK
  <2>3. /\ new \in ReceiptType /\ new.fence = r.fence /\ new.rev = r.rev /\ new.plan = r.plan
    BY <2>2 DEF ReceiptType
  <2>4. receipts' = (receipts \ {r}) \cup {new} /\ moved' = moved BY <2>1
  <2> HIDE DEF new
  <2>5. \A q \in receipts \ {r} : ~(q.fence = new.fence /\ q.rev = new.rev)
    BY <2>2, <2>3 DEF RecordsInv, ReceiptsOK
  <2>6. receipts' \subseteq ReceiptType BY <2>3, <2>4 DEF RecordsInv, ReceiptsOK
  <2>7. \A p, q \in receipts' : p.fence = q.fence /\ p.rev = q.rev => p = q
    BY <2>4, <2>5 DEF RecordsInv, ReceiptsOK
  <2>8. \A q \in receipts' : q.fence = PlanOf[q.plan].fence /\ q.rev = PlanOf[q.plan].rev
    BY <2>2, <2>3, <2>4 DEF RecordsInv, ReceiptsOK
  <2>9. \A q \in receipts' : Passed(q.plan) BY <2>2, <2>3, <2>4 DEF RecordsInv, FencesOK
  <2>10. ReceiptsOK' BY <2>4, <2>6, <2>7, <2>8 DEF RecordsInv, ReceiptsOK
  <2> QED BY <1>1, <1>2, <1>3, <1>4, <1>5, <2>9, <2>10, StoreStep
<1> QED BY <1>6, <1>7 DEF Age

LEMMA PruneReceiptsLemma ==
  ASSUME RecordsInv, PruneReceipts
  PROVE  RecordsInv' /\ ViewStep
<1>1. /\ receipts' = Retained
      /\ UNCHANGED <<fmt, store, bucket, moved, fences, req, seen, pass, sweep, replica>>
  BY DEF PruneReceipts
<1>2. Grows BY <1>1 DEF Grows, RecordsInv, StoreType
<1>3. RequestsOK' BY <1>1, <1>2, RequestsQuiet DEF RecordsInv
<1>4. PassOK' /\ SweepOK' BY <1>1, <1>2, PassesQuiet DEF RecordsInv
<1>5. ReplicaOK' /\ ReplicaFaithful' BY <1>1, ReplicaStill
<1>6. receipts' \subseteq receipts BY <1>1 DEF Retained
<1>7. ReceiptsOK' /\ \A r \in receipts' : Passed(r.plan)
  BY <1>1, <1>6 DEF RecordsInv, ReceiptsOK, FencesOK
<1> QED BY <1>1, <1>2, <1>3, <1>4, <1>5, <1>7, StoreStep

----------------------------------------------------------------------------
(* Export                                                                  *)

LEMMA CaptureLemma ==
  ASSUME RecordsInv, Capture
  PROVE  RecordsInv' /\ ViewStep
<1> DEFINE ahead == {s \in Sections : export[s].at > replica.cursor}
           entry(s) == [sec |-> s, dig |-> export[s].dig, at |-> export[s].at]
<1>1. /\ UNCHANGED <<fmt, store, bucket, receipts, moved, fences, req, seen, pass, sweep>>
  BY DEF Capture
<1>2. PICK s \in ahead : /\ \A t \in ahead : export[s].at <= export[t].at
                         /\ replica' = [replica EXCEPT !.page = <<entry(s)>>]
  BY DEF Capture
<1>3. Grows BY <1>1 DEF Grows, RecordsInv, StoreType
<1>4. RequestsOK' BY <1>1, <1>3, RequestsQuiet DEF RecordsInv
<1>5. PassOK' /\ SweepOK' BY <1>1, <1>3, PassesQuiet DEF RecordsInv
<1>6. ReceiptsOK' /\ \A r \in receipts' : Passed(r.plan)
  BY <1>1 DEF RecordsInv, ReceiptsOK, FencesOK
<1>7. export' = export /\ seq' = seq BY <1>1 DEF store
<1> DEFINE e == entry(s)
<1>8. s \in Sections /\ export[s].at > replica.cursor BY <1>2
<1>9. /\ e \in Entry /\ e.sec = s /\ e.dig = export[s].dig /\ e.at = export[s].at
  BY <1>8 DEF Entry, RecordsInv, StoreType, ExportType
<1>10. \A t \in Sections : export[t].at <= replica.cursor \/ export[s].at <= export[t].at
  <2>1. \A t \in Sections : export[t].at \in Nat /\ replica.cursor \in Nat
    BY DEF RecordsInv, StoreType, ExportType, ReplicaOK
  <2> QED BY <1>2, <2>1
<1>11. /\ replica' = [replica EXCEPT !.page = <<e>>]
       /\ replica \in [copy : [Sections -> Body], cursor : Nat, page : Seq(Entry)]
  BY <1>2 DEF RecordsInv, ReplicaOK
<1> HIDE DEF e, entry, ahead
<1>12. <<e>> \in Seq(Entry) /\ <<e>>[1] = e BY <1>9
<1>13. /\ replica'.copy = replica.copy /\ replica'.cursor = replica.cursor
       /\ replica'.page = <<e>>
       /\ replica' \in [copy : [Sections -> Body], cursor : Nat, page : Seq(Entry)]
  BY <1>11, <1>12
<1>14. PageOK(e, replica.cursor)
  <2>1. export[s].at \in Nat /\ export[s].at <= seq /\ \A t \in Sections : export[t].at \in Nat
    BY <1>8 DEF RecordsInv, StoreType, ExportType, OrderOK
  <2>2. \A t \in Sections : export[t].at = export[s].at => t = s
    <3>1. export[s].at > 0 BY <1>8, <2>1, <1>11
    <3> QED BY <1>8, <3>1 DEF RecordsInv, OrderOK
  <2> QED BY <1>8, <1>9, <1>10, <2>1, <2>2 DEF PageOK
<1>16. ReplicaOK'
  <2>1. replica'.cursor <= seq' BY <1>7, <1>13 DEF RecordsInv, ReplicaOK
  <2>2. PageOK(replica.page[1], replica.cursor)'
    <3>1. replica'.page[1] = e BY <1>12, <1>13
    <3> QED BY <1>7, <1>13, <1>14, <3>1 DEF PageOK
  <2> QED BY <1>13, <2>1, <2>2 DEF ReplicaOK
<1>17. ReplicaFaithful' BY <1>7, <1>13 DEF RecordsInv, ReplicaFaithful
<1> QED BY <1>1, <1>3, <1>4, <1>5, <1>6, <1>16, <1>17, StoreStep

LEMMA DeliverLemma ==
  ASSUME RecordsInv, Deliver
  PROVE  RecordsInv' /\ ViewStep
<1> DEFINE e == replica.page[1]
           copy == [replica.copy EXCEPT ![e.sec] = e.dig]
<1>1. /\ replica.page # <<>> /\ replica' = [copy |-> copy, cursor |-> e.at, page |-> <<>>]
      /\ UNCHANGED <<fmt, store, bucket, receipts, moved, fences, req, seen, pass, sweep>>
  BY DEF Deliver
<1>2. Grows BY <1>1 DEF Grows, RecordsInv, StoreType
<1>3. RequestsOK' BY <1>1, <1>2, RequestsQuiet DEF RecordsInv
<1>4. PassOK' /\ SweepOK' BY <1>1, <1>2, PassesQuiet DEF RecordsInv
<1>5. ReceiptsOK' /\ \A r \in receipts' : Passed(r.plan)
  BY <1>1 DEF RecordsInv, ReceiptsOK, FencesOK
<1>6. export' = export /\ seq' = seq BY <1>1 DEF store
<1>7. PageOK(e, replica.cursor) BY <1>1 DEF RecordsInv, ReplicaOK
<1>8. replica.copy \in [Sections -> Body] /\ replica.cursor \in Nat BY DEF RecordsInv, ReplicaOK
<1>9. /\ replica'.copy = copy /\ replica'.cursor = e.at /\ replica'.page = <<>> BY <1>1
<1> HIDE DEF e
<1>10. /\ e.sec \in Sections /\ e.dig \in Body /\ e.at \in Nat /\ e.at <= seq
       /\ e.at > replica.cursor /\ export[e.sec].at >= e.at
  BY <1>7 DEF PageOK, Entry
<1>11. copy \in [Sections -> Body] BY <1>8, <1>10
<1>12. \A s \in Sections : copy[s] = IF s = e.sec THEN e.dig ELSE replica.copy[s]
  BY <1>8, <1>10
<1>13. <<>> \in Seq(Entry) OBVIOUS
<1> HIDE DEF copy
<1>14. ReplicaOK'
  <2>1. replica' \in [copy : [Sections -> Body], cursor : Nat, page : Seq(Entry)]
    BY <1>1, <1>10, <1>11, <1>13
  <2> QED BY <1>6, <1>9, <1>10, <2>1 DEF ReplicaOK
<1>15. ReplicaFaithful'
  <2> SUFFICES ASSUME NEW s \in Sections, export[s].at \in 1..e.at
               PROVE  copy[s] = export[s].dig
    BY <1>6, <1>9 DEF ReplicaFaithful
  <2>1. /\ export[s].at <= replica.cursor \/ export[s].at >= e.at
        /\ export[s].at = e.at => s = e.sec /\ export[s].dig = e.dig
    BY <1>7 DEF PageOK
  <2>2. CASE export[s].at = e.at BY <1>12, <2>1, <2>2
  <2>3. CASE export[s].at # e.at
    <3>1. export[s].at <= replica.cursor /\ export[s].at < e.at BY <1>10, <2>1, <2>3
    <3>2. s # e.sec BY <1>10, <3>1
    <3>3. export[s].at \in 1..replica.cursor BY <1>8, <3>1
    <3>4. replica.copy[s] = export[s].dig BY <3>3 DEF RecordsInv, ReplicaFaithful
    <3> QED BY <1>12, <3>2, <3>4
  <2> QED BY <2>2, <2>3
<1> QED BY <1>1, <1>2, <1>3, <1>4, <1>5, <1>14, <1>15, StoreStep

----------------------------------------------------------------------------
(* The queue around the store                                              *)

LEMMA QueueQuiet ==
  ASSUME RecordsInv, FenceType', FencesOK',
         UNCHANGED <<fmt, store, bucket, receipts, moved, req, seen, pass, sweep, replica>>
  PROVE  RecordsInv' /\ ViewStep
<1>1. Grows BY DEF Grows, RecordsInv, StoreType
<1>2. Core BY DEF RecordsInv, Core
<1>3. Core' /\ Advance /\ ViewStep BY <1>1, <1>2, CoreQuiet
<1>4. ReplicaOK' /\ ReplicaFaithful' BY ReplicaStill
<1>5. RequestsOK' BY <1>1, RequestsQuiet DEF RecordsInv
<1>6. PassOK' /\ SweepOK' BY <1>1, PassesQuiet DEF RecordsInv
<1>7. ReceiptsOK' BY DEF RecordsInv, ReceiptsOK
<1> QED BY <1>3, <1>4, <1>5, <1>6, <1>7 DEF RecordsInv, Core

LEMMA FencesRise ==
  ASSUME RecordsInv, UNCHANGED <<store, receipts>>, FenceType', itemRev' >= itemRev, head' >= head,
         \A p \in Plans : PlanOf[p].batch /\ lane'[PlanOf[p].fence] # "none" => PlanOf[p].src <= head'
  PROVE  FencesOK'
<1>1. itemRev \in Nat /\ head \in Nat /\ itemRev' \in Nat /\ head' \in Nat
  BY DEF RecordsInv, FenceType
<1>2. ASSUME NEW p \in Plans, Passed(p) PROVE Passed(p)'
  BY <1>1, <1>2, ConstantsLemma DEF Passed
<1>3. v1' = v1 /\ v2' = v2 /\ receipts' = receipts BY DEF store
<1>4. \A r \in receipts' : Passed(r.plan)'
  BY <1>2, <1>3 DEF RecordsInv, FencesOK, ReceiptsOK, ReceiptType
<1>5. \A s \in Sections : /\ v1[s].by \in Plans => Passed(v1[s].by)'
                          /\ v2[s].by \in Plans => Passed(v2[s].by)'
  BY <1>2, <1>3 DEF RecordsInv, FencesOK
<1> QED BY <1>3, <1>4, <1>5 DEF FencesOK

LEMMA NextReviewLemma ==
  ASSUME RecordsInv, NextReview
  PROVE  RecordsInv' /\ ViewStep
<1>1. /\ itemRev' = itemRev + 1 /\ head' = head /\ lane' = lane
      /\ UNCHANGED <<fmt, store, bucket, receipts, moved, req, seen, pass, sweep, replica>>
  BY DEF NextReview
<1>2. FenceType' /\ itemRev' >= itemRev /\ head' >= head BY <1>1 DEF RecordsInv, FenceType
<1>3. FencesOK' BY <1>1, <1>2, FencesRise DEF RecordsInv, FencesOK
<1> QED BY <1>1, <1>2, <1>3, QueueQuiet

LEMMA AdmitPublicationLemma ==
  ASSUME RecordsInv, NEW p \in Plans, AdmitPublication(p)
  PROVE  RecordsInv' /\ ViewStep
<1>1. /\ PlanOf[p].batch /\ PlanOf[p].src >= head
      /\ head' = PlanOf[p].src /\ itemRev' = itemRev
      /\ lane' = [lane EXCEPT ![PlanOf[p].fence] = "queued"]
      /\ UNCHANGED <<fmt, store, bucket, receipts, moved, req, seen, pass, sweep, replica>>
  BY DEF AdmitPublication
<1>2. lane \in [BatchFences -> {"none", "queued", "owned"}] /\ head \in Nat /\ itemRev \in Nat
  BY DEF RecordsInv, FenceType
<1>3. PlanOf[p].src \in Nat BY ConstantsLemma
<1>4. FenceType' /\ itemRev' >= itemRev /\ head' >= head
  <2>1. lane' \in [BatchFences -> {"none", "queued", "owned"}] BY <1>1, <1>2
  <2>2. itemRev' \in Nat /\ head' \in Nat /\ itemRev' >= itemRev /\ head' >= head
    BY <1>1, <1>2, <1>3
  <2> QED BY <2>1, <2>2 DEF FenceType
<1>5. ASSUME NEW q \in Plans, PlanOf[q].batch, lane'[PlanOf[q].fence] # "none"
      PROVE  PlanOf[q].src <= head'
  <2>1. PlanOf[q].src \in Nat /\ PlanOf[q].fence \in BatchFences
    BY <1>5, ConstantsLemma DEF BatchFences
  <2>2. CASE PlanOf[q].fence = PlanOf[p].fence
    <3>1. PlanOf[q].src = PlanOf[p].src BY <1>5, <2>2, FencesAssumption
    <3> QED BY <1>1, <1>3, <3>1
  <2>3. CASE PlanOf[q].fence # PlanOf[p].fence
    <3>1. lane[PlanOf[q].fence] # "none" BY <1>1, <1>2, <1>5, <2>1, <2>3
    <3>2. PlanOf[q].src <= head BY <1>5, <3>1 DEF RecordsInv, FencesOK
    <3> QED BY <1>1, <1>2, <1>3, <2>1, <3>2
  <2> QED BY <2>2, <2>3
<1>6. FencesOK' BY <1>1, <1>4, <1>5, FencesRise
<1> QED BY <1>1, <1>4, <1>6, QueueQuiet

LEMMA LeaseLemma ==
  ASSUME RecordsInv, NEW p \in Plans, Lease(p)
  PROVE  RecordsInv' /\ ViewStep
<1> DEFINE f == PlanOf[p].fence
           to == IF lane[f] = "queued" /\ PlanOf[p].src >= head THEN "owned"
                 ELSE IF lane[f] = "owned" THEN "queued" ELSE lane[f]
<1>1. /\ PlanOf[p].batch /\ head' = head /\ itemRev' = itemRev /\ lane' = [lane EXCEPT ![f] = to]
      /\ UNCHANGED <<fmt, store, bucket, receipts, moved, req, seen, pass, sweep, replica>>
  BY DEF Lease
<1>2. lane \in [BatchFences -> {"none", "queued", "owned"}] /\ head \in Nat /\ itemRev \in Nat
  BY DEF RecordsInv, FenceType
<1>3. f \in BatchFences BY <1>1 DEF BatchFences
<1>4. to \in {"none", "queued", "owned"} /\ (to # "none" => lane[f] # "none") BY <1>2, <1>3
<1> HIDE DEF to, f
<1>5. FenceType' /\ itemRev' >= itemRev /\ head' >= head
  <2>1. lane' \in [BatchFences -> {"none", "queued", "owned"}] BY <1>1, <1>2, <1>4
  <2>2. itemRev' \in Nat /\ head' \in Nat /\ itemRev' >= itemRev /\ head' >= head BY <1>1, <1>2
  <2> QED BY <2>1, <2>2 DEF FenceType
<1>6. \A g \in BatchFences : lane'[g] # "none" => lane[g] # "none" BY <1>1, <1>2, <1>3, <1>4
<1>7. \A q \in Plans : PlanOf[q].batch /\ lane'[PlanOf[q].fence] # "none" => PlanOf[q].src <= head'
  BY <1>1, <1>6 DEF RecordsInv, FencesOK, BatchFences
<1>8. FencesOK' BY <1>1, <1>5, <1>7, FencesRise
<1> QED BY <1>1, <1>5, <1>8, QueueQuiet

----------------------------------------------------------------------------
(* The inductive invariant                                                 *)

\* The three first states of the tuple.
LEMMA InitCore ==
  ASSUME Init
  PROVE  /\ Core
         /\ \A s \in Sections : v1[s].by = None /\ v2[s].by = None
<1>1. /\ fmt = 1 /\ bucket = {} /\ v2 = [s \in Sections |-> NoRow] BY DEF Init
<1>2. \A s \in Sections : View[s] = v1[s] BY <1>1 DEF View
<1>3. v2 \in [Sections -> RowType] BY <1>1, ConstantsLemma
<1>4. \A s \in Sections : v2[s] = NoRow BY <1>1
<1>5. CASE /\ v1 = [s \in Sections |-> NoRow] /\ export = [s \in Sections |-> NoExport]
           /\ backfill = [s \in Sections |-> None] /\ seq = 0
  <2>1. StoreType BY <1>1, <1>3, <1>5, ConstantsLemma DEF StoreType
  <2>2. \A s \in Sections : v1[s] = NoRow /\ export[s] = NoExport BY <1>5
  <2>3. RowsOK /\ OrderOK BY <1>1, <1>4, <1>5, <2>2, ConstantsLemma DEF RowsOK, OrderOK
  <2>4. ExportReadable BY <1>2, <1>4, <2>2, ConstantsLemma DEF ExportReadable
  <2>5. \A s \in Sections : v1[s].by = None /\ v2[s].by = None BY <1>4, <2>2, ConstantsLemma
  <2> QED BY <2>1, <2>3, <2>4, <2>5 DEF Core
<1>6. CASE \E d \in Legacy :
        /\ v1 = [s \in Sections |-> NoRow]
        /\ export = [s \in Sections |-> IF s = "items" THEN [dig |-> d, rev |-> 0, at |-> 1, src |-> "backfill"]
                                        ELSE NoExport]
        /\ backfill = [s \in Sections |-> IF s = "items" THEN d ELSE None] /\ seq = 1
  <2>1. PICK d \in Legacy :
          /\ v1 = [s \in Sections |-> NoRow]
          /\ export = [s \in Sections |-> IF s = "items" THEN [dig |-> d, rev |-> 0, at |-> 1, src |-> "backfill"]
                                          ELSE NoExport]
          /\ backfill = [s \in Sections |-> IF s = "items" THEN d ELSE None] /\ seq = 1
    BY <1>6
  <2> DEFINE imported == [dig |-> d, rev |-> 0, at |-> 1, src |-> "backfill"]
  <2>2. d \in Digests /\ d \in Body BY PlansAssumption, ConstantsLemma
  <2>3. /\ imported \in ExportType /\ imported.dig = d /\ imported.rev = 0 /\ imported.at = 1
        /\ imported.src = "backfill"
    BY <2>2 DEF ExportType
  <2>4. export = [s \in Sections |-> IF s = "items" THEN imported ELSE NoExport] BY <2>1
  <2> HIDE DEF imported
  <2>5. export \in [Sections -> ExportType] BY <2>3, <2>4, ConstantsLemma
  <2>6. v1 \in [Sections -> RowType] /\ backfill \in [Sections -> Body]
    BY <2>1, <2>2, ConstantsLemma
  <2>7. seq \in 0..MaxSeq BY <2>1, ConstantsLemma
  <2>8. StoreType BY <1>1, <1>3, <2>5, <2>6, <2>7 DEF StoreType
  <2>9. \A s \in Sections : v1[s] = NoRow BY <2>1
  <2>10. export["items"] = imported /\ export["closed"] = NoExport /\ backfill["items"] = d
    BY <2>1, <2>4, ConstantsLemma
  <2>11. \A s \in Sections : s = "items" \/ s = "closed" BY DEF Sections
  <2>12. RowsOK BY <1>1, <1>4, <2>9 DEF RowsOK
  <2>13. \A s \in Sections : export[s].at = IF s = "items" THEN 1 ELSE 0
    BY <2>3, <2>10, <2>11, ConstantsLemma
  <2>14. OrderOK BY <2>1, <2>11, <2>13 DEF OrderOK
  <2>15. ExportReadable
    BY <1>2, <1>4, <2>3, <2>9, <2>10, <2>11, ConstantsLemma DEF ExportReadable
  <2>16. \A s \in Sections : v1[s].by = None /\ v2[s].by = None BY <1>4, <2>9, ConstantsLemma
  <2> QED BY <2>8, <2>12, <2>14, <2>15, <2>16 DEF Core
<1>7. CASE \E d \in Legacy :
        /\ v1 = [s \in Sections |-> [dig |-> IF s = "items" THEN d ELSE None, rev |-> 1, by |-> None]]
        /\ export = [s \in Sections |-> [dig |-> v1[s].dig, rev |-> 1,
                                         at |-> IF s = "items" THEN 1 ELSE 2, src |-> "canonical"]]
        /\ backfill = [s \in Sections |-> IF s = "items" THEN d ELSE None] /\ seq = 2
  <2>1. PICK d \in Legacy :
          /\ v1 = [s \in Sections |-> [dig |-> IF s = "items" THEN d ELSE None, rev |-> 1, by |-> None]]
          /\ export = [s \in Sections |-> [dig |-> v1[s].dig, rev |-> 1,
                                           at |-> IF s = "items" THEN 1 ELSE 2, src |-> "canonical"]]
          /\ backfill = [s \in Sections |-> IF s = "items" THEN d ELSE None] /\ seq = 2
    BY <1>7
  <2> DEFINE body(s) == IF s = "items" THEN d ELSE None
             row(s) == [dig |-> body(s), rev |-> 1, by |-> None]
             at(s) == IF s = "items" THEN 1 ELSE 2
             ptr(s) == [dig |-> v1[s].dig, rev |-> 1, at |-> at(s), src |-> "canonical"]
  <2>2. d \in Digests /\ d \in Body BY PlansAssumption, ConstantsLemma
  <2>3. \A s \in Sections : body(s) \in Body /\ at(s) \in 1..2 BY <2>2, ConstantsLemma
  <2>4. \A s \in Sections : /\ row(s) \in RowType /\ row(s).dig = body(s) /\ row(s).rev = 1
                            /\ row(s).by = None
    <3> HIDE DEF body
    <3> QED BY <2>3 DEF RowType
  <2>5. v1 = [s \in Sections |-> row(s)] /\ export = [s \in Sections |-> ptr(s)]
        /\ backfill = [s \in Sections |-> body(s)]
    BY <2>1
  <2>6. \A s \in Sections : v1[s] = row(s) /\ export[s] = ptr(s) BY <2>5
  <2>7. \A s, t \in Sections : s # t => at(s) # at(t) BY DEF Sections
  <2> HIDE DEF body, row, at
  <2>8. \A s \in Sections : v1[s].dig = body(s) BY <2>4, <2>6
  <2>9. \A s \in Sections : /\ ptr(s) \in ExportType /\ ptr(s).dig = v1[s].dig /\ ptr(s).rev = 1
                            /\ ptr(s).at = at(s) /\ ptr(s).src = "canonical"
    BY <2>3, <2>8 DEF ExportType
  <2> HIDE DEF ptr
  <2>10. StoreType
    <3>1. v1 \in [Sections -> RowType] BY <2>4, <2>5
    <3>2. export \in [Sections -> ExportType] /\ backfill \in [Sections -> Body] BY <2>3, <2>5, <2>9
    <3>3. seq \in 0..MaxSeq BY <2>1, ConstantsLemma
    <3> QED BY <1>1, <1>3, <3>1, <3>2, <3>3 DEF StoreType
  <2>11. RowsOK BY <1>1, <1>4, <2>4, <2>6 DEF RowsOK
  <2>12. OrderOK BY <2>1, <2>3, <2>6, <2>7, <2>9 DEF OrderOK
  <2>13. ExportReadable
    <3>1. \A s \in Sections : /\ View[s].dig = export[s].dig /\ View[s].rev = export[s].rev
                              /\ export[s].src = "canonical"
      BY <1>2, <2>4, <2>6, <2>9
    <3> QED BY <1>4, <3>1, ConstantsLemma DEF ExportReadable
  <2>14. \A s \in Sections : v1[s].by = None /\ v2[s].by = None BY <1>4, <2>4, <2>6, ConstantsLemma
  <2> QED BY <2>10, <2>11, <2>12, <2>13, <2>14 DEF Core
<1> QED BY <1>5, <1>6, <1>7 DEF Init

LEMMA InitInv == Init => RecordsInv
<1> SUFFICES ASSUME Init PROVE RecordsInv OBVIOUS
<1>1. /\ receipts = {} /\ moved = {} /\ itemRev = 1 /\ head = 0
      /\ lane = [f \in BatchFences |-> "none"] /\ req = [r \in Requests |-> Idle]
      /\ seen = [d \in Deliveries |-> Unseen] /\ pass = <<>> /\ sweep = <<>>
      /\ replica = [copy |-> [s \in Sections |-> None], cursor |-> 0, page |-> <<>>]
  BY DEF Init, Unseen
<1>2. Core /\ \A s \in Sections : v1[s].by = None /\ v2[s].by = None BY InitCore
<1>3. FenceType BY <1>1 DEF FenceType
<1>4. ReceiptsOK BY <1>1 DEF ReceiptsOK
<1>5. PassOK /\ SweepOK BY <1>1 DEF PassOK, SweepOK
<1>6. RequestsOK
  <2>1. req \in [Requests -> RequestType] /\ seen \in [Deliveries -> Tuple \cup {Unseen}]
    BY <1>1, ConstantsLemma
  <2>2. \A r \in Requests : req[r].pc = "idle" BY <1>1, ConstantsLemma
  <2> QED BY <2>1, <2>2 DEF RequestsOK, RequestOK, PublishSteps, MoveSteps
<1>7. replica.cursor = 0 /\ replica.page = <<>> BY <1>1
<1>8. ReplicaOK
  <2>1. [s \in Sections |-> None] \in [Sections -> Body] BY ConstantsLemma
  <2>2. <<>> \in Seq(Entry) OBVIOUS
  <2>3. replica \in [copy : [Sections -> Body], cursor : Nat, page : Seq(Entry)] BY <1>1, <2>1, <2>2
  <2>4. seq \in Nat BY <1>2, ConstantsLemma DEF Core, StoreType
  <2> QED BY <1>7, <2>3, <2>4 DEF ReplicaOK
<1>9. ReplicaFaithful BY <1>7 DEF ReplicaFaithful
<1>10. FencesOK
  <2>1. \A p \in Plans : PlanOf[p].batch => lane[PlanOf[p].fence] = "none"
    BY <1>1 DEF BatchFences
  <2> QED BY <1>1, <1>2, <2>1, ConstantsLemma DEF FencesOK
<1> QED BY <1>2, <1>3, <1>4, <1>5, <1>6, <1>8, <1>9, <1>10 DEF RecordsInv, Core

LEMMA StutterLemma ==
  ASSUME RecordsInv, UNCHANGED vars
  PROVE  RecordsInv' /\ ViewStep
<1>1. UNCHANGED <<fmt, store, bucket, receipts, moved, req, seen, pass, sweep, replica, itemRev, head, lane>>
  BY DEF vars, store
<1>2. FenceType' BY <1>1 DEF RecordsInv, FenceType
<1>3. itemRev' >= itemRev /\ head' >= head BY <1>1 DEF RecordsInv, FenceType
<1>4. FencesOK' BY <1>1, <1>2, <1>3, FencesRise DEF RecordsInv, FencesOK
<1> QED BY <1>1, <1>2, <1>4, QueueQuiet

LEMMA NextRecordsInv == RecordsInv /\ [Next]_vars => RecordsInv' /\ ViewStep
<1> SUFFICES ASSUME RecordsInv, [Next]_vars PROVE RecordsInv' /\ ViewStep OBVIOUS
<1>1. CASE UNCHANGED vars BY <1>1, StutterLemma
<1>2. ASSUME NEW r \in Requests, NEW p \in Plans, Submit(r, p) PROVE RecordsInv' /\ ViewStep
  BY <1>2, SubmitLemma
<1>3. ASSUME NEW r \in Requests, NEW d \in Deliveries, Send(r, d) PROVE RecordsInv' /\ ViewStep
  BY <1>3, SendLemma
<1>4. ASSUME NEW r \in Requests, Publish(r) PROVE RecordsInv' /\ ViewStep BY <1>4, PublishLemma
<1>5. ASSUME NEW r \in Requests, Reprepare(r) PROVE RecordsInv' /\ ViewStep BY <1>5, ReprepareLemma
<1>6. ASSUME NEW r \in Requests, Commit(r) PROVE RecordsInv' /\ ViewStep BY <1>6, CommitLemma
<1>7. ASSUME NEW r \in Requests, UploadFails(r) PROVE RecordsInv' /\ ViewStep
  BY <1>7, UploadFailsLemma
<1>8. ASSUME NEW r \in Requests, Move(r) PROVE RecordsInv' /\ ViewStep BY <1>8, MoveLemma
<1>9. ASSUME NEW r \in Requests, CommitMove(r) PROVE RecordsInv' /\ ViewStep
  BY <1>9, CommitMoveLemma
<1>10. ASSUME NEW d \in Deliveries, Observe(d) PROVE RecordsInv' /\ ViewStep BY <1>10, ObserveLemma
<1>11. ASSUME NEW p \in Plans, AdmitPublication(p) PROVE RecordsInv' /\ ViewStep
  BY <1>11, AdmitPublicationLemma
<1>12. ASSUME NEW p \in Plans, Lease(p) PROVE RecordsInv' /\ ViewStep BY <1>12, LeaseLemma
<1>13. CASE Activate BY <1>13, ActivateLemma
<1>14. CASE PrepareTiering BY <1>14, PrepareTieringLemma
<1>15. CASE CommitTiering BY <1>15, CommitTieringLemma
<1>16. CASE PrepareCleanup BY <1>16, PrepareCleanupLemma
<1>17. CASE CommitCleanup BY <1>17, CommitCleanupLemma
<1>18. CASE PruneBackfill BY <1>18, PruneBackfillLemma
<1>19. CASE Age BY <1>19, AgeLemma
<1>20. CASE PruneReceipts BY <1>20, PruneReceiptsLemma
<1>21. CASE Capture BY <1>21, CaptureLemma
<1>22. CASE Deliver BY <1>22, DeliverLemma
<1>23. CASE NextReview BY <1>23, NextReviewLemma
<1> QED BY <1>1, <1>2, <1>3, <1>4, <1>5, <1>6, <1>7, <1>8, <1>9, <1>10, <1>11, <1>12, <1>13,
           <1>14, <1>15, <1>16, <1>17, <1>18, <1>19, <1>20, <1>21, <1>22, <1>23 DEF Next

\* What requests and passes carry across their awaits, tables, index, replica and
\* fences agree in every reachable state.
THEOREM SpecRecordsInv == Spec => []RecordsInv
<1>1. RecordsInv /\ [Next]_vars => RecordsInv' BY NextRecordsInv
<1> QED BY <1>1, InitInv, PTL DEF Spec

\* The tables keep their types, places in the export order are not shared, and a
\* fence and revision have one receipt (accept), for every set of publications,
\* moves and requests.
THEOREM SpecTypeOK == Spec => []TypeOK
<1>1. RecordsInv => TypeOK
  <2> SUFFICES ASSUME RecordsInv PROVE TypeOK OBVIOUS
  <2>1. \A s \in Sections : export[s].at \in 0..seq /\ export[s].rev \in Nat
    BY ConstantsLemma DEF RecordsInv, StoreType, ExportType, OrderOK
  <2>2. \A r \in receipts : r.plan \in Plans /\ r.st \in {"published", "superseded"}
    BY DEF RecordsInv, ReceiptsOK, ReceiptType
  <2>3. v1 \in [Sections -> RowType] /\ v2 \in [Sections -> RowType] BY DEF RecordsInv, StoreType
  <2>4. fmt \in {1, 2} /\ bucket \subseteq Digests /\ seq \in 0..MaxSeq BY DEF RecordsInv, StoreType
  <2>5. \A s, t \in Sections : s # t /\ export[s].at > 0 => export[s].at # export[t].at
    BY DEF RecordsInv, OrderOK
  <2>6. \A q, r \in receipts : q.fence = r.fence /\ q.rev = r.rev => q = r
    BY DEF RecordsInv, ReceiptsOK
  <2> QED BY <2>1, <2>2, <2>3, <2>4, <2>5, <2>6 DEF TypeOK, RowType, Body
<1> QED BY <1>1, SpecRecordsInv, PTL

\* What the export index points at can always be read, whatever publications,
\* moves, the migration, the cleanup and the switch of the format interleave.
THEOREM SpecExportReadable == Spec => []ExportReadable
<1>1. RecordsInv => ExportReadable BY DEF RecordsInv
<1> QED BY <1>1, SpecRecordsInv, PTL

\* A replica that pages by store revision (exportRecords) misses nothing up to
\* its cursor, also when a section is exported again while its entry is on its way.
THEOREM SpecReplicaFaithful == Spec => []ReplicaFaithful
<1>1. RecordsInv => ReplicaFaithful BY DEF RecordsInv
<1> QED BY <1>1, SpecRecordsInv, PTL

----------------------------------------------------------------------------
(* Action properties                                                       *)

LEMMA NormalisedEach ==
  ASSUME Normalised, NEW s \in Sections
  PROVE  \/ View'[s] = View[s]
         \/ /\ View'[s].dig = IF View[s].dig = None THEN None ELSE Stored[View[s].dig]
            /\ View'[s].rev = NextTupleRevision /\ View'[s].by = View[s].by
<1> DEFINE body == IF View[s].dig = None THEN None ELSE Stored[View[s].dig]
           new == [dig |-> body, rev |-> NextTupleRevision, by |-> View[s].by]
<1>1. View'[s] = View[s] \/ View'[s] = new BY DEF Normalised
<1>2. new.dig = body /\ new.rev = NextTupleRevision /\ new.by = View[s].by OBVIOUS
<1> HIDE DEF new
<1> QED BY <1>1, <1>2

LEMMA RaiseStep ==
  ASSUME RecordsInv, ViewStep, NEW s \in Sections, View'[s].dig # View[s].dig, NEW t \in Sections
  PROVE  View'[s].rev > View[t].rev
<1>1. /\ NextTupleRevision \in Nat /\ NextTupleRevision > View[t].rev BY TupleRevision DEF RecordsInv
<1>2. View[t].rev \in Nat BY ViewType DEF RecordsInv
<1>3. CASE Normalised
  <2>1. View'[s].rev = NextTupleRevision BY <1>3, NormalisedEach
  <2> QED BY <1>1, <2>1
<1>4. CASE View'[s].rev >= NextTupleRevision /\ View'[s].rev \in Nat BY <1>1, <1>2, <1>4
<1> QED BY <1>3, <1>4 DEF ViewStep, Published, Moved

LEMMA MaintenanceStep ==
  ASSUME RecordsInv, ViewStep, receipts' = receipts, moved' = moved, NEW s \in Sections
  PROVE  /\ View'[s].by = View[s].by
         /\ (View'[s].dig = None) = (View[s].dig = None)
         /\ View[s].dig # None => Stored[View'[s].dig] = Stored[View[s].dig]
<1>1. ASSUME NEW p \in Plans, Published(p) PROVE FALSE
  <2> DEFINE new == Receipt(p, "published")
  <2>1. /\ ~new.old /\ new.fence = PlanOf[p].fence /\ new.rev = PlanOf[p].rev BY ReceiptLemma
  <2>2. new \in receipts /\ ReceiptOf(Retained, p) = {} BY <1>1 DEF Published
  <2> HIDE DEF new
  <2>3. new \in ReceiptOf(Retained, p) BY <2>1, <2>2 DEF ReceiptOf, Retained
  <2> QED BY <2>2, <2>3
<1>2. ASSUME NEW d \in Deliveries, Moved(d) PROVE FALSE
  <2> DEFINE new == [id |-> d, old |-> FALSE]
  <2>1. new.id = d /\ ~new.old OBVIOUS
  <2>2. new \in moved /\ ~\E m \in RetainedMoves : m.id = d BY <1>2 DEF Moved
  <2> HIDE DEF new
  <2>3. new \in RetainedMoves BY <2>1, <2>2 DEF RetainedMoves
  <2> QED BY <2>1, <2>2, <2>3
<1>3. Normalised BY <1>1, <1>2 DEF ViewStep
<1>4. View[s].dig = None \/ View[s].dig \in Digests BY ViewType DEF RecordsInv, Body
<1>5. CASE View'[s] = View[s] BY <1>5
<1>6. CASE /\ View'[s].dig = IF View[s].dig = None THEN None ELSE Stored[View[s].dig]
           /\ View'[s].by = View[s].by
  <2>1. CASE View[s].dig = None BY <1>6, <2>1
  <2>2. CASE View[s].dig \in Digests
    <3>1. /\ View[s].dig # None /\ Stored[View[s].dig] # None
          /\ Stored[Stored[View[s].dig]] = Stored[View[s].dig]
      BY <2>2, ConstantsLemma
    <3>2. View'[s].dig = Stored[View[s].dig] BY <1>6, <3>1
    <3> QED BY <1>6, <3>1, <3>2
  <2> QED BY <1>4, <2>1, <2>2
<1> QED BY <1>3, <1>5, <1>6, NormalisedEach

LEMMA RouteStep ==
  ASSUME RecordsInv, ViewStep, NEW s \in Sections, View[s].by \in Plans, View'[s].by \in Plans,
         PlanOf[View[s].by].batch = PlanOf[View'[s].by].batch
  PROVE  \/ PlanOf[View'[s].by].src >= PlanOf[View[s].by].src
         \/ \E r \in ReceiptOf(receipts, View'[s].by) : r.old
<1> DEFINE w == View[s].by
<1>1. Passed(w)
  <2>1. View[s] = v1[s] \/ View[s] = v2[s] BY ViewType DEF RecordsInv
  <2> QED BY <2>1 DEF RecordsInv, FencesOK
<1>2. PlanOf[w].src \in Nat /\ PlanOf[w].rev \in Nat BY ConstantsLemma
<1>3. ~PlanOf[w].batch => PlanOf[w].src = PlanOf[w].rev BY FencesAssumption
<1>4. CASE Normalised
  <2>1. View'[s].by = w BY <1>4, NormalisedEach
  <2> QED BY <1>2, <2>1
<1>5. ASSUME NEW d \in Deliveries, Moved(d) PROVE FALSE
  <2>1. View'[s].by = d BY <1>5 DEF Moved
  <2> QED BY <2>1, PlansAssumption
<1>6. ASSUME NEW p \in Plans, Published(p), PlanOf[w].batch = PlanOf[p].batch
      PROVE  PlanOf[p].src >= PlanOf[w].src \/ \E r \in ReceiptOf(receipts, p) : r.old
  <2>1. Authorized(p) /\ ReceiptOf(Retained, p) = {} BY <1>6 DEF Published
  <2>2. PlanOf[p].src \in Nat /\ PlanOf[p].rev \in Nat BY ConstantsLemma
  <2>3. head \in Nat /\ itemRev \in Nat BY DEF RecordsInv, FenceType
  <2> HIDE DEF w
  <2>4. CASE BatchOwned(p)
    <3>1. PlanOf[p].batch /\ ~(PlanOf[p].src < head)
      BY <2>1, <2>4 DEF Authorized, StaleBatchFence, BatchOwned
    <3>2. PlanOf[w].src <= head BY <1>1, <1>6, <3>1 DEF Passed
    <3> QED BY <1>2, <2>2, <2>3, <3>1, <3>2
  <2>5. CASE ~PlanOf[p].batch /\ itemRev = PlanOf[p].rev
    <3>1. PlanOf[w].rev <= itemRev BY <1>1, <1>6, <2>5 DEF Passed
    <3>2. PlanOf[p].src = PlanOf[p].rev BY <2>5, FencesAssumption
    <3>3. PlanOf[w].src = PlanOf[w].rev BY <1>3, <1>6, <2>5
    <3> QED BY <1>2, <2>2, <2>3, <2>5, <3>1, <3>2, <3>3
  <2>6. CASE ReceiptOf(receipts, p) # {}
    <3>1. PICK r \in ReceiptOf(receipts, p) : TRUE BY <2>6
    <3>2. r \in receipts BY DEF ReceiptOf
    <3>3. r \notin ReceiptOf(Retained, p) BY <2>1
    <3>4. r.old BY <3>1, <3>2, <3>3 DEF ReceiptOf, Retained
    <3> QED BY <3>4
  <2> QED BY <2>1, <2>4, <2>5, <2>6 DEF Authorized, ValidFence
<1>7. ASSUME NEW p \in Plans, Published(p) PROVE View'[s].by = p BY <1>7 DEF Published
<1>8. CASE \E p \in Plans : Published(p)
  <2>1. PICK p \in Plans : Published(p) BY <1>8
  <2>2. View'[s].by = p BY <1>7, <2>1
  <2>3. PlanOf[w].batch = PlanOf[p].batch BY <2>2
  <2>4. PlanOf[p].src >= PlanOf[w].src \/ \E r \in ReceiptOf(receipts, p) : r.old
    BY <1>6, <2>1, <2>3
  <2> QED BY <2>2, <2>4
<1> QED BY <1>4, <1>5, <1>8 DEF ViewStep

\* A record that changes gets a revision above all revisions of its tuple
\* (nextCanonicalTupleRevision), whichever writer changes it.
THEOREM SpecChangesRaiseRevision == Spec => ChangesRaiseRevision
<1>1. RecordsInv /\ [Next]_vars =>
        [\A s \in Sections : View'[s].dig # View[s].dig =>
           \A t \in Sections : View'[s].rev > View[t].rev]_vars
  BY NextRecordsInv, RaiseStep
<1> QED BY <1>1, SpecRecordsInv, PTL DEF Spec, ChangesRaiseRevision

\* Migration and cleanup never bring an older body back: without a publication or
\* a move a section keeps its record up to normalisation.
THEOREM SpecMaintenanceKeepsRecords == Spec => MaintenanceKeepsRecords
<1>1. RecordsInv /\ [Next]_vars =>
        [receipts' = receipts /\ moved' = moved =>
           \A s \in Sections : /\ View'[s].by = View[s].by
                               /\ (View'[s].dig = None) = (View[s].dig = None)
                               /\ View[s].dig # None => Stored[View'[s].dig] = Stored[View[s].dig]]_vars
  BY NextRecordsInv, MaintenanceStep
<1> QED BY <1>1, SpecRecordsInv, PTL DEF Spec, MaintenanceKeepsRecords

\* Publications of one route take effect in the order of the reviewed revisions,
\* unless an expired receipt that is not pruned yet authorizes a repeated one.
THEOREM SpecRouteKeepsNewest == Spec => RouteKeepsNewest
<1>1. RecordsInv /\ [Next]_vars =>
        [\A s \in Sections :
           LET p == Writer(s)
               q == View'[s].by
           IN p \in Plans /\ q \in Plans /\ PlanOf[p].batch = PlanOf[q].batch
              => \/ PlanOf[q].src >= PlanOf[p].src
                 \/ \E r \in ReceiptOf(receipts, q) : r.old]_vars
  BY NextRecordsInv, RouteStep DEF Writer
<1> QED BY <1>1, SpecRecordsInv, PTL DEF Spec, RouteKeepsNewest
=============================================================================

-------------------------- MODULE CanonicalRecords --------------------------
(***************************************************************************)
(* The canonical records (dashboard/exact-review-direct-publication.ts):   *)
(* the record tuple of ONE pull request or issue, as the Durable Object    *)
(* keeps it.                                                               *)
(*                                                                         *)
(* A tuple has sections; a section's row lives in the table of format 1    *)
(* (body inline) or of format 2 (body in a bucket, named by its digest),   *)
(* and an export index points at the row, or at an imported (backfill)     *)
(* body, with a store revision by which replicas page.  Writers upload the *)
(* bodies first, which lets other requests run, and commit afterwards:     *)
(* direct publications, batch publications, tuple mutations, the migration *)
(* to format 2 and the cleanup of hydrated bodies.                         *)
(*                                                                         *)
(* Left out: plans and decision packets (further sections of the tuple),   *)
(* commits, coverage facts, the table of answered pull requests, manual    *)
(* publications that must name their owner.                                *)
(***************************************************************************)
EXTENDS Integers, FiniteSets, Sequences

CONSTANTS
  Plans,        \* direct and batch publications
  PlanOf,       \* plan |-> [batch : BOOLEAN, fence, rev, src, sec, dig]
  Deliveries,   \* tuple mutations
  Requests,     \* requests in flight at the same time
  Stored,       \* digest |-> digest of the normalised body
  Legacy,       \* digests of the first record, before the model starts
  MaxSeq        \* bound on store revisions

Sections == {"items", "closed"}
None == "none"
Digests == DOMAIN Stored

ASSUME PlansAssumption ==
  /\ \A p \in Plans : /\ PlanOf[p].batch \in BOOLEAN /\ PlanOf[p].rev \in Nat /\ PlanOf[p].src \in Nat
                      /\ PlanOf[p].sec \in Sections /\ PlanOf[p].dig \in Digests
  /\ \A d \in Digests : Stored[d] \in Digests /\ Stored[Stored[d]] = Stored[d]
  /\ Legacy \subseteq Digests /\ None \notin Digests
  /\ Plans \cap Deliveries = {} /\ None \notin Plans /\ MaxSeq \in Nat /\ MaxSeq >= 2

\* Publications under one fence are of one route; those of a batch fence are of
\* one reviewed revision, and a direct publication is of the leased revision.
ASSUME FencesAssumption ==
  /\ \A p, q \in Plans : PlanOf[p].fence = PlanOf[q].fence =>
       PlanOf[p].batch = PlanOf[q].batch /\ (PlanOf[p].batch => PlanOf[p].src = PlanOf[q].src)
  /\ \A p \in Plans : ~PlanOf[p].batch => PlanOf[p].src = PlanOf[p].rev

VARIABLES
  fmt,       \* durable storage format
  v1, v2,    \* section |-> row of the table of format 1, 2
  export,    \* section |-> pointer of the export index
  backfill,  \* section |-> imported body
  bucket,    \* digests of uploaded bodies
  seq,       \* store revision of the last export
  receipts,  \* receipts of publications
  moved,     \* receipts of tuple mutations
  itemRev,   \* revision of the leased review item (its direct fence)
  head,      \* publication head of the target
  lane,      \* batch fence |-> "none", "queued", "owned"
  req,       \* request |-> its state across awaits
  seen,      \* delivery |-> digests its client read
  pass,      \* migration pass between its snapshot and its commit
  sweep,     \* cleanup pass between its snapshot and its commit
  replica    \* a replica that pages through the exports

store == <<v1, v2, export, backfill, seq>>
fences == <<itemRev, head, lane>>
vars == <<fmt, v1, v2, export, backfill, bucket, seq, receipts, moved, itemRev, head, lane,
          req, seen, pass, sweep, replica>>

\* A row: digest (None in a tombstone), tuple revision, and who wrote it.
NoRow == [dig |-> None, rev |-> 0, by |-> None]
NoExport == [dig |-> None, rev |-> 0, at |-> 0, src |-> "none"]
Idle == [pc |-> "idle", what |-> None]

BatchFences == {PlanOf[p].fence : p \in {q \in Plans : PlanOf[q].batch}}
Newest(S) == CHOOSE n \in S : \A m \in S : m <= n

\* exact_review_canonical_record_sources: format 2 hides format 1.
View == [s \in Sections |-> IF v2[s] # NoRow THEN v2[s] ELSE v1[s]]

\* The digest a tuple mutation compares: canonical, else exported.
Current == [s \in Sections |-> IF View[s] # NoRow THEN View[s].dig ELSE export[s].dig]

Mut_NextTupleRevision == 1

NextTupleRevision == Newest({View[s].rev : s \in Sections}) + 1

\* writeCanonicalOperationSync for the operations of a commit, the section
\* first before the other one.
Write(ops, first, rev, by) ==
  LET row(s) == [dig |-> ops[s], rev |-> rev, by |-> by]
      at(s) == seq + IF s = first \/ first \notin DOMAIN ops THEN 1 ELSE 2
  IN /\ v2' = [s \in Sections |-> IF s \in DOMAIN ops /\ fmt = 2 THEN row(s) ELSE v2[s]]
     /\ v1' = [s \in Sections |-> IF s \notin DOMAIN ops THEN v1[s]
                                  ELSE IF fmt = 2 THEN NoRow ELSE row(s)]
     /\ export' = [s \in Sections |->
          IF s \in DOMAIN ops
          THEN [dig |-> ops[s], rev |-> rev, at |-> at(s), src |-> "canonical"] ELSE export[s]]
     /\ backfill' = [s \in Sections |-> IF s \in DOMAIN ops THEN None ELSE backfill[s]]
     /\ seq' = seq + Cardinality(DOMAIN ops)

----------------------------------------------------------------------------
(* Publication results                                                     *)

Retained == {r \in receipts : ~r.old}
Mut_ReceiptOfBytes(R, p) == {r \in R : r.plan = p}

ReceiptOf(R, p) == {r \in R : r.fence = PlanOf[p].fence /\ r.rev = PlanOf[p].rev}
NewerThan(R, p) == {r \in R : r.fence = PlanOf[p].fence /\ r.rev > PlanOf[p].rev}

\* directPublicationFenceSnapshot
BatchOwned(p) == PlanOf[p].batch /\ lane[PlanOf[p].fence] = "owned"
StaleBatchFence(p) == BatchOwned(p) /\ PlanOf[p].src < head
ValidFence(p) == BatchOwned(p) \/ (~PlanOf[p].batch /\ itemRev = PlanOf[p].rev)
Authorized(p) == ~StaleBatchFence(p) /\ (ValidFence(p) \/ ReceiptOf(receipts, p) # {})

\* publicationNeedsBodiesSync
NeedsBodies(p) == ReceiptOf(Retained, p) = {} /\ NewerThan(Retained, p) = {}

\* canonicalTupleOperations: a primary section ends the other one.
Operations(sec, dig) == [s \in Sections |-> IF s = sec THEN Stored[dig] ELSE None]

Receipt(p, st) == [fence |-> PlanOf[p].fence, rev |-> PlanOf[p].rev, plan |-> p, st |-> st, old |-> FALSE]

\* accept, in one transaction.  The owner of a batch fence resumes from its
\* receipt with regenerated bytes; a direct producer must repeat its plan.
Accept(p) ==
  LET existing == ReceiptOf(Retained, p)
      resumes == BatchOwned(p) /\ ReceiptOf(receipts, p) # {}
      rev == Newest({PlanOf[p].rev, NextTupleRevision})
  IN \/ resumes /\ UNCHANGED <<store, receipts>>
     \/ /\ ~resumes /\ existing # {}
        /\ receipts' = IF \E r \in existing : r.plan = p THEN Retained ELSE receipts
        /\ UNCHANGED store
     \/ /\ ~resumes /\ existing = {} /\ NewerThan(Retained, p) # {}
        /\ receipts' = Retained \cup {Receipt(p, "superseded")}
        /\ UNCHANGED store
     \/ /\ ~resumes /\ existing = {} /\ NewerThan(Retained, p) = {}
        /\ receipts' = Retained \cup {Receipt(p, "published")}
        /\ Write(Operations(PlanOf[p].sec, PlanOf[p].dig), PlanOf[p].sec, rev, p)

Submit(r, p) ==
  /\ req[r] = Idle
  /\ req' = [req EXCEPT ![r] = [pc |-> "publish", what |-> p]]
  /\ UNCHANGED <<fmt, store, bucket, receipts, moved, fences, seen, pass, sweep, replica>>

End(r) == req' = [req EXCEPT ![r] = Idle]

\* /publication-results, /publication-batch-results up to the first upload.
Publish(r) ==
  LET p == req[r].what
  IN /\ req[r].pc = "publish"
     /\ \/ /\ ~Authorized(p) /\ End(r)
           /\ UNCHANGED <<store, receipts, bucket>>
        \/ /\ Authorized(p) /\ ~NeedsBodies(p) /\ Accept(p) /\ End(r)
           /\ UNCHANGED bucket
        \/ /\ Authorized(p) /\ NeedsBodies(p)
           /\ req' = [req EXCEPT ![r].pc = IF fmt = 1 THEN "unprepared" ELSE "prepared"]
           /\ bucket' = IF fmt = 1 THEN bucket ELSE bucket \cup {Stored[PlanOf[p].dig]}
           /\ UNCHANGED <<store, receipts>>
     /\ UNCHANGED <<fmt, moved, fences, seen, pass, sweep, replica>>

\* The format changed during the first preparation: the bodies are uploaded now.
Reprepare(r) ==
  LET dig == IF req[r].what \in Plans THEN PlanOf[req[r].what].dig ELSE seen[req[r].what]["items"]
  IN /\ req[r].pc \in {"unprepared", "move-unprepared"} /\ fmt = 2
     /\ req' = [req EXCEPT ![r].pc = IF @ = "unprepared" THEN "prepared" ELSE "move-prepared"]
     /\ bucket' = bucket \cup {Stored[dig]}
     /\ UNCHANGED <<fmt, store, receipts, moved, fences, seen, pass, sweep, replica>>

Mut_CommitWithoutRecheck(r) ==
  /\ req[r].pc \in {"unprepared", "prepared"}
  /\ req[r].pc = "unprepared" => fmt = 1
  /\ seq + 2 <= MaxSeq
  /\ Accept(req[r].what) /\ End(r)
  /\ UNCHANGED <<fmt, bucket, moved, fences, seen, pass, sweep, replica>>

Mut_CommitUnprepared(r) ==
  /\ req[r].pc \in {"unprepared", "prepared"}
  /\ seq + 2 <= MaxSeq
  /\ \/ ~Authorized(req[r].what) /\ UNCHANGED <<store, receipts>>
     \/ Authorized(req[r].what) /\ Accept(req[r].what)
  /\ End(r)
  /\ UNCHANGED <<fmt, bucket, moved, fences, seen, pass, sweep, replica>>

\* After the last await: authority is checked again, then the commit.
Commit(r) ==
  /\ req[r].pc \in {"unprepared", "prepared"}
  /\ req[r].pc = "unprepared" => fmt = 1
  /\ seq + 2 <= MaxSeq
  /\ \/ ~Authorized(req[r].what) /\ UNCHANGED <<store, receipts>>
     \/ Authorized(req[r].what) /\ Accept(req[r].what)
  /\ End(r)
  /\ UNCHANGED <<fmt, bucket, moved, fences, seen, pass, sweep, replica>>

\* An upload fails; the request ends with an error and may be sent again.
UploadFails(r) ==
  /\ req[r].pc \in {"prepared", "move-prepared"} /\ End(r)
  /\ UNCHANGED <<fmt, store, bucket, receipts, moved, fences, seen, pass, sweep, replica>>

----------------------------------------------------------------------------
(* Tuple mutations: a client that read the tuple moves a record             *)

Observe(d) ==
  /\ seen[d] = [s \in {} |-> None] /\ Current["items"] # None
  /\ seen' = [seen EXCEPT ![d] = Current]
  /\ UNCHANGED <<fmt, store, bucket, receipts, moved, fences, req, pass, sweep, replica>>

Send(r, d) ==
  /\ req[r] = Idle /\ seen[d] # [s \in {} |-> None]
  /\ req' = [req EXCEPT ![r] = [pc |-> "move", what |-> d]]
  /\ UNCHANGED <<fmt, store, bucket, receipts, moved, fences, seen, pass, sweep, replica>>

RetainedMoves == {m \in moved : ~m.old}

\* acceptCanonicalTupleMutation: a retained receipt answers; else every section
\* must still have the digest the client read.
AcceptMove(d) ==
  \/ /\ \E m \in RetainedMoves : m.id = d
     /\ moved' = RetainedMoves /\ UNCHANGED store
  \/ /\ ~\E m \in RetainedMoves : m.id = d
     /\ Current # seen[d] /\ UNCHANGED <<moved, store>>
  \/ /\ ~\E m \in RetainedMoves : m.id = d
     /\ Current = seen[d]
     /\ moved' = RetainedMoves \cup {[id |-> d, old |-> FALSE]}
     /\ Write(Operations("closed", seen[d]["items"]), "closed", NextTupleRevision, d)

\* /records/tuples
Move(r) ==
  LET d == req[r].what
  IN /\ req[r].pc = "move"
     /\ \/ /\ \E m \in RetainedMoves : m.id = d
           /\ AcceptMove(d) /\ End(r) /\ UNCHANGED bucket
        \/ /\ ~\E m \in RetainedMoves : m.id = d
           /\ req' = [req EXCEPT ![r].pc = IF fmt = 1 THEN "move-unprepared" ELSE "move-prepared"]
           /\ bucket' = IF fmt = 1 THEN bucket ELSE bucket \cup {Stored[seen[d]["items"]]}
           /\ UNCHANGED <<moved, store>>
     /\ UNCHANGED <<fmt, receipts, fences, seen, pass, sweep, replica>>

CommitMove(r) ==
  /\ req[r].pc \in {"move-unprepared", "move-prepared"}
  /\ req[r].pc = "move-unprepared" => fmt = 1
  /\ seq + 2 <= MaxSeq
  /\ AcceptMove(req[r].what) /\ End(r)
  /\ UNCHANGED <<fmt, bucket, receipts, fences, seen, pass, sweep, replica>>

----------------------------------------------------------------------------
(* Maintenance                                                             *)

\* activateTieringSync
Activate ==
  /\ fmt = 1 /\ fmt' = 2
  /\ UNCHANGED <<store, bucket, receipts, moved, fences, req, seen, pass, sweep, replica>>

Snapshot == [rows |-> View, exports |-> export]

\* Rows and canonical export pointers agree, one to one.
Coherent ==
  \A s \in Sections :
    IF View[s] # NoRow
    THEN export[s].src = "canonical" /\ export[s].dig = View[s].dig /\ export[s].rev = View[s].rev
    ELSE export[s].src # "canonical"

\* prepareTieringPass: snapshot of the tuple, then the uploads.
PrepareTiering ==
  /\ fmt = 2 /\ pass = <<>> /\ \E s \in Sections : v1[s] # NoRow
  /\ pass' = <<Snapshot>>
  /\ bucket' = bucket \cup {v1[s].dig : s \in {x \in Sections : v1[x].dig # None}}
  /\ UNCHANGED <<fmt, store, receipts, moved, fences, req, seen, sweep, replica>>

TieringUnchanged == pass[1] = Snapshot /\ Coherent

\* commitTieringPassSync: an unchanged tuple moves to format 2 as it is.
CommitTiering ==
  LET rows == pass[1].rows
  IN /\ pass # <<>>
     /\ pass' = <<>>
     /\ IF TieringUnchanged
        THEN /\ v2' = [s \in Sections |-> IF rows[s] # NoRow THEN rows[s] ELSE v2[s]]
             /\ v1' = [s \in Sections |-> IF rows[s] # NoRow THEN NoRow ELSE v1[s]]
        ELSE UNCHANGED <<v1, v2>>
     /\ UNCHANGED <<fmt, export, backfill, bucket, seq, receipts, moved, fences, req, seen, sweep, replica>>

Hydrated(rows) == {s \in Sections : rows[s].dig # None /\ Stored[rows[s].dig] # rows[s].dig}

\* prepareHydrationCleanup: rows of format 1 whose body is not normalised.
PrepareCleanup ==
  /\ sweep = <<>> /\ Hydrated(v1) # {}
  /\ sweep' = <<[rows |-> v1, exports |-> export, prepared |-> fmt = 2]>>
  /\ bucket' = IF fmt = 2 THEN bucket \cup {Stored[v1[s].dig] : s \in Hydrated(v1)} ELSE bucket
  /\ UNCHANGED <<fmt, store, receipts, moved, fences, req, seen, pass, replica>>

Mut_KeepsStoreRevision(s, dig, rev, at) == [export[s] EXCEPT !.dig = dig, !.rev = rev]

\* The export pointer of a rewritten row.
Republished(s, dig, rev, at) == [export[s] EXCEPT !.dig = dig, !.rev = rev, !.at = at]

\* A rewritten row becomes a new version; its siblings of the tuple only get
\* the new revision, in both tables, and a new place in the export order.
Rewritten(rows, rev) ==
  LET ops == [s \in {x \in Sections : rows[x] # NoRow} |->
                IF rows[s].dig = None THEN None ELSE Stored[rows[s].dig]]
      hydrated == Hydrated(rows)
      row(s) == [dig |-> ops[s], rev |-> rev, by |-> rows[s].by]
      toV2(s) == fmt = 2 /\ s \in hydrated
      at(s) == seq + IF s = "closed" \/ "closed" \notin DOMAIN ops THEN 1 ELSE 2
  IN /\ v2' = [s \in Sections |-> IF s \in DOMAIN ops /\ toV2(s) THEN row(s) ELSE v2[s]]
     /\ v1' = [s \in Sections |-> IF s \notin DOMAIN ops THEN v1[s]
                                  ELSE IF toV2(s) THEN NoRow ELSE row(s)]
     /\ export' = [s \in Sections |->
          IF s \in DOMAIN ops
          THEN Republished(s, ops[s], rev, at(s)) ELSE export[s]]
     /\ backfill' = [s \in Sections |-> IF s \in hydrated THEN None ELSE backfill[s]]
     /\ seq' = seq + Cardinality(DOMAIN ops)

Mut_CleanupUnchecked == TRUE

CleanupUnchanged ==
  /\ sweep[1].rows = v1 /\ sweep[1].exports = export /\ Coherent
  /\ \A s \in Sections : (v1[s] = NoRow) = (export[s].at = 0)

\* retireHydrationCacheSync, in the alarm's transaction; without its bodies the
\* transaction fails and the alarm runs again.
CommitCleanup ==
  /\ sweep # <<>> /\ seq + 2 <= MaxSeq
  /\ sweep' = <<>>
  /\ IF CleanupUnchanged /\ (fmt = 1 \/ sweep[1].prepared)
     THEN Rewritten(sweep[1].rows, NextTupleRevision)
     ELSE UNCHANGED store
  /\ UNCHANGED <<fmt, bucket, receipts, moved, fences, req, seen, pass, replica>>

\* pruneBackfillShadowsSync
PruneBackfill ==
  LET shadowed == {s \in Sections : /\ backfill[s] # None /\ export[s].src = "canonical"
                                    /\ View[s].rev = export[s].rev /\ View[s].dig = export[s].dig}
  IN /\ shadowed # {}
     /\ backfill' = [s \in Sections |-> IF s \in shadowed THEN None ELSE backfill[s]]
     /\ UNCHANGED <<fmt, v1, v2, export, seq, bucket, receipts, moved, fences, req, seen, pass, sweep, replica>>

\* Seven days pass for a receipt; the next writer or the alarm removes it.
Age ==
  /\ \/ \E r \in Retained : receipts' = (receipts \ {r}) \cup {[r EXCEPT !.old = TRUE]} /\ UNCHANGED moved
     \/ \E m \in RetainedMoves : moved' = (moved \ {m}) \cup {[m EXCEPT !.old = TRUE]} /\ UNCHANGED receipts
  /\ UNCHANGED <<fmt, store, bucket, fences, req, seen, pass, sweep, replica>>

\* pruneTerminalSync, from the alarm.
PruneReceipts ==
  /\ receipts # Retained /\ receipts' = Retained
  /\ UNCHANGED <<fmt, store, bucket, moved, fences, req, seen, pass, sweep, replica>>

----------------------------------------------------------------------------
(* Export                                                                  *)

\* exportRecords, one record per page: the entry is captured, then its body is
\* read, and the replica takes entry and cursor.
Capture ==
  LET ahead == {s \in Sections : export[s].at > replica.cursor}
  IN /\ replica.page = <<>> /\ ahead # {}
     /\ \E s \in ahead :
          /\ \A t \in ahead : export[s].at <= export[t].at
          /\ replica' = [replica EXCEPT !.page = <<[sec |-> s, dig |-> export[s].dig, at |-> export[s].at]>>]
     /\ UNCHANGED <<fmt, store, bucket, receipts, moved, fences, req, seen, pass, sweep>>

Deliver ==
  /\ replica.page # <<>>
  /\ LET e == replica.page[1]
     IN replica' = [copy |-> [replica.copy EXCEPT ![e.sec] = e.dig], cursor |-> e.at, page |-> <<>>]
  /\ UNCHANGED <<fmt, store, bucket, receipts, moved, fences, req, seen, pass, sweep>>

----------------------------------------------------------------------------
(* The queue around the store                                              *)

\* A newer revision of the item is reviewed.
NextReview ==
  /\ itemRev < Newest({PlanOf[p].src : p \in Plans})
  /\ itemRev' = itemRev + 1
  /\ UNCHANGED <<fmt, store, bucket, receipts, moved, head, lane, req, seen, pass, sweep, replica>>

\* /enqueue of a publication records the head.
AdmitPublication(p) ==
  /\ PlanOf[p].batch /\ lane[PlanOf[p].fence] = "none"
  /\ PlanOf[p].src <= itemRev /\ PlanOf[p].src >= head
  /\ head' = PlanOf[p].src
  /\ lane' = [lane EXCEPT ![PlanOf[p].fence] = "queued"]
  /\ UNCHANGED <<fmt, store, bucket, receipts, moved, itemRev, req, seen, pass, sweep, replica>>

\* A batch takes or loses a publication.
Lease(p) ==
  /\ PlanOf[p].batch
  /\ lane' = [lane EXCEPT ![PlanOf[p].fence] =
       IF @ = "queued" /\ PlanOf[p].src >= head THEN "owned" ELSE IF @ = "owned" THEN "queued" ELSE @]
  /\ UNCHANGED <<fmt, store, bucket, receipts, moved, itemRev, head, req, seen, pass, sweep, replica>>

\* The record starts empty, imported, or published with a hydrated body.
Init ==
  /\ fmt = 1 /\ bucket = {} /\ receipts = {} /\ moved = {}
  /\ v2 = [s \in Sections |-> NoRow]
  /\ \/ /\ v1 = [s \in Sections |-> NoRow]
        /\ export = [s \in Sections |-> NoExport]
        /\ backfill = [s \in Sections |-> None] /\ seq = 0
     \/ \E d \in Legacy :
        /\ v1 = [s \in Sections |-> NoRow]
        /\ export = [s \in Sections |-> IF s = "items" THEN [dig |-> d, rev |-> 0, at |-> 1, src |-> "backfill"]
                                        ELSE NoExport]
        /\ backfill = [s \in Sections |-> IF s = "items" THEN d ELSE None] /\ seq = 1
     \/ \E d \in Legacy :
        /\ v1 = [s \in Sections |-> [dig |-> IF s = "items" THEN d ELSE None, rev |-> 1, by |-> None]]
        /\ export = [s \in Sections |-> [dig |-> v1[s].dig, rev |-> 1,
                                         at |-> IF s = "items" THEN 1 ELSE 2, src |-> "canonical"]]
        /\ backfill = [s \in Sections |-> IF s = "items" THEN d ELSE None] /\ seq = 2
  /\ itemRev = 1 /\ head = 0 /\ lane = [f \in BatchFences |-> "none"]
  /\ req = [r \in Requests |-> Idle]
  /\ seen = [d \in Deliveries |-> [s \in {} |-> None]]
  /\ pass = <<>> /\ sweep = <<>>
  /\ replica = [copy |-> [s \in Sections |-> None], cursor |-> 0, page |-> <<>>]

Next ==
  \/ \E r \in Requests :
       \/ \E p \in Plans : Submit(r, p)
       \/ \E d \in Deliveries : Send(r, d)
       \/ Publish(r) \/ Reprepare(r) \/ Commit(r) \/ UploadFails(r) \/ Move(r) \/ CommitMove(r)
  \/ \E d \in Deliveries : Observe(d)
  \/ Activate \/ PrepareTiering \/ CommitTiering \/ PrepareCleanup \/ CommitCleanup
  \/ PruneBackfill \/ Age \/ PruneReceipts \/ Capture \/ Deliver
  \/ NextReview \/ \E p \in Plans : AdmitPublication(p) \/ Lease(p)

Spec == Init /\ [][Next]_vars

----------------------------------------------------------------------------
(* Properties                                                              *)

\* The tables keep their types; no two sections share a place in the export
\* order, and a fence and revision have one receipt (accept).
TypeOK ==
  LET Row == [dig : Digests \cup {None}, rev : Nat, by : Plans \cup Deliveries \cup {None}]
  IN /\ fmt \in {1, 2} /\ v1 \in [Sections -> Row] /\ v2 \in [Sections -> Row]
     /\ \A s \in Sections : export[s].at \in 0..seq /\ export[s].rev \in Nat
     /\ \A s, t \in Sections : s # t /\ export[s].at > 0 => export[s].at # export[t].at
     /\ bucket \subseteq Digests /\ seq \in 0..MaxSeq
     /\ \A r \in receipts : r.plan \in Plans /\ r.st \in {"published", "superseded"}
     /\ \A q, r \in receipts : q.fence = r.fence /\ q.rev = r.rev => q = r

\* What the export index points at can always be read: the row with this digest
\* and revision exists in exactly one table and its body is inline or uploaded,
\* or the imported body is still there (publications, moves, migration and
\* cleanup that interleave at their awaits; a switch of the format in between).
ExportReadable ==
  \A s \in Sections :
    /\ v1[s] = NoRow \/ v2[s] = NoRow
    /\ v2[s].dig # None => v2[s].dig \in bucket
    /\ export[s].src = "canonical" => View[s].dig = export[s].dig /\ View[s].rev = export[s].rev
    /\ export[s].src = "backfill" => View[s] = NoRow /\ backfill[s] = export[s].dig
    /\ View[s] # NoRow => export[s].src = "canonical"

\* A replica that pages by store revision misses nothing: for every section up
\* to its cursor it has what the index exports.
ReplicaFaithful ==
  \A s \in Sections :
    export[s].at \in 1..replica.cursor => replica.copy[s] = export[s].dig

\* A record that changes gets a revision above all revisions of its tuple, so
\* that neither a replica nor a maintenance pass takes a new version for an old
\* one.
ChangesRaiseRevision ==
  [][\A s \in Sections : View'[s].dig # View[s].dig => \A t \in Sections : View'[s].rev > View[t].rev]_vars

\* Migration and cleanup never bring an older body back: without a publication
\* or a move, a section keeps its record up to normalisation.
MaintenanceKeepsRecords ==
  [][receipts' = receipts /\ moved' = moved =>
       \A s \in Sections : /\ View'[s].by = View[s].by
                           /\ (View'[s].dig = None) = (View[s].dig = None)
                           /\ View[s].dig # None => Stored[View'[s].dig] = Stored[View[s].dig]]_vars

Writer(s) == View[s].by

\* Publications of one route take effect in the order of the reviewed
\* revisions, whatever their requests and uploads do: a batch publication never
\* replaces a newer batch publication, nor a direct one a newer direct one.
\* The exception is a result sent again after the retention of its receipt and
\* before the receipt is pruned: directPublicationFenceSnapshot takes the expired
\* receipt for an authorization, and accept no longer sees it.
RouteKeepsNewest ==
  [][\A s \in Sections :
       LET p == Writer(s)
           q == View'[s].by
       IN p \in Plans /\ q \in Plans /\ PlanOf[p].batch = PlanOf[q].batch
          => \/ PlanOf[q].src >= PlanOf[p].src
             \/ \E r \in ReceiptOf(receipts, q) : r.old]_vars
=============================================================================

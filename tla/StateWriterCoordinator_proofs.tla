-------------------- MODULE StateWriterCoordinator_proofs --------------------
(***************************************************************************)
(* The coordinator is a lock for its writers, for any number of tickets,   *)
(* any lease lengths and any number of delayed requests.                   *)
(*                                                                         *)
(* The claim is about what writers believe, which no server operation      *)
(* checks; it is inductive only together with three facts about the server *)
(* and the network: one lease at a time, a lease's expiry never beyond its  *)
(* deadline (so a heartbeat never shortens it), and a release in the       *)
(* network only after its sender stopped writing.                          *)
(***************************************************************************)
EXTENDS StateWriterCoordinator, TLAPS

RowType == [st : RowStates, left : Nat, dl : Nat, tok : Tokens \cup {None}]
ClientType == [pc : {"idle", "polling", "holding", "aborting", "gone"},
               tok : Tokens \cup {None}, left : Nat, ambiguous : Nat, dog : BOOLEAN]

ServerTypeOK ==
  /\ row \in [Tickets -> RowType]
  /\ earlier \in [Tickets -> SUBSET Tickets]
  /\ batchTurns \in Nat /\ intakeTurns \in Nat
  /\ waited \in [Classes -> Nat]

LeaseWithinLimits ==
  \A t \in Tickets : row[t].st = "leased" =>
    row[t].left <= LeaseTicks /\ row[t].left <= row[t].dl

ReleaseOnlyAfterWriting ==
  \A m \in late : m.kind = "release" => client[m.ticket].pc = "gone"

BeliefBacked ==
  \A t \in Tickets : client[t].pc = "holding" /\ client[t].left > 0 =>
    Owns(row, t, client[t].tok) /\ client[t].left <= row[t].left

ServerInv == ServerTypeOK /\ AtMostOneLease /\ LeaseWithinLimits

LockInv ==
  /\ ServerInv
  /\ client \in [Tickets -> ClientType]
  /\ late \subseteq Messages
  /\ ReleaseOnlyAfterWriting
  /\ BeliefBacked

\* A lease in force that a transaction leaves to its owner.
InForce(u) == row[u].st = "leased" /\ row[u].left > 0
Kept(u) == row'[u].st = "leased" /\ row'[u].tok = row[u].tok /\ row[u].left <= row'[u].left

----------------------------------------------------------------------------
(* Transactions.                                                           *)

LEMMA LeastOfLemma == \A a, b \in Nat : LeastOf(a, b) \in Nat /\ LeastOf(a, b) <= a
                                        /\ LeastOf(a, b) <= b
BY DEF LeastOf

\* Commit keeps the types of the columns it computes.
LEMMA CommitType ==
  ASSUME ServerTypeOK, NEW rs \in [Tickets -> RowType],
         NEW before \in [Tickets -> SUBSET Tickets], NEW g \in Tickets \cup {None},
         Commit(rs, before, g)
  PROVE  row' = rs /\ ServerTypeOK'
<1>1. row' = rs BY DEF Commit
<1>2. earlier' \in [Tickets -> SUBSET Tickets] BY DEF Commit, OrderAfter, AllQueued
<1>3. batchTurns' \in Nat /\ intakeTurns' \in Nat
  BY LeastOfLemma DEF Commit, BatchTurnsAfter, IntakeTurnsAfter, Bump, TurnCap,
     MAX_CONSECUTIVE_PRIORITY_TURNS, ServerTypeOK
<1>4. waited' \in [Classes -> Nat]
  BY LeastOfLemma DEF Commit, WaitedAfter, WaitedCap, ServerTypeOK
<1> QED BY <1>1, <1>2, <1>3, <1>4 DEF ServerTypeOK

\* reclaimAndPruneSync leaves the leases in force alone and no other.
LEMMA ReclaimLemma ==
  ASSUME ServerInv
  PROVE  LET rs == ReclaimAndPrune(row) IN
         /\ rs \in [Tickets -> RowType]
         /\ \A u \in Tickets : rs[u].st = "leased" => rs[u] = row[u]
         /\ \A u \in Tickets : InForce(u) => rs[u] = row[u]
<1> DEFINE rs == ReclaimAndPrune(row)
<1>1. RetentionTicks \in Nat BY TicksAssumption
<1>2. \A u \in Tickets : row[u] \in RowType BY DEF ServerInv, ServerTypeOK
<1>3. rs \in [Tickets -> RowType]
  BY <1>1, <1>2 DEF ReclaimAndPrune, Terminal, NoRow, RowType, RowStates
<1>4. \A u \in Tickets : rs[u].st = "leased" => rs[u] = row[u]
  BY DEF ReclaimAndPrune, Terminal, NoRow
<1>5. ASSUME NEW u \in Tickets, InForce(u) PROVE rs[u] = row[u]
  <2>1. ~Lapsed(row[u])
    BY <1>2, <1>5 DEF Lapsed, InForce, ServerInv, LeaseWithinLimits, RowType
  <2> QED BY <1>5, <2>1 DEF ReclaimAndPrune, InForce
<1> QED BY <1>3, <1>4, <1>5

\* Any transaction that leaves other leases as reclaim left them, and writes a
\* lease only where it grants or renews one, keeps the server's invariant.
LEMMA AcquireLemma ==
  ASSUME ServerInv, NEW t \in Tickets, AcquireTx(t)
  PROVE  ServerInv' /\ \A u \in Tickets : InForce(u) => Kept(u)
<1> DEFINE rs == ReclaimAndPrune(row)
           ins == Admitted(t, rs)
           before == AdmittedOrder(t, rs)
<1>1. /\ rs \in [Tickets -> RowType]
      /\ \A u \in Tickets : rs[u].st = "leased" => rs[u] = row[u]
      /\ \A u \in Tickets : InForce(u) => rs[u] = row[u]
  BY ReclaimLemma
<1>2. QueuedRow \in RowType BY TicksAssumption DEF QueuedRow, RowType, RowStates
<1>3. /\ ins \in [Tickets -> RowType]
      /\ \A u \in Tickets : ins[u].st = "leased" => ins[u] = row[u]
      /\ \A u \in Tickets : InForce(u) => ins[u] = row[u]
  <2>1. CASE rs[t].st = "absent"
    <3>1. ins = With(rs, t, QueuedRow) BY <2>1 DEF Admitted
    <3>2. ~InForce(t) BY <1>1, <2>1 DEF InForce
    <3> QED BY <1>1, <1>2, <3>1, <3>2 DEF With, QueuedRow
  <2>2. CASE rs[t].st # "absent"
    BY <1>1, <2>2 DEF Admitted
  <2> QED BY <2>1, <2>2
<1>4. before \in [Tickets -> SUBSET Tickets]
  BY DEF AdmittedOrder, AllQueued, ServerInv, ServerTypeOK
<1>5. None \in Tickets \cup {None} /\ t \in Tickets \cup {None} OBVIOUS
<1>6. Settle(t, ins, before) BY DEF AcquireTx
<1> HIDE DEF rs, ins, before
<1>7. CASE ins[t].st # "queued" /\ Commit(ins, before, None)
  <2>1. row' = ins /\ ServerTypeOK' BY <1>3, <1>4, <1>5, <1>7, CommitType DEF ServerInv
  <2>2. AtMostOneLease' BY <1>3, <2>1 DEF ServerInv, AtMostOneLease, Leased
  <2>3. LeaseWithinLimits' BY <1>3, <2>1 DEF ServerInv, LeaseWithinLimits
  <2>4. \A u \in Tickets : InForce(u) => Kept(u)
    BY <1>3, <2>1 DEF InForce, Kept, ServerInv, ServerTypeOK, RowType
  <2> QED BY <2>1, <2>2, <2>3, <2>4 DEF ServerInv
<1>8. CASE /\ ins[t].st = "queued" /\ Grantable(t, ins, before)
           /\ FreshTokens # {}
           /\ Commit(With(ins, t, LeasedRow(FreshToken)), before, t)
  <2> DEFINE new == With(ins, t, LeasedRow(FreshToken))
  <2>1. FreshToken \in Tokens BY <1>8 DEF FreshToken, FreshTokens
  <2>2. LeasedRow(FreshToken) \in RowType
    BY <2>1, LeastOfLemma, TicksAssumption DEF LeasedRow, RowType, RowStates
  <2>3. new \in [Tickets -> RowType] BY <1>3, <2>2 DEF With
  <2>4. row' = new /\ ServerTypeOK' BY <1>4, <1>5, <1>8, <2>3, CommitType DEF ServerInv
  <2>5. Leased(ins) = {} BY <1>8 DEF Grantable
  <2>6. \A u \in Tickets : row'[u].st = "leased" => u = t
    BY <2>4, <2>5 DEF With, Leased
  <2>7. AtMostOneLease' BY <2>6 DEF AtMostOneLease, Leased
  <2>8. LeaseWithinLimits'
    BY <2>4, <2>6, LeastOfLemma, TicksAssumption DEF LeaseWithinLimits, With, LeasedRow
  <2>9. \A u \in Tickets : ~InForce(u) BY <1>3, <2>5 DEF InForce, Leased
  <2> QED BY <2>4, <2>7, <2>8, <2>9 DEF ServerInv
<1>9. CASE /\ ins[t].st = "queued" /\ ~Grantable(t, ins, before)
           /\ Commit(With(ins, t, QueuedRow), before, None)
  <2> DEFINE new == With(ins, t, QueuedRow)
  <2>1. new \in [Tickets -> RowType] BY <1>2, <1>3 DEF With
  <2>2. row' = new /\ ServerTypeOK' BY <1>4, <1>5, <1>9, <2>1, CommitType DEF ServerInv
  <2>3. /\ \A u \in Tickets : row'[u].st = "leased" => row'[u] = row[u]
        /\ \A u \in Tickets : InForce(u) => row'[u] = row[u]
    BY <1>3, <1>9, <2>2 DEF With, QueuedRow, InForce
  <2>4. AtMostOneLease' BY <2>3 DEF ServerInv, AtMostOneLease, Leased
  <2>5. LeaseWithinLimits' BY <2>3 DEF ServerInv, LeaseWithinLimits
  <2>6. \A u \in Tickets : InForce(u) => Kept(u)
    BY <2>3 DEF InForce, Kept, ServerInv, ServerTypeOK, RowType
  <2> QED BY <2>2, <2>4, <2>5, <2>6 DEF ServerInv
<1> QED BY <1>6, <1>7, <1>8, <1>9 DEF Settle

\* The parts of a transaction that renews, ends or only reclaims leases.
LEMMA SubLeaseLemma ==
  ASSUME ServerInv, NEW t \in Tickets, NEW r \in RowType,
         LET rs == ReclaimAndPrune(row) IN
           Commit(With(rs, t, r), earlier, None) \/ Commit(rs, earlier, None),
         r.st = "leased" => /\ ReclaimAndPrune(row)[t].st = "leased"
                            /\ r.tok = row[t].tok /\ row[t].left <= r.left
                            /\ r.left <= LeaseTicks /\ r.left <= r.dl
  PROVE  /\ ServerInv'
         /\ \A u \in Tickets : InForce(u) /\ (u = t => r.st = "leased") => Kept(u)
<1> DEFINE rs == ReclaimAndPrune(row)
<1>1. /\ rs \in [Tickets -> RowType]
      /\ \A u \in Tickets : rs[u].st = "leased" => rs[u] = row[u]
      /\ \A u \in Tickets : InForce(u) => rs[u] = row[u]
  BY ReclaimLemma
<1>2. earlier \in [Tickets -> SUBSET Tickets] /\ ServerTypeOK
  BY DEF ServerInv, ServerTypeOK
<1>3. None \in Tickets \cup {None} OBVIOUS
<1>4. With(rs, t, r) \in [Tickets -> RowType] BY <1>1 DEF With
<1> HIDE DEF rs
<1>5. CASE Commit(With(rs, t, r), earlier, None)
  <2>1. row' = With(rs, t, r) /\ ServerTypeOK' BY <1>2, <1>3, <1>4, <1>5, CommitType
  <2>2. \A u \in Tickets : row'[u].st = "leased" => row[u].st = "leased"
    BY <1>1, <2>1 DEF With, rs
  <2>3. AtMostOneLease' BY <2>2 DEF ServerInv, AtMostOneLease, Leased
  <2>4. LeaseWithinLimits'
    BY <1>1, <2>1 DEF With, ServerInv, LeaseWithinLimits
  <2>5. \A u \in Tickets : InForce(u) /\ (u = t => r.st = "leased") => Kept(u)
    BY <1>1, <1>2, <2>1 DEF With, Kept, InForce, ServerTypeOK, RowType
  <2> QED BY <2>1, <2>3, <2>4, <2>5 DEF ServerInv
<1>6. CASE Commit(rs, earlier, None)
  <2>1. row' = rs /\ ServerTypeOK' BY <1>1, <1>2, <1>3, <1>6, CommitType
  <2>2. AtMostOneLease' BY <1>1, <2>1 DEF ServerInv, AtMostOneLease, Leased
  <2>3. LeaseWithinLimits' BY <1>1, <2>1 DEF ServerInv, LeaseWithinLimits
  <2>4. \A u \in Tickets : InForce(u) => Kept(u)
    BY <1>1, <1>2, <2>1 DEF Kept, InForce, ServerTypeOK, RowType
  <2> QED BY <2>1, <2>2, <2>3, <2>4 DEF ServerInv
<1> QED BY <1>5, <1>6 DEF rs

LEMMA HeartbeatLemma ==
  ASSUME ServerInv, NEW t \in Tickets, NEW k, HeartbeatTx(t, k)
  PROVE  ServerInv' /\ \A u \in Tickets : InForce(u) => Kept(u)
<1> DEFINE rs == ReclaimAndPrune(row)
           r == [rs[t] EXCEPT !.left = RenewedLeft(rs[t])]
<1>1. /\ rs \in [Tickets -> RowType]
      /\ \A u \in Tickets : rs[u].st = "leased" => rs[u] = row[u]
      /\ \A u \in Tickets : InForce(u) => rs[u] = row[u]
  BY ReclaimLemma
<1>2. rs[t] \in RowType /\ RenewedLeft(rs[t]) \in Nat
  BY <1>1, LeastOfLemma, TicksAssumption DEF RenewedLeft, RowType
<1>3. r \in RowType BY <1>2 DEF RowType
<1>4. CASE Owns(rs, t, k)
  <2>1. Commit(With(rs, t, r), earlier, None) BY <1>4 DEF HeartbeatTx
  <2>2. rs[t] = row[t] /\ rs[t].st = "leased" BY <1>1, <1>4 DEF Owns
  <2>3. row[t].left <= LeaseTicks /\ row[t].left <= row[t].dl
    BY <2>2 DEF ServerInv, LeaseWithinLimits
  <2>4. r.st = "leased" /\ r.tok = row[t].tok /\ r.dl = row[t].dl
        /\ r.left = LeastOf(LeaseTicks, row[t].dl)
    BY <1>2, <2>2 DEF RowType, RenewedLeft
  <2>5. row[t].left <= r.left /\ r.left <= LeaseTicks /\ r.left <= r.dl
    BY <1>2, <2>2, <2>3, <2>4, TicksAssumption DEF LeastOf, RowType
  <2> HIDE DEF r
  <2> QED BY <1>3, <2>1, <2>2, <2>4, <2>5, SubLeaseLemma
<1>5. CASE ~Owns(rs, t, k)
  <2>1. Commit(rs, earlier, None) BY <1>5 DEF HeartbeatTx
  <2>2. NoRow \in RowType /\ NoRow.st # "leased" BY DEF NoRow, RowType, RowStates
  <2>3. row' = rs
    BY <2>1 DEF Commit
  <2>4. ServerInv' BY <2>1, <2>2, SubLeaseLemma
  <2>5. \A u \in Tickets : InForce(u) => Kept(u)
    BY <1>1, <2>3 DEF Kept, InForce, ServerInv, ServerTypeOK, RowType
  <2> QED BY <2>4, <2>5
<1> QED BY <1>4, <1>5

LEMMA ReleaseLemma ==
  ASSUME ServerInv, NEW t \in Tickets, NEW k, ReleaseTx(t, k)
  PROVE  ServerInv' /\ \A u \in Tickets \ {t} : InForce(u) => Kept(u)
<1> DEFINE rs == ReclaimAndPrune(row)
           r == Terminal("completed", rs[t])
<1>1. rs \in [Tickets -> RowType] BY ReclaimLemma
<1>2. r \in RowType /\ r.st # "leased"
  BY <1>1, TicksAssumption DEF Terminal, RowType, RowStates
<1>3. Commit(With(rs, t, r), earlier, None) \/ Commit(rs, earlier, None)
  BY DEF ReleaseTx
<1> HIDE DEF r
<1> QED BY <1>2, <1>3, SubLeaseLemma

LEMMA StatsLemma ==
  ASSUME ServerInv, Commit(ReclaimAndPrune(row), earlier, None)
  PROVE  ServerInv' /\ \A u \in Tickets : InForce(u) => Kept(u)
<1>1. /\ ReclaimAndPrune(row) \in [Tickets -> RowType]
      /\ \A u \in Tickets : ReclaimAndPrune(row)[u].st = "leased"
                              => ReclaimAndPrune(row)[u] = row[u]
      /\ \A u \in Tickets : InForce(u) => ReclaimAndPrune(row)[u] = row[u]
  BY ReclaimLemma
<1>2. row' = ReclaimAndPrune(row) /\ ServerTypeOK'
  BY <1>1, CommitType DEF ServerInv, ServerTypeOK
<1>3. AtMostOneLease' BY <1>1, <1>2 DEF ServerInv, AtMostOneLease, Leased
<1>4. LeaseWithinLimits' BY <1>1, <1>2 DEF ServerInv, LeaseWithinLimits
<1>5. \A u \in Tickets : InForce(u) => Kept(u)
  BY <1>1, <1>2 DEF Kept, InForce, ServerInv, ServerTypeOK, RowType
<1> QED BY <1>2, <1>3, <1>4, <1>5 DEF ServerInv

----------------------------------------------------------------------------
(* The invariant.                                                          *)

\* A step of the server that keeps the leases in force keeps every belief of
\* a client it does not touch.
LEMMA BeliefKept ==
  ASSUME LockInv, NEW t \in Tickets, client'[t].pc = client[t].pc,
         client'[t].tok = client[t].tok, client'[t].left = client[t].left,
         InForce(t) => Kept(t), ServerInv'
  PROVE  client'[t].pc = "holding" /\ client'[t].left > 0 =>
           Owns(row', t, client'[t].tok) /\ client'[t].left <= row'[t].left
<1> SUFFICES ASSUME client[t].pc = "holding", client[t].left > 0
             PROVE  Owns(row', t, client[t].tok) /\ client[t].left <= row'[t].left
  OBVIOUS
<1>1. Owns(row, t, client[t].tok) /\ client[t].left <= row[t].left
  BY DEF LockInv, BeliefBacked
<1>2. client[t].left \in Nat /\ row[t].left \in Nat /\ row'[t].left \in Nat
  BY DEF LockInv, ServerInv, ServerTypeOK, RowType, ClientType
<1>3. InForce(t) BY <1>1, <1>2 DEF InForce, Owns
<1> QED BY <1>1, <1>2, <1>3 DEF Kept, Owns

LEMMA InitLockInv == Init => LockInv
<1> SUFFICES ASSUME Init PROVE LockInv OBVIOUS
<1>1. NoRow \in RowType /\ NoClient \in ClientType
  BY DEF NoRow, NoClient, RowType, RowStates, ClientType
<1>2. ServerTypeOK BY <1>1 DEF Init, ServerTypeOK
<1>3. AtMostOneLease /\ LeaseWithinLimits
  BY DEF Init, NoRow, AtMostOneLease, Leased, LeaseWithinLimits
<1>4. client \in [Tickets -> ClientType] BY <1>1 DEF Init
<1>5. late \subseteq Messages /\ ReleaseOnlyAfterWriting BY DEF Init, ReleaseOnlyAfterWriting
<1>6. BeliefBacked BY DEF Init, NoClient, BeliefBacked
<1> QED BY <1>2, <1>3, <1>4, <1>5, <1>6 DEF LockInv, ServerInv

\* Delayed requests are well formed, and posting one keeps `late` typed.
LEMMA PostLemma ==
  ASSUME LockInv, NEW t \in Tickets, NEW kind \in {"acquire", "heartbeat", "release"},
         NEW k \in Tokens \cup {None}, Post(Message(kind, t, k))
  PROVE  /\ late' \subseteq Messages
         /\ \A m \in late' : m \in late \/ (m.kind = kind /\ m.ticket = t)
BY DEF Post, Message, Messages, LockInv

\* The steps of a client that leave the server alone.
LEMMA ServerUnchanged ==
  ASSUME LockInv, UNCHANGED serverVars
  PROVE  ServerInv' /\ row' = row
<1>1. row' = row /\ earlier' = earlier /\ batchTurns' = batchTurns
      /\ intakeTurns' = intakeTurns /\ waited' = waited
  BY DEF serverVars
<1> QED BY <1>1 DEF LockInv, ServerInv, ServerTypeOK, AtMostOneLease, Leased,
              LeaseWithinLimits

LEMMA TickLockInv == LockInv /\ Tick => LockInv'
<1> SUFFICES ASSUME LockInv, Tick PROVE LockInv' OBVIOUS
<1>1. \A n \in Nat : Dec(n) \in Nat /\ Dec(n) <= n BY DEF Dec
<1>2. \A m, n \in Nat : m <= n => Dec(m) <= Dec(n) BY DEF Dec
<1>3. \A t \in Tickets : row[t] \in RowType /\ client[t] \in ClientType
  BY DEF LockInv, ServerInv, ServerTypeOK
<1>4. ASSUME NEW t \in Tickets
      PROVE  /\ row'[t] \in RowType /\ row'[t].st = row[t].st /\ row'[t].tok = row[t].tok
             /\ row'[t].left = Dec(row[t].left) /\ row'[t].dl = Dec(row[t].dl)
  <2>1. row'[t] = [row[t] EXCEPT !.left = Dec(row[t].left), !.dl = Dec(row[t].dl)]
    BY DEF Tick
  <2> QED BY <1>1, <1>3, <2>1 DEF RowType
<1>5. ASSUME NEW t \in Tickets
      PROVE  /\ client'[t] \in ClientType /\ client'[t].pc = client[t].pc
             /\ client'[t].tok = client[t].tok /\ client'[t].left = Dec(client[t].left)
  <2>1. client'[t] = [client[t] EXCEPT !.left = Dec(client[t].left)] BY DEF Tick
  <2> QED BY <1>1, <1>3, <2>1 DEF ClientType
<1>6. ServerTypeOK'
  <2>1. row' \in [Tickets -> RowType] BY <1>4 DEF Tick
  <2> QED BY <2>1 DEF Tick, LockInv, ServerInv, ServerTypeOK
<1>7. AtMostOneLease' BY <1>4 DEF LockInv, ServerInv, AtMostOneLease, Leased
<1>8. LeaseWithinLimits'
  <2> SUFFICES ASSUME NEW t \in Tickets, row'[t].st = "leased"
               PROVE  row'[t].left <= LeaseTicks /\ row'[t].left <= row'[t].dl
    BY DEF LeaseWithinLimits
  <2>1. row[t].left <= LeaseTicks /\ row[t].left <= row[t].dl
    BY <1>4 DEF LockInv, ServerInv, LeaseWithinLimits
  <2>2. row[t].left \in Nat /\ row[t].dl \in Nat BY <1>3 DEF RowType
  <2> QED BY <1>1, <1>2, <1>4, <2>1, <2>2, TicksAssumption
<1>9. client' \in [Tickets -> ClientType] BY <1>5 DEF Tick
<1>10. late' \subseteq Messages /\ ReleaseOnlyAfterWriting'
  BY <1>5 DEF Tick, LockInv, ReleaseOnlyAfterWriting, Messages
<1>11. BeliefBacked'
  <2> SUFFICES ASSUME NEW t \in Tickets, client'[t].pc = "holding", client'[t].left > 0
               PROVE  Owns(row', t, client'[t].tok) /\ client'[t].left <= row'[t].left
    BY DEF BeliefBacked
  <2>1. client[t].left \in Nat /\ row[t].left \in Nat BY <1>3 DEF RowType, ClientType
  <2>2. client[t].left > 0 BY <1>5, <2>1 DEF Dec
  <2>3. Owns(row, t, client[t].tok) /\ client[t].left <= row[t].left
    BY <1>5, <2>2 DEF LockInv, BeliefBacked
  <2> QED BY <1>2, <1>4, <1>5, <2>1, <2>3 DEF Owns
<1> QED BY <1>6, <1>7, <1>8, <1>9, <1>10, <1>11 DEF LockInv, ServerInv

\* What a step of client t must leave in order for the others.
LEMMA ClientFrame ==
  ASSUME LockInv, NEW t \in Tickets, ServerInv',
         client' \in [Tickets -> ClientType],
         \A u \in Tickets \ {t} : client'[u] = client[u],
         late' \subseteq Messages,
         \A m \in late' : m.kind = "release" =>
           m \in late \/ (m.ticket = t /\ client'[t].pc = "gone"),
         \A m \in late' : m.kind = "release" /\ m.ticket = t => client'[t].pc = "gone",
         \A u \in Tickets \ {t} : InForce(u) => Kept(u),
         client'[t].pc = "holding" /\ client'[t].left > 0 =>
           Owns(row', t, client'[t].tok) /\ client'[t].left <= row'[t].left
  PROVE  LockInv'
<1>1. ReleaseOnlyAfterWriting'
  <2> SUFFICES ASSUME NEW m \in late', m.kind = "release" PROVE client'[m.ticket].pc = "gone"
    BY DEF ReleaseOnlyAfterWriting
  <2>1. m.ticket \in Tickets BY DEF Messages
  <2>2. CASE m.ticket = t BY <2>2
  <2>3. CASE m.ticket # t
    BY <2>1, <2>3 DEF LockInv, ReleaseOnlyAfterWriting
  <2> QED BY <2>2, <2>3
<1>2. BeliefBacked'
  <2> SUFFICES ASSUME NEW u \in Tickets, client'[u].pc = "holding", client'[u].left > 0
               PROVE  Owns(row', u, client'[u].tok) /\ client'[u].left <= row'[u].left
    BY DEF BeliefBacked
  <2>1. CASE u = t BY <2>1
  <2>2. CASE u # t
    <3>1. client'[u] = client[u] /\ (InForce(u) => Kept(u)) BY <2>2
    <3> QED BY <3>1, BeliefKept
  <2> QED BY <2>1, <2>2
<1> QED BY <1>1, <1>2 DEF LockInv

\* The client's own record after the steps that change one field or two.
LEMMA ClientRecord ==
  ASSUME NEW c \in ClientType
  PROVE  /\ \A p \in {"idle", "polling", "holding", "aborting", "gone"} :
              /\ [c EXCEPT !.pc = p] \in ClientType
              /\ \A d \in BOOLEAN : [c EXCEPT !.pc = p, !.dog = d] \in ClientType
              /\ \A n \in Nat : [c EXCEPT !.ambiguous = n, !.pc = p] \in ClientType
         /\ \A d \in BOOLEAN : [c EXCEPT !.dog = d] \in ClientType
         /\ \A n \in Nat : [c EXCEPT !.left = n] \in ClientType
         /\ \A n \in Nat : [c EXCEPT !.ambiguous = n] \in ClientType
BY DEF ClientType

LEMMA PollLockInv ==
  ASSUME LockInv, NEW t \in Tickets, PollAnswered(t)
  PROVE  LockInv'
<1>1. ServerInv' /\ \A u \in Tickets : InForce(u) => Kept(u)
  BY AcquireLemma DEF PollAnswered, LockInv
<1> DEFINE c == AfterPoll(client[t], row'[t])
<1>2. client' = [client EXCEPT ![t] = c] /\ late' = late BY DEF PollAnswered
<1>3. client[t] \in ClientType /\ row'[t] \in RowType
  BY <1>1 DEF LockInv, ServerInv, ServerTypeOK
<1>4. c \in ClientType
  <2>1. CASE row'[t].st = "leased"
    <3>1. c = [pc |-> "holding", tok |-> row'[t].tok, left |-> row'[t].left,
               ambiguous |-> 0, dog |-> TRUE]
      BY <2>1 DEF AfterPoll
    <3> QED BY <1>3, <3>1 DEF ClientType, RowType
  <2>2. CASE row'[t].st = "queued"
    BY <1>3, <2>2, ClientRecord DEF AfterPoll
  <2>3. CASE row'[t].st \notin {"leased", "queued"}
    BY <1>3, <2>3, ClientRecord DEF AfterPoll
  <2> QED BY <2>1, <2>2, <2>3
<1>5. client[t].pc = "polling" BY DEF PollAnswered
<1>6. c.pc = "holding" => row'[t].st = "leased" /\ c.tok = row'[t].tok /\ c.left = row'[t].left
  BY <1>3, <1>5 DEF AfterPoll, ClientType
<1> HIDE DEF c
<1>7. client' \in [Tickets -> ClientType] /\ client'[t] = c
      /\ \A u \in Tickets \ {t} : client'[u] = client[u]
  BY <1>2, <1>4 DEF LockInv
<1>8. \A m \in late' : m.kind = "release" => m.ticket # t
  BY <1>2, <1>5 DEF LockInv, ReleaseOnlyAfterWriting
<1>9. client'[t].pc = "holding" /\ client'[t].left > 0 =>
        Owns(row', t, client'[t].tok) /\ client'[t].left <= row'[t].left
  BY <1>3, <1>6, <1>7 DEF Owns, RowType
<1> QED BY <1>1, <1>2, <1>7, <1>8, <1>9, ClientFrame DEF LockInv

LEMMA AssertLockInv ==
  ASSUME LockInv, NEW t \in Tickets, AssertActive(t)
  PROVE  LockInv'
<1>1. ServerInv' /\ \A u \in Tickets : InForce(u) => Kept(u)
  BY HeartbeatLemma DEF AssertActive, LockInv
<1> DEFINE c == IF Owns(row', t, client[t].tok)
                THEN [client[t] EXCEPT !.left = row'[t].left]
                ELSE [client[t] EXCEPT !.pc = "aborting"]
<1>2. client' = [client EXCEPT ![t] = c] /\ late' = late BY DEF AssertActive
<1>3. client[t] \in ClientType /\ row'[t].left \in Nat
  BY <1>1 DEF LockInv, ServerInv, ServerTypeOK, RowType
<1>4. c \in ClientType BY <1>3, ClientRecord
<1>5. client[t].pc = "holding" BY DEF AssertActive
<1>6. c.pc = "holding" => Owns(row', t, c.tok) /\ c.left = row'[t].left
  BY <1>3, <1>5 DEF ClientType
<1> HIDE DEF c
<1>7. client' \in [Tickets -> ClientType] /\ client'[t] = c
      /\ \A u \in Tickets \ {t} : client'[u] = client[u]
  BY <1>2, <1>4 DEF LockInv
<1>8. \A m \in late' : m.kind = "release" => m.ticket # t
  BY <1>2, <1>5 DEF LockInv, ReleaseOnlyAfterWriting
<1>9. client'[t].pc = "holding" /\ client'[t].left > 0 =>
        Owns(row', t, client'[t].tok) /\ client'[t].left <= row'[t].left
  BY <1>3, <1>6, <1>7
<1> QED BY <1>1, <1>2, <1>7, <1>8, <1>9, ClientFrame DEF LockInv

\* Client steps that do not touch the server: none starts to believe.
LEMMA QuietClientStep ==
  ASSUME LockInv, NEW t \in Tickets, UNCHANGED serverVars,
         client' \in [Tickets -> ClientType],
         \A u \in Tickets \ {t} : client'[u] = client[u],
         late' \subseteq Messages,
         \A m \in late' : m.kind = "release" =>
           m \in late \/ (m.ticket = t /\ client'[t].pc = "gone"),
         client[t].pc = "gone" =>
           client'[t].pc = "gone" \/ \A m \in late' : m.ticket # t,
         client'[t].pc = "holding" => client'[t] = client[t]
  PROVE  LockInv'
<1>1. ServerInv' /\ row' = row BY ServerUnchanged
<1>2. \A u \in Tickets : InForce(u) => Kept(u)
  BY <1>1 DEF InForce, Kept, LockInv, ServerInv, ServerTypeOK, RowType
<1>3. \A m \in late' : m.kind = "release" /\ m.ticket = t => client'[t].pc = "gone"
  BY DEF LockInv, ReleaseOnlyAfterWriting
<1>4. client'[t].pc = "holding" /\ client'[t].left > 0 =>
        Owns(row', t, client'[t].tok) /\ client'[t].left <= row'[t].left
  BY <1>1 DEF LockInv, BeliefBacked
<1> QED BY <1>1, <1>2, <1>3, <1>4, ClientFrame

\* Client steps that end its writing and release or leave its lease.
LEMMA ReleaseLockInv ==
  ASSUME LockInv, NEW t \in Tickets, ReleaseTx(t, client[t].tok),
         client' \in [Tickets -> ClientType],
         \A u \in Tickets \ {t} : client'[u] = client[u],
         client'[t].pc = "gone", late' = late
  PROVE  LockInv'
<1>1. ServerInv' /\ \A u \in Tickets \ {t} : InForce(u) => Kept(u)
  BY ReleaseLemma DEF LockInv
<1> QED BY <1>1, ClientFrame DEF LockInv

LEMMA ClientStepLockInv ==
  ASSUME LockInv, NEW t \in Tickets, ClientStep(t)
  PROVE  LockInv'
<1>1. client[t] \in ClientType /\ client \in [Tickets -> ClientType]
      /\ late \subseteq Messages /\ client[t].tok \in Tokens \cup {None}
  BY DEF LockInv, ClientType
<1>2. CASE StartAcquire(t)
  <2>1. client' = [client EXCEPT ![t].pc = "polling"] BY <1>2 DEF StartAcquire, Become
  <2>2. client' \in [Tickets -> ClientType] BY <1>1, <2>1, ClientRecord
  <2> QED BY <1>1, <1>2, <2>1, <2>2, QuietClientStep DEF StartAcquire, ClientType
<1>3. CASE PollAnswered(t) BY <1>3, PollLockInv
<1>4. CASE PollAmbiguous(t)
  <2> DEFINE p == IF client[t].ambiguous + 1 >= AmbiguousLimit THEN "gone" ELSE client[t].pc
  <2>1. client' = [client EXCEPT ![t] = [client[t] EXCEPT
                     !.ambiguous = client[t].ambiguous + 1, !.pc = p]]
    BY <1>1, <1>4 DEF PollAmbiguous, ClientType
  <2>2. client' \in [Tickets -> ClientType]
    <3>1. p \in {"idle", "polling", "holding", "aborting", "gone"}
          /\ client[t].ambiguous + 1 \in Nat
      BY <1>1 DEF ClientType
    <3> HIDE DEF p
    <3> QED BY <1>1, <2>1, <3>1, ClientRecord
  <2>3. late' \subseteq Messages
        /\ \A m \in late' : m \in late \/ (m.kind = "acquire" /\ m.ticket = t)
    BY <1>4, PostLemma DEF PollAmbiguous
  <2>4. client'[t].pc # "holding" /\ client[t].pc = "polling"
    BY <1>1, <1>4, <2>1 DEF PollAmbiguous, ClientType
  <2> QED BY <1>1, <1>4, <2>1, <2>2, <2>3, <2>4, QuietClientStep DEF PollAmbiguous
<1>5. CASE PollTimedOut(t)
  <2>1. client' = [client EXCEPT ![t].pc = "gone"] BY <1>5 DEF PollTimedOut, Become
  <2>2. client' \in [Tickets -> ClientType] BY <1>1, <2>1, ClientRecord
  <2> QED BY <1>1, <1>5, <2>1, <2>2, QuietClientStep DEF PollTimedOut, ClientType
<1>6. CASE AssertActive(t) BY <1>6, AssertLockInv
<1>7. CASE AssertActiveUnanswered(t)
  <2>1. client' = [client EXCEPT ![t].pc = "aborting"]
    BY <1>7 DEF AssertActiveUnanswered, Become
  <2>2. client' \in [Tickets -> ClientType] BY <1>1, <2>1, ClientRecord
  <2>3. late' \subseteq Messages
        /\ \A m \in late' : m \in late \/ (m.kind = "heartbeat" /\ m.ticket = t)
    BY <1>1, <1>7, PostLemma DEF AssertActiveUnanswered
  <2> QED BY <1>1, <1>7, <2>1, <2>2, <2>3, QuietClientStep
          DEF AssertActiveUnanswered, ClientType
<1>8. CASE WatchdogHeartbeat(t)
  <2>1. ServerInv' /\ \A u \in Tickets : InForce(u) => Kept(u)
    BY <1>8, HeartbeatLemma DEF WatchdogHeartbeat, LockInv
  <2>2. client' = client /\ late' = late BY <1>8 DEF WatchdogHeartbeat
  <2>3. client'[t].pc = "holding" /\ client'[t].left > 0 =>
          Owns(row', t, client'[t].tok) /\ client'[t].left <= row'[t].left
    BY <2>1, <2>2, BeliefKept
  <2>4. \A m \in late' : m.kind = "release" /\ m.ticket = t => client'[t].pc = "gone"
    BY <2>2 DEF LockInv, ReleaseOnlyAfterWriting
  <2> QED BY <1>1, <2>1, <2>2, <2>3, <2>4, ClientFrame
<1>9. CASE WatchdogHeartbeatDelayed(t)
  <2>1. late' \subseteq Messages
        /\ \A m \in late' : m \in late \/ (m.kind = "heartbeat" /\ m.ticket = t)
    BY <1>1, <1>9, PostLemma DEF WatchdogHeartbeatDelayed
  <2> QED BY <1>1, <1>9, <2>1, QuietClientStep DEF WatchdogHeartbeatDelayed
<1>10. CASE Release(t)
  <2> DEFINE d == client[t].dog /\ ~(row'[t].st = "completed" /\ row'[t].tok = client[t].tok)
  <2>1. client' = [client EXCEPT ![t] = [client[t] EXCEPT !.pc = "gone", !.dog = d]]
    BY <1>1, <1>10 DEF Release, ClientType
  <2>2. d \in BOOLEAN BY <1>1 DEF ClientType
  <2>3. client' \in [Tickets -> ClientType] /\ client'[t].pc = "gone"
    <3>1. client' \in [Tickets -> ClientType] BY <1>1, <2>1, <2>2, ClientRecord
    <3>2. client'[t].pc = "gone" BY <1>1, <2>1 DEF ClientType
    <3> QED BY <3>1, <3>2
  <2> QED BY <1>10, <2>1, <2>3, ReleaseLockInv DEF Release
<1>11. CASE ReleaseUnanswered(t)
  <2>1. client' = [client EXCEPT ![t].pc = "gone"] BY <1>11 DEF ReleaseUnanswered, Become
  <2>2. client' \in [Tickets -> ClientType] /\ client'[t].pc = "gone"
    <3>1. client' \in [Tickets -> ClientType] BY <1>1, <2>1, ClientRecord
    <3>2. client'[t].pc = "gone" BY <1>1, <2>1 DEF ClientType
    <3> QED BY <3>1, <3>2
  <2>3. late' \subseteq Messages
        /\ \A m \in late' : m \in late \/ (m.kind = "release" /\ m.ticket = t)
    BY <1>1, <1>11, PostLemma DEF ReleaseUnanswered
  <2> QED BY <1>1, <1>11, <2>1, <2>2, <2>3, QuietClientStep DEF ReleaseUnanswered
<1>12. CASE WatchdogRelease(t)
  <2>1. client' = [client EXCEPT ![t].dog = FALSE] BY <1>12 DEF WatchdogRelease
  <2>2. client' \in [Tickets -> ClientType] /\ client'[t].pc = "gone"
    <3>1. client' \in [Tickets -> ClientType] BY <1>1, <2>1, ClientRecord
    <3>2. client'[t].pc = "gone" BY <1>1, <1>12, <2>1 DEF ClientType, WatchdogRelease
    <3> QED BY <3>1, <3>2
  <2> QED BY <1>12, <2>1, <2>2, ReleaseLockInv DEF WatchdogRelease
<1>13. CASE WatchdogReleaseDelayed(t)
  <2>1. client' = [client EXCEPT ![t].dog = FALSE] BY <1>13 DEF WatchdogReleaseDelayed
  <2>2. client' \in [Tickets -> ClientType] /\ client'[t].pc = "gone"
    <3>1. client' \in [Tickets -> ClientType] BY <1>1, <2>1, ClientRecord
    <3>2. client'[t].pc = "gone" BY <1>1, <1>13, <2>1 DEF ClientType, WatchdogReleaseDelayed
    <3> QED BY <3>1, <3>2
  <2>3. late' \subseteq Messages
        /\ \A m \in late' : m \in late \/ (m.kind = "release" /\ m.ticket = t)
    BY <1>1, <1>13, PostLemma DEF WatchdogReleaseDelayed
  <2> QED BY <1>1, <1>13, <2>1, <2>2, <2>3, QuietClientStep DEF WatchdogReleaseDelayed
<1>14. CASE Crash(t)
  <2>1. PICK d \in {client[t].dog, FALSE} :
          client' = [client EXCEPT ![t].pc = "gone", ![t].dog = d]
    BY <1>14 DEF Crash
  <2>2. d \in BOOLEAN BY <1>1 DEF ClientType
  <2>3. client' = [client EXCEPT ![t] = [client[t] EXCEPT !.pc = "gone", !.dog = d]]
    BY <1>1, <2>1 DEF ClientType
  <2>4. client' \in [Tickets -> ClientType] /\ client'[t].pc = "gone"
    <3>1. client' \in [Tickets -> ClientType] BY <1>1, <2>2, <2>3, ClientRecord
    <3>2. client'[t].pc = "gone" BY <1>1, <2>3 DEF ClientType
    <3> QED BY <3>1, <3>2
  <2> QED BY <1>1, <1>14, <2>3, <2>4, QuietClientStep DEF Crash
<1>15. CASE NewClient(t)
  <2>1. client' = [client EXCEPT ![t] = NoClient] BY <1>15 DEF NewClient
  <2>2. NoClient \in ClientType /\ NoClient.pc # "holding" BY DEF NoClient, ClientType
  <2>3. client' \in [Tickets -> ClientType] /\ client'[t].pc # "holding"
    BY <1>1, <2>1, <2>2
  <2> QED BY <1>1, <1>15, <2>1, <2>3, QuietClientStep DEF NewClient
<1> QED BY <1>2, <1>3, <1>4, <1>5, <1>6, <1>7, <1>8, <1>9, <1>10, <1>11, <1>12, <1>13,
           <1>14, <1>15 DEF ClientStep

LEMMA DeliverLockInv ==
  ASSUME LockInv, NEW m \in late, Deliver(m)
  PROVE  LockInv'
<1>1. m.ticket \in Tickets /\ late' \subseteq late /\ client' = client /\ m \in Messages
  BY DEF LockInv, Messages, Deliver
<1> DEFINE t == m.ticket
<1>2. ServerInv' /\ (\A u \in Tickets \ {t} : InForce(u) => Kept(u))
      /\ (client[t].pc # "gone" => (InForce(t) => Kept(t)))
  <2>1. CASE m.kind = "acquire" /\ AcquireTx(t) BY <1>1, <2>1, AcquireLemma DEF LockInv
  <2>2. CASE m.kind = "heartbeat" /\ HeartbeatTx(t, m.tok)
    BY <1>1, <2>2, HeartbeatLemma DEF LockInv
  <2>3. CASE m.kind = "release" /\ ReleaseTx(t, m.tok)
    <3>1. client[t].pc = "gone" BY <2>3 DEF LockInv, ReleaseOnlyAfterWriting
    <3> QED BY <1>1, <2>3, <3>1, ReleaseLemma DEF LockInv
  <2> QED BY <2>1, <2>2, <2>3 DEF Deliver
<1>3. client'[t].pc = "holding" /\ client'[t].left > 0 =>
        Owns(row', t, client'[t].tok) /\ client'[t].left <= row'[t].left
  BY <1>1, <1>2, BeliefKept
<1>4. \A n \in late' : n.kind = "release" /\ n.ticket = t => client'[t].pc = "gone"
  BY <1>1 DEF LockInv, ReleaseOnlyAfterWriting
<1> HIDE DEF t
<1>5. t \in Tickets BY <1>1 DEF t
<1> QED BY <1>1, <1>2, <1>3, <1>4, <1>5, ClientFrame DEF LockInv

\* LockInv is inductive.
LEMMA NextLockInv == LockInv /\ [Next]_vars => LockInv'
<1> SUFFICES ASSUME LockInv, [Next]_vars PROVE LockInv' OBVIOUS
<1>1. CASE \E t \in Tickets : ClientStep(t) BY <1>1, ClientStepLockInv
<1>2. CASE \E m \in late : Deliver(m) BY <1>2, DeliverLockInv
<1>3. CASE \E m \in late : Lose(m)
  <2>1. UNCHANGED serverVars /\ client' = client /\ late' \subseteq late
    BY <1>3 DEF Lose
  <2>2. ServerInv' /\ row' = row BY <2>1, ServerUnchanged
  <2> QED BY <2>1, <2>2 DEF LockInv, ReleaseOnlyAfterWriting, BeliefBacked
<1>4. CASE Stats
  <2>1. ServerInv' /\ \A u \in Tickets : InForce(u) => Kept(u)
    BY <1>4, StatsLemma DEF Stats, LockInv
  <2>2. client' = client /\ late' = late BY <1>4 DEF Stats
  <2>3. BeliefBacked' BY <2>1, <2>2, BeliefKept DEF BeliefBacked
  <2> QED BY <2>1, <2>2, <2>3 DEF LockInv, ReleaseOnlyAfterWriting
<1>5. CASE Tick BY <1>5, TickLockInv
<1>6. CASE UNCHANGED vars
  <2>1. UNCHANGED serverVars /\ client' = client /\ late' = late BY <1>6 DEF vars
  <2>2. ServerInv' /\ row' = row BY <2>1, ServerUnchanged
  <2> QED BY <2>1, <2>2 DEF LockInv, ReleaseOnlyAfterWriting, BeliefBacked
<1> QED BY <1>1, <1>2, <1>3, <1>4, <1>5, <1>6 DEF Next

\* The inductive invariant: what the tables, the clients and the network know of
\* leases agrees in every reachable state (acquire, heartbeat, release, prune).
THEOREM SpecLockInv == Spec => []LockInv
<1> QED BY InitLockInv, NextLockInv, PTL DEF Spec

LEMMA LockInvConsequences == LockInv => TypeOK /\ AtMostOneLease /\ BelievedLeaseIsHeld
BY DEF LockInv, ServerInv, ServerTypeOK, LeaseWithinLimits, TypeOK, RowType, ClientType,
   BeliefBacked, BelievedLeaseIsHeld

\* Every variable keeps its type and no lease runs past its deadline, in every
\* execution of the coordinator and its clients.
THEOREM SpecTypeOK == Spec => []TypeOK
BY SpecLockInv, LockInvConsequences, PTL

\* acquire() never creates a second leased row, so the unique index of the
\* ticket table never rejects a grant.
THEOREM SpecAtMostOneLease == Spec => []AtMostOneLease
BY SpecLockInv, LockInvConsequences, PTL

\* A writer whose last answer is still good owns the lease at the server,
\* whatever requests were lost, delayed or repeated and whoever crashed.
THEOREM SpecBelievedLeaseIsHeld == Spec => []BelievedLeaseIsHeld
BY SpecLockInv, LockInvConsequences, PTL

----------------------------------------------------------------------------
(* Refinement: seen from the writers, the coordinator is a lock.           *)

\* LockInv leaves room for one believer.
LEMMA OneBeliever == LockInv => \A t, u \in Believers : t = u
BY DEF LockInv, ServerInv, BeliefBacked, Believers, Owns, AtMostOneLease, Leased

\* A client starts to believe only in an answer of the server that made it
\* the owner, and then nobody else can believe before or after the step.
LEMMA LockStep == LockInv /\ LockInv' /\ [Next]_vars => [Lock!Next]_Believers
<1> SUFFICES ASSUME LockInv, LockInv', [Next]_vars PROVE [Lock!Next]_Believers OBVIOUS
<1>1. \A t, u \in Believers : t = u BY OneBeliever
<1>2. \A t, u \in Believers' : t = u
  BY DEF LockInv, ServerInv, BeliefBacked, Believers, Owns, AtMostOneLease, Leased
<1>3. SUFFICES ASSUME Believers' # {}, Believers # {}
               PROVE  Believers' = Believers
  BY <1>2 DEF Lock!Next, Lock!Leave, Lock!Enter, Believers
<1>4. PICK u \in Believers : TRUE BY <1>3
<1>5. PICK w \in Believers' : TRUE BY <1>3
<1>6. SUFFICES ASSUME u # w PROVE FALSE BY <1>1, <1>2, <1>4, <1>5
<1>7. u \in Tickets /\ w \in Tickets /\ w \notin Believers /\ u \notin Believers'
  BY <1>1, <1>2, <1>4, <1>5, <1>6 DEF Believers
<1>8. row'[w].st = "leased" /\ row[u].st = "leased" /\ InForce(u)
  <2>1. client[u].left \in Nat /\ row[u].left \in Nat /\ client[u].left > 0
    BY <1>4 DEF LockInv, ServerInv, ServerTypeOK, RowType, ClientType, Believers
  <2> QED BY <1>4, <1>5, <2>1 DEF LockInv, BeliefBacked, Believers, Owns, InForce
<1>9. row'[u].st # "leased" BY <1>6, <1>7, <1>8 DEF LockInv, ServerInv, AtMostOneLease, Leased
<1>10. client[w] # client'[w]
  BY <1>5, <1>7 DEF Believers
<1>11. ~UNCHANGED vars BY <1>10 DEF vars
<1>12. ~Tick
  <2> SUFFICES ASSUME Tick PROVE FALSE OBVIOUS
  <2>1. row'[u].st = row[u].st BY <1>7 DEF Tick, LockInv, ServerInv, ServerTypeOK, RowType
  <2> QED BY <1>8, <1>9, <2>1
<1>13. ~Stats /\ ~\E m \in late : Deliver(m) \/ Lose(m)
  BY <1>10 DEF Stats, Deliver, Lose
<1>14. PICK t \in Tickets : ClientStep(t) BY <1>11, <1>12, <1>13 DEF Next
<1>15. PollAnswered(t) \/ AssertActive(t)
  <2> SUFFICES ASSUME ~PollAnswered(t), ~AssertActive(t) PROVE FALSE OBVIOUS
  <2>1. client'[w].pc = "holding" /\ client'[w].left > 0 BY <1>5 DEF Believers
  <2>2. client[w] \in ClientType /\ client[t] \in ClientType
        /\ client \in [Tickets -> ClientType]
    BY <1>7 DEF LockInv
  <2>3. ~(client[w].pc = "holding" /\ client[w].left > 0) BY <1>7 DEF Believers
  <2>4. ~StartAcquire(t) BY <1>7, <2>1, <2>2, <2>3 DEF StartAcquire, Become, ClientType
  <2>5. ~PollTimedOut(t) BY <1>7, <2>1, <2>2, <2>3 DEF PollTimedOut, Become, ClientType
  <2>6. ~AssertActiveUnanswered(t)
    BY <1>7, <2>1, <2>2, <2>3 DEF AssertActiveUnanswered, Become, ClientType
  <2>7. ~WatchdogHeartbeat(t) /\ ~WatchdogHeartbeatDelayed(t)
    BY <1>10 DEF WatchdogHeartbeat, WatchdogHeartbeatDelayed
  <2>8. ~ReleaseUnanswered(t) BY <1>7, <2>1, <2>2, <2>3 DEF ReleaseUnanswered, Become, ClientType
  <2>9. ~NewClient(t) BY <1>7, <2>1, <2>2, <2>3 DEF NewClient, NoClient, ClientType
  <2>10. ~PollAmbiguous(t) BY <1>7, <2>1, <2>2, <2>3 DEF PollAmbiguous, ClientType
  <2>11. ~Release(t) BY <1>7, <2>1, <2>2, <2>3 DEF Release, ClientType
  <2>12. ~WatchdogRelease(t) /\ ~WatchdogReleaseDelayed(t)
    BY <1>7, <2>1, <2>2, <2>3 DEF WatchdogRelease, WatchdogReleaseDelayed, ClientType
  <2>13. ~Crash(t) BY <1>7, <2>1, <2>2, <2>3 DEF Crash, ClientType
  <2> QED BY <1>14, <2>4, <2>5, <2>6, <2>7, <2>8, <2>9, <2>10, <2>11, <2>12, <2>13
          DEF ClientStep
<1>16. Kept(u)
  <2>1. CASE PollAnswered(t) BY <1>7, <1>8, <2>1, AcquireLemma DEF PollAnswered, LockInv
  <2>2. CASE AssertActive(t) BY <1>7, <1>8, <2>2, HeartbeatLemma DEF AssertActive, LockInv
  <2> QED BY <1>15, <2>1, <2>2
<1> QED BY <1>9, <1>16 DEF Kept

\* The coordinator implements the lock its writers rely on.
THEOREM SpecImplementsWriterLock == Spec => ImplementsWriterLock
<1>1. Init => Lock!Init
  BY DEF Init, NoClient, Lock!Init, Believers
<1>2. LockInv /\ LockInv' /\ [Next]_vars => [Lock!Next]_Believers BY LockStep
<1> QED BY <1>1, <1>2, SpecLockInv, PTL DEF Spec, ImplementsWriterLock, Lock!Spec

----------------------------------------------------------------------------
(* The service bound.  How long a class has been passed over is bounded by *)
(* what the two turn counters can still allow.                             *)

ServiceInv ==
  LET o == waited["ordinary"] b == waited["publication_batch"] i == waited["cluster_intake"]
  IN /\ intakeTurns >= 1 => batchTurns <= 1
     /\ o <= batchTurns + intakeTurns /\ o <= 2
     /\ intakeTurns >= 2 => b = 0
     /\ batchTurns >= 1 => b <= 1 /\ (intakeTurns = 0 => b = 0)
     /\ batchTurns = 0 /\ intakeTurns = 0 => b <= 2
     /\ b <= 3
     /\ intakeTurns >= 1 => i <= batchTurns
     /\ batchTurns >= 1 => i <= 2
     /\ i <= 3

\* A transaction that grants nothing leaves or clears the counts.
LEMMA NoGrantService ==
  ASSUME ServerTypeOK, ServiceInv, NEW rs, NEW before, Commit(rs, before, None)
  PROVE  ServiceInv'
<1>1. batchTurns' = batchTurns /\ intakeTurns' = intakeTurns
  BY DEF Commit, BatchTurnsAfter, IntakeTurnsAfter
<1>2. \A c \in Classes : waited'[c] = 0 \/ waited'[c] = waited[c]
  BY DEF Commit, WaitedAfter
<1>3. \A c \in Classes : waited[c] \in Nat BY DEF ServerTypeOK
<1> QED BY <1>1, <1>2, <1>3 DEF ServiceInv, ServerTypeOK, Classes

\* A grant goes to the class queuedOrderSync puts first.
LEMMA GrantService ==
  ASSUME ServerTypeOK, ServiceInv, NEW g \in Tickets, NEW ins \in [Tickets -> RowType],
         NEW before, NEW r \in RowType, r.st # "queued",
         Class[g] = HeadClass(ins), Commit(With(ins, g, r), before, g)
  PROVE  ServiceInv'
<1> DEFINE rs == With(ins, g, r)
           Q(c) == Queued(ins, c) # {}
           R(c) == Queued(rs, c) # {}
<1>1. \A c \in Classes : R(c) => Q(c) BY DEF Queued, With
<1>2. \A c \in Classes : c # Class[g] => (Q(c) <=> R(c)) BY DEF Queued, With
<1>3. g # None /\ Class[g] \in Classes BY NoneAssumption, ClassAssumption
<1>4. \A c \in Classes : waited[c] \in Nat BY DEF ServerTypeOK
<1>5. \A c \in Classes : waited'[c] = IF ~R(c) \/ Class[g] = c THEN 0
                                      ELSE LeastOf(waited[c] + 1, WaitedCap)
  BY <1>3 DEF Commit, WaitedAfter
<1>6. batchTurns' = IF Class[g] = "publication_batch" THEN LeastOf(batchTurns + 1, 2)
                    ELSE IF Class[g] = "ordinary" \/ ~R("ordinary") THEN 0 ELSE batchTurns
  BY <1>3 DEF Commit, BatchTurnsAfter, Bump, TurnCap, MAX_CONSECUTIVE_PRIORITY_TURNS
<1>7. intakeTurns' = IF Class[g] = "cluster_intake" THEN LeastOf(intakeTurns + 1, 2)
                     ELSE IF Class[g] = "ordinary" \/ ~R("ordinary") THEN 0 ELSE intakeTurns
  BY <1>3 DEF Commit, IntakeTurnsAfter, Bump, TurnCap, MAX_CONSECUTIVE_PRIORITY_TURNS
<1>8. Class[g] = "cluster_intake" =>
        /\ Q("ordinary") => batchTurns + intakeTurns < 2
        /\ Q("publication_batch") \/ Q("ordinary") => intakeTurns < 1
  BY DEF HeadClass, PriorityBudgetAvailable, IntakeTurnAvailable,
         MAX_CONSECUTIVE_PRIORITY_TURNS, MAX_CONSECUTIVE_INTAKE_TURNS
<1>9. Class[g] = "publication_batch" =>
        /\ Q("ordinary") => batchTurns + intakeTurns < 2
        /\ Q("cluster_intake") => intakeTurns >= 1
  BY DEF HeadClass, PriorityBudgetAvailable, IntakeTurnAvailable, ServerTypeOK,
         MAX_CONSECUTIVE_PRIORITY_TURNS, MAX_CONSECUTIVE_INTAKE_TURNS
<1>10. Class[g] = "ordinary" =>
        /\ Q("publication_batch") => batchTurns + intakeTurns >= 2
        /\ Q("cluster_intake") => batchTurns >= 1 \/ intakeTurns >= 1
  BY DEF HeadClass, PriorityBudgetAvailable, IntakeTurnAvailable, BatchTurnAvailable,
         ServerTypeOK, MAX_CONSECUTIVE_PRIORITY_TURNS, MAX_CONSECUTIVE_INTAKE_TURNS,
         MAX_CONSECUTIVE_BATCH_TURNS
<1> HIDE DEF Q, R, rs
<1>11. batchTurns \in Nat /\ intakeTurns \in Nat BY DEF ServerTypeOK
<1>12. CASE Class[g] = "cluster_intake"
  BY <1>1, <1>2, <1>4, <1>5, <1>6, <1>7, <1>8, <1>11, <1>12
     DEF ServiceInv, Classes, LeastOf, WaitedCap
<1>13. CASE Class[g] = "publication_batch"
  BY <1>1, <1>2, <1>4, <1>5, <1>6, <1>7, <1>9, <1>11, <1>13
     DEF ServiceInv, Classes, LeastOf, WaitedCap
<1>14. CASE Class[g] = "ordinary"
  BY <1>1, <1>2, <1>4, <1>5, <1>6, <1>7, <1>10, <1>11, <1>14
     DEF ServiceInv, Classes, LeastOf, WaitedCap
<1> QED BY <1>3, <1>12, <1>13, <1>14 DEF Classes

LEMMA AcquireService ==
  ASSUME ServerInv, ServiceInv, NEW t \in Tickets, AcquireTx(t)
  PROVE  ServiceInv'
<1> DEFINE rs == ReclaimAndPrune(row)
           ins == Admitted(t, rs)
           before == AdmittedOrder(t, rs)
<1>1. rs \in [Tickets -> RowType] BY ReclaimLemma
<1>2. QueuedRow \in RowType BY TicksAssumption DEF QueuedRow, RowType, RowStates
<1>3. ins \in [Tickets -> RowType] BY <1>1, <1>2 DEF Admitted, With
<1>4. Settle(t, ins, before) BY DEF AcquireTx
<1>5. ServerTypeOK BY DEF ServerInv
<1> HIDE DEF rs, ins, before
<1>6. CASE Commit(ins, before, None) BY <1>5, <1>6, NoGrantService
<1>7. CASE /\ Grantable(t, ins, before) /\ FreshTokens # {}
           /\ Commit(With(ins, t, LeasedRow(FreshToken)), before, t)
  <2>1. FreshToken \in Tokens BY <1>7 DEF FreshToken, FreshTokens
  <2>2. LeasedRow(FreshToken) \in RowType /\ LeasedRow(FreshToken).st # "queued"
    BY <2>1, LeastOfLemma, TicksAssumption DEF LeasedRow, RowType, RowStates
  <2>3. Class[t] = HeadClass(ins) BY <1>7 DEF Grantable, IsQueuedHead, Queued
  <2> QED BY <1>3, <1>5, <1>7, <2>2, <2>3, GrantService
<1>8. CASE Commit(With(ins, t, QueuedRow), before, None) BY <1>5, <1>8, NoGrantService
<1> QED BY <1>4, <1>6, <1>7, <1>8 DEF Settle

LEMMA NextServiceInv == LockInv /\ ServiceInv /\ [Next]_vars => ServiceInv'
<1> SUFFICES ASSUME LockInv, ServiceInv, [Next]_vars PROVE ServiceInv' OBVIOUS
<1>1. ServerInv /\ ServerTypeOK /\ late \subseteq Messages BY DEF LockInv, ServerInv
<1>2. ASSUME NEW t, NEW k, HeartbeatTx(t, k) \/ ReleaseTx(t, k) PROVE ServiceInv'
  BY <1>1, <1>2, NoGrantService DEF HeartbeatTx, ReleaseTx
<1>3. ASSUME UNCHANGED <<batchTurns, intakeTurns, waited>> PROVE ServiceInv'
  BY <1>3 DEF ServiceInv
<1>4. CASE \E t \in Tickets : ClientStep(t)
  <2>1. PICK t \in Tickets : ClientStep(t) BY <1>4
  <2>2. CASE PollAnswered(t) BY <1>1, <2>2, AcquireService DEF PollAnswered
  <2>3. CASE AssertActive(t) \/ WatchdogHeartbeat(t) \/ Release(t) \/ WatchdogRelease(t)
    BY <1>2, <2>3 DEF AssertActive, WatchdogHeartbeat, Release, WatchdogRelease
  <2>4. CASE \/ StartAcquire(t) \/ PollAmbiguous(t) \/ PollTimedOut(t)
             \/ AssertActiveUnanswered(t) \/ WatchdogHeartbeatDelayed(t)
             \/ ReleaseUnanswered(t) \/ WatchdogReleaseDelayed(t) \/ Crash(t) \/ NewClient(t)
    BY <1>3, <2>4 DEF serverVars, StartAcquire, PollAmbiguous, PollTimedOut,
       AssertActiveUnanswered, WatchdogHeartbeatDelayed, ReleaseUnanswered,
       WatchdogReleaseDelayed, Crash, NewClient
  <2> QED BY <2>1, <2>2, <2>3, <2>4 DEF ClientStep
<1>5. CASE \E m \in late : Deliver(m)
  <2>1. PICK m \in late : Deliver(m) BY <1>5
  <2>2. m.ticket \in Tickets BY <1>1 DEF Messages
  <2> QED BY <1>1, <1>2, <2>1, <2>2, AcquireService DEF Deliver
<1>6. CASE \E m \in late : Lose(m) BY <1>3, <1>6 DEF Lose, serverVars
<1>7. CASE Stats BY <1>1, <1>7, NoGrantService DEF Stats
<1>8. CASE Tick BY <1>3, <1>8 DEF Tick
<1>9. CASE UNCHANGED vars BY <1>3, <1>9 DEF vars, serverVars
<1> QED BY <1>4, <1>5, <1>6, <1>7, <1>8, <1>9 DEF Next

\* However many writers of each class come and go, an ordinary writer in the
\* queue is passed over at most twice in a row and a priority class at most
\* three times.
THEOREM SpecServiceBound == Spec => []ServiceBound
<1>1. Init => ServiceInv BY DEF Init, ServiceInv, Classes
<1>2. LockInv /\ ServiceInv => ServiceBound
  BY DEF ServiceInv, ServiceBound, BypassLimit, Classes, LockInv, ServerInv, ServerTypeOK
<1> QED BY <1>1, <1>2, NextServiceInv, SpecLockInv, PTL DEF Spec

----------------------------------------------------------------------------
(* Only its owner ends a live lease.  A release in the network carries the *)
(* token its sender was told, also when the ticket is used again: a client *)
(* that posted one is gone, and its ticket waits until it has arrived.     *)

ReleaseCarriesToken ==
  \A m \in late : m.kind = "release" => m.tok = client[m.ticket].tok

\* A client that is gone keeps its token until nothing remembers it.
LEMMA GoneKeepsToken ==
  ASSUME LockInv, NEW t \in Tickets, ClientStep(t), NEW u \in Tickets, client[u].pc = "gone",
         NEW m \in late, m.ticket = u
  PROVE  client'[u].tok = client[u].tok
<1>1. client \in [Tickets -> ClientType] /\ client[t] \in ClientType BY DEF LockInv
<1>2. ASSUME NEW c, client' = [client EXCEPT ![t] = c], u = t => c.tok = client[t].tok
      PROVE  client'[u].tok = client[u].tok
  <2>1. CASE u = t BY <1>1, <1>2, <2>1
  <2>2. CASE u # t BY <1>1, <1>2, <2>2
  <2> QED BY <2>1, <2>2
<1>3. u = t => client[t].pc = "gone" OBVIOUS
<1>4. CASE StartAcquire(t)
  <2>1. u # t BY <1>3, <1>4 DEF StartAcquire
  <2> QED BY <1>1, <1>4, <2>1 DEF StartAcquire, Become
<1>5. CASE PollAnswered(t) BY <1>2, <1>3, <1>5 DEF PollAnswered
<1>6. CASE PollAmbiguous(t) \/ PollTimedOut(t)
  <2>1. u # t BY <1>3, <1>6 DEF PollAmbiguous, PollTimedOut
  <2> QED BY <1>1, <1>6, <2>1 DEF PollAmbiguous, PollTimedOut, Become
<1>7. CASE AssertActive(t) \/ AssertActiveUnanswered(t)
  <2>1. u # t BY <1>3, <1>7 DEF AssertActive, AssertActiveUnanswered
  <2> QED BY <1>1, <1>7, <2>1 DEF AssertActive, AssertActiveUnanswered, Become
<1>8. CASE WatchdogHeartbeat(t) \/ WatchdogHeartbeatDelayed(t)
  BY <1>8 DEF WatchdogHeartbeat, WatchdogHeartbeatDelayed
<1>9. CASE Release(t) \/ ReleaseUnanswered(t)
  <2>1. u # t BY <1>3, <1>9 DEF Release, ReleaseUnanswered
  <2> QED BY <1>1, <1>9, <2>1 DEF Release, ReleaseUnanswered, Become
<1>10. CASE WatchdogRelease(t) \/ WatchdogReleaseDelayed(t)
  <2> DEFINE c == [client[t] EXCEPT !.dog = FALSE]
  <2>1. client' = [client EXCEPT ![t] = c]
    BY <1>10 DEF WatchdogRelease, WatchdogReleaseDelayed
  <2>2. c.tok = client[t].tok BY <1>1 DEF ClientType
  <2> HIDE DEF c
  <2> QED BY <1>2, <2>1, <2>2
<1>11. CASE Crash(t)
  <2>1. u # t BY <1>3, <1>11 DEF Crash
  <2> QED BY <1>1, <1>11, <2>1 DEF Crash
<1>12. CASE NewClient(t)
  <2>1. u # t BY <1>12 DEF NewClient
  <2> QED BY <1>2, <1>12, <2>1 DEF NewClient
<1> QED BY <1>4, <1>5, <1>6, <1>7, <1>8, <1>9, <1>10, <1>11, <1>12 DEF ClientStep

\* A client posts a release with its own token.
LEMMA PostedRelease ==
  ASSUME LockInv, NEW t \in Tickets, ClientStep(t), NEW m \in late', m.kind = "release",
         m \notin late
  PROVE  m.tok = client'[m.ticket].tok
<1>1. client \in [Tickets -> ClientType] /\ client[t] \in ClientType BY DEF LockInv
<1>2. CASE ReleaseUnanswered(t)
  <2>1. m = Message("release", t, client[t].tok) BY <1>2 DEF ReleaseUnanswered, Post
  <2>2. client'[t].tok = client[t].tok BY <1>1, <1>2 DEF ReleaseUnanswered, Become, ClientType
  <2> QED BY <2>1, <2>2 DEF Message
<1>3. CASE WatchdogReleaseDelayed(t)
  <2>1. m = Message("release", t, client[t].tok) BY <1>3 DEF WatchdogReleaseDelayed, Post
  <2>2. client'[t].tok = client[t].tok BY <1>1, <1>3 DEF WatchdogReleaseDelayed, ClientType
  <2> QED BY <2>1, <2>2 DEF Message
<1>4. CASE \/ StartAcquire(t) \/ PollAnswered(t) \/ PollTimedOut(t) \/ AssertActive(t)
           \/ WatchdogHeartbeat(t) \/ Release(t) \/ WatchdogRelease(t) \/ Crash(t)
           \/ NewClient(t)
  BY <1>4 DEF StartAcquire, PollAnswered, PollTimedOut, AssertActive, WatchdogHeartbeat,
              Release, WatchdogRelease, Crash, NewClient
<1>5. CASE PollAmbiguous(t) \/ AssertActiveUnanswered(t) \/ WatchdogHeartbeatDelayed(t)
  BY <1>5 DEF PollAmbiguous, AssertActiveUnanswered, WatchdogHeartbeatDelayed, Post, Message
<1> QED BY <1>2, <1>3, <1>4, <1>5 DEF ClientStep

LEMMA NextReleaseToken == LockInv /\ ReleaseCarriesToken /\ [Next]_vars => ReleaseCarriesToken'
<1> SUFFICES ASSUME LockInv, ReleaseCarriesToken, [Next]_vars,
                    NEW m \in late', m.kind = "release"
             PROVE  m.tok = client'[m.ticket].tok
  BY DEF ReleaseCarriesToken
<1>1. ASSUME m \in late
      PROVE  /\ m.ticket \in Tickets /\ client[m.ticket].pc = "gone"
             /\ m.tok = client[m.ticket].tok
  BY <1>1 DEF LockInv, ReleaseOnlyAfterWriting, ReleaseCarriesToken, Messages
<1>2. CASE \E t \in Tickets : ClientStep(t)
  <2>1. PICK t \in Tickets : ClientStep(t) BY <1>2
  <2>2. CASE m \in late BY <1>1, <2>1, <2>2, GoneKeepsToken
  <2>3. CASE m \notin late BY <2>1, <2>3, PostedRelease
  <2> QED BY <2>2, <2>3
<1>3. CASE client' = client /\ late' \subseteq late BY <1>1, <1>3
<1>4. CASE Tick
  <2>1. m \in late BY <1>4 DEF Tick
  <2>2. client[m.ticket] \in ClientType BY <1>1, <2>1 DEF LockInv
  <2>3. client'[m.ticket].tok = client[m.ticket].tok
    BY <1>1, <1>4, <2>1, <2>2 DEF Tick, ClientType
  <2> QED BY <1>1, <2>1, <2>3
<1> QED BY <1>2, <1>3, <1>4 DEF Next, Deliver, Lose, Stats, vars

\* A release completes the lease of the token it carries and no other.
LEMMA OwnerRelease ==
  ASSUME ServerInv, NEW t \in Tickets, NEW k, ReleaseTx(t, k), InForce(t),
         row'[t].st # "leased"
  PROVE  row'[t].st = "completed" /\ k = row[t].tok
<1> DEFINE rs == ReclaimAndPrune(row)
<1>1. rs[t] = row[t] BY ReclaimLemma
<1>2. row' = IF Owns(rs, t, k) THEN With(rs, t, Terminal("completed", rs[t])) ELSE rs
  BY DEF ReleaseTx, Commit
<1> HIDE DEF rs
<1>3. CASE Owns(rs, t, k) BY <1>1, <1>2, <1>3 DEF With, Terminal, Owns
<1>4. CASE ~Owns(rs, t, k) BY <1>1, <1>2, <1>4 DEF InForce
<1> QED BY <1>3, <1>4

LEMMA LeaseEndStep ==
  ASSUME LockInv, ReleaseCarriesToken, [Next]_vars, NEW t \in Tickets, InForce(t),
         row'[t].st # "leased"
  PROVE  row'[t].st = "completed" /\ client[t].tok = row[t].tok
<1>1. ServerInv /\ late \subseteq Messages BY DEF LockInv
<1>2. ~Kept(t) /\ row[t].st = "leased" /\ row[t] \in RowType
  BY <1>1 DEF Kept, InForce, ServerInv, ServerTypeOK
<1>3. row' # row BY <1>2
<1>4. ASSUME NEW u \in Tickets, NEW k, ReleaseTx(u, k), k = client[u].tok
      PROVE  row'[t].st = "completed" /\ client[t].tok = row[t].tok
  <2>1. u = t BY <1>1, <1>2, <1>4, ReleaseLemma
  <2> QED BY <1>1, <1>4, <2>1, OwnerRelease
<1>5. CASE \E u \in Tickets : ClientStep(u)
  <2>1. PICK u \in Tickets : ClientStep(u) BY <1>5
  <2>2. ~PollAnswered(u) BY <1>1, <1>2, AcquireLemma DEF PollAnswered
  <2>3. ~AssertActive(u) /\ ~WatchdogHeartbeat(u)
    BY <1>1, <1>2, HeartbeatLemma DEF AssertActive, WatchdogHeartbeat
  <2>4. CASE Release(u) \/ WatchdogRelease(u) BY <1>4, <2>4 DEF Release, WatchdogRelease
  <2>5. CASE \/ StartAcquire(u) \/ PollAmbiguous(u) \/ PollTimedOut(u)
             \/ AssertActiveUnanswered(u) \/ WatchdogHeartbeatDelayed(u)
             \/ ReleaseUnanswered(u) \/ WatchdogReleaseDelayed(u) \/ Crash(u) \/ NewClient(u)
    BY <1>3, <2>5 DEF serverVars, StartAcquire, PollAmbiguous, PollTimedOut,
       AssertActiveUnanswered, WatchdogHeartbeatDelayed, ReleaseUnanswered,
       WatchdogReleaseDelayed, Crash, NewClient
  <2> QED BY <2>1, <2>2, <2>3, <2>4, <2>5 DEF ClientStep
<1>6. CASE \E m \in late : Deliver(m)
  <2>1. PICK m \in late : Deliver(m) BY <1>6
  <2>2. m.ticket \in Tickets BY <1>1 DEF Messages
  <2>3. ~AcquireTx(m.ticket) BY <1>1, <1>2, <2>2, AcquireLemma
  <2>4. ~HeartbeatTx(m.ticket, m.tok) BY <1>1, <1>2, <2>2, HeartbeatLemma
  <2>5. m.kind = "release" /\ ReleaseTx(m.ticket, m.tok) BY <2>1, <2>3, <2>4 DEF Deliver
  <2>6. m.tok = client[m.ticket].tok BY <2>5 DEF ReleaseCarriesToken
  <2> QED BY <1>4, <2>2, <2>5, <2>6
<1>7. CASE Stats BY <1>1, <1>2, <1>7, StatsLemma DEF Stats
<1>8. CASE Tick
  <2>1. row'[t].st = row[t].st BY <1>2, <1>8 DEF Tick, RowType
  <2> QED BY <1>2, <2>1
<1>9. CASE \E m \in late : Lose(m) BY <1>3, <1>9 DEF Lose, serverVars
<1>10. CASE UNCHANGED vars BY <1>3, <1>10 DEF vars, serverVars
<1> QED BY <1>5, <1>6, <1>7, <1>8, <1>9, <1>10 DEF Next

\* A lease that has not run out ends only by a release with its token, which its
\* client was told: no ambiguous, late or repeated request of an earlier life of
\* the ticket ends it.
THEOREM SpecLiveLeaseEndsOnlyByItsOwner == Spec => LiveLeaseEndsOnlyByItsOwner
<1>1. Init => ReleaseCarriesToken BY DEF Init, ReleaseCarriesToken
<1>2. LockInv /\ ReleaseCarriesToken /\ [Next]_vars =>
        [\A t \in Tickets :
           /\ row[t].st = "leased" /\ row[t].left > 0 /\ row[t].dl > 0
           /\ row'[t].st # "leased"
           => row'[t].st = "completed" /\ client[t].tok = row[t].tok]_vars
  BY LeaseEndStep DEF InForce
<1> QED BY <1>1, <1>2, NextReleaseToken, SpecLockInv, PTL DEF Spec, LiveLeaseEndsOnlyByItsOwner
============================================================================

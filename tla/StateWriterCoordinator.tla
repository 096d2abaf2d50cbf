----------------------- MODULE StateWriterCoordinator -----------------------
(***************************************************************************)
(* The durable ticket coordinator that lets one workflow job at a time     *)
(* write the state branch (dashboard/state-writer-coordinator.ts), the     *)
(* HTTP routes in front of it, and the client that polls it               *)
(* (src/repair/state-writer-coordinator.ts).                               *)
(*                                                                         *)
(* Every server operation is one storage transaction and starts with      *)
(* reclaimAndPruneSync.  Between client and server a request can be       *)
(* answered, lost, or applied long after its sender stopped waiting (the   *)
(* sender aborts after a timeout): such requests sit in `late`.            *)
(*                                                                         *)
(* Absolute timestamps are kept as the time that remains until them, which *)
(* Tick decreases; "x <= now" in the code is "x's remaining time is 0".    *)
(* A ticket id and its owner are UUIDs of one client, so a member of       *)
(* Tickets stands for both; once nothing remembers it, it is reused for a  *)
(* new client (NewClient).  The seq column only orders the queued rows and *)
(* is kept as the set of queued rows inserted before a row.                *)
(***************************************************************************)
EXTENDS Integers, FiniteSets

CONSTANTS
  Tickets,         \* ticket identities (one per client at a time)
  Class,           \* the writer_class of a ticket
  Tokens,          \* lease tokens (UUIDs)
  None,            \* no ticket, no token
  LeaseTicks,      \* leaseMs
  StaleTicks,      \* queuedStaleMs
  MaxAgeTicks,     \* maximumLeaseAgeMs
  RetentionTicks,  \* STATE_WRITER_TERMINAL_RETENTION_MS
  AmbiguousLimit,  \* COORDINATOR_AMBIGUOUS_REQUEST_LIMIT
  MaxLate          \* bound: requests delayed in the network at one time

Classes == {"ordinary", "publication_batch", "cluster_intake"}

ASSUME ClassAssumption == Class \in [Tickets -> Classes]
ASSUME NoneAssumption == None \notin Tickets /\ None \notin Tokens
ASSUME TicksAssumption ==
  /\ LeaseTicks \in Nat \ {0}
  /\ StaleTicks \in Nat \ {0}
  /\ MaxAgeTicks \in Nat \ {0}
  /\ RetentionTicks \in Nat \ {0}
ASSUME LimitAssumption == AmbiguousLimit \in Nat \ {0} /\ MaxLate \in Nat

MAX_CONSECUTIVE_BATCH_TURNS == 2
MAX_CONSECUTIVE_INTAKE_TURNS == 1
MAX_CONSECUTIVE_PRIORITY_TURNS == 2

VARIABLES
  row,          \* state_writer_tickets: ticket |-> row (st = "absent": no row)
  earlier,      \* ticket |-> queued tickets with a smaller seq
  batchTurns,   \* meta.consecutive_batch_turns
  intakeTurns,  \* meta.consecutive_intake_turns
  client,       \* ticket |-> the process that owns it
  late,         \* requests whose sender no longer waits for the answer
  waited        \* history: class |-> grants to other classes while it waited

serverVars == <<row, earlier, batchTurns, intakeTurns, waited>>
vars == <<serverVars, client, late>>

LeastOf(a, b) == IF a < b THEN a ELSE b

----------------------------------------------------------------------------
(* Rows.  left is the remaining time of the row's current state: until     *)
(* stale (queued), until lease_expires_at (leased), until the receipt is   *)
(* pruned (completed, expired).                                            *)

NoRow == [st |-> "absent", left |-> 0, dl |-> 0, tok |-> None]
QueuedRow == [st |-> "queued", left |-> StaleTicks, dl |-> 0, tok |-> None]
Terminal(st, r) == [st |-> st, left |-> RetentionTicks, dl |-> 0, tok |-> r.tok]

With(rs, t, r) == [u \in Tickets |-> IF u = t THEN r ELSE rs[u]]

Queued(rs, c) == {t \in Tickets : rs[t].st = "queued" /\ Class[t] = c}
AllQueued(rs) == {t \in Tickets : rs[t].st = "queued"}
Leased(rs) == {t \in Tickets : rs[t].st = "leased"}

Mut_QueuedNeverStale(r) == r.st = "leased" /\ (r.left = 0 \/ r.dl = 0)

Lapsed(r) == \/ r.st = "leased" /\ (r.left = 0 \/ r.dl = 0)
             \/ r.st = "queued" /\ r.left = 0

ReclaimAndPrune(rs) ==
  [t \in Tickets |->
     IF Lapsed(rs[t]) THEN Terminal("expired", rs[t])
     ELSE IF rs[t].st \in {"completed", "expired"} /\ rs[t].left = 0 THEN NoRow
     ELSE rs[t]]

PriorityBudgetAvailable(rs) ==
  \/ Queued(rs, "ordinary") = {}
  \/ batchTurns + intakeTurns < MAX_CONSECUTIVE_PRIORITY_TURNS

Mut_IntakeUnlimited(rs) == TRUE

\* An intake passes other writers only once until one of them had its turn.
IntakeTurnAvailable(rs) ==
  \/ Queued(rs, "publication_batch") \cup Queued(rs, "ordinary") = {}
  \/ intakeTurns < MAX_CONSECUTIVE_INTAKE_TURNS

BatchTurnAvailable(rs) ==
  Queued(rs, "ordinary") = {} \/ batchTurns < MAX_CONSECUTIVE_BATCH_TURNS

\* The class queuedOrderSync takes its first element from.
HeadClass(rs) ==
  IF /\ Queued(rs, "cluster_intake") # {}
     /\ PriorityBudgetAvailable(rs) /\ IntakeTurnAvailable(rs)
  THEN "cluster_intake"
  ELSE IF /\ Queued(rs, "publication_batch") # {}
          /\ PriorityBudgetAvailable(rs) /\ BatchTurnAvailable(rs)
  THEN "publication_batch"
  ELSE "ordinary"

\* queuedHeadSync: the lane's row with the smallest seq.
IsQueuedHead(t, rs, before) ==
  /\ t \in Queued(rs, HeadClass(rs))
  /\ before[t] \cap Queued(rs, HeadClass(rs)) = {}

----------------------------------------------------------------------------
(* Committing a transaction.  The turn counters are compared only with the *)
(* limits above, so they are kept saturated at their largest limit.        *)

TurnCap == MAX_CONSECUTIVE_PRIORITY_TURNS
Bump(n) == LeastOf(n + 1, TurnCap)

\* history: a class that has queued rows counts the grants to other classes
\* (up to WaitedCap, which is more than any limit it is compared with).
WaitedCap == 4

WaitedAfter(rs, g) ==
  [c \in Classes |->
     IF Queued(rs, c) = {} THEN 0
     ELSE IF g = None THEN waited[c]
     ELSE IF Class[g] = c THEN 0 ELSE LeastOf(waited[c] + 1, WaitedCap)]

\* g is the ticket this transaction grants the lease to, or None.
BatchTurnsAfter(rs, g) ==
  IF g = None THEN batchTurns
  ELSE IF Class[g] = "publication_batch" THEN Bump(batchTurns)
  ELSE IF Class[g] = "ordinary" \/ Queued(rs, "ordinary") = {} THEN 0
  ELSE batchTurns

IntakeTurnsAfter(rs, g) ==
  IF g = None THEN intakeTurns
  ELSE IF Class[g] = "cluster_intake" THEN Bump(intakeTurns)
  ELSE IF Class[g] = "ordinary" \/ Queued(rs, "ordinary") = {} THEN 0
  ELSE intakeTurns

OrderAfter(rs, before) ==
  [t \in Tickets |-> IF rs[t].st = "queued" THEN before[t] \cap AllQueued(rs) ELSE {}]

Commit(rs, before, g) ==
  /\ row' = rs
  /\ earlier' = OrderAfter(rs, before)
  /\ batchTurns' = BatchTurnsAfter(rs, g)
  /\ intakeTurns' = IntakeTurnsAfter(rs, g)
  /\ waited' = WaitedAfter(rs, g)

\* crypto.randomUUID(): a token nobody remembers.
FreshTokens ==
  Tokens \ ({row[t].tok : t \in Tickets} \cup {client[t].tok : t \in Tickets}
              \cup {m.tok : m \in late})

FreshToken == CHOOSE k \in Tokens : k \in FreshTokens

LeasedRow(k) == [st |-> "leased", left |-> LeastOf(LeaseTicks, MaxAgeTicks),
                 dl |-> MaxAgeTicks, tok |-> k]

Mut_GrantableWhileActive(t, rs, before) == IsQueuedHead(t, rs, before)

Grantable(t, rs, before) == Leased(rs) = {} /\ IsQueuedHead(t, rs, before)

\* The rows and their order once an unknown ticket has been inserted.
Admitted(t, rs) == IF rs[t].st = "absent" THEN With(rs, t, QueuedRow) ELSE rs
AdmittedOrder(t, rs) ==
  IF rs[t].st = "absent" THEN [earlier EXCEPT ![t] = AllQueued(rs)] ELSE earlier

Settle(t, rs, before) ==
  \/ rs[t].st # "queued" /\ Commit(rs, before, None)
  \/ /\ rs[t].st = "queued" /\ Grantable(t, rs, before)
     /\ FreshTokens # {}
     /\ Commit(With(rs, t, LeasedRow(FreshToken)), before, t)
  \/ /\ rs[t].st = "queued" /\ ~Grantable(t, rs, before)
     /\ Commit(With(rs, t, QueuedRow), before, None)

\* acquire(): insert the ticket if it is unknown, lease it when nobody holds
\* the lease and it is the head, else refresh its last_seen_at; a terminal
\* or leased ticket is returned as it is.
AcquireTx(t) == Settle(t, Admitted(t, ReclaimAndPrune(row)),
                       AdmittedOrder(t, ReclaimAndPrune(row)))

Mut_OwnsAnyToken(rs, t, k) == rs[t].st = "leased"

Owns(rs, t, k) == rs[t].st = "leased" /\ rs[t].tok = k

Mut_RenewedPastDeadline(r) == LeaseTicks

RenewedLeft(r) == LeastOf(LeaseTicks, r.dl)

\* heartbeat(): extends the lease of its owner, never past the deadline.
HeartbeatTx(t, k) ==
  LET rs == ReclaimAndPrune(row)
  IN Commit(IF Owns(rs, t, k)
            THEN With(rs, t, [rs[t] EXCEPT !.left = RenewedLeft(rs[t])])
            ELSE rs,
            earlier, None)

\* release(): completes the lease of its owner; a repeat is a no-op.
ReleaseTx(t, k) ==
  LET rs == ReclaimAndPrune(row)
  IN Commit(IF Owns(rs, t, k) THEN With(rs, t, Terminal("completed", rs[t])) ELSE rs,
            earlier, None)

\* stats(): a read that reclaims first.
Stats == Commit(ReclaimAndPrune(row), earlier, None) /\ UNCHANGED <<client, late>>

----------------------------------------------------------------------------
(* Clients.  dog is the detached watchdog process: it heartbeats while the *)
(* writer runs and posts one release when the writer's pipe closes.        *)

NoClient == [pc |-> "idle", tok |-> None, left |-> 0, ambiguous |-> 0, dog |-> FALSE]
Message(kind, t, k) == [kind |-> kind, ticket |-> t, tok |-> k]

Post(m) == /\ m \in late \/ Cardinality(late) < MaxLate
           /\ late' = late \cup {m}

Become(t, pc) == client' = [client EXCEPT ![t].pc = pc]

StartAcquire(t) ==
  /\ client[t].pc = "idle"
  /\ Become(t, "polling")
  /\ UNCHANGED <<serverVars, late>>

Mut_BelieveDeadline(c, r) ==
  CASE r.st = "leased" -> [pc |-> "holding", tok |-> r.tok, left |-> r.dl,
                           ambiguous |-> 0, dog |-> TRUE]
    [] r.st = "queued" -> [c EXCEPT !.ambiguous = 0]
    [] OTHER -> [c EXCEPT !.pc = "gone"]

\* What the poll loop makes of an answered poll: leased, queued or terminal.
AfterPoll(c, r) ==
  CASE r.st = "leased" -> [pc |-> "holding", tok |-> r.tok, left |-> r.left,
                           ambiguous |-> 0, dog |-> TRUE]
    [] r.st = "queued" -> [c EXCEPT !.ambiguous = 0]
    [] OTHER -> [c EXCEPT !.pc = "gone"]

PollAnswered(t) ==
  /\ client[t].pc = "polling"
  /\ AcquireTx(t)
  /\ client' = [client EXCEPT ![t] = AfterPoll(client[t], row'[t])]
  /\ UNCHANGED late

\* A poll without an answer: the server may still apply it, now or later.
PollAmbiguous(t) ==
  /\ client[t].pc = "polling"
  /\ Post(Message("acquire", t, None))
  /\ client' = [client EXCEPT ![t].ambiguous = @ + 1,
                              ![t].pc = IF client[t].ambiguous + 1 >= AmbiguousLimit
                                        THEN "gone" ELSE @]
  /\ UNCHANGED serverVars

\* The acquire deadline: the release it sends carries no lease_token, which
\* the route refuses (400) before it reaches the coordinator.
PollTimedOut(t) ==
  /\ client[t].pc = "polling"
  /\ Become(t, "gone")
  /\ UNCHANGED <<serverVars, late>>

\* assertActive(): ownership is confirmed with a heartbeat or the write stops.
AssertActive(t) ==
  /\ client[t].pc = "holding"
  /\ HeartbeatTx(t, client[t].tok)
  /\ client' = [client EXCEPT ![t] = IF Owns(row', t, client[t].tok)
                                     THEN [client[t] EXCEPT !.left = row'[t].left]
                                     ELSE [client[t] EXCEPT !.pc = "aborting"]]
  /\ UNCHANGED late

AssertActiveUnanswered(t) ==
  /\ client[t].pc = "holding"
  /\ Post(Message("heartbeat", t, client[t].tok))
  /\ Become(t, "aborting")
  /\ UNCHANGED serverVars

WatchdogHeartbeat(t) ==
  /\ client[t].dog /\ client[t].pc \in {"holding", "aborting"}
  /\ HeartbeatTx(t, client[t].tok)
  /\ UNCHANGED <<client, late>>

WatchdogHeartbeatDelayed(t) ==
  /\ client[t].dog /\ client[t].pc \in {"holding", "aborting"}
  /\ Post(Message("heartbeat", t, client[t].tok))
  /\ UNCHANGED <<serverVars, client>>

\* release(): the watchdog is killed only when the release is confirmed.
Release(t) ==
  /\ client[t].pc \in {"holding", "aborting"}
  /\ ReleaseTx(t, client[t].tok)
  /\ client' = [client EXCEPT ![t].pc = "gone",
       ![t].dog = @ /\ ~(row'[t].st = "completed" /\ row'[t].tok = client[t].tok)]
  /\ UNCHANGED late

ReleaseUnanswered(t) ==
  /\ client[t].pc \in {"holding", "aborting"}
  /\ Post(Message("release", t, client[t].tok))
  /\ Become(t, "gone")
  /\ UNCHANGED serverVars

\* The pipe to the writer closed without a confirmed release.
WatchdogRelease(t) ==
  /\ client[t].pc = "gone" /\ client[t].dog
  /\ client' = [client EXCEPT ![t].dog = FALSE]
  /\ ReleaseTx(t, client[t].tok)
  /\ UNCHANGED late

WatchdogReleaseDelayed(t) ==
  /\ client[t].pc = "gone" /\ client[t].dog
  /\ client' = [client EXCEPT ![t].dog = FALSE]
  /\ Post(Message("release", t, client[t].tok))
  /\ UNCHANGED serverVars

\* The writer dies; its watchdog survives (process death) or not (runner lost).
Crash(t) ==
  /\ client[t].pc \in {"polling", "holding", "aborting"}
  /\ \E survives \in {client[t].dog, FALSE} :
       client' = [client EXCEPT ![t].pc = "gone", ![t].dog = survives]
  /\ UNCHANGED <<serverVars, late>>

\* Nothing remembers the ticket any more: its slot serves a new client.
NewClient(t) ==
  /\ client[t].pc = "gone" /\ ~client[t].dog
  /\ row[t].st = "absent"
  /\ ~\E m \in late : m.ticket = t
  /\ client' = [client EXCEPT ![t] = NoClient]
  /\ UNCHANGED <<serverVars, late>>

----------------------------------------------------------------------------
(* The network and the clock.                                              *)

Deliver(m) ==
  /\ late' = late \ {m}
  /\ \/ m.kind = "acquire" /\ AcquireTx(m.ticket)
     \/ m.kind = "heartbeat" /\ HeartbeatTx(m.ticket, m.tok)
     \/ m.kind = "release" /\ ReleaseTx(m.ticket, m.tok)
  /\ UNCHANGED client

Lose(m) == late' = late \ {m} /\ UNCHANGED <<serverVars, client>>

Dec(n) == IF n = 0 THEN 0 ELSE n - 1

Tick ==
  /\ row' = [t \in Tickets |-> [row[t] EXCEPT !.left = Dec(@), !.dl = Dec(@)]]
  /\ client' = [t \in Tickets |-> [client[t] EXCEPT !.left = Dec(@)]]
  /\ UNCHANGED <<earlier, batchTurns, intakeTurns, waited, late>>

Init ==
  /\ row = [t \in Tickets |-> NoRow]
  /\ earlier = [t \in Tickets |-> {}]
  /\ batchTurns = 0
  /\ intakeTurns = 0
  /\ client = [t \in Tickets |-> NoClient]
  /\ late = {}
  /\ waited = [c \in Classes |-> 0]

ClientStep(t) ==
  \/ StartAcquire(t) \/ PollAnswered(t) \/ PollAmbiguous(t) \/ PollTimedOut(t)
  \/ AssertActive(t) \/ AssertActiveUnanswered(t)
  \/ WatchdogHeartbeat(t) \/ WatchdogHeartbeatDelayed(t)
  \/ Release(t) \/ ReleaseUnanswered(t) \/ WatchdogRelease(t) \/ WatchdogReleaseDelayed(t)
  \/ Crash(t) \/ NewClient(t)

Next ==
  \/ \E t \in Tickets : ClientStep(t)
  \/ \E m \in late : Deliver(m) \/ Lose(m)
  \/ Stats
  \/ Tick

Spec == Init /\ [][Next]_vars

\* A polling client keeps polling and time passes; nothing else is owed: a
\* holder may hang forever (its watchdog keeps the lease alive up to the
\* deadline) and a request may stay in the network.
Fairness == WF_vars(Tick) /\ \A t \in Tickets : WF_vars(PollAnswered(t))

FairSpec == Spec /\ Fairness
----------------------------------------------------------------------------
(* Properties.                                                             *)

RowStates == {"absent", "queued", "leased", "completed", "expired"}
Messages == [kind : {"acquire", "heartbeat", "release"}, ticket : Tickets,
             tok : Tokens \cup {None}]

\* Every variable of the coordinator, its clients and the network has its type,
\* and no row is leased beyond its deadline (acquire, heartbeat).
TypeOK ==
  /\ row \in [Tickets -> [st : RowStates, left : Nat, dl : Nat, tok : Tokens \cup {None}]]
  /\ earlier \in [Tickets -> SUBSET Tickets]
  /\ batchTurns \in Nat /\ intakeTurns \in Nat
  /\ client \in [Tickets -> [pc : {"idle", "polling", "holding", "aborting", "gone"},
                            tok : Tokens \cup {None}, left : Nat, ambiguous : Nat,
                            dog : BOOLEAN]]
  /\ late \subseteq Messages
  /\ waited \in [Classes -> Nat]
  /\ \A t \in Tickets : row[t].st = "leased" => row[t].left <= row[t].dl

\* acquire() grants the lease only when no row is leased, so the unique index
\* state_writer_one_active_ticket is never the thing that stops a second writer.
AtMostOneLease == \A t, u \in Leased(row) : t = u

\* While the expiry a writer was last told (acquire or assertActive) lies in
\* the future, the server still holds the lease for it, under its own token,
\* whatever expired, was pruned, was released late or was granted meanwhile.
BelievedLeaseIsHeld ==
  \A t \in Tickets :
    client[t].pc = "holding" /\ client[t].left > 0 => Owns(row, t, client[t].tok)

\* The writers whose last acquire or assertActive answer is still good.
Believers == {t \in Tickets : client[t].pc = "holding" /\ client[t].left > 0}

Lock == INSTANCE WriterLock WITH Writers <- Tickets, writing <- Believers

\* Seen from the writers, the coordinator is a lock: two writers never both
\* have a good answer, and no step hands the permission from one to another
\* while the first still has it.
ImplementsWriterLock == Lock!Spec

\* How many grants in a row may pass over a class that has queued tickets.
BypassLimit == [c \in Classes |-> IF c = "ordinary" THEN 2 ELSE 3]

\* queuedOrderSync: "after two such turns an ordinary writer is guaranteed the
\* next lease", and the priority lanes do not starve each other either.
ServiceBound == \A c \in Classes : waited[c] <= BypassLimit[c]

\* A lease that has not run out ends only in a release that carries its token,
\* which only a client that was told the token can have sent: an ambiguous,
\* late or repeated request of an earlier life of the ticket never ends it.
LiveLeaseEndsOnlyByItsOwner ==
  [][\A t \in Tickets :
       /\ row[t].st = "leased" /\ row[t].left > 0 /\ row[t].dl > 0
       /\ row'[t].st # "leased"
       => row'[t].st = "completed" /\ client[t].tok = row[t].tok]_vars

\* Some ticket goes stale in the queue (its client died or stalled there).
QueueDeath == \E t \in Tickets : row[t].st = "queued" /\ row'[t].st \notin {"queued", "leased"}

\* A client that keeps polling is granted the lease however the other clients
\* come, hang while they hold it, and come back (or it stops by itself: 409,
\* ambiguous polls, its deadline, a crash).  The premise is needed: a ticket
\* that dies at the head blocks the queue until it is stale and uses up no
\* turn, so priority writers that die in the queue again and again starve the
\* rest.
QueuedIsServed ==
  <>[][~QueueDeath]_vars =>
    \A t \in Tickets :
      client[t].pc = "polling" /\ row[t].st = "queued"
        ~> row[t].st = "leased" \/ client[t].pc # "polling"
============================================================================

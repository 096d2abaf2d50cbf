--------------------------- MODULE FencedOwnership ---------------------------
(***************************************************************************)
(* What publication needs of the batch store, one item key at a time: an   *)
(* item has at most one owner, owners are numbered upwards, and a result   *)
(* is accepted only from the present owner, whose ownership it ends.       *)
(***************************************************************************)
EXTENDS Naturals, Sequences

CONSTANT Keys

VARIABLES
  holder,    \* key |-> number of its owner, 0: none
  issued,    \* key |-> the largest number issued so far
  accepted   \* key |-> numbers of the owners whose results were accepted

vars == <<holder, issued, accepted>>

Keep(k) == holder'[k] = holder[k] /\ accepted'[k] = accepted[k]

\* A new owner, also in place of one whose lease ran out.
Own(k) == /\ holder'[k] > issued[k] /\ issued'[k] = holder'[k]
          /\ accepted'[k] = accepted[k]

\* The lease ran out, or the store keeps nothing of it.
Lapse(k) == holder'[k] = 0 /\ accepted'[k] = accepted[k]

Accept(k) == /\ holder[k] # 0 /\ holder'[k] = 0
             /\ accepted'[k] = Append(accepted[k], holder[k])

Init == /\ holder = [k \in Keys |-> 0]
        /\ issued = [k \in Keys |-> 0]
        /\ accepted = [k \in Keys |-> <<>>]

\* One transaction may concern several keys.
Next == \A k \in Keys : /\ issued'[k] >= issued[k]
                        /\ Keep(k) \/ Own(k) \/ Lapse(k) \/ Accept(k)

Spec == Init /\ [][Next]_vars
=============================================================================

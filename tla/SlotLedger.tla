----------------------------- MODULE SlotLedger -----------------------------
(***************************************************************************)
(* What the assignment engine promises its clients about the slots and     *)
(* labels tables, however their requests overlap: each request that is     *)
(* granted is one of these steps, taken at once, on the rows as they are   *)
(* at that moment (backend/app/services/assignment/engine.py).             *)
(*                                                                         *)
(* A sweep and the lease that follows it in next_task are granted at once. *)
(***************************************************************************)
CONSTANTS Annotators, Slots, None

VARIABLES slot, label

Open == [status |-> "open", by |-> None, expired |-> FALSE]

HeldBy(a, i) == slot[i].status = "leased" /\ slot[i].by = a

\* Leases that ran out, and the slots after some of them are reclaimed.
Lapsed == {i \in Slots : slot[i].status = "leased" /\ slot[i].expired}
Reclaimed(is) == [i \in Slots |-> IF i \in is THEN Open ELSE slot[i]]

Reclaim == \E is \in SUBSET Lapsed : slot' = Reclaimed(is) /\ UNCHANGED label

Lease(a, i) ==
  \E is \in SUBSET Lapsed :
     /\ Reclaimed(is)[i].status = "open"
     /\ slot' = [Reclaimed(is) EXCEPT ![i] = [status |-> "leased", by |-> a, expired |-> FALSE]]
     /\ UNCHANGED label

Resume(a, i) ==
  \E is \in SUBSET Lapsed :
     /\ HeldBy(a, i) /\ i \notin is
     /\ slot' = [Reclaimed(is) EXCEPT ![i].expired = FALSE]
     /\ UNCHANGED label

Fill(a, i) ==
  /\ HeldBy(a, i)
  /\ slot' = [slot EXCEPT ![i] = [status |-> "filled", by |-> a, expired |-> FALSE]]
  /\ \E n \in DOMAIN label : /\ label[n] = None
                             /\ label' = [label EXCEPT ![n] = [slot |-> i, by |-> a, valid |-> TRUE]]

Release(a, i) == HeldBy(a, i) /\ slot' = [slot EXCEPT ![i] = Open] /\ UNCHANGED label

RunOut(i) == /\ slot[i].status = "leased" /\ ~slot[i].expired
             /\ slot' = [slot EXCEPT ![i].expired = TRUE] /\ UNCHANGED label

LedgerInit == slot = [i \in Slots |-> Open] /\ \A n \in DOMAIN label : label[n] = None

LedgerNext == \/ Reclaim
              \/ \E i \in Slots : \/ RunOut(i)
                                  \/ \E a \in Annotators : Lease(a, i) \/ Resume(a, i) \/ Fill(a, i) \/ Release(a, i)

LedgerSpec == LedgerInit /\ [][LedgerNext]_<<slot, label>>

=============================================================================

-------------------------- MODULE SnapshotRegister --------------------------
(***************************************************************************)
(* What synchronization promises about the remote storage and about the    *)
(* snapshots offered to it.  The storage is one register.  A snapshot is   *)
(* offered with the one state of the register it may replace; it is taken  *)
(* exactly when the register is in that state; and its fate is settled     *)
(* once: a snapshot that its device took back is never in the register     *)
(* later, and an accepted one is never taken back.                         *)
(***************************************************************************)
EXTENDS Naturals, Sequences

CONSTANTS MaxSnapshots, None, Unset

VARIABLES
    register,   \* the snapshot the storage holds, or None
    offers,     \* for every snapshot, the register state it may replace
    fate        \* for every snapshot, what became of it

vars == <<register, offers, fate>>

Fates == {"open", "accepted", "withdrawn"}

Init == /\ register \in {None, 1}
        /\ offers = <<Unset>>
        /\ fate = IF register = None THEN <<"open">> ELSE <<"accepted">>

Offer(e) == /\ Len(offers) < MaxSnapshots
            /\ offers' = Append(offers, e)
            /\ fate' = Append(fate, "open")
            /\ UNCHANGED register

\* An accepted snapshot can be written again by a duplicate of its request, once
\* the register was emptied and is back in the state the snapshot expected.
Accept(s) == /\ fate[s] # "withdrawn"
             /\ register = offers[s]
             /\ register' = s
             /\ fate' = [fate EXCEPT ![s] = "accepted"]
             /\ UNCHANGED offers

Withdraw(s) == /\ fate[s] = "open"
               /\ fate' = [fate EXCEPT ![s] = "withdrawn"]
               /\ UNCHANGED <<register, offers>>

Remove == /\ register # None
          /\ register' = None
          /\ UNCHANGED <<offers, fate>>

Next == \/ \E e \in {Unset, None} \cup 1 .. MaxSnapshots : Offer(e)
        \/ \E s \in DOMAIN offers : Accept(s) \/ Withdraw(s)
        \/ Remove

Spec == Init /\ [][Next]_vars
=============================================================================

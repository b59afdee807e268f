-------------------------- MODULE SessionLifecycle --------------------------
(***************************************************************************)
(* What the unlocked session promises to the rest of the program: there is *)
(* at most one session in the whole extension; it is opened under an id    *)
(* that was never used before; another vault is opened only when none is   *)
(* open; and a session that ended never comes back.                        *)
(***************************************************************************)
EXTENDS Integers

CONSTANTS Vaults, MaxId, None

VARIABLES
    current,    \* the session that is open, or None
    last        \* the id of the newest session that was ever open

vars == <<current, last>>

Init == current = None /\ last = 0

\* Opening the vault that is open replaces its session.
Open(s, v) ==
    /\ s > last
    /\ current # None => current.vault = v
    /\ current' = [sid |-> s, vault |-> v]
    /\ last' = s

Close == /\ current # None
         /\ current' = None
         /\ UNCHANGED last

Next == Close \/ \E s \in 1 .. MaxId, v \in Vaults : Open(s, v)

Spec == Init /\ [][Next]_vars
=============================================================================

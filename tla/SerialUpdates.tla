---------------------------- MODULE SerialUpdates ----------------------------
(***************************************************************************)
(* What the lock, the lease and the merging bucket promise together: the   *)
(* site-state object behaves as one value to which whole changes are       *)
(* applied one at a time, and to which nothing else ever happens. A change *)
(* that was written stays written.                                         *)
(***************************************************************************)
CONSTANT Changes      \* every change some request may make to the object

VARIABLE applied      \* the changes the stored object reflects

Init == applied = {}

Apply(c) ==
    /\ c \notin applied
    /\ applied' = applied \cup {c}

Next == \E c \in Changes : Apply(c)

Spec == Init /\ [][Next]_applied
=============================================================================

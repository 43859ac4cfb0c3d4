--------------------------------- MODULE MCLimits ---------------------------------
(***************************************************************************)
(* Counters and MediaWrites on small instances. They have no state in      *)
(* common: a behaviour is one of either module, chosen at its start, while *)
(* the other stays where it begins.                                        *)
(***************************************************************************)
EXTENDS Counters, MediaWrites, TLC

CONSTANTS u1, u2, r1, r2, k1, k2, k3, k4

MCSlots == {"u1", "u2", "network"}
MCChain == u1 :> <<"u1", "network">> @@ u2 :> <<"u2", "network">>
MCLimit == [s \in MCSlots |-> IF s = "network" THEN 2 ELSE 1]
MCWindow == [s \in MCSlots |-> 3]
MCCallLimit == [c \in Classes |-> 1]
MCMediaOf == r1 :> {k1, k2} @@ r2 :> {k3, k4}

VARIABLE part

MCInit == CountersInit /\ MediaInit /\ part \in {"counters", "media"}

MCNext ==
    \/ part = "counters" /\ CountersNext /\ UNCHANGED <<mediaVars, part>>
    \/ part = "media" /\ MediaNext /\ UNCHANGED <<countersVars, part>>

MCSpec == MCInit /\ [][MCNext]_<<countersVars, mediaVars, part>>
===================================================================================

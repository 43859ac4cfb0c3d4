---------------------------- MODULE MCBotRequests ----------------------------
(***************************************************************************)
(* Two small instances of BotRequests, chosen at the start: in "replay"    *)
(* one request, with a clock that may be wrong either way, is delivered    *)
(* over MaxTime seconds; in "reauth" a challenge and two requests that may *)
(* use it or act beside it cross within ReauthTime, clocks being right.    *)
(***************************************************************************)
EXTENDS BotRequests, TLC

CONSTANTS n1, n2, n3, ReauthTime

MCWanted == (n1 :> {"challenge"}) @@ (n2 :> {"revert", "change"})
              @@ (n3 :> {"revert", "change", "look", "sync"})

VARIABLE part

MCInit == Init /\ part \in {"replay", "reauth"}

MCNext ==
    /\ Next
    /\ part = "replay" => sent'[n1] = Unsent /\ sent'[n2] = Unsent
    /\ part = "reauth" =>
          /\ now' <= ReauthTime
          /\ \A n \in Nonces : sent'[n] # sent[n] =>
                sent'[n].ts = now /\ sent'[n].op # "sync"
    /\ UNCHANGED part

MCSpec == MCInit /\ [][MCNext]_<<vars, part>>

Symmetry == Permutations(Calls) \cup Permutations(Actors)
=============================================================================

----------------------------- MODULE MCDataPath -----------------------------
(***************************************************************************)
(* What a data plane keeps beside its listeners: the health registry, the  *)
(* refresh of the route table and the UDP sessions, one per behaviour.  A  *)
(* part takes its steps while the others stay in an initial state, in      *)
(* which no fair step of theirs is enabled.                                *)
(***************************************************************************)
EXTENDS HealthRegistry, RouteRefresh, UdpSessions

VARIABLE part

mcVars == <<part, healthVars, refreshVars, udpVars>>

\* Resolutions and addresses are interchangeable: one of each to begin with.
RefreshStart == RefreshInit /\ dns = CHOOSE r \in Resolution : TRUE
UdpStart == UdpInit /\ table.at = CHOOSE a \in Address : TRUE

UdpRest == UdpStart /\ table.routed = [l \in Listener |-> {}]

Init ==
    /\ HealthInit /\ RefreshStart
    /\ \/ part \in {"health", "refresh"} /\ UdpRest
       \/ part = "udp" /\ UdpStart

Next ==
    /\ part' = part
    /\ \/ part = "health" /\ HealthNext /\ UNCHANGED <<refreshVars, udpVars>>
       \/ part = "refresh" /\ RefreshNext /\ UNCHANGED <<healthVars, udpVars>>
       \/ part = "udp" /\ UdpNext /\ UNCHANGED <<healthVars, refreshVars>>

Spec == Init /\ [][Next]_mcVars
FairSpec == Spec /\ HealthFairness /\ RefreshFairness /\ UdpFairness
=============================================================================

---------------------------- MODULE ServedConfig ----------------------------
(***************************************************************************)
(* What the live route table promises: it is built from the config applied *)
(* last, and between two applies only what its backends' names resolve     *)
(* to changes, to what they resolve to later (dataplane/dns_refresh.rs,    *)
(* module comment).                                                        *)
(***************************************************************************)
EXTENDS Naturals

CONSTANTS Config, Resolution, Nothing

VARIABLES
    applied,    \* the config applied last, Nothing before the first and after a clear
    base,       \* which apply that is, 0 for none
    served,     \* the config the live table is built from
    resolved,   \* what its backends are resolved to
    since       \* how many changes of DNS that resolution has seen

vars == <<applied, base, served, resolved, since>>

Init ==
    /\ applied = Nothing /\ base = 0
    /\ served = Nothing /\ resolved = Nothing /\ since = 0

Apply ==
    /\ base' \in Nat \ {0, base}
    /\ \E c \in Config : applied' = c /\ served' = c
    /\ resolved' \in Resolution /\ since' \in Nat

Clear ==
    /\ applied' = Nothing /\ base' = 0
    /\ served' = Nothing /\ resolved' = Nothing /\ since' = 0

Refresh ==
    /\ served # Nothing
    /\ resolved' \in Resolution \ {resolved}
    /\ since' \in Nat /\ since' > since
    /\ UNCHANGED <<applied, base, served>>

Next == Apply \/ Clear \/ Refresh

Spec == Init /\ [][Next]_vars
=============================================================================

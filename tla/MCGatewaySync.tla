--------------------------- MODULE MCGatewaySync ---------------------------
(* GatewaySync on one data plane, few revisions and few outside events.     *)
EXTENDS GatewaySync

Quiet == [edits |-> 0, creations |-> 0, classes |-> 0, failovers |-> 0, moves |-> 0,
            failures |-> 0, restarts |-> 0, stops |-> 0]
Recreated == [Quiet EXCEPT !.creations = 1]

\* The mixes of outside events the passing run goes through.
MCBudgets == {
    [Quiet EXCEPT !.edits = 1, !.moves = 1],
    [Quiet EXCEPT !.moves = 1, !.stops = 1],
    [Quiet EXCEPT !.edits = 1, !.classes = 1],
    [Quiet EXCEPT !.classes = 1, !.failovers = 1],
    [Quiet EXCEPT !.failures = 1],
    [Quiet EXCEPT !.restarts = 1],
    [Recreated EXCEPT !.failovers = 1],
    [Recreated EXCEPT !.classes = 1] }

\* Those of the runs that show a disagreement.
OneCreation == {Recreated}
OneStop == {[Quiet EXCEPT !.stops = 1]}
=============================================================================

------------------------- MODULE RouteRefreshProofs -------------------------
(***************************************************************************)
(* That the Applier and the DNS refresh implement ServedConfig, for every  *)
(* set of configs and resolutions and any number of applies and ticks.     *)
(*                                                                         *)
(* The argument is about identities.  A compare-and-swap that succeeds has *)
(* found the very table the tick's pair holds, so it replaces a table by   *)
(* one of the same config.  That needs the tables in hand to be told apart *)
(* by their identities, and the one an apply built to be unknown to the    *)
(* tick until it is published.  That a tick's table is resolved later than *)
(* the one it replaces follows from when each was built.                   *)
(***************************************************************************)
EXTENDS RouteRefresh, TLAPS

\* The identities in use were given out, and name one table each.
Identities ==
    /\ {routes.id, published.id, applier.table.id, refresher.pair.id, refresher.table.id}
           \subseteq 0 .. tables
    /\ refresher.pair.id = routes.id => refresher.pair = routes
    /\ refresher.pair.id = published.id => refresher.pair = published

\* A table built and not yet stored is nowhere else.
Unseen ==
    /\ applier.pc = "store" =>
          applier.table.id \notin {0, routes.id, published.id, refresher.pair.id, refresher.table.id}
    /\ refresher.pc = "swap" =>
          refresher.table.id \notin {0, routes.id, published.id, refresher.pair.id, applier.table.id}

\* What the applier has in hand.
ApplierInv ==
    /\ applier.pc \in {"build", "store", "publish"} => applier.config \in Config
    /\ applier.pc = "store" => applier.table \in Table /\ applier.table.config = applier.config
    /\ applier.pc = "publish" =>
          /\ applier.table \in Table /\ applier.table.config = applier.config
          /\ routes = applier.table
          /\ applier.table.id \notin {published.id, refresher.pair.id, refresher.table.id}
    /\ applier.pc = "cleared" => routes = Empty
    /\ applier.pc \in {"idle", "build", "cleared"} => applier.table = Empty

\* What the tick has in hand.
RefresherInv ==
    /\ refresher.pc = "idle" => refresher = IdleRefresher
    /\ refresher.pc # "idle" => refresher.pair \in Table
    /\ refresher.pc \in {"swap", "publish"} =>
          /\ refresher.table \in Table
          /\ refresher.table.config = refresher.pair.config
          /\ refresher.table.id # refresher.pair.id
    /\ refresher.pc = "build" => refresher.table = Empty

\* While the tick has swapped and not published: either the pair is still
\* published and its successor live, or an apply has published since.
Handover ==
    refresher.pc = "publish" =>
        /\ routes.id # refresher.pair.id
        /\ applier.pc \in {"idle", "build", "store"} =>
              \/ published = refresher.pair /\ routes = refresher.table
              \/ published = routes /\ published.id # refresher.pair.id

IInv ==
    /\ RefreshTypeOK
    /\ Identities
    /\ Unseen
    /\ ApplierInv
    /\ RefresherInv
    /\ Handover
    /\ ServesTheApplied
    /\ PublishedIsLive

-----------------------------------------------------------------------------
\* The initial states satisfy the invariant.
LEMMA InitInv == RefreshInit => IInv
<1> SUFFICES ASSUME RefreshInit PROVE IInv
    OBVIOUS
<1>1. RefreshTypeOK
    BY RefreshAssumption DEF RefreshInit, RefreshTypeOK, Tables, Empty, IdleApplier, IdleRefresher
<1>2. Identities /\ Unseen /\ ApplierInv /\ RefresherInv /\ Handover
    BY DEF RefreshInit, Identities, Unseen, ApplierInv, RefresherInv, Handover, Empty,
           IdleApplier, IdleRefresher
<1>3. ServesTheApplied /\ PublishedIsLive
    BY DEF RefreshInit, ServesTheApplied, PublishedIsLive, Empty
<1> QED  BY <1>1, <1>2, <1>3 DEF IInv

\* A table just built is one, of an identity not given out before.
LEMMA BuiltIsTable ==
    ASSUME RefreshTypeOK, tables < MaxTables, NEW c \in Config
    PROVE  /\ Built(c) \in Table /\ Built(c) # Empty
           /\ Built(c).id = tables + 1 /\ Built(c).config = c
           /\ tables + 1 \in 1 .. MaxTables
BY RefreshAssumption DEF Built, Table, RefreshTypeOK, Empty

\* Every step keeps the types.
LEMMA NextType == IInv /\ [RefreshNext]_refreshVars => RefreshTypeOK'
<1> SUFFICES ASSUME IInv, [RefreshNext]_refreshVars PROVE RefreshTypeOK'
    OBVIOUS
<1> USE RefreshAssumption DEF RefreshTypeOK, Tables, Table, Empty, IdleApplier, IdleRefresher
<1>1. CASE DnsChanges
    BY <1>1 DEF IInv, ApplierInv, RefresherInv, DnsChanges
<1>2. CASE ApplyBegin
    BY <1>2 DEF IInv, ApplierInv, RefresherInv, ApplyBegin
<1>3. CASE ApplyBuild
  <2>1. CASE applier.config \in Unbuildable
    BY <1>3, <2>1 DEF IInv, ApplierInv, ApplyBuild
  <2>2. CASE applier.config \notin Unbuildable
    <3> DEFINE t == Built(applier.config)
    <3>1. t \in Table /\ tables + 1 \in 1 .. MaxTables
        BY <1>3, <2>2, BuiltIsTable DEF IInv, ApplierInv, ApplyBuild
    <3>2. /\ applier' = [applier EXCEPT !.pc = "store", !.table = t] /\ tables' = tables + 1
          /\ UNCHANGED <<routes, published, last, refresher, applied, base, dns, changes>>
        BY <1>3, <2>2 DEF ApplyBuild
    <3> HIDE DEF t, Table, Empty, IdleApplier, IdleRefresher
    <3>3. applier' \in [pc : {"idle", "build", "store", "publish", "cleared"},
                        config : Config \cup {Nothing}, table : Tables]
        BY <3>1, <3>2 DEF IInv
    <3>4. tables' \in 0 .. MaxTables
        BY <3>1, <3>2
    <3> QED  BY <3>2, <3>3, <3>4 DEF IInv
  <2> QED  BY <2>1, <2>2
<1>4. CASE ApplyStore
    BY <1>4 DEF IInv, ApplierInv, RefresherInv, ApplyStore
<1>5. CASE ApplyPublish
    BY <1>5 DEF IInv, ApplierInv, RefresherInv, ApplyPublish
<1>6. CASE ClearStore
    BY <1>6 DEF IInv, ApplierInv, RefresherInv, ClearStore
<1>7. CASE ClearPublish
    BY <1>7 DEF IInv, ApplierInv, RefresherInv, ClearPublish
<1>8. CASE RefreshRead
    BY <1>8 DEF IInv, ApplierInv, RefresherInv, RefreshRead
<1>9. CASE RefreshBuild
  <2>1. CASE dns = refresher.pair.resolved
    BY <1>9, <2>1 DEF IInv, RefreshBuild
  <2>2. CASE dns # refresher.pair.resolved
    <3>1. refresher.pair.config \in Config
        BY <1>9 DEF IInv, RefresherInv, RefreshBuild
    <3> DEFINE t == Built(refresher.pair.config)
    <3>2. t \in Table /\ tables + 1 \in 1 .. MaxTables
        BY <1>9, <2>2, <3>1, BuiltIsTable DEF IInv, RefreshBuild
    <3>3. /\ refresher' = [refresher EXCEPT !.pc = "swap", !.table = t] /\ tables' = tables + 1
          /\ UNCHANGED <<routes, published, last, applier, applied, base, dns, changes>>
        BY <1>9, <2>2 DEF RefreshBuild
    <3> HIDE DEF t, Table, Empty, IdleApplier, IdleRefresher
    <3>4. refresher' \in [pc : {"idle", "build", "swap", "publish"},
                          pair : Tables, table : Tables]
        BY <3>2, <3>3 DEF IInv
    <3>5. tables' \in 0 .. MaxTables
        BY <3>2, <3>3
    <3> QED  BY <3>3, <3>4, <3>5 DEF IInv
  <2> QED  BY <2>1, <2>2
<1>10. CASE RefreshSwap
    BY <1>10 DEF IInv, ApplierInv, RefresherInv, RefreshSwap
<1>11. CASE RefreshPublish
    BY <1>11 DEF IInv, ApplierInv, RefresherInv, RefreshPublish
<1>12. CASE UNCHANGED refreshVars
    BY <1>12 DEF IInv, refreshVars
<1> QED  BY <1>1, <1>2, <1>3, <1>4, <1>5, <1>6, <1>7, <1>8, <1>9, <1>10, <1>11, <1>12 DEF RefreshNext, Applying, Refreshing

\* Every step keeps the invariant.
LEMMA NextInv == IInv /\ [RefreshNext]_refreshVars => IInv'
<1> SUFFICES ASSUME IInv, [RefreshNext]_refreshVars PROVE IInv'
    OBVIOUS
<1>t. RefreshTypeOK'
    BY NextType
<1> USE <1>t DEF IInv
<1>1. CASE DnsChanges
  <2> USE <1>1 DEF DnsChanges, Empty, IdleApplier, IdleRefresher
  <2>1. Identities'
    BY DEF Identities
  <2>2. Unseen'
    BY DEF Unseen
  <2>3. ApplierInv'
    BY DEF ApplierInv
  <2>4. RefresherInv'
    BY DEF RefresherInv
  <2>5. Handover'
    BY DEF Handover
  <2>6. ServesTheApplied'
    BY DEF ServesTheApplied
  <2>7. PublishedIsLive'
    BY DEF PublishedIsLive
  <2> QED  BY <2>1, <2>2, <2>3, <2>4, <2>5, <2>6, <2>7
<1>2. CASE ApplyBegin
  <2> USE <1>2 DEF ApplyBegin, Empty, IdleApplier, IdleRefresher
  <2>1. Identities'
    BY DEF Identities
  <2>2. Unseen'
    BY DEF Unseen
  <2>3. ApplierInv'
    BY DEF ApplierInv
  <2>4. RefresherInv'
    BY DEF RefresherInv
  <2>5. Handover'
    BY DEF Handover
  <2>6. ServesTheApplied'
    BY DEF ServesTheApplied
  <2>7. PublishedIsLive'
    BY DEF PublishedIsLive
  <2> QED  BY <2>1, <2>2, <2>3, <2>4, <2>5, <2>6, <2>7
<1>3. CASE ApplyBuild
  <2> USE <1>3 DEF ApplyBuild, Empty, IdleApplier, IdleRefresher
  <2>1. CASE applier.config \in Unbuildable
    <3> USE <2>1
    <3>1. Identities'
        BY DEF RefreshTypeOK, Identities
    <3>2. Unseen'
        BY DEF Unseen
    <3>3. ApplierInv'
        BY DEF ApplierInv
    <3>4. RefresherInv'
        BY DEF RefresherInv
    <3>5. Handover'
        BY DEF Handover
    <3>6. ServesTheApplied'
        BY DEF ServesTheApplied
    <3>7. PublishedIsLive'
        BY DEF PublishedIsLive
    <3> QED  BY <3>1, <3>2, <3>3, <3>4, <3>5, <3>6, <3>7
  <2>2. CASE applier.config \notin Unbuildable
    <3> USE <2>2
    <3>a. applier.config \in Config
        BY DEF ApplierInv
    <3> DEFINE t == Built(applier.config)
    <3>b. /\ t \in Table /\ t # Empty /\ t.id = tables + 1 /\ t.config = applier.config
          /\ tables \in 0 .. MaxTables /\ tables' = tables + 1
        BY <3>a, BuiltIsTable DEF RefreshTypeOK
    <3>c. /\ applier'.pc = "store" /\ applier'.table = t /\ applier'.config = applier.config
          /\ UNCHANGED <<routes, published, refresher, applied>>
        BY DEF RefreshTypeOK
    <3> HIDE DEF t
    <3>d. {routes.id, published.id, applier.table.id, refresher.pair.id, refresher.table.id}
              \subseteq 0 .. tables
        BY DEF Identities
    <3>1. Identities'
        BY <3>b, <3>c, <3>d DEF Identities
    <3>2. Unseen'
        BY <3>b, <3>c, <3>d DEF Unseen, Identities
    <3>3. ApplierInv'
        BY <3>b, <3>c, <3>d DEF ApplierInv
    <3>4. RefresherInv'
        BY <3>b, <3>c, <3>d DEF RefresherInv
    <3>5. Handover'
        BY <3>b, <3>c, <3>d DEF Handover
    <3>6. ServesTheApplied'
        BY <3>b, <3>c, <3>d DEF ServesTheApplied
    <3>7. PublishedIsLive'
        BY <3>b, <3>c, <3>d DEF PublishedIsLive
    <3> QED  BY <3>1, <3>2, <3>3, <3>4, <3>5, <3>6, <3>7
  <2> QED  BY <2>1, <2>2
<1>4. CASE ApplyStore
  <2> USE <1>4 DEF ApplyStore, Empty, IdleApplier, IdleRefresher
  <2>1. Identities'
    BY DEF Identities, Unseen
  <2>2. Unseen'
    BY DEF Unseen
  <2>3. ApplierInv'
    BY DEF ApplierInv, Unseen
  <2>4. RefresherInv'
    BY DEF RefresherInv
  <2>5. Handover'
    BY DEF Handover, Unseen
  <2>6. ServesTheApplied'
    BY DEF ServesTheApplied, ApplierInv
  <2>7. PublishedIsLive'
    BY DEF PublishedIsLive
  <2> QED  BY <2>1, <2>2, <2>3, <2>4, <2>5, <2>6, <2>7
<1>5. CASE ApplyPublish
  <2> USE <1>5 DEF ApplyPublish, Empty, IdleApplier, IdleRefresher
  <2>1. Identities'
    BY DEF RefreshTypeOK, Identities, ApplierInv
  <2>2. Unseen'
    BY DEF Unseen
  <2>3. ApplierInv'
    BY DEF ApplierInv
  <2>4. RefresherInv'
    BY DEF RefresherInv
  <2>5. Handover'
    BY DEF Handover, ApplierInv
  <2>6. ServesTheApplied'
    BY DEF ServesTheApplied
  <2>7. PublishedIsLive'
    BY DEF PublishedIsLive, ApplierInv
  <2> QED  BY <2>1, <2>2, <2>3, <2>4, <2>5, <2>6, <2>7
<1>6. CASE ClearStore
  <2> USE <1>6 DEF ClearStore, Empty, IdleApplier, IdleRefresher
  <2>1. Identities'
    BY DEF RefreshTypeOK, Tables, Table, Identities, Unseen, ApplierInv, RefresherInv
  <2>2. Unseen'
    BY DEF Unseen
  <2>3. ApplierInv'
    BY DEF ApplierInv
  <2>4. RefresherInv'
    BY DEF RefresherInv
  <2>5. Handover'
    BY DEF RefreshTypeOK, Tables, Table, Handover, Identities, Unseen, ApplierInv, RefresherInv
  <2>6. ServesTheApplied'
    BY DEF ServesTheApplied
  <2>7. PublishedIsLive'
    BY DEF PublishedIsLive
  <2> QED  BY <2>1, <2>2, <2>3, <2>4, <2>5, <2>6, <2>7
<1>7. CASE ClearPublish
  <2> USE <1>7 DEF ClearPublish, Empty, IdleApplier, IdleRefresher
  <2>1. Identities'
    BY DEF Identities, ApplierInv
  <2>2. Unseen'
    BY DEF Unseen
  <2>3. ApplierInv'
    BY DEF ApplierInv
  <2>4. RefresherInv'
    BY DEF RefresherInv
  <2>5. Handover'
    BY DEF Handover, ApplierInv
  <2>6. ServesTheApplied'
    BY DEF ServesTheApplied
  <2>7. PublishedIsLive'
    BY DEF PublishedIsLive, ApplierInv
  <2> QED  BY <2>1, <2>2, <2>3, <2>4, <2>5, <2>6, <2>7
<1>8. CASE RefreshRead
  <2> USE <1>8 DEF RefreshRead, Empty, IdleApplier, IdleRefresher
  <2>1. Identities'
    BY DEF RefreshTypeOK, Tables, Table, Identities, Unseen, ApplierInv, RefresherInv, Handover, ServesTheApplied, PublishedIsLive
  <2>2. Unseen'
    BY DEF Unseen
  <2>3. ApplierInv'
    BY DEF ApplierInv
  <2>4. RefresherInv'
    BY DEF RefreshTypeOK, Tables, Table, RefresherInv, Identities, Unseen, ApplierInv
  <2>5. Handover'
    BY DEF Handover
  <2>6. ServesTheApplied'
    BY DEF ServesTheApplied
  <2>7. PublishedIsLive'
    BY DEF PublishedIsLive
  <2> QED  BY <2>1, <2>2, <2>3, <2>4, <2>5, <2>6, <2>7
<1>9. CASE RefreshBuild
  <2> USE <1>9 DEF RefreshBuild, Empty, IdleApplier, IdleRefresher
  <2>1. CASE dns = refresher.pair.resolved
    <3> USE <2>1
    <3>1. Identities'
        BY DEF RefreshTypeOK, Tables, Table, Identities, Unseen, ApplierInv, RefresherInv
    <3>2. Unseen'
        BY DEF Unseen
    <3>3. ApplierInv'
        BY DEF ApplierInv, RefresherInv
    <3>4. RefresherInv'
        BY DEF RefresherInv
    <3>5. Handover'
        BY DEF Handover
    <3>6. ServesTheApplied'
        BY DEF ServesTheApplied
    <3>7. PublishedIsLive'
        BY DEF PublishedIsLive
    <3> QED  BY <3>1, <3>2, <3>3, <3>4, <3>5, <3>6, <3>7
  <2>2. CASE dns # refresher.pair.resolved
    <3> USE <2>2
    <3>a. refresher.pair.config \in Config
        BY DEF RefresherInv, Table
    <3> DEFINE t == Built(refresher.pair.config)
    <3>b. /\ t \in Table /\ t # Empty /\ t.id = tables + 1 /\ t.config = refresher.pair.config
          /\ tables \in 0 .. MaxTables /\ tables' = tables + 1
        BY <3>a, BuiltIsTable DEF RefreshTypeOK
    <3>c. /\ refresher'.pc = "swap" /\ refresher'.table = t /\ refresher'.pair = refresher.pair
          /\ UNCHANGED <<routes, published, applier, applied>>
        BY DEF RefreshTypeOK
    <3> HIDE DEF t
    <3>d. {routes.id, published.id, applier.table.id, refresher.pair.id, refresher.table.id}
              \subseteq 0 .. tables
        BY DEF Identities
    <3>1. Identities'
        BY <3>b, <3>c, <3>d DEF Identities
    <3>2. Unseen'
        BY <3>b, <3>c, <3>d DEF Unseen, Identities
    <3>3. ApplierInv'
        BY <3>b, <3>c, <3>d DEF ApplierInv
    <3>4. RefresherInv'
        BY <3>b, <3>c, <3>d DEF RefresherInv
    <3>5. Handover'
        BY <3>b, <3>c, <3>d DEF Handover
    <3>6. ServesTheApplied'
        BY <3>b, <3>c, <3>d DEF ServesTheApplied
    <3>7. PublishedIsLive'
        BY <3>b, <3>c, <3>d DEF PublishedIsLive
    <3> QED  BY <3>1, <3>2, <3>3, <3>4, <3>5, <3>6, <3>7
  <2> QED  BY <2>1, <2>2
<1>10. CASE RefreshSwap
  <2> USE <1>10 DEF RefreshSwap, Empty, IdleApplier, IdleRefresher
  <2>1. Identities'
    BY DEF RefreshTypeOK, Tables, Table, Identities, Unseen, ApplierInv, RefresherInv
  <2>2. Unseen'
    BY DEF RefreshTypeOK, Unseen
  <2>3. ApplierInv'
    BY DEF RefreshTypeOK, Tables, Table, ApplierInv, Identities, Unseen, RefresherInv
  <2>4. RefresherInv'
    BY DEF RefreshTypeOK, RefresherInv
  <2>5. Handover'
    BY DEF RefreshTypeOK, Tables, Table, Identities, Unseen, ApplierInv, RefresherInv, Handover, ServesTheApplied, PublishedIsLive
  <2>6. ServesTheApplied'
    BY DEF ServesTheApplied, Identities, Unseen, ApplierInv, RefresherInv
  <2>7. PublishedIsLive'
    BY DEF RefreshTypeOK, PublishedIsLive
  <2> QED  BY <2>1, <2>2, <2>3, <2>4, <2>5, <2>6, <2>7
<1>11. CASE RefreshPublish
  <2> USE <1>11 DEF RefreshPublish, Empty, IdleApplier, IdleRefresher
  <2>1. Identities'
    BY DEF RefreshTypeOK, Tables, Table, Identities, Unseen, ApplierInv, RefresherInv
  <2>2. Unseen'
    BY DEF Unseen
  <2>3. ApplierInv'
    BY DEF RefreshTypeOK, Tables, Table, ApplierInv, Identities, Unseen, RefresherInv
  <2>4. RefresherInv'
    BY DEF RefresherInv
  <2>5. Handover'
    BY DEF Handover
  <2>6. ServesTheApplied'
    BY DEF ServesTheApplied
  <2>7. PublishedIsLive'
    BY DEF RefreshTypeOK, Tables, Table, Identities, Unseen, ApplierInv, RefresherInv, Handover, ServesTheApplied, PublishedIsLive
  <2> QED  BY <2>1, <2>2, <2>3, <2>4, <2>5, <2>6, <2>7
<1>12. CASE UNCHANGED refreshVars
    BY <1>12 DEF refreshVars, RefreshTypeOK, Identities, Unseen, ApplierInv, RefresherInv, Handover, ServesTheApplied, PublishedIsLive
<1> QED  BY <1>1, <1>2, <1>3, <1>4, <1>5, <1>6, <1>7, <1>8, <1>9, <1>10, <1>11, <1>12 DEF RefreshNext, Applying, Refreshing

(***************************************************************************)
(* What the live table is built from and where the two writers stand, in   *)
(* every reachable state.                                                  *)
(***************************************************************************)
THEOREM Invariance == RefreshSpec => []IInv
<1> QED  BY InitInv, NextInv, PTL DEF RefreshSpec

(***************************************************************************)
(* The cells and the tables in hand always have their types.               *)
(***************************************************************************)
THEOREM TypeCorrect == RefreshSpec => []RefreshTypeOK
<1>1. IInv => RefreshTypeOK
    BY DEF IInv
<1> QED  BY Invariance, <1>1, PTL

(***************************************************************************)
(* The DNS refresh never brings back the table of an earlier config, nor   *)
(* one after a clear.                                                      *)
(***************************************************************************)
THEOREM AppliedConfigServed == RefreshSpec => []ServesTheApplied
<1>1. IInv => ServesTheApplied
    BY DEF IInv
<1> QED  BY Invariance, <1>1, PTL

(***************************************************************************)
(* Between two writes the published pair is the live table.                *)
(***************************************************************************)
THEOREM PublishedTableLive == RefreshSpec => []PublishedIsLive
<1>1. IInv => PublishedIsLive
    BY DEF IInv
<1> QED  BY Invariance, <1>1, PTL

-----------------------------------------------------------------------------
(* When the tables were built. *)

\* A table resolved since the last change of DNS is resolved to what it says.
Timely(t) == t.at \in Nat /\ t.at <= changes /\ (t # Empty /\ t.at = changes => t.resolved = dns)

\* The table in the applier's hand is not the one it stored last; the one in
\* the tick's hand was resolved later than the pair's, and to something else.
Ages ==
    /\ base \in 0 .. tables /\ (applier.pc = "store" => applier.table.id # base)
    /\ Timely(routes) /\ Timely(published) /\ Timely(applier.table)
    /\ Timely(refresher.pair) /\ Timely(refresher.table)
    /\ refresher.pc = "swap" =>
          /\ refresher.table.at > refresher.pair.at
          /\ refresher.table.resolved # refresher.pair.resolved

LEMMA InitAges == RefreshInit => Ages
BY DEF RefreshInit, Ages, Timely, Empty, IdleApplier, IdleRefresher

\* What is built now is timely, and resolved later than a timely table that
\* is not resolved to what DNS says.
LEMMA BuiltIsTimely ==
    ASSUME RefreshTypeOK, NEW c
    PROVE  /\ Timely(Built(c)) /\ Built(c).id = tables + 1
           /\ \A t : Timely(t) /\ t # Empty /\ t.resolved # dns =>
                 Built(c).at > t.at /\ Built(c).resolved # t.resolved
BY RefreshAssumption DEF RefreshTypeOK, Timely, Built

LEMMA NextAges == IInv /\ Ages /\ [RefreshNext]_refreshVars => Ages'
<1> SUFFICES ASSUME IInv, Ages, [RefreshNext]_refreshVars PROVE Ages'
    OBVIOUS
<1>t. /\ RefreshTypeOK /\ changes \in Nat /\ tables \in Nat
      /\ applier \in [pc : {"idle", "build", "store", "publish", "cleared"},
                      config : Config \cup {Nothing}, table : Tables]
      /\ refresher \in [pc : {"idle", "build", "swap", "publish"}, pair : Tables, table : Tables]
    BY RefreshAssumption DEF IInv, RefreshTypeOK
<1>e. IdleApplier.pc = "idle" /\ IdleApplier.table = Empty
      /\ IdleRefresher.pc = "idle" /\ IdleRefresher.pair = Empty /\ IdleRefresher.table = Empty
    BY DEF IdleApplier, IdleRefresher
<1>z. Timely(Empty) /\ (changes' = changes /\ dns' = dns => Timely(Empty)')
    BY <1>t DEF Timely, Empty
<1>1. CASE DnsChanges
    BY <1>1, <1>t DEF DnsChanges, Ages, Timely, Empty
<1>2. CASE ApplyBegin
    BY <1>2, <1>t DEF ApplyBegin, Ages, Timely
<1>3. CASE ApplyBuild
  <2>1. CASE applier.config \in Unbuildable
      BY <1>3, <2>1, <1>t, <1>e, <1>z DEF ApplyBuild, Ages, Timely
  <2>2. CASE applier.config \notin Unbuildable
    <3>1. /\ applier' = [applier EXCEPT !.pc = "store", !.table = Built(applier.config)]
          /\ tables' = tables + 1
          /\ UNCHANGED <<routes, published, last, refresher, applied, base, dns, changes>>
        BY <1>3, <2>2 DEF ApplyBuild
    <3>2. applier'.table = Built(applier.config)
        BY <3>1, <1>t
    <3>3. Timely(Built(applier.config)) /\ Built(applier.config).id = tables + 1
        BY <1>t, BuiltIsTimely
    <3> QED  BY <3>1, <3>2, <3>3, <1>t DEF Ages, Timely
  <2> QED  BY <2>1, <2>2
<1>4. CASE ApplyStore
  <2>1. applier.table.id \in 0 .. tables
      BY DEF IInv, Identities
  <2> QED  BY <1>4, <2>1, <1>t DEF ApplyStore, Ages, Timely
<1>5. CASE ApplyPublish
    BY <1>5, <1>t, <1>e, <1>z DEF ApplyPublish, Ages, Timely
<1>6. CASE ClearStore
    BY <1>6, <1>t, <1>z DEF ClearStore, Ages, Timely
<1>7. CASE ClearPublish
    BY <1>7, <1>t, <1>e, <1>z DEF ClearPublish, Ages, Timely
<1>8. CASE RefreshRead
    BY <1>8, <1>t DEF RefreshRead, Ages, Timely
<1>9. CASE RefreshBuild
  <2>1. CASE dns = refresher.pair.resolved
      BY <1>9, <2>1, <1>t, <1>e, <1>z DEF RefreshBuild, Ages, Timely
  <2>2. CASE dns # refresher.pair.resolved
    <3> DEFINE t == Built(refresher.pair.config)
    <3>1. /\ refresher' = [refresher EXCEPT !.pc = "swap", !.table = t]
          /\ tables' = tables + 1
          /\ UNCHANGED <<routes, published, last, applier, applied, base, dns, changes>>
        BY <1>9, <2>2 DEF RefreshBuild
    <3>2. refresher'.table = t /\ refresher'.pair = refresher.pair
        BY <3>1, <1>t
    <3>3. refresher.pair # Empty
        BY <1>9 DEF RefreshBuild, IInv, RefresherInv, Table, Empty
    <3>4. Timely(t) /\ t.at > refresher.pair.at /\ t.resolved # refresher.pair.resolved
        BY <1>t, <2>2, <3>3, BuiltIsTimely DEF Ages
    <3> HIDE DEF t
    <3> QED  BY <3>1, <3>2, <3>4, <1>t DEF Ages, Timely
  <2> QED  BY <2>1, <2>2
<1>10. CASE RefreshSwap
    BY <1>10, <1>t, <1>e, <1>z DEF RefreshSwap, Ages, Timely
<1>11. CASE RefreshPublish
    BY <1>11, <1>t, <1>e, <1>z DEF RefreshPublish, Ages, Timely
<1>12. CASE UNCHANGED refreshVars
    BY <1>12 DEF refreshVars, Ages, Timely
<1> QED  BY <1>1, <1>2, <1>3, <1>4, <1>5, <1>6, <1>7, <1>8, <1>9, <1>10, <1>11, <1>12 DEF RefreshNext, Applying, Refreshing

LEMMA AgesInvariance == RefreshSpec => []Ages
BY InitAges, NextAges, Invariance, PTL DEF RefreshSpec

\* Every step of the two writers is one of ServedConfig, or changes nothing
\* of it.
LEMMA StepSimulates == IInv /\ Ages /\ [RefreshNext]_refreshVars => [Promise!Next]_(Promise!vars)
<1> SUFFICES ASSUME IInv, Ages, [RefreshNext]_refreshVars PROVE [Promise!Next]_(Promise!vars)
    OBVIOUS
<1> USE DEF IInv, Promise!Next, Promise!vars
<1>1. CASE ApplyStore
  <2>1. applier.table \in Table /\ applier.table.config = applier.config
      BY <1>1 DEF ApplyStore, ApplierInv
  <2>2. applier.table.config \in Config /\ applier.table.resolved \in Resolution
      BY <2>1 DEF Table
  <2>3. applier.table.id \in Nat \ {0, base} /\ applier.table.at \in Nat
      BY <1>1, <2>1, RefreshAssumption DEF ApplyStore, Ages, Table
  <2> QED  BY <1>1, <2>1, <2>2, <2>3 DEF ApplyStore, Promise!Apply
<1>2. CASE ClearStore
    BY <1>2 DEF ClearStore, Promise!Clear, Empty
<1>3. CASE RefreshSwap
  <2>1. CASE routes.id = refresher.pair.id
    <3>1. /\ refresher.table \in Table /\ refresher.pair \in Table
          /\ refresher.table.config = refresher.pair.config
        BY <1>3 DEF RefreshSwap, RefresherInv
    <3>2. routes = refresher.pair
        BY <2>1 DEF Identities
    <3>3. routes.config # Nothing /\ refresher.table.resolved \in Resolution
        BY <3>1, <3>2, RefreshAssumption DEF Table
    <3>4. /\ refresher.table.at > routes.at /\ refresher.table.resolved # routes.resolved
          /\ refresher.table.at \in Nat
        BY <1>3, <3>2 DEF RefreshSwap, Ages, Timely
    <3> QED  BY <1>3, <2>1, <3>1, <3>2, <3>3, <3>4 DEF RefreshSwap, Promise!Refresh
  <2>2. CASE routes.id # refresher.pair.id
      BY <1>3, <2>2 DEF RefreshSwap
  <2> QED  BY <2>1, <2>2
<1>4. CASE \/ DnsChanges \/ ApplyBegin \/ ApplyBuild \/ ApplyPublish \/ ClearPublish
           \/ RefreshRead \/ RefreshBuild \/ RefreshPublish \/ UNCHANGED refreshVars
    BY <1>4 DEF DnsChanges, ApplyBegin, ApplyBuild, ApplyPublish, ClearPublish, RefreshRead,
                RefreshBuild, RefreshPublish, refreshVars
<1> QED  BY <1>1, <1>2, <1>3, <1>4 DEF RefreshNext, Applying, Refreshing

(***************************************************************************)
(* The Applier and the DNS refresh together implement ServedConfig: the    *)
(* table served is of the config applied last, and between two applies it  *)
(* is only ever replaced by one of the same config resolved later, for any *)
(* configs and resolutions and any number of applies, ticks and changes.   *)
(***************************************************************************)
THEOREM Refinement == RefreshSpec => Implements
<1>1. RefreshInit => Promise!Init
    BY DEF RefreshInit, Promise!Init, Empty
<1> QED  BY <1>1, Invariance, AgesInvariance, StepSimulates, PTL DEF RefreshSpec, Implements, Promise!Spec
=============================================================================

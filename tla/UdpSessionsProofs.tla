------------------------- MODULE UdpSessionsProofs -------------------------
(***************************************************************************)
(* That slots are counted and datagrams go where they are routed, for any  *)
(* number of listeners, clients, backends and slots.                       *)
(*                                                                         *)
(* Routing rests on the generations: one told from the live table's means  *)
(* the session must be looked up again, and one that equals it is of the   *)
(* very table that is live, because a new table never takes the address a  *)
(* listener still remembers.                                               *)
(***************************************************************************)
EXTENDS UdpSessions, FiniteSetTheorems, TLAPS

\* A session of the generation of the live table is routed by that table.
Checked ==
    \A l \in Listener, c \in Client : sessions[l][c] # NoSession =>
        /\ sessions[l][c].generation <= generation[l]
        /\ seen[l] = table.at /\ sessions[l][c].generation = generation[l] =>
              sessions[l][c].backend \subseteq table.routed[l]

\* What a loop awaits is a send of a session or the opening of one there is not.
InHand ==
    \A l \in Listener : recvLoop[l].pc \in {"sending", "opening"} =>
        \E c \in Client, b \in recvLoop[l].routed :
            /\ recvLoop[l].client = {c} /\ recvLoop[l].backend = {b}
            /\ recvLoop[l].pc = "sending" <=> sessions[l][c] # NoSession

\* A session being opened was judged by the table its listener remembers.
Judged ==
    \A l \in Listener : recvLoop[l].pc = "opening" /\ seen[l] = table.at =>
        recvLoop[l].routed = table.routed[l]

IInv == UdpTypeOK /\ SlotsCounted /\ Checked /\ InHand /\ Judged

-----------------------------------------------------------------------------
(* Counting.                                                                *)

\* The holders of slots are finitely many.
LEMMA HoldersFinite == IsFiniteSet(Holders)
<1>1. IsFiniteSet(Listener \X Client)
    BY FS_Product, SessionsAssumption DEF SessionsAssumption
<1>2. Holders \in SUBSET (Listener \X Client)
    BY DEF Holders
<1> QED  BY <1>1, <1>2, FS_Subset

\* A step that takes a free slot for one more holder keeps the count.
LEMMA OneMore ==
    ASSUME UdpTypeOK, SlotsCounted, open < MaxSessions, open' = open + 1,
           NEW h, h \notin Holders, Holders' = Holders \cup {h}
    PROVE  open' \in 0 .. MaxSessions /\ SlotsCounted'
<1>1. Cardinality(Holders \cup {h}) = Cardinality(Holders) + 1
    BY HoldersFinite, FS_AddElement
<1>2. SlotsCounted'
    BY <1>1 DEF SlotsCounted
<1>3. open' \in 0 .. MaxSessions
    BY SessionsAssumption DEF SessionsAssumption, UdpTypeOK
<1> QED  BY <1>2, <1>3

\* A step that gives the slots of some holders back keeps the count.
LEMMA SomeLess ==
    ASSUME UdpTypeOK, SlotsCounted, NEW S \in SUBSET Holders,
           open' = open - Cardinality(S), Holders' = Holders \ S
    PROVE  open' \in 0 .. MaxSessions /\ SlotsCounted'
<1>1. /\ IsFiniteSet(S) /\ Cardinality(S) \in Nat /\ Cardinality(Holders) \in Nat
      /\ Cardinality(S) <= Cardinality(Holders)
    BY HoldersFinite, FS_Subset, FS_CardinalityType
<1>2. Cardinality(Holders \ S) = Cardinality(Holders) - Cardinality(S)
    <2>1. Holders \cap S = S
        OBVIOUS
    <2> QED  BY <2>1, HoldersFinite, FS_Difference
<1>3. SlotsCounted'
    BY <1>2 DEF SlotsCounted
<1>4. open' \in 0 .. MaxSessions
    BY <1>1, SessionsAssumption DEF SessionsAssumption, UdpTypeOK, SlotsCounted
<1> QED  BY <1>3, <1>4

\* A step that gives one holder's slot back keeps the count.
LEMMA OneLess ==
    ASSUME UdpTypeOK, SlotsCounted, open' = open - 1,
           NEW h \in Holders, Holders' = Holders \ {h}
    PROVE  open' \in 0 .. MaxSessions /\ SlotsCounted'
<1>1. Cardinality({h}) = 1
    BY FS_Singleton
<1> QED  BY <1>1, SomeLess

\* A step that gives the slots of some clients of one listener back does.
LEMMA ClientsLess ==
    ASSUME UdpTypeOK, SlotsCounted, NEW l \in Listener, NEW E \in SUBSET Client,
           \A c \in E : sessions[l][c] # NoSession,
           open' = open - Cardinality(E), Holders' = Holders \ ({l} \X E)
    PROVE  open' \in 0 .. MaxSessions /\ SlotsCounted'
<1>1. IsFiniteSet(E) /\ IsFiniteSet({l}) /\ Cardinality({l}) = 1 /\ Cardinality(E) \in Nat
    BY FS_Subset, FS_Singleton, FS_CardinalityType, SessionsAssumption DEF SessionsAssumption
<1>2. Cardinality({l} \X E) = Cardinality(E)
    BY <1>1, FS_Product
<1>3. {l} \X E \in SUBSET Holders
    BY DEF Holders
<1> QED  BY <1>2, <1>3, SomeLess

\* Client d of listener k holds a slot.
Holds(k, d) ==
    \/ sessions[k][d] # NoSession
    \/ recvLoop[k].pc = "opening" /\ recvLoop[k].client = {d}

\* The holders after a step in which only the clients in E lose their hold.
LEMMA HoldersAfter ==
    ASSUME NEW l \in Listener, NEW E \in SUBSET Client,
           \A k \in Listener, d \in Client :
               Holds(k, d)' <=> Holds(k, d) /\ ~(k = l /\ d \in E)
    PROVE  Holders' = Holders \ ({l} \X E)
BY DEF Holders, Holds

\* A step in which no client loses or gets a hold.
LEMMA HoldersSame ==
    ASSUME \A k \in Listener, d \in Client : Holds(k, d)' <=> Holds(k, d)
    PROVE  Holders' = Holders
BY DEF Holders, Holds

\* A step in which one client gets a hold.
LEMMA HoldersMore ==
    ASSUME NEW l \in Listener, NEW c \in Client,
           \A k \in Listener, d \in Client :
               Holds(k, d)' <=> Holds(k, d) \/ (k = l /\ d = c)
    PROVE  Holders' = Holders \cup {<<l, c>>}
BY DEF Holders, Holds

\* A step that changes neither keeps the count.
LEMMA Same ==
    ASSUME UdpTypeOK, SlotsCounted, open' = open, Holders' = Holders
    PROVE  open' \in 0 .. MaxSessions /\ SlotsCounted'
BY DEF UdpTypeOK, SlotsCounted

-----------------------------------------------------------------------------
(* The invariant.                                                           *)

\* The initial states satisfy it.
LEMMA InitInv == UdpInit => IInv
<1> SUFFICES ASSUME UdpInit PROVE IInv
    OBVIOUS
<1>1. UdpTypeOK
    BY SessionsAssumption
    DEF SessionsAssumption, UdpInit, UdpTypeOK, NoSession, Idle, AtMostOne
<1>2. SlotsCounted
    <2>1. Holders = {}
        BY DEF UdpInit, Holders, Idle
    <2> QED  BY <2>1, FS_EmptySet DEF UdpInit, SlotsCounted
<1>3. Checked /\ InHand /\ Judged
    BY DEF UdpInit, Checked, InHand, Judged, Idle
<1> QED  BY <1>1, <1>2, <1>3 DEF IInv

\* A swap changes the table alone, and for an address no listener remembers.
LEMMA SwapInv == ASSUME IInv, Swap PROVE IInv'
<1> USE DEF IInv
<1>1. PICK at \in Free, routed \in [Listener -> SUBSET Backend] :
        table' = [at |-> at, routed |-> routed]
    BY DEF Swap
<1>2. /\ table' \in [at : Address, routed : [Listener -> SUBSET Backend]]
      /\ \A l \in Listener : seen[l] # table'.at
    BY <1>1 DEF Free
<1>3. udpLeft' \in [datagrams : 0 .. MaxDatagrams, swaps : 0 .. MaxTableSwaps]
    BY SessionsAssumption DEF SessionsAssumption, UdpTypeOK, Swap, SpendUdp
<1>4. UdpTypeOK'
    BY <1>2, <1>3 DEF UdpTypeOK, Swap
<1>5. SlotsCounted'
    BY Same DEF Swap, Holders
<1>6. Checked' /\ InHand' /\ Judged'
    BY <1>2 DEF Checked, InHand, Judged, Swap
<1> QED  BY <1>4, <1>5, <1>6

\* A datagram received leaves the sessions checked: those of the generation
\* before must be looked up again if the table is another.
LEMMA ReceivedFacts ==
    ASSUME IInv, NEW l \in Listener, Received(l), UNCHANGED table
    PROVE  /\ recvLoop[l].pc = "idle"
           /\ udpLeft' \in [datagrams : 0 .. MaxDatagrams, swaps : 0 .. MaxTableSwaps]
           /\ seen' \in [Listener -> Address \cup {Nowhere}]
           /\ generation' \in [Listener -> Nat]
           /\ seen'[l] = table.at /\ generation'[l] = Generation(l)
           /\ \A k \in Listener : k # l => seen'[k] = seen[k] /\ generation'[k] = generation[k]
           /\ \A c \in Client : sessions[l][c] # NoSession =>
                /\ sessions[l][c].generation <= generation'[l]
                /\ sessions[l][c].generation = generation'[l] =>
                      sessions[l][c].backend \subseteq table.routed[l]
<1> USE DEF IInv
<1>1. udpLeft' \in [datagrams : 0 .. MaxDatagrams, swaps : 0 .. MaxTableSwaps]
    BY SessionsAssumption DEF SessionsAssumption, UdpTypeOK, Received, SpendUdp
<1>2. Generation(l) \in Nat
    BY DEF Generation, UdpTypeOK
<1>3. /\ seen' \in [Listener -> Address \cup {Nowhere}]
      /\ generation' \in [Listener -> Nat]
      /\ seen'[l] = table.at /\ generation'[l] = Generation(l)
      /\ \A k \in Listener : k # l => seen'[k] = seen[k] /\ generation'[k] = generation[k]
    BY <1>2 DEF UdpTypeOK, Received
<1>4. ASSUME NEW c \in Client, sessions[l][c] # NoSession
      PROVE  /\ sessions[l][c].generation <= generation'[l]
             /\ sessions[l][c].generation = generation'[l] =>
                   sessions[l][c].backend \subseteq table.routed[l]
    <2>1. sessions[l][c].generation \in Nat /\ generation[l] \in Nat
        BY DEF UdpTypeOK
    <2> QED  BY <1>3, <1>4, <2>1 DEF Checked, Generation
<1> QED  BY <1>1, <1>3, <1>4 DEF Received

\* The type of a session.
Session == [st : {"none", "alive", "dead"}, backend : AtMostOne(Backend),
            generation : Nat, idle : BOOLEAN]

\* What the other loops await is as it was.
LEMMA InHandAfter ==
    ASSUME InHand, NEW l \in Listener,
           \A k \in Listener : k # l =>
               recvLoop'[k] = recvLoop[k] /\ \A d \in Client : sessions'[k][d] = sessions[k][d],
           recvLoop'[l].pc \in {"sending", "opening"} =>
               \E c \in Client, b \in recvLoop'[l].routed :
                   /\ recvLoop'[l].client = {c} /\ recvLoop'[l].backend = {b}
                   /\ recvLoop'[l].pc = "sending" <=> sessions'[l][c] # NoSession
    PROVE  InHand'
<1> SUFFICES ASSUME NEW k \in Listener, recvLoop'[k].pc \in {"sending", "opening"}
             PROVE  \E d \in Client, e \in recvLoop'[k].routed :
                /\ recvLoop'[k].client = {d} /\ recvLoop'[k].backend = {e}
                /\ recvLoop'[k].pc = "sending" <=> sessions'[k][d] # NoSession
    BY Zenon DEF InHand, NoSession
<1>1. CASE k = l
    BY <1>1
<1>2. CASE k # l
    <2>1. recvLoop'[k] = recvLoop[k] /\ \A d \in Client : sessions'[k][d] = sessions[k][d]
        BY <1>2
    <2>2. PICK d \in Client, e \in recvLoop[k].routed :
            /\ recvLoop[k].client = {d} /\ recvLoop[k].backend = {e}
            /\ recvLoop[k].pc = "sending" <=> sessions[k][d] # NoSession
        BY <2>1 DEF InHand
    <2> WITNESS d \in Client
    <2> QED  BY <2>1, <2>2
<1> QED  BY <1>1, <1>2

\* A datagram of a session that carries on.
LEMMA ForwardInv ==
    ASSUME IInv, NEW l \in Listener, NEW c \in Client, Forward(l, c) PROVE IInv'
<1> USE DEF IInv
<1>0. Received(l) /\ UNCHANGED table /\ UNCHANGED open /\ Reusable(l, c)
    BY DEF Forward
<1>1. PICK b \in sessions[l][c].backend : Goes(l, "sending", c, b)
    BY DEF Forward
<1>2. sessions[l][c] \in Session /\ sessions[l][c] # NoSession /\ sessions[l][c].backend = {b}
    <2>1. sessions[l][c] \in Session
        BY DEF UdpTypeOK, Session
    <2>2. sessions[l][c].backend = {b}
        BY <1>1, <2>1 DEF Session, AtMostOne
    <2>3. sessions[l][c] # NoSession
        BY <1>0 DEF Reusable, NoSession
    <2> QED  BY <2>1, <2>2, <2>3
<1>3. b \in Backend /\ b \in table.routed[l] /\ table.routed[l] \in SUBSET Backend
    <2>1. sessions[l][c].backend \subseteq table.routed[l]
        BY <1>0, <1>2, ReceivedFacts DEF Reusable
    <2> QED  BY <1>2, <2>1 DEF UdpTypeOK
<1>4. /\ sessions'[l][c] \in Session
      /\ sessions'[l][c] # NoSession
      /\ sessions'[l][c].generation = generation'[l]
      /\ sessions'[l][c].backend = {b}
      /\ \A k \in Listener, d \in Client :
            k # l \/ d # c => sessions'[k][d] = sessions[k][d]
      /\ sessions' \in [Listener -> [Client -> Session]]
    <2>1. Generation(l) \in Nat /\ generation'[l] = Generation(l)
        BY <1>0, ReceivedFacts
    <2>2. sessions \in [Listener -> [Client -> Session]]
        BY DEF UdpTypeOK, Session
    <2>3. sessions' = [sessions EXCEPT ![l][c] =
                [@ EXCEPT !.generation = Generation(l), !.idle = FALSE]]
        BY <2>2, <1>2 DEF Forward, Session
    <2>4. [sessions[l][c] EXCEPT !.generation = Generation(l), !.idle = FALSE] \in Session
        BY <1>2, <2>1 DEF Session
    <2>5. sessions[l][c].st = "alive"
        BY <1>0 DEF Reusable
    <2> QED  BY <1>2, <2>1, <2>2, <2>3, <2>4, <2>5 DEF Session, NoSession
<1>5. /\ recvLoop'[l] = [pc |-> "sending", client |-> {c}, backend |-> {b}, routed |-> table.routed[l]]
      /\ \A k \in Listener : k # l => recvLoop'[k] = recvLoop[k]
      /\ recvLoop' \in [Listener ->
            [pc : {"idle", "sending", "opening", "ended"}, client : AtMostOne(Client),
             backend : AtMostOne(Backend), routed : SUBSET Backend]]
    BY <1>1, <1>3 DEF Goes, UdpTypeOK, AtMostOne
<1>6. UdpTypeOK'
    BY <1>0, <1>4, <1>5, ReceivedFacts DEF UdpTypeOK, Session
<1>7. SlotsCounted'
    <2>1. recvLoop[l].pc = "idle"
        BY <1>0, ReceivedFacts
    <2>2. \A k \in Listener, d \in Client : Holds(k, d)' <=> Holds(k, d)
        BY <1>2, <1>4, <1>5, <2>1 DEF Holds
    <2>3. Holders' = Holders
        BY <2>2, HoldersSame
    <2> QED  BY <1>0, <2>3, Same
<1>8. Checked'
    BY <1>0, <1>3, <1>4, ReceivedFacts DEF Checked
<1>9. InHand'
    <2>1. \A k \in Listener : k # l =>
            recvLoop'[k] = recvLoop[k] /\ \A d \in Client : sessions'[k][d] = sessions[k][d]
        BY <1>4, <1>5
    <2>2. /\ recvLoop'[l].client = {c} /\ recvLoop'[l].backend = {b} /\ b \in recvLoop'[l].routed
          /\ recvLoop'[l].pc = "sending" /\ sessions'[l][c] # NoSession
        BY <1>3, <1>4, <1>5
    <2> QED  BY <2>1, <2>2, InHandAfter
<1>10. Judged'
    BY <1>0, <1>5, ReceivedFacts DEF Judged
<1> QED  BY <1>6, <1>7, <1>8, <1>9, <1>10

\* A datagram dropped for want of a slot.
LEMMA OverflowInv ==
    ASSUME IInv, NEW l \in Listener, NEW c \in Client, Overflow(l, c) PROVE IInv'
<1> USE DEF IInv
<1>1. Received(l) /\ UNCHANGED <<table, open, sessions, recvLoop>>
    BY DEF Overflow
<1>2. UdpTypeOK'
    BY <1>1, ReceivedFacts DEF UdpTypeOK
<1>3. SlotsCounted'
    BY <1>1, Same DEF Holders
<1>4. Checked'
    BY <1>1, ReceivedFacts DEF Checked
<1>5. InHand'
    BY <1>1 DEF InHand
<1>6. Judged'
    BY <1>1, ReceivedFacts DEF Judged
<1> QED  BY <1>2, <1>3, <1>4, <1>5, <1>6

\* The sessions after one of them is taken out.
LEMMA TakenOut ==
    ASSUME UdpTypeOK, NEW l \in Listener, NEW c \in Client,
           sessions' = [sessions EXCEPT ![l][c] = NoSession]
    PROVE  /\ sessions' \in [Listener -> [Client -> Session]]
           /\ sessions'[l][c] = NoSession
           /\ \A k \in Listener, d \in Client :
                k # l \/ d # c => sessions'[k][d] = sessions[k][d]
BY DEF UdpTypeOK, Session, NoSession, AtMostOne

\* A datagram that opens a session.
LEMMA SelectInv ==
    ASSUME IInv, NEW l \in Listener, NEW c \in Client, Select(l, c) PROVE IInv'
<1> USE DEF IInv
<1>0. Received(l) /\ UNCHANGED table /\ sessions' = [sessions EXCEPT ![l][c] = NoSession]
    BY DEF Select
<1>1. PICK b \in table.routed[l] : Goes(l, "opening", c, b)
    BY DEF Select
<1>2. b \in Backend /\ table.routed[l] \in SUBSET Backend
    BY DEF UdpTypeOK
<1>3. /\ sessions' \in [Listener -> [Client -> Session]]
      /\ sessions'[l][c] = NoSession
      /\ \A k \in Listener, d \in Client :
            k # l \/ d # c => sessions'[k][d] = sessions[k][d]
    BY <1>0, TakenOut
<1>4. /\ recvLoop'[l] = [pc |-> "opening", client |-> {c}, backend |-> {b}, routed |-> table.routed[l]]
      /\ \A k \in Listener : k # l => recvLoop'[k] = recvLoop[k]
      /\ recvLoop' \in [Listener ->
            [pc : {"idle", "sending", "opening", "ended"}, client : AtMostOne(Client),
             backend : AtMostOne(Backend), routed : SUBSET Backend]]
    BY <1>1, <1>2 DEF Goes, UdpTypeOK, AtMostOne
<1>5. open' \in 0 .. MaxSessions /\ SlotsCounted'
    <2>1. recvLoop[l].pc = "idle"
        BY <1>0, ReceivedFacts
    <2>2. \A k \in Listener, d \in Client : Holds(k, d)' <=> Holds(k, d) \/ (k = l /\ d = c)
        <3> SUFFICES ASSUME NEW k \in Listener, NEW d \in Client
                     PROVE  Holds(k, d)' <=> Holds(k, d) \/ (k = l /\ d = c)
            OBVIOUS
        <3>1. CASE k # l
            BY <3>1, <1>3, <1>4 DEF Holds
        <3>2. CASE k = l /\ d = c
            BY <3>2, <1>4 DEF Holds
        <3>3. CASE k = l /\ d # c
            <4>1. sessions'[l][d] = sessions[l][d]
                BY <3>3, <1>3
            <4>2. recvLoop'[l].client = {c} /\ {c} # {d}
                BY <3>3, <1>4
            <4> QED  BY <3>3, <4>1, <4>2, <2>1 DEF Holds
        <3> QED  BY <3>1, <3>2, <3>3
    <2>3. Holders' = Holders \cup {<<l, c>>}
        BY <2>2, HoldersMore
    <2>4. CASE Moves(l, c) /\ UNCHANGED open
        <3>1. <<l, c>> \in Holders
            BY <2>4 DEF Moves, Holders
        <3>2. Holders' = Holders
            BY <2>3, <3>1
        <3> QED  BY <2>4, <3>2, Same
    <2>5. CASE Starts(l, c) /\ open' = open + 1
        <3>1. <<l, c>> \notin Holders
            BY <2>5, <2>1 DEF Starts, Holders
        <3> QED  BY <2>3, <2>5, <3>1, OneMore DEF Starts
    <2> QED  BY <2>4, <2>5 DEF Select
<1>6. UdpTypeOK'
    BY <1>0, <1>3, <1>4, <1>5, ReceivedFacts DEF UdpTypeOK, Session
<1>7. Checked'
    BY <1>0, <1>3, ReceivedFacts DEF Checked
<1>8. InHand'
    <2>1. \A k \in Listener : k # l =>
            recvLoop'[k] = recvLoop[k] /\ \A d \in Client : sessions'[k][d] = sessions[k][d]
        BY <1>3, <1>4
    <2>2. /\ recvLoop'[l].client = {c} /\ recvLoop'[l].backend = {b} /\ b \in recvLoop'[l].routed
          /\ recvLoop'[l].pc # "sending" /\ sessions'[l][c] = NoSession
        BY <1>3, <1>4
    <2> QED  BY <2>1, <2>2, InHandAfter
<1>9. Judged'
    BY <1>0, <1>4, ReceivedFacts DEF Judged
<1> QED  BY <1>5, <1>6, <1>7, <1>8, <1>9

\* A datagram no backend takes: the slot it moved with goes.
LEMMA UnroutableInv ==
    ASSUME IInv, NEW l \in Listener, NEW c \in Client, Unroutable(l, c) PROVE IInv'
<1> USE DEF IInv
<1>0. /\ Received(l) /\ UNCHANGED table /\ UNCHANGED recvLoop
      /\ sessions' = [sessions EXCEPT ![l][c] = NoSession]
    BY DEF Unroutable
<1>1. /\ sessions' \in [Listener -> [Client -> Session]]
      /\ sessions'[l][c] = NoSession
      /\ \A k \in Listener, d \in Client :
            k # l \/ d # c => sessions'[k][d] = sessions[k][d]
    BY <1>0, TakenOut
<1>2. recvLoop[l].pc = "idle"
    BY <1>0, ReceivedFacts
<1>3. open' \in 0 .. MaxSessions /\ SlotsCounted'
    <2>1. CASE Moves(l, c) /\ open' = open - 1
        <3>1. \A k \in Listener, d \in Client :
                Holds(k, d)' <=> Holds(k, d) /\ ~(k = l /\ d \in {c})
            BY <1>0, <1>1, <1>2 DEF Holds
        <3>2. Holders' = Holders \ ({l} \X {c})
            <4>1. {c} \in SUBSET Client
                OBVIOUS
            <4> QED  BY <3>1, <4>1, HoldersAfter
        <3>3. <<l, c>> \in Holders /\ Holders' = Holders \ {<<l, c>>}
            BY <2>1, <3>2 DEF Moves, Holders
        <3> QED  BY <2>1, <3>3, OneLess
    <2>2. CASE Starts(l, c) /\ UNCHANGED open
        <3>1. \A k \in Listener, d \in Client : Holds(k, d)' <=> Holds(k, d)
            BY <1>0, <1>1, <2>2 DEF Holds, Starts
        <3> QED  BY <2>2, <3>1, HoldersSame, Same
    <2> QED  BY <2>1, <2>2 DEF Unroutable
<1>4. UdpTypeOK'
    BY <1>0, <1>1, <1>3, ReceivedFacts DEF UdpTypeOK, Session
<1>5. Checked'
    BY <1>0, <1>1, ReceivedFacts DEF Checked
<1>6. InHand'
    <2>1. \A k \in Listener : k # l =>
            recvLoop'[k] = recvLoop[k] /\ \A d \in Client : sessions'[k][d] = sessions[k][d]
        BY <1>0, <1>1
    <2> QED  BY <1>0, <1>2, <2>1, InHandAfter
<1>7. Judged'
    BY <1>0, <1>2, ReceivedFacts DEF Judged
<1> QED  BY <1>3, <1>4, <1>5, <1>6, <1>7

\* A loop that goes on with its next datagram.
LEMMA GoesOn ==
    ASSUME UdpTypeOK, NEW l \in Listener, recvLoop' = [recvLoop EXCEPT ![l] = Idle]
    PROVE  /\ recvLoop'[l].pc = "idle"
           /\ \A k \in Listener : k # l => recvLoop'[k] = recvLoop[k]
           /\ recvLoop' \in [Listener ->
                 [pc : {"idle", "sending", "opening", "ended"}, client : AtMostOne(Client),
                  backend : AtMostOne(Backend), routed : SUBSET Backend]]
BY DEF UdpTypeOK, Idle, AtMostOne

\* A send that ended.
LEMMA SentInv == ASSUME IInv, NEW l \in Listener, Sent(l) PROVE IInv'
<1> USE DEF IInv
<1>1. /\ recvLoop'[l].pc = "idle"
      /\ \A k \in Listener : k # l => recvLoop'[k] = recvLoop[k]
      /\ recvLoop' \in [Listener ->
            [pc : {"idle", "sending", "opening", "ended"}, client : AtMostOne(Client),
             backend : AtMostOne(Backend), routed : SUBSET Backend]]
    BY GoesOn DEF Sent
<1>2. recvLoop[l].pc = "sending" /\ UNCHANGED <<table, open, sessions, seen, generation, udpLeft>>
    BY DEF Sent
<1>3. SlotsCounted'
    <2>1. \A k \in Listener, d \in Client : Holds(k, d)' <=> Holds(k, d)
        BY <1>1, <1>2 DEF Holds
    <2> QED  BY <1>2, <2>1, HoldersSame, Same
<1>4. UdpTypeOK'
    BY <1>1, <1>2 DEF UdpTypeOK
<1>5. Checked' /\ Judged'
    BY <1>1, <1>2 DEF Checked, Judged
<1>6. InHand'
    BY <1>1, <1>2, InHandAfter
<1> QED  BY <1>3, <1>4, <1>5, <1>6

\* A send that failed.
LEMMA SendFailsInv == ASSUME IInv, NEW l \in Listener, SendFails(l) PROVE IInv'
<1> USE DEF IInv
<1>0. PICK c \in Client : recvLoop[l].client = {c} /\ sessions[l][c] # NoSession
    BY DEF SendFails, InHand
<1>1. /\ recvLoop'[l].pc = "idle"
      /\ \A k \in Listener : k # l => recvLoop'[k] = recvLoop[k]
      /\ recvLoop' \in [Listener ->
            [pc : {"idle", "sending", "opening", "ended"}, client : AtMostOne(Client),
             backend : AtMostOne(Backend), routed : SUBSET Backend]]
    BY GoesOn DEF SendFails
<1>2. /\ recvLoop[l].pc = "sending" /\ open' = open - 1
      /\ sessions' = [sessions EXCEPT ![l][c] = NoSession]
      /\ UNCHANGED <<table, seen, generation, udpLeft>>
    BY <1>0 DEF SendFails
<1>3. /\ sessions' \in [Listener -> [Client -> Session]]
      /\ sessions'[l][c] = NoSession
      /\ \A k \in Listener, d \in Client :
            k # l \/ d # c => sessions'[k][d] = sessions[k][d]
    BY <1>2, TakenOut
<1>4. open' \in 0 .. MaxSessions /\ SlotsCounted'
    <2>1. \A k \in Listener, d \in Client :
            Holds(k, d)' <=> Holds(k, d) /\ ~(k = l /\ d \in {c})
        BY <1>1, <1>2, <1>3 DEF Holds
    <2>2. {c} \in SUBSET Client
        OBVIOUS
    <2>3. Holders' = Holders \ ({l} \X {c})
        BY <2>1, <2>2, HoldersAfter
    <2>4. <<l, c>> \in Holders /\ Holders' = Holders \ {<<l, c>>}
        BY <1>0, <2>3 DEF Holders
    <2> QED  BY <1>2, <2>4, OneLess
<1>5. UdpTypeOK'
    BY <1>1, <1>2, <1>3, <1>4 DEF UdpTypeOK, Session
<1>6. Checked' /\ Judged'
    BY <1>1, <1>2, <1>3 DEF Checked, Judged
<1>7. InHand'
    BY <1>1, <1>3, InHandAfter
<1> QED  BY <1>4, <1>5, <1>6, <1>7

\* A session opened: the listener remembers the table it was judged by.
LEMMA OpenSucceedsInv == ASSUME IInv, NEW l \in Listener, OpenSucceeds(l) PROVE IInv'
<1> USE DEF IInv
<1>0. PICK c \in Client, b \in recvLoop[l].routed :
        /\ recvLoop[l].client = {c} /\ recvLoop[l].backend = {b}
        /\ sessions[l][c] = NoSession
    BY DEF OpenSucceeds, InHand
<1>1. /\ recvLoop'[l].pc = "idle"
      /\ \A k \in Listener : k # l => recvLoop'[k] = recvLoop[k]
      /\ recvLoop' \in [Listener ->
            [pc : {"idle", "sending", "opening", "ended"}, client : AtMostOne(Client),
             backend : AtMostOne(Backend), routed : SUBSET Backend]]
    BY GoesOn DEF OpenSucceeds
<1>2. /\ recvLoop[l].pc = "opening"
      /\ sessions' = [sessions EXCEPT ![l][c] = Opened(b, generation[l])]
      /\ UNCHANGED <<table, open, seen, generation, udpLeft>>
    BY <1>0 DEF OpenSucceeds
<1>3. Opened(b, generation[l]) \in Session /\ Opened(b, generation[l]) # NoSession
    <2>1. b \in Backend /\ generation[l] \in Nat
        BY <1>0 DEF UdpTypeOK
    <2> QED  BY <2>1 DEF Opened, Session, NoSession, AtMostOne
<1>4. /\ sessions' \in [Listener -> [Client -> Session]]
      /\ sessions'[l][c] = Opened(b, generation[l])
      /\ \A k \in Listener, d \in Client :
            k # l \/ d # c => sessions'[k][d] = sessions[k][d]
    BY <1>2, <1>3 DEF UdpTypeOK, Session
<1>5. SlotsCounted'
    <2>1. \A k \in Listener, d \in Client : Holds(k, d)' <=> Holds(k, d)
        <3> SUFFICES ASSUME NEW k \in Listener, NEW d \in Client
                     PROVE  Holds(k, d)' <=> Holds(k, d)
            OBVIOUS
        <3>1. CASE k # l
            BY <3>1, <1>1, <1>4 DEF Holds
        <3>2. CASE k = l /\ d = c
            BY <3>2, <1>0, <1>2, <1>3, <1>4 DEF Holds
        <3>3. CASE k = l /\ d # c
            <4>1. {c} # {d} /\ sessions'[l][d] = sessions[l][d]
                BY <3>3, <1>4
            <4> QED  BY <3>3, <4>1, <1>0, <1>1 DEF Holds
        <3> QED  BY <3>1, <3>2, <3>3
    <2> QED  BY <1>2, <2>1, HoldersSame, Same
<1>6. UdpTypeOK'
    BY <1>1, <1>2, <1>4 DEF UdpTypeOK, Session
<1>7. Checked'
    <2>1. generation[l] \in Nat
        BY DEF UdpTypeOK
    <2>2. seen[l] = table.at => {b} \subseteq table.routed[l]
        BY <1>0, <1>2 DEF Judged
    <2>3. /\ sessions'[l][c].generation = generation[l]
          /\ sessions'[l][c].backend = {b}
        BY <1>4 DEF Opened
    <2> QED  BY <1>2, <1>4, <2>1, <2>2, <2>3 DEF Checked
<1>8. Judged'
    BY <1>1, <1>2 DEF Judged
<1>9. InHand'
    BY <1>1, <1>4, InHandAfter
<1> QED  BY <1>5, <1>6, <1>7, <1>8, <1>9

\* A session that could not be opened.
LEMMA OpenFailsInv == ASSUME IInv, NEW l \in Listener, OpenFails(l) PROVE IInv'
<1> USE DEF IInv
<1>0. PICK c \in Client : recvLoop[l].client = {c} /\ sessions[l][c] = NoSession
    BY DEF OpenFails, InHand
<1>1. /\ recvLoop'[l].pc = "idle"
      /\ \A k \in Listener : k # l => recvLoop'[k] = recvLoop[k]
      /\ recvLoop' \in [Listener ->
            [pc : {"idle", "sending", "opening", "ended"}, client : AtMostOne(Client),
             backend : AtMostOne(Backend), routed : SUBSET Backend]]
    BY GoesOn DEF OpenFails
<1>2. /\ recvLoop[l].pc = "opening" /\ open' = open - 1
      /\ UNCHANGED <<table, sessions, seen, generation, udpLeft>>
    BY DEF OpenFails
<1>3. open' \in 0 .. MaxSessions /\ SlotsCounted'
    <2>1. \A k \in Listener, d \in Client :
            Holds(k, d)' <=> Holds(k, d) /\ ~(k = l /\ d \in {c})
        <3> SUFFICES ASSUME NEW k \in Listener, NEW d \in Client
                     PROVE  Holds(k, d)' <=> Holds(k, d) /\ ~(k = l /\ d \in {c})
            OBVIOUS
        <3>1. CASE k # l
            BY <3>1, <1>1, <1>2 DEF Holds
        <3>2. CASE k = l /\ d = c
            BY <3>2, <1>0, <1>1, <1>2 DEF Holds
        <3>3. CASE k = l /\ d # c
            <4>1. {c} # {d}
                BY <3>3
            <4> QED  BY <3>3, <4>1, <1>0, <1>1, <1>2 DEF Holds
        <3> QED  BY <3>1, <3>2, <3>3
    <2>2. {c} \in SUBSET Client
        OBVIOUS
    <2>3. Holders' = Holders \ ({l} \X {c})
        BY <2>1, <2>2, HoldersAfter
    <2>4. <<l, c>> \in Holders /\ Holders' = Holders \ {<<l, c>>}
        BY <1>0, <1>2, <2>3 DEF Holders
    <2> QED  BY <1>2, <2>4, OneLess
<1>4. UdpTypeOK'
    BY <1>1, <1>2, <1>3 DEF UdpTypeOK
<1>5. Checked' /\ Judged'
    BY <1>1, <1>2 DEF Checked, Judged
<1>6. InHand'
    BY <1>1, <1>2, InHandAfter
<1> QED  BY <1>3, <1>4, <1>5, <1>6

\* The sessions after those of some clients of one listener are dropped.
LEMMA DroppedOut ==
    ASSUME UdpTypeOK, NEW l \in Listener, NEW E \in SUBSET Client,
           sessions' = [sessions EXCEPT ![l] =
               [c \in Client |-> IF c \in E THEN NoSession ELSE @[c]]]
    PROVE  /\ sessions' \in [Listener -> [Client -> Session]]
           /\ \A c \in E : sessions'[l][c] = NoSession
           /\ \A k \in Listener, d \in Client :
                k # l \/ d \notin E => sessions'[k][d] = sessions[k][d]
<1>1. NoSession \in Session /\ sessions \in [Listener -> [Client -> Session]]
    BY DEF UdpTypeOK, Session, NoSession, AtMostOne
<1> QED  BY <1>1

\* A reap drops what died or idled.
LEMMA ReapInv == ASSUME IInv, NEW l \in Listener, Reap(l) PROVE IInv'
<1> USE DEF IInv
<1> DEFINE E == Expired(l)
<1>0. E \in SUBSET Client /\ \A c \in E : sessions[l][c] # NoSession
    BY DEF Expired, NoSession
<1>1. /\ recvLoop[l].pc = "idle" /\ open' = open - Cardinality(E)
      /\ UNCHANGED <<table, seen, generation, recvLoop, udpLeft>>
    BY DEF Reap
<1>2. /\ sessions' \in [Listener -> [Client -> Session]]
      /\ \A c \in E : sessions'[l][c] = NoSession
      /\ \A k \in Listener, d \in Client :
            k # l \/ d \notin E => sessions'[k][d] = sessions[k][d]
    BY <1>0, DroppedOut DEF Reap
<1> HIDE DEF E
<1>3. open' \in 0 .. MaxSessions /\ SlotsCounted'
    <2>1. \A k \in Listener, d \in Client :
            Holds(k, d)' <=> Holds(k, d) /\ ~(k = l /\ d \in E)
        BY <1>1, <1>2 DEF Holds
    <2>2. Holders' = Holders \ ({l} \X E)
        BY <1>0, <2>1, HoldersAfter
    <2> QED  BY <1>0, <1>1, <2>2, ClientsLess
<1>4. UdpTypeOK'
    BY <1>1, <1>2, <1>3 DEF UdpTypeOK, Session
<1>5. Checked' /\ Judged'
    <2>1. \A k \in Listener, d \in Client : sessions'[k][d] # NoSession =>
            sessions'[k][d] = sessions[k][d]
        BY <1>2
    <2> QED  BY <1>1, <2>1 DEF Checked, Judged
<1>6. InHand'
    <2>1. \A k \in Listener : k # l =>
            recvLoop'[k] = recvLoop[k] /\ \A d \in Client : sessions'[k][d] = sessions[k][d]
        BY <1>1, <1>2
    <2> QED  BY <1>1, <2>1, InHandAfter
<1> QED  BY <1>3, <1>4, <1>5, <1>6

\* A closed listener drops its sessions and forgets its table.
LEMMA CloseInv == ASSUME IInv, NEW l \in Listener, Close(l) PROVE IInv'
<1> USE DEF IInv
<1> DEFINE E == HeldBy(l)
<1>0. E \in SUBSET Client /\ \A c \in E : sessions[l][c] # NoSession
    BY DEF HeldBy
<1>1. /\ recvLoop[l].pc = "idle" /\ open' = open - Cardinality(E)
      /\ UNCHANGED <<table, generation, udpLeft>>
      /\ seen' = [seen EXCEPT ![l] = Nowhere]
    BY DEF Close
<1>2. /\ recvLoop'[l].pc = "ended"
      /\ \A k \in Listener : k # l => recvLoop'[k] = recvLoop[k]
      /\ recvLoop' \in [Listener ->
            [pc : {"idle", "sending", "opening", "ended"}, client : AtMostOne(Client),
             backend : AtMostOne(Backend), routed : SUBSET Backend]]
    BY DEF Close, UdpTypeOK, Idle, AtMostOne
<1>3. /\ sessions' \in [Listener -> [Client -> Session]]
      /\ \A c \in Client : sessions'[l][c] = NoSession
      /\ \A k \in Listener, d \in Client : k # l => sessions'[k][d] = sessions[k][d]
    <2>1. NoSession \in Session /\ sessions \in [Listener -> [Client -> Session]]
        BY DEF UdpTypeOK, Session, NoSession, AtMostOne
    <2> QED  BY <2>1 DEF Close
<1>4. \A k \in Listener, d \in Client :
        Holds(k, d)' <=> Holds(k, d) /\ ~(k = l /\ d \in E)
    BY <1>1, <1>2, <1>3 DEF Holds, HeldBy
<1> HIDE DEF E
<1>5. open' \in 0 .. MaxSessions /\ SlotsCounted'
    <2>1. Holders' = Holders \ ({l} \X E)
        BY <1>0, <1>4, HoldersAfter
    <2> QED  BY <1>0, <1>1, <2>1, ClientsLess
<1>6. UdpTypeOK'
    BY <1>1, <1>2, <1>3, <1>5 DEF UdpTypeOK, Session
<1>7. Checked' /\ Judged'
    <2>1. \A k \in Listener : k # l => seen'[k] = seen[k]
        BY <1>1 DEF UdpTypeOK
    <2>2. Checked'
        BY <1>1, <1>3, <2>1 DEF Checked
    <2>3. Judged'
        BY <1>1, <1>2, <2>1 DEF Judged
    <2> QED  BY <2>2, <2>3
<1>8. InHand'
    <2>1. \A k \in Listener : k # l =>
            recvLoop'[k] = recvLoop[k] /\ \A d \in Client : sessions'[k][d] = sessions[k][d]
        BY <1>2, <1>3
    <2> QED  BY <1>2, <2>1, InHandAfter
<1> QED  BY <1>5, <1>6, <1>7, <1>8

\* Replies, the end of a reply task and idling change a session that is
\* there, in nothing routing looks at.
LEMMA OtherHalfInv ==
    ASSUME IInv, NEW l \in Listener, NEW c \in Client,
           Relay(l, c) \/ RelayEnds(l, c) \/ GoesIdle(l, c)
    PROVE  IInv'
<1> USE DEF IInv
<1>1. UNCHANGED <<table, open, seen, generation, recvLoop, udpLeft>>
    BY DEF Relay, RelayEnds, GoesIdle
<1>2. sessions \in [Listener -> [Client -> Session]] /\ sessions[l][c] \in Session
    BY DEF UdpTypeOK, Session
<1>3. PICK s \in Session :
        /\ sessions' = [sessions EXCEPT ![l][c] = s]
        /\ s # NoSession /\ sessions[l][c] # NoSession
        /\ s.generation = sessions[l][c].generation /\ s.backend = sessions[l][c].backend
    <2>1. CASE Relay(l, c)
        <3> DEFINE s == [sessions[l][c] EXCEPT !.idle = FALSE]
        <3>1. s \in Session
            BY <1>2 DEF Session
        <3>2. sessions' = [sessions EXCEPT ![l][c] = s]
            BY <2>1, <1>2 DEF Relay, Session
        <3>3. s # NoSession /\ sessions[l][c] # NoSession
            BY <2>1, <1>2 DEF Relay, Session, NoSession
        <3>4. s.generation = sessions[l][c].generation /\ s.backend = sessions[l][c].backend
            BY <1>2 DEF Session
        <3> QED  BY <3>1, <3>2, <3>3, <3>4
    <2>2. CASE RelayEnds(l, c)
        <3> DEFINE s == [sessions[l][c] EXCEPT !.st = "dead"]
        <3>1. s \in Session
            BY <1>2 DEF Session
        <3>2. sessions' = [sessions EXCEPT ![l][c] = s]
            BY <2>2, <1>2 DEF RelayEnds, Session
        <3>3. s # NoSession /\ sessions[l][c] # NoSession
            BY <2>2, <1>2 DEF RelayEnds, Session, NoSession
        <3>4. s.generation = sessions[l][c].generation /\ s.backend = sessions[l][c].backend
            BY <1>2 DEF Session
        <3> QED  BY <3>1, <3>2, <3>3, <3>4
    <2>3. CASE GoesIdle(l, c)
        <3> DEFINE s == [sessions[l][c] EXCEPT !.idle = TRUE]
        <3>1. s \in Session
            BY <1>2 DEF Session
        <3>2. sessions' = [sessions EXCEPT ![l][c] = s]
            BY <2>3, <1>2 DEF GoesIdle, Session
        <3>3. s # NoSession /\ sessions[l][c] # NoSession
            BY <2>3, <1>2 DEF GoesIdle, Session, NoSession
        <3>4. s.generation = sessions[l][c].generation /\ s.backend = sessions[l][c].backend
            BY <1>2 DEF Session
        <3> QED  BY <3>1, <3>2, <3>3, <3>4
    <2> QED  BY <2>1, <2>2, <2>3
<1>4. /\ sessions' \in [Listener -> [Client -> Session]]
      /\ \A k \in Listener, d \in Client :
            /\ sessions'[k][d] = NoSession <=> sessions[k][d] = NoSession
            /\ sessions'[k][d].generation = sessions[k][d].generation
            /\ sessions'[k][d].backend = sessions[k][d].backend
    BY <1>2, <1>3
<1>5. SlotsCounted'
    <2>1. \A k \in Listener, d \in Client : Holds(k, d)' <=> Holds(k, d)
        BY <1>1, <1>4 DEF Holds
    <2> QED  BY <1>1, <2>1, HoldersSame, Same
<1>6. UdpTypeOK'
    BY <1>1, <1>4 DEF UdpTypeOK, Session
<1>7. Checked' /\ Judged'
    BY <1>1, <1>4 DEF Checked, Judged
<1>8. InHand'
    BY <1>1, <1>4 DEF InHand
<1> QED  BY <1>5, <1>6, <1>7, <1>8

\* Every step preserves the invariant.
LEMMA NextInv == IInv /\ [UdpNext]_udpVars => IInv'
<1> SUFFICES ASSUME IInv, [UdpNext]_udpVars PROVE IInv'
    OBVIOUS
<1>1. CASE UNCHANGED udpVars
    BY <1>1 DEF udpVars, IInv, UdpTypeOK, SlotsCounted, Holders, Checked, InHand, Judged
<1>2. CASE UdpNext
    BY <1>2, SwapInv, ForwardInv, OverflowInv, SelectInv, UnroutableInv, SentInv,
       SendFailsInv, OpenSucceedsInv, OpenFailsInv, ReapInv, CloseInv, OtherHalfInv
    DEF UdpNext, Awaiting
<1> QED  BY <1>1, <1>2

-----------------------------------------------------------------------------
(***************************************************************************)
(* The invariant holds in every state of the UDP sessions.                 *)
(***************************************************************************)
THEOREM Invariance == UdpSpec => []IInv
BY InitInv, NextInv, PTL DEF UdpSpec

(***************************************************************************)
(* The budget's counter never passes its maximum nor wraps below zero, and *)
(* every piece of state has its type.                                      *)
(***************************************************************************)
THEOREM TypeCorrect == UdpSpec => []UdpTypeOK
<1>1. IInv => UdpTypeOK
    BY DEF IInv
<1> QED  BY <1>1, Invariance, PTL

(***************************************************************************)
(* No slot of the session budget (SessionSlot) is leaked or given back     *)
(* twice, for any listeners, clients and cap.                              *)
(***************************************************************************)
THEOREM NoSlotLeaks == UdpSpec => []SlotsCounted
<1>1. IInv => SlotsCounted
    BY DEF IInv
<1> QED  BY <1>1, Invariance, PTL

(***************************************************************************)
(* No datagram follows a session to a backend that the table it was judged *)
(* by does not route the port to, however tables are freed and their       *)
(* addresses used again (Sessions::reusable, Sessions.seen).               *)
(***************************************************************************)
THEOREM NoStaleBackend == UdpSpec => []SentWhereRouted
<1>1. IInv => SentWhereRouted
    BY DEF IInv, InHand, SentWhereRouted
<1> QED  BY <1>1, Invariance, PTL
=============================================================================

---------------------------- MODULE UdpSessions ----------------------------
(***************************************************************************)
(* The UDP sessions of the data plane (proxy/udp_worker.rs): one recv loop *)
(* per listener socket, a session per client address with a socket and a   *)
(* reply task of its own, and the session budget all listeners share.      *)
(*                                                                         *)
(* A recv loop handles one datagram or one reap at a time and awaits only  *)
(* while it sends or opens; the other loops, the reply tasks and swaps of  *)
(* the route table go on meanwhile.  A table is told from another by the   *)
(* address of its allocation alone, as the loops tell it.                  *)
(***************************************************************************)
EXTENDS Naturals, FiniteSets

CONSTANTS
    Listener,       \* UDP listener sockets
    Client,         \* source addresses
    Backend,        \* backend addresses
    Address,        \* where a route table may be allocated
    Nowhere,        \* where none is
    MaxSessions,    \* SessionBudget.max
    MaxDatagrams, MaxTableSwaps

ASSUME SessionsAssumption ==
    /\ IsFiniteSet(Listener) /\ IsFiniteSet(Client)
    /\ Nowhere \notin Address
    /\ MaxSessions \in Nat \ {0} /\ MaxDatagrams \in Nat /\ MaxTableSwaps \in Nat

VARIABLES
    table,      \* the live route table: where it is, the backends of each port
    open,       \* SessionBudget.open
    sessions,   \* Sessions.map of each listener
    seen,       \* Sessions.seen: a weak reference, which pins the allocation
    generation, \* Sessions.generation
    recvLoop,     \* where each recv loop awaits
    udpLeft        \* datagrams and swaps left

udpVars == <<table, open, sessions, seen, generation, recvLoop, udpLeft>>

-----------------------------------------------------------------------------
NoSession == [st |-> "none", backend |-> {}, generation |-> 0, idle |-> FALSE]

\* A session whose reply task runs, its backend last found routed in generation g.
Opened(b, g) == [st |-> "alive", backend |-> {b}, generation |-> g, idle |-> FALSE]

\* backend: where the datagram goes; routed: the table's backends it was judged by.
Idle == [pc |-> "idle", client |-> {}, backend |-> {}, routed |-> {}]

AtMostOne(S) == {{}} \cup {{x} : x \in S}

UdpTypeOK ==
    /\ table \in [at : Address, routed : [Listener -> SUBSET Backend]]
    /\ open \in 0 .. MaxSessions
    /\ sessions \in [Listener -> [Client ->
          [st : {"none", "alive", "dead"}, backend : AtMostOne(Backend),
           generation : Nat, idle : BOOLEAN]]]
    /\ seen \in [Listener -> Address \cup {Nowhere}]
    /\ generation \in [Listener -> Nat]
    /\ recvLoop \in [Listener ->
          [pc : {"idle", "sending", "opening", "ended"}, client : AtMostOne(Client),
           backend : AtMostOne(Backend), routed : SUBSET Backend]]
    /\ udpLeft \in [datagrams : 0 .. MaxDatagrams, swaps : 0 .. MaxTableSwaps]

UdpInit ==
    /\ table \in [at : Address, routed : [Listener -> SUBSET Backend]]
    /\ open = 0
    /\ sessions = [l \in Listener |-> [c \in Client |-> NoSession]]
    /\ seen = [l \in Listener |-> Nowhere]
    /\ generation = [l \in Listener |-> 0]
    /\ recvLoop = [l \in Listener |-> Idle]
    /\ udpLeft = [datagrams |-> MaxDatagrams, swaps |-> MaxTableSwaps]

SpendUdp(what) == udpLeft[what] > 0 /\ udpLeft' = [udpLeft EXCEPT ![what] = @ - 1]

\* A variant whose loops keep a bare address, and pin nothing.
FreeUnpinned == Address \ {table.at}

\* Where a new table may be: a dropped one's address is free again unless a
\* weak reference pins it.
Free == Address \ ({table.at} \cup {seen[l] : l \in Listener})

\* An apply or a DNS refresh swaps the table.
Swap ==
    /\ SpendUdp("swaps")
    /\ \E at \in Free, routed \in [Listener -> SUBSET Backend] :
        table' = [at |-> at, routed |-> routed]
    /\ UNCHANGED <<open, sessions, seen, generation, recvLoop>>

-----------------------------------------------------------------------------
(* The recv loop of l.                                                      *)

\* The generation of the table the datagram is judged by.
Generation(l) == IF table.at = seen[l] THEN generation[l] ELSE generation[l] + 1

\* Sessions::reusable: the reply path is alive, and the backend routed, which
\* is looked up once per generation.
Reusable(l, c) ==
    /\ sessions[l][c].st = "alive"
    /\ \/ sessions[l][c].generation = Generation(l)
       \/ sessions[l][c].backend \subseteq table.routed[l]

\* Sessions::forward, a datagram of c: the table is loaded.
Received(l) ==
    /\ recvLoop[l].pc = "idle"
    /\ SpendUdp("datagrams")
    /\ seen' = [seen EXCEPT ![l] = table.at]
    /\ generation' = [generation EXCEPT ![l] = Generation(l)]

\* What the loop does with it next, and by which table.
Goes(l, pc, c, b) ==
    recvLoop' = [recvLoop EXCEPT ![l] =
        [pc |-> pc, client |-> {c}, backend |-> {b}, routed |-> table.routed[l]]]

\* The session carries on.
Forward(l, c) ==
    /\ Received(l)
    /\ Reusable(l, c)
    /\ sessions' = [sessions EXCEPT ![l][c].generation = Generation(l), ![l][c].idle = FALSE]
    /\ \E b \in sessions[l][c].backend : Goes(l, "sending", c, b)
    /\ UNCHANGED <<table, open>>

\* No session, and no slot for one: the datagram is dropped.
Overflow(l, c) ==
    /\ Received(l)
    /\ sessions[l][c] = NoSession
    /\ open >= MaxSessions
    /\ UNCHANGED <<table, open, sessions, recvLoop>>

\* A session that must move keeps its slot, a new one has one to take.
Moves(l, c) == sessions[l][c] # NoSession /\ ~Reusable(l, c)
Starts(l, c) == sessions[l][c] = NoSession /\ open < MaxSessions

\* A backend of the port is selected, and a session to it opened.
Select(l, c) ==
    /\ Received(l)
    /\ \/ Moves(l, c) /\ UNCHANGED open
       \/ Starts(l, c) /\ open' = open + 1
    /\ sessions' = [sessions EXCEPT ![l][c] = NoSession]
    /\ \E b \in table.routed[l] : Goes(l, "opening", c, b)
    /\ UNCHANGED table

\* The port has no backend, or an invalid one's share was picked: the
\* datagram is dropped, and its slot.
Unroutable(l, c) ==
    /\ Received(l)
    /\ \/ Moves(l, c) /\ open' = open - 1
       \/ Starts(l, c) /\ UNCHANGED open
    /\ sessions' = [sessions EXCEPT ![l][c] = NoSession]
    /\ UNCHANGED <<table, recvLoop>>

\* Sessions::send returned.
Sent(l) ==
    /\ recvLoop[l].pc = "sending"
    /\ recvLoop' = [recvLoop EXCEPT ![l] = Idle]
    /\ UNCHANGED <<table, open, sessions, seen, generation, udpLeft>>

\* It failed: the session goes.
SendFails(l) ==
    /\ recvLoop[l].pc = "sending"
    /\ \E c \in recvLoop[l].client : sessions' = [sessions EXCEPT ![l][c] = NoSession]
    /\ open' = open - 1
    /\ recvLoop' = [recvLoop EXCEPT ![l] = Idle]
    /\ UNCHANGED <<table, seen, generation, udpLeft>>

\* Sessions::open: the socket is connected, the datagram sent, the reply
\* task spawned.
OpenSucceeds(l) ==
    /\ recvLoop[l].pc = "opening"
    /\ \E c \in recvLoop[l].client, b \in recvLoop[l].backend :
        sessions' = [sessions EXCEPT ![l][c] = Opened(b, generation[l])]
    /\ recvLoop' = [recvLoop EXCEPT ![l] = Idle]
    /\ UNCHANGED <<table, open, seen, generation, udpLeft>>

\* A variant that forgets the slot of a session that failed to open.
OpenFailsLeaking(l) ==
    /\ recvLoop[l].pc = "opening"
    /\ recvLoop' = [recvLoop EXCEPT ![l] = Idle]
    /\ UNCHANGED <<table, open, sessions, seen, generation, udpLeft>>

OpenFails(l) ==
    /\ recvLoop[l].pc = "opening"
    /\ open' = open - 1
    /\ recvLoop' = [recvLoop EXCEPT ![l] = Idle]
    /\ UNCHANGED <<table, sessions, seen, generation, udpLeft>>

Expired(l) ==
    {c \in Client : sessions[l][c].st = "dead" \/ sessions[l][c].idle}

\* A variant that leaves the sessions whose reply path died to their client.
ReapIdleOnly(l) ==
    LET idle == {c \in Client : sessions[l][c].st = "alive" /\ sessions[l][c].idle} IN
    /\ recvLoop[l].pc = "idle"
    /\ idle # {}
    /\ open' = open - Cardinality(idle)
    /\ sessions' = [sessions EXCEPT ![l] =
          [c \in Client |-> IF c \in idle THEN NoSession ELSE @[c]]]
    /\ UNCHANGED <<table, seen, generation, recvLoop, udpLeft>>

\* Sessions::reap.
Reap(l) ==
    /\ recvLoop[l].pc = "idle"
    /\ Expired(l) # {}
    /\ open' = open - Cardinality(Expired(l))
    /\ sessions' = [sessions EXCEPT ![l] =
          [c \in Client |-> IF c \in Expired(l) THEN NoSession ELSE @[c]]]
    /\ UNCHANGED <<table, seen, generation, recvLoop, udpLeft>>

HeldBy(l) == {c \in Client : sessions[l][c] # NoSession}

\* The listener is closed: its loop ends between two datagrams, and its
\* sessions and its weak reference with it.
Close(l) ==
    /\ recvLoop[l].pc = "idle"
    /\ open' = open - Cardinality(HeldBy(l))
    /\ sessions' = [sessions EXCEPT ![l] = [c \in Client |-> NoSession]]
    /\ seen' = [seen EXCEPT ![l] = Nowhere]
    /\ recvLoop' = [recvLoop EXCEPT ![l] = [Idle EXCEPT !.pc = "ended"]]
    /\ UNCHANGED <<table, generation, udpLeft>>

-----------------------------------------------------------------------------
(* The session's other half.                                                *)

\* relay_replies: a reply of the backend keeps the session alive.
Relay(l, c) ==
    /\ sessions[l][c].st = "alive" /\ sessions[l][c].idle
    /\ sessions' = [sessions EXCEPT ![l][c].idle = FALSE]
    /\ UNCHANGED <<table, open, seen, generation, recvLoop, udpLeft>>

\* The backend refused, or the client cannot be sent to: the task ends.
RelayEnds(l, c) ==
    /\ sessions[l][c].st = "alive"
    /\ sessions' = [sessions EXCEPT ![l][c].st = "dead"]
    /\ UNCHANGED <<table, open, seen, generation, recvLoop, udpLeft>>

\* The idle timeout passes without a datagram either way.
GoesIdle(l, c) ==
    /\ sessions[l][c] # NoSession /\ ~sessions[l][c].idle
    /\ sessions' = [sessions EXCEPT ![l][c].idle = TRUE]
    /\ UNCHANGED <<table, open, seen, generation, recvLoop, udpLeft>>

-----------------------------------------------------------------------------
Awaiting(l) == Sent(l) \/ SendFails(l) \/ OpenSucceeds(l) \/ OpenFails(l)

UdpNext ==
    \/ Swap
    \/ \E l \in Listener : Awaiting(l) \/ Reap(l) \/ Close(l)
    \/ \E l \in Listener, c \in Client :
        \/ Forward(l, c) \/ Overflow(l, c) \/ Select(l, c) \/ Unroutable(l, c)
        \/ Relay(l, c) \/ RelayEnds(l, c) \/ GoesIdle(l, c)

\* Sends and opens end, and the loop's biased select takes a due reap before
\* the next datagram; nothing is assumed of clients, backends or reply tasks.
UdpFairness == \A l \in Listener : WF_udpVars(Awaiting(l)) /\ SF_udpVars(Reap(l))

UdpSpec == UdpInit /\ [][UdpNext]_udpVars

-----------------------------------------------------------------------------
(***************************************************************************)
(* The budget counts the sessions there are and the ones being opened,     *)
(* neither more (a leaked slot would refuse clients for good) nor less,    *)
(* however sessions move, fail, die or end with their listener             *)
(* (udp_worker.rs, SessionSlot).                                           *)
(***************************************************************************)
Holders ==
    {h \in Listener \X Client :
        \/ sessions[h[1]][h[2]] # NoSession
        \/ recvLoop[h[1]].pc = "opening" /\ recvLoop[h[1]].client = {h[2]}}

SlotsCounted == open = Cardinality(Holders)

(***************************************************************************)
(* A datagram goes to a backend the port is routed to by the table that    *)
(* was live when it was received, although a session's backend is looked   *)
(* up only when that table is a new one, told by its address alone         *)
(* (udp_worker.rs, reusable, and seen's "a new table allocated at the same *)
(* address cannot pass for it").                                           *)
(***************************************************************************)
SentWhereRouted ==
    \A l \in Listener : recvLoop[l].pc \in {"sending", "opening"} =>
        recvLoop[l].backend \subseteq recvLoop[l].routed

(***************************************************************************)
(* A session whose reply path died does not keep its slot: it is reaped,   *)
(* without another datagram of its client and however the other listeners  *)
(* and the table go on meanwhile (udp_worker.rs, reap).                    *)
(***************************************************************************)
GivenBack ==
    \A l \in Listener, c \in Client :
        sessions[l][c].st = "dead" ~> sessions[l][c].st # "dead"
=============================================================================

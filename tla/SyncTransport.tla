---------------------------- MODULE SyncTransport ----------------------------
(***************************************************************************)
(* The connections polls travel on: the sync server's accept loop, slots,  *)
(* holds and write guard (src/src/kubernetes/controller/server.rs), and    *)
(* the data plane's one kept connection, its retry of a poll that was      *)
(* never written and its backoff (src/src/dataplane/remote.rs, mod.rs).    *)
(*                                                                         *)
(* A node holds one pod. The data planes poll; the other nodes stall, send *)
(* requests that are refused, or leave, and a data plane may vanish        *)
(* without a word. Time passes in ticks, timers fire on time, and the      *)
(* accept loop, the peers and the review of a token may be slow. What an   *)
(* answer says is GatewaySync's and SyncTrust's, who is admitted is        *)
(* SyncAuth's.                                                             *)
(***************************************************************************)
EXTENDS Integers, FiniteSets, Functions

CONSTANTS
    MaxLinks,        \* TCP connections there may be at once
    MaxConnections, PeerShare, MaxBodyReads,
    PeerTimeout, ReviewTimeout, HoldTime, ConnectTimeout, FirstBackoff, StandbyRetry,
    SocketRoom,      \* what the sockets take of an answer nobody reads
    AnswerSize,      \* a snapshot, in the same unit
    TransportWorlds  \* the data planes, the other nodes, and bounds

NetNode == {""} \cup UNION {w.planes \cup w.others : w \in TransportWorlds}

\* The pauses of a data plane are within a hold, a snapshot is no smaller
\* than what the sockets take, and the nodes that are no data planes are others.
ASSUME TransportAssumption ==
    /\ MaxLinks \in Nat /\ MaxConnections \in Nat /\ PeerShare \in Nat /\ MaxBodyReads \in Nat
    /\ PeerTimeout \in Nat /\ ReviewTimeout \in Nat /\ HoldTime \in Nat /\ ConnectTimeout \in Nat
    /\ FirstBackoff \in 0 .. HoldTime /\ StandbyRetry \in 0 .. HoldTime
    /\ SocketRoom \in Nat /\ AnswerSize \in Nat /\ AnswerSize > 0 /\ SocketRoom <= AnswerSize
    /\ \A w \in TransportWorlds :
          /\ w \in [planes : SUBSET NetNode, others : SUBSET NetNode, polls : Nat, ticks : Nat, moves : Nat, vanishes : Nat,
                    errors : Nat, stops : Nat, dials : Nat, requests : Nat, standby : BOOLEAN, news : BOOLEAN]
          /\ w.planes \cap w.others = {}

VARIABLES
    acceptor,     \* the accept loop: "slot", "accept", "pause", "stopped"
    permits,      \* SyncServer::connections
    peerOpen,     \* peer_connections: the counted peers -> count
    link,         \* 1..MaxLinks -> the connection
    bodyReads,    \* body_reads: permits left
    holder,       \* Holds::by_instance: the pods -> the connection of their last hold
    ending,       \* SyncServer::shutdown
    poller,       \* data plane -> its Client and the poll of its loop
    handled,      \* <<node, nonce>> of the polls a handler took
    twice,        \* those it took again
    quota         \* polls, ticks ... left

server        == <<acceptor, permits, peerOpen, bodyReads, holder, ending>>
transportVars == <<server, link, poller, handled, twice, quota>>

Links == 1..MaxLinks
RequestTimeout == 2 * HoldTime
NoLink == [at |-> "none", node |-> "", left |-> 0, age |-> 0, poll |-> 0, answer |-> "none", owed |-> 0,
           room |-> SocketRoom, told |-> "none", fin |-> FALSE]
Rested == [at |-> "wait", link |-> 0, poll |-> 0, left |-> 0, whole |-> 0, ceiling |-> FirstBackoff]

TransportInit ==
    \E w \in TransportWorlds :
        /\ quota = w
        /\ acceptor = "slot" /\ permits = MaxConnections /\ peerOpen = <<>>
        /\ link = [l \in Links |-> NoLink]
        /\ bodyReads = MaxBodyReads /\ holder = <<>> /\ ending = FALSE
        /\ poller = [d \in w.planes |-> Rested]
        /\ handled = {} /\ twice = {}

Use(q) == quota[q] > 0 /\ quota' = [quota EXCEPT ![q] = @ - 1]
IsPlane(n) == n \in DOMAIN poller
LinkOpen(l)  == link[l].at \in {"tls", "head", "auth", "body", "hold", "write"}
Held(l)    == \E d \in DOMAIN poller : poller[d].link = l

-----------------------------------------------------------------------------
(* Slots. *)

Counted(n) == IF n \in DOMAIN peerOpen THEN peerOpen[n] ELSE 0

\* PeerConnection::drop. The variant forgets the decrement of the last one.
GivenUpLeaky(n) == IF peerOpen[n] = 1 THEN peerOpen ELSE [peerOpen EXCEPT ![n] = @ - 1]
GivenUp(n) ==
    IF peerOpen[n] = 1 THEN Restrict(peerOpen, DOMAIN peerOpen \ {n}) ELSE [peerOpen EXCEPT ![n] = @ - 1]

\* Hold::drop: only its own entry. The variant drops its pod's, whosever.
HoldDroppedAny(l) == IF link[l].at = "hold" THEN Restrict(holder, DOMAIN holder \ {link[l].node}) ELSE holder
HoldDropped(l) == Restrict(holder, {n \in DOMAIN holder : holder[n] # l})

\* A connection closed by the server: a data plane that holds it finds out
\* when it reads or writes, after what was written.
Shut(l, told) ==
    [link EXCEPT ![l] = IF Held(l) THEN [NoLink EXCEPT !.at = "closed", !.node = link[l].node, !.told = told, !.room = link[l].room]
                        ELSE NoLink]
CutLink(l) == Shut(l, link[l].told)

\* The connection task ends, with its handler: their slots drop with them.
CloseLink(l) ==
    /\ permits' = permits + 1
    /\ peerOpen' = GivenUp(link[l].node)
    /\ bodyReads' = bodyReads + (IF link[l].at = "body" THEN 1 ELSE 0)
    /\ holder' = HoldDropped(l)
    /\ UNCHANGED <<acceptor, ending>>

-----------------------------------------------------------------------------
(* serve: the accept loop. *)

TakeSlot ==
    /\ acceptor = "slot" /\ ~ending /\ permits > 0
    /\ permits' = permits - 1 /\ acceptor' = "accept"
    /\ UNCHANGED <<peerOpen, bodyReads, holder, ending, link, poller, handled, twice, quota>>

\* Over its share a connection closes at once, and the slot is free again.
AcceptLink(l) ==
    LET n == link[l].node
    IN  /\ acceptor = "accept" /\ ~ending /\ link[l].at = "backlog"
        /\ acceptor' = "slot"
        /\ IF Counted(n) >= PeerShare
           THEN link' = CutLink(l) /\ permits' = permits + 1 /\ UNCHANGED peerOpen
           ELSE /\ link' = [link EXCEPT ![l].at = "tls", ![l].left = PeerTimeout]
                /\ peerOpen' = [m \in DOMAIN peerOpen \cup {n} |-> Counted(m) + (IF m = n THEN 1 ELSE 0)]
                /\ UNCHANGED permits
        /\ UNCHANGED <<bodyReads, holder, ending, poller, handled, twice, quota>>

\* accept() fails: the pause keeps the slot, the next round takes another.
AcceptFails ==
    /\ acceptor = "accept" /\ ~ending /\ Use("errors")
    /\ acceptor' = "pause"
    /\ UNCHANGED <<permits, peerOpen, bodyReads, holder, ending, link, poller, handled, twice>>

PauseOver ==
    /\ acceptor = "pause" /\ acceptor' = "slot" /\ permits' = permits + 1
    /\ UNCHANGED <<peerOpen, bodyReads, holder, ending, link, poller, handled, twice, quota>>

\* Shutdown: the listener goes, with what is in its backlog.
Shutdown ==
    /\ ~ending /\ Use("stops") /\ ending' = TRUE
    /\ UNCHANGED <<acceptor, permits, peerOpen, bodyReads, holder, link, poller, handled, twice>>

StopAccepting ==
    /\ ending /\ acceptor \in {"slot", "accept"}
    /\ permits' = permits + (IF acceptor = "accept" THEN 1 ELSE 0)
    /\ acceptor' = "stopped"
    /\ link' = [l \in Links |-> IF link[l].at = "backlog" THEN CutLink(l)[l] ELSE link[l]]
    /\ UNCHANGED <<peerOpen, bodyReads, holder, ending, poller, handled, twice, quota>>

-----------------------------------------------------------------------------
(* connection and handle. *)

\* The handshake ends; a head is then due within the same time again.
Handshake(l) ==
    /\ link[l].at = "tls" /\ ~link[l].fin
    /\ link' = [link EXCEPT ![l].at = "head", ![l].left = PeerTimeout]
    /\ UNCHANGED <<server, poller, handled, twice, quota>>

\* The answer is ready to be written; left is the stall's, -1 without one.
Answering(l, a) ==
    [link EXCEPT ![l].at = "write", ![l].answer = a, ![l].left = -1, ![l].poll = 0,
                 ![l].owed = IF a = "snapshot" THEN AnswerSize ELSE 1]

\* handle up to authenticate: refused, a standby's answer, or the token is
\* looked up. The head's timer is over; the renewal's permit and the
\* TokenReview may each take their timeout.
HeadRead(l, said) ==
    /\ link[l].at = "head"
    /\ IF IsPlane(link[l].node) THEN link[l].poll # 0 /\ UNCHANGED quota ELSE said # "standby" /\ Use("requests")
    /\ said = "standby" => quota.standby
    /\ link' = IF said = "asked" THEN [link EXCEPT ![l].at = "auth", ![l].left = 2 * ReviewTimeout]
               ELSE Answering(l, said)
    /\ UNCHANGED <<server, poller, handled, twice>>

\* authenticate returned: refused, or admitted, and the body is read if no
\* other of the pod is and a read is free.
PodReads(n) == \E l \in Links : link[l].at = "body" /\ link[l].node = n
Authenticated(l, admitted) ==
    /\ link[l].at = "auth"
    /\ admitted => IsPlane(link[l].node)
    /\ IF admitted /\ ~PodReads(link[l].node) /\ bodyReads > 0
       THEN /\ link' = [link EXCEPT ![l].at = "body", ![l].left = PeerTimeout]
            /\ bodyReads' = bodyReads - 1
       ELSE link' = Answering(l, "refused") /\ UNCHANGED bodyReads
    /\ UNCHANGED <<acceptor, permits, peerOpen, holder, ending, poller, handled, twice, quota>>

\* The body came: the hold begins, and ends the one the pod had.
BodyRead(l) ==
    LET n == link[l].node
        p == <<n, link[l].poll>>
    IN  /\ link[l].at = "body" /\ ~link[l].fin
        /\ bodyReads' = bodyReads + 1
        /\ handled' = handled \cup {p} /\ twice' = twice \cup ({p} \cap handled)
        /\ holder' = [m \in DOMAIN holder \cup {n} |-> IF m = n THEN l ELSE holder[m]]
        /\ link' = [k \in Links |->
              IF k = l THEN [link[l] EXCEPT !.at = "hold", !.left = HoldTime]
              ELSE IF n \in DOMAIN holder /\ holder[n] = k THEN [link[k] EXCEPT !.left = 0]
              ELSE link[k]]
        /\ UNCHANGED <<acceptor, permits, peerOpen, ending, poller, quota>>

\* poll ends: there is a snapshot, the Gateway went, the hold is over or
\* superseded, or the server stops.
HoldEnds(l, a) ==
    /\ link[l].at = "hold"
    /\ \/ a \in {"snapshot", "gone"} /\ quota.news
       \/ a = "unchanged" /\ link[l].left = 0
       \/ a = "standby" /\ ending
    /\ link' = Answering(l, a)
    /\ holder' = HoldDropped(l)
    /\ UNCHANGED <<acceptor, permits, peerOpen, bodyReads, ending, poller, handled, twice, quota>>

\* A timer of the connection: the handshake's and the head's close it, the
\* body's is answered.
PeerTimesOut(l) ==
    /\ link[l].at \in {"tls", "head", "body"} /\ link[l].left = 0
    /\ IF link[l].at = "body"
       THEN link' = Answering(l, "refused") /\ bodyReads' = bodyReads + 1
            /\ UNCHANGED <<acceptor, permits, peerOpen, holder, ending>>
       ELSE link' = CutLink(l) /\ CloseLink(l)
    /\ UNCHANGED <<poller, handled, twice, quota>>

\* The peer closed, which every wait of the task notices, that of the review
\* not always (hyper reads no further before the body is asked for); or the
\* server stops and the connection is idle.
Disconnected(l) ==
    /\ LinkOpen(l) /\ (link[l].fin \/ (ending /\ link[l].at = "head"))
    /\ link' = CutLink(l) /\ CloseLink(l)
    /\ UNCHANGED <<poller, handled, twice, quota>>

-----------------------------------------------------------------------------
(* StallGuard, and the end of an answer. *)

\* A write that goes on clears the timer.
WriteOn(l) ==
    /\ link[l].at = "write" /\ link[l].owed > 0 /\ link[l].room > 0
    /\ link' = [link EXCEPT ![l].owed = @ - 1, ![l].room = @ - 1, ![l].left = -1]
    /\ UNCHANGED <<server, poller, handled, twice, quota>>

\* The first write that is not ready starts it; at its end the write fails.
WriteStalls(l) ==
    /\ link[l].at = "write" /\ link[l].owed > 0 /\ link[l].room = 0 /\ link[l].left = -1
    /\ link' = [link EXCEPT ![l].left = PeerTimeout]
    /\ UNCHANGED <<server, poller, handled, twice, quota>>

WriteFails(l) ==
    /\ link[l].at = "write" /\ link[l].left = 0
    /\ link' = CutLink(l) /\ CloseLink(l)
    /\ UNCHANGED <<poller, handled, twice, quota>>

\* What keeps a connection: an answered poll. A refusal (text), a gone and a
\* standby's 503 say Connection: close. The variant keeps it after any.
KeptAfter(a) == a \in {"snapshot", "unchanged"}

Written(l) ==
    /\ link[l].at = "write" /\ link[l].owed = 0
    /\ IF KeptAfter(link[l].answer) /\ ~ending
       THEN /\ link' = [link EXCEPT ![l].at = "head", ![l].left = PeerTimeout, ![l].answer = "none", ![l].told = link[l].answer,
                                    ![l].age = IF link[l].answer \in {"snapshot", "unchanged"} THEN 0 ELSE @]
            /\ UNCHANGED server
       ELSE link' = Shut(l, link[l].answer) /\ CloseLink(l)
    /\ UNCHANGED <<poller, handled, twice, quota>>

-----------------------------------------------------------------------------
(* The data plane: Client::poll and the loop around it. *)

\* A Conn dropped closes its socket, a poll in flight on it too.
Hung(l) ==
    IF l = 0 THEN link
    ELSE [link EXCEPT ![l] = IF link[l].at = "closed" THEN NoLink ELSE [@ EXCEPT !.fin = TRUE]]

\* Backoff::wait_at_least: below the ceiling, at least the Retry-After
\* capped at the hold. The variant takes the Retry-After as it comes.
WaitAsked(jitter, after) == IF after > jitter THEN after ELSE jitter
WaitAtLeast(jitter, after) ==
    LET floor == IF after > HoldTime THEN HoldTime ELSE after
    IN  IF floor > jitter THEN floor ELSE jitter
NextCeiling(c) == IF 2 * c > HoldTime THEN HoldTime ELSE 2 * c

BacksOff(p, after) ==
    {[p EXCEPT !.at = "wait", !.link = 0, !.left = WaitAtLeast(j, after), !.whole = 0, !.ceiling = NextCeiling(p.ceiling)] :
        j \in 0..p.ceiling}

\* The poll begins on the kept connection while nobody found it closed, else
\* on a new one. A closed one is found out before the poll is written, which
\* then goes out on a new one, or after: that poll failed.
PollBegins(d) ==
    LET p == [poller[d] EXCEPT !.poll = @ + 1, !.whole = RequestTimeout, !.left = ConnectTimeout]
        l == p.link
    IN  /\ p.at = "wait" /\ poller[d].left = 0 /\ Use("polls")
        /\ \/ /\ l # 0 /\ link[l].at = "head"
              /\ link' = [link EXCEPT ![l].poll = p.poll]
              /\ poller' = [poller EXCEPT ![d] = [p EXCEPT !.at = "sent"]]
           \/ /\ l # 0 => link[l].at = "closed"
              /\ link' = Hung(l)
              /\ poller' = [poller EXCEPT ![d] = [p EXCEPT !.at = "dial", !.link = 0]]
           \/ /\ l # 0 /\ link[l].at = "closed"
              /\ link' = Hung(l)
              /\ \E q \in BacksOff(p, 0) : poller' = [poller EXCEPT ![d] = q]
        /\ UNCHANGED <<server, handled, twice>>

\* connect: the kernel takes it in the backlog; nobody listens after the
\* server stopped.
FreeLink(l) == link[l].at = "none" /\ \A k \in 1..(l - 1) : link[k].at # "none"
Dial(d) ==
    /\ poller[d].at = "dial"
    /\ \/ /\ acceptor # "stopped"
          /\ \E l \in Links :
                /\ FreeLink(l)
                /\ link' = [link EXCEPT ![l] = [NoLink EXCEPT !.at = "backlog", !.node = d]]
                /\ poller' = [poller EXCEPT ![d].at = "connecting", ![d].link = l]
       \/ /\ acceptor = "stopped"
          /\ \E q \in BacksOff(poller[d], 0) : poller' = [poller EXCEPT ![d] = q]
          /\ UNCHANGED link
    /\ UNCHANGED <<server, handled, twice, quota>>

\* Through the handshake, the poll is written.
Connected(d) ==
    LET l == poller[d].link
    IN  /\ poller[d].at = "connecting" /\ link[l].at = "head"
        /\ link' = [link EXCEPT ![l].poll = poller[d].poll]
        /\ poller' = [poller EXCEPT ![d].at = "sent"]
        /\ UNCHANGED <<server, handled, twice, quota>>

\* The poll failed: no connection in time, one closed without an answer, or
\* none within the request's own time.
PollFails(d) ==
    LET p == poller[d]
    IN  /\ \/ p.at = "connecting" /\ (p.left = 0 \/ link[p.link].at = "closed")
           \/ p.at = "sent" /\ link[p.link].at = "closed" /\ link[p.link].told = "none"
           \/ p.at \in {"dial", "connecting", "sent"} /\ p.whole = 0
        /\ link' = Hung(p.link)
        /\ \E q \in BacksOff(p, 0) : poller' = [poller EXCEPT ![d] = q]
        /\ UNCHANGED <<server, handled, twice, quota>>

\* A report that moved cancels the poll and its connection: the next one is
\* due at once. The variant leaves the connection to its task.
LeftOpen(l) == link
Dropped(l) == Hung(l)
Abandon(d) ==
    LET p == poller[d]
    IN  /\ p.at \in {"dial", "connecting", "sent"} /\ Use("moves")
        /\ link' = Dropped(p.link)
        /\ poller' = [poller EXCEPT ![d] = [p EXCEPT !.at = "wait", !.link = 0, !.left = 0, !.whole = 0]]
        /\ UNCHANGED <<server, handled, twice>>

\* The answer was read: a snapshot and a 204 keep the connection and reset
\* the backoff; a gone keeps it and is paced; a standby's drops it and leaves
\* the backoff; a refusal drops it and backs off, at least as long as it asks.
TakeAnswer(d) ==
    LET p == poller[d]
        l == p.link
        a == link[l].told
        kept == [link EXCEPT ![l].told = "none"]
    IN  /\ p.at = "sent" /\ a # "none" /\ link[l].room = SocketRoom
        /\ \/ /\ a \in {"snapshot", "unchanged"} /\ link' = kept
              /\ poller' = [poller EXCEPT ![d] = [p EXCEPT !.at = "wait", !.left = 0, !.whole = 0, !.ceiling = FirstBackoff]]
           \/ /\ a = "gone" /\ link' = kept
              /\ \E q \in BacksOff(p, 0) : poller' = [poller EXCEPT ![d] = [q EXCEPT !.link = l]]
           \/ /\ a = "standby" /\ link' = Hung(l)
              /\ \E w \in 0..StandbyRetry :
                    poller' = [poller EXCEPT ![d] = [p EXCEPT !.at = "wait", !.link = 0, !.left = w, !.whole = 0]]
           \/ /\ a = "refused" /\ link' = Hung(l)
              /\ \E after \in {0, 1, HoldTime + 1} : \E q \in BacksOff(p, after) : poller' = [poller EXCEPT ![d] = q]
        /\ UNCHANGED <<server, handled, twice, quota>>

-----------------------------------------------------------------------------
(* Outside. *)

\* A peer reads what reached it.
PeerReads(l) ==
    /\ link[l].at \in {"head", "write", "closed"} /\ link[l].room < SocketRoom
    /\ IsPlane(link[l].node) => poller[link[l].node].at = "sent" /\ poller[link[l].node].link = l
    /\ link' = [link EXCEPT ![l].room = @ + 1]
    /\ UNCHANGED <<server, poller, handled, twice, quota>>

\* A node dies without closing.
Vanish(d) ==
    /\ poller[d].at = "sent" /\ Use("vanishes")
    /\ poller' = [poller EXCEPT ![d].at = "vanished", ![d].link = 0]
    /\ link' = IF link[poller[d].link].at = "closed" THEN [link EXCEPT ![poller[d].link] = NoLink] ELSE link
    /\ UNCHANGED <<server, handled, twice>>

StrangerDials(n) ==
    /\ n \in quota.others /\ acceptor # "stopped" /\ Use("dials")
    /\ \E l \in Links : FreeLink(l) /\ link' = [link EXCEPT ![l] = [NoLink EXCEPT !.at = "backlog", !.node = n]]
    /\ UNCHANGED <<server, poller, handled, twice>>

StrangerLeaves(l) ==
    /\ link[l].at \notin {"none", "closed"} /\ link[l].node \in quota.others /\ ~link[l].fin
    /\ link' = [link EXCEPT ![l].fin = TRUE]
    /\ UNCHANGED <<server, poller, handled, twice, quota>>

\* A tick: no timer is due, and what the server can write it has written.
TimeLeft(t) == IF t > 0 THEN t - 1 ELSE t
Prompt ==
    /\ \A l \in Links :
          /\ link[l].at \in {"tls", "head", "auth", "body", "hold"} => link[l].left > 0
          /\ link[l].at = "write" => link[l].owed > 0 /\ link[l].room = 0 /\ link[l].left > 0
          /\ LinkOpen(l) /\ link[l].at # "auth" => ~link[l].fin
    /\ \A d \in DOMAIN poller :
          /\ poller[d].at \in {"dial", "connecting", "sent"} => poller[d].whole > 0
          /\ poller[d].at = "connecting" => poller[d].left > 0
TransportTick ==
    /\ Prompt /\ Use("ticks")
    /\ link' = [l \in Links |->
          IF LinkOpen(l) THEN [link[l] EXCEPT !.left = TimeLeft(@), !.age = @ + 1] ELSE link[l]]
    /\ poller' = [d \in DOMAIN poller |-> [poller[d] EXCEPT !.left = TimeLeft(@), !.whole = TimeLeft(@)]]
    /\ UNCHANGED <<server, handled, twice>>

TransportNext ==
    \/ TakeSlot \/ AcceptFails \/ PauseOver \/ Shutdown \/ StopAccepting \/ TransportTick
    \/ \E l \in Links :
          \/ AcceptLink(l) \/ Handshake(l) \/ BodyRead(l) \/ PeerTimesOut(l) \/ Disconnected(l)
          \/ \E said \in {"asked", "refused", "standby"} : HeadRead(l, said)
          \/ \E admitted \in BOOLEAN : Authenticated(l, admitted)
          \/ \E a \in {"snapshot", "gone", "unchanged", "standby"} : HoldEnds(l, a)
          \/ WriteOn(l) \/ WriteStalls(l) \/ WriteFails(l) \/ Written(l)
          \/ PeerReads(l) \/ StrangerLeaves(l)
    \/ \E d \in DOMAIN poller :
          PollBegins(d) \/ Dial(d) \/ Connected(d) \/ PollFails(d) \/ Abandon(d) \/ TakeAnswer(d) \/ Vanish(d)
    \/ \E n \in quota.others : StrangerDials(n)

TransportSpec == TransportInit /\ [][TransportNext]_transportVars

-----------------------------------------------------------------------------
(* Properties. *)

\* No exit path keeps a slot or gives one back twice.
SlotsAddUp ==
    LET open == {l \in Links : LinkOpen(l)}
    IN  /\ permits + Cardinality(open) + (IF acceptor \in {"accept", "pause"} THEN 1 ELSE 0) = MaxConnections
        /\ DOMAIN peerOpen = {link[l].node : l \in open}
        /\ \A n \in DOMAIN peerOpen : peerOpen[n] = Cardinality({l \in open : link[l].node = n}) /\ peerOpen[n] <= PeerShare
        /\ bodyReads + Cardinality({l \in Links : link[l].at = "body"}) = MaxBodyReads

\* Without an answered poll a connection lasts a handshake, a head, a wait for
\* a permit and a review, a body, a hold and an answer a byte per stall at
\* most: nothing else keeps a slot.
AgeBounded ==
    \A l \in Links :
        link[l].age <= 3 * PeerTimeout + 2 * ReviewTimeout + HoldTime + (AnswerSize - SocketRoom) * PeerTimeout

\* A pod has one hold that lasts; the others are ending.
OneHold ==
    \A l, k \in Links : link[l].at = "hold" /\ link[k].at = "hold" /\ link[l].node = link[k].node /\ l # k =>
        link[l].left = 0 \/ link[k].left = 0

\* A data plane has one connection; any other of its is closing. No wait is
\* longer than the hold.
OneConnection ==
    \A d \in DOMAIN poller :
        /\ poller[d].at # "vanished" =>
              \A l \in Links : link[l].node = d /\ link[l].at # "none" => l = poller[d].link \/ link[l].fin
        /\ poller[d].at = "wait" => poller[d].left <= HoldTime

\* The sync endpoint's connections hold: slots and counts add up over every
\* exit path, only answered polls keep a connection, a pod holds one poll,
\* a data plane one connection, and a poll resent was never handled before
\* (server.rs, serve, connection, Holds and StallGuard; remote.rs, exchange,
\* send and Backoff).
ConnectionsHold == SlotsAddUp /\ AgeBounded /\ OneHold /\ OneConnection /\ twice = {}
=============================================================================

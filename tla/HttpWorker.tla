------------------------------ MODULE HttpWorker ------------------------------
(***************************************************************************)
(* The connection tasks of src/src/proxy/worker.rs and the idle backend    *)
(* connections of src/src/proxy/backend_pool.rs.                           *)
(*                                                                         *)
(* A client sends a script of items: requests, empty lines, and bytes that *)
(* open no request.  Its bytes are the positions of one stream, a request  *)
(* taking two for its head and one for each piece of its body; a read      *)
(* takes any part of what has arrived, so a request may arrive in pieces   *)
(* and several may arrive together.  Every buffer of the code is then an   *)
(* interval of that stream.                                                *)
(*                                                                         *)
(* A backend connection carries pieces of requests one way and pieces of   *)
(* answers the other, and may close or reset at any moment: before the     *)
(* request, in the middle of it, after acting on it without answering, in  *)
(* the middle of the answer, or while it lies idle in the pool.            *)
(*                                                                         *)
(* Budgets (header, backend, total, progress) are steps that may fire      *)
(* whenever the code waits under one.  An h2 connection is a client here   *)
(* too, once per stream: H2Bridge models what lies between.                *)
(***************************************************************************)
EXTENDS Naturals, Sequences, FiniteSets, Functions

CONSTANTS
    Setups,        \* who connects where, what each client sends, what backends
                   \* may answer, whether backendPoolScope is process and
                   \* whether the data plane drains
    Address,       \* backend identities: address, protocol and SNI
    MaxIdle,       \* max_idle_per_backend
    MaxConns,      \* bound: backend connections open at once
    MaxInterim,    \* MAX_INTERIM_RESPONSES
    MaxBlame       \* bound: failures counted against a backend

\* What a client may send: requests, empty lines, bytes that open no request.
ClientItems == [kind : {"request", "crlf", "junk"}, body : Nat, to : Address, idempotent : BOOLEAN,
                keepalive : BOOLEAN, isHead : BOOLEAN, upgrade : BOOLEAN, expect : BOOLEAN,
                broken : BOOLEAN, big : BOOLEAN, route : {"forward", "reply", "limited", "bad"}]

ASSUME HttpAssumption ==
    /\ \A s \in Setups :
          /\ s.shared \in BOOLEAN /\ DOMAIN s.port = DOMAIN s.script
          /\ \A c \in DOMAIN s.script : s.script[c] \in Seq(ClientItems)
    /\ MaxIdle \in Nat /\ MaxConns \in Nat \ {0}
    /\ MaxInterim \in Nat /\ MaxBlame \in Nat \ {0}

VARIABLES
    script,    \* client -> the items it sends
    port,      \* client -> its listener: "http", "mixed", "tcp" or "tls"
    answers,   \* the answers a backend may give
    shared,    \* the pool is the process's, not each connection's
    sent,      \* client -> how much of its stream has arrived
    ended,     \* client -> "no", "fin" (it half-closed) or "rst" (it is gone)
    task,      \* client -> the task serving it
    seen,      \* client -> what the proxy wrote to it
    over,      \* client -> how the connection ended for it
    drains,    \* the data plane is drained at some point
    draining,  \* the listener token is cancelled
    watch,     \* client -> its DrainWatch: "unarmed", "armed", "raised", "called"
    waker,     \* client -> "none", "registered" or "woken"
    conn,      \* backend connection -> its state
    pool,      \* pool owner -> backend identity -> idle connections
    blame,     \* backend identity -> consecutive failures recorded
    acted      \* <<client, item>> -> how often a backend got the whole request

clientVars == <<script, port, answers, shared, drains>>
wireVars   == <<sent, ended>>
drainVars  == <<draining, watch, waker>>
backVars   == <<conn, pool, blame, acted>>
httpVars   == <<script, port, answers, shared, drains, sent, ended, task, seen, over, draining, watch, waker,
                conn, pool, blame, acted>>

Client == DOMAIN script

NewTask == [pc |-> "new", first |-> TRUE, item |-> 1, read |-> 0, fwd |-> 0, conn |-> 0,
            reused |-> FALSE, replayable |-> FALSE, replay |-> FALSE, early |-> FALSE,
            interim |-> 0, keep |-> FALSE, need |-> 0, bad |-> FALSE, brk |-> FALSE, delim |-> FALSE, clean |-> TRUE,
            closes |-> FALSE, linger |-> FALSE, done |-> FALSE, reset |-> FALSE,
            gaveUp |-> FALSE, halves |-> {}]
-----------------------------------------------------------------------------
(* The stream of a client. *)

Parts(item) == IF item.kind = "request" THEN 2 + item.body ELSE 1

\* Ends(c)[n]: how much of the stream the first n items take.
Ends(c) == LET e[n \in 0..Len(script[c])] ==
                   IF n = 0 THEN 0 ELSE e[n - 1] + Parts(script[c][n])
           IN  e

Total(c)    == Ends(c)[Len(script[c])]
ItemAt(c, p) == CHOOSE n \in 1..Len(script[c]) : Ends(c)[n - 1] < p /\ p <= Ends(c)[n]

\* The item being served, where it starts, where its head and it end.
Item(c)     == script[c][task[c].item]
Base(c)     == Ends(c)[task[c].item - 1]
HeadEnd(c)  == Base(c) + 2
Finish(c)   == Base(c) + Parts(Item(c))
Lesser(a, b) == IF a < b THEN a ELSE b

RequestEndAll(c) == task[c].read

\* Framing::of: how much of what was read belongs to the request, whether
\* its whole body came with it, and whether bytes past it were read.
RequestEnd(c) == Lesser(task[c].read, Finish(c))
BodyHeld(c)   == task[c].read >= Finish(c)
Leftover(c)   == task[c].read > Finish(c)
Malformed(c)  == Item(c).broken /\ BodyHeld(c)

ClientDoneUnlooked(keepalive, requestIn, seenPast) == ~keepalive /\ requestIn

\* client_done: the one rule behind every closing reply's linger.
ClientDone(keepalive, requestIn, seenPast) == ~keepalive /\ requestIn /\ ~seenPast
HeadIsWhole(item) == ~item.upgrade /\ item.body = 0

\* serve_http's empty lines: the first item that is not one already read.
Skipped(c) == CHOOSE n \in task[c].item..(Len(script[c]) + 1) :
    /\ \A m \in task[c].item..(n - 1) : script[c][m].kind = "crlf" /\ Ends(c)[m] <= task[c].read
    /\ n <= Len(script[c]) =>
          script[c][n].kind # "crlf" \/ Ends(c)[n] > task[c].read
-----------------------------------------------------------------------------
(* Backend connections. *)

Conns  == 1..MaxConns
Unused == [addr |-> "none", end |-> "none", got |-> <<>>, out |-> <<>>, owed |-> <<>>, told |-> <<>>]
Opened(a) == [Unused EXCEPT !.addr = a, !.end = "up"]

IsWhole(g) == /\ g # <<>>
              /\ LET last == g[Len(g)] IN last[2] = Ends(last[1])[ItemAt(last[1], last[2])]

\* A backend reads the next request where the last one ended.
Received(g, bytes) == IF IsWhole(g) THEN bytes ELSE g \o bytes

\* write_with_tail towards b of the stream of c up to `upto`: accepted, or
\* cut short by a reset after a part of it, or swallowed by a connection the
\* backend has already closed, which may still take one write.
Writes(b, c, upto) ==
    LET from     == task[c].fwd
        upTo(k)  == [i \in 1..(k - from) |-> <<c, from + i>>]
        cut(k)   == [conn[b] EXCEPT !.got = Received(@, upTo(k)), !.end = "rst", !.out = <<>>, !.owed = <<>>]
        taken(k) == [conn[b] EXCEPT !.got = Received(@, upTo(k))]
    IN  IF conn[b].end = "up"
        THEN {[ok |-> TRUE, conn |-> taken(upto), upto |-> upto]}
             \cup {[ok |-> FALSE, conn |-> cut(k), upto |-> k] : k \in from..(upto - 1)}
        ELSE {[ok |-> k, conn |-> conn[b], upto |-> from] : k \in BOOLEAN}

\* Whole requests a write completed, for the history of what backends got.
Acted(c, upto) ==
    [acted EXCEPT ![c] = [n \in DOMAIN @ |->
        IF Ends(c)[n] \in (task[c].fwd + 1)..upto THEN Lesser(@[n] + 1, 2) ELSE @[n]]]

Copies(token, n) == [i \in 1..n |-> [t |-> token]]

AnswerTokens(r, a) ==
    Copies("interim", a.interim)
    \o <<[t |-> "head", of |-> r, a |-> a]>>
    \o Copies("body", a.body)
    \o (IF a.extra THEN <<[t |-> "extra", of |-> r, a |-> [a EXCEPT !.body = 0, !.extra = FALSE]]>> ELSE <<>>)
    \o (IF a.closes THEN <<[t |-> "fin"]>> ELSE <<>>)

\* The backend takes up the request it has, or answers a body it does not
\* want before it has all of it, and then closes.
BackendAnswers(b, a) ==
    /\ conn[b].end = "up" /\ conn[b].owed = <<>> /\ conn[b].got # <<>>
    /\ LET last == conn[b].got[Len(conn[b].got)]
           c    == last[1]
           n    == ItemAt(c, last[2])
       IN  /\ conn[b].told # <<c, n>>
           /\ IF a.early THEN last[2] >= Ends(c)[n - 1] + 2 /\ ~IsWhole(conn[b].got)
                         ELSE IsWhole(conn[b].got)
           /\ conn' = [conn EXCEPT ![b].owed = AnswerTokens(<<c, n>>, a), ![b].told = <<c, n>>]
    /\ UNCHANGED <<clientVars, wireVars, task, seen, over, drainVars, pool, blame, acted>>

\* A part of the answer arrives at the proxy.  What a backend sends past its
\* end (a stray line, another answer) arrives with its last piece: once the
\* connection carries the next request, HTTP/1.1 cannot tell it apart.
BackendSends(b) ==
    /\ conn[b].end = "up" /\ conn[b].owed # <<>>
    /\ \E k \in 1..Len(conn[b].owed) :
          /\ k < Len(conn[b].owed) => conn[b].owed[k + 1].t # "extra"
          /\ LET now == SelectSeq(SubSeq(conn[b].owed, 1, k), LAMBDA x : x.t # "fin")
                 fin == \E i \in 1..k : conn[b].owed[i].t = "fin"
             IN  conn' = [conn EXCEPT ![b].out = @ \o now,
                                      ![b].owed = SubSeq(@, k + 1, Len(@)),
                                      ![b].end = IF fin THEN "fin" ELSE "up"]
    /\ UNCHANGED <<clientVars, wireVars, task, seen, over, drainVars, pool, blame, acted>>

\* The backend closes with nothing owed, or dies with a reset at any time.
BackendEnds(b) ==
    /\ conn[b].end = "up"
    /\ \/ conn[b].owed = <<>> /\ conn' = [conn EXCEPT ![b].end = "fin"]
       \/ conn' = [conn EXCEPT ![b].end = "rst", ![b].out = <<>>, ![b].owed = <<>>]
    /\ UNCHANGED <<clientVars, wireVars, task, seen, over, drainVars, pool, blame, acted>>
-----------------------------------------------------------------------------
(* The idle connections of a pool. *)

Owner(c) == IF shared THEN "process" ELSE c

IdleAndOpenUnread(b) == conn[b].end = "up"

\* idle_and_open: no FIN, no reset and not a byte from an idle backend.
IdleAndOpen(b) == conn[b].end = "up" /\ conn[b].out = <<>>

\* take_live: the newest idle connection that probes alive, 0 if none.
LiveAt(o, a) == LET live == {i \in 1..Len(pool[o][a]) : IdleAndOpen(pool[o][a][i])}
                IN  IF live = {} THEN 0 ELSE CHOOSE i \in live : \A j \in live : j <= i

\* The connections a checkout throws away: the dead ones it met first.
Discarded(o, a) == {pool[o][a][i] : i \in (LiveAt(o, a) + 1)..Len(pool[o][a])}
Remaining(o, a) == SubSeq(pool[o][a], 1, LiveAt(o, a) - 1)
-----------------------------------------------------------------------------
(* The client. *)

ClientSends(c) ==
    /\ ended[c] = "no" /\ sent[c] < Total(c) /\ task[c].pc # "end"
    /\ \E k \in (sent[c] + 1)..Total(c) : sent' = [sent EXCEPT ![c] = k]
    /\ UNCHANGED <<clientVars, ended, task, seen, over, drainVars, backVars>>

\* It half-closes, or vanishes with a reset.
ClientEnds(c) ==
    /\ ended[c] = "no" /\ task[c].pc # "end"
    /\ \E how \in {"fin", "rst"} : ended' = [ended EXCEPT ![c] = how]
    /\ UNCHANGED <<clientVars, sent, task, seen, over, drainVars, backVars>>
-----------------------------------------------------------------------------
(* DrainWatch and the idle wait. *)

Started(c) == watch[c] \in {"raised", "called"}

\* The listener token is cancelled: run_worker leaves its loop, and every
\* connection's waker is called in turn.
Drain ==
    /\ drains /\ ~draining
    /\ draining' = TRUE
    /\ UNCHANGED <<clientVars, wireVars, task, seen, over, watch, waker, backVars>>

\* wake_by_ref: the flag is stored first, then the task is woken.
RaiseFlag(c) ==
    /\ draining /\ watch[c] = "armed"
    /\ watch' = [watch EXCEPT ![c] = "raised"]
    /\ UNCHANGED <<clientVars, wireVars, task, seen, over, draining, waker, backVars>>

CallWaker(c) ==
    /\ watch[c] = "raised"
    /\ watch' = [watch EXCEPT ![c] = "called"]
    /\ waker' = [waker EXCEPT ![c] = IF @ = "registered" THEN "woken" ELSE @]
    /\ UNCHANGED <<clientVars, wireVars, task, seen, over, draining, backVars>>

Goto(c, pc) == task' = [task EXCEPT ![c].pc = pc]

\* A read of the client takes any part of what has arrived.
Reads(c) == (task[c].read + 1)..sent[c]
AtEof(c) == sent[c] = task[c].read /\ ended[c] = "fin"
Broke(c) == ended[c] = "rst"

\* idle_read polls the read first: a request already sent is served.
IdlePoll(c) ==
    /\ task[c].pc = "idle"
    /\ \/ \E k \in Reads(c) : task' = [task EXCEPT ![c].pc = "got", ![c].read = k]
       \/ AtEof(c) /\ Goto(c, "got")
       \/ Reads(c) = {} /\ Broke(c) /\ Goto(c, "close")
       \/ /\ Reads(c) = {} /\ ended[c] = "no"
          /\ Goto(c, IF Started(c) THEN "got" ELSE "register")
    /\ UNCHANGED <<clientVars, wireVars, seen, over, drainVars, backVars>>

\* DrainWatch::wait registers the task, and only then looks again.
RegisterWaker(c) ==
    /\ task[c].pc = "register"
    /\ waker' = [waker EXCEPT ![c] = "registered"]
    /\ Goto(c, "recheck")
    /\ UNCHANGED <<clientVars, wireVars, seen, over, draining, watch, backVars>>

RecheckNothing(c) ==
    /\ task[c].pc = "recheck" /\ Goto(c, "parked")
    /\ UNCHANGED <<clientVars, wireVars, seen, over, drainVars, backVars>>

Recheck(c) ==
    /\ task[c].pc = "recheck"
    /\ Goto(c, IF Started(c) THEN "got" ELSE "parked")
    /\ UNCHANGED <<clientVars, wireVars, seen, over, drainVars, backVars>>

Unpark(c) ==
    /\ task[c].pc = "parked"
    /\ Reads(c) # {} \/ ended[c] # "no" \/ waker[c] = "woken"
    /\ Goto(c, "idle")
    /\ waker' = [waker EXCEPT ![c] = "none"]
    /\ UNCHANGED <<clientVars, wireVars, seen, over, draining, watch, backVars>>
-----------------------------------------------------------------------------
(* Accepting, sniffing and reading heads. *)

\* run_worker's spawn, and how the task starts: TLS, a TCP-only port, HTTP.
\* arm() on a token already cancelled raises the flag itself.
Arm(c) == watch' = [watch EXCEPT ![c] = IF draining THEN "called" ELSE "armed"]

Accept(c) ==
    /\ task[c].pc = "new" /\ ~draining
    /\ CASE port[c] = "tls" -> Goto(c, "hello") /\ UNCHANGED watch
         [] port[c] = "tcp" -> Goto(c, "l4route") /\ UNCHANGED watch
         [] OTHER           -> Goto(c, "idle") /\ Arm(c)
    /\ UNCHANGED <<clientVars, wireVars, seen, over, draining, waker, backVars>>

\* serve_tls_connection: no readable hello, no listener or certificate for
\* its SNI, a passthrough listener, a failed or stalled handshake, or h1.
TlsHello(c) ==
    /\ task[c].pc = "hello"
    /\ \/ Goto(c, "drop") /\ UNCHANGED watch
       \/ Goto(c, "l4route") /\ UNCHANGED watch
       \/ Goto(c, "idle") /\ Arm(c)
    /\ UNCHANGED <<clientVars, wireVars, seen, over, draining, waker, backVars>>

\* Where the bytes in the buffer lead once `n` is the item they open.
HeadOrRoute(c, n) ==
    task' = [task EXCEPT ![c].item = n, ![c].first = FALSE,
                         ![c].pc = IF task[c].read >= Ends(c)[n - 1] + 2 /\ ~script[c][n].big
                                   THEN "route" ELSE "head"]

\* sniff_first_request: empty lines are dropped only before a request; a
\* read that ends inside them waits, within the header budget.
GotFirst(c) ==
    LET n == Skipped(c)
        nothing == n > Len(script[c]) \/ task[c].read = Ends(c)[n - 1]
    IN  /\ task[c].pc = "got" /\ task[c].first
        /\ IF nothing THEN Goto(c, IF n = task[c].item THEN "close" ELSE "sniff")
           ELSE IF script[c][n].kind = "request" THEN HeadOrRoute(c, n)
           ELSE Goto(c, "opaque")
        /\ UNCHANGED <<clientVars, wireVars, seen, over, drainVars, backVars>>

Sniff(c) ==
    /\ task[c].pc = "sniff"
    /\ \/ \E k \in Reads(c) : task' = [task EXCEPT ![c].pc = "got", ![c].read = k]
       \/ Goto(c, "opaque")
    /\ UNCHANGED <<clientVars, wireVars, seen, over, drainVars, backVars>>

\* The keepalive loop's bottom: empty lines are skipped, nothing left waits
\* idle again, and bytes that cannot open a request close.
GotNext(c) ==
    LET n == Skipped(c)
        nothing == n > Len(script[c]) \/ task[c].read = Ends(c)[n - 1]
    IN  /\ task[c].pc = "got" /\ ~task[c].first
        /\ IF nothing
           THEN IF n = task[c].item THEN Goto(c, "close")
                ELSE task' = [task EXCEPT ![c].item = n, ![c].pc = "idle"]
           ELSE IF script[c][n].kind = "request" THEN HeadOrRoute(c, n)
           ELSE Goto(c, "close")
        /\ UNCHANGED <<clientVars, wireVars, seen, over, drainVars, backVars>>

Told(c, n, code, close) == [n |-> n, code |-> code, of |-> <<>>, close |-> close, missing |-> 0]

\* A reply of the proxy's own; a client that is gone gets nothing.
Tell(c, m) == seen' = IF Broke(c) THEN seen ELSE [seen EXCEPT ![c] = Append(@, m)]

\* refused(): an error reply always closes, and lingers unless the client
\* is done.
Refuse(c, code) ==
    /\ Tell(c, Told(c, task[c].item, code, TRUE))
    /\ task' = [task EXCEPT ![c].pc = "close", ![c].conn = 0, ![c].linger = ~task[c].done]

\* complete_headers, within the header budget: 431 for a head that outgrows
\* the buffer, 408 without a linger for a slow one, silence for a close.
CompleteHead(c) ==
    /\ task[c].pc = "head"
    /\ \/ \E k \in Reads(c) :
            /\ ~Item(c).big
            /\ task' = [task EXCEPT ![c].read = k, ![c].pc = IF k >= HeadEnd(c) THEN "route" ELSE "head"]
            /\ UNCHANGED seen
       \/ Item(c).big /\ Refuse(c, 431)
       \/ (AtEof(c) \/ (Reads(c) = {} /\ Broke(c))) /\ Goto(c, "close") /\ UNCHANGED seen
       \/ Tell(c, Told(c, task[c].item, 408, TRUE)) /\ Goto(c, "close")
    /\ UNCHANGED <<clientVars, wireVars, over, drainVars, backVars>>
-----------------------------------------------------------------------------
(* One request. *)

\* keep_open: whether the connection may take another request.
KeepOpen(c, reusable) == reusable /\ ~Started(c)

\* The exchange is over and the client was told to go on: the next item,
\* from the bytes already read if there are any.
NextItem(c) == [NewTask EXCEPT !.first = FALSE, !.item = task[c].item + 1, !.read = task[c].read,
                               !.pc = IF Leftover(c) THEN "got" ELSE "idle"]

\* send_local_reply: redirects, 404, 429, 500, 503 and the 400s.
LocalReply(c, code, reusable, done) ==
    LET keep == KeepOpen(c, reusable)
        t    == [task[c] EXCEPT !.done = done, !.linger = IF keep THEN @ ELSE ~done]
    IN  /\ Tell(c, Told(c, task[c].item, code, ~keep))
        /\ task' = [task EXCEPT ![c] = IF keep /\ ~Broke(c) THEN NextItem(c)
                                       ELSE [t EXCEPT !.pc = "close"]]

\* analyze_request, the limiter and Framing::of.  A 400 leaves the framing
\* unknown, so it closes; the proxy's own replies read no body, so they keep
\* the connection only when the head was the whole request.
RouteRequest(c) ==
    LET item     == Item(c)
        reusable == item.keepalive /\ HeadIsWhole(item)
        done     == ClientDone(item.keepalive, HeadIsWhole(item), task[c].read > HeadEnd(c))
        connect  == [task[c] EXCEPT !.pc = "connect", !.fwd = Base(c), !.early = FALSE,
                                    !.replayable = FALSE, !.replay = FALSE, !.clean = TRUE,
                                    !.done = ClientDone(item.keepalive, BodyHeld(c) /\ ~item.upgrade,
                                                        Leftover(c))]
    IN  /\ task[c].pc = "route"
        /\ \/ item.route = "bad" /\ LocalReply(c, 400, FALSE, FALSE)
           \/ item.route = "reply" /\ LocalReply(c, 404, reusable, done)
           \/ item.route = "limited" /\ LocalReply(c, 429, reusable, done)
           \/ item.route = "forward" /\ Malformed(c) /\ LocalReply(c, 400, FALSE, FALSE)
           \/ /\ item.route = "forward" /\ ~Malformed(c)
              /\ task' = [task EXCEPT ![c] = connect]
              /\ UNCHANGED seen
        /\ UNCHANGED <<clientVars, wireVars, over, drainVars, backVars>>

Blamed(a) == [blame EXCEPT ![a] = Lesser(@ + 1, MaxBlame)]
Cleared(a) == [blame EXCEPT ![a] = 0]
Gone(bs)  == [b \in Conns |-> IF b \in bs THEN Unused ELSE conn[b]]

\* connect_to_backend from the pool: a checkout probes and pops in one step.
\* It is tried again by acquire, so a miss dials only while none is idle.
TakeIdle(c) ==
    LET o == Owner(c)
        a == Item(c).to
        i == LiveAt(o, a)
    IN  /\ task[c].pc = "connect"
        /\ conn' = Gone(Discarded(o, a))
        /\ pool' = [pool EXCEPT ![o][a] = Remaining(o, a)]
        /\ IF i > 0
           THEN /\ task' = [task EXCEPT ![c].pc = "send", ![c].conn = pool[o][a][i], ![c].reused = TRUE]
                /\ blame' = Cleared(a)
           ELSE task' = [task EXCEPT ![c].pc = "dial", ![c].reused = FALSE] /\ UNCHANGED blame
        /\ UNCHANGED <<clientVars, wireVars, seen, over, drainVars, acted>>

\* A fresh connection (acquire, acquire_fresh): up; refused, unreachable
\* (502) or out of time (504), for which the backend is blamed; or the proxy
\* out of its own fds (503, which neither blames the backend nor lingers).
DialUp(c) ==
    /\ task[c].pc \in {"dial", "fresh"}
    /\ \E b \in Conns :
          /\ conn[b] = Unused /\ \A d \in Conns : d < b => conn[d] # Unused
          /\ conn' = [conn EXCEPT ![b] = Opened(Item(c).to)]
          /\ task' = [task EXCEPT ![c].conn = b,
                                  ![c].pc = IF task[c].pc = "dial" THEN "send" ELSE "resend"]
    /\ blame' = Cleared(Item(c).to)
    /\ UNCHANGED <<clientVars, wireVars, seen, over, drainVars, pool, acted>>

DialFails(c) ==
    /\ task[c].pc \in {"dial", "fresh"}
    /\ \E code \in {502, 504} : Refuse(c, code)
    /\ blame' = Blamed(Item(c).to)
    /\ UNCHANGED <<clientVars, wireVars, over, drainVars, conn, pool, acted>>

DialStarved(c) ==
    /\ task[c].pc \in {"dial", "fresh"}
    /\ Tell(c, Told(c, task[c].item, 503, TRUE))
    /\ Goto(c, "close")
    /\ UNCHANGED <<clientVars, wireVars, over, drainVars, backVars>>

ReplayableAny(c) == task[c].reused /\ BodyHeld(c)

\* Only an idempotent request sent whole on a pooled connection may be sent
\* again after the backend dropped it unanswered.
Replayable(c) == task[c].reused /\ Item(c).idempotent /\ BodyHeld(c)

\* send_request_with_retry: the head and what came with it of the body, and
\* never more.  A pooled connection that fails the send is replaced once.
SendRequest(c) ==
    LET b == task[c].conn
    IN  /\ task[c].pc = "send"
        /\ \E w \in Writes(b, c, RequestEnd(c)) :
              /\ acted' = Acted(c, w.upto)
              /\ \/ /\ w.ok
                    /\ conn' = [conn EXCEPT ![b] = w.conn]
                    /\ task' = [task EXCEPT ![c].pc = "expect", ![c].fwd = RequestEnd(c),
                                            ![c].replayable = Replayable(c)]
                    /\ UNCHANGED <<seen, blame>>
                 \/ /\ ~w.ok /\ task[c].reused
                    /\ conn' = Gone({b})
                    /\ task' = [task EXCEPT ![c].pc = "fresh", ![c].conn = 0]
                    /\ UNCHANGED <<seen, blame>>
                 \/ /\ ~w.ok /\ ~task[c].reused
                    /\ conn' = Gone({b})
                    /\ blame' = Blamed(Item(c).to)
                    /\ Refuse(c, 502)
        /\ UNCHANGED <<clientVars, wireVars, over, drainVars, pool>>

\* resend_on_fresh: the same bytes on the new connection.
Resend(c) ==
    LET b == task[c].conn
        upto == RequestEnd(c)
    IN  /\ task[c].pc = "resend"
        /\ \E w \in Writes(b, c, upto) :
              /\ acted' = Acted(c, w.upto)
              /\ \/ /\ w.ok
                    /\ conn' = [conn EXCEPT ![b] = w.conn]
                    /\ task' = [task EXCEPT ![c].pc = IF task[c].replay THEN "await" ELSE "expect",
                                            ![c].fwd = upto]
                    /\ UNCHANGED <<seen, blame>>
                 \/ /\ ~w.ok
                    /\ conn' = Gone({b})
                    /\ blame' = Blamed(Item(c).to)
                    /\ Refuse(c, 502)
        /\ UNCHANGED <<clientVars, wireVars, over, drainVars, pool>>

\* Expect: 100-continue is answered here, on the backend's behalf.
AnswerExpect(c) ==
    /\ task[c].pc = "expect"
    /\ IF ~Item(c).expect
       THEN Goto(c, "relay") /\ UNCHANGED <<seen, conn>>
       ELSE /\ Tell(c, Told(c, task[c].item, 100, FALSE))
            /\ Goto(c, IF Broke(c) THEN "close" ELSE "relay")
            /\ conn' = IF Broke(c) THEN Gone({task[c].conn}) ELSE conn
    /\ UNCHANGED <<clientVars, wireVars, over, drainVars, pool, blame, acted>>

\* relay_request_body.  The client closing early or breaking the chunked
\* framing is answered 400, the total deadline 408; a stall or a reset of
\* the client ends the connection in silence.  A backend that stops taking
\* the body may have answered already.
RelayBody(c) ==
    LET b == task[c].conn
    IN  /\ task[c].pc = "relay" /\ task[c].fwd < Finish(c)
        /\ \/ \E k \in Reads(c) :
                /\ ~(Item(c).broken /\ k >= Finish(c))
                /\ \E w \in Writes(b, c, Lesser(k, Finish(c))) :
                      /\ acted' = Acted(c, w.upto)
                      /\ conn' = [conn EXCEPT ![b] = w.conn]
                      /\ task' = [task EXCEPT ![c].read = k,
                                              ![c].fwd = IF w.ok THEN Lesser(k, Finish(c)) ELSE @,
                                              ![c].early = ~w.ok,
                                              ![c].pc = IF w.ok THEN "relay" ELSE "await"]
                /\ UNCHANGED seen
           \/ \E k \in Reads(c) :
                /\ Item(c).broken /\ k >= Finish(c)
                /\ Tell(c, Told(c, task[c].item, 400, TRUE))
                /\ task' = [task EXCEPT ![c].pc = "close", ![c].conn = 0, ![c].read = k,
                                        ![c].linger = ~task[c].done]
                /\ conn' = Gone({b}) /\ UNCHANGED acted
           \/ /\ AtEof(c) /\ Refuse(c, 400)
              /\ conn' = Gone({b}) /\ UNCHANGED acted
           \/ /\ Refuse(c, 408)
              /\ conn' = Gone({b}) /\ UNCHANGED acted
           \/ /\ Reads(c) = {}
              /\ task' = [task EXCEPT ![c].pc = "close", ![c].conn = 0]
              /\ conn' = Gone({b}) /\ UNCHANGED <<acted, seen>>
        /\ UNCHANGED <<clientVars, wireVars, over, drainVars, pool, blame>>

\* All of the request is in.
RelayDone(c) ==
    /\ task[c].pc = "relay" /\ task[c].fwd = Finish(c)
    /\ task' = [task EXCEPT ![c].pc = "await",
                            ![c].done = ClientDone(Item(c).keepalive, ~Item(c).upgrade, Leftover(c))]
    /\ UNCHANGED <<clientVars, wireVars, seen, over, drainVars, backVars>>

\* read_response_head swallows interim answers, up to a limit.
SwallowInterim(c) ==
    LET b == task[c].conn
    IN  /\ task[c].pc = "await"
        /\ conn[b].out # <<>> /\ Head(conn[b].out).t = "interim"
        /\ IF task[c].interim = MaxInterim
           THEN Refuse(c, 502) /\ conn' = Gone({b})
           ELSE /\ task' = [task EXCEPT ![c].interim = @ + 1]
                /\ conn' = [conn EXCEPT ![b].out = Tail(@)]
                /\ UNCHANGED seen
        /\ UNCHANGED <<clientVars, wireVars, over, drainVars, pool, blame, acted>>

\* No head: the backend closed before its first byte, or stopped taking the
\* body and left no answer.  A pooled connection it dropped as the request
\* reached it is replaced once, for a request that may be sent twice.
Unanswered(c) ==
    LET b == task[c].conn
    IN  /\ task[c].pc = "await" /\ conn[b].out = <<>>
        /\ task[c].early \/ conn[b].end \in {"fin", "rst"}
        /\ IF task[c].replayable /\ ~task[c].early /\ task[c].interim = 0
           THEN /\ task' = [task EXCEPT ![c].pc = "fresh", ![c].conn = 0, ![c].replay = TRUE,
                                        ![c].replayable = FALSE, ![c].fwd = Base(c)]
                /\ UNCHANGED seen
           ELSE Refuse(c, 502)
        /\ conn' = Gone({b})
        /\ UNCHANGED <<clientVars, wireVars, over, drainVars, pool, blame, acted>>

\* The backend budget runs out before the head: still safe to answer.
AwaitTimeout(c) ==
    /\ task[c].pc = "await" /\ ~task[c].early /\ conn[task[c].conn].out = <<>>
    /\ Refuse(c, 504)
    /\ conn' = Gone({task[c].conn})
    /\ UNCHANGED <<clientVars, wireVars, over, drainVars, pool, blame, acted>>

\* frame_response over the first j tokens read with the head: how much of
\* the body is still to come, and whether the backend sent past its end.
NoBody(item, a)         == item.isHead \/ a.framing = "none"
CloseDelimited(item, a) == ~NoBody(item, a) /\ a.framing = "close"

Framed(item, a, out, j) ==
    LET bodies == Cardinality({i \in 2..j : out[i].t = "body"})
        fits   == IF a.broken THEN Lesser(bodies, a.body - 1) ELSE bodies
    IN  [need   |-> CASE NoBody(item, a) -> 0 [] CloseDelimited(item, a) -> 1 [] OTHER -> a.body - fits,
         brk    |-> ~NoBody(item, a) /\ a.broken,
         bad    |-> ~NoBody(item, a) /\ a.broken /\ bodies = a.body,
         excess |-> ~item.isHead /\ \E i \in 2..j : out[i].t = "extra"]

\* forward_response_headers: the first write to the client.  What was read
\* with the head is forwarded as far as the declared framing goes.
ForwardHead(c) ==
    LET b      == task[c].conn
        out    == conn[b].out
        a      == out[1].a
        item   == Item(c)
        switch == a.switch /\ item.upgrade /\ ~task[c].early
        delim  == CloseDelimited(item, a)
        keep   == KeepOpen(c, item.keepalive /\ ~task[c].early) /\ ~delim
    IN  /\ task[c].pc = "await" /\ out # <<>> /\ out[1].t # "interim"
        /\ \/ /\ a.bad \/ (a.switch /\ ~switch)
              /\ Refuse(c, 502) /\ conn' = Gone({b})
           \/ /\ ~a.bad /\ (switch \/ ~a.switch) /\ Broke(c)
              /\ task' = [task EXCEPT ![c].pc = "close", ![c].conn = 0]
              /\ conn' = Gone({b}) /\ UNCHANGED seen
           \/ /\ ~a.bad /\ ~a.switch /\ ~Broke(c)
              /\ \E j \in 1..Len(out) : LET f == Framed(item, a, out, j) IN
                   /\ seen' = [seen EXCEPT ![c] = Append(@,
                         [n |-> task[c].item, code |-> 200, of |-> out[1].of, close |-> ~keep, missing |-> f.need])]
                   /\ task' = [task EXCEPT ![c].pc = "body", ![c].keep = keep, ![c].need = f.need,
                                           ![c].bad = f.bad, ![c].brk = f.brk, ![c].delim = delim,
                                           ![c].clean = ~f.excess, ![c].closes = a.closes]
                   /\ conn' = [conn EXCEPT ![b].out = SubSeq(@, j + 1, Len(@))]
           \/ /\ ~a.bad /\ switch /\ ~Broke(c)
              /\ seen' = [seen EXCEPT ![c] = Append(@,
                    [n |-> task[c].item, code |-> 101, of |-> out[1].of, close |-> TRUE, missing |-> 0])]
              /\ Goto(c, "tunnel")
              /\ conn' = [conn EXCEPT ![b].out = <<>>]
        /\ UNCHANGED <<clientVars, wireVars, over, drainVars, pool, blame, acted>>

\* An accepted upgrade: the held bytes first, then both ways until it ends.
Tunnel(c) ==
    /\ task[c].pc = "tunnel"
    /\ task' = [task EXCEPT ![c].pc = "close", ![c].conn = 0, ![c].read = sent[c]]
    /\ conn' = Gone({task[c].conn})
    /\ UNCHANGED <<clientVars, wireVars, seen, over, drainVars, pool, blame, acted>>


CutClean(c) == task' = [task EXCEPT ![c].pc = "close", ![c].conn = 0]

\* forward_response_body: only what the framing declares reaches the client.
\* A body cut short by the backend's close, by malformed chunks, by an error
\* or by a deadline arms a reset: no close may make it look complete.
Cut(c) == task' = [task EXCEPT ![c].pc = "close", ![c].conn = 0, ![c].reset = TRUE]

Missing(c, n) == [seen EXCEPT ![c] = [@ EXCEPT ![Len(@)].missing = n]]

ForwardBody(c) ==
    LET b   == task[c].conn
        out == conn[b].out
        t   == task[c]
    IN  /\ t.pc = "body" /\ t.need > 0 /\ ~t.bad
        /\ \/ \E j \in 1..Len(out) :
                LET bodies == Cardinality({i \in 1..j : out[i].t = "body"})
                    left   == IF t.delim THEN t.need ELSE t.need - bodies
                IN  /\ ~Broke(c) /\ ~(t.brk /\ left = 0)
                    /\ seen' = Missing(c, left)
                    /\ task' = [task EXCEPT ![c].need = left,
                                   ![c].clean = @ /\ (t.delim \/ \A i \in 1..j : out[i].t # "extra")]
                    /\ conn' = [conn EXCEPT ![b].out = SubSeq(@, j + 1, Len(@))]
           \/ /\ out = <<>> /\ conn[b].end = "fin" /\ t.delim
              /\ seen' = Missing(c, 0)
              /\ task' = [task EXCEPT ![c].pc = "close", ![c].conn = 0, ![c].linger = ~t.done]
              /\ conn' = Gone({b})
           \/ Cut(c) /\ conn' = Gone({b}) /\ UNCHANGED seen
        /\ UNCHANGED <<clientVars, wireVars, over, drainVars, pool, blame, acted>>

\* Broken by the bytes that arrived with the head.
BodyBroken(c) ==
    /\ task[c].pc = "body" /\ task[c].bad
    /\ Cut(c)
    /\ conn' = Gone({task[c].conn})
    /\ UNCHANGED <<clientVars, wireVars, seen, over, drainVars, pool, blame, acted>>

\* backend_conn_poolable, and the backend's own Connection: close.
Poolable(c) == task[c].clean /\ ~Item(c).isHead /\ ~Item(c).upgrade /\ ~task[c].closes

\* IdleConns::put drops what is over the limit.
Puts(o, a, b) ==
    IF Len(pool[o][a]) < MaxIdle
    THEN pool' = [pool EXCEPT ![o][a] = Append(@, b)] /\ UNCHANGED conn
    ELSE conn' = Gone({b}) /\ UNCHANGED pool

\* The exchange is complete: the backend connection goes back to the pool or
\* is dropped, and the client's goes on exactly when its head said so.
FinishExchange(c) ==
    LET b == task[c].conn
        t == task[c]
    IN  /\ t.pc = "body" /\ t.need = 0 /\ ~t.bad
        /\ \/ /\ ~t.early
              /\ task' = [task EXCEPT ![c] =
                    IF t.keep THEN NextItem(c)
                    ELSE [t EXCEPT !.pc = "close", !.conn = 0, !.linger = ~t.done]]
              /\ IF Poolable(c) THEN Puts(Owner(c), Item(c).to, b)
                 ELSE conn' = Gone({b}) /\ UNCHANGED pool
           \/ /\ t.early
              /\ task' = [task EXCEPT ![c].pc = "close", ![c].conn = 0, ![c].linger = ~t.done]
              /\ conn' = Gone({b}) /\ UNCHANGED pool
           \/ /\ Broke(c)
              /\ task' = [task EXCEPT ![c].pc = "close", ![c].conn = 0]
              /\ conn' = Gone({b}) /\ UNCHANGED pool
        /\ UNCHANGED <<clientVars, wireVars, seen, over, drainVars, blame, acted>>
-----------------------------------------------------------------------------
(* Closing. *)

\* close_connection: a shutdown only over TLS or before a linger, and never
\* over an armed reset.
CloseConn(c) ==
    LET graceful == ~task[c].reset /\ (port[c] = "tls" \/ task[c].linger)
    IN  /\ task[c].pc = "close"
        /\ \/ graceful /\ Goto(c, IF task[c].linger THEN "linger" ELSE "drop")
           \/ ~graceful /\ Goto(c, "drop")
           \/ graceful /\ task' = [task EXCEPT ![c].pc = "drop", ![c].gaveUp = TRUE]
        /\ UNCHANGED <<clientVars, wireVars, seen, over, drainVars, backVars>>

\* read_off: until the client closes; giving up on one that falls silent,
\* or that has sent too much or for too long.
Linger(c) ==
    /\ task[c].pc = "linger"
    /\ \/ \E k \in Reads(c) : task' = [task EXCEPT ![c].read = k]
       \/ Reads(c) = {} /\ ended[c] # "no" /\ Goto(c, "drop")
       \/ task' = [task EXCEPT ![c].pc = "drop", ![c].gaveUp = TRUE]
    /\ UNCHANGED <<clientVars, wireVars, seen, over, drainVars, backVars>>

\* The socket is dropped, and a pool of the connection's own with it.  The
\* kernel resets a socket dropped with bytes unread.
DropConn(c) ==
    /\ task[c].pc = "drop"
    /\ over' = [over EXCEPT ![c] = IF task[c].reset THEN "rst"
                                   ELSE IF Reads(c) # {} /\ ~Broke(c) THEN "torn" ELSE "fin"]
    /\ task' = [task EXCEPT ![c] = [NewTask EXCEPT !.pc = "end", !.item = task[c].item, !.read = task[c].read,
                                                    !.gaveUp = task[c].gaveUp, !.done = task[c].done]]
    /\ watch' = [watch EXCEPT ![c] = "unarmed"]
    /\ waker' = [waker EXCEPT ![c] = "none"]
    /\ IF shared THEN UNCHANGED <<conn, pool>>
       ELSE /\ conn' = Gone(UNION {Range(pool[c][a]) : a \in Address})
            /\ pool' = [pool EXCEPT ![c] = [a \in Address |-> <<>>]]
    /\ UNCHANGED <<clientVars, wireVars, seen, draining, blame, acted>>
-----------------------------------------------------------------------------
(* Raw TCP: opaque bytes on a mixed port, TCP-only and passthrough listeners. *)

Opaque(c) ==
    /\ task[c].pc = "opaque"
    /\ Goto(c, "close") \/ (port[c] = "mixed" /\ Goto(c, "l4dial"))
    /\ UNCHANGED <<clientVars, wireVars, seen, over, drainVars, backVars>>

L4Route(c) ==
    /\ task[c].pc = "l4route"
    /\ Goto(c, "drop") \/ Goto(c, "l4dial")
    /\ UNCHANGED <<clientVars, wireVars, seen, over, drainVars, backVars>>

\* handle_tcp_connection: no status to answer with, so the client is closed.
\* Only a failure of the backend's own is counted against it.
L4Dial(c) ==
    /\ task[c].pc = "l4dial"
    /\ \E a \in Address :
          \/ Goto(c, "drop") /\ UNCHANGED blame
          \/ Goto(c, "drop") /\ blame' = Blamed(a)
          \/ /\ blame' = Cleared(a)
             /\ task' = [task EXCEPT ![c].pc = "l4", ![c].halves = {"up", "down"}]
    /\ UNCHANGED <<clientVars, wireVars, seen, over, drainVars, conn, pool, acted>>

\* relay_l4: bytes go on as they come; a half that ends is passed on, an
\* error ends both, and the half left ends or stalls past the idle budget.
L4Relay(c) ==
    /\ task[c].pc = "l4"
    /\ \/ "up" \in task[c].halves /\ \E k \in Reads(c) : task' = [task EXCEPT ![c].read = k]
       \/ \E h \in task[c].halves :
            /\ h = "up" => AtEof(c)
            /\ task' = [task EXCEPT ![c].halves = @ \ {h},
                                    ![c].pc = IF task[c].halves = {h} THEN "drop" ELSE "l4"]
       \/ Goto(c, "drop")
    /\ UNCHANGED <<clientVars, wireVars, seen, over, drainVars, backVars>>
-----------------------------------------------------------------------------
HttpInit ==
    \E setup \in Setups :
        /\ script = setup.script /\ port = setup.port
        /\ answers = setup.answers /\ shared = setup.shared /\ drains = setup.drains
        /\ sent = [c \in DOMAIN setup.script |-> 0]
        /\ ended = [c \in DOMAIN setup.script |-> "no"]
        /\ task = [c \in DOMAIN setup.script |-> NewTask]
        /\ seen = [c \in DOMAIN setup.script |-> <<>>]
        /\ over = [c \in DOMAIN setup.script |-> "open"]
        /\ draining = FALSE
        /\ watch = [c \in DOMAIN setup.script |-> "unarmed"]
        /\ waker = [c \in DOMAIN setup.script |-> "none"]
        /\ conn = [b \in Conns |-> Unused]
        /\ pool = [o \in DOMAIN setup.script \cup {"process"} |-> [a \in Address |-> <<>>]]
        /\ blame = [a \in Address |-> 0]
        /\ acted = [c \in DOMAIN setup.script |-> [n \in 1..Len(setup.script[c]) |-> 0]]

TaskStep(c) ==
    \/ Accept(c) \/ TlsHello(c) \/ IdlePoll(c) \/ RegisterWaker(c) \/ Recheck(c) \/ Unpark(c)
    \/ GotFirst(c) \/ Sniff(c) \/ GotNext(c) \/ CompleteHead(c) \/ RouteRequest(c)
    \/ TakeIdle(c) \/ DialUp(c) \/ DialFails(c) \/ DialStarved(c)
    \/ SendRequest(c) \/ Resend(c) \/ AnswerExpect(c)
    \/ RelayBody(c) \/ RelayDone(c) \/ SwallowInterim(c) \/ Unanswered(c) \/ AwaitTimeout(c)
    \/ ForwardHead(c) \/ Tunnel(c) \/ ForwardBody(c) \/ BodyBroken(c) \/ FinishExchange(c)
    \/ CloseConn(c) \/ Linger(c) \/ DropConn(c)
    \/ Opaque(c) \/ L4Route(c) \/ L4Dial(c) \/ L4Relay(c)

HttpNext ==
    \/ \E c \in Client : TaskStep(c) \/ ClientSends(c) \/ ClientEnds(c) \/ RaiseFlag(c) \/ CallWaker(c)
    \/ \E b \in Conns : BackendSends(b) \/ BackendEnds(b) \/ \E a \in answers : BackendAnswers(b, a)
    \/ Drain

HttpSpec == HttpInit /\ [][HttpNext]_httpVars
-----------------------------------------------------------------------------
(* Properties. *)

\* A request that is not idempotent reaches a backend whole at most once,
\* through the stale-connection retry, the replay of an unanswered request
\* and every way a pooled connection may die (send_request_with_retry,
\* proxy_http_request's replayable).
ActedOnOnce ==
    \A c \in Client : \A n \in 1..Len(script[c]) : acted[c][n] > 1 => script[c][n].idempotent

\* A backend connection never carries bytes of two requests without an end
\* between them, nor a request that lacks its beginning: what a backend is
\* reading is always a prefix of one request (Framing::of, pipelined bytes,
\* relay_request_body, the reuse of a pooled connection).
OneRequestAtATime ==
    \A b \in Conns : conn[b].got # <<>> =>
        LET first == conn[b].got[1]
            c     == first[1]
            n     == ItemAt(c, first[2])
        IN  /\ first[2] = Ends(c)[n - 1] + 1
            /\ Ends(c)[n - 1] + Len(conn[b].got) <= Ends(c)[n]
            /\ \A i \in DOMAIN conn[b].got : conn[b].got[i] = <<c, Ends(c)[n - 1] + i>>

\* A client is answered in the order of its requests, with its own answers:
\* no reply of another request's, left behind on a pooled connection, is
\* taken for it (idle_and_open, overshoot, backend_conn_poolable).
AnswersMatch ==
    \A c \in Client : \A i \in DOMAIN seen[c] :
        /\ seen[c][i].of # <<>> => seen[c][i].of = <<c, seen[c][i].n>>
        /\ i > 1 => \/ seen[c][i - 1].n < seen[c][i].n
                    \/ seen[c][i - 1].n = seen[c][i].n /\ seen[c][i - 1].code = 100

\* A response body cut short never looks complete: nothing follows it on the
\* connection and the connection does not end with a clean close
\* (forward_response_body, reset_on_drop, close_connection).
NoFakeComplete ==
    \A c \in Client : \A i \in DOMAIN seen[c] :
        seen[c][i].missing > 0 => i = Len(seen[c]) /\ (over[c] = "fin" => Broke(c))

\* A reply that announces the close is not destroyed by a reset over bytes
\* that arrived meanwhile, unless the client asked for the close and was
\* seen to be done, the linger gave up on it, or the reply is one that does
\* not linger: a head too slow, the proxy out of resources
\* (close_after_reply, client_done, read_off).
ReplySurvives ==
    \A c \in Client : over[c] = "torn" /\ seen[c] # <<>> =>
        LET last == seen[c][Len(seen[c])]
        IN  last.close =>
              \/ task[c].gaveUp \/ last.code \in {408, 503, 101}
              \/ ~script[c][last.n].keepalive /\ task[c].read = Ends(c)[last.n]

\* What a client takes for the whole answer is the whole answer: one cut
\* short shows, and one that is whole is not lost to the close.
AnswersWhole == NoFakeComplete /\ ReplySurvives

\* A drain wakes every connection that waits idle: none parks after the
\* flag was raised and its waker called (DrainWatch::wait, wake_by_ref).
NoLostWakeup ==
    \A c \in Client : task[c].pc = "parked" /\ watch[c] = "called" => waker[c] = "woken"
=============================================================================

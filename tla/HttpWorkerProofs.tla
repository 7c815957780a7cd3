--------------------------- MODULE HttpWorkerProofs ---------------------------
(***************************************************************************)
(* Proofs about the connection tasks, for every set of clients, scripts    *)
(* and backends, every pool limit and every bound.                         *)
(*                                                                         *)
(* HttpInv carries three of the properties of HttpWorker at once, because  *)
(* they rest on one another.  That a request is not acted on twice needs   *)
(* to know what lies on the connection it is written to; that depends on   *)
(* pooled connections carrying whole requests only and on no connection    *)
(* being held by two; and when a close may destroy a reply depends on what *)
(* has been read of the request the reply answers.                         *)
(*                                                                         *)
(* Ends is recursive.  The induction theorems of the library take an       *)
(* operator, which no backend instantiates; Least is the induction         *)
(* principle used instead: a counterexample would have a least one.        *)
(*                                                                         *)
(* The last section is about the drain, which has an invariant of its own. *)
(***************************************************************************)
EXTENDS HttpWorker, WellFoundedInduction, FiniteSetTheorems, SequenceTheorems, TLAPS

-----------------------------------------------------------------------------
(* The inductive invariant. *)

\* Where a task may be: on the way to a backend connection or sending on it,
\* with one in hand, past its last reply, or reading for a request.
Pcs == {"new", "hello", "idle", "register", "recheck", "parked", "got", "sniff", "head", "route", "opaque",
        "l4route", "l4dial", "l4", "connect", "dial", "fresh", "send", "resend", "expect", "relay",
        "await", "body", "tunnel", "close", "linger", "drop", "end"}
Fetching == {"connect", "dial", "fresh", "send", "resend"}
Holding  == {"send", "resend", "expect", "relay", "await", "body", "tunnel"}
Serving  == Fetching \cup Holding
Over     == {"close", "linger", "drop", "end"}
Reading  == Pcs \ (Serving \cup Over)

\* The fields of a task.
Fields == {"pc", "first", "item", "read", "fwd", "conn", "reused", "replayable", "replay", "early", "interim",
           "keep", "need", "bad", "brk", "delim", "clean", "closes", "linger", "done", "reset", "gaveUp", "halves"}

Doms ==
    /\ DOMAIN task = Client /\ DOMAIN sent = Client /\ DOMAIN ended = Client /\ DOMAIN seen = Client
    /\ DOMAIN over = Client /\ DOMAIN acted = Client /\ DOMAIN conn = Conns
    /\ \A c \in Client : script[c] \in Seq(ClientItems) /\ DOMAIN task[c] = Fields

TaskOk(c) ==
    /\ task[c].pc \in Pcs
    /\ task[c].item \in 1..(Len(script[c]) + 1) /\ task[c].read \in Nat /\ task[c].fwd \in Nat
    /\ sent[c] \in Nat

\* How much of the request being served has been read and forwarded; what
\* may be sent again is idempotent and held whole; a client that is done
\* asked for the close and has sent nothing past its request.
ServeOk(c) ==
    /\ task[c].pc \in Serving \cup {"head", "route"} =>
          task[c].item <= Len(script[c]) /\ Item(c).kind = "request"
    /\ task[c].pc \in Serving \cup {"route"} => task[c].read >= HeadEnd(c)
    /\ task[c].pc \in Fetching => task[c].fwd = Base(c)
    /\ task[c].pc \in {"expect", "relay"} => task[c].fwd = RequestEnd(c)
    /\ task[c].pc \in {"await", "body", "tunnel"} /\ ~task[c].early => BodyHeld(c)
    /\ task[c].pc \in Serving /\ (task[c].replayable \/ task[c].replay) => Item(c).idempotent /\ BodyHeld(c)
    /\ task[c].pc \in Serving /\ task[c].done => ~Item(c).keepalive /\ task[c].read = Finish(c)
    /\ task[c].pc \in Reading => ~task[c].done

\* How often each request was got whole: never one still to come, and never
\* one that is not idempotent while a send of it may yet complete it.
ActedOk(c) ==
    /\ acted[c] \in [1..Len(script[c]) -> 0..2]
    /\ \A n \in 1..Len(script[c]) :
          /\ n > task[c].item => acted[c][n] = 0
          /\ n = task[c].item /\ task[c].pc \in Reading => acted[c][n] = 0
          /\ ~script[c][n].idempotent =>
                /\ acted[c][n] <= 1
                /\ n = task[c].item /\ task[c].pc \in Fetching => acted[c][n] = 0
                /\ n = task[c].item /\ task[c].pc \in {"expect", "relay"} /\ task[c].fwd < Finish(c) => acted[c][n] = 0

\* What may lie on a backend connection: nothing, the beginning of a request
\* or a whole one.
Bytes(c, from, to) == [i \in 1..(to - from) |-> <<c, from + i>>]
Piece(c, n, m) == Bytes(c, Ends(c)[n - 1], Ends(c)[n - 1] + m)
Pieces == {<<>>} \cup UNION {UNION {{Piece(c, n, m) : m \in 1..Parts(script[c][n])}
                                    : n \in 1..Len(script[c])} : c \in Client}
Wholes == {<<>>} \cup UNION {{Bytes(c, Ends(c)[n - 1], Ends(c)[n]) : n \in 1..Len(script[c])} : c \in Client}

ConnOk(b) ==
    /\ DOMAIN conn[b] = DOMAIN Unused
    /\ conn[b].end \in {"none", "up", "fin", "rst"}
    /\ conn[b].got \in Pieces

\* The connection in hand: whole requests of before until the send, then the
\* part of this one that was forwarded, then all of it.
HoldOk(c) == task[c].pc \in Holding =>
    LET b == task[c].conn IN
    /\ b \in Conns /\ conn[b].end # "none"
    /\ conn[b].end = "up" =>
        /\ task[c].pc \in {"send", "resend"} => conn[b].got \in Wholes
        /\ task[c].pc \in {"expect", "relay"} => conn[b].got = Bytes(c, Base(c), task[c].fwd)
        /\ task[c].pc \in {"await", "body", "tunnel"} /\ ~task[c].early => conn[b].got = Bytes(c, Base(c), Finish(c))

\* The places of the pools, and what lies at one.
Owners == Client \cup {"process"}
Places == {p \in Owners \X Address \X Nat : p[3] \in 1..Len(pool[p[1]][p[2]])}
At(p)  == pool[p[1]][p[2]][p[3]]

\* A pooled connection carries whole requests only, lies at one place, and is
\* in no task's hands; no connection is in two tasks' hands.
PoolType    == pool \in [Owners -> [Address -> Seq(Conns)]]
PooledOk    == \A p \in Places : conn[At(p)].end # "none" /\ (conn[At(p)].end = "up" => conn[At(p)].got \in Wholes)
PooledApart == \A p, q \in Places : At(p) = At(q) => p = q
HeldApart   == /\ \A c \in Client : task[c].pc \in Holding => \A p \in Places : At(p) # task[c].conn
               /\ \A c, d \in Client : /\ task[c].pc \in Holding /\ task[d].pc \in Holding
                                       /\ task[c].conn = task[d].conn
                                       => c = d
PoolOk == PoolType /\ PooledOk /\ PooledApart /\ HeldApart

\* The last reply, whether it announces the close, and what excuses a reset
\* over bytes that arrive after it.
LastSeen(c) == seen[c][Len(seen[c])]
TellsClose(c) == seen[c] # <<>> /\ LastSeen(c).close
Excused(c) ==
    \/ LastSeen(c).code \in {408, 503, 101}
    \/ ~script[c][LastSeen(c).n].keepalive /\ task[c].read = Ends(c)[LastSeen(c).n]

IsReplies(s) ==
    /\ Len(s) \in Nat /\ s = [i \in 1..Len(s) |-> s[i]]
    /\ \A i \in 1..Len(s) : DOMAIN s[i] = {"n", "code", "of", "close", "missing"}

\* Only the last reply may lack a part, while its body is being forwarded or
\* once a reset is armed or done.
WholeOk(c) ==
    /\ IsReplies(seen[c])
    /\ \A i \in 1..Len(seen[c]) : i = Len(seen[c]) \/ seen[c][i].missing = 0
    /\ task[c].pc # "end" => over[c] = "open"
    /\ task[c].pc = "body" => /\ seen[c] # <<>> /\ LastSeen(c).missing = task[c].need
                              /\ LastSeen(c).n = task[c].item
    /\ seen[c] # <<>> /\ LastSeen(c).missing # 0 =>
          \/ task[c].pc = "body" \/ (task[c].pc \in {"close", "drop"} /\ task[c].reset)
          \/ (task[c].pc = "end" /\ over[c] = "rst")

\* Once a reply announces the close nothing is served any more, and the
\* close lingers, is excused, or reset anyway.
CloseOk(c) ==
    /\ TellsClose(c) => /\ task[c].pc \in {"body", "tunnel"} \cup Over
                        /\ task[c].pc = "body" => ~task[c].keep
                        /\ task[c].pc = "tunnel" => LastSeen(c).code = 101
                        /\ task[c].pc = "close" => task[c].linger \/ task[c].reset \/ Broke(c) \/ Excused(c)
                        /\ task[c].pc = "drop" => \/ task[c].reset \/ Broke(c) \/ Excused(c) \/ task[c].gaveUp
                                                  \/ Reads(c) = {} /\ ended[c] # "no"
                        /\ task[c].pc = "end" /\ over[c] = "torn" => Excused(c) \/ task[c].gaveUp

StreamInv == \A c \in Client : TaskOk(c) /\ ServeOk(c)
ActedInv  == \A c \in Client : ActedOk(c)
ConnsInv  == (\A b \in Conns : ConnOk(b)) /\ (\A c \in Client : HoldOk(c)) /\ PoolOk
SeenInv   == \A c \in Client : WholeOk(c) /\ CloseOk(c)
HttpInv   == Doms /\ StreamInv /\ ActedInv /\ ConnsInv /\ SeenInv

-----------------------------------------------------------------------------
(* The stream, and sums along it. *)

\* Every set of natural numbers has a least element: the induction principle
\* of this module, from the well-founded inclusion of finite sets.
LEMMA Least ==
    ASSUME NEW S \in SUBSET Nat, S # {}
    PROVE  \E n \in S : \A m \in S : n <= m
<1> DEFINE T == {1 .. n : n \in S}
<1>1. T # {} /\ T \subseteq FiniteSubsetsOf(Nat)
  <2>1. ASSUME NEW n \in S PROVE 1 .. n \in FiniteSubsetsOf(Nat)
    <3>1. IsFiniteSet(1 .. n)
        BY FS_Interval
    <3> QED  BY <3>1 DEF FiniteSubsetsOf
  <2> QED  BY <2>1
<1>2. IsWellFoundedOn(StrictSubsetOrdering(Nat), FiniteSubsetsOf(Nat))
    BY FS_StrictSubsetOrderingWellFounded
<1>3. PICK x \in T : \A y \in T : ~(<<y, x>> \in StrictSubsetOrdering(Nat))
  <2> HIDE DEF T
  <2> QED  BY <1>1, <1>2, WFMin
<1>4. PICK n \in S : x = 1 .. n
    BY <1>3
<1>5. ASSUME NEW m \in S, m < n PROVE FALSE
  <2>1. 1 .. m \in T
      BY <1>5
  <2>2. 1 .. m \subseteq 1 .. n /\ n \in 1 .. n /\ n \notin 1 .. m /\ 1 .. n \subseteq Nat
      BY <1>5
  <2>3. <<1 .. m, 1 .. n>> \in StrictSubsetOrdering(Nat)
      BY <2>2 DEF StrictSubsetOrdering
  <2>4. ~(<<1 .. m, x>> \in StrictSubsetOrdering(Nat))
    <3> HIDE DEF T
    <3> QED  BY <1>3, <2>1
  <2> HIDE DEF T
  <2> QED  BY <1>4, <2>3, <2>4
<1>6. ASSUME NEW m \in S PROVE n <= m
  <2>1. m \in Nat /\ n \in Nat /\ ~(m < n)
      BY <1>5
  <2> QED  BY <2>1
<1> QED  BY <1>6

\* Running sums of a finite sequence of numbers exist.
LEMMA SumsExist ==
    ASSUME NEW L \in Nat, NEW P \in [1..L -> Nat]
    PROVE  \E f \in [0..L -> Nat] : f[0] = 0 /\ \A n \in 1..L : f[n] = f[n - 1] + P[n]
<1> DEFINE Sums(n) == \E f \in [0..n -> Nat] : f[0] = 0 /\ \A m \in 1..n : f[m] = f[m - 1] + P[m]
           B == {n \in 0..L : ~Sums(n)}
<1>1. Sums(0)
    <2> DEFINE z == [i \in 0..0 |-> 0]
    <2>1. z \in [0..0 -> Nat] /\ z[0] = 0 /\ 1..0 = {}
        OBVIOUS
    <2> HIDE DEF z
    <2> QED  BY <2>1
<1>2. ASSUME NEW n \in 0..L, n < L, Sums(n) PROVE Sums(n + 1)
    <2>1. PICK f \in [0..n -> Nat] : f[0] = 0 /\ \A m \in 1..n : f[m] = f[m - 1] + P[m]
        BY <1>2
    <2> DEFINE g == [i \in 0..(n + 1) |-> IF i = n + 1 THEN f[n] + P[n + 1] ELSE f[i]]
    <2>2. P[n + 1] \in Nat /\ f[n] \in Nat
        BY <1>2
    <2>3. g \in [0..(n + 1) -> Nat]
        BY <2>2
    <2>4. g[0] = 0
        BY <2>1
    <2>5. ASSUME NEW m \in 1..(n + 1) PROVE g[m] = g[m - 1] + P[m]
        <3>1. CASE m = n + 1
            BY <3>1
        <3>2. CASE m # n + 1
            BY <3>2, <2>1
        <3> QED  BY <3>1, <3>2
    <2> HIDE DEF g
    <2> QED  BY <2>3, <2>4, <2>5
<1>3. B = {}
    <2> SUFFICES ASSUME B # {} PROVE FALSE
        OBVIOUS
    <2>1. B \in SUBSET Nat
        OBVIOUS
    <2>2. PICK n \in B : \A m \in B : n <= m
        <3> HIDE DEF B
        <3> QED  BY <2>1, Least
    <2> HIDE DEF Sums
    <2>3. n # 0
        BY <1>1
    <2>4. n - 1 \in 0..L /\ n - 1 < L /\ n - 1 < n
        BY <2>2, <2>3
    <2>5. n - 1 \notin B
        BY <2>2, <2>4
    <2>6. Sums(n - 1)
        BY <2>4, <2>5
    <2>7. Sums((n - 1) + 1)
        BY <1>2, <2>4, <2>6
    <2>8. (n - 1) + 1 = n
        BY <2>2
    <2> QED  BY <2>2, <2>7, <2>8
<1> HIDE DEF Sums
<1>4. Sums(L)
    BY <1>3
<1> QED  BY <1>4 DEF Sums

\* Every item takes at least one position of the stream.
LEMMA PartsPositive ==
    ASSUME NEW item \in ClientItems
    PROVE  Parts(item) \in Nat /\ Parts(item) >= 1 /\ (item.kind = "request" => Parts(item) = 2 + item.body /\ item.body \in Nat)
BY DEF Parts, ClientItems

\* The recursive Ends is what it says: the running sum of the items' parts.
LEMMA EndsDef ==
    ASSUME NEW c, script[c] \in Seq(ClientItems)
    PROVE  /\ Ends(c) \in [0..Len(script[c]) -> Nat]
           /\ Ends(c)[0] = 0
           /\ \A n \in 1..Len(script[c]) : Ends(c)[n] = Ends(c)[n - 1] + Parts(script[c][n])
<1> DEFINE L == Len(script[c])
           P == [n \in 1..L |-> Parts(script[c][n])]
           Def(e) == e = [n \in 0..L |-> IF n = 0 THEN 0 ELSE e[n - 1] + Parts(script[c][n])]
<1>1. L \in Nat /\ \A n \in 1..L : script[c][n] \in ClientItems
    OBVIOUS
<1>2. P \in [1..L -> Nat]
    BY <1>1, PartsPositive
<1>3. PICK f \in [0..L -> Nat] : f[0] = 0 /\ \A n \in 1..L : f[n] = f[n - 1] + P[n]
    <2> HIDE DEF P, L
    <2> QED  BY <1>1, <1>2, SumsExist
<1>4. Def(f)
    <2>1. \A n \in 0..L : f[n] = IF n = 0 THEN 0 ELSE f[n - 1] + Parts(script[c][n])
        <3> TAKE n \in 0..L
        <3>1. n # 0 => n \in 1..L
            BY <1>1
        <3>2. n # 0 => P[n] = Parts(script[c][n])
            BY <3>1
        <3> HIDE DEF P, L
        <3> QED  BY <1>3, <3>1, <3>2
    <2> QED  BY <2>1, <1>3
<1>5. Ends(c) = CHOOSE e : Def(e)
    BY DEF Ends
<1>6. Def(Ends(c))
    <2> HIDE DEF Def
    <2> QED  BY <1>4, <1>5
<1> DEFINE E == Ends(c)
<1>7. E = [n \in 0..L |-> IF n = 0 THEN 0 ELSE E[n - 1] + Parts(script[c][n])]
    BY <1>6
<1> HIDE DEF E
<1>8. E[0] = 0 /\ \A n \in 1..L : E[n] = E[n - 1] + P[n]
    <2>1. \A n \in 0..L : E[n] = IF n = 0 THEN 0 ELSE E[n - 1] + Parts(script[c][n])
        <3> TAKE n \in 0..L
        <3> QED  BY <1>7, Zenon
    <2>2. 0 \in 0..L /\ \A n \in 1..L : n \in 0..L /\ n # 0
        BY <1>1
    <2>3. \A n \in 1..L : P[n] = Parts(script[c][n])
        OBVIOUS
    <2> HIDE DEF P, L
    <2> QED  BY <2>1, <2>2, <2>3
<1> DEFINE B == {n \in 0..L : E[n] # f[n]}
<1>9. B = {}
    <2> SUFFICES ASSUME B # {} PROVE FALSE
        OBVIOUS
    <2>1. PICK n \in B : \A m \in B : n <= m
        <3>1. B \in SUBSET Nat
            BY <1>1
        <3> HIDE DEF B
        <3> QED  BY <3>1, Least
    <2>2. n # 0
        BY <1>3, <1>8
    <2>3. n - 1 \in 0..L /\ n - 1 < n /\ n \in 1..L
        BY <2>1, <2>2, <1>1
    <2>4. E[n - 1] = f[n - 1]
        BY <2>1, <2>3
    <2> HIDE DEF P, L
    <2> QED  BY <2>1, <2>3, <2>4, <1>3, <1>8
<1>10. E \in [0..L -> Nat]
    BY <1>7, <1>9
<1> QED  BY <1>8, <1>10, <1>1 DEF E

\* A later item ends later: were one not to, take the least such.
LEMMA EndsMonotone ==
    ASSUME NEW c, script[c] \in Seq(ClientItems),
           NEW m \in 0..Len(script[c]), NEW n \in 0..Len(script[c]), m < n
    PROVE  Ends(c)[m] < Ends(c)[n]
<1> DEFINE L == Len(script[c])
           E == Ends(c)
           B == {k \in 0..L : m < k /\ ~(E[m] < E[k])}
<1>1. L \in Nat /\ \A k \in 1..L : script[c][k] \in ClientItems
    OBVIOUS
<1>2. E \in [0..L -> Nat] /\ \A k \in 1..L : E[k] = E[k - 1] + Parts(script[c][k])
    BY EndsDef
<1>3. \A k \in 1..L : Parts(script[c][k]) \in Nat /\ Parts(script[c][k]) >= 1
    BY <1>1, PartsPositive
<1>4. \A k \in 1..L : E[k - 1] < E[k]
    <2> HIDE DEF E, L
    <2> TAKE k \in 1..L
    <2>1. k - 1 \in 0..L /\ k \in 0..L
        BY <1>1
    <2>2. E[k - 1] \in Nat /\ E[k] \in Nat
        BY <1>2, <2>1
    <2> QED  BY <1>2, <1>3, <2>2
<1> HIDE DEF E
<1>5. B = {}
    <2> SUFFICES ASSUME B # {} PROVE FALSE
        OBVIOUS
    <2>1. PICK k \in B : \A j \in B : k <= j
        <3>1. B \in SUBSET Nat
            BY <1>1
        <3> HIDE DEF B
        <3> QED  BY <3>1, Least
    <2>2. k \in 1..L /\ k - 1 \in 0..L /\ k - 1 < k /\ m <= k - 1
        BY <2>1, <1>1
    <2>3. E[m] <= E[k - 1]
        <3>1. CASE m = k - 1
            BY <3>1, <1>2, <2>2
        <3>2. CASE m # k - 1
            <4>1. m < k - 1 /\ k - 1 \notin B
                BY <3>2, <2>1, <2>2, <1>1
            <4>2. E[m] < E[k - 1]
                BY <4>1, <2>2
            <4>3. E[m] \in Nat /\ E[k - 1] \in Nat
                BY <1>2, <2>2
            <4> HIDE DEF B
            <4> QED  BY <4>2, <4>3
        <3> QED  BY <3>1, <3>2
    <2>4. E[m] \in Nat /\ E[k - 1] \in Nat /\ E[k] \in Nat
        BY <1>2, <2>2
    <2> QED  BY <2>1, <2>2, <2>3, <2>4, <1>4
<1> QED  BY <1>5 DEF E

\* A client's script, so where its items end, never changes.
LEMMA EndsKept == ASSUME NEW c, script' = script PROVE Ends(c)' = Ends(c)
BY DEF Ends

-----------------------------------------------------------------------------
(* What the steps set of a task. *)

\* A step of the task of c that leads to pc and leaves all fields alone but F.
Sets(c, pc, F) ==
    /\ DOMAIN task' = DOMAIN task
    /\ \A d \in Client \ {c} : task'[d] = task[d]
    /\ DOMAIN task'[c] = Fields /\ task'[c].pc = pc
    /\ \A f \in Fields \ ({"pc"} \cup F) : task'[c][f] = task[c][f]

\* Goto changes where the task is and nothing else of it.
LEMMA GotoSets ==
    ASSUME Doms, NEW c \in Client, NEW pc, Goto(c, pc)
    PROVE  Sets(c, pc, {})
BY DEF Doms, Fields, Sets, Goto

\* A refusal closes and lingers unless the client is done (close_after_reply).
LEMMA RefuseSets ==
    ASSUME Doms, NEW c \in Client, NEW code, Refuse(c, code)
    PROVE  Sets(c, "close", {"conn", "linger"}) /\ task'[c].linger = ~task[c].done
BY DEF Doms, Fields, Sets, Refuse

\* A task given up on a connection: closing, with nothing in hand.
LEMMA DropsSets ==
    ASSUME Doms, NEW c \in Client, task' = [task EXCEPT ![c].pc = "close", ![c].conn = 0]
    PROVE  Sets(c, "close", {"conn"})
BY DEF Doms, Fields, Sets

\* A close after a whole answer, its linger decided by client_done.
LEMMA LingersSets ==
    ASSUME Doms, NEW c \in Client, task' = [task EXCEPT ![c].pc = "close", ![c].conn = 0, ![c].linger = ~task[c].done]
    PROVE  Sets(c, "close", {"conn", "linger"}) /\ task'[c].linger = ~task[c].done
BY DEF Doms, Fields, Sets

\* A body cut short arms the reset and lets go of the backend.
LEMMA CutSets ==
    ASSUME Doms, NEW c \in Client, Cut(c)
    PROVE  Sets(c, "close", {"conn", "reset"}) /\ task'[c].reset = TRUE
BY DEF Doms, Fields, Sets, Cut

\* A read moves the task on and takes more of the stream.
LEMMA ReadSets ==
    ASSUME Doms, NEW c \in Client, NEW pc, NEW k, task' = [task EXCEPT ![c].pc = pc, ![c].read = k]
    PROVE  Sets(c, pc, {"read"}) /\ task'[c].read = k
BY DEF Doms, Fields, Sets

\* A read where the task stays put.
LEMMA ReadOnlySets ==
    ASSUME Doms, NEW c \in Client, NEW k, task' = [task EXCEPT ![c].read = k]
    PROVE  Sets(c, task[c].pc, {"read"}) /\ task'[c].read = k
BY DEF Doms, Fields, Sets

\* A request opens: its head is whole, or more of it is read first.
LEMMA HeadOrRouteSets ==
    ASSUME Doms, NEW c \in Client, NEW n, HeadOrRoute(c, n)
    PROVE  \E pc \in {"head", "route"} :
              /\ Sets(c, pc, {"item", "first"}) /\ task'[c].item = n
              /\ pc = "route" => task[c].read >= Ends(c)[n - 1] + 2
<1>1. PICK pc \in {"head", "route"} :
        /\ task' = [task EXCEPT ![c].item = n, ![c].first = FALSE, ![c].pc = pc]
        /\ pc = "route" => task[c].read >= Ends(c)[n - 1] + 2
    BY DEF HeadOrRoute
<1>2. Sets(c, pc, {"item", "first"}) /\ task'[c].item = n
    BY <1>1 DEF Doms, Fields, Sets
<1> QED  BY <1>1, <1>2

\* A new task has every field.
LEMMA NewTaskFields == DOMAIN NewTask = Fields
BY DEF NewTask, Fields

\* The task of the next request: nothing of the last one's but what was read.
LEMMA NextItemFields ==
    ASSUME NEW c
    PROVE  /\ DOMAIN NextItem(c) = Fields
           /\ NextItem(c).item = task[c].item + 1 /\ NextItem(c).read = task[c].read
           /\ NextItem(c).pc = (IF Leftover(c) THEN "got" ELSE "idle")
           /\ NextItem(c).done = FALSE /\ NextItem(c).fwd = 0
BY DEF NextItem, NewTask, Fields

\* After an exchange that keeps the connection the next item is unread.
LEMMA NextItemMoves ==
    ASSUME Doms, NEW c \in Client, task' = [task EXCEPT ![c] = NextItem(c)]
    PROVE  /\ DOMAIN task' = DOMAIN task
           /\ \A d \in Client \ {c} : task'[d] = task[d]
           /\ DOMAIN task'[c] = Fields
           /\ task'[c].item = task[c].item + 1 /\ task'[c].read = task[c].read
           /\ task'[c].pc \in {"got", "idle"} /\ task'[c].done = FALSE /\ task'[c].fwd = 0
<1>1. task'[c] = NextItem(c) /\ DOMAIN task' = DOMAIN task /\ \A d \in Client \ {c} : task'[d] = task[d]
    BY DEF Doms
<1> QED  BY <1>1, NextItemFields

BodyTask(c, keep, need, bad, brk, delim, clean, closes) ==
    [task EXCEPT ![c].pc = "body", ![c].keep = keep, ![c].need = need, ![c].bad = bad, ![c].brk = brk,
                 ![c].delim = delim, ![c].clean = clean, ![c].closes = closes]

\* A forwarded head fixes how the body behind it is framed.
LEMMA BodySets ==
    ASSUME Doms, NEW c \in Client, NEW keep, NEW need, NEW bad, NEW brk, NEW delim, NEW clean, NEW closes,
           task' = BodyTask(c, keep, need, bad, brk, delim, clean, closes)
    PROVE Sets(c, "body", {"keep", "need", "bad", "brk", "delim", "clean", "closes"}) /\ task'[c].keep = keep /\ task'[c].need = need
<1> DEFINE T1 == [task EXCEPT ![c].pc = "body"]
           T2 == [T1 EXCEPT ![c].keep = keep]
           T3 == [T2 EXCEPT ![c].need = need]
           T4 == [T3 EXCEPT ![c].bad = bad]
           T5 == [T4 EXCEPT ![c].brk = brk]
           T6 == [T5 EXCEPT ![c].delim = delim]
           T7 == [T6 EXCEPT ![c].clean = clean]
           T8 == [T7 EXCEPT ![c].closes = closes]
           Like(T, U, f) == DOMAIN U = Client /\ DOMAIN U[c] = Fields /\ (\A d \in Client \ {c} : U[d] = T[d]) /\ (\A g \in Fields \ {f} : U[c][g] = T[c][g])
<1>0. task' = T8
    BY DEF BodyTask
<1>1. Like(task, T1, "pc") /\ T1[c].pc = "body"
    BY DEF Doms, Fields
<1> HIDE DEF T1
<1>2. Like(T1, T2, "keep") /\ T2[c].keep = keep
    BY <1>1 DEF Fields
<1> HIDE DEF T2
<1>3. Like(T2, T3, "need") /\ T3[c].need = need
    BY <1>2 DEF Fields
<1> HIDE DEF T3
<1>4. Like(T3, T4, "bad")
    BY <1>3 DEF Fields
<1> HIDE DEF T4
<1>5. Like(T4, T5, "brk")
    BY <1>4 DEF Fields
<1> HIDE DEF T5
<1>6. Like(T5, T6, "delim")
    BY <1>5 DEF Fields
<1> HIDE DEF T6
<1>7. Like(T6, T7, "clean")
    BY <1>6 DEF Fields
<1> HIDE DEF T7
<1>8. Like(T7, T8, "closes")
    BY <1>7 DEF Fields
<1> HIDE DEF T8
<1>9. DOMAIN T8 = Client /\ DOMAIN T8[c] = Fields /\ \A d \in Client \ {c} : T8[d] = task[d]
    BY <1>1, <1>2, <1>3, <1>4, <1>5, <1>6, <1>7, <1>8
<1>10. ASSUME NEW f \in Fields, f \notin {"pc", "keep", "need", "bad", "brk", "delim", "clean", "closes"}
       PROVE  T8[c][f] = task[c][f]
    BY <1>10, <1>1, <1>2, <1>3, <1>4, <1>5, <1>6, <1>7, <1>8
<1>11. {"pc", "keep", "need"} \subseteq Fields
    BY DEF Fields
<1>12. T8[c]["pc"] = "body" /\ T8[c]["keep"] = keep /\ T8[c]["need"] = need
    BY <1>11, <1>1, <1>2, <1>3, <1>4, <1>5, <1>6, <1>7, <1>8
<1>13. task'[c].pc = "body" /\ task'[c].keep = keep /\ task'[c].need = need
    BY <1>0, <1>12
<1>14. \A f \in Fields \ ({"pc"} \cup {"keep", "need", "bad", "brk", "delim", "clean", "closes"}) : task'[c][f] = task[c][f]
    BY <1>0, <1>10
<1> QED  BY <1>0, <1>9, <1>13, <1>14 DEF Sets, Doms

\* route to connect: what the request starts from (proxy_http_request).
LEMMA ConnectSets ==
    ASSUME Doms, NEW c \in Client, NEW fwd, NEW done,
           task' = [task EXCEPT ![c] = [task[c] EXCEPT !.pc = "connect", !.fwd = fwd, !.early = FALSE,
                                    !.replayable = FALSE, !.replay = FALSE, !.clean = TRUE, !.done = done]]
    PROVE  /\ Sets(c, "connect", {"fwd", "early", "replayable", "replay", "clean", "done"})
           /\ task'[c].fwd = fwd /\ task'[c].early = FALSE /\ task'[c].replayable = FALSE
           /\ task'[c].replay = FALSE /\ task'[c].done = done
<1> DEFINE u == [task[c] EXCEPT !.pc = "connect", !.fwd = fwd, !.early = FALSE,
                                    !.replayable = FALSE, !.replay = FALSE, !.clean = TRUE, !.done = done]
<1>1. task'[c] = u /\ DOMAIN task' = DOMAIN task /\ \A d \in Client \ {c} : task'[d] = task[d]
    BY DEF Doms
<1>2. DOMAIN u = Fields
    BY DEF Doms
<1>3. u.fwd = fwd /\ u.early = FALSE /\ u.replayable = FALSE /\ u.replay = FALSE /\ u.done = done /\ u.pc = "connect"
    BY DEF Doms, Fields
<1>4. \A f \in Fields \ ({"pc"} \cup {"fwd", "early", "replayable", "replay", "clean", "done"}) : u[f] = task[c][f]
    BY DEF Doms
<1> HIDE DEF u
<1> QED  BY <1>1, <1>2, <1>3, <1>4 DEF Sets

\* LocalReply: the next request, or the close with the linger it decides.
LEMMA LocalReplySets ==
    ASSUME Doms, NEW c \in Client, NEW code, NEW reusable, NEW done, LocalReply(c, code, reusable, done)
    PROVE  \/ /\ KeepOpen(c, reusable) /\ ~Broke(c)
              /\ task' = [task EXCEPT ![c] = NextItem(c)]
           \/ /\ ~KeepOpen(c, reusable) \/ Broke(c)
              /\ Sets(c, "close", {"done", "linger"})
              /\ ~KeepOpen(c, reusable) => task'[c].linger = ~done
<1> DEFINE keep == KeepOpen(c, reusable)
           t == [task[c] EXCEPT !.done = done, !.linger = IF keep THEN @ ELSE ~done]
           u == [t EXCEPT !.pc = "close"]
<1>1. CASE keep /\ ~Broke(c)
    BY <1>1 DEF LocalReply
<1>2. CASE ~(keep /\ ~Broke(c))
    <2>1. task' = [task EXCEPT ![c] = u]
        BY <1>2 DEF LocalReply
    <2>2. task'[c] = u /\ DOMAIN task' = DOMAIN task /\ \A d \in Client \ {c} : task'[d] = task[d]
        BY <2>1 DEF Doms
    <2>3. DOMAIN u = Fields /\ u.pc = "close" /\ \A f \in Fields \ ({"pc"} \cup {"done", "linger"}) : u[f] = task[c][f]
        BY DEF Doms, Fields
    <2>4. ~keep => u.linger = ~done
        BY DEF Doms, Fields
    <2> HIDE DEF u, keep
    <2>5. Sets(c, "close", {"done", "linger"})
        BY <2>2, <2>3 DEF Sets
    <2> QED  BY <1>2, <2>2, <2>4, <2>5 DEF keep
<1> QED  BY <1>1, <1>2

-----------------------------------------------------------------------------
(* Reading for a request. *)

\* What an item takes of the stream.
LEMMA ItemFacts ==
    ASSUME Doms, NEW c \in Client, NEW n \in 1..Len(script[c])
    PROVE  /\ script[c][n] \in ClientItems
           /\ Ends(c)[n - 1] \in Nat /\ Ends(c)[n] \in Nat
           /\ Ends(c)[n] = Ends(c)[n - 1] + Parts(script[c][n])
           /\ Parts(script[c][n]) \in Nat /\ Parts(script[c][n]) >= 1
           /\ script[c][n].kind = "request" =>
                 Parts(script[c][n]) = 2 + script[c][n].body /\ script[c][n].body \in Nat
<1>1. script[c] \in Seq(ClientItems) /\ Len(script[c]) \in Nat /\ script[c][n] \in ClientItems
    BY DEF Doms
<1>2. n - 1 \in 0..Len(script[c]) /\ n \in 0..Len(script[c])
    BY <1>1
<1> QED  BY <1>1, <1>2, EndsDef, PartsPositive

\* Where the request being served begins and ends.
LEMMA ServedFacts ==
    ASSUME Doms, NEW c \in Client, task[c].item \in 1..Len(script[c])
    PROVE  /\ Item(c) \in ClientItems /\ Item(c) = script[c][task[c].item]
           /\ Base(c) \in Nat /\ Finish(c) \in Nat /\ HeadEnd(c) \in Nat
           /\ Base(c) = Ends(c)[task[c].item - 1] /\ Finish(c) = Ends(c)[task[c].item]
           /\ HeadEnd(c) = Base(c) + 2
           /\ Item(c).kind = "request" =>
                 Finish(c) = HeadEnd(c) + Item(c).body /\ Item(c).body \in Nat
<1> DEFINE n == task[c].item
<1>1. /\ script[c][n] \in ClientItems
      /\ Ends(c)[n - 1] \in Nat /\ Ends(c)[n] \in Nat
      /\ Ends(c)[n] = Ends(c)[n - 1] + Parts(script[c][n])
      /\ Parts(script[c][n]) \in Nat
      /\ script[c][n].kind = "request" => Parts(script[c][n]) = 2 + script[c][n].body /\ script[c][n].body \in Nat
    BY ItemFacts
<1>2. Item(c) = script[c][n] /\ Base(c) = Ends(c)[n - 1] /\ HeadEnd(c) = Base(c) + 2
      /\ Finish(c) = Base(c) + Parts(Item(c))
    BY DEF Item, Base, Finish, HeadEnd
<1> HIDE DEF n
<1>5. Parts(Item(c)) = Parts(script[c][n])
    BY <1>2
<1>3. Base(c) \in Nat /\ HeadEnd(c) \in Nat /\ Finish(c) \in Nat /\ Finish(c) = Ends(c)[n]
    BY <1>1, <1>2, <1>5
<1>4. Item(c).kind = "request" => Finish(c) = HeadEnd(c) + Item(c).body /\ Item(c).body \in Nat
    <2> SUFFICES ASSUME Item(c).kind = "request" PROVE Finish(c) = HeadEnd(c) + Item(c).body /\ Item(c).body \in Nat
        OBVIOUS
    <2>1. Item(c).body = script[c][n].body /\ script[c][n].kind = "request"
        BY <1>2
    <2>2. Item(c).body \in Nat /\ Parts(Item(c)) = 2 + Item(c).body
        BY <1>1, <1>5, <2>1
    <2>3. Finish(c) = Base(c) + (2 + Item(c).body)
        BY <1>2, <2>2
    <2>4. HeadEnd(c) = Base(c) + 2 /\ Base(c) \in Nat
        BY <1>2, <1>3
    <2> QED  BY <2>2, <2>3, <2>4
<1> QED  BY <1>1, <1>2, <1>3, <1>4 DEF n

\* Skipping empty lines stops at an item still to come, or past the last
\* (serve_http): the least item that is not an empty line already read.
LEMMA SkippedFacts ==
    ASSUME Doms, NEW c \in Client, TaskOk(c)
    PROVE  Skipped(c) \in task[c].item..(Len(script[c]) + 1)
<1> DEFINE L == Len(script[c])
           Stop(n) == n <= L => script[c][n].kind # "crlf" \/ Ends(c)[n] > task[c].read
           Past(n) == \A m \in task[c].item..(n - 1) : script[c][m].kind = "crlf" /\ Ends(c)[m] <= task[c].read
           S == {n \in task[c].item..(L + 1) : Stop(n)}
<1>1. L \in Nat /\ task[c].item \in 1..(L + 1) /\ task[c].read \in Nat
    BY DEF Doms, TaskOk
<1>2. L + 1 \in S
    BY <1>1
<1>3. PICK n \in S : \A m \in S : n <= m
    <2>1. S \in SUBSET Nat /\ S # {}
        BY <1>1, <1>2
    <2> HIDE DEF S
    <2> QED  BY <2>1, Least
<1>4. Past(n)
    <2> SUFFICES ASSUME NEW m \in task[c].item..(n - 1)
                 PROVE  script[c][m].kind = "crlf" /\ Ends(c)[m] <= task[c].read
        OBVIOUS
    <2>1. m \in task[c].item..(L + 1) /\ m < n /\ m \in 1..L
        BY <1>1, <1>3
    <2>2. m \notin S
        BY <2>1, <1>3
    <2>3. ~Stop(m)
        <3> HIDE DEF Stop
        <3> QED  BY <2>1, <2>2
    <2>4. Ends(c)[m] \in Nat
        BY <2>1, ItemFacts
    <2> QED  BY <2>3, <2>4, <1>1
<1>5. n \in task[c].item..(L + 1) /\ Past(n) /\ Stop(n)
    BY <1>3, <1>4
<1> QED  BY <1>5 DEF Skipped

-----------------------------------------------------------------------------
\* A read takes something.
LEMMA ReadsFacts ==
    ASSUME NEW c \in Client, TaskOk(c), NEW k \in Reads(c)
    PROVE  k \in Nat /\ k > task[c].read
BY DEF TaskOk, Reads

\* A step of a task that has read no request yet, or not all of its head.
Quiet(c, pc) ==
    /\ task[c].pc \in Reading /\ pc \in Reading \cup {"close", "drop"}
    /\ Sets(c, pc, {"item", "read", "first", "halves"})
    /\ task'[c].item \in task[c].item..(Len(script[c]) + 1)
    /\ task'[c].read \in Nat /\ task'[c].read >= task[c].read
    /\ pc \in {"head", "route"} => /\ task'[c].item <= Len(script[c])
                                   /\ script[c][task'[c].item].kind = "request"
    /\ pc = "route" => task'[c].read >= Ends(c)[task'[c].item - 1] + 2
    /\ UNCHANGED <<script, sent, ended, conn, pool, acted, over>>
    /\ DOMAIN seen' = DOMAIN seen

\* A task that reads for a request keeps its place in the stream.
LEMMA QuietStream ==
    ASSUME HttpInv, NEW c \in Client, NEW pc, Quiet(c, pc)
    PROVE  Doms' /\ StreamInv'
<1>1. Doms'
    BY DEF HttpInv, Doms, Quiet, Sets, Client
<1>2. \A d \in Client : Ends(d)' = Ends(d)
    BY EndsKept DEF Quiet
<1>3. ASSUME NEW d \in Client \ {c} PROVE TaskOk(d)' /\ ServeOk(d)'
    BY <1>3, <1>2 DEF HttpInv, StreamInv, TaskOk, ServeOk, Quiet, Sets, Item, Base, HeadEnd, Finish, RequestEnd, BodyHeld
<1>4. TaskOk(c)'
    BY DEF HttpInv, StreamInv, TaskOk, Quiet, Sets, Reading, Pcs, Fields
<1>5. ServeOk(c)'
    BY <1>2 DEF HttpInv, StreamInv, ServeOk, Quiet, Sets, Reading, Serving, Holding, Fetching, Over, Fields, Item, Base, HeadEnd
<1> QED  BY <1>1, <1>3, <1>4, <1>5 DEF StreamInv, Quiet, Client

\* No backend has anything of a request that is still being read.
LEMMA QuietActed ==
    ASSUME HttpInv, NEW c \in Client, NEW pc, Quiet(c, pc)
    PROVE  ActedInv'
<1>2. \A d \in Client : Ends(d)' = Ends(d)
    BY EndsKept DEF Quiet
<1>3. ASSUME NEW d \in Client \ {c} PROVE ActedOk(d)'
    BY <1>3, <1>2 DEF HttpInv, ActedInv, ActedOk, Quiet, Sets, Item, Base, Finish
<1>4. ActedOk(c)'
    BY DEF HttpInv, ActedInv, StreamInv, TaskOk, ActedOk, Quiet, Sets, Reading, Serving, Holding, Fetching, Over
<1> QED  BY <1>3, <1>4 DEF ActedInv, Quiet, Client

\* What may lie on a backend connection depends on the scripts alone.
LEMMA PiecesKept == script' = script => Pieces' = Pieces /\ Wholes' = Wholes
<1> SUFFICES ASSUME script' = script PROVE Pieces' = Pieces /\ Wholes' = Wholes
    OBVIOUS
<1>1. \A c \in Client : Ends(c)' = Ends(c)
    BY EndsKept
<1> QED  BY <1>1 DEF Pieces, Wholes, Piece, Bytes, Client, Parts

\* Reading for a request holds no backend connection.
LEMMA QuietConns ==
    ASSUME HttpInv, NEW c \in Client, NEW pc, Quiet(c, pc)
    PROVE  ConnsInv'
<1>2. \A d \in Client : Ends(d)' = Ends(d)
    BY EndsKept DEF Quiet
<1>3. task'[c].pc \notin Holding
    BY DEF Quiet, Sets, Reading, Serving, Holding
<1>4. ASSUME NEW b \in Conns PROVE ConnOk(b)'
    BY <1>2, PiecesKept DEF HttpInv, ConnsInv, ConnOk, Quiet
<1>5. ASSUME NEW d \in Client PROVE HoldOk(d)'
    BY <1>2, <1>3, PiecesKept DEF HttpInv, ConnsInv, HoldOk, Quiet, Sets, Bytes, Base, Finish, Item
<1>6. PoolOk'
    <2>1. Owners' = Owners /\ Places' = Places /\ \A p \in Places : At(p)' = At(p)
        BY DEF Quiet, Owners, Client, Places, At
    <2>2. PoolType' /\ PooledOk' /\ PooledApart'
        BY <2>1, PiecesKept DEF HttpInv, ConnsInv, PoolOk, PoolType, PooledOk, PooledApart, Quiet
    <2>3. HeldApart'
        BY <2>1, <1>3 DEF HttpInv, ConnsInv, PoolOk, HeldApart, Quiet, Sets, Client
    <2> QED  BY <2>2, <2>3 DEF PoolOk
<1> QED  BY <1>4, <1>5, <1>6 DEF ConnsInv, Quiet, Client

\* Reading for a request tells the client nothing.
LEMMA QuietSeen ==
    ASSUME HttpInv, NEW c \in Client, NEW pc, Quiet(c, pc), UNCHANGED seen
    PROVE  SeenInv'
<1>2. \A d \in Client : Ends(d)' = Ends(d)
    BY EndsKept DEF Quiet
<1>3. ASSUME NEW d \in Client \ {c} PROVE WholeOk(d)' /\ CloseOk(d)'
    BY <1>3, <1>2 DEF HttpInv, SeenInv, WholeOk, CloseOk, Quiet, Sets, LastSeen, TellsClose, Excused, IsReplies, Broke, Reads
<1>4. WholeOk(c)' /\ CloseOk(c)'
    BY DEF HttpInv, SeenInv, WholeOk, CloseOk, Quiet, Sets, LastSeen, TellsClose, IsReplies, Reading, Over, Serving, Holding
<1> QED  BY <1>3, <1>4 DEF SeenInv, Quiet, Client

\* Any step of a task that reads for a request keeps the invariant.
LEMMA QuietKeeps ==
    ASSUME HttpInv, NEW c \in Client, NEW pc, Quiet(c, pc), UNCHANGED seen
    PROVE  HttpInv'
BY QuietStream, QuietActed, QuietConns, QuietSeen DEF HttpInv

\* Goto and reads between pcs of a task that serves no request.
LEMMA GotoQuiet ==
    ASSUME HttpInv, NEW c \in Client, task[c].pc \in Reading,
           NEW pc \in (Reading \ {"head", "route"}) \cup {"close", "drop"}, Goto(c, pc),
           UNCHANGED <<clientVars, wireVars, over, backVars>>, DOMAIN seen' = DOMAIN seen
    PROVE  Quiet(c, pc)
<1>1. Sets(c, pc, {})
    BY GotoSets DEF HttpInv
<1>2. task'[c].item = task[c].item /\ task'[c].read = task[c].read
    BY <1>1 DEF Sets, Fields
<1>3. Sets(c, pc, {"item", "read", "first", "halves"})
    BY <1>1 DEF Sets
<1>4. task[c].item \in 1..(Len(script[c]) + 1) /\ task[c].read \in Nat /\ Len(script[c]) \in Nat
    BY DEF HttpInv, StreamInv, TaskOk, Doms
<1> QED  BY <1>2, <1>3, <1>4 DEF Quiet, clientVars, wireVars, backVars

\* A read on the way to a request is one such step.
LEMMA ReadQuiet ==
    ASSUME HttpInv, NEW c \in Client, task[c].pc \in Reading,
           NEW pc \in (Reading \ {"head", "route"}) \cup {"close", "drop"}, NEW k \in Reads(c),
           task' = [task EXCEPT ![c].pc = pc, ![c].read = k],
           UNCHANGED <<clientVars, wireVars, over, backVars, seen>>
    PROVE  Quiet(c, pc)
<1>1. Sets(c, pc, {"read"}) /\ task'[c].read = k
    BY ReadSets DEF HttpInv
<1>2. task'[c].item = task[c].item
    BY <1>1 DEF Sets, Fields
<1>3. Sets(c, pc, {"item", "read", "first", "halves"})
    BY <1>1 DEF Sets
<1>4. task[c].item \in 1..(Len(script[c]) + 1) /\ task[c].read \in Nat /\ Len(script[c]) \in Nat /\ TaskOk(c)
    BY DEF HttpInv, StreamInv, TaskOk, Doms
<1>5. k \in Nat /\ k > task[c].read
    BY <1>4, ReadsFacts
<1> QED  BY <1>1, <1>2, <1>3, <1>4, <1>5 DEF Quiet, clientVars, wireVars, backVars

\* So is the opening of a request.
LEMMA OpensQuiet ==
    ASSUME HttpInv, NEW c \in Client, task[c].pc \in Reading,
           Skipped(c) <= Len(script[c]), script[c][Skipped(c)].kind = "request", HeadOrRoute(c, Skipped(c)),
           UNCHANGED <<clientVars, wireVars, over, backVars, seen>>
    PROVE  \E pc : Quiet(c, pc)
<1> DEFINE n == Skipped(c)
<1>1. task[c].item \in 1..(Len(script[c]) + 1) /\ task[c].read \in Nat /\ Len(script[c]) \in Nat /\ TaskOk(c) /\ Doms
    BY DEF HttpInv, StreamInv, TaskOk, Doms
<1>2. n \in task[c].item..(Len(script[c]) + 1)
    BY <1>1, SkippedFacts
<1> HIDE DEF n
<1>3. PICK pc \in {"head", "route"} :
              /\ Sets(c, pc, {"item", "first"}) /\ task'[c].item = n
              /\ pc = "route" => task[c].read >= Ends(c)[n - 1] + 2
    BY <1>1, HeadOrRouteSets DEF n
<1>4. Sets(c, pc, {"item", "read", "first", "halves"}) /\ task'[c].read = task[c].read
    BY <1>3 DEF Sets, Fields
<1>5. pc \in Reading
    BY <1>3 DEF Reading, Pcs, Serving, Fetching, Holding, Over
<1>6. task'[c].read \in Nat /\ task'[c].read >= task[c].read
    BY <1>1, <1>4
<1>7. pc = "route" => task'[c].read >= Ends(c)[task'[c].item - 1] + 2
    BY <1>3, <1>4
<1>8. task'[c].item \in task[c].item..(Len(script[c]) + 1) /\ task'[c].item <= Len(script[c])
      /\ script[c][task'[c].item].kind = "request"
    BY <1>2, <1>3 DEF n
<1>9. Quiet(c, pc)
    BY <1>4, <1>5, <1>6, <1>7, <1>8 DEF Quiet, clientVars, wireVars, backVars
<1> QED  BY <1>9

ReadingPcs == {"new", "hello", "idle", "register", "recheck", "parked", "got", "sniff", "head", "route", "opaque",
        "l4route", "l4dial", "l4"}
\* Where a task is that reads for a request, or relays raw bytes.
LEMMA ReadingIs == Reading = ReadingPcs
BY DEF Reading, ReadingPcs, Pcs, Serving, Fetching, Holding, Over

\* Accept, hello, the idle wait and its registration, the sniff and the
\* opaque bytes of a mixed port keep the invariant.
LEMMA WaitingKeeps ==
    ASSUME HttpInv, NEW c \in Client,
           \/ Accept(c) \/ TlsHello(c) \/ IdlePoll(c) \/ RegisterWaker(c) \/ Recheck(c) \/ Unpark(c)
           \/ Sniff(c) \/ Opaque(c) \/ L4Route(c)
    PROVE  HttpInv'
<1> USE ReadingIs DEF ReadingPcs
<1>1. /\ task[c].pc \in Reading
      /\ UNCHANGED <<clientVars, wireVars, over, backVars, seen>>
    BY DEF Accept, TlsHello, IdlePoll, RegisterWaker, Recheck, Unpark, Sniff, Opaque, L4Route
<1>2. \/ \E pc \in (Reading \ {"head", "route"}) \cup {"close", "drop"} : Goto(c, pc)
      \/ \E k \in Reads(c) : task' = [task EXCEPT ![c].pc = "got", ![c].read = k]
    <2>1. CASE Accept(c)
        BY <2>1 DEF Accept
    <2>2. CASE TlsHello(c)
        BY <2>2 DEF TlsHello
    <2>3. CASE IdlePoll(c)
        BY <2>3 DEF IdlePoll
    <2>4. CASE RegisterWaker(c)
        BY <2>4 DEF RegisterWaker
    <2>5. CASE Recheck(c)
        BY <2>5 DEF Recheck
    <2>6. CASE Unpark(c)
        BY <2>6 DEF Unpark
    <2>7. CASE Sniff(c)
        BY <2>7 DEF Sniff
    <2>8. CASE Opaque(c)
        BY <2>8 DEF Opaque
    <2>9. CASE L4Route(c)
        BY <2>9 DEF L4Route
    <2> QED  BY <2>1, <2>2, <2>3, <2>4, <2>5, <2>6, <2>7, <2>8, <2>9
<1>3. \E pc : Quiet(c, pc)
    BY <1>1, <1>2, GotoQuiet, ReadQuiet
<1> QED  BY <1>1, <1>3, QuietKeeps

\* So do the bottoms of both loops, sniff_first_request's and the keepalive's.
LEMMA GotKeeps ==
    ASSUME HttpInv, NEW c \in Client, GotFirst(c) \/ GotNext(c)
    PROVE  HttpInv'
<1> USE ReadingIs DEF ReadingPcs
<1> DEFINE n == Skipped(c)
<1>1. /\ task[c].pc \in Reading
      /\ UNCHANGED <<clientVars, wireVars, over, backVars, seen>>
    BY DEF GotFirst, GotNext
<1>2. \/ \E pc \in (Reading \ {"head", "route"}) \cup {"close", "drop"} : Goto(c, pc)
      \/ task' = [task EXCEPT ![c].item = n, ![c].pc = "idle"]
      \/ n <= Len(script[c]) /\ script[c][n].kind = "request" /\ HeadOrRoute(c, n)
    <2>0. n > Len(script[c]) \/ n <= Len(script[c])
        <3>1. n \in task[c].item..(Len(script[c]) + 1) /\ Len(script[c]) \in Nat /\ task[c].item \in Nat
            BY SkippedFacts DEF HttpInv, StreamInv, TaskOk, Doms
        <3> QED  BY <3>1
    <2>1. CASE GotFirst(c)
        BY <2>0, <2>1 DEF GotFirst
    <2>2. CASE GotNext(c)
        BY <2>0, <2>2 DEF GotNext
    <2> QED  BY <2>1, <2>2
<1>3. ASSUME task' = [task EXCEPT ![c].item = n, ![c].pc = "idle"] PROVE Quiet(c, "idle")
    <2>1. task[c].item \in 1..(Len(script[c]) + 1) /\ task[c].read \in Nat /\ Len(script[c]) \in Nat /\ TaskOk(c) /\ Doms
        BY DEF HttpInv, StreamInv, TaskOk, Doms
    <2>2. n \in task[c].item..(Len(script[c]) + 1)
        BY <2>1, SkippedFacts
    <2> HIDE DEF n
    <2>3. Sets(c, "idle", {"item"}) /\ task'[c].item = n
        BY <1>3, <2>1 DEF Doms, Fields, Sets
    <2>4. Sets(c, "idle", {"item", "read", "first", "halves"}) /\ task'[c].read = task[c].read
        BY <2>3 DEF Sets, Fields
    <2> QED  BY <1>1, <2>1, <2>2, <2>3, <2>4 DEF Quiet, clientVars, wireVars, backVars
<1>4. \E pc : Quiet(c, pc)
    BY <1>1, <1>2, <1>3, GotoQuiet, OpensQuiet
<1> QED  BY <1>1, <1>4, QuietKeeps

\* So does a raw TCP connection (handle_tcp_connection, relay_l4).
LEMMA RawKeeps ==
    ASSUME HttpInv, NEW c \in Client, L4Dial(c) \/ L4Relay(c)
    PROVE  HttpInv'
<1> USE ReadingIs DEF ReadingPcs
<1>1. /\ task[c].pc \in Reading
      /\ UNCHANGED <<clientVars, wireVars, over, conn, pool, acted, seen>>
    BY DEF L4Dial, L4Relay, backVars
<1>2. PICK pc \in {"drop", "l4"} :
         /\ Sets(c, pc, {"read", "halves"})
         /\ task'[c].read = task[c].read \/ task'[c].read \in Reads(c)
    <2>1. ASSUME Goto(c, "drop") PROVE Sets(c, "drop", {"read", "halves"}) /\ task'[c].read = task[c].read
        <3>1. Sets(c, "drop", {})
            BY <2>1, GotoSets DEF HttpInv
        <3> QED  BY <3>1 DEF Sets, Fields
    <2>2. CASE L4Dial(c)
        <3>1. ASSUME task' = [task EXCEPT ![c].pc = "l4", ![c].halves = {"up", "down"}]
              PROVE  Sets(c, "l4", {"read", "halves"}) /\ task'[c].read = task[c].read
            BY <3>1 DEF Sets, Fields, HttpInv, Doms
        <3> QED  BY <2>1, <2>2, <3>1 DEF L4Dial
    <2>3. CASE L4Relay(c)
        <3>1. ASSUME NEW k \in Reads(c), task' = [task EXCEPT ![c].read = k]
              PROVE  Sets(c, "l4", {"read", "halves"}) /\ task'[c].read \in Reads(c)
            <4>1. Sets(c, task[c].pc, {"read"}) /\ task'[c].read = k
                BY <3>1, ReadOnlySets DEF HttpInv
            <4> QED  BY <2>3, <4>1 DEF Sets, L4Relay
        <3>2. ASSUME NEW h, NEW pc \in {"drop", "l4"},
                     task' = [task EXCEPT ![c].halves = @ \ {h}, ![c].pc = pc]
              PROVE  Sets(c, pc, {"read", "halves"}) /\ task'[c].read = task[c].read
            BY <3>2 DEF Sets, Fields, HttpInv, Doms
        <3> QED  BY <2>1, <2>3, <3>1, <3>2 DEF L4Relay
    <2> QED  BY <2>2, <2>3
<1>3. task[c].item \in 1..(Len(script[c]) + 1) /\ task[c].read \in Nat /\ Len(script[c]) \in Nat /\ TaskOk(c)
    BY DEF HttpInv, StreamInv, TaskOk, Doms
<1>4. task'[c].read \in Nat /\ task'[c].read >= task[c].read
    <2>1. ASSUME NEW k \in Reads(c) PROVE k \in Nat /\ k >= task[c].read
        <3>1. k \in Nat /\ k > task[c].read
            BY <1>3, ReadsFacts
        <3> QED  BY <3>1, <1>3
    <2> QED  BY <1>2, <1>3, <2>1
<1>5. Sets(c, pc, {"item", "read", "first", "halves"}) /\ task'[c].item = task[c].item
    BY <1>2 DEF Sets, Fields
<1>6. Quiet(c, pc)
    BY <1>1, <1>2, <1>3, <1>4, <1>5 DEF Quiet, clientVars, wireVars
<1> QED  BY <1>1, <1>6, QuietKeeps

-----------------------------------------------------------------------------
(* Steps of one client, replies and closes. *)

\* A step of the task of c that touches nothing of another client's.
Only(c) ==
    /\ DOMAIN task' = DOMAIN task /\ (\A d \in Client \ {c} : task'[d] = task[d]) /\ DOMAIN task'[c] = Fields
    /\ UNCHANGED <<script, sent, ended>>
    /\ DOMAIN seen' = DOMAIN seen /\ (\A d \in Client \ {c} : seen'[d] = seen[d])
    /\ DOMAIN acted' = DOMAIN acted /\ (\A d \in Client \ {c} : acted'[d] = acted[d])
    /\ DOMAIN over' = DOMAIN over /\ (\A d \in Client \ {c} : over'[d] = over[d])
    /\ DOMAIN conn' = DOMAIN conn

\* What a step leaves of a request it does not touch.
LEMMA ServedKept ==
    ASSUME NEW d, script' = script, task'[d].item = task[d].item
    PROVE  /\ Ends(d)' = Ends(d) /\ Item(d)' = Item(d) /\ Base(d)' = Base(d) /\ HeadEnd(d)' = HeadEnd(d)
           /\ Finish(d)' = Finish(d)
<1>1. Ends(d)' = Ends(d)
    BY EndsKept
<1>2. Item(d)' = Item(d) /\ Base(d)' = Base(d)
    BY <1>1 DEF Item, Base
<1>3. Parts(Item(d))' = Parts(Item(d))
    BY <1>2 DEF Parts
<1> QED  BY <1>1, <1>2, <1>3 DEF HeadEnd, Finish

\* What has been read of a request is kept with it.
LEMMA HeldKept ==
    ASSUME NEW d, script' = script, task'[d].item = task[d].item, task'[d].read = task[d].read
    PROVE  BodyHeld(d)' = BodyHeld(d) /\ RequestEnd(d)' = RequestEnd(d) /\ Leftover(d)' = Leftover(d)
BY ServedKept DEF BodyHeld, RequestEnd, Lesser, Leftover

\* The other clients' places in their streams are kept.
LEMMA OnlyStream ==
    ASSUME HttpInv, NEW c \in Client, Only(c), TaskOk(c)', ServeOk(c)'
    PROVE  Doms' /\ StreamInv'
<1>1. Doms'
    BY DEF HttpInv, Doms, Only, Client
<1>2. \A d \in Client : Ends(d)' = Ends(d)
    BY EndsKept DEF Only
<1>3. ASSUME NEW d \in Client \ {c} PROVE TaskOk(d)' /\ ServeOk(d)'
    <2>1. task'[d] = task[d] /\ script' = script /\ sent' = sent /\ TaskOk(d) /\ ServeOk(d)
        BY DEF Only, HttpInv, StreamInv
    <2>2. TaskOk(d)'
        BY <2>1 DEF TaskOk
    <2>3. ServeOk(d)'
        BY <2>1, ServedKept, HeldKept DEF ServeOk
    <2> QED  BY <2>2, <2>3
<1> QED  BY <1>1, <1>3 DEF StreamInv, Only, Client

\* So is what backends got of their requests.
LEMMA OnlyActed ==
    ASSUME HttpInv, NEW c \in Client, Only(c), ActedOk(c)'
    PROVE  ActedInv'
<1>2. \A d \in Client : Ends(d)' = Ends(d)
    BY EndsKept DEF Only
<1>3. ASSUME NEW d \in Client \ {c} PROVE ActedOk(d)'
    BY <1>3, <1>2 DEF HttpInv, ActedInv, ActedOk, Only, Item, Base, Finish
<1> QED  BY <1>3 DEF ActedInv, Only, Client

\* So is what they were told.
LEMMA OnlySeen ==
    ASSUME HttpInv, NEW c \in Client, Only(c), WholeOk(c)', CloseOk(c)'
    PROVE  SeenInv'
<1>2. \A d \in Client : Ends(d)' = Ends(d)
    BY EndsKept DEF Only
<1>3. ASSUME NEW d \in Client \ {c} PROVE WholeOk(d)' /\ CloseOk(d)'
    BY <1>3, <1>2 DEF HttpInv, SeenInv, WholeOk, CloseOk, Only, LastSeen, TellsClose, Excused, IsReplies, Broke, Reads
<1> QED  BY <1>3 DEF SeenInv, Only, Client

\* Pools that do not change have the same places.
LEMMA PoolSame ==
    ASSUME script' = script, pool' = pool
    PROVE  Owners' = Owners /\ Places' = Places /\ \A p \in Places : At(p)' = At(p)
BY DEF Owners, Client, Places, At

\* A pool holds connections.
LEMMA PlaceFacts ==
    ASSUME PoolType, NEW p \in Places
    PROVE  At(p) \in Conns
BY DEF PoolType, Places, At

\* A step of c that lets the connections be, or drops the one it holds.
LEMMA ReleaseConns ==
    ASSUME HttpInv, NEW c \in Client, Only(c), pool' = pool, task'[c].pc \notin Holding,
           conn' = conn \/ (task[c].pc \in Holding /\ conn' = Gone({task[c].conn}))
    PROVE  ConnsInv'
<1>1. \A d \in Client : Ends(d)' = Ends(d)
    BY EndsKept DEF Only
<1>2. Pieces' = Pieces /\ Wholes' = Wholes /\ <<>> \in Pieces
    BY PiecesKept DEF Only, Pieces
<1>3. Owners' = Owners /\ Places' = Places /\ \A p \in Places : At(p)' = At(p)
    BY PoolSame DEF Only
<1>4. \A p \in Places : At(p) \in Conns
    BY PlaceFacts DEF HttpInv, ConnsInv, PoolOk
<1>5. \A p \in Places : conn'[At(p)] = conn[At(p)]
    BY <1>4 DEF HttpInv, ConnsInv, PoolOk, HeldApart, Gone
<1>6. \A d \in Client \ {c} : task[d].pc \in Holding => conn'[task[d].conn] = conn[task[d].conn]
    BY DEF HttpInv, ConnsInv, PoolOk, HeldApart, HoldOk, Gone
<1>7. ASSUME NEW b \in Conns PROVE ConnOk(b)'
    <2>1. conn'[b] = conn[b] \/ conn'[b] = Unused
        BY DEF Gone
    <2>2. ConnOk(b)
        BY DEF HttpInv, ConnsInv
    <2> QED  BY <1>2, <2>1, <2>2 DEF ConnOk, Unused
<1>8. ASSUME NEW d \in Client PROVE HoldOk(d)'
    BY <1>1, <1>2, <1>6 DEF HttpInv, ConnsInv, HoldOk, Only, Bytes, Base, Finish, Item
<1>9. PoolOk'
    <2>1. PoolType' /\ PooledOk' /\ PooledApart'
        BY <1>2, <1>3, <1>5 DEF HttpInv, ConnsInv, PoolOk, PoolType, PooledOk, PooledApart
    <2>2. HeldApart'
        BY <1>3 DEF HttpInv, ConnsInv, PoolOk, HeldApart, Only, Client
    <2> QED  BY <2>1, <2>2 DEF PoolOk
<1> QED  BY <1>7, <1>8, <1>9 DEF ConnsInv, Only, Client

-----------------------------------------------------------------------------
\* One reply more.
LEMMA RepliesAppend ==
    ASSUME NEW s, IsReplies(s), NEW m, DOMAIN m = {"n", "code", "of", "close", "missing"}
    PROVE  /\ IsReplies(Append(s, m)) /\ Len(Append(s, m)) = Len(s) + 1 /\ Append(s, m) # <<>>
           /\ Append(s, m)[Len(s) + 1] = m /\ \A i \in 1..Len(s) : Append(s, m)[i] = s[i]
<1> DEFINE S == {s[i] : i \in 1..Len(s)} \cup {m}
           u == Append(s, m)
<1>1. s \in Seq(S) /\ m \in S /\ Len(s) \in Nat
    BY DEF IsReplies
<1> HIDE DEF S
<1>2. u \in Seq(S) /\ Len(u) = Len(s) + 1 /\ u[Len(s) + 1] = m /\ \A i \in 1..Len(s) : u[i] = s[i]
    BY <1>1
<1> HIDE DEF u
<1>3. u = [i \in 1..Len(u) |-> u[i]] /\ u # <<>>
    BY <1>1, <1>2
<1>4. \A i \in 1..Len(u) : DOMAIN u[i] = {"n", "code", "of", "close", "missing"}
    BY <1>1, <1>2 DEF IsReplies
<1>5. IsReplies(u)
    BY <1>1, <1>2, <1>3, <1>4 DEF IsReplies
<1> QED  BY <1>2, <1>3, <1>5 DEF u

\* Nothing more is said: the last reply stays the last.
LEMMA NothingToldSeen ==
    ASSUME HttpInv, NEW c \in Client, task[c].pc \notin {"body", "tunnel"} \cup Over, task[c].pc \in Pcs,
           seen'[c] = seen[c], UNCHANGED <<script, over>>, task'[c].pc \notin {"body", "end"}
    PROVE  WholeOk(c)' /\ CloseOk(c)'
<1>1. ~TellsClose(c) /\ (seen[c] # <<>> => LastSeen(c).missing = 0) /\ over[c] = "open"
    BY DEF HttpInv, SeenInv, WholeOk, CloseOk, Over
<1> QED  BY <1>1 DEF HttpInv, SeenInv, WholeOk, CloseOk, TellsClose, LastSeen

\* A last reply, told or not: its close is excused or lingers.
LEMMA ToldSeen ==
    ASSUME HttpInv, NEW c \in Client, task[c].pc \notin {"body", "tunnel"} \cup Over, task[c].pc \in Pcs,
           NEW code, NEW closes, Tell(c, Told(c, task[c].item, code, closes)),
           UNCHANGED <<script, over, ended>>, task'[c].pc \notin {"body", "end"},
           closes => task'[c].pc = "close",
           closes => \/ task'[c].linger \/ code \in {408, 503, 101}
                     \/ ~script[c][task[c].item].keepalive /\ task'[c].read = Ends(c)[task[c].item]
    PROVE  WholeOk(c)' /\ CloseOk(c)'
<1> DEFINE m == Told(c, task[c].item, code, closes)
<1>1. CASE Broke(c)
    BY <1>1, NothingToldSeen DEF Tell
<1>2. CASE ~Broke(c)
    <2>1. seen'[c] = Append(seen[c], m)
        BY <1>2 DEF Tell, HttpInv, Doms
    <2>2. DOMAIN m = {"n", "code", "of", "close", "missing"} /\ m.missing = 0 /\ m.close = closes /\ m.code = code /\ m.n = task[c].item
        BY DEF Told
    <2>3. IsReplies(seen[c]) /\ (seen[c] # <<>> => seen[c][Len(seen[c])].missing = 0) /\ over[c] = "open"
          /\ \A i \in 1..Len(seen[c]) : i = Len(seen[c]) \/ seen[c][i].missing = 0
        BY DEF HttpInv, SeenInv, WholeOk, LastSeen, Over
    <2> HIDE DEF m
    <2>4. /\ IsReplies(seen'[c]) /\ Len(seen'[c]) = Len(seen[c]) + 1 /\ seen'[c] # <<>>
          /\ seen'[c][Len(seen[c]) + 1] = m /\ \A i \in 1..Len(seen[c]) : seen'[c][i] = seen[c][i]
        BY <2>1, <2>2, <2>3, RepliesAppend
    <2>5. LastSeen(c)' = m
        BY <2>4 DEF LastSeen
    <2>6. \A i \in 1..Len(seen'[c]) : seen'[c][i].missing = 0
        <3>1. Len(seen[c]) \in Nat /\ (Len(seen[c]) > 0 => seen[c] # <<>>)
            BY <2>3 DEF IsReplies
        <3> TAKE i \in 1..Len(seen'[c])
        <3>2. i \in 1..Len(seen[c]) \/ i = Len(seen[c]) + 1
            BY <3>1, <2>4
        <3>3. i \in 1..Len(seen[c]) => seen[c][i].missing = 0
            BY <2>3, <3>1
        <3> QED  BY <2>2, <2>4, <3>2, <3>3
    <2>7. WholeOk(c)'
        BY <2>2, <2>3, <2>4, <2>5, <2>6 DEF WholeOk
    <2>8. Ends(c)' = Ends(c)
        BY EndsKept
    <2>9. CloseOk(c)'
        <3>1. CASE ~m.close
            BY <3>1, <2>5 DEF CloseOk, TellsClose
        <3>2. CASE m.close
            <4>1. task'[c].pc = "close" /\ (task'[c].linger \/ Excused(c)')
                BY <3>2, <2>2, <2>5, <2>8 DEF Excused
            <4> QED  BY <4>1 DEF CloseOk, Over
        <3> QED  BY <3>1, <3>2
    <2> QED  BY <2>7, <2>9
<1> QED  BY <1>1, <1>2

Alike(f, g, c) == DOMAIN f = DOMAIN g /\ \A d \in Client \ {c} : f[d] = g[d]

\* A reply goes to its own client.
LEMMA TellAlike ==
    ASSUME HttpInv, NEW c \in Client, NEW m, Tell(c, m)
    PROVE  Alike(seen', seen, c)
BY DEF Alike, Tell, HttpInv, Doms

\* A step that sets fields of one task is a step of that client only.
LEMMA OnlyBy ==
    ASSUME HttpInv, NEW c \in Client, NEW pc, NEW F, Sets(c, pc, F), UNCHANGED <<script, sent, ended, over>>,
           acted' = acted \/ Alike(acted', acted, c), seen' = seen \/ Alike(seen', seen, c),
           DOMAIN conn' = DOMAIN conn
    PROVE  Only(c)
BY DEF Only, Sets, Alike

\* Dropping connections forgets none.
LEMMA GoneDom == ASSUME HttpInv, NEW S, conn' = Gone(S) PROVE DOMAIN conn' = DOMAIN conn
BY DEF HttpInv, Doms, Gone

\* A step of one client's keeps the invariant once it does for that client
\* and for the connections.
LEMMA OnlyKeeps ==
    ASSUME HttpInv, NEW c \in Client, Only(c), TaskOk(c)', ServeOk(c)', ActedOk(c)', WholeOk(c)', CloseOk(c)', ConnsInv'
    PROVE  HttpInv'
BY OnlyStream, OnlyActed, OnlySeen DEF HttpInv

\* What backends got of a request stays when the task leaves it behind.
LEMMA ActedStays ==
    ASSUME HttpInv, NEW c \in Client, script' = script, acted' = acted, task'[c].item = task[c].item,
           task'[c].pc \notin Reading \cup Fetching \cup {"expect", "relay"}
    PROVE  ActedOk(c)'
BY DEF HttpInv, ActedInv, ActedOk

\* The task gives up: nothing of the request is in hand any more.
LEMMA CloseKeeps ==
    ASSUME HttpInv, NEW c \in Client, NEW F, Sets(c, "close", F), Only(c), pool' = pool,
           {"item", "fwd"} \cap F = {}, task'[c].read \in Nat, ActedOk(c)', WholeOk(c)', CloseOk(c)',
           conn' = conn \/ (task[c].pc \in Holding /\ conn' = Gone({task[c].conn}))
    PROVE  HttpInv'
<1>1. task'[c].pc = "close" /\ task'[c].item = task[c].item /\ task'[c].fwd = task[c].fwd
    BY DEF Sets, Fields
<1>2. task'[c].pc \notin Holding \cup Serving \cup Reading \cup {"head", "route"} /\ task'[c].pc \in Pcs
    BY <1>1 DEF Holding, Serving, Fetching, Reading, Over, Pcs
<1>3. ConnsInv'
    BY <1>2, ReleaseConns
<1>4. TaskOk(c)'
    BY <1>1, <1>2 DEF TaskOk, HttpInv, StreamInv, Only
<1>5. ServeOk(c)'
    BY <1>2 DEF ServeOk, Serving, Fetching, Holding
<1> QED  BY <1>3, <1>4, <1>5, OnlyKeeps

\* Where a request is being served.
LEMMA ServingItem ==
    ASSUME HttpInv, NEW c \in Client, task[c].pc \in Serving \cup {"head", "route"}
    PROVE  /\ task[c].item \in 1..Len(script[c]) /\ Item(c).kind = "request"
           /\ task[c].read \in Nat /\ task[c].fwd \in Nat /\ Len(script[c]) \in Nat
           /\ Item(c) \in ClientItems /\ Base(c) \in Nat /\ Finish(c) \in Nat /\ HeadEnd(c) = Base(c) + 2
           /\ Finish(c) = HeadEnd(c) + Item(c).body /\ Item(c).body \in Nat
           /\ Finish(c) = Ends(c)[task[c].item] /\ Base(c) = Ends(c)[task[c].item - 1]
           /\ Item(c) = script[c][task[c].item]
<1>1. task[c].item \in 1..Len(script[c]) /\ Item(c).kind = "request"
    BY DEF HttpInv, StreamInv, TaskOk, ServeOk, Doms
<1>2. task[c].read \in Nat /\ task[c].fwd \in Nat /\ Len(script[c]) \in Nat
    BY DEF HttpInv, StreamInv, TaskOk, Doms
<1> QED  BY <1>1, <1>2, ServedFacts DEF HttpInv

\* A reply of the proxy's own, and the close after it: it lingers unless the
\* client is done, asked for the close and has sent nothing more.
LEMMA RefuseKeeps ==
    ASSUME HttpInv, NEW c \in Client, NEW code, Refuse(c, code),
           task[c].pc \in (Serving \ {"body", "tunnel"}) \cup {"head", "route"},
           UNCHANGED <<script, sent, ended, over, pool>>,
           acted' = acted \/ (Alike(acted', acted, c) /\ ActedOk(c)'),
           conn' = conn \/ (task[c].pc \in Holding /\ conn' = Gone({task[c].conn}))
    PROVE  HttpInv'
<1>1. Sets(c, "close", {"conn", "linger"}) /\ task'[c].linger = ~task[c].done
    BY RefuseSets DEF HttpInv
<1>2. task'[c].pc = "close" /\ task'[c].item = task[c].item /\ task'[c].read = task[c].read
    BY <1>1 DEF Sets, Fields
<1>3. Only(c)
    <2>1. DOMAIN conn' = DOMAIN conn
        BY GoneDom
    <2> QED  BY <1>1, <2>1, TellAlike, OnlyBy DEF Refuse
<1>4. ActedOk(c)'
    BY <1>2, ActedStays DEF Reading, Over, Fetching
<1>5. task[c].done => ~Item(c).keepalive /\ task[c].read = Finish(c)
    BY DEF HttpInv, StreamInv, ServeOk, Reading, Serving, Pcs, Fetching, Holding, Over
<1>6. Item(c) = script[c][task[c].item] /\ Finish(c) = Ends(c)[task[c].item] /\ task'[c].read \in Nat
    BY <1>2, ServingItem
<1>7. Tell(c, Told(c, task[c].item, code, TRUE))
    BY DEF Refuse
<1>8. task[c].pc \notin {"body", "tunnel"} \cup Over /\ task[c].pc \in Pcs
    BY DEF Serving, Over, Fetching, Holding, Pcs
<1>9. WholeOk(c)' /\ CloseOk(c)'
    BY <1>1, <1>2, <1>5, <1>6, <1>7, <1>8, ToldSeen
<1> QED  BY <1>1, <1>3, <1>4, <1>6, <1>9, CloseKeeps

\* A close in silence.
LEMMA SilentKeeps ==
    ASSUME HttpInv, NEW c \in Client, NEW F \in SUBSET {"conn", "linger"}, Sets(c, "close", F),
           task[c].pc \in (Serving \ {"body", "tunnel"}) \cup {"head", "route"},
           UNCHANGED <<script, sent, ended, over, pool, seen, acted>>,
           conn' = conn \/ (task[c].pc \in Holding /\ conn' = Gone({task[c].conn}))
    PROVE  HttpInv'
<1>2. task'[c].pc = "close" /\ task'[c].item = task[c].item /\ task'[c].read = task[c].read
    BY DEF Sets, Fields
<1>3. Only(c)
    <2>1. DOMAIN conn' = DOMAIN conn
        BY GoneDom
    <2> QED  BY <2>1, OnlyBy
<1>4. ActedOk(c)'
    BY <1>2, ActedStays DEF Reading, Over, Fetching
<1>6. task'[c].read \in Nat
    BY <1>2, ServingItem
<1>8. task[c].pc \notin {"body", "tunnel"} \cup Over /\ task[c].pc \in Pcs
    BY DEF Serving, Over, Fetching, Holding, Pcs
<1>9. WholeOk(c)' /\ CloseOk(c)'
    BY <1>2, <1>8, NothingToldSeen
<1> QED  BY <1>3, <1>4, <1>6, <1>9, CloseKeeps

\* A reply without a linger: 408 for a slow head, 503 for a starved proxy.
LEMMA BriefKeeps ==
    ASSUME HttpInv, NEW c \in Client, NEW code \in {408, 503}, Tell(c, Told(c, task[c].item, code, TRUE)),
           Goto(c, "close"), task[c].pc \in {"head", "dial", "fresh"},
           UNCHANGED <<script, sent, ended, over, pool, acted, conn>>
    PROVE  HttpInv'
<1>1. Sets(c, "close", {})
    BY GotoSets DEF HttpInv
<1>2. task'[c].pc = "close" /\ task'[c].item = task[c].item /\ task'[c].read = task[c].read
    BY <1>1 DEF Sets, Fields
<1>3. Only(c)
    <2>1. Alike(seen', seen, c)
        BY TellAlike
    <2> QED  BY <1>1, <2>1, OnlyBy
<1>4. ActedOk(c)'
    BY <1>2, ActedStays DEF Reading, Over, Fetching
<1>6. task'[c].read \in Nat
    BY <1>2, ServingItem DEF Serving, Fetching
<1>8. task[c].pc \notin {"body", "tunnel"} \cup Over /\ task[c].pc \in Pcs
    BY DEF Over, Pcs
<1>9. WholeOk(c)' /\ CloseOk(c)'
    BY <1>2, <1>8, ToldSeen
<1> QED  BY <1>1, <1>3, <1>4, <1>6, <1>9, CloseKeeps

\* A failed dial is answered 502 or 504, one for want of resources 503.
LEMMA DialFailsKeeps ==
    ASSUME HttpInv, NEW c \in Client, DialFails(c) \/ DialStarved(c)
    PROVE  HttpInv'
<1>1. task[c].pc \in {"dial", "fresh"} /\ UNCHANGED <<script, sent, ended, over, pool, acted, conn>>
    BY DEF DialFails, DialStarved, clientVars, wireVars, backVars
<1>2. ASSUME DialFails(c) PROVE HttpInv'
    <2>1. PICK code \in {502, 504} : Refuse(c, code)
        BY <1>2 DEF DialFails
    <2>2. task[c].pc \in (Serving \ {"body", "tunnel"}) \cup {"head", "route"}
        BY <1>1 DEF Serving, Fetching
    <2> QED  BY <1>1, <2>1, <2>2, RefuseKeeps
<1>3. ASSUME DialStarved(c) PROVE HttpInv'
    BY <1>1, <1>3, BriefKeeps DEF DialStarved
<1> QED  BY <1>2, <1>3

\* complete_headers: more of the head, 431, 408, or a close in silence.
LEMMA CompleteHeadKeeps ==
    ASSUME HttpInv, NEW c \in Client, CompleteHead(c)
    PROVE  HttpInv'
<1>1. task[c].pc = "head" /\ UNCHANGED <<script, sent, ended, over, pool, acted, conn>>
    BY DEF CompleteHead, clientVars, wireVars, backVars
<1>2. task[c].pc \in (Serving \ {"body", "tunnel"}) \cup {"head", "route"}
    BY <1>1
<1>3. ASSUME NEW k \in Reads(c), seen' = seen,
             task' = [task EXCEPT ![c].read = k, ![c].pc = IF k >= HeadEnd(c) THEN "route" ELSE "head"]
      PROVE  HttpInv'
    <2>1. PICK pc \in {"head", "route"} : /\ pc = "route" => k >= HeadEnd(c)
                                          /\ task' = [task EXCEPT ![c].pc = pc, ![c].read = k]
        <3>1. [task EXCEPT ![c].read = k, ![c].pc = IF k >= HeadEnd(c) THEN "route" ELSE "head"]
              = [task EXCEPT ![c].pc = IF k >= HeadEnd(c) THEN "route" ELSE "head", ![c].read = k]
            BY DEF HttpInv, Doms
        <3> QED  BY <1>3, <3>1
    <2>2. Sets(c, pc, {"read"}) /\ task'[c].read = k
        BY <2>1, ReadSets DEF HttpInv
    <2>3. k \in Nat /\ k > task[c].read /\ task[c].read \in Nat
        BY ReadsFacts DEF HttpInv, StreamInv, TaskOk
    <2>4. task'[c].item = task[c].item /\ task[c].item \in 1..Len(script[c]) /\ Item(c).kind = "request"
          /\ HeadEnd(c) = Ends(c)[task[c].item - 1] + 2 /\ Item(c) = script[c][task[c].item] /\ Len(script[c]) \in Nat
        BY <1>2, <2>2, ServingItem DEF Sets, Fields
    <2>5. Sets(c, pc, {"item", "read", "first", "halves"})
        BY <2>2 DEF Sets
    <2>6. task'[c].item \in task[c].item..(Len(script[c]) + 1) /\ task'[c].item <= Len(script[c])
        BY <2>4
    <2>7. Quiet(c, pc)
        BY <1>1, <1>3, <2>1, <2>2, <2>3, <2>4, <2>5, <2>6, ReadingIs DEF Quiet, ReadingPcs
    <2> QED  BY <1>3, <2>7, QuietKeeps
<1>4. ASSUME Refuse(c, 431) PROVE HttpInv'
    BY <1>1, <1>2, <1>4, RefuseKeeps
<1>5. ASSUME Goto(c, "close"), seen' = seen PROVE HttpInv'
    <2>1. Sets(c, "close", {})
        BY <1>5, GotoSets DEF HttpInv
    <2> QED  BY <1>1, <1>2, <1>5, <2>1, SilentKeeps
<1>6. ASSUME Tell(c, Told(c, task[c].item, 408, TRUE)), Goto(c, "close") PROVE HttpInv'
    BY <1>1, <1>6, BriefKeeps
<1> QED  BY <1>3, <1>4, <1>5, <1>6 DEF CompleteHead

\* The client is told to go on: the next item is still unread.
LEMMA NextItemKeeps ==
    ASSUME HttpInv, NEW c \in Client, task[c].pc \in Serving \cup {"route"},
           task' = [task EXCEPT ![c] = NextItem(c)], Only(c), acted' = acted, ConnsInv', WholeOk(c)', CloseOk(c)'
    PROVE  HttpInv'
<1>1. /\ task'[c].item = task[c].item + 1 /\ task'[c].read = task[c].read
      /\ task'[c].pc \in {"got", "idle"} /\ task'[c].done = FALSE /\ task'[c].fwd = 0
    BY NextItemMoves DEF HttpInv
<1>2. task[c].item \in 1..Len(script[c]) /\ Len(script[c]) \in Nat /\ task[c].read \in Nat
    BY ServingItem
<1>3. script' = script /\ sent' = sent
    BY DEF Only
<1>4. TaskOk(c)'
    BY <1>1, <1>2, <1>3 DEF TaskOk, HttpInv, StreamInv, Pcs
<1>5. ServeOk(c)'
    BY <1>1 DEF ServeOk, Serving, Fetching, Holding
<1>6. ActedOk(c)'
    <2>1. ActedOk(c) /\ acted' = acted
        BY DEF HttpInv, ActedInv
    <2>2. \A n \in 1..Len(script[c]) : n >= task'[c].item => acted[c][n] = 0
        BY <1>1, <1>2, <2>1 DEF ActedOk
    <2> QED  BY <1>1, <1>2, <1>3, <2>1, <2>2 DEF ActedOk, Fetching
<1> QED  BY <1>4, <1>5, <1>6, OnlyKeeps

\* A reply of the proxy's own goes on to the next request, or closes.
LEMMA LocalReplyKeeps ==
    ASSUME HttpInv, NEW c \in Client, NEW code, NEW reusable, NEW done, LocalReply(c, code, reusable, done),
           task[c].pc = "route", UNCHANGED <<script, sent, ended, over, pool, acted, conn>>,
           done => ~Item(c).keepalive /\ task[c].read = Finish(c), done \in BOOLEAN
    PROVE  HttpInv'
<1>0. task[c].pc \in Serving \cup {"head", "route"} /\ task[c].pc \notin {"body", "tunnel"} \cup Over /\ task[c].pc \in Pcs
    BY DEF Over, Pcs
<1>1. /\ task[c].item \in 1..Len(script[c]) /\ task[c].read \in Nat
      /\ Item(c) = script[c][task[c].item] /\ Finish(c) = Ends(c)[task[c].item]
    BY <1>0, ServingItem
<1>2. Tell(c, Told(c, task[c].item, code, ~KeepOpen(c, reusable)))
    BY DEF LocalReply
<1>3. Alike(seen', seen, c)
    BY <1>2, TellAlike
<1>4. ASSUME KeepOpen(c, reusable), task' = [task EXCEPT ![c] = NextItem(c)]
      PROVE  HttpInv'
    <2>1. DOMAIN task' = DOMAIN task /\ (\A d \in Client \ {c} : task'[d] = task[d]) /\ DOMAIN task'[c] = Fields
          /\ task'[c].pc \in {"got", "idle"}
        BY <1>4, NextItemMoves DEF HttpInv
    <2>2. Only(c)
        BY <1>3, <2>1 DEF Only, Alike
    <2>3. ConnsInv'
        BY <2>1, <2>2, ReleaseConns DEF Holding
    <2>4. WholeOk(c)' /\ CloseOk(c)'
        BY <1>0, <1>2, <1>4, <2>1, ToldSeen
    <2> QED  BY <1>4, <2>2, <2>3, <2>4, NextItemKeeps
<1>5. ASSUME ~KeepOpen(c, reusable) \/ Broke(c), Sets(c, "close", {"done", "linger"}),
             ~KeepOpen(c, reusable) => task'[c].linger = ~done
      PROVE  HttpInv'
    <2>1. task'[c].pc = "close" /\ task'[c].item = task[c].item /\ task'[c].read = task[c].read
        BY <1>5 DEF Sets, Fields
    <2>2. Only(c)
        BY <1>3, <1>5, OnlyBy
    <2>3. WholeOk(c)' /\ CloseOk(c)'
        <3>1. CASE Broke(c)
            BY <3>1, <1>0, <1>2, <2>1, NothingToldSeen DEF Tell
        <3>2. CASE ~Broke(c)
            <4>1. ~KeepOpen(c, reusable) /\ task'[c].linger = ~done
                BY <3>2, <1>5
            <4>2. Tell(c, Told(c, task[c].item, code, TRUE))
                BY <4>1, <1>2
            <4>3. done => ~script[c][task[c].item].keepalive /\ task'[c].read = Ends(c)[task[c].item]
                BY <1>1, <2>1
            <4> QED  BY <4>1, <4>2, <4>3, <1>0, <2>1, ToldSeen
        <3> QED  BY <3>1, <3>2
    <2>4. ActedOk(c)'
        BY <2>1, ActedStays DEF Reading, Over, Fetching
    <2>5. task'[c].read \in Nat
        BY <1>1, <2>1
    <2> QED  BY <1>5, <2>2, <2>3, <2>4, <2>5, CloseKeeps
<1> QED  BY <1>4, <1>5, LocalReplySets DEF HttpInv

\* analyze_request, the limiter and Framing::of: refused, limited, answered
\* here, or on to a backend with nothing of the request sent.
LEMMA RouteRequestKeeps ==
    ASSUME HttpInv, NEW c \in Client, RouteRequest(c)
    PROVE  HttpInv'
<1> DEFINE item == Item(c)
           done == ClientDone(item.keepalive, HeadIsWhole(item), task[c].read > HeadEnd(c))
           held == ClientDone(item.keepalive, BodyHeld(c) /\ ~item.upgrade, Leftover(c))
<1>1. task[c].pc = "route" /\ UNCHANGED <<script, sent, ended, over, pool, acted, conn>>
    BY DEF RouteRequest, clientVars, wireVars, backVars
<1>2. /\ task[c].item \in 1..Len(script[c]) /\ task[c].read \in Nat /\ item.kind = "request" /\ Base(c) \in Nat
      /\ HeadEnd(c) = Base(c) + 2 /\ Finish(c) = HeadEnd(c) + item.body /\ item.body \in Nat /\ Finish(c) \in Nat
      /\ item \in ClientItems /\ Item(c) = script[c][task[c].item] /\ Base(c) = Ends(c)[task[c].item - 1] /\ Finish(c) = Ends(c)[task[c].item]
    BY <1>1, ServingItem
<1>3. task[c].read >= HeadEnd(c) /\ TaskOk(c) /\ ActedOk(c)
    BY <1>1 DEF HttpInv, StreamInv, ServeOk, ActedInv
<1>4. done \in BOOLEAN /\ (done => ~item.keepalive /\ task[c].read = Finish(c))
    <2>1. HeadIsWhole(item) => Finish(c) = HeadEnd(c)
        BY <1>2 DEF HeadIsWhole
    <2>2. ~(task[c].read > HeadEnd(c)) => task[c].read = HeadEnd(c)
        BY <1>2, <1>3
    <2> QED  BY <2>1, <2>2 DEF ClientDone
<1>5. held \in BOOLEAN /\ (held => ~item.keepalive /\ task[c].read = Finish(c))
    BY <1>2, <1>3 DEF ClientDone, BodyHeld, Leftover
<1>6. ASSUME NEW code, NEW reusable, LocalReply(c, code, reusable, done) \/ LocalReply(c, code, reusable, FALSE)
      PROVE  HttpInv'
    BY <1>1, <1>4, <1>6, LocalReplyKeeps
<1>7. ASSUME seen' = seen,
             task' = [task EXCEPT ![c] = [task[c] EXCEPT !.pc = "connect", !.fwd = Base(c), !.early = FALSE,
                                    !.replayable = FALSE, !.replay = FALSE, !.clean = TRUE, !.done = held]]
      PROVE  HttpInv'
    <2>1. /\ Sets(c, "connect", {"fwd", "early", "replayable", "replay", "clean", "done"})
           /\ task'[c].fwd = Base(c) /\ task'[c].early = FALSE /\ task'[c].replayable = FALSE
           /\ task'[c].replay = FALSE /\ task'[c].done = held
        <3> HIDE DEF held
        <3> QED  BY <1>7, ConnectSets DEF HttpInv
    <2> HIDE DEF held
    <2>2. task'[c].pc = "connect" /\ task'[c].item = task[c].item /\ task'[c].read = task[c].read
        BY <2>1 DEF Sets, Fields
    <2>3. Only(c)
        BY <1>1, <1>7, <2>1, OnlyBy
    <2>4. ConnsInv'
        BY <1>1, <2>2, <2>3, ReleaseConns DEF Holding
    <2>5. WholeOk(c)' /\ CloseOk(c)'
        BY <1>1, <1>7, <2>2, NothingToldSeen DEF Over, Pcs
    <2>6. TaskOk(c)'
        BY <1>1, <1>2, <1>3, <2>1, <2>2 DEF TaskOk, Pcs
    <2>7. ServeOk(c)'
        <3>1. Base(c)' = Base(c) /\ Item(c)' = Item(c) /\ Finish(c)' = Finish(c) /\ HeadEnd(c)' = HeadEnd(c)
            BY <1>1, <2>2, ServedKept
        <3>2. task'[c].item <= Len(script[c]) /\ Item(c)'.kind = "request"
            BY <1>2, <2>2, <3>1
        <3>3. task'[c].read >= HeadEnd(c)' /\ task'[c].fwd = Base(c)'
            BY <1>3, <2>1, <2>2, <3>1
        <3>4. task'[c].done => ~Item(c)'.keepalive /\ task'[c].read = Finish(c)'
            BY <1>5, <2>1, <2>2, <3>1
        <3> QED  BY <1>1, <2>1, <2>2, <3>2, <3>3, <3>4 DEF ServeOk, Reading, Serving, Fetching
    <2>8. ActedOk(c)'
        <3>1. \A n \in 1..Len(script[c]) : n >= task'[c].item => acted[c][n] = 0
            BY <1>1, <1>2, <1>3, <2>2, ReadingIs DEF ActedOk, ReadingPcs
        <3> QED  BY <1>1, <1>2, <1>3, <2>2, <3>1 DEF ActedOk
    <2> QED  BY <2>3, <2>4, <2>5, <2>6, <2>7, <2>8, OnlyKeeps
<1>8. \/ \E code, reusable : LocalReply(c, code, reusable, done) \/ LocalReply(c, code, reusable, FALSE)
      \/ /\ seen' = seen
         /\ task' = [task EXCEPT ![c] = [task[c] EXCEPT !.pc = "connect", !.fwd = Base(c), !.early = FALSE,
                                    !.replayable = FALSE, !.replay = FALSE, !.clean = TRUE, !.done = held]]
    BY DEF RouteRequest
<1> QED  BY <1>6, <1>7, <1>8

-----------------------------------------------------------------------------
(* Backend connections and the pools. *)

\* What a step of one client leaves of the others'.
LEMMA OnlyFacts ==
    ASSUME NEW c \in Client, Only(c)
    PROVE  /\ Client' = Client /\ Pieces' = Pieces /\ Wholes' = Wholes /\ <<>> \in Pieces /\ <<>> \in Wholes
           /\ \A d \in Client : Ends(d)' = Ends(d)
           /\ \A d \in Client \ {c} : task'[d] = task[d] /\ Base(d)' = Base(d) /\ Finish(d)' = Finish(d)
<1>1. Client' = Client /\ script' = script /\ \A d \in Client \ {c} : task'[d] = task[d]
    BY DEF Only, Client
<1>2. \A d \in Client : Ends(d)' = Ends(d)
    BY <1>1, EndsKept
<1>3. Pieces' = Pieces /\ Wholes' = Wholes /\ <<>> \in Pieces /\ <<>> \in Wholes
    BY <1>1, PiecesKept DEF Pieces, Wholes
<1>4. \A d \in Client \ {c} : Base(d)' = Base(d) /\ Finish(d)' = Finish(d)
    BY <1>1, ServedKept
<1> QED  BY <1>1, <1>2, <1>3, <1>4

\* Another client's hold is kept as long as its connection is.
LEMMA OtherHolds ==
    ASSUME HttpInv, NEW c \in Client, Only(c), NEW d \in Client \ {c},
           task[d].pc \in Holding => conn'[task[d].conn] = conn[task[d].conn]
    PROVE  HoldOk(d)'
<1>1. HoldOk(d) /\ task'[d] = task[d] /\ Base(d)' = Base(d) /\ Finish(d)' = Finish(d) /\ Wholes' = Wholes
    BY OnlyFacts DEF HttpInv, ConnsInv
<1> QED  BY <1>1 DEF HoldOk, Bytes

\* A step of c that takes connections out of the pools and drops some.
LEMMA ShrinkConns ==
    ASSUME HttpInv, NEW c \in Client, Only(c), NEW G, conn' = Gone(G), PoolType', Places' \subseteq Places,
           \A p \in Places' : At(p)' = At(p) /\ At(p) \notin G,
           \A d \in Client \ {c} : task[d].pc \in Holding => task[d].conn \notin G,
           HoldOk(c)', task'[c].pc \in Holding => \E q \in Places : q \notin Places' /\ task'[c].conn = At(q)
    PROVE  ConnsInv'
<1>1. PoolOk /\ (\A b \in Conns : ConnOk(b)) /\ (\A d \in Client : HoldOk(d))
    BY DEF HttpInv, ConnsInv
<1>2. \A p \in Places : At(p) \in Conns
    BY <1>1, PlaceFacts DEF PoolOk
<1>3. \A p \in Places' : At(p)' = At(p) /\ conn'[At(p)] = conn[At(p)]
    BY <1>2 DEF Gone
<1>4. \A d \in Client \ {c} : HoldOk(d)'
    <2> TAKE d \in Client \ {c}
    <2>1. task[d].pc \in Holding => conn'[task[d].conn] = conn[task[d].conn]
        BY <1>1 DEF HoldOk, Gone
    <2> QED  BY <2>1, OtherHolds
<1>5. \A b \in Conns : ConnOk(b)'
    <2> TAKE b \in Conns
    <2>1. conn'[b] = conn[b] \/ conn'[b] = Unused
        BY DEF Gone
    <2> QED  BY <1>1, <2>1, OnlyFacts DEF ConnOk, Unused
<1>6. PooledOk' /\ PooledApart'
    BY <1>1, <1>3, OnlyFacts DEF PoolOk, PooledOk, PooledApart
<1>7. HeldApart'
    <2>1. \A d \in Client \ {c} : task'[d] = task[d]
        BY OnlyFacts
    <2>2. ASSUME NEW d \in Client, task'[d].pc \in Holding, NEW p \in Places' PROVE At(p)' # task'[d].conn
        BY <1>1, <1>3, <2>1, <2>2 DEF PoolOk, HeldApart, PooledApart
    <2>3. ASSUME NEW d \in Client \ {c}, task'[d].pc \in Holding, task'[c].pc \in Holding PROVE task'[c].conn # task'[d].conn
        BY <1>1, <2>1, <2>3 DEF PoolOk, HeldApart
    <2>4. ASSUME NEW d \in Client, NEW e \in Client, task'[d].pc \in Holding, task'[e].pc \in Holding,
                 task'[d].conn = task'[e].conn PROVE d = e
        BY <1>1, <2>1, <2>3, <2>4 DEF PoolOk, HeldApart
    <2> QED  BY <2>2, <2>4, OnlyFacts DEF HeldApart
<1> QED  BY <1>4, <1>5, <1>6, <1>7, OnlyFacts DEF ConnsInv, PoolOk

\* A step of c on one connection, its own or a new one.
LEMMA UpdateConns ==
    ASSUME HttpInv, NEW c \in Client, Only(c), pool' = pool, NEW b \in Conns, \A e \in Conns \ {b} : conn'[e] = conn[e],
           \A p \in Places : At(p) # b, \A d \in Client \ {c} : task[d].pc \in Holding => task[d].conn # b,
           ConnOk(b)', HoldOk(c)', task'[c].pc \in Holding => task'[c].conn = b
    PROVE  ConnsInv'
<1>1. PoolOk /\ (\A e \in Conns : ConnOk(e)) /\ (\A d \in Client : HoldOk(d))
    BY DEF HttpInv, ConnsInv
<1>2. Owners' = Owners /\ Places' = Places /\ \A p \in Places : At(p)' = At(p) /\ At(p) \in Conns
    BY <1>1, PoolSame, PlaceFacts DEF Only, PoolOk
<1>3. \A p \in Places : conn'[At(p)] = conn[At(p)]
    BY <1>2
<1>4. \A d \in Client \ {c} : HoldOk(d)'
    <2> TAKE d \in Client \ {c}
    <2>1. task[d].pc \in Holding => conn'[task[d].conn] = conn[task[d].conn]
        BY <1>1 DEF HoldOk
    <2> QED  BY <2>1, OtherHolds
<1>5. \A e \in Conns : ConnOk(e)'
    <2> TAKE e \in Conns
    <2>1. e # b => conn'[e] = conn[e]
        OBVIOUS
    <2> QED  BY <1>1, <2>1, OnlyFacts DEF ConnOk
<1>6. PoolType' /\ PooledOk' /\ PooledApart'
    BY <1>1, <1>2, <1>3, OnlyFacts DEF PoolOk, PoolType, PooledOk, PooledApart
<1>7. HeldApart'
    BY <1>1, <1>2, OnlyFacts DEF PoolOk, HeldApart
<1> QED  BY <1>4, <1>5, <1>6, <1>7, OnlyFacts DEF ConnsInv, PoolOk

\* The connection a task holds is nobody else's.
LEMMA HeldFacts ==
    ASSUME HttpInv, NEW c \in Client, task[c].pc \in Holding
    PROVE  /\ task[c].conn \in Conns /\ ConnOk(task[c].conn) /\ \A p \in Places : At(p) # task[c].conn
           /\ \A d \in Client \ {c} : task[d].pc \in Holding => task[d].conn # task[c].conn
BY DEF HttpInv, ConnsInv, HoldOk, PoolOk, HeldApart

\* IdleConns::put.
LEMMA PutConns ==
    ASSUME HttpInv, NEW c \in Client, Only(c), conn' = conn, NEW o \in Owners, NEW a \in Address,
           task[c].pc \in Holding, task'[c].pc \notin Holding,
           pool' = [pool EXCEPT ![o][a] = Append(@, task[c].conn)],
           conn[task[c].conn].end = "up" => conn[task[c].conn].got \in Wholes
    PROVE  ConnsInv'
<1> DEFINE b == task[c].conn
<1>0. PICK new : new = <<o, a, Len(pool[o][a]) + 1>>
    OBVIOUS
<1>1. PoolOk /\ (\A e \in Conns : ConnOk(e)) /\ (\A d \in Client : HoldOk(d)) /\ b \in Conns /\ conn[b].end # "none"
    BY DEF HttpInv, ConnsInv, HoldOk
<1>2. pool[o][a] \in Seq(Conns) /\ pool \in [Owners -> [Address -> Seq(Conns)]] /\ Owners' = Owners
    BY <1>1 DEF PoolOk, PoolType, Only, Owners, Client
<1>3. Append(pool[o][a], b) \in Seq(Conns) /\ Len(Append(pool[o][a], b)) = Len(pool[o][a]) + 1
      /\ (\A i \in 1..Len(pool[o][a]) : Append(pool[o][a], b)[i] = pool[o][a][i]) /\ Append(pool[o][a], b)[Len(pool[o][a]) + 1] = b
    BY <1>1, <1>2, AppendProperties
<1>4. pool' \in [Owners -> [Address -> Seq(Conns)]]
    BY <1>2, <1>3
<1>5. \A p \in Places' : p = new \/ p \in Places
    BY <1>0, <1>2, <1>3 DEF Places
<1>6. \A p \in Places : At(p)' = At(p)
    BY <1>2, <1>3 DEF Places, At
<1>7. At(new)' = b
    BY <1>0, <1>2, <1>3 DEF At
<1> HIDE DEF b
<1>8. (\A p \in Places : At(p) # b) /\ \A d \in Client \ {c} : task[d].pc \in Holding => task[d].conn # b
    BY HeldFacts DEF b
<1>9. \A d \in Client \ {c} : HoldOk(d)'
    BY OtherHolds
<1>10. HoldOk(c)' /\ \A e \in Conns : ConnOk(e)'
    BY <1>1, OnlyFacts DEF ConnOk, HoldOk
<1>11. PooledOk'
    <2>1. \A p \in Places' : \/ At(p)' = b
                             \/ p \in Places /\ At(p)' = At(p)
        BY <1>5, <1>6, <1>7
    <2> QED  BY <1>1, <2>1, OnlyFacts DEF PooledOk, PoolOk, b
<1>12. PooledApart'
    <2> SUFFICES ASSUME NEW p \in Places', NEW q \in Places', At(p)' = At(q)' PROVE p = q
        BY DEF PooledApart
    <2> QED  BY <1>1, <1>5, <1>6, <1>7, <1>8 DEF PooledApart, PoolOk
<1>13. HeldApart'
    <2>1. ASSUME NEW d \in Client, task'[d].pc \in Holding PROVE d # c /\ task'[d] = task[d]
        BY <2>1, OnlyFacts
    <2>2. ASSUME NEW d \in Client, task'[d].pc \in Holding, NEW p \in Places' PROVE At(p)' # task'[d].conn
        BY <2>1, <2>2, <1>1, <1>5, <1>6, <1>7, <1>8 DEF PoolOk, HeldApart
    <2>3. ASSUME NEW d \in Client, NEW e \in Client, task'[d].pc \in Holding, task'[e].pc \in Holding,
                 task'[d].conn = task'[e].conn PROVE d = e
        BY <2>1, <2>3, <1>1 DEF PoolOk, HeldApart
    <2> QED  BY <2>2, <2>3, OnlyFacts DEF HeldApart
<1> QED  BY <1>2, <1>4, <1>9, <1>10, <1>11, <1>12, <1>13, OnlyFacts DEF ConnsInv, PoolOk, PoolType

\* take_live: the newest idle connection that probes alive, if there is one.
LEMMA LiveFacts ==
    ASSUME PoolType, NEW o \in Owners, NEW a \in Address
    PROVE  /\ LiveAt(o, a) \in 0..Len(pool[o][a]) /\ pool[o][a] \in Seq(Conns) /\ Len(pool[o][a]) \in Nat
           /\ LiveAt(o, a) > 0 => conn[pool[o][a][LiveAt(o, a)]].end = "up"
<1> DEFINE s == pool[o][a]
           live == {i \in 1..Len(s) : IdleAndOpen(s[i])}
<1>1. s \in Seq(Conns) /\ Len(s) \in Nat
    BY DEF PoolType
<1>2. LiveAt(o, a) = IF live = {} THEN 0 ELSE CHOOSE i \in live : \A j \in live : j <= i
    BY DEF LiveAt
<1>3. ASSUME live # {} PROVE LiveAt(o, a) \in live
    <2>0. PICK L \in Nat : L = Len(s)
        BY <1>1
    <2>1. \A i \in live : i \in 1..L
        BY <2>0
    <2> HIDE DEF live
    <2> DEFINE S == {L - i : i \in live}
    <2>2. S \in SUBSET Nat /\ S # {}
        BY <2>1, <1>3
    <2>3. PICK n \in S : \A m \in S : n <= m
        <3> HIDE DEF S
        <3> QED  BY <2>2, Least
    <2>4. PICK i \in live : n = L - i
        BY <2>3
    <2>5. ASSUME NEW j \in live PROVE j <= i
        <3>1. L - j \in S
            OBVIOUS
        <3>2. n <= L - j
            BY <2>3, <3>1
        <3>3. i \in 1..L /\ j \in 1..L
            BY <2>1
        <3> HIDE DEF S
        <3> QED  BY <2>4, <3>2, <3>3
    <2> QED  BY <1>2, <1>3, <2>5
<1>4. LiveAt(o, a) = 0 \/ (LiveAt(o, a) \in 1..Len(s) /\ IdleAndOpen(s[LiveAt(o, a)]))
    BY <1>2, <1>3
<1>5. LiveAt(o, a) \in 0..Len(s)
    BY <1>1, <1>4
<1>6. ASSUME LiveAt(o, a) > 0 PROVE conn[s[LiveAt(o, a)]].end = "up"
    BY <1>4, <1>6 DEF IdleAndOpen
<1> QED  BY <1>1, <1>5, <1>6

\* Every connection has a pool, the process's or its own.
LEMMA OwnerFacts == ASSUME NEW c \in Client PROVE Owner(c) \in Owners
BY DEF Owner, Owners

\* On the way to a connection, nothing of the request has been sent.
LEMMA FetchStream ==
    ASSUME HttpInv, NEW c \in Client, NEW pc \in Fetching, NEW F \in SUBSET {"conn", "reused"}, Sets(c, pc, F),
           task[c].pc \in Fetching, Only(c), acted' = acted, seen' = seen, over' = over
    PROVE  TaskOk(c)' /\ ServeOk(c)' /\ ActedOk(c)' /\ WholeOk(c)' /\ CloseOk(c)'
<1>1. /\ task'[c].pc = pc /\ task'[c].item = task[c].item /\ task'[c].read = task[c].read
      /\ task'[c].fwd = task[c].fwd /\ task'[c].replayable = task[c].replayable /\ task'[c].replay = task[c].replay
      /\ task'[c].done = task[c].done
    BY DEF Sets, Fields
<1>2. script' = script /\ sent' = sent /\ TaskOk(c) /\ ServeOk(c) /\ ActedOk(c)
    BY DEF Only, HttpInv, StreamInv, ActedInv
<1>3. pc \in Serving /\ task[c].pc \in Serving /\ pc \notin Reading /\ pc \in Pcs
      /\ pc \notin {"body", "tunnel", "end", "expect", "relay", "await"} \cup Over /\ task[c].pc \in Pcs
      /\ task[c].pc \notin {"body", "tunnel"} \cup Over
    BY ReadingIs DEF Serving, ReadingPcs, Fetching, Pcs, Over
<1>4. TaskOk(c)'
    BY <1>1, <1>2, <1>3 DEF TaskOk
<1>5. /\ Item(c)' = Item(c) /\ Base(c)' = Base(c) /\ HeadEnd(c)' = HeadEnd(c) /\ Finish(c)' = Finish(c)
      /\ BodyHeld(c)' = BodyHeld(c) /\ RequestEnd(c)' = RequestEnd(c)
    BY <1>1, <1>2, ServedKept, HeldKept
<1>6. ServeOk(c)'
    BY <1>1, <1>2, <1>3, <1>5 DEF ServeOk
<1>7. ActedOk(c)'
    BY <1>1, <1>2, <1>3, <1>5 DEF ActedOk
<1>8. WholeOk(c)' /\ CloseOk(c)'
    BY <1>1, <1>2, <1>3, NothingToldSeen
<1> QED  BY <1>4, <1>6, <1>7, <1>8

\* connect_to_backend from the pool: what is taken leaves the pool, and what
\* probed dead is dropped.
LEMMA TakeIdleKeeps ==
    ASSUME HttpInv, NEW c \in Client, TakeIdle(c)
    PROVE  HttpInv'
<1>0. /\ task[c].pc = "connect" /\ UNCHANGED <<script, sent, ended, over, seen, acted>>
      /\ task[c].pc \in Serving \cup {"head", "route"} /\ task[c].pc \in Fetching
    BY DEF TakeIdle, clientVars, wireVars, Serving, Fetching
<1>1. PICK o : o = Owner(c)
    OBVIOUS
<1>2. PICK a : a = Item(c).to
    OBVIOUS
<1>3. PICK i : i = LiveAt(o, a)
    OBVIOUS
<1>4. PICK s : s = pool[o][a]
    OBVIOUS
<1>5. PICK G : G = {s[j] : j \in (i + 1)..Len(s)}
    OBVIOUS
<1>6. PoolOk /\ PoolType /\ pool \in [Owners -> [Address -> Seq(Conns)]]
    BY DEF HttpInv, ConnsInv, PoolOk, PoolType
<1>7. o \in Owners /\ a \in Address
    <2>1. Item(c) \in ClientItems
        BY <1>0, ServingItem
    <2> QED  BY <1>1, <1>2, <2>1, OwnerFacts DEF ClientItems
<1>8. i \in 0..Len(s) /\ s \in Seq(Conns) /\ Len(s) \in Nat /\ (i > 0 => conn[s[i]].end = "up")
    BY <1>3, <1>4, <1>6, <1>7, LiveFacts
<1>9. conn' = Gone(G) /\ pool' = [pool EXCEPT ![o][a] = SubSeq(s, 1, i - 1)]
    BY <1>1, <1>2, <1>3, <1>4, <1>5 DEF TakeIdle, Discarded, Remaining
<1>10. /\ SubSeq(s, 1, i - 1) \in Seq(Conns)
       /\ Len(SubSeq(s, 1, i - 1)) = IF i = 0 THEN 0 ELSE i - 1
       /\ \A j \in 1..(i - 1) : SubSeq(s, 1, i - 1)[j] = s[j]
    <2>1. \A j \in 1..(i - 1) : s[j] \in Conns
        BY <1>8
    <2>2. 1 \in Int /\ i - 1 \in Int
        BY <1>8
    <2>3. /\ SubSeq(s, 1, i - 1) \in Seq(Conns)
          /\ Len(SubSeq(s, 1, i - 1)) = IF 1 <= i - 1 THEN i - 1 - 1 + 1 ELSE 0
          /\ \A j \in 1..(i - 1 - 1 + 1) : SubSeq(s, 1, i - 1)[j] = s[1 + j - 1]
        BY <2>1, <2>2, SubSeqProperties
    <2>4. i - 1 - 1 + 1 = i - 1
        BY <1>8
    <2>5. \A j \in 1..(i - 1) : 1 + j - 1 = j
        BY <1>8
    <2>6. Len(SubSeq(s, 1, i - 1)) = IF i = 0 THEN 0 ELSE i - 1
        BY <2>3, <2>4, <1>8
    <2> QED  BY <2>3, <2>4, <2>5, <2>6
<1>11. PICK t : t = SubSeq(s, 1, i - 1)
    OBVIOUS
<1>12. PoolType'
    <2>1. Owners' = Owners
        BY <1>0 DEF Owners, Client
    <2> QED  BY <1>6, <1>7, <1>9, <1>10, <2>1 DEF PoolType
<1>13. ASSUME NEW p \in Places'
       PROVE  p \in Places /\ At(p)' = At(p) /\ ~(p[1] = o /\ p[2] = a /\ p[3] >= i)
    <2>1. p \in Owners \X Address \X Nat /\ p[3] \in 1..Len(pool'[p[1]][p[2]])
        BY <1>0, <1>13 DEF Places, Owners, Client
    <2>2. CASE p[1] = o /\ p[2] = a
        <3>1. pool'[p[1]][p[2]] = t
            BY <2>2, <1>6, <1>7, <1>9, <1>11
        <3>2. p[3] \in 1..(i - 1) /\ i > 0
            BY <2>1, <3>1, <1>8, <1>10, <1>11
        <3>3. p[3] \in 1..Len(pool[p[1]][p[2]])
            BY <3>2, <2>2, <1>4, <1>8
        <3>4. t[p[3]] = s[p[3]]
            BY <3>2, <1>10, <1>11
        <3> QED  BY <2>1, <2>2, <3>1, <3>2, <3>3, <3>4, <1>4, <1>8 DEF Places, At
    <2>3. CASE ~(p[1] = o /\ p[2] = a)
        <3>1. pool'[p[1]][p[2]] = pool[p[1]][p[2]]
            BY <2>1, <2>3, <1>6, <1>7, <1>9
        <3> QED  BY <2>1, <2>3, <3>1 DEF Places, At
    <2> QED  BY <2>2, <2>3
<1>14. \A j \in 1..Len(s) : <<o, a, j>> \in Places /\ At(<<o, a, j>>) = s[j]
    BY <1>4, <1>7, <1>8 DEF Places, At
<1>15. ASSUME NEW p \in Places' PROVE At(p) \notin G
    <2> SUFFICES ASSUME NEW j \in (i + 1)..Len(s), At(p) = s[j] PROVE FALSE
        BY <1>5
    <2>1. j \in 1..Len(s) /\ j >= i
        BY <1>8
    <2>2. p = <<o, a, j>>
        BY <1>13, <1>14, <1>6, <2>1 DEF PoolOk, PooledApart
    <2> QED  BY <1>13, <2>1, <2>2
<1>16. ASSUME NEW d \in Client \ {c}, task[d].pc \in Holding PROVE task[d].conn \notin G
    <2> SUFFICES ASSUME NEW j \in (i + 1)..Len(s), task[d].conn = s[j] PROVE FALSE
        BY <1>5
    <2>1. j \in 1..Len(s)
        BY <1>8
    <2> QED  BY <1>14, <1>6, <1>16, <2>1 DEF PoolOk, HeldApart
<1>17. Places' \subseteq Places
    BY <1>13
<1>18. ASSUME NEW pc \in {"send", "dial"}, NEW F \in SUBSET {"conn", "reused"}, Sets(c, pc, F), HoldOk(c)',
              pc = "send" => i > 0 /\ task'[c].conn = s[i]
       PROVE  HttpInv'
    <2>1. Only(c)
        BY <1>0, <1>9, <1>18, OnlyBy, GoneDom
    <2>2. task'[c].pc = pc
        BY <1>18 DEF Sets
    <2>3. task'[c].pc \in Holding => \E q \in Places : q \notin Places' /\ task'[c].conn = At(q)
        <3> SUFFICES ASSUME i > 0, task'[c].conn = s[i] PROVE \E q \in Places : q \notin Places' /\ task'[c].conn = At(q)
            BY <1>18, <2>2 DEF Holding
        <3>1. i \in 1..Len(s) /\ i >= i
            BY <1>8
        <3>2. <<o, a, i>> \in Places /\ At(<<o, a, i>>) = s[i]
            BY <1>14, <3>1
        <3>3. <<o, a, i>> \notin Places'
            BY <1>13, <3>1
        <3> QED  BY <3>2, <3>3
    <2>4. ConnsInv'
        BY <2>1, <2>3, <1>9, <1>12, <1>13, <1>15, <1>16, <1>17, <1>18, ShrinkConns
    <2>5. TaskOk(c)' /\ ServeOk(c)' /\ ActedOk(c)' /\ WholeOk(c)' /\ CloseOk(c)'
        BY <1>0, <1>18, <2>1, FetchStream DEF Fetching
    <2> QED  BY <2>1, <2>4, <2>5, OnlyKeeps
<1>19. ASSUME i > 0, task' = [task EXCEPT ![c].pc = "send", ![c].conn = s[i], ![c].reused = TRUE]
       PROVE  HttpInv'
    <2>1. Sets(c, "send", {"conn", "reused"}) /\ task'[c].conn = s[i] /\ task'[c].pc = "send"
        BY <1>19 DEF Sets, Fields, HttpInv, Doms
    <2>2. i \in 1..Len(s)
        BY <1>8, <1>19
    <2>3. s[i] \in Conns /\ s[i] \notin G
        <3>1. ASSUME NEW j \in (i + 1)..Len(s), s[i] = s[j] PROVE FALSE
            <4>1. j \in 1..Len(s) /\ i # j
                BY <1>8
            <4>2. <<o, a, i>> = <<o, a, j>>
                BY <1>6, <1>14, <2>2, <3>1, <4>1 DEF PoolOk, PooledApart
            <4> QED  BY <4>1, <4>2
        <3> QED  BY <1>5, <1>8, <2>2, <3>1
    <2>4. conn'[s[i]] = conn[s[i]] /\ conn[s[i]].end = "up"
        BY <1>8, <1>9, <1>19, <2>3 DEF Gone
    <2>5. conn[s[i]].got \in Wholes
        BY <1>6, <1>14, <2>2, <2>4 DEF PoolOk, PooledOk
    <2>6. Wholes' = Wholes
        BY <1>0, PiecesKept
    <2>7. HoldOk(c)'
        BY <2>1, <2>3, <2>4, <2>5, <2>6 DEF HoldOk
    <2> QED  BY <1>18, <1>19, <2>1, <2>7
<1>20. ASSUME task' = [task EXCEPT ![c].pc = "dial", ![c].reused = FALSE]
       PROVE  HttpInv'
    <2>1. Sets(c, "dial", {"reused"}) /\ task'[c].pc = "dial"
        BY <1>20 DEF Sets, Fields, HttpInv, Doms
    <2>2. HoldOk(c)'
        BY <2>1 DEF HoldOk, Holding
    <2> QED  BY <1>18, <2>1, <2>2
<1> QED  BY <1>1, <1>2, <1>3, <1>4, <1>19, <1>20 DEF TakeIdle

\* A dial that succeeds: the connection is new, nobody else's and empty.
LEMMA DialUpKeeps ==
    ASSUME HttpInv, NEW c \in Client, DialUp(c)
    PROVE  HttpInv'
<1>0. /\ task[c].pc \in {"dial", "fresh"} /\ UNCHANGED <<script, sent, ended, over, seen, acted, pool>>
      /\ task[c].pc \in Fetching
    BY DEF DialUp, clientVars, wireVars, Fetching
<1>1. PICK b \in Conns, pc \in {"send", "resend"} :
         /\ conn[b] = Unused /\ conn' = [conn EXCEPT ![b] = Opened(Item(c).to)]
         /\ task' = [task EXCEPT ![c].conn = b, ![c].pc = pc]
    BY DEF DialUp
<1>2. Sets(c, pc, {"conn"}) /\ task'[c].conn = b /\ task'[c].pc = pc
    BY <1>1 DEF Sets, Fields, HttpInv, Doms
<1>3. Only(c)
    <2>1. DOMAIN conn' = DOMAIN conn
        BY <1>1
    <2> QED  BY <1>0, <1>2, <2>1, OnlyBy
<1>4. conn[b].end = "none"
    BY <1>1 DEF Unused
<1>5. \A p \in Places : At(p) # b
    BY <1>4 DEF HttpInv, ConnsInv, PoolOk, PooledOk
<1>6. \A d \in Client \ {c} : task[d].pc \in Holding => task[d].conn # b
    BY <1>4 DEF HttpInv, ConnsInv, HoldOk
<1>7. conn'[b] = Opened(Item(c).to) /\ \A e \in Conns \ {b} : conn'[e] = conn[e]
    BY <1>1 DEF HttpInv, Doms
<1>8. DOMAIN conn'[b] = DOMAIN Unused /\ conn'[b].end = "up" /\ conn'[b].got = <<>>
    BY <1>7 DEF Opened, Unused
<1>9. Pieces' = Pieces /\ Wholes' = Wholes /\ <<>> \in Pieces /\ <<>> \in Wholes
    BY <1>3, OnlyFacts
<1>10. ConnOk(b)'
    BY <1>8, <1>9 DEF ConnOk
<1>11. HoldOk(c)'
    BY <1>2, <1>8, <1>9 DEF HoldOk
<1>12. ConnsInv'
    BY <1>0, <1>2, <1>3, <1>5, <1>6, <1>7, <1>10, <1>11, UpdateConns
<1>13. TaskOk(c)' /\ ServeOk(c)' /\ ActedOk(c)' /\ WholeOk(c)' /\ CloseOk(c)'
    <2>1. pc \in Fetching
        BY <1>1 DEF Fetching
    <2> QED  BY <1>0, <1>2, <1>3, <2>1, FetchStream
<1> QED  BY <1>3, <1>12, <1>13, OnlyKeeps

-----------------------------------------------------------------------------
(* What lies on a backend connection. *)

\* Items take disjoint parts of the stream.
LEMMA ItemAtIs ==
    ASSUME Doms, NEW c \in Client, NEW n \in 1..Len(script[c]), NEW p \in Nat,
           Ends(c)[n - 1] < p, p <= Ends(c)[n]
    PROVE  ItemAt(c, p) = n
<1>1. script[c] \in Seq(ClientItems) /\ Len(script[c]) \in Nat
    BY DEF Doms
<1>2. ASSUME NEW m \in 1..Len(script[c]), Ends(c)[m - 1] < p, p <= Ends(c)[m] PROVE m = n
    <2>0. Ends(c) \in [0..Len(script[c]) -> Nat]
        BY <1>1, EndsDef
    <2>1. m \in 0..Len(script[c]) /\ n \in 0..Len(script[c]) /\ m - 1 \in 0..Len(script[c]) /\ n - 1 \in 0..Len(script[c])
        BY <1>1
    <2>2. Ends(c)[m] \in Nat /\ Ends(c)[n] \in Nat /\ Ends(c)[m - 1] \in Nat /\ Ends(c)[n - 1] \in Nat
        BY <2>0, <2>1
    <2>3. ASSUME m < n PROVE FALSE
        <3>1. m <= n - 1
            BY <2>3, <2>1
        <3>2. Ends(c)[m] <= Ends(c)[n - 1]
            <4>1. CASE m = n - 1
                BY <4>1, <2>2
            <4>2. CASE m < n - 1
                <5>1. Ends(c)[m] < Ends(c)[n - 1]
                    BY <1>1, <2>1, <4>2, EndsMonotone
                <5> QED  BY <5>1, <2>2
            <4> QED  BY <3>1, <2>1, <4>1, <4>2
        <3> QED  BY <3>2, <2>2, <1>2
    <2>4. ASSUME n < m PROVE FALSE
        <3>1. n <= m - 1
            BY <2>4, <2>1
        <3>2. Ends(c)[n] <= Ends(c)[m - 1]
            <4>1. CASE n = m - 1
                BY <4>1, <2>2
            <4>2. CASE n < m - 1
                <5>1. Ends(c)[n] < Ends(c)[m - 1]
                    BY <1>1, <2>1, <4>2, EndsMonotone
                <5> QED  BY <5>1, <2>2
            <4> QED  BY <3>1, <2>1, <4>1, <4>2
        <3> QED  BY <3>2, <2>2, <1>2
    <2> QED  BY <2>1, <2>3, <2>4
<1> QED  BY <1>2 DEF ItemAt

\* The bytes of an interval of a stream, by position.
LEMMA BytesFacts ==
    ASSUME NEW c, NEW from \in Nat, NEW to \in Nat, from <= to
    PROVE  /\ Len(Bytes(c, from, to)) = to - from
           /\ \A i \in 1..(to - from) : Bytes(c, from, to)[i] = <<c, from + i>>
<1>1. to - from \in Nat
    OBVIOUS
<1>2. Len(Bytes(c, from, to)) = to - from
    BY <1>1 DEF Bytes
<1>3. \A i \in 1..(to - from) : Bytes(c, from, to)[i] = <<c, from + i>>
    BY DEF Bytes
<1> QED  BY <1>2, <1>3

\* They form a sequence, empty exactly when the interval is.
LEMMA BytesSeq ==
    ASSUME NEW c, NEW from \in Nat, NEW to \in Nat, from <= to
    PROVE  Bytes(c, from, to) \in Seq({c} \X Nat) /\ (from = to <=> Bytes(c, from, to) = <<>>)
<1>1. to - from \in Nat
    OBVIOUS
<1>2. Bytes(c, from, to) \in Seq({c} \X Nat) /\ Len(Bytes(c, from, to)) = to - from
    BY <1>1 DEF Bytes
<1>3. from = to <=> Bytes(c, from, to) = <<>>
    BY <1>1, <1>2
<1> QED  BY <1>2, <1>3

\* Adjacent intervals join.
LEMMA BytesConcat ==
    ASSUME NEW c, NEW from \in Nat, NEW mid \in Nat, NEW to \in Nat, from <= mid, mid <= to
    PROVE  Bytes(c, from, mid) \o Bytes(c, mid, to) = Bytes(c, from, to)
<1> DEFINE S == {c} \X Nat
           s == Bytes(c, from, mid)
           t == Bytes(c, mid, to)
           u == Bytes(c, from, to)
<1>1. s \in Seq(S) /\ Len(s) = mid - from /\ \A i \in 1..(mid - from) : s[i] = <<c, from + i>>
    BY BytesFacts, BytesSeq
<1>2. t \in Seq(S) /\ Len(t) = to - mid /\ \A i \in 1..(to - mid) : t[i] = <<c, mid + i>>
    BY BytesFacts, BytesSeq
<1>3. u \in Seq(S) /\ Len(u) = to - from /\ \A i \in 1..(to - from) : u[i] = <<c, from + i>>
    <2>1. from <= to
        OBVIOUS
    <2> QED  BY <2>1, BytesFacts, BytesSeq
<1> HIDE DEF S, s, t, u
<1>4. s \o t \in Seq(S) /\ Len(s \o t) = Len(s) + Len(t)
      /\ \A i \in 1..(Len(s) + Len(t)) : (s \o t)[i] = IF i <= Len(s) THEN s[i] ELSE t[i - Len(s)]
    BY <1>1, <1>2, ConcatProperties
<1>5. Len(s \o t) = Len(u)
    BY <1>1, <1>2, <1>3, <1>4
<1>6. ASSUME NEW i \in 1..Len(u) PROVE (s \o t)[i] = u[i]
    <2>1. i \in 1..(to - from) /\ i \in 1..(Len(s) + Len(t))
        BY <1>1, <1>2, <1>3
    <2>2. CASE i <= mid - from
        <3>1. i \in 1..(mid - from)
            BY <2>1, <2>2
        <3> QED  BY <1>1, <1>3, <1>4, <2>1, <2>2, <3>1
    <2>3. CASE ~(i <= mid - from)
        <3>1. i - (mid - from) \in 1..(to - mid) /\ mid + (i - (mid - from)) = from + i
            BY <2>1, <2>3
        <3>2. (s \o t)[i] = t[i - (mid - from)]
            BY <1>1, <1>4, <2>1, <2>3
        <3>3. t[i - (mid - from)] = <<c, mid + (i - (mid - from))>>
            BY <1>2, <3>1
        <3> QED  BY <1>3, <2>1, <3>1, <3>2, <3>3
    <2> QED  BY <2>2, <2>3
<1> QED
    <2>1. s \o t = u
        BY <1>3, <1>4, <1>5, <1>6, SeqEqual
    <2> QED  BY <2>1 DEF s, t, u

\* A backend that got whole requests only starts afresh with the next.
LEMMA WholeIsWhole ==
    ASSUME Doms, NEW g \in Wholes, g # <<>>
    PROVE  IsWhole(g)
<1>0. PICK c \in Client : \E n \in 1..Len(script[c]) : g = Bytes(c, Ends(c)[n - 1], Ends(c)[n])
    BY DEF Wholes
<1>1. PICK n \in 1..Len(script[c]) : g = Bytes(c, Ends(c)[n - 1], Ends(c)[n])
    BY <1>0
<1>2. /\ Ends(c)[n - 1] \in Nat /\ Ends(c)[n] \in Nat /\ Parts(script[c][n]) \in Nat /\ Parts(script[c][n]) >= 1
      /\ Ends(c)[n] = Ends(c)[n - 1] + Parts(script[c][n])
    BY ItemFacts
<1>3. Ends(c)[n - 1] < Ends(c)[n]
    BY <1>2
<1>4. PICK x \in Nat : x = Ends(c)[n - 1]
    BY <1>2
<1>5. PICK y \in Nat : y = Ends(c)[n]
    BY <1>2
<1>6. x < y /\ x <= y /\ y - x \in 1..(y - x) /\ x + (y - x) = y
    BY <1>3, <1>4, <1>5
<1>7. Len(g) = y - x /\ g[y - x] = <<c, x + (y - x)>>
    <2>1. g = Bytes(c, x, y)
        BY <1>1, <1>4, <1>5
    <2>2. Len(Bytes(c, x, y)) = y - x /\ \A i \in 1..(y - x) : Bytes(c, x, y)[i] = <<c, x + i>>
        BY <1>6, BytesFacts
    <2> QED  BY <1>6, <2>1, <2>2
<1>8. g[Len(g)] = <<c, y>>
    BY <1>6, <1>7
<1>9. ItemAt(c, y) = n
    BY <1>3, <1>4, <1>5, ItemAtIs
<1>10. g[Len(g)][1] = c /\ g[Len(g)][2] = y
    BY <1>8
<1> QED  BY <1>5, <1>9, <1>10 DEF IsWhole

\* A request cut short is not taken for a whole one.
LEMMA PartIsNotWhole ==
    ASSUME Doms, NEW c \in Client, NEW n \in 1..Len(script[c]), NEW to \in Nat,
           Ends(c)[n - 1] < to, to < Ends(c)[n]
    PROVE  ~IsWhole(Bytes(c, Ends(c)[n - 1], to))
<1>2. Ends(c)[n - 1] \in Nat /\ Ends(c)[n] \in Nat
    BY ItemFacts
<1>4. PICK x \in Nat : x = Ends(c)[n - 1]
    BY <1>2
<1>5. PICK y \in Nat : y = Ends(c)[n]
    BY <1>2
<1>6. to - x \in 1..(to - x) /\ x + (to - x) = to /\ x <= to
    BY <1>4
<1>7. PICK g : g = Bytes(c, x, to)
    OBVIOUS
<1>8. Len(g) = to - x /\ g[to - x] = <<c, x + (to - x)>>
    BY <1>6, <1>7, BytesFacts
<1>9. g[Len(g)] = <<c, to>>
    BY <1>6, <1>8
<1>10. ItemAt(c, to) = n
    BY <1>4, <1>5, <1>2, ItemAtIs
<1>11. g[Len(g)][1] = c /\ g[Len(g)][2] = to
    BY <1>9
<1>12. ~IsWhole(g)
    BY <1>5, <1>10, <1>11 DEF IsWhole
<1> QED  BY <1>4, <1>7, <1>12

\* What b holds of the request once the stream up to k has been written to it.
LEMMA ReceivedIs ==
    ASSUME HttpInv, NEW c \in Client, task[c].pc \in {"send", "resend", "relay"},
           conn[task[c].conn].end = "up", task[c].pc = "relay" => task[c].fwd < Finish(c),
           NEW k \in Nat, task[c].fwd <= k
    PROVE  Received(conn[task[c].conn].got, Bytes(c, task[c].fwd, k)) = Bytes(c, Base(c), k)
<1> DEFINE g == conn[task[c].conn].got
<1>1. /\ task[c].item \in 1..Len(script[c]) /\ Finish(c) \in Nat /\ Base(c) \in Nat /\ task[c].fwd \in Nat /\ task[c].read \in Nat
      /\ HeadEnd(c) = Base(c) + 2 /\ Finish(c) = HeadEnd(c) + Item(c).body /\ Item(c).body \in Nat
      /\ Finish(c) = Ends(c)[task[c].item] /\ Base(c) = Ends(c)[task[c].item - 1]
    BY ServingItem DEF Serving, Fetching, Holding
<1>2. HoldOk(c) /\ ServeOk(c) /\ Doms
    BY DEF HttpInv, ConnsInv, StreamInv
<1>3. CASE task[c].pc \in {"send", "resend"}
    <2>1. g \in Wholes /\ task[c].fwd = Base(c)
        BY <1>2, <1>3 DEF HoldOk, ServeOk, Holding, Fetching
    <2>2. CASE g # <<>>
        BY <1>2, <2>1, <2>2, WholeIsWhole DEF Received
    <2>3. CASE g = <<>>
        <3>1. ~IsWhole(g)
            BY <2>3 DEF IsWhole
        <3>2. Bytes(c, Base(c), k) \in Seq({c} \X Nat)
            BY <1>1, <2>1, BytesSeq
        <3>3. <<>> \o Bytes(c, Base(c), k) = Bytes(c, Base(c), k)
            BY <3>2
        <3> QED  BY <2>1, <2>3, <3>1, <3>3 DEF Received
    <2> QED  BY <2>2, <2>3
<1>4. CASE task[c].pc = "relay"
    <2>1. g = Bytes(c, Base(c), task[c].fwd) /\ task[c].fwd = RequestEnd(c) /\ task[c].read >= HeadEnd(c)
        BY <1>2, <1>4 DEF HoldOk, ServeOk, Holding, Serving
    <2>2. Base(c) < task[c].fwd /\ task[c].fwd < Finish(c)
        <3>1. RequestEnd(c) = task[c].read \/ RequestEnd(c) = Finish(c)
            BY DEF RequestEnd, Lesser
        <3> QED  BY <1>1, <1>4, <2>1, <3>1
    <2>3. ~IsWhole(g)
        <3>1. ~IsWhole(Bytes(c, Ends(c)[task[c].item - 1], task[c].fwd))
            BY <1>1, <1>2, <2>2, PartIsNotWhole
        <3> QED  BY <1>1, <2>1, <3>1
    <2>4. Base(c) <= task[c].fwd
        BY <1>1, <2>2
    <2>5. Bytes(c, Base(c), task[c].fwd) \o Bytes(c, task[c].fwd, k) = Bytes(c, Base(c), k)
        BY <1>1, <2>4, BytesConcat
    <2> QED  BY <2>1, <2>3, <2>5 DEF Received
<1> QED  BY <1>3, <1>4

\* What is written of the request being served is a piece of it, or all.
LEMMA PieceIs ==
    ASSUME HttpInv, NEW c \in Client, task[c].pc \in Serving, NEW k \in Base(c)..Finish(c)
    PROVE  Bytes(c, Base(c), k) \in Pieces /\ (k = Finish(c) => Bytes(c, Base(c), k) \in Wholes)
<1>1. /\ task[c].item \in 1..Len(script[c]) /\ Finish(c) \in Nat /\ Base(c) \in Nat
      /\ Finish(c) = Ends(c)[task[c].item] /\ Base(c) = Ends(c)[task[c].item - 1]
    BY ServingItem
<1>2. Finish(c) = Base(c) + Parts(script[c][task[c].item]) /\ Parts(script[c][task[c].item]) \in Nat
    BY <1>1, ItemFacts DEF HttpInv
<1>3. k \in Nat /\ Base(c) <= k
    BY <1>1
<1>4. CASE k = Base(c)
    <2>1. Bytes(c, Base(c), k) = <<>>
        BY <1>1, <1>3, <1>4, BytesSeq
    <2> QED  BY <2>1 DEF Pieces, Wholes
<1>5. CASE k # Base(c)
    <2>1. k - Base(c) \in 1..Parts(script[c][task[c].item]) /\ Base(c) + (k - Base(c)) = k
        BY <1>1, <1>2, <1>5
    <2>2. Bytes(c, Base(c), k) = Piece(c, task[c].item, k - Base(c))
        BY <1>1, <2>1 DEF Piece
    <2>3. Bytes(c, Base(c), k) \in Pieces
        BY <1>1, <2>1, <2>2 DEF Pieces
    <2>4. k = Finish(c) => Bytes(c, Base(c), k) \in Wholes
        BY <1>1 DEF Wholes
    <2> QED  BY <2>3, <2>4
<1> QED  BY <1>4, <1>5

\* write_with_tail: all of it, or a part and a reset, or nothing.
LEMMA WriteFacts ==
    ASSUME HttpInv, NEW c \in Client, task[c].pc \in {"send", "resend", "relay"},
           task[c].pc = "relay" => task[c].fwd < Finish(c),
           NEW upto \in Nat, task[c].fwd < upto, upto <= Finish(c), NEW w \in Writes(task[c].conn, c, upto)
    PROVE  /\ w.ok \in BOOLEAN /\ w.upto \in Nat /\ task[c].fwd <= w.upto /\ w.upto <= upto
           /\ ~w.ok => w.upto < upto
           /\ DOMAIN w.conn = DOMAIN Unused /\ w.conn.end \in {"up", "fin", "rst"} /\ w.conn.got \in Pieces
           /\ w.conn.end = "up" => w.ok /\ w.conn.got = Bytes(c, Base(c), upto) /\ w.upto = upto
           /\ w.ok => w.upto = upto \/ (w.conn.end # "up" /\ w.upto = task[c].fwd)
<1> DEFINE b == task[c].conn
<1>1. Finish(c) \in Nat /\ Base(c) \in Nat /\ task[c].fwd \in Nat /\ task[c].pc \in Holding /\ task[c].pc \in Serving
    BY ServingItem DEF Serving, Fetching, Holding
<1>2. ConnOk(b) /\ conn[b].end # "none"
    BY <1>1, HeldFacts DEF HttpInv, ConnsInv, HoldOk
<1>3. Base(c) <= task[c].fwd
    <2>1. ServeOk(c) /\ HeadEnd(c) = Base(c) + 2 /\ task[c].read \in Nat
        BY <1>1, ServingItem DEF HttpInv, StreamInv
    <2>2. CASE task[c].pc \in {"send", "resend"}
        BY <1>1, <2>1, <2>2 DEF ServeOk, Fetching
    <2>3. CASE task[c].pc = "relay"
        <3>1. task[c].fwd = RequestEnd(c) /\ task[c].read >= HeadEnd(c)
            BY <2>1, <2>3 DEF ServeOk, Serving, Holding
        <3>2. RequestEnd(c) = task[c].read \/ RequestEnd(c) = Finish(c)
            BY DEF RequestEnd, Lesser
        <3> QED  BY <1>1, <2>1, <2>3, <3>1, <3>2
    <2> QED  BY <2>2, <2>3
<1>4. CASE conn[b].end = "up"
    <2>1. ASSUME NEW k \in Nat, task[c].fwd <= k, k <= upto
          PROVE  /\ Received(conn[b].got, [i \in 1..(k - task[c].fwd) |-> <<c, task[c].fwd + i>>]) = Bytes(c, Base(c), k)
                 /\ Bytes(c, Base(c), k) \in Pieces
        <3>1. Received(conn[b].got, Bytes(c, task[c].fwd, k)) = Bytes(c, Base(c), k)
            BY <1>4, <2>1, ReceivedIs
        <3>2. k \in Base(c)..Finish(c)
            BY <1>1, <1>3, <2>1
        <3> QED  BY <1>1, <3>1, <3>2, PieceIs DEF Bytes
    <2>2. \/ w = [ok |-> TRUE, conn |-> [conn[b] EXCEPT !.got = Received(@, [i \in 1..(upto - task[c].fwd) |-> <<c, task[c].fwd + i>>])], upto |-> upto]
          \/ \E k \in task[c].fwd..(upto - 1) :
                w = [ok |-> FALSE, conn |-> [conn[b] EXCEPT !.got = Received(@, [i \in 1..(k - task[c].fwd) |-> <<c, task[c].fwd + i>>]), !.end = "rst", !.out = <<>>, !.owed = <<>>], upto |-> k]
        BY <1>4 DEF Writes
    <2>3. DOMAIN conn[b] = {"addr", "end", "got", "out", "owed", "told"}
        BY <1>2 DEF ConnOk, Unused
    <2>4. ASSUME NEW g, w = [ok |-> TRUE, conn |-> [conn[b] EXCEPT !.got = g], upto |-> upto], g = Bytes(c, Base(c), upto), g \in Pieces
          PROVE  /\ w.ok = TRUE /\ w.upto = upto /\ w.conn.end = "up" /\ w.conn.got = g
                 /\ DOMAIN w.conn = DOMAIN Unused
        BY <1>2, <1>4, <2>3, <2>4 DEF ConnOk
    <2>5. ASSUME NEW g, NEW k \in task[c].fwd..(upto - 1), g \in Pieces,
                 w = [ok |-> FALSE, conn |-> [conn[b] EXCEPT !.got = g, !.end = "rst", !.out = <<>>, !.owed = <<>>], upto |-> k]
          PROVE  /\ w.ok = FALSE /\ w.upto = k /\ w.conn.end = "rst" /\ w.conn.got = g
                 /\ DOMAIN w.conn = DOMAIN Unused
        BY <1>2, <1>4, <2>3, <2>5 DEF ConnOk
    <2>6. CASE w = [ok |-> TRUE, conn |-> [conn[b] EXCEPT !.got = Received(@, [i \in 1..(upto - task[c].fwd) |-> <<c, task[c].fwd + i>>])], upto |-> upto]
        <3>1. PICK g : g = Received(conn[b].got, [i \in 1..(upto - task[c].fwd) |-> <<c, task[c].fwd + i>>])
            OBVIOUS
        <3>2. upto <= upto /\ task[c].fwd <= upto
            BY <1>1
        <3>3. g = Bytes(c, Base(c), upto) /\ g \in Pieces
            BY <2>1, <3>1, <3>2
        <3>4. w = [ok |-> TRUE, conn |-> [conn[b] EXCEPT !.got = g], upto |-> upto]
            BY <2>6, <3>1
        <3>5. /\ w.ok = TRUE /\ w.upto = upto /\ w.conn.end = "up" /\ w.conn.got = g
              /\ DOMAIN w.conn = DOMAIN Unused
            BY <2>4, <3>3, <3>4
        <3> QED  BY <3>2, <3>3, <3>5
    <2>7. CASE \E k \in task[c].fwd..(upto - 1) :
                w = [ok |-> FALSE, conn |-> [conn[b] EXCEPT !.got = Received(@, [i \in 1..(k - task[c].fwd) |-> <<c, task[c].fwd + i>>]), !.end = "rst", !.out = <<>>, !.owed = <<>>], upto |-> k]
        <3>0. PICK k \in task[c].fwd..(upto - 1) :
                w = [ok |-> FALSE, conn |-> [conn[b] EXCEPT !.got = Received(@, [i \in 1..(k - task[c].fwd) |-> <<c, task[c].fwd + i>>]), !.end = "rst", !.out = <<>>, !.owed = <<>>], upto |-> k]
            BY <2>7
        <3>1. PICK g : g = Received(conn[b].got, [i \in 1..(k - task[c].fwd) |-> <<c, task[c].fwd + i>>])
            OBVIOUS
        <3>2. k \in Nat /\ task[c].fwd <= k /\ k <= upto /\ k < upto
            BY <1>1
        <3>3. g \in Pieces
            BY <2>1, <3>1, <3>2
        <3>4. w = [ok |-> FALSE, conn |-> [conn[b] EXCEPT !.got = g, !.end = "rst", !.out = <<>>, !.owed = <<>>], upto |-> k]
            BY <3>0, <3>1
        <3>5. /\ w.ok = FALSE /\ w.upto = k /\ w.conn.end = "rst" /\ w.conn.got = g
              /\ DOMAIN w.conn = DOMAIN Unused
            BY <2>5, <3>3, <3>4
        <3> QED  BY <3>2, <3>3, <3>5
    <2> QED  BY <2>2, <2>6, <2>7
<1>5. CASE conn[b].end # "up"
    <2>1. PICK k \in BOOLEAN : w = [ok |-> k, conn |-> conn[b], upto |-> task[c].fwd]
        BY <1>5 DEF Writes
    <2>2. w.ok = k /\ w.conn = conn[b] /\ w.upto = task[c].fwd
        BY <2>1
    <2>3. task[c].fwd <= task[c].fwd /\ task[c].fwd <= upto
        BY <1>1
    <2> QED  BY <1>1, <1>2, <1>5, <2>2, <2>3 DEF ConnOk
<1> QED  BY <1>4, <1>5

\* Only the request being written can become whole by a write.
LEMMA ActedFacts ==
    ASSUME HttpInv, NEW c \in Client, task[c].pc \in Serving, Base(c) <= task[c].fwd, task[c].fwd < Finish(c),
           NEW u \in Nat, u <= Finish(c), acted' = Acted(c, u)
    PROVE  /\ Alike(acted', acted, c) /\ acted'[c] \in [1..Len(script[c]) -> 0..2]
           /\ \A n \in 1..Len(script[c]) : n # task[c].item => acted'[c][n] = acted[c][n]
           /\ acted'[c][task[c].item] = IF u = Finish(c) THEN Lesser(acted[c][task[c].item] + 1, 2)
                                        ELSE acted[c][task[c].item]
<1> DEFINE f(n) == IF Ends(c)[n] \in (task[c].fwd + 1)..u THEN Lesser(acted[c][n] + 1, 2) ELSE acted[c][n]
<1>1. /\ task[c].item \in 1..Len(script[c]) /\ Finish(c) \in Nat /\ Base(c) \in Nat /\ task[c].fwd \in Nat
      /\ Finish(c) = Ends(c)[task[c].item] /\ Base(c) = Ends(c)[task[c].item - 1] /\ Len(script[c]) \in Nat
    BY ServingItem
<1>2. acted[c] \in [1..Len(script[c]) -> 0..2] /\ DOMAIN acted = Client /\ script[c] \in Seq(ClientItems)
    BY DEF HttpInv, ActedInv, ActedOk, Doms
<1>3. acted' = [acted EXCEPT ![c] = [n \in DOMAIN acted[c] |-> f(n)]]
    BY DEF Acted
<1>4. Alike(acted', acted, c) /\ acted'[c] = [n \in 1..Len(script[c]) |-> f(n)]
    BY <1>2, <1>3 DEF Alike
<1>5. \A n \in 1..Len(script[c]) : f(n) \in 0..2
    BY <1>2 DEF Lesser
<1>6. ASSUME NEW n \in 1..Len(script[c]), n # task[c].item PROVE Ends(c)[n] \notin (task[c].fwd + 1)..u
    <2>1. Ends(c) \in [0..Len(script[c]) -> Nat]
        BY <1>2, EndsDef
    <2>2. n \in 0..Len(script[c]) /\ task[c].item \in 0..Len(script[c]) /\ task[c].item - 1 \in 0..Len(script[c])
          /\ Ends(c)[n] \in Nat
        BY <1>1, <2>1
    <2>3. CASE n < task[c].item
        <3>1. Ends(c)[n] <= Base(c)
            <4>1. CASE n = task[c].item - 1
                BY <4>1, <1>1
            <4>2. CASE n # task[c].item - 1
                <5>1. n < task[c].item - 1
                    BY <2>2, <2>3, <4>2, <1>1
                <5>2. Ends(c)[n] < Ends(c)[task[c].item - 1]
                    BY <1>2, <2>2, <5>1, EndsMonotone
                <5> QED  BY <1>1, <2>2, <5>2
            <4> QED  BY <4>1, <4>2
        <3> QED  BY <1>1, <2>2, <3>1
    <2>4. CASE n > task[c].item
        <3>1. Ends(c)[task[c].item] < Ends(c)[n]
            <4>1. task[c].item < n
                BY <1>1, <2>4
            <4> QED  BY <1>2, <2>2, <4>1, EndsMonotone
        <3> QED  BY <1>1, <2>2, <3>1
    <2> QED  BY <1>1, <1>6, <2>3, <2>4
<1>7. Ends(c)[task[c].item] \in (task[c].fwd + 1)..u <=> u = Finish(c)
    BY <1>1
<1> QED  BY <1>1, <1>4, <1>5, <1>6, <1>7

\* A write may complete its own request once; a backend that has an
\* idempotent one already may get it again.
LEMMA ActedWrite ==
    ASSUME HttpInv, NEW c \in Client, task[c].pc \in {"send", "resend", "relay"},
           Base(c) <= task[c].fwd, task[c].fwd < Finish(c),
           NEW u \in Nat, u <= Finish(c), acted' = Acted(c, u), script' = script,
           task'[c].item = task[c].item, task'[c].pc \notin Reading,
           task'[c].pc \in Fetching => u < Finish(c),
           task'[c].pc \in {"expect", "relay"} => u < Finish(c) \/ task'[c].fwd = Finish(c)
    PROVE  ActedOk(c)' /\ Alike(acted', acted, c)
<1>0. task[c].pc \in Serving
    BY DEF Serving, Fetching, Holding
<1>1. /\ Alike(acted', acted, c) /\ acted'[c] \in [1..Len(script[c]) -> 0..2]
      /\ \A n \in 1..Len(script[c]) : n # task[c].item => acted'[c][n] = acted[c][n]
      /\ acted'[c][task[c].item] = IF u = Finish(c) THEN Lesser(acted[c][task[c].item] + 1, 2)
                                   ELSE acted[c][task[c].item]
    BY <1>0, ActedFacts
<1>2. ActedOk(c) /\ task[c].item \in 1..Len(script[c]) /\ Len(script[c]) \in Nat /\ Finish(c) \in Nat
    BY <1>0, ServingItem DEF HttpInv, ActedInv
<1>3. Finish(c)' = Finish(c)
    BY ServedKept
<1>4. ~script[c][task[c].item].idempotent => acted[c][task[c].item] = 0
    BY <1>2 DEF ActedOk, Fetching
<1>5. ASSUME NEW n \in 1..Len(script[c]), n # task[c].item
      PROVE  /\ n > task[c].item => acted'[c][n] = 0
             /\ ~script[c][n].idempotent => acted'[c][n] <= 1
    BY <1>1, <1>2, <1>5 DEF ActedOk
<1>6. ~script[c][task[c].item].idempotent =>
         /\ acted'[c][task[c].item] <= 1 /\ (u < Finish(c) => acted'[c][task[c].item] = 0)
    BY <1>1, <1>2, <1>4 DEF Lesser
<1>7. ActedOk(c)'
    <2>1. ASSUME NEW n \in 1..Len(script[c]), n = task[c].item, ~script[c][n].idempotent
          PROVE  /\ acted'[c][n] <= 1
                 /\ task'[c].pc \in Fetching => acted'[c][n] = 0
                 /\ task'[c].pc \in {"expect", "relay"} /\ task'[c].fwd < Finish(c)' => acted'[c][n] = 0
        <3>1. ~(task'[c].fwd = Finish(c) /\ task'[c].fwd < Finish(c)')
            BY <1>2, <1>3
        <3> QED  BY <1>6, <2>1, <3>1
    <2>2. ASSUME NEW n \in 1..Len(script[c])
          PROVE  /\ n > task[c].item => acted'[c][n] = 0
                 /\ ~script[c][n].idempotent =>
                    /\ acted'[c][n] <= 1
                    /\ n = task[c].item /\ task'[c].pc \in Fetching => acted'[c][n] = 0
                    /\ n = task[c].item /\ task'[c].pc \in {"expect", "relay"} /\ task'[c].fwd < Finish(c)' => acted'[c][n] = 0
        <3>1. CASE n = task[c].item
            <4>1. ~(n > task[c].item)
                BY <1>2, <3>1
            <4> QED  BY <2>1, <3>1, <4>1
        <3>2. CASE n # task[c].item
            BY <1>5, <3>2
        <3> QED  BY <3>1, <3>2
    <2> QED  BY <1>1, <2>2 DEF ActedOk
<1> QED  BY <1>1, <1>7

-----------------------------------------------------------------------------
(* Sending a request. *)

\* Framing::of: of what was read, the request's part ends no later than it.
LEMMA RequestEndFacts ==
    ASSUME HttpInv, NEW c \in Client, task[c].pc \in Serving
    PROVE  /\ RequestEnd(c) \in Nat /\ RequestEnd(c) <= Finish(c) /\ HeadEnd(c) <= RequestEnd(c) /\ Base(c) < RequestEnd(c)
           /\ BodyHeld(c) => RequestEnd(c) = Finish(c)
           /\ RequestEnd(c) < Finish(c) => RequestEnd(c) = task[c].read
<1>1. /\ Finish(c) \in Nat /\ Base(c) \in Nat /\ task[c].read \in Nat
      /\ HeadEnd(c) = Base(c) + 2 /\ Finish(c) = HeadEnd(c) + Item(c).body /\ Item(c).body \in Nat
    BY ServingItem
<1>2. task[c].read >= HeadEnd(c)
    BY DEF HttpInv, StreamInv, ServeOk
<1>3. PICK r \in Nat, f \in Nat, h \in Nat : r = task[c].read /\ f = Finish(c) /\ h = HeadEnd(c)
    BY <1>1
<1>4. RequestEnd(c) = IF r < f THEN r ELSE f
    BY <1>3 DEF RequestEnd, Lesser
<1>5. BodyHeld(c) <=> r >= f
    BY <1>3 DEF BodyHeld
<1> QED  BY <1>1, <1>2, <1>3, <1>4, <1>5

\* A step within a request, from one of its phases to another.
LEMMA PhaseTask ==
    ASSUME HttpInv, NEW c \in Client, NEW pc \in Serving, NEW F, Sets(c, pc, F), "item" \notin F, Only(c),
           task[c].pc \in Serving,
           task'[c].read \in Nat, task'[c].read >= task[c].read, task'[c].fwd \in Nat,
           pc \in Fetching => task'[c].fwd = Base(c),
           pc \in {"expect", "relay"} => task'[c].fwd = RequestEnd(c)',
           pc \in {"await", "body", "tunnel"} /\ ~task'[c].early => BodyHeld(c)',
           task'[c].replayable \/ task'[c].replay => Item(c).idempotent /\ BodyHeld(c)',
           task'[c].done => ~Item(c).keepalive /\ task'[c].read = Finish(c)
    PROVE  TaskOk(c)' /\ ServeOk(c)'
<1>1. task'[c].pc = pc /\ task'[c].item = task[c].item
    BY DEF Sets, Fields
<1>2. script' = script /\ sent' = sent /\ TaskOk(c) /\ ServeOk(c)
    BY DEF Only, HttpInv, StreamInv
<1>3. pc \in Pcs /\ pc \notin Reading
    BY ReadingIs DEF Serving, Fetching, Holding, ReadingPcs, Pcs
<1>4. TaskOk(c)'
    BY <1>1, <1>2, <1>3 DEF TaskOk
<1>5. Item(c)' = Item(c) /\ Base(c)' = Base(c) /\ HeadEnd(c)' = HeadEnd(c) /\ Finish(c)' = Finish(c)
    BY <1>1, <1>2, ServedKept
<1>6. HeadEnd(c) \in Nat /\ task[c].read \in Nat /\ task[c].read >= HeadEnd(c) /\ task[c].item <= Len(script[c]) /\ Item(c).kind = "request"
    BY <1>2, ServingItem DEF ServeOk
<1>7. task'[c].read >= HeadEnd(c)'
    BY <1>5, <1>6
<1>8. ServeOk(c)'
    BY <1>1, <1>2, <1>3, <1>5, <1>6, <1>7 DEF ServeOk
<1> QED  BY <1>4, <1>8

\* The stream facts of a request in the phase it moves on to.
LEMMA PhaseStream ==
    ASSUME HttpInv, NEW c \in Client, NEW pc \in Serving \ {"body", "tunnel"}, NEW F, Sets(c, pc, F), "item" \notin F, Only(c),
           task[c].pc \in Serving \ {"body", "tunnel"}, seen'[c] = seen[c], over' = over,
           task'[c].read \in Nat, task'[c].read >= task[c].read, task'[c].fwd \in Nat,
           pc \in Fetching => task'[c].fwd = Base(c),
           pc \in {"expect", "relay"} => task'[c].fwd = RequestEnd(c)',
           pc = "await" /\ ~task'[c].early => BodyHeld(c)',
           task'[c].replayable \/ task'[c].replay => Item(c).idempotent /\ BodyHeld(c)',
           task'[c].done => ~Item(c).keepalive /\ task'[c].read = Finish(c)
    PROVE  TaskOk(c)' /\ ServeOk(c)' /\ WholeOk(c)' /\ CloseOk(c)'
<1>1. task'[c].pc = pc /\ script' = script
    BY DEF Sets, Only
<1>2. /\ pc \notin {"body", "tunnel", "end"} /\ task[c].pc \in Pcs
      /\ task[c].pc \notin {"body", "tunnel"} \cup Over
    BY DEF Serving, Fetching, Holding, Pcs, Over
<1>3. WholeOk(c)' /\ CloseOk(c)'
    BY <1>1, <1>2, NothingToldSeen
<1>4. TaskOk(c)' /\ ServeOk(c)'
    BY PhaseTask
<1> QED  BY <1>3, <1>4

\* The connection in hand, written to.
LEMMA WrittenConns ==
    ASSUME HttpInv, NEW c \in Client, Only(c), task[c].pc \in Holding, pool' = pool, NEW x,
           conn' = [conn EXCEPT ![task[c].conn] = x], DOMAIN x = DOMAIN Unused, x.end \in {"up", "fin", "rst"},
           x.got \in Pieces, task'[c].conn = task[c].conn,
           task'[c].pc \notin {"send", "resend"},
           x.end = "up" =>
             /\ task'[c].pc \in {"expect", "relay"} => x.got = Bytes(c, Base(c)', task'[c].fwd)
             /\ task'[c].pc \in {"await", "body", "tunnel"} /\ ~task'[c].early => x.got = Bytes(c, Base(c)', Finish(c)')
    PROVE  ConnsInv'
<1>0. PICK b : b = task[c].conn
    OBVIOUS
<1>1. /\ b \in Conns /\ (\A p \in Places : At(p) # b)
      /\ \A d \in Client \ {c} : task[d].pc \in Holding => task[d].conn # b
    BY <1>0, HeldFacts
<1>2. conn'[b] = x /\ (\A e \in Conns \ {b} : conn'[e] = conn[e]) /\ task'[c].conn = b
    BY <1>0, <1>1 DEF HttpInv, Doms
<1>3. ConnOk(b)'
    BY <1>2, OnlyFacts DEF ConnOk, Unused
<1>4. HoldOk(c)'
    BY <1>1, <1>2 DEF HoldOk, Bytes
<1> QED  BY <1>1, <1>2, <1>3, <1>4, UpdateConns

\* The hold on a connection given up.
LEMMA GoneConns ==
    ASSUME HttpInv, NEW c \in Client, Only(c), task[c].pc \in Holding, pool' = pool,
           conn' = Gone({task[c].conn}), task'[c].pc \notin Holding
    PROVE  ConnsInv'
BY ReleaseConns

\* send_request_with_retry: sent, or the pooled connection that failed it is
\* replaced by a fresh one; a send that failed completed no request.
LEMMA SendRequestKeeps ==
    ASSUME HttpInv, NEW c \in Client, SendRequest(c)
    PROVE  HttpInv'
<1>0. /\ task[c].pc = "send" /\ UNCHANGED <<script, sent, ended, over, pool>>
      /\ task[c].pc \in Serving \ {"body", "tunnel"} /\ task[c].pc \in Holding /\ task[c].pc \in Fetching
    BY DEF SendRequest, clientVars, wireVars, Serving, Fetching, Holding
<1>1. PICK w \in Writes(task[c].conn, c, RequestEnd(c)) :
              /\ acted' = Acted(c, w.upto)
              /\ \/ /\ w.ok
                    /\ conn' = [conn EXCEPT ![task[c].conn] = w.conn]
                    /\ task' = [task EXCEPT ![c].pc = "expect", ![c].fwd = RequestEnd(c),
                                            ![c].replayable = Replayable(c)]
                    /\ UNCHANGED <<seen, blame>>
                 \/ /\ ~w.ok /\ task[c].reused
                    /\ conn' = Gone({task[c].conn})
                    /\ task' = [task EXCEPT ![c].pc = "fresh", ![c].conn = 0]
                    /\ UNCHANGED <<seen, blame>>
                 \/ /\ ~w.ok /\ ~task[c].reused
                    /\ conn' = Gone({task[c].conn})
                    /\ blame' = Blamed(Item(c).to)
                    /\ Refuse(c, 502)
    BY DEF SendRequest
<1>2. /\ RequestEnd(c) \in Nat /\ RequestEnd(c) <= Finish(c) /\ Base(c) < RequestEnd(c)
      /\ BodyHeld(c) => RequestEnd(c) = Finish(c)
    BY <1>0, RequestEndFacts
<1>3. ServeOk(c) /\ task[c].fwd = Base(c) /\ Base(c) \in Nat /\ Finish(c) \in Nat /\ task[c].read \in Nat /\ task[c].fwd \in Nat
    BY <1>0, ServingItem DEF HttpInv, StreamInv, ServeOk
<1>4. /\ w.ok \in BOOLEAN /\ w.upto \in Nat /\ task[c].fwd <= w.upto /\ w.upto <= RequestEnd(c)
      /\ ~w.ok => w.upto < RequestEnd(c)
      /\ DOMAIN w.conn = DOMAIN Unused /\ w.conn.end \in {"up", "fin", "rst"} /\ w.conn.got \in Pieces
      /\ w.conn.end = "up" => w.ok /\ w.conn.got = Bytes(c, Base(c), RequestEnd(c)) /\ w.upto = RequestEnd(c)
      /\ w.ok => w.upto = RequestEnd(c) \/ (w.conn.end # "up" /\ w.upto = task[c].fwd)
    <2>1. task[c].fwd < RequestEnd(c)
        BY <1>2, <1>3
    <2> QED  BY <1>0, <1>2, <2>1, WriteFacts
<1>5. /\ w.upto <= Finish(c) /\ Base(c) <= task[c].fwd /\ task[c].fwd < Finish(c)
      /\ ~w.ok => w.upto < Finish(c)
    BY <1>2, <1>3, <1>4
<1>6. ASSUME w.ok, conn' = [conn EXCEPT ![task[c].conn] = w.conn], seen' = seen,
             task' = [task EXCEPT ![c].pc = "expect", ![c].fwd = RequestEnd(c), ![c].replayable = Replayable(c)]
      PROVE  HttpInv'
    <2>1. /\ Sets(c, "expect", {"fwd", "replayable"}) /\ task'[c].fwd = RequestEnd(c)
          /\ task'[c].replayable = Replayable(c) /\ task'[c].pc = "expect"
        BY <1>6 DEF Sets, Fields, HttpInv, Doms
    <2>2. /\ task'[c].item = task[c].item /\ task'[c].read = task[c].read /\ task'[c].conn = task[c].conn
          /\ task'[c].replay = task[c].replay /\ task'[c].done = task[c].done
        BY <2>1 DEF Sets, Fields
    <2>3. Base(c)' = Base(c) /\ Finish(c)' = Finish(c) /\ BodyHeld(c)' = BodyHeld(c) /\ RequestEnd(c)' = RequestEnd(c)
        BY <1>0, <2>2, ServedKept, HeldKept
    <2>4. w.upto < Finish(c) \/ task'[c].fwd = Finish(c)
        BY <1>2, <1>3, <1>4, <2>1
    <2>5. ActedOk(c)' /\ Alike(acted', acted, c)
        BY <1>0, <1>1, <1>4, <1>5, <2>1, <2>2, <2>4, ActedWrite, ReadingIs DEF Fetching, ReadingPcs
    <2>6. Only(c)
        <3>1. DOMAIN conn' = DOMAIN conn
            BY <1>6
        <3> QED  BY <1>0, <1>6, <2>1, <2>5, <3>1, OnlyBy
    <2>7. ConnsInv'
        BY <1>0, <1>4, <1>6, <2>1, <2>2, <2>3, <2>6, WrittenConns
    <2>8. TaskOk(c)' /\ ServeOk(c)' /\ WholeOk(c)' /\ CloseOk(c)'
        <3>1. task'[c].replayable \/ task'[c].replay => Item(c).idempotent /\ BodyHeld(c)'
            BY <1>0, <1>3, <2>1, <2>2, <2>3 DEF Replayable, ServeOk
        <3>2. task'[c].done => ~Item(c).keepalive /\ task'[c].read = Finish(c)
            BY <1>0, <1>3, <2>2 DEF ServeOk
        <3>3. "expect" \in Serving \ {"body", "tunnel"} /\ "expect" \notin Fetching
            BY DEF Serving, Holding, Fetching
        <3>4. task'[c].read >= task[c].read /\ task'[c].read \in Nat /\ task'[c].fwd \in Nat
            BY <1>2, <1>3, <2>1, <2>2
        <3>5. task'[c].fwd = RequestEnd(c)'
            BY <2>1, <2>3
        <3> QED  BY <1>0, <1>6, <2>1, <2>6, <3>1, <3>2, <3>3, <3>4, <3>5, PhaseStream
    <2> QED  BY <2>5, <2>6, <2>7, <2>8, OnlyKeeps
<1>7. ASSUME ~w.ok, conn' = Gone({task[c].conn}), seen' = seen,
             task' = [task EXCEPT ![c].pc = "fresh", ![c].conn = 0]
      PROVE  HttpInv'
    <2>1. Sets(c, "fresh", {"conn"}) /\ task'[c].pc = "fresh"
        BY <1>7 DEF Sets, Fields, HttpInv, Doms
    <2>2. /\ task'[c].item = task[c].item /\ task'[c].read = task[c].read /\ task'[c].fwd = task[c].fwd
          /\ task'[c].replay = task[c].replay /\ task'[c].done = task[c].done /\ task'[c].replayable = task[c].replayable
        BY <2>1 DEF Sets, Fields
    <2>3. Base(c)' = Base(c) /\ Finish(c)' = Finish(c) /\ BodyHeld(c)' = BodyHeld(c) /\ RequestEnd(c)' = RequestEnd(c)
        BY <1>0, <2>2, ServedKept, HeldKept
    <2>5. ActedOk(c)' /\ Alike(acted', acted, c)
        <3>1. task'[c].pc \notin Reading /\ task'[c].pc \notin {"expect", "relay"}
            BY <2>1, ReadingIs DEF ReadingPcs
        <3> QED  BY <1>0, <1>1, <1>4, <1>5, <1>7, <2>2, <3>1, ActedWrite
    <2>6. Only(c)
        <3>1. DOMAIN conn' = DOMAIN conn
            BY <1>7, GoneDom
        <3> QED  BY <1>0, <1>7, <2>1, <2>5, <3>1, OnlyBy
    <2>7. ConnsInv'
        BY <1>0, <1>7, <2>1, <2>6, GoneConns DEF Holding
    <2>8. TaskOk(c)' /\ ServeOk(c)' /\ WholeOk(c)' /\ CloseOk(c)'
        <3>1. task'[c].replayable \/ task'[c].replay => Item(c).idempotent /\ BodyHeld(c)'
            BY <1>0, <1>3, <2>1, <2>2, <2>3 DEF ServeOk
        <3>2. task'[c].done => ~Item(c).keepalive /\ task'[c].read = Finish(c)
            BY <1>0, <1>3, <2>2 DEF ServeOk
        <3>3. "fresh" \in Serving \ {"body", "tunnel"}
            BY DEF Serving, Holding, Fetching
        <3>4. task'[c].read >= task[c].read /\ task'[c].read \in Nat /\ task'[c].fwd \in Nat
            BY <1>2, <1>3, <2>1, <2>2
        <3>5. task'[c].fwd = Base(c)
            BY <1>3, <2>2
        <3> QED  BY <1>0, <1>7, <2>1, <2>6, <3>1, <3>2, <3>3, <3>4, <3>5, PhaseStream
    <2> QED  BY <2>5, <2>6, <2>7, <2>8, OnlyKeeps
<1>8. ASSUME ~w.ok, conn' = Gone({task[c].conn}), Refuse(c, 502) PROVE HttpInv'
    <2>1. Sets(c, "close", {"conn", "linger"})
        BY <1>8, RefuseSets DEF HttpInv
    <2>2. task'[c].item = task[c].item /\ task'[c].pc = "close"
        BY <2>1 DEF Sets, Fields
    <2>5. ActedOk(c)' /\ Alike(acted', acted, c)
        BY <1>0, <1>1, <1>4, <1>5, <1>8, <2>2, ActedWrite, ReadingIs DEF ReadingPcs, Fetching
    <2> QED  BY <1>0, <1>8, <2>5, RefuseKeeps
<1> QED  BY <1>1, <1>6, <1>7, <1>8

\* The one retry over a fresh connection, with no retry of its own.
LEMMA ResendKeeps ==
    ASSUME HttpInv, NEW c \in Client, Resend(c)
    PROVE  HttpInv'
<1>0. /\ task[c].pc = "resend" /\ UNCHANGED <<script, sent, ended, over, pool>>
      /\ task[c].pc \in Serving \ {"body", "tunnel"} /\ task[c].pc \in Holding /\ task[c].pc \in Fetching
    BY DEF Resend, clientVars, wireVars, Serving, Fetching, Holding
<1>1. PICK w \in Writes(task[c].conn, c, RequestEnd(c)) :
              /\ acted' = Acted(c, w.upto)
              /\ \/ /\ w.ok
                    /\ conn' = [conn EXCEPT ![task[c].conn] = w.conn]
                    /\ task' = [task EXCEPT ![c].pc = IF task[c].replay THEN "await" ELSE "expect",
                                            ![c].fwd = RequestEnd(c)]
                    /\ UNCHANGED <<seen, blame>>
                 \/ /\ ~w.ok
                    /\ conn' = Gone({task[c].conn})
                    /\ blame' = Blamed(Item(c).to)
                    /\ Refuse(c, 502)
    BY DEF Resend
<1>2. /\ RequestEnd(c) \in Nat /\ RequestEnd(c) <= Finish(c) /\ Base(c) < RequestEnd(c)
      /\ BodyHeld(c) => RequestEnd(c) = Finish(c)
    BY <1>0, RequestEndFacts
<1>3. ServeOk(c) /\ task[c].fwd = Base(c) /\ Base(c) \in Nat /\ Finish(c) \in Nat /\ task[c].read \in Nat /\ task[c].fwd \in Nat
    BY <1>0, ServingItem DEF HttpInv, StreamInv, ServeOk
<1>4. /\ w.ok \in BOOLEAN /\ w.upto \in Nat /\ task[c].fwd <= w.upto /\ w.upto <= RequestEnd(c)
      /\ ~w.ok => w.upto < RequestEnd(c)
      /\ DOMAIN w.conn = DOMAIN Unused /\ w.conn.end \in {"up", "fin", "rst"} /\ w.conn.got \in Pieces
      /\ w.conn.end = "up" => w.ok /\ w.conn.got = Bytes(c, Base(c), RequestEnd(c)) /\ w.upto = RequestEnd(c)
      /\ w.ok => w.upto = RequestEnd(c) \/ (w.conn.end # "up" /\ w.upto = task[c].fwd)
    <2>1. task[c].fwd < RequestEnd(c)
        BY <1>2, <1>3
    <2> QED  BY <1>0, <1>2, <2>1, WriteFacts
<1>5. /\ w.upto <= Finish(c) /\ Base(c) <= task[c].fwd /\ task[c].fwd < Finish(c)
      /\ ~w.ok => w.upto < Finish(c)
    BY <1>2, <1>3, <1>4
<1>6. ASSUME w.ok, conn' = [conn EXCEPT ![task[c].conn] = w.conn], seen' = seen,
             NEW pc \in {"await", "expect"}, pc = "await" => task[c].replay,
             task' = [task EXCEPT ![c].pc = pc, ![c].fwd = RequestEnd(c)]
      PROVE  HttpInv'
    <2>1. Sets(c, pc, {"fwd"}) /\ task'[c].fwd = RequestEnd(c) /\ task'[c].pc = pc
        BY <1>6 DEF Sets, Fields, HttpInv, Doms
    <2>2. /\ task'[c].item = task[c].item /\ task'[c].read = task[c].read /\ task'[c].conn = task[c].conn
          /\ task'[c].replay = task[c].replay /\ task'[c].done = task[c].done /\ task'[c].replayable = task[c].replayable
        BY <2>1 DEF Sets, Fields
    <2>3. Base(c)' = Base(c) /\ Finish(c)' = Finish(c) /\ BodyHeld(c)' = BodyHeld(c) /\ RequestEnd(c)' = RequestEnd(c)
        BY <1>0, <2>2, ServedKept, HeldKept
    <2>4. w.upto < Finish(c) \/ task'[c].fwd = Finish(c)
        BY <1>2, <1>3, <1>4, <2>1
    <2>5. ActedOk(c)' /\ Alike(acted', acted, c)
        <3>1. task'[c].pc \notin Reading /\ task'[c].pc \notin Fetching
            BY <1>6, <2>1, ReadingIs DEF ReadingPcs, Fetching
        <3> QED  BY <1>0, <1>1, <1>4, <1>5, <2>2, <2>4, <3>1, ActedWrite
    <2>6. Only(c)
        <3>1. DOMAIN conn' = DOMAIN conn
            BY <1>6
        <3> QED  BY <1>0, <1>6, <2>1, <2>5, <3>1, OnlyBy
    <2>9. pc = "await" => BodyHeld(c) /\ RequestEnd(c) = Finish(c)
        BY <1>0, <1>2, <1>3, <1>6 DEF ServeOk
    <2>7. ConnsInv'
        <3>1. w.conn.end = "up" => w.conn.got = Bytes(c, Base(c)', task'[c].fwd)
            BY <1>4, <2>1, <2>3
        <3>2. w.conn.end = "up" /\ task'[c].pc \in {"await", "body", "tunnel"} => w.conn.got = Bytes(c, Base(c)', Finish(c)')
            BY <1>6, <2>1, <2>3, <2>9, <3>1
        <3>3. task'[c].pc \notin {"send", "resend"}
            BY <1>6, <2>1
        <3> QED  BY <1>0, <1>4, <1>6, <2>2, <2>6, <3>1, <3>2, <3>3, WrittenConns
    <2>8. TaskOk(c)' /\ ServeOk(c)' /\ WholeOk(c)' /\ CloseOk(c)'
        <3>1. task'[c].replayable \/ task'[c].replay => Item(c).idempotent /\ BodyHeld(c)'
            BY <1>0, <1>3, <2>1, <2>2, <2>3 DEF ServeOk
        <3>2. task'[c].done => ~Item(c).keepalive /\ task'[c].read = Finish(c)
            BY <1>0, <1>3, <2>2 DEF ServeOk
        <3>3. pc \in Serving \ {"body", "tunnel"} /\ pc \notin Fetching
            BY <1>6 DEF Serving, Holding, Fetching
        <3>4. task'[c].read >= task[c].read /\ task'[c].read \in Nat /\ task'[c].fwd \in Nat
            BY <1>2, <1>3, <2>1, <2>2
        <3>5. task'[c].fwd = RequestEnd(c)' /\ (pc = "await" => BodyHeld(c)')
            BY <2>1, <2>3, <2>9
        <3> QED  BY <1>0, <1>6, <2>1, <2>6, <3>1, <3>2, <3>3, <3>4, <3>5, PhaseStream
    <2> QED  BY <2>5, <2>6, <2>7, <2>8, OnlyKeeps
<1>8. ASSUME ~w.ok, conn' = Gone({task[c].conn}), Refuse(c, 502) PROVE HttpInv'
    <2>1. Sets(c, "close", {"conn", "linger"})
        BY <1>8, RefuseSets DEF HttpInv
    <2>2. task'[c].item = task[c].item /\ task'[c].pc = "close"
        BY <2>1 DEF Sets, Fields
    <2>5. ActedOk(c)' /\ Alike(acted', acted, c)
        BY <1>0, <1>1, <1>4, <1>5, <1>8, <2>2, ActedWrite, ReadingIs DEF ReadingPcs, Fetching
    <2> QED  BY <1>0, <1>8, <2>5, RefuseKeeps
<1> QED
    <2>1. task[c].replay \/ ~task[c].replay
        OBVIOUS
    <2> QED  BY <1>1, <1>6, <1>8, <2>1

\* The connection in hand stays as it is.
LEMMA SameConns ==
    ASSUME HttpInv, NEW c \in Client, Only(c), task[c].pc \in Holding, pool' = pool, conn' = conn,
           task'[c].conn = task[c].conn, HoldOk(c)'
    PROVE  ConnsInv'
<1>1. PICK b : b = task[c].conn
    OBVIOUS
<1>2. /\ b \in Conns /\ (\A p \in Places : At(p) # b) /\ ConnOk(b)
      /\ \A d \in Client \ {c} : task[d].pc \in Holding => task[d].conn # b
    BY <1>1, HeldFacts
<1>4. ConnOk(b)'
    BY <1>2, OnlyFacts DEF ConnOk, Unused
<1> QED  BY <1>1, <1>2, <1>4, UpdateConns

\* Expect: 100-continue is answered before the body is relayed.
LEMMA AnswerExpectKeeps ==
    ASSUME HttpInv, NEW c \in Client, AnswerExpect(c)
    PROVE  HttpInv'
<1>0. /\ task[c].pc = "expect" /\ UNCHANGED <<script, sent, ended, over, pool, acted>>
      /\ task[c].pc \in Serving \ {"body", "tunnel"} /\ task[c].pc \in Holding
      /\ task[c].pc \in Pcs /\ task[c].pc \notin {"body", "tunnel"} \cup Over
    BY DEF AnswerExpect, clientVars, wireVars, Serving, Fetching, Holding, Pcs, Over
<1>1. ASSUME Goto(c, "relay"), conn' = conn, Alike(seen', seen, c), WholeOk(c)', CloseOk(c)'
      PROVE  HttpInv'
    <2>1. Sets(c, "relay", {}) /\ task'[c].pc = "relay"
        BY <1>1, GotoSets DEF HttpInv, Sets
    <2>2. \A f \in Fields \ {"pc"} : task'[c][f] = task[c][f]
        BY <2>1 DEF Sets
    <2>3. /\ task'[c].item = task[c].item /\ task'[c].read = task[c].read /\ task'[c].fwd = task[c].fwd
          /\ task'[c].conn = task[c].conn /\ task'[c].replayable = task[c].replayable /\ task'[c].replay = task[c].replay
          /\ task'[c].done = task[c].done
        BY <2>2 DEF Fields
    <2>4. Only(c)
        BY <1>0, <1>1, <2>1, OnlyBy
    <2>5. Base(c)' = Base(c) /\ Finish(c)' = Finish(c) /\ BodyHeld(c)' = BodyHeld(c) /\ RequestEnd(c)' = RequestEnd(c)
        BY <1>0, <2>3, ServedKept, HeldKept
    <2>6. ServeOk(c) /\ HoldOk(c) /\ ActedOk(c) /\ task[c].read \in Nat /\ task[c].fwd \in Nat
        BY DEF HttpInv, StreamInv, ConnsInv, ActedInv, TaskOk
    <2>7. HoldOk(c)'
        BY <1>0, <1>1, <2>1, <2>3, <2>5, <2>6 DEF HoldOk, Bytes
    <2>8. ConnsInv'
        BY <1>0, <1>1, <2>3, <2>4, <2>7, SameConns
    <2>9. TaskOk(c)' /\ ServeOk(c)'
        <3>1. task'[c].fwd = RequestEnd(c)'
            BY <1>0, <2>3, <2>5, <2>6 DEF ServeOk
        <3>2. task'[c].replayable \/ task'[c].replay => Item(c).idempotent /\ BodyHeld(c)'
            BY <1>0, <2>3, <2>5, <2>6 DEF ServeOk
        <3>3. task'[c].done => ~Item(c).keepalive /\ task'[c].read = Finish(c)
            BY <1>0, <2>3, <2>6 DEF ServeOk
        <3>4. "relay" \in Serving /\ "relay" \notin Fetching
            BY DEF Serving, Holding, Fetching
        <3>5. task'[c].read >= task[c].read /\ task'[c].read \in Nat /\ task'[c].fwd \in Nat
            BY <2>3, <2>6
        <3> QED  BY <1>0, <2>1, <2>4, <3>1, <3>2, <3>3, <3>4, <3>5, PhaseTask
    <2>10. ActedOk(c)'
        BY <1>0, <2>1, <2>3, <2>5, <2>6, ReadingIs DEF ActedOk, Fetching, ReadingPcs
    <2> QED  BY <1>1, <2>4, <2>8, <2>9, <2>10, OnlyKeeps
<1>2. ASSUME Goto(c, "relay"), UNCHANGED <<seen, conn>> PROVE HttpInv'
    <2>1. task'[c].pc = "relay"
        BY <1>2, GotoSets DEF HttpInv, Sets
    <2>2. WholeOk(c)' /\ CloseOk(c)'
        BY <1>0, <1>2, <2>1, NothingToldSeen
    <2> QED  BY <1>1, <1>2, <2>2 DEF Alike
<1>3. ASSUME Tell(c, Told(c, task[c].item, 100, FALSE)), Goto(c, "relay"), conn' = conn PROVE HttpInv'
    <2>1. task'[c].pc = "relay"
        BY <1>3, GotoSets DEF HttpInv, Sets
    <2>2. WholeOk(c)' /\ CloseOk(c)'
        BY <1>0, <1>3, <2>1, ToldSeen
    <2>3. Alike(seen', seen, c)
        BY <1>3, TellAlike
    <2> QED  BY <1>1, <1>3, <2>2, <2>3
<1>4. ASSUME Tell(c, Told(c, task[c].item, 100, FALSE)), Broke(c), Goto(c, "close"), conn' = Gone({task[c].conn}) PROVE HttpInv'
    <2>1. Sets(c, "close", {}) /\ seen' = seen
        BY <1>4, GotoSets DEF HttpInv, Tell
    <2> QED  BY <1>0, <1>4, <2>1, SilentKeeps
<1> QED  BY <1>2, <1>3, <1>4 DEF AnswerExpect

\* The body relayed whole, the answer is awaited.
LEMMA RelayDoneKeeps ==
    ASSUME HttpInv, NEW c \in Client, RelayDone(c)
    PROVE  HttpInv'
<1>0. /\ task[c].pc = "relay" /\ UNCHANGED <<script, sent, ended, over, pool, acted, conn, seen>>
      /\ task[c].pc \in Serving \ {"body", "tunnel"} /\ task[c].pc \in Holding
      /\ task[c].fwd = Finish(c)
    BY DEF RelayDone, clientVars, wireVars, backVars, Serving, Fetching, Holding
<1>1. PICK done : /\ task' = [task EXCEPT ![c].pc = "await", ![c].done = done]
                  /\ done = ClientDone(Item(c).keepalive, ~Item(c).upgrade, Leftover(c))
    BY DEF RelayDone
<1>2. Sets(c, "await", {"done"}) /\ task'[c].done = done /\ task'[c].pc = "await"
    BY <1>1 DEF Sets, Fields, HttpInv, Doms
<1>3. /\ task'[c].item = task[c].item /\ task'[c].read = task[c].read /\ task'[c].fwd = task[c].fwd
      /\ task'[c].conn = task[c].conn /\ task'[c].replayable = task[c].replayable /\ task'[c].replay = task[c].replay
    BY <1>2 DEF Sets, Fields
<1>4. Only(c)
    BY <1>0, <1>2, OnlyBy
<1>5. Base(c)' = Base(c) /\ Finish(c)' = Finish(c) /\ BodyHeld(c)' = BodyHeld(c)
    BY <1>0, <1>3, ServedKept, HeldKept
<1>6. ServeOk(c) /\ HoldOk(c) /\ task[c].read \in Nat /\ task[c].fwd \in Nat /\ Finish(c) \in Nat
    BY <1>0, ServingItem DEF HttpInv, StreamInv, ConnsInv
<1>7. BodyHeld(c)
    <2>1. RequestEnd(c) = Finish(c)
        BY <1>0, <1>6 DEF ServeOk
    <2> QED  BY <1>6, <2>1 DEF RequestEnd, Lesser, BodyHeld
<1>8. HoldOk(c)'
    <2>1. conn[task[c].conn].end = "up" => conn[task[c].conn].got = Bytes(c, Base(c), Finish(c))
        BY <1>0, <1>6 DEF HoldOk
    <2>2. task[c].conn \in Conns /\ conn[task[c].conn].end # "none"
        BY <1>0, <1>6 DEF HoldOk
    <2> QED  BY <1>0, <1>2, <1>3, <1>5, <2>1, <2>2 DEF HoldOk, Bytes
<1>9. ConnsInv'
    BY <1>0, <1>3, <1>4, <1>8, SameConns
<1>10. done => ~Item(c).keepalive /\ task[c].read = Finish(c)
    <2>1. ~Leftover(c) => task[c].read = Finish(c)
        BY <1>6, <1>7 DEF Leftover, BodyHeld
    <2> QED  BY <1>1, <2>1 DEF ClientDone
<1>11. TaskOk(c)' /\ ServeOk(c)' /\ WholeOk(c)' /\ CloseOk(c)'
    <2>1. task'[c].replayable \/ task'[c].replay => Item(c).idempotent /\ BodyHeld(c)'
        BY <1>0, <1>3, <1>5, <1>6 DEF ServeOk
    <2>2. task'[c].done => ~Item(c).keepalive /\ task'[c].read = Finish(c)
        BY <1>2, <1>3, <1>10
    <2>3. "await" \in Serving \ {"body", "tunnel"} /\ "await" \notin Fetching
        BY DEF Serving, Holding, Fetching
    <2>4. task'[c].read >= task[c].read /\ task'[c].read \in Nat /\ task'[c].fwd \in Nat
        BY <1>3, <1>6
    <2> QED  BY <1>0, <1>2, <1>4, <1>5, <1>7, <2>1, <2>2, <2>3, <2>4, PhaseStream
<1>12. ActedOk(c)'
    BY <1>0, <1>2, <1>3, ActedStays, ReadingIs DEF Fetching, ReadingPcs
<1> QED  BY <1>4, <1>9, <1>11, <1>12, OnlyKeeps

\* While the body is relayed all that was read has been forwarded.
LEMMA RelayFacts ==
    ASSUME HttpInv, NEW c \in Client, task[c].pc = "relay", task[c].fwd < Finish(c)
    PROVE  /\ task[c].read = task[c].fwd /\ ~task[c].done /\ ~task[c].replayable /\ ~task[c].replay
           /\ Base(c) < task[c].fwd
<1>1. task[c].pc \in Serving /\ ServeOk(c)
    BY DEF Serving, Holding, HttpInv, StreamInv
<1>2. /\ RequestEnd(c) \in Nat /\ RequestEnd(c) <= Finish(c) /\ Base(c) < RequestEnd(c)
      /\ BodyHeld(c) => RequestEnd(c) = Finish(c)
      /\ RequestEnd(c) < Finish(c) => RequestEnd(c) = task[c].read
    BY <1>1, RequestEndFacts
<1>3. task[c].fwd = RequestEnd(c) /\ Finish(c) \in Nat /\ task[c].read \in Nat
    BY <1>1, ServingItem DEF ServeOk
<1>4. task[c].read = task[c].fwd /\ ~BodyHeld(c) /\ task[c].read # Finish(c)
    BY <1>2, <1>3
<1> QED  BY <1>1, <1>2, <1>3, <1>4 DEF ServeOk

\* A piece of the body written on where the last one ended.
LEMMA RelayWrites ==
    ASSUME HttpInv, NEW c \in Client, task[c].pc = "relay", task[c].fwd < Finish(c), NEW k \in Reads(c),
           NEW w \in Writes(task[c].conn, c, Lesser(k, Finish(c))),
           acted' = Acted(c, w.upto), conn' = [conn EXCEPT ![task[c].conn] = w.conn], seen' = seen,
           task' = [task EXCEPT ![c].read = k, ![c].fwd = IF w.ok THEN Lesser(k, Finish(c)) ELSE @,
                                ![c].early = ~w.ok, ![c].pc = IF w.ok THEN "relay" ELSE "await"],
           UNCHANGED <<script, sent, ended, over, pool>>
    PROVE  HttpInv'
<1>0. task[c].pc \in Serving \ {"body", "tunnel"} /\ task[c].pc \in Holding /\ task[c].pc \notin Fetching
    BY DEF Serving, Fetching, Holding
<1>1. PICK u : u = Lesser(k, Finish(c))
    OBVIOUS
<1>2. /\ k \in Nat /\ k > task[c].read /\ task[c].read \in Nat /\ task[c].fwd \in Nat /\ Finish(c) \in Nat /\ Base(c) \in Nat
      /\ ServeOk(c) /\ HoldOk(c)
    BY <1>0, ReadsFacts, ServingItem DEF HttpInv, StreamInv, ConnsInv
<1>3. /\ task[c].read = task[c].fwd /\ ~task[c].done /\ ~task[c].replayable /\ ~task[c].replay
      /\ Base(c) < task[c].fwd
    BY RelayFacts
<1>4. u \in Nat /\ task[c].fwd < u /\ u <= Finish(c)
    BY <1>1, <1>2, <1>3 DEF Lesser
<1>5. /\ w.ok \in BOOLEAN /\ w.upto \in Nat /\ task[c].fwd <= w.upto /\ w.upto <= u
      /\ ~w.ok => w.upto < u
      /\ DOMAIN w.conn = DOMAIN Unused /\ w.conn.end \in {"up", "fin", "rst"} /\ w.conn.got \in Pieces
      /\ w.conn.end = "up" => w.ok /\ w.conn.got = Bytes(c, Base(c), u) /\ w.upto = u
      /\ w.ok => w.upto = u \/ (w.conn.end # "up" /\ w.upto = task[c].fwd)
    BY <1>1, <1>4, WriteFacts
<1>6. PICK pc : pc = (IF w.ok THEN "relay" ELSE "await")
    OBVIOUS
<1>7. PICK f : f = (IF w.ok THEN u ELSE task[c].fwd)
    OBVIOUS
<1>8. task' = [task EXCEPT ![c].read = k, ![c].fwd = f, ![c].early = ~w.ok, ![c].pc = pc]
    BY <1>1, <1>6, <1>7 DEF HttpInv, Doms
<1>9. /\ Sets(c, pc, {"read", "fwd", "early"}) /\ task'[c].pc = pc /\ task'[c].read = k /\ task'[c].fwd = f
      /\ task'[c].early = ~w.ok
    <2>1. PICK e : e = ~w.ok
        OBVIOUS
    <2>2. task' = [task EXCEPT ![c].read = k, ![c].fwd = f, ![c].early = e, ![c].pc = pc]
        BY <1>8, <2>1
    <2>3. DOMAIN task = Client /\ DOMAIN task[c] = Fields
        BY DEF HttpInv, Doms
    <2>4. task'[c].pc = pc /\ task'[c].read = k /\ task'[c].fwd = f /\ task'[c].early = e
        BY <2>2, <2>3 DEF Fields
    <2>5. DOMAIN task' = DOMAIN task /\ (\A d \in Client \ {c} : task'[d] = task[d]) /\ DOMAIN task'[c] = Fields
        BY <2>2, <2>3
    <2>6. \A g \in Fields \ ({"pc"} \cup {"read", "fwd", "early"}) : task'[c][g] = task[c][g]
        <3>1. PICK t : t = [task[c] EXCEPT !.read = k, !.fwd = f, !.early = e, !.pc = pc]
            OBVIOUS
        <3>2. task'[c] = t
            BY <2>2, <2>3, <3>1
        <3>3. \A g \in Fields \ ({"pc"} \cup {"read", "fwd", "early"}) : t[g] = task[c][g]
            BY <2>3, <3>1
        <3> QED  BY <3>2, <3>3
    <2> QED  BY <2>1, <2>4, <2>5, <2>6 DEF Sets
<1>10. /\ task'[c].item = task[c].item /\ task'[c].conn = task[c].conn /\ task'[c].done = task[c].done
       /\ task'[c].replayable = task[c].replayable /\ task'[c].replay = task[c].replay
    BY <1>9 DEF Sets, Fields
<1>11. Base(c)' = Base(c) /\ Finish(c)' = Finish(c)
    BY <1>10, ServedKept
<1>12. RequestEnd(c)' = u
    BY <1>1, <1>9, <1>11 DEF RequestEnd, Lesser
<1>13. pc \in {"relay", "await"} /\ (pc = "relay" => w.ok /\ f = u) /\ (pc = "await" => ~w.ok /\ f = task[c].fwd)
    BY <1>5, <1>6, <1>7
<1>14. ActedOk(c)' /\ Alike(acted', acted, c)
    <2>1. task'[c].pc \notin Reading /\ task'[c].pc \notin Fetching
        BY <1>9, <1>13, ReadingIs DEF ReadingPcs, Fetching
    <2>2. w.upto <= Finish(c) /\ Base(c) <= task[c].fwd
        BY <1>2, <1>3, <1>4, <1>5
    <2>3. task'[c].pc \in {"expect", "relay"} => w.upto < Finish(c) \/ task'[c].fwd = Finish(c)
        BY <1>2, <1>4, <1>5, <1>9, <1>13
    <2> QED  BY <1>5, <1>10, <2>1, <2>2, <2>3, ActedWrite
<1>15. Only(c)
    <2>1. DOMAIN conn' = DOMAIN conn
        OBVIOUS
    <2> QED  BY <1>9, <1>14, <2>1, OnlyBy
<1>16. ConnsInv'
    <2>1. w.conn.end = "up" => pc = "relay" /\ w.conn.got = Bytes(c, Base(c)', task'[c].fwd)
        BY <1>5, <1>9, <1>11, <1>13
    <2>2. task'[c].pc \notin {"send", "resend"}
        BY <1>9, <1>13
    <2>3. w.conn.end = "up" => task'[c].pc = "relay"
        BY <2>1, <1>9
    <2> QED  BY <1>0, <1>5, <1>10, <1>15, <2>1, <2>2, <2>3, WrittenConns
<1>17. TaskOk(c)' /\ ServeOk(c)' /\ WholeOk(c)' /\ CloseOk(c)'
    <2>1. pc \in Serving \ {"body", "tunnel"} /\ pc \notin Fetching
        BY <1>13 DEF Serving, Holding, Fetching
    <2>2. task'[c].read >= task[c].read /\ task'[c].read \in Nat /\ task'[c].fwd \in Nat
        BY <1>2, <1>4, <1>9, <1>13
    <2>3. pc \in {"expect", "relay"} => task'[c].fwd = RequestEnd(c)'
        BY <1>9, <1>12, <1>13
    <2>4. pc = "await" => task'[c].early
        BY <1>9, <1>13
    <2> QED  BY <1>0, <1>3, <1>9, <1>10, <1>15, <2>1, <2>2, <2>3, <2>4, PhaseStream
<1> QED  BY <1>14, <1>15, <1>16, <1>17, OnlyKeeps

\* relay_request_body: a piece read and written, a backend that answered
\* early or failed, a client that broke off or fell silent.
LEMMA RelayBodyKeeps ==
    ASSUME HttpInv, NEW c \in Client, RelayBody(c)
    PROVE  HttpInv'
<1>0. /\ task[c].pc = "relay" /\ UNCHANGED <<script, sent, ended, over, pool>>
      /\ task[c].pc \in (Serving \ {"body", "tunnel"}) \cup {"head", "route"} /\ task[c].pc \in Holding /\ task[c].fwd < Finish(c)
      /\ task[c].pc \in Pcs /\ task[c].pc \notin {"body", "tunnel"} \cup Over
    BY DEF RelayBody, clientVars, wireVars, Serving, Fetching, Holding, Pcs, Over
<1>1. ASSUME NEW k \in Reads(c), seen' = seen, NEW w \in Writes(task[c].conn, c, Lesser(k, Finish(c))),
             acted' = Acted(c, w.upto), conn' = [conn EXCEPT ![task[c].conn] = w.conn],
             task' = [task EXCEPT ![c].read = k, ![c].fwd = IF w.ok THEN Lesser(k, Finish(c)) ELSE @,
                                ![c].early = ~w.ok, ![c].pc = IF w.ok THEN "relay" ELSE "await"]
      PROVE  HttpInv'
    BY <1>0, <1>1, RelayWrites
<1>2. ASSUME NEW k \in Reads(c), Tell(c, Told(c, task[c].item, 400, TRUE)), acted' = acted, conn' = Gone({task[c].conn}),
             task' = [task EXCEPT ![c].pc = "close", ![c].conn = 0, ![c].read = k, ![c].linger = ~task[c].done]
      PROVE  HttpInv'
    <2>1. /\ Sets(c, "close", {"conn", "read", "linger"}) /\ task'[c].pc = "close" /\ task'[c].read = k
          /\ task'[c].linger = ~task[c].done
        BY <1>2 DEF Sets, Fields, HttpInv, Doms
    <2>2. task'[c].item = task[c].item
        BY <2>1 DEF Sets, Fields
    <2>3. k \in Nat
        BY ReadsFacts DEF HttpInv, StreamInv
    <2>4. task'[c].linger
        BY <1>0, <2>1, RelayFacts
    <2>5. WholeOk(c)' /\ CloseOk(c)'
        BY <1>0, <1>2, <2>1, <2>4, ToldSeen
    <2>6. ActedOk(c)'
        <3>1. task'[c].pc \notin Reading \cup Fetching \cup {"expect", "relay"}
            BY <2>1, ReadingIs DEF ReadingPcs, Fetching
        <3> QED  BY <1>0, <1>2, <2>2, <3>1, ActedStays
    <2>7. Only(c)
        <3>1. DOMAIN conn' = DOMAIN conn
            BY <1>2, GoneDom
        <3>2. Alike(seen', seen, c)
            BY <1>2, TellAlike
        <3> QED  BY <1>0, <1>2, <2>1, <3>1, <3>2, OnlyBy
    <2> QED  BY <1>0, <1>2, <2>1, <2>3, <2>5, <2>6, <2>7, CloseKeeps
<1>3. ASSUME NEW code, Refuse(c, code), conn' = Gone({task[c].conn}), acted' = acted PROVE HttpInv'
    BY <1>0, <1>3, RefuseKeeps
<1>4. ASSUME task' = [task EXCEPT ![c].pc = "close", ![c].conn = 0], conn' = Gone({task[c].conn}), UNCHANGED <<acted, seen>>
      PROVE  HttpInv'
    <2>1. Sets(c, "close", {"conn"})
        BY <1>4, DropsSets DEF HttpInv
    <2> QED  BY <1>0, <1>4, <2>1, SilentKeeps
<1> QED  BY <1>1, <1>2, <1>3, <1>4 DEF RelayBody

\* Interim answers are swallowed, up to MAX_INTERIM_RESPONSES.
LEMMA SwallowInterimKeeps ==
    ASSUME HttpInv, NEW c \in Client, SwallowInterim(c)
    PROVE  HttpInv'
<1>0. /\ task[c].pc = "await" /\ UNCHANGED <<script, sent, ended, over, pool, acted>>
      /\ task[c].pc \in Serving \ {"body", "tunnel"} /\ task[c].pc \in Holding
    BY DEF SwallowInterim, clientVars, wireVars, Serving, Holding
<1>1. ASSUME Refuse(c, 502), conn' = Gone({task[c].conn}) PROVE HttpInv'
    BY <1>0, <1>1, RefuseKeeps
<1>2. ASSUME seen' = seen, NEW x, conn' = [conn EXCEPT ![task[c].conn] = x], x = [conn[task[c].conn] EXCEPT !.out = Tail(@)],
             task' = [task EXCEPT ![c].interim = @ + 1]
      PROVE  HttpInv'
    <2>1. Sets(c, "await", {"interim"}) /\ task'[c].pc = "await"
        BY <1>0, <1>2 DEF Sets, Fields, HttpInv, Doms
    <2>2. /\ task'[c].item = task[c].item /\ task'[c].conn = task[c].conn /\ task'[c].done = task[c].done /\ task'[c].read = task[c].read
          /\ task'[c].replayable = task[c].replayable /\ task'[c].replay = task[c].replay /\ task'[c].fwd = task[c].fwd
          /\ task'[c].early = task[c].early
        BY <2>1 DEF Sets, Fields
    <2>3. Base(c)' = Base(c) /\ Finish(c)' = Finish(c) /\ BodyHeld(c)' = BodyHeld(c)
        BY <1>0, <2>2, ServedKept, HeldKept
    <2>4. ServeOk(c) /\ HoldOk(c) /\ ConnOk(task[c].conn) /\ task[c].read \in Nat /\ task[c].fwd \in Nat
        BY <1>0, HeldFacts DEF HttpInv, StreamInv, ConnsInv, TaskOk
    <2>5. DOMAIN x = DOMAIN Unused /\ x.end = conn[task[c].conn].end /\ x.got = conn[task[c].conn].got
        BY <1>2, <2>4 DEF ConnOk, Unused
    <2>6. Only(c)
        <3>1. DOMAIN conn' = DOMAIN conn
            BY <1>2
        <3> QED  BY <1>0, <1>2, <2>1, <3>1, OnlyBy
    <2>7. ConnsInv'
        <3>1. x.end \in {"up", "fin", "rst"} /\ x.got \in Pieces
            BY <1>0, <2>4, <2>5 DEF ConnOk, HoldOk
        <3>2. x.end = "up" /\ ~task'[c].early => x.got = Bytes(c, Base(c)', Finish(c)')
            BY <1>0, <2>2, <2>3, <2>4, <2>5 DEF HoldOk
        <3> QED  BY <1>0, <1>2, <2>1, <2>2, <2>5, <2>6, <3>1, <3>2, WrittenConns
    <2>8. TaskOk(c)' /\ ServeOk(c)' /\ WholeOk(c)' /\ CloseOk(c)'
        <3>1. "await" \in Serving \ {"body", "tunnel"} /\ "await" \notin Fetching
            BY DEF Serving, Holding, Fetching
        <3>2. task'[c].read >= task[c].read /\ task'[c].read \in Nat /\ task'[c].fwd \in Nat
            BY <2>2, <2>4
        <3>3. ~task'[c].early => BodyHeld(c)'
            BY <1>0, <2>2, <2>3, <2>4 DEF ServeOk
        <3>4. task'[c].replayable \/ task'[c].replay => Item(c).idempotent /\ BodyHeld(c)'
            BY <1>0, <2>2, <2>3, <2>4 DEF ServeOk
        <3>5. task'[c].done => ~Item(c).keepalive /\ task'[c].read = Finish(c)
            BY <1>0, <2>2, <2>4 DEF ServeOk
        <3> QED  BY <1>0, <1>2, <2>1, <2>6, <3>1, <3>2, <3>3, <3>4, <3>5, PhaseStream
    <2>9. ActedOk(c)'
        BY <1>0, <2>1, <2>2, ActedStays, ReadingIs DEF Fetching, ReadingPcs
    <2> QED  BY <2>6, <2>7, <2>8, <2>9, OnlyKeeps
<1> QED  BY <1>1, <1>2 DEF SwallowInterim

\* No head came: the request is replayed if it may be, else 502; or the
\* budget ran out and it is 504.
LEMMA UnansweredKeeps ==
    ASSUME HttpInv, NEW c \in Client, Unanswered(c) \/ AwaitTimeout(c)
    PROVE  HttpInv'
<1>0. /\ task[c].pc = "await" /\ UNCHANGED <<script, sent, ended, over, pool, acted>>
      /\ task[c].pc \in Serving \ {"body", "tunnel"} /\ task[c].pc \in Holding /\ conn' = Gone({task[c].conn})
    BY DEF Unanswered, AwaitTimeout, clientVars, wireVars, Serving, Holding
<1>1. ASSUME NEW code, Refuse(c, code) PROVE HttpInv'
    BY <1>0, <1>1, RefuseKeeps
<1>2. ASSUME seen' = seen, task[c].replayable,
             task' = [task EXCEPT ![c].pc = "fresh", ![c].conn = 0, ![c].replay = TRUE,
                                        ![c].replayable = FALSE, ![c].fwd = Base(c)]
      PROVE  HttpInv'
    <2>1. /\ Sets(c, "fresh", {"conn", "replay", "replayable", "fwd"}) /\ task'[c].pc = "fresh" /\ task'[c].fwd = Base(c)
          /\ task'[c].replayable = FALSE
        BY <1>2 DEF Sets, Fields, HttpInv, Doms
    <2>2. task'[c].item = task[c].item /\ task'[c].done = task[c].done /\ task'[c].read = task[c].read
        BY <2>1 DEF Sets, Fields
    <2>3. Base(c)' = Base(c) /\ Finish(c)' = Finish(c) /\ BodyHeld(c)' = BodyHeld(c)
        BY <1>0, <2>2, ServedKept, HeldKept
    <2>4. /\ ServeOk(c) /\ task[c].read \in Nat /\ Base(c) \in Nat /\ Item(c) = script[c][task[c].item]
          /\ task[c].item \in 1..Len(script[c]) /\ ActedOk(c)
        BY <1>0, ServingItem DEF HttpInv, StreamInv, ActedInv
    <2>5. Item(c).idempotent /\ BodyHeld(c)
        BY <1>0, <1>2, <2>4 DEF ServeOk
    <2>6. Only(c)
        BY <1>0, <1>2, <2>1, OnlyBy, GoneDom
    <2>7. ConnsInv'
        BY <1>0, <2>1, <2>6, GoneConns DEF Holding
    <2>8. TaskOk(c)' /\ ServeOk(c)' /\ WholeOk(c)' /\ CloseOk(c)'
        <3>1. "fresh" \in Serving \ {"body", "tunnel"}
            BY DEF Serving, Fetching
        <3>2. task'[c].read >= task[c].read /\ task'[c].read \in Nat /\ task'[c].fwd \in Nat
            BY <2>1, <2>2, <2>4
        <3>5. task'[c].done => ~Item(c).keepalive /\ task'[c].read = Finish(c)
            BY <1>0, <2>2, <2>4 DEF ServeOk
        <3> QED  BY <1>0, <1>2, <2>1, <2>3, <2>5, <2>6, <3>1, <3>2, <3>5, PhaseStream
    <2>9. ActedOk(c)'
        <3>1. "fresh" \notin Reading
            BY ReadingIs DEF ReadingPcs
        <3> QED  BY <1>0, <2>1, <2>2, <2>4, <2>5, <3>1 DEF ActedOk
    <2> QED  BY <2>6, <2>7, <2>8, <2>9, OnlyKeeps
<1> QED  BY <1>1, <1>2 DEF Unanswered, AwaitTimeout

-----------------------------------------------------------------------------
(* Its answer. *)

\* A head forwarded is the last reply, and all before it were whole.
LEMMA HeadTold ==
    ASSUME HttpInv, NEW c \in Client, task[c].pc = "await", NEW m, DOMAIN m = {"n", "code", "of", "close", "missing"},
           seen' = [seen EXCEPT ![c] = Append(@, m)]
    PROVE  /\ Alike(seen', seen, c) /\ IsReplies(seen'[c]) /\ seen'[c] # <<>> /\ LastSeen(c)' = m
           /\ \A i \in 1..Len(seen'[c]) : i = Len(seen'[c]) \/ seen'[c][i].missing = 0
<1>1. seen'[c] = Append(seen[c], m) /\ Alike(seen', seen, c)
    BY DEF HttpInv, Doms, Alike
<1>2. IsReplies(seen[c]) /\ (seen[c] # <<>> => seen[c][Len(seen[c])].missing = 0)
      /\ \A i \in 1..Len(seen[c]) : i = Len(seen[c]) \/ seen[c][i].missing = 0
    BY DEF HttpInv, SeenInv, WholeOk, LastSeen
<1>3. /\ IsReplies(seen'[c]) /\ Len(seen'[c]) = Len(seen[c]) + 1 /\ seen'[c] # <<>>
      /\ seen'[c][Len(seen[c]) + 1] = m /\ \A i \in 1..Len(seen[c]) : seen'[c][i] = seen[c][i]
    BY <1>1, <1>2, RepliesAppend
<1>4. Len(seen[c]) \in Nat /\ (Len(seen[c]) > 0 => seen[c] # <<>>)
    BY <1>2 DEF IsReplies
<1>5. ASSUME NEW i \in 1..Len(seen'[c]), i # Len(seen'[c]) PROVE seen'[c][i].missing = 0
    <2>1. i \in 1..Len(seen[c])
        BY <1>3, <1>4, <1>5
    <2>2. seen[c][i].missing = 0
        BY <1>2, <1>4, <2>1
    <2> QED  BY <1>3, <2>1, <2>2
<1> QED  BY <1>1, <1>3, <1>5 DEF LastSeen

Patched(s, n) == [s EXCEPT ![Len(s)].missing = n]

\* Counting what is missing touches the last reply only.
LEMMA PatchFacts ==
    ASSUME NEW s, IsReplies(s), s # <<>>, NEW n, NEW t, t = Patched(s, n)
    PROVE  /\ IsReplies(t) /\ Len(t) = Len(s) /\ t # <<>>
           /\ t[Len(s)].missing = n /\ t[Len(s)].close = s[Len(s)].close /\ t[Len(s)].n = s[Len(s)].n
           /\ t[Len(s)].code = s[Len(s)].code
           /\ \A i \in 1..Len(s) : i # Len(s) => t[i] = s[i]
<1>1. PICK L \in Nat : L = Len(s)
    BY DEF IsReplies
<1>2. s = [i \in 1..L |-> s[i]] /\ L \in 1..L
    BY <1>1 DEF IsReplies
<1>3. PICK m : m = [s[L] EXCEPT !.missing = n]
    OBVIOUS
<1>4. DOMAIN s[L] = {"n", "code", "of", "close", "missing"}
    BY <1>1, <1>2 DEF IsReplies
<1>5. DOMAIN m = {"n", "code", "of", "close", "missing"} /\ m.missing = n /\ m.close = s[L].close /\ m.n = s[L].n /\ m.code = s[L].code
    BY <1>3, <1>4
<1>6. t = [i \in 1..L |-> IF i = L THEN m ELSE s[i]]
    BY <1>1, <1>2, <1>3 DEF Patched
<1>7. Len(t) = L
    BY <1>6
<1>8. t[L] = m /\ \A i \in 1..L : i # L => t[i] = s[i]
    BY <1>2, <1>6
<1>9. t = [i \in 1..L |-> t[i]] /\ t # <<>>
    <2>1. t = [i \in 1..L |-> t[i]]
        BY <1>6
    <2>2. Len(t) # 0
        BY <1>2, <1>7
    <2> QED  BY <2>1, <2>2
<1>10. \A i \in 1..L : DOMAIN t[i] = {"n", "code", "of", "close", "missing"}
    BY <1>1, <1>5, <1>8 DEF IsReplies
<1> QED  BY <1>1, <1>5, <1>7, <1>8, <1>9, <1>10 DEF IsReplies

\* The body's count, on the reply it belongs to.
LEMMA MissingSeen ==
    ASSUME HttpInv, NEW c \in Client, task[c].pc = "body", NEW n, seen' = Missing(c, n)
    PROVE  /\ Alike(seen', seen, c) /\ IsReplies(seen'[c]) /\ seen'[c] # <<>>
           /\ LastSeen(c)'.missing = n /\ LastSeen(c)'.close = LastSeen(c).close /\ LastSeen(c)'.n = task[c].item
           /\ LastSeen(c)'.code = LastSeen(c).code
           /\ \A i \in 1..Len(seen'[c]) : i = Len(seen'[c]) \/ seen'[c][i].missing = 0
<1>1. seen'[c] = [seen[c] EXCEPT ![Len(seen[c])].missing = n] /\ Alike(seen', seen, c)
    BY DEF HttpInv, Doms, Alike, Missing
<1>2. IsReplies(seen[c]) /\ seen[c] # <<>> /\ LastSeen(c).n = task[c].item
      /\ \A i \in 1..Len(seen[c]) : i = Len(seen[c]) \/ seen[c][i].missing = 0
    BY DEF HttpInv, SeenInv, WholeOk
<1>3. PICK s : s = seen[c]
    OBVIOUS
<1>4. PICK t : t = seen'[c]
    OBVIOUS
<1>5. /\ IsReplies(t) /\ Len(t) = Len(s) /\ t # <<>>
      /\ t[Len(s)].missing = n /\ t[Len(s)].close = s[Len(s)].close /\ t[Len(s)].n = s[Len(s)].n
      /\ t[Len(s)].code = s[Len(s)].code
      /\ \A i \in 1..Len(s) : i # Len(s) => t[i] = s[i]
    <2>1. t = Patched(s, n) /\ IsReplies(s) /\ s # <<>>
        BY <1>1, <1>2, <1>3, <1>4 DEF Patched
    <2> QED  BY <2>1, PatchFacts
<1>6. LastSeen(c)' = t[Len(s)] /\ LastSeen(c) = s[Len(s)]
    BY <1>3, <1>4, <1>5 DEF LastSeen
<1>7. \A i \in 1..Len(t) : i = Len(t) \/ t[i].missing = 0
    BY <1>2, <1>3, <1>5
<1> QED  BY <1>1, <1>2, <1>4, <1>5, <1>6, <1>7

\* The end of an exchange whose body is whole.
LEMMA BodyEnds ==
    ASSUME HttpInv, NEW c \in Client, task[c].pc = "body", task'[c].pc = "close", UNCHANGED <<script, ended, over>>,
           \/ seen' = Missing(c, 0) \/ (seen' = seen /\ task[c].need = 0) \/ (seen' = seen /\ task'[c].reset),
           task'[c].read = task[c].read,
           task'[c].reset \/ Broke(c) \/ task'[c].linger = ~task[c].done
    PROVE  WholeOk(c)' /\ CloseOk(c)'
<1>1. /\ IsReplies(seen'[c]) /\ seen'[c] # <<>> /\ LastSeen(c)'.n = task[c].item
      /\ LastSeen(c)'.missing # 0 => task'[c].reset
      /\ \A i \in 1..Len(seen'[c]) : i = Len(seen'[c]) \/ seen'[c][i].missing = 0
    <2>1. CASE seen' = Missing(c, 0)
        BY <2>1, MissingSeen
    <2>2. CASE seen' = seen /\ (task[c].need = 0 \/ task'[c].reset)
        BY <2>2 DEF HttpInv, SeenInv, WholeOk, LastSeen
    <2> QED  BY <2>1, <2>2
<1>2. over'[c] = "open"
    BY DEF HttpInv, SeenInv, WholeOk
<1>3. WholeOk(c)'
    BY <1>1, <1>2 DEF WholeOk
<1>4. task[c].done => ~script[c][task[c].item].keepalive /\ task[c].read = Ends(c)[task[c].item]
    <2>1. task[c].pc \in Serving
        BY DEF Serving, Holding
    <2> QED  BY <2>1, ServingItem DEF HttpInv, StreamInv, ServeOk
<1>5. Ends(c)' = Ends(c) /\ Broke(c)' = Broke(c)
    BY EndsKept DEF Broke
<1>6. task'[c].linger \/ task'[c].reset \/ Broke(c)' \/ Excused(c)'
    <2>1. CASE task[c].done
        <3>1. Excused(c)'
            BY <1>1, <1>4, <1>5, <2>1 DEF Excused
        <3> QED  BY <3>1
    <2>2. CASE ~task[c].done
        BY <1>5, <2>2
    <2> QED  BY <2>1, <2>2
<1>7. CloseOk(c)'
    BY <1>6 DEF CloseOk, Over
<1> QED  BY <1>3, <1>7

\* The body is over and the client's connection closes.
LEMMA BodyOverKeeps ==
    ASSUME HttpInv, NEW c \in Client, task[c].pc = "body", NEW F \in SUBSET {"conn", "linger", "reset"}, Sets(c, "close", F),
           UNCHANGED <<script, sent, ended, over, acted>>,
           \/ seen' = Missing(c, 0) \/ (seen' = seen /\ task[c].need = 0) \/ (seen' = seen /\ task'[c].reset),
           task'[c].reset \/ Broke(c) \/ task'[c].linger = ~task[c].done,
           \/ pool' = pool /\ conn' = Gone({task[c].conn})
           \/ /\ conn' = conn /\ \E o \in Owners, a \in Address : pool' = [pool EXCEPT ![o][a] = Append(@, task[c].conn)]
              /\ conn[task[c].conn].end = "up" => conn[task[c].conn].got \in Wholes
    PROVE  HttpInv'
<1>1. task'[c].pc = "close" /\ task'[c].item = task[c].item /\ task'[c].read = task[c].read /\ task'[c].fwd = task[c].fwd
    BY DEF Sets, Fields
<1>2. task[c].pc \in Holding /\ task'[c].pc \notin Holding \cup Serving \cup {"head", "route"} /\ task'[c].pc \in Pcs
    BY <1>1 DEF Holding, Serving, Fetching, Pcs
<1>3. seen' = seen \/ Alike(seen', seen, c)
    BY MissingSeen
<1>4. Only(c)
    <2>1. DOMAIN conn' = DOMAIN conn
        BY GoneDom
    <2> QED  BY <1>3, <2>1, OnlyBy
<1>5. ConnsInv'
    BY <1>2, <1>4, GoneConns, PutConns
<1>6. WholeOk(c)' /\ CloseOk(c)'
    BY <1>1, BodyEnds
<1>7. ActedOk(c)'
    <2>1. task'[c].pc \notin Reading \cup Fetching \cup {"expect", "relay"}
        BY <1>1, ReadingIs DEF ReadingPcs, Fetching
    <2> QED  BY <1>1, <2>1, ActedStays
<1>8. TaskOk(c)'
    BY <1>1, <1>2 DEF TaskOk, HttpInv, StreamInv
<1>9. ServeOk(c)'
    <2>1. task'[c].pc \notin Reading
        BY <1>1, ReadingIs DEF ReadingPcs
    <2> QED  BY <1>1, <1>2, <2>1 DEF ServeOk, Serving
<1> QED  BY <1>4, <1>5, <1>6, <1>7, <1>8, <1>9, OnlyKeeps

\* A step of the response, with the request behind it as it was.
LEMMA ResponseStep ==
    ASSUME HttpInv, NEW c \in Client, task[c].pc \in {"await", "body"}, NEW pc \in {"body", "tunnel"}, NEW F, Sets(c, pc, F),
           F \subseteq {"keep", "need", "bad", "brk", "delim", "clean", "closes"},
           UNCHANGED <<script, sent, ended, over, acted, pool>>, Alike(seen', seen, c),
           NEW out, conn' = [conn EXCEPT ![task[c].conn] = [conn[task[c].conn] EXCEPT !.out = out]],
           WholeOk(c)', CloseOk(c)'
    PROVE  HttpInv'
<1>0. task[c].pc \in Serving /\ task[c].pc \in Holding /\ pc \in Serving /\ pc \notin Fetching
      /\ pc \notin {"expect", "relay", "send", "resend"} /\ pc \notin Reading
    BY ReadingIs DEF Serving, Holding, Fetching, ReadingPcs
<1>1. /\ task'[c].pc = pc /\ task'[c].item = task[c].item /\ task'[c].conn = task[c].conn /\ task'[c].done = task[c].done
      /\ task'[c].read = task[c].read /\ task'[c].early = task[c].early
      /\ task'[c].replayable = task[c].replayable /\ task'[c].replay = task[c].replay /\ task'[c].fwd = task[c].fwd
    BY DEF Sets, Fields
<1>2. Base(c)' = Base(c) /\ Finish(c)' = Finish(c) /\ BodyHeld(c)' = BodyHeld(c)
    BY <1>1, ServedKept, HeldKept
<1>3. ServeOk(c) /\ HoldOk(c) /\ ConnOk(task[c].conn) /\ task[c].read \in Nat /\ task[c].fwd \in Nat
    BY <1>0, HeldFacts DEF HttpInv, StreamInv, ConnsInv, TaskOk
<1>4. PICK x : x = [conn[task[c].conn] EXCEPT !.out = out]
    OBVIOUS
<1>5. DOMAIN x = DOMAIN Unused /\ x.end = conn[task[c].conn].end /\ x.got = conn[task[c].conn].got
    BY <1>3, <1>4 DEF ConnOk, Unused
<1>6. Only(c)
    <2>1. DOMAIN conn' = DOMAIN conn
        OBVIOUS
    <2> QED  BY <2>1, OnlyBy
<1>7. ConnsInv'
    <2>1. x.end \in {"up", "fin", "rst"} /\ x.got \in Pieces
        BY <1>0, <1>3, <1>5 DEF ConnOk, HoldOk
    <2>2. x.end = "up" /\ ~task'[c].early => x.got = Bytes(c, Base(c)', Finish(c)')
        BY <1>0, <1>1, <1>2, <1>3, <1>5 DEF HoldOk
    <2>3. conn' = [conn EXCEPT ![task[c].conn] = x]
        BY <1>4
    <2> QED  BY <1>0, <1>1, <1>5, <1>6, <2>1, <2>2, <2>3, WrittenConns
<1>8. TaskOk(c)' /\ ServeOk(c)'
    <2>2. task'[c].read >= task[c].read /\ task'[c].read \in Nat /\ task'[c].fwd \in Nat
        BY <1>1, <1>3
    <2>3. ~task'[c].early => BodyHeld(c)'
        BY <1>1, <1>2, <1>3 DEF ServeOk
    <2>4. task'[c].replayable \/ task'[c].replay => Item(c).idempotent /\ BodyHeld(c)'
        BY <1>0, <1>1, <1>2, <1>3 DEF ServeOk
    <2>5. task'[c].done => ~Item(c).keepalive /\ task'[c].read = Finish(c)
        BY <1>0, <1>1, <1>3 DEF ServeOk
    <2>6. "item" \notin F
        OBVIOUS
    <2> QED  BY <1>0, <1>6, <2>2, <2>3, <2>4, <2>5, <2>6, PhaseTask
<1>9. ActedOk(c)'
    BY <1>0, <1>1, ActedStays
<1> QED  BY <1>6, <1>7, <1>8, <1>9, OnlyKeeps

\* Where a reply's head goes: the body behind it, counted on it.
LEMMA HeadSeen ==
    ASSUME HttpInv, NEW c \in Client, task[c].pc = "await", NEW m, DOMAIN m = {"n", "code", "of", "close", "missing"},
           seen' = [seen EXCEPT ![c] = Append(@, m)], over' = over,
           \/ task'[c].pc = "body" /\ m.missing = task'[c].need /\ m.n = task'[c].item /\ (m.close => ~task'[c].keep)
           \/ task'[c].pc = "tunnel" /\ m.missing = 0 /\ m.code = 101
    PROVE  WholeOk(c)' /\ CloseOk(c)' /\ Alike(seen', seen, c)
<1>1. /\ Alike(seen', seen, c) /\ IsReplies(seen'[c]) /\ seen'[c] # <<>> /\ LastSeen(c)' = m
      /\ \A i \in 1..Len(seen'[c]) : i = Len(seen'[c]) \/ seen'[c][i].missing = 0
    BY HeadTold
<1>2. over'[c] = "open"
    BY DEF HttpInv, SeenInv, WholeOk
<1>3. WholeOk(c)'
    BY <1>1, <1>2 DEF WholeOk
<1>4. CloseOk(c)'
    BY <1>1 DEF CloseOk, TellsClose
<1> QED  BY <1>1, <1>3, <1>4

\* forward_response_headers, past its refusals.
HeadStep(c, of, kp, need, bad, brk, del, clean, closes, rest) ==
    /\ seen' = [seen EXCEPT ![c] = Append(@, [n |-> task[c].item, code |-> 200, of |-> of, close |-> ~kp, missing |-> need])]
    /\ task' = BodyTask(c, kp, need, bad, brk, del, clean, closes)
    /\ conn' = [conn EXCEPT ![task[c].conn].out = rest]

\* The head forwarded: its reply is the last one, and its body follows.
LEMMA HeadStepKeeps ==
    ASSUME HttpInv, NEW c \in Client, task[c].pc = "await", UNCHANGED <<script, sent, ended, over, pool, acted>>,
           NEW of, NEW need, NEW bad, NEW brk, NEW del, NEW clean, NEW closes, NEW kp, NEW rest,
           HeadStep(c, of, kp, need, bad, brk, del, clean, closes, rest)
    PROVE  HttpInv'
<1>1. Sets(c, "body", {"keep", "need", "bad", "brk", "delim", "clean", "closes"}) /\ task'[c].keep = kp /\ task'[c].need = need
    BY BodySets DEF HttpInv, HeadStep
<1>2. task'[c].pc = "body" /\ task'[c].item = task[c].item
    BY <1>1 DEF Sets, Fields
<1>3. PICK m : m = [n |-> task[c].item, code |-> 200, of |-> of, close |-> ~kp, missing |-> need]
    OBVIOUS
<1>4. DOMAIN m = {"n", "code", "of", "close", "missing"} /\ m.missing = need /\ m.n = task[c].item /\ m.close = ~kp
    BY <1>3
<1>5. seen' = [seen EXCEPT ![c] = Append(@, m)]
    BY <1>3 DEF HeadStep
<1>6. WholeOk(c)' /\ CloseOk(c)' /\ Alike(seen', seen, c)
    BY <1>1, <1>2, <1>4, <1>5, HeadSeen
<1>7. conn' = [conn EXCEPT ![task[c].conn] = [conn[task[c].conn] EXCEPT !.out = rest]]
    BY DEF HeadStep
<1> QED  BY <1>1, <1>6, <1>7, ResponseStep

\* forward_response_headers: a bad head is 502, a client that is gone gets
\* nothing, a switch becomes a tunnel, an answer is forwarded.
LEMMA ForwardHeadKeeps ==
    ASSUME HttpInv, NEW c \in Client, ForwardHead(c)
    PROVE  HttpInv'
<1> DEFINE b == task[c].conn
           out == conn[b].out
           a == out[1].a
           item == Item(c)
           switch == a.switch /\ item.upgrade /\ ~task[c].early
           delim == CloseDelimited(item, a)
           keep == KeepOpen(c, item.keepalive /\ ~task[c].early) /\ ~delim
<1>0. /\ task[c].pc = "await" /\ UNCHANGED <<script, sent, ended, over, pool, acted>>
      /\ task[c].pc \in Serving \ {"body", "tunnel"} /\ task[c].pc \in Holding
    BY DEF ForwardHead, clientVars, wireVars, Serving, Holding
<1>1. \/ Refuse(c, 502) /\ conn' = Gone({b})
      \/ task' = [task EXCEPT ![c].pc = "close", ![c].conn = 0] /\ conn' = Gone({b}) /\ UNCHANGED seen
      \/ \E j \in 1..Len(out) : LET f == Framed(item, a, out, j) IN
                   /\ seen' = [seen EXCEPT ![c] = Append(@,
                         [n |-> task[c].item, code |-> 200, of |-> out[1].of, close |-> ~keep, missing |-> f.need])]
                   /\ task' = [task EXCEPT ![c].pc = "body", ![c].keep = keep, ![c].need = f.need,
                                           ![c].bad = f.bad, ![c].brk = f.brk, ![c].delim = delim,
                                           ![c].clean = ~f.excess, ![c].closes = a.closes]
                   /\ conn' = [conn EXCEPT ![b].out = SubSeq(@, j + 1, Len(@))]
      \/ /\ seen' = [seen EXCEPT ![c] = Append(@,
                    [n |-> task[c].item, code |-> 101, of |-> out[1].of, close |-> TRUE, missing |-> 0])]
         /\ Goto(c, "tunnel")
         /\ conn' = [conn EXCEPT ![b].out = <<>>]
    BY DEF ForwardHead
<1>2. ASSUME Refuse(c, 502), conn' = Gone({b}) PROVE HttpInv'
    BY <1>0, <1>2, RefuseKeeps
<1>3. ASSUME task' = [task EXCEPT ![c].pc = "close", ![c].conn = 0], conn' = Gone({b}), seen' = seen PROVE HttpInv'
    <2>1. Sets(c, "close", {"conn"})
        BY <1>3, DropsSets DEF HttpInv
    <2> QED  BY <1>0, <1>3, <2>1, SilentKeeps
<1>5. ASSUME NEW of, seen' = [seen EXCEPT ![c] = Append(@,
                    [n |-> task[c].item, code |-> 101, of |-> of, close |-> TRUE, missing |-> 0])],
             Goto(c, "tunnel"), conn' = [conn EXCEPT ![task[c].conn].out = <<>>]
      PROVE  HttpInv'
    <2>1. Sets(c, "tunnel", {})
        BY <1>5, GotoSets DEF HttpInv
    <2>2. task'[c].pc = "tunnel"
        BY <2>1 DEF Sets
    <2>3. PICK m : m = [n |-> task[c].item, code |-> 101, of |-> of, close |-> TRUE, missing |-> 0]
        OBVIOUS
    <2>4. DOMAIN m = {"n", "code", "of", "close", "missing"} /\ m.missing = 0 /\ m.code = 101
        BY <2>3
    <2>5. seen' = [seen EXCEPT ![c] = Append(@, m)]
        BY <1>5, <2>3
    <2>6. WholeOk(c)' /\ CloseOk(c)' /\ Alike(seen', seen, c)
        BY <1>0, <2>2, <2>4, <2>5, HeadSeen
    <2>7. conn' = [conn EXCEPT ![task[c].conn] = [conn[task[c].conn] EXCEPT !.out = <<>>]]
        BY <1>5
    <2> QED  BY <1>0, <2>1, <2>6, <2>7, ResponseStep
<1>6. ASSUME NEW j \in 1..Len(out), seen' = [seen EXCEPT ![c] = Append(@,
                         [n |-> task[c].item, code |-> 200, of |-> out[1].of, close |-> ~keep, missing |-> Framed(item, a, out, j).need])],
             task' = [task EXCEPT ![c].pc = "body", ![c].keep = keep, ![c].need = Framed(item, a, out, j).need,
                                           ![c].bad = Framed(item, a, out, j).bad, ![c].brk = Framed(item, a, out, j).brk, ![c].delim = delim,
                                           ![c].clean = ~Framed(item, a, out, j).excess, ![c].closes = a.closes],
             conn' = [conn EXCEPT ![b].out = SubSeq(@, j + 1, Len(@))]
      PROVE  HttpInv'
    <2>1. PICK of, need, bad, brk, del, clean, closes, kp, rest :
            /\ of = out[1].of /\ need = Framed(item, a, out, j).need /\ bad = Framed(item, a, out, j).bad
            /\ brk = Framed(item, a, out, j).brk /\ del = delim /\ clean = ~Framed(item, a, out, j).excess
            /\ closes = a.closes /\ kp = keep /\ rest = SubSeq(conn[b].out, j + 1, Len(conn[b].out))
        OBVIOUS
    <2> HIDE DEF keep, delim, a, item
    <2>2. seen' = [seen EXCEPT ![c] = Append(@, [n |-> task[c].item, code |-> 200, of |-> of, close |-> ~kp, missing |-> need])]
        BY <1>6, <2>1
    <2>3. task' = [task EXCEPT ![c].pc = "body", ![c].keep = kp, ![c].need = need,
                                           ![c].bad = bad, ![c].brk = brk, ![c].delim = del,
                                           ![c].clean = clean, ![c].closes = closes]
        BY <1>6, <2>1
    <2>4. conn' = [conn EXCEPT ![task[c].conn].out = rest]
        BY <1>6, <2>1
    <2>5. HeadStep(c, of, kp, need, bad, brk, del, clean, closes, rest)
        BY <2>2, <2>3, <2>4 DEF HeadStep, BodyTask
    <2> QED  BY <1>0, <2>5, HeadStepKeeps
<1>7. ASSUME seen' = [seen EXCEPT ![c] = Append(@,
                    [n |-> task[c].item, code |-> 101, of |-> out[1].of, close |-> TRUE, missing |-> 0])],
             Goto(c, "tunnel"), conn' = [conn EXCEPT ![b].out = <<>>]
      PROVE  HttpInv'
    BY <1>5, <1>7
<1> HIDE DEF out, a, item, switch, delim, keep, b
<1> QED  BY <1>1, <1>2, <1>3, <1>6, <1>7

\* An upgrade accepted: both ways until it ends, and then the close.
LEMMA TunnelKeeps ==
    ASSUME HttpInv, NEW c \in Client, Tunnel(c)
    PROVE  HttpInv'
<1>0. /\ task[c].pc = "tunnel" /\ UNCHANGED <<script, sent, ended, over, pool, acted, seen>> /\ conn' = Gone({task[c].conn})
      /\ task[c].pc \in Serving /\ task[c].pc \in Holding
    BY DEF Tunnel, clientVars, wireVars, Serving, Holding
<1>1. Sets(c, "close", {"conn", "read"}) /\ task'[c].read = sent[c] /\ task'[c].pc = "close"
    BY DEF Tunnel, Sets, Fields, HttpInv, Doms
<1>2. task'[c].item = task[c].item /\ sent[c] \in Nat
    BY <1>1 DEF Sets, Fields, HttpInv, StreamInv, TaskOk
<1>3. Only(c)
    <2>1. DOMAIN conn' = DOMAIN conn
        BY <1>0, GoneDom
    <2> QED  BY <1>0, <1>1, <2>1, OnlyBy
<1>4. ActedOk(c)'
    <2>1. task'[c].pc \notin Reading \cup Fetching \cup {"expect", "relay"}
        BY <1>1, ReadingIs DEF ReadingPcs, Fetching
    <2> QED  BY <1>0, <1>2, <2>1, ActedStays
<1>5. WholeOk(c) /\ CloseOk(c)
    BY DEF HttpInv, SeenInv
<1>6. WholeOk(c)'
    BY <1>0, <1>1, <1>5 DEF WholeOk, LastSeen, IsReplies
<1>7. CloseOk(c)'
    <2>1. TellsClose(c) => LastSeen(c).code = 101
        BY <1>0, <1>5 DEF CloseOk
    <2>2. TellsClose(c)' = TellsClose(c) /\ LastSeen(c)' = LastSeen(c)
        BY <1>0 DEF TellsClose, LastSeen
    <2> QED  BY <1>1, <2>1, <2>2 DEF CloseOk, Over, Excused
<1> QED  BY <1>0, <1>1, <1>2, <1>3, <1>4, <1>6, <1>7, CloseKeeps

\* An answer cut short closes with the reset armed.
LEMMA CutKeeps ==
    ASSUME HttpInv, NEW c \in Client, task[c].pc = "body", Cut(c), conn' = Gone({task[c].conn}),
           UNCHANGED <<script, sent, ended, over, pool, acted, seen>>
    PROVE  HttpInv'
<1>1. Sets(c, "close", {"conn", "reset"}) /\ task'[c].reset = TRUE
    BY CutSets DEF HttpInv
<1>2. {"conn", "reset"} \in SUBSET {"conn", "linger", "reset"}
    OBVIOUS
<1> QED  BY <1>1, <1>2, BodyOverKeeps

\* So does one broken by what arrived with its head.
LEMMA BodyBrokenKeeps ==
    ASSUME HttpInv, NEW c \in Client, BodyBroken(c)
    PROVE  HttpInv'
BY CutKeeps DEF BodyBroken, clientVars, wireVars

\* forward_response_body: a piece forwarded and counted off, an answer that
\* ends with the backend's close, or a cut.
LEMMA ForwardBodyKeeps ==
    ASSUME HttpInv, NEW c \in Client, ForwardBody(c)
    PROVE  HttpInv'
<1>0. /\ task[c].pc = "body" /\ UNCHANGED <<script, sent, ended, over, pool, acted>>
    BY DEF ForwardBody, clientVars, wireVars
<1> DEFINE b == task[c].conn
           out == conn[b].out
           t == task[c]
           bodies(j) == Cardinality({i \in 1..j : out[i].t = "body"})
           left(j) == IF t.delim THEN t.need ELSE t.need - bodies(j)
           clean(j) == t.clean /\ (t.delim \/ \A i \in 1..j : out[i].t # "extra")
<1>1. \/ \E j \in 1..Len(out) :
            /\ seen' = Missing(c, left(j))
            /\ task' = [task EXCEPT ![c].need = left(j), ![c].clean = @ /\ (t.delim \/ \A i \in 1..j : out[i].t # "extra")]
            /\ conn' = [conn EXCEPT ![b].out = SubSeq(@, j + 1, Len(@))]
      \/ /\ seen' = Missing(c, 0)
         /\ task' = [task EXCEPT ![c].pc = "close", ![c].conn = 0, ![c].linger = ~task[c].done]
         /\ conn' = Gone({task[c].conn})
      \/ Cut(c) /\ conn' = Gone({task[c].conn}) /\ UNCHANGED seen
    BY DEF ForwardBody
<1>2. ASSUME NEW l, NEW cl, NEW rest, seen' = Missing(c, l),
             task' = [task EXCEPT ![c].need = l, ![c].clean = cl],
             conn' = [conn EXCEPT ![task[c].conn].out = rest]
      PROVE  HttpInv'
    <2>1. Sets(c, "body", {"need", "clean"}) /\ task'[c].need = l /\ task'[c].pc = "body"
        BY <1>0, <1>2 DEF Sets, Fields, HttpInv, Doms
    <2>2. task'[c].item = task[c].item /\ task'[c].keep = task[c].keep
        BY <2>1 DEF Sets, Fields
    <2>3. /\ Alike(seen', seen, c) /\ IsReplies(seen'[c]) /\ seen'[c] # <<>>
          /\ LastSeen(c)'.missing = l /\ LastSeen(c)'.close = LastSeen(c).close /\ LastSeen(c)'.n = task[c].item
          /\ \A i \in 1..Len(seen'[c]) : i = Len(seen'[c]) \/ seen'[c][i].missing = 0
        BY <1>0, <1>2, MissingSeen
    <2>4. WholeOk(c)'
        <3>1. over'[c] = "open"
            BY <1>0 DEF HttpInv, SeenInv, WholeOk
        <3> QED  BY <2>1, <2>2, <2>3, <3>1 DEF WholeOk
    <2>5. CloseOk(c)'
        <3>1. seen[c] # <<>> /\ (LastSeen(c).close => ~task[c].keep)
            BY <1>0 DEF HttpInv, SeenInv, WholeOk, CloseOk, TellsClose
        <3> QED  BY <2>1, <2>2, <2>3, <3>1 DEF CloseOk, TellsClose
    <2>6. conn' = [conn EXCEPT ![task[c].conn] = [conn[task[c].conn] EXCEPT !.out = rest]]
        BY <1>2
    <2>7. {"need", "clean"} \subseteq {"keep", "need", "bad", "brk", "delim", "clean", "closes"}
        OBVIOUS
    <2> QED  BY <1>0, <2>1, <2>3, <2>4, <2>5, <2>6, <2>7, ResponseStep
<1>5. ASSUME NEW j \in 1..Len(out), seen' = Missing(c, left(j)),
             task' = [task EXCEPT ![c].need = left(j), ![c].clean = @ /\ (t.delim \/ \A i \in 1..j : out[i].t # "extra")],
             conn' = [conn EXCEPT ![b].out = SubSeq(@, j + 1, Len(@))]
      PROVE  HttpInv'
    <2>1. PICK l : l = left(j)
        OBVIOUS
    <2>2. PICK cl : cl = clean(j)
        OBVIOUS
    <2>3. PICK rest : rest = SubSeq(conn[b].out, j + 1, Len(conn[b].out))
        OBVIOUS
    <2>4. task' = [task EXCEPT ![c].need = l, ![c].clean = cl]
        <3>1. task' = [task EXCEPT ![c].need = l, ![c].clean = @ /\ (t.delim \/ \A i \in 1..j : out[i].t # "extra")]
            BY <1>5, <2>1
        <3>2. PICK e : e = (t.delim \/ \A i \in 1..j : out[i].t # "extra")
            OBVIOUS
        <3>3. task' = [task EXCEPT ![c].need = l, ![c].clean = @ /\ e]
            BY <3>1, <3>2
        <3>4. cl = (task[c].clean /\ e)
            BY <2>2, <3>2
        <3>5. [task EXCEPT ![c].need = l, ![c].clean = @ /\ e] = [task EXCEPT ![c].need = l, ![c].clean = cl]
            BY <3>4 DEF HttpInv, Doms, Fields
        <3> QED  BY <3>3, <3>5
    <2>5. conn' = [conn EXCEPT ![task[c].conn].out = rest]
        BY <1>5, <2>3
    <2>6. seen' = Missing(c, l)
        BY <1>5, <2>1
    <2> QED  BY <1>2, <2>4, <2>5, <2>6
<1>3. ASSUME seen' = Missing(c, 0), task' = [task EXCEPT ![c].pc = "close", ![c].conn = 0, ![c].linger = ~task[c].done],
             conn' = Gone({task[c].conn})
      PROVE  HttpInv'
    <2>1. Sets(c, "close", {"conn", "linger"}) /\ task'[c].linger = ~task[c].done
        BY <1>3, LingersSets DEF HttpInv
    <2>2. {"conn", "linger"} \in SUBSET {"conn", "linger", "reset"}
        OBVIOUS
    <2> QED  BY <1>0, <1>3, <2>1, <2>2, BodyOverKeeps
<1>4. ASSUME Cut(c), conn' = Gone({task[c].conn}), UNCHANGED seen PROVE HttpInv'
    BY <1>0, <1>4, CutKeeps
<1> HIDE DEF left, clean, bodies, out, t, b
<1> QED  BY <1>1, <1>3, <1>4, <1>5

\* The exchange complete: the backend connection is pooled with a whole
\* request on it, or dropped; the client goes on exactly if it was told so.
LEMMA FinishExchangeKeeps ==
    ASSUME HttpInv, NEW c \in Client, FinishExchange(c)
    PROVE  HttpInv'
<1>0. /\ task[c].pc = "body" /\ task[c].need = 0 /\ UNCHANGED <<script, sent, ended, over, acted, seen>>
      /\ task[c].pc \in Serving /\ task[c].pc \in Holding
    BY DEF FinishExchange, clientVars, wireVars, Serving, Holding
<1>1. PICK o, a : o = Owner(c) /\ a = Item(c).to
    OBVIOUS
<1>2. o \in Owners /\ a \in Address
    <2>1. Item(c) \in ClientItems
        BY <1>0, ServingItem
    <2> QED  BY <1>1, <2>1, OwnerFacts DEF ClientItems
<1> DEFINE Drops == pool' = pool /\ conn' = Gone({task[c].conn})
           PutBack == pool' = [pool EXCEPT ![o][a] = Append(@, task[c].conn)] /\ conn' = conn
<1>3. ~task[c].early => (conn[task[c].conn].end = "up" => conn[task[c].conn].got \in Wholes)
    <2>1. HoldOk(c)
        BY DEF HttpInv, ConnsInv
    <2>2. Finish(c) \in Base(c)..Finish(c)
        <3>1. Finish(c) = HeadEnd(c) + Item(c).body /\ Item(c).body \in Nat /\ HeadEnd(c) = Base(c) + 2 /\ Base(c) \in Nat /\ Finish(c) \in Nat
            BY <1>0, ServingItem
        <3> QED  BY <3>1
    <2>3. Bytes(c, Base(c), Finish(c)) \in Wholes
        BY <1>0, <2>2, PieceIs
    <2> QED  BY <1>0, <2>1, <2>3 DEF HoldOk
<1>4. ASSUME NEW F \in SUBSET {"conn", "linger", "reset"}, Sets(c, "close", F),
             Broke(c) \/ task'[c].linger = ~task[c].done, Drops \/ (~task[c].early /\ PutBack)
      PROVE  HttpInv'
    BY <1>0, <1>2, <1>3, <1>4, BodyOverKeeps
<1>5. ASSUME task[c].keep, task' = [task EXCEPT ![c] = NextItem(c)], Drops \/ (~task[c].early /\ PutBack)
      PROVE  HttpInv'
    <2>1. /\ DOMAIN task' = DOMAIN task /\ (\A d \in Client \ {c} : task'[d] = task[d])
          /\ DOMAIN task'[c] = Fields /\ task'[c].pc \in {"got", "idle"}
        BY <1>5, NextItemMoves DEF HttpInv
    <2>2. Only(c)
        <3>1. DOMAIN conn' = DOMAIN conn
            BY <1>5, GoneDom
        <3> QED  BY <1>0, <2>1, <3>1 DEF Only
    <2>3. task'[c].pc \notin Holding
        BY <2>1 DEF Holding
    <2>4. ConnsInv'
        BY <1>0, <1>2, <1>3, <1>5, <2>2, <2>3, GoneConns, PutConns
    <2>5. WholeOk(c) /\ CloseOk(c)
        BY DEF HttpInv, SeenInv
    <2>6. LastSeen(c).missing = 0 /\ ~TellsClose(c) /\ over[c] = "open"
        BY <1>0, <1>5, <2>5 DEF WholeOk, CloseOk
    <2>7. WholeOk(c)'
        BY <1>0, <2>1, <2>5, <2>6 DEF WholeOk, LastSeen, IsReplies
    <2>8. CloseOk(c)'
        BY <1>0, <2>6 DEF CloseOk, TellsClose, LastSeen
    <2> QED  BY <1>0, <1>5, <2>2, <2>4, <2>7, <2>8, NextItemKeeps
<1>6. ASSUME task' = [task EXCEPT ![c] = [task[c] EXCEPT !.pc = "close", !.conn = 0, !.linger = ~task[c].done]]
      PROVE  Sets(c, "close", {"conn", "linger"}) /\ task'[c].linger = ~task[c].done
    <2>1. task' = [task EXCEPT ![c].pc = "close", ![c].conn = 0, ![c].linger = ~task[c].done]
        BY <1>6 DEF HttpInv, Doms
    <2> QED  BY <2>1, LingersSets DEF HttpInv
<1>7. ASSUME task' = [task EXCEPT ![c].pc = "close", ![c].conn = 0, ![c].linger = ~task[c].done]
      PROVE  Sets(c, "close", {"conn", "linger"}) /\ task'[c].linger = ~task[c].done
    BY <1>7, LingersSets DEF HttpInv
<1>8. ASSUME task' = [task EXCEPT ![c].pc = "close", ![c].conn = 0]
      PROVE  Sets(c, "close", {"conn"})
    BY <1>8, DropsSets DEF HttpInv
<1>9. \/ /\ ~task[c].early /\ (Drops \/ PutBack)
         /\ \/ task[c].keep /\ task' = [task EXCEPT ![c] = NextItem(c)]
            \/ ~task[c].keep /\ task' = [task EXCEPT ![c] = [task[c] EXCEPT !.pc = "close", !.conn = 0, !.linger = ~task[c].done]]
      \/ Drops /\ task' = [task EXCEPT ![c].pc = "close", ![c].conn = 0, ![c].linger = ~task[c].done]
      \/ Drops /\ Broke(c) /\ task' = [task EXCEPT ![c].pc = "close", ![c].conn = 0]
    BY <1>1 DEF FinishExchange, Puts
<1>10. {"conn", "linger"} \in SUBSET {"conn", "linger", "reset"} /\ {"conn"} \in SUBSET {"conn", "linger", "reset"}
    OBVIOUS
<1> HIDE DEF Drops, PutBack
<1> QED  BY <1>4, <1>5, <1>6, <1>7, <1>8, <1>9, <1>10

-----------------------------------------------------------------------------
(* Closing, the client and the backends. *)

\* A task past its last reply serves nothing more.
LEMMA OverKeeps ==
    ASSUME HttpInv, NEW c \in Client, Only(c), task'[c].pc \in Over, task'[c].item = task[c].item,
           task'[c].read \in Nat, task'[c].fwd \in Nat, acted' = acted, WholeOk(c)', CloseOk(c)', ConnsInv'
    PROVE  HttpInv'
<1>1. task'[c].pc \notin Serving \cup Reading \cup Fetching \cup {"head", "route", "expect", "relay", "await", "body", "tunnel"}
      /\ task'[c].pc \in Pcs
    BY DEF Over, Serving, Fetching, Holding, Reading, Pcs
<1>2. TaskOk(c)'
    BY <1>1 DEF TaskOk, HttpInv, StreamInv, Only
<1>3. ServeOk(c)'
    BY <1>1 DEF ServeOk
<1>4. ActedOk(c)'
    BY <1>1, ActedStays DEF Only
<1> QED  BY <1>2, <1>3, <1>4, OnlyKeeps

\* close_connection and read_off.
LEMMA ClosingKeeps ==
    ASSUME HttpInv, NEW c \in Client, task[c].pc \in {"close", "linger"}, NEW pc \in {"linger", "drop"},
           NEW F \in SUBSET {"read", "gaveUp"}, Sets(c, pc, F), task'[c].read \in Nat,
           UNCHANGED <<clientVars, wireVars, seen, over, backVars>>, WholeOk(c)', CloseOk(c)'
    PROVE  HttpInv'
<1>1. Only(c)
    BY OnlyBy DEF clientVars, wireVars, backVars
<1>2. task'[c].pc = pc /\ task'[c].item = task[c].item /\ task'[c].fwd = task[c].fwd
    BY DEF Sets, Fields
<1>3. task'[c].pc \in Over /\ task'[c].pc \notin Holding /\ task'[c].fwd \in Nat
    BY <1>2 DEF Over, Holding, HttpInv, StreamInv, TaskOk
<1>4. ConnsInv'
    BY <1>1, <1>3, ReleaseConns DEF backVars
<1> QED  BY <1>1, <1>2, <1>3, <1>4, OverKeeps DEF backVars

\* The last reply of a task that closes: what it lacks, and why it closes.
LEMMA ClosingSeen ==
    ASSUME HttpInv, NEW c \in Client, task[c].pc \in {"close", "linger"}, NEW pc \in {"linger", "drop"},
           NEW F \in SUBSET {"read", "gaveUp"}, Sets(c, pc, F),
           UNCHANGED <<clientVars, wireVars, seen, over>>,
           seen[c] # <<>> /\ LastSeen(c).missing # 0 => pc = "drop",
           TellsClose(c) /\ pc = "drop" => \/ task[c].reset \/ Broke(c) \/ Excused(c)' \/ task'[c].gaveUp
                                           \/ Reads(c)' = {} /\ ended[c] # "no"
    PROVE  WholeOk(c)' /\ CloseOk(c)'
<1>1. task'[c].pc = pc /\ task'[c].reset = task[c].reset
    BY DEF Sets, Fields
<1>2. WholeOk(c) /\ CloseOk(c)
    BY DEF HttpInv, SeenInv
<1>3. LastSeen(c)' = LastSeen(c) /\ TellsClose(c)' = TellsClose(c) /\ Broke(c)' = Broke(c)
    BY DEF LastSeen, TellsClose, Broke, wireVars
<1>4. WholeOk(c)'
    BY <1>1, <1>2, <1>3 DEF WholeOk
<1>5. CloseOk(c)'
    BY <1>1, <1>2, <1>3 DEF CloseOk, Over, wireVars
<1> QED  BY <1>4, <1>5

\* close_connection: linger, or drop; a reset never shuts down first.
LEMMA CloseConnKeeps ==
    ASSUME HttpInv, NEW c \in Client, CloseConn(c)
    PROVE  HttpInv'
<1>1. task[c].pc = "close" /\ UNCHANGED <<clientVars, wireVars, seen, over, backVars>>
    BY DEF CloseConn
<1>2. task[c].read \in Nat /\ WholeOk(c) /\ CloseOk(c)
    BY DEF HttpInv, StreamInv, TaskOk, SeenInv
<1>3. seen[c] # <<>> /\ LastSeen(c).missing # 0 => task[c].reset
    BY <1>1, <1>2 DEF WholeOk
<1>4. TellsClose(c) => task[c].linger \/ task[c].reset \/ Broke(c) \/ Excused(c)
    BY <1>1, <1>2 DEF CloseOk
<1>5. ASSUME NEW pc \in {"linger", "drop"}, Goto(c, pc), pc = "drop" => task[c].reset \/ ~task[c].linger, pc = "linger" => ~task[c].reset
      PROVE  HttpInv'
    <2>1. Sets(c, pc, {})
        BY <1>5, GotoSets DEF HttpInv
    <2>2. task'[c].read = task[c].read
        BY <2>1 DEF Sets, Fields
    <2>3. Excused(c)' = Excused(c)
        BY <1>1, <2>2, EndsKept DEF Excused, LastSeen, clientVars
    <2>4. WholeOk(c)' /\ CloseOk(c)'
        BY <1>1, <1>3, <1>4, <1>5, <2>1, <2>3, ClosingSeen
    <2> QED  BY <1>1, <1>2, <2>1, <2>2, <2>4, ClosingKeeps
<1>6. ASSUME ~task[c].reset, task' = [task EXCEPT ![c].pc = "drop", ![c].gaveUp = TRUE]
      PROVE  HttpInv'
    <2>1. Sets(c, "drop", {"gaveUp"}) /\ task'[c].gaveUp = TRUE
        BY <1>6 DEF Sets, HttpInv, Doms, Fields
    <2>2. task'[c].read = task[c].read
        BY <2>1 DEF Sets, Fields
    <2>4. WholeOk(c)' /\ CloseOk(c)'
        BY <1>1, <1>3, <1>4, <1>6, <2>1, ClosingSeen
    <2> QED  BY <1>1, <1>2, <2>1, <2>2, <2>4, ClosingKeeps
<1>7. \/ ~task[c].reset /\ task[c].linger /\ Goto(c, "linger")
      \/ ~task[c].linger /\ Goto(c, "drop")
      \/ task[c].reset /\ Goto(c, "drop")
      \/ ~task[c].reset /\ task' = [task EXCEPT ![c].pc = "drop", ![c].gaveUp = TRUE]
    BY DEF CloseConn
<1> QED  BY <1>5, <1>6, <1>7

\* read_off: until the client closes, or giving up on it.
LEMMA LingerKeeps ==
    ASSUME HttpInv, NEW c \in Client, Linger(c)
    PROVE  HttpInv'
<1>1. task[c].pc = "linger" /\ UNCHANGED <<clientVars, wireVars, seen, over, backVars>>
    BY DEF Linger
<1>2. task[c].read \in Nat /\ TaskOk(c) /\ WholeOk(c) /\ CloseOk(c)
    BY DEF HttpInv, StreamInv, TaskOk, SeenInv
<1>3. ~(seen[c] # <<>> /\ LastSeen(c).missing # 0)
    BY <1>1, <1>2 DEF WholeOk
<1>4. ASSUME NEW k \in Reads(c), task' = [task EXCEPT ![c].read = k] PROVE HttpInv'
    <2>1. Sets(c, "linger", {"read"}) /\ task'[c].read = k
        BY <1>1, <1>4 DEF Sets, HttpInv, Doms, Fields
    <2>2. k \in Nat
        BY <1>2, ReadsFacts
    <2>3. WholeOk(c)' /\ CloseOk(c)'
        BY <1>1, <1>3, <2>1, ClosingSeen
    <2> QED  BY <1>1, <2>1, <2>2, <2>3, ClosingKeeps
<1>5. ASSUME Reads(c) = {}, ended[c] # "no", Goto(c, "drop") PROVE HttpInv'
    <2>1. Sets(c, "drop", {})
        BY <1>5, GotoSets DEF HttpInv
    <2>2. task'[c].read = task[c].read
        BY <2>1 DEF Sets, Fields
    <2>3. Reads(c)' = Reads(c)
        BY <1>1, <2>2 DEF Reads, wireVars
    <2>4. WholeOk(c)' /\ CloseOk(c)'
        BY <1>1, <1>3, <1>5, <2>1, <2>3, ClosingSeen
    <2> QED  BY <1>1, <1>2, <2>1, <2>2, <2>4, ClosingKeeps
<1>6. ASSUME task' = [task EXCEPT ![c].pc = "drop", ![c].gaveUp = TRUE] PROVE HttpInv'
    <2>1. Sets(c, "drop", {"gaveUp"}) /\ task'[c].gaveUp = TRUE
        BY <1>6 DEF Sets, HttpInv, Doms, Fields
    <2>2. task'[c].read = task[c].read
        BY <2>1 DEF Sets, Fields
    <2>4. WholeOk(c)' /\ CloseOk(c)'
        BY <1>1, <1>3, <2>1, ClosingSeen
    <2> QED  BY <1>1, <1>2, <2>1, <2>2, <2>4, ClosingKeeps
<1> QED  BY <1>4, <1>5, <1>6 DEF Linger

\* The task of a connection that is over.
Ended(c) == [NewTask EXCEPT !.pc = "end", !.item = task[c].item, !.read = task[c].read,
                            !.gaveUp = task[c].gaveUp, !.done = task[c].done]

\* The fields of a connection that is over.
LEMMA EndedFields ==
    ASSUME NEW c
    PROVE  /\ DOMAIN Ended(c) = Fields /\ Ended(c).pc = "end" /\ Ended(c).item = task[c].item
           /\ Ended(c).read = task[c].read /\ Ended(c).fwd = 0 /\ Ended(c).gaveUp = task[c].gaveUp
BY DEF Ended, NewTask, Fields

\* The pool of a connection goes with it; no other pool and no other task
\* loses a backend connection to that.
LEMMA DropConns ==
    ASSUME HttpInv, NEW c \in Client, Only(c), task'[c].pc \notin Holding,
           conn' = Gone(UNION {Range(pool[c][a]) : a \in Address}),
           pool' = [pool EXCEPT ![c] = [a \in Address |-> <<>>]]
    PROVE  ConnsInv'
<1>1. PICK G : G = UNION {Range(pool[c][a]) : a \in Address}
    OBVIOUS
<1>2. PoolOk /\ pool \in [Owners -> [Address -> Seq(Conns)]] /\ c \in Owners /\ Owners' = Owners
    BY DEF HttpInv, ConnsInv, PoolOk, PoolType, Owners, Only, Client
<1>3. PoolType'
    BY <1>2 DEF PoolType
<1>4. \A p \in Places' : p \in Places /\ p[1] # c /\ At(p)' = At(p)
    <2> TAKE p \in Places'
    <2>1. p \in Owners \X Address \X Nat /\ p[3] \in 1..Len(pool'[p[1]][p[2]])
        BY <1>2 DEF Places
    <2>2. ASSUME p[1] = c PROVE FALSE
        <3>1. pool'[p[1]][p[2]] = <<>>
            BY <1>2, <2>1, <2>2
        <3>2. Len(pool'[p[1]][p[2]]) = 0
            BY <3>1
        <3> QED  BY <2>1, <3>2
    <2>3. pool'[p[1]] = pool[p[1]]
        BY <1>2, <2>1, <2>2
    <2> QED  BY <1>2, <2>1, <2>2, <2>3 DEF Places, At
<1>5. \A b \in G : \E q \in Places : q[1] = c /\ At(q) = b
    <2> TAKE b \in G
    <2>1. PICK a \in Address : b \in Range(pool[c][a])
        BY <1>1
    <2>2. PICK i \in DOMAIN pool[c][a] : b = pool[c][a][i]
        BY <2>1 DEF Range
    <2>3. i \in 1..Len(pool[c][a]) /\ i \in Nat
        BY <1>2, <2>2
    <2>4. PICK q : q = <<c, a, i>>
        OBVIOUS
    <2>5. q \in Places /\ q[1] = c /\ At(q) = b
        BY <1>2, <2>2, <2>3, <2>4 DEF Places, At
    <2> QED  BY <2>5
<1>6. \A p \in Places' : At(p)' = At(p) /\ At(p) \notin G
    BY <1>2, <1>4, <1>5 DEF PoolOk, PooledApart
<1>7. \A d \in Client \ {c} : task[d].pc \in Holding => task[d].conn \notin G
    BY <1>2, <1>5 DEF PoolOk, HeldApart
<1>8. HoldOk(c)' /\ Places' \subseteq Places /\ conn' = Gone(G)
    BY <1>1, <1>4 DEF HoldOk
<1> QED  BY <1>3, <1>6, <1>7, <1>8, ShrinkConns

\* The socket dropped: a reset armed is what the client sees, and one the
\* kernel makes destroys no reply that lingered.
LEMMA DropConnKeeps ==
    ASSUME HttpInv, NEW c \in Client, DropConn(c)
    PROVE  HttpInv'
<1>1. task[c].pc = "drop" /\ UNCHANGED <<script, sent, ended, seen, acted>>
    BY DEF DropConn, clientVars, wireVars
<1>2. task' = [task EXCEPT ![c] = Ended(c)]
    BY DEF DropConn, Ended
<1>3. TaskOk(c) /\ WholeOk(c) /\ CloseOk(c) /\ task[c].read \in Nat
    BY DEF HttpInv, StreamInv, TaskOk, SeenInv
<1>4. task'[c] = Ended(c) /\ DOMAIN task' = DOMAIN task /\ \A d \in Client \ {c} : task'[d] = task[d]
    BY <1>2 DEF HttpInv, Doms
<1>5. over'[c] = (IF task[c].reset THEN "rst" ELSE IF Reads(c) # {} /\ ~Broke(c) THEN "torn" ELSE "fin")
      /\ DOMAIN over' = DOMAIN over /\ \A d \in Client \ {c} : over'[d] = over[d]
    BY DEF DropConn, HttpInv, Doms
<1>6. DOMAIN conn' = DOMAIN conn
    BY GoneDom DEF DropConn
<1>7. Only(c)
    BY <1>1, <1>4, <1>5, <1>6, EndedFields DEF Only
<1>8. task'[c].pc = "end" /\ task'[c].item = task[c].item /\ task'[c].read = task[c].read /\ task'[c].fwd = 0
      /\ task'[c].gaveUp = task[c].gaveUp
    BY <1>4, EndedFields
<1>9. task'[c].pc \in Over /\ task'[c].pc \notin Holding /\ task'[c].read \in Nat /\ task'[c].fwd \in Nat
    BY <1>3, <1>8 DEF Over, Holding
<1>10. ConnsInv'
    BY <1>7, <1>9, ReleaseConns, DropConns DEF DropConn
<1>11. LastSeen(c)' = LastSeen(c) /\ TellsClose(c)' = TellsClose(c) /\ Excused(c)' = Excused(c)
    BY <1>1, <1>8, EndsKept DEF LastSeen, TellsClose, Excused
<1>12. WholeOk(c)'
    BY <1>1, <1>3, <1>5, <1>8, <1>11 DEF WholeOk
<1>13. CloseOk(c)'
    BY <1>1, <1>3, <1>5, <1>8, <1>11 DEF CloseOk, Over
<1> QED  BY <1>1, <1>7, <1>8, <1>9, <1>10, <1>12, <1>13, OverKeeps

-----------------------------------------------------------------------------
\* What no task does: the client, the drain, and nothing at all.
LEMMA WireConns ==
    ASSUME HttpInv, UNCHANGED <<script, task, conn, pool>>
    PROVE  ConnsInv'
<1>1. \A d : Ends(d)' = Ends(d) /\ Item(d)' = Item(d) /\ Base(d)' = Base(d) /\ Finish(d)' = Finish(d)
    BY ServedKept
<1>2. Pieces' = Pieces /\ Wholes' = Wholes /\ Client' = Client
    BY PiecesKept DEF Client
<1>3. Owners' = Owners /\ Places' = Places /\ \A p \in Places : At(p)' = At(p)
    BY PoolSame
<1>4. ConnsInv
    BY DEF HttpInv
<1>5. \A b \in Conns : ConnOk(b)'
    BY <1>2, <1>4 DEF ConnsInv, ConnOk
<1>6. \A c \in Client : HoldOk(c)'
    BY <1>1, <1>2, <1>4 DEF ConnsInv, HoldOk, Bytes
<1>7. PoolOk'
    BY <1>2, <1>3, <1>4 DEF ConnsInv, PoolOk, PoolType, PooledOk, PooledApart, HeldApart
<1> QED  BY <1>2, <1>5, <1>6, <1>7 DEF ConnsInv

\* Steps of no task keep the invariant as long as a client that is gone or
\* has nothing left to send stays so.
LEMMA WireKeeps ==
    ASSUME HttpInv, UNCHANGED <<script, task, seen, over, conn, pool, acted>>,
           DOMAIN sent' = DOMAIN sent, DOMAIN ended' = DOMAIN ended,
           \A c \in Client : sent'[c] \in Nat,
           \A c \in Client : Broke(c) => Broke(c)',
           \A c \in Client : Reads(c) = {} /\ ended[c] # "no" => Reads(c)' = {} /\ ended'[c] # "no"
    PROVE  HttpInv'
<1>1. \A d : Ends(d)' = Ends(d) /\ Item(d)' = Item(d) /\ Base(d)' = Base(d) /\ Finish(d)' = Finish(d) /\ HeadEnd(d)' = HeadEnd(d)
    BY ServedKept
<1>2. Client' = Client
    BY DEF Client
<1>3. Doms'
    BY <1>2 DEF HttpInv, Doms
<1>4. StreamInv'
    <2> SUFFICES ASSUME NEW c \in Client PROVE TaskOk(c)' /\ ServeOk(c)'
        BY <1>2 DEF StreamInv
    <2>1. TaskOk(c) /\ ServeOk(c)
        BY DEF HttpInv, StreamInv
    <2>2. TaskOk(c)'
        BY <2>1 DEF TaskOk
    <2>3. ServeOk(c)'
        BY <2>1, ServedKept, HeldKept DEF ServeOk
    <2> QED  BY <2>2, <2>3
<1>5. ActedInv'
    BY <1>1, <1>2 DEF HttpInv, ActedInv, ActedOk
<1>6. ConnsInv'
    BY WireConns
<1>7. SeenInv'
    <2> SUFFICES ASSUME NEW c \in Client PROVE WholeOk(c)' /\ CloseOk(c)'
        BY <1>2 DEF SeenInv
    <2>1. WholeOk(c) /\ CloseOk(c)
        BY DEF HttpInv, SeenInv
    <2>2. LastSeen(c)' = LastSeen(c) /\ TellsClose(c)' = TellsClose(c) /\ Excused(c)' = Excused(c)
        BY <1>1 DEF LastSeen, TellsClose, Excused
    <2>3. WholeOk(c)'
        BY <2>1, <2>2 DEF WholeOk
    <2>4. CloseOk(c)'
        BY <2>1, <2>2 DEF CloseOk
    <2> QED  BY <2>3, <2>4
<1> QED  BY <1>3, <1>4, <1>5, <1>6, <1>7 DEF HttpInv

\* The client sends, half-closes or vanishes; the drain raises a flag or
\* calls a waker.
LEMMA ClientKeeps ==
    ASSUME HttpInv, NEW c \in Client, ClientSends(c) \/ ClientEnds(c) \/ RaiseFlag(c) \/ CallWaker(c)
    PROVE  HttpInv'
<1>1. UNCHANGED <<script, task, seen, over, conn, pool, acted>>
    BY DEF ClientSends, ClientEnds, RaiseFlag, CallWaker, clientVars, backVars, wireVars
<1>2. \A d \in Client : sent[d] \in Nat
    BY DEF HttpInv, StreamInv, TaskOk
<1>3. ASSUME ClientSends(c) PROVE HttpInv'
    <2>1. PICK k \in (sent[c] + 1)..Total(c) : sent' = [sent EXCEPT ![c] = k]
        BY <1>3 DEF ClientSends
    <2>2. ended' = ended /\ ended[c] = "no"
        BY <1>3 DEF ClientSends
    <2>3. Total(c) \in Nat
        <3>1. script[c] \in Seq(ClientItems) /\ Len(script[c]) \in 0..Len(script[c])
            BY DEF HttpInv, Doms
        <3> QED  BY <3>1, EndsDef DEF Total
    <2>4. k \in Nat
        BY <1>2, <2>1, <2>3
    <2>5. DOMAIN sent' = DOMAIN sent /\ \A d \in Client : sent'[d] = IF d = c THEN k ELSE sent[d]
        BY <2>1 DEF HttpInv, Doms
    <2>6. \A d \in Client : sent'[d] \in Nat
        BY <1>2, <2>4, <2>5
    <2>7. \A d \in Client : Broke(d) => Broke(d)'
        BY <2>2 DEF Broke
    <2>8. \A d \in Client : Reads(d) = {} /\ ended[d] # "no" => Reads(d)' = {} /\ ended'[d] # "no"
        BY <1>1, <2>2, <2>5 DEF Reads
    <2> QED  BY <1>1, <2>2, <2>5, <2>6, <2>7, <2>8, WireKeeps
<1>4. ASSUME ClientEnds(c) PROVE HttpInv'
    <2>1. PICK how \in {"fin", "rst"} : ended' = [ended EXCEPT ![c] = how]
        BY <1>4 DEF ClientEnds
    <2>2. sent' = sent /\ ended[c] = "no"
        BY <1>4 DEF ClientEnds
    <2>3. DOMAIN ended' = DOMAIN ended /\ \A d \in Client : ended'[d] = IF d = c THEN how ELSE ended[d]
        BY <2>1 DEF HttpInv, Doms
    <2>4. \A d \in Client : Broke(d) => Broke(d)'
        BY <2>2, <2>3 DEF Broke
    <2>5. \A d \in Client : Reads(d) = {} /\ ended[d] # "no" => Reads(d)' = {} /\ ended'[d] # "no"
        BY <1>1, <2>2, <2>3 DEF Reads
    <2> QED  BY <1>1, <1>2, <2>2, <2>3, <2>4, <2>5, WireKeeps
<1>5. ASSUME RaiseFlag(c) \/ CallWaker(c) PROVE HttpInv'
    <2>1. sent' = sent /\ ended' = ended
        BY <1>5 DEF RaiseFlag, CallWaker, wireVars
    <2> QED  BY <1>1, <1>2, <2>1, WireKeeps DEF Broke, Reads
<1> QED  BY <1>3, <1>4, <1>5

\* A backend answers, or goes: what it got of a request stays.
LEMMA BackendConn ==
    ASSUME HttpInv, NEW b \in Conns,
           BackendSends(b) \/ BackendEnds(b) \/ \E a \in answers : BackendAnswers(b, a)
    PROVE  /\ DOMAIN conn' = DOMAIN conn /\ \A e \in Conns \ {b} : conn'[e] = conn[e]
           /\ DOMAIN conn'[b] = DOMAIN Unused /\ conn'[b].got = conn[b].got
           /\ conn'[b].end \in {"up", "fin", "rst"} /\ conn[b].end = "up"
           /\ UNCHANGED <<script, sent, ended, task, seen, over, pool, acted>>
<1>1. DOMAIN conn = Conns /\ DOMAIN conn[b] = DOMAIN Unused /\ DOMAIN Unused = {"addr", "end", "got", "out", "owed", "told"}
    BY DEF HttpInv, Doms, ConnsInv, ConnOk, Unused
<1>2. conn[b].end = "up" /\ UNCHANGED <<script, sent, ended, task, seen, over, pool, acted>>
    BY DEF BackendSends, BackendEnds, BackendAnswers, clientVars, wireVars
<1>3. ASSUME BackendSends(b)
      PROVE  \E out, owed, end : end \in {"up", "fin"} /\ conn' = [conn EXCEPT ![b].out = out, ![b].owed = owed, ![b].end = end]
    <2>1. PICK k \in 1..Len(conn[b].owed) : \E now, fin :
              conn' = [conn EXCEPT ![b].out = @ \o now, ![b].owed = SubSeq(@, k + 1, Len(@)), ![b].end = IF fin THEN "fin" ELSE "up"]
        BY <1>3, Zenon DEF BackendSends
    <2>2. PICK now, fin :
              conn' = [conn EXCEPT ![b].out = @ \o now, ![b].owed = SubSeq(@, k + 1, Len(@)), ![b].end = IF fin THEN "fin" ELSE "up"]
        BY <2>1
    <2>3. PICK out, owed, end : /\ out = conn[b].out \o now /\ owed = SubSeq(conn[b].owed, k + 1, Len(conn[b].owed))
                                /\ end = IF fin THEN "fin" ELSE "up"
        OBVIOUS
    <2>4. conn' = [conn EXCEPT ![b].out = out, ![b].owed = owed, ![b].end = end] /\ end \in {"up", "fin"}
        BY <1>1, <2>2, <2>3
    <2> QED  BY <2>4
<1>4. ASSUME NEW out, NEW owed, NEW end \in {"up", "fin"}, conn' = [conn EXCEPT ![b].out = out, ![b].owed = owed, ![b].end = end]
      PROVE  /\ DOMAIN conn' = DOMAIN conn /\ \A e \in Conns \ {b} : conn'[e] = conn[e]
             /\ DOMAIN conn'[b] = DOMAIN Unused /\ conn'[b].got = conn[b].got
             /\ conn'[b].end \in {"up", "fin", "rst"}
    BY <1>1, <1>4
<1>5. ASSUME BackendEnds(b)
      PROVE  /\ DOMAIN conn' = DOMAIN conn /\ \A e \in Conns \ {b} : conn'[e] = conn[e]
             /\ DOMAIN conn'[b] = DOMAIN Unused /\ conn'[b].got = conn[b].got
             /\ conn'[b].end \in {"up", "fin", "rst"}
    BY <1>1, <1>5 DEF BackendEnds
<1>6. ASSUME NEW a, BackendAnswers(b, a)
      PROVE  /\ DOMAIN conn' = DOMAIN conn /\ \A e \in Conns \ {b} : conn'[e] = conn[e]
             /\ DOMAIN conn'[b] = DOMAIN Unused /\ conn'[b].got = conn[b].got
             /\ conn'[b].end \in {"up", "fin", "rst"}
    <2>1. PICK owed, told : conn' = [conn EXCEPT ![b].owed = owed, ![b].told = told]
        BY <1>6 DEF BackendAnswers
    <2> QED  BY <1>1, <1>2, <2>1
<1> QED  BY <1>2, <1>3, <1>4, <1>5, <1>6

\* The steps of a backend keep the invariant.
LEMMA BackendKeeps ==
    ASSUME HttpInv, NEW b \in Conns,
           BackendSends(b) \/ BackendEnds(b) \/ \E a \in answers : BackendAnswers(b, a)
    PROVE  HttpInv'
<1>1. /\ DOMAIN conn' = DOMAIN conn /\ \A e \in Conns \ {b} : conn'[e] = conn[e]
      /\ DOMAIN conn'[b] = DOMAIN Unused /\ conn'[b].got = conn[b].got
      /\ conn'[b].end \in {"up", "fin", "rst"} /\ conn[b].end = "up"
    BY BackendConn
<1>2. UNCHANGED <<script, sent, ended, task, seen, over, pool, acted>>
    BY BackendConn
<1>3. Client' = Client /\ Pieces' = Pieces /\ Wholes' = Wholes
    BY <1>2, PiecesKept DEF Client
<1>4. \A d : /\ Ends(d)' = Ends(d) /\ Item(d)' = Item(d) /\ Base(d)' = Base(d) /\ Finish(d)' = Finish(d)
             /\ HeadEnd(d)' = HeadEnd(d) /\ BodyHeld(d)' = BodyHeld(d) /\ RequestEnd(d)' = RequestEnd(d)
    BY <1>2, ServedKept, HeldKept
<1>5. \A e \in Conns : /\ DOMAIN conn'[e] = DOMAIN conn[e] \/ DOMAIN conn'[e] = DOMAIN Unused
                       /\ conn'[e].got = conn[e].got
                       /\ conn'[e].end \in {"none", "up", "fin", "rst"} \/ conn'[e].end = conn[e].end
                       /\ conn[e].end # "none" => conn'[e].end # "none"
                       /\ conn'[e].end = "up" => conn[e].end = "up"
    BY <1>1
<1>6. Doms'
    BY <1>1, <1>2, <1>3 DEF HttpInv, Doms
<1>7. StreamInv'
    BY <1>2, <1>3, <1>4 DEF HttpInv, StreamInv, TaskOk, ServeOk
<1>8. ActedInv'
    BY <1>2, <1>3, <1>4 DEF HttpInv, ActedInv, ActedOk
<1>9. ConnsInv'
    <2>1. ConnsInv
        BY DEF HttpInv
    <2>2. Owners' = Owners /\ Places' = Places /\ \A p \in Places : At(p)' = At(p) /\ At(p) \in Conns
        BY <1>2, <2>1, PoolSame, PlaceFacts DEF ConnsInv, PoolOk
    <2>3. \A e \in Conns : ConnOk(e)'
        BY <1>3, <1>5, <2>1 DEF ConnsInv, ConnOk
    <2>4. \A c \in Client : HoldOk(c)'
        BY <1>2, <1>3, <1>4, <1>5, <2>1 DEF ConnsInv, HoldOk, Bytes
    <2>5. PooledOk'
        BY <1>3, <1>5, <2>1, <2>2 DEF ConnsInv, PoolOk, PooledOk
    <2>6. PoolType' /\ PooledApart' /\ HeldApart'
        BY <1>2, <1>3, <2>1, <2>2 DEF ConnsInv, PoolOk, PoolType, PooledApart, HeldApart
    <2> QED  BY <1>3, <2>3, <2>4, <2>5, <2>6 DEF ConnsInv, PoolOk
<1>10. SeenInv'
    BY <1>2, <1>3, <1>4 DEF HttpInv, SeenInv, WholeOk, CloseOk, LastSeen, TellsClose, Excused, IsReplies, Broke, Reads
<1> QED  BY <1>6, <1>7, <1>8, <1>9, <1>10 DEF HttpInv

\* The steps of a connection task keep the invariant.
LEMMA TaskStepKeeps ==
    ASSUME HttpInv, NEW c \in Client, TaskStep(c)
    PROVE  HttpInv'
BY WaitingKeeps, GotKeeps, RawKeeps, CompleteHeadKeeps, RouteRequestKeeps, TakeIdleKeeps, DialUpKeeps,
   DialFailsKeeps, SendRequestKeeps, ResendKeeps, AnswerExpectKeeps, RelayBodyKeeps, RelayDoneKeeps,
   SwallowInterimKeeps, UnansweredKeeps, ForwardHeadKeeps, TunnelKeeps, ForwardBodyKeeps, BodyBrokenKeeps,
   FinishExchangeKeeps, CloseConnKeeps, LingerKeeps, DropConnKeeps DEF TaskStep

\* Every step keeps the invariant.
LEMMA HttpStep ==
    ASSUME HttpInv, [HttpNext]_httpVars
    PROVE  HttpInv'
<1>1. ASSUME NEW c \in Client, TaskStep(c) \/ ClientSends(c) \/ ClientEnds(c) \/ RaiseFlag(c) \/ CallWaker(c)
      PROVE  HttpInv'
    BY <1>1, TaskStepKeeps, ClientKeeps
<1>2. ASSUME NEW b \in Conns, BackendSends(b) \/ BackendEnds(b) \/ \E a \in answers : BackendAnswers(b, a)
      PROVE  HttpInv'
    BY <1>2, BackendKeeps
<1>3. ASSUME UNCHANGED <<script, sent, ended, task, seen, over, conn, pool, acted>> PROVE HttpInv'
    <2>1. \A c \in Client : sent'[c] \in Nat
        BY <1>3 DEF HttpInv, StreamInv, TaskOk
    <2> QED  BY <1>3, <2>1, WireKeeps DEF Broke, Reads
<1>4. ASSUME Drain PROVE HttpInv'
    BY <1>3, <1>4 DEF Drain, clientVars, wireVars, backVars
<1>5. ASSUME UNCHANGED httpVars PROVE HttpInv'
    BY <1>3, <1>5 DEF httpVars
<1> QED  BY <1>1, <1>2, <1>4, <1>5 DEF HttpNext

\* It holds before the first connection.
LEMMA HttpStart == HttpInit => HttpInv
<1> SUFFICES ASSUME NEW setup \in Setups,
                    script = setup.script,
                    sent = [c \in DOMAIN setup.script |-> 0],
                    ended = [c \in DOMAIN setup.script |-> "no"],
                    task = [c \in DOMAIN setup.script |-> NewTask],
                    seen = [c \in DOMAIN setup.script |-> <<>>],
                    over = [c \in DOMAIN setup.script |-> "open"],
                    conn = [b \in Conns |-> Unused],
                    pool = [o \in DOMAIN setup.script \cup {"process"} |-> [a \in Address |-> <<>>]],
                    acted = [c \in DOMAIN setup.script |-> [n \in 1..Len(setup.script[c]) |-> 0]]
             PROVE  HttpInv
    BY DEF HttpInit
<1>1. \A c \in Client : script[c] \in Seq(ClientItems)
    BY HttpAssumption DEF Client
<1>2. Doms
    BY <1>1, NewTaskFields DEF Doms, Client
<1>3. \A c \in Client : task[c].pc = "new" /\ task[c].item = 1 /\ task[c].read = 0 /\ task[c].fwd = 0 /\ task[c].done = FALSE
                        /\ sent[c] = 0
    BY DEF Client, NewTask
<1>4. StreamInv
    <2> SUFFICES ASSUME NEW c \in Client PROVE TaskOk(c) /\ ServeOk(c)
        BY DEF StreamInv
    <2>1. "new" \in Pcs /\ "new" \notin Serving \cup Fetching /\ Len(script[c]) \in Nat
        BY <1>1 DEF Pcs, Serving, Fetching, Holding
    <2> QED  BY <1>3, <2>1 DEF TaskOk, ServeOk
<1>5. ActedInv
    BY <1>1 DEF ActedInv, ActedOk, Client
<1>6. ConnsInv
    <2>1. \A b \in Conns : ConnOk(b)
        BY DEF ConnOk, Pieces, Unused
    <2>2. \A c \in Client : task[c].pc \notin Holding
        BY <1>3 DEF Holding
    <2>3. PoolType
        BY DEF PoolType, Owners, Client
    <2>4. Places = {}
        BY DEF Places, Owners, Client
    <2> QED  BY <2>1, <2>2, <2>3, <2>4 DEF ConnsInv, HoldOk, PoolOk, PooledOk, PooledApart, HeldApart
<1>7. SeenInv
    <2> SUFFICES ASSUME NEW c \in Client PROVE WholeOk(c) /\ CloseOk(c)
        BY DEF SeenInv
    <2>1. seen[c] = <<>> /\ over[c] = "open" /\ task[c].pc = "new"
        BY <1>3 DEF Client
    <2>2. IsReplies(seen[c]) /\ Len(seen[c]) = 0
        <3>1. Len(<<>>) = 0 /\ 1..0 = {}
            OBVIOUS
        <3>2. <<>> = [i \in 1..0 |-> seen[c][i]]
            BY <3>1
        <3> QED  BY <2>1, <3>1, <3>2 DEF IsReplies
    <2>3. WholeOk(c)
        BY <2>1, <2>2 DEF WholeOk
    <2> QED  BY <2>1, <2>3 DEF CloseOk, TellsClose
<1> QED  BY <1>2, <1>4, <1>5, <1>6, <1>7 DEF HttpInv

\* It always holds.
LEMMA HttpHolds == HttpSpec => []HttpInv
BY HttpStart, HttpStep, PTL DEF HttpSpec

-----------------------------------------------------------------------------
\* For every set of clients, scripts and backends, every pool and every
\* bound: a request that is not idempotent reaches a backend whole at most
\* once, through the stale-connection retry, the replay of an unanswered
\* request and every way a pooled connection may die
\* (send_request_with_retry, proxy_http_request).
THEOREM RequestsActedOnOnce == HttpSpec => []ActedOnOnce
<1>1. HttpInv => ActedOnOnce
    BY DEF HttpInv, ActedInv, ActedOk, ActedOnOnce
<1> QED  BY <1>1, HttpHolds, PTL

\* What lies on a backend connection is always the beginning of one request
\* of one client, through pipelining, relayed bodies, cut writes and the
\* reuse of pooled connections (Framing::of, relay_request_body, IdleConns).
THEOREM RequestsStayApart == HttpSpec => []OneRequestAtATime
<1>1. ASSUME HttpInv PROVE OneRequestAtATime
    <2> SUFFICES ASSUME NEW b \in Conns, conn[b].got # <<>>
                 PROVE  LET first == conn[b].got[1]
                            c     == first[1]
                            n     == ItemAt(c, first[2])
                        IN  /\ first[2] = Ends(c)[n - 1] + 1
                            /\ Ends(c)[n - 1] + Len(conn[b].got) <= Ends(c)[n]
                            /\ \A i \in DOMAIN conn[b].got : conn[b].got[i] = <<c, Ends(c)[n - 1] + i>>
        BY DEF OneRequestAtATime
    <2>0. conn[b].got \in Pieces
        BY <1>1 DEF HttpInv, ConnsInv, ConnOk
    <2>1. PICK c \in Client : \E n \in 1..Len(script[c]) : \E m \in 1..Parts(script[c][n]) : conn[b].got = Piece(c, n, m)
        BY <2>0 DEF Pieces
    <2>2. PICK n \in 1..Len(script[c]) : \E m \in 1..Parts(script[c][n]) : conn[b].got = Piece(c, n, m)
        BY <2>1
    <2>3. PICK m \in 1..Parts(script[c][n]) : conn[b].got = Piece(c, n, m)
        BY <2>2
    <2>4. Ends(c)[n - 1] \in Nat /\ Ends(c)[n] \in Nat /\ Ends(c)[n] = Ends(c)[n - 1] + Parts(script[c][n]) /\ Parts(script[c][n]) \in Nat
        BY <1>1, ItemFacts DEF HttpInv
    <2>5. PICK x \in Nat : x = Ends(c)[n - 1]
        BY <2>4
    <2>6. conn[b].got = Bytes(c, x, x + m) /\ x + m \in Nat /\ x + m <= Ends(c)[n] /\ m \in Nat /\ m >= 1
        BY <2>3, <2>4, <2>5 DEF Piece
    <2>7. Len(conn[b].got) = m /\ \A i \in 1..m : conn[b].got[i] = <<c, x + i>>
        <3>1. PICK y \in Nat : y = x + m
            BY <2>6
        <3>2. x <= y /\ y - x = m /\ conn[b].got = Bytes(c, x, y)
            BY <2>6, <3>1
        <3>3. Len(Bytes(c, x, y)) = y - x /\ \A i \in 1..(y - x) : Bytes(c, x, y)[i] = <<c, x + i>>
            BY <3>2, BytesFacts
        <3> QED  BY <3>2, <3>3
    <2>8. DOMAIN conn[b].got = 1..m
        BY <2>6 DEF Bytes
    <2>9. conn[b].got[1] = <<c, x + 1>>
        BY <2>6, <2>7
    <2>10. ItemAt(c, x + 1) = n
        <3>1. PICK p \in Nat : p = x + 1
            OBVIOUS
        <3>2. Ends(c)[n - 1] < p /\ p <= Ends(c)[n]
            BY <2>4, <2>5, <2>6, <3>1
        <3>3. ItemAt(c, p) = n
            BY <1>1, <3>2, ItemAtIs DEF HttpInv
        <3> QED  BY <3>1, <3>3
    <2>11. Ends(c)[n - 1] + Len(conn[b].got) <= Ends(c)[n]
        BY <2>5, <2>6, <2>7
    <2>12. \A i \in DOMAIN conn[b].got : conn[b].got[i] = <<c, Ends(c)[n - 1] + i>>
        BY <2>5, <2>7, <2>8
    <2>13. conn[b].got[1][1] = c /\ conn[b].got[1][2] = x + 1
        BY <2>9
    <2> QED  BY <2>5, <2>10, <2>11, <2>12, <2>13
<1> QED  BY <1>1, HttpHolds, PTL

\* An answer cut short is never followed by another nor by a clean close,
\* and a reply that announces the close is not lost to a reset but for the
\* excuses the code has (forward_response_body, close_connection, read_off).
THEOREM AnswersAreWhole == HttpSpec => []AnswersWhole
<1>1. ASSUME HttpInv PROVE NoFakeComplete
    <2> SUFFICES ASSUME NEW c \in Client, NEW i \in DOMAIN seen[c], seen[c][i].missing > 0
                 PROVE  i = Len(seen[c]) /\ over[c] # "fin"
        BY DEF NoFakeComplete
    <2>1. WholeOk(c)
        BY <1>1 DEF HttpInv, SeenInv
    <2>2. DOMAIN seen[c] = 1..Len(seen[c]) /\ Len(seen[c]) \in Nat
        BY <2>1 DEF WholeOk, IsReplies
    <2>3. seen[c][i].missing # 0
        OBVIOUS
    <2>4. i = Len(seen[c]) /\ seen[c] # <<>> /\ LastSeen(c).missing # 0
        BY <2>1, <2>2, <2>3 DEF WholeOk, LastSeen
    <2> QED  BY <2>1, <2>4 DEF WholeOk
<1>2. ASSUME HttpInv PROVE ReplySurvives
    <2> SUFFICES ASSUME NEW c \in Client, over[c] = "torn", seen[c] # <<>>, LastSeen(c).close
                 PROVE  task[c].gaveUp \/ Excused(c)
        BY DEF ReplySurvives, LastSeen, Excused
    <2>1. WholeOk(c) /\ CloseOk(c)
        BY <1>2 DEF HttpInv, SeenInv
    <2>2. task[c].pc = "end"
        BY <2>1 DEF WholeOk
    <2> QED  BY <2>1, <2>2 DEF CloseOk, TellsClose
<1> QED  BY <1>1, <1>2, HttpHolds, PTL DEF AnswersWhole

-----------------------------------------------------------------------------
(* The connection tasks and the drain: HttpWorker. *)

\* What keeps a drain from being missed: a task past its registration has a
\* waker that a later call wakes, and one that looked again and parked saw the
\* flag down, so the call comes after it and finds the waker there.
WakeOk(c) ==
    /\ "pc" \in DOMAIN task[c]
    /\ task[c].pc \in {"recheck", "parked"} => waker[c] \in {"registered", "woken"}
    /\ task[c].pc = "parked" /\ watch[c] = "called" => waker[c] = "woken"

WakeInv ==
    /\ DOMAIN task = Client /\ DOMAIN watch = Client /\ DOMAIN waker = Client
    /\ \A c \in Client : WakeOk(c)

\* A step that leaves the task of c outside the wait, and the others alone.
Moves(c) ==
    /\ DOMAIN task' = DOMAIN task
    /\ \A d \in Client \ {c} : task'[d] = task[d]
    /\ "pc" \in DOMAIN task'[c] /\ task'[c].pc \notin {"recheck", "parked"}

\* Goto sets the pc of one task (the code moving on within a connection task).
LEMMA GotoMoves ==
    ASSUME WakeInv, NEW c \in Client, NEW pc, Goto(c, pc)
    PROVE  /\ DOMAIN task' = DOMAIN task
           /\ \A d \in Client \ {c} : task'[d] = task[d]
           /\ "pc" \in DOMAIN task'[c] /\ task'[c].pc = pc
BY DEF WakeInv, WakeOk, Goto

\* An error reply (refused) leads to the close.
LEMMA RefuseMoves ==
    ASSUME WakeInv, NEW c \in Client, NEW code, Refuse(c, code)
    PROVE  Moves(c)
BY DEF WakeInv, WakeOk, Refuse, Moves

\* A reply of the proxy's own (send_local_reply) leads to the close or on.
LEMMA LocalReplyMoves ==
    ASSUME WakeInv, NEW c \in Client, NEW code, NEW reusable, NEW done, LocalReply(c, code, reusable, done)
    PROVE  Moves(c)
BY DEF WakeInv, WakeOk, LocalReply, Moves, NextItem, NewTask

\* Such a step that leaves the drain watch alone.
Unwatched(c) == Moves(c) /\ UNCHANGED <<script, draining, watch, waker>>

\* Sniffing, heads and routing (sniff_first_request, complete_headers,
\* analyze_request) leave the watch alone.
LEMMA HeadUnwatched ==
    ASSUME WakeInv, NEW c \in Client, GotFirst(c) \/ Sniff(c) \/ GotNext(c) \/ CompleteHead(c) \/ RouteRequest(c)
    PROVE  Unwatched(c)
<1>1. UNCHANGED <<script, draining, watch, waker>>
    BY DEF GotFirst, Sniff, GotNext, CompleteHead, RouteRequest, drainVars, clientVars
<1>2. ASSUME GotFirst(c) PROVE Moves(c)
    BY <1>2, GotoMoves DEF GotFirst, Moves, HeadOrRoute, WakeInv, WakeOk
<1>3. ASSUME Sniff(c) PROVE Moves(c)
    BY <1>3, GotoMoves DEF Sniff, Moves, WakeInv, WakeOk
<1>4. ASSUME GotNext(c) PROVE Moves(c)
    BY <1>4, GotoMoves DEF GotNext, Moves, HeadOrRoute, WakeInv, WakeOk
<1>5. ASSUME CompleteHead(c) PROVE Moves(c)
    <2>1. ASSUME NEW k, task' = [task EXCEPT ![c].read = k, ![c].pc = IF k >= HeadEnd(c) THEN "route" ELSE "head"]
          PROVE  Moves(c)
        BY <2>1 DEF Moves, WakeInv, WakeOk
    <2>2. ASSUME Goto(c, "close") PROVE Moves(c)
        BY <2>2, GotoMoves DEF Moves
    <2> QED  BY <1>5, <2>1, <2>2, RefuseMoves DEF CompleteHead
<1>6. ASSUME RouteRequest(c) PROVE Moves(c)
    <2> DEFINE connect == [task[c] EXCEPT !.pc = "connect", !.fwd = Base(c), !.early = FALSE,
                                    !.replayable = FALSE, !.replay = FALSE, !.clean = TRUE,
                                    !.done = ClientDone(Item(c).keepalive, BodyHeld(c) /\ ~Item(c).upgrade,
                                                        Leftover(c))]
    <2>1. ASSUME task' = [task EXCEPT ![c] = connect] PROVE Moves(c)
        BY <2>1 DEF Moves, WakeInv, WakeOk
    <2> QED  BY <1>6, <2>1, LocalReplyMoves DEF RouteRequest
<1> QED  BY <1>1, <1>2, <1>3, <1>4, <1>5, <1>6 DEF Unwatched

\* So do dialling and sending (connect_to_backend, send_request_with_retry,
\* relay_request_body).
LEMMA SendUnwatched ==
    ASSUME WakeInv, NEW c \in Client,
           \/ TakeIdle(c) \/ DialUp(c) \/ DialFails(c) \/ DialStarved(c)
           \/ SendRequest(c) \/ Resend(c) \/ AnswerExpect(c) \/ RelayBody(c) \/ RelayDone(c)
    PROVE  Unwatched(c)
<1>1. UNCHANGED <<script, draining, watch, waker>>
    BY DEF TakeIdle, DialUp, DialFails, DialStarved, SendRequest, Resend, AnswerExpect, RelayBody, RelayDone, drainVars, clientVars
<1>2. ASSUME TakeIdle(c) PROVE Moves(c)
    BY <1>2 DEF TakeIdle, Moves, WakeInv, WakeOk
<1>3. ASSUME DialUp(c) PROVE Moves(c)
    <2>1. PICK b \in Conns : task' = [task EXCEPT ![c].conn = b,
                                  ![c].pc = IF task[c].pc = "dial" THEN "send" ELSE "resend"]
        BY <1>3 DEF DialUp
    <2> QED  BY <2>1 DEF Moves, WakeInv, WakeOk
<1>4. ASSUME DialFails(c) PROVE Moves(c)
    BY <1>4, RefuseMoves DEF DialFails
<1>5. ASSUME DialStarved(c) PROVE Moves(c)
    BY <1>5, GotoMoves DEF DialStarved, Moves
<1>6. ASSUME SendRequest(c) PROVE Moves(c)
    BY <1>6, RefuseMoves DEF SendRequest, Moves, WakeInv, WakeOk
<1>7. ASSUME Resend(c) PROVE Moves(c)
    BY <1>7, RefuseMoves DEF Resend, Moves, WakeInv, WakeOk
<1>8. ASSUME AnswerExpect(c) PROVE Moves(c)
    <2>1. PICK pc \in {"close", "relay"} : Goto(c, pc)
        BY <1>8 DEF AnswerExpect
    <2> QED  BY <2>1, GotoMoves DEF Moves
<1>9. ASSUME RelayBody(c) PROVE Moves(c)
    <2>1. ASSUME NEW k, NEW w, task' = [task EXCEPT ![c].read = k,
                                              ![c].fwd = IF w.ok THEN Lesser(k, Finish(c)) ELSE @,
                                              ![c].early = ~w.ok,
                                              ![c].pc = IF w.ok THEN "relay" ELSE "await"]
          PROVE  Moves(c)
        BY <2>1 DEF Moves, WakeInv, WakeOk
    <2>2. ASSUME NEW k, task' = [task EXCEPT ![c].pc = "close", ![c].conn = 0, ![c].read = k,
                                        ![c].linger = ~task[c].done]
          PROVE  Moves(c)
        BY <2>2 DEF Moves, WakeInv, WakeOk
    <2>3. ASSUME task' = [task EXCEPT ![c].pc = "close", ![c].conn = 0] PROVE Moves(c)
        BY <2>3 DEF Moves, WakeInv, WakeOk
    <2> QED  BY <1>9, <2>1, <2>2, <2>3, RefuseMoves DEF RelayBody
<1>10. ASSUME RelayDone(c) PROVE Moves(c)
    BY <1>10 DEF RelayDone, Moves, WakeInv, WakeOk
<1> QED  BY <1>1, <1>2, <1>3, <1>4, <1>5, <1>6, <1>7, <1>8, <1>9, <1>10 DEF Unwatched

\* So does the answer (read_response_head, forward_response_headers and
\* forward_response_body).
LEMMA AnswerUnwatched ==
    ASSUME WakeInv, NEW c \in Client,
           \/ SwallowInterim(c) \/ Unanswered(c) \/ AwaitTimeout(c) \/ ForwardHead(c) \/ Tunnel(c)
           \/ ForwardBody(c) \/ BodyBroken(c) \/ FinishExchange(c)
    PROVE  Unwatched(c)
<1>1. UNCHANGED <<script, draining, watch, waker>>
    BY DEF SwallowInterim, Unanswered, AwaitTimeout, ForwardHead, Tunnel, ForwardBody, BodyBroken, FinishExchange, drainVars, clientVars
<1>2. ASSUME SwallowInterim(c) PROVE Moves(c)
    BY <1>2, RefuseMoves DEF SwallowInterim, Moves, WakeInv, WakeOk
<1>3. ASSUME Unanswered(c) PROVE Moves(c)
    BY <1>3, RefuseMoves DEF Unanswered, Moves, WakeInv, WakeOk
<1>4. ASSUME AwaitTimeout(c) PROVE Moves(c)
    BY <1>4, RefuseMoves DEF AwaitTimeout
<1>5. ASSUME ForwardHead(c) PROVE Moves(c)
    <2>1. ASSUME task' = [task EXCEPT ![c].pc = "close", ![c].conn = 0] PROVE Moves(c)
        BY <2>1 DEF Moves, WakeInv, WakeOk
    <2>2. ASSUME NEW keep, NEW need, NEW bad, NEW brk, NEW delim, NEW clean, NEW closes,
                 task' = [task EXCEPT ![c].pc = "body", ![c].keep = keep, ![c].need = need,
                                      ![c].bad = bad, ![c].brk = brk, ![c].delim = delim,
                                      ![c].clean = clean, ![c].closes = closes]
          PROVE  Moves(c)
        BY <2>2 DEF Moves, WakeInv, WakeOk
    <2>3. ASSUME Goto(c, "tunnel") PROVE Moves(c)
        BY <2>3, GotoMoves DEF Moves
    <2> DEFINE out  == conn[task[c].conn].out
               a    == out[1].a
               delim == CloseDelimited(Item(c), a)
               keep == KeepOpen(c, Item(c).keepalive /\ ~task[c].early) /\ ~delim
    <2>4. \/ Refuse(c, 502)
          \/ task' = [task EXCEPT ![c].pc = "close", ![c].conn = 0]
          \/ \E j \in 1..Len(out) : LET f == Framed(Item(c), a, out, j) IN
                task' = [task EXCEPT ![c].pc = "body", ![c].keep = keep, ![c].need = f.need,
                                     ![c].bad = f.bad, ![c].brk = f.brk, ![c].delim = delim,
                                     ![c].clean = ~f.excess, ![c].closes = a.closes]
          \/ Goto(c, "tunnel")
        BY <1>5, Zenon DEF ForwardHead
    <2>5. ASSUME NEW j \in 1..Len(out), NEW f,
                 task' = [task EXCEPT ![c].pc = "body", ![c].keep = keep, ![c].need = f.need,
                                     ![c].bad = f.bad, ![c].brk = f.brk, ![c].delim = delim,
                                     ![c].clean = ~f.excess, ![c].closes = a.closes]
          PROVE  Moves(c)
        BY <2>2, <2>5
    <2> HIDE DEF out, a, delim, keep
    <2> QED  BY <2>1, <2>3, <2>4, <2>5, RefuseMoves
<1>6. ASSUME Tunnel(c) PROVE Moves(c)
    BY <1>6 DEF Tunnel, Moves, WakeInv, WakeOk
<1>7. ASSUME ForwardBody(c) PROVE Moves(c)
    <2>1. ASSUME task[c].pc = "body", NEW left, NEW clean,
                 task' = [task EXCEPT ![c].need = left, ![c].clean = @ /\ clean]
          PROVE  Moves(c)
        BY <2>1 DEF Moves, WakeInv, WakeOk
    <2>2. ASSUME task' = [task EXCEPT ![c].pc = "close", ![c].conn = 0, ![c].linger = ~task[c].done] PROVE Moves(c)
        BY <2>2 DEF Moves, WakeInv, WakeOk
    <2>3. ASSUME Cut(c) PROVE Moves(c)
        BY <2>3 DEF Cut, Moves, WakeInv, WakeOk
    <2> QED  BY <1>7, <2>1, <2>2, <2>3 DEF ForwardBody
<1>8. ASSUME BodyBroken(c) PROVE Moves(c)
    BY <1>8 DEF BodyBroken, Cut, Moves, WakeInv, WakeOk
<1>9. ASSUME FinishExchange(c) PROVE Moves(c)
    <2>1. ASSUME task' = [task EXCEPT ![c] = IF task[c].keep THEN NextItem(c)
                    ELSE [task[c] EXCEPT !.pc = "close", !.conn = 0, !.linger = ~task[c].done]]
          PROVE  Moves(c)
        BY <2>1 DEF NextItem, NewTask, Moves, WakeInv, WakeOk
    <2>2. ASSUME task' = [task EXCEPT ![c].pc = "close", ![c].conn = 0, ![c].linger = ~task[c].done] PROVE Moves(c)
        BY <2>2 DEF Moves, WakeInv, WakeOk
    <2>3. ASSUME task' = [task EXCEPT ![c].pc = "close", ![c].conn = 0] PROVE Moves(c)
        BY <2>3 DEF Moves, WakeInv, WakeOk
    <2> QED  BY <1>9, <2>1, <2>2, <2>3 DEF FinishExchange
<1> QED  BY <1>1, <1>2, <1>3, <1>4, <1>5, <1>6, <1>7, <1>8, <1>9 DEF Unwatched

\* So do closing and raw TCP (close_connection, read_off, relay_l4).
LEMMA EndUnwatched ==
    ASSUME WakeInv, NEW c \in Client,
           CloseConn(c) \/ Linger(c) \/ Opaque(c) \/ L4Route(c) \/ L4Dial(c) \/ L4Relay(c)
    PROVE  Unwatched(c)
<1>1. UNCHANGED <<script, draining, watch, waker>>
    BY DEF CloseConn, Linger, Opaque, L4Route, L4Dial, L4Relay, drainVars, clientVars
<1>2. ASSUME CloseConn(c) PROVE Moves(c)
    BY <1>2, GotoMoves DEF CloseConn, Moves, WakeInv, WakeOk
<1>3. ASSUME Linger(c) PROVE Moves(c)
    BY <1>3, GotoMoves DEF Linger, Moves, WakeInv, WakeOk
<1>4. ASSUME Opaque(c) PROVE Moves(c)
    BY <1>4, GotoMoves DEF Opaque, Moves
<1>5. ASSUME L4Route(c) PROVE Moves(c)
    BY <1>5, GotoMoves DEF L4Route, Moves
<1>6. ASSUME L4Dial(c) PROVE Moves(c)
    BY <1>6, GotoMoves DEF L4Dial, Moves, WakeInv, WakeOk
<1>7. ASSUME L4Relay(c) PROVE Moves(c)
    <2>1. ASSUME NEW k, task[c].pc = "l4", task' = [task EXCEPT ![c].read = k] PROVE Moves(c)
        BY <2>1 DEF Moves, WakeInv, WakeOk
    <2>2. ASSUME NEW h, task' = [task EXCEPT ![c].halves = @ \ {h},
                                    ![c].pc = IF task[c].halves = {h} THEN "drop" ELSE "l4"]
          PROVE  Moves(c)
        BY <2>2 DEF Moves, WakeInv, WakeOk
    <2>3. ASSUME Goto(c, "drop") PROVE Moves(c)
        BY <2>3, GotoMoves DEF Moves
    <2> QED  BY <1>7, <2>1, <2>2, <2>3 DEF L4Relay
<1> QED  BY <1>1, <1>2, <1>3, <1>4, <1>5, <1>6, <1>7 DEF Unwatched

\* Outside the wait nothing is promised, so such a step keeps WakeInv.
LEMMA UnwatchedKeeps ==
    ASSUME WakeInv, NEW c \in Client, Unwatched(c)
    PROVE  WakeInv'
BY DEF WakeInv, WakeOk, Unwatched, Moves, Client

\* The steps of the wait itself, of arming and of ending keep it (DrainWatch,
\* idle_read, run_worker).
LEMMA WaitSteps ==
    ASSUME WakeInv, NEW c \in Client,
           \/ Accept(c) \/ TlsHello(c) \/ IdlePoll(c) \/ RegisterWaker(c) \/ Recheck(c)
           \/ Unpark(c) \/ DropConn(c)
    PROVE  WakeInv'
<1>1. CASE Accept(c)
    <2>1. PICK pc \in {"hello", "l4route", "idle"} : Goto(c, pc)
        BY <1>1 DEF Accept
    <2>2. Moves(c)
        BY <2>1, GotoMoves DEF Moves
    <2>3. /\ script' = script /\ waker' = waker /\ DOMAIN watch' = DOMAIN watch
          /\ \A d \in Client \ {c} : watch'[d] = watch[d]
        BY <1>1 DEF Accept, Arm, clientVars, WakeInv
    <2> QED  BY <2>2, <2>3 DEF WakeInv, WakeOk, Moves, Client
<1>2. CASE TlsHello(c)
    <2>1. PICK pc \in {"drop", "l4route", "idle"} : Goto(c, pc)
        BY <1>2 DEF TlsHello
    <2>2. Moves(c)
        BY <2>1, GotoMoves DEF Moves
    <2>3. /\ script' = script /\ waker' = waker /\ DOMAIN watch' = DOMAIN watch
          /\ \A d \in Client \ {c} : watch'[d] = watch[d]
        BY <1>2 DEF TlsHello, Arm, clientVars, WakeInv
    <2> QED  BY <2>2, <2>3 DEF WakeInv, WakeOk, Moves, Client
<1>3. CASE IdlePoll(c)
    <2>1. ASSUME NEW k, task' = [task EXCEPT ![c].pc = "got", ![c].read = k] PROVE Moves(c)
        BY <2>1 DEF Moves, WakeInv, WakeOk
    <2>2. ASSUME NEW pc \in {"got", "close", "register"}, Goto(c, pc) PROVE Moves(c)
        BY <2>2, GotoMoves DEF Moves
    <2>3. Moves(c)
        BY <1>3, <2>1, <2>2 DEF IdlePoll
    <2> QED  BY <1>3, <2>3, UnwatchedKeeps DEF Unwatched, IdlePoll, clientVars, drainVars
<1>4. CASE RegisterWaker(c)
    <2>1. task'[c].pc = "recheck" /\ "pc" \in DOMAIN task'[c]
          /\ DOMAIN task' = DOMAIN task /\ \A d \in Client \ {c} : task'[d] = task[d]
        BY <1>4, GotoMoves DEF RegisterWaker
    <2> QED  BY <1>4, <2>1 DEF RegisterWaker, WakeInv, WakeOk, Client, clientVars
<1>5. CASE Recheck(c)
    <2>1. /\ task'[c].pc = (IF Started(c) THEN "got" ELSE "parked") /\ "pc" \in DOMAIN task'[c]
          /\ DOMAIN task' = DOMAIN task /\ \A d \in Client \ {c} : task'[d] = task[d]
        BY <1>5, GotoMoves DEF Recheck
    <2> QED  BY <1>5, <2>1 DEF Recheck, Started, WakeInv, WakeOk, Client, clientVars, drainVars
<1>6. CASE Unpark(c)
    <2>1. /\ task'[c].pc = "idle" /\ "pc" \in DOMAIN task'[c]
          /\ DOMAIN task' = DOMAIN task /\ \A d \in Client \ {c} : task'[d] = task[d]
        BY <1>6, GotoMoves DEF Unpark
    <2> QED  BY <1>6, <2>1 DEF Unpark, WakeInv, WakeOk, Client, clientVars
<1>7. CASE DropConn(c)
    <2>1. /\ task'[c].pc = "end" /\ "pc" \in DOMAIN task'[c]
          /\ DOMAIN task' = DOMAIN task /\ \A d \in Client \ {c} : task'[d] = task[d]
        BY <1>7 DEF DropConn, NewTask, WakeInv, WakeOk
    <2> QED  BY <1>7, <2>1 DEF DropConn, WakeInv, WakeOk, Client, clientVars
<1> QED  BY <1>1, <1>2, <1>3, <1>4, <1>5, <1>6, <1>7

\* It holds before the first connection (run_worker).
LEMMA WakeInvInit == HttpInit => WakeInv
BY DEF HttpInit, WakeInv, WakeOk, NewTask, Client

\* Every step of a task, a client, a backend or the drain keeps it.
LEMMA WakeInvStep == WakeInv /\ [HttpNext]_httpVars => WakeInv'
<1> SUFFICES ASSUME WakeInv, [HttpNext]_httpVars PROVE WakeInv'
    OBVIOUS
<1>1. CASE UNCHANGED httpVars
    BY <1>1 DEF httpVars, WakeInv, WakeOk, Client
<1>2. ASSUME NEW c \in Client, TaskStep(c) PROVE WakeInv'
    BY <1>2, WaitSteps, HeadUnwatched, SendUnwatched, AnswerUnwatched, EndUnwatched, UnwatchedKeeps DEF TaskStep
<1>3. ASSUME NEW c \in Client, ClientSends(c) \/ ClientEnds(c) PROVE WakeInv'
    BY <1>3 DEF ClientSends, ClientEnds, WakeInv, WakeOk, Client, clientVars, drainVars
<1>4. ASSUME NEW c \in Client, RaiseFlag(c) PROVE WakeInv'
    BY <1>4 DEF RaiseFlag, WakeInv, WakeOk, Client, clientVars
<1>5. ASSUME NEW c \in Client, CallWaker(c) PROVE WakeInv'
    BY <1>5 DEF CallWaker, WakeInv, WakeOk, Client, clientVars
<1>6. ASSUME NEW b \in Conns, BackendSends(b) \/ BackendEnds(b) \/ \E a \in answers : BackendAnswers(b, a)
      PROVE  WakeInv'
    BY <1>6 DEF BackendSends, BackendEnds, BackendAnswers, WakeInv, WakeOk, Client, clientVars, drainVars
<1>7. CASE Drain
    BY <1>7 DEF Drain, WakeInv, WakeOk, Client, clientVars
<1> QED  BY <1>1, <1>2, <1>3, <1>4, <1>5, <1>6, <1>7 DEF HttpNext

\* However a drain races the tasks that go idle, none of any number of
\* connections is left parked once its waker was called (worker.rs,
\* DrainWatch::wait, wake_by_ref and arm).
THEOREM WakeupCorrect == HttpSpec => []NoLostWakeup
<1>1. WakeInv => NoLostWakeup
    BY DEF WakeInv, WakeOk, NoLostWakeup
<1> QED  BY <1>1, WakeInvInit, WakeInvStep, PTL DEF HttpSpec
=============================================================================

------------------------------ MODULE SyncTrust ------------------------------
(***************************************************************************)
(* Whom a data plane believes: the controller CA every replica loads or    *)
(* creates and publishes (src/src/kubernetes/controller/ca.rs), the signed *)
(* answers of the sync endpoint (src/src/sync/signed.rs,                   *)
(* controller/server.rs), and the client that polls it directly or through *)
(* the apiserver's service proxy (src/src/dataplane/remote.rs).            *)
(*                                                                         *)
(* Every apiserver call is a step of its own and may fail; the create of   *)
(* the Secret may take effect and its answer be lost.  Behind the proxy an *)
(* answer may be delayed past its poll or come twice.  A signature is the  *)
(* CA its leaf chains to and the message signed; a leaf re-issued under    *)
(* the same CA verifies alike.  seen, sawGone and since are there for the  *)
(* properties.                                                             *)
(***************************************************************************)
EXTENDS Integers, FiniteSets

CONSTANTS
    Controller,     \* controller replicas
    TrustWorlds     \* bound: [up, proxied, bad, deletes, stops, fails, polls,
                    \* edits, nonces]: how a behaviour starts, and what it may use

ASSUME TrustAssumption ==
    /\ Controller # {} /\ "nobody" \notin Controller
    /\ TrustWorlds \subseteq [up : BOOLEAN, proxied : BOOLEAN, bad : SUBSET {-1}, deletes : Nat, stops : Nat,
                             fails : Nat, polls : Nat, edits : Nat, nonces : Nat]

VARIABLES
    uses,       \* what is left of the world's bounds
    caSecret,   \* the CA in the Secret, NoCa or BadCa
    caMap,      \* the CA the ConfigMap publishes, or NoCa
    drawn,      \* CAs generated so far
    rep,        \* replica -> [pc, ca, since]
    head,       \* the replica that leads, or Nobody
    cfg,        \* the version a publish makes; 0: the Gateway is gone
    hub,        \* replica -> the version it serves, 0 while none
    open,       \* requests at the sync endpoint
    wire,       \* answers on their way
    client      \* the data plane's client: [root, conn, have, poll, nonce, took]

trustVars == <<uses, caSecret, caMap, drawn, rep, head, cfg, hub, open, wire, client>>
caState   == <<caSecret, caMap, drawn>>
pollState == <<head, cfg, hub, open, wire, client>>

NoCa   == 0
BadCa  == -1
Nobody == "nobody"
NoPoll == [nonce |-> 0, have |-> 0, leaving |-> FALSE, seen |-> {}, sawGone |-> FALSE]
Naught == [kind |-> "none", over |-> 0, ca |-> NoCa, own |-> FALSE, of |-> NoPoll]
Off    == [pc |-> "off", ca |-> NoCa, since |-> FALSE]
Runs(r) == rep[r].pc = "up"

SpendUse(what) == uses[what] > 0 /\ uses' = [uses EXCEPT ![what] = @ - 1]

-----------------------------------------------------------------------------
\* load_or_create and publish, one replica.

At(r, pc)     == rep[r].pc = pc
Goes(r, pc)   == rep' = [rep EXCEPT ![r].pc = pc]
Holds(r, ca, fresh) ==
    \* ControllerCa::new refuses a key and certificate that do not match.
    rep' = [rep EXCEPT ![r] = IF ca = BadCa THEN Off
                              ELSE [pc |-> "mapGet", ca |-> ca, since |-> fresh]]

StartReplica(r) == At(r, "off") /\ Goes(r, "get") /\ UNCHANGED <<uses, caState, pollState>>

GetSecret(r) ==
    /\ At(r, "get")
    /\ IF caSecret = NoCa THEN Goes(r, "create") ELSE Holds(r, caSecret, TRUE)
    /\ UNCHANGED <<uses, caState, pollState>>

\* A bug: the replica that lost the race serves the CA it generated.
CreateOwn(r) ==
    /\ At(r, "create")
    /\ drawn' = drawn + 1
    /\ caSecret' = IF caSecret = NoCa THEN drawn' ELSE caSecret
    /\ Holds(r, drawn', TRUE)
    /\ UNCHANGED <<uses, caMap, pollState>>

\* generate and create; on a 409 another replica was first.
CreateSecret(r) ==
    /\ At(r, "create")
    /\ drawn' = drawn + 1
    /\ IF caSecret = NoCa
       THEN caSecret' = drawn' /\ Holds(r, drawn', TRUE)
       ELSE caSecret' = caSecret /\ Goes(r, "reget")
    /\ UNCHANGED <<uses, caMap, pollState>>

\* The Secret is created, the answer lost: the load starts over.
CreateUnanswered(r) ==
    /\ At(r, "create") /\ caSecret = NoCa /\ SpendUse("fails")
    /\ drawn' = drawn + 1 /\ caSecret' = drawn'
    /\ Goes(r, "get")
    /\ UNCHANGED <<caMap, pollState>>

RegetSecret(r) ==
    /\ At(r, "reget")
    /\ IF caSecret = NoCa THEN Goes(r, "get") ELSE Holds(r, caSecret, TRUE)
    /\ UNCHANGED <<uses, caState, pollState>>

\* publish: what the ConfigMap has decides.
GetMap(r) ==
    /\ At(r, "mapGet") \/ At(r, "mapReget")
    /\ Goes(r, CASE caMap = rep[r].ca -> "up"
                 [] caMap = NoCa      -> IF At(r, "mapReget") THEN "get" ELSE "mapCreate"
                 [] OTHER             -> "mapPatch")
    /\ UNCHANGED <<uses, caState, pollState>>

CreateMap(r) ==
    /\ At(r, "mapCreate")
    /\ IF caMap = NoCa THEN caMap' = rep[r].ca /\ Goes(r, "up")
       ELSE caMap' = caMap /\ Goes(r, "mapReget")
    /\ UNCHANGED <<uses, caSecret, drawn, pollState>>

PatchMap(r) ==
    /\ At(r, "mapPatch")
    /\ caMap' = rep[r].ca /\ Goes(r, "up")
    /\ UNCHANGED <<uses, caSecret, drawn, pollState>>

\* load_ca: an apiserver error starts the load over.
LoadFails(r) ==
    /\ rep[r].pc \notin {"off", "get", "up"} /\ SpendUse("fails")
    /\ rep' = [rep EXCEPT ![r] = [Off EXCEPT !.pc = "get"]]
    /\ UNCHANGED <<caState, pollState>>

\* The rotation docs/deployment.md describes: someone deletes the Secret.
DeleteSecret ==
    /\ caSecret # NoCa /\ SpendUse("deletes")
    /\ caSecret' \in {NoCa} \cup uses.bad
    /\ rep' = [r \in Controller |-> [rep[r] EXCEPT !.since = FALSE]]
    /\ UNCHANGED <<caMap, drawn, pollState>>

\* A replica stops at any point; what it held goes with it.
StopReplica(r) ==
    /\ rep[r].pc # "off" /\ SpendUse("stops")
    /\ rep' = [rep EXCEPT ![r] = Off]
    /\ head' = IF head = r THEN Nobody ELSE head
    /\ hub' = [hub EXCEPT ![r] = 0]
    /\ open' = {q \in open : q.at # r}
    /\ client' = IF client.conn = r THEN [client EXCEPT !.conn = Nobody, !.poll = NoPoll]
                 ELSE client
    /\ UNCHANGED <<caState, cfg, wire>>

-----------------------------------------------------------------------------
\* The leader and what it serves.

\* What a poll under way may truthfully be told.
Watched(h, g) ==
    IF client.poll = NoPoll THEN client
    ELSE [client EXCEPT !.poll.seen = @ \cup h, !.poll.sawGone = @ \/ g]

Lead(r) ==
    /\ head = Nobody /\ Runs(r) /\ cfg > 0 /\ uses.polls > 0
    /\ head' = r
    /\ client' = Watched({hub[r]}, FALSE)
    /\ UNCHANGED <<uses, caState, rep, cfg, hub, open, wire>>

PublishVersion ==
    /\ head # Nobody /\ cfg > 0 /\ hub[head] # cfg
    /\ hub' = [hub EXCEPT ![head] = cfg]
    /\ client' = Watched({cfg}, FALSE)
    /\ UNCHANGED <<uses, caState, rep, head, cfg, open, wire>>

EditConfig ==
    /\ cfg > 0 /\ SpendUse("edits")
    /\ cfg' = cfg + 1
    /\ UNCHANGED <<caState, rep, head, hub, open, wire, client>>

DeleteGateway ==
    /\ cfg > 0 /\ head # Nobody /\ SpendUse("edits")
    /\ cfg' = 0
    /\ client' = Watched({}, TRUE)
    /\ UNCHANGED <<caState, rep, head, hub, open, wire>>

-----------------------------------------------------------------------------
\* Signed: the message is the kind, the nonce and the body or version.

MessageUnbound(kind, nonce, over) == <<kind, 0, over>>
Message(kind, nonce, over)        == <<kind, nonce, over>>

Signed(q, kind, over) ==
    [kind |-> kind, to |-> q.nonce, over |-> over,
     ca |-> rep[q.at].ca, msg |-> Message(kind, q.nonce, over)]
Unsigned(q, kind) ==
    [kind |-> kind, to |-> q.nonce, over |-> 0, ca |-> NoCa, msg |-> <<>>]

Answer(q, a) == open' = open \ {q} /\ wire' = wire \cup {a}

\* handle: not the leader, refused by authentication, or by the body slot of
\* a pod that has one.
TurnAway(q) ==
    /\ q.pc = "new"
    /\ Answer(q, Unsigned(q, IF q.at # head THEN "standby" ELSE "refused"))
    /\ UNCHANGED <<uses, caState, rep, head, cfg, hub, client>>

StartBody(q) ==
    /\ q.pc = "new" /\ q.at = head
    /\ \A o \in open : o.pc # "body"
    /\ open' = (open \ {q}) \cup {[q EXCEPT !.pc = "body"]}
    /\ UNCHANGED <<uses, caState, rep, head, cfg, hub, wire, client>>

\* The request is read: gone, taken leave of, or held.
ReadBody(q) ==
    /\ q.pc = "body"
    /\ \/ cfg = 0 /\ Answer(q, Signed(q, "gone", 0))
       \/ cfg > 0 /\ q.leaving /\ Answer(q, Signed(q, "leave", 0))
       \/ cfg > 0 /\ ~q.leaving
          /\ open' = {IF o = q THEN [q EXCEPT !.pc = "held"] ELSE o : o \in open}
          /\ wire' = wire
    /\ UNCHANGED <<uses, caState, rep, head, cfg, hub, client>>

\* held and served: at once, when a version comes, or when the hold is over
\* or superseded.
AnswerPoll(q) ==
    /\ q.pc = "held"
    /\ Answer(q, IF cfg = 0 THEN Signed(q, "gone", 0)
                 ELSE IF hub[q.at] = 0 THEN Signed(q, "pending", 0)
                 ELSE IF hub[q.at] = q.have THEN Signed(q, "unchanged", q.have)
                 ELSE Signed(q, "snapshot", hub[q.at]))
    /\ UNCHANGED <<uses, caState, rep, head, cfg, hub, client>>

-----------------------------------------------------------------------------
\* The client.

\* The data plane starts with the CA the leader rendered for it, or with the
\* one the ConfigMap publishes.
StartClient(ca) ==
    /\ ca # NoCa /\ client.root # ca /\ client.nonce < uses.nonces
    /\ client' = [root |-> ca, conn |-> Nobody, have |-> 0, poll |-> NoPoll,
                  nonce |-> client.nonce, took |-> Naught]
    /\ open' = {q \in open : uses.proxied}
    /\ UNCHANGED <<uses, caState, rep, head, cfg, hub, wire>>

\* A connection is kept, or dialled: direct TLS takes the CA's leaf only.
Reaches(r) ==
    /\ Runs(r)
    /\ IF uses.proxied THEN TRUE
       ELSE IF client.conn # Nobody THEN client.conn = r ELSE rep[r].ca = client.root

SendPoll(r, leaving) ==
    /\ client.root # NoCa /\ client.poll = NoPoll /\ Reaches(r) /\ SpendUse("polls")
    /\ client' = [client EXCEPT
                    !.nonce = @ + 1, !.took = Naught,
                    !.conn = IF uses.proxied THEN Nobody ELSE r,
                    !.poll = [nonce |-> client.nonce + 1, have |-> client.have,
                              leaving |-> leaving,
                              seen |-> IF head = Nobody THEN {} ELSE {hub[head]},
                              sawGone |-> cfg = 0]]
    /\ open' = open \cup {[nonce |-> client.nonce + 1, at |-> r, have |-> client.have,
                           leaving |-> leaving, pc |-> "new"]}
    /\ UNCHANGED <<caState, rep, head, cfg, hub, wire>>

\* AnswerVerifier::verify.
Verified(a, kind, over) ==
    a.ca = client.root /\ a.msg = Message(kind, client.poll.nonce, over)

\* exchange: what an answer is taken for, by its status and its signature.
TakenFor(a) ==
    CASE a.kind = "snapshot" -> IF Verified(a, "snapshot", a.over) THEN "snapshot" ELSE "unverified"
      [] a.kind = "gone"     -> IF Verified(a, "gone", 0) THEN "gone" ELSE "unverified"
      [] a.kind \in {"unchanged", "pending", "leave"} ->
             IF client.poll.leaving
             THEN IF Verified(a, "leave", 0) THEN "leave" ELSE "unverified"
             ELSE CASE Verified(a, "unchanged", client.poll.have) -> "unchanged"
                    [] Verified(a, "pending", 0)                  -> "pending"
                    [] OTHER                                      -> "unverified"
      [] OTHER -> a.kind

\* Directly, an answer is its poll's; through the proxy, any on the wire.
ReceiveAnswer(a) ==
    /\ client.poll # NoPoll
    /\ uses.proxied \/ a.to = client.poll.nonce
    /\ wire' = IF uses.proxied THEN wire ELSE wire \ {a}
    /\ client' = [client EXCEPT
                    !.took = [kind |-> TakenFor(a), over |-> a.over, ca |-> a.ca,
                              own |-> a.to = client.poll.nonce, of |-> client.poll],
                    !.have = IF TakenFor(a) = "snapshot" THEN a.over ELSE @,
                    !.poll = NoPoll,
                    !.conn = IF TakenFor(a) \in {"snapshot", "unchanged", "pending", "leave", "gone"}
                             THEN @ ELSE Nobody]
    /\ UNCHANGED <<uses, caState, rep, head, cfg, hub, open>>

\* Twice the hold passes: the poll is given up, and its connection with it.
GiveUpPoll ==
    /\ client.poll # NoPoll
    /\ client' = [client EXCEPT !.poll = NoPoll, !.conn = Nobody]
    /\ open' = IF uses.proxied THEN open ELSE {q \in open : q.nonce # client.poll.nonce}
    /\ wire' = IF uses.proxied THEN wire ELSE {a \in wire : a.to # client.poll.nonce}
    /\ UNCHANGED <<uses, caState, rep, head, cfg, hub>>

-----------------------------------------------------------------------------
TrustInit ==
    /\ uses \in TrustWorlds
    /\ caSecret = IF uses.up THEN 1 ELSE NoCa
    /\ caMap = caSecret /\ drawn = caSecret
    /\ rep = [r \in Controller |->
                  IF uses.up THEN [pc |-> "up", ca |-> 1, since |-> TRUE] ELSE Off]
    /\ head = Nobody /\ cfg = 1 /\ hub = [r \in Controller |-> 0]
    /\ open = {} /\ wire = {}
    /\ client = [root |-> NoCa, conn |-> Nobody, have |-> 0, poll |-> NoPoll, nonce |-> 0,
                 took |-> Naught]

TrustNext ==
    \/ \E r \in Controller :
           \/ StartReplica(r) \/ GetSecret(r) \/ CreateSecret(r) \/ CreateUnanswered(r)
           \/ RegetSecret(r) \/ GetMap(r) \/ CreateMap(r) \/ PatchMap(r)
           \/ LoadFails(r) \/ StopReplica(r) \/ Lead(r)
    \/ DeleteSecret \/ PublishVersion \/ EditConfig \/ DeleteGateway
    \/ \E q \in open : TurnAway(q) \/ StartBody(q) \/ ReadBody(q) \/ AnswerPoll(q)
    \/ head # Nobody /\ StartClient(rep[head].ca)
    \/ StartClient(caMap)
    \/ \E r \in Controller, leaving \in BOOLEAN : SendPoll(r, leaving)
    \/ \E a \in wire : ReceiveAnswer(a)
    \/ GiveUpPoll

TrustSpec == TrustInit /\ [][TrustNext]_trustVars

-----------------------------------------------------------------------------
(***************************************************************************)
(* One authority: replicas that loaded the CA since the Secret was last    *)
(* deleted all serve the one it holds, whoever created it and whatever     *)
(* calls failed on the way; and once every replica has, it is the one the  *)
(* ConfigMap publishes to Unmanaged data planes, however a replica of the  *)
(* former CA was stopped in its own publish.                               *)
(***************************************************************************)
OneAuthority ==
    /\ \A r \in Controller : Runs(r) /\ rep[r].since => rep[r].ca = caSecret
    /\ (\A r \in Controller : Runs(r) /\ rep[r].since) => caMap = caSecret

(***************************************************************************)
(* A data plane is told the truth of its own poll: a snapshot, an          *)
(* "unchanged", a "pending" or a "gone" it takes states what the leader    *)
(* served at some time since that poll was sent, and a "leave" answers a   *)
(* poll that left, although answers are delayed, repeated and overtaken.   *)
(* What the replica of its own CA answered its poll is never refused.      *)
(***************************************************************************)
ToldTheTruth ==
    LET took == client.took IN
    /\ took.kind = "snapshot"  => took.over \in took.of.seen
    /\ took.kind = "unchanged" => took.of.have \in took.of.seen /\ took.of.have > 0
    /\ took.kind = "pending"   => 0 \in took.of.seen
    /\ took.kind = "gone"      => took.of.sawGone
    /\ took.kind = "leave"     => took.of.leaving
    /\ took.kind = "unverified" => ~took.own \/ took.ca # client.root

\* All replicas come to one CA, and a data plane believes of an answer only
\* what the leader said to that poll: through lost creates, replicas that
\* stop midway, and answers late or repeated (ca.rs, load_or_create and
\* publish; signed.rs, AnswerVerifier; remote.rs, exchange).
TrustHolds == OneAuthority /\ ToldTheTruth
=============================================================================

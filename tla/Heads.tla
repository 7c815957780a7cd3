-------------------------------- MODULE Heads --------------------------------
(***************************************************************************)
(* The heads of an HTTP exchange: the request head as the proxy reads it   *)
(* (src/src/proxy/http_parser.rs), as it is assembled for the backend and  *)
(* changed by the filters of a rule (src/src/proxy/http_filters.rs), and   *)
(* the response head on its way back (src/src/proxy/worker.rs).            *)
(*                                                                         *)
(* A head is its request or status line and a sequence of lines, each with *)
(* a name, a value, whether its bytes are those of a field and whether its *)
(* value is UTF-8 text (the parser takes any byte past 0x80). A line that  *)
(* must not travel is cut by a span the parser recorded, or, when there    *)
(* are too many of them, found again by its name.                          *)
(***************************************************************************)
EXTENDS Integers, FiniteSets, Sequences, SequencesExt, FiniteSetsExt

CONSTANTS
    RequestHeads,   \* what clients send
    StreamHeads,    \* what h2 clients send
    ResponseHeads,  \* what backends answer
    RuleFilters,    \* the filters of the rules the check accepts
    MaxStripSpans   \* lines the parser can record

VARIABLES
    head,      \* the head read
    filters,   \* the filters of the rule that takes the request
    headStage, \* how far it has come
    out        \* the head as it will be written

headVars == <<head, filters, headStage, out>>

NoHead == [path |-> <<>>, lines |-> <<>>]

-----------------------------------------------------------------------------
(* Lines by name. *)

Line(name, value, from) ==
    [name |-> name, value |-> value, from |-> from, ok |-> TRUE, text |-> TRUE, bareLf |-> FALSE]
Named(lines, name) == {i \in DOMAIN lines : lines[i].name = name}
Values(lines, name) == {lines[i].value : i \in Named(lines, name)}

\* One name of each class that the code treats alike.
ForwardingClaims == {"x-forwarded-host", "x-forwarded-proto"}
ParserStrips     == {"connection", "keep-alive", "te", "expect", "http2-settings"} \cup ForwardingClaims
HopByHopNoClaims == {"connection", "keep-alive", "te", "expect", "http2-settings"}
HopByHopRequest  == {"connection", "keep-alive", "te", "expect", "http2-settings"} \cup ForwardingClaims
HopByHopResponse == {"connection", "keep-alive", "te", "upgrade"}
RequestFraming   == {"content-length", "transfer-encoding", "connection", "keep-alive", "te",
                     "upgrade", "expect", "http2-settings"}
ResponseFraming  == {"content-length", "transfer-encoding", "connection", "keep-alive", "upgrade"}

-----------------------------------------------------------------------------
(* extract_routing_info. *)

Nominated(h) == UNION Values(h.lines, "connection")
Pinned3      == {"content-length", "transfer-encoding", "host"}

TargetRefused(h) ==
    \/ h.method = "CONNECT" \/ h.form = "other"
    \/ h.form = "asterisk" /\ h.method # "OPTIONS"
    \/ h.form = "absolute" /\ h.authority \in {"", "bad"}

\* The host that routing reads: Host, or the target's where an HTTP/1.0
\* client sent none.
HostOf(h) ==
    IF Named(h.lines, "host") # {} THEN CHOOSE v \in Values(h.lines, "host") : TRUE
    ELSE IF h.form = "absolute" THEN h.authority ELSE ""

HostRefused(h) ==
    \/ Cardinality(Named(h.lines, "host")) > 1 \/ HostOf(h) = "bad"
    \/ h.version = 11 /\ (Named(h.lines, "host") = {} \/ HostOf(h) = "")
    \/ h.form = "absolute" /\ h.authority # HostOf(h)

FramingRefused(h) ==
    LET length == Named(h.lines, "content-length")
        coding == Named(h.lines, "transfer-encoding")
    IN  \/ Cardinality(length) > 1 \/ "bad" \in Values(h.lines, "content-length")
        \/ Cardinality(coding) > 1 \/ Values(h.lines, "transfer-encoding") \ {"chunked"} # {}
        \/ coding # {} /\ (length # {} \/ h.version = 10)
        \/ Nominated(h) \cap Pinned3 # {}

HeaderViolation(h) ==
    \/ TargetRefused(h) \/ HostRefused(h) \/ FramingRefused(h)
    \/ \E i \in DOMAIN h.lines : ~h.lines[i].ok

\* normalize_path: dot segments are resolved, a trailing one leaves an empty
\* segment; one with parameters refuses the request.
DotSegments == {".", ".."}
HasDots(path) == \E i \in DOMAIN path : path[i] \in DotSegments
DotParams(path) == \E i \in DOMAIN path : path[i] = "..;x"
RemoveDotSegments(path) ==
    LET step(kept, seg) == IF seg = "." THEN kept
                           ELSE IF seg # ".." THEN Append(kept, seg)
                           ELSE IF kept = <<>> THEN <<>> ELSE Front(kept)
        kept == FoldLeft(step, <<>>, path)
    IN  IF Last(path) \in DotSegments THEN Append(kept, "") ELSE kept
NormalizePath(path) == IF HasDots(path) THEN RemoveDotSegments(path) ELSE path

\* The path of the target: the root where an absolute form has none.
TargetPath(h) == IF h.path = <<>> /\ h.form = "absolute" THEN <<"">> ELSE h.path

\* An h2c offer is stripped like any hop-by-hop line.
Stripped(h) ==
    {i \in DOMAIN h.lines : h.lines[i].name \in ParserStrips
                            \/ (h.lines[i].name = "upgrade" /\ h.lines[i].value = "h2c")}
UpgradeLines(h) == {i \in Named(h.lines, "upgrade") : h.lines[i].value # "h2c"}

IsUpgrade(h) ==
    /\ UpgradeLines(h) # {} /\ "upgrade" \in Nominated(h) /\ "h2c" \notin Values(h.lines, "upgrade")

\* What the spans cannot do: an Upgrade line too many, a nominated header, a
\* line past the last span.
NeedsSlowPath(h) ==
    \/ Cardinality(Stripped(h)) > MaxStripSpans
    \/ Cardinality(UpgradeLines(h)) > 1
    \/ Nominated(h) \ {"close", "keep-alive", "upgrade", "http2-settings"} # {}

-----------------------------------------------------------------------------
(* The head that the backend gets. *)

\* OriginForm: an absolute target leaves in origin form, its authority in
\* place of the Host line.
Lines(h, kept) ==
    LET copy(i) == IF i \notin kept THEN <<>>
                   ELSE IF h.form = "absolute" /\ h.lines[i].name = "host"
                   THEN <<Line("host", h.authority, "proxy")>> ELSE <<h.lines[i]>>
    IN  FlattenSeq([i \in DOMAIN h.lines |-> copy(i)])

AppendForwardHeaders(h) ==
    <<Line("x-forwarded-for", "peer", "proxy"), Line("x-forwarded-proto", "http", "proxy")>>
    \o (IF IsUpgrade(h) THEN <<Line("connection", {"upgrade"}, "proxy")>> ELSE <<>>)
    \o (IF h.form = "absolute" /\ Named(h.lines, "host") = {}
        THEN <<Line("host", h.authority, "proxy")>> ELSE <<>>)

\* By the spans: the recorded lines, and the one Upgrade line.
FastLines(h) ==
    LET span == {i \in Stripped(h) : Cardinality({j \in Stripped(h) : j <= i}) <= MaxStripSpans}
        up   == IF UpgradeLines(h) = {} \/ IsUpgrade(h) THEN {} ELSE {Max(UpgradeLines(h))}
    IN  Lines(h, DOMAIN h.lines \ (span \cup up)) \o AppendForwardHeaders(h)

\* header_value_if: the names of a Connection line that is UTF-8 text.
Collected(h) == UNION {h.lines[i].value : i \in {j \in Named(h.lines, "connection") : h.lines[j].text}}

\* By name: the lines whose names were collected go too.
SlowLines(h) ==
    LET cut(name) == IF name = "upgrade" THEN ~IsUpgrade(h)
                     ELSE name \in HopByHopRequest \/ name \in Collected(h) \ Pinned3
    IN  Lines(h, {i \in DOMAIN h.lines : ~cut(h.lines[i].name)}) \o AppendForwardHeaders(h)

Assembled(h) ==
    [h EXCEPT !.form = IF h.form = "absolute" THEN "origin" ELSE h.form, !.authority = "",
              !.path = IF h.form = "absolute" \/ HasDots(h.path) THEN NormalizePath(TargetPath(h)) ELSE h.path,
              !.lines = IF NeedsSlowPath(h) THEN SlowLines(h) ELSE FastLines(h)]

-----------------------------------------------------------------------------
(* Filters. A modification sets, adds and removes lines by name. *)

NoMods == [set |-> <<>>, add |-> <<>>, remove |-> {}, host |-> "none", path |-> <<>>, mode |-> "keep"]

\* wire.rs: what a filter may not touch.
ModsRefused(m, framing) ==
    LET names == ToSet(m.set) \cup ToSet(m.add) \cup m.remove
    IN  names \cap framing # {} \/ (framing = RequestFraming /\ "host" \in ToSet(m.add) \cup m.remove)
        \/ (framing = RequestFraming /\ Cardinality({i \in DOMAIN m.set : m.set[i] = "host"}) > 1)

\* URLRewrite and the modifier of one rule would each write a Host line.
RuleRefused(f) ==
    \/ ModsRefused(f.rule, RequestFraming) \/ ModsRefused(f.backend, RequestFraming)
    \/ ModsRefused(f.answer, ResponseFraming)
    \/ f.rule.host # "none" /\ "host" \in ToSet(f.rule.set)

\* apply_header_mods_inner, line by line, then what found no line.
ApplyMods(lines, m) ==
    LET one(i) == LET l == lines[i]
                  IN  IF m.host # "none" /\ l.name = "host" THEN <<Line("host", m.host, "filter")>>
                      ELSE IF l.name \in m.remove THEN <<>>
                      ELSE IF l.name \in ToSet(m.set) THEN <<Line(l.name, "f", "filter")>> ELSE <<l>>
        unmet(j) == \/ Named(lines, m.set[j]) = {} \/ m.set[j] \in m.remove
                    \/ m.set[j] = "host" /\ m.host # "none"
                    \/ \E k \in 1 .. j - 1 : m.set[k] = m.set[j]
        missing  == FlattenSeq([j \in DOMAIN m.set |-> IF unmet(j) THEN <<m.set[j]>> ELSE <<>>])
    IN  FlattenSeq([i \in DOMAIN lines |-> one(i)])
        \o (IF m.host # "none" /\ Named(lines, "host") = {} THEN <<Line("host", m.host, "filter")>> ELSE <<>>)
        \o [i \in DOMAIN missing |-> Line(missing[i], "f", "filter")]
        \o [i \in DOMAIN m.add |-> Line(m.add[i], "f", "filter")]

\* join_prefix_path, after the prefix the rule matched.
JoinPrefix(to, rest) ==
    LET trimmed == IF to # <<>> /\ Last(to) = "" /\ rest # <<>> THEN Front(to) ELSE to
    IN  IF trimmed \o rest = <<>> THEN <<"">> ELSE trimmed \o rest
RewrittenPath(f, path) ==
    IF f.rule.mode = "full" THEN f.rule.path
    ELSE IF f.rule.mode = "keep" THEN path
    ELSE JoinPrefix(f.rule.path,
             IF IsPrefix(f.prefix, path) THEN SubSeq(path, Len(f.prefix) + 1, Len(path)) ELSE <<>>)

-----------------------------------------------------------------------------
(* The h2 bridge: the head of a stream as the h1 head the engine reads, and *)
(* the engine's answer as the head of the stream's (h2_bridge.rs).          *)

SkipConnectionOnly(name, noBody) == name \in HopByHopNoClaims \cup {"upgrade", "transfer-encoding"}
SkipRequestHeader(name, noBody) ==
    \/ name \in HopByHopRequest \cup {"host", "upgrade", "transfer-encoding"}
    \/ noBody /\ name = "content-length"

\* The authority, or the Host line of a client that sent none; cookies split
\* over several lines become one; the bridge chooses the framing.
Authority(p) ==
    IF p.authority # "" THEN p.authority
    ELSE IF Named(p.lines, "host") # {} THEN p.lines[Min(Named(p.lines, "host"))].value ELSE ""
Expressible(p) == p.method # "CONNECT" /\ Authority(p) # ""
SynthRequestHead(p) ==
    LET cookies == Named(p.lines, "cookie")
        kept    == SelectSeq(p.lines, LAMBDA l : l.name # "cookie" /\ ~SkipRequestHeader(l.name, p.noBody))
        framing == IF p.noBody THEN <<Line("content-length", "0", "proxy")>>
                   ELSE IF Named(p.lines, "content-length") = {} THEN <<Line("transfer-encoding", "chunked", "proxy")>>
                   ELSE <<>>
    IN  [method |-> p.method, version |-> 11, form |-> IF p.path = <<"*">> THEN "asterisk" ELSE "origin",
         authority |-> "", path |-> IF p.path = <<>> THEN <<"">> ELSE p.path, parts |-> p,
         lines |-> <<Line("host", Authority(p), "proxy")>> \o kept
                   \o (IF cookies = {} THEN <<>> ELSE <<Line("cookie", "x", "proxy")>>)
                   \o <<Line("connection", {"close"}, "proxy")>> \o framing]

BridgeRequest ==
    /\ headStage = "h2"
    /\ IF Expressible(head) THEN headStage' = "request" /\ head' = SynthRequestHead(head)
       ELSE headStage' = "inexpressible" /\ UNCHANGED head
    /\ UNCHANGED <<filters, out>>

\* build_h2_response: DATA carries no coding, and a body taken out of its
\* chunks need not have the length the backend gave.
BuildH2Response(h) ==
    LET chunked == Named(h.lines, "transfer-encoding") # {}
    IN  SelectSeq(h.lines, LAMBDA l : /\ l.name \notin HopByHopResponse \cup {"transfer-encoding"}
                                      /\ ~(chunked /\ l.name = "content-length"))
BridgeAnswer ==
    /\ headStage = "replied" /\ headStage' = "h2replied"
    /\ out' = [out EXCEPT !.lines = BuildH2Response(out)]
    /\ UNCHANGED <<head, filters>>

-----------------------------------------------------------------------------
(* The way of a request. *)

ParseRequest ==
    /\ headStage = "request"
    /\ headStage' = IF HeaderViolation(head) \/ DotParams(TargetPath(head)) THEN "refused" ELSE "routed"
    /\ UNCHANGED <<head, filters, out>>

\* build_outgoing_headers, up to the filters.
AssembleHead ==
    /\ headStage = "routed"
    /\ headStage' = "assembled" /\ out' = Assembled(head)
    /\ filters' \in {f \in RuleFilters : ~RuleRefused(f)}
    /\ UNCHANGED head

FilterRule ==
    /\ headStage = "assembled"
    /\ out' = [out EXCEPT !.lines = ApplyMods(out.lines, filters.rule),
                          !.path = RewrittenPath(filters, out.path)]
    /\ headStage' = IF filters.backend = NoMods THEN "sent" ELSE "ruled"
    /\ UNCHANGED <<head, filters>>

FilterBackend ==
    /\ headStage = "ruled" /\ headStage' = "sent"
    /\ out' = [out EXCEPT !.lines = ApplyMods(out.lines, filters.backend)]
    /\ UNCHANGED <<head, filters>>

-----------------------------------------------------------------------------
(* The way of an answer. *)

\* parse_digits: leading zeros are dropped.
Digits(v) == IF v = "05" THEN "5" ELSE v

AnswerRefused(h) ==
    \/ Cardinality({Digits(v) : v \in Values(h.lines, "content-length")}) > 1 \/ "bad" \in Values(h.lines, "content-length")
    \/ Cardinality(Named(h.lines, "transfer-encoding")) > 1
    \/ Values(h.lines, "transfer-encoding") \ {"chunked"} # {}
    \/ Named(h.lines, "transfer-encoding") # {} /\ h.version = 10
    \/ \E i \in DOMAIN h.lines : ~h.lines[i].ok

KeepsLengthAlways(h) == TRUE
KeepsLength(h) == Named(h.lines, "transfer-encoding") = {}
Canonical(l) == [l EXCEPT !.from = "proxy", !.value = Digits(@)]

\* scan_regular_head records the lines to cut: hop-by-hop ones and every
\* length past the first. One too many, or a line that ends in a bare LF,
\* and the lines are split again.
AnswerCuts(h) ==
    LET lengths == Named(h.lines, "content-length")
    IN  {i \in DOMAIN h.lines : h.lines[i].name \in HopByHopResponse
                                \/ (i \in lengths /\ i # Min(lengths))}
RegularHead(h) == (\A i \in DOMAIN h.lines : ~h.lines[i].bareLf) /\ Cardinality(AnswerCuts(h)) <= MaxStripSpans

CopyAroundCuts(h) ==
    LET copy(i) == IF i \in AnswerCuts(h) THEN <<>>
                   ELSE IF h.lines[i].name # "content-length" THEN <<h.lines[i]>>
                   ELSE IF KeepsLength(h) THEN <<Canonical(h.lines[i])>> ELSE <<>>
    IN  FlattenSeq([i \in DOMAIN h.lines |-> copy(i)])

CopyLinesSanitized(h) ==
    LET step(acc, l) ==
            IF l.name = "content-length"
            THEN [lines |-> IF acc.owed THEN Append(acc.lines, Canonical(l)) ELSE acc.lines, owed |-> FALSE]
            ELSE IF l.name \in HopByHopResponse THEN acc
            ELSE [acc EXCEPT !.lines = Append(@, [l EXCEPT !.bareLf = FALSE])]
    IN  FoldLeft(step, [lines |-> <<>>, owed |-> KeepsLength(h)], h.lines).lines

ReadAnswer ==
    /\ headStage = "answer"
    /\ headStage' = IF AnswerRefused(head) THEN "refused" ELSE "read"
    /\ UNCHANGED <<head, filters, out>>

\* A connection that will close says so in a line of the proxy's own.
SanitizeAnswer ==
    /\ headStage = "read" /\ headStage' = "sanitized"
    /\ \E close \in BOOLEAN :
         out' = [head EXCEPT !.lines =
                    (IF RegularHead(head) THEN CopyAroundCuts(head) ELSE CopyLinesSanitized(head))
                    \o IF close THEN <<Line("connection", {"close"}, "proxy")>> ELSE <<>>]
    /\ filters' \in {f \in RuleFilters : ~RuleRefused(f)}
    /\ UNCHANGED head

FilterAnswer ==
    /\ headStage = "sanitized" /\ headStage' = "replied"
    /\ out' = [out EXCEPT !.lines = ApplyMods(out.lines, filters.answer)]
    /\ UNCHANGED <<head, filters>>

HeadInit ==
    /\ \/ head \in RequestHeads /\ headStage = "request"
       \/ head \in StreamHeads /\ headStage = "h2"
       \/ head \in ResponseHeads /\ headStage = "answer"
    /\ filters = NoMods /\ out = NoHead

HeadNext ==
    \/ ParseRequest \/ AssembleHead \/ FilterRule \/ FilterBackend
    \/ ReadAnswer \/ SanitizeAnswer \/ FilterAnswer \/ BridgeRequest \/ BridgeAnswer

HeadSpec == HeadInit /\ [][HeadNext]_headVars

-----------------------------------------------------------------------------
(* Properties. *)

Framing(lines) == {<<lines[i].name, Digits(lines[i].value)>> :
                      i \in Named(lines, "content-length") \cup Named(lines, "transfer-encoding")}
FromPeer(lines, names) == {i \in DOMAIN lines : lines[i].from = "peer" /\ lines[i].name \in names}

\* A stream of the h2 bridge, as the engine reads it.
Replayed ==
    headStage \in {"routed", "refused"} /\ "parts" \in DOMAIN head =>
        /\ ~HeaderViolation(head) /\ HostOf(head) = Authority(head.parts)
        /\ Framing(head.lines) =
              {IF head.parts.noBody THEN <<"content-length", "0">>
               ELSE IF Named(head.parts.lines, "content-length") # {} THEN <<"content-length", "5">>
               ELSE <<"transfer-encoding", "chunked">>}
        /\ Cardinality(Named(head.lines, "cookie")) = IF Named(head.parts.lines, "cookie") = {} THEN 0 ELSE 1

\* The head a backend gets reads as the one that was routed: whatever path
\* assembled it and whatever filters changed it, a parser as strict as the
\* proxy's accepts it, with the same framing, one host (the client's unless a
\* filter set another), the path that was matched unless a rewrite replaced
\* it, an upgrade exactly if the client asked for one, and none of the lines
\* that the client may not send or that a Connection line of text took back
\* (the names on one that is not text are not read, see the README). The
\* head the h2 bridge writes for a stream is one the proxy takes, with the
\* stream's authority and one framing: no stream is refused for its replay.
OneReading ==
    /\ Replayed
    /\ headStage = "sent" =>
        /\ ~HeaderViolation(out)
        /\ Framing(out.lines) = Framing(head.lines)
        /\ (\A i \in Named(out.lines, "host") : out.lines[i].from # "filter") => HostOf(out) = HostOf(head)
        /\ ~HasDots(out.path) /\ (filters.rule.mode = "keep" => out.path = NormalizePath(TargetPath(head)))
        /\ IsUpgrade(out) = IsUpgrade(head) /\ (UpgradeLines(out) # {} => IsUpgrade(head))
        /\ FromPeer(out.lines, ParserStrips \cup (Collected(head) \ {"upgrade"})) = {}

\* The head a client gets frames the body as the proxy read it, with one
\* length at most and none beside a coding; no line about the backend's own
\* connection reaches it, whether the lines were cut or split again. On an h2
\* stream no line about any connection is left, and a length only for a body
\* that keeps its bytes.
AnswerFramed ==
    /\ headStage = "h2replied" =>
        /\ \A i \in DOMAIN out.lines : out.lines[i].name \notin HopByHopResponse
        /\ Framing(out.lines) = IF Named(head.lines, "transfer-encoding") = {} THEN Framing(head.lines) ELSE {}
    /\ headStage = "replied" =>
        /\ ~AnswerRefused(out) /\ Cardinality(Named(out.lines, "content-length")) <= 1
        /\ Framing(out.lines) = IF Named(head.lines, "transfer-encoding") = {} THEN Framing(head.lines)
                                ELSE {<<"transfer-encoding", "chunked">>}
        /\ FromPeer(out.lines, HopByHopResponse) = {}

\* Both heads the proxy writes are read by their receivers as it read the
\* ones it was sent: the request's (OneReading) and the answer's
\* (AnswerFramed), over HTTP/1 and over the h2 bridge (worker.rs,
\* http_parser.rs, http_filters.rs, h2_bridge.rs).
HeadsReadAlike == OneReading /\ AnswerFramed
=============================================================================

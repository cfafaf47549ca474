----------------------------- MODULE MCAlgorithms -----------------------------
(* The algorithms that work on values: payload plans, redaction, the passive   *)
(* scanner, the archive and the encodings, the site map, comparison, proof and *)
(* token analysis; and the frames of a WebSocket, parsed from chunks cut       *)
(* anywhere.  A behavior is of one part: the plan of a variation job carried   *)
(* out step by step, one connection, or one input of another part.             *)
EXTENDS Payloads, PassiveScan, Archive, Codec, SiteMap, Proof, Sequencer, WebSocketTunnel

VARIABLES part, subject

-----------------------------------------------------------------------------
(* Payloads. *)

x == <<"x", 0>>
w == <<"w", 0>>
m1 == <<"m", 1>>
m2 == <<"m", 2>>

MCStructural == <<<<>>, <<x>>, <<w>>>>

ListOf(values) == [kind |-> "list", values |-> values]
RangeOf(from, to, step) == [kind |-> "range", from |-> from, to |-> to, step |-> step]

MCSources == {ListOf(<<>>), ListOf(<<<<x>>, <<w>>>>), ListOf(<<<<m2>>>>),
              ListOf(<<<<w, x>>, <<>>, <<x>>>>), RangeOf(1, 3, 1), RangeOf(2, -1, -2),
              RangeOf(1, 2, -1), RangeOf(1, 2, 0), [kind |-> "builtin"], [kind |-> "other"]}

At(marker, source, base) == [marker |-> marker, source |-> source, baseValue |-> base]

Atom(kind, quant) == [kind |-> kind, quant |-> quant, body |-> <<>>]
GroupOf(body, quant) == [kind |-> "group", quant |-> quant, body |-> body]

MCItems == {Atom("a", q) : q \in {"", "?", "*"}} \cup {Atom("escape", "*"), Atom("class", "+")}
MCGroups == {GroupOf(body, q) : body \in {<<i>> : i \in MCItems} \cup {<<i, Atom("a", "")>> : i \in MCItems},
                                q \in {"", "?", "+"}}
MCTrees == {GroupOf(<<g, i>>, q) : g \in MCGroups, i \in {Atom("a", ""), Atom("a", "*")},
                                   q \in {"", "?", "{2}", "{2,}"}}
           \cup {GroupOf(<<GroupOf(<<g>>, p)>>, q) : g \in MCGroups, p \in {"", "?", "*"}, q \in {"", "*"}}

MCPlan(mode, raw, positions, max, patterns) ==
    [mode |-> mode, raw |-> raw, positions |-> positions, maxRequests |-> max, patterns |-> patterns]

Modes == {"sniper", "batteringram", "pitchfork", "clusterbomb"}

MCPlans ==
    {MCPlan(mode, raw, <<At(m1, s1, b), At(m2, s2, <<x>>)>>, max, {}) :
        mode \in Modes, raw \in {<<m1, x, m2>>, <<m1, m2, m1>>},
        s1 \in MCSources, s2 \in MCSources, b \in {<<>>, <<w>>}, max \in {3, 9}}
    \cup {MCPlan("clusterbomb", <<m1, m2>>, <<At(m1, RangeOf(1, 2, 1), <<>>),
             At(m2, ListOf(<<<<x>>, <<w>>>>), <<>>), At(m, RangeOf(5, 6, 1), <<>>)>>, 9, {}) :
             m \in {m1, <<"m", 3>>}}
    \cup {MCPlan("clusterbomb", <<m1, m2, <<"m", 3>>>>, <<At(m1, RangeOf(1, 2, 1), <<>>),
             At(m2, ListOf(<<<<x>>, <<w>>>>), <<>>), At(<<"m", 3>>, RangeOf(5, 6, 1), <<>>)>>, 9, {})}
    \cup {MCPlan("sniper", <<m1>>, <<At(m1, RangeOf(1, 1, 1), <<>>)>>, 9, {tree}) : tree \in MCTrees}
    \cup {MCPlan("sniper", <<x>>, <<>>, 9, {})}

-----------------------------------------------------------------------------
(* Redaction. *)

SwitchesOf(p, c, a) == [patterns |-> p, cookies |-> c, authorization |-> a]
Switches == {SwitchesOf(p, c, a) : p, c, a \in BOOLEAN}

MCHeaders ==
    {<<[name |-> "accept", value |-> <<"jwt", "text">>],
       [name |-> "cookie", value |-> <<<<"sid", <<"word">>>>, <<NoName, <<"jwt">>>>, <<"t", <<"jwt">>>>>>]>>,
     <<[name |-> "set-cookie", value |-> <<<<"sid", <<"jwt">>>>, <<"path", <<"root">>>>>>],
       [name |-> "authorization", value |-> <<"word">>], [name |-> "x-api-key", value |-> <<"word">>]>>}

MCUrls == {[path |-> <<"api", "jwt">>, query |-> q] :
              q \in {<<>>, <<<<"code", <<"word">>>>, <<NoName, <<"jwt">>>>, <<"q", <<"jwt", "word">>>>>>}}

MCTexts == {<<>>, <<"word", "jwt", "text">>, <<KeyBegin, "word", KeyEnd, "text", KeyBegin>>,
            <<"a", "b", KeyBegin, "word", KeyEnd>>}

Body(t, coding, packed, whole) == [t |-> t, coding |-> coding, packed |-> packed, whole |-> whole]

MCBodies == {Body(t, Plain, FALSE, TRUE) : t \in MCTexts}
            \cup {Body(t, coding, TRUE, whole) : t \in MCTexts, coding \in {"gzip", "zstd"}, whole \in BOOLEAN}

MCRedaction == {<<s, [url |-> u, headers |-> h, body |-> b]>> :
                   s \in Switches, u \in MCUrls, h \in MCHeaders, b \in MCBodies}

-----------------------------------------------------------------------------
(* The passive scanner. *)

H(name, value) == [name |-> name, value |-> value]

MCAsked == {<<>>, <<H("origin", <<"site">>), H("authorization", <<"pass">>)>>,
            <<H("cookie", <<<<"sid", <<"mine">>>>>>), H("origin", <<"*">>)>>}

MCCookies == {<<<<"sid", <<"theirs">>>>>>, <<<<NoName, <<"jwt">>>>, <<NoName, <<"secure">>>>>>,
              <<<<"sid", <<"jwt">>>>, <<NoName, <<"secure">>>>, <<NoName, <<"httponly">>>>,
                <<"samesite", <<"lax">>>>>>}

MCAnswered ==
    {<<>>, <<H("access-control-allow-origin", <<"*">>), H("server", <<"v1", "jwt">>), H("cache-control", <<"no-store">>)>>}
    \cup {<<H("set-cookie", c), H("access-control-allow-origin", o), H("access-control-allow-credentials", t),
            H("content-security-policy", p)>> :
             c \in MCCookies, o \in {<<"site">>, <<"NULL">>, <<"*">>}, t \in {<<"true">>, <<>>},
             p \in {<<>>, <<"self">>}}

MCQueries == {<<>>, <<<<"token", <<"key1">>>>, <<"q", <<"word", "jwt">>>>, <<"auth", <<"key2">>>>>>,
              <<<<"q", <<"word">>>>, <<"r", <<"text">>>>, <<"s", <<"tip">>>>, <<"auth", <<>>>>>>,
              <<<<"q", <<"word">>>>, <<"r", <<"jwt">>>>, <<"q", <<"text">>>>>>}

MCPages == {Body(<<>>, Plain, FALSE, TRUE), Body(<<"word", "jwt", "text">>, Plain, FALSE, TRUE),
            Body(<<"link", "jwt link", "link", "at f", "word", "tip">>, Plain, FALSE, TRUE),
            Body(<<"word", "jwt", "at f">>, "gzip", TRUE, TRUE), Body(<<"jwt">>, "gzip", TRUE, FALSE),
            Body(<<"a", "b", "c", "text", "jwt", "d">>, "gzip", TRUE, TRUE), Body(<<"jwt">>, "zstd", TRUE, TRUE)}

MCExchanges ==
    {[scheme |-> s, url |-> u, status |-> n, mime |-> m, asked |-> a, answered |-> r, body |-> b] :
        s \in {"http", "https"}, u \in {NoUrl} \cup {[path |-> <<"api", "jwt">>, query |-> q] : q \in MCQueries},
        n \in {200}, m \in {"text/html", "image/png"}, a \in MCAsked, r \in MCAnswered, b \in MCPages}
    \cup {[scheme |-> "https", url |-> NoUrl, status |-> n, mime |-> NoMime, asked |-> a, answered |-> r,
           body |-> Body(<<"jwt">>, Plain, FALSE, TRUE)] : n \in {0, 500}, a \in MCAsked, r \in MCAnswered}

MCShort == {<<"tip">>}
MCKeyOrder == [n \in {"auth", "token"} |-> IF n = "auth" THEN 1 ELSE 2]

-----------------------------------------------------------------------------
(* The encodings and the token analyzer. *)

MCNamed == [c \in {"&", "<", "'"} |-> CASE c = "&" -> "amp" [] c = "<" -> "lt" [] OTHER -> "#39"]
MCMeaning == [b \in {"amp", "lt", "#39", "#xd800"} |->
                 CASE b = "amp" -> "&" [] b = "lt" -> "<" [] b = "#39" -> "'" [] OTHER -> "unknown"]

UpTo(n, S) == UNION {[1..k -> S] : k \in 0..n}
MCHtml == UpTo(5, {"&", "amp", "lt", ";", "'"}) \cup UpTo(3, {"#xd800", "&", ";", "<", "x"})
MCHex == UpTo(5, {0, 10, 16, 17, 19})
MCBase64 == UpTo(6, {"A", "+", "-", "=", " "})

MCTokens == UpTo(4, UpTo(3, {0, 1}))
MCMetrics == [many : BOOLEAN, large : BOOLEAN, repeats : 0..2, bytes : 0..2, tokens : 0..2, bits : 0..2,
              neighbours : 0..2, packs : 0..2]

-----------------------------------------------------------------------------
(* The archive. *)

MCPacked == [n \in 0..9 |-> IF n = 9 THEN 4 ELSE n + 1]
Entry(path, size, says) == [path |-> path, data |-> [size |-> size, says |-> says]]

MCNameLength == [s \in {"", ".", "..", "a", "b", "e~"} |-> CASE s = "" -> 0 [] s = ".." -> 2 [] OTHER -> 1]
MCNameBytes == [s \in {"", ".", "..", "a", "b", "e~"} |-> IF s = "e~" THEN 2 ELSE MCNameLength[s]]

MCFiles == {Entry(<<"a">>, 0, "nothing"), Entry(<<"a", "e~">>, 9, "much"), Entry(<<"b">>, 3, "some"),
            Entry(<<"b">>, 9, "same"), Entry(<<"..", "a">>, 3, "up"), Entry(<<"", "a">>, 3, "root")}

MCArchives == UNION {[1..n -> MCFiles] : n \in 0..3} \cup {<<Entry(<<"a">>, 9, "x"), Entry(<<"b">>, 9, "y"),
                 Entry(<<"e~">>, 9, "z"), Entry(<<"a", "b">>, 9, "w")>>}

-----------------------------------------------------------------------------
(* The site map. *)

Row(id, host, method, path, query, params, at) ==
    [id |-> id, scheme |-> "https", host |-> host, port |-> 443, method |-> method, path |-> path,
     query |-> query, params |-> params, status |-> 200, at |-> at]

MCRows == {Row("r1", "t", "GET", "/o/1", "", {}, 2), Row("r2", "T.", "POST", "/o/1", "?id=2", {"id"}, 2),
           Row("r3", "t", "GET", "/", "?tpl=x", {"tpl"}, 1), Row("r4", "u", "GET", "/", "", {}, 1),
           Row("r5", "t", "GET", "/o/1", "?id=3", {"id"}, 1)}

Rule(host, paths, enabled) == [host |-> host, paths |-> paths, enabled |-> enabled]
MCScopes == {[include |-> i, exclude |-> e] :
    i \in {{}, {Rule("t", AnyPath, TRUE)}, {Rule("t", AnyPath, TRUE), Rule("u", AnyPath, TRUE)},
            {Rule("t", {<<"/o/1", "?id=2">>}, TRUE), Rule("u", AnyPath, FALSE)}},
    e \in {{}, {Rule("u", AnyPath, TRUE)}, {Rule("t", {<<"/", "?tpl=x">>}, TRUE)}}}

NewestFirst(h) == \A i, j \in DOMAIN h : i < j => h[i].at >= h[j].at /\ h[i] # h[j]
MCHistories == {h \in UNION {[1..n -> MCRows] : n \in 0..4} : NewestFirst(h)}

MCMaps == {<<h, scope, limit>> : h \in MCHistories, scope \in MCScopes, limit \in {1, 5}}

MCCanonical == [h \in {"t", "T.", "u"} |-> IF h = "T." THEN "t" ELSE h]
MCVocabulary == {<<"id", "access-control">>, <<"id", "injection">>, <<"tpl", "template-injection">>}
MCWords == [n \in {"id", "tpl", "/", "/o/1"} |-> IF n \in {"id", "tpl"} THEN {n} ELSE {}]

-----------------------------------------------------------------------------
(* Comparison and proof. *)

MCTextLines == UNION {[1..n -> {"p", "q"}] : n \in 0..4}
MCPairs == {<<a, b>> : a, b \in MCTextLines}

JAtom(v) == [is |-> "atom", v |-> [k \in {"="} |-> v]]
JObject(f) == [is |-> "object", v |-> f]
JArray(f) == [is |-> "array", v |-> f]
FunctionsOf(Domains, S) == UNION {[D -> S] : D \in Domains}

MCJsonLeaves == {JAtom("1"), JAtom("2"), JObject([k \in {} |-> 0])}
MCJsonFlat == MCJsonLeaves \cup {JObject(f) : f \in FunctionsOf({{"a"}, {"a", "b"}}, MCJsonLeaves)}
MCJson == MCJsonFlat \cup {JObject([k \in {"c", "d"} |-> IF k = "c" THEN j ELSE JAtom("1")]) : j \in MCJsonFlat}
          \cup {JArray(f) : f \in FunctionsOf({{}, {"0"}, {"0", "1"}}, MCJsonLeaves)}

Answer(status, headers, lines, shown, cut) ==
    [status |-> status, headers |-> headers, lines |-> lines, shown |-> shown, cut |-> cut]

MCAnswers == {NoResponse} \cup
    {Answer(status, headers, lines, 1, cut) : status \in {200, 429, 500},
        headers \in {<<<<"date", "1">>>>, <<<<"date", "2">>, <<"location", "x">>>>, <<<<"location", "y">>>>},
        lines \in {<<"p">>, <<"p", "q">>, <<"q">>}, cut \in BOOLEAN}

Asked(id, method, url, answer) ==
    [id |-> id, host |-> "t", method |-> method, url |-> url, headers |-> <<>>, body |-> "",
     response |-> answer]

MCProofs == {<<Asked("c", "GET", "/1", a), Asked(id, method, url, b)>> :
                id \in {"c", "d"}, method \in {"GET", "POST"}, url \in {"/1", "/2"}, a, b \in MCAnswers}

-----------------------------------------------------------------------------
(* Frames: a long stream from the server beside one frame from the client, and *)
(* the other way round; what came with the upgrade ends anywhere.              *)

MCFrame(op, fin, len) == [op |-> op, fin |-> fin, len |-> len]

MCFrames ==
    {MCFrame("data", TRUE, 1), MCFrame("data", FALSE, 0), MCFrame("data", FALSE, 3),
     MCFrame("cont", FALSE, 1), MCFrame("cont", TRUE, 0), MCFrame("cont", TRUE, 3),
     MCFrame("control", TRUE, 1), MCFrame("huge", TRUE, 0)}

FramesUpTo(n) == UNION {[1..k -> MCFrames] : k \in 1..n}

Peers(client, server) == [d \in Directions |-> IF d = "c2s" THEN client ELSE server]

MCScripts ==
    {Peers(<<MCFrame("data", TRUE, 1)>>, server) : server \in FramesUpTo(3)}
    \cup {Peers(client, <<MCFrame("data", TRUE, 1)>>) : client \in FramesUpTo(2)}

MCMisreadings == {<<MCFrame("huge", TRUE, 0)>>, <<MCFrame("data", TRUE, 3)>>}

-----------------------------------------------------------------------------
all == <<planVars, wsVars, part, subject>>

AnyPlan == CHOOSE p \in Plans : TRUE

AnyScript == CHOOSE s \in Scripts : TRUE

NoSubject == <<>>

AlgorithmsInit ==
    /\ part \in {"payloads", "frames", "redaction", "scan", "archive", "html", "hex", "base64",
                "site map", "text", "json", "proof", "tokens", "metrics"}
    /\ part # "payloads" => plan = AnyPlan
    /\ part # "frames" => script = AnyScript
    /\ subject = NoSubject /\ PlanInit /\ WsInit

PlanStep == part = "payloads" /\ PlanNext /\ UNCHANGED <<wsVars, part, subject>>
WsStep == part = "frames" /\ WsNext /\ UNCHANGED <<planVars, part, subject>>

Take(name, Subjects) ==
    part = name /\ subject = NoSubject /\ subject' \in Subjects /\ UNCHANGED <<planVars, wsVars, part>>

AlgorithmsNext ==
    \/ PlanStep \/ WsStep
    \/ Take("redaction", MCRedaction) \/ Take("archive", {<<a, Placed(BuildZip(a))>> : a \in MCArchives})
    \/ Take("scan", {<<s, ex>> : s \in {t \in Switches : t.authorization}, ex \in MCExchanges})
    \/ Take("html", {<<t>> : t \in MCHtml}) \/ Take("hex", {<<t>> : t \in MCHex})
    \/ Take("base64", {<<t>> : t \in MCBase64})
    \/ Take("tokens", {<<t>> : t \in MCTokens}) \/ Take("metrics", {<<m>> : m \in MCMetrics})
    \/ Take("site map", MCMaps) \/ Take("text", MCPairs)
    \/ Take("json", {<<l, r>> : l, r \in MCJson}) \/ Take("proof", MCProofs)

AlgorithmsSpec == AlgorithmsInit /\ [][AlgorithmsNext]_all

Of(name) == part = name /\ subject # NoSubject

\* The plan of a variation job is carried out, weighed and refused as it should
\* be, for every plan of the model (payloads.ts, variationEngine.ts:600-791).
PayloadPlans == part = "payloads" => PayloadsCorrect


\* A bundle reads back entry by entry, or was refused; one that is cut or damaged
\* never reads back; and an encoding undoes another where it says so (zip.ts,
\* codec.ts, sequencer.ts:160-200).
ReadingBack ==
    /\ Of("archive") =>
           ReadsBack(subject[1], subject[2]) /\ CutIsRefused(subject[2]) /\ DamageIsRefused(subject[2])
    /\ Of("html") => HtmlReadsBack(subject[1])
    /\ Of("hex") => HexReadsBack(subject[1])
    /\ Of("base64") => AlphabetsAgree(subject[1])

\* Comparisons are exact, a proof is earned by what differs, tokens are not rated
\* better for a worse figure, findings are the same however their exchange is
\* spelled, and the site map is a partition of the history that agrees with the
\* gate, which its ranking only reorders (compare.ts, proof.ts, sequencer.ts,
\* checks.ts, siteMap.ts, surface.ts).
AnalysisCorrect ==
    /\ Of("site map") => SiteMapHolds(subject[1], subject[2], subject[3])
    /\ Of("text") => DiffIsExact(subject[1], subject[2]) /\ ByteDiffIsExact(subject[1], subject[2])
    /\ Of("json") => JsonDiffIsExact(subject[1], subject[2])
    /\ Of("proof") => GradeIsEarned(subject[1], subject[2]) /\ GradeIsSymmetric(subject[1], subject[2])
    /\ Of("tokens") => OrderIsImmaterial(subject[1]) /\ FiguresAgree(subject[1])
    /\ Of("metrics") => AssessmentIsMonotone(subject[1])
    /\ Of("scan") => KeysIgnoreOrder(subject[1], subject[2]) /\ KeyIsTheFinding(subject[1], subject[2])
                     /\ CorsIsGraded(subject[2]) /\ SecretsAreSeen(subject[1], subject[2])

\* What is computed from values comes out right: it reads back where it was written
\* to be read, and what is compared, graded and mapped is what was there.
ValuesAreTrue == ReadingBack /\ AnalysisCorrect

\* A refuted hypothesis, with no word of a body that was cut, is one of two
\* answers that are the same (proof.ts:259).  It does not hold.
RefutedIsIdentical == Of("proof") => RefutedMeansIdentical(subject[1], subject[2])
=============================================================================

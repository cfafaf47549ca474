------------------------------ MODULE PassiveScan ------------------------------
(* The passive scanner (passiveScanner.ts) and its checks (checks.ts): what    *)
(* one captured exchange is reported for, under which keys, and what of it a   *)
(* finding quotes.                                                             *)
(*                                                                             *)
(* An exchange is [scheme, url, status, mime, asked, answered, body]: url as   *)
(* in Redaction or NoUrl, status 0 without a response, asked and answered the  *)
(* headers of the request and the response, body the captured response body.   *)
(* A raw finding is [module, key, severity, title, excerpts], the last two in  *)
(* tokens; the key leaves out host and port, which an exchange does not change.*)
EXTENDS Redaction

CONSTANTS
    PlainLinks,         \* tokens that load a resource over http
    ErrorMarkers,       \* tokens of a stack trace
    ScannedSecrets,     \* the patterns of secrets-in-response
    Versioned,          \* header values with a digit
    ShortValues,        \* parameter values of fewer than four characters
    SensitiveKeys,      \* parameter names sensitive-in-url looks for
    KeyOrder,           \* the order Array.sort puts names in
    TextualMimes,       \* MIME types TEXTUAL_HINT matches
    MaxScan,            \* MAX_SCAN_BODY_BYTES, in tokens
    SmallBody,          \* 4096 bytes, in tokens
    MaxQuoted           \* 5 links quoted, 5 reflections reported

NoUrl == [path |-> <<>>, query |-> <<>>]     \* a URL that parses has a path
NoMime == "no mime"
Noise == "noise"

-----------------------------------------------------------------------------
(* Headers. *)

HasHeader(hs, name) == \E i \in DOMAIN hs : hs[i].name = name
ValuesOf(hs, name) == SelectSeq(hs, LAMBDA h : h.name = name)

\* getHeader: the first value, an empty one when there is none.
FirstValue(hs, name) == IF HasHeader(hs, name) THEN ValuesOf(hs, name)[1].value ELSE <<>>

IsHtml(ex) == ex.status # 0 /\ ex.mime \in {"text/html", "application/xhtml+xml"}
IsJson(ex) == ex.status # 0 /\ ex.mime = "application/json"

EndpointKey(ex) == IF ex.url = NoUrl THEN <<>> ELSE ex.url.path

\* A cookie runs from its first "=" back, across a ";" if need be.
CookieName(pairs) ==
    LET named == {i \in DOMAIN pairs : pairs[i][1] # NoName}
        upTo == IF named = {} THEN Len(pairs) ELSE Min(named) - 1
    IN FlattenSeq([i \in 1..upTo |-> pairs[i][2]])
       \o (IF named = {} THEN <<>> ELSE <<pairs[Min(named)][1]>>)

CookieText(pairs) ==
    FlattenSeq([i \in DOMAIN pairs |->
                   (IF pairs[i][1] = NoName THEN <<>> ELSE <<pairs[i][1]>>) \o pairs[i][2]])

HasFlag(pairs, flag) == \E i \in DOMAIN pairs : i > 1 /\ pairs[i] = <<NoName, <<flag>>>>
HasAttribute(pairs, name) == \E i \in DOMAIN pairs : i > 1 /\ pairs[i][1] = name

CookieProblems(ex, pairs) ==
    (IF ex.scheme = "https" /\ ~HasFlag(pairs, "secure") THEN {"Secure"} ELSE {})
    \cup (IF ~HasFlag(pairs, "httponly") THEN {"HttpOnly"} ELSE {})
    \cup (IF ~HasAttribute(pairs, "samesite") THEN {"SameSite"} ELSE {})

-----------------------------------------------------------------------------
(* The response body as text. *)

\* gunzip gives up on what is not whole and on what inflates past the bound;
\* every other coding is read as it stands.
Decoded(body) ==
    CASE body.coding = "gzip" ->
            IF body.packed /\ body.whole /\ Len(body.t) <= MaxScan THEN body.t ELSE <<>>
      [] body.coding # "gzip" /\ body.packed -> <<Noise>>
      [] OTHER -> SubSeq(body.t, 1, Min({Len(body.t), MaxScan}))

BodyText(ex) ==
    LET text == Decoded(ex.body)
    IN IF ex.status = 0 \/ ex.body.t = <<>> THEN <<>>
       ELSE IF ex.mime \notin TextualMimes \cup {NoMime} /\ Len(text) > SmallBody THEN <<>>
       ELSE text

TokensIn(t, S) == SelectSeq(t, LAMBDA w : w \in S)
FirstFew(s) == SubSeq(s, 1, Min({Len(s), MaxQuoted}))
Appears(value, text) == \E i \in 1..(Len(text) - Len(value) + 1) : SubSeq(text, i, i + Len(value) - 1) = value

-----------------------------------------------------------------------------
(* The checks.  Each is the set of what it reports. *)

Finding(module, ex, key, severity, title, excerpts) ==
    [module |-> module, key |-> <<EndpointKey(ex), key>>, severity |-> severity,
     title |-> title, excerpts |-> excerpts]

Severity ==
    "content-security-policy" :> "medium" @@ "x-content-type-options" :> "low" @@ "x-frame-options" :> "low"
    @@ "referrer-policy" :> "info" @@ "strict-transport-security" :> "low"

\* A header that is there and empty counts as missing.
SecurityHeaders(ex) ==
    LET Lacks(h) == FirstValue(ex.answered, h) = <<>>
        missing == (IF ex.scheme = "https" THEN {"strict-transport-security"} ELSE {})
                   \cup (IF IsHtml(ex) THEN DOMAIN Severity \ {"strict-transport-security"} ELSE {})
    IN {Finding("security-headers", ex, <<h>>, Severity[h], <<h>>, {<<h>>}) :
            h \in {m \in missing : ex.status \in 1..399 /\ Lacks(m)}}

InsecureCookies(config, ex) ==
    {Finding("insecure-cookies", ex, <<CookieName(h.value), CookieProblems(ex, h.value)>>,
             IF "Secure" \in CookieProblems(ex, h.value) THEN "medium" ELSE "low",
             CookieName(h.value), {CookieText(RedactHeader(config, h).value)}) :
        h \in {c \in ToSet(ValuesOf(ex.answered, "set-cookie")) :
                   ex.status # 0 /\ CookieProblems(ex, c.value) # {}}}

\* The four cases in the order of the else-ifs.
CorsCase(ex) ==
    LET allowed == FirstValue(ex.answered, "access-control-allow-origin")
        trusted == FirstValue(ex.answered, "access-control-allow-credentials") = <<"true">>
        origin == FirstValue(ex.asked, "origin")
    IN IF ex.status = 0 \/ allowed = <<>> THEN "none"
       ELSE IF allowed = <<"*">> /\ trusted THEN "wildcard-credentials"
       ELSE IF trusted /\ allowed = origin THEN "reflected-credentials"
       ELSE IF trusted /\ allowed \in {<<"null">>, <<"NULL">>} THEN "null-credentials"
       ELSE IF allowed = <<"*">> THEN "wildcard"
       ELSE "none"

Cors(ex) ==
    {Finding("cors", ex, <<c>>, IF c = "wildcard" THEN "info" ELSE "high", <<c>>,
             {FirstValue(ex.answered, "access-control-allow-origin")}) : c \in {CorsCase(ex)} \ {"none"}}

MixedContent(config, ex) ==
    LET links == FirstFew(TokensIn(BodyText(ex), PlainLinks))
    IN {Finding("mixed-content", ex, <<>>, "medium", <<>>,
                {RedactText(config, <<links[i]>>) : i \in DOMAIN links}) :
           n \in IF ex.scheme = "https" /\ IsHtml(ex) /\ links # <<>> THEN {1} ELSE {}}

\* The names in the order of the query, and in the order of sort().
SensitiveHits(ex) ==
    IF ex.url = NoUrl THEN <<>>
    ELSE LET pairs == SelectSeq(ex.url.query, LAMBDA q : q[1] \in SensitiveKeys)
         IN [i \in DOMAIN pairs |-> pairs[i][1]]
SortedHits(ex) == SortSeq(SensitiveHits(ex), LAMBDA a, b : KeyOrder[a] < KeyOrder[b])

UrlText(url) ==
    url.path \o FlattenSeq([i \in DOMAIN url.query |->
                   (IF url.query[i][1] = NoName THEN <<>> ELSE <<url.query[i][1]>>) \o url.query[i][2]])

SensitiveInUrl(config, ex) ==
    {Finding("sensitive-in-url", ex, names, "medium", <<>>, {UrlText(RedactUrl(config, ex.url))}) :
        names \in {SortedHits(ex)} \ {<<>>}}

CacheControl(ex) ==
    LET cc == FirstValue(ex.answered, "cache-control")
        private == HasHeader(ex.asked, "authorization") \/ HasHeader(ex.answered, "set-cookie")
    IN {Finding("cache-control", ex, <<>>, "low", <<>>, {cc}) :
           n \in IF ex.status # 0 /\ private /\ ToSet(cc) \cap {"no-store", "private"} = {} THEN {1} ELSE {}}

VerboseErrors(config, ex) ==
    LET marks == TokensIn(BodyText(ex), ErrorMarkers)
    IN {Finding("verbose-errors", ex, <<>>, "medium", <<>>, {RedactText(config, <<marks[1]>>)}) :
           n \in IF marks # <<>> THEN {1} ELSE {}}

BannerDisclosure(ex) ==
    {Finding("banner-disclosure", ex, <<h>>, "info", <<h>>, {FirstValue(ex.answered, h)}) :
        h \in {b \in {"server", "x-powered-by", "x-aspnet-version", "x-generator"} :
                  ex.status # 0 /\ ToSet(FirstValue(ex.answered, b)) \cap Versioned # {}}}

\* The pattern that matched is named, never what it matched.
SecretsInResponse(ex) ==
    {Finding("secrets-in-response", ex, <<s>>, "high", <<>>, {<<>>}) :
        s \in ToSet(BodyText(ex)) \cap ScannedSecrets}

CleartextCredentials(ex) ==
    {Finding("cleartext-credentials", ex, <<>>, "high", <<>>,
             {<<IF HasHeader(ex.asked, "authorization") THEN "authorization" ELSE "cookie", Mask>>}) :
        n \in IF ex.scheme = "http" /\ (HasHeader(ex.asked, "authorization") \/ HasHeader(ex.asked, "cookie"))
              THEN {1} ELSE {}}

\* The parameters whose values the page repeats, in order.
Reflections(ex) ==
    IF ex.url = NoUrl \/ ~(IsHtml(ex) \/ IsJson(ex)) THEN <<>>
    ELSE SelectSeq(ex.url.query,
                   LAMBDA q : q[2] \notin ShortValues \cup {<<>>} /\ Appears(q[2], BodyText(ex)))

ReflectedInput(ex) ==
    {Finding("reflected-input", ex, <<q[1]>>, "info", <<q[1]>>, {<<q[1]>>}) : q \in ToSet(FirstFew(Reflections(ex)))}

Builtin == {"security-headers", "insecure-cookies", "cors", "mixed-content", "sensitive-in-url", "cache-control",
            "verbose-errors", "banner-disclosure", "secrets-in-response", "cleartext-credentials",
            "reflected-input"}

RunCheck(config, ex, module) ==
    CASE module = "security-headers" -> SecurityHeaders(ex)
      [] module = "insecure-cookies" -> InsecureCookies(config, ex)
      [] module = "cors" -> Cors(ex)
      [] module = "mixed-content" -> MixedContent(config, ex)
      [] module = "sensitive-in-url" -> SensitiveInUrl(config, ex)
      [] module = "cache-control" -> CacheControl(ex)
      [] module = "verbose-errors" -> VerboseErrors(config, ex)
      [] module = "banner-disclosure" -> BannerDisclosure(ex)
      [] module = "secrets-in-response" -> SecretsInResponse(ex)
      [] module = "cleartext-credentials" -> CleartextCredentials(ex)
      [] OTHER -> ReflectedInput(ex)


\* PassiveScanner.scan, with every excerpt redacted once more.
Scan(config, ex) ==
    {[f EXCEPT !.excerpts = {RedactText(config, e) : e \in @}] :
        f \in UNION {RunCheck(config, ex, m) : m \in Builtin}}

-----------------------------------------------------------------------------
Keys(config, ex) == {<<f.module, f.key>> : f \in Scan(config, ex)}
Quoted(config, ex) == UNION {UNION {Tokens(e) : e \in f.excerpts} : f \in Scan(config, ex)}

\* The values the operator chose to mask, and the credentials no check quotes;
\* what a pattern knows may stand elsewhere as well, so it is for that switch.
PrivateValues(config, ex) ==
    LET Value(h) == IF h.name = "set-cookie"
                    THEN IF config.cookies /\ h.value[1][1] # NoName THEN Tokens(h.value[1][2]) ELSE {}
                    ELSE IF h.name = "cookie" THEN UNION {Tokens(h.value[i][2]) : i \in DOMAIN h.value}
                    ELSE IF IsAuthorization(h) THEN Tokens(h.value) ELSE {}
        values == UNION {Value(h) : h \in ToSet(ex.asked) \cup ToSet(ex.answered)}
                  \cup UNION {Tokens(q[2]) : q \in {p \in ToSet(ex.url.query) : p[1] \in SensitiveKeys}}
    IN IF config.patterns THEN values \cup Secrets ELSE values \ Secrets

\* What a finding quotes of an exchange holds no cookie, credential or parameter
\* it reports as sensitive, and no secret a pattern knows, in whichever header
\* or link it came (passiveScanner.ts:93).
EvidenceIsMasked(config, ex) == Quoted(config, ex) \cap PrivateValues(config, ex) = {}

\* The titles are not: a cookie without "=" is named by its whole text
\* (checks.ts:112).  This does not hold.
TitlesAreMasked(config, ex) ==
    config.patterns => \A f \in Scan(config, ex) : Tokens(f.title) \cap Secrets = {}

\* A second visit of the endpoint with its parameters in another order is
\* reported under the same keys, so it adds no finding, unless more of them are
\* reflected than are reported (checks.ts:267).
KeysIgnoreOrder(config, ex) ==
    ex.url # NoUrl /\ Len(Reflections(ex)) <= MaxQuoted =>
        Keys(config, ex) = Keys(config, [ex EXCEPT !.url.query = Reverse(@)])

\* Findings that share a key say the same, so that keeping one of them loses no
\* more than its excerpt (findingsRepo.ts upsert).
KeyIsTheFinding(config, ex) ==
    \A f, g \in Scan(config, ex) :
        f.module = g.module /\ f.key = g.key => f.title = g.title /\ f.severity = g.severity

\* A policy under which another site may read with the visitor's credentials is
\* reported as high, and no policy is reported twice (checks.ts:147-233).
CorsIsGraded(ex) ==
    LET allowed == FirstValue(ex.answered, "access-control-allow-origin")
        trusted == FirstValue(ex.answered, "access-control-allow-credentials") = <<"true">>
        anyone == {<<"*">>, <<"null">>, <<"NULL">>, FirstValue(ex.asked, "origin")} \ {<<>>}
        high == {f \in Cors(ex) : f.severity = "high"}
    IN /\ Cardinality(Cors(ex)) <= 1
       /\ ex.status # 0 => (high # {} <=> trusted /\ allowed \in anyone)

\* What a page shows of a known secret within the bound is reported, if the page
\* could be read at all.
SecretsAreSeen(config, ex) ==
    LET readable == IF ex.body.coding = "gzip" THEN ex.body.packed /\ ex.body.whole /\ Len(ex.body.t) <= MaxScan
                    ELSE ~ex.body.packed
    IN ex.status # 0 /\ readable /\ ex.mime \in TextualMimes =>
         \A i \in DOMAIN ex.body.t :
            i <= MaxScan /\ ex.body.t[i] \in ScannedSecrets =>
                \E f \in Scan(config, ex) : f.module = "secrets-in-response" /\ f.key[2] = <<ex.body.t[i]>>
=============================================================================

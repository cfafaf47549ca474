------------------------------- MODULE Redaction -------------------------------
(* What redactor.ts masks in text, headers, URLs and bodies, what it reports   *)
(* as sensitive, and how bundle.ts and the AI tools write a captured exchange  *)
(* with it.                                                                    *)
(*                                                                             *)
(* Text is a sequence of tokens: plain words, Secrets that a pattern masks     *)
(* whole, and KeyBegin ... KeyEnd, a private key masked with what it encloses. *)
(* A query and a cookie are sequences of <<name, value>>, the name NoName when *)
(* there is no "=".  A captured body is [t, coding, packed, whole]: coding its *)
(* Content-Encoding, packed whether the bytes are compressed, whole whether    *)
(* they are all there.                                                         *)
EXTENDS Integers, FiniteSets, FiniteSetsExt, SequencesExt

CONSTANTS
    Secrets,            \* tokens SECRET_PATTERNS masks
    KeyBegin, KeyEnd,
    SensitiveParams,    \* SENSITIVE_PARAM_NAMES
    WholeCredentials,   \* CREDENTIAL_HEADERS without cookies and authorization
    Readables,          \* content codings tryDecompress knows
    MaxBody             \* tokens of a body written into a bundle

Mask == "[REDACTED]"
NoName == ""
Plain == "none"     \* no Content-Encoding

-----------------------------------------------------------------------------
(* Text. *)

\* The end of the key that begins at i, 0 if there is none.
EndOfKey(t, i) ==
    LET ends == {j \in i..Len(t) : t[j] = KeyEnd}
    IN IF t[i] # KeyBegin \/ ends = {} THEN 0 ELSE Min(ends)

Enclosed(t, i) == \E b \in 1..(i - 1) : i <= EndOfKey(t, b)

\* config: [patterns, cookies, authorization], the three switches.
RedactText(config, t) ==
    IF ~config.patterns THEN t
    ELSE LET kept == SelectSeq([i \in DOMAIN t |-> i], LAMBDA i : ~Enclosed(t, i))
         IN [k \in DOMAIN kept |-> LET i == kept[k]
                                   IN IF t[i] \in Secrets \/ EndOfKey(t, i) # 0 THEN Mask ELSE t[i]]

\* A cookie keeps its name, and Set-Cookie its attributes.
RedactCookies(name, pairs) ==
    [i \in DOMAIN pairs |->
        IF pairs[i][1] = NoName \/ (name = "set-cookie" /\ i > 1) THEN pairs[i]
        ELSE <<pairs[i][1], <<Mask>>>>]

IsCookie(h) == h.name \in {"cookie", "set-cookie"}
IsAuthorization(h) == h.name \in {"authorization", "proxy-authorization"}

\* With its switch off a cookie is scanned for patterns like any text.
RedactHeader(config, h) ==
    CASE config.cookies /\ IsCookie(h) -> [h EXCEPT !.value = RedactCookies(h.name, @)]
      [] config.authorization /\ (IsAuthorization(h) \/ h.name \in WholeCredentials) ->
            [h EXCEPT !.value = <<Mask>>]
      [] OTHER -> IF IsCookie(h)
                  THEN [h EXCEPT !.value = [i \in DOMAIN @ |-> <<@[i][1], RedactText(config, @[i][2])>>]]
                  ELSE [h EXCEPT !.value = RedactText(config, @)]

RedactHeaders(config, hs) == [i \in DOMAIN hs |-> RedactHeader(config, hs[i])]

RedactPair(config, pair) ==
    CASE pair[1] = NoName -> pair
      [] pair[1] \in SensitiveParams -> <<pair[1], <<Mask>>>>
      [] OTHER -> <<pair[1], RedactText(config, pair[2])>>

\* url: [path, query]
RedactUrl(config, url) ==
    [path |-> RedactText(config, url.path),
     query |-> [i \in DOMAIN url.query |-> RedactPair(config, url.query[i])]]

-----------------------------------------------------------------------------
(* Bodies. *)

\* Decompressed, if the coding is known and the bytes are of it.
CanDecompress(body) == body.coding \in Readables /\ body.whole

Capped(t) == SubSeq(t, 1, Min({MaxBody, Len(t)}))

RenderBody(config, body, raw) ==
    CASE body.t = <<>> -> [t |-> <<>>, packed |-> FALSE, omitted |-> FALSE]
      [] body.t # <<>> /\ raw -> [t |-> Capped(body.t), packed |-> body.packed, omitted |-> FALSE]
      [] body.t # <<>> /\ ~raw /\ body.coding \notin {Plain, "identity"} /\ ~CanDecompress(body) ->
            [t |-> <<>>, packed |-> FALSE, omitted |-> TRUE]
      [] OTHER -> [t |-> RedactText(config, Capped(body.t)),
                   packed |-> body.packed /\ ~CanDecompress(body), omitted |-> FALSE]

\* redactAiValue: bytes that could not be decompressed go through as they are,
\* the patterns finding nothing in them, and keep their Content-Encoding.
RedactAiBody(config, body) ==
    IF CanDecompress(body)
    THEN [body EXCEPT !.t = RedactText(config, @), !.coding = Plain, !.packed = FALSE]
    ELSE [body EXCEPT !.t = IF body.packed THEN @ ELSE RedactText(config, @)]

-----------------------------------------------------------------------------
(* A captured message: [url, headers, body]. *)

RenderExchange(config, m, raw) ==
    [url     |-> IF raw THEN m.url ELSE RedactUrl(config, m.url),
     headers |-> IF raw THEN m.headers ELSE RedactHeaders(config, m.headers),
     body    |-> RenderBody(config, m.body, raw)]

RedactAiValue(config, m) ==
    [url     |-> RedactUrl(config, m.url),
     headers |-> RedactHeaders(config, m.headers),
     body    |-> RedactAiBody(config, m.body)]

\* detectSensitive: the fields the operator is warned of.
DetectSensitive(hs, text) ==
    {hs[i].name : i \in {j \in DOMAIN hs :
        IsCookie(hs[j]) \/ IsAuthorization(hs[j]) \/ hs[j].name \in WholeCredentials}}
    \cup (IF RedactText([patterns |-> TRUE], text) # text THEN {"pattern"} ELSE {})

-----------------------------------------------------------------------------
Tokens(t) == {t[i] : i \in DOMAIN t}
Clear(t) == Tokens(t) \cap Secrets = {} /\ \A i \in DOMAIN t : EndOfKey(t, i) = 0

Credentials(config, h) ==
    \/ config.cookies /\ IsCookie(h)
    \/ config.authorization /\ (IsAuthorization(h) \/ h.name \in WholeCredentials)

\* No credential is left in a header, whatever switch governs the patterns: a
\* cookie with a name keeps the name and not the value.  A cookie without "=" is
\* left as it is, and so is what follows the first pair of a Set-Cookie
\* (redactor.ts:167, 175).
HeadersAreMasked(config, hs) ==
    \A i \in DOMAIN hs :
        LET v == RedactHeader(config, hs[i]).value
        IN Credentials(config, hs[i]) =>
             IF IsCookie(hs[i])
             THEN \A k \in DOMAIN v : v[k][1] = NoName \/ v[k][2] = <<Mask>>
                                      \/ (hs[i].name = "set-cookie" /\ k > 1)
             ELSE v = <<Mask>>

\* A redacted URL has no secret a pattern knows in its path, with or without a
\* query, nor in the value of a parameter, and no value of a sensitive parameter
\* (redactor.ts:138).  A part of the query without "=" is left as it is
\* (redactor.ts:141).
UrlIsMasked(config, url) ==
    config.patterns =>
        LET r == RedactUrl(config, url)
        IN /\ Clear(r.path)
           /\ \A i \in DOMAIN r.query : r.query[i][1] # NoName =>
                Clear(r.query[i][2]) /\ (r.query[i][1] \in SensitiveParams => r.query[i][2] = <<Mask>>)

\* A file of a redacted bundle holds no bytes nothing has looked into: what it
\* shows of a body was readable, and every secret in it is masked (bundle.ts:125).
BodyIsMasked(config, body) ==
    LET r == RenderBody(config, body, FALSE)
    IN ~r.packed /\ (config.patterns => Clear(r.t))

\* A raw bundle holds the bytes as they were captured, under the headers as they
\* were captured, up to the cap (bundle.ts:138).
RawIsVerbatim(config, m) ==
    LET r == RenderExchange(config, m, TRUE)
    IN r.url = m.url /\ r.headers = m.headers /\ IsPrefix(r.body.t, m.body.t)
       /\ (m.body.t # <<>> => r.body.packed = m.body.packed)

\* A tool result that says how its body is encoded is right about it, and a body
\* that could be read is masked before a model sees it.
AiBodyIsHonest(config, body) ==
    LET r == RedactAiBody(config, body)
    IN (r.packed => r.coding = body.coding) /\ (config.patterns /\ ~r.packed => Clear(r.t))

\* Words that are not secret reach the reader as they are and in their order.
OrdinaryTextIsKept(config, t) ==
    LET ordinary(s) == SelectSeq(s, LAMBDA w : w \notin Secrets \cup {Mask, KeyBegin, KeyEnd})
        open == {i \in DOMAIN t : ~Enclosed(t, i)}
        outside == SelectSeq([i \in DOMAIN t |-> i], LAMBDA i : i \in open)
    IN ordinary(RedactText(config, t)) =
       IF config.patterns THEN ordinary([k \in DOMAIN outside |-> t[outside[k]]]) ELSE ordinary(t)

\* Nothing the redactor masks in the headers by name, or in the part of a body
\* it looks at, goes without a warning.
MaskedIsWarnedOf(config, m) ==
    LET warned == DetectSensitive(m.headers, m.body.t)
    IN /\ \A i \in DOMAIN m.headers :
            Credentials(config, m.headers[i]) => m.headers[i].name \in warned
       /\ RedactText(config, m.body.t) # m.body.t => warned # {}

RedactionHolds(config, m) ==
    /\ HeadersAreMasked(config, m.headers) /\ UrlIsMasked(config, m.url)
    /\ BodyIsMasked(config, m.body) /\ RawIsVerbatim(config, m) /\ AiBodyIsHonest(config, m.body)
    /\ OrdinaryTextIsKept(config, m.body.t) /\ OrdinaryTextIsKept(config, m.url.path)
    /\ MaskedIsWarnedOf(config, m)

\* No secret a pattern knows is left in the URL and the cookies.  It does not
\* hold: a part of a query and a cookie without "=" pass as they are, whatever
\* they hold (redactor.ts:141, 167, 175).
NoKnownSecretLeaves(config, m) ==
    config.patterns =>
        LET r == RenderExchange(config, m, FALSE)
        IN /\ \A i \in DOMAIN r.url.query : Clear(r.url.query[i][2])
           /\ \A i \in DOMAIN r.headers : IsCookie(r.headers[i]) =>
                 \A k \in DOMAIN r.headers[i].value : Clear(r.headers[i].value[k][2])

\* No part of a private key is in a redacted bundle.  It does not hold: a body is
\* cut before it is masked, and a key cut in two is no longer recognised
\* (redactor.ts:163).
NoPartOfAKey(config, body) ==
    config.patterns => \A i \in DOMAIN body.t :
        EndOfKey(body.t, i) # 0 => KeyBegin \notin Tokens(RenderBody(config, body, FALSE).t)
=============================================================================

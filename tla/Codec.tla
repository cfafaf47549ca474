--------------------------------- MODULE Codec ---------------------------------
(* The workbench's encodings (codec.ts) and the samples of the token analyzer  *)
(* (sequencer.ts), as far as they read one another's texts.                    *)
(*                                                                             *)
(* Text is a sequence of tokens.  For HTML a token is a character or the body  *)
(* of a reference, "lt" or "#39"; for hexadecimal it is a digit 0..15 or a     *)
(* Sign; for Base64 it is a class of characters or white space.                *)
EXTENDS Integers, FiniteSets, FiniteSetsExt, SequencesExt

CONSTANTS
    Named,          \* Named[c]: the reference HTML_ENCODE_MAP has for a character c
    Meaning         \* Meaning[b]: the character a reference body stands for

Sign == [space |-> 16, colon |-> 17, dash |-> 18, x |-> 19]
NotBytes == <<-1>>      \* the decoder throws
NotSize == -1

-----------------------------------------------------------------------------
(* HTML. *)

HtmlEncode(s) ==
    FlattenSeq([i \in DOMAIN s |-> IF s[i] \in DOMAIN Named THEN <<"&", Named[s[i]], ";">> ELSE <<s[i]>>])

ReferenceAt(s, i) ==
    i \in 1..(Len(s) - 2) /\ s[i] = "&" /\ s[i + 1] \in DOMAIN Meaning /\ s[i + 2] = ";"

\* One pass from the left: references do not overlap, and what one is replaced
\* by is not looked at again.
HtmlDecode(s) ==
    FlattenSeq([i \in DOMAIN s |->
        CASE ReferenceAt(s, i) -> <<Meaning[s[i + 1]]>>
          [] ReferenceAt(s, i - 1) \/ ReferenceAt(s, i - 2) -> <<>>
          [] OTHER -> <<s[i]>>])

-----------------------------------------------------------------------------
(* Hexadecimal. *)

Digits == 0..15
Without(s, S) == SelectSeq(s, LAMBDA c : c \notin S)

HexEncode(bytes) == FlattenSeq([i \in DOMAIN bytes |-> <<bytes[i] \div 16, bytes[i] % 16>>])

FromDigits(d) ==
    IF Len(d) % 2 # 0 \/ ~(ToSet(d) \subseteq Digits) THEN NotBytes
    ELSE [i \in 1..(Len(d) \div 2) |-> 16 * d[2 * i - 1] + d[2 * i]]

HexDecode(s) == FromDigits(Without(s, {Sign.space}))

-----------------------------------------------------------------------------
(* A sample of the analyzer. *)

Trim(s) ==
    LET solid == {i \in DOMAIN s : s[i] # Sign.space}
    IN IF solid = {} THEN <<>> ELSE SubSeq(s, Min(solid), Max(solid))

\* "0x" once, at the front, then the separators.
HexSample(s) ==
    LET t == Trim(s)
        bare == IF Len(t) >= 2 /\ t[1] = 0 /\ t[2] = Sign.x THEN SubSeq(t, 3, Len(t)) ELSE t
        digits == Without(bare, {Sign.space, Sign.colon, Sign.dash})
    IN IF digits = <<>> THEN NotBytes ELSE FromDigits(digits)

\* Characters of the alphabet, then at most two "="; never 4n + 1 of them.
Shaped(t, Alphabet) ==
    LET body == Without(t, {"="})
    IN /\ Len(t) % 4 # 1 /\ Len(t) - Len(body) <= 2
       /\ SubSeq(t, 1, Len(body)) = body /\ ToSet(body) \subseteq Alphabet

\* How many bytes are decoded.
DecodedSize(t) == (6 * Len(Without(t, {"="}))) \div 8

Base64Sample(s) ==
    LET t == Without(s, {" "})
    IN IF t = <<>> \/ ~Shaped(t, {"A", "+"}) THEN NotSize ELSE DecodedSize(t)

Base64UrlSample(s) ==
    LET t == Without(s, {" "})
    IN IF Without(t, {"="}) = <<>> \/ ~Shaped(t, {"A", "-"}) THEN NotSize ELSE DecodedSize(t)

-----------------------------------------------------------------------------
\* Decoding undoes encoding, also of a text that holds references already, and
\* no encoded text has a character a page would take for markup (codec.ts:88).
HtmlReadsBack(s) ==
    /\ HtmlDecode(HtmlEncode(s)) = s
    /\ ToSet(HtmlEncode(s)) \cap DOMAIN Named \subseteq {"&"}

\* Hexadecimal reads back under any spacing, and what hexDecode reads the
\* analyzer reads as the same bytes, or it is empty.
HexReadsBack(s) ==
    HexDecode(s) # NotBytes =>
        /\ HexDecode(s) = <<>> \/ HexSample(s) = HexDecode(s)
        /\ HexEncode(HexDecode(s)) = Without(s, {Sign.space})

\* A sample that both alphabets can spell is read alike under both, or refused
\* under both, an empty token being refused by either (sequencer.ts:181).
AlphabetsAgree(s) ==
    LET Read(size) == IF size \in {NotSize, 0} THEN {} ELSE {size}
    IN ToSet(s) \cap {"+", "-"} = {} => Read(Base64Sample(s)) = Read(Base64UrlSample(s))
=============================================================================

---------------------------- MODULE CodecCorrect ----------------------------
(***************************************************************************)
(* What the conversions of the library compute, stated without the way in  *)
(* which the code computes it: Unicode's table of well-formed byte         *)
(* sequences, the forms parser and the address parsers of the URL          *)
(* standard.  An input of some kind grows by one chunk in a step; every    *)
(* input that is reached is converted.                                     *)
(***************************************************************************)
EXTENDS FormCode, HostParser

CONSTANTS
    Kind,      \* the kinds of input
    Seeds,     \* Seeds[kind]: the inputs to start with
    Chunks,    \* Chunks[kind]: what an input grows by
    MaxChunks  \* MaxChunks[kind]: how often

\* What strings of a kind are made of: UTF-16 code units; those of UTF-32,
\* which may be too high for a code point; or bytes.
Unit16 == 0 .. 65535
Unit32 == Nat
UnitsOf(k) ==
    CASE k \in {"wide", "pieces"} -> Unit16 [] k = "points" -> Unit32 [] OTHER -> Byte

ASSUME CodecAssumption ==
    \A k \in Kind : Seeds[k] \cup Chunks[k] \subseteq Seq(UnitsOf(k))

VARIABLES kind, input, chunks

vars == <<kind, input, chunks>>

CodecInit ==
    /\ kind \in Kind
    /\ input \in Seeds[kind]
    /\ chunks = 0

Grow ==
    /\ chunks < MaxChunks[kind]
    /\ \E chunk \in Chunks[kind] : input' = input \o chunk
    /\ chunks' = chunks + 1 /\ kind' = kind

CodecSpec == CodecInit /\ [][Grow]_vars

-----------------------------------------------------------------------------
(* UTF-8 by Table 3-7 of the Unicode standard.                             *)

Tail1 == Continuation
WellFormedRows ==
    {<<0 .. 127>>, <<194 .. 223, Tail1>>,
     <<{224}, 160 .. 191, Tail1>>, <<225 .. 236, Tail1, Tail1>>,
     <<{237}, 128 .. 159, Tail1>>, <<238 .. 239, Tail1, Tail1>>,
     <<{240}, 144 .. 191, Tail1, Tail1>>, <<241 .. 243, Tail1, Tail1, Tail1>>,
     <<{244}, 128 .. 143, Tail1, Tail1>>}

\* The first k bytes from i on are those of a well-formed character.
Starts(s, i, k, row) ==
    k =< Len(row) /\ i + k - 1 =< Len(s) /\ \A j \in 1 .. k : s[i + j - 1] \in row[j]

IsCharacter(s, i, k) == \E row \in WellFormedRows : k = Len(row) /\ Starts(s, i, k, row)

\* The length of the character at i, or of the maximal subpart of one.
UnitLength(s, i) ==
    CHOOSE k \in 1 .. 4 :
        LET fits(n) == n = 1 \/ \E row \in WellFormedRows : Starts(s, i, n, row)
        IN fits(k) /\ \A n \in k + 1 .. 4 : ~fits(n)

\* UTF-8 decode without BOM, written as UTF-8 again.
Fixed(s) ==
    LET out[i \in 1 .. Len(s) + 1] ==
            IF i > Len(s) THEN <<>>
            ELSE LET k == UnitLength(s, i)
                 IN (IF IsCharacter(s, i, k) THEN SubSeq(s, i, i + k - 1) ELSE ReplacementUtf8)
                       \o out[i + k]
    IN out[1]

\* The bit tables and the chain of conditions of read_code_point accept what
\* the Unicode table accepts, a character that is cut off or broken ends
\* where the standard's decoder ends it, no read goes past the end of the
\* string, and a code point is written as the bytes that it was read from.
DecodesAsUnicode ==
    kind = "utf8" /\ input # <<>> =>
        LET r == ReadUtf8(input, 1)
            k == UnitLength(input, 1)
        IN /\ r.next = 1 + k
           /\ r.next =< Len(input) + 1
           /\ r.ok = IsCharacter(input, 1, k)
           /\ r.ok => AppendUtf8(r.cp) = SubSeq(input, 1, k)

\* check_fix_utf8, the conversion to UTF-16 and back, and the one to code
\* points agree on what is ill formed and on what replaces it, wherever in
\* the string it stands.
ConversionsAgree ==
    kind = "utf8" =>
        LET utf16 == ConvertUtf8ToUtf16(input)
        IN /\ CheckFixUtf8(input) = Fixed(input)
           /\ Utf16ToUtf8(utf16.units) = Fixed(input)
           /\ utf16.success = (Fixed(input) = input)

\* A code point in UTF-16 by Table 3-5 of the Unicode standard; U+FFFD for
\* a number that is no Unicode scalar value (D76: 0 to D7FF and E000 to
\* 10FFFF, in hexadecimal).
Utf16OfPoint(p) ==
    CASE p \in 65536 .. 1114111 ->
           <<55296 + (p - 65536) \div 1024, 56320 + ((p - 65536) % 1024)>>
      [] p \in 0 .. 55295 \cup 57344 .. 65535 -> <<p>>
      [] OTHER -> <<Replacement>>

\* UTF-16 from the caller, with surrogates alone or in a wrong order, and
\* UTF-32, with surrogates and numbers above U+10FFFF, become well-formed
\* UTF-8, which append_utf8 does not see to: there is one U+FFFD for each unit
\* that has no character, and every other character is read back from the
\* UTF-8 as it was.  A text in UTF-32 and the same text in UTF-16 are one.
WideBecomesUtf8 ==
    /\ kind = "wide" =>
          LET lone == {i \in DOMAIN input :
                          \/ IsLead(input[i]) /\ ~(i < Len(input) /\ IsTrail(input[i + 1]))
                          \/ IsTrail(input[i]) /\ ~(i > 1 /\ IsLead(input[i - 1]))}
              utf8 == Utf16ToUtf8(input)
          IN /\ Fixed(utf8) = utf8
             /\ ConvertUtf8ToUtf16(utf8).units
                  = [i \in DOMAIN input |-> IF i \in lone THEN Replacement ELSE input[i]]
    /\ kind = "points" =>
          LET utf8 == Utf32ToUtf8(input)
              utf16 == FlattenSeq([i \in DOMAIN input |-> Utf16OfPoint(input[i])])
          IN /\ Fixed(utf8) = utf8
             /\ ConvertUtf8ToUtf16(utf8).units = utf16
             /\ Utf16ToUtf8(utf16) = utf8

-----------------------------------------------------------------------------
(* Comparison.                                                             *)

\* Lexicographic order of sequences of numbers: -1, 0 or 1.
Order(u, v) ==
    LET common == IF Len(u) < Len(v) THEN Len(u) ELSE Len(v)
        differ == {i \in 1 .. common : u[i] # v[i]}
        first == CHOOSE i \in differ : \A j \in differ : i =< j
    IN IF differ # {} THEN IF u[first] < v[first] THEN -1 ELSE 1
       ELSE IF Len(u) < Len(v) THEN -1 ELSE IF Len(u) > Len(v) THEN 1 ELSE 0

Sign(n) == IF n < 0 THEN -1 ELSE IF n > 0 THEN 1 ELSE 0

\* Parameters are sorted by UTF-16 code units: compare_by_code_units, which
\* reads UTF-8, orders any two strings as their conversions to UTF-16 are
\* ordered, also above U+FFFF, where code points and code units disagree.
ComparesAsUtf16 ==
    kind = "compare" =>
        \A k \in 0 .. Len(input) :
            LET s == SubSeq(input, 1, k)
                t == SubSeq(input, k + 1, Len(input))
            IN Sign(CompareByCodeUnits(s, t))
                 = Order(ConvertUtf8ToUtf16(s).units, ConvertUtf8ToUtf16(t).units)

-----------------------------------------------------------------------------
(* Percent encoding and forms.                                             *)

\* percent-decode of the standard, byte by byte.
Decoded(s) ==
    LET out[i \in 1 .. Len(s) + 1] ==
            IF i > Len(s) THEN <<>>
            ELSE IF s[i] = Percent /\ i + 2 =< Len(s) /\ {s[i + 1], s[i + 2]} \subseteq Hex
            THEN <<16 * HexValue(s[i + 1]) + HexValue(s[i + 2])>> \o out[i + 3]
            ELSE <<s[i]>> \o out[i + 1]
    IN out[1]

\* Decoding run by run gives what the standard's decoding of the whole
\* string gives, with escapes and bytes that are ill formed side by side, in
\* UTF-8 and, for hosts, in UTF-16; and what was encoded is decoded to the
\* string that it was.
PercentDecodes ==
    kind = "percent" =>
        /\ PercentDecode(input) = Fixed(Decoded(Fixed(input)))
        /\ HostDecode(input) = ConvertUtf8ToUtf16(Decoded(Fixed(input))).units
        /\ PercentDecode(PercentEncode(input, ComponentKept)) = Fixed(input)

\* The forms parser of the standard: split at '&', then at the first '='.
Pairs(s) ==
    LET plain(t) == [i \in DOMAIN t |-> IF t[i] = Plus THEN 32 ELSE t[i]]
        pair(t) == LET at == SelectInSeq(t \o <<EqualSign>>, LAMBDA c : c = EqualSign)
                   IN <<Fixed(Decoded(plain(Before(t, at)))), Fixed(Decoded(plain(From(t, at + 1))))>>
        parts == SelectSeq(SplitAt(s, Ampersand), LAMBDA t : t # <<>>)
    IN [k \in DOMAIN parts |-> pair(parts[k])]

\* The loop of do_parse, which splits and decodes at the same time, gives
\* the list of the standard: an escape that is cut off by the end, by '&' or
\* by '=' is kept as text, empty pairs are dropped, a pair may be without '='.
FormParses ==
    kind = "form" =>
        /\ FormParse(FALSE, input) = Pairs(input)
        /\ FormParse(TRUE, input)
             = Pairs(IF input # <<>> /\ input[1] = QuestionMark THEN Tail(input) ELSE input)

\* What a list is serialized to is parsed to the same list: this is what
\* url_search_params relies on when it writes the query of its url, and the
\* href of that url is parsed again.
FormRoundTrip ==
    kind = "form" =>
        FormParse(FALSE, FormSerialize(FormParse(FALSE, input))) = FormParse(FALSE, input)

-----------------------------------------------------------------------------
(* Addresses.                                                              *)

\* A number as its four bytes, most significant first; <<>> when it takes
\* more than four.
FourBytes(digits, radix) ==
    LET timesPlus(b, d) ==
            LET place[k \in 1 .. 4] ==
                    b[k] * radix + (IF k = 4 THEN HexValue(d) ELSE place[k + 1] \div 256)
            IN IF b = <<>> \/ place[1] > 255 THEN <<>> ELSE [k \in 1 .. 4 |-> place[k] % 256]
    IN FoldLeft(timesPlus, <<0, 0, 0, 0>>, digits)

Number(s) ==
    CASE s = <<>> -> <<>>
      [] HasHexPrefix(s) ->
           IF AllIn(From(s, 3), Hex) THEN FourBytes(From(s, 3), 16) ELSE <<>>
      [] Len(s) > 1 /\ s[1] = Zero /\ ~HasHexPrefix(s) ->
           IF AllIn(s, Zero .. Zero + 7) THEN FourBytes(s, 8) ELSE <<>>
      [] OTHER -> IF AllIn(s, AsciiDigit) THEN FourBytes(s, 10) ELSE <<>>

Parts(s) ==
    LET parts == SplitAt(s, DotChar)
    IN IF Len(parts) > 1 /\ Last(parts) = <<>> THEN Front(parts) ELSE parts

\* The four bytes of an address: each number but the last is one byte, the
\* last is all the bytes that are left.  <<>> stands for failure.
Octets(s) ==
    LET parts == Parts(s)
        n == Len(parts)
        fills(k, from) == /\ Number(parts[k]) # <<>>
                          /\ \A j \in 1 .. from - 1 : Number(parts[k])[j] = 0
    IN IF n =< 4 /\ (\A k \in 1 .. n - 1 : fills(k, 4)) /\ fills(n, n)
       THEN [k \in 1 .. 4 |-> IF k < n THEN Number(parts[k])[4] ELSE Number(parts[n])[k]]
       ELSE <<>>

OctetsOf(ipv4) ==
    <<ipv4[1] \div 256, ipv4[1] % 256, ipv4[2] \div 256, ipv4[2] % 256>>

EndsInNumber(s) ==
    LET last == Last(Parts(s))
    IN /\ last # <<>>
       /\ \/ AllIn(last, AsciiDigit)
          \/ HasHexPrefix(last) /\ AllIn(From(last, 3), Hex)

\* An IPv4 address is accepted when its numbers fit, in whatever radix and
\* number of parts, and has the value that the standard gives it; what ends
\* in a number is what the standard says does.
Ipv4IsStandard ==
    kind = "ipv4" =>
        LET parsed == Ipv4Parse(input)
        IN /\ Octets(input) = IF parsed.ok THEN OctetsOf(parsed.value) ELSE <<>>
           /\ HostnameEndsInANumber(input) <=> EndsInNumber(input)

\* The pieces that a text without "::" denotes; <<"bad">> when it has none.
Bad == <<-1>>
PiecesOf(s) ==
    LET parts == SplitAt(s, Colon)
        octets == SplitAt(Last(parts), DotChar)
        isOctet(t) == /\ t # <<>> /\ Len(t) =< 3 /\ AllIn(t, AsciiDigit)
                      /\ t[1] = Zero => Len(t) = 1
                      /\ SubSeq(Number(t), 1, 3) = <<0, 0, 0>>
        isPiece(t) == Len(t) \in 1 .. 4 /\ AllIn(t, Hex)
        piece(t) == LET b == FourBytes(t, 16) IN b[3] * 256 + b[4]
        pair(k) == Number(octets[k])[4] * 256 + Number(octets[k + 1])[4]
        pieces(p) == [k \in DOMAIN p |-> piece(p[k])]
    IN IF s = <<>> THEN <<>>
       ELSE IF \A k \in DOMAIN parts : isPiece(parts[k]) THEN pieces(parts)
       ELSE IF /\ \A k \in 1 .. Len(parts) - 1 : isPiece(parts[k])
               /\ Len(octets) = 4 /\ \A k \in 1 .. 4 : isOctet(octets[k])
       THEN pieces(Front(parts)) \o <<pair(1), pair(3)>>
       ELSE Bad

\* Eight pieces, or up to seven with one "::" that stands for the others.
Ipv6Meanings(s) ==
    LET plain == PiecesOf(s)
        doubles == {i \in 1 .. Len(s) - 1 : s[i] = Colon /\ s[i + 1] = Colon}
        left(i) == PiecesOf(Before(s, i))
        right(i) == PiecesOf(From(s, i + 2))
        padded(i) == left(i) \o [k \in 1 .. 8 - Len(left(i)) - Len(right(i)) |-> 0] \o right(i)
        noOctets(i) == DotChar \notin ToSet(Before(s, i))
    IN (IF plain # Bad /\ Len(plain) = 8 THEN {plain} ELSE {})
         \cup {padded(i) : i \in {j \in doubles :
                 /\ left(j) # Bad /\ right(j) # Bad /\ noOctets(j)
                 /\ Len(left(j)) + Len(right(j)) =< 7}}

\* ipv6_parse, which goes through the text once and shifts the pieces behind
\* "::" at the end, accepts the texts that denote an address and gives that
\* address.
Ipv6IsStandard ==
    kind = "ipv6" =>
        LET parsed == Ipv6Parse(input)
        IN Ipv6Meanings(input) =
              IF parsed.ok THEN {[k \in 1 .. 8 |-> parsed.value[k - 1]]} ELSE {}

\* Every address is parsed from what it is serialized to, and "::" stands for
\* the longest run of zeros, the first among equals.
AddressRoundTrip ==
    /\ kind = "octets" /\ Len(input) = 4 =>
          LET ipv4 == <<input[1] * 256 + input[2], input[3] * 256 + input[4]>>
          IN Ipv4Parse(Ipv4Serialize(ipv4)) = Success(ipv4)
    /\ kind = "pieces" /\ Len(input) = 8 =>
          LET address == [i \in 0 .. 7 |-> input[i + 1]]
              text == Ipv6Serialize(address)
              written(i, n) == FoldLeft(LAMBDA t, k :
                    t \o (IF k = i THEN <<Colon, Colon>>
                          ELSE IF k \in i .. i + n - 1 THEN <<>>
                          ELSE (IF k \in {0, i + n} THEN <<>> ELSE <<Colon>>)
                                 \o UnsignedToStr(address[k], 16)),
                    <<>>, <<0, 1, 2, 3, 4, 5, 6, 7>>)
              runs == {r \in (0 .. 7) \X (2 .. 8) : r[1] + r[2] =< 8 /\ ZeroRun(address, r[1], r[2])}
          IN /\ Ipv6Parse(text) = Success(address)
             /\ runs # {} => \E r \in runs :
                   /\ text = written(r[1], r[2])
                   /\ \A q \in runs : q[2] < r[2] \/ (q[2] = r[2] /\ q[1] >= r[1])
-----------------------------------------------------------------------------
(* Hosts.                                                                  *)

\* The host parser of the standard for domains, without a short cut: the
\* text and the type of the host, or <<>> when there is none.
DomainHost(s) ==
    LET ascii == DomainToAscii(ConvertUtf8ToUtf16(Decoded(Fixed(s))).units)
        octets == Octets(ascii.value)
    IN CASE ~ascii.ok -> <<>>
         [] ascii.ok /\ ToSet(ascii.value) \cap ForbiddenDomain # {} -> <<>>
         [] OTHER ->
              IF ~EndsInNumber(ascii.value) THEN <<ascii.value, "Domain">>
              ELSE IF octets = <<>> THEN <<>>
              ELSE <<Ipv4Serialize(<<256 * octets[1] + octets[2], 256 * octets[3] + octets[4]>>),
                     "IPv4">>

IsDomainText(s) == s # <<>> /\ s[1] # OpenBracket

\* The one case in which the early failure is not that of the standard: an
\* escape follows "<" or ">", and may be what makes a letter of it.
EscapeBehindAngle(s) ==
    LET ptr == FirstNotIn(s, AsciiDomain)
    IN /\ ptr \in 1 .. Len(s) - 1
       /\ s[ptr] \in {LessThan, GreaterThan} /\ s[ptr + 1] = Percent

TextAndType(host) == IF host.ok THEN <<host.value.host_str, host.value.type>> ELSE <<>>

\* The short cut for ASCII domains and the early failures give the host that
\* decoding, ICU and the checks after it give, so that two spellings of a
\* host, with escapes, capitals or full-width digits, are one host.
HostIsStandard ==
    kind = "host" /\ IsDomainText(input) /\ ~EscapeBehindAngle(input) =>
        TextAndType(UrlHostOf(input)) = DomainHost(input)

IsParsedToItself(host, isOpaque) ==
    host.res = "ok" => ParseHost(host.text, isOpaque) = host

\* A host that was serialized is parsed to itself, of the same type, as it is
\* when the href of a url is parsed again: nothing that escapes or ICU put
\* into a host means something else the second time.  Every address is
\* parsed from what it is serialized to.
HostRoundTrip ==
    /\ AddressRoundTrip
    /\ kind = "host" =>
          \A isOpaque \in BOOLEAN : IsParsedToItself(ParseHost(input, isOpaque), isOpaque)

\* "No errors are reported here for forbidden < and > characters if there is
\* a possibility to normalize them" (url_host.h): what fails early has no
\* host.
NormalizedHostsPass ==
    kind = "host" /\ IsDomainText(input) =>
        LET ptr == FirstNotIn(input, AsciiDomain)
        IN ptr > 0 /\ input[ptr] \in {LessThan, GreaterThan} /\ FailsEarly(input, ptr)
              => DomainHost(input) = <<>>
=============================================================================

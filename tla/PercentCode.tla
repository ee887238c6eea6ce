---------------------------- MODULE PercentCode ----------------------------
(***************************************************************************)
(* Percent encoding and decoding of whole strings                          *)
(* (include/upa/url_percent_encode.h, src/url_percent_encode.cpp).         *)
(* A string is a sequence of bytes that need not be well-formed UTF-8.     *)
(***************************************************************************)
EXTENDS Utf

Percent == 37

\* is_ascii_digit, is_ascii_alpha
AsciiDigit == 48 .. 57
AsciiAlpha == (65 .. 90) \cup (97 .. 122)

IsHex(c) == c \in AsciiDigit \cup (65 .. 70) \cup (97 .. 102)

\* hex_char_to_num, with kCharToHexLookup; kHexCharLookup.
HexValue(c) == c - (CASE c \div 32 = 1 -> 48 [] c \div 32 = 2 -> 55 [] OTHER -> 87)
HexDigit(n) == IF n < 10 THEN 48 + n ELSE 55 + n

\* decode_hex_to_byte: the two bytes from i on, when they are hex digits.
HasHex(s, i) == i + 1 =< Len(s) /\ IsHex(s[i]) /\ IsHex(s[i + 1])
HexByte(s, i) == 16 * HexValue(s[i]) + HexValue(s[i + 1])

\* append_percent_encoded_byte
EncodedByte(b) == <<Percent, HexDigit(b \div 16), HexDigit(b % 16)>>

\* The escapes of a character: append_utf8_percent_encoded_char.
EncodedChar(cp) ==
    LET bytes == AppendUtf8(cp)
        out[k \in 0 .. Len(bytes)] ==
            IF k = 0 THEN <<>> ELSE out[k - 1] \o EncodedByte(bytes[k])
    IN out[Len(bytes)]

\* component_no_encode_set
ComponentKept ==
    AsciiDigit \cup AsciiAlpha \cup (39 .. 42) \cup {33, 45, 46, 95, 126}

\* append_utf8_percent_encoded: what is not in the set kept is encoded.
PercentEncode(s, kept) ==
    LET out[i \in 1 .. Len(s) + 1] ==
            CASE i > Len(s) -> <<>>
              [] i =< Len(s) /\ s[i] >= 128 ->
                   EncodedChar(Value(ReadUtf8(s, i))) \o out[ReadUtf8(s, i).next]
              [] OTHER ->
                   (IF s[i] \in kept THEN <<s[i]>> ELSE EncodedByte(s[i])) \o out[i + 1]
    IN out[1]

\* The bytes of "%XX%XX..." from i on and what follows; a '%' without two
\* hex digits stands for itself.
\* Mutant: each escape is taken by itself.
EscapeAlone(s, i) == [bytes |-> <<HexByte(s, i + 1)>>, next |-> i + 3]

EscapeRun(s, i0) ==
    LET run[i \in 1 .. Len(s) + 1] ==
            IF i > Len(s) \/ s[i] # Percent THEN [bytes |-> <<>>, next |-> i]
            ELSE LET hex == HasHex(s, i + 1)
                     more == run[IF hex THEN i + 3 ELSE i + 1]
                 IN [more EXCEPT !.bytes = <<IF hex THEN HexByte(s, i + 1) ELSE Percent>> \o @]
    IN run[i0]

\* append_percent_decoded: an escape of a byte that is not ASCII starts a
\* run of escapes that is decoded as UTF-8 by itself.
PercentDecode(s) ==
    LET out[i \in 1 .. Len(s) + 1] ==
            IF i > Len(s) THEN <<>>
            ELSE IF s[i] >= 128
            THEN AppendUtf8(Value(ReadUtf8(s, i))) \o out[ReadUtf8(s, i).next]
            ELSE IF s[i] # Percent \/ ~HasHex(s, i + 1) THEN <<s[i]>> \o out[i + 1]
            ELSE IF HexByte(s, i + 1) < 128 THEN <<HexByte(s, i + 1)>> \o out[i + 3]
            ELSE CheckFixUtf8(EscapeRun(s, i).bytes) \o out[EscapeRun(s, i).next]
    IN out[1]

\* The same for a host, which is decoded to UTF-16 for domain_to_ascii.
HostDecode(s) ==
    LET ReadOne(i) == ReadUtf8(s, i)
        out[i \in 1 .. Len(s) + 1] ==
            IF i > Len(s) THEN <<>>
            ELSE IF s[i] >= 128 THEN AppendUtf16(Value(ReadOne(i))) \o out[ReadOne(i).next]
            ELSE IF s[i] # Percent \/ ~HasHex(s, i + 1) THEN <<s[i]>> \o out[i + 1]
            ELSE IF HexByte(s, i + 1) < 128 THEN <<HexByte(s, i + 1)>> \o out[i + 3]
            ELSE ConvertUtf8ToUtf16(EscapeRun(s, i).bytes).units \o out[EscapeRun(s, i).next]
    IN out[1]
=============================================================================

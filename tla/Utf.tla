-------------------------------- MODULE Utf --------------------------------
(***************************************************************************)
(* Conversion between UTF-8, UTF-16 and UTF-32 (include/upa/url_utf.h and  *)
(* src/url_utf.cpp).  Bytes, code units and code points are numbers, a     *)
(* string is a sequence of them.  A read gives back where the next         *)
(* character starts, whether the one that was read is well formed, and its *)
(* code point.                                                             *)
(***************************************************************************)
EXTENDS Integers, Sequences

Byte == 0 .. 255
Continuation == 128 .. 191

\* U+FFFD and kReplacementCharUtf8
Replacement == 65533
ReplacementUtf8 == <<239, 191, 189>>

Read(ok, next, cp) == [ok |-> ok, next |-> next, cp |-> cp]

\* read_utf_char: what is ill formed is read as U+FFFD.
Value(r) == IF r.ok THEN r.cp ELSE Replacement

-----------------------------------------------------------------------------
(* UTF-8.                                                                  *)

\* Bit n of a number.
Bit(bits, n) == (bits \div 2 ^ n) % 2 = 1

\* k_U8_LEAD3_T1_BITS, by the low half of the lead byte, and
\* k_U8_LEAD4_T1_BITS, by the high half of the byte after it.
Lead3Bits(n) == CASE n = 0 -> 32 [] n = 13 -> 16 [] OTHER -> 48
Lead4Bits(n) == CASE n = 8 -> 30 [] n \in 9 .. 11 -> 15 [] OTHER -> 0

\* How many bytes the lead byte asks for after it; -1: it leads nothing.
Trails(lead) ==
    CASE lead < 128 -> 0 [] lead \in 194 .. 223 -> 1 [] lead \in 224 .. 239 -> 2
      [] lead \in 240 .. 244 -> 3 [] OTHER -> -1

\* May b be the k-th byte after the lead byte?
ValidTrail(lead, k, b) ==
    CASE k = 1 /\ lead \in 224 .. 239 -> Bit(Lead3Bits(lead - 224), b \div 32)
      [] k = 1 /\ lead >= 240 -> Bit(Lead4Bits(b \div 16), lead - 240)
      [] OTHER -> (b - 128) % 256 =< 63

\* first != last; what a read past the end would find is some byte.
\* Mutant: the end is not looked at.
ByteAt(s, i) == IF i =< Len(s) THEN s[i] ELSE 128
NoEndCheck(s, i) == TRUE

HasByte(s, i) == i =< Len(s)

LeadValue(lead) ==
    IF lead < 128 THEN lead ELSE IF lead < 224 THEN lead % 32
    ELSE IF lead < 240 THEN lead % 16 ELSE lead - 240

\* read_code_point(const char*&, ...): bytes are taken as long as they fit;
\* a character ends before the first that does not.
ReadUtf8(s, i) ==
    LET lead == s[i]
        n == Trails(lead)
        Fits(k) == HasByte(s, i + k) /\ ValidTrail(lead, k, ByteAt(s, i + k))
        taken == CHOOSE k \in 0 .. 3 :
                    /\ k =< n \/ k = 0
                    /\ \A j \in 1 .. k : Fits(j)
                    /\ k < n => ~Fits(k + 1)
        cp[k \in 0 .. 3] == IF k = 0 THEN LeadValue(lead)
                            ELSE cp[k - 1] * 64 + (ByteAt(s, i + k) % 64)
    IN Read(taken = n, i + taken + 1, IF taken = n THEN cp[n] ELSE 0)

\* append_utf8
AppendUtf8(cp) ==
    LET Tail6(shift) == 128 + ((cp \div shift) % 64)
    IN CASE cp =< 127 -> <<cp>>
         [] 127 < cp /\ cp =< 2047 -> <<192 + cp \div 64, Tail6(1)>>
         [] 2047 < cp /\ cp =< 65535 -> <<224 + cp \div 4096, Tail6(64), Tail6(1)>>
         [] OTHER -> <<240 + cp \div 262144, Tail6(4096), Tail6(64), Tail6(1)>>

\* check_fix_utf8: a first loop up to what is ill formed, a second one that
\* copies the runs [bgn, ptr) between one replacement and the next.
\* Mutant: the second loop starts its runs where the first one stopped.
CheckFixFromFirst(s) ==
    LET last == Len(s) + 1
        good[it \in 1 .. last] ==
            IF it = last THEN last
            ELSE IF ReadUtf8(s, it).ok THEN good[ReadUtf8(s, it).next] ELSE it
        ptr == good[1]
    IN IF ptr = last THEN s
       ELSE SubSeq(s, 1, ptr - 1) \o ReplacementUtf8 \o SubSeq(s, ptr + 1, Len(s))

CheckFixUtf8(s) ==
    LET last == Len(s) + 1
        good[it \in 1 .. last] ==
            IF it = last THEN last
            ELSE IF ReadUtf8(s, it).ok THEN good[ReadUtf8(s, it).next] ELSE it
        rest[bgn \in 1 .. last] ==
            LET ptr == good[bgn]
            IN SubSeq(s, bgn, ptr - 1)
                 \o (IF ptr = last THEN <<>>
                     ELSE ReplacementUtf8 \o rest[ReadUtf8(s, ptr).next])
        ptr == good[1]
    IN IF ptr = last THEN s
       ELSE SubSeq(s, 1, ptr - 1) \o ReplacementUtf8 \o rest[ReadUtf8(s, ptr).next]

-----------------------------------------------------------------------------
(* UTF-16 and UTF-32.                                                      *)

IsLead(c) == 55296 =< c /\ c =< 56319
IsTrail(c) == 56320 =< c /\ c =< 57343
IsSurrogate(c) == IsLead(c) \/ IsTrail(c)
ScalarValue(c) == c \in Nat /\ c =< 1114111 /\ ~IsSurrogate(c)

\* u16_get_supplementary
Supplementary(lead, trail) == lead * 1024 + trail - (55296 * 1024 + 56320 - 65536)

\* read_code_point(const char16_t*&, ...)
ReadUtf16(u, i) ==
    IF IsLead(u[i]) /\ i < Len(u) /\ IsTrail(u[i + 1])
    THEN Read(TRUE, i + 2, Supplementary(u[i], u[i + 1]))
    ELSE Read(~IsSurrogate(u[i]), i + 1, u[i])

\* read_code_point(const char32_t*&, ...)
\* Mutant: only surrogates are refused.
ReadUtf32TooHigh(u, i) == Read(~IsSurrogate(u[i]), i + 1, u[i])

ReadUtf32(u, i) == Read(ScalarValue(u[i]), i + 1, u[i])

\* append_utf16
AppendUtf16(cp) ==
    IF cp =< 65535 THEN <<cp>>
    ELSE <<cp \div 1024 + 55232, 56320 + (cp % 1024)>>

\* convert_utf8_to_utf16: the code units, and whether all was well formed.
ConvertUtf8ToUtf16(s) ==
    LET units[i \in 1 .. Len(s) + 1] ==
            IF i > Len(s) THEN <<>>
            ELSE AppendUtf16(Value(ReadUtf8(s, i))) \o units[ReadUtf8(s, i).next]
        good[i \in 1 .. Len(s) + 1] ==
            i > Len(s) \/ (ReadUtf8(s, i).ok /\ good[ReadUtf8(s, i).next])
    IN [units |-> units[1], success |-> good[1]]

\* to_utf8_string of UTF-16 and of UTF-32
Utf16ToUtf8(u) ==
    LET out[i \in 1 .. Len(u) + 1] ==
            IF i > Len(u) THEN <<>>
            ELSE AppendUtf8(Value(ReadUtf16(u, i))) \o out[ReadUtf16(u, i).next]
    IN out[1]

Utf32ToUtf8(u) ==
    LET out[i \in 1 .. Len(u) + 1] ==
            IF i > Len(u) THEN <<>>
            ELSE AppendUtf8(Value(ReadUtf32(u, i))) \o out[i + 1]
    IN out[1]

-----------------------------------------------------------------------------
(* compare_by_code_units: two UTF-8 strings are compared as the UTF-16     *)
(* strings that they stand for would be, without making those.             *)

FirstUnit(cp) == IF cp =< 65535 THEN cp ELSE cp \div 1024 + 55232

\* The difference of two code points that are not equal.
\* Mutant: they are compared as code points.
UnitDifferenceOfPoints(cp1, cp2) == cp1 - cp2

UnitDifference(cp1, cp2) ==
    IF FirstUnit(cp1) = FirstUnit(cp2) THEN (cp1 % 1024) - (cp2 % 1024)
    ELSE FirstUnit(cp1) - FirstUnit(cp2)

CompareByCodeUnits(s, t) ==
    LET compare[i \in 1 .. Len(s) + 1] ==
            [j \in 1 .. Len(t) + 1 |->
                CASE i > Len(s) /\ j > Len(t) -> 0
                  [] i =< Len(s) /\ j > Len(t) -> 1
                  [] i > Len(s) /\ j =< Len(t) -> -1
                  [] OTHER ->
                       IF s[i] < 128 \/ t[j] < 128
                       THEN IF s[i] = t[j] THEN compare[i + 1][j + 1] ELSE s[i] - t[j]
                       ELSE LET r == ReadUtf8(s, i)
                                q == ReadUtf8(t, j)
                            IN IF Value(r) = Value(q) THEN compare[r.next][q.next]
                               ELSE UnitDifference(Value(r), Value(q))]
    IN compare[1][1]
=============================================================================

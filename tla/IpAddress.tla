----------------------------- MODULE IpAddress -----------------------------
(***************************************************************************)
(* IPv4 and IPv6 addresses: parsing (include/upa/url_ip.h) and             *)
(* serializing (src/url_ip.cpp).  A string is a sequence of ASCII codes.   *)
(* A 32-bit number is a pair <<high, low>> of base 65536, so that it and   *)
(* the 64-bit intermediate values stay within TLC's integers.              *)
(***************************************************************************)
EXTENDS PercentCode, SequencesExt

DotChar == 46
Colon == 58
Zero == 48
IsX(c) == c \in {88, 120}

Before(s, i) == SubSeq(s, 1, i - 1)
From(s, i) == SubSeq(s, i, Len(s))
AllIn(s, set) == \A i \in DOMAIN s : s[i] \in set
Hex == {c \in Byte : IsHex(c)}

-----------------------------------------------------------------------------
(* IPv4.                                                                   *)

\* The last label, the one before a '.' at the end.
LastLabel(s) ==
    LET t == IF s # <<>> /\ Last(s) = DotChar THEN Front(s) ELSE s
        dots == {i \in DOMAIN t : t[i] = DotChar}
    IN From(t, 1 + (CHOOSE d \in dots \cup {0} : \A e \in dots : e =< d))

HasHexPrefix(s) == Len(s) >= 2 /\ s[1] = Zero /\ IsX(s[2])

\* hostname_ends_in_a_number
HostnameEndsInANumber(s) ==
    LET label == LastLabel(s)
    IN /\ label # <<>>
       /\ IF HasHexPrefix(label) THEN AllIn(From(label, 3), Hex)
          ELSE AllIn(label, AsciiDigit)

Failure == [ok |-> FALSE]
Success(v) == [ok |-> TRUE, value |-> v]

\* num * radix + digit
TimesPlus(num, radix, digit) ==
    LET low == num[2] * radix + digit
    IN <<num[1] * radix + low \div 65536, low % 65536>>

WithoutZeros(s) == From(s, SelectInSeq(s \o <<Colon>>, LAMBDA c : c # Zero))

\* ipv4_parse_number
ParseNumber(s) ==
    LET radix == IF s = <<Zero>> \/ s = <<>> \/ s[1] # Zero THEN 10
                 ELSE IF HasHexPrefix(s) THEN 16 ELSE 8
        prefix == CASE radix = 10 -> 0 [] radix = 8 -> 1 [] OTHER -> 2
        digits == IF radix = 10 THEN s ELSE WithoutZeros(From(s, prefix + 1))
        valid == IF radix = 16 THEN Hex ELSE Zero .. Zero - 1 + radix
        num == FoldLeft(LAMBDA n, c : TimesPlus(n, radix, HexValue(c)), <<0, 0>>, digits)
    IN IF s = <<>> \/ Len(digits) > 11 \/ ~AllIn(digits, valid) THEN Failure
       ELSE IF num[1] > 65535 THEN Failure
       ELSE Success(num)

\* numeric_limits<uint32_t>::max() >> (8 * (part_count - 1)): the last number
\* takes the bytes that the numbers before it leave.
\* Mutant: the limit is that of 256 ** (5 - n), compared as "greater".
LastLimitOffByOne(count) ==
    CASE count = 1 -> <<65536, 0>> [] count = 2 -> <<256, 0>> [] count = 3 -> <<1, 0>>
      [] OTHER -> <<0, 256>>

LastLimit(count) ==
    CASE count = 1 -> <<65535, 65535>> [] count = 2 -> <<255, 65535>>
      [] count = 3 -> <<0, 65535>> [] OTHER -> <<0, 255>>

Exceeds(m, n) == m[1] > n[1] \/ (m[1] = n[1] /\ m[2] > n[2])

\* number << (8 * (3 - counter))
Shifted(number, counter) ==
    LET n == number[2]
    IN CASE counter = 0 -> <<256 * n, 0>> [] counter = 1 -> <<n, 0>>
         [] OTHER -> <<0, 256 * n>>

Plus32(m, n) ==
    LET low == m[2] + n[2]
    IN <<(m[1] + n[1] + low \div 65536) % 65536, low % 65536>>

SplitAt(s, sep) ==
    FoldLeft(LAMBDA parts, c : IF c = sep THEN Append(parts, <<>>)
                               ELSE [parts EXCEPT ![Len(parts)] = Append(@, c)],
             <<<<>>>>, s)

\* ipv4_parse: the parts that part[] points to.  A fifth '.' and an empty
\* part before a '.' are failures, an empty part at the end is dropped.
Ipv4Parse(s) ==
    LET split == SplitAt(s, DotChar)
        parts == IF Len(split) > 1 /\ Last(split) = <<>> THEN Front(split) ELSE split
        count == Len(parts)
        bad == \/ s = <<>> \/ Len(split) > 5 \/ count > 4
               \/ \E k \in 1 .. count : ~ParseNumber(parts[k]).ok
        number(k) == ParseNumber(parts[k]).value
        sum[k \in 0 .. 3] ==
            IF k = 0 THEN number(count) ELSE Plus32(sum[k - 1], Shifted(number(k), k - 1))
    IN IF bad THEN Failure
       ELSE IF \/ \E k \in 1 .. count - 1 : Exceeds(number(k), <<0, 255>>)
               \/ Exceeds(number(count), LastLimit(count))
       THEN Failure
       ELSE Success(sum[count - 1])

\* unsigned_to_str
UnsignedToStr(num, base) ==
    LET digit(n) == IF n < 10 THEN Zero + n ELSE 87 + n
        out[n \in 0 .. 65535] ==
            IF n < base THEN <<digit(n)>> ELSE Append(out[n \div base], digit(n % base))
    IN out[num]

\* ipv4_serialize
Ipv4Serialize(ipv4) ==
    UnsignedToStr(ipv4[1] \div 256, 10) \o <<DotChar>> \o UnsignedToStr(ipv4[1] % 256, 10)
      \o <<DotChar>> \o UnsignedToStr(ipv4[2] \div 256, 10)
      \o <<DotChar>> \o UnsignedToStr(ipv4[2] % 256, 10)

-----------------------------------------------------------------------------
(* IPv6.  The state of ipv6_parse: pointer, piece_index, compress (0: null)*)
(* and address.                                                            *)

Piece == 0 .. 65535
NoPieces == [i \in 0 .. 7 |-> 0]

ParseState ==
    [pointer : Nat, piece : 0 .. 8, compress : 0 .. 8, address : [0 .. 7 -> Piece],
     seen : 0 .. 4, ends : {"pieces", "ipv4", "failure"}]

Fails(st) == [st EXCEPT !.ends = "failure"]

\* get_hex_number: where the up to four hex digits from i on end, and what
\* they denote.
HexEnd(s, i) ==
    CHOOSE e \in i .. i + 4 : /\ \A j \in i .. e - 1 : j =< Len(s) /\ IsHex(s[j])
                              /\ e = i + 4 \/ e > Len(s) \/ ~IsHex(s[e])
HexNumber(s, i) ==
    FoldLeft(LAMBDA n, c : n * 16 + HexValue(c), 0, SubSeq(s, i, HexEnd(s, i) - 1))

\* address[piece_index++] = value
PutPiece(st, value, next) ==
    [st EXCEPT !.address[st.piece] = value, !.piece = @ + 1, !.pointer = next]

\* "::", once.
Compress(st, next) ==
    IF st.compress # 0 THEN Fails(st)
    ELSE [st EXCEPT !.piece = @ + 1, !.compress = st.piece + 1, !.pointer = next]

\* One turn of the main loop.
NextPiece(st, s) ==
    LET p == st.pointer
        end == HexEnd(s, p)
        value == HexNumber(s, p)
    IN CASE st.piece = 8 -> Fails(st)
         [] st.piece # 8 /\ s[p] = Colon -> Compress(st, p + 1)
         [] OTHER ->
              IF end > Len(s) THEN PutPiece(st, value, end)
              ELSE IF s[end] = DotChar
              THEN IF end = p THEN Fails(st) ELSE [st EXCEPT !.ends = "ipv4"]
              ELSE IF s[end] = Colon /\ end < Len(s) THEN PutPiece(st, value, end + 1)
              ELSE Fails(st)

\* One number of the IPv4 address at the end, with the '.' before it.
NextNumber(st, s) ==
    LET p == IF st.seen > 0 THEN st.pointer + 1 ELSE st.pointer
        end == CHOOSE e \in p .. Len(s) + 1 :
                  /\ AllIn(SubSeq(s, p, e - 1), AsciiDigit)
                  /\ e > Len(s) \/ s[e] \notin AsciiDigit
        value == FoldLeft(LAMBDA n, c : IF n > 255 THEN n ELSE n * 10 + HexValue(c), 0,
                          SubSeq(s, p, end - 1))
    IN IF \/ st.seen > 0 /\ (s[st.pointer] # DotChar \/ st.seen = 4)
          \/ p > Len(s)
       THEN Fails(st)
       ELSE IF end = p \/ (s[p] = Zero /\ end > p + 1) \/ value > 255 THEN Fails(st)
       ELSE [st EXCEPT !.address[st.piece] = @ * 256 + value, !.pointer = end,
                       !.seen = @ + 1,
                       !.piece = IF st.seen % 2 = 1 THEN @ + 1 ELSE @]

\* Finale: the pieces after "::" move to the end.
\* Mutant: what they leave behind is not cleared.
MovedPiecesKept(address, compress, piece) ==
    [i \in 0 .. 7 |-> IF i >= compress + 8 - piece THEN address[i - (8 - piece)]
                      ELSE address[i]]

MovedPieces(address, compress, piece) ==
    [i \in 0 .. 7 |-> CASE i < compress -> address[i]
                        [] i >= compress + 8 - piece -> address[i - (8 - piece)]
                        [] OTHER -> 0]

\* ipv6_parse
Ipv6Parse(s) ==
    LET start == [pointer |-> 1, piece |-> 0, compress |-> 0, address |-> NoPieces,
                  seen |-> 0, ends |-> "pieces"]
        first == IF s[1] # Colon THEN start
                 ELSE IF s[2] # Colon THEN Fails(start) ELSE Compress(start, 3)
        pieces[st \in ParseState] ==
            IF st.pointer > Len(s) \/ st.ends # "pieces" THEN st ELSE pieces[NextPiece(st, s)]
        numbers[st \in ParseState] ==
            IF st.pointer > Len(s) \/ st.ends # "ipv4" THEN st ELSE numbers[NextNumber(st, s)]
        main == pieces[first]
        end == CASE main.ends # "ipv4" -> main
                 [] main.ends = "ipv4" /\ main.piece > 6 -> Fails(main)
                 [] OTHER -> numbers[main]
    IN IF Len(s) < 2 THEN Failure
       ELSE IF \/ end.ends = "failure"
               \/ end.ends = "ipv4" /\ end.seen # 4
               \/ end.compress = 0 /\ end.piece # 8
       THEN Failure
       ELSE Success(IF end.compress = 0 THEN end.address
                    ELSE MovedPieces(end.address, end.compress, end.piece))

\* longest_zero_sequence: the first of the longest; compress is null for one.
ZeroRun(address, i, n) == \A j \in i .. i + n - 1 : address[j] = 0
LongestZeroSequence(address) ==
    LET runs == {r \in (0 .. 7) \X (2 .. 8) : r[1] + r[2] =< 8 /\ ZeroRun(address, r[1], r[2])}
    IN IF runs = {} THEN <<8, 0>>
       ELSE CHOOSE r \in runs : \A q \in runs : q[2] < r[2] \/ (q[2] = r[2] /\ q[1] >= r[1])

\* ipv6_serialize
Ipv6Serialize(address) ==
    LET zeros == LongestZeroSequence(address)
        after == zeros[1] + zeros[2]
        Number(i) == UnsignedToStr(address[i], 16)
        out[i \in 0 .. 8] ==
            CASE i = 8 -> <<>>
              [] i = zeros[1] -> (IF i = 0 THEN <<Colon, Colon>> ELSE <<Colon>>) \o out[after]
              [] OTHER -> Number(i) \o (IF i = 7 THEN <<>> ELSE <<Colon>>) \o out[i + 1]
    IN out[0]
=============================================================================

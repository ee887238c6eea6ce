------------------------------ MODULE UrlHost ------------------------------
(***************************************************************************)
(* host_parser (include/upa/url_host.h): what kind of host a text is, what *)
(* it is serialized to, and what is written through the serializer.  IP    *)
(* addresses and IDNA are reduced to what the URL parser sees of them: a   *)
(* failure, or a text and a host type.  HostParser has them on bytes.      *)
(***************************************************************************)
EXTENDS UrlSerializer

ForbiddenHost == {"TAB", " ", "#", "/", ":", "?", "@", "[", "\\", "]", "|"}
ForbiddenDomain == ForbiddenHost \cup {"%"}

HostResult ==
    {"ok", "host_missing", "ipv4_invalid", "ipv6_invalid", "ipv6_unclosed",
     "host_invalid_code_point", "domain_invalid_code_point"}

\* A parsed host: an error, or a serialized host and its type.
HostError(err) == [res |-> err, text |-> <<>>, htype |-> "Empty"]
HostFound(text, ht) == [res |-> "ok", text |-> text, htype |-> ht]

AllDigits(s) == s # <<>> /\ \A i \in 1 .. Len(s) : s[i] \in Digit

\* One '.' at the end does not count.
WithoutLastDot(s) == IF s[Len(s)] = "." THEN Before(s, Len(s)) ELSE s

LastLabel(s) ==
    LET dot == FindLast(s, {"."}) IN IF dot > Len(s) THEN s ELSE From(s, dot + 1)

\* hostname_ends_in_a_number
EndsInNumber(s) == AllDigits(LastLabel(WithoutLastDot(s)))

\* A decimal number without leading zeros.
IsNumber(s) == AllDigits(s) /\ (Len(s) = 1 \/ s[1] # "0")

DecimalOfByte(n) ==
    LET D(k) == <<Digits[k + 1]>>
    IN IF n < 10 THEN D(n)
       ELSE IF n < 100 THEN D(n \div 10) \o D(n % 10)
       ELSE D(n \div 100) \o D((n \div 10) % 10) \o D(n % 10)

IPv4Text(n) ==
    DecimalOfByte(n \div 16777216) \o <<".">> \o DecimalOfByte((n \div 65536) % 256)
      \o <<".">> \o DecimalOfByte((n \div 256) % 256) \o <<".">> \o DecimalOfByte(n % 256)

IsDottedQuad(s) ==
    \E i, j, k \in {n \in 1 .. Len(s) : s[n] = "."} :
        /\ i < j /\ j < k
        /\ \A d \in {Before(s, i), SubSeq(s, i + 1, j - 1),
                     SubSeq(s, j + 1, k - 1), From(s, k + 1)} :
              IsNumber(d) /\ Len(d) < 4 /\ PortValue(d) < 256

\* parse_ipv4, of the two forms in which the inputs have IPv4 addresses: one
\* decimal number of up to five digits, and four numbers.
IPv4Host(s) ==
    IF IsDottedQuad(s) THEN HostFound(s, "IPv4")
    ELSE IF IsNumber(s) /\ Len(s) < 6 THEN HostFound(IPv4Text(PortValue(s)), "IPv4")
    ELSE HostError("ipv4_invalid")

\* parse_ipv6 on what stands between the brackets; the inputs have the
\* addresses "::", "::1" and "1::".
IPv6Host(s) ==
    IF s \in {<<":", ":">>, <<":", ":", "1">>, <<"1", ":", ":">>}
    THEN HostFound(<<"[">> \o s \o <<"]">>, "IPv6")
    ELSE HostError("ipv6_invalid")

\* domain_to_ascii, of one character outside ASCII.
ToAscii(s) == [i \in 1 .. Len(s) |-> IF s[i] = "u8" THEN "xn--u8" ELSE Lower(s)[i]]

ContainsAny(s, set) == \E i \in 1 .. Len(s) : s[i] \in set

HostOf(s, isOpaque) ==
    CASE s[1] = "[" /\ s[Len(s)] = "]" -> IPv6Host(SubSeq(s, 2, Len(s) - 1))
      [] s[1] = "[" /\ s[Len(s)] # "]" -> HostError("ipv6_unclosed")
      [] s[1] # "[" /\ isOpaque ->
           IF ContainsAny(s, ForbiddenHost) THEN HostError("host_invalid_code_point")
           ELSE HostFound(Encode(s, C0ControlSet), "Opaque")
      [] OTHER ->
           IF ContainsAny(s, ForbiddenDomain) THEN HostError("domain_invalid_code_point")
           ELSE IF EndsInNumber(s) THEN IPv4Host(WithoutLastDot(s))
           ELSE HostFound(ToAscii(s), "Domain")

\* host_parser::parse_host.  Its result, and the serializer after it.
ParseHostResult(s, isOpaque) ==
    IF s = <<>> THEN IF isOpaque THEN "ok" ELSE "host_missing"
    ELSE HostOf(s, isOpaque).res

\* Mutant: a host that cannot be parsed is written, as an empty one.
WriteAnyHost(x, s, isOpaque) ==
    LET host == HostOf(s, isOpaque)
    IN IF s = <<>> THEN PutHost(x, <<>>, "Empty")
       ELSE IF x.save THEN PutHost(x, host.text, host.htype) ELSE x

ParseHostOutput(x, s, isOpaque) ==
    IF s = <<>> THEN PutHost(x, <<>>, "Empty")
    ELSE LET host == HostOf(s, isOpaque)
         IN IF host.res = "ok" /\ x.save THEN PutHost(x, host.text, host.htype) ELSE x
=============================================================================

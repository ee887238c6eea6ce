----------------------------- MODULE HostParser -----------------------------
(***************************************************************************)
(* host_parser and url_host (include/upa/url_host.h) on bytes: escapes and *)
(* UTF-8 are decoded, the domain goes through ICU, what comes out may be   *)
(* an address.  A domain of ASCII characters takes a short cut.            *)
(*                                                                         *)
(* ICU is external.  It is modelled on the characters that make hosts      *)
(* hard; the ACE form of a label is not Punycode, but one letter for each  *)
(* character that is not ASCII.                                            *)
(***************************************************************************)
EXTENDS IpAddress

OpenBracket == 91
CloseBracket == 93
LessThan == 60
GreaterThan == 62

\* The sets of code_points_multiset.
ForbiddenHost ==
    {0, 9, 10, 13, 32, 35, 47, 58, LessThan, GreaterThan, 63, 64, OpenBracket, 92,
     CloseBracket, 94, 124}
ForbiddenDomain == ForbiddenHost \cup (0 .. 31) \cup {Percent, 127}
AsciiDomain == (32 .. 127) \ ForbiddenDomain

Lowered(s) == [i \in DOMAIN s |-> IF s[i] \in 65 .. 90 THEN s[i] + 32 ELSE s[i]]

FirstNotIn(s, set) == SelectInSeq(s, LAMBDA c : c \notin set)

ContainsAnyOf(s, set) == ToSet(s) \cap set # {}

\* A host, or the error.
HostError(err) == [res |-> err, text |-> <<>>, htype |-> "Empty"]
HostFound(text, htype) == [res |-> "ok", text |-> text, htype |-> htype]

-----------------------------------------------------------------------------
(* ICU: uidna_nameToASCII.                                                 *)

SoftHyphen == 173
Solidus == 824           \* the combining U+0338
NotLess == 8814          \* what it makes of "<"
EAcute == 233
IdeographicStop == 12290
FullwidthOne == 65297
FullwidthPercent == 65285

XnPrefix == <<120, 110, 45, 45>>
StartsWithXn(label) == Len(label) >= 4 /\ SubSeq(label, 1, 4) = XnPrefix

\* The mapping of a character, and the composition with U+0338.
IcuMapped(u) ==
    CASE u = SoftHyphen -> <<>>
      [] u = IdeographicStop -> <<DotChar>>
      [] u = FullwidthOne -> <<Zero + 1>>
      [] u = FullwidthPercent -> <<Percent>>
      [] OTHER -> Lowered(<<u>>)

IcuComposed(units) ==
    FoldLeft(LAMBDA done, u :
                IF u = Solidus /\ done # <<>> /\ Last(done) = LessThan
                THEN Append(Front(done), NotLess) ELSE Append(done, u),
             <<>>, FoldLeft(LAMBDA done, u : done \o IcuMapped(u), <<>>, units))

AceLetter(u) == CASE u = EAcute -> 121 [] u = NotLess -> 122 [] u = Solidus -> 119
                  [] OTHER -> u

\* A label is refused for a character that is not allowed, for a combining
\* character in front, and for an ACE form that is that of no label.
IcuLabelIsGood(label) ==
    /\ \A i \in DOMAIN label : label[i] < 128 \/ label[i] \in {EAcute, NotLess, Solidus}
    /\ label # <<>> => label[1] # Solidus
    /\ StartsWithXn(label) =>
          /\ AllIn(label, 0 .. 127)
          /\ \E i \in 5 .. Len(label) : label[i] \in {119, 121, 122}

IcuLabel(label) ==
    IF AllIn(label, 0 .. 127) THEN label
    ELSE XnPrefix \o [i \in DOMAIN label |-> AceLetter(label[i])]

UidnaNameToAscii(units) ==
    LET labels == SplitAt(IcuComposed(units), DotChar)
        ascii == FoldLeft(LAMBDA done, l : done \o <<DotChar>> \o IcuLabel(l), <<>>, labels)
    IN IF \E k \in DOMAIN labels : ~IcuLabelIsGood(labels[k]) THEN Failure
       ELSE Success(Tail(ascii))

-----------------------------------------------------------------------------
(* host_parser.                                                            *)

\* domain_to_ascii: an empty result is refused.
NotEmpty(ascii) == IF ascii.ok /\ ascii.value = <<>> THEN Failure ELSE ascii
DomainToAscii(units) == NotEmpty(UidnaNameToAscii(units))

\* util::has_xn_label
\* Mutant: only the first label is looked at.
XnInFront(s) == Len(s) >= 4 /\ StartsWithXn(Lowered(SubSeq(s, 1, 4)))

HasXnLabel(s) ==
    \E p \in 1 .. Len(s) - 3 :
        /\ p = 1 \/ s[p - 1] = DotChar
        /\ StartsWithXn(Lowered(SubSeq(s, p, p + 3)))

Ipv4Host(ipv4) ==
    IF ipv4.ok THEN HostFound(Ipv4Serialize(ipv4.value), "IPv4") ELSE HostError("ipv4")

Ipv6Host(ipv6) ==
    IF ipv6.ok
    THEN HostFound(<<OpenBracket>> \o Ipv6Serialize(ipv6.value) \o <<CloseBracket>>, "IPv6")
    ELSE HostError("ipv6")

ParseIpv4(s) == Ipv4Host(Ipv4Parse(s))
ParseIpv6(s) == Ipv6Host(Ipv6Parse(s))

ParseOpaqueHost(s) ==
    IF ContainsAnyOf(s, ForbiddenHost) THEN HostError("host_invalid_code_point")
    ELSE HostFound(PercentEncode(s, 32 .. 126), "Opaque")

\* An ASCII domain is an address when it ends in a number, and text otherwise.
AsciiHost(s, text) ==
    IF HostnameEndsInANumber(s) THEN ParseIpv4(s) ELSE HostFound(text, "Domain")

\* What follows the conversion by ICU: the result is looked at again.
\* Mutant: it is not, as if escapes had hidden nothing.
CheckedBeforeIdna(ascii) ==
    IF ascii.ok THEN AsciiHost(ascii.value, ascii.value) ELSE HostError("domain_to_ascii")

ConvertedHost(ascii) ==
    IF ~ascii.ok THEN HostError("domain_to_ascii")
    ELSE IF ContainsAnyOf(ascii.value, ForbiddenDomain) THEN HostError("domain_invalid_code_point")
    ELSE AsciiHost(ascii.value, ascii.value)

\* The first character that is no domain character is a reason to fail, but
\* for '%', what is not ASCII, and "<", "=" or ">" before what is not ASCII.
FailsEarly(s, ptr) ==
    /\ s[ptr] < 128 /\ s[ptr] # Percent
    /\ ~(s[ptr] \in LessThan .. GreaterThan /\ ptr < Len(s) /\ s[ptr + 1] >= 128)

\* The short cut is taken for domain characters without an ACE label.
ParseDomain(s) ==
    LET ptr == FirstNotIn(s, AsciiDomain)
    IN IF ptr = 0 /\ ~HasXnLabel(s) THEN AsciiHost(s, Lowered(s))
       ELSE IF ptr > 0 /\ FailsEarly(s, ptr) THEN HostError("domain_invalid_code_point")
       ELSE ConvertedHost(DomainToAscii(HostDecode(s)))

\* host_parser::parse_host
ParseHost(s, isOpaque) ==
    CASE s = <<>> -> IF isOpaque THEN HostFound(<<>>, "Empty") ELSE HostError("host_missing")
      [] s # <<>> /\ s[1] = OpenBracket ->
           IF Last(s) = CloseBracket THEN ParseIpv6(SubSeq(s, 2, Len(s) - 1))
           ELSE HostError("ipv6_unclosed")
      [] OTHER -> IF isOpaque THEN ParseOpaqueHost(s) ELSE ParseDomain(s)

\* The constructor of url_host: the host, or the exception.
OrException(host) ==
    IF host.res = "ok" THEN Success([host_str |-> host.text, type |-> host.htype]) ELSE Failure
UrlHostOf(s) == OrException(ParseHost(s, FALSE))
=============================================================================

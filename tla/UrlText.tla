------------------------------ MODULE UrlText ------------------------------
(***************************************************************************)
(* Text of the URL library, as the parser of include/upa/url.h sees it.    *)
(*                                                                         *)
(* A text is a sequence of characters and a character is a string.  One    *)
(* character that the parser tells apart ("/", ":", "@", a digit, ...) is  *)
(* one string; a run of characters that the parser never looks into        *)
(* ("http", "localhost", "q") is one string too, and so is what percent    *)
(* encoding makes of one character ("%40").  "u8" is a character outside   *)
(* ASCII, "TAB" is a tab or newline.  Offsets therefore count these strings, which is all that the    *)
(* arithmetic on offsets depends on.                                       *)
(***************************************************************************)
EXTENDS Integers, Sequences

CONSTANT Char      \* the characters of texts; some are named below

Text == Seq(Char)

-----------------------------------------------------------------------------
(* Character classes.                                                      *)

Digits == <<"0", "1", "2", "3", "4", "5", "6", "7", "8", "9">>
Digit == {Digits[n] : n \in 1 .. 10}

\* One letter, and a run of letters.
Letter == {"a", "c", "f", "g", "h", "p", "q", "s", "u", "v", "x", "y", "C", "H"}
Word == {"http", "ws", "ftp", "file", "localhost"}
Alpha == Letter \cup Word

\* Scheme code points: letters, digits and "+", "-", "."
SchemeChar == Alpha \cup Digit \cup {"+", "-", "."}

Slash == {"/", "\\"}
AuthorityEnd == {"/", "?", "#"}
SpecialAuthorityEnd == AuthorityEnd \cup {"\\"}

\* What percent encoding makes of a character that must be encoded.
PercentEncoded(c) ==
    CASE c = " " -> "%20" [] c = "#" -> "%23" [] c = "'" -> "%27"
      [] c = "/" -> "%2F" [] c = ":" -> "%3A" [] c = "?" -> "%3F"
      [] c = "@" -> "%40" [] c = "[" -> "%5B" [] c = "\\" -> "%5C"
      [] c = "]" -> "%5D" [] c = "|" -> "%7C" [] c = "u8" -> "%C3%A9"
      [] c = "TAB" -> "%09"
      [] OTHER -> c

\* The characters that the code writes by itself; Char holds others too.
Escape == {"%20", "%23", "%27", "%2F", "%3A", "%3F", "%40", "%5B", "%5C", "%5D",
           "%7C", "%C3%A9", "%09"}
Written == Digit \cup Escape
             \cup {"/", ":", "?", "#", "@", ".", "[", "]", "c", "h", "file", "xn--u8"}

ASSUME CharAssumption == Written \subseteq Char

\* The percent-encode sets, by what they encode.
C0ControlSet == {"u8", "TAB"}
FragmentSet == C0ControlSet \cup {" "}
QuerySet == C0ControlSet \cup {" ", "#"}
SpecialQuerySet == QuerySet \cup {"'"}
PathSet == QuerySet \cup {"?"}
UserinfoSet == PathSet \cup {"/", ":", "@", "[", "\\", "]", "|"}

\* append_utf8_percent_encoded: every character of s, encoded when in set.
Encode(s, set) ==
    [i \in 1 .. Len(s) |-> IF s[i] \in set THEN PercentEncoded(s[i]) ELSE s[i]]

\* The letters of s in lower case.
Lower(s) ==
    [i \in 1 .. Len(s) |-> CASE s[i] = "C" -> "c" [] s[i] = "H" -> "h" [] OTHER -> s[i]]

-----------------------------------------------------------------------------
(* Searching.  Positions are 1-based; a search that fails returns the      *)
(* position past the end, as the code's "last".                            *)

FindFirst(s, set) ==
    LET hits == {i \in 1 .. Len(s) : s[i] \in set}
    IN IF hits = {} THEN Len(s) + 1
       ELSE CHOOSE i \in hits : \A j \in hits : i =< j

FindFirstNot(s, set) ==
    LET hits == {i \in 1 .. Len(s) : s[i] \notin set}
    IN IF hits = {} THEN Len(s) + 1
       ELSE CHOOSE i \in hits : \A j \in hits : i =< j

FindLast(s, set) ==
    LET hits == {i \in 1 .. Len(s) : s[i] \in set}
    IN IF hits = {} THEN Len(s) + 1
       ELSE CHOOSE i \in hits : \A j \in hits : j =< i

FindLastNot(s, set) ==
    LET hits == {i \in 1 .. Len(s) : s[i] \notin set}
    IN IF hits = {} THEN 0
       ELSE CHOOSE i \in hits : \A j \in hits : j =< i

\* s up to position i (exclusive), and from position i on.
Before(s, i) == SubSeq(s, 1, i - 1)
From(s, i) == SubSeq(s, i, Len(s))

StartsWith(s, c) == s # <<>> /\ s[1] = c
StartsWith2(s, c, d) == Len(s) > 1 /\ s[1] = c /\ s[2] = d

\* do_trim: leading and trailing C0 controls and spaces are removed.
TrimChar == {" ", "TAB"}
Trim(s) == SubSeq(s, FindFirstNot(s, TrimChar), FindLastNot(s, TrimChar))

\* do_remove_whitespace: tabs and newlines anywhere.
RemoveWhitespace(s) ==
    LET kept[i \in 0 .. Len(s)] ==
            IF i = 0 THEN <<>>
            ELSE IF s[i] = "TAB" THEN kept[i - 1] ELSE Append(kept[i - 1], s[i])
    IN kept[Len(s)]

-----------------------------------------------------------------------------
(* Windows drive letters.                                                  *)

IsWindowsDrive(s) == Len(s) = 2 /\ s[1] \in Letter /\ s[2] \in {":", "|"}
IsNormalizedWindowsDrive(s) == Len(s) = 2 /\ s[1] \in Letter /\ s[2] = ":"

StartsWithWindowsDrive(s) ==
    /\ Len(s) = 2 \/ (Len(s) > 2 /\ s[3] \in SpecialAuthorityEnd)
    /\ IsWindowsDrive(SubSeq(s, 1, 2))

-----------------------------------------------------------------------------
(* Path segments with a meaning: "." and "..", also percent-encoded.       *)

Dot == {".", "%2e"}
IsSingleDot(s) == Len(s) = 1 /\ s[1] \in Dot
IsDoubleDot(s) == Len(s) = 2 /\ s[1] \in Dot /\ s[2] \in Dot

-----------------------------------------------------------------------------
(* Ports and schemes.                                                      *)

DigitValue(c) == CHOOSE n \in 0 .. 9 : Digits[n + 1] = c

\* port_from_str: the number that a sequence of at most five digits denotes.
PortValue(s) ==
    LET Place(i) == IF i < Len(s) THEN DigitValue(s[Len(s) - i]) ELSE 0
    IN Place(0) + 10 * Place(1) + 100 * Place(2) + 1000 * Place(3) + 10000 * Place(4)

\* The row of kSchemes, and what a null scheme_info pointer stands for.
Info(port, special, file, http) ==
    [port |-> port, special |-> special, file |-> file, http |-> http]

NoInfo == Info(-1, FALSE, FALSE, FALSE)

SchemeInfo == [port : Int, special : BOOLEAN, file : BOOLEAN, http : BOOLEAN]

GetSchemeInfo(scheme) ==
    CASE scheme = <<"ws">> -> Info(80, TRUE, FALSE, FALSE)
      [] scheme = <<"ws", "s">> -> Info(443, TRUE, FALSE, FALSE)
      [] scheme = <<"ftp">> -> Info(21, TRUE, FALSE, FALSE)
      [] scheme = <<"http">> -> Info(80, TRUE, FALSE, TRUE)
      [] scheme = <<"file">> -> Info(-1, TRUE, TRUE, FALSE)
      [] scheme = <<"http", "s">> -> Info(443, TRUE, FALSE, TRUE)
      [] OTHER -> NoInfo
=============================================================================

------------------------------ MODULE FormCode ------------------------------
(***************************************************************************)
(* The application/x-www-form-urlencoded parser and serializer of          *)
(* url_search_params (do_parse, urlencode and serialize of                 *)
(* include/upa/url_search_params.h).  A list of parameters is a sequence   *)
(* of pairs <<name, value>> of byte strings.                               *)
(***************************************************************************)
EXTENDS PercentCode

Ampersand == 38
EqualSign == 61
Plus == 43
QuestionMark == 63

\* One turn of the loop of do_parse, on the byte at f.it.  pval says which
\* of name and value is being filled.
\* Mutant: the '=' after the first one starts the value again.
OnEqualRestarts(f) == [f EXCEPT !.inValue = TRUE, !.value = <<>>, !.it = @ + 1]

Push(f, b) == IF f.inValue THEN [f EXCEPT !.value = Append(@, b)]
              ELSE [f EXCEPT !.name = Append(@, b)]

OnEqual(f) ==
    IF f.inValue THEN [Push(f, EqualSign) EXCEPT !.it = @ + 1]
    ELSE [f EXCEPT !.inValue = TRUE, !.it = @ + 1]

\* The pair that ends at f.it is added, if it is not empty.
AddPair(f) ==
    IF f.start = f.it THEN f
    ELSE [f EXCEPT !.list = Append(@, <<CheckFixUtf8(f.name), CheckFixUtf8(f.value)>>),
                   !.name = <<>>, !.value = <<>>]

OnAmpersand(f) == [AddPair(f) EXCEPT !.inValue = FALSE, !.start = f.it + 1, !.it = @ + 1]

OnByte(f, s) ==
    CASE s[f.it] = EqualSign -> OnEqual(f)
      [] s[f.it] = Ampersand -> OnAmpersand(f)
      [] s[f.it] = Plus -> [Push(f, 32) EXCEPT !.it = @ + 1]
      [] s[f.it] = Percent /\ HasHex(s, f.it + 1) ->
           [Push(f, HexByte(s, f.it + 1)) EXCEPT !.it = @ + 3]
      [] OTHER -> [Push(f, s[f.it]) EXCEPT !.it = @ + 1]

FormState ==
    [it : Nat \ {0}, start : Nat \ {0}, inValue : BOOLEAN, name : Seq(Byte), value : Seq(Byte),
     list : Seq(Seq(Byte) \X Seq(Byte))]

\* do_parse
FormParse(remQmark, s) ==
    LET b == IF remQmark /\ s # <<>> /\ s[1] = QuestionMark THEN 2 ELSE 1
        loop[f \in FormState] == IF f.it > Len(s) THEN AddPair(f) ELSE loop[OnByte(f, s)]
    IN loop[[it |-> b, start |-> b, inValue |-> FALSE, name |-> <<>>, value |-> <<>>,
             list |-> <<>>]].list

\* kEncByte: the bytes that stand for themselves; ' ' becomes '+'.
FormKept == AsciiDigit \cup AsciiAlpha \cup {42, 45, 46, 95}

\* urlencode
\* Mutant: a '+' is kept.
EncByteKeepsPlus(b) ==
    IF b \in FormKept \cup {Plus} THEN <<b>> ELSE IF b = 32 THEN <<Plus>> ELSE EncodedByte(b)

EncByte(b) ==
    IF b \in FormKept THEN <<b>> ELSE IF b = 32 THEN <<Plus>> ELSE EncodedByte(b)

UrlEncode(s) ==
    LET out[k \in 0 .. Len(s)] == IF k = 0 THEN <<>> ELSE out[k - 1] \o EncByte(s[k])
    IN out[Len(s)]

\* serialize
FormSerialize(list) ==
    LET pair(k) == UrlEncode(list[k][1]) \o <<EqualSign>> \o UrlEncode(list[k][2])
        out[k \in 0 .. Len(list)] ==
            CASE k = 0 -> <<>>
              [] k = 1 -> pair(1)
              [] OTHER -> out[k - 1] \o <<Ampersand>> \o pair(k)
    IN out[Len(list)]
=============================================================================

------------------------------ MODULE MCCodec ------------------------------
(***************************************************************************)
(* The strings that TLC converts: every combination of a few chunks, taken *)
(* at the boundaries of the tables and limits of the code.                 *)
(***************************************************************************)
EXTENDS CodecCorrect

Kinds == {"utf8", "wide", "points", "compare", "percent", "form", "ipv4", "ipv6", "octets", "pieces", "host"}

\* ASCII text as codes.
Code(c) == CASE c = "0" -> 48 [] c = "1" -> 49 [] c = "2" -> 50 [] c = "3" -> 51
             [] c = "4" -> 52 [] c = "5" -> 53 [] c = "6" -> 54 [] c = "7" -> 55
             [] c = "8" -> 56 [] c = "9" -> 57 [] c = "f" -> 102 [] c = "g" -> 103
             [] c = "x" -> 120 [] c = "A" -> 65 [] c = "B" -> 66 [] c = "C" -> 67 [] c = "E" -> 69
             [] c = "." -> 46 [] c = ":" -> 58 [] c = "%" -> 37 [] c = "&" -> 38
             [] c = "=" -> 61 [] c = "+" -> 43 [] c = "?" -> 63
T(s) == [i \in DOMAIN s |-> Code(s[i])]
Rep(c, n) == [i \in 1 .. n |-> c]

\* The bytes at which Table 3-7 changes.
Utf8Bytes == {65, 128, 143, 144, 159, 160, 191, 193, 194, 224, 237, 239, 240, 244, 245}

\* Characters whose order differs between code points and code units, and
\* bytes that are none.
Characters == {<<97>>, <<238, 128, 128>>, <<239, 191, 191>>, <<240, 144, 128, 128>>,
               <<240, 144, 128, 129>>, <<240, 144, 144, 128>>, <<255>>}

Units == {97, 55295, 55296, 56319, 56320, 57343, 57344, 65535}

\* Where a code point takes one byte or unit more, or is none any longer; the
\* last is the largest number of TLC, less than half of what 32 bits hold.
Points == {0, 127, 128, 2047, 2048, 55295, 55296, 56320, 57343, 57344, 65535, 65536,
           1114111, 1114112, 2147483647}

Ipv4Seeds ==
    {<<>>, T(<<"x">>), T(<<"1">>), T(<<"0", "x">>), T(<<"0", "8">>), T(<<"0", "7">>), T(<<"f">>),
     T(<<"4", "2", "9", "4", "9", "6", "7", "2", "9", "5">>),
     T(<<"4", "2", "9", "4", "9", "6", "7", "2", "9", "6">>),
     T(<<"0", "3">>) \o Rep(55, 10), T(<<"0", "4">>) \o Rep(48, 10),
     T(<<"0", "x">>) \o Rep(102, 8), T(<<"0", "x", "1">>) \o Rep(48, 8),
     T(<<"0", "x">>) \o Rep(48, 12) \o T(<<"f">>), Rep(57, 12)}

Ipv4Chunks ==
    {T(<<".">>), T(<<".", "1">>), T(<<".", "2", "5", "6">>), T(<<".", "0", "x">>),
     T(<<".", "6", "5", "5", "3", "5">>), T(<<".", "6", "5", "5", "3", "6">>),
     T(<<".", "1", "6", "7", "7", "7", "2", "1", "5">>),
     T(<<".", "1", "6", "7", "7", "7", "2", "1", "6">>)}

Ipv6Seeds ==
    {<<>>, T(<<":", ":">>), T(<<"1", ":", "f", ":", "0", ":", "1", ":">>),
     T(<<":", ":", "1", ":", "1", ":", "1", ":", "1">>),
     T(<<":", ":", "1", ".", "1">>),
     T(<<"1", ":", "1", ":", "1", ":", "1", ":", "1", ":", "1", ":", "1", ".", "0">>)}

Ipv6Chunks ==
    {T(<<":">>), T(<<"1">>), T(<<"f", "0">>), T(<<"1", ":">>), T(<<":", "1">>), T(<<".", "0">>),
     T(<<".", "2", "5", "5">>), T(<<".", "2", "5", "6">>), T(<<".">>)}

\* Bytes and escapes of a domain; U+00AD, U+0338, U+3002, U+FF11 and U+FF05,
\* of which ICU makes nothing, a part of a letter, ".", "1" and "%".
HostChunks ==
    {T(<<"A">>), T(<<".">>), T(<<"1">>), T(<<"0", "x">>), T(<<"%">>), T(<<":">>), <<60>>, <<91>>,
     <<93>>, <<127>>, <<195, 169>>, <<194, 173>>, <<204, 184>>, <<227, 128, 130>>,
     <<239, 188, 145>>, <<239, 188, 133>>, <<255>>,
     T(<<"%", "4", "1">>), T(<<"%", "2", "5">>), T(<<"%", "2", "E">>), T(<<"%", "3", "C">>),
     T(<<"%", "C", "C", "%", "B", "8">>), XnPrefix, <<121>>}

KindSeeds ==
    [k \in Kinds |-> CASE k = "ipv4" -> Ipv4Seeds [] k = "ipv6" -> Ipv6Seeds
                     [] k = "host" -> {<<>>, XnPrefix, T(<<"1", ".">>)} [] OTHER -> {<<>>}]

KindChunks ==
    [k \in Kinds |->
       CASE k = "utf8" -> {<<b>> : b \in Utf8Bytes}
         [] k = "wide" -> {<<u>> : u \in Units}
         [] k = "points" -> {<<p>> : p \in Points}
         [] k = "compare" -> Characters
         [] k = "percent" -> {T(<<"%">>), T(<<"4">>), T(<<"%", "C", "3">>), T(<<"%", "A", "9">>),
                              T(<<"%", "E", "2">>), T(<<"%", "8", "2">>), <<226>>, <<130>>, <<169>>}
         [] k = "form" -> {T(<<"&">>), T(<<"=">>), T(<<"+">>), T(<<"%">>), T(<<"?">>), T(<<"2">>),
                           T(<<"%", "2", "6">>), T(<<"%", "2", "B">>),
                           T(<<"%", "C", "3">>), <<169>>}
         [] k = "ipv4" -> Ipv4Chunks
         [] k = "ipv6" -> Ipv6Chunks
         [] k = "host" -> HostChunks
         [] k = "octets" -> {<<0>>, <<9>>, <<10>>, <<255>>}
         [] k = "pieces" -> {<<0, 0>>, <<0, 1>>, <<1, 0>>, <<65535, 1>>}]

KindMax ==
    [k \in Kinds |-> CASE k = "wide" -> 5 [] k \in {"points", "host"} -> 3 [] OTHER -> 4]
=============================================================================

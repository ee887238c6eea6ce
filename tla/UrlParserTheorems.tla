------------------------- MODULE UrlParserTheorems -------------------------
(***************************************************************************)
(* The invariant of the parser: proof that ShapeInv holds in every state,  *)
(* and with it EndsInOrder, AssertsHold and StatesGoForward.               *)
(*                                                                         *)
(* First what the operations of url_serializer and url_setter do to a url  *)
(* whose ends are in order: how the ends move when text is added, cut or   *)
(* replaced, what each operation leaves of the url that it writes, with    *)
(* the scheme and the cached scheme_inf_ in agreement, and that no         *)
(* assert() of theirs fails.  Then the blocks of url_parse.  Each leaves   *)
(* the serializer as the next block expects it; MayEnter says what that is *)
(* when the text is parsed, MaySet when a setter edits it, and MayReturn   *)
(* at the end.                                                             *)
(***************************************************************************)
EXTENDS UrlInvariant, PositionTheorems

-----------------------------------------------------------------------------
(* Texts: the results of the operators of UrlText are texts, and the       *)
(* positions that a search returns are in the range that the parser        *)
(* relies on.                                                              *)

LEMMA FindFirstRange ==
    ASSUME NEW s \in Text, NEW set
    PROVE  /\ FindFirst(s, set) \in 1 .. Len(s) + 1
           /\ \A i \in 1 .. Len(s) : i < FindFirst(s, set) => s[i] \notin set
           /\ FindFirst(s, set) =< Len(s) => s[FindFirst(s, set)] \in set
<1>. DEFINE hits == {i \in 1 .. Len(s) : s[i] \in set}
            m == CHOOSE i \in hits : \A j \in hits : i =< j
<1>1. Len(s) \in Nat /\ hits \subseteq 1 .. Len(s)
  BY DEF Text
<1>2. FindFirst(s, set) = IF hits = {} THEN Len(s) + 1 ELSE m
  BY DEF FindFirst
<1>3. hits # {} => m \in hits /\ \A j \in hits : m =< j
  <2>. HIDE DEF hits
  <2>1. SUFFICES ASSUME hits # {} PROVE m \in hits /\ \A j \in hits : m =< j
    OBVIOUS
  <2>2. \E i \in hits : \A j \in hits : i =< j
    <3>1. hits \subseteq Nat
      BY <1>1
    <3>. QED  BY <2>1, <3>1, Smallest
  <2>. QED  BY <2>2
<1>. HIDE DEF m
<1>. QED  BY <1>1, <1>2, <1>3

LEMMA FindFirstNotRange ==
    ASSUME NEW s \in Text, NEW set
    PROVE  /\ FindFirstNot(s, set) \in 1 .. Len(s) + 1
           /\ \A i \in 1 .. Len(s) : i < FindFirstNot(s, set) => s[i] \in set
           /\ FindFirstNot(s, set) =< Len(s) => s[FindFirstNot(s, set)] \notin set
<1>. DEFINE hits == {i \in 1 .. Len(s) : s[i] \notin set}
            m == CHOOSE i \in hits : \A j \in hits : i =< j
<1>1. Len(s) \in Nat /\ hits \subseteq 1 .. Len(s)
  BY DEF Text
<1>2. FindFirstNot(s, set) = IF hits = {} THEN Len(s) + 1 ELSE m
  BY DEF FindFirstNot
<1>3. hits # {} => m \in hits /\ \A j \in hits : m =< j
  <2>. HIDE DEF hits
  <2>1. SUFFICES ASSUME hits # {} PROVE m \in hits /\ \A j \in hits : m =< j
    OBVIOUS
  <2>2. \E i \in hits : \A j \in hits : i =< j
    <3>1. hits \subseteq Nat
      BY <1>1
    <3>. QED  BY <2>1, <3>1, Smallest
  <2>. QED  BY <2>2
<1>. HIDE DEF m
<1>. QED  BY <1>1, <1>2, <1>3

LEMMA FindLastRange ==
    ASSUME NEW s \in Text, NEW set
    PROVE  FindLast(s, set) \in 1 .. Len(s) + 1
<1>. DEFINE hits == {i \in 1 .. Len(s) : s[i] \in set}
            m == CHOOSE i \in hits : \A j \in hits : j =< i
<1>1. Len(s) \in Nat /\ hits \subseteq 1 .. Len(s)
  BY DEF Text
<1>2. FindLast(s, set) = IF hits = {} THEN Len(s) + 1 ELSE m
  BY DEF FindLast
<1>3. hits # {} => m \in hits /\ \A j \in hits : j =< m
  <2>. HIDE DEF hits
  <2>1. SUFFICES ASSUME hits # {} PROVE m \in hits /\ \A j \in hits : j =< m
    OBVIOUS
  <2>2. \E i \in hits : \A j \in hits : j =< i
    BY <1>1, <2>1, Largest
  <2>. QED  BY <2>2
<1>. HIDE DEF m
<1>. QED  BY <1>1, <1>2, <1>3

LEMMA FindLastNotRange ==
    ASSUME NEW s \in Text, NEW set
    PROVE  /\ FindLastNot(s, set) \in 0 .. Len(s)
           /\ \A i \in 1 .. Len(s) : s[i] \notin set => i =< FindLastNot(s, set)
<1>. DEFINE hits == {i \in 1 .. Len(s) : s[i] \notin set}
            m == CHOOSE i \in hits : \A j \in hits : j =< i
<1>1. Len(s) \in Nat /\ hits \subseteq 1 .. Len(s)
  BY DEF Text
<1>2. FindLastNot(s, set) = IF hits = {} THEN 0 ELSE m
  BY DEF FindLastNot
<1>3. hits # {} => m \in hits /\ \A j \in hits : j =< m
  <2>. HIDE DEF hits
  <2>1. SUFFICES ASSUME hits # {} PROVE m \in hits /\ \A j \in hits : j =< m
    OBVIOUS
  <2>2. \E i \in hits : \A j \in hits : j =< i
    BY <1>1, <2>1, Largest
  <2>. QED  BY <2>2
<1>. HIDE DEF m
<1>. QED  BY <1>1, <1>2, <1>3

-----------------------------------------------------------------------------

LEMMA SubText ==
    ASSUME NEW s \in Text, NEW i \in Int, NEW j \in Int, 1 =< i, j =< Len(s)
    PROVE  /\ SubSeq(s, i, j) \in Text
           /\ Len(SubSeq(s, i, j)) = IF i =< j THEN j - i + 1 ELSE 0
           /\ \A k \in 1 .. j - i + 1 : SubSeq(s, i, j)[k] = s[i + k - 1]
<1>1. \A k \in i .. j : s[k] \in Char
  BY ElementOfSeq DEF Text
<1>. QED  BY <1>1, SubSeqProperties DEF Text

\* The first n characters, and what is between two positions.
LEMMA PrefixText ==
    ASSUME NEW s \in Text, NEW n \in Nat, n =< Len(s)
    PROVE  /\ SubSeq(s, 1, n) \in Text /\ Len(SubSeq(s, 1, n)) = n
           /\ \A k \in 1 .. n : SubSeq(s, 1, n)[k] = s[k]
<1>1. /\ SubSeq(s, 1, n) \in Text
      /\ Len(SubSeq(s, 1, n)) = IF 1 =< n THEN n - 1 + 1 ELSE 0
      /\ \A k \in 1 .. n - 1 + 1 : SubSeq(s, 1, n)[k] = s[1 + k - 1]
  BY SubText
<1>2. n - 1 + 1 = n /\ \A k \in 1 .. n : 1 + k - 1 = k
  OBVIOUS
<1>. QED  BY <1>1, <1>2

LEMMA PieceText ==
    ASSUME NEW s \in Text, NEW i \in Nat, NEW j \in Nat, i =< j, j =< Len(s)
    PROVE  /\ SubSeq(s, i + 1, j) \in Text /\ Len(SubSeq(s, i + 1, j)) = j - i
           /\ \A k \in 1 .. j - i : SubSeq(s, i + 1, j)[k] = s[i + k]
<1>. DEFINE m == i + 1
<1>1. m \in Int /\ 1 =< m
  OBVIOUS
<1>2. /\ j - m + 1 = j - i /\ (m =< j => j - m + 1 = j - i) /\ (~(m =< j) => j - i = 0)
      /\ \A k \in 1 .. j - i : m + k - 1 = i + k
  OBVIOUS
<1>. HIDE DEF m
<1>3. /\ SubSeq(s, m, j) \in Text
      /\ Len(SubSeq(s, m, j)) = IF m =< j THEN j - m + 1 ELSE 0
      /\ \A k \in 1 .. j - m + 1 : SubSeq(s, m, j)[k] = s[m + k - 1]
  BY <1>1, SubText
<1>4. /\ SubSeq(s, m, j) \in Text /\ Len(SubSeq(s, m, j)) = j - i
      /\ \A k \in 1 .. j - i : SubSeq(s, m, j)[k] = s[i + k]
  BY <1>2, <1>3
<1>. QED  BY <1>4 DEF m

LEMMA BeforeText ==
    ASSUME NEW s \in Text, NEW i \in 1 .. Len(s) + 1
    PROVE  Before(s, i) \in Text /\ Len(Before(s, i)) = i - 1
           /\ \A k \in 1 .. i - 1 : Before(s, i)[k] = s[k]
<1>1. Len(s) \in Nat
  BY DEF Text
<1>2. i - 1 \in Int /\ i - 1 =< Len(s)
  BY <1>1
<1>. QED  BY <1>1, <1>2, SubText DEF Before

LEMMA RestText ==
    ASSUME NEW s \in Text, NEW i \in Nat, 1 =< i
    PROVE  From(s, i) \in Text
<1>1. Len(s) \in Nat
  BY DEF Text
<1>. QED  BY <1>1, SubText DEF From

LEMMA PercentEncodedChar ==
    ASSUME NEW c \in Char
    PROVE  PercentEncoded(c) \in Char
<1>1. PercentEncoded(c) \in Escape \cup {c}
  BY DEF PercentEncoded, Escape
<1>2. Escape \subseteq Char
  BY CharAssumption DEF Written
<1>. QED  BY <1>1, <1>2

LEMMA EncodeText ==
    ASSUME NEW s \in Text, NEW set
    PROVE  Encode(s, set) \in Text /\ Len(Encode(s, set)) = Len(s)
<1>1. Len(s) \in Nat /\ \A i \in 1 .. Len(s) : s[i] \in Char
  BY ElementOfSeq DEF Text
<1>2. \A i \in 1 .. Len(s) :
        (IF s[i] \in set THEN PercentEncoded(s[i]) ELSE s[i]) \in Char
  BY <1>1, PercentEncodedChar
<1>. QED  BY <1>1, <1>2 DEF Encode, Text

LEMMA LowerText ==
    ASSUME NEW s \in Text
    PROVE  Lower(s) \in Text /\ Len(Lower(s)) = Len(s)
<1>1. Len(s) \in Nat /\ \A i \in 1 .. Len(s) : s[i] \in Char
  BY ElementOfSeq DEF Text
<1>2. "c" \in Char /\ "h" \in Char
  BY CharAssumption DEF Written
<1>3. \A i \in 1 .. Len(s) :
        (CASE s[i] = "C" -> "c" [] s[i] = "H" -> "h" [] OTHER -> s[i]) \in Char
  BY <1>1, <1>2
<1>. QED  BY <1>1, <1>3 DEF Lower, Text

LEMMA TrimText ==
    ASSUME NEW s \in Text
    PROVE  Trim(s) \in Text
<1>1. Len(s) \in Nat
  BY DEF Text
<1>. DEFINE i == FindFirstNot(s, TrimChar)
            j == FindLastNot(s, TrimChar)
<1>2. i \in 1 .. Len(s) + 1 /\ j \in 0 .. Len(s)
  BY FindFirstNotRange, FindLastNotRange
<1>. HIDE DEF i, j
<1>3. SubSeq(s, i, j) \in Text
  BY <1>1, <1>2, SubText
<1>. QED  BY <1>3 DEF Trim, i, j

LEMMA TailText ==
    ASSUME NEW s \in Text, s # <<>>
    PROVE  Tail(s) \in Text /\ Len(Tail(s)) = Len(s) - 1
BY HeadTailProperties DEF Text

LEMMA ConcatText ==
    ASSUME NEW s \in Text, NEW r \in Text
    PROVE  /\ s \o r \in Text
           /\ Len(s \o r) = Len(s) + Len(r)
           /\ \A i \in 1 .. Len(s) : (s \o r)[i] = s[i]
           /\ \A i \in 1 .. Len(r) : (s \o r)[Len(s) + i] = r[i]
<1>1. Len(s) \in Nat /\ Len(r) \in Nat
  BY DEF Text
<1>. QED  BY <1>1, ConcatProperties DEF Text

\* The recursive function of RemoveWhitespace exists, because each of its
\* initial parts does, and its values are texts.
LEMMA RemoveWhitespaceText ==
    ASSUME NEW s \in Text
    PROVE  RemoveWhitespace(s) \in Text
<1>. DEFINE Value(g, i) == IF i = 0 THEN <<>>
                           ELSE IF s[i] = "TAB" THEN g[i - 1] ELSE Append(g[i - 1], s[i])
            Function(g, n) == g = [i \in 0 .. n |-> Value(g, i)]
            kept == CHOOSE g : Function(g, Len(s))
            missing == {n \in 0 .. Len(s) : ~(\E g : Function(g, n))}
<1>1. Len(s) \in Nat /\ \A i \in 1 .. Len(s) : s[i] \in Char
  BY ElementOfSeq DEF Text
<1>2. missing = {}
  <2>1. SUFFICES ASSUME missing # {} PROVE FALSE
    OBVIOUS
  <2>2. PICK m \in missing : \A n \in missing : m =< n
    <3>1. missing \subseteq Nat
      BY <1>1
    <3>. HIDE DEF missing
    <3>. QED  BY <2>1, <3>1, Smallest
  <2>3. m \in 0 .. Len(s) /\ ~(\E g : Function(g, m))
    OBVIOUS
  <2>4. m # 0
    <3>1. Function([i \in 0 .. 0 |-> <<>>], 0)
      OBVIOUS
    <3>. QED  BY <2>3, <3>1
  <2>5. m - 1 \in 0 .. Len(s) /\ m - 1 \notin missing
    <3>1. m - 1 \in 0 .. Len(s) /\ ~(m =< m - 1)
      BY <1>1, <2>3, <2>4
    <3>. HIDE DEF missing
    <3>. QED  BY <2>2, <3>1
  <2>6. PICK g : Function(g, m - 1)
    BY <2>5
  <2>. DEFINE h == [i \in 0 .. m |-> IF i = m THEN Value(g, m) ELSE g[i]]
  <2>7. \A i \in 0 .. m : h[i] = Value(h, i)
    <3>1. SUFFICES ASSUME NEW i \in 0 .. m PROVE h[i] = Value(h, i)
      OBVIOUS
    <3>2. i # 0 => i - 1 \in 0 .. m /\ i - 1 # m /\ h[i - 1] = g[i - 1]
      BY <1>1, <2>3
    <3>3. i # m => i \in 0 .. m - 1
      BY <2>3
    <3>4. i # m => g[i] = Value(g, i)
      BY <2>6, <3>3
    <3>. QED  BY <3>2, <3>4
  <2>8. Function(h, m)
    BY <2>7
  <2>. QED  BY <2>3, <2>8
<1>3. Function(kept, Len(s))
  <2>1. \E g : Function(g, Len(s))
    BY <1>1, <1>2
  <2>. HIDE DEF Function
  <2>. QED  BY <2>1
<1>. DEFINE wrong == {n \in 0 .. Len(s) : kept[n] \notin Text}
<1>4. wrong = {}
  <2>. HIDE DEF kept
  <2>1. SUFFICES ASSUME wrong # {} PROVE FALSE
    OBVIOUS
  <2>2. PICK m \in wrong : \A n \in wrong : m =< n
    <3>1. wrong \subseteq Nat
      BY <1>1
    <3>. HIDE DEF wrong
    <3>. QED  BY <2>1, <3>1, Smallest
  <2>3. m \in 0 .. Len(s) /\ kept[m] \notin Text /\ kept[m] = Value(kept, m)
    BY <1>3
  <2>4. m # 0
    BY <2>3 DEF Text
  <2>5. m - 1 \in 0 .. Len(s) /\ m - 1 \notin wrong /\ m \in 1 .. Len(s)
    BY <1>1, <2>2, <2>3, <2>4
  <2>6. kept[m - 1] \in Text /\ s[m] \in Char
    BY <1>1, <2>5
  <2>7. Append(kept[m - 1], s[m]) \in Text
    <3>. HIDE DEF wrong
    <3>. QED  BY <2>6 DEF Text
  <2>. QED  BY <2>3, <2>4, <2>6, <2>7
<1>5. kept[Len(s)] \in Text
  <2>. HIDE DEF kept
  <2>. QED  BY <1>1, <1>4
<1>. QED  BY <1>5 DEF RemoveWhitespace

LEMMA GetSchemeInfoType ==
    ASSUME NEW scheme
    PROVE  /\ GetSchemeInfo(scheme) \in SchemeInfo
           /\ GetSchemeInfo(scheme).file => GetSchemeInfo(scheme).special
           /\ NoInfo \in SchemeInfo
BY DEF GetSchemeInfo, Info, NoInfo, SchemeInfo

-----------------------------------------------------------------------------
(* Part numbers.  Part stays a name in the proofs; these are the facts of  *)
(* arithmetic about it.                                                    *)

LEMMA PartInt ==
    /\ \A t \in Part : t \in Int /\ SCHEME =< t /\ t =< FRAGMENT
    /\ \A t \in Part : t # SCHEME => t - 1 \in Part
    /\ \A s, t \in Part : \A i \in s .. t : i \in Part
BY DEF Part, SCHEME, FRAGMENT

LEMMA PartNumbers ==
    /\ SCHEME \in Part /\ SCHEME_SEP \in Part /\ USERNAME \in Part
    /\ PASSWORD \in Part /\ HOST_START \in Part /\ HOST \in Part /\ PORT \in Part
    /\ PATH_PREFIX \in Part /\ PATH \in Part /\ QUERY \in Part /\ FRAGMENT \in Part
    /\ SCHEME = 0 /\ SCHEME_SEP = 1 /\ USERNAME = 2 /\ PASSWORD = 3
    /\ HOST_START = 4 /\ HOST = 5 /\ PORT = 6 /\ PATH_PREFIX = 7 /\ PATH = 8
    /\ QUERY = 9 /\ FRAGMENT = 10
BY DEF Part, SCHEME, SCHEME_SEP, USERNAME, PASSWORD, HOST_START, HOST, PORT,
       PATH_PREFIX, PATH, QUERY, FRAGMENT

-----------------------------------------------------------------------------
(* Ends in order.                                                          *)

LEMMA InOrderFacts ==
    ASSUME NEW E \in [Part -> Nat], NEW len \in Nat, NEW l \in Part, InOrder(E, len, l)
    PROVE  /\ \A t \in Part : E[t] \in Nat
           /\ \A t \in Part : t =< l => E[t] > 0 /\ E[t] =< E[l] /\ E[t] =< len
           /\ \A t \in Part : t > l => E[t] = 0
           /\ \A s, t \in Part : s =< t /\ t =< l => E[s] =< E[t]
           /\ E[SCHEME] > 0 /\ E[SCHEME] =< len
           /\ l # SCHEME => len = E[l]
           /\ l = SCHEME => len = E[SCHEME] + 1
<1>1. \A t \in Part : E[t] \in Nat /\ t \in Int /\ SCHEME =< t
  BY PartInt
<1>2. l \in Int /\ SCHEME \in Part /\ SCHEME \in Int
  BY PartInt, PartNumbers
<1>3. ASSUME NEW t \in Part, t =< l
      PROVE  E[t] > 0 /\ E[t] =< E[l] /\ E[t] =< len
  <2>1. E[t] # 0 /\ E[t] =< E[l] /\ E[t] \in Nat /\ E[l] \in Nat
    BY <1>1, <1>2, <1>3 DEF InOrder
  <2>2. len = E[l] \/ (l = SCHEME /\ len = E[l] + 1)
    BY DEF InOrder
  <2>. QED  BY <2>1, <2>2
<1>4. ASSUME NEW t \in Part, t > l PROVE E[t] = 0
  <2>1. ~(t =< l)
    BY <1>1, <1>2, <1>4
  <2>. QED  BY <2>1 DEF InOrder
<1>5. SCHEME =< l
  BY <1>1
<1>6. /\ \A s, t \in Part : s =< t /\ t =< l => E[s] =< E[t]
      /\ l # SCHEME => len = E[l]
      /\ l = SCHEME => len = E[SCHEME] + 1
  BY DEF InOrder
<1>. QED  BY <1>1, <1>2, <1>3, <1>4, <1>5, <1>6

\* The URL is cut within part m or at its start.
LEMMA EndsCut ==
    ASSUME NEW E \in [Part -> Nat], NEW len \in Nat, NEW l \in Part, InOrder(E, len, l),
           NEW F \in [Part -> Nat], NEW m \in Part, m # SCHEME, m =< l,
           \A t \in Part : t < m => F[t] = E[t],
           \A t \in Part : t > m => F[t] = 0,
           E[m - 1] =< F[m]
    PROVE  InOrder(F, F[m], m)
<1>1. /\ \A t \in Part : t \in Int /\ E[t] \in Nat /\ F[t] \in Nat
      /\ l \in Int /\ m \in Int /\ m - 1 \in Part /\ m - 1 \in Int
  BY PartInt
<1>2. /\ \A t \in Part : t =< l => E[t] > 0
      /\ \A s, t \in Part : s =< t /\ t =< l => E[s] =< E[t]
  BY InOrderFacts
<1>3. E[m - 1] > 0
  <2>1. m - 1 =< l
    BY <1>1
  <2>. QED  BY <1>1, <1>2, <2>1
<1>4. ASSUME NEW t \in Part PROVE F[t] # 0 <=> t =< m
  <2>1. CASE t < m
    <3>1. F[t] = E[t] /\ t =< l
      BY <1>1, <2>1
    <3>. QED  BY <1>1, <1>2, <2>1, <3>1
  <2>2. CASE t = m
    BY <1>1, <1>3, <2>2
  <2>3. CASE t > m
    BY <1>1, <2>3
  <2>. QED  BY <1>1, <2>1, <2>2, <2>3
<1>5. ASSUME NEW s \in Part, NEW t \in Part, s =< t, t =< m PROVE F[s] =< F[t]
  <2>1. CASE t < m
    <3>1. s < m /\ t =< l
      BY <1>1, <1>5, <2>1
    <3>2. F[s] = E[s] /\ F[t] = E[t]
      BY <2>1, <3>1
    <3>. QED  BY <1>2, <1>5, <3>1, <3>2
  <2>2. CASE s < m /\ t = m
    <3>1. s =< m - 1 /\ m - 1 =< l
      BY <1>1, <2>2
    <3>2. F[s] = E[s] /\ E[s] =< E[m - 1]
      BY <1>1, <1>2, <2>2, <3>1
    <3>. QED  BY <1>1, <2>2, <3>2
  <2>3. CASE s = m /\ t = m
    BY <1>1, <2>3
  <2>. QED  BY <1>1, <1>5, <2>1, <2>2, <2>3
<1>. QED  BY <1>1, <1>4, <1>5 DEF InOrder

\* The ends after part k are written anew, up to part m, at or behind the end
\* of k.
NewEnds(E, F, k, m) ==
    /\ \A t \in Part : t =< k => F[t] = E[t]
    /\ \A t \in Part : t > m => F[t] = 0
    /\ \A t \in Part : k < t /\ t =< m => E[k] =< F[t]
    /\ \A s, t \in Part : k < s /\ s =< t /\ t =< m => F[s] =< F[t]

LEMMA EndsRewritten ==
    ASSUME NEW E \in [Part -> Nat], NEW len \in Nat, NEW l \in Part, InOrder(E, len, l),
           NEW k \in Part, k =< l,
           NEW F \in [Part -> Nat], NEW m \in Part, k < m, NewEnds(E, F, k, m)
    PROVE  InOrder(F, F[m], m)
<1>. USE DEF NewEnds
<1>1. /\ \A t \in Part : t \in Int /\ E[t] \in Nat /\ F[t] \in Nat /\ SCHEME =< t
      /\ l \in Int /\ m \in Int /\ k \in Int /\ SCHEME \in Int /\ m # SCHEME
  BY PartInt, PartNumbers
<1>2. /\ \A t \in Part : t =< k => E[t] > 0 /\ E[t] =< E[k]
      /\ \A s, t \in Part : s =< t /\ t =< k => E[s] =< E[t]
  <2>1. \A t \in Part : t =< k => t =< l
    BY <1>1
  <2>. QED  BY <1>1, <2>1, InOrderFacts
<1>3. ASSUME NEW t \in Part PROVE F[t] # 0 <=> t =< m
  <2>1. CASE t =< k
    BY <1>1, <1>2, <2>1
  <2>2. CASE k < t /\ t =< m
    <3>1. E[k] > 0 /\ E[k] =< F[t]
      BY <1>1, <1>2, <2>2
    <3>. QED  BY <1>1, <2>2, <3>1
  <2>3. CASE m < t
    BY <1>1, <2>3
  <2>. QED  BY <1>1, <2>1, <2>2, <2>3
<1>4. ASSUME NEW s \in Part, NEW t \in Part, s =< t, t =< m PROVE F[s] =< F[t]
  <2>1. CASE t =< k
    <3>1. s =< k
      BY <1>1, <1>4, <2>1
    <3>. QED  BY <1>2, <1>4, <2>1, <3>1
  <2>2. CASE s =< k /\ k < t
    <3>1. F[s] = E[s] /\ E[s] =< E[k] /\ E[k] =< F[t]
      BY <1>2, <1>4, <2>2
    <3>. QED  BY <1>1, <3>1
  <2>3. CASE k < s
    BY <1>4, <2>3
  <2>. QED  BY <1>1, <2>1, <2>2, <2>3
<1>. QED  BY <1>1, <1>3, <1>4 DEF InOrder

\* Part l itself gets longer or shorter, and nothing follows it.
LEMMA EndsResized ==
    ASSUME NEW E \in [Part -> Nat], NEW len \in Nat, NEW l \in Part, InOrder(E, len, l),
           l # SCHEME, NEW n \in Nat, E[l - 1] =< n
    PROVE  /\ [E EXCEPT ![l] = n] \in [Part -> Nat]
           /\ InOrder([E EXCEPT ![l] = n], n, l)
<1>. DEFINE F == [E EXCEPT ![l] = n]
<1>1. F \in [Part -> Nat] /\ F[l] = n /\ \A t \in Part : t # l => F[t] = E[t]
  OBVIOUS
<1>2. \A t \in Part : t \in Int
  BY PartInt
<1>3. \A t \in Part : t > l => E[t] = 0
  BY InOrderFacts
<1>4. l \in Int /\ l - 1 \in Part
  BY PartInt
<1>. HIDE DEF F
<1>5. InOrder(F, F[l], l)
  BY <1>1, <1>2, <1>3, <1>4, EndsCut
<1>. QED  BY <1>1, <1>5 DEF F

\* The scheme gets longer or shorter, and everything moves with its end.
LEMMA EndsShifted ==
    ASSUME NEW E \in [Part -> Nat], NEW len \in Nat, NEW l \in Part, InOrder(E, len, l),
           NEW n \in Nat, n > 0,
           NEW F \in [Part -> Nat],
           \A t \in Part : F[t] = IF t =< l THEN E[t] + n - E[SCHEME] ELSE E[t]
    PROVE  InOrder(F, len + n - E[SCHEME], l)
<1>1. /\ \A t \in Part : t \in Int /\ E[t] \in Nat /\ F[t] \in Nat /\ SCHEME =< t
      /\ SCHEME \in Part /\ l \in Int /\ SCHEME =< l /\ E[SCHEME] \in Nat
  BY PartInt, PartNumbers
<1>2. /\ \A t \in Part : t =< l => E[SCHEME] =< E[t]
      /\ \A t \in Part : t > l => E[t] = 0
      /\ \A s, t \in Part : s =< t /\ t =< l => E[s] =< E[t]
      /\ len = IF l = SCHEME THEN E[SCHEME] + 1 ELSE E[l]
  BY <1>1, InOrderFacts DEF InOrder
<1>3. \A t \in Part : F[t] # 0 <=> t =< l
  BY <1>1, <1>2
<1>4. ASSUME NEW s \in Part, NEW t \in Part, s =< t, t =< l PROVE F[s] =< F[t]
  <2>1. s =< l
    BY <1>1, <1>4
  <2>2. E[s] =< E[t]
    BY <1>2, <1>4
  <2>. QED  BY <1>1, <1>4, <2>1, <2>2
<1>5. len + n - E[SCHEME] = IF l = SCHEME THEN F[SCHEME] + 1 ELSE F[l]
  BY <1>1, <1>2
<1>. QED  BY <1>3, <1>4, <1>5 DEF InOrder

\* replace_part moves the ends from last on, and puts those of the parts
\* first .. last - 1 into the new text, of length n.
MovedEnds(E, first, last, n, len0) ==
    [t \in Part |->
        IF first =< t /\ t < last THEN E[first - 1] + len0
        ELSE IF t >= last /\ \A s \in last .. t : E[s] # 0
             THEN E[t] + (n - (E[last] - E[first - 1]))
             ELSE E[t]]

Moved(E, first, last, n, len0, l) ==
    LET F == MovedEnds(E, first, last, n, len0)
    IN /\ F \in [Part -> Nat] /\ InOrder(F, F[l], l)
       /\ \A t \in Part :
             F[t] = IF first =< t /\ t < last THEN E[first - 1] + len0
                    ELSE IF last =< t /\ t =< l
                         THEN E[t] + (n - (E[last] - E[first - 1]))
                         ELSE E[t]
       /\ E[first - 1] =< E[last] /\ E[last] =< E[l]

LEMMA EndsMoved ==
    ASSUME NEW E \in [Part -> Nat], NEW len \in Nat, NEW l \in Part, InOrder(E, len, l),
           NEW first \in Part, first # SCHEME, NEW last \in Part, first =< last, last =< l,
           NEW n \in Nat, NEW len0 \in Nat, len0 =< n
    PROVE  Moved(E, first, last, n, len0, l) /\ len = E[l] /\ E[last] =< len
<1>. DEFINE b == E[first - 1]
            d == n - (E[last] - b)
            F == MovedEnds(E, first, last, n, len0)
<1>1. /\ first - 1 \in Part /\ first \in Int /\ last \in Int /\ l \in Int
      /\ l # SCHEME /\ first - 1 =< last /\ last =< l /\ first - 1 =< l
  BY PartInt
<1>2. b \in Nat /\ E[last] \in Nat /\ E[l] \in Nat
  BY <1>1
<1>3. b > 0 /\ b =< E[last] /\ E[last] =< E[l] /\ E[last] =< len
  BY <1>1, InOrderFacts
<1>4. d \in Int
  BY <1>2
<1>5. \A t \in Part : last =< t => ((\A s \in last .. t : E[s] # 0) <=> t =< l)
  BY PartInt DEF InOrder
<1>6. \A t \in Part : F[t] = IF first =< t /\ t < last THEN b + len0
                             ELSE IF last =< t /\ t =< l THEN E[t] + d
                             ELSE E[t]
  BY <1>5 DEF MovedEnds
<1>7. F = [t \in Part |-> F[t]]
  BY DEF MovedEnds
<1>8. \A t \in Part : /\ E[t] \in Nat /\ (E[t] # 0 <=> t =< l)
                      /\ (t < first /\ t =< l => E[t] =< b)
                      /\ (last =< t /\ t =< l => E[last] =< E[t])
  <2>. SUFFICES ASSUME NEW t \in Part
                PROVE  /\ E[t] \in Nat /\ (E[t] # 0 <=> t =< l)
                       /\ (t < first /\ t =< l => E[t] =< b)
                       /\ (last =< t /\ t =< l => E[last] =< E[t])
    OBVIOUS
  <2>1. t \in Int /\ (t < first => t =< first - 1)
    BY <1>1, PartInt
  <2>. QED  BY <1>1, <2>1 DEF InOrder
<1>9. \A s, t \in Part : s =< t /\ t =< l => E[s] =< E[t]
  BY DEF InOrder
<1>10. len = E[l]
  BY <1>1 DEF InOrder
<1>. HIDE DEF b, F
<1>12. ASSUME NEW t \in Part PROVE F[t] \in Nat /\ (F[t] # 0 <=> t =< l)
  <2>1. t \in Int
    BY PartInt
  <2>. QED  BY <1>1, <1>2, <1>3, <1>6, <1>8, <2>1
<1>13. ASSUME NEW s \in Part, NEW t \in Part, s =< t, t =< l PROVE F[s] =< F[t]
  <2>1. s \in Int /\ t \in Int
    BY PartInt
  <2>. QED  BY <1>1, <1>2, <1>6, <1>8, <1>9, <1>13, <2>1
<1>15. F \in [Part -> Nat] /\ InOrder(F, F[l], l)
  BY <1>1, <1>7, <1>12, <1>13 DEF InOrder
<1>. QED  BY <1>3, <1>6, <1>10, <1>15 DEF b, F, Moved

-----------------------------------------------------------------------------
(* Url records.                                                            *)

\* v is u with other text after its scheme.
Rewritten(u, v) ==
    /\ v \in Url
    /\ v.inf = u.inf /\ v.flags = u.flags /\ v.htype = u.htype
    /\ v.ends[SCHEME] = u.ends[SCHEME]
    /\ \A i \in 1 .. u.ends[SCHEME] + 1 : v.norm[i] = u.norm[i]

LEMMA UrlType ==
    ASSUME NEW u \in Url
    PROVE  /\ u.norm \in Text /\ Len(u.norm) \in Nat
           /\ u.ends \in [Part -> Nat] /\ \A t \in Part : u.ends[t] \in Nat
           /\ u.inf \in SchemeInfo /\ u.flags \in SUBSET (0 .. 12)
           /\ u.htype \in HostType /\ u.segs \in Nat
           /\ \A i \in 1 .. Len(u.norm) : u.norm[i] \in Char
<1>1. u.norm \in Text /\ u.ends \in [Part -> Nat]
  BY DEF Url
<1>2. Len(u.norm) \in Nat /\ \A i \in 1 .. Len(u.norm) : u.norm[i] \in Char
  BY <1>1, ElementOfSeq DEF Text
<1>. QED  BY <1>1, <1>2 DEF Url

\* The scheme and its ':' are in the text.
LEMMA OrderedFacts ==
    ASSUME NEW u \in Url, NEW l \in Part, Ordered(u, l)
    PROVE  /\ InOrder(u.ends, Len(u.norm), l)
           /\ u.ends[SCHEME] \in Nat /\ u.ends[SCHEME] > 0
           /\ u.ends[SCHEME] + 1 =< Len(u.norm)
           /\ u.norm[u.ends[SCHEME] + 1] = ":"
           /\ l # SCHEME => \A t \in Part : t # SCHEME /\ t =< l =>
                               u.ends[SCHEME] + 1 =< u.ends[t]
           /\ l # SCHEME => Len(u.norm) = u.ends[l]
           /\ \A t \in Part : t > l => u.ends[t] = 0
           /\ \A t \in Part : t =< l => u.ends[t] > 0 /\ u.ends[t] =< Len(u.norm)
           /\ \A s, t \in Part : s =< t /\ t =< l => u.ends[s] =< u.ends[t]
<1>1. InOrder(u.ends, Len(u.norm), l) /\ SchemeEnds(u, l)
  BY DEF Ordered, EndsUpTo
<1>2. u.ends \in [Part -> Nat] /\ Len(u.norm) \in Nat
  BY UrlType
<1>3. /\ \A t \in Part : u.ends[t] \in Nat
      /\ \A t \in Part : t =< l => u.ends[t] > 0 /\ u.ends[t] =< Len(u.norm)
      /\ \A t \in Part : t > l => u.ends[t] = 0
      /\ \A s, t \in Part : s =< t /\ t =< l => u.ends[s] =< u.ends[t]
      /\ u.ends[SCHEME] > 0 /\ u.ends[SCHEME] =< Len(u.norm)
      /\ l # SCHEME => Len(u.norm) = u.ends[l]
      /\ l = SCHEME => Len(u.norm) = u.ends[SCHEME] + 1
  BY <1>1, <1>2, InOrderFacts
<1>4. /\ l \in Int /\ SCHEME \in Part /\ SCHEME_SEP \in Part
      /\ \A t \in Part : t \in Int /\ (t # SCHEME => SCHEME_SEP =< t)
      /\ SCHEME = 0 /\ SCHEME_SEP = 1 /\ l >= 0
  BY PartInt, PartNumbers
<1>5. ASSUME l # SCHEME, NEW t \in Part, t # SCHEME, t =< l
      PROVE  u.ends[SCHEME] + 1 =< u.ends[t]
  <2>1. u.ends[SCHEME] < u.ends[SCHEME_SEP]
    BY <1>1, <1>4, <1>5 DEF SchemeEnds
  <2>2. u.ends[SCHEME_SEP] =< u.ends[t]
    BY <1>3, <1>4, <1>5
  <2>3. /\ u.ends[SCHEME] \in Nat /\ u.ends[SCHEME_SEP] \in Nat
        /\ u.ends[t] \in Nat
    BY <1>3, <1>4
  <2>. QED  BY <2>1, <2>2, <2>3
<1>6. u.ends[SCHEME] + 1 =< Len(u.norm)
  <2>1. CASE l = SCHEME
    BY <1>2, <1>3, <1>4, <2>1
  <2>2. CASE l # SCHEME
    BY <1>2, <1>3, <1>4, <1>5, <2>2
  <2>. QED  BY <2>1, <2>2
<1>. QED  BY <1>1, <1>3, <1>4, <1>5, <1>6 DEF SchemeEnds

\* The scheme and what depends on it stay as they are.
LEMMA SchemeKept ==
    ASSUME NEW u \in Url, NEW l \in Part, Ordered(u, l),
           NEW v, Rewritten(u, v), NEW m \in Part, EndsUpTo(v, m),
           m > SCHEME => u.ends[SCHEME] < v.ends[SCHEME_SEP]
    PROVE  Ordered(v, m)
<1>. DEFINE e == u.ends[SCHEME]
<1>1. /\ e \in Nat /\ e > 0 /\ e + 1 =< Len(u.norm) /\ u.norm[e + 1] = ":"
  BY OrderedFacts
<1>2. /\ v.ends[SCHEME] = e /\ v.inf = u.inf /\ v \in Url
      /\ \A i \in 1 .. e + 1 : v.norm[i] = u.norm[i]
  BY DEF Rewritten
<1>3. v.norm \in Text /\ u.norm \in Text /\ Len(u.norm) \in Nat /\ Len(v.norm) \in Nat
  BY <1>2, UrlType
<1>4. e =< Len(v.norm)
  <2>1. InOrder(v.ends, Len(v.norm), m) /\ v.ends \in [Part -> Nat]
    BY <1>2, UrlType DEF EndsUpTo
  <2>. QED  BY <1>2, <1>3, <2>1, InOrderFacts
<1>5. SchemeEnds(v, m)
  BY <1>1, <1>2 DEF SchemeEnds
<1>. HIDE DEF e
<1>6. View(u, SCHEME) = SubSeq(u.norm, 1, e) /\ View(v, SCHEME) = SubSeq(v.norm, 1, e)
  <2>1. PartPos(u, SCHEME) = 0 /\ PartPos(v, SCHEME) = 0 /\ PartStart(SCHEME) = 0
    BY PartNumbers DEF PartPos, PartStart
  <2>2. View(u, SCHEME) = SubSeq(u.norm, 0 + 0 + 1, u.ends[SCHEME])
        /\ View(v, SCHEME) = SubSeq(v.norm, 0 + 0 + 1, v.ends[SCHEME])
    BY <2>1 DEF View
  <2>. QED  BY <1>2, <2>2 DEF e
<1>7. SubSeq(u.norm, 1, e) = SubSeq(v.norm, 1, e)
  <2>1. /\ SubSeq(u.norm, 1, e) \in Text /\ Len(SubSeq(u.norm, 1, e)) = e
        /\ \A k \in 1 .. e : SubSeq(u.norm, 1, e)[k] = u.norm[k]
    BY <1>1, <1>3, SubText
  <2>2. /\ SubSeq(v.norm, 1, e) \in Text /\ Len(SubSeq(v.norm, 1, e)) = e
        /\ \A k \in 1 .. e : SubSeq(v.norm, 1, e)[k] = v.norm[k]
    BY <1>1, <1>3, <1>4, SubText
  <2>. QED  BY <1>1, <1>2, <2>1, <2>2, SeqEqual DEF Text
<1>8. v.inf = GetSchemeInfo(View(v, SCHEME))
  BY <1>2, <1>6, <1>7 DEF Ordered
<1>. QED  BY <1>5, <1>8 DEF Ordered

\* Ends that agree on the host and, when the path is opaque, on where it
\* starts, agree with the host.
LEMMA HostKept ==
    ASSUME NEW u \in Url, NEW l \in Part, HostAgrees(u, l),
           NEW v \in Url, Rewritten(u, v), NEW m \in Part,
           IsEmpty(u, HOST) => IsEmpty(v, HOST),
           HasOpaquePath(u) => /\ m = SCHEME \/ m >= PATH_PREFIX
                               /\ m >= PATH_PREFIX =>
                                     v.ends[PATH_PREFIX] = u.ends[SCHEME] + 1
    PROVE  HostAgrees(v, m)
BY DEF HostAgrees, Rewritten, IsNull, HasOpaquePath

LEMMA HostIsEmpty ==
    ASSUME NEW u
    PROVE  /\ IsEmpty(u, HOST) <=> u.ends[HOST_START] + 0 >= u.ends[HOST]
           /\ IsEmpty(u, PATH_PREFIX) <=> u.ends[PORT] + 0 >= u.ends[PATH_PREFIX]
BY PartNumbers DEF IsEmpty, PartPos, PartStart
-----------------------------------------------------------------------------
(* replace_part.                                                           *)

\* What replace_part does to the ends, when the ends up to l are set.
LEMMA ReplacePartsEnds ==
    ASSUME NEW u \in Url, NEW l \in Part, Ordered(u, l),
           NEW first \in Part, first # SCHEME, NEW last \in Part,
           first =< last, last =< l,
           NEW str \in Text, NEW len0 \in 0 .. Len(str)
    PROVE  LET v == ReplaceParts(u, first, last, str, len0)
               diff == Len(str) - (u.ends[last] - u.ends[first - 1])
           IN /\ v \in Url
              /\ v.inf = u.inf /\ v.flags = u.flags /\ v.htype = u.htype /\ v.segs = u.segs
              /\ EndsUpTo(v, l)
              /\ \A t \in Part : v.ends[t] = IF first =< t /\ t < last
                                             THEN u.ends[first - 1] + len0
                                             ELSE IF last =< t /\ t =< l THEN u.ends[t] + diff
                                             ELSE u.ends[t]
              /\ \A i \in 1 .. u.ends[first - 1] : v.norm[i] = u.norm[i]
              /\ \A i \in 1 .. Len(str) : v.norm[u.ends[first - 1] + i] = str[i]
<1>. DEFINE norm == u.norm
            E == u.ends
            len == Len(norm)
            n == Len(str)
            b == E[first - 1]
            e == E[last]
            d == n - (e - b)
            newLen == len + d
            F == MovedEnds(E, first, last, n, len0)
            head == SubSeq(norm, 1, b)
            rest == SubSeq(norm, e + 1, len)
            text == head \o str
            v == ReplaceParts(u, first, last, str, len0)
<1>1. /\ first - 1 \in Part /\ first \in Int /\ last \in Int /\ l \in Int
      /\ norm \in Text /\ len \in Nat /\ E \in [Part -> Nat]
      /\ n \in Nat /\ len0 \in Nat /\ len0 =< n
  BY PartInt, UrlType DEF Text
<1>2. InOrder(E, len, l)
  BY DEF Ordered, EndsUpTo
<1>3. v = [u EXCEPT !.norm = text \o rest, !.ends = F]
  BY DEF ReplaceParts, PartPos, EndMoves, MovedEnds
<1>4. len = Len(norm) /\ n = Len(str) /\ b = E[first - 1] /\ e = E[last]
  OBVIOUS
<1>. HIDE DEF norm, E, len, n
<1>5. b \in Nat /\ e \in Nat
  BY <1>1
<1>. HIDE DEF b, e
<1>6. d \in Int /\ newLen \in Int /\ d = n - (e - b) /\ newLen = len + d
      /\ F = MovedEnds(E, first, last, n, len0)
  BY <1>1, <1>5
<1>. HIDE DEF d, newLen, F
<1>7. /\ F \in [Part -> Nat] /\ InOrder(F, newLen, l)
      /\ \A t \in Part : F[t] = IF first =< t /\ t < last THEN b + len0
                                ELSE IF last =< t /\ t =< l THEN E[t] + d
                                ELSE E[t]
      /\ b =< e /\ e =< len
  <2>1. d = n - (E[last] - b)
    BY <1>4, <1>6
  <2>2. /\ F \in [Part -> Nat] /\ InOrder(F, newLen, l)
        /\ \A t \in Part : F[t] = IF first =< t /\ t < last THEN b + len0
                                  ELSE IF last =< t /\ t =< l THEN E[t] + d
                                  ELSE E[t]
        /\ b =< E[last] /\ E[last] =< len
    <3>1. Moved(E, first, last, n, len0, l) /\ len = E[l]
      BY <1>1, <1>2, EndsMoved
    <3>2. F[l] = newLen
      BY <1>1, <1>4, <1>5, <1>6, <3>1 DEF Moved
    <3>. QED  BY <1>4, <1>6, <2>1, <3>1, <3>2 DEF Moved
  <2>. QED  BY <1>4, <2>2
<1>8. head \in Text /\ Len(head) = b /\ \A k \in 1 .. b : head[k] = norm[k]
  <2>1. b =< Len(norm)
    BY <1>1, <1>4, <1>5, <1>7
  <2>. QED  BY <1>1, <1>5, <2>1, PrefixText
<1>9. rest \in Text /\ Len(rest) = len - e
  <2>1. len =< Len(norm)
    BY <1>1, <1>4
  <2>. QED  BY <1>1, <1>5, <1>7, <2>1, PieceText
<1>. HIDE DEF head, rest
<1>10. /\ text \in Text /\ Len(text) = b + n
       /\ \A k \in 1 .. b : text[k] = norm[k]
       /\ \A k \in 1 .. n : text[b + k] = str[k]
  <2>1. /\ head \o str \in Text
        /\ Len(head \o str) = Len(head) + Len(str)
        /\ \A k \in 1 .. Len(head) : (head \o str)[k] = head[k]
        /\ \A k \in 1 .. Len(str) : (head \o str)[Len(head) + k] = str[k]
    BY <1>8, ConcatText
  <2>. QED  BY <1>4, <1>8, <2>1
<1>. HIDE DEF text
<1>11. /\ text \o rest \in Text /\ Len(text \o rest) = newLen
       /\ \A k \in 1 .. b : (text \o rest)[k] = norm[k]
       /\ \A k \in 1 .. n : (text \o rest)[b + k] = str[k]
  <2>1. /\ text \o rest \in Text /\ Len(text \o rest) = Len(text) + Len(rest)
        /\ \A k \in 1 .. Len(text) : (text \o rest)[k] = text[k]
    BY <1>9, <1>10, ConcatText
  <2>2. /\ \A k \in 1 .. b : k \in 1 .. Len(text)
        /\ \A k \in 1 .. n : b + k \in 1 .. Len(text)
    BY <1>1, <1>5, <1>10
  <2>3. Len(text \o rest) = newLen
    BY <1>1, <1>5, <1>6, <1>9, <1>10, <2>1
  <2>4. ASSUME NEW k \in 1 .. b PROVE (text \o rest)[k] = norm[k]
    BY <1>10, <2>1, <2>2
  <2>5. ASSUME NEW k \in 1 .. n PROVE (text \o rest)[b + k] = str[k]
    BY <1>10, <2>1, <2>2
  <2>. QED  BY <2>1, <2>3, <2>4, <2>5
<1>12. /\ v \in Url /\ v.norm = text \o rest /\ v.ends = F
       /\ v.inf = u.inf /\ v.flags = u.flags /\ v.htype = u.htype /\ v.segs = u.segs
  BY <1>3, <1>7, <1>11 DEF Url
<1>. HIDE DEF v
<1>13. EndsUpTo(v, l)
  BY <1>7, <1>11, <1>12 DEF EndsUpTo
<1>14. \A t \in Part : v.ends[t] = IF first =< t /\ t < last THEN b + len0
                                   ELSE IF last =< t /\ t =< l THEN E[t] + d
                                   ELSE E[t]
  BY <1>7, <1>12
<1>15. /\ \A i \in 1 .. b : v.norm[i] = norm[i]
       /\ \A i \in 1 .. n : v.norm[b + i] = str[i]
  BY <1>11, <1>12
<1>. QED  BY <1>12, <1>13, <1>14, <1>15 DEF v, d, b, e, n, E, norm

\* The url v is u with the parts first .. last replaced: those of the
\* credentials and before them, or those behind the host, leave the host.
Replaced(u, v, l, first, last) ==
    /\ Rewritten(u, v) /\ Ordered(v, l) /\ v.segs = u.segs
    /\ \A t \in Part : t < first => v.ends[t] = u.ends[t]
    /\ /\ last =< HOST_START \/ first > HOST
       /\ HasOpaquePath(u) => first > PATH_PREFIX
       /\ HostAgrees(u, l)
       => HostAgrees(v, l)

LEMMA ReplacePartsSound ==
    ASSUME NEW u \in Url, NEW l \in Part, Ordered(u, l),
           NEW first \in Part, first # SCHEME, NEW last \in Part,
           first =< last, last =< l,
           NEW str \in Text, NEW len0 \in 0 .. Len(str),
           first = SCHEME_SEP => last # SCHEME_SEP /\ len0 > 0 /\ str[1] = ":"
    PROVE  Replaced(u, ReplaceParts(u, first, last, str, len0), l, first, last)
<1>. DEFINE v == ReplaceParts(u, first, last, str, len0)
            diff == Len(str) - (u.ends[last] - u.ends[first - 1])
<1>1. /\ v \in Url
      /\ v.inf = u.inf /\ v.flags = u.flags /\ v.htype = u.htype /\ v.segs = u.segs
      /\ EndsUpTo(v, l)
      /\ \A t \in Part : v.ends[t] = IF first =< t /\ t < last
                                     THEN u.ends[first - 1] + len0
                                     ELSE IF last =< t /\ t =< l THEN u.ends[t] + diff
                                     ELSE u.ends[t]
      /\ \A i \in 1 .. u.ends[first - 1] : v.norm[i] = u.norm[i]
      /\ \A i \in 1 .. Len(str) : v.norm[u.ends[first - 1] + i] = str[i]
  BY ReplacePartsEnds
<1>2. /\ first - 1 \in Part /\ first \in Int /\ last \in Int /\ l \in Int
      /\ \A t \in Part : t \in Int /\ u.ends[t] \in Nat
      /\ \A t \in Part : t # SCHEME => SCHEME_SEP =< t
      /\ SCHEME < first /\ SCHEME_SEP =< first
      /\ Len(str) \in Nat /\ len0 \in Nat
  <2>1. /\ first - 1 \in Part /\ first \in Int /\ last \in Int /\ l \in Int
        /\ \A t \in Part : t \in Int /\ SCHEME =< t
    BY PartInt
  <2>2. \A t \in Part : u.ends[t] \in Nat
    BY UrlType
  <2>3. Len(str) \in Nat /\ len0 \in Nat
    BY DEF Text
  <2>4. SCHEME = 0 /\ SCHEME_SEP = 1
    BY PartNumbers
  <2>5. SCHEME < first /\ SCHEME_SEP =< first
    BY <2>1, <2>4
  <2>6. ASSUME NEW t \in Part, t # SCHEME PROVE SCHEME_SEP =< t
    BY <2>1, <2>4, <2>6
  <2>7. \A t \in Part : t \in Int /\ u.ends[t] \in Nat
    BY <2>1, <2>2
  <2>. QED  BY <2>1, <2>3, <2>5, <2>6, <2>7
<1>3. /\ u.ends[SCHEME] + 1 =< Len(u.norm) /\ u.norm[u.ends[SCHEME] + 1] = ":"
      /\ \A t \in Part : t # SCHEME /\ t =< l => u.ends[SCHEME] + 1 =< u.ends[t]
  <2>1. l # SCHEME
    BY <1>2, PartNumbers
  <2>. QED  BY <2>1, OrderedFacts
<1>. HIDE DEF v, diff
<1>4. SCHEME \in Part /\ SCHEME_SEP \in Part /\ SCHEME = 0 /\ SCHEME_SEP = 1
      /\ HOST_START \in Part /\ HOST \in Part /\ PATH_PREFIX \in Part /\ PATH_PREFIX = 7
      /\ HOST_START = 4 /\ HOST = 5
  BY PartNumbers
<1>5. v.ends[SCHEME] = u.ends[SCHEME] /\ \A t \in Part : t < first => v.ends[t] = u.ends[t]
  BY <1>1, <1>2, <1>4
<1>6. ASSUME NEW i \in 1 .. u.ends[SCHEME] + 1 PROVE v.norm[i] = u.norm[i]
  <2>1. CASE first = SCHEME_SEP
    <3>1. first - 1 = SCHEME /\ 1 \in 1 .. Len(str)
      BY <1>2, <1>4, <2>1
    <3>2. v.norm[u.ends[SCHEME] + 1] = ":"
      BY <1>1, <2>1, <3>1
    <3>. QED  BY SMTT(30), <1>1, <1>2, <1>3, <1>4, <3>1, <3>2
  <2>2. CASE first # SCHEME_SEP
    <3>1. first - 1 # SCHEME /\ first - 1 =< l
      BY <1>2, <1>4, <2>2
    <3>2. u.ends[SCHEME] + 1 =< u.ends[first - 1]
      BY <1>2, <1>3, <3>1
    <3>3. i \in 1 .. u.ends[first - 1]
      BY <1>2, <1>4, <3>2
    <3>. QED  BY <1>1, <3>3
  <2>. QED  BY <2>1, <2>2
<1>7. Rewritten(u, v)
  BY <1>1, <1>5, <1>6 DEF Rewritten
<1>8. u.ends[SCHEME] < v.ends[SCHEME_SEP]
  <2>1. CASE first = SCHEME_SEP
    <3>1. first - 1 = SCHEME /\ SCHEME_SEP < last
      BY <1>2, <1>4, <2>1
    <3>2. v.ends[SCHEME_SEP] = u.ends[SCHEME] + len0
      BY <1>1, <1>4, <2>1, <3>1
    <3>. QED  BY <1>2, <1>4, <2>1, <3>2
  <2>2. CASE first # SCHEME_SEP
    <3>1. v.ends[SCHEME_SEP] = u.ends[SCHEME_SEP]
      BY <1>1, <1>2, <1>4, <2>2
    <3>2. u.ends[SCHEME] + 1 =< u.ends[SCHEME_SEP]
      BY <1>2, <1>3, <1>4
    <3>. QED  BY <1>2, <1>4, <3>1, <3>2
  <2>. QED  BY <2>1, <2>2
<1>9. Ordered(v, l)
  BY <1>1, <1>7, <1>8, SchemeKept
<1>10. ASSUME last =< HOST_START \/ first > HOST, IsEmpty(u, HOST)
       PROVE  IsEmpty(v, HOST)
  <2>1. u.ends[HOST_START] >= u.ends[HOST] /\ u.ends[HOST_START] \in Nat /\ u.ends[HOST] \in Nat
    BY <1>2, <1>4, <1>10, HostIsEmpty
  <2>2. v.ends[HOST_START] \in Nat /\ v.ends[HOST] \in Nat
    BY <1>1, <1>4, UrlType
  <2>3. v.ends[HOST_START] >= v.ends[HOST]
    <3>1. CASE first > HOST
      <4>1. HOST_START < first /\ HOST < first
        BY <1>2, <1>4, <3>1
      <4>. QED  BY <1>4, <1>5, <2>1, <4>1
    <3>2. CASE last =< HOST_START
      <4>1. CASE HOST =< l
        <5>1. /\ v.ends[HOST_START] = u.ends[HOST_START] + diff
              /\ v.ends[HOST] = u.ends[HOST] + diff
          BY <1>1, <1>2, <1>4, <3>2, <4>1
        <5>2. diff \in Int
          BY <1>2 DEF diff
        <5>. QED  BY <2>1, <5>1, <5>2
      <4>2. CASE ~(HOST =< l)
        <5>1. v.ends[HOST] = 0
          <6>1. InOrder(v.ends, Len(v.norm), l)
            BY <1>1 DEF EndsUpTo
          <6>. QED  BY <1>4, <4>2, <6>1 DEF InOrder
        <5>. QED  BY <2>2, <5>1
      <4>. QED  BY <4>1, <4>2
    <3>. QED  BY <1>10, <3>1, <3>2
  <2>. QED  BY <2>2, <2>3, HostIsEmpty
<1>11. ASSUME last =< HOST_START \/ first > HOST,
              HasOpaquePath(u) => first > PATH_PREFIX,
              HostAgrees(u, l)
       PROVE  HostAgrees(v, l)
  <2>1. HasOpaquePath(u) => /\ l = SCHEME \/ l >= PATH_PREFIX
                            /\ l >= PATH_PREFIX => v.ends[PATH_PREFIX] = u.ends[SCHEME] + 1
    BY <1>4, <1>5, <1>11 DEF HostAgrees
  <2>. QED  BY <1>1, <1>7, <1>10, <1>11, <2>1, HostKept
<1>. QED  BY <1>1, <1>5, <1>7, <1>9, <1>11 DEF v, Replaced

-----------------------------------------------------------------------------
(* start_part, the text and save_part of url_serializer.                   *)

Extends(s, r) ==
    r \in Text /\ Len(s) =< Len(r) /\ \A i \in 1 .. Len(s) : r[i] = s[i]

LEMMA ExtendsConcat ==
    ASSUME NEW s \in Text, NEW r \in Text
    PROVE  Extends(s, s \o r) /\ Len(s \o r) = Len(s) + Len(r)
<1>1. /\ s \o r \in Text /\ Len(s \o r) = Len(s) + Len(r)
      /\ \A i \in 1 .. Len(s) : (s \o r)[i] = s[i]
  BY ConcatText
<1>2. Len(s) \in Nat /\ Len(r) \in Nat
  BY DEF Text
<1>3. Len(s) =< Len(s \o r)
  BY <1>1, <1>2
<1>. QED  BY <1>1, <1>3 DEF Extends

LEMMA ExtendsTrans ==
    ASSUME NEW s \in Text, NEW r, NEW q, Extends(s, r), Extends(r, q)
    PROVE  Extends(s, q)
<1>1. Len(s) \in Nat /\ Len(r) \in Nat /\ Len(q) \in Nat
  BY DEF Extends, Text
<1>. QED  BY <1>1 DEF Extends

LEMMA LeadText ==
    ASSUME NEW l, NEW t
    PROVE  /\ Separator(l, t) \in Text /\ Lead(t) \in Text
           /\ l \notin {SCHEME, USERNAME, PASSWORD} => Separator(l, t) = <<>>
           /\ t \notin {PORT, QUERY, FRAGMENT} => Lead(t) = <<>>
<1>1. "/" \in Char /\ ":" \in Char /\ "@" \in Char /\ "?" \in Char /\ "#" \in Char
  BY CharAssumption DEF Written
<1>. QED  BY <1>1 DEF Separator, Lead, Text

\* The url after part t with the text s is appended behind part l.
AppendedUrl(u, l, t, s) ==
    LET norm == u.norm \o Separator(l, t)
        text == norm \o Lead(t) \o s
    IN [u EXCEPT !.norm = text,
                 !.ends = [p \in Part |->
                              IF p = t THEN Len(text)
                              ELSE IF p \notin Skipped(l, t) THEN u.ends[p]
                              ELSE IF l = USERNAME /\ p = PASSWORD THEN Len(u.norm)
                              ELSE Len(norm)]]

\* What is known of it.
Added(u, v, l, t) ==
    /\ Rewritten(u, v) /\ Ordered(v, t) /\ v.segs = u.segs
    /\ \A p \in Part : p =< l /\ p # t => v.ends[p] = u.ends[p]
    /\ l < HOST /\ HOST < t => v.ends[HOST_START] = v.ends[HOST]
    /\ l = SCHEME /\ t > PATH_PREFIX => v.ends[PATH_PREFIX] = u.ends[SCHEME] + 1

LEMMA AppendedUrlSound ==
    ASSUME NEW u \in Url, NEW l \in Part, Ordered(u, l),
           NEW t \in Part, l =< t, t > SCHEME_SEP, NEW s \in Text
    PROVE  /\ Added(u, AppendedUrl(u, l, t, s), l, t)
           /\ AppendedUrl(u, l, t, s) \in Url
<1>. DEFINE len == Len(u.norm)
            norm == u.norm \o Separator(l, t)
            text == norm \o Lead(t) \o s
            n1 == Len(norm)
            n == Len(text)
            F == [p \in Part |-> IF p = t THEN n
                                 ELSE IF p \notin Skipped(l, t) THEN u.ends[p]
                                 ELSE IF l = USERNAME /\ p = PASSWORD THEN len
                                 ELSE n1]
            v == AppendedUrl(u, l, t, s)
<1>1. u.norm \in Text /\ len \in Nat /\ u.ends \in [Part -> Nat]
      /\ \A p \in Part : u.ends[p] \in Nat
  BY UrlType
<1>2. Extends(u.norm, norm) /\ Separator(l, t) \in Text /\ Lead(t) \in Text
      /\ n1 = len + Len(Separator(l, t))
  BY <1>1, LeadText, ExtendsConcat
<1>3. norm \in Text
  BY <1>2 DEF Extends
<1>4. Extends(norm, norm \o Lead(t))
  BY <1>2, <1>3, ExtendsConcat
<1>5. norm \o Lead(t) \in Text
  BY <1>4 DEF Extends
<1>6. Extends(norm \o Lead(t), text)
  BY <1>5, ExtendsConcat
<1>7. Extends(norm, text) /\ Extends(u.norm, text)
  BY <1>1, <1>2, <1>3, <1>4, <1>6, ExtendsTrans
<1>8. v = [u EXCEPT !.norm = text, !.ends = F]
  BY DEF AppendedUrl
<1>9. F = [p \in Part |-> F[p]] /\ n = Len(text) /\ n1 = Len(norm) /\ len = Len(u.norm)
  OBVIOUS
<1>10. \A p \in Part : F[p] = IF p = t THEN n
                                ELSE IF ~(l < p /\ p < t) THEN u.ends[p]
                                ELSE IF l = USERNAME /\ p = PASSWORD THEN len
                                ELSE n1
  BY PartInt DEF Skipped
<1>. HIDE DEF norm, text, F, v, n, n1, len
<1>11. n \in Nat /\ n1 \in Nat /\ len =< n1 /\ n1 =< n /\ text \in Text
  BY <1>2, <1>3, <1>7, <1>9 DEF Extends, Text
<1>12. F \in [Part -> Nat] /\ \A p \in Part : F[p] \in Nat
  BY <1>1, <1>9, <1>10, <1>11
<1>13. v \in Url /\ v.norm = text /\ v.ends = F /\ v.inf = u.inf /\ v.flags = u.flags
       /\ v.htype = u.htype /\ v.segs = u.segs
  BY <1>8, <1>11, <1>12 DEF Url
<1>14. /\ InOrder(u.ends, len, l)
       /\ u.ends[SCHEME] + 1 =< len
       /\ l # SCHEME => len = u.ends[l]
       /\ \A p \in Part : p > l => u.ends[p] = 0
       /\ \A p \in Part : p =< l => u.ends[p] =< len
       /\ \A p, q \in Part : p =< q /\ q =< l => u.ends[p] =< u.ends[q]
  BY <1>9, OrderedFacts
<1>15. /\ \A p \in Part : p \in Int /\ SCHEME =< p
       /\ \A p \in Part : p # SCHEME => p - 1 \in Part
       /\ l \in Int /\ t \in Int /\ SCHEME = 0 /\ SCHEME_SEP = 1 /\ t # SCHEME /\ SCHEME < t
       /\ SCHEME \in Part /\ SCHEME_SEP \in Part
  BY PartInt, PartNumbers
<1>16. InOrder(F, F[t], t)
  <2>1. CASE l < t
    <3>1. /\ \A p \in Part : p =< l => F[p] = u.ends[p]
          /\ \A p \in Part : p > t => F[p] = 0
      <4>1. ASSUME NEW p \in Part, p =< l PROVE F[p] = u.ends[p]
        <5>1. p # t /\ ~(l < p /\ p < t)
          BY <1>15, <2>1, <4>1
        <5>. QED  BY <1>10, <5>1
      <4>2. ASSUME NEW p \in Part, p > t PROVE F[p] = 0
        <5>1. p # t /\ p > l /\ ~(l < p /\ p < t)
          BY <1>15, <2>1, <4>2
        <5>. QED  BY <1>10, <1>14, <5>1
      <4>. QED  BY <4>1, <4>2
    <3>2. u.ends[l] =< len /\ u.ends[l] \in Nat
      BY <1>1, <1>14, <1>15
    <3>3. \A p \in Part : l < p /\ p =< t => len =< F[p] /\ F[p] =< n
      BY <1>1, <1>10, <1>11, <1>15, <2>1
    <3>4. \A p \in Part : l < p /\ p =< t => u.ends[l] =< F[p]
      BY <1>1, <1>12, <3>2, <3>3
    <3>5. ASSUME NEW p \in Part, NEW q \in Part, l < p, p =< q, q =< t PROVE F[p] =< F[q]
      <4>1. CASE q = t
        BY <1>10, <1>11, <1>12, <1>15, <3>3, <3>5, <4>1
      <4>2. CASE q # t
        <5>1. p < t /\ q < t /\ l < q
          BY <1>15, <3>5, <4>2
        <5>2. F[q] = n1 \/ (q = PASSWORD /\ l = USERNAME /\ F[q] = len)
          BY <1>10, <1>15, <5>1
        <5>3. F[p] = n1 \/ F[p] = len
          BY <1>10, <1>15, <3>5, <5>1
        <5>4. CASE F[q] = n1
          BY <1>1, <1>11, <5>3, <5>4
        <5>5. CASE q = PASSWORD /\ l = USERNAME /\ F[q] = len
          <6>1. p = q
            BY <1>15, <3>5, <5>5, PartNumbers
          <6>. QED  BY <1>12, <6>1
        <5>. QED  BY <5>2, <5>4, <5>5
      <4>. QED  BY <4>1, <4>2
    <3>6. NewEnds(u.ends, F, l, t)
      BY <3>1, <3>4, <3>5 DEF NewEnds
    <3>. QED  BY <1>1, <1>12, <1>14, <1>15, <2>1, <3>6, EndsRewritten
  <2>2. CASE l = t
    <3>1. ASSUME NEW p \in Part, p # t PROVE F[p] = u.ends[p]
      <4>1. p \in Int /\ ~(l < p /\ p < t)
        BY <1>15, <2>2
      <4>. QED  BY <1>10, <3>1, <4>1
    <3>2. /\ \A p \in Part : p < t => F[p] = u.ends[p]
          /\ \A p \in Part : p > t => F[p] = 0
      <4>1. ASSUME NEW p \in Part, p < t PROVE F[p] = u.ends[p]
        <5>1. p # t
          BY <1>15, <4>1
        <5>. QED  BY <3>1, <5>1
      <4>2. ASSUME NEW p \in Part, p > t PROVE F[p] = 0
        <5>1. p # t /\ p > l
          BY <1>15, <2>2, <4>2
        <5>. QED  BY <1>14, <3>1, <5>1
      <4>. QED  BY <4>1, <4>2
    <3>3. u.ends[t - 1] =< F[t]
      <4>1. F[t] = n /\ t - 1 \in Part /\ t - 1 =< l
        BY <1>10, <1>15, <2>2
      <4>2. u.ends[t - 1] =< len /\ u.ends[t - 1] \in Nat
        BY <1>1, <1>14, <4>1
      <4>. QED  BY <1>1, <1>11, <4>1, <4>2
    <3>4. t =< l
      BY <1>15, <2>2
    <3>. QED  BY <1>1, <1>12, <1>14, <1>15, <3>2, <3>3, <3>4, EndsCut
  <2>. QED  BY <1>15, <2>1, <2>2
<1>17. EndsUpTo(v, t)
  <2>1. F[t] = Len(v.norm)
    BY <1>9, <1>10, <1>13
  <2>. QED  BY <1>13, <1>16, <2>1 DEF EndsUpTo
<1>18. v.ends[SCHEME] = u.ends[SCHEME] /\ \A p \in Part : p =< l /\ p # t => v.ends[p] = u.ends[p]
  BY <1>10, <1>13, <1>15
<1>19. ASSUME NEW i \in 1 .. u.ends[SCHEME] + 1 PROVE v.norm[i] = u.norm[i]
  <2>1. i \in 1 .. len
    BY <1>1, <1>14, <1>15
  <2>. QED  BY <1>7, <1>9, <1>13, <2>1 DEF Extends
<1>20. Rewritten(u, v)
  BY <1>13, <1>18, <1>19 DEF Rewritten
<1>21. u.ends[SCHEME] < v.ends[SCHEME_SEP]
  <2>1. CASE l = SCHEME
    <3>1. F[SCHEME_SEP] = n1
      BY <1>10, <1>15, <2>1, PartNumbers
    <3>. QED  BY <1>1, <1>11, <1>13, <1>14, <1>15, <3>1
  <2>2. CASE l # SCHEME
    <3>1. u.ends[SCHEME] + 1 =< u.ends[SCHEME_SEP]
      <4>1. SCHEME_SEP =< l
        BY <1>15, <2>2
      <4>. QED  BY <1>15, <2>2, <4>1, OrderedFacts
    <3>2. v.ends[SCHEME_SEP] = u.ends[SCHEME_SEP]
      BY <1>15, <1>18, <2>2
    <3>. QED  BY <1>1, <1>15, <3>1, <3>2
  <2>. QED  BY <2>1, <2>2
<1>22. Ordered(v, t)
  BY <1>17, <1>20, <1>21, SchemeKept
<1>23. ASSUME l < HOST, HOST < t PROVE v.ends[HOST_START] = v.ends[HOST]
  <2>1. HOST_START \in Part /\ HOST \in Part /\ HOST_START = 4 /\ HOST = 5
        /\ USERNAME = 2 /\ PASSWORD = 3
    BY PartNumbers
  <2>2. F[HOST] = n1
    BY <1>10, <1>15, <1>23, <2>1
  <2>3. CASE l = HOST_START
    <3>1. F[HOST_START] = u.ends[HOST_START] /\ len = u.ends[HOST_START]
      BY <1>10, <1>14, <1>15, <1>23, <2>1, <2>3
    <3>2. Separator(l, t) = <<>>
      BY <2>1, <2>3, LeadText, PartNumbers
    <3>3. n1 = len
      BY <1>1, <1>2, <3>2
    <3>. QED  BY <1>13, <2>2, <3>1, <3>3
  <2>4. CASE l # HOST_START
    <3>1. F[HOST_START] = n1
      BY <1>10, <1>15, <1>23, <2>1, <2>4
    <3>. QED  BY <1>13, <2>2, <3>1
  <2>. QED  BY <2>3, <2>4
<1>24. ASSUME l = SCHEME, t > PATH_PREFIX PROVE v.ends[PATH_PREFIX] = u.ends[SCHEME] + 1
  <2>1. PATH_PREFIX \in Part /\ PATH_PREFIX = 7 /\ USERNAME = 2 /\ HOST = 5 /\ PASSWORD = 3
    BY PartNumbers
  <2>2. F[PATH_PREFIX] = n1
    BY <1>10, <1>15, <1>24, <2>1
  <2>3. Separator(l, t) = <<>>
    BY <1>15, <1>24, <2>1 DEF Separator
  <2>4. n1 = len /\ len = u.ends[SCHEME] + 1
    BY <1>1, <1>2, <1>14, <1>24, <2>3 DEF InOrder
  <2>. QED  BY <1>13, <2>2, <2>4
<1>. QED  BY <1>13, <1>18, <1>20, <1>22, <1>23, <1>24 DEF Added, v

\* A host without text is appended.
LEMMA AppendedEmptyHost ==
    ASSUME NEW u \in Url, NEW l \in Part, Ordered(u, l),
           l < HOST_START \/ (l = HOST /\ IsEmpty(u, HOST))
    PROVE  IsEmpty(AppendedUrl(u, l, HOST, <<>>), HOST)
<1>. DEFINE norm == u.norm \o Separator(l, HOST)
            text == norm \o Lead(HOST) \o <<>>
            v == AppendedUrl(u, l, HOST, <<>>)
<1>1. u.norm \in Text /\ Separator(l, HOST) \in Text
  BY UrlType, LeadText
<1>2. norm \in Text /\ Len(norm) = Len(u.norm) + Len(Separator(l, HOST))
  BY <1>1, ConcatText
<1>3. Lead(HOST) = <<>>
  BY PartNumbers DEF Lead
<1>4. text = norm
  <2>. HIDE DEF norm
  <2>1. norm \o <<>> = norm
    BY <1>2 DEF Text
  <2>. QED  BY <1>3, <2>1
<1>5. /\ HOST_START \in Part /\ HOST \in Part /\ HOST_START = 4 /\ HOST = 5 /\ PASSWORD = 3
      /\ l \in Int /\ l # HOST_START /\ SCHEME = 0 /\ USERNAME = 2
  BY PartInt, PartNumbers
<1>6. v.ends = [p \in Part |->
                  IF p = HOST THEN Len(text)
                  ELSE IF p \notin Skipped(l, HOST) THEN u.ends[p]
                  ELSE IF l = USERNAME /\ p = PASSWORD THEN Len(u.norm)
                  ELSE Len(norm)]
  BY DEF AppendedUrl, Url
<1>. HIDE DEF norm, text, v
<1>7. v.ends[HOST] = Len(norm)
  BY <1>4, <1>5, <1>6
<1>8. CASE l < HOST_START
  <2>1. v.ends[HOST_START] = Len(norm)
    BY <1>5, <1>6, <1>8 DEF Skipped
  <2>2. Len(norm) \in Nat
    BY <1>2 DEF Text
  <2>. QED  BY <1>7, <2>1, <2>2, HostIsEmpty DEF v
<1>9. CASE l = HOST /\ IsEmpty(u, HOST)
  <2>1. v.ends[HOST_START] = u.ends[HOST_START]
    BY <1>5, <1>6, <1>9 DEF Skipped
  <2>2. Separator(l, HOST) = <<>>
    BY <1>5, <1>9, LeadText
  <2>3. Len(norm) = u.ends[HOST]
    <3>1. Len(norm) = Len(u.norm) /\ Len(u.norm) = u.ends[HOST]
      BY <1>1, <1>2, <1>5, <1>9, <2>2, OrderedFacts, UrlType
    <3>. QED  BY <3>1
  <2>4. IsEmpty(v, HOST) <=> v.ends[HOST_START] + 0 >= v.ends[HOST]
    BY HostIsEmpty
  <2>5. u.ends[HOST_START] + 0 >= u.ends[HOST]
    BY <1>9, HostIsEmpty
  <2>. QED  BY <1>7, <2>1, <2>3, <2>4, <2>5 DEF v
<1>. QED  BY <1>8, <1>9

\* A part other than the host that is added agrees with the host.
LEMMA AddedAgrees ==
    ASSUME NEW u \in Url, NEW l \in Part, HostAgrees(u, l),
           NEW t \in Part, l =< t, t # HOST, HasOpaquePath(u) => t > PATH_PREFIX,
           NEW v \in Url, Added(u, v, l, t)
    PROVE  Sound(v, t)
<1>1. /\ Rewritten(u, v) /\ Ordered(v, t)
      /\ \A p \in Part : p =< l /\ p # t => v.ends[p] = u.ends[p]
      /\ l < HOST /\ HOST < t => v.ends[HOST_START] = v.ends[HOST]
      /\ l = SCHEME /\ t > PATH_PREFIX => v.ends[PATH_PREFIX] = u.ends[SCHEME] + 1
  BY DEF Added
<1>2. /\ HOST_START \in Part /\ HOST \in Part /\ HOST_START = 4 /\ HOST = 5
      /\ PATH_PREFIX \in Part /\ PATH_PREFIX = 7
      /\ l \in Int /\ t \in Int
      /\ \A p \in Part : v.ends[p] \in Nat
  BY PartInt, PartNumbers, UrlType
<1>3. ASSUME IsEmpty(u, HOST) PROVE IsEmpty(v, HOST)
  <2>1. CASE t < HOST
    <3>1. v.ends[HOST] = 0
      BY <1>1, <1>2, <2>1, OrderedFacts
    <3>. QED  BY <1>2, <3>1, HostIsEmpty
  <2>2. CASE HOST < t /\ l < HOST
    BY <1>1, <1>2, <2>2, HostIsEmpty
  <2>3. CASE HOST < t /\ HOST =< l
    <3>1. v.ends[HOST_START] = u.ends[HOST_START] /\ v.ends[HOST] = u.ends[HOST]
      BY <1>1, <1>2, <2>3
    <3>. QED  BY <1>3, <3>1, HostIsEmpty
  <2>. QED  BY <1>2, <2>1, <2>2, <2>3
<1>4. ASSUME HasOpaquePath(u)
      PROVE  t >= PATH_PREFIX /\ v.ends[PATH_PREFIX] = u.ends[SCHEME] + 1
  <2>1. /\ l = SCHEME \/ l >= PATH_PREFIX
        /\ l >= PATH_PREFIX => u.ends[PATH_PREFIX] = u.ends[SCHEME] + 1
    BY <1>4 DEF HostAgrees
  <2>2. CASE l = SCHEME
    BY <1>1, <1>2, <1>4, <2>2
  <2>3. CASE l >= PATH_PREFIX
    <3>1. v.ends[PATH_PREFIX] = u.ends[PATH_PREFIX]
      BY <1>1, <1>2, <1>4, <2>3
    <3>. QED  BY <1>2, <1>4, <2>1, <2>3, <3>1
  <2>. QED  BY <2>1, <2>2, <2>3
<1>5. HostAgrees(v, t)
  BY <1>1, <1>3, <1>4, HostKept
<1>. QED  BY <1>1, <1>5 DEF Sound

\* The serializer after start_part, the text and save_part.
TextAppended(x, t, s) == SavePart(Write(AppendingStart(x, t), s))

\* y goes on where x has come to: nothing failed in between.
GoesOn(x, y) ==
    y \in Serializer /\ y.setter = x.setter /\ y.save = x.save /\ y.sane = x.sane

LEMMA AppendedSound ==
    ASSUME NEW x \in Serializer, ~x.inBuf, Ordered(x.u, x.last),
           NEW t \in Part, t > SCHEME_SEP, NEW s \in Text,
           x.last < t \/ (x.last = t /\ (t = PATH \/ IsEmpty(x.u, t)))
    PROVE  /\ GoesOn(x, TextAppended(x, t, s))
           /\ ~TextAppended(x, t, s).inBuf /\ TextAppended(x, t, s).last = t
           /\ TextAppended(x, t, s).u = AppendedUrl(x.u, x.last, t, s)
           /\ Added(x.u, TextAppended(x, t, s).u, x.last, t)
<1>. DEFINE u == x.u
            v == AppendedUrl(u, x.last, t, s)
            y == [x EXCEPT !.u = v, !.last = t]
<1>1. /\ u \in Url /\ x.last \in Part /\ x.last \in Int /\ t \in Int
      /\ u.norm \in Text /\ u.ends \in [Part -> Nat]
      /\ x.sane \in BOOLEAN /\ x.inBuf = FALSE
  <2>1. u \in Url /\ x.last \in Part /\ x.sane \in BOOLEAN /\ x.inBuf \in BOOLEAN
    BY DEF Serializer
  <2>. QED  BY <2>1, PartInt, UrlType
<1>2. v \in Url /\ Added(u, v, x.last, t)
  BY <1>1, AppendedUrlSound
<1>3. TextAppended(x, t, s) = y
  <2>1. CASE x.last = PATH /\ t = PATH
    <3>1. TextAppended(x, t, s) = [x EXCEPT !.u = [u EXCEPT !.norm = u.norm \o s,
                                                         !.ends[PATH] = Len(u.norm \o s)]]
      BY <1>1, <2>1 DEF TextAppended, AppendingStart, Write, SavePart, Serializer, Url
    <3>2. Separator(PATH, PATH) = <<>> /\ Lead(PATH) = <<>>
      BY PartNumbers DEF Separator, Lead
    <3>3. u.norm \o <<>> = u.norm
      BY <1>1 DEF Text
    <3>4. Skipped(PATH, PATH) = {} /\ PATH \in Part
      BY PartNumbers DEF Skipped
    <3>5. v = [u EXCEPT !.norm = u.norm \o s,
                        !.ends = [p \in Part |-> IF p = PATH THEN Len(u.norm \o s)
                                                 ELSE u.ends[p]]]
      BY <2>1, <3>2, <3>3, <3>4 DEF AppendedUrl
    <3>6. [p \in Part |-> IF p = PATH THEN Len(u.norm \o s) ELSE u.ends[p]]
             = [u.ends EXCEPT ![PATH] = Len(u.norm \o s)]
      BY <1>1
    <3>7. v = [u EXCEPT !.norm = u.norm \o s, !.ends[PATH] = Len(u.norm \o s)]
      BY <3>5, <3>6
    <3>. QED  BY <1>1, <2>1, <3>1, <3>7 DEF Serializer
  <2>2. CASE ~(x.last = PATH /\ t = PATH)
    <3>. DEFINE norm == u.norm \o Separator(x.last, t)
                lead == norm \o Lead(t)
                ends == [p \in Part |->
                           IF p \notin Skipped(x.last, t) THEN u.ends[p]
                           ELSE IF x.last = USERNAME /\ p = PASSWORD
                                THEN Len(u.norm)
                                ELSE Len(norm)]
                F == [p \in Part |->
                           IF p = t THEN Len(lead \o s)
                           ELSE IF p \notin Skipped(x.last, t) THEN u.ends[p]
                           ELSE IF x.last = USERNAME /\ p = PASSWORD THEN Len(u.norm)
                           ELSE Len(norm)]
    <3>1. x.last < t \/ (x.last = t /\ IsEmpty(u, t))
      BY <2>2
    <3>. DEFINE w == [u EXCEPT !.norm = lead, !.ends = ends]
                w2 == [w EXCEPT !.norm = lead \o s]
                w3 == [w2 EXCEPT !.ends = [ends EXCEPT ![t] = Len(lead \o s)]]
                z == AppendingStart(x, t)
                z2 == Write(z, s)
    <3>2. z = [x EXCEPT !.u = w, !.last = t]
      BY <1>1, <2>2, <3>1 DEF AppendingStart, Expect, Serializer
    <3>3. /\ w.norm = lead /\ w2.norm = lead \o s /\ w2.ends = ends
          /\ w3 = [u EXCEPT !.norm = lead \o s,
                            !.ends = [ends EXCEPT ![t] = Len(lead \o s)]]
      <4>. HIDE DEF lead, ends
      <4>. QED  BY <1>1 DEF Url
    <3>4. TextAppended(x, t, s) = [x EXCEPT !.u = w3, !.last = t]
      <4>1. z.inBuf = FALSE /\ z.u = w /\ z.last = t
        <5>. HIDE DEF w, z
        <5>. QED  BY <1>1, <3>2 DEF Serializer
      <4>2. z2 = [z EXCEPT !.u = w2]
        <5>1. z2 = [z EXCEPT !.u = [z.u EXCEPT !.norm = z.u.norm \o s]]
          <6>. HIDE DEF z
          <6>. QED  BY <4>1 DEF Write
        <5>. HIDE DEF w, z, z2, lead
        <5>. QED  BY <3>3, <4>1, <5>1
      <4>3. z2 = [x EXCEPT !.u = w2, !.last = t]
        <5>. HIDE DEF w, w2, z, z2
        <5>. QED  BY <3>2, <4>2
      <4>4. z2.inBuf = FALSE /\ z2.u = w2 /\ z2.last = t
        <5>. HIDE DEF w2, z2
        <5>. QED  BY <1>1, <4>3 DEF Serializer
      <4>5. TextAppended(x, t, s)
               = [z2 EXCEPT !.u = [z2.u EXCEPT !.ends = [z2.u.ends EXCEPT
                                                   ![z2.last] = Len(z2.u.norm)]]]
        <5>1. TextAppended(x, t, s) = SavePart(z2)
          BY DEF TextAppended
        <5>. HIDE DEF z2
        <5>. QED  BY <4>4, <5>1 DEF SavePart
      <4>6. TextAppended(x, t, s) = [z2 EXCEPT !.u = w3]
        <5>. HIDE DEF w2, z2, lead, ends
        <5>. QED  BY <3>3, <4>4, <4>5
      <4>. HIDE DEF w3, w2, z2
      <4>. QED  BY <4>3, <4>6
    <3>5. [ends EXCEPT ![t] = Len(lead \o s)] = F
      OBVIOUS
    <3>6. v = [u EXCEPT !.norm = lead \o s, !.ends = F]
      BY DEF AppendedUrl
    <3>7. v = w3
      <4>. HIDE DEF w3, lead, ends, F, v
      <4>. QED  BY <3>3, <3>5, <3>6
    <3>. QED  BY <3>4, <3>7
  <2>. QED  BY <2>1, <2>2
<1>. HIDE DEF v
<1>4. /\ y \in Serializer /\ y.setter = x.setter /\ y.save = x.save /\ y.sane = x.sane
      /\ ~y.inBuf /\ y.last = t /\ y.u = v
  BY <1>1, <1>2 DEF Serializer
<1>. HIDE DEF y
<1>5. GoesOn(x, y)
  BY <1>4 DEF GoesOn
<1>. QED  BY <1>2, <1>3, <1>4, <1>5 DEF v, u

-----------------------------------------------------------------------------
(* Urls with the same text, and cut ones.                                  *)

SameText(u, v) ==
    v \in Url /\ v.norm = u.norm /\ v.ends = u.ends /\ v.inf = u.inf

LEMMA SameTextOrdered ==
    ASSUME NEW u \in Url, NEW l \in Part, Ordered(u, l), NEW v, SameText(u, v)
    PROVE  Ordered(v, l)
BY DEF SameText, Ordered, EndsUpTo, SchemeEnds, View, PartPos

LEMMA SameTextSound ==
    ASSUME NEW u \in Url, NEW l \in Part, Sound(u, l), NEW v, SameText(u, v),
           IsNull(v, HOST) => IsNull(u, HOST),
           HasOpaquePath(v) => HasOpaquePath(u) /\ IsNull(v, HOST)
    PROVE  Sound(v, l)
<1>1. Ordered(u, l) /\ HostAgrees(u, l)
  BY DEF Sound
<1>2. v.ends = u.ends /\ v.inf = u.inf /\ Ordered(v, l)
  BY <1>1, SameTextOrdered DEF SameText
<1>3. IsEmpty(u, HOST) <=> IsEmpty(v, HOST)
  BY <1>2 DEF IsEmpty, PartPos
<1>4. HostAgrees(v, l)
  BY <1>1, <1>2, <1>3 DEF HostAgrees
<1>. QED  BY <1>2, <1>4 DEF Sound

\* A host was written; its type and flag are set.
LEMMA SetHostTypeSound ==
    ASSUME NEW u \in Url, NEW l \in Part, Ordered(u, l), ~HasOpaquePath(u),
           NEW ht \in HostType
    PROVE  /\ SameText(u, SetHostType(u, ht)) /\ Sound(SetHostType(u, ht), l)
           /\ SetHostType(u, ht).flags = u.flags \cup {HOST}
           /\ SetHostType(u, ht).segs = u.segs
<1>. DEFINE v == SetHostType(u, ht)
<1>1. HOST \in 0 .. 12 /\ HOST # OPAQUE_PATH
  BY PartNumbers DEF OPAQUE_PATH
<1>2. SameText(u, v) /\ v.flags = u.flags \cup {HOST} /\ v.segs = u.segs
  BY <1>1 DEF SetHostType, SameText, Url
<1>. HIDE DEF v
<1>3. Ordered(v, l)
  BY <1>2, SameTextOrdered
<1>4. ~IsNull(v, HOST) /\ ~HasOpaquePath(v)
  BY <1>1, <1>2 DEF IsNull, HasOpaquePath
<1>5. HostAgrees(v, l)
  BY <1>4 DEF HostAgrees
<1>. QED  BY <1>2, <1>3, <1>5 DEF Sound, v

\* v is u cut within or after part m; the parts behind k have new ends.
Truncated(u, v, k, m) ==
    /\ v \in Url
    /\ NewEnds(u.ends, v.ends, k, m)
    /\ v.ends[m] =< Len(u.norm) /\ v.norm = SubSeq(u.norm, 1, v.ends[m])
    /\ v.inf = u.inf /\ v.flags = u.flags /\ v.htype = u.htype

LEMMA TruncatedSound ==
    ASSUME NEW u \in Url, NEW l \in Part, Ordered(u, l),
           NEW k \in Part, k # SCHEME, k =< l, NEW m \in Part, k < m,
           NEW v, Truncated(u, v, k, m)
    PROVE  /\ Rewritten(u, v) /\ Ordered(v, m)
           /\ \A t \in Part : t =< k => v.ends[t] = u.ends[t]
           /\ /\ HostAgrees(u, l)
              /\ m < HOST \/ (k >= HOST_START /\ v.ends[HOST] =< u.ends[HOST])
              /\ HasOpaquePath(u) => k >= PATH_PREFIX
              => Sound(v, m)
<1>. DEFINE e == u.ends[SCHEME]
            n == v.ends[m]
<1>1. /\ u.norm \in Text /\ u.ends \in [Part -> Nat] /\ Len(u.norm) \in Nat
      /\ v \in Url /\ v.ends \in [Part -> Nat] /\ v.norm \in Text
      /\ e \in Nat /\ n \in Nat /\ u.ends[k] \in Nat
      /\ \A t \in Part : u.ends[t] \in Nat /\ v.ends[t] \in Nat
  <2>1. v \in Url
    BY DEF Truncated
  <2>. QED  BY <2>1, UrlType, PartNumbers
<1>2. /\ k \in Int /\ m \in Int /\ l \in Int /\ m # SCHEME /\ SCHEME \in Part
      /\ SCHEME_SEP \in Part /\ SCHEME_SEP =< k /\ SCHEME =< k /\ SCHEME < k
      /\ SCHEME_SEP # SCHEME /\ l # SCHEME /\ \A t \in Part : t \in Int
      /\ HOST_START \in Part /\ HOST \in Part /\ PATH_PREFIX \in Part
      /\ HOST_START = 4 /\ HOST = 5 /\ PATH_PREFIX = 7
  BY PartInt, PartNumbers
<1>3. /\ InOrder(u.ends, Len(u.norm), l)
      /\ e + 1 =< u.ends[k] /\ e + 1 =< u.ends[SCHEME_SEP]
  <2>1. SCHEME_SEP =< l
    BY <1>2
  <2>. QED  BY <1>2, <2>1, OrderedFacts
<1>4. NewEnds(u.ends, v.ends, k, m)
  BY DEF Truncated
<1>5. \A t \in Part : t =< k => v.ends[t] = u.ends[t]
  BY <1>4 DEF NewEnds
<1>6. InOrder(v.ends, n, m)
  BY <1>1, <1>2, <1>3, <1>4, EndsRewritten
<1>7. n =< Len(u.norm) /\ v.norm = SubSeq(u.norm, 1, n)
  BY DEF Truncated
<1>8. e + 1 =< n
  <2>1. u.ends[k] =< v.ends[m]
    BY <1>2, <1>4 DEF NewEnds
  <2>. QED  BY <1>1, <1>3, <2>1
<1>. HIDE DEF n
<1>9. Len(v.norm) = n /\ \A i \in 1 .. n : v.norm[i] = u.norm[i]
  BY <1>1, <1>7, PrefixText
<1>10. EndsUpTo(v, m)
  BY <1>6, <1>9 DEF EndsUpTo
<1>11. Rewritten(u, v)
  <2>1. v.ends[SCHEME] = u.ends[SCHEME]
    BY <1>2, <1>5
  <2>2. \A i \in 1 .. e + 1 : i \in 1 .. n
    BY <1>1, <1>8
  <2>. QED  BY <1>9, <2>1, <2>2 DEF Rewritten, Truncated
<1>12. u.ends[SCHEME] < v.ends[SCHEME_SEP]
  <2>1. v.ends[SCHEME_SEP] = u.ends[SCHEME_SEP]
    BY <1>2, <1>5
  <2>. QED  BY <1>1, <1>2, <1>3, <2>1
<1>13. Ordered(v, m)
  BY <1>10, <1>11, <1>12, SchemeKept
<1>14. ASSUME HostAgrees(u, l),
              m < HOST \/ (k >= HOST_START /\ v.ends[HOST] =< u.ends[HOST]),
              HasOpaquePath(u) => k >= PATH_PREFIX
       PROVE  Sound(v, m)
  <2>1. ASSUME IsEmpty(u, HOST) PROVE IsEmpty(v, HOST)
    <3>1. CASE m < HOST
      <4>1. v.ends[HOST] = 0
        BY <1>2, <1>4, <3>1 DEF NewEnds
      <4>. QED  BY <1>1, <1>2, <4>1, HostIsEmpty
    <3>2. CASE k >= HOST_START /\ v.ends[HOST] =< u.ends[HOST]
      <4>1. v.ends[HOST_START] = u.ends[HOST_START]
        BY <1>2, <1>5, <3>2
      <4>2. u.ends[HOST_START] + 0 >= u.ends[HOST]
        BY <2>1, HostIsEmpty
      <4>3. v.ends[HOST_START] + 0 >= v.ends[HOST]
        <5>1. /\ u.ends[HOST] \in Nat /\ u.ends[HOST_START] \in Nat
              /\ v.ends[HOST] \in Nat /\ v.ends[HOST_START] \in Nat
          BY <1>1, <1>2
        <5>. QED  BY <3>2, <4>1, <4>2, <5>1
      <4>. QED  BY <4>3, HostIsEmpty
    <3>. QED  BY <1>14, <3>1, <3>2
  <2>2. ASSUME HasOpaquePath(u)
        PROVE  m >= PATH_PREFIX /\ v.ends[PATH_PREFIX] = u.ends[SCHEME] + 1
    <3>1. k >= PATH_PREFIX /\ l >= PATH_PREFIX /\ m >= PATH_PREFIX
      BY <1>2, <1>14, <2>2
    <3>2. v.ends[PATH_PREFIX] = u.ends[PATH_PREFIX]
      BY <1>2, <1>5, <3>1
    <3>. QED  BY <1>14, <2>2, <3>1, <3>2 DEF HostAgrees
  <2>3. HostAgrees(v, m)
    BY <1>1, <1>11, <1>14, <2>1, <2>2, HostKept
  <2>. QED  BY <1>13, <2>3 DEF Sound
<1>. QED  BY <1>5, <1>11, <1>13, <1>14

\* find_last_part finds the last part.
LEMMA LastPartFound ==
    ASSUME NEW u \in Url, NEW l \in Part, Ordered(u, l), NEW t \in Part, l =< t
    PROVE  FindLastPart(u, t) = l
<1>. DEFINE P(p) == /\ p = SCHEME \/ u.ends[p] # 0
                    /\ \A q \in p + 1 .. t : u.ends[q] = 0
<1>1. /\ l \in Int /\ t \in Int /\ SCHEME =< l
      /\ \A p \in SCHEME .. t : p \in Part /\ p \in Int
      /\ \A p \in SCHEME .. t : \A q \in p + 1 .. t : q \in Part /\ q \in Int
  BY PartInt, PartNumbers DEF Part
<1>2. /\ \A p \in Part : p > l => u.ends[p] = 0
      /\ \A p \in Part : p =< l => u.ends[p] > 0
  BY OrderedFacts
<1>3. u.ends[l] # 0 /\ \A q \in l + 1 .. t : u.ends[q] = 0
  BY <1>1, <1>2
<1>4. l \in SCHEME .. t /\ P(l)
  BY <1>1, <1>3
<1>5. ASSUME NEW p \in SCHEME .. t, P(p) PROVE p = l
  <2>1. p =< l
    BY <1>1, <1>2, <1>5, PartNumbers
  <2>2. p < l => l \in p + 1 .. t
    BY <1>1
  <2>3. ~(p < l)
    BY <1>3, <1>5, <2>2
  <2>. QED  BY <1>1, <2>1, <2>3
<1>6. FindLastPart(u, t) = CHOOSE p \in SCHEME .. t : P(p)
  BY DEF FindLastPart
<1>. HIDE DEF P
<1>. QED  BY <1>4, <1>5, <1>6

\* The URL is cut before its last part t.
LEMMA CutBeforeSound ==
    ASSUME NEW u \in Url, NEW l \in Part, Ordered(u, l),
           NEW t \in Part, t =< l, t > USERNAME
    PROVE  /\ Rewritten(u, CutBefore(u, t)) /\ Ordered(CutBefore(u, t), t - 1)
           /\ CutBefore(u, t).segs = u.segs /\ CutBefore(u, t) \in Url
           /\ HostAgrees(u, l) /\ (HasOpaquePath(u) => t > PATH)
              => Sound(CutBefore(u, t), t - 1)
           /\ CutBefore(u, t).norm = SubSeq(u.norm, 1, u.ends[t - 1])
           /\ \A p \in Part : CutBefore(u, t).ends[p] = IF p < t THEN u.ends[p] ELSE 0
<1>. DEFINE k == t - 2
            m == t - 1
            n == u.ends[t - 1]
            v == CutBefore(u, t)
<1>1. /\ u.norm \in Text /\ Len(u.norm) \in Nat /\ u.ends \in [Part -> Nat]
      /\ \A p \in Part : u.ends[p] \in Nat /\ p \in Int
      /\ t \in Int /\ l \in Int
  BY UrlType, PartInt
<1>2. /\ k \in Part /\ m \in Part /\ k # SCHEME /\ k =< l /\ k < m /\ m =< l /\ k =< m
      /\ m \in Int /\ k \in Int
      /\ \A p \in Part : p \in Int
      /\ HOST = 5 /\ PATH_PREFIX = 7 /\ PATH = 8 /\ HOST_START = 4 /\ HOST \in Part
  <2>1. /\ t \in Int /\ t > 2 /\ t =< 10 /\ l \in Int /\ t =< l
        /\ SCHEME = 0 /\ FRAGMENT = 10 /\ HOST = 5 /\ PATH_PREFIX = 7 /\ PATH = 8
        /\ HOST_START = 4 /\ HOST \in Part
        /\ \A p \in Part : p \in Int
    BY <1>1, PartInt, PartNumbers
  <2>2. Part = 0 .. 10
    BY <2>1 DEF Part
  <2>. QED  BY <2>1, <2>2
<1>3. /\ \A p \in Part : p > l => u.ends[p] = 0
      /\ \A p \in Part : p =< l => u.ends[p] > 0
      /\ n =< Len(u.norm) /\ u.ends[k] =< n
  BY <1>2, OrderedFacts
<1>4. \A p \in Part : p >= t => ((\A q \in t .. p : u.ends[q] # 0) <=> p =< l)
  <2>. SUFFICES ASSUME NEW p \in Part, p >= t
                PROVE  (\A q \in t .. p : u.ends[q] # 0) <=> p =< l
    OBVIOUS
  <2>1. CASE p =< l
    <3>1. \A q \in t .. p : q \in Part /\ q =< l
      BY <1>1, <2>1, PartInt
    <3>2. \A q \in t .. p : u.ends[q] # 0
      BY <1>1, <1>3, <3>1
    <3>. QED  BY <2>1, <3>2
  <2>2. CASE ~(p =< l)
    <3>1. p \in Int /\ t \in Int /\ l \in Int
      BY PartInt
    <3>2. p > l /\ p \in t .. p
      BY <2>2, <3>1
    <3>3. u.ends[p] = 0
      BY <1>3, <3>2
    <3>. QED  BY <2>2, <3>2, <3>3
  <2>. QED  BY <2>1, <2>2
<1>. DEFINE F == [p \in Part |-> IF p >= t /\ \A q \in t .. p : u.ends[q] # 0
                                THEN 0 ELSE u.ends[p]]
<1>5. v = [u EXCEPT !.norm = SubSeq(u.norm, 1, n), !.ends = F] /\ F = [p \in Part |-> F[p]]
      /\ \A p \in Part : F[p] = IF p < t THEN u.ends[p] ELSE 0
  <2>1. v = [u EXCEPT !.norm = SubSeq(u.norm, 1, n), !.ends = F]
    BY DEF CutBefore
  <2>2. ASSUME NEW p \in Part PROVE F[p] = IF p < t THEN u.ends[p] ELSE 0
    <3>1. CASE p >= t
      <4>1. F[p] = IF p =< l THEN 0 ELSE u.ends[p]
        BY <1>4, <3>1
      <4>. QED  BY <1>1, <1>2, <1>3, <3>1, <4>1
    <3>2. CASE p < t
      <4>1. ~(p >= t)
        BY <1>1, <1>2, <3>2
      <4>. QED  BY <3>2, <4>1
    <3>. QED  BY <1>1, <1>2, <3>1, <3>2
  <2>. QED  BY <2>1, <2>2
<1>6. SubSeq(u.norm, 1, n) \in Text
  BY <1>1, <1>2, <1>3, PrefixText
<1>. HIDE DEF F
<1>7. /\ v \in Url /\ v.norm = SubSeq(u.norm, 1, n) /\ v.ends = F
      /\ v.inf = u.inf /\ v.flags = u.flags /\ v.htype = u.htype /\ v.segs = u.segs
  <2>1. F \in [Part -> Nat]
    BY <1>1, <1>5
  <2>. QED  BY <1>5, <1>6, <2>1 DEF Url
<1>8. \A p \in Part : v.ends[p] = IF p < t THEN u.ends[p] ELSE 0
  BY <1>5, <1>7
<1>. HIDE DEF v, k, m
<1>9. /\ \A p \in Part : p =< m => v.ends[p] = u.ends[p]
      /\ \A p \in Part : p > m => v.ends[p] = 0
      /\ m = t - 1 /\ k = t - 2
  BY <1>1, <1>2, <1>8 DEF m, k
<1>10. v.ends[m] = n
  BY <1>2, <1>9
<1>11. NewEnds(u.ends, v.ends, k, m)
  <2>1. \A p \in Part : k < p /\ p =< m => p = m
    BY <1>1, <1>9
  <2>2. ASSUME NEW p \in Part, p =< k PROVE v.ends[p] = u.ends[p]
    <3>1. p =< m
      BY <1>2, <2>2
    <3>. QED  BY <1>9, <3>1
  <2>3. u.ends[k] =< v.ends[m]
    BY <1>3, <1>10
  <2>4. \A p, q \in Part : k < p /\ p =< q /\ q =< m => v.ends[p] =< v.ends[q]
    <3>. SUFFICES ASSUME NEW p \in Part, NEW q \in Part, k < p, p =< q, q =< m
                  PROVE  v.ends[p] =< v.ends[q]
      OBVIOUS
    <3>1. p = m /\ q = m
      BY <1>1, <1>2, <1>9
    <3>2. v.ends[m] \in Nat
      BY <1>1, <1>2, <1>9
    <3>. QED  BY <3>1, <3>2
  <2>. QED  BY <1>9, <2>1, <2>2, <2>3, <2>4 DEF NewEnds
<1>12. Truncated(u, v, k, m)
  BY <1>3, <1>7, <1>10, <1>11 DEF Truncated
<1>13. /\ m < HOST \/ (k >= HOST_START /\ v.ends[HOST] =< u.ends[HOST])
       /\ t > PATH => k >= PATH_PREFIX
  <2>1. (m < HOST \/ (k >= HOST_START /\ HOST =< m)) /\ (t > PATH => k >= PATH_PREFIX)
    BY <1>1, <1>2, <1>9
  <2>2. HOST =< m => v.ends[HOST] = u.ends[HOST]
    BY <1>2, <1>9
  <2>. QED  BY <1>1, <1>2, <2>1, <2>2
<1>14. /\ Rewritten(u, v) /\ Ordered(v, m)
       /\ HostAgrees(u, l) /\ (HasOpaquePath(u) => t > PATH) => Sound(v, m)
  BY <1>2, <1>12, <1>13, TruncatedSound
<1>. QED  BY <1>7, <1>8, <1>9, <1>13, <1>14 DEF v

-----------------------------------------------------------------------------
(* Serializers.                                                            *)

LEMMA SerializerType ==
    ASSUME NEW x \in Serializer
    PROVE  /\ x.u \in Url /\ x.last \in Part /\ x.buf \in Text /\ x.segEnd \in Seq(Nat)
           /\ x.setter \in BOOLEAN /\ x.save \in BOOLEAN /\ x.inBuf \in BOOLEAN
           /\ x.sane \in BOOLEAN /\ x.part \in Part
BY DEF Serializer

LEMMA GoesOnTrans ==
    ASSUME NEW x, NEW y, NEW z, GoesOn(x, y), GoesOn(y, z)
    PROVE  GoesOn(x, z)
BY DEF GoesOn

\* The serializer writes another url.
LEMMA GoesOnWith ==
    ASSUME NEW x, NEW y, GoesOn(x, y), NEW v \in Url
    PROVE  /\ GoesOn(x, [y EXCEPT !.u = v])
           /\ [y EXCEPT !.u = v].u = v
           /\ [y EXCEPT !.u = v].last = y.last
           /\ [y EXCEPT !.u = v].inBuf = y.inBuf
BY DEF GoesOn, Serializer

\* An assertion that holds changes nothing.
LEMMA ExpectHolds ==
    ASSUME NEW x \in Serializer, NEW b, b
    PROVE  Expect(x, b) = x
<1>1. (x.sane /\ b) = x.sane
  BY SerializerType
<1>2. Expect(x, b) = [x EXCEPT !.sane = x.sane /\ b]
  BY DEF Expect
<1>3. [x EXCEPT !.sane = x.sane] = x
  BY DEF Serializer
<1>. QED  BY <1>1, <1>2, <1>3

LEMMA GoesOnSelf ==
    ASSUME NEW x \in Serializer
    PROVE  GoesOn(x, x)
BY DEF GoesOn

-----------------------------------------------------------------------------
(* url_setter: one part.                                                   *)

LEMMA BufferLeadText ==
    ASSUME NEW u, NEW t
    PROVE  BufferLead(u, t) \in Text
<1>1. "/" \in Char /\ ":" \in Char /\ "?" \in Char
  BY CharAssumption DEF Written
<1>. QED  BY <1>1 DEF BufferLead, Text

\* A host of complete URLs that is not null, or a part behind it.
LEMMA CompleteFacts ==
    ASSUME NEW u, NEW l \in Part, CompleteUpTo(u, l)
    PROVE  /\ Ordered(u, l) /\ HostAgrees(u, l) /\ l >= HOST /\ l # SCHEME
           /\ ~IsNull(u, HOST) => ~HasOpaquePath(u)
           /\ ~IsEmpty(u, HOST) => ~IsNull(u, HOST)
BY PartNumbers DEF CompleteUpTo, Sound, HostAgrees

\* The part in the buffer takes its place in the url.
LEMMA SaveBufferedSound ==
    ASSUME NEW u \in Url, NEW l \in Part, CompleteUpTo(u, l),
           NEW t \in {USERNAME, PASSWORD, HOST, PORT, QUERY}, t =< l,
           t < HOST => ~IsEmpty(u, HOST),
           t = PORT => ~IsNull(u, HOST),
           NEW s \in Text
    PROVE  LET v == SaveBuffered(u, t, BufferLead(u, t) \o s)
           IN /\ v \in Url /\ Rewritten(u, v) /\ v.segs = u.segs /\ Ordered(v, l)
              /\ t # HOST => HostAgrees(v, l)
<1>. DEFINE buf == BufferLead(u, t) \o s
            v == SaveBuffered(u, t, buf)
<1>1. /\ Ordered(u, l) /\ HostAgrees(u, l) /\ l \in Int
      /\ ~IsNull(u, HOST) => ~HasOpaquePath(u)
      /\ ~IsEmpty(u, HOST) => ~IsNull(u, HOST)
  BY CompleteFacts, PartInt
<1>2. /\ SCHEME = 0 /\ SCHEME_SEP = 1 /\ USERNAME = 2 /\ PASSWORD = 3 /\ HOST_START = 4
      /\ HOST = 5 /\ PORT = 6 /\ PATH_PREFIX = 7 /\ PATH = 8 /\ QUERY = 9
      /\ SCHEME_SEP \in Part /\ HOST_START \in Part /\ HOST \in Part /\ t \in Part
      /\ t \in Int
  BY PartNumbers
<1>3. buf \in Text
  BY BufferLeadText, ConcatText
<1>4. "@" \in Char /\ ":" \in Char
  BY CharAssumption DEF Written
<1>5. t # HOST => (HasOpaquePath(u) => t > PATH_PREFIX)
  BY <1>1, <1>2
<1>. DEFINE Good(w) == /\ Rewritten(u, w) /\ Ordered(w, l) /\ w.segs = u.segs
                       /\ t # HOST => HostAgrees(w, l)
<1>6. ASSUME NEW str \in Text PROVE Good(ReplacePart(u, t, str))
  <2>1. 0 \in 0 .. Len(str) /\ t =< t
    BY <1>2 DEF Text
  <2>2. t # SCHEME /\ t # SCHEME_SEP /\ (t # HOST => t =< HOST_START \/ t > HOST)
    BY <1>2
  <2>3. Replaced(u, ReplaceParts(u, t, t, str, 0), l, t, t)
    BY <1>1, <1>2, <2>1, <2>2, ReplacePartsSound
  <2>. QED  BY <1>1, <1>5, <2>2, <2>3 DEF ReplacePart, Replaced
<1>7. ASSUME NEW str \in Text, NEW n \in 0 .. Len(str), t < HOST
      PROVE  Good(ReplaceParts(u, t, HOST_START, str, n))
  <2>1. t =< HOST_START /\ t # SCHEME /\ t # SCHEME_SEP /\ HOST_START =< l
        /\ HOST_START =< HOST_START
    BY <1>2, <1>7, CompleteFacts
  <2>2. Replaced(u, ReplaceParts(u, t, HOST_START, str, n), l, t, HOST_START)
    BY <1>1, <1>2, <1>7, <2>1, ReplacePartsSound
  <2>. QED  BY <1>1, <1>2, <1>5, <1>7, <2>1, <2>2 DEF Replaced
<1>8. CASE t = HOST
  <2>1. CASE u.ends[SCHEME_SEP] - u.ends[SCHEME] < 3
    <3>1. BufferLead(u, t) = <<":", "/", "/">>
      BY <1>2, <1>8, <2>1 DEF BufferLead
    <3>2. v = ReplaceParts(u, SCHEME_SEP, HOST, buf, 3)
      BY <1>8, <2>1 DEF SaveBuffered
    <3>3. /\ <<":", "/", "/">> \in Text /\ Len(<<":", "/", "/">>) = 3
          /\ <<":", "/", "/">>[1] = ":"
      BY <3>1, BufferLeadText
    <3>4. Len(buf) = 3 + Len(s) /\ buf[1] = ":" /\ Len(s) \in Nat
      <4>. DEFINE lead == <<":", "/", "/">>
      <4>1. buf = lead \o s
        BY <3>1
      <4>. HIDE DEF lead, buf
      <4>2. /\ Len(lead \o s) = Len(lead) + Len(s)
            /\ \A i \in 1 .. Len(lead) : (lead \o s)[i] = lead[i]
        BY <3>3, ConcatText DEF lead
      <4>3. Len(lead) = 3 /\ lead[1] = ":"
        BY DEF lead
      <4>. QED  BY <4>1, <4>2, <4>3 DEF Text
    <3>5. 3 \in 0 .. Len(buf)
      BY <3>4
    <3>6. SCHEME_SEP =< HOST /\ HOST =< l /\ SCHEME_SEP # SCHEME /\ HOST # SCHEME_SEP /\ 3 > 0
      BY <1>2, <1>8
    <3>7. Replaced(u, ReplaceParts(u, SCHEME_SEP, HOST, buf, 3), l, SCHEME_SEP, HOST)
      <4>. HIDE DEF v, buf
      <4>. QED  BY <1>1, <1>2, <1>3, <3>4, <3>5, <3>6, ReplacePartsSound
    <3>. HIDE DEF v, buf
    <3>. QED  BY <1>8, <3>2, <3>7 DEF Rewritten, Replaced, v, buf
  <2>2. CASE ~(u.ends[SCHEME_SEP] - u.ends[SCHEME] < 3)
    <3>1. v = ReplacePart(u, t, buf)
      BY <1>8, <2>2 DEF SaveBuffered
    <3>. HIDE DEF v, buf
    <3>. QED  BY <1>3, <1>6, <3>1 DEF Rewritten, v, buf
  <2>. QED  BY <2>1, <2>2
<1>9. CASE t # HOST
  <2>1. \/ \E str \in Text : v = ReplacePart(u, t, str)
        \/ t < HOST /\ \E str \in Text : \E n \in 0 .. Len(str) :
                            v = ReplaceParts(u, t, HOST_START, str, n)
    <3>1. buf \o <<"@">> \in Text /\ Len(buf) \in 0 .. Len(buf \o <<"@">>)
      <4>1. <<"@">> \in Text
        BY <1>4 DEF Text
      <4>. HIDE DEF buf
      <4>2. Extends(buf, buf \o <<"@">>)
        BY <1>3, <4>1, ExtendsConcat
      <4>. QED  BY <1>3, <4>2 DEF Extends, Text
    <3>2. <<>> \in Text /\ 0 \in 0 .. Len(<<>>)
      BY DEF Text
    <3>3. (t \in {USERNAME, PASSWORD}) => t < HOST
      BY <1>2
    <3>. HIDE DEF buf
    <3>. QED  BY <1>3, <1>9, <3>1, <3>2, <3>3 DEF SaveBuffered
  <2>2. Good(v)
    <3>. HIDE DEF v, Good
    <3>. QED  BY <1>6, <1>7, <2>1
  <2>. HIDE DEF v
  <2>. QED  BY <2>2 DEF Rewritten, v
<1>. QED  BY <1>8, <1>9

\* What is left of u after part t was edited, or appended.
PartEdited(u, v, t, m) ==
    /\ v \in Url /\ Rewritten(u, v) /\ v.segs = u.segs
    /\ Ordered(v, m) /\ m >= HOST
    /\ t # HOST => CompleteUpTo(v, m)

\* The ways in which url_setter edits part t: behind the last part that is
\* set, in its buffer, or where the last part was cut off.
EditedText(u, v, l, t, s) ==
    \/ l < t /\ v = AppendedUrl(u, l, t, s)
    \/ /\ t =< l /\ t \in {USERNAME, PASSWORD, HOST, PORT, QUERY}
       /\ u.ends[t] < Len(u.norm)
       /\ v = SaveBuffered(u, t, BufferLead(u, t) \o s)
    \/ /\ t =< l /\ t >= HOST /\ (t = FRAGMENT \/ u.ends[t] >= Len(u.norm))
       /\ v = AppendedUrl(CutBefore(u, t), t - 1, t, s)

LEMMA EditingPut ==
    ASSUME NEW x \in Serializer, x.setter, NEW l \in Part, CompleteUpTo(x.u, l),
           NEW t \in {USERNAME, PASSWORD, HOST, PORT, QUERY, FRAGMENT},
           t < HOST => ~IsEmpty(x.u, HOST),
           t = HOST => ~HasOpaquePath(x.u),
           t = PORT => ~IsNull(x.u, HOST),
           NEW s \in Text
    PROVE  /\ GoesOn(x, PutPart(x, t, s))
           /\ \E m \in Part : PartEdited(x.u, PutPart(x, t, s).u, t, m)
           /\ EditedText(x.u, PutPart(x, t, s).u, l, t, s)
<1>. DEFINE u == x.u
            z == [x EXCEPT !.part = t]
<1>1. /\ u \in Url /\ Ordered(u, l) /\ HostAgrees(u, l) /\ l \in Int /\ l >= HOST
      /\ Sound(u, l) /\ (IsNull(u, HOST) => l >= PATH)
      /\ ~IsNull(u, HOST) => ~HasOpaquePath(u)
      /\ ~IsEmpty(u, HOST) => ~IsNull(u, HOST)
  BY CompleteFacts, PartInt, SerializerType DEF CompleteUpTo
<1>2. /\ SCHEME = 0 /\ SCHEME_SEP = 1 /\ USERNAME = 2 /\ PASSWORD = 3 /\ HOST_START = 4
      /\ HOST = 5 /\ PORT = 6 /\ PATH_PREFIX = 7 /\ PATH = 8 /\ QUERY = 9 /\ FRAGMENT = 10
      /\ t \in Part /\ t \in Int /\ t - 1 \in Part /\ HOST_START \in Part /\ HOST \in Part
      /\ \A p \in Part : p \in Int /\ p =< FRAGMENT
  BY PartNumbers, PartInt
<1>3. /\ z \in Serializer /\ z.u = u /\ z.setter = x.setter /\ z.save = x.save
      /\ z.sane = x.sane /\ z.part = t
  BY <1>2 DEF Serializer
<1>4. Expect(z, t > SCHEME) = z
  <2>1. t > SCHEME
    BY <1>2
  <2>2. z \in Serializer
    BY <1>3
  <2>. HIDE DEF z
  <2>. QED  BY <2>1, <2>2, ExpectHolds, Zenon
<1>5. t # HOST => (HasOpaquePath(u) => t > PATH)
  BY <1>1, <1>2
<1>6. t # HOST /\ IsNull(u, HOST) => t >= PATH
  BY <1>1, <1>2
<1>7. /\ \A p \in Part : p > l => u.ends[p] = 0
      /\ \A p \in Part : p =< l => u.ends[p] > 0
      /\ u.ends[l] = Len(u.norm)
  BY <1>1, <1>2, OrderedFacts
<1>8. PutPart(x, t, s) = SavePart(Write(EditingStart(x, t), s))
  BY DEF PutPart, StartPart
\* Appending to w = u, or to what is left of it.
<1>9. ASSUME NEW w \in Url, NEW k \in Part, k < t, Ordered(w, k), Rewritten(u, w),
             w.segs = u.segs, t # HOST => Sound(w, k),
             PutPart(x, t, s)
                = TextAppended([z EXCEPT !.u = w, !.last = k, !.inBuf = FALSE], t, s),
             t >= HOST
      PROVE  /\ GoesOn(x, PutPart(x, t, s)) /\ PartEdited(u, PutPart(x, t, s).u, t, t)
             /\ PutPart(x, t, s).u = AppendedUrl(w, k, t, s)
  <2>. DEFINE a == [z EXCEPT !.u = w, !.last = k, !.inBuf = FALSE]
              y == TextAppended(a, t, s)
  <2>1. /\ a \in Serializer /\ a.u = w /\ a.last = k /\ a.inBuf = FALSE
        /\ a.setter = x.setter /\ a.save = x.save /\ a.sane = x.sane
    BY <1>3 DEF Serializer
  <2>. HIDE DEF a
  <2>2. t > SCHEME_SEP /\ k =< t
    BY <1>2, <1>9
  <2>3. GoesOn(a, y) /\ Added(w, y.u, k, t) /\ y.u \in Url /\ y.u = AppendedUrl(w, k, t, s)
    <3>1. GoesOn(a, y) /\ Added(w, y.u, k, t) /\ y.u = AppendedUrl(w, k, t, s)
      BY <1>2, <1>9, <2>1, <2>2, AppendedSound
    <3>. HIDE DEF y
    <3>. QED  BY <3>1, SerializerType DEF GoesOn
  <2>. HIDE DEF y
  <2>4. GoesOn(x, y)
    BY <2>1, <2>3 DEF GoesOn
  <2>5. Rewritten(w, y.u) /\ Ordered(y.u, t) /\ y.u.segs = w.segs
    BY <2>3 DEF Added
  <2>6. Rewritten(u, y.u)
    BY <1>9, <2>5 DEF Rewritten
  <2>7. t # HOST => CompleteUpTo(y.u, t)
    <3>. SUFFICES ASSUME t # HOST PROVE CompleteUpTo(y.u, t)
      OBVIOUS
    <3>1. HostAgrees(w, k) /\ (HasOpaquePath(w) => t > PATH_PREFIX)
      BY <1>2, <1>5, <1>9 DEF Sound, Rewritten, HasOpaquePath
    <3>2. Sound(y.u, t)
      BY <1>2, <1>9, <2>2, <2>3, <3>1, AddedAgrees
    <3>. QED  BY <1>6, <1>9, <2>6, <3>2 DEF CompleteUpTo, IsNull, Rewritten
  <2>8. t >= HOST
    BY <1>9
  <2>. QED  BY <1>9, <2>3, <2>4, <2>5, <2>6, <2>7, <2>8 DEF PartEdited, a, y
<1>10. CASE u.ends[t] = 0
  <2>1. l < t
    BY <1>2, <1>7, <1>10
  <2>2. FindLastPart(u, t) = l
    <3>1. l =< t
      BY <1>1, <1>2, <2>1
    <3>. QED  BY <1>1, <1>2, <3>1, LastPartFound
  <2>3. EditingStart(x, t) = AppendingStart([z EXCEPT !.last = l, !.inBuf = FALSE], t)
    BY <1>4, <1>10, <2>2 DEF EditingStart
  <2>4. [z EXCEPT !.last = l, !.inBuf = FALSE]
           = [z EXCEPT !.u = u, !.last = l, !.inBuf = FALSE]
    BY <1>3 DEF Serializer
  <2>5. Rewritten(u, u)
    BY <1>1 DEF Rewritten
  <2>6. PutPart(x, t, s) = TextAppended([z EXCEPT !.u = u, !.last = l, !.inBuf = FALSE], t, s)
    BY <1>8, <2>3, <2>4 DEF TextAppended
  <2>7. t >= HOST
    BY <1>1, <1>2, <2>1
  <2>. HIDE DEF z
  <2>8. /\ GoesOn(x, PutPart(x, t, s)) /\ PartEdited(u, PutPart(x, t, s).u, t, t)
        /\ PutPart(x, t, s).u = AppendedUrl(u, l, t, s)
    <3>. HIDE DEF u
    <3>. QED  BY <1>1, <1>2, <1>9, <2>1, <2>5, <2>6, <2>7
  <2>9. EditedText(u, PutPart(x, t, s).u, l, t, s)
    BY <2>1, <2>8 DEF EditedText
  <2>. QED  BY <1>2, <2>8, <2>9
<1>11. CASE u.ends[t] # 0 /\ t < FRAGMENT /\ u.ends[t] < Len(u.norm)
  <2>. DEFINE lead == BufferLead(u, t)
              a == [z EXCEPT !.inBuf = TRUE, !.buf = lead]
              b == [z EXCEPT !.inBuf = TRUE, !.buf = lead \o s]
              v == SaveBuffered(u, t, lead \o s)
              y == [b EXCEPT !.u = v, !.buf = <<>>]
  <2>1. t =< l /\ t \in {USERNAME, PASSWORD, HOST, PORT, QUERY}
    BY <1>1, <1>2, <1>7, <1>11
  <2>2. EditingStart(x, t) = a
    BY <1>4, <1>11 DEF EditingStart
  <2>3. lead \in Text /\ lead \o s \in Text
    BY BufferLeadText, ConcatText
  <2>. HIDE DEF lead
  <2>4. Write(a, s) = b
    BY <1>3, <2>3 DEF Write, Serializer
  <2>5. /\ b.inBuf = TRUE /\ b.u = u /\ b.part = t /\ b.buf = lead \o s /\ b \in Serializer
        /\ b.setter = x.setter /\ b.save = x.save /\ b.sane = x.sane
    BY <1>3, <2>3 DEF Serializer
  <2>6. PutPart(x, t, s) = y
    <3>1. PutPart(x, t, s) = SavePart(b)
      BY <1>8, <2>2, <2>4
    <3>. HIDE DEF b, v
    <3>2. SavePart(b) = [b EXCEPT !.u = SaveBuffered(b.u, b.part, b.buf), !.buf = <<>>]
      BY <2>5 DEF SavePart
    <3>. QED  BY <2>5, <3>1, <3>2 DEF v
  <2>7. v \in Url /\ Rewritten(u, v) /\ v.segs = u.segs /\ Ordered(v, l)
        /\ (t # HOST => HostAgrees(v, l))
    BY <1>1, <2>1, SaveBufferedSound DEF lead
  <2>. HIDE DEF v, b
  <2>8. GoesOn(x, y) /\ y.u = v
    <3>1. <<>> \in Text
      BY DEF Text
    <3>. QED  BY <2>5, <2>7, <3>1 DEF GoesOn, Serializer
  <2>9. PartEdited(u, v, t, l)
    <3>1. IsNull(v, HOST) = IsNull(u, HOST)
      BY <2>7 DEF Rewritten, IsNull
    <3>. QED  BY <1>1, <2>7, <3>1 DEF PartEdited, CompleteUpTo, Sound
  <2>10. EditedText(u, v, l, t, s)
    BY <1>11, <2>1 DEF EditedText, v, lead
  <2>. QED  BY <1>1, <2>6, <2>8, <2>9, <2>10
<1>12. CASE u.ends[t] # 0 /\ ~(t < FRAGMENT /\ u.ends[t] < Len(u.norm))
  <2>. DEFINE w == CutBefore(u, t)
  <2>1. t =< l
    BY <1>1, <1>2, <1>7, <1>12
  <2>2. t >= HOST
    <3>. SUFFICES ASSUME t < HOST PROVE FALSE
      BY <1>2
    <3>1. /\ u.ends[t] =< u.ends[HOST_START] /\ u.ends[HOST] =< Len(u.norm)
      BY <1>1, <1>2, OrderedFacts
    <3>2. ~(u.ends[HOST_START] + 0 >= u.ends[HOST])
      BY HostIsEmpty
    <3>3. /\ u.ends[t] \in Nat /\ u.ends[HOST_START] \in Nat /\ u.ends[HOST] \in Nat
          /\ Len(u.norm) \in Nat /\ t < FRAGMENT
      BY <1>1, <1>2, UrlType
    <3>. QED  BY <1>12, <3>1, <3>2, <3>3
  <2>3. /\ Rewritten(u, w) /\ Ordered(w, t - 1) /\ w.segs = u.segs /\ w \in Url
        /\ t # HOST => Sound(w, t - 1)
    <3>1. t > USERNAME
      BY <1>2, <2>2
    <3>. QED  BY <1>1, <1>2, <1>5, <2>1, <3>1, CutBeforeSound
  <2>4. EditingStart(x, t)
           = AppendingStart([z EXCEPT !.u = w, !.last = t - 1, !.inBuf = FALSE], t)
    BY <1>4, <1>12 DEF EditingStart
  <2>5. PutPart(x, t, s) = TextAppended([z EXCEPT !.u = w, !.last = t - 1, !.inBuf = FALSE], t, s)
    BY <1>8, <2>4 DEF TextAppended
  <2>6. t - 1 < t
    BY <1>2
  <2>7. /\ GoesOn(x, PutPart(x, t, s)) /\ PartEdited(u, PutPart(x, t, s).u, t, t)
        /\ PutPart(x, t, s).u = AppendedUrl(w, t - 1, t, s)
    <3>. HIDE DEF w, z, u
    <3>. QED  BY <1>2, <1>9, <2>2, <2>3, <2>5, <2>6
  <2>8. t = FRAGMENT \/ u.ends[t] >= Len(u.norm)
    <3>1. t =< FRAGMENT /\ u.ends[t] \in Nat /\ Len(u.norm) \in Nat
      BY <1>1, <1>2, UrlType
    <3>. HIDE DEF u
    <3>. QED  BY <1>2, <1>12, <3>1
  <2>9. EditedText(u, PutPart(x, t, s).u, l, t, s)
    BY <2>1, <2>2, <2>7, <2>8 DEF EditedText
  <2>. QED  BY <1>2, <2>7, <2>9
<1>. QED  BY <1>10, <1>11, <1>12

-----------------------------------------------------------------------------
(* Serializers that append, and setters that edit a valid url.             *)

Appender(x) ==
    x \in Serializer /\ ~x.setter /\ ~x.inBuf /\ x.sane /\ Appending(x)

Editor(x) ==
    /\ x \in Serializer /\ x.setter /\ x.sane /\ x.save
    /\ IsValid(x.u) /\ Complete(x.u)

\* y goes on where x has come to, with the same scheme, flags and segments.
SamePlan(x, y) ==
    /\ y.setter = x.setter /\ y.save = x.save /\ y.u.inf = x.u.inf
    /\ y.u.flags = x.u.flags /\ y.u.segs = x.u.segs

LEMMA AppenderFacts ==
    ASSUME NEW x, Appender(x)
    PROVE  /\ x \in Serializer /\ x.u \in Url /\ x.last \in Part /\ x.inBuf = FALSE
           /\ x.setter = FALSE /\ x.sane = TRUE /\ x.save \in BOOLEAN
           /\ Ordered(x.u, x.last) /\ HostAgrees(x.u, x.last) /\ Sound(x.u, x.last)
           /\ ~IsValid(x.u)
BY SerializerType DEF Appender, Appending, Sound

LEMMA EditorFacts ==
    ASSUME NEW x, Editor(x)
    PROVE  /\ x \in Serializer /\ x.u \in Url /\ x.setter = TRUE /\ x.sane = TRUE
           /\ x.save = TRUE /\ IsValid(x.u)
           /\ \E l \in Part : CompleteUpTo(x.u, l)
BY SerializerType DEF Editor, Complete

\* A part other than the host is appended.
LEMMA AppenderPut ==
    ASSUME NEW x, Appender(x),
           NEW t \in {USERNAME, PASSWORD, PORT, PATH, QUERY, FRAGMENT},
           x.last < t \/ (x.last = t /\ t = PATH),
           HasOpaquePath(x.u) => t > PATH_PREFIX,
           NEW s \in Text
    PROVE  /\ Appender(PutPart(x, t, s)) /\ SamePlan(x, PutPart(x, t, s))
           /\ PutPart(x, t, s).last = t
<1>. DEFINE y == PutPart(x, t, s)
<1>1. /\ x \in Serializer /\ x.u \in Url /\ x.last \in Part /\ x.inBuf = FALSE
      /\ x.setter = FALSE /\ x.sane = TRUE
      /\ Ordered(x.u, x.last) /\ HostAgrees(x.u, x.last) /\ ~IsValid(x.u)
  BY AppenderFacts
<1>2. t \in Part /\ t > SCHEME_SEP /\ t # HOST /\ x.last =< t
  <2>1. t \in Part /\ t > SCHEME_SEP /\ t # HOST
    BY PartNumbers
  <2>2. t \in Int /\ x.last \in Int
    BY <1>1, <2>1, PartInt
  <2>. QED  BY <2>1, <2>2
<1>3. y = TextAppended(x, t, s)
  BY <1>1 DEF PutPart, StartPart, TextAppended
<1>4. x.last < t \/ (x.last = t /\ (t = PATH \/ IsEmpty(x.u, t)))
  OBVIOUS
<1>5. GoesOn(x, y) /\ ~y.inBuf /\ y.last = t /\ Added(x.u, y.u, x.last, t)
  BY <1>1, <1>2, <1>3, <1>4, AppendedSound
<1>. HIDE DEF y
<1>6. y \in Serializer /\ y.u \in Url /\ y.setter = x.setter /\ y.save = x.save
      /\ y.sane = x.sane
  BY <1>5, SerializerType DEF GoesOn
<1>7. Sound(y.u, t)
  BY <1>1, <1>2, <1>5, <1>6, AddedAgrees
<1>8. y.u.flags = x.u.flags /\ y.u.inf = x.u.inf /\ y.u.segs = x.u.segs
  BY <1>5 DEF Added, Rewritten
<1>9. ~IsValid(y.u)
  BY <1>1, <1>8 DEF IsValid
<1>10. Appender(y)
  BY <1>1, <1>5, <1>6, <1>7, <1>9 DEF Appender, Appending
<1>. QED  BY <1>5, <1>6, <1>8, <1>10 DEF SamePlan, y

\* A part other than the host is edited.
LEMMA EditorPut ==
    ASSUME NEW x, Editor(x),
           NEW t \in {USERNAME, PASSWORD, PORT, QUERY, FRAGMENT},
           t < HOST => ~IsEmpty(x.u, HOST),
           t = PORT => ~IsNull(x.u, HOST),
           NEW s \in Text
    PROVE  Editor(PutPart(x, t, s)) /\ SamePlan(x, PutPart(x, t, s))
<1>. DEFINE y == PutPart(x, t, s)
<1>1. /\ x \in Serializer /\ x.setter = TRUE /\ x.sane = TRUE /\ x.save = TRUE
      /\ IsValid(x.u)
  BY EditorFacts
<1>2. PICK l \in Part : CompleteUpTo(x.u, l)
  BY EditorFacts
<1>3. t # HOST /\ t \in {USERNAME, PASSWORD, HOST, PORT, QUERY, FRAGMENT}
  BY PartNumbers
<1>4. GoesOn(x, y) /\ \E m \in Part : PartEdited(x.u, y.u, t, m)
  BY <1>1, <1>2, <1>3, EditingPut
<1>. HIDE DEF y
<1>5. PICK m \in Part : PartEdited(x.u, y.u, t, m)
  BY <1>4
<1>6. CompleteUpTo(y.u, m) /\ Rewritten(x.u, y.u) /\ y.u.segs = x.u.segs
  BY <1>3, <1>5 DEF PartEdited
<1>7. y.u.flags = x.u.flags /\ y.u.inf = x.u.inf
  BY <1>6 DEF Rewritten
<1>8. Complete(y.u) /\ IsValid(y.u)
  BY <1>1, <1>6, <1>7 DEF Complete, IsValid
<1>. QED  BY <1>1, <1>4, <1>6, <1>7, <1>8 DEF Editor, SamePlan, GoesOn, y

\* The flag of a part other than the host is set.
WithFlag(x, t) == [x EXCEPT !.u.flags = @ \cup {t}]

LEMMA FlagSet ==
    ASSUME NEW x, Appender(x) \/ Editor(x), NEW t \in {PORT, QUERY, FRAGMENT}
    PROVE  /\ Appender(x) => Appender(WithFlag(x, t))
           /\ Editor(x) => Editor(WithFlag(x, t))
           /\ WithFlag(x, t).u.inf = x.u.inf /\ WithFlag(x, t).u.segs = x.u.segs
           /\ WithFlag(x, t).u.flags = x.u.flags \cup {t}
           /\ WithFlag(x, t).last = x.last /\ WithFlag(x, t).save = x.save
           /\ WithFlag(x, t).setter = x.setter
<1>. DEFINE v == [x.u EXCEPT !.flags = x.u.flags \cup {t}]
            y == WithFlag(x, t)
<1>1. x \in Serializer /\ x.u \in Url
  BY AppenderFacts, EditorFacts
<1>2. /\ SameText(x.u, v) /\ v \in Url
      /\ v.flags = x.u.flags \cup {t} /\ v.inf = x.u.inf /\ v.segs = x.u.segs
  <2>1. t \in 0 .. 12
    BY PartNumbers
  <2>. QED  BY <1>1, <2>1 DEF SameText, Url
<1>3. y = [x EXCEPT !.u = v]
  BY <1>1 DEF WithFlag, Serializer
<1>. HIDE DEF v, y
<1>4. /\ y \in Serializer /\ y.u = v /\ y.setter = x.setter /\ y.save = x.save
      /\ y.sane = x.sane /\ y.inBuf = x.inBuf /\ y.last = x.last
  BY <1>1, <1>2, <1>3 DEF Serializer
<1>5. /\ IsNull(v, HOST) <=> IsNull(x.u, HOST)
      /\ HasOpaquePath(v) <=> HasOpaquePath(x.u)
      /\ IsValid(v) <=> IsValid(x.u)
  BY <1>2, PartNumbers DEF IsNull, HasOpaquePath, IsValid, OPAQUE_PATH, VALID
<1>6. ASSUME NEW l \in Part, Sound(x.u, l) PROVE Sound(v, l)
  <2>1. HasOpaquePath(x.u) => IsNull(x.u, HOST)
    BY <1>6 DEF Sound, HostAgrees
  <2>. QED  BY <1>1, <1>2, <1>5, <1>6, <2>1, SameTextSound
<1>7. Appender(x) => Appender(y)
  BY <1>4, <1>5, <1>6, AppenderFacts DEF Appender, Appending
<1>8. ASSUME NEW l \in Part, CompleteUpTo(x.u, l) PROVE CompleteUpTo(v, l)
  BY <1>5, <1>6, <1>8 DEF CompleteUpTo
<1>9. Editor(x) => Editor(y)
  BY <1>4, <1>5, <1>8 DEF Editor, Complete
<1>. QED  BY <1>2, <1>4, <1>7, <1>9 DEF y

-----------------------------------------------------------------------------
(* Hosts.                                                                  *)

\* y goes on where x has come to, with a host.
HostPlan(x, y) ==
    /\ y.setter = x.setter /\ y.save = x.save /\ y.u.inf = x.u.inf
    /\ y.u.flags = x.u.flags \cup {HOST} /\ y.u.segs = x.u.segs

LEMMA HostPlanFacts ==
    ASSUME NEW x, NEW y, HostPlan(x, y)
    PROVE  /\ ~IsNull(y.u, HOST)
           /\ HasOpaquePath(y.u) <=> HasOpaquePath(x.u)
           /\ IsValid(y.u) <=> IsValid(x.u)
BY PartNumbers DEF HostPlan, IsNull, HasOpaquePath, IsValid, OPAQUE_PATH, VALID

\* The path prefix is written or removed.
LEMMA PathPrefixReplaced ==
    ASSUME NEW u \in Url, NEW l \in Part, Sound(u, l), ~HasOpaquePath(u),
           l >= PATH_PREFIX, NEW str \in Text
    PROVE  LET v == ReplacePart(u, PATH_PREFIX, str)
           IN /\ v \in Url /\ Sound(v, l)
              /\ v.flags = u.flags /\ v.inf = u.inf /\ v.segs = u.segs
<1>. DEFINE v == ReplacePart(u, PATH_PREFIX, str)
<1>1. /\ PATH_PREFIX \in Part /\ PATH_PREFIX # SCHEME /\ PATH_PREFIX =< PATH_PREFIX
      /\ PATH_PREFIX =< l /\ 0 \in 0 .. Len(str) /\ PATH_PREFIX # SCHEME_SEP
      /\ PATH_PREFIX > HOST
  BY PartNumbers, PartInt DEF Text
<1>2. Ordered(u, l) /\ HostAgrees(u, l)
  BY DEF Sound
<1>3. Replaced(u, v, l, PATH_PREFIX, PATH_PREFIX)
  BY <1>1, <1>2, ReplacePartsSound DEF ReplacePart
<1>. HIDE DEF v
<1>4. Rewritten(u, v) /\ Ordered(v, l) /\ HostAgrees(v, l) /\ v.segs = u.segs
  BY <1>1, <1>2, <1>3 DEF Replaced
<1>. QED  BY <1>4 DEF Rewritten, Sound, v

\* A host is written by a setter, and its type is set.
LEMMA EditorHostSet ==
    ASSUME NEW x, Editor(x), ~HasOpaquePath(x.u), NEW s \in Text, NEW ht \in HostType
    PROVE  LET y == PutPart(x, HOST, s)
               v == SetHostType(y.u, ht)
           IN /\ GoesOn(x, y) /\ y \in Serializer /\ v \in Url
              /\ v.flags = x.u.flags \cup {HOST} /\ v.inf = x.u.inf /\ v.segs = x.u.segs
              /\ \E m \in Part : Sound(v, m) /\ m >= HOST
<1>. DEFINE y == PutPart(x, HOST, s)
            v == SetHostType(y.u, ht)
<1>1. x \in Serializer /\ x.setter = TRUE
  BY EditorFacts
<1>2. PICK l \in Part : CompleteUpTo(x.u, l)
  BY EditorFacts
<1>3. /\ HOST \in {USERNAME, PASSWORD, HOST, PORT, QUERY, FRAGMENT}
      /\ ~(HOST < HOST) /\ HOST # PORT
  BY PartNumbers
<1>4. GoesOn(x, y) /\ \E m \in Part : PartEdited(x.u, y.u, HOST, m)
  BY <1>1, <1>2, <1>3, EditingPut
<1>. HIDE DEF y
<1>5. PICK m \in Part : PartEdited(x.u, y.u, HOST, m)
  BY <1>4
<1>6. /\ y.u \in Url /\ Ordered(y.u, m) /\ m >= HOST /\ y.u.segs = x.u.segs
      /\ y.u.flags = x.u.flags /\ y.u.inf = x.u.inf
  BY <1>5 DEF PartEdited, Rewritten
<1>7. ~HasOpaquePath(y.u)
  BY <1>6 DEF HasOpaquePath
<1>8. /\ SameText(y.u, v) /\ Sound(v, m)
      /\ v.flags = y.u.flags \cup {HOST} /\ v.segs = y.u.segs
  BY <1>6, <1>7, SetHostTypeSound
<1>. HIDE DEF v
<1>. QED  BY <1>4, <1>6, <1>8 DEF SameText, GoesOn, v, y

LEMMA AppenderHostSet ==
    ASSUME NEW x, Appender(x), ~HasOpaquePath(x.u), NEW s \in Text, NEW ht \in HostType,
           x.last < HOST_START \/ (x.last = HOST /\ IsEmpty(x.u, HOST))
    PROVE  LET y == PutPart(x, HOST, s)
               v == SetHostType(y.u, ht)
           IN /\ GoesOn(x, y) /\ ~y.inBuf /\ y.last = HOST /\ v \in Url
              /\ v.flags = x.u.flags \cup {HOST} /\ v.inf = x.u.inf /\ v.segs = x.u.segs
              /\ Sound(v, HOST)
              /\ s = <<>> => IsEmpty(v, HOST)
<1>. DEFINE y == PutPart(x, HOST, s)
            v == SetHostType(y.u, ht)
<1>1. /\ x \in Serializer /\ x.setter = FALSE /\ x.inBuf = FALSE /\ x.last \in Part
      /\ x.last \in Int /\ x.u \in Url /\ Ordered(x.u, x.last)
  BY AppenderFacts, PartInt
<1>2. HOST \in Part /\ HOST > SCHEME_SEP /\ HOST = 5 /\ HOST_START = 4
  BY PartNumbers
<1>3. y = TextAppended(x, HOST, s)
  BY <1>1 DEF PutPart, StartPart, TextAppended
<1>4. x.last < HOST \/ (x.last = HOST /\ (HOST = PATH \/ IsEmpty(x.u, HOST)))
  BY <1>1, <1>2
<1>5. /\ GoesOn(x, y) /\ ~y.inBuf /\ y.last = HOST
      /\ Added(x.u, y.u, x.last, HOST)
      /\ y.u = AppendedUrl(x.u, x.last, HOST, s)
  BY <1>1, <1>2, <1>3, <1>4, AppendedSound
<1>. HIDE DEF y
<1>6. /\ Ordered(y.u, HOST) /\ y.u.flags = x.u.flags /\ y.u.inf = x.u.inf
      /\ y.u.segs = x.u.segs /\ y.u \in Url
  BY <1>5 DEF Added, Rewritten
<1>7. ~HasOpaquePath(y.u)
  BY <1>6 DEF HasOpaquePath
<1>8. /\ SameText(y.u, v) /\ Sound(v, HOST)
      /\ v.flags = y.u.flags \cup {HOST} /\ v.segs = y.u.segs
  BY <1>2, <1>6, <1>7, SetHostTypeSound
<1>. HIDE DEF v
<1>9. ASSUME s = <<>> PROVE IsEmpty(v, HOST)
  <2>1. IsEmpty(y.u, HOST)
    BY <1>1, <1>5, <1>9, AppendedEmptyHost
  <2>. QED  BY <1>8, <2>1 DEF SameText, IsEmpty, PartPos
<1>. QED  BY <1>5, <1>6, <1>8, <1>9 DEF SameText, v, y

\* A setter's url with a host is complete.
LEMMA EditorWithHost ==
    ASSUME NEW x, Editor(x), NEW y, GoesOn(x, y), NEW v \in Url,
           v.flags = x.u.flags \cup {HOST}, v.inf = x.u.inf, v.segs = x.u.segs,
           NEW m \in Part, Sound(v, m), m >= HOST
    PROVE  /\ Editor([y EXCEPT !.u = v]) /\ HostPlan(x, [y EXCEPT !.u = v])
<1>. DEFINE z == [y EXCEPT !.u = v]
<1>1. x \in Serializer /\ x.setter = TRUE /\ x.sane = TRUE /\ x.save = TRUE /\ IsValid(x.u)
  BY EditorFacts
<1>2. GoesOn(x, z) /\ z.u = v
  BY GoesOnWith
<1>. HIDE DEF z
<1>3. HostPlan(x, z)
  BY <1>2 DEF HostPlan, GoesOn
<1>4. ~IsNull(v, HOST) /\ IsValid(v)
  BY <1>1, <1>2, <1>3, HostPlanFacts
<1>5. CompleteUpTo(v, m)
  BY <1>4 DEF CompleteUpTo
<1>6. Editor(z)
  BY <1>1, <1>2, <1>4, <1>5 DEF Editor, GoesOn, Complete
<1>. QED  BY <1>3, <1>6 DEF z

LEMMA AppenderWithHost ==
    ASSUME NEW x, Appender(x), NEW y, GoesOn(x, y), ~y.inBuf, y.last = HOST,
           NEW v \in Url,
           v.flags = x.u.flags \cup {HOST}, v.inf = x.u.inf, v.segs = x.u.segs,
           Sound(v, HOST)
    PROVE  /\ Appender([y EXCEPT !.u = v]) /\ HostPlan(x, [y EXCEPT !.u = v])
           /\ [y EXCEPT !.u = v].last = HOST
<1>. DEFINE z == [y EXCEPT !.u = v]
<1>1. x \in Serializer /\ x.setter = FALSE /\ x.sane = TRUE /\ ~IsValid(x.u)
  BY AppenderFacts
<1>2. GoesOn(x, z) /\ z.u = v /\ z.last = HOST /\ ~z.inBuf
  BY GoesOnWith
<1>. HIDE DEF z
<1>3. HostPlan(x, z)
  BY <1>2 DEF HostPlan, GoesOn
<1>4. ~IsValid(v)
  BY <1>1, <1>2, <1>3, HostPlanFacts
<1>5. Appender(z)
  BY <1>1, <1>2, <1>4 DEF Appender, Appending, GoesOn
<1>. QED  BY <1>2, <1>3, <1>5 DEF z

LEMMA PutHostSound ==
    ASSUME NEW x, ~HasOpaquePath(x.u), NEW s \in Text, NEW ht \in HostType,
           \/ Editor(x)
           \/ /\ Appender(x)
              /\ x.last < HOST_START \/ (x.last = HOST /\ IsEmpty(x.u, HOST))
    PROVE  /\ HostPlan(x, PutHost(x, s, ht))
           /\ Editor(x) => Editor(PutHost(x, s, ht))
           /\ Appender(x) => Appender(PutHost(x, s, ht)) /\ PutHost(x, s, ht).last = HOST
<1>. DEFINE y == PutPart(x, HOST, s)
            u == SetHostType(y.u, ht)
            v == IF IsEmpty(u, PATH_PREFIX) THEN u ELSE ReplacePart(u, PATH_PREFIX, <<>>)
<1>1. PutHost(x, s, ht) = [y EXCEPT !.u = v]
  BY DEF PutHost
<1>2. CASE Editor(x)
  <2>1. /\ GoesOn(x, y) /\ u \in Url
        /\ u.flags = x.u.flags \cup {HOST} /\ u.inf = x.u.inf /\ u.segs = x.u.segs
        /\ \E m \in Part : Sound(u, m) /\ m >= HOST
    BY <1>2, EditorHostSet
  <2>. HIDE DEF u, y
  <2>2. PICK m \in Part : Sound(u, m) /\ m >= HOST
    BY <2>1
  <2>3. /\ v \in Url /\ Sound(v, m)
        /\ v.flags = x.u.flags \cup {HOST} /\ v.inf = x.u.inf /\ v.segs = x.u.segs
    <3>1. CASE IsEmpty(u, PATH_PREFIX)
      BY <2>1, <2>2, <3>1
    <3>2. CASE ~IsEmpty(u, PATH_PREFIX)
      <4>1. m >= PATH_PREFIX
        <5>1. ~(u.ends[PORT] + 0 >= u.ends[PATH_PREFIX])
          BY <3>2, HostIsEmpty
        <5>2. u.ends[PORT] \in Nat /\ u.ends[PATH_PREFIX] \in Nat
          BY <2>1, PartNumbers, UrlType
        <5>3. m < PATH_PREFIX => u.ends[PATH_PREFIX] = 0
          BY <2>1, <2>2, PartNumbers, OrderedFacts DEF Sound
        <5>. QED  BY <5>1, <5>2, <5>3, PartInt, PartNumbers
      <4>2. <<>> \in Text /\ ~HasOpaquePath(u)
        BY <2>1, PartNumbers DEF Text, HasOpaquePath, OPAQUE_PATH
      <4>. QED  BY <2>1, <2>2, <3>2, <4>1, <4>2, PathPrefixReplaced
    <3>. QED  BY <3>1, <3>2
  <2>. HIDE DEF v
  <2>4. Editor([y EXCEPT !.u = v]) /\ HostPlan(x, [y EXCEPT !.u = v])
    BY <1>2, <2>1, <2>2, <2>3, EditorWithHost
  <2>5. ~Appender(x)
    BY <1>2 DEF Editor, Appender
  <2>. QED  BY <1>1, <2>4, <2>5
<1>3. CASE /\ Appender(x)
           /\ x.last < HOST_START \/ (x.last = HOST /\ IsEmpty(x.u, HOST))
  <2>1. /\ GoesOn(x, y) /\ ~y.inBuf /\ y.last = HOST /\ u \in Url
        /\ u.flags = x.u.flags \cup {HOST} /\ u.inf = x.u.inf /\ u.segs = x.u.segs
        /\ Sound(u, HOST)
    BY <1>3, AppenderHostSet
  <2>. HIDE DEF u, y
  <2>2. v = u
    <3>1. u.ends[PATH_PREFIX] = 0 /\ u.ends[PORT] \in Nat
      BY <2>1, PartNumbers, OrderedFacts, UrlType DEF Sound
    <3>2. IsEmpty(u, PATH_PREFIX)
      BY <3>1, HostIsEmpty
    <3>. QED  BY <3>2
  <2>. HIDE DEF v
  <2>3. /\ Appender([y EXCEPT !.u = u]) /\ HostPlan(x, [y EXCEPT !.u = u])
        /\ [y EXCEPT !.u = u].last = HOST
    BY <1>3, <2>1, AppenderWithHost
  <2>4. ~Editor(x)
    BY <1>3 DEF Editor, Appender
  <2>. QED  BY <1>1, <2>2, <2>3, <2>4
<1>. QED  BY <1>2, <1>3

\* The host is set to the empty one.
LEMMA SetEmptyHostSound ==
    ASSUME NEW x, ~HasOpaquePath(x.u),
           \/ Editor(x)
           \/ /\ Appender(x)
              /\ x.last < HOST_START \/ (x.last = HOST /\ IsEmpty(x.u, HOST))
    PROVE  /\ HostPlan(x, SetEmptyHost(x))
           /\ Editor(x) => Editor(SetEmptyHost(x))
           /\ Appender(x) => /\ Appender(SetEmptyHost(x)) /\ SetEmptyHost(x).last = HOST
                             /\ IsEmpty(SetEmptyHost(x).u, HOST)
<1>. DEFINE y == PutPart(x, HOST, <<>>)
            u == SetHostType(y.u, "Empty")
<1>1. SetEmptyHost(x) = [y EXCEPT !.u = u]
  BY DEF SetEmptyHost
<1>2. <<>> \in Text /\ "Empty" \in HostType
  BY DEF Text, HostType
<1>3. CASE Editor(x)
  <2>1. /\ GoesOn(x, y) /\ u \in Url
        /\ u.flags = x.u.flags \cup {HOST} /\ u.inf = x.u.inf /\ u.segs = x.u.segs
        /\ \E m \in Part : Sound(u, m) /\ m >= HOST
    BY <1>2, <1>3, EditorHostSet
  <2>. HIDE DEF u, y
  <2>2. PICK m \in Part : Sound(u, m) /\ m >= HOST
    BY <2>1
  <2>3. Editor([y EXCEPT !.u = u]) /\ HostPlan(x, [y EXCEPT !.u = u])
    BY <1>3, <2>1, <2>2, EditorWithHost
  <2>4. ~Appender(x)
    BY <1>3 DEF Editor, Appender
  <2>. QED  BY <1>1, <2>3, <2>4
<1>4. CASE /\ Appender(x)
           /\ x.last < HOST_START \/ (x.last = HOST /\ IsEmpty(x.u, HOST))
  <2>1. /\ GoesOn(x, y) /\ ~y.inBuf /\ y.last = HOST /\ u \in Url
        /\ u.flags = x.u.flags \cup {HOST} /\ u.inf = x.u.inf /\ u.segs = x.u.segs
        /\ Sound(u, HOST) /\ IsEmpty(u, HOST)
    BY <1>2, <1>4, AppenderHostSet
  <2>. HIDE DEF u, y
  <2>2. /\ Appender([y EXCEPT !.u = u]) /\ HostPlan(x, [y EXCEPT !.u = u])
        /\ [y EXCEPT !.u = u].last = HOST
    BY <1>4, <2>1, AppenderWithHost
  <2>3. [y EXCEPT !.u = u].u = u
    BY <2>1, GoesOnWith
  <2>4. ~Editor(x)
    BY <1>4 DEF Editor, Appender
  <2>. QED  BY <1>1, <2>1, <2>2, <2>3, <2>4
<1>. QED  BY <1>3, <1>4

\* A host that was written is emptied.
LEMMA EmptyHostSound ==
    ASSUME NEW x, ~HasOpaquePath(x.u), ~IsNull(x.u, HOST),
           Editor(x) \/ (Appender(x) /\ x.last = HOST)
    PROVE  /\ HostPlan(x, EmptyHost(x))
           /\ Editor(x) => Editor(EmptyHost(x))
           /\ Appender(x) => Appender(EmptyHost(x)) /\ EmptyHost(x).last = HOST
<1>. DEFINE start == x.u.ends[HOST_START]
<1>1. "Empty" \in HostType /\ <<>> \in Text /\ x \in Serializer /\ x.u \in Url
      /\ Len(<<>>) = 0
  <2>1. "Empty" \in HostType /\ <<>> \in Text /\ Len(<<>>) = 0
    BY DEF HostType, Text
  <2>2. x \in Serializer /\ x.u \in Url
    BY EditorFacts, AppenderFacts
  <2>. QED  BY <2>1, <2>2
<1>2. CASE Editor(x)
  <2>. DEFINE v == IF x.u.ends[HOST] # 0 THEN ReplacePart(x.u, HOST, <<>>) ELSE x.u
              w == SetHostType(v, "Empty")
  <2>1. x.setter = TRUE /\ IsValid(x.u)
    BY <1>2, EditorFacts
  <2>2. PICK l \in Part : CompleteUpTo(x.u, l)
    BY <1>2, EditorFacts
  <2>3. Ordered(x.u, l) /\ l >= HOST
    BY <2>2, CompleteFacts
  <2>4. HOST \in Part /\ HOST # SCHEME /\ HOST =< HOST /\ HOST # SCHEME_SEP
        /\ 0 \in 0 .. Len(<<>>) /\ HOST =< l
    BY <1>1, <2>3, PartNumbers, PartInt
  <2>5. v \in Url /\ Ordered(v, l) /\ v.flags = x.u.flags /\ v.inf = x.u.inf
        /\ v.segs = x.u.segs
    <3>1. CASE x.u.ends[HOST] # 0
      <4>1. Replaced(x.u, ReplacePart(x.u, HOST, <<>>), l, HOST, HOST)
        BY <1>1, <2>3, <2>4, ReplacePartsSound DEF ReplacePart
      <4>. QED  BY <3>1, <4>1 DEF Replaced, Rewritten
    <3>2. CASE x.u.ends[HOST] = 0
      BY <1>1, <2>3, <3>2
    <3>. QED  BY <3>1, <3>2
  <2>6. EmptyHost(x) = [x EXCEPT !.u = w]
    BY <2>1 DEF EmptyHost
  <2>. HIDE DEF v
  <2>7. ~HasOpaquePath(v)
    BY <2>5 DEF HasOpaquePath
  <2>8. SameText(v, w) /\ Sound(w, l) /\ w.flags = v.flags \cup {HOST} /\ w.segs = v.segs
    BY <1>1, <2>5, <2>7, SetHostTypeSound
  <2>. HIDE DEF w
  <2>9. w \in Url /\ w.flags = x.u.flags \cup {HOST} /\ w.inf = x.u.inf
        /\ w.segs = x.u.segs
    BY <2>5, <2>8 DEF SameText
  <2>10. Editor([x EXCEPT !.u = w]) /\ HostPlan(x, [x EXCEPT !.u = w])
    BY <1>1, <1>2, <2>3, <2>8, <2>9, GoesOnSelf, EditorWithHost
  <2>11. ~Appender(x)
    BY <1>2 DEF Editor, Appender
  <2>. QED  BY <2>6, <2>10, <2>11
<1>3. CASE Appender(x) /\ x.last = HOST
  <2>. DEFINE w == [SetHostType(x.u, "Empty") EXCEPT
                       !.ends[HOST] = start, !.norm = SubSeq(@, 1, start)]
  <2>1. /\ x.setter = FALSE /\ ~x.inBuf /\ Ordered(x.u, HOST) /\ HostAgrees(x.u, HOST)
    BY <1>3, AppenderFacts
  <2>2. [x EXCEPT !.u = w] \in Serializer => EmptyHost(x) = [x EXCEPT !.u = w]
    <3>. DEFINE z == [x EXCEPT !.u = w]
    <3>1. EmptyHost(x) = Expect(z, x.last = HOST)
      BY <2>1 DEF EmptyHost
    <3>. HIDE DEF z
    <3>2. z \in Serializer => Expect(z, x.last = HOST) = z
      BY <1>3, ExpectHolds, Zenon
    <3>. QED  BY <3>1, <3>2 DEF z
  <2>3. /\ HOST \in Part /\ HOST_START \in Part /\ HOST_START # SCHEME
        /\ HOST_START =< HOST /\ HOST_START < HOST /\ HOST_START \in Int /\ HOST \in Int
        /\ HOST = 5 /\ HOST_START = 4
    BY PartNumbers
  <2>4. /\ start \in Nat /\ start =< x.u.ends[HOST] /\ start =< Len(x.u.norm)
        /\ x.u.ends[HOST] \in Nat /\ \A t \in Part : t > HOST => x.u.ends[t] = 0
    BY <1>1, <2>1, <2>3, OrderedFacts, UrlType
  <2>5. /\ SetHostType(x.u, "Empty").flags = x.u.flags \cup {HOST}
        /\ SetHostType(x.u, "Empty").segs = x.u.segs
        /\ SameText(x.u, SetHostType(x.u, "Empty"))
        /\ Sound(SetHostType(x.u, "Empty"), HOST)
    BY <1>1, <2>1, <2>3, SetHostTypeSound
  <2>. DEFINE u == SetHostType(x.u, "Empty")
  <2>. HIDE DEF u
  <2>6. /\ u \in Url /\ u.norm = x.u.norm /\ u.ends = x.u.ends /\ u.inf = x.u.inf
        /\ u.flags = x.u.flags \cup {HOST} /\ u.segs = x.u.segs
        /\ Ordered(u, HOST) /\ HostAgrees(u, HOST)
    BY <2>5 DEF u, SameText, Sound
  <2>7. SubSeq(u.norm, 1, start) \in Text
    BY <1>1, <2>4, <2>6, UrlType, PrefixText
  <2>. DEFINE E == [u.ends EXCEPT ![HOST] = start]
              N == SubSeq(u.norm, 1, start)
  <2>8. w = [u EXCEPT !.ends = E, !.norm = N]
    BY DEF u
  <2>9. /\ E \in [Part -> Nat] /\ E[HOST] = start
        /\ \A t \in Part : t # HOST => E[t] = x.u.ends[t]
    BY <1>1, <2>3, <2>4, <2>6, UrlType
  <2>. HIDE DEF E, N
  <2>10. w \in Url /\ w.norm = N /\ w.ends = E /\ w.inf = u.inf /\ w.flags = u.flags
         /\ w.htype = u.htype /\ w.segs = u.segs
    BY <2>6, <2>7, <2>8, <2>9 DEF N, Url
  <2>. HIDE DEF w
  <2>11. NewEnds(u.ends, E, HOST_START, HOST)
    <3>1. \A t \in Part : HOST_START < t /\ t =< HOST => t = HOST
      BY <2>3, PartInt
    <3>2. \A t \in Part : t =< HOST_START => t # HOST
      BY <2>3, PartInt
    <3>3. \A t \in Part : t > HOST => E[t] = 0
      BY <2>3, <2>4, <2>9, PartInt
    <3>4. \A s, t \in Part : HOST_START < s /\ s =< t /\ t =< HOST => s = HOST /\ t = HOST
      BY <2>3, PartInt
    <3>5. u.ends[HOST_START] = start /\ start =< start
      BY <2>4, <2>6
    <3>6. \A t \in Part : t =< HOST_START => E[t] = u.ends[t]
      BY <2>6, <2>9, <3>2
    <3>7. \A t \in Part : HOST_START < t /\ t =< HOST => u.ends[HOST_START] =< E[t]
      BY <2>9, <3>1, <3>5
    <3>8. \A s, t \in Part : HOST_START < s /\ s =< t /\ t =< HOST => E[s] =< E[t]
      BY <2>9, <3>4, <3>5
    <3>. QED  BY <3>3, <3>6, <3>7, <3>8 DEF NewEnds
  <2>12. Truncated(u, w, HOST_START, HOST)
    BY <2>4, <2>6, <2>9, <2>10, <2>11 DEF Truncated, N
  <2>13. ~HasOpaquePath(u)
    BY <2>6, PartNumbers DEF HasOpaquePath, OPAQUE_PATH
  <2>14. w.ends[HOST] =< u.ends[HOST] /\ HOST_START >= HOST_START
    BY <2>3, <2>4, <2>6, <2>9, <2>10
  <2>15. Sound(w, HOST)
    BY <2>3, <2>6, <2>12, <2>13, <2>14, TruncatedSound
  <2>16. /\ Appender([x EXCEPT !.u = w]) /\ HostPlan(x, [x EXCEPT !.u = w])
         /\ [x EXCEPT !.u = w].last = HOST
    BY <1>1, <1>3, <2>1, <2>6, <2>10, <2>15, GoesOnSelf, AppenderWithHost
  <2>17. ~Editor(x)
    BY <1>3 DEF Editor, Appender
  <2>. QED  BY <2>2, <2>16, <2>17 DEF Appender
<1>. QED  BY <1>2, <1>3

-----------------------------------------------------------------------------
(* Parts that are removed, and an opaque path that is stripped.            *)

\* y is the setter x with the part t removed, or x itself.
PartCleared(x, y, t) ==
    /\ Editor(y) /\ y.u.inf = x.u.inf /\ y.u.segs = x.u.segs
    /\ y.u.flags = x.u.flags \/ y.u.flags = x.u.flags \ {t}

LEMMA ClearPartSound ==
    ASSUME NEW x, Editor(x), NEW t \in {PORT, QUERY, FRAGMENT},
           t = PORT => ~HasOpaquePath(x.u)
    PROVE  PartCleared(x, ClearPart(x, t), t)
<1>1. x \in Serializer /\ x.u \in Url /\ x.setter = TRUE /\ IsValid(x.u)
  BY EditorFacts
<1>2. PICK l \in Part : CompleteUpTo(x.u, l)
  BY EditorFacts
<1>3. CASE x.u.ends[t] = 0
  <2>1. ClearPart(x, t) = x
    BY <1>3 DEF ClearPart
  <2>. QED  BY <2>1 DEF PartCleared
<1>4. CASE x.u.ends[t] # 0
  <2>. DEFINE w == ReplacePart(x.u, t, <<>>)
              v == [w EXCEPT !.flags = @ \ {t}]
              y == [x EXCEPT !.u = v]
  <2>1. ClearPart(x, t) = y
    BY <1>1, <1>4, Zenon DEF ClearPart
  <2>2. Ordered(x.u, l) /\ HostAgrees(x.u, l) /\ l >= HOST
    BY <1>2, CompleteFacts
  <2>3. t \in Part /\ t # SCHEME /\ t # SCHEME_SEP /\ t > HOST /\ t # HOST /\ t # VALID
        /\ t # OPAQUE_PATH /\ (t # PORT => t > PATH_PREFIX)
    BY PartNumbers DEF VALID, OPAQUE_PATH
  <2>4. t =< l /\ t =< t
    BY <1>1, <1>4, <2>2, <2>3, OrderedFacts, PartInt
  <2>5. <<>> \in Text /\ 0 \in 0 .. Len(<<>>)
    BY DEF Text
  <2>6. Replaced(x.u, w, l, t, t)
    BY <1>1, <2>2, <2>3, <2>4, <2>5, ReplacePartsSound DEF ReplacePart
  <2>. HIDE DEF w
  <2>7. Rewritten(x.u, w) /\ Ordered(w, l) /\ w.segs = x.u.segs /\ HostAgrees(w, l)
    BY <2>2, <2>3, <2>6 DEF Replaced
  <2>8. /\ w \in Url /\ w.flags = x.u.flags /\ w.inf = x.u.inf /\ w.htype = x.u.htype
        /\ w.flags \ {t} \in SUBSET (0 .. 12)
    BY <2>7, UrlType DEF Rewritten
  <2>9. v \in Url /\ v.flags = w.flags \ {t} /\ SameText(w, v) /\ v.segs = w.segs
    BY <2>8 DEF Url, SameText
  <2>. HIDE DEF v
  <2>10. /\ IsNull(v, HOST) <=> IsNull(w, HOST)
         /\ HasOpaquePath(v) <=> HasOpaquePath(w)
         /\ IsValid(v)
         /\ IsNull(v, HOST) <=> IsNull(x.u, HOST)
    BY <1>1, <2>3, <2>8, <2>9 DEF IsNull, HasOpaquePath, IsValid
  <2>11. HasOpaquePath(w) => IsNull(w, HOST)
    BY <2>7 DEF HostAgrees
  <2>12. Sound(v, l)
    BY <2>7, <2>8, <2>9, <2>10, <2>11, SameTextSound DEF Sound
  <2>13. CompleteUpTo(v, l)
    BY <1>2, <2>10, <2>12 DEF CompleteUpTo
  <2>14. GoesOn(x, y) /\ y.u = v
    BY <1>1, <2>9, GoesOnSelf, GoesOnWith
  <2>. HIDE DEF y
  <2>15. Editor(y)
    BY <2>10, <2>13, <2>14 DEF Editor, GoesOn, Complete
  <2>16. y.u.flags = x.u.flags \ {t} /\ y.u.inf = x.u.inf /\ y.u.segs = x.u.segs
    BY <2>7, <2>8, <2>9, <2>14 DEF SameText
  <2>. QED  BY <2>1, <2>15, <2>16 DEF PartCleared
<1>. QED  BY <1>3, <1>4

\* A text that still reaches past the ':' of the scheme is what is left of a
\* URL with an opaque path.
LEMMA StrippedSound ==
    ASSUME NEW u \in Url, NEW l \in Part, CompleteUpTo(u, l), HasOpaquePath(u),
           NEW len \in Nat, len =< Len(u.norm), u.ends[SCHEME] + 1 =< len
    PROVE  LET v == [u EXCEPT !.norm = SubSeq(@, 1, len),
                              !.ends = [t \in Part |->
                                    IF t >= PATH /\ \A s \in PATH .. t : @[s] # 0
                                    THEN len ELSE @[t]]]
           IN /\ v \in Url /\ CompleteUpTo(v, l) /\ v.flags = u.flags
              /\ v.inf = u.inf /\ v.segs = u.segs /\ v.norm = SubSeq(u.norm, 1, len)
              /\ \A t \in Part : PATH_PREFIX < t /\ t =< l => v.ends[t] = len
              /\ \A t \in Part : ~(PATH_PREFIX < t /\ t =< l) => v.ends[t] = u.ends[t]
<1>. DEFINE E == [t \in Part |-> IF t >= PATH /\ \A s \in PATH .. t : u.ends[s] # 0
                                 THEN len ELSE u.ends[t]]
            N == SubSeq(u.norm, 1, len)
            v == [u EXCEPT !.norm = N, !.ends = E]
<1>4. Ordered(u, l) /\ HostAgrees(u, l) /\ IsNull(u, HOST) /\ l >= PATH /\ l >= HOST
      /\ u.ends[PATH_PREFIX] = u.ends[SCHEME] + 1
  <2>1. Ordered(u, l) /\ HostAgrees(u, l)
    BY CompleteFacts
  <2>2. IsNull(u, HOST) /\ l >= PATH
    BY <2>1 DEF HostAgrees, CompleteUpTo
  <2>3. l >= PATH_PREFIX /\ l >= HOST
    BY <2>2, PartInt, PartNumbers
  <2>. QED  BY <2>1, <2>2, <2>3 DEF HostAgrees
<1>5. u.norm \in Text /\ u.ends \in [Part -> Nat] /\ Len(u.norm) \in Nat
  BY UrlType
<1>7. N \in Text
  BY <1>5, PrefixText
<1>8. /\ PATH_PREFIX \in Part /\ PATH_PREFIX # SCHEME /\ PATH_PREFIX =< l
      /\ PATH_PREFIX < l /\ PATH_PREFIX + 1 = PATH /\ PATH \in Part /\ PATH \in Int
      /\ PATH_PREFIX \in Int /\ l \in Int /\ PATH_PREFIX = 7 /\ HOST = 5 /\ PATH = 8
  BY <1>4, PartInt, PartNumbers
<1>9. \A t \in Part : (t >= PATH /\ \A s \in PATH .. t : u.ends[s] # 0)
                        <=> (PATH_PREFIX < t /\ t =< l)
  <2>1. \A t \in Part : t > l => u.ends[t] = 0
    BY <1>4, OrderedFacts
  <2>2. \A t \in Part : t =< l => u.ends[t] > 0
    BY <1>4, OrderedFacts
  <2>3. SUFFICES ASSUME NEW t \in Part
                 PROVE  (t >= PATH /\ \A s \in PATH .. t : u.ends[s] # 0)
                          <=> (PATH_PREFIX < t /\ t =< l)
    OBVIOUS
  <2>4. t \in Int /\ \A s \in PATH .. t : s \in Part /\ s \in Int
    BY <1>8, PartInt
  <2>5. ASSUME t > l, t >= PATH PROVE ~\A s \in PATH .. t : u.ends[s] # 0
    BY <1>8, <2>1, <2>4, <2>5
  <2>6. ASSUME t =< l PROVE \A s \in PATH .. t : u.ends[s] # 0
    <3>1. SUFFICES ASSUME NEW s \in PATH .. t PROVE u.ends[s] # 0
      OBVIOUS
    <3>2. s \in Part /\ s \in Int
      BY <2>4
    <3>3. s =< l
      BY <1>8, <2>4, <2>6, <3>2
    <3>4. u.ends[s] > 0 /\ u.ends[s] \in Nat
      BY <1>5, <2>2, <3>2, <3>3
    <3>. QED  BY <3>4
  <2>. QED  BY <1>8, <2>4, <2>5, <2>6
<1>10. /\ E \in [Part -> Nat]
       /\ \A t \in Part : PATH_PREFIX < t /\ t =< l => E[t] = len
       /\ \A t \in Part : ~(PATH_PREFIX < t /\ t =< l) => E[t] = u.ends[t]
  BY <1>5, <1>9
<1>. HIDE DEF E, N
<1>11. v \in Url /\ v.norm = N /\ v.ends = E /\ v.inf = u.inf /\ v.flags = u.flags
       /\ v.htype = u.htype /\ v.segs = u.segs
  BY <1>7, <1>10 DEF Url
<1>. HIDE DEF v
<1>12. NewEnds(u.ends, E, PATH_PREFIX, l)
  <2>1. \A t \in Part : t \in Int
    BY PartInt
  <2>2. \A t \in Part : t =< PATH_PREFIX => E[t] = u.ends[t]
    BY <1>8, <1>10, <2>1
  <2>3. \A t \in Part : t > l => E[t] = 0
    <3>1. \A t \in Part : t > l => u.ends[t] = 0
      BY <1>4, OrderedFacts
    <3>2. \A t \in Part : t > l => ~(PATH_PREFIX < t /\ t =< l)
      BY <1>8, <2>1
    <3>. QED  BY <1>10, <3>1, <3>2
  <2>5. u.ends[PATH_PREFIX] =< len /\ len =< len
    BY <1>4
  <2>6. \A t \in Part : PATH_PREFIX < t /\ t =< l => u.ends[PATH_PREFIX] =< E[t]
    BY <1>10, <2>5
  <2>7. \A s, t \in Part : PATH_PREFIX < s /\ s =< t /\ t =< l => E[s] =< E[t]
    <3>1. \A s, t \in Part : PATH_PREFIX < s /\ s =< t /\ t =< l => s =< l /\ PATH_PREFIX < t
      BY <1>8, <2>1
    <3>. QED  BY <1>10, <2>5, <3>1
  <2>. QED  BY <2>2, <2>3, <2>6, <2>7 DEF NewEnds
<1>13. E[l] = len
  <2>1. l =< l
    BY <1>8
  <2>. QED  BY <1>8, <1>10, <2>1
<1>14. Truncated(u, v, PATH_PREFIX, l)
  BY <1>11, <1>12, <1>13 DEF Truncated, N
<1>15. PATH_PREFIX >= HOST_START /\ PATH_PREFIX >= PATH_PREFIX /\ v.ends[HOST] =< u.ends[HOST]
  <2>1. HOST \in Part /\ ~(PATH_PREFIX < HOST /\ HOST =< l)
    BY <1>8, PartNumbers
  <2>2. v.ends[HOST] = u.ends[HOST] /\ u.ends[HOST] \in Nat
    BY <1>5, <1>10, <1>11, <2>1
  <2>. QED  BY <1>8, <2>2, PartNumbers
<1>16. Sound(v, l)
  BY <1>4, <1>8, <1>14, <1>15, TruncatedSound
<1>18. CompleteUpTo(v, l)
  BY <1>4, <1>16 DEF CompleteUpTo
<1>19. /\ v \in Url /\ CompleteUpTo(v, l) /\ v.flags = u.flags
       /\ v.inf = u.inf /\ v.segs = u.segs /\ v.norm = N
  BY <1>11, <1>18
<1>20. \A t \in Part : PATH_PREFIX < t /\ t =< l => v.ends[t] = len
  BY <1>10, <1>11
<1>21. \A t \in Part : ~(PATH_PREFIX < t /\ t =< l) => v.ends[t] = u.ends[t]
  BY <1>10, <1>11
<1>. QED  BY <1>19, <1>20, <1>21 DEF v, E, N

\* Only spaces go, so that the ':' of the scheme stays.
\* The URL without the spaces at the end of its opaque path.
StrippedUrl(u, len) ==
    [u EXCEPT !.norm = SubSeq(@, 1, len),
              !.ends = [t \in Part |-> IF t >= PATH /\ \A s \in PATH .. t : @[s] # 0
                                       THEN len ELSE @[t]]]

Stripped(u, v) ==
    /\ HasOpaquePath(u) /\ IsNull(u, FRAGMENT) /\ IsNull(u, QUERY)
    /\ \E len \in Nat :
          len =< Len(u.norm) /\ u.ends[SCHEME] + 1 =< len /\ v = StrippedUrl(u, len)

LEMMA StripOpaquePathSound ==
    ASSUME NEW x, Editor(x)
    PROVE  /\ Editor(StripOpaquePath(x)) /\ StripOpaquePath(x).u.flags = x.u.flags
           /\ StripOpaquePath(x) = x \/ Stripped(x.u, StripOpaquePath(x).u)
<1>. DEFINE len == FindLastNot(x.u.norm, {" "})
            v == [x.u EXCEPT !.norm = SubSeq(@, 1, len),
                             !.ends = [t \in Part |->
                                    IF t >= PATH /\ \A s \in PATH .. t : @[s] # 0
                                    THEN len ELSE @[t]]]
            y == [x EXCEPT !.u = v]
<1>1. x \in Serializer /\ x.u \in Url /\ x.setter = TRUE /\ IsValid(x.u)
  BY EditorFacts
<1>2. PICK l \in Part : CompleteUpTo(x.u, l)
  BY EditorFacts
<1>3. CASE HasOpaquePath(x.u) /\ IsNull(x.u, FRAGMENT) /\ IsNull(x.u, QUERY)
  <2>1. StripOpaquePath(x) = y
    BY <1>3 DEF StripOpaquePath
  <2>2. x.u.norm \in Text /\ Len(x.u.norm) \in Nat
    BY <1>1, UrlType
  <2>12. len \in 0 .. Len(x.u.norm)
    BY <2>2, FindLastNotRange
  <2>13. \A i \in 1 .. Len(x.u.norm) : x.u.norm[i] \notin {" "} => i =< len
    BY <2>2, FindLastNotRange
  <2>. HIDE DEF len
  <2>3. /\ Ordered(x.u, l)
        /\ x.u.ends[SCHEME] \in Nat /\ x.u.ends[SCHEME] > 0
        /\ x.u.ends[SCHEME] + 1 =< Len(x.u.norm)
        /\ x.u.norm[x.u.ends[SCHEME] + 1] = ":"
    BY <1>1, <1>2, CompleteFacts, OrderedFacts
  <2>4. x.u.ends[SCHEME] + 1 \in 1 .. Len(x.u.norm)
    BY <2>2, <2>3
  <2>5. x.u.norm[x.u.ends[SCHEME] + 1] \notin {" "}
    BY <2>3
  <2>6. x.u.ends[SCHEME] + 1 =< len
    BY <2>4, <2>5, <2>13
  <2>7. len \in Nat /\ len =< Len(x.u.norm)
    BY <2>2, <2>12
  <2>8. v \in Url /\ CompleteUpTo(v, l) /\ v.flags = x.u.flags
    BY <1>1, <1>2, <1>3, <2>6, <2>7, StrippedSound
  <2>14. v = StrippedUrl(x.u, len)
    BY DEF StrippedUrl
  <2>. HIDE DEF v
  <2>9. GoesOn(x, y) /\ y.u = v
    BY <1>1, <2>8, GoesOnSelf, GoesOnWith
  <2>. HIDE DEF y
  <2>10. IsValid(v)
    BY <1>1, <2>8 DEF IsValid
  <2>11. Editor(y)
    BY EditorFacts, <2>8, <2>9, <2>10 DEF Editor, GoesOn, Complete
  <2>15. Stripped(x.u, v)
    BY <1>3, <2>6, <2>7, <2>14 DEF Stripped
  <2>. QED  BY <2>1, <2>8, <2>9, <2>11, <2>15
<1>4. CASE ~(HasOpaquePath(x.u) /\ IsNull(x.u, FRAGMENT) /\ IsNull(x.u, QUERY))
  <2>1. StripOpaquePath(x) = x
    BY <1>4 DEF StripOpaquePath
  <2>. QED  BY <2>1
<1>. QED  BY <1>3, <1>4

-----------------------------------------------------------------------------
(* Scheme.                                                                 *)

LEMMA SchemeView ==
    ASSUME NEW u
    PROVE  View(u, SCHEME) = SubSeq(u.norm, 1, u.ends[SCHEME])
<1>1. PartStart(SCHEME) = 0
  BY PartNumbers DEF PartStart
<1>2. PartPos(u, SCHEME) = 0
  BY DEF PartPos
<1>3. PartPos(u, SCHEME) + PartStart(SCHEME) + 1 = 1
  BY <1>1, <1>2
<1>. QED  BY <1>3 DEF View

\* A scheme and its ':' are written where nothing else is.
LEMMA SetSchemeText ==
    ASSUME NEW u \in Url, NEW str \in Text, str # <<>>
    PROVE  LET v == SetScheme(u, str)
           IN /\ v \in Url /\ v.inf = GetSchemeInfo(str)
              /\ v.flags = u.flags /\ v.segs = u.segs /\ v.htype = u.htype
              /\ Len(v.norm) = Len(str) + 1 /\ v.norm[Len(str) + 1] = ":"
              /\ v.ends[SCHEME] = Len(str) /\ Len(str) \in Nat /\ Len(str) > 0
              /\ \A t \in Part : t # SCHEME => v.ends[t] = u.ends[t]
              /\ View(v, SCHEME) = str
<1>. DEFINE n == Len(str)
            norm == str \o <<":">>
            E == [u.ends EXCEPT ![SCHEME] = n]
            v == [u EXCEPT !.norm = norm, !.ends = E, !.inf = GetSchemeInfo(str)]
<1>1. SetScheme(u, str) = v
  BY DEF SetScheme
<1>2. n \in Nat /\ n > 0
  BY DEF Text
<1>3. <<":">> \in Text /\ Len(<<":">>) = 1 /\ <<":">>[1] = ":"
  BY CharAssumption DEF Text, Written
<1>4. norm \in Text /\ Len(norm) = n + 1 /\ \A i \in 1 .. n : norm[i] = str[i]
  BY <1>3, ConcatText
<1>5. norm[n + 1] = ":"
  BY <1>3, ConcatText
<1>6. SubSeq(norm, 1, n) = str
  <2>. HIDE DEF norm
  <2>1. SubSeq(norm, 1, n) \in Text /\ Len(SubSeq(norm, 1, n)) = n
        /\ \A k \in 1 .. n : SubSeq(norm, 1, n)[k] = norm[k]
    <3>1. n =< Len(norm)
      BY <1>2, <1>4
    <3>. QED  BY <1>2, <1>4, <3>1, PrefixText
  <2>2. \A k \in 1 .. n : SubSeq(norm, 1, n)[k] = str[k]
    BY <1>4, <2>1
  <2>. QED  BY <2>1, <2>2, SeqEqual DEF Text
<1>7. SCHEME \in Part /\ u.ends \in [Part -> Nat]
  BY UrlType, PartNumbers
<1>8. E \in [Part -> Nat] /\ E[SCHEME] = n /\ \A t \in Part : t # SCHEME => E[t] = u.ends[t]
  BY <1>2, <1>7
<1>. HIDE DEF E, norm, n
<1>9. /\ v \in Url /\ v.norm = norm /\ v.ends = E /\ v.inf = GetSchemeInfo(str)
      /\ v.flags = u.flags /\ v.segs = u.segs /\ v.htype = u.htype
  BY <1>4, <1>8, GetSchemeInfoType DEF Url
<1>. HIDE DEF v
<1>10. View(v, SCHEME) = SubSeq(norm, 1, n)
  BY <1>8, <1>9, SchemeView
<1>. QED  BY <1>1, <1>2, <1>4, <1>5, <1>6, <1>8, <1>9, <1>10 DEF n

\* Nothing but a scheme is written.
Blank(x) ==
    /\ x \in Serializer /\ ~x.setter /\ ~x.inBuf /\ x.sane /\ x.last = SCHEME
    /\ \A t \in Part : t # SCHEME => x.u.ends[t] = 0
    /\ ~HasOpaquePath(x.u) /\ ~IsValid(x.u) /\ x.u.segs = 0

LEMMA FreshBlank ==
    ASSUME NEW x \in Serializer, ~x.setter, ~x.inBuf, x.sane, Fresh(x)
    PROVE  Blank(x) /\ x.u.flags = InitialFlags /\ IsNull(x.u, HOST)
BY DEF Fresh, Blank, EmptyUrl, HasOpaquePath, IsValid, OPAQUE_PATH, VALID, InitialFlags,
       IsNull, SCHEME, USERNAME, PASSWORD, HOST, PATH

LEMMA SchemeBlank ==
    ASSUME NEW x, Appender(x), SchemeWritten(x), x.u.segs = 0
    PROVE  Blank(x)
<1>1. /\ x \in Serializer /\ x.u \in Url /\ x.setter = FALSE /\ ~x.inBuf /\ x.sane = TRUE
      /\ Ordered(x.u, x.last) /\ ~IsValid(x.u) /\ x.last \in Part
  BY AppenderFacts
<1>2. x.last = SCHEME /\ ~HasOpaquePath(x.u)
  BY DEF SchemeWritten
<1>3. \A t \in Part : t > SCHEME => x.u.ends[t] = 0
  BY <1>1, <1>2, OrderedFacts
<1>4. \A t \in Part : t # SCHEME => t > SCHEME
  BY PartInt, PartNumbers
<1>. QED  BY <1>1, <1>2, <1>3, <1>4 DEF Blank

LEMMA AppendSchemeSound ==
    ASSUME NEW x, Blank(x), NEW str \in Text, str # <<>>
    PROVE  LET y == AppendScheme(x, str)
           IN /\ Appender(y) /\ SchemeWritten(y) /\ y.save = x.save
              /\ y.u.segs = 0 /\ y.u.flags = x.u.flags
              /\ y.u.inf = GetSchemeInfo(str) /\ View(y.u, SCHEME) = str
<1>. DEFINE v == SetScheme(x.u, str)
            y == [x EXCEPT !.u = v]
<1>1. AppendScheme(x, str) = y
  BY DEF AppendScheme
<1>2. x \in Serializer /\ x.u \in Url /\ x.last = SCHEME
  BY SerializerType DEF Blank
<1>3. /\ v \in Url /\ v.inf = GetSchemeInfo(str)
      /\ v.flags = x.u.flags /\ v.segs = x.u.segs
      /\ Len(v.norm) = Len(str) + 1 /\ v.norm[Len(str) + 1] = ":"
      /\ v.ends[SCHEME] = Len(str) /\ Len(str) \in Nat /\ Len(str) > 0
      /\ \A t \in Part : t # SCHEME => v.ends[t] = x.u.ends[t]
      /\ View(v, SCHEME) = str
  BY <1>2, SetSchemeText
<1>. HIDE DEF v
<1>4. /\ GoesOn(x, y) /\ y.u = v /\ y.last = SCHEME /\ y.inBuf = x.inBuf
      /\ y \in Serializer
  BY <1>2, <1>3, GoesOnSelf, GoesOnWith DEF GoesOn
<1>. HIDE DEF y
<1>5. \A t \in Part : t # SCHEME => v.ends[t] = 0
  BY <1>3 DEF Blank
<1>6. InOrder(v.ends, Len(v.norm), SCHEME)
  <2>1. \A t \in Part : v.ends[t] # 0 <=> t =< SCHEME
    <3>1. \A t \in Part : t =< SCHEME <=> t = SCHEME
      BY PartInt, PartNumbers
    <3>2. v.ends[SCHEME] # 0
      BY <1>3
    <3>. QED  BY <1>5, <3>1, <3>2
  <2>2. \A s, t \in Part : s =< t /\ t =< SCHEME => v.ends[s] =< v.ends[t]
    <3>1. \A s, t \in Part : s =< t /\ t =< SCHEME => s = SCHEME /\ t = SCHEME
      BY PartInt, PartNumbers
    <3>. QED  BY <1>3, <3>1
  <2>3. Len(v.norm) = v.ends[SCHEME] + 1
    BY <1>3
  <2>. QED  BY <2>1, <2>2, <2>3 DEF InOrder
<1>7. SchemeEnds(v, SCHEME)
  BY <1>3, PartNumbers DEF SchemeEnds
<1>8. /\ ~HasOpaquePath(v) /\ ~IsValid(v) /\ v.segs = 0
  BY <1>3 DEF Blank, HasOpaquePath, IsValid
<1>9. IsEmpty(v, HOST)
  BY <1>5, PartNumbers, HostIsEmpty
<1>10. Sound(v, SCHEME)
  BY <1>3, <1>6, <1>7, <1>8, <1>9 DEF Sound, Ordered, EndsUpTo, HostAgrees
<1>. QED  BY <1>1, <1>3, <1>4, <1>8, <1>10 DEF Appender, Appending, SchemeWritten, Blank,
             GoesOn

\* The path that follows the scheme is going to be opaque.
LEMMA SetHasOpaquePathSound ==
    ASSUME NEW x, Appender(x), x.last = SCHEME, IsNull(x.u, HOST), ~x.u.inf.special
    PROVE  LET y == SetHasOpaquePath(x)
           IN /\ Appender(y) /\ y.last = SCHEME /\ HasOpaquePath(y.u)
              /\ y.save = x.save /\ y.u.segs = x.u.segs
<1>. DEFINE v == [x.u EXCEPT !.flags = @ \cup {OPAQUE_PATH}]
            y == [x EXCEPT !.u = v]
<1>1. /\ x \in Serializer /\ x.u \in Url /\ x.sane = TRUE /\ ~x.inBuf
      /\ Ordered(x.u, SCHEME) /\ HostAgrees(x.u, SCHEME) /\ ~IsValid(x.u)
  BY AppenderFacts
<1>2. v \in Url /\ SameText(x.u, v) /\ v.flags = x.u.flags \cup {OPAQUE_PATH}
      /\ v.segs = x.u.segs
  BY <1>1 DEF Url, SameText, OPAQUE_PATH
<1>3. SetHasOpaquePath(x) = Expect(y, x.last = SCHEME)
  BY DEF SetHasOpaquePath
<1>. HIDE DEF v
<1>4. GoesOn(x, y) /\ y.u = v /\ y.last = x.last /\ y.inBuf = x.inBuf /\ y \in Serializer
  BY <1>1, <1>2, GoesOnSelf, GoesOnWith DEF GoesOn
<1>. HIDE DEF y
<1>5. SetHasOpaquePath(x) = y
  BY <1>3, <1>4, ExpectHolds, Zenon
<1>6. HasOpaquePath(v) /\ IsNull(v, HOST) /\ ~IsValid(v)
  BY <1>1, <1>2, PartNumbers DEF HasOpaquePath, IsNull, IsValid, OPAQUE_PATH, VALID
<1>7. SCHEME \in Part /\ ~(SCHEME >= PATH_PREFIX)
  BY PartNumbers
<1>8. Ordered(v, SCHEME)
  BY <1>1, <1>2, <1>7, SameTextOrdered
<1>9. IsEmpty(v, HOST)
  BY <1>1, <1>2 DEF HostAgrees, IsEmpty, PartPos, SameText
<1>10. HostAgrees(v, SCHEME)
  BY <1>2, <1>6, <1>7, <1>9 DEF HostAgrees, SameText
<1>. QED  BY <1>2, <1>4, <1>5, <1>6, <1>8, <1>10 DEF Appender, Appending, Sound, GoesOn

\* Another scheme takes the place of the first, and everything moves with it.
LEMMA SchemeReplaced ==
    ASSUME NEW u \in Url, NEW l \in Part, CompleteUpTo(u, l),
           NEW str \in Text, str # <<>>,
           GetSchemeInfo(str).special = u.inf.special
    PROVE  LET w == ReplacePart(u, SCHEME, str)
               v == [w EXCEPT !.ends[SCHEME] = Len(str), !.inf = GetSchemeInfo(str)]
           IN /\ v \in Url /\ CompleteUpTo(v, l)
              /\ v.inf = GetSchemeInfo(str) /\ v.flags = u.flags /\ v.segs = u.segs
              /\ v.norm = str \o SubSeq(u.norm, u.ends[SCHEME] + 1, Len(u.norm))
              /\ \A t \in Part : v.ends[t] = IF t =< l THEN u.ends[t] + Len(str) - u.ends[SCHEME]
                                             ELSE u.ends[t]
<1>. DEFINE n == Len(str)
            e == u.ends[SCHEME]
            rest == SubSeq(u.norm, e + 1, Len(u.norm))
            N == SubSeq(u.norm, 1, 0) \o str \o rest
            F == [t \in Part |-> IF SCHEME =< t /\ t < SCHEME THEN 0 + 0
                                 ELSE IF EndMoves(u, SCHEME, t) THEN u.ends[t] + (n - (e - 0))
                                 ELSE u.ends[t]]
            E == [F EXCEPT ![SCHEME] = n]
            w == ReplacePart(u, SCHEME, str)
            v == [w EXCEPT !.ends[SCHEME] = n, !.inf = GetSchemeInfo(str)]
<1>1. w = [u EXCEPT !.norm = N, !.ends = F]
  BY DEF ReplacePart, ReplaceParts, PartPos
<1>2. Ordered(u, l) /\ HostAgrees(u, l) /\ l >= HOST /\ l # SCHEME
  BY CompleteFacts
<1>3. /\ InOrder(u.ends, Len(u.norm), l)
      /\ e \in Nat /\ e > 0 /\ e + 1 =< Len(u.norm) /\ u.norm[e + 1] = ":"
      /\ \A t \in Part : t # SCHEME /\ t =< l => e + 1 =< u.ends[t]
      /\ \A t \in Part : t > l => u.ends[t] = 0
      /\ \A t \in Part : t =< l => u.ends[t] > 0
  BY <1>2, OrderedFacts
<1>4. u.norm \in Text /\ Len(u.norm) \in Nat /\ u.ends \in [Part -> Nat]
      /\ \A t \in Part : u.ends[t] \in Nat
  BY UrlType
<1>5. n \in Nat /\ n > 0
  BY DEF Text
<1>6. rest \in Text /\ Len(rest) = Len(u.norm) - e /\ rest[1] = ":"
  <2>1. e =< Len(u.norm) /\ Len(u.norm) =< Len(u.norm)
    BY <1>3, <1>4
  <2>2. /\ rest \in Text /\ Len(rest) = Len(u.norm) - e
        /\ \A k \in 1 .. Len(u.norm) - e : rest[k] = u.norm[e + k]
    BY <1>3, <1>4, <2>1, PieceText
  <2>3. 1 \in 1 .. Len(u.norm) - e
    BY <1>3, <1>4
  <2>. QED  BY <1>3, <2>2, <2>3
<1>7. SubSeq(u.norm, 1, 0) \o str = str
  <2>1. SubSeq(u.norm, 1, 0) = <<>>
    BY <1>4 DEF Text
  <2>. QED  BY <2>1 DEF Text
<1>8. /\ N \in Text /\ Len(N) = Len(u.norm) + n - e
      /\ \A i \in 1 .. n : N[i] = str[i]
      /\ N[n + 1] = ":"
  <2>. DEFINE M == str \o rest
  <2>1. N = M
    BY <1>7
  <2>2. /\ M \in Text /\ Len(M) = n + Len(rest)
        /\ \A i \in 1 .. n : M[i] = str[i]
        /\ \A i \in 1 .. Len(rest) : M[n + i] = rest[i]
    BY <1>6, ConcatText
  <2>3. 1 \in 1 .. Len(rest)
    BY <1>3, <1>4, <1>6
  <2>. HIDE DEF rest, n, N, M, e
  <2>4. M[n + 1] = ":"
    BY <1>6, <2>2, <2>3
  <2>5. Len(M) = Len(u.norm) + n - e
    BY <1>3, <1>4, <1>5, <1>6, <2>2
  <2>. QED  BY <2>1, <2>2, <2>4, <2>5
<1>9. SCHEME \in Part /\ SCHEME = 0 /\ \A t \in Part : t \in Int /\ SCHEME =< t
  BY PartNumbers, PartInt
<1>10. \A t \in Part : EndMoves(u, SCHEME, t) <=> t =< l
  <2>1. SUFFICES ASSUME NEW t \in Part PROVE EndMoves(u, SCHEME, t) <=> t =< l
    OBVIOUS
  <2>2. t \in Int /\ \A s \in SCHEME .. t : s \in Part /\ s \in Int
    BY <1>9, PartInt
  <2>3. ASSUME t =< l, NEW s \in SCHEME .. t PROVE u.ends[s] # 0
    <3>1. s \in Part /\ s =< l
      BY <1>9, <2>2, <2>3
    <3>. QED  BY <1>3, <1>4, <3>1
  <2>4. ASSUME t > l PROVE t \in SCHEME .. t /\ u.ends[t] = 0
    BY <1>3, <1>9, <2>2, <2>4
  <2>5. t >= SCHEME
    BY <1>9
  <2>6. t =< l \/ t > l
    BY <1>9
  <2>7. CASE t =< l
    BY <2>3, <2>5, <2>7 DEF EndMoves
  <2>8. CASE t > l
    <3>1. ~(t =< l)
      BY <1>9, <2>8
    <3>. QED  BY <2>4, <2>8, <3>1 DEF EndMoves
  <2>. QED  BY <2>6, <2>7, <2>8
<1>11. \A t \in Part : F[t] = IF t =< l THEN u.ends[t] + n - e ELSE u.ends[t]
  <2>. HIDE DEF n, e
  <2>1. \A t \in Part : ~(SCHEME =< t /\ t < SCHEME)
    BY <1>9
  <2>2. \A t \in Part : u.ends[t] + (n - (e - 0)) = u.ends[t] + n - e
    BY <1>3, <1>4, <1>5
  <2>. QED  BY <1>10, <2>1, <2>2
<1>12. F \in [Part -> Nat]
  <2>1. \A t \in Part : F[t] \in Nat
    <3>. HIDE DEF n, e, F
    <3>1. SUFFICES ASSUME NEW t \in Part, t =< l PROVE u.ends[t] + n - e \in Nat
      BY <1>4, <1>11
    <3>2. t = SCHEME \/ e + 1 =< u.ends[t]
      BY <1>3, <3>1
    <3>3. u.ends[SCHEME] = e
      BY DEF e
    <3>. QED  BY <1>3, <1>4, <1>5, <3>2, <3>3
  <2>. QED  BY <2>1
<1>13. F[SCHEME] = n
  <2>. HIDE DEF n, F
  <2>1. SCHEME =< l
    BY <1>9
  <2>2. F[SCHEME] = e + n - e
    BY <1>9, <1>11, <2>1
  <2>. HIDE DEF e
  <2>. QED  BY <1>3, <1>5, <2>2
<1>14. E = F
  <2>. HIDE DEF n, F
  <2>. QED  BY <1>9, <1>12, <1>13
<1>15. InOrder(F, Len(u.norm) + n - e, l)
  <2>. HIDE DEF n, F
  <2>. QED  BY <1>3, <1>4, <1>5, <1>11, <1>12, EndsShifted
<1>16. \A i \in 1 .. n : SubSeq(N, 1, n)[i] = str[i]
  <2>. HIDE DEF N, n, e
  <2>1. n =< Len(N)
    BY <1>3, <1>4, <1>5, <1>8
  <2>2. \A k \in 1 .. n : SubSeq(N, 1, n)[k] = N[k]
    BY <1>5, <1>8, <2>1, PrefixText
  <2>. QED  BY <1>8, <2>2
<1>17. SubSeq(N, 1, n) = str
  <2>. HIDE DEF N, e
  <2>1. n =< Len(N)
    BY <1>3, <1>4, <1>5, <1>8
  <2>2. SubSeq(N, 1, n) \in Text /\ Len(SubSeq(N, 1, n)) = n
    BY <1>5, <1>8, <2>1, PrefixText
  <2>. QED  BY <1>16, <2>2, SeqEqual DEF Text
<1>18. v = [u EXCEPT !.norm = N, !.ends = E, !.inf = GetSchemeInfo(str)]
  <2>. HIDE DEF N, F, n
  <2>. QED  BY <1>1, <1>14 DEF Url
<1>26. N = str \o rest
  BY <1>7
<1>. HIDE DEF N, F, E, n, w
<1>19. /\ v \in Url /\ v.norm = N /\ v.ends = F /\ v.inf = GetSchemeInfo(str)
       /\ v.flags = u.flags /\ v.segs = u.segs /\ v.htype = u.htype
  BY <1>8, <1>12, <1>14, <1>18, GetSchemeInfoType DEF Url
<1>. HIDE DEF v, e
<1>20. EndsUpTo(v, l)
  BY <1>8, <1>15, <1>19 DEF EndsUpTo
<1>21. View(v, SCHEME) = str
  BY <1>13, <1>17, <1>19, SchemeView
<1>22. SchemeEnds(v, l)
  <2>1. SCHEME_SEP \in Part /\ SCHEME_SEP # SCHEME /\ SCHEME_SEP =< l
    <3>1. l \in Int
      BY PartInt
    <3>. QED  BY <1>2, <3>1, PartNumbers
  <2>2. e + 1 =< u.ends[SCHEME_SEP] /\ F[SCHEME_SEP] = u.ends[SCHEME_SEP] + n - e
    BY <1>3, <1>11, <2>1
  <2>3. F[SCHEME] < F[SCHEME_SEP]
    BY <1>3, <1>4, <1>5, <1>13, <2>1, <2>2
  <2>. QED  BY <1>8, <1>13, <1>19, <2>3 DEF SchemeEnds
<1>23. Ordered(v, l)
  BY <1>19, <1>20, <1>21, <1>22 DEF Ordered
<1>24. HostAgrees(v, l)
  <2>1. IsNull(v, HOST) <=> IsNull(u, HOST)
    BY <1>19 DEF IsNull
  <2>2. HasOpaquePath(v) <=> HasOpaquePath(u)
    BY <1>19 DEF HasOpaquePath
  <2>3. IsEmpty(u, HOST) => IsEmpty(v, HOST)
    <3>1. HOST \in Part /\ HOST_START \in Part /\ HOST =< l /\ HOST_START =< l
      BY <1>2, PartInt, PartNumbers
    <3>2. F[HOST] = u.ends[HOST] + n - e /\ F[HOST_START] = u.ends[HOST_START] + n - e
      BY <1>11, <3>1
    <3>. QED  BY <1>3, <1>4, <1>5, <1>19, <3>1, <3>2, HostIsEmpty
  <2>4. ASSUME l >= PATH_PREFIX, u.ends[PATH_PREFIX] = e + 1
        PROVE  v.ends[PATH_PREFIX] = v.ends[SCHEME] + 1
    <3>1. PATH_PREFIX \in Part /\ PATH_PREFIX =< l
      BY <2>4, PartInt, PartNumbers
    <3>2. F[PATH_PREFIX] = u.ends[PATH_PREFIX] + n - e
      BY <1>11, <3>1
    <3>. QED  BY <1>3, <1>5, <1>13, <1>19, <2>4, <3>2
  <2>5. u.ends[SCHEME] = e
    BY DEF e
  <2>. QED  BY <1>2, <1>19, <2>1, <2>2, <2>3, <2>4, <2>5 DEF HostAgrees
<1>25. CompleteUpTo(v, l)
  BY <1>19, <1>23, <1>24 DEF CompleteUpTo, Sound, IsNull
<1>27. \A t \in Part : v.ends[t] = IF t =< l THEN u.ends[t] + n - e ELSE u.ends[t]
  BY <1>11, <1>19
<1>. QED  BY <1>19, <1>25, <1>26, <1>27 DEF v, w, n, e, rest

\* The setter of the scheme.
LEMMA ReplaceSchemeSound ==
    ASSUME NEW x, Editor(x), NEW str \in Text, str # <<>>,
           GetSchemeInfo(str).special = x.u.inf.special
    PROVE  LET y == ReplaceScheme(x, str)
           IN Editor(y) /\ y.u.inf = GetSchemeInfo(str) /\ y.u.flags = x.u.flags
<1>. DEFINE w == ReplacePart(x.u, SCHEME, str)
            v == [w EXCEPT !.ends[SCHEME] = Len(str), !.inf = GetSchemeInfo(str)]
            y == [x EXCEPT !.u = v]
<1>1. x \in Serializer /\ x.u \in Url /\ IsValid(x.u)
  BY EditorFacts
<1>2. PICK l \in Part : CompleteUpTo(x.u, l)
  BY EditorFacts
<1>3. ReplaceScheme(x, str) = y
  BY DEF ReplaceScheme
<1>4. v \in Url /\ CompleteUpTo(v, l) /\ v.inf = GetSchemeInfo(str) /\ v.flags = x.u.flags
  BY <1>1, <1>2, SchemeReplaced
<1>. HIDE DEF v
<1>5. GoesOn(x, y) /\ y.u = v
  BY <1>1, <1>4, GoesOnSelf, GoesOnWith
<1>. HIDE DEF y
<1>6. IsValid(v)
  BY <1>1, <1>4 DEF IsValid
<1>. QED  BY <1>3, <1>4, <1>5, <1>6 DEF Editor, GoesOn, Complete

-----------------------------------------------------------------------------
(* Path.                                                                   *)

LEMMA AdjustPathPrefixSound ==
    ASSUME NEW u \in Url, NEW l \in Part, Sound(u, l), ~HasOpaquePath(u),
           l >= PATH_PREFIX \/ ~IsNull(u, HOST)
    PROVE  LET v == AdjustPathPrefix(u)
           IN /\ v \in Url /\ Sound(v, l)
              /\ v.flags = u.flags /\ v.inf = u.inf /\ v.segs = u.segs
<1>1. CASE l >= PATH_PREFIX
  <2>1. <<>> \in Text /\ <<"/", ".">> \in Text
    BY CharAssumption DEF Text, Written
  <2>2. \A str \in Text : LET v == ReplacePart(u, PATH_PREFIX, str)
                          IN /\ v \in Url /\ Sound(v, l)
                             /\ v.flags = u.flags /\ v.inf = u.inf /\ v.segs = u.segs
    BY <1>1, PathPrefixReplaced
  <2>. QED  BY <2>1, <2>2 DEF AdjustPathPrefix
<1>2. CASE ~(l >= PATH_PREFIX) /\ ~IsNull(u, HOST)
  <2>1. u.ends[PATH_PREFIX] = 0 /\ u.ends[PORT] \in Nat
    <3>1. PATH_PREFIX \in Part /\ PATH_PREFIX > l
      BY <1>2, PartInt, PartNumbers
    <3>. QED  BY <3>1, OrderedFacts, UrlType, PartNumbers DEF Sound
  <2>2. IsEmpty(u, PATH_PREFIX)
    BY <2>1, HostIsEmpty
  <2>. QED  BY <1>2, <2>2 DEF AdjustPathPrefix, NeedsPathPrefix
<1>. QED  BY <1>1, <1>2

\* Ends before the path that are not set are those of empty parts.
LEMMA FilledUpToPathSound ==
    ASSUME NEW u \in Url, NEW l \in Part, Sound(u, l), l >= HOST, ~HasOpaquePath(u)
    PROVE  LET v == FilledUpToPath(u)
           IN /\ v \in Url /\ v.flags = u.flags /\ v.inf = u.inf
              /\ \E m \in Part : m >= PATH /\ Sound(v, m)
              /\ v.norm = u.norm
              /\ \A t \in Part : l < t /\ t =< PATH => v.ends[t] = Len(u.norm)
              /\ \A t \in Part : ~(l < t /\ t =< PATH) => v.ends[t] = u.ends[t]
<1>. DEFINE last == FindLastPart(u, PATH)
            E == [t \in Part |-> IF last < t /\ t =< PATH THEN Len(u.norm) ELSE u.ends[t]]
            v == [u EXCEPT !.ends = E]
<1>1. FilledUpToPath(u) = v
  BY DEF FilledUpToPath
<1>2. /\ u.norm \in Text /\ Len(u.norm) \in Nat /\ u.ends \in [Part -> Nat]
      /\ \A t \in Part : u.ends[t] \in Nat /\ t \in Int
      /\ l \in Int /\ PATH \in Part /\ PATH = 8 /\ HOST = 5 /\ HOST_START = 4
      /\ HOST \in Part /\ SCHEME = 0 /\ PATH_PREFIX = 7
  BY UrlType, PartInt, PartNumbers
<1>3. Ordered(u, l) /\ HostAgrees(u, l)
  BY DEF Sound
<1>4. /\ \A t \in Part : t > l => u.ends[t] = 0
      /\ \A t \in Part : t =< l => u.ends[t] > 0 /\ u.ends[t] =< Len(u.norm)
      /\ l # SCHEME => Len(u.norm) = u.ends[l]
  BY <1>3, OrderedFacts
<1>5. CASE l < PATH
  <2>1. last = l
    BY <1>2, <1>3, <1>5, LastPartFound
  <2>. HIDE DEF last
  <2>2. /\ E \in [Part -> Nat]
        /\ \A t \in Part : E[t] = IF l < t /\ t =< PATH THEN Len(u.norm) ELSE u.ends[t]
    BY <1>2, <2>1
  <2>. HIDE DEF E
  <2>3. /\ v \in Url /\ v.norm = u.norm /\ v.ends = E /\ v.inf = u.inf /\ v.flags = u.flags
        /\ v.htype = u.htype
    BY <2>2 DEF Url
  <2>. HIDE DEF v
  <2>4. /\ \A t \in Part : l < t /\ t =< PATH => E[t] = Len(u.norm)
        /\ \A t \in Part : ~(l < t /\ t =< PATH) => E[t] = u.ends[t]
    BY <2>2
  <2>5. NewEnds(u.ends, E, l, PATH)
    <3>1. \A t \in Part : t =< l => E[t] = u.ends[t]
      <4>1. \A t \in Part : t =< l => ~(l < t /\ t =< PATH)
        BY <1>2
      <4>. QED  BY <2>4, <4>1
    <3>2. \A t \in Part : t > PATH => E[t] = 0
      <4>1. \A t \in Part : t > PATH => ~(l < t /\ t =< PATH) /\ t > l
        BY <1>2, <1>5
      <4>. QED  BY <1>4, <2>4, <4>1
    <3>3. l =< l /\ u.ends[l] =< Len(u.norm)
      BY <1>2, <1>4
    <3>4. \A t \in Part : l < t /\ t =< PATH => u.ends[l] =< E[t]
      BY <2>4, <3>3
    <3>5. \A s, t \in Part : l < s /\ s =< t /\ t =< PATH => E[s] =< E[t]
      <4>1. \A s, t \in Part : l < s /\ s =< t /\ t =< PATH => s =< PATH /\ l < t
        BY <1>2
      <4>2. Len(u.norm) =< Len(u.norm)
        BY <1>2
      <4>. QED  BY <2>4, <4>1, <4>2
    <3>. QED  BY <3>1, <3>2, <3>4, <3>5 DEF NewEnds
  <2>6. E[PATH] = Len(u.norm)
    BY <1>2, <1>5, <2>4
  <2>7. SubSeq(u.norm, 1, Len(u.norm)) = u.norm
    BY <1>2 DEF Text
  <2>8. Truncated(u, v, l, PATH)
    BY <1>2, <2>3, <2>5, <2>6, <2>7 DEF Truncated
  <2>9. l # SCHEME /\ l =< l /\ l >= HOST_START /\ v.ends[HOST] =< u.ends[HOST]
    <3>1. ~(l < HOST /\ HOST =< PATH)
      BY <1>2
    <3>2. E[HOST] = u.ends[HOST]
      BY <1>2, <2>4, <3>1
    <3>. QED  BY <1>2, <2>3, <3>2
  <2>10. Sound(v, PATH)
    BY <1>2, <1>3, <1>5, <2>8, <2>9, TruncatedSound
  <2>11. PATH >= PATH
    BY <1>2
  <2>12. \E m \in Part : m >= PATH /\ Sound(v, m)
    BY <1>2, <2>10, <2>11
  <2>13. /\ \A t \in Part : l < t /\ t =< PATH => v.ends[t] = Len(u.norm)
         /\ \A t \in Part : ~(l < t /\ t =< PATH) => v.ends[t] = u.ends[t]
    BY <2>3, <2>4
  <2>. QED  BY <1>1, <2>3, <2>12, <2>13
<1>6. CASE l >= PATH
  <2>1. u.ends[PATH] # 0
    BY <1>2, <1>4, <1>6
  <2>2. last = PATH
    <3>1. /\ PATH \in SCHEME .. PATH /\ PATH + 1 .. PATH = {}
      BY <1>2
    <3>2. \A q \in PATH + 1 .. PATH : u.ends[q] = 0
      BY <3>1
    <3>3. ASSUME NEW p \in SCHEME .. PATH, \A q \in p + 1 .. PATH : u.ends[q] = 0
          PROVE  p = PATH
      <4>1. p # PATH => PATH \in p + 1 .. PATH
        BY <1>2
      <4>. QED  BY <2>1, <3>3, <4>1
    <3>. QED  BY <2>1, <3>1, <3>2, <3>3 DEF FindLastPart
  <2>. HIDE DEF last
  <2>3. \A t \in Part : ~(last < t /\ t =< PATH)
    BY <1>2, <2>2
  <2>4. E = u.ends
    BY <1>2, <2>3
  <2>. HIDE DEF E
  <2>5. v = u
    BY <2>4 DEF Url
  <2>6. \A t \in Part : ~(l < t /\ t =< PATH)
    BY <1>2, <1>6
  <2>. QED  BY <1>1, <1>6, <2>5, <2>6
<1>7. l < PATH \/ l >= PATH
  BY <1>2
<1>. QED  BY <1>5, <1>6, <1>7

\* The path is edited in place.
LEMMA EditorCommitPath ==
    ASSUME NEW x, Editor(x), ~HasOpaquePath(x.u)
    PROVE  Editor(CommitPath(x)) /\ CommitPath(x).u.flags = x.u.flags
<1>. DEFINE w == FilledUpToPath(x.u)
            u == ReplacePart(w, PATH, x.buf)
            z == [u EXCEPT !.segs = Len(x.segEnd)]
            v == AdjustPathPrefix(z)
            y == [x EXCEPT !.u = v]
<1>1. x \in Serializer /\ x.u \in Url /\ x.setter = TRUE /\ IsValid(x.u)
      /\ x.buf \in Text /\ x.segEnd \in Seq(Nat)
  BY EditorFacts, SerializerType
<1>2. CommitPath(x) = y
  BY <1>1 DEF CommitPath
<1>3. PICK l \in Part : CompleteUpTo(x.u, l)
  BY EditorFacts
<1>4. Sound(x.u, l) /\ l >= HOST
  BY <1>3 DEF CompleteUpTo
<1>5. /\ w \in Url /\ w.flags = x.u.flags /\ w.inf = x.u.inf
      /\ \E m \in Part : m >= PATH /\ Sound(w, m)
  BY <1>1, <1>4, FilledUpToPathSound
<1>. HIDE DEF w
<1>6. PICK m \in Part : m >= PATH /\ Sound(w, m)
  BY <1>5
<1>7. ~HasOpaquePath(w)
  BY <1>5 DEF HasOpaquePath
<1>8. /\ PATH \in Part /\ PATH # SCHEME /\ PATH =< PATH /\ PATH =< m /\ PATH # SCHEME_SEP
      /\ PATH > HOST /\ m >= PATH_PREFIX /\ m >= HOST
  <2>1. m \in Int /\ m >= PATH
    BY <1>6, PartInt
  <2>. QED  BY <2>1, PartNumbers
<1>9. 0 \in 0 .. Len(x.buf)
  BY <1>1 DEF Text
<1>10. Replaced(w, u, m, PATH, PATH)
  BY <1>1, <1>5, <1>6, <1>8, <1>9, ReplacePartsSound DEF ReplacePart, Sound
<1>. HIDE DEF u
<1>11. Rewritten(w, u) /\ Ordered(u, m) /\ HostAgrees(u, m)
  BY <1>6, <1>7, <1>8, <1>10 DEF Replaced, Sound
<1>12. u \in Url /\ u.flags = x.u.flags
  BY <1>5, <1>11 DEF Rewritten
<1>13. Len(x.segEnd) \in Nat
  BY <1>1
<1>14. z \in Url /\ SameText(u, z) /\ z.flags = u.flags
  BY <1>12, <1>13 DEF Url, SameText
<1>. HIDE DEF z
<1>15. ~HasOpaquePath(z) /\ (IsNull(z, HOST) => IsNull(u, HOST))
  BY <1>5, <1>7, <1>12, <1>14 DEF HasOpaquePath, IsNull
<1>16. Sound(z, m)
  BY <1>11, <1>12, <1>14, <1>15, SameTextSound DEF Sound
<1>17. v \in Url /\ Sound(v, m) /\ v.flags = z.flags
  BY <1>8, <1>14, <1>15, <1>16, AdjustPathPrefixSound
<1>. HIDE DEF v
<1>18. GoesOn(x, y) /\ y.u = v
  BY <1>1, <1>17, GoesOnSelf, GoesOnWith
<1>. HIDE DEF y
<1>19. CompleteUpTo(v, m)
  BY <1>6, <1>8, <1>17 DEF CompleteUpTo
<1>20. v.flags = x.u.flags /\ IsValid(v)
  BY <1>1, <1>12, <1>14, <1>17 DEF IsValid
<1>. QED  BY EditorFacts, <1>2, <1>18, <1>19, <1>20 DEF Editor, GoesOn, Complete

\* url_serializer has the path in place.
LEMMA AppenderCommitPath ==
    ASSUME NEW x, Appender(x), ~HasOpaquePath(x.u),
           x.last = PATH \/ HostWritten(x)
    PROVE  LET y == CommitPath(x)
           IN Appender(y) /\ SamePlan(x, y) /\ y.last = x.last
<1>. DEFINE v == AdjustPathPrefix(x.u)
            y == [x EXCEPT !.u = v]
<1>1. /\ x \in Serializer /\ x.u \in Url /\ x.setter = FALSE /\ ~x.inBuf /\ x.last \in Part
      /\ Sound(x.u, x.last) /\ ~IsValid(x.u) /\ x.sane = TRUE
  BY AppenderFacts
<1>2. CommitPath(x) = y
  BY <1>1 DEF CommitPath
<1>3. x.last >= PATH_PREFIX \/ ~IsNull(x.u, HOST)
  BY PartNumbers DEF HostWritten
<1>4. v \in Url /\ Sound(v, x.last) /\ v.flags = x.u.flags /\ v.inf = x.u.inf
      /\ v.segs = x.u.segs
  BY <1>1, <1>3, AdjustPathPrefixSound
<1>. HIDE DEF v
<1>5. GoesOn(x, y) /\ y.u = v /\ y.last = x.last /\ y.inBuf = x.inBuf
  BY <1>1, <1>4, GoesOnSelf, GoesOnWith
<1>. HIDE DEF y
<1>6. ~IsValid(v)
  BY <1>1, <1>4 DEF IsValid
<1>. QED  BY <1>1, <1>2, <1>4, <1>5, <1>6 DEF Appender, Appending, GoesOn, SamePlan

\* The setter x has the segments of a new path in its buffer.
Collecting(x) == Editor(x) /\ ~HasOpaquePath(x.u) /\ SegEndsInOrder(x)

\* url_serializer x is writing the segments of the path.
Pathing(x) ==
    /\ Appender(x) /\ ~HasOpaquePath(x.u) /\ x.last =< PATH
    /\ x.u.segs > 0 => x.last = PATH

LEMMA SegmentCollected ==
    ASSUME NEW x, Collecting(x), NEW s \in Text
    PROVE  Collecting(PutSegment(x, s)) /\ PutSegment(x, s).u = x.u
<1>. DEFINE b == x.buf \o <<"/">> \o s
            n == Len(x.buf) + 1 + Len(s)
            e == Append(x.segEnd, n)
            y == [x EXCEPT !.buf = b, !.segEnd = e]
<1>1. /\ x \in Serializer /\ x.setter = TRUE /\ x.buf \in Text /\ x.segEnd \in Seq(Nat)
      /\ SegEndsInOrder(x)
  BY EditorFacts, SerializerType DEF Collecting
<1>2. PutSegment(x, s) = y
  BY <1>1 DEF PutSegment
<1>3. <<"/">> \in Text /\ Len(<<"/">>) = 1
  BY CharAssumption DEF Text, Written
<1>4. x.buf \o <<"/">> \in Text /\ Len(x.buf \o <<"/">>) = Len(x.buf) + 1
  BY <1>1, <1>3, ConcatText
<1>5. b \in Text /\ Len(b) = n
  BY <1>4, ConcatText
<1>6. Len(x.buf) \in Nat /\ Len(s) \in Nat /\ Len(x.segEnd) \in Nat
  BY <1>1 DEF Text
<1>. HIDE DEF b
<1>7. n \in Nat /\ Len(x.buf) =< n
  BY <1>6
<1>. HIDE DEF n
<1>8. /\ e \in Seq(Nat) /\ Len(e) = Len(x.segEnd) + 1
      /\ \A i \in 1 .. Len(x.segEnd) : e[i] = x.segEnd[i]
      /\ e[Len(x.segEnd) + 1] = n
  BY <1>1, <1>7
<1>. HIDE DEF e
<1>9. y \in Serializer /\ y.buf = b /\ y.segEnd = e /\ y.u = x.u /\ y.setter = x.setter
      /\ y.save = x.save /\ y.sane = x.sane
  BY <1>1, <1>5, <1>8 DEF Serializer
<1>10. SegEndsInOrder(y)
  <2>1. SUFFICES ASSUME NEW i \in 1 .. Len(e), NEW j \in 1 .. Len(e), i =< j
                 PROVE  e[i] =< e[j] /\ e[j] =< n
    BY <1>5, <1>9 DEF SegEndsInOrder
  <2>2. \A k \in 1 .. Len(x.segEnd) : x.segEnd[k] \in Nat /\ x.segEnd[k] =< Len(x.buf)
    <3>1. \A k \in 1 .. Len(x.segEnd) : x.segEnd[k] \in Nat
      BY <1>1
    <3>2. \A k \in 1 .. Len(x.segEnd) : k =< k
      BY <1>6
    <3>. QED  BY <1>1, <3>1, <3>2 DEF SegEndsInOrder
  <2>3. \A k \in 1 .. Len(x.segEnd) : e[k] =< n
    BY SMTT(30), <1>6, <1>7, <1>8, <2>2
  <2>4. e[Len(x.segEnd) + 1] =< n
    BY <1>7, <1>8
  <2>5. \A k \in 1 .. Len(e) : e[k] =< n
    <3>1. \A k \in 1 .. Len(e) : k \in 1 .. Len(x.segEnd) \/ k = Len(x.segEnd) + 1
      BY <1>6, <1>8
    <3>. QED  BY <2>3, <2>4, <3>1
  <2>6. CASE j \in 1 .. Len(x.segEnd)
    <3>1. i \in 1 .. Len(x.segEnd)
      BY <1>6, <1>8, <2>1, <2>6
    <3>2. x.segEnd[i] =< x.segEnd[j]
      BY <1>1, <2>1, <2>6, <3>1 DEF SegEndsInOrder
    <3>. QED  BY <1>8, <2>5, <2>6, <3>1, <3>2
  <2>7. CASE j = Len(x.segEnd) + 1
    BY <1>8, <2>5, <2>7
  <2>8. j \in 1 .. Len(x.segEnd) \/ j = Len(x.segEnd) + 1
    BY <1>6, <1>8
  <2>. QED  BY <2>6, <2>7, <2>8
<1>. QED  BY <1>2, <1>9, <1>10 DEF Collecting, Editor

\* The number of segments is counted.
LEMMA SegmentsSet ==
    ASSUME NEW x, Appender(x), NEW n \in Nat
    PROVE  LET y == [x EXCEPT !.u.segs = n]
           IN /\ Appender(y) /\ y.u.flags = x.u.flags /\ y.u.inf = x.u.inf
              /\ y.u.segs = n /\ y.last = x.last /\ y.save = x.save
<1>. DEFINE v == [x.u EXCEPT !.segs = n]
            y == [x EXCEPT !.u = v]
<1>1. /\ x \in Serializer /\ x.u \in Url /\ x.setter = FALSE /\ ~x.inBuf /\ x.last \in Part
      /\ Sound(x.u, x.last) /\ ~IsValid(x.u) /\ x.sane = TRUE
  BY AppenderFacts
<1>2. v \in Url /\ SameText(x.u, v) /\ v.flags = x.u.flags /\ v.segs = n
  BY <1>1 DEF Url, SameText
<1>. HIDE DEF v
<1>3. GoesOn(x, y) /\ y.u = v /\ y.last = x.last /\ y.inBuf = x.inBuf
  BY <1>1, <1>2, GoesOnSelf, GoesOnWith
<1>4. [x EXCEPT !.u.segs = n] = y
  BY DEF v
<1>. HIDE DEF y
<1>5. HasOpaquePath(v) => HasOpaquePath(x.u) /\ IsNull(v, HOST)
  BY <1>1, <1>2 DEF HasOpaquePath, IsNull, Sound, HostAgrees
<1>6. ~IsValid(v) /\ (IsNull(v, HOST) => IsNull(x.u, HOST))
  BY <1>1, <1>2 DEF IsValid, IsNull
<1>7. Sound(v, x.last)
  BY <1>1, <1>2, <1>5, <1>6, SameTextSound
<1>. QED  BY <1>1, <1>2, <1>3, <1>4, <1>6, <1>7 DEF Appender, Appending, GoesOn, SameText

LEMMA SegmentWritten ==
    ASSUME NEW x, Pathing(x), NEW s \in Text
    PROVE  LET y == PutSegment(x, s)
           IN Pathing(y) /\ y.last = PATH /\ y.save = x.save
<1>. DEFINE z == PutPart(x, PATH, <<"/">> \o s)
            y == [z EXCEPT !.u.segs = z.u.segs + 1]
<1>1. x.setter = FALSE /\ x.last \in Part /\ x.u.segs \in Nat /\ x.u \in Url
  BY AppenderFacts, UrlType DEF Pathing
<1>2. PutSegment(x, s) = y
  BY <1>1 DEF PutSegment
<1>3. <<"/">> \o s \in Text
  <2>1. <<"/">> \in Text
    BY CharAssumption DEF Text, Written
  <2>. QED  BY <2>1, ConcatText
<1>4. x.last < PATH \/ (x.last = PATH /\ PATH = PATH)
  <2>1. x.last \in Int /\ x.last =< PATH /\ PATH = 8
    BY <1>1, PartInt, PartNumbers DEF Pathing
  <2>. QED  BY <2>1
<1>5. Appender(z) /\ SamePlan(x, z) /\ z.last = PATH
  <2>1. PATH \in {USERNAME, PASSWORD, PORT, PATH, QUERY, FRAGMENT}
    OBVIOUS
  <2>. QED  BY <1>3, <1>4, <2>1, AppenderPut DEF Pathing
<1>. HIDE DEF z
<1>6. z.u.segs + 1 \in Nat
  BY <1>1, <1>5 DEF SamePlan
<1>7. /\ Appender(y) /\ y.u.flags = z.u.flags /\ y.u.inf = z.u.inf
      /\ y.last = z.last /\ y.save = z.save
  BY <1>5, <1>6, SegmentsSet
<1>. HIDE DEF y
<1>8. ~HasOpaquePath(y.u)
  BY <1>5, <1>7 DEF HasOpaquePath, SamePlan, Pathing
<1>9. PATH =< PATH
  BY PartNumbers
<1>. QED  BY <1>2, <1>5, <1>7, <1>8, <1>9 DEF Pathing, SamePlan

\* The path ends at the beginning of its last segment.
LEMMA RemLastEndRange ==
    ASSUME NEW u \in Url, NEW l \in Part, Ordered(u, l), l >= PATH
    PROVE  /\ RemLastEnd(u) \in Nat
           /\ u.ends[PATH_PREFIX] =< RemLastEnd(u) /\ RemLastEnd(u) =< u.ends[PATH]
<1>. DEFINE p == View(u, PATH)
            at == FindLast(p, {"/"})
<1>1. /\ u.norm \in Text /\ Len(u.norm) \in Nat
      /\ u.ends[PATH_PREFIX] \in Nat /\ u.ends[PATH] \in Nat
      /\ PATH - 1 = PATH_PREFIX /\ PATH # SCHEME /\ PATH_PREFIX \in Part /\ PATH \in Part
      /\ PATH_PREFIX =< PATH /\ PATH =< l
      /\ PATH \notin {PASSWORD, PORT, QUERY, FRAGMENT}
  <2>1. l \in Int
    BY PartInt
  <2>. QED  BY <2>1, UrlType, PartNumbers
<1>2. u.ends[PATH_PREFIX] =< u.ends[PATH] /\ u.ends[PATH] =< Len(u.norm)
  BY <1>1, OrderedFacts
<1>3. PartPos(u, PATH) + PartStart(PATH) + 1 = u.ends[PATH_PREFIX] + 1
  BY <1>1 DEF PartPos, PartStart
<1>4. p = SubSeq(u.norm, u.ends[PATH_PREFIX] + 1, u.ends[PATH])
  BY <1>3 DEF View
<1>5. p \in Text /\ Len(p) = u.ends[PATH] - u.ends[PATH_PREFIX]
  BY <1>1, <1>2, <1>4, PieceText
<1>. HIDE DEF p
<1>6. at \in 1 .. Len(p) + 1
  BY <1>5, FindLastRange
<1>7. RemLastEnd(u) = IF at > Len(p) THEN u.ends[PATH_PREFIX]
                      ELSE u.ends[PATH_PREFIX] + at - 1
  BY <1>1 DEF RemLastEnd, p
<1>. HIDE DEF at
<1>. QED  BY <1>1, <1>2, <1>5, <1>6, <1>7

\* A path is shortened by its last segment.
LEMMA PathCut ==
    ASSUME NEW u \in Url, Sound(u, PATH), ~HasOpaquePath(u), u.segs > 0
    PROVE  LET end == RemLastEnd(u)
               v == [u EXCEPT !.norm = SubSeq(@, 1, end), !.ends[PATH] = end,
                              !.segs = @ - 1]
           IN /\ v \in Url /\ Sound(v, PATH)
              /\ v.flags = u.flags /\ v.inf = u.inf
<1>. DEFINE end == RemLastEnd(u)
            N == SubSeq(u.norm, 1, end)
            E == [u.ends EXCEPT ![PATH] = end]
            n == u.segs - 1
            v == [u EXCEPT !.norm = N, !.ends = E, !.segs = n]
<1>1. /\ u.norm \in Text /\ Len(u.norm) \in Nat /\ u.ends \in [Part -> Nat]
      /\ \A t \in Part : u.ends[t] \in Nat /\ t \in Int
      /\ PATH \in Part /\ PATH_PREFIX \in Part /\ HOST \in Part /\ PATH = 8
      /\ PATH_PREFIX = 7 /\ HOST = 5 /\ HOST_START = 4 /\ SCHEME = 0
      /\ u.segs \in Nat
  BY UrlType, PartInt, PartNumbers
<1>2. Ordered(u, PATH) /\ HostAgrees(u, PATH)
  BY DEF Sound
<1>3. u.ends[PATH] =< Len(u.norm) /\ \A t \in Part : t > PATH => u.ends[t] = 0
  BY <1>1, <1>2, OrderedFacts
<1>4. /\ end \in Nat /\ u.ends[PATH_PREFIX] =< end /\ end =< u.ends[PATH]
  <2>1. PATH >= PATH
    BY <1>1
  <2>. QED  BY <1>1, <1>2, <2>1, RemLastEndRange
<1>. HIDE DEF end
<1>5. end =< Len(u.norm)
  BY <1>1, <1>3, <1>4
<1>6. N \in Text
  BY <1>1, <1>4, <1>5, PrefixText
<1>7. n \in Nat
  BY <1>1
<1>8. E \in [Part -> Nat] /\ E[PATH] = end /\ \A t \in Part : t # PATH => E[t] = u.ends[t]
  BY <1>1, <1>4
<1>. HIDE DEF N, E, n
<1>9. /\ v \in Url /\ v.norm = N /\ v.ends = E /\ v.inf = u.inf /\ v.flags = u.flags
      /\ v.htype = u.htype
  BY <1>6, <1>7, <1>8 DEF Url
<1>10. v = [u EXCEPT !.norm = SubSeq(@, 1, end), !.ends[PATH] = end, !.segs = @ - 1]
  BY DEF N, E, n
<1>. HIDE DEF v
<1>11. NewEnds(u.ends, E, PATH_PREFIX, PATH)
  <2>1. \A t \in Part : t =< PATH_PREFIX => E[t] = u.ends[t]
    <3>1. \A t \in Part : t =< PATH_PREFIX => t # PATH
      BY <1>1
    <3>. QED  BY <1>8, <3>1
  <2>2. \A t \in Part : t > PATH => E[t] = 0
    <3>1. \A t \in Part : t > PATH => t # PATH
      BY <1>1
    <3>. QED  BY <1>3, <1>8, <3>1
  <2>3. \A t \in Part : PATH_PREFIX < t /\ t =< PATH => u.ends[PATH_PREFIX] =< E[t]
    <3>1. \A t \in Part : PATH_PREFIX < t /\ t =< PATH => t = PATH
      BY <1>1
    <3>. QED  BY <1>4, <1>8, <3>1
  <2>4. \A s, t \in Part : PATH_PREFIX < s /\ s =< t /\ t =< PATH => E[s] =< E[t]
    <3>1. \A s, t \in Part : PATH_PREFIX < s /\ s =< t /\ t =< PATH => s = PATH /\ t = PATH
      BY <1>1
    <3>2. end =< end
      BY <1>4
    <3>. QED  BY <1>8, <3>1, <3>2
  <2>. QED  BY <2>1, <2>2, <2>3, <2>4 DEF NewEnds
<1>12. Truncated(u, v, PATH_PREFIX, PATH)
  BY <1>5, <1>8, <1>9, <1>11 DEF Truncated, N
<1>13. /\ PATH_PREFIX # SCHEME /\ PATH_PREFIX =< PATH /\ PATH_PREFIX < PATH
       /\ PATH_PREFIX >= HOST_START /\ v.ends[HOST] =< u.ends[HOST]
       /\ PATH_PREFIX >= PATH_PREFIX
  BY <1>1, <1>8, <1>9
<1>14. Sound(v, PATH)
  BY <1>1, <1>2, <1>12, <1>13, TruncatedSound
<1>. QED  BY <1>9, <1>10, <1>14 DEF end

LEMMA AppenderShortenPath ==
    ASSUME NEW x, Pathing(x)
    PROVE  LET y == ShortenPath(x)
           IN Pathing(y) /\ y.save = x.save /\ y.last = x.last
<1>1. /\ x \in Serializer /\ x.u \in Url /\ x.setter = FALSE /\ ~x.inBuf /\ x.last \in Part
      /\ Sound(x.u, x.last) /\ ~IsValid(x.u) /\ x.sane = TRUE
      /\ ~HasOpaquePath(x.u) /\ x.last =< PATH
  BY AppenderFacts DEF Pathing
<1>2. CASE ~CanShorten(x.u)
  <2>1. ShortenPath(x) = Expect(x, x.last =< PATH /\ ~HasOpaquePath(x.u))
    BY <1>1, <1>2 DEF ShortenPath
  <2>2. ShortenPath(x) = x
    BY <1>1, <2>1, ExpectHolds, Zenon
  <2>. QED  BY <2>2
<1>3. CASE CanShorten(x.u)
  <2>. DEFINE end == RemLastEnd(x.u)
              v == [x.u EXCEPT !.norm = SubSeq(@, 1, end), !.ends[PATH] = end,
                               !.segs = @ - 1]
              y == [x EXCEPT !.u = v]
  <2>1. x.u.segs > 0 /\ x.last = PATH
    BY <1>3 DEF CanShorten, Pathing
  <2>2. ShortenPath(x) = Expect(y, x.last =< PATH /\ ~HasOpaquePath(x.u))
    BY <1>1, <1>3 DEF ShortenPath
  <2>3. v \in Url /\ Sound(v, PATH) /\ v.flags = x.u.flags /\ v.inf = x.u.inf
    BY <1>1, <2>1, PathCut
  <2>. HIDE DEF v
  <2>4. GoesOn(x, y) /\ y.u = v /\ y.last = x.last /\ y.inBuf = x.inBuf /\ y \in Serializer
    BY <1>1, <2>3, GoesOnSelf, GoesOnWith DEF GoesOn
  <2>. HIDE DEF y
  <2>5. ShortenPath(x) = y
    BY <1>1, <2>2, <2>4, ExpectHolds, Zenon
  <2>6. ~IsValid(v) /\ ~HasOpaquePath(v)
    BY <1>1, <2>3 DEF IsValid, HasOpaquePath
  <2>. QED  BY <1>1, <2>1, <2>3, <2>4, <2>5, <2>6 DEF Pathing, Appender, Appending, GoesOn
<1>. QED  BY <1>2, <1>3

\* The setter drops the last segment of its buffer.
LEMMA CollectedShortenPath ==
    ASSUME NEW x, Collecting(x)
    PROVE  Collecting(ShortenPath(x)) /\ ShortenPath(x).u = x.u
<1>. DEFINE n == Len(x.segEnd)
            left == SubSeq(x.segEnd, 1, n - 1)
            b == IF n = 1 THEN <<>> ELSE SubSeq(x.buf, 1, left[n - 1])
            y == [x EXCEPT !.segEnd = left, !.buf = b]
<1>1. /\ x \in Serializer /\ x.setter = TRUE /\ x.buf \in Text /\ x.segEnd \in Seq(Nat)
      /\ SegEndsInOrder(x)
  BY EditorFacts, SerializerType DEF Collecting
<1>2. ShortenPath(x) = x \/ (ShortenPath(x) = y /\ n # 0)
  BY <1>1 DEF ShortenPath
<1>3. SUFFICES ASSUME n # 0 PROVE Collecting(y) /\ y.u = x.u
  BY <1>2
<1>4. n \in Nat /\ n > 0 /\ Len(x.buf) \in Nat
  BY <1>1, <1>3 DEF Text
<1>5. /\ left \in Seq(Nat) /\ Len(left) = n - 1
      /\ \A k \in 1 .. n - 1 : left[k] = x.segEnd[k]
  BY <1>1, <1>4
<1>6. \A k \in 1 .. n : x.segEnd[k] \in Nat
  BY <1>1
<1>7. /\ \A i, j \in 1 .. n : i =< j => x.segEnd[i] =< x.segEnd[j]
      /\ \A j \in 1 .. n : x.segEnd[j] =< Len(x.buf)
  <2>1. \A j \in 1 .. n : j =< j
    BY <1>4
  <2>. QED  BY <1>1, <2>1 DEF SegEndsInOrder
<1>. HIDE DEF left, n
<1>8. b \in Text /\ Len(b) \in Nat /\ \A k \in 1 .. n - 1 : x.segEnd[k] =< Len(b)
  <2>1. CASE n = 1
    <3>1. b = <<>> /\ 1 .. n - 1 = {}
      BY <2>1
    <3>2. <<>> \in Text /\ Len(<<>>) = 0
      BY DEF Text
    <3>. HIDE DEF b
    <3>. QED  BY <3>1, <3>2
  <2>2. CASE n # 1
    <3>1. n - 1 \in 1 .. n - 1 /\ n - 1 \in 1 .. n
      BY <1>4, <2>2
    <3>2. left[n - 1] = x.segEnd[n - 1] /\ x.segEnd[n - 1] \in Nat
          /\ x.segEnd[n - 1] =< Len(x.buf)
      BY <1>5, <1>6, <1>7, <3>1
    <3>. DEFINE m == x.segEnd[n - 1]
    <3>3. b = SubSeq(x.buf, 1, m)
      BY <2>2, <3>2
    <3>4. m \in Nat /\ m =< Len(x.buf)
      BY <3>2
    <3>. HIDE DEF b, m
    <3>5. b \in Text /\ Len(b) = m
      BY <1>1, <3>3, <3>4, PrefixText
    <3>6. \A k \in 1 .. n - 1 : k \in 1 .. n /\ k =< n - 1
      BY <1>4
    <3>7. \A k \in 1 .. n - 1 : x.segEnd[k] =< m
      BY <1>7, <3>1, <3>6 DEF m
    <3>. QED  BY <3>4, <3>5, <3>7 DEF b, m
  <2>. QED  BY <2>1, <2>2
<1>. HIDE DEF b
<1>9. y \in Serializer /\ y.buf = b /\ y.segEnd = left /\ y.u = x.u /\ y.setter = x.setter
      /\ y.save = x.save /\ y.sane = x.sane
  BY <1>1, <1>5, <1>8 DEF Serializer
<1>10. SegEndsInOrder(y)
  <2>1. SUFFICES ASSUME NEW i \in 1 .. n - 1, NEW j \in 1 .. n - 1, i =< j
                 PROVE  left[i] =< left[j] /\ left[j] =< Len(b)
    BY <1>5, <1>9 DEF SegEndsInOrder
  <2>2. i \in 1 .. n /\ j \in 1 .. n
    BY <1>4
  <2>3. x.segEnd[i] =< x.segEnd[j]
    BY <1>7, <2>1, <2>2
  <2>. QED  BY <1>5, <1>8, <2>3
<1>. QED  BY <1>9, <1>10 DEF Collecting, Editor

\* A segment or an opaque path of url_serializer.
LEMMA PutPathStringSound ==
    ASSUME NEW x, Appender(x), x.last = SCHEME, NEW s \in Text, x.u.segs = 0
    PROVE  LET y == PutPathString(x, s)
           IN Appender(y) /\ SamePlan(x, y) /\ y.last = PATH
<1>. DEFINE y == PutPart(x, PATH, s)
<1>1. PutPathString(x, s) = Expect(y, x.u.segs = 0)
  BY DEF PutPathString
<1>2. Appender(y) /\ SamePlan(x, y) /\ y.last = PATH
  <2>1. PATH \in {USERNAME, PASSWORD, PORT, PATH, QUERY, FRAGMENT} /\ PATH > PATH_PREFIX
        /\ x.last < PATH
    BY PartNumbers
  <2>. QED  BY <2>1, AppenderPut
<1>. HIDE DEF y
<1>3. y \in Serializer
  BY <1>2, AppenderFacts
<1>4. Expect(y, x.u.segs = 0) = y
  BY <1>3, ExpectHolds, Zenon
<1>. QED  BY <1>1, <1>2, <1>4

-----------------------------------------------------------------------------
(* Parts that are copied from a base URL.                                  *)

\* G is E with the ends between k and first set, in order, within len .. n.
FilledEnds(E, G, k, first, len, n) ==
    /\ G \in [Part -> Nat]
    /\ \A t \in Part : t =< k => G[t] = E[t]
    /\ \A t \in Part : t > first => G[t] = E[t]
    /\ \A t \in Part : k < t /\ t < first => len =< G[t] /\ G[t] =< n
    /\ \A s, t \in Part : k < s /\ s =< t /\ t < first => G[s] =< G[t]

\* F is G with the ends first .. last of S, moved from S[first - 1] to n, but
\* the last of them is end.
CopiedEnds(G, S, F, first, last, end, n) ==
    \A t \in Part : F[t] = IF first =< t /\ t < last THEN S[t] + (n - S[first - 1])
                           ELSE IF t = last THEN end + (n - S[first - 1])
                           ELSE G[t]

\* Ends E of the parts up to l, and S of the parts up to lb, of which those of
\* first .. last come after the first k of E, as far as end, from n on.
MayMove(E, len, l, k, S, lenS, lb, first, last, end, n) ==
    /\ E \in [Part -> Nat] /\ len \in Nat /\ l \in Part /\ InOrder(E, len, l)
    /\ S \in [Part -> Nat] /\ lenS \in Nat /\ lb \in Part /\ InOrder(S, lenS, lb)
    /\ first \in Part /\ first # SCHEME /\ l =< first
    /\ k \in Part /\ k =< l /\ k < first
    /\ last \in Part /\ first =< last /\ last =< lb
    /\ end \in Nat /\ S[last - 1] =< end
    /\ n \in Nat /\ len =< n

LEMMA EndsCopied ==
    ASSUME NEW E, NEW len, NEW l, NEW k, NEW S, NEW lenS, NEW lb, NEW first, NEW last,
           NEW end, NEW n, MayMove(E, len, l, k, S, lenS, lb, first, last, end, n),
           NEW G, FilledEnds(E, G, k, first, len, n),
           NEW F, F = [t \in Part |-> F[t]], CopiedEnds(G, S, F, first, last, end, n)
    PROVE  /\ F \in [Part -> Nat] /\ InOrder(F, F[last], last)
           /\ S[first - 1] =< end
<1>0. /\ E \in [Part -> Nat] /\ len \in Nat /\ l \in Part /\ InOrder(E, len, l)
      /\ S \in [Part -> Nat] /\ lenS \in Nat /\ lb \in Part /\ InOrder(S, lenS, lb)
      /\ first \in Part /\ first # SCHEME /\ l =< first
      /\ k \in Part /\ k =< l /\ k < first
      /\ last \in Part /\ first =< last /\ last =< lb
      /\ end \in Nat /\ S[last - 1] =< end
      /\ n \in Nat /\ len =< n
  BY DEF MayMove
<1>. USE <1>0
<1>. DEFINE o == S[first - 1]
<1>1. /\ \A t \in Part : t \in Int
      /\ l \in Int /\ first \in Int /\ k \in Int /\ last \in Int /\ lb \in Int
      /\ first - 1 \in Part /\ last - 1 \in Part /\ last # SCHEME
  <2>1. /\ l \in Int /\ first \in Int /\ k \in Int /\ last \in Int /\ lb \in Int
        /\ first > SCHEME /\ SCHEME = 0
    BY PartInt, PartNumbers
  <2>2. last # SCHEME
    BY <2>1
  <2>. QED  BY <2>1, <2>2, PartInt
<1>2. /\ \A t \in Part : t =< l => E[t] > 0 /\ E[t] =< len
      /\ \A t \in Part : t > l => E[t] = 0
      /\ \A t \in Part : E[t] \in Nat
  BY InOrderFacts
<1>3. /\ \A s, t \in Part : s =< t /\ t =< lb => S[s] =< S[t]
      /\ \A t \in Part : S[t] \in Nat
  BY InOrderFacts
<1>4. /\ \A t \in Part : G[t] \in Nat
      /\ \A t \in Part : t =< k => G[t] = E[t]
      /\ \A t \in Part : t > first => G[t] = E[t]
      /\ \A t \in Part : k < t /\ t < first => len =< G[t] /\ G[t] =< n
      /\ \A s, t \in Part : k < s /\ s =< t /\ t < first => G[s] =< G[t]
  BY DEF FilledEnds
<1>5. /\ \A t \in Part : first =< t /\ t < last => F[t] = S[t] + (n - o)
      /\ F[last] = end + (n - o)
      /\ \A t \in Part : t < first \/ t > last => F[t] = G[t]
  <2>1. F[last] = end + (n - o)
    BY <1>1 DEF CopiedEnds
  <2>2. \A t \in Part : first =< t /\ t < last => F[t] = S[t] + (n - o)
    BY DEF CopiedEnds
  <2>3. \A t \in Part : t < first \/ t > last => ~(first =< t /\ t < last) /\ t # last
    BY <1>1
  <2>4. \A t \in Part : t < first \/ t > last => F[t] = G[t]
    BY <2>3 DEF CopiedEnds
  <2>. QED  BY <2>1, <2>2, <2>4
<1>6. o =< S[last - 1] /\ o \in Nat /\ o =< end
  <2>1. first - 1 =< last - 1 /\ last - 1 =< lb
    BY <1>1
  <2>2. o =< S[last - 1] /\ o \in Nat /\ S[last - 1] \in Nat
    BY <1>1, <1>3, <2>1
  <2>. QED  BY <2>2
<1>. HIDE DEF o
<1>7. \A t \in Part : first =< t /\ t < last => o =< S[t] /\ S[t] =< S[last - 1]
  <2>1. SUFFICES ASSUME NEW t \in Part, first =< t, t < last
                 PROVE  o =< S[t] /\ S[t] =< S[last - 1]
    OBVIOUS
  <2>2. first - 1 =< t /\ t =< lb /\ t =< last - 1 /\ last - 1 =< lb
    BY <1>1, <2>1
  <2>. QED  BY <1>1, <1>3, <2>2 DEF o
<1>8. \A t \in Part : first =< t /\ t =< last => F[t] \in Nat /\ n =< F[t] /\ F[t] =< F[last]
  <2>1. SUFFICES ASSUME NEW t \in Part, first =< t, t =< last
                 PROVE  F[t] \in Nat /\ n =< F[t] /\ F[t] =< F[last]
    OBVIOUS
  <2>2. CASE t = last
    BY <1>5, <1>6, <2>2
  <2>3. CASE t < last
    <3>1. F[t] = S[t] + (n - o) /\ o =< S[t] /\ S[t] =< end /\ S[t] \in Nat
      <4>1. o =< S[t] /\ S[t] =< S[last - 1] /\ S[t] \in Nat /\ S[last - 1] \in Nat
        BY <1>1, <1>3, <1>7, <2>1, <2>3
      <4>. QED  BY <1>5, <2>1, <2>3, <4>1
    <3>. QED  BY <1>5, <1>6, <3>1
  <2>. QED  BY <1>1, <2>1, <2>2, <2>3
<1>9. F \in [Part -> Nat]
  <2>1. \A t \in Part : F[t] \in Nat
    <3>1. \A t \in Part : (first =< t /\ t =< last) \/ t < first \/ t > last
      BY <1>1
    <3>. QED  BY <1>4, <1>5, <1>8, <3>1
  <2>. QED  BY <2>1
<1>10. NewEnds(E, F, k, last)
  <2>1. \A t \in Part : t =< k => F[t] = E[t]
    <3>1. \A t \in Part : t =< k => t < first
      BY <1>1
    <3>. QED  BY <1>4, <1>5, <3>1
  <2>2. \A t \in Part : t > last => F[t] = 0
    <3>1. \A t \in Part : t > last => t > first /\ t > l
      BY <1>1
    <3>. QED  BY <1>2, <1>4, <1>5, <3>1
  <2>3. \A t \in Part : k < t /\ t =< last => len =< F[t]
    <3>1. SUFFICES ASSUME NEW t \in Part, k < t, t =< last PROVE len =< F[t]
      OBVIOUS
    <3>2. CASE t < first
      BY <1>4, <1>5, <3>1, <3>2
    <3>3. CASE first =< t
      <4>1. n =< F[t] /\ F[t] \in Nat
        BY <1>8, <3>1, <3>3
      <4>. QED  BY <4>1
    <3>. QED  BY <1>1, <3>2, <3>3
  <2>4. E[k] =< len /\ E[k] \in Nat
    BY <1>2
  <2>5. \A t \in Part : k < t /\ t =< last => E[k] =< F[t]
    <3>1. \A t \in Part : F[t] \in Nat
      BY <1>9
    <3>. QED  BY <2>3, <2>4, <3>1
  <2>6. \A s, t \in Part : k < s /\ s =< t /\ t =< last => F[s] =< F[t]
    <3>1. SUFFICES ASSUME NEW s \in Part, NEW t \in Part, k < s, s =< t, t =< last
                   PROVE  F[s] =< F[t]
      OBVIOUS
    <3>2. CASE t < first
      <4>1. s < first
        BY <1>1, <3>1, <3>2
      <4>. QED  BY <1>4, <1>5, <3>1, <3>2, <4>1
    <3>3. CASE s < first /\ first =< t
      <4>1. F[s] =< n /\ F[s] \in Nat
        BY <1>4, <1>5, <3>1, <3>3
      <4>2. n =< F[t] /\ F[t] \in Nat
        BY <1>8, <3>1, <3>3
      <4>. QED  BY <4>1, <4>2
    <3>4. CASE first =< s /\ t < last
      <4>1. first =< t /\ s < last /\ t =< lb
        BY <1>1, <3>1, <3>4
      <4>2. S[s] =< S[t] /\ S[s] \in Nat /\ S[t] \in Nat
        BY <1>3, <3>1, <4>1
      <4>3. F[s] = S[s] + (n - o) /\ F[t] = S[t] + (n - o)
        BY <1>5, <3>4, <4>1
      <4>. QED  BY <1>6, <4>2, <4>3
    <3>5. CASE first =< s /\ t = last
      <4>1. s =< last
        BY <3>1, <3>5
      <4>. QED  BY <1>8, <3>5, <4>1
    <3>6. t < first \/ (s < first /\ first =< t) \/ (first =< s /\ t < last)
          \/ (first =< s /\ t = last)
      BY <1>1, <3>1
    <3>. QED  BY <3>2, <3>3, <3>4, <3>5, <3>6
  <2>. QED  BY <2>1, <2>2, <2>5, <2>6 DEF NewEnds
<1>11. k < last
  BY <1>1
<1>12. InOrder(F, F[last], last)
  BY <1>9, <1>10, <1>11, EndsRewritten
<1>. QED  BY <1>6, <1>9, <1>12 DEF o

\* What AppendingStart writes before a part that is copied.
StartNorm(u, l, first) == u.norm \o Separator(l, first)

StartEnds(u, l, first) ==
    [p \in Part |-> IF p \notin Skipped(l, first) THEN u.ends[p]
                    ELSE IF l = USERNAME /\ p = PASSWORD THEN Len(u.norm)
                    ELSE Len(StartNorm(u, l, first))]

\* The part at which a copy may start when l is the last that is written.
MayCopy(u, l, first) ==
    /\ l \in {SCHEME, HOST} /\ first \in {USERNAME, HOST, PATH_PREFIX, PATH}
    /\ l < first \/ (l = HOST /\ first = HOST /\ IsEmpty(u, HOST))

LEMMA MayCopyFacts ==
    ASSUME NEW u, NEW l, NEW first, MayCopy(u, l, first)
    PROVE  /\ l \in Part /\ first \in Part /\ first # SCHEME /\ l =< first
           /\ l = SCHEME \/ (l = HOST /\ first >= HOST)
           /\ PartStart(first) = 0 /\ Lead(first) = <<>>
           /\ ~(l = PATH /\ first = PATH) /\ l # USERNAME
<1>1. /\ SCHEME = 0 /\ USERNAME = 2 /\ HOST = 5 /\ PATH_PREFIX = 7 /\ PATH = 8
      /\ PASSWORD = 3 /\ PORT = 6 /\ QUERY = 9 /\ FRAGMENT = 10
      /\ SCHEME \in Part /\ USERNAME \in Part /\ HOST \in Part /\ PATH_PREFIX \in Part
      /\ PATH \in Part
  BY PartNumbers
<1>2. l \in Part /\ first \in Part /\ first # SCHEME /\ l =< first
  BY <1>1 DEF MayCopy
<1>3. l = SCHEME \/ (l = HOST /\ first >= HOST)
  BY <1>1 DEF MayCopy
<1>4. first \notin {PASSWORD, PORT, QUERY, FRAGMENT}
  BY <1>1 DEF MayCopy
<1>5. PartStart(first) = 0 /\ Lead(first) = <<>>
  BY <1>4, LeadText DEF PartStart
<1>6. ~(l = PATH /\ first = PATH) /\ l # USERNAME
  BY <1>1 DEF MayCopy
<1>. QED  BY <1>2, <1>3, <1>5, <1>6

\* The ends that the start of a copy leaves.
Started(u, l, first, k) ==
    /\ k \in Part /\ k =< l /\ k < first
    /\ StartNorm(u, l, first) \in Text
    /\ Extends(u.norm, StartNorm(u, l, first))
    /\ FilledEnds(u.ends, StartEnds(u, l, first), k, first,
                  Len(u.norm), Len(StartNorm(u, l, first)))
    /\ l = SCHEME => StartEnds(u, l, first)[SCHEME_SEP] = Len(StartNorm(u, l, first))
    /\ l = HOST => \A t \in Part : t =< HOST => StartEnds(u, l, first)[t] = u.ends[t]
    /\ l = SCHEME /\ first > HOST =>
          StartEnds(u, l, first)[HOST] = StartEnds(u, l, first)[HOST_START]
    /\ l = SCHEME /\ first = PATH =>
          StartEnds(u, l, first)[PATH_PREFIX] = u.ends[SCHEME] + 1

LEMMA CopyStarted ==
    ASSUME NEW u \in Url, NEW l \in Part, Ordered(u, l), NEW first, MayCopy(u, l, first)
    PROVE  Started(u, l, first, IF l = first THEN HOST_START ELSE l)
<1>. DEFINE M == StartNorm(u, l, first)
            G == StartEnds(u, l, first)
            k == IF l = first THEN HOST_START ELSE l
            len == Len(u.norm)
            n == Len(M)
<1>1. /\ l \in Part /\ first \in Part /\ first # SCHEME /\ l =< first
      /\ l = SCHEME \/ (l = HOST /\ first >= HOST)
      /\ l # USERNAME
      /\ first \in {USERNAME, HOST, PATH_PREFIX, PATH}
  BY MayCopyFacts DEF MayCopy
<1>2. /\ SCHEME = 0 /\ SCHEME_SEP = 1 /\ HOST_START = 4 /\ HOST = 5 /\ PATH_PREFIX = 7
      /\ PATH = 8 /\ USERNAME = 2
      /\ \A t \in Part : t \in Int /\ SCHEME =< t
      /\ HOST_START \in Part /\ SCHEME \in Part /\ SCHEME_SEP \in Part /\ HOST \in Part
      /\ PATH_PREFIX \in Part
  BY PartInt, PartNumbers
<1>3. k \in Part /\ k =< l /\ k < first
  <2>1. CASE l = first
    BY <1>1, <1>2, <2>1
  <2>2. CASE l # first
    BY <1>1, <1>2, <2>2
  <2>. QED  BY <2>1, <2>2
<1>4. /\ u.norm \in Text /\ len \in Nat /\ u.ends \in [Part -> Nat]
      /\ \A t \in Part : u.ends[t] \in Nat
  BY UrlType
<1>5. Separator(l, first) \in Text /\ Len(Separator(l, first)) \in Nat
  BY LeadText DEF Text
<1>6. M \in Text /\ Extends(u.norm, M) /\ n = len + Len(Separator(l, first))
  BY <1>4, <1>5, ExtendsConcat DEF StartNorm, Extends
<1>7. n \in Nat /\ len =< n
  BY <1>4, <1>5, <1>6
<1>8. \A t \in Part : G[t] = IF l < t /\ t < first THEN n ELSE u.ends[t]
  <2>1. SUFFICES ASSUME NEW t \in Part
                 PROVE  G[t] = IF l < t /\ t < first THEN n ELSE u.ends[t]
    OBVIOUS
  <2>2. t \in Skipped(l, first) <=> (l < t /\ t < first)
    BY <1>1, <1>2 DEF Skipped
  <2>3. G[t] = IF t \notin Skipped(l, first) THEN u.ends[t] ELSE n
    BY <1>1 DEF StartEnds
  <2>. QED  BY <2>2, <2>3
<1>9. G \in [Part -> Nat]
  <2>1. G = [t \in Part |-> G[t]]
    BY DEF StartEnds
  <2>. HIDE DEF G, n
  <2>2. \A t \in Part : G[t] \in Nat
    BY <1>4, <1>7, <1>8
  <2>. QED  BY <2>1, <2>2
<1>. HIDE DEF M, G, n
<1>10. /\ l # SCHEME => len = u.ends[l]
       /\ l = SCHEME => len = u.ends[SCHEME] + 1
       /\ \A s, t \in Part : s =< t /\ t =< l => u.ends[s] =< u.ends[t]
  BY OrderedFacts DEF InOrder
<1>11. \A t \in Part : t =< k => G[t] = u.ends[t]
  <2>1. \A t \in Part : t =< k => ~(l < t /\ t < first)
    BY <1>1, <1>2, <1>3
  <2>. QED  BY <1>8, <2>1
<1>12. \A t \in Part : t > first => G[t] = u.ends[t]
  <2>1. \A t \in Part : t > first => ~(l < t /\ t < first)
    BY <1>1, <1>2
  <2>. QED  BY <1>8, <2>1
<1>13. \A t \in Part : k < t /\ t < first => l < t
  <2>1. CASE l = first
    BY <1>1, <1>2, <2>1
  <2>2. CASE l # first
    BY <2>2
  <2>. QED  BY <2>1, <2>2
<1>. HIDE DEF k
<1>14. \A t \in Part : k < t /\ t < first => G[t] = n
  BY <1>8, <1>13
<1>15. n =< n
  BY <1>7
<1>16. \A s, t \in Part : k < s /\ s =< t /\ t < first => s < first /\ k < t
  BY <1>1, <1>2, <1>3
<1>17. \A t \in Part : k < t /\ t < first => len =< G[t] /\ G[t] =< n
  BY <1>7, <1>14, <1>15
<1>18. \A s, t \in Part : k < s /\ s =< t /\ t < first => G[s] =< G[t]
  BY <1>14, <1>15, <1>16
<1>19. FilledEnds(u.ends, G, k, first, len, n)
  BY <1>9, <1>11, <1>12, <1>17, <1>18 DEF FilledEnds
<1>20. ASSUME l = SCHEME PROVE G[SCHEME_SEP] = n
  <2>1. l < SCHEME_SEP /\ SCHEME_SEP < first
    BY <1>1, <1>2, <1>20
  <2>. QED  BY <1>2, <1>8, <2>1
<1>21. ASSUME l = HOST, NEW t \in Part, t =< HOST PROVE G[t] = u.ends[t]
  <2>1. ~(l < t /\ t < first)
    BY <1>2, <1>21
  <2>. QED  BY <1>8, <2>1
<1>22. ASSUME l = SCHEME, first > HOST PROVE G[HOST] = G[HOST_START]
  <2>1. l < HOST /\ HOST < first /\ l < HOST_START /\ HOST_START < first
    BY <1>1, <1>2, <1>22
  <2>. QED  BY <1>2, <1>8, <2>1
<1>23. ASSUME l = SCHEME, first = PATH PROVE G[PATH_PREFIX] = u.ends[SCHEME] + 1
  <2>1. l < PATH_PREFIX /\ PATH_PREFIX < first
    BY <1>2, <1>23
  <2>2. G[PATH_PREFIX] = n
    BY <1>2, <1>8, <2>1
  <2>3. Separator(l, first) = <<>>
    <3>1. ~(first =< HOST) /\ first # PASSWORD /\ first # HOST
      BY <1>2, <1>23, PartNumbers
    <3>. QED  BY <1>1, <1>23, <3>1 DEF Separator
  <2>4. n = len
    BY <1>4, <1>6, <2>3
  <2>. QED  BY <1>10, <1>23, <2>2, <2>4
<1>. QED  BY <1>3, <1>6, <1>19, <1>20, <1>21, <1>22, <1>23 DEF Started, M, G, n, k

\* The url u, written up to l, with the parts first .. last of src, of which
\* the last ends at end.
CopiedUrl(u, l, src, first, last, end, segs) ==
    LET n == Len(StartNorm(u, l, first))
        o == src.ends[first - 1]
    IN [u EXCEPT !.norm = StartNorm(u, l, first) \o SubSeq(src.norm, o + 1, end),
                 !.ends = [t \in Part |->
                              IF first =< t /\ t < last THEN src.ends[t] + (n - o)
                              ELSE IF t = last THEN end + (n - o)
                              ELSE StartEnds(u, l, first)[t]],
                 !.segs = segs]

Copied(u, v, l, first, last) ==
    /\ Rewritten(u, v) /\ Ordered(v, last)
    /\ first > HOST /\ (l = SCHEME \/ IsEmpty(u, HOST)) => IsEmpty(v, HOST)
    /\ l = SCHEME /\ first = PATH => v.ends[PATH_PREFIX] = u.ends[SCHEME] + 1

LEMMA CopiedUrlSound ==
    ASSUME NEW u \in Url, NEW l \in Part, Ordered(u, l), NEW first, MayCopy(u, l, first),
           NEW src \in Url, NEW lb \in Part, Ordered(src, lb),
           NEW last \in Part, first =< last, last =< lb,
           NEW end \in Nat, src.ends[last - 1] =< end, end =< Len(src.norm),
           NEW segs \in Nat
    PROVE  LET v == CopiedUrl(u, l, src, first, last, end, segs)
           IN Copied(u, v, l, first, last) /\ v.segs = segs
<1>. DEFINE M == StartNorm(u, l, first)
            G == StartEnds(u, l, first)
            k == IF l = first THEN HOST_START ELSE l
            n == Len(M)
            o == src.ends[first - 1]
            C == SubSeq(src.norm, o + 1, end)
            N == M \o C
            F == [t \in Part |-> IF first =< t /\ t < last THEN src.ends[t] + (n - o)
                                 ELSE IF t = last THEN end + (n - o)
                                 ELSE G[t]]
            v == CopiedUrl(u, l, src, first, last, end, segs)
<1>1. /\ first \in Part /\ first # SCHEME /\ l =< first
      /\ l = SCHEME \/ (l = HOST /\ first >= HOST)
      /\ first \in {USERNAME, HOST, PATH_PREFIX, PATH}
  BY MayCopyFacts DEF MayCopy
<1>2. Started(u, l, first, k)
  BY CopyStarted
<1>3. v = [u EXCEPT !.norm = N, !.ends = F, !.segs = segs]
  BY DEF CopiedUrl
<1>4. CopiedEnds(G, src.ends, F, first, last, end, n)
  BY DEF CopiedEnds
<1>5. F = [t \in Part |-> F[t]]
  OBVIOUS
<1>. HIDE DEF F, k
<1>6. /\ u.norm \in Text /\ Len(u.norm) \in Nat /\ u.ends \in [Part -> Nat]
      /\ src.norm \in Text /\ Len(src.norm) \in Nat /\ src.ends \in [Part -> Nat]
      /\ \A t \in Part : u.ends[t] \in Nat /\ src.ends[t] \in Nat
  BY UrlType
<1>7. InOrder(u.ends, Len(u.norm), l) /\ InOrder(src.ends, Len(src.norm), lb)
  BY OrderedFacts
<1>8. /\ k \in Part /\ k =< l /\ k < first
      /\ M \in Text /\ Extends(u.norm, M)
      /\ FilledEnds(u.ends, G, k, first, Len(u.norm), n)
      /\ l = SCHEME => G[SCHEME_SEP] = n
      /\ l = HOST => \A t \in Part : t =< HOST => G[t] = u.ends[t]
      /\ l = SCHEME /\ first > HOST => G[HOST] = G[HOST_START]
      /\ l = SCHEME /\ first = PATH => G[PATH_PREFIX] = u.ends[SCHEME] + 1
  BY <1>2 DEF Started
<1>9. n \in Nat /\ Len(u.norm) =< n
  BY <1>8 DEF Extends, Text
<1>. HIDE DEF M, G, n
<1>10. /\ F \in [Part -> Nat] /\ InOrder(F, F[last], last) /\ o =< end
  <2>1. MayMove(u.ends, Len(u.norm), l, k, src.ends, Len(src.norm), lb, first, last, end, n)
    BY <1>1, <1>6, <1>7, <1>8, <1>9 DEF MayMove
  <2>2. FilledEnds(u.ends, G, k, first, Len(u.norm), n)
    BY <1>8
  <2>3. F \in [Part -> Nat] /\ InOrder(F, F[last], last) /\ src.ends[first - 1] =< end
    BY <1>4, <1>5, <2>1, <2>2, EndsCopied
  <2>. QED  BY <2>3
<1>11. o \in Nat
  <2>1. first - 1 \in Part
    BY <1>1, PartInt
  <2>. QED  BY <1>6, <2>1
<1>12. C \in Text /\ Len(C) = end - o
  <2>. HIDE DEF o
  <2>. QED  BY <1>6, <1>10, <1>11, PieceText
<1>. HIDE DEF o, C
<1>13. /\ N \in Text /\ Len(N) = n + (end - o) /\ Extends(M, N)
  <2>1. N \in Text /\ Len(N) = Len(M) + Len(C)
    BY <1>8, <1>12, ConcatText
  <2>2. Extends(M, N)
    BY <1>8, <1>12, ExtendsConcat
  <2>. QED  BY <1>12, <2>1, <2>2 DEF n
<1>14. Extends(u.norm, N)
  BY <1>6, <1>8, <1>13, ExtendsTrans
<1>. HIDE DEF N
<1>15. /\ v \in Url /\ v.norm = N /\ v.ends = F /\ v.inf = u.inf /\ v.flags = u.flags
       /\ v.htype = u.htype /\ v.segs = segs
  BY <1>3, <1>10, <1>13 DEF Url
<1>. HIDE DEF v
<1>16. /\ \A t \in Part : t \in Int /\ SCHEME =< t
       /\ first \in Int /\ last \in Int /\ l \in Int
       /\ SCHEME = 0 /\ SCHEME_SEP = 1 /\ HOST_START = 4 /\ HOST = 5 /\ PATH_PREFIX = 7
       /\ PATH = 8 /\ USERNAME = 2
       /\ SCHEME \in Part /\ SCHEME_SEP \in Part /\ HOST_START \in Part /\ HOST \in Part
       /\ PATH_PREFIX \in Part
  BY <1>1, PartInt, PartNumbers
<1>17. \A t \in Part : t < first => F[t] = G[t]
  <2>1. \A t \in Part : t < first => ~(first =< t /\ t < last) /\ t # last
    BY <1>16
  <2>. QED  BY <1>4, <2>1 DEF CopiedEnds
<1>18. F[last] = Len(v.norm)
  <2>1. F[last] = end + (n - o)
    BY <1>4, <1>16 DEF CopiedEnds, o
  <2>. QED  BY <1>9, <1>10, <1>11, <1>13, <1>15, <2>1
<1>19. EndsUpTo(v, last)
  BY <1>10, <1>15, <1>18 DEF EndsUpTo
<1>20. SCHEME < first /\ SCHEME_SEP < first
  BY <1>1, <1>16
<1>21. F[SCHEME] = u.ends[SCHEME]
  <2>1. SCHEME =< k /\ \A t \in Part : t =< k => G[t] = u.ends[t]
    BY <1>8, <1>16 DEF FilledEnds
  <2>. QED  BY <1>16, <1>17, <1>20, <2>1
<1>22. /\ u.ends[SCHEME] + 1 =< Len(u.norm) /\ u.ends[SCHEME] \in Nat
       /\ l # SCHEME => \A t \in Part : t # SCHEME /\ t =< l =>
                               u.ends[SCHEME] + 1 =< u.ends[t]
  BY OrderedFacts
<1>23. Rewritten(u, v)
  <2>1. ASSUME NEW i \in 1 .. u.ends[SCHEME] + 1 PROVE v.norm[i] = u.norm[i]
    <3>1. i \in 1 .. Len(u.norm)
      BY <1>6, <1>22
    <3>. QED  BY <1>14, <1>15, <3>1 DEF Extends
  <2>. QED  BY <1>15, <1>21, <2>1 DEF Rewritten
<1>24. u.ends[SCHEME] < v.ends[SCHEME_SEP]
  <2>1. F[SCHEME_SEP] = G[SCHEME_SEP]
    BY <1>16, <1>17, <1>20
  <2>2. CASE l = SCHEME
    BY <1>6, <1>8, <1>9, <1>15, <1>22, <2>1, <2>2
  <2>3. CASE l = HOST
    <3>1. SCHEME_SEP =< HOST /\ SCHEME_SEP # SCHEME /\ SCHEME_SEP =< l /\ l # SCHEME
      BY <1>16, <2>3
    <3>2. G[SCHEME_SEP] = u.ends[SCHEME_SEP] /\ u.ends[SCHEME] + 1 =< u.ends[SCHEME_SEP]
      BY <1>8, <1>16, <1>22, <2>3, <3>1
    <3>. QED  BY <1>6, <1>15, <1>16, <1>22, <2>1, <3>2
  <2>. QED  BY <1>1, <2>2, <2>3
<1>25. Ordered(v, last)
  BY <1>19, <1>23, <1>24, SchemeKept
<1>26. ASSUME first > HOST, l = SCHEME \/ IsEmpty(u, HOST) PROVE IsEmpty(v, HOST)
  <2>1. HOST < first /\ HOST_START < first /\ HOST_START =< HOST /\ HOST =< HOST
    BY <1>16, <1>26
  <2>2. F[HOST] = G[HOST] /\ F[HOST_START] = G[HOST_START] /\ F[HOST] \in Nat
    BY <1>10, <1>16, <1>17, <2>1
  <2>3. IsEmpty(v, HOST) <=> v.ends[HOST_START] + 0 >= v.ends[HOST]
    BY HostIsEmpty
  <2>4. CASE l = SCHEME
    BY <1>8, <1>15, <1>26, <2>2, <2>3, <2>4
  <2>5. CASE l = HOST /\ IsEmpty(u, HOST)
    <3>1. u.ends[HOST_START] + 0 >= u.ends[HOST]
      BY <2>5, HostIsEmpty
    <3>2. G[HOST] = u.ends[HOST] /\ G[HOST_START] = u.ends[HOST_START]
      BY <1>8, <1>16, <2>1, <2>5
    <3>. QED  BY <1>15, <2>2, <2>3, <3>1, <3>2
  <2>6. l = SCHEME \/ (l = HOST /\ IsEmpty(u, HOST))
    BY <1>1, <1>26
  <2>. QED  BY <2>4, <2>5, <2>6
<1>27. ASSUME l = SCHEME, first = PATH PROVE v.ends[PATH_PREFIX] = u.ends[SCHEME] + 1
  <2>1. PATH_PREFIX < first
    BY <1>16, <1>27
  <2>. QED  BY <1>8, <1>15, <1>16, <1>17, <1>27, <2>1
<1>. QED  BY <1>15, <1>23, <1>25, <1>26, <1>27 DEF Copied, v

\* The flags of the copied parts, that of an opaque path among them if the
\* path is copied, come with them.
FlagsCopied(u, v, src, t1, t2) ==
    /\ SameText(u, v) /\ v.segs = u.segs
    /\ IsValid(v) <=> IsValid(u)
    /\ HasOpaquePath(v) => HasOpaquePath(u) \/ HasOpaquePath(src)
    /\ IF t1 =< HOST THEN IsNull(v, HOST) <=> IsNull(src, HOST)
       ELSE IsNull(v, HOST) <=> IsNull(u, HOST)

LEMMA CopyFlagsSound ==
    ASSUME NEW u \in Url, NEW src \in Url, NEW t1 \in Part, NEW t2 \in Part, HOST =< t2
    PROVE  FlagsCopied(u, CopyFlags(u, src, t1, t2), src, t1, t2)
<1>. DEFINE mask == FlagMask(t1, t2)
            v == CopyFlags(u, src, t1, t2)
            F == (u.flags \ mask) \cup (src.flags \cap mask)
            H == IF HOST \in mask THEN src.htype ELSE u.htype
<1>1. v = [u EXCEPT !.flags = F, !.htype = H]
  BY DEF CopyFlags
<1>2. u.flags \in SUBSET (0 .. 12) /\ src.flags \in SUBSET (0 .. 12)
      /\ u.htype \in HostType /\ src.htype \in HostType
  BY UrlType
<1>3. F \in SUBSET (0 .. 12)
  BY <1>2
<1>4. VALID \notin mask
  <2>1. VALID = 12 /\ OPAQUE_PATH = 11 /\ \A t \in Part : t =< 10
    BY PartInt, PartNumbers DEF VALID, OPAQUE_PATH
  <2>2. VALID \notin t1 .. t2
    BY <2>1, PartInt
  <2>3. VALID # OPAQUE_PATH
    BY <2>1
  <2>. QED  BY <2>2, <2>3 DEF FlagMask
<1>5. HOST \in mask <=> t1 =< HOST
  <2>1. /\ HOST # SCHEME_SEP /\ HOST # HOST_START /\ HOST # PATH_PREFIX /\ HOST # OPAQUE_PATH
        /\ HOST \in Int
    BY PartNumbers DEF OPAQUE_PATH
  <2>2. HOST \in t1 .. t2 <=> t1 =< HOST
    BY <2>1, PartInt
  <2>. QED  BY <2>1, <2>2 DEF FlagMask
<1>. HIDE DEF mask
<1>6. H \in HostType
  BY <1>2
<1>. HIDE DEF F, H
<1>7. v \in Url /\ v.norm = u.norm /\ v.ends = u.ends /\ v.inf = u.inf /\ v.segs = u.segs
      /\ v.flags = F
  BY <1>1, <1>3, <1>6 DEF Url
<1>8. SameText(u, v)
  BY <1>7 DEF SameText
<1>9. IsValid(v) <=> IsValid(u)
  BY <1>4, <1>7 DEF F, IsValid
<1>10. HasOpaquePath(v) => HasOpaquePath(u) \/ HasOpaquePath(src)
  BY <1>7 DEF F, HasOpaquePath
<1>11. IF t1 =< HOST THEN IsNull(v, HOST) <=> IsNull(src, HOST)
       ELSE IsNull(v, HOST) <=> IsNull(u, HOST)
  BY <1>5, <1>7 DEF F, IsNull
<1>. QED  BY <1>7, <1>8, <1>9, <1>10, <1>11 DEF FlagsCopied

\* The path that is copied ends at or before the path of the base.
LEMMA KeptPathRange ==
    ASSUME NEW src \in Url, NEW lb \in Part, Ordered(src, lb), lb >= PATH, NEW op_
    PROVE  /\ KeptPath(src, op_).end \in Nat /\ KeptPath(src, op_).segs \in Nat
           /\ src.ends[PATH_PREFIX] =< KeptPath(src, op_).end
           /\ KeptPath(src, op_).end =< src.ends[PATH]
<1>1. /\ RemLastEnd(src) \in Nat /\ src.ends[PATH_PREFIX] =< RemLastEnd(src)
      /\ RemLastEnd(src) =< src.ends[PATH]
  BY RemLastEndRange
<1>2. src.segs \in Nat
  BY UrlType
<1>3. src.ends[PATH] \in Nat /\ src.ends[PATH_PREFIX] =< src.ends[PATH]
  <2>1. PATH_PREFIX =< PATH /\ PATH =< lb /\ PATH_PREFIX \in Part /\ PATH \in Part
    BY PartInt, PartNumbers
  <2>2. src.ends[PATH] \in Nat
    BY <2>1, UrlType
  <2>3. \A s, t \in Part : s =< t /\ t =< lb => src.ends[s] =< src.ends[t]
    BY OrderedFacts
  <2>. QED  BY <2>1, <2>2, <2>3
<1>4. CASE CanRemLast(src) /\ (op_ = "remLast" \/ (op_ = "shorten" /\ CanShorten(src)))
  <2>1. KeptPath(src, op_) = [end |-> RemLastEnd(src), segs |-> src.segs - 1]
    BY <1>4 DEF KeptPath
  <2>2. src.segs - 1 \in Nat
    BY <1>2, <1>4 DEF CanRemLast
  <2>. QED  BY <1>1, <2>1, <2>2
<1>5. CASE ~((op_ = "remLast" /\ CanRemLast(src)) \/ (op_ = "shorten" /\ CanShorten(src)))
  <2>1. KeptPath(src, op_) = [end |-> src.ends[PATH], segs |-> src.segs]
    BY <1>5 DEF KeptPath
  <2>2. src.ends[PATH] =< src.ends[PATH]
    BY <1>3
  <2>. QED  BY <1>2, <1>3, <2>1, <2>2
<1>6. CanShorten(src) => CanRemLast(src)
  BY DEF CanShorten, CanRemLast
<1>. QED  BY <1>4, <1>5, <1>6

PartsCopied(x, z, first, last) ==
    /\ GoesOn(x, z) /\ z.last = last /\ z.inBuf = x.inBuf
    /\ Copied(x.u, z.u, x.last, first, last)
    /\ last < PATH => z.u.segs = x.u.segs

\* Where the copy ends in src, and the segments that come with it.
CopyEnd(src, last, op_) == IF last = PATH THEN KeptPath(src, op_).end ELSE src.ends[last]
CopySegs(x, src, first, last, op_) ==
    IF last = PATH THEN KeptPath(src, op_).segs
    ELSE IF first =< PATH /\ PATH =< last THEN src.segs ELSE x.u.segs

CopiedAs(x, z, src, first, last, op_) ==
    /\ PartsCopied(x, z, first, last)
    /\ z.u = CopiedUrl(x.u, x.last, src, first, last, CopyEnd(src, last, op_),
                       CopySegs(x, src, first, last, op_))

LEMMA CopyPartsSound ==
    ASSUME NEW x \in Serializer, x.sane = TRUE, Ordered(x.u, x.last),
           NEW first, MayCopy(x.u, x.last, first),
           NEW src \in Url, NEW lb \in Part, Ordered(src, lb),
           NEW last \in Part, first =< last, last =< lb, NEW op_
    PROVE  CopiedAs(x, CopyParts(x, src, first, last, op_), src, first, last, op_)
<1>. DEFINE u == x.u
            l == x.last
            M == StartNorm(u, l, first)
            G == StartEnds(u, l, first)
            kept == KeptPath(src, op_)
            end == IF last = PATH THEN kept.end ELSE src.ends[last]
            segs == IF last = PATH THEN kept.segs
                    ELSE IF first =< PATH /\ PATH =< last THEN src.segs ELSE u.segs
            v == CopiedUrl(u, l, src, first, last, end, segs)
            z == CopyParts(x, src, first, last, op_)
            w == [u EXCEPT !.norm = M, !.ends = G]
            y == AppendingStart(x, first)
<1>1. u \in Url /\ l \in Part /\ u.norm \in Text /\ u.segs \in Nat /\ src.segs \in Nat
  BY SerializerType, UrlType
<1>2. /\ first \in Part /\ first # SCHEME /\ l =< first
      /\ PartStart(first) = 0 /\ Lead(first) = <<>>
      /\ ~(l = PATH /\ first = PATH) /\ l # USERNAME
      /\ l < first \/ (l = first /\ IsEmpty(u, first))
  <2>1. l < first \/ (l = first /\ IsEmpty(u, first))
    BY DEF MayCopy
  <2>. QED  BY <2>1, MayCopyFacts
<1>3. Started(u, l, first, IF l = first THEN HOST_START ELSE l)
  BY <1>1, CopyStarted
<1>4. M \in Text /\ M \o <<>> = M /\ G \in [Part -> Nat] /\ Len(M) \in Nat
  <2>1. M \in Text /\ G \in [Part -> Nat]
    BY <1>3 DEF Started, FilledEnds
  <2>. HIDE DEF M, G
  <2>. QED  BY <2>1 DEF Text
<1>5. y = [x EXCEPT !.u = w, !.last = first]
  <2>. DEFINE N == M \o Lead(first)
              w0 == [u EXCEPT !.norm = N, !.ends = G]
              y0 == [x EXCEPT !.u = w0, !.last = first]
              ok == x.last < first \/ (x.last = first /\ IsEmpty(u, first))
  <2>1. y = Expect(y0, ok)
    BY <1>2 DEF AppendingStart, StartNorm, StartEnds
  <2>2. N = M
    <3>. HIDE DEF M
    <3>. QED  BY <1>2, <1>4
  <2>3. y0 = [x EXCEPT !.u = w, !.last = first]
    <3>. HIDE DEF N, M, G
    <3>. QED  BY <2>2
  <2>4. w \in Url
    <3>. HIDE DEF M, G
    <3>. QED  BY <1>1, <1>4 DEF Url
  <2>5. y0 \in Serializer
    <3>. HIDE DEF w, y0
    <3>. QED  BY <1>2, <2>3, <2>4 DEF Serializer
  <2>6. Expect(y0, ok) = y0
    <3>1. ok
      BY <1>2
    <3>. HIDE DEF ok, y0
    <3>. QED  BY <2>5, <3>1, ExpectHolds, Zenon
  <2>. HIDE DEF y, y0
  <2>. QED  BY <2>1, <2>3, <2>6
<1>6. PATH =< PATH /\ (last = PATH => lb >= PATH)
  BY PartNumbers, PartInt
<1>7. end \in Nat /\ segs \in Nat /\ src.ends[last - 1] =< end /\ end =< Len(src.norm)
  <2>1. CASE last = PATH
    <3>1. /\ kept.end \in Nat /\ kept.segs \in Nat
          /\ src.ends[PATH_PREFIX] =< kept.end /\ kept.end =< src.ends[PATH]
      BY <1>6, <2>1, KeptPathRange
    <3>2. src.ends[PATH] =< Len(src.norm) /\ src.ends[PATH] \in Nat /\ Len(src.norm) \in Nat
      BY <1>6, <2>1, OrderedFacts, UrlType
    <3>3. last - 1 = PATH_PREFIX
      BY <2>1, PartNumbers
    <3>. HIDE DEF kept
    <3>. QED  BY <2>1, <3>1, <3>2, <3>3
  <2>2. CASE last # PATH
    <3>1. /\ src.ends[last] =< Len(src.norm)
          /\ \A s, t \in Part : s =< t /\ t =< lb => src.ends[s] =< src.ends[t]
      BY OrderedFacts
    <3>2. last # SCHEME /\ last - 1 \in Part /\ last - 1 =< last
      BY <1>2, PartInt, PartNumbers
    <3>3. src.ends[last] \in Nat
      BY UrlType
    <3>. HIDE DEF kept
    <3>. QED  BY <1>1, <2>2, <3>1, <3>2, <3>3
  <2>. QED  BY <2>1, <2>2
<1>8. z = [x EXCEPT !.u = v, !.last = last]
  <2>. DEFINE o == src.ends[first - 1]
              N == M \o SubSeq(src.norm, o + 1, end)
              F == [t \in Part |-> IF first =< t /\ t < last THEN src.ends[t] + (Len(M) - o)
                                   ELSE IF t = last THEN end + (Len(M) - o)
                                   ELSE G[t]]
  <2>1. y.u = w /\ y.u.norm = M /\ y.u.ends = G /\ y.u.segs = u.segs
    <3>1. y.u = w
      <4>. HIDE DEF y, w
      <4>. QED  BY <1>5 DEF Serializer
    <3>2. w.norm = M /\ w.ends = G /\ w.segs = u.segs
      <4>. HIDE DEF M, G
      <4>. QED  BY <1>1 DEF Url
    <3>. HIDE DEF y, w
    <3>. QED  BY <3>1, <3>2
  <2>2. /\ o \in Nat /\ o + PartStart(first) = o
    <3>1. first - 1 \in Part
      BY <1>2, PartInt
    <3>. QED  BY <1>2, <3>1, UrlType
  <2>. DEFINE w2 == [y.u EXCEPT !.norm = y.u.norm \o SubSeq(src.norm, o + PartStart(first) + 1, end),
                       !.ends = [t \in Part |->
                            IF first =< t /\ t < last
                            THEN src.ends[t] + (Len(y.u.norm) - (o + PartStart(first)))
                            ELSE IF t = last THEN end + (Len(y.u.norm) - (o + PartStart(first)))
                            ELSE y.u.ends[t]],
                       !.segs = IF last = PATH THEN kept.segs
                                ELSE IF first =< PATH /\ PATH =< last THEN src.segs
                                ELSE y.u.segs]
  <2>3. z = [y EXCEPT !.u = w2, !.last = last]
    <3>. HIDE DEF y
    <3>. QED  BY DEF CopyParts, y
  <2>4. w2 = [w EXCEPT !.norm = N, !.ends = F, !.segs = segs]
    <3>. HIDE DEF y, w, M, G, kept, o
    <3>. QED  BY <2>1, <2>2
  <2>5. w2 = [u EXCEPT !.norm = N, !.ends = F, !.segs = segs]
    <3>. HIDE DEF N, F, segs, w2
    <3>. QED  BY <2>4
  <2>6. v = [u EXCEPT !.norm = N, !.ends = F, !.segs = segs]
    BY DEF CopiedUrl
  <2>7. w2 = v
    <3>. HIDE DEF w2, v, N, F, segs
    <3>. QED  BY <2>5, <2>6
  <2>. HIDE DEF w2, v, y, w, z
  <2>. QED  BY <1>5, <2>3, <2>7
<1>. HIDE DEF y, w, M, G, kept, z
<1>9. Copied(u, v, l, first, last) /\ v.segs = segs
  <2>. HIDE DEF end, segs
  <2>. QED  BY <1>1, <1>7, CopiedUrlSound
<1>. HIDE DEF v
<1>10. v \in Url
  BY <1>9 DEF Copied, Rewritten
<1>11. GoesOn(x, z) /\ z.last = last /\ z.inBuf = x.inBuf /\ z.u = v
  BY <1>8, <1>10 DEF GoesOn, Serializer
<1>12. last < PATH => segs = u.segs
  BY PartInt, PartNumbers
<1>13. PartsCopied(x, z, first, last)
  BY <1>9, <1>11, <1>12 DEF PartsCopied
<1>14. z.u = CopiedUrl(u, l, src, first, last, end, segs)
  BY <1>11 DEF v
<1>. QED  BY <1>13, <1>14 DEF CopiedAs, CopyEnd, CopySegs, z, end, segs, kept

\* Parts t1 .. t2 of a base with the same scheme are appended: path and query
\* after the scheme, when the path is opaque; user name and so on after the
\* scheme; the host and so on after the empty host of a file URL.
MayAppend(x, src, t1, t2) ==
    /\ Appender(x) /\ x.u.segs = 0
    /\ src \in Url /\ Complete(src)
    /\ \/ /\ t1 = PATH /\ t2 = QUERY /\ HasOpaquePath(src) /\ src.inf = x.u.inf
          /\ x.last = SCHEME /\ IsNull(x.u, HOST)
       \/ /\ ~HasOpaquePath(src) /\ ~HasOpaquePath(x.u)
          /\ t1 = USERNAME /\ t2 \in {PORT, PATH, QUERY} /\ x.last = SCHEME
       \/ /\ ~HasOpaquePath(src) /\ ~HasOpaquePath(x.u)
          /\ t1 = HOST /\ t2 \in {HOST, PATH, QUERY}
          /\ x.last = HOST /\ IsEmpty(x.u, HOST)

AppendedParts(x, y, src, t2) ==
    /\ Appender(y) /\ y.save = x.save /\ y.last =< t2
    /\ ~HasOpaquePath(src) => ~HasOpaquePath(y.u)
    /\ x.save /\ t2 >= PATH => PathWritten(y)
    /\ y.u.segs > 0 => y.last >= PATH

\* The part that the copy starts with, and the last one, which is copied if
\* any is.
LEMMA PartsToCopy ==
    ASSUME NEW x, NEW src, NEW t1, NEW t2, MayAppend(x, src, t1, t2),
           NEW lb \in Part, CompleteUpTo(src, lb)
    PROVE  LET first == FirstToCopy(src, t1)
               set == {t \in first .. t2 : src.ends[t] # 0}
           IN /\ t1 \in Part /\ t2 \in Part /\ HOST =< t2
              /\ MayCopy(x.u, x.last, first) /\ x.last =< t2
              /\ IsNull(src, HOST) /\ t1 =< HOST => first > HOST
              /\ t1 > HOST => first = PATH
              /\ set = {} => t2 < PATH /\ (IsNull(src, HOST) \/ t1 > HOST)
              /\ \A t \in set : t \in Part /\ first =< t /\ t =< lb /\ t =< t2
              /\ \A t \in set : (\A s \in set : s =< t) =>
                    /\ IsNull(src, HOST) /\ t2 >= PATH => t >= PATH
                    /\ ~IsNull(src, HOST) => t >= HOST
<1>. DEFINE first == FirstToCopy(src, t1)
            set == {t \in first .. t2 : src.ends[t] # 0}
<1>1. /\ \A t \in Part : t \in Int
      /\ \A s, t \in Part : \A i \in s .. t : i \in Part
      /\ lb \in Int
  BY PartInt
<1>2. /\ Ordered(src, lb) /\ lb >= HOST
      /\ IsNull(src, HOST) => lb >= PATH
      /\ ~IsNull(src, HOST) => ~HasOpaquePath(src)
      /\ src \in Url
  BY CompleteFacts DEF CompleteUpTo, MayAppend
<1>3. /\ \A t \in Part : t =< lb => src.ends[t] > 0
      /\ \A t \in Part : t > lb => src.ends[t] = 0
      /\ \A t \in Part : src.ends[t] \in Nat
  BY <1>2, OrderedFacts, UrlType
<1>4. \A t \in Part : src.ends[t] # 0 <=> t =< lb
  BY <1>1, <1>3
<1>5. /\ t1 \in {PATH, USERNAME, HOST} /\ t2 \in {HOST, PORT, PATH, QUERY}
      /\ x.last \in {SCHEME, HOST} /\ x.last =< t2 /\ HOST =< t2
      /\ t1 = PATH => t2 = QUERY /\ IsNull(src, HOST) /\ x.last = SCHEME
      /\ t1 = USERNAME => x.last = SCHEME
      /\ t1 = HOST => x.last = HOST /\ IsEmpty(x.u, HOST)
  <2>1. /\ HOST =< QUERY /\ HOST =< PATH /\ HOST =< PORT /\ HOST =< HOST
        /\ SCHEME =< QUERY /\ SCHEME =< PORT /\ SCHEME =< PATH
        /\ PATH # USERNAME /\ PATH # HOST /\ HOST # USERNAME
    BY PartNumbers
  <2>. QED  BY <1>2, <2>1 DEF MayAppend
<1>6. /\ t1 \in Part /\ t2 \in Part /\ t1 \in Int /\ t2 \in Int
      /\ t1 > HOST => t1 = PATH
  BY <1>5, PartNumbers
<1>7. /\ t1 > HOST => first = PATH
      /\ ~(t1 > HOST) /\ IsNull(src, HOST) => first = PATH_PREFIX
      /\ ~(t1 > HOST) /\ ~IsNull(src, HOST) => first = HOST \/ (first = USERNAME /\ t1 = USERNAME)
  BY <1>6 DEF FirstToCopy
<1>8. first \in {PATH, PATH_PREFIX, HOST, USERNAME} /\ first \in Part /\ first \in Int
  <2>1. first \in {PATH, PATH_PREFIX, HOST, USERNAME}
    BY <1>7
  <2>. HIDE DEF first
  <2>. QED  BY <2>1, PartNumbers
<1>. HIDE DEF first
<1>9. \A t \in set : t \in Part /\ first =< t /\ t =< t2 /\ t =< lb
  <2>1. SUFFICES ASSUME NEW t \in set PROVE t \in Part /\ first =< t /\ t =< t2 /\ t =< lb
    OBVIOUS
  <2>2. t \in first .. t2 /\ src.ends[t] # 0
    OBVIOUS
  <2>3. t \in Part
    BY <1>1, <1>6, <1>8, <2>2
  <2>. QED  BY <1>4, <1>6, <1>8, <2>2, <2>3
<1>10. \A t \in Part : first =< t /\ t =< t2 /\ t =< lb => t \in set
  BY <1>1, <1>4, <1>6, <1>8
<1>11. ASSUME IsNull(src, HOST), t2 >= PATH PROVE PATH \in set
  <2>1. PATH \in Part /\ first =< PATH
    BY <1>7, <1>11, PartNumbers
  <2>. QED  BY <1>2, <1>6, <1>10, <1>11, <2>1, PartNumbers
<1>12. ASSUME ~IsNull(src, HOST) PROVE HOST \in set /\ ~(t1 > HOST)
  <2>1. ~(t1 > HOST)
    BY <1>5, <1>6, <1>12
  <2>2. HOST \in Part /\ first =< HOST
    BY <1>7, <1>12, <2>1, PartNumbers
  <2>. QED  BY <1>2, <1>5, <1>10, <2>1, <2>2, PartNumbers
<1>13. MayCopy(x.u, x.last, first)
  <2>1. first \in {USERNAME, HOST, PATH_PREFIX, PATH} /\ x.last \in {SCHEME, HOST}
    BY <1>5, <1>8
  <2>2. CASE x.last = SCHEME
    <3>1. x.last < first
      BY <1>8, <2>2, PartNumbers
    <3>. QED  BY <2>1, <3>1 DEF MayCopy
  <2>3. CASE x.last = HOST
    <3>1. t1 = HOST /\ IsEmpty(x.u, HOST)
      BY <1>5, <2>3, PartNumbers
    <3>2. first # USERNAME
      BY <1>7, <1>8, <3>1, PartNumbers
    <3>3. first = HOST \/ x.last < first
      BY <1>8, <2>3, <3>2, PartNumbers
    <3>. QED  BY <2>1, <2>3, <3>1, <3>3 DEF MayCopy
  <2>. QED  BY <1>5, <2>2, <2>3
<1>14. IsNull(src, HOST) /\ t1 =< HOST => first > HOST
  <2>1. t1 =< HOST => ~(t1 > HOST)
    BY <1>6, PartNumbers
  <2>2. PATH_PREFIX > HOST
    BY PartNumbers
  <2>. QED  BY <1>7, <2>1, <2>2
<1>15. set = {} => t2 < PATH /\ (IsNull(src, HOST) \/ t1 > HOST)
  <2>1. ~(t2 >= PATH) => t2 < PATH
    BY <1>6, PartNumbers
  <2>. QED  BY <1>11, <1>12, <2>1
<1>16. \A t \in set : (\A s \in set : s =< t) =>
            /\ IsNull(src, HOST) /\ t2 >= PATH => t >= PATH
            /\ ~IsNull(src, HOST) => t >= HOST
  <2>1. \A t \in Part : (PATH =< t => t >= PATH) /\ (HOST =< t => t >= HOST)
    BY <1>1, PartNumbers
  <2>. HIDE DEF set
  <2>. QED  BY <1>9, <1>11, <1>12, <2>1
<1>. QED  BY <1>5, <1>6, <1>7, <1>9, <1>13, <1>14, <1>15, <1>16 DEF first

LEMMA AppendPartsSound ==
    ASSUME NEW x, NEW src, NEW t1, NEW t2, MayAppend(x, src, t1, t2), NEW op_
    PROVE  AppendedParts(x, AppendParts(x, src, t1, t2, op_), src, t2)
<1>. DEFINE first == FirstToCopy(src, t1)
            set == {t \in first .. t2 : src.ends[t] # 0}
            u == CopyFlags(x.u, src, t1, t2)
            y == [x EXCEPT !.u = u]
            z == AppendParts(x, src, t1, t2, op_)
<1>1. /\ x \in Serializer /\ x.u \in Url /\ x.last \in Part /\ x.inBuf = FALSE
      /\ x.setter = FALSE /\ x.sane = TRUE /\ x.save \in BOOLEAN
      /\ Ordered(x.u, x.last) /\ HostAgrees(x.u, x.last) /\ ~IsValid(x.u)
      /\ x.u.segs = 0 /\ src \in Url
  BY AppenderFacts DEF MayAppend
<1>2. PICK lb \in Part : CompleteUpTo(src, lb)
  BY DEF MayAppend, Complete
<1>3. Ordered(src, lb) /\ HostAgrees(src, lb) /\ (~IsNull(src, HOST) => ~HasOpaquePath(src))
  BY <1>2, CompleteFacts DEF CompleteUpTo
<1>4. /\ t1 \in Part /\ t2 \in Part /\ HOST =< t2
      /\ MayCopy(x.u, x.last, first) /\ x.last =< t2
      /\ IsNull(src, HOST) /\ t1 =< HOST => first > HOST
      /\ t1 > HOST => first = PATH
      /\ set = {} => t2 < PATH /\ (IsNull(src, HOST) \/ t1 > HOST)
      /\ \A t \in set : t \in Part /\ first =< t /\ t =< lb /\ t =< t2
      /\ \A t \in set : (\A s \in set : s =< t) =>
            /\ IsNull(src, HOST) /\ t2 >= PATH => t >= PATH
            /\ ~IsNull(src, HOST) => t >= HOST
  BY <1>2, PartsToCopy
<1>. HIDE DEF first, set
<1>5. FlagsCopied(x.u, u, src, t1, t2)
  BY <1>1, <1>4, CopyFlagsSound
<1>. HIDE DEF u
<1>6. /\ u \in Url /\ u.segs = 0 /\ ~IsValid(u) /\ u.inf = x.u.inf
      /\ u.norm = x.u.norm /\ u.ends = x.u.ends
      /\ HasOpaquePath(u) => HasOpaquePath(x.u) \/ HasOpaquePath(src)
      /\ t1 =< HOST => (IsNull(u, HOST) <=> IsNull(src, HOST))
      /\ t1 > HOST => (IsNull(u, HOST) <=> IsNull(x.u, HOST))
  <2>1. t1 > HOST => ~(t1 =< HOST)
    BY <1>4, PartInt, PartNumbers
  <2>. QED  BY <1>1, <1>5, <2>1 DEF FlagsCopied, SameText
<1>7. Ordered(u, x.last)
  BY <1>1, <1>5, SameTextOrdered DEF FlagsCopied
<1>8. IsEmpty(u, HOST) <=> IsEmpty(x.u, HOST)
  BY <1>6 DEF IsEmpty, PartPos
<1>9. /\ y \in Serializer /\ y.u = u /\ y.setter = FALSE /\ y.inBuf = FALSE /\ y.sane = TRUE
      /\ y.save = x.save /\ y.last = x.last
  BY <1>1, <1>6 DEF Serializer
<1>. HIDE DEF y
<1>10. \/ /\ t1 > HOST /\ t2 >= PATH /\ HasOpaquePath(src) /\ src.inf = x.u.inf
          /\ x.last = SCHEME /\ IsNull(x.u, HOST) /\ t1 = PATH
       \/ /\ ~HasOpaquePath(src) /\ ~HasOpaquePath(x.u) /\ t1 =< HOST
          /\ x.last = SCHEME \/ IsEmpty(x.u, HOST)
  <2>1. PATH > HOST /\ QUERY >= PATH /\ USERNAME =< HOST /\ HOST =< HOST
    BY PartNumbers
  <2>. QED  BY <2>1 DEF MayAppend
<1>11. CASE ~x.save
  <2>1. z = x
    BY <1>11 DEF AppendParts
  <2>2. x.u.segs > 0 => x.last >= PATH
    BY <1>1
  <2>3. ~HasOpaquePath(src) => ~HasOpaquePath(x.u)
    BY <1>10
  <2>4. Appender(x)
    BY DEF MayAppend
  <2>. HIDE DEF z
  <2>. QED  BY <1>4, <1>11, <2>1, <2>2, <2>3, <2>4 DEF AppendedParts, z
<1>12. CASE x.save /\ set = {}
  <2>1. z = y
    BY <1>12 DEF AppendParts, set, first, y, u
  <2>2. t1 =< HOST /\ IsNull(src, HOST) /\ IsNull(u, HOST) /\ ~HasOpaquePath(u)
        /\ ~HasOpaquePath(src) /\ t2 < PATH
    <3>1. ~(t1 > HOST /\ t1 =< HOST)
      BY <1>4, PartInt, PartNumbers
    <3>2. ~(t2 < PATH /\ t2 >= PATH)
      BY <1>4, PartInt, PartNumbers
    <3>. QED  BY <1>4, <1>6, <1>10, <1>12, <3>1, <3>2
  <2>3. IsEmpty(u, HOST)
    <3>1. CASE IsEmpty(x.u, HOST)
      BY <1>8, <3>1
    <3>2. CASE x.last = SCHEME
      <4>1. u.ends[HOST] = 0 /\ u.ends[HOST_START] \in Nat
        <5>1. HOST > SCHEME /\ HOST \in Part /\ HOST_START \in Part
          BY PartNumbers
        <5>2. \A t \in Part : t > x.last => u.ends[t] = 0
          BY <1>1, <1>6, <1>7, OrderedFacts
        <5>3. u.ends[HOST_START] \in Nat
          BY <1>6, <5>1, UrlType
        <5>. QED  BY <3>2, <5>1, <5>2, <5>3
      <4>. QED  BY <4>1, HostIsEmpty
    <3>. QED  BY <1>10, <2>2, <3>1, <3>2
  <2>4. Sound(u, x.last)
    BY <1>7, <2>2, <2>3 DEF Sound, HostAgrees
  <2>5. Appender(y)
    BY <1>6, <1>9, <2>4 DEF Appender, Appending
  <2>6. ~(t2 >= PATH)
    BY <1>4, <2>2, PartInt, PartNumbers
  <2>7. ~(y.u.segs > 0)
    BY <1>6, <1>9
  <2>. HIDE DEF z
  <2>. QED  BY <1>4, <1>9, <2>1, <2>2, <2>5, <2>6, <2>7 DEF AppendedParts, z
<1>13. CASE x.save /\ set # {}
  <2>. DEFINE last == CHOOSE t \in set : \A s \in set : s =< t
              w == CopyParts(y, src, first, last, op_)
  <2>1. z = w
    BY <1>13 DEF AppendParts, set, first, y, u
  <2>2. last \in set /\ \A s \in set : s =< last
    <3>1. set \subseteq SCHEME .. FRAGMENT
      BY <1>4 DEF Part
    <3>2. set \subseteq Nat /\ \A t \in set : t =< 10
      BY <3>1, PartNumbers
    <3>3. \E t \in set : \A s \in set : s =< t
      <4>1. set \subseteq 0 .. 10
        BY <3>1, PartNumbers
      <4>. DEFINE S == {i \in 1 .. 11 : i - 1 \in set}
      <4>2. S # {}
        <5>1. PICK i \in set : TRUE
          BY <1>13
        <5>2. i + 1 \in 1 .. 11 /\ (i + 1) - 1 = i
          BY <4>1, <5>1
        <5>. QED  BY <5>1, <5>2
      <4>3. PICK j \in S : \A k \in S : k =< j
        <5>1. S \subseteq 1 .. 11 /\ 11 \in Nat
          OBVIOUS
        <5>. HIDE DEF S
        <5>. QED  BY <4>2, <5>1, Largest
      <4>4. j - 1 \in set /\ j \in Int
        BY <4>3
      <4>5. \A s \in set : s =< j - 1
        <5>1. SUFFICES ASSUME NEW s \in set PROVE s =< j - 1
          OBVIOUS
        <5>2. s + 1 \in S /\ s \in Int
          BY <4>1
        <5>3. s + 1 =< j
          BY <4>3, <5>2
        <5>. QED  BY <4>4, <5>2, <5>3
      <4>. QED  BY <4>4, <4>5
    <3>. QED  BY <3>3
  <2>. HIDE DEF last
  <2>3. /\ last \in Part /\ first =< last /\ last =< lb /\ last =< t2
        /\ IsNull(src, HOST) /\ t2 >= PATH => last >= PATH
        /\ ~IsNull(src, HOST) => last >= HOST
    BY <1>4, <2>2
  <2>4. Ordered(y.u, y.last) /\ MayCopy(y.u, y.last, first)
    <3>1. MayCopy(u, x.last, first)
      BY <1>4, <1>8 DEF MayCopy
    <3>. QED  BY <1>7, <1>9, <3>1
  <2>5. /\ GoesOn(y, w) /\ w.last = last /\ w.inBuf = y.inBuf
        /\ Copied(y.u, w.u, y.last, first, last)
        /\ last < PATH => w.u.segs = y.u.segs
    <3>1. PartsCopied(y, w, first, last)
      BY <1>1, <1>3, <1>9, <2>3, <2>4, CopyPartsSound DEF CopiedAs
    <3>. HIDE DEF w
    <3>. QED  BY <3>1 DEF PartsCopied
  <2>. HIDE DEF w
  <2>6. /\ Rewritten(u, w.u) /\ Ordered(w.u, last)
        /\ first > HOST /\ (x.last = SCHEME \/ IsEmpty(u, HOST)) => IsEmpty(w.u, HOST)
        /\ x.last = SCHEME /\ first = PATH => w.u.ends[PATH_PREFIX] = u.ends[SCHEME] + 1
    BY <1>9, <2>5 DEF Copied
  <2>7. w.u \in Url /\ w.u.flags = u.flags /\ w.u.inf = u.inf
    BY <2>6 DEF Rewritten
  <2>8. /\ IsNull(w.u, HOST) <=> IsNull(u, HOST)
        /\ HasOpaquePath(w.u) <=> HasOpaquePath(u)
        /\ IsValid(w.u) <=> IsValid(u)
    BY <2>7 DEF IsNull, HasOpaquePath, IsValid
  <2>9. HostAgrees(w.u, last)
    <3>1. CASE t1 > HOST
      <4>1. /\ HasOpaquePath(src) /\ x.last = SCHEME /\ IsNull(x.u, HOST) /\ first = PATH
            /\ src.inf = x.u.inf
        <5>1. ~(t1 =< HOST)
          BY <1>4, <3>1, PartInt, PartNumbers
        <5>. QED  BY <1>4, <1>10, <3>1, <5>1
      <4>2. IsNull(w.u, HOST) /\ IsEmpty(w.u, HOST)
        <5>1. PATH > HOST
          BY PartNumbers
        <5>. QED  BY <1>6, <2>6, <2>8, <3>1, <4>1, <5>1
      <4>3. ~w.u.inf.special
        <5>1. ~src.inf.special
          BY <1>3, <4>1 DEF HostAgrees
        <5>. QED  BY <1>6, <2>7, <4>1, <5>1
      <4>4. last >= PATH_PREFIX
        BY <2>3, <4>1, PartInt, PartNumbers
      <4>5. w.u.ends[PATH_PREFIX] = w.u.ends[SCHEME] + 1
        BY <2>6, <4>1 DEF Rewritten
      <4>. QED  BY <4>2, <4>3, <4>4, <4>5 DEF HostAgrees
    <3>2. CASE t1 =< HOST
      <4>1. ~HasOpaquePath(src) /\ ~HasOpaquePath(x.u) /\ (x.last = SCHEME \/ IsEmpty(x.u, HOST))
        <5>1. ~(t1 > HOST)
          BY <1>4, <3>2, PartInt, PartNumbers
        <5>. QED  BY <1>10, <5>1
      <4>2. ~HasOpaquePath(w.u)
        BY <1>6, <2>8, <4>1
      <4>3. ASSUME IsNull(w.u, HOST) PROVE IsEmpty(w.u, HOST)
        <5>1. first > HOST
          BY <1>4, <1>6, <2>8, <3>2, <4>3
        <5>. QED  BY <1>8, <2>6, <4>1, <5>1
      <4>. QED  BY <4>2, <4>3 DEF HostAgrees
    <3>3. t1 > HOST \/ t1 =< HOST
      BY <1>4, PartInt, PartNumbers
    <3>. QED  BY <3>1, <3>2, <3>3
  <2>10. Appender(w)
    <3>1. w \in Serializer /\ ~w.setter /\ ~w.inBuf /\ w.sane
      BY <1>9, <2>5, Zenon DEF GoesOn
    <3>2. Appending(w)
      BY <1>6, <2>5, <2>6, <2>8, <2>9 DEF Appending, Sound
    <3>. QED  BY <3>1, <3>2 DEF Appender
  <2>11. ~HasOpaquePath(src) => ~HasOpaquePath(w.u)
    BY <1>6, <1>10, <2>8
  <2>12. ASSUME t2 >= PATH PROVE PathWritten(w)
    <3>1. CASE IsNull(src, HOST)
      <4>1. last >= PATH
        BY <2>3, <2>12, <3>1
      <4>2. last >= HOST
        BY <2>3, <4>1, PartInt, PartNumbers
      <4>. QED  BY <2>5, <4>1, <4>2 DEF PathWritten
    <3>2. CASE ~IsNull(src, HOST)
      <4>1. last >= HOST /\ ~HasOpaquePath(src)
        BY <1>3, <2>3, <3>2
      <4>2. ~IsNull(w.u, HOST)
        BY <1>6, <1>10, <2>8, <3>2, <4>1
      <4>. QED  BY <2>5, <4>1, <4>2 DEF PathWritten
    <3>. QED  BY <3>1, <3>2
  <2>13. ASSUME w.u.segs > 0 PROVE w.last >= PATH
    <3>1. ~(last < PATH)
      BY <1>6, <1>9, <2>5, <2>13
    <3>2. w.last = last /\ last \in Int /\ PATH \in Int
      BY <2>3, <2>5, PartInt, PartNumbers
    <3>. QED  BY <3>1, <3>2
  <2>14. w.save = x.save /\ w.last =< t2
    BY <1>9, <2>3, <2>5 DEF GoesOn
  <2>. HIDE DEF z
  <2>. QED  BY <2>1, <2>10, <2>11, <2>12, <2>13, <2>14 DEF AppendedParts, z
<1>. HIDE DEF z
<1>14. x.save \/ ~x.save
  OBVIOUS
<1>. QED  BY <1>11, <1>12, <1>13, <1>14 DEF z

-----------------------------------------------------------------------------
(* Hosts.                                                                  *)

LEMMA DigitsAreTexts ==
    /\ \A n \in 0 .. 9 : Digits[n + 1] \in Digit /\ <<Digits[n + 1]>> \in Text
    /\ \A c \in Digit : DigitValue(c) \in 0 .. 9
    /\ <<".">> \in Text
<1>1. ASSUME NEW n \in 0 .. 9 PROVE Digits[n + 1] \in Digit
  <2>1. n + 1 \in 1 .. 10
    OBVIOUS
  <2>. QED  BY <2>1 DEF Digit
<1>2. ASSUME NEW n \in 0 .. 9 PROVE <<Digits[n + 1]>> \in Text
  <2>1. Digits[n + 1] \in Char
    BY <1>1, CharAssumption DEF Written
  <2>. HIDE DEF Digits
  <2>. QED  BY <2>1 DEF Text
<1>3. ASSUME NEW c \in Digit PROVE DigitValue(c) \in 0 .. 9
  <2>1. PICK n \in 1 .. 10 : c = Digits[n]
    BY DEF Digit
  <2>2. n - 1 \in 0 .. 9 /\ Digits[(n - 1) + 1] = c
    BY <2>1
  <2>3. \E i \in 0 .. 9 : Digits[i + 1] = c
    BY <2>2
  <2>. QED  BY <2>3, Zenon DEF DigitValue
<1>4. <<".">> \in Text
  BY CharAssumption DEF Written, Text
<1>. QED  BY <1>1, <1>2, <1>3, <1>4

LEMMA DecimalText ==
    ASSUME NEW n \in 0 .. 255
    PROVE  DecimalOfByte(n) \in Text
<1>1. n \div 10 \in Nat /\ n \div 100 \in 0 .. 9 /\ n % 10 \in 0 .. 9
      /\ (n \div 10) % 10 \in 0 .. 9 /\ (n < 10 => n \in 0 .. 9)
      /\ (n < 100 => n \div 10 \in 0 .. 9)
  OBVIOUS
<1>. DEFINE D(k) == <<Digits[k + 1]>>
<1>2. \A k \in 0 .. 9 : D(k) \in Text
  BY DigitsAreTexts
<1>3. DecimalOfByte(n) = IF n < 10 THEN D(n)
                         ELSE IF n < 100 THEN D(n \div 10) \o D(n % 10)
                         ELSE D(n \div 100) \o D((n \div 10) % 10) \o D(n % 10)
  BY DEF DecimalOfByte
<1>. HIDE DEF D
<1>4. CASE n < 10
  BY <1>1, <1>2, <1>3, <1>4
<1>5. CASE ~(n < 10) /\ n < 100
  <2>1. D(n \div 10) \o D(n % 10) \in Text
    BY <1>1, <1>2, <1>5, ConcatText
  <2>. QED  BY <1>3, <1>5, <2>1
<1>6. CASE ~(n < 10) /\ ~(n < 100)
  <2>1. D(n \div 100) \o D((n \div 10) % 10) \in Text
    BY <1>1, <1>2, ConcatText
  <2>2. D(n \div 100) \o D((n \div 10) % 10) \o D(n % 10) \in Text
    BY <1>1, <1>2, <2>1, ConcatText
  <2>. QED  BY <1>3, <1>6, <2>2
<1>. QED  BY <1>4, <1>5, <1>6

\* The numbers of up to five digits.
LEMMA PortValueRange ==
    ASSUME NEW s \in Text, AllDigits(s), Len(s) < 6
    PROVE  PortValue(s) \in Nat /\ PortValue(s) =< 99999
<1>. DEFINE Place(i) == IF i < Len(s) THEN DigitValue(s[Len(s) - i]) ELSE 0
<1>1. \A i \in Nat : Place(i) \in 0 .. 9
  <2>1. SUFFICES ASSUME NEW i \in Nat PROVE Place(i) \in 0 .. 9
    OBVIOUS
  <2>2. CASE i < Len(s)
    <3>1. Len(s) - i \in 1 .. Len(s)
      BY <2>2 DEF Text
    <3>2. s[Len(s) - i] \in Digit
      BY <3>1 DEF AllDigits
    <3>. QED  BY <2>2, <3>2, DigitsAreTexts
  <2>3. CASE ~(i < Len(s))
    BY <2>3
  <2>. QED  BY <2>2, <2>3
<1>2. PortValue(s) = Place(0) + 10 * Place(1) + 100 * Place(2) + 1000 * Place(3)
                       + 10000 * Place(4)
  BY DEF PortValue
<1>. HIDE DEF Place
<1>3. \A i \in Nat : Place(i) \in Nat /\ Place(i) =< 9
  BY <1>1
<1>. DEFINE a == Place(0)
            b == Place(1)
            c == Place(2)
            d == Place(3)
            e == Place(4)
<1>4. /\ a \in Nat /\ b \in Nat /\ c \in Nat /\ d \in Nat /\ e \in Nat
      /\ a =< 9 /\ b =< 9 /\ c =< 9 /\ d =< 9 /\ e =< 9
  BY <1>3
<1>5. PortValue(s) = a + 10 * b + 100 * c + 1000 * d + 10000 * e
  BY <1>2
<1>. HIDE DEF a, b, c, d, e
<1>. QED  BY <1>4, <1>5

LEMMA IPv4TextText ==
    ASSUME NEW n \in Nat, n =< 99999
    PROVE  IPv4Text(n) \in Text /\ IPv4Text(n) # <<>>
<1>. DEFINE a == DecimalOfByte(n \div 16777216)
            b == DecimalOfByte((n \div 65536) % 256)
            c == DecimalOfByte((n \div 256) % 256)
            d == DecimalOfByte(n % 256)
            p == <<".">>
<1>1. /\ n \div 16777216 \in 0 .. 255 /\ (n \div 65536) % 256 \in 0 .. 255
      /\ (n \div 256) % 256 \in 0 .. 255 /\ n % 256 \in 0 .. 255
  OBVIOUS
<1>2. a \in Text /\ b \in Text /\ c \in Text /\ d \in Text /\ p \in Text
  BY <1>1, DecimalText, DigitsAreTexts
<1>3. IPv4Text(n) = a \o p \o b \o p \o c \o p \o d
  BY DEF IPv4Text
<1>. HIDE DEF a, b, c, d, p
<1>4. a \o p \in Text
  BY <1>2, ConcatText
<1>5. a \o p \o b \in Text
  BY <1>2, <1>4, ConcatText
<1>6. a \o p \o b \o p \in Text
  BY <1>2, <1>5, ConcatText
<1>7. a \o p \o b \o p \o c \in Text
  BY <1>2, <1>6, ConcatText
<1>8. a \o p \o b \o p \o c \o p \in Text
  BY <1>2, <1>7, ConcatText
<1>9. Len(p) = 1
  BY DEF p
<1>10. Len(a \o p \o b \o p \o c \o p) = Len(a \o p \o b \o p \o c) + Len(p)
  BY <1>2, <1>7, ConcatText
<1>11. Len(a \o p \o b \o p \o c \o p \o d) = Len(a \o p \o b \o p \o c \o p) + Len(d)
  BY <1>2, <1>8, ConcatText
<1>12. Len(a \o p \o b \o p \o c) \in Nat /\ Len(d) \in Nat
  BY <1>2, <1>7 DEF Text
<1>13. Len(IPv4Text(n)) > 0
  BY <1>3, <1>9, <1>10, <1>11, <1>12
<1>14. IPv4Text(n) # <<>>
  BY <1>13
<1>. QED  BY <1>2, <1>3, <1>8, <1>14, ConcatText

LEMMA ToAsciiText ==
    ASSUME NEW s \in Text
    PROVE  ToAscii(s) \in Text /\ Len(ToAscii(s)) = Len(s)
<1>1. Lower(s) \in Text /\ Len(Lower(s)) = Len(s)
  BY LowerText
<1>2. ASSUME NEW i \in 1 .. Len(s)
      PROVE  (IF s[i] = "u8" THEN "xn--u8" ELSE Lower(s)[i]) \in Char
  <2>1. Lower(s)[i] \in Char
    BY <1>1 DEF Text
  <2>. QED  BY <2>1, CharAssumption DEF Written
<1>3. Len(s) \in Nat
  BY DEF Text
<1>4. ToAscii(s) \in [1 .. Len(s) -> Char]
  BY <1>2 DEF ToAscii
<1>. QED  BY <1>3, <1>4 DEF Text

HostRecord ==
    {r \in [res : HostResult, text : Text, htype : HostType] : r.res = "ok" => r.text # <<>>}

LEMMA HostOfType ==
    ASSUME NEW s \in Text, s # <<>>, NEW isOpaque
    PROVE  HostOf(s, isOpaque) \in HostRecord
<1>1. \A err \in HostResult \ {"ok"} : HostError(err) \in HostRecord
  <2>1. <<>> \in Text
    BY DEF Text
  <2>. QED  BY <2>1 DEF HostError, HostRecord, HostType
<1>2. \A text \in Text : \A ht \in HostType :
          text # <<>> => HostFound(text, ht) \in HostRecord
  BY DEF HostFound, HostRecord, HostResult
<1>3. /\ {"ipv4_invalid", "ipv6_invalid", "ipv6_unclosed", "host_invalid_code_point",
          "domain_invalid_code_point"} \subseteq HostResult \ {"ok"}
      /\ {"Opaque", "Domain", "IPv4", "IPv6"} \subseteq HostType
  BY DEF HostResult, HostType
<1>4. Len(s) \in Nat /\ Len(s) > 0
  BY DEF Text
<1>5. \A r : IPv6Host(r) \in HostRecord
  <2>1. SUFFICES ASSUME NEW r PROVE IPv6Host(r) \in HostRecord
    OBVIOUS
  <2>. DEFINE Known == {<<":", ":">>, <<":", ":", "1">>, <<"1", ":", ":">>}
  <2>2. CASE r \in Known
    <3>1. ":" \in Char /\ "1" \in Char /\ "[" \in Char /\ "]" \in Char
      <4>1. "1" \in Digit
        <5>1. Digits[2] = "1"
          BY DEF Digits
        <5>2. 2 \in 1 .. 10
          OBVIOUS
        <5>. QED  BY <5>1, <5>2 DEF Digit
      <4>. QED  BY <4>1, CharAssumption DEF Written
    <3>2. <<"[">> \in Text /\ <<"]">> \in Text
      BY <3>1 DEF Text
    <3>3. r \in Text
      <4>1. <<":", ":">> \in Text
        BY <3>1 DEF Text
      <4>2. <<":", ":", "1">> \in Text
        BY <3>1 DEF Text
      <4>3. <<"1", ":", ":">> \in Text
        BY <3>1 DEF Text
      <4>. QED  BY <2>2, <4>1, <4>2, <4>3
    <3>4. <<"[">> \o r \in Text
      BY <3>2, <3>3, ConcatText
    <3>5. <<"[">> \o r \o <<"]">> \in Text
      BY <3>2, <3>4, ConcatText
    <3>6. IPv6Host(r) = HostFound(<<"[">> \o r \o <<"]">>, "IPv6")
      BY <2>2 DEF IPv6Host
    <3>7. <<"[">> \o r \o <<"]">> # <<>>
      <4>1. Len(<<"[">> \o r \o <<"]">>) = Len(<<"[">> \o r) + Len(<<"]">>)
        BY <3>2, <3>4, ConcatText
      <4>2. Len(<<"]">>) = 1 /\ Len(<<"[">> \o r) \in Nat
        BY <3>4 DEF Text
      <4>3. Len(<<"[">> \o r \o <<"]">>) > 0
        BY <4>1, <4>2
      <4>. QED  BY <4>3
    <3>. QED  BY <1>2, <1>3, <3>5, <3>6, <3>7
  <2>3. CASE r \notin Known
    <3>1. IPv6Host(r) = HostError("ipv6_invalid")
      BY <2>3 DEF IPv6Host
    <3>. QED  BY <1>1, <1>3, <3>1
  <2>. QED  BY <2>2, <2>3
<1>6. ASSUME NEW r \in Text PROVE IPv4Host(r) \in HostRecord
  <2>1. CASE IsDottedQuad(r)
    <3>1. PICK i \in {n \in 1 .. Len(r) : r[n] = "."} : TRUE
      BY <2>1 DEF IsDottedQuad
    <3>2. r # <<>>
      BY <3>1
    <3>. QED  BY <1>2, <1>3, <1>6, <2>1, <3>2 DEF IPv4Host
  <2>2. CASE ~IsDottedQuad(r) /\ IsNumber(r) /\ Len(r) < 6
    <3>1. PortValue(r) \in Nat /\ PortValue(r) =< 99999
      BY <1>6, <2>2, PortValueRange DEF IsNumber
    <3>2. IPv4Text(PortValue(r)) \in Text /\ IPv4Text(PortValue(r)) # <<>>
      BY <3>1, IPv4TextText
    <3>3. IPv4Host(r) = HostFound(IPv4Text(PortValue(r)), "IPv4")
      BY <2>2 DEF IPv4Host
    <3>. QED  BY <1>2, <1>3, <3>2, <3>3
  <2>3. CASE ~IsDottedQuad(r) /\ ~(IsNumber(r) /\ Len(r) < 6)
    <3>1. IPv4Host(r) = HostError("ipv4_invalid")
      BY <2>3 DEF IPv4Host
    <3>. QED  BY <1>1, <1>3, <3>1
  <2>. QED  BY <2>1, <2>2, <2>3
<1>7. CASE s[1] = "[" /\ s[Len(s)] = "]"
  BY <1>5, <1>7 DEF HostOf
<1>8. CASE s[1] = "[" /\ s[Len(s)] # "]"
  BY <1>1, <1>3, <1>8 DEF HostOf
<1>9. CASE s[1] # "[" /\ isOpaque
  <2>1. Encode(s, C0ControlSet) \in Text /\ Encode(s, C0ControlSet) # <<>>
    <3>1. Encode(s, C0ControlSet) \in Text /\ Len(Encode(s, C0ControlSet)) = Len(s)
      BY EncodeText
    <3>. QED  BY <1>4, <3>1
  <2>2. HostOf(s, isOpaque)
          = IF ContainsAny(s, ForbiddenHost) THEN HostError("host_invalid_code_point")
            ELSE HostFound(Encode(s, C0ControlSet), "Opaque")
    BY <1>9 DEF HostOf
  <2>. QED  BY <1>1, <1>2, <1>3, <2>1, <2>2
<1>10. CASE s[1] # "[" /\ ~isOpaque
  <2>1. ToAscii(s) \in Text /\ ToAscii(s) # <<>>
    <3>1. ToAscii(s) \in Text /\ Len(ToAscii(s)) = Len(s)
      BY ToAsciiText
    <3>. QED  BY <1>4, <3>1
  <2>2. WithoutLastDot(s) \in Text
    <3>1. Before(s, Len(s)) \in Text
      <4>1. Len(s) \in 1 .. Len(s) + 1
        BY <1>4
      <4>. QED  BY <4>1, BeforeText
    <3>. QED  BY <3>1 DEF WithoutLastDot
  <2>3. HostOf(s, isOpaque)
          = IF ContainsAny(s, ForbiddenDomain) THEN HostError("domain_invalid_code_point")
            ELSE IF EndsInNumber(s) THEN IPv4Host(WithoutLastDot(s))
            ELSE HostFound(ToAscii(s), "Domain")
    BY <1>10 DEF HostOf
  <2>. QED  BY <1>1, <1>2, <1>3, <1>6, <2>1, <2>2, <2>3
<1>. QED  BY <1>7, <1>8, <1>9, <1>10

LEMMA ParseHostResultType ==
    ASSUME NEW s \in Text, NEW isOpaque
    PROVE  ParseHostResult(s, isOpaque) \in HostResult
<1>1. CASE s = <<>>
  BY <1>1 DEF ParseHostResult, HostResult
<1>2. CASE s # <<>>
  <2>1. HostOf(s, isOpaque).res \in HostResult
    BY <1>2, HostOfType DEF HostRecord
  <2>. QED  BY <1>2, <2>1 DEF ParseHostResult
<1>. QED  BY <1>1, <1>2

\* A parsed host is written, if it is to be; else nothing happens.  An empty
\* host is written even when nothing is saved.
HostParsed(x, y) ==
    /\ ~HasOpaquePath(y.u) /\ y.save = x.save /\ y.u.inf = x.u.inf /\ y.u.segs = x.u.segs
    /\ Editor(x) => Editor(y)
    /\ Appender(x) => Appender(y)
    /\ y # x => ~IsNull(y.u, HOST) /\ (Appender(x) => y.last = HOST)

LEMMA ParseHostOutputSound ==
    ASSUME NEW x, ~HasOpaquePath(x.u), NEW s \in Text, NEW isOpaque,
           \/ Editor(x)
           \/ /\ Appender(x)
              /\ x.last < HOST_START \/ (x.last = HOST /\ IsEmpty(x.u, HOST))
    PROVE  LET y == ParseHostOutput(x, s, isOpaque)
           IN /\ HostParsed(x, y)
              /\ ParseHostResult(s, isOpaque) = "ok" /\ x.save =>
                    ~IsNull(y.u, HOST) /\ (Appender(x) => y.last = HOST)
<1>. DEFINE y == ParseHostOutput(x, s, isOpaque)
            host == HostOf(s, isOpaque)
<1>1. ASSUME NEW text \in Text, NEW ht \in HostType
      PROVE  LET z == PutHost(x, text, ht)
             IN HostParsed(x, z) /\ ~IsNull(z.u, HOST) /\ (Appender(x) => z.last = HOST)
  <2>. DEFINE z == PutHost(x, text, ht)
  <2>1. /\ HostPlan(x, z)
        /\ Editor(x) => Editor(z)
        /\ Appender(x) => Appender(z) /\ z.last = HOST
    BY PutHostSound
  <2>. HIDE DEF z
  <2>2. ~IsNull(z.u, HOST) /\ ~HasOpaquePath(z.u)
    BY <2>1, HostPlanFacts
  <2>. QED  BY <2>1, <2>2 DEF HostParsed, HostPlan, z
<1>2. CASE s = <<>>
  <2>1. y = PutHost(x, <<>>, "Empty") /\ <<>> \in Text /\ "Empty" \in HostType
    BY <1>2 DEF ParseHostOutput, Text, HostType
  <2>. HIDE DEF y
  <2>. QED  BY <1>1, <2>1 DEF y
<1>3. CASE s # <<>>
  <2>1. host.text \in Text /\ host.htype \in HostType
    BY <1>3, HostOfType DEF HostRecord
  <2>2. y = IF host.res = "ok" /\ x.save THEN PutHost(x, host.text, host.htype) ELSE x
    BY <1>3 DEF ParseHostOutput
  <2>3. ParseHostResult(s, isOpaque) = host.res
    BY <1>3 DEF ParseHostResult
  <2>4. HostParsed(x, x)
    BY DEF HostParsed
  <2>. HIDE DEF y, host
  <2>5. CASE host.res = "ok" /\ x.save
    BY <1>1, <2>1, <2>2, <2>5 DEF y
  <2>6. CASE ~(host.res = "ok" /\ x.save)
    <3>1. y = x
      BY <2>2, <2>6
    <3>. QED  BY <2>3, <2>4, <2>6, <3>1 DEF y
  <2>. QED  BY <2>5, <2>6
<1>. QED  BY <1>2, <1>3

-----------------------------------------------------------------------------
(* Credentials, port, query and fragment.                                  *)

LEMMA PutCredentialsSound ==
    ASSUME NEW x, Appender(x), x.last = SCHEME, ~HasOpaquePath(x.u), NEW s \in Text
    PROVE  LET y == PutCredentials(x, s)
           IN Appender(y) /\ SamePlan(x, y) /\ y.last =< PASSWORD
<1>. DEFINE colon == FindFirst(s, {":"})
            password == From(s, colon + 1)
            name == Encode(Before(s, colon), UserinfoSet)
            secret == Encode(password, UserinfoSet)
            y == PutPart(x, USERNAME, name)
            z == PutPart(y, PASSWORD, secret)
<1>1. PutCredentials(x, s) = IF colon = 1 /\ password = <<>> THEN x
                             ELSE IF password = <<>> THEN y ELSE z
  BY DEF PutCredentials
<1>2. colon \in 1 .. Len(s) + 1 /\ colon + 1 \in Nat /\ 1 =< colon + 1
  <2>1. colon \in 1 .. Len(s) + 1
    BY FindFirstRange
  <2>. HIDE DEF colon
  <2>. QED  BY <2>1
<1>3. name \in Text
  <2>1. Before(s, colon) \in Text
    BY <1>2, BeforeText
  <2>. QED  BY <2>1, EncodeText
<1>4. secret \in Text
  <2>1. password \in Text
    BY <1>2, RestText
  <2>. HIDE DEF password
  <2>. QED  BY <2>1, EncodeText
<1>. HIDE DEF colon, password, name, secret
<1>5. /\ USERNAME \in Part /\ PASSWORD \in Part /\ SCHEME < USERNAME /\ USERNAME < PASSWORD
      /\ SCHEME =< PASSWORD /\ USERNAME =< PASSWORD /\ PASSWORD =< PASSWORD
  BY PartNumbers
<1>6. SamePlan(x, x)
  BY DEF SamePlan
<1>7. Appender(y) /\ SamePlan(x, y) /\ y.last = USERNAME
  BY <1>3, <1>5, AppenderPut
<1>8. ~HasOpaquePath(y.u)
  BY <1>7 DEF SamePlan, HasOpaquePath
<1>. HIDE DEF y
<1>9. Appender(z) /\ SamePlan(y, z) /\ z.last = PASSWORD
  BY <1>4, <1>5, <1>7, <1>8, AppenderPut
<1>. HIDE DEF z
<1>10. SamePlan(x, z)
  BY <1>7, <1>9 DEF SamePlan
<1>. QED  BY <1>1, <1>5, <1>6, <1>7, <1>9, <1>10

\* Only the flag of the port may change.
PortPlan(x, y) ==
    /\ y.save = x.save /\ y.u.inf = x.u.inf /\ y.u.segs = x.u.segs
    /\ HasOpaquePath(y.u) <=> HasOpaquePath(x.u)
    /\ IsNull(y.u, HOST) <=> IsNull(x.u, HOST)

LEMMA PutPortSound ==
    ASSUME NEW x, Appender(x) \/ Editor(x), ~HasOpaquePath(x.u), NEW digits \in Text,
           x.save => ~IsNull(x.u, HOST) /\ (Appender(x) => x.last = HOST)
    PROVE  LET y == PutPort(x, digits)
           IN /\ PortPlan(x, y)
              /\ Editor(x) => Editor(y)
              /\ Appender(x) => Appender(y) /\ (x.save => y.last >= HOST /\ y.last =< PORT)
<1>. DEFINE z == PutPart(x, PORT, digits)
            y == PutPort(x, digits)
<1>0. ~(Appender(x) /\ Editor(x))
  BY DEF Appender, Editor
<1>1. HOST < PORT /\ PORT \in Part /\ HOST >= HOST /\ HOST =< PORT /\ PORT >= HOST
      /\ PORT =< PORT
  BY PartNumbers
<1>2. PortPlan(x, x)
  BY DEF PortPlan
<1>3. CASE ~x.save
  BY <1>2, <1>3 DEF PutPort
<1>4. CASE x.save /\ x.u.inf.port = PortValue(digits)
  <2>1. y = ClearPart(x, PORT)
    BY <1>4 DEF PutPort
  <2>. HIDE DEF y
  <2>2. CASE Appender(x)
    <3>1. x.setter = FALSE
      BY <2>2, AppenderFacts
    <3>2. ClearPart(x, PORT) = x
      BY <3>1 DEF ClearPart
    <3>3. y = x
      BY <2>1, <3>2
    <3>. QED  BY <1>0, <1>1, <1>2, <1>4, <2>2, <3>3 DEF y
  <2>3. CASE Editor(x)
    <3>1. PartCleared(x, y, PORT)
      BY <2>1, <2>3, ClearPartSound
    <3>2. y.save = TRUE /\ x.save = TRUE /\ Editor(y)
      BY <2>3, <3>1, EditorFacts DEF PartCleared
    <3>3. PORT # OPAQUE_PATH /\ PORT # HOST
      BY PartNumbers DEF OPAQUE_PATH
    <3>4. PortPlan(x, y)
      BY <3>1, <3>2, <3>3 DEF PortPlan, PartCleared, HasOpaquePath, IsNull
    <3>. QED  BY <1>0, <2>3, <3>2, <3>4 DEF y
  <2>. QED  BY <2>2, <2>3
<1>5. CASE x.save /\ x.u.inf.port # PortValue(digits)
  <2>1. y = WithFlag(z, PORT)
    BY <1>5 DEF PutPort, WithFlag
  <2>2. /\ SamePlan(x, z)
        /\ Editor(x) => Editor(z)
        /\ Appender(x) => Appender(z) /\ z.last = PORT
    <3>1. CASE Appender(x)
      <4>1. x.last = HOST /\ x.last < PORT /\ (HasOpaquePath(x.u) => PORT > PATH_PREFIX)
        BY <1>1, <1>5, <3>1
      <4>. QED  BY <1>0, <1>1, <3>1, <4>1, AppenderPut
    <3>2. CASE Editor(x)
      <4>1. PORT < HOST => ~IsEmpty(x.u, HOST)
        BY PartNumbers
      <4>. QED  BY <1>0, <1>1, <1>5, <3>2, <4>1, EditorPut
    <3>. QED  BY <3>1, <3>2
  <2>. HIDE DEF z, y
  <2>3. /\ Appender(z) => Appender(y)
        /\ Editor(z) => Editor(y)
        /\ y.u.inf = z.u.inf /\ y.u.segs = z.u.segs
        /\ y.u.flags = z.u.flags \cup {PORT} /\ y.last = z.last /\ y.save = z.save
    BY <2>1, <2>2, FlagSet
  <2>4. PORT # OPAQUE_PATH /\ PORT # HOST
    BY PartNumbers DEF OPAQUE_PATH
  <2>5. PortPlan(x, y)
    BY <2>2, <2>3, <2>4 DEF PortPlan, SamePlan, HasOpaquePath, IsNull
  <2>. QED  BY <1>1, <2>2, <2>3, <2>5 DEF y
<1>. QED  BY <1>3, <1>4, <1>5

\* Appending the query or the fragment keeps what stands before it.
LEMMA LastPartPut ==
    ASSUME NEW x, Appender(x) \/ Editor(x), NEW t \in {QUERY, FRAGMENT},
           Appender(x) => x.last < t /\ PathWritten(x), NEW s \in Text
    PROVE  LET y == WithFlag(PutPart(x, t, s), t)
           IN /\ y.save = x.save
              /\ Editor(x) => Editor(y)
              /\ Appender(x) => Appender(y) /\ PathWritten(y) /\ y.last = t
<1>. DEFINE z == PutPart(x, t, s)
            y == WithFlag(z, t)
<1>0. ~(Appender(x) /\ Editor(x))
  BY DEF Appender, Editor
<1>1. /\ t > PATH_PREFIX /\ t >= HOST /\ t >= PATH /\ ~(t < HOST) /\ t # PORT
      /\ t \in {USERNAME, PASSWORD, PORT, PATH, QUERY, FRAGMENT}
      /\ t \in {USERNAME, PASSWORD, PORT, QUERY, FRAGMENT}
      /\ t \in {PORT, QUERY, FRAGMENT}
  BY PartNumbers
<1>2. /\ SamePlan(x, z)
      /\ Editor(x) => Editor(z)
      /\ Appender(x) => Appender(z) /\ z.last = t
  <2>1. CASE Appender(x)
    BY <1>0, <1>1, <2>1, AppenderPut
  <2>2. CASE Editor(x)
    BY <1>0, <1>1, <2>2, EditorPut
  <2>. QED  BY <2>1, <2>2
<1>. HIDE DEF z
<1>3. /\ Appender(z) => Appender(y)
      /\ Editor(z) => Editor(y)
      /\ y.last = z.last /\ y.save = z.save
  BY <1>1, <1>2, FlagSet
<1>. HIDE DEF y
<1>4. Appender(x) => PathWritten(y)
  BY <1>1, <1>2, <1>3 DEF PathWritten
<1>. QED  BY <1>2, <1>3, <1>4 DEF SamePlan, y, z

-----------------------------------------------------------------------------
(* The blocks of url_parse.                                                *)

WorkInv == WorkShape /\ urls.sane
ParserInv == ShapeInv /\ urls.sane

-----------------------------------------------------------------------------
(* What a block finds.                                                     *)

\* url_serializer, with or without a scheme written.
Parser(x) ==
    /\ x \in Serializer /\ ~x.setter /\ ~x.inBuf /\ x.sane
    /\ Fresh(x) \/ Appending(x)

MayEnter(state, x, rest) ==
    /\ Parser(x)
    /\ state \in {"scheme_start", "scheme", "no_scheme"} => Fresh(x)
    /\ state = "scheme" => rest # <<>> /\ rest[1] \in Alpha
    /\ state \in {"special_relative_or_authority", "relative", "relative_slash"} =>
          hasBase /\ ~HasOpaquePath(base)
    /\ state = "relative" => Fresh(x) \/ SchemeWritten(x)
    /\ state = "file" => Fresh(x) \/ (SchemeWritten(x) /\ x.u.inf.file)
    /\ state \in AfterScheme \cup {"special_relative_or_authority", "relative_slash"} =>
          SchemeWritten(x)
    /\ state = "opaque_path" => Appending(x) /\ x.last = SCHEME
    /\ state \notin {"opaque_path", "query", "fragment"} => ~HasOpaquePath(x.u)
    /\ state \in {"host", "hostname"} => Appending(x) /\ x.last =< PASSWORD
    /\ state \in {"port", "path_start", "path", "path_end", "query", "fragment",
                  "file_slash", "file_host"} => Appending(x)
    /\ state = "port" /\ x.save => HostWritten(x) /\ x.last = HOST
    /\ state \in {"file_slash", "file_host"} =>
          HostWritten(x) /\ x.last = HOST /\ IsEmpty(x.u, HOST)
    /\ state = "path_start" /\ x.save => HostWritten(x) /\ x.last =< PORT
    /\ state \notin {"path", "path_end", "query", "fragment"} => x.u.segs = 0
    /\ state = "path" /\ x.save => x.last =< PATH /\ (x.u.segs > 0 => x.last = PATH)
    /\ state = "path_end" => x.save /\ x.last = PATH
    /\ state = "query" /\ x.save => PathWritten(x) /\ x.last < QUERY
    /\ state = "fragment" /\ x.save => PathWritten(x) /\ x.last < FRAGMENT

MaySet(state, x, rest) ==
    /\ Editor(x)
    /\ state \in {"scheme_start", "scheme", "host", "hostname", "port", "file_host",
                  "path_start", "path", "path_end", "query", "fragment"}
    /\ state = "scheme" => rest # <<>> /\ rest[1] \in Alpha
    /\ state \in {"host", "hostname", "file_host", "path_start", "path", "path_end"} =>
          ~HasOpaquePath(x.u)
    /\ state = "port" => ~IsNull(x.u, HOST)
    /\ state \in {"path_start", "path", "path_end"} => SegEndsInOrder(x)

MayReturn(r, x) ==
    \/ Editor(x)
    \/ Parser(x) /\ (r = "ok" /\ x.save => Appending(x) /\ PathWritten(x))

LEMMA ParsingBlock ==
    ASSUME WorkInv, pc \in ParserState, ~override
    PROVE  /\ MayEnter(pc, urls, ptr) /\ ptr \in Text
           /\ hasBase => base \in Url /\ IsValid(base) /\ Resting(base)
<1>1. ~urls.setter
  BY DEF WorkInv, WorkShape, SettingOK
<1>2. ParsingOK(urls)
  BY <1>1 DEF WorkInv, WorkShape
<1>3. urls \in Serializer /\ urls.sane /\ ptr \in Text
  BY DEF WorkInv, WorkShape, TypeOK
<1>4. Parser(urls)
  BY <1>1, <1>2, <1>3 DEF Parser, ParsingOK
<1>5. MayEnter(pc, urls, ptr)
  BY <1>2, <1>4, Zenon DEF MayEnter, ParsingOK
<1>6. hasBase => base \in Url /\ IsValid(base) /\ Resting(base)
  BY DEF WorkInv, WorkShape, TypeOK
<1>. QED  BY <1>3, <1>5, <1>6

LEMMA SettingBlock ==
    ASSUME WorkInv, pc \in ParserState, override
    PROVE  MaySet(pc, urls, ptr) /\ ptr \in Text
<1>1. urls.setter
  BY DEF WorkInv, WorkShape, ParsingOK
<1>2. SettingOK(urls)
  BY <1>1 DEF WorkInv, WorkShape
<1>3. urls \in Serializer /\ urls.sane /\ ptr \in Text
  BY DEF WorkInv, WorkShape, TypeOK
<1>4. Editor(urls)
  BY <1>1, <1>2, <1>3 DEF Editor, SettingOK
<1>. QED  BY <1>2, <1>3, <1>4, Zenon DEF MaySet, SettingOK

LEMMA GotoParsing ==
    ASSUME WorkInv, pc \in ParserState, ~override,
           NEW state \in ParserState, NEW x, NEW rest \in Text, Goto(state, x, rest),
           MayEnter(state, x, rest)
    PROVE  WorkInv'
<1>1. /\ pc' = state /\ urls' = x /\ ptr' = rest
      /\ UNCHANGED <<override, base, hasBase, res, op, arg, old, can>>
  BY DEF Goto, callVars
<1>2. x \in Serializer /\ ~x.setter /\ ~x.inBuf /\ x.sane /\ (Fresh(x) \/ Appending(x))
  BY DEF MayEnter, Parser
<1>3. state \notin {"idle", "return", "done"}
  BY DEF ParserState
<1>4. TypeOK'
  BY <1>1, <1>2 DEF WorkInv, WorkShape, TypeOK
<1>5. ParsingOK(x)'
  BY <1>1, <1>2 DEF ParsingOK, MayEnter
<1>6. Resting(base)' /\ (hasBase' => IsValid(base)')
  BY <1>1 DEF WorkInv, WorkShape
<1>. QED  BY <1>1, <1>2, <1>3, <1>4, <1>5, <1>6 DEF WorkInv, WorkShape, AtRest

LEMMA GotoSetting ==
    ASSUME WorkInv, pc \in ParserState, override,
           NEW state \in ParserState, NEW x, NEW rest \in Text, Goto(state, x, rest),
           MaySet(state, x, rest)
    PROVE  WorkInv'
<1>1. /\ pc' = state /\ urls' = x /\ ptr' = rest
      /\ UNCHANGED <<override, base, hasBase, res, op, arg, old, can>>
  BY DEF Goto, callVars
<1>2. x \in Serializer /\ x.setter /\ x.sane /\ x.save /\ IsValid(x.u) /\ Complete(x.u)
  BY DEF MaySet, Editor
<1>3. state \notin {"idle", "return", "done"}
  BY DEF ParserState
<1>4. TypeOK'
  BY <1>1, <1>2 DEF WorkInv, WorkShape, TypeOK
<1>5. SettingOK(x)'
  BY <1>1, <1>2, Zenon DEF SettingOK, MaySet
<1>6. Resting(base)' /\ (hasBase' => IsValid(base)')
  BY <1>1 DEF WorkInv, WorkShape
<1>. QED  BY <1>1, <1>2, <1>3, <1>4, <1>5, <1>6 DEF WorkInv, WorkShape, AtRest

LEMMA ReturnStep ==
    ASSUME WorkInv, pc \in ParserState,
           NEW r \in Result, NEW x, Return(r, x), MayReturn(r, x)
    PROVE  WorkInv'
<1>1. /\ pc' = "return" /\ urls' = x /\ res' = r
      /\ UNCHANGED <<ptr, override, base, hasBase, op, arg, old, can>>
  BY DEF Return, callVars, parserVars
<1>2. x \in Serializer /\ x.sane /\ ReturnOK(x)'
  <2>1. CASE Editor(x)
    BY <2>1 DEF Editor, ReturnOK
  <2>2. CASE Parser(x) /\ (r = "ok" /\ x.save => Appending(x) /\ PathWritten(x))
    BY <1>1, <2>2 DEF Parser, ReturnOK
  <2>. QED  BY <2>1, <2>2 DEF MayReturn
<1>3. "return" \notin ParserState \cup {"idle", "done"}
  BY DEF ParserState
<1>4. TypeOK'
  BY <1>1, <1>2 DEF WorkInv, WorkShape, TypeOK
<1>. QED  BY <1>1, <1>2, <1>3, <1>4 DEF WorkInv, WorkShape, AtRest

-----------------------------------------------------------------------------
(* The base url and the scheme.                                            *)

LEMMA SchemeInfoFacts ==
    ASSUME NEW str
    PROVE  /\ GetSchemeInfo(str).file => GetSchemeInfo(str).special
           /\ GetSchemeInfo(str).port >= 0 => GetSchemeInfo(str).special
           /\ GetSchemeInfo(<<"file">>).file
  BY DEF GetSchemeInfo, Info, NoInfo

LEMMA InfoOfOrdered ==
    ASSUME NEW u, NEW l, Ordered(u, l)
    PROVE  u.inf.file => u.inf.special
BY SchemeInfoFacts DEF Ordered

\* What url_parse relies on of its base.
UsableBase(b) ==
    /\ b \in Url /\ Complete(b)
    /\ View(b, SCHEME) \in Text /\ View(b, SCHEME) # <<>>
    /\ b.inf = GetSchemeInfo(View(b, SCHEME))
    /\ b.inf.special => ~HasOpaquePath(b)
    /\ b.inf.file => b.inf.special

LEMMA BaseIsUsable ==
    ASSUME NEW b \in Url, IsValid(b), Resting(b)
    PROVE  UsableBase(b)
<1>1. Complete(b)
  <2>1. b # EmptyUrl
    <3>1. VALID \notin InitialFlags
      BY PartNumbers DEF VALID, InitialFlags
    <3>. QED  BY <3>1 DEF IsValid, EmptyUrl
  <2>. QED  BY <2>1 DEF Resting
<1>2. PICK l \in Part : CompleteUpTo(b, l)
  BY <1>1 DEF Complete
<1>3. Ordered(b, l) /\ HostAgrees(b, l)
  BY <1>2, CompleteFacts
<1>4. b.inf = GetSchemeInfo(View(b, SCHEME))
  BY <1>3 DEF Ordered
<1>5. View(b, SCHEME) \in Text /\ View(b, SCHEME) # <<>>
  <2>1. /\ b.ends[SCHEME] \in Nat /\ b.ends[SCHEME] > 0 /\ b.ends[SCHEME] + 1 =< Len(b.norm)
        /\ b.norm \in Text /\ Len(b.norm) \in Nat
    BY <1>3, OrderedFacts, UrlType
  <2>2. /\ SubSeq(b.norm, 1, b.ends[SCHEME]) \in Text
        /\ Len(SubSeq(b.norm, 1, b.ends[SCHEME])) = b.ends[SCHEME]
    BY <2>1, PrefixText
  <2>3. SubSeq(b.norm, 1, b.ends[SCHEME]) # <<>>
    BY <2>1, <2>2
  <2>. QED  BY <2>2, <2>3, SchemeView
<1>6. b.inf.special => ~HasOpaquePath(b)
  BY <1>3 DEF HostAgrees
<1>. QED  BY <1>1, <1>3, <1>4, <1>5, <1>6, InfoOfOrdered DEF UsableBase

\* set_scheme(base): scheme_inf_ is that of the base, as of any scheme.
LEMMA BaseSchemeSound ==
    ASSUME UsableBase(base), Blank(urls)
    PROVE  /\ Appender(BaseScheme) /\ SchemeWritten(BaseScheme)
           /\ BaseScheme.save = urls.save /\ BaseScheme.u.segs = 0
           /\ BaseScheme.u.flags = urls.u.flags /\ BaseScheme.u.inf = base.inf
<1>. DEFINE y == AppendScheme(urls, View(base, SCHEME))
<1>1. /\ Appender(y) /\ SchemeWritten(y) /\ y.save = urls.save
      /\ y.u.segs = 0 /\ y.u.flags = urls.u.flags /\ y.u.inf = base.inf
  BY AppendSchemeSound DEF UsableBase
<1>. HIDE DEF y
<1>2. y \in Serializer /\ y.u \in Url
  BY <1>1, AppenderFacts
<1>3. [y.u EXCEPT !.inf = base.inf] = y.u
  BY <1>1, <1>2 DEF Url
<1>4. [y EXCEPT !.u = y.u] = y
  BY <1>2 DEF Serializer
<1>5. BaseScheme = y
  BY <1>3, <1>4 DEF BaseScheme, y
<1>. QED  BY <1>1, <1>5

LEMMA InputSchemeText ==
    ASSUME ptr \in Text, ptr # <<>>, ptr[1] \in Alpha
    PROVE  /\ InputScheme \in Text /\ InputScheme # <<>>
           /\ EndOfScheme \in Nat /\ 1 =< EndOfScheme
           /\ From(ptr, EndOfScheme + 1) \in Text
<1>1. /\ EndOfScheme \in 1 .. Len(ptr) + 1
      /\ EndOfScheme =< Len(ptr) => ptr[EndOfScheme] \notin SchemeChar
  BY FindFirstNotRange DEF EndOfScheme
<1>2. Len(ptr) \in Nat /\ Len(ptr) > 0
  BY DEF Text
<1>3. EndOfScheme # 1
  BY <1>1, <1>2 DEF SchemeChar
<1>4. Before(ptr, EndOfScheme) \in Text /\ Len(Before(ptr, EndOfScheme)) = EndOfScheme - 1
  BY <1>1, BeforeText
<1>5. Lower(Before(ptr, EndOfScheme)) \in Text
      /\ Len(Lower(Before(ptr, EndOfScheme))) = EndOfScheme - 1
  BY <1>4, LowerText
<1>6. EndOfScheme \in Nat /\ EndOfScheme + 1 \in Nat /\ 1 =< EndOfScheme
      /\ 1 =< EndOfScheme + 1 /\ EndOfScheme - 1 # 0
  BY <1>1, <1>2, <1>3
<1>7. From(ptr, EndOfScheme + 1) \in Text
  BY <1>6, RestText
<1>8. Lower(Before(ptr, EndOfScheme)) # <<>>
  BY <1>5, <1>6
<1>. QED  BY <1>5, <1>6, <1>7, <1>8 DEF InputScheme

-----------------------------------------------------------------------------
(* The first blocks, as far as the authority, when a text is parsed.       *)

LEMMA ParserOf ==
    ASSUME NEW x, Appender(x)
    PROVE  Parser(x) /\ Appending(x)
BY DEF Appender, Parser

\* A block that takes a serializer with just the scheme.
LEMMA EnterAfterScheme ==
    ASSUME NEW x, Appender(x), SchemeWritten(x), x.u.segs = 0, NEW rest,
           NEW state,
           \/ state \in AfterScheme
           \/ /\ state \in {"special_relative_or_authority", "relative", "relative_slash"}
              /\ hasBase /\ ~HasOpaquePath(base)
           \/ state = "file" /\ x.u.inf.file
    PROVE  MayEnter(state, x, rest)
<1>1. Parser(x) /\ Appending(x) /\ ~HasOpaquePath(x.u)
  BY ParserOf DEF SchemeWritten
<1>. QED  BY <1>1 DEF MayEnter, AfterScheme

LEMMA EnterPath ==
    ASSUME NEW x, Appender(x), ~HasOpaquePath(x.u), NEW rest,
           x.save => x.last =< PATH /\ (x.u.segs > 0 => x.last = PATH)
    PROVE  MayEnter("path", x, rest)
<1>1. Parser(x) /\ Appending(x)
  BY ParserOf
<1>. QED  BY <1>1 DEF MayEnter, AfterScheme

LEMMA EnterLast ==
    ASSUME NEW x, Appender(x), NEW rest,
           NEW state, \/ state = "query" /\ (x.save => PathWritten(x) /\ x.last < QUERY)
                      \/ state = "fragment" /\ (x.save => PathWritten(x) /\ x.last < FRAGMENT)
    PROVE  MayEnter(state, x, rest)
<1>1. Parser(x) /\ Appending(x)
  BY ParserOf
<1>. QED  BY <1>1 DEF MayEnter, AfterScheme

LEMMA SchemeStartStep ==
    ASSUME WorkInv, SchemeStartState
    PROVE  WorkInv'
<1>1. pc = "scheme_start" /\ pc \in ParserState
  BY DEF SchemeStartState, ParserState
<1>2. "scheme_invalid_code_point" \in Result /\ "scheme" \in ParserState
      /\ "no_scheme" \in ParserState
  BY DEF Result, ParserState
<1>3. CASE ~override
  <2>1. MayEnter(pc, urls, ptr) /\ ptr \in Text
    BY <1>1, <1>3, ParsingBlock
  <2>2. MayEnter("no_scheme", urls, ptr)
    BY <1>1, <2>1 DEF MayEnter, AfterScheme
  <2>3. ptr # <<>> /\ ptr[1] \in Alpha => MayEnter("scheme", urls, ptr)
    BY <1>1, <2>1 DEF MayEnter, AfterScheme
  <2>. QED  BY <1>1, <1>2, <1>3, <2>1, <2>2, <2>3, GotoParsing DEF SchemeStartState
<1>4. CASE override
  <2>1. MaySet(pc, urls, ptr) /\ ptr \in Text
    BY <1>1, <1>4, SettingBlock
  <2>2. ptr # <<>> /\ ptr[1] \in Alpha => MaySet("scheme", urls, ptr)
    BY <1>1, <2>1 DEF MaySet
  <2>3. MayReturn("scheme_invalid_code_point", urls)
    BY <2>1 DEF MaySet, MayReturn
  <2>. QED  BY <1>1, <1>2, <1>4, <2>1, <2>2, <2>3, GotoSetting, ReturnStep
            DEF SchemeStartState
<1>. QED  BY <1>3, <1>4

LEMMA NotASchemeStep ==
    ASSUME WorkInv, NotAScheme
    PROVE  WorkInv'
<1>1. pc = "scheme" /\ pc \in ParserState
  BY DEF NotAScheme, ParserState
<1>2. "scheme_invalid_code_point" \in Result /\ "no_scheme" \in ParserState
  BY DEF Result, ParserState
<1>3. CASE ~override
  <2>1. MayEnter(pc, urls, ptr) /\ ptr \in Text
    BY <1>1, <1>3, ParsingBlock
  <2>2. MayEnter("no_scheme", urls, ptr)
    BY <1>1, <2>1 DEF MayEnter, AfterScheme
  <2>. QED  BY <1>1, <1>2, <1>3, <2>1, <2>2, GotoParsing DEF NotAScheme
<1>4. CASE override
  <2>1. MayReturn("scheme_invalid_code_point", urls)
    BY <1>1, <1>4, SettingBlock DEF MaySet, MayReturn
  <2>. QED  BY <1>1, <1>2, <1>4, <2>1, ReturnStep DEF NotAScheme
<1>. QED  BY <1>3, <1>4

LEMMA SchemeOverrideStep ==
    ASSUME WorkInv, SchemeOverride
    PROVE  WorkInv'
<1>. DEFINE new == GetSchemeInfo(InputScheme)
            x == ReplaceScheme(urls, InputScheme)
            y == ClearPart(x, PORT)
<1>1. pc = "scheme" /\ pc \in ParserState /\ override /\ {"ok", "ignored"} \subseteq Result
  BY DEF SchemeOverride, ParserState, Result, HostResult
<1>2. Editor(urls) /\ ptr \in Text /\ ptr # <<>> /\ ptr[1] \in Alpha
  BY <1>1, SettingBlock DEF MaySet
<1>3. MayReturn("ignored", urls)
  BY <1>2 DEF MayReturn
<1>4. ASSUME ~SchemeIgnored(new)
      PROVE  MayReturn("ok", x) /\ (new.port >= 0 => MayReturn("ok", y))
  <2>1. new.special = urls.u.inf.special
    BY <1>4 DEF SchemeIgnored, special, url
  <2>2. Editor(x) /\ x.u.inf = new /\ x.u.flags = urls.u.flags
    BY <1>2, <2>1, InputSchemeText, ReplaceSchemeSound
  <2>. HIDE DEF x
  <2>3. ASSUME new.port >= 0 PROVE Editor(y)
    <3>1. x.u.inf.special
      BY <2>2, <2>3, SchemeInfoFacts
    <3>2. PICK l \in Part : CompleteUpTo(x.u, l)
      BY <2>2, EditorFacts
    <3>3. ~HasOpaquePath(x.u)
      BY <3>1, <3>2 DEF CompleteUpTo, Sound, HostAgrees
    <3>4. PartCleared(x, y, PORT)
      BY <2>2, <3>3, ClearPartSound
    <3>. QED  BY <3>4 DEF PartCleared
  <2>. QED  BY <2>2, <2>3 DEF MayReturn
<1>. HIDE DEF x, y
<1>5. \/ SchemeIgnored(new) /\ Return("ignored", urls)
      \/ ~SchemeIgnored(new) /\ Return("ok", x)
      \/ ~SchemeIgnored(new) /\ new.port >= 0 /\ Return("ok", y)
  BY DEF SchemeOverride, x, y
<1>. HIDE DEF new
<1>. QED  BY <1>1, <1>3, <1>4, <1>5, ReturnStep

\* After the parts of the base are copied.
LEMMA AfterCopy ==
    ASSUME NEW x, NEW y, NEW src, NEW t2 \in Part, AppendedParts(x, y, src, t2), NEW rest
    PROVE  /\ t2 =< PATH /\ ~HasOpaquePath(src) => MayEnter("path", y, rest)
           /\ t2 = PATH => MayEnter("query", y, rest)
           /\ t2 = QUERY => MayEnter("fragment", y, rest) /\ MayReturn("ok", y)
<1>1. /\ Appender(y) /\ y.save = x.save /\ y.last =< t2
      /\ ~HasOpaquePath(src) => ~HasOpaquePath(y.u)
      /\ x.save /\ t2 >= PATH => PathWritten(y)
      /\ y.u.segs > 0 => y.last >= PATH
  BY DEF AppendedParts
<1>2. y.last \in Part /\ y.last \in Int /\ t2 \in Int
  BY <1>1, AppenderFacts, PartInt
<1>3. /\ t2 =< PATH => y.last =< PATH /\ (y.u.segs > 0 => y.last = PATH)
      /\ t2 = PATH => y.last < QUERY
      /\ t2 = QUERY => y.last < FRAGMENT
      /\ t2 = PATH \/ t2 = QUERY => t2 >= PATH
  BY <1>1, <1>2, PartNumbers
<1>4. t2 =< PATH /\ ~HasOpaquePath(src) => MayEnter("path", y, rest)
  BY <1>1, <1>3, EnterPath
<1>5. t2 = PATH => MayEnter("query", y, rest)
  BY <1>1, <1>3, EnterLast
<1>6. t2 = QUERY => MayEnter("fragment", y, rest)
  BY <1>1, <1>3, EnterLast
<1>7. t2 = QUERY => MayReturn("ok", y)
  BY <1>1, <1>3, ParserOf DEF MayReturn
<1>. QED  BY <1>4, <1>5, <1>6, <1>7

LEMMA SchemeStateStep ==
    ASSUME WorkInv, SchemeState
    PROVE  WorkInv'
<1>. DEFINE x == AppendScheme(urls, InputScheme)
            rest == From(ptr, EndOfScheme + 1)
            y == SetHasOpaquePath(x)
            z == Expect(x, base.inf.special)
            sameScheme == hasBase /\ View(x.u, SCHEME) = View(base, SCHEME)
<1>1. pc = "scheme" /\ pc \in ParserState /\ ~override
  BY DEF SchemeState, ParserState
<1>2. /\ {"file", "special_relative_or_authority", "special_authority_slashes",
          "path_or_authority", "opaque_path"} \subseteq ParserState
      /\ {"special_authority_slashes", "path_or_authority"} \subseteq AfterScheme
  BY DEF ParserState, AfterScheme
<1>3. MayEnter(pc, urls, ptr) /\ ptr \in Text /\ (hasBase => UsableBase(base))
  BY <1>1, ParsingBlock, BaseIsUsable
<1>4. Parser(urls) /\ Fresh(urls) /\ ptr # <<>> /\ ptr[1] \in Alpha
  BY <1>1, <1>3 DEF MayEnter
<1>5. Blank(urls) /\ IsNull(urls.u, HOST)
  BY <1>4, FreshBlank DEF Parser
<1>6. InputScheme \in Text /\ InputScheme # <<>> /\ rest \in Text
  BY <1>3, <1>4, InputSchemeText
<1>7. /\ Appender(x) /\ SchemeWritten(x) /\ x.u.segs = 0 /\ x.u.flags = urls.u.flags
      /\ x.u.inf = GetSchemeInfo(InputScheme) /\ View(x.u, SCHEME) = InputScheme
  BY <1>5, <1>6, AppendSchemeSound
<1>8. \/ x.u.inf.file /\ Goto("file", x, rest)
      \/ x.u.inf.special /\ sameScheme /\ Goto("special_relative_or_authority", z, rest)
      \/ Goto("special_authority_slashes", x, rest)
      \/ rest # <<>> /\ Goto("path_or_authority", x, Tail(rest))
      \/ ~x.u.inf.special /\ Goto("opaque_path", y, rest)
  BY DEF SchemeState, x, y, z, rest, sameScheme, StartsWith
<1>9. x.u.inf.special /\ sameScheme => z = x /\ ~HasOpaquePath(base) /\ hasBase
  <2>. SUFFICES ASSUME x.u.inf.special, sameScheme
                PROVE  z = x /\ ~HasOpaquePath(base) /\ hasBase
    OBVIOUS
  <2>1. base.inf = x.u.inf /\ ~HasOpaquePath(base) /\ hasBase
    BY <1>3, <1>7 DEF UsableBase
  <2>2. x \in Serializer /\ base.inf.special
    BY <1>7, <2>1, AppenderFacts
  <2>. HIDE DEF x
  <2>3. z = x
    BY <2>2, ExpectHolds, Zenon
  <2>. QED  BY <2>1, <2>3
<1>10. ~x.u.inf.special => MayEnter("opaque_path", y, rest)
  <2>. SUFFICES ASSUME ~x.u.inf.special PROVE MayEnter("opaque_path", y, rest)
    OBVIOUS
  <2>1. x.last = SCHEME /\ IsNull(x.u, HOST)
    BY <1>5, <1>7 DEF SchemeWritten, IsNull
  <2>. HIDE DEF x
  <2>2. Appender(y) /\ y.last = SCHEME /\ y.u.segs = 0
    BY <1>7, <2>1, SetHasOpaquePathSound
  <2>. HIDE DEF y
  <2>. QED  BY <2>2, ParserOf DEF MayEnter, AfterScheme
<1>11. rest # <<>> => Tail(rest) \in Text
  BY <1>6, TailText
<1>. HIDE DEF x, y, z, rest, sameScheme
<1>12. x.u.inf.file => MayEnter("file", x, rest)
  BY <1>7, EnterAfterScheme
<1>13. \A s : MayEnter("special_authority_slashes", x, s)
              /\ MayEnter("path_or_authority", x, s)
  BY <1>2, <1>7, EnterAfterScheme
<1>14. x.u.inf.special /\ sameScheme => MayEnter("special_relative_or_authority", z, rest)
  BY <1>7, <1>9, EnterAfterScheme
<1>. QED
  BY <1>1, <1>2, <1>6, <1>8, <1>10, <1>11, <1>12, <1>13, <1>14, GotoParsing

LEMMA NoSchemeStep ==
    ASSUME WorkInv, NoSchemeState
    PROVE  WorkInv'
<1>. DEFINE y == AppendParts(BaseScheme, base, PATH, QUERY, "keep")
<1>1. pc = "no_scheme" /\ pc \in ParserState
  BY DEF NoSchemeState, ParserState
<1>2. /\ "missing_scheme_non_relative_url" \in Result
      /\ {"fragment", "file", "relative"} \subseteq ParserState
  BY DEF Result, ParserState
<1>3. ~override
  BY <1>1, SettingBlock DEF WorkInv, WorkShape, MaySet
<1>4. MayEnter(pc, urls, ptr) /\ ptr \in Text /\ (hasBase => UsableBase(base))
  BY <1>1, <1>3, ParsingBlock, BaseIsUsable
<1>5. Parser(urls) /\ Fresh(urls) /\ ~HasOpaquePath(urls.u) /\ urls.u.segs = 0
  BY <1>1, <1>4 DEF MayEnter
<1>6. MayReturn("missing_scheme_non_relative_url", urls)
  BY <1>5 DEF MayReturn
<1>7. hasBase /\ ~HasOpaquePath(base) => MayEnter("file", urls, ptr) /\ MayEnter("relative", urls, ptr)
  BY <1>5 DEF MayEnter, AfterScheme
<1>8. ASSUME hasBase, HasOpaquePath(base)
      PROVE  MayEnter("fragment", y, Tail(ptr))
  <2>1. Blank(urls) /\ IsNull(urls.u, HOST)
    BY <1>5, FreshBlank DEF Parser
  <2>2. UsableBase(base)
    BY <1>4, <1>8
  <2>3. /\ Appender(BaseScheme) /\ SchemeWritten(BaseScheme) /\ BaseScheme.u.segs = 0
        /\ BaseScheme.u.flags = urls.u.flags /\ BaseScheme.u.inf = base.inf
    BY <2>1, <2>2, BaseSchemeSound
  <2>4. BaseScheme.last = SCHEME /\ IsNull(BaseScheme.u, HOST)
    BY <2>1, <2>3 DEF SchemeWritten, IsNull
  <2>5. MayAppend(BaseScheme, base, PATH, QUERY)
    BY <1>8, <2>2, <2>3, <2>4 DEF MayAppend, UsableBase
  <2>6. AppendedParts(BaseScheme, y, base, QUERY)
    BY <2>5, AppendPartsSound
  <2>. HIDE DEF y
  <2>. QED  BY <2>6, AfterCopy, PartNumbers
<1>9. \/ hasBase /\ HasOpaquePath(base) /\ ptr # <<>> /\ Goto("fragment", y, Tail(ptr))
      \/ hasBase /\ ~HasOpaquePath(base) /\ Goto("file", urls, ptr)
      \/ hasBase /\ ~HasOpaquePath(base) /\ Goto("relative", urls, ptr)
      \/ Return("missing_scheme_non_relative_url", urls)
  BY DEF NoSchemeState, y, StartsWith
<1>10. ptr # <<>> => Tail(ptr) \in Text
  BY <1>4, TailText
<1>. HIDE DEF y
<1>. QED
  BY <1>1, <1>2, <1>3, <1>4, <1>6, <1>7, <1>8, <1>9, <1>10, GotoParsing, ReturnStep

LEMMA NotSetting ==
    ASSUME WorkInv,
           pc \in {"no_scheme", "special_relative_or_authority", "path_or_authority",
                   "relative", "relative_slash", "special_authority_slashes",
                   "special_authority_ignore_slashes", "authority", "file", "file_slash",
                   "opaque_path"}
    PROVE  pc \in ParserState /\ ~override
<1>1. pc \in ParserState
  BY DEF ParserState
<1>2. ASSUME override PROVE FALSE
  <2>1. MaySet(pc, urls, ptr)
    BY <1>1, <1>2, SettingBlock
  <2>. QED  BY <2>1 DEF MaySet
<1>. QED  BY <1>1, <1>2

LEMMA FromIsText ==
    ASSUME NEW s \in Text, NEW set
    PROVE  /\ From(s, 3) \in Text /\ From(s, FindFirstNot(s, set)) \in Text
           /\ From(s, FindFirst(s, set)) \in Text /\ From(s, FindFirst(s, set) + 1) \in Text
           /\ Before(s, FindFirst(s, set)) \in Text /\ Before(s, FindFirstNot(s, set)) \in Text
           /\ Before(s, FindLast(s, set)) \in Text /\ From(s, FindLast(s, set) + 1) \in Text
<1>. DEFINE i == FindFirst(s, set)
            j == FindFirstNot(s, set)
            k == FindLast(s, set)
<1>1. /\ i \in 1 .. Len(s) + 1 /\ j \in 1 .. Len(s) + 1 /\ k \in 1 .. Len(s) + 1
  BY FindFirstRange, FindFirstNotRange, FindLastRange
<1>. HIDE DEF i, j, k
<1>2. Len(s) \in Nat
  BY DEF Text
<1>3. /\ i \in Nat /\ 1 =< i /\ j \in Nat /\ 1 =< j /\ k \in Nat /\ 1 =< k
      /\ i + 1 \in Nat /\ 1 =< i + 1 /\ k + 1 \in Nat /\ 1 =< k + 1
  BY <1>1, <1>2
<1>4. From(s, 3) \in Text
  BY RestText
<1>5. From(s, j) \in Text /\ From(s, i) \in Text /\ From(s, i + 1) \in Text
      /\ From(s, k + 1) \in Text
  BY <1>3, RestText
<1>6. Before(s, i) \in Text /\ Before(s, j) \in Text /\ Before(s, k) \in Text
  BY <1>1, BeforeText
<1>. QED  BY <1>4, <1>5, <1>6 DEF i, j, k

-----------------------------------------------------------------------------
(* Relative references, and the slashes before the authority.              *)

\* What a block finds that stands after the scheme.
LEMMA AfterSchemeBlock ==
    ASSUME WorkInv,
           pc \in AfterScheme \cup {"special_relative_or_authority", "relative_slash"}
    PROVE  /\ pc \in ParserState /\ ~override /\ ptr \in Text
           /\ Appender(urls) /\ SchemeWritten(urls) /\ urls.u.segs = 0
           /\ pc \in {"special_relative_or_authority", "relative_slash"} =>
                 hasBase /\ ~HasOpaquePath(base)
           /\ hasBase => UsableBase(base)
<1>1. pc \in ParserState /\ ~override
  BY NotSetting DEF AfterScheme
<1>2. MayEnter(pc, urls, ptr) /\ ptr \in Text /\ (hasBase => UsableBase(base))
  BY <1>1, ParsingBlock, BaseIsUsable
<1>3. SchemeWritten(urls) /\ Parser(urls) /\ urls.u.segs = 0
  BY <1>2 DEF MayEnter, AfterScheme
<1>4. Appender(urls)
  BY <1>3 DEF Appender, Parser, SchemeWritten
<1>5. pc \in {"special_relative_or_authority", "relative_slash"} =>
         hasBase /\ ~HasOpaquePath(base)
  BY <1>2 DEF MayEnter
<1>. QED  BY <1>1, <1>2, <1>3, <1>4, <1>5

LEMMA SpecialRelativeOrAuthorityStep ==
    ASSUME WorkInv, SpecialRelativeOrAuthorityState
    PROVE  WorkInv'
<1>1. pc = "special_relative_or_authority"
  BY DEF SpecialRelativeOrAuthorityState
<1>2. /\ pc \in ParserState /\ ~override /\ ptr \in Text
      /\ Appender(urls) /\ SchemeWritten(urls) /\ urls.u.segs = 0
      /\ hasBase /\ ~HasOpaquePath(base)
  BY <1>1, AfterSchemeBlock
<1>3. /\ MayEnter("special_authority_ignore_slashes", urls, From(ptr, 3))
      /\ MayEnter("relative", urls, ptr)
  BY <1>2, EnterAfterScheme DEF AfterScheme
<1>4. From(ptr, 3) \in Text
  BY <1>2, FromIsText
<1>5. {"special_authority_ignore_slashes", "relative"} \subseteq ParserState
  BY DEF ParserState
<1>. QED
  BY <1>2, <1>3, <1>4, <1>5, GotoParsing DEF SpecialRelativeOrAuthorityState

LEMMA PathOrAuthorityStep ==
    ASSUME WorkInv, PathOrAuthorityState
    PROVE  WorkInv'
<1>1. pc = "path_or_authority" /\ "path_or_authority" \in AfterScheme
  BY DEF PathOrAuthorityState, AfterScheme
<1>2. /\ pc \in ParserState /\ ~override /\ ptr \in Text
      /\ Appender(urls) /\ SchemeWritten(urls) /\ urls.u.segs = 0
  BY <1>1, AfterSchemeBlock
<1>3. MayEnter("authority", urls, Tail(ptr))
  BY <1>2, EnterAfterScheme DEF AfterScheme
<1>4. MayEnter("path", urls, ptr)
  BY <1>2, EnterPath, PartNumbers DEF SchemeWritten
<1>5. ptr # <<>> => Tail(ptr) \in Text
  BY <1>2, TailText
<1>6. {"authority", "path"} \subseteq ParserState
  BY DEF ParserState
<1>. QED
  BY <1>2, <1>3, <1>4, <1>5, <1>6, GotoParsing DEF PathOrAuthorityState, StartsWith

LEMMA SpecialAuthoritySlashesStep ==
    ASSUME WorkInv, SpecialAuthoritySlashesState
    PROVE  WorkInv'
<1>1. pc = "special_authority_slashes" /\ "special_authority_slashes" \in AfterScheme
  BY DEF SpecialAuthoritySlashesState, AfterScheme
<1>2. /\ pc \in ParserState /\ ~override /\ ptr \in Text
      /\ Appender(urls) /\ SchemeWritten(urls) /\ urls.u.segs = 0
  BY <1>1, AfterSchemeBlock
<1>3. \A s : MayEnter("special_authority_ignore_slashes", urls, s)
  BY <1>2, EnterAfterScheme DEF AfterScheme
<1>4. From(ptr, 3) \in Text /\ "special_authority_ignore_slashes" \in ParserState
  BY <1>2, FromIsText DEF ParserState
<1>. QED
  BY <1>2, <1>3, <1>4, GotoParsing DEF SpecialAuthoritySlashesState

LEMMA SpecialAuthorityIgnoreSlashesStep ==
    ASSUME WorkInv, SpecialAuthorityIgnoreSlashesState
    PROVE  WorkInv'
<1>1. /\ pc = "special_authority_ignore_slashes"
      /\ "special_authority_ignore_slashes" \in AfterScheme
  BY DEF SpecialAuthorityIgnoreSlashesState, AfterScheme
<1>2. /\ pc \in ParserState /\ ~override /\ ptr \in Text
      /\ Appender(urls) /\ SchemeWritten(urls) /\ urls.u.segs = 0
  BY <1>1, AfterSchemeBlock
<1>3. \A s : MayEnter("authority", urls, s)
  BY <1>2, EnterAfterScheme DEF AfterScheme
<1>4. From(ptr, FindFirstNot(ptr, Slash)) \in Text /\ "authority" \in ParserState
  BY <1>2, FromIsText DEF ParserState
<1>. QED
  BY <1>2, <1>3, <1>4, GotoParsing DEF SpecialAuthorityIgnoreSlashesState

LEMMA RelativeStep ==
    ASSUME WorkInv, RelativeState
    PROVE  WorkInv'
<1>. DEFINE x == BaseScheme
            all == AppendParts(x, base, USERNAME, QUERY, "keep")
            path == AppendParts(x, base, USERNAME, PATH, "keep")
            shorter == AppendParts(x, base, USERNAME, PATH, "remLast")
<1>1. pc = "relative"
  BY DEF RelativeState
<1>2. pc \in ParserState /\ ~override
  BY <1>1, NotSetting
<1>3. MayEnter(pc, urls, ptr) /\ ptr \in Text /\ (hasBase => UsableBase(base))
  BY <1>2, ParsingBlock, BaseIsUsable
<1>4. /\ Parser(urls) /\ (Fresh(urls) \/ SchemeWritten(urls)) /\ urls.u.segs = 0
      /\ hasBase /\ ~HasOpaquePath(base)
  BY <1>1, <1>3 DEF MayEnter
<1>5. Blank(urls)
  <2>1. CASE Fresh(urls)
    BY <1>4, <2>1, FreshBlank DEF Parser
  <2>2. CASE SchemeWritten(urls)
    <3>1. Appender(urls)
      BY <1>4, <2>2 DEF Parser, Appender, SchemeWritten
    <3>. QED  BY <1>4, <2>2, <3>1, SchemeBlank
  <2>. QED  BY <1>4, <2>1, <2>2
<1>6. UsableBase(base)
  BY <1>3, <1>4
<1>7. Appender(x) /\ SchemeWritten(x) /\ x.u.segs = 0
  BY <1>5, <1>6, BaseSchemeSound
<1>. HIDE DEF x
<1>8. MayAppend(x, base, USERNAME, QUERY) /\ MayAppend(x, base, USERNAME, PATH)
  BY <1>4, <1>6, <1>7 DEF MayAppend, UsableBase, SchemeWritten
<1>9. /\ AppendedParts(x, all, base, QUERY) /\ AppendedParts(x, path, base, PATH)
      /\ AppendedParts(x, shorter, base, PATH)
  BY <1>8, AppendPartsSound
<1>10. \/ Return("ok", all)
       \/ ptr # <<>> /\ Goto("relative_slash", x, Tail(ptr))
       \/ ptr # <<>> /\ Goto("query", path, Tail(ptr))
       \/ ptr # <<>> /\ Goto("fragment", all, Tail(ptr))
       \/ Goto("path", shorter, ptr)
  BY DEF RelativeState, x, all, path, shorter, StartsWith
<1>. HIDE DEF all, path, shorter
<1>11. QUERY \in Part /\ PATH \in Part /\ PATH =< PATH
  BY PartNumbers
<1>12. /\ MayReturn("ok", all) /\ MayEnter("path", shorter, ptr)
       /\ \A s : MayEnter("query", path, s) /\ MayEnter("fragment", all, s)
  BY <1>4, <1>9, <1>11, AfterCopy
<1>13. \A s : MayEnter("relative_slash", x, s)
  BY <1>4, <1>7, EnterAfterScheme
<1>14. ptr # <<>> => Tail(ptr) \in Text
  BY <1>3, TailText
<1>15. {"relative_slash", "query", "fragment", "path"} \subseteq ParserState /\ "ok" \in Result
  BY DEF ParserState, Result, HostResult
<1>. QED
  BY <1>2, <1>3, <1>10, <1>12, <1>13, <1>14, <1>15, GotoParsing, ReturnStep

LEMMA RelativeSlashStep ==
    ASSUME WorkInv, RelativeSlashState
    PROVE  WorkInv'
<1>. DEFINE y == AppendParts(urls, base, USERNAME, PORT, "keep")
<1>1. pc = "relative_slash"
  BY DEF RelativeSlashState
<1>2. /\ pc \in ParserState /\ ~override /\ ptr \in Text
      /\ Appender(urls) /\ SchemeWritten(urls) /\ urls.u.segs = 0
      /\ ~HasOpaquePath(base) /\ UsableBase(base)
  BY <1>1, AfterSchemeBlock
<1>3. MayAppend(urls, base, USERNAME, PORT)
  BY <1>2 DEF MayAppend, UsableBase, SchemeWritten
<1>4. AppendedParts(urls, y, base, PORT)
  BY <1>3, AppendPartsSound
<1>5. \/ ptr # <<>> /\ Goto("special_authority_ignore_slashes", urls, Tail(ptr))
      \/ ptr # <<>> /\ Goto("authority", urls, Tail(ptr))
      \/ Goto("path", y, ptr)
  BY DEF RelativeSlashState, y, StartsWith
<1>. HIDE DEF y
<1>6. PORT \in Part /\ PORT =< PATH
  BY PartNumbers
<1>7. MayEnter("path", y, ptr)
  BY <1>2, <1>4, <1>6, AfterCopy
<1>8. \A s : MayEnter("special_authority_ignore_slashes", urls, s)
             /\ MayEnter("authority", urls, s)
  BY <1>2, EnterAfterScheme DEF AfterScheme
<1>9. ptr # <<>> => Tail(ptr) \in Text
  BY <1>2, TailText
<1>10. {"special_authority_ignore_slashes", "authority", "path"} \subseteq ParserState
  BY DEF ParserState
<1>. QED
  BY <1>2, <1>5, <1>7, <1>8, <1>9, <1>10, GotoParsing

-----------------------------------------------------------------------------
(* Authority, host and port.                                               *)

LEMMA EnterHost ==
    ASSUME NEW x, Appender(x), ~HasOpaquePath(x.u), x.last =< PASSWORD, x.u.segs = 0, NEW rest
    PROVE  MayEnter("host", x, rest)
<1>1. Parser(x) /\ Appending(x)
  BY ParserOf
<1>. QED  BY <1>1 DEF MayEnter, AfterScheme

LEMMA AuthorityStep ==
    ASSUME WorkInv, AuthorityState
    PROVE  WorkInv'
<1>. DEFINE authority == Before(ptr, EndOfAuthority)
            at == FindLast(authority, {"@"})
            y == PutCredentials(urls, Before(authority, at))
            rest == From(ptr, at + 1)
<1>1. pc = "authority" /\ "authority" \in AfterScheme
  BY DEF AuthorityState, AfterScheme
<1>2. /\ pc \in ParserState /\ ~override /\ ptr \in Text
      /\ Appender(urls) /\ SchemeWritten(urls) /\ urls.u.segs = 0
  BY <1>1, AfterSchemeBlock
<1>3. authority \in Text
  BY <1>2, FromIsText DEF EndOfAuthority
<1>4. at \in 1 .. Len(authority) + 1 /\ Before(authority, at) \in Text
  BY <1>3, FindLastRange, BeforeText
<1>5. rest \in Text
  <2>1. Len(authority) \in Nat
    BY <1>3 DEF Text
  <2>. HIDE DEF authority, at
  <2>2. at + 1 \in Nat /\ 1 =< at + 1
    BY <1>4, <2>1
  <2>. QED  BY <1>2, <2>2, RestText
<1>6. ~HasOpaquePath(urls.u) /\ urls.last = SCHEME /\ urls.last =< PASSWORD
  BY <1>2, PartNumbers DEF SchemeWritten
<1>7. Appender(y) /\ SamePlan(urls, y) /\ y.last =< PASSWORD
  BY <1>2, <1>4, <1>6, PutCredentialsSound
<1>8. \/ Goto("host", urls, ptr)
      \/ Return("host_missing", urls)
      \/ Goto("host", y, rest)
      \/ Goto("host", urls, rest)
  BY DEF AuthorityState, y, rest, at, authority
<1>. HIDE DEF y, rest, at, authority
<1>9. ~HasOpaquePath(y.u) /\ y.u.segs = 0
  BY <1>2, <1>6, <1>7 DEF SamePlan, HasOpaquePath
<1>10. \A s : MayEnter("host", urls, s) /\ MayEnter("host", y, s)
  BY <1>2, <1>6, <1>7, <1>9, EnterHost
<1>11. MayReturn("host_missing", urls)
  BY <1>2, ParserOf DEF MayReturn
<1>12. "host" \in ParserState /\ "host_missing" \in Result
  BY DEF ParserState, Result, HostResult
<1>. QED
  BY <1>2, <1>5, <1>8, <1>10, <1>11, <1>12, GotoParsing, ReturnStep

LEMMA EndOfHostRange ==
    ASSUME NEW s \in Text
    PROVE  EndOfHost(s) \in 1 .. Len(s) + 1
<1>1. Len(s) \in Nat
  BY DEF Text
<1>2. CASE PortColons(s) = {}
  BY <1>1, <1>2 DEF EndOfHost
<1>3. CASE PortColons(s) # {}
  <2>1. PortColons(s) \subseteq 1 .. Len(s)
    BY DEF PortColons
  <2>2. PortColons(s) \subseteq Nat
    BY <1>1, <2>1
  <2>3. \E i \in PortColons(s) : \A j \in PortColons(s) : i =< j
    BY <1>3, <2>2, Smallest
  <2>4. EndOfHost(s) \in PortColons(s)
    BY <1>3, <2>3 DEF EndOfHost
  <2>. QED  BY <1>1, <2>1, <2>4
<1>. QED  BY <1>2, <1>3

\* Host and port are written, and the path is next.
LEMMA EnterPathStart ==
    ASSUME NEW x, Appender(x), ~HasOpaquePath(x.u), x.u.segs = 0, NEW rest,
           x.save => HostWritten(x) /\ x.last =< PORT
    PROVE  /\ MayEnter("path_start", x, rest)
           /\ (x.save => x.last = HOST) => MayEnter("port", x, rest)
<1>1. Parser(x) /\ Appending(x)
  BY ParserOf
<1>. QED  BY <1>1 DEF MayEnter, AfterScheme

LEMMA FileHostOverrideStep ==
    ASSUME WorkInv, FileHostOverride
    PROVE  WorkInv'
<1>1. pc \in ParserState /\ pc \in {"host", "hostname"} /\ override
      /\ "file_host" \in ParserState
  BY DEF FileHostOverride, ParserState
<1>2. MaySet(pc, urls, ptr) /\ ptr \in Text
  BY <1>1, SettingBlock
<1>3. MaySet("file_host", urls, ptr)
  BY <1>1, <1>2 DEF MaySet
<1>. QED  BY <1>1, <1>2, <1>3, GotoSetting DEF FileHostOverride

LEMMA HostStep ==
    ASSUME WorkInv, HostState
    PROVE  WorkInv'
<1>. DEFINE authority == Before(ptr, EndOfAuthority)
            end == EndOfHost(authority)
            host == Before(authority, end)
            result == ParseHostResult(host, ~special)
            x == ParseHostOutput(urls, host, ~special)
<1>1. pc \in ParserState /\ pc \in {"host", "hostname"} /\ ptr \in Text
  BY DEF HostState, ParserState, WorkInv, WorkShape, TypeOK
<1>2. authority \in Text
  BY <1>1, FromIsText DEF EndOfAuthority
<1>3. end \in 1 .. Len(authority) + 1
  BY <1>2, EndOfHostRange
<1>4. host \in Text
  BY <1>2, <1>3, BeforeText
<1>5. From(ptr, end) \in Text /\ From(ptr, end + 1) \in Text
  <2>1. Len(authority) \in Nat
    BY <1>2 DEF Text
  <2>. HIDE DEF authority, end
  <2>2. end \in Nat /\ 1 =< end /\ end + 1 \in Nat /\ 1 =< end + 1
    BY <1>3, <2>1
  <2>. QED  BY <1>1, <2>2, RestText
<1>6. result \in Result
  BY <1>4, ParseHostResultType DEF Result
<1>7. \/ Return("host_missing", urls) \/ Return("ignored", urls)
      \/ result # "ok" /\ Return(result, x)
      \/ result = "ok" /\ Goto("port", x, From(ptr, end + 1))
      \/ result = "ok" /\ override /\ Return("ok", x)
      \/ result = "ok" /\ ~override /\ Goto("path_start", x, From(ptr, end))
  BY DEF HostState, authority, end, host, result, x
<1>8. /\ {"port", "path_start"} \subseteq ParserState
      /\ {"host_missing", "ignored", "ok"} \subseteq Result
  BY DEF ParserState, Result, HostResult
<1>9. CASE ~override
  <2>1. MayEnter(pc, urls, ptr)
    BY <1>1, <1>9, ParsingBlock
  <2>2. /\ Parser(urls) /\ Appending(urls) /\ urls.last =< PASSWORD
        /\ ~HasOpaquePath(urls.u) /\ urls.u.segs = 0
    BY <1>1, <2>1 DEF MayEnter
  <2>3. Appender(urls)
    BY <2>2 DEF Appender, Parser
  <2>4. urls.last < HOST_START
    <3>1. urls.last \in Part
      BY <2>3, AppenderFacts
    <3>2. urls.last \in Int
      BY <3>1, PartInt
    <3>. QED  BY <2>2, <3>2, PartNumbers
  <2>5. /\ HostParsed(urls, x)
        /\ result = "ok" /\ urls.save =>
              ~IsNull(x.u, HOST) /\ (Appender(urls) => x.last = HOST)
    BY <1>4, <2>2, <2>3, <2>4, ParseHostOutputSound
  <2>. HIDE DEF x, result, end
  <2>6. /\ Appender(x) /\ ~HasOpaquePath(x.u) /\ x.u.segs = 0
        /\ result = "ok" /\ x.save => ~IsNull(x.u, HOST) /\ x.last = HOST
    BY <2>2, <2>3, <2>5 DEF HostParsed
  <2>7. result = "ok" /\ x.save => HostWritten(x) /\ x.last =< PORT
    BY <2>6, PartNumbers DEF HostWritten
  <2>8. result = "ok" => \A s : MayEnter("port", x, s) /\ MayEnter("path_start", x, s)
    BY <2>6, <2>7, EnterPathStart
  <2>9. /\ MayReturn("host_missing", urls) /\ MayReturn("ignored", urls)
        /\ result # "ok" => MayReturn(result, x)
    BY <2>2, <2>6, ParserOf DEF MayReturn
  <2>. QED
    BY <1>1, <1>5, <1>6, <1>7, <1>8, <1>9, <2>8, <2>9, GotoParsing, ReturnStep
<1>10. CASE override
  <2>1. MaySet(pc, urls, ptr)
    BY <1>1, <1>10, SettingBlock
  <2>2. Editor(urls) /\ ~HasOpaquePath(urls.u)
    BY <1>1, <2>1 DEF MaySet
  <2>3. /\ HostParsed(urls, x)
        /\ result = "ok" /\ urls.save => ~IsNull(x.u, HOST)
    BY <1>4, <2>2, ParseHostOutputSound
  <2>. HIDE DEF x, result, end
  <2>4. Editor(x) /\ (result = "ok" => ~IsNull(x.u, HOST))
    BY <2>2, <2>3, EditorFacts DEF HostParsed
  <2>5. result = "ok" => \A s : MaySet("port", x, s)
    BY <2>4 DEF MaySet
  <2>6. /\ MayReturn("host_missing", urls) /\ MayReturn("ignored", urls)
        /\ MayReturn(result, x) /\ MayReturn("ok", x)
    BY <2>2, <2>4 DEF MayReturn
  <2>. QED
    BY <1>1, <1>5, <1>6, <1>7, <1>8, <1>10, <2>5, <2>6, GotoSetting, ReturnStep
<1>. QED  BY <1>9, <1>10

LEMMA PortDigitsText ==
    ASSUME NEW s \in Text
    PROVE  PortDigits(s) \in Text
<1>. DEFINE nonZero == FindFirstNot(s, {"0"})
            i == IF nonZero < Len(s) THEN nonZero ELSE Len(s)
<1>1. nonZero \in 1 .. Len(s) + 1 /\ Len(s) \in Nat
  BY FindFirstNotRange DEF Text
<1>. HIDE DEF nonZero
<1>2. i \in Nat /\ (i >= 1 \/ i = 0) /\ (i = 0 => Len(s) = 0)
  BY <1>1
<1>3. PortDigits(s) = From(s, i)
  BY DEF PortDigits, nonZero
<1>. HIDE DEF i
<1>4. CASE i >= 1
  BY <1>2, <1>3, <1>4, RestText
<1>5. CASE i = 0
  <2>1. From(s, i) = <<>>
    BY <1>2, <1>5 DEF From
  <2>2. <<>> \in Text
    BY DEF Text
  <2>. QED  BY <1>3, <2>1, <2>2
<1>. QED  BY <1>2, <1>4, <1>5

LEMMA PortStep ==
    ASSUME WorkInv, PortState
    PROVE  WorkInv'
<1>. DEFINE rest == From(ptr, FindFirstNot(ptr, Digit))
            digits == PortDigits(Before(ptr, FindFirstNot(ptr, Digit)))
            y == PutPort(urls, digits)
<1>1. pc = "port" /\ pc \in ParserState /\ ptr \in Text
  BY DEF PortState, ParserState, WorkInv, WorkShape, TypeOK
<1>2. rest \in Text /\ digits \in Text
  BY <1>1, FromIsText, PortDigitsText
<1>3. /\ "path_start" \in ParserState
      /\ {"port_invalid", "port_out_of_range", "ok"} \subseteq Result
  BY DEF ParserState, Result, HostResult
<1>4. \/ Return("port_invalid", urls) \/ Return("port_out_of_range", urls)
      \/ override /\ Return("ok", urls)
      \/ ~override /\ Goto("path_start", urls, rest)
      \/ override /\ Return("ok", y)
      \/ ~override /\ Goto("path_start", y, rest)
  BY DEF PortState, rest, digits, y
<1>5. CASE ~override
  <2>1. MayEnter(pc, urls, ptr)
    BY <1>1, <1>5, ParsingBlock
  <2>2. /\ Parser(urls) /\ Appending(urls) /\ urls.u.segs = 0 /\ ~HasOpaquePath(urls.u)
        /\ urls.save => HostWritten(urls) /\ urls.last = HOST
    BY <1>1, <2>1 DEF MayEnter
  <2>3. Appender(urls)
    BY <2>2 DEF Appender, Parser
  <2>4. urls.save => ~IsNull(urls.u, HOST) /\ urls.last =< PORT
    BY <2>2, PartNumbers DEF HostWritten
  <2>5. /\ PortPlan(urls, y) /\ Appender(y)
        /\ urls.save => y.last >= HOST /\ y.last =< PORT
    BY <1>2, <2>2, <2>3, <2>4, PutPortSound
  <2>. HIDE DEF y, rest, digits
  <2>6. /\ y.u.segs = 0 /\ ~HasOpaquePath(y.u)
        /\ y.save => HostWritten(y) /\ y.last =< PORT
    BY <2>2, <2>4, <2>5 DEF PortPlan, HostWritten
  <2>7. MayEnter("path_start", urls, rest) /\ MayEnter("path_start", y, rest)
    BY <2>2, <2>3, <2>4, <2>5, <2>6, EnterPathStart
  <2>8. MayReturn("port_invalid", urls) /\ MayReturn("port_out_of_range", urls)
    BY <2>2 DEF MayReturn
  <2>. QED  BY <1>1, <1>2, <1>3, <1>4, <1>5, <2>7, <2>8, GotoParsing, ReturnStep
<1>6. CASE override
  <2>1. MaySet(pc, urls, ptr)
    BY <1>1, <1>6, SettingBlock
  <2>2. Editor(urls) /\ ~IsNull(urls.u, HOST)
    BY <1>1, <2>1 DEF MaySet
  <2>3. PICK l \in Part : CompleteUpTo(urls.u, l)
    BY <2>2, EditorFacts
  <2>4. ~HasOpaquePath(urls.u) /\ ~Appender(urls)
    BY <2>2, <2>3, CompleteFacts DEF Appender, Editor
  <2>5. Editor(y)
    BY <1>2, <2>2, <2>4, PutPortSound
  <2>. HIDE DEF y, rest, digits
  <2>6. /\ MayReturn("port_invalid", urls) /\ MayReturn("port_out_of_range", urls)
        /\ MayReturn("ok", urls) /\ MayReturn("ok", y)
    BY <2>2, <2>5 DEF MayReturn
  <2>. QED  BY <1>1, <1>3, <1>4, <1>6, <2>6, ReturnStep
<1>. QED  BY <1>5, <1>6

-----------------------------------------------------------------------------
(* File URLs.                                                              *)

LEMMA PathFirst2Text ==
    ASSUME NEW u \in Url, NEW l \in Part, Ordered(u, l)
    PROVE  PathFirst2(u) \in Text
<1>. DEFINE path == View(u, PATH)
            from == u.ends[PATH - 1] + 1
            to == u.ends[PATH]
<1>1. PATH \in Part /\ PATH - 1 \in Part /\ PATH # SCHEME /\ l \in Int /\ PATH \in Int
  BY PartInt, PartNumbers
<1>2. u.norm \in Text /\ Len(u.norm) \in Nat /\ u.ends[PATH - 1] \in Nat /\ u.ends[PATH] \in Nat
  BY <1>1, UrlType
<1>3. u.ends[PATH] =< Len(u.norm)
  <2>1. CASE PATH =< l
    BY <1>1, <2>1, OrderedFacts
  <2>2. CASE ~(PATH =< l)
    <3>1. PATH > l
      BY <1>1, <2>2
    <3>2. u.ends[PATH] = 0
      BY <1>1, <3>1, OrderedFacts
    <3>. QED  BY <1>2, <3>2
  <2>. QED  BY <2>1, <2>2
<1>4. path = SubSeq(u.norm, from, to)
  <2>1. PartStart(PATH) = 0 /\ PartPos(u, PATH) = u.ends[PATH - 1]
    BY <1>1, PartNumbers DEF PartStart, PartPos
  <2>2. u.ends[PATH - 1] + 0 + 1 = u.ends[PATH - 1] + 1
    BY <1>2
  <2>. QED  BY <2>1, <2>2 DEF View
<1>5. from \in Int /\ to \in Int /\ 1 =< from /\ to =< Len(u.norm)
  BY <1>2, <1>3
<1>. HIDE DEF from, to, path
<1>6. path \in Text
  BY <1>2, <1>4, <1>5, SubText
<1>7. <<>> \in Text /\ Len(path) \in Nat
  BY <1>6 DEF Text
<1>8. Len(path) >= 3 => SubSeq(path, 2, 3) \in Text
  BY <1>6, <1>7, SubText
<1>9. Len(path) = 3 \/ Len(path) > 3 => Len(path) >= 3
  BY <1>7
<1>. QED  BY <1>6, <1>7, <1>8, <1>9 DEF PathFirst2, path

\* The (empty) host of a file URL is written.
LEMMA EnterFileBlock ==
    ASSUME NEW x, Appender(x), ~HasOpaquePath(x.u), x.u.segs = 0, x.last = HOST,
           ~IsNull(x.u, HOST), NEW rest
    PROVE  /\ IsEmpty(x.u, HOST) => MayEnter("file_slash", x, rest) /\ MayEnter("file_host", x, rest)
           /\ MayEnter("path", x, rest) /\ MayEnter("path_start", x, rest)
<1>1. HostWritten(x) /\ x.last =< PORT /\ x.last =< PATH
  BY PartNumbers DEF HostWritten
<1>2. Parser(x) /\ Appending(x)
  BY ParserOf
<1>3. IsEmpty(x.u, HOST) => MayEnter("file_slash", x, rest) /\ MayEnter("file_host", x, rest)
  BY <1>1, <1>2 DEF MayEnter, AfterScheme
<1>4. MayEnter("path", x, rest)
  BY <1>1, EnterPath
<1>5. MayEnter("path_start", x, rest)
  BY <1>1, EnterPathStart
<1>. QED  BY <1>3, <1>4, <1>5

LEMMA FileScheme ==
    ASSUME Parser(urls), ~HasOpaquePath(urls.u), urls.u.segs = 0,
           Fresh(urls) \/ (SchemeWritten(urls) /\ urls.u.inf.file)
    PROVE  LET x == IF url.inf.file THEN urls ELSE AppendScheme(urls, <<"file">>)
           IN Appender(x) /\ SchemeWritten(x) /\ x.u.segs = 0 /\ x.save = urls.save
<1>1. CASE SchemeWritten(urls) /\ urls.u.inf.file
  <2>1. Appender(urls)
    BY <1>1 DEF Parser, Appender, SchemeWritten
  <2>. QED  BY <1>1, <2>1 DEF url
<1>2. CASE Fresh(urls)
  <2>1. ~urls.u.inf.file
    BY <1>2 DEF Fresh, EmptyUrl, NoInfo, Info
  <2>2. <<"file">> \in Text /\ <<"file">> # <<>>
    BY CharAssumption DEF Written, Text
  <2>3. Blank(urls)
    BY <1>2, FreshBlank DEF Parser
  <2>4. LET y == AppendScheme(urls, <<"file">>)
        IN Appender(y) /\ SchemeWritten(y) /\ y.save = urls.save /\ y.u.segs = 0
    BY <2>2, <2>3, AppendSchemeSound
  <2>. QED  BY <2>1, <2>4 DEF url
<1>. QED  BY <1>1, <1>2

LEMMA FileStep ==
    ASSUME WorkInv, FileState
    PROVE  WorkInv'
<1>. DEFINE scheme == IF url.inf.file THEN urls ELSE AppendScheme(urls, <<"file">>)
            x == SetEmptyHost(scheme)
            all == AppendParts(x, base, HOST, QUERY, "keep")
            path == AppendParts(x, base, HOST, PATH, "keep")
            host == AppendParts(x, base, HOST, HOST, "keep")
            shorter == AppendParts(x, base, HOST, PATH, "shorten")
<1>1. pc = "file"
  BY DEF FileState
<1>2. pc \in ParserState /\ ~override
  BY <1>1, NotSetting
<1>3. MayEnter(pc, urls, ptr) /\ ptr \in Text /\ (hasBase => UsableBase(base))
  BY <1>2, ParsingBlock, BaseIsUsable
<1>4. /\ Parser(urls) /\ ~HasOpaquePath(urls.u) /\ urls.u.segs = 0
      /\ Fresh(urls) \/ (SchemeWritten(urls) /\ urls.u.inf.file)
  BY <1>1, <1>3 DEF MayEnter
<1>5. Appender(scheme) /\ SchemeWritten(scheme) /\ scheme.u.segs = 0
  BY <1>4, FileScheme
<1>6. \/ ptr # <<>> /\ Goto("file_slash", x, Tail(ptr))
      \/ Goto("path", x, ptr)
      \/ /\ hasBase /\ base.inf.file
         /\ \/ Return("ok", all)
            \/ ptr # <<>> /\ Goto("query", path, Tail(ptr))
            \/ ptr # <<>> /\ Goto("fragment", all, Tail(ptr))
            \/ Goto("path", host, ptr)
            \/ Goto("path", shorter, ptr)
  BY DEF FileState, scheme, x, all, path, host, shorter, StartsWith
<1>. HIDE DEF scheme
<1>7. ~HasOpaquePath(scheme.u) /\ scheme.last < HOST_START
  BY <1>5, PartNumbers DEF SchemeWritten
<1>8. HostPlan(scheme, x) /\ Appender(x) /\ x.last = HOST /\ IsEmpty(x.u, HOST)
  BY <1>5, <1>7, SetEmptyHostSound
<1>. HIDE DEF x
<1>9. ~IsNull(x.u, HOST) /\ ~HasOpaquePath(x.u) /\ x.u.segs = 0
  <2>1. ~IsNull(x.u, HOST) /\ ~HasOpaquePath(x.u)
    BY <1>7, <1>8, HostPlanFacts
  <2>. QED  BY <1>5, <1>8, <2>1 DEF HostPlan
<1>10. \A s : MayEnter("file_slash", x, s) /\ MayEnter("path", x, s)
  BY <1>8, <1>9, EnterFileBlock
<1>11. ASSUME hasBase, base.inf.file
       PROVE  /\ MayReturn("ok", all) /\ MayEnter("path", host, ptr)
              /\ MayEnter("path", shorter, ptr)
              /\ \A s : MayEnter("query", path, s) /\ MayEnter("fragment", all, s)
  <2>1. base \in Url /\ Complete(base) /\ ~HasOpaquePath(base)
    BY <1>3, <1>11 DEF UsableBase
  <2>2. /\ MayAppend(x, base, HOST, QUERY) /\ MayAppend(x, base, HOST, PATH)
        /\ MayAppend(x, base, HOST, HOST)
    BY <1>8, <1>9, <2>1 DEF MayAppend
  <2>3. /\ AppendedParts(x, all, base, QUERY) /\ AppendedParts(x, path, base, PATH)
        /\ AppendedParts(x, host, base, HOST) /\ AppendedParts(x, shorter, base, PATH)
    BY <2>2, AppendPartsSound
  <2>. HIDE DEF all, path, host, shorter
  <2>4. QUERY \in Part /\ PATH \in Part /\ HOST \in Part /\ PATH =< PATH /\ HOST =< PATH
    BY PartNumbers
  <2>. QED  BY <2>1, <2>3, <2>4, AfterCopy
<1>12. ptr # <<>> => Tail(ptr) \in Text
  BY <1>3, TailText
<1>13. /\ {"file_slash", "query", "fragment", "path"} \subseteq ParserState
       /\ "ok" \in Result
  BY DEF ParserState, Result, HostResult
<1>. HIDE DEF all, path, host, shorter
<1>. QED
  BY <1>2, <1>3, <1>6, <1>10, <1>11, <1>12, <1>13, GotoParsing, ReturnStep

LEMMA FileSlashStep ==
    ASSUME WorkInv, FileSlashState
    PROVE  WorkInv'
<1>. DEFINE x == AppendParts(urls, base, HOST, HOST, "keep")
            y == PutSegment(x, PathFirst2(base))
<1>1. pc = "file_slash"
  BY DEF FileSlashState
<1>2. pc \in ParserState /\ ~override
  BY <1>1, NotSetting
<1>3. MayEnter(pc, urls, ptr) /\ ptr \in Text /\ (hasBase => UsableBase(base))
  BY <1>2, ParsingBlock, BaseIsUsable
<1>4. /\ Parser(urls) /\ Appending(urls) /\ HostWritten(urls) /\ urls.last = HOST
      /\ IsEmpty(urls.u, HOST) /\ ~HasOpaquePath(urls.u) /\ urls.u.segs = 0
  BY <1>1, <1>3 DEF MayEnter
<1>5. Appender(urls) /\ ~IsNull(urls.u, HOST)
  BY <1>4 DEF Parser, Appender, HostWritten
<1>6. \A s : MayEnter("file_host", urls, s) /\ MayEnter("path", urls, s)
  BY <1>4, <1>5, EnterFileBlock
<1>7. ASSUME hasBase, base.inf.file
      PROVE  MayEnter("path", x, ptr) /\ MayEnter("path", y, ptr)
  <2>1. base \in Url /\ Complete(base) /\ ~HasOpaquePath(base)
    BY <1>3, <1>7 DEF UsableBase
  <2>2. MayAppend(urls, base, HOST, HOST)
    BY <1>4, <1>5, <2>1 DEF MayAppend
  <2>3. AppendedParts(urls, x, base, HOST)
    BY <2>2, AppendPartsSound
  <2>. HIDE DEF x
  <2>4. MayEnter("path", x, ptr)
    BY <2>1, <2>3, AfterCopy, PartNumbers
  <2>5. Pathing(x)
    <3>1. Appender(x) /\ ~HasOpaquePath(x.u) /\ x.last =< HOST
          /\ (x.u.segs > 0 => x.last >= PATH)
      BY <2>1, <2>3 DEF AppendedParts
    <3>2. x.last \in Part
      BY <3>1, AppenderFacts
    <3>3. x.last \in Int
      BY <3>2, PartInt
    <3>4. x.last =< PATH /\ ~(x.last >= PATH)
      BY <3>1, <3>3, PartNumbers
    <3>. QED  BY <3>1, <3>4 DEF Pathing
  <2>6. PathFirst2(base) \in Text
    <3>1. PICK l \in Part : CompleteUpTo(base, l)
      BY <2>1 DEF Complete
    <3>. QED  BY <2>1, <3>1, CompleteFacts, PathFirst2Text
  <2>7. Pathing(y) /\ y.last = PATH
    BY <2>5, <2>6, SegmentWritten
  <2>. HIDE DEF y
  <2>8. MayEnter("path", y, ptr)
    BY <2>7, EnterPath DEF Pathing
  <2>. QED  BY <2>4, <2>8
<1>8. \/ ptr # <<>> /\ Goto("file_host", urls, Tail(ptr))
      \/ Goto("path", urls, ptr)
      \/ hasBase /\ base.inf.file /\ Goto("path", x, ptr)
      \/ hasBase /\ base.inf.file /\ Goto("path", y, ptr)
  BY DEF FileSlashState, x, y
<1>9. ptr # <<>> => Tail(ptr) \in Text
  BY <1>3, TailText
<1>10. {"file_host", "path"} \subseteq ParserState
  BY DEF ParserState
<1>. HIDE DEF x, y
<1>. QED  BY <1>2, <1>3, <1>6, <1>7, <1>8, <1>9, <1>10, GotoParsing

LEMMA FileHostStep ==
    ASSUME WorkInv, FileHostState
    PROVE  WorkInv'
<1>. DEFINE end == FindFirst(ptr, SpecialAuthorityEnd)
            host == Before(ptr, end)
            rest == From(ptr, end)
            result == ParseHostResult(host, ~special)
            parsed == ParseHostOutput(urls, host, ~special)
            noHost == SetEmptyHost(urls)
            local == EmptyHost(parsed)
            found == result = "ok" /\ urls.save
<1>1. pc = "file_host" /\ pc \in ParserState /\ ptr \in Text
  BY DEF FileHostState, ParserState, WorkInv, WorkShape, TypeOK
<1>2. host \in Text /\ rest \in Text
  BY <1>1, FromIsText
<1>3. result \in Result
  BY <1>2, ParseHostResultType DEF Result
<1>4. {"path", "path_start"} \subseteq ParserState /\ "ok" \in Result
  BY DEF ParserState, Result, HostResult
<1>5. \/ ~override /\ Goto("path", urls, ptr)
      \/ ~found /\ Return(result, parsed)
      \/ override /\ Return("ok", noHost)
      \/ override /\ found /\ Return("ok", local)
      \/ override /\ found /\ Return("ok", parsed)
      \/ ~override /\ Goto("path_start", noHost, rest)
      \/ ~override /\ found /\ Goto("path_start", local, rest)
      \/ ~override /\ found /\ Goto("path_start", parsed, rest)
  BY DEF FileHostState, end, host, rest, result, parsed, noHost, local, found
<1>6. CASE ~override
  <2>1. MayEnter(pc, urls, ptr)
    BY <1>1, <1>6, ParsingBlock
  <2>2. /\ Parser(urls) /\ Appending(urls) /\ HostWritten(urls) /\ urls.last = HOST
        /\ IsEmpty(urls.u, HOST) /\ ~HasOpaquePath(urls.u) /\ urls.u.segs = 0
    BY <1>1, <2>1 DEF MayEnter
  <2>3. Appender(urls) /\ ~IsNull(urls.u, HOST)
    BY <2>2 DEF Parser, Appender, HostWritten
  <2>4. /\ HostParsed(urls, parsed)
        /\ found => ~IsNull(parsed.u, HOST) /\ (Appender(urls) => parsed.last = HOST)
    BY <1>2, <2>2, <2>3, ParseHostOutputSound
  <2>5. HostPlan(urls, noHost) /\ Appender(noHost) /\ noHost.last = HOST
    BY <2>2, <2>3, SetEmptyHostSound
  <2>. HIDE DEF parsed, noHost, result, rest
  <2>6. /\ Appender(parsed) /\ ~HasOpaquePath(parsed.u) /\ parsed.u.segs = 0
        /\ parsed.save = urls.save
        /\ found => ~IsNull(parsed.u, HOST) /\ parsed.last = HOST
    BY <2>2, <2>3, <2>4 DEF HostParsed
  <2>7. found => HostPlan(parsed, local) /\ Appender(local) /\ local.last = HOST
    BY <2>6, EmptyHostSound
  <2>. HIDE DEF local
  <2>8. /\ ~HasOpaquePath(noHost.u) /\ ~IsNull(noHost.u, HOST) /\ noHost.u.segs = 0
        /\ found => ~HasOpaquePath(local.u) /\ ~IsNull(local.u, HOST) /\ local.u.segs = 0
    <3>1. ~HasOpaquePath(noHost.u) /\ ~IsNull(noHost.u, HOST)
      BY <2>2, <2>5, HostPlanFacts
    <3>2. found => ~HasOpaquePath(local.u) /\ ~IsNull(local.u, HOST)
      BY <2>6, <2>7, HostPlanFacts
    <3>. QED  BY <2>2, <2>5, <2>6, <2>7, <3>1, <3>2 DEF HostPlan
  <2>9. MayEnter("path", urls, ptr) /\ MayEnter("path_start", noHost, rest)
    BY <2>2, <2>3, <2>5, <2>8, EnterFileBlock
  <2>10. found => MayEnter("path_start", parsed, rest) /\ MayEnter("path_start", local, rest)
    BY <2>6, <2>7, <2>8, EnterFileBlock
  <2>11. ~found => MayReturn(result, parsed)
    BY <2>6, ParserOf DEF MayReturn, found
  <2>. HIDE DEF found
  <2>. QED
    BY <1>1, <1>2, <1>3, <1>4, <1>5, <1>6, <2>9, <2>10, <2>11, GotoParsing, ReturnStep
<1>7. CASE override
  <2>1. MaySet(pc, urls, ptr)
    BY <1>1, <1>7, SettingBlock
  <2>2. Editor(urls) /\ ~HasOpaquePath(urls.u)
    BY <1>1, <2>1 DEF MaySet
  <2>3. HostParsed(urls, parsed) /\ (found => ~IsNull(parsed.u, HOST))
    BY <1>2, <2>2, ParseHostOutputSound
  <2>4. Editor(noHost)
    BY <2>2, SetEmptyHostSound
  <2>. HIDE DEF parsed, noHost, result, rest
  <2>5. Editor(parsed) /\ ~HasOpaquePath(parsed.u)
    BY <2>2, <2>3 DEF HostParsed
  <2>6. found => Editor(local)
    BY <2>3, <2>5, EmptyHostSound
  <2>. HIDE DEF local, found
  <2>7. /\ MayReturn(result, parsed) /\ MayReturn("ok", noHost)
        /\ MayReturn("ok", parsed) /\ (found => MayReturn("ok", local))
    BY <2>4, <2>5, <2>6 DEF MayReturn
  <2>. QED  BY <1>1, <1>3, <1>4, <1>5, <1>7, <2>7, ReturnStep
<1>. QED  BY <1>6, <1>7

-----------------------------------------------------------------------------
(* Path, query and fragment.                                               *)

LEMMA NothingToSaveStep ==
    ASSUME WorkInv, NothingToSave
    PROVE  WorkInv'
<1>1. pc \in ParserState /\ ~urls.save /\ Return("ok", urls) /\ "ok" \in Result
  BY DEF NothingToSave, PathOnward, ParserState, Result, HostResult
<1>2. CASE ~override
  <2>1. MayReturn("ok", urls)
    BY <1>1, <1>2, ParsingBlock DEF MayEnter, MayReturn
  <2>. QED  BY <1>1, <2>1, ReturnStep
<1>3. CASE override
  <2>1. MayReturn("ok", urls)
    BY <1>1, <1>3, SettingBlock DEF MaySet, MayReturn
  <2>. QED  BY <1>1, <2>1, ReturnStep
<1>. QED  BY <1>2, <1>3

\* The path is written, or there is none.
LEMMA AfterPath ==
    ASSUME NEW x, Appender(x), PathWritten(x), NEW rest
    PROVE  /\ MayReturn("ok", x)
           /\ x.last < QUERY => MayEnter("query", x, rest)
           /\ x.last < FRAGMENT => MayEnter("fragment", x, rest)
<1>1. MayReturn("ok", x)
  BY ParserOf DEF MayReturn
<1>. QED  BY <1>1, EnterLast

LEMMA PathStartStep ==
    ASSUME WorkInv, PathStartState
    PROVE  WorkInv'
<1>. DEFINE y == CommitPath(urls)
            z == CommitPath(PutSegment(urls, <<>>))
<1>1. pc = "path_start" /\ pc \in ParserState /\ ptr \in Text /\ urls.save
  BY DEF PathStartState, ParserState, WorkInv, WorkShape, TypeOK
<1>2. \/ Goto("path", urls, ptr)
      \/ ptr # <<>> /\ Goto("path", urls, Tail(ptr))
      \/ Return("ok", y)
      \/ override /\ Return("ok", z)
      \/ ~override /\ ptr # <<>> /\ Goto("query", urls, Tail(ptr))
      \/ ~override /\ ptr # <<>> /\ Goto("fragment", urls, Tail(ptr))
  BY DEF PathStartState, y, z, PutEmptySegment
<1>3. ptr # <<>> => Tail(ptr) \in Text
  BY <1>1, TailText
<1>4. {"path", "query", "fragment"} \subseteq ParserState /\ "ok" \in Result
  BY DEF ParserState, Result, HostResult
<1>5. CASE ~override
  <2>1. MayEnter(pc, urls, ptr)
    BY <1>1, <1>5, ParsingBlock
  <2>2. /\ Parser(urls) /\ Appending(urls) /\ HostWritten(urls) /\ urls.last =< PORT
        /\ ~HasOpaquePath(urls.u) /\ urls.u.segs = 0
    BY <1>1, <2>1 DEF MayEnter
  <2>3. Appender(urls)
    BY <2>2 DEF Parser, Appender
  <2>4. urls.last =< PATH /\ urls.last < QUERY /\ urls.last < FRAGMENT
    <3>1. urls.last \in Part
      BY <2>3, AppenderFacts
    <3>2. urls.last \in Int
      BY <3>1, PartInt
    <3>. QED  BY <2>2, <3>2, PartNumbers
  <2>5. Appender(y) /\ SamePlan(urls, y) /\ y.last = urls.last
    BY <2>2, <2>3, AppenderCommitPath
  <2>. HIDE DEF y, z
  <2>6. PathWritten(urls) /\ PathWritten(y)
    BY <2>2, <2>5 DEF PathWritten, HostWritten, SamePlan, IsNull
  <2>7. /\ MayReturn("ok", y)
        /\ \A s : MayEnter("query", urls, s) /\ MayEnter("fragment", urls, s)
    BY <2>3, <2>4, <2>5, <2>6, AfterPath
  <2>8. \A s : MayEnter("path", urls, s)
    BY <2>2, <2>3, <2>4, EnterPath
  <2>. QED
    BY <1>1, <1>2, <1>3, <1>4, <1>5, <2>7, <2>8, GotoParsing, ReturnStep
<1>6. CASE override
  <2>1. MaySet(pc, urls, ptr)
    BY <1>1, <1>6, SettingBlock
  <2>2. Collecting(urls)
    BY <1>1, <2>1 DEF MaySet, Collecting
  <2>3. Editor(y)
    BY <2>2, EditorCommitPath DEF Collecting
  <2>4. Editor(z)
    <3>1. <<>> \in Text
      BY DEF Text
    <3>2. Collecting(PutSegment(urls, <<>>))
      BY <2>2, <3>1, SegmentCollected
    <3>. QED  BY <3>2, EditorCommitPath DEF Collecting
  <2>. HIDE DEF y, z
  <2>5. MayReturn("ok", y) /\ MayReturn("ok", z)
    BY <2>3, <2>4 DEF MayReturn
  <2>6. \A s : MaySet("path", urls, s)
    BY <2>2 DEF Collecting, MaySet
  <2>. QED
    BY <1>1, <1>2, <1>3, <1>4, <1>6, <2>5, <2>6, GotoSetting, ReturnStep
<1>. QED  BY <1>5, <1>6

LEMMA PathStep ==
    ASSUME WorkInv, PathState
    PROVE  WorkInv'
<1>. DEFINE path == Before(ptr, EndOfPath)
            end == FindFirst(path, IF special THEN Slash ELSE {"/"})
            segment == Before(path, end)
            isLast == end > Len(path)
            isDrive == url.inf.file /\ PathIsEmpty(urls) /\ IsWindowsDrive(segment)
            text == IF isDrive THEN <<segment[1], ":">> ELSE Encode(segment, PathSet)
            short == ShortenPath(urls)
            s0 == PutSegment(short, <<>>)
            u0 == PutSegment(urls, <<>>)
            u1 == PutSegment(urls, text)
            rest0 == From(ptr, end)
            rest1 == From(ptr, end + 1)
<1>1. pc = "path" /\ pc \in ParserState /\ ptr \in Text /\ urls.save
  BY DEF PathState, ParserState, WorkInv, WorkShape, TypeOK
<1>2. path \in Text
  <2>1. Len(ptr) \in Nat
    BY <1>1 DEF Text
  <2>2. EndOfPath \in 1 .. Len(ptr) + 1
    BY <1>1, <2>1, FindFirstRange DEF EndOfPath
  <2>. QED  BY <1>1, <2>2, BeforeText
<1>3. end \in 1 .. Len(path) + 1 /\ segment \in Text
  BY <1>2, FindFirstRange, BeforeText
<1>4. rest0 \in Text /\ rest1 \in Text
  <2>1. Len(path) \in Nat
    BY <1>2 DEF Text
  <2>. HIDE DEF path, end
  <2>2. end \in Nat /\ 1 =< end /\ end + 1 \in Nat /\ 1 =< end + 1
    BY <1>3, <2>1
  <2>. QED  BY <1>1, <2>2, RestText
<1>5. text \in Text /\ <<>> \in Text
  <2>. HIDE DEF segment
  <2>1. Encode(segment, PathSet) \in Text
    BY <1>3, EncodeText
  <2>2. isDrive => <<segment[1], ":">> \in Text
    <3>1. isDrive => segment[1] \in Char
      <4>1. isDrive => Len(segment) = 2
        BY DEF IsWindowsDrive
      <4>2. segment \in Seq(Char)
        BY <1>3 DEF Text
      <4>3. Len(segment) = 2 => segment[1] \in Char
        <5>. HIDE DEF isDrive, text, u1
        <5>. QED  BY <4>2
      <4>. QED  BY <4>1, <4>3
    <3>2. ":" \in Char
      BY CharAssumption DEF Written
    <3>. QED  BY <3>1, <3>2 DEF Text
  <2>. QED  BY <2>1, <2>2 DEF Text
<1>6. \/ /\ isLast
         /\ \/ Goto("path_end", s0, rest0) \/ Goto("path_end", u0, rest0)
            \/ Goto("path_end", u1, rest0)
      \/ /\ ~isLast
         /\ \/ Goto("path", short, rest1) \/ Goto("path", urls, rest1)
            \/ Goto("path", u1, rest1)
  BY DEF PathState, path, end, segment, isLast, isDrive, text, short, s0, u0, u1,
         rest0, rest1, PutEmptySegment
<1>7. {"path_end", "path"} \subseteq ParserState
  BY DEF ParserState
<1>. HIDE DEF text, rest0, rest1, isLast
<1>8. CASE ~override
  <2>1. MayEnter(pc, urls, ptr)
    BY <1>1, <1>8, ParsingBlock
  <2>2. /\ Parser(urls) /\ Appending(urls) /\ ~HasOpaquePath(urls.u) /\ urls.last =< PATH
        /\ urls.u.segs > 0 => urls.last = PATH
    BY <1>1, <2>1 DEF MayEnter
  <2>3. Pathing(urls)
    BY <2>2 DEF Parser, Appender, Pathing
  <2>4. Pathing(short) /\ short.save = urls.save
    BY <2>3, AppenderShortenPath
  <2>. HIDE DEF short
  <2>5. /\ Pathing(s0) /\ s0.last = PATH /\ s0.save = short.save
        /\ Pathing(u0) /\ u0.last = PATH /\ u0.save = urls.save
        /\ Pathing(u1) /\ u1.last = PATH /\ u1.save = urls.save
    BY <1>5, <2>3, <2>4, SegmentWritten
  <2>. HIDE DEF s0, u0, u1
  <2>6. ASSUME NEW x, Pathing(x), NEW s
        PROVE  /\ MayEnter("path", x, s)
               /\ x.save /\ x.last = PATH => MayEnter("path_end", x, s)
    <3>1. Parser(x) /\ Appending(x)
      BY <2>6, ParserOf DEF Pathing
    <3>. QED  BY <2>6, <3>1, EnterPath DEF Pathing, MayEnter, AfterScheme
  <2>7. /\ MayEnter("path", short, rest1) /\ MayEnter("path", urls, rest1)
        /\ MayEnter("path", u1, rest1) /\ MayEnter("path_end", s0, rest0)
        /\ MayEnter("path_end", u0, rest0) /\ MayEnter("path_end", u1, rest0)
    BY <1>1, <2>3, <2>4, <2>5, <2>6
  <2>. QED  BY <1>1, <1>4, <1>6, <1>7, <1>8, <2>7, GotoParsing
<1>9. CASE override
  <2>1. MaySet(pc, urls, ptr)
    BY <1>1, <1>9, SettingBlock
  <2>2. Collecting(urls)
    BY <1>1, <2>1 DEF MaySet, Collecting
  <2>3. Collecting(short)
    BY <2>2, CollectedShortenPath
  <2>. HIDE DEF short
  <2>4. Collecting(s0) /\ Collecting(u0) /\ Collecting(u1)
    BY <1>5, <2>2, <2>3, SegmentCollected
  <2>. HIDE DEF s0, u0, u1
  <2>5. ASSUME NEW x, Collecting(x), NEW s
        PROVE  MaySet("path", x, s) /\ MaySet("path_end", x, s)
    BY <2>5 DEF Collecting, MaySet
  <2>6. /\ MaySet("path", short, rest1) /\ MaySet("path", urls, rest1)
        /\ MaySet("path", u1, rest1) /\ MaySet("path_end", s0, rest0)
        /\ MaySet("path_end", u0, rest0) /\ MaySet("path_end", u1, rest0)
    BY <2>2, <2>3, <2>4, <2>5
  <2>. QED  BY <1>1, <1>4, <1>6, <1>7, <1>9, <2>6, GotoSetting
<1>. QED  BY <1>8, <1>9

LEMMA PathEndStep ==
    ASSUME WorkInv, PathEndState
    PROVE  WorkInv'
<1>. DEFINE y == CommitPath(urls)
<1>1. pc = "path_end" /\ pc \in ParserState /\ ptr \in Text
  BY DEF PathEndState, ParserState, WorkInv, WorkShape, TypeOK
<1>2. \/ Return("ok", y)
      \/ ptr # <<>> /\ Goto("query", y, Tail(ptr))
      \/ ptr # <<>> /\ Goto("fragment", y, Tail(ptr))
  BY DEF PathEndState, y
<1>3. ptr # <<>> => Tail(ptr) \in Text
  BY <1>1, TailText
<1>4. {"query", "fragment"} \subseteq ParserState /\ "ok" \in Result
  BY DEF ParserState, Result, HostResult
<1>5. CASE ~override
  <2>1. MayEnter(pc, urls, ptr)
    BY <1>1, <1>5, ParsingBlock
  <2>2. Parser(urls) /\ Appending(urls) /\ urls.last = PATH /\ ~HasOpaquePath(urls.u)
    BY <1>1, <2>1 DEF MayEnter
  <2>3. Appender(urls)
    BY <2>2 DEF Parser, Appender
  <2>4. Appender(y) /\ y.last = PATH
    BY <2>2, <2>3, AppenderCommitPath
  <2>. HIDE DEF y
  <2>5. PathWritten(y) /\ y.last < QUERY /\ y.last < FRAGMENT
    BY <2>4, PartNumbers DEF PathWritten
  <2>6. MayReturn("ok", y) /\ \A s : MayEnter("query", y, s) /\ MayEnter("fragment", y, s)
    BY <2>4, <2>5, AfterPath
  <2>. QED  BY <1>1, <1>2, <1>3, <1>4, <1>5, <2>6, GotoParsing, ReturnStep
<1>6. CASE override
  <2>1. MaySet(pc, urls, ptr)
    BY <1>1, <1>6, SettingBlock
  <2>2. Editor(y)
    BY <1>1, <2>1, EditorCommitPath DEF MaySet
  <2>. HIDE DEF y
  <2>3. MayReturn("ok", y) /\ \A s : MaySet("query", y, s) /\ MaySet("fragment", y, s)
    BY <2>2 DEF MayReturn, MaySet
  <2>. QED  BY <1>1, <1>2, <1>3, <1>4, <1>6, <2>3, GotoSetting, ReturnStep
<1>. QED  BY <1>5, <1>6

LEMMA OpaquePathStep ==
    ASSUME WorkInv, OpaquePathState
    PROVE  WorkInv'
<1>. DEFINE end == FindFirst(ptr, {"?", "#"})
            text == Encode(Before(ptr, end), C0ControlSet)
            y == PutPathString(urls, text)
            rest == From(ptr, end + 1)
<1>1. pc = "opaque_path"
  BY DEF OpaquePathState
<1>2. pc \in ParserState /\ ~override
  BY <1>1, NotSetting
<1>3. MayEnter(pc, urls, ptr) /\ ptr \in Text
  BY <1>2, ParsingBlock
<1>4. Parser(urls) /\ Appending(urls) /\ urls.last = SCHEME /\ urls.u.segs = 0
  BY <1>1, <1>3 DEF MayEnter
<1>5. Appender(urls)
  BY <1>4 DEF Parser, Appender
<1>6. text \in Text /\ rest \in Text
  <2>1. Before(ptr, end) \in Text
    BY <1>3, FromIsText
  <2>. QED  BY <1>3, <2>1, EncodeText, FromIsText
<1>7. Appender(y) /\ y.last = PATH
  BY <1>4, <1>5, <1>6, PutPathStringSound
<1>8. Return("ok", y) \/ Goto("query", y, rest) \/ Goto("fragment", y, rest)
  BY DEF OpaquePathState, end, text, y, rest
<1>. HIDE DEF y, rest
<1>9. PathWritten(y) /\ y.last < QUERY /\ y.last < FRAGMENT
  BY <1>7, PartNumbers DEF PathWritten
<1>10. MayReturn("ok", y) /\ MayEnter("query", y, rest) /\ MayEnter("fragment", y, rest)
  BY <1>7, <1>9, AfterPath
<1>11. {"query", "fragment"} \subseteq ParserState /\ "ok" \in Result
  BY DEF ParserState, Result, HostResult
<1>. QED  BY <1>2, <1>6, <1>8, <1>10, <1>11, GotoParsing, ReturnStep

\* What the last two blocks find, and what they leave.
LEMMA LastPartBlock ==
    ASSUME WorkInv, pc \in {"query", "fragment"}, urls.save, NEW t,
           (pc = "query" /\ t = QUERY) \/ (pc = "fragment" /\ t = FRAGMENT),
           NEW s \in Text
    PROVE  LET y == [PutPart(urls, t, s) EXCEPT !.u.flags = @ \cup {t}]
           IN /\ MayReturn("ok", y)
              /\ t = QUERY /\ ~override => \A r : MayEnter("fragment", y, r)
              /\ t = QUERY /\ override => \A r : MaySet("fragment", y, r)
<1>. DEFINE y == [PutPart(urls, t, s) EXCEPT !.u.flags = @ \cup {t}]
<1>1. y = WithFlag(PutPart(urls, t, s), t) /\ t \in {QUERY, FRAGMENT} /\ pc \in ParserState
  BY DEF WithFlag, ParserState
<1>. HIDE DEF y
<1>2. ASSUME ~override
      PROVE  MayReturn("ok", y) /\ (t = QUERY => \A r : MayEnter("fragment", y, r))
  <2>1. MayEnter(pc, urls, ptr)
    BY <1>1, <1>2, ParsingBlock
  <2>2. Parser(urls) /\ Appending(urls) /\ PathWritten(urls) /\ urls.last < t
    BY <2>1 DEF MayEnter
  <2>3. Appender(urls)
    BY <2>2 DEF Parser, Appender
  <2>4. Appender(y) /\ PathWritten(y) /\ y.last = t
    BY <1>1, <2>2, <2>3, LastPartPut
  <2>5. t = QUERY => y.last < FRAGMENT
    BY <2>4, PartNumbers
  <2>6. MayReturn("ok", y) /\ (t = QUERY => \A r : MayEnter("fragment", y, r))
    BY <2>4, <2>5, AfterPath
  <2>. QED  BY <1>2, <2>6
<1>3. ASSUME override
      PROVE  MayReturn("ok", y) /\ (t = QUERY => \A r : MaySet("fragment", y, r))
  <2>1. Editor(urls)
    BY <1>1, <1>3, SettingBlock DEF MaySet
  <2>2. ~Appender(urls)
    BY <2>1 DEF Editor, Appender
  <2>3. Editor(y)
    BY <1>1, <2>1, <2>2, LastPartPut
  <2>4. MayReturn("ok", y) /\ \A r : MaySet("fragment", y, r)
    BY <2>3 DEF MayReturn, MaySet
  <2>. QED  BY <1>3, <2>4
<1>. QED  BY <1>2, <1>3 DEF y

LEMMA QueryStep ==
    ASSUME WorkInv, QueryState
    PROVE  WorkInv'
<1>. DEFINE end == IF override THEN Len(ptr) + 1 ELSE FindFirst(ptr, {"#"})
            text == Encode(Before(ptr, end), IF special THEN SpecialQuerySet ELSE QuerySet)
            y == [PutPart(urls, QUERY, text) EXCEPT !.u.flags = @ \cup {QUERY}]
            rest == From(ptr, end + 1)
<1>1. pc = "query" /\ pc \in ParserState /\ ptr \in Text /\ urls.save
  BY DEF QueryState, ParserState, WorkInv, WorkShape, TypeOK
<1>2. end \in 1 .. Len(ptr) + 1 /\ Len(ptr) \in Nat
  <2>1. Len(ptr) \in Nat
    BY <1>1 DEF Text
  <2>2. FindFirst(ptr, {"#"}) \in 1 .. Len(ptr) + 1
    BY <1>1, FindFirstRange
  <2>. QED  BY <2>1, <2>2
<1>3. text \in Text /\ rest \in Text
  <2>. HIDE DEF end
  <2>1. Before(ptr, end) \in Text /\ end + 1 \in Nat /\ 1 =< end + 1
    BY <1>1, <1>2, BeforeText
  <2>. QED  BY <1>1, <2>1, EncodeText, RestText
<1>4. Return("ok", y) \/ Goto("fragment", y, rest)
  BY DEF QueryState, end, text, y, rest
<1>5. /\ MayReturn("ok", y)
      /\ ~override => MayEnter("fragment", y, rest)
      /\ override => MaySet("fragment", y, rest)
  BY <1>1, <1>3, LastPartBlock
<1>6. "fragment" \in ParserState /\ "ok" \in Result
  BY DEF ParserState, Result, HostResult
<1>. HIDE DEF y, rest
<1>7. CASE ~override
  BY <1>1, <1>3, <1>4, <1>5, <1>6, <1>7, GotoParsing, ReturnStep
<1>8. CASE override
  BY <1>1, <1>3, <1>4, <1>5, <1>6, <1>8, GotoSetting, ReturnStep
<1>. QED  BY <1>7, <1>8

LEMMA FragmentStep ==
    ASSUME WorkInv, FragmentState
    PROVE  WorkInv'
<1>. DEFINE text == Encode(ptr, FragmentSet)
            y == [PutPart(urls, FRAGMENT, text) EXCEPT !.u.flags = @ \cup {FRAGMENT}]
<1>1. pc = "fragment" /\ pc \in ParserState /\ ptr \in Text /\ urls.save
  BY DEF FragmentState, ParserState, WorkInv, WorkShape, TypeOK
<1>2. text \in Text
  BY <1>1, EncodeText
<1>3. Return("ok", y)
  BY DEF FragmentState
<1>4. MayReturn("ok", y)
  BY <1>1, <1>2, LastPartBlock
<1>5. "ok" \in Result
  BY DEF Result, HostResult
<1>. HIDE DEF y
<1>. QED  BY <1>1, <1>3, <1>4, <1>5, ReturnStep

-----------------------------------------------------------------------------
(* Calls.                                                                  *)

LEMMA EmptyUrlRests == EmptyUrl \in Url /\ Resting(EmptyUrl) /\ ~IsValid(EmptyUrl)
<1>1. /\ InitialFlags \in SUBSET (0 .. 12) /\ VALID \notin InitialFlags
      /\ NoInfo \in SchemeInfo /\ <<>> \in Text /\ "Empty" \in HostType
  BY GetSchemeInfoType, PartNumbers DEF InitialFlags, VALID, Text, HostType
<1>2. [t \in Part |-> 0] \in [Part -> Nat]
  OBVIOUS
<1>. QED  BY <1>1, <1>2 DEF EmptyUrl, Url, Resting, IsValid

LEMMA NewSerializerType ==
    ASSUME NEW u \in Url, NEW save \in BOOLEAN
    PROVE  LET x == NewSerializer(u, save)
           IN /\ x \in Serializer /\ x.u = u /\ x.last = SCHEME /\ x.save = save
              /\ ~x.setter /\ ~x.inBuf /\ x.sane
<1>1. SCHEME \in Part /\ <<>> \in Text /\ <<>> \in Seq(Nat)
  BY PartNumbers DEF Text
<1>. QED  BY <1>1 DEF NewSerializer, Serializer

LEMMA ResetIsEmpty ==
    ASSUME NEW u \in Url, Resting(u)
    PROVE  Reset(u) = EmptyUrl
<1>1. CASE u = EmptyUrl
  BY <1>1 DEF Reset
<1>2. CASE \E l \in Part : Sound(u, l)
  <2>1. PICK l \in Part : Sound(u, l)
    BY <1>2
  <2>2. u.ends[SCHEME] \in Nat /\ u.ends[SCHEME] > 0 /\ u.ends[SCHEME] + 1 =< Len(u.norm)
    BY <2>1, OrderedFacts DEF Sound
  <2>3. Len(<<>>) = 0
    OBVIOUS
  <2>4. u.norm # <<>>
    BY <2>2, <2>3
  <2>. QED  BY <2>4 DEF Reset
<1>. QED  BY <1>1, <1>2 DEF Resting

LEMMA CompleteRests ==
    ASSUME NEW u, Complete(u)
    PROVE  Resting(u)
BY DEF Complete, CompleteUpTo, Resting

\* What a caller sees.
CallOK ==
    /\ op \in Call \cup {"reparse", "clear", "none"} /\ arg \in Text
    /\ old \in Url /\ can \in Result \cup {"none"}

\* What a call that begins or ends may rely on, also when the url object of
\* its caller is not whole.
Typed == TypeOK /\ Resting(base)

LEMMA WorkTyped == WorkInv => Typed
BY DEF WorkInv, WorkShape, Typed

\* What a call that rests leaves.
LEMMA DoneStep ==
    ASSUME NEW r \in Result, NEW u \in Url, Resting(u), Done(r, u),
           Typed, UNCHANGED parserVars, CallOK'
    PROVE  WorkInv'
<1>1. /\ pc' = "done" /\ urls' = NewSerializer(u, TRUE) /\ res' = r
      /\ UNCHANGED <<ptr, override, base, hasBase>>
  BY DEF Done, parserVars
<1>2. urls' \in Serializer /\ urls'.u = u /\ ~urls'.setter /\ urls'.sane
  BY <1>1, NewSerializerType
<1>3. TypeOK'
  BY <1>1, <1>2 DEF Typed, TypeOK, CallOK
<1>4. Resting(url)' /\ Resting(base)'
  BY <1>1, <1>2 DEF Typed, url
<1>5. pc' \notin ParserState
  BY <1>1 DEF ParserState
<1>. QED  BY <1>1, <1>2, <1>3, <1>4, <1>5 DEF WorkInv, WorkShape, AtRest

LEMMA BeginParseStep ==
    ASSUME NEW u \in Url, Resting(u), NEW save \in BOOLEAN, NEW text \in Text,
           NEW b \in Url, Resting(b), NEW isBase \in BOOLEAN,
           BeginParse(u, save, text, b, isBase), Typed, CallOK'
    PROVE  WorkInv'
<1>. DEFINE x == NewSerializer(Reset(u), save)
<1>1. /\ x \in Serializer /\ x.u = EmptyUrl /\ x.last = SCHEME /\ ~x.setter /\ ~x.inBuf
      /\ x.sane
  BY EmptyUrlRests, NewSerializerType, ResetIsEmpty
<1>2. base' = b /\ hasBase' = isBase /\ urls' = x
  BY DEF BeginParse, Enter
<1>3. \/ pc' = "return" /\ res' = "invalid_base" /\ ptr' = <<>> /\ override' = FALSE
      \/ /\ pc' = "scheme_start" /\ ptr' = RemoveWhitespace(Trim(text))
         /\ override' = FALSE /\ res' = res /\ (isBase => IsValid(b))
  BY DEF BeginParse, Enter
<1>. HIDE DEF x
<1>4. Fresh(x) /\ ~HasOpaquePath(x.u) /\ x.u.segs = 0
  <2>1. OPAQUE_PATH \notin InitialFlags
    BY PartNumbers DEF OPAQUE_PATH, InitialFlags
  <2>. QED  BY <1>1, <2>1 DEF Fresh, HasOpaquePath, EmptyUrl
<1>5. ptr' \in Text /\ override' = FALSE /\ res' \in Result
  <2>1. <<>> \in Text /\ RemoveWhitespace(Trim(text)) \in Text
    <3>1. Trim(text) \in Text
      BY TrimText
    <3>. QED  BY <3>1, RemoveWhitespaceText DEF Text
  <2>2. "invalid_base" \in Result /\ res \in Result
    BY DEF Result, Typed, TypeOK
  <2>. QED  BY <1>3, <2>1, <2>2
<1>6. TypeOK'
  BY <1>1, <1>2, <1>3, <1>5 DEF Typed, TypeOK, CallOK, ParserState
<1>7. CASE pc' = "return" /\ res' = "invalid_base"
  <2>1. ReturnOK(x)'
    BY <1>1, <1>4, <1>7 DEF ReturnOK
  <2>2. pc' \notin ParserState \cup {"idle", "done"}
    BY <1>7 DEF ParserState
  <2>. QED
    BY <1>1, <1>2, <1>6, <1>7, <2>1, <2>2 DEF WorkInv, WorkShape, AtRest, CallOK
<1>8. CASE pc' = "scheme_start" /\ (isBase => IsValid(b))
  <2>1. ParsingOK(x)'
    BY <1>1, <1>4, <1>5, <1>8 DEF ParsingOK, AfterScheme
  <2>. QED
    BY <1>1, <1>2, <1>6, <1>8, <2>1 DEF WorkInv, WorkShape, AtRest, CallOK
<1>. QED  BY <1>3, <1>7, <1>8

LEMMA CalledOK ==
    ASSUME Typed, NEW call \in Call \cup {"reparse", "clear", "none"},
           NEW text \in Text, Called(call, text)
    PROVE  CallOK'
<1>1. url \in Url
  BY DEF Typed, TypeOK, Serializer, url
<1>. QED  BY <1>1 DEF Called, CallOK

\* A valid url is taken up by a setter.
LEMMA SetterIsEditor ==
    ASSUME NEW u \in Url, Resting(u), IsValid(u)
    PROVE  /\ Editor(NewSetter(u)) /\ NewSetter(u).u = u /\ SegEndsInOrder(NewSetter(u))
           /\ ~IsEmpty(u, HOST) => ~IsNull(u, HOST) /\ ~HasOpaquePath(u)
<1>. DEFINE x == NewSerializer(u, TRUE)
            y == NewSetter(u)
<1>1. Complete(u)
  BY EmptyUrlRests DEF Resting
<1>2. x \in Serializer /\ x.u = u /\ x.save /\ x.sane
  BY NewSerializerType
<1>. HIDE DEF x
<1>3. y = [x EXCEPT !.setter = TRUE, !.inBuf = TRUE]
  BY DEF NewSetter, x
<1>. HIDE DEF y
<1>4. y \in Serializer /\ y.u = u /\ y.save /\ y.sane /\ y.setter /\ y.segEnd = x.segEnd
  BY <1>2, <1>3 DEF Serializer
<1>5. y.segEnd = <<>>
  BY <1>4 DEF x, NewSerializer
<1>6. SegEndsInOrder(y)
  BY <1>5 DEF SegEndsInOrder
<1>7. Editor(y)
  BY <1>1, <1>4 DEF Editor
<1>8. ~IsEmpty(u, HOST) => ~IsNull(u, HOST) /\ ~HasOpaquePath(u)
  BY <1>1, CompleteFacts DEF Complete
<1>. QED  BY <1>4, <1>6, <1>7, <1>8 DEF y

LEMMA RestingUrl ==
    ASSUME WorkInv, AtRest
    PROVE  /\ url \in Url /\ Resting(url)
           /\ IsValid(url) =>
                 /\ Editor(NewSetter(url)) /\ NewSetter(url).u = url
                 /\ SegEndsInOrder(NewSetter(url))
                 /\ ~IsEmpty(url, HOST) => ~IsNull(url, HOST) /\ ~HasOpaquePath(url)
<1>1. url \in Url /\ Resting(url)
  BY DEF WorkInv, WorkShape, TypeOK, Serializer, url
<1>. QED  BY <1>1, SetterIsEditor

LEMMA SetStep ==
    ASSUME WorkInv, AtRest, NEW call \in Call, NEW text \in Text,
           NEW r \in Result, NEW x, x.u \in Url, Resting(x.u), Set(call, text, r, x)
    PROVE  WorkInv'
<1>1. CallOK'
  BY WorkTyped, CalledOK DEF Set
<1>. QED  BY <1>1, WorkTyped, DoneStep DEF Set

LEMMA EditDone ==
    ASSUME WorkInv, AtRest, NEW call \in Call, NEW text \in Text,
           NEW x, Editor(x), Set(call, text, "ok", x)
    PROVE  WorkInv'
<1>1. x.u \in Url /\ Resting(x.u)
  BY EditorFacts, CompleteRests DEF Editor
<1>2. "ok" \in Result
  BY DEF Result, HostResult
<1>. QED  BY <1>1, <1>2, SetStep

\* A setter enters url_parse.
LEMMA BeginSetting ==
    ASSUME WorkInv, pc = "idle", CallOK', NEW x, NEW state \in ParserState,
           NEW rest \in Text, MaySet(state, x, rest),
           pc' = state, urls' = x, ptr' = rest, override' = TRUE,
           UNCHANGED <<base, hasBase, res>>
    PROVE  WorkInv'
<1>1. /\ x \in Serializer /\ x.setter /\ x.sane /\ x.save /\ IsValid(x.u)
      /\ Complete(x.u)
  BY DEF MaySet, Editor
<1>2. pc' \in ParserState /\ pc' \notin {"idle", "return", "done"}
  BY DEF ParserState
<1>3. TypeOK'
  BY <1>1, <1>2 DEF WorkInv, WorkShape, TypeOK, CallOK
<1>4. SettingOK(x)'
  BY <1>1, Zenon DEF SettingOK, MaySet
<1>5. Resting(base)' /\ ~hasBase'
  BY DEF WorkInv, WorkShape
<1>. QED
  BY <1>1, <1>2, <1>3, <1>4, <1>5 DEF WorkInv, WorkShape, AtRest, CallOK

LEMMA EnterSetterStep ==
    ASSUME WorkInv, pc = "idle", NEW call \in Call, NEW text \in Text,
           NEW allowed \in BOOLEAN,
           NEW state \in {"scheme_start", "host", "hostname", "port", "path_start",
                          "query", "fragment"},
           NEW input \in Text,
           allowed => IsValid(url),
           allowed /\ state \in {"host", "hostname", "path_start"} => ~HasOpaquePath(url),
           allowed /\ state = "port" => ~IsNull(url, HOST),
           EnterSetter(call, text, allowed, state, input)
    PROVE  WorkInv'
<1>. DEFINE x == NewSetter(url)
            rest == RemoveWhitespace(input)
<1>1. CallOK' /\ AtRest
  BY WorkTyped, CalledOK DEF EnterSetter, AtRest
<1>2. url \in Url /\ Resting(url)
  BY <1>1, RestingUrl
<1>3. CASE ~allowed
  <2>1. "refused" \in Result
    BY DEF Result
  <2>2. Done("refused", url) /\ UNCHANGED parserVars
    BY <1>3 DEF EnterSetter
  <2>. QED  BY <1>1, <1>2, <2>1, <2>2, WorkTyped, DoneStep
<1>4. CASE allowed
  <2>1. Editor(x) /\ x.u = url /\ SegEndsInOrder(x)
    BY <1>1, <1>4, RestingUrl
  <2>2. /\ pc' = state /\ urls' = x /\ ptr' = rest /\ override' = TRUE
        /\ UNCHANGED <<base, hasBase, res>>
    BY <1>4 DEF EnterSetter, Enter
  <2>. HIDE DEF x
  <2>3. rest \in Text
    BY RemoveWhitespaceText
  <2>. HIDE DEF rest
  <2>4. state \in ParserState /\ state \notin {"idle", "return", "done", "scheme"}
    BY DEF ParserState
  <2>5. MaySet(state, x, rest)
    BY <1>4, <2>1, <2>4 DEF MaySet
  <2>. QED  BY <1>1, <2>2, <2>3, <2>4, <2>5, BeginSetting
<1>. QED  BY <1>3, <1>4

LEMMA ParseCallStep ==
    ASSUME WorkInv, pc = "idle", NEW call \in Call \cup {"reparse"}, NEW text \in Text,
           NEW save \in BOOLEAN, NEW b \in Url, Resting(b), NEW isBase \in BOOLEAN,
           Called(call, text), BeginParse(EmptyUrl, save, text, b, isBase)
    PROVE  WorkInv'
<1>1. CallOK'
  BY WorkTyped, CalledOK DEF AtRest
<1>. QED  BY <1>1, EmptyUrlRests, WorkTyped, BeginParseStep

LEMMA ParseCalls ==
    ASSUME WorkInv, pc = "idle", NEW text \in Text,
           \/ Parse(text) \/ ParseWithBase(text) \/ SetHref(text)
           \/ Reparse \/ Clear
    PROVE  WorkInv'
<1>1. url \in Url /\ Resting(url) /\ AtRest
  BY RestingUrl DEF AtRest
<1>2. url.norm \in Text /\ <<>> \in Text
  BY <1>1, UrlType DEF Text
<1>3. {"parse", "parse_with_base", "href"} \subseteq Call /\ "ok" \in Result
  BY DEF Call, Result, HostResult
<1>4. Parse(text) \/ SetHref(text) => WorkInv'
  BY <1>3, EmptyUrlRests, ParseCallStep DEF Parse, SetHref
<1>5. ParseWithBase(text) => WorkInv'
  BY <1>1, <1>3, ParseCallStep DEF ParseWithBase
<1>6. Reparse => WorkInv'
  BY <1>2, EmptyUrlRests, ParseCallStep DEF Reparse
<1>7. ASSUME Clear PROVE WorkInv'
  <2>1. CallOK'
    BY <1>1, <1>2, <1>7, WorkTyped, CalledOK DEF Clear
  <2>. QED  BY <1>3, <1>7, <2>1, EmptyUrlRests, WorkTyped, DoneStep DEF Clear
<1>. QED  BY <1>4, <1>5, <1>6, <1>7

LEMMA EnteringSetters ==
    ASSUME WorkInv, pc = "idle", NEW text \in Text,
           \/ SetProtocol(text) \/ SetHost(text) \/ SetHostname(text) \/ SetPathname(text)
    PROVE  WorkInv'
<1>1. {"protocol", "host", "hostname", "pathname"} \subseteq Call
  BY DEF Call
<1>2. IsValid(url) \in BOOLEAN /\ HasEditablePath \in BOOLEAN
      /\ (HasEditablePath => IsValid(url) /\ ~HasOpaquePath(url))
  BY DEF IsValid, HasEditablePath
<1>3. SetProtocol(text) => WorkInv'
  BY <1>1, <1>2, EnterSetterStep DEF SetProtocol
<1>4. SetHost(text) => WorkInv'
  BY <1>1, <1>2, EnterSetterStep DEF SetHost
<1>5. SetHostname(text) => WorkInv'
  BY <1>1, <1>2, EnterSetterStep DEF SetHostname
<1>6. SetPathname(text) => WorkInv'
  BY <1>1, <1>2, EnterSetterStep DEF SetPathname
<1>. QED  BY <1>3, <1>4, <1>5, <1>6

LEMMA UserinfoStep ==
    ASSUME WorkInv, pc = "idle", NEW text \in Text,
           NEW call \in Call, NEW t \in {USERNAME, PASSWORD}, SetUserinfo(call, t, text)
    PROVE  WorkInv'
<1>. DEFINE s == Encode(text, UserinfoSet)
            x == PutPart(NewSetter(url), t, s)
<1>1. AtRest /\ s \in Text
  BY EncodeText DEF AtRest
<1>2. CASE CanHaveUsernamePasswordPort(url)
  <2>1. IsValid(url) /\ ~IsEmpty(url, HOST)
    BY <1>2 DEF CanHaveUsernamePasswordPort
  <2>2. Editor(NewSetter(url)) /\ NewSetter(url).u = url
    BY <1>1, <2>1, RestingUrl
  <2>. HIDE DEF s
  <2>3. Editor(x)
    <3>1. t \in {USERNAME, PASSWORD, PORT, QUERY, FRAGMENT} /\ t # PORT
      BY PartNumbers
    <3>. QED  BY <1>1, <2>1, <2>2, <3>1, EditorPut
  <2>4. Set(call, text, "ok", x)
    BY <1>2 DEF SetUserinfo, s
  <2>. QED  BY <1>1, <2>3, <2>4, EditDone
<1>3. CASE ~CanHaveUsernamePasswordPort(url)
  <2>1. Set(call, text, "refused", urls) /\ "refused" \in Result
    BY <1>3 DEF SetUserinfo, Result
  <2>2. urls.u \in Url /\ Resting(urls.u)
    BY <1>1, RestingUrl DEF url
  <2>. QED  BY <1>1, <2>1, <2>2, SetStep
<1>. QED  BY <1>2, <1>3

LEMMA SetPortStep ==
    ASSUME WorkInv, pc = "idle", NEW text \in Text, SetPort(text)
    PROVE  WorkInv'
<1>. DEFINE x == ClearPart(NewSetter(url), PORT)
<1>1. AtRest /\ "port" \in Call
  BY DEF AtRest, Call
<1>2. CanHaveUsernamePasswordPort(url) =>
         /\ IsValid(url) /\ ~IsNull(url, HOST) /\ ~HasOpaquePath(url)
         /\ Editor(NewSetter(url)) /\ NewSetter(url).u = url
  BY <1>1, RestingUrl DEF CanHaveUsernamePasswordPort
<1>3. CASE CanHaveUsernamePasswordPort(url) /\ text = <<>>
  <2>1. Editor(x)
    BY <1>2, <1>3, ClearPartSound DEF PartCleared
  <2>2. Set("port", text, "ok", x)
    BY <1>3 DEF SetPort
  <2>. QED  BY <1>1, <2>1, <2>2, EditDone
<1>4. CASE ~(CanHaveUsernamePasswordPort(url) /\ text = <<>>)
  <2>1. EnterSetter("port", text, CanHaveUsernamePasswordPort(url), "port", text)
    BY <1>4 DEF SetPort
  <2>2. CanHaveUsernamePasswordPort(url) \in BOOLEAN
    BY DEF CanHaveUsernamePasswordPort, IsValid
  <2>. QED  BY <1>1, <1>2, <2>1, <2>2, EnterSetterStep
<1>. QED  BY <1>3, <1>4

LEMMA SetLastStep ==
    ASSUME WorkInv, pc = "idle", NEW text \in Text, NEW call \in Call, NEW lead,
           NEW t \in {QUERY, FRAGMENT}, NEW state \in {"query", "fragment"},
           SetLast(call, t, lead, state, text)
    PROVE  WorkInv'
<1>. DEFINE x == ClearPart(NewSetter(url), t)
            input == IF StartsWith(text, lead) THEN Tail(text) ELSE text
<1>1. AtRest /\ IsValid(url) \in BOOLEAN
  BY DEF AtRest, IsValid
<1>2. CASE IsValid(url) /\ text = <<>>
  <2>1. Editor(NewSetter(url))
    BY <1>1, <1>2, RestingUrl
  <2>2. t \in {PORT, QUERY, FRAGMENT} /\ t # PORT
    BY PartNumbers
  <2>3. Editor(x)
    BY <2>1, <2>2, ClearPartSound DEF PartCleared
  <2>4. Set(call, text, "ok", StripOpaquePath(x))
    BY <1>2 DEF SetLast, Removed
  <2>. HIDE DEF x
  <2>5. Editor(StripOpaquePath(x))
    BY <2>3, StripOpaquePathSound
  <2>. QED  BY <1>1, <2>4, <2>5, EditDone
<1>3. CASE ~(IsValid(url) /\ text = <<>>)
  <2>1. EnterSetter(call, text, IsValid(url), state, input)
    BY <1>3 DEF SetLast
  <2>2. input \in Text
    BY TailText DEF StartsWith
  <2>. HIDE DEF input
  <2>. QED  BY <1>1, <2>1, <2>2, EnterSetterStep
<1>. QED  BY <1>2, <1>3

LEMMA MakeCallStep ==
    ASSUME WorkInv, MakeCall
    PROVE  WorkInv'
<1>1. pc = "idle" /\ AtRest
  BY DEF MakeCall, AtRest
<1>2. /\ \A call \in Call : Input[call] \subseteq Text
      /\ <<>> \in Text
      /\ {"username", "password", "port", "search", "hash"} \subseteq Call
  BY InputAssumption DEF Call, Text
<1>3. \E text \in Text :
         \/ \/ Parse(text) \/ ParseWithBase(text) \/ SetHref(text) \/ Reparse \/ Clear
         \/ \/ SetProtocol(text) \/ SetHost(text) \/ SetHostname(text) \/ SetPathname(text)
         \/ SetUsername(text) \/ SetPassword(text) \/ SetPort(text)
         \/ SetSearch(text) \/ SetHash(text)
  BY <1>2, Zenon DEF MakeCall, Call
<1>4. PICK text \in Text :
         \/ \/ Parse(text) \/ ParseWithBase(text) \/ SetHref(text) \/ Reparse \/ Clear
         \/ \/ SetProtocol(text) \/ SetHost(text) \/ SetHostname(text) \/ SetPathname(text)
         \/ SetUsername(text) \/ SetPassword(text) \/ SetPort(text)
         \/ SetSearch(text) \/ SetHash(text)
  BY <1>3
<1>5. CASE Parse(text) \/ ParseWithBase(text) \/ SetHref(text) \/ Reparse \/ Clear
  BY <1>1, <1>5, ParseCalls
<1>6. CASE SetProtocol(text) \/ SetHost(text) \/ SetHostname(text) \/ SetPathname(text)
  BY <1>1, <1>6, EnteringSetters
<1>7. CASE SetUsername(text) \/ SetPassword(text)
  BY <1>1, <1>2, <1>7, UserinfoStep DEF SetUsername, SetPassword
<1>8. CASE SetPort(text)
  BY <1>1, <1>8, SetPortStep
<1>9. CASE SetSearch(text) \/ SetHash(text)
  BY <1>1, <1>2, <1>9, SetLastStep DEF SetSearch, SetHash
<1>. QED  BY <1>4, <1>5, <1>6, <1>7, <1>8, <1>9

-----------------------------------------------------------------------------
(* After url_parse.                                                        *)

\* What url_parse leaves.
LEMMA ReturnedFacts ==
    ASSUME WorkInv, pc = "return"
    PROVE  /\ urls \in Serializer /\ urls.u \in Url /\ res \in Result
           /\ base \in Url /\ Resting(base) /\ hasBase \in BOOLEAN /\ CallOK
           /\ Resting(urls.u)
           /\ ~urls.setter /\ res = "ok" /\ urls.save =>
                 Sound(urls.u, urls.last) /\ urls.last \in Part /\ PathWritten(urls)
<1>1. /\ urls \in Serializer /\ res \in Result /\ base \in Url /\ hasBase \in BOOLEAN
      /\ Resting(base) /\ CallOK
  BY DEF WorkInv, WorkShape, TypeOK, CallOK
<1>2. urls.u \in Url /\ urls.last \in Part
  BY <1>1, SerializerType
<1>3. ReturnOK(urls)
  BY DEF WorkInv, WorkShape
<1>4. CASE urls.setter
  <2>1. Complete(urls.u)
    BY <1>3, <1>4 DEF ReturnOK
  <2>. QED  BY <1>1, <1>2, <1>4, <2>1, CompleteRests
<1>5. CASE ~urls.setter
  <2>1. /\ Fresh(urls) \/ Appending(urls)
        /\ res = "ok" /\ urls.save => Appending(urls) /\ PathWritten(urls)
    BY <1>3, <1>5 DEF ReturnOK
  <2>2. Resting(urls.u)
    BY <1>2, <2>1, EmptyUrlRests DEF Fresh, Appending, Resting
  <2>. QED  BY <1>1, <1>2, <2>1, <2>2 DEF Appending
<1>. QED  BY <1>4, <1>5

\* An URL that was parsed without error is complete.
LEMMA ValidatedRests ==
    ASSUME NEW u \in Url, NEW l \in Part, Sound(u, l), l >= HOST,
           IsNull(u, HOST) => l >= PATH
    PROVE  Validated(u) \in Url /\ Resting(Validated(u))
<1>. DEFINE v == Validated(u)
<1>1. VALID \in 0 .. 12 /\ HOST # VALID /\ OPAQUE_PATH # VALID
  BY PartNumbers DEF VALID, OPAQUE_PATH
<1>2. SameText(u, v) /\ v.flags = u.flags \cup {VALID}
  BY <1>1 DEF Validated, SameText, Url
<1>. HIDE DEF v
<1>3. (IsNull(v, HOST) <=> IsNull(u, HOST)) /\ (HasOpaquePath(v) <=> HasOpaquePath(u))
  BY <1>1, <1>2 DEF IsNull, HasOpaquePath
<1>4. HasOpaquePath(u) => IsNull(u, HOST)
  BY DEF Sound, HostAgrees
<1>5. Sound(v, l)
  BY <1>2, <1>3, <1>4, SameTextSound
<1>6. Complete(v)
  BY <1>3, <1>5 DEF Complete, CompleteUpTo
<1>7. v \in Url /\ Resting(v)
  BY <1>2, <1>6, CompleteRests DEF SameText
<1>. QED  BY <1>7 DEF v

\* The caller may get back the url object as it was before the call.
GivesBackOld == pc = "return" /\ (~urls.save \/ res # "ok")

LEMMA ReturnSteps ==
    ASSUME WorkInv, CanParseReturns \/ ParseReturns \/ SetterReturns,
           GivesBackOld => Resting(old)
    PROVE  WorkInv'
<1>1. pc = "return"
  BY DEF CanParseReturns, ParseReturns, SetterReturns
<1>2. /\ urls \in Serializer /\ urls.u \in Url /\ res \in Result
      /\ base \in Url /\ Resting(base) /\ hasBase \in BOOLEAN /\ CallOK
      /\ Resting(urls.u)
      /\ ~urls.setter /\ res = "ok" /\ urls.save =>
            Sound(urls.u, urls.last) /\ urls.last \in Part /\ PathWritten(urls)
  BY <1>1, ReturnedFacts
<1>3. CASE CanParseReturns
  <2>. DEFINE u == IF op = "parse_with_base" THEN EmptyUrl ELSE old
  <2>1. u \in Url /\ Resting(u) /\ arg \in Text
    BY <1>2, <1>3, EmptyUrlRests DEF CallOK, CanParseReturns, GivesBackOld
  <2>2. CallOK'
    BY <1>2, <1>3 DEF CanParseReturns, CallOK
  <2>3. BeginParse(u, TRUE, arg, base, hasBase)
    BY <1>3 DEF CanParseReturns
  <2>. HIDE DEF u
  <2>. QED  BY <1>2, <2>1, <2>2, <2>3, WorkTyped, BeginParseStep
<1>4. CASE ParseReturns
  <2>. DEFINE u == IF res = "ok" THEN Validated(url)
                   ELSE IF op \in {"parse", "reparse"} THEN url ELSE old
  <2>1. /\ Done(res, u) /\ UNCHANGED parserVars /\ UNCHANGED callVars
        /\ urls.save /\ ~urls.setter
    BY <1>4 DEF ParseReturns
  <2>2. CallOK'
    BY <1>2, <2>1 DEF CallOK, callVars
  <2>3. u \in Url /\ Resting(u)
    <3>1. CASE res = "ok"
      BY <1>2, <2>1, <3>1, ValidatedRests DEF PathWritten, url
    <3>2. CASE res # "ok"
      BY <1>1, <1>2, <3>2 DEF CallOK, url, GivesBackOld
    <3>. QED  BY <3>1, <3>2
  <2>. HIDE DEF u
  <2>. QED  BY <1>2, <2>1, <2>2, <2>3, WorkTyped, DoneStep
<1>5. CASE SetterReturns
  <2>1. Done(res, url) /\ UNCHANGED parserVars /\ UNCHANGED callVars
    BY <1>5 DEF SetterReturns
  <2>2. CallOK'
    BY <1>2, <2>1 DEF CallOK, callVars
  <2>. QED  BY <1>2, <2>1, <2>2, WorkTyped, DoneStep DEF url
<1>. QED  BY <1>3, <1>4, <1>5

LEMMA ResumeStep ==
    ASSUME WorkInv, Resume
    PROVE  WorkInv'
<1>1. /\ pc = "done" /\ pc' = "idle" /\ urls' = urls /\ ptr' = <<>> /\ override' = FALSE
      /\ base' = EmptyUrl /\ hasBase' = FALSE /\ res' = "ok" /\ op' = "none"
      /\ arg' = <<>> /\ old' = EmptyUrl /\ can' = "none"
  BY DEF Resume
<1>2. "ok" \in Result /\ <<>> \in Text /\ "idle" \notin ParserState
  BY DEF Result, HostResult, Text, ParserState
<1>3. TypeOK'
  BY <1>1, <1>2, EmptyUrlRests DEF WorkInv, WorkShape, TypeOK
<1>4. Resting(url) /\ ~urls.setter
  BY <1>1 DEF WorkInv, WorkShape, AtRest
<1>. QED
  BY <1>1, <1>2, <1>3, <1>4, EmptyUrlRests DEF WorkInv, WorkShape, AtRest, url

-----------------------------------------------------------------------------
(* The invariant.                                                          *)

LEMMA WorkInit ==
    ASSUME Init
    PROVE  WorkInv
<1>1. /\ urls = NewSerializer(EmptyUrl, TRUE) /\ pc = "idle" /\ ptr = <<>> /\ override = FALSE
      /\ base = EmptyUrl /\ hasBase = FALSE /\ res = "ok" /\ op = "none"
      /\ arg = <<>> /\ old = EmptyUrl /\ can = "none"
  BY DEF Init
<1>2. urls \in Serializer /\ urls.u = EmptyUrl /\ ~urls.setter /\ urls.sane
  BY <1>1, EmptyUrlRests, NewSerializerType
<1>3. "ok" \in Result /\ <<>> \in Text /\ "idle" \notin ParserState
  BY DEF Result, HostResult, Text, ParserState
<1>4. TypeOK
  BY <1>1, <1>2, <1>3, EmptyUrlRests DEF TypeOK
<1>. QED
  BY <1>1, <1>2, <1>3, <1>4, EmptyUrlRests DEF WorkInv, WorkShape, AtRest, url

LEMMA WorkNext ==
    ASSUME WorkInv, [Next]_vars, GivesBackOld => Resting(old)
    PROVE  WorkInv'
<1>1. CASE MakeCall
  BY <1>1, MakeCallStep
<1>2. CASE \/ SchemeStartState \/ SchemeOverride \/ SchemeState \/ NotAScheme
           \/ NoSchemeState
  BY <1>2, SchemeStartStep, SchemeOverrideStep, SchemeStateStep, NotASchemeStep,
     NoSchemeStep
<1>3. CASE \/ SpecialRelativeOrAuthorityState \/ PathOrAuthorityState \/ RelativeState
           \/ RelativeSlashState \/ SpecialAuthoritySlashesState
           \/ SpecialAuthorityIgnoreSlashesState
  BY <1>3, SpecialRelativeOrAuthorityStep, PathOrAuthorityStep, RelativeStep,
     RelativeSlashStep, SpecialAuthoritySlashesStep, SpecialAuthorityIgnoreSlashesStep
<1>4. CASE AuthorityState \/ HostState \/ FileHostOverride \/ PortState
  BY <1>4, AuthorityStep, HostStep, FileHostOverrideStep, PortStep
<1>5. CASE FileState \/ FileSlashState \/ FileHostState
  BY <1>5, FileStep, FileSlashStep, FileHostStep
<1>6. CASE \/ NothingToSave \/ PathStartState \/ PathState \/ PathEndState
           \/ OpaquePathState \/ QueryState \/ FragmentState
  BY <1>6, NothingToSaveStep, PathStartStep, PathStep, PathEndStep, OpaquePathStep,
     QueryStep, FragmentStep
<1>7. CASE CanParseReturns \/ ParseReturns \/ SetterReturns \/ Resume
  BY <1>7, ReturnSteps, ResumeStep
<1>8. CASE UNCHANGED vars
  <2>1. /\ urls' = urls /\ pc' = pc /\ ptr' = ptr /\ override' = override /\ base' = base
        /\ hasBase' = hasBase /\ res' = res /\ op' = op /\ arg' = arg /\ old' = old
        /\ can' = can
    BY <1>8 DEF vars
  <2>2. TypeOK' /\ AtRest' = AtRest /\ url' = url
    BY <2>1 DEF WorkInv, WorkShape, TypeOK, AtRest, url
  <2>3. ReturnOK(urls)' = ReturnOK(urls) /\ ParsingOK(urls)' = ParsingOK(urls)
        /\ SettingOK(urls)' = SettingOK(urls)
    BY <2>1 DEF ReturnOK, ParsingOK, SettingOK, SegEndsInOrder
  <2>. QED  BY <2>1, <2>2, <2>3 DEF WorkInv, WorkShape
<1>. QED
  BY <1>1, <1>2, <1>3, <1>4, <1>5, <1>6, <1>7, <1>8 DEF Next, Step

\* No block forgets the call, or what the url was before it.
InBlock ==
    /\ pc \in ParserState /\ pc' \in ParserState \cup {"return"}
    /\ UNCHANGED <<override, callVars>>

LEMMA BlocksKeepCall ==
    ASSUME Step
    PROVE  InBlock \/ CanParseReturns \/ ParseReturns \/ SetterReturns \/ Resume
<1>1. ASSUME SchemeStartState \/ SchemeOverride \/ SchemeState \/ NotAScheme \/
             NoSchemeState
      PROVE  InBlock
  <2>1. SchemeStartState => InBlock
    BY DEF SchemeStartState, InBlock, ParserState, PathOnward, Goto, Return, parserVars
  <2>2. SchemeOverride => InBlock
    BY DEF SchemeOverride, InBlock, ParserState, PathOnward, Goto, Return, parserVars
  <2>3. SchemeState => InBlock
    BY DEF SchemeState, InBlock, ParserState, PathOnward, Goto, Return, parserVars
  <2>4. NotAScheme => InBlock
    BY DEF NotAScheme, InBlock, ParserState, PathOnward, Goto, Return, parserVars
  <2>5. NoSchemeState => InBlock
    BY DEF NoSchemeState, InBlock, ParserState, PathOnward, Goto, Return, parserVars
  <2>. QED  BY <1>1, <2>1, <2>2, <2>3, <2>4, <2>5
<1>2. ASSUME SpecialRelativeOrAuthorityState \/ PathOrAuthorityState \/
             RelativeState \/ RelativeSlashState \/ SpecialAuthoritySlashesState \/
             SpecialAuthorityIgnoreSlashesState
      PROVE  InBlock
  <2>1. SpecialRelativeOrAuthorityState => InBlock
    BY DEF SpecialRelativeOrAuthorityState, InBlock, ParserState, PathOnward, Goto, Return, parserVars
  <2>2. PathOrAuthorityState => InBlock
    BY DEF PathOrAuthorityState, InBlock, ParserState, PathOnward, Goto, Return, parserVars
  <2>3. RelativeState => InBlock
    BY DEF RelativeState, InBlock, ParserState, PathOnward, Goto, Return, parserVars
  <2>4. RelativeSlashState => InBlock
    BY DEF RelativeSlashState, InBlock, ParserState, PathOnward, Goto, Return, parserVars
  <2>5. SpecialAuthoritySlashesState => InBlock
    BY DEF SpecialAuthoritySlashesState, InBlock, ParserState, PathOnward, Goto, Return, parserVars
  <2>6. SpecialAuthorityIgnoreSlashesState => InBlock
    BY DEF SpecialAuthorityIgnoreSlashesState, InBlock, ParserState, PathOnward, Goto, Return, parserVars
  <2>. QED  BY <1>2, <2>1, <2>2, <2>3, <2>4, <2>5, <2>6
<1>3. ASSUME AuthorityState \/ HostState \/ FileHostOverride \/ PortState
      PROVE  InBlock
  <2>1. AuthorityState => InBlock
    BY DEF AuthorityState, InBlock, ParserState, PathOnward, Goto, Return, parserVars
  <2>2. HostState => InBlock
    BY DEF HostState, InBlock, ParserState, PathOnward, Goto, Return, parserVars
  <2>3. FileHostOverride => InBlock
    BY DEF FileHostOverride, InBlock, ParserState, PathOnward, Goto, Return, parserVars
  <2>4. PortState => InBlock
    BY DEF PortState, InBlock, ParserState, PathOnward, Goto, Return, parserVars
  <2>. QED  BY <1>3, <2>1, <2>2, <2>3, <2>4
<1>4. ASSUME FileState \/ FileSlashState \/ FileHostState
      PROVE  InBlock
  <2>1. FileState => InBlock
    BY DEF FileState, InBlock, ParserState, PathOnward, Goto, Return, parserVars
  <2>2. FileSlashState => InBlock
    BY DEF FileSlashState, InBlock, ParserState, PathOnward, Goto, Return, parserVars
  <2>3. FileHostState => InBlock
    BY DEF FileHostState, InBlock, ParserState, PathOnward, Goto, Return, parserVars
  <2>. QED  BY <1>4, <2>1, <2>2, <2>3
<1>5. ASSUME NothingToSave \/ PathStartState \/ PathState \/ PathEndState \/
             OpaquePathState \/ QueryState \/ FragmentState
      PROVE  InBlock
  <2>1. NothingToSave => InBlock
    BY DEF NothingToSave, InBlock, ParserState, PathOnward, Goto, Return, parserVars
  <2>2. PathStartState => InBlock
    BY DEF PathStartState, InBlock, ParserState, PathOnward, Goto, Return, parserVars
  <2>3. PathState => InBlock
    BY DEF PathState, InBlock, ParserState, PathOnward, Goto, Return, parserVars
  <2>4. PathEndState => InBlock
    BY DEF PathEndState, InBlock, ParserState, PathOnward, Goto, Return, parserVars
  <2>5. OpaquePathState => InBlock
    BY DEF OpaquePathState, InBlock, ParserState, PathOnward, Goto, Return, parserVars
  <2>6. QueryState => InBlock
    BY DEF QueryState, InBlock, ParserState, PathOnward, Goto, Return, parserVars
  <2>7. FragmentState => InBlock
    BY DEF FragmentState, InBlock, ParserState, PathOnward, Goto, Return, parserVars
  <2>. QED  BY <1>5, <2>1, <2>2, <2>3, <2>4, <2>5, <2>6, <2>7
<1>. QED  BY <1>1, <1>2, <1>3, <1>4, <1>5 DEF Step

\* old is what a caller saw.
LEMMA OldRests ==
    ASSUME WorkInv, Resting(old), [Next]_vars
    PROVE  Resting(old)'
<1>1. CASE MakeCall
  <2>1. old' = url /\ AtRest
    BY <1>1, Zenon DEF MakeCall, Parse, ParseWithBase, Reparse, SetHref, Clear, SetProtocol,
       SetUsername, SetPassword, SetUserinfo, SetHost, SetHostname, SetPathname, SetPort,
       SetSearch, SetHash, SetLast, EnterSetter, Set, Called, AtRest
  <2>. QED  BY <2>1 DEF WorkInv, WorkShape
<1>2. CASE InBlock
  BY <1>2 DEF InBlock, callVars
<1>3. CASE CanParseReturns \/ ParseReturns \/ SetterReturns
  BY <1>3 DEF CanParseReturns, ParseReturns, SetterReturns, callVars
<1>4. CASE Resume
  BY <1>4, EmptyUrlRests DEF Resume
<1>5. CASE UNCHANGED vars
  BY <1>5 DEF vars
<1>. QED  BY <1>1, <1>2, <1>3, <1>4, <1>5, BlocksKeepCall DEF Next

LEMMA ParserInit ==
    ASSUME Init
    PROVE  ParserInv
<1>1. WorkInv
  BY WorkInit
<1>2. Resting(old)
  BY EmptyUrlRests DEF Init
<1>. QED  BY <1>1, <1>2 DEF ParserInv, ShapeInv, WorkInv

LEMMA ParserNext ==
    ASSUME ParserInv, [Next]_vars
    PROVE  ParserInv'
<1>1. WorkInv /\ Resting(old)
  BY DEF ParserInv, ShapeInv, WorkInv
<1>2. WorkInv' /\ Resting(old)'
  BY <1>1, WorkNext, OldRests
<1>. QED  BY <1>2 DEF ParserInv, ShapeInv, WorkInv

LEMMA ParserInvariance == Spec => []ParserInv
<1>1. Init => ParserInv
  BY ParserInit
<1>2. ParserInv /\ [Next]_vars => ParserInv'
  BY ParserNext
<1>. QED  BY <1>1, <1>2, PTL DEF Spec

\* In every state of every call the url object and its serializer have the
\* shape that the block of url_parse that comes next, or the caller, expects:
\* the part of the inductive invariant that is about ends, flags and types.
THEOREM ShapeIsKept == Spec => []ShapeInv
<1>1. ParserInv => ShapeInv
  BY DEF ParserInv
<1>. QED  BY <1>1, ParserInvariance, PTL

\* Every variable keeps its type.
THEOREM TypesAreKept == Spec => []TypeOK
<1>1. ParserInv => TypeOK
  BY DEF ParserInv, ShapeInv, WorkShape
<1>. QED  BY <1>1, ParserInvariance, PTL

\* No assert() of url_serializer, url_setter and url_parse ever fails: parts
\* are started in order, a host is emptied right after it was written, a path
\* is shortened only before the query, an opaque path has no segments.
THEOREM AssertsNeverFail == Spec => []AssertsHold
<1>1. ParserInv => AssertsHold
  BY DEF ParserInv, AssertsHold
<1>. QED  BY <1>1, ParserInvariance, PTL

\* part_end_ stays in order, without a gap, and ends where norm_url_ ends, in
\* every state of every call: the offsets that get_part_view and replace_part
\* compute from it are those of the parts.
THEOREM EndsStayInOrder == Spec => []EndsInOrder
<1>1. ASSUME ParserInv PROVE EndsInOrder
  <2>1. WellFormed(url)
    <3>1. AtRest => WellFormed(url)
      BY <1>1 DEF ParserInv, ShapeInv, WorkShape, Resting, Sound, Ordered, WellFormed
    <3>2. pc = "return" => WellFormed(url)
      <4>. SUFFICES ASSUME pc = "return" PROVE WellFormed(url)
        OBVIOUS
      <4>1. Resting(urls.u)
        BY <1>1, ReturnedFacts DEF ParserInv, ShapeInv, WorkInv
      <4>. QED  BY <4>1 DEF Resting, Sound, Ordered, WellFormed, url
    <3>3. pc \in ParserState /\ urls.setter => WellFormed(url)
      BY <1>1 DEF ParserInv, ShapeInv, WorkShape, SettingOK, Complete, CompleteUpTo, Sound, Ordered,
                  WellFormed, url
    <3>4. pc \in ParserState /\ ~urls.setter => WellFormed(url)
      <4>. SUFFICES ASSUME pc \in ParserState, ~urls.setter PROVE WellFormed(url)
        OBVIOUS
      <4>1. Fresh(urls) \/ Appending(urls)
        BY <1>1 DEF ParserInv, ShapeInv, WorkShape, ParsingOK
      <4>2. urls.last \in Part
        BY <1>1, SerializerType DEF ParserInv, ShapeInv, WorkShape, TypeOK
      <4>. QED  BY <4>1, <4>2 DEF Fresh, Appending, Sound, Ordered, WellFormed, url
    <3>5. AtRest \/ pc = "return" \/ pc \in ParserState
      BY <1>1 DEF ParserInv, ShapeInv, WorkShape, TypeOK, AtRest
    <3>. QED  BY <3>1, <3>2, <3>3, <3>4, <3>5
  <2>2. ASSUME ~urls.setter, ~AtRest, url # EmptyUrl
        PROVE  EndsUpTo(url, urls.last)
    <3>1. pc = "return" \/ pc \in ParserState
      BY <1>1, <2>2 DEF ParserInv, ShapeInv, WorkShape, TypeOK, AtRest
    <3>2. Fresh(urls) \/ Appending(urls)
      BY <1>1, <2>2, <3>1 DEF ParserInv, ShapeInv, WorkShape, ReturnOK, ParsingOK
    <3>. QED  BY <2>2, <3>2 DEF Fresh, Appending, Sound, Ordered, url
  <2>. QED  BY <2>1, <2>2 DEF EndsInOrder
<1>2. ParserInv => EndsInOrder
  BY <1>1
<1>. QED  BY <1>2, ParserInvariance, PTL

-----------------------------------------------------------------------------
(* The order of the blocks.                                                *)

LEMMA Blocks ==
    /\ Block("scheme_start") = 1 /\ Block("scheme") = 2 /\ Block("no_scheme") = 3
    /\ Block("special_relative_or_authority") = 4 /\ Block("path_or_authority") = 5
    /\ Block("relative") = 6 /\ Block("relative_slash") = 7
    /\ Block("special_authority_slashes") = 8
    /\ Block("special_authority_ignore_slashes") = 9
    /\ Block("authority") = 10 /\ Block("host") = 11 /\ Block("hostname") = 12
    /\ Block("port") = 13 /\ Block("file") = 14 /\ Block("file_slash") = 15
    /\ Block("file_host") = 16 /\ Block("path_start") = 17 /\ Block("path") = 18
    /\ Block("path_end") = 19 /\ Block("opaque_path") = 20 /\ Block("query") = 21
    /\ Block("fragment") = 22
<1>1. /\ Len(BlockOrder) = 22
      /\ BlockOrder[1] = "scheme_start" /\ BlockOrder[2] = "scheme"
      /\ BlockOrder[3] = "no_scheme" /\ BlockOrder[4] = "special_relative_or_authority"
      /\ BlockOrder[5] = "path_or_authority" /\ BlockOrder[6] = "relative"
      /\ BlockOrder[7] = "relative_slash" /\ BlockOrder[8] = "special_authority_slashes"
      /\ BlockOrder[9] = "special_authority_ignore_slashes"
      /\ BlockOrder[10] = "authority" /\ BlockOrder[11] = "host"
      /\ BlockOrder[12] = "hostname" /\ BlockOrder[13] = "port" /\ BlockOrder[14] = "file"
      /\ BlockOrder[15] = "file_slash" /\ BlockOrder[16] = "file_host"
      /\ BlockOrder[17] = "path_start" /\ BlockOrder[18] = "path"
      /\ BlockOrder[19] = "path_end" /\ BlockOrder[20] = "opaque_path"
      /\ BlockOrder[21] = "query" /\ BlockOrder[22] = "fragment"
  BY DEF BlockOrder
<1>2. ASSUME NEW i \in 1 .. 22, NEW j \in 1 .. 22, BlockOrder[i] = BlockOrder[j]
      PROVE  i = j
  BY <1>1, <1>2
<1>3. ASSUME NEW i \in 1 .. 22
      PROVE  Block(BlockOrder[i]) = i
  BY <1>1, <1>2, <1>3 DEF Block
<1>. QED  BY <1>1, <1>3

\* A block returns, or goes to a later block.
Onward == pc' = "return" \/ Block(pc) < Block(pc')

LEMMA FirstBlocksGoOn ==
    ASSUME \/ SchemeStartState \/ SchemeOverride \/ SchemeState \/ NotAScheme \/ NoSchemeState
    PROVE  Onward
<1>1. SchemeStartState => Onward
  BY Blocks DEF SchemeStartState, Onward, Goto, Return
<1>2. SchemeOverride => Onward
  BY Blocks DEF SchemeOverride, Onward, Goto, Return
<1>3. SchemeState => Onward
  BY Blocks DEF SchemeState, Onward, Goto, Return
<1>4. NotAScheme => Onward
  BY Blocks DEF NotAScheme, Onward, Goto, Return
<1>5. NoSchemeState => Onward
  BY Blocks DEF NoSchemeState, Onward, Goto, Return
<1>. QED  BY <1>1, <1>2, <1>3, <1>4, <1>5

LEMMA RelativeBlocksGoOn ==
    ASSUME \/ SpecialRelativeOrAuthorityState \/ PathOrAuthorityState \/ RelativeState
           \/ RelativeSlashState \/ SpecialAuthoritySlashesState
           \/ SpecialAuthorityIgnoreSlashesState
    PROVE  Onward
<1>1. SpecialRelativeOrAuthorityState => Onward
  BY Blocks DEF SpecialRelativeOrAuthorityState, Onward, Goto
<1>2. PathOrAuthorityState => Onward
  BY Blocks DEF PathOrAuthorityState, Onward, Goto
<1>3. RelativeState => Onward
  BY Blocks DEF RelativeState, Onward, Goto, Return
<1>4. RelativeSlashState => Onward
  BY Blocks DEF RelativeSlashState, Onward, Goto
<1>5. SpecialAuthoritySlashesState => Onward
  BY Blocks DEF SpecialAuthoritySlashesState, Onward, Goto
<1>6. SpecialAuthorityIgnoreSlashesState => Onward
  BY Blocks DEF SpecialAuthorityIgnoreSlashesState, Onward, Goto
<1>. QED  BY <1>1, <1>2, <1>3, <1>4, <1>5, <1>6

LEMMA AuthorityBlocksGoOn ==
    ASSUME \/ AuthorityState \/ HostState \/ FileHostOverride \/ PortState
           \/ FileState \/ FileSlashState \/ FileHostState
    PROVE  Onward
<1>1. AuthorityState => Onward
  BY Blocks DEF AuthorityState, Onward, Goto, Return
<1>2. HostState => Onward
  <2>. SUFFICES ASSUME HostState PROVE Onward
    OBVIOUS
  <2>1. pc \in {"host", "hostname"} /\ pc' \in {"return", "port", "path_start"}
    BY DEF HostState, Goto, Return
  <2>. QED  BY <2>1, Blocks DEF Onward
<1>3. FileHostOverride => Onward
  BY Blocks DEF FileHostOverride, Onward, Goto
<1>4. PortState => Onward
  <2>. SUFFICES ASSUME PortState PROVE Onward
    OBVIOUS
  <2>1. pc = "port" /\ pc' \in {"return", "path_start"}
    BY DEF PortState, Goto, Return
  <2>. QED  BY <2>1, Blocks DEF Onward
<1>5. FileState => Onward
  BY Blocks DEF FileState, Onward, Goto, Return
<1>6. FileSlashState => Onward
  BY Blocks DEF FileSlashState, Onward, Goto
<1>7. FileHostState => Onward
  BY Blocks DEF FileHostState, Onward, Goto, Return
<1>. QED  BY <1>1, <1>2, <1>3, <1>4, <1>5, <1>6, <1>7

LEMMA LastBlocksGoOn ==
    ASSUME \/ NothingToSave \/ PathStartState \/ PathEndState
           \/ OpaquePathState \/ QueryState \/ FragmentState
    PROVE  Onward
<1>1. NothingToSave => Onward
  BY DEF NothingToSave, Onward, Return
<1>2. PathStartState => Onward
  <2>. SUFFICES ASSUME PathStartState PROVE Onward
    OBVIOUS
  <2>1. pc' \in {"return", "path", "query", "fragment"}
    BY DEF PathStartState, Goto, Return
  <2>2. pc = "path_start"
    BY DEF PathStartState
  <2>. QED  BY <2>1, <2>2, Blocks DEF Onward
<1>3. PathEndState => Onward
  BY Blocks DEF PathEndState, Onward, Goto, Return
<1>4. OpaquePathState => Onward
  BY Blocks DEF OpaquePathState, Onward, Goto, Return
<1>5. QueryState => Onward
  BY Blocks DEF QueryState, Onward, Goto, Return
<1>6. FragmentState => Onward
  BY DEF FragmentState, Onward, Return
<1>. QED  BY <1>1, <1>2, <1>3, <1>4, <1>5, <1>6

\* The loop over the segments takes something off the input each time.
LEMMA PathGoesOn ==
    ASSUME ptr \in Text, PathState
    PROVE  GoesForward
<1>. DEFINE path == Before(ptr, EndOfPath)
            end == FindFirst(path, IF special THEN Slash ELSE {"/"})
            isLast == end > Len(path)
<1>1. \/ pc = "path" /\ pc' = "path_end"
      \/ pc = "path" /\ pc' = "path" /\ ~isLast /\ ptr' = From(ptr, end + 1)
  BY DEF PathState, Goto
<1>2. EndOfPath \in 1 .. Len(ptr) + 1 /\ Len(ptr) \in Nat
  <2>1. Len(ptr) \in Nat
    BY DEF Text
  <2>. QED  BY <2>1, FindFirstRange DEF EndOfPath
<1>3. path \in Text /\ Len(path) = EndOfPath - 1
  BY <1>2, BeforeText
<1>4. end \in 1 .. Len(path) + 1
  BY <1>3, FindFirstRange
<1>. HIDE DEF end, path
<1>5. ~isLast => Len(From(ptr, end + 1)) < Len(ptr)
  <2>. SUFFICES ASSUME ~isLast PROVE Len(From(ptr, end + 1)) < Len(ptr)
    OBVIOUS
  <2>1. end \in Nat /\ 1 =< end /\ end =< Len(ptr)
    BY <1>2, <1>3, <1>4
  <2>2. Len(SubSeq(ptr, end + 1, Len(ptr))) = Len(ptr) - end
    BY <1>2, <2>1, PieceText
  <2>. QED  BY <1>2, <2>1, <2>2 DEF From
<1>. HIDE DEF isLast
<1>. QED  BY <1>1, <1>5, Blocks DEF GoesForward

\* url_parse never returns to a block it has left, whatever the text: each
\* transition goes to a block that stands later in the code, or takes one more
\* segment of the path off the input.
THEOREM BlocksGoForward == Spec => StatesGoForward
<1>1. ASSUME ParserInv, [Next]_vars
      PROVE  [GoesForward]_vars
  <2>1. Onward => GoesForward
    BY DEF Onward, GoesForward, ParserState
  <2>2. ptr \in Text
    BY <1>1 DEF ParserInv, ShapeInv, WorkShape, TypeOK
  <2>3. CASE MakeCall
    BY <2>3 DEF MakeCall, GoesForward, ParserState
  <2>4. CASE \/ SchemeStartState \/ SchemeOverride \/ SchemeState \/ NotAScheme
             \/ NoSchemeState
    BY <2>1, <2>4, FirstBlocksGoOn
  <2>5. CASE \/ SpecialRelativeOrAuthorityState \/ PathOrAuthorityState \/ RelativeState
             \/ RelativeSlashState \/ SpecialAuthoritySlashesState
             \/ SpecialAuthorityIgnoreSlashesState
    BY <2>1, <2>5, RelativeBlocksGoOn
  <2>6. CASE \/ AuthorityState \/ HostState \/ FileHostOverride \/ PortState
             \/ FileState \/ FileSlashState \/ FileHostState
    BY <2>1, <2>6, AuthorityBlocksGoOn
  <2>7. CASE \/ NothingToSave \/ PathStartState \/ PathEndState
             \/ OpaquePathState \/ QueryState \/ FragmentState
    BY <2>1, <2>7, LastBlocksGoOn
  <2>8. CASE PathState
    BY <2>2, <2>8, PathGoesOn
  <2>9. CASE CanParseReturns \/ ParseReturns \/ SetterReturns \/ Resume
    BY <2>9 DEF CanParseReturns, ParseReturns, SetterReturns, Resume, GoesForward, ParserState
  <2>10. CASE UNCHANGED vars
    BY <2>10
  <2>. QED
    BY <1>1, <2>3, <2>4, <2>5, <2>6, <2>7, <2>8, <2>9, <2>10 DEF Next, Step
<1>2. ParserInv /\ [Next]_vars => [GoesForward]_vars
  BY <1>1
<1>. QED  BY <1>2, ParserInvariance, PTL DEF Spec, StatesGoForward
=============================================================================

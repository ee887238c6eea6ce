-------------------------- MODULE UrlPathTheorems --------------------------
(***************************************************************************)
(* path_segment_count_ is the number of segments of the path (PathInv), in *)
(* every state of every call: of the path that url_serializer appends to,  *)
(* of a base url's path that it copies and cuts, and of the path that      *)
(* url_setter collects in its buffer.  With it, the whole invariant IInv   *)
(* of the url is inductive.  At the end, the paths of files: what          *)
(* path_from_file_url returns is absolute, and url_from_file_path refuses  *)
(* every path that has two dots for a component.                           *)
(***************************************************************************)
EXTENDS FilePath, UrlRecordTheorems, FiniteSetTheorems

-----------------------------------------------------------------------------
(* Counting the separators of a text.                                      *)

SlashesOf(s) == {i \in 1 .. Len(s) : s[i] = "/"}

NoSlash(s) == \A i \in 1 .. Len(s) : s[i] # "/"

\* The number of separators is a number.
LEMMA SeparatorsAreFinite ==
    ASSUME NEW s \in Text
    PROVE  /\ IsFiniteSet(SlashesOf(s)) /\ Separators(s) = Cardinality(SlashesOf(s))
           /\ Separators(s) \in Nat /\ Len(s) \in Nat
<1>1. Len(s) \in Nat
  BY DEF Text
<1>2. IsFiniteSet(1 .. Len(s))
  BY <1>1, FS_Interval
<1>3. SlashesOf(s) \in SUBSET (1 .. Len(s))
  BY DEF SlashesOf
<1>4. IsFiniteSet(SlashesOf(s))
  BY <1>2, <1>3, FS_Subset
<1>5. Separators(s) = Cardinality(SlashesOf(s))
  BY DEF Separators, SlashesOf
<1>. QED  BY <1>1, <1>4, <1>5, FS_CardinalityType

\* A text without '/' has no separators.
LEMMA NoSeparators ==
    ASSUME NEW s \in Text
    PROVE  Separators(s) = 0 <=> NoSlash(s)
<1>1. SlashesOf(s) = {} <=> NoSlash(s)
  BY DEF SlashesOf, NoSlash
<1>. QED  BY <1>1, SeparatorsAreFinite, FS_EmptySet

LEMMA EmptyHasNoSeparators == Separators(<<>>) = 0 /\ <<>> \in Text /\ NoSlash(<<>>)
<1>1. <<>> \in Text /\ Len(<<>>) = 0
  BY DEF Text
<1>2. NoSlash(<<>>)
  BY <1>1 DEF NoSlash
<1>. QED  BY <1>1, <1>2, NoSeparators

\* Two texts with the same separators in the same places.
LEMMA SameSeparators ==
    ASSUME NEW s \in Text, NEW r \in Text, SlashesOf(s) = SlashesOf(r)
    PROVE  Separators(s) = Separators(r)
BY SeparatorsAreFinite

\* A segment behind its '/' adds one separator.
LEMMA SegmentAdded ==
    ASSUME NEW s \in Text, NEW r \in Text, NoSlash(r)
    PROVE  LET p == s \o (<<"/">> \o r)
           IN /\ p \in Text /\ Separators(p) = Separators(s) + 1
              /\ s = <<>> \/ StartsWith(s, "/") => StartsWith(p, "/")
              /\ Len(p) = Len(s) + 1 + Len(r)
<1>. DEFINE p == s \o (<<"/">> \o r)
            n == Len(s)
<1>1. "/" \in Char
  BY CharAssumption DEF Written
<1>2. /\ p \in Text /\ Len(p) = n + 1 + Len(r) /\ n \in Nat /\ Len(r) \in Nat
      /\ \A i \in 1 .. n : p[i] = s[i]
      /\ p[n + 1] = "/"
      /\ \A i \in 1 .. Len(r) : p[n + 1 + i] = r[i]
  <2>1. <<"/">> \o r \in Seq(Char) /\ Len(<<"/">> \o r) = 1 + Len(r)
        /\ (<<"/">> \o r)[1] = "/" /\ \A i \in 1 .. Len(r) : (<<"/">> \o r)[1 + i] = r[i]
    BY <1>1 DEF Text
  <2>. DEFINE q == <<"/">> \o r
  <2>. HIDE DEF q
  <2>2. q \in Seq(Char) /\ Len(q) = 1 + Len(r) /\ q[1] = "/" /\ Len(r) \in Nat
        /\ \A i \in 1 .. Len(r) : q[1 + i] = r[i]
    BY <2>1 DEF q, Text
  <2>3. p = s \o q
    BY DEF q
  <2>. HIDE DEF p
  <2>4. p \in Text /\ Len(p) = n + Len(q) /\ n \in Nat
    <3>1. s \in Seq(Char) /\ q \in Seq(Char)
      BY <2>2 DEF Text
    <3>. HIDE DEF n
    <3>2. s \o q \in Seq(Char) /\ Len(s \o q) = Len(s) + Len(q) /\ Len(s) \in Nat
      BY <3>1
    <3>. QED  BY <2>3, <3>2 DEF Text, n
  <2>5. \A i \in 1 .. n : p[i] = s[i]
    BY <2>2, <2>3 DEF Text
  <2>6. \A i \in 1 .. Len(q) : p[n + i] = q[i]
    BY <2>2, <2>3 DEF Text
  <2>7. \A i \in 1 .. Len(r) : 1 + i \in 1 .. Len(q) /\ n + (1 + i) = n + 1 + i
    BY <2>2, <2>4
  <2>8. \A i \in 1 .. Len(r) : p[n + 1 + i] = r[i]
    BY <2>2, <2>6, <2>7
  <2>. QED  BY <2>2, <2>4, <2>5, <2>6, <2>8
<1>. HIDE DEF p
<1>3. SlashesOf(p) = SlashesOf(s) \cup {n + 1}
  <2>1. \A i \in 1 .. Len(p) : i > n + 1 => p[i] # "/"
    <3>1. SUFFICES ASSUME NEW i \in 1 .. Len(p), i > n + 1 PROVE p[i] # "/"
      OBVIOUS
    <3>2. i - (n + 1) \in 1 .. Len(r) /\ n + 1 + (i - (n + 1)) = i
      BY <1>2, <3>1
    <3>. QED  BY <1>2, <3>2 DEF NoSlash
  <2>. HIDE DEF n
  <2>2. \A i : i \in 1 .. Len(p) <=> i \in 1 .. n \/ i = n + 1 \/ (i \in 1 .. Len(p) /\ i > n + 1)
    BY <1>2
  <2>3. \A i : i \in SlashesOf(p) <=> (i \in 1 .. n /\ s[i] = "/") \/ i = n + 1
    BY <1>2, <2>1, <2>2 DEF SlashesOf
  <2>4. \A i : i \in SlashesOf(s) <=> i \in 1 .. n /\ s[i] = "/"
    BY DEF SlashesOf, n
  <2>. QED  BY <2>3, <2>4
<1>4. n + 1 \notin SlashesOf(s)
  BY <1>2 DEF SlashesOf
<1>5. Cardinality(SlashesOf(p)) = Cardinality(SlashesOf(s)) + 1
  BY <1>3, <1>4, SeparatorsAreFinite, FS_AddElement
<1>6. Separators(p) = Separators(s) + 1
  BY <1>2, <1>5, SeparatorsAreFinite
<1>7. s = <<>> \/ StartsWith(s, "/") => StartsWith(p, "/")
  <2>1. p # <<>>
    BY <1>2
  <2>2. CASE s = <<>>
    BY <1>2, <2>1, <2>2 DEF StartsWith
  <2>3. CASE StartsWith(s, "/")
    <3>1. s # <<>> /\ s[1] = "/" /\ 1 \in 1 .. n
      BY <1>2, <2>3 DEF StartsWith, Text
    <3>. QED  BY <1>2, <2>1, <3>1 DEF StartsWith
  <2>. QED  BY <2>2, <2>3
<1>. QED  BY <1>2, <1>6, <1>7 DEF p

\* The text before its last '/' has one separator less.
LEMMA LastSegmentCut ==
    ASSUME NEW s \in Text, Separators(s) > 0
    PROVE  LET at == FindLast(s, {"/"})
               p == Slice(s, 0, at - 1)
           IN /\ at \in 1 .. Len(s) /\ p \in Text /\ Separators(p) = Separators(s) - 1
              /\ StartsWith(s, "/") => p = <<>> \/ StartsWith(p, "/")
<1>. DEFINE at == FindLast(s, {"/"})
            p == Slice(s, 0, at - 1)
<1>1. Len(s) \in Nat /\ SlashesOf(s) # {} /\ SlashesOf(s) \subseteq Nat
  BY SeparatorsAreFinite, FS_EmptySet DEF SlashesOf
<1>2. at \in SlashesOf(s) /\ \A j \in SlashesOf(s) : j =< at
  <2>1. SlashesOf(s) = {i \in 1 .. Len(s) : s[i] \in {"/"}}
    BY DEF SlashesOf
  <2>2. at = CHOOSE i \in SlashesOf(s) : \A j \in SlashesOf(s) : j =< i
    BY <1>1, <2>1 DEF FindLast
  <2>3. \E i \in SlashesOf(s) : \A j \in SlashesOf(s) : j =< i
    <3>1. SlashesOf(s) \subseteq 1 .. Len(s)
      BY DEF SlashesOf
    <3>. QED  BY <1>1, <3>1, Largest
  <2>. HIDE DEF at
  <2>. QED  BY <2>2, <2>3
<1>. HIDE DEF at
<1>3. at \in 1 .. Len(s) /\ s[at] = "/"
  BY <1>2 DEF SlashesOf
<1>4. /\ p \in Text /\ Len(p) = at - 1
      /\ \A i \in 1 .. at - 1 : p[i] = s[i]
  <2>1. InText(s, 0, at - 1)
    BY <1>1, <1>3 DEF InText
  <2>. QED  BY <1>1, <1>3, <2>1, SliceText
<1>. HIDE DEF p
<1>5. SlashesOf(p) = SlashesOf(s) \ {at}
  <2>1. \A i : i \in 1 .. at - 1 <=> i \in 1 .. Len(s) /\ i < at
    BY <1>1, <1>3
  <2>2. \A i \in SlashesOf(s) : i # at <=> i < at
    BY <1>1, <1>2, <1>3
  <2>. QED  BY <1>4, <2>1, <2>2 DEF SlashesOf
<1>6. Cardinality(SlashesOf(p)) = Cardinality(SlashesOf(s)) - 1
  BY <1>2, <1>5, SeparatorsAreFinite, FS_RemoveElement
<1>7. Separators(p) = Separators(s) - 1
  BY <1>4, <1>6, SeparatorsAreFinite
<1>8. StartsWith(s, "/") => p = <<>> \/ StartsWith(p, "/")
  <2>1. p # <<>> => 1 \in 1 .. at - 1
    BY <1>3, <1>4 DEF Text
  <2>. QED  BY <1>4, <2>1 DEF StartsWith
<1>. QED  BY <1>3, <1>4, <1>7, <1>8 DEF at, p

-----------------------------------------------------------------------------
(* Updates that leave the path and its count alone.                        *)

SameCount(u, v) ==
    /\ Piece(v, PATH) = Piece(u, PATH) /\ v.segs = u.segs
    /\ HasOpaquePath(v) <=> HasOpaquePath(u)

LEMMA CountKept ==
    ASSUME NEW u, NEW v, SameCount(u, v), PathCounted(u)
    PROVE  PathCounted(v)
BY DEF SameCount, PathCounted

LEMMA SameCountTrans ==
    ASSUME NEW u, NEW v, NEW w, SameCount(u, v), SameCount(v, w)
    PROVE  SameCount(u, w)
BY DEF SameCount

LEMMA OpaqueIsNoPart ==
    /\ \A t \in Part : t # OPAQUE_PATH /\ t # VALID
    /\ OPAQUE_PATH # VALID
BY DEF Part, OPAQUE_PATH, VALID, SCHEME, FRAGMENT

\* Nothing is written of the path yet.
LEMMA NoPathCounted ==
    ASSUME NEW x, Appender(x), x.last < PATH, x.u.segs = 0
    PROVE  PathCounted(x.u)
<1>1. Piece(x.u, PATH) = <<>>
  BY NoPiecesBehind, PartNumbers, AppenderFacts, PartInt
<1>. QED  BY <1>1, EmptyHasNoSeparators DEF PathCounted

LEMMA EmptyUrlCounted == PathCounted(EmptyUrl)
<1>1. EmptyUrl.segs = 0 /\ EmptyUrl.norm = <<>> /\ EmptyUrl.ends = [t \in Part |-> 0]
  BY DEF EmptyUrl
<1>2. PATH \in Part /\ PATH # SCHEME /\ PATH - 1 \in Part
  BY PartNumbers DEF Part
<1>3. PartPos(EmptyUrl, PATH) = 0 /\ EmptyUrl.ends[PATH] = 0
  BY <1>1, <1>2 DEF PartPos
<1>4. Piece(EmptyUrl, PATH) = <<>>
  BY <1>3, PieceSlice, SliceEmpty
<1>. QED  BY <1>1, <1>4, EmptyHasNoSeparators DEF PathCounted

LEMMA FreshCounted ==
    ASSUME NEW x, Fresh(x)
    PROVE  PathCounted(x.u)
BY EmptyUrlCounted DEF Fresh

LEMMA WithHostCount ==
    ASSUME NEW u, NEW v, NEW s, WithHost(u, v, s)
    PROVE  SameCount(u, v)
BY OpaqueIsNoPart, PartNumbers DEF WithHost, SameCount, HasOpaquePath

LEMMA PartRemovedCount ==
    ASSUME NEW u, NEW v, NEW t \in {PORT, QUERY, FRAGMENT}, PartRemoved(u, v, t)
    PROVE  SameCount(u, v)
<1>1. PATH \in Part /\ PATH # t /\ t # OPAQUE_PATH
  BY OpaqueIsNoPart, PartNumbers
<1>. QED  BY <1>1 DEF PartRemoved, SameBut, SameCount, HasOpaquePath

LEMMA ClearPartCount ==
    ASSUME NEW x, Editor(x), Framed(x.u), NEW t \in {PORT, QUERY, FRAGMENT},
           t = PORT => ~HasOpaquePath(x.u)
    PROVE  SameCount(x.u, ClearPart(x, t).u)
<1>1. \E c : Led(x.u, t, c)
  BY FramedFacts DEF PortFramed
<1>. QED  BY <1>1, ClearPartPieces, PartRemovedCount

\* A part with a flag is written: a port, a query or a fragment.
LEMMA FlaggedPartCount ==
    ASSUME NEW x, Appender(x) \/ Editor(x), NEW t \in {PORT, QUERY, FRAGMENT},
           Appender(x) => x.last >= HOST /\ x.last < t,
           t = PORT => ~HasOpaquePath(x.u),
           NEW s \in Text,
           t = PORT /\ Editor(x) => ~IsNull(x.u, HOST) /\ s # <<>>
    PROVE  SameCount(x.u, WithFlag(PutPart(x, t, s), t).u)
<1>. DEFINE z == PutPart(x, t, s)
            y == WithFlag(z, t)
<1>0. /\ t \in {USERNAME, PASSWORD, PORT, PATH, QUERY, FRAGMENT}
      /\ t \in {USERNAME, PASSWORD, PORT, QUERY, FRAGMENT}
      /\ t \in {PORT, PATH, QUERY, FRAGMENT} /\ ~(t < HOST)
      /\ t # PORT => t > PATH_PREFIX
      /\ PATH \in Part /\ PATH # t /\ t # OPAQUE_PATH
  BY PartNumbers, OpaqueIsNoPart
<1>1. (Appender(z) \/ Editor(z)) /\ SamePlan(x, z)
  <2>1. CASE Appender(x)
    BY <1>0, <2>1, AppenderPut
  <2>2. CASE Editor(x)
    BY <1>0, <2>2, EditorPut
  <2>. QED  BY <2>1, <2>2
<1>2. SameBut(x.u, z.u, {t})
  <2>1. CASE Appender(x)
    BY <1>0, <2>1, AppenderTailPieces
  <2>2. CASE Editor(x)
    BY <2>2, EditorPieces
  <2>. QED  BY <2>1, <2>2
<1>. HIDE DEF z
<1>3. y.u.flags = z.u.flags \cup {t} /\ y.u.segs = z.u.segs
  BY <1>1, FlagSet
<1>4. \A p : Piece(y.u, p) = Piece(z.u, p)
  BY <1>1, FlaggedPieces
<1>. HIDE DEF y
<1>5. Piece(y.u, PATH) = Piece(x.u, PATH)
  BY <1>0, <1>2, <1>4 DEF SameBut
<1>6. y.u.segs = x.u.segs /\ (HasOpaquePath(y.u) <=> HasOpaquePath(x.u))
  BY <1>0, <1>1, <1>3 DEF SamePlan, HasOpaquePath
<1>7. SameCount(x.u, y.u)
  BY <1>5, <1>6 DEF SameCount
<1>. QED  BY <1>7 DEF y, z

LEMMA PutPortCount ==
    ASSUME NEW x, Appender(x) \/ Editor(x), ~HasOpaquePath(x.u), Editor(x) => Framed(x.u),
           x.save => ~IsNull(x.u, HOST) /\ (Appender(x) => x.last = HOST),
           NEW digits \in Text, digits # <<>>
    PROVE  SameCount(x.u, PutPort(x, digits).u)
<1>1. SameCount(x.u, x.u)
  BY DEF SameCount
<1>2. HOST < PORT /\ HOST >= HOST /\ PORT \in {PORT, QUERY, FRAGMENT}
  BY PartNumbers
<1>3. CASE ~x.save
  BY <1>1, <1>3 DEF PutPort
<1>4. CASE x.save /\ x.u.inf.port = PortValue(digits)
  <2>1. PutPort(x, digits) = ClearPart(x, PORT)
    BY <1>4 DEF PutPort
  <2>2. CASE Editor(x)
    BY <1>2, <2>1, <2>2, ClearPartCount
  <2>3. CASE Appender(x)
    <3>1. ClearPart(x, PORT) = x
      BY <2>3, AppenderFacts DEF ClearPart
    <3>. QED  BY <1>1, <2>1, <3>1
  <2>. QED  BY <2>2, <2>3
<1>5. CASE x.save /\ x.u.inf.port # PortValue(digits)
  <2>1. PutPort(x, digits) = WithFlag(PutPart(x, PORT, digits), PORT)
    BY <1>5 DEF PutPort, WithFlag
  <2>2. Appender(x) => x.last >= HOST /\ x.last < PORT
    BY <1>2, <1>5
  <2>. QED  BY <1>2, <1>5, <2>1, <2>2, FlaggedPartCount
<1>. QED  BY <1>3, <1>4, <1>5

LEMMA UserinfoCount ==
    ASSUME NEW x, Editor(x), Framed(x.u), ~IsEmpty(x.u, HOST),
           NEW t \in {USERNAME, PASSWORD}, NEW s \in Text
    PROVE  SameCount(x.u, PutPart(x, t, s).u)
<1>1. t \in {USERNAME, PASSWORD, PORT, QUERY, FRAGMENT} /\ t # PORT
  BY PartNumbers
<1>2. SamePlan(x, PutPart(x, t, s))
  BY <1>1, EditorPut
<1>3. SameBut(x.u, PutPart(x, t, s).u, {t, HOST_START})
  BY EditorUserinfoPieces
<1>4. PATH \in Part /\ PATH \notin {t, HOST_START}
  BY PartNumbers
<1>. QED  BY <1>2, <1>3, <1>4 DEF SameBut, SamePlan, SameCount, HasOpaquePath

LEMMA ReplacedSchemeCount ==
    ASSUME NEW x, Editor(x), NEW str \in Text, str # <<>>,
           GetSchemeInfo(str).special = x.u.inf.special
    PROVE  SameCount(x.u, ReplaceScheme(x, str).u)
<1>. DEFINE w == ReplacePart(x.u, SCHEME, str)
            v == [w EXCEPT !.ends[SCHEME] = Len(str), !.inf = GetSchemeInfo(str)]
<1>1. x \in Serializer /\ x.u \in Url
  BY EditorFacts
<1>2. PICK l \in Part : CompleteUpTo(x.u, l)
  BY EditorFacts
<1>3. ReplaceScheme(x, str).u = v
  BY <1>1 DEF ReplaceScheme, Serializer
<1>4. PATH \in Part /\ PATH # SCHEME
  BY PartNumbers
<1>5. Piece(v, PATH) = Piece(x.u, PATH)
  BY <1>1, <1>2, <1>4, SchemeReplacedPieces
<1>6. v.flags = x.u.flags /\ v.segs = x.u.segs
  BY <1>1, <1>2, SchemeReplaced
<1>. HIDE DEF v
<1>7. SameCount(x.u, v)
  BY <1>5, <1>6 DEF SameCount, HasOpaquePath
<1>. QED  BY <1>3, <1>7

\* Stripping an opaque path changes its text; it still has no segments.
LEMMA StrippedCounted ==
    ASSUME NEW x, Editor(x), PathCounted(x.u)
    PROVE  PathCounted(StripOpaquePath(x).u)
<1>. DEFINE y == StripOpaquePath(x)
<1>1. x \in Serializer /\ x.u \in Url
  BY EditorFacts
<1>2. y.u.flags = x.u.flags
  BY StripOpaquePathSound
<1>3. y = x \/ HasOpaquePath(x.u)
  BY DEF StripOpaquePath
<1>4. y.u.segs = x.u.segs
  BY <1>1 DEF StripOpaquePath, Serializer, Url
<1>. HIDE DEF y
<1>5. CASE y = x
  BY <1>5 DEF y
<1>6. CASE HasOpaquePath(x.u)
  <2>1. x.u.segs = 0 /\ HasOpaquePath(y.u)
    BY <1>2, <1>6 DEF PathCounted, HasOpaquePath
  <2>2. PathCounted(y.u)
    BY <1>4, <2>1 DEF PathCounted
  <2>. QED  BY <2>2 DEF y
<1>. QED  BY <1>3, <1>5, <1>6

-----------------------------------------------------------------------------
(* The path of a base url.                                                 *)

\* get_path_rem_last cuts the path before its last separator.
LEMMA RemLastCut ==
    ASSUME NEW u \in Url, NEW l \in Part, Ordered(u, l), l >= PATH,
           Separators(Piece(u, PATH)) > 0
    PROVE  LET p == Slice(u.norm, u.ends[PATH_PREFIX], RemLastEnd(u))
           IN /\ Separators(p) = Separators(Piece(u, PATH)) - 1
              /\ StartsWith(Piece(u, PATH), "/") => p = <<>> \/ StartsWith(p, "/")
<1>. DEFINE s == Piece(u, PATH)
            at == FindLast(s, {"/"})
            a == u.ends[PATH_PREFIX]
            b == u.ends[PATH]
<1>1. /\ PATH \in Part /\ PATH_PREFIX \in Part /\ PATH - 1 = PATH_PREFIX /\ PATH # SCHEME
      /\ PATH_PREFIX =< PATH /\ PATH =< l /\ PartStart(PATH) = 0
  BY PartNumbers, PartInt DEF PartStart
<1>2. EndsUpTo(u, l)
  BY DEF Ordered
<1>3. s = View(u, PATH) /\ s \in Text
  BY <1>1, <1>2, PieceView, PieceEmpty
<1>4. /\ a \in Nat /\ b \in Nat /\ a =< b /\ b =< Len(u.norm) /\ u.norm \in Text
      /\ Len(u.norm) \in Nat
  BY <1>1, UrlType, OrderedFacts
<1>5. s = Slice(u.norm, a, b) /\ PartPos(u, PATH) = a
  BY <1>1, PieceSlice DEF PartPos
<1>. HIDE DEF s
<1>6. at \in 1 .. Len(s)
  BY <1>3, LastSegmentCut DEF s
<1>7. Separators(Slice(s, 0, at - 1)) = Separators(s) - 1
  BY <1>3, LastSegmentCut DEF s
<1>8. StartsWith(s, "/") => Slice(s, 0, at - 1) = <<>> \/ StartsWith(Slice(s, 0, at - 1), "/")
  BY <1>3, LastSegmentCut DEF s
<1>9. RemLastEnd(u) = IF at > Len(s) THEN a ELSE a + at - 1
  BY <1>1, <1>3 DEF RemLastEnd
<1>. HIDE DEF at, a, b
<1>10. InText(u.norm, a, b) /\ Len(s) = b - a
  <2>1. InText(u.norm, a, b)
    BY <1>4 DEF InText
  <2>. QED  BY <1>5, <2>1, SliceText
<1>11. RemLastEnd(u) = a + (at - 1) /\ at - 1 \in Nat /\ at - 1 =< b - a
  BY <1>3, <1>4, <1>6, <1>9, <1>10
<1>12. Slice(s, 0, at - 1) = Slice(u.norm, a, RemLastEnd(u))
  <2>. DEFINE n == at - 1
              m == RemLastEnd(u)
  <2>1. n \in Nat /\ 0 \in Nat /\ 0 =< n /\ n =< b - a /\ m = a + n /\ a = a + 0
    BY <1>4, <1>11
  <2>. HIDE DEF n, m
  <2>2. Slice(Slice(u.norm, a, b), 0, n) = Slice(u.norm, a, m)
    BY <1>10, <2>1, SliceOfSlice
  <2>. QED  BY <1>5, <2>2 DEF n, m
<1>. QED  BY <1>7, <1>8, <1>12 DEF s, a

\* What append_parts writes of the path, when it writes up to the path.
PathOf(src, lb, v, op_) ==
    IF lb >= PATH
    THEN /\ Piece(v, PATH) = Slice(src.norm, src.ends[PATH_PREFIX], KeptPath(src, op_).end)
         /\ v.segs = KeptPath(src, op_).segs
    ELSE Piece(v, PATH) = <<>> /\ v.segs = 0

LEMMA PathOfBase ==
    ASSUME NEW x, NEW src, NEW t1, NEW t2, MayAppend(x, src, t1, t2), NEW op_,
           x.save, t2 >= PATH, t2 = PATH \/ op_ = "keep",
           NEW lb \in Part, CompleteUpTo(src, lb)
    PROVE  PathOf(src, lb, AppendParts(x, src, t1, t2, op_).u, op_)
<1>. DEFINE first == FirstToCopy(src, t1)
            set == {t \in first .. t2 : src.ends[t] # 0}
            u == CopyFlags(x.u, src, t1, t2)
            w == [x EXCEPT !.u = u]
            y == AppendParts(x, src, t1, t2, op_)
<1>1. /\ x \in Serializer /\ x.u \in Url /\ x.last \in Part /\ x.sane = TRUE
      /\ Ordered(x.u, x.last) /\ x.u.segs = 0 /\ src \in Url
  BY AppenderFacts DEF MayAppend
<1>2. Ordered(src, lb)
  BY CompleteFacts DEF CompleteUpTo
<1>3. /\ t1 \in Part /\ t2 \in Part /\ HOST =< t2
      /\ MayCopy(x.u, x.last, first) /\ x.last =< t2
      /\ set = {} => t2 < PATH
      /\ \A t \in set : t \in Part /\ first =< t /\ t =< lb /\ t =< t2
  BY PartsToCopy
<1>4. set # {} /\ t2 \in Int /\ lb \in Int /\ first \in Part /\ first =< PATH
      /\ x.last \in Int /\ first \in Int
  <2>1. t2 \in Int /\ lb \in Int /\ x.last \in Int /\ PATH \in Int
    BY <1>1, <1>3, PartInt, PartNumbers
  <2>3. set # {}
    <3>. HIDE DEF set, first
    <3>. QED  BY <1>3, <2>1
  <2>2. first \in Part /\ first =< PATH
    BY <1>3, PartNumbers DEF MayCopy
  <2>. QED  BY <2>1, <2>2, <2>3, PartInt
<1>. DEFINE last == CHOOSE t \in set : \A s \in set : s =< t
            z == CopyParts(w, src, first, last, op_)
            end == CopyEnd(src, last, op_)
            segs == CopySegs(w, src, first, last, op_)
<1>5. last \in set /\ \A s \in set : s =< last
  <2>1. set \subseteq Part
    BY <1>3
  <2>. HIDE DEF set
  <2>. QED  BY <1>4, <2>1, LargestPart
<1>6. y = z
  BY <1>4 DEF AppendParts
<1>7. lb >= PATH => PATH \in set
  <2>1. lb >= PATH => src.ends[PATH] # 0
    BY <1>1, <1>2, <1>4, OrderedFacts, UrlType, PartNumbers
  <2>2. PATH \in first .. t2
    BY <1>4, PartNumbers
  <2>. HIDE DEF first
  <2>. QED  BY <2>1, <2>2
<1>8. FlagsCopied(x.u, u, src, t1, t2)
  BY <1>1, <1>3, CopyFlagsSound
<1>. HIDE DEF u, first, set, last
<1>9. last \in Part /\ first =< last /\ last =< lb /\ last =< t2 /\ (lb >= PATH => PATH =< last)
  BY <1>3, <1>5, <1>7
<1>10. /\ u \in Url /\ u.segs = 0 /\ u.norm = x.u.norm /\ u.ends = x.u.ends
       /\ Ordered(u, x.last)
  BY <1>1, <1>8, SameTextOrdered DEF FlagsCopied, SameText
<1>11. w \in Serializer /\ w.u = u /\ w.sane = TRUE /\ w.last = x.last
  BY <1>1, <1>10 DEF Serializer
<1>. HIDE DEF w
<1>12. MayCopy(w.u, w.last, first)
  <2>1. IsEmpty(u, HOST) <=> IsEmpty(x.u, HOST)
    BY <1>10 DEF IsEmpty, PartPos
  <2>. QED  BY <1>3, <1>11, <2>1 DEF MayCopy
<1>13. z.u = CopiedUrl(w.u, w.last, src, first, last, end, segs)
  <2>1. Ordered(w.u, w.last)
    BY <1>10, <1>11
  <2>2. first =< last /\ last \in Part /\ last =< lb /\ w.sane = TRUE /\ w \in Serializer
    BY <1>9, <1>11
  <2>3. CopiedAs(w, z, src, first, last, op_)
    BY <1>1, <1>2, <1>12, <2>1, <2>2, CopyPartsSound
  <2>. QED  BY <2>3 DEF CopiedAs
<1>14. last \in Int /\ PATH_PREFIX \in Part /\ PATH_PREFIX = PATH - 1 /\ PATH \in Part /\ PATH \in Int
  BY <1>9, PartInt, PartNumbers
<1>15. /\ end \in Nat /\ src.ends[last - 1] =< end /\ end =< Len(src.norm)
       /\ segs \in Nat
  <2>1. /\ \A t \in Part : src.ends[t] \in Nat /\ (t =< lb => src.ends[t] =< Len(src.norm))
        /\ \A s, t \in Part : s =< t /\ t =< lb => src.ends[s] =< src.ends[t]
        /\ Len(src.norm) \in Nat /\ src.segs \in Nat
    BY <1>1, <1>2, OrderedFacts, UrlType
  <2>2. last - 1 \in Part /\ last - 1 =< last
    <3>1. first # SCHEME
      BY <1>3, MayCopyFacts
    <3>. QED  BY <1>4, <1>9, <1>14, <3>1, PartNumbers DEF Part
  <2>3. CASE last = PATH
    <3>1. lb >= PATH
      BY <1>4, <1>9, <1>14, <2>3
    <3>2. /\ KeptPath(src, op_).end \in Nat /\ KeptPath(src, op_).segs \in Nat
          /\ src.ends[PATH_PREFIX] =< KeptPath(src, op_).end
          /\ KeptPath(src, op_).end =< src.ends[PATH]
      BY <1>1, <1>2, <3>1, KeptPathRange
    <3>3. src.ends[PATH] =< Len(src.norm) /\ src.ends[PATH] \in Nat
      BY <1>9, <2>1, <2>3
    <3>4. end = KeptPath(src, op_).end /\ segs = KeptPath(src, op_).segs
      BY <2>3 DEF CopyEnd, CopySegs
    <3>. HIDE DEF end, segs
    <3>. QED  BY <1>14, <2>1, <2>3, <3>2, <3>3, <3>4
  <2>4. CASE last # PATH
    <3>1. end = src.ends[last] /\ segs \in {src.segs, w.u.segs}
      BY <2>4 DEF CopyEnd, CopySegs
    <3>2. w.u.segs = 0
      BY <1>10, <1>11
    <3>. HIDE DEF end, segs
    <3>. QED  BY <1>9, <2>1, <2>2, <3>1, <3>2
  <2>. QED  BY <2>3, <2>4
<1>16. PiecesCopied(w.u, z.u, w.last, src, first, last, end)
  <2>1. Ordered(w.u, w.last) /\ w.u \in Url /\ w.last \in Part
    BY <1>1, <1>10, <1>11
  <2>. HIDE DEF end, segs, z
  <2>. QED  BY <1>1, <1>2, <1>9, <1>12, <1>13, <1>15, <2>1, CopiedPieces
<1>17. z.u.segs = segs
  <2>. HIDE DEF end, segs, z
  <2>1. w.u \in Url
    BY <1>10, <1>11
  <2>. QED  BY <1>13, <2>1 DEF CopiedUrl, Url
<1>18. CASE lb >= PATH
  <2>1. KeptPath(src, "keep") = [end |-> src.ends[PATH], segs |-> src.segs]
    BY DEF KeptPath
  <2>2. CASE last = PATH
    <3>1. end = KeptPath(src, op_).end /\ segs = KeptPath(src, op_).segs
      BY <2>2 DEF CopyEnd, CopySegs
    <3>. HIDE DEF end, segs, z
    <3>2. Piece(z.u, PATH) = Slice(src.norm, src.ends[PATH - 1], end)
      BY <1>14, <1>16, <2>2 DEF PiecesCopied
    <3>. QED  BY <1>6, <1>14, <1>17, <1>18, <3>1, <3>2 DEF PathOf
  <2>3. CASE last # PATH
    <3>1. last > PATH /\ op_ = "keep" /\ first =< PATH /\ PATH =< last /\ PATH < last
      BY <1>4, <1>9, <1>14, <1>18, <2>3
    <3>2. segs = src.segs
      BY <2>3, <3>1 DEF CopySegs
    <3>. HIDE DEF end, segs, z
    <3>3. Piece(z.u, PATH) = Piece(src, PATH)
      BY <1>14, <1>16, <3>1 DEF PiecesCopied
    <3>4. Piece(src, PATH) = Slice(src.norm, src.ends[PATH_PREFIX], src.ends[PATH])
      BY <1>14, PieceSlice, PartNumbers DEF PartPos
    <3>. QED  BY <1>6, <1>17, <1>18, <2>1, <3>1, <3>2, <3>3, <3>4 DEF PathOf
  <2>. QED  BY <2>2, <2>3
<1>19. CASE ~(lb >= PATH)
  <2>1. last < PATH /\ PATH > last /\ last # PATH /\ ~(PATH =< last)
    BY <1>4, <1>9, <1>14, <1>19
  <2>2. segs = 0
    BY <1>10, <1>11, <2>1 DEF CopySegs
  <2>. HIDE DEF end, segs, z
  <2>3. Piece(z.u, PATH) = <<>>
    BY <1>14, <1>16, <2>1 DEF PiecesCopied
  <2>. QED  BY <1>6, <1>17, <1>19, <2>2, <2>3 DEF PathOf
<1>. QED  BY <1>18, <1>19

\* A path copied from a base, whole or without its last segment, is counted.
LEMMA CopiedPathCounted ==
    ASSUME NEW src \in Url, NEW lb \in Part, CompleteUpTo(src, lb), PathCounted(src),
           NEW v, NEW op_, PathOf(src, lb, v, op_),
           HasOpaquePath(v) <=> HasOpaquePath(src),
           HasOpaquePath(src) => op_ = "keep"
    PROVE  PathCounted(v)
<1>. DEFINE s == Piece(src, PATH)
            kept == KeptPath(src, op_)
            p == Slice(src.norm, src.ends[PATH_PREFIX], kept.end)
<1>1. Ordered(src, lb) /\ EndsUpTo(src, lb)
  BY CompleteFacts DEF Ordered
<1>2. CASE ~(lb >= PATH)
  BY <1>2, EmptyHasNoSeparators DEF PathOf, PathCounted
<1>3. CASE lb >= PATH
  <2>1. Piece(v, PATH) = p /\ v.segs = kept.segs
    BY <1>3 DEF PathOf
  <2>2. s = Slice(src.norm, src.ends[PATH_PREFIX], src.ends[PATH])
    BY PieceSlice, PartNumbers DEF PartPos
  <2>3. CASE kept = [end |-> src.ends[PATH], segs |-> src.segs]
    <3>1. p = s /\ kept.segs = src.segs
      BY <2>2, <2>3
    <3>. HIDE DEF p, s, kept
    <3>2. Piece(v, PATH) = Piece(src, PATH) /\ v.segs = src.segs
      BY <2>1, <3>1 DEF s
    <3>. QED  BY <3>2 DEF PathCounted
  <2>4. CASE kept # [end |-> src.ends[PATH], segs |-> src.segs]
    <3>1. /\ kept = [end |-> RemLastEnd(src), segs |-> src.segs - 1]
          /\ op_ # "keep" /\ src.segs > 0
      BY <2>4 DEF KeptPath, CanRemLast, CanShorten
    <3>2. ~HasOpaquePath(src) /\ ~HasOpaquePath(v)
      BY <3>1
    <3>3. src.segs = Separators(s) /\ (s # <<>> => StartsWith(s, "/"))
      BY <3>2 DEF PathCounted
    <3>4. p = Slice(src.norm, src.ends[PATH_PREFIX], RemLastEnd(src)) /\ kept.segs = src.segs - 1
      BY <3>1
    <3>. HIDE DEF kept
    <3>5. Separators(s) > 0
      BY <3>1, <3>3
    <3>6. Separators(p) = Separators(s) - 1
      BY <1>1, <1>3, <3>4, <3>5, RemLastCut
    <3>7. StartsWith(s, "/") => p = <<>> \/ StartsWith(p, "/")
      BY <1>1, <1>3, <3>4, <3>5, RemLastCut
    <3>8. s # <<>>
      BY <3>5, EmptyHasNoSeparators
    <3>. HIDE DEF s, p
    <3>9. v.segs = Separators(Piece(v, PATH))
      BY <2>1, <3>3, <3>4, <3>6
    <3>10. Piece(v, PATH) # <<>> => StartsWith(Piece(v, PATH), "/")
      BY <2>1, <3>3, <3>7, <3>8
    <3>. QED  BY <3>2, <3>9, <3>10 DEF PathCounted
  <2>. QED  BY <2>3, <2>4
<1>. QED  BY <1>2, <1>3

\* append_parts leaves the path counted.
LEMMA CopiedCount ==
    ASSUME NEW x, NEW src, NEW t1, NEW t2, MayAppend(x, src, t1, t2), NEW op_,
           PathCounted(src), PathCounted(x.u),
           t2 = PATH \/ op_ = "keep"
    PROVE  PathCounted(AppendParts(x, src, t1, t2, op_).u)
<1>. DEFINE y == AppendParts(x, src, t1, t2, op_)
<1>0. x.save \in BOOLEAN /\ src \in Url /\ Complete(src)
  BY AppenderFacts DEF MayAppend
<1>1. CASE ~x.save
  BY <1>1 DEF AppendParts
<1>2. CASE x.save /\ t2 < PATH
  <2>1. AppendedParts(x, y, src, t2)
    BY AppendPartsSound
  <2>. HIDE DEF y
  <2>2. Appender(y) /\ y.last =< t2 /\ (y.u.segs > 0 => y.last >= PATH)
    BY <2>1 DEF AppendedParts
  <2>3. y.last \in Part /\ t2 \in Part /\ y.u \in Url
    BY <2>2, AppenderFacts, PartNumbers DEF MayAppend
  <2>4. y.last \in Int /\ t2 \in Int /\ PATH \in Int /\ y.u.segs \in Nat
    BY <2>3, PartInt, PartNumbers, UrlType
  <2>5. y.last < PATH /\ y.u.segs = 0
    BY <1>2, <2>2, <2>4
  <2>6. PathCounted(y.u)
    BY <2>2, <2>5, NoPathCounted
  <2>. QED  BY <2>6 DEF y
<1>3. CASE x.save /\ ~(t2 < PATH)
  <2>1. PICK lb \in Part : CompleteUpTo(src, lb)
    BY <1>0 DEF Complete
  <2>2. t1 \in Part /\ t2 \in Part /\ t1 =< PATH
    BY PartNumbers DEF MayAppend
  <2>3. t2 >= PATH
    BY <1>3, <2>2, PartInt, PartNumbers
  <2>4. PathOf(src, lb, y.u, op_)
    BY <1>3, <2>1, <2>3, PathOfBase
  <2>5. SomeCopied(src, t2)
    BY <2>3 DEF SomeCopied
  <2>6. FlagsOfBase(x.u, y.u, src, t1, t2)
    BY <1>3, <2>5, PartsOfBase
  <2>7. HasOpaquePath(src) => op_ = "keep"
    BY PartNumbers DEF MayAppend
  <2>. HIDE DEF y
  <2>8. HasOpaquePath(y.u) <=> HasOpaquePath(src)
    BY <2>2, <2>3, <2>6 DEF FlagsOfBase
  <2>9. PathCounted(y.u)
    BY <1>0, <2>1, <2>4, <2>7, <2>8, CopiedPathCounted
  <2>. QED  BY <2>9 DEF y
<1>. QED  BY <1>0, <1>1, <1>2, <1>3

-----------------------------------------------------------------------------
(* The path that url_serializer writes.                                    *)

\* Another segment is another separator.
LEMMA SegmentCount ==
    ASSUME NEW x, Pathing(x), Opened(x), PathCounted(x.u), NEW s \in Text, NoSlash(s)
    PROVE  PathCounted(PutSegment(x, s).u)
<1>. DEFINE z == PutPart(x, PATH, <<"/">> \o s)
            y == [z EXCEPT !.u.segs = z.u.segs + 1]
            old_ == Piece(x.u, PATH)
            new_ == old_ \o (<<"/">> \o s)
<1>1. x.setter = FALSE /\ x.last \in Part /\ x.u.segs \in Nat /\ x.u \in Url /\ Appender(x)
  BY AppenderFacts, UrlType DEF Pathing
<1>2. PutSegment(x, s) = y
  BY <1>1 DEF PutSegment
<1>3. <<"/">> \o s \in Text
  <2>1. <<"/">> \in Text
    BY CharAssumption DEF Text, Written
  <2>. QED  BY <2>1, ConcatText
<1>4. x.last < PATH \/ (x.last = PATH /\ PATH = PATH)
  <2>1. x.last \in Int /\ x.last =< PATH /\ PATH = 8
    BY <1>1, PartInt, PartNumbers DEF Pathing
  <2>. QED  BY <2>1
<1>5. Appender(z) /\ SamePlan(x, z)
  <2>1. PATH \in {USERNAME, PASSWORD, PORT, PATH, QUERY, FRAGMENT}
    OBVIOUS
  <2>. QED  BY <1>3, <1>4, <2>1, AppenderPut DEF Pathing
<1>6. Piece(z.u, PATH) = new_
  BY <1>1, <1>3, PathAppended DEF Pathing
<1>7. z \in Serializer /\ z.u \in Url
  BY <1>5, AppenderFacts
<1>8. ~HasOpaquePath(x.u)
  BY DEF Pathing
<1>9. x.u.segs = Separators(old_) /\ (old_ # <<>> => StartsWith(old_, "/"))
  BY <1>8 DEF PathCounted
<1>10. old_ \in Text
  <2>1. Readable(x.u) /\ PATH \in Part
    BY <1>1, WrittenIsReadable, PartNumbers
  <2>. QED  BY <2>1, ReadPieces
<1>. HIDE DEF z, old_
<1>11. Separators(new_) = Separators(old_) + 1 /\ StartsWith(new_, "/")
  <2>1. old_ = <<>> \/ StartsWith(old_, "/")
    BY <1>9
  <2>. QED  BY <1>10, <2>1, SegmentAdded
<1>. HIDE DEF new_
<1>12. y.u = [z.u EXCEPT !.segs = z.u.segs + 1]
  BY <1>7 DEF Serializer
<1>13. /\ y.u.norm = z.u.norm /\ y.u.ends = z.u.ends
       /\ y.u.flags = z.u.flags /\ y.u.segs = z.u.segs + 1
  BY <1>7, <1>12 DEF Url
<1>. HIDE DEF y
<1>14. Piece(y.u, PATH) = new_
  BY <1>6, <1>13, SamePieces
<1>15. y.u.segs = Separators(new_)
  BY <1>5, <1>9, <1>11, <1>13 DEF SamePlan
<1>16. ~HasOpaquePath(y.u)
  BY <1>5, <1>8, <1>13 DEF SamePlan, HasOpaquePath
<1>17. PathCounted(y.u)
  BY <1>11, <1>14, <1>15, <1>16 DEF PathCounted
<1>. QED  BY <1>2, <1>17

\* shorten_path takes the last segment and its separator.
LEMMA ShortenedCount ==
    ASSUME NEW x, Pathing(x), PathCounted(x.u)
    PROVE  PathCounted(ShortenPath(x).u)
<1>1. /\ x \in Serializer /\ x.u \in Url /\ x.setter = FALSE /\ x.last \in Part
      /\ Sound(x.u, x.last) /\ x.sane = TRUE /\ Appender(x)
      /\ ~HasOpaquePath(x.u) /\ x.last =< PATH
  BY AppenderFacts DEF Pathing
<1>2. CASE ~CanShorten(x.u)
  <2>1. ShortenPath(x) = Expect(x, x.last =< PATH /\ ~HasOpaquePath(x.u))
    BY <1>1, <1>2 DEF ShortenPath
  <2>2. ShortenPath(x) = x
    BY <1>1, <2>1, ExpectHolds, Zenon
  <2>. QED  BY <2>2
<1>3. CASE CanShorten(x.u)
  <2>. DEFINE end == RemLastEnd(x.u)
              v == [x.u EXCEPT !.norm = SubSeq(@, 1, end), !.ends[PATH] = end,
                               !.segs = @ - 1]
              y == ShortenPath(x)
              s == Piece(x.u, PATH)
              a == x.u.ends[PATH_PREFIX]
              p == Slice(x.u.norm, a, end)
  <2>1. x.u.segs > 0 /\ x.last = PATH
    BY <1>3 DEF CanShorten, Pathing
  <2>2. y.u = v
    BY <1>1, <1>3 DEF ShortenPath, Expect, Serializer
  <2>3. /\ PATH \in Part /\ PATH_PREFIX \in Part /\ PATH - 1 = PATH_PREFIX /\ PATH >= PATH
        /\ PATH # SCHEME /\ PATH_PREFIX # PATH
    BY PartNumbers
  <2>4. Ordered(x.u, PATH)
    BY <1>1, <2>1 DEF Sound
  <2>5. /\ x.u.norm \in Text /\ Len(x.u.norm) \in Nat /\ x.u.ends \in [Part -> Nat]
        /\ a \in Nat /\ x.u.segs \in Nat /\ x.u.ends[PATH] \in Nat
        /\ x.u.ends[PATH] =< Len(x.u.norm)
    BY <1>1, <2>3, <2>4, UrlType, OrderedFacts
  <2>6. end \in Nat /\ a =< end /\ end =< x.u.ends[PATH]
    BY <1>1, <2>3, <2>4, RemLastEndRange
  <2>. HIDE DEF end
  <2>7. /\ v.norm = SubSeq(x.u.norm, 1, end) /\ v.ends[PATH] = end
        /\ v.ends[PATH_PREFIX] = a /\ v.segs = x.u.segs - 1 /\ v.flags = x.u.flags
    BY <1>1, <2>3, <2>5 DEF Url
  <2>8. Piece(v, PATH) = Slice(v.norm, a, end)
    <3>. HIDE DEF v, a
    <3>1. PartPos(v, PATH) = a
      BY <2>3, <2>7 DEF PartPos
    <3>. QED  BY <2>7, <3>1, PieceSlice
  <2>. HIDE DEF v, a
  <2>9. Slice(v.norm, a, end) = p
    <3>. DEFINE q == Slice(x.u.norm, 0, end)
    <3>1. v.norm = q
      BY <2>7 DEF Slice
    <3>2. InText(x.u.norm, 0, end) /\ a \in Nat /\ end \in Nat /\ end =< end - 0
          /\ a = 0 + a /\ end = 0 + end /\ a =< end
      BY <2>5, <2>6 DEF InText
    <3>3. Slice(q, a, end) = p
      BY <3>2, SliceOfSlice
    <3>. QED  BY <3>1, <3>3
  <2>10. x.u.segs = Separators(s) /\ (s # <<>> => StartsWith(s, "/"))
    BY <1>1 DEF PathCounted
  <2>11. s # <<>>
    BY <2>1, <2>10, EmptyHasNoSeparators
  <2>12. Separators(p) = Separators(s) - 1
    BY <1>1, <2>1, <2>3, <2>4, <2>10, RemLastCut DEF end, a
  <2>13. StartsWith(s, "/") => p = <<>> \/ StartsWith(p, "/")
    BY <1>1, <2>1, <2>3, <2>4, <2>10, RemLastCut DEF end, a
  <2>. HIDE DEF p, s
  <2>14. Piece(v, PATH) = p /\ v.segs = Separators(p)
    BY <2>7, <2>8, <2>9, <2>10, <2>12
  <2>15. ~HasOpaquePath(v)
    BY <1>1, <2>7 DEF HasOpaquePath
  <2>16. PathCounted(v)
    BY <2>10, <2>11, <2>13, <2>14, <2>15 DEF PathCounted
  <2>. HIDE DEF y
  <2>17. PathCounted(y.u)
    BY <2>2, <2>16
  <2>. QED  BY <2>17 DEF y
<1>. QED  BY <1>2, <1>3

\* The prefix of the path is no part of it.
LEMMA AdjustedCount ==
    ASSUME NEW u \in Url, NEW l \in Part, Sound(u, l), ~HasOpaquePath(u),
           l >= PATH \/ ~IsNull(u, HOST), Framed(u)
    PROVE  SameCount(u, AdjustPathPrefix(u))
<1>. DEFINE v == AdjustPathPrefix(u)
<1>1. PATH \in Part /\ PATH # PATH_PREFIX /\ (l >= PATH => l >= PATH_PREFIX)
  BY PartInt, PartNumbers
<1>2. v.flags = u.flags /\ v.segs = u.segs
  BY <1>1, AdjustPathPrefixSound
<1>3. CASE l >= PATH
  <2>1. SameBut(u, v, {PATH_PREFIX})
    BY <1>3, AdjustedPieces
  <2>. HIDE DEF v
  <2>2. SameCount(u, v)
    BY <1>1, <1>2, <2>1 DEF SameBut, SameCount, HasOpaquePath
  <2>. QED  BY <2>2 DEF v
<1>4. CASE ~IsNull(u, HOST)
  <2>1. Piece(u, PATH_PREFIX) = <<>>
    BY <1>4, FramedFacts
  <2>2. IsEmpty(u, PATH_PREFIX)
    <3>1. Readable(u)
      BY DEF Readable, Sound, Ordered
    <3>. QED  BY <2>1, <3>1, ReadPieces
  <2>3. v = u
    BY <1>4, <2>2 DEF AdjustPathPrefix, NeedsPathPrefix
  <2>. QED  BY <2>3 DEF SameCount
<1>. QED  BY <1>3, <1>4

\* commit_path of url_serializer.
LEMMA AppenderCommitCount ==
    ASSUME NEW x, Appender(x), ~HasOpaquePath(x.u), x.last = PATH \/ HostWritten(x),
           Framed(x.u)
    PROVE  SameCount(x.u, CommitPath(x).u)
<1>1. /\ x \in Serializer /\ x.u \in Url /\ x.setter = FALSE /\ x.last \in Part
      /\ Sound(x.u, x.last)
  BY AppenderFacts
<1>2. CommitPath(x).u = AdjustPathPrefix(x.u)
  BY <1>1 DEF CommitPath, Serializer
<1>3. x.last >= PATH \/ ~IsNull(x.u, HOST)
  BY PartNumbers DEF HostWritten
<1>. QED  BY <1>1, <1>2, <1>3, AdjustedCount

\* An opaque path has no segments.
LEMMA PathStringCount ==
    ASSUME NEW x, Appender(x), x.last = SCHEME, HasOpaquePath(x.u), NEW s \in Text, x.u.segs = 0
    PROVE  PathCounted(PutPathString(x, s).u)
<1>. DEFINE y == PutPathString(x, s)
<1>1. SamePlan(x, y)
  BY PutPathStringSound
<1>. HIDE DEF y
<1>2. PathCounted(y.u)
  BY <1>1 DEF SamePlan, HasOpaquePath, PathCounted
<1>. QED  BY <1>2 DEF y

-----------------------------------------------------------------------------
(* The path that url_setter collects.                                      *)

\* Slice counts from 0.
LEMMA PrefixSlice ==
    ASSUME NEW r, NEW e
    PROVE  Slice(r, 0, e) = SubSeq(r, 1, e)
<1>1. 0 + 1 = 1
  OBVIOUS
<1>. QED  BY <1>1 DEF Slice

\* Another segment in the buffer, and its end.
LEMMA SegmentBuffered ==
    ASSUME NEW x, Collecting(x), BufferCounted(x), NEW s \in Text, NoSlash(s)
    PROVE  BufferCounted(PutSegment(x, s))
<1>. DEFINE buf == x.buf
            ends == x.segEnd
            n == Len(ends)
            tail == <<"/">> \o s
            new_ == buf \o tail
            at == Len(buf) + 1 + Len(s)
            y == PutSegment(x, s)
<1>1. /\ x \in Serializer /\ x.setter = TRUE /\ buf \in Text /\ ends \in Seq(Nat)
      /\ n \in Nat /\ Len(buf) \in Nat /\ Len(s) \in Nat
  <2>1. Editor(x)
    BY DEF Collecting
  <2>2. x \in Serializer /\ x.setter = TRUE
    BY <2>1, EditorFacts
  <2>3. buf \in Text /\ ends \in Seq(Nat)
    BY <2>2, SerializerType
  <2>. HIDE DEF buf, ends
  <2>4. n \in Nat
    BY <2>3
  <2>5. Len(buf) \in Nat /\ Len(s) \in Nat
    BY <2>3 DEF Text
  <2>. QED  BY <2>2, <2>3, <2>4, <2>5
<1>2. <<"/">> \in Text /\ tail \in Text
  <2>1. <<"/">> \in Text
    BY CharAssumption DEF Text, Written
  <2>. QED  BY <2>1, ConcatText
<1>3. y.buf = new_ /\ y.segEnd = Append(ends, at)
  <2>1. (buf \o <<"/">>) \o s = new_
    BY <1>1, <1>2, JoinIsAssociative
  <2>. QED  BY <1>1, <2>1 DEF PutSegment, Serializer
<1>4. \A i \in 1 .. n : ends[i] \in Nat /\ ends[i] =< Len(buf)
  BY <1>1 DEF Collecting, SegEndsInOrder
<1>. HIDE DEF y
<1>5. Len(ends) = Separators(buf) /\ (buf # <<>> => StartsWith(buf, "/"))
      /\ \A i \in 1 .. n : Separators(SubSeq(buf, 1, ends[i])) = i
  BY DEF BufferCounted
<1>. HIDE DEF buf, ends
<1>6. /\ new_ \in Text /\ Separators(new_) = Separators(buf) + 1
      /\ StartsWith(new_, "/") /\ Len(new_) = at
  <2>1. buf = <<>> \/ StartsWith(buf, "/")
    BY <1>5
  <2>. QED  BY <1>1, <2>1, SegmentAdded
<1>7. \A i \in 1 .. n : SubSeq(new_, 1, ends[i]) = SubSeq(buf, 1, ends[i])
  <2>1. SUFFICES ASSUME NEW i \in 1 .. n
                 PROVE  SubSeq(new_, 1, ends[i]) = SubSeq(buf, 1, ends[i])
    OBVIOUS
  <2>. DEFINE e == ends[i]
  <2>2. InText(buf, 0, e)
    BY <1>1, <1>4 DEF InText
  <2>. HIDE DEF e, tail
  <2>3. Slice(buf \o tail, 0, e) = Slice(buf, 0, e)
    BY <1>2, <2>2, SliceOfFirst
  <2>4. SubSeq(buf \o tail, 1, e) = SubSeq(buf, 1, e)
    BY <2>3, PrefixSlice
  <2>. QED  BY <2>4 DEF e
<1>8. SubSeq(new_, 1, at) = new_
  <2>. HIDE DEF new_, at
  <2>. QED  BY <1>6, SliceAll, PrefixSlice
<1>. HIDE DEF new_, at
<1>9. /\ Len(y.segEnd) = n + 1 /\ y.segEnd[n + 1] = at
      /\ \A i \in 1 .. n : y.segEnd[i] = ends[i]
  <2>1. at \in Nat
    BY <1>1 DEF at
  <2>. QED  BY <1>1, <1>3, <2>1
<1>10. Len(y.segEnd) = Separators(y.buf)
  BY <1>3, <1>5, <1>6, <1>9
<1>11. y.buf # <<>> => StartsWith(y.buf, "/")
  BY <1>3, <1>6
<1>12. \A i \in 1 .. Len(y.segEnd) : Separators(SubSeq(y.buf, 1, y.segEnd[i])) = i
  <2>1. SUFFICES ASSUME NEW i \in 1 .. n + 1
                 PROVE  Separators(SubSeq(y.buf, 1, y.segEnd[i])) = i
    BY <1>9
  <2>2. CASE i \in 1 .. n
    BY <1>3, <1>5, <1>7, <1>9, <2>2
  <2>3. CASE i = n + 1
    BY <1>3, <1>5, <1>6, <1>8, <1>9, <2>3
  <2>. QED  BY <1>1, <2>2, <2>3
<1>13. BufferCounted(y)
  BY <1>10, <1>11, <1>12 DEF BufferCounted
<1>. QED  BY <1>13 DEF y

\* The last segment and its end are taken from the buffer.
LEMMA ShortenedBuffer ==
    ASSUME NEW x, Collecting(x), BufferCounted(x)
    PROVE  BufferCounted(ShortenPath(x))
<1>. DEFINE buf == x.buf
            ends == x.segEnd
            n == Len(ends)
            left == SubSeq(ends, 1, n - 1)
            new_ == IF n = 1 THEN <<>> ELSE SubSeq(buf, 1, left[n - 1])
            y == ShortenPath(x)
<1>1. /\ x \in Serializer /\ x.setter = TRUE /\ buf \in Text /\ ends \in Seq(Nat)
      /\ n \in Nat /\ Len(buf) \in Nat
  <2>1. Editor(x)
    BY DEF Collecting
  <2>2. x \in Serializer /\ x.setter = TRUE
    BY <2>1, EditorFacts
  <2>3. buf \in Text /\ ends \in Seq(Nat)
    BY <2>2, SerializerType
  <2>. HIDE DEF buf, ends
  <2>4. n \in Nat
    BY <2>3
  <2>5. Len(buf) \in Nat
    BY <2>3 DEF Text
  <2>. QED  BY <2>2, <2>3, <2>4, <2>5
<1>2. y = x \/ (n # 0 /\ y.buf = new_ /\ y.segEnd = left)
  BY <1>1 DEF ShortenPath, Serializer
<1>3. /\ \A i \in 1 .. n : ends[i] \in Nat /\ ends[i] =< Len(buf)
      /\ \A i, j \in 1 .. n : i =< j => ends[i] =< ends[j]
  BY <1>1 DEF Collecting, SegEndsInOrder
<1>4. Len(ends) = Separators(buf) /\ (buf # <<>> => StartsWith(buf, "/"))
      /\ \A i \in 1 .. n : Separators(SubSeq(buf, 1, ends[i])) = i
  BY DEF BufferCounted
<1>. HIDE DEF y, buf, ends
<1>5. ASSUME n # 0, y.buf = new_, y.segEnd = left
      PROVE  BufferCounted(y)
  <2>0. n - 1 \in Nat /\ n - 1 =< n
    <3>. HIDE DEF n
    <3>. QED  BY <1>1, <1>5
  <2>1. n - 1 \in Nat /\ Len(left) = n - 1 /\ \A i \in 1 .. n - 1 : left[i] = ends[i]
    <3>. DEFINE m == n - 1
    <3>1. ends \in Seq(Nat) /\ m \in Nat /\ m =< Len(ends)
      BY <1>1, <2>0
    <3>2. left = SubSeq(ends, 1, m)
      OBVIOUS
    <3>. HIDE DEF m, left, n
    <3>3. Len(left) = m
      BY <3>1, <3>2
    <3>4. \A i \in 1 .. m : left[i] = ends[i]
      BY <3>1, <3>2
    <3>. QED  BY <3>1, <3>3, <3>4 DEF m
  <2>. HIDE DEF left
  <2>2. CASE n = 1
    <3>1. y.buf = <<>> /\ Len(y.segEnd) = 0
      BY <1>5, <2>1, <2>2
    <3>2. /\ Len(y.segEnd) = Separators(y.buf)
          /\ y.buf # <<>> => StartsWith(y.buf, "/")
          /\ \A i \in 1 .. Len(y.segEnd) : Separators(SubSeq(y.buf, 1, y.segEnd[i])) = i
      BY <3>1, EmptyHasNoSeparators
    <3>. QED  BY <3>2 DEF BufferCounted
  <2>3. CASE n # 1
    <3>. DEFINE e == ends[n - 1]
    <3>1. n - 1 \in 1 .. n /\ n - 1 \in 1 .. n - 1
      BY <1>1, <1>5, <2>3
    <3>2. left[n - 1] = e
      BY <2>1, <3>1
    <3>3. e \in Nat /\ e =< Len(buf) /\ Separators(SubSeq(buf, 1, e)) = n - 1
      BY <1>3, <1>4, <3>1
    <3>4. \A i \in 1 .. n - 1 : ends[i] \in Nat /\ ends[i] =< e
      <4>1. SUFFICES ASSUME NEW i \in 1 .. n - 1 PROVE ends[i] \in Nat /\ ends[i] =< e
        OBVIOUS
      <4>2. i \in 1 .. n /\ i =< n - 1
        BY <1>1
      <4>. QED  BY <1>3, <3>1, <4>2
    <3>. HIDE DEF e
    <3>5. y.buf = SubSeq(buf, 1, e)
      BY <1>5, <2>3, <3>2
    <3>6. SubSeq(buf, 1, e) \in Text /\ Len(SubSeq(buf, 1, e)) = e
          /\ \A k \in 1 .. e : SubSeq(buf, 1, e)[k] = buf[k]
      BY <1>1, <3>3, PrefixText
    <3>7. Len(y.segEnd) = Separators(y.buf)
      BY <1>5, <2>1, <3>3, <3>5
    <3>8. y.buf # <<>> => StartsWith(y.buf, "/")
      <4>1. SUFFICES ASSUME y.buf # <<>> PROVE StartsWith(y.buf, "/")
        OBVIOUS
      <4>2. e # 0
        BY <3>3, <3>5, <3>6, <4>1 DEF Text
      <4>3. 1 \in 1 .. e /\ buf # <<>>
        BY <1>1, <3>3, <4>2
      <4>4. y.buf[1] = buf[1] /\ buf[1] = "/"
        BY <1>4, <3>5, <3>6, <4>3 DEF StartsWith
      <4>. QED  BY <4>1, <4>4 DEF StartsWith
    <3>9. \A i \in 1 .. n - 1 : Separators(SubSeq(y.buf, 1, y.segEnd[i])) = i
      <4>1. SUFFICES ASSUME NEW i \in 1 .. n - 1
                     PROVE  Separators(SubSeq(y.buf, 1, y.segEnd[i])) = i
        OBVIOUS
      <4>. DEFINE d == ends[i]
      <4>2. y.segEnd[i] = d /\ d \in Nat /\ d =< e /\ i \in 1 .. n
        BY <1>1, <1>5, <2>1, <3>4
      <4>3. Separators(SubSeq(buf, 1, d)) = i
        BY <1>4, <4>2
      <4>. HIDE DEF d
      <4>4. InText(buf, 0, e) /\ 0 \in Nat /\ 0 =< d /\ d =< e - 0 /\ 0 = 0 + 0 /\ d = 0 + d
        BY <1>1, <3>3, <4>2 DEF InText
      <4>5. Slice(Slice(buf, 0, e), 0, d) = Slice(buf, 0, d)
        BY <4>2, <4>4, SliceOfSlice
      <4>6. SubSeq(SubSeq(buf, 1, e), 1, d) = SubSeq(buf, 1, d)
        BY <4>5, PrefixSlice
      <4>. QED  BY <3>5, <4>2, <4>3, <4>6
    <3>10. \A i \in 1 .. Len(y.segEnd) : Separators(SubSeq(y.buf, 1, y.segEnd[i])) = i
      BY <1>5, <2>1, <3>9
    <3>. QED  BY <3>7, <3>8, <3>10 DEF BufferCounted
  <2>. QED  BY <2>2, <2>3
<1>6. BufferCounted(y)
  <2>1. CASE y = x
    BY <2>1
  <2>. QED  BY <1>2, <1>5, <2>1
<1>. QED  BY <1>6 DEF y

\* commit_path of url_setter: the path is what was collected.
LEMMA EditorCommitCount ==
    ASSUME NEW x, Editor(x), ~HasOpaquePath(x.u), Framed(x.u), BufferCounted(x)
    PROVE  PathCounted(CommitPath(x).u)
<1>1. PICK z : Committed(x, z)
  BY EditorCommit
<1>2. PICK m \in Part : m >= PATH /\ Sound(z, m)
  BY <1>1 DEF Committed
<1>3. ~HasOpaquePath(z)
  BY <1>1 DEF Committed, OnlyPath, HasOpaquePath
<1>4. Framed(z)
  BY <1>1, OnlyPathKept DEF Committed
<1>5. PathCounted(z)
  BY <1>1, <1>3 DEF Committed, BufferCounted, PathCounted
<1>6. z \in Url /\ CommitPath(x).u = AdjustPathPrefix(z)
  BY <1>1 DEF Committed
<1>7. SameCount(z, AdjustPathPrefix(z))
  BY <1>2, <1>3, <1>4, <1>6, AdjustedCount
<1>. QED  BY <1>5, <1>6, <1>7, CountKept

\* A setter starts with an empty buffer.
LEMMA NewSetterBuffer ==
    ASSUME NEW u
    PROVE  BufferCounted(NewSetter(u))
BY EmptyHasNoSeparators DEF NewSetter, NewSerializer, BufferCounted

-----------------------------------------------------------------------------
(* Segments hold no '/'.                                                   *)

\* The text before the first '/' or '\', or any other set with '/'.
LEMMA NoSlashBefore ==
    ASSUME NEW s \in Text, NEW set, "/" \in set
    PROVE  NoSlash(Before(s, FindFirst(s, set)))
<1>. DEFINE i == FindFirst(s, set)
<1>1. i \in 1 .. Len(s) + 1 /\ \A k \in 1 .. Len(s) : k < i => s[k] \notin set
  BY FindFirstRange
<1>2. Len(s) \in Nat
  BY DEF Text
<1>. HIDE DEF i
<1>3. Len(Before(s, i)) = i - 1 /\ \A k \in 1 .. i - 1 : Before(s, i)[k] = s[k]
  BY <1>1, BeforeText
<1>4. \A k \in 1 .. i - 1 : Before(s, i)[k] # "/"
  BY <1>1, <1>2, <1>3
<1>5. NoSlash(Before(s, i))
  BY <1>3, <1>4 DEF NoSlash
<1>. QED  BY <1>5 DEF i

\* Percent encoding writes no '/'.
LEMMA EncodedHasNoSlash ==
    ASSUME NEW s \in Text, NEW set, NoSlash(s)
    PROVE  NoSlash(Encode(s, set))
<1>1. Len(s) \in Nat
  BY DEF Text
<1>2. \A c : c # "/" => PercentEncoded(c) # "/"
  BY DEF PercentEncoded
<1>3. Len(Encode(s, set)) = Len(s)
  BY EncodeText
<1>4. \A i \in 1 .. Len(s) : Encode(s, set)[i] # "/"
  BY <1>2 DEF Encode, NoSlash
<1>. QED  BY <1>3, <1>4 DEF NoSlash

\* A drive letter.
LEMMA DriveHasNoSlash ==
    /\ \A c \in Letter : NoSlash(<<c, ":">>)
    /\ \A s : IsNormalizedWindowsDrive(s) => NoSlash(s)
<1>1. \A c \in Letter : c # "/"
  BY DEF Letter
<1>2. \A c \in Letter : NoSlash(<<c, ":">>)
  <2>1. SUFFICES ASSUME NEW c \in Letter PROVE NoSlash(<<c, ":">>)
    OBVIOUS
  <2>2. Len(<<c, ":">>) = 2 /\ <<c, ":">>[1] = c /\ <<c, ":">>[2] = ":"
    OBVIOUS
  <2>3. \A i \in 1 .. 2 : i = 1 \/ i = 2
    OBVIOUS
  <2>. QED  BY <1>1, <2>2, <2>3 DEF NoSlash
<1>3. \A s : IsNormalizedWindowsDrive(s) => NoSlash(s)
  <2>1. SUFFICES ASSUME NEW s, IsNormalizedWindowsDrive(s) PROVE NoSlash(s)
    OBVIOUS
  <2>2. Len(s) = 2 /\ s[1] \in Letter /\ s[2] = ":"
    BY <2>1 DEF IsNormalizedWindowsDrive
  <2>3. \A i \in 1 .. 2 : i = 1 \/ i = 2
    OBVIOUS
  <2>. QED  BY <1>1, <2>2, <2>3 DEF NoSlash
<1>. QED  BY <1>2, <1>3

-----------------------------------------------------------------------------
(* How a block ends.                                                       *)

LEMMA GotoCounted ==
    ASSUME PathInv, NEW state, NEW x, NEW rest, Goto(state, x, rest),
           PathCounted(x.u),
           x.setter /\ state \in {"path_start", "path", "path_end"} => BufferCounted(x)
    PROVE  PathInv'
<1>1. /\ pc' = state /\ urls' = x /\ base' = base /\ old' = old
  BY DEF Goto, callVars
<1>2. url' = x.u
  BY <1>1 DEF url
<1>3. PathCounted(old') /\ PathCounted(base') /\ PathCounted(url')
  BY <1>1, <1>2 DEF PathInv
<1>4. pc' \in {"path_start", "path", "path_end"} /\ urls'.setter => BufferCounted(urls')
  BY <1>1
<1>. QED  BY <1>3, <1>4 DEF PathInv

LEMMA ReturnCounted ==
    ASSUME PathInv, NEW r, NEW x, Return(r, x), PathCounted(x.u)
    PROVE  PathInv'
<1>1. pc' = "return" /\ urls' = x /\ base' = base /\ old' = old
  BY DEF Return, parserVars, callVars
<1>2. url' = x.u
  BY <1>1 DEF url
<1>3. PathCounted(old') /\ PathCounted(base') /\ PathCounted(url')
  BY <1>1, <1>2 DEF PathInv
<1>. QED  BY <1>1, <1>3 DEF PathInv

\* In a block nothing happens to the url: it goes on, or it returns.
LEMMA UnchangedCounted ==
    ASSUME PathInv, urls' = urls, base' = base, old' = old,
           pc' \in {"path_start", "path", "path_end"} /\ urls.setter =>
              pc \in {"path_start", "path", "path_end"}
    PROVE  PathInv'
<1>1. url' = url
  BY DEF url
<1>2. PathCounted(old') /\ PathCounted(base') /\ PathCounted(url')
  BY <1>1 DEF PathInv
<1>3. pc' \in {"path_start", "path", "path_end"} /\ urls'.setter => BufferCounted(urls')
  BY DEF PathInv
<1>. QED  BY <1>2, <1>3 DEF PathInv

\* The blocks that are entered before anything of the path is written.
EarlyState ==
    {"scheme_start", "scheme", "no_scheme", "special_relative_or_authority",
     "path_or_authority", "relative", "relative_slash", "special_authority_slashes",
     "special_authority_ignore_slashes", "authority", "host", "hostname", "file",
     "file_slash", "file_host", "opaque_path"}

LEMMA EarlyEntered ==
    ASSUME WorkInv, pc \in EarlyState, ~urls.setter
    PROVE  PathCounted(url)
<1>1. pc \in ParserState
  BY DEF EarlyState, ParserState
<1>2. ~override
  BY <1>1 DEF WorkInv, WorkShape, ParsingOK
<1>3. MayEnter(pc, urls, ptr)
  BY <1>1, <1>2, ParsingBlock
<1>4. Parser(urls) /\ urls.u.segs = 0
  BY <1>3 DEF MayEnter, EarlyState
<1>5. Fresh(urls) \/ urls.last < PATH
  <2>1. SCHEME < PATH /\ PASSWORD < PATH /\ HOST < PATH /\ urls.last \in Int
    <3>1. urls.last \in Part
      BY <1>4, SerializerType DEF Parser
    <3>2. urls.last \in Int
      BY <3>1, PartInt
    <3>. QED  BY <3>2, PartNumbers
  <2>2. CASE pc \in {"scheme_start", "scheme", "no_scheme"}
    BY <1>3, <2>2 DEF MayEnter
  <2>3. CASE pc \in AfterScheme \cup {"special_relative_or_authority", "relative_slash",
                                      "relative", "file"}
    BY <1>3, <2>1, <2>3 DEF MayEnter, SchemeWritten
  <2>4. CASE pc \in {"host", "hostname"}
    <3>1. urls.last =< PASSWORD
      BY <1>3, <2>4 DEF MayEnter
    <3>. QED  BY <2>1, <3>1, PartNumbers
  <2>5. CASE pc \in {"file_slash", "file_host", "opaque_path"}
    BY <1>3, <2>1, <2>5 DEF MayEnter
  <2>. QED  BY <2>2, <2>3, <2>4, <2>5 DEF EarlyState, AfterScheme
<1>6. CASE Fresh(urls)
  BY <1>6, FreshCounted DEF url
<1>7. CASE ~Fresh(urls) /\ urls.last < PATH
  <2>1. Appender(urls)
    BY <1>4, <1>7 DEF Parser, Appender
  <2>. QED  BY <1>4, <1>7, <2>1, NoPathCounted DEF url
<1>. QED  BY <1>5, <1>6, <1>7

LEMMA EarlyCounted == WorkInv /\ pc \in EarlyState /\ ~urls.setter => PathCounted(url)
BY EarlyEntered

\* The same of the state that a step leads to.
LEMMA NextEarlyCounted ==
    ASSUME WorkInv', pc' \in EarlyState, ~urls'.setter
    PROVE  PathCounted(url)'
<1>1. (WorkInv /\ pc \in EarlyState /\ ~urls.setter => PathCounted(url))'
  BY EarlyCounted, PTL
<1>. QED  BY <1>1

\* A step of url_parse that goes to such a block.
LEMMA GoesEarly ==
    ASSUME FullWork, PathInv, Step, pc \in ParserState, pc' \in EarlyState, ~override',
           UNCHANGED <<old, base>>
    PROVE  PathInv'
<1>1. WorkInv'
  <2>1. ~GivesBackOld
    BY DEF GivesBackOld, ParserState
  <2>. QED  BY <2>1, WorkNext DEF FullWork, Next
<1>2. PathCounted(url')
  <2>1. pc' \in ParserState
    BY DEF EarlyState, ParserState
  <2>2. ~urls'.setter
    BY <1>1, <2>1 DEF WorkInv, WorkShape, SettingOK
  <2>. QED  BY <1>1, <2>2, NextEarlyCounted
<1>3. pc' \notin {"path_start", "path", "path_end"}
  BY DEF EarlyState
<1>. QED  BY <1>2, <1>3 DEF PathInv

\* The blocks that leave the url alone.
LEMMA UnchangedBlocksCounted ==
    ASSUME FullWork, PathInv,
           \/ SchemeStartState \/ NotAScheme \/ SpecialRelativeOrAuthorityState
           \/ PathOrAuthorityState \/ SpecialAuthoritySlashesState
           \/ SpecialAuthorityIgnoreSlashesState \/ FileHostOverride \/ NothingToSave
    PROVE  PathInv'
<1>1. /\ urls' = urls /\ base' = base /\ old' = old
      /\ pc' \in {"path_start", "path", "path_end"} => pc = "path_or_authority"
  BY DEF SchemeStartState, NotAScheme, SpecialRelativeOrAuthorityState,
         PathOrAuthorityState, SpecialAuthoritySlashesState,
         SpecialAuthorityIgnoreSlashesState, FileHostOverride, NothingToSave,
         Goto, Return, parserVars, callVars
<1>2. pc = "path_or_authority" => ~urls.setter
  BY NotSettingRecord
<1>. QED  BY <1>1, <1>2, UnchangedCounted

LEMMA SchemeStateCounted ==
    ASSUME FullWork, PathInv, SchemeState
    PROVE  PathInv'
<1>1. pc' \in EarlyState /\ UNCHANGED <<old, base, override>> /\ ~override
  BY DEF SchemeState, Goto, callVars, EarlyState
<1>2. Step /\ pc \in ParserState
  BY DEF Step, SchemeState, ParserState
<1>. QED  BY <1>1, <1>2, GoesEarly

LEMMA AuthorityCounted ==
    ASSUME FullWork, PathInv, AuthorityState
    PROVE  PathInv'
<1>1. CASE \E r : Return(r, urls)
  BY <1>1, ReturnCounted DEF PathInv, url
<1>2. CASE \E x, rest : Goto("host", x, rest)
  <2>1. pc' \in EarlyState /\ UNCHANGED <<old, base, override>>
    BY <1>2 DEF Goto, callVars, EarlyState
  <2>2. ~override
    BY NotSettingRecord DEF AuthorityState
  <2>3. Step /\ pc \in ParserState
    BY DEF Step, AuthorityState, ParserState
  <2>. QED  BY <2>1, <2>2, <2>3, GoesEarly
<1>. QED  BY <1>1, <1>2 DEF AuthorityState

LEMMA SchemeOverrideCounted ==
    ASSUME FullWork, PathInv, SchemeOverride
    PROVE  PathInv'
<1>. DEFINE new == GetSchemeInfo(InputScheme)
            x == ReplaceScheme(urls, InputScheme)
            y == ClearPart(x, PORT)
<1>1. pc = "scheme" /\ pc \in ParserState /\ override
  BY DEF SchemeOverride, ParserState
<1>2. Editor(urls) /\ ptr \in Text /\ ptr # <<>> /\ ptr[1] \in Alpha /\ Record(urls.u)
  BY <1>1, SettingRecordBlock DEF MaySet, SetRecord
<1>3. InputScheme \in Text /\ InputScheme # <<>>
  BY <1>2, InputSchemeText
<1>4. PathCounted(urls.u)
  BY DEF PathInv, url
<1>5. ASSUME ~SchemeIgnored(new)
      PROVE  PathCounted(x.u)
  <2>1. new.special = urls.u.inf.special
    BY <1>5 DEF SchemeIgnored, special, url
  <2>. QED  BY <1>2, <1>3, <1>4, <2>1, ReplacedSchemeCount, CountKept
<1>6. ASSUME ~SchemeIgnored(new), new.port >= 0 /\ PortInt(x.u) = new.port
      PROVE  PathCounted(y.u)
  <2>1. new.special = urls.u.inf.special
    BY <1>6 DEF SchemeIgnored, special, url
  <2>2. Editor(x) /\ x.u.inf = new
    BY <1>2, <1>3, <2>1, ReplaceSchemeSound
  <2>3. Framed(x.u)
    BY <1>2, <1>3, <2>1, ReplacedSchemeRecord DEF Record
  <2>4. PathCounted(x.u)
    BY <1>5, <1>6
  <2>5. x.u.inf.special
    BY <1>6, <2>2, SchemeInfoFacts DEF new
  <2>. HIDE DEF x, new
  <2>6. ~HasOpaquePath(x.u)
    <3>1. PICK l \in Part : CompleteUpTo(x.u, l)
      BY <2>2, EditorFacts
    <3>. QED  BY <2>5, <3>1 DEF CompleteUpTo, Sound, HostAgrees
  <2>. QED  BY <2>2, <2>3, <2>4, <2>6, ClearPartCount, CountKept
<1>7. \/ SchemeIgnored(new) /\ Return("ignored", urls)
      \/ ~SchemeIgnored(new) /\ Return("ok", x)
      \/ /\ ~SchemeIgnored(new) /\ new.port >= 0 /\ PortInt(x.u) = new.port
         /\ Return("ok", y)
  BY DEF SchemeOverride
<1>. HIDE DEF x, y, new
<1>. QED  BY <1>4, <1>5, <1>6, <1>7, ReturnCounted

-----------------------------------------------------------------------------
(* The blocks that copy from the base url, and those of the authority.     *)

LEMMA NoSchemeCounted ==
    ASSUME FullWork, PathInv, NoSchemeState
    PROVE  PathInv'
<1>. DEFINE y == AppendParts(BaseScheme, base, PATH, QUERY, "keep")
<1>1. pc = "no_scheme"
  BY DEF NoSchemeState
<1>2. /\ MayEnter(pc, urls, ptr) /\ Parser(urls) /\ ~urls.setter
      /\ hasBase => UsableBase(base)
  BY <1>1, NotSettingRecord
<1>3. Fresh(urls)
  BY <1>1, <1>2 DEF MayEnter
<1>4. Blank(urls) /\ IsNull(urls.u, HOST)
  BY <1>2, <1>3, FreshBlank, FreshBeforeHost DEF Parser, BeforeHost
<1>5. PathCounted(urls.u) /\ PathCounted(base)
  BY DEF PathInv, url
<1>6. ASSUME hasBase, HasOpaquePath(base)
      PROVE  PathCounted(y.u) /\ ~y.setter
  <2>1. UsableBase(base)
    BY <1>2, <1>6
  <2>2. /\ Appender(BaseScheme) /\ SchemeWritten(BaseScheme) /\ BaseScheme.u.segs = 0
        /\ BaseScheme.u.flags = urls.u.flags /\ BaseScheme.u.inf = base.inf
    BY <1>4, <2>1, BaseSchemeSound
  <2>3. BaseScheme.last = SCHEME /\ BaseScheme.last < PATH
        /\ \A t : IsNull(BaseScheme.u, t) <=> IsNull(urls.u, t)
    BY <2>2, PartNumbers DEF SchemeWritten, IsNull
  <2>4. MayAppend(BaseScheme, base, PATH, QUERY)
    BY <1>4, <1>6, <2>1, <2>2, <2>3 DEF MayAppend, UsableBase
  <2>5. PathCounted(BaseScheme.u)
    BY <2>2, <2>3, NoPathCounted
  <2>6. PathCounted(y.u)
    BY <1>5, <2>4, <2>5, CopiedCount
  <2>7. Appender(y)
    BY <2>4, AppendPartsSound DEF AppendedParts
  <2>. HIDE DEF y
  <2>. QED  BY <2>6, <2>7, AppenderFacts
<1>7. \/ hasBase /\ HasOpaquePath(base) /\ Goto("fragment", y, Tail(ptr))
      \/ Goto("file", urls, ptr)
      \/ Goto("relative", urls, ptr)
      \/ Return("missing_scheme_non_relative_url", urls)
  BY DEF NoSchemeState, y
<1>. HIDE DEF y
<1>. QED  BY <1>2, <1>5, <1>6, <1>7, GotoCounted, ReturnCounted

\* The parts that a reference takes over from its base.
LEMMA CopyingCounted ==
    ASSUME NEW x, Appender(x), x.u.segs = 0, x.last < PATH, ~HasOpaquePath(x.u),
           NEW src, UsableBase(src), ~HasOpaquePath(src), PathCounted(src),
           NEW t1, \/ x.last = SCHEME /\ t1 = USERNAME
                   \/ x.last = HOST /\ IsEmpty(x.u, HOST) /\ t1 = HOST,
           NEW t2, t2 \in {PATH, QUERY} \/ (t1 = USERNAME /\ t2 = PORT)
                              \/ (t1 = HOST /\ t2 = HOST),
           NEW how, t2 = PATH \/ how = "keep"
    PROVE  LET y == AppendParts(x, src, t1, t2, how) IN PathCounted(y.u) /\ ~y.setter
<1>. DEFINE y == AppendParts(x, src, t1, t2, how)
<1>1. MayAppend(x, src, t1, t2)
  <2>1. HOST # USERNAME
    BY PartNumbers
  <2>. QED  BY <2>1 DEF MayAppend, UsableBase
<1>2. PathCounted(x.u)
  BY NoPathCounted
<1>3. PathCounted(y.u)
  BY <1>1, <1>2, CopiedCount
<1>4. Appender(y)
  BY <1>1, AppendPartsSound DEF AppendedParts
<1>. HIDE DEF y
<1>5. ~y.setter
  BY <1>4, AppenderFacts
<1>. QED  BY <1>3, <1>5 DEF y

LEMMA RelativeCounted ==
    ASSUME FullWork, PathInv, RelativeState
    PROVE  PathInv'
<1>. DEFINE x == BaseScheme
            all == AppendParts(x, base, USERNAME, QUERY, "keep")
            upToPath == AppendParts(x, base, USERNAME, PATH, "keep")
            shorter == AppendParts(x, base, USERNAME, PATH, "remLast")
<1>1. pc = "relative"
  BY DEF RelativeState
<1>2. /\ pc \in ParserState /\ ~override /\ MayEnter(pc, urls, ptr) /\ Parser(urls)
      /\ ~urls.setter /\ (hasBase => UsableBase(base))
  BY <1>1, NotSettingRecord
<1>3. /\ Fresh(urls) \/ SchemeWritten(urls)
      /\ urls.u.segs = 0 /\ hasBase /\ ~HasOpaquePath(base)
  BY <1>1, <1>2 DEF MayEnter
<1>4. Blank(urls)
  <2>1. CASE Fresh(urls)
    BY <1>2, <2>1, FreshBlank DEF Parser
  <2>2. CASE SchemeWritten(urls)
    <3>1. Appender(urls)
      BY <1>2, <2>2 DEF Parser, Appender, SchemeWritten
    <3>. QED  BY <1>3, <2>2, <3>1, SchemeBlank
  <2>. QED  BY <1>3, <2>1, <2>2
<1>5. Appender(x) /\ SchemeWritten(x) /\ x.u.segs = 0
  BY <1>2, <1>3, <1>4, BaseSchemeSound
<1>6. UsableBase(base) /\ PathCounted(base)
  BY <1>2, <1>3 DEF PathInv
<1>. HIDE DEF x
<1>7. x.last = SCHEME /\ x.last < PATH /\ ~HasOpaquePath(x.u) /\ ~x.setter
  <2>1. x.last = SCHEME /\ ~HasOpaquePath(x.u)
    BY <1>5 DEF SchemeWritten
  <2>2. x.last < PATH
    BY <2>1, PartNumbers
  <2>3. ~x.setter
    BY <1>5, AppenderFacts
  <2>. QED  BY <2>1, <2>2, <2>3
<1>8. PathCounted(x.u)
  BY <1>5, <1>7, NoPathCounted
<1>9. PathCounted(all.u) /\ ~all.setter
  BY <1>3, <1>5, <1>6, <1>7, CopyingCounted
<1>10. PathCounted(upToPath.u) /\ ~upToPath.setter
  BY <1>3, <1>5, <1>6, <1>7, CopyingCounted
<1>11. PathCounted(shorter.u) /\ ~shorter.setter
  BY <1>3, <1>5, <1>6, <1>7, CopyingCounted
<1>12. \/ Return("ok", all)
       \/ Goto("relative_slash", x, Tail(ptr))
       \/ Goto("query", upToPath, Tail(ptr))
       \/ Goto("fragment", all, Tail(ptr))
       \/ Goto("path", shorter, ptr)
  BY DEF RelativeState, x, all, upToPath, shorter
<1>. HIDE DEF all, upToPath, shorter
<1>. QED
  BY <1>7, <1>8, <1>9, <1>10, <1>11, <1>12, GotoCounted, ReturnCounted

LEMMA RelativeSlashCounted ==
    ASSUME FullWork, PathInv, RelativeSlashState
    PROVE  PathInv'
<1>. DEFINE y == AppendParts(urls, base, USERNAME, PORT, "keep")
<1>1. pc = "relative_slash"
  BY DEF RelativeSlashState
<1>2. /\ Appender(urls) /\ SchemeWritten(urls) /\ urls.last = SCHEME
      /\ urls.u.segs = 0 /\ ~urls.setter /\ ~HasOpaquePath(base) /\ UsableBase(base)
  BY <1>1, AfterSchemeRecord
<1>3. PathCounted(urls.u) /\ PathCounted(base)
  BY DEF PathInv, url
<1>4. urls.last < PATH /\ ~HasOpaquePath(urls.u)
  BY <1>2, PartNumbers DEF SchemeWritten
<1>5. PathCounted(y.u) /\ ~y.setter
  BY <1>2, <1>3, <1>4, CopyingCounted
<1>6. \/ Goto("special_authority_ignore_slashes", urls, Tail(ptr))
      \/ Goto("authority", urls, Tail(ptr))
      \/ Goto("path", y, ptr)
  BY DEF RelativeSlashState, y
<1>. HIDE DEF y
<1>. QED  BY <1>2, <1>3, <1>5, <1>6, GotoCounted

LEMMA HostStateCounted ==
    ASSUME FullWork, PathInv, HostState
    PROVE  PathInv'
<1>. DEFINE authority == Before(ptr, EndOfAuthority)
            end == EndOfHost(authority)
            host == Before(authority, end)
            result == ParseHostResult(host, ~special)
            x == ParseHostOutput(urls, host, ~special)
<1>1. pc \in ParserState /\ pc \in {"host", "hostname"} /\ ptr \in Text
  BY DEF HostState, ParserState, FullWork, WorkInv, WorkShape, TypeOK
<1>2. host \in Text
  <2>1. authority \in Text
    BY <1>1, FromIsText DEF EndOfAuthority
  <2>2. end \in 1 .. Len(authority) + 1
    BY <2>1, EndOfHostRange
  <2>. QED  BY <2>1, <2>2, BeforeText
<1>3. \/ Return("host_missing", urls) \/ Return("ignored", urls)
      \/ Return(result, x) \/ Return("ok", x)
      \/ Goto("port", x, From(ptr, end + 1))
      \/ ~override /\ Goto("path_start", x, From(ptr, end))
  BY HostOutcomes
<1>4. PathCounted(urls.u)
  BY DEF PathInv, url
<1>5. PathCounted(x.u) /\ (~override => ~x.setter)
  <2>1. CASE ~override
    <3>1. MayEnter(pc, urls, ptr) /\ Parser(urls)
      BY <1>1, <2>1, ParsingRecordBlock
    <3>2. /\ Appending(urls) /\ urls.last =< PASSWORD /\ ~HasOpaquePath(urls.u)
          /\ urls.u.segs = 0
      BY <1>1, <3>1 DEF MayEnter
    <3>3. Appender(urls)
      BY <3>1, <3>2 DEF Appender, Parser
    <3>4. urls.last < HOST_START /\ urls.last < PATH /\ HOST < PATH
      <4>1. urls.last \in Part
        BY <3>3, AppenderFacts
      <4>2. urls.last \in Int
        BY <4>1, PartInt
      <4>. QED  BY <3>2, <4>2, PartNumbers
    <3>5. HostParsed(urls, x)
      BY <1>2, <3>2, <3>3, <3>4, ParseHostOutputSound
    <3>. HIDE DEF x
    <3>6. Appender(x) /\ x.u.segs = 0 /\ x.last < PATH
      BY <3>2, <3>3, <3>4, <3>5 DEF HostParsed
    <3>. QED  BY <2>1, <3>6, NoPathCounted, AppenderFacts
  <2>2. CASE override
    <3>1. MaySet(pc, urls, ptr) /\ Editor(urls) /\ SetRecord(pc, urls)
      BY <1>1, <2>2, SettingRecordBlock
    <3>2. /\ ~HasOpaquePath(urls.u) /\ Framed(urls.u) /\ PathConsistent(urls.u)
      BY <1>1, <3>1 DEF MaySet, SetRecord, Record
    <3>3. MayHost(urls)
      BY <3>1, <3>2 DEF MayHost
    <3>4. x = urls \/ \E text \in Text : WithHost(urls.u, x.u, text)
      BY <1>2, <3>3, ParsedHostRecord
    <3>. HIDE DEF x
    <3>. QED  BY <1>4, <2>2, <3>4, WithHostCount, CountKept
  <2>. QED  BY <2>1, <2>2
<1>. HIDE DEF x, result, host, end, authority
<1>6. CASE Return("host_missing", urls) \/ Return("ignored", urls)
  BY <1>4, <1>6, ReturnCounted
<1>7. CASE Return(result, x) \/ Return("ok", x)
  BY <1>5, <1>7, ReturnCounted
<1>8. CASE Goto("port", x, From(ptr, end + 1))
  BY <1>5, <1>8, GotoCounted
<1>9. CASE ~override /\ Goto("path_start", x, From(ptr, end))
  BY <1>5, <1>9, GotoCounted
<1>. QED  BY <1>3, <1>6, <1>7, <1>8, <1>9

LEMMA PortStateCounted ==
    ASSUME FullWork, PathInv, PortState
    PROVE  PathInv'
<1>. DEFINE rest == From(ptr, FindFirstNot(ptr, Digit))
            digits == PortDigits(Before(ptr, FindFirstNot(ptr, Digit)))
            y == PutPort(urls, digits)
            written == FindFirstNot(ptr, Digit) # 1
<1>1. pc = "port" /\ pc \in ParserState /\ ptr \in Text
  BY DEF PortState, ParserState, FullWork, WorkInv, WorkShape, TypeOK
<1>2. digits \in Text
  BY <1>1, FromIsText, PortDigitsText
<1>3. \/ Return("port_invalid", urls) \/ Return("port_out_of_range", urls)
      \/ override /\ Return("ok", urls)
      \/ ~override /\ Goto("path_start", urls, rest)
      \/ override /\ written /\ Return("ok", y)
      \/ ~override /\ written /\ Goto("path_start", y, rest)
  BY DEF PortState, rest, digits, y, written
<1>4. PathCounted(urls.u)
  BY DEF PathInv, url
<1>5. written => digits # <<>>
  <2>1. written => /\ Before(ptr, FindFirstNot(ptr, Digit)) \in Text
                   /\ AllDigits(Before(ptr, FindFirstNot(ptr, Digit)))
    BY <1>1, DigitsBeforeEnd
  <2>. HIDE DEF written
  <2>2. written => AllDigits(digits)
    BY <2>1, PortDigitsAreDigits
  <2>. HIDE DEF digits
  <2>3. AllDigits(digits) => digits # <<>>
    BY DEF AllDigits
  <2>. QED  BY <2>2, <2>3
<1>. HIDE DEF digits, written, rest
<1>6. written => PathCounted(y.u) /\ (~override => ~y.setter)
  <2>1. SUFFICES ASSUME written PROVE PathCounted(y.u) /\ (~override => ~y.setter)
    OBVIOUS
  <2>2. CASE ~override
    <3>1. MayEnter(pc, urls, ptr) /\ Parser(urls)
      BY <1>1, <2>2, ParsingRecordBlock
    <3>2. /\ Appending(urls) /\ ~HasOpaquePath(urls.u)
          /\ urls.save => HostWritten(urls) /\ urls.last = HOST
      BY <1>1, <3>1 DEF MayEnter
    <3>3. Appender(urls) /\ ~Editor(urls)
      BY <3>1, <3>2 DEF Appender, Parser, Editor
    <3>4. urls.save => ~IsNull(urls.u, HOST) /\ (Appender(urls) => urls.last = HOST)
      BY <3>2 DEF HostWritten
    <3>5. SameCount(urls.u, y.u)
      BY <1>2, <1>5, <2>1, <3>2, <3>3, <3>4, PutPortCount
    <3>6. Appender(y)
      BY <1>2, <3>2, <3>3, <3>4, PutPortSound
    <3>. HIDE DEF y
    <3>. QED  BY <1>4, <3>5, <3>6, CountKept, AppenderFacts
  <2>3. CASE override
    <3>1. MaySet(pc, urls, ptr) /\ Editor(urls) /\ SetRecord(pc, urls)
      BY <1>1, <2>3, SettingRecordBlock
    <3>2. ~IsNull(urls.u, HOST) /\ Framed(urls.u) /\ ~Appender(urls)
      BY <1>1, <3>1 DEF MaySet, SetRecord, Record, Appender, Editor
    <3>3. PICK l \in Part : CompleteUpTo(urls.u, l)
      BY <3>1, EditorFacts
    <3>4. ~HasOpaquePath(urls.u)
      BY <3>2, <3>3, CompleteFacts
    <3>5. SameCount(urls.u, y.u)
      BY <1>2, <1>5, <2>1, <3>1, <3>2, <3>4, PutPortCount
    <3>. QED  BY <1>4, <2>3, <3>5, CountKept
  <2>. QED  BY <2>2, <2>3
<1>7. ~override => ~urls.setter
  BY <1>1, ParsingRecordBlock
<1>. HIDE DEF y
<1>. QED  BY <1>3, <1>4, <1>6, <1>7, GotoCounted, ReturnCounted

LEMMA FileSlashCounted ==
    ASSUME FullWork, PathInv, FileSlashState
    PROVE  PathInv'
<1>. DEFINE x == AppendParts(urls, base, HOST, HOST, "keep")
            y == PutSegment(x, PathFirst2(base))
<1>1. pc = "file_slash"
  BY DEF FileSlashState
<1>2. /\ pc \in ParserState /\ MayEnter(pc, urls, ptr) /\ Parser(urls) /\ ~urls.setter
      /\ urls.save => EnterRecord(pc, urls, ptr)
      /\ hasBase => UsableBase(base) /\ Record(base)
  BY <1>1, NotSettingRecord
<1>3. /\ Appending(urls) /\ HostWritten(urls) /\ urls.last = HOST
      /\ IsEmpty(urls.u, HOST) /\ ~HasOpaquePath(urls.u) /\ urls.u.segs = 0
  BY <1>1, <1>2 DEF MayEnter
<1>4. Appender(urls) /\ ~IsNull(urls.u, HOST)
  BY <1>2, <1>3 DEF Parser, Appender, HostWritten
<1>5. PathCounted(urls.u) /\ PathCounted(base)
  BY DEF PathInv, url
<1>6. ASSUME hasBase, base.inf.file
      PROVE  PathCounted(x.u) /\ ~x.setter
  <2>1. UsableBase(base) /\ ~HasOpaquePath(base)
    BY <1>2, <1>6 DEF UsableBase
  <2>2. urls.last < PATH
    BY <1>3, PartNumbers
  <2>. QED  BY <1>3, <1>4, <1>5, <2>1, <2>2, CopyingCounted
<1>7. ASSUME hasBase, base.inf.file, urls.save, FirstSegmentIsDrive(base)
      PROVE  PathCounted(y.u) /\ ~y.setter
  <2>1. /\ UsableBase(base) /\ Record(base) /\ base \in Url /\ Complete(base)
        /\ ~HasOpaquePath(base) /\ base.inf.special
    BY <1>2, <1>7 DEF UsableBase
  <2>2. MayAppend(urls, base, HOST, HOST)
    BY <1>3, <1>4, <2>1 DEF MayAppend
  <2>3. AppendedParts(urls, x, base, HOST)
    BY <2>2, AppendPartsSound
  <2>4. Opened(x)
    <3>1. Framed(urls.u) /\ HostConsistent(urls.u) /\ urls.u.inf.file
      <4>1. ~(HOST < HOST)
        BY PartNumbers
      <4>. QED  BY <1>1, <1>2, <1>3, <1>7, <4>1 DEF EnterRecord
    <3>2. urls.u.inf = base.inf
      <4>1. urls.u.inf = GetSchemeInfo(View(urls.u, SCHEME))
        BY <1>4, AppenderFacts DEF Ordered
      <4>2. base.inf = GetSchemeInfo(View(base, SCHEME))
        BY <2>1 DEF UsableBase
      <4>. QED  BY <1>7, <3>1, <4>1, <4>2, OneFileScheme
    <3>3. MayCopyFrame(urls, base, HOST)
      BY <1>4, <1>7, <3>1 DEF MayCopyFrame
    <3>. QED  BY <1>7, <2>1, <2>2, <3>2, <3>3, CopiedRecord
  <2>5. PathCounted(x.u)
    BY <1>6, <1>7
  <2>. HIDE DEF x
  <2>6. Pathing(x)
    <3>1. Appender(x) /\ ~HasOpaquePath(x.u) /\ x.last =< HOST
          /\ (x.u.segs > 0 => x.last >= PATH)
      BY <2>1, <2>3 DEF AppendedParts
    <3>2. x.last \in Int
      BY <3>1, AppenderFacts, PartInt
    <3>3. x.last =< PATH /\ ~(x.last >= PATH)
      BY <3>1, <3>2, PartNumbers
    <3>. QED  BY <3>1, <3>3 DEF Pathing
  <2>7. PathFirst2(base) \in Text
    <3>1. PICK l \in Part : CompleteUpTo(base, l)
      BY <2>1 DEF Complete
    <3>. QED  BY <2>1, <3>1, CompleteFacts, PathFirst2Text
  <2>8. NoSlash(PathFirst2(base))
    BY <1>7, DriveHasNoSlash DEF FirstSegmentIsDrive
  <2>9. PathCounted(y.u)
    BY <2>4, <2>5, <2>6, <2>7, <2>8, SegmentCount
  <2>10. Appender(y)
    BY <2>6, <2>7, SegmentWritten DEF Pathing
  <2>. HIDE DEF y
  <2>. QED  BY <2>9, <2>10, AppenderFacts
<1>8. \/ Goto("file_host", urls, Tail(ptr))
      \/ Goto("path", urls, ptr)
      \/ hasBase /\ base.inf.file /\ Goto("path", x, ptr)
      \/ /\ hasBase /\ base.inf.file /\ urls.save /\ FirstSegmentIsDrive(base)
         /\ Goto("path", y, ptr)
  BY DEF FileSlashState, x, y
<1>. HIDE DEF x, y
<1>. QED  BY <1>2, <1>5, <1>6, <1>7, <1>8, GotoCounted

\* With the host written, and no segment, there is no path yet.
LEMMA HostWrittenCounted ==
    ASSUME NEW x, Appender(x), x.last = HOST, x.u.segs = 0
    PROVE  PathCounted(x.u) /\ ~x.setter
<1>1. x.last < PATH
  BY PartNumbers
<1>. QED  BY <1>1, NoPathCounted, AppenderFacts

LEMMA FileStateCounted ==
    ASSUME FullWork, PathInv, FileState
    PROVE  PathInv'
<1>. DEFINE scheme == IF url.inf.file THEN urls ELSE AppendScheme(urls, <<"file">>)
            x == SetEmptyHost(scheme)
            all == AppendParts(x, base, HOST, QUERY, "keep")
            upToPath == AppendParts(x, base, HOST, PATH, "keep")
            host == AppendParts(x, base, HOST, HOST, "keep")
            shorter == AppendParts(x, base, HOST, PATH, "shorten")
<1>1. pc = "file"
  BY DEF FileState
<1>2. /\ pc \in ParserState /\ MayEnter(pc, urls, ptr) /\ Parser(urls) /\ ~urls.setter
      /\ hasBase => UsableBase(base) /\ Record(base)
  BY <1>1, NotSettingRecord
<1>3. /\ ~HasOpaquePath(urls.u) /\ urls.u.segs = 0
      /\ Fresh(urls) \/ (SchemeWritten(urls) /\ urls.u.inf.file)
  BY <1>1, <1>2 DEF MayEnter
<1>4. Appender(scheme) /\ SchemeWritten(scheme) /\ scheme.u.segs = 0
  BY <1>2, <1>3, FileScheme
<1>5. \/ ptr # <<>> /\ Goto("file_slash", x, Tail(ptr))
      \/ Goto("path", x, ptr)
      \/ /\ hasBase /\ base.inf.file
         /\ \/ Return("ok", all)
            \/ ptr # <<>> /\ Goto("query", upToPath, Tail(ptr))
            \/ ptr # <<>> /\ Goto("fragment", all, Tail(ptr))
            \/ Goto("path", host, ptr)
            \/ Goto("path", shorter, ptr)
  BY DEF FileState, scheme, x, all, upToPath, host, shorter, StartsWith
<1>. HIDE DEF scheme
<1>6. ~HasOpaquePath(scheme.u) /\ scheme.last < HOST_START /\ scheme.last = SCHEME
  BY <1>4, PartNumbers DEF SchemeWritten
<1>7. HostPlan(scheme, x) /\ Appender(x) /\ x.last = HOST /\ IsEmpty(x.u, HOST)
  BY <1>4, <1>6, SetEmptyHostSound
<1>8. x.u.segs = 0 /\ ~HasOpaquePath(x.u)
  BY <1>4, <1>6, <1>7, HostPlanFacts DEF HostPlan
<1>. HIDE DEF x
<1>9. PathCounted(x.u) /\ ~x.setter
  BY <1>7, <1>8, HostWrittenCounted
<1>10. PathCounted(base)
  BY DEF PathInv
<1>11. ASSUME hasBase, base.inf.file
       PROVE  /\ PathCounted(all.u) /\ ~all.setter
              /\ PathCounted(upToPath.u) /\ ~upToPath.setter
              /\ PathCounted(host.u) /\ ~host.setter
              /\ PathCounted(shorter.u) /\ ~shorter.setter
  <2>1. UsableBase(base) /\ ~HasOpaquePath(base)
    BY <1>2, <1>11 DEF UsableBase
  <2>2. x.last < PATH
    BY <1>7, PartNumbers
  <2>3. PathCounted(all.u) /\ ~all.setter
    BY <1>7, <1>8, <1>10, <2>1, <2>2, CopyingCounted
  <2>4. PathCounted(upToPath.u) /\ ~upToPath.setter
    BY <1>7, <1>8, <1>10, <2>1, <2>2, CopyingCounted
  <2>5. PathCounted(host.u) /\ ~host.setter
    BY <1>7, <1>8, <1>10, <2>1, <2>2, CopyingCounted
  <2>6. PathCounted(shorter.u) /\ ~shorter.setter
    BY <1>7, <1>8, <1>10, <2>1, <2>2, CopyingCounted
  <2>. QED  BY <2>3, <2>4, <2>5, <2>6
<1>. HIDE DEF all, upToPath, host, shorter
<1>12. CASE Goto("file_slash", x, Tail(ptr)) \/ Goto("path", x, ptr)
  BY <1>9, <1>12, GotoCounted
<1>13. CASE hasBase /\ base.inf.file /\ Return("ok", all)
  BY <1>11, <1>13, ReturnCounted
<1>14. CASE /\ hasBase /\ base.inf.file
            /\ \/ Goto("query", upToPath, Tail(ptr)) \/ Goto("fragment", all, Tail(ptr))
               \/ Goto("path", host, ptr) \/ Goto("path", shorter, ptr)
  BY <1>11, <1>14, GotoCounted
<1>. QED  BY <1>5, <1>12, <1>13, <1>14

LEMMA FileHostStateCounted ==
    ASSUME FullWork, PathInv, FileHostState
    PROVE  PathInv'
<1>. DEFINE end == FindFirst(ptr, SpecialAuthorityEnd)
            text == Before(ptr, end)
            rest == From(ptr, end)
            result == ParseHostResult(text, ~special)
            parsed == ParseHostOutput(urls, text, ~special)
            noHost == SetEmptyHost(urls)
            local == EmptyHost(parsed)
            found == result = "ok" /\ urls.save
<1>1. pc = "file_host" /\ pc \in ParserState /\ ptr \in Text
  BY DEF FileHostState, ParserState, FullWork, WorkInv, WorkShape, TypeOK
<1>2. text \in Text
  BY <1>1, FromIsText
<1>3. \/ ~override /\ Goto("path", urls, ptr)
      \/ ~found /\ Return(result, parsed)
      \/ override /\ Return("ok", noHost)
      \/ override /\ found /\ Return("ok", local)
      \/ override /\ found /\ Return("ok", parsed)
      \/ ~override /\ Goto("path_start", noHost, rest)
      \/ ~override /\ found /\ Goto("path_start", local, rest)
      \/ ~override /\ found /\ Goto("path_start", parsed, rest)
  BY DEF FileHostState, end, text, rest, result, parsed, noHost, local, found
<1>4. PathCounted(urls.u)
  BY DEF PathInv, url
<1>5. CASE ~override
  <2>1. MayEnter(pc, urls, ptr) /\ Parser(urls) /\ ~urls.setter
    BY <1>1, <1>5, ParsingRecordBlock
  <2>2. /\ Appending(urls) /\ HostWritten(urls) /\ urls.last = HOST
        /\ IsEmpty(urls.u, HOST) /\ ~HasOpaquePath(urls.u) /\ urls.u.segs = 0
    BY <1>1, <2>1 DEF MayEnter
  <2>3. Appender(urls)
    BY <2>1, <2>2 DEF Parser, Appender
  <2>4. /\ HostParsed(urls, parsed)
        /\ found => ~IsNull(parsed.u, HOST) /\ (Appender(urls) => parsed.last = HOST)
    BY <1>2, <2>2, <2>3, ParseHostOutputSound
  <2>5. HostPlan(urls, noHost) /\ Appender(noHost) /\ noHost.last = HOST
    BY <2>2, <2>3, SetEmptyHostSound
  <2>. HIDE DEF parsed, noHost, rest
  <2>6. PathCounted(noHost.u) /\ ~noHost.setter
    BY <2>2, <2>5, HostWrittenCounted DEF HostPlan
  <2>7. Appender(parsed) /\ parsed.u.segs = 0 /\ parsed.last = HOST /\ ~HasOpaquePath(parsed.u)
    BY <2>2, <2>3, <2>4 DEF HostParsed
  <2>8. PathCounted(parsed.u) /\ ~parsed.setter
    BY <2>7, HostWrittenCounted
  <2>9. found => HostPlan(parsed, local) /\ Appender(local) /\ local.last = HOST
    BY <2>4, <2>3, <2>7, EmptyHostSound
  <2>. HIDE DEF local, found, result
  <2>10. found => PathCounted(local.u) /\ ~local.setter
    BY <2>7, <2>9, HostWrittenCounted DEF HostPlan
  <2>. QED  BY <1>3, <1>4, <1>5, <2>1, <2>6, <2>8, <2>10, GotoCounted, ReturnCounted
<1>6. CASE override
  <2>1. MaySet(pc, urls, ptr) /\ Editor(urls) /\ SetRecord(pc, urls)
    BY <1>1, <1>6, SettingRecordBlock
  <2>2. /\ ~HasOpaquePath(urls.u) /\ Record(urls.u) /\ urls.u.inf.file
        /\ Framed(urls.u) /\ HostConsistent(urls.u) /\ PathConsistent(urls.u)
    BY <1>1, <2>1 DEF MaySet, SetRecord, Record
  <2>3. MayHost(urls)
    BY <2>1, <2>2 DEF MayHost
  <2>4. HostParsed(urls, parsed) /\ (found => ~IsNull(parsed.u, HOST))
    BY <1>2, <2>1, <2>2, ParseHostOutputSound
  <2>5. parsed = urls \/ \E s \in Text : WithHost(urls.u, parsed.u, s)
    BY <1>2, <2>3, ParsedHostRecord
  <2>6. ~HasUserinfo(urls.u) /\ IsNull(urls.u, PORT)
    BY <2>2, FileConsistent
  <2>7. ~IsNull(urls.u, HOST)
    <3>1. PICK l \in Part : CompleteUpTo(urls.u, l)
      BY <2>1, EditorFacts
    <3>2. urls.u.inf.special
      BY <2>2, <3>1, CompleteFacts, InfoOfOrdered
    <3>. QED  BY <2>2, <3>2 DEF HostConsistent
  <2>8. PathCounted(noHost.u)
    <3>1. WithHost(urls.u, noHost.u, <<>>)
      BY <2>3, <2>7, SetEmptyHostRecord
    <3>. HIDE DEF noHost
    <3>. QED  BY <1>4, <3>1, WithHostCount, CountKept
  <2>. HIDE DEF parsed, noHost
  <2>9. PathCounted(parsed.u)
    BY <1>4, <2>5, WithHostCount, CountKept
  <2>10. Record(parsed.u)
    BY <2>2, <2>5, <2>6, RecordWithHost
  <2>11. Editor(parsed) /\ ~HasOpaquePath(parsed.u) /\ parsed.u.inf = urls.u.inf
    BY <2>1, <2>4 DEF HostParsed
  <2>12. found => PathCounted(local.u)
    <3>1. SUFFICES ASSUME found PROVE PathCounted(local.u)
      OBVIOUS
    <3>2. Framed(parsed.u) /\ HostConsistent(parsed.u)
      BY <2>10 DEF Record
    <3>3. WithHost(parsed.u, local.u, <<>>)
      BY <2>4, <2>11, <3>1, <3>2, EmptyHostRecord
    <3>. HIDE DEF local
    <3>. QED  BY <2>9, <3>3, WithHostCount, CountKept
  <2>. HIDE DEF local, found, result
  <2>. QED  BY <1>3, <1>6, <2>8, <2>9, <2>12, ReturnCounted
<1>. QED  BY <1>5, <1>6

-----------------------------------------------------------------------------
(* Path, query and fragment.                                               *)

LEMMA PathStartCounted ==
    ASSUME FullWork, PathInv, PathStartState
    PROVE  PathInv'
<1>. DEFINE y == CommitPath(urls)
            x == PutSegment(urls, <<>>)
            z == CommitPath(x)
<1>1. pc = "path_start" /\ pc \in ParserState /\ urls.save
  BY DEF PathStartState, ParserState
<1>2. \/ Goto("path", urls, ptr)
      \/ ptr # <<>> /\ Goto("path", urls, Tail(ptr))
      \/ Return("ok", y)
      \/ override /\ Return("ok", z)
      \/ Goto("query", urls, Tail(ptr))
      \/ Goto("fragment", urls, Tail(ptr))
  BY DEF PathStartState, y, x, z, PutEmptySegment
<1>3. PathCounted(urls.u) /\ (urls.setter => BufferCounted(urls))
  BY <1>1 DEF PathInv, url
<1>4. PathCounted(y.u)
  <2>1. CASE ~override
    <3>1. MayEnter(pc, urls, ptr) /\ Parser(urls) /\ EnterRecord(pc, urls, ptr)
      BY <1>1, <2>1, ParsingRecordBlock
    <3>2. Appending(urls) /\ HostWritten(urls) /\ ~HasOpaquePath(urls.u)
      BY <1>1, <3>1 DEF MayEnter
    <3>3. Appender(urls)
      BY <3>1, <3>2 DEF Parser, Appender
    <3>4. ~(urls.last < HOST)
      <4>1. urls.last \in Part
        BY <3>3, AppenderFacts
      <4>2. urls.last \in Int
        BY <4>1, PartInt
      <4>. QED  BY <3>2, <4>2, PartNumbers DEF HostWritten
    <3>5. Framed(urls.u)
      BY <1>1, <3>1, <3>4 DEF EnterRecord
    <3>6. SameCount(urls.u, y.u)
      BY <3>2, <3>3, <3>5, AppenderCommitCount
    <3>. QED  BY <1>3, <3>6, CountKept
  <2>2. CASE override
    <3>1. MaySet(pc, urls, ptr) /\ Editor(urls) /\ SetRecord(pc, urls) /\ urls.setter
      BY <1>1, <2>2, SettingRecordBlock
    <3>2. ~HasOpaquePath(urls.u) /\ Framed(urls.u)
      BY <1>1, <3>1 DEF MaySet, SetRecord, Record
    <3>. QED  BY <1>3, <3>1, <3>2, EditorCommitCount
  <2>. QED  BY <2>1, <2>2
<1>5. override => PathCounted(z.u)
  <2>1. SUFFICES ASSUME override PROVE PathCounted(z.u)
    OBVIOUS
  <2>2. MaySet(pc, urls, ptr) /\ Editor(urls) /\ SetRecord(pc, urls) /\ urls.setter
    BY <1>1, <2>1, SettingRecordBlock
  <2>3. Collecting(urls) /\ Framed(urls.u)
    BY <1>1, <2>2 DEF MaySet, Collecting, SetRecord, Record
  <2>4. Collecting(x) /\ x.u = urls.u
    BY <2>3, EmptyHasNoSeparators, SegmentCollected
  <2>5. BufferCounted(x)
    BY <1>3, <2>2, <2>3, EmptyHasNoSeparators, SegmentBuffered
  <2>. HIDE DEF x
  <2>. QED  BY <2>3, <2>4, <2>5, EditorCommitCount DEF Collecting
<1>. HIDE DEF y, z
<1>6. CASE \E s : Goto("path", urls, s)
  BY <1>3, <1>6, GotoCounted
<1>7. CASE Return("ok", y) \/ (override /\ Return("ok", z))
  BY <1>4, <1>5, <1>7, ReturnCounted
<1>8. CASE Goto("query", urls, Tail(ptr)) \/ Goto("fragment", urls, Tail(ptr))
  BY <1>3, <1>8, GotoCounted
<1>. QED  BY <1>2, <1>6, <1>7, <1>8

\* A url that a block in the path goes on with.
Counting(x) == PathCounted(x.u) /\ (x.setter => BufferCounted(x))

LEMMA SegmentIsCounted ==
    ASSUME NEW x, (Pathing(x) /\ Opened(x)) \/ Collecting(x), Counting(x),
           NEW s \in Text, NoSlash(s)
    PROVE  Counting(PutSegment(x, s))
<1>1. CASE Pathing(x) /\ Opened(x)
  <2>1. PathCounted(PutSegment(x, s).u)
    BY <1>1, SegmentCount DEF Counting
  <2>2. ~PutSegment(x, s).setter
    BY <1>1, SegmentWritten, AppenderFacts DEF Pathing
  <2>. QED  BY <2>1, <2>2 DEF Counting
<1>2. CASE Collecting(x)
  <2>1. x.setter
    BY <1>2, EditorFacts DEF Collecting
  <2>2. PutSegment(x, s).u = x.u
    BY <1>2, SegmentCollected
  <2>3. BufferCounted(PutSegment(x, s))
    BY <1>2, <2>1, SegmentBuffered DEF Counting
  <2>. QED  BY <2>2, <2>3 DEF Counting
<1>. QED  BY <1>1, <1>2

LEMMA ShortenedIsCounted ==
    ASSUME NEW x, (Pathing(x) /\ Opened(x)) \/ Collecting(x), Counting(x)
    PROVE  /\ Counting(ShortenPath(x))
           /\ \/ Pathing(ShortenPath(x)) /\ Opened(ShortenPath(x))
              \/ Collecting(ShortenPath(x))
<1>1. CASE Pathing(x) /\ Opened(x)
  <2>1. PathCounted(ShortenPath(x).u)
    BY <1>1, ShortenedCount DEF Counting
  <2>2. Pathing(ShortenPath(x)) /\ Opened(ShortenPath(x))
    BY <1>1, AppenderShortenPath, ShortenedRecord
  <2>3. ~ShortenPath(x).setter
    BY <2>2, AppenderFacts DEF Pathing
  <2>. QED  BY <2>1, <2>2, <2>3 DEF Counting
<1>2. CASE Collecting(x)
  <2>1. x.setter
    BY <1>2, EditorFacts DEF Collecting
  <2>2. ShortenPath(x).u = x.u /\ Collecting(ShortenPath(x))
    BY <1>2, CollectedShortenPath
  <2>3. BufferCounted(ShortenPath(x))
    BY <1>2, <2>1, ShortenedBuffer DEF Counting
  <2>. QED  BY <2>2, <2>3 DEF Counting
<1>. QED  BY <1>1, <1>2

LEMMA PathStateCounted ==
    ASSUME FullWork, PathInv, PathState
    PROVE  PathInv'
<1>. DEFINE pathText == Before(ptr, EndOfPath)
            end == FindFirst(pathText, IF special THEN Slash ELSE {"/"})
            segment == Before(pathText, end)
            isLast == end > Len(pathText)
            isDrive == url.inf.file /\ PathIsEmpty(urls) /\ IsWindowsDrive(segment)
            text == IF isDrive THEN <<segment[1], ":">> ELSE Encode(segment, PathSet)
            short == ShortenPath(urls)
            s0 == PutSegment(short, <<>>)
            u0 == PutSegment(urls, <<>>)
            u1 == PutSegment(urls, text)
            rest0 == From(ptr, end)
            rest1 == From(ptr, end + 1)
<1>1. pc = "path" /\ pc \in ParserState /\ ptr \in Text /\ urls.save
  BY DEF PathState, ParserState, FullWork, WorkInv, WorkShape, TypeOK
<1>2. pathText \in Text
  <2>1. Len(ptr) \in Nat
    BY <1>1 DEF Text
  <2>2. EndOfPath \in 1 .. Len(ptr) + 1
    BY <1>1, <2>1, FindFirstRange DEF EndOfPath
  <2>. QED  BY <1>1, <2>2, BeforeText
<1>3. end \in 1 .. Len(pathText) + 1 /\ segment \in Text
  BY <1>2, FindFirstRange, BeforeText
<1>4. NoSlash(segment)
  <2>1. "/" \in IF special THEN Slash ELSE {"/"}
    BY DEF Slash
  <2>. QED  BY <1>2, <2>1, NoSlashBefore
<1>5. text \in Text /\ NoSlash(text)
  <2>. HIDE DEF segment
  <2>1. Encode(segment, PathSet) \in Text /\ NoSlash(Encode(segment, PathSet))
    BY <1>3, <1>4, EncodeText, EncodedHasNoSlash
  <2>2. ASSUME isDrive
        PROVE  <<segment[1], ":">> \in Text /\ NoSlash(<<segment[1], ":">>)
    <3>1. Len(segment) = 2 /\ segment[1] \in Letter
      BY <2>2 DEF isDrive, IsWindowsDrive
    <3>2. segment[1] \in Char
      BY <1>3, <3>1 DEF Text
    <3>3. ":" \in Char
      BY CharAssumption DEF Written
    <3>4. <<segment[1], ":">> \in Text
      BY <3>2, <3>3 DEF Text
    <3>. QED  BY <3>1, <3>4, DriveHasNoSlash
  <2>. HIDE DEF isDrive
  <2>. QED  BY <2>1, <2>2
<1>6. \/ Goto("path_end", s0, rest0) \/ Goto("path_end", u0, rest0)
      \/ Goto("path_end", u1, rest0)
      \/ Goto("path", short, rest1) \/ Goto("path", urls, rest1)
      \/ Goto("path", u1, rest1)
  BY DEF PathState, pathText, end, segment, isLast, isDrive, text, short, s0, u0, u1,
         rest0, rest1, PutEmptySegment
<1>. HIDE DEF text, rest0, rest1, isLast
<1>7. (Pathing(urls) /\ Opened(urls)) \/ Collecting(urls)
  <2>1. CASE ~override
    <3>1. /\ MayEnter(pc, urls, ptr) /\ Parser(urls) /\ ~urls.setter
          /\ EnterRecord(pc, urls, ptr)
      BY <1>1, <2>1, ParsingRecordBlock
    <3>2. Pathing(urls)
      BY <1>1, <3>1 DEF MayEnter, Parser, Appender, Pathing
    <3>3. Opened(urls)
      BY <1>1, <3>1 DEF EnterRecord, Opened
    <3>. QED  BY <3>2, <3>3
  <2>2. CASE override
    <3>1. MaySet(pc, urls, ptr) /\ Editor(urls) /\ SetRecord(pc, urls)
      BY <1>1, <2>2, SettingRecordBlock
    <3>2. Collecting(urls)
      BY <1>1, <3>1 DEF MaySet, Collecting
    <3>. QED  BY <3>2
  <2>. QED  BY <2>1, <2>2
<1>8. Counting(urls)
  BY <1>1 DEF Counting, PathInv, url
<1>9. Counting(short) /\ ((Pathing(short) /\ Opened(short)) \/ Collecting(short))
  BY <1>7, <1>8, ShortenedIsCounted
<1>. HIDE DEF short
<1>10. Counting(s0)
  BY <1>9, EmptyHasNoSeparators, SegmentIsCounted
<1>11. Counting(u0)
  BY <1>7, <1>8, EmptyHasNoSeparators, SegmentIsCounted
<1>12. Counting(u1)
  BY <1>5, <1>7, <1>8, SegmentIsCounted
<1>. HIDE DEF s0, u0, u1
<1>13. ASSUME NEW state, NEW x, NEW rest, Goto(state, x, rest), Counting(x)
       PROVE  PathInv'
  BY <1>13, GotoCounted DEF Counting
<1>. QED  BY <1>6, <1>8, <1>9, <1>10, <1>11, <1>12, <1>13

LEMMA PathEndCounted ==
    ASSUME FullWork, PathInv, PathEndState
    PROVE  PathInv'
<1>. DEFINE y == CommitPath(urls)
<1>1. pc = "path_end" /\ pc \in ParserState
  BY DEF PathEndState, ParserState
<1>2. \/ Return("ok", y)
      \/ Goto("query", y, Tail(ptr))
      \/ Goto("fragment", y, Tail(ptr))
  BY DEF PathEndState, y
<1>3. PathCounted(urls.u) /\ (urls.setter => BufferCounted(urls))
  BY <1>1 DEF PathInv, url
<1>4. PathCounted(y.u)
  <2>1. CASE ~override
    <3>1. /\ MayEnter(pc, urls, ptr) /\ Parser(urls)
          /\ urls.save => EnterRecord(pc, urls, ptr)
      BY <1>1, <2>1, ParsingRecordBlock
    <3>2. Appending(urls) /\ urls.last = PATH /\ ~HasOpaquePath(urls.u) /\ urls.save
      BY <1>1, <3>1 DEF MayEnter
    <3>3. Appender(urls) /\ ~(PATH < HOST)
      BY <3>1, <3>2, PartNumbers DEF Parser, Appender
    <3>4. Framed(urls.u)
      BY <1>1, <3>1, <3>2, <3>3 DEF EnterRecord
    <3>5. SameCount(urls.u, y.u)
      BY <3>2, <3>3, <3>4, AppenderCommitCount
    <3>. QED  BY <1>3, <3>5, CountKept
  <2>2. CASE override
    <3>1. MaySet(pc, urls, ptr) /\ Editor(urls) /\ SetRecord(pc, urls) /\ urls.setter
      BY <1>1, <2>2, SettingRecordBlock
    <3>2. ~HasOpaquePath(urls.u) /\ Framed(urls.u)
      BY <1>1, <3>1 DEF MaySet, SetRecord, Record
    <3>. QED  BY <1>3, <3>1, <3>2, EditorCommitCount
  <2>. QED  BY <2>1, <2>2
<1>. HIDE DEF y
<1>. QED  BY <1>2, <1>4, GotoCounted, ReturnCounted

LEMMA OpaquePathCounted ==
    ASSUME FullWork, PathInv, OpaquePathState
    PROVE  PathInv'
<1>. DEFINE end == FindFirst(ptr, {"?", "#"})
            text == Encode(Before(ptr, end), C0ControlSet)
            y == PutPathString(urls, text)
            rest == From(ptr, end + 1)
<1>1. pc = "opaque_path" /\ urls.save
  BY DEF OpaquePathState
<1>2. /\ pc \in ParserState /\ MayEnter(pc, urls, ptr) /\ ptr \in Text /\ Parser(urls)
      /\ EnterRecord(pc, urls, ptr)
  BY <1>1, NotSettingRecord
<1>3. Appending(urls) /\ urls.last = SCHEME /\ urls.u.segs = 0
  BY <1>1, <1>2 DEF MayEnter
<1>4. Appender(urls) /\ urls.last < HOST
  BY <1>2, <1>3, PartNumbers DEF Parser, Appender
<1>5. HasOpaquePath(urls.u)
  BY <1>1, <1>2, <1>4 DEF EnterRecord
<1>6. text \in Text
  <2>1. Before(ptr, end) \in Text
    BY <1>2, FromIsText
  <2>. QED  BY <2>1, EncodeText
<1>. HIDE DEF text
<1>7. PathCounted(y.u)
  BY <1>3, <1>4, <1>5, <1>6, PathStringCount
<1>8. Return("ok", y) \/ Goto("query", y, rest) \/ Goto("fragment", y, rest)
  BY DEF OpaquePathState, end, text, y, rest
<1>. HIDE DEF y, rest
<1>. QED  BY <1>7, <1>8, GotoCounted, ReturnCounted

\* The query and the fragment come behind the path.
LEMMA LastBlockCounted ==
    ASSUME FullWork, PathInv, pc \in {"query", "fragment"}, urls.save, NEW t,
           (pc = "query" /\ t = QUERY) \/ (pc = "fragment" /\ t = FRAGMENT),
           NEW s \in Text
    PROVE  PathCounted([PutPart(urls, t, s) EXCEPT !.u.flags = @ \cup {t}].u)
<1>. DEFINE y == [PutPart(urls, t, s) EXCEPT !.u.flags = @ \cup {t}]
<1>1. y = WithFlag(PutPart(urls, t, s), t) /\ t \in {PORT, QUERY, FRAGMENT} /\ pc \in ParserState
  BY DEF WithFlag, ParserState
<1>2. t # PORT
  BY PartNumbers
<1>. HIDE DEF y
<1>3. PathCounted(urls.u)
  BY DEF PathInv, url
<1>4. SameCount(urls.u, y.u)
  <2>1. CASE ~override
    <3>1. MayEnter(pc, urls, ptr) /\ Parser(urls)
      BY <1>1, <2>1, ParsingRecordBlock
    <3>2. Appending(urls) /\ PathWritten(urls) /\ urls.last < t
      BY <3>1 DEF MayEnter
    <3>3. Appender(urls) /\ ~Editor(urls)
      BY <3>1, <3>2 DEF Parser, Appender, Editor
    <3>4. urls.last >= HOST
      BY <3>2 DEF PathWritten
    <3>. QED  BY <1>1, <1>2, <3>2, <3>3, <3>4, FlaggedPartCount
  <2>2. CASE override
    <3>1. Editor(urls)
      BY <1>1, <2>2, SettingRecordBlock
    <3>2. ~Appender(urls)
      BY <3>1 DEF Editor, Appender
    <3>. QED  BY <1>1, <1>2, <3>1, <3>2, FlaggedPartCount
  <2>. QED  BY <2>1, <2>2
<1>5. PathCounted(y.u)
  BY <1>3, <1>4, CountKept
<1>. QED  BY <1>5 DEF y

LEMMA QueryCounted ==
    ASSUME FullWork, PathInv, QueryState
    PROVE  PathInv'
<1>. DEFINE end == IF override THEN Len(ptr) + 1 ELSE FindFirst(ptr, {"#"})
            text == Encode(Before(ptr, end), IF special THEN SpecialQuerySet ELSE QuerySet)
            y == [PutPart(urls, QUERY, text) EXCEPT !.u.flags = @ \cup {QUERY}]
            rest == From(ptr, end + 1)
<1>1. pc = "query" /\ ptr \in Text /\ urls.save
  BY DEF QueryState, FullWork, WorkInv, WorkShape, TypeOK
<1>2. end \in 1 .. Len(ptr) + 1
  <2>1. Len(ptr) \in Nat
    BY <1>1 DEF Text
  <2>2. FindFirst(ptr, {"#"}) \in 1 .. Len(ptr) + 1
    BY <1>1, FindFirstRange
  <2>. QED  BY <2>1, <2>2
<1>3. text \in Text
  <2>. HIDE DEF end
  <2>1. Before(ptr, end) \in Text
    BY <1>1, <1>2, BeforeText
  <2>. QED  BY <2>1, EncodeText
<1>4. Return("ok", y) \/ Goto("fragment", y, rest)
  BY DEF QueryState, end, text, y, rest
<1>5. PathCounted(y.u)
  BY <1>1, <1>3, LastBlockCounted
<1>. HIDE DEF y, rest
<1>. QED  BY <1>4, <1>5, GotoCounted, ReturnCounted

LEMMA FragmentCounted ==
    ASSUME FullWork, PathInv, FragmentState
    PROVE  PathInv'
<1>. DEFINE text == Encode(ptr, FragmentSet)
            y == [PutPart(urls, FRAGMENT, text) EXCEPT !.u.flags = @ \cup {FRAGMENT}]
<1>1. pc = "fragment" /\ ptr \in Text /\ urls.save
  BY DEF FragmentState, FullWork, WorkInv, WorkShape, TypeOK
<1>2. text \in Text
  BY <1>1, EncodeText
<1>3. Return("ok", y)
  BY DEF FragmentState
<1>4. PathCounted(y.u)
  BY <1>1, <1>2, LastBlockCounted
<1>. HIDE DEF y
<1>. QED  BY <1>3, <1>4, ReturnCounted

-----------------------------------------------------------------------------
(* Calls.                                                                  *)

\* A call begins or ends with url objects whose segments are counted.
LEMMA CallCounted ==
    ASSUME PathCounted(old'), PathCounted(base'), PathCounted(urls'.u),
           pc' \in {"path_start", "path", "path_end"} /\ urls'.setter => BufferCounted(urls')
    PROVE  PathInv'
BY DEF PathInv, url

LEMMA DoneCounted ==
    ASSUME PathInv, NEW r, NEW u \in Url, PathCounted(u), Done(r, u), UNCHANGED parserVars,
           PathCounted(old')
    PROVE  PathInv'
<1>1. pc' = "done" /\ urls' = NewSerializer(u, TRUE) /\ base' = base
  BY DEF Done, parserVars
<1>2. urls'.u = u
  BY <1>1, NewSerializerType
<1>. QED  BY <1>1, <1>2, CallCounted DEF PathInv

LEMMA BeginParseCounted ==
    ASSUME NEW u \in Url, Resting(u), NEW save \in BOOLEAN, NEW text,
           NEW b, PathCounted(b), NEW isBase,
           BeginParse(u, save, text, b, isBase), PathCounted(old')
    PROVE  PathInv'
<1>. DEFINE x == NewSerializer(Reset(u), save)
<1>1. x.u = EmptyUrl
  BY EmptyUrlRests, NewSerializerType, ResetIsEmpty
<1>2. base' = b /\ urls' = x /\ pc' \in {"return", "scheme_start"}
  BY DEF BeginParse, Enter
<1>. HIDE DEF x
<1>. QED  BY <1>1, <1>2, EmptyUrlCounted, CallCounted

LEMMA EditCounted ==
    ASSUME PathInv, NEW call, NEW text, NEW r, NEW x, x.u \in Url, PathCounted(x.u),
           Set(call, text, r, x)
    PROVE  PathInv'
<1>1. Done(r, x.u) /\ UNCHANGED parserVars /\ old' = url
  BY DEF Set, Called
<1>2. PathCounted(old')
  BY <1>1 DEF PathInv
<1>. QED  BY <1>1, <1>2, DoneCounted

LEMMA EnterSetterCounted ==
    ASSUME FullWork, PathInv, pc = "idle", NEW call, NEW text, NEW allowed \in BOOLEAN,
           NEW state, NEW input, allowed => IsValid(url),
           EnterSetter(call, text, allowed, state, input)
    PROVE  PathInv'
<1>1. AtRest /\ old' = url /\ PathCounted(url) /\ PathCounted(base)
  BY DEF AtRest, PathInv, EnterSetter, Called
<1>2. CASE ~allowed
  <2>1. Done("refused", url) /\ UNCHANGED parserVars
    BY <1>2 DEF EnterSetter
  <2>2. url \in Url
    BY <1>1, RestingUrl DEF FullWork
  <2>. QED  BY <1>1, <2>1, <2>2, DoneCounted
<1>3. CASE allowed
  <2>1. NewSetter(url).u = url
    BY <1>1, <1>3, RestingUrl DEF FullWork
  <2>2. urls' = NewSetter(url) /\ base' = base
    BY <1>3 DEF EnterSetter, Enter
  <2>3. PathCounted(old') /\ PathCounted(base') /\ PathCounted(urls'.u)
    BY <1>1, <2>1, <2>2
  <2>4. BufferCounted(urls')
    BY <2>2, NewSetterBuffer
  <2>. QED  BY <2>3, <2>4, CallCounted
<1>. QED  BY <1>2, <1>3

LEMMA EnteringSettersCounted ==
    ASSUME FullWork, PathInv, pc = "idle", NEW text,
           \/ SetProtocol(text) \/ SetHost(text) \/ SetHostname(text) \/ SetPathname(text)
    PROVE  PathInv'
<1>1. IsValid(url) \in BOOLEAN /\ HasEditablePath \in BOOLEAN
      /\ (HasEditablePath => IsValid(url))
  BY DEF IsValid, HasEditablePath
<1>2. SetProtocol(text) => PathInv'
  BY <1>1, EnterSetterCounted DEF SetProtocol
<1>3. SetHost(text) => PathInv'
  BY <1>1, EnterSetterCounted DEF SetHost
<1>4. SetHostname(text) => PathInv'
  BY <1>1, EnterSetterCounted DEF SetHostname
<1>5. SetPathname(text) => PathInv'
  BY <1>1, EnterSetterCounted DEF SetPathname
<1>. QED  BY <1>2, <1>3, <1>4, <1>5

\* What a setter finds in a valid url.
LEMMA SetterFinds ==
    ASSUME FullWork, PathInv, pc = "idle", IsValid(url)
    PROVE  LET w == NewSetter(url)
           IN Editor(w) /\ w.u = url /\ Framed(w.u) /\ PathCounted(w.u)
<1>1. AtRest
  BY DEF AtRest
<1>2. Editor(NewSetter(url)) /\ NewSetter(url).u = url
  BY <1>1, RestingUrl DEF FullWork
<1>3. Record(url)
  BY <1>1, KnownUrls DEF Known
<1>. QED  BY <1>2, <1>3 DEF Record, PathInv

LEMMA SetUserinfoCounted ==
    ASSUME FullWork, PathInv, pc = "idle", NEW call, NEW t \in {USERNAME, PASSWORD},
           NEW text \in Text, SetUserinfo(call, t, text)
    PROVE  PathInv'
<1>. DEFINE s == Encode(text, UserinfoSet)
            w == NewSetter(url)
            x == PutPart(w, t, s)
<1>1. AtRest /\ s \in Text
  BY EncodeText DEF AtRest
<1>2. CASE CanHaveUsernamePasswordPort(url)
  <2>1. IsValid(url) /\ ~IsEmpty(url, HOST)
    BY <1>2 DEF CanHaveUsernamePasswordPort
  <2>2. Editor(w) /\ w.u = url /\ Framed(w.u) /\ PathCounted(w.u)
    BY <2>1, SetterFinds
  <2>3. Set(call, text, "ok", x)
    BY <1>2 DEF SetUserinfo
  <2>. HIDE DEF s, w
  <2>4. Editor(x)
    <3>1. t \in {USERNAME, PASSWORD, PORT, QUERY, FRAGMENT} /\ t # PORT
      BY PartNumbers
    <3>. QED  BY <1>1, <2>1, <2>2, <3>1, EditorPut
  <2>5. SameCount(w.u, x.u)
    BY <1>1, <2>1, <2>2, UserinfoCount
  <2>. HIDE DEF x
  <2>6. PathCounted(x.u) /\ x.u \in Url
    BY <2>2, <2>4, <2>5, CountKept, EditorFacts
  <2>. QED  BY <2>3, <2>6, EditCounted
<1>3. CASE ~CanHaveUsernamePasswordPort(url)
  <2>1. Set(call, text, "refused", urls)
    BY <1>3 DEF SetUserinfo
  <2>2. urls.u \in Url /\ PathCounted(urls.u)
    BY <1>1, RestingUrl DEF FullWork, PathInv, url
  <2>. QED  BY <2>1, <2>2, EditCounted
<1>. QED  BY <1>2, <1>3

LEMMA SetPortCounted ==
    ASSUME FullWork, PathInv, pc = "idle", NEW text, SetPort(text)
    PROVE  PathInv'
<1>. DEFINE w == NewSetter(url)
            x == ClearPart(w, PORT)
<1>1. AtRest /\ CanHaveUsernamePasswordPort(url) \in BOOLEAN
  BY DEF AtRest, CanHaveUsernamePasswordPort, IsValid
<1>2. CASE CanHaveUsernamePasswordPort(url) /\ text = <<>>
  <2>1. IsValid(url) /\ ~IsEmpty(url, HOST)
    BY <1>2 DEF CanHaveUsernamePasswordPort
  <2>2. Editor(w) /\ w.u = url /\ Framed(w.u) /\ PathCounted(w.u)
    BY <2>1, SetterFinds
  <2>3. ~HasOpaquePath(w.u)
    BY <1>1, <2>1, <2>2, RestingUrl DEF FullWork
  <2>4. Set("port", text, "ok", x)
    BY <1>2 DEF SetPort
  <2>. HIDE DEF w
  <2>5. Editor(x)
    BY <2>2, <2>3, ClearPartSound DEF PartCleared
  <2>6. SameCount(w.u, x.u)
    BY <2>2, <2>3, ClearPartCount
  <2>. HIDE DEF x
  <2>7. PathCounted(x.u) /\ x.u \in Url
    BY <2>2, <2>5, <2>6, CountKept, EditorFacts
  <2>. QED  BY <2>4, <2>7, EditCounted
<1>3. CASE ~(CanHaveUsernamePasswordPort(url) /\ text = <<>>)
  <2>1. EnterSetter("port", text, CanHaveUsernamePasswordPort(url), "port", text)
    BY <1>3 DEF SetPort
  <2>2. CanHaveUsernamePasswordPort(url) => IsValid(url)
    BY DEF CanHaveUsernamePasswordPort
  <2>. QED  BY <1>1, <2>1, <2>2, EnterSetterCounted
<1>. QED  BY <1>2, <1>3

LEMMA SetLastCounted ==
    ASSUME FullWork, PathInv, pc = "idle", NEW text, NEW call, NEW lead,
           NEW t \in {QUERY, FRAGMENT}, NEW state, SetLast(call, t, lead, state, text)
    PROVE  PathInv'
<1>. DEFINE w == NewSetter(url)
            x == ClearPart(w, t)
            y == StripOpaquePath(x)
            input == IF StartsWith(text, lead) THEN Tail(text) ELSE text
<1>1. IsValid(url) \in BOOLEAN /\ t \in {PORT, QUERY, FRAGMENT} /\ t # PORT
  BY PartNumbers DEF IsValid
<1>2. CASE IsValid(url) /\ text = <<>>
  <2>1. Editor(w) /\ w.u = url /\ Framed(w.u) /\ PathCounted(w.u)
    BY <1>2, SetterFinds
  <2>2. Set(call, text, "ok", y)
    BY <1>2 DEF SetLast, Removed
  <2>. HIDE DEF w
  <2>3. Editor(x)
    BY <1>1, <2>1, ClearPartSound DEF PartCleared
  <2>4. SameCount(w.u, x.u)
    BY <1>1, <2>1, ClearPartCount
  <2>. HIDE DEF x
  <2>5. PathCounted(x.u)
    BY <2>1, <2>4, CountKept
  <2>6. PathCounted(y.u)
    BY <2>3, <2>5, StrippedCounted
  <2>7. y.u \in Url
    BY <2>3, StripOpaquePathSound, EditorFacts
  <2>. HIDE DEF y
  <2>. QED  BY <2>2, <2>6, <2>7, EditCounted
<1>3. CASE ~(IsValid(url) /\ text = <<>>)
  <2>1. EnterSetter(call, text, IsValid(url), state, input)
    BY <1>3 DEF SetLast
  <2>. HIDE DEF input
  <2>. QED  BY <1>1, <2>1, EnterSetterCounted
<1>. QED  BY <1>2, <1>3

LEMMA ParseCallsCounted ==
    ASSUME FullWork, PathInv, pc = "idle", NEW text \in Text,
           Parse(text) \/ ParseWithBase(text) \/ SetHref(text) \/ Reparse \/ Clear
    PROVE  PathInv'
<1>1. old' = url /\ PathCounted(url)
  BY DEF PathInv, Parse, ParseWithBase, SetHref, Reparse, Clear, Called
<1>2. PathCounted(old') /\ PathCounted(EmptyUrl) /\ EmptyUrl \in Url /\ Resting(EmptyUrl)
  BY <1>1, EmptyUrlCounted, EmptyUrlRests
<1>3. Parse(text) \/ SetHref(text) => PathInv'
  BY <1>2, BeginParseCounted DEF Parse, SetHref
<1>4. ParseWithBase(text) => PathInv'
  BY <1>1, <1>2, BeginParseCounted DEF ParseWithBase
<1>5. Reparse => PathInv'
  BY <1>2, BeginParseCounted DEF Reparse
<1>6. Clear => PathInv'
  BY <1>2, DoneCounted DEF Clear
<1>. QED  BY <1>3, <1>4, <1>5, <1>6

LEMMA MakeCallCounted ==
    ASSUME FullWork, PathInv, MakeCall
    PROVE  PathInv'
<1>1. pc = "idle"
  BY DEF MakeCall
<1>2. (\A call \in Call : Input[call] \subseteq Text) /\ <<>> \in Text
  BY InputAssumption DEF Text
<1>3. \E text \in Text :
         \/ \/ Parse(text) \/ ParseWithBase(text) \/ SetHref(text) \/ Reparse \/ Clear
         \/ \/ SetProtocol(text) \/ SetHost(text) \/ SetHostname(text) \/ SetPathname(text)
         \/ SetUsername(text) \/ SetPassword(text) \/ SetPort(text)
         \/ SetSearch(text) \/ SetHash(text)
  BY <1>2, Zenon DEF MakeCall, Call
<1>4. PICK text \in Text :
         \/ \/ Parse(text) \/ ParseWithBase(text) \/ SetHref(text) \/ Reparse \/ Clear
         \/ \/ SetProtocol(text) \/ SetHost(text) \/ SetHostname(text) \/ SetPathname(text)
         \/ SetUsername(text) \/ SetPassword(text) \/ SetPort(text)
         \/ SetSearch(text) \/ SetHash(text)
  BY <1>3
<1>5. CASE Parse(text) \/ ParseWithBase(text) \/ SetHref(text) \/ Reparse \/ Clear
  BY <1>1, <1>5, ParseCallsCounted
<1>6. CASE SetProtocol(text) \/ SetHost(text) \/ SetHostname(text) \/ SetPathname(text)
  BY <1>1, <1>6, EnteringSettersCounted
<1>7. CASE SetUsername(text) \/ SetPassword(text)
  BY <1>1, <1>7, SetUserinfoCounted DEF SetUsername, SetPassword
<1>8. CASE SetPort(text)
  BY <1>1, <1>8, SetPortCounted
<1>9. CASE SetSearch(text) \/ SetHash(text)
  BY <1>1, <1>9, SetLastCounted DEF SetSearch, SetHash
<1>. QED  BY <1>4, <1>5, <1>6, <1>7, <1>8, <1>9

-----------------------------------------------------------------------------
(* After url_parse, and the invariant.                                     *)

LEMMA ReturnsCounted ==
    ASSUME FullWork, PathInv, CanParseReturns \/ ParseReturns \/ SetterReturns,
           GivesBackOld => Resting(old)
    PROVE  PathInv'
<1>1. pc = "return"
  BY DEF CanParseReturns, ParseReturns, SetterReturns
<1>2. /\ urls.u \in Url /\ base \in Url /\ Resting(base)
      /\ hasBase \in BOOLEAN /\ old \in Url /\ arg \in Text
      /\ ~urls.setter /\ res = "ok" /\ urls.save =>
            Sound(urls.u, urls.last) /\ urls.last \in Part /\ PathWritten(urls)
  BY <1>1, ReturnedFacts DEF FullWork, CallOK
<1>3. PathCounted(old) /\ PathCounted(base) /\ PathCounted(url)
  BY DEF PathInv
<1>4. CASE CanParseReturns
  <2>. DEFINE u == IF op = "parse_with_base" THEN EmptyUrl ELSE old
  <2>1. u \in Url /\ Resting(u)
    BY <1>2, <1>4, EmptyUrlRests DEF CanParseReturns, GivesBackOld
  <2>2. BeginParse(u, TRUE, arg, base, hasBase) /\ old' = old
    BY <1>4 DEF CanParseReturns
  <2>. HIDE DEF u
  <2>. QED  BY <1>2, <1>3, <2>1, <2>2, BeginParseCounted
<1>5. CASE ParseReturns
  <2>. DEFINE u == IF res = "ok" THEN Validated(url)
                   ELSE IF op \in {"parse", "reparse"} THEN url ELSE old
  <2>1. /\ Done(res, u) /\ UNCHANGED parserVars /\ old' = old
        /\ urls.save /\ ~urls.setter
    BY <1>5 DEF ParseReturns, callVars
  <2>2. u \in Url /\ PathCounted(u)
    <3>1. CASE res = "ok"
      <4>1. Validated(url) \in Url
        BY <1>2, <2>1, <3>1, ValidatedRests DEF PathWritten, url
      <4>2. SameCount(url, Validated(url))
        <5>1. /\ Validated(url).norm = url.norm /\ Validated(url).ends = url.ends
              /\ Validated(url).segs = url.segs
              /\ Validated(url).flags = url.flags \cup {VALID}
          BY <1>2 DEF Validated, Url, url
        <5>2. Piece(Validated(url), PATH) = Piece(url, PATH)
          BY <5>1, SamePieces
        <5>3. HasOpaquePath(Validated(url)) <=> HasOpaquePath(url)
          BY <5>1, OpaqueIsNoPart DEF HasOpaquePath
        <5>. QED  BY <5>1, <5>2, <5>3 DEF SameCount
      <4>3. PathCounted(Validated(url))
        BY <1>3, <4>2, CountKept
      <4>. QED  BY <3>1, <4>1, <4>3
    <3>2. CASE res # "ok"
      BY <1>2, <1>3, <3>2 DEF url
    <3>. QED  BY <3>1, <3>2
  <2>. HIDE DEF u
  <2>3. PathCounted(old')
    BY <1>3, <2>1
  <2>. QED  BY <2>1, <2>2, <2>3, DoneCounted
<1>6. CASE SetterReturns
  <2>1. Done(res, url) /\ UNCHANGED parserVars /\ old' = old
    BY <1>6 DEF SetterReturns, callVars
  <2>2. url \in Url
    BY <1>2 DEF url
  <2>. QED  BY <1>3, <2>1, <2>2, DoneCounted
<1>. QED  BY <1>4, <1>5, <1>6

LEMMA ResumeCounted ==
    ASSUME PathInv, Resume
    PROVE  PathInv'
<1>1. pc' = "idle" /\ urls' = urls /\ base' = EmptyUrl /\ old' = EmptyUrl
  BY DEF Resume
<1>2. PathCounted(urls.u)
  BY DEF PathInv, url
<1>. QED  BY <1>1, <1>2, EmptyUrlCounted, CallCounted

LEMMA PathInit ==
    ASSUME Init
    PROVE  PathInv
<1>1. urls = NewSerializer(EmptyUrl, TRUE) /\ pc = "idle" /\ base = EmptyUrl /\ old = EmptyUrl
  BY DEF Init
<1>2. urls.u = EmptyUrl
  BY <1>1, EmptyUrlRests, NewSerializerType
<1>. QED  BY <1>1, <1>2, EmptyUrlCounted DEF PathInv, url

LEMMA PathNext ==
    ASSUME FullWork, PathInv, [Next]_vars, GivesBackOld => Resting(old)
    PROVE  PathInv'
<1>1. CASE MakeCall
  BY <1>1, MakeCallCounted
<1>2. CASE \/ SchemeStartState \/ NotAScheme \/ SpecialRelativeOrAuthorityState
           \/ PathOrAuthorityState \/ SpecialAuthoritySlashesState
           \/ SpecialAuthorityIgnoreSlashesState \/ FileHostOverride \/ NothingToSave
  BY <1>2, UnchangedBlocksCounted
<1>3. CASE SchemeOverride \/ SchemeState \/ NoSchemeState
  BY <1>3, SchemeOverrideCounted, SchemeStateCounted, NoSchemeCounted
<1>4. CASE RelativeState \/ RelativeSlashState
  BY <1>4, RelativeCounted, RelativeSlashCounted
<1>5. CASE AuthorityState \/ HostState \/ PortState
  BY <1>5, AuthorityCounted, HostStateCounted, PortStateCounted
<1>6. CASE FileState \/ FileSlashState \/ FileHostState
  BY <1>6, FileStateCounted, FileSlashCounted, FileHostStateCounted
<1>7. CASE \/ PathStartState \/ PathState \/ PathEndState
           \/ OpaquePathState \/ QueryState \/ FragmentState
  BY <1>7, PathStartCounted, PathStateCounted, PathEndCounted, OpaquePathCounted,
     QueryCounted, FragmentCounted
<1>8. CASE CanParseReturns \/ ParseReturns \/ SetterReturns \/ Resume
  BY <1>8, ReturnsCounted, ResumeCounted
<1>9. CASE UNCHANGED vars
  BY <1>9, UnchangedCounted DEF vars
<1>. QED
  BY <1>1, <1>2, <1>3, <1>4, <1>5, <1>6, <1>7, <1>8, <1>9 DEF Next, Step

LEMMA PathInvariance == Spec => []PathInv
<1>1. Init => PathInv
  BY PathInit
<1>2. FullInv /\ PathInv /\ [Next]_vars => PathInv'
  BY FullInvFacts, PathNext
<1>3. Spec => [][Next]_vars /\ Init
  BY PTL DEF Spec
<1>. QED  BY <1>1, <1>2, <1>3, FullInvariance, PTL

\* In every state of every call the url object has the shape and the text
\* that the block of url_parse that comes next, or the caller, expects: its
\* ends are in order, every delimiter stands where the serialization of the
\* record has it, the record is one that the URL standard allows, and the
\* segments of its path are counted.
THEOREM InvariantHolds == Spec => []IInv
<1>1. FullInv /\ PathInv => IInv
  BY DEF FullInv, ParserInv, IInv
<1>. QED  BY <1>1, FullInvariance, PathInvariance, PTL

\* path_segment_count_ is the number of segments of the path, in every state
\* of every call, whatever was parsed, copied from a base url, shortened,
\* edited or given up: what shorten_path and append_parts cut at is there.
THEOREM SegmentsAreCountedAlways == Spec => []SegmentsAreCounted
<1>1. ASSUME TypeOK, EndsInOrder, PathInv PROVE SegmentsAreCounted
  <2>1. View(url, PATH) = Piece(url, PATH)
    <3>1. CASE url = EmptyUrl
      <4>1. PartStart(PATH) = 0 /\ PartPos(url, PATH) \in Int
        BY <3>1, PartNumbers DEF PartStart, PartPos, EmptyUrl, Part
      <4>2. PartPos(url, PATH) + PartStart(PATH) + 1 = PartPos(url, PATH) + 1
        BY <4>1
      <4>. QED  BY <4>2, Zenon DEF View, Piece
    <3>2. CASE \E l \in Part : EndsUpTo(url, l)
      <4>1. Readable(url)
        BY <1>1, <3>2 DEF Readable, TypeOK, Serializer, url
      <4>. QED  BY <4>1, ReadPieces
    <3>. QED  BY <1>1, <3>1, <3>2 DEF EndsInOrder, WellFormed
  <2>2. PathCounted(url)
    BY <1>1 DEF PathInv
  <2>3. url.segs = IF HasOpaquePath(url) THEN 0 ELSE Separators(View(url, PATH))
    BY <2>1, <2>2 DEF PathCounted
  <2>. QED  BY <2>3 DEF SegmentsAreCounted, Separators
<1>. QED  BY <1>1, TypesAreKept, EndsStayInOrder, PathInvariance, PTL

-----------------------------------------------------------------------------
(* The paths of files.                                                     *)

\* A search from position i of s.
LEMMA SearchFrom ==
    ASSUME NEW s \in Text, NEW i \in 1 .. Len(s) + 1, NEW set
    PROVE  /\ From(s, i) \in Text /\ Len(From(s, i)) = Len(s) + 1 - i
           /\ \A k \in 1 .. Len(s) + 1 - i : From(s, i)[k] = s[i + k - 1]
           /\ FindFirst(From(s, i), set) \in 1 .. Len(s) + 2 - i
           /\ Before(From(s, i), FindFirst(From(s, i), set)) \in Text
<1>1. Len(s) \in Nat
  BY DEF Text
<1>2. /\ From(s, i) \in Text /\ Len(From(s, i)) = Len(s) + 1 - i
      /\ \A k \in 1 .. Len(s) + 1 - i : From(s, i)[k] = s[i + k - 1]
  <2>1. /\ SubSeq(s, i, Len(s)) \in Text /\ Len(SubSeq(s, i, Len(s))) = Len(s) - (i - 1)
        /\ \A k \in 1 .. Len(s) - (i - 1) : SubSeq(s, i, Len(s))[k] = s[i - 1 + k]
    BY <1>1, SubText
  <2>. QED  BY <1>1, <2>1 DEF From
<1>3. FindFirst(From(s, i), set) \in 1 .. Len(From(s, i)) + 1
  BY <1>2, FindFirstRange
<1>4. FindFirst(From(s, i), set) \in 1 .. Len(s) + 2 - i
  BY <1>1, <1>2, <1>3
<1>5. Before(From(s, i), FindFirst(From(s, i), set)) \in Text
  BY <1>2, <1>3, BeforeText
<1>. QED  BY <1>2, <1>4, <1>5

\* The first component of a path ends at its first slash.
LEMMA FirstComponent ==
    ASSUME NEW s \in Text
    PROVE  /\ Components(s) \in Seq(Text)
           /\ s # <<>> => /\ Len(Components(s)) > 0
                          /\ Components(s)[1] = Before(s, FindFirst(s, Slash))
<1>. DEFINE n == Len(s) + 2
            Pcend(i) == FindFirst(From(s, i), Slash)
            Component(i) == Before(From(s, i), Pcend(i))
            Value(g, i) == IF i > Len(s) THEN <<>>
                           ELSE <<Component(i)>> \o g[i + Pcend(i)]
            Function(g) == g = [i \in 1 .. n |-> Value(g, i)]
            from == CHOOSE g : Function(g)
<1>1. Len(s) \in Nat /\ n \in Nat
  BY DEF Text
<1>2. ASSUME NEW i \in 1 .. n, ~(i > Len(s))
      PROVE  Component(i) \in Text /\ i + Pcend(i) \in i + 1 .. n
  <2>1. i \in 1 .. Len(s) + 1
    BY <1>1, <1>2
  <2>2. Component(i) \in Text /\ Pcend(i) \in 1 .. Len(s) + 2 - i
    BY <2>1, SearchFrom
  <2>. HIDE DEF Pcend, Component
  <2>. QED  BY <1>1, <1>2, <2>2
<1>. HIDE DEF Pcend, Component
<1>3. ASSUME NEW g,
             \A i \in 1 .. n : i > Len(s) => g[i] = <<>>,
             \A i \in 1 .. n : ~(i > Len(s)) /\ g[i + Pcend(i)] \in Seq(Text) =>
                 g[i] = <<Component(i)>> \o g[i + Pcend(i)]
      PROVE  \A i \in 1 .. n : g[i] \in Seq(Text)
  <2>. DEFINE T == {i \in 1 .. n : g[i] \in Seq(Text)}
  <2>1. ASSUME NEW i \in 1 .. n, \A j \in i + 1 .. n : j \in T
        PROVE  i \in T
    <3>1. CASE i > Len(s)
      <4>1. g[i] = <<>> /\ <<>> \in Seq(Text)
        BY <1>3, <3>1
      <4>. QED  BY <4>1
    <3>2. CASE ~(i > Len(s))
      <4>1. i + Pcend(i) \in T /\ Component(i) \in Text
        BY <1>2, <2>1, <3>2
      <4>2. g[i] = <<Component(i)>> \o g[i + Pcend(i)] /\ g[i + Pcend(i)] \in Seq(Text)
        BY <1>3, <3>2, <4>1
      <4>3. <<Component(i)>> \in Seq(Text)
        BY <4>1
      <4>. DEFINE first == <<Component(i)>>
                  rest == g[i + Pcend(i)]
      <4>4. first \o rest \in Seq(Text)
        <5>. HIDE DEF first, rest
        <5>. QED  BY <4>2, <4>3 DEF first, rest
      <4>. QED  BY <4>2, <4>4
    <3>. QED  BY <3>1, <3>2
  <2>2. \A i \in 1 .. n : i \in T
    <3>. HIDE DEF T, n
    <3>. QED  BY <1>1, <2>1, FromTheEnd
  <2>. QED  BY <2>2
<1>4. \E g : Function(g)
  <2>. DEFINE known == {i \in 1 .. n : i > Len(s)}
              value == [i \in 1 .. n |-> <<>>]
              next == [i \in 1 .. n |-> i + Pcend(i)]
              step == [i \in 1 .. n |-> [v \in Seq(Text) |-> <<Component(i)>> \o v]]
  <2>1. \A i \in 1 .. n : i \notin known => next[i] \in i + 1 .. n
    BY <1>2
  <2>2. PICK g : Descent(g, n, known, value, next, step)
    <3>. HIDE DEF known, value, next, step, n
    <3>. QED  BY <1>1, <2>1, DescentExists
  <2>3. \A i \in 1 .. n : g[i] = DescentAt(g, i, known, value, next, step)
    BY <2>2 DEF Descent
  <2>4. \A i \in 1 .. n : i > Len(s) => g[i] = <<>>
    BY <2>3 DEF DescentAt
  <2>5. \A i \in 1 .. n : ~(i > Len(s)) /\ g[i + Pcend(i)] \in Seq(Text) =>
            g[i] = <<Component(i)>> \o g[i + Pcend(i)]
    BY <2>3 DEF DescentAt
  <2>6. \A i \in 1 .. n : g[i] \in Seq(Text)
    BY <1>3, <2>4, <2>5
  <2>7. ASSUME NEW i \in 1 .. n PROVE  g[i] = Value(g, i)
    <3>1. CASE i > Len(s)
      BY <2>4, <3>1
    <3>2. CASE ~(i > Len(s))
      <4>1. i + Pcend(i) \in 1 .. n
        BY <1>2, <3>2
      <4>2. g[i + Pcend(i)] \in Seq(Text)
        BY <2>6, <4>1
      <4>. QED  BY <2>5, <3>2, <4>2
    <3>. QED  BY <3>1, <3>2
  <2>8. g = [i \in 1 .. n |-> g[i]]
    BY <2>2 DEF Descent
  <2>. QED  BY <2>7, <2>8
<1>5. Function(from)
  BY <1>4
<1>6. \A i \in 1 .. n : from[i] = Value(from, i)
  <2>. HIDE DEF from
  <2>. QED  BY <1>5
<1>. HIDE DEF from
<1>7. \A i \in 1 .. n : from[i] \in Seq(Text)
  BY <1>3, <1>6
<1>8. s # <<>> => Len(from[1]) > 0 /\ from[1][1] = Component(1)
  <2>1. SUFFICES ASSUME s # <<>>
                 PROVE  Len(from[1]) > 0 /\ from[1][1] = Component(1)
    OBVIOUS
  <2>2. 1 \in 1 .. n /\ ~(1 > Len(s))
    BY <1>1, <2>1 DEF Text
  <2>3. Component(1) \in Text /\ 1 + Pcend(1) \in 1 .. n
    BY <1>2, <2>2
  <2>4. from[1] = <<Component(1)>> \o from[1 + Pcend(1)] /\ from[1 + Pcend(1)] \in Seq(Text)
    BY <1>6, <1>7, <2>2, <2>3
  <2>. QED  BY <2>3, <2>4
<1>9. Component(1) = Before(s, FindFirst(s, Slash))
  <2>1. From(s, 1) = s
    BY DEF From, Text
  <2>. QED  BY <2>1 DEF Component, Pcend
<1>10. from[1] \in Seq(Text)
  BY <1>1, <1>7
<1>11. Components(s) = from[1]
  BY DEF Components, from, Component, Pcend
<1>. QED  BY <1>8, <1>9, <1>10, <1>11

\* What is written of a path is a text, and so is what is read.
LEMMA EncodePathText ==
    ASSUME NEW s \in Text, NEW f
    PROVE  EncodePath(s, f) \in Text
<1>1. Len(s) \in Nat /\ \A i \in 1 .. Len(s) : s[i] \in Char
  BY ElementOfSeq DEF Text
<1>2. ASSUME NEW c \in Char PROVE PathEncoded(c, f) \in Char
  <2>1. PercentEncoded(c) \in Char /\ "%252e" \in Char
    BY PercentEncodedChar, PathsAssumption
  <2>2. PathEncoded(c, f) \in {"%252e", PercentEncoded(c), c}
    BY DEF PathEncoded
  <2>. QED  BY <2>1, <2>2
<1>3. \A i \in 1 .. Len(s) : PathEncoded(s[i], f) \in Char
  BY <1>1, <1>2
<1>. QED  BY <1>1, <1>3 DEF EncodePath, Text

LEMMA DecodeText ==
    ASSUME NEW s \in Text
    PROVE  /\ Decode(s) \in Text /\ Len(Decode(s)) = Len(s)
           /\ \A i \in 1 .. Len(s) : Decode(s)[i] = Decoded(s[i])
<1>1. Len(s) \in Nat /\ \A i \in 1 .. Len(s) : s[i] \in Char
  BY ElementOfSeq DEF Text
<1>2. ASSUME NEW c \in Char PROVE Decoded(c) \in Char
  <2>1. {" ", "#", "/", ":", "TAB", "?", "\\", "|", "NUL", "u8", ".", "%2e"} \subseteq Char
    BY PathsAssumption, CharAssumption DEF Written
  <2>2. Decoded(c) \in {" ", "#", "/", ":", "TAB", "?", "\\", "|", "NUL", "u8", ".", "%2e", c}
    BY DEF Decoded
  <2>. QED  BY <2>1, <2>2
<1>3. \A i \in 1 .. Len(s) : Decoded(s[i]) \in Char
  BY <1>1, <1>2
<1>4. Decode(s) \in Text
  BY <1>1, <1>3 DEF Decode, Text
<1>5. Len(Decode(s)) = Len(s)
  BY <1>1, <1>4 DEF Decode, Text
<1>. QED  BY <1>4, <1>5 DEF Decode

LEMMA BackslashedText ==
    ASSUME NEW s \in Text
    PROVE  /\ Backslashed(s) \in Text /\ Len(Backslashed(s)) = Len(s)
<1>1. Len(s) \in Nat /\ \A i \in 1 .. Len(s) : s[i] \in Char
  BY ElementOfSeq DEF Text
<1>2. "\\" \in Char
  BY PathsAssumption
<1>3. Backslashed(s) \in Text
  BY <1>1, <1>2 DEF Backslashed, Text
<1>. QED  BY <1>1, <1>3 DEF Backslashed, Text

LEMMA WithoutPrefixText ==
    ASSUME NEW s \in Text
    PROVE  WithoutPrefix(s) \in Text
<1>1. \A i \in {1, 3, 5, 7} : i \in Nat /\ 1 =< i /\ From(s, i) \in Text
  BY RestText
<1>. QED  BY <1>1 DEF WithoutPrefix

LEMMA UrlOfPathText ==
    ASSUME NEW s \in Text, NEW f
    PROVE  UrlOfPath(s, f) \in Text
<1>. DEFINE start == <<"file", ":", "/", "/">>
            p == EncodePath(s, f)
            q == EncodePath(WithoutPrefix(s), f)
<1>1. p \in Seq(Char) /\ q \in Seq(Char)
  BY WithoutPrefixText, EncodePathText DEF Text
<1>2. start \in Seq(Char) /\ <<>> \in Seq(Char) /\ <<"/">> \in Seq(Char)
  <2>1. {"file", ":", "/"} \subseteq Char
    BY CharAssumption DEF Written
  <2>. QED  BY <2>1
<1>3. UrlOfPath(s, f) \in {start \o p, (start \o <<>>) \o q, (start \o <<"/">>) \o q}
  BY <1>1, <1>2 DEF UrlOfPath
<1>. HIDE DEF start, p, q
<1>4. start \o p \in Seq(Char)
  BY <1>1, <1>2
<1>5. start \o <<>> \in Seq(Char) /\ start \o <<"/">> \in Seq(Char)
  BY <1>2
<1>6. (start \o <<>>) \o q \in Seq(Char) /\ (start \o <<"/">>) \o q \in Seq(Char)
  BY <1>1, <1>5
<1>. QED  BY <1>3, <1>4, <1>6 DEF Text

\* A path is absolute when it has a share behind two slashes, or a drive.
LEMMA UncIsAbsolute ==
    ASSUME NEW s \in Text, StartsWithSlashes(s), UncPath(From(s, 3)) # 0
    PROVE  IsAbsolute(s, "windows")
<1>. DEFINE r == From(s, 3)
<1>1. Len(s) \in Nat /\ Len(s) >= 2
  BY DEF StartsWithSlashes, Text
<1>2. /\ r \in Text /\ Len(r) = Len(s) - 2
      /\ \A k \in 1 .. Len(s) - 2 : r[k] = s[k + 2]
  <2>1. 3 \in 1 .. Len(s) + 1
    BY <1>1
  <2>2. /\ r \in Text /\ Len(r) = Len(s) + 1 - 3
        /\ \A k \in 1 .. Len(s) + 1 - 3 : r[k] = s[3 + k - 1]
    BY <2>1, SearchFrom
  <2>. QED  BY <1>1, <2>2
<1>. HIDE DEF r
<1>3. /\ UncPath(r) # 0
      /\ Components(r) \in Seq(Text) /\ Len(Components(r)) >= 2
      /\ Components(r)[1] \notin {<<"?">>, <<".">>}
  BY <1>2, FirstComponent DEF UncPath, r
<1>4. ~IsNamespace(s)
  <2>1. SUFFICES ASSUME Len(s) >= 4, s[3] \in {"?", "."}, s[4] \in Slash
                 PROVE  FALSE
    BY DEF IsNamespace
  <2>2. r # <<>> /\ Len(r) >= 2 /\ r[1] = s[3] /\ r[2] \in Slash /\ r[1] \notin Slash
    BY <1>1, <1>2, <2>1 DEF Slash
  <2>3. FindFirst(r, Slash) = 2
    <3>1. /\ FindFirst(r, Slash) \in 1 .. Len(r) + 1
          /\ \A i \in 1 .. Len(r) : i < FindFirst(r, Slash) => r[i] \notin Slash
          /\ FindFirst(r, Slash) =< Len(r) => r[FindFirst(r, Slash)] \in Slash
      BY <1>2, FindFirstRange
    <3>. DEFINE first == FindFirst(r, Slash)
    <3>. HIDE DEF first
    <3>2. /\ first \in 1 .. Len(r) + 1
          /\ \A i \in 1 .. Len(r) : i < first => r[i] \notin Slash
          /\ first =< Len(r) => r[first] \in Slash
      BY <3>1 DEF first
    <3>3. Len(r) \in Nat /\ first # 1 /\ ~(2 < first)
      BY <1>2, <2>2, <3>2 DEF Text
    <3>4. first = 2
      BY <3>2, <3>3
    <3>. QED  BY <3>4 DEF first
  <2>4. Components(r)[1] = Before(r, 2)
    BY <1>2, <2>2, <2>3, FirstComponent
  <2>5. 2 \in 1 .. Len(r) + 1
    BY <2>2
  <2>6. Before(r, 2) \in Text /\ Len(Before(r, 2)) = 1 /\ Before(r, 2)[1] = s[3]
    <3>1. /\ Before(r, 2) \in Text /\ Len(Before(r, 2)) = 2 - 1
          /\ \A k \in 1 .. 2 - 1 : Before(r, 2)[k] = r[k]
      BY <1>2, <2>5, BeforeText
    <3>. QED  BY <2>2, <3>1
  <2>7. Before(r, 2) = <<s[3]>>
    BY <2>6 DEF Text
  <2>. QED  BY <1>3, <2>1, <2>4, <2>7
<1>5. IsUnc(s) /\ WithoutPrefix(s) = r
  BY <1>4 DEF IsUnc, WithoutPrefix, IsNamespaceUnc, r
<1>6. StartOfCheck(s) # 0
  BY <1>3, <1>5 DEF StartOfCheck
<1>7. s # <<>>
  BY <1>1
<1>. QED  BY <1>6, <1>7 DEF IsAbsolute

LEMMA DriveIsAbsolute ==
    ASSUME NEW s \in Text, Len(s) > 2, s[1] \in Letter, s[2] \in {":", "|"}, s[3] \in Slash
    PROVE  IsAbsolute(s, "windows")
<1>1. Len(s) \in Nat /\ s # <<>>
  BY DEF Text
<1>2. s[1] \notin Slash
  BY DEF Letter, Slash
<1>3. ~StartsWithSlashes(s)
  BY <1>2 DEF StartsWithSlashes
<1>4. ~IsNamespace(s) /\ ~IsNamespaceUnc(s) /\ ~IsUnc(s)
  BY <1>3 DEF IsNamespace, IsNamespaceUnc, IsUnc
<1>5. WithoutPrefix(s) = s
  <2>1. WithoutPrefix(s) = SubSeq(s, 1, Len(s))
    BY <1>3, <1>4 DEF WithoutPrefix, From
  <2>2. s \in Seq(Char)
    BY DEF Text
  <2>. QED  BY <2>1, <2>2
<1>6. SubSeq(s, 1, 2) \in Text /\ Len(SubSeq(s, 1, 2)) = 2
      /\ SubSeq(s, 1, 2)[1] = s[1] /\ SubSeq(s, 1, 2)[2] = s[2]
  <2>1. /\ SubSeq(s, 1, 2) \in Text
        /\ Len(SubSeq(s, 1, 2)) = (IF 1 =< 2 THEN 2 - 1 + 1 ELSE 0)
        /\ \A k \in 1 .. 2 - 1 + 1 : SubSeq(s, 1, 2)[k] = s[1 + k - 1]
    BY <1>1, SubText
  <2>. QED  BY <2>1
<1>7. IsWindowsDrive(SubSeq(s, 1, 2))
  BY <1>6 DEF IsWindowsDrive
<1>8. StartOfCheck(s) = 4
  BY <1>4, <1>5, <1>7 DEF StartOfCheck, DriveAbsolute
<1>. QED  BY <1>1, <1>8 DEF IsAbsolute

\* What is found is absolute, and has no null character.
Usable(found, f) ==
    found.err = "ok" => IsAbsolute(found.path, f) /\ ~ContainsAny(found.path, {"NUL"})

LEMMA FoundIsUsable ==
    ASSUME NEW s, NEW f, IsAbsolute(s, f)
    PROVE  Usable(PathFound(s), f)
BY DEF Usable, PathFound, PathError

LEMMA ErrorIsUsable ==
    ASSUME NEW err, NEW f, err # "ok"
    PROVE  Usable(PathError(err), f)
BY DEF Usable, PathError

LEMMA UncIsUsable ==
    ASSUME NEW s \in Text, StartsWithSlashes(s)
    PROVE  Usable(UncFound(s), "windows")
<1>1. CASE UncPath(From(s, 3)) = 0
  BY <1>1, ErrorIsUsable DEF UncFound
<1>2. CASE UncPath(From(s, 3)) # 0
  BY <1>2, UncIsAbsolute, FoundIsUsable DEF UncFound
<1>. QED  BY <1>1, <1>2

\* A path without a host that starts with a drive behind a slash, or with
\* two or three backslashes.
LEMMA LocalIsUsable ==
    ASSUME NEW s \in Text
    PROVE  Usable(LocalWindowsPath(s), "windows")
<1>1. s \in Seq(Char) /\ Len(s) \in Nat
  BY DEF Text
<1>2. s # <<>> => /\ Tail(s) \in Text /\ Len(Tail(s)) = Len(s) - 1
                  /\ \A i \in 1 .. Len(s) - 1 : Tail(s)[i] = s[i + 1]
  BY <1>1 DEF Text
<1>3. CASE HasWindowsDrive(s)
  <2>1. Len(s) >= 3 /\ (Len(s) > 3 => s[4] \in Slash)
    <3>1. Len(s) = 3 \/ (Len(s) > 3 /\ s[4] \in Slash)
      BY <1>3 DEF HasWindowsDrive
    <3>2. CASE Len(s) = 3
      BY <3>2
    <3>3. CASE Len(s) > 3 /\ s[4] \in Slash
      <4>1. Len(s) >= 3
        BY <1>1, <3>3
      <4>. QED  BY <3>3, <4>1, Zenon
    <3>. QED  BY <3>1, <3>2, <3>3, Zenon
  <2>2. s[2] \in Letter /\ s[3] \in {":", "|"}
    <3>1. \A k \in 1 .. 3 - 2 + 1 : SubSeq(s, 2, 3)[k] = s[2 + k - 1]
      BY <1>1, <2>1, SubText
    <3>2. SubSeq(s, 2, 3)[1] = s[2] /\ SubSeq(s, 2, 3)[2] = s[3]
      BY <3>1
    <3>3. IsWindowsDrive(SubSeq(s, 2, 3))
      BY <1>3 DEF HasWindowsDrive
    <3>. QED  BY <3>2, <3>3 DEF IsWindowsDrive
  <2>. DEFINE r == Tail(s)
              q == Append(r, "\\")
  <2>3. /\ r \in Text /\ Len(r) = Len(s) - 1 /\ r[1] = s[2] /\ r[2] = s[3]
        /\ Len(s) > 3 => r[3] = s[4]
    <3>1. s # <<>>
      BY <2>1
    <3>. QED  BY <1>1, <1>2, <2>1, <3>1
  <2>. HIDE DEF r
  <2>4. CASE Len(s) = 3
    <3>1. "\\" \in Char /\ r \in Seq(Char)
      BY <2>3, PathsAssumption DEF Text
    <3>2. Len(r) = 2
      BY <1>1, <2>3, <2>4
    <3>3. q \in Seq(Char) /\ Len(q) = 3 /\ q[1] = r[1] /\ q[2] = r[2] /\ q[3] = "\\"
      <4>. DEFINE last == "\\"
      <4>1. last \in Char
        BY <3>1
      <4>. HIDE DEF last
      <4>2. /\ Append(r, last) \in Seq(Char) /\ Len(Append(r, last)) = Len(r) + 1
            /\ \A i \in 1 .. Len(r) : Append(r, last)[i] = r[i]
            /\ Append(r, last)[Len(r) + 1] = last
        BY <3>1, <4>1, AppendProperties
      <4>3. /\ q \in Seq(Char) /\ Len(q) = 2 + 1 /\ q[2 + 1] = "\\"
            /\ \A i \in 1 .. 2 : q[i] = r[i]
        BY <3>2, <4>2 DEF last
      <4>. HIDE DEF q
      <4>. QED  BY <4>3
    <3>. HIDE DEF q
    <3>4. q \in Text /\ Len(q) > 2 /\ q[3] \in Slash
      BY <3>3 DEF Text, Slash
    <3>5. q[1] \in Letter /\ q[2] \in {":", "|"}
      BY <2>2, <2>3, <3>3
    <3>6. IsAbsolute(q, "windows")
      BY <3>4, <3>5, DriveIsAbsolute
    <3>7. Usable(PathFound(q), "windows")
      BY <3>6, FoundIsUsable
    <3>. QED  BY <1>3, <2>4, <3>7 DEF LocalWindowsPath, q, r
  <2>5. CASE Len(s) # 3
    <3>1. Len(r) > 2 /\ r[3] \in Slash
      BY <1>1, <2>1, <2>3, <2>5
    <3>2. IsAbsolute(r, "windows")
      BY <2>2, <2>3, <3>1, DriveIsAbsolute
    <3>3. Usable(PathFound(r), "windows")
      BY <3>2, FoundIsUsable
    <3>. QED  BY <1>3, <2>5, <3>3 DEF LocalWindowsPath, r
  <2>. QED  BY <2>4, <2>5
<1>4. CASE ~HasWindowsDrive(s)
  <2>. DEFINE n == IF Len(s) < 4 THEN Len(s) ELSE 4
              four == SubSeq(s, 1, n)
              first == FindFirstNot(four, {"\\"})
  <2>1. n \in Nat /\ n =< Len(s)
    BY <1>1
  <2>2. four \in Text /\ Len(four) = n /\ \A k \in 1 .. n : four[k] = s[k]
    <3>. HIDE DEF n
    <3>1. /\ four \in Text /\ Len(four) = (IF 1 =< n THEN n - 1 + 1 ELSE 0)
          /\ \A k \in 1 .. n - 1 + 1 : four[k] = s[1 + k - 1]
      BY <2>1, SubText
    <3>. QED  BY <1>1, <2>1, <3>1
  <2>3. first \in 1 .. n + 1 /\ \A i \in 1 .. n : i < first => four[i] = "\\"
    <3>. HIDE DEF four, n
    <3>. QED  BY <2>2, FindFirstNotRange
  <2>. HIDE DEF first, four, n
  <2>4. ASSUME first - 1 >= 2
        PROVE  Len(s) >= 2 /\ s[1] = "\\" /\ s[2] = "\\"
    <3>1. n >= 2 /\ 1 < first /\ 2 < first /\ 1 \in 1 .. n /\ 2 \in 1 .. n
      BY <2>1, <2>3, <2>4
    <3>. QED  BY <1>1, <2>1, <2>2, <2>3, <3>1
  <2>5. ASSUME first - 1 = 3
        PROVE  Len(s) >= 3 /\ s[3] = "\\"
    <3>1. n >= 3 /\ 3 < first /\ 3 \in 1 .. n
      BY <2>1, <2>3, <2>5
    <3>. QED  BY <1>1, <2>1, <2>2, <2>3, <3>1
  <2>6. LeadingBackslashes(s) = first - 1
    BY DEF LeadingBackslashes, first, four, n
  <2>7. LocalWindowsPath(s) =
            CASE first - 1 = 3 -> UncFound(Tail(s))
              [] first - 1 = 2 -> UncFound(s)
              [] OTHER -> PathError("file_url_not_windows_path")
    BY <1>4, <2>6 DEF LocalWindowsPath
  <2>8. CASE first - 1 = 3
    <3>1. Len(s) >= 3 /\ s[1] = "\\" /\ s[2] = "\\" /\ s[3] = "\\"
      BY <2>4, <2>5, <2>8
    <3>2. s # <<>>
      BY <3>1
    <3>3. Tail(s) \in Text /\ StartsWithSlashes(Tail(s))
      BY <1>1, <1>2, <3>1, <3>2 DEF StartsWithSlashes, Slash
    <3>4. LocalWindowsPath(s) = UncFound(Tail(s))
      BY <2>7, <2>8
    <3>. QED  BY <3>3, <3>4, UncIsUsable
  <2>9. CASE first - 1 = 2
    <3>1. StartsWithSlashes(s)
      BY <2>4, <2>9 DEF StartsWithSlashes, Slash
    <3>2. LocalWindowsPath(s) = UncFound(s)
      BY <2>7, <2>9
    <3>. QED  BY <3>1, <3>2, UncIsUsable
  <2>10. CASE first - 1 # 3 /\ first - 1 # 2
    BY <2>7, <2>10, ErrorIsUsable
  <2>. QED  BY <2>8, <2>9, <2>10
<1>. QED  BY <1>3, <1>4

LEMMA HostIsUsable ==
    ASSUME NEW host \in Text, NEW s \in Text
    PROVE  Usable(UncFound(<<"\\", "\\">> \o host \o s), "windows")
<1>. DEFINE start == <<"\\", "\\">>
            h == start \o host
            r == h \o s
<1>1. start \in Text /\ Len(start) = 2 /\ start[1] = "\\" /\ start[2] = "\\"
  <2>. DEFINE c == "\\"
  <2>1. c \in Char
    BY PathsAssumption
  <2>. HIDE DEF c
  <2>2. <<c, c>> \in Seq(Char) /\ Len(<<c, c>>) = 2 /\ <<c, c>>[1] = c /\ <<c, c>>[2] = c
    BY <2>1
  <2>. QED  BY <2>2 DEF c, Text
<1>. HIDE DEF start
<1>2. h \in Text /\ Len(h) = Len(start) + Len(host) /\ \A i \in 1 .. Len(start) : h[i] = start[i]
  BY <1>1, ConcatText
<1>3. Len(host) \in Nat /\ Len(s) \in Nat
  BY DEF Text
<1>4. Len(h) >= 2 /\ h[1] = "\\" /\ h[2] = "\\"
  BY <1>1, <1>2, <1>3
<1>. HIDE DEF h
<1>5. r \in Text /\ Len(r) = Len(h) + Len(s) /\ \A i \in 1 .. Len(h) : r[i] = h[i]
  BY <1>2, ConcatText
<1>6. Len(h) \in Nat
  BY <1>2 DEF Text
<1>7. Len(r) >= 2 /\ r[1] = "\\" /\ r[2] = "\\"
  BY <1>3, <1>4, <1>5, <1>6
<1>. HIDE DEF r
<1>8. Usable(UncFound(r), "windows")
  BY <1>5, <1>7, UncIsUsable DEF StartsWithSlashes, Slash
<1>. QED  BY <1>8 DEF r, h, start

\* The path of a valid url with a special scheme starts with a slash.
LEMMA SpecialPathStarts ==
    ASSUME NEW u, ValidUrl(u), PathCounted(u), u.inf.file
    PROVE  /\ View(u, PATH) \in Text /\ View(u, HOST) \in Text
           /\ View(u, PATH) # <<>> /\ View(u, PATH)[1] = "/"
<1>1. Readable(u)
  BY ValidUrlEnds
<1>2. /\ View(u, PATH) = Piece(u, PATH) /\ Piece(u, PATH) \in Text
      /\ View(u, HOST) = Piece(u, HOST) /\ Piece(u, HOST) \in Text
  <2>1. PATH \in Part /\ HOST \in Part
    BY PartNumbers
  <2>. QED  BY <1>1, <2>1, ReadPieces
<1>3. u.inf.special
  <2>1. PICK l \in Part : ValidEnds(u, l)
    BY ValidUrlEnds
  <2>2. u.inf = GetSchemeInfo(View(u, SCHEME))
    BY <2>1 DEF ValidEnds, Ordered
  <2>. QED  BY <2>2, GetSchemeInfoType
<1>4. Piece(u, PATH) # <<>>
  BY <1>3 DEF ValidUrl, Record, PathConsistent
<1>5. ~HasOpaquePath(u)
  <2>1. PICK l \in Part : CompleteUpTo(u, l)
    BY DEF ValidUrl, Complete
  <2>. QED  BY <1>3, <2>1 DEF CompleteUpTo, Sound, HostAgrees
<1>6. Piece(u, PATH)[1] = "/"
  BY <1>4, <1>5 DEF PathCounted, StartsWith
<1>. QED  BY <1>2, <1>4, <1>6

\* What path_from_file_url returns is absolute.
LEMMA FoundPathsAreUsable ==
    ASSUME NEW u, ValidUrl(u), PathCounted(u), NEW f \in Format
    PROVE  Usable(PathFromFileUrl(u, f), f)
<1>1. CASE ~u.inf.file
  BY <1>1, ErrorIsUsable DEF PathFromFileUrl
<1>2. CASE u.inf.file
  <2>. DEFINE host == View(u, HOST)
              decoded == Decode(View(u, PATH))
              s == Backslashed(decoded)
  <2>1. /\ View(u, PATH) \in Text /\ host \in Text
        /\ View(u, PATH) # <<>> /\ View(u, PATH)[1] = "/"
    BY <1>2, SpecialPathStarts
  <2>2. /\ decoded \in Text /\ Len(decoded) = Len(View(u, PATH))
        /\ \A i \in 1 .. Len(View(u, PATH)) : decoded[i] = Decoded(View(u, PATH)[i])
    BY <2>1, DecodeText
  <2>3. s \in Text
    BY <2>2, BackslashedText
  <2>. HIDE DEF host, decoded, s
  <2>4. CASE f = "posix"
    <3>1. Decoded("/") = "/"
      BY DEF Decoded
    <3>2. Len(View(u, PATH)) \in Nat /\ Len(View(u, PATH)) # 0
      BY <2>1 DEF Text
    <3>3. decoded[1] = "/" /\ Len(decoded) # 0
      BY <2>1, <2>2, <3>1, <3>2
    <3>4. IsAbsolute(decoded, f)
      BY <2>4, <3>3 DEF IsAbsolute, StartsWith
    <3>5. /\ Usable(PathFound(decoded), f)
          /\ Usable(PathError("file_url_cannot_have_host"), f)
      BY <3>4, FoundIsUsable, ErrorIsUsable
    <3>6. PathFromFileUrl(u, f) \in {PathError("file_url_cannot_have_host"), PathFound(decoded)}
      BY <1>2, <2>4 DEF PathFromFileUrl, host, decoded
    <3>. QED  BY <3>5, <3>6
  <2>5. CASE f = "windows"
    <3>. DEFINE shared == UncFound(<<"\\", "\\">> \o host \o s)
    <3>1. /\ Usable(PathError("file_url_unsupported_host"), f)
          /\ Usable(LocalWindowsPath(s), f) /\ Usable(shared, f)
      BY <2>1, <2>3, <2>5, ErrorIsUsable, LocalIsUsable, HostIsUsable
    <3>2. PathFromFileUrl(u, f) \in
              {PathError("file_url_unsupported_host"), LocalWindowsPath(s), shared}
      BY <1>2, <2>5 DEF PathFromFileUrl, host, decoded, s
    <3>. HIDE DEF shared
    <3>. QED  BY <3>1, <3>2
  <2>. QED  BY <2>4, <2>5 DEF Format
<1>. QED  BY <1>1, <1>2

\* The states of the url and the path that is converted.
FileInv == FullInv /\ PathInv /\ path \in Text /\ format \in Format

LEMMA FileInitHolds ==
    ASSUME FileInit
    PROVE  FileInv
<1>1. FullInv /\ PathInv
  BY FullInit, PathInit DEF FileInit
<1>2. path \in Text /\ format \in Format
  BY DEF FileInit, Text, Format
<1>. QED  BY <1>1, <1>2 DEF FileInv

LEMMA SetHrefFull ==
    ASSUME FullInv, PathInv, pc = "idle", NEW text \in Text, SetHref(text)
    PROVE  FullInv' /\ PathInv'
<1>1. FullWork /\ Resting(old) /\ Known(old)
  BY FullInvFacts
<1>2. WorkInv /\ AtRest
  BY <1>1 DEF FullWork, AtRest
<1>3. PathInv'
  BY <1>1, ParseCallsCounted
<1>4. WorkInv'
  BY <1>2, ParseCalls
<1>5. WorkRecord'
  BY <1>1, ParseCallsRecord
<1>6. old' = url
  BY DEF SetHref, Called
<1>7. Resting(url) /\ Known(url)
  BY <1>1, <1>2, RestingUrl, KnownUrls
<1>8. Resting(old)' /\ Known(old)'
  BY <1>6, <1>7
<1>. QED  BY <1>3, <1>4, <1>5, <1>8 DEF FullInv, ParserInv, ShapeInv, WorkInv, RecordInv, Known

LEMMA FileNextKeeps ==
    ASSUME FileInv, [FileNext]_fileVars
    PROVE  FileInv'
<1>1. FullInv /\ PathInv /\ path \in Text /\ format \in Format /\ FullWork /\ Resting(old)
  BY FullInvFacts DEF FileInv
<1>2. ASSUME [Next]_vars PROVE FullInv' /\ PathInv'
  BY <1>1, <1>2, FullNext, PathNext
<1>3. CASE FromFilePath
  <2>1. PICK f \in Format : \E s \in Paths[f] :
            /\ path' = s /\ format' = f
            /\ IF Refusal(s, f) = "ok" THEN SetHref(UrlOfPath(s, f)) ELSE UNCHANGED vars
    BY <1>3 DEF FromFilePath
  <2>2. PICK s \in Paths[f] :
            /\ path' = s /\ format' = f
            /\ IF Refusal(s, f) = "ok" THEN SetHref(UrlOfPath(s, f)) ELSE UNCHANGED vars
    BY <2>1
  <2>3. s \in Text
    BY PathsAssumption
  <2>4. path' \in Text /\ format' \in Format
    BY <2>2, <2>3
  <2>5. UNCHANGED vars => FullInv' /\ PathInv'
    BY <1>2
  <2>6. SetHref(UrlOfPath(s, f)) => FullInv' /\ PathInv'
    <3>1. UrlOfPath(s, f) \in Text /\ pc = "idle"
      BY <1>3, <2>3, UrlOfPathText DEF FromFilePath
    <3>. QED  BY <1>1, <3>1, SetHrefFull
  <2>. QED  BY <2>2, <2>4, <2>5, <2>6 DEF FileInv
<1>4. CASE FromText
  <2>1. pc = "idle" /\ path' = path /\ format' = format
    BY <1>4 DEF FromText
  <2>2. PICK text \in FileTexts : SetHref(text)
    BY <1>4 DEF FromText
  <2>3. text \in Text
    BY PathsAssumption
  <2>4. FullInv' /\ PathInv'
    BY <1>1, <2>1, <2>2, <2>3, SetHrefFull
  <2>. QED  BY <1>1, <2>1, <2>4 DEF FileInv
<1>5. CASE Edit
  <2>1. Next /\ path' = <<>> /\ format' = format
    BY <1>5 DEF Edit, Next
  <2>2. path' \in Text
    BY <2>1 DEF Text
  <2>. QED  BY <1>1, <1>2, <2>1, <2>2 DEF FileInv
<1>6. CASE Step /\ UNCHANGED <<path, format>>
  BY <1>1, <1>2, <1>6 DEF FileInv, Next
<1>7. CASE UNCHANGED fileVars
  <2>1. [Next]_vars /\ path' = path /\ format' = format
    BY <1>7 DEF fileVars
  <2>. QED  BY <1>1, <1>2, <2>1 DEF FileInv
<1>. QED  BY <1>3, <1>4, <1>5, <1>6, <1>7 DEF FileNext

LEMMA FileInvariance == FileSpec => []FileInv
BY FileInitHolds, FileNextKeeps, PTL DEF FileSpec

\* Whatever file URL it comes from, parsed from a text or a path or made by
\* any sequence of setters, a path that path_from_file_url returns is
\* absolute, for either system, and has no null character: also a path that
\* is decoded into slashes, drives and shares only after the parser has read
\* its URL.
THEOREM PathsAreAlwaysAbsolute == FileSpec => []PathsAreAbsolute
<1>1. ASSUME FileInv PROVE PathsAreAbsolute
  <2>1. SUFFICES ASSUME AtRest, IsValid(url), NEW f \in Format
                 PROVE  Usable(PathFromFileUrl(url, f), f)
    BY DEF PathsAreAbsolute, Usable
  <2>2. FullWork /\ PathCounted(url)
    BY <1>1, FullInvFacts DEF FileInv, PathInv
  <2>3. ValidUrl(url)
    BY <2>1, <2>2, UrlIsValid
  <2>. QED  BY <2>2, <2>3, FoundPathsAreUsable
<1>. QED  BY <1>1, FileInvariance, PTL

-----------------------------------------------------------------------------
(* Two dots between slashes: has_dot_dot_segment goes over the text once,  *)
(* from one '.' to the next but one.                                       *)

\* What the search asks of a '.' that it has found.
DotAgain(s, slash, k) ==
    /\ s[k + 1] = "."
    /\ k = 1 \/ s[k - 1] \in slash
    /\ k + 1 = Len(s) \/ s[k + 2] \in slash

Dots(s, slash, k) == s[k] = "." /\ DotAgain(s, slash, k)

DotsFrom(s, slash, at) == \E k \in at .. Len(s) - 1 : Dots(s, slash, k)

\* The first '.' from a position on, and what lies before and behind it.
LEMMA DotsBehind ==
    ASSUME NEW s \in Text, NEW slash, "." \notin slash, NEW at \in 1 .. Len(s) + 3,
           NEW d \in at .. Len(s) - 1, s[d] = ".",
           \A i \in at .. Len(s) - 1 : s[i] = "." => d =< i
    PROVE  /\ d + 2 \in at + 1 .. Len(s) + 3
           /\ DotsFrom(s, slash, at) <=> Dots(s, slash, d) \/ DotsFrom(s, slash, d + 2)
<1>1. Len(s) \in Nat
  BY DEF Text
<1>2. d + 2 \in at + 1 .. Len(s) + 3
  BY <1>1
<1>3. ASSUME NEW k \in at .. Len(s) - 1, Dots(s, slash, k)
      PROVE  Dots(s, slash, d) \/ DotsFrom(s, slash, d + 2)
  <2>1. s[k] = "." /\ d =< k
    BY <1>3 DEF Dots
  <2>2. CASE k = d
    BY <1>3, <2>2
  <2>3. CASE k = d + 1
    <3>1. k # 1 /\ k - 1 = d
      BY <1>1, <2>3
    <3>. QED  BY <1>3, <3>1 DEF Dots, DotAgain
  <2>4. CASE k # d /\ k # d + 1
    <3>1. k \in d + 2 .. Len(s) - 1
      BY <1>1, <2>1, <2>4
    <3>. QED  BY <1>3, <3>1 DEF DotsFrom
  <2>. QED  BY <2>2, <2>3, <2>4
<1>4. ASSUME NEW k \in d + 2 .. Len(s) - 1, Dots(s, slash, k)
      PROVE  DotsFrom(s, slash, at)
  <2>1. k \in at .. Len(s) - 1
    BY <1>1
  <2>. QED  BY <1>4, <2>1 DEF DotsFrom
<1>5. Dots(s, slash, d) => DotsFrom(s, slash, at)
  BY DEF DotsFrom
<1>6. DotsFrom(s, slash, at) => Dots(s, slash, d) \/ DotsFrom(s, slash, d + 2)
  BY <1>3 DEF DotsFrom
<1>7. DotsFrom(s, slash, d + 2) => DotsFrom(s, slash, at)
  BY <1>4 DEF DotsFrom
<1>. QED  BY <1>2, <1>5, <1>6, <1>7

LEMMA DotsAreFound ==
    ASSUME NEW s \in Text, NEW slash, "." \notin slash
    PROVE  HasDotDotSegment(s, slash) <=> DotsFrom(s, slash, 1)
<1>. DEFINE n == Len(s) + 3
            dots(at) == {i \in at .. Len(s) - 1 : s[i] = "."}
            dot(at) == CHOOSE i \in dots(at) : \A j \in dots(at) : i =< j
            Value(g, at) == IF dots(at) = {} THEN FALSE
                            ELSE IF DotAgain(s, slash, dot(at)) THEN TRUE ELSE g[SkipDot(dot(at))]
            Function(g) == g = [at \in 1 .. n |-> Value(g, at)]
            found == CHOOSE g : Function(g)
<1>1. Len(s) \in Nat /\ n \in Nat
  BY DEF Text
<1>2. ASSUME NEW at \in 1 .. n, dots(at) = {}
      PROVE  ~DotsFrom(s, slash, at)
  BY <1>2 DEF DotsFrom, Dots
<1>3. ASSUME NEW at \in 1 .. n, dots(at) # {}
      PROVE  /\ SkipDot(dot(at)) \in at + 1 .. n
             /\ DotsFrom(s, slash, at) <=>
                   DotAgain(s, slash, dot(at)) \/ DotsFrom(s, slash, SkipDot(dot(at)))
  <2>1. dots(at) \subseteq Nat
    BY <1>1
  <2>2. dot(at) \in dots(at) /\ \A j \in dots(at) : dot(at) =< j
    <3>. DEFINE all == dots(at)
    <3>1. all \subseteq Nat /\ all # {}
      BY <1>3, <2>1
    <3>. HIDE DEF all
    <3>2. \E i \in all : \A j \in all : i =< j
      BY <3>1, Smallest
    <3>. QED  BY <3>2 DEF all
  <2>. DEFINE d == dot(at)
  <2>3. d \in at .. Len(s) - 1 /\ s[d] = "." /\ \A i \in at .. Len(s) - 1 : s[i] = "." => d =< i
    BY <2>2
  <2>. HIDE DEF d
  <2>4. /\ d + 2 \in at + 1 .. Len(s) + 3
        /\ DotsFrom(s, slash, at) <=> Dots(s, slash, d) \/ DotsFrom(s, slash, d + 2)
    BY <1>1, <2>3, DotsBehind
  <2>5. Dots(s, slash, d) <=> DotAgain(s, slash, d)
    BY <2>3 DEF Dots
  <2>. QED  BY <2>4, <2>5 DEF d, SkipDot
<1>. HIDE DEF dots, dot
<1>4. ASSUME NEW g,
             \A at \in 1 .. n : dots(at) = {} => g[at] = FALSE,
             \A at \in 1 .. n : dots(at) # {} /\ DotAgain(s, slash, dot(at)) => g[at] = TRUE,
             \A at \in 1 .. n : dots(at) # {} /\ ~DotAgain(s, slash, dot(at))
                                  /\ g[SkipDot(dot(at))] \in BOOLEAN =>
                 g[at] = g[SkipDot(dot(at))]
      PROVE  \A at \in 1 .. n : g[at] \in BOOLEAN /\ (g[at] <=> DotsFrom(s, slash, at))
  <2>. DEFINE T == {at \in 1 .. n : g[at] \in BOOLEAN /\ (g[at] <=> DotsFrom(s, slash, at))}
  <2>1. ASSUME NEW at \in 1 .. n, \A j \in at + 1 .. n : j \in T
        PROVE  at \in T
    <3>1. CASE dots(at) = {}
      BY <1>2, <1>4, <3>1
    <3>2. CASE dots(at) # {} /\ DotAgain(s, slash, dot(at))
      BY <1>3, <1>4, <3>2
    <3>3. CASE dots(at) # {} /\ ~DotAgain(s, slash, dot(at))
      <4>1. SkipDot(dot(at)) \in T
        BY <1>3, <2>1, <3>3
      <4>2. g[SkipDot(dot(at))] \in BOOLEAN
            /\ (g[SkipDot(dot(at))] <=> DotsFrom(s, slash, SkipDot(dot(at))))
        BY <4>1
      <4>3. g[at] = g[SkipDot(dot(at))]
        BY <1>4, <3>3, <4>2
      <4>4. DotsFrom(s, slash, at) <=> DotsFrom(s, slash, SkipDot(dot(at)))
        BY <1>3, <3>3
      <4>. QED  BY <4>2, <4>3, <4>4
    <3>. QED  BY <3>1, <3>2, <3>3
  <2>2. \A at \in 1 .. n : at \in T
    <3>. HIDE DEF T, n
    <3>. QED  BY <1>1, <2>1, FromTheEnd
  <2>. QED  BY <2>2
<1>5. \E g : Function(g)
  <2>. DEFINE known == {at \in 1 .. n : dots(at) = {} \/ DotAgain(s, slash, dot(at))}
              value == [at \in 1 .. n |-> IF dots(at) = {} THEN FALSE ELSE TRUE]
              next == [at \in 1 .. n |-> SkipDot(dot(at))]
              step == [at \in 1 .. n |-> [v \in BOOLEAN |-> v]]
  <2>1. \A at \in 1 .. n : at \notin known => next[at] \in at + 1 .. n
    BY <1>3
  <2>2. PICK g : Descent(g, n, known, value, next, step)
    <3>. HIDE DEF known, value, next, step, n
    <3>. QED  BY <1>1, <2>1, DescentExists
  <2>3. \A at \in 1 .. n : g[at] = DescentAt(g, at, known, value, next, step)
    BY <2>2 DEF Descent
  <2>4. \A at \in 1 .. n : dots(at) = {} => g[at] = FALSE
    BY <2>3 DEF DescentAt
  <2>5. \A at \in 1 .. n : dots(at) # {} /\ DotAgain(s, slash, dot(at)) => g[at] = TRUE
    BY <2>3 DEF DescentAt
  <2>6. \A at \in 1 .. n : dots(at) # {} /\ ~DotAgain(s, slash, dot(at))
                             /\ g[SkipDot(dot(at))] \in BOOLEAN =>
            g[at] = g[SkipDot(dot(at))]
    BY <2>3 DEF DescentAt
  <2>7. \A at \in 1 .. n : g[at] \in BOOLEAN
    BY <1>4, <2>4, <2>5, <2>6
  <2>8. ASSUME NEW at \in 1 .. n PROVE  g[at] = Value(g, at)
    <3>1. CASE dots(at) = {}
      BY <2>4, <3>1
    <3>2. CASE dots(at) # {} /\ DotAgain(s, slash, dot(at))
      BY <2>5, <3>2
    <3>3. CASE dots(at) # {} /\ ~DotAgain(s, slash, dot(at))
      <4>1. SkipDot(dot(at)) \in 1 .. n
        BY <1>3, <3>3
      <4>2. g[SkipDot(dot(at))] \in BOOLEAN
        BY <2>7, <4>1
      <4>. QED  BY <2>6, <3>3, <4>2
    <3>. QED  BY <3>1, <3>2, <3>3
  <2>9. g = [at \in 1 .. n |-> g[at]]
    BY <2>2 DEF Descent
  <2>. QED  BY <2>8, <2>9
<1>6. Function(found)
  BY <1>5
<1>7. \A at \in 1 .. n : found[at] = Value(found, at)
  <2>. HIDE DEF found
  <2>. QED  BY <1>6
<1>. HIDE DEF found
<1>8. found[1] <=> DotsFrom(s, slash, 1)
  <2>1. 1 \in 1 .. n
    BY <1>1
  <2>. QED  BY <1>4, <1>7, <2>1
<1>9. HasDotDotSegment(s, slash) = found[1]
  BY DEF HasDotDotSegment, found, dots, dot, DotAgain
<1>. QED  BY <1>8, <1>9

\* The segment that starts at a position is two dots, or two dots are a
\* segment behind it.
LEMMA SegmentOfDots ==
    ASSUME NEW s \in Text, NEW slash, "." \notin slash, NEW start \in 1 .. Len(s) + 1,
           start = 1 \/ s[start - 1] \in slash
    PROVE  LET rest == From(s, start)
               end == FindFirst(rest, slash)
           IN /\ rest \in Text /\ Before(rest, end) \in Text
              /\ end =< Len(rest) => /\ start + end \in start + 1 .. Len(s) + 1
                                     /\ s[start + end - 1] \in slash
              /\ DotsFrom(s, slash, start) <=>
                    \/ Before(rest, end) = <<".", ".">>
                    \/ end =< Len(rest) /\ DotsFrom(s, slash, start + end)
<1>. DEFINE rest == From(s, start)
            end == FindFirst(rest, slash)
<1>1. Len(s) \in Nat
  BY DEF Text
<1>2. /\ rest \in Text /\ Len(rest) = Len(s) + 1 - start
      /\ \A k \in 1 .. Len(s) + 1 - start : rest[k] = s[start + k - 1]
  BY SearchFrom
<1>. HIDE DEF rest
<1>3. /\ end \in 1 .. Len(rest) + 1
      /\ \A i \in 1 .. Len(rest) : i < end => rest[i] \notin slash
      /\ end =< Len(rest) => rest[end] \in slash
  BY <1>2, FindFirstRange
<1>. HIDE DEF end
<1>4. /\ Before(rest, end) \in Text /\ Len(Before(rest, end)) = end - 1
      /\ \A k \in 1 .. end - 1 : Before(rest, end)[k] = rest[k]
  BY <1>2, <1>3, BeforeText
<1>5. end =< Len(rest) => /\ start + end \in start + 1 .. Len(s) + 1
                          /\ s[start + end - 1] \in slash
  <2>1. SUFFICES ASSUME end =< Len(rest)
                 PROVE  /\ start + end \in start + 1 .. Len(s) + 1
                        /\ s[start + end - 1] \in slash
    OBVIOUS
  <2>2. end \in 1 .. Len(s) + 1 - start
    BY <1>1, <1>2, <1>3, <2>1
  <2>. QED  BY <1>1, <1>2, <1>3, <2>1, <2>2
<1>6. ASSUME Before(rest, end) = <<".", ".">>
      PROVE  DotsFrom(s, slash, start)
  <2>. DEFINE b == Before(rest, end)
  <2>1. Len(b) = 2 /\ b[1] = "." /\ b[2] = "."
    BY <1>6
  <2>. HIDE DEF b
  <2>2. Len(b) = end - 1 /\ \A k \in 1 .. end - 1 : b[k] = rest[k]
    BY <1>4 DEF b
  <2>3. end = 3 /\ Len(rest) >= 2
    <3>1. end \in 1 .. Len(rest) + 1 /\ Len(rest) \in Nat
      BY <1>2, <1>3 DEF Text
    <3>2. end - 1 = 2
      BY <2>1, <2>2
    <3>3. end = 3
      BY <3>1, <3>2
    <3>. QED  BY <3>1, <3>3
  <2>4. rest[1] = "." /\ rest[2] = "."
    BY <2>1, <2>2, <2>3
  <2>5. start \in start .. Len(s) - 1 /\ s[start] = "." /\ s[start + 1] = "."
    <3>1. 1 \in 1 .. Len(s) + 1 - start /\ 2 \in 1 .. Len(s) + 1 - start
      BY <1>1, <1>2, <2>3
    <3>2. rest[1] = s[start + 1 - 1] /\ rest[2] = s[start + 2 - 1]
      BY <1>2, <3>1
    <3>3. start + 1 - 1 = start /\ start + 2 - 1 = start + 1
      OBVIOUS
    <3>. QED  BY <1>1, <2>4, <3>1, <3>2, <3>3
  <2>6. start + 1 = Len(s) \/ s[start + 2] \in slash
    <3>1. CASE Len(rest) = 2
      <4>1. start \in Int
        BY <1>1
      <4>2. Len(s) + 1 - start = 2
        BY <1>2, <3>1
      <4>. QED  BY <1>1, <4>1, <4>2
    <3>2. CASE Len(rest) # 2
      <4>1. end =< Len(rest)
        BY <1>1, <1>2, <2>3, <3>2
      <4>2. start + end - 1 = start + 2
        BY <2>3
      <4>. QED  BY <1>5, <4>1, <4>2
    <3>. QED  BY <3>1, <3>2
  <2>. QED  BY <2>5, <2>6 DEF DotsFrom, Dots, DotAgain
<1>7. ASSUME NEW k \in start .. Len(s) - 1, Dots(s, slash, k)
      PROVE  \/ Before(rest, end) = <<".", ".">>
             \/ end =< Len(rest) /\ DotsFrom(s, slash, start + end)
  <2>. DEFINE m == k - start + 1
  <2>1. /\ s[k] = "." /\ s[k + 1] = "."
        /\ k = 1 \/ s[k - 1] \in slash
        /\ k + 1 = Len(s) \/ s[k + 2] \in slash
    BY <1>7 DEF Dots, DotAgain
  <2>2. m \in 1 .. Len(rest) /\ m + 1 \in 1 .. Len(rest) /\ k = start + m - 1
    BY <1>1, <1>2
  <2>3. rest[m] = s[start + m - 1] /\ rest[m + 1] = s[start + (m + 1) - 1]
    BY <1>2, <2>2
  <2>4. start + m - 1 = k /\ start + (m + 1) - 1 = k + 1
    BY <2>2
  <2>5. rest[m] = "." /\ rest[m + 1] = "."
    BY <2>1, <2>3, <2>4
  <2>6. CASE k = start
    <3>1. m = 1
      BY <2>6
    <3>2. rest[1] = "." /\ rest[2] = "." /\ Len(rest) >= 2
      BY <1>1, <1>2, <2>2, <2>5, <3>1
    <3>3. end # 1 /\ end # 2
      BY <1>3, <3>2
    <3>4. Len(rest) = 2 => end = 3
      BY <1>3, <3>3
    <3>5. Len(rest) # 2 => end = 3
      <4>1. SUFFICES ASSUME Len(rest) # 2 PROVE end = 3
        OBVIOUS
      <4>2. k + 1 # Len(s) /\ 3 \in 1 .. Len(rest) /\ start + 3 - 1 = k + 2
        BY <1>1, <1>2, <2>6, <3>2, <4>1
      <4>3. rest[3] = s[k + 2] /\ s[k + 2] \in slash
        BY <1>2, <2>1, <4>2
      <4>4. ~(3 < end)
        BY <1>3, <4>2, <4>3
      <4>. QED  BY <1>3, <3>3, <4>4
    <3>6. end = 3
      BY <3>4, <3>5
    <3>. DEFINE b == Before(rest, end)
    <3>7. b \in Text /\ Len(b) = end - 1 /\ \A i \in 1 .. end - 1 : b[i] = rest[i]
      BY <1>4
    <3>. HIDE DEF b
    <3>8. b \in Seq(Char) /\ Len(b) = 2 /\ b[1] = "." /\ b[2] = "."
      BY <3>2, <3>6, <3>7 DEF Text
    <3>9. b = <<".", ".">>
      BY <3>8
    <3>. QED  BY <3>9 DEF b
  <2>7. CASE k # start
    <3>1. k # 1 /\ s[k - 1] \in slash /\ m - 1 \in 1 .. Len(rest) /\ start + (m - 1) - 1 = k - 1
      BY <1>1, <1>2, <2>1, <2>2, <2>7
    <3>2. rest[m - 1] \in slash
      BY <1>2, <3>1
    <3>3. end =< m - 1
      BY <1>3, <2>2, <3>1, <3>2
    <3>4. end # m
      BY <2>2, <3>3
    <3>5. end =< Len(rest) /\ k \in start + end .. Len(s) - 1
      BY <1>1, <1>2, <1>3, <2>2, <3>3
    <3>. QED  BY <1>7, <3>5 DEF DotsFrom
  <2>. QED  BY <2>6, <2>7
<1>8. ASSUME end =< Len(rest), DotsFrom(s, slash, start + end)
      PROVE  DotsFrom(s, slash, start)
  <2>1. PICK k \in start + end .. Len(s) - 1 : Dots(s, slash, k)
    BY <1>8 DEF DotsFrom
  <2>2. k \in start .. Len(s) - 1
    BY <1>1, <1>3
  <2>. QED  BY <2>1, <2>2 DEF DotsFrom
<1>9. DotsFrom(s, slash, start) <=>
         \/ Before(rest, end) = <<".", ".">>
         \/ end =< Len(rest) /\ DotsFrom(s, slash, start + end)
  <2>1. DotsFrom(s, slash, start) =>
           \/ Before(rest, end) = <<".", ".">>
           \/ end =< Len(rest) /\ DotsFrom(s, slash, start + end)
    BY <1>7 DEF DotsFrom
  <2>. QED  BY <1>6, <1>8, <2>1
<1>. QED  BY <1>2, <1>4, <1>5, <1>9 DEF rest, end

HasTwoDots(segments) == \E i \in 1 .. Len(segments) : segments[i] = <<".", ".">>

LEMMA TwoDotsFirst ==
    ASSUME NEW x \in Text, NEW segments \in Seq(Text)
    PROVE  /\ <<x>> \o segments \in Seq(Text)
           /\ HasTwoDots(<<x>> \o segments) <=> x = <<".", ".">> \/ HasTwoDots(segments)
<1>. DEFINE first == <<x>>
            all == first \o segments
            n == Len(segments)
<1>1. first \in Seq(Text) /\ Len(first) = 1 /\ first[1] = x /\ n \in Nat
  OBVIOUS
<1>. HIDE DEF first
<1>2. /\ all \in Seq(Text) /\ Len(all) = Len(first) + n
      /\ \A i \in 1 .. Len(first) : all[i] = first[i]
      /\ \A i \in 1 .. n : all[Len(first) + i] = segments[i]
  <2>1. /\ all \in Seq(Text) /\ Len(all) = Len(first) + n
        /\ \A i \in 1 .. Len(first) + n :
               all[i] = IF i <= Len(first) THEN first[i] ELSE segments[i - Len(first)]
    BY <1>1, ConcatProperties
  <2>. HIDE DEF all, n
  <2>. QED  BY <1>1, <2>1
<1>. HIDE DEF all, n
<1>3. all \in Seq(Text) /\ Len(all) = 1 + n /\ all[1] = x
  BY <1>1, <1>2
<1>4. \A i \in 1 .. n : all[1 + i] = segments[i]
  BY <1>1, <1>2
<1>5. ASSUME NEW i \in 1 .. Len(all), all[i] = <<".", ".">>
      PROVE  x = <<".", ".">> \/ HasTwoDots(segments)
  <2>1. CASE i = 1
    BY <1>3, <1>5, <2>1
  <2>2. CASE i # 1
    <3>1. i - 1 \in 1 .. n /\ 1 + (i - 1) = i
      BY <1>1, <1>3, <2>2
    <3>2. segments[i - 1] = <<".", ".">>
      BY <1>4, <1>5, <3>1
    <3>. QED  BY <3>1, <3>2 DEF HasTwoDots, n
  <2>. QED  BY <2>1, <2>2
<1>6. ASSUME NEW i \in 1 .. n, segments[i] = <<".", ".">>
      PROVE  HasTwoDots(all)
  <2>1. 1 + i \in 1 .. Len(all)
    BY <1>1, <1>3
  <2>2. all[1 + i] = <<".", ".">>
    BY <1>4, <1>6
  <2>. QED  BY <2>1, <2>2 DEF HasTwoDots
<1>7. ASSUME x = <<".", ".">>
      PROVE  HasTwoDots(all)
  <2>1. 1 \in 1 .. Len(all)
    BY <1>1, <1>3
  <2>. QED  BY <1>3, <1>7, <2>1 DEF HasTwoDots
<1>8. HasTwoDots(all) => x = <<".", ".">> \/ HasTwoDots(segments)
  BY <1>5 DEF HasTwoDots
<1>9. HasTwoDots(segments) => HasTwoDots(all)
  BY <1>6 DEF HasTwoDots, n
<1>. QED  BY <1>3, <1>7, <1>8, <1>9 DEF all, first

LEMMA NoSegment ==
    /\ <<>> \in Seq(Text) /\ ~HasTwoDots(<<>>)
BY DEF HasTwoDots

\* The segments of a text have one of two dots where two dots stand.
LEMMA SplitAtDots ==
    ASSUME NEW s \in Text, NEW slash, "." \notin slash
    PROVE  HasTwoDots(Split(s, slash)) <=> DotsFrom(s, slash, 1)
<1>. DEFINE n == Len(s) + 1
            End(start) == FindFirst(From(s, start), slash)
            Segment(start) == Before(From(s, start), End(start))
            Last(start) == End(start) > Len(From(s, start))
            Value(g, start) == <<Segment(start)>>
                                 \o IF Last(start) THEN <<>> ELSE g[start + End(start)]
            Function(g) == g = [start \in 1 .. n |-> Value(g, start)]
            from == CHOOSE g : Function(g)
            Begins(start) == start = 1 \/ s[start - 1] \in slash
<1>1. Len(s) \in Nat /\ n \in Nat
  BY DEF Text
<1>2. ASSUME NEW start \in 1 .. n
      PROVE  Segment(start) \in Text /\ (~Last(start) => start + End(start) \in start + 1 .. n)
  <2>. DEFINE rest == From(s, start)
  <2>1. /\ rest \in Text /\ Len(rest) = Len(s) + 1 - start
        /\ End(start) \in 1 .. Len(s) + 2 - start
        /\ Segment(start) \in Text
    BY SearchFrom
  <2>2. ~Last(start) => ~(End(start) > Len(rest))
    OBVIOUS
  <2>. HIDE DEF rest, End, Last, Segment
  <2>. QED  BY <1>1, <2>1, <2>2
<1>3. ASSUME NEW start \in 1 .. n, Begins(start)
      PROVE  /\ ~Last(start) => Begins(start + End(start))
             /\ DotsFrom(s, slash, start) <=>
                   \/ Segment(start) = <<".", ".">>
                   \/ ~Last(start) /\ DotsFrom(s, slash, start + End(start))
  <2>. DEFINE rest == From(s, start)
              end == FindFirst(rest, slash)
  <2>1. /\ rest \in Text
        /\ end =< Len(rest) => /\ start + end \in start + 1 .. Len(s) + 1
                               /\ s[start + end - 1] \in slash
        /\ DotsFrom(s, slash, start) <=>
              \/ Before(rest, end) = <<".", ".">>
              \/ end =< Len(rest) /\ DotsFrom(s, slash, start + end)
    BY <1>3, SegmentOfDots
  <2>2. end \in 1 .. Len(rest) + 1 /\ Len(rest) \in Nat
    BY <2>1, FindFirstRange DEF Text
  <2>3. ~Last(start) <=> end =< Len(rest)
    <3>1. Last(start) <=> end > Len(rest)
      OBVIOUS
    <3>. HIDE DEF Last, end, rest
    <3>. QED  BY <2>2, <3>1
  <2>4. End(start) = end /\ Segment(start) = Before(rest, end)
    OBVIOUS
  <2>. HIDE DEF end, rest, End, Last, Segment
  <2>5. ~Last(start) => Begins(start + End(start))
    <3>1. SUFFICES ASSUME ~Last(start) PROVE Begins(start + End(start))
      OBVIOUS
    <3>2. end =< Len(rest)
      BY <2>3, <3>1, Zenon
    <3>3. s[start + end - 1] \in slash
      BY <2>1, <3>2
    <3>4. Begins(start + end)
      <4>1. start \in Int /\ end \in Int
        BY <1>1, <2>2
      <4>2. (start + end) - 1 = start + end - 1
        BY <4>1
      <4>. QED  BY <3>3, <4>2
    <3>5. start + End(start) = start + end
      BY <2>4, Zenon
    <3>. HIDE DEF Begins
    <3>. QED  BY <3>4, <3>5, Zenon
  <2>. HIDE DEF Begins, n
  <2>6. DotsFrom(s, slash, start) <=>
           \/ Segment(start) = <<".", ".">>
           \/ ~Last(start) /\ DotsFrom(s, slash, start + End(start))
    <3>1. DotsFrom(s, slash, start) <=>
             \/ Before(rest, end) = <<".", ".">>
             \/ ~Last(start) /\ DotsFrom(s, slash, start + end)
      <4>1. DotsFrom(s, slash, start) <=>
              \/ Before(rest, end) = <<".", ".">>
              \/ end =< Len(rest) /\ DotsFrom(s, slash, start + end)
        BY <2>1
      <4>. QED  BY <2>3, <4>1, Zenon
    <3>. QED  BY <2>4, <3>1, Zenon
  <2>. QED  BY <2>5, <2>6
<1>. HIDE DEF End, Segment, Last, Begins
<1>4. ASSUME NEW g,
             \A start \in 1 .. n :
                 Last(start) => g[start] = <<Segment(start)>> \o <<>>,
             \A start \in 1 .. n : ~Last(start) /\ g[start + End(start)] \in Seq(Text) =>
                 g[start] = <<Segment(start)>> \o g[start + End(start)]
      PROVE  \A start \in 1 .. n :
                 /\ g[start] \in Seq(Text)
                 /\ Begins(start) => (HasTwoDots(g[start]) <=> DotsFrom(s, slash, start))
  <2>. DEFINE T == {start \in 1 .. n :
                      /\ g[start] \in Seq(Text)
                      /\ Begins(start) => (HasTwoDots(g[start]) <=> DotsFrom(s, slash, start))}
  <2>1. ASSUME NEW start \in 1 .. n, \A j \in start + 1 .. n : j \in T
        PROVE  start \in T
    <3>1. Segment(start) \in Text
      BY <1>2
    <3>2. CASE Last(start)
      <4>1. g[start] = <<Segment(start)>> \o <<>>
        BY <1>4, <3>2
      <4>2. g[start] \in Seq(Text) /\ (HasTwoDots(g[start]) <=> Segment(start) = <<".", ".">>)
        <5>. DEFINE none == <<>>
        <5>1. g[start] = <<Segment(start)>> \o none /\ none \in Seq(Text) /\ ~HasTwoDots(none)
          BY <4>1, NoSegment
        <5>. HIDE DEF none
        <5>2. /\ <<Segment(start)>> \o none \in Seq(Text)
              /\ HasTwoDots(<<Segment(start)>> \o none)
                    <=> Segment(start) = <<".", ".">> \/ HasTwoDots(none)
          BY <3>1, <5>1, TwoDotsFirst
        <5>. QED  BY <5>1, <5>2
      <4>3. Begins(start) => (DotsFrom(s, slash, start) <=> Segment(start) = <<".", ".">>)
        BY <1>3, <3>2
      <4>. QED  BY <4>2, <4>3
    <3>3. CASE ~Last(start)
      <4>. DEFINE more == start + End(start)
      <4>1. more \in start + 1 .. n
        BY <1>2, <3>3
      <4>2. g[more] \in Seq(Text)
            /\ (Begins(more) => (HasTwoDots(g[more]) <=> DotsFrom(s, slash, more)))
        BY <2>1, <4>1
      <4>3. g[start] = <<Segment(start)>> \o g[more]
        BY <1>4, <3>3, <4>2
      <4>4. /\ g[start] \in Seq(Text)
            /\ HasTwoDots(g[start]) <=> Segment(start) = <<".", ".">> \/ HasTwoDots(g[more])
        <5>. HIDE DEF more
        <5>. QED  BY <3>1, <4>2, <4>3, TwoDotsFirst
      <4>5. Begins(start) =>
              /\ Begins(more)
              /\ DotsFrom(s, slash, start) <=>
                    Segment(start) = <<".", ".">> \/ DotsFrom(s, slash, more)
        BY <1>3, <3>3
      <4>. HIDE DEF more
      <4>. QED  BY <4>2, <4>4, <4>5
    <3>. QED  BY <3>2, <3>3
  <2>2. \A start \in 1 .. n : start \in T
    <3>. HIDE DEF T, n
    <3>. QED  BY <1>1, <2>1, FromTheEnd
  <2>. QED  BY <2>2
<1>5. \E g : Function(g)
  <2>. DEFINE known == {start \in 1 .. n : Last(start)}
              value == [start \in 1 .. n |-> <<Segment(start)>> \o <<>>]
              next == [start \in 1 .. n |-> start + End(start)]
              step == [start \in 1 .. n |-> [v \in Seq(Text) |-> <<Segment(start)>> \o v]]
  <2>1. \A start \in 1 .. n : start \notin known => next[start] \in start + 1 .. n
    BY <1>2
  <2>2. PICK g : Descent(g, n, known, value, next, step)
    <3>. HIDE DEF known, value, next, step, n
    <3>. QED  BY <1>1, <2>1, DescentExists
  <2>3. \A start \in 1 .. n : g[start] = DescentAt(g, start, known, value, next, step)
    BY <2>2 DEF Descent
  <2>4. \A start \in 1 .. n : Last(start) => g[start] = <<Segment(start)>> \o <<>>
    BY <2>3 DEF DescentAt
  <2>5. \A start \in 1 .. n : ~Last(start) /\ g[start + End(start)] \in Seq(Text) =>
            g[start] = <<Segment(start)>> \o g[start + End(start)]
    BY <2>3 DEF DescentAt
  <2>6. \A start \in 1 .. n : g[start] \in Seq(Text)
    BY <1>4, <2>4, <2>5
  <2>7. ASSUME NEW start \in 1 .. n PROVE  g[start] = Value(g, start)
    <3>1. CASE Last(start)
      BY <2>4, <3>1
    <3>2. CASE ~Last(start)
      <4>1. start + End(start) \in 1 .. n
        BY <1>2, <3>2
      <4>2. g[start + End(start)] \in Seq(Text)
        BY <2>6, <4>1
      <4>. QED  BY <2>5, <3>2, <4>2
    <3>. QED  BY <3>1, <3>2
  <2>8. g = [start \in 1 .. n |-> g[start]]
    BY <2>2 DEF Descent
  <2>. QED  BY <2>7, <2>8
<1>6. Function(from)
  BY <1>5
<1>7. \A start \in 1 .. n : from[start] = Value(from, start)
  <2>. HIDE DEF from
  <2>. QED  BY <1>6
<1>. HIDE DEF from
<1>8. HasTwoDots(from[1]) <=> DotsFrom(s, slash, 1)
  <2>1. 1 \in 1 .. n /\ Begins(1)
    BY <1>1 DEF Begins
  <2>. QED  BY <1>4, <1>7, <2>1
<1>9. Split(s, slash) = from[1]
  BY DEF Split, from, Segment, End, Last
<1>. QED  BY <1>8, <1>9

\* Behind a slash dots stand where they stand with it.
LEMMA DotsBehindRoot ==
    ASSUME NEW s \in Text, StartsWith(s, "/")
    PROVE  DotsFrom(s, {"/"}, 1) <=> DotsFrom(Tail(s), {"/"}, 1)
<1>. DEFINE r == Tail(s)
            n == Len(s)
<1>1. s \in Seq(Char) /\ s # <<>> /\ s[1] = "/"
  BY DEF StartsWith, Text
<1>2. n \in Nat /\ n # 0 /\ Len(r) = n - 1 /\ \A i \in 1 .. n - 1 : r[i] = s[i + 1]
  BY <1>1
<1>. HIDE DEF r, n
<1>3. ASSUME NEW k \in 1 .. Len(r) - 1
      PROVE  Dots(s, {"/"}, k + 1) <=> Dots(r, {"/"}, k)
  <2>1. k \in 1 .. n - 1 /\ k + 1 \in 1 .. n - 1 /\ k + 1 # 1
    BY <1>2
  <2>2. r[k] = s[k + 1] /\ r[k + 1] = s[k + 1 + 1]
    BY <1>2, <2>1
  <2>3. k # 1 => r[k - 1] = s[k + 1 - 1]
    <3>1. SUFFICES ASSUME k # 1 PROVE r[k - 1] = s[k + 1 - 1]
      OBVIOUS
    <3>2. k - 1 \in 1 .. n - 1 /\ k - 1 + 1 = k + 1 - 1
      BY <1>2, <2>1, <3>1
    <3>. QED  BY <1>2, <3>2
  <2>4. k = 1 => s[k + 1 - 1] = "/"
    BY <1>1
  <2>5. k + 1 = Len(r) <=> k + 1 + 1 = n
    BY <1>2, <2>1
  <2>6. k + 1 # Len(r) => r[k + 2] = s[k + 1 + 2]
    <3>1. SUFFICES ASSUME k + 1 # Len(r) PROVE r[k + 2] = s[k + 1 + 2]
      OBVIOUS
    <3>2. k + 2 \in 1 .. n - 1 /\ k + 2 + 1 = k + 1 + 2
      BY <1>2, <2>1, <3>1
    <3>. QED  BY <1>2, <3>2
  <2>7. DotAgain(s, {"/"}, k + 1) <=> DotAgain(r, {"/"}, k)
    BY <2>1, <2>2, <2>3, <2>4, <2>5, <2>6 DEF DotAgain, n
  <2>. QED  BY <2>2, <2>7 DEF Dots
<1>4. ASSUME NEW k \in 1 .. n - 1, Dots(s, {"/"}, k)
      PROVE  DotsFrom(r, {"/"}, 1)
  <2>1. k # 1
    BY <1>1, <1>4 DEF Dots
  <2>2. k - 1 \in 1 .. Len(r) - 1 /\ k - 1 + 1 = k
    BY <1>2, <2>1
  <2>3. Dots(r, {"/"}, k - 1)
    BY <1>3, <1>4, <2>2
  <2>. QED  BY <2>2, <2>3 DEF DotsFrom
<1>5. ASSUME NEW k \in 1 .. Len(r) - 1, Dots(r, {"/"}, k)
      PROVE  DotsFrom(s, {"/"}, 1)
  <2>1. k + 1 \in 1 .. n - 1 /\ Dots(s, {"/"}, k + 1)
    BY <1>2, <1>3, <1>5
  <2>. QED  BY <2>1 DEF DotsFrom, n
<1>6. DotsFrom(s, {"/"}, 1) => DotsFrom(r, {"/"}, 1)
  BY <1>4 DEF DotsFrom, n
<1>7. DotsFrom(r, {"/"}, 1) => DotsFrom(s, {"/"}, 1)
  BY <1>5 DEF DotsFrom
<1>. QED  BY <1>6, <1>7 DEF r

LEMMA StartOfCheckIsPosition ==
    ASSUME NEW s \in Text, StartOfCheck(s) # 0
    PROVE  From(WithoutPrefix(s), StartOfCheck(s)) \in Text
<1>. DEFINE r == WithoutPrefix(s)
            c == Components(r)
<1>1. r \in Text /\ c \in Seq(Text)
  BY WithoutPrefixText, FirstComponent
<1>2. UncPath(r) \in Nat
  <2>. HIDE DEF r
  <2>1. CASE UncPath(r) = 0
    BY <2>1
  <2>2. CASE UncPath(r) # 0
    <3>1. Len(c) >= 2 /\ UncPath(r) = Len(c[1]) + Len(c[2]) + 2
      BY <2>2 DEF UncPath
    <3>. HIDE DEF c
    <3>2. c[1] \in Seq(Char) /\ c[2] \in Seq(Char)
      BY <1>1, <3>1 DEF Text
    <3>3. Len(c[1]) \in Nat /\ Len(c[2]) \in Nat
      BY <3>2
    <3>4. \A i, j \in Nat : i + j + 2 \in Nat
      OBVIOUS
    <3>5. Len(c[1]) + Len(c[2]) + 2 \in Nat
      BY <3>3, <3>4, Zenon
    <3>. QED  BY <3>1, <3>5, Zenon
  <2>. QED  BY <2>1, <2>2
<1>3. DriveAbsolute(r) \in Nat
  BY DEF DriveAbsolute
<1>4. StartOfCheck(s) \in Nat
  BY <1>2, <1>3 DEF StartOfCheck
<1>5. 1 =< StartOfCheck(s)
  BY <1>4
<1>. QED  BY <1>1, <1>4, <1>5, RestText

\* An absolute path is refused if and only if a component of it is two
\* dots, after the root, the drive or the share: the search for dots, which
\* goes from one dot to the next but one, meets every such component, and
\* takes no other name for one.
THEOREM DotDotIsAlwaysRefused == FileSpec => []DotDotIsRefused
<1>1. ASSUME FileInv PROVE DotDotIsRefused
  <2>. DEFINE slash == Slashes(format)
              after == AfterRoot(path, format)
  <2>1. SUFFICES ASSUME IsAbsolute(path, format)
                 PROVE  Refusal(path, format) = "file_unsupported_path"
                          <=> HasTwoDots(Split(after, slash))
    BY DEF DotDotIsRefused, HasTwoDots
  <2>2. path \in Text /\ path # <<>>
    BY <1>1, <2>1 DEF FileInv, IsAbsolute, StartsWith
  <2>3. "." \notin slash
    BY DEF Slashes, Slash
  <2>. HIDE DEF after, slash
  <2>4. CASE format = "posix"
    <3>1. StartsWith(path, "/") /\ after = Tail(path) /\ slash = {"/"}
      BY <2>1, <2>4 DEF IsAbsolute, AfterRoot, Slashes, after, slash
    <3>2. after \in Text
      BY <2>2, <3>1, TailText
    <3>3. Refusal(path, format) = "file_unsupported_path" <=> HasDotDotSegment(path, {"/"})
      BY <2>2, <2>4, <3>1 DEF Refusal, StartsWith
    <3>4. HasDotDotSegment(path, {"/"}) <=> DotsFrom(path, {"/"}, 1)
      BY <2>2, DotsAreFound
    <3>5. DotsFrom(path, {"/"}, 1) <=> DotsFrom(Tail(path), {"/"}, 1)
      BY <2>2, <3>1, DotsBehindRoot
    <3>6. HasTwoDots(Split(after, slash)) <=> DotsFrom(after, slash, 1)
      BY <2>3, <3>2, SplitAtDots
    <3>. QED  BY <3>1, <3>3, <3>4, <3>5, <3>6
  <2>5. CASE format = "windows"
    <3>1. /\ StartOfCheck(path) # 0 /\ slash = Slash
          /\ after = From(WithoutPrefix(path), StartOfCheck(path))
      BY <2>1, <2>5 DEF IsAbsolute, AfterRoot, Slashes, after, slash
    <3>2. after \in Text
      BY <2>2, <3>1, StartOfCheckIsPosition
    <3>3. Refusal(path, format) = "file_unsupported_path" <=> HasDotDotSegment(after, Slash)
      BY <2>2, <2>5, <3>1 DEF Refusal
    <3>4. HasDotDotSegment(after, slash) <=> DotsFrom(after, slash, 1)
      BY <2>3, <3>2, DotsAreFound
    <3>5. HasTwoDots(Split(after, slash)) <=> DotsFrom(after, slash, 1)
      BY <2>3, <3>2, SplitAtDots
    <3>. QED  BY <3>1, <3>3, <3>4, <3>5
  <2>. QED  BY <1>1, <2>4, <2>5 DEF FileInv, Format
<1>. QED  BY <1>1, FileInvariance, PTL
=============================================================================

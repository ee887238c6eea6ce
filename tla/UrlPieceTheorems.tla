-------------------------- MODULE UrlPieceTheorems --------------------------
(***************************************************************************)
(* What each operation of url_serializer and url_setter does to the texts  *)
(* of the parts: which pieces of norm_url_ it changes, and to what.        *)
(***************************************************************************)
EXTENDS UrlParserTheorems

-----------------------------------------------------------------------------
(* Slices of texts.                                                        *)

\* The text between the offsets i and j.
Slice(s, i, j) == SubSeq(s, i + 1, j)

LEMMA TextsEqual ==
    ASSUME NEW s \in Text, NEW r \in Text, Len(s) = Len(r),
           \A k \in 1 .. Len(s) : s[k] = r[k]
    PROVE  s = r
BY SeqEqual DEF Text

\* The offsets i and j are offsets of the text s.
InText(s, i, j) == s \in Text /\ i \in Nat /\ j \in Nat /\ i =< j /\ j =< Len(s)

LEMMA SliceText ==
    ASSUME NEW s, NEW i, NEW j, InText(s, i, j)
    PROVE  /\ Slice(s, i, j) \in Text /\ Len(Slice(s, i, j)) = j - i
           /\ \A k \in 1 .. j - i : Slice(s, i, j)[k] = s[i + k]
BY PieceText DEF Slice, InText

LEMMA SliceEmpty ==
    ASSUME NEW s, NEW i \in Int, NEW j \in Int, j =< i
    PROVE  Slice(s, i, j) = <<>>
<1>1. i + 1 \in Int /\ j < i + 1
  OBVIOUS
<1>. QED  BY <1>1, SubSeqEmpty DEF Slice

LEMMA SliceAll ==
    ASSUME NEW s \in Text
    PROVE  Slice(s, 0, Len(s)) = s
<1>1. 0 + 1 = 1
  OBVIOUS
<1>. QED  BY <1>1, SubSeqFull DEF Slice, Text

\* Two slices of the same length with the same characters are equal.
SameAt(s, i, j, r, m, n) ==
    /\ InText(s, i, j) /\ InText(r, m, n)
    /\ j - i = n - m
    /\ \A k \in 1 .. j - i : s[i + k] = r[m + k]

LEMMA SlicesEqual ==
    ASSUME NEW s, NEW i, NEW j, NEW r, NEW m, NEW n, SameAt(s, i, j, r, m, n)
    PROVE  Slice(s, i, j) = Slice(r, m, n)
<1>1. /\ Slice(s, i, j) \in Text /\ Len(Slice(s, i, j)) = j - i
      /\ \A k \in 1 .. j - i : Slice(s, i, j)[k] = s[i + k]
  BY SliceText DEF SameAt
<1>2. /\ Slice(r, m, n) \in Text /\ Len(Slice(r, m, n)) = n - m
      /\ \A k \in 1 .. n - m : Slice(r, m, n)[k] = r[m + k]
  BY SliceText DEF SameAt
<1>3. \A k \in 1 .. j - i : Slice(s, i, j)[k] = Slice(r, m, n)[k]
  BY <1>1, <1>2 DEF SameAt
<1>4. Len(Slice(s, i, j)) = Len(Slice(r, m, n))
  BY <1>1, <1>2 DEF SameAt
<1>. QED  BY <1>1, <1>2, <1>3, <1>4, TextsEqual

\* A slice of the first or of the second of two texts.
LEMMA SliceOfFirst ==
    ASSUME NEW s, NEW i, NEW j, InText(s, i, j), NEW r \in Text
    PROVE  Slice(s \o r, i, j) = Slice(s, i, j)
<1>. USE DEF InText
<1>1. /\ s \o r \in Text /\ Len(s \o r) = Len(s) + Len(r)
      /\ \A k \in 1 .. Len(s) : (s \o r)[k] = s[k]
  BY ConcatText
<1>2. Len(s) \in Nat /\ Len(r) \in Nat
  BY DEF Text
<1>3. j =< Len(s \o r)
  BY <1>1, <1>2
<1>4. \A k \in 1 .. j - i : (s \o r)[i + k] = s[i + k]
  <2>1. \A k \in 1 .. j - i : i + k \in 1 .. Len(s)
    BY <1>2
  <2>. QED  BY <1>1, <2>1
<1>5. SameAt(s \o r, i, j, s, i, j)
  BY <1>1, <1>3, <1>4 DEF SameAt
<1>. QED  BY <1>5, SlicesEqual

LEMMA SliceOfSecond ==
    ASSUME NEW s \in Text, NEW r, NEW i, NEW j, InText(r, i, j),
           NEW m, m = Len(s) + i, NEW n, n = Len(s) + j
    PROVE  Slice(s \o r, m, n) = Slice(r, i, j)
<1>. USE DEF InText
<1>1. /\ s \o r \in Text /\ Len(s \o r) = Len(s) + Len(r)
      /\ \A k \in 1 .. Len(r) : (s \o r)[Len(s) + k] = r[k]
  BY ConcatText
<1>2. Len(s) \in Nat /\ Len(r) \in Nat
  BY DEF Text
<1>3. /\ m \in Nat /\ n \in Nat /\ m =< n /\ n - m = j - i
      /\ n =< Len(s \o r)
  BY <1>1, <1>2
<1>4. ASSUME NEW k \in 1 .. n - m PROVE (s \o r)[m + k] = r[i + k]
  <2>1. i + k \in 1 .. Len(r) /\ m + k = Len(s) + (i + k)
    BY <1>2, <1>3
  <2>. QED  BY <1>1, <2>1
<1>5. SameAt(s \o r, m, n, r, i, j)
  BY <1>1, <1>3, <1>4 DEF SameAt
<1>. QED  BY <1>5, SlicesEqual

\* A slice of a slice.
LEMMA SliceOfSlice ==
    ASSUME NEW s, NEW a, NEW b, InText(s, a, b),
           NEW i \in Nat, NEW j \in Nat, i =< j, j =< b - a,
           NEW m, m = a + i, NEW n, n = a + j
    PROVE  Slice(Slice(s, a, b), i, j) = Slice(s, m, n)
<1>1. /\ Slice(s, a, b) \in Text /\ Len(Slice(s, a, b)) = b - a
      /\ \A k \in 1 .. b - a : Slice(s, a, b)[k] = s[a + k]
  BY SliceText
<1>. USE DEF InText
<1>2. m \in Nat /\ n \in Nat /\ m =< n /\ n - m = j - i /\ n =< Len(s)
  <2>1. Len(s) \in Nat
    BY DEF Text
  <2>. QED  BY <2>1
<1>3. ASSUME NEW k \in 1 .. j - i PROVE Slice(s, a, b)[i + k] = s[m + k]
  <2>1. i + k \in 1 .. b - a /\ m + k = a + (i + k)
    OBVIOUS
  <2>. QED  BY <1>1, <2>1
<1>4. SameAt(Slice(s, a, b), i, j, s, m, n)
  BY <1>1, <1>2, <1>3 DEF SameAt
<1>. QED  BY <1>4, SlicesEqual

-----------------------------------------------------------------------------
(* Pieces.                                                                 *)

LEMMA PieceSlice ==
    ASSUME NEW u, NEW t
    PROVE  Piece(u, t) = Slice(u.norm, PartPos(u, t), u.ends[t])
BY DEF Piece, Slice

\* Where the piece of a part is: between two ends, or nowhere.
PieceFacts(u, l, t) ==
    /\ PartPos(u, t) \in Nat /\ u.ends[t] \in Nat
    /\ t > l => u.ends[t] = 0 /\ Piece(u, t) = <<>>
    /\ t =< l => /\ PartPos(u, t) =< u.ends[t] /\ u.ends[t] =< Len(u.norm)
                 /\ u.ends[t] =< u.ends[l]
    /\ Piece(u, t) \in Text
    /\ t =< l => Len(Piece(u, t)) = u.ends[t] - PartPos(u, t)

LEMMA PiecesAre ==
    ASSUME NEW u \in Url, NEW l \in Part, EndsUpTo(u, l), NEW t \in Part
    PROVE  PieceFacts(u, l, t)
<1>. DEFINE p == PartPos(u, t)
<1>1. /\ u.norm \in Text /\ Len(u.norm) \in Nat
      /\ u.ends \in [Part -> Nat] /\ \A s \in Part : u.ends[s] \in Nat
  BY UrlType
<1>2. InOrder(u.ends, Len(u.norm), l)
  BY DEF EndsUpTo
<1>3. /\ \A s \in Part : s =< l => u.ends[s] > 0 /\ u.ends[s] =< u.ends[l]
                                   /\ u.ends[s] =< Len(u.norm)
      /\ \A s \in Part : s > l => u.ends[s] = 0
      /\ \A r, s \in Part : r =< s /\ s =< l => u.ends[r] =< u.ends[s]
  BY <1>1, <1>2, InOrderFacts
<1>4. t \in Int /\ l \in Int /\ (t # SCHEME => t - 1 \in Part /\ t - 1 =< t)
  BY PartInt
<1>5. p \in Nat /\ (t =< l => p =< u.ends[t])
  <2>1. CASE t = SCHEME
    BY <1>1, <2>1 DEF PartPos
  <2>2. CASE t # SCHEME
    <3>1. p = u.ends[t - 1]
      BY <2>2 DEF PartPos
    <3>. HIDE DEF p
    <3>. QED  BY <1>1, <1>3, <1>4, <2>2, <3>1
  <2>. QED  BY <2>1, <2>2
<1>6. Piece(u, t) = Slice(u.norm, p, u.ends[t])
  BY PieceSlice
<1>7. p = PartPos(u, t)
  OBVIOUS
<1>. HIDE DEF p
<1>8. CASE t =< l
  <2>1. u.ends[t] \in Nat /\ p =< u.ends[t] /\ u.ends[t] =< Len(u.norm) /\ ~(t > l)
    BY <1>1, <1>3, <1>4, <1>5, <1>8
  <2>2. Slice(u.norm, p, u.ends[t]) \in Text
        /\ Len(Slice(u.norm, p, u.ends[t])) = u.ends[t] - p
    BY <1>1, <1>5, <1>8, <2>1, SliceText DEF InText
  <2>. QED  BY <1>1, <1>3, <1>5, <1>6, <1>7, <1>8, <2>1, <2>2 DEF PieceFacts
<1>9. CASE ~(t =< l)
  <2>1. u.ends[t] = 0 /\ u.ends[t] =< p /\ p \in Int /\ u.ends[t] \in Int
    BY <1>3, <1>4, <1>5, <1>9
  <2>2. Piece(u, t) = <<>>
    BY <1>6, <2>1, SliceEmpty
  <2>3. <<>> \in Text
    BY EmptySeq DEF Text
  <2>. QED  BY <1>1, <1>5, <1>7, <1>9, <2>1, <2>2, <2>3 DEF PieceFacts
<1>. QED  BY <1>8, <1>9

\* The pieces of v are those of u but for the parts first .. last, which are
\* now the text str, len0 characters of it in front.
PiecesReplaced(u, v, first, last, str, len0) ==
    /\ \A t \in Part : t < first \/ t > last => Piece(v, t) = Piece(u, t)
    /\ first = last => Piece(v, first) = str
    /\ first < last =>
          /\ Piece(v, first) = Slice(str, 0, len0)
          /\ Piece(v, last) = Slice(str, len0, Len(str))
          /\ \A t \in Part : first < t /\ t < last => Piece(v, t) = <<>>

LEMMA ReplacedPieces ==
    ASSUME NEW u \in Url, NEW l \in Part, Ordered(u, l),
           NEW first \in Part, first # SCHEME, NEW last \in Part,
           first =< last, last =< l,
           NEW str \in Text, NEW len0 \in 0 .. Len(str)
    PROVE  PiecesReplaced(u, ReplaceParts(u, first, last, str, len0), first, last, str, len0)
<1>. DEFINE v == ReplaceParts(u, first, last, str, len0)
            b == u.ends[first - 1]
            e == u.ends[last]
            n == Len(str)
            head == Slice(u.norm, 0, b)
            rest == Slice(u.norm, e, Len(u.norm))
            text == head \o str
<1>1. /\ v \in Url /\ EndsUpTo(v, l)
      /\ \A t \in Part : v.ends[t] = IF first =< t /\ t < last THEN b + len0
                                     ELSE IF last =< t /\ t =< l
                                          THEN u.ends[t] + (n - (e - b))
                                     ELSE u.ends[t]
  BY ReplacePartsEnds
<1>2. v.norm = text \o rest
  <2>1. 0 + 1 = 1 /\ PartPos(u, first) = b
    BY DEF PartPos
  <2>. QED  BY <2>1 DEF ReplaceParts, Slice, Url
<1>3. b = u.ends[first - 1] /\ e = u.ends[last] /\ n = Len(str)
  OBVIOUS
<1>4. EndsUpTo(u, l)
  BY DEF Ordered
<1>5. /\ first - 1 \in Part /\ first \in Int /\ last \in Int /\ l \in Int
      /\ \A t \in Part : t \in Int /\ (t # SCHEME => t - 1 \in Part)
      /\ u.norm \in Text /\ Len(u.norm) \in Nat /\ n \in Nat /\ len0 \in Nat /\ len0 =< n
      /\ \A t \in Part : u.ends[t] \in Nat
  BY PartInt, UrlType DEF Text
<1>. HIDE DEF v, b, e, n, head, rest, text
<1>6. /\ \A s, t \in Part : s =< t /\ t =< l => u.ends[s] =< u.ends[t]
      /\ \A t \in Part : t =< l => u.ends[t] =< Len(u.norm)
  BY OrderedFacts
<1>7. b \in Nat /\ e \in Nat /\ b =< e /\ e =< Len(u.norm) /\ b =< Len(u.norm)
  <2>1. first - 1 =< last
    BY <1>5
  <2>. QED  BY <1>3, <1>5, <1>6, <2>1
<1>8. /\ head \in Text /\ Len(head) = b /\ rest \in Text /\ Len(rest) = Len(u.norm) - e
      /\ text \in Text /\ Len(text) = b + n
  <2>1. b - 0 = b /\ InText(u.norm, 0, b) /\ InText(u.norm, e, Len(u.norm))
    BY <1>5, <1>7 DEF InText
  <2>2. head \in Text /\ Len(head) = b
    BY <2>1, SliceText DEF head
  <2>3. rest \in Text /\ Len(rest) = Len(u.norm) - e
    BY <2>1, SliceText DEF rest
  <2>. QED  BY <1>3, <2>2, <2>3, ConcatText DEF text
<1>9. ASSUME NEW t \in Part, t < first PROVE Piece(v, t) = Piece(u, t)
  <2>1. t =< l /\ t =< first - 1 /\ ~(first =< t) /\ ~(last =< t)
    BY <1>5, <1>9
  <2>2. PieceFacts(u, l, t) /\ PieceFacts(v, l, t)
    BY <1>1, <1>4, PiecesAre
  <2>3. v.ends[t] = u.ends[t] /\ PartPos(v, t) = PartPos(u, t)
    <3>1. t # SCHEME => ~(first =< t - 1) /\ ~(last =< t - 1)
      BY <1>5, <1>9
    <3>. QED  BY <1>1, <1>5, <2>1, <3>1 DEF PartPos
  <2>4. u.ends[t] =< b
    <3>1. first - 1 =< l
      BY <1>5
    <3>. QED  BY <1>3, <1>5, <1>6, <2>1, <3>1
  <2>. DEFINE p == PartPos(u, t)
              q == u.ends[t]
  <2>5. p \in Nat /\ q \in Nat /\ p =< q /\ q =< b
    BY <2>1, <2>2, <2>4 DEF PieceFacts
  <2>6. Piece(u, t) = Slice(u.norm, p, q) /\ Piece(v, t) = Slice(v.norm, p, q)
    BY <2>3, PieceSlice
  <2>. HIDE DEF p, q
  <2>7. InText(text, p, q) /\ InText(head, p, q) /\ InText(u.norm, 0, b)
    BY <1>5, <1>7, <1>8, <2>5 DEF InText
  <2>8. Slice(text \o rest, p, q) = Slice(text, p, q)
    BY <1>8, <2>7, SliceOfFirst
  <2>9. Slice(text, p, q) = Slice(head, p, q)
    BY <2>7, SliceOfFirst DEF text
  <2>10. Slice(head, p, q) = Slice(u.norm, p, q)
    <3>1. p = 0 + p /\ q = 0 + q /\ q =< b - 0
      BY <1>7, <2>5
    <3>. QED  BY <2>5, <2>7, <3>1, SliceOfSlice DEF head
  <2>. QED  BY <1>2, <2>6, <2>8, <2>9, <2>10
<1>10. ASSUME NEW t \in Part, t > last PROVE Piece(v, t) = Piece(u, t)
  <2>1. PieceFacts(u, l, t) /\ PieceFacts(v, l, t)
    BY <1>1, <1>4, PiecesAre
  <2>2. CASE t > l
    BY <2>1, <2>2 DEF PieceFacts
  <2>3. CASE ~(t > l)
    <3>. DEFINE p == PartPos(u, t) - e
                q == u.ends[t] - e
    <3>1. /\ t =< l /\ t # SCHEME /\ t - 1 \in Part /\ last =< t /\ last =< t - 1 /\ t - 1 =< l
          /\ ~(t < last) /\ ~(t - 1 < last)
      <4>1. SCHEME =< last
        BY PartInt
      <4>2. SCHEME \in Int
        BY PartNumbers
      <4>. QED  BY <1>5, <1>10, <2>3, <4>1, <4>2
    <3>2. PartPos(u, t) = u.ends[t - 1] /\ PartPos(v, t) = v.ends[t - 1]
      BY <3>1 DEF PartPos
    <3>3. e =< u.ends[t - 1] /\ u.ends[t - 1] =< u.ends[t] /\ u.ends[t] =< Len(u.norm)
      <4>1. t - 1 =< t
        BY <1>5
      <4>. QED  BY <1>3, <1>5, <1>6, <3>1, <4>1
    <3>4. v.ends[t] = u.ends[t] + (n - (e - b)) /\ v.ends[t - 1] = u.ends[t - 1] + (n - (e - b))
      BY <1>1, <3>1
    <3>5. u.ends[t] \in Nat /\ u.ends[t - 1] \in Nat
      BY <1>5, <3>1
    <3>. DEFINE i == u.ends[t - 1]
                j == u.ends[t]
    <3>6. /\ PartPos(u, t) = i /\ u.ends[t] = j /\ i \in Nat /\ j \in Nat
          /\ PartPos(v, t) = i + (n - (e - b)) /\ v.ends[t] = j + (n - (e - b))
          /\ e =< i /\ i =< j /\ j =< Len(u.norm)
      BY <3>2, <3>3, <3>4, <3>5
    <3>7. p = i - e /\ q = j - e
      BY <3>6
    <3>. HIDE DEF p, q, i, j
    <3>8. /\ p \in Nat /\ q \in Nat /\ p =< q /\ q =< Len(u.norm) - e
          /\ i = e + p /\ j = e + q
      BY <1>5, <1>7, <3>6, <3>7
    <3>9. PartPos(v, t) = Len(text) + p /\ v.ends[t] = Len(text) + q
      BY <1>5, <1>7, <1>8, <3>6, <3>8
    <3>10. InText(rest, p, q) /\ InText(u.norm, e, Len(u.norm))
      BY <1>5, <1>7, <1>8, <3>8 DEF InText
    <3>11. Piece(v, t) = Slice(rest, p, q)
      <4>1. Piece(v, t) = Slice(v.norm, PartPos(v, t), v.ends[t])
        BY PieceSlice
      <4>2. Slice(text \o rest, PartPos(v, t), v.ends[t]) = Slice(rest, p, q)
        BY <1>8, <3>9, <3>10, SliceOfSecond
      <4>. QED  BY <1>2, <4>1, <4>2
    <3>12. Slice(rest, p, q) = Slice(u.norm, i, j)
      BY <3>8, <3>10, SliceOfSlice DEF rest
    <3>. QED  BY <3>6, <3>11, <3>12, PieceSlice
  <2>. QED  BY <2>2, <2>3
\* A slice of v that lies in str.
<1>11. ASSUME NEW i \in Nat, NEW j \in Nat, i =< j, j =< n
       PROVE  Slice(v.norm, b + i, b + j) = Slice(str, i, j)
  <2>. DEFINE p == b + i
              q == b + j
  <2>1. p \in Nat /\ q \in Nat /\ p =< q /\ q =< b + n
    BY <1>5, <1>7, <1>11
  <2>2. p = Len(head) + i /\ q = Len(head) + j
    BY <1>8
  <2>. HIDE DEF p, q
  <2>3. InText(text, p, q) /\ InText(str, i, j)
    BY <1>3, <1>8, <1>11, <2>1 DEF InText
  <2>4. Slice(text \o rest, p, q) = Slice(text, p, q)
    BY <1>8, <2>3, SliceOfFirst
  <2>5. Slice(text, p, q) = Slice(str, i, j)
    BY <1>8, <2>2, <2>3, SliceOfSecond DEF text
  <2>. QED  BY <1>2, <2>4, <2>5 DEF p, q
<1>12. \A t \in Part : Piece(v, t) = Slice(v.norm, PartPos(v, t), v.ends[t])
  BY PieceSlice
<1>13. PartPos(v, first) = b + 0
  <2>1. ~(first =< first - 1) /\ ~(last =< first - 1)
    BY <1>5
  <2>. QED  BY <1>1, <1>3, <1>5, <1>7, <2>1 DEF PartPos
<1>14. CASE first = last
  <2>1. v.ends[first] = b + n
    <3>1. v.ends[last] = e + (n - (e - b))
      BY <1>1, <1>3, <1>5
    <3>. QED  BY <1>5, <1>7, <1>14, <3>1
  <2>2. Piece(v, first) = Slice(str, 0, n)
    <3>1. 0 \in Nat /\ 0 =< n /\ n =< n
      BY <1>5
    <3>. QED  BY <1>5, <1>11, <1>12, <1>13, <2>1, <3>1
  <2>3. Slice(str, 0, n) = str
    BY <1>3, SliceAll
  <2>4. ~(first < last)
    BY <1>5, <1>14
  <2>. QED  BY <1>9, <1>10, <1>14, <2>2, <2>3, <2>4 DEF PiecesReplaced, v
<1>15. CASE first < last
  <2>1. v.ends[first] = b + len0 /\ v.ends[last] = b + n /\ PartPos(v, last) = b + len0
    <3>1. v.ends[last] = e + (n - (e - b)) /\ v.ends[first] = b + len0
      BY <1>1, <1>3, <1>5, <1>15
    <3>2. first =< last - 1 /\ last - 1 < last /\ last - 1 \in Part /\ last # SCHEME
      <4>1. SCHEME =< first /\ SCHEME \in Int
        BY PartInt, PartNumbers
      <4>2. last # SCHEME
        BY <1>5, <1>15, <4>1
      <4>. QED  BY <1>5, <1>15, <4>2
    <3>3. v.ends[last - 1] = b + len0
      BY <1>1, <3>2
    <3>. QED  BY <1>5, <1>7, <3>1, <3>2, <3>3 DEF PartPos
  <2>2. 0 \in Nat /\ 0 =< len0 /\ n =< n
    BY <1>5
  <2>3. Piece(v, first) = Slice(str, 0, len0)
    BY <1>5, <1>11, <1>12, <1>13, <2>1, <2>2
  <2>4. Piece(v, last) = Slice(str, len0, n)
    BY <1>5, <1>11, <1>12, <2>1, <2>2
  <2>5. ASSUME NEW t \in Part, first < t, t < last PROVE Piece(v, t) = <<>>
    <3>1. first =< t /\ first =< t - 1 /\ t - 1 < last /\ t - 1 \in Part /\ t # SCHEME
      <4>1. SCHEME =< first /\ SCHEME \in Int
        BY PartInt, PartNumbers
      <4>2. t # SCHEME
        BY <1>5, <2>5, <4>1
      <4>. QED  BY <1>5, <2>5, <4>2
    <3>2. v.ends[t] = b + len0 /\ PartPos(v, t) = b + len0
      BY <1>1, <2>5, <3>1 DEF PartPos
    <3>3. b + len0 \in Int /\ b + len0 =< b + len0
      BY <1>5, <1>7
    <3>. QED  BY <1>12, <3>2, <3>3, SliceEmpty
  <2>6. first # last
    BY <1>5, <1>15
  <2>. QED  BY <1>3, <1>9, <1>10, <2>3, <2>4, <2>5, <2>6 DEF PiecesReplaced, v
<1>16. first = last \/ first < last
  BY <1>5
<1>. QED  BY <1>14, <1>15, <1>16

LEMMA SliceJoin ==
    ASSUME NEW s, NEW i, NEW j, NEW k, InText(s, i, j), InText(s, j, k)
    PROVE  Slice(s, i, j) \o Slice(s, j, k) = Slice(s, i, k)
<1>1. Len(s) \in Nat
  BY DEF InText, Text
<1>2. i + 1 \in 1 .. Len(s) + 1 /\ j \in (i + 1) - 1 .. Len(s) /\ k \in j .. Len(s)
  BY <1>1 DEF InText
<1>. DEFINE m == i + 1
<1>3. m \in 1 .. Len(s) + 1 /\ j \in m - 1 .. Len(s)
  BY <1>2
<1>. HIDE DEF m
<1>4. SubSeq(s, m, j) \o SubSeq(s, j + 1, k) = SubSeq(s, m, k)
  BY <1>2, <1>3, ConcatAdjacentSubSeq DEF InText, Text
<1>. QED  BY <1>4 DEF Slice, m

\* What stands behind the end of a text that was continued.
LEMMA SliceBehind ==
    ASSUME NEW s \in Text, NEW r \in Text, NEW n, n = Len(s) + Len(r)
    PROVE  Slice(s \o r, Len(s), n) = r
<1>1. Len(s) \in Nat /\ Len(r) \in Nat
  BY DEF Text
<1>2. InText(r, 0, Len(r)) /\ Len(s) = Len(s) + 0
  BY <1>1 DEF InText
<1>3. Slice(s \o r, Len(s), n) = Slice(r, 0, Len(r))
  BY <1>2, SliceOfSecond
<1>. QED  BY <1>3, SliceAll

LEMMA JoinEmpty ==
    ASSUME NEW s \in Text
    PROVE  s \o <<>> = s /\ <<>> \o s = s /\ <<>> \in Text /\ Len(<<>>) = 0
BY ConcatEmptySeq, EmptySeq DEF Text

LEMMA JoinIsAssociative ==
    ASSUME NEW s \in Text, NEW r \in Text, NEW q \in Text
    PROVE  (s \o r) \o q = s \o (r \o q)
BY ConcatAssociative DEF Text

\* The ':' behind the scheme.
LEMMA ColonSlice ==
    ASSUME NEW u \in Url, Ordered(u, SCHEME)
    PROVE  /\ Slice(u.norm, u.ends[SCHEME], Len(u.norm)) = <<":">>
           /\ Len(u.norm) = u.ends[SCHEME] + 1
<1>1. /\ u.norm \in Text /\ Len(u.norm) \in Nat /\ u.ends[SCHEME] \in Nat
      /\ Len(u.norm) = u.ends[SCHEME] + 1 /\ u.norm[u.ends[SCHEME] + 1] = ":"
  <2>1. u.norm \in Text /\ Len(u.norm) \in Nat /\ u.ends[SCHEME] \in Nat
    BY UrlType, PartNumbers
  <2>. QED  BY <2>1 DEF Ordered, EndsUpTo, InOrder, SchemeEnds
<1>. DEFINE e == u.ends[SCHEME]
            s == Slice(u.norm, e, Len(u.norm))
<1>2. InText(u.norm, e, Len(u.norm)) /\ Len(u.norm) - e = 1 /\ e + 1 = u.ends[SCHEME] + 1
  BY <1>1 DEF InText
<1>. HIDE DEF e
<1>3. s \in Text /\ Len(s) = 1 /\ s[1] = ":"
  <2>1. /\ Slice(u.norm, e, Len(u.norm)) \in Text
        /\ Len(Slice(u.norm, e, Len(u.norm))) = Len(u.norm) - e
        /\ \A k \in 1 .. Len(u.norm) - e : Slice(u.norm, e, Len(u.norm))[k] = u.norm[e + k]
    BY <1>2, SliceText
  <2>2. s[1] = u.norm[e + 1]
    BY <1>2, <2>1
  <2>. QED  BY <1>1, <1>2, <2>1, <2>2
<1>4. s = <<":">>
  BY <1>3 DEF Text
<1>. QED  BY <1>1, <1>4 DEF s, e

\* The pieces of v are those of u, and t with the text s behind them.
PiecesAppended(u, v, l, t, s) ==
    /\ \A p \in Part : p =< l /\ p # t => Piece(v, p) = Piece(u, p)
    /\ \A p \in Part : p > t => Piece(v, p) = <<>>
    /\ Piece(v, t) = IF l = t THEN Piece(u, t) \o s
                     ELSE IF l = USERNAME /\ t = PASSWORD THEN <<":">> \o s
                     ELSE Lead(t) \o s
    /\ \A p \in Part : l < p /\ p < t =>
          Piece(v, p) = IF p = SCHEME_SEP THEN <<":">> \o Separator(l, t)
                        ELSE IF p = HOST_START /\ l \in {USERNAME, PASSWORD} /\ t = HOST
                        THEN <<"@">> ELSE <<>>

LEMMA AppendedPieces ==
    ASSUME NEW u \in Url, NEW l \in Part, Ordered(u, l),
           NEW t \in Part, t > SCHEME_SEP, t # HOST_START,
           l < t \/ (l = t /\ t \in {HOST, PATH}), NEW s \in Text
    PROVE  PiecesAppended(u, AppendedUrl(u, l, t, s), l, t, s)
<1>. DEFINE len == Len(u.norm)
            sep == Separator(l, t)
            head == u.norm \o sep
            R == Lead(t) \o s
            text == head \o R
            n1 == Len(head)
            n == Len(text)
            F == [p \in Part |-> IF p = t THEN n
                                 ELSE IF p \notin Skipped(l, t) THEN u.ends[p]
                                 ELSE IF l = USERNAME /\ p = PASSWORD THEN len
                                 ELSE n1]
            v == AppendedUrl(u, l, t, s)
<1>1. u.norm \in Text /\ len \in Nat /\ \A p \in Part : u.ends[p] \in Nat
  BY UrlType
<1>2. sep \in Text /\ Lead(t) \in Text
  BY LeadText
<1>3. head \in Text /\ n1 = len + Len(sep)
  BY <1>1, <1>2, ConcatText
<1>4. R \in Text
  BY <1>2, ConcatText
<1>5. text \in Text /\ n = n1 + Len(R)
  BY <1>3, <1>4, ConcatText
<1>6. (head \o Lead(t)) \o s = text
  BY <1>2, <1>3, JoinIsAssociative
<1>7. v.norm = text /\ v.ends = F
  BY <1>6 DEF AppendedUrl, Url
<1>8. len = Len(u.norm) /\ sep = Separator(l, t) /\ n1 = Len(head) /\ n = Len(text)
  OBVIOUS
<1>9. \A p \in Part : F[p] = IF p = t THEN n
                             ELSE IF ~(l < p /\ p < t) THEN u.ends[p]
                             ELSE IF l = USERNAME /\ p = PASSWORD THEN len
                             ELSE n1
  <2>1. \A p \in Part : p \in Skipped(l, t) <=> l < p /\ p < t
    BY PartInt DEF Skipped
  <2>. HIDE DEF len, n1, n
  <2>. QED  BY <2>1
<1>10. /\ \A p \in Part : p \in Int /\ SCHEME =< p
       /\ \A p \in Part : p # SCHEME => p - 1 \in Part
       /\ l \in Int /\ t \in Int /\ SCHEME = 0 /\ SCHEME_SEP = 1 /\ t # SCHEME /\ SCHEME < t
  BY PartInt, PartNumbers
<1>11. l =< t
  BY <1>10
<1>12. Ordered(v, t) /\ v \in Url
  BY <1>11, AppendedUrlSound DEF Added
<1>13. \A p \in Part : Piece(v, p) = Slice(v.norm, PartPos(v, p), v.ends[p])
  BY PieceSlice
<1>14. \A p \in Part : PartPos(v, p) = IF p = SCHEME THEN 0 ELSE v.ends[p - 1]
  BY DEF PartPos
<1>. HIDE DEF len, sep, head, R, text, n1, n, F, v
<1>15. Len(sep) \in Nat /\ Len(R) \in Nat /\ n1 \in Nat /\ n \in Nat /\ len =< n1 /\ n1 =< n
  BY <1>1, <1>2, <1>3, <1>4, <1>5 DEF Text
\* The slices of the new text.
<1>16. Slice(text, len, n1) = sep
  <2>1. InText(head, len, n1)
    BY <1>1, <1>3, <1>8, <1>15 DEF InText
  <2>2. Slice(text, len, n1) = Slice(head, len, n1)
    BY <1>4, <2>1, SliceOfFirst DEF text
  <2>3. Slice(head, len, n1) = sep
    <3>1. n1 = Len(u.norm) + Len(sep)
      BY <1>3, <1>8
    <3>2. Slice(u.norm \o sep, Len(u.norm), n1) = sep
      BY <1>1, <1>2, <3>1, SliceBehind
    <3>. QED  BY <1>8, <3>2 DEF head
  <2>. QED  BY <2>2, <2>3
<1>17. Slice(text, n1, n) = R
  BY <1>3, <1>4, <1>5, <1>8, SliceBehind DEF text
<1>18. ASSUME NEW i \in Nat, NEW j \in Nat, i =< j, j =< len
       PROVE  Slice(text, i, j) = Slice(u.norm, i, j)
  <2>1. InText(u.norm, i, j) /\ InText(head, i, j)
    BY <1>1, <1>3, <1>8, <1>15, <1>18 DEF InText
  <2>2. Slice(text, i, j) = Slice(head, i, j)
    BY <1>4, <2>1, SliceOfFirst DEF text
  <2>3. Slice(head, i, j) = Slice(u.norm, i, j)
    BY <1>2, <2>1, SliceOfFirst DEF head
  <2>. QED  BY <2>2, <2>3
<1>19. ASSUME NEW i \in Nat, NEW j \in Nat, NEW k \in Nat, i =< j, j =< k, k =< n
       PROVE  Slice(text, i, j) \o Slice(text, j, k) = Slice(text, i, k)
  <2>1. InText(text, i, j) /\ InText(text, j, k)
    BY <1>5, <1>8, <1>15, <1>19 DEF InText
  <2>. QED  BY <2>1, SliceJoin
<1>20. /\ l # SCHEME => u.ends[l] = len
       /\ \A p \in Part : p =< l => u.ends[p] =< len
       /\ \A p, q \in Part : p =< q /\ q =< l => u.ends[p] =< u.ends[q]
  BY <1>8, OrderedFacts
<1>21. ASSUME NEW p \in Part, p =< l, p # t
       PROVE  Piece(v, p) = Piece(u, p)
  <2>1. p < t /\ ~(l < p /\ p < t) /\ (p # SCHEME => p - 1 # t /\ ~(l < p - 1 /\ p - 1 < t))
    BY <1>10, <1>11, <1>21
  <2>2. v.ends[p] = u.ends[p] /\ PartPos(v, p) = PartPos(u, p)
    BY <1>7, <1>9, <1>10, <1>21, <2>1 DEF PartPos
  <2>3. PieceFacts(u, l, p)
    BY PiecesAre DEF Ordered
  <2>. DEFINE i == PartPos(u, p)
              j == u.ends[p]
  <2>4. i \in Nat /\ j \in Nat /\ i =< j /\ j =< len
    BY <1>8, <1>21, <2>3 DEF PieceFacts
  <2>5. Piece(u, p) = Slice(u.norm, i, j) /\ Piece(v, p) = Slice(text, i, j)
    BY <1>7, <1>13, <2>2, PieceSlice
  <2>. HIDE DEF i, j
  <2>. QED  BY <1>18, <2>4, <2>5
<1>22. ASSUME NEW p \in Part, p > t PROVE Piece(v, p) = <<>>
  <2>1. PieceFacts(v, t, p)
    BY <1>12, PiecesAre DEF Ordered
  <2>. QED  BY <1>22, <2>1 DEF PieceFacts
<1>23. l = SCHEME => /\ Slice(text, u.ends[SCHEME], len) = <<":">>
                     /\ u.ends[SCHEME] \in Nat /\ u.ends[SCHEME] =< len
  <2>1. CASE l = SCHEME
    <3>1. Slice(u.norm, u.ends[SCHEME], len) = <<":">> /\ len = u.ends[SCHEME] + 1
      BY <1>8, <2>1, ColonSlice
    <3>2. u.ends[SCHEME] \in Nat /\ u.ends[SCHEME] =< len /\ len =< len
      BY <1>1, <1>10, <3>1, PartNumbers
    <3>3. Slice(text, u.ends[SCHEME], len) = Slice(u.norm, u.ends[SCHEME], len)
      BY <1>1, <1>18, <3>2
    <3>. QED  BY <3>1, <3>2, <3>3
  <2>. QED  BY <2>1
<1>24. \A i \in Nat : Slice(text, i, i) = <<>>
  <2>1. \A i \in Nat : i \in Int /\ i =< i
    OBVIOUS
  <2>. QED  BY <2>1, SliceEmpty
<1>25. /\ l = USERNAME /\ t = PASSWORD => sep = <<":">>
       /\ l \in {USERNAME, PASSWORD} /\ t = HOST => sep = <<"@">>
       /\ ~(l = SCHEME /\ t =< HOST) /\ ~(l = USERNAME /\ t = PASSWORD)
          /\ ~(l \in {USERNAME, PASSWORD} /\ t = HOST) => sep = <<>>
  BY <1>8, PartNumbers DEF Separator
<1>26. ASSUME NEW p \in Part, l < p, p < t
       PROVE  Piece(v, p) = IF p = SCHEME_SEP THEN <<":">> \o sep
                            ELSE IF p = HOST_START /\ l \in {USERNAME, PASSWORD} /\ t = HOST
                            THEN <<"@">> ELSE <<>>
  <2>1. p # t /\ p # SCHEME /\ p - 1 # t /\ p - 1 < t /\ p - 1 \in Part
        /\ (l < p - 1 \/ l = p - 1)
    BY <1>10, <1>26
  <2>2. v.ends[p] = IF l = USERNAME /\ p = PASSWORD THEN len ELSE n1
    BY <1>7, <1>9, <1>26, <2>1
  <2>3. PartPos(v, p) = v.ends[p - 1]
    BY <1>14, <2>1
  <2>4. Piece(v, p) = Slice(text, PartPos(v, p), v.ends[p])
    BY <1>7, <1>13
  <2>5. CASE l = p - 1
    <3>1. PartPos(v, p) = u.ends[l]
      <4>1. ~(l < p - 1)
        BY <1>10, <2>5
      <4>2. v.ends[p - 1] = u.ends[p - 1]
        BY <1>7, <1>9, <2>1, <4>1
      <4>. QED  BY <2>3, <2>5, <4>2
    <3>2. CASE l = SCHEME
      <4>1. p = SCHEME_SEP
        BY <1>10, <2>5, <3>2
      <4>2. ~(l = USERNAME)
        BY <3>2, PartNumbers
      <4>3. Slice(text, u.ends[SCHEME], len) \o Slice(text, len, n1)
               = Slice(text, u.ends[SCHEME], n1)
        BY <1>1, <1>15, <1>19, <1>23, <3>2
      <4>. QED  BY <1>16, <1>23, <2>2, <2>4, <3>1, <3>2, <4>1, <4>2, <4>3
    <3>3. CASE l # SCHEME
      <4>1. PartPos(v, p) = len /\ p # SCHEME_SEP
        BY <1>10, <1>20, <2>5, <3>1, <3>3
      <4>2. CASE l = USERNAME
        <5>1. p = PASSWORD /\ p # HOST_START
          BY <1>10, <2>5, <4>2, PartNumbers
        <5>. QED  BY <1>1, <1>24, <2>2, <2>4, <4>1, <4>2, <5>1
      <4>3. CASE l # USERNAME
        <5>1. Piece(v, p) = sep
          BY <1>16, <2>2, <2>4, <4>1, <4>3
        <5>2. l = PASSWORD <=> p = HOST_START
          BY <2>5, PartNumbers, <1>10
        <5>. QED  BY <1>25, <3>3, <4>1, <4>3, <5>1, <5>2
      <4>. QED  BY <4>2, <4>3
    <3>. QED  BY <3>2, <3>3
  <2>6. CASE l < p - 1
    <3>1. p # SCHEME_SEP
      BY <1>10, <2>6
    <3>2. v.ends[p - 1] = IF l = USERNAME /\ p - 1 = PASSWORD THEN len ELSE n1
      BY <1>7, <1>9, <2>1, <2>6
    <3>3. CASE l = USERNAME /\ p - 1 = PASSWORD
      <4>1. p = HOST_START /\ p # PASSWORD /\ t # PASSWORD
        BY <1>26, <3>3, PartNumbers, <1>10
      <4>2. Piece(v, p) = sep
        BY <1>16, <2>2, <2>3, <2>4, <3>2, <3>3, <4>1
      <4>3. l # SCHEME
        BY <3>3, PartNumbers
      <4>. QED  BY <1>25, <3>1, <3>3, <4>1, <4>2, <4>3
    <3>4. CASE ~(l = USERNAME /\ p - 1 = PASSWORD)
      <4>1. ~(l = USERNAME /\ p = PASSWORD) /\ (l \in {USERNAME, PASSWORD} => p # HOST_START)
        BY <1>10, <2>6, <3>4, PartNumbers
      <4>2. Piece(v, p) = Slice(text, n1, n1)
        BY <2>2, <2>3, <2>4, <3>2, <3>4, <4>1
      <4>. QED  BY <1>15, <1>24, <3>1, <4>1, <4>2
    <3>. QED  BY <3>3, <3>4
  <2>. QED  BY <2>1, <2>5, <2>6
<1>27. Piece(v, t) = IF l = t THEN Piece(u, t) \o s
                     ELSE IF l = USERNAME /\ t = PASSWORD THEN <<":">> \o s
                     ELSE Lead(t) \o s
  <2>1. t - 1 \in Part /\ t - 1 # t /\ t - 1 < t
    BY <1>10
  <2>2. v.ends[t] = n /\ PartPos(v, t) = v.ends[t - 1]
    BY <1>7, <1>9, <1>10, <1>14
  <2>3. Piece(v, t) = Slice(text, v.ends[t - 1], n)
    BY <1>7, <1>13, <2>2
  <2>4. CASE l = t
    <3>1. sep = <<>> /\ Lead(t) = <<>>
      BY <1>25, <2>4, PartNumbers DEF Lead
    <3>2. R = s
      BY <3>1, JoinEmpty DEF R
    <3>3. v.ends[t - 1] = u.ends[t - 1]
      <4>1. ~(l < t - 1)
        BY <1>10, <2>4
      <4>. QED  BY <1>7, <1>9, <2>1, <4>1
    <3>4. n1 = len
      BY <1>1, <1>3, <3>1, JoinEmpty
    <3>5. PieceFacts(u, l, t) /\ PartPos(u, t) = u.ends[t - 1]
      BY <1>10, PiecesAre DEF Ordered, PartPos
    <3>. DEFINE i == u.ends[t - 1]
    <3>6. i \in Nat /\ i =< len /\ u.ends[t] = len
      <4>1. t =< l /\ l # SCHEME
        BY <1>10, <2>4
      <4>2. i \in Nat /\ u.ends[t] = len
        BY <1>1, <1>20, <2>1, <2>4, <4>1
      <4>. QED  BY <3>5, <4>1, <4>2 DEF PieceFacts
    <3>7. Piece(u, t) = Slice(u.norm, i, len)
      BY <3>5, <3>6, PieceSlice
    <3>8. Piece(v, t) = Slice(text, i, n)
      BY <2>3, <3>3
    <3>. HIDE DEF i
    <3>9. Slice(text, i, len) = Slice(u.norm, i, len)
      <4>1. len =< len
        BY <1>1
      <4>. QED  BY <1>1, <1>18, <3>6, <4>1
    <3>10. Slice(text, i, len) \o Slice(text, len, n) = Slice(text, i, n)
      <4>1. n =< n /\ len =< n
        BY <1>1, <1>15
      <4>. QED  BY <1>1, <1>15, <1>19, <3>6, <4>1
    <3>. QED  BY <1>17, <2>4, <3>2, <3>4, <3>7, <3>8, <3>9, <3>10
  <2>5. CASE l = t - 1
    <3>1. l # t /\ l # SCHEME /\ ~(l < t - 1)
      BY <1>10, <2>5
    <3>2. v.ends[t - 1] = len
      BY <1>7, <1>9, <1>20, <2>1, <2>5, <3>1
    <3>3. Piece(v, t) = sep \o R
      <4>1. Slice(text, len, n1) \o Slice(text, n1, n) = Slice(text, len, n)
        <5>1. n =< n
          BY <1>15
        <5>. QED  BY <1>1, <1>15, <1>19, <5>1
      <4>. QED  BY <1>16, <1>17, <2>3, <3>2, <4>1
    <3>4. CASE l = USERNAME /\ t = PASSWORD
      <4>1. Lead(t) = <<>> /\ sep = <<":">>
        BY <1>25, <3>4, PartNumbers DEF Lead
      <4>2. R = s
        BY <4>1, JoinEmpty DEF R
      <4>. QED  BY <3>1, <3>3, <3>4, <4>1, <4>2
    <3>5. CASE ~(l = USERNAME /\ t = PASSWORD)
      <4>1. ~(l \in {USERNAME, PASSWORD} /\ t = HOST)
        BY <1>10, <2>5, PartNumbers
      <4>2. sep = <<>>
        BY <1>25, <3>1, <3>5, <4>1
      <4>3. Piece(v, t) = R
        BY <1>4, <3>3, <4>2, JoinEmpty
      <4>. QED  BY <3>1, <3>5, <4>3 DEF R
    <3>. QED  BY <3>4, <3>5
  <2>6. CASE l < t - 1
    <3>1. l # t /\ ~(l = USERNAME /\ t = PASSWORD)
      BY <1>10, <2>6, PartNumbers
    <3>2. ~(l = USERNAME /\ t - 1 = PASSWORD)
      BY <1>10, PartNumbers
    <3>3. v.ends[t - 1] = n1
      BY <1>7, <1>9, <2>1, <2>6, <3>2
    <3>. QED  BY <1>17, <2>3, <3>1, <3>3 DEF R
  <2>7. l = t \/ l = t - 1 \/ l < t - 1
    BY <1>10, <1>11
  <2>. QED  BY <2>4, <2>5, <2>6, <2>7
<1>28. \A p \in Part : l < p /\ p < t =>
          Piece(v, p) = IF p = SCHEME_SEP THEN <<":">> \o Separator(l, t)
                        ELSE IF p = HOST_START /\ l \in {USERNAME, PASSWORD} /\ t = HOST
                        THEN <<"@">> ELSE <<>>
  BY <1>8, <1>26
<1>29. \A p \in Part : p =< l /\ p # t => Piece(v, p) = Piece(u, p)
  BY <1>21
<1>30. \A p \in Part : p > t => Piece(v, p) = <<>>
  BY <1>22
<1>. QED  BY <1>27, <1>28, <1>29, <1>30 DEF PiecesAppended, v

\* v is u up to the end of the part k.
SamePrefix(u, v, k) ==
    /\ \A t \in Part : t =< k => v.ends[t] = u.ends[t]
    /\ \A i \in 1 .. u.ends[k] : v.norm[i] = u.norm[i]

LEMMA PrefixPieces ==
    ASSUME NEW u \in Url, NEW l \in Part, EndsUpTo(u, l),
           NEW v \in Url, NEW m \in Part, EndsUpTo(v, m),
           NEW k \in Part, k =< l, k =< m, SamePrefix(u, v, k),
           NEW t \in Part, t =< k
    PROVE  Piece(v, t) = Piece(u, t)
<1>1. t =< l /\ t =< m /\ k \in Int /\ t \in Int /\ (t # SCHEME => t - 1 \in Part /\ t - 1 =< k)
  BY PartInt
<1>2. PieceFacts(u, l, t) /\ PieceFacts(v, m, t) /\ PieceFacts(u, l, k)
  BY PiecesAre
<1>. DEFINE p == PartPos(u, t)
            q == u.ends[t]
<1>3. PartPos(v, t) = p /\ v.ends[t] = q
  BY <1>1 DEF SamePrefix, PartPos
<1>4. Piece(u, t) = Slice(u.norm, p, q) /\ Piece(v, t) = Slice(v.norm, p, q)
  BY <1>3, PieceSlice
<1>5. p \in Nat /\ q \in Nat /\ p =< q /\ q =< Len(u.norm)
  BY <1>1, <1>2 DEF PieceFacts
<1>6. q =< Len(v.norm)
  BY <1>1, <1>2, <1>3 DEF PieceFacts
<1>7. q =< u.ends[k] /\ u.ends[k] \in Nat
  <2>1. InOrder(u.ends, Len(u.norm), l)
    BY DEF EndsUpTo
  <2>2. \A s, r \in Part : s =< r /\ r =< l => u.ends[s] =< u.ends[r]
    BY <2>1 DEF InOrder
  <2>. QED  BY <2>2, UrlType
<1>8. u.norm \in Text /\ v.norm \in Text
  BY UrlType
<1>. HIDE DEF p, q
<1>9. \A i \in 1 .. q - p : v.norm[p + i] = u.norm[p + i]
  <2>1. \A i \in 1 .. q - p : p + i \in 1 .. u.ends[k]
    BY <1>5, <1>7
  <2>. QED  BY <2>1 DEF SamePrefix
<1>10. SameAt(v.norm, p, q, u.norm, p, q)
  BY <1>5, <1>6, <1>8, <1>9 DEF SameAt, InText
<1>. QED  BY <1>4, <1>10, SlicesEqual

\* The pieces of v are those of u up to the part k, and the last is m.
PiecesKept(u, v, k, m) ==
    /\ \A t \in Part : t =< k => Piece(v, t) = Piece(u, t)
    /\ \A t \in Part : t > m => Piece(v, t) = <<>>

LEMMA PiecesBehind ==
    ASSUME NEW u \in Url, NEW l \in Part, EndsUpTo(u, l)
    PROVE  \A t \in Part : t > l => Piece(u, t) = <<>>
BY PiecesAre DEF PieceFacts

LEMMA CutPieces ==
    ASSUME NEW u \in Url, NEW l \in Part, Ordered(u, l),
           NEW t \in Part, t =< l, t > USERNAME
    PROVE  PiecesKept(u, CutBefore(u, t), t - 1, t - 1)
<1>. DEFINE v == CutBefore(u, t)
            m == t - 1
<1>1. /\ v \in Url /\ Ordered(v, t - 1) /\ v.norm = SubSeq(u.norm, 1, u.ends[t - 1])
      /\ \A p \in Part : v.ends[p] = IF p < t THEN u.ends[p] ELSE 0
  BY CutBeforeSound
<1>2. t - 1 \in Part /\ t - 1 =< l /\ t - 1 =< t - 1 /\ \A p \in Part : p =< t - 1 => p < t
  <2>1. t # SCHEME /\ t \in Int /\ l \in Int /\ \A p \in Part : p \in Int
    BY PartInt, PartNumbers
  <2>2. t - 1 \in Part
    BY <2>1, PartInt
  <2>. QED  BY <2>1, <2>2
<1>3. \A i \in 1 .. u.ends[t - 1] : v.norm[i] = u.norm[i]
  <2>1. u.ends[t - 1] =< Len(u.norm) /\ u.norm \in Text /\ u.ends[t - 1] \in Nat
    BY <1>2, OrderedFacts, UrlType
  <2>. QED  BY <1>1, <2>1, PrefixText
<1>4. SamePrefix(u, v, t - 1)
  BY <1>1, <1>2, <1>3 DEF SamePrefix
<1>5. EndsUpTo(u, l) /\ EndsUpTo(v, t - 1)
  BY <1>1 DEF Ordered
<1>6. m = t - 1 /\ m \in Part /\ m =< l /\ m =< m /\ EndsUpTo(v, m) /\ SamePrefix(u, v, m)
  BY <1>2, <1>4, <1>5
<1>. HIDE DEF v, m
<1>7. \A p \in Part : p =< m => Piece(v, p) = Piece(u, p)
  BY <1>1, <1>5, <1>6, PrefixPieces
<1>8. \A p \in Part : p > m => Piece(v, p) = <<>>
  BY <1>1, <1>6, PiecesBehind
<1>. QED  BY <1>6, <1>7, <1>8 DEF PiecesKept, v

\* The trailing spaces of an opaque path that ends the URL are cut off.
LEMMA StrippedPieces ==
    ASSUME NEW u \in Url, NEW l \in Part, CompleteUpTo(u, l), HasOpaquePath(u),
           NEW len \in Nat, len =< Len(u.norm), u.ends[SCHEME] + 1 =< len
    PROVE  LET v == [u EXCEPT !.norm = SubSeq(@, 1, len),
                              !.ends = [t \in Part |->
                                    IF t >= PATH /\ \A s \in PATH .. t : @[s] # 0
                                    THEN len ELSE @[t]]]
           IN PiecesKept(u, v, PATH_PREFIX, PATH)
<1>. DEFINE v == [u EXCEPT !.norm = SubSeq(@, 1, len),
                           !.ends = [t \in Part |->
                                    IF t >= PATH /\ \A s \in PATH .. t : @[s] # 0
                                    THEN len ELSE @[t]]]
<1>1. /\ v \in Url /\ CompleteUpTo(v, l) /\ v.norm = SubSeq(u.norm, 1, len)
      /\ \A t \in Part : PATH_PREFIX < t /\ t =< l => v.ends[t] = len
      /\ \A t \in Part : ~(PATH_PREFIX < t /\ t =< l) => v.ends[t] = u.ends[t]
  BY StrippedSound
<1>. HIDE DEF v
<1>2. EndsUpTo(u, l) /\ EndsUpTo(v, l) /\ HostAgrees(u, l) /\ Ordered(u, l)
  BY <1>1, CompleteFacts DEF Ordered
<1>3. l >= PATH /\ u.ends[PATH_PREFIX] = u.ends[SCHEME] + 1 /\ IsNull(u, HOST)
  <2>1. IsNull(u, HOST)
    BY <1>2 DEF HostAgrees
  <2>2. l >= PATH
    BY <2>1 DEF CompleteUpTo
  <2>3. l >= PATH_PREFIX
    BY <2>2, PartInt, PartNumbers
  <2>. QED  BY <1>2, <2>1, <2>2, <2>3 DEF HostAgrees
<1>4. /\ PATH_PREFIX \in Part /\ PATH_PREFIX =< l /\ PATH \in Part
      /\ \A t \in Part : t =< PATH_PREFIX => ~(PATH_PREFIX < t /\ t =< l)
      /\ \A t \in Part : t > PATH => t # SCHEME /\ t - 1 \in Part /\ PATH_PREFIX < t
                                     /\ PATH_PREFIX < t - 1 /\ (t =< l => t - 1 =< l)
      /\ \A t \in Part : t > l \/ t =< l
  <2>1. /\ PATH_PREFIX = 7 /\ PATH = 8 /\ SCHEME = 0 /\ l \in Int
        /\ PATH_PREFIX \in Part /\ PATH \in Part
        /\ \A t \in Part : t \in Int
        /\ \A t \in Part : t # SCHEME => t - 1 \in Part
    BY PartInt, PartNumbers
  <2>2. PATH_PREFIX =< l
    BY <1>3, <2>1
  <2>3. \A t \in Part : t =< PATH_PREFIX => ~(PATH_PREFIX < t /\ t =< l)
    BY <2>1
  <2>4. \A t \in Part : t > PATH => t # SCHEME /\ PATH_PREFIX < t
                                   /\ PATH_PREFIX < t - 1 /\ (t =< l => t - 1 =< l)
    BY <2>1
  <2>5. \A t \in Part : t > l \/ t =< l
    BY <2>1
  <2>. QED  BY <2>1, <2>2, <2>3, <2>4, <2>5
<1>5. \A i \in 1 .. u.ends[PATH_PREFIX] : v.norm[i] = u.norm[i]
  <2>1. u.norm \in Text /\ \A i \in 1 .. len : v.norm[i] = u.norm[i]
    BY <1>1, PrefixText, UrlType
  <2>2. u.ends[PATH_PREFIX] \in Nat
    BY <1>4, UrlType
  <2>3. \A i \in 1 .. u.ends[PATH_PREFIX] : i \in 1 .. len
    BY <1>3, <2>2
  <2>. QED  BY <2>1, <2>3
<1>6. SamePrefix(u, v, PATH_PREFIX)
  BY <1>1, <1>4, <1>5 DEF SamePrefix
<1>7. \A t \in Part : t =< PATH_PREFIX => Piece(v, t) = Piece(u, t)
  BY <1>1, <1>2, <1>4, <1>6, PrefixPieces
<1>8. ASSUME NEW t \in Part, t > PATH PROVE Piece(v, t) = <<>>
  <2>1. CASE t > l
    BY <1>1, <1>2, <2>1, PiecesBehind
  <2>2. CASE t =< l
    <3>1. v.ends[t] = len /\ PartPos(v, t) = len
      BY <1>1, <1>4, <1>8, <2>2 DEF PartPos
    <3>2. len \in Int /\ len =< len
      OBVIOUS
    <3>. QED  BY <3>1, <3>2, PieceSlice, SliceEmpty
  <2>. QED  BY <1>4, <2>1, <2>2
<1>. QED  BY <1>7, <1>8 DEF PiecesKept, v

\* The last segment of the path is cut off.
LEMMA PathCutPieces ==
    ASSUME NEW u \in Url, Sound(u, PATH), ~HasOpaquePath(u), u.segs > 0
    PROVE  LET end == RemLastEnd(u)
               v == [u EXCEPT !.norm = SubSeq(@, 1, end), !.ends[PATH] = end,
                              !.segs = @ - 1]
           IN PiecesKept(u, v, PATH_PREFIX, PATH)
<1>. DEFINE end == RemLastEnd(u)
            v == [u EXCEPT !.norm = SubSeq(@, 1, end), !.ends[PATH] = end,
                           !.segs = @ - 1]
<1>1. v \in Url /\ Sound(v, PATH)
  BY PathCut
<1>2. /\ u.norm \in Text /\ Len(u.norm) \in Nat /\ u.ends \in [Part -> Nat]
      /\ \A t \in Part : u.ends[t] \in Nat
  BY UrlType
<1>3. /\ PATH_PREFIX \in Part /\ PATH \in Part /\ PATH_PREFIX =< PATH /\ PATH >= PATH
      /\ \A t \in Part : t =< PATH_PREFIX => t # PATH
  BY PartInt, PartNumbers
<1>4. EndsUpTo(u, PATH) /\ EndsUpTo(v, PATH) /\ Ordered(u, PATH)
  BY <1>1 DEF Sound, Ordered
<1>5. /\ end \in Nat /\ u.ends[PATH_PREFIX] =< end /\ end =< Len(u.norm)
  <2>1. end \in Nat /\ u.ends[PATH_PREFIX] =< end /\ end =< u.ends[PATH]
    BY <1>3, <1>4, RemLastEndRange
  <2>2. u.ends[PATH] =< Len(u.norm) /\ u.ends[PATH] \in Nat
    BY <1>2, <1>3, <1>4, OrderedFacts
  <2>. HIDE DEF end
  <2>. QED  BY <1>2, <2>1, <2>2
<1>6. v.norm = SubSeq(u.norm, 1, end) /\ \A t \in Part : t # PATH => v.ends[t] = u.ends[t]
  <2>. HIDE DEF end
  <2>. QED  BY <1>2 DEF Url
<1>. HIDE DEF v, end
<1>7. SamePrefix(u, v, PATH_PREFIX)
  <2>1. \A i \in 1 .. end : v.norm[i] = u.norm[i]
    BY <1>2, <1>5, <1>6, PrefixText
  <2>2. u.ends[PATH_PREFIX] \in Nat
    BY <1>2, <1>3
  <2>3. \A i \in 1 .. u.ends[PATH_PREFIX] : i \in 1 .. end
    BY <1>5, <2>2
  <2>. QED  BY <1>3, <1>6, <2>1, <2>3 DEF SamePrefix
<1>8. \A t \in Part : t =< PATH_PREFIX => Piece(v, t) = Piece(u, t)
  BY <1>1, <1>3, <1>4, <1>7, PrefixPieces
<1>9. \A t \in Part : t > PATH => Piece(v, t) = <<>>
  BY <1>1, <1>3, <1>4, PiecesBehind
<1>. QED  BY <1>8, <1>9 DEF PiecesKept, v, end

\* The texts of the other parts stay when the scheme is replaced.
LEMMA SchemeReplacedPieces ==
    ASSUME NEW u \in Url, NEW l \in Part, CompleteUpTo(u, l),
           NEW str \in Text, str # <<>>,
           GetSchemeInfo(str).special = u.inf.special,
           NEW t \in Part, t # SCHEME
    PROVE  LET w == ReplacePart(u, SCHEME, str)
               v == [w EXCEPT !.ends[SCHEME] = Len(str), !.inf = GetSchemeInfo(str)]
           IN Piece(v, t) = Piece(u, t)
<1>. DEFINE e == u.ends[SCHEME]
            n == Len(str)
            rest == Slice(u.norm, e, Len(u.norm))
            w == ReplacePart(u, SCHEME, str)
            v == [w EXCEPT !.ends[SCHEME] = Len(str), !.inf = GetSchemeInfo(str)]
<1>1. /\ v \in Url /\ CompleteUpTo(v, l) /\ v.norm = str \o rest
      /\ \A p \in Part : v.ends[p] = IF p =< l THEN u.ends[p] + n - e ELSE u.ends[p]
  BY SchemeReplaced DEF Slice
<1>. HIDE DEF w, v
<1>2. EndsUpTo(u, l) /\ EndsUpTo(v, l) /\ Ordered(u, l)
  BY <1>1, CompleteFacts DEF Ordered
<1>3. u.norm \in Text /\ Len(u.norm) \in Nat /\ \A p \in Part : u.ends[p] \in Nat
  BY UrlType
<1>4. /\ t - 1 \in Part /\ SCHEME \in Part /\ SCHEME =< t - 1 /\ t \in Int /\ l \in Int
      /\ t - 1 =< t /\ (t =< l => t - 1 =< l)
  BY PartInt, PartNumbers
<1>5. n \in Nat /\ e \in Nat /\ n = Len(str)
  BY <1>3, <1>4 DEF Text
<1>6. t > l => Piece(v, t) = Piece(u, t)
  BY <1>1, <1>2, PiecesBehind
<1>7. ASSUME t =< l PROVE Piece(v, t) = Piece(u, t)
  <2>. DEFINE a == u.ends[t - 1]
              b == u.ends[t]
  <2>1. e =< a /\ a =< b /\ b =< Len(u.norm)
    BY <1>2, <1>4, <1>7, OrderedFacts
  <2>2. a \in Nat /\ b \in Nat
    BY <1>3, <1>4
  <2>3. PartPos(v, t) = a + n - e /\ v.ends[t] = b + n - e /\ PartPos(u, t) = a
    BY <1>1, <1>4, <1>7 DEF PartPos
  <2>4. Piece(u, t) = Slice(u.norm, a, b) /\ Piece(v, t) = Slice(v.norm, a + n - e, b + n - e)
    BY <2>3, PieceSlice
  <2>. HIDE DEF a, b, n, e
  <2>. DEFINE i == a - e
              j == b - e
  <2>5. /\ i \in Nat /\ j \in Nat /\ i =< j /\ j =< Len(u.norm) - e
        /\ a = e + i /\ b = e + j /\ a + n - e = n + i /\ b + n - e = n + j
    BY <1>3, <1>5, <2>1, <2>2
  <2>. HIDE DEF i, j
  <2>6. InText(u.norm, e, Len(u.norm))
    BY <1>3, <1>5, <2>1, <2>2 DEF InText
  <2>7. rest \in Text /\ Len(rest) = Len(u.norm) - e
    BY <2>6, SliceText
  <2>8. InText(rest, i, j)
    BY <2>5, <2>7 DEF InText
  <2>9. Slice(rest, i, j) = Slice(u.norm, a, b)
    BY <2>5, <2>6, SliceOfSlice
  <2>. HIDE DEF rest
  <2>10. Slice(str \o rest, a + n - e, b + n - e) = Slice(rest, i, j)
    BY <1>5, <2>5, <2>8, SliceOfSecond
  <2>. QED  BY <1>1, <2>4, <2>9, <2>10
<1>. QED  BY <1>4, <1>6, <1>7 DEF v, w

\* Parts first .. last of src are appended to u, the last of them up to end.
PiecesCopied(u, v, l, src, first, last, end) ==
    /\ \A t \in Part : t =< l /\ t < first => Piece(v, t) = Piece(u, t)
    /\ \A t \in Part : l < t /\ t < first =>
          Piece(v, t) = IF t = SCHEME_SEP THEN <<":">> \o Separator(l, first) ELSE <<>>
    /\ \A t \in Part : first =< t /\ t < last => Piece(v, t) = Piece(src, t)
    /\ Piece(v, last) = Slice(src.norm, src.ends[last - 1], end)
    /\ \A t \in Part : t > last => Piece(v, t) = <<>>

LEMMA CopiedPieces ==
    ASSUME NEW u \in Url, NEW l \in Part, Ordered(u, l), NEW first, MayCopy(u, l, first),
           NEW src \in Url, NEW lb \in Part, Ordered(src, lb),
           NEW last \in Part, first =< last, last =< lb,
           NEW end \in Nat, src.ends[last - 1] =< end, end =< Len(src.norm),
           NEW segs \in Nat
    PROVE  PiecesCopied(u, CopiedUrl(u, l, src, first, last, end, segs),
                        l, src, first, last, end)
<1>. DEFINE M == StartNorm(u, l, first)
            G == StartEnds(u, l, first)
            n == Len(M)
            o == src.ends[first - 1]
            C == Slice(src.norm, o, end)
            v == CopiedUrl(u, l, src, first, last, end, segs)
            w == AppendedUrl(u, l, first, C)
<1>1. /\ first \in Part /\ first # SCHEME /\ l =< first
      /\ l = SCHEME \/ (l = HOST /\ first >= HOST)
      /\ first \in {USERNAME, HOST, PATH_PREFIX, PATH} /\ l \in {SCHEME, HOST}
      /\ Lead(first) = <<>> /\ l # USERNAME
      /\ l < first \/ (l = HOST /\ first = HOST /\ IsEmpty(u, HOST))
  BY MayCopyFacts DEF MayCopy
<1>2. v.norm = M \o C /\ v \in Url /\ Ordered(v, last)
  <2>1. v.norm = M \o C
    BY DEF CopiedUrl, Slice, Url
  <2>2. Copied(u, v, l, first, last)
    BY CopiedUrlSound
  <2>. QED  BY <2>1, <2>2 DEF Copied, Rewritten
<1>3. \A t \in Part : v.ends[t] = IF first =< t /\ t < last THEN src.ends[t] + (n - o)
                                  ELSE IF t = last THEN end + (n - o)
                                  ELSE G[t]
  BY DEF CopiedUrl, Url
<1>4. /\ u.norm \in Text /\ src.norm \in Text /\ Len(u.norm) \in Nat /\ Len(src.norm) \in Nat
      /\ \A t \in Part : u.ends[t] \in Nat /\ src.ends[t] \in Nat
  BY UrlType
<1>5. M \in Text /\ M = u.norm \o Separator(l, first) /\ n \in Nat
  <2>1. M = u.norm \o Separator(l, first) /\ Separator(l, first) \in Text
    BY LeadText DEF StartNorm
  <2>2. M \in Text
    BY <1>4, <2>1, ConcatText
  <2>. HIDE DEF M
  <2>. QED  BY <2>1, <2>2 DEF Text
<1>6. /\ \A t \in Part : t \in Int
      /\ \A t \in Part : t # SCHEME => t - 1 \in Part
      /\ \A t \in Part : SCHEME =< t
      /\ SCHEME = 0
  BY PartInt, PartNumbers
<1>7. \A t \in Part : G[t] = IF ~(l < t /\ t < first) THEN u.ends[t] ELSE n
  <2>1. \A p \in Part : p \in Skipped(l, first) <=> l < p /\ p < first
    BY <1>1, PartInt DEF Skipped
  <2>2. n = Len(StartNorm(u, l, first))
    OBVIOUS
  <2>. HIDE DEF n, M
  <2>. QED  BY <1>1, <2>1, <2>2 DEF StartEnds
<1>8. \A t \in Part : t < first => w.ends[t] = G[t]
  <2>1. \A t \in Part : t < first => t # first
    BY <1>1, <1>6
  <2>. QED  BY <1>1, <2>1 DEF AppendedUrl, StartEnds, StartNorm, Url
<1>9. /\ first - 1 \in Part /\ o \in Nat /\ o =< end
      /\ \A s, t \in Part : s =< t /\ t =< lb => src.ends[s] =< src.ends[t]
  <2>1. first - 1 \in Part /\ last - 1 \in Part /\ first - 1 =< last - 1 /\ last - 1 =< lb
    <3>1. last # SCHEME /\ lb \in Int
      BY <1>1, <1>6
    <3>. QED  BY <1>1, <1>6, <3>1
  <2>2. \A s, t \in Part : s =< t /\ t =< lb => src.ends[s] =< src.ends[t]
    BY OrderedFacts
  <2>3. src.ends[first - 1] \in Nat /\ src.ends[last - 1] \in Nat
        /\ src.ends[first - 1] =< src.ends[last - 1]
    BY <1>4, <2>1, <2>2
  <2>. QED  BY <2>1, <2>2, <2>3
<1>10. w.norm = M \o C
  <2>1. M \o <<>> = M
    BY <1>5, JoinEmpty
  <2>. QED  BY <1>1, <2>1 DEF AppendedUrl, StartNorm, Url
<1>11. C \in Text /\ Len(C) = end - o /\ InText(src.norm, o, end)
  <2>. HIDE DEF o
  <2>1. InText(src.norm, o, end)
    BY <1>4, <1>9 DEF InText
  <2>. QED  BY <2>1, SliceText
<1>12. n = Len(M) /\ C = Slice(src.norm, o, end) /\ o = src.ends[first - 1]
  OBVIOUS
<1>. HIDE DEF M, G, n, o, C, v, w
<1>13. PiecesAppended(u, w, l, first, C)
  <2>1. first > SCHEME_SEP /\ first # HOST_START /\ (l < first \/ (l = first /\ first \in {HOST, PATH}))
    BY <1>1, PartNumbers
  <2>. QED  BY <1>1, <1>11, <2>1, AppendedPieces DEF w
<1>14. ASSUME NEW t \in Part, t < first PROVE Piece(v, t) = Piece(w, t)
  <2>1. t < last /\ ~(first =< t) /\ t # last
    BY <1>1, <1>6, <1>14
  <2>2. v.ends[t] = w.ends[t]
    BY <1>3, <1>8, <1>14, <2>1
  <2>3. PartPos(v, t) = PartPos(w, t)
    <3>1. CASE t = SCHEME
      BY <3>1 DEF PartPos
    <3>2. CASE t # SCHEME
      <4>1. t - 1 \in Part /\ t - 1 < first /\ ~(first =< t - 1) /\ t - 1 # last
        BY <1>1, <1>6, <1>14, <3>2
      <4>2. v.ends[t - 1] = w.ends[t - 1]
        BY <1>3, <1>8, <4>1
      <4>. QED  BY <3>2, <4>2 DEF PartPos
    <3>. QED  BY <3>1, <3>2
  <2>. QED  BY <1>2, <1>10, <2>2, <2>3 DEF Piece
<1>15. \A t \in Part : t =< l /\ t < first => Piece(v, t) = Piece(u, t)
  <2>1. \A t \in Part : t < first => t # first
    BY <1>1, <1>6
  <2>. QED  BY <1>13, <1>14, <2>1 DEF PiecesAppended
<1>16. \A t \in Part : l < t /\ t < first =>
          Piece(v, t) = IF t = SCHEME_SEP THEN <<":">> \o Separator(l, first) ELSE <<>>
  <2>1. l \notin {USERNAME, PASSWORD}
    BY <1>1, PartNumbers
  <2>. QED  BY <1>13, <1>14, <2>1 DEF PiecesAppended
<1>17. v.ends[first - 1] = n
  <2>1. ~(first =< first - 1) /\ first - 1 # last
    BY <1>1, <1>6
  <2>2. v.ends[first - 1] = G[first - 1]
    BY <1>3, <1>9, <2>1
  <2>3. CASE l < first
    <3>1. l < first - 1 /\ first - 1 < first
      BY <1>1, <2>3, PartNumbers
    <3>. QED  BY <1>7, <1>9, <2>2, <3>1
  <2>4. CASE l = HOST /\ first = HOST /\ IsEmpty(u, HOST)
    <3>1. first - 1 = HOST_START /\ ~(l < first - 1) /\ HOST_START =< HOST
          /\ HOST_START \in Part /\ HOST \in Part /\ HOST # SCHEME
      BY <2>4, PartNumbers
    <3>2. v.ends[first - 1] = u.ends[HOST_START]
      BY <1>7, <1>9, <2>2, <3>1
    <3>3. u.ends[HOST_START] + 0 >= u.ends[HOST]
      BY <2>4, HostIsEmpty
    <3>4. u.ends[HOST_START] =< u.ends[HOST] /\ u.ends[HOST] = Len(u.norm)
      <4>1. HOST =< HOST
        BY PartNumbers
      <4>. QED  BY <2>4, <3>1, <4>1, OrderedFacts
    <3>5. Separator(l, first) = <<>>
      BY <2>4, PartNumbers DEF Separator
    <3>6. M = u.norm
      BY <1>4, <1>5, <3>5, JoinEmpty
    <3>. QED  BY <1>4, <1>12, <3>1, <3>2, <3>3, <3>4, <3>6
  <2>. QED  BY <1>1, <2>3, <2>4
<1>18. ASSUME NEW a \in Nat, NEW b \in Nat, o =< a, a =< b, b =< end
       PROVE  Slice(v.norm, n + (a - o), n + (b - o)) = Slice(src.norm, a, b)
  <2>. DEFINE i == a - o
              j == b - o
              p == n + (a - o)
              q == n + (b - o)
  <2>1. /\ i \in Nat /\ j \in Nat /\ i =< j /\ j =< end - o /\ a = o + i /\ b = o + j
        /\ p = n + i /\ q = n + j
    BY <1>5, <1>9, <1>18
  <2>. HIDE DEF i, j, p, q
  <2>2. InText(C, i, j)
    BY <1>11, <2>1 DEF InText
  <2>3. Slice(M \o C, p, q) = Slice(C, i, j)
    <3>1. p = Len(M) + i
      BY <1>12, <2>1
    <3>2. q = Len(M) + j
      BY <1>12, <2>1
    <3>3. M \in Text
      BY <1>5
    <3>. QED  BY <2>2, <3>1, <3>2, <3>3, SliceOfSecond
  <2>4. Slice(C, i, j) = Slice(src.norm, a, b)
    BY <1>11, <1>12, <2>1, SliceOfSlice
  <2>. QED  BY <1>2, <2>3, <2>4 DEF p, q
<1>19. ASSUME NEW t \in Part, first =< t, t =< last
       PROVE  Piece(v, t) = Slice(src.norm, src.ends[t - 1],
                                  IF t = last THEN end ELSE src.ends[t])
  <2>1. t # SCHEME /\ t - 1 \in Part /\ t - 1 < last /\ t - 1 # last /\ (t # last => t < last)
        /\ (t # first => first =< t - 1) /\ t - 1 =< t /\ t - 1 =< last - 1 /\ t =< lb
        /\ first - 1 =< t - 1 /\ t - 1 =< lb /\ last - 1 =< lb /\ last - 1 \in Part
        /\ (t # last => t =< last - 1)
    <3>1. lb \in Int /\ t # SCHEME /\ last # SCHEME
      BY <1>1, <1>6, <1>19
    <3>. QED  BY <1>1, <1>6, <1>19, <3>1
  <2>. DEFINE a == src.ends[t - 1]
              b == IF t = last THEN end ELSE src.ends[t]
  <2>2. a \in Nat /\ b \in Nat
    BY <1>4, <2>1
  <2>3. o =< a
    BY <1>9, <1>12, <2>1
  <2>4. a =< b
    <3>1. a =< src.ends[t] /\ a =< src.ends[last - 1]
      BY <1>9, <2>1
    <3>2. src.ends[last - 1] \in Nat
      BY <1>4, <2>1
    <3>. QED  BY <2>2, <3>1, <3>2
  <2>5. b =< end
    <3>1. t # last => src.ends[t] =< src.ends[last - 1]
      BY <1>9, <2>1
    <3>2. src.ends[last - 1] \in Nat /\ src.ends[t] \in Nat
      BY <1>4, <2>1
    <3>. QED  BY <3>1, <3>2
  <2>6. PartPos(v, t) = n + (a - o)
    <3>1. CASE t = first
      <4>1. a = o
        BY <1>12, <3>1
      <4>2. n = n + (a - o)
        BY <1>5, <1>9, <4>1
      <4>3. PartPos(v, t) = v.ends[first - 1]
        BY <1>1, <3>1 DEF PartPos
      <4>. QED  BY <1>17, <4>2, <4>3
    <3>2. CASE t # first
      <4>1. v.ends[t - 1] = a + (n - o)
        BY <1>3, <2>1, <3>2
      <4>2. PartPos(v, t) = v.ends[t - 1]
        BY <2>1 DEF PartPos
      <4>. HIDE DEF a
      <4>. QED  BY <1>5, <1>9, <2>2, <4>1, <4>2
    <3>. QED  BY <3>1, <3>2
  <2>7. v.ends[t] = n + (b - o)
    <3>1. t = last => v.ends[t] = end + (n - o)
      <4>1. last \in Int /\ ~(last < last)
        BY <1>6
      <4>. QED  BY <1>3, <4>1
    <3>2. t # last => v.ends[t] = src.ends[t] + (n - o)
      BY <1>3, <1>19, <2>1
    <3>3. v.ends[t] = b + (n - o)
      BY <3>1, <3>2
    <3>. HIDE DEF b
    <3>. QED  BY <1>5, <1>9, <2>2, <3>3
  <2>8. Piece(v, t) = Slice(v.norm, n + (a - o), n + (b - o))
    BY <2>6, <2>7, PieceSlice
  <2>. HIDE DEF a, b
  <2>9. Piece(v, t) = Slice(src.norm, a, b)
    BY <1>18, <2>2, <2>3, <2>4, <2>5, <2>8
  <2>. QED  BY <2>9 DEF a, b
<1>20. \A t \in Part : first =< t /\ t < last => Piece(v, t) = Piece(src, t)
  <2>1. \A t \in Part : first =< t /\ t < last => t =< last /\ t # last /\ t # SCHEME
    BY <1>1, <1>6
  <2>2. \A t \in Part : t # SCHEME => Piece(src, t) = Slice(src.norm, src.ends[t - 1], src.ends[t])
    BY PieceSlice DEF PartPos
  <2>. QED  BY <1>19, <2>1, <2>2
<1>21. Piece(v, last) = Slice(src.norm, src.ends[last - 1], end)
  <2>1. last =< last
    BY <1>6
  <2>. QED  BY <1>19, <2>1
<1>22. \A t \in Part : t > last => Piece(v, t) = <<>>
  BY <1>2, PiecesBehind DEF Ordered
<1>. QED  BY <1>15, <1>16, <1>20, <1>21, <1>22 DEF PiecesCopied, v

-----------------------------------------------------------------------------
(* What the getters say, in terms of the texts of the parts.               *)

\* Piece(v, t) = Piece(u, t) for the parts that are not in T.
SameBut(u, v, T) == \A t \in Part : t \notin T => Piece(v, t) = Piece(u, t)

\* A part is empty if it has no more than its leading character.
LEMMA PieceEmpty ==
    ASSUME NEW u \in Url, NEW l \in Part, EndsUpTo(u, l), NEW t \in Part
    PROVE  /\ IsEmpty(u, t) <=> Len(Piece(u, t)) =< PartStart(t)
           /\ PartStart(t) = 0 => (IsEmpty(u, t) <=> Piece(u, t) = <<>>)
           /\ Piece(u, t) \in Text /\ Len(Piece(u, t)) \in Nat
<1>. DEFINE P == Piece(u, t)
            a == PartPos(u, t)
            b == u.ends[t]
            n == PartStart(t)
<1>1. PieceFacts(u, l, t)
  BY PiecesAre
<1>2. /\ a \in Nat /\ b \in Nat /\ P \in Text
      /\ t > l => b = 0 /\ P = <<>>
      /\ t =< l => a =< b /\ Len(P) = b - a
  BY <1>1 DEF PieceFacts
<1>3. n \in {0, 1}
  BY DEF PartStart
<1>4. t > l \/ t =< l
  BY PartInt
<1>5. IsEmpty(u, t) <=> a + n >= b
  BY DEF IsEmpty
<1>. HIDE DEF P, a, b, n
<1>6. Len(P) \in Nat /\ (P = <<>> <=> Len(P) = 0)
  BY <1>2 DEF Text
<1>7. a + n >= b <=> Len(P) =< n
  BY <1>2, <1>3, <1>4, <1>6
<1>8. n = 0 => (Len(P) =< n <=> P = <<>>)
  BY <1>6
<1>. QED  BY <1>2, <1>5, <1>6, <1>7, <1>8 DEF P, n

\* The view of a part is its text without the leading character.
LEMMA PieceView ==
    ASSUME NEW u \in Url, NEW l \in Part, EndsUpTo(u, l), NEW t \in Part
    PROVE  /\ PartStart(t) = 0 => View(u, t) = Piece(u, t)
           /\ PartStart(t) = 1 /\ Piece(u, t) # <<>> => View(u, t) = Tail(Piece(u, t))
           /\ PartStart(t) = 1 /\ Piece(u, t) = <<>> => View(u, t) = <<>>
<1>1. PartStart(t) = 0 => View(u, t) = Piece(u, t)
  <2>1. PieceFacts(u, l, t)
    BY PiecesAre
  <2>2. PartPos(u, t) \in Nat
    BY <2>1 DEF PieceFacts
  <2>3. PartPos(u, t) + 0 + 1 = PartPos(u, t) + 1
    BY <2>2
  <2>. QED  BY <2>3 DEF View, Piece
<1>2. ASSUME PartStart(t) = 1 PROVE View(u, t) = Slice(u.norm, PartPos(u, t) + 1, u.ends[t])
  BY <1>2 DEF View, Slice
<1>3. Piece(u, t) = Slice(u.norm, PartPos(u, t), u.ends[t])
  BY PieceSlice
<1>. DEFINE a == PartPos(u, t)
            b == u.ends[t]
            P == Piece(u, t)
<1>4. PieceFacts(u, l, t) /\ (t > l \/ t =< l)
  BY PiecesAre, PartInt
<1>5. /\ a \in Nat /\ b \in Nat /\ P \in Text
      /\ t > l => b = 0 /\ P = <<>>
      /\ t =< l => a =< b /\ Len(P) = b - a /\ b =< Len(u.norm)
  BY <1>4 DEF PieceFacts
<1>6. u.norm \in Text
  BY UrlType
<1>7. P = <<>> <=> Len(P) = 0
  BY <1>5 DEF Text
<1>. HIDE DEF a, b, P
<1>8. ASSUME P = <<>> PROVE Slice(u.norm, a + 1, b) = <<>>
  <2>1. a + 1 \in Int /\ b \in Int /\ b =< a + 1
    BY <1>4, <1>5, <1>7, <1>8
  <2>. QED  BY <2>1, SliceEmpty
<1>9. ASSUME P # <<>> PROVE Slice(u.norm, a + 1, b) = Tail(P)
  <2>1. a + 1 =< b /\ Len(P) = b - a /\ b =< Len(u.norm) /\ a + 1 \in Nat /\ Len(P) \in Nat
    BY <1>4, <1>5, <1>7, <1>9
  <2>2. InText(u.norm, a + 1, b) /\ InText(u.norm, a, b)
    BY <1>5, <1>6, <2>1 DEF InText
  <2>3. Tail(P) \in Text /\ Len(Tail(P)) = Len(P) - 1
    BY <1>5, <1>9, TailText
  <2>4. \A k \in 1 .. Len(P) - 1 : Tail(P)[k] = P[k + 1]
    BY <1>5, <1>9 DEF Text
  <2>5. P = Slice(u.norm, a, b)
    BY <1>3 DEF P, a, b
  <2>6. \A k \in 1 .. b - a : P[k] = u.norm[a + k]
    BY <2>2, <2>5, SliceText
  <2>. DEFINE T == Slice(u.norm, a + 1, b)
  <2>7. T \in Text /\ Len(T) = b - (a + 1) /\ \A k \in 1 .. b - (a + 1) : T[k] = u.norm[(a + 1) + k]
    BY <2>2, SliceText
  <2>. HIDE DEF T
  <2>8. Len(T) = Len(Tail(P))
    BY <1>5, <2>1, <2>3, <2>7
  <2>9. ASSUME NEW k \in 1 .. Len(T) PROVE T[k] = Tail(P)[k]
    <3>1. k \in 1 .. b - (a + 1) /\ k \in 1 .. Len(P) - 1 /\ k + 1 \in 1 .. b - a
          /\ (a + 1) + k = a + (k + 1)
      BY <1>5, <2>1, <2>7, <2>9
    <3>2. T[k] = u.norm[(a + 1) + k]
      BY <2>7, <3>1
    <3>3. Tail(P)[k] = P[k + 1] /\ P[k + 1] = u.norm[a + (k + 1)]
      BY <2>4, <2>6, <3>1
    <3>. QED  BY <3>1, <3>2, <3>3
  <2>10. T = Tail(P)
    BY <2>3, <2>7, <2>8, <2>9, TextsEqual
  <2>. QED  BY <2>10 DEF T
<1>. QED  BY <1>1, <1>2, <1>8, <1>9 DEF P, a, b

\* A text in its place has the same pieces, whatever the flags are.
LEMMA SamePieces ==
    ASSUME NEW u, NEW v, v.norm = u.norm, v.ends = u.ends
    PROVE  \A t : Piece(v, t) = Piece(u, t)
BY DEF Piece, PartPos

LEMMA UserinfoIsCredentials ==
    ASSUME NEW u \in Url, NEW l \in Part, EndsUpTo(u, l), PasswordFramed(u)
    PROVE  /\ HasCredentials(u) <=> HasUserinfo(u)
           /\ IsEmpty(u, USERNAME) <=> Piece(u, USERNAME) = <<>>
           /\ IsEmpty(u, PASSWORD) <=> Piece(u, PASSWORD) = <<>>
<1>1. USERNAME \in Part /\ PASSWORD \in Part /\ PartStart(USERNAME) = 0 /\ PartStart(PASSWORD) = 1
  BY PartNumbers DEF PartStart
<1>2. IsEmpty(u, USERNAME) <=> Piece(u, USERNAME) = <<>>
  BY <1>1, PieceEmpty
<1>3. IsEmpty(u, PASSWORD) <=> Piece(u, PASSWORD) = <<>>
  <2>. DEFINE P == Piece(u, PASSWORD)
  <2>1. (IsEmpty(u, PASSWORD) <=> Len(P) =< 1) /\ P \in Text /\ Len(P) \in Nat
    BY <1>1, PieceEmpty
  <2>2. P # <<>> => Len(P) > 1
    BY DEF PasswordFramed
  <2>. HIDE DEF P
  <2>3. P = <<>> => Len(P) =< 1
    BY <2>1 DEF Text
  <2>4. Len(P) =< 1 <=> P = <<>>
    BY <2>1, <2>2, <2>3
  <2>. QED  BY <2>1, <2>4 DEF P
<1>. QED  BY <1>2, <1>3 DEF HasCredentials, HasUserinfo

-----------------------------------------------------------------------------
(* The texts of the parts after an edit of one of them by url_setter.      *)

\* Nothing stands behind a part that ends where the text ends.
LEMMA PiecesAtEnd ==
    ASSUME NEW u \in Url, NEW l \in Part, Ordered(u, l), NEW t \in Part, t =< l,
           u.ends[t] >= Len(u.norm) \/ t = FRAGMENT
    PROVE  \A p \in Part : p > t => Piece(u, p) = <<>>
<1>. SUFFICES ASSUME NEW p \in Part, p > t PROVE Piece(u, p) = <<>>
  OBVIOUS
<1>1. p - 1 \in Part /\ t =< p - 1 /\ p # SCHEME /\ p \in Int /\ l \in Int /\ t \in Int
      /\ t # FRAGMENT
  BY PartInt, PartNumbers
<1>2. CASE p > l
  BY <1>2, PiecesBehind DEF Ordered
<1>3. CASE p =< l
  <2>1. u.ends[t] =< u.ends[p - 1] /\ u.ends[p] =< Len(u.norm)
    <3>1. p - 1 =< l
      BY <1>1, <1>3
    <3>. QED  BY <1>1, <1>3, <3>1, OrderedFacts
  <2>2. u.ends[t] \in Nat /\ u.ends[p - 1] \in Nat /\ u.ends[p] \in Nat /\ Len(u.norm) \in Nat
    BY <1>1, UrlType
  <2>3. u.ends[p] =< u.ends[p - 1]
    BY <1>1, <2>1, <2>2
  <2>4. Piece(u, p) = Slice(u.norm, u.ends[p - 1], u.ends[p])
    BY <1>1, PieceSlice DEF PartPos
  <2>. QED  BY <2>2, <2>3, <2>4, SliceEmpty
<1>. QED  BY <1>1, <1>2, <1>3

\* Part t is appended where all that stands behind it was cut off.
LEMMA CutAppendedPieces ==
    ASSUME NEW u \in Url, NEW l \in Part, Ordered(u, l),
           NEW t \in {HOST, PORT, QUERY, FRAGMENT}, t =< l,
           t = FRAGMENT \/ u.ends[t] >= Len(u.norm),
           NEW s \in Text
    PROVE  LET v == AppendedUrl(CutBefore(u, t), t - 1, t, s)
           IN SameBut(u, v, {t}) /\ Piece(v, t) = Lead(t) \o s
<1>. DEFINE w == CutBefore(u, t)
            v == AppendedUrl(w, t - 1, t, s)
<1>1. /\ t \in Part /\ t > USERNAME /\ t > SCHEME_SEP /\ t # HOST_START /\ t - 1 \in Part
      /\ t - 1 < t /\ t - 1 # t /\ t - 1 # USERNAME
  BY PartNumbers
<1>2. Ordered(w, t - 1) /\ w \in Url
  BY <1>1, CutBeforeSound
<1>3. PiecesKept(u, w, t - 1, t - 1)
  BY <1>1, CutPieces
<1>. HIDE DEF w
<1>4. PiecesAppended(w, v, t - 1, t, s)
  BY <1>1, <1>2, AppendedPieces
<1>. HIDE DEF v
<1>5. Piece(v, t) = Lead(t) \o s
  BY <1>1, <1>4 DEF PiecesAppended
<1>6. \A p \in Part : p > t => Piece(u, p) = <<>>
  BY <1>1, PiecesAtEnd
<1>7. ASSUME NEW p \in Part, p # t PROVE Piece(v, p) = Piece(u, p)
  <2>1. p =< t - 1 \/ p > t
    BY <1>1, <1>7, PartInt
  <2>2. CASE p =< t - 1
    BY <1>3, <1>4, <1>7, <2>2 DEF PiecesAppended, PiecesKept
  <2>3. CASE p > t
    BY <1>4, <1>6, <2>3 DEF PiecesAppended
  <2>. QED  BY <2>1, <2>2, <2>3
<1>. QED  BY <1>5, <1>7 DEF SameBut, v, w

\* Behind the parts that are set.
LEMMA BehindAppendedPieces ==
    ASSUME NEW u \in Url, NEW l \in Part, Ordered(u, l), l >= HOST,
           NEW t \in {PORT, QUERY, FRAGMENT}, l < t, NEW s \in Text
    PROVE  LET v == AppendedUrl(u, l, t, s)
           IN SameBut(u, v, {t}) /\ Piece(v, t) = Lead(t) \o s
<1>. DEFINE v == AppendedUrl(u, l, t, s)
<1>1. /\ t \in Part /\ t > SCHEME_SEP /\ t # HOST_START /\ l # USERNAME /\ l # t
      /\ l \in Int /\ \A p \in Part : p > l => p # SCHEME_SEP /\ p # HOST_START
  BY PartNumbers, PartInt
<1>2. PiecesAppended(u, v, l, t, s)
  BY <1>1, AppendedPieces
<1>. HIDE DEF v
<1>3. Piece(v, t) = Lead(t) \o s
  BY <1>1, <1>2 DEF PiecesAppended
<1>4. \A p \in Part : p > l => Piece(u, p) = <<>>
  BY PiecesBehind DEF Ordered
<1>5. ASSUME NEW p \in Part, p # t PROVE Piece(v, p) = Piece(u, p)
  <2>1. p =< l \/ (l < p /\ p < t) \/ (p > t /\ p > l)
    BY <1>1, <1>5, PartInt
  <2>2. CASE p =< l
    BY <1>2, <1>5, <2>2 DEF PiecesAppended
  <2>3. CASE l < p /\ p < t
    <3>1. Piece(v, p) = <<>>
      BY <1>1, <1>2, <2>3 DEF PiecesAppended
    <3>. QED  BY <1>4, <2>3, <3>1
  <2>4. CASE p > t /\ p > l
    BY <1>2, <1>4, <2>4 DEF PiecesAppended
  <2>. QED  BY <2>1, <2>2, <2>3, <2>4
<1>. QED  BY <1>3, <1>5 DEF SameBut, v

\* A port, query or fragment is written: no other part changes.
LEMMA EditedPieces ==
    ASSUME NEW u \in Url, NEW l \in Part, CompleteUpTo(u, l),
           NEW t \in {PORT, QUERY, FRAGMENT}, NEW s \in Text, t = PORT => s # <<>>,
           NEW v, EditedText(u, v, l, t, s)
    PROVE  SameBut(u, v, {t}) /\ Piece(v, t) = Lead(t) \o s
<1>1. Ordered(u, l) /\ l >= HOST
  BY CompleteFacts
<1>2. /\ t \in Part /\ t # SCHEME /\ t # HOST /\ t \notin {USERNAME, PASSWORD} /\ t =< t
      /\ t = FRAGMENT => t \notin {USERNAME, PASSWORD, HOST, PORT, QUERY}
      /\ t \in {HOST, PORT, QUERY, FRAGMENT}
  BY PartNumbers
<1>3. CASE l < t /\ v = AppendedUrl(u, l, t, s)
  BY <1>1, <1>3, BehindAppendedPieces
<1>4. CASE /\ t =< l /\ t \in {USERNAME, PASSWORD, HOST, PORT, QUERY}
           /\ v = SaveBuffered(u, t, BufferLead(u, t) \o s)
  <2>1. t \in {PORT, QUERY}
    BY <1>2, <1>4
  <2>2. BufferLead(u, t) = Lead(t)
    BY <2>1, PartNumbers DEF BufferLead, Lead
  <2>. DEFINE buf == Lead(t) \o s
  <2>3. buf \in Text /\ (t = PORT => Len(buf) > 1)
    <3>1. Lead(t) \in Text /\ (t = PORT => Lead(t) = <<":">>)
      <4>1. Lead(t) \in Text
        BY LeadText
      <4>2. t = PORT => Lead(t) = <<":">>
        BY PartNumbers DEF Lead
      <4>. QED  BY <4>1, <4>2
    <3>2. buf \in Text /\ Len(buf) = Len(Lead(t)) + Len(s)
      BY <3>1, ConcatText
    <3>3. t = PORT => Len(s) > 0
      BY DEF Text
    <3>. HIDE DEF buf
    <3>. QED  BY <3>1, <3>2, <3>3
  <2>. HIDE DEF buf
  <2>4. SaveBuffered(u, t, buf) = ReplaceParts(u, t, t, buf, 0)
    <3>1. t = PORT => ~(Len(buf) =< PartStart(t))
      <4>1. t = PORT => PartStart(t) = 1
        BY DEF PartStart
      <4>2. Len(buf) \in Nat
        BY <2>3 DEF Text
      <4>. QED  BY <2>3, <4>1, <4>2
    <3>. QED  BY <1>2, <3>1 DEF SaveBuffered, ReplacePart
  <2>5. 0 \in 0 .. Len(buf)
    BY <2>3 DEF Text
  <2>6. PiecesReplaced(u, v, t, t, buf, 0)
    BY <1>1, <1>2, <1>4, <2>2, <2>3, <2>4, <2>5, ReplacedPieces DEF buf
  <2>7. \A p \in Part : p # t => p < t \/ p > t
    BY <1>2, PartInt
  <2>. QED  BY <1>2, <2>6, <2>7 DEF PiecesReplaced, SameBut, buf
<1>5. CASE /\ t =< l /\ (t = FRAGMENT \/ u.ends[t] >= Len(u.norm))
           /\ v = AppendedUrl(CutBefore(u, t), t - 1, t, s)
  BY <1>1, <1>2, <1>5, CutAppendedPieces
<1>. QED  BY <1>3, <1>4, <1>5 DEF EditedText

\* A host is written: "://" stands before it, and the rest stays.
LEMMA EditedHostPieces ==
    ASSUME NEW u \in Url, NEW l \in Part, CompleteUpTo(u, l),
           Framed(u), PathConsistent(u), ~HasOpaquePath(u),
           NEW s \in Text, NEW v, EditedText(u, v, l, HOST, s)
    PROVE  /\ SameBut(u, v, {SCHEME_SEP, HOST})
           /\ Piece(v, SCHEME_SEP) = <<":", "/", "/">> /\ Piece(v, HOST) = s
<1>1. Ordered(u, l) /\ l >= HOST /\ EndsUpTo(u, l) /\ (IsNull(u, HOST) => l >= PATH)
  BY CompleteFacts DEF CompleteUpTo, Ordered
<1>2. /\ HOST \in Part /\ SCHEME_SEP \in Part /\ HOST # SCHEME_SEP /\ SCHEME_SEP # SCHEME
      /\ HOST \notin {USERNAME, PASSWORD} /\ HOST =< HOST /\ HOST # SCHEME
      /\ SCHEME_SEP < HOST /\ SCHEME_SEP =< HOST /\ ~(l < HOST) /\ HOST =< l
      /\ SCHEME_SEP - 1 = SCHEME /\ HOST # FRAGMENT /\ PATH \in Part /\ HOST =< PATH
      /\ HOST =< PATH - 1 /\ PATH - 1 \in Part /\ PATH # SCHEME
  BY <1>1, PartNumbers, PartInt
<1>3. Lead(HOST) = <<>> /\ <<>> \o s = s
  BY JoinEmpty, LeadText, PartNumbers
<1>4. Len(<<":", "/", "/">>) = 3 /\ Len(<<":">>) = 1 /\ <<":", "/", "/">> \in Text
      /\ ":" \in Char /\ "/" \in Char
  BY CharAssumption DEF Text, Written
<1>5. u.ends[SCHEME_SEP] - u.ends[SCHEME] = Len(Piece(u, SCHEME_SEP))
      /\ u.ends[SCHEME_SEP] - u.ends[SCHEME] \in Int
  <2>1. PieceFacts(u, l, SCHEME_SEP)
    BY <1>1, <1>2, PiecesAre
  <2>2. SCHEME_SEP =< l /\ PartPos(u, SCHEME_SEP) = u.ends[SCHEME]
    BY <1>1, <1>2, PartNumbers, PartInt DEF PartPos
  <2>. QED  BY <2>1, <2>2 DEF PieceFacts
<1>6. IF IsNull(u, HOST)
      THEN /\ Piece(u, SCHEME_SEP) = <<":">> /\ Piece(u, HOST_START) = <<>>
           /\ Piece(u, USERNAME) = <<>> /\ Piece(u, PASSWORD) = <<>>
      ELSE Piece(u, SCHEME_SEP) = <<":", "/", "/">>
  BY DEF Framed, NullHostFramed, HasUserinfo
<1>7. u.ends[SCHEME_SEP] - u.ends[SCHEME] < 3 <=> IsNull(u, HOST)
  <2>1. IsNull(u, HOST) => Len(Piece(u, SCHEME_SEP)) = 1
    BY <1>4, <1>6
  <2>2. ~IsNull(u, HOST) => Len(Piece(u, SCHEME_SEP)) = 3
    BY <1>4, <1>6
  <2>3. IsNull(u, HOST) => u.ends[SCHEME_SEP] - u.ends[SCHEME] < 3
    BY <1>5, <2>1
  <2>4. ~IsNull(u, HOST) => ~(u.ends[SCHEME_SEP] - u.ends[SCHEME] < 3)
    BY <1>5, <2>2
  <2>. QED  BY <2>3, <2>4, Zenon
\* The path of a URL without host has text behind the end of the host.
<1>8. IsNull(u, HOST) => ~(u.ends[HOST] >= Len(u.norm))
  <2>. SUFFICES ASSUME IsNull(u, HOST), u.ends[HOST] >= Len(u.norm) PROVE FALSE
    OBVIOUS
  <2>1. Piece(u, PATH) # <<>>
    BY DEF PathConsistent
  <2>2. PATH > HOST
    BY PartNumbers
  <2>3. Piece(u, PATH) = <<>>
    BY <1>1, <1>2, <2>2, PiecesAtEnd
  <2>. QED  BY <2>1, <2>3
<1>9. CASE /\ u.ends[HOST] < Len(u.norm)
           /\ v = SaveBuffered(u, HOST, BufferLead(u, HOST) \o s)
  <2>1. CASE IsNull(u, HOST)
    <3>. DEFINE sep == <<":", "/", "/">>
                buf == sep \o s
    <3>1. BufferLead(u, HOST) = sep
      BY <1>7, <2>1, PartNumbers DEF BufferLead
    <3>2. buf \in Text /\ Len(buf) = 3 + Len(s) /\ Len(s) \in Nat
      <4>. HIDE DEF sep
      <4>1. sep \in Text /\ Len(sep) = 3
        BY <1>4 DEF sep
      <4>2. buf \in Text /\ Len(buf) = Len(sep) + Len(s)
        BY <4>1, ConcatText
      <4>3. Len(s) \in Nat
        BY DEF Text
      <4>. HIDE DEF buf
      <4>. QED  BY <4>1, <4>2, <4>3
    <3>3. Slice(buf, 0, 3) = sep /\ Slice(buf, 3, Len(buf)) = s
      <4>. HIDE DEF sep
      <4>1. sep \in Text /\ Len(sep) = 3
        BY <1>4 DEF sep
      <4>2. InText(sep, 0, 3)
        BY <4>1 DEF InText
      <4>3. Slice(buf, 0, 3) = Slice(sep, 0, 3)
        BY <4>2, SliceOfFirst
      <4>4. Slice(sep, 0, Len(sep)) = sep
        BY <4>1, SliceAll
      <4>5. Slice(buf, Len(sep), Len(buf)) = s
        <5>1. Len(buf) = Len(sep) + Len(s)
          BY <4>1, ConcatText
        <5>2. \A n : n = Len(sep) + Len(s) => Slice(sep \o s, Len(sep), n) = s
          BY <4>1, SliceBehind
        <5>. QED  BY <5>1, <5>2
      <4>. HIDE DEF buf
      <4>. QED  BY <4>1, <4>3, <4>4, <4>5
    <3>4. v = SaveBuffered(u, HOST, buf)
      BY <1>9, <3>1
    <3>. HIDE DEF buf, sep
    <3>5. SaveBuffered(u, HOST, buf) = ReplaceParts(u, SCHEME_SEP, HOST, buf, 3)
      BY <1>7, <2>1 DEF SaveBuffered
    <3>6. 3 \in 0 .. Len(buf)
      BY <3>2
    <3>7. PiecesReplaced(u, v, SCHEME_SEP, HOST, buf, 3)
      BY <1>1, <1>2, <3>2, <3>4, <3>5, <3>6, ReplacedPieces
    <3>8. Piece(v, SCHEME_SEP) = sep /\ Piece(v, HOST) = s
      BY <1>2, <3>3, <3>7 DEF PiecesReplaced
    <3>9. ASSUME NEW p \in Part, p # SCHEME_SEP, p # HOST PROVE Piece(v, p) = Piece(u, p)
      <4>1. p < SCHEME_SEP \/ p > HOST \/ (SCHEME_SEP < p /\ p < HOST)
        BY <1>2, <3>9, PartInt
      <4>2. CASE p < SCHEME_SEP \/ p > HOST
        BY <3>7, <4>2 DEF PiecesReplaced
      <4>3. CASE SCHEME_SEP < p /\ p < HOST
        <5>1. p \in {USERNAME, PASSWORD, HOST_START}
          BY <4>3, PartNumbers, PartInt
        <5>. QED  BY <1>2, <1>6, <2>1, <3>7, <4>3, <5>1 DEF PiecesReplaced
      <4>. QED  BY <4>1, <4>2, <4>3
    <3>. QED  BY <3>8, <3>9 DEF SameBut, sep
  <2>2. CASE ~IsNull(u, HOST)
    <3>1. BufferLead(u, HOST) = <<>>
      BY <1>7, <2>2, PartNumbers DEF BufferLead
    <3>2. v = SaveBuffered(u, HOST, s)
      BY <1>3, <1>9, <3>1
    <3>3. SaveBuffered(u, HOST, s) = ReplaceParts(u, HOST, HOST, s, 0)
      BY <1>7, <2>2 DEF SaveBuffered, ReplacePart
    <3>4. 0 \in 0 .. Len(s)
      BY DEF Text
    <3>5. PiecesReplaced(u, v, HOST, HOST, s, 0)
      BY <1>1, <1>2, <3>2, <3>3, <3>4, ReplacedPieces
    <3>6. \A p \in Part : p # HOST => p < HOST \/ p > HOST
      BY <1>2, PartInt
    <3>. QED  BY <1>2, <1>6, <2>2, <3>5, <3>6 DEF PiecesReplaced, SameBut
  <2>. QED  BY <2>1, <2>2
<1>10. CASE /\ u.ends[HOST] >= Len(u.norm)
            /\ v = AppendedUrl(CutBefore(u, HOST), HOST - 1, HOST, s)
  <2>1. SameBut(u, v, {HOST}) /\ Piece(v, HOST) = s
    BY <1>1, <1>2, <1>3, <1>10, CutAppendedPieces
  <2>2. Piece(u, SCHEME_SEP) = <<":", "/", "/">>
    BY <1>6, <1>8, <1>10
  <2>. QED  BY <1>2, <2>1, <2>2 DEF SameBut
<1>. QED  BY <1>2, <1>9, <1>10 DEF EditedText

\* What a credential is written as.
Credential(t, s) == IF t = PASSWORD /\ s # <<>> THEN <<":">> \o s ELSE s

\* A credential is written: '@' stands behind the credentials if and only if
\* there are any.
LEMMA EditedUserinfoPieces ==
    ASSUME NEW u \in Url, NEW l \in Part, CompleteUpTo(u, l), Framed(u),
           NEW t \in {USERNAME, PASSWORD}, NEW s \in Text,
           NEW v, EditedText(u, v, l, t, s)
    PROVE  /\ SameBut(u, v, {t, HOST_START})
           /\ Piece(v, t) = Credential(t, s)
           /\ Piece(v, HOST_START) = IF HasUserinfo(v) THEN <<"@">> ELSE <<>>
<1>. DEFINE buf == BufferLead(u, t) \o s
            n == Len(buf)
            other == IF t = USERNAME THEN PASSWORD ELSE USERNAME
<1>1. Ordered(u, l) /\ l >= HOST /\ EndsUpTo(u, l)
  BY CompleteFacts DEF CompleteUpTo, Ordered
<1>2. /\ t \in Part /\ t # SCHEME /\ HOST_START \in Part /\ t =< t /\ t =< l /\ t < HOST
      /\ t < HOST_START /\ t =< HOST_START /\ HOST_START =< l /\ t # HOST /\ t # HOST_START
      /\ t # PORT /\ ~(t >= HOST) /\ ~(l < t) /\ PartStart(USERNAME) = 0 /\ PartStart(PASSWORD) = 1
      /\ USERNAME # PASSWORD /\ USERNAME \in Part /\ PASSWORD \in Part
      /\ HOST_START \notin {USERNAME, PASSWORD}
      /\ \A p \in Part : t < p /\ p < HOST_START => t = USERNAME /\ p = PASSWORD
      /\ \A p \in Part : p # t => p < t \/ p > t
  BY <1>1, PartNumbers, PartInt DEF PartStart
<1>3. v = SaveBuffered(u, t, buf)
  BY <1>2 DEF EditedText
<1>4. BufferLead(u, t) = IF t = PASSWORD THEN <<":">> ELSE <<>>
  BY PartNumbers DEF BufferLead
<1>5. <<":">> \in Text /\ Len(<<":">>) = 1 /\ <<"@">> \in Text /\ Len(<<"@">>) = 1
  BY CharAssumption DEF Text, Written
<1>6. Len(s) \in Nat /\ (s = <<>> <=> Len(s) = 0)
  BY DEF Text
<1>7. buf \in Text /\ n \in Nat /\ n = PartStart(t) + Len(s)
  <2>1. CASE t = PASSWORD
    <3>1. buf = <<":">> \o s
      BY <1>4, <2>1
    <3>2. <<":">> \o s \in Text /\ Len(<<":">> \o s) = Len(<<":">>) + Len(s)
      BY <1>5, ConcatText
    <3>. HIDE DEF buf
    <3>. QED  BY <1>2, <1>5, <1>6, <2>1, <3>1, <3>2
  <2>2. CASE t # PASSWORD
    <3>1. buf = s
      BY <1>4, <2>2, JoinEmpty
    <3>. HIDE DEF buf
    <3>. QED  BY <1>2, <1>6, <2>2, <3>1
  <2>. QED  BY <2>1, <2>2
<1>8. n =< PartStart(t) <=> s = <<>>
  <2>1. PartStart(t) \in {0, 1}
    BY DEF PartStart
  <2>. HIDE DEF n
  <2>. QED  BY <1>6, <1>7, <2>1
<1>9. s # <<>> => buf = Credential(t, s)
  BY <1>4, JoinEmpty DEF Credential
<1>10. (s = <<>> => Credential(t, s) = <<>>) /\ (s # <<>> => Credential(t, s) # <<>>)
  <2>1. s = <<>> => Credential(t, s) = <<>>
    BY DEF Credential
  <2>2. s # <<>> => Credential(t, s) # <<>>
    <3>1. s # <<>> => n > 0
      BY <1>6, <1>7 DEF PartStart
    <3>2. n > 0 => buf # <<>>
      BY <1>7 DEF Text
    <3>. HIDE DEF buf, n
    <3>. QED  BY <1>9, <3>1, <3>2
  <2>. QED  BY <2>1, <2>2
<1>11. /\ HasCredentials(u) <=> HasUserinfo(u)
       /\ IsEmpty(u, USERNAME) <=> Piece(u, USERNAME) = <<>>
       /\ IsEmpty(u, PASSWORD) <=> Piece(u, PASSWORD) = <<>>
  BY <1>1, UserinfoIsCredentials DEF Framed
<1>12. Piece(u, HOST_START) = IF HasUserinfo(u) THEN <<"@">> ELSE <<>>
  BY DEF Framed
<1>. HIDE DEF buf, n
<1>13. CASE s # <<>> /\ ~HasCredentials(u)
  <2>1. v = ReplaceParts(u, t, HOST_START, buf \o <<"@">>, n)
    BY <1>2, <1>3, <1>8, <1>13 DEF SaveBuffered, n
  <2>2. buf \o <<"@">> \in Text /\ Len(buf \o <<"@">>) = n + 1
    <3>1. buf \o <<"@">> \in Text /\ Len(buf \o <<"@">>) = Len(buf) + Len(<<"@">>)
      BY <1>5, <1>7, ConcatText
    <3>. QED  BY <1>5, <1>7, <3>1 DEF n
  <2>3. n \in 0 .. Len(buf \o <<"@">>)
    BY <1>7, <2>2
  <2>4. PiecesReplaced(u, v, t, HOST_START, buf \o <<"@">>, n)
    BY <1>1, <1>2, <2>1, <2>2, <2>3, ReplacedPieces
  <2>5. Slice(buf \o <<"@">>, 0, n) = buf
    <3>1. n =< n /\ 0 =< n /\ n = Len(buf)
      BY <1>7 DEF n
    <3>2. InText(buf, 0, n)
      BY <1>7, <3>1 DEF InText
    <3>3. Slice(buf \o <<"@">>, 0, n) = Slice(buf, 0, n)
      BY <1>5, <3>2, SliceOfFirst
    <3>. QED  BY <1>7, <3>1, <3>3, SliceAll
  <2>6. Slice(buf \o <<"@">>, n, Len(buf \o <<"@">>)) = <<"@">>
    <3>1. \A k : k = Len(buf) + Len(<<"@">>) =>
                    Slice(buf \o <<"@">>, Len(buf), k) = <<"@">>
      BY <1>5, <1>7, SliceBehind
    <3>2. Len(buf \o <<"@">>) = Len(buf) + Len(<<"@">>)
      BY <1>5, <1>7, ConcatText
    <3>. QED  BY <3>1, <3>2 DEF n
  <2>7. Piece(v, t) = Credential(t, s) /\ Piece(v, HOST_START) = <<"@">>
    BY <1>2, <1>9, <1>13, <2>4, <2>5, <2>6 DEF PiecesReplaced
  <2>8. ASSUME NEW p \in Part, p # t, p # HOST_START PROVE Piece(v, p) = Piece(u, p)
    <3>1. p < t \/ p > HOST_START \/ (t < p /\ p < HOST_START)
      BY <1>2, <2>8, PartInt
    <3>2. CASE p < t \/ p > HOST_START
      BY <2>4, <3>2 DEF PiecesReplaced
    <3>3. CASE t < p /\ p < HOST_START
      <4>1. Piece(v, p) = <<>>
        BY <1>2, <2>4, <3>3 DEF PiecesReplaced
      <4>2. Piece(u, p) = <<>>
        BY <1>2, <1>11, <1>13, <3>3 DEF HasCredentials
      <4>. QED  BY <4>1, <4>2
    <3>. QED  BY <3>1, <3>2, <3>3
  <2>9. HasUserinfo(v)
    BY <1>10, <1>13, <2>7 DEF HasUserinfo
  <2>. QED  BY <2>7, <2>8, <2>9 DEF SameBut
<1>14. CASE s = <<>> /\ IsEmpty(u, other)
  <2>1. v = ReplaceParts(u, t, HOST_START, <<>>, 0)
    BY <1>2, <1>3, <1>8, <1>14 DEF SaveBuffered, n
  <2>2. <<>> \in Text /\ 0 \in 0 .. Len(<<>>) /\ Len(<<>>) = 0
    BY DEF Text
  <2>3. PiecesReplaced(u, v, t, HOST_START, <<>>, 0)
    BY <1>1, <1>2, <2>1, <2>2, ReplacedPieces
  <2>4. Slice(<<>>, 0, 0) = <<>>
    BY SliceEmpty
  <2>5. Piece(v, t) = <<>> /\ Piece(v, HOST_START) = <<>>
    BY <1>2, <2>2, <2>3, <2>4 DEF PiecesReplaced
  <2>6. Piece(u, other) = <<>>
    BY <1>11, <1>14
  <2>7. ASSUME NEW p \in Part, p # t, p # HOST_START PROVE Piece(v, p) = Piece(u, p)
    <3>1. p < t \/ p > HOST_START \/ (t < p /\ p < HOST_START)
      BY <1>2, <2>7, PartInt
    <3>2. CASE p < t \/ p > HOST_START
      BY <2>3, <3>2 DEF PiecesReplaced
    <3>3. CASE t < p /\ p < HOST_START
      BY <1>2, <2>3, <2>6, <3>3 DEF PiecesReplaced
    <3>. QED  BY <3>1, <3>2, <3>3
  <2>8. Piece(v, other) = <<>>
    <3>1. other \in Part /\ other # t /\ other # HOST_START
      BY <1>2
    <3>. QED  BY <2>6, <2>7, <3>1
  <2>9. ~HasUserinfo(v)
    BY <2>5, <2>8 DEF HasUserinfo
  <2>. QED  BY <1>10, <1>14, <2>5, <2>7, <2>9 DEF SameBut
<1>15. CASE ~(s # <<>> /\ ~HasCredentials(u)) /\ ~(s = <<>> /\ IsEmpty(u, other))
  <2>. DEFINE txt == IF t \in {PASSWORD, PORT} /\ s = <<>> THEN <<>> ELSE buf
  <2>1. v = ReplaceParts(u, t, t, txt, 0)
    BY <1>2, <1>3, <1>8, <1>15 DEF SaveBuffered, ReplacePart, n
  <2>2. txt = Credential(t, s)
    <3>1. s = <<>> /\ t # PASSWORD => buf = <<>>
      BY <1>4, JoinEmpty DEF buf
    <3>. QED  BY <1>2, <1>9, <1>10, <3>1
  <2>3. txt \in Text /\ 0 \in 0 .. Len(txt)
    <3>1. txt \in Text
      BY <1>7, JoinEmpty
    <3>. HIDE DEF txt
    <3>. QED  BY <3>1 DEF Text
  <2>. HIDE DEF txt
  <2>4. PiecesReplaced(u, v, t, t, txt, 0)
    BY <1>1, <1>2, <2>1, <2>3, ReplacedPieces
  <2>5. Piece(v, t) = Credential(t, s) /\ SameBut(u, v, {t})
    BY <1>2, <2>2, <2>4 DEF PiecesReplaced, SameBut
  <2>6. HasUserinfo(u) /\ HasUserinfo(v)
    <3>1. CASE s # <<>>
      <4>1. HasUserinfo(u)
        BY <1>11, <1>15, <3>1
      <4>2. Piece(v, t) # <<>>
        BY <1>10, <2>5, <3>1
      <4>. QED  BY <4>1, <4>2 DEF HasUserinfo
    <3>2. CASE s = <<>>
      <4>1. Piece(u, other) # <<>>
        BY <1>11, <1>15, <3>2
      <4>2. Piece(v, other) = Piece(u, other)
        BY <1>2, <2>5 DEF SameBut
      <4>. QED  BY <4>1, <4>2 DEF HasUserinfo
    <3>. QED  BY <3>1, <3>2
  <2>7. Piece(v, HOST_START) = Piece(u, HOST_START)
    BY <1>2, <2>5 DEF SameBut
  <2>8. SameBut(u, v, {t, HOST_START})
    BY <2>5 DEF SameBut
  <2>. QED  BY <1>12, <2>5, <2>6, <2>7, <2>8
<1>. QED  BY <1>13, <1>14, <1>15

-----------------------------------------------------------------------------
(* The texts of the parts after an operation of a serializer.              *)

\* What url_serializer appends.
LEMMA AppenderPieces ==
    ASSUME NEW x, Appender(x), NEW t \in Part, t > SCHEME_SEP, t # HOST_START,
           x.last < t \/ (x.last = t /\ (t = PATH \/ (t = HOST /\ IsEmpty(x.u, HOST)))),
           NEW s \in Text
    PROVE  PiecesAppended(x.u, PutPart(x, t, s).u, x.last, t, s)
<1>. DEFINE y == PutPart(x, t, s)
<1>1. /\ x \in Serializer /\ x.u \in Url /\ x.last \in Part /\ x.inBuf = FALSE
      /\ x.setter = FALSE /\ Ordered(x.u, x.last)
  BY AppenderFacts
<1>2. y = TextAppended(x, t, s)
  BY <1>1 DEF PutPart, StartPart, TextAppended
<1>3. x.last < t \/ (x.last = t /\ (t = PATH \/ IsEmpty(x.u, t)))
  OBVIOUS
<1>4. y.u = AppendedUrl(x.u, x.last, t, s)
  BY <1>1, <1>2, <1>3, AppendedSound
<1>5. x.last < t \/ (x.last = t /\ t \in {HOST, PATH})
  OBVIOUS
<1>6. PiecesAppended(x.u, AppendedUrl(x.u, x.last, t, s), x.last, t, s)
  BY <1>1, <1>5, AppendedPieces
<1>. QED  BY <1>4, <1>6

\* A setter writes a port, a query or a fragment.
LEMMA EditorPieces ==
    ASSUME NEW x, Editor(x), NEW t \in {PORT, QUERY, FRAGMENT},
           NEW s \in Text, t = PORT => ~IsNull(x.u, HOST) /\ s # <<>>
    PROVE  SameBut(x.u, PutPart(x, t, s).u, {t}) /\ Piece(PutPart(x, t, s).u, t) = Lead(t) \o s
<1>1. x \in Serializer /\ x.u \in Url /\ x.setter = TRUE
  BY EditorFacts
<1>2. PICK l \in Part : CompleteUpTo(x.u, l)
  BY EditorFacts
<1>3. t \in {USERNAME, PASSWORD, HOST, PORT, QUERY, FRAGMENT} /\ ~(t < HOST) /\ t # HOST
  BY PartNumbers
<1>4. EditedText(x.u, PutPart(x, t, s).u, l, t, s)
  BY <1>1, <1>2, <1>3, EditingPut
<1>. QED  BY <1>1, <1>2, <1>4, EditedPieces

\* A setter writes a credential.
LEMMA EditorUserinfoPieces ==
    ASSUME NEW x, Editor(x), Framed(x.u), ~IsEmpty(x.u, HOST),
           NEW t \in {USERNAME, PASSWORD}, NEW s \in Text
    PROVE  LET v == PutPart(x, t, s).u
           IN /\ SameBut(x.u, v, {t, HOST_START})
              /\ Piece(v, t) = Credential(t, s)
              /\ Piece(v, HOST_START) = IF HasUserinfo(v) THEN <<"@">> ELSE <<>>
<1>1. x \in Serializer /\ x.u \in Url /\ x.setter = TRUE
  BY EditorFacts
<1>2. PICK l \in Part : CompleteUpTo(x.u, l)
  BY EditorFacts
<1>3. t \in {USERNAME, PASSWORD, HOST, PORT, QUERY, FRAGMENT} /\ t # HOST /\ t # PORT
  BY PartNumbers
<1>4. EditedText(x.u, PutPart(x, t, s).u, l, t, s)
  BY <1>1, <1>2, <1>3, EditingPut
<1>. QED  BY <1>1, <1>2, <1>4, EditedUserinfoPieces

-----------------------------------------------------------------------------
(* Hosts.                                                                  *)

\* Everything but the prefix of the path is framed.
TailFramed(u) ==
    PasswordFramed(u) /\ PortFramed(u) /\ Led(u, QUERY, "?") /\ Led(u, FRAGMENT, "#")

LEMMA FramedFacts ==
    ASSUME NEW u, Framed(u)
    PROVE  /\ TailFramed(u) /\ PasswordFramed(u) /\ PortFramed(u)
           /\ Led(u, QUERY, "?") /\ Led(u, FRAGMENT, "#")
           /\ Piece(u, HOST_START) = IF HasUserinfo(u) THEN <<"@">> ELSE <<>>
           /\ ~IsNull(u, HOST) => /\ Piece(u, PATH_PREFIX) = <<>>
                                  /\ Piece(u, SCHEME_SEP) = <<":", "/", "/">>
           /\ IsNull(u, HOST) => NullHostFramed(u)
           /\ Piece(u, PATH_PREFIX) \in {<<>>, <<"/", ".">>}
BY DEF Framed, TailFramed

\* The parts around a host that is s.
HostTexts(u, w, s) ==
    /\ Piece(w, SCHEME_SEP) = <<":", "/", "/">>
    /\ Piece(w, HOST) = s
    /\ \A t \in {SCHEME, USERNAME, PASSWORD, PORT, PATH_PREFIX, PATH, QUERY, FRAGMENT} :
          Piece(w, t) = Piece(u, t)
    /\ Piece(w, HOST_START) = IF HasUserinfo(w) THEN <<"@">> ELSE <<>>

\* A setter writes the host.
LEMMA EditorHostTexts ==
    ASSUME NEW x, Editor(x), ~HasOpaquePath(x.u), Framed(x.u), PathConsistent(x.u),
           NEW s \in Text
    PROVE  HostTexts(x.u, PutPart(x, HOST, s).u, s)
<1>. DEFINE v == PutPart(x, HOST, s).u
<1>1. x \in Serializer /\ x.u \in Url /\ x.setter = TRUE
  BY EditorFacts
<1>2. PICK l \in Part : CompleteUpTo(x.u, l)
  BY EditorFacts
<1>3. HOST \in {USERNAME, PASSWORD, HOST, PORT, QUERY, FRAGMENT} /\ ~(HOST < HOST) /\ HOST # PORT
  BY PartNumbers
<1>4. EditedText(x.u, v, l, HOST, s)
  BY <1>1, <1>2, <1>3, EditingPut
<1>5. /\ SameBut(x.u, v, {SCHEME_SEP, HOST})
      /\ Piece(v, SCHEME_SEP) = <<":", "/", "/">> /\ Piece(v, HOST) = s
  BY <1>1, <1>2, <1>4, EditedHostPieces
<1>. HIDE DEF v
<1>6. \A t \in {SCHEME, USERNAME, PASSWORD, PORT, PATH_PREFIX, PATH, QUERY, FRAGMENT,
                  HOST_START} :
         Piece(v, t) = Piece(x.u, t)
  <2>1. \A t \in {SCHEME, USERNAME, PASSWORD, PORT, PATH_PREFIX, PATH, QUERY, FRAGMENT,
                  HOST_START} :
           t \in Part /\ t \notin {SCHEME_SEP, HOST}
    BY PartNumbers
  <2>. QED  BY <1>5, <2>1 DEF SameBut
<1>7. HasUserinfo(v) <=> HasUserinfo(x.u)
  BY <1>6 DEF HasUserinfo
<1>8. Piece(v, HOST_START) = IF HasUserinfo(v) THEN <<"@">> ELSE <<>>
  <2>1. Piece(x.u, HOST_START) = IF HasUserinfo(x.u) THEN <<"@">> ELSE <<>>
    BY FramedFacts
  <2>2. Piece(v, HOST_START) = Piece(x.u, HOST_START)
    BY <1>6
  <2>. QED  BY <1>7, <2>1, <2>2
<1>. QED  BY <1>5, <1>6, <1>8 DEF HostTexts, v

\* Before the host, nothing is written behind the credentials.
LEMMA BeforeHostFacts ==
    ASSUME NEW x, Appender(x), BeforeHost(x)
    PROVE  /\ TailFramed(x.u)
           /\ \A t \in {HOST, PORT, QUERY, FRAGMENT} : IsNull(x.u, t)
           /\ \A t \in Part : t >= HOST_START => Piece(x.u, t) = <<>>
           /\ x.last = SCHEME => ~HasUserinfo(x.u)
           /\ x.last = USERNAME => Piece(x.u, PASSWORD) = <<>>
           /\ x.last < HOST_START
<1>1. x.u \in Url /\ x.last \in Part /\ EndsUpTo(x.u, x.last)
  BY AppenderFacts DEF Ordered
<1>2. \A t \in Part : t > x.last => Piece(x.u, t) = <<>>
  BY <1>1, PiecesBehind
<1>3. x.last \in {SCHEME, USERNAME, PASSWORD} /\ PasswordFramed(x.u)
      /\ \A t \in {HOST, PORT, QUERY, FRAGMENT} : IsNull(x.u, t)
  BY DEF BeforeHost
<1>4. /\ x.last < HOST_START
      /\ \A t \in Part : t >= HOST_START => t > x.last
      /\ x.last = SCHEME => USERNAME > x.last /\ PASSWORD > x.last
      /\ x.last = USERNAME => PASSWORD > x.last
      /\ USERNAME \in Part /\ PASSWORD \in Part
  BY <1>3, PartNumbers, PartInt
<1>5. \A t \in Part : t >= HOST_START => Piece(x.u, t) = <<>>
  BY <1>2, <1>4
<1>6. x.last = SCHEME => ~HasUserinfo(x.u)
  BY <1>2, <1>4 DEF HasUserinfo
<1>7. Piece(x.u, PORT) = <<>> /\ Piece(x.u, QUERY) = <<>> /\ Piece(x.u, FRAGMENT) = <<>>
  <2>1. /\ PORT \in Part /\ QUERY \in Part /\ FRAGMENT \in Part
        /\ PORT >= HOST_START /\ QUERY >= HOST_START /\ FRAGMENT >= HOST_START
    BY PartNumbers
  <2>. QED  BY <1>5, <2>1
<1>8. TailFramed(x.u)
  BY <1>3, <1>7 DEF TailFramed, PortFramed, Led
<1>. QED  BY <1>2, <1>3, <1>4, <1>5, <1>6, <1>8

LEMMA ColonSlashes == <<":">> \o <<"/", "/">> = <<":", "/", "/">>
<1>. DEFINE s == <<":">>
            r == <<"/", "/">>
            q == <<":", "/", "/">>
<1>1. s \in Text /\ Len(s) = 1 /\ s[1] = ":"
  BY CharAssumption DEF Text, Written
<1>2. r \in Text /\ Len(r) = 2 /\ r[1] = "/" /\ r[2] = "/"
  BY CharAssumption DEF Text, Written
<1>3. q \in Text /\ Len(q) = 3 /\ q[1] = ":" /\ q[2] = "/" /\ q[3] = "/"
  BY CharAssumption DEF Text, Written
<1>. HIDE DEF s, r, q
<1>4. /\ s \o r \in Text /\ Len(s \o r) = 3 /\ (s \o r)[1] = ":"
      /\ (s \o r)[1 + 1] = "/" /\ (s \o r)[1 + 2] = "/"
  <2>1. /\ s \o r \in Text /\ Len(s \o r) = Len(s) + Len(r)
        /\ \A i \in 1 .. Len(s) : (s \o r)[i] = s[i]
        /\ \A i \in 1 .. Len(r) : (s \o r)[Len(s) + i] = r[i]
    BY <1>1, <1>2, ConcatText
  <2>2. 1 \in 1 .. Len(s) /\ 1 \in 1 .. Len(r) /\ 2 \in 1 .. Len(r)
    BY <1>1, <1>2
  <2>. QED  BY <1>1, <1>2, <2>1, <2>2
<1>5. \A k \in 1 .. Len(s \o r) : (s \o r)[k] = q[k]
  BY <1>3, <1>4
<1>6. s \o r = q
  BY <1>3, <1>4, <1>5, TextsEqual
<1>. QED  BY <1>6 DEF s, r, q

\* url_serializer writes the host behind the scheme and the credentials.
LEMMA AppenderHostTexts ==
    ASSUME NEW x, Appender(x), BeforeHost(x), NEW s \in Text
    PROVE  HostTexts(x.u, PutPart(x, HOST, s).u, s)
<1>. DEFINE v == PutPart(x, HOST, s).u
            l == x.last
<1>1. /\ \A t \in Part : t >= HOST_START => Piece(x.u, t) = <<>>
      /\ l = SCHEME => ~HasUserinfo(x.u)
      /\ l = USERNAME => Piece(x.u, PASSWORD) = <<>>
      /\ l < HOST_START /\ l \in {SCHEME, USERNAME, PASSWORD}
      /\ l # SCHEME => Piece(x.u, SCHEME_SEP) = <<":", "/", "/">> /\ HasUserinfo(x.u)
  BY BeforeHostFacts DEF BeforeHost
<1>2. /\ HOST \in Part /\ HOST > SCHEME_SEP /\ HOST # HOST_START /\ l < HOST /\ l # HOST
      /\ HOST # PASSWORD
      /\ HOST_START \in Part /\ HOST_START < HOST /\ SCHEME_SEP < HOST /\ SCHEME_SEP \in Part
      /\ SCHEME_SEP # HOST_START /\ SCHEME_SEP # HOST /\ HOST_START >= HOST_START
      /\ l \in Part
      /\ l # SCHEME => SCHEME_SEP =< l
      /\ l = SCHEME => l < SCHEME_SEP
  BY <1>1, PartNumbers
<1>3. PiecesAppended(x.u, v, l, HOST, s)
  BY <1>2, AppenderPieces
<1>. HIDE DEF v, l
<1>4. Piece(v, HOST) = s
  <2>1. Lead(HOST) = <<>> /\ <<>> \o s = s
    <3>1. Lead(HOST) = <<>>
      <4>1. HOST \notin {PORT, QUERY, FRAGMENT}
        BY PartNumbers
      <4>. QED  BY <4>1, LeadText
    <3>2. <<>> \o s = s
      BY JoinEmpty
    <3>. QED  BY <3>1, <3>2
  <2>. QED  BY <1>2, <1>3, <2>1 DEF PiecesAppended
<1>5. \A t \in {PORT, PATH_PREFIX, PATH, QUERY, FRAGMENT} : Piece(v, t) = Piece(x.u, t)
  <2>1. \A t \in {PORT, PATH_PREFIX, PATH, QUERY, FRAGMENT} :
           t \in Part /\ t > HOST /\ t >= HOST_START
    BY PartNumbers
  <2>. QED  BY <1>1, <1>3, <2>1 DEF PiecesAppended
<1>6. \A t \in {USERNAME, PASSWORD} : Piece(v, t) = Piece(x.u, t)
  <2>. SUFFICES ASSUME NEW t \in {USERNAME, PASSWORD} PROVE Piece(v, t) = Piece(x.u, t)
    OBVIOUS
  <2>1. t \in Part /\ t # HOST /\ (t =< l \/ (l < t /\ t < HOST))
        /\ t # SCHEME_SEP /\ t # HOST_START
    BY <1>1, PartNumbers
  <2>2. CASE t =< l
    BY <1>3, <2>1, <2>2 DEF PiecesAppended
  <2>3. CASE l < t /\ t < HOST
    <3>1. Piece(v, t) = <<>>
      BY <1>3, <2>1, <2>3 DEF PiecesAppended
    <3>2. Piece(x.u, t) = <<>>
      <4>1. l = SCHEME \/ (l = USERNAME /\ t = PASSWORD)
        BY <1>1, <2>3, PartNumbers
      <4>. QED  BY <1>1, <4>1 DEF HasUserinfo
    <3>. QED  BY <3>1, <3>2
  <2>. QED  BY <2>1, <2>2, <2>3
<1>7. HasUserinfo(v) <=> HasUserinfo(x.u)
  BY <1>6 DEF HasUserinfo
<1>8. Piece(v, HOST_START) = IF HasUserinfo(v) THEN <<"@">> ELSE <<>>
  <2>1. l < HOST_START /\ ~(HOST_START =< l)
    BY <1>1, <1>2, PartInt
  <2>2. Piece(v, HOST_START) = IF l \in {USERNAME, PASSWORD} THEN <<"@">> ELSE <<>>
    BY <1>2, <1>3, <2>1 DEF PiecesAppended
  <2>3. l \in {USERNAME, PASSWORD} <=> HasUserinfo(x.u)
    BY <1>1, PartNumbers
  <2>. QED  BY <1>7, <2>2, <2>3
<1>9. Piece(v, SCHEME_SEP) = <<":", "/", "/">>
  <2>1. CASE l = SCHEME
    <3>1. Piece(v, SCHEME_SEP) = <<":">> \o Separator(l, HOST)
      BY <1>2, <1>3, <2>1 DEF PiecesAppended
    <3>2. Separator(l, HOST) = <<"/", "/">>
      BY <2>1, PartNumbers DEF Separator
    <3>. QED  BY <3>1, <3>2, ColonSlashes
  <2>2. CASE l # SCHEME
    BY <1>1, <1>2, <1>3, <2>2 DEF PiecesAppended
  <2>. QED  BY <2>1, <2>2
<1>10. Piece(v, SCHEME) = Piece(x.u, SCHEME)
  <2>1. SCHEME \in Part /\ SCHEME =< l /\ SCHEME # HOST
    BY <1>1, PartNumbers
  <2>. QED  BY <1>3, <2>1 DEF PiecesAppended
<1>. QED  BY <1>4, <1>5, <1>6, <1>8, <1>9, <1>10 DEF HostTexts, v

\* url_serializer writes the host of a file URL, which is empty so far.
LEMMA AgainHostTexts ==
    ASSUME NEW x, Appender(x), x.last = HOST, Framed(x.u), ~IsNull(x.u, HOST),
           Piece(x.u, HOST) = <<>>, NEW s \in Text
    PROVE  HostTexts(x.u, PutPart(x, HOST, s).u, s)
<1>. DEFINE v == PutPart(x, HOST, s).u
            u == x.u
<1>1. u \in Url /\ EndsUpTo(u, HOST)
  BY AppenderFacts DEF Ordered
<1>2. /\ HOST \in Part /\ HOST > SCHEME_SEP /\ HOST # HOST_START /\ PartStart(HOST) = 0
      /\ \A t \in {SCHEME, SCHEME_SEP, USERNAME, PASSWORD, HOST_START} :
            t \in Part /\ t =< HOST /\ t # HOST
      /\ \A t \in {PORT, PATH_PREFIX, PATH, QUERY, FRAGMENT} : t \in Part /\ t > HOST
  BY PartNumbers DEF PartStart
<1>3. IsEmpty(u, HOST)
  BY <1>1, <1>2, PieceEmpty
<1>4. PiecesAppended(u, v, HOST, HOST, s)
  BY <1>2, <1>3, AppenderPieces
<1>5. \A t \in Part : t > HOST => Piece(u, t) = <<>>
  BY <1>1, <1>2, PiecesBehind
<1>6. /\ Piece(u, HOST_START) = IF HasUserinfo(u) THEN <<"@">> ELSE <<>>
      /\ Piece(u, SCHEME_SEP) = <<":", "/", "/">>
  BY FramedFacts
<1>7. Piece(u, HOST) = <<>> /\ <<>> \o s = s
  BY JoinEmpty
<1>. HIDE DEF v, u
<1>8. Piece(v, HOST) = s
  BY <1>2, <1>4, <1>7 DEF PiecesAppended
<1>9. \A t \in {SCHEME, SCHEME_SEP, USERNAME, PASSWORD, HOST_START} : Piece(v, t) = Piece(u, t)
  BY <1>2, <1>4 DEF PiecesAppended
<1>10. \A t \in {PORT, PATH_PREFIX, PATH, QUERY, FRAGMENT} : Piece(v, t) = Piece(u, t)
  BY <1>2, <1>4, <1>5 DEF PiecesAppended
<1>11. HasUserinfo(v) <=> HasUserinfo(u)
  BY <1>9 DEF HasUserinfo
<1>12. Piece(v, HOST_START) = IF HasUserinfo(v) THEN <<"@">> ELSE <<>>
  BY <1>6, <1>9, <1>11
<1>. QED  BY <1>6, <1>8, <1>9, <1>10, <1>12 DEF HostTexts, v, u

\* A host can be written, or written again.
MayHost(x) ==
    /\ ~HasOpaquePath(x.u)
    /\ \/ Editor(x) /\ Framed(x.u) /\ PathConsistent(x.u)
       \/ Appender(x) /\ BeforeHost(x)
       \/ /\ Appender(x) /\ x.last = HOST
          /\ Framed(x.u) /\ ~IsNull(x.u, HOST) /\ Piece(x.u, HOST) = <<>>

LEMMA HostWrittenTexts ==
    ASSUME NEW x, MayHost(x), NEW s \in Text
    PROVE  /\ HostTexts(x.u, PutPart(x, HOST, s).u, s) /\ TailFramed(x.u)
           /\ Appender(x) \/ ~IsNull(x.u, HOST) => Piece(x.u, PATH_PREFIX) = <<>>
           /\ \/ Editor(x)
              \/ /\ Appender(x)
                 /\ x.last < HOST_START \/ (x.last = HOST /\ IsEmpty(x.u, HOST))
           /\ ~(Editor(x) /\ Appender(x))
<1>1. ~(Editor(x) /\ Appender(x))
  BY DEF Editor, Appender
<1>2. CASE Editor(x) /\ Framed(x.u) /\ PathConsistent(x.u)
  BY <1>1, <1>2, EditorHostTexts, FramedFacts DEF MayHost
<1>3. CASE Appender(x) /\ BeforeHost(x)
  <2>1. PATH_PREFIX \in Part /\ PATH_PREFIX >= HOST_START
    BY PartNumbers
  <2>2. Piece(x.u, PATH_PREFIX) = <<>> /\ TailFramed(x.u) /\ x.last < HOST_START
    BY <1>3, <2>1, BeforeHostFacts
  <2>. QED  BY <1>1, <1>3, <2>2, AppenderHostTexts
<1>4. CASE /\ Appender(x) /\ x.last = HOST
           /\ Framed(x.u) /\ ~IsNull(x.u, HOST) /\ Piece(x.u, HOST) = <<>>
  <2>1. IsEmpty(x.u, HOST)
    <3>1. x.u \in Url /\ EndsUpTo(x.u, HOST)
      BY <1>4, AppenderFacts DEF Ordered
    <3>2. HOST \in Part /\ PartStart(HOST) = 0
      BY PartNumbers DEF PartStart
    <3>. QED  BY <1>4, <3>1, <3>2, PieceEmpty
  <2>. QED  BY <1>1, <1>4, <2>1, AgainHostTexts, FramedFacts
<1>. QED  BY <1>2, <1>3, <1>4 DEF MayHost

\* v is u with the host s.
WithHost(u, v, s) ==
    /\ Framed(v) /\ Piece(v, HOST) = s /\ Piece(v, PATH_PREFIX) = <<>>
    /\ \A t \in {SCHEME, USERNAME, PASSWORD, PORT, PATH, QUERY, FRAGMENT} :
          Piece(v, t) = Piece(u, t)
    /\ v.flags = u.flags \cup {HOST} /\ v.inf = u.inf /\ v.segs = u.segs

LEMMA FramedByHost ==
    ASSUME NEW u, NEW w, NEW v, NEW s, HostTexts(u, w, s), TailFramed(u),
           \A t \in Part : t # PATH_PREFIX => Piece(v, t) = Piece(w, t),
           Piece(v, PATH_PREFIX) = <<>>,
           v.flags = u.flags \cup {HOST}, v.inf = u.inf, v.segs = u.segs
    PROVE  WithHost(u, v, s)
<1>1. \A t \in {SCHEME, SCHEME_SEP, USERNAME, PASSWORD, HOST_START, HOST, PORT, PATH, QUERY,
              FRAGMENT} :
         t \in Part /\ t # PATH_PREFIX
  BY PartNumbers
<1>2. \A t \in {SCHEME, SCHEME_SEP, USERNAME, PASSWORD, HOST_START, HOST, PORT, PATH, QUERY,
              FRAGMENT} :
         Piece(v, t) = Piece(w, t)
  BY <1>1
<1>3. \A t \in {SCHEME, USERNAME, PASSWORD, PORT, PATH, QUERY, FRAGMENT} :
         Piece(v, t) = Piece(u, t)
  BY <1>2 DEF HostTexts
<1>4. ~IsNull(v, HOST)
  BY DEF IsNull
<1>5. \A t \in {PORT, QUERY, FRAGMENT} : IsNull(v, t) <=> IsNull(u, t)
  <2>1. \A t \in {PORT, QUERY, FRAGMENT} : t # HOST
    BY PartNumbers
  <2>. QED  BY <2>1 DEF IsNull
<1>6. HasUserinfo(v) <=> HasUserinfo(w)
  BY <1>2 DEF HasUserinfo
<1>7. Piece(v, HOST_START) = IF HasUserinfo(v) THEN <<"@">> ELSE <<>>
  BY <1>2, <1>6 DEF HostTexts
<1>8. PasswordFramed(v)
  BY <1>3 DEF PasswordFramed, TailFramed
<1>9. PortFramed(v)
  BY <1>3, <1>5 DEF PortFramed, Led, TailFramed
<1>10. Led(v, QUERY, "?") /\ Led(v, FRAGMENT, "#")
  BY <1>3, <1>5 DEF Led, TailFramed
<1>11. Piece(v, SCHEME_SEP) = <<":", "/", "/">> /\ Piece(v, HOST) = s
  BY <1>2 DEF HostTexts
<1>12. Framed(v)
  BY <1>4, <1>7, <1>8, <1>9, <1>10, <1>11 DEF Framed
<1>. QED  BY <1>3, <1>11, <1>12 DEF WithHost

LEMMA PutHostRecord ==
    ASSUME NEW x, MayHost(x), NEW s \in Text, NEW ht \in HostType
    PROVE  WithHost(x.u, PutHost(x, s, ht).u, s)
<1>. DEFINE y == PutPart(x, HOST, s)
            u == SetHostType(y.u, ht)
            v == IF IsEmpty(u, PATH_PREFIX) THEN u ELSE ReplacePart(u, PATH_PREFIX, <<>>)
<1>1. /\ HostTexts(x.u, y.u, s) /\ TailFramed(x.u) /\ ~HasOpaquePath(x.u)
      /\ Appender(x) => Piece(x.u, PATH_PREFIX) = <<>>
      /\ \/ Editor(x)
         \/ /\ Appender(x)
            /\ x.last < HOST_START \/ (x.last = HOST /\ IsEmpty(x.u, HOST))
  BY HostWrittenTexts DEF MayHost
<1>2. /\ GoesOn(x, y) /\ u \in Url /\ \E m \in Part : Sound(u, m)
      /\ u.flags = x.u.flags \cup {HOST} /\ u.inf = x.u.inf /\ u.segs = x.u.segs
  <2>1. CASE Editor(x)
    BY <1>1, <2>1, EditorHostSet
  <2>2. CASE /\ Appender(x)
             /\ x.last < HOST_START \/ (x.last = HOST /\ IsEmpty(x.u, HOST))
    BY <1>1, <2>2, PartNumbers, AppenderHostSet
  <2>. QED  BY <1>1, <2>1, <2>2
<1>3. PutHost(x, s, ht) = [y EXCEPT !.u = v]
  BY DEF PutHost
<1>4. u.norm = y.u.norm /\ u.ends = y.u.ends
  <2>1. y.u \in Url
    BY <1>2, SerializerType DEF GoesOn
  <2>. HIDE DEF y
  <2>. QED  BY <2>1 DEF SetHostType, Url
<1>5. \A t : Piece(u, t) = Piece(y.u, t)
  BY <1>4, SamePieces
<1>6. PICK m \in Part : Sound(u, m)
  BY <1>2
<1>. HIDE DEF u, y
<1>7. Ordered(u, m) /\ EndsUpTo(u, m)
  BY <1>6 DEF Sound, Ordered
<1>8. /\ v.flags = u.flags /\ v.inf = u.inf /\ v.segs = u.segs /\ v \in Url
      /\ \A t \in Part : t # PATH_PREFIX => Piece(v, t) = Piece(u, t)
      /\ Piece(v, PATH_PREFIX) = <<>>
  <2>1. PATH_PREFIX \in Part /\ PartStart(PATH_PREFIX) = 0 /\ PATH_PREFIX # SCHEME
        /\ PATH_PREFIX =< PATH_PREFIX
        /\ \A t \in Part : t # PATH_PREFIX => t < PATH_PREFIX \/ t > PATH_PREFIX
    BY PartNumbers, PartInt DEF PartStart
  <2>2. CASE IsEmpty(u, PATH_PREFIX)
    <3>1. Piece(u, PATH_PREFIX) = <<>>
      BY <1>2, <1>7, <2>1, <2>2, PieceEmpty
    <3>. QED  BY <1>2, <2>2, <3>1
  <2>3. CASE ~IsEmpty(u, PATH_PREFIX)
    <3>1. PATH_PREFIX =< m
      <4>1. Piece(u, PATH_PREFIX) # <<>>
        BY <1>2, <1>7, <2>1, <2>3, PieceEmpty
      <4>2. PATH_PREFIX > m => Piece(u, PATH_PREFIX) = <<>>
        BY <1>2, <1>7, <2>1, PiecesBehind
      <4>. QED  BY <2>1, <4>1, <4>2, PartInt
    <3>2. <<>> \in Text /\ 0 \in 0 .. Len(<<>>)
      BY DEF Text
    <3>3. v = ReplaceParts(u, PATH_PREFIX, PATH_PREFIX, <<>>, 0)
      BY <2>3 DEF ReplacePart
    <3>. HIDE DEF v
    <3>4. PiecesReplaced(u, v, PATH_PREFIX, PATH_PREFIX, <<>>, 0)
      BY <1>2, <1>7, <2>1, <3>1, <3>2, <3>3, ReplacedPieces
    <3>5. v.flags = u.flags /\ v.inf = u.inf /\ v.segs = u.segs /\ v \in Url
      BY <1>2, <1>7, <2>1, <3>1, <3>2, <3>3, ReplacePartsEnds
    <3>. QED  BY <2>1, <3>4, <3>5 DEF PiecesReplaced
  <2>. QED  BY <2>2, <2>3
<1>. HIDE DEF v
<1>9. [y EXCEPT !.u = v].u = v
  BY <1>2, <1>8, GoesOnWith
<1>10. WithHost(x.u, v, s)
  BY <1>1, <1>2, <1>5, <1>8, FramedByHost
<1>. QED  BY <1>3, <1>9, <1>10

LEMMA SetEmptyHostRecord ==
    ASSUME NEW x, MayHost(x), Editor(x) => ~IsNull(x.u, HOST)
    PROVE  WithHost(x.u, SetEmptyHost(x).u, <<>>)
<1>. DEFINE y == PutPart(x, HOST, <<>>)
            u == SetHostType(y.u, "Empty")
<1>1. SetEmptyHost(x) = [y EXCEPT !.u = u]
  BY DEF SetEmptyHost
<1>2. <<>> \in Text /\ "Empty" \in HostType
  BY DEF Text, HostType
<1>3. /\ HostTexts(x.u, y.u, <<>>) /\ TailFramed(x.u) /\ ~HasOpaquePath(x.u)
      /\ Piece(x.u, PATH_PREFIX) = <<>>
      /\ \/ Editor(x)
         \/ /\ Appender(x)
            /\ x.last < HOST_START \/ (x.last = HOST /\ IsEmpty(x.u, HOST))
  BY <1>2, HostWrittenTexts DEF MayHost
<1>4. /\ GoesOn(x, y) /\ u \in Url
      /\ u.flags = x.u.flags \cup {HOST} /\ u.inf = x.u.inf /\ u.segs = x.u.segs
  <2>1. CASE Editor(x)
    BY <1>2, <1>3, <2>1, EditorHostSet
  <2>2. CASE /\ Appender(x)
             /\ x.last < HOST_START \/ (x.last = HOST /\ IsEmpty(x.u, HOST))
    BY <1>2, <1>3, <2>2, AppenderHostSet
  <2>. QED  BY <1>3, <2>1, <2>2
<1>5. u.norm = y.u.norm /\ u.ends = y.u.ends
  <2>1. y.u \in Url
    BY <1>4, SerializerType DEF GoesOn
  <2>. HIDE DEF y
  <2>. QED  BY <2>1 DEF SetHostType, Url
<1>6. \A t : Piece(u, t) = Piece(y.u, t)
  BY <1>5, SamePieces
<1>. HIDE DEF u, y
<1>7. [y EXCEPT !.u = u].u = u
  BY <1>4, GoesOnWith
<1>8. Piece(u, PATH_PREFIX) = <<>>
  BY <1>3, <1>6 DEF HostTexts
<1>9. WithHost(x.u, u, <<>>)
  BY <1>3, <1>4, <1>6, <1>8, FramedByHost
<1>. QED  BY <1>1, <1>7, <1>9

\* A host that was written is emptied, and nothing else changes.
LEMMA EmptiedHostTexts ==
    ASSUME NEW u, NEW v, Framed(u), ~IsNull(u, HOST),
           SameBut(u, v, {HOST}), Piece(v, HOST) = <<>>
    PROVE  HostTexts(u, v, <<>>) /\ TailFramed(u)
<1>1. \A t \in {SCHEME, SCHEME_SEP, USERNAME, PASSWORD, HOST_START, PORT, PATH_PREFIX, PATH,
                QUERY, FRAGMENT} : t \in Part /\ t \notin {HOST}
  BY PartNumbers
<1>2. \A t \in {SCHEME, SCHEME_SEP, USERNAME, PASSWORD, HOST_START, PORT, PATH_PREFIX, PATH,
                QUERY, FRAGMENT} : Piece(v, t) = Piece(u, t)
  BY <1>1 DEF SameBut
<1>3. /\ Piece(u, HOST_START) = IF HasUserinfo(u) THEN <<"@">> ELSE <<>>
      /\ Piece(u, SCHEME_SEP) = <<":", "/", "/">> /\ TailFramed(u)
  BY FramedFacts
<1>4. HasUserinfo(v) <=> HasUserinfo(u)
  BY <1>2 DEF HasUserinfo
<1>5. Piece(v, HOST_START) = IF HasUserinfo(v) THEN <<"@">> ELSE <<>>
  BY <1>2, <1>3, <1>4
<1>. QED  BY <1>2, <1>3, <1>5 DEF HostTexts

LEMMA EmptyHostRecord ==
    ASSUME NEW x, ~HasOpaquePath(x.u), ~IsNull(x.u, HOST), Framed(x.u),
           Editor(x) \/ (Appender(x) /\ x.last = HOST)
    PROVE  WithHost(x.u, EmptyHost(x).u, <<>>)
<1>. DEFINE start == x.u.ends[HOST_START]
            y == EmptyHost(x)
<1>1. HostPlan(x, y) /\ (Editor(x) => Editor(y)) /\ (Appender(x) => Appender(y) /\ y.last = HOST)
  BY EmptyHostSound
<1>2. /\ y.u.flags = x.u.flags \cup {HOST} /\ y.u.inf = x.u.inf /\ y.u.segs = x.u.segs
      /\ y.u \in Url
  BY <1>1, AppenderFacts, EditorFacts DEF HostPlan
<1>3. /\ HOST \in Part /\ HOST # SCHEME /\ HOST =< HOST /\ HOST_START \in Part
      /\ HOST_START < HOST /\ HOST_START =< HOST /\ HOST - 1 = HOST_START
      /\ \A t \in Part : t # HOST => t < HOST \/ t > HOST
      /\ \A t \in Part : t < HOST => t =< HOST_START /\ t # HOST
  BY PartNumbers, PartInt
<1>4. SameBut(x.u, y.u, {HOST}) /\ Piece(y.u, HOST) = <<>>
  <2>1. CASE Editor(x)
    <3>. DEFINE v == IF x.u.ends[HOST] # 0 THEN ReplacePart(x.u, HOST, <<>>) ELSE x.u
    <3>1. x.setter = TRUE /\ x.u \in Url /\ x \in Serializer
      BY <2>1, EditorFacts
    <3>2. PICK l \in Part : CompleteUpTo(x.u, l)
      BY <2>1, EditorFacts
    <3>3. Ordered(x.u, l) /\ HOST =< l /\ EndsUpTo(x.u, l)
      BY <1>3, <3>2, CompleteFacts, PartInt DEF CompleteUpTo, Ordered
    <3>4. <<>> \in Text /\ 0 \in 0 .. Len(<<>>)
      BY DEF Text
    <3>5. v \in Url /\ PiecesReplaced(x.u, v, HOST, HOST, <<>>, 0)
      <4>1. x.u.ends[HOST] # 0
        BY <1>3, <3>1, <3>3, OrderedFacts
      <4>2. v = ReplaceParts(x.u, HOST, HOST, <<>>, 0)
        BY <4>1 DEF ReplacePart
      <4>. HIDE DEF v
      <4>3. v \in Url
        BY <1>3, <3>1, <3>3, <3>4, <4>2, ReplacePartsEnds
      <4>4. PiecesReplaced(x.u, v, HOST, HOST, <<>>, 0)
        BY <1>3, <3>1, <3>3, <3>4, <4>2, ReplacedPieces
      <4>. QED  BY <4>3, <4>4
    <3>6. y = [x EXCEPT !.u = SetHostType(v, "Empty")]
      BY <3>1 DEF EmptyHost
    <3>. HIDE DEF v
    <3>7. y.u = SetHostType(v, "Empty")
      BY <3>1, <3>6 DEF Serializer
    <3>8. y.u.norm = v.norm /\ y.u.ends = v.ends
      BY <3>5, <3>7 DEF SetHostType, Url
    <3>9. \A t : Piece(y.u, t) = Piece(v, t)
      BY <3>8, SamePieces
    <3>. QED  BY <1>3, <3>5, <3>9 DEF PiecesReplaced, SameBut
  <2>2. CASE Appender(x) /\ x.last = HOST
    <3>1. /\ x.setter = FALSE /\ x.u \in Url /\ x \in Serializer /\ EndsUpTo(x.u, HOST)
          /\ Ordered(x.u, HOST)
      BY <2>2, AppenderFacts DEF Ordered
    <3>2. EndsUpTo(y.u, HOST)
      BY <1>1, <2>2, AppenderFacts DEF Ordered
    <3>. DEFINE w == [SetHostType(x.u, "Empty") EXCEPT
                         !.ends[HOST] = start, !.norm = SubSeq(@, 1, start)]
    <3>3. y.u = w
      BY <3>1 DEF EmptyHost, Expect, Serializer
    <3>4. /\ start \in Nat /\ start =< Len(x.u.norm) /\ x.u.norm \in Text
          /\ x.u.ends \in [Part -> Nat]
      BY <1>3, <3>1, OrderedFacts, UrlType
    <3>5. SetHostType(x.u, "Empty").norm = x.u.norm /\ SetHostType(x.u, "Empty").ends = x.u.ends
      BY <3>1 DEF SetHostType, Url
    <3>6. w.norm = SubSeq(x.u.norm, 1, start) /\ w.ends = [x.u.ends EXCEPT ![HOST] = start]
      <4>. DEFINE a == SetHostType(x.u, "Empty")
      <4>1. a = [x.u EXCEPT !.flags = x.u.flags \cup {HOST}, !.htype = "Empty"]
        BY DEF SetHostType
      <4>2. a = [a EXCEPT !.norm = a.norm]
        BY <3>1, <4>1 DEF Url
      <4>. QED  BY <3>1, <3>5, <4>1 DEF Url
    <3>. HIDE DEF w
    <3>7. /\ \A t \in Part : t # HOST => w.ends[t] = x.u.ends[t]
          /\ w.ends[HOST] = start
      BY <1>3, <3>4, <3>6
    <3>8. \A i \in 1 .. start : w.norm[i] = x.u.norm[i]
      BY <3>4, <3>6, PrefixText
    <3>9. SamePrefix(x.u, w, HOST_START)
      BY <1>3, <3>7, <3>8, PartInt DEF SamePrefix
    <3>10. \A t \in Part : t =< HOST_START => Piece(w, t) = Piece(x.u, t)
      BY <1>2, <1>3, <3>1, <3>2, <3>3, <3>9, PrefixPieces
    <3>11. \A t \in Part : t > HOST => Piece(w, t) = <<>> /\ Piece(x.u, t) = <<>>
      BY <1>2, <1>3, <3>1, <3>2, <3>3, PiecesBehind
    <3>12. Piece(w, HOST) = <<>>
      <4>1. PartPos(w, HOST) = start /\ w.ends[HOST] = start
        BY <1>3, <3>7 DEF PartPos
      <4>2. Piece(w, HOST) = Slice(w.norm, start, start)
        BY <4>1, PieceSlice
      <4>. HIDE DEF start
      <4>3. start =< start /\ start \in Int
        BY <3>4
      <4>. QED  BY <4>2, <4>3, SliceEmpty
    <3>. QED  BY <1>3, <3>3, <3>10, <3>11, <3>12 DEF SameBut
  <2>. QED  BY <2>1, <2>2
<1>. HIDE DEF y
<1>5. HostTexts(x.u, y.u, <<>>) /\ TailFramed(x.u)
  BY <1>4, EmptiedHostTexts
<1>6. Piece(y.u, PATH_PREFIX) = <<>>
  <2>1. Piece(x.u, PATH_PREFIX) = <<>>
    BY FramedFacts
  <2>. QED  BY <1>5, <2>1 DEF HostTexts
<1>7. WithHost(x.u, y.u, <<>>)
  BY <1>2, <1>5, <1>6, FramedByHost
<1>. QED  BY <1>7 DEF y

\* With such a host, the URL is a record again.
LEMMA RecordWithHost ==
    ASSUME NEW u, NEW v, NEW s, WithHost(u, v, s), Record(u),
           s = <<>> => /\ ~HasUserinfo(u) /\ IsNull(u, PORT)
                       /\ u.inf.special => u.inf.file
    PROVE  Record(v)
<1>1. /\ ~IsNull(v, HOST) /\ (HasUserinfo(v) <=> HasUserinfo(u))
      /\ (IsNull(v, PORT) <=> IsNull(u, PORT)) /\ v.inf = u.inf
      /\ Piece(v, PORT) = Piece(u, PORT) /\ Piece(v, PATH) = Piece(u, PATH)
      /\ Piece(v, HOST) = s /\ Framed(v) /\ Piece(v, PATH_PREFIX) = <<>>
  BY PartNumbers DEF WithHost, IsNull, HasUserinfo
<1>2. PrefixFits(v)
  BY <1>1 DEF PrefixFits, NeedsPathPrefix
<1>3. HostConsistent(v)
  BY <1>1 DEF HostConsistent, Record
<1>4. PathConsistent(v)
  BY <1>1 DEF PathConsistent, Record
<1>. QED  BY <1>1, <1>2, <1>3, <1>4 DEF Record

\* A host that is written first is consistent with what is there.
LEMMA ConsistentHost ==
    ASSUME NEW u, NEW v, NEW s, WithHost(u, v, s), IsNull(u, PORT),
           s # <<>> \/ (~HasUserinfo(u) /\ (u.inf.special => u.inf.file)),
           HasUserinfo(u) => ~u.inf.file
    PROVE  HostConsistent(v)
<1>1. /\ ~IsNull(v, HOST) /\ (HasUserinfo(v) <=> HasUserinfo(u))
      /\ (IsNull(v, PORT) <=> IsNull(u, PORT)) /\ v.inf = u.inf
      /\ Piece(v, HOST) = s
  BY PartNumbers DEF WithHost, IsNull, HasUserinfo
<1>. QED  BY <1>1 DEF HostConsistent

-----------------------------------------------------------------------------
(* What a step that leaves the parts before the path alone keeps.          *)

FramePart == {SCHEME_SEP, USERNAME, PASSWORD, HOST_START, HOST, PORT, PATH_PREFIX}

SameFrame(u, v) ==
    /\ \A t \in FramePart : Piece(v, t) = Piece(u, t)
    /\ IsNull(v, HOST) <=> IsNull(u, HOST)
    /\ IsNull(v, PORT) <=> IsNull(u, PORT)

LEMMA FrameKept ==
    ASSUME NEW u, NEW v, SameFrame(u, v)
    PROVE  /\ HasUserinfo(v) <=> HasUserinfo(u)
           /\ Framed(u) /\ Led(v, QUERY, "?") /\ Led(v, FRAGMENT, "#") => Framed(v)
           /\ v.inf = u.inf /\ HostConsistent(u) => HostConsistent(v)
<1>1. /\ Piece(v, SCHEME_SEP) = Piece(u, SCHEME_SEP) /\ Piece(v, USERNAME) = Piece(u, USERNAME)
      /\ Piece(v, PASSWORD) = Piece(u, PASSWORD)
      /\ Piece(v, HOST_START) = Piece(u, HOST_START) /\ Piece(v, HOST) = Piece(u, HOST)
      /\ Piece(v, PORT) = Piece(u, PORT) /\ Piece(v, PATH_PREFIX) = Piece(u, PATH_PREFIX)
      /\ (IsNull(v, HOST) <=> IsNull(u, HOST)) /\ (IsNull(v, PORT) <=> IsNull(u, PORT))
  BY DEF SameFrame, FramePart
<1>2. HasUserinfo(v) <=> HasUserinfo(u)
  BY <1>1 DEF HasUserinfo
<1>3. ASSUME Framed(u), Led(v, QUERY, "?"), Led(v, FRAGMENT, "#") PROVE Framed(v)
  <2>1. PasswordFramed(v)
    BY <1>1, <1>3 DEF PasswordFramed, Framed
  <2>2. PortFramed(v)
    BY <1>1, <1>3 DEF PortFramed, Led, Framed
  <2>3. NullHostFramed(u) => NullHostFramed(v)
    BY <1>1, <1>2 DEF NullHostFramed
  <2>4. IF IsNull(v, HOST) THEN NullHostFramed(v) ELSE Piece(v, SCHEME_SEP) = <<":", "/", "/">>
    BY <1>1, <1>3, <2>3 DEF Framed
  <2>5. Piece(v, HOST_START) = IF HasUserinfo(v) THEN <<"@">> ELSE <<>>
    BY <1>1, <1>2, <1>3 DEF Framed
  <2>6. /\ Piece(v, PATH_PREFIX) \in {<<>>, <<"/", ".">>}
        /\ ~IsNull(v, HOST) => Piece(v, PATH_PREFIX) = <<>>
    BY <1>1, <1>3 DEF Framed
  <2>. QED  BY <1>3, <2>1, <2>2, <2>4, <2>5, <2>6 DEF Framed
<1>4. ASSUME v.inf = u.inf, HostConsistent(u) PROVE HostConsistent(v)
  BY <1>1, <1>2, <1>4 DEF HostConsistent
<1>. QED  BY <1>2, <1>3, <1>4

Readable(u) == u \in Url /\ \E l \in Part : EndsUpTo(u, l)

LEMMA WrittenIsReadable ==
    ASSUME NEW x, Appender(x) \/ Editor(x)
    PROVE  Readable(x.u)
<1>1. CASE Appender(x)
  BY <1>1, AppenderFacts DEF Readable, Ordered
<1>2. CASE Editor(x)
  BY <1>2, EditorFacts DEF Readable, CompleteUpTo, Sound, Ordered
<1>. QED  BY <1>1, <1>2

LEMMA ReadPieces ==
    ASSUME NEW u, Readable(u)
    PROVE  /\ View(u, PATH) = Piece(u, PATH) /\ View(u, HOST) = Piece(u, HOST)
           /\ IsEmpty(u, HOST) <=> Piece(u, HOST) = <<>>
           /\ IsEmpty(u, PATH_PREFIX) <=> Piece(u, PATH_PREFIX) = <<>>
           /\ \A t \in Part : Piece(u, t) \in Text
           /\ Piece(u, PORT) # <<>> => View(u, PORT) = Tail(Piece(u, PORT))
           /\ IsEmpty(u, PORT) <=> Len(Piece(u, PORT)) =< 1
           /\ PasswordFramed(u) => (HasCredentials(u) <=> HasUserinfo(u))
<1>1. PICK l \in Part : EndsUpTo(u, l)
  BY DEF Readable
<1>2. u \in Url
  BY DEF Readable
<1>3. /\ PATH \in Part /\ HOST \in Part /\ PATH_PREFIX \in Part /\ PORT \in Part
      /\ PartStart(PATH) = 0 /\ PartStart(HOST) = 0 /\ PartStart(PATH_PREFIX) = 0
      /\ PartStart(PORT) = 1
  BY PartNumbers DEF PartStart
<1>4. View(u, PATH) = Piece(u, PATH) /\ View(u, HOST) = Piece(u, HOST)
  BY <1>1, <1>2, <1>3, PieceView
<1>5. IsEmpty(u, HOST) <=> Piece(u, HOST) = <<>>
  BY <1>1, <1>2, <1>3, PieceEmpty
<1>6. IsEmpty(u, PATH_PREFIX) <=> Piece(u, PATH_PREFIX) = <<>>
  BY <1>1, <1>2, <1>3, PieceEmpty
<1>7. \A t \in Part : Piece(u, t) \in Text
  BY <1>1, <1>2, PieceEmpty
<1>8. Piece(u, PORT) # <<>> => View(u, PORT) = Tail(Piece(u, PORT))
  BY <1>1, <1>2, <1>3, PieceView
<1>9. IsEmpty(u, PORT) <=> Len(Piece(u, PORT)) =< 1
  <2>1. IsEmpty(u, PORT) <=> Len(Piece(u, PORT)) =< PartStart(PORT)
    BY <1>1, <1>2, <1>3, PieceEmpty
  <2>. QED  BY <1>3, <2>1
<1>10. PasswordFramed(u) => (HasCredentials(u) <=> HasUserinfo(u))
  BY <1>1, <1>2, UserinfoIsCredentials
<1>. QED  BY <1>4, <1>5, <1>6, <1>7, <1>8, <1>9, <1>10

SamePath(u, v) ==
    /\ SameFrame(u, v) /\ Piece(v, PATH) = Piece(u, PATH)
    /\ v.segs = u.segs /\ v.inf = u.inf
    /\ HasOpaquePath(v) <=> HasOpaquePath(u)

LEMMA PathKept ==
    ASSUME NEW u, Readable(u), NEW v, Readable(v), SamePath(u, v)
    PROVE  /\ PrefixFits(u) => PrefixFits(v)
           /\ PathConsistent(u) => PathConsistent(v)
<1>1. /\ Piece(v, PATH_PREFIX) = Piece(u, PATH_PREFIX) /\ Piece(v, PATH) = Piece(u, PATH)
      /\ IsNull(v, HOST) <=> IsNull(u, HOST)
      /\ HasOpaquePath(v) <=> HasOpaquePath(u)
      /\ v.segs = u.segs /\ v.inf = u.inf
  BY DEF SamePath, SameFrame, FramePart
<1>2. View(v, PATH) = View(u, PATH)
  BY <1>1, ReadPieces
<1>3. NeedsPathPrefix(v) <=> NeedsPathPrefix(u)
  BY <1>1, <1>2 DEF NeedsPathPrefix
<1>. QED  BY <1>1, <1>3 DEF PrefixFits, PathConsistent

LEMMA RecordKept ==
    ASSUME NEW u, Readable(u), NEW v, Readable(v), SamePath(u, v), Record(u),
           Led(v, QUERY, "?"), Led(v, FRAGMENT, "#")
    PROVE  Record(v)
<1>1. SameFrame(u, v) /\ v.inf = u.inf
  BY DEF SamePath
<1>2. Framed(v) /\ HostConsistent(v)
  BY <1>1, FrameKept DEF Record
<1>3. PrefixFits(v) /\ PathConsistent(v)
  BY PathKept DEF Record
<1>. QED  BY <1>2, <1>3 DEF Record

\* The parts behind the host are appended one by one.
LEMMA AppenderTailPieces ==
    ASSUME NEW x, Appender(x), x.last >= HOST,
           NEW t \in {PORT, PATH, QUERY, FRAGMENT},
           x.last < t \/ (x.last = t /\ t = PATH), NEW s \in Text
    PROVE  LET v == PutPart(x, t, s).u
           IN /\ SameBut(x.u, v, {t})
              /\ Piece(v, t) = IF x.last = t THEN Piece(x.u, t) \o s ELSE Lead(t) \o s
<1>. DEFINE v == PutPart(x, t, s).u
            l == x.last
<1>0. l \in Part /\ l \in Int
  BY AppenderFacts, PartInt
<1>1. t \in Part /\ t > SCHEME_SEP /\ t # HOST_START /\ l \in Part /\ l > HOST_START
      /\ l # USERNAME
  <2>1. l > HOST_START /\ l # USERNAME
    BY <1>0, PartNumbers
  <2>2. t \in Part /\ t > SCHEME_SEP /\ t # HOST_START
    BY PartNumbers
  <2>. QED  BY <1>0, <2>1, <2>2
<1>2. PiecesAppended(x.u, v, l, t, s)
  BY <1>1, AppenderPieces
<1>3. \A p \in Part : p > l => Piece(x.u, p) = <<>>
  <2>1. EndsUpTo(x.u, l) /\ x.u \in Url
    BY AppenderFacts DEF Ordered
  <2>. QED  BY <1>1, <2>1, PiecesBehind
<1>4. l < t \/ l = t
  OBVIOUS
<1>. HIDE DEF v, l
<1>5. ASSUME NEW p \in Part, p # t PROVE Piece(v, p) = Piece(x.u, p)
  <2>1. p =< l \/ p > t \/ (l < p /\ p < t)
    BY <1>1, <1>5, PartInt
  <2>2. CASE p =< l
    BY <1>2, <1>5, <2>2 DEF PiecesAppended
  <2>3. CASE p > t
    <3>1. p > l
      BY <1>1, <1>4, <2>3, PartInt
    <3>. QED  BY <1>2, <1>3, <2>3, <3>1 DEF PiecesAppended
  <2>4. CASE l < p /\ p < t
    <3>1. p # SCHEME_SEP /\ p # HOST_START
      BY <1>1, <2>4, PartNumbers, PartInt
    <3>2. Piece(v, p) = <<>>
      BY <1>2, <2>4, <3>1 DEF PiecesAppended
    <3>. QED  BY <1>3, <2>4, <3>2
  <2>. QED  BY <2>1, <2>2, <2>3, <2>4
<1>6. Piece(v, t) = IF l = t THEN Piece(x.u, t) \o s ELSE Lead(t) \o s
  BY <1>1, <1>2 DEF PiecesAppended
<1>. QED  BY <1>5, <1>6 DEF SameBut, v, l

LEMMA LeadStarts ==
    ASSUME NEW s \in Text
    PROVE  /\ StartsWith(Lead(QUERY) \o s, "?") /\ StartsWith(Lead(FRAGMENT) \o s, "#")
           /\ StartsWith(Lead(PORT) \o s, ":") /\ Tail(Lead(PORT) \o s) = s
           /\ Len(Lead(PORT) \o s) = Len(s) + 1
<1>1. Lead(PORT) = <<":">> /\ Lead(QUERY) = <<"?">> /\ Lead(FRAGMENT) = <<"#">>
  BY PartNumbers DEF Lead
<1>2. Lead(PORT) \in Text /\ Lead(QUERY) \in Text /\ Lead(FRAGMENT) \in Text
  BY LeadText
<1>3. ASSUME NEW c, <<c>> \in Text PROVE StartsWith(<<c>> \o s, c)
  <2>1. /\ Len(<<c>> \o s) = Len(<<c>>) + Len(s)
        /\ \A i \in 1 .. Len(<<c>>) : (<<c>> \o s)[i] = <<c>>[i]
    BY <1>3, ConcatText
  <2>2. Len(<<c>>) = 1 /\ <<c>>[1] = c /\ Len(s) \in Nat
    BY DEF Text
  <2>3. (<<c>> \o s)[1] = c /\ Len(<<c>> \o s) > 0
    BY <2>1, <2>2
  <2>4. <<c>> \o s # <<>>
    BY <2>3
  <2>. QED  BY <2>3, <2>4 DEF StartsWith
<1>4. Tail(<<":">> \o s) = s
  BY <1>1, <1>2 DEF Text
<1>5. Len(<<":">> \o s) = Len(s) + 1
  BY <1>1, <1>2 DEF Text
<1>. QED  BY <1>1, <1>2, <1>3, <1>4, <1>5

\* A flag is set, and nothing is written.
LEMMA FlaggedPieces ==
    ASSUME NEW x, Appender(x) \/ Editor(x), NEW t \in {PORT, QUERY, FRAGMENT}
    PROVE  \A p : Piece(WithFlag(x, t).u, p) = Piece(x.u, p)
<1>1. x \in Serializer /\ x.u \in Url
  BY AppenderFacts, EditorFacts
<1>2. WithFlag(x, t).u = [x.u EXCEPT !.flags = @ \cup {t}]
  BY <1>1 DEF WithFlag, Serializer
<1>3. WithFlag(x, t).u.norm = x.u.norm /\ WithFlag(x, t).u.ends = x.u.ends
  BY <1>1, <1>2 DEF Url
<1>. QED  BY <1>3, SamePieces

\* The query or the fragment is written.
LEMMA LastPartRecord ==
    ASSUME NEW x, Appender(x) \/ Editor(x), Record(x.u), NEW t \in {QUERY, FRAGMENT},
           Appender(x) => x.last >= HOST /\ x.last < t, NEW s \in Text
    PROVE  Record(WithFlag(PutPart(x, t, s), t).u)
<1>. DEFINE z == PutPart(x, t, s)
            y == WithFlag(z, t)
<1>0. /\ t \in {USERNAME, PASSWORD, PORT, PATH, QUERY, FRAGMENT} /\ t \in {PORT, QUERY, FRAGMENT}
      /\ t \in {PORT, PATH, QUERY, FRAGMENT}
      /\ t # PORT /\ t > PATH_PREFIX /\ ~(t < HOST)
      /\ t \in Part /\ QUERY \in Part /\ FRAGMENT \in Part /\ QUERY # FRAGMENT
      /\ t \in {USERNAME, PASSWORD, PORT, QUERY, FRAGMENT}
  BY PartNumbers
<1>1. SameBut(x.u, z.u, {t}) /\ Piece(z.u, t) = Lead(t) \o s
  <2>1. CASE Appender(x)
    <3>1. x.last # t
      BY <1>0, <2>1, AppenderFacts, PartInt
    <3>. QED  BY <1>0, <2>1, <3>1, AppenderTailPieces
  <2>2. CASE Editor(x)
    BY <1>0, <2>2, EditorPieces
  <2>. QED  BY <2>1, <2>2
<1>2. (Appender(z) \/ Editor(z)) /\ SamePlan(x, z)
  <2>1. CASE Appender(x)
    BY <1>0, <2>1, AppenderPut
  <2>2. CASE Editor(x)
    BY <1>0, <2>2, EditorPut
  <2>. QED  BY <2>1, <2>2
<1>. HIDE DEF z
<1>3. /\ Appender(y) \/ Editor(y)
      /\ y.u.inf = z.u.inf /\ y.u.segs = z.u.segs /\ y.u.flags = z.u.flags \cup {t}
  BY <1>0, <1>2, FlagSet
<1>4. \A p : Piece(y.u, p) = Piece(z.u, p)
  BY <1>0, <1>2, FlaggedPieces
<1>. HIDE DEF y
<1>5. \A p \in Part : p # t => Piece(y.u, p) = Piece(x.u, p)
  BY <1>1, <1>4 DEF SameBut
<1>6. y.u.flags = x.u.flags \cup {t} /\ y.u.inf = x.u.inf /\ y.u.segs = x.u.segs
  BY <1>2, <1>3 DEF SamePlan
<1>7. /\ IsNull(y.u, HOST) <=> IsNull(x.u, HOST)
      /\ IsNull(y.u, PORT) <=> IsNull(x.u, PORT)
      /\ HasOpaquePath(y.u) <=> HasOpaquePath(x.u)
  <2>1. t # HOST /\ t # PORT /\ t # OPAQUE_PATH
    BY PartNumbers DEF OPAQUE_PATH
  <2>. QED  BY <1>6, <2>1 DEF IsNull, HasOpaquePath
<1>8. SamePath(x.u, y.u)
  <2>1. \A p \in FramePart : p \in Part /\ p # t
    BY PartNumbers DEF FramePart
  <2>2. PATH \in Part /\ PATH # t
    BY PartNumbers
  <2>. QED  BY <1>5, <1>6, <1>7, <2>1, <2>2 DEF SamePath, SameFrame
<1>9. Led(x.u, QUERY, "?") /\ Led(x.u, FRAGMENT, "#")
  BY FramedFacts DEF Record
<1>10. Led(y.u, t, IF t = QUERY THEN "?" ELSE "#")
  <2>1. ~IsNull(y.u, t)
    BY <1>6 DEF IsNull
  <2>2. Piece(y.u, t) = Lead(t) \o s
    BY <1>1, <1>4
  <2>3. StartsWith(Lead(t) \o s, IF t = QUERY THEN "?" ELSE "#")
    BY <1>0, LeadStarts
  <2>. QED  BY <2>1, <2>2, <2>3 DEF Led
<1>11. ASSUME NEW p \in {QUERY, FRAGMENT}, p # t, NEW c, Led(x.u, p, c)
       PROVE  Led(y.u, p, c)
  <2>1. IsNull(y.u, p) <=> IsNull(x.u, p)
    BY <1>6, <1>11 DEF IsNull
  <2>2. Piece(y.u, p) = Piece(x.u, p)
    BY <1>0, <1>5, <1>11
  <2>. QED  BY <1>11, <2>1, <2>2 DEF Led
<1>12. Led(y.u, QUERY, "?") /\ Led(y.u, FRAGMENT, "#")
  BY <1>0, <1>9, <1>10, <1>11
<1>13. Readable(x.u) /\ Readable(y.u)
  BY <1>3, WrittenIsReadable
<1>. QED  BY <1>8, <1>12, <1>13, RecordKept DEF y, z

-----------------------------------------------------------------------------
(* Parts that are removed.                                                 *)

PartRemoved(u, v, t) ==
    /\ SameBut(u, v, {t}) /\ Piece(v, t) = <<>> /\ v.flags = u.flags \ {t}
    /\ v.inf = u.inf /\ v.segs = u.segs

LEMMA ClearPartPieces ==
    ASSUME NEW x, Editor(x), NEW t \in {PORT, QUERY, FRAGMENT},
           t = PORT => ~HasOpaquePath(x.u),
           NEW c, Led(x.u, t, c)
    PROVE  PartRemoved(x.u, ClearPart(x, t).u, t)
<1>. DEFINE w == ReplacePart(x.u, t, <<>>)
            v == [w EXCEPT !.flags = @ \ {t}]
<1>1. x \in Serializer /\ x.u \in Url /\ x.setter = TRUE
  BY EditorFacts
<1>2. PICK l \in Part : CompleteUpTo(x.u, l)
  BY EditorFacts
<1>3. Ordered(x.u, l) /\ l >= HOST /\ EndsUpTo(x.u, l)
  BY <1>2, CompleteFacts DEF CompleteUpTo, Sound, Ordered
<1>4. t \in Part /\ t # SCHEME /\ t =< t /\ <<>> \in Text /\ 0 \in 0 .. Len(<<>>)
  BY PartNumbers DEF Text
<1>5. CASE x.u.ends[t] = 0
  <2>1. ClearPart(x, t) = x
    BY <1>5 DEF ClearPart
  <2>2. t > l
    BY <1>1, <1>3, <1>4, <1>5, OrderedFacts, PartInt
  <2>3. Piece(x.u, t) = <<>>
    BY <1>1, <1>3, <1>4, <2>2, PiecesBehind
  <2>4. IsNull(x.u, t)
    BY <2>3 DEF Led, StartsWith
  <2>5. x.u.flags \ {t} = x.u.flags
    BY <2>4 DEF IsNull
  <2>. QED  BY <2>1, <2>3, <2>5 DEF PartRemoved, SameBut
<1>6. CASE x.u.ends[t] # 0
  <2>1. ClearPart(x, t) = [x EXCEPT !.u = v]
    BY <1>1, <1>6, Zenon DEF ClearPart
  <2>2. t =< l
    BY <1>1, <1>3, <1>4, <1>6, OrderedFacts, PartInt
  <2>3. w = ReplaceParts(x.u, t, t, <<>>, 0)
    BY DEF ReplacePart
  <2>. HIDE DEF w
  <2>4. PiecesReplaced(x.u, w, t, t, <<>>, 0)
    BY <1>1, <1>3, <1>4, <2>2, <2>3, ReplacedPieces
  <2>5. w \in Url /\ w.flags = x.u.flags /\ w.inf = x.u.inf /\ w.segs = x.u.segs
    BY <1>1, <1>3, <1>4, <2>2, <2>3, ReplacePartsEnds
  <2>6. /\ v.norm = w.norm /\ v.ends = w.ends /\ v.flags = w.flags \ {t}
        /\ v.inf = w.inf /\ v.segs = w.segs
    BY <2>5 DEF Url
  <2>. HIDE DEF v
  <2>7. \A p : Piece(v, p) = Piece(w, p)
    BY <2>6, SamePieces
  <2>8. ClearPart(x, t).u = v
    BY <1>1, <2>1 DEF Serializer
  <2>9. \A p \in Part : p # t => p < t \/ p > t
    BY <1>4, PartInt
  <2>10. SameBut(x.u, v, {t}) /\ Piece(v, t) = <<>>
    BY <2>4, <2>7, <2>9 DEF PiecesReplaced, SameBut
  <2>. QED  BY <2>5, <2>6, <2>8, <2>10 DEF PartRemoved
<1>. QED  BY <1>5, <1>6

\* The query or the fragment of a record is removed.
LEMMA LastPartRemoved ==
    ASSUME NEW u, Readable(u), NEW v, Readable(v), Record(u),
           NEW t \in {QUERY, FRAGMENT}, PartRemoved(u, v, t)
    PROVE  Record(v)
<1>1. /\ t # HOST /\ t # PORT /\ t # OPAQUE_PATH /\ PATH \in Part /\ PATH # t
      /\ \A p \in FramePart : p \in Part /\ p # t
      /\ QUERY \in Part /\ FRAGMENT \in Part
  BY PartNumbers DEF OPAQUE_PATH, FramePart
<1>2. \A p \in Part : p # t => Piece(v, p) = Piece(u, p)
  BY DEF PartRemoved, SameBut
<1>3. \A p : p # t => (IsNull(v, p) <=> IsNull(u, p))
  BY DEF PartRemoved, IsNull
<1>4. HasOpaquePath(v) <=> HasOpaquePath(u)
  BY <1>1 DEF PartRemoved, HasOpaquePath
<1>5. SamePath(u, v)
  BY <1>1, <1>2, <1>3, <1>4 DEF SamePath, SameFrame, PartRemoved
<1>6. ASSUME NEW p \in {QUERY, FRAGMENT}, NEW c, Led(u, p, c) PROVE Led(v, p, c)
  <2>1. CASE p = t
    BY <2>1 DEF Led, PartRemoved, IsNull
  <2>2. CASE p # t
    BY <1>1, <1>2, <1>3, <1>6, <2>2 DEF Led
  <2>. QED  BY <2>1, <2>2
<1>7. Led(u, QUERY, "?") /\ Led(u, FRAGMENT, "#")
  BY FramedFacts DEF Record
<1>8. Led(v, QUERY, "?") /\ Led(v, FRAGMENT, "#")
  BY <1>6, <1>7
<1>. QED  BY <1>5, <1>8, RecordKept

\* The port is removed; it may have been the default port of the scheme.
HostFits(u) ==
    /\ HasUserinfo(u) => Piece(u, HOST) # <<>> /\ ~u.inf.file
    /\ u.inf.special => ~IsNull(u, HOST) /\ (u.inf.file \/ Piece(u, HOST) # <<>>)

LEMMA PortRemoved ==
    ASSUME NEW u, Readable(u), NEW v, Readable(v), PartRemoved(u, v, PORT),
           Framed(u), HostFits(u), PrefixFits(u), PathConsistent(u)
    PROVE  Record(v)
<1>1. \A p \in Part : p # PORT => Piece(v, p) = Piece(u, p)
  BY DEF PartRemoved, SameBut
<1>2. /\ Piece(v, SCHEME_SEP) = Piece(u, SCHEME_SEP) /\ Piece(v, USERNAME) = Piece(u, USERNAME)
      /\ Piece(v, PASSWORD) = Piece(u, PASSWORD)
      /\ Piece(v, HOST_START) = Piece(u, HOST_START) /\ Piece(v, HOST) = Piece(u, HOST)
      /\ Piece(v, PATH_PREFIX) = Piece(u, PATH_PREFIX) /\ Piece(v, PATH) = Piece(u, PATH)
      /\ Piece(v, QUERY) = Piece(u, QUERY) /\ Piece(v, FRAGMENT) = Piece(u, FRAGMENT)
  BY <1>1, PartNumbers
<1>3. Piece(v, PORT) = <<>> /\ IsNull(v, PORT) /\ v.inf = u.inf /\ v.segs = u.segs
  BY DEF PartRemoved, IsNull
<1>4. /\ IsNull(v, HOST) <=> IsNull(u, HOST)
      /\ IsNull(v, QUERY) <=> IsNull(u, QUERY)
      /\ IsNull(v, FRAGMENT) <=> IsNull(u, FRAGMENT)
      /\ HasOpaquePath(v) <=> HasOpaquePath(u)
  <2>1. HOST # PORT /\ QUERY # PORT /\ FRAGMENT # PORT /\ OPAQUE_PATH # PORT
    BY PartNumbers DEF OPAQUE_PATH
  <2>. QED  BY <2>1 DEF PartRemoved, IsNull, HasOpaquePath
<1>5. HasUserinfo(v) <=> HasUserinfo(u)
  BY <1>2 DEF HasUserinfo
<1>6. Framed(v)
  <2>1. /\ PasswordFramed(v) /\ PortFramed(v)
        /\ Led(v, QUERY, "?") /\ Led(v, FRAGMENT, "#")
    BY <1>2, <1>3, <1>4 DEF PasswordFramed, PortFramed, Led, Framed
  <2>2. IF IsNull(v, HOST) THEN NullHostFramed(v) ELSE Piece(v, SCHEME_SEP) = <<":", "/", "/">>
    BY <1>2, <1>3, <1>4, <1>5 DEF Framed, NullHostFramed
  <2>3. Piece(v, HOST_START) = IF HasUserinfo(v) THEN <<"@">> ELSE <<>>
    BY <1>2, <1>5 DEF Framed
  <2>4. /\ Piece(v, PATH_PREFIX) \in {<<>>, <<"/", ".">>}
        /\ ~IsNull(v, HOST) => Piece(v, PATH_PREFIX) = <<>>
    BY <1>2, <1>4 DEF Framed
  <2>. QED  BY <2>1, <2>2, <2>3, <2>4 DEF Framed
<1>7. HostConsistent(v)
  BY <1>2, <1>3, <1>4, <1>5 DEF HostConsistent, HostFits
<1>8. View(v, PATH) = View(u, PATH)
  BY <1>2, ReadPieces
<1>9. NeedsPathPrefix(v) <=> NeedsPathPrefix(u)
  BY <1>3, <1>4, <1>8 DEF NeedsPathPrefix
<1>10. PrefixFits(v) /\ PathConsistent(v)
  BY <1>2, <1>3, <1>4, <1>9 DEF PrefixFits, PathConsistent
<1>. QED  BY <1>6, <1>7, <1>10 DEF Record

\* The spaces at the end of an opaque path are removed.
LEMMA StrippedRecord ==
    ASSUME NEW x, Editor(x), Record(x.u)
    PROVE  Record(StripOpaquePath(x).u)
<1>. DEFINE u == x.u
            v == StripOpaquePath(x).u
<1>1. StripOpaquePath(x) = x \/ Stripped(u, v)
  BY StripOpaquePathSound
<1>2. ASSUME Stripped(u, v) PROVE Record(v)
  <2>1. PICK len \in Nat : len =< Len(u.norm) /\ u.ends[SCHEME] + 1 =< len
                           /\ v = StrippedUrl(u, len)
    BY <1>2 DEF Stripped
  <2>2. u \in Url /\ \E l \in Part : CompleteUpTo(u, l)
    BY EditorFacts
  <2>3. PICK l \in Part : CompleteUpTo(u, l)
    BY <2>2
  <2>4. HasOpaquePath(u) /\ IsNull(u, FRAGMENT) /\ IsNull(u, QUERY)
    BY <1>2 DEF Stripped
  <2>. HIDE DEF u, v
  <2>5. PiecesKept(u, v, PATH_PREFIX, PATH)
    BY <2>1, <2>2, <2>3, <2>4, StrippedPieces DEF StrippedUrl
  <2>6. v.flags = u.flags /\ v.inf = u.inf
    BY <2>1, <2>2 DEF StrippedUrl, Url
  <2>7. /\ \A p \in FramePart : p \in Part /\ p =< PATH_PREFIX
        /\ QUERY > PATH /\ FRAGMENT > PATH /\ QUERY \in Part /\ FRAGMENT \in Part
    BY PartNumbers DEF FramePart
  <2>8. SameFrame(u, v)
    BY <2>5, <2>6, <2>7 DEF SameFrame, PiecesKept, IsNull
  <2>9. Led(v, QUERY, "?") /\ Led(v, FRAGMENT, "#")
    BY <2>4, <2>5, <2>6, <2>7 DEF Led, PiecesKept, IsNull
  <2>10. Record(u)
    BY DEF u
  <2>11. Framed(v) /\ HostConsistent(v)
    BY <2>6, <2>8, <2>9, <2>10, FrameKept DEF Record
  <2>12. HasOpaquePath(v) /\ Piece(v, PATH_PREFIX) = Piece(u, PATH_PREFIX)
    BY <2>4, <2>6, <2>8 DEF HasOpaquePath, SameFrame, FramePart
  <2>13. ~u.inf.special
    BY <2>3, <2>4 DEF CompleteUpTo, Sound, HostAgrees
  <2>14. PrefixFits(v)
    BY <2>4, <2>10, <2>12 DEF PrefixFits, Record
  <2>15. PathConsistent(v)
    BY <2>6, <2>12, <2>13 DEF PathConsistent
  <2>. QED  BY <2>11, <2>14, <2>15 DEF Record
<1>. QED  BY <1>1, <1>2

-----------------------------------------------------------------------------
(* The scheme.                                                             *)

LEMMA SchemeBeforeHost ==
    ASSUME NEW x, Appender(x), x.last = SCHEME,
           \A t \in {HOST, PORT, QUERY, FRAGMENT} : IsNull(x.u, t)
    PROVE  BeforeHost(x)
<1>1. EndsUpTo(x.u, SCHEME) /\ x.u \in Url
  BY AppenderFacts DEF Ordered
<1>2. PASSWORD \in Part /\ SCHEME \in Part /\ PASSWORD > SCHEME
  BY PartNumbers
<1>3. Piece(x.u, PASSWORD) = <<>>
  BY <1>1, <1>2, PiecesBehind
<1>. QED  BY <1>3 DEF BeforeHost, PasswordFramed

LEMMA FreshBeforeHost ==
    ASSUME NEW x, Fresh(x)
    PROVE  BeforeHost(x)
<1>1. x.u = EmptyUrl /\ x.last = SCHEME
  BY DEF Fresh
<1>2. \A t \in {HOST, PORT, QUERY, FRAGMENT} : IsNull(x.u, t)
  <2>1. \A t \in {HOST, PORT, QUERY, FRAGMENT} : t \notin InitialFlags
    BY PartNumbers DEF InitialFlags
  <2>. QED  BY <1>1, <2>1 DEF IsNull, EmptyUrl
<1>3. Piece(EmptyUrl, PASSWORD) = <<>>
  <2>1. EmptyUrl.ends[PASSWORD] = 0 /\ PartPos(EmptyUrl, PASSWORD) = 0
    BY PartNumbers DEF EmptyUrl, PartPos
  <2>2. Piece(EmptyUrl, PASSWORD) = Slice(EmptyUrl.norm, 0, 0)
    BY <2>1, PieceSlice
  <2>. QED  BY <2>2, SliceEmpty
<1>. QED  BY <1>1, <1>2, <1>3 DEF BeforeHost, PasswordFramed

\* The flags that say which parts are there stay, when a scheme is written.
LEMMA AppendedSchemeBeforeHost ==
    ASSUME NEW x, Blank(x), BeforeHost(x), NEW str \in Text, str # <<>>
    PROVE  BeforeHost(AppendScheme(x, str))
<1>. DEFINE y == AppendScheme(x, str)
<1>1. Appender(y) /\ SchemeWritten(y) /\ y.u.flags = x.u.flags
  BY AppendSchemeSound
<1>. HIDE DEF y
<1>2. \A t \in {HOST, PORT, QUERY, FRAGMENT} : IsNull(y.u, t)
  BY <1>1 DEF BeforeHost, IsNull
<1>. QED  BY <1>1, <1>2, SchemeBeforeHost DEF SchemeWritten, y

LEMMA OpaqueBeforeHost ==
    ASSUME NEW x, Appender(x), x.last = SCHEME, BeforeHost(x), ~x.u.inf.special
    PROVE  BeforeHost(SetHasOpaquePath(x)) /\ SetHasOpaquePath(x).u.inf = x.u.inf
<1>. DEFINE y == SetHasOpaquePath(x)
<1>1. Appender(y) /\ y.last = SCHEME
  BY SetHasOpaquePathSound DEF BeforeHost
<1>2. x \in Serializer /\ x.u \in Url
  BY AppenderFacts
<1>3. y.u.flags = x.u.flags \cup {OPAQUE_PATH} /\ y.u.inf = x.u.inf
  BY <1>2 DEF SetHasOpaquePath, Expect, Serializer, Url
<1>. HIDE DEF y
<1>4. \A t \in {HOST, PORT, QUERY, FRAGMENT} : IsNull(y.u, t)
  <2>1. \A t \in {HOST, PORT, QUERY, FRAGMENT} : t # OPAQUE_PATH
    BY PartNumbers DEF OPAQUE_PATH
  <2>. QED  BY <1>3, <2>1 DEF BeforeHost, IsNull
<1>5. BeforeHost(y)
  BY <1>1, <1>4, SchemeBeforeHost
<1>. QED  BY <1>3, <1>5 DEF y

\* The scheme of a record is replaced: what the port and the host may be
\* depends on it.
LEMMA ReplacedSchemeRecord ==
    ASSUME NEW x, Editor(x), NEW str \in Text, str # <<>>,
           GetSchemeInfo(str).special = x.u.inf.special,
           Framed(x.u), PrefixFits(x.u), PathConsistent(x.u)
    PROVE  LET y == ReplaceScheme(x, str)
           IN /\ SameFrame(x.u, y.u) /\ Framed(y.u)
              /\ PrefixFits(y.u) /\ PathConsistent(y.u)
              /\ y.u.inf = GetSchemeInfo(str)
<1>. DEFINE y == ReplaceScheme(x, str)
            w == ReplacePart(x.u, SCHEME, str)
            v == [w EXCEPT !.ends[SCHEME] = Len(str), !.inf = GetSchemeInfo(str)]
<1>1. Editor(y) /\ y.u.inf = GetSchemeInfo(str) /\ y.u.flags = x.u.flags
  BY ReplaceSchemeSound
<1>2. x.u \in Url /\ x \in Serializer
  BY EditorFacts
<1>3. PICK l \in Part : CompleteUpTo(x.u, l)
  BY EditorFacts
<1>4. y.u = v
  BY <1>2 DEF ReplaceScheme, Serializer
<1>5. \A t \in Part : t # SCHEME => Piece(v, t) = Piece(x.u, t)
  BY <1>2, <1>3, SchemeReplacedPieces
<1>6. v.segs = x.u.segs
  BY <1>2, <1>3, SchemeReplaced
<1>. HIDE DEF v, y
<1>7. /\ \A t \in FramePart : t \in Part /\ t # SCHEME
      /\ PATH \in Part /\ PATH # SCHEME /\ QUERY \in Part /\ QUERY # SCHEME
      /\ FRAGMENT \in Part /\ FRAGMENT # SCHEME
  BY PartNumbers DEF FramePart
<1>8. SameFrame(x.u, y.u)
  BY <1>1, <1>4, <1>5, <1>7 DEF SameFrame, IsNull
<1>9. Led(y.u, QUERY, "?") /\ Led(y.u, FRAGMENT, "#")
  <2>1. Led(x.u, QUERY, "?") /\ Led(x.u, FRAGMENT, "#")
    BY FramedFacts
  <2>. QED  BY <1>1, <1>4, <1>5, <1>7, <2>1 DEF Led, IsNull
<1>10. Framed(y.u)
  BY <1>8, <1>9, FrameKept
<1>11. /\ Piece(y.u, PATH) = Piece(x.u, PATH) /\ y.u.segs = x.u.segs
       /\ Piece(y.u, PATH_PREFIX) = Piece(x.u, PATH_PREFIX)
       /\ IsNull(y.u, HOST) <=> IsNull(x.u, HOST)
       /\ HasOpaquePath(y.u) <=> HasOpaquePath(x.u)
  BY <1>1, <1>4, <1>5, <1>6, <1>7, <1>8 DEF SameFrame, FramePart, HasOpaquePath
<1>12. View(y.u, PATH) = View(x.u, PATH)
  <2>1. Readable(x.u) /\ Readable(y.u)
    BY <1>1, WrittenIsReadable
  <2>. QED  BY <1>11, <2>1, ReadPieces
<1>13. NeedsPathPrefix(y.u) <=> NeedsPathPrefix(x.u)
  BY <1>11, <1>12 DEF NeedsPathPrefix
<1>14. PrefixFits(y.u)
  BY <1>11, <1>13 DEF PrefixFits
<1>15. PathConsistent(y.u)
  BY <1>1, <1>11 DEF PathConsistent
<1>. QED  BY <1>1, <1>8, <1>10, <1>14, <1>15 DEF y

-----------------------------------------------------------------------------
(* The path.                                                               *)

\* Only the path is not what it was.
OnlyPath(u, v) ==
    SameBut(u, v, {PATH}) /\ v.flags = u.flags /\ v.inf = u.inf

LEMMA OnlyPathKept ==
    ASSUME NEW u, NEW v, OnlyPath(u, v)
    PROVE  /\ Framed(u) => Framed(v)
           /\ HostConsistent(u) => HostConsistent(v)
           /\ SameFrame(u, v)
<1>1. /\ \A t \in FramePart : t \in Part /\ t \notin {PATH}
      /\ QUERY \in Part /\ QUERY \notin {PATH} /\ FRAGMENT \in Part /\ FRAGMENT \notin {PATH}
  BY PartNumbers DEF FramePart
<1>2. SameFrame(u, v)
  BY <1>1 DEF OnlyPath, SameBut, SameFrame, IsNull
<1>3. ASSUME Framed(u) PROVE Framed(v)
  <2>1. Led(u, QUERY, "?") /\ Led(u, FRAGMENT, "#")
    BY <1>3, FramedFacts
  <2>2. Led(v, QUERY, "?") /\ Led(v, FRAGMENT, "#")
    BY <1>1, <2>1 DEF OnlyPath, SameBut, Led, IsNull
  <2>. QED  BY <1>2, <1>3, <2>2, FrameKept
<1>4. ASSUME HostConsistent(u) PROVE HostConsistent(v)
  BY <1>2, <1>4, FrameKept DEF OnlyPath
<1>. QED  BY <1>2, <1>3, <1>4

\* The URL is open for a path: it has its host, or none and only the scheme.
Opened(x) ==
    /\ IF x.last < HOST THEN BeforeHost(x) ELSE Framed(x.u)
    /\ HostConsistent(x.u)

LEMMA OpenedBeforeHost ==
    ASSUME NEW x, Appender(x), Opened(x), x.last < HOST
    PROVE  x.last = SCHEME /\ IsNull(x.u, HOST) /\ ~HasUserinfo(x.u) /\ BeforeHost(x)
<1>1. BeforeHost(x) /\ HostConsistent(x.u)
  BY DEF Opened
<1>2. /\ \A t \in Part : t >= HOST_START => Piece(x.u, t) = <<>>
      /\ x.last = SCHEME => ~HasUserinfo(x.u)
      /\ IsNull(x.u, HOST)
  BY <1>1, BeforeHostFacts
<1>3. Piece(x.u, HOST) = <<>>
  BY <1>2, PartNumbers
<1>4. ~HasUserinfo(x.u)
  BY <1>1, <1>3 DEF HostConsistent
<1>. QED  BY <1>1, <1>2, <1>4 DEF BeforeHost

\* A path right after the scheme.
LEMMA PathAfterScheme ==
    ASSUME NEW x, Appender(x), x.last = SCHEME, BeforeHost(x), HostConsistent(x.u),
           NEW s \in Text
    PROVE  LET v == PutPart(x, PATH, s).u
           IN /\ v.flags = x.u.flags => Framed(v)
              /\ \A t \in {USERNAME, PASSWORD, HOST_START, HOST, PORT, PATH_PREFIX, QUERY,
                           FRAGMENT} : Piece(v, t) = <<>>
              /\ Piece(v, PATH) = s
<1>. DEFINE v == PutPart(x, PATH, s).u
<1>1. /\ PATH \in Part /\ PATH > SCHEME_SEP /\ PATH # HOST_START /\ x.last < PATH
      /\ SCHEME # PATH /\ SCHEME # USERNAME /\ SCHEME < SCHEME_SEP /\ SCHEME_SEP < PATH
      /\ SCHEME_SEP \in Part
  BY PartNumbers
<1>2. PiecesAppended(x.u, v, SCHEME, PATH, s)
  BY <1>1, AppenderPieces
<1>. HIDE DEF v
<1>3. Piece(v, PATH) = s
  <2>1. Lead(PATH) = <<>>
    BY PartNumbers DEF Lead
  <2>2. <<>> \o s = s
    BY JoinEmpty
  <2>. QED  BY <1>1, <1>2, <2>1, <2>2 DEF PiecesAppended
<1>4. Piece(v, SCHEME_SEP) = <<":">>
  <2>1. Separator(SCHEME, PATH) = <<>>
    BY PartNumbers DEF Separator
  <2>2. <<":">> \in Text /\ <<":">> \o <<>> = <<":">>
    BY CharAssumption DEF Text, Written
  <2>3. Piece(v, SCHEME_SEP) = <<":">> \o Separator(SCHEME, PATH)
    BY <1>1, <1>2 DEF PiecesAppended
  <2>. QED  BY <2>1, <2>2, <2>3
<1>5. /\ \A t \in {USERNAME, PASSWORD, HOST, PORT, PATH_PREFIX} : Piece(v, t) = <<>>
      /\ Piece(v, HOST_START) = <<>>
  <2>1. \A t \in {USERNAME, PASSWORD, HOST, PORT, PATH_PREFIX, HOST_START} :
           t \in Part /\ SCHEME < t /\ t < PATH /\ t # SCHEME_SEP
    BY PartNumbers
  <2>2. SCHEME \notin {USERNAME, PASSWORD}
    BY PartNumbers
  <2>. QED  BY <1>2, <2>1, <2>2 DEF PiecesAppended
<1>6. Piece(v, QUERY) = <<>> /\ Piece(v, FRAGMENT) = <<>>
  BY <1>2, PartNumbers DEF PiecesAppended
<1>7. ASSUME v.flags = x.u.flags PROVE Framed(v)
  <2>1. \A t \in {HOST, PORT, QUERY, FRAGMENT} : IsNull(v, t)
    BY <1>7 DEF BeforeHost, IsNull
  <2>2. ~HasUserinfo(v)
    BY <1>5 DEF HasUserinfo
  <2>3. NullHostFramed(v)
    BY <1>4, <1>5, <2>1, <2>2 DEF NullHostFramed
  <2>4. PasswordFramed(v) /\ PortFramed(v) /\ Led(v, QUERY, "?") /\ Led(v, FRAGMENT, "#")
    BY <1>5, <1>6, <2>1 DEF PasswordFramed, PortFramed, Led
  <2>. QED  BY <1>5, <2>1, <2>2, <2>3, <2>4 DEF Framed
<1>. QED  BY <1>3, <1>5, <1>6, <1>7 DEF v

\* Text is added to the path.
LEMMA PathAppended ==
    ASSUME NEW x, Appender(x), Opened(x), x.last =< PATH, ~HasOpaquePath(x.u),
           NEW s \in Text
    PROVE  LET z == PutPart(x, PATH, s)
           IN /\ Framed(z.u) /\ HostConsistent(z.u)
              /\ Piece(z.u, PATH) = Piece(x.u, PATH) \o s
<1>. DEFINE z == PutPart(x, PATH, s)
<1>1. x.last \in Int /\ x.last \in Part /\ x.u \in Url
  BY AppenderFacts, PartInt
<1>2. SamePlan(x, z)
  <2>1. PATH \in {USERNAME, PASSWORD, PORT, PATH, QUERY, FRAGMENT}
    OBVIOUS
  <2>2. x.last < PATH \/ (x.last = PATH /\ PATH = PATH)
    BY <1>1, PartNumbers
  <2>. QED  BY <2>1, <2>2, AppenderPut
<1>. HIDE DEF z
<1>3. CASE x.last < HOST
  <2>1. x.last = SCHEME /\ BeforeHost(x) /\ HostConsistent(x.u) /\ IsNull(x.u, HOST)
    BY <1>3, OpenedBeforeHost DEF Opened
  <2>2. /\ z.u.flags = x.u.flags => Framed(z.u)
        /\ \A t \in {USERNAME, PASSWORD, HOST_START, HOST, PORT, PATH_PREFIX, QUERY,
                     FRAGMENT} : Piece(z.u, t) = <<>>
        /\ Piece(z.u, PATH) = s
    BY <2>1, PathAfterScheme DEF z
  <2>3. Framed(z.u)
    BY <1>2, <2>2 DEF SamePlan
  <2>4. ~HasUserinfo(z.u) /\ IsNull(z.u, PORT) /\ IsNull(z.u, HOST) /\ z.u.inf = x.u.inf
    BY <1>2, <2>1, <2>2 DEF HasUserinfo, SamePlan, IsNull, BeforeHost
  <2>5. HostConsistent(z.u)
    BY <2>1, <2>4 DEF HostConsistent
  <2>6. Piece(x.u, PATH) = <<>>
    BY <2>1, BeforeHostFacts, PartNumbers
  <2>7. <<>> \o s = s
    BY JoinEmpty
  <2>. QED  BY <2>2, <2>3, <2>5, <2>6, <2>7 DEF z
<1>4. CASE ~(x.last < HOST)
  <2>1. x.last >= HOST /\ (x.last < PATH \/ x.last = PATH)
    BY <1>1, <1>4, PartNumbers
  <2>2. PATH \in {PORT, PATH, QUERY, FRAGMENT}
    OBVIOUS
  <2>3. /\ SameBut(x.u, z.u, {PATH})
        /\ Piece(z.u, PATH) = IF x.last = PATH THEN Piece(x.u, PATH) \o s ELSE Lead(PATH) \o s
    BY <2>1, <2>2, AppenderTailPieces DEF z
  <2>4. OnlyPath(x.u, z.u)
    BY <1>2, <2>3 DEF OnlyPath, SamePlan
  <2>5. Framed(z.u) /\ HostConsistent(z.u)
    BY <1>4, <2>4, OnlyPathKept DEF Opened
  <2>6. Piece(z.u, PATH) = Piece(x.u, PATH) \o s
    <3>1. CASE x.last = PATH
      BY <2>3, <3>1
    <3>2. CASE x.last # PATH
      <4>1. Lead(PATH) = <<>>
        BY PartNumbers DEF Lead
      <4>2. Piece(x.u, PATH) = <<>>
        <5>1. EndsUpTo(x.u, x.last)
          BY AppenderFacts DEF Ordered
        <5>2. PATH \in Part /\ PATH > x.last
          BY <1>1, <2>1, <3>2, PartNumbers
        <5>. QED  BY <1>1, <5>1, <5>2, PiecesBehind
      <4>. QED  BY <2>3, <3>2, <4>1, <4>2
    <3>. QED  BY <3>1, <3>2
  <2>. QED  BY <2>5, <2>6 DEF z
<1>. QED  BY <1>3, <1>4

\* A segment is written: the path is not empty.
LEMMA SegmentRecord ==
    ASSUME NEW x, Pathing(x), Opened(x), NEW s \in Text
    PROVE  LET y == PutSegment(x, s)
           IN /\ Framed(y.u) /\ HostConsistent(y.u) /\ Piece(y.u, PATH) # <<>>
              /\ y.u.flags = x.u.flags
<1>. DEFINE z == PutPart(x, PATH, <<"/">> \o s)
            y == [z EXCEPT !.u.segs = z.u.segs + 1]
<1>1. x.setter = FALSE /\ x.last \in Part /\ x.u.segs \in Nat /\ x.u \in Url /\ Appender(x)
  BY AppenderFacts, UrlType DEF Pathing
<1>2. PutSegment(x, s) = y
  BY <1>1 DEF PutSegment
<1>3. <<"/">> \o s \in Text /\ Len(<<"/">> \o s) > 0
  <2>1. <<"/">> \in Text /\ Len(<<"/">>) = 1
    BY CharAssumption DEF Text, Written
  <2>2. Len(s) \in Nat
    BY DEF Text
  <2>. QED  BY <2>1, <2>2, ConcatText
<1>4. x.last < PATH \/ (x.last = PATH /\ PATH = PATH)
  <2>1. x.last \in Int /\ x.last =< PATH /\ PATH = 8
    BY <1>1, PartInt, PartNumbers DEF Pathing
  <2>. QED  BY <2>1
<1>5. Appender(z) /\ SamePlan(x, z)
  <2>1. PATH \in {USERNAME, PASSWORD, PORT, PATH, QUERY, FRAGMENT}
    OBVIOUS
  <2>. QED  BY <1>3, <1>4, <2>1, AppenderPut DEF Pathing
<1>6. /\ Framed(z.u) /\ HostConsistent(z.u)
      /\ Piece(z.u, PATH) = Piece(x.u, PATH) \o (<<"/">> \o s)
  BY <1>1, <1>3, PathAppended DEF Pathing
<1>7. z \in Serializer /\ z.u \in Url
  BY <1>5, AppenderFacts
<1>. HIDE DEF z
<1>8. y.u = [z.u EXCEPT !.segs = z.u.segs + 1]
  BY <1>7 DEF Serializer
<1>9. /\ y.u.norm = z.u.norm /\ y.u.ends = z.u.ends
      /\ y.u.flags = z.u.flags /\ y.u.inf = z.u.inf
  BY <1>7, <1>8 DEF Url
<1>. HIDE DEF y
<1>10. \A t : Piece(y.u, t) = Piece(z.u, t)
  BY <1>9, SamePieces
<1>11. OnlyPath(z.u, y.u)
  BY <1>9, <1>10 DEF OnlyPath, SameBut
<1>12. Framed(y.u) /\ HostConsistent(y.u)
  BY <1>6, <1>11, OnlyPathKept
<1>13. Piece(y.u, PATH) # <<>>
  <2>1. Piece(x.u, PATH) \in Text
    <3>1. Readable(x.u) /\ PATH \in Part
      BY <1>1, WrittenIsReadable, PartNumbers
    <3>. QED  BY <3>1, ReadPieces
  <2>2. Len(Piece(x.u, PATH) \o (<<"/">> \o s)) = Len(Piece(x.u, PATH)) + Len(<<"/">> \o s)
    BY <1>3, <2>1, ConcatText
  <2>3. Len(Piece(x.u, PATH)) \in Nat /\ Len(<<"/">> \o s) \in Nat
    BY <1>3, <2>1 DEF Text
  <2>4. Len(Piece(y.u, PATH)) > 0
    BY <1>3, <1>6, <1>10, <2>2, <2>3
  <2>. QED  BY <2>4
<1>14. y.u.flags = x.u.flags
  BY <1>5, <1>9 DEF SamePlan
<1>. QED  BY <1>2, <1>12, <1>13, <1>14

\* The last segment is dropped.
LEMMA ShortenedRecord ==
    ASSUME NEW x, Pathing(x), Opened(x)
    PROVE  Opened(ShortenPath(x))
<1>1. /\ x \in Serializer /\ x.u \in Url /\ x.setter = FALSE /\ x.last \in Part
      /\ Sound(x.u, x.last) /\ x.sane = TRUE /\ Appender(x)
      /\ ~HasOpaquePath(x.u) /\ x.last =< PATH
  BY AppenderFacts DEF Pathing
<1>2. CASE ~CanShorten(x.u)
  <2>1. ShortenPath(x) = Expect(x, x.last =< PATH /\ ~HasOpaquePath(x.u))
    BY <1>1, <1>2 DEF ShortenPath
  <2>2. ShortenPath(x) = x
    BY <1>1, <2>1, ExpectHolds, Zenon
  <2>. QED  BY <2>2
<1>3. CASE CanShorten(x.u)
  <2>. DEFINE end == RemLastEnd(x.u)
              v == [x.u EXCEPT !.norm = SubSeq(@, 1, end), !.ends[PATH] = end,
                               !.segs = @ - 1]
              y == ShortenPath(x)
  <2>1. x.u.segs > 0 /\ x.last = PATH
    BY <1>3 DEF CanShorten, Pathing
  <2>2. y.u = v /\ y.last = x.last
    BY <1>1, <1>3 DEF ShortenPath, Expect, Serializer
  <2>3. PiecesKept(x.u, v, PATH_PREFIX, PATH)
    BY <1>1, <2>1, PathCutPieces
  <2>4. v.flags = x.u.flags /\ v.inf = x.u.inf
    BY <1>1 DEF Url
  <2>. HIDE DEF v, y
  <2>5. EndsUpTo(x.u, PATH)
    BY <1>1, <2>1 DEF Sound, Ordered
  <2>6. \A t \in Part : t > PATH => Piece(x.u, t) = <<>>
    BY <1>1, <2>1, <2>5, PiecesBehind
  <2>7. \A t \in Part : t =< PATH_PREFIX \/ t = PATH \/ t > PATH
    BY PartInt, PartNumbers
  <2>8. SameBut(x.u, v, {PATH})
    BY <2>3, <2>6, <2>7 DEF SameBut, PiecesKept
  <2>9. OnlyPath(x.u, v)
    BY <2>4, <2>8 DEF OnlyPath
  <2>10. ~(PATH < HOST)
    BY PartNumbers
  <2>11. Framed(v) /\ HostConsistent(v)
    BY <2>1, <2>9, <2>10, OnlyPathKept DEF Opened
  <2>12. Opened(y)
    BY <2>1, <2>2, <2>10, <2>11 DEF Opened
  <2>. QED  BY <2>12 DEF y
<1>. QED  BY <1>2, <1>3

\* An opaque path is written.
LEMMA PathStringRecord ==
    ASSUME NEW x, Appender(x), x.last = SCHEME, BeforeHost(x), ~x.u.inf.special,
           HasOpaquePath(x.u), NEW s \in Text, x.u.segs = 0
    PROVE  Record(PutPathString(x, s).u)
<1>. DEFINE z == PutPart(x, PATH, s)
<1>1. z = PutPathString(x, s)
  <2>1. PutPathString(x, s) = Expect(z, x.u.segs = 0)
    BY DEF PutPathString
  <2>2. z \in Serializer
    <3>1. PATH \in {USERNAME, PASSWORD, PORT, PATH, QUERY, FRAGMENT} /\ PATH > PATH_PREFIX
          /\ x.last < PATH
      BY PartNumbers
    <3>2. Appender(z)
      BY <3>1, AppenderPut
    <3>. QED  BY <3>2, AppenderFacts
  <2>. HIDE DEF z
  <2>3. Expect(z, x.u.segs = 0) = z
    BY <2>2, ExpectHolds, Zenon
  <2>. QED  BY <2>1, <2>3
<1>2. SamePlan(x, z)
  <2>1. SamePlan(x, PutPathString(x, s))
    BY PutPathStringSound
  <2>. QED  BY <1>1, <2>1
<1>3. ~HasUserinfo(x.u) /\ \A t \in {HOST, PORT, QUERY, FRAGMENT} : IsNull(x.u, t)
  BY BeforeHostFacts
<1>4. HostConsistent(x.u)
  BY <1>3 DEF HostConsistent
<1>5. /\ z.u.flags = x.u.flags => Framed(z.u)
      /\ \A t \in {USERNAME, PASSWORD, HOST_START, HOST, PORT, PATH_PREFIX, QUERY,
                   FRAGMENT} : Piece(z.u, t) = <<>>
      /\ Piece(z.u, PATH) = s
  BY <1>4, PathAfterScheme
<1>. HIDE DEF z
<1>6. Framed(z.u)
  BY <1>2, <1>5 DEF SamePlan
<1>7. /\ ~HasUserinfo(z.u) /\ IsNull(z.u, PORT) /\ IsNull(z.u, HOST)
      /\ ~z.u.inf.special /\ HasOpaquePath(z.u)
  BY <1>2, <1>3, <1>5 DEF HasUserinfo, SamePlan, IsNull, HasOpaquePath
<1>8. HostConsistent(z.u) /\ PathConsistent(z.u)
  BY <1>7 DEF HostConsistent, PathConsistent
<1>9. PrefixFits(z.u)
  BY <1>5, <1>7 DEF PrefixFits
<1>. QED  BY <1>1, <1>6, <1>8, <1>9 DEF Record

\* The prefix of the path of a URL without host is replaced.
LEMMA PrefixReplaced ==
    ASSUME NEW u \in Url, NEW l \in Part, Sound(u, l), ~HasOpaquePath(u),
           l >= PATH_PREFIX, IsNull(u, HOST),
           Framed(u), HostConsistent(u), PathConsistent(u),
           NEW s \in {<<>>, <<"/", ".">>},
           s = IF NeedsPathPrefix(u) THEN <<"/", ".">> ELSE <<>>
    PROVE  Record(ReplacePart(u, PATH_PREFIX, s))
<1>. DEFINE v == ReplacePart(u, PATH_PREFIX, s)
<1>1. EndsUpTo(u, l) /\ Ordered(u, l) /\ Readable(u)
  BY DEF Sound, Ordered, Readable
<1>2. s \in Text /\ 0 \in 0 .. Len(s)
  <2>1. <<>> \in Text /\ <<"/", ".">> \in Text
    BY CharAssumption DEF Text, Written
  <2>2. s \in Text
    BY <2>1
  <2>. QED  BY <2>2 DEF Text
<1>3. PATH_PREFIX \in Part /\ PATH_PREFIX # SCHEME /\ PATH_PREFIX =< PATH_PREFIX
      /\ PATH_PREFIX =< l
  <2>1. l \in Int
    BY PartInt
  <2>. QED  BY <2>1, PartNumbers
<1>4. v = ReplaceParts(u, PATH_PREFIX, PATH_PREFIX, s, 0)
  BY DEF ReplacePart
<1>. HIDE DEF v
<1>5. PiecesReplaced(u, v, PATH_PREFIX, PATH_PREFIX, s, 0)
  BY <1>1, <1>2, <1>3, <1>4, ReplacedPieces
<1>6. /\ v \in Url /\ v.inf = u.inf /\ v.flags = u.flags /\ v.segs = u.segs
      /\ EndsUpTo(v, l)
  BY <1>1, <1>2, <1>3, <1>4, ReplacePartsEnds
<1>7. Piece(v, PATH_PREFIX) = s
  BY <1>5 DEF PiecesReplaced
<1>8. \A t \in Part : t # PATH_PREFIX => Piece(v, t) = Piece(u, t)
  <2>1. \A t \in Part : t # PATH_PREFIX => t < PATH_PREFIX \/ t > PATH_PREFIX
    BY <1>3, PartInt
  <2>. QED  BY <1>5, <2>1 DEF PiecesReplaced
<1>9. /\ Piece(v, SCHEME_SEP) = Piece(u, SCHEME_SEP) /\ Piece(v, USERNAME) = Piece(u, USERNAME)
      /\ Piece(v, PASSWORD) = Piece(u, PASSWORD)
      /\ Piece(v, HOST_START) = Piece(u, HOST_START) /\ Piece(v, HOST) = Piece(u, HOST)
      /\ Piece(v, PORT) = Piece(u, PORT) /\ Piece(v, PATH) = Piece(u, PATH)
      /\ Piece(v, QUERY) = Piece(u, QUERY) /\ Piece(v, FRAGMENT) = Piece(u, FRAGMENT)
  BY <1>8, PartNumbers
<1>10. HasUserinfo(v) <=> HasUserinfo(u)
  BY <1>9 DEF HasUserinfo
<1>11. Framed(v)
  <2>1. NullHostFramed(v)
    BY <1>6, <1>9, <1>10 DEF NullHostFramed, Framed, IsNull
  <2>2. /\ PasswordFramed(v) /\ PortFramed(v)
        /\ Led(v, QUERY, "?") /\ Led(v, FRAGMENT, "#")
    BY <1>6, <1>9 DEF PasswordFramed, PortFramed, Led, Framed, IsNull
  <2>3. Piece(v, HOST_START) = IF HasUserinfo(v) THEN <<"@">> ELSE <<>>
    BY <1>9, <1>10 DEF Framed
  <2>4. IsNull(v, HOST)
    BY <1>6 DEF IsNull
  <2>. QED  BY <1>7, <2>1, <2>2, <2>3, <2>4 DEF Framed
<1>12. HostConsistent(v)
  BY <1>6, <1>9, <1>10 DEF HostConsistent, IsNull
<1>13. PathConsistent(v)
  BY <1>6, <1>9 DEF PathConsistent, IsNull, HasOpaquePath
<1>14. View(v, PATH) = View(u, PATH)
  <2>1. Readable(v)
    BY <1>6 DEF Readable
  <2>. QED  BY <1>1, <1>9, <2>1, ReadPieces
<1>15. NeedsPathPrefix(v) <=> NeedsPathPrefix(u)
  BY <1>6, <1>14 DEF NeedsPathPrefix, IsNull
<1>16. ~HasOpaquePath(v)
  BY <1>6 DEF HasOpaquePath
<1>17. PrefixFits(v)
  BY <1>7, <1>15, <1>16 DEF PrefixFits
<1>. QED  BY <1>11, <1>12, <1>13, <1>17 DEF Record, v

\* "/." is put before the path, or taken away.
LEMMA AdjustedRecord ==
    ASSUME NEW u \in Url, NEW l \in Part, Sound(u, l), ~HasOpaquePath(u),
           l >= PATH_PREFIX \/ ~IsNull(u, HOST),
           Framed(u), HostConsistent(u), PathConsistent(u)
    PROVE  Record(AdjustPathPrefix(u))
<1>1. EndsUpTo(u, l) /\ Ordered(u, l) /\ Readable(u)
  BY DEF Sound, Ordered, Readable
<1>2. IsEmpty(u, PATH_PREFIX) <=> Piece(u, PATH_PREFIX) = <<>>
  BY <1>1, ReadPieces
<1>3. Piece(u, PATH_PREFIX) \in {<<>>, <<"/", ".">>}
  BY FramedFacts
<1>4. ASSUME AdjustPathPrefix(u) = u, IsEmpty(u, PATH_PREFIX) <=> ~NeedsPathPrefix(u)
      PROVE  Record(AdjustPathPrefix(u))
  <2>1. PrefixFits(u)
    BY <1>2, <1>3, <1>4 DEF PrefixFits
  <2>. QED  BY <1>4, <2>1 DEF Record
<1>5. CASE ~IsNull(u, HOST)
  <2>1. ~NeedsPathPrefix(u) /\ IsEmpty(u, PATH_PREFIX)
    BY <1>2, <1>5, FramedFacts DEF NeedsPathPrefix
  <2>2. AdjustPathPrefix(u) = u
    BY <2>1 DEF AdjustPathPrefix
  <2>. QED  BY <1>4, <2>1, <2>2
<1>6. CASE IsNull(u, HOST) /\ IsEmpty(u, PATH_PREFIX) /\ NeedsPathPrefix(u)
  <2>1. AdjustPathPrefix(u) = ReplacePart(u, PATH_PREFIX, <<"/", ".">>)
    BY <1>6 DEF AdjustPathPrefix
  <2>. QED  BY <1>6, <2>1, PrefixReplaced
<1>7. CASE IsNull(u, HOST) /\ ~IsEmpty(u, PATH_PREFIX) /\ ~NeedsPathPrefix(u)
  <2>1. AdjustPathPrefix(u) = ReplacePart(u, PATH_PREFIX, <<>>)
    BY <1>7 DEF AdjustPathPrefix
  <2>. QED  BY <1>7, <2>1, PrefixReplaced
<1>8. CASE ~(IsEmpty(u, PATH_PREFIX) /\ NeedsPathPrefix(u))
           /\ ~(~IsEmpty(u, PATH_PREFIX) /\ ~NeedsPathPrefix(u))
  <2>1. AdjustPathPrefix(u) = u
    BY <1>8 DEF AdjustPathPrefix
  <2>. QED  BY <1>4, <1>8, <2>1
<1>. QED  BY <1>5, <1>6, <1>7, <1>8

\* url_serializer has its path in place.
LEMMA AppenderCommitRecord ==
    ASSUME NEW x, Appender(x), ~HasOpaquePath(x.u), x.last = PATH \/ HostWritten(x),
           Framed(x.u), HostConsistent(x.u), PathConsistent(x.u)
    PROVE  Record(CommitPath(x).u)
<1>1. /\ x \in Serializer /\ x.u \in Url /\ x.setter = FALSE /\ x.last \in Part
      /\ Sound(x.u, x.last)
  BY AppenderFacts
<1>2. CommitPath(x).u = AdjustPathPrefix(x.u)
  BY <1>1 DEF CommitPath, Serializer
<1>3. x.last >= PATH_PREFIX \/ ~IsNull(x.u, HOST)
  BY PartNumbers DEF HostWritten
<1>. QED  BY <1>1, <1>2, <1>3, AdjustedRecord

\* The ends that are filled before the path is replaced are those of empty parts.
LEMMA FilledPieces ==
    ASSUME NEW u \in Url, NEW l \in Part, Sound(u, l), l >= HOST, ~HasOpaquePath(u)
    PROVE  \A t \in Part : Piece(FilledUpToPath(u), t) = Piece(u, t)
<1>. DEFINE v == FilledUpToPath(u)
            n == Len(u.norm)
<1>1. /\ v \in Url /\ v.norm = u.norm
      /\ \A t \in Part : l < t /\ t =< PATH => v.ends[t] = n
      /\ \A t \in Part : ~(l < t /\ t =< PATH) => v.ends[t] = u.ends[t]
  BY FilledUpToPathSound
<1>. HIDE DEF v
<1>2. Ordered(u, l) /\ EndsUpTo(u, l) /\ n \in Nat
  BY UrlType DEF Sound, Ordered
<1>3. l \in Int /\ l # SCHEME /\ (\A t \in Part : t \in Int) /\ PATH \in Int
  BY PartInt, PartNumbers
<1>4. (\A t \in Part : t > l => u.ends[t] = 0) /\ n = u.ends[l]
  BY <1>2, <1>3, OrderedFacts
<1>5. SUFFICES ASSUME NEW t \in Part PROVE Piece(v, t) = Piece(u, t)
  BY DEF v
<1>6. t \in Int /\ (t # SCHEME => t - 1 \in Part) /\ (t > l => t # SCHEME)
  BY <1>3, PartInt
<1>7. CASE t =< l
  <2>1. v.ends[t] = u.ends[t]
    BY <1>1, <1>3, <1>6, <1>7
  <2>2. t # SCHEME => v.ends[t - 1] = u.ends[t - 1]
    <3>1. ~(l < t - 1)
      BY <1>3, <1>6, <1>7
    <3>. QED  BY <1>1, <1>6, <3>1
  <2>. QED  BY <1>1, <2>1, <2>2 DEF Piece, PartPos
<1>8. CASE t > l
  <2>1. Piece(u, t) = <<>>
    BY <1>2, <1>8, PiecesBehind
  <2>2. PartPos(v, t) = v.ends[t - 1] /\ v.ends[t - 1] \in Nat
    BY <1>1, <1>6, <1>8, UrlType DEF PartPos
  <2>3. Piece(v, t) = Slice(v.norm, v.ends[t - 1], v.ends[t])
    BY <2>2, PieceSlice
  <2>4. v.ends[t] =< v.ends[t - 1] /\ v.ends[t] \in Nat
    <3>1. CASE t > PATH
      <4>1. v.ends[t] = 0
        BY <1>1, <1>3, <1>4, <1>6, <1>8, <3>1
      <4>. QED  BY <2>2, <4>1
    <3>2. CASE t =< PATH /\ t - 1 = l
      <4>1. v.ends[t] = n
        BY <1>1, <1>8, <3>2
      <4>2. ~(l < l)
        BY <1>3
      <4>3. v.ends[l] = u.ends[l]
        BY <1>1, <4>2
      <4>. QED  BY <1>2, <1>4, <3>2, <4>1, <4>3
    <3>3. CASE t =< PATH /\ t - 1 # l
      <4>1. l < t - 1 /\ t - 1 =< PATH
        BY <1>3, <1>6, <1>8, <3>3
      <4>2. v.ends[t] = n /\ v.ends[t - 1] = n
        BY <1>1, <1>6, <1>8, <3>3, <4>1
      <4>. QED  BY <1>2, <4>2
    <3>. QED  BY <1>3, <1>6, <3>1, <3>2, <3>3
  <2>. QED  BY <2>1, <2>2, <2>3, <2>4, SliceEmpty
<1>. QED  BY <1>3, <1>6, <1>7, <1>8

\* url_setter puts the path that it collected in place: z is the url
\* before the prefix of the path is adjusted.
Committed(x, z) ==
    /\ z \in Url /\ \E m \in Part : m >= PATH /\ Sound(z, m)
    /\ OnlyPath(x.u, z) /\ Piece(z, PATH) = x.buf /\ z.segs = Len(x.segEnd)
    /\ CommitPath(x).u = AdjustPathPrefix(z)

LEMMA EditorCommit ==
    ASSUME NEW x, Editor(x), ~HasOpaquePath(x.u)
    PROVE  \E z : Committed(x, z)
<1>. DEFINE w == FilledUpToPath(x.u)
            u == ReplacePart(w, PATH, x.buf)
            z == [u EXCEPT !.segs = Len(x.segEnd)]
<1>1. x \in Serializer /\ x.u \in Url /\ x.setter = TRUE /\ IsValid(x.u)
      /\ x.buf \in Text /\ x.segEnd \in Seq(Nat)
  BY EditorFacts, SerializerType
<1>2. CommitPath(x).u = AdjustPathPrefix(z)
  BY <1>1 DEF CommitPath, Serializer
<1>3. PICK l \in Part : CompleteUpTo(x.u, l)
  BY EditorFacts
<1>4. Sound(x.u, l) /\ l >= HOST
  BY <1>3 DEF CompleteUpTo
<1>5. /\ w \in Url /\ w.flags = x.u.flags /\ w.inf = x.u.inf
      /\ \E m \in Part : m >= PATH /\ Sound(w, m)
  BY <1>1, <1>4, FilledUpToPathSound
<1>6. \A t \in Part : Piece(w, t) = Piece(x.u, t)
  BY <1>1, <1>4, FilledPieces
<1>. HIDE DEF w
<1>7. OnlyPath(x.u, w)
  BY <1>5, <1>6 DEF OnlyPath, SameBut
<1>8. PICK m \in Part : m >= PATH /\ Sound(w, m)
  BY <1>5
<1>9. ~HasOpaquePath(w)
  BY <1>5 DEF HasOpaquePath
<1>10. /\ PATH \in Part /\ PATH # SCHEME /\ PATH =< PATH /\ PATH =< m /\ PATH # SCHEME_SEP
       /\ PATH > HOST
  <2>1. m \in Int /\ m >= PATH
    BY <1>8, PartInt
  <2>. QED  BY <2>1, PartNumbers
<1>11. 0 \in 0 .. Len(x.buf)
  BY <1>1 DEF Text
<1>12. Replaced(w, u, m, PATH, PATH)
  BY <1>1, <1>5, <1>8, <1>10, <1>11, ReplacePartsSound DEF ReplacePart, Sound
<1>13. PiecesReplaced(w, u, PATH, PATH, x.buf, 0)
  BY <1>1, <1>5, <1>8, <1>10, <1>11, ReplacedPieces DEF ReplacePart, Sound
<1>. HIDE DEF u
<1>14. Rewritten(w, u) /\ Ordered(u, m) /\ HostAgrees(u, m)
  BY <1>8, <1>9, <1>10, <1>12 DEF Replaced, Sound
<1>15. u \in Url /\ u.flags = w.flags /\ u.inf = w.inf
  BY <1>14 DEF Rewritten
<1>16. \A t \in Part : t # PATH => t < PATH \/ t > PATH
  BY <1>10, PartInt
<1>17. OnlyPath(w, u) /\ Piece(u, PATH) = x.buf
  BY <1>13, <1>15, <1>16 DEF OnlyPath, SameBut, PiecesReplaced
<1>18. Len(x.segEnd) \in Nat
  BY <1>1
<1>19. /\ z \in Url /\ SameText(u, z) /\ z.flags = u.flags /\ z.inf = u.inf
       /\ z.segs = Len(x.segEnd)
  BY <1>15, <1>18 DEF Url, SameText
<1>. HIDE DEF z
<1>20. \A t : Piece(z, t) = Piece(u, t)
  BY <1>19, SamePieces DEF SameText
<1>21. OnlyPath(u, z)
  BY <1>19, <1>20 DEF OnlyPath, SameBut
<1>22. ~HasOpaquePath(z) /\ (IsNull(z, HOST) <=> IsNull(x.u, HOST))
  BY <1>5, <1>9, <1>15, <1>19 DEF HasOpaquePath, IsNull
<1>23. Sound(z, m)
  <2>1. IsNull(z, HOST) => IsNull(u, HOST)
    BY <1>19 DEF IsNull
  <2>2. Sound(u, m)
    BY <1>14 DEF Sound
  <2>. QED  BY <1>15, <1>19, <1>22, <2>1, <2>2, SameTextSound
<1>24. OnlyPath(x.u, z)
  <2>1. \A t \in Part : t \notin {PATH} => Piece(z, t) = Piece(x.u, t)
    BY <1>7, <1>17, <1>21 DEF OnlyPath, SameBut
  <2>. QED  BY <1>5, <1>15, <1>19, <2>1 DEF OnlyPath, SameBut
<1>25. Piece(z, PATH) = x.buf
  BY <1>17, <1>20
<1>26. Committed(x, z)
  BY <1>2, <1>8, <1>19, <1>23, <1>24, <1>25 DEF Committed
<1>. QED  BY <1>26

LEMMA EditorCommitRecord ==
    ASSUME NEW x, Editor(x), ~HasOpaquePath(x.u), Record(x.u),
           x.u.inf.special \/ IsNull(x.u, HOST) => x.buf # <<>>
    PROVE  Record(CommitPath(x).u)
<1>1. PICK z : Committed(x, z)
  BY EditorCommit
<1>2. PICK m \in Part : m >= PATH /\ Sound(z, m)
  BY <1>1 DEF Committed
<1>3. m >= PATH_PREFIX
  BY <1>2, PartNumbers, PartInt
<1>4. ~HasOpaquePath(z) /\ (IsNull(z, HOST) <=> IsNull(x.u, HOST)) /\ z.inf = x.u.inf
  BY <1>1 DEF Committed, OnlyPath, HasOpaquePath, IsNull
<1>5. Framed(z) /\ HostConsistent(z)
  BY <1>1, OnlyPathKept DEF Committed, Record
<1>6. PathConsistent(z)
  BY <1>1, <1>4 DEF Committed, PathConsistent
<1>7. z \in Url /\ CommitPath(x).u = AdjustPathPrefix(z)
  BY <1>1 DEF Committed
<1>. QED  BY <1>2, <1>3, <1>4, <1>5, <1>6, <1>7, AdjustedRecord

-----------------------------------------------------------------------------
(* The credentials.                                                        *)

LEMMA ColonFirst ==
    ASSUME NEW s \in Text, s # <<>>
    PROVE  /\ Len(<<":">> \o s) > 1 /\ StartsWith(<<":">> \o s, ":")
           /\ <<":">> \o s # <<>>
<1>1. <<":">> \in Text /\ Len(<<":">>) = 1 /\ <<":">>[1] = ":"
  BY CharAssumption DEF Text, Written
<1>2. Len(s) \in Nat /\ Len(s) > 0
  BY DEF Text
<1>3. /\ Len(<<":">> \o s) = Len(<<":">>) + Len(s)
      /\ \A i \in 1 .. Len(<<":">>) : (<<":">> \o s)[i] = <<":">>[i]
  BY <1>1, ConcatText
<1>4. Len(<<":">> \o s) > 1 /\ (<<":">> \o s)[1] = ":"
  BY <1>1, <1>2, <1>3
<1>5. <<":">> \o s # <<>>
  BY <1>4
<1>. QED  BY <1>4, <1>5 DEF StartsWith

\* A user name right after the scheme.
LEMMA UsernameWritten ==
    ASSUME NEW x, Appender(x), x.last = SCHEME, ~HasOpaquePath(x.u), BeforeHost(x),
           NEW s \in Text
    PROVE  LET y == PutPart(x, USERNAME, s)
           IN /\ Appender(y) /\ SamePlan(x, y) /\ y.last = USERNAME
              /\ Piece(y.u, SCHEME_SEP) = <<":", "/", "/">>
              /\ Piece(y.u, USERNAME) = s /\ Piece(y.u, PASSWORD) = <<>>
<1>. DEFINE y == PutPart(x, USERNAME, s)
<1>1. /\ USERNAME \in Part /\ USERNAME > SCHEME_SEP /\ USERNAME # HOST_START
      /\ x.last < USERNAME /\ SCHEME # USERNAME /\ SCHEME_SEP \in Part
      /\ SCHEME < SCHEME_SEP /\ SCHEME_SEP < USERNAME /\ ~(USERNAME > PATH_PREFIX)
      /\ USERNAME \in {USERNAME, PASSWORD, PORT, PATH, QUERY, FRAGMENT}
      /\ PASSWORD \in Part /\ PASSWORD > USERNAME /\ USERNAME # PASSWORD
  BY PartNumbers
<1>2. PiecesAppended(x.u, y.u, SCHEME, USERNAME, s)
  BY <1>1, AppenderPieces
<1>3. Appender(y) /\ SamePlan(x, y) /\ y.last = USERNAME
  BY <1>1, AppenderPut
<1>. HIDE DEF y
<1>4. Lead(USERNAME) = <<>> /\ Separator(SCHEME, USERNAME) = <<"/", "/">>
  BY PartNumbers DEF Lead, Separator
<1>5. Piece(y.u, USERNAME) = s
  <2>1. <<>> \o s = s
    BY JoinEmpty
  <2>. QED  BY <1>1, <1>2, <1>4, <2>1 DEF PiecesAppended
<1>6. Piece(y.u, SCHEME_SEP) = <<":", "/", "/">>
  <2>1. Piece(y.u, SCHEME_SEP) = <<":">> \o Separator(SCHEME, USERNAME)
    BY <1>1, <1>2 DEF PiecesAppended
  <2>. QED  BY <1>4, <2>1, ColonSlashes
<1>7. Piece(y.u, PASSWORD) = <<>>
  BY <1>1, <1>2 DEF PiecesAppended
<1>. QED  BY <1>3, <1>5, <1>6, <1>7 DEF y

LEMMA CredentialsBeforeHost ==
    ASSUME NEW x, Appender(x), x.last = SCHEME, ~HasOpaquePath(x.u), BeforeHost(x),
           NEW s \in Text
    PROVE  BeforeHost(PutCredentials(x, s))
<1>. DEFINE colon == FindFirst(s, {":"})
            name == Before(s, colon)
            password == From(s, colon + 1)
            y == PutPart(x, USERNAME, Encode(name, UserinfoSet))
            z == PutPart(y, PASSWORD, Encode(password, UserinfoSet))
<1>1. colon \in 1 .. Len(s) + 1 /\ Len(s) \in Nat
  BY FindFirstRange DEF Text
<1>2. name \in Text /\ Len(name) = colon - 1
  BY <1>1, BeforeText
<1>3. password \in Text
  <2>1. colon + 1 \in Nat /\ 1 =< colon + 1
    BY <1>1
  <2>. QED  BY <2>1, RestText
<1>4. /\ Encode(name, UserinfoSet) \in Text /\ Len(Encode(name, UserinfoSet)) = colon - 1
      /\ Encode(password, UserinfoSet) \in Text
      /\ Len(Encode(password, UserinfoSet)) = Len(password)
  BY <1>2, <1>3, EncodeText
<1>5. PutCredentials(x, s) = IF colon = 1 /\ password = <<>> THEN x
                             ELSE IF password = <<>> THEN y ELSE z
  BY DEF PutCredentials
<1>6. /\ Appender(y) /\ SamePlan(x, y) /\ y.last = USERNAME
      /\ Piece(y.u, SCHEME_SEP) = <<":", "/", "/">>
      /\ Piece(y.u, USERNAME) = Encode(name, UserinfoSet) /\ Piece(y.u, PASSWORD) = <<>>
  BY <1>4, UsernameWritten
<1>. HIDE DEF y, colon, name, password
<1>7. \A t \in {HOST, PORT, QUERY, FRAGMENT} : IsNull(y.u, t)
  BY <1>6 DEF BeforeHost, SamePlan, IsNull
<1>8. ASSUME colon # 1 PROVE BeforeHost(y)
  <2>1. Len(Encode(name, UserinfoSet)) > 0
    BY <1>1, <1>4, <1>8
  <2>2. HasUserinfo(y.u)
    BY <1>6, <2>1 DEF HasUserinfo
  <2>3. PasswordFramed(y.u)
    BY <1>6 DEF PasswordFramed
  <2>. QED  BY <1>6, <1>7, <2>2, <2>3 DEF BeforeHost
<1>9. ASSUME password # <<>> PROVE BeforeHost(z)
  <2>. DEFINE e == Encode(password, UserinfoSet)
  <2>1. e \in Text /\ e # <<>>
    <3>1. Len(password) \in Nat /\ Len(password) > 0
      BY <1>3, <1>9 DEF Text
    <3>2. e \in Text /\ Len(e) > 0
      BY <1>4, <3>1
    <3>. QED  BY <3>2
  <2>. HIDE DEF e
  <2>2. /\ PASSWORD \in Part /\ PASSWORD > SCHEME_SEP /\ PASSWORD # HOST_START
        /\ y.last < PASSWORD /\ USERNAME # PASSWORD /\ SCHEME_SEP \in Part
        /\ SCHEME_SEP =< USERNAME /\ SCHEME_SEP # PASSWORD
        /\ PASSWORD \in {USERNAME, PASSWORD, PORT, PATH, QUERY, FRAGMENT}
    BY <1>6, PartNumbers
  <2>3. PiecesAppended(y.u, z.u, USERNAME, PASSWORD, e)
    BY <1>6, <2>1, <2>2, AppenderPieces DEF e
  <2>4. ~HasOpaquePath(y.u)
    BY <1>6 DEF SamePlan, HasOpaquePath
  <2>5. SamePlan(y, z) /\ z.last = PASSWORD
    BY <1>6, <2>1, <2>2, <2>4, AppenderPut DEF e
  <2>. HIDE DEF z
  <2>6. Piece(z.u, PASSWORD) = <<":">> \o e
    BY <2>2, <2>3 DEF PiecesAppended
  <2>7. Piece(z.u, SCHEME_SEP) = <<":", "/", "/">>
    BY <1>6, <2>2, <2>3 DEF PiecesAppended
  <2>8. HasUserinfo(z.u) /\ PasswordFramed(z.u)
    BY <2>1, <2>6, ColonFirst DEF HasUserinfo, PasswordFramed
  <2>9. \A t \in {HOST, PORT, QUERY, FRAGMENT} : IsNull(z.u, t)
    BY <1>7, <2>5 DEF SamePlan, IsNull
  <2>. QED  BY <2>5, <2>7, <2>8, <2>9 DEF BeforeHost
<1>. QED  BY <1>5, <1>8, <1>9

\* The user name or the password of a record is set.
LEMMA UserinfoRecord ==
    ASSUME NEW x, Editor(x), Record(x.u), ~IsEmpty(x.u, HOST), ~x.u.inf.file,
           NEW t \in {USERNAME, PASSWORD}, NEW s \in Text
    PROVE  Record(PutPart(x, t, s).u)
<1>. DEFINE u == x.u
            v == PutPart(x, t, s).u
<1>1. Framed(u)
  BY DEF Record
<1>2. /\ SameBut(u, v, {t, HOST_START}) /\ Piece(v, t) = Credential(t, s)
      /\ Piece(v, HOST_START) = IF HasUserinfo(v) THEN <<"@">> ELSE <<>>
  BY <1>1, EditorUserinfoPieces
<1>3. SamePlan(x, PutPart(x, t, s))
  <2>1. t \in {USERNAME, PASSWORD, PORT, QUERY, FRAGMENT} /\ t # PORT
    BY PartNumbers
  <2>. QED  BY <2>1, EditorPut
<1>4. v.inf = u.inf /\ v.flags = u.flags /\ v.segs = u.segs
  BY <1>3 DEF SamePlan
<1>5. PICK l \in Part : CompleteUpTo(u, l)
  BY EditorFacts
<1>6. ~IsNull(u, HOST)
  BY <1>5, CompleteFacts
<1>7. Readable(u)
  BY WrittenIsReadable
<1>8. Piece(u, HOST) # <<>>
  BY <1>7, ReadPieces
<1>. HIDE DEF v
<1>9. /\ Piece(v, SCHEME_SEP) = Piece(u, SCHEME_SEP) /\ Piece(v, HOST) = Piece(u, HOST)
      /\ Piece(v, PORT) = Piece(u, PORT) /\ Piece(v, PATH_PREFIX) = Piece(u, PATH_PREFIX)
      /\ Piece(v, PATH) = Piece(u, PATH)
      /\ Piece(v, QUERY) = Piece(u, QUERY) /\ Piece(v, FRAGMENT) = Piece(u, FRAGMENT)
  <2>1. \A p \in {SCHEME_SEP, HOST, PORT, PATH_PREFIX, PATH, QUERY, FRAGMENT} :
           p \in Part /\ p \notin {t, HOST_START}
    BY PartNumbers
  <2>. QED  BY <1>2, <2>1 DEF SameBut
<1>10. PasswordFramed(v)
  <2>1. CASE t = PASSWORD
    <3>1. s # <<>> => Piece(v, PASSWORD) = <<":">> \o s
      BY <1>2, <2>1 DEF Credential
    <3>2. s = <<>> => Piece(v, PASSWORD) = <<>>
      BY <1>2, <2>1 DEF Credential
    <3>. QED  BY <3>1, <3>2, ColonFirst DEF PasswordFramed
  <2>2. CASE t = USERNAME
    <3>1. Piece(v, PASSWORD) = Piece(u, PASSWORD)
      <4>1. PASSWORD \in Part /\ PASSWORD \notin {t, HOST_START}
        BY <2>2, PartNumbers
      <4>. QED  BY <1>2, <4>1 DEF SameBut
    <3>. QED  BY <1>1, <3>1 DEF PasswordFramed, Framed
  <2>. QED  BY <2>1, <2>2
<1>11. PortFramed(v) /\ Led(v, QUERY, "?") /\ Led(v, FRAGMENT, "#")
  BY <1>1, <1>4, <1>9 DEF PortFramed, Led, Framed, IsNull
<1>12. ~IsNull(v, HOST)
  BY <1>4, <1>6 DEF IsNull
<1>13. Framed(v)
  BY <1>1, <1>2, <1>6, <1>9, <1>10, <1>11, <1>12 DEF Framed
<1>14. HostConsistent(v)
  BY <1>4, <1>8, <1>9 DEF HostConsistent, Record, IsNull
<1>15. PathConsistent(v)
  BY <1>4, <1>9 DEF PathConsistent, Record, IsNull, HasOpaquePath
<1>16. PrefixFits(v)
  BY <1>12, <1>13 DEF PrefixFits, NeedsPathPrefix, Framed
<1>. QED  BY <1>13, <1>14, <1>15, <1>16 DEF Record, v

-----------------------------------------------------------------------------
(* The port.                                                               *)

\* The port that is written behind the host of a URL.
PortPut(u, v, digits) ==
    /\ SameBut(u, v, {PORT}) /\ Piece(v, PORT) = Lead(PORT) \o digits
    /\ v.flags = u.flags \cup {PORT} /\ v.inf = u.inf

PortAllowed(u, digits) ==
    /\ ~IsNull(u, HOST) /\ Piece(u, HOST) # <<>> /\ ~u.inf.file
    /\ AllDigits(digits) /\ Len(digits) < 6 /\ u.inf.port # PortValue(digits)

LEMMA PortPutRecord ==
    ASSUME NEW u, NEW v, NEW digits \in Text, PortPut(u, v, digits), PortAllowed(u, digits),
           Framed(u), HostConsistent(u)
    PROVE  /\ Framed(v) /\ HostConsistent(v)
           /\ PathConsistent(u) => Record(v)
<1>1. /\ Piece(v, SCHEME_SEP) = Piece(u, SCHEME_SEP) /\ Piece(v, USERNAME) = Piece(u, USERNAME)
      /\ Piece(v, PASSWORD) = Piece(u, PASSWORD)
      /\ Piece(v, HOST_START) = Piece(u, HOST_START) /\ Piece(v, HOST) = Piece(u, HOST)
      /\ Piece(v, PATH_PREFIX) = Piece(u, PATH_PREFIX) /\ Piece(v, PATH) = Piece(u, PATH)
      /\ Piece(v, QUERY) = Piece(u, QUERY) /\ Piece(v, FRAGMENT) = Piece(u, FRAGMENT)
  <2>1. \A t \in {SCHEME_SEP, USERNAME, PASSWORD, HOST_START, HOST, PATH_PREFIX, PATH, QUERY,
                  FRAGMENT} : t \in Part /\ t \notin {PORT}
    BY PartNumbers
  <2>. QED  BY <2>1 DEF PortPut, SameBut
<1>2. /\ IsNull(v, HOST) <=> IsNull(u, HOST)
      /\ IsNull(v, QUERY) <=> IsNull(u, QUERY)
      /\ IsNull(v, FRAGMENT) <=> IsNull(u, FRAGMENT)
      /\ HasOpaquePath(v) <=> HasOpaquePath(u)
      /\ ~IsNull(v, PORT)
  <2>1. HOST # PORT /\ QUERY # PORT /\ FRAGMENT # PORT /\ OPAQUE_PATH # PORT
    BY PartNumbers DEF OPAQUE_PATH
  <2>. QED  BY <2>1 DEF PortPut, IsNull, HasOpaquePath
<1>3. HasUserinfo(v) <=> HasUserinfo(u)
  BY <1>1 DEF HasUserinfo
<1>4. /\ StartsWith(Piece(v, PORT), ":") /\ Tail(Piece(v, PORT)) = digits
      /\ Len(Piece(v, PORT)) = Len(digits) + 1
  BY LeadStarts DEF PortPut
<1>5. PortFramed(v)
  <2>1. Len(digits) \in Nat /\ Len(digits) < 6
    BY DEF Text, PortAllowed
  <2>2. Len(Piece(v, PORT)) < 7
    BY <1>4, <2>1
  <2>. QED  BY <1>2, <1>4, <2>2 DEF PortFramed, Led, PortAllowed
<1>6. Framed(v)
  <2>1. /\ PasswordFramed(v) /\ Led(v, QUERY, "?") /\ Led(v, FRAGMENT, "#")
    BY <1>1, <1>2 DEF PasswordFramed, Led, Framed
  <2>2. Piece(v, HOST_START) = IF HasUserinfo(v) THEN <<"@">> ELSE <<>>
    BY <1>1, <1>3 DEF Framed
  <2>3. ~IsNull(v, HOST)
    BY <1>2 DEF PortAllowed
  <2>4. Piece(v, SCHEME_SEP) = <<":", "/", "/">> /\ Piece(v, PATH_PREFIX) = <<>>
    BY <1>1, <1>2, <2>3 DEF Framed
  <2>. QED  BY <1>5, <2>1, <2>2, <2>3, <2>4 DEF Framed
<1>7. HostConsistent(v)
  <2>1. v.inf = u.inf
    BY DEF PortPut
  <2>. QED  BY <1>1, <1>2, <1>4, <2>1 DEF HostConsistent, PortAllowed
<1>8. PrefixFits(v)
  BY <1>1, <1>2 DEF PrefixFits, NeedsPathPrefix, PortAllowed, Framed
<1>9. ASSUME PathConsistent(u) PROVE PathConsistent(v)
  BY <1>1, <1>2, <1>9 DEF PathConsistent, PortPut
<1>. QED  BY <1>6, <1>7, <1>8, <1>9 DEF Record

\* url_serializer and url_setter write it, or leave the default port out.
LEMMA PutPortRecord ==
    ASSUME NEW x, ~HasOpaquePath(x.u), x.save, NEW digits \in Text,
           AllDigits(digits), Len(digits) < 6,
           ~IsNull(x.u, HOST), Piece(x.u, HOST) # <<>>, ~x.u.inf.file,
           \/ Appender(x) /\ x.last = HOST /\ Framed(x.u) /\ HostConsistent(x.u)
           \/ Editor(x) /\ Record(x.u)
    PROVE  LET y == PutPort(x, digits)
           IN /\ Framed(y.u) /\ HostConsistent(y.u)
              /\ Editor(x) => Record(y.u)
<1>. DEFINE z == PutPart(x, PORT, digits)
            y == PutPort(x, digits)
<1>0. /\ HOST < PORT /\ HOST >= HOST /\ PORT \in {PORT, PATH, QUERY, FRAGMENT}
      /\ PORT \in {PORT, QUERY, FRAGMENT} /\ ~(HOST = PORT) /\ ~(PORT < HOST)
      /\ PORT \in {USERNAME, PASSWORD, PORT, PATH, QUERY, FRAGMENT}
      /\ PORT \in {USERNAME, PASSWORD, PORT, QUERY, FRAGMENT}
  BY PartNumbers
<1>1. Framed(x.u) /\ HostConsistent(x.u) /\ ~(Appender(x) /\ Editor(x))
  BY DEF Record, Appender, Editor
<1>2. CASE x.u.inf.port = PortValue(digits)
  <2>1. y = ClearPart(x, PORT)
    BY <1>2 DEF PutPort
  <2>. HIDE DEF y
  <2>2. CASE Appender(x)
    <3>1. y = x
      BY <2>1, <2>2, AppenderFacts DEF ClearPart
    <3>. QED  BY <1>1, <2>2, <3>1 DEF y
  <2>3. CASE Editor(x)
    <3>1. Led(x.u, PORT, ":")
      BY <1>1 DEF Framed, PortFramed
    <3>2. PartRemoved(x.u, y.u, PORT)
      BY <1>0, <2>1, <2>3, <3>1, ClearPartPieces
    <3>3. Readable(x.u) /\ Readable(y.u)
      <4>1. Editor(y)
        BY <1>0, <2>1, <2>3, ClearPartSound DEF PartCleared
      <4>. QED  BY <2>3, <4>1, WrittenIsReadable
    <3>4. HostFits(x.u) /\ PrefixFits(x.u) /\ PathConsistent(x.u)
      BY <1>1, <2>3 DEF HostFits, HostConsistent, Record
    <3>5. Record(y.u)
      BY <1>1, <3>2, <3>3, <3>4, PortRemoved
    <3>. QED  BY <3>5 DEF Record, y
  <2>. QED  BY <2>2, <2>3
<1>3. CASE x.u.inf.port # PortValue(digits)
  <2>1. y = WithFlag(z, PORT)
    BY <1>3 DEF PutPort, WithFlag
  <2>2. Appender(z) \/ Editor(z)
    <3>1. CASE Appender(x)
      BY <1>0, <1>1, <3>1, AppenderPut
    <3>2. CASE Editor(x)
      BY <1>0, <3>2, EditorPut
    <3>. QED  BY <3>1, <3>2
  <2>3. SamePlan(x, z)
    <3>1. CASE Appender(x)
      BY <1>0, <1>1, <3>1, AppenderPut
    <3>2. CASE Editor(x)
      BY <1>0, <3>2, EditorPut
    <3>. QED  BY <3>1, <3>2
  <2>4. SameBut(x.u, z.u, {PORT}) /\ Piece(z.u, PORT) = Lead(PORT) \o digits
    <3>1. CASE Appender(x)
      <4>1. x.last = HOST
        BY <1>1, <3>1
      <4>. QED  BY <1>0, <3>1, <4>1, AppenderTailPieces
    <3>2. CASE Editor(x)
      <4>1. digits # <<>>
        BY DEF AllDigits
      <4>. QED  BY <1>0, <3>2, <4>1, EditorPieces
    <3>. QED  BY <3>1, <3>2
  <2>. HIDE DEF z, y
  <2>5. /\ y.u.inf = z.u.inf /\ y.u.flags = z.u.flags \cup {PORT}
        /\ \A p : Piece(y.u, p) = Piece(z.u, p)
    BY <1>0, <2>1, <2>2, FlagSet, FlaggedPieces
  <2>6. PortPut(x.u, y.u, digits)
    BY <2>3, <2>4, <2>5 DEF PortPut, SameBut, SamePlan
  <2>7. PortAllowed(x.u, digits)
    BY <1>3 DEF PortAllowed
  <2>8. /\ Framed(y.u) /\ HostConsistent(y.u)
        /\ PathConsistent(x.u) => Record(y.u)
    BY <1>1, <2>6, <2>7, PortPutRecord
  <2>. QED  BY <1>1, <2>8 DEF Record, y
<1>. QED  BY <1>2, <1>3

LEMMA PortDigitsAreDigits ==
    ASSUME NEW s \in Text, AllDigits(s)
    PROVE  AllDigits(PortDigits(s)) /\ PortDigits(s) \in Text
<1>. DEFINE n == FindFirstNot(s, {"0"})
            k == IF n < Len(s) THEN n ELSE Len(s)
<1>1. Len(s) \in Nat /\ Len(s) > 0
  BY DEF Text, AllDigits
<1>2. n \in 1 .. Len(s) + 1
  BY FindFirstNotRange
<1>3. PortDigits(s) = SubSeq(s, k, Len(s))
  BY DEF PortDigits, From
<1>. HIDE DEF n
<1>4. k \in Nat /\ 1 =< k /\ k =< Len(s)
  BY <1>1, <1>2
<1>. HIDE DEF k
<1>5. /\ SubSeq(s, k, Len(s)) \in Text
      /\ Len(SubSeq(s, k, Len(s))) = Len(s) - k + 1
      /\ \A j \in 1 .. Len(s) - k + 1 : SubSeq(s, k, Len(s))[j] = s[k + j - 1]
  BY <1>1, <1>4, SubText
<1>6. Len(PortDigits(s)) > 0
  BY <1>1, <1>3, <1>4, <1>5
<1>7. \A j \in 1 .. Len(PortDigits(s)) : PortDigits(s)[j] \in Digit
  <2>1. ASSUME NEW j \in 1 .. Len(s) - k + 1 PROVE s[k + j - 1] \in Digit
    <3>1. k + j - 1 \in 1 .. Len(s)
      BY <1>1, <1>4
    <3>. QED  BY <3>1 DEF AllDigits
  <2>. QED  BY <1>3, <1>5, <2>1
<1>8. PortDigits(s) # <<>>
  BY <1>6
<1>. QED  BY <1>3, <1>5, <1>7, <1>8 DEF AllDigits

-----------------------------------------------------------------------------
(* The host that is parsed.                                                *)

LEMMA ParsedHostRecord ==
    ASSUME NEW x, MayHost(x), NEW s \in Text, NEW isOpaque
    PROVE  LET y == ParseHostOutput(x, s, isOpaque)
           IN \/ y = x /\ ~(ParseHostResult(s, isOpaque) = "ok" /\ x.save)
              \/ \E text \in Text : WithHost(x.u, y.u, text) /\ (s = <<>> <=> text = <<>>)
<1>. DEFINE y == ParseHostOutput(x, s, isOpaque)
            host == HostOf(s, isOpaque)
<1>1. CASE s = <<>>
  <2>1. y = PutHost(x, <<>>, "Empty") /\ <<>> \in Text /\ "Empty" \in HostType
    BY <1>1 DEF ParseHostOutput, Text, HostType
  <2>2. WithHost(x.u, PutHost(x, <<>>, "Empty").u, <<>>)
    BY <2>1, PutHostRecord
  <2>3. WithHost(x.u, y.u, <<>>)
    BY <2>1, <2>2
  <2>. HIDE DEF y
  <2>. QED  BY <1>1, <2>1, <2>3 DEF y
<1>2. CASE s # <<>>
  <2>1. host.text \in Text /\ host.htype \in HostType
    BY <1>2, HostOfType DEF HostRecord
  <2>2. y = IF host.res = "ok" /\ x.save THEN PutHost(x, host.text, host.htype) ELSE x
    BY <1>2 DEF ParseHostOutput
  <2>3. ParseHostResult(s, isOpaque) = host.res
    BY <1>2 DEF ParseHostResult
  <2>4. WithHost(x.u, PutHost(x, host.text, host.htype).u, host.text)
    BY <2>1, PutHostRecord
  <2>5. CASE host.res = "ok" /\ x.save
    <3>1. WithHost(x.u, y.u, host.text)
      BY <2>2, <2>4, <2>5
    <3>2. host.text # <<>>
      BY <1>2, <2>5, HostOfType DEF HostRecord
    <3>. HIDE DEF y
    <3>. QED  BY <1>2, <2>1, <3>1, <3>2 DEF y
  <2>6. CASE ~(host.res = "ok" /\ x.save)
    <3>1. y = x
      BY <2>2, <2>6
    <3>. HIDE DEF y
    <3>. QED  BY <2>3, <2>6, <3>1 DEF y
  <2>. QED  BY <2>5, <2>6
<1>. QED  BY <1>1, <1>2

-----------------------------------------------------------------------------
(* Parts of a base URL.                                                    *)

SomeCopied(src, t2) == t2 >= PATH \/ ~IsNull(src, HOST)

\* The parts from first to t2 are those of src, but for a path that loses
\* its last segment.
PiecesOfBase(u, v, l, src, first, t2, whole) ==
    /\ \A t \in Part : t =< l /\ t < first => Piece(v, t) = Piece(u, t)
    /\ \A t \in Part : l < t /\ t < first =>
          Piece(v, t) = IF t = SCHEME_SEP THEN <<":">> \o Separator(l, first) ELSE <<>>
    /\ \A t \in Part : first =< t /\ t =< t2 /\ (t # PATH \/ whole) =>
          Piece(v, t) = Piece(src, t)
    /\ \A t \in Part : t > t2 => Piece(v, t) = <<>>

FlagsOfBase(u, v, src, t1, t2) ==
    /\ v.inf = u.inf
    /\ t1 =< PATH /\ PATH =< t2 => (HasOpaquePath(v) <=> HasOpaquePath(src))
    /\ \A t \in {HOST, PORT, QUERY, FRAGMENT} :
          /\ t1 =< t /\ t =< t2 => (IsNull(v, t) <=> IsNull(src, t))
          /\ ~(t1 =< t /\ t =< t2) => (IsNull(v, t) <=> IsNull(u, t))

LEMMA LargestPart ==
    ASSUME NEW set, set \subseteq Part, set # {}
    PROVE  LET last == CHOOSE t \in set : \A s \in set : s =< t
           IN last \in set /\ \A s \in set : s =< last
<1>1. set \subseteq 0 .. 10
  BY PartNumbers DEF Part
<1>. DEFINE S == {i \in 1 .. 11 : i - 1 \in set}
<1>2. S # {}
  <2>1. PICK i \in set : TRUE
    OBVIOUS
  <2>2. i + 1 \in 1 .. 11 /\ (i + 1) - 1 = i
    BY <1>1, <2>1
  <2>. QED  BY <2>1, <2>2
<1>3. PICK j \in S : \A k \in S : k =< j
  <2>1. S \subseteq 1 .. 11 /\ 11 \in Nat
    OBVIOUS
  <2>. HIDE DEF S
  <2>. QED  BY <1>2, <2>1, Largest
<1>4. j - 1 \in set /\ j \in Int
  BY <1>3
<1>5. \A s \in set : s =< j - 1
  <2>1. SUFFICES ASSUME NEW s \in set PROVE s =< j - 1
    OBVIOUS
  <2>2. s + 1 \in S /\ s \in Int
    BY <1>1
  <2>3. s + 1 =< j
    BY <1>3, <2>2
  <2>. QED  BY <1>4, <2>2, <2>3
<1>6. \E t \in set : \A s \in set : s =< t
  BY <1>4, <1>5
<1>. QED  BY <1>6

LEMMA FlagsCopiedAre ==
    ASSUME NEW u \in Url, NEW src \in Url, NEW t1 \in Part, NEW t2 \in Part
    PROVE  FlagsOfBase(u, CopyFlags(u, src, t1, t2), src, t1, t2)
<1>. DEFINE v == CopyFlags(u, src, t1, t2)
<1>1. v.flags = (u.flags \ FlagMask(t1, t2)) \cup (src.flags \cap FlagMask(t1, t2))
      /\ v.inf = u.inf
  BY DEF CopyFlags, Url
<1>2. ASSUME NEW t \in {HOST, PORT, QUERY, FRAGMENT}
      PROVE  t \in FlagMask(t1, t2) <=> t1 =< t /\ t =< t2
  <2>1. t \notin {SCHEME_SEP, HOST_START, PATH_PREFIX} /\ t # OPAQUE_PATH
        /\ t \in Int /\ t1 \in Int /\ t2 \in Int
    BY PartInt, PartNumbers DEF OPAQUE_PATH
  <2>2. t \in t1 .. t2 <=> t1 =< t /\ t =< t2
    BY <2>1
  <2>. QED  BY <2>1, <2>2 DEF FlagMask
<1>. HIDE DEF v
<1>3. ASSUME NEW t \in {HOST, PORT, QUERY, FRAGMENT}
      PROVE  /\ t1 =< t /\ t =< t2 => (IsNull(v, t) <=> IsNull(src, t))
             /\ ~(t1 =< t /\ t =< t2) => (IsNull(v, t) <=> IsNull(u, t))
  BY <1>1, <1>2 DEF IsNull
<1>4. t1 =< PATH /\ PATH =< t2 => (HasOpaquePath(v) <=> HasOpaquePath(src))
  BY <1>1 DEF FlagMask, HasOpaquePath
<1>. QED  BY <1>1, <1>3, <1>4 DEF FlagsOfBase, v

LEMMA NothingCopied ==
    ASSUME NEW x, NEW src, NEW t1, NEW t2, MayAppend(x, src, t1, t2), NEW op_,
           ~SomeCopied(src, t2)
    PROVE  LET y == AppendParts(x, src, t1, t2, op_)
           IN /\ y.last = x.last /\ y.u.norm = x.u.norm /\ y.u.ends = x.u.ends
              /\ x.save => FlagsOfBase(x.u, y.u, src, t1, t2)
<1>. DEFINE first == FirstToCopy(src, t1)
            set == {t \in first .. t2 : src.ends[t] # 0}
            u == CopyFlags(x.u, src, t1, t2)
            y == AppendParts(x, src, t1, t2, op_)
<1>1. x \in Serializer /\ x.u \in Url /\ src \in Url
  BY AppenderFacts DEF MayAppend
<1>2. PICK lb \in Part : CompleteUpTo(src, lb)
  BY DEF MayAppend, Complete
<1>3. t1 \in Part /\ t2 \in Part
  BY <1>2, PartsToCopy
<1>4. CASE x.save
  <2>1. set = {}
    <3>1. IsNull(src, HOST) /\ t2 < PATH /\ t2 \in Int
      BY <1>3, PartInt, PartNumbers DEF SomeCopied
    <3>2. t1 =< HOST /\ t1 \in Int
      BY <3>1, PartInt, PartNumbers DEF MayAppend
    <3>3. first = PATH_PREFIX
      <4>1. ~(t1 > HOST)
        BY <3>2, PartNumbers
      <4>. QED  BY <3>1, <4>1 DEF FirstToCopy
    <3>4. t2 \in {HOST, PORT}
      BY <3>1, PartNumbers DEF MayAppend
    <3>5. PATH_PREFIX .. t2 = {}
      BY <3>4, PartNumbers
    <3>. HIDE DEF first
    <3>. QED  BY <3>3, <3>5
  <2>2. y = [x EXCEPT !.u = u]
    BY <1>4, <2>1 DEF AppendParts
  <2>3. u.norm = x.u.norm /\ u.ends = x.u.ends
    BY <1>1 DEF CopyFlags, Url
  <2>4. FlagsOfBase(x.u, u, src, t1, t2)
    BY <1>1, <1>3, FlagsCopiedAre
  <2>. HIDE DEF u
  <2>5. y.last = x.last /\ y.u = u
    BY <1>1, <2>2 DEF Serializer
  <2>. HIDE DEF y
  <2>. QED  BY <2>3, <2>4, <2>5 DEF y
<1>5. CASE ~x.save
  <2>1. y = x
    BY <1>5 DEF AppendParts
  <2>. HIDE DEF y
  <2>. QED  BY <1>5, <2>1 DEF y
<1>. QED  BY <1>4, <1>5

LEMMA PartsOfBase ==
    ASSUME NEW x, NEW src, NEW t1, NEW t2, MayAppend(x, src, t1, t2), NEW op_,
           x.save, SomeCopied(src, t2)
    PROVE  LET y == AppendParts(x, src, t1, t2, op_)
           IN /\ FlagsOfBase(x.u, y.u, src, t1, t2)
              /\ PiecesOfBase(x.u, y.u, x.last, src, FirstToCopy(src, t1), t2, op_ = "keep")
              /\ y.last >= HOST
              /\ op_ = "keep" /\ IsNull(src, HOST) => y.u.segs = src.segs
<1>. DEFINE first == FirstToCopy(src, t1)
            set == {t \in first .. t2 : src.ends[t] # 0}
            u == CopyFlags(x.u, src, t1, t2)
            w == [x EXCEPT !.u = u]
            y == AppendParts(x, src, t1, t2, op_)
<1>1. /\ x \in Serializer /\ x.u \in Url /\ x.last \in Part /\ x.sane = TRUE
      /\ Ordered(x.u, x.last) /\ x.u.segs = 0 /\ src \in Url
  BY AppenderFacts DEF MayAppend
<1>2. PICK lb \in Part : CompleteUpTo(src, lb)
  BY DEF MayAppend, Complete
<1>3. Ordered(src, lb)
  BY <1>2, CompleteFacts DEF CompleteUpTo
<1>4. /\ t1 \in Part /\ t2 \in Part /\ HOST =< t2
      /\ MayCopy(x.u, x.last, first) /\ x.last =< t2
      /\ set = {} => t2 < PATH /\ (IsNull(src, HOST) \/ t1 > HOST)
      /\ \A t \in set : t \in Part /\ first =< t /\ t =< lb /\ t =< t2
      /\ \A t \in set : (\A s \in set : s =< t) =>
            /\ IsNull(src, HOST) /\ t2 >= PATH => t >= PATH
            /\ ~IsNull(src, HOST) => t >= HOST
      /\ IsNull(src, HOST) => first > HOST \/ t1 > HOST
  <2>1. t1 \in Part
    BY <1>2, PartsToCopy
  <2>2. t1 =< HOST \/ t1 > HOST
    BY <2>1, PartInt, PartNumbers
  <2>. QED  BY <1>2, <2>2, PartsToCopy
<1>5. set # {}
  <2>1. set = {} => t2 < PATH /\ ~(t2 >= PATH)
    BY <1>4, PartInt, PartNumbers
  <2>2. t1 > HOST => t2 >= PATH
    BY <1>4, PartInt, PartNumbers DEF MayAppend
  <2>. HIDE DEF set
  <2>. QED  BY <1>4, <2>1, <2>2 DEF SomeCopied
<1>6. first \in Part /\ first \in Int /\ t2 \in Int /\ lb \in Int /\ first # SCHEME
      /\ x.last \in Int
  BY <1>1, <1>4, MayCopyFacts, PartInt
<1>7. \A t \in Part : first =< t /\ t =< t2 /\ t =< lb => t \in set
  <2>1. \A t \in Part : t \in Int
    BY PartInt
  <2>2. \A t \in Part : t =< lb => src.ends[t] # 0
    <3>1. \A t \in Part : t =< lb => src.ends[t] > 0
      BY <1>1, <1>3, OrderedFacts
    <3>2. \A t \in Part : src.ends[t] \in Nat
      BY <1>1, UrlType
    <3>. QED  BY <3>1, <3>2
  <2>. HIDE DEF first
  <2>. QED  BY <1>6, <2>1, <2>2
<1>. DEFINE last == CHOOSE t \in set : \A s \in set : s =< t
            z == CopyParts(w, src, first, last, op_)
            end == CopyEnd(src, last, op_)
            segs == CopySegs(w, src, first, last, op_)
<1>8. last \in set /\ \A s \in set : s =< last
  <2>1. set \subseteq Part
    BY <1>4
  <2>. HIDE DEF set
  <2>. QED  BY <1>5, <2>1, LargestPart
<1>9. y = z
  BY <1>5 DEF AppendParts
<1>10. FlagsOfBase(x.u, u, src, t1, t2) /\ FlagsCopied(x.u, u, src, t1, t2)
  BY <1>1, <1>4, FlagsCopiedAre, CopyFlagsSound
<1>. HIDE DEF u, first, set, last
<1>11. last \in Part /\ first =< last /\ last =< lb /\ last =< t2
  BY <1>4, <1>8
<1>12. /\ u \in Url /\ u.segs = 0 /\ u.norm = x.u.norm /\ u.ends = x.u.ends
       /\ Ordered(u, x.last)
  BY <1>1, <1>10, SameTextOrdered DEF FlagsCopied, SameText
<1>13. w \in Serializer /\ w.u = u /\ w.sane = TRUE /\ w.last = x.last
  BY <1>1, <1>12 DEF Serializer
<1>. HIDE DEF w
<1>14. MayCopy(w.u, w.last, first)
  <2>1. IsEmpty(u, HOST) <=> IsEmpty(x.u, HOST)
    BY <1>12 DEF IsEmpty, PartPos
  <2>. QED  BY <1>4, <1>13, <2>1 DEF MayCopy
<1>15. PartsCopied(w, z, first, last)
       /\ z.u = CopiedUrl(w.u, w.last, src, first, last, end, segs)
  <2>1. Ordered(w.u, w.last)
    BY <1>12, <1>13
  <2>2. first =< last /\ last \in Part /\ last =< lb /\ w.sane = TRUE /\ w \in Serializer
    BY <1>11, <1>13
  <2>3. CopiedAs(w, z, src, first, last, op_)
    BY <1>1, <1>3, <1>14, <2>1, <2>2, CopyPartsSound
  <2>. QED  BY <2>3 DEF CopiedAs
<1>16. /\ end \in Nat /\ src.ends[last - 1] =< end /\ end =< Len(src.norm)
       /\ segs \in Nat
       /\ last # PATH \/ op_ = "keep" => end = src.ends[last]
  <2>1. /\ \A t \in Part : src.ends[t] \in Nat /\ (t =< lb => src.ends[t] =< Len(src.norm))
        /\ \A s, t \in Part : s =< t /\ t =< lb => src.ends[s] =< src.ends[t]
    BY <1>1, <1>3, OrderedFacts, UrlType
  <2>2. last - 1 \in Part /\ last - 1 =< last /\ last # SCHEME
    BY <1>6, <1>11, PartInt, PartNumbers
  <2>3. CASE last = PATH
    <3>1. lb >= PATH
      BY <1>6, <1>11, <2>3, PartNumbers
    <3>2. /\ KeptPath(src, op_).end \in Nat /\ KeptPath(src, op_).segs \in Nat
          /\ src.ends[PATH_PREFIX] =< KeptPath(src, op_).end
          /\ KeptPath(src, op_).end =< src.ends[PATH]
      BY <1>1, <1>3, <3>1, KeptPathRange
    <3>3. last - 1 = PATH_PREFIX /\ PATH \in Part
      BY <2>3, PartNumbers
    <3>4. op_ = "keep" => KeptPath(src, op_).end = src.ends[PATH]
      BY DEF KeptPath
    <3>5. src.ends[PATH] =< Len(src.norm) /\ src.ends[PATH] \in Nat
      BY <1>11, <2>1, <2>3
    <3>6. Len(src.norm) \in Nat
      BY <1>1, UrlType DEF Text
    <3>7. KeptPath(src, op_).end =< Len(src.norm)
      BY <3>2, <3>5, <3>6
    <3>. QED  BY <2>3, <3>2, <3>3, <3>4, <3>7 DEF CopyEnd, CopySegs
  <2>4. CASE last # PATH
    <3>1. src.segs \in Nat /\ w.u.segs \in Nat
      BY <1>1, <1>12, <1>13 DEF Url
    <3>2. end = src.ends[last] /\ segs \in Nat
      BY <2>4, <3>1 DEF CopyEnd, CopySegs
    <3>. QED  BY <1>11, <2>1, <2>2, <2>4, <3>1, <3>2
  <2>. QED  BY <2>3, <2>4
<1>. HIDE DEF end, segs
<1>17. PiecesCopied(u, y.u, x.last, src, first, last, end)
  <2>1. PiecesCopied(u, CopiedUrl(u, x.last, src, first, last, end, segs),
                     x.last, src, first, last, end)
    BY <1>1, <1>3, <1>11, <1>12, <1>13, <1>14, <1>16, CopiedPieces
  <2>. HIDE DEF z
  <2>. QED  BY <1>9, <1>13, <1>15, <2>1
<1>18. y.u.flags = u.flags /\ y.u.inf = u.inf
  <2>1. Rewritten(u, z.u)
    BY <1>13, <1>15 DEF PartsCopied, Copied
  <2>. HIDE DEF z
  <2>. QED  BY <1>9, <2>1 DEF Rewritten
<1>. HIDE DEF y
<1>19. FlagsOfBase(x.u, y.u, src, t1, t2)
  BY <1>10, <1>18 DEF FlagsOfBase, IsNull, HasOpaquePath
<1>20. \A t : Piece(u, t) = Piece(x.u, t)
  BY <1>12, SamePieces
<1>21. \A t \in Part : t > lb => Piece(src, t) = <<>>
  BY <1>1, <1>3, PiecesBehind DEF Ordered
<1>22. \A t \in Part : t =< x.last /\ t < first => Piece(y.u, t) = Piece(x.u, t)
  BY <1>17, <1>20 DEF PiecesCopied
<1>23. \A t \in Part : x.last < t /\ t < first =>
          Piece(y.u, t) = IF t = SCHEME_SEP THEN <<":">> \o Separator(x.last, first) ELSE <<>>
  BY <1>17 DEF PiecesCopied
<1>24. ASSUME NEW t \in Part, first =< t, t =< t2, t # PATH \/ op_ = "keep"
       PROVE  Piece(y.u, t) = Piece(src, t)
  <2>1. t \in Int /\ last \in Int
    BY <1>11, PartInt
  <2>2. CASE t < last
    BY <1>17, <1>24, <2>2 DEF PiecesCopied
  <2>3. CASE t = last
    <3>1. end = src.ends[t]
      BY <1>16, <1>24, <2>3
    <3>3. t # SCHEME
      BY <1>6, <1>24, <2>1, PartInt, PartNumbers
    <3>2. Piece(src, t) = Slice(src.norm, src.ends[t - 1], src.ends[t])
      BY <3>3, PieceSlice DEF PartPos
    <3>. QED  BY <1>17, <2>3, <3>1, <3>2 DEF PiecesCopied
  <2>4. CASE t > last
    <3>1. t \notin set
      BY <1>8, <2>1, <2>4
    <3>2. t > lb
      BY <1>6, <1>7, <1>24, <2>1, <3>1
    <3>. QED  BY <1>17, <1>21, <2>4, <3>2 DEF PiecesCopied
  <2>. QED  BY <2>1, <2>2, <2>3, <2>4
<1>25. \A t \in Part : t > t2 => Piece(y.u, t) = <<>>
  <2>1. \A t \in Part : t > t2 => t > last
    <3>1. last \in Int /\ \A t \in Part : t \in Int
      BY <1>11, PartInt
    <3>. QED  BY <1>6, <1>11, <3>1
  <2>. QED  BY <1>17, <2>1 DEF PiecesCopied
<1>26. PiecesOfBase(x.u, y.u, x.last, src, first, t2, op_ = "keep")
  BY <1>22, <1>23, <1>24, <1>25 DEF PiecesOfBase
<1>27. last >= HOST /\ (IsNull(src, HOST) => last >= PATH)
  <2>1. IsNull(src, HOST) => last >= PATH
    BY <1>4, <1>8 DEF SomeCopied
  <2>2. last >= PATH => last >= HOST
    BY <1>11, PartInt, PartNumbers
  <2>. QED  BY <1>4, <1>8, <2>1, <2>2
<1>28. y.last >= HOST
  <2>1. z.last = last
    BY <1>15 DEF PartsCopied
  <2>. HIDE DEF z
  <2>. QED  BY <1>9, <1>27, <2>1 DEF y
<1>29. ASSUME op_ = "keep", IsNull(src, HOST) PROVE y.u.segs = src.segs
  <2>1. segs = src.segs
    <3>1. first =< PATH
      BY <1>4, MayCopyFacts, PartNumbers DEF MayCopy
    <3>2. PATH =< last
      BY <1>11, <1>27, <1>29, PartInt, PartNumbers
    <3>3. KeptPath(src, op_).segs = src.segs
      BY <1>29 DEF KeptPath
    <3>. QED  BY <3>1, <3>2, <3>3 DEF CopySegs, segs
  <2>2. z.u.segs = segs
    BY <1>12, <1>13, <1>15 DEF CopiedUrl, Url
  <2>. HIDE DEF z
  <2>. QED  BY <1>9, <2>1, <2>2 DEF y
<1>. QED  BY <1>19, <1>26, <1>28, <1>29 DEF y, first

\* What is copied into: a url with its scheme alone, or one with an empty host.
MayCopyFrame(x, src, t1) ==
    \/ t1 = USERNAME /\ BeforeHost(x)
    \/ /\ t1 = HOST /\ Framed(x.u) /\ HostConsistent(x.u)
       /\ ~IsNull(x.u, HOST) /\ src.inf.file

LEMMA NoPiecesBehind ==
    ASSUME NEW x, Appender(x)
    PROVE  \A t \in Part : t > x.last => Piece(x.u, t) = <<>>
<1>1. x.u \in Url /\ x.last \in Part /\ Ordered(x.u, x.last)
  BY AppenderFacts
<1>. QED  BY <1>1, PiecesBehind DEF Ordered

LEMMA LastPartsNull ==
    ASSUME NEW x, NEW src, NEW t1, Appender(x), x.last \in {SCHEME, HOST},
           MayCopyFrame(x, src, t1)
    PROVE  IsNull(x.u, QUERY) /\ IsNull(x.u, FRAGMENT)
<1>1. CASE BeforeHost(x)
  BY <1>1 DEF BeforeHost
<1>2. CASE Framed(x.u)
  <2>1. Piece(x.u, QUERY) = <<>> /\ Piece(x.u, FRAGMENT) = <<>>
    <3>1. QUERY > x.last /\ FRAGMENT > x.last
      BY PartNumbers
    <3>. QED  BY <3>1, NoPiecesBehind, PartNumbers
  <2>2. ~StartsWith(<<>>, "?") /\ ~StartsWith(<<>>, "#")
    BY DEF StartsWith
  <2>. QED  BY <1>2, <2>1, <2>2, FramedFacts DEF Led
<1>. QED  BY <1>1, <1>2 DEF MayCopyFrame

LEMMA SeparatorsOfBase ==
    /\ <<":">> \o Separator(SCHEME, USERNAME) = <<":", "/", "/">>
    /\ <<":">> \o Separator(SCHEME, HOST) = <<":", "/", "/">>
    /\ <<":">> \o Separator(SCHEME, PATH_PREFIX) = <<":">>
    /\ <<":">> \o Separator(SCHEME, PATH) = <<":">>
<1>1. Separator(SCHEME, USERNAME) = <<"/", "/">> /\ Separator(SCHEME, HOST) = <<"/", "/">>
  BY PartNumbers DEF Separator
<1>2. Separator(SCHEME, PATH_PREFIX) = <<>> /\ Separator(SCHEME, PATH) = <<>>
  BY PartNumbers DEF Separator
<1>3. <<":">> \o <<>> = <<":">>
  OBVIOUS
<1>. QED  BY <1>1, <1>2, <1>3, ColonSlashes

\* The frame of the base, when the scheme alone was written.
LEMMA FrameAfterScheme ==
    ASSUME NEW x, NEW src, NEW t2, MayAppend(x, src, USERNAME, t2), NEW op_,
           x.save, SomeCopied(src, t2), Record(src), BeforeHost(x)
    PROVE  SameFrame(src, AppendParts(x, src, USERNAME, t2, op_).u)
<1>. DEFINE first == FirstToCopy(src, USERNAME)
            v == AppendParts(x, src, USERNAME, t2, op_).u
<1>1. /\ FlagsOfBase(x.u, v, src, USERNAME, t2)
      /\ PiecesOfBase(x.u, v, x.last, src, first, t2, op_ = "keep")
  BY PartsOfBase
<1>2. x.last = SCHEME /\ t2 \in {PORT, PATH, QUERY} /\ src \in Url /\ Complete(src)
  BY PartNumbers DEF MayAppend
<1>3. PICK lb \in Part : EndsUpTo(src, lb)
  BY <1>2, CompleteFacts DEF Complete, CompleteUpTo, Sound, Ordered
<1>4. Framed(src)
  BY DEF Record
<1>5. HasCredentials(src) <=> HasUserinfo(src)
  BY <1>2, <1>3, <1>4, FramedFacts, UserinfoIsCredentials
<1>6. PORT =< t2 /\ HOST =< t2 /\ t2 \in Int
  BY <1>2, PartNumbers
<1>7. /\ IsNull(v, HOST) <=> IsNull(src, HOST)
      /\ IsNull(v, PORT) <=> IsNull(src, PORT)
  <2>1. USERNAME =< HOST /\ USERNAME =< PORT
    BY PartNumbers
  <2>. QED  BY <1>1, <1>6, <2>1 DEF FlagsOfBase
<1>. HIDE DEF v
<1>8. first = IF IsNull(src, HOST) THEN PATH_PREFIX
              ELSE IF HasCredentials(src) THEN USERNAME ELSE HOST
  BY PartNumbers DEF FirstToCopy
<1>9. PATH_PREFIX =< t2 \/ (t2 = PORT /\ ~IsNull(src, HOST))
  <2>1. t2 # PORT => PATH_PREFIX =< t2
    BY <1>2, PartNumbers
  <2>2. t2 = PORT => ~(t2 >= PATH)
    BY PartNumbers
  <2>. QED  BY <2>1, <2>2 DEF SomeCopied
<1>. HIDE DEF first
<1>10. CASE IsNull(src, HOST)
  <2>1. first = PATH_PREFIX /\ PATH_PREFIX =< t2
    BY <1>8, <1>9, <1>10
  <2>2. NullHostFramed(src) /\ ~HasUserinfo(src) /\ IsNull(src, PORT)
    BY <1>4, <1>10, FramedFacts DEF NullHostFramed
  <2>3. \A t \in {USERNAME, PASSWORD, HOST_START, HOST, PORT} : Piece(v, t) = <<>>
    <3>1. \A t \in {USERNAME, PASSWORD, HOST_START, HOST, PORT} :
             t \in Part /\ x.last < t /\ t < first /\ t # SCHEME_SEP
      BY <1>2, <2>1, PartNumbers
    <3>. QED  BY <1>1, <3>1 DEF PiecesOfBase
  <2>4. Piece(v, SCHEME_SEP) = <<":">>
    <3>1. SCHEME_SEP \in Part /\ x.last < SCHEME_SEP /\ SCHEME_SEP < first
      BY <1>2, <2>1, PartNumbers
    <3>2. Piece(v, SCHEME_SEP) = <<":">> \o Separator(x.last, first)
      BY <1>1, <3>1 DEF PiecesOfBase
    <3>. QED  BY <1>2, <2>1, <3>2, SeparatorsOfBase
  <2>5. Piece(v, PATH_PREFIX) = Piece(src, PATH_PREFIX)
    <3>1. PATH_PREFIX \in Part /\ first =< PATH_PREFIX /\ PATH_PREFIX # PATH
      BY <2>1, PartNumbers
    <3>. QED  BY <1>1, <2>1, <3>1 DEF PiecesOfBase
  <2>6. /\ Piece(src, USERNAME) = <<>> /\ Piece(src, PASSWORD) = <<>>
        /\ Piece(src, HOST_START) = <<>> /\ Piece(src, HOST) = <<>>
        /\ Piece(src, PORT) = <<>> /\ Piece(src, SCHEME_SEP) = <<":">>
    BY <1>4, <2>2, FramedFacts DEF NullHostFramed, HasUserinfo, PortFramed, Led
  <2>7. \A t \in FramePart : Piece(v, t) = Piece(src, t)
    BY <2>3, <2>4, <2>5, <2>6 DEF FramePart
  <2>. QED  BY <1>7, <2>7 DEF SameFrame, v
<1>11. CASE ~IsNull(src, HOST)
  <2>1. first = IF HasUserinfo(src) THEN USERNAME ELSE HOST
    BY <1>5, <1>8, <1>11
  <2>2. Piece(src, SCHEME_SEP) = <<":", "/", "/">> /\ Piece(src, PATH_PREFIX) = <<>>
    BY <1>4, <1>11, FramedFacts
  <2>3. Piece(v, SCHEME_SEP) = <<":", "/", "/">>
    <3>1. SCHEME_SEP \in Part /\ x.last < SCHEME_SEP /\ SCHEME_SEP < first
      BY <1>2, <2>1, PartNumbers
    <3>2. Piece(v, SCHEME_SEP) = <<":">> \o Separator(x.last, first)
      BY <1>1, <3>1 DEF PiecesOfBase
    <3>. QED  BY <1>2, <2>1, <3>2, SeparatorsOfBase
  <2>4. \A t \in {HOST, PORT} : Piece(v, t) = Piece(src, t)
    <3>1. \A t \in {HOST, PORT} : t \in Part /\ first =< t /\ t =< t2 /\ t # PATH
      BY <1>2, <2>1, PartNumbers
    <3>. QED  BY <1>1, <3>1 DEF PiecesOfBase
  <2>5. \A t \in {USERNAME, PASSWORD, HOST_START} : Piece(v, t) = Piece(src, t)
    <3>1. CASE HasUserinfo(src)
      <4>1. \A t \in {USERNAME, PASSWORD, HOST_START} :
               t \in Part /\ first =< t /\ t =< t2 /\ t # PATH
        BY <1>2, <2>1, <3>1, PartNumbers
      <4>. QED  BY <1>1, <4>1 DEF PiecesOfBase
    <3>2. CASE ~HasUserinfo(src)
      <4>1. \A t \in {USERNAME, PASSWORD, HOST_START} :
               t \in Part /\ x.last < t /\ t < first /\ t # SCHEME_SEP
        BY <1>2, <2>1, <3>2, PartNumbers
      <4>2. \A t \in {USERNAME, PASSWORD, HOST_START} : Piece(v, t) = <<>>
        BY <1>1, <4>1 DEF PiecesOfBase
      <4>3. /\ Piece(src, USERNAME) = <<>> /\ Piece(src, PASSWORD) = <<>>
            /\ Piece(src, HOST_START) = <<>>
        BY <1>4, <3>2, FramedFacts DEF HasUserinfo
      <4>. QED  BY <4>2, <4>3
    <3>. QED  BY <3>1, <3>2
  <2>6. Piece(v, PATH_PREFIX) = Piece(src, PATH_PREFIX)
    <3>1. PATH_PREFIX \in Part /\ first =< PATH_PREFIX /\ PATH_PREFIX # PATH
      BY <2>1, PartNumbers
    <3>2. CASE PATH_PREFIX =< t2
      BY <1>1, <3>1, <3>2 DEF PiecesOfBase
    <3>3. CASE t2 = PORT
      <4>1. PATH_PREFIX > t2
        BY <3>3, PartNumbers
      <4>. QED  BY <1>1, <2>2, <3>1, <4>1 DEF PiecesOfBase
    <3>. QED  BY <1>9, <3>2, <3>3
  <2>7. \A t \in FramePart : Piece(v, t) = Piece(src, t)
    BY <2>2, <2>3, <2>4, <2>5, <2>6 DEF FramePart
  <2>. QED  BY <1>7, <2>7 DEF SameFrame, v
<1>. QED  BY <1>10, <1>11

\* A file URL has a host, and neither credentials nor a port.
LEMMA FileHasHost ==
    ASSUME NEW u, Framed(u), HostConsistent(u), u.inf.file, u.inf.special
    PROVE  /\ ~IsNull(u, HOST) /\ ~HasUserinfo(u) /\ IsNull(u, PORT)
           /\ Piece(u, SCHEME_SEP) = <<":", "/", "/">>
           /\ Piece(u, USERNAME) = <<>> /\ Piece(u, PASSWORD) = <<>>
           /\ Piece(u, HOST_START) = <<>> /\ Piece(u, PORT) = <<>>
           /\ Piece(u, PATH_PREFIX) = <<>>
<1>1. ~IsNull(u, HOST) /\ ~HasUserinfo(u) /\ IsNull(u, PORT)
  BY DEF HostConsistent
<1>2. Piece(u, PORT) = <<>>
  BY <1>1, FramedFacts DEF PortFramed, Led
<1>. QED  BY <1>1, <1>2, FramedFacts DEF HasUserinfo

\* The frame of the base, when a file URL with an empty host was written.
LEMMA FrameAfterHost ==
    ASSUME NEW x, NEW src, NEW t2, MayAppend(x, src, HOST, t2), NEW op_,
           x.save, Record(src), Framed(x.u), HostConsistent(x.u), src.inf.file,
           src.inf.special, x.u.inf = src.inf
    PROVE  SomeCopied(src, t2) /\ SameFrame(src, AppendParts(x, src, HOST, t2, op_).u)
<1>. DEFINE first == FirstToCopy(src, HOST)
            v == AppendParts(x, src, HOST, t2, op_).u
<1>1. /\ ~IsNull(src, HOST) /\ ~HasUserinfo(src) /\ IsNull(src, PORT)
      /\ Piece(src, SCHEME_SEP) = <<":", "/", "/">>
      /\ Piece(src, USERNAME) = <<>> /\ Piece(src, PASSWORD) = <<>>
      /\ Piece(src, HOST_START) = <<>> /\ Piece(src, PORT) = <<>>
      /\ Piece(src, PATH_PREFIX) = <<>>
  BY FileHasHost DEF Record
<1>2. /\ ~IsNull(x.u, HOST) /\ IsNull(x.u, PORT)
      /\ Piece(x.u, SCHEME_SEP) = <<":", "/", "/">>
      /\ Piece(x.u, USERNAME) = <<>> /\ Piece(x.u, PASSWORD) = <<>>
      /\ Piece(x.u, HOST_START) = <<>>
  BY FileHasHost
<1>3. SomeCopied(src, t2)
  BY <1>1 DEF SomeCopied
<1>4. /\ FlagsOfBase(x.u, v, src, HOST, t2)
      /\ PiecesOfBase(x.u, v, x.last, src, first, t2, op_ = "keep")
  BY <1>3, PartsOfBase
<1>5. x.last = HOST /\ t2 \in {HOST, PATH, QUERY}
  BY PartNumbers DEF MayAppend
<1>6. first = HOST
  BY <1>1, PartNumbers DEF FirstToCopy
<1>. HIDE DEF v, first
<1>7. IsNull(v, HOST) <=> IsNull(src, HOST)
  <2>1. HOST =< HOST /\ HOST =< t2
    BY <1>5, PartNumbers
  <2>. QED  BY <1>4, <2>1 DEF FlagsOfBase
<1>8. IsNull(v, PORT) <=> IsNull(src, PORT)
  BY <1>1, <1>2, <1>4 DEF FlagsOfBase
<1>9. /\ Piece(v, SCHEME_SEP) = Piece(x.u, SCHEME_SEP)
      /\ Piece(v, USERNAME) = Piece(x.u, USERNAME)
      /\ Piece(v, PASSWORD) = Piece(x.u, PASSWORD)
      /\ Piece(v, HOST_START) = Piece(x.u, HOST_START)
  <2>1. \A t \in {SCHEME_SEP, USERNAME, PASSWORD, HOST_START} :
           t \in Part /\ t =< x.last /\ t < first
    BY <1>5, <1>6, PartNumbers
  <2>. QED  BY <1>4, <2>1 DEF PiecesOfBase
<1>10. Piece(v, HOST) = Piece(src, HOST)
  <2>1. HOST \in Part /\ first =< HOST /\ HOST =< t2 /\ HOST # PATH
    BY <1>5, <1>6, PartNumbers
  <2>. QED  BY <1>4, <2>1 DEF PiecesOfBase
<1>11. ASSUME NEW t \in {PORT, PATH_PREFIX} PROVE Piece(v, t) = Piece(src, t)
  <2>1. t \in Part /\ first =< t /\ t # PATH /\ (t =< t2 \/ t > t2)
    BY <1>5, <1>6, PartNumbers
  <2>2. CASE t =< t2
    BY <1>4, <2>1, <2>2 DEF PiecesOfBase
  <2>3. CASE t > t2
    BY <1>1, <1>4, <2>1, <2>3 DEF PiecesOfBase
  <2>. QED  BY <2>1, <2>2, <2>3
<1>12. \A t \in FramePart : Piece(v, t) = Piece(src, t)
  BY <1>1, <1>2, <1>9, <1>10, <1>11 DEF FramePart
<1>. QED  BY <1>3, <1>7, <1>8, <1>12 DEF SameFrame, v

LEMMA LastPartsOfBase ==
    ASSUME NEW x, NEW src, NEW t1, t1 \in {USERNAME, HOST, PATH}, NEW v,
           NEW t2 \in {HOST, PORT, PATH, QUERY}, NEW first, first =< QUERY, NEW l, NEW whole,
           FlagsOfBase(x.u, v, src, t1, t2), PiecesOfBase(x.u, v, l, src, first, t2, whole),
           IsNull(x.u, QUERY), IsNull(x.u, FRAGMENT), Led(src, QUERY, "?")
    PROVE  Led(v, QUERY, "?") /\ Led(v, FRAGMENT, "#")
<1>1. Piece(v, FRAGMENT) = <<>> /\ IsNull(v, FRAGMENT)
  <2>1. FRAGMENT > t2 /\ ~(FRAGMENT =< t2) /\ FRAGMENT \in Part
    BY PartNumbers
  <2>. QED  BY <2>1 DEF FlagsOfBase, PiecesOfBase
<1>2. CASE t2 = QUERY
  <2>1. t1 =< QUERY /\ QUERY =< t2 /\ QUERY \in Part /\ QUERY # PATH
    BY <1>2, PartNumbers
  <2>2. IsNull(v, QUERY) <=> IsNull(src, QUERY)
    BY <2>1 DEF FlagsOfBase
  <2>3. Piece(v, QUERY) = Piece(src, QUERY)
    BY <2>1 DEF PiecesOfBase
  <2>. QED  BY <1>1, <2>2, <2>3 DEF Led
<1>3. CASE t2 # QUERY
  <2>1. QUERY > t2 /\ ~(QUERY =< t2) /\ QUERY \in Part
    BY <1>3, PartNumbers
  <2>2. IsNull(v, QUERY) /\ Piece(v, QUERY) = <<>>
    BY <2>1 DEF FlagsOfBase, PiecesOfBase
  <2>. QED  BY <1>1, <2>2 DEF Led
<1>. QED  BY <1>2, <1>3

\* What is written with the parts of a base that has no opaque path.
LEMMA CopiedRecord ==
    ASSUME NEW x, NEW src, NEW t1, NEW t2, MayAppend(x, src, t1, t2), NEW op_,
           ~HasOpaquePath(src), x.save, Record(src), x.u.inf = src.inf,
           src.inf.file => src.inf.special, MayCopyFrame(x, src, t1)
    PROVE  LET y == AppendParts(x, src, t1, t2, op_)
           IN /\ Opened(y)
              /\ t2 >= PATH => Framed(y.u)
              /\ t2 >= PATH /\ op_ = "keep" => Record(y.u)
              /\ t1 = HOST => y.last >= HOST
<1>. DEFINE y == AppendParts(x, src, t1, t2, op_)
            first == FirstToCopy(src, t1)
<1>1. /\ Appender(x) /\ x.last \in {SCHEME, HOST} /\ x.u.segs = 0
      /\ t1 \in {USERNAME, HOST} /\ t2 \in {HOST, PORT, PATH, QUERY}
      /\ src \in Url /\ Complete(src)
      /\ t1 = HOST => x.last = HOST
      /\ t1 = USERNAME => x.last = SCHEME
  BY PartNumbers DEF MayAppend, MayCopyFrame
<1>2. Appender(y) /\ ~HasOpaquePath(y.u)
  BY AppendPartsSound DEF AppendedParts
<1>3. t2 \in Int /\ USERNAME # HOST
  BY <1>1, PartNumbers
<1>4. CASE SomeCopied(src, t2)
  <2>1. /\ FlagsOfBase(x.u, y.u, src, t1, t2)
        /\ PiecesOfBase(x.u, y.u, x.last, src, first, t2, op_ = "keep")
        /\ y.last >= HOST
        /\ op_ = "keep" /\ IsNull(src, HOST) => y.u.segs = src.segs
    BY <1>4, PartsOfBase
  <2>. HIDE DEF y
  <2>2. SameFrame(src, y.u)
    <3>1. CASE t1 = USERNAME
      <4>1. BeforeHost(x)
        BY <1>3, <3>1 DEF MayCopyFrame
      <4>. QED  BY <1>4, <3>1, <4>1, FrameAfterScheme DEF y
    <3>2. CASE t1 = HOST
      <4>1. Framed(x.u) /\ HostConsistent(x.u) /\ src.inf.file
        BY <1>3, <3>2 DEF MayCopyFrame
      <4>. QED  BY <3>2, <4>1, FrameAfterHost DEF y
    <3>. QED  BY <1>1, <3>1, <3>2
  <2>3. first =< QUERY /\ first =< PATH
    <3>1. first \in {t1, PATH_PREFIX, USERNAME, HOST}
      BY DEF FirstToCopy
    <3>. HIDE DEF first
    <3>. QED  BY <1>1, <3>1, PartNumbers
  <2>4. Led(y.u, QUERY, "?") /\ Led(y.u, FRAGMENT, "#")
    <3>1. IsNull(x.u, QUERY) /\ IsNull(x.u, FRAGMENT)
      BY <1>1, LastPartsNull
    <3>2. Led(src, QUERY, "?")
      BY FramedFacts DEF Record
    <3>. HIDE DEF first
    <3>. QED  BY <1>1, <2>1, <2>3, <3>1, <3>2, LastPartsOfBase
  <2>5. Framed(y.u) /\ HostConsistent(y.u)
    <3>1. y.u.inf = src.inf
      BY <2>1 DEF FlagsOfBase
    <3>. QED  BY <2>2, <2>4, <3>1, FrameKept DEF Record
  <2>6. Opened(y)
    <3>1. ~(y.last < HOST)
      <4>1. y.last \in Int
        BY <1>2, AppenderFacts, PartInt
      <4>2. y.last >= HOST
        BY <2>1
      <4>. QED  BY <4>1, <4>2, PartNumbers
    <3>. QED  BY <2>5, <3>1 DEF Opened
  <2>7. ASSUME t2 >= PATH, op_ = "keep" PROVE Record(y.u)
    <3>1. Piece(y.u, PATH) = Piece(src, PATH)
      <4>1. PATH \in Part /\ PATH =< t2
        BY <1>3, <2>7, PartNumbers
      <4>. QED  BY <2>1, <2>3, <2>7, <4>1 DEF PiecesOfBase
    <3>2. y.u.inf = src.inf
      BY <2>1 DEF FlagsOfBase
    <3>3. (IsNull(y.u, HOST) <=> IsNull(src, HOST))
          /\ Piece(y.u, PATH_PREFIX) = Piece(src, PATH_PREFIX)
      BY <2>2 DEF SameFrame, FramePart
    <3>4. View(y.u, PATH) = Piece(y.u, PATH) /\ View(src, PATH) = Piece(src, PATH)
      <4>1. Readable(y.u)
        BY <1>2, WrittenIsReadable
      <4>2. Readable(src)
        BY <1>1, CompleteFacts DEF Readable, Complete, CompleteUpTo, Sound, Ordered
      <4>. QED  BY <4>1, <4>2, ReadPieces
    <3>5. NeedsPathPrefix(y.u) <=> NeedsPathPrefix(src)
      <4>1. CASE IsNull(src, HOST)
        BY <2>1, <2>7, <3>1, <3>3, <3>4, <4>1 DEF NeedsPathPrefix
      <4>2. CASE ~IsNull(src, HOST)
        BY <3>3, <4>2 DEF NeedsPathPrefix
      <4>. QED  BY <4>1, <4>2
    <3>6. PrefixFits(y.u)
      BY <1>2, <3>3, <3>5 DEF PrefixFits, Record
    <3>7. PathConsistent(y.u)
      BY <3>1, <3>2, <3>3 DEF PathConsistent, Record
    <3>. QED  BY <2>5, <3>6, <3>7 DEF Record
  <2>. QED  BY <2>1, <2>5, <2>6, <2>7 DEF y
<1>5. CASE ~SomeCopied(src, t2)
  <2>1. /\ y.last = x.last /\ y.u.norm = x.u.norm /\ y.u.ends = x.u.ends
        /\ FlagsOfBase(x.u, y.u, src, t1, t2)
    BY <1>5, NothingCopied
  <2>. HIDE DEF y
  <2>2. IsNull(src, HOST) /\ ~(t2 >= PATH)
    BY <1>5 DEF SomeCopied
  <2>3. t1 = USERNAME /\ BeforeHost(x) /\ x.last = SCHEME
    <3>1. ~(src.inf.file)
      BY <2>2 DEF Record, HostConsistent
    <3>. QED  BY <1>1, <3>1 DEF MayCopyFrame
  <2>4. IsNull(src, PORT)
    BY <2>2, FramedFacts DEF Record, NullHostFramed
  <2>5. \A t \in {HOST, PORT, QUERY, FRAGMENT} : IsNull(y.u, t)
    <3>1. \A t \in {HOST, PORT, QUERY, FRAGMENT} : IsNull(x.u, t)
      BY <2>3 DEF BeforeHost
    <3>2. ~(QUERY =< t2) /\ ~(FRAGMENT =< t2)
      BY <1>1, <2>2, PartNumbers
    <3>. QED  BY <2>1, <2>2, <2>4, <3>1, <3>2 DEF FlagsOfBase
  <2>6. BeforeHost(y) /\ y.last = SCHEME
    BY <1>2, <2>1, <2>3, <2>5, SchemeBeforeHost
  <2>7. ~HasUserinfo(y.u)
    BY <1>2, <2>6, BeforeHostFacts
  <2>8. ~y.u.inf.special
    <3>1. y.u.inf = src.inf
      BY <2>1 DEF FlagsOfBase
    <3>. QED  BY <2>2, <3>1 DEF Record, HostConsistent
  <2>9. HostConsistent(y.u)
    BY <2>5, <2>7, <2>8 DEF HostConsistent
  <2>10. y.last < HOST
    BY <2>6, PartNumbers
  <2>11. Opened(y)
    BY <2>6, <2>9, <2>10 DEF Opened
  <2>. QED  BY <1>3, <2>2, <2>3, <2>11 DEF y
<1>. QED  BY <1>4, <1>5

\* The opaque path and the query of a base.
LEMMA CopiedOpaqueRecord ==
    ASSUME NEW x, NEW src, MayAppend(x, src, PATH, QUERY), HasOpaquePath(src),
           x.save, Record(src), x.u.inf = src.inf, BeforeHost(x)
    PROVE  Record(AppendParts(x, src, PATH, QUERY, "keep").u)
<1>. DEFINE v == AppendParts(x, src, PATH, QUERY, "keep").u
            first == FirstToCopy(src, PATH)
<1>1. /\ x.last = SCHEME /\ Appender(x) /\ src \in Url /\ Complete(src)
  BY PartNumbers DEF MayAppend
<1>2. first = PATH
  BY PartNumbers DEF FirstToCopy
<1>3. SomeCopied(src, QUERY)
  BY PartNumbers DEF SomeCopied
<1>4. /\ FlagsOfBase(x.u, v, src, PATH, QUERY)
      /\ PiecesOfBase(x.u, v, SCHEME, src, PATH, QUERY, "keep" = "keep")
  <2>1. /\ FlagsOfBase(x.u, v, src, PATH, QUERY)
        /\ PiecesOfBase(x.u, v, x.last, src, first, QUERY, "keep" = "keep")
    BY <1>3, PartsOfBase
  <2>. HIDE DEF first, v
  <2>. QED  BY <1>1, <1>2, <2>1 DEF v
<1>. HIDE DEF v
<1>5. IsNull(src, HOST) /\ ~src.inf.special
  <2>1. PICK lb \in Part : CompleteUpTo(src, lb)
    BY <1>1 DEF Complete
  <2>. QED  BY <2>1, CompleteFacts DEF CompleteUpTo, Sound, HostAgrees
<1>6. \A t \in {HOST, PORT, FRAGMENT} : IsNull(v, t)
  <2>1. \A t \in {HOST, PORT, FRAGMENT} : ~(PATH =< t /\ t =< QUERY)
    BY PartNumbers
  <2>. QED  BY <1>4, <2>1 DEF FlagsOfBase, BeforeHost
<1>7. HasOpaquePath(v) /\ v.inf = src.inf
  <2>1. PATH =< PATH /\ PATH =< QUERY
    BY PartNumbers
  <2>. QED  BY <1>4, <2>1 DEF FlagsOfBase
<1>8. \A t \in {USERNAME, PASSWORD, HOST_START, HOST, PORT, PATH_PREFIX} : Piece(v, t) = <<>>
  <2>1. \A t \in {USERNAME, PASSWORD, HOST_START, HOST, PORT, PATH_PREFIX} :
           t \in Part /\ SCHEME < t /\ t < PATH /\ t # SCHEME_SEP
    BY PartNumbers
  <2>. QED  BY <1>4, <2>1 DEF PiecesOfBase
<1>9. Piece(v, SCHEME_SEP) = <<":">>
  <2>1. SCHEME_SEP \in Part /\ SCHEME < SCHEME_SEP /\ SCHEME_SEP < PATH
    BY PartNumbers
  <2>2. Piece(v, SCHEME_SEP) = <<":">> \o Separator(SCHEME, PATH)
    BY <1>4, <2>1 DEF PiecesOfBase
  <2>. QED  BY <2>2, SeparatorsOfBase
<1>10. Led(v, QUERY, "?") /\ Led(v, FRAGMENT, "#")
  <2>1. IsNull(x.u, QUERY) /\ IsNull(x.u, FRAGMENT)
    BY DEF BeforeHost
  <2>2. Led(src, QUERY, "?") /\ PATH =< QUERY
    BY FramedFacts, PartNumbers DEF Record
  <2>. QED  BY <1>4, <2>1, <2>2, LastPartsOfBase
<1>11. ~HasUserinfo(v)
  BY <1>8 DEF HasUserinfo
<1>12. NullHostFramed(v)
  BY <1>6, <1>8, <1>9, <1>11 DEF NullHostFramed
<1>13. PortFramed(v) /\ PasswordFramed(v)
  BY <1>6, <1>8 DEF PortFramed, PasswordFramed, Led
<1>14. Framed(v)
  BY <1>6, <1>8, <1>10, <1>11, <1>12, <1>13 DEF Framed
<1>15. PrefixFits(v)
  BY <1>7, <1>8 DEF PrefixFits
<1>16. HostConsistent(v)
  BY <1>5, <1>6, <1>7, <1>11 DEF HostConsistent
<1>17. PathConsistent(v)
  BY <1>5, <1>7 DEF PathConsistent
<1>. QED  BY <1>14, <1>15, <1>16, <1>17 DEF Record, v
=============================================================================

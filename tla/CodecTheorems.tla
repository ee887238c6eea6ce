--------------------------- MODULE CodecTheorems ---------------------------
(***************************************************************************)
(* Theorems about the conversions of texts, for strings of every length.   *)
(***************************************************************************)
EXTENDS CodecCorrect, PositionTheorems

String == Seq(Byte)

LEMMA BytesOf ==
    ASSUME NEW s \in String, NEW i \in 1 .. Len(s)
    PROVE  s[i] \in 0 .. 255
<1>1. s[i] \in Byte
  BY DEF String
<1>. QED  BY <1>1 DEF Byte

-----------------------------------------------------------------------------
(* The tables of the code and the table of the standard.                   *)

LEMMA OtherTrails ==
    ASSUME NEW a \in 0 .. 255, NEW k \in 1 .. 3, NEW b \in 0 .. 255, k # 1 \/ a < 224
    PROVE  ValidTrail(a, k, b) <=> b \in 128 .. 191
<1>1. ValidTrail(a, k, b) <=> (b - 128) % 256 =< 63
  BY DEF ValidTrail
<1>2. (b - 128) % 256 =< 63 <=> b \in 128 .. 191
  OBVIOUS
<1>. QED  BY <1>1, <1>2

LEMMA TrailsOf ==
    /\ \A a \in 0 .. 127 : Trails(a) = 0
    /\ \A a \in 128 .. 193 : Trails(a) = -1
    /\ \A a \in 194 .. 223 : Trails(a) = 1
    /\ \A a \in 224 .. 239 : Trails(a) = 2
    /\ \A a \in 240 .. 244 : Trails(a) = 3
    /\ \A a \in 245 .. 255 : Trails(a) = -1
<1>1. \A a \in 0 .. 127 : Trails(a) = 0
  BY DEF Trails
<1>2. \A a \in 128 .. 193 : Trails(a) = -1
  BY DEF Trails
<1>3. \A a \in 194 .. 223 : Trails(a) = 1
  BY DEF Trails
<1>4. \A a \in 224 .. 239 : Trails(a) = 2
  BY DEF Trails
<1>5. \A a \in 240 .. 244 : Trails(a) = 3
  BY DEF Trails
<1>6. \A a \in 245 .. 255 : Trails(a) = -1
  BY DEF Trails
<1>. QED  BY <1>1, <1>2, <1>3, <1>4, <1>5, <1>6

\* The bytes that may stand second in a character.
Second(a) ==
    IF a = 224 THEN 160 .. 191 ELSE IF a = 237 THEN 128 .. 159
    ELSE IF a = 240 THEN 144 .. 191 ELSE IF a = 244 THEN 128 .. 143 ELSE Tail1

\* What the bit tables say of the byte after the lead byte.
LEMMA LeadBits ==
    ASSUME NEW b \in 0 .. 255
    PROVE  \A a \in 194 .. 244 : ValidTrail(a, 1, b) <=> b \in Second(a)
<1>. DEFINE h == b \div 32
            q == b \div 16
<1>1. h \in 0 .. 7 /\ q \in 0 .. 15
  OBVIOUS
<1>2. /\ 2 ^ 0 = 1 /\ 2 ^ 1 = 2 /\ 2 ^ 2 = 4 /\ 2 ^ 3 = 8
      /\ 2 ^ 4 = 16 /\ 2 ^ 5 = 32 /\ 2 ^ 6 = 64 /\ 2 ^ 7 = 128
  OBVIOUS
<1>3. /\ \A n \in {0, 1, 2, 3, 4, 6, 7} : ~Bit(32, n)
      /\ Bit(32, 5)
      /\ \A n \in {0, 1, 2, 3, 5, 6, 7} : ~Bit(16, n)
      /\ Bit(16, 4)
      /\ \A n \in {0, 1, 2, 3, 6, 7} : ~Bit(48, n)
      /\ Bit(48, 4) /\ Bit(48, 5)
  BY <1>2 DEF Bit
<1>4. /\ ~Bit(30, 0)
      /\ \A n \in 1 .. 4 : Bit(30, n)
      /\ \A n \in 0 .. 3 : Bit(15, n)
      /\ ~Bit(15, 4)
      /\ \A n \in 0 .. 4 : ~Bit(0, n)
  <2>1. \A n \in 0 .. 4 : n = 0 \/ n = 1 \/ n = 2 \/ n = 3 \/ n = 4
    OBVIOUS
  <2>2. ~Bit(30, 0) /\ Bit(30, 1) /\ Bit(30, 2) /\ Bit(30, 3) /\ Bit(30, 4)
    BY <1>2 DEF Bit
  <2>3. Bit(15, 0) /\ Bit(15, 1) /\ Bit(15, 2) /\ Bit(15, 3) /\ ~Bit(15, 4)
    BY <1>2 DEF Bit
  <2>4. ~Bit(0, 0) /\ ~Bit(0, 1) /\ ~Bit(0, 2) /\ ~Bit(0, 3) /\ ~Bit(0, 4)
    BY <1>2 DEF Bit
  <2>. QED  BY <2>1, <2>2, <2>3, <2>4
<1>5. /\ Bit(32, h) <=> h = 5
      /\ Bit(16, h) <=> h = 4
      /\ Bit(48, h) <=> h = 4 \/ h = 5
  <2>1. h = 0 \/ h = 1 \/ h = 2 \/ h = 3 \/ h = 4 \/ h = 5 \/ h = 6 \/ h = 7
    BY <1>1
  <2>. HIDE DEF h
  <2>. QED  BY <1>3, <2>1
<1>6. /\ h = 5 <=> b \in 160 .. 191
      /\ h = 4 <=> b \in 128 .. 159
      /\ h = 4 \/ h = 5 <=> b \in 128 .. 191
  OBVIOUS
<1>7. /\ q \in 9 .. 11 <=> b \in 144 .. 191
      /\ q \in 8 .. 11 <=> b \in 128 .. 191
      /\ q = 8 <=> b \in 128 .. 143
  OBVIOUS
<1>8. Lead4Bits(q) = IF q = 8 THEN 30 ELSE IF q \in 9 .. 11 THEN 15 ELSE 0
  BY <1>1 DEF Lead4Bits
<1>9. ASSUME NEW a \in 224 .. 239
      PROVE  ValidTrail(a, 1, b) <=> Bit(Lead3Bits(a - 224), h)
  BY DEF ValidTrail
<1>10. ASSUME NEW a \in 240 .. 244
       PROVE  ValidTrail(a, 1, b) <=> Bit(Lead4Bits(q), a - 240)
  BY DEF ValidTrail
<1>11. /\ Lead3Bits(0) = 32 /\ Lead3Bits(13) = 16
       /\ \A n \in 1 .. 15 : n # 13 => Lead3Bits(n) = 48
  BY DEF Lead3Bits
<1>. HIDE DEF h, q
<1>12. ValidTrail(224, 1, b) <=> b \in 160 .. 191
  <2>1. ValidTrail(224, 1, b) <=> Bit(Lead3Bits(224 - 224), h)
    BY <1>9
  <2>2. 224 - 224 = 0
    OBVIOUS
  <2>. QED  BY <1>5, <1>6, <1>11, <2>1, <2>2
<1>13. ValidTrail(237, 1, b) <=> b \in 128 .. 159
  <2>1. ValidTrail(237, 1, b) <=> Bit(Lead3Bits(237 - 224), h)
    BY <1>9
  <2>2. 237 - 224 = 13
    OBVIOUS
  <2>. QED  BY <1>5, <1>6, <1>11, <2>1, <2>2
<1>14. ASSUME NEW a \in 225 .. 239, a # 237
       PROVE  ValidTrail(a, 1, b) <=> b \in 128 .. 191
  <2>1. a - 224 \in 1 .. 15 /\ a - 224 # 13 /\ a \in 224 .. 239
    BY <1>14
  <2>2. ValidTrail(a, 1, b) <=> Bit(Lead3Bits(a - 224), h)
    BY <1>9, <2>1
  <2>3. Lead3Bits(a - 224) = 48
    BY <1>11, <2>1
  <2>. QED  BY <1>5, <1>6, <2>2, <2>3
<1>15. ASSUME NEW n \in 0 .. 4
       PROVE  Bit(Lead4Bits(q), n) <=> \/ q = 8 /\ n # 0
                                       \/ q \in 9 .. 11 /\ n # 4
  BY <1>4, <1>8
<1>16. ValidTrail(240, 1, b) <=> b \in 144 .. 191
  <2>1. ValidTrail(240, 1, b) <=> Bit(Lead4Bits(q), 240 - 240)
    BY <1>10
  <2>2. 240 - 240 = 0 /\ 0 \in 0 .. 4
    OBVIOUS
  <2>3. Bit(Lead4Bits(q), 0) <=> q \in 9 .. 11
    BY <1>15, <2>2
  <2>. QED  BY <1>7, <2>1, <2>2, <2>3
<1>17. ASSUME NEW a \in 241 .. 243
       PROVE  ValidTrail(a, 1, b) <=> b \in 128 .. 191
  <2>1. a - 240 \in 0 .. 4 /\ a - 240 # 0 /\ a - 240 # 4 /\ a \in 240 .. 244
    OBVIOUS
  <2>2. ValidTrail(a, 1, b) <=> Bit(Lead4Bits(q), a - 240)
    BY <1>10, <2>1
  <2>3. Bit(Lead4Bits(q), a - 240) <=> q = 8 \/ q \in 9 .. 11
    BY <1>15, <2>1
  <2>4. q = 8 \/ q \in 9 .. 11 <=> q \in 8 .. 11
    BY <1>1
  <2>. QED  BY <1>7, <2>2, <2>3, <2>4
<1>18. ValidTrail(244, 1, b) <=> b \in 128 .. 143
  <2>1. ValidTrail(244, 1, b) <=> Bit(Lead4Bits(q), 244 - 240)
    BY <1>10
  <2>2. 244 - 240 = 4 /\ 4 \in 0 .. 4
    OBVIOUS
  <2>3. Bit(Lead4Bits(q), 4) <=> q = 8
    BY <1>15, <2>2
  <2>. QED  BY <1>7, <2>1, <2>2, <2>3
<1>19. ASSUME NEW a \in 194 .. 244, b \in Second(a) <=> b \in 128 .. 191,
              a < 224 \/ (a \in 225 .. 239 /\ a # 237) \/ a \in 241 .. 243
       PROVE  ValidTrail(a, 1, b) <=> b \in Second(a)
  <2>1. CASE a < 224
    <3>1. 1 \in 1 .. 3 /\ a \in 0 .. 255
      OBVIOUS
    <3>2. ValidTrail(a, 1, b) <=> b \in 128 .. 191
      BY Zenon, <2>1, <3>1, OtherTrails
    <3>. QED  BY Zenon, <1>19, <3>2
  <2>2. CASE a \in 225 .. 239 /\ a # 237
    BY Zenon, <1>14, <1>19, <2>2
  <2>3. CASE a \in 241 .. 243
    BY Zenon, <1>17, <1>19, <2>3
  <2>. QED  BY <1>19, <2>1, <2>2, <2>3
<1>20. /\ b \in Second(224) <=> b \in 160 .. 191
       /\ b \in Second(237) <=> b \in 128 .. 159
       /\ b \in Second(240) <=> b \in 144 .. 191
       /\ b \in Second(244) <=> b \in 128 .. 143
  BY DEF Second
<1>21. ASSUME NEW a \in 194 .. 244
       PROVE  ValidTrail(a, 1, b) <=> b \in Second(a)
  <2>1. CASE a = 224
    BY Zenon, <1>12, <1>20, <2>1
  <2>2. CASE a = 237
    BY Zenon, <1>13, <1>20, <2>2
  <2>3. CASE a = 240
    BY Zenon, <1>16, <1>20, <2>3
  <2>4. CASE a = 244
    BY Zenon, <1>18, <1>20, <2>4
  <2>5. CASE a # 224 /\ a # 237 /\ a # 240 /\ a # 244
    <3>1. b \in Second(a) <=> b \in 128 .. 191
      BY <2>5 DEF Second, Tail1, Continuation
    <3>2. a < 224 \/ (a \in 225 .. 239 /\ a # 237) \/ a \in 241 .. 243
      BY <2>5
    <3>. QED  BY Zenon, <1>19, <3>1, <3>2
  <2>. QED  BY Zenon, <2>1, <2>2, <2>3, <2>4, <2>5
<1>. QED  BY <1>21

\* The rows of the table are the tables of the code: which lead bytes they
\* have, and how many bytes follow and which.
IsRow(row, a) ==
    /\ Len(row) = Trails(a) + 1
    /\ Len(row) > 1 => row[2] = Second(a)
    /\ Len(row) > 2 => row[3] = Tail1
    /\ Len(row) > 3 => row[4] = Tail1

LEMMA RowsAreTables ==
    ASSUME NEW a \in 0 .. 255
    PROVE  /\ \A row \in WellFormedRows : a \in row[1] => IsRow(row, a)
           /\ Trails(a) >= 0 => \E row \in WellFormedRows : a \in row[1]
           /\ Trails(a) \in -1 .. 3
<1>. DEFINE s3 == 160 .. 191
            s5 == 128 .. 159
            s7 == 144 .. 191
            s9 == 128 .. 143
            r1 == <<0 .. 127>>
            r2 == <<194 .. 223, Tail1>>
            r3 == <<{224}, s3, Tail1>>
            r4 == <<225 .. 236, Tail1, Tail1>>
            r5 == <<{237}, s5, Tail1>>
            r6 == <<238 .. 239, Tail1, Tail1>>
            r7 == <<{240}, s7, Tail1, Tail1>>
            r8 == <<241 .. 243, Tail1, Tail1, Tail1>>
            r9 == <<{244}, s9, Tail1, Tail1>>
<1>1. WellFormedRows = {r1, r2, r3, r4, r5, r6, r7, r8, r9}
  BY DEF WellFormedRows
<1>a. /\ a = 224 => Second(a) = s3
      /\ a = 237 => Second(a) = s5
      /\ a = 240 => Second(a) = s7
      /\ a = 244 => Second(a) = s9
      /\ a # 224 /\ a # 237 /\ a # 240 /\ a # 244 => Second(a) = Tail1
  <2>. HIDE DEF s3, s5, s7, s9
  <2>1. Second(a) = IF a = 224 THEN s3 ELSE IF a = 237 THEN s5
                    ELSE IF a = 240 THEN s7 ELSE IF a = 244 THEN s9 ELSE Tail1
    BY Zenon DEF Second, s3, s5, s7, s9
  <2>. QED  BY <2>1
<1>. HIDE DEF s3, s5, s7, s9
<1>2. /\ a \in r1[1] => a \in 0 .. 127 /\ Len(r1) = 1
      /\ a \in r2[1] => a \in 194 .. 223 /\ Len(r2) = 2
      /\ a \in r3[1] => a = 224 /\ Len(r3) = 3
      /\ a \in r4[1] => a \in 225 .. 236 /\ Len(r4) = 3
      /\ a \in r5[1] => a = 237 /\ Len(r5) = 3
  OBVIOUS
<1>3. /\ a \in r6[1] => a \in 238 .. 239 /\ Len(r6) = 3
      /\ a \in r7[1] => a = 240 /\ Len(r7) = 4
      /\ a \in r8[1] => a \in 241 .. 243 /\ Len(r8) = 4
      /\ a \in r9[1] => a = 244 /\ Len(r9) = 4
  OBVIOUS
<1>4. /\ a \in 0 .. 127 => a \in r1[1]
      /\ a \in 194 .. 223 => a \in r2[1]
      /\ a = 224 => a \in r3[1]
      /\ a \in 225 .. 236 => a \in r4[1]
      /\ a = 237 => a \in r5[1]
      /\ a \in 238 .. 239 => a \in r6[1]
      /\ a = 240 => a \in r7[1]
      /\ a \in 241 .. 243 => a \in r8[1]
      /\ a = 244 => a \in r9[1]
  OBVIOUS
<1>5. /\ r2[2] = Tail1
      /\ r3[2] = s3 /\ r3[3] = Tail1
      /\ r4[2] = Tail1 /\ r4[3] = Tail1
      /\ r5[2] = s5 /\ r5[3] = Tail1
      /\ r6[2] = Tail1 /\ r6[3] = Tail1
  OBVIOUS
<1>6. /\ r7[2] = s7 /\ r7[3] = Tail1 /\ r7[4] = Tail1
      /\ r8[2] = Tail1 /\ r8[3] = Tail1 /\ r8[4] = Tail1
      /\ r9[2] = s9 /\ r9[3] = Tail1 /\ r9[4] = Tail1
  OBVIOUS
<1>. HIDE DEF r1, r2, r3, r4, r5, r6, r7, r8, r9
<1>7. \/ a \in 128 .. 193 \/ a \in 245 .. 255
      \/ a \in r1[1] \/ a \in r2[1] \/ a \in r3[1] \/ a \in r4[1] \/ a \in r5[1]
      \/ a \in r6[1] \/ a \in r7[1] \/ a \in r8[1] \/ a \in r9[1]
  BY <1>4
<1>8. ASSUME NEW row \in WellFormedRows, a \in row[1]
      PROVE  IsRow(row, a)
  <2>1. row = r1 \/ row = r2 \/ row = r3 \/ row = r4 \/ row = r5 \/ row = r6
          \/ row = r7 \/ row = r8 \/ row = r9
    BY <1>1
  <2>2. CASE row = r1
    <3>1. Len(row) = 1 /\ a \in 0 .. 127
      BY <1>2, <1>8, <2>2
    <3>2. Trails(a) = 0
      BY <1>a, <3>1, TrailsOf
    <3>. QED  BY <2>2, <3>1, <3>2 DEF IsRow
  <2>3. CASE row = r2
    <3>1. Len(row) = 2 /\ a \in 194 .. 223
      BY <1>2, <1>8, <2>3
    <3>2. Trails(a) = 1 /\ Second(a) = Tail1
      BY <1>a, <3>1, TrailsOf
    <3>. QED  BY <1>5, <2>3, <3>1, <3>2 DEF IsRow
  <2>4. CASE row = r3
    <3>1. Len(row) = 3 /\ a = 224
      BY <1>2, <1>8, <2>4
    <3>2. Trails(a) = 2 /\ Second(a) = s3
      BY <1>a, <3>1, TrailsOf
    <3>. QED  BY <1>5, <2>4, <3>1, <3>2 DEF IsRow
  <2>5. CASE row = r4
    <3>1. Len(row) = 3 /\ a \in 225 .. 236
      BY <1>2, <1>8, <2>5
    <3>2. Trails(a) = 2 /\ Second(a) = Tail1
      BY <1>a, <3>1, TrailsOf
    <3>. QED  BY <1>5, <2>5, <3>1, <3>2 DEF IsRow
  <2>6. CASE row = r5
    <3>1. Len(row) = 3 /\ a = 237
      BY <1>2, <1>8, <2>6
    <3>2. Trails(a) = 2 /\ Second(a) = s5
      BY <1>a, <3>1, TrailsOf
    <3>. QED  BY <1>5, <2>6, <3>1, <3>2 DEF IsRow
  <2>7. CASE row = r6
    <3>1. Len(row) = 3 /\ a \in 238 .. 239
      BY <1>3, <1>8, <2>7
    <3>2. Trails(a) = 2 /\ Second(a) = Tail1
      BY <1>a, <3>1, TrailsOf
    <3>. QED  BY <1>5, <2>7, <3>1, <3>2 DEF IsRow
  <2>8. CASE row = r7
    <3>1. Len(row) = 4 /\ a = 240
      BY <1>3, <1>8, <2>8
    <3>2. Trails(a) = 3 /\ Second(a) = s7
      BY <1>a, <3>1, TrailsOf
    <3>. QED  BY <1>6, <2>8, <3>1, <3>2 DEF IsRow
  <2>9. CASE row = r8
    <3>1. Len(row) = 4 /\ a \in 241 .. 243
      BY <1>3, <1>8, <2>9
    <3>2. Trails(a) = 3 /\ Second(a) = Tail1
      BY <1>a, <3>1, TrailsOf
    <3>. QED  BY <1>6, <2>9, <3>1, <3>2 DEF IsRow
  <2>10. CASE row = r9
    <3>1. Len(row) = 4 /\ a = 244
      BY <1>3, <1>8, <2>10
    <3>2. Trails(a) = 3 /\ Second(a) = s9
      BY <1>a, <3>1, TrailsOf
    <3>. QED  BY <1>6, <2>10, <3>1, <3>2 DEF IsRow
  <2>. QED  BY <2>1, <2>2, <2>3, <2>4, <2>5, <2>6, <2>7, <2>8, <2>9, <2>10
<1>9. Trails(a) >= 0 => \E row \in WellFormedRows : a \in row[1]
  BY <1>1, <1>7, TrailsOf
<1>10. Trails(a) \in -1 .. 3
  <2>1. \/ a \in 0 .. 127 \/ a \in 128 .. 193 \/ a \in 194 .. 223
        \/ a \in 224 .. 239 \/ a \in 240 .. 244 \/ a \in 245 .. 255
    OBVIOUS
  <2>. QED  BY <2>1, TrailsOf
<1>. QED  BY <1>8, <1>9, <1>10

LEMMA TrailIsSecond ==
    ASSUME NEW a \in 0 .. 255, NEW b \in 0 .. 255, Trails(a) > 0
    PROVE  ValidTrail(a, 1, b) <=> b \in Second(a)
<1>1. a \in 194 .. 244
  <2>1. a \in 0 .. 127 \/ a \in 128 .. 193 \/ a \in 245 .. 255 \/ a \in 194 .. 244
    OBVIOUS
  <2>. QED  BY <2>1, TrailsOf
<1>. QED  BY Zenon, <1>1, LeadBits

\* The first k bytes from i on start a character when the lead byte asks for
\* as many, and each of them may follow it.
FitsAt(s, i, k) == HasByte(s, i + k) /\ ValidTrail(s[i], k, ByteAt(s, i + k))
Begins(s, i, k) == \E row \in WellFormedRows : Starts(s, i, k, row)

LEMMA RowStarts ==
    ASSUME NEW s \in String, NEW i \in 1 .. Len(s), NEW k \in 1 .. 4, NEW row,
           IsRow(row, s[i]), s[i] \in row[1]
    PROVE  Starts(s, i, k, row) <=> /\ k - 1 =< Trails(s[i])
                                    /\ \A j \in 1 .. k - 1 : FitsAt(s, i, j)
<1>. DEFINE a == s[i]
<1>1. a \in 0 .. 255 /\ i \in Nat /\ Len(s) \in Nat
  BY BytesOf DEF String
<1>2. Trails(a) \in -1 .. 3 /\ Len(row) = Trails(a) + 1
  BY <1>1, RowsAreTables DEF IsRow
<1>3. ASSUME NEW j \in 1 .. 3, j =< Trails(a), i + j =< Len(s)
      PROVE  s[i + j] \in row[j + 1] <=> FitsAt(s, i, j)
  <2>1. i + j \in 1 .. Len(s) /\ s[i + j] \in 0 .. 255
    <3>1. i + j \in 1 .. Len(s)
      BY <1>1, <1>3
    <3>. QED  BY <3>1, BytesOf
  <2>2. FitsAt(s, i, j) <=> ValidTrail(a, j, s[i + j])
    BY <1>3 DEF FitsAt, HasByte, ByteAt
  <2>3. CASE j = 1
    <3>1. row[2] = Second(a)
      BY <1>2, <1>3, <2>3 DEF IsRow
    <3>2. a \in 0 .. 255 /\ s[i + 1] \in 0 .. 255 /\ Trails(a) > 0
      BY <1>1, <1>2, <1>3, <2>1, <2>3
    <3>3. ValidTrail(a, 1, s[i + 1]) <=> s[i + 1] \in Second(a)
      BY <3>2, TrailIsSecond
    <3>4. 1 + 1 = 2
      OBVIOUS
    <3>. QED  BY Zenon, <2>2, <2>3, <3>1, <3>3, <3>4
  <2>4. CASE j = 2 \/ j = 3
    <3>1. row[j + 1] = Tail1
      BY <1>2, <1>3, <2>4 DEF IsRow
    <3>a. j \in 1 .. 3 /\ j # 1
      BY <2>4
    <3>2. ValidTrail(a, j, s[i + j]) <=> s[i + j] \in Tail1
      BY Zenon, <1>1, <2>1, <3>a, OtherTrails DEF Tail1, Continuation
    <3>. QED  BY Zenon, <2>2, <3>1, <3>2
  <2>. QED  BY <2>3, <2>4
<1>4. \A j \in 1 .. 3 : FitsAt(s, i, j) => i + j =< Len(s)
  BY DEF FitsAt, HasByte
<1>. HIDE DEF a
<1>5. ASSUME k - 1 =< Trails(a), \A j \in 1 .. k - 1 : FitsAt(s, i, j)
      PROVE  Starts(s, i, k, row)
  <2>1. k =< Len(row) /\ i + k - 1 =< Len(s)
    <3>1. CASE k = 1
      BY <1>1, <1>2, <1>5, <3>1
    <3>2. CASE k # 1
      <4>1. k - 1 \in 1 .. k - 1 /\ k - 1 \in 1 .. 3
        BY <3>2
      <4>2. i + (k - 1) =< Len(s)
        BY <1>4, <1>5, <4>1
      <4>. QED  BY <1>1, <1>2, <1>5, <4>2
    <3>. QED  BY <3>1, <3>2
  <2>2. ASSUME NEW m \in 1 .. k
        PROVE  s[i + m - 1] \in row[m]
    <3>1. CASE m = 1
      <4>1. i + m - 1 = i
        BY <1>1, <3>1
      <4>. QED  BY <3>1, <4>1
    <3>2. CASE m # 1
      <4>1. m - 1 \in 1 .. k - 1 /\ m - 1 \in 1 .. 3 /\ i + m - 1 = i + (m - 1) /\ (m - 1) + 1 = m
        BY <1>1, <3>2
      <4>2. FitsAt(s, i, m - 1) /\ m - 1 =< Trails(a) /\ i + (m - 1) =< Len(s)
        BY <1>2, <1>4, <1>5, <4>1
      <4>3. s[i + (m - 1)] \in row[(m - 1) + 1]
        BY <1>3, <4>1, <4>2
      <4>. QED  BY <4>1, <4>3
    <3>. QED  BY <3>1, <3>2
  <2>. QED  BY <2>1, <2>2 DEF Starts
<1>6. ASSUME Starts(s, i, k, row)
      PROVE  k - 1 =< Trails(a) /\ \A j \in 1 .. k - 1 : FitsAt(s, i, j)
  <2>1. k =< Len(row) /\ i + k - 1 =< Len(s) /\ \A m \in 1 .. k : s[i + m - 1] \in row[m]
    BY <1>6 DEF Starts
  <2>2. k - 1 =< Trails(a)
    BY <1>2, <2>1
  <2>3. ASSUME NEW j \in 1 .. k - 1
        PROVE  FitsAt(s, i, j)
    <3>1. j \in 1 .. 3 /\ j =< Trails(a) /\ i + j =< Len(s) /\ j + 1 \in 1 .. k
            /\ i + (j + 1) - 1 = i + j
      BY <1>1, <1>2, <2>1, <2>2
    <3>2. s[i + j] \in row[j + 1]
      BY <2>1, <3>1
    <3>. QED  BY <1>3, <3>1, <3>2
  <2>. QED  BY <2>2, <2>3
<1>. QED  BY <1>5, <1>6 DEF a

LEMMA BeginsIsFits ==
    ASSUME NEW s \in String, NEW i \in 1 .. Len(s), NEW k \in 1 .. 4
    PROVE  /\ Begins(s, i, k) <=> /\ k - 1 =< Trails(s[i])
                                  /\ \A j \in 1 .. k - 1 : FitsAt(s, i, j)
           /\ IsCharacter(s, i, k) <=> k - 1 = Trails(s[i]) /\ Begins(s, i, k)
<1>. DEFINE a == s[i]
            AllFit == k - 1 =< Trails(a) /\ \A j \in 1 .. k - 1 : FitsAt(s, i, j)
<1>1. a \in 0 .. 255 /\ i \in Nat
  BY BytesOf
<1>2. Trails(a) \in -1 .. 3
  BY <1>1, RowsAreTables
<1>3. ASSUME NEW row \in WellFormedRows, Starts(s, i, k, row)
      PROVE  IsRow(row, a) /\ AllFit /\ Len(row) = Trails(a) + 1
  <2>1. s[i + 1 - 1] \in row[1] /\ i + 1 - 1 = i
    BY <1>1, <1>3 DEF Starts
  <2>2. IsRow(row, a)
    BY <1>1, <2>1, RowsAreTables
  <2>. QED  BY <1>3, <2>1, <2>2, RowStarts DEF IsRow
<1>4. ASSUME AllFit
      PROVE  \E row \in WellFormedRows : Starts(s, i, k, row) /\ Len(row) = Trails(a) + 1
  <2>0. Trails(a) >= 0
    BY <1>2, <1>4
  <2>1. PICK row \in WellFormedRows : a \in row[1]
    BY <1>1, <2>0, RowsAreTables
  <2>2. IsRow(row, a)
    BY <1>1, <2>1, RowsAreTables
  <2>3. Starts(s, i, k, row)
    BY <1>4, <2>1, <2>2, RowStarts
  <2>. QED  BY <2>2, <2>3 DEF IsRow
<1>. HIDE DEF a, AllFit
<1>5. Begins(s, i, k) <=> AllFit
  BY <1>3, <1>4 DEF Begins
<1>6. IsCharacter(s, i, k) <=> k - 1 = Trails(a) /\ AllFit
  BY <1>2, <1>3, <1>4 DEF IsCharacter
<1>. QED  BY <1>5, <1>6 DEF a, AllFit

LEMMA UnitLengthIs ==
    ASSUME NEW s \in String, NEW i \in 1 .. Len(s), NEW k \in 1 .. 4,
           k = 1 \/ Begins(s, i, k),
           \A n \in k + 1 .. 4 : ~Begins(s, i, n)
    PROVE  UnitLength(s, i) = k
<1>. DEFINE fits(n) == n = 1 \/ Begins(s, i, n)
            Longest(n) == fits(n) /\ \A m \in n + 1 .. 4 : ~fits(m)
<1>1. UnitLength(s, i) = CHOOSE n \in 1 .. 4 : Longest(n)
  BY DEF UnitLength, Begins
<1>2. Longest(k)
  OBVIOUS
<1>3. \A n \in 1 .. 4 : Longest(n) => n = k
  <2>1. SUFFICES ASSUME NEW n \in 1 .. 4, Longest(n), n # k
                 PROVE  FALSE
    OBVIOUS
  <2>2. CASE n < k
    <3>1. k \in n + 1 .. 4
      BY <2>2
    <3>. QED  BY <1>2, <2>1, <3>1
  <2>3. CASE k < n
    <3>1. n \in k + 1 .. 4
      BY <2>3
    <3>. QED  BY <1>2, <2>1, <3>1
  <2>. QED  BY <2>1, <2>2, <2>3
<1>. HIDE DEF Longest
<1>. QED  BY <1>1, <1>2, <1>3

-----------------------------------------------------------------------------
(* read_code_point and append_utf8.                                        *)

\* What read_code_point does: how many bytes it takes after the lead byte,
\* and the numbers that it computes from them.
Taken(s, i, k) ==
    /\ k =< Trails(s[i]) \/ k = 0
    /\ \A j \in 1 .. k : FitsAt(s, i, j)
    /\ k < Trails(s[i]) => ~FitsAt(s, i, k + 1)

Low6(s, i, k) == ByteAt(s, i + k) % 64

Points(s, i, cp) ==
    /\ cp[0] = LeadValue(s[i])
    /\ cp[1] = cp[0] * 64 + Low6(s, i, 1)
    /\ cp[2] = cp[1] * 64 + Low6(s, i, 2)
    /\ cp[3] = cp[2] * 64 + Low6(s, i, 3)

LEMMA ReadIs ==
    ASSUME NEW s \in String, NEW i \in 1 .. Len(s)
    PROVE  \E k \in 0 .. 3 : \E cp :
              /\ Taken(s, i, k)
              /\ Points(s, i, cp)
              /\ ReadUtf8(s, i).next = i + k + 1
              /\ ReadUtf8(s, i).ok = (k = Trails(s[i]))
              /\ k = Trails(s[i]) => ReadUtf8(s, i).cp = cp[k]
<1>. DEFINE n == Trails(s[i])
            taken == CHOOSE k \in 0 .. 3 : Taken(s, i, k)
            Point(g) == g = [k \in 0 .. 3 |-> IF k = 0 THEN LeadValue(s[i])
                                ELSE g[k - 1] * 64 + (ByteAt(s, i + k) % 64)]
            cp == CHOOSE g : Point(g)
<1>1. /\ ReadUtf8(s, i).next = i + taken + 1
      /\ ReadUtf8(s, i).ok = (taken = n)
      /\ taken = n => ReadUtf8(s, i).cp = cp[n]
  BY DEF ReadUtf8, Read, Taken, FitsAt
<1>2. n \in -1 .. 3
  BY BytesOf, RowsAreTables
<1>. DEFINE Fit(k) == FitsAt(s, i, k)
            Stop(k) == /\ k =< n \/ k = 0
                       /\ \A j \in 1 .. k : Fit(j)
                       /\ k < n => ~Fit(k + 1)
<1>3. \A k : Taken(s, i, k) <=> Stop(k)
  BY DEF Taken
<1>. HIDE DEF n, Fit
<1>4. \E k \in 0 .. 3 : Stop(k)
  <2>1. CASE n =< 0 \/ ~Fit(1)
    <3>1. Stop(0)
      BY <1>2, <2>1
    <3>. QED  BY <3>1
  <2>2. CASE n > 0 /\ Fit(1) /\ (n = 1 \/ ~Fit(2))
    <3>1. Stop(1)
      BY <1>2, <2>2
    <3>. QED  BY <3>1
  <2>3. CASE n > 1 /\ Fit(1) /\ Fit(2) /\ (n = 2 \/ ~Fit(3))
    <3>1. Stop(2)
      BY <1>2, <2>3
    <3>. QED  BY <3>1
  <2>4. CASE n > 2 /\ Fit(1) /\ Fit(2) /\ Fit(3)
    <3>1. Stop(3)
      BY <1>2, <2>4
    <3>. QED  BY <3>1
  <2>. QED  BY <1>2, <2>1, <2>2, <2>3, <2>4
<1>5. taken \in 0 .. 3 /\ Taken(s, i, taken)
  <2>. HIDE DEF Stop
  <2>. QED  BY <1>3, <1>4
<1>6. \E g : Point(g)
  <2>. DEFINE c0 == LeadValue(s[i])
              c1 == c0 * 64 + (ByteAt(s, i + 1) % 64)
              c2 == c1 * 64 + (ByteAt(s, i + 2) % 64)
              c3 == c2 * 64 + (ByteAt(s, i + 3) % 64)
              g == [k \in 0 .. 3 |-> IF k = 0 THEN c0 ELSE IF k = 1 THEN c1
                                     ELSE IF k = 2 THEN c2 ELSE c3]
  <2>1. g[0] = c0 /\ g[1] = c1 /\ g[2] = c2 /\ g[3] = c3
    OBVIOUS
  <2>2. ASSUME NEW k \in 0 .. 3
        PROVE  g[k] = IF k = 0 THEN LeadValue(s[i])
                      ELSE g[k - 1] * 64 + (ByteAt(s, i + k) % 64)
    <3>. HIDE DEF g
    <3>1. k = 0 \/ k = 1 \/ k = 2 \/ k = 3
      OBVIOUS
    <3>. QED  BY <2>1, <3>1
  <2>3. Point(g)
    BY <2>2
  <2>. HIDE DEF Point
  <2>. QED  BY <2>3
<1>7. Point(cp)
  <2>. HIDE DEF Point
  <2>. QED  BY <1>6
<1>. HIDE DEF cp, taken
<1>8. Points(s, i, cp)
  BY <1>7 DEF Points, Low6
<1>. QED  BY <1>1, <1>5, <1>8 DEF n

\* What is read is the unit of the standard, is well formed when it is in the
\* table, and is within the string.
LEMMA ReadIsUnit ==
    ASSUME NEW s \in String, NEW i \in 1 .. Len(s)
    PROVE  /\ UnitLength(s, i) \in 1 .. 4
           /\ i + UnitLength(s, i) =< Len(s) + 1
           /\ ReadUtf8(s, i).next = i + UnitLength(s, i)
           /\ ReadUtf8(s, i).ok = IsCharacter(s, i, UnitLength(s, i))
<1>1. PICK k \in 0 .. 3 :
              /\ Taken(s, i, k)
              /\ ReadUtf8(s, i).next = i + k + 1
              /\ ReadUtf8(s, i).ok = (k = Trails(s[i]))
  BY ReadIs
<1>2. s[i] \in 0 .. 255 /\ i \in Nat /\ Len(s) \in Nat /\ i =< Len(s)
  BY BytesOf DEF String
<1>3. Trails(s[i]) \in -1 .. 3
  BY <1>2, RowsAreTables
<1>. DEFINE n == Trails(s[i])
            Fit(j) == FitsAt(s, i, j)
<1>4. /\ k =< n \/ k = 0
      /\ \A j \in 1 .. k : Fit(j)
      /\ k < n => ~Fit(k + 1)
  BY <1>1 DEF Taken
<1>5. \A m \in 1 .. 4 : /\ Begins(s, i, m) <=> m - 1 =< n /\ \A j \in 1 .. m - 1 : Fit(j)
                        /\ IsCharacter(s, i, m) <=> m - 1 = n /\ Begins(s, i, m)
  BY BeginsIsFits
<1>6. k + 1 \in 1 .. 4 /\ (k + 1) - 1 = k
  OBVIOUS
<1>. HIDE DEF n, Fit
<1>7. k + 1 = 1 \/ Begins(s, i, k + 1)
  <2>1. CASE k # 0
    <3>1. (k + 1) - 1 =< n /\ \A j \in 1 .. (k + 1) - 1 : Fit(j)
      BY <1>4, <1>6, <2>1
    <3>. QED  BY <1>5, <1>6, <3>1
  <2>. QED  BY <2>1
<1>8. ASSUME NEW m \in (k + 1) + 1 .. 4
      PROVE  ~Begins(s, i, m)
  <2>1. m \in 1 .. 4 /\ k + 1 \in 1 .. m - 1 /\ (m - 1 =< n => k < n)
    BY <1>3 DEF n
  <2>2. ~(m - 1 =< n /\ \A j \in 1 .. m - 1 : Fit(j))
    BY <1>4, <2>1
  <2>. QED  BY <1>5, <2>1, <2>2
<1>9. UnitLength(s, i) = k + 1
  BY <1>6, <1>7, <1>8, UnitLengthIs
<1>10. (k = n) <=> IsCharacter(s, i, k + 1)
  <2>1. IsCharacter(s, i, k + 1) <=> k = n /\ Begins(s, i, k + 1)
    BY <1>5, <1>6
  <2>2. ASSUME k = n PROVE Begins(s, i, k + 1)
    <3>1. (k + 1) - 1 =< n /\ \A j \in 1 .. (k + 1) - 1 : Fit(j)
      BY <1>4, <1>6, <2>2
    <3>. QED  BY <1>5, <1>6, <3>1
  <2>. QED  BY <2>1, <2>2
<1>11. i + k =< Len(s)
  <2>1. CASE k # 0
    <3>1. Fit(k)
      BY <1>4, <2>1
    <3>. QED  BY <3>1 DEF Fit, FitsAt, HasByte
  <2>. QED  BY <1>2, <2>1
<1>12. ReadUtf8(s, i).ok = IsCharacter(s, i, k + 1)
  <2>1. (k = n) = IsCharacter(s, i, k + 1)
    BY <1>10 DEF IsCharacter
  <2>2. ReadUtf8(s, i).ok = (k = n)
    BY <1>1 DEF n
  <2>. QED  BY Zenon, <2>1, <2>2
<1>13. /\ k + 1 \in 1 .. 4 /\ i + (k + 1) =< Len(s) + 1
       /\ ReadUtf8(s, i).next = i + (k + 1)
  BY <1>1, <1>2, <1>11
<1>. QED  BY Zenon, <1>9, <1>12, <1>13

\* The arithmetic of characters of one to four bytes.
\* The bounds are not written as sets: the ranges of code points are long.
Between(n, first, last) == n \in Nat /\ first =< n /\ n =< last

\* The bytes that append_utf8 writes.
LeadIs(cp, mark, shift, byte) == mark + cp \div shift = byte
TrailIs(cp, shift, byte) == 128 + ((cp \div shift) % 64) = byte

\* The code points that two, three and four bytes stand for.
Two(a, b) == (a % 32) * 64 + (b % 64)
Three(a, b, c) == ((a % 16) * 64 + (b % 64)) * 64 + (c % 64)
Four(a, b, c, d) == (((a - 240) * 64 + (b % 64)) * 64 + (c % 64)) * 64 + (d % 64)

LEMMA TwoBytes ==
    ASSUME NEW a, NEW b,
           Between(a, 194, 223), Between(b, 128, 191)
    PROVE  /\ Between(Two(a, b), 128, 2047)
           /\ LeadIs(Two(a, b), 192, 64, a) /\ TrailIs(Two(a, b), 1, b)
BY DEF Between, LeadIs, TrailIs, Two

LEMMA ThreeFirst ==
    ASSUME NEW a, NEW b, NEW c,
           Between(a, 224, 239), Between(b, 128, 191), Between(c, 128, 191)
    PROVE  LeadIs(Three(a, b, c), 224, 4096, a)
BY DEF Between, LeadIs, Three

LEMMA ThreeSecond ==
    ASSUME NEW a, NEW b, NEW c,
           Between(a, 224, 239), Between(b, 128, 191), Between(c, 128, 191)
    PROVE  TrailIs(Three(a, b, c), 64, b)
BY DEF Between, TrailIs, Three

LEMMA ThreeThird ==
    ASSUME NEW a, NEW b, NEW c,
           Between(a, 224, 239), Between(b, 128, 191), Between(c, 128, 191)
    PROVE  TrailIs(Three(a, b, c), 1, c)
BY DEF Between, TrailIs, Three

LEMMA ThreeRange ==
    ASSUME NEW a, NEW b, NEW c,
           Between(a, 224, 239), b \in Second(a), Between(c, 128, 191)
    PROVE  Between(Three(a, b, c), 2048, 55295) \/ Between(Three(a, b, c), 57344, 65535)
<1>. DEFINE x == a - 224
            y == b - 128
            z == c - 128
<1>1. /\ a \in 224 .. 239 /\ b \in 128 .. 191 /\ c \in 128 .. 191
      /\ a = 224 => b >= 160
      /\ a = 237 => b =< 159
  BY DEF Between, Second, Tail1, Continuation
<1>2. x \in 0 .. 15 /\ y \in 0 .. 63 /\ z \in 0 .. 63
  BY <1>1
<1>3. a % 16 = x /\ b % 64 = y /\ c % 64 = z
  BY <1>1
<1>4. /\ x = 0 => y >= 32
      /\ x = 13 => y =< 31
  BY <1>1
<1>5. Three(a, b, c) = (x * 64 + y) * 64 + z
  BY <1>3 DEF Three
<1>. HIDE DEF x, y, z
<1>. QED  BY <1>2, <1>4, <1>5 DEF Between

LEMMA FourFirst ==
    ASSUME NEW a, NEW b, NEW c, NEW d,
           Between(a, 240, 244), Between(b, 128, 191), Between(c, 128, 191), Between(d, 128, 191)
    PROVE  LeadIs(Four(a, b, c, d), 240, 262144, a)
BY DEF Between, LeadIs, Four

LEMMA FourSecond ==
    ASSUME NEW a, NEW b, NEW c, NEW d,
           Between(a, 240, 244), Between(b, 128, 191), Between(c, 128, 191), Between(d, 128, 191)
    PROVE  TrailIs(Four(a, b, c, d), 4096, b)
BY DEF Between, TrailIs, Four

LEMMA FourThird ==
    ASSUME NEW a, NEW b, NEW c, NEW d,
           Between(a, 240, 244), Between(b, 128, 191), Between(c, 128, 191), Between(d, 128, 191)
    PROVE  TrailIs(Four(a, b, c, d), 64, c)
<1>. DEFINE p == (a - 240) * 64 + (b % 64)
            y == c % 64
            z == d % 64
<1>1. p \in Nat /\ y \in 0 .. 63 /\ z \in 0 .. 63 /\ 128 + y = c
  BY DEF Between
<1>2. Four(a, b, c, d) = (p * 64 + y) * 64 + z
  BY DEF Four
<1>. HIDE DEF p, y, z
<1>3. Four(a, b, c, d) \div 64 = p * 64 + y
  BY <1>1, <1>2
<1>4. (p * 64 + y) % 64 = y
  BY <1>1
<1>. QED  BY <1>1, <1>3, <1>4 DEF TrailIs

LEMMA FourFourth ==
    ASSUME NEW a, NEW b, NEW c, NEW d,
           Between(a, 240, 244), Between(b, 128, 191), Between(c, 128, 191), Between(d, 128, 191)
    PROVE  TrailIs(Four(a, b, c, d), 1, d)
BY DEF Between, TrailIs, Four

LEMMA FourRange ==
    ASSUME NEW a, NEW b, NEW c, NEW d,
           Between(a, 240, 244), b \in Second(a), Between(c, 128, 191), Between(d, 128, 191)
    PROVE  Between(Four(a, b, c, d), 65536, 1114111)
<1>. DEFINE x == a - 240
            y == b - 128
            z == c - 128
            w == d - 128
<1>1. /\ a \in 240 .. 244 /\ b \in 128 .. 191 /\ c \in 128 .. 191 /\ d \in 128 .. 191
      /\ a = 240 => b >= 144
      /\ a = 244 => b =< 143
  BY DEF Between, Second, Tail1, Continuation
<1>2. x \in 0 .. 4 /\ y \in 0 .. 63 /\ z \in 0 .. 63 /\ w \in 0 .. 63
  BY <1>1
<1>3. b % 64 = y /\ c % 64 = z /\ d % 64 = w
  BY <1>1
<1>4. /\ x = 0 => y >= 16
      /\ x = 4 => y =< 15
  BY <1>1
<1>5. Four(a, b, c, d) = ((x * 64 + y) * 64 + z) * 64 + w
  BY <1>3 DEF Four
<1>. HIDE DEF x, y, z, w
<1>. QED  BY <1>2, <1>4, <1>5 DEF Between

\* append_utf8, by the number of bytes that it writes.
LEMMA AppendTwo ==
    ASSUME NEW cp, Between(cp, 128, 2047), NEW a, NEW b,
           LeadIs(cp, 192, 64, a), TrailIs(cp, 1, b)
    PROVE  ScalarValue(cp) /\ AppendUtf8(cp) = <<a, b>>
BY DEF Between, AppendUtf8, LeadIs, TrailIs, ScalarValue, IsSurrogate, IsLead, IsTrail

LEMMA AppendThree ==
    ASSUME NEW cp, Between(cp, 2048, 55295) \/ Between(cp, 57344, 65535), NEW a, NEW b, NEW c,
           LeadIs(cp, 224, 4096, a), TrailIs(cp, 64, b), TrailIs(cp, 1, c)
    PROVE  ScalarValue(cp) /\ AppendUtf8(cp) = <<a, b, c>>
BY DEF Between, AppendUtf8, LeadIs, TrailIs, ScalarValue, IsSurrogate, IsLead, IsTrail

LEMMA AppendFour ==
    ASSUME NEW cp, Between(cp, 65536, 1114111), NEW a, NEW b, NEW c, NEW d,
           LeadIs(cp, 240, 262144, a), TrailIs(cp, 4096, b), TrailIs(cp, 64, c), TrailIs(cp, 1, d)
    PROVE  ScalarValue(cp) /\ AppendUtf8(cp) = <<a, b, c, d>>
BY DEF Between, AppendUtf8, LeadIs, TrailIs, ScalarValue, IsSurrogate, IsLead, IsTrail

\* What is written is what was read, by the number of bytes.
LEMMA OneIsWritten ==
    ASSUME NEW a,
           Between(a, 0, 127)
    PROVE  ScalarValue(a) /\ AppendUtf8(a) = <<a>>
BY DEF Between, AppendUtf8, ScalarValue, IsSurrogate, IsLead, IsTrail

LEMMA TwoAreWritten ==
    ASSUME NEW a, NEW b,
           Between(a, 194, 223), Between(b, 128, 191)
    PROVE  ScalarValue(Two(a, b)) /\ AppendUtf8(Two(a, b)) = <<a, b>>
<1>1. /\ Between(Two(a, b), 128, 2047)
      /\ LeadIs(Two(a, b), 192, 64, a) /\ TrailIs(Two(a, b), 1, b)
  BY TwoBytes
<1>. QED  BY <1>1, AppendTwo

LEMMA ThreeAreWritten ==
    ASSUME NEW a, NEW b, NEW c,
           Between(a, 224, 239), b \in Second(a), Between(c, 128, 191)
    PROVE  ScalarValue(Three(a, b, c)) /\ AppendUtf8(Three(a, b, c)) = <<a, b, c>>
<1>1. Between(b, 128, 191)
  BY DEF Between, Second, Tail1, Continuation
<1>2. /\ LeadIs(Three(a, b, c), 224, 4096, a)
      /\ TrailIs(Three(a, b, c), 64, b)
      /\ TrailIs(Three(a, b, c), 1, c)
  BY <1>1, ThreeFirst, ThreeSecond, ThreeThird
<1>3. Between(Three(a, b, c), 2048, 55295) \/ Between(Three(a, b, c), 57344, 65535)
  BY ThreeRange
<1>. QED  BY <1>2, <1>3, AppendThree

LEMMA FourAreWritten ==
    ASSUME NEW a, NEW b, NEW c, NEW d,
           Between(a, 240, 244), b \in Second(a), Between(c, 128, 191), Between(d, 128, 191)
    PROVE  ScalarValue(Four(a, b, c, d)) /\ AppendUtf8(Four(a, b, c, d)) = <<a, b, c, d>>
<1>1. Between(b, 128, 191)
  BY DEF Between, Second, Tail1, Continuation
<1>2. /\ LeadIs(Four(a, b, c, d), 240, 262144, a)
      /\ TrailIs(Four(a, b, c, d), 4096, b)
      /\ TrailIs(Four(a, b, c, d), 64, c)
      /\ TrailIs(Four(a, b, c, d), 1, d)
  BY <1>1, FourFirst, FourSecond, FourThird, FourFourth
<1>3. Between(Four(a, b, c, d), 65536, 1114111)
  BY FourRange
<1>. QED  BY <1>2, <1>3, AppendFour

LEMMA BetweenContinuations ==
    ASSUME NEW n, n \in 128 .. 191
    PROVE  Between(n, 128, 191)
BY DEF Between

LEMMA BetweenBytes ==
    ASSUME NEW n, n \in 0 .. 255
    PROVE  Between(n, 0, 255)
BY DEF Between

LEMMA SecondIsContinuation ==
    ASSUME NEW a, NEW b, Between(a, 194, 223), b \in Second(a)
    PROVE  Between(b, 128, 191)
BY DEF Between, Second, Tail1, Continuation

LEMMA LeadsOf ==
    ASSUME NEW a, Between(a, 0, 255)
    PROVE  /\ Trails(a) = 0 => Between(a, 0, 127)
           /\ Trails(a) = 1 => Between(a, 194, 223)
           /\ Trails(a) = 2 => Between(a, 224, 239)
           /\ Trails(a) = 3 => Between(a, 240, 244)
<1>1. CASE a \in 0 .. 127
  BY <1>1, TrailsOf DEF Between
<1>2. CASE a \in 128 .. 193
  BY <1>2, TrailsOf DEF Between
<1>3. CASE a \in 194 .. 223
  BY <1>3, TrailsOf DEF Between
<1>4. CASE a \in 224 .. 239
  BY <1>4, TrailsOf DEF Between
<1>5. CASE a \in 240 .. 244
  BY <1>5, TrailsOf DEF Between
<1>6. CASE a \in 245 .. 255
  BY <1>6, TrailsOf DEF Between
<1>. QED  BY <1>1, <1>2, <1>3, <1>4, <1>5, <1>6 DEF Between

\* The code point of the bytes that were read.
LEMMA PointsAre ==
    ASSUME NEW s, NEW i, NEW g, Points(s, i, g), NEW a, s[i] = a
    PROVE  /\ Between(a, 0, 127) => g[0] = a
           /\ Between(a, 194, 223) => g[1] = (a % 32) * 64 + Low6(s, i, 1)
           /\ Between(a, 224, 239) => g[2] = ((a % 16) * 64 + Low6(s, i, 1)) * 64 + Low6(s, i, 2)
           /\ Between(a, 240, 244) =>
                 g[3] = (((a - 240) * 64 + Low6(s, i, 1)) * 64 + Low6(s, i, 2)) * 64 + Low6(s, i, 3)
<1>1. /\ g[0] = LeadValue(a)
      /\ g[1] = g[0] * 64 + Low6(s, i, 1)
      /\ g[2] = g[1] * 64 + Low6(s, i, 2)
      /\ g[3] = g[2] * 64 + Low6(s, i, 3)
  BY DEF Points
<1>2. ASSUME Between(a, 0, 127)
      PROVE  g[0] = a
  <2>1. LeadValue(a) = a
    BY <1>2 DEF LeadValue, Between
  <2>. QED  BY Zenon, <1>1, <2>1
<1>3. ASSUME Between(a, 194, 223)
      PROVE  g[1] = (a % 32) * 64 + Low6(s, i, 1)
  <2>1. LeadValue(a) = a % 32
    BY <1>3 DEF LeadValue, Between
  <2>. QED  BY Zenon, <1>1, <2>1
<1>4. ASSUME Between(a, 224, 239)
      PROVE  g[2] = ((a % 16) * 64 + Low6(s, i, 1)) * 64 + Low6(s, i, 2)
  <2>1. LeadValue(a) = a % 16
    BY <1>4 DEF LeadValue, Between
  <2>. QED  BY Zenon, <1>1, <2>1
<1>5. ASSUME Between(a, 240, 244)
      PROVE  g[3] = (((a - 240) * 64 + Low6(s, i, 1)) * 64 + Low6(s, i, 2)) * 64 + Low6(s, i, 3)
  <2>1. LeadValue(a) = a - 240
    BY <1>5 DEF LeadValue, Between
  <2>. QED  BY Zenon, <1>1, <2>1
<1>. QED  BY Zenon, <1>2, <1>3, <1>4, <1>5

\* A character that is well formed has a code point that is no surrogate, and
\* is written as the bytes that it was read from.
LEMMA ReadIsWritten ==
    ASSUME NEW s \in String, NEW i \in 1 .. Len(s), ReadUtf8(s, i).ok
    PROVE  /\ ScalarValue(ReadUtf8(s, i).cp)
           /\ AppendUtf8(ReadUtf8(s, i).cp) = SubSeq(s, i, i + UnitLength(s, i) - 1)
<1>0. PICK k \in 0 .. 3 : \E g :
              /\ Taken(s, i, k)
              /\ Points(s, i, g)
              /\ ReadUtf8(s, i).next = i + k + 1
              /\ ReadUtf8(s, i).ok = (k = Trails(s[i]))
              /\ k = Trails(s[i]) => ReadUtf8(s, i).cp = g[k]
  BY ReadIs
<1>1. PICK g :
              /\ Taken(s, i, k)
              /\ Points(s, i, g)
              /\ ReadUtf8(s, i).next = i + k + 1
              /\ ReadUtf8(s, i).ok = (k = Trails(s[i]))
              /\ k = Trails(s[i]) => ReadUtf8(s, i).cp = g[k]
  BY <1>0
<1>. DEFINE a == s[i]
            cp == ReadUtf8(s, i).cp
            character == SubSeq(s, i, i + UnitLength(s, i) - 1)
<1>2. a \in 0 .. 255 /\ i \in Nat /\ Len(s) \in Nat /\ i =< Len(s)
  BY BytesOf DEF String
<1>3. Trails(a) = k /\ cp = g[k]
  BY <1>1
<1>4. UnitLength(s, i) = k + 1
  <2>1. UnitLength(s, i) \in 1 .. 4 /\ ReadUtf8(s, i).next = i + UnitLength(s, i)
    BY ReadIsUnit
  <2>2. ReadUtf8(s, i).next = i + k + 1
    BY <1>1
  <2>. QED  BY <1>2, <2>1, <2>2
<1>5. ASSUME NEW j \in 1 .. k
      PROVE  /\ i + j \in 1 .. Len(s) /\ s[i + j] \in 0 .. 255
             /\ Low6(s, i, j) = s[i + j] % 64
             /\ ValidTrail(a, j, s[i + j])
  <2>1. FitsAt(s, i, j)
    BY <1>1 DEF Taken
  <2>2. i + j \in 1 .. Len(s)
    BY <1>2, <2>1 DEF FitsAt, HasByte
  <2>3. s[i + j] \in 0 .. 255
    BY <2>2, BytesOf
  <2>4. ByteAt(s, i + j) = s[i + j]
    BY <2>2 DEF ByteAt
  <2>5. ValidTrail(a, j, s[i + j])
    BY <2>1, <2>4 DEF FitsAt
  <2>6. Low6(s, i, j) = s[i + j] % 64
    BY <2>4 DEF Low6
  <2>. QED  BY Zenon, <2>2, <2>3, <2>5, <2>6
<1>6. ASSUME 1 =< k PROVE s[i + 1] \in Second(a)
  <2>1. 1 \in 1 .. k /\ Trails(a) > 0
    BY <1>3, <1>6
  <2>2. s[i + 1] \in 0 .. 255 /\ ValidTrail(a, 1, s[i + 1])
    BY Zenon, <1>5, <2>1
  <2>. QED  BY Zenon, <1>2, <2>1, <2>2, TrailIsSecond
<1>7. ASSUME NEW j \in 2 .. 3, j =< k PROVE Between(s[i + j], 128, 191)
  <2>1. j \in 1 .. k /\ j \in 1 .. 3 /\ j # 1
    BY <1>7
  <2>2. s[i + j] \in 0 .. 255 /\ ValidTrail(a, j, s[i + j])
    BY Zenon, <1>5, <2>1
  <2>3. s[i + j] \in 128 .. 191
    BY Zenon, <1>2, <2>1, <2>2, OtherTrails
  <2>. QED  BY Zenon, <2>3, BetweenContinuations
<1>8. character = [j \in 1 .. k + 1 |-> s[i + j - 1]]
  BY <1>2, <1>4 DEF SubSeq
<1>9. Points(s, i, g) /\ k \in 0 .. 3
  BY <1>1
<1>. HIDE DEF a, cp, character
<1>a. Between(a, 0, 255)
  BY Zenon, <1>2, BetweenBytes
<1>10. CASE k = 0
  <2>1. Between(a, 0, 127)
    BY <1>3, <1>a, <1>10, LeadsOf
  <2>2. g[0] = a
    BY <1>9, <2>1, PointsAre DEF a
  <2>3. character = <<a>>
    BY <1>2, <1>8, <1>10 DEF a
  <2>. QED  BY <1>3, <1>10, <2>1, <2>2, <2>3, OneIsWritten DEF cp, character
<1>11. CASE k = 1
  <2>. DEFINE b == s[i + 1]
  <2>1. Between(a, 194, 223)
    BY <1>3, <1>a, <1>11, LeadsOf
  <2>2. Between(b, 128, 191) /\ Low6(s, i, 1) = b % 64
    <3>1. b \in Second(a) /\ Low6(s, i, 1) = b % 64
      BY <1>5, <1>6, <1>11
    <3>. QED  BY Zenon, <2>1, <3>1, SecondIsContinuation
  <2>3. g[1] = (a % 32) * 64 + Low6(s, i, 1)
    BY <1>9, <2>1, PointsAre DEF a
  <2>4. g[1] = Two(a, b)
    BY Zenon, <2>2, <2>3 DEF Two
  <2>5. character = <<a, b>>
    BY <1>2, <1>8, <1>11 DEF a
  <2>. HIDE DEF b
  <2>. QED  BY <1>3, <1>11, <2>1, <2>2, <2>4, <2>5, TwoAreWritten DEF cp, character
<1>12. CASE k = 2
  <2>. DEFINE b == s[i + 1]
              c == s[i + 2]
  <2>1. Between(a, 224, 239)
    BY <1>3, <1>a, <1>12, LeadsOf
  <2>2. Low6(s, i, 1) = b % 64 /\ Low6(s, i, 2) = c % 64
    BY <1>5, <1>12
  <2>3. b \in Second(a) /\ Between(c, 128, 191)
    BY <1>6, <1>7, <1>12
  <2>4. g[2] = ((a % 16) * 64 + Low6(s, i, 1)) * 64 + Low6(s, i, 2)
    BY <1>9, <2>1, PointsAre DEF a
  <2>5. g[2] = Three(a, b, c)
    BY Zenon, <2>2, <2>4 DEF Three
  <2>6. character = <<a, b, c>>
    BY <1>2, <1>8, <1>12 DEF a
  <2>. HIDE DEF b, c
  <2>. QED  BY <1>3, <1>12, <2>1, <2>3, <2>5, <2>6, ThreeAreWritten DEF cp, character
<1>13. CASE k = 3
  <2>. DEFINE b == s[i + 1]
              c == s[i + 2]
              d == s[i + 3]
  <2>1. Between(a, 240, 244)
    BY <1>3, <1>a, <1>13, LeadsOf
  <2>2. Low6(s, i, 1) = b % 64 /\ Low6(s, i, 2) = c % 64 /\ Low6(s, i, 3) = d % 64
    BY <1>5, <1>13
  <2>3. b \in Second(a) /\ Between(c, 128, 191) /\ Between(d, 128, 191)
    BY <1>6, <1>7, <1>13
  <2>4. g[3] = (((a - 240) * 64 + Low6(s, i, 1)) * 64 + Low6(s, i, 2)) * 64 + Low6(s, i, 3)
    BY <1>9, <2>1, PointsAre DEF a
  <2>5. g[3] = Four(a, b, c, d)
    BY Zenon, <2>2, <2>4 DEF Four
  <2>6. character = <<a, b, c, d>>
    BY <1>2, <1>8, <1>13 DEF a
  <2>. HIDE DEF b, c, d
  <2>. QED  BY <1>3, <1>13, <2>1, <2>3, <2>5, <2>6, FourAreWritten DEF cp, character
<1>. QED
  <2>1. k = 0 \/ k = 1 \/ k = 2 \/ k = 3
    BY <1>9
  <2>. QED  BY Zenon, <1>10, <1>11, <1>12, <1>13, <2>1

-----------------------------------------------------------------------------
(* Strings that are converted piece by piece, from their ends.             *)

Pieces(g, n, piece, next) ==
    g = [i \in 1 .. n + 1 |-> IF i > n THEN <<>> ELSE piece[i] \o g[next[i]]]

\* There is a function that puts the pieces together, and what it gives are texts.
LEMMA PiecesExist ==
    ASSUME NEW n \in Nat, NEW piece, NEW next,
           \A i \in 1 .. n : piece[i] \in Seq(Nat) /\ next[i] \in i + 1 .. n + 1
    PROVE  \E g : Pieces(g, n, piece, next)
<1>. DEFINE V == Seq(Nat)
            known == {n + 1}
            value == [i \in 1 .. n + 1 |-> <<>>]
            step == [i \in 1 .. n |-> [v \in V |-> piece[i] \o v]]
<1>1. \A i \in 1 .. n + 1 : i \in known => value[i] \in V
  OBVIOUS
<1>2. ASSUME NEW i \in 1 .. n + 1, i \notin known
      PROVE  i \in 1 .. n /\ next[i] \in i + 1 .. n + 1 /\ \A v \in V : step[i][v] \in V
  <2>1. i \in 1 .. n
    BY <1>2
  <2>2. piece[i] \in V /\ next[i] \in i + 1 .. n + 1
    BY <2>1
  <2>3. ASSUME NEW v \in V PROVE step[i][v] \in V
    <3>1. step[i][v] = piece[i] \o v
      BY <2>1
    <3>. QED  BY <2>2, <3>1
  <2>. QED  BY <2>1, <2>2, <2>3
<1>3. n + 1 \in Nat
  OBVIOUS
<1>. HIDE DEF V, known, value, step
<1>4. PICK g : Descent(g, n + 1, known, value, next, step) /\ \A i \in 1 .. n + 1 : g[i] \in V
  BY <1>1, <1>2, <1>3, DescentInto
<1>5. ASSUME NEW i \in 1 .. n + 1
      PROVE  DescentAt(g, i, known, value, next, step)
               = IF i > n THEN <<>> ELSE piece[i] \o g[next[i]]
  <2>1. CASE i > n
    BY <2>1 DEF DescentAt, known, value
  <2>2. CASE ~(i > n)
    <3>1. i \in 1 .. n /\ i \notin known
      BY <2>2 DEF known
    <3>2. next[i] \in 1 .. n + 1
      BY <3>1
    <3>3. g[next[i]] \in V
      BY <1>4, <3>2
    <3>4. step[i][g[next[i]]] = piece[i] \o g[next[i]]
      BY <3>1, <3>3 DEF step
    <3>. QED  BY <2>2, <3>1, <3>4 DEF DescentAt
  <2>. QED  BY <2>1, <2>2
<1>6. g = [i \in 1 .. n + 1 |-> DescentAt(g, i, known, value, next, step)]
  BY <1>4 DEF Descent
<1>. QED  BY <1>5, <1>6 DEF Pieces

LEMMA PiecesAre ==
    ASSUME NEW n \in Nat, NEW piece, NEW next, NEW g, Pieces(g, n, piece, next),
           \A i \in 1 .. n : piece[i] \in Seq(Nat) /\ next[i] \in i + 1 .. n + 1
    PROVE  /\ g[n + 1] = <<>>
           /\ \A i \in 1 .. n : g[i] = piece[i] \o g[next[i]]
           /\ \A i \in 1 .. n + 1 : g[i] \in Seq(Nat)
<1>1. \A i \in 1 .. n + 1 : g[i] = IF i > n THEN <<>> ELSE piece[i] \o g[next[i]]
  BY DEF Pieces
<1>2. n + 1 \in 1 .. n + 1 /\ n + 1 > n /\ \A i \in 1 .. n : i \in 1 .. n + 1 /\ ~(i > n)
  OBVIOUS
<1>3. g[n + 1] = <<>> /\ \A i \in 1 .. n : g[i] = piece[i] \o g[next[i]]
  BY <1>1, <1>2
<1>. DEFINE T == {i \in 1 .. n + 1 : g[i] \in Seq(Nat)}
<1>4. ASSUME NEW i \in 1 .. n + 1, \A j \in i + 1 .. n + 1 : j \in T
      PROVE  i \in T
  <2>1. CASE i = n + 1
    <3>1. g[i] = <<>> /\ <<>> \in Seq(Nat)
      BY <1>3, <2>1
    <3>. QED  BY <3>1
  <2>2. CASE i # n + 1
    <3>1. i \in 1 .. n
      BY <2>2
    <3>2. g[next[i]] \in Seq(Nat) /\ piece[i] \in Seq(Nat)
      BY <1>4, <3>1
    <3>3. piece[i] \o g[next[i]] \in Seq(Nat)
      BY Zenon, <3>2, ConcatProperties
    <3>4. g[i] \in Seq(Nat)
      BY Zenon, <1>3, <3>1, <3>3
    <3>. QED  BY <3>4
  <2>. QED  BY <2>1, <2>2
<1>5. \A i \in 1 .. n + 1 : i \in T
  <2>1. n + 1 \in Nat
    OBVIOUS
  <2>. HIDE DEF T
  <2>. QED  BY <1>4, <2>1, FromTheEnd
<1>. QED  BY <1>3, <1>5

LEMMA BytesAreNat ==
    ASSUME NEW s \in String
    PROVE  s \in Seq(Nat) /\ Len(s) \in Nat
<1>1. s \in Seq(Byte) /\ Byte \subseteq Nat
  BY DEF String, Byte
<1>. QED  BY Zenon, <1>1, SeqMonotonic, LenProperties

\* A part of a text is a text.
LEMMA PartIsText ==
    ASSUME NEW s \in Seq(Nat), NEW i \in 1 .. Len(s) + 1, NEW m \in i .. Len(s) + 1
    PROVE  /\ SubSeq(s, i, m - 1) \in Seq(Nat)
           /\ Len(SubSeq(s, i, m - 1)) = m - i
<1>1. i \in Int /\ m - 1 \in Int /\ \A j \in i .. m - 1 : s[j] \in Nat
  OBVIOUS
<1>2. /\ SubSeq(s, i, m - 1) \in Seq(Nat)
      /\ Len(SubSeq(s, i, m - 1)) = IF i <= m - 1 THEN m - 1 - i + 1 ELSE 0
  BY <1>1, SubSeqProperties
<1>. QED  BY <1>2

\* Parts that are next to each other.
LEMMA PartsJoin ==
    ASSUME NEW s \in Seq(Nat), NEW i \in 1 .. Len(s) + 1, NEW m \in i .. Len(s) + 1,
           NEW k \in m .. Len(s) + 1
    PROVE  SubSeq(s, i, m - 1) \o SubSeq(s, m, k - 1) = SubSeq(s, i, k - 1)
<1>1. /\ Len(s) \in Nat
      /\ m - 1 \in i - 1 .. Len(s) /\ k - 1 \in m - 1 .. Len(s) /\ (m - 1) + 1 = m
  OBVIOUS
<1>2. SubSeq(s, i, m - 1) \o SubSeq(s, (m - 1) + 1, k - 1) = SubSeq(s, i, k - 1)
  BY <1>1, ConcatAdjacentSubSeq
<1>. QED  BY Zenon, <1>1, <1>2

-----------------------------------------------------------------------------
(* The standard's decoder, written as UTF-8 again.                         *)

LEMMA ReplacementIsText == ReplacementUtf8 \in Seq(Nat)
BY DEF ReplacementUtf8

\* Reads go forward, to the end at most.
LEMMA ReadEnds ==
    ASSUME NEW s \in String, NEW i \in 1 .. Len(s)
    PROVE  /\ ReadUtf8(s, i).next \in i + 1 .. Len(s) + 1
           /\ ReadUtf8(s, i).next = i + UnitLength(s, i)
<1>1. /\ UnitLength(s, i) \in 1 .. 4
      /\ i + UnitLength(s, i) =< Len(s) + 1
      /\ ReadUtf8(s, i).next = i + UnitLength(s, i)
  BY ReadIsUnit
<1>2. Len(s) \in Nat /\ i \in Nat
  BY BytesAreNat
<1>. QED  BY <1>1, <1>2

\* What the standard's decoder makes of what is read at a position.
FixedPiece(s, i) ==
    IF ReadUtf8(s, i).ok THEN SubSeq(s, i, ReadUtf8(s, i).next - 1) ELSE ReplacementUtf8

LEMMA FixedPieceIs ==
    ASSUME NEW s \in String, NEW i \in 1 .. Len(s)
    PROVE  /\ FixedPiece(s, i) \in Seq(Nat)
           /\ FixedPiece(s, i) = IF IsCharacter(s, i, UnitLength(s, i))
                                 THEN SubSeq(s, i, i + UnitLength(s, i) - 1)
                                 ELSE ReplacementUtf8
<1>1. s \in Seq(Nat) /\ Len(s) \in Nat
  BY BytesAreNat
<1>. DEFINE m == ReadUtf8(s, i).next
<1>2. m \in i + 1 .. Len(s) + 1 /\ m = i + UnitLength(s, i)
  BY ReadEnds
<1>3. ReadUtf8(s, i).ok = IsCharacter(s, i, UnitLength(s, i))
  BY ReadIsUnit
<1>. HIDE DEF m
<1>4. i \in 1 .. Len(s) + 1 /\ m \in i .. Len(s) + 1
  BY <1>1, <1>2
<1>5. SubSeq(s, i, m - 1) \in Seq(Nat)
  BY Zenon, <1>1, <1>4, PartIsText
<1>6. FixedPiece(s, i) = IF ReadUtf8(s, i).ok THEN SubSeq(s, i, m - 1) ELSE ReplacementUtf8
  BY Zenon DEF FixedPiece, m
<1>7. FixedPiece(s, i) \in Seq(Nat)
  BY Zenon, <1>5, <1>6, ReplacementIsText
<1>8. FixedPiece(s, i) = IF IsCharacter(s, i, UnitLength(s, i))
                         THEN SubSeq(s, i, i + UnitLength(s, i) - 1) ELSE ReplacementUtf8
  <2>1. i + UnitLength(s, i) - 1 = m - 1
    BY <1>2, ReadIsUnit
  <2>2. CASE ReadUtf8(s, i).ok
    <3>1. FixedPiece(s, i) = SubSeq(s, i, i + UnitLength(s, i) - 1)
      BY Zenon, <1>6, <2>1, <2>2
    <3>. QED  BY Zenon, <1>3, <2>2, <3>1
  <2>3. CASE ~ReadUtf8(s, i).ok
    <3>1. FixedPiece(s, i) = ReplacementUtf8 /\ ~IsCharacter(s, i, UnitLength(s, i))
      BY Zenon, <1>3, <1>6, <2>3
    <3>. QED  BY Zenon, <3>1
  <2>. QED  BY Zenon, <2>2, <2>3
<1>. QED  BY Zenon, <1>7, <1>8

\* The texts that it makes of what starts at each position.
FixedFrom(s, g) ==
    /\ g[Len(s) + 1] = <<>>
    /\ \A i \in 1 .. Len(s) + 1 : g[i] \in Seq(Nat)
    /\ \A i \in 1 .. Len(s) : g[i] = FixedPiece(s, i) \o g[ReadUtf8(s, i).next]

LEMMA FixedIs ==
    ASSUME NEW s \in String
    PROVE  \E g : FixedFrom(s, g) /\ Fixed(s) = g[1]
<1>. DEFINE n == Len(s)
            piece == [i \in 1 .. n |-> FixedPiece(s, i)]
            next == [i \in 1 .. n |-> ReadUtf8(s, i).next]
            Equation(g) == g = [i \in 1 .. n + 1 |->
                IF i > n THEN <<>>
                ELSE (IF IsCharacter(s, i, UnitLength(s, i))
                      THEN SubSeq(s, i, i + UnitLength(s, i) - 1) ELSE ReplacementUtf8)
                        \o g[i + UnitLength(s, i)]]
            out == CHOOSE g : Equation(g)
<1>1. n \in Nat
  BY BytesAreNat
<1>2. Fixed(s) = out[1]
  BY DEF Fixed
<1>3. ASSUME NEW i \in 1 .. n
      PROVE  piece[i] \in Seq(Nat) /\ next[i] \in i + 1 .. n + 1
  BY FixedPieceIs, ReadEnds
<1>4. ASSUME NEW g
      PROVE  Equation(g) <=> Pieces(g, n, piece, next)
  <2>1. ASSUME NEW i \in 1 .. n + 1
        PROVE  (IF i > n THEN <<>> ELSE piece[i] \o g[next[i]])
                 = IF i > n THEN <<>>
                   ELSE (IF IsCharacter(s, i, UnitLength(s, i))
                         THEN SubSeq(s, i, i + UnitLength(s, i) - 1) ELSE ReplacementUtf8)
                           \o g[i + UnitLength(s, i)]
    <3>1. CASE i > n
      BY Zenon, <3>1
    <3>2. CASE ~(i > n)
      <4>1. i \in 1 .. n
        BY <1>1, <3>2
      <4>2. piece[i] = FixedPiece(s, i) /\ next[i] = ReadUtf8(s, i).next
        BY <4>1
      <4>. HIDE DEF n, piece, next
      <4>3. i \in 1 .. Len(s)
        BY <4>1 DEF n
      <4>4. next[i] = i + UnitLength(s, i)
        BY Zenon, <4>2, <4>3, ReadEnds
      <4>5. piece[i] = IF IsCharacter(s, i, UnitLength(s, i))
                       THEN SubSeq(s, i, i + UnitLength(s, i) - 1) ELSE ReplacementUtf8
        BY Zenon, <4>2, <4>3, FixedPieceIs
      <4>. QED  BY Zenon, <3>2, <4>4, <4>5
    <3>. QED  BY Zenon, <3>1, <3>2
  <2>. HIDE DEF n, piece, next
  <2>. QED  BY <2>1 DEF Pieces
<1>5. Pieces(out, n, piece, next)
  <2>1. \E g : Pieces(g, n, piece, next)
    <3>. HIDE DEF n, piece, next
    <3>. QED  BY <1>1, <1>3, PiecesExist
  <2>. HIDE DEF Equation, n, piece, next
  <2>. QED  BY <1>4, <2>1
<1>. HIDE DEF out
<1>6. /\ out[n + 1] = <<>>
      /\ \A i \in 1 .. n : out[i] = piece[i] \o out[next[i]]
      /\ \A i \in 1 .. n + 1 : out[i] \in Seq(Nat)
  <2>. HIDE DEF n, piece, next
  <2>. QED  BY <1>1, <1>3, <1>5, PiecesAre
<1>7. \A i \in 1 .. n : out[i] = FixedPiece(s, i) \o out[ReadUtf8(s, i).next]
  BY <1>6
<1>. QED  BY <1>2, <1>6, <1>7 DEF FixedFrom

-----------------------------------------------------------------------------
(* check_fix_utf8.                                                         *)

\* Up to where all is well formed: where the first loop stops.
Wells(g, n, ok, next) ==
    g = [it \in 1 .. n + 1 |->
            IF it = n + 1 THEN n + 1 ELSE IF it \in ok THEN g[next[it]] ELSE it]

LEMMA WellsExist ==
    ASSUME NEW n \in Nat, NEW ok, NEW next, \A i \in 1 .. n : next[i] \in i + 1 .. n + 1
    PROVE  \E g : Wells(g, n, ok, next)
<1>. DEFINE V == 1 .. n + 1
            known == {i \in V : i = n + 1 \/ i \notin ok}
            value == [i \in V |-> i]
            step == [i \in V |-> [v \in V |-> v]]
<1>1. \A i \in 1 .. n + 1 : i \in known => value[i] \in V
  OBVIOUS
<1>2. ASSUME NEW i \in 1 .. n + 1, i \notin known
      PROVE  /\ i # n + 1 /\ i \in ok /\ i \in 1 .. n /\ next[i] \in i + 1 .. n + 1
             /\ \A v \in V : step[i][v] \in V
  <2>1. i # n + 1 /\ i \in ok
    BY <1>2
  <2>2. i \in 1 .. n
    BY <2>1
  <2>. QED  BY <2>1, <2>2
<1>3. n + 1 \in Nat
  OBVIOUS
<1>4. PICK g : Descent(g, n + 1, known, value, next, step) /\ \A i \in 1 .. n + 1 : g[i] \in V
  <2>. HIDE DEF V, known, value, step
  <2>. QED  BY <1>1, <1>2, <1>3, DescentInto
<1>5. ASSUME NEW i \in 1 .. n + 1
      PROVE  DescentAt(g, i, known, value, next, step)
               = IF i = n + 1 THEN n + 1 ELSE IF i \in ok THEN g[next[i]] ELSE i
  <2>1. CASE i \in known
    <3>1. DescentAt(g, i, known, value, next, step) = i
      BY <2>1 DEF DescentAt
    <3>. QED  BY <2>1, <3>1
  <2>2. CASE i \notin known
    <3>1. /\ i # n + 1 /\ i \in ok /\ i \in 1 .. n /\ next[i] \in 1 .. n + 1
      BY <1>2, <2>2
    <3>2. g[next[i]] \in V /\ i \in V
      BY <1>4, <3>1
    <3>3. step[i][g[next[i]]] = g[next[i]]
      BY <3>2
    <3>. QED  BY <2>2, <3>1, <3>3 DEF DescentAt
  <2>. QED  BY <2>1, <2>2
<1>6. g = [i \in 1 .. n + 1 |-> DescentAt(g, i, known, value, next, step)]
  BY <1>4 DEF Descent
<1>. HIDE DEF known, value, step
<1>. QED  BY <1>5, <1>6 DEF Wells

LEMMA WellsAre ==
    ASSUME NEW n \in Nat, NEW ok, NEW next, NEW g, Wells(g, n, ok, next),
           \A i \in 1 .. n : next[i] \in i + 1 .. n + 1
    PROVE  /\ g[n + 1] = n + 1
           /\ \A i \in 1 .. n : g[i] = IF i \in ok THEN g[next[i]] ELSE i
           /\ \A i \in 1 .. n + 1 : /\ g[i] \in i .. n + 1
                                    /\ g[i] # n + 1 => g[i] \in 1 .. n /\ g[i] \notin ok
<1>1. \A i \in 1 .. n + 1 :
          g[i] = IF i = n + 1 THEN n + 1 ELSE IF i \in ok THEN g[next[i]] ELSE i
  BY DEF Wells
<1>2. n + 1 \in 1 .. n + 1 /\ \A i \in 1 .. n : i \in 1 .. n + 1 /\ i # n + 1
  OBVIOUS
<1>3. g[n + 1] = n + 1 /\ \A i \in 1 .. n : g[i] = IF i \in ok THEN g[next[i]] ELSE i
  BY <1>1, <1>2
<1>. DEFINE Right(i) == /\ g[i] \in i .. n + 1
                        /\ g[i] # n + 1 => g[i] \in 1 .. n /\ g[i] \notin ok
            T == {i \in 1 .. n + 1 : Right(i)}
<1>4. ASSUME NEW i \in 1 .. n + 1, \A j \in i + 1 .. n + 1 : j \in T
      PROVE  i \in T
  <2>1. CASE i = n + 1
    BY <1>3, <2>1
  <2>2. CASE i # n + 1
    <3>1. i \in 1 .. n
      BY <2>2
    <3>2. CASE i \in ok
      <4>1. next[i] \in i + 1 .. n + 1 /\ Right(next[i])
        BY <1>4, <3>1
      <4>2. g[i] = g[next[i]]
        BY <1>3, <3>1, <3>2
      <4>3. g[i] \in next[i] .. n + 1 /\ (g[i] # n + 1 => g[i] \in 1 .. n /\ g[i] \notin ok)
        BY Zenon, <4>1, <4>2
      <4>4. g[i] \in i .. n + 1
        BY <4>1, <4>3
      <4>. QED  BY <4>3, <4>4
    <3>3. CASE i \notin ok
      <4>1. g[i] = i
        BY <1>3, <3>1, <3>3
      <4>. QED  BY <3>1, <3>3, <4>1
    <3>. QED  BY <3>2, <3>3
  <2>. QED  BY <2>1, <2>2
<1>5. \A i \in 1 .. n + 1 : i \in T
  <2>1. n + 1 \in Nat
    OBVIOUS
  <2>. HIDE DEF T
  <2>. QED  BY <1>4, <2>1, FromTheEnd
<1>. QED  BY <1>3, <1>5

\* What the second loop copies and replaces from a position on.
Rests(g, n, run, well, next) ==
    g = [i \in 1 .. n + 1 |->
            run[i] \o (IF well[i] = n + 1 THEN <<>> ELSE ReplacementUtf8 \o g[next[well[i]]])]

LEMMA RestsExist ==
    ASSUME NEW n \in Nat, NEW run, NEW well, NEW next,
           \A i \in 1 .. n + 1 : run[i] \in Seq(Nat) /\ well[i] \in i .. n + 1,
           \A i \in 1 .. n : next[i] \in i + 1 .. n + 1
    PROVE  \E g : Rests(g, n, run, well, next)
<1>. DEFINE V == Seq(Nat)
            P == 1 .. n + 1
            known == {i \in P : well[i] = n + 1}
            value == [i \in P |-> run[i] \o <<>>]
            onward == [i \in P |-> next[well[i]]]
            step == [i \in P |-> [v \in V |-> run[i] \o (ReplacementUtf8 \o v)]]
<1>0. \A i \in P : run[i] \in V
  OBVIOUS
<1>1. ASSUME NEW i \in P PROVE value[i] \in V
  <2>1. <<>> \in V
    OBVIOUS
  <2>2. run[i] \o <<>> \in V
    BY Zenon, <1>0, <2>1, ConcatProperties
  <2>. QED  BY <2>2
<1>2. ASSUME NEW i \in P, i \notin known
      PROVE  onward[i] \in i + 1 .. n + 1
  <2>1. well[i] # n + 1 /\ well[i] \in i .. n + 1
    BY <1>2
  <2>2. well[i] \in 1 .. n /\ well[i] >= i
    BY <2>1
  <2>3. next[well[i]] \in well[i] + 1 .. n + 1
    BY <2>2
  <2>4. next[well[i]] \in i + 1 .. n + 1
    BY <2>2, <2>3
  <2>. QED  BY <2>4
<1>3. ASSUME NEW i \in P, NEW v \in V
      PROVE  step[i][v] \in V
  <2>1. ReplacementUtf8 \o v \in V
    BY Zenon, ReplacementIsText, ConcatProperties
  <2>2. run[i] \o (ReplacementUtf8 \o v) \in V
    BY Zenon, <1>0, <2>1, ConcatProperties
  <2>. QED  BY <2>2
<1>4. n + 1 \in Nat
  OBVIOUS
<1>5. PICK g : Descent(g, n + 1, known, value, onward, step) /\ \A i \in 1 .. n + 1 : g[i] \in V
  <2>. HIDE DEF V, known, value, onward, step
  <2>. QED  BY <1>1, <1>2, <1>3, <1>4, DescentInto
<1>6. ASSUME NEW i \in P
      PROVE  DescentAt(g, i, known, value, onward, step)
               = run[i] \o (IF well[i] = n + 1 THEN <<>>
                            ELSE ReplacementUtf8 \o g[next[well[i]]])
  <2>1. CASE well[i] = n + 1
    <3>1. i \in known /\ value[i] = run[i] \o <<>>
      BY <2>1
    <3>. QED  BY Zenon, <2>1, <3>1 DEF DescentAt
  <2>2. CASE well[i] # n + 1
    <3>1. i \notin known /\ onward[i] = next[well[i]]
      BY <2>2
    <3>2. onward[i] \in P
      BY <1>2, <3>1
    <3>3. g[onward[i]] \in V
      BY Zenon, <1>5, <3>2
    <3>4. step[i][g[onward[i]]] = run[i] \o (ReplacementUtf8 \o g[onward[i]])
      <4>. DEFINE v == g[onward[i]]
      <4>1. v \in V
        BY <3>3
      <4>. HIDE DEF v, V
      <4>2. step[i][v] = run[i] \o (ReplacementUtf8 \o v)
        BY <4>1
      <4>. QED  BY <4>2 DEF v
    <3>. HIDE DEF known, value, onward, step, V
    <3>5. DescentAt(g, i, known, value, onward, step)
            = run[i] \o (ReplacementUtf8 \o g[onward[i]])
      BY Zenon, <3>1, <3>4 DEF DescentAt
    <3>. QED  BY Zenon, <2>2, <3>1, <3>5
  <2>. QED  BY <2>1, <2>2
<1>7. g = [i \in 1 .. n + 1 |-> DescentAt(g, i, known, value, onward, step)]
  BY <1>5 DEF Descent
<1>. HIDE DEF known, value, onward, step
<1>. QED  BY <1>6, <1>7 DEF Rests

\* Where a read finds what is well formed, where it ends, and the run that is
\* copied from a position on.
OkAt(s) == {i \in 1 .. Len(s) : ReadUtf8(s, i).ok}
NextAt(s) == [i \in 1 .. Len(s) |-> ReadUtf8(s, i).next]
RunAt(s, well) == [i \in 1 .. Len(s) + 1 |-> SubSeq(s, i, well[i] - 1)]

LEMMA NextsAre ==
    ASSUME NEW s \in String
    PROVE  \A i \in 1 .. Len(s) : /\ NextAt(s)[i] \in i + 1 .. Len(s) + 1
                                  /\ NextAt(s)[i] = ReadUtf8(s, i).next
BY ReadEnds DEF NextAt

LEMMA RunsAre ==
    ASSUME NEW s \in String, NEW well, \A i \in 1 .. Len(s) + 1 : well[i] \in i .. Len(s) + 1
    PROVE  \A i \in 1 .. Len(s) + 1 : /\ RunAt(s, well)[i] \in Seq(Nat)
                                      /\ RunAt(s, well)[i] = SubSeq(s, i, well[i] - 1)
<1>1. s \in Seq(Nat)
  BY BytesAreNat
<1>2. ASSUME NEW i \in 1 .. Len(s) + 1
      PROVE  SubSeq(s, i, well[i] - 1) \in Seq(Nat)
  BY Zenon, <1>1, PartIsText
<1>. QED  BY <1>2 DEF RunAt

LEMMA CheckFixIs ==
    ASSUME NEW s \in String
    PROVE  \E well, rest :
              /\ Wells(well, Len(s), OkAt(s), NextAt(s))
              /\ Rests(rest, Len(s), RunAt(s, well), well, NextAt(s))
              /\ CheckFixUtf8(s) =
                    IF well[1] = Len(s) + 1 THEN s
                    ELSE SubSeq(s, 1, well[1] - 1) \o ReplacementUtf8
                           \o rest[ReadUtf8(s, well[1]).next]
<1>. DEFINE n == Len(s)
            WellEquation(g) == g = [it \in 1 .. n + 1 |->
                IF it = n + 1 THEN n + 1
                ELSE IF ReadUtf8(s, it).ok THEN g[ReadUtf8(s, it).next] ELSE it]
            well == CHOOSE g : WellEquation(g)
            RestEquation(g) == g = [bgn \in 1 .. n + 1 |->
                SubSeq(s, bgn, well[bgn] - 1)
                  \o (IF well[bgn] = n + 1 THEN <<>>
                      ELSE ReplacementUtf8 \o g[ReadUtf8(s, well[bgn]).next])]
            rest == CHOOSE g : RestEquation(g)
<1>1. n \in Nat
  BY BytesAreNat
<1>2. CheckFixUtf8(s) = IF well[1] = n + 1 THEN s
                        ELSE SubSeq(s, 1, well[1] - 1) \o ReplacementUtf8
                               \o rest[ReadUtf8(s, well[1]).next]
  BY DEF CheckFixUtf8
<1>3. \A i \in 1 .. n : NextAt(s)[i] \in i + 1 .. n + 1 /\ NextAt(s)[i] = ReadUtf8(s, i).next
  BY NextsAre
<1>. HIDE DEF n
<1>4. \A i \in 1 .. n : i \in OkAt(s) <=> ReadUtf8(s, i).ok
  BY DEF OkAt, n
<1>5. ASSUME NEW g
      PROVE  WellEquation(g) <=> Wells(g, n, OkAt(s), NextAt(s))
  <2>1. ASSUME NEW it \in 1 .. n + 1
        PROVE  (IF it = n + 1 THEN n + 1
                ELSE IF it \in OkAt(s) THEN g[NextAt(s)[it]] ELSE it)
                 = IF it = n + 1 THEN n + 1
                   ELSE IF ReadUtf8(s, it).ok THEN g[ReadUtf8(s, it).next] ELSE it
    <3>1. it # n + 1 => it \in 1 .. n
      BY <1>1
    <3>. QED  BY <1>3, <1>4, <3>1
  <2>. QED  BY <2>1 DEF Wells
<1>6. Wells(well, n, OkAt(s), NextAt(s))
  <2>1. \E g : Wells(g, n, OkAt(s), NextAt(s))
    BY <1>1, <1>3, WellsExist
  <2>. HIDE DEF WellEquation
  <2>. QED  BY <1>5, <2>1
<1>. HIDE DEF well
<1>7. \A i \in 1 .. n + 1 : /\ well[i] \in i .. n + 1
                            /\ well[i] # n + 1 => well[i] \in 1 .. n
  BY <1>1, <1>3, <1>6, WellsAre
<1>8. \A i \in 1 .. n + 1 : /\ RunAt(s, well)[i] \in Seq(Nat)
                            /\ RunAt(s, well)[i] = SubSeq(s, i, well[i] - 1)
  BY <1>7, RunsAre DEF n
<1>9. ASSUME NEW g
      PROVE  RestEquation(g) <=> Rests(g, n, RunAt(s, well), well, NextAt(s))
  <2>1. ASSUME NEW bgn \in 1 .. n + 1
        PROVE  RunAt(s, well)[bgn]
                 \o (IF well[bgn] = n + 1 THEN <<>>
                     ELSE ReplacementUtf8 \o g[NextAt(s)[well[bgn]]])
               = SubSeq(s, bgn, well[bgn] - 1)
                 \o (IF well[bgn] = n + 1 THEN <<>>
                     ELSE ReplacementUtf8 \o g[ReadUtf8(s, well[bgn]).next])
    <3>1. CASE well[bgn] = n + 1
      BY Zenon, <1>8, <3>1
    <3>2. CASE well[bgn] # n + 1
      <4>1. NextAt(s)[well[bgn]] = ReadUtf8(s, well[bgn]).next
        BY Zenon, <1>3, <1>7, <3>2
      <4>. QED  BY Zenon, <1>8, <4>1
    <3>. QED  BY Zenon, <3>1, <3>2
  <2>. QED  BY <2>1 DEF Rests
<1>10. Rests(rest, n, RunAt(s, well), well, NextAt(s))
  <2>1. \E g : Rests(g, n, RunAt(s, well), well, NextAt(s))
    BY <1>1, <1>3, <1>7, <1>8, RestsExist
  <2>. HIDE DEF RestEquation
  <2>. QED  BY <1>9, <2>1
<1>. HIDE DEF rest
<1>. QED  BY <1>2, <1>6, <1>10 DEF n

\* check_fix_utf8 makes of a string what the standard's decoder makes of it.
LEMMA CheckFixIsFixed ==
    ASSUME NEW s \in String
    PROVE  CheckFixUtf8(s) = Fixed(s)
<1>1. PICK F : FixedFrom(s, F) /\ Fixed(s) = F[1]
  BY FixedIs
<1>2. PICK well, rest :
              /\ Wells(well, Len(s), OkAt(s), NextAt(s))
              /\ Rests(rest, Len(s), RunAt(s, well), well, NextAt(s))
              /\ CheckFixUtf8(s) =
                    IF well[1] = Len(s) + 1 THEN s
                    ELSE SubSeq(s, 1, well[1] - 1) \o ReplacementUtf8
                           \o rest[ReadUtf8(s, well[1]).next]
  BY CheckFixIs
<1>. DEFINE n == Len(s)
            N(i) == ReadUtf8(s, i).next
            ok(i) == ReadUtf8(s, i).ok
            Part(i, m) == SubSeq(s, i, m - 1)
<1>3. s \in Seq(Nat) /\ n \in Nat
  BY BytesAreNat
<1>4. \A i \in 1 .. n : N(i) \in i + 1 .. n + 1 /\ NextAt(s)[i] = N(i)
  BY NextsAre
<1>5. /\ F[n + 1] = <<>>
      /\ \A i \in 1 .. n + 1 : F[i] \in Seq(Nat)
      /\ \A i \in 1 .. n : /\ ok(i) => F[i] = Part(i, N(i)) \o F[N(i)]
                           /\ ~ok(i) => F[i] = ReplacementUtf8 \o F[N(i)]
  BY <1>1 DEF FixedFrom, FixedPiece
<1>6. \A i \in 1 .. n + 1 : \A m \in i .. n + 1 : Part(i, m) \in Seq(Nat)
  BY Zenon, <1>3, PartIsText
<1>7. \A i \in 1 .. n + 1 : \A m \in i .. n + 1 : \A k \in m .. n + 1 :
          Part(i, m) \o Part(m, k) = Part(i, k)
  BY Zenon, <1>3, PartsJoin
<1>8. \A i \in 1 .. n + 1 : Part(i, i) = <<>>
  <2>1. \A i \in 1 .. n + 1 : i \in Int /\ i - 1 \in Int /\ i - 1 < i
    OBVIOUS
  <2>. QED  BY Zenon, <2>1, SubSeqEmpty
<1>9. /\ well[n + 1] = n + 1
      /\ \A i \in 1 .. n : well[i] = IF ok(i) THEN well[N(i)] ELSE i
      /\ \A i \in 1 .. n + 1 : /\ well[i] \in i .. n + 1
                               /\ well[i] # n + 1 => well[i] \in 1 .. n /\ ~ok(well[i])
  <2>1. \A i \in 1 .. n : NextAt(s)[i] \in i + 1 .. n + 1
    BY <1>4
  <2>2. /\ well[n + 1] = n + 1
        /\ \A i \in 1 .. n : well[i] = IF i \in OkAt(s) THEN well[NextAt(s)[i]] ELSE i
        /\ \A i \in 1 .. n + 1 :
              /\ well[i] \in i .. n + 1
              /\ well[i] # n + 1 => well[i] \in 1 .. n /\ well[i] \notin OkAt(s)
    <3>. HIDE DEF n
    <3>1. Wells(well, n, OkAt(s), NextAt(s))
      BY <1>2 DEF n
    <3>. QED  BY Zenon, <1>3, <2>1, <3>1, WellsAre
  <2>3. \A i \in 1 .. n : i \in OkAt(s) <=> ok(i)
    BY DEF OkAt
  <2>. HIDE DEF n, N, ok
  <2>. QED  BY <1>4, <2>2, <2>3
<1>10. \A i \in 1 .. n + 1 :
          rest[i] = Part(i, well[i]) \o (IF well[i] = n + 1 THEN <<>>
                                         ELSE ReplacementUtf8 \o rest[N(well[i])])
  <2>1. \A i \in 1 .. n + 1 : RunAt(s, well)[i] = Part(i, well[i])
    BY DEF RunAt
  <2>2. \A i \in 1 .. n + 1 :
          rest[i] = RunAt(s, well)[i] \o (IF well[i] = n + 1 THEN <<>>
                                          ELSE ReplacementUtf8 \o rest[NextAt(s)[well[i]]])
    BY <1>2 DEF Rests
  <2>3. \A i \in 1 .. n + 1 : well[i] # n + 1 => NextAt(s)[well[i]] = N(well[i])
    <3>. HIDE DEF n, N
    <3>. QED  BY <1>4, <1>9
  <2>. HIDE DEF n, N, Part
  <2>. QED  BY <2>1, <2>2, <2>3
<1>11. CheckFixUtf8(s) = IF well[1] = n + 1 THEN s
                         ELSE Part(1, well[1]) \o ReplacementUtf8 \o rest[N(well[1])]
  BY <1>2
<1>12. Part(1, n + 1) = s
  <2>1. (n + 1) - 1 = n
    BY <1>3
  <2>2. SubSeq(s, 1, n) = s
    BY Zenon, <1>3, SubSeqFull
  <2>. QED  BY <2>1, <2>2
<1>. HIDE DEF n, N, ok, Part
<1>13. ASSUME NEW a \in Seq(Nat), NEW b \in Seq(Nat), NEW c \in Seq(Nat)
       PROVE  (a \o b) \o c = a \o (b \o c)
  BY ConcatAssociative
<1>14. ASSUME NEW a \in Seq(Nat)
       PROVE  a \o <<>> = a /\ <<>> \o a = a
  BY Zenon, ConcatEmptySeq
<1>. DEFINE Split == {i \in 1 .. n + 1 : F[i] = Part(i, well[i]) \o F[well[i]]}
<1>15. ASSUME NEW i \in 1 .. n + 1, \A j \in i + 1 .. n + 1 : j \in Split
       PROVE  i \in Split
  <2>1. CASE i = n + 1 \/ ~ok(i)
    <3>1. well[i] = i
      <4>1. i # n + 1 => i \in 1 .. n
        BY <1>3
      <4>. QED  BY <1>9, <2>1, <4>1
    <3>2. Part(i, well[i]) = <<>>
      BY Zenon, <1>8, <3>1
    <3>3. F[i] = <<>> \o F[i]
      BY Zenon, <1>5, <1>14
    <3>. QED  BY <3>1, <3>2, <3>3
  <2>2. CASE i # n + 1 /\ ok(i)
    <3>1. i \in 1 .. n
      BY <1>3, <2>2
    <3>. DEFINE m == N(i)
                k == well[i]
    <3>2. m \in i + 1 .. n + 1
      BY <1>4, <3>1
    <3>3. well[m] = k /\ k \in m .. n + 1
      <4>1. m \in 1 .. n + 1
        BY <3>1, <3>2
      <4>2. k = well[m]
        BY <1>9, <2>2, <3>1
      <4>3. well[m] \in m .. n + 1
        BY <1>9, <4>1
      <4>. QED  BY <4>2, <4>3
    <3>. HIDE DEF m, k
    <3>4. F[i] = Part(i, m) \o F[m]
      BY <1>5, <2>2, <3>1 DEF m
    <3>5. F[m] = Part(m, k) \o F[k]
      BY <1>15, <3>2, <3>3
    <3>6. m \in 1 .. n + 1 /\ k \in 1 .. n + 1 /\ m \in i .. n + 1
      BY <1>3, <3>1, <3>2, <3>3
    <3>7. Part(i, m) \in Seq(Nat) /\ Part(m, k) \in Seq(Nat) /\ F[k] \in Seq(Nat)
      BY <1>5, <1>6, <3>3, <3>6
    <3>8. (Part(i, m) \o Part(m, k)) \o F[k] = Part(i, m) \o (Part(m, k) \o F[k])
      BY Zenon, <1>13, <3>7
    <3>9. Part(i, m) \o Part(m, k) = Part(i, k)
      BY <1>7, <3>3, <3>6
    <3>10. F[i] = Part(i, k) \o F[k]
      BY Zenon, <3>4, <3>5, <3>8, <3>9
    <3>. QED  BY <3>10 DEF k
  <2>. QED  BY <2>1, <2>2
<1>16. \A i \in 1 .. n + 1 : F[i] = Part(i, well[i]) \o F[well[i]]
  <2>1. n + 1 \in Nat
    BY <1>3
  <2>2. \A i \in 1 .. n + 1 : i \in Split
    <3>. HIDE DEF Split
    <3>. QED  BY <1>15, <2>1, FromTheEnd
  <2>. QED  BY <2>2
<1>17. ASSUME NEW p \in 1 .. n, ~ok(p)
       PROVE  F[p] = ReplacementUtf8 \o F[N(p)]
  BY <1>5, <1>17
<1>. DEFINE Same == {i \in 1 .. n + 1 : rest[i] = F[i]}
<1>18. ASSUME NEW i \in 1 .. n + 1, \A j \in i + 1 .. n + 1 : j \in Same
       PROVE  i \in Same
  <2>1. CASE well[i] = n + 1
    <3>1. rest[i] = Part(i, well[i]) \o <<>>
      BY Zenon, <1>10, <2>1
    <3>2. F[i] = Part(i, well[i]) \o <<>>
      BY Zenon, <1>5, <1>16, <2>1
    <3>. QED  BY <3>1, <3>2
  <2>2. CASE well[i] # n + 1
    <3>. DEFINE p == well[i]
    <3>1. p \in 1 .. n /\ p \in i .. n + 1 /\ ~ok(p)
      BY <1>9, <2>2
    <3>2. N(p) \in p + 1 .. n + 1
      BY <1>4, <3>1
    <3>3. N(p) \in i + 1 .. n + 1
      BY <3>1, <3>2
    <3>4. rest[N(p)] = F[N(p)]
      BY <1>18, <3>3
    <3>5. rest[i] = Part(i, p) \o (ReplacementUtf8 \o rest[N(p)])
      BY Zenon, <1>10, <2>2
    <3>6. F[i] = Part(i, p) \o (ReplacementUtf8 \o F[N(p)])
      BY Zenon, <1>16, <1>17, <3>1
    <3>7. rest[i] = F[i]
      BY Zenon, <3>4, <3>5, <3>6
    <3>. QED  BY <3>7
  <2>. QED  BY <2>1, <2>2
<1>19. \A i \in 1 .. n + 1 : rest[i] = F[i]
  <2>1. n + 1 \in Nat
    BY <1>3
  <2>2. \A i \in 1 .. n + 1 : i \in Same
    <3>. HIDE DEF Same
    <3>. QED  BY <1>18, <2>1, FromTheEnd
  <2>. QED  BY <2>2
<1>20. 1 \in 1 .. n + 1
  BY <1>3
<1>21. CASE well[1] = n + 1
  <2>1. F[1] = Part(1, n + 1) \o <<>>
    BY Zenon, <1>5, <1>16, <1>20, <1>21
  <2>2. F[1] = s
    BY Zenon, <1>3, <1>12, <1>14, <2>1
  <2>3. CheckFixUtf8(s) = s
    BY Zenon, <1>11, <1>21
  <2>. QED  BY Zenon, <1>1, <2>2, <2>3
<1>22. CASE well[1] # n + 1
  <2>. DEFINE p == well[1]
  <2>1. p \in 1 .. n /\ p \in 1 .. n + 1 /\ ~ok(p)
    BY <1>9, <1>20, <1>22
  <2>2. N(p) \in 1 .. n + 1
    BY <1>4, <2>1
  <2>3. F[1] = Part(1, p) \o (ReplacementUtf8 \o F[N(p)])
    BY Zenon, <1>16, <1>17, <1>20, <2>1
  <2>4. CheckFixUtf8(s) = Part(1, p) \o ReplacementUtf8 \o F[N(p)]
    BY Zenon, <1>11, <1>19, <1>22, <2>2
  <2>5. Part(1, p) \in Seq(Nat) /\ F[N(p)] \in Seq(Nat)
    BY <1>5, <1>6, <1>20, <2>1, <2>2
  <2>6. Part(1, p) \o ReplacementUtf8 \o F[N(p)] = Part(1, p) \o (ReplacementUtf8 \o F[N(p)])
    BY Zenon, <1>13, <2>5, ReplacementIsText
  <2>. QED  BY Zenon, <1>1, <2>3, <2>4, <2>6
<1>. QED  BY Zenon, <1>21, <1>22

-----------------------------------------------------------------------------
(* convert_utf8_to_utf16.                                                  *)

\* What is read is a code point that can be written.
LEMMA ValueIsScalar ==
    ASSUME NEW s \in String, NEW i \in 1 .. Len(s)
    PROVE  ScalarValue(Value(ReadUtf8(s, i)))
<1>1. ScalarValue(Replacement)
  BY DEF ScalarValue, IsSurrogate, IsLead, IsTrail, Replacement
<1>2. ReadUtf8(s, i).ok => ScalarValue(ReadUtf8(s, i).cp)
  BY Zenon, ReadIsWritten
<1>. QED  BY Zenon, <1>1, <1>2 DEF Value

\* And it is written as what the standard's decoder makes of it.
LEMMA PieceIsWritten ==
    ASSUME NEW s \in String, NEW i \in 1 .. Len(s)
    PROVE  AppendUtf8(Value(ReadUtf8(s, i))) = FixedPiece(s, i)
<1>1. CASE ReadUtf8(s, i).ok
  <2>. DEFINE cp == ReadUtf8(s, i).cp
              next == ReadUtf8(s, i).next
  <2>1. AppendUtf8(cp) = SubSeq(s, i, i + UnitLength(s, i) - 1)
    BY Zenon, <1>1, ReadIsWritten
  <2>2. next = i + UnitLength(s, i)
    BY Zenon, ReadEnds
  <2>3. Value(ReadUtf8(s, i)) = cp
    BY Zenon, <1>1 DEF Value
  <2>4. FixedPiece(s, i) = SubSeq(s, i, next - 1)
    BY Zenon, <1>1 DEF FixedPiece
  <2>. HIDE DEF cp, next
  <2>5. i + UnitLength(s, i) - 1 = next - 1
    BY <2>2, ReadIsUnit
  <2>. QED  BY Zenon, <2>1, <2>3, <2>4, <2>5
<1>2. CASE ~ReadUtf8(s, i).ok
  <2>1. AppendUtf8(65533) = <<239, 191, 189>>
    BY DEF AppendUtf8
  <2>2. AppendUtf8(Replacement) = ReplacementUtf8
    BY <2>1 DEF Replacement, ReplacementUtf8
  <2>. QED  BY Zenon, <1>2, <2>2 DEF Value, FixedPiece
<1>. QED  BY Zenon, <1>1, <1>2

\* append_utf16 writes code units, one or two.
LEMMA UnitsAreText ==
    ASSUME NEW cp, ScalarValue(cp)
    PROVE  AppendUtf16(cp) \in Seq(Nat) /\ Len(AppendUtf16(cp)) \in 1 .. 2
<1>1. cp \in Nat
  BY DEF ScalarValue
<1>2. CASE cp =< 65535
  BY <1>1, <1>2 DEF AppendUtf16
<1>3. CASE ~(cp =< 65535)
  <2>1. cp \div 1024 + 55232 \in Nat /\ 56320 + (cp % 1024) \in Nat
    BY <1>1
  <2>. QED  BY <1>3, <2>1 DEF AppendUtf16
<1>. QED  BY <1>2, <1>3

\* The code units of what starts at a position.
UnitsFrom(s, g) ==
    /\ g[Len(s) + 1] = <<>>
    /\ \A i \in 1 .. Len(s) + 1 : g[i] \in Seq(Nat)
    /\ \A i \in 1 .. Len(s) :
          g[i] = AppendUtf16(Value(ReadUtf8(s, i))) \o g[ReadUtf8(s, i).next]

LEMMA UnitsAre ==
    ASSUME NEW s \in String
    PROVE  \E g : UnitsFrom(s, g) /\ ConvertUtf8ToUtf16(s).units = g[1]
<1>. DEFINE n == Len(s)
            piece == [i \in 1 .. n |-> AppendUtf16(Value(ReadUtf8(s, i)))]
            next == [i \in 1 .. n |-> ReadUtf8(s, i).next]
            Equation(g) == g = [i \in 1 .. n + 1 |->
                IF i > n THEN <<>>
                ELSE AppendUtf16(Value(ReadUtf8(s, i))) \o g[ReadUtf8(s, i).next]]
            out == CHOOSE g : Equation(g)
<1>1. n \in Nat
  BY BytesAreNat
<1>2. ConvertUtf8ToUtf16(s).units = out[1]
  BY DEF ConvertUtf8ToUtf16
<1>3. ASSUME NEW i \in 1 .. n
      PROVE  piece[i] \in Seq(Nat) /\ next[i] \in i + 1 .. n + 1
  <2>1. AppendUtf16(Value(ReadUtf8(s, i))) \in Seq(Nat)
    BY Zenon, ValueIsScalar, UnitsAreText
  <2>2. ReadUtf8(s, i).next \in i + 1 .. n + 1
    BY Zenon, ReadEnds
  <2>. QED  BY <2>1, <2>2
<1>4. ASSUME NEW g
      PROVE  Equation(g) <=> Pieces(g, n, piece, next)
  <2>1. ASSUME NEW i \in 1 .. n + 1
        PROVE  (IF i > n THEN <<>> ELSE piece[i] \o g[next[i]])
                 = IF i > n THEN <<>>
                   ELSE AppendUtf16(Value(ReadUtf8(s, i))) \o g[ReadUtf8(s, i).next]
    <3>1. CASE i > n
      BY Zenon, <3>1
    <3>2. CASE ~(i > n)
      <4>1. i \in 1 .. n
        BY <1>1, <3>2
      <4>2. piece[i] = AppendUtf16(Value(ReadUtf8(s, i))) /\ next[i] = ReadUtf8(s, i).next
        BY <4>1
      <4>. HIDE DEF n, piece, next
      <4>. QED  BY Zenon, <3>2, <4>2
    <3>. QED  BY Zenon, <3>1, <3>2
  <2>. HIDE DEF n, piece, next
  <2>. QED  BY <2>1 DEF Pieces
<1>5. Pieces(out, n, piece, next)
  <2>1. \E g : Pieces(g, n, piece, next)
    <3>. HIDE DEF n, piece, next
    <3>. QED  BY <1>1, <1>3, PiecesExist
  <2>. HIDE DEF Equation, n, piece, next
  <2>. QED  BY <1>4, <2>1
<1>. HIDE DEF out
<1>6. /\ out[n + 1] = <<>>
      /\ \A i \in 1 .. n : out[i] = piece[i] \o out[next[i]]
      /\ \A i \in 1 .. n + 1 : out[i] \in Seq(Nat)
  <2>. HIDE DEF n, piece, next
  <2>. QED  BY <1>1, <1>3, <1>5, PiecesAre
<1>7. \A i \in 1 .. n : out[i] = AppendUtf16(Value(ReadUtf8(s, i))) \o out[ReadUtf8(s, i).next]
  BY <1>6
<1>. QED  BY <1>2, <1>6, <1>7 DEF UnitsFrom

\* Whether all is well formed from a position on.
WellFrom(s, g) ==
    /\ g[Len(s) + 1] = TRUE
    /\ \A i \in 1 .. Len(s) + 1 : g[i] \in BOOLEAN
    /\ \A i \in 1 .. Len(s) : g[i] <=> (ReadUtf8(s, i).ok /\ g[ReadUtf8(s, i).next])

LEMMA SuccessIs ==
    ASSUME NEW s \in String
    PROVE  \E g : WellFrom(s, g) /\ ConvertUtf8ToUtf16(s).success = g[1]
<1>. DEFINE n == Len(s)
            P == 1 .. n + 1
            Equation(g) == g = [i \in 1 .. n + 1 |->
                i > n \/ (ReadUtf8(s, i).ok /\ g[ReadUtf8(s, i).next])]
            out == CHOOSE g : Equation(g)
            known == {i \in P : i > n \/ ~ReadUtf8(s, i).ok}
            value == [i \in P |-> i > n]
            next == [i \in P |-> ReadUtf8(s, i).next]
            step == [i \in P |-> [v \in BOOLEAN |-> v]]
<1>1. n \in Nat /\ n + 1 \in Nat /\ n + 1 > n /\ n + 1 \in P
  BY BytesAreNat
<1>2. ConvertUtf8ToUtf16(s).success = out[1]
  BY DEF ConvertUtf8ToUtf16
<1>3. \A i \in P : ~(i > n) => i \in 1 .. n /\ ReadUtf8(s, i).next \in i + 1 .. n + 1
  <2>1. \A i \in P : ~(i > n) => i \in 1 .. n
    BY <1>1
  <2>. QED  BY Zenon, <2>1, ReadEnds
<1>4. \A i \in P : value[i] \in BOOLEAN
  OBVIOUS
<1>5. ASSUME NEW i \in P, i \notin known
      PROVE  next[i] \in i + 1 .. n + 1 /\ \A v \in BOOLEAN : step[i][v] \in BOOLEAN
  <2>1. next[i] \in i + 1 .. n + 1
    BY <1>3, <1>5
  <2>2. \A v \in BOOLEAN : step[i][v] = v
    OBVIOUS
  <2>. QED  BY <2>1, <2>2
<1>6. \E g : Equation(g)
  <2>1. PICK g : Descent(g, n + 1, known, value, next, step)
                   /\ \A i \in P : g[i] \in BOOLEAN
    <3>. HIDE DEF known, value, next, step
    <3>. QED  BY <1>1, <1>4, <1>5, DescentInto
  <2>2. ASSUME NEW i \in P
        PROVE  DescentAt(g, i, known, value, next, step)
                 = (i > n \/ (ReadUtf8(s, i).ok /\ g[ReadUtf8(s, i).next]))
    <3>1. CASE i \in known
      <4>1. value[i] = (i > n) /\ (i > n \/ ~ReadUtf8(s, i).ok)
        BY <3>1
      <4>. HIDE DEF known, value, next, step
      <4>. QED  BY <3>1, <4>1 DEF DescentAt
    <3>2. CASE i \notin known
      <4>1. ~(i > n) /\ ReadUtf8(s, i).ok /\ next[i] = ReadUtf8(s, i).next
        BY <3>2
      <4>2. next[i] \in P
        BY <1>5, <3>2
      <4>3. g[next[i]] \in BOOLEAN
        BY Zenon, <2>1, <4>2
      <4>4. step[i][g[next[i]]] = g[next[i]]
        BY <4>3
      <4>. HIDE DEF known, value, next, step
      <4>5. DescentAt(g, i, known, value, next, step) = g[next[i]]
        BY Zenon, <3>2, <4>4 DEF DescentAt
      <4>. QED  BY <4>1, <4>3, <4>5
    <3>. QED  BY <3>1, <3>2
  <2>3. g = [i \in 1 .. n + 1 |-> DescentAt(g, i, known, value, next, step)]
    BY <2>1 DEF Descent
  <2>. HIDE DEF known, value, next, step
  <2>. QED  BY <2>2, <2>3
<1>7. Equation(out)
  <2>. HIDE DEF Equation
  <2>. QED  BY Zenon, <1>6
<1>. HIDE DEF out
<1>8. \A i \in P : out[i] = (i > n \/ (ReadUtf8(s, i).ok /\ out[ReadUtf8(s, i).next]))
  BY <1>7
<1>9. \A i \in P : out[i] \in BOOLEAN
  BY <1>8
<1>10. out[n + 1] = TRUE
  BY <1>1, <1>8
<1>11. \A i \in 1 .. n : out[i] <=> (ReadUtf8(s, i).ok /\ out[ReadUtf8(s, i).next])
  <2>1. \A i \in 1 .. n : i \in P /\ ~(i > n)
    BY <1>1
  <2>. QED  BY <1>8, <2>1
<1>. QED  BY <1>2, <1>9, <1>10, <1>11 DEF WellFrom

\* What is ill formed is never the bytes that replace it: these are well
\* formed.
LEMMA IllFormedIsReplaced ==
    ASSUME NEW s \in String, NEW i \in 1 .. Len(s), NEW w \in Seq(Nat), ~ReadUtf8(s, i).ok
    PROVE  SubSeq(s, i, Len(s)) # ReplacementUtf8 \o w
<1>1. SUFFICES ASSUME SubSeq(s, i, Len(s)) = ReplacementUtf8 \o w
               PROVE  FALSE
  OBVIOUS
<1>2. s \in Seq(Nat) /\ Len(s) \in Nat /\ i \in Nat /\ i =< Len(s)
  BY BytesAreNat
<1>. DEFINE n == Len(s)
            tail == SubSeq(s, i, n)
<1>3. Len(tail) = n - i + 1 /\ \A j \in 1 .. n - i + 1 : tail[j] = s[i + j - 1]
  BY <1>2, SubSeqProperties
<1>4. /\ Len(ReplacementUtf8) = 3
      /\ ReplacementUtf8[1] = 239 /\ ReplacementUtf8[2] = 191 /\ ReplacementUtf8[3] = 189
  BY DEF ReplacementUtf8
<1>5. Len(w) \in Nat
  OBVIOUS
<1>6. /\ Len(tail) = 3 + Len(w)
      /\ \A j \in 1 .. 3 : tail[j] = ReplacementUtf8[j]
  <2>1. /\ Len(ReplacementUtf8 \o w) = Len(ReplacementUtf8) + Len(w)
        /\ \A j \in 1 .. Len(ReplacementUtf8) + Len(w) :
              (ReplacementUtf8 \o w)[j] = IF j <= Len(ReplacementUtf8) THEN ReplacementUtf8[j]
                                          ELSE w[j - Len(ReplacementUtf8)]
    BY ReplacementIsText, ConcatProperties
  <2>2. \A j \in 1 .. 3 : j \in 1 .. 3 + Len(w) /\ j <= 3
    BY <1>5
  <2>. HIDE DEF tail
  <2>3. tail = ReplacementUtf8 \o w
    BY <1>1 DEF tail
  <2>. QED  BY <1>4, <2>1, <2>2, <2>3
<1>7. i + 2 =< n
  BY <1>2, <1>3, <1>5, <1>6
<1>8. s[i] = 239 /\ s[i + 1] = 191 /\ s[i + 2] = 189
  <2>1. /\ 1 \in 1 .. n - i + 1 /\ 2 \in 1 .. n - i + 1 /\ 3 \in 1 .. n - i + 1
        /\ i + 1 - 1 = i /\ i + 2 - 1 = i + 1 /\ i + 3 - 1 = i + 2
    BY <1>2, <1>7
  <2>2. tail[1] = s[i] /\ tail[2] = s[i + 1] /\ tail[3] = s[i + 2]
    BY <1>3, <2>1
  <2>. QED  BY <1>4, <1>6, <2>2
<1>9. Trails(239) = 2 /\ 239 \in 0 .. 255 /\ 191 \in 0 .. 255 /\ 189 \in 0 .. 255
  BY TrailsOf
<1>10. FitsAt(s, i, 1) /\ FitsAt(s, i, 2)
  <2>1. ValidTrail(239, 1, 191)
    <3>1. 191 \in Second(239)
      BY DEF Second, Tail1, Continuation
    <3>2. Trails(239) > 0
      BY <1>9
    <3>. QED  BY <1>9, <3>1, <3>2, TrailIsSecond
  <2>2. ValidTrail(239, 2, 189)
    <3>1. 2 \in 1 .. 3 /\ 2 # 1 /\ 189 \in 128 .. 191
      OBVIOUS
    <3>. QED  BY <1>9, <3>1, OtherTrails
  <2>3. HasByte(s, i + 1) /\ HasByte(s, i + 2) /\ ByteAt(s, i + 1) = 191 /\ ByteAt(s, i + 2) = 189
    BY <1>2, <1>7, <1>8 DEF HasByte, ByteAt
  <2>. QED  BY <1>8, <2>1, <2>2, <2>3 DEF FitsAt
<1>11. Begins(s, i, 3) /\ IsCharacter(s, i, 3)
  <2>1. \A j \in 1 .. 3 - 1 : FitsAt(s, i, j)
    <3>1. \A j \in 1 .. 3 - 1 : j = 1 \/ j = 2
      OBVIOUS
    <3>. QED  BY <1>10, <3>1
  <2>2. 3 - 1 =< Trails(s[i]) /\ 3 - 1 = Trails(s[i]) /\ 3 \in 1 .. 4
    BY <1>8, <1>9
  <2>. QED  BY <2>1, <2>2, BeginsIsFits
<1>12. ~Begins(s, i, 4)
  <2>1. ~(4 - 1 =< Trails(s[i])) /\ 4 \in 1 .. 4
    BY <1>8, <1>9
  <2>. QED  BY <2>1, BeginsIsFits
<1>13. UnitLength(s, i) = 3
  <2>1. 3 \in 1 .. 4 /\ \A k \in 3 + 1 .. 4 : k = 4
    OBVIOUS
  <2>2. \A k \in 3 + 1 .. 4 : ~Begins(s, i, k)
    BY <1>12, <2>1
  <2>. QED  BY <1>11, <2>1, <2>2, UnitLengthIs
<1>14. ReadUtf8(s, i).ok = IsCharacter(s, i, 3)
  BY <1>13, ReadIsUnit
<1>. QED  BY <1>11, <1>14

\* The conversion succeeds when there is nothing to replace.
LEMMA SuccessIsFixed ==
    ASSUME NEW s \in String
    PROVE  ConvertUtf8ToUtf16(s).success = (Fixed(s) = s)
<1>1. PICK F : FixedFrom(s, F) /\ Fixed(s) = F[1]
  BY FixedIs
<1>2. PICK good : WellFrom(s, good) /\ ConvertUtf8ToUtf16(s).success = good[1]
  BY SuccessIs
<1>. DEFINE n == Len(s)
            N(i) == ReadUtf8(s, i).next
            ok(i) == ReadUtf8(s, i).ok
            Part(i, m) == SubSeq(s, i, m - 1)
            Rest(i) == SubSeq(s, i, n)
<1>3. s \in Seq(Nat) /\ n \in Nat /\ n + 1 \in 1 .. n + 1
  BY BytesAreNat
<1>4. \A i \in 1 .. n : N(i) \in i + 1 .. n + 1
  BY Zenon, ReadEnds
<1>5. /\ F[n + 1] = <<>>
      /\ \A i \in 1 .. n + 1 : F[i] \in Seq(Nat)
      /\ \A i \in 1 .. n : /\ ok(i) => F[i] = Part(i, N(i)) \o F[N(i)]
                           /\ ~ok(i) => F[i] = ReplacementUtf8 \o F[N(i)]
  BY <1>1 DEF FixedFrom, FixedPiece
<1>6. /\ good[n + 1] = TRUE
      /\ \A i \in 1 .. n + 1 : good[i] \in BOOLEAN
      /\ \A i \in 1 .. n : good[i] <=> (ok(i) /\ good[N(i)])
  BY Zenon, <1>2 DEF WellFrom
<1>7. \A i \in 1 .. n + 1 : \A m \in i .. n + 1 :
          /\ Part(i, m) \in Seq(Nat) /\ Rest(i) \in Seq(Nat)
          /\ Part(i, m) \o Rest(m) = Rest(i)
  <2>1. SUFFICES ASSUME NEW i \in 1 .. n + 1, NEW m \in i .. n + 1
                 PROVE  /\ Part(i, m) \in Seq(Nat) /\ Rest(i) \in Seq(Nat)
                        /\ Part(i, m) \o Rest(m) = Rest(i)
    OBVIOUS
  <2>2. n + 1 \in i .. n + 1 /\ n + 1 \in m .. n + 1 /\ (n + 1) - 1 = n
    BY <1>3
  <2>3. Part(i, m) \in Seq(Nat)
    BY Zenon, <1>3, PartIsText
  <2>4. SubSeq(s, i, (n + 1) - 1) \in Seq(Nat)
    BY Zenon, <1>3, <2>2, PartIsText
  <2>5. Part(i, m) \o SubSeq(s, m, (n + 1) - 1) = SubSeq(s, i, (n + 1) - 1)
    BY Zenon, <1>3, <2>2, PartsJoin
  <2>. QED  BY Zenon, <2>2, <2>3, <2>4, <2>5
<1>8. Rest(n + 1) = <<>>
  <2>1. n + 1 \in Int /\ n \in Int /\ n < n + 1
    BY <1>3
  <2>. QED  BY Zenon, <2>1, SubSeqEmpty
<1>9. Rest(1) = s
  BY Zenon, <1>3, SubSeqFull
<1>10. ASSUME NEW i \in 1 .. n, ~ok(i), NEW w \in Seq(Nat)
       PROVE  Rest(i) # ReplacementUtf8 \o w
  BY Zenon, <1>10, IllFormedIsReplaced
<1>. HIDE DEF n, N, ok, Part, Rest
<1>. DEFINE T == {i \in 1 .. n + 1 : good[i] <=> F[i] = Rest(i)}
<1>11. ASSUME NEW i \in 1 .. n + 1, \A j \in i + 1 .. n + 1 : j \in T
       PROVE  i \in T
  <2>1. CASE i = n + 1
    BY <1>5, <1>6, <1>8, <2>1
  <2>2. CASE i # n + 1 /\ ok(i)
    <3>1. i \in 1 .. n
      BY <1>3, <2>2
    <3>. DEFINE m == N(i)
    <3>2. m \in i + 1 .. n + 1
      BY <1>4, <3>1
    <3>3. m \in 1 .. n + 1 /\ m \in i .. n + 1
      BY <1>3, <3>1, <3>2
    <3>4. good[i] <=> good[m]
      BY Zenon, <1>6, <2>2, <3>1
    <3>5. good[m] <=> F[m] = Rest(m)
      BY <1>11, <3>2
    <3>6. F[i] = Part(i, m) \o F[m]
      BY Zenon, <1>5, <2>2, <3>1
    <3>. HIDE DEF m
    <3>7. Rest(i) = Part(i, m) \o Rest(m)
      BY Zenon, <1>7, <3>3
    <3>8. m \in m .. n + 1
      BY <1>3, <3>3
    <3>9. Part(i, m) \in Seq(Nat) /\ F[m] \in Seq(Nat) /\ Rest(m) \in Seq(Nat)
      BY Zenon, <1>5, <1>7, <3>3, <3>8
    <3>10. F[i] = Rest(i) <=> F[m] = Rest(m)
      <4>1. Part(i, m) \o F[m] = Part(i, m) \o Rest(m) => F[m] = Rest(m)
        BY <3>9, ConcatSimplifications
      <4>. QED  BY Zenon, <3>6, <3>7, <4>1
    <3>. QED  BY Zenon, <3>4, <3>5, <3>10
  <2>3. CASE i # n + 1 /\ ~ok(i)
    <3>1. i \in 1 .. n
      BY <1>3, <2>3
    <3>2. N(i) \in 1 .. n + 1
      BY <1>4, <3>1
    <3>3. F[i] = ReplacementUtf8 \o F[N(i)] /\ F[N(i)] \in Seq(Nat)
      BY Zenon, <1>5, <2>3, <3>1, <3>2
    <3>4. F[i] # Rest(i)
      BY Zenon, <1>10, <2>3, <3>1, <3>3
    <3>5. ~good[i]
      BY Zenon, <1>6, <2>3, <3>1
    <3>. QED  BY Zenon, <3>4, <3>5
  <2>. QED  BY Zenon, <2>1, <2>2, <2>3
<1>12. \A i \in 1 .. n + 1 : good[i] <=> F[i] = Rest(i)
  <2>1. n + 1 \in Nat
    BY <1>3
  <2>2. \A i \in 1 .. n + 1 : i \in T
    <3>. HIDE DEF T
    <3>. QED  BY <1>11, <2>1, FromTheEnd
  <2>. QED  BY <2>2
<1>13. 1 \in 1 .. n + 1
  BY <1>3
<1>14. good[1] \in BOOLEAN /\ (good[1] <=> F[1] = s)
  BY Zenon, <1>6, <1>9, <1>12, <1>13
<1>. QED  BY <1>1, <1>2, <1>14

-----------------------------------------------------------------------------
(* to_utf8_string of UTF-16.                                               *)

LEMMA WrittenIsText ==
    ASSUME NEW cp \in Nat
    PROVE  AppendUtf8(cp) \in Seq(Nat)
<1>1. ASSUME NEW shift \in {1, 64, 4096}
      PROVE  128 + ((cp \div shift) % 64) \in Nat
  <2>1. cp \div shift \in Nat
    BY <1>1
  <2>. QED  BY <2>1
<1>2. /\ 192 + cp \div 64 \in Nat /\ 224 + cp \div 4096 \in Nat /\ 240 + cp \div 262144 \in Nat
      /\ 128 + ((cp \div 1) % 64) \in Nat
      /\ 128 + ((cp \div 64) % 64) \in Nat
      /\ 128 + ((cp \div 4096) % 64) \in Nat
  BY <1>1
<1>3. CASE cp =< 127
  BY <1>3 DEF AppendUtf8
<1>4. CASE 127 < cp /\ cp =< 2047
  <2>1. AppendUtf8(cp) = <<192 + cp \div 64, 128 + ((cp \div 1) % 64)>>
    BY <1>4 DEF AppendUtf8
  <2>. QED  BY <1>2, <2>1
<1>5. CASE 2047 < cp /\ cp =< 65535
  <2>1. AppendUtf8(cp)
          = <<224 + cp \div 4096, 128 + ((cp \div 64) % 64), 128 + ((cp \div 1) % 64)>>
    BY <1>5 DEF AppendUtf8
  <2>. QED  BY <1>2, <2>1
<1>6. CASE 65535 < cp
  <2>1. AppendUtf8(cp)
          = <<240 + cp \div 262144, 128 + ((cp \div 4096) % 64),
              128 + ((cp \div 64) % 64), 128 + ((cp \div 1) % 64)>>
    BY <1>6 DEF AppendUtf8
  <2>. QED  BY <1>2, <2>1
<1>. QED  BY <1>3, <1>4, <1>5, <1>6

LEMMA ReadUnitsIs ==
    ASSUME NEW u \in Seq(Nat), NEW i \in 1 .. Len(u)
    PROVE  /\ ReadUtf16(u, i).next \in i + 1 .. Len(u) + 1
           /\ Value(ReadUtf16(u, i)) \in Nat
<1>1. Len(u) \in Nat /\ i \in Nat /\ u[i] \in Nat
  OBVIOUS
<1>2. CASE IsLead(u[i]) /\ i < Len(u) /\ IsTrail(u[i + 1])
  <2>1. i + 1 \in 1 .. Len(u)
    BY <1>1, <1>2
  <2>2. u[i + 1] \in Nat
    BY <2>1
  <2>3. Supplementary(u[i], u[i + 1]) \in Nat
    BY <1>1, <1>2, <2>2 DEF Supplementary, IsLead, IsTrail
  <2>4. ReadUtf16(u, i) = Read(TRUE, i + 2, Supplementary(u[i], u[i + 1]))
    BY Zenon, <1>2 DEF ReadUtf16
  <2>5. Value(ReadUtf16(u, i)) = Supplementary(u[i], u[i + 1]) /\ ReadUtf16(u, i).next = i + 2
    BY <2>4 DEF Read, Value
  <2>. QED  BY <1>1, <2>1, <2>3, <2>5
<1>3. CASE ~(IsLead(u[i]) /\ i < Len(u) /\ IsTrail(u[i + 1]))
  <2>1. ReadUtf16(u, i) = Read(~IsSurrogate(u[i]), i + 1, u[i])
    BY Zenon, <1>3 DEF ReadUtf16
  <2>2. Value(ReadUtf16(u, i)) \in {u[i], Replacement} /\ ReadUtf16(u, i).next = i + 1
    BY <2>1 DEF Read, Value
  <2>3. Replacement \in Nat
    BY DEF Replacement
  <2>. QED  BY <1>1, <2>2, <2>3
<1>. QED  BY <1>2, <1>3

\* The bytes of what starts at a position.
BytesFrom(u, g) ==
    /\ g[Len(u) + 1] = <<>>
    /\ \A i \in 1 .. Len(u) + 1 : g[i] \in Seq(Nat)
    /\ \A i \in 1 .. Len(u) :
          g[i] = AppendUtf8(Value(ReadUtf16(u, i))) \o g[ReadUtf16(u, i).next]

LEMMA BytesAre ==
    ASSUME NEW u \in Seq(Nat)
    PROVE  \E g : BytesFrom(u, g) /\ Utf16ToUtf8(u) = g[1]
<1>. DEFINE n == Len(u)
            piece == [i \in 1 .. n |-> AppendUtf8(Value(ReadUtf16(u, i)))]
            next == [i \in 1 .. n |-> ReadUtf16(u, i).next]
            Equation(g) == g = [i \in 1 .. n + 1 |->
                IF i > n THEN <<>>
                ELSE AppendUtf8(Value(ReadUtf16(u, i))) \o g[ReadUtf16(u, i).next]]
            out == CHOOSE g : Equation(g)
<1>1. n \in Nat
  OBVIOUS
<1>2. Utf16ToUtf8(u) = out[1]
  BY DEF Utf16ToUtf8
<1>3. ASSUME NEW i \in 1 .. n
      PROVE  piece[i] \in Seq(Nat) /\ next[i] \in i + 1 .. n + 1
  <2>1. AppendUtf8(Value(ReadUtf16(u, i))) \in Seq(Nat)
    BY Zenon, ReadUnitsIs, WrittenIsText
  <2>2. ReadUtf16(u, i).next \in i + 1 .. n + 1
    BY Zenon, ReadUnitsIs
  <2>. QED  BY <2>1, <2>2
<1>4. ASSUME NEW g
      PROVE  Equation(g) <=> Pieces(g, n, piece, next)
  <2>1. ASSUME NEW i \in 1 .. n + 1
        PROVE  (IF i > n THEN <<>> ELSE piece[i] \o g[next[i]])
                 = IF i > n THEN <<>>
                   ELSE AppendUtf8(Value(ReadUtf16(u, i))) \o g[ReadUtf16(u, i).next]
    <3>1. CASE i > n
      BY Zenon, <3>1
    <3>2. CASE ~(i > n)
      <4>1. i \in 1 .. n
        BY <1>1, <3>2
      <4>2. piece[i] = AppendUtf8(Value(ReadUtf16(u, i))) /\ next[i] = ReadUtf16(u, i).next
        BY <4>1
      <4>. HIDE DEF n, piece, next
      <4>. QED  BY Zenon, <3>2, <4>2
    <3>. QED  BY Zenon, <3>1, <3>2
  <2>. HIDE DEF n, piece, next
  <2>. QED  BY <2>1 DEF Pieces
<1>5. Pieces(out, n, piece, next)
  <2>1. \E g : Pieces(g, n, piece, next)
    <3>. HIDE DEF n, piece, next
    <3>. QED  BY <1>1, <1>3, PiecesExist
  <2>. HIDE DEF Equation, n, piece, next
  <2>. QED  BY <1>4, <2>1
<1>. HIDE DEF out
<1>6. /\ out[n + 1] = <<>>
      /\ \A i \in 1 .. n : out[i] = piece[i] \o out[next[i]]
      /\ \A i \in 1 .. n + 1 : out[i] \in Seq(Nat)
  <2>. HIDE DEF n, piece, next
  <2>. QED  BY <1>1, <1>3, <1>5, PiecesAre
<1>7. \A i \in 1 .. n : out[i] = AppendUtf8(Value(ReadUtf16(u, i))) \o out[ReadUtf16(u, i).next]
  BY <1>6
<1>. QED  BY <1>2, <1>6, <1>7 DEF BytesFrom

\* The code units of a code point are read as that code point, whatever
\* follows them.
LEMMA FrontIsRead ==
    ASSUME NEW cp, ScalarValue(cp), NEW w \in Seq(Nat)
    PROVE  LET r == ReadUtf16(AppendUtf16(cp) \o w, 1)
           IN r.next = Len(AppendUtf16(cp)) + 1 /\ Value(r) = cp
<1>. DEFINE a == AppendUtf16(cp)
            u == a \o w
<1>1. cp \in Nat /\ cp =< 1114111 /\ ~IsSurrogate(cp)
  BY DEF ScalarValue
<1>2. a \in Seq(Nat) /\ Len(w) \in Nat
  BY UnitsAreText
<1>3. Len(u) = Len(a) + Len(w) /\ \A i \in 1 .. Len(a) + Len(w) : i =< Len(a) => u[i] = a[i]
  <2>. HIDE DEF a
  <2>. QED  BY <1>2, ConcatProperties
<1>4. CASE cp =< 65535
  <2>1. a = <<cp>>
    BY <1>4 DEF AppendUtf16
  <2>2. Len(a) = 1 /\ a[1] = cp
    BY <2>1
  <2>3. u[1] = cp
    <3>1. 1 \in 1 .. Len(a) + Len(w) /\ 1 =< Len(a)
      BY <1>2, <2>2
    <3>. QED  BY <1>3, <2>2, <3>1
  <2>. HIDE DEF u, a
  <2>4. ~IsLead(u[1]) /\ ~IsSurrogate(u[1])
    BY <1>1, <2>3 DEF IsSurrogate
  <2>5. ReadUtf16(u, 1) = Read(~IsSurrogate(u[1]), 1 + 1, u[1])
    BY Zenon, <2>4 DEF ReadUtf16
  <2>a. (~IsSurrogate(u[1])) = TRUE /\ 1 + 1 = 2
    BY <2>4
  <2>b. ReadUtf16(u, 1) = Read(TRUE, 2, cp)
    BY Zenon, <2>3, <2>5, <2>a
  <2>6. ReadUtf16(u, 1).next = 2 /\ Value(ReadUtf16(u, 1)) = cp
    BY <2>b DEF Read, Value
  <2>7. ReadUtf16(u, 1).next = Len(a) + 1
    BY <2>2, <2>6
  <2>. QED  BY <2>6, <2>7 DEF u, a
<1>5. CASE ~(cp =< 65535)
  <2>. DEFINE lead == cp \div 1024 + 55232
              trail == 56320 + (cp % 1024)
  <2>1. a = <<lead, trail>>
    BY <1>5 DEF AppendUtf16
  <2>2. Len(a) = 2 /\ a[1] = lead /\ a[2] = trail
    BY <2>1
  <2>3. IsLead(lead) /\ IsTrail(trail)
    BY <1>1, <1>5 DEF IsLead, IsTrail
  <2>4. Supplementary(lead, trail) = cp
    BY <1>1, <1>5 DEF Supplementary
  <2>. HIDE DEF lead, trail
  <2>5. u[1] = lead /\ u[2] = trail /\ 1 < Len(u)
    <3>1. /\ 1 \in 1 .. Len(a) + Len(w) /\ 1 =< Len(a)
          /\ 2 \in 1 .. Len(a) + Len(w) /\ 2 =< Len(a) /\ 1 < Len(a) + Len(w)
      BY <1>2, <2>2
    <3>. QED  BY <1>3, <2>2, <3>1
  <2>. HIDE DEF u, a
  <2>6. 1 + 1 = 2 /\ 1 + 2 = 3
    OBVIOUS
  <2>7. ReadUtf16(u, 1) = Read(TRUE, 1 + 2, Supplementary(u[1], u[1 + 1]))
    BY Zenon, <2>3, <2>5, <2>6 DEF ReadUtf16
  <2>8. ReadUtf16(u, 1) = Read(TRUE, 3, cp)
    BY Zenon, <2>4, <2>5, <2>6, <2>7
  <2>9. ReadUtf16(u, 1).next = 3 /\ Value(ReadUtf16(u, 1)) = cp
    BY <2>8 DEF Read, Value
  <2>10. ReadUtf16(u, 1).next = Len(a) + 1
    BY <2>2, <2>9
  <2>. QED  BY <2>9, <2>10 DEF u, a
<1>. QED  BY <1>4, <1>5

\* A read looks forward only.
LEMMA ReadIsShifted ==
    ASSUME NEW a \in Seq(Nat), NEW w \in Seq(Nat), NEW i \in 1 .. Len(w)
    PROVE  /\ Value(ReadUtf16(a \o w, Len(a) + i)) = Value(ReadUtf16(w, i))
           /\ ReadUtf16(a \o w, Len(a) + i).next = Len(a) + ReadUtf16(w, i).next
<1>. DEFINE u == a \o w
            m == Len(a)
            k == m + i
<1>1. m \in Nat /\ Len(w) \in Nat /\ i \in Nat /\ k \in Nat
  OBVIOUS
<1>2. /\ Len(u) = m + Len(w)
      /\ \A j \in 1 .. m + Len(w) : u[j] = IF j <= m THEN a[j] ELSE w[j - m]
  BY ConcatProperties
<1>3. u[k] = w[i]
  <2>1. k \in 1 .. m + Len(w) /\ ~(k <= m) /\ k - m = i
    BY <1>1
  <2>. QED  BY <1>2, <2>1
<1>4. k < Len(u) <=> i < Len(w)
  BY <1>1, <1>2
<1>5. i < Len(w) => u[k + 1] = w[i + 1]
  <2>1. i < Len(w) => k + 1 \in 1 .. m + Len(w) /\ ~(k + 1 <= m) /\ (k + 1) - m = i + 1
    BY <1>1
  <2>. QED  BY <1>2, <2>1
<1>6. k + 1 = m + (i + 1) /\ k + 2 = m + (i + 2)
  BY <1>1
<1>. HIDE DEF u, m, k
<1>7. CASE IsLead(w[i]) /\ i < Len(w) /\ IsTrail(w[i + 1])
  <2>1. ReadUtf16(w, i) = Read(TRUE, i + 2, Supplementary(w[i], w[i + 1]))
    BY Zenon, <1>7 DEF ReadUtf16
  <2>2. ReadUtf16(u, k) = Read(TRUE, k + 2, Supplementary(u[k], u[k + 1]))
    BY Zenon, <1>3, <1>4, <1>5, <1>7 DEF ReadUtf16
  <2>. DEFINE v == Supplementary(w[i], w[i + 1])
  <2>3. Supplementary(u[k], u[k + 1]) = v
    BY Zenon, <1>3, <1>5, <1>7
  <2>. HIDE DEF v
  <2>4. ReadUtf16(w, i) = Read(TRUE, i + 2, v)
    BY Zenon, <2>1 DEF v
  <2>5. ReadUtf16(u, k) = Read(TRUE, k + 2, v)
    BY Zenon, <2>2, <2>3
  <2>6. /\ Value(ReadUtf16(w, i)) = v /\ ReadUtf16(w, i).next = i + 2
        /\ Value(ReadUtf16(u, k)) = v /\ ReadUtf16(u, k).next = k + 2
    BY <2>4, <2>5 DEF Read, Value
  <2>. QED  BY Zenon, <1>6, <2>6 DEF u, k, m
<1>8. CASE ~(IsLead(w[i]) /\ i < Len(w) /\ IsTrail(w[i + 1]))
  <2>. DEFINE v == w[i]
              well == ~IsSurrogate(v)
  <2>1. ReadUtf16(w, i) = Read(well, i + 1, v)
    BY Zenon, <1>8 DEF ReadUtf16
  <2>2. ReadUtf16(u, k) = Read(~IsSurrogate(u[k]), k + 1, u[k])
    BY Zenon, <1>3, <1>4, <1>5, <1>8 DEF ReadUtf16
  <2>3. ReadUtf16(u, k) = Read(well, k + 1, v)
    BY <1>3, <2>2
  <2>. HIDE DEF well, v
  <2>4. /\ Value(ReadUtf16(w, i)) = Value(ReadUtf16(u, k))
        /\ ReadUtf16(w, i).next = i + 1 /\ ReadUtf16(u, k).next = k + 1
    BY <2>1, <2>3 DEF Read, Value
  <2>. QED  BY Zenon, <1>6, <2>4 DEF u, k, m
<1>. QED  BY Zenon, <1>7, <1>8

\* What is written for the code units of a code point are its bytes.
LEMMA FrontIsWritten ==
    ASSUME NEW cp, ScalarValue(cp), NEW w \in Seq(Nat)
    PROVE  Utf16ToUtf8(AppendUtf16(cp) \o w) = AppendUtf8(cp) \o Utf16ToUtf8(w)
<1>. DEFINE a == AppendUtf16(cp)
            u == a \o w
            m == Len(a)
            n == Len(w)
<1>1. a \in Seq(Nat) /\ m \in 1 .. 2 /\ n \in Nat
  BY UnitsAreText
<1>2. u \in Seq(Nat) /\ Len(u) = m + n
  <2>. HIDE DEF a
  <2>. QED  BY <1>1, ConcatProperties
<1>3. ReadUtf16(u, 1).next = m + 1 /\ Value(ReadUtf16(u, 1)) = cp
  BY FrontIsRead
<1>4. ASSUME NEW i \in 1 .. n
      PROVE  /\ Value(ReadUtf16(u, m + i)) = Value(ReadUtf16(w, i))
             /\ ReadUtf16(u, m + i).next = m + ReadUtf16(w, i).next
  <2>. HIDE DEF a
  <2>. QED  BY Zenon, <1>1, ReadIsShifted
<1>5. ASSUME NEW i \in 1 .. n
      PROVE  ReadUtf16(w, i).next \in i + 1 .. n + 1
  BY Zenon, ReadUnitsIs
<1>. HIDE DEF u
<1>6. PICK f : BytesFrom(u, f) /\ Utf16ToUtf8(u) = f[1]
  BY Zenon, <1>2, BytesAre
<1>7. PICK g : BytesFrom(w, g) /\ Utf16ToUtf8(w) = g[1]
  BY Zenon, BytesAre
<1>. HIDE DEF a, m
<1>8. /\ f[m + n + 1] = <<>>
      /\ \A i \in 1 .. m + n : f[i] = AppendUtf8(Value(ReadUtf16(u, i))) \o f[ReadUtf16(u, i).next]
  <2>1. Len(u) + 1 = m + n + 1
    BY <1>2
  <2>. QED  BY Zenon, <1>2, <1>6, <2>1 DEF BytesFrom
<1>9. /\ g[n + 1] = <<>>
      /\ \A i \in 1 .. n : g[i] = AppendUtf8(Value(ReadUtf16(w, i))) \o g[ReadUtf16(w, i).next]
  BY Zenon, <1>7 DEF BytesFrom
<1>. HIDE DEF n
<1>. DEFINE T == {i \in 1 .. n + 1 : f[m + i] = g[i]}
<1>10. ASSUME NEW i \in 1 .. n + 1, \A j \in i + 1 .. n + 1 : j \in T
       PROVE  i \in T
  <2>1. CASE i = n + 1
    <3>1. m + i = m + n + 1
      BY <1>1, <2>1
    <3>. QED  BY <1>8, <1>9, <2>1, <3>1
  <2>2. CASE i # n + 1
    <3>1. i \in 1 .. n /\ m + i \in 1 .. m + n
      BY <1>1, <2>2
    <3>. DEFINE next == ReadUtf16(w, i).next
                piece == AppendUtf8(Value(ReadUtf16(w, i)))
    <3>2. next \in i + 1 .. n + 1
      BY Zenon, <1>5, <3>1
    <3>3. g[i] = piece \o g[next]
      BY Zenon, <1>9, <3>1
    <3>4. f[m + i] = piece \o f[m + next]
      BY Zenon, <1>4, <1>8, <3>1
    <3>. HIDE DEF next, piece
    <3>5. f[m + next] = g[next]
      BY <1>10, <3>2
    <3>6. f[m + i] = g[i]
      BY Zenon, <3>3, <3>4, <3>5
    <3>. QED  BY <3>6
  <2>. QED  BY <2>1, <2>2
<1>11. f[m + 1] = g[1]
  <2>1. n + 1 \in Nat /\ 1 \in 1 .. n + 1
    BY <1>1
  <2>2. \A i \in 1 .. n + 1 : i \in T
    <3>. HIDE DEF T
    <3>. QED  BY <1>10, <2>1, FromTheEnd
  <2>. QED  BY <2>1, <2>2
<1>12. f[1] = AppendUtf8(cp) \o f[m + 1]
  <2>1. 1 \in 1 .. m + n
    BY <1>1
  <2>. QED  BY Zenon, <1>3, <1>8, <2>1
<1>13. Utf16ToUtf8(u) = AppendUtf8(cp) \o Utf16ToUtf8(w)
  BY Zenon, <1>6, <1>7, <1>11, <1>12
<1>. QED  BY <1>13 DEF u, a

\* Converted to UTF-16 and back, a string is what the standard's decoder
\* makes of it.
LEMMA BackIsFixed ==
    ASSUME NEW s \in String
    PROVE  Utf16ToUtf8(ConvertUtf8ToUtf16(s).units) = Fixed(s)
<1>1. PICK F : FixedFrom(s, F) /\ Fixed(s) = F[1]
  BY FixedIs
<1>2. PICK units : UnitsFrom(s, units) /\ ConvertUtf8ToUtf16(s).units = units[1]
  BY UnitsAre
<1>. DEFINE n == Len(s)
            next(i) == ReadUtf8(s, i).next
            cp(i) == Value(ReadUtf8(s, i))
<1>3. n \in Nat
  BY BytesAreNat
<1>4. /\ F[n + 1] = <<>>
      /\ \A i \in 1 .. n : F[i] = AppendUtf8(cp(i)) \o F[next(i)]
  <2>1. \A i \in 1 .. n : AppendUtf8(cp(i)) = FixedPiece(s, i)
    BY Zenon, PieceIsWritten
  <2>2. /\ F[n + 1] = <<>>
        /\ \A i \in 1 .. n : F[i] = FixedPiece(s, i) \o F[next(i)]
    BY Zenon, <1>1 DEF FixedFrom
  <2>. HIDE DEF n, next, cp
  <2>. QED  BY Zenon, <2>1, <2>2
<1>5. /\ units[n + 1] = <<>>
      /\ \A i \in 1 .. n + 1 : units[i] \in Seq(Nat)
      /\ \A i \in 1 .. n : units[i] = AppendUtf16(cp(i)) \o units[next(i)]
  BY Zenon, <1>2 DEF UnitsFrom
<1>6. \A i \in 1 .. n : next(i) \in i + 1 .. n + 1 /\ ScalarValue(cp(i))
  BY Zenon, ReadEnds, ValueIsScalar
<1>7. Utf16ToUtf8(<<>>) = <<>>
  <2>1. <<>> \in Seq(Nat) /\ Len(<<>>) + 1 = 1
    OBVIOUS
  <2>2. PICK g : BytesFrom(<<>>, g) /\ Utf16ToUtf8(<<>>) = g[1]
    BY Zenon, <2>1, BytesAre
  <2>. QED  BY Zenon, <2>1, <2>2 DEF BytesFrom
<1>. HIDE DEF n, next, cp
<1>. DEFINE T == {i \in 1 .. n + 1 : Utf16ToUtf8(units[i]) = F[i]}
<1>8. ASSUME NEW i \in 1 .. n + 1, \A j \in i + 1 .. n + 1 : j \in T
      PROVE  i \in T
  <2>1. CASE i = n + 1
    <3>1. Utf16ToUtf8(units[i]) = F[i]
      BY Zenon, <1>4, <1>5, <1>7, <2>1
    <3>. QED  BY <3>1
  <2>2. CASE i # n + 1
    <3>1. i \in 1 .. n
      BY <1>3, <2>2
    <3>2. next(i) \in i + 1 .. n + 1 /\ next(i) \in 1 .. n + 1
      <4>1. next(i) \in i + 1 .. n + 1
        BY Zenon, <1>6, <3>1
      <4>. QED  BY <3>1, <4>1
    <3>3. Utf16ToUtf8(units[next(i)]) = F[next(i)]
      BY <1>8, <3>2
    <3>4. units[next(i)] \in Seq(Nat) /\ ScalarValue(cp(i))
      BY Zenon, <1>5, <1>6, <3>1, <3>2
    <3>5. Utf16ToUtf8(AppendUtf16(cp(i)) \o units[next(i)])
            = AppendUtf8(cp(i)) \o Utf16ToUtf8(units[next(i)])
      BY Zenon, <3>4, FrontIsWritten
    <3>6. Utf16ToUtf8(units[i]) = F[i]
      BY Zenon, <1>4, <1>5, <3>1, <3>3, <3>5
    <3>. QED  BY <3>6
  <2>. QED  BY <2>1, <2>2
<1>9. \A i \in 1 .. n + 1 : Utf16ToUtf8(units[i]) = F[i]
  <2>1. n + 1 \in Nat
    BY <1>3
  <2>2. \A i \in 1 .. n + 1 : i \in T
    <3>. HIDE DEF T
    <3>. QED  BY <1>8, <2>1, FromTheEnd
  <2>. QED  BY <2>2
<1>10. 1 \in 1 .. n + 1
  BY <1>3
<1>. QED  BY Zenon, <1>1, <1>2, <1>9, <1>10

-----------------------------------------------------------------------------
(* The inputs that are reached.                                            *)

\* An input is a string of the units of its kind.
TypeOK == kind \in Kind /\ input \in Seq(UnitsOf(kind))

\* Chunks are put together to bytes, or to UTF-16 code units, so that each
\* conversion is given what its parameter type holds.
THEOREM InputsAreTyped == CodecSpec => []TypeOK
<1>1. CodecInit => TypeOK
  BY CodecAssumption DEF CodecInit, TypeOK
<1>2. TypeOK /\ [Grow]_vars => TypeOK'
  <2>1. SUFFICES ASSUME TypeOK, [Grow]_vars
                 PROVE  TypeOK'
    OBVIOUS
  <2>2. CASE Grow
    <3>1. PICK chunk \in Chunks[kind] : input' = input \o chunk
      BY <2>2 DEF Grow
    <3>2. chunk \in Seq(UnitsOf(kind))
      BY <2>1, CodecAssumption DEF TypeOK
    <3>3. input \o chunk \in Seq(UnitsOf(kind))
      BY <2>1, <3>2 DEF TypeOK
    <3>. QED  BY <2>1, <2>2, <3>1, <3>3 DEF TypeOK, Grow
  <2>3. CASE UNCHANGED vars
    BY <2>1, <2>3 DEF TypeOK, vars
  <2>. QED  BY <2>1, <2>2, <2>3
<1>. QED  BY <1>1, <1>2, PTL DEF CodecSpec

\* For every string of bytes: the bit tables and the chain of conditions of
\* read_code_point accept what the Unicode table accepts, end what is broken
\* or cut off where the standard ends it, read nothing past the end, and a
\* code point is written as the bytes that it was read from.
THEOREM DecodingIsUnicode == CodecSpec => []DecodesAsUnicode
<1>1. TypeOK => DecodesAsUnicode
  <2>1. SUFFICES ASSUME TypeOK, kind = "utf8", input # <<>>
                 PROVE  LET r == ReadUtf8(input, 1)
                            k == UnitLength(input, 1)
                        IN /\ r.next = 1 + k
                           /\ r.next =< Len(input) + 1
                           /\ r.ok = IsCharacter(input, 1, k)
                           /\ r.ok => AppendUtf8(r.cp) = SubSeq(input, 1, k)
    BY DEF DecodesAsUnicode
  <2>2. input \in String
    BY <2>1 DEF TypeOK, UnitsOf, String
  <2>3. 1 \in 1 .. Len(input)
    BY <2>1, <2>2 DEF String
  <2>4. /\ UnitLength(input, 1) \in 1 .. 4
        /\ 1 + UnitLength(input, 1) =< Len(input) + 1
        /\ ReadUtf8(input, 1).next = 1 + UnitLength(input, 1)
        /\ ReadUtf8(input, 1).ok = IsCharacter(input, 1, UnitLength(input, 1))
    BY <2>2, <2>3, ReadIsUnit
  <2>5. ReadUtf8(input, 1).ok =>
            AppendUtf8(ReadUtf8(input, 1).cp) = SubSeq(input, 1, 1 + UnitLength(input, 1) - 1)
    BY <2>2, <2>3, ReadIsWritten
  <2>6. 1 + UnitLength(input, 1) - 1 = UnitLength(input, 1)
    BY <2>4
  <2>. QED  BY <2>4, <2>5, <2>6
<1>. QED  BY <1>1, InputsAreTyped, PTL

\* For every string of bytes: check_fix_utf8, the conversion to UTF-16 and
\* back, and the standard's decoder replace the same bytes by the same
\* character, wherever they stand, and the conversion succeeds when nothing
\* had to be replaced.
THEOREM ConversionsAgreeAlways == CodecSpec => []ConversionsAgree
<1>1. TypeOK => ConversionsAgree
  <2>1. SUFFICES ASSUME TypeOK, kind = "utf8"
                 PROVE  /\ CheckFixUtf8(input) = Fixed(input)
                        /\ Utf16ToUtf8(ConvertUtf8ToUtf16(input).units) = Fixed(input)
                        /\ ConvertUtf8ToUtf16(input).success = (Fixed(input) = input)
    BY DEF ConversionsAgree
  <2>2. input \in String
    BY <2>1 DEF TypeOK, UnitsOf, String
  <2>. QED  BY Zenon, <2>2, CheckFixIsFixed, BackIsFixed, SuccessIsFixed
<1>. QED  BY <1>1, InputsAreTyped, PTL
=============================================================================

----------------------------- MODULE ULIDProofs -----------------------------
(***************************************************************************)
(* Proofs about ULID, for every time of 48 bits and all random bytes.      *)
(***************************************************************************)
EXTENDS ULID, SequenceTheorems, WellFoundedInduction, TLAPS

\* The text is that of the last time and random bytes.
Encoded == draw \in Instants /\ ulid = EncodeULID(draw.ms, draw.random)

FiveBytes == [1..5 -> SUBSET ByteBits]
FirstFive(random) == [i \in 1..5 |-> random[i]]
LastFive(random) == [i \in 1..5 |-> random[i + 5]]

----------------------------------------------------------------------------
(* The characters, bit by bit *)

\* A bit of a character of the time is a bit of the time.
LEMMA TimeChar ==
    ASSUME NEW ms \in Milliseconds, NEW i \in 1..10, NEW b \in Int
    PROVE  b \in EncodeTime(ms)[i] <=> b \in CharBits /\ b + (50 - 5 * i) \in ms
<1>1. EncodeTime(ms)[i] = Char(Shr(ms, 50 - 5 * i))
    BY DEF EncodeTime
<1>2. 50 - 5 * i \in Int /\ ms \subseteq Int
    BY DEF Milliseconds, TimeBits
<1>3. ASSUME NEW n \in Int
      PROVE  b \in Char(Shr(ms, n)) <=> b \in CharBits /\ b + n \in ms
    <2>1. b \in Shr(ms, n) <=> b + n \in ms /\ b + n >= n
        BY <1>2 DEF Shr
    <2> QED
        BY <2>1 DEF Char, CharBits
<1> QED
    BY <1>1, <1>2, <1>3

\* A shift moves the bits of a byte.
LEMMA ByteShift ==
    ASSUME NEW x \in SUBSET ByteBits, NEW n \in 0..7, NEW b \in CharBits
    PROVE  /\ b \in Shr(x, n) <=> b + n \in x
           /\ b \in Shl(x, n) <=> b - n \in x
<1>1. x \subseteq Int /\ b \in Int /\ b >= 0 /\ b \in ByteBits
    BY DEF ByteBits, CharBits
<1>2. b \in Shr(x, n) <=> b + n \in x
    BY <1>1 DEF Shr
<1>3. b \in Shl(x, n) <=> b - n \in x
    BY <1>1 DEF Shl
<1> QED
    BY <1>2, <1>3

\* The bits of the eight characters of five bytes.
LEMMA RandomChars ==
    ASSUME NEW r \in FiveBytes, NEW b \in CharBits
    PROVE  LET e == EncodeRandom(r)
           IN  /\ b \in e[1] <=> b + 3 \in r[1]
               /\ b \in e[2] <=> b - 2 \in r[1] \/ b + 6 \in r[2]
               /\ b \in e[3] <=> b + 1 \in r[2]
               /\ b \in e[4] <=> b - 4 \in r[2] \/ b + 4 \in r[3]
               /\ b \in e[5] <=> b - 1 \in r[3] \/ b + 7 \in r[4]
               /\ b \in e[6] <=> b + 2 \in r[4]
               /\ b \in e[7] <=> b - 3 \in r[4] \/ b + 5 \in r[5]
               /\ b \in e[8] <=> b \in r[5]
<1>1. /\ r[1] \in SUBSET ByteBits /\ r[2] \in SUBSET ByteBits /\ r[3] \in SUBSET ByteBits
      /\ r[4] \in SUBSET ByteBits /\ r[5] \in SUBSET ByteBits
    BY DEF FiveBytes
<1>2. /\ b \in Shr(r[1], 3) <=> b + 3 \in r[1]
      /\ b \in Shl(r[1], 2) <=> b - 2 \in r[1]
      /\ b \in Shr(r[2], 6) <=> b + 6 \in r[2]
      /\ b \in Shr(r[2], 1) <=> b + 1 \in r[2]
    BY <1>1, ByteShift
<1>3. /\ b \in Shl(r[2], 4) <=> b - 4 \in r[2]
      /\ b \in Shr(r[3], 4) <=> b + 4 \in r[3]
      /\ b \in Shl(r[3], 1) <=> b - 1 \in r[3]
      /\ b \in Shr(r[4], 7) <=> b + 7 \in r[4]
    BY <1>1, ByteShift
<1>4. /\ b \in Shr(r[4], 2) <=> b + 2 \in r[4]
      /\ b \in Shl(r[4], 3) <=> b - 3 \in r[4]
      /\ b \in Shr(r[5], 5) <=> b + 5 \in r[5]
    BY <1>1, ByteShift
<1>5. \A x, y : b \in Char(x \cup y) <=> b \in x \/ b \in y
    BY DEF Char
<1>6. \A x : b \in Char(x) <=> b \in x
    BY DEF Char
<1> DEFINE e == EncodeRandom(r)
<1>7. /\ e[1] = Char(Shr(r[1], 3))
      /\ e[2] = Char(Shl(r[1], 2) \cup Shr(r[2], 6))
      /\ e[3] = Char(Shr(r[2], 1))
      /\ e[4] = Char(Shl(r[2], 4) \cup Shr(r[3], 4))
    BY DEF EncodeRandom
<1>8. /\ e[5] = Char(Shl(r[3], 1) \cup Shr(r[4], 7))
      /\ e[6] = Char(Shr(r[4], 2))
      /\ e[7] = Char(Shl(r[4], 3) \cup Shr(r[5], 5))
      /\ e[8] = Char(r[5])
    BY DEF EncodeRandom
<1> HIDE DEF e
<1>9. /\ b \in e[1] <=> b + 3 \in r[1]
      /\ b \in e[2] <=> b - 2 \in r[1] \/ b + 6 \in r[2]
      /\ b \in e[3] <=> b + 1 \in r[2]
      /\ b \in e[4] <=> b - 4 \in r[2] \/ b + 4 \in r[3]
    BY <1>2, <1>3, <1>5, <1>6, <1>7
<1>10. /\ b \in e[5] <=> b - 1 \in r[3] \/ b + 7 \in r[4]
       /\ b \in e[6] <=> b + 2 \in r[4]
       /\ b \in e[7] <=> b - 3 \in r[4] \/ b + 5 \in r[5]
       /\ b \in e[8] <=> b \in r[5]
    BY <1>3, <1>4, <1>5, <1>6, <1>8
<1> QED
    BY <1>9, <1>10 DEF e

\* Every character has five bits.
LEMMA CharTypes ==
    /\ \A ms : EncodeTime(ms) \in Seq(SUBSET CharBits) /\ Len(EncodeTime(ms)) = 10
    /\ \A r : EncodeRandom(r) \in Seq(SUBSET CharBits) /\ Len(EncodeRandom(r)) = 8
<1>1. \A x : Char(x) \in SUBSET CharBits
    BY DEF Char
<1>2. ASSUME NEW ms
      PROVE  EncodeTime(ms) \in Seq(SUBSET CharBits) /\ Len(EncodeTime(ms)) = 10
    <2>1. EncodeTime(ms) \in [1..10 -> SUBSET CharBits]
        BY <1>1 DEF EncodeTime
    <2>2. EncodeTime(ms) \in Seq(SUBSET CharBits)
        BY <2>1, SeqDef
    <2>3. DOMAIN EncodeTime(ms) = 1..10
        BY <2>1
    <2>4. Len(EncodeTime(ms)) \in Nat /\ 1..Len(EncodeTime(ms)) = 1..10
        BY <2>2, <2>3, LenProperties
    <2>5. \A n \in Nat : 1..n = 1..10 => n = 10
        OBVIOUS
    <2> QED
        BY <2>2, <2>4, <2>5
<1>3. ASSUME NEW r
      PROVE  EncodeRandom(r) \in Seq(SUBSET CharBits) /\ Len(EncodeRandom(r)) = 8
    BY <1>1 DEF EncodeRandom
<1> QED
    BY <1>2, <1>3

\* The places of two joined sequences.
LEMMA Joined ==
    ASSUME NEW S, NEW s \in Seq(S), NEW t \in Seq(S)
    PROVE  /\ s \o t \in Seq(S)
           /\ Len(s \o t) = Len(s) + Len(t)
           /\ \A i \in 1..Len(s) : (s \o t)[i] = s[i]
           /\ \A i \in (Len(s) + 1)..(Len(s) + Len(t)) : (s \o t)[i] = t[i - Len(s)]
<1>1. Len(s) \in Nat /\ Len(t) \in Nat
    OBVIOUS
<1>2. s \o t \in Seq(S) /\ Len(s \o t) = Len(s) + Len(t)
    BY ConcatProperties
<1>3. \A i \in 1..(Len(s) + Len(t)) :
         (s \o t)[i] = IF i <= Len(s) THEN s[i] ELSE t[i - Len(s)]
    BY ConcatProperties
<1>4. ASSUME NEW i \in 1..Len(s)
      PROVE  (s \o t)[i] = s[i]
    <2>1. i \in 1..(Len(s) + Len(t)) /\ i <= Len(s)
        BY <1>1
    <2> QED
        BY <1>3, <2>1, Zenon
<1>5. ASSUME NEW i \in (Len(s) + 1)..(Len(s) + Len(t))
      PROVE  (s \o t)[i] = t[i - Len(s)]
    <2>1. i \in 1..(Len(s) + Len(t)) /\ ~ (i <= Len(s))
        BY <1>1
    <2> QED
        BY <1>3, <2>1, Zenon
<1> QED
    BY <1>2, <1>4, <1>5

\* Where the characters of a text come from.
IsTextOf(u, ms, random) ==
    /\ u \in Seq(SUBSET CharBits) /\ Len(u) = 26
    /\ \A i \in 1..26 : u[i] \subseteq 0..4
    /\ \A i \in 1..10 : u[i] = EncodeTime(ms)[i]
    /\ \A i \in 11..18 : u[i] = EncodeRandom(FirstFive(random))[i - 10]
    /\ \A i \in 19..26 : u[i] = EncodeRandom(LastFive(random))[i - 18]

\* encodeULID joins the characters of the time and of twice five bytes.
LEMMA TextIs ==
    ASSUME NEW ms, NEW random
    PROVE  IsTextOf(EncodeULID(ms, random), ms, random)
<1> DEFINE t == EncodeTime(ms)
           lo == EncodeRandom(FirstFive(random))
           hi == EncodeRandom(LastFive(random))
<1>1. t \in Seq(SUBSET CharBits) /\ Len(t) = 10
    BY CharTypes
<1>2. lo \in Seq(SUBSET CharBits) /\ Len(lo) = 8 /\ hi \in Seq(SUBSET CharBits) /\ Len(hi) = 8
    BY CharTypes
<1>3. EncodeULID(ms, random) = t \o lo \o hi
    BY DEF EncodeULID, FirstFive, LastFive
<1> HIDE DEF t, lo, hi
<1> DEFINE c == t \o lo
           u == c \o hi
<1>4. c \in Seq(SUBSET CharBits) /\ Len(c) = Len(t) + Len(lo)
         /\ (\A i \in 1..Len(t) : c[i] = t[i])
         /\ \A i \in (Len(t) + 1)..(Len(t) + Len(lo)) : c[i] = lo[i - Len(t)]
    BY <1>1, <1>2, Joined
<1> HIDE DEF c
<1>5. u \in Seq(SUBSET CharBits) /\ Len(u) = Len(c) + Len(hi)
         /\ (\A i \in 1..Len(c) : u[i] = c[i])
         /\ \A i \in (Len(c) + 1)..(Len(c) + Len(hi)) : u[i] = hi[i - Len(c)]
    <2>1. c \in Seq(SUBSET CharBits) /\ hi \in Seq(SUBSET CharBits)
        BY <1>2, <1>4
    <2> QED
        BY <2>1, Joined
<1> HIDE DEF u
<1>6. Len(c) = 18 /\ Len(u) = 26
    BY <1>1, <1>2, <1>4, <1>5
<1>7. (\A i \in 1..10 : c[i] = t[i]) /\ \A i \in 11..18 : c[i] = lo[i - 10]
    BY <1>1, <1>2, <1>4
<1>8. (\A i \in 1..18 : u[i] = c[i]) /\ \A i \in 19..26 : u[i] = hi[i - 18]
    BY <1>2, <1>5, <1>6
<1>9. (\A i \in 1..10 : u[i] = t[i]) /\ \A i \in 11..18 : u[i] = lo[i - 10]
    <2>1. \A i \in 1..10 : i \in 1..18
        OBVIOUS
    <2>2. \A i \in 11..18 : i \in 1..18
        OBVIOUS
    <2> QED
        BY <1>7, <1>8, <2>1, <2>2, Zenon
<1>10. u = EncodeULID(ms, random)
    BY <1>3 DEF u, c
<1>11. \A i \in 1..26 : u[i] \subseteq 0..4
    <2>1. \A i \in 1..26 : u[i] \in SUBSET CharBits
        BY <1>5, <1>6, ElementOfSeq
    <2> QED
        BY <2>1 DEF CharBits
<1> QED
    BY <1>5, <1>6, <1>8, <1>9, <1>10, <1>11 DEF IsTextOf, t, lo, hi

----------------------------------------------------------------------------
(* Packing *)

\* Five bytes and their eight characters are the same forty bits.
LEMMA GroupPacks ==
    ASSUME NEW r \in FiveBytes, NEW x \in Int
    PROVE  (\E j \in 1..8 : \E b \in EncodeRandom(r)[j] : x = 5 * (8 - j) + b)
              <=> \E i \in 1..5 : \E b \in r[i] : x = 8 * (5 - i) + b
<1> DEFINE e == EncodeRandom(r)
<1>1. /\ r[1] \subseteq 0..7 /\ r[2] \subseteq 0..7 /\ r[3] \subseteq 0..7
      /\ r[4] \subseteq 0..7 /\ r[5] \subseteq 0..7
    BY DEF FiveBytes, ByteBits
<1>2. \A j \in 1..8 : e[j] \subseteq 0..4
    <2>1. e \in Seq(SUBSET CharBits) /\ Len(e) = 8
        BY CharTypes
    <2> HIDE DEF e
    <2>2. \A j \in 1..8 : e[j] \in SUBSET CharBits
        BY <2>1, ElementOfSeq
    <2> QED
        BY <2>2 DEF CharBits
<1>3. \A b \in 0..4 :
         /\ b \in e[1] <=> b + 3 \in r[1]
         /\ b \in e[2] <=> b - 2 \in r[1] \/ b + 6 \in r[2]
         /\ b \in e[3] <=> b + 1 \in r[2]
         /\ b \in e[4] <=> b - 4 \in r[2] \/ b + 4 \in r[3]
         /\ b \in e[5] <=> b - 1 \in r[3] \/ b + 7 \in r[4]
         /\ b \in e[6] <=> b + 2 \in r[4]
         /\ b \in e[7] <=> b - 3 \in r[4] \/ b + 5 \in r[5]
         /\ b \in e[8] <=> b \in r[5]
    BY RandomChars DEF CharBits
<1> HIDE DEF e
\* From the bytes to the characters.
<1>4. ASSUME NEW b \in r[1], x = 32 + b
      PROVE  \E j \in 1..8 : \E c \in e[j] : x = 5 * (8 - j) + c
    <2>1. b \in 0..7
        BY <1>1
    <2>2. CASE b >= 3
        <3>1. b - 3 \in 0..4 /\ (b - 3) + 3 = b
            BY <2>1, <2>2
        <3>2. b - 3 \in e[1]
            BY <1>3, <3>1
        <3> QED
            BY <1>4, <2>1, <3>2
    <2>3. CASE b < 3
        <3>1. b + 2 \in 0..4 /\ (b + 2) - 2 = b
            BY <2>1, <2>3
        <3>2. b + 2 \in e[2]
            BY <1>3, <3>1
        <3> QED
            BY <1>4, <2>1, <3>2
    <2> QED
        BY <2>1, <2>2, <2>3
<1>5. ASSUME NEW b \in r[2], x = 24 + b
      PROVE  \E j \in 1..8 : \E c \in e[j] : x = 5 * (8 - j) + c
    <2>1. b \in 0..7
        BY <1>1
    <2>2. CASE b >= 6
        <3>1. b - 6 \in 0..4 /\ (b - 6) + 6 = b
            BY <2>1, <2>2
        <3>2. b - 6 \in e[2]
            BY <1>3, <3>1
        <3> QED
            BY <1>5, <2>1, <3>2
    <2>3. CASE b < 6 /\ b >= 1
        <3>1. b - 1 \in 0..4 /\ (b - 1) + 1 = b
            BY <2>1, <2>3
        <3>2. b - 1 \in e[3]
            BY <1>3, <3>1
        <3> QED
            BY <1>5, <2>1, <3>2
    <2>4. CASE b < 1
        <3>1. b + 4 \in 0..4 /\ (b + 4) - 4 = b
            BY <2>1, <2>4
        <3>2. b + 4 \in e[4]
            BY <1>3, <3>1
        <3> QED
            BY <1>5, <2>1, <3>2
    <2> QED
        BY <2>1, <2>2, <2>3, <2>4
<1>6. ASSUME NEW b \in r[3], x = 16 + b
      PROVE  \E j \in 1..8 : \E c \in e[j] : x = 5 * (8 - j) + c
    <2>1. b \in 0..7
        BY <1>1
    <2>2. CASE b >= 4
        <3>1. b - 4 \in 0..4 /\ (b - 4) + 4 = b
            BY <2>1, <2>2
        <3>2. b - 4 \in e[4]
            BY <1>3, <3>1
        <3> QED
            BY <1>6, <2>1, <3>2
    <2>3. CASE b < 4
        <3>1. b + 1 \in 0..4 /\ (b + 1) - 1 = b
            BY <2>1, <2>3
        <3>2. b + 1 \in e[5]
            BY <1>3, <3>1
        <3> QED
            BY <1>6, <2>1, <3>2
    <2> QED
        BY <2>1, <2>2, <2>3
<1>7. ASSUME NEW b \in r[4], x = 8 + b
      PROVE  \E j \in 1..8 : \E c \in e[j] : x = 5 * (8 - j) + c
    <2>1. b \in 0..7
        BY <1>1
    <2>2. CASE b >= 7
        <3>1. b - 7 \in 0..4 /\ (b - 7) + 7 = b
            BY <2>1, <2>2
        <3>2. b - 7 \in e[5]
            BY <1>3, <3>1
        <3> QED
            BY <1>7, <2>1, <3>2
    <2>3. CASE b < 7 /\ b >= 2
        <3>1. b - 2 \in 0..4 /\ (b - 2) + 2 = b
            BY <2>1, <2>3
        <3>2. b - 2 \in e[6]
            BY <1>3, <3>1
        <3> QED
            BY <1>7, <2>1, <3>2
    <2>4. CASE b < 2
        <3>1. b + 3 \in 0..4 /\ (b + 3) - 3 = b
            BY <2>1, <2>4
        <3>2. b + 3 \in e[7]
            BY <1>3, <3>1
        <3> QED
            BY <1>7, <2>1, <3>2
    <2> QED
        BY <2>1, <2>2, <2>3, <2>4
<1>8. ASSUME NEW b \in r[5], x = b
      PROVE  \E j \in 1..8 : \E c \in e[j] : x = 5 * (8 - j) + c
    <2>1. b \in 0..7
        BY <1>1
    <2>2. CASE b >= 5
        <3>1. b - 5 \in 0..4 /\ (b - 5) + 5 = b
            BY <2>1, <2>2
        <3>2. b - 5 \in e[7]
            BY <1>3, <3>1
        <3> QED
            BY <1>8, <2>1, <3>2
    <2>3. CASE b < 5
        <3>1. b \in 0..4
            BY <2>1, <2>3
        <3>2. b \in e[8]
            BY <1>3, <3>1
        <3> QED
            BY <1>8, <2>1, <3>2
    <2> QED
        BY <2>1, <2>2, <2>3
\* From the characters to the bytes.
<1>9. ASSUME NEW j \in 1..8, NEW b \in e[j], x = 5 * (8 - j) + b
      PROVE  \E i \in 1..5 : \E c \in r[i] : x = 8 * (5 - i) + c
    <2>1. b \in 0..4
        BY <1>2
    <2>2. CASE j = 1
        <3>1. b + 3 \in r[1]
            BY <1>3, <2>1, <2>2
        <3>2. x = 8 * (5 - 1) + (b + 3)
            BY <1>9, <2>1, <2>2
        <3> QED
            BY <3>1, <3>2
    <2>3. CASE j = 2
        <3>1. b - 2 \in r[1] \/ b + 6 \in r[2]
            BY <1>3, <2>1, <2>3
        <3>2. x = 8 * (5 - 1) + (b - 2) /\ x = 8 * (5 - 2) + (b + 6)
            BY <1>9, <2>1, <2>3
        <3> QED
            BY <3>1, <3>2
    <2>4. CASE j = 3
        <3>1. b + 1 \in r[2]
            BY <1>3, <2>1, <2>4
        <3>2. x = 8 * (5 - 2) + (b + 1)
            BY <1>9, <2>1, <2>4
        <3> QED
            BY <3>1, <3>2
    <2>5. CASE j = 4
        <3>1. b - 4 \in r[2] \/ b + 4 \in r[3]
            BY <1>3, <2>1, <2>5
        <3>2. x = 8 * (5 - 2) + (b - 4) /\ x = 8 * (5 - 3) + (b + 4)
            BY <1>9, <2>1, <2>5
        <3> QED
            BY <3>1, <3>2
    <2>6. CASE j = 5
        <3>1. b - 1 \in r[3] \/ b + 7 \in r[4]
            BY <1>3, <2>1, <2>6
        <3>2. x = 8 * (5 - 3) + (b - 1) /\ x = 8 * (5 - 4) + (b + 7)
            BY <1>9, <2>1, <2>6
        <3> QED
            BY <3>1, <3>2
    <2>7. CASE j = 6
        <3>1. b + 2 \in r[4]
            BY <1>3, <2>1, <2>7
        <3>2. x = 8 * (5 - 4) + (b + 2)
            BY <1>9, <2>1, <2>7
        <3> QED
            BY <3>1, <3>2
    <2>8. CASE j = 7
        <3>1. b - 3 \in r[4] \/ b + 5 \in r[5]
            BY <1>3, <2>1, <2>8
        <3>2. x = 8 * (5 - 4) + (b - 3) /\ x = 8 * (5 - 5) + (b + 5)
            BY <1>9, <2>1, <2>8
        <3> QED
            BY <3>1, <3>2
    <2>9. CASE j = 8
        <3>1. b \in r[5]
            BY <1>3, <2>1, <2>9
        <3>2. x = 8 * (5 - 5) + b
            BY <1>9, <2>1, <2>9
        <3> QED
            BY <3>1, <3>2
    <2> QED
        BY <2>2, <2>3, <2>4, <2>5, <2>6, <2>7, <2>8, <2>9
<1>10. ASSUME NEW i \in 1..5, NEW b \in r[i], x = 8 * (5 - i) + b
       PROVE  \E j \in 1..8 : \E c \in e[j] : x = 5 * (8 - j) + c
    <2>1. i = 1 \/ i = 2 \/ i = 3 \/ i = 4 \/ i = 5
        OBVIOUS
    <2> QED
        BY <1>1, <1>4, <1>5, <1>6, <1>7, <1>8, <1>10, <2>1
<1> QED
    BY <1>9, <1>10 DEF e

\* The text is the time and the random bytes, bit for bit.
LEMMA Packs ==
    ASSUME NEW ms \in Milliseconds, NEW random \in RandomBytes
    PROVE  Bits(EncodeULID(ms, random), 5) = Packed(ms, random)
<1> DEFINE u == EncodeULID(ms, random)
           one == FirstFive(random)
           two == LastFive(random)
           lo == EncodeRandom(one)
           hi == EncodeRandom(two)
           bytes == [i \in Bytes |-> random[i]]
<1>1. one \in FiveBytes /\ two \in FiveBytes
    BY DEF RandomBytes, Bytes, FiveBytes, FirstFive, LastFive
<1>text. IsTextOf(u, ms, random)
    BY TextIs
<1>2. u \in Seq(SUBSET CharBits) /\ Len(u) = 26
    BY <1>text DEF IsTextOf
<1>time. \A i \in 1..10 : u[i] = EncodeTime(ms)[i]
    BY <1>text DEF IsTextOf
<1>lo. \A i \in 11..18 : u[i] = lo[i - 10]
    BY <1>text DEF IsTextOf
<1>hi. \A i \in 19..26 : u[i] = hi[i - 18]
    BY <1>text DEF IsTextOf
<1>3. bytes \in Seq(SUBSET ByteBits) /\ Len(bytes) = 10 /\ \A i \in 1..10 : bytes[i] = random[i]
    BY DEF RandomBytes, Bytes
<1>4. \A i \in 1..26 : u[i] \subseteq 0..4
    BY <1>text DEF IsTextOf
<1>5. \A i \in 1..10 : random[i] \subseteq 0..7
    BY DEF RandomBytes, Bytes, ByteBits
<1>6. (\A i \in 1..5 : one[i] = random[i]) /\ \A i \in 1..5 : two[i] = random[i + 5]
    BY DEF FirstFive, LastFive
<1> HIDE DEF u, one, two, lo, hi, bytes
<1>7. \A x : x \in Bits(u, 5) <=> \E i \in 1..26 : \E b \in u[i] : x = (26 - i) * 5 + b
    BY <1>2 DEF Bits
<1>8. \A x : x \in Packed(ms, random) <=>
         \/ \E b \in ms : x = b + 80
         \/ \E i \in 1..10 : \E b \in random[i] : x = (10 - i) * 8 + b
    <2>1. \A x : x \in Bits(bytes, 8) <=>
             \E i \in 1..10 : \E b \in random[i] : x = (10 - i) * 8 + b
        BY <1>3 DEF Bits
    <2> QED
        BY <2>1 DEF Packed, bytes
\* The characters of the time, of the first and of the last five bytes.
<1>9. ASSUME NEW x \in Int
      PROVE  (\E i \in 1..10 : \E b \in u[i] : x = (26 - i) * 5 + b) <=> \E b \in ms : x = b + 80
    <2>1. ms \subseteq 0..47
        BY DEF Milliseconds, TimeBits
    <2>2. ASSUME NEW i \in 1..10, NEW b \in u[i], x = (26 - i) * 5 + b
          PROVE  \E c \in ms : x = c + 80
        <3>1. b \in 0..4 /\ b \in EncodeTime(ms)[i]
            BY <1>time, <1>4
        <3>2. b + (50 - 5 * i) \in ms
            BY <3>1, TimeChar
        <3>3. x = (b + (50 - 5 * i)) + 80
            BY <2>2, <3>1
        <3> QED
            BY <3>2, <3>3
    <2>3. ASSUME NEW c \in ms, x = c + 80
          PROVE  \E i \in 1..10 : \E b \in u[i] : x = (26 - i) * 5 + b
        <3>1. c \in 0..47
            BY <2>1
        <3>2. PICK i \in 1..10 : 50 - 5 * i <= c /\ c <= 54 - 5 * i
            BY <3>1
        <3> DEFINE b == c - (50 - 5 * i)
        <3>3. b \in 0..4 /\ b + (50 - 5 * i) = c /\ x = (26 - i) * 5 + b
            BY <2>3, <3>1, <3>2
        <3>4. b \in u[i]
            <4>1. b \in Int /\ b \in CharBits /\ b + (50 - 5 * i) \in ms
                BY <3>3 DEF CharBits
            <4> HIDE DEF b
            <4>2. b \in EncodeTime(ms)[i]
                BY <4>1, TimeChar
            <4> QED
                BY <4>2, <1>time
        <3> QED
            BY <3>3, <3>4
    <2> QED
        BY <2>2, <2>3
<1>10. ASSUME NEW x \in Int
       PROVE  (\E i \in 11..18 : \E b \in u[i] : x = (26 - i) * 5 + b)
                 <=> \E i \in 1..5 : \E b \in random[i] : x = (10 - i) * 8 + b
    <2>1. x - 40 \in Int
        OBVIOUS
    <2>2. (\E j \in 1..8 : \E b \in lo[j] : x - 40 = 5 * (8 - j) + b)
             <=> \E i \in 1..5 : \E b \in one[i] : x - 40 = 8 * (5 - i) + b
        BY <1>1, <2>1, GroupPacks DEF lo
    <2>3. (\E i \in 11..18 : \E b \in u[i] : x = (26 - i) * 5 + b)
             <=> \E j \in 1..8 : \E b \in lo[j] : x - 40 = 5 * (8 - j) + b
        <3>1. ASSUME NEW i \in 11..18, NEW b \in u[i], x = (26 - i) * 5 + b
              PROVE  \E j \in 1..8 : \E c \in lo[j] : x - 40 = 5 * (8 - j) + c
            <4>1. i - 10 \in 1..8 /\ b \in lo[i - 10] /\ b \in 0..4
                BY <1>lo, <1>4
            <4>2. x - 40 = 5 * (8 - (i - 10)) + b
                BY <3>1, <4>1
            <4> QED
                BY <4>1, <4>2
        <3>2. ASSUME NEW j \in 1..8, NEW b \in lo[j], x - 40 = 5 * (8 - j) + b
              PROVE  \E i \in 11..18 : \E c \in u[i] : x = (26 - i) * 5 + c
            <4>1. j + 10 \in 11..18 /\ (j + 10) - 10 = j
                OBVIOUS
            <4>2. b \in u[j + 10] /\ b \in 0..4
                BY <1>lo, <1>4, <4>1
            <4>3. x = (26 - (j + 10)) * 5 + b
                BY <3>2, <4>2
            <4> QED
                BY <4>1, <4>2, <4>3
        <3> QED
            BY <3>1, <3>2
    <2>4. (\E i \in 1..5 : \E b \in one[i] : x - 40 = 8 * (5 - i) + b)
             <=> \E i \in 1..5 : \E b \in random[i] : x = (10 - i) * 8 + b
        BY <1>5, <1>6
    <2> QED
        BY <2>2, <2>3, <2>4
<1>11. ASSUME NEW x \in Int
       PROVE  (\E i \in 19..26 : \E b \in u[i] : x = (26 - i) * 5 + b)
                 <=> \E i \in 6..10 : \E b \in random[i] : x = (10 - i) * 8 + b
    <2>1. (\E j \in 1..8 : \E b \in hi[j] : x = 5 * (8 - j) + b)
             <=> \E i \in 1..5 : \E b \in two[i] : x = 8 * (5 - i) + b
        BY <1>1, GroupPacks DEF hi
    <2>2. (\E i \in 19..26 : \E b \in u[i] : x = (26 - i) * 5 + b)
             <=> \E j \in 1..8 : \E b \in hi[j] : x = 5 * (8 - j) + b
        <3>1. ASSUME NEW i \in 19..26, NEW b \in u[i], x = (26 - i) * 5 + b
              PROVE  \E j \in 1..8 : \E c \in hi[j] : x = 5 * (8 - j) + c
            <4>1. i - 18 \in 1..8 /\ b \in hi[i - 18] /\ b \in 0..4
                BY <1>hi, <1>4
            <4>2. x = 5 * (8 - (i - 18)) + b
                BY <3>1, <4>1
            <4> QED
                BY <4>1, <4>2
        <3>2. ASSUME NEW j \in 1..8, NEW b \in hi[j], x = 5 * (8 - j) + b
              PROVE  \E i \in 19..26 : \E c \in u[i] : x = (26 - i) * 5 + c
            <4>1. j + 18 \in 19..26 /\ (j + 18) - 18 = j
                OBVIOUS
            <4>2. b \in u[j + 18] /\ b \in 0..4
                BY <1>hi, <1>4, <4>1
            <4>3. x = (26 - (j + 18)) * 5 + b
                BY <3>2, <4>2
            <4> QED
                BY <4>1, <4>2, <4>3
        <3> QED
            BY <3>1, <3>2
    <2>3. (\E i \in 1..5 : \E b \in two[i] : x = 8 * (5 - i) + b)
             <=> \E i \in 6..10 : \E b \in random[i] : x = (10 - i) * 8 + b
        <3>1. ASSUME NEW i \in 1..5, NEW b \in two[i], x = 8 * (5 - i) + b
              PROVE  \E k \in 6..10 : \E c \in random[k] : x = (10 - k) * 8 + c
            <4>1. i + 5 \in 6..10 /\ i + 5 \in 1..10 /\ b \in random[i + 5]
                BY <1>6
            <4>2. x = (10 - (i + 5)) * 8 + b
                BY <1>5, <3>1, <4>1
            <4> QED
                BY <4>1, <4>2
        <3>2. ASSUME NEW k \in 6..10, NEW b \in random[k], x = (10 - k) * 8 + b
              PROVE  \E i \in 1..5 : \E c \in two[i] : x = 8 * (5 - i) + c
            <4>1. k - 5 \in 1..5 /\ (k - 5) + 5 = k /\ k \in 1..10
                OBVIOUS
            <4>2. b \in two[k - 5]
                BY <1>6, <4>1
            <4>3. x = 8 * (5 - (k - 5)) + b
                BY <1>5, <3>2, <4>1
            <4> QED
                BY <4>1, <4>2, <4>3
        <3> QED
            BY <3>1, <3>2
    <2> QED
        BY <2>1, <2>2, <2>3
<1>12. ASSUME NEW x \in Int
       PROVE  x \in Bits(u, 5) <=> x \in Packed(ms, random)
    <2>1. (\E i \in 1..26 : \E b \in u[i] : x = (26 - i) * 5 + b) <=>
             \/ \E i \in 1..10 : \E b \in u[i] : x = (26 - i) * 5 + b
             \/ \E i \in 11..18 : \E b \in u[i] : x = (26 - i) * 5 + b
             \/ \E i \in 19..26 : \E b \in u[i] : x = (26 - i) * 5 + b
        OBVIOUS
    <2>2. (\E i \in 1..10 : \E b \in random[i] : x = (10 - i) * 8 + b) <=>
             \/ \E i \in 1..5 : \E b \in random[i] : x = (10 - i) * 8 + b
             \/ \E i \in 6..10 : \E b \in random[i] : x = (10 - i) * 8 + b
        OBVIOUS
    <2> QED
        BY <1>7, <1>8, <1>9, <1>10, <1>11, <2>1, <2>2
<1>13. Bits(u, 5) \subseteq Int
    BY <1>4, <1>7
<1>14. Packed(ms, random) \subseteq Int
    BY <1>5, <1>8 DEF Milliseconds, TimeBits
<1> QED
    BY <1>12, <1>13, <1>14 DEF u

----------------------------------------------------------------------------
(* Order *)

\* A set of bits of the time that is not empty has a highest bit.
LEMMA HighestBit ==
    ASSUME NEW T \in SUBSET TimeBits, T # {}
    PROVE  \E b \in T : \A c \in T : c <= b
<1> DEFINE D == {47 - b : b \in T}
<1>1. T \subseteq 0..47
    BY DEF TimeBits
<1>2. D \subseteq Nat /\ D # {}
    <2>1. \A b \in T : 47 - b \in Nat
        BY <1>1
    <2>2. PICK b \in T : TRUE
        OBVIOUS
    <2> QED
        BY <2>1, <2>2
<1> HIDE DEF D
<1>3. \E x \in D : \A y \in D : ~ (<<y, x>> \in OpToRel(<, Nat))
    BY <1>2, WFMin, NatLessThanWellFounded
<1>4. \A x, y \in D : (~ (<<y, x>> \in OpToRel(<, Nat))) => x <= y
    BY <1>2 DEF OpToRel
<1>5. PICK x \in D : \A y \in D : x <= y
    BY <1>3, <1>4
<1>6. PICK b \in T : x = 47 - b
    BY DEF D
<1>7. \A c \in T : x <= 47 - c
    BY <1>5 DEF D
<1>8. \A c \in T : c <= b
    BY <1>1, <1>6, <1>7
<1> QED
    BY <1>8

\* The character that holds the highest bit in which two times differ decides.
LEMMA EarlierPrecedes ==
    ASSUME NEW m \in Milliseconds, NEW n \in Milliseconds, Below(m, n), NEW q, NEW r
    PROVE  Precedes(EncodeULID(m, q), EncodeULID(n, r))
<1> DEFINE u == EncodeULID(m, q)
           v == EncodeULID(n, r)
<1>1. m \subseteq 0..47 /\ n \subseteq 0..47
    BY DEF Milliseconds, TimeBits
<1>2. PICK a \in n \ m : \A c \in m \ n : c < a
    BY DEF Below
<1>3. PICK b \in n \ m : \A c \in n \ m : c <= b
    <2>1. n \ m \in SUBSET TimeBits /\ n \ m # {}
        BY <1>1, <1>2 DEF TimeBits
    <2> QED
        BY <2>1, HighestBit
<1>4. b \in 0..47 /\ a \in 0..47 /\ a <= b
    BY <1>1, <1>2, <1>3
<1>5. \A c \in m \ n : c < b
    BY <1>1, <1>2, <1>4
<1>6. \A c \in Int : c > b => (c \in m <=> c \in n)
    BY <1>3, <1>4, <1>5
<1>7. PICK i \in 1..10 : 50 - 5 * i <= b /\ b <= 54 - 5 * i
    BY <1>4
<1>text. IsTextOf(u, m, q) /\ IsTextOf(v, n, r)
    BY TextIs
<1> HIDE DEF u, v
<1>8. (\A j \in 1..10 : u[j] = EncodeTime(m)[j]) /\ \A j \in 1..10 : v[j] = EncodeTime(n)[j]
    BY <1>text DEF IsTextOf
<1>9. \A j \in 1..10 : u[j] \subseteq 0..4 /\ v[j] \subseteq 0..4
    <2>1. (\A j \in 1..26 : u[j] \subseteq 0..4) /\ \A j \in 1..26 : v[j] \subseteq 0..4
        BY <1>text DEF IsTextOf
    <2>2. \A j \in 1..10 : j \in 1..26
        OBVIOUS
    <2> QED
        BY <2>1, <2>2
<1>10. ASSUME NEW j \in 1..10, NEW c \in 0..4
       PROVE  /\ c \in u[j] <=> c + (50 - 5 * j) \in m
              /\ c \in v[j] <=> c + (50 - 5 * j) \in n
    <2>1. c \in Int /\ c \in CharBits
        BY DEF CharBits
    <2>2. /\ c \in EncodeTime(m)[j] <=> c + (50 - 5 * j) \in m
          /\ c \in EncodeTime(n)[j] <=> c + (50 - 5 * j) \in n
        BY <2>1, TimeChar
    <2> QED
        BY <1>8, <2>2
<1>11. ASSUME NEW j \in 1..(i - 1)
       PROVE  u[j] = v[j]
    <2>1. j \in 1..10
        OBVIOUS
    <2>2. ASSUME NEW c \in 0..4
          PROVE  c \in u[j] <=> c \in v[j]
        <3>1. c + (50 - 5 * j) \in Int /\ c + (50 - 5 * j) > b
            BY <1>4, <1>7, <2>1
        <3> QED
            BY <1>6, <1>10, <2>1, <3>1
    <2> QED
        BY <1>9, <2>1, <2>2
<1>12. Below(u[i], v[i])
    <2> DEFINE k == 50 - 5 * i
               d == b - k
    <2>1. k \in Int /\ d \in 0..4 /\ d + k = b
        BY <1>4, <1>7
    <2>2. d \in v[i] /\ d \notin u[i]
        BY <1>3, <1>10, <2>1
    <2>3. ASSUME NEW c \in u[i] \ v[i]
          PROVE  c < d
        <3>1. c \in 0..4
            BY <1>9
        <3>2. c + k \in m \ n
            BY <1>10, <3>1
        <3> QED
            BY <1>4, <1>5, <2>1, <3>1, <3>2
    <2> HIDE DEF d
    <2> QED
        BY <2>2, <2>3 DEF Below
<1>13. i \in 1..26
    OBVIOUS
<1> QED
    BY <1>11, <1>12, <1>13 DEF Precedes, u, v

----------------------------------------------------------------------------
(* The properties *)

\* The text is always encodeULID's of a time and random bytes it may be given.
THEOREM EncodedInvariant == Spec => []Encoded
<1>1. Init => Encoded
    BY DEF Init, Encoded
<1>2. Encoded /\ [Next]_vars => Encoded'
    BY DEF Encoded, Next, Generate, vars
<1> QED
    BY <1>1, <1>2, PTL DEF Spec

\* encodeULID always makes 26 characters of five bits.
THEOREM TextCorrect == Spec => []TypeOK
<1>1. Encoded => TypeOK
    <2> SUFFICES ASSUME Encoded PROVE TypeOK
        OBVIOUS
    <2>1. ulid \in Seq(SUBSET CharBits) /\ Len(ulid) = 26
        BY TextIs DEF Encoded, IsTextOf
    <2> QED
        BY <2>1, LenProperties DEF TypeOK, Text
<1> QED
    BY EncodedInvariant, <1>1, PTL

\* encodeULID keeps all 128 bits in their order, whatever the time and the
\* random bytes.
THEOREM KeepsAllBits == Spec => []PacksAllBits
<1>1. Encoded => PacksAllBits
    BY InstantsAssumption, Packs DEF Encoded, PacksAllBits
<1> QED
    BY EncodedInvariant, <1>1, PTL

\* Identifiers of different milliseconds are in the order of their times,
\* whatever the random bytes and whether or not the clock was set back.
THEOREM TimesSort == Spec => SortsByTime
<1>1. Encoded /\ Encoded' =>
         /\ Below(draw.ms, draw'.ms) => Precedes(ulid, ulid')
         /\ Below(draw'.ms, draw.ms) => Precedes(ulid', ulid)
    <2> SUFFICES ASSUME Encoded, Encoded'
                 PROVE  /\ Below(draw.ms, draw'.ms) => Precedes(ulid, ulid')
                        /\ Below(draw'.ms, draw.ms) => Precedes(ulid', ulid)
        OBVIOUS
    <2>1. draw.ms \in Milliseconds /\ draw'.ms \in Milliseconds
        BY InstantsAssumption DEF Encoded
    <2>2. ulid = EncodeULID(draw.ms, draw.random) /\ ulid' = EncodeULID(draw'.ms, draw'.random)
        BY DEF Encoded
    <2> QED
        BY <2>1, <2>2, EarlierPrecedes
<1> QED
    BY EncodedInvariant, <1>1, PTL DEF SortsByTime

============================================================================

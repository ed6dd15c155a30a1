-------------------------------- MODULE ULID --------------------------------
(***************************************************************************)
(* encodeULID: 48 bits of time and 80 random bits packed into 26           *)
(* characters of five bits.  A number is the set of its bits that are 1,   *)
(* bit 0 being the lowest, so that | is union, & 0x1F is what lies in      *)
(* 0..4, and a shift moves the bits.  A character is its index in          *)
(* crockfordAlphabet, whose characters are in ascending order.             *)
(***************************************************************************)
EXTENDS Integers, Sequences

TimeBits == 0..47
ByteBits == 0..7
CharBits == 0..4
Bytes == 1..10

Milliseconds == SUBSET TimeBits
RandomBytes == [Bytes -> SUBSET ByteBits]
Text == [1..26 -> SUBSET CharBits]

\* x >> n, and x << n of a byte.
Shr(x, n) == {b - n : b \in {c \in x : c >= n}}
Shl(x, n) == {b + n : b \in x} \cap ByteBits

\* As Char, but without & 0x1F.
CharUnmasked(x) == x

Char(x) == x \cap CharBits

\* As EncodeRandom, but with one shift too short.
EncodeRandomShort(r) ==
    <<Char(Shr(r[1], 3)), Char(Shl(r[1], 2) \cup Shr(r[2], 6)), Char(Shr(r[2], 1)),
      Char(Shl(r[2], 4) \cup Shr(r[3], 4)), Char(Shl(r[3], 1) \cup Shr(r[4], 7)),
      Char(Shr(r[4], 2)), Char(Shl(r[4], 3) \cup Shr(r[5], 4)), Char(r[5])>>

\* Five random bytes as eight characters.
EncodeRandom(r) ==
    <<Char(Shr(r[1], 3)), Char(Shl(r[1], 2) \cup Shr(r[2], 6)), Char(Shr(r[2], 1)),
      Char(Shl(r[2], 4) \cup Shr(r[3], 4)), Char(Shl(r[3], 1) \cup Shr(r[4], 7)),
      Char(Shr(r[4], 2)), Char(Shl(r[4], 3) \cup Shr(r[5], 5)), Char(r[5])>>

\* As EncodeTime, but starting with the lowest bits.
EncodeTimeReversed(ms) == [i \in 1..10 |-> Char(Shr(ms, 5 * (i - 1)))]

EncodeTime(ms) == [i \in 1..10 |-> Char(Shr(ms, 50 - 5 * i))]

EncodeULID(ms, random) ==
    EncodeTime(ms)
        \o EncodeRandom([i \in 1..5 |-> random[i]])
        \o EncodeRandom([i \in 1..5 |-> random[i + 5]])

----------------------------------------------------------------------------
(* Reference: the text, read as one number of 130 bits, is the time followed *)
(* by the random bytes.                                                      *)

\* The bits of a sequence of digits of so many bits each, the highest first.
Bits(digits, width) ==
    UNION {{(Len(digits) - i) * width + b : b \in digits[i]} : i \in 1..Len(digits)}

Packed(ms, random) == {b + 80 : b \in ms} \cup Bits([i \in Bytes |-> random[i]], 8)

\* x is less than y: of the bits in which they differ, y has the highest.
Below(x, y) == \E b \in y \ x : \A c \in x \ y : c < b

\* s comes before t in lexicographic order.
Precedes(s, t) ==
    \E i \in 1..26 : (\A j \in 1..(i - 1) : s[j] = t[j]) /\ Below(s[i], t[i])

----------------------------------------------------------------------------
CONSTANTS Instants   \* the times and random bytes that may come up
ASSUME InstantsAssumption ==
    \A d \in Instants : d.ms \in Milliseconds /\ d.random \in RandomBytes

VARIABLES draw, ulid   \* the last time and random bytes, and the text made of them
vars == <<draw, ulid>>

Init ==
    /\ draw \in Instants
    /\ ulid = EncodeULID(draw.ms, draw.random)

\* Generate, at any time: the wall clock may also be set back.
Generate ==
    /\ draw' \in Instants
    /\ ulid' = EncodeULID(draw'.ms, draw'.random)

Next == Generate
Spec == Init /\ [][Next]_vars

\* A text is 26 characters.
TypeOK == ulid \in Text

\* No bit of the time or of the random bytes is lost, moved or mixed with
\* another: encodeULID's shifts by hand give the 128 bits in order.
PacksAllBits == Bits(ulid, 5) = Packed(draw.ms, draw.random)

\* generator.go calls the value a "Lexicographically Sortable Identifier": of
\* two identifiers the one of the earlier millisecond comes first, whatever
\* their random bytes.
SortsByTime ==
    [][/\ Below(draw.ms, draw'.ms) => Precedes(ulid, ulid')
       /\ Below(draw'.ms, draw.ms) => Precedes(ulid', ulid)]_vars

============================================================================

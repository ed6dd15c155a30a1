------------------------------- MODULE MCULID -------------------------------
(***************************************************************************)
(* The instance of ULID for TLC: times with one bit, two adjacent bits, no *)
(* and all bits, each with the least and the greatest random bytes, and    *)
(* random bytes with a single bit.                                         *)
(***************************************************************************)
EXTENDS ULID

Times ==
    {{}, TimeBits} \cup {{b} : b \in TimeBits} \cup {{b, b + 1} : b \in TimeBits \ {47}}
Zeros == [i \in Bytes |-> {}]
Ones == [i \in Bytes |-> ByteBits]
MCInstants ==
    {[ms |-> t, random |-> r] : t \in Times, r \in {Zeros, Ones}}
        \cup {[ms |-> {40}, random |-> [Zeros EXCEPT ![i] = {b}]] : i \in Bytes, b \in ByteBits}
        \cup {[ms |-> {40}, random |-> [Ones EXCEPT ![i] = ByteBits \ {b}]] :
                 i \in Bytes, b \in ByteBits}
============================================================================

------------------------------ MODULE TspFrame ------------------------------
(***************************************************************************)
(* How a frame of the mediator's socket is told to be TSP (tsp-frame.js),  *)
(* and the base64url text it comes in (base64url.js).  Pure functions, of  *)
(* inputs of every length: their theorems are in MediatorSocket_proofs.    *)
(*                                                                         *)
(* A byte is 0..255.  A character is the number the base64url alphabet     *)
(* gives it, or one of the others: "+", "/", "=", and 67 and above for all *)
(* that no encoding contains.                                              *)
(***************************************************************************)
EXTENDS Integers, Sequences

Byte == 0..255
Sextet == 0..63
plus == 64
slash == 65
pad == 66

-----------------------------------------------------------------------------
(* base64url.js *)

(* The first eight bits of a group make one character and a piece of the   *)
(* next, and so on; what is missing at the end counts as zero bits.        *)
Chars(n) == 4 * (n \div 3) + (IF n % 3 = 0 THEN 0 ELSE (n % 3) + 1)

at(bytes, i) == IF i \in DOMAIN bytes THEN bytes[i] ELSE 0

encode(bytes) ==
    [k \in 1..Chars(Len(bytes)) |->
        LET first == 3 * ((k - 1) \div 4) + 1
        IN CASE k % 4 = 1 -> at(bytes, first) \div 4
             [] k % 4 = 2 -> 16 * (at(bytes, first) % 4) + at(bytes, first + 1) \div 16
             [] k % 4 = 3 -> 4 * (at(bytes, first + 1) % 16) + at(bytes, first + 2) \div 64
             [] OTHER     -> at(bytes, first + 2) % 64]

(* "+" and "/" are read as "-" and "_"; B64_LOOKUP knows nothing else. *)
value(c) == IF c = plus THEN 62 ELSE IF c = slash THEN 63 ELSE c

(* The text without the padding at its end. *)
isUnpadded(norm, text) ==
    /\ Len(norm) <= Len(text) /\ norm = SubSeq(text, 1, Len(norm))
    /\ \A i \in Len(norm) + 1 .. Len(text) : text[i] = pad
    /\ norm # <<>> => norm[Len(norm)] # pad

decodes(norm) ==
    /\ Len(norm) % 4 # 1
    /\ \A i \in 1..Len(norm) : value(norm[i]) \in Sextet

(* decode of a text that `decodes` once it is unpadded; any other throws.  *)
decode(norm) ==
    [j \in 1..((3 * Len(norm)) \div 4) |->
        LET first == 4 * ((j - 1) \div 3) + 1
            v(i) == value(norm[i])
        IN CASE j % 3 = 1 -> 4 * v(first) + v(first + 1) \div 16
             [] j % 3 = 2 -> 16 * (v(first + 1) % 16) + v(first + 2) \div 4
             [] OTHER     -> 64 * (v(first + 2) % 4) + v(first + 3)]

-----------------------------------------------------------------------------
(* tsp-frame.js: the text of a TSP message opens with "-E" or "--E", its   *)
(* bytes with one of the two magic bytes.                                  *)

dash == 62
E == 4
TSP_MAGIC_BYTE == 248
TSP_MAGIC_BYTE_LONG == 251

isTspFrameText(text) ==
    \/ Len(text) >= 3 /\ text[1] = dash /\ text[2] = dash /\ text[3] = E
    \/ Len(text) >= 2 /\ text[1] = dash /\ text[2] = E

isTspFrameBytes(bytes) ==
    Len(bytes) >= 1 /\ bytes[1] \in {TSP_MAGIC_BYTE, TSP_MAGIC_BYTE_LONG}

(* What a sender puts on the wire, as the header of tsp-frame.js and its   *)
(* test give it: a count code in six bits of code and twelve of count, or  *)
(* in twelve and thirty, and what it counts.                               *)
shortFrame(count, body) == <<248, 64 + count \div 256, count % 256>> \o body

longFrame(count, body) ==
    <<251, 225, (count \div 2^24) % 64, (count \div 2^16) % 256, (count \div 2^8) % 256,
      count % 256>> \o body
=============================================================================

------------------------------- MODULE Words --------------------------------
(***************************************************************************)
(* Machine words and their bits.  Words are shrunk: a byte has Byte bits,  *)
(* and a width is a number of bytes, so W8 .. W64 are 1, 2, 4 and 8.  The  *)
(* bitwise operators work on words of up to W64; they are put together bit *)
(* by bit, and not taken from Bitwise, to be reasoned about.               *)
(***************************************************************************)
EXTENDS Integers

CONSTANT
  Byte    \* bits in a byte, 8 in the code

W8  == 1
W16 == 2
W32 == 4
W64 == 8

exp2[k \in Nat] == IF k = 0 THEN 1 ELSE 2 * exp2[k - 1]

Bits(w)      == w * Byte
Modulus(w)   == exp2[Bits(w)]
Word(w)      == 0 .. Modulus(w) - 1
Trunc(v, w)  == v % Modulus(w)

(* A bit of a word, from the lowest, and the word that has given bits.     *)
Top       == Bits(W64)
bit(x, i) == (x \div exp2[i]) % 2
FromBits(b) ==
  LET upTo[i \in 0 .. Top] ==
        IF i = 0 THEN 0 ELSE upTo[i - 1] + b[i - 1] * exp2[i - 1]
  IN  upTo[Top]

x & y  == FromBits([i \in 0 .. Top - 1 |-> bit(x, i) * bit(y, i)])
x | y  == FromBits([i \in 0 .. Top - 1 |-> IF bit(x, i) + bit(y, i) = 0 THEN 0 ELSE 1])
x ^^ y == FromBits([i \in 0 .. Top - 1 |-> (bit(x, i) + bit(y, i)) % 2])
=============================================================================

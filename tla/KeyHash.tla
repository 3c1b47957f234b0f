------------------------------ MODULE KeyHash ------------------------------
(***************************************************************************)
(* The hash of a key, computed by the servers and C++ clients (ir_hash of  *)
(* ConsistentHashing.h, and hash of server.cpp, which is the same), by the *)
(* Java client and by the Python client, character by character.           *)
(*                                                                         *)
(* A 32-bit word is two halves of 16 bits.  C++ and Python see the bytes   *)
(* of the key, and char is signed where the servers run; Java sees UTF-16  *)
(* code units, and Thrift sends its strings in UTF-8.  Python's integers   *)
(* do not wrap: top counts what has run over 32 bits.                      *)
(***************************************************************************)
EXTENDS Integers, Sequences, Functions

CONSTANTS
  Chars,      \* characters of keys, code points below 2048
  MaxLength   \* bound: longest key

ASSUME HashAssumption == Chars \subseteq 0 .. 2047 /\ MaxLength \in Nat

VARIABLES
  key,    \* the characters so far
  cpp,    \* result in C++
  java,   \* result in Java
  python  \* result in Python

hashVars == <<key, cpp, java, python>>

Base == 65536

Word(hi, lo) == [hi |-> (hi + (lo \div Base)) % Base, lo |-> lo % Base]

Zero == Word(0, 0)

Plus(x, y) == Word(x.hi + y.hi, x.lo + y.lo)

Shift(x, n) ==
  IF n < 16 THEN Word(x.hi * 2 ^ n, x.lo * 2 ^ n) ELSE Word(x.lo * 2 ^ (n - 16), 0)

(***************************************************************************)
(* The exclusive or of two halves is the sum of the bits that differ.      *)
(***************************************************************************)
Bit(a, b, i) == 2 ^ i * (((a \div 2 ^ i) + (b \div 2 ^ i)) % 2)

Xor(a, b) == SumFunction([i \in 0 .. 15 |-> Bit(a, b, i)])

Xor2(x, y) == Word(Xor(x.hi, y.hi), Xor(x.lo, y.lo))

\* Mutant: one of the shifts is left out.
ShiftsShort(x) ==
  Plus(Plus(Shift(x, 1), Shift(x, 4)), Plus(Shift(x, 7), Shift(x, 8)))

(***************************************************************************)
(* (r << 1) + (r << 4) + (r << 7) + (r << 8) + (r << 24)                   *)
(***************************************************************************)
Shifts(x) ==
  Plus(Shift(x, 24), Plus(Plus(Shift(x, 1), Shift(x, 4)), Plus(Shift(x, 7), Shift(x, 8))))

Mix(x) == Plus(x, Shifts(x))

(***************************************************************************)
(* The one or two bytes of a character in UTF-8, a step for each of them,  *)
(* and a byte as a signed char that is converted to unsigned int.          *)
(***************************************************************************)
Utf8(c) == IF c < 128 THEN <<c>> ELSE <<192 + (c \div 64), 128 + (c % 64)>>

EachByte(step(_, _), x, bytes) ==
  IF Len(bytes) = 1 THEN step(x, bytes[1]) ELSE step(step(x, bytes[1]), bytes[2])

SignedChar(b) == IF b < 128 THEN Word(0, b) ELSE Word(Base - 1, Base - 256 + b)

\* Mutant: multiplies before it mixes in the byte (FNV-1 for FNV-1a).
ir_hashFNV1(x, b) == Xor2(Mix(x), SignedChar(b))

ir_hash(x, b) == Mix(Xor2(x, SignedChar(b)))

hashJava(x, c) == Mix(Xor2(x, Word(0, c)))

(***************************************************************************)
(* client.py: convert cuts the operands of the shifts to 32 bits; result   *)
(* itself is cut once, by the final % 4294967296 (Cut).                    *)
(***************************************************************************)
pythonStep(x, b) ==
  LET r == [x EXCEPT !.lo = Xor(@, b)]
      sum == Shifts(Word(r.hi, r.lo))
  IN [top |-> r.top + ((r.hi + sum.hi + ((r.lo + sum.lo) \div Base)) \div Base),
      hi |-> Plus(r, sum).hi, lo |-> Plus(r, sum).lo]

Cut(x) == Word(x.hi, x.lo)

HashInit ==
  /\ key = <<>>
  /\ cpp = Zero /\ java = Zero
  /\ python = [top |-> 0, hi |-> 0, lo |-> 0]

HashChar(c) ==
  /\ Len(key) < MaxLength
  /\ key' = Append(key, c)
  /\ cpp' = EachByte(ir_hash, cpp, Utf8(c))
  /\ java' = hashJava(java, c)
  /\ python' = EachByte(pythonStep, python, Utf8(c))

HashNext == \E c \in Chars : HashChar(c)

HashSpec == HashInit /\ [][HashNext]_hashVars

-----------------------------------------------------------------------------
(* Properties.                                                             *)

HashAlike == cpp = java /\ cpp = Cut(python)

(***************************************************************************)
(* For keys of ASCII characters, such as the digits the stress tests and   *)
(* the blog use, the three languages compute the same 32 bits.             *)
(***************************************************************************)
AsciiHashAlike == (\A i \in 1 .. Len(key) : key[i] < 128) => HashAlike

(***************************************************************************)
(* The sum of shifts is the multiplication by the FNV prime 2^24 + 403,    *)
(* modulo 2^32.                                                            *)
(***************************************************************************)
MixIsFNV == Mix(cpp) = Word(cpp.hi * 403 + cpp.lo * 256, cpp.lo * 403)

(***************************************************************************)
(* report/blank.tex: "Each client communicates with the viewservice to get *)
(* a view and uses consistent hashing to determine which server to query." *)
(* Clients and servers therefore have to hash every key alike.             *)
(***************************************************************************)
ClientsHashAlike == HashAlike
=============================================================================

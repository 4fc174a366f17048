------------------------------- MODULE Base58 -------------------------------
(***************************************************************************)
(* base58Encode (service/token.go), which makes public and share tokens of *)
(* random bytes: one step per byte of its outer loop, against what base 58 *)
(* means.  A digit stands for its character of the alphabet.               *)
(***************************************************************************)
EXTENDS Naturals, Sequences

CONSTANTS Bytes, MaxLen    \* byte values, and the bound on the input's length

VARIABLES input, k, buffer

vars == <<input, k, buffer>>

\* leading zero bytes, which are encoded one by one
Zeros == CHOOSE z \in 0..Len(input) :
             /\ \A j \in 1..z : input[j] = 0
             /\ z < Len(input) => input[z + 1] # 0

\* Faulty variant: without the digit for what the division cuts off.
Size_Short(n) == (n * 138) \div 100

\* room for the digits of n bytes
Size(n) == (n * 138) \div 100 + 1

\* the inner loop: Carries(b)[i] is what is carried into digit i
Carries(b) ==
    LET carry[i \in 0..Len(buffer)] ==
            IF i = Len(buffer) THEN b ELSE (carry[i + 1] + buffer[i + 1] * 256) \div 58
    IN  carry

\* multiply by 256 and add the byte
AddByte(b) == [i \in DOMAIN buffer |-> (Carries(b)[i] + buffer[i] * 256) % 58]

Init ==
    /\ input \in UNION {[1..n -> Bytes] : n \in 0..MaxLen}
    /\ k = Zeros + 1
    /\ buffer = [i \in 1..Size(Len(input) - Zeros) |-> 0]

Next ==
    /\ k <= Len(input)
    /\ buffer' = AddByte(input[k])
    /\ k' = k + 1
    /\ UNCHANGED input

\* the number that digits stand for
Value(digits, base) ==
    LET value[i \in 0..Len(digits)] == IF i = 0 THEN 0 ELSE value[i - 1] * base + digits[i]
    IN  value[Len(digits)]

\* After every byte the buffer is the number read so far: the room that Size gives
\* is enough, and no carry is lost.
EncodesPrefix == Value(buffer, 58) = Value(SubSeq(input, 1, k - 1), 256)
=============================================================================

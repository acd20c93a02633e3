------------------------------- MODULE Shamir -------------------------------
(***************************************************************************)
(* Shamir's secret sharing over GF(256), as the browser SDK and the Rust   *)
(* crate both compute it.  A byte is a number below 256, a secret a        *)
(* sequence of bytes, a share an index and one byte of data per byte of    *)
(* the secret.  The random coefficients are an argument of the split.      *)
(***************************************************************************)
EXTENDS Integers, Sequences, FiniteSets

Byte == 0..255

(* The refusal of a call: no secret is empty. *)
ShamirError == <<>>

Bit(n, i) == (n \div 2^i) % 2

(* a ^ b, bit by bit, tabulated. *)
Xor ==
    [a \in Byte |-> [b \in Byte |->
        LET d(i) == 2^i * ((Bit(a, i) + Bit(b, i)) % 2)
        IN  d(0) + d(1) + d(2) + d(3) + d(4) + d(5) + d(6) + d(7)]]

gfAdd(a, b) == Xor[a][b]

Reduce(a) == IF a > 255 THEN Xor[a % 256][27] ELSE a

Double(a) == Reduce(2 * a)

(* Russian peasant multiplication: a is doubled once per bit of b, and     *)
(* added where the bit is set.                                             *)
Product[a \in Byte, b \in Byte] ==
    IF b = 0 THEN 0
    ELSE LET rest == Product[Double(a), b \div 2]
         IN  IF b % 2 = 1 THEN Xor[a][rest] ELSE rest

(* The same, tabulated. *)
Products == [a \in Byte |-> [b \in Byte |-> Product[a, b]]]

gfMul(a, b) == Products[a][b]

(* a^254 by square and multiply: the bits 1 to 7 of the exponent are set.  *)
(* The inverse of zero is undefined.                                       *)
Inverses ==
    LET square(x) == gfMul(x, x)
        power[a \in Byte, i \in 0..7] == IF i = 0 THEN a ELSE square(power[a, i - 1])
        result[a \in Byte, i \in 0..7] ==
            IF i = 0 THEN 1 ELSE gfMul(result[a, i - 1], power[a, i])
    IN  [a \in Byte \ {0} |-> result[a, 7]]

gfInv(a) == Inverses[a]

-----------------------------------------------------------------------------
(***************************************************************************)
(* What the proofs use of the three tables.  These are closed formulas,    *)
(* which TLC evaluates for every byte.  That the laws of a field hold for  *)
(* all bytes where they are stated here for numbers with one bit set is    *)
(* proved from them.                                                       *)
(***************************************************************************)
OneBit == {1, 2, 4, 8, 16, 32, 64, 128}

ASSUME TablesAssumption ==
    /\ \A a, b \in Byte :
          /\ gfAdd(a, b) \in Byte /\ gfAdd(a, b) = gfAdd(b, a)
          /\ gfMul(a, b) \in Byte /\ gfMul(a, b) = gfMul(b, a)
    /\ \A a \in Byte :
          /\ gfAdd(a, 0) = a /\ gfAdd(a, a) = 0
          /\ gfMul(a, 1) = a /\ gfMul(a, 0) = 0
    /\ \A a \in Byte \ {0} : gfInv(a) \in Byte /\ gfMul(a, gfInv(a)) = 1
    /\ \A a, b \in Byte, p \in OneBit :
          /\ gfAdd(gfAdd(a, b), p) = gfAdd(a, gfAdd(b, p))
          /\ gfMul(gfMul(a, b), p) = gfMul(a, gfMul(b, p))
          /\ gfMul(a, gfAdd(b, p)) = gfAdd(gfMul(a, b), gfMul(a, p))
    /\ \A b \in 1..255 : \E p \in OneBit : gfAdd(b, p) < b

-----------------------------------------------------------------------------
(* Taking the coefficients in the order they stand, a slip.                *)
HornerForward(coeffs, x) ==
    LET y[i \in 0..Len(coeffs)] ==
            IF i = 0 THEN 0 ELSE gfAdd(gfMul(y[i - 1], x), coeffs[i])
    IN  y[Len(coeffs)]

(* Leaving out the last coefficient, a slip.                               *)
HornerShort(coeffs, x) ==
    LET y[i \in 1..Len(coeffs)] ==
            IF i = Len(coeffs) THEN 0 ELSE gfAdd(gfMul(y[i + 1], x), coeffs[i])
    IN  y[1]

(* Horner's method: P(x) for the coefficients from the constant term up.   *)
Horner(coeffs, x) ==
    LET y[i \in 1..(Len(coeffs) + 1)] ==
            IF i > Len(coeffs) THEN 0 ELSE gfAdd(gfMul(y[i + 1], x), coeffs[i])
    IN  y[1]

(* rng[k] are the threshold - 1 random coefficients of byte k.             *)
splitSecret(secret, threshold, numShares, rng) ==
    IF \/ numShares \notin 1..255
       \/ threshold \notin 1..numShares
       \/ secret = <<>>
    THEN ShamirError
    ELSE [i \in 1..numShares |->
            [index |-> i,
             data  |-> [k \in DOMAIN secret |->
                           Horner(<<secret[k]>> \o rng[k], i)]]]

(* The two loops of the reconstruction: the sum and the product of the     *)
(* first n of the bytes f[1], f[2], ...                                    *)
FieldSum(f, n) ==
    LET sum[i \in 0..n] == IF i = 0 THEN 0 ELSE gfAdd(sum[i - 1], f[i])
    IN  sum[n]

FieldProduct(f, n) ==
    LET product[i \in 0..n] == IF i = 0 THEN 1 ELSE gfMul(product[i - 1], f[i])
    IN  product[n]

(* The Lagrange coefficient at 0 of share i; the share itself is skipped.  *)
Lagrange(shares, i) ==
    LET x(j) == shares[j].index
        num  == [j \in DOMAIN shares |-> IF j = i THEN 1 ELSE x(j)]
        den  == [j \in DOMAIN shares |-> IF j = i THEN 1 ELSE gfAdd(x(i), x(j))]
    IN  gfMul(FieldProduct(num, Len(shares)), gfInv(FieldProduct(den, Len(shares))))

Combinable(shares) ==
    /\ shares # <<>>
    /\ \A i, j \in DOMAIN shares : Len(shares[i].data) = Len(shares[j].data)
    /\ \A i \in DOMAIN shares : shares[i].index # 0
    /\ \A i, j \in DOMAIN shares : i # j => shares[i].index # shares[j].index

reconstructSecret(shares) ==
    IF ~Combinable(shares)
    THEN ShamirError
    ELSE LET weight == [i \in DOMAIN shares |-> Lagrange(shares, i)]
         IN  [k \in DOMAIN shares[1].data |->
                 FieldSum([i \in DOMAIN shares |-> gfMul(shares[i].data[k], weight[i])],
                          Len(shares))]
=============================================================================

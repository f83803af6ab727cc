------------------------------ MODULE BlobEval ------------------------------
(***************************************************************************)
(* The evaluation of a data blob (crypto/blobs): the polynomial that takes *)
(* the values of the cells on the bit-reversed roots of unity is evaluated *)
(* at a point outside or on that domain, natively by the barycentric       *)
(* formula and in the circuit from quotients that a hint supplies.         *)
(***************************************************************************)
EXTENDS Integers, FiniteSets, FiniteSetsExt

CONSTANTS
    Modulus,            \* BLS12-381 Fr, the field of the blobs
    NativeModulus,      \* BN254 Fr, the field of the circuit
    RootOfUnity, RootExponent,
    DomainBits,         \* log2 of the number of cells
    OmegaHex,           \* the generated table of the domain
    CellValues          \* the values tried for a cell

Cells == 0 .. 2 ^ DomainBits - 1

ASSUME BlobAssumption ==
    /\ NativeModulus < Modulus /\ CellValues \subseteq 0 .. NativeModulus - 1
    /\ DomainBits \in Nat /\ OmegaHex \in [Cells -> 0 .. Modulus - 1]

VARIABLES
    blob,               \* the cells
    point,              \* z, a hash: any value of the native field
    claim               \* y, -1 before it is computed

blobVars == <<blob, point, claim>>

----------------------------------------------------------------------------
(* The field                                                               *)

Plus(a, b) == (a + b) % Modulus
Minus(a, b) == (a - b) % Modulus
Times(a, b) == (a * b) % Modulus
ModInverse(a) == CHOOSE x \in 1 .. Modulus - 1 : Times(a, x) = 1
Power(a, n) == LET pow[i \in 0 .. n] == IF i = 0 THEN 1 ELSE Times(a, pow[i - 1]) IN pow[n]
SumOver(S, Term(_)) == MapThenSumSet(Term, S) % Modulus

\* The value at z of the polynomial through the cells, as the KZG library that
\* ComputeProof calls defines it (Lagrange; its domain is bit-reversed too).
Interpolate(cells, z) ==
    LET Basis(i) == FoldSet(LAMBDA j, acc : Times(acc, Times(Minus(z, OmegaHex[j]),
                                                ModInverse(Minus(OmegaHex[i], OmegaHex[j])))),
                            1, Cells \ {i})
    IN  SumOver(Cells, LAMBDA i : Times(cells[i], Basis(i)))

----------------------------------------------------------------------------
(* The native evaluation                                                   *)

bitReverse(n, log2n) ==
    MapThenSumSet(LAMBDA i : IF (n \div 2 ^ i) % 2 = 1 THEN 2 ^ (log2n - 1 - i) ELSE 0,
                  0 .. log2n - 1)

\* The domain: the powers of the generator, permuted.
Omega(i) == Power(Power(RootOfUnity, RootExponent), bitReverse(i, DomainBits))

\* EvaluateBarycentricNative: a point of the domain is looked up, any other
\* needs (z^n - 1) / n times the sum of d_i w_i / (z - w_i).
EvaluateBarycentricNative(cells, z) ==
    LET hits == {i \in Cells : Omega(i) = z}
        sum == SumOver(Cells, LAMBDA i :
                    Times(Times(cells[i], Omega(i)), ModInverse(Minus(z, Omega(i)))))
        n == Cardinality(Cells)
        factor == Times(Minus(Power(z, n), 1), ModInverse(n))
    IN  IF hits # {} THEN cells[CHOOSE i \in hits : \A j \in hits : i <= j] ELSE Times(sum, factor)

----------------------------------------------------------------------------
(* The circuit                                                             *)

\* Mutant of computeQuot: the sum is not weighted by the roots.
computeQuotPlain(y, z, cells) ==
    LET q == [i \in Cells |-> IF OmegaHex[i] = z THEN 0
                              ELSE Times(Minus(cells[i], y), ModInverse(Minus(OmegaHex[i], z)))]
    IN  [q |-> q, sum |-> SumOver(Cells, LAMBDA i : q[i])]

\* computeQuot, the hint: q_i = (d_i - y) / (w_i - z), and the sum of q_i w_i.
computeQuot(y, z, cells) ==
    LET q == [i \in Cells |-> IF OmegaHex[i] = z THEN 0
                              ELSE Times(Minus(cells[i], y), ModInverse(Minus(OmegaHex[i], z)))]
    IN  [q |-> q, sum |-> SumOver(Cells, LAMBDA i : Times(q[i], OmegaHex[i]))]

\* VerifyBarycentricEvaluation with the values of that hint.
VerifyBarycentricEvaluation(z, y, cells) ==
    LET hint == computeQuot(y, z, cells)
        hits == {i \in Cells : OmegaHex[i] = z}
    IN  /\ \A i \in Cells \ hits : Minus(cells[i], y) = Times(hint.q[i], Minus(OmegaHex[i], z))
        /\ \A i \in hits : hint.q[i] = 0 /\ cells[i] = y
        /\ hint.sum = 0

\* liftNativeBN254ToEmulated: the canonical representative of a native value.
Lift(native) == CHOOSE e \in 0 .. NativeModulus - 1 : e % NativeModulus = native

\* The part of VerifyFullBlobEvaluationBN254 before the KZG proof: the cells and
\* the point come from the native field.
VerifyFullBlobEvaluation(z, y, cells) ==
    VerifyBarycentricEvaluation(Lift(z % NativeModulus), y,
                                [i \in Cells |-> Lift(cells[i] % NativeModulus)])

----------------------------------------------------------------------------

BlobInit ==
    /\ blob \in [Cells -> CellValues]
    /\ point \in 0 .. NativeModulus - 1
    /\ claim = -1

\* BlobEvalData.Set: the claim of the opening proof.
Set ==
    /\ claim = -1
    /\ claim' = Interpolate(blob, point)
    /\ UNCHANGED <<blob, point>>

BlobNext == Set

----------------------------------------------------------------------------
(* Properties                                                              *)

\* Three evaluations of one polynomial agree.  The native one gives the claim of
\* the KZG library for every blob and point, the points of the domain included;
\* the circuit accepts that claim outside the domain and no other value
\* anywhere, although the quotients it checks with come from a hint.
EvaluationsAgree ==
    claim # -1 =>
        /\ EvaluateBarycentricNative(blob, point) = claim
        /\ \A y \in 0 .. Modulus - 1 : VerifyFullBlobEvaluation(point, y, blob) => y = claim
        /\ (\A i \in Cells : OmegaHex[i] # point) => VerifyFullBlobEvaluation(point, claim, blob)
=============================================================================

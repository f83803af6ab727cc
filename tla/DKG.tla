-------------------------------- MODULE DKG ---------------------------------
(***************************************************************************)
(* The distributed key of crypto/elgamal/dkg: every participant deals a    *)
(* secret polynomial in shares, checks the shares it receives against the  *)
(* dealer's commitments and adds them up to its share of a private key     *)
(* nobody holds; a threshold of participants decrypts and proves it.       *)
(***************************************************************************)
EXTENDS ElGamal, FiniteSetsExt, TLC

CONSTANTS
    Participants,       \* their IDs, the points the polynomials are evaluated at
    Threshold,
    Coefficients,       \* the values the random coefficients are drawn from
    Corruptions         \* what a share may be off by when it arrives, 0 included

ASSUME DKGAssumption ==
    /\ Participants \subseteq 1 .. Order - 1 /\ Threshold \in 1 .. Cardinality(Participants)
    /\ Coefficients \subseteq 0 .. Order - 1 /\ Corruptions \subseteq 0 .. Order - 1

VARIABLES
    secretCoeffs,       \* dealer -> its coefficients, <<>> before it has drawn them
    receivedShares,     \* participant -> (dealer -> share) for the dealers accepted
    privateShare        \* participant -> its share of the key

dkgVars == <<secretCoeffs, receivedShares, privateShare>>

PowerOf(x, n) == LET pow[i \in 0 .. n] == IF i = 0 THEN 1 ELSE (pow[i - 1] * x) % Order IN pow[n]

evaluatePolynomial(coeffs, x) ==
    MapThenSumSet(LAMBDA i : (coeffs[i] * PowerOf(x, i - 1)) % Order, 1 .. Len(coeffs)) % Order

PublicCoeffs(dealer) ==
    [i \in DOMAIN secretCoeffs[dealer] |-> ScalarBaseMult(secretCoeffs[dealer][i])]

\* Mutant of verifyShare: every share is accepted.
verifyShareNever(p, share, commitments) == TRUE

\* The other's secret is in the exponents only: the same sum over the commitments.
verifyShare(p, share, commitments) ==
    ScalarBaseMult(share)
        = MapThenSumSet(LAMBDA i : ScalarMult(commitments[i], PowerOf(p, i - 1)),
                        1 .. Len(commitments)) % Order

----------------------------------------------------------------------------

DKGInit ==
    /\ secretCoeffs = [p \in Participants |-> <<>>]
    /\ receivedShares = [p \in Participants |-> <<>>]
    /\ privateShare = [p \in Participants |-> 0]

GenerateSecretPolynomial(p) ==
    /\ secretCoeffs[p] = <<>>
    /\ \E coeffs \in [1 .. Threshold -> Coefficients] :
        secretCoeffs' = [secretCoeffs EXCEPT ![p] = coeffs]
    /\ UNCHANGED <<receivedShares, privateShare>>

\* The share dealt for p, possibly damaged on the way; the other dealers' only
\* (a participant counts its own share when it aggregates).
ReceiveShare(p, from, corruption) ==
    LET share == (evaluatePolynomial(secretCoeffs[from], p) + corruption) % Order
    IN  /\ from # p /\ secretCoeffs[from] # <<>>
        /\ receivedShares' =
               IF verifyShare(p, share, PublicCoeffs(from))
               THEN [receivedShares EXCEPT ![p] = (from :> share) @@ @]
               ELSE receivedShares
        /\ UNCHANGED <<secretCoeffs, privateShare>>

\* The participant's own share and those it has accepted.
SumOfShares(p) ==
    (evaluatePolynomial(secretCoeffs[p], p)
        + MapThenSumSet(LAMBDA q : receivedShares[p][q], DOMAIN receivedShares[p])) % Order

\* May be called again once more shares have arrived: it starts from scratch.
AggregateShares(p) ==
    /\ secretCoeffs[p] # <<>>
    /\ privateShare' = [privateShare EXCEPT ![p] = SumOfShares(p)]
    /\ UNCHANGED <<secretCoeffs, receivedShares>>

DKGNext ==
    \E p \in Participants :
        \/ GenerateSecretPolynomial(p)
        \/ \E from \in Participants, corruption \in Corruptions : ReceiveShare(p, from, corruption)
        \/ AggregateShares(p)

----------------------------------------------------------------------------
(* Decryption by a set of participants                                     *)

AggregatePublicKey ==
    MapThenSumSet(LAMBDA p : PublicCoeffs(p)[1], Participants) % Order

InverseModOrder(a) == CHOOSE x \in 1 .. Order - 1 : (a * x) % Order = 1

LagrangeCoefficient(i, who) ==
    FoldSet(LAMBDA j, acc : (acc * Neg(j) * InverseModOrder((i - j) % Order)) % Order, 1, who \ {i})

ComputePartialDecryption(p, c1) == ScalarMult(c1, privateShare[p])

CombinePartialDecryptions(c, who, max) ==
    LET s == MapThenSumSet(LAMBDA p : ScalarMult(ComputePartialDecryption(p, c.C1),
                                                 LagrangeCoefficient(p, who)), who) % Order
    IN  BabyStepGiantStepECC(Add(c.C2, Neg(s)), Generator, max)

\* Every participant commits with a nonce of its own; the challenge is that of
\* the summed commitments.
DistributedProof(c, msg, who, nonce) ==
    LET A1 == MapThenSumSet(LAMBDA p : ScalarBaseMult(nonce[p]), who) % Order
        A2 == MapThenSumSet(LAMBDA p : ScalarMult(c.C1, nonce[p]), who) % Order
        e  == Challenge(AggregatePublicKey, c, msg, A1, A2)
        partZ(p) == (nonce[p] + e * LagrangeCoefficient(p, who) * privateShare[p]) % Order
    IN  [A1 |-> A1, A2 |-> A2, Z |-> MapThenSumSet(partZ, who) % Order]

----------------------------------------------------------------------------
(* Properties                                                              *)

\* Whatever the order in which shares arrive, are damaged, refused and
\* aggregated, once every participant has every share and has aggregated it,
\* any Threshold of them recover a message encrypted to the aggregated public
\* key, and the proof they assemble is accepted (dkg.go, decrypt.go, proof.go).
ThresholdDecrypts ==
    (\A p \in Participants : DOMAIN receivedShares[p] = Participants \ {p}
                            /\ privateShare[p] = SumOfShares(p))
    => \A who \in {S \in SUBSET Participants : Cardinality(S) >= Threshold},
          msg \in VoteValues, k \in Nonces :
        LET c == EncryptWithK(AggregatePublicKey, msg, k)
        IN  /\ CombinePartialDecryptions(c, who, Order - 1) = msg
            /\ VerifyDecryptionProof(AggregatePublicKey, c, msg,
                                     DistributedProof(c, msg, who, [p \in who |-> k + p]))
=============================================================================

------------------------------ MODULE ElGamal -------------------------------
(***************************************************************************)
(* The encrypted tally (crypto/elgamal). Ballots of several fields are     *)
(* encrypted, re-encrypted with a chained nonce, added up, and the sum is  *)
(* decrypted by a bounded search for a discrete logarithm and shown to be  *)
(* the decryption by a Chaum-Pedersen proof.                               *)
(*                                                                         *)
(* A point of the curve is represented by its logarithm to the generator,  *)
(* so that Add is addition and ScalarMult multiplication modulo Order; no  *)
(* operator reads a logarithm except by comparing points.                  *)
(***************************************************************************)
EXTENDS Integers, Sequences, FiniteSets

CONSTANTS
    Order,              \* the prime order of the group
    Fields,             \* FieldsPerBallot
    PrivateKeys,        \* the keys tried
    VoteValues,         \* the values of a field
    Nonces,             \* the k chosen by the voters
    MaxTally            \* bound: the ballots added up

ASSUME ElGamalAssumption ==
    /\ Order \in Nat /\ Order > 2 /\ Fields \in Nat \ {0} /\ MaxTally \in Nat
    /\ \A a, b \in 1 .. Order - 1 : (a * b) % Order # 0
    /\ PrivateKeys \subseteq 1 .. Order - 1 /\ Nonces \subseteq 1 .. Order - 1
    /\ \A v \in VoteValues : v \in Nat /\ v * MaxTally < Order

VARIABLES
    privateKey,
    sum,                \* the encrypted sum of the ballots, one ciphertext a field
    lastK,              \* the nonce the next re-encryption starts from
    cast                \* the messages of the ballots added so far

elGamalVars == <<privateKey, sum, lastK, cast>>

Generator == 1
Identity == 0
Add(p, q) == (p + q) % Order
Neg(p) == (Order - p) % Order
ScalarMult(p, n) == (p * n) % Order
ScalarBaseMult(n) == ScalarMult(Generator, n)

\* A stand-in for the Poseidon hash: mixes its inputs and is never zero.
MultiPoseidon(inputs) ==
    LET mix[i \in 0 .. Len(inputs)] ==
            IF i = 0 THEN 5 ELSE (7 * mix[i - 1] + inputs[i] + 3) % (Order - 1)
    IN  1 + mix[Len(inputs)]

----------------------------------------------------------------------------
(* Ciphertexts and ballots                                                 *)

EncryptWithK(pubKey, msg, k) ==
    [C1 |-> ScalarBaseMult(k),
     C2 |-> Add(ScalarBaseMult(msg % Order), ScalarMult(pubKey, k))]

EncryptedZero(pubKey, k) == EncryptWithK(pubKey, 0, k)

\* Each field has a nonce of its own: the hash of the nonce of the one before.
FieldNonces(first) ==
    LET k[i \in 1 .. Fields] == IF i = 1 THEN first ELSE MultiPoseidon(<<k[i - 1]>>) IN k

EncryptBallot(message, pubKey, k) ==
    LET nonce == FieldNonces(MultiPoseidon(<<k>>))
    IN  [i \in 1 .. Fields |-> EncryptWithK(pubKey, message[i], nonce[i])]

AddBallots(x, y) ==
    [i \in 1 .. Fields |-> [C1 |-> Add(x[i].C1, y[i].C1), C2 |-> Add(x[i].C2, y[i].C2)]]

\* The nonce used is returned, and is the k of the next re-encryption.
Reencrypt(ballot, pubKey, k) ==
    LET reencryptionK == MultiPoseidon(<<k>>)
        nonce == FieldNonces(reencryptionK)
    IN  [ballot |-> AddBallots(ballot,
                               [i \in 1 .. Fields |-> EncryptedZero(pubKey, nonce[i])]),
         k      |-> reencryptionK]

----------------------------------------------------------------------------
(* Decryption                                                              *)

NotFound == -1

SqrtCeil(n) == CHOOSE m \in 0 .. n : m * m >= n /\ (m = 0 \/ (m - 1) * (m - 1) < n)

\* Mutant of GiantSteps: the loop ends one step early.
GiantStepsShort(m) == 0 .. m - 1

\* Baby steps j*G for j < m, giant steps beta - i*m*G for i <= m; the first
\* giant step found in the table whose logarithm is in the interval.
GiantSteps(m) == 0 .. m

BabyStepGiantStepECC(beta, alpha, max) ==
    LET m == SqrtCeil(max)
        table == [j \in 0 .. m - 1 |-> ScalarMult(alpha, j)]
        giant(i) == Add(beta, Neg(ScalarMult(alpha, i * m)))
        Hits == {x \in {i * m + j : i \in GiantSteps(m), j \in 0 .. m - 1} :
                    x <= max /\ table[x % m] = giant(x \div m)}
    IN  CASE max = 0 /\ beta = Identity -> 0
          [] max = 0 /\ beta # Identity -> NotFound
          [] max > 0 /\ Hits = {} -> NotFound
          [] OTHER -> CHOOSE x \in Hits : \A y \in Hits : x <= y

Decrypt(key, c, max) ==
    BabyStepGiantStepECC(Add(c.C2, Neg(ScalarMult(c.C1, key))), Generator, max)

----------------------------------------------------------------------------
(* The proof of a decryption                                               *)

SharedSecret(c, msg) == Add(c.C2, Neg(ScalarBaseMult(msg % Order)))

Challenge(pubKey, c, msg, A1, A2) ==
    MultiPoseidon(<<pubKey, pubKey, c.C1, SharedSecret(c, msg), A1, A2>>)

BuildDecryptionProof(key, pubKey, c, msg, r) ==
    LET A1 == ScalarBaseMult(r)
        A2 == ScalarMult(c.C1, r)
    IN  [A1 |-> A1, A2 |-> A2, Z |-> (r + Challenge(pubKey, c, msg, A1, A2) * key) % Order]

VerifyDecryptionProof(pubKey, c, msg, proof) ==
    LET e == Challenge(pubKey, c, msg, proof.A1, proof.A2)
    IN  /\ ScalarBaseMult(proof.Z) = Add(proof.A1, ScalarMult(pubKey, e))
        /\ ScalarMult(c.C1, proof.Z) = Add(proof.A2, ScalarMult(SharedSecret(c, msg), e))

----------------------------------------------------------------------------
(* A tally                                                                 *)

publicKey == ScalarBaseMult(privateKey)

ElGamalInit ==
    /\ privateKey \in PrivateKeys
    /\ sum = [i \in 1 .. Fields |-> [C1 |-> Identity, C2 |-> Identity]]
    /\ lastK \in Nonces
    /\ cast = <<>>

\* A voter encrypts a ballot, the sequencer re-encrypts it and the state adds it.
Tally(message, k) ==
    LET re == Reencrypt(EncryptBallot(message, publicKey, k), publicKey, lastK)
    IN  /\ Len(cast) < MaxTally
        /\ sum' = AddBallots(sum, re.ballot)
        /\ lastK' = re.k
        /\ cast' = Append(cast, message)
        /\ UNCHANGED privateKey

ElGamalNext == \E message \in [1 .. Fields -> VoteValues], k \in Nonces : Tally(message, k)

ElGamalSpec == ElGamalInit /\ [][ElGamalNext]_elGamalVars

----------------------------------------------------------------------------
(* Properties                                                              *)

\* The votes for field i in messages c.
TotalOf(c, i) ==
    LET upTo[n \in 0 .. Len(c)] == IF n = 0 THEN 0 ELSE upTo[n - 1] + c[n][i]
    IN  upTo[Len(c)]

Total(i) == TotalOf(cast, i)

\* Decrypt recovers the sum of the votes of each field exactly when the sum is
\* at most the bound it searches up to, for every bound, whatever the ballots and
\* the nonces they were encrypted and re-encrypted with (elgamal.go: the search
\* interval [0,maxMessage] is inclusive).  The proof that the key holder builds
\* for that sum is accepted, and one built in the same way for any other message
\* is refused (proof.go).
TallyDecrypts ==
    \A i \in 1 .. Fields :
        /\ \A max \in 0 .. Order - 1 :
               Decrypt(privateKey, sum[i], max) = IF Total(i) <= max THEN Total(i) ELSE NotFound
        /\ \A msg \in 0 .. Order - 1, r \in Nonces :
               VerifyDecryptionProof(publicKey, sum[i], msg,
                       BuildDecryptionProof(privateKey, publicKey, sum[i], msg, r))
                   <=> msg = Total(i)
=============================================================================

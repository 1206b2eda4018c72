--------------------------- MODULE EncodingProofs ---------------------------
(***************************************************************************)
(* What is written is what is read: a proof by the contract and by the     *)
(* verify page, a verification key by the contract, the public signals by  *)
(* both, and an amount by the form it is put into; and what is said of a   *)
(* contract's error is about that error.                                   *)
(***************************************************************************)
EXTENDS Encoding, Errors, SequenceTheorems, TLAPS

LEMMA Joined ==
  ASSUME NEW s \in Seq(Int), NEW t \in Seq(Int)
  PROVE  /\ s \o t \in Seq(Int)
         /\ Len(s \o t) = Len(s) + Len(t)
         /\ \A i \in 1..Len(s) : (s \o t)[i] = s[i]
         /\ \A i \in 1..Len(t) : (s \o t)[Len(s) + i] = t[i]
<1>1. s \o t \in Seq(Int) /\ Len(s \o t) = Len(s) + Len(t)
  BY ConcatProperties
<1>2. \A i \in 1..(Len(s) + Len(t)) :
        (s \o t)[i] = IF i <= Len(s) THEN s[i] ELSE t[i - Len(s)]
  BY ConcatProperties
<1>3. Len(s) \in Nat /\ Len(t) \in Nat
  OBVIOUS
<1> QED
  BY <1>1, <1>2, <1>3

(***************************************************************************)
(* A point is its coordinates, and its words are they in another order.    *)
(***************************************************************************)
LEMMA G1Words ==
  ASSUME NEW p \in G1
  PROVE  /\ p = <<p[1], p[2], 1>> /\ p[1] \in Int /\ p[2] \in Int
         /\ SerializeG1(p) \in Seq(Int) /\ Len(SerializeG1(p)) = 2
         /\ SerializeG1(p)[1] = p[1] /\ SerializeG1(p)[2] = p[2]
<1>1. p = <<p[1], p[2], 1>> /\ p[1] \in Int /\ p[2] \in Int
  BY DEF G1, Canonical
<1> QED
  BY <1>1 DEF SerializeG1

LEMMA G2Words ==
  ASSUME NEW p \in G2
  PROVE  /\ p = <<<<p[1][1], p[1][2]>>, <<p[2][1], p[2][2]>>, <<1, 0>>>>
         /\ SerializeG2(p) \in Seq(Int) /\ Len(SerializeG2(p)) = 4
         /\ SerializeG2(p)[1] = p[1][2] /\ SerializeG2(p)[2] = p[1][1]
         /\ SerializeG2(p)[3] = p[2][2] /\ SerializeG2(p)[4] = p[2][1]
<1>1. p = <<<<p[1][1], p[1][2]>>, <<p[2][1], p[2][2]>>, <<1, 0>>>>
  BY DEF G2, Canonical
<1>2. /\ p[1][1] \in Int /\ p[1][2] \in Int
      /\ p[2][1] \in Int /\ p[2][2] \in Int
  BY DEF G2, Canonical
<1> QED
  BY <1>1, <1>2 DEF SerializeG2

(***************************************************************************)
(* The contract reads a point where the words of the point are.            *)
(***************************************************************************)
LEMMA Sliced ==
  ASSUME NEW words \in Seq(Int), NEW start \in Nat, NEW size \in Nat,
         start + size <= Len(words)
  PROVE  \A i \in 1..size : Slice(words, start, size)[i] = words[start + i]
<1>1. \A i \in 1..(start + size - (start + 1) + 1) :
        SubSeq(words, start + 1, start + size)[i] = words[start + 1 + i - 1]
  BY SubSeqProperties
<1> QED
  BY <1>1 DEF Slice

LEMMA G1Found ==
  ASSUME NEW words \in Seq(Int), NEW start \in Nat, start + 2 <= Len(words)
  PROVE  G1At(words, start) = <<words[start + 1], words[start + 2], 1>>
<1> DEFINE slice == Slice(words, start, G1Size)
<1>1. \A i \in 1..2 : slice[i] = words[start + i]
  BY Sliced DEF G1Size
<1>2. G1At(words, start) = <<slice[1], slice[2], 1>>
  BY DEF G1At
<1> QED
  BY <1>1, <1>2

LEMMA G2Found ==
  ASSUME NEW words \in Seq(Int), NEW start \in Nat, start + 4 <= Len(words)
  PROVE  G2At(words, start) = <<<<words[start + 2], words[start + 1]>>,
                                <<words[start + 4], words[start + 3]>>,
                                <<1, 0>>>>
<1> DEFINE slice == Slice(words, start, G2Size)
<1>1. \A i \in 1..4 : slice[i] = words[start + i]
  BY Sliced DEF G2Size
<1>2. G2At(words, start) =
        <<<<slice[2], slice[1]>>, <<slice[4], slice[3]>>, <<1, 0>>>>
  BY DEF G2At
<1> HIDE DEF slice
<1> QED
  BY <1>1, <1>2

-----------------------------------------------------------------------------
(***************************************************************************)
(* The eight words of a proof, one by one.                                 *)
(***************************************************************************)
LEMMA WordsOfProof ==
  ASSUME NEW proof \in Proofs
  PROVE  LET words == SerializeProof(proof)
         IN  /\ words \in Seq(Int) /\ Len(words) = 8
             /\ words[1] = proof.pi_a[1] /\ words[2] = proof.pi_a[2]
             /\ words[3] = proof.pi_b[1][2] /\ words[4] = proof.pi_b[1][1]
             /\ words[5] = proof.pi_b[2][2] /\ words[6] = proof.pi_b[2][1]
             /\ words[7] = proof.pi_c[1] /\ words[8] = proof.pi_c[2]
<1> DEFINE a  == SerializeG1(proof.pi_a)
           b  == SerializeG2(proof.pi_b)
           c  == SerializeG1(proof.pi_c)
           ab == a \o b
           words == ab \o c
<1>1. /\ a \in Seq(Int) /\ Len(a) = 2
      /\ a[1] = proof.pi_a[1] /\ a[2] = proof.pi_a[2]
  BY G1Words DEF Proofs
<1>2. /\ b \in Seq(Int) /\ Len(b) = 4
      /\ b[1] = proof.pi_b[1][2] /\ b[2] = proof.pi_b[1][1]
      /\ b[3] = proof.pi_b[2][2] /\ b[4] = proof.pi_b[2][1]
  BY G2Words DEF Proofs
<1>3. /\ c \in Seq(Int) /\ Len(c) = 2
      /\ c[1] = proof.pi_c[1] /\ c[2] = proof.pi_c[2]
  BY G1Words DEF Proofs
<1>4. SerializeProof(proof) = words
  BY DEF SerializeProof
<1> HIDE DEF a, b, c
<1>5. /\ ab \in Seq(Int) /\ Len(ab) = Len(a) + Len(b)
      /\ \A i \in 1..Len(a) : ab[i] = a[i]
      /\ \A i \in 1..Len(b) : ab[Len(a) + i] = b[i]
  BY <1>1, <1>2, Joined
<1>6. /\ Len(ab) = 6 /\ ab[1] = a[1] /\ ab[2] = a[2]
      /\ ab[3] = b[1] /\ ab[4] = b[2] /\ ab[5] = b[3] /\ ab[6] = b[4]
  <2> HIDE DEF ab
  <2>1. ab[2 + 1] = b[1] /\ ab[2 + 2] = b[2] /\ ab[2 + 3] = b[3] /\ ab[2 + 4] = b[4]
    BY <1>1, <1>2, <1>5
  <2> QED
    BY <2>1, <1>1, <1>2, <1>5
<1> HIDE DEF ab
<1>7. /\ words \in Seq(Int) /\ Len(words) = Len(ab) + Len(c)
      /\ \A i \in 1..Len(ab) : words[i] = ab[i]
      /\ \A i \in 1..Len(c) : words[Len(ab) + i] = c[i]
  BY <1>3, <1>5, Joined
<1>8. /\ Len(words) = 8
      /\ words[1] = ab[1] /\ words[2] = ab[2] /\ words[3] = ab[3]
      /\ words[4] = ab[4] /\ words[5] = ab[5] /\ words[6] = ab[6]
      /\ words[7] = c[1] /\ words[8] = c[2]
  <2> HIDE DEF words
  <2>1. words[6 + 1] = c[1] /\ words[6 + 2] = c[2]
    BY <1>3, <1>6, <1>7
  <2> QED
    BY <2>1, <1>3, <1>6, <1>7
<1> HIDE DEF words
<1> QED
  BY <1>1, <1>2, <1>3, <1>4, <1>6, <1>7, <1>8

(***************************************************************************)
(* deserializeProof undoes serializeProof: the page verifies the very      *)
(* proof that was submitted.                                               *)
(***************************************************************************)
THEOREM DeserializeInverts ==
  ASSUME NEW proof \in Proofs
  PROVE  DeserializeProof(SerializeProof(proof)) = proof
<1> DEFINE words == SerializeProof(proof)
<1>1. /\ words[1] = proof.pi_a[1] /\ words[2] = proof.pi_a[2]
      /\ words[3] = proof.pi_b[1][2] /\ words[4] = proof.pi_b[1][1]
      /\ words[5] = proof.pi_b[2][2] /\ words[6] = proof.pi_b[2][1]
      /\ words[7] = proof.pi_c[1] /\ words[8] = proof.pi_c[2]
  BY WordsOfProof
<1>2. /\ proof.pi_a = <<proof.pi_a[1], proof.pi_a[2], 1>>
      /\ proof.pi_b = <<<<proof.pi_b[1][1], proof.pi_b[1][2]>>,
                        <<proof.pi_b[2][1], proof.pi_b[2][2]>>, <<1, 0>>>>
      /\ proof.pi_c = <<proof.pi_c[1], proof.pi_c[2], 1>>
  BY G1Words, G2Words DEF Proofs
<1> HIDE DEF words
<1>3. DeserializeProof(words) =
        [pi_a |-> proof.pi_a, pi_b |-> proof.pi_b, pi_c |-> proof.pi_c]
  BY <1>1, <1>2 DEF DeserializeProof, FieldAt
<1>4. proof = [pi_a |-> proof.pi_a, pi_b |-> proof.pi_b, pi_c |-> proof.pi_c]
  BY DEF Proofs
<1> QED
  BY <1>3, <1>4 DEF words

(***************************************************************************)
(* The contract pairs the points of the proof it was sent: its offsets and *)
(* the order of the halves of G2 are the serializers'.                     *)
(***************************************************************************)
THEOREM ContractReadsProof ==
  ASSUME NEW proof \in Proofs
  PROVE  /\ Len(SerializeProof(proof)) = ProofSize
         /\ ProofRead(SerializeProof(proof)) = proof
<1> DEFINE words == SerializeProof(proof)
<1>0. words \in Seq(Int) /\ Len(words) = 8
  BY WordsOfProof
<1>1. /\ words[1] = proof.pi_a[1] /\ words[2] = proof.pi_a[2]
      /\ words[3] = proof.pi_b[1][2] /\ words[4] = proof.pi_b[1][1]
      /\ words[5] = proof.pi_b[2][2] /\ words[6] = proof.pi_b[2][1]
      /\ words[7] = proof.pi_c[1] /\ words[8] = proof.pi_c[2]
  BY WordsOfProof
<1>2. /\ proof.pi_a = <<proof.pi_a[1], proof.pi_a[2], 1>>
      /\ proof.pi_b = <<<<proof.pi_b[1][1], proof.pi_b[1][2]>>,
                        <<proof.pi_b[2][1], proof.pi_b[2][2]>>, <<1, 0>>>>
      /\ proof.pi_c = <<proof.pi_c[1], proof.pi_c[2], 1>>
  BY G1Words, G2Words DEF Proofs
<1> HIDE DEF words
<1>3. G1At(words, 0) = proof.pi_a
  <2>1. 0 \in Nat /\ 0 + 2 <= Len(words)
    BY <1>0
  <2>2. G1At(words, 0) = <<words[0 + 1], words[0 + 2], 1>>
    BY <2>1, <1>0, G1Found, Zenon
  <2> QED
    BY <2>2, <1>1, <1>2
<1>4. G2At(words, 2) = proof.pi_b
  <2>1. 2 \in Nat /\ 2 + 4 <= Len(words)
    BY <1>0
  <2>2. G2At(words, 2) = <<<<words[2 + 2], words[2 + 1]>>,
                          <<words[2 + 4], words[2 + 3]>>, <<1, 0>>>>
    BY <2>1, <1>0, G2Found, Zenon
  <2> QED
    BY <2>2, <1>1, <1>2
<1>5. G1At(words, 6) = proof.pi_c
  <2>1. 6 \in Nat /\ 6 + 2 <= Len(words)
    BY <1>0
  <2>2. G1At(words, 6) = <<words[6 + 1], words[6 + 2], 1>>
    BY <2>1, <1>0, G1Found, Zenon
  <2> QED
    BY <2>2, <1>1, <1>2
<1>6. ProofRead(words) =
        [pi_a |-> proof.pi_a, pi_b |-> proof.pi_b, pi_c |-> proof.pi_c]
  BY <1>3, <1>4, <1>5 DEF ProofRead, G1Size, G2Size
<1>7. proof = [pi_a |-> proof.pi_a, pi_b |-> proof.pi_b, pi_c |-> proof.pi_c]
  BY DEF Proofs
<1> QED
  BY <1>0, <1>6, <1>7 DEF words, ProofSize, G1Size, G2Size

-----------------------------------------------------------------------------
(***************************************************************************)
(* The words of the points of a key that are not IC points, the number of  *)
(* IC points, and theirs.                                                  *)
(***************************************************************************)
LEMMA WordsOfIC ==
  ASSUME NEW points \in Seq(G1)
  PROVE  /\ SerializeIC(points) \in Seq(Int)
         /\ Len(SerializeIC(points)) = 2 * Len(points)
         /\ \A k \in 1..Len(points) :
              /\ SerializeIC(points)[2 * k - 1] = points[k][1]
              /\ SerializeIC(points)[2 * k] = points[k][2]
<1> DEFINE n == Len(points)
           word(i) == SerializeG1(points[(i + 1) \div 2])[IF i % 2 = 1 THEN 1 ELSE 2]
<1>1. n \in Nat
  OBVIOUS
<1>2. ASSUME NEW i \in 1..(2 * n)
      PROVE  word(i) \in Int
  <2>1. (i + 1) \div 2 \in 1..n
    BY <1>1
  <2>2. points[(i + 1) \div 2] \in G1
    BY <2>1
  <2> QED
    BY <2>2, G1Words
<1>3. SerializeIC(points) = [i \in 1..(2 * n) |-> word(i)]
  BY DEF SerializeIC
<1>4. ASSUME NEW k \in 1..n
      PROVE  word(2 * k - 1) = points[k][1] /\ word(2 * k) = points[k][2]
  <2>1. points[k] \in G1
    OBVIOUS
  <2>2. /\ (2 * k - 1 + 1) \div 2 = k /\ (2 * k + 1) \div 2 = k
        /\ (2 * k - 1) % 2 = 1 /\ (2 * k) % 2 = 0
    BY <1>1
  <2> QED
    <3>1. /\ SerializeG1(points[k])[1] = points[k][1]
          /\ SerializeG1(points[k])[2] = points[k][2]
      BY <2>1, G1Words
    <3> QED
      BY <2>2, <3>1
<1> HIDE DEF word
<1>5. SerializeIC(points) \in Seq(Int) /\ Len(SerializeIC(points)) = 2 * n
  BY <1>1, <1>2, <1>3
<1>6. ASSUME NEW k \in 1..n
      PROVE  /\ SerializeIC(points)[2 * k - 1] = points[k][1]
             /\ SerializeIC(points)[2 * k] = points[k][2]
  <2>1. 2 * k - 1 \in 1..(2 * n) /\ 2 * k \in 1..(2 * n)
    BY <1>1
  <2> QED
    BY <2>1, <1>3, <1>4
<1> QED
  BY <1>5, <1>6

LEMMA WordsOfKey ==
  ASSUME NEW vk \in VerificationKeys
  PROVE  LET words == SerializeVerificationKey(vk)
         IN  /\ words \in Seq(Int) /\ Len(words) = 15 + 2 * Len(vk.IC)
             /\ \A i \in 1..2 : words[i] = SerializeG1(vk.vk_alpha_1)[i]
             /\ \A i \in 1..4 : words[2 + i] = SerializeG2(vk.vk_beta_2)[i]
             /\ \A i \in 1..4 : words[6 + i] = SerializeG2(vk.vk_gamma_2)[i]
             /\ \A i \in 1..4 : words[10 + i] = SerializeG2(vk.vk_delta_2)[i]
             /\ words[15] = Len(vk.IC)
             /\ \A i \in 1..(2 * Len(vk.IC)) : words[15 + i] = SerializeIC(vk.IC)[i]
<1> DEFINE a  == SerializeG1(vk.vk_alpha_1)
           b  == SerializeG2(vk.vk_beta_2)
           c  == SerializeG2(vk.vk_gamma_2)
           d  == SerializeG2(vk.vk_delta_2)
           n  == <<Len(vk.IC)>>
           ic == SerializeIC(vk.IC)
           s1 == a \o b
           s2 == s1 \o c
           s3 == s2 \o d
           s4 == s3 \o n
           words == s4 \o ic
<1>1. /\ vk.vk_alpha_1 \in G1 /\ vk.vk_beta_2 \in G2
      /\ vk.vk_gamma_2 \in G2 /\ vk.vk_delta_2 \in G2
      /\ vk.IC \in Seq(G1)
  BY DEF VerificationKeys
<1>2. /\ a \in Seq(Int) /\ Len(a) = 2
      /\ b \in Seq(Int) /\ Len(b) = 4
      /\ c \in Seq(Int) /\ Len(c) = 4
      /\ d \in Seq(Int) /\ Len(d) = 4
  BY <1>1, G1Words, G2Words
<1>3. n \in Seq(Int) /\ Len(n) = 1 /\ n[1] = Len(vk.IC)
  <2>1. Len(vk.IC) \in Int
    BY <1>1
  <2> QED
    BY <2>1
<1>4. ic \in Seq(Int) /\ Len(ic) = 2 * Len(vk.IC) /\ Len(vk.IC) \in Nat
  BY <1>1, WordsOfIC
<1>5. SerializeVerificationKey(vk) = words
  BY DEF SerializeVerificationKey
<1> HIDE DEF a, b, c, d, n, ic
<1>6. /\ s1 \in Seq(Int) /\ Len(s1) = 6
      /\ \A i \in 1..2 : s1[i] = a[i]
      /\ \A i \in 1..4 : s1[2 + i] = b[i]
  <2>1. /\ s1 \in Seq(Int) /\ Len(s1) = Len(a) + Len(b)
        /\ \A i \in 1..Len(a) : s1[i] = a[i]
        /\ \A i \in 1..Len(b) : s1[Len(a) + i] = b[i]
    BY <1>2, Joined
  <2> HIDE DEF s1
  <2> QED
    BY <2>1, <1>2
<1> HIDE DEF s1
<1>7. /\ s2 \in Seq(Int) /\ Len(s2) = 10
      /\ \A i \in 1..6 : s2[i] = s1[i]
      /\ \A i \in 1..4 : s2[6 + i] = c[i]
  <2>1. /\ s2 \in Seq(Int) /\ Len(s2) = Len(s1) + Len(c)
        /\ \A i \in 1..Len(s1) : s2[i] = s1[i]
        /\ \A i \in 1..Len(c) : s2[Len(s1) + i] = c[i]
    BY <1>2, <1>6, Joined
  <2> HIDE DEF s2
  <2> QED
    BY <2>1, <1>2, <1>6
<1> HIDE DEF s2
<1>8. /\ s3 \in Seq(Int) /\ Len(s3) = 14
      /\ \A i \in 1..10 : s3[i] = s2[i]
      /\ \A i \in 1..4 : s3[10 + i] = d[i]
  <2>1. /\ s3 \in Seq(Int) /\ Len(s3) = Len(s2) + Len(d)
        /\ \A i \in 1..Len(s2) : s3[i] = s2[i]
        /\ \A i \in 1..Len(d) : s3[Len(s2) + i] = d[i]
    BY <1>2, <1>7, Joined
  <2> HIDE DEF s3
  <2> QED
    BY <2>1, <1>2, <1>7
<1> HIDE DEF s3
<1>9. /\ s4 \in Seq(Int) /\ Len(s4) = 15
      /\ \A i \in 1..14 : s4[i] = s3[i]
      /\ \A i \in 1..1 : s4[14 + i] = n[i]
  <2>1. /\ s4 \in Seq(Int) /\ Len(s4) = Len(s3) + Len(n)
        /\ \A i \in 1..Len(s3) : s4[i] = s3[i]
        /\ \A i \in 1..Len(n) : s4[Len(s3) + i] = n[i]
    BY <1>3, <1>8, Joined
  <2> HIDE DEF s4
  <2> QED
    BY <2>1, <1>3, <1>8
<1> HIDE DEF s4
<1>10. /\ words \in Seq(Int) /\ Len(words) = 15 + 2 * Len(vk.IC)
       /\ \A i \in 1..15 : words[i] = s4[i]
       /\ \A i \in 1..(2 * Len(vk.IC)) : words[15 + i] = ic[i]
  <2>1. /\ words \in Seq(Int) /\ Len(words) = Len(s4) + Len(ic)
        /\ \A i \in 1..Len(s4) : words[i] = s4[i]
        /\ \A i \in 1..Len(ic) : words[Len(s4) + i] = ic[i]
    BY <1>4, <1>9, Joined
  <2> HIDE DEF words
  <2> QED
    BY <2>1, <1>4, <1>9
<1> HIDE DEF words
<1>11. \A i \in 1..14 : words[i] = s3[i]
  <2> TAKE i \in 1..14
  <2>1. i \in 1..15
    OBVIOUS
  <2> QED
    BY <2>1, <1>9, <1>10, Zenon
<1>12. \A i \in 1..10 : words[i] = s2[i]
  BY <1>8, <1>11
<1>13. \A i \in 1..6 : words[i] = s1[i]
  BY <1>7, <1>12
<1>14. words[15] = Len(vk.IC)
  <2>1. s4[14 + 1] = n[1] /\ words[15] = s4[15]
    BY <1>9, <1>10
  <2> QED
    BY <2>1, <1>3
<1>15. \A i \in 1..4 : words[10 + i] = d[i]
  <2> TAKE i \in 1..4
  <2>1. 10 + i \in 1..14
    OBVIOUS
  <2> QED
    BY <2>1, <1>8, <1>11
<1>16. \A i \in 1..4 : words[6 + i] = c[i]
  <2> TAKE i \in 1..4
  <2>1. 6 + i \in 1..10
    OBVIOUS
  <2> QED
    BY <2>1, <1>7, <1>12
<1>17. \A i \in 1..4 : words[2 + i] = b[i]
  <2> TAKE i \in 1..4
  <2>1. 2 + i \in 1..6
    OBVIOUS
  <2> QED
    BY <2>1, <1>6, <1>13
<1>18. \A i \in 1..2 : words[i] = a[i]
  BY <1>6, <1>13
<1>19. /\ \A i \in 1..2 : words[i] = SerializeG1(vk.vk_alpha_1)[i]
       /\ \A i \in 1..4 : words[2 + i] = SerializeG2(vk.vk_beta_2)[i]
       /\ \A i \in 1..4 : words[6 + i] = SerializeG2(vk.vk_gamma_2)[i]
       /\ \A i \in 1..4 : words[10 + i] = SerializeG2(vk.vk_delta_2)[i]
       /\ \A i \in 1..(2 * Len(vk.IC)) : words[15 + i] = SerializeIC(vk.IC)[i]
  <2>1. \A i \in 1..2 : words[i] = SerializeG1(vk.vk_alpha_1)[i]
    BY <1>18, Zenon DEF a
  <2>2. \A i \in 1..4 : words[2 + i] = SerializeG2(vk.vk_beta_2)[i]
    BY <1>17, Zenon DEF b
  <2>3. \A i \in 1..4 : words[6 + i] = SerializeG2(vk.vk_gamma_2)[i]
    BY <1>16, Zenon DEF c
  <2>4. \A i \in 1..4 : words[10 + i] = SerializeG2(vk.vk_delta_2)[i]
    BY <1>15, Zenon DEF d
  <2>5. \A i \in 1..(2 * Len(vk.IC)) : words[15 + i] = SerializeIC(vk.IC)[i]
    <3>1. \A i \in 1..(2 * Len(vk.IC)) : words[15 + i] = ic[i]
      BY <1>10
    <3> QED
      BY <3>1, Zenon DEF ic
  <2> QED
    BY <2>1, <2>2, <2>3, <2>4, <2>5, Zenon
<1> QED
  BY <1>5, <1>10, <1>14, <1>19, Zenon

(***************************************************************************)
(* The contract verifies with the key that was deployed: every point it    *)
(* reads from the serialized key is the key's.                             *)
(***************************************************************************)
THEOREM ContractReadsKey ==
  ASSUME NEW vk \in VerificationKeys
  PROVE  KeyRead(SerializeVerificationKey(vk)) = vk
<1> DEFINE words == SerializeVerificationKey(vk)
           len   == Len(vk.IC)
<1>1. /\ vk.vk_alpha_1 \in G1 /\ vk.vk_beta_2 \in G2
      /\ vk.vk_gamma_2 \in G2 /\ vk.vk_delta_2 \in G2
      /\ vk.IC \in Seq(G1) /\ len \in Nat
      /\ vk.IC = [i \in 1..len |-> vk.IC[i]]
  BY DEF VerificationKeys
<1>2. words \in Seq(Int) /\ Len(words) = 15 + 2 * len
  BY WordsOfKey
<1>3. /\ \A i \in 1..2 : words[i] = SerializeG1(vk.vk_alpha_1)[i]
      /\ \A i \in 1..4 : words[2 + i] = SerializeG2(vk.vk_beta_2)[i]
      /\ \A i \in 1..4 : words[6 + i] = SerializeG2(vk.vk_gamma_2)[i]
      /\ \A i \in 1..4 : words[10 + i] = SerializeG2(vk.vk_delta_2)[i]
      /\ words[15] = len
      /\ \A i \in 1..(2 * len) : words[15 + i] = SerializeIC(vk.IC)[i]
  BY WordsOfKey
<1> HIDE DEF words
<1>4. G1At(words, 0) = vk.vk_alpha_1
  <2>1. 0 \in Nat /\ 0 + 2 <= Len(words)
    BY <1>1, <1>2
  <2>2. G1At(words, 0) = <<words[0 + 1], words[0 + 2], 1>>
    BY <2>1, <1>2, G1Found, Zenon
  <2>3. words[0 + 1] = vk.vk_alpha_1[1] /\ words[0 + 2] = vk.vk_alpha_1[2]
    BY <1>1, <1>3, G1Words
  <2> QED
    BY <2>2, <2>3, <1>1, G1Words
<1>5. ASSUME NEW start \in {2, 6, 10}, NEW p \in G2,
             \A i \in 1..4 : words[start + i] = SerializeG2(p)[i]
      PROVE  G2At(words, start) = p
  <2>1. start \in Nat /\ start + 4 <= Len(words)
    BY <1>1, <1>2
  <2>2. G2At(words, start) = <<<<words[start + 2], words[start + 1]>>,
                              <<words[start + 4], words[start + 3]>>, <<1, 0>>>>
    BY <2>1, <1>2, G2Found, Zenon
  <2>3. /\ words[start + 1] = p[1][2] /\ words[start + 2] = p[1][1]
        /\ words[start + 3] = p[2][2] /\ words[start + 4] = p[2][1]
    BY <1>5, G2Words
  <2> QED
    BY <2>2, <2>3, G2Words
<1>6. /\ G2At(words, 2) = vk.vk_beta_2
      /\ G2At(words, 6) = vk.vk_gamma_2
      /\ G2At(words, 10) = vk.vk_delta_2
  BY <1>1, <1>3, <1>5
<1>7. ASSUME NEW i \in 1..len
      PROVE  G1At(words, 15 + (i - 1) * 2) = vk.IC[i]
  <2> DEFINE start == 15 + (i - 1) * 2
  <2>1. start \in Nat /\ start + 2 <= 15 + 2 * len
    BY <1>1
  <2>2. /\ start + 1 = 15 + (2 * i - 1) /\ 2 * i - 1 \in 1..(2 * len)
        /\ start + 2 = 15 + 2 * i /\ 2 * i \in 1..(2 * len)
    BY <1>1
  <2> HIDE DEF start
  <2>3. G1At(words, start) = <<words[start + 1], words[start + 2], 1>>
    <3>1. start + 2 <= Len(words)
      BY <2>1, <1>2
    <3> QED
      BY <3>1, <2>1, <1>2, G1Found, Zenon
  <2>4. words[start + 1] = vk.IC[i][1] /\ words[start + 2] = vk.IC[i][2]
    <3>1. /\ SerializeIC(vk.IC)[2 * i - 1] = vk.IC[i][1]
          /\ SerializeIC(vk.IC)[2 * i] = vk.IC[i][2]
      BY <1>1, WordsOfIC
    <3> QED
      BY <1>3, <2>2, <3>1
  <2>5. vk.IC[i] \in G1
    BY <1>1
  <2> QED
    BY <2>3, <2>4, <2>5, G1Words DEF start
<1>8. IcLen(words) = len
  BY <1>3 DEF IcLen, VkFixedSize, G1Size, G2Size
<1>9. [i \in 1..IcLen(words) |-> G1At(words, VkFixedSize + (i - 1) * G1Size)] = vk.IC
  BY <1>1, <1>7, <1>8 DEF VkFixedSize, G1Size, G2Size
<1>10. KeyRead(words) =
         [vk_alpha_1 |-> vk.vk_alpha_1, vk_beta_2 |-> vk.vk_beta_2,
          vk_gamma_2 |-> vk.vk_gamma_2, vk_delta_2 |-> vk.vk_delta_2,
          IC |-> vk.IC]
  <2>1. /\ G1Size = 2 /\ G1Size + G2Size = 6 /\ G1Size + G2Size * 2 = 10
    BY DEF G1Size, G2Size
  <2> QED
    BY <2>1, <1>4, <1>6, <1>9, Zenon DEF KeyRead
<1>11. vk = [vk_alpha_1 |-> vk.vk_alpha_1, vk_beta_2 |-> vk.vk_beta_2,
             vk_gamma_2 |-> vk.vk_gamma_2, vk_delta_2 |-> vk.vk_delta_2,
             IC |-> vk.IC]
  BY DEF VerificationKeys
<1> QED
  BY <1>10, <1>11 DEF words

(***************************************************************************)
(* verify's checks of the lengths refuse no proof for its own circuit and  *)
(* nothing but a wrong number of public inputs.                            *)
(***************************************************************************)
THEOREM LengthsAreRight ==
  ASSUME NEW vk \in VerificationKeys, NEW proof \in Proofs, NEW inputs \in Seq(Int)
  PROVE  LengthsFit(SerializeVerificationKey(vk), SerializeProof(proof), inputs)
           <=> Len(inputs) + 1 = Len(vk.IC)
<1> DEFINE key == SerializeVerificationKey(vk)
           len == Len(vk.IC)
<1>1. Len(key) = 15 + 2 * len /\ key[15] = len
  BY WordsOfKey
<1>2. len \in Nat /\ len # 0
  <2>1. vk.IC \in Seq(G1) /\ vk.IC # << >>
    BY DEF VerificationKeys
  <2> QED
    BY <2>1, EmptySeq
<1>3. Len(SerializeProof(proof)) = ProofSize
  BY ContractReadsProof
<1> HIDE DEF key, len
<1> QED
  <2>1. LengthsFit(key, SerializeProof(proof), inputs) <=> Len(inputs) + 1 = len
    BY <1>1, <1>2, <1>3
    DEF LengthsFit, IcLen, VkFixedSize, ProofSize, G1Size, G2Size
  <2> QED
    BY <2>1 DEF key, len

(***************************************************************************)
(* The contract, and the pages that show them, take each public signal for *)
(* what the circuit computed it as.                                        *)
(***************************************************************************)
THEOREM StatementIsReadBack ==
  ASSUME NEW statement \in Statements
  PROVE  /\ StatementRead(SerializePublicSignals(PublicSignals(statement))) = statement
         /\ DecodePublicInputs(PublicSignals(statement)) = statement
<1> DEFINE signals == PublicSignals(statement)
           words   == SerializePublicSignals(signals)
<1>1. /\ Len(signals) = 4
      /\ signals[1] = statement.merkle_root /\ signals[2] = statement.amount
      /\ signals[3] = statement.nullifier /\ signals[4] = statement.epoch
  BY DEF PublicSignals
<1>2. statement = [merkle_root |-> statement.merkle_root, amount |-> statement.amount,
                   nullifier |-> statement.nullifier, epoch |-> statement.epoch]
  BY DEF Statements
<1> HIDE DEF signals
<1>3. \A i \in 1..4 : words[i][1] = signals[i]
  BY <1>1 DEF SerializePublicSignals
<1> HIDE DEF words
<1>4. StatementRead(words) = statement
  BY <1>1, <1>2, <1>3 DEF StatementRead
<1>5. DecodePublicInputs(signals) = statement
  <2> DEFINE at(name) == CHOOSE i \in 1..4 : PublicInputOrder[i] = name
  <2>1. /\ at("merkle_root") = 1 /\ at("amount") = 2
        /\ at("nullifier") = 3 /\ at("epoch") = 4
    BY DEF PublicInputOrder
  <2>2. {PublicInputOrder[i] : i \in 1..4}
          = {"merkle_root", "amount", "nullifier", "epoch"}
    BY DEF PublicInputOrder
  <2> HIDE DEF at
  <2>3. DecodePublicInputs(signals) =
          [name \in {"merkle_root", "amount", "nullifier", "epoch"} |-> signals[at(name)]]
    BY <2>2 DEF DecodePublicInputs, at
  <2> QED
    BY <2>1, <2>3, <1>1, <1>2
<1> QED
  BY <1>4, <1>5 DEF words, signals

-----------------------------------------------------------------------------
(* The last digit that is not zero is one of the seven, or none.           *)
LEMMA LastDigitBounds ==
  ASSUME NEW fraction \in [1..Decimals -> Digits]
  PROVE  /\ LastDigit(fraction) \in 0..Decimals
         /\ \A i \in 1..Decimals : i > LastDigit(fraction) => fraction[i] = 0
<1> DEFINE positions == {0} \cup {i \in 1..Decimals : fraction[i] # 0}
<1>1. positions \subseteq 0..7 /\ 0 \in positions
  BY DEF Decimals
<1>2. \E m \in positions : \A p \in positions : m >= p
  <2> HIDE DEF positions
  <2> SUFFICES ASSUME \A m \in positions : \E p \in positions : p > m
               PROVE  FALSE
    BY <1>1
  <2>1. \E p \in positions : p > 0
    BY <1>1
  <2>2. \E p \in positions : p > 1
    BY <2>1, <1>1
  <2>3. \E p \in positions : p > 2
    BY <2>2, <1>1
  <2>4. \E p \in positions : p > 3
    BY <2>3, <1>1
  <2>5. \E p \in positions : p > 4
    BY <2>4, <1>1
  <2>6. \E p \in positions : p > 5
    BY <2>5, <1>1
  <2>7. \E p \in positions : p > 6
    BY <2>6, <1>1
  <2> QED
    BY <2>7, <1>1
<1>3. /\ LastDigit(fraction) \in positions
      /\ \A p \in positions : LastDigit(fraction) >= p
  BY <1>2 DEF LastDigit, Max
<1>4. LastDigit(fraction) \in 0..7
  BY <1>1, <1>3
<1>5. ASSUME NEW i \in 1..7, i > LastDigit(fraction), fraction[i] # 0
      PROVE  FALSE
  BY <1>3, <1>4, <1>5 DEF Decimals
<1> QED
  BY <1>4, <1>5 DEF Decimals

(***************************************************************************)
(* The default amount and the amount of an imported package, written into  *)
(* the form, are accepted and read as the same number of base units; what  *)
(* the pages show is accepted as it stands below a thousand only           *)
(* (subscription.ts, utils.ts, subscribe-modal.tsx onImport).              *)
(***************************************************************************)
THEOREM AmountsSurvive ==
  ASSUME NEW amount \in BaseUnits
  PROVE  /\ \A human \in {FormatBaseUnits(amount), TypedIn(FormatMockUsdc(amount))} :
              IsAmount(human) /\ ParseMockUsdc(human) = amount
         /\ IsAmount(FormatMockUsdc(amount)) <=> amount.whole < 1000
<1> DEFINE fraction == amount.fraction
           last     == LastDigit(fraction)
           digits   == SubSeq(fraction, 1, last)
<1>1. /\ fraction \in [1..Decimals -> Digits]
      /\ amount = [whole |-> amount.whole, fraction |-> fraction]
  BY DEF BaseUnits
<1>2. /\ last \in 0..7
      /\ \A i \in 1..7 : i > last => fraction[i] = 0
  BY <1>1, LastDigitBounds DEF Decimals
<1> HIDE DEF last
<1>3. \A i \in 1..last : fraction[i] \in Digits
  BY <1>1, <1>2 DEF Decimals
<1>4. /\ Len(digits) = last
      /\ \A i \in 1..last : digits[i] = fraction[i]
  <2>1. /\ Len(digits) = IF 1 <= last THEN last - 1 + 1 ELSE 0
        /\ \A i \in 1..(last - 1 + 1) : digits[i] = fraction[1 + i - 1]
    BY <1>2, <1>3, SubSeqProperties
  <2> HIDE DEF digits
  <2> QED
    BY <2>1, <1>2
<1>5. FormatBaseUnits(amount) =
        [whole |-> amount.whole, separator |-> "none", digits |-> digits]
  BY DEF FormatBaseUnits, last
<1> HIDE DEF digits
<1>6. [i \in 1..Decimals |-> IF i <= Len(digits) THEN digits[i] ELSE 0] = fraction
  <2>1. \A i \in 1..7 : (IF i <= Len(digits) THEN digits[i] ELSE 0) = fraction[i]
    BY <1>2, <1>4
  <2> QED
    BY <2>1, <1>1 DEF Decimals
<1>7. TypedIn(FormatMockUsdc(amount)) = FormatBaseUnits(amount)
  <2>1. \E separator : FormatMockUsdc(amount) =
          [whole |-> amount.whole, separator |-> separator, digits |-> digits]
    BY <1>5 DEF FormatMockUsdc
  <2> QED
    BY <2>1, <1>5 DEF TypedIn
<1>8. /\ IsAmount(FormatBaseUnits(amount))
      /\ ParseMockUsdc(FormatBaseUnits(amount)) = amount
  BY <1>1, <1>5, <1>6 DEF ParseMockUsdc, IsAmount
<1>9. IsAmount(FormatMockUsdc(amount)) <=> amount.whole < 1000
  <2>1. amount.whole \in Nat
    BY DEF BaseUnits
  <2> QED
    BY <1>5, <2>1 DEF FormatMockUsdc, IsAmount
<1> QED
  BY <1>7, <1>8, <1>9

-----------------------------------------------------------------------------
LEMMA FirstIs ==
  ASSUME NEW text \in Texts, NEW forms, NEW i, IsFirst(text, i, forms)
  PROVE  Has(text, forms) /\ FirstCode(text, forms) = text.marks[i].code
<1>1. i \in DOMAIN text.marks /\ DOMAIN text.marks \subseteq Nat
  BY DEF IsFirst, Texts
<1>2. ASSUME NEW j \in DOMAIN text.marks, IsFirst(text, j, forms)
      PROVE  j = i
  <2>1. CASE j < i
    <3>1. j \in 1..(i - 1)
      BY <1>1, <1>2, <2>1 DEF Texts
    <3> QED
      BY <3>1, <1>2 DEF IsFirst
  <2>2. CASE i < j
    <3>1. i \in 1..(j - 1)
      BY <1>1, <1>2, <2>2 DEF Texts
    <3> QED
      BY <3>1, <1>2 DEF IsFirst
  <2> QED
    BY <1>1, <2>1, <2>2
<1>3. (CHOOSE j \in DOMAIN text.marks : IsFirst(text, j, forms)) = i
  BY <1>1, <1>2
<1> QED
  BY <1>1, <1>3 DEF FirstCode, Has, IsFirst

(***************************************************************************)
(* The page names the error of the contract that was called, which the     *)
(* host writes first, whatever contracts were called after it, whatever    *)
(* numbers and whatever words stand in the text (errors.ts).               *)
(***************************************************************************)
THEOREM OuterErrorIsNamed ==
  ASSUME NEW text \in Texts, NEW i, IsFirst(text, i, {"host"}),
         text.marks[i].code \in 1..8
  PROVE  DecodeError(text) = ContractErrors[text.marks[i].code]
<1>1. Has(text, {"host"}) /\ FirstCode(text, {"host"}) = text.marks[i].code
  BY FirstIs
<1>2. ExtractContractCode(text) = text.marks[i].code
  BY <1>1 DEF ExtractContractCode, ContractErrors
<1> QED
  BY <1>2 DEF DecodeError, NoCode

(***************************************************************************)
(* e2e.ts and the page find the same error where the host's mark is the    *)
(* first of those both look for, and it is one of the pool's errors.       *)
(***************************************************************************)
THEOREM ScriptAndPageAgree ==
  ASSUME NEW text \in Texts, NEW i, IsFirst(text, i, {"host", "named"}),
         text.marks[i].form = "host", text.marks[i].code \in 1..8
  PROVE  ContractErrorCode(text) = ExtractContractCode(text)
<1>1. IsFirst(text, i, {"host"})
  BY DEF IsFirst
<1>2. /\ Has(text, {"host"})
      /\ FirstCode(text, {"host"}) = text.marks[i].code
  BY <1>1, FirstIs
<1>3. /\ Has(text, {"host", "named"})
      /\ FirstCode(text, {"host", "named"}) = text.marks[i].code
  BY FirstIs
<1> QED
  BY <1>2, <1>3 DEF ContractErrorCode, ExtractContractCode, ContractErrors
=============================================================================

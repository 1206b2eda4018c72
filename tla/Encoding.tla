------------------------------ MODULE Encoding ------------------------------
(***************************************************************************)
(* How proofs, keys, public signals and amounts are written down: the      *)
(* scripts' serializer (src/serialization/groth16.ts), the browser's, with *)
(* its inverse (web/lib/zk/serialize.ts), the contract's reader            *)
(* (groth16.rs), and decimal amounts (web/lib/utils.ts, subscription.ts).  *)
(*                                                                         *)
(* A word of 32 bytes is the number in it, and bytes are sequences of      *)
(* words; the four bytes that hold the number of IC points are a word of   *)
(* their own, so that sizes and offsets count words.  Both serializers     *)
(* write the same words.                                                   *)
(***************************************************************************)
EXTENDS Integers, Sequences, FiniteSetsExt

CONSTANTS
  Fp,               \* BN254_FP_MODULUS
  Fr                \* BN254_FR_MODULUS

-----------------------------------------------------------------------------
(* snarkjs: coordinates as points of the plane, the third one being 1. *)

Canonical(modulus) == 0..(modulus - 1)

G1 == {<<x, y, 1>> : x \in Canonical(Fp), y \in Canonical(Fp)}
G2 == {<<<<x0, x1>>, <<y0, y1>>, <<1, 0>>>> :
         x0 \in Canonical(Fp), x1 \in Canonical(Fp),
         y0 \in Canonical(Fp), y1 \in Canonical(Fp)}

Proofs == [pi_a : G1, pi_b : G2, pi_c : G1]

VerificationKeys ==
  {vk \in [vk_alpha_1 : G1, vk_beta_2 : G2, vk_gamma_2 : G2, vk_delta_2 : G2,
           IC : Seq(G1)] : vk.IC # << >>}

-----------------------------------------------------------------------------
(* The serializers; what is not canonical is refused, see Proofs. *)

SerializeG1(point) == <<point[1], point[2]>>

SerializeG2(point) == <<point[1][2], point[1][1], point[2][2], point[2][1]>>

SerializeProof(proof) ==
  SerializeG1(proof.pi_a) \o SerializeG2(proof.pi_b) \o SerializeG1(proof.pi_c)

SerializeIC(points) ==
  [i \in 1..(2 * Len(points)) |->
     SerializeG1(points[(i + 1) \div 2])[IF i % 2 = 1 THEN 1 ELSE 2]]

SerializeVerificationKey(vk) ==
  SerializeG1(vk.vk_alpha_1) \o SerializeG2(vk.vk_beta_2)
    \o SerializeG2(vk.vk_gamma_2) \o SerializeG2(vk.vk_delta_2)
    \o <<Len(vk.IC)>> \o SerializeIC(vk.IC)

SerializePublicSignals(signals) == [i \in 1..Len(signals) |-> <<signals[i]>>]

FieldAt(bytes, i) == bytes[i + 1]

DeserializeProof(bytes) ==
  [pi_a |-> <<FieldAt(bytes, 0), FieldAt(bytes, 1), 1>>,
   pi_b |-> <<<<FieldAt(bytes, 3), FieldAt(bytes, 2)>>,
              <<FieldAt(bytes, 5), FieldAt(bytes, 4)>>,
              <<1, 0>>>>,
   pi_c |-> <<FieldAt(bytes, 6), FieldAt(bytes, 7), 1>>]

-----------------------------------------------------------------------------
(* The contract's reader. *)

G1Size      == 2
G2Size      == 4
ProofSize   == G1Size + G2Size + G1Size
VkFixedSize == G1Size + G2Size * 3 + 1

Slice(source, start, size) == SubSeq(source, start + 1, start + size)

\* The host takes the coordinates of G2 with the imaginary part first.
G1At(source, start) ==
  LET words == Slice(source, start, G1Size) IN <<words[1], words[2], 1>>

G2At(source, start) ==
  LET words == Slice(source, start, G2Size)
  IN  <<<<words[2], words[1]>>, <<words[4], words[3]>>, <<1, 0>>>>

IcLen(vk) == vk[VkFixedSize]

\* verify answers false unless every length is right.
LengthsFit(vk, proof, inputs) ==
  /\ Len(proof) = ProofSize
  /\ Len(vk) >= VkFixedSize
  /\ IcLen(vk) # 0
  /\ Len(inputs) + 1 = IcLen(vk)
  /\ Len(vk) = VkFixedSize + IcLen(vk) * G1Size

\* The points verify pairs, and those it adds up over the public inputs.
KeyRead(vk) ==
  [vk_alpha_1 |-> G1At(vk, 0),
   vk_beta_2  |-> G2At(vk, G1Size),
   vk_gamma_2 |-> G2At(vk, G1Size + G2Size),
   vk_delta_2 |-> G2At(vk, G1Size + G2Size * 2),
   IC         |-> [i \in 1..IcLen(vk) |->
                     G1At(vk, VkFixedSize + (i - 1) * G1Size)]]

ProofRead(proof) ==
  [pi_a |-> G1At(proof, 0),
   pi_b |-> G2At(proof, G1Size),
   pi_c |-> G1At(proof, G1Size + G2Size)]

-----------------------------------------------------------------------------
(* Public signals: the circuit's order, the page's and the contract's. *)

PublicSignals(statement) ==
  <<statement.merkle_root, statement.amount, statement.nullifier, statement.epoch>>

PublicInputOrder == <<"merkle_root", "amount", "nullifier", "epoch">>

DecodePublicInputs(signals) ==
  [name \in {PublicInputOrder[i] : i \in 1..4} |->
     signals[CHOOSE i \in 1..4 : PublicInputOrder[i] = name]]

\* Where subscribe finds each of them; signals are words, checked for width.
StatementRead(inputs) ==
  [merkle_root |-> inputs[1][1],
   amount      |-> inputs[2][1],
   epoch       |-> inputs[4][1],
   nullifier   |-> inputs[3][1]]

Statements ==
  [merkle_root : Canonical(Fr), amount : Canonical(Fr),
   nullifier : Canonical(Fr), epoch : Canonical(Fr)]

-----------------------------------------------------------------------------
(* Amounts: base units as a whole part and seven digits of fraction, and   *)
(* as people write them, with as many digits as they like and with or      *)
(* without commas in the whole part.                                       *)

Decimals == 7
Digits   == 0..9

BaseUnits == [whole : Nat, fraction : [1..Decimals -> Digits]]

\* The position of the last digit that is not zero.
LastDigit(fraction) == Max({0} \cup {i \in 1..Decimals : fraction[i] # 0})

\* The default amount of the form: the zeros at the end are left out.
FormatBaseUnits(amount) ==
  [whole |-> amount.whole, separator |-> "none",
   digits |-> SubSeq(amount.fraction, 1, LastDigit(amount.fraction))]

\* What the pages show: a comma before every three digits of the whole part.
FormatMockUsdc(amount) ==
  [FormatBaseUnits(amount) EXCEPT
     !.separator = IF amount.whole >= 1000 THEN "comma" ELSE "none"]

\* The import of a package takes the commas out before it fills the form.
TypedIn(shown) == [shown EXCEPT !.separator = "none"]

\* parseMockUsdc throws otherwise.
IsAmount(human) == human.separator = "none"

\* Digits beyond the seventh are cut off.
ParseMockUsdc(human) ==
  [whole |-> human.whole,
   fraction |-> [i \in 1..Decimals |->
                   IF i <= Len(human.digits) THEN human.digits[i] ELSE 0]]
=============================================================================

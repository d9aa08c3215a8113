---------------------------- MODULE LengthsProofs ----------------------------
(***************************************************************************)
(* What the services rely on in the arithmetic of Lengths, for any width   *)
(* of the machine integers and any input.                                  *)
(***************************************************************************)
EXTENDS Lengths, TLAPS

\* appendSignatureData refuses exactly what would exceed the limit: the
\* comparison by subtraction means the same as the sum, which could wrap.
THEOREM LimitExact ==
    ASSUME NEW size \in 0..MaxMultipart, NEW length \in 0..MaxUlong
    PROVE  OverLimit(size, length) <=> size + length > MaxMultipart
BY LengthsAssumption DEF OverLimit

LEMMA RoundUpExact ==
    ASSUME NEW n \in Nat, NEW unit \in {8, 16}
    PROVE  /\ RoundUp(n, unit) \in n..n + unit - 1
           /\ RoundUp(n, unit) % unit = 0
<1>1. CASE unit = 8
  BY <1>1 DEF RoundUp
<1>2. CASE unit = 16
  BY <1>2 DEF RoundUp
<1> QED BY <1>1, <1>2

\* The size that a query of C_WrapKey promises is the one that OpenSSL writes,
\* to the byte, and fits an int, which is how the cipher call counts.
THEOREM WrapSizeExact ==
    ASSUME NEW mechanism \in {"AES_KEY_WRAP", "AES_KEY_WRAP_PAD"},
           NEW n \in Nat, Wrappable(mechanism, n)
    PROVE  /\ IsWrappedLength(n, RequiredLength(mechanism, n))
           /\ \A written \in Nat : IsWrappedLength(n, written) =>
                  written = RequiredLength(mechanism, n)
           /\ RequiredLength(mechanism, n) <= MaxInt
<1>1. CASE mechanism = "AES_KEY_WRAP"
  <2>1. n % 8 = 0 /\ n <= MaxInt - 16
    BY <1>1 DEF Wrappable
  <2>2. RequiredLength(mechanism, n) = n + 8
    BY <1>1 DEF RequiredLength
  <2>3. \A padding \in 0..7 : (n + padding) % 8 = 0 <=> padding = 0
    BY <2>1
  <2> QED BY <2>1, <2>2, <2>3, LengthsAssumption DEF IsWrappedLength
<1>2. CASE mechanism = "AES_KEY_WRAP_PAD"
  <2>1. n <= MaxInt - 16
    BY DEF Wrappable
  <2>2. RequiredLength(mechanism, n) = RoundUp(n, 8) + 8
    BY <1>2 DEF RequiredLength
  <2>3. RoundUp(n, 8) \in n..n + 7 /\ RoundUp(n, 8) % 8 = 0
    BY RoundUpExact
  <2>4. PICK rounded \in Nat : rounded = RoundUp(n, 8)
    BY <2>3
  <2>5. rounded \in n..n + 7 /\ rounded % 8 = 0
    BY <2>3, <2>4
  <2>6. \A padding \in 0..7 : (n + padding) % 8 = 0 <=> n + padding = rounded
    BY <2>5
  <2>7. rounded - n \in 0..7
    BY <2>5
  <2> QED BY <2>1, <2>2, <2>4, <2>5, <2>6, <2>7, LengthsAssumption
          DEF IsWrappedLength
<1> QED BY <1>1, <1>2

\* DeriveKey never reads past the client's data and always has at least the
\* bytes that were requested: rounding to blocks stays below a length that is
\* a multiple of the block itself.
THEOREM DerivationInBounds ==
    ASSUME NEW dataLength \in Nat, NEW requested \in Nat,
           Derivable(dataLength, requested)
    PROVE  /\ requested <= UsedLength(requested)
           /\ UsedLength(requested) <= dataLength
           /\ UsedLength(requested) <= MaxInt
<1>1. UsedLength(requested) \in requested..requested + 15
      /\ UsedLength(requested) % 16 = 0
  BY RoundUpExact DEF UsedLength
<1>2. PICK used \in Nat : used = UsedLength(requested)
  BY <1>1
<1>3. used \in requested..requested + 15 /\ used % 16 = 0
  BY <1>1, <1>2
<1>4. /\ dataLength % 16 = 0 /\ requested <= dataLength
      /\ dataLength <= MaxInt - 16
  BY DEF Derivable
<1>5. used <= dataLength
  BY <1>3, <1>4
<1> QED BY <1>2, <1>3, <1>4, <1>5, LengthsAssumption

\* The bound on the salt of RSA-PSS is the one of the standard: the encoded
\* message takes the fewest bytes that hold all but one bit of the modulus.
THEOREM EncodedLengthExact ==
    ASSUME NEW bits \in Nat \ {0}
    PROVE  /\ 8 * EncodedLength(bits) >= bits - 1
           /\ 8 * (EncodedLength(bits) - 1) < bits - 1
BY DEF EncodedLength
=============================================================================

------------------------------- MODULE Lengths -------------------------------
(***************************************************************************)
(* The length arithmetic of the services, as the code computes it, in      *)
(* machine integers where a sum could leave them: the limit of multipart   *)
(* data (src/src/crypto/signature.cpp), the sizes of AES key wrapping      *)
(* (wrapping.cpp), the rounding of derivation data (derivation.cpp) and    *)
(* the salt of RSA-PSS.  LengthsProofs proves what the callers rely on.    *)
(***************************************************************************)
EXTENDS Integers

CONSTANTS
    MaxUlong,      \* the largest CK_ULONG and size_t: 2^32 - 1 or 2^64 - 1
    MaxInt,        \* the largest int
    MaxMultipart   \* maxMultipartBytes

ASSUME LengthsAssumption ==
    /\ MaxUlong \in Nat /\ MaxInt \in Nat /\ MaxMultipart \in Nat
    /\ 16 <= MaxInt
    /\ MaxInt < MaxUlong
    /\ MaxMultipart < MaxUlong

\* A sum of unsigned machine integers.
Sum(a, b) == (a + b) % (MaxUlong + 1)

-----------------------------------------------------------------------------
(* appendSignatureData                                                     *)

\* Mutant of OverLimit: the sum is tested, and wraps.
OverLimitSum(size, length) == Sum(size, length) > MaxMultipart

\* The subtraction is only evaluated when it cannot be negative.
OverLimit(size, length) ==
    length > MaxMultipart \/ size > MaxMultipart - length

-----------------------------------------------------------------------------
(* aesKeyWrap                                                              *)

RoundUp(n, unit) == ((n + unit - 1) \div unit) * unit

\* What the mechanism accepts as the bytes to wrap, or to unwrap.
Wrappable(mechanism, n) ==
    /\ n <= MaxInt - 16
    /\ mechanism = "AES_KEY_WRAP" => n % 8 = 0 /\ n >= 16
    /\ mechanism = "AES_KEY_WRAP_PAD" => n # 0

Unwrappable(mechanism, n) ==
    /\ n <= MaxInt - 16
    /\ n % 8 = 0
    /\ n >= IF mechanism = "AES_KEY_WRAP" THEN 24 ELSE 16

\* The size that a query is told and that the client's buffer must have.
RequiredLength(mechanism, n) ==
    IF mechanism = "AES_KEY_WRAP" THEN n + 8 ELSE RoundUp(n, 8) + 8

\* OpenSSL: a wrapped key is the input, padded with zeros to a multiple of
\* eight bytes, behind eight bytes of its own.
IsWrappedLength(n, written) ==
    \E padding \in 0..7 : (n + padding) % 8 = 0 /\ written = n + padding + 8

-----------------------------------------------------------------------------
(* DeriveKey                                                               *)

AesKeyLengths == {16, 24, 32}

Derivable(dataLength, requested) ==
    /\ dataLength # 0 /\ dataLength % 16 = 0 /\ dataLength <= MaxInt - 16
    /\ requested \in AesKeyLengths /\ requested <= dataLength

\* The bytes that are read from the data and encrypted.
UsedLength(requested) == RoundUp(requested, 16)

-----------------------------------------------------------------------------
(* initializeSignature: RSA-PSS                                            *)

\* EMSA-PSS encodes into the bytes that hold one bit less than the modulus.
EncodedLength(bits) == (bits + 6) \div 8

SaltFits(bits, hashLength, salt) ==
    /\ EncodedLength(bits) - hashLength - 2 >= 0
    /\ salt <= EncodedLength(bits) - hashLength - 2
=============================================================================

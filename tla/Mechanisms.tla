----------------------------- MODULE Mechanisms -----------------------------
(***************************************************************************)
(* The mechanism catalogue: the constant tables of src/src/crypto/         *)
(* mechanisms.cpp, the flags that GetMechanismInfo announces for them      *)
(* (src/src/pkcs11/token.cpp) and the parameter rules of RSA-PSS           *)
(* (src/src/crypto/signature.cpp).  The tables are kept apart in the code  *)
(* and have to agree.                                                      *)
(***************************************************************************)
EXTENDS Integers

KeyPairTypes == {"RSA", "EC", "ML_DSA", "SLH_DSA"}
Hashes == {"SHA256", "SHA384", "SHA512"}

RsaHashing == {"SHA256_RSA_PKCS", "SHA384_RSA_PKCS", "SHA512_RSA_PKCS"}
PssHashing ==
    {"SHA256_RSA_PKCS_PSS", "SHA384_RSA_PKCS_PSS", "SHA512_RSA_PKCS_PSS"}
EcHashing == {"ECDSA_SHA256", "ECDSA_SHA384", "ECDSA_SHA512"}
KeyPairGeneration ==
    {"RSA_PKCS_KEY_PAIR_GEN", "EC_KEY_PAIR_GEN", "ML_DSA_KEY_PAIR_GEN",
     "SLH_DSA_KEY_PAIR_GEN"}
Wrapping == {"AES_KEY_WRAP", "AES_KEY_WRAP_PAD"}

SupportedMechanisms ==
    {"AES_ECB_ENCRYPT_DATA", "AES_KEY_GEN", "RSA_PKCS", "RSA_PKCS_PSS", "ECDSA",
     "ML_DSA", "SLH_DSA"}
    \cup RsaHashing \cup PssHashing \cup EcHashing \cup KeyPairGeneration
    \cup Wrapping

IsRsaPss(mechanism) == mechanism \in {"RSA_PKCS_PSS"} \cup PssHashing

\* isRawSignature: the client hands over what is to be signed, in one piece.
IsRaw(mechanism) == mechanism \in {"RSA_PKCS", "ECDSA", "RSA_PKCS_PSS"}

\* supportsSignature
SignatureMechanisms(type) ==
    CASE type = "RSA"     -> {"RSA_PKCS", "RSA_PKCS_PSS"}
                             \cup RsaHashing \cup PssHashing
      [] type = "EC"      -> {"ECDSA"} \cup EcHashing
      [] type = "ML_DSA"  -> {"ML_DSA"}
      [] type = "SLH_DSA" -> {"SLH_DSA"}
      [] OTHER            -> {}

\* signatureDigest: none for the mechanisms that take prepared data.
SignatureDigest(mechanism) ==
    CASE mechanism \in {"SHA256_RSA_PKCS", "ECDSA_SHA256"} -> "SHA256"
      [] mechanism \in {"SHA384_RSA_PKCS", "ECDSA_SHA384"} -> "SHA384"
      [] mechanism \in {"SHA512_RSA_PKCS", "ECDSA_SHA512"} -> "SHA512"
      [] OTHER -> "none"

\* EVP_MD_get_size of pssDigest, in bytes
HashLength(hash) ==
    CASE hash = "SHA256" -> 32 [] hash = "SHA384" -> 48 [] OTHER -> 64

\* The hash that a PSS mechanism with a built-in one insists on.
ExpectedHash(mechanism, hash) ==
    CASE mechanism = "SHA256_RSA_PKCS_PSS" -> "SHA256"
      [] mechanism = "SHA384_RSA_PKCS_PSS" -> "SHA384"
      [] mechanism = "SHA512_RSA_PKCS_PSS" -> "SHA512"
      [] OTHER -> hash

\* generationAlgorithm: the type of key that a generation mechanism makes.
GeneratedType(mechanism) ==
    CASE mechanism = "RSA_PKCS_KEY_PAIR_GEN" -> "RSA"
      [] mechanism = "EC_KEY_PAIR_GEN"       -> "EC"
      [] mechanism = "ML_DSA_KEY_PAIR_GEN"   -> "ML_DSA"
      [] mechanism = "SLH_DSA_KEY_PAIR_GEN"  -> "SLH_DSA"
      [] OTHER -> "none"

\* The flags of GetMechanismInfo; the last branch takes all that is left.
Announced(mechanism) ==
    CASE mechanism = "AES_ECB_ENCRYPT_DATA"  -> {"DERIVE"}
      [] mechanism = "AES_KEY_GEN"           -> {"GENERATE"}
      [] mechanism \in KeyPairGeneration     -> {"GENERATE_KEY_PAIR"}
      [] mechanism \in Wrapping              -> {"WRAP", "UNWRAP"}
      [] OTHER                               -> {"SIGN", "VERIFY"}

-----------------------------------------------------------------------------
\* What GetMechanismInfo announces is what the services accept: a mechanism
\* signs exactly if some type of key supports it, and generates pairs exactly
\* if it names a type that can sign afterwards.  Among the RSA and ECDSA ones,
\* those without a digest are those that take prepared data.
CatalogueAgrees ==
    \A m \in SupportedMechanisms :
        /\ "SIGN" \in Announced(m) <=>
               \E type \in KeyPairTypes : m \in SignatureMechanisms(type)
        /\ "GENERATE_KEY_PAIR" \in Announced(m) <=>
               SignatureMechanisms(GeneratedType(m)) # {}
        /\ m \in SignatureMechanisms("RSA") \cup SignatureMechanisms("EC") =>
               (SignatureDigest(m) = "none" <=> IsRaw(m) \/ IsRsaPss(m))
=============================================================================

------------------------------ MODULE MCSigning ------------------------------
(***************************************************************************)
(* Values for the constants of Signing: a legacy slot that is open to      *)
(* everybody until a PIN is set.                                           *)
(***************************************************************************)
EXTENDS Signing, MCRuntime

\* One pair at a time: of type RSA in file f1, of type EC in file f2.
SigningPairTemplates ==
    {[token |-> TRUE, private |-> NoPolicy,
      public |-> Template({}, {"PRIVATE"})]}
SigningFileKeyType == [f \in Files |-> IF f = f1 THEN "RSA" ELSE "EC"]
SigningUpdates == {Template({"SIGN"}, {})}

\* Two pieces fit together, three do not; the last makes a sum of sizes wrap.
SigningPieces ==
    {[name |-> "a", size |-> 32], [name |-> "b", size |-> 20],
     [name |-> "long", size |-> 250]}
SigningCapacities == {NoBuffer, 64, 128}
SigningMechanisms ==
    {"RSA_PKCS", "SHA256_RSA_PKCS", "RSA_PKCS_PSS", "ECDSA_SHA256"}
SigningParameters ==
    {[hash |-> "SHA256", salt |-> 94], [hash |-> "SHA256", salt |-> 95]}
SigningKeyBits ==
    [type \in KeyPairTypes |->
        CASE type = "RSA" -> 1024 [] type = "EC" -> 256 [] OTHER -> 20000]
=============================================================================

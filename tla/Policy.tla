------------------------------- MODULE Policy -------------------------------
(***************************************************************************)
(* Object classes, the twelve boolean policy attributes and the rules of   *)
(* src/src/objects/policy.cpp: a value that was never recorded falls back  *)
(* on a default that depends on the class (the "historical" values that    *)
(* files without metadata keep), and SENSITIVE / EXTRACTABLE are one-way.  *)
(*                                                                         *)
(* Every secret key of this token is an AES key, so the key type test of   *)
(* the code is the class test here.                                        *)
(***************************************************************************)

Classes == {"certificate", "public", "private", "secret"}

PolicyAttributes ==
    {"SIGN", "VERIFY", "WRAP", "UNWRAP", "DERIVE", "ENCRYPT", "DECRYPT",
     "EXTRACTABLE", "SENSITIVE", "PRIVATE", "MODIFIABLE", "DESTROYABLE"}

\* Object::policy is a map: an attribute is recorded with a value, or absent.
Settings == {"unset", "no", "yes"}

Policies == [PolicyAttributes -> Settings]

NoPolicy == [a \in PolicyAttributes |-> "unset"]

\* The attributes that are TRUE for an object that records nothing.
DefaultTrue(class) ==
    {"EXTRACTABLE", "MODIFIABLE", "DESTROYABLE"} \cup
    CASE class = "private" -> {"SIGN", "PRIVATE"}
      [] class = "public"  -> {"VERIFY"}
      [] class = "secret"  -> {"WRAP", "UNWRAP", "DERIVE", "ENCRYPT", "DECRYPT"}
      [] OTHER             -> {}

Value(class, policy, a) ==
    \/ policy[a] = "yes"
    \/ policy[a] = "unset" /\ a \in DefaultTrue(class)

PolicyValue(object, a) == Value(object.class, object.policy, a)

\* What a template writes over a recorded policy.
ApplyPolicyTemplate(policy, template) ==
    [a \in PolicyAttributes |->
        IF template[a] = "unset" THEN policy[a] ELSE template[a]]

\* Mutant of OneWay: EXTRACTABLE may come back.
OneWaySensitive(object, template) ==
    PolicyValue(object, "SENSITIVE") => template["SENSITIVE"] # "no"

\* The two one-way attributes: SetAttributeValue compares the template with
\* the object as it is before the call.
OneWay(object, template) ==
    /\ PolicyValue(object, "SENSITIVE") => template["SENSITIVE"] # "no"
    /\ ~PolicyValue(object, "EXTRACTABLE") => template["EXTRACTABLE"] # "yes"

\* Key material is protected whatever CKA_PRIVATE says.
Protected(object) ==
    \/ object.class \in {"private", "secret"}
    \/ PolicyValue(object, "PRIVATE")
=============================================================================

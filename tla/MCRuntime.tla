------------------------------ MODULE MCRuntime ------------------------------
(***************************************************************************)
(* Values for the constants of Runtime: the templates, PINs and storage    *)
(* roots the runs are built from.  Each .cfg picks a few of them.          *)
(***************************************************************************)
EXTENDS Runtime

CONSTANTS f1, f2  \* file names

\* A template that sets the attributes in no to FALSE, those in yes to TRUE.
Template(no, yes) ==
    [a \in PolicyAttributes |->
        IF a \in yes THEN "yes" ELSE IF a \in no THEN "no" ELSE "unset"]

Token(policy) == [token |-> TRUE, policy |-> policy]
Local(policy) == [token |-> FALSE, policy |-> policy]

UserPin == [bom |-> FALSE, text |-> "1234"]
OtherPin == [bom |-> FALSE, text |-> "5678"]
MarkedPin == [bom |-> TRUE, text |-> "1234"]

OnePin == {UserPin}
TwoPins == {UserPin, OtherPin}
MarkedPins == {UserPin, MarkedPin}

NoSlotPin == [role \in Roles |-> NoPin]
BothSlotPins == [role \in Roles |-> UserPin]
OnlyUserPin == [role \in Roles |-> IF role = "USER" THEN UserPin ELSE NoPin]
OnlySoPin == [role \in Roles |-> IF role = "SO" THEN UserPin ELSE NoPin]

NoFiles == <<>>
Nothing == {}
Pair(private, public) ==
    [c \in {"private", "public"} |-> IF c = "private" THEN private ELSE public]
At(id, directory, f) == [slot |-> id, directory |-> directory, file |-> f]

-----------------------------------------------------------------------------
(* sessions: two slots that demand a PIN, no keys; the officer of the      *)
(* second one initialises the user's PIN                                   *)

SessionsPinFiles ==
    [id \in SlotIds |-> IF id = 0 THEN BothSlotPins ELSE OnlySoPin]

-----------------------------------------------------------------------------
(* access: two slots that demand a PIN, one with a token key pair          *)

AccessPinFiles == [id \in SlotIds |-> OnlyUserPin]
AccessKeyFiles ==
    [p \in {At(0, "asymmetric", f1)} |->
        Pair(NoPolicy, Template({}, {"PRIVATE"}))]
AccessSecretTemplates == {Local(NoPolicy)}
AccessSearches == {Classes}

-----------------------------------------------------------------------------
(* owners: two slots, session objects only, protected or not               *)

OwnersPairTemplates ==
    {[token |-> FALSE, private |-> NoPolicy, public |-> NoPolicy]}

-----------------------------------------------------------------------------
(* reading: one slot, token objects with restrictive policies, restarts     *)

PolicyPinFiles == [id \in SlotIds |-> OnlyUserPin]
PolicyKeyFiles ==
    [p \in {At(0, "asymmetric", f1)} |-> Pair(NoPolicy, NoPolicy)]
PolicySecretTemplates ==
    {Token(Template({}, {"SENSITIVE"})), Local(Template({"DESTROYABLE"}, {}))}
PolicyUpdates ==
    {Template({}, {"SENSITIVE"}), Template({"SENSITIVE"}, {"EXTRACTABLE"}),
     Template({"EXTRACTABLE"}, {}), Template({"DESTROYABLE", "MODIFIABLE"}, {})}

-----------------------------------------------------------------------------
(* signing: the implicit slot, open to everybody until a PIN is set        *)

LegacyPinFiles == [id \in SlotIds |-> NoSlotPin]

-----------------------------------------------------------------------------
(* marked_pin: a slot whose officer initialises the user's PIN             *)

OfficerPinFiles == [id \in SlotIds |-> OnlySoPin]
=============================================================================

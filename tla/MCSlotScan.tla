----------------------------- MODULE MCSlotScan -----------------------------
(***************************************************************************)
(* SlotScan with a CK_SLOT_ID of four bits: names whose numbers are equal, *)
(* the largest number, the first that does not fit, an empty label, and a  *)
(* directory that is no slot.                                              *)
(***************************************************************************)
EXTENDS SlotScan

Name(digits, label) == [digits |-> digits, label |-> label]

MCNames ==
    {Name(<<1>>, "DEV"), Name(<<0, 1>>, "TEST"), Name(<<1, 5>>, "LAST"),
     Name(<<1, 6>>, "OVER"), Name(<<2>>, ""), Name(<<>>, "docs")}
=============================================================================

----------------------------- MODULE MCPinStore -----------------------------
(***************************************************************************)
(* PinStore with two plain PINs, one that starts with a byte order mark,   *)
(* the content of a file whose PIN ends a line, and one that is too long.  *)
(***************************************************************************)
EXTENDS PinStore

CONSTANTS p1, p2, marked, ended, long

MCPins == {p1, p2, marked}
MCBadPins == {ended, long}
MCUnmarked ==
    [c \in MCPins \cup MCBadPins \cup {Rest} |->
        IF c \in {marked, ended} THEN p1 ELSE c]
=============================================================================

------------------------------- MODULE MCBuffer -------------------------------
(* Buffer for TLC: two byte values, so that order shows, a vector of one   *)
(* prependable and two initial bytes, and chunks that exceed the room.     *)
EXTENDS Buffer

CONSTANTS zero, x, y

MCBytes == {x, y}
==============================================================================

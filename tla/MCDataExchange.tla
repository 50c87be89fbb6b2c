--------------------------- MODULE MCDataExchange ---------------------------
(***************************************************************************)
(* DataExchange for TLC: the configurations give the sizes of the groups;   *)
(* the arrays of the producer ranks differ in length, and none of the        *)
(* lengths is a multiple of the number of receivers.                         *)
(***************************************************************************)
EXTENDS DataExchange

MCCount(s) == 2 * s + 1
=============================================================================

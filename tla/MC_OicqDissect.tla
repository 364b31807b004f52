--------------------------- MODULE MC_OicqDissect ---------------------------
(* Every payload of up to twelve bytes out of two values, one of which is a  *)
(* flag and, as the low byte, a command that has a name.                     *)
EXTENDS OicqDissect, TLC

MCPackets == UNION {[1..n -> {0, 2}] : n \in 0..12}
MCCommands == {1, 2, 4}
=============================================================================

---------------------------- MODULE LogContract ----------------------------
(***************************************************************************)
(* What the log file promises its readers: as long as no two calls of      *)
(* lyf_log were under way at once, what is in the file stays there and     *)
(* new text comes after it, until the file is larger than the limit and a  *)
(* call starts it again.                                                   *)
(***************************************************************************)
EXTENDS Naturals, Sequences

CONSTANT Limit

VARIABLES
  text,      (* what the file holds, piece by piece                 *)
  overlapped (* two calls were under way at once at some time       *)

Init == overlapped = FALSE

Grow ==
  /\ Len(text') = Len(text) + 1
  /\ SubSeq(text', 1, Len(text)) = text
  /\ ~overlapped /\ overlapped' = FALSE

StartAgain ==
  /\ Len(text) > Limit
  /\ text' = <<>>
  /\ ~overlapped /\ overlapped' = FALSE

(* From the first overlap on nothing is promised. *)
Shared == overlapped' = TRUE

Next == Grow \/ StartAgain \/ Shared

Spec == Init /\ [][Next]_<<text, overlapped>>
=============================================================================

---------------------------- MODULE FrameService ----------------------------
(***************************************************************************)
(* What the monitor promises of the frames it is given, whatever happens   *)
(* inside: one frame is in hand at a time; a frame is reported at most     *)
(* once, while it is in hand, so reports come in the order of the frames;  *)
(* a report once made stays; and a frame without a report is passed over   *)
(* without a trace.                                                        *)
(***************************************************************************)
EXTENDS Integers, Sequences

VARIABLES
  inHand,  (* whether a frame is being handled                 *)
  taken,   (* how many frames were taken; the number of the last *)
  numbers  (* the numbers of the frames reported, in order     *)

serviceVars == <<inHand, taken, numbers>>

ServiceInit == inHand = FALSE /\ taken = 0 /\ numbers = <<>>

Take == ~inHand /\ inHand' = TRUE /\ taken' = taken + 1 /\ UNCHANGED numbers

Report == /\ inHand
          /\ \A n \in DOMAIN numbers : numbers[n] < taken
          /\ numbers' = Append(numbers, taken)
          /\ UNCHANGED <<inHand, taken>>

LetGo == inHand /\ inHand' = FALSE /\ UNCHANGED <<taken, numbers>>

ServiceNext == Take \/ Report \/ LetGo

ServiceSpec == ServiceInit /\ [][ServiceNext]_serviceVars
=============================================================================

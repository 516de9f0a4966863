------------------------------- MODULE MCFormat -------------------------------
(* Two inputs, each with a wide or a narrow analogue signal, and formats of  *)
(* one plane, of two, of swapped colours and of the one that is told as      *)
(* another.                                                                  *)
EXTENDS Format

TwoIds   == {"HOR_POS", "SCALING"}
TwoModes == {"wide", "narrow"}
VideoTypes  == [m \in TwoModes |-> "VIDEO"]
TwoLimits ==
  [p \in TwoIds \X TwoModes |->
     IF p[1] # "HOR_POS" THEN DefaultLimits(p[1]) ELSE IF p[2] = "wide" THEN <<0, 1>> ELSE <<0, 0>>]
===============================================================================

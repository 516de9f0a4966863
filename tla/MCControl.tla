------------------------------- MODULE MCControl ------------------------------
(* A two-channel VisionSC-S2 and a one-channel VisionLC-SDI, and what may go  *)
(* wrong while they are probed.                                              *)
EXTENDS Control

TwoBoards == <<[device |-> "DGC224", subsystem |-> "DGC224", first |-> TRUE],
               [device |-> "DGC204", subsystem |-> "DGC204", first |-> TRUE]>>
TwoAndOne == <<2, 1>>

(* Failures before which, or after which, no control device is there.        *)
EarlyFailures == {<<1, "enable">>, <<1, "ioremap">>, <<1, "hardware">>, <<1, "control">>,
                  <<2, "ioremap">>, <<2, "pDE">>}

===============================================================================

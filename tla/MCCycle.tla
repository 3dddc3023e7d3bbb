------------------------------ MODULE MCCycle ------------------------------
(***************************************************************************)
(* Values for the constants of Cycle that a configuration cannot write.    *)
(***************************************************************************)
EXTENDS Cycle

OneFirmware == {[index |-> 5, slog |-> 5]}
TwoFirmwares == {[index |-> 5, slog |-> 4], [index |-> 6, slog |-> 5]}
OldFirmware == [index |-> 5, slog |-> 4]
NewFirmware == [index |-> 5, slog |-> 5]

NoDoc == {}
TwoDocs == {[text |-> "first", stars |-> 0], [text |-> "second", stars |-> 4]}
=============================================================================

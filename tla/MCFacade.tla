------------------------------ MODULE MCFacade ------------------------------
(* Facade for TLC: the sketches are small because peripherals of one sketch  *)
(* share only BOARD, LAST and the thread.                                    *)
EXTENDS Facade

MCKinds == {"laptop", "chip"}
MCSketches == {{"camera", "microphone"}, {"radar", "provisioning"}, {"camera", "wifi"}}
MCSettings == {1, 2}
=============================================================================

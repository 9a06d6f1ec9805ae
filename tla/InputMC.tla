-------------------------------- MODULE InputMC --------------------------------
(* One program on the boot CPU and one on another; a keyboard with a key and an
   escape. *)
EXTENDS Input

CONSTANTS p, q, irq, kbd, mouse, key, esc
=============================================================================

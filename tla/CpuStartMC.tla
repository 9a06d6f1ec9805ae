------------------------------ MODULE CpuStartMC ------------------------------
(* The boot CPU and two others.  The firmware lists all of them, or fewer than
   start, so that the boot CPU's tasks may run while another CPU counts itself,
   or none. *)
EXTENDS CpuStart

CONSTANTS c0, c1, c2

MCCpus == {c0, c1, c2}
MCListings == 0 .. 3
=============================================================================

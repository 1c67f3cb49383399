----------------------------- MODULE StartupMC -----------------------------
(***************************************************************************)
(* Ports, devices and faults for the run of Startup.                       *)
(***************************************************************************)
EXTENDS Startup, UsbTaskMC

AllBusFaults == Fault
=============================================================================

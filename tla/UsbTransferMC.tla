--------------------------- MODULE UsbTransferMC ---------------------------
(***************************************************************************)
(* Constants for the runs of UsbTransfer: endpoint 0 tolerates one NAK in  *)
(* place of 32766, the MIDI endpoints none (USB_NAK_NOWAIT).               *)
(***************************************************************************)
EXTENDS UsbTransfer

NakLimits == [e \in Endpoint |-> IF e = "ctrl" THEN 2 ELSE 1]
PatientNakLimits == [e \in Endpoint |-> 3]
=============================================================================

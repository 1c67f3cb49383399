----------------------------- MODULE UsbTaskMC -----------------------------
(***************************************************************************)
(* Ports and devices for the runs of UsbTask.                              *)
(***************************************************************************)
EXTENDS UsbTask

AllPorts == PortType
FastPort == {[slow |-> FALSE, illegal |-> FALSE]}

Bulk(n, in) == [num |-> n, in |-> in, attr |-> 2]
Interrupt(n, in) == [num |-> n, in |-> in, attr |-> 3]
Midi(eps) == [midi |-> TRUE, eps |-> eps]
Other(eps) == [midi |-> FALSE, eps |-> eps]
Device(confs) == [quirk |-> FALSE, confs |-> confs]

\* An audio interface without endpoints, then the MIDI streaming interface.
Keyboard == Device(<< <<Other(<<>>), Midi(<<Bulk(1, TRUE), Bulk(2, FALSE)>>)>> >>)

\* A mouse in the first configuration; in the second a keyboard that only
\* sends, between two bulk interfaces that are not MIDI.
Composite == Device(
  << <<Other(<<Interrupt(1, TRUE)>>)>>,
     <<Other(<<Bulk(4, TRUE), Bulk(4, FALSE)>>), Midi(<<Bulk(5, TRUE)>>),
       Other(<<Bulk(6, TRUE)>>)>> >>)

\* A vendor-specific interface with interrupt endpoints, behind one with a
\* single one.
LaunchPad ==
  [quirk |-> TRUE,
   confs |-> << <<Other(<<Interrupt(3, FALSE)>>),
                  Other(<<Interrupt(1, TRUE), Interrupt(2, FALSE)>>)>> >>]

Mouse == Device(<< <<Other(<<Interrupt(1, TRUE)>>)>> >>)

AllDevices == {Keyboard, Composite, LaunchPad, Mouse}
OneKeyboard == {Keyboard}

\* The theorems about descriptors hold of the devices of the runs.
ASSUME RegularAssumption == RegularDevices
=============================================================================

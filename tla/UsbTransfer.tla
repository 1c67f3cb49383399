---------------------------- MODULE UsbTransfer ----------------------------
(***************************************************************************)
(* The transfers of the USB host (software/synthesizer/include/Usb.cpp):   *)
(* control requests in their three stages (ctrlReq), bulk IN polls         *)
(* (InTransfer) and bulk OUT transfers (OutTransfer), over a bus that      *)
(* loses packets and acknowledgements.                                     *)
(*                                                                         *)
(* One step is one packet put on the bus and what the code does with its   *)
(* result, up to the next packet.  The bytes of a control read and of an   *)
(* OUT transfer are numbered from 1; the packets of the IN endpoint carry  *)
(* a number modulo 3.                                                      *)
(*                                                                         *)
(* The MAX3421E and the device are external.  A device repeats a packet    *)
(* whose acknowledgement was lost; whether the chip acknowledges a packet  *)
(* with the wrong toggle is left open.  The chip completes every transfer. *)
(* The hrTOGERR case of ctrlReq is left out: InTransfer never returns it.  *)
(* So is the OUT data stage of control requests, which no caller uses.     *)
(***************************************************************************)
EXTENDS Integers, Sequences, SequencesExt

CONSTANTS
  MaxPkt,       \* maxPktSize of every endpoint
  BufSize,      \* bufSize of getConfDescr
  Totals,       \* lengths of control reads; 0 is a request without data
  OutSizes,     \* lengths of OUT transfers
  NakLimit,     \* nak_limit of each endpoint
  MayBeLate,    \* TRUE: USB_XFER_TIMEOUT may pass
  MaxLost       \* bound: acknowledgements of the host that are lost

USB_RETRY_LIMIT == 3
Endpoint == {"ctrl", "in", "out"}
Stage == {"idle", "setup", "in", "status", "out"}
Result == {"ok", "nak", "timeout", "stall"}
Bit == {0, 1}
UInt8 == {n \in Nat : n < 2^8}
UInt16 == {n \in Nat : n < 2^16}

ASSUME TransferAssumption ==
  /\ MaxPkt \in UInt8 \ {0} /\ BufSize \in Nat \ {0} /\ BufSize % MaxPkt = 0
  /\ Totals \subseteq UInt16
  /\ OutSizes \subseteq UInt16 \ {0}
  /\ NakLimit \in [Endpoint -> Nat \ {0}]
  /\ MayBeLate \in BOOLEAN
  /\ MaxLost \in Nat

VARIABLES
  pc,            \* "idle" or the stage: "setup", "in", "status", "out"
  ep,            \* the endpoint of the call
  total, nbytes, \* arguments of the call
  left,          \* left of ctrlReq, bytes_left of OutTransfer
  buf,           \* data of the running InTransfer
  got,           \* its *nbytesptr, which counts what was trimmed too
  parsed,        \* what the parser, or the caller, was given
  retry_count, nak_count,
  late,          \* OutTransfer has passed its time limit
  rcode,         \* result of the last call
  toggle,        \* bmRcvToggle or bmSndToggle of each endpoint
  hrsl,          \* the chip's toggle, written through HCTL, read in HRSL
  devTog,        \* the device's toggles
  devNext,       \* its next byte of the control read, its next IN packet
  accepted,      \* what it accepted of the OUT transfer
  lost,          \* history: acknowledgements of the host that were lost
  troubled,      \* history: the bus or the device failed a packet of the call
  doubt          \* history: [now, start]: no answer to the last OUT packet,
                 \* now and when the call began

arguments == <<ep, total, nbytes>>
device == <<devTog, devNext, accepted>>
history == <<lost, troubled, doubt>>
vars == <<pc, arguments, left, buf, got, parsed, retry_count, nak_count, late,
          rcode, toggle, hrsl, device, history>>

Count(a, b) == [k \in 1..(b - a + 1) |-> a + k - 1]
Smaller(a, b) == IF a < b THEN a ELSE b

Init ==
  /\ pc = "idle" /\ ep = "ctrl" /\ total = 0 /\ nbytes = 0 /\ left = 0
  /\ buf = <<>> /\ got = 0 /\ parsed = <<>>
  /\ retry_count = 0 /\ nak_count = 0 /\ late = FALSE /\ rcode = "ok"
  /\ toggle = [e \in Endpoint |-> 0] /\ hrsl = 0
  /\ devTog = [e \in Endpoint |-> 0] /\ devNext = [ctrl |-> 1, in |-> 0]
  /\ accepted = <<>>
  /\ lost = 0 /\ troubled = FALSE /\ doubt = [now |-> FALSE, start |-> FALSE]

-----------------------------------------------------------------------------
(***************************************************************************)
(* The callers.                                                            *)
(***************************************************************************)
Call(e, stage, t, n) ==
  /\ pc = "idle"
  /\ pc' = stage /\ ep' = e /\ total' = t /\ nbytes' = n /\ left' = t
  /\ buf' = <<>> /\ got' = 0 /\ parsed' = <<>>
  /\ retry_count' = 0 /\ nak_count' = 0 /\ late' = FALSE
  /\ hrsl' = toggle[e]
  /\ accepted' = <<>>
  /\ troubled' = FALSE /\ doubt' = [doubt EXCEPT !.start = doubt.now]
  /\ UNCHANGED <<rcode, toggle, devTog, devNext, lost>>

\* A control request, read whole or in pieces of BufSize.
CallCtrl == \E t \in Totals : \E n \in {t, BufSize} : Call("ctrl", "setup", t, n)

\* USBH_MIDI::RecvData asks for one packet.
CallPoll == Call("in", "in", MaxPkt, MaxPkt)

CallOut == \E n \in OutSizes : Call("out", "out", n, n)

-----------------------------------------------------------------------------
(***************************************************************************)
(* dispatchPkt.                                                            *)
(***************************************************************************)
Return(r) == pc' = "idle" /\ rcode' = r

Fresh == retry_count' = 0 /\ nak_count' = 0

\* Mutant: one retry too many.
GivesUpLate(r) ==
  CASE r = "nak" -> nak_count + 1 = NakLimit[ep]
    [] r = "timeout" -> retry_count = USB_RETRY_LIMIT
    [] OTHER -> TRUE

\* The result r ends the retries.
GivesUp(r) ==
  CASE r = "nak" -> nak_count + 1 = NakLimit[ep]
    [] r = "timeout" -> retry_count + 1 = USB_RETRY_LIMIT
    [] OTHER -> TRUE

\* Mutant: each kind of failure restarts the count of the other.
RetryForgets(r) ==
  /\ nak_count' = IF r = "nak" THEN nak_count + 1 ELSE 0
  /\ retry_count' = IF r = "timeout" THEN retry_count + 1 ELSE 0

Retry(r) ==
  /\ nak_count' = IF r = "nak" THEN nak_count + 1 ELSE nak_count
  /\ retry_count' = IF r = "timeout" THEN retry_count + 1 ELSE retry_count

\* No packet got through: try again, or return r to the caller.
Fails(r) ==
  \/ GivesUp(r) /\ Return(r) /\ Fresh
  \/ ~GivesUp(r) /\ Retry(r) /\ UNCHANGED <<pc, rcode>>
  \/ ~GivesUp(r) /\ MayBeLate /\ Return(r) /\ Fresh

-----------------------------------------------------------------------------
(***************************************************************************)
(* ctrlReq and InTransfer.                                                 *)
(***************************************************************************)
Setup ==
  /\ pc = "setup"
  /\ \/ /\ pc' = IF total = 0 THEN "status" ELSE "in"
        /\ toggle' = [toggle EXCEPT !["ctrl"] = 1]
        /\ hrsl' = 1
        /\ devTog' = [devTog EXCEPT !["ctrl"] = 1]
        /\ devNext' = [devNext EXCEPT !.ctrl = 1]
        /\ Fresh
        /\ UNCHANGED <<rcode, troubled>>
     \/ /\ Fails("timeout")
        /\ troubled' = TRUE
        /\ UNCHANGED <<toggle, hrsl, devTog, devNext>>
  /\ UNCHANGED <<arguments, left, buf, got, parsed, late, accepted, lost, doubt>>

\* The packet the device has for the host.
Packet ==
  IF ep = "in" THEN <<devNext.in>>
  ELSE Count(devNext.ctrl, Smaller(devNext.ctrl + MaxPkt - 1, total))

DeviceAdvances ==
  /\ devTog' = [devTog EXCEPT ![ep] = 1 - @]
  /\ devNext' = IF ep = "in" THEN [devNext EXCEPT !.in = (@ + 1) % 3]
                ELSE [devNext EXCEPT !.ctrl = @ + Len(Packet)]

\* NAK, no answer, or STALL when the device has sent all it has.
InFails ==
  /\ pc = "in"
  /\ \/ Fails("nak") \/ Fails("timeout")
     \/ Packet = <<>> /\ Fails("stall")
  /\ troubled' = (troubled \/ Packet # <<>>)
  /\ UNCHANGED <<arguments, left, buf, got, parsed, late, toggle, hrsl, device, lost, doubt>>

\* Mutant: the toggle is not saved after the transfer.
ForgetToggle == UNCHANGED toggle

\* pep->bmRcvToggle = (HRSL & bmRCVTOGRD)
SaveToggle == toggle' = [toggle EXCEPT ![ep] = 1 - hrsl]

\* Mutant: left is reduced by what was asked for.
LeftAfterAsked(read) == (left - nbytes) % 2^16

\* In 16 bits.
LeftAfter(read) == (left - read) % 2^16

\* InTransfer returns read bytes, those of data, to its caller; the next one
\* writes the saved toggle to the chip.
Received(data, read) ==
  /\ SaveToggle
  /\ hrsl' = toggle'[ep]
  /\ parsed' = parsed \o data
  /\ buf' = <<>> /\ got' = 0
  /\ left' = LeftAfter(read)
  /\ IF ep = "in" THEN Return("ok")
     ELSE /\ pc' = IF read < nbytes \/ left' = 0 THEN "status" ELSE "in"
          /\ UNCHANGED rcode

\* A packet with the toggle the chip expects.
InData ==
  /\ pc = "in"
  /\ Packet # <<>> /\ devTog[ep] = hrsl
  /\ \/ DeviceAdvances /\ UNCHANGED lost
     \/ lost < MaxLost /\ lost' = lost + 1 /\ UNCHANGED <<devTog, devNext>>
  /\ LET pktsize == Smaller(Len(Packet), nbytes)
         data == buf \o SubSeq(Packet, 1, Smaller(pktsize, nbytes - Len(buf)))
     IN
     IF pktsize < MaxPkt \/ got + pktsize >= nbytes
       THEN Received(data, got + pktsize)
       ELSE /\ hrsl' = 1 - hrsl
            /\ buf' = data /\ got' = got + pktsize
            /\ UNCHANGED <<pc, rcode, parsed, left, toggle>>
  /\ Fresh
  /\ UNCHANGED <<arguments, late, accepted, troubled, doubt>>

\* hrTOGERR: the toggle is flipped, without limit.
InToggleError ==
  /\ pc = "in"
  /\ Packet # <<>> /\ devTog[ep] # hrsl
  /\ DeviceAdvances \/ UNCHANGED <<devTog, devNext>>
  /\ hrsl' = 1 - hrsl
  /\ toggle' = [toggle EXCEPT ![ep] = 1 - hrsl]
  /\ Fresh
  /\ troubled' = (troubled \/ lost > 0)
  /\ UNCHANGED <<pc, arguments, left, buf, got, parsed, late, rcode, accepted, lost, doubt>>

Status ==
  /\ pc = "status"
  /\ \/ Return("ok") /\ Fresh /\ UNCHANGED troubled
     \/ \E r \in {"nak", "timeout", "stall"} : Fails(r) /\ troubled' = TRUE
  /\ UNCHANGED <<arguments, left, buf, got, parsed, late, toggle, hrsl, device, lost, doubt>>

-----------------------------------------------------------------------------
(***************************************************************************)
(* OutTransfer.                                                            *)
(***************************************************************************)
bytes_tosend == Smaller(left, MaxPkt)

\* The device acknowledges a packet it has already, and drops it.
DeviceAccepts ==
  IF devTog["out"] = hrsl
    THEN /\ devTog' = [devTog EXCEPT !["out"] = 1 - @]
         /\ accepted' = accepted \o Count(total - left + 1, total - left + bytes_tosend)
    ELSE UNCHANGED <<devTog, accepted>>

\* The result r of the packet on the bus, and what the device did with it.
OutResult(r) ==
  /\ CASE r = "ok" -> DeviceAccepts
       [] r = "timeout" -> DeviceAccepts \/ UNCHANGED <<devTog, accepted>>
       [] OTHER -> UNCHANGED <<devTog, accepted>>
  /\ hrsl' = IF r = "ok" THEN 1 - hrsl ELSE hrsl
  /\ doubt' = [doubt EXCEPT !.now = (r = "timeout" \/ (r # "ok" /\ @))]
  /\ troubled' = (troubled \/ r # "ok")

\* pep->bmSndToggle = (HRSL & bmSNDTOGRD), then return.
OutReturn(r) ==
  /\ toggle' = [toggle EXCEPT !["out"] = hrsl']
  /\ Return(r)

\* The rest of the transfer, and the last result, when a packet is done with.
OutNext(r) ==
  /\ left' = left - bytes_tosend
  /\ Fresh
  /\ IF left' = 0 THEN OutReturn(r) ELSE UNCHANGED <<pc, rcode, toggle>>

\* Mutant: a packet that got no answer is not sent again.
OutStepSkips(r) ==
  \/ r \in {"ok", "timeout"} /\ OutNext(r)
  \/ r \notin {"ok", "timeout"} /\ OutReturn(r) /\ Fresh /\ UNCHANGED left

\* The retries end with success, with the time limit, whatever r is, or
\* with a result that gives up; else the packet is sent again.
OutStep(r) ==
  \/ /\ r = "ok" \/ late'
     /\ OutNext(r)
  \/ /\ r # "ok" /\ ~late'
     /\ UNCHANGED left
     /\ \/ GivesUp(r) /\ OutReturn(r) /\ Fresh
        \/ ~GivesUp(r) /\ Retry(r) /\ UNCHANGED <<pc, rcode, toggle>>

Out ==
  /\ pc = "out"
  /\ late' \in {late} \cup (IF MayBeLate THEN {TRUE} ELSE {})
  /\ \E r \in {"ok", "nak", "timeout", "stall"} : OutResult(r) /\ OutStep(r)
  /\ UNCHANGED <<arguments, buf, got, parsed, devNext, lost>>

-----------------------------------------------------------------------------
Transfer == Setup \/ InFails \/ InData \/ InToggleError \/ Status \/ Out

Next == CallCtrl \/ CallPoll \/ CallOut \/ Transfer

Spec == Init /\ [][Next]_vars

\* The code goes on with a call it has begun.
FairSpec == Spec /\ WF_vars(Transfer)

-----------------------------------------------------------------------------
Place == [ctrl : Nat, in : 0..2]
Doubt == [now : BOOLEAN, start : BOOLEAN]

TypeOK ==
  /\ pc \in Stage /\ ep \in Endpoint
  /\ total \in Nat /\ nbytes \in Nat /\ left \in UInt16
  /\ buf \in Seq(Nat) /\ got \in Nat /\ parsed \in Seq(Nat)
  /\ retry_count \in 0..(USB_RETRY_LIMIT - 1)
  /\ nak_count \in 0..(NakLimit[ep] - 1)
  /\ late \in BOOLEAN /\ rcode \in Result
  /\ toggle \in [Endpoint -> Bit] /\ hrsl \in Bit
  /\ devTog \in [Endpoint -> Bit]
  /\ devNext \in Place /\ accepted \in Seq(Nat)
  /\ lost \in 0..MaxLost /\ troubled \in BOOLEAN
  /\ doubt \in Doubt

\* The control read is well sized: its last piece is full or ends in a short
\* packet.
WellSized == total % MaxPkt # 0 \/ total % nbytes = 0

\* The parser sees every byte of a descriptor once and in order, at the offset
\* total - left, through any pattern of NAKs, timeouts and pieces; and a
\* request that returns 0 has read all of it (Usb.cpp:157-195).
ParsedInOrder ==
  ep = "ctrl" /\ lost = 0 =>
    /\ parsed = Count(1, total - left)
    /\ pc = "idle" /\ rcode = "ok" /\ total > 0 => left = 0

\* Without trouble on the bus a control request succeeds exactly if it is well
\* sized: the loop asks for nbytes even when fewer are left (Usb.cpp:170), so
\* a last piece of full packets waits for one that never comes.
ReadCompletes ==
  pc = "idle" /\ ep = "ctrl" /\ ~troubled /\ total > 0 =>
    (rcode = "ok" <=> WellSized)

\* The IN endpoint's packet leaves the device, or the caller is given one.
PacketMoves ==
  \/ devNext'.in # devNext.in
  \/ ep = "in" /\ pc = "in" /\ parsed' # parsed

\* While no acknowledgement of the host is lost, each packet that leaves the
\* device is the one its poll returns: none twice and none left out, across
\* the calls that return a NAK or an error and the calls for other endpoints
\* in between (Usb.cpp:224-297).
PollInOrder ==
  [][PacketMoves /\ lost' = 0 =>
       /\ parsed' = <<devNext.in>> /\ rcode' = "ok"
       /\ devNext'.in = (devNext.in + 1) % 3]_vars

\* "rcode 0 if no errors" (Usb.cpp:302): the device has all bytes of an OUT
\* transfer that returned 0.
OutReported ==
  pc = "idle" /\ ep = "out" /\ rcode = "ok" => accepted = Count(1, total)

\* The same, with each byte once and in order on the way, for a call that stays
\* within its time limit and does not follow one that gave up without an
\* answer: lost packets and lost acknowledgements are repeated with the same
\* toggle, and the toggle survives from call to call (Usb.cpp:315-394).
OutInOrder ==
  ep = "out" /\ ~late /\ ~doubt.start =>
    /\ IsPrefix(accepted, Count(1, total))
    /\ pc = "idle" /\ rcode = "ok" => accepted = Count(1, total)

\* Control requests and OUT transfers return, whatever the device answers.
CallsReturn == ep # "in" ~> (pc = "idle" \/ ep = "in")
=============================================================================

------------------------------ MODULE MidiRecv ------------------------------
(***************************************************************************)
(* USBH_MIDI::RecvData (software/synthesizer/include/usbh_midi.cpp): the   *)
(* function that hands out the 4-byte events of a USB transfer one per     *)
(* call.  It keeps the transfer in recvBuf and its place in readPtr, but   *)
(* not the number of bytes received: the end of a short transfer is marked *)
(* by two zero bytes written behind it.                                    *)
(*                                                                         *)
(* An event is [hdr, m1, rest]: byte 0 (cable and code index), byte 1 (the *)
(* MIDI status) and bytes 2 and 3 taken together, 0 when both are 0.       *)
(* recvBuf has Slots events (16) and readPtr counts events, not bytes.     *)
(***************************************************************************)
EXTENDS Integers, Sequences, FiniteSets

CONSTANTS
  Slots,        \* MIDI_EVENT_PACKET_SIZE / 4
  Events,       \* events a device may send
  Lengths,      \* numbers of events in a transfer of the device
  Garbage,      \* what the uninitialised recvBuf may hold
  MaxPending,   \* bound: transfers waiting at the device
  None          \* no event

EventType == [hdr : 0..255, m1 : 0..255, rest : Nat]
ZeroEvent == [hdr |-> 0, m1 |-> 0, rest |-> 0]

\* The tests of recvBuf for two and for four zero bytes.
ZeroHead(e) == e.hdr = 0 /\ e.m1 = 0
ZeroAll(e) == ZeroHead(e) /\ e.rest = 0

ASSUME RecvAssumption ==
  /\ Slots \in Nat /\ Slots > 1
  /\ Events \subseteq EventType
  /\ \A e \in Events : ~ZeroHead(e)
  /\ Garbage \subseteq EventType
  /\ Lengths \subseteq 0..Slots
  /\ None \notin Events

\* cin2len, the length of a message by its code index
cin2len == <<0, 0, 2, 3, 3, 1, 2, 3, 3, 3, 3, 3, 2, 2, 3, 1>>
getMsgSizeFromCin(cin) == cin2len[cin + 1]

Slot == 0..(Slots - 1)

VARIABLES
  recvBuf, readPtr, bPollEnable,
  ret,       \* size returned by the last call
  pending,   \* transfers the device has ready, oldest first
  left,      \* history: events of the last transfer not yet handed out
  queue,     \* history: all events the device has sent, not yet handed out
  taken      \* history: the event handed out by the last call, or None

history == <<left, queue, taken>>
vars == <<recvBuf, readPtr, bPollEnable, ret, pending, history>>

Init ==
  /\ recvBuf \in [Slot -> Garbage]
  /\ readPtr = 0
  /\ bPollEnable = FALSE
  /\ ret = 0
  /\ pending = <<>>
  /\ left = <<>> /\ queue = <<>> /\ taken = None

-----------------------------------------------------------------------------
(***************************************************************************)
(* The device: external.  A transfer is its events followed by padding of  *)
(* zero events; it may be empty (a zero-length packet) if Lengths has 0.   *)
(***************************************************************************)
Padded(n) ==
  {t \in [1..n -> Events \cup {ZeroEvent}] :
     \E k \in 0..n : \A i \in 1..n : t[i] = ZeroEvent <=> i > k}

\* The events of a transfer.
EventsOf(t) == SubSeq(t, 1, Cardinality({i \in 1..Len(t) : ~ZeroHead(t[i])}))

DeviceSends ==
  /\ bPollEnable
  /\ Len(pending) < MaxPending
  /\ \E n \in Lengths : \E t \in Padded(n) :
       pending' = Append(pending, t) /\ queue' = queue \o EventsOf(t)
  /\ UNCHANGED <<recvBuf, readPtr, bPollEnable, ret, left, taken>>

\* The end of USBH_MIDI::Init.
Plug ==
  /\ ~bPollEnable
  /\ bPollEnable' = TRUE
  /\ UNCHANGED <<recvBuf, readPtr, ret, pending, history>>

\* USBH_MIDI::Release, after the device went away.  recvBuf stays as it is.
Release ==
  /\ bPollEnable
  /\ bPollEnable' = FALSE
  /\ readPtr' = 0
  /\ pending' = <<>>
  /\ left' = <<>> /\ queue' = <<>>
  /\ UNCHANGED <<recvBuf, ret, taken>>

-----------------------------------------------------------------------------
(***************************************************************************)
(* RecvData.                                                               *)
(***************************************************************************)

\* The marker: two zero bytes over the first half of a slot.
Marked(e) == [hdr |-> 0, m1 |-> 0, rest |-> e.rest]

\* Mutant: the marker is not written behind a transfer two events short.
ReceivedShort(t) ==
  [i \in Slot |->
     IF i < Len(t) THEN t[i + 1]
     ELSE IF i = Len(t) /\ Len(t) < Slots - 2
       THEN Marked(recvBuf[i])
     ELSE recvBuf[i]]

\* Mutant: the marker overwrites the last event of the transfer.
ReceivedEarly(t) ==
  [i \in Slot |->
     IF i + 1 = Len(t) /\ Len(t) < Slots - 1 THEN ZeroEvent
     ELSE IF i < Len(t) THEN t[i + 1] ELSE recvBuf[i]]

\* The raw RecvData: the transfer lands in recvBuf and, if it is more than
\* one event short of the buffer, two zero bytes are put behind it.
Received(t) ==
  [i \in Slot |->
     IF i < Len(t) THEN t[i + 1]
     ELSE IF i = Len(t) /\ Len(t) < Slots - 1
       THEN Marked(recvBuf[i])
     ELSE recvBuf[i]]

\* "Checking unprocessed message in buffer"
Unprocessed ==
  /\ readPtr # 0 /\ readPtr < Slots
  /\ ~ZeroHead(recvBuf[readPtr])

Behind(s) == IF s = <<>> THEN <<>> ELSE Tail(s)

\* Mutant: the place in the buffer is not moved on.
HandOutAgain(buf, p, events) ==
  /\ ret' = getMsgSizeFromCin(buf[p].hdr % 16)
  /\ taken' = buf[p]
  /\ readPtr' = p
  /\ left' = Behind(events) /\ queue' = Behind(queue)

\* Hands out event p of buf, the first of the events left in the transfer.
HandOut(buf, p, events) ==
  /\ ret' = getMsgSizeFromCin(buf[p].hdr % 16)
  /\ taken' = buf[p]
  /\ readPtr' = p + 1
  /\ left' = Behind(events) /\ queue' = Behind(queue)

FromBuffer ==
  /\ bPollEnable
  /\ Unprocessed
  /\ HandOut(recvBuf, readPtr, left)
  /\ UNCHANGED <<recvBuf, bPollEnable, pending>>

\* A transfer arrives; its first event is handed out unless it is all zero.
Refill ==
  /\ bPollEnable
  /\ ~Unprocessed
  /\ pending # <<>>
  /\ recvBuf' = Received(Head(pending))
  /\ pending' = Tail(pending)
  /\ LET events == EventsOf(Head(pending)) IN
     IF ZeroAll(recvBuf'[0])
       THEN /\ ret' = 0 /\ taken' = None /\ readPtr' = 0
            /\ left' = events /\ UNCHANGED queue
       ELSE HandOut(recvBuf', 0, events)
  /\ UNCHANGED bPollEnable

\* NAK or an error: no byte is received, and the marker goes to the front.
RefillFails ==
  /\ bPollEnable
  /\ ~Unprocessed
  /\ readPtr' = 0
  /\ recvBuf' = Received(<<>>)
  /\ ret' = 0 /\ taken' = None
  /\ UNCHANGED <<bPollEnable, pending, left, queue>>

NotReady ==
  /\ ~bPollEnable
  /\ ret' = 0 /\ taken' = None
  /\ UNCHANGED <<recvBuf, readPtr, bPollEnable, pending, left, queue>>

Next ==
  \/ DeviceSends \/ Plug \/ Release
  \/ FromBuffer \/ Refill \/ RefillFails \/ NotReady

Spec == Init /\ [][Next]_vars

(***************************************************************************)
(* main calls RecvData for ever, and a device that has data answers some   *)
(* poll.                                                                   *)
(***************************************************************************)
FairSpec == Spec /\ WF_vars(FromBuffer) /\ SF_vars(Refill)

-----------------------------------------------------------------------------
TypeOK ==
  /\ recvBuf \in [Slot -> EventType]
  /\ readPtr \in 0..Slots
  /\ bPollEnable \in BOOLEAN
  /\ ret \in 0..3
  /\ pending \in Seq(Seq(Events \cup {ZeroEvent}))
  /\ left \in Seq(Events) /\ queue \in Seq(Events)
  /\ taken \in EventType \cup {None}

Stream == INSTANCE MidiStream

\* RecvData implements the stream: every event is handed out once and in
\* order, although the buffer does not know how many it holds: the marker
\* never hides one, and a failed poll does not lose one
\* (usbh_midi.cpp:314-369).
ImplementsStream == Stream!StreamSpec

\* In the end it is handed out, unless the device goes away: no event is
\* left behind in the buffer when the next transfer comes.
EventsAreTaken == Stream!StreamFair

\* "no unprocessed message left in the buffer" (usbh_midi.cpp:340): once the
\* events of a transfer have been handed out, the buffer offers no event.
NoStaleEvent == left = <<>> => ~Unprocessed

\* What stands between readPtr and the marker, or the
\* end of the buffer, is what is left of the transfer.
BufferHoldsRest ==
  /\ \A i \in 1..Len(left) :
       /\ readPtr > 0 /\ readPtr + i <= Slots
       /\ recvBuf[readPtr + i - 1] = left[i]
  /\ LET end == readPtr + Len(left) IN
       readPtr = 0 \/ end = Slots \/ ZeroHead(recvBuf[end])
=============================================================================

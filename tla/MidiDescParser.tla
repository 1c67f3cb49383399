--------------------------- MODULE MidiDescParser ---------------------------
(***************************************************************************)
(* The parser of configuration descriptors: MidiDescParser and             *)
(* EndpointXtract (usbh_midi.cpp) with the two helpers of parsetools.h     *)
(* that take bytes out of a piece and remember where they stopped.         *)
(*                                                                         *)
(* A descriptor arrives in pieces of any size, cut anywhere.  The parser   *)
(* is a record that one piece after the other goes through; bytes are the  *)
(* bytes of the descriptor, since what the parser finds depends on how     *)
(* they are aligned.                                                       *)
(***************************************************************************)
EXTENDS Integers, Sequences, SequencesExt

CONFIGURATION == 2
INTERFACE == 4
ENDPOINT == 5
AUDIO == 1
MIDISTREAMING == 3
BULK == 2

BufferSize == 16        \* varBuffer

(***************************************************************************)
(* The parser: what it has found, and how it goes on with the next piece.  *)
(* stateParseDescr is 1 within a header and 4 within a body.               *)
(***************************************************************************)
NewParser(modeMidi, mask, in, out) ==
  [stateParseDescr |-> 0,
   varBuffer |-> [k \in 1..BufferSize |-> 0],
   pValue |-> 0, valueSize |-> 0, countDown |-> 0,   \* theBuffer, valParser
   skipping |-> FALSE, toSkip |-> 0,                 \* theSkipper
   dscrLen |-> 0, dscrType |-> 0,
   isMidiSearch |-> modeMidi, bTransferTypeMask |-> mask,
   isGoodInterface |-> FALSE, nEPs |-> 0, confValue |-> 0,
   epIn |-> in, epOut |-> out]

\* The byte at an offset of varBuffer.
At(s, offset) == s.varBuffer[offset + 1]

Least(a, b) == IF a < b THEN a ELSE b
Drop(bytes, n) == SubSeq(bytes, n + 1, Len(bytes))

\* A helper's result: the parser, the rest of the piece, whether it is done.
Result(s, bytes, done) == [parser |-> s, rest |-> bytes, done |-> done]

\* MultiByteValueParser::Initialize for size bytes at offset at.
Expect(s, at, size) == [s EXCEPT !.pValue = at, !.valueSize = size, !.countDown = size]

\* MultiByteValueParser::Parse
ParseValue(s, bytes) ==
  LET n == Least(s.countDown, Len(bytes))
      first == s.pValue + s.valueSize - s.countDown
      left == s.countDown - n IN
  Result([s EXCEPT
            !.varBuffer = SubSeq(@, 1, first) \o SubSeq(bytes, 1, n) \o Drop(@, first + n),
            !.countDown = IF left = 0 THEN s.valueSize ELSE left],
         Drop(bytes, n), left = 0)

\* Mutant: what is left to skip is forgotten at the end of a piece.
SkipAnew(s, bytes, size) ==
  LET n == Least(size, Len(bytes)) IN
  Result(s, Drop(bytes, n), n = size)

\* ByteSkipper::Skip
Skip(s, bytes, size) ==
  LET count == IF s.skipping THEN s.toSkip ELSE size
      n == Least(count, Len(bytes)) IN
  Result([s EXCEPT !.skipping = n < count, !.toSkip = count - n], Drop(bytes, n), n = count)

-----------------------------------------------------------------------------
\* (bmAttributes & bTransferTypeMask) == USB_TRANSFER_TYPE_BULK
TransferTypeOK(mask, attributes) ==
  IF mask = 3 THEN attributes % 4 = BULK ELSE (attributes \div 2) % 2 = 1

\* USBH_MIDI::EndpointXtract, counted by the parser.
EndpointXtract(s) ==
  LET address == At(s, 2)
      number == address % 16 IN
  IF ~TransferTypeOK(s.bTransferTypeMask, At(s, 3)) THEN s
  ELSE IF address >= 128 THEN [s EXCEPT !.epIn = number, !.nEPs = @ + 1]
                         ELSE [s EXCEPT !.epOut = number, !.nEPs = @ + 1]

\* Mutant: every interface is good.
AnyInterface(s) == TRUE

\* Step 1 of the search takes MIDI streaming interfaces, step 2 takes all.
GoodInterface(s) ==
  s.isMidiSearch => At(s, 5) = AUDIO /\ At(s, 6) = MIDISTREAMING

\* A descriptor of a type that matters is complete in varBuffer.
Descriptor(s) ==
  CASE s.dscrType = CONFIGURATION -> [s EXCEPT !.confValue = At(s, 5)]
    [] s.dscrType = INTERFACE /\ GoodInterface(s) ->
         [s EXCEPT !.isGoodInterface = TRUE, !.nEPs = IF @ < 2 THEN 0 ELSE @]
    [] s.dscrType = ENDPOINT /\ s.isGoodInterface /\ s.nEPs < 2 -> EndpointXtract(s)
    [] OTHER -> s

\* Length and type have been read: what is left goes behind them.
Header(s) ==
  LET h == [s EXCEPT !.dscrLen = At(s, 0), !.dscrType = At(s, 1),
                     !.stateParseDescr = 4,
                     !.isGoodInterface = @ /\ At(s, 1) # INTERFACE] IN
  Expect(h, 2, (h.dscrLen - 2) % 256)

ParseBody(s, bytes) ==
  LET body == IF s.dscrType \in {CONFIGURATION, INTERFACE, ENDPOINT}
                THEN ParseValue(s, bytes)
                ELSE Skip(s, bytes, (s.dscrLen - 2) % 65536) IN
  IF body.done
    THEN Result([Descriptor(body.parser) EXCEPT !.stateParseDescr = 0], body.rest, TRUE)
    ELSE body

\* MidiDescParser::ParseDescriptor: from where it stopped to the end of one
\* descriptor, or of the piece.
ParseDescriptor(s, bytes) ==
  IF s.stateParseDescr = 4 THEN ParseBody(s, bytes)
  ELSE LET begun == IF s.stateParseDescr = 0
                      THEN [Expect(s, 0, 2) EXCEPT !.stateParseDescr = 1] ELSE s
           head == ParseValue(begun, bytes) IN
       IF head.done THEN ParseBody(Header(head.parser), head.rest) ELSE head

\* MidiDescParser::Parse: one descriptor after the other, to the end of the
\* piece; there are no more of them than bytes.
Parse(s, bytes) ==
  LET Goes(r, b) == IF r.done /\ r.rest # <<>> THEN ParseDescriptor(r.parser, r.rest) ELSE r
  IN FoldLeft(Goes, Result(s, bytes, TRUE), bytes).parser

\* The pieces of bufSize bytes in which ctrlReq hands over the descriptor.
Pieces(bytes, bufSize) ==
  [k \in 1..((Len(bytes) + bufSize - 1) \div bufSize) |->
     SubSeq(bytes, (k - 1) * bufSize + 1, Least(k * bufSize, Len(bytes)))]

ParseAll(s, pieces) == FoldLeft(Parse, s, pieces)
=============================================================================

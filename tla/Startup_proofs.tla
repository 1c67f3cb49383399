---------------------------- MODULE Startup_proofs ----------------------------
(***************************************************************************)
(* Proofs about the program from reset to its endless loop: the codec's    *)
(* registers are set up by its driver, the SPI commands of the host        *)
(* controller's start-up are exact, and what UsbTask_proofs proves of the  *)
(* host task holds of the whole program.                                   *)
(***************************************************************************)
EXTENDS Startup, UsbTask_proofs

(***************************************************************************)
(* The codec.                                                              *)
(*                                                                         *)
(* An attempt is a script of commands: address, bytes written and, for a   *)
(* read, the address again and two bytes asked for.  The invariant says    *)
(* where in the script the driver and the core are, and what the codec,    *)
(* the core's FIFOs and the buffer hold at that place.                     *)
(***************************************************************************)

Total(call) == IF call.op = "wr" THEN 5 ELSE 6

KindOf(call, j) ==
  IF j = 1 THEN "aw"
  ELSE IF call.op = "wr" \/ j <= 3 THEN "tx"
  ELSE IF j = 4 THEN "ar" ELSE "rx"

Payload(call, j) ==
  IF j = 2 THEN Hi(call.reg) ELSE IF j = 3 THEN Lo(call.reg)
  ELSE IF j = 4 THEN Hi(call.data) ELSE Lo(call.data)

\* Command c is the j-th of the script; an attempt that went astray sends
\* other bytes.
Is(c, j, call, wild) ==
  /\ c.kind = KindOf(call, j)
  /\ c.sto <=> j = Total(call)
  /\ c.kind = "tx" /\ ~wild => c.d = Payload(call, j)

\* q is a part of the script, behind the first n commands.
InScript(q, n, call, wild) == \A j \in 1..Len(q) : Is(q[j], n + j, call, wild)

\* The bytes of a transaction l are those of the script.
Spells(l, call) ==
  \A j \in 2..Len(l) : j <= 3 \/ call.op = "wr" => l[j] = Payload(call, j)

\* The answer of a codec whose register holds w; q is a part of it.
Answer(w, j) == IF j = 1 THEN Hi(w) ELSE Lo(w)
Answers(q, n, w) == \A j \in 1..Len(q) : q[j] = Answer(w, n + j)

\* The commands of the running function end at ScriptEnd; Pushed are pushed, and
\* Gone of them have left the FIFO of the core.
ScriptEnd == IF NextCall.op = "rd" /\ ~receiving THEN 3 ELSE Total(NextCall)
Pushed == ScriptEnd - Len(todo)
Gone == Pushed - Len(cmds)

Active == {"push", "check", "read", "wait"}
I2cPlace == Active \cup {"call", "attempt", "return", "hang"}

(***************************************************************************)
(* The invariant.                                                          *)
(***************************************************************************)
I2cTypes ==
  /\ at \in Nat \ {0} /\ at <= 22 /\ i2c_pc \in I2cPlace
  /\ i2c_pc # "call" => at <= 21
  /\ todo \in Seq(Commands) /\ cmds \in Seq(Commands)
  /\ rx \in Seq(Byte) /\ latch \in Seq(Byte)
  /\ receiving \in BOOLEAN /\ astray \in BOOLEAN /\ en \in BOOLEAN
  /\ nack_det \in BOOLEAN /\ arblost_det \in BOOLEAN /\ stuck \in BOOLEAN
  /\ retry \in Nat /\ retry <= RETRIES /\ filled \in Nat
  /\ codec \in [Regs -> Word] /\ mishaps \in [Fault -> Nat]

BufferIs ==
  i2c_pc # "call" =>
    /\ buffer \in Seq(Byte)
    /\ Len(buffer) = IF NextCall.op = "wr" THEN 4 ELSE 2
    /\ NextCall.op = "wr" => /\ ~astray
                             /\ \A j \in 1..4 : buffer[j] = Payload(NextCall, j + 1)

CoreOff ==
  i2c_pc \notin Active => ~en /\ cmds = <<>> /\ rx = <<>> /\ latch = <<>>

StatusIs ==
  /\ i2c_pc \in Active =>
       /\ status \in {"SUCCESS", "TIMEOUT", "NACK_ERR", "ARB_LOST_ERR"}
       /\ status = "NACK_ERR" => nack_det
       /\ status = "ARB_LOST_ERR" => arblost_det
       /\ status = "TIMEOUT" /\ ~receiving => stuck
  /\ i2c_pc = "push" => todo # <<>>
  /\ i2c_pc = "read" => todo = <<>> /\ receiving /\ status = "SUCCESS"
  /\ i2c_pc = "wait" /\ status = "SUCCESS" =>
       todo = <<>> /\ (NextCall.op = "rd" => receiving)
  /\ i2c_pc = "attempt" => retry = RETRIES \/ status \in Retryable
  /\ arblost_det => mishaps["arblost"] > 0

Queues ==
  i2c_pc \in Active =>
    /\ receiving => NextCall.op = "rd" /\ Len(todo) <= 3
    /\ Len(todo) <= ScriptEnd /\ Len(cmds) <= Pushed
    /\ InScript(todo, Pushed, NextCall, astray)
    /\ InScript(cmds, Gone, NextCall, astray)

\* No command of the attempt has failed, as far as the core goes.
Clean == en /\ ~nack_det /\ ~arblost_det

\* How many bytes the codec has heard when n commands are gone.
HeardBytes(call, n) ==
  IF n = Total(call) THEN 0 ELSE IF call.op = "wr" \/ n <= 3 THEN n ELSE n - 1

Latched ==
  i2c_pc \in Active =>
    /\ Clean => Len(latch) = HeardBytes(NextCall, Gone)
    /\ ~Clean => /\ Gone >= 1
                 /\ Len(latch) = 0 \/ (Len(latch) = 1 /\ NextCall.op = "rd" /\ Gone >= 4)
    /\ ~astray => Spells(latch, NextCall)
    /\ ~en => stuck /\ receiving /\ rx = <<>> /\ latch = <<>>

\* The driver has not given up the attempt.
Hopeful == i2c_pc \in {"push", "check", "read"} \/ (i2c_pc = "wait" /\ status = "SUCCESS")

AskedFor == codec[NextCall.reg]

Received ==
  i2c_pc \in Active =>
    /\ ~receiving => rx = <<>>
    /\ receiving /\ Hopeful =>
         /\ filled + Len(rx) <= 2
         /\ Clean => filled + Len(rx) = IF Gone <= 4 THEN 0 ELSE Gone - 4
         /\ ~en => filled = 0
         /\ i2c_pc = "wait" => filled = 2
         /\ ~astray => /\ \A j \in 1..filled : buffer[j] = Answer(AskedFor, j)
                       /\ Answers(rx, filled, AskedFor)

WritesOf == {j \in 1..21 : Setup[j].op = "wr"}

CodecIs ==
  /\ \A k \in WritesOf : k > at => codec[Setup[k].reg] = Unset
  /\ mishaps["arblost"] = 0 =>
       \A k \in WritesOf : k < at => codec[Setup[k].reg] = Setup[k].data
  /\ i2c_pc \in Active /\ NextCall.op = "wr" /\ Clean /\ Gone = 5 => AskedFor = NextCall.data
  /\ i2c_pc = "return" /\ status = "SUCCESS" =>
       /\ NextCall.op = "wr" /\ mishaps["arblost"] = 0 => AskedFor = NextCall.data
       /\ NextCall.op = "rd" /\ ~astray =>
            buffer[1] = Answer(AskedFor, 1) /\ buffer[2] = Answer(AskedFor, 2)

\* Without an arbitration loss and with a bus that goes on, an attempt only
\* fails if a byte was refused during it.
Hopes ==
  ~stuck /\ mishaps["arblost"] = 0 =>
    /\ i2c_pc = "attempt" => mishaps["nack"] >= RETRIES - retry
    /\ i2c_pc \in Active => /\ mishaps["nack"] >= RETRIES - retry - 1
                            /\ nack_det => mishaps["nack"] >= RETRIES - retry
                            /\ status # "SUCCESS" => nack_det
    /\ i2c_pc = "return" => status = "SUCCESS" \/ mishaps["nack"] >= RETRIES
    /\ i2c_pc = "hang" => mishaps["nack"] >= RETRIES

I2cInv ==
  /\ I2cTypes /\ BufferIs /\ CoreOff /\ StatusIs /\ Queues /\ Latched /\ Received
  /\ CodecIs /\ Hopes

-----------------------------------------------------------------------------
(***************************************************************************)
(* The calls of start-up, and the bytes of a word.                         *)
(***************************************************************************)
LEMMA SetupFacts ==
  /\ Len(Setup) = 21
  /\ \A k \in 1..21 : /\ Setup[k].op \in {"rd", "wr"}
                      /\ Setup[k].reg \in Word /\ Setup[k].data \in Word
<1>1. Len(Setup) = 21
  BY DEF Setup
<1>2. ASSUME NEW k \in 1..21
      PROVE  Setup[k].op \in {"rd", "wr"} /\ Setup[k].reg \in Word /\ Setup[k].data \in Word
  BY DEF Setup, Rd, Wr, Word
<1> QED BY <1>1, <1>2

\* Each register is written once.
LEMMA WrittenOnce ==
  ASSUME NEW j \in WritesOf, NEW k \in WritesOf, Setup[j].reg = Setup[k].reg
  PROVE  j = k
<1> DEFINE Nth(r) == CASE r = 50 -> 2 [] r = 48 -> 4 [] r = 40 -> 6 [] r = 2 -> 8
                       [] r = 4 -> 10 [] r = 6 -> 12 [] r = 36 -> 14 [] r = 10 -> 16
                       [] r = 14 -> 19 [] OTHER -> 0
<1>1. ASSUME NEW i \in WritesOf PROVE Nth(Setup[i].reg) = i
  BY DEF WritesOf, Setup, Rd, Wr
<1> HIDE DEF Nth
<1> QED BY <1>1

LEMMA Bytes ==
  ASSUME NEW w \in Word
  PROVE  Hi(w) \in Byte /\ Lo(w) \in Byte /\ 256 * Hi(w) + Lo(w) = w
BY DEF Word, Byte, Hi, Lo

LEMMA CallFacts ==
  ASSUME at \in 1..21
  PROVE  /\ NextCall.op \in {"rd", "wr"} /\ NextCall.reg \in Word /\ NextCall.data \in Word
         /\ NextCall.reg \in Regs
         /\ \A j : Payload(NextCall, j) \in Byte
         /\ 256 * Payload(NextCall, 2) + Payload(NextCall, 3) = NextCall.reg
         /\ 256 * Payload(NextCall, 4) + Payload(NextCall, 5) = NextCall.data
<1>1. NextCall.op \in {"rd", "wr"} /\ NextCall.reg \in Word /\ NextCall.data \in Word
  BY SetupFacts DEF NextCall
<1>2. NextCall.reg \in Regs
  BY SetupFacts DEF NextCall, Regs
<1> QED BY <1>1, <1>2, Bytes DEF Payload

-----------------------------------------------------------------------------
(***************************************************************************)
(* Parts of the script.                                                    *)
(***************************************************************************)
LEMMA FitsHead ==
  ASSUME NEW q \in Seq(Commands), NEW n \in Nat, NEW call, NEW wild,
         InScript(q, n, call, wild), q # <<>>
  PROVE  /\ Is(Head(q), n + 1, call, wild) /\ InScript(Tail(q), n + 1, call, wild)
         /\ Head(q) \in Commands /\ Tail(q) \in Seq(Commands)
         /\ Len(Tail(q)) = Len(q) - 1 /\ Len(q) >= 1
<1> HIDE DEF Commands
<1>1. /\ Head(q) = q[1] /\ Head(q) \in Commands /\ Tail(q) \in Seq(Commands)
      /\ Len(Tail(q)) = Len(q) - 1 /\ Len(q) >= 1
      /\ \A j \in 1..Len(Tail(q)) : Tail(q)[j] = q[j + 1]
  OBVIOUS
<1>2. Is(q[1], n + 1, call, wild)
  BY <1>1 DEF InScript
<1>3. ASSUME NEW j \in 1..Len(Tail(q)) PROVE Is(Tail(q)[j], n + 1 + j, call, wild)
  <2>1. j + 1 \in 1..Len(q) /\ n + 1 + j = n + (j + 1) /\ Tail(q)[j] = q[j + 1]
    BY <1>1
  <2>2. Is(q[j + 1], n + (j + 1), call, wild)
    BY <2>1 DEF InScript
  <2> QED BY <2>1, <2>2
<1> QED BY <1>1, <1>2, <1>3 DEF InScript

LEMMA FitsAppend ==
  ASSUME NEW q \in Seq(Commands), NEW n \in Nat, NEW call, NEW wild, NEW c \in Commands,
         InScript(q, n, call, wild), Is(c, n + Len(q) + 1, call, wild)
  PROVE  /\ InScript(Append(q, c), n, call, wild)
         /\ Append(q, c) \in Seq(Commands) /\ Len(Append(q, c)) = Len(q) + 1
<1>1. /\ Append(q, c) \in Seq(Commands) /\ Len(Append(q, c)) = Len(q) + 1 /\ Len(q) \in Nat
      /\ \A j \in 1..Len(q) : Append(q, c)[j] = q[j]
      /\ Append(q, c)[Len(q) + 1] = c
  OBVIOUS
<1>2. ASSUME NEW j \in 1..(Len(q) + 1) PROVE Is(Append(q, c)[j], n + j, call, wild)
  <2>1. CASE j \in 1..Len(q)
    BY <1>1, <2>1 DEF InScript
  <2>2. CASE j = Len(q) + 1
    <3>1. n + j = n + Len(q) + 1
      BY <1>1, <2>2
    <3> QED BY <1>1, <2>2, <3>1
  <2> QED BY <1>1, <2>1, <2>2
<1> QED BY <1>1, <1>2 DEF InScript

LEMMA NothingFits == \A n, call, wild : InScript(<<>>, n, call, wild)
BY DEF InScript

LEMMA FrontPut ==
  ASSUME NEW S, NEW a \in S, NEW q \in Seq(S)
  PROVE  /\ <<a>> \o q \in Seq(S) /\ Len(<<a>> \o q) = 1 + Len(q) /\ (<<a>> \o q)[1] = a
         /\ \A k \in 1..Len(q) : (<<a>> \o q)[k + 1] = q[k]
OBVIOUS

LEMMA FirstTwo ==
  ASSUME NEW q \in Seq(Byte), Len(q) >= 2
  PROVE  SubSeq(q, 1, 2) = <<q[1], q[2]>>
<1> DEFINE t == SubSeq(q, 1, 2)
<1>1. t \in Seq(Byte) /\ Len(t) = 2 /\ t[1] = q[1] /\ t[2] = q[2]
  OBVIOUS
<1> HIDE DEF t
<1>2. t = <<q[1], q[2]>>
  BY <1>1
<1> QED BY <1>2 DEF t

LEMMA ReceivesFit ==
  ASSUME NEW call, call.op = "rd"
  PROVE  /\ Receives \in Seq(Commands) /\ Len(Receives) = 3 /\ Receives # <<>>
         /\ \A wild : InScript(Receives, 3, call, wild)
<1>1. Receives \in Seq(Commands) /\ Len(Receives) = 3 /\ Receives # <<>>
  BY DEF Receives, Cmd, Commands, Byte
<1>2. ASSUME NEW wild, NEW j \in 1..3 PROVE Is(Receives[j], 3 + j, call, wild)
  BY DEF Receives, Is, Cmd, KindOf, Total
<1> QED BY <1>1, <1>2 DEF InScript

LEMMA TransmitsFit ==
  ASSUME at \in 1..21, BufferIs, i2c_pc # "call"
  PROVE  /\ Transmits \in Seq(Commands)
         /\ Len(Transmits) = IF NextCall.op = "wr" THEN 5 ELSE 3
         /\ InScript(Transmits, 0, NextCall, SubSeq(buffer, 1, 2) # Address)
         /\ NextCall.op = "wr" => SubSeq(buffer, 1, 2) = Address
<1> DEFINE t == [k \in 1..Len(buffer) |-> Cmd("tx", buffer[k], NextCall.op = "wr" /\ k = Len(buffer))]
           first == Cmd("aw", 0, FALSE)
<1>1. /\ buffer \in Seq(Byte) /\ Len(buffer) = IF NextCall.op = "wr" THEN 4 ELSE 2
      /\ NextCall.op = "wr" => \A j \in 1..4 : buffer[j] = Payload(NextCall, j + 1)
      /\ NextCall.op \in {"rd", "wr"}
  BY CallFacts DEF BufferIs
<1>2. t \in Seq(Commands) /\ Len(t) = Len(buffer) /\ first \in Commands
  <2>1. ASSUME NEW k \in 1..Len(buffer)
        PROVE  Cmd("tx", buffer[k], NextCall.op = "wr" /\ k = Len(buffer)) \in Commands
    BY <1>1 DEF Cmd, Commands
  <2>2. t \in [1..Len(buffer) -> Commands]
    BY <2>1
  <2>3. t \in Seq(Commands) /\ Len(t) = Len(buffer)
    BY <1>1, <2>2
  <2> QED BY <2>3 DEF Cmd, Commands, Byte
<1>3. Transmits = <<first>> \o t
  BY DEF Transmits
<1>4. /\ Transmits \in Seq(Commands) /\ Len(Transmits) = 1 + Len(buffer) /\ Transmits[1] = first
      /\ \A k \in 1..Len(buffer) : Transmits[k + 1] = t[k]
  <2> HIDE DEF t, first
  <2>1. Len(buffer) \in Nat
    BY <1>1
  <2> QED BY <1>2, <1>3, <2>1, FrontPut
<1>5. SubSeq(buffer, 1, 2) = Address <=>
        buffer[1] = Payload(NextCall, 2) /\ buffer[2] = Payload(NextCall, 3)
  <2>1. SubSeq(buffer, 1, 2) = <<buffer[1], buffer[2]>>
    BY <1>1, FirstTwo
  <2>2. Address = <<Payload(NextCall, 2), Payload(NextCall, 3)>>
    BY DEF Address, Payload
  <2> QED BY <2>1, <2>2
<1>6. ASSUME NEW j \in 1..(1 + Len(buffer))
      PROVE  Is(Transmits[j], j, NextCall, SubSeq(buffer, 1, 2) # Address)
  <2>1. CASE j = 1
    BY <1>1, <1>4, <2>1 DEF Is, KindOf, Total, Cmd
  <2>2. CASE j # 1
    <3>1. PICK k \in 1..Len(buffer) : j = k + 1
      BY <1>1, <2>2
    <3>2. Transmits[j] = Cmd("tx", buffer[k], NextCall.op = "wr" /\ k = Len(buffer))
      BY <1>4, <3>1
    <3>3. SubSeq(buffer, 1, 2) = Address => buffer[k] = Payload(NextCall, j)
      BY <1>1, <1>5, <3>1
    <3>4. "tx" = KindOf(NextCall, j)
      BY <1>1, <2>2, <3>1 DEF KindOf
    <3>5. (NextCall.op = "wr" /\ k = Len(buffer)) <=> j = Total(NextCall)
      BY <1>1, <3>1 DEF Total
    <3>6. /\ Transmits[j].kind = "tx" /\ Transmits[j].d = buffer[k]
          /\ Transmits[j].sto = (NextCall.op = "wr" /\ k = Len(buffer))
      BY <3>2 DEF Cmd
    <3>7. Transmits[j].sto <=> j = Total(NextCall)
      BY <3>5, <3>6, Zenon
    <3> QED BY <3>3, <3>4, <3>6, <3>7, Zenon DEF Is
  <2> QED BY <2>1, <2>2
<1>7. InScript(Transmits, 0, NextCall, SubSeq(buffer, 1, 2) # Address)
  BY <1>1, <1>4, <1>6 DEF InScript
<1> QED BY <1>1, <1>4, <1>5, <1>7

-----------------------------------------------------------------------------
(***************************************************************************)
(* What the invariant says of a running attempt.                           *)
(***************************************************************************)
LEMMA CallStays == ASSUME UNCHANGED at PROVE NextCall' = NextCall
BY DEF NextCall

LEMMA PlaceFacts ==
  ASSUME I2cInv, i2c_pc \in Active
  PROVE  /\ at \in 1..21 /\ NextCall.op \in {"rd", "wr"}
         /\ ScriptEnd \in {3, 5, 6} /\ Pushed \in Nat /\ Gone \in Nat
         /\ Pushed = ScriptEnd - Len(todo) /\ Gone = Pushed - Len(cmds)
         /\ Len(todo) \in Nat /\ Len(cmds) \in Nat
         /\ Pushed <= ScriptEnd /\ Gone <= Pushed
         /\ NextCall.op = "rd" /\ ~receiving => ScriptEnd = 3
         /\ NextCall.op = "wr" => ScriptEnd = 5
         /\ receiving => NextCall.op = "rd" /\ ScriptEnd = 6
<1>1. at \in 1..21 /\ todo \in Seq(Commands) /\ cmds \in Seq(Commands)
  BY DEF I2cInv, I2cTypes, Active
<1>2. NextCall.op \in {"rd", "wr"}
  BY <1>1, CallFacts
<1>3. Len(todo) <= ScriptEnd /\ Len(cmds) <= Pushed /\ (receiving => NextCall.op = "rd")
  BY DEF I2cInv, Queues
<1>4. /\ NextCall.op = "rd" /\ ~receiving => ScriptEnd = 3
      /\ NextCall.op = "wr" => ScriptEnd = 5
      /\ receiving => ScriptEnd = 6
      /\ ScriptEnd \in {3, 5, 6}
  BY <1>2, <1>3 DEF ScriptEnd, Total
<1>5. Len(todo) \in Nat /\ Len(cmds) \in Nat
  BY <1>1
<1> QED BY <1>1, <1>2, <1>3, <1>4, <1>5 DEF Pushed, Gone

-----------------------------------------------------------------------------
(***************************************************************************)
(* The calls.                                                              *)
(***************************************************************************)
LEMMA FourBytes ==
  \A a, b, c, d \in Byte :
    /\ <<a, b>> \o <<c, d>> \in Seq(Byte) /\ Len(<<a, b>> \o <<c, d>>) = 4
    /\ (<<a, b>> \o <<c, d>>)[1] = a /\ (<<a, b>> \o <<c, d>>)[2] = b
    /\ (<<a, b>> \o <<c, d>>)[3] = c /\ (<<a, b>> \o <<c, d>>)[4] = d
OBVIOUS

LEMMA I2cBegins == I2cInv /\ BeginCall => I2cInv'
<1> SUFFICES ASSUME I2cInv, BeginCall PROVE I2cInv'
  OBVIOUS
<1>1. /\ i2c_pc = "call" /\ i2c_pc' = "attempt" /\ retry' = RETRIES /\ astray' = FALSE
      /\ buffer' = IF NextCall.op = "rd" THEN Address
                   ELSE Address \o <<Hi(NextCall.data), Lo(NextCall.data)>>
      /\ UNCHANGED <<at, en, cmds, rx, nack_det, arblost_det, stuck, latch, codec, mishaps,
                     todo, filled, receiving, status>>
  BY DEF BeginCall, core
<1>2. at \in 1..21
  BY SetupFacts DEF BeginCall, I2cInv, I2cTypes
<1>3. NextCall' = NextCall
  BY <1>1, CallStays
<1>4. I2cTypes'
  <2>1. retry' \in Nat /\ retry' <= RETRIES
    BY <1>1, I2cAssumption
  <2>2. i2c_pc' \in I2cPlace /\ at' \in Nat \ {0} /\ at' <= 21
    BY <1>1, <1>2 DEF I2cPlace
  <2>3. astray' \in BOOLEAN
    BY DEF BeginCall
  <2> QED BY <1>1, <2>1, <2>2, <2>3 DEF I2cInv, I2cTypes
<1>5. BufferIs'
  <2>1. /\ Address = <<Payload(NextCall, 2), Payload(NextCall, 3)>>
        /\ Hi(NextCall.data) = Payload(NextCall, 4) /\ Lo(NextCall.data) = Payload(NextCall, 5)
    BY DEF Address, Payload
  <2>2. \A j : Payload(NextCall, j) \in Byte
    BY <1>2, CallFacts
  <2>3. NextCall.op \in {"rd", "wr"}
    BY <1>2, CallFacts
  <2> DEFINE p(j) == Payload(NextCall, j)
  <2>4. CASE NextCall.op = "rd"
    <3>1. buffer' = <<p(2), p(3)>>
      BY <1>1, <2>1, <2>4
    <3>2. buffer' \in Seq(Byte) /\ Len(buffer') = 2
      BY <2>2, <3>1
    <3> QED BY <1>3, <2>4, <3>2 DEF BufferIs
  <2>5. CASE NextCall.op = "wr"
    <3>1. buffer' = <<p(2), p(3)>> \o <<p(4), p(5)>>
      BY <1>1, <2>1, <2>5
    <3>2. /\ buffer' \in Seq(Byte) /\ Len(buffer') = 4
          /\ buffer'[1] = p(2) /\ buffer'[2] = p(3) /\ buffer'[3] = p(4) /\ buffer'[4] = p(5)
      BY <2>2, <3>1, FourBytes
    <3>3. \A j \in 1..4 : buffer'[j] = p(j + 1)
      BY <3>2
    <3> QED BY <1>1, <1>3, <2>5, <3>2, <3>3 DEF BufferIs
  <2> QED BY <2>3, <2>4, <2>5
<1>6. CoreOff'
  BY <1>1 DEF I2cInv, CoreOff, Active
<1>7. StatusIs' /\ Queues' /\ Latched' /\ Received' /\ CodecIs'
  BY <1>1 DEF I2cInv, StatusIs, Queues, Latched, Received, CodecIs, Active
<1>8. Hopes'
  <2>1. mishaps["nack"] \in Nat
    BY DEF I2cInv, I2cTypes, Fault
  <2> QED BY <1>1, <2>1, I2cAssumption DEF Hopes, Active
<1> QED BY <1>4, <1>5, <1>6, <1>7, <1>8 DEF I2cInv

LEMMA I2cEnds == I2cInv /\ EndCall => I2cInv'
<1> SUFFICES ASSUME I2cInv, EndCall PROVE I2cInv'
  OBVIOUS
<1>1. /\ i2c_pc = "return"
      /\ \/ status = "SUCCESS" /\ at' = at + 1 /\ i2c_pc' = "call"
         \/ status # "SUCCESS" /\ at' = at /\ i2c_pc' = "hang"
      /\ UNCHANGED <<buffer, en, cmds, rx, nack_det, arblost_det, stuck, latch, codec, mishaps,
                     todo, filled, receiving, status, retry, astray>>
  BY DEF EndCall, core
<1>2. at \in 1..21
  BY <1>1 DEF I2cInv, I2cTypes
<1>3. I2cTypes'
  BY <1>1, <1>2 DEF I2cInv, I2cTypes, I2cPlace
<1>4. BufferIs'
  BY <1>1, CallStays DEF I2cInv, BufferIs
<1>5. CoreOff' /\ StatusIs' /\ Queues' /\ Latched' /\ Received'
  BY <1>1 DEF I2cInv, CoreOff, StatusIs, Queues, Latched, Received, Active
<1>6. CodecIs'
  <2>1. ASSUME NEW k \in WritesOf, k > at' PROVE codec[Setup[k].reg] = Unset
    BY <1>1, <1>2, <2>1 DEF I2cInv, CodecIs, WritesOf
  <2>2. ASSUME NEW k \in WritesOf, k < at', mishaps["arblost"] = 0
        PROVE  codec[Setup[k].reg] = Setup[k].data
    <3>1. CASE k < at
      BY <2>2, <3>1 DEF I2cInv, CodecIs
    <3>2. CASE k = at
      BY <1>1, <2>2, <3>2 DEF I2cInv, CodecIs, WritesOf, AskedFor, NextCall
    <3> QED BY <1>1, <1>2, <2>2, <3>1, <3>2 DEF WritesOf
  <2> QED BY <1>1, <2>1, <2>2 DEF CodecIs, Active
<1>7. Hopes'
  BY <1>1 DEF I2cInv, Hopes, Active
<1> QED BY <1>3, <1>4, <1>5, <1>6, <1>7 DEF I2cInv

LEMMA I2cAttempts == I2cInv /\ Attempt => I2cInv'
<1> SUFFICES ASSUME I2cInv, Attempt PROVE I2cInv'
  OBVIOUS
<1>1. /\ i2c_pc = "attempt"
      /\ UNCHANGED <<at, buffer, filled, cmds, rx, stuck, latch, codec, mishaps>>
  BY DEF Attempt, client
<1>2. /\ at \in 1..21 /\ NextCall' = NextCall /\ ~en /\ cmds = <<>> /\ rx = <<>> /\ latch = <<>>
      /\ mishaps["nack"] \in Nat /\ retry \in Nat /\ RETRIES \in Nat
  BY <1>1, CallStays, I2cAssumption DEF I2cInv, I2cTypes, CoreOff, Active, Fault
<1>3. CASE retry = 0
  <2>1. /\ i2c_pc' = "return"
        /\ UNCHANGED <<todo, receiving, status, retry, astray, en, nack_det, arblost_det>>
    BY <1>3 DEF Attempt
  <2>2. status # "SUCCESS"
    BY <1>1, <1>3, I2cAssumption DEF I2cInv, StatusIs, Retryable
  <2>3. I2cTypes'
    BY <1>1, <1>2, <2>1 DEF I2cInv, I2cTypes, I2cPlace
  <2>6. BufferIs' /\ CoreOff'
    BY <1>1, <1>2, <2>1 DEF I2cInv, BufferIs, CoreOff, Active
  <2>4. StatusIs' /\ Queues' /\ Latched' /\ Received' /\ CodecIs'
    BY <1>1, <1>2, <2>1, <2>2 DEF I2cInv, StatusIs, Queues, Latched, Received, CodecIs, Active
  <2>5. Hopes'
    BY <1>1, <1>2, <1>3, <2>1 DEF I2cInv, Hopes, Active
  <2> QED BY <2>3, <2>4, <2>5, <2>6 DEF I2cInv
<1>4. CASE retry # 0
  <2>1. /\ i2c_pc' = "push" /\ retry' = retry - 1 /\ receiving' = FALSE
        /\ astray' = (SubSeq(buffer, 1, 2) # Address) /\ status' = "SUCCESS" /\ en' = TRUE
        /\ nack_det' = FALSE /\ arblost_det' = FALSE /\ todo' = Transmits
    BY <1>2, <1>4 DEF Attempt
  <2>2. BufferIs
    BY DEF I2cInv
  <2>3. /\ Transmits \in Seq(Commands)
        /\ Len(Transmits) = IF NextCall.op = "wr" THEN 5 ELSE 3
        /\ InScript(Transmits, 0, NextCall, SubSeq(buffer, 1, 2) # Address)
        /\ NextCall.op = "wr" => SubSeq(buffer, 1, 2) = Address
    BY <1>1, <1>2, <2>2, TransmitsFit
  <2>4. NextCall.op \in {"rd", "wr"}
    BY <1>2, CallFacts
  <2>5. ScriptEnd' = Len(Transmits) /\ Pushed' = 0 /\ Gone' = 0
    BY <1>1, <1>2, <2>1, <2>3, <2>4 DEF ScriptEnd, Pushed, Gone, Total
  <2>6. I2cTypes'
    <3>1. retry' \in Nat /\ retry' <= RETRIES /\ i2c_pc' \in I2cPlace /\ at' \in Nat \ {0} /\ at' <= 21
      BY <1>1, <1>2, <1>4, <2>1 DEF I2cInv, I2cTypes, I2cPlace, Active
    <3>2. /\ receiving' \in BOOLEAN /\ astray' \in BOOLEAN /\ en' \in BOOLEAN
          /\ nack_det' \in BOOLEAN /\ arblost_det' \in BOOLEAN
      BY <2>1
    <3> QED BY <1>1, <2>1, <2>3, <3>1, <3>2 DEF I2cInv, I2cTypes
  <2>7. BufferIs'
    <3>1. NextCall.op = "wr" => ~astray'
      BY <2>1, <2>3
    <3> QED BY <1>1, <1>2, <2>2, <3>1 DEF BufferIs
  <2>12. CoreOff' /\ StatusIs'
    <3>1. todo' # <<>>
      BY <2>1, <2>3
    <3> QED BY <2>1, <3>1 DEF CoreOff, StatusIs, Active
  <2>8. Queues'
    BY <1>1, <1>2, <2>1, <2>3, <2>5, NothingFits DEF Queues
  <2>9. Latched' /\ Received'
    BY <1>1, <1>2, <2>1, <2>4, <2>5 DEF Latched, Received, Clean, HeardBytes, Total, Spells
  <2>10. CodecIs'
    BY <1>1, <1>2, <2>1, <2>5 DEF I2cInv, CodecIs
  <2>11. Hopes'
    BY <1>1, <1>2, <1>4, <2>1 DEF I2cInv, Hopes, Active
  <2> QED BY <2>6, <2>7, <2>8, <2>9, <2>10, <2>11, <2>12 DEF I2cInv
<1> QED BY <1>3, <1>4

-----------------------------------------------------------------------------
(***************************************************************************)
(* The driver pushes commands.                                             *)
(***************************************************************************)
LEMMA I2cPushes == I2cInv /\ Push => I2cInv'
<1> SUFFICES ASSUME I2cInv, Push PROVE I2cInv'
  OBVIOUS
<1>1. /\ i2c_pc = "push" /\ i2c_pc' = "check"
      /\ cmds' = Append(cmds, Head(todo)) /\ todo' = Tail(todo)
      /\ UNCHANGED <<at, buffer, filled, receiving, status, retry, astray,
                     en, rx, nack_det, arblost_det, stuck, latch, codec, mishaps>>
  BY DEF Push, client
<1>2. i2c_pc \in Active /\ i2c_pc' \in Active /\ NextCall' = NextCall
  BY <1>1, CallStays DEF Active
<1>3. /\ at \in 1..21 /\ Pushed \in Nat /\ Gone \in Nat /\ ScriptEnd \in {3, 5, 6}
      /\ Pushed = ScriptEnd - Len(todo) /\ Gone = Pushed - Len(cmds)
      /\ Len(todo) \in Nat /\ Len(cmds) \in Nat /\ Pushed <= ScriptEnd /\ Gone <= Pushed
  BY <1>2, PlaceFacts
<1>4. /\ todo \in Seq(Commands) /\ cmds \in Seq(Commands) /\ todo # <<>>
      /\ InScript(todo, Pushed, NextCall, astray) /\ InScript(cmds, Gone, NextCall, astray)
  BY <1>1, <1>2 DEF I2cInv, I2cTypes, StatusIs, Queues
<1>5. /\ Is(Head(todo), Pushed + 1, NextCall, astray)
      /\ InScript(Tail(todo), Pushed + 1, NextCall, astray)
      /\ Head(todo) \in Commands /\ Tail(todo) \in Seq(Commands)
      /\ Len(Tail(todo)) = Len(todo) - 1 /\ Len(todo) >= 1
  BY <1>3, <1>4, FitsHead
<1>6. /\ InScript(cmds', Gone, NextCall, astray) /\ cmds' \in Seq(Commands)
      /\ Len(cmds') = Len(cmds) + 1
  <2>1. Pushed + 1 = Gone + Len(cmds) + 1
    BY <1>3
  <2> QED BY <1>1, <1>3, <1>4, <1>5, <2>1, FitsAppend
<1>7. ScriptEnd' = ScriptEnd
  BY <1>1, <1>2 DEF ScriptEnd
<1>8. Pushed' = Pushed + 1 /\ Gone' = Gone
  BY <1>1, <1>3, <1>5, <1>6, <1>7 DEF Pushed, Gone
<1>9. I2cTypes'
  BY <1>1, <1>5, <1>6 DEF I2cInv, I2cTypes, I2cPlace, Active
<1>10. BufferIs' /\ CoreOff'
  BY <1>1, <1>2 DEF I2cInv, BufferIs, CoreOff
<1>11. StatusIs'
  BY <1>1, <1>2 DEF I2cInv, StatusIs
<1>12. Queues'
  BY <1>1, <1>2, <1>3, <1>5, <1>6, <1>7, <1>8 DEF I2cInv, Queues
<1>13. Latched'
  BY <1>1, <1>2, <1>8 DEF I2cInv, Latched, Clean
<1>14. Received'
  BY <1>1, <1>2, <1>8 DEF I2cInv, Received, Clean, Hopeful, AskedFor
<1>15. CodecIs'
  BY <1>1, <1>2, <1>8 DEF I2cInv, CodecIs, Clean, AskedFor
<1>16. Hopes'
  BY <1>1, <1>2 DEF I2cInv, Hopes
<1> QED BY <1>9, <1>10, <1>11, <1>12, <1>13, <1>14, <1>15, <1>16 DEF I2cInv

LEMMA I2cGivesUpPush == I2cInv /\ PushTimeout => I2cInv'
<1> SUFFICES ASSUME I2cInv, PushTimeout PROVE I2cInv'
  OBVIOUS
<1>1. /\ i2c_pc = "push" /\ i2c_pc' = "wait" /\ status' = "TIMEOUT"
      /\ Len(cmds) >= FIFO_DEPTH /\ Stalled
      /\ UNCHANGED <<at, buffer, cmds, todo, filled, receiving, retry, astray,
                     en, rx, nack_det, arblost_det, stuck, latch, codec, mishaps>>
  BY DEF PushTimeout, client, core
<1>2. i2c_pc \in Active /\ i2c_pc' \in Active /\ NextCall' = NextCall
  BY <1>1, CallStays DEF Active
<1>3. stuck
  <2>1. cmds # <<>>
    BY <1>1, I2cAssumption
  <2>2. ~en => stuck
    BY <1>2 DEF I2cInv, Latched
  <2> QED BY <1>1, <2>1, <2>2 DEF Stalled
<1>4. ScriptEnd' = ScriptEnd /\ Pushed' = Pushed /\ Gone' = Gone
  BY <1>1, <1>2 DEF ScriptEnd, Pushed, Gone
<1>5. I2cTypes'
  BY <1>1 DEF I2cInv, I2cTypes, I2cPlace, Active
<1>6. BufferIs' /\ CoreOff'
  BY <1>1, <1>2 DEF I2cInv, BufferIs, CoreOff
<1>7. StatusIs'
  BY <1>1, <1>2, <1>3 DEF I2cInv, StatusIs
<1>8. Queues'
  BY <1>1, <1>2, <1>4 DEF I2cInv, Queues
<1>9. Latched'
  BY <1>1, <1>2, <1>4 DEF I2cInv, Latched, Clean
<1>10. Received'
  BY <1>1, <1>2, <1>4 DEF I2cInv, Received, Hopeful
<1>11. CodecIs'
  BY <1>1, <1>2, <1>4 DEF I2cInv, CodecIs, Clean, AskedFor
<1>12. Hopes'
  BY <1>1, <1>3 DEF Hopes
<1> QED BY <1>5, <1>6, <1>7, <1>8, <1>9, <1>10, <1>11, <1>12 DEF I2cInv

LEMMA Members == ASSUME NEW S, NEW q \in Seq(S) PROVE \A i \in 1..Len(q) : q[i] \in S
OBVIOUS

LEMMA Listed ==
  ASSUME NEW S, NEW n \in Nat, NEW f \in [1..n -> S]
  PROVE  f \in Seq(S) /\ Len(f) = n
OBVIOUS

\* The bytes bs go behind the first filled bytes of the buffer.
LEMMA Filled ==
  ASSUME NEW bs \in Seq(Byte), Fill(bs), filled \in Nat, buffer \in Seq(Byte), Len(buffer) = 2
  PROVE  /\ buffer' \in Seq(Byte) /\ Len(buffer') = 2 /\ filled' = filled + Len(bs)
         /\ \A j \in 1..filled : j <= 2 => buffer'[j] = buffer[j]
         /\ \A j \in 1..Len(bs) : filled + j <= 2 => buffer'[filled + j] = bs[j]
<1>1. /\ buffer' = [k \in 1..2 |-> IF k - filled \in 1..Len(bs) THEN bs[k - filled] ELSE buffer[k]]
      /\ filled' = filled + Len(bs)
  BY DEF Fill
<1>2. buffer' \in [1..2 -> Byte]
  <2>1. ASSUME NEW k \in 1..2
        PROVE  (IF k - filled \in 1..Len(bs) THEN bs[k - filled] ELSE buffer[k]) \in Byte
    <3> HIDE DEF Byte
    <3>1. \A i \in 1..Len(bs) : bs[i] \in Byte
      OBVIOUS
    <3>2. k \in 1..Len(buffer)
      OBVIOUS
    <3>3. \A i \in 1..Len(buffer) : buffer[i] \in Byte
      BY Members
    <3> QED BY <3>1, <3>2, <3>3
  <2> QED BY <1>1, <2>1
<1>3. buffer' \in Seq(Byte) /\ Len(buffer') = 2
  BY <1>2, Listed
<1>4. ASSUME NEW j \in 1..filled, j <= 2 PROVE buffer'[j] = buffer[j]
  BY <1>1, <1>4
<1>5. ASSUME NEW j \in 1..Len(bs), filled + j <= 2 PROVE buffer'[filled + j] = bs[j]
  <2>1. filled + j \in 1..2 /\ (filled + j) - filled = j
    BY <1>5
  <2> QED BY <1>1, <2>1
<1> QED BY <1>1, <1>3, <1>4, <1>5

LEMMA AnswersFilled ==
  ASSUME NEW bs \in Seq(Byte), Fill(bs), filled \in Nat, buffer \in Seq(Byte), Len(buffer) = 2,
         NEW w, filled + Len(bs) <= 2,
         \A j \in 1..filled : buffer[j] = Answer(w, j), Answers(bs, filled, w)
  PROVE  \A j \in 1..(filled + Len(bs)) : buffer'[j] = Answer(w, j)
<1> SUFFICES ASSUME NEW j \in 1..(filled + Len(bs)) PROVE buffer'[j] = Answer(w, j)
  OBVIOUS
<1>1. /\ \A k \in 1..filled : k <= 2 => buffer'[k] = buffer[k]
      /\ \A k \in 1..Len(bs) : filled + k <= 2 => buffer'[filled + k] = bs[k]
  BY Filled
<1>2. Len(bs) \in Nat /\ j <= 2
  OBVIOUS
<1>3. CASE j \in 1..filled
  BY <1>1, <1>2, <1>3
<1>4. CASE j \notin 1..filled
  <2>1. PICK k \in 1..Len(bs) : j = filled + k
    <3>1. j - filled \in 1..Len(bs) /\ j = filled + (j - filled)
      BY <1>2, <1>4
    <3> QED BY <3>1
  <2>2. bs[k] = Answer(w, filled + k)
    BY DEF Answers
  <2> QED BY <1>1, <1>2, <2>1, <2>2
<1> QED BY <1>3, <1>4

\* A step of the driver that leaves the core alone but for the receive FIFO,
\* and stays in the attempt.
LEMMA CoreRests ==
  ASSUME I2cInv, i2c_pc \in Active, i2c_pc' \in Active,
         UNCHANGED <<at, retry, astray, en, cmds, nack_det, arblost_det, stuck, latch, codec, mishaps>>,
         UNCHANGED <<todo, receiving>>
  PROVE  /\ NextCall' = NextCall /\ ScriptEnd' = ScriptEnd /\ Pushed' = Pushed /\ Gone' = Gone
         /\ CoreOff' /\ Queues' /\ CodecIs' /\ (Clean' <=> Clean) /\ AskedFor' = AskedFor
         /\ rx' = rx \/ en => Latched'
<1>1. NextCall' = NextCall
  BY CallStays
<1>2. ScriptEnd' = ScriptEnd /\ Pushed' = Pushed /\ Gone' = Gone
  BY <1>1 DEF ScriptEnd, Pushed, Gone
<1>3. CoreOff'
  BY DEF CoreOff
<1>4. Queues'
  BY <1>1, <1>2 DEF I2cInv, Queues
<1>5. Clean' <=> Clean
  BY DEF Clean
<1>6. AskedFor' = AskedFor
  BY <1>1 DEF AskedFor
<1>7. CodecIs'
  BY <1>1, <1>2, <1>5, <1>6 DEF I2cInv, CodecIs, Active
<1>8. rx' = rx \/ en => Latched'
  BY <1>1, <1>2, <1>5 DEF I2cInv, Latched
<1> QED BY <1>1, <1>2, <1>3, <1>4, <1>5, <1>6, <1>7, <1>8

\* The three ways behind a command: an error, the end of the transmit of a
\* read, the end of the commands or the next one.
LEMMA I2cChecks == I2cInv /\ Check => I2cInv'
<1> SUFFICES ASSUME I2cInv, Check PROVE I2cInv'
  OBVIOUS
<1>1. /\ i2c_pc = "check" /\ status' = Checked("SUCCESS")
      /\ UNCHANGED <<at, retry, astray, en, cmds, nack_det, arblost_det, stuck, latch, codec, mishaps>>
  BY DEF Check
<1>2. i2c_pc \in Active /\ NextCall' = NextCall
  BY <1>1, CallStays DEF Active
<1>3. /\ at \in 1..21 /\ NextCall.op \in {"rd", "wr"}
      /\ Pushed \in Nat /\ Gone \in Nat /\ ScriptEnd \in {3, 5, 6}
      /\ Pushed = ScriptEnd - Len(todo) /\ Gone = Pushed - Len(cmds)
      /\ Len(todo) \in Nat /\ Len(cmds) \in Nat /\ Pushed <= ScriptEnd /\ Gone <= Pushed
      /\ NextCall.op = "rd" /\ ~receiving => ScriptEnd = 3
      /\ receiving => NextCall.op = "rd" /\ ScriptEnd = 6
  BY <1>2, PlaceFacts
<1>4. /\ status' \in {"SUCCESS", "NACK_ERR", "ARB_LOST_ERR"}
      /\ status' = "NACK_ERR" => nack_det /\ ~arblost_det
      /\ status' = "ARB_LOST_ERR" => arblost_det
  BY <1>1 DEF Checked
<1>5. /\ buffer \in Seq(Byte) /\ Len(buffer) = IF NextCall.op = "wr" THEN 4 ELSE 2
      /\ rx \in Seq(Byte) /\ filled \in Nat
  BY <1>1 DEF I2cInv, BufferIs, I2cTypes
<1>6. CASE status' # "SUCCESS"
  <2>1. i2c_pc' = "wait" /\ UNCHANGED <<buffer, todo, filled, receiving, rx>>
    BY <1>6 DEF Check
  <2>2. i2c_pc' \in Active
    BY <2>1 DEF Active
  <2>3. /\ NextCall' = NextCall /\ CoreOff' /\ Queues' /\ CodecIs' /\ Latched'
    BY <1>1, <1>2, <2>1, <2>2, CoreRests
  <2>4. I2cTypes' /\ BufferIs'
    BY <1>1, <1>2, <2>1 DEF I2cInv, I2cTypes, I2cPlace, Active, BufferIs
  <2>5. StatusIs'
    BY <1>1, <1>2, <1>4, <1>6, <2>1 DEF I2cInv, StatusIs
  <2>6. Received'
    BY <1>2, <1>6, <2>1 DEF I2cInv, Received, Hopeful
  <2>7. Hopes'
    BY <1>1, <1>2, <1>4, <2>1 DEF I2cInv, Hopes, StatusIs, Active
  <2> QED BY <2>3, <2>4, <2>5, <2>6, <2>7 DEF I2cInv
<1>7. CASE status' = "SUCCESS" /\ todo = <<>> /\ ~receiving /\ NextCall.op = "rd"
  <2>1. /\ i2c_pc' = "push" /\ todo' = Receives /\ filled' = 0 /\ receiving' = TRUE
        /\ UNCHANGED <<buffer, rx>>
    BY <1>7 DEF Check, Continue, Retryable
  <2>2. /\ Receives \in Seq(Commands) /\ Len(Receives) = 3 /\ Receives # <<>>
        /\ InScript(Receives, 3, NextCall, astray)
    BY <1>7, ReceivesFit
  <2>3. ScriptEnd' = 6 /\ Pushed = 3 /\ Pushed' = 3 /\ Gone' = Gone
    BY <1>1, <1>2, <1>3, <1>7, <2>1, <2>2 DEF ScriptEnd, Pushed, Gone, Total
  <2>4. I2cTypes'
    BY <1>1, <2>1, <2>2 DEF I2cInv, I2cTypes, I2cPlace, Active
  <2>5. BufferIs' /\ CoreOff'
    BY <1>1, <1>2, <2>1 DEF I2cInv, BufferIs, CoreOff, Active
  <2>6. StatusIs'
    BY <1>1, <1>2, <1>7, <2>1, <2>2 DEF I2cInv, StatusIs
  <2>7. Queues'
    BY <1>1, <1>2, <1>3, <1>7, <2>1, <2>2, <2>3 DEF I2cInv, Queues
  <2>8. Latched'
    <3>1. en
      BY <1>2, <1>7 DEF I2cInv, Latched
    <3> QED BY <1>1, <1>2, <2>1, <2>3, <3>1 DEF I2cInv, Latched, Clean
  <2>9. Received'
    <3>1. rx = <<>> /\ Gone' <= 3
      BY <1>2, <1>3, <1>7, <2>3 DEF I2cInv, Received
    <3> QED BY <1>3, <2>1, <2>3, <3>1 DEF Received, Answers
  <2>10. CodecIs'
    BY <1>1, <1>2, <1>7, <2>1 DEF I2cInv, CodecIs
  <2>11. Hopes'
    BY <1>1, <1>2, <1>7, <2>1 DEF I2cInv, Hopes
  <2> QED BY <2>4, <2>5, <2>6, <2>7, <2>8, <2>9, <2>10, <2>11 DEF I2cInv
<1>8. CASE status' = "SUCCESS" /\ todo = <<>> /\ ~(~receiving /\ NextCall.op = "rd")
  <2>1. /\ i2c_pc' = (IF receiving THEN "read" ELSE "wait")
        /\ UNCHANGED <<buffer, todo, filled, receiving, rx>>
    BY <1>8 DEF Check
  <2>2. i2c_pc' \in Active
    BY <2>1 DEF Active
  <2>3. /\ NextCall' = NextCall /\ ScriptEnd' = ScriptEnd /\ Pushed' = Pushed /\ Gone' = Gone
        /\ CoreOff' /\ Queues' /\ CodecIs' /\ Latched' /\ (Clean' <=> Clean) /\ AskedFor' = AskedFor
    BY <1>1, <1>2, <2>1, <2>2, CoreRests
  <2>4. I2cTypes' /\ BufferIs'
    BY <1>1, <1>2, <2>1 DEF I2cInv, I2cTypes, I2cPlace, Active, BufferIs
  <2>5. StatusIs'
    BY <1>1, <1>2, <1>3, <1>8, <2>1 DEF I2cInv, StatusIs
  <2>6. Received'
    BY <1>1, <1>2, <1>8, <2>1, <2>3 DEF I2cInv, Received, Hopeful
  <2>7. Hopes'
    BY <1>1, <1>2, <1>8, <2>1 DEF I2cInv, Hopes
  <2> QED BY <2>3, <2>4, <2>5, <2>6, <2>7 DEF I2cInv
<1>9. CASE status' = "SUCCESS" /\ todo # <<>>
  <2>1. /\ i2c_pc' = "push" /\ UNCHANGED <<todo, receiving>>
        /\ IF receiving /\ Len(todo) = 1 THEN Fill(rx) /\ rx' = <<>>
                                         ELSE UNCHANGED <<buffer, filled, rx>>
    BY <1>9 DEF Check
  <2>2. i2c_pc' \in Active
    BY <2>1 DEF Active
  <2>3. /\ NextCall' = NextCall /\ ScriptEnd' = ScriptEnd /\ Pushed' = Pushed /\ Gone' = Gone
        /\ CoreOff' /\ Queues' /\ CodecIs' /\ (Clean' <=> Clean) /\ AskedFor' = AskedFor
        /\ rx' = rx \/ en => Latched'
    BY <1>1, <1>2, <2>1, <2>2, CoreRests
  <2>4. Hopes'
    BY <1>1, <1>2, <1>9, <2>1 DEF I2cInv, Hopes
  <2>5. StatusIs'
    BY <1>1, <1>2, <1>9, <2>1 DEF I2cInv, StatusIs
  <2>6. CASE receiving /\ Len(todo) = 1
    <3>1. Fill(rx) /\ rx' = <<>> /\ Len(buffer) = 2
      BY <1>3, <1>5, <2>1, <2>6
    <3>2. buffer' \in Seq(Byte) /\ Len(buffer') = 2 /\ filled' = filled + Len(rx)
      BY <1>5, <3>1, Filled
    <3>3. Len(rx) \in Nat /\ Len(rx') = 0 /\ rx' \in Seq(Byte)
      BY <1>5, <3>1
    <3>4. I2cTypes'
      BY <1>1, <1>5, <2>1, <3>2, <3>3 DEF I2cInv, I2cTypes, I2cPlace, Active
    <3>5. BufferIs'
      BY <1>2, <1>3, <2>6, <3>2 DEF BufferIs
    <3>6. Latched'
      <4>1. ~en => rx = <<>>
        BY <1>2 DEF I2cInv, Latched
      <4> QED BY <2>3, <3>1, <4>1
    <3>7. Received'
      <4>1. /\ filled + Len(rx) <= 2
            /\ Clean => filled + Len(rx) = IF Gone <= 4 THEN 0 ELSE Gone - 4
            /\ ~en => filled = 0
            /\ ~astray => /\ \A j \in 1..filled : buffer[j] = Answer(AskedFor, j)
                          /\ Answers(rx, filled, AskedFor)
        BY <1>1, <1>2, <2>6 DEF I2cInv, Received, Hopeful
      <4>2. ~astray => \A j \in 1..filled' : buffer'[j] = Answer(AskedFor, j)
        BY <1>5, <3>1, <3>2, <4>1, AnswersFilled
      <4>3. ~en => filled' = 0
        <5>1. ~en => rx = <<>>
          BY <1>2 DEF I2cInv, Latched
        <5> QED BY <3>2, <4>1, <5>1
      <4>4. Answers(rx', filled', AskedFor)
        BY <3>3 DEF Answers
      <4>5. filled' + Len(rx') = filled + Len(rx) /\ filled' + Len(rx') <= 2
        BY <1>5, <3>2, <3>3, <4>1
      <4> QED BY <1>1, <2>1, <2>3, <2>6, <4>1, <4>2, <4>3, <4>4, <4>5 DEF Received
    <3> QED BY <2>3, <2>4, <2>5, <3>4, <3>5, <3>6, <3>7 DEF I2cInv
  <2>7. CASE ~(receiving /\ Len(todo) = 1)
    <3>1. UNCHANGED <<buffer, filled, rx>>
      BY <2>1, <2>7
    <3>2. I2cTypes' /\ BufferIs'
      BY <1>1, <1>2, <2>1, <3>1 DEF I2cInv, I2cTypes, I2cPlace, Active, BufferIs
    <3>3. Received'
      BY <1>1, <1>2, <2>1, <2>3, <3>1 DEF I2cInv, Received, Hopeful
    <3> QED BY <2>3, <2>4, <2>5, <3>1, <3>2, <3>3 DEF I2cInv
  <2> QED BY <2>6, <2>7
<1> QED BY <1>6, <1>7, <1>8, <1>9

LEMMA I2cReads == I2cInv /\ Read => I2cInv'
<1> SUFFICES ASSUME I2cInv, Read PROVE I2cInv'
  OBVIOUS
<1>1. /\ i2c_pc = "read" /\ i2c_pc' = "read" /\ filled < Len(buffer) /\ rx # <<>>
      /\ Fill(<<Head(rx)>>) /\ rx' = Tail(rx)
      /\ UNCHANGED <<at, retry, astray, en, cmds, nack_det, arblost_det, stuck, latch, codec, mishaps>>
      /\ UNCHANGED <<todo, receiving>> /\ status' = status
  BY DEF Read
<1>2. i2c_pc \in Active /\ i2c_pc' \in Active /\ receiving
  BY <1>1 DEF Active, I2cInv, StatusIs
<1>3. NextCall.op = "rd"
  BY <1>2, PlaceFacts
<1>4. buffer \in Seq(Byte) /\ Len(buffer) = 2 /\ rx \in Seq(Byte) /\ filled \in Nat
  BY <1>1, <1>3 DEF I2cInv, BufferIs, I2cTypes
<1>5. /\ <<Head(rx)>> \in Seq(Byte) /\ Len(<<Head(rx)>>) = 1 /\ <<Head(rx)>>[1] = rx[1]
      /\ rx' \in Seq(Byte) /\ Len(rx') = Len(rx) - 1 /\ Len(rx) \in Nat /\ Len(rx) >= 1
      /\ \A j \in 1..Len(rx') : rx'[j] = rx[j + 1]
  BY <1>1, <1>4
<1>6. /\ NextCall' = NextCall /\ ScriptEnd' = ScriptEnd /\ Pushed' = Pushed /\ Gone' = Gone
      /\ CoreOff' /\ Queues' /\ CodecIs' /\ (Clean' <=> Clean) /\ AskedFor' = AskedFor
      /\ rx' = rx \/ en => Latched'
  BY <1>1, <1>2, CoreRests
<1>7. buffer' \in Seq(Byte) /\ Len(buffer') = 2 /\ filled' = filled + 1
  BY <1>1, <1>4, <1>5, Filled
<1>8. I2cTypes'
  BY <1>1, <1>4, <1>5, <1>7 DEF I2cInv, I2cTypes
<1>9. BufferIs'
  BY <1>3, <1>6, <1>7 DEF BufferIs
<1>10. en
  BY <1>1, <1>2 DEF I2cInv, Latched
<1>11. StatusIs' /\ Hopes'
  BY <1>1, <1>6 DEF I2cInv, StatusIs, Hopes
<1>12. Received'
  <2>1. /\ filled + Len(rx) <= 2
        /\ Clean => filled + Len(rx) = IF Gone <= 4 THEN 0 ELSE Gone - 4
        /\ ~astray => /\ \A j \in 1..filled : buffer[j] = Answer(AskedFor, j)
                      /\ Answers(rx, filled, AskedFor)
    BY <1>1, <1>2 DEF I2cInv, Received, Hopeful
  <2>2. filled' + Len(rx') = filled + Len(rx)
    BY <1>4, <1>5, <1>7
  <2>3. ASSUME ~astray
        PROVE  /\ \A j \in 1..filled' : buffer'[j] = Answer(AskedFor, j)
               /\ Answers(rx', filled', AskedFor)
    <3>1. \A j \in 1..Len(rx) : rx[j] = Answer(AskedFor, filled + j)
      BY <2>1, <2>3 DEF Answers
    <3>2. Answers(<<Head(rx)>>, filled, AskedFor)
      BY <1>5, <3>1 DEF Answers
    <3>3. filled + Len(<<Head(rx)>>) <= 2
      BY <1>4, <1>5, <2>1
    <3>4. \A j \in 1..(filled + Len(<<Head(rx)>>)) : buffer'[j] = Answer(AskedFor, j)
      BY <1>1, <1>4, <1>5, <2>1, <2>3, <3>2, <3>3, AnswersFilled
    <3>5. ASSUME NEW j \in 1..Len(rx') PROVE rx'[j] = Answer(AskedFor, filled' + j)
      <4>1. j + 1 \in 1..Len(rx) /\ filled + (j + 1) = filled' + j
        BY <1>4, <1>5, <1>7
      <4> QED BY <1>5, <3>1, <4>1
    <3> QED BY <1>5, <1>7, <3>4, <3>5 DEF Answers
  <2> QED BY <1>1, <1>2, <1>6, <1>10, <2>1, <2>2, <2>3 DEF Received
<1> QED BY <1>6, <1>8, <1>9, <1>10, <1>11, <1>12 DEF I2cInv

LEMMA I2cGivesUpRead == I2cInv /\ ReadTimeout => I2cInv'
<1> SUFFICES ASSUME I2cInv, ReadTimeout PROVE I2cInv'
  OBVIOUS
<1>1. /\ i2c_pc = "read" /\ i2c_pc' = "wait" /\ filled < Len(buffer) /\ rx = <<>> /\ Stalled
      /\ status' = "TIMEOUT"
      /\ UNCHANGED <<at, retry, astray, en, cmds, nack_det, arblost_det, stuck, latch, codec, mishaps>>
      /\ UNCHANGED <<todo, receiving>> /\ rx' = rx
  BY DEF ReadTimeout, core
<1>2. PICK b \in Junk : Fill(<<b>>)
  BY DEF ReadTimeout
<1>3. i2c_pc \in Active /\ i2c_pc' \in Active /\ receiving /\ todo = <<>>
  BY <1>1 DEF Active, I2cInv, StatusIs
<1>4. /\ NextCall.op = "rd" /\ ScriptEnd = 6 /\ Pushed = 6 /\ Gone = Pushed - Len(cmds)
      /\ Len(cmds) \in Nat
  <2>1. Len(todo) = 0
    BY <1>3
  <2> QED BY <1>3, <2>1, PlaceFacts
<1>5. buffer \in Seq(Byte) /\ Len(buffer) = 2 /\ rx \in Seq(Byte) /\ filled \in Nat
  BY <1>1, <1>4 DEF I2cInv, BufferIs, I2cTypes
<1>6. <<b>> \in Seq(Byte) /\ Len(<<b>>) = 1
  BY I2cAssumption
<1>7. /\ NextCall' = NextCall /\ CoreOff' /\ Queues' /\ CodecIs' /\ Latched'
  BY <1>1, <1>3, CoreRests
<1>8. buffer' \in Seq(Byte) /\ Len(buffer') = 2 /\ filled' = filled + 1
  BY <1>2, <1>5, <1>6, Filled
<1>9. I2cTypes'
  BY <1>1, <1>3, <1>5, <1>8 DEF I2cInv, I2cTypes, I2cPlace
<1>10. BufferIs'
  BY <1>4, <1>7, <1>8 DEF BufferIs
<1>11. StatusIs'
  BY <1>1, <1>3 DEF I2cInv, StatusIs
<1>12. Received'
  BY <1>1, <1>3 DEF Received, Hopeful
<1>13. Hopes'
  <2>1. ASSUME ~stuck, mishaps["arblost"] = 0 PROVE nack_det
    <3>1. en /\ cmds = <<>>
      BY <1>1, <1>3, <2>1 DEF Stalled, I2cInv, Latched
    <3>2. Gone = 6
      BY <1>4, <3>1
    <3>3. ~Clean
      <4>1. Len(rx) = 0
        BY <1>1
      <4>2. Clean => filled + Len(rx) = 2
        BY <1>1, <1>3, <3>2 DEF I2cInv, Received, Hopeful
      <4> QED BY <1>1, <1>5, <4>1, <4>2
    <3>4. ~arblost_det
      BY <2>1 DEF I2cInv, StatusIs
    <3> QED BY <3>1, <3>3, <3>4 DEF Clean
  <2> QED BY <1>1, <1>3, <2>1 DEF I2cInv, Hopes, Active
<1> QED BY <1>7, <1>9, <1>10, <1>11, <1>12, <1>13 DEF I2cInv

LEMMA I2cHasRead == I2cInv /\ ReadDone => I2cInv'
<1> SUFFICES ASSUME I2cInv, ReadDone PROVE I2cInv'
  OBVIOUS
<1>1. /\ i2c_pc = "read" /\ i2c_pc' = "wait" /\ filled = Len(buffer)
      /\ UNCHANGED <<at, retry, astray, en, cmds, nack_det, arblost_det, stuck, latch, codec, mishaps>>
      /\ UNCHANGED <<todo, receiving, rx, buffer, filled, status>>
  BY DEF ReadDone, core, client
<1>2. i2c_pc \in Active /\ i2c_pc' \in Active /\ receiving /\ todo = <<>>
  BY <1>1 DEF Active, I2cInv, StatusIs
<1>3. /\ NextCall' = NextCall /\ ScriptEnd' = ScriptEnd /\ Pushed' = Pushed /\ Gone' = Gone
      /\ CoreOff' /\ Queues' /\ CodecIs' /\ (Clean' <=> Clean) /\ AskedFor' = AskedFor /\ Latched'
  BY <1>1, <1>2, CoreRests
<1>4. filled = 2
  BY <1>1, <1>2, PlaceFacts DEF I2cInv, BufferIs
<1>5. I2cTypes' /\ BufferIs'
  BY <1>1, <1>2, <1>3 DEF I2cInv, I2cTypes, I2cPlace, BufferIs
<1>6. StatusIs'
  BY <1>1, <1>2, <1>3 DEF I2cInv, StatusIs
<1>7. Received'
  BY <1>1, <1>2, <1>3, <1>4 DEF I2cInv, Received, Hopeful
<1>8. Hopes'
  BY <1>1, <1>2 DEF I2cInv, Hopes
<1> QED BY <1>3, <1>5, <1>6, <1>7, <1>8 DEF I2cInv

-----------------------------------------------------------------------------
(***************************************************************************)
(* The end of a transaction.                                               *)
(***************************************************************************)

\* What is known when the driver stops waiting and has seen no refusal.
LEMMA EndFacts ==
  ASSUME I2cInv, i2c_pc = "wait", ~Busy \/ Stalled, ~nack_det
  PROVE  /\ NextCall.op = "rd" /\ ~receiving /\ (Busy \/ status \notin Retryable) => stuck
         /\ ~stuck /\ mishaps["arblost"] = 0 => ~Busy /\ status = "SUCCESS"
         /\ ~Busy /\ status = "SUCCESS" =>
              /\ NextCall.op = "wr" /\ mishaps["arblost"] = 0 => AskedFor = NextCall.data
              /\ NextCall.op = "rd" => receiving
              /\ NextCall.op = "rd" /\ ~astray =>
                   buffer[1] = Answer(AskedFor, 1) /\ buffer[2] = Answer(AskedFor, 2)
<1>1. i2c_pc \in Active
  BY DEF Active
<1>2. /\ at \in 1..21 /\ NextCall.op \in {"rd", "wr"}
      /\ Pushed \in Nat /\ Gone \in Nat /\ ScriptEnd \in {3, 5, 6}
      /\ Pushed = ScriptEnd - Len(todo) /\ Gone = Pushed - Len(cmds)
      /\ Len(todo) \in Nat /\ Len(cmds) \in Nat /\ Pushed <= ScriptEnd /\ Gone <= Pushed
      /\ NextCall.op = "rd" /\ ~receiving => ScriptEnd = 3
      /\ NextCall.op = "wr" => ScriptEnd = 5
      /\ receiving => NextCall.op = "rd" /\ ScriptEnd = 6
  BY <1>1, PlaceFacts
<1>3. /\ status \in {"SUCCESS", "TIMEOUT", "NACK_ERR", "ARB_LOST_ERR"}
      /\ status # "NACK_ERR"
      /\ status = "ARB_LOST_ERR" => arblost_det
      /\ status = "TIMEOUT" /\ ~receiving => stuck
      /\ status = "SUCCESS" => todo = <<>> /\ (NextCall.op = "rd" => receiving)
      /\ arblost_det => mishaps["arblost"] > 0
  BY <1>1 DEF I2cInv, StatusIs
<1>4. /\ latch \in Seq(Byte) /\ (Len(latch) = 0 => latch = <<>>)
      /\ todo = <<>> => Len(todo) = 0
      /\ cmds = <<>> => Len(cmds) = 0
  BY DEF I2cInv, I2cTypes
<1>5. /\ Clean => Len(latch) = HeardBytes(NextCall, Gone)
      /\ ~Clean => Len(latch) = 0 \/ (Len(latch) = 1 /\ NextCall.op = "rd" /\ Gone >= 4)
      /\ ~en => stuck /\ receiving
  BY <1>1 DEF I2cInv, Latched
<1>6. ASSUME NextCall.op = "rd", ~receiving, Busy \/ status \notin Retryable PROVE stuck
  <2>1. CASE status = "TIMEOUT"
    BY <1>3, <1>6, <2>1
  <2>2. CASE status = "ARB_LOST_ERR"
    <3>1. Busy
      BY <1>6, <2>2 DEF Retryable
    <3>2. latch = <<>>
      BY <1>2, <1>3, <1>4, <1>5, <1>6, <2>2 DEF Clean
    <3> QED BY <3>1, <3>2 DEF Busy, Stalled
  <2> QED BY <1>3, <1>6, <2>1, <2>2
<1>7. ASSUME ~stuck, mishaps["arblost"] = 0 PROVE ~Busy /\ status = "SUCCESS"
  <2>1. en /\ Clean
    BY <1>3, <1>5, <1>7 DEF Clean
  <2>2. status = "SUCCESS"
    BY <1>1, <1>7 DEF I2cInv, Hopes
  <2>3. todo = <<>> /\ Pushed = ScriptEnd /\ ScriptEnd = Total(NextCall)
    BY <1>2, <1>3, <1>4, <2>2 DEF Total
  <2>4. ASSUME cmds = <<>> PROVE latch = <<>>
    <3>1. Gone = Total(NextCall)
      BY <1>2, <1>4, <2>3, <2>4
    <3> QED BY <1>4, <1>5, <2>1, <3>1 DEF HeardBytes
  <2> QED BY <1>7, <2>1, <2>2, <2>4 DEF Busy, Stalled
<1>8. ASSUME ~Busy, status = "SUCCESS"
      PROVE  /\ NextCall.op = "wr" /\ mishaps["arblost"] = 0 => AskedFor = NextCall.data
             /\ NextCall.op = "rd" => receiving
             /\ NextCall.op = "rd" /\ ~astray =>
                  buffer[1] = Answer(AskedFor, 1) /\ buffer[2] = Answer(AskedFor, 2)
  <2>1. ASSUME NextCall.op = "wr", mishaps["arblost"] = 0 PROVE AskedFor = NextCall.data
    <3>1. Clean
      BY <1>2, <1>3, <1>5, <2>1 DEF Clean
    <3>2. cmds = <<>>
      BY <1>8, <3>1 DEF Busy, Clean
    <3>3. Gone = 5
      BY <1>2, <1>3, <1>4, <1>8, <2>1, <3>2
    <3> QED BY <1>1, <2>1, <3>1, <3>3 DEF I2cInv, CodecIs
  <2>2. ASSUME NextCall.op = "rd", ~astray
        PROVE  buffer[1] = Answer(AskedFor, 1) /\ buffer[2] = Answer(AskedFor, 2)
    <3>1. receiving /\ Hopeful
      BY <1>3, <1>8, <2>2 DEF Hopeful
    <3>2. filled = 2 /\ \A j \in 1..filled : buffer[j] = Answer(AskedFor, j)
      BY <1>1, <2>2, <3>1 DEF I2cInv, Received
    <3> QED BY <3>2
  <2> QED BY <1>3, <1>8, <2>1, <2>2
<1> QED BY <1>6, <1>7, <1>8

LEMMA I2cFinishes == I2cInv /\ Finish => I2cInv'
<1> SUFFICES ASSUME I2cInv, Finish PROVE I2cInv'
  OBVIOUS
<1> DEFINE s == LateNack(IF Busy THEN "TIMEOUT" ELSE status)
<1>1. /\ i2c_pc = "wait" /\ (~Busy \/ Stalled)
      /\ status' = s /\ Continue(s)
      /\ en' = FALSE /\ cmds' = <<>> /\ rx' = <<>> /\ latch' = <<>>
      /\ UNCHANGED <<at, buffer, retry, astray, nack_det, arblost_det, stuck, codec, mishaps>>
  BY DEF Finish, Disable, client
<1>2. i2c_pc \in Active /\ NextCall' = NextCall /\ AskedFor' = AskedFor
  BY <1>1, CallStays DEF Active, AskedFor
<1>3. at \in 1..21 /\ NextCall.op \in {"rd", "wr"} /\ (receiving => NextCall.op = "rd")
  BY <1>2, PlaceFacts
<1>4. /\ status \in {"SUCCESS", "TIMEOUT", "NACK_ERR", "ARB_LOST_ERR"}
      /\ status = "NACK_ERR" => nack_det
      /\ status = "ARB_LOST_ERR" => arblost_det
      /\ arblost_det => mishaps["arblost"] > 0
  BY <1>2 DEF I2cInv, StatusIs
<1>5. /\ nack_det => s = "NACK_ERR"
      /\ ~nack_det => s = IF Busy THEN "TIMEOUT" ELSE status
      /\ s \in {"SUCCESS", "TIMEOUT", "NACK_ERR", "ARB_LOST_ERR"}
  BY <1>4 DEF LateNack
<1>6. ~nack_det =>
        /\ NextCall.op = "rd" /\ ~receiving /\ (Busy \/ status \notin Retryable) => stuck
        /\ ~stuck /\ mishaps["arblost"] = 0 => ~Busy /\ status = "SUCCESS"
        /\ ~Busy /\ status = "SUCCESS" =>
             /\ NextCall.op = "wr" /\ mishaps["arblost"] = 0 => AskedFor = NextCall.data
             /\ NextCall.op = "rd" => receiving
             /\ NextCall.op = "rd" /\ ~astray =>
                  buffer[1] = Answer(AskedFor, 1) /\ buffer[2] = Answer(AskedFor, 2)
  BY <1>1, EndFacts
<1>7. /\ mishaps["nack"] \in Nat /\ retry \in Nat /\ RETRIES \in Nat /\ retry <= RETRIES
      /\ nack_det \in BOOLEAN
  BY I2cAssumption DEF I2cInv, I2cTypes, Fault
<1>8. <<>> \in Seq(Commands) /\ <<>> \in Seq(Byte) /\ en' \in BOOLEAN
  <2>1. en' \in BOOLEAN
    BY <1>1
  <2> QED BY <2>1
<1> HIDE DEF s
<1>9. CASE s \in Retryable
  <2>1. i2c_pc' = "attempt" /\ UNCHANGED <<todo, filled, receiving>>
    BY <1>1, <1>9 DEF Continue
  <2>2. I2cTypes'
    BY <1>1, <1>3, <1>8, <2>1 DEF I2cInv, I2cTypes, I2cPlace
  <2>3. BufferIs' /\ CoreOff'
    BY <1>1, <1>2, <2>1 DEF I2cInv, BufferIs, CoreOff
  <2>4. StatusIs' /\ Queues' /\ Latched' /\ Received' /\ CodecIs'
    BY <1>1, <1>9, <2>1 DEF I2cInv, StatusIs, Queues, Latched, Received, CodecIs, Active
  <2>5. Hopes'
    <3>1. ASSUME ~stuck, mishaps["arblost"] = 0 PROVE nack_det
      BY <1>4, <1>5, <1>6, <1>9, <3>1 DEF Retryable
    <3> QED BY <1>1, <1>2, <2>1, <3>1 DEF I2cInv, Hopes, Active
  <2> QED BY <2>2, <2>3, <2>4, <2>5 DEF I2cInv
<1>10. CASE s \notin Retryable /\ NextCall.op = "rd" /\ ~receiving
  <2>1. /\ i2c_pc' = "push" /\ todo' = Receives /\ filled' = 0 /\ receiving' = TRUE
    BY <1>1, <1>10 DEF Continue
  <2>2. s \in {"SUCCESS", "TIMEOUT"} /\ ~nack_det /\ stuck
    <3>1. s \in {"SUCCESS", "TIMEOUT"} /\ ~nack_det
      BY <1>5, <1>10 DEF Retryable
    <3>2. Busy \/ status \notin Retryable
      BY <1>5, <1>10, <3>1
    <3> QED BY <1>6, <1>10, <3>1, <3>2
  <2>3. /\ Receives \in Seq(Commands) /\ Len(Receives) = 3 /\ Receives # <<>>
        /\ InScript(Receives, 3, NextCall, astray)
    BY <1>10, ReceivesFit
  <2>4. ScriptEnd' = 6 /\ Pushed' = 3 /\ Gone' = 3
    BY <1>1, <1>2, <1>10, <2>1, <2>3 DEF ScriptEnd, Pushed, Gone, Total
  <2>5. I2cTypes'
    BY <1>1, <1>3, <1>8, <2>1, <2>3 DEF I2cInv, I2cTypes, I2cPlace, Active
  <2>6. BufferIs' /\ CoreOff'
    BY <1>1, <1>2, <2>1 DEF I2cInv, BufferIs, CoreOff, Active
  <2>7. StatusIs'
    BY <1>1, <1>4, <2>1, <2>2, <2>3 DEF StatusIs
  <2>8. Queues'
    BY <1>1, <1>2, <1>10, <2>1, <2>3, <2>4, NothingFits DEF Queues
  <2>9. Latched'
    BY <1>1, <2>1, <2>2, <2>4 DEF Latched, Clean, Spells
  <2>10. Received'
    BY <1>1, <2>1 DEF Received, Clean, Answers
  <2>11. CodecIs'
    BY <1>1, <1>2, <1>10, <2>1 DEF I2cInv, CodecIs
  <2>12. Hopes'
    BY <1>1, <2>2 DEF Hopes
  <2> QED BY <2>5, <2>6, <2>7, <2>8, <2>9, <2>10, <2>11, <2>12 DEF I2cInv
<1>11. CASE s \notin Retryable /\ ~(NextCall.op = "rd" /\ ~receiving)
  <2>1. i2c_pc' = "return" /\ UNCHANGED <<todo, filled, receiving>>
    BY <1>1, <1>11 DEF Continue
  <2>2. s \in {"SUCCESS", "TIMEOUT"} /\ ~nack_det
    BY <1>5, <1>11 DEF Retryable
  <2>3. I2cTypes'
    BY <1>1, <1>3, <1>8, <2>1 DEF I2cInv, I2cTypes, I2cPlace
  <2>4. BufferIs' /\ CoreOff'
    BY <1>1, <1>2, <2>1 DEF I2cInv, BufferIs, CoreOff
  <2>5. StatusIs' /\ Queues' /\ Latched' /\ Received'
    BY <1>1, <2>1 DEF I2cInv, StatusIs, Queues, Latched, Received, Active
  <2>6. s = "SUCCESS" => ~Busy /\ status = "SUCCESS"
    BY <1>5, <2>2
  <2>7. CodecIs'
    BY <1>1, <1>2, <1>6, <2>1, <2>2, <2>6 DEF I2cInv, CodecIs, Active
  <2>8. Hopes'
    <3>1. ~stuck /\ mishaps["arblost"] = 0 => s = "SUCCESS"
      BY <1>5, <1>6, <2>2
    <3> QED BY <1>1, <2>1, <3>1 DEF Hopes, Active
  <2> QED BY <2>3, <2>4, <2>5, <2>7, <2>8 DEF I2cInv
<1> QED BY <1>9, <1>10, <1>11

-----------------------------------------------------------------------------
(***************************************************************************)
(* The core executes a command, or fails to.                               *)
(***************************************************************************)
LEMMA SpellsNext ==
  ASSUME NEW l \in Seq(Byte), NEW d \in Byte, NEW call, Spells(l, call),
         Len(l) + 1 <= 3 \/ call.op = "wr" => d = Payload(call, Len(l) + 1)
  PROVE  /\ Spells(Append(l, d), call) /\ Append(l, d) \in Seq(Byte)
         /\ Len(Append(l, d)) = Len(l) + 1 /\ Append(l, d)[Len(l) + 1] = d
         /\ \A j \in 1..Len(l) : Append(l, d)[j] = l[j]
<1>1. /\ Append(l, d) \in Seq(Byte) /\ Len(Append(l, d)) = Len(l) + 1 /\ Len(l) \in Nat
      /\ Append(l, d)[Len(l) + 1] = d /\ \A j \in 1..Len(l) : Append(l, d)[j] = l[j]
  OBVIOUS
<1>2. ASSUME NEW j \in 2..(Len(l) + 1), j <= 3 \/ call.op = "wr"
      PROVE  Append(l, d)[j] = Payload(call, j)
  <2>1. CASE j \in 2..Len(l)
    BY <1>1, <1>2, <2>1 DEF Spells
  <2>2. CASE j = Len(l) + 1
    BY <1>1, <1>2, <2>2
  <2> QED BY <1>1, <2>1, <2>2
<1> QED BY <1>1, <1>2 DEF Spells

\* The register that a transaction names.
LEMMA Named ==
  ASSUME at \in 1..21, NEW l, Len(l) \in Nat, Len(l) >= 3, Spells(l, NextCall)
  PROVE  /\ RegOf(l) = NextCall.reg
         /\ NextCall.op = "wr" /\ Len(l) = 5 => 256 * l[4] + l[5] = NextCall.data
<1>1. l[2] = Payload(NextCall, 2) /\ l[3] = Payload(NextCall, 3)
  BY DEF Spells
<1>2. NextCall.op = "wr" /\ Len(l) = 5 =>
        l[4] = Payload(NextCall, 4) /\ l[5] = Payload(NextCall, 5)
  BY DEF Spells
<1> QED BY <1>1, <1>2, CallFacts DEF RegOf

LEMMA AnswersNext ==
  ASSUME NEW q \in Seq(Byte), NEW n \in Nat, NEW w, NEW x \in Byte, Answers(q, n, w),
         x = Answer(w, n + Len(q) + 1)
  PROVE  Answers(Append(q, x), n, w)
<1>1. /\ Len(Append(q, x)) = Len(q) + 1 /\ Len(q) \in Nat /\ Append(q, x)[Len(q) + 1] = x
      /\ \A j \in 1..Len(q) : Append(q, x)[j] = q[j]
  OBVIOUS
<1>2. ASSUME NEW j \in 1..(Len(q) + 1) PROVE Append(q, x)[j] = Answer(w, n + j)
  <2>1. CASE j \in 1..Len(q)
    BY <1>1, <2>1 DEF Answers
  <2>2. CASE j = Len(q) + 1
    <3>1. n + j = n + Len(q) + 1
      BY <1>1, <2>2
    <3> QED BY <1>1, <2>2, <3>1
  <2> QED BY <1>1, <2>1, <2>2
<1> QED BY <1>1, <1>2 DEF Answers

LEMMA ContentsBytes ==
  ASSUME codec \in [Regs -> Word], NEW r
  PROVE  Hi(Contents(r)) \in Byte /\ Lo(Contents(r)) \in Byte
<1>1. Contents(r) \in Word
  BY DEF Contents, Word
<1> QED BY <1>1, Bytes

\* What the command at the head of the FIFO does, for the place it has in the
\* script: the transaction is as far as the commands, an answer is one of the
\* register asked for, and only the last command of a write sets a register.
LEMMA CoreEffect ==
  ASSUME I2cInv, CoreStep
  PROVE  /\ latch' \in Seq(Byte)
         /\ ~astray => Spells(latch', NextCall)
         /\ Clean => Len(latch') = HeardBytes(NextCall, Gone + 1)
         /\ ~Clean => Len(latch') = 0 \/ (Len(latch') = 1 /\ NextCall.op = "rd" /\ Gone + 1 >= 4)
         /\ IF Clean /\ NextCall.op = "rd" /\ Gone \in {4, 5}
              THEN \E x \in Byte : /\ rx' = Append(rx, x)
                                   /\ ~astray => x = Answer(AskedFor, Gone - 3)
              ELSE rx' = rx
         /\ codec' = IF NextCall.op = "wr" /\ Clean /\ Gone = 4
                       THEN [codec EXCEPT ![NextCall.reg] = NextCall.data] ELSE codec
<1> DEFINE c == Head(cmds)
           answer == IF Len(latch) = 3 THEN Hi(Contents(RegOf(latch)))
                                       ELSE Lo(Contents(RegOf(latch)))
           l == CASE c.kind = "aw" -> <<ADDR>>
                  [] c.kind = "ar" -> IF latch = <<>> THEN <<ADDR>> ELSE latch
                  [] c.kind = "tx" /\ latch # <<>> -> Append(latch, c.d)
                  [] c.kind = "rx" /\ Len(latch) \in {3, 4} -> Append(latch, answer)
                  [] OTHER -> latch
<1>1. /\ en /\ cmds # <<>>
      /\ latch' = IF c.sto THEN <<>> ELSE l
      /\ rx' = IF c.kind = "rx" /\ l # latch THEN Append(rx, l[Len(l)]) ELSE rx
      /\ codec' = IF c.kind = "tx" /\ Len(l) = 5 /\ RegOf(l) \in Regs
                    THEN [codec EXCEPT ![RegOf(l)] = 256 * l[4] + l[5]] ELSE codec
  BY DEF CoreStep
<1>2. /\ c.kind = "aw" => l = <<ADDR>>
      /\ c.kind = "ar" => l = IF latch = <<>> THEN <<ADDR>> ELSE latch
      /\ c.kind = "tx" => l = IF latch # <<>> THEN Append(latch, c.d) ELSE latch
      /\ c.kind = "rx" => l = IF Len(latch) \in {3, 4} THEN Append(latch, answer) ELSE latch
  OBVIOUS
<1>3. i2c_pc \in Active
  BY <1>1 DEF I2cInv, CoreOff
<1>4. /\ at \in 1..21 /\ NextCall.op \in {"rd", "wr"}
      /\ Pushed \in Nat /\ Gone \in Nat /\ ScriptEnd \in {3, 5, 6}
      /\ Gone = Pushed - Len(cmds) /\ Len(cmds) \in Nat /\ Pushed <= ScriptEnd
      /\ NextCall.op = "wr" => ScriptEnd = 5
  BY <1>3, PlaceFacts
<1>5. cmds \in Seq(Commands) /\ InScript(cmds, Gone, NextCall, astray)
  BY <1>3 DEF I2cInv, I2cTypes, Queues
<1>6. Is(c, Gone + 1, NextCall, astray) /\ c \in Commands /\ Len(cmds) >= 1
  BY <1>1, <1>4, <1>5, FitsHead
<1>7. /\ c.kind = KindOf(NextCall, Gone + 1) /\ (c.sto <=> Gone + 1 = Total(NextCall))
      /\ c.kind = "tx" /\ ~astray => c.d = Payload(NextCall, Gone + 1)
      /\ c.d \in Byte /\ Gone + 1 <= ScriptEnd
  BY <1>4, <1>6 DEF Is, Commands
<1>8. /\ latch \in Seq(Byte) /\ (Len(latch) = 0 <=> latch = <<>>) /\ Len(latch) \in Nat
      /\ codec \in [Regs -> Word]
  BY DEF I2cInv, I2cTypes
<1>9. /\ Clean => Len(latch) = HeardBytes(NextCall, Gone)
      /\ ~Clean => /\ Gone >= 1
                   /\ Len(latch) = 0 \/ (Len(latch) = 1 /\ NextCall.op = "rd" /\ Gone >= 4)
      /\ ~astray => Spells(latch, NextCall)
  BY <1>3 DEF I2cInv, Latched
<1>10. NextCall.op = "wr" => ~astray
  BY <1>3 DEF I2cInv, BufferIs, Active
<1>11. answer \in Byte
  BY <1>8, ContentsBytes
<1>12. /\ <<>> \in Seq(Byte) /\ Spells(<<>>, NextCall) /\ Len(<<>>) = 0
       /\ <<ADDR>> \in Seq(Byte) /\ Spells(<<ADDR>>, NextCall) /\ Len(<<ADDR>>) = 1
  BY DEF Spells, ADDR, Byte
<1> HIDE DEF c, l, answer
<1>13. CASE Gone = 0
  <2>1. c.kind = "aw" /\ ~c.sto /\ Clean
    BY <1>4, <1>7, <1>9, <1>13 DEF KindOf, Total
  <2>2. latch' = <<ADDR>> /\ rx' = rx /\ codec' = codec
    BY <1>1, <1>2, <2>1
  <2> QED BY <1>4, <1>12, <1>13, <2>1, <2>2 DEF HeardBytes, Total
<1>14. CASE Gone # 0 /\ (NextCall.op = "wr" \/ Gone + 1 <= 3) /\ Clean
  <2>1. c.kind = "tx" /\ Len(latch) = Gone
    BY <1>4, <1>7, <1>9, <1>14 DEF KindOf, HeardBytes, Total
  <2>2. l = Append(latch, c.d)
    BY <1>2, <1>8, <1>14, <2>1
  <2>3. l \in Seq(Byte) /\ Len(l) = Gone + 1
    BY <1>7, <1>8, <2>1, <2>2
  <2>4. ~astray => Spells(l, NextCall)
    BY <1>7, <1>8, <1>9, <2>1, <2>2, SpellsNext
  <2>5. rx' = rx
    BY <1>1, <2>1
  <2>6. CASE NextCall.op = "wr" /\ Gone = 4
    <3>1. c.sto /\ latch' = <<>>
      BY <1>1, <1>7, <2>6 DEF Total
    <3>2. RegOf(l) = NextCall.reg /\ 256 * l[4] + l[5] = NextCall.data
      <4>1. Len(l) = 5 /\ Spells(l, NextCall)
        BY <1>10, <2>3, <2>4, <2>6
      <4>2. Len(l) \in Nat /\ Len(l) >= 3
        BY <4>1
      <4> QED BY <1>4, <2>6, <4>1, <4>2, Named
    <3>3. codec' = [codec EXCEPT ![NextCall.reg] = NextCall.data]
      <4>1. Len(l) = 5 /\ RegOf(l) \in Regs
        BY <1>4, <2>3, <2>6, <3>2, CallFacts
      <4> QED BY <1>1, <2>1, <3>2, <4>1
    <3> QED BY <1>12, <1>14, <2>5, <2>6, <3>1, <3>3 DEF HeardBytes, Total
  <2>7. CASE ~(NextCall.op = "wr" /\ Gone = 4)
    <3>1. ~c.sto /\ Gone + 1 # 5 /\ Gone + 1 # Total(NextCall)
      BY <1>4, <1>7, <1>14, <2>7 DEF Total
    <3>2. latch' = l /\ codec' = codec
      BY <1>1, <2>3, <3>1
    <3> QED BY <1>4, <1>14, <2>3, <2>4, <2>5, <2>7, <3>1, <3>2 DEF HeardBytes
  <2> QED BY <2>6, <2>7
<1>15. CASE Gone # 0 /\ (NextCall.op = "wr" \/ Gone + 1 <= 3) /\ ~Clean
  <2>1. c.kind = "tx" /\ latch = <<>>
    BY <1>4, <1>7, <1>8, <1>9, <1>15 DEF KindOf
  <2>2. l = <<>> /\ Len(l) # 5
    BY <1>2, <1>12, <2>1
  <2>3. latch' = <<>> /\ rx' = rx /\ codec' = codec
    BY <1>1, <2>1, <2>2
  <2> QED BY <1>12, <1>15, <2>3
<1>16. CASE NextCall.op = "rd" /\ Gone = 3
  <2>1. c.kind = "ar" /\ ~c.sto
    BY <1>7, <1>16 DEF KindOf, Total
  <2>2. rx' = rx /\ codec' = codec /\ latch' = IF latch = <<>> THEN <<ADDR>> ELSE latch
    BY <1>1, <1>2, <2>1
  <2> QED BY <1>8, <1>9, <1>12, <1>16, <2>2 DEF HeardBytes, Total
<1>17. CASE NextCall.op = "rd" /\ Gone >= 4 /\ Clean
  <2>1. c.kind = "rx" /\ Len(latch) = Gone - 1 /\ Gone \in {4, 5} /\ (c.sto <=> Gone = 5)
    BY <1>4, <1>7, <1>9, <1>17 DEF KindOf, HeardBytes, Total
  <2>2. l = Append(latch, answer)
    BY <1>2, <2>1
  <2>3. l \in Seq(Byte) /\ Len(l) = Gone /\ l[Len(l)] = answer /\ l # latch
    BY <1>4, <1>8, <1>11, <2>1, <2>2
  <2>4. ~astray => Spells(l, NextCall)
    BY <1>4, <1>8, <1>9, <1>11, <1>17, <2>1, <2>2, SpellsNext
  <2>5. latch' = (IF Gone = 5 THEN <<>> ELSE l) /\ rx' = Append(rx, answer) /\ codec' = codec
    BY <1>1, <2>1, <2>3
  <2>6. ~astray => answer = Answer(AskedFor, Gone - 3)
    <3>1. ASSUME ~astray PROVE Contents(RegOf(latch)) = AskedFor
      BY <1>4, <1>8, <1>9, <2>1, <3>1, Named, CallFacts DEF Contents, AskedFor
    <3> QED BY <2>1, <3>1 DEF answer, Answer
  <2>7. Len(latch') = HeardBytes(NextCall, Gone + 1)
    BY <1>12, <1>17, <2>1, <2>3, <2>5 DEF HeardBytes, Total
  <2> QED BY <1>11, <1>12, <1>17, <2>1, <2>3, <2>4, <2>5, <2>6, <2>7
<1>18. CASE NextCall.op = "rd" /\ Gone >= 4 /\ ~Clean
  <2>1. c.kind = "rx" /\ Len(latch) \in {0, 1}
    BY <1>4, <1>7, <1>9, <1>18 DEF KindOf
  <2>2. l = latch
    <3>1. Len(latch) \notin {3, 4}
      BY <2>1
    <3> QED BY <1>2, <2>1, <3>1
  <2>3. latch' = (IF c.sto THEN <<>> ELSE latch) /\ rx' = rx /\ codec' = codec
    BY <1>1, <2>1, <2>2
  <2> QED BY <1>4, <1>8, <1>9, <1>12, <1>18, <2>3
<1> QED BY <1>4, <1>13, <1>14, <1>15, <1>16, <1>17, <1>18

LEMMA I2cCoreSteps == I2cInv /\ CoreStep => I2cInv'
<1> SUFFICES ASSUME I2cInv, CoreStep PROVE I2cInv'
  OBVIOUS
<1>1. /\ en /\ ~stuck /\ cmds # <<>> /\ cmds' = Tail(cmds)
      /\ UNCHANGED <<at, buffer, i2c_pc, todo, filled, receiving, status, retry, astray,
                     en, nack_det, arblost_det, stuck, mishaps>>
  BY DEF CoreStep, client, flow
<1>2. i2c_pc \in Active /\ i2c_pc' \in Active /\ NextCall' = NextCall
  BY <1>1, CallStays DEF I2cInv, CoreOff
<1>3. /\ at \in 1..21 /\ NextCall.op \in {"rd", "wr"}
      /\ Pushed \in Nat /\ Gone \in Nat /\ ScriptEnd \in {3, 5, 6}
      /\ Gone = Pushed - Len(cmds) /\ Len(cmds) \in Nat /\ Pushed <= ScriptEnd
      /\ NextCall.op = "rd" /\ ~receiving => ScriptEnd = 3
      /\ receiving => NextCall.op = "rd" /\ ScriptEnd = 6
  BY <1>2, PlaceFacts
<1>4. /\ cmds \in Seq(Commands) /\ InScript(cmds, Gone, NextCall, astray)
      /\ rx \in Seq(Byte) /\ filled \in Nat /\ codec \in [Regs -> Word]
  BY <1>2 DEF I2cInv, I2cTypes, Queues
<1>5. /\ InScript(cmds', Gone + 1, NextCall, astray) /\ cmds' \in Seq(Commands)
      /\ Len(cmds') = Len(cmds) - 1 /\ Len(cmds) >= 1
  BY <1>1, <1>3, <1>4, FitsHead
<1>6. ScriptEnd' = ScriptEnd /\ Pushed' = Pushed /\ Gone' = Gone + 1
  <2>1. ScriptEnd' = ScriptEnd
    BY <1>1, <1>2 DEF ScriptEnd
  <2>2. Pushed' = Pushed
    BY <1>1, <2>1 DEF Pushed
  <2> QED BY <1>3, <1>5, <2>1, <2>2 DEF Gone
<1>7. Clean' <=> Clean
  BY <1>1 DEF Clean
<1>8. /\ latch' \in Seq(Byte)
      /\ ~astray => Spells(latch', NextCall)
      /\ Clean => Len(latch') = HeardBytes(NextCall, Gone + 1)
      /\ ~Clean => Len(latch') = 0 \/ (Len(latch') = 1 /\ NextCall.op = "rd" /\ Gone + 1 >= 4)
  BY CoreEffect
<1>9. codec' = IF NextCall.op = "wr" /\ Clean /\ Gone = 4
                 THEN [codec EXCEPT ![NextCall.reg] = NextCall.data] ELSE codec
  BY CoreEffect
<1>10. /\ codec' \in [Regs -> Word]
       /\ NextCall.op = "rd" => codec' = codec
  BY <1>3, <1>4, <1>9, CallFacts
<1>11. rx' \in Seq(Byte) /\ Received'
  <2>1. AskedFor' = AskedFor \/ NextCall.op = "wr"
    BY <1>2, <1>3, <1>10 DEF AskedFor
  <2>2. CASE Clean /\ NextCall.op = "rd" /\ Gone \in {4, 5}
    <3>1. PICK x \in Byte : rx' = Append(rx, x) /\ (~astray => x = Answer(AskedFor, Gone - 3))
      BY <2>2, CoreEffect
    <3>2. rx' \in Seq(Byte) /\ Len(rx') = Len(rx) + 1 /\ Len(rx) \in Nat
      BY <1>4, <3>1
    <3>3. receiving
      BY <1>3, <1>5, <2>2
    <3>4. ASSUME Hopeful
          PROVE  /\ filled + Len(rx) = Gone - 4
                 /\ i2c_pc # "wait"
                 /\ ~astray => /\ \A j \in 1..filled : buffer[j] = Answer(AskedFor, j)
                               /\ Answers(rx', filled, AskedFor)
      <4>1. /\ filled + Len(rx) = IF Gone <= 4 THEN 0 ELSE Gone - 4
            /\ i2c_pc = "wait" => filled = 2
            /\ ~astray => /\ \A j \in 1..filled : buffer[j] = Answer(AskedFor, j)
                          /\ Answers(rx, filled, AskedFor)
        BY <1>2, <2>2, <3>3, <3>4 DEF I2cInv, Received
      <4>2. filled + Len(rx) = Gone - 4
        BY <2>2, <4>1
      <4>3. filled + Len(rx) + 1 = Gone - 3 /\ filled < 2
        BY <1>4, <2>2, <3>2, <4>2
      <4>4. ASSUME ~astray PROVE Answers(rx', filled, AskedFor)
        BY <1>4, <3>1, <4>1, <4>3, <4>4, AnswersNext
      <4> QED BY <4>1, <4>2, <4>3, <4>4
    <3>5. Hopeful' <=> Hopeful
      BY <1>1 DEF Hopeful
    <3>6. ASSUME Hopeful
          PROVE  /\ filled + Len(rx') <= 2
                 /\ filled + Len(rx') = IF Gone' <= 4 THEN 0 ELSE Gone' - 4
      BY <1>3, <1>4, <1>6, <2>2, <3>2, <3>4, <3>6
    <3> QED BY <1>1, <1>2, <2>1, <2>2, <3>2, <3>3, <3>4, <3>5, <3>6 DEF Received
  <2>3. CASE ~(Clean /\ NextCall.op = "rd" /\ Gone \in {4, 5})
    <3>1. rx' = rx
      BY <2>3, CoreEffect
    <3>2. Hopeful' <=> Hopeful
      BY <1>1 DEF Hopeful
    <3>3. receiving /\ Clean => Gone <= 3 /\ Gone' <= 4
      BY <1>3, <1>5, <1>6, <2>3
    <3>4. receiving => AskedFor' = AskedFor
      BY <1>3, <2>1
    <3>5. rx' \in Seq(Byte)
      BY <1>4, <3>1
    <3>6. ~receiving => rx' = <<>>
      BY <1>2, <3>1 DEF I2cInv, Received
    <3>7. ASSUME receiving, Hopeful
          PROVE  /\ filled + Len(rx') <= 2
                 /\ Clean' => filled + Len(rx') = IF Gone' <= 4 THEN 0 ELSE Gone' - 4
                 /\ ~en => filled = 0
                 /\ i2c_pc = "wait" => filled = 2
                 /\ ~astray => /\ \A j \in 1..filled : buffer[j] = Answer(AskedFor, j)
                               /\ Answers(rx', filled, AskedFor)
      <4>1. /\ filled + Len(rx) <= 2
            /\ Clean => filled + Len(rx) = IF Gone <= 4 THEN 0 ELSE Gone - 4
            /\ ~en => filled = 0
            /\ i2c_pc = "wait" => filled = 2
            /\ ~astray => /\ \A j \in 1..filled : buffer[j] = Answer(AskedFor, j)
                          /\ Answers(rx, filled, AskedFor)
        BY <1>2, <3>7 DEF I2cInv, Received
      <4>2. Clean => Gone <= 4 /\ Gone' <= 4
        BY <1>3, <3>3, <3>7
      <4> QED BY <1>7, <3>1, <4>1, <4>2
    <3> QED BY <1>1, <3>2, <3>4, <3>5, <3>6, <3>7 DEF Received
  <2> QED BY <2>2, <2>3
<1>12. I2cTypes'
  BY <1>1, <1>5, <1>8, <1>10, <1>11 DEF I2cInv, I2cTypes
<1>13. BufferIs' /\ CoreOff' /\ StatusIs'
  BY <1>1, <1>2 DEF I2cInv, BufferIs, CoreOff, StatusIs
<1>14. Queues'
  BY <1>1, <1>2, <1>3, <1>5, <1>6 DEF I2cInv, Queues
<1>15. Latched'
  BY <1>1, <1>2, <1>3, <1>6, <1>7, <1>8 DEF Latched
<1>16. CodecIs'
  <2>1. CASE NextCall.op = "wr" /\ Clean /\ Gone = 4
    <3>1. at \in WritesOf /\ Setup[at].reg = NextCall.reg
      BY <1>3, <2>1 DEF WritesOf, NextCall
    <3>2. ASSUME NEW k \in WritesOf, k # at PROVE codec'[Setup[k].reg] = codec[Setup[k].reg]
      <4>1. Setup[k].reg # NextCall.reg
        BY <3>1, <3>2, WrittenOnce
      <4>2. Setup[k].reg \in Regs
        BY SetupFacts DEF Regs, WritesOf
      <4> QED BY <1>4, <1>9, <2>1, <4>1, <4>2
    <3>3. AskedFor' = NextCall.data
      BY <1>2, <1>3, <1>4, <1>9, <2>1, CallFacts DEF AskedFor
    <3>4. \A k \in WritesOf : (k > at => k # at) /\ (k < at => k # at)
      BY <1>3 DEF WritesOf
    <3> QED BY <1>1, <1>2, <3>2, <3>3, <3>4 DEF I2cInv, CodecIs, Active
  <2>2. CASE ~(NextCall.op = "wr" /\ Clean /\ Gone = 4)
    <3>1. codec' = codec
      BY <1>9, <2>2
    <3>2. ~(NextCall.op = "wr" /\ Clean' /\ Gone' = 5)
      BY <1>3, <1>6, <1>7, <2>2
    <3> QED BY <1>1, <1>2, <3>1, <3>2 DEF I2cInv, CodecIs, Active
  <2> QED BY <2>1, <2>2
<1>17. Hopes'
  BY <1>1, <1>2 DEF I2cInv, Hopes
<1> QED BY <1>11, <1>12, <1>13, <1>14, <1>15, <1>16, <1>17 DEF I2cInv

LEMMA I2cFaults == ASSUME NEW f \in Fault PROVE I2cInv /\ CoreFault(f) => I2cInv'
<1> SUFFICES ASSUME I2cInv, CoreFault(f) PROVE I2cInv'
  OBVIOUS
<1>1. /\ en /\ cmds # <<>>
      /\ mishaps' = [mishaps EXCEPT ![f] = @ + 1]
      /\ \/ f = "stuck" /\ stuck' = TRUE /\ UNCHANGED <<cmds, latch, nack_det, arblost_det>>
         \/ /\ f # "stuck" /\ cmds' = <<>> /\ latch' = <<>> /\ UNCHANGED stuck
            /\ nack_det' = (nack_det \/ f = "nack")
            /\ arblost_det' = (arblost_det \/ f = "arblost")
      /\ UNCHANGED <<at, buffer, i2c_pc, todo, filled, receiving, status, retry, astray,
                     en, rx, codec>>
  BY DEF CoreFault, client, flow
<1>2. i2c_pc \in Active /\ i2c_pc' \in Active /\ NextCall' = NextCall
  BY <1>1, CallStays DEF I2cInv, CoreOff
<1>3. /\ Pushed \in Nat /\ Gone \in Nat /\ Len(cmds) \in Nat /\ Gone = Pushed - Len(cmds)
      /\ at \in 1..21
  BY <1>2, PlaceFacts
<1>4. ScriptEnd' = ScriptEnd /\ Pushed' = Pushed
  BY <1>1, <1>2 DEF ScriptEnd, Pushed
<1>5. mishaps \in [Fault -> Nat] /\ cmds \in Seq(Commands) /\ Len(cmds) >= 1
  <2>1. mishaps \in [Fault -> Nat] /\ cmds \in Seq(Commands)
    BY DEF I2cInv, I2cTypes
  <2> QED BY <1>1, <2>1
<1>6. /\ mishaps' \in [Fault -> Nat]
      /\ mishaps'["nack"] = IF f = "nack" THEN mishaps["nack"] + 1 ELSE mishaps["nack"]
      /\ mishaps'["arblost"] = IF f = "arblost" THEN mishaps["arblost"] + 1 ELSE mishaps["arblost"]
  BY <1>1, <1>5 DEF Fault
<1>7. CASE f = "stuck"
  <2>1. stuck' = TRUE /\ UNCHANGED <<cmds, latch, nack_det, arblost_det>>
    BY <1>1, <1>7
  <2>2. mishaps'["nack"] = mishaps["nack"] /\ mishaps'["arblost"] = mishaps["arblost"]
    BY <1>6, <1>7
  <2>3. Gone' = Gone
    BY <1>4, <2>1 DEF Gone
  <2>4. Clean' <=> Clean
    BY <1>1, <2>1 DEF Clean
  <2>5. I2cTypes'
    BY <1>1, <1>6, <2>1 DEF I2cInv, I2cTypes
  <2>6. BufferIs' /\ CoreOff' /\ StatusIs'
    BY <1>1, <1>2, <2>1, <2>2 DEF I2cInv, BufferIs, CoreOff, StatusIs
  <2>7. Queues' /\ Latched'
    BY <1>1, <1>2, <1>4, <2>1, <2>3, <2>4 DEF I2cInv, Queues, Latched
  <2>8. Received'
    BY <1>1, <1>2, <2>3, <2>4 DEF I2cInv, Received, Hopeful, AskedFor
  <2>9. CodecIs'
    BY <1>1, <1>2, <2>2, <2>3, <2>4 DEF I2cInv, CodecIs, AskedFor
  <2>10. Hopes'
    BY <2>1 DEF Hopes
  <2> QED BY <2>5, <2>6, <2>7, <2>8, <2>9, <2>10 DEF I2cInv
<1>8. CASE f # "stuck"
  <2>1. /\ cmds' = <<>> /\ latch' = <<>> /\ UNCHANGED stuck
        /\ nack_det' = (nack_det \/ f = "nack")
        /\ arblost_det' = (arblost_det \/ f = "arblost")
    BY <1>1, <1>8
  <2>2. f = "nack" \/ f = "arblost"
    BY <1>8 DEF Fault
  <2>3. Gone' = Pushed /\ Pushed >= 1 /\ Len(cmds') = 0
    BY <1>3, <1>4, <1>5, <2>1 DEF Gone
  <2>4. ~Clean'
    BY <2>1, <2>2 DEF Clean
  <2>5. /\ nack_det' \in BOOLEAN /\ arblost_det' \in BOOLEAN
        /\ cmds' \in Seq(Commands) /\ latch' \in Seq(Byte)
    <3>1. nack_det' \in BOOLEAN /\ arblost_det' \in BOOLEAN
      BY <2>1
    <3>2. cmds' \in Seq(Commands) /\ latch' \in Seq(Byte)
      BY <2>1
    <3> QED BY <3>1, <3>2
  <2>6. I2cTypes'
    BY <1>1, <1>6, <2>1, <2>5 DEF I2cInv, I2cTypes
  <2>7. BufferIs' /\ CoreOff'
    BY <1>1, <1>2 DEF I2cInv, BufferIs, CoreOff
  <2>8. StatusIs'
    <3>1. nack_det => nack_det'
      BY <2>1
    <3>2. arblost_det => arblost_det'
      BY <2>1
    <3>3. arblost_det' => mishaps'["arblost"] > 0
      <4>1. CASE f = "arblost"
        BY <1>5, <1>6, <4>1 DEF Fault
      <4>2. CASE f = "nack"
        BY <1>6, <2>1, <4>2 DEF I2cInv, StatusIs
      <4> QED BY <2>2, <4>1, <4>2
    <3> QED BY <1>1, <1>2, <2>1, <3>1, <3>2, <3>3 DEF I2cInv, StatusIs, Active
  <2>9. Queues'
    BY <1>1, <1>2, <1>3, <1>4, <2>1, <2>3, NothingFits DEF I2cInv, Queues
  <2>10. Latched'
    BY <1>1, <2>1, <2>3, <2>4 DEF Latched, Spells
  <2>11. Received'
    BY <1>1, <1>2, <2>4 DEF I2cInv, Received, Hopeful, AskedFor
  <2>12. CodecIs'
    <3>1. mishaps'["arblost"] = 0 => mishaps["arblost"] = 0
      BY <1>5, <1>6, <2>2 DEF Fault
    <3> QED BY <1>1, <1>2, <2>4, <3>1 DEF I2cInv, CodecIs, Active
  <2>13. Hopes'
    <3>1. CASE f = "arblost"
      <4>1. mishaps'["arblost"] # 0
        BY <1>5, <1>6, <3>1 DEF Fault
      <4> QED BY <4>1 DEF Hopes
    <3>2. CASE f = "nack"
      <4>1. /\ nack_det' /\ mishaps'["nack"] = mishaps["nack"] + 1
            /\ mishaps'["arblost"] = mishaps["arblost"]
        BY <1>6, <2>1, <3>2
      <4>2. mishaps["nack"] \in Nat /\ retry \in Nat /\ RETRIES \in Nat
        BY <1>5, I2cAssumption DEF Fault, I2cInv, I2cTypes
      <4> QED BY <1>1, <1>2, <2>1, <4>1, <4>2 DEF I2cInv, Hopes, Active
    <3> QED BY <2>2, <3>1, <3>2
  <2> QED BY <2>6, <2>7, <2>8, <2>9, <2>10, <2>11, <2>12, <2>13 DEF I2cInv
<1> QED BY <1>7, <1>8

-----------------------------------------------------------------------------
(***************************************************************************)
(* The invariant is inductive, and says what the properties say.           *)
(***************************************************************************)
LEMMA I2cBeginning == I2cInit => I2cInv
<1> SUFFICES ASSUME I2cInit PROVE I2cInv
  OBVIOUS
<1>1. I2cTypes
  <2>1. codec \in [Regs -> Word] /\ mishaps \in [Fault -> Nat]
    BY DEF I2cInit, Unset, Word
  <2>2. /\ todo \in Seq(Commands) /\ cmds \in Seq(Commands)
        /\ rx \in Seq(Byte) /\ latch \in Seq(Byte)
    BY DEF I2cInit
  <2>3. /\ receiving \in BOOLEAN /\ astray \in BOOLEAN /\ en \in BOOLEAN
        /\ nack_det \in BOOLEAN /\ arblost_det \in BOOLEAN /\ stuck \in BOOLEAN
    BY DEF I2cInit
  <2>4. /\ at \in Nat \ {0} /\ at <= 22 /\ i2c_pc \in I2cPlace /\ i2c_pc = "call"
        /\ retry \in Nat /\ retry <= RETRIES /\ filled \in Nat
    BY I2cAssumption DEF I2cInit, I2cPlace
  <2> QED BY <2>1, <2>2, <2>3, <2>4 DEF I2cTypes
<1>2. mishaps["arblost"] = 0 /\ mishaps["nack"] = 0
  BY DEF I2cInit, Fault
<1>3. CodecIs
  <2>1. ASSUME NEW k \in WritesOf PROVE codec[Setup[k].reg] = Unset /\ ~(k < at)
    <3>1. k \in 1..21 /\ at = 1 /\ codec = [r \in Regs |-> Unset]
      BY DEF WritesOf, I2cInit
    <3>2. Setup[k].reg \in Regs
      BY <3>1, SetupFacts DEF Regs
    <3> QED BY <3>1, <3>2
  <2> QED BY <2>1 DEF I2cInit, CodecIs, Active
<1>4. BufferIs /\ CoreOff /\ StatusIs /\ Queues /\ Latched /\ Received
  BY DEF I2cInit, BufferIs, CoreOff, StatusIs, Queues, Latched, Received, Active
<1>5. Hopes
  BY DEF I2cInit, Hopes, Active
<1> QED BY <1>1, <1>3, <1>4, <1>5 DEF I2cInv

LEMMA I2cInductive == I2cInv /\ [I2cNext]_i2cVars => I2cInv'
<1> SUFFICES ASSUME I2cInv, [I2cNext]_i2cVars PROVE I2cInv'
  OBVIOUS
<1>1. CASE Driver
  BY <1>1, I2cBegins, I2cEnds, I2cAttempts, I2cPushes, I2cGivesUpPush, I2cChecks, I2cReads,
     I2cGivesUpRead, I2cHasRead, I2cFinishes DEF Driver
<1>2. CASE CoreStep
  BY <1>2, I2cCoreSteps
<1>3. ASSUME NEW f \in Fault, CoreFault(f) PROVE I2cInv'
  BY <1>3, I2cFaults
<1>4. CASE UNCHANGED i2cVars
  BY <1>4 DEF i2cVars, client, core, flow, I2cInv, I2cTypes, BufferIs, CoreOff, StatusIs,
              Queues, Latched, Received, CodecIs, Hopes, NextCall, ScriptEnd, Pushed, Gone,
              Clean, Hopeful, AskedFor
<1> QED BY <1>1, <1>2, <1>3, <1>4 DEF I2cNext

LEMMA CodecFacts == I2cInv => CodecFollows /\ ReadsRegister /\ HangsIfHopeless
<1> SUFFICES ASSUME I2cInv PROVE CodecFollows /\ ReadsRegister /\ HangsIfHopeless
  OBVIOUS
<1>1. {j \in 1..Len(Setup) : Setup[j].op = "wr"} = WritesOf
  BY SetupFacts DEF WritesOf
<1>2. CodecFollows
  BY <1>1 DEF CodecFollows, I2cInv, CodecIs
<1>3. ReadsRegister
  <2> SUFFICES ASSUME i2c_pc = "return", status = "SUCCESS", NextCall.op = "rd", ~astray
               PROVE  256 * buffer[1] + buffer[2] = codec[NextCall.reg]
    BY DEF ReadsRegister
  <2>1. buffer[1] = Hi(AskedFor) /\ buffer[2] = Lo(AskedFor)
    BY DEF I2cInv, CodecIs, Answer
  <2>2. at \in 1..21 /\ codec \in [Regs -> Word]
    BY DEF I2cInv, I2cTypes
  <2>3. AskedFor \in Word
    BY <2>2, CallFacts DEF AskedFor
  <2> QED BY <2>1, <2>3, Bytes DEF AskedFor
<1>4. HangsIfHopeless
  BY DEF HangsIfHopeless, I2cInv, Hopes, I2cTypes, Fault
<1> QED BY <1>2, <1>3, <1>4

(***************************************************************************)
(* The host task within the program: until it runs its variables are at    *)
(* rest, and MAX3421e::Init hands over a bus that it knows.                 *)
(***************************************************************************)
Resting == stage # "usb" => UsbOff

PoolStage == stage = "usb" => PoolInv

DeviceStage == stage = "usb" => DeviceInv

LEMMA RestingAlways == StartSpec => []Resting
<1>1. StartInit => Resting
  BY DEF StartInit, Resting
<1>2. Resting /\ [StartNext]_startVars => Resting'
  <2> SUFFICES ASSUME Resting, [StartNext]_startVars PROVE Resting'
    OBVIOUS
  <2>1. CASE UNCHANGED <<vars, stage>>
    BY <2>1 DEF Resting, UsbOff, vars, driver, endpoints
  <2>2. CASE SetUpCodec \/ SetUpChip \/ UNCHANGED startVars
    BY <2>1, <2>2 DEF SetUpCodec, InCodec, SetUpChip, InChip, startVars
  <2>3. CASE StartChip \/ Halt
    <3>1. UNCHANGED vars /\ stage # "usb"
      BY <2>3 DEF StartChip, Halt
    <3> QED BY <3>1 DEF Resting, UsbOff, vars, driver, endpoints
  <2>4. CASE StartUsb \/ RunUsb
    BY <2>4 DEF StartUsb, RunUsb, InUsb, Resting
  <2> QED BY <2>2, <2>3, <2>4 DEF StartNext
<1> QED BY <1>1, <1>2, PTL DEF StartSpec

\* The state in which the host task begins.
LEMMA BeginsUsb ==
  ASSUME UsbOff, StartUsb
  PROVE  DeviceInv'
<1>1. /\ port' \in Ports /\ (Probed = "SE1" => port'.illegal) /\ vbusState' = Probed
      /\ bus' \in (IF port'.slow THEN {Probed} ELSE {"SE0", "HOST", Probed})
      /\ dev' \in [addr : {0}, conf : {0}, desc : Devices]
      /\ condet' = FALSE /\ usb_task_state' = "INITIALIZE" /\ pc' = "irq"
      /\ bAddress' = 0 /\ bPollEnable' = FALSE /\ search' = NoSearch
      /\ thePool' = [e \in Entry |-> FreeEntry]
  BY DEF StartUsb, UsbOff, driver, endpoints
<1>2. Probed \in Lines
  BY DEF Probed, Lines
<1>3. FreeEntry \in Slot /\ FreeEntry.addr = 0
  BY DEF FreeEntry, Slot, DevAddress
<1>4. ControlTypes'
  <2>1. port' \in PortType /\ bus' \in Lines
    BY <1>1, <1>2, TaskAssumption DEF Lines
  <2> QED BY <1>1, <1>2, <1>3, <2>1
      DEF ControlTypes, UsbState, Detached, PcPlace, DevAddress, Pool
<1>5. Enumerates'
  BY <1>1 DEF Enumerates, Enumerating, Addressed
<1>6. BusKnown'
  BY <1>1, <1>2 DEF BusKnown, Detached, Lines
<1>7. Pooled'
  BY <1>1, <1>3 DEF Pooled, Detached, Holds
<1>8. dev' \in Dev /\ dev'.addr = 0 /\ dev'.conf = 0
  BY <1>1 DEF Dev, DevAddress
<1>9. SearchInv'
  BY <1>1, <1>8, DeviceFacts DEF SearchInv
<1>10. Noticed'
  BY <1>1 DEF Noticed
<1> QED BY <1>4, <1>5, <1>6, <1>7, <1>9, <1>10 DEF DeviceInv, PoolInv

LEMMA PoolStageAlways == StartSpec => []PoolStage
<1>1. StartInit => PoolStage
  BY DEF StartInit, PoolStage
<1>2. Resting /\ PoolStage /\ [StartNext]_startVars => PoolStage'
  <2> SUFFICES ASSUME Resting, PoolStage, [StartNext]_startVars, stage' = "usb" PROVE PoolInv'
    BY DEF PoolStage
  <2>1. CASE StartUsb
    BY <2>1, BeginsUsb DEF StartUsb, Resting, DeviceInv
  <2>2. CASE RunUsb \/ UNCHANGED startVars
    <3>1. stage = "usb" /\ [Next]_vars
      BY <2>2 DEF RunUsb, InUsb, startVars
    <3> QED BY <3>1, PoolNext DEF PoolStage
  <2>3. CASE SetUpCodec \/ StartChip \/ SetUpChip \/ Halt
    BY <2>3 DEF SetUpCodec, InCodec, StartChip, SetUpChip, InChip, Halt
  <2> QED BY <2>1, <2>2, <2>3 DEF StartNext
<1> QED BY <1>1, <1>2, RestingAlways, PTL DEF StartSpec

LEMMA DeviceStageAlways == StartSpec => []DeviceStage
<1>1. StartInit => DeviceStage
  BY DEF StartInit, DeviceStage
<1>2. Resting /\ DeviceStage /\ [StartNext]_startVars => DeviceStage'
  <2> SUFFICES ASSUME Resting, DeviceStage, [StartNext]_startVars, stage' = "usb" PROVE DeviceInv'
    BY DEF DeviceStage
  <2>1. CASE StartUsb
    BY <2>1, BeginsUsb DEF StartUsb, Resting
  <2>2. CASE RunUsb \/ UNCHANGED startVars
    <3>1. stage = "usb" /\ [Next]_vars
      BY <2>2 DEF RunUsb, InUsb, startVars
    <3> QED BY <3>1, DeviceNext DEF DeviceStage
  <2>3. CASE SetUpCodec \/ StartChip \/ SetUpChip \/ Halt
    BY <2>3 DEF SetUpCodec, InCodec, StartChip, SetUpChip, InChip, Halt
  <2> QED BY <2>1, <2>2, <2>3 DEF StartNext
<1> QED BY <1>1, <1>2, RestingAlways, PTL DEF StartSpec

\* From reset on, the pool holds exactly the address of the driver, and an
\* enabled driver owns its endpoints: main's start-up (main.cpp:41-51) hands
\* the task a free pool, and whatever the probe of the bus has found
\* (usbhost.cpp:222-255), what PoolIsTheDrivers says of the task holds of the
\* program.
THEOREM ProgramKeepsThePool == StartSpec => []PoolMatchesDriver
<1>1. Resting /\ PoolStage => PoolMatchesDriver
  <2>1. CASE stage = "usb"
    BY <2>1, PoolFacts DEF PoolStage
  <2>2. CASE stage # "usb"
    <3>1. UsbOff => bAddress = 0 /\ \A e \in Entry : thePool[e].addr = 0
      BY DEF UsbOff, FreeEntry
    <3>2. UsbOff => {e \in Entry : thePool[e].addr # 0} = {}
      BY <3>1
    <3> QED BY <2>2, <3>1, <3>2, FS_EmptySet DEF Resting, PoolMatchesDriver
  <2> QED BY <2>1, <2>2
<1> QED BY <1>1, RestingAlways, PoolStageAlways, PTL

\* From reset on, with slow hands on the plug, a driver whose device has gone
\* is about to be told: the bus that MAX3421e::Init has probed, with the
\* interrupt cleared behind it (usbhost.cpp:160-186, 222-255), is the one the task
\* starts from.
THEOREM ProgramNoticesStale == StartSpec => []StaleIsNoticed
<1>1. Resting /\ DeviceStage => StaleIsNoticed
  BY StaleFacts DEF Resting, DeviceStage, UsbOff, StaleIsNoticed
<1> QED BY <1>1, RestingAlways, DeviceStageAlways, PTL

\* From reset on, an enabled driver polls and sends to endpoints of the device
\* that is plugged in, in the configuration it has selected
\* (usbh_midi.cpp:213-267, after main.cpp:41-51).
THEOREM ProgramSpeaksToItsDevice ==
  ASSUME RegularDevices PROVE StartSpec => []SpeaksToItsDevice
<1>1. Resting /\ DeviceStage => SpeaksToItsDevice
  <2>1. CASE stage = "usb"
    BY <2>1, RegularDevices, DeviceIsRegular, SpeakFacts DEF DeviceStage
  <2>2. CASE stage # "usb"
    BY <2>2 DEF Resting, UsbOff, SpeaksToItsDevice
  <2> QED BY <2>1, <2>2
<1> QED BY <1>1, RestingAlways, DeviceStageAlways, PTL

-----------------------------------------------------------------------------
(***************************************************************************)
(* A command of the SPI driver.  Every access of MAX3421e::Init is one     *)
(* command of two bytes, and the driver's credit lets one byte at a time   *)
(* be on its way: in TXDATA, in the shift register or in RXDATA.           *)
(***************************************************************************)
Waits == {"osc", "sampled", "probe", "speed"}
Accesses == {"pinctl", "chipres", "run", "host", "hien", "sample", "mode", "clear", "enable"}
              \cup Waits
Places == {"call", "discard", "poll", "receive", "drain", "return"}

First == IF Reads THEN Access.reg ELSE Access.reg + 2
Second == IF Reads THEN 0 ELSE Access.val[1]

\* The bytes before and behind the first r, and the one between.
Before(r) == CASE r = 0 -> <<>> [] r = 1 -> <<First>> [] r = 2 -> <<First, Second>>
Behind(r) == CASE r = 0 -> <<First, Second>> [] r = 1 -> <<Second>> [] r = 2 -> <<>>
Nth(r) == IF r = 0 THEN First ELSE Second

\* The chip has answered r bytes.
Told(r) ==
  CASE r = 0 -> told = <<>> [] r = 1 -> told = <<told[1]>> [] r = 2 -> told = <<told[1], told[2]>>

\* The driver has received r bytes.
Taken(r) ==
  /\ ignore = IF Reads THEN (IF r = 0 THEN 1 ELSE 0) ELSE 2 - r
  /\ got = IF Reads /\ r = 2 THEN <<told[2]>> ELSE <<>>

Idle == txdata = <<>> /\ shift = <<>>

\* No byte is on its way, one is on its way to the chip, its answer has come.
Quiet(r) ==
  /\ Idle /\ ~rrdy /\ credits = 1
  /\ tosend = Behind(r) /\ heard = Before(r) /\ Told(r)

Moving(r) ==
  /\ \/ txdata = <<Nth(r)>> /\ shift = <<>>
     \/ txdata = <<>> /\ shift = <<Nth(r)>>
  /\ ~rrdy /\ credits = 0
  /\ tosend = Behind(r + 1) /\ heard = Before(r) /\ Told(r)

Come(r) ==
  /\ Idle /\ rrdy /\ credits = 0
  /\ tosend = Behind(r + 1) /\ heard = Before(r + 1) /\ Told(r + 1)
  /\ rxdata = told[r + 1]

Ended == Idle /\ Taken(2) /\ heard = Before(2) /\ Told(2)

SpiInv ==
  /\ step \in Accesses \cup {"ready", "failed"} /\ spi_pc \in Places
  /\ stage # "chip" => spi_pc = "call"
  /\ spi_pc = "call" => Idle /\ got = <<>>
  /\ spi_pc # "call" => step \in Accesses
  /\ spi_pc = "discard" =>
       /\ Idle /\ credits = 1 /\ Taken(0)
       /\ tosend = Behind(0) /\ heard = <<>> /\ told = <<>>
  /\ spi_pc = "poll" => \E r \in {0, 1} : Taken(r) /\ (Quiet(r) \/ Moving(r) \/ Come(r))
  /\ spi_pc = "receive" => \E r \in {0, 1} : Taken(r) /\ Come(r)
  /\ spi_pc \in {"drain", "return"} => Ended

\* The two bytes of an access.
LEMMA ShortSequences ==
  \A a, b : /\ <<a>> \o <<b>> = <<a, b>> /\ <<a, b>> \o <<>> = <<a, b>>
            /\ Append(<<>>, a) = <<a>> /\ Append(<<a>>, b) = <<a, b>>
            /\ <<a>>[1] = a /\ <<a, b>>[1] = a /\ <<a, b>>[2] = b
            /\ Head(<<a, b>>) = a /\ Tail(<<a, b>>) = <<b>>
            /\ Head(<<a>>) = a /\ Tail(<<a>>) = <<>>
            /\ <<a>> # <<>> /\ <<a, b>> # <<>>
            /\ Len(<<a>>) = 1 /\ Len(<<a, b>>) = 2
<1> TAKE a, b
<1>0. ASSUME NEW t \in Seq({a, b}), Len(t) = 2, t[1] = a, t[2] = b PROVE t = <<a, b>>
  BY <1>0
<1>1. <<a>> \o <<b>> = <<a, b>>
  <2> DEFINE t == <<a>> \o <<b>>
  <2>1. t \in Seq({a, b}) /\ Len(t) = 2 /\ t[1] = a /\ t[2] = b
    OBVIOUS
  <2> HIDE DEF t
  <2>2. t = <<a, b>>
    BY <1>0, <2>1
  <2> QED BY <2>2 DEF t
<1>2. <<a, b>> \o <<>> = <<a, b>>
  OBVIOUS
<1>3. Append(<<>>, a) = <<a>>
  OBVIOUS
<1>4. Append(<<a>>, b) = <<a, b>>
  <2> DEFINE t == Append(<<a>>, b)
  <2>1. t \in Seq({a, b}) /\ Len(t) = 2 /\ t[1] = a /\ t[2] = b
    OBVIOUS
  <2> HIDE DEF t
  <2>2. t = <<a, b>>
    BY <1>0, <2>1
  <2> QED BY <2>2 DEF t
<1>5. <<a>>[1] = a /\ <<a, b>>[1] = a /\ <<a, b>>[2] = b
  OBVIOUS
<1>6. Head(<<a, b>>) = a /\ Head(<<a>>) = a
  OBVIOUS
<1>7. Tail(<<a, b>>) = <<b>>
  OBVIOUS
<1>8. Tail(<<a>>) = <<>>
  OBVIOUS
<1>9. <<a>> # <<>> /\ <<a, b>> # <<>>
  OBVIOUS
<1>10. Len(<<a>>) = 1 /\ Len(<<a, b>>) = 2
  OBVIOUS
<1> QED BY <1>1, <1>2, <1>3, <1>4, <1>5, <1>6, <1>7, <1>8, <1>9, <1>10

LEMMA TwoBytes ==
  ASSUME step \in Accesses
  PROVE  /\ CommandBytes = IF Reads THEN <<First>> ELSE <<First, Second>>
         /\ CommandBytes \o (IF Reads THEN <<0>> ELSE <<>>) = <<First, Second>>
         /\ Len(CommandBytes) = IF Reads THEN 1 ELSE 2
<1>1. CASE Reads
  BY <1>1, ShortSequences DEF CommandBytes, First, Second
<1>2. CASE ~Reads
  <2>1. Access.val = <<Access.val[1]>>
    BY <1>2, ShortSequences DEF Reads, Access, Accesses, Waits
  <2>2. First = Access.reg + 2 /\ Second = Access.val[1]
    BY <1>2 DEF First, Second
  <2>3. CommandBytes = <<First>> \o <<Second>>
    BY <1>2, <2>1, <2>2, Zenon DEF CommandBytes
  <2>4. CommandBytes = <<First, Second>>
    BY <2>3, ShortSequences, Zenon
  <2> QED BY <1>2, <2>4, ShortSequences
<1> QED BY <1>1, <1>2

LEMMA AccessStays ==
  ASSUME UNCHANGED <<step, mode>>
  PROVE  Reads' = Reads /\ First' = First /\ Second' = Second
BY DEF Reads, First, Second, Access

LEMMA BytesStay ==
  ASSUME UNCHANGED <<step, mode>>
  PROVE  \A r : Before(r)' = Before(r) /\ Behind(r)' = Behind(r) /\ Nth(r)' = Nth(r)
BY AccessStays DEF Before, Behind, Nth

Transfers == <<step, mode, spi_pc, credits, got, tosend, ignore, txdata, shift, rxdata, rrdy, heard, told>>

LEMMA SpiRests ==
  ASSUME SpiInv, UNCHANGED <<Transfers, stage>>
  PROVE  SpiInv'
<1>1. UNCHANGED <<step, mode>>
  BY DEF Transfers
<1>2. ASSUME NEW r
      PROVE  /\ Taken(r)' <=> Taken(r)
             /\ Quiet(r)' <=> Quiet(r)
             /\ Moving(r)' <=> Moving(r)
             /\ Come(r)' <=> Come(r)
  <2>1. Taken(r)' <=> Taken(r)
    BY <1>1, AccessStays DEF Transfers, Taken
  <2>2. Quiet(r)' <=> Quiet(r)
    BY <1>1, AccessStays DEF Transfers, Quiet, Told, Idle, Before, Behind
  <2>3. Moving(r)' <=> Moving(r)
    BY <1>1, AccessStays DEF Transfers, Moving, Told, Idle, Before, Behind, Nth
  <2>4. Come(r)' <=> Come(r)
    BY <1>1, AccessStays DEF Transfers, Come, Told, Idle, Before, Behind
  <2> QED BY <2>1, <2>2, <2>3, <2>4
<1>3. Ended' <=> Ended
  BY <1>1, AccessStays, BytesStay DEF Ended, Taken, Transfers, Idle, Told
<1>4. Behind(0)' = Behind(0) /\ (Taken(0)' <=> Taken(0))
  BY <1>1, AccessStays DEF Behind, Taken, Transfers
<1> QED BY <1>2, <1>3, <1>4 DEF SpiInv, Transfers, Idle

LEMMA SpiBegin == SpiInv /\ stage = "chip" /\ stage' = stage /\ Begin => SpiInv'
<1> SUFFICES ASSUME SpiInv, stage = "chip", stage' = stage, Begin PROVE SpiInv'
  OBVIOUS
<1>1. /\ UNCHANGED <<step, mode, got, txdata, shift>> /\ spi_pc = "call" /\ spi_pc' = "discard"
      /\ tosend' = CommandBytes \o (IF Reads THEN <<0>> ELSE <<>>)
      /\ ignore' = Len(CommandBytes) /\ credits' = 1 /\ heard' = <<>> /\ told' = <<>>
  BY DEF Begin, access, spiCore
<1>2. step \in Accesses /\ Idle /\ got = <<>>
  BY <1>1 DEF SpiInv, Begin
<1>3. tosend' = Behind(0)'
  BY <1>1, <1>2, TwoBytes, AccessStays DEF Behind
<1>4. Taken(0)'
  BY <1>1, <1>2, TwoBytes, AccessStays DEF Taken
<1> QED BY <1>1, <1>2, <1>3, <1>4 DEF SpiInv, Idle, Places

LEMMA SpiDiscard == SpiInv /\ stage = "chip" /\ stage' = stage /\ Discard => SpiInv'
<1> SUFFICES ASSUME SpiInv, stage = "chip", stage' = stage, Discard PROVE SpiInv'
  OBVIOUS
<1>1. /\ UNCHANGED <<step, mode, credits, got, tosend, ignore, txdata, shift, heard, told>>
      /\ spi_pc = "discard" /\ spi_pc' = "poll" /\ rrdy' = FALSE
  BY DEF Discard, Discarded, access, spiChip
<1>2. /\ step \in Accesses /\ Idle /\ credits = 1 /\ Taken(0)
      /\ tosend = Behind(0) /\ heard = <<>> /\ told = <<>>
  BY <1>1 DEF SpiInv
<1>3. Taken(0)'
  BY <1>1, <1>2, AccessStays DEF Taken
<1>4. Quiet(0)'
  BY <1>1, <1>2, BytesStay DEF Quiet, Idle, Before, Told
<1> QED BY <1>1, <1>2, <1>3, <1>4 DEF SpiInv, Places

LEMMA SpiSend == SpiInv /\ stage = "chip" /\ stage' = stage /\ Send => SpiInv'
<1> SUFFICES ASSUME SpiInv, stage = "chip", stage' = stage, Send PROVE SpiInv'
  OBVIOUS
<1>1. /\ UNCHANGED <<step, mode, got, ignore, shift, rxdata, rrdy, heard, told>>
      /\ spi_pc = "poll" /\ txdata = <<>> /\ credits > 0
  BY DEF Send, access, spiChip
<1>2. PICK r \in {0, 1} : Taken(r) /\ (Quiet(r) \/ Moving(r) \/ Come(r))
  BY <1>1 DEF SpiInv
<1>3. Quiet(r) /\ step \in Accesses
  BY <1>1, <1>2 DEF Moving, Come, SpiInv
<1>4. /\ Idle /\ ~rrdy /\ credits = 1 /\ tosend = Behind(r) /\ heard = Before(r) /\ Told(r)
  BY <1>3 DEF Quiet
<1>5. Behind(r) # <<>> /\ Head(Behind(r)) = Nth(r) /\ Tail(Behind(r)) = Behind(r + 1)
  BY <1>2, ShortSequences DEF Behind, Nth
<1>6. txdata' = <<Nth(r)>> /\ tosend' = Behind(r + 1) /\ credits' = 0 /\ spi_pc' = "poll"
  BY <1>4, <1>5 DEF Send
<1>7. Moving(r)'
  BY <1>1, <1>4, <1>6, BytesStay DEF Moving, Idle, Told
<1>8. Taken(r)'
  BY <1>1, <1>2, AccessStays DEF Taken
<1> QED BY <1>1, <1>2, <1>3, <1>6, <1>7, <1>8 DEF SpiInv, Places

LEMMA SpiOnlyReceive == SpiInv /\ stage = "chip" /\ stage' = stage /\ OnlyReceive => SpiInv'
<1> SUFFICES ASSUME SpiInv, stage = "chip", stage' = stage, OnlyReceive PROVE SpiInv'
  OBVIOUS
<1>1. /\ UNCHANGED <<step, mode, credits, got, tosend, ignore, txdata, shift, rxdata, rrdy, heard, told>>
      /\ spi_pc = "poll" /\ spi_pc' = "receive" /\ rrdy
  BY DEF OnlyReceive, access, spiCore, spiChip
<1>2. PICK r \in {0, 1} : Taken(r) /\ (Quiet(r) \/ Moving(r) \/ Come(r))
  BY <1>1 DEF SpiInv
<1>3. Come(r) /\ step \in Accesses
  BY <1>1, <1>2 DEF Moving, Quiet, SpiInv
<1>4. Come(r)'
  BY <1>1, <1>3, BytesStay DEF Come, Idle, Told
<1>5. Taken(r)'
  BY <1>1, <1>2, AccessStays DEF Taken
<1> QED BY <1>1, <1>2, <1>3, <1>4, <1>5 DEF SpiInv, Places

\* The driver takes byte r + 1 of the answer: the bytes before the answer
\* proper are counted down, the answer is kept.
LEMMA SpiReceive == SpiInv /\ stage = "chip" /\ stage' = stage /\ Receive => SpiInv'
<1> SUFFICES ASSUME SpiInv, stage = "chip", stage' = stage, Receive PROVE SpiInv'
  OBVIOUS
<1>1. /\ UNCHANGED <<step, mode, tosend, txdata, shift, rxdata, heard, told>>
      /\ spi_pc = "receive" /\ rrdy' = FALSE /\ credits' = credits + 1
  BY DEF Receive, access, spiChip
<1>2. PICK r \in {0, 1} : Taken(r) /\ Come(r)
  BY <1>1 DEF SpiInv
<1>3. step \in Accesses
  BY <1>1 DEF SpiInv
<1>4. /\ Idle /\ credits = 0 /\ tosend = Behind(r + 1) /\ heard = Before(r + 1)
      /\ Told(r + 1) /\ rxdata = told[r + 1]
  BY <1>2 DEF Come
<1>5. /\ Reads' = Reads
      /\ Reads => ignore' = 0 /\ got' = (IF r = 1 THEN <<told[2]>> ELSE <<>>)
      /\ ~Reads => ignore' = 1 - r /\ got' = <<>>
  <2>1. Reads' = Reads
    BY <1>1, AccessStays
  <2>2. CASE r = 0
    BY <1>2, <2>1, <2>2 DEF Receive, Taken
  <2>3. CASE r = 1 /\ Reads
    <3>1. ignore = 0 /\ got = <<>> /\ rxdata = told[2]
      BY <1>2, <1>4, <2>3 DEF Taken
    <3> QED BY <2>1, <2>3, <3>1, ShortSequences DEF Receive
  <2>4. CASE r = 1 /\ ~Reads
    BY <1>2, <2>1, <2>4 DEF Receive, Taken
  <2> QED BY <1>2, <2>2, <2>3, <2>4
<1>6. Taken(r + 1)'
  BY <1>1, <1>2, <1>5 DEF Taken
<1>7. Len(got') = IF Reads /\ r = 1 THEN 1 ELSE 0
  BY <1>5, ShortSequences
<1>8. spi_pc' = IF r = 1 THEN "drain" ELSE "poll"
  BY <1>2, <1>5, <1>7 DEF Receive
<1>9. CASE r = 0
  <2>1. Quiet(1)'
    BY <1>1, <1>4, <1>9, BytesStay DEF Quiet, Idle, Told
  <2> QED BY <1>1, <1>3, <1>6, <1>8, <1>9, <2>1 DEF SpiInv, Places
<1>10. CASE r = 1
  <2>1. Ended'
    BY <1>1, <1>4, <1>6, <1>10, BytesStay DEF Ended, Idle, Told
  <2> QED BY <1>1, <1>3, <1>8, <1>10, <2>1 DEF SpiInv, Places
<1> QED BY <1>2, <1>9, <1>10

LEMMA SpiDrain == SpiInv /\ stage = "chip" /\ stage' = stage /\ Drain => SpiInv'
<1> SUFFICES ASSUME SpiInv, stage = "chip", stage' = stage, Drain PROVE SpiInv'
  OBVIOUS
<1>1. /\ UNCHANGED <<step, mode, got, ignore, txdata, shift, heard, told>>
      /\ spi_pc = "drain" /\ spi_pc' = "return"
  BY DEF Drain, access, spiCore, spiChip
<1>2. Ended /\ step \in Accesses
  BY <1>1 DEF SpiInv
<1>3. Ended'
  BY <1>1, <1>2, AccessStays, BytesStay DEF Ended, Idle, Told, Taken
<1> QED BY <1>1, <1>2, <1>3 DEF SpiInv, Places

LEMMA SpiAccessEnds == SpiInv /\ stage = "chip" /\ stage' = stage /\ AccessEnds => SpiInv'
<1> SUFFICES ASSUME SpiInv, stage = "chip", stage' = stage, AccessEnds PROVE SpiInv'
  OBVIOUS
<1>1. UNCHANGED <<txdata, shift>> /\ spi_pc = "return" /\ spi_pc' = "call" /\ got' = <<>>
  BY DEF AccessEnds, spiCore
<1>2. Idle
  BY <1>1 DEF SpiInv, Ended
<1>3. step' \in Accesses \cup {"ready", "failed"}
  BY DEF AccessEnds, Straight, Accesses, Waits
<1> QED BY <1>1, <1>2, <1>3 DEF SpiInv, Places, Idle

LEMMA SpiLoad == SpiInv /\ stage = "chip" /\ stage' = stage /\ Load => SpiInv'
<1> SUFFICES ASSUME SpiInv, stage = "chip", stage' = stage, Load PROVE SpiInv'
  OBVIOUS
<1>1. /\ UNCHANGED <<step, mode, spi_pc, credits, got, tosend, ignore, rxdata, rrdy, heard, told>>
      /\ txdata # <<>> /\ shift' = txdata /\ txdata' = <<>>
  BY DEF Load, access, command, spiChip
<1>2. spi_pc = "poll"
  BY <1>1 DEF SpiInv, Idle, Come, Ended, Places
<1>3. PICK r \in {0, 1} : Taken(r) /\ (Quiet(r) \/ Moving(r) \/ Come(r))
  BY <1>2 DEF SpiInv
<1>4. Moving(r) /\ step \in Accesses
  BY <1>1, <1>2, <1>3 DEF Quiet, Come, Idle, SpiInv
<1>5. Moving(r)'
  BY <1>1, <1>4, BytesStay DEF Moving, Told
<1>6. Taken(r)'
  BY <1>1, <1>3, AccessStays DEF Taken
<1> QED BY <1>1, <1>2, <1>4, <1>5, <1>6 DEF SpiInv, Places

LEMMA SpiShiftByte == SpiInv /\ stage = "chip" /\ stage' = stage /\ ShiftByte => SpiInv'
<1> SUFFICES ASSUME SpiInv, stage = "chip", stage' = stage, ShiftByte PROVE SpiInv'
  OBVIOUS
<1>1. /\ UNCHANGED <<step, mode, spi_pc, credits, got, tosend, ignore, txdata>>
      /\ shift # <<>> /\ shift' = <<>> /\ rrdy' = TRUE
      /\ heard' = Append(heard, shift[1])
  BY DEF ShiftByte, access, command
<1>2. spi_pc = "poll"
  BY <1>1 DEF SpiInv, Idle, Come, Ended, Places
<1>3. PICK r \in {0, 1} : Taken(r) /\ (Quiet(r) \/ Moving(r) \/ Come(r))
  BY <1>2 DEF SpiInv
<1>4. Moving(r) /\ step \in Accesses
  BY <1>1, <1>2, <1>3 DEF Quiet, Come, Idle, SpiInv
<1>5. /\ txdata = <<>> /\ shift = <<Nth(r)>> /\ credits = 0
      /\ tosend = Behind(r + 1) /\ heard = Before(r) /\ Told(r)
  BY <1>1, <1>4 DEF Moving
<1>6. Append(Before(r), Nth(r)) = Before(r + 1)
  <2>1. CASE r = 0
    BY <2>1, ShortSequences DEF Before, Nth
  <2>2. CASE r = 1
    <3>1. Before(r) = <<First>> /\ Nth(r) = Second /\ Before(r + 1) = <<First, Second>>
      BY <2>2 DEF Before, Nth
    <3> HIDE DEF First, Second
    <3>2. Append(<<First>>, Second) = <<First, Second>>
      BY ShortSequences, Zenon
    <3> QED BY <3>1, <3>2, Zenon
  <2> QED BY <1>3, <2>1, <2>2
<1>7. heard' = Before(r + 1)
  BY <1>1, <1>5, <1>6, ShortSequences
<1>8. PICK a : rxdata' = a /\ told' = Append(told, a)
  BY DEF ShiftByte
<1>9. Told(r + 1)' /\ told'[r + 1] = a
  <2>1. CASE r = 0
    <3>1. told' = <<a>>
      BY <1>5, <1>8, <2>1, ShortSequences DEF Told
    <3> QED BY <2>1, <3>1, ShortSequences DEF Told
  <2>2. CASE r = 1
    <3>1. told' = <<told[1], a>>
      <4>1. told = <<told[1]>>
        BY <1>5, <2>2 DEF Told
      <4>2. Append(<<told[1]>>, a) = <<told[1], a>>
        BY ShortSequences, Zenon
      <4> QED BY <1>8, <4>1, <4>2, Zenon
    <3> QED BY <2>2, <3>1, ShortSequences DEF Told
  <2> QED BY <1>3, <2>1, <2>2
<1>10. Come(r)'
  BY <1>1, <1>5, <1>7, <1>8, <1>9, BytesStay DEF Come, Idle
<1>11. Taken(r)'
  <2>1. r # 2
    BY <1>3
  <2> QED BY <1>1, <1>3, <2>1, AccessStays DEF Taken
<1> QED BY <1>1, <1>2, <1>4, <1>10, <1>11 DEF SpiInv, Places

LEMMA SpiStep == SpiInv /\ stage = "chip" /\ stage' = stage /\ SpiNext => SpiInv'
<1> SUFFICES ASSUME SpiInv, stage = "chip", stage' = stage, SpiNext PROVE SpiInv'
  OBVIOUS
<1>1. CASE SpiDriver
  BY <1>1, SpiBegin, SpiDiscard, SpiSend, SpiOnlyReceive, SpiReceive, SpiDrain, SpiAccessEnds
     DEF SpiDriver
<1>2. CASE SpiCoreStep
  BY <1>2, SpiLoad, SpiShiftByte DEF SpiCoreStep
<1>3. CASE OscillatorStarts \/ BusSampled
  BY <1>3, SpiRests DEF OscillatorStarts, BusSampled, access, command, spiCore, Transfers
<1> QED BY <1>1, <1>2, <1>3 DEF SpiNext

LEMMA SpiAlways == StartSpec => []SpiInv
<1>1. StartInit => SpiInv
  BY DEF StartInit, SpiOff, SpiInit, SpiInv, Idle, Accesses, Places
<1>2. SpiInv /\ [StartNext]_startVars => SpiInv'
  <2> SUFFICES ASSUME SpiInv, [StartNext]_startVars PROVE SpiInv'
    OBVIOUS
  <2>1. CASE SetUpChip
    BY <2>1, SpiStep DEF SetUpChip, InChip
  <2>2. CASE SetUpCodec \/ RunUsb \/ UNCHANGED startVars
    <3>1. UNCHANGED <<spiVars, stage>>
      BY <2>2 DEF SetUpCodec, InCodec, RunUsb, InUsb, startVars
    <3> QED BY <3>1, SpiRests DEF spiVars, access, command, spiCore, spiChip, Transfers
  <2>3. CASE StartChip
    <3>1. /\ UNCHANGED <<step, spi_pc, got, txdata, shift>> /\ stage = "codec"
          /\ stage' = "chip"
      BY <2>3 DEF StartChip, access, command
    <3>2. spi_pc = "call"
      BY <3>1 DEF SpiInv
    <3> QED BY <3>1, <3>2 DEF SpiInv, Idle
  <2>4. CASE StartUsb \/ Halt
    <3>1. step \in {"ready", "failed"} /\ step' = "pinctl" /\ UNCHANGED <<spi_pc, got, txdata, shift>>
      BY <2>4 DEF StartUsb, Halt, ForgetSpi, ChipReady, command
    <3>2. spi_pc = "call"
      BY <3>1 DEF SpiInv, Accesses, Waits
    <3> QED BY <3>1, <3>2 DEF SpiInv, Idle, Accesses
  <2> QED BY <2>1, <2>2, <2>3, <2>4 DEF StartNext
<1> QED BY <1>1, <1>2, PTL DEF StartSpec

\* A command exchanges exactly its bytes, whatever was left in RXDATA, however
\* slow the core is and whatever the oscillator and the bus do: the credits and
\* the counting of alt_avalon_spi_command (altera_avalon_spi.c:71-118) with the
\* accesses of MAX3421e::Init, reset and busprobe (usbhost.cpp:133-186,
\* 222-255), within the program.
THEOREM CommandsAreExact == StartSpec => []CommandExact
<1>1. SpiInv => CommandExact
  <2> SUFFICES ASSUME SpiInv, spi_pc = "return"
               PROVE  /\ heard = CommandBytes \o (IF Reads THEN <<0>> ELSE <<>>)
                      /\ Reads => got = <<told[2]>>
    BY DEF CommandExact
  <2>1. Ended /\ step \in Accesses
    BY DEF SpiInv
  <2>2. heard = <<First, Second>>
    BY <2>1 DEF Ended, Before
  <2>3. Reads => got = <<told[2]>>
    BY <2>1 DEF Ended, Taken
  <2> QED BY <2>1, <2>2, <2>3, TwoBytes
<1> QED BY <1>1, SpiAlways, PTL

-----------------------------------------------------------------------------
(***************************************************************************)
(* The codec within the program: while it is set up what is shown above    *)
(* holds, and behind that nothing is left of it.                           *)
(***************************************************************************)
I2cOver ==
  /\ i2c_pc = "call" /\ at = 1
  /\ codec = [r \in Regs |-> Unset] /\ mishaps = [f \in Fault |-> 0]

CodecStage == IF stage = "codec" THEN I2cInv ELSE I2cOver

LEMMA CodecStageAlways == StartSpec => []CodecStage
<1>1. StartInit => CodecStage
  BY I2cBeginning DEF StartInit, CodecStage
<1>2. CodecStage /\ [StartNext]_startVars => CodecStage'
  <2> SUFFICES ASSUME CodecStage, [StartNext]_startVars PROVE CodecStage'
    OBVIOUS
  <2>1. CASE SetUpCodec
    BY <2>1, I2cInductive DEF SetUpCodec, InCodec, CodecStage
  <2>2. CASE StartChip
    BY <2>2 DEF StartChip, ForgetI2c, CodecStage, I2cOver
  <2>3. CASE SetUpChip \/ StartUsb \/ Halt \/ RunUsb
    <3>1. stage # "codec" /\ stage' # "codec" /\ UNCHANGED i2cVars
      BY <2>3 DEF SetUpChip, InChip, StartUsb, Halt, RunUsb, InUsb
    <3> QED BY <3>1 DEF CodecStage, I2cOver, i2cVars, client, core, flow
  <2>4. CASE UNCHANGED startVars
    <3>1. stage' = stage /\ UNCHANGED i2cVars
      BY <2>4 DEF startVars
    <3> QED BY <3>1, I2cInductive DEF CodecStage, I2cOver, i2cVars, client, core, flow
  <2> QED BY <2>1, <2>2, <2>3, <2>4 DEF StartNext
<1> QED BY <1>1, <1>2, PTL DEF StartSpec

LEMMA CodecStageFacts == CodecStage => CodecFollows /\ ReadsRegister /\ HangsIfHopeless
<1>1. CASE stage = "codec"
  BY <1>1, CodecFacts DEF CodecStage
<1>2. CASE stage # "codec"
  <2> SUFFICES ASSUME I2cOver PROVE CodecFollows /\ ReadsRegister /\ HangsIfHopeless
    BY <1>2 DEF CodecStage
  <2>1. CodecFollows
    <3>1. ASSUME NEW k \in 1..Len(Setup) PROVE codec[Setup[k].reg] = Unset /\ ~(k < at)
      <4>1. Setup[k].reg \in Regs
        BY DEF Regs
      <4>2. ~(k < at)
        BY SetupFacts DEF I2cOver
      <4> QED BY <4>1, <4>2 DEF I2cOver
    <3> QED BY <3>1 DEF CodecFollows
  <2>2. ReadsRegister /\ HangsIfHopeless
    BY DEF I2cOver, ReadsRegister, HangsIfHopeless
  <2> QED BY <2>1, <2>2
<1> QED BY <1>1, <1>2

\* Each register holds the value of the calls made so far and no other, up to
\* the end of initialize_sgtl5000 (sgtl5000_test.c:108-179), although the
\* driver learns of a refused byte only commands later
\* (altera_avalon_i2c.c:511-535, 615-689): for any depth of the FIFO, any number
\* of attempts and any refusals and blocked buses.
THEOREM CodecIsSetUp == StartSpec => []CodecFollows
<1> QED BY CodecStageAlways, CodecStageFacts, PTL

\* A read that reports success gives the register that was asked for, if no
\* earlier attempt overwrote its number (sgtl5000.c:8-26,
\* altera_avalon_i2c.c:572-611).
THEOREM ReadsAreOfTheRegister == StartSpec => []ReadsRegister
<1> QED BY CodecStageAlways, CodecStageFacts, PTL

\* Start-up reaches the error loop of a register function (sgtl5000.c:17-23,
\* 37-43) only on a blocked bus, after a lost arbitration, or after as many
\* refusals as the driver makes attempts.
THEOREM HangsForAReason == StartSpec => []HangsIfHopeless
<1> QED BY CodecStageAlways, CodecStageFacts, PTL

-----------------------------------------------------------------------------
(***************************************************************************)
(* The types of the program.  They need more of the start-up than its      *)
(* commands: the answer to the probe of the bus is what the lines show,    *)
(* the oscillator is not looked at more often than is allowed, and the     *)
(* core has not received more bytes than were asked for.                   *)
(***************************************************************************)
Octet == 0..255

SpiNumbers ==
  /\ polls \in Nat /\ polls <= MaxPolls /\ (step # "failed" => polls < MaxPolls)
  /\ mode \in {0, 201, 203, 209} /\ ignore \in 0..2 /\ credits \in 0..1

SpiBytes ==
  /\ got \in Seq(Octet) /\ tosend \in Seq(Octet) /\ txdata \in Seq(Octet)
  /\ shift \in Seq(Octet) /\ heard \in Seq(Octet) /\ told \in Seq(Octet)
  /\ rxdata \in Octet /\ chip \in [ChipReg -> Octet]
  /\ rrdy \in BOOLEAN /\ osc \in BOOLEAN /\ sampled \in BOOLEAN

ProbeAnswers ==
  /\ hrsl \in Levels \cup {0}
  /\ stage = "chip" => level \in Levels
  /\ step = "probe" /\ spi_pc # "call" /\ Len(told) = 2 => told[2] = level

SpiData == SpiNumbers /\ SpiBytes /\ ProbeAnswers

SpiWhole == SpiInv /\ stage = "chip" /\ stage' = stage

\* The bytes of an access, and what the chip makes of its first.
LEMMA AccessBytes ==
  ASSUME step \in Accesses, mode \in {0, 201, 203, 209}
  PROVE  /\ First \in Octet /\ Second \in Octet
         /\ Has(First, 2) <=> ~Reads
         /\ Reads => First \in {rUSBIRQ, rHCTL, rHRSL, rMODE}
         /\ ~Reads => First - 2 \in ChipReg
         /\ step = "probe" => Reads /\ First = rHRSL
<1> USE DEF rUSBIRQ, rUSBCTL, rCPUCTL, rPINCTL, rHIRQ, rHIEN, rMODE, rHCTL, rHRSL
<1>1. CASE step \in Waits
  <2>1. Access.val = <<>> /\ Access.reg \in {rUSBIRQ, rHCTL, rHRSL, rMODE}
        /\ (step = "probe" => Access.reg = rHRSL)
    <3>1. CASE step = "osc"
      BY <3>1 DEF Access
    <3>2. CASE step = "sampled"
      BY <3>2 DEF Access
    <3>3. CASE step = "probe"
      BY <3>3 DEF Access
    <3>4. CASE step = "speed"
      BY <3>4 DEF Access
    <3> QED BY <1>1, <3>1, <3>2, <3>3, <3>4 DEF Waits
  <2>2. Reads /\ First = Access.reg /\ Second = 0
    BY <2>1 DEF Reads, First, Second
  <2>3. \A f \in {rUSBIRQ, rHCTL, rHRSL, rMODE} : f \in Octet /\ ~Has(f, 2)
    BY SMT DEF Octet, Has
  <2>4. 0 \in Octet
    BY SMT DEF Octet
  <2> QED BY <2>1, <2>2, <2>3, <2>4
<1>2. CASE step \notin Waits
  <2>1. PICK v \in {0, 1, 4, 24, 32, 96, 193, mode} : Access.val = <<v>>
    BY <1>2 DEF Access, Waits, Accesses
  <2>2. Access.reg \in {rUSBCTL, rCPUCTL, rPINCTL, rHIRQ, rHIEN, rMODE, rHCTL}
    BY <1>2 DEF Access, Waits, Accesses
  <2>3. ~Reads /\ First = Access.reg + 2 /\ Second = v
    BY <2>1 DEF Reads, First, Second
  <2>4. \A r \in {rUSBCTL, rCPUCTL, rPINCTL, rHIRQ, rHIEN, rMODE, rHCTL} :
          r + 2 \in Octet /\ Has(r + 2, 2) /\ (r + 2) - 2 = r
    BY SMT DEF Octet, Has
  <2>5. v \in Octet
    BY <2>1, SMT DEF Octet
  <2>6. step # "probe"
    BY <1>2 DEF Waits
  <2> QED BY <2>2, <2>3, <2>4, <2>5, <2>6 DEF ChipReg
<1> QED BY <1>1, <1>2

LEMMA OctetSequences ==
  /\ <<>> \in Seq(Octet)
  /\ \A a \in Octet : <<a>> \in Seq(Octet)
  /\ \A a, b \in Octet : <<a, b>> \in Seq(Octet)
  /\ \A q \in Seq(Octet), a \in Octet : Append(q, a) \in Seq(Octet)
OBVIOUS

\* The bytes still to be sent, and those the chip has heard.
LEMMA ScriptBytes ==
  ASSUME step \in Accesses, mode \in {0, 201, 203, 209}
  PROVE  \A r \in {0, 1, 2} :
           Before(r) \in Seq(Octet) /\ Behind(r) \in Seq(Octet) /\ <<Nth(r)>> \in Seq(Octet)
BY AccessBytes, OctetSequences DEF Before, Behind, Nth

LEMMA BeginData == SpiData /\ SpiWhole /\ Begin => SpiData'
<1> SUFFICES ASSUME SpiData, SpiWhole, Begin PROVE SpiData'
  OBVIOUS
<1>1. /\ UNCHANGED <<step, polls, hrsl, mode, got, txdata, shift, rxdata, rrdy, chip, osc, level, sampled>>
      /\ tosend' = CommandBytes \o (IF Reads THEN <<0>> ELSE <<>>)
      /\ ignore' = Len(CommandBytes) /\ credits' = 1 /\ heard' = <<>> /\ told' = <<>>
      /\ stage' = stage
  BY DEF Begin, access, spiCore, SpiWhole
<1>2. step \in Accesses
  BY DEF Begin, SpiWhole, SpiInv
<1>3. tosend' \in Seq(Octet)
  <2>1. tosend' = <<First, Second>>
    BY <1>1, <1>2, TwoBytes
  <2>2. First \in Octet /\ Second \in Octet
    BY <1>2, AccessBytes DEF SpiData, SpiNumbers
  <2> HIDE DEF First, Second
  <2> QED BY <2>1, <2>2, OctetSequences
<1>4. SpiNumbers'
  BY <1>1, <1>2, TwoBytes DEF SpiData, SpiNumbers
<1>5. SpiBytes'
  BY <1>1, <1>3, OctetSequences DEF SpiData, SpiBytes
<1>6. ProbeAnswers'
  BY <1>1 DEF SpiData, ProbeAnswers
<1> QED BY <1>4, <1>5, <1>6 DEF SpiData

LEMMA SendData == SpiData /\ SpiWhole /\ Send => SpiData'
<1> SUFFICES ASSUME SpiData, SpiWhole, Send PROVE SpiData'
  OBVIOUS
<1>1. /\ UNCHANGED <<step, polls, hrsl, mode, got, ignore, shift, rxdata, rrdy, chip, osc, level, sampled, heard, told>>
      /\ spi_pc = "poll" /\ txdata = <<>> /\ credits > 0 /\ stage' = stage /\ spi_pc' # "call"
  BY DEF Send, access, spiChip, SpiWhole
<1>2. step \in Accesses /\ \E r \in {0, 1} : Taken(r) /\ (Quiet(r) \/ Moving(r) \/ Come(r))
  BY <1>1 DEF SpiInv, SpiWhole
<1>3. PICK r \in {0, 1} : Quiet(r)
  BY <1>1, <1>2 DEF Moving, Come
<1>4. credits = 1 /\ tosend = Behind(r)
  BY <1>3 DEF Quiet
<1>5. Behind(r) # <<>> /\ Head(Behind(r)) = Nth(r) /\ Tail(Behind(r)) = Behind(r + 1)
  BY <1>3, ShortSequences DEF Behind, Nth
<1>6. txdata' = <<Nth(r)>> /\ tosend' = Behind(r + 1) /\ credits' = 0
  BY <1>4, <1>5 DEF Send
<1>7. txdata' \in Seq(Octet) /\ tosend' \in Seq(Octet)
  BY <1>2, <1>3, <1>6, ScriptBytes DEF SpiData, SpiNumbers
<1>8. SpiNumbers'
  BY <1>1, <1>6 DEF SpiData, SpiNumbers
<1>9. SpiBytes'
  BY <1>1, <1>7 DEF SpiData, SpiBytes
<1>10. ProbeAnswers'
  BY <1>1 DEF SpiData, ProbeAnswers
<1> QED BY <1>8, <1>9, <1>10 DEF SpiData

LEMMA ReceiveData == SpiData /\ SpiWhole /\ Receive => SpiData'
<1> SUFFICES ASSUME SpiData, SpiWhole, Receive PROVE SpiData'
  OBVIOUS
<1>1. /\ UNCHANGED <<step, polls, hrsl, mode, tosend, txdata, shift, rxdata, chip, osc, level, sampled, heard, told>>
      /\ spi_pc = "receive" /\ rrdy' = FALSE /\ credits' = credits + 1 /\ stage' = stage
      /\ (ignore > 0 /\ ignore' = ignore - 1 /\ got' = got)
         \/ (got' = Append(got, rxdata) /\ ignore' = ignore)
  BY DEF Receive, access, spiChip, SpiWhole
<1>2. credits = 0
  BY <1>1 DEF SpiInv, SpiWhole, Come
<1>3. SpiNumbers'
  <2>1. ignore' \in 0..2
    BY <1>1 DEF SpiData, SpiNumbers
  <2> QED BY <1>1, <1>2, <2>1 DEF SpiData, SpiNumbers
<1>4. SpiBytes'
  BY <1>1, OctetSequences DEF SpiData, SpiBytes
<1>5. ProbeAnswers'
  BY <1>1 DEF SpiData, ProbeAnswers
<1> QED BY <1>3, <1>4, <1>5 DEF SpiData

\* The answer of the probe is what the lines show.
LEMMA EndsData == SpiData /\ SpiWhole /\ AccessEnds => SpiData'
<1> SUFFICES ASSUME SpiData, SpiWhole, AccessEnds PROVE SpiData'
  OBVIOUS
<1>1. /\ UNCHANGED <<credits, tosend, txdata, shift, rxdata, rrdy, chip, osc, level, sampled, heard, told>>
      /\ spi_pc = "return" /\ spi_pc' = "call" /\ got' = <<>> /\ ignore' = 0 /\ stage' = stage
  BY DEF AccessEnds, spiCore, spiChip, SpiWhole
<1>2. Ended /\ step \in Accesses /\ stage = "chip"
  BY <1>1 DEF SpiInv, SpiWhole
<1>3. mode' \in {0, 201, 203, 209}
  BY DEF AccessEnds, SpiData, SpiNumbers
<1>4. polls' \in Nat /\ polls' <= MaxPolls /\ (step' # "failed" => polls' < MaxPolls)
  <2>1. polls \in Nat /\ polls < MaxPolls /\ MaxPolls \in Nat \ {0}
    BY <1>2, SpiAssumption DEF SpiData, SpiNumbers, Accesses, Waits
  <2>2. CASE step # "osc"
    <3>1. polls' = polls
      BY <2>2 DEF AccessEnds
    <3> QED BY <2>1, <3>1
  <2>3. CASE step = "osc"
    <3>1. \/ step' = "host" /\ polls' = 0
          \/ polls' = polls + 1 /\ step' = IF polls' = MaxPolls THEN "failed" ELSE "osc"
      BY <2>3 DEF AccessEnds, Straight
    <3> QED BY <2>1, <3>1
  <2> QED BY <2>2, <2>3
<1>5. hrsl' \in Levels \cup {0}
  <2>1. CASE step # "probe"
    <3>1. hrsl' = hrsl
      BY <2>1 DEF AccessEnds
    <3> QED BY <3>1 DEF SpiData, ProbeAnswers
  <2>2. CASE step = "probe"
    <3>1. Reads
      BY <1>2, <2>2, AccessBytes DEF SpiData, SpiNumbers
    <3>2. got = <<told[2]>> /\ told = <<told[1], told[2]>>
      BY <1>2, <3>1 DEF Ended, Taken, Told
    <3>3. got[1] = told[2] /\ Len(told) = 2
      BY <3>2, ShortSequences
    <3>4. hrsl' = got[1]
      BY <2>2 DEF AccessEnds, Straight
    <3> QED BY <1>1, <1>2, <2>2, <3>3, <3>4 DEF SpiData, ProbeAnswers
  <2> QED BY <2>1, <2>2
<1>6. SpiNumbers'
  BY <1>1, <1>3, <1>4 DEF SpiData, SpiNumbers
<1>7. SpiBytes'
  BY <1>1, OctetSequences DEF SpiData, SpiBytes
<1>8. ProbeAnswers'
  BY <1>1, <1>5 DEF SpiData, ProbeAnswers
<1> QED BY <1>6, <1>7, <1>8 DEF SpiData

LEMMA ShiftData == SpiData /\ SpiWhole /\ ShiftByte => SpiData'
<1> SUFFICES ASSUME SpiData, SpiWhole, ShiftByte PROVE SpiData'
  OBVIOUS
<1>1. /\ UNCHANGED <<step, polls, hrsl, mode, spi_pc, credits, got, tosend, ignore, txdata, osc, level, sampled>>
      /\ shift # <<>> /\ shift' = <<>> /\ rrdy' = TRUE /\ stage' = stage
      /\ heard' = Append(heard, shift[1])
  BY DEF ShiftByte, access, command, SpiWhole
<1>2. spi_pc = "poll"
  BY <1>1 DEF SpiWhole, SpiInv, Idle, Come, Ended, Places
<1>3. step \in Accesses /\ stage = "chip"
  BY <1>2 DEF SpiWhole, SpiInv
<1>4. PICK r \in {0, 1} : Moving(r)
  BY <1>1, <1>2 DEF SpiWhole, SpiInv, Quiet, Come, Idle
<1>5. /\ shift = <<Nth(r)>> /\ heard = Before(r) /\ Told(r)
  BY <1>1, <1>4 DEF Moving
<1>6. shift[1] = Nth(r) /\ Nth(r) \in Octet
  <2>1. Nth(r) \in Octet
    BY <1>3, AccessBytes DEF Nth, SpiData, SpiNumbers
  <2>2. shift[1] = Nth(r)
    BY <1>5, ShortSequences, Zenon
  <2> QED BY <2>1, <2>2
<1>7. CASE r = 0
  <2>1. heard = <<>> /\ told = <<>>
    BY <1>5, <1>7 DEF Before, Told
  <2>2. PICK a \in Stale : rxdata' = a /\ told' = Append(told, a)
    BY <2>1 DEF ShiftByte
  <2>3. chip' = chip
    BY <2>1 DEF ShiftByte
  <2>4. a \in Octet
    BY <2>2, SpiAssumption DEF Octet
  <2>5. told' = <<a>>
    BY <2>1, <2>2, ShortSequences
  <2>6. SpiBytes'
    BY <1>1, <1>6, <2>2, <2>3, <2>4, OctetSequences DEF SpiData, SpiBytes
  <2>7. Len(told') # 2
    BY <2>5, ShortSequences
  <2> QED BY <1>1, <2>6, <2>7 DEF SpiData, SpiNumbers, ProbeAnswers
<1>8. CASE r = 1
  <2>1. heard = <<First>> /\ told = <<told[1]>>
    BY <1>5, <1>8 DEF Before, Told
  <2>2. heard # <<>> /\ heard[1] = First
    BY <2>1, ShortSequences, Zenon
  <2>3. Has(First, 2) <=> ~Reads
    BY <1>3, AccessBytes DEF SpiData, SpiNumbers
  <2>4. /\ rxdata' = (IF Reads THEN Value(First) ELSE 0) /\ told' = Append(told, rxdata')
        /\ chip' = IF Reads THEN chip ELSE [chip EXCEPT ![First - 2] = shift[1]]
    BY <2>2, <2>3, Zenon DEF ShiftByte
  <2>5. rxdata' \in Octet
    <3>1. CASE Reads
      <4>1. First \in {rUSBIRQ, rHCTL, rHRSL, rMODE}
        BY <1>3, <3>1, AccessBytes DEF SpiData, SpiNumbers
      <4>2. level \in Octet
        <5>1. level \in {0, 64, 128, 192}
          BY <1>3, SpiAssumption DEF SpiData, ProbeAnswers
        <5> QED BY <5>1, SMT DEF Octet
      <4>3. chip[rMODE] \in Octet
        BY DEF SpiData, SpiBytes, ChipReg
      <4>4. 0 \in Octet /\ 1 \in Octet /\ 4 \in Octet
        BY SMT DEF Octet
      <4>5. Value(First) \in Octet
        BY <4>1, <4>2, <4>3, <4>4 DEF Value, rUSBIRQ, rHCTL, rHRSL, rMODE
      <4> QED BY <2>4, <3>1, <4>5
    <3>2. CASE ~Reads
      <4>1. 0 \in Octet
        BY SMT DEF Octet
      <4> QED BY <2>4, <3>2, <4>1
    <3> QED BY <3>1, <3>2
  <2>6. chip' \in [ChipReg -> Octet]
    BY <1>6, <2>4 DEF SpiData, SpiBytes
  <2>7. SpiBytes'
    BY <1>1, <1>6, <2>4, <2>5, <2>6, OctetSequences DEF SpiData, SpiBytes
  <2>8. told' = <<told[1], rxdata'>>
    <3>1. Append(<<told[1]>>, rxdata') = <<told[1], rxdata'>>
      BY ShortSequences, Zenon
    <3> QED BY <2>1, <2>4, <3>1, Zenon
  <2>9. step = "probe" => told'[2] = level
    <3> SUFFICES ASSUME step = "probe" PROVE told'[2] = level
      OBVIOUS
    <3>1. Reads /\ First = rHRSL
      BY <1>3, AccessBytes DEF SpiData, SpiNumbers
    <3>2. Value(rHRSL) = level
      <4>1. rHRSL # rUSBIRQ /\ rHRSL # rHCTL
        BY SMT DEF rHRSL, rUSBIRQ, rHCTL
      <4> QED BY <4>1, Zenon DEF Value
    <3>3. rxdata' = level
      BY <2>4, <3>1, <3>2
    <3> QED BY <2>8, <3>3, ShortSequences
  <2>10. ProbeAnswers'
    BY <1>1, <2>9 DEF SpiData, ProbeAnswers
  <2>11. SpiNumbers'
    BY <1>1 DEF SpiData, SpiNumbers
  <2> QED BY <2>7, <2>10, <2>11 DEF SpiData
<1> QED BY <1>4, <1>7, <1>8

LEMMA StepData == SpiData /\ SpiWhole /\ SpiNext => SpiData'
<1> SUFFICES ASSUME SpiData, SpiWhole, SpiNext PROVE SpiData'
  OBVIOUS
<1>1. CASE Discard \/ OnlyReceive
  <2>1. /\ UNCHANGED <<step, polls, hrsl, mode, credits, got, tosend, ignore, txdata, shift, rxdata,
                       chip, osc, level, sampled, heard, told>>
        /\ rrdy' \in BOOLEAN /\ spi_pc # "call" /\ stage' = stage
    BY <1>1 DEF Discard, Discarded, OnlyReceive, access, spiCore, spiChip, SpiWhole, SpiData, SpiBytes
  <2> QED BY <2>1 DEF SpiData, SpiNumbers, SpiBytes, ProbeAnswers
<1>2. CASE Drain
  <2>1. /\ UNCHANGED <<step, polls, hrsl, mode, got, ignore, txdata, shift, rxdata, rrdy,
                       chip, osc, level, sampled, heard, told>>
        /\ credits' = 0 /\ tosend' = <<>> /\ spi_pc = "drain" /\ stage' = stage
    BY <1>2 DEF Drain, access, spiCore, spiChip, SpiWhole
  <2> QED BY <2>1, OctetSequences DEF SpiData, SpiNumbers, SpiBytes, ProbeAnswers
<1>3. CASE Load
  <2>1. /\ UNCHANGED <<step, polls, hrsl, mode, spi_pc, credits, got, tosend, ignore, rxdata, rrdy,
                       chip, osc, level, sampled, heard, told>>
        /\ shift' = txdata /\ txdata' = <<>> /\ stage' = stage
    BY <1>3 DEF Load, access, command, spiChip, SpiWhole
  <2> QED BY <2>1, OctetSequences DEF SpiData, SpiNumbers, SpiBytes, ProbeAnswers
<1>4. CASE OscillatorStarts \/ BusSampled
  <2>1. /\ UNCHANGED <<step, polls, hrsl, mode, spi_pc, credits, got, tosend, ignore, txdata, shift,
                       rxdata, rrdy, chip, level, heard, told>>
        /\ osc' \in BOOLEAN /\ sampled' \in BOOLEAN /\ stage' = stage
    BY <1>4 DEF OscillatorStarts, BusSampled, access, command, spiCore, SpiWhole, SpiData, SpiBytes
  <2> QED BY <2>1 DEF SpiData, SpiNumbers, SpiBytes, ProbeAnswers
<1> QED BY <1>1, <1>2, <1>3, <1>4, BeginData, SendData, ReceiveData, EndsData, ShiftData
        DEF SpiNext, SpiDriver, SpiCoreStep

LEMMA SpiDataAlways == StartSpec => []SpiData
<1> USE SpiAssumption
<1>1. Stale \subseteq Octet /\ (CHOOSE b \in Stale : TRUE) \in Octet /\ 0 \in Octet
  <2>1. (CHOOSE b \in Stale : TRUE) \in Stale /\ Stale \subseteq Octet
    BY DEF Octet
  <2>2. 0 \in Octet
    BY SMT DEF Octet
  <2> QED BY <2>1, <2>2
<1>2. StartInit => SpiData
  <2> SUFFICES ASSUME SpiOff, stage = "codec" PROVE SpiData
    BY DEF StartInit
  <2>1. SpiNumbers
    BY SMT DEF SpiOff, SpiInit, SpiNumbers
  <2>2. SpiBytes
    BY <1>1, OctetSequences DEF SpiOff, SpiInit, SpiBytes
  <2>3. ProbeAnswers
    BY DEF SpiOff, SpiInit, ProbeAnswers
  <2> QED BY <2>1, <2>2, <2>3 DEF SpiData
<1>3. SpiInv /\ SpiData /\ [StartNext]_startVars => SpiData'
  <2> SUFFICES ASSUME SpiInv, SpiData, [StartNext]_startVars PROVE SpiData'
    OBVIOUS
  <2>1. CASE SetUpChip
    BY <2>1, StepData DEF SetUpChip, InChip, SpiWhole
  <2>2. CASE SetUpCodec \/ RunUsb \/ UNCHANGED startVars
    <3>1. UNCHANGED <<spiVars, stage>>
      BY <2>2 DEF SetUpCodec, InCodec, RunUsb, InUsb, startVars
    <3>2. UNCHANGED <<step, polls, hrsl, mode, spi_pc, credits, got, tosend, ignore, txdata, shift,
                      rxdata, rrdy, chip, osc, level, sampled, heard, told, stage>>
      BY <3>1 DEF spiVars, access, command, spiCore, spiChip
    <3> QED BY <3>2 DEF SpiData, SpiNumbers, SpiBytes, ProbeAnswers
  <2>3. CASE StartChip
    <3>1. /\ UNCHANGED <<step, polls, hrsl, mode, spi_pc, credits, got, tosend, ignore, txdata, shift,
                         chip, osc, sampled, heard, told>>
          /\ rxdata' \in Stale /\ rrdy' \in BOOLEAN /\ level' \in Levels
          /\ stage = "codec"
      BY <2>3 DEF StartChip, access, command
    <3>2. spi_pc = "call"
      BY <3>1 DEF SpiInv
    <3> QED BY <1>1, <3>1, <3>2 DEF SpiData, SpiNumbers, SpiBytes, ProbeAnswers
  <2>4. CASE StartUsb \/ Halt
    <3>1. /\ ForgetSpi /\ stage' # "chip"
      BY <2>4 DEF StartUsb, Halt
    <3>2. UNCHANGED <<spi_pc, credits, got, tosend, ignore, txdata, shift>>
      BY <3>1 DEF ForgetSpi, command
    <3>3. SpiNumbers'
      BY <3>1, <3>2 DEF SpiData, SpiNumbers, ForgetSpi
    <3>4. SpiBytes'
      BY <1>1, <3>1, <3>2, OctetSequences DEF SpiData, SpiBytes, ForgetSpi
    <3>5. ProbeAnswers'
      BY <3>1, <3>2 DEF SpiData, ProbeAnswers, ForgetSpi
    <3> QED BY <3>3, <3>4, <3>5 DEF SpiData
  <2> QED BY <2>1, <2>2, <2>3, <2>4 DEF StartNext
<1> QED BY <1>2, <1>3, SpiAlways, PTL DEF StartSpec

LEMMA SpiTypes == SpiInv /\ SpiData => SpiTypeOK
<1> SUFFICES ASSUME SpiInv, SpiData PROVE SpiTypeOK
  OBVIOUS
<1>1. step \in DOMAIN Straight \cup {"osc", "sampled", "probe", "speed", "ready", "failed"}
  BY DEF SpiInv, Accesses, Waits, Straight
<1>2. polls \in 0..MaxPolls /\ credits \in -1024..1
  BY SpiAssumption, SMT DEF SpiData, SpiNumbers
<1> QED BY <1>1, <1>2 DEF SpiTypeOK, SpiInv, Places, SpiData, SpiNumbers, SpiBytes, ProbeAnswers, Octet

-----------------------------------------------------------------------------
(***************************************************************************)
(* What the types of the codec's driver and core need besides I2cInv: the  *)
(* core has received no more bytes than commands that ask for one are      *)
(* gone, also when the driver has given the attempt up.                    *)
(***************************************************************************)
I2cStatus == {"SUCCESS", "TIMEOUT", "NACK_ERR", "ARB_LOST_ERR", "BUSY"}

Asked == IF Gone <= 4 THEN 0 ELSE Gone - 4

FewReceived == i2c_pc \in Active => Len(rx) <= Asked

Mishaps == mishaps["nack"] + mishaps["arblost"] + mishaps["stuck"]

I2cData ==
  /\ buffer \in Seq(Byte) /\ filled \in 0..2 /\ status \in I2cStatus
  /\ Len(cmds) <= FIFO_DEPTH /\ FewReceived /\ Mishaps <= MaxBusFaults

\* Each action touches little of it.
Steady == UNCHANGED <<at, cmds, rx, todo, receiving>> /\ (i2c_pc' \in Active => i2c_pc \in Active)

LEMMA SteadyReceived == FewReceived /\ Steady => FewReceived'
<1> SUFFICES ASSUME FewReceived, Steady PROVE FewReceived'
  OBVIOUS
<1>1. NextCall' = NextCall
  BY CallStays DEF Steady
<1>2. Gone' = Gone
  BY <1>1 DEF Steady, Gone, Pushed, ScriptEnd
<1> QED BY <1>2 DEF Steady, FewReceived, Asked

LEMMA BufferNext ==
  ASSUME I2cInv', I2cData, [I2cNext]_i2cVars PROVE buffer' \in Seq(Byte)
<1>1. CASE i2c_pc' # "call"
  BY <1>1 DEF I2cInv, BufferIs
<1>2. CASE i2c_pc' = "call"
  <2>1. buffer' = buffer
    <3>1. CASE UNCHANGED i2cVars
      BY <3>1 DEF i2cVars, client
    <3>2. CASE EndCall
      BY <3>2 DEF EndCall
    <3>3. CASE CoreStep \/ \E f \in Fault : CoreFault(f)
      BY <3>3 DEF CoreStep, CoreFault, client
    <3>4. CASE BeginCall \/ Attempt \/ Push \/ PushTimeout \/ ReadTimeout \/ ReadDone \/ Read
      BY <1>2, <3>4 DEF BeginCall, Attempt, Push, PushTimeout, ReadTimeout, ReadDone, Read, client
    <3>5. CASE Check \/ Finish
      BY <1>2, <3>5 DEF Check, Finish, Continue, client
    <3> QED BY <3>1, <3>2, <3>3, <3>4, <3>5 DEF I2cNext, Driver
  <2> QED BY <2>1 DEF I2cData
<1> QED BY <1>1, <1>2

LEMMA StatusNext ==
  ASSUME I2cInv, I2cData, [I2cNext]_i2cVars PROVE status' \in I2cStatus
<1>1. CASE UNCHANGED status
  BY <1>1 DEF I2cData
<1>2. CASE Attempt \/ PushTimeout \/ ReadTimeout
  BY <1>2 DEF Attempt, PushTimeout, ReadTimeout, I2cStatus, I2cData
<1>3. CASE Check
  BY <1>3 DEF Check, Checked, I2cStatus
<1>4. CASE Finish
  BY <1>4 DEF Finish, LateNack, I2cStatus, I2cData
<1>5. CASE BeginCall \/ EndCall \/ Push \/ Read \/ ReadDone
  BY <1>1, <1>5 DEF BeginCall, EndCall, Push, Read, ReadDone
<1>6. CASE CoreStep \/ (\E f \in Fault : CoreFault(f)) \/ UNCHANGED i2cVars
  BY <1>1, <1>6 DEF CoreStep, CoreFault, flow, i2cVars
<1> QED BY <1>2, <1>3, <1>4, <1>5, <1>6 DEF I2cNext, Driver

\* The driver pushes a command only when the FIFO has room.
LEMMA CmdsNext ==
  ASSUME I2cInv, I2cData, [I2cNext]_i2cVars PROVE Len(cmds') <= FIFO_DEPTH
<1>1. cmds \in Seq(Commands) /\ FIFO_DEPTH \in Nat /\ Len(<<>>) = 0
  BY I2cAssumption DEF I2cInv, I2cTypes
<1> HIDE DEF Commands
<1>2. CASE UNCHANGED cmds
  BY <1>2 DEF I2cData
<1>3. CASE Push
  <2>1. Len(cmds) < FIFO_DEPTH /\ cmds' = Append(cmds, Head(todo))
    BY <1>3 DEF Push
  <2>2. Len(cmds') = Len(cmds) + 1 /\ Len(cmds) \in Nat
    BY <1>1, <2>1
  <2> QED BY <1>1, <2>1, <2>2
<1>4. CASE Finish
  BY <1>1, <1>4, I2cAssumption DEF Finish, Disable
<1>5. CASE CoreStep
  <2>1. cmds # <<>> /\ cmds' = Tail(cmds)
    BY <1>5 DEF CoreStep
  <2>2. Len(cmds') <= Len(cmds) /\ Len(cmds) \in Nat /\ Len(cmds') \in Nat
    BY <1>1, <2>1
  <2> QED BY <1>1, <2>2 DEF I2cData
<1>6. CASE \E f \in Fault : CoreFault(f)
  <2>1. cmds' = cmds \/ cmds' = <<>>
    BY <1>6 DEF CoreFault
  <2> QED BY <1>1, <1>2, <2>1
<1>7. CASE BeginCall \/ EndCall \/ Attempt \/ PushTimeout \/ Check
  BY <1>2, <1>7 DEF BeginCall, EndCall, Attempt, PushTimeout, Check, core
<1>8. CASE Read \/ ReadTimeout \/ ReadDone \/ UNCHANGED i2cVars
  BY <1>2, <1>8 DEF Read, ReadTimeout, ReadDone, core, i2cVars
<1> QED BY <1>3, <1>4, <1>5, <1>6, <1>7, <1>8 DEF I2cNext, Driver

\* A byte goes into the buffer only while it has room.
LEMMA FilledNext ==
  ASSUME I2cInv, I2cData, [I2cNext]_i2cVars PROVE filled' \in 0..2
<1>1. filled \in 0..2 /\ rx \in Seq(Byte)
  BY DEF I2cData, I2cInv, I2cTypes
<1>2. CASE UNCHANGED filled
  BY <1>1, <1>2
<1>3. CASE filled' = 0
  BY <1>3
<1>4. ASSUME i2c_pc = "read", filled < Len(buffer), filled' = filled + 1 PROVE filled' \in 0..2
  <2>1. i2c_pc \in Active /\ receiving
    BY <1>4 DEF Active, I2cInv, StatusIs
  <2>2. NextCall.op = "rd"
    BY <2>1, PlaceFacts
  <2>3. Len(buffer) = 2
    BY <1>4, <2>2 DEF I2cInv, BufferIs
  <2> QED BY <1>1, <1>4, <2>3
<1>5. CASE Read
  <2>1. filled' = filled + 1
    BY <1>5 DEF Read, Fill
  <2> QED BY <1>4, <1>5, <2>1 DEF Read
<1>6. CASE ReadTimeout
  <2>1. filled' = filled + 1
    BY <1>6 DEF ReadTimeout, Fill
  <2> QED BY <1>4, <1>6, <2>1 DEF ReadTimeout
<1>7. CASE Check
  <2>1. \/ filled' = filled \/ filled' = 0
        \/ receiving /\ filled' = filled + Len(rx)
    BY <1>7 DEF Check, Continue, Fill
  <2>2. CASE receiving /\ filled' = filled + Len(rx)
    <3>1. i2c_pc \in Active /\ Hopeful
      BY <1>7 DEF Check, Active, Hopeful
    <3>2. filled + Len(rx) <= 2
      BY <2>2, <3>1 DEF I2cInv, Received
    <3>3. Len(rx) \in Nat
      BY <1>1
    <3> QED BY <1>1, <2>2, <3>2, <3>3
  <2> QED BY <1>2, <1>3, <2>1, <2>2
<1>8. CASE Finish
  <2>1. filled' = filled \/ filled' = 0
    BY <1>8 DEF Finish, Continue
  <2> QED BY <1>2, <1>3, <2>1
<1>9. CASE BeginCall \/ EndCall \/ Attempt \/ PushTimeout \/ Push \/ ReadDone
  BY <1>2, <1>9 DEF BeginCall, EndCall, Attempt, PushTimeout, Push, ReadDone
<1>10. CASE CoreStep \/ (\E f \in Fault : CoreFault(f)) \/ UNCHANGED i2cVars
  BY <1>2, <1>10 DEF CoreStep, CoreFault, flow, i2cVars
<1> QED BY <1>5, <1>6, <1>7, <1>8, <1>9, <1>10 DEF I2cNext, Driver

\* No fault happens beyond the bound.
LEMMA MishapsNext ==
  ASSUME I2cInv, I2cData, [I2cNext]_i2cVars PROVE Mishaps' <= MaxBusFaults
<1>1. CASE UNCHANGED mishaps
  BY <1>1 DEF I2cData, Mishaps
<1>2. ASSUME NEW f \in Fault, CoreFault(f) PROVE Mishaps' <= MaxBusFaults
  <2>1. mishaps' = [mishaps EXCEPT ![f] = @ + 1] /\ Mishaps < MaxBusFaults
    BY <1>2 DEF CoreFault, Mishaps
  <2>2. mishaps \in [Fault -> Nat]
    BY DEF I2cInv, I2cTypes
  <2>3. /\ mishaps["nack"] \in Nat /\ mishaps["arblost"] \in Nat /\ mishaps["stuck"] \in Nat
        /\ \A g \in Fault : mishaps'[g] = IF g = f THEN mishaps[g] + 1 ELSE mishaps[g]
    BY <2>1, <2>2 DEF Fault
  <2>4. Mishaps' = Mishaps + 1
    BY <2>3 DEF Mishaps, Fault
  <2>5. MaxBusFaults \in Nat /\ Mishaps \in Nat
    BY <2>3, I2cAssumption DEF Mishaps
  <2> QED BY <2>1, <2>4, <2>5
<1>3. CASE BeginCall \/ EndCall \/ Attempt \/ PushTimeout \/ Push \/ ReadDone
  BY <1>1, <1>3 DEF BeginCall, EndCall, Attempt, PushTimeout, Push, ReadDone, core
<1>4. CASE Check \/ Read \/ ReadTimeout \/ Finish
  BY <1>1, <1>4 DEF Check, Read, ReadTimeout, Finish, core
<1>5. CASE CoreStep \/ UNCHANGED i2cVars
  BY <1>1, <1>5 DEF CoreStep, i2cVars, core
<1> QED BY <1>2, <1>3, <1>4, <1>5 DEF I2cNext, Driver

LEMMA ReceivedNext ==
  ASSUME I2cInv, I2cInv', I2cData, [I2cNext]_i2cVars PROVE FewReceived'
<1>1. rx \in Seq(Byte) /\ rx' \in Seq(Byte)
  BY DEF I2cInv, I2cTypes
<1> HIDE DEF Byte
<1>2. i2c_pc' \in Active => Gone' \in Nat
  <2> SUFFICES ASSUME i2c_pc' \in Active PROVE Gone' \in Nat
    OBVIOUS
  <2>1. todo' \in Seq(Commands) /\ cmds' \in Seq(Commands)
    BY DEF I2cInv, I2cTypes
  <2>2. Len(todo') \in Nat /\ Len(cmds') \in Nat
    <3> HIDE DEF Commands
    <3> QED BY <2>1
  <2>3. ScriptEnd' \in {3, 5, 6}
    BY DEF ScriptEnd, Total
  <2>4. Len(todo') <= ScriptEnd' /\ Len(cmds') <= Pushed'
    BY DEF I2cInv, Queues
  <2> QED BY <2>2, <2>3, <2>4 DEF Pushed, Gone
<1>3. CASE rx' = <<>>
  BY <1>2, <1>3 DEF FewReceived, Asked
<1>4. CASE i2c_pc' \notin Active
  BY <1>4 DEF FewReceived
<1>5. CASE Steady
  BY <1>5, SteadyReceived DEF I2cData
<1>6. CASE BeginCall \/ EndCall
  BY <1>4, <1>6 DEF BeginCall, EndCall, Active
<1>7. CASE Attempt \/ Finish
  <2>1. rx' = <<>>
    BY <1>7 DEF Attempt, Finish, Disable, I2cInv, CoreOff, Active
  <2> QED BY <1>3, <2>1
<1>8. CASE PushTimeout \/ ReadTimeout \/ ReadDone \/ UNCHANGED i2cVars
  BY <1>5, <1>8 DEF PushTimeout, ReadTimeout, ReadDone, Steady, Active, i2cVars, client, core, flow
<1>9. ASSUME i2c_pc \in Active, Gone' >= Gone, Len(rx') <= Len(rx) PROVE FewReceived'
  <2>1. Gone \in Nat
    BY <1>9, PlaceFacts
  <2>2. Len(rx) <= Asked /\ Len(rx) \in Nat /\ Len(rx') \in Nat
    BY <1>1, <1>9 DEF I2cData, FewReceived
  <2> QED BY <1>2, <1>9, <2>1, <2>2 DEF FewReceived, Asked
<1>10. CASE Push
  <2>1. i2c_pc \in Active /\ i2c_pc' \in Active /\ todo # <<>>
    BY <1>10 DEF Push, Active, I2cInv, StatusIs
  <2>2. UNCHANGED <<at, receiving, rx>> /\ cmds' = Append(cmds, Head(todo)) /\ todo' = Tail(todo)
    BY <1>10 DEF Push, client
  <2>3. todo \in Seq(Commands) /\ cmds \in Seq(Commands)
    BY DEF I2cInv, I2cTypes
  <2>4. Len(cmds') = Len(cmds) + 1 /\ Len(todo') = Len(todo) - 1
        /\ Len(cmds) \in Nat /\ Len(todo) \in Nat
    <3> HIDE DEF Commands
    <3> QED BY <2>1, <2>2, <2>3
  <2>5. ScriptEnd' = ScriptEnd /\ ScriptEnd \in {3, 5, 6}
    BY <2>1, <2>2, CallStays, PlaceFacts DEF ScriptEnd
  <2>6. Gone' = Gone /\ Gone \in Nat
    BY <2>1, <2>4, <2>5, PlaceFacts DEF Gone, Pushed
  <2>7. Len(rx') <= Len(rx)
    BY <1>1, <2>2
  <2> QED BY <1>9, <2>1, <2>6, <2>7
<1>11. CASE Read
  <2>1. i2c_pc \in Active /\ UNCHANGED <<at, receiving, cmds, todo>> /\ rx # <<>> /\ rx' = Tail(rx)
    BY <1>11 DEF Read, Active
  <2>2. Gone' = Gone /\ Gone \in Nat
    BY <2>1, CallStays, PlaceFacts DEF Gone, Pushed, ScriptEnd
  <2>3. Len(rx') <= Len(rx)
    BY <1>1, <2>1
  <2> QED BY <1>9, <2>1, <2>2, <2>3
<1>12. CASE Check
  <2>1. i2c_pc \in Active
    BY <1>12 DEF Check, Active
  <2>2. CASE receiving' = receiving /\ todo' = todo
    <3>1. rx' = rx \/ rx' = <<>>
      BY <1>12 DEF Check
    <3>2. CASE rx' = rx
      BY <1>5, <1>12, <2>1, <2>2, <3>2 DEF Check, Steady
    <3> QED BY <1>3, <3>1, <3>2
  <2>3. CASE ~(receiving' = receiving /\ todo' = todo)
    <3>1. ~receiving /\ rx' = rx
      BY <1>12, <2>3 DEF Check
    <3>2. rx' = <<>>
      BY <2>1, <3>1 DEF I2cInv, Received
    <3> QED BY <1>3, <3>2
  <2> QED BY <2>2, <2>3
<1>13. CASE CoreStep
  <2>1. /\ i2c_pc \in Active /\ UNCHANGED <<at, i2c_pc, receiving, todo>>
        /\ cmds # <<>> /\ cmds' = Tail(cmds)
    BY <1>13 DEF CoreStep, client, flow, I2cInv, CoreOff
  <2>2. cmds \in Seq(Commands)
    BY DEF I2cInv, I2cTypes
  <2>3. Len(cmds') = Len(cmds) - 1 /\ Len(cmds) \in Nat
    <3> HIDE DEF Commands
    <3> QED BY <2>1, <2>2
  <2>4. Pushed' = Pushed /\ Pushed \in Nat
    BY <2>1, CallStays, PlaceFacts DEF Pushed, ScriptEnd
  <2>5. Gone' = Gone + 1 /\ Gone \in Nat
    BY <2>1, <2>3, <2>4, PlaceFacts DEF Gone
  <2>6. CASE rx' = rx
    BY <1>1, <1>9, <2>1, <2>5, <2>6
  <2>7. CASE rx' # rx
    <3>1. Gone \in {4, 5} /\ \E x \in Byte : rx' = Append(rx, x)
      BY <1>13, <2>7, CoreEffect
    <3>2. Len(rx') = Len(rx) + 1 /\ Len(rx) \in Nat
      BY <1>1, <3>1
    <3>3. Len(rx) <= Asked
      BY <2>1 DEF I2cData, FewReceived
    <3> QED BY <2>5, <3>1, <3>2, <3>3 DEF FewReceived, Asked
  <2> QED BY <2>6, <2>7
<1>14. ASSUME NEW f \in Fault, CoreFault(f) PROVE FewReceived'
  <2>1. i2c_pc \in Active /\ UNCHANGED <<at, i2c_pc, receiving, todo, rx>>
        /\ (cmds' = cmds \/ cmds' = <<>>)
    BY <1>14 DEF CoreFault, client, flow, I2cInv, CoreOff
  <2>2. Pushed' = Pushed /\ Pushed \in Nat /\ Gone \in Nat /\ Gone <= Pushed
    BY <2>1, CallStays, PlaceFacts DEF Pushed, ScriptEnd
  <2>3. Gone' = Gone \/ Gone' = Pushed
    BY <2>1, <2>2 DEF Gone
  <2>4. Gone' >= Gone /\ Len(rx') <= Len(rx)
    BY <1>1, <2>1, <2>2, <2>3
  <2> QED BY <1>9, <2>1, <2>4
<1> QED BY <1>6, <1>7, <1>8, <1>10, <1>11, <1>12, <1>13, <1>14 DEF I2cNext, Driver

LEMMA I2cDataNext == I2cInv /\ I2cData /\ [I2cNext]_i2cVars => I2cData'
<1> SUFFICES ASSUME I2cInv, I2cData, [I2cNext]_i2cVars PROVE I2cData'
  OBVIOUS
<1>1. I2cInv'
  BY I2cInductive
<1> QED BY <1>1, BufferNext, StatusNext, CmdsNext, FilledNext, MishapsNext, ReceivedNext DEF I2cData

LEMMA InitI2cData == I2cInit => I2cData
<1> SUFFICES ASSUME I2cInit PROVE I2cData
  OBVIOUS
<1>1. Mishaps = 0 /\ MaxBusFaults \in Nat /\ FIFO_DEPTH \in Nat /\ Len(<<>>) = 0
  BY I2cAssumption DEF I2cInit, Mishaps, Fault
<1>2. buffer \in Seq(Byte) /\ filled \in 0..2
  BY DEF I2cInit
<1> QED BY <1>1, <1>2 DEF I2cInit, I2cData, I2cStatus, FewReceived, Active

LEMMA I2cTypesHold == I2cInv /\ I2cData => I2cTypeOK
<1> SUFFICES ASSUME I2cInv, I2cData PROVE I2cTypeOK
  OBVIOUS
<1>1. at \in 1..(Len(Setup) + 1) /\ retry \in 0..RETRIES
  BY SetupFacts, I2cAssumption DEF I2cInv, I2cTypes
<1>2. Len(rx) <= 2
  <2>1. CASE i2c_pc \in Active
    <3>1. Gone \in Nat /\ Gone <= 6
      BY <2>1, PlaceFacts
    <3>2. Len(rx) <= Asked /\ Len(rx) \in Nat
      BY <2>1 DEF I2cData, FewReceived, I2cInv, I2cTypes
    <3> QED BY <3>1, <3>2 DEF Asked
  <2>2. CASE i2c_pc \notin Active
    BY <2>2 DEF I2cInv, CoreOff
  <2> QED BY <2>1, <2>2
<1>3. codec \in [Regs -> Word]
  BY DEF I2cInv, I2cTypes
<1>4. mishaps \in [Fault -> 0..MaxBusFaults]
  <2>1. mishaps \in [Fault -> Nat]
    BY DEF I2cInv, I2cTypes
  <2>2. mishaps["nack"] \in Nat /\ mishaps["arblost"] \in Nat /\ mishaps["stuck"] \in Nat
        /\ MaxBusFaults \in Nat
    BY <2>1, I2cAssumption DEF Fault
  <2>3. mishaps["nack"] \in 0..MaxBusFaults /\ mishaps["arblost"] \in 0..MaxBusFaults
        /\ mishaps["stuck"] \in 0..MaxBusFaults
    BY <2>2 DEF I2cData, Mishaps
  <2>4. \A f \in Fault : mishaps[f] \in 0..MaxBusFaults
    BY <2>3 DEF Fault
  <2> QED BY <2>1, <2>4
<1>5. i2c_pc \in {"call", "attempt", "push", "check", "read", "wait", "return", "hang"}
  BY DEF I2cInv, I2cTypes, I2cPlace, Active
<1>6. {en, nack_det, arblost_det, stuck} \subseteq BOOLEAN
  BY DEF I2cInv, I2cTypes
<1>7. /\ todo \in Seq(Commands) /\ cmds \in Seq(Commands) /\ rx \in Seq(Byte)
      /\ latch \in Seq(Byte) /\ receiving \in BOOLEAN /\ astray \in BOOLEAN
  BY DEF I2cInv, I2cTypes
<1>8. buffer \in Seq(Byte) /\ filled \in 0..2 /\ status \in I2cStatus /\ Len(cmds) <= FIFO_DEPTH
  BY DEF I2cData
<1> QED BY <1>1, <1>2, <1>3, <1>4, <1>5, <1>6, <1>7, <1>8, Zenon DEF I2cTypeOK, I2cStatus

-----------------------------------------------------------------------------
(***************************************************************************)
(* Every stage leaves the variables of the others at values of their types. *)
(***************************************************************************)
CodecTypes == IF stage = "codec" THEN I2cData ELSE I2cTypeOK

LEMMA CodecTypesAlways == StartSpec => []CodecTypes
<1>1. StartInit => CodecTypes
  BY InitI2cData DEF StartInit, CodecTypes
<1>2. CodecStage /\ CodecTypes /\ [StartNext]_startVars => CodecTypes'
  <2> SUFFICES ASSUME CodecStage, CodecTypes, [StartNext]_startVars PROVE CodecTypes'
    OBVIOUS
  <2>1. CASE SetUpCodec
    BY <2>1, I2cDataNext DEF SetUpCodec, InCodec, CodecStage, CodecTypes
  <2>2. CASE StartChip
    <3>1. I2cInv /\ i2c_pc = "call" /\ stage' = "chip" /\ ForgetI2c
      BY <2>2 DEF StartChip, CodecReady, CodecStage
    <3>2. I2cTypeOK'
      <4>1. /\ en' = FALSE /\ cmds' = <<>> /\ rx' = <<>> /\ latch' = <<>> /\ stuck' \in BOOLEAN
        BY <3>1 DEF ForgetI2c, I2cInv, CoreOff, I2cTypes, Active
      <4>2. /\ at' = 1 /\ i2c_pc' = "call" /\ buffer' = <<>> /\ todo' = <<>> /\ filled' = 0
            /\ receiving' = FALSE /\ status' = "SUCCESS" /\ retry' = 0 /\ astray' = FALSE
            /\ codec' = [r \in Regs |-> Unset] /\ mishaps' = [f \in Fault |-> 0]
            /\ nack_det' = FALSE /\ arblost_det' = FALSE
        BY <3>1 DEF ForgetI2c
      <4>3. at' \in 1..(Len(Setup) + 1) /\ retry' \in 0..RETRIES /\ filled' \in 0..2
        BY <4>2, SetupFacts, I2cAssumption
      <4>4. Len(cmds') <= FIFO_DEPTH /\ Len(rx') <= 2
        <5>1. Len(<<>>) = 0 /\ FIFO_DEPTH \in Nat
          BY I2cAssumption
        <5> QED BY <4>1, <5>1
      <4>5. codec' \in [Regs -> Word]
        BY <4>2 DEF Unset, Word
      <4>6. mishaps' \in [Fault -> 0..MaxBusFaults]
        <5>1. 0 \in 0..MaxBusFaults
          BY I2cAssumption
        <5> QED BY <4>2, <5>1
      <4>7. /\ buffer' \in Seq(Byte) /\ todo' \in Seq(Commands) /\ cmds' \in Seq(Commands)
            /\ rx' \in Seq(Byte) /\ latch' \in Seq(Byte)
        BY <4>1, <4>2
      <4>8. receiving' \in BOOLEAN /\ astray' \in BOOLEAN
        BY <4>2
      <4>9. {en', nack_det', arblost_det', stuck'} \subseteq BOOLEAN
        BY <4>1, <4>2
      <4> QED BY <4>2, <4>3, <4>4, <4>5, <4>6, <4>7, <4>8, <4>9, Zenon DEF I2cTypeOK
    <3> QED BY <3>1, <3>2 DEF CodecTypes
  <2>3. CASE SetUpChip \/ StartUsb \/ Halt \/ RunUsb
    <3>1. stage # "codec" /\ stage' # "codec" /\ UNCHANGED i2cVars
      BY <2>3 DEF SetUpChip, InChip, StartUsb, Halt, RunUsb, InUsb
    <3> QED BY <3>1 DEF CodecTypes, I2cTypeOK, i2cVars, client, core, flow
  <2>4. CASE UNCHANGED startVars
    <3>1. stage' = stage /\ UNCHANGED i2cVars
      BY <2>4 DEF startVars
    <3>2. CASE stage = "codec"
      BY <3>1, <3>2, I2cDataNext DEF CodecStage, CodecTypes
    <3>3. CASE stage # "codec"
      BY <3>1, <3>3 DEF CodecTypes, I2cTypeOK, i2cVars, client, core, flow
    <3> QED BY <3>2, <3>3
  <2> QED BY <2>1, <2>2, <2>3, <2>4 DEF StartNext
<1> QED BY <1>1, <1>2, CodecStageAlways, PTL DEF StartSpec

TaskTypes == stage = "usb" => Numbers /\ Bounds

LEMMA TaskTypesAlways == StartSpec => []TaskTypes
<1>1. StartInit => TaskTypes
  BY DEF StartInit, TaskTypes
<1>2. Resting /\ DeviceStage /\ TaskTypes /\ [StartNext]_startVars => TaskTypes'
  <2> SUFFICES ASSUME Resting, DeviceStage, TaskTypes, [StartNext]_startVars, stage' = "usb"
               PROVE  Numbers' /\ Bounds'
    BY DEF TaskTypes
  <2>1. CASE StartUsb
    <3>1. UsbOff
      BY <2>1 DEF StartUsb, Resting
    <3>2. retries' = 0 /\ faults' = 0 /\ epIn' = 0 /\ epOut' = 0
      BY <2>1, <3>1 DEF StartUsb, UsbOff, driver, endpoints
    <3> QED BY <3>2, TaskAssumption DEF Numbers, Bounds
  <2>2. CASE RunUsb \/ UNCHANGED startVars
    <3>1. stage = "usb" /\ [Next]_vars
      BY <2>2 DEF RunUsb, InUsb, startVars
    <3>2. TypesInv
      BY <3>1 DEF DeviceStage, TaskTypes, TypesInv
    <3> QED BY <3>1, <3>2, NumbersNext, BoundsNext DEF TypesInv
  <2>3. CASE SetUpCodec \/ StartChip \/ SetUpChip \/ Halt
    BY <2>3 DEF SetUpCodec, InCodec, StartChip, SetUpChip, InChip, Halt
  <2> QED BY <2>1, <2>2, <2>3 DEF StartNext
<1> QED BY <1>1, <1>2, RestingAlways, DeviceStageAlways, PTL DEF StartSpec

LEMMA RestingTypes == UsbOff => TypeOK
<1> SUFFICES ASSUME UsbOff PROVE TypeOK
  OBVIOUS
<1>1. port \in PortType
  BY TaskAssumption DEF UsbOff
<1>2. dev \in [addr : {0, 1}, conf : 0..255, desc : Devices]
  <2>1. (CHOOSE d \in Devices : TRUE) \in Devices
    BY TaskAssumption
  <2>2. 0 \in 0..255
    BY SMT
  <2> QED BY <2>1, <2>2 DEF UsbOff
<1>3. search \in [vendor : BOOLEAN, i : 1..255, conf : 0..255]
  <2>1. 0 \in 0..255 /\ 1 \in 1..255
    BY SMT
  <2> QED BY <2>1 DEF UsbOff, NoSearch
<1>4. epIn \in 0..15 /\ epOut \in 0..15 /\ retries \in 0..3 /\ faults \in 0..MaxFaults
  BY TaskAssumption DEF UsbOff
<1>5. thePool \in [Entry -> [addr : {0, 1}, ep : {"dev0", "midi"}]]
  BY DEF UsbOff, FreeEntry
<1> QED BY <1>1, <1>2, <1>3, <1>4, <1>5 DEF TypeOK, UsbOff, UsbState, Detached

Stages == stage \in {"codec", "chip", "usb", "halted"}

LEMMA StagesAlways == StartSpec => []Stages
<1>1. StartInit => Stages
  BY DEF StartInit, Stages
<1>2. Stages /\ [StartNext]_startVars => Stages'
  BY DEF Stages, StartNext, startVars, SetUpCodec, InCodec, StartChip, SetUpChip, InChip, StartUsb,
         Halt, RunUsb, InUsb
<1> QED BY <1>1, <1>2, PTL DEF StartSpec

\* Every variable of the program has its type, from reset on and in every
\* stage: the codec's driver never takes a third byte into the two a read
\* asks for and never overruns the command FIFO (altera_avalon_i2c.c:325-455),
\* the SPI driver's credit is never more than one byte nor spent twice
\* (altera_avalon_spi.c:71-118), busprobe finds a state of the lines that the
\* lines can show (usbhost.cpp:222-255), and the host task's retries and its
\* search stay in their bounds (Usb.cpp:277-345, usbh_midi.cpp:157-273).
THEOREM ProgramTypesHold == StartSpec => []StartTypeOK
<1>1. Resting /\ DeviceStage /\ TaskTypes => TypeOK
  <2>1. CASE stage = "usb"
    BY <2>1, TypeFacts DEF DeviceStage, TaskTypes, TypesInv
  <2>2. CASE stage # "usb"
    BY <2>2, RestingTypes DEF Resting
  <2> QED BY <2>1, <2>2
<1>2. CodecStage /\ CodecTypes => I2cTypeOK
  BY I2cTypesHold DEF CodecStage, CodecTypes
<1>3. /\ Resting /\ DeviceStage /\ TaskTypes /\ CodecStage /\ CodecTypes
      /\ SpiInv /\ SpiData /\ Stages
      => StartTypeOK
  BY <1>1, <1>2, SpiTypes DEF StartTypeOK, Stages
<1> QED BY <1>3, RestingAlways, DeviceStageAlways, TaskTypesAlways, CodecStageAlways,
        CodecTypesAlways, SpiAlways, SpiDataAlways, StagesAlways, PTL

\* From reset on, the parser finds in the descriptors of whatever regular device
\* is plugged in what the search is meant to find, wherever a transfer cuts them
\* (usbh_midi.cpp:555-670, after main.cpp:41-51).
THEOREM ProgramReadsDescriptors ==
  ASSUME RegularDevices PROVE StartSpec => []DescriptorsAreRead
<1>1. Resting /\ DeviceStage => dev.desc \in Devices
  <2>1. CASE stage = "usb"
    BY <2>1 DEF DeviceStage, DeviceInv, SearchInv, Dev
  <2>2. CASE stage # "usb"
    <3>1. (CHOOSE d \in Devices : TRUE) \in Devices
      BY TaskAssumption
    <3> QED BY <2>2, <3>1 DEF Resting, UsbOff
  <2> QED BY <2>1, <2>2
<1>2. Resting /\ DeviceStage => DescriptorsAreRead
  BY <1>1, RegularDevices, RegularIsRight DEF RegularDevices, DescriptorsAreRead
<1> QED BY <1>2, RestingAlways, DeviceStageAlways, PTL
=============================================================================

--------------------------- MODULE Console_proofs ---------------------------
(***************************************************************************)
(* Proofs about the console and the system clock, for every size of the    *)
(* buffers and of the tick counter, every period and every print.          *)
(***************************************************************************)
EXTENDS Console, SequenceTheorems, TLAPS

(***************************************************************************)
(* Unsigned arithmetic: one addition or subtraction behind the modulus.    *)
(***************************************************************************)

\* The remainder by m of a number below 2 * m.
LEMMA Reduce ==
  ASSUME NEW m \in Nat \ {0}, NEW x \in 0..2 * m - 1
  PROVE  x % m = IF x < m THEN x ELSE x - m
<1>1. CASE x < m
  BY <1>1, SMT
<1>2. CASE x >= m
  BY <1>2, SMT
<1>3. QED
  BY <1>1, <1>2, SMT

\* The remainder by m of a number from -m.
LEMMA Borrow ==
  ASSUME NEW m \in Nat \ {0}, NEW x \in -m..m - 1
  PROVE  x % m = IF x < 0 THEN x + m ELSE x
<1>1. CASE x < 0
  BY <1>1, SMT
<1>2. CASE x >= 0
  BY <1>2, SMT
<1>3. QED
  BY <1>1, <1>2, SMT

(***************************************************************************)
(* The alarm.                                                              *)
(***************************************************************************)

\* The alarm stands where the next callback is due, and rollover says that
\* the tick counter wraps before it gets there.
AlarmPlace ==
  time + (IF rollover THEN TickMod ELSE 0) = nticks + Period - quiet

AlarmInv == AlarmTypeOK /\ AlarmPlace

\* alt_alarm_start puts the alarm in its place (alt_alarm_start.c:64-102).
LEMMA AlarmStarts ==
  ASSUME NEW now \in 0..TickMod - 1, AlarmStart(now)
  PROVE  AlarmInv
<1> DEFINE first == Period + now + 1
<1>1. first \in 0..2 * TickMod - 1
  BY AlarmAssumption, SMT
<1>2. first % TickMod = IF first < TickMod THEN first ELSE first - TickMod
  <2>1. TickMod \in Nat \ {0}
    BY AlarmAssumption, Zenon
  <2>2. QED
    BY <1>1, <2>1, Reduce, Zenon
<1>3. /\ nticks = now /\ quiet = -1
      /\ time = first % TickMod
      /\ rollover = (first % TickMod < now)
  BY Zenon DEF AlarmStart
<1>4. first % TickMod < now <=> first >= TickMod
  BY <1>2, AlarmAssumption, SMT
<1>5. rollover \in BOOLEAN /\ (rollover <=> first >= TickMod)
  <2>1. (first % TickMod < now) \in BOOLEAN
    BY SMT
  <2>2. QED
    BY <1>3, <1>4, <2>1, Zenon
<1>6. QED
  BY <1>2, <1>3, <1>5, AlarmAssumption, SMT
     DEF AlarmInv, AlarmTypeOK, AlarmPlace

\* alt_tick keeps it there, and calls back exactly when Period ticks have
\* passed (alt_tick.c:87-148).
LEMMA AlarmTicks ==
  ASSUME AlarmInv, Tick
  PROVE  AlarmInv' /\ (Fires <=> quiet + 1 = Period)
<1> USE AlarmAssumption DEF AlarmInv, AlarmTypeOK, AlarmPlace
<1>1. NextTick = IF nticks + 1 = TickMod THEN 0 ELSE nticks + 1
  <2>1. nticks + 1 \in 0..2 * TickMod - 1
    BY SMT
  <2>2. NextTick = IF nticks + 1 < TickMod THEN nticks + 1 ELSE (nticks + 1) - TickMod
    BY <2>1, Reduce, Zenon DEF NextTick
  <2>3. QED
    BY <2>2, SMT
<1>2. Fires <=> quiet + 1 = Period
  BY <1>1, SMT DEF Fires, StillRolled
<1>3. CASE Fires
  <2>1. time = NextTick /\ ~StillRolled
    BY <1>1, <1>2, <1>3, SMT DEF Fires, StillRolled
  <2>2. time' = IF time + Period < TickMod THEN time + Period ELSE (time + Period) - TickMod
    <3>1. time + Period \in 0..2 * TickMod - 1
      BY SMT
    <3>2. QED
      BY <1>3, <3>1, Reduce, Zenon DEF Tick
  <2>3. rollover' \in BOOLEAN /\ (rollover' <=> time' < NextTick)
    <3>1. (time' < NextTick) \in BOOLEAN
      BY SMT
    <3>2. QED
      BY <1>3, <3>1, Zenon DEF Tick, Rolls
  <2>4. nticks' = NextTick /\ quiet' = 0
    BY <1>3 DEF Tick
  <2>5. QED
    BY <1>1, <1>2, <2>1, <2>2, <2>3, <2>4, SMT
<1>4. CASE ~Fires
  <2>1. UNCHANGED time /\ quiet' = quiet + 1 /\ nticks' = NextTick
    BY <1>4 DEF Tick
  <2>2. rollover' \in BOOLEAN /\ (rollover' <=> rollover /\ NextTick # 0)
    BY <1>4, Zenon DEF Tick, StillRolled
  <2>3. quiet + 1 # Period
    BY <1>2, <1>4
  <2>4. QED
    BY <1>1, <1>2, <2>1, <2>2, <2>3, SMT
<1>5. QED
  BY <1>3, <1>4

(***************************************************************************)
(* The ring.                                                               *)
(***************************************************************************)

\* The sizes of the buffers.
LEMMA Sizes == BUF_LEN \in Nat \ {0} /\ Numbers \in Nat \ {0} /\ WriteDepth \in Nat
  BY ConsoleAssumption, SMT

\* An index moves on by at most the length of the ring.
LEMMA WrapUp ==
  ASSUME NEW i \in 0..BUF_LEN - 1, NEW k \in 0..BUF_LEN
  PROVE  /\ Wrap(i + k) = IF i + k < BUF_LEN THEN i + k ELSE (i + k) - BUF_LEN
         /\ Wrap(i + k) \in 0..BUF_LEN - 1
<1>1. i + k \in 0..2 * BUF_LEN - 1
  BY Sizes, SMT
<1>2. Wrap(i + k) = IF i + k < BUF_LEN THEN i + k ELSE (i + k) - BUF_LEN
  BY <1>1, Sizes, Reduce, Zenon DEF Wrap
<1>3. QED
  BY <1>2, Sizes, SMT

\* The characters between two indices.
LEMMA WrapDown ==
  ASSUME NEW i \in 0..BUF_LEN - 1, NEW o \in 0..BUF_LEN - 1
  PROVE  /\ Wrap(i - o) = IF i - o < 0 THEN (i - o) + BUF_LEN ELSE i - o
         /\ Wrap(i - o) \in 0..BUF_LEN - 1
<1>1. i - o \in -BUF_LEN..BUF_LEN - 1
  BY Sizes, SMT
<1>2. Wrap(i - o) = IF i - o < 0 THEN (i - o) + BUF_LEN ELSE i - o
  BY <1>1, Sizes, Borrow, Zenon DEF Wrap
<1>3. QED
  BY <1>2, Sizes, SMT

\* Room is a piece of the free part of the ring: it neither reaches beyond
\* the end of the buffer nor fills the ring (write.c:109-114).
LEMMA RoomIsFree ==
  ASSUME NEW i \in 0..BUF_LEN - 1, NEW o \in 0..BUF_LEN - 1
  PROVE  /\ Room(i, o) \in 0..BUF_LEN - 1
         /\ i + Room(i, o) <= BUF_LEN
         /\ Wrap(i - o) + Room(i, o) < BUF_LEN
  BY WrapDown, Sizes, SMT DEF Room

\* Every index is in the ring.
LEMMA WrapInPlace == \A x \in Int : Wrap(x) \in 0..BUF_LEN - 1
  BY Sizes, SMT DEF Wrap

\* Publishing k characters adds them to the pending ones.
LEMMA PendingGrows ==
  ASSUME NEW i \in 0..BUF_LEN - 1, NEW o \in 0..BUF_LEN - 1, NEW k \in Nat,
         Wrap(i - o) + k < BUF_LEN
  PROVE  Wrap(Wrap(i + k) - o) = Wrap(i - o) + k
<1>1. k \in 0..BUF_LEN
  BY WrapDown, Sizes, SMT
<1>2. Wrap(i + k) \in 0..BUF_LEN - 1
  BY <1>1, WrapUp, Zenon
<1> DEFINE j == Wrap(i + k)
<1>3. j = IF i + k < BUF_LEN THEN i + k ELSE (i + k) - BUF_LEN
  BY <1>1, WrapUp, Zenon
<1>4. Wrap(j - o) = IF j - o < 0 THEN (j - o) + BUF_LEN ELSE j - o
  BY <1>2, WrapDown, Zenon
<1>5. Wrap(i - o) = IF i - o < 0 THEN (i - o) + BUF_LEN ELSE i - o
  BY WrapDown, Zenon
<1> HIDE DEF j
<1>6. Wrap(j - o) = Wrap(i - o) + k
  BY <1>1, <1>3, <1>4, <1>5, Sizes, SMT
<1>7. QED
  BY <1>6 DEF j

\* Sending k of the pending characters leaves the others.
LEMMA PendingShrinks ==
  ASSUME NEW i \in 0..BUF_LEN - 1, NEW o \in 0..BUF_LEN - 1,
         NEW k \in 0..Wrap(i - o)
  PROVE  Wrap(i - Wrap(o + k)) = Wrap(i - o) - k
<1>1. k \in 0..BUF_LEN
  BY WrapDown, Sizes, SMT
<1>2. Wrap(o + k) \in 0..BUF_LEN - 1
  BY <1>1, WrapUp, Zenon
<1> DEFINE j == Wrap(o + k)
<1>3. j = IF o + k < BUF_LEN THEN o + k ELSE (o + k) - BUF_LEN
  BY <1>1, WrapUp, Zenon
<1>4. Wrap(i - j) = IF i - j < 0 THEN (i - j) + BUF_LEN ELSE i - j
  BY <1>2, WrapDown, Zenon
<1>5. Wrap(i - o) = IF i - o < 0 THEN (i - o) + BUF_LEN ELSE i - o
  BY WrapDown, Zenon
<1> HIDE DEF j
<1>6. Wrap(i - j) = Wrap(i - o) - k
  BY <1>1, <1>3, <1>4, <1>5, Sizes, SMT
<1>7. QED
  BY <1>6 DEF j

(***************************************************************************)
(* The inductive invariant.  The types of the console; the room that the   *)
(* interrupt routine has read in the FIFO is still there, since only the   *)
(* host can change it; the characters that write has copied and not yet    *)
(* published fit behind tx_in, whatever the routine has sent since; and no *)
(* wake-up is lost.                                                        *)
(***************************************************************************)
Char == 0..Numbers - 1
Place == 0..BUF_LEN - 1

Types ==
  /\ tx_buf \in [Place -> Char]
  /\ tx_in \in Place /\ tx_out \in Place /\ rx_in \in Place /\ out \in Place
  /\ n \in Place /\ count \in Nat /\ next \in Char
  /\ RE \in BOOLEAN /\ WE \in BOOLEAN /\ ac \in BOOLEAN
  /\ up \in BOOLEAN /\ ravail \in BOOLEAN
  /\ host_inactive \in 0..Timeout
  /\ pc \in {"idle", "copy", "advance", "kick", "wait"}
  /\ isr \in {"off", "control", "receive", "transmit"}
  /\ control \in [wi : BOOLEAN, space : 0..WriteDepth]
  /\ txFifo \in Seq(Char)
  /\ rxFifo \in 0..ReadDepth /\ shown \in 0..Numbers

SpaceIsThere == Len(txFifo) + control.space <= WriteDepth

\* What write has copied behind tx_in.
Copied ==
  /\ n > 0 <=> pc = "advance"
  /\ tx_in + n <= BUF_LEN /\ Pending + n < BUF_LEN
  /\ \A i \in 0..n - 1 : tx_buf[tx_in + i] = (next + i) % Numbers

CInv == AlarmInv /\ Types /\ SpaceIsThere /\ Copied /\ NoLostWakeup

\* The types and the room in the FIFO make up the type invariant of the run.
LEMMA TypesSuffice == AlarmTypeOK /\ Types /\ SpaceIsThere => ConsoleTypeOK
<1> SUFFICES ASSUME AlarmTypeOK, Types, SpaceIsThere PROVE ConsoleTypeOK
  OBVIOUS
<1>1. Len(txFifo) <= WriteDepth
  BY Sizes, SMT DEF Types, SpaceIsThere
<1>2. Range(txFifo) \subseteq 0..Numbers - 1
  BY RangeOfSeq, Zenon DEF Types, Char
<1>3. QED
  BY <1>1, <1>2, Zenon DEF Types, ConsoleTypeOK, Char, Place

\* The state after altera_avalon_jtag_uart_init satisfies the invariant.
LEMMA InitCInv == ConsoleInit => CInv
<1> SUFFICES ASSUME ConsoleInit PROVE CInv
  OBVIOUS
<1> USE DEF ConsoleInit
<1>1. AlarmInv
  BY ConsoleAssumption, AlarmStarts, Zenon
<1>2. Pending = 0
  BY WrapDown, Sizes, SMT DEF Pending
<1>3. Types
  <2>1. 0 \in Place /\ 0 \in Char /\ 0 \in 0..Timeout /\ 0 \in 0..ReadDepth
        /\ Numbers \in 0..Numbers /\ 0 \in 0..WriteDepth
    BY Sizes, ConsoleAssumption, SMT DEF Place, Char
  <2>2. tx_buf \in [Place -> Char]
    BY <2>1, Zenon DEF Place
  <2>3. control \in [wi : BOOLEAN, space : 0..WriteDepth]
    BY <2>1, SMT DEF NoControl
  <2>4. txFifo \in Seq(Char) /\ count \in Nat
    BY SMT
  <2>5. QED
    BY <2>1, <2>2, <2>3, <2>4, Zenon DEF Types
<1>4. SpaceIsThere
  BY Sizes, SMT DEF SpaceIsThere, NoControl
<1>5. Copied
  BY <1>2, Sizes, SMT DEF Copied
<1>6. NoLostWakeup
  BY <1>2, SMT DEF NoLostWakeup
<1>7. QED
  BY <1>1, <1>3, <1>4, <1>5, <1>6 DEF CInv

(***************************************************************************)
(* write: one lemma for each step, about the variables it may change.      *)
(***************************************************************************)

\* What no step of write touches.
WriteFrame ==
  UNCHANGED <<rx_in, host_inactive, service, txFifo, rxFifo, ac, hostVars, alarmVars>>

\* The frame keeps its part of the invariant.
LEMMA WriteFrameKeeps ==
  ASSUME CInv, WriteFrame
  PROVE  AlarmInv' /\ SpaceIsThere'
  BY Zenon DEF CInv, WriteFrame, service, alarmVars, AlarmInv, AlarmTypeOK,
               AlarmPlace, SpaceIsThere

\* A new write keeps the invariant.
LEMMA CallCInv ==
  ASSUME CInv, Call, UNCHANGED <<ring, irqs>>, WriteFrame
  PROVE  CInv'
<1> USE DEF CInv, ring, irqs
<1>1. Types'
  <2>1. count' \in Nat /\ pc' = "copy"
    BY ConsoleAssumption, SMT DEF Call
  <2>2. QED
    BY <2>1, Zenon DEF Types, Call, WriteFrame, service, hostVars
<1>2. Copied' /\ NoLostWakeup'
  <2>1. pc # "advance" /\ pc' = "copy"
    BY DEF Call
  <2>2. QED
    BY <2>1, Zenon DEF Call, Copied, NoLostWakeup, Pending
<1>3. QED
  BY <1>1, <1>2, WriteFrameKeeps

\* What memcpy writes is in the buffer and behind tx_in (write.c:103-124).
LEMMA CopyCInv ==
  ASSUME CInv, Copy, UNCHANGED irqs, WriteFrame
  PROVE  CInv'
<1> USE DEF CInv, irqs
<1> DEFINE room == Room(tx_in, tx_out)
           k == IF room > count THEN count ELSE room
<1>1. tx_in \in Place /\ tx_out \in Place /\ count \in Nat /\ next \in Char
  BY DEF Types
<1>2. /\ room \in 0..BUF_LEN - 1
      /\ tx_in + room <= BUF_LEN
      /\ Pending + room < BUF_LEN /\ Pending \in Place
  BY <1>1, RoomIsFree, WrapDown, Zenon DEF Place, Pending
<1>3. k \in 0..room /\ k <= count
  BY <1>1, <1>2, Sizes, SMT
<1>4. /\ n' = k /\ count' = count - k /\ out' = tx_out
      /\ pc' = (IF k = 0 THEN "kick" ELSE "advance")
      /\ UNCHANGED <<tx_in, tx_out, next>>
      /\ tx_buf' = [i \in DOMAIN tx_buf \cup tx_in..tx_in + k - 1 |->
                      IF i < tx_in \/ i >= tx_in + k THEN tx_buf[i]
                      ELSE (next + i - tx_in) % Numbers]
  BY Zenon DEF Copy
<1> HIDE DEF k, room
<1>5. tx_in..tx_in + k - 1 \subseteq Place
  BY <1>1, <1>2, <1>3, Sizes, SMT DEF Place
<1>6. tx_buf' \in [Place -> Char]
  <2>1. \A i \in Place : (next + i - tx_in) % Numbers \in Char
    BY <1>1, Sizes, SMT DEF Place, Char
  <2>2. DOMAIN tx_buf = Place /\ DOMAIN tx_buf \cup tx_in..tx_in + k - 1 = Place
    BY <1>5, Zenon DEF Types
  <2>3. \A i \in Place : tx_buf[i] \in Char
    BY Zenon DEF Types
  <2>4. QED
    BY <1>4, <2>1, <2>2, <2>3, Zenon
<1>7. Types'
  <2>1. n' \in Place /\ count' \in Nat
    BY <1>1, <1>2, <1>3, <1>4, Sizes, SMT DEF Place
  <2>2. QED
    BY <1>4, <1>6, <2>1, Zenon DEF Types, WriteFrame, service, hostVars
<1>8. Copied'
  <2>1. Pending' = Pending
    BY <1>4, Zenon DEF Pending
  <2>2. /\ n' > 0 <=> pc' = "advance"
        /\ tx_in' + n' <= BUF_LEN /\ Pending' + n' < BUF_LEN
    BY <1>1, <1>2, <1>3, <1>4, <2>1, Sizes, SMT DEF Place
  <2>3. ASSUME NEW i \in 0..k - 1
        PROVE  tx_buf'[tx_in + i] = (next + i) % Numbers
    <3>1. /\ tx_in + i \in tx_in..tx_in + k - 1
          /\ next + (tx_in + i) - tx_in = next + i
          /\ ~(tx_in + i < tx_in) /\ ~(tx_in + i >= tx_in + k)
      BY <1>1, <1>3, SMT DEF Place, Char
    <3>2. QED
      BY <1>4, <3>1, Zenon
  <2>4. QED
    BY <1>4, <2>2, <2>3, Zenon DEF Copied
<1>9. NoLostWakeup'
  BY <1>4, Zenon DEF NoLostWakeup
<1>10. QED
  BY <1>7, <1>8, <1>9, WriteFrameKeeps

\* Publishing them keeps the invariant: nothing the interrupt routine has sent
\* in between can have made the ring too small for them (write.c:126).
LEMMA AdvanceCInv ==
  ASSUME CInv, Advance, UNCHANGED irqs, WriteFrame
  PROVE  CInv' /\ Pending' = Pending + n
<1> USE DEF CInv, irqs
<1>1. /\ tx_in \in Place /\ tx_out \in Place /\ n \in Place /\ out \in Place
      /\ next \in Char /\ 0 \in Place
  BY Sizes, SMT DEF Types, Place
<1>2. /\ tx_in' = Wrap(tx_in + n) /\ n' = 0 /\ out' \in {out, 0}
      /\ next' = (next + n) % Numbers
      /\ pc' \in {"copy", "kick"}
      /\ UNCHANGED <<tx_buf, tx_out, count>>
  BY DEF Advance
<1>3. n \in 0..BUF_LEN /\ n \in Nat
  BY <1>1, Sizes, SMT DEF Place
<1>4. tx_in' \in Place
  BY <1>1, <1>2, <1>3, WrapUp, Zenon DEF Place
<1>5. Pending' = Pending + n
  <2>1. Wrap(tx_in - tx_out) + n < BUF_LEN
    BY DEF Copied, Pending
  <2>2. QED
    BY <1>1, <1>2, <1>3, <2>1, PendingGrows, Zenon DEF Pending, Place
<1>6. Types'
  <2>1. next' \in Char
    BY <1>1, <1>2, Sizes, SMT DEF Char, Place
  <2>2. QED
    BY <1>1, <1>2, <1>4, <2>1, Zenon DEF Types, WriteFrame, service, hostVars
<1>7. Copied'
  <2>1. Pending \in Place
    BY <1>1, WrapDown, Zenon DEF Place, Pending
  <2>2. QED
    BY <1>2, <1>4, <1>5, <2>1, Sizes, SMT DEF Copied, Place
<1>8. NoLostWakeup'
  BY <1>2, Zenon DEF NoLostWakeup
<1>9. QED
  BY <1>5, <1>6, <1>7, <1>8, WriteFrameKeeps

\* Enabling the interrupt before write returns or waits keeps the invariant:
\* from here on somebody will send the pending characters (write.c:136-139).
LEMMA KickCInv ==
  ASSUME CInv, Kick, UNCHANGED ring, WriteFrame
  PROVE  CInv'
<1> USE DEF CInv, ring
<1>1. /\ pc = "kick" /\ WE' = TRUE /\ pc' \in {"wait", "idle"}
      /\ UNCHANGED <<RE, out, n, count, next>>
  BY DEF Kick, Kicked
<1>2. Types'
  BY <1>1, Zenon DEF Types, WriteFrame, service, hostVars
<1>3. Copied'
  BY <1>1, Zenon DEF Copied, Pending
<1>4. NoLostWakeup'
  BY <1>1, Zenon DEF NoLostWakeup
<1>5. QED
  BY <1>2, <1>3, <1>4, WriteFrameKeeps

\* The end of the wait keeps the invariant, also when write gives up and
\* leaves characters behind (write.c:146-189).
LEMMA WaitCInv ==
  ASSUME CInv, Wait, UNCHANGED <<ring, irqs>>, WriteFrame
  PROVE  CInv'
<1> USE DEF CInv, ring, irqs
<1>1. /\ pc = "wait" /\ out' = 0 /\ pc' \in {"idle", "copy"}
      /\ count' \in {0, count} /\ UNCHANGED <<n, next>>
  BY DEF Wait
<1>2. Types'
  <2>1. 0 \in Place /\ 0 \in Nat
    BY Sizes, SMT DEF Place
  <2>2. QED
    BY <1>1, <2>1, Zenon DEF Types, WriteFrame, service, hostVars
<1>3. Copied'
  BY <1>1, Zenon DEF Copied, Pending
<1>4. NoLostWakeup'
  BY <1>1, Zenon DEF NoLostWakeup, Pending
<1>5. QED
  BY <1>2, <1>3, <1>4, WriteFrameKeeps

(***************************************************************************)
(* The interrupt routine.                                                  *)
(***************************************************************************)

\* What no step of the interrupt routine touches.
IrqFrame == UNCHANGED <<host_inactive, writer, ac, hostVars, alarmVars>>

\* The frame keeps its part of the invariant.
LEMMA IrqFrameKeeps ==
  ASSUME CInv, IrqFrame
  PROVE  AlarmInv'
  BY Zenon DEF CInv, IrqFrame, alarmVars, AlarmInv, AlarmTypeOK, AlarmPlace

\* The characters to send, in order.
LEMMA RingIsSeq ==
  ASSUME Types, NEW k \in Nat
  PROVE  Ring(k) \in Seq(Char) /\ Len(Ring(k)) = k
<1>1. \A i \in 1..k : Wrap(tx_out + i - 1) \in Place
  BY Sizes, SMT DEF Wrap, Place, Types
<1>2. \A i \in 1..k : tx_buf[Wrap(tx_out + i - 1)] \in Char
  BY <1>1, Zenon DEF Types
<1>3. Ring(k) \in [1..k -> Char]
  BY <1>2, Zenon DEF Ring
<1>4. QED
  BY <1>3, SMT

\* Reading the control register and the end of the loop keep the invariant
\* (init.c:117-128): space is what the FIFO has left at that moment.
LEMMA ReadControlCInv ==
  ASSUME CInv, ReadControl \/ NothingToDo, IrqFrame,
         UNCHANGED <<ring, rx_in, irqs, txFifo, rxFifo>>
  PROVE  CInv'
<1> USE DEF CInv, ring, irqs
<1>1. /\ isr' \in {"off", "receive", "transmit"}
      /\ \/ control' = [wi |-> WI, space |-> WriteDepth - Len(txFifo)] /\ ravail' = RI
         \/ UNCHANGED <<control, ravail>>
  BY DEF ReadControl, NothingToDo
<1>2. WI \in BOOLEAN /\ RI \in BOOLEAN
  BY Zenon DEF WI, RI
<1>3. Len(txFifo) \in 0..WriteDepth /\ control.space \in 0..WriteDepth
  BY Sizes, SMT DEF Types, SpaceIsThere
<1>4. /\ control' \in [wi : BOOLEAN, space : 0..WriteDepth] /\ ravail' \in BOOLEAN
      /\ Len(txFifo) + control'.space <= WriteDepth
  <2>1. CASE UNCHANGED <<control, ravail>>
    BY <2>1, Zenon DEF Types, SpaceIsThere
  <2>2. CASE control' = [wi |-> WI, space |-> WriteDepth - Len(txFifo)] /\ ravail' = RI
    BY <1>2, <1>3, <2>2, Sizes, SMT
  <2>3. QED
    BY <1>1, <2>1, <2>2
<1>5. Types' /\ SpaceIsThere'
  BY <1>1, <1>4, Zenon DEF Types, SpaceIsThere, IrqFrame, writer, hostVars
<1>6. Copied' /\ NoLostWakeup'
  BY Zenon DEF Copied, NoLostWakeup, Pending, IrqFrame, writer
<1>7. QED
  BY <1>5, <1>6, IrqFrameKeeps

\* Storing what was typed keeps the invariant (init.c:130-167).
LEMMA ReceiveCInv ==
  ASSUME CInv, Receive \/ ReceiveEnds, IrqFrame, UNCHANGED <<ring, txFifo>>
  PROVE  CInv'
<1> USE DEF CInv, ring
<1>1. /\ isr' \in {"receive", "transmit", "control"}
      /\ rx_in' \in {rx_in, Wrap(rx_in + 1)}
      /\ \/ UNCHANGED rxFifo
         \/ rxFifo > 0 /\ rxFifo' = rxFifo - 1
      /\ RE' \in {RE, Listens} /\ UNCHANGED WE
      /\ ravail' \in {FALSE, rxFifo' > 0}
      /\ control' \in {control, NoControl}
  BY Zenon DEF Receive, ReceiveEnds, irqs
<1>2. Wrap(rx_in + 1) \in Place /\ 0 \in 0..WriteDepth
  BY Sizes, SMT DEF Wrap, Place, Types
<1>3. rxFifo' \in 0..ReadDepth
  BY <1>1, ConsoleAssumption, SMT DEF Types
<1>4. /\ control' \in [wi : BOOLEAN, space : 0..WriteDepth]
      /\ Len(txFifo) + control'.space <= WriteDepth
  <2>1. CASE control' = control
    BY <2>1, Zenon DEF Types, SpaceIsThere
  <2>2. CASE control' = [wi |-> FALSE, space |-> 0]
    <3>1. /\ Len(txFifo) \in Nat /\ control.space \in Nat
          /\ Len(txFifo) + control.space <= WriteDepth
      BY SMT DEF Types, SpaceIsThere
    <3>2. control'.space = 0 /\ control' \in [wi : BOOLEAN, space : 0..WriteDepth]
      BY <1>2, <2>2, SMT
    <3>3. QED
      BY <3>1, <3>2, Sizes, SMT
  <2>3. QED
    BY <1>1, <2>1, <2>2 DEF NoControl
<1>5. RE' \in BOOLEAN /\ ravail' \in BOOLEAN
  <2>1. Listens \in BOOLEAN
    BY Zenon DEF Listens
  <2>2. (rxFifo' > 0) \in BOOLEAN
    BY SMT
  <2>3. QED
    BY <1>1, <2>1, <2>2, Zenon DEF Types
<1>6. Types' /\ SpaceIsThere'
  BY <1>1, <1>2, <1>3, <1>4, <1>5, Zenon
     DEF Types, SpaceIsThere, IrqFrame, writer, hostVars
<1>7. Copied' /\ NoLostWakeup'
  BY <1>1, Zenon DEF Copied, NoLostWakeup, Pending, IrqFrame, writer
<1>8. QED
  BY <1>6, <1>7, IrqFrameKeeps

\* What the routine sends: as much as the ring holds and the FIFO has room for
\* (init.c:169-184).
Sent == IF Pending < control.space THEN Pending ELSE control.space

\* Sending keeps the invariant: interrupts stay enabled unless the ring is
\* empty (init.c:185-194).
LEMMA TransmitCInv ==
  ASSUME CInv, Transmit, IrqFrame, UNCHANGED <<rx_in, rxFifo>>
  PROVE  CInv' /\ Pending' = Pending - Sent
<1> USE DEF CInv
<1>1. /\ txFifo' = txFifo \o Ring(Sent) /\ tx_out' = Wrap(tx_out + Sent)
      /\ WE' = WantsMore(Sent) /\ isr' = "control" /\ control' = NoControl
      /\ UNCHANGED <<tx_buf, tx_in, RE, ravail>>
  BY Zenon DEF Transmit, Sent
<1>2. /\ tx_in \in Place /\ tx_out \in Place /\ Pending \in Place
      /\ control.space \in 0..WriteDepth
  <2>1. tx_in \in Place /\ tx_out \in Place /\ control.space \in 0..WriteDepth
    BY SMT DEF Types
  <2>2. QED
    BY <2>1, WrapDown, Zenon DEF Pending, Place
<1>3. /\ Sent \in 0..Pending /\ Sent <= control.space /\ Sent \in Nat
      /\ Sent < Pending => Sent = control.space
  BY <1>2, Sizes, SMT DEF Sent, Place
<1> HIDE DEF Sent
<1>4. Pending' = Pending - Sent
  BY <1>1, <1>2, <1>3, PendingShrinks, Zenon DEF Pending, Place
<1>5. /\ Ring(Sent) \in Seq(Char) /\ Len(Ring(Sent)) = Sent
      /\ txFifo \in Seq(Char) /\ Len(txFifo) \in Nat
      /\ txFifo' \in Seq(Char) /\ Len(txFifo') = Len(txFifo) + Sent
  <2>1. Ring(Sent) \in Seq(Char) /\ Len(Ring(Sent)) = Sent /\ txFifo \in Seq(Char)
    BY <1>3, RingIsSeq, Zenon DEF Types
  <2>2. QED
    BY <1>1, <2>1, ConcatProperties, LenProperties, Zenon
<1>6. SpaceIsThere'
  BY <1>1, <1>2, <1>3, <1>5, Sizes, SMT DEF SpaceIsThere, NoControl
<1>7. Types'
  <2>1. tx_out' \in Place
    <3>1. Sent \in 0..BUF_LEN
      BY <1>2, <1>3, Sizes, SMT DEF Place
    <3>2. QED
      BY <1>1, <1>2, <3>1, WrapUp, Zenon DEF Place
  <2>2. control' \in [wi : BOOLEAN, space : 0..WriteDepth]
    BY <1>1, Sizes, SMT DEF NoControl
  <2>3. WE' \in BOOLEAN
    BY <1>1, Zenon DEF WantsMore
  <2>4. QED
    BY <1>1, <1>5, <2>1, <2>2, <2>3, Zenon DEF Types, IrqFrame, writer, hostVars
<1>8. Copied'
  <2>1. UNCHANGED <<pc, n, next>>
    BY DEF IrqFrame, writer
  <2>2. Pending' + n' < BUF_LEN
    BY <1>2, <1>3, <1>4, <2>1, Sizes, SMT DEF Copied, Place, Types
  <2>3. QED
    BY <1>1, <2>1, <2>2, Zenon DEF Copied
<1>9. NoLostWakeup'
  <2>1. Pending' > 0 => Pending > 0 /\ Sent >= control.space
    BY <1>2, <1>3, <1>4, SMT DEF Place
  <2>2. UNCHANGED pc
    BY DEF IrqFrame, writer
  <2>3. QED
    BY <1>1, <2>1, <2>2, Zenon DEF NoLostWakeup, WantsMore
<1>10. QED
  BY <1>4, <1>6, <1>7, <1>8, <1>9, IrqFrameKeeps

(***************************************************************************)
(* The timer, the host, and every step.                                    *)
(***************************************************************************)

\* The tick of the clock and the callback that looks for the host keep the
\* invariant (init.c:203-225).
LEMMA TimerCInv ==
  ASSUME CInv, TimerIrq
  PROVE  CInv' /\ (Fires <=> quiet + 1 = Period)
<1> USE DEF CInv
<1>1. AlarmInv' /\ (Fires <=> quiet + 1 = Period)
  BY AlarmTicks DEF TimerIrq
<1>2. /\ UNCHANGED <<ring, rx_in, irqs, writer, service, txFifo, rxFifo, hostVars>>
      /\ \/ HostCheck
         \/ UNCHANGED <<ac, host_inactive>>
  BY DEF TimerIrq
<1>3. ac' \in BOOLEAN /\ host_inactive' \in 0..Timeout
  <2>1. CASE HostCheck
    <3>1. ac' \in BOOLEAN
      BY <2>1, Zenon DEF HostCheck, Types
    <3>2. \/ host_inactive' = 0
          \/ host_inactive' = Timeout
          \/ host_inactive < Timeout /\ host_inactive' = host_inactive + 1
      <4>1. CASE ac
        BY <2>1, <4>1, Zenon DEF HostCheck
      <4>2. CASE ~ac
        BY <2>1, <4>2, Zenon DEF HostCheck
      <4>3. QED
        BY <4>1, <4>2
    <3>3. QED
      BY <3>1, <3>2, ConsoleAssumption, SMT DEF Types
  <2>2. CASE UNCHANGED <<ac, host_inactive>>
    BY <2>2 DEF Types
  <2>3. QED
    BY <1>2, <2>1, <2>2
<1>4. Types'
  BY <1>2, <1>3, Zenon DEF Types, ring, irqs, writer, service, hostVars
<1>5. SpaceIsThere' /\ Copied' /\ NoLostWakeup'
  BY <1>2, Zenon DEF SpaceIsThere, Copied, NoLostWakeup, Pending,
                     ring, irqs, writer, service
<1>6. QED
  BY <1>1, <1>4, <1>5

\* Whatever the host does keeps the invariant: it only makes room.
LEMMA HostCInv ==
  ASSUME CInv, HostStep
  PROVE  CInv'
<1> USE DEF CInv
<1>1. UNCHANGED <<ring, rx_in, irqs, host_inactive, writer, service, alarmVars>>
  BY DEF HostStep
<1>2. /\ ac' \in BOOLEAN /\ up' \in BOOLEAN /\ rxFifo' \in 0..ReadDepth
      /\ shown' \in 0..Numbers
      /\ txFifo' \in Seq(Char) /\ Len(txFifo') <= Len(txFifo)
  <2>1. CASE HostTakes
    <3>1. txFifo \in Seq(Char) /\ txFifo # <<>>
      BY <2>1 DEF Types, HostTakes
    <3>2. /\ Head(txFifo) \in Char /\ Tail(txFifo) \in Seq(Char)
          /\ Len(Tail(txFifo)) = Len(txFifo) - 1 /\ Len(txFifo) \in Nat
      BY <3>1, HeadTailProperties, LenProperties, Zenon
    <3>3. UNCHANGED <<rxFifo, up>> /\ ac' = TRUE
          /\ shown' = Head(txFifo) /\ txFifo' = Tail(txFifo)
      BY <2>1 DEF HostTakes
    <3>4. shown' \in 0..Numbers /\ Len(txFifo') <= Len(txFifo)
      BY <3>2, <3>3, Sizes, SMT DEF Char
    <3>5. QED
      BY <3>2, <3>3, <3>4, Zenon DEF Types
  <2>2. CASE HostTypes
    <3>1. rxFifo' \in 0..ReadDepth /\ Len(txFifo) \in Nat
      BY <2>2, ConsoleAssumption, SMT DEF HostTypes, Types
    <3>2. Len(txFifo) <= Len(txFifo)
      BY <3>1, SMT
    <3>3. QED
      BY <2>2, <3>1, <3>2, Zenon DEF HostTypes, Types, hostVars
  <2>3. CASE HostComesOrGoes
    <3>1. Len(txFifo) <= Len(txFifo)
      BY SMT DEF Types
    <3>2. up' \in BOOLEAN
      BY <2>3, Zenon DEF HostComesOrGoes
    <3>3. QED
      BY <2>3, <3>1, <3>2, Zenon DEF HostComesOrGoes, Types
  <2>4. QED
    BY <2>1, <2>2, <2>3 DEF HostStep
<1>3. AlarmInv'
  BY <1>1, Zenon DEF alarmVars, AlarmInv, AlarmTypeOK, AlarmPlace
<1>4. Types'
  BY <1>1, <1>2, Zenon DEF Types, ring, irqs, writer, service
<1>5. SpaceIsThere'
  <2>1. Len(txFifo') \in Nat /\ Len(txFifo) \in Nat /\ control.space \in Nat
    BY <1>2, SMT DEF Types
  <2>2. UNCHANGED control
    BY <1>1 DEF service
  <2>3. QED
    BY <1>2, <2>1, <2>2, Sizes, SMT DEF SpaceIsThere
<1>6. Copied' /\ NoLostWakeup'
  BY <1>1, Zenon DEF Copied, NoLostWakeup, Pending, ring, irqs, writer
<1>7. QED
  BY <1>3, <1>4, <1>5, <1>6

\* Every step of the console keeps the invariant.
LEMMA StepCInv ==
  ASSUME CInv, [ConsoleNext]_consoleVars
  PROVE  CInv'
<1>1. CASE WriteStep
  BY <1>1, CallCInv, CopyCInv, AdvanceCInv, KickCInv, WaitCInv, Zenon
     DEF WriteStep, WriteFrame
<1>2. CASE Irq
  BY <1>2, ReadControlCInv, ReceiveCInv, TransmitCInv, Zenon DEF Irq, IrqFrame
<1>3. CASE TimerIrq
  BY <1>3, TimerCInv, Zenon
<1>4. CASE HostStep
  BY <1>4, HostCInv, Zenon
<1>5. CASE UNCHANGED consoleVars
  <2>1. AlarmInv'
    BY <1>5, Zenon DEF CInv, consoleVars, alarmVars, AlarmInv, AlarmTypeOK, AlarmPlace
  <2>2. Types' /\ SpaceIsThere'
    BY <1>5, Zenon DEF CInv, consoleVars, Types, SpaceIsThere, ring, irqs, writer,
                       service, hostVars
  <2>3. Copied' /\ NoLostWakeup'
    BY <1>5, Zenon DEF CInv, consoleVars, Copied, NoLostWakeup, Pending, ring, irqs,
                       writer
  <2>4. QED
    BY <2>1, <2>2, <2>3 DEF CInv
<1>6. QED
  BY <1>1, <1>2, <1>3, <1>4, <1>5 DEF ConsoleNext

\* The invariant always holds.
LEMMA Invariance == ConsoleSpec => []CInv
  BY InitCInv, StepCInv, PTL DEF ConsoleSpec

\* The variables of the console keep their types: in particular the UART is
\* never given more than its FIFO holds, and no index leaves its buffer.
THEOREM ConsoleIsTyped == ConsoleSpec => []ConsoleTypeOK
<1>1. CInv => ConsoleTypeOK
  BY TypesSuffice DEF CInv, AlarmInv
<1>2. QED
  BY <1>1, Invariance, PTL

\* Characters in the ring always have an interrupt to come or a write that is
\* going to enable it, at every point at which the routine and write can meet.
THEOREM NoWakeupIsLost == ConsoleSpec => []NoLostWakeup
<1>1. CInv => NoLostWakeup
  BY DEF CInv
<1>2. QED
  BY <1>1, Invariance, PTL

\* The alarm is on time: for every width of the tick counter, every period
\* and every tick at which it was started.
THEOREM AlarmIsOnTime == ConsoleSpec => AlarmOnTime
<1>1. ASSUME CInv, [ConsoleNext]_consoleVars
      PROVE  [nticks' # nticks => (Fires <=> quiet + 1 = Period)]_alarmVars
  <2>1. CASE TimerIrq
    BY <1>1, <2>1, TimerCInv
  <2>2. CASE ~TimerIrq
    BY <1>1, <2>2, Zenon DEF ConsoleNext, WriteStep, Irq, HostStep, consoleVars
  <2>3. QED
    BY <2>1, <2>2
<1>2. QED
  BY <1>1, Invariance, PTL DEF ConsoleSpec, AlarmOnTime

(***************************************************************************)
(* The console is a pipe.  Its content is what the FIFO of the UART holds, *)
(* followed by the published characters of the ring.                       *)
(***************************************************************************)
Content == txFifo \o Ring(Pending)

\* A sequence is a strict prefix of itself with something behind it.
LEMMA LongerByConcat ==
  ASSUME NEW S, NEW s \in Seq(S), NEW t \in Seq(S), Len(t) > 0
  PROVE  Pipe!IsStrictPrefix(s, s \o t)
<1>1. s \o t \in Seq(S) /\ Len(s \o t) = Len(s) + Len(t)
      /\ \A i \in 1..Len(s) + Len(t) :
            (s \o t)[i] = IF i <= Len(s) THEN s[i] ELSE t[i - Len(s)]
  BY ConcatProperties, Zenon
<1>2. Len(s) \in Nat /\ Len(t) \in Nat
  BY LenProperties, Zenon
<1>3. Len(s) <= Len(s \o t) /\ s # s \o t
  BY <1>1, <1>2, SMT
<1>4. SubSeq(s, 1, Len(s)) = SubSeq(s \o t, 1, Len(s))
  BY <1>1, <1>2, SMT
<1>5. QED
  BY <1>3, <1>4 DEF Pipe!IsStrictPrefix, Pipe!IsPrefix

\* Where the pending characters are: neither where write copies to nor apart
\* from each other.
LEMMA Occupied ==
  ASSUME NEW i \in Place, NEW o \in Place, NEW k \in 1..Wrap(i - o)
  PROVE  Wrap(o + k - 1) = IF o + k - 1 < BUF_LEN THEN o + k - 1 ELSE (o + k - 1) - BUF_LEN
<1>1. k - 1 \in 0..BUF_LEN
  <2>1. Wrap(i - o) \in 0..BUF_LEN - 1
    BY WrapDown, Zenon DEF Place
  <2>2. QED
    BY <2>1, Sizes, SMT
<1> DEFINE j == k - 1
<1>2. Wrap(o + j) = IF o + j < BUF_LEN THEN o + j ELSE (o + j) - BUF_LEN
  BY <1>1, WrapUp, Zenon DEF Place
<1>3. QED
  BY <1>2

\* Copying behind tx_in does not change what is pending.
LEMMA CopyKeepsContent ==
  ASSUME CInv, Copy, WriteFrame
  PROVE  UNCHANGED <<Content, next, shown>>
<1> DEFINE room == Room(tx_in, tx_out)
           k == IF room > count THEN count ELSE room
<1>1. tx_in \in Place /\ tx_out \in Place /\ count \in Nat
  BY DEF CInv, Types
<1>2. /\ room \in 0..BUF_LEN - 1 /\ tx_in + room <= BUF_LEN
      /\ Pending + room < BUF_LEN /\ Pending \in Place
  BY <1>1, RoomIsFree, WrapDown, Zenon DEF Place, Pending
<1>3. k \in 0..room
  BY <1>1, <1>2, Sizes, SMT
<1>4. /\ UNCHANGED <<tx_in, tx_out, next>>
      /\ tx_buf' = [i \in DOMAIN tx_buf \cup tx_in..tx_in + k - 1 |->
                      IF i < tx_in \/ i >= tx_in + k THEN tx_buf[i]
                      ELSE (next + i - tx_in) % Numbers]
  BY Zenon DEF Copy
<1> HIDE DEF k, room
<1>5. ASSUME NEW i \in 1..Pending
      PROVE  tx_buf'[Wrap(tx_out + i - 1)] = tx_buf[Wrap(tx_out + i - 1)]
  <2> DEFINE j == Wrap(tx_out + i - 1)
  <2>1. j = IF tx_out + i - 1 < BUF_LEN THEN tx_out + i - 1 ELSE (tx_out + i - 1) - BUF_LEN
    BY <1>1, Occupied, Zenon DEF Pending
  <2>2. Pending = IF tx_in - tx_out < 0 THEN (tx_in - tx_out) + BUF_LEN ELSE tx_in - tx_out
    BY <1>1, WrapDown, Zenon DEF Pending, Place
  <2> HIDE DEF j
  <2>3. j \in Place /\ (j < tx_in \/ j >= tx_in + k)
    BY <1>1, <1>2, <1>3, <2>1, <2>2, Sizes, SMT DEF Place
  <2>4. tx_buf'[j] = tx_buf[j]
    <3>1. j \in DOMAIN tx_buf
      BY <2>3, Zenon DEF CInv, Types
    <3>2. QED
      BY <1>4, <2>3, <3>1, Zenon
  <2>5. QED
    BY <2>4 DEF j
<1>6. UNCHANGED <<txFifo, shown, Pending, tx_out>>
  BY <1>4, Zenon DEF WriteFrame, hostVars, Pending
<1>7. Ring(Pending)' = Ring(Pending)
  BY <1>5, <1>6, Zenon DEF Ring
<1>8. QED
  BY <1>4, <1>6, <1>7, Zenon DEF Content

\* Publishing is Accept: it adds the characters numbered from next on.
LEMMA AdvanceAccepts ==
  ASSUME CInv, Advance, WriteFrame, UNCHANGED irqs
  PROVE  /\ Content' = Content \o Pipe!Stream(next, n)
         /\ Pipe!IsStrictPrefix(Content, Content')
         /\ Len(Content') - Len(Content) = n
         /\ next' = (next + n) % Numbers /\ UNCHANGED shown
<1> DEFINE new == Pipe!Stream(next, n)
<1>1. /\ tx_in \in Place /\ tx_out \in Place /\ n \in Place /\ next \in Char
      /\ pc = "advance" /\ Pending \in Place
  <2>1. tx_in \in Place /\ tx_out \in Place /\ n \in Place /\ next \in Char
        /\ pc = "advance"
    BY DEF CInv, Types, Advance
  <2>2. QED
    BY <2>1, WrapDown, Zenon DEF Pending, Place
<1>2. n > 0 /\ tx_in + n <= BUF_LEN /\ Pending + n < BUF_LEN
      /\ \A i \in 0..n - 1 : tx_buf[tx_in + i] = (next + i) % Numbers
  BY <1>1 DEF CInv, Copied
<1>3. CInv' /\ Pending' = Pending + n
  BY AdvanceCInv, Zenon
<1>4. UNCHANGED <<tx_buf, tx_out, txFifo, shown>> /\ next' = (next + n) % Numbers
  BY Zenon DEF Advance, WriteFrame, hostVars
<1>5. new \in Seq(Char) /\ Len(new) = n
      /\ \A i \in 1..n : new[i] = (next + i - 1) % Numbers
  BY <1>1, Sizes, SMT DEF Char, Place, Pipe!Stream
<1>6. /\ Ring(Pending) \in Seq(Char) /\ Len(Ring(Pending)) = Pending
      /\ txFifo \in Seq(Char)
  <2>1. Pending \in Nat
    BY <1>1, SMT DEF Place
  <2>2. QED
    BY <2>1, RingIsSeq, Zenon DEF CInv, Types
<1> HIDE DEF new
<1>7. Ring(Pending)' = Ring(Pending) \o new
  <2> DEFINE all == [i \in 1..Pending + n |-> tx_buf[Wrap(tx_out + i - 1)]]
  <2>1. Ring(Pending)' = all
    BY <1>3, <1>4, Zenon DEF Ring
  <2>2. all \in Seq(Char) /\ Len(all) = Pending + n
    <3>1. Pending + n \in Nat
      BY <1>1, SMT DEF Place
    <3>2. Ring(Pending + n) \in Seq(Char) /\ Len(Ring(Pending + n)) = Pending + n
      BY <3>1, RingIsSeq, Zenon DEF CInv
    <3>3. QED
      BY <3>2, Zenon DEF Ring
  <2>3. /\ Ring(Pending) \o new \in Seq(Char)
        /\ Len(Ring(Pending) \o new) = Pending + n
        /\ \A i \in 1..Pending + n : (Ring(Pending) \o new)[i] =
              IF i <= Pending THEN Ring(Pending)[i] ELSE new[i - Pending]
    <3> DEFINE r == Ring(Pending)
    <3>1. r \in Seq(Char) /\ Len(r) = Pending
      BY <1>6
    <3> HIDE DEF r
    <3>2. /\ r \o new \in Seq(Char)
          /\ Len(r \o new) = Len(r) + Len(new)
          /\ \A i \in 1..Len(r) + Len(new) :
               (r \o new)[i] = IF i <= Len(r) THEN r[i] ELSE new[i - Len(r)]
      BY <1>5, <3>1, ConcatProperties, Zenon
    <3>3. /\ r \o new \in Seq(Char)
          /\ Len(r \o new) = Pending + n
          /\ \A i \in 1..Pending + n :
               (r \o new)[i] = IF i <= Pending THEN r[i] ELSE new[i - Pending]
      <4>1. Len(r) = Pending /\ Len(new) = n
        BY <1>5, <3>1
      <4>2. QED
        BY ONLY <3>2, <4>1
    <3>4. QED
      BY <3>3 DEF r
  <2>4. ASSUME NEW i \in 1..Pending + n
        PROVE  all[i] = (Ring(Pending) \o new)[i]
    <3>1. all[i] = tx_buf[Wrap(tx_out + i - 1)]
      OBVIOUS
    <3>2. CASE i <= Pending
      <4>1. i \in 1..Pending
        BY <1>1, <3>2, SMT DEF Place
      <4>2. Ring(Pending)[i] = tx_buf[Wrap(tx_out + i - 1)]
        BY <4>1, Zenon DEF Ring
      <4>3. QED
        BY <2>3, <3>1, <3>2, <4>2, Zenon
    <3>3. CASE ~(i <= Pending)
      <4> DEFINE j == i - Pending - 1
      <4>1. /\ j \in 0..n - 1 /\ i - Pending \in 1..n
            /\ next + (i - Pending) - 1 = next + j
        BY <1>1, <3>3, SMT DEF Place, Char
      <4>2. Wrap(tx_out + i - 1) = tx_in + j
        <5>1. i - 1 \in 0..BUF_LEN /\ tx_out + (i - 1) = tx_out + i - 1
          BY <1>1, <1>2, Sizes, SMT DEF Place
        <5> DEFINE h == i - 1
        <5>2. Wrap(tx_out + h) = IF tx_out + h < BUF_LEN THEN tx_out + h
                                 ELSE (tx_out + h) - BUF_LEN
          BY <1>1, <5>1, WrapUp, Zenon DEF Place
        <5>3. Pending = IF tx_in - tx_out < 0 THEN (tx_in - tx_out) + BUF_LEN ELSE tx_in - tx_out
          BY <1>1, WrapDown, Zenon DEF Pending, Place
        <5>4. Wrap(tx_out + i - 1) = Wrap(tx_out + h)
          BY <5>1
        <5>5. Wrap(tx_out + h) = tx_in + j
          BY <1>1, <1>2, <3>3, <5>2, <5>3, Sizes, SMT DEF Place
        <5>6. QED
          BY <5>4, <5>5
      <4>3. new[i - Pending] = (next + j) % Numbers
        BY <1>5, <4>1
      <4>4. tx_buf[tx_in + j] = (next + j) % Numbers
        BY <1>2, <4>1
      <4>5. QED
        BY <2>3, <3>1, <3>3, <4>2, <4>3, <4>4, Zenon
    <3>4. QED
      BY <3>2, <3>3
  <2> HIDE DEF all
  <2>5. all = Ring(Pending) \o new
    BY <2>2, <2>3, <2>4, SeqEqual, Zenon
  <2>6. QED
    BY <2>1, <2>5
<1>8. Content \in Seq(Char) /\ Content' = Content \o new
  <2>1. Content' = txFifo \o (Ring(Pending) \o new)
    BY <1>4, <1>7, Zenon DEF Content
  <2>2. Content \in Seq(Char)
    BY <1>6, ConcatProperties, Zenon DEF Content
  <2>3. Content \o new = txFifo \o (Ring(Pending) \o new)
    BY <1>5, <1>6, ConcatAssociative DEF Content
  <2>4. QED
    BY <2>1, <2>2, <2>3
<1>9. Pipe!IsStrictPrefix(Content, Content')
  BY <1>2, <1>5, <1>8, LongerByConcat, Zenon
<1>10. Len(Content') - Len(Content) = n
  <2>1. Len(Content \o new) = Len(Content) + Len(new) /\ Len(Content) \in Nat
    BY <1>5, <1>8, ConcatProperties, LenProperties, Zenon
  <2>2. n \in Nat
    BY <1>1, SMT DEF Place
  <2>3. Len(Content') = Len(Content) + n
    BY <1>5, <1>8, <2>1, Zenon
  <2>4. QED
    BY <2>1, <2>2, <2>3, SMT
<1>11. QED
  BY <1>4, <1>8, <1>9, <1>10 DEF new

\* Sending moves the first pending characters to the end of the FIFO.
LEMMA TransmitKeepsContent ==
  ASSUME CInv, Transmit, IrqFrame, UNCHANGED <<rx_in, rxFifo>>
  PROVE  UNCHANGED <<Content, next, shown>>
<1>1. /\ txFifo' = txFifo \o Ring(Sent) /\ tx_out' = Wrap(tx_out + Sent)
      /\ UNCHANGED tx_buf
  BY Zenon DEF Transmit, Sent
<1>2. CInv' /\ Pending' = Pending - Sent
  BY TransmitCInv, Zenon
<1>3. tx_in \in Place /\ tx_out \in Place /\ control.space \in 0..WriteDepth
  BY SMT DEF CInv, Types
<1>4. Pending \in Place
  BY <1>3, WrapDown, Zenon DEF Pending, Place
<1>5. Sent \in 0..Pending /\ Sent \in Nat /\ Sent \in 0..BUF_LEN
      /\ Pending \in Nat /\ Pending - Sent \in Nat
  BY <1>3, <1>4, Sizes, SMT DEF Sent, Place
<1>6. /\ Ring(Pending) \in Seq(Char) /\ Len(Ring(Pending)) = Pending
      /\ Ring(Sent) \in Seq(Char) /\ Len(Ring(Sent)) = Sent
      /\ txFifo \in Seq(Char)
  BY <1>5, RingIsSeq, Zenon DEF CInv, Types
<1> DEFINE rest == Ring(Pending)'
<1>7. /\ rest = [i \in 1..Pending - Sent |-> tx_buf[Wrap(tx_out' + i - 1)]]
      /\ rest \in Seq(Char) /\ Len(rest) = Pending - Sent
  <2>1. rest = [i \in 1..Pending - Sent |-> tx_buf[Wrap(tx_out' + i - 1)]]
    BY <1>1, <1>2, Zenon DEF Ring
  <2>2. \A i \in 1..Pending - Sent : tx_buf[Wrap(tx_out' + i - 1)] \in Char
    <3>1. tx_out' \in Place /\ tx_buf \in [Place -> Char]
      BY <1>2, Zenon DEF CInv, Types
    <3>2. \A i \in 1..Pending - Sent : Wrap(tx_out' + i - 1) \in Place
      <4>1. \A i \in 1..Pending - Sent : tx_out' + i - 1 \in Int
        BY <1>5, <3>1, Sizes, SMT DEF Place
      <4>2. QED
        BY <4>1, WrapInPlace, Zenon DEF Place
    <3>3. QED
      BY <3>1, <3>2, Zenon
  <2>3. rest \in [1..Pending - Sent -> Char]
    BY <2>1, <2>2, Zenon
  <2> HIDE DEF rest
  <2>4. QED
    BY <1>5, <2>1, <2>3, SMT
<1> HIDE DEF rest
<1>8. Ring(Sent) \o rest = Ring(Pending)
  <2> DEFINE both == Ring(Sent) \o rest
             sent == Ring(Sent)
  <2>1. both \in Seq(Char) /\ Len(both) = Len(sent) + Len(rest)
        /\ \A i \in 1..Len(sent) + Len(rest) :
             both[i] = IF i <= Len(sent) THEN sent[i] ELSE rest[i - Len(sent)]
    BY <1>6, <1>7, ConcatProperties, Zenon
  <2>2. Len(sent) = Sent /\ Len(rest) = Pending - Sent
    BY <1>6, <1>7
  <2> HIDE DEF both
  <2>3. Len(sent) + Len(rest) = Pending
    BY <1>5, <2>2, SMT
  <2>4. ASSUME NEW i \in 1..Pending
        PROVE  both[i] = Ring(Pending)[i]
    <3>1. both[i] = IF i <= Sent THEN sent[i] ELSE rest[i - Sent]
      BY <2>1, <2>2, <2>3
    <3>2. Ring(Pending)[i] = tx_buf[Wrap(tx_out + i - 1)]
      BY Zenon DEF Ring
    <3>3. CASE i <= Sent
      <4>1. i \in 1..Sent
        BY <1>5, <3>3, SMT
      <4>2. sent[i] = tx_buf[Wrap(tx_out + i - 1)]
        BY <4>1, Zenon DEF Ring
      <4>3. QED
        BY <3>1, <3>2, <3>3, <4>2
    <3>4. CASE ~(i <= Sent)
      <4> DEFINE j == i - Sent
                 a == j - 1
                 b == i - 1
      <4>1. j \in 1..Pending - Sent /\ a \in 0..BUF_LEN /\ b \in 0..BUF_LEN
        BY <1>4, <1>5, <3>4, Sizes, SMT DEF Place
      <4>2. rest[j] = tx_buf[Wrap(tx_out' + a)]
        BY <1>7, <4>1
      <4>3. Wrap(tx_out' + a) = Wrap(tx_out + b)
        <5>1. tx_out' \in Place
          BY <1>1, <1>3, <1>5, WrapUp, Zenon DEF Place
        <5>2. tx_out' = IF tx_out + Sent < BUF_LEN THEN tx_out + Sent ELSE (tx_out + Sent) - BUF_LEN
          BY <1>1, <1>3, <1>5, WrapUp, Zenon DEF Place
        <5>3. Wrap(tx_out' + a) = IF tx_out' + a < BUF_LEN THEN tx_out' + a ELSE (tx_out' + a) - BUF_LEN
          BY <4>1, <5>1, WrapUp, Zenon DEF Place
        <5>4. Wrap(tx_out + b) = IF tx_out + b < BUF_LEN THEN tx_out + b ELSE (tx_out + b) - BUF_LEN
          BY <1>3, <4>1, WrapUp, Zenon DEF Place
        <5>5. QED
          BY <1>3, <1>4, <1>5, <3>4, <5>1, <5>2, <5>3, <5>4, Sizes, SMT DEF Place
      <4>4. QED
        BY <3>1, <3>2, <3>4, <4>2, <4>3
    <3>5. QED
      BY <3>3, <3>4
  <2>5. both = Ring(Pending)
    BY <1>6, <2>1, <2>3, <2>4, SeqEqual, Zenon
  <2>6. QED
    BY <2>5 DEF both
<1>9. Content' = txFifo \o (Ring(Sent) \o rest)
  <2> DEFINE sent == Ring(Sent)
  <2>1. Content' = (txFifo \o sent) \o rest
    BY <1>1, Zenon DEF Content, rest
  <2>2. txFifo \in Seq(Char) /\ sent \in Seq(Char) /\ rest \in Seq(Char)
    BY <1>6, <1>7
  <2> HIDE DEF sent
  <2>3. (txFifo \o sent) \o rest = txFifo \o (sent \o rest)
    BY <2>2, ConcatAssociative
  <2>4. QED
    BY <2>1, <2>3 DEF sent
<1>10. UNCHANGED <<next, shown>>
  BY DEF IrqFrame, writer, hostVars
<1>11. QED
  BY <1>8, <1>9, <1>10, Zenon DEF Content

\* A host that takes a character shows the first one.
LEMMA HostShows ==
  ASSUME CInv, HostStep, HostTakes
  PROVE  /\ Content # <<>> /\ shown' = Head(Content) /\ Content' = Tail(Content)
         /\ UNCHANGED next
<1> DEFINE ringed == Ring(Pending)
<1>1. txFifo \in Seq(Char) /\ txFifo # <<>>
  BY DEF CInv, Types, HostTakes
<1>2. ringed \in Seq(Char)
  <2>1. tx_in \in Place /\ tx_out \in Place
    BY DEF CInv, Types
  <2>2. Pending \in 0..BUF_LEN - 1
    BY <2>1, WrapDown, Zenon DEF Pending, Place
  <2>3. Pending \in Nat
    BY <2>2, Sizes, SMT
  <2>4. QED
    BY <2>3, RingIsSeq, Zenon DEF CInv
<1>3. /\ shown' = Head(txFifo) /\ txFifo' = Tail(txFifo) /\ ringed' = ringed
      /\ UNCHANGED next
  BY Zenon DEF HostTakes, HostStep, ring, writer, Ring, Pending
<1>4. Content = txFifo \o ringed /\ Content' = Tail(txFifo) \o ringed
  BY <1>3, Zenon DEF Content
<1> HIDE DEF ringed
<1>5. Content # <<>> /\ Head(Content) = Head(txFifo)
  BY <1>1, <1>2, <1>4, SMT
<1>6. Tail(Content) = Tail(txFifo) \o ringed
  BY <1>1, <1>2, <1>4, SMT
<1>7. QED
  BY <1>3, <1>4, <1>5, <1>6

\* Every step of the console is a step of the pipe or none at all.
LEMMA StepIsPipe ==
  ASSUME CInv, [ConsoleNext]_consoleVars
  PROVE  [Pipe!Accept \/ Pipe!Show]_<<Content, next, shown>>
<1>1. CASE WriteStep
  <2>1. CASE Advance /\ UNCHANGED irqs
    <3>1. WriteFrame
      BY <1>1 DEF WriteStep, WriteFrame
    <3> DEFINE added == Len(Content') - Len(Content)
    <3>2. /\ Pipe!IsStrictPrefix(Content, Content')
          /\ Content' = Content \o Pipe!Stream(next, added)
          /\ next' = (next + added) % Numbers /\ UNCHANGED shown
      <4>1. added = n
        BY <2>1, <3>1, AdvanceAccepts, Zenon
      <4> HIDE DEF added
      <4>2. QED
        BY <2>1, <3>1, <4>1, AdvanceAccepts, Zenon
    <3>3. Pipe!Accept
      BY <3>2, Zenon DEF Pipe!Accept, Content
    <3>4. QED
      BY <3>3
  <2>2. CASE Copy
    BY <1>1, <2>2, CopyKeepsContent, Zenon DEF WriteStep, WriteFrame
  <2>3. CASE (Call \/ Wait) /\ UNCHANGED <<ring, irqs>>
    BY <1>1, <2>3, Zenon
       DEF WriteStep, Call, Wait, ring, hostVars, Content, Ring, Pending
  <2>4. CASE Kick /\ UNCHANGED ring
    BY <1>1, <2>4, Zenon
       DEF WriteStep, Kick, ring, hostVars, Content, Ring, Pending
  <2>5. QED
    BY <1>1, <2>1, <2>2, <2>3, <2>4 DEF WriteStep
<1>2. CASE Irq
  <2>1. CASE Transmit /\ UNCHANGED <<rx_in, rxFifo>>
    BY <1>2, <2>1, TransmitKeepsContent, Zenon DEF Irq, IrqFrame
  <2>2. CASE UNCHANGED <<ring, txFifo>>
    BY <1>2, <2>2, Zenon DEF Irq, writer, ring, hostVars, Content, Ring, Pending
  <2>3. QED
    BY <1>2, <2>1, <2>2 DEF Irq
<1>3. CASE TimerIrq
  BY <1>3, Zenon DEF TimerIrq, writer, ring, hostVars, Content, Ring, Pending
<1>4. CASE HostStep
  <2>1. CASE HostTakes
    <3>1. Pipe!Show
      BY <1>4, <2>1, HostShows, Zenon DEF Pipe!Show, Content
    <3>2. QED
      BY <3>1
  <2>2. CASE ~HostTakes
    BY <1>4, <2>2, Zenon DEF HostStep, HostTypes, HostComesOrGoes, writer, ring,
                             hostVars, Content, Ring, Pending
  <2>3. QED
    BY <2>1, <2>2
<1>5. CASE UNCHANGED consoleVars
  BY <1>5, Zenon DEF consoleVars, writer, ring, hostVars, Content, Ring, Pending
<1>6. QED
  BY <1>1, <1>2, <1>3, <1>4, <1>5 DEF ConsoleNext

\* The console implements the pipe: whatever write accepts is shown each once
\* and in order, however the routine, the timer and the host run in between.
THEOREM ConsoleImplementsPipe == ConsoleSpec => ConsoleIsPipe
<1>1. ConsoleInit => Pipe!PipeInit
  <2> SUFFICES ASSUME ConsoleInit PROVE Pipe!PipeInit
    OBVIOUS
  <2>1. Pending = 0 /\ txFifo = <<>> /\ next = 0 /\ shown = Numbers
    BY WrapDown, Sizes, SMT DEF Pending, ConsoleInit
  <2>2. Types
    BY InitCInv DEF CInv
  <2>3. Ring(0) \in Seq(Char) /\ Len(Ring(0)) = 0
    BY <2>2, RingIsSeq, SMT
  <2>4. Ring(0) = <<>> /\ <<>> \o Ring(0) = <<>>
    BY <2>3, SMT
  <2>5. QED
    BY <2>1, <2>4 DEF Pipe!PipeInit, Pipe!None
<1>2. CInv /\ [ConsoleNext]_consoleVars => [Pipe!Accept \/ Pipe!Show]_Pipe!pipeVars
  BY StepIsPipe, Zenon DEF Pipe!pipeVars, Content
<1>3. QED
  BY <1>1, <1>2, Invariance, PTL DEF ConsoleSpec, ConsoleIsPipe, Pipe!PipeSpec
=============================================================================

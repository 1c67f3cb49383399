---------------------------- MODULE UsbTask_proofs ----------------------------
(***************************************************************************)
(* Proofs about the USB host task: the address pool, the release of a       *)
(* device that has gone, and the endpoints of the MIDI driver, for every    *)
(* size of the pool, every kind of port, any devices and any number of      *)
(* failed transfers.                                                       *)
(***************************************************************************)
EXTENDS UsbTask, FiniteSetTheorems, SequenceTheorems, Recursion, TLAPS

(***************************************************************************)
(* The invariant.                                                          *)
(***************************************************************************)
Lines == {"SE0", "HOST", "SE1"}
PcPlace == {"irq", "clear", "task"} \cup Enumerating
DevAddress == {0, 1}
Slot == [addr : DevAddress, ep : {"dev0", "midi"}]
Pool == [Entry -> Slot]

ControlTypes ==
  /\ port \in PortType /\ bus \in Lines /\ vbusState \in Lines /\ condet \in BOOLEAN
  /\ usb_task_state \in UsbState /\ pc \in PcPlace
  /\ bAddress \in DevAddress /\ bPollEnable \in BOOLEAN /\ thePool \in Pool

\* Where the driver's Init is: it has an address, and is not enabled yet.
Addressed == {"setaddr", "idescr", "iconf", "setconf"}

Enumerates ==
  /\ pc \in Enumerating <=> usb_task_state = "CONFIGURING"
  /\ pc \in Addressed => bAddress = 1
  /\ pc = "init" => bAddress = 0
  /\ pc \in Addressed => ~bPollEnable
  /\ bAddress = 0 => ~bPollEnable

\* What the host knows of the bus.  With slow hands it misses no change from
\* or to SE0, as the interrupt of one is pending until it has looked.
BusKnown ==
  /\ ~port.illegal => bus # "SE1" /\ vbusState # "SE1"
  /\ pc = "clear" => condet
  /\ usb_task_state \notin Detached /\ pc \notin {"clear", "task"} => vbusState = "HOST"
  /\ port.slow =>
       /\ ~condet => (vbusState = "SE0" <=> bus = "SE0")
       /\ condet /\ pc = "clear" => vbusState = bus
       /\ condet /\ pc # "clear" => (vbusState = "SE0" <=> bus # "SE0")
       /\ usb_task_state \notin Detached /\ pc = "clear" => vbusState = "SE0"

\* The ports on which a disconnect is not hidden from the task.
Sound == port.slow \/ ~port.illegal

\* A pool with one entry for address a, or none if a is 0.
Holds(pool, a) ==
  \/ a = 0 /\ \A e \in Entry : pool[e].addr = 0
  \/ a = 1 /\ \E x \in Entry : \A e \in Entry : pool[e].addr = IF e = x THEN 1 ELSE 0

Owned(pool) == \A e \in Entry : pool[e].addr # 0 => pool[e].ep = "midi"

Pooled ==
  Sound =>
    /\ usb_task_state \notin Detached => vbusState # "SE1"
    /\ usb_task_state \notin {"CONFIGURING", "RUNNING"} \/ pc = "descr" => bAddress = 0
    /\ pc # "default"
    /\ Holds(thePool, bAddress)
    /\ pc \in {"iconf", "setconf"} \/ bPollEnable => Owned(thePool)

PoolInv == ControlTypes /\ Enumerates /\ BusKnown /\ Pooled

\* The device, and the search among its configurations.  What the search
\* finds is right if the device is regular.
Dev == [addr : DevAddress, conf : 0..255, desc : Devices]
Search == [vendor : BOOLEAN, i : 1..255, conf : 0..255]

\* The endpoints of d that the driver may use in configuration c, and whether
\* the endpoint numbers in and out speak to them.
Mine(d, c) == {u[2] : u \in {v \in Usable(d) : v[1] = c}}

Covers(mine, in, out) ==
  /\ mine # {}
  /\ (\E e \in mine : e.in) => \E e \in mine : e.in /\ e.num = in
  /\ (\E e \in mine : ~e.in) => \E e \in mine : ~e.in /\ e.num = out

SearchInv ==
  /\ dev \in Dev /\ search \in Search
  /\ dev.addr = 0 => dev.conf = 0
  /\ pc \notin {"iconf", "setconf"} => search = NoSearch
  /\ pc = "iconf" /\ dev.addr = 1 =>
       /\ search.i \in DOMAIN dev.desc.confs
       /\ Regular(dev.desc) => \A c \in DOMAIN dev.desc.confs :
            search.vendor \/ c < search.i => Offers(dev.desc, c, FALSE) = {}
  /\ pc = "setconf" /\ dev.addr = 1 =>
       /\ search.conf # 0
       /\ Regular(dev.desc) => Covers(Mine(dev.desc, search.conf), epIn, epOut)
  /\ bPollEnable /\ dev.addr = 1 /\ dev.conf # 0 /\ Regular(dev.desc) =>
       Covers(Mine(dev.desc, dev.conf), epIn, epOut)

Noticed ==
  port.slow /\ bPollEnable =>
    \/ dev.addr = 1 /\ dev.conf # 0 /\ bus # "SE0"
    \/ condet
    \/ pc = "task" /\ vbusState = "SE0"

DeviceInv == PoolInv /\ SearchInv /\ Noticed

-----------------------------------------------------------------------------
(***************************************************************************)
(* The operations of the pool.                                             *)
(***************************************************************************)
LEMMA FreeEmpties ==
  ASSUME NEW pool \in Pool, NEW a \in DevAddress
  PROVE  /\ FreeAddress(pool, a) \in Pool
         /\ Holds(pool, a) => Holds(FreeAddress(pool, a), 0)
<1> DEFINE q == FreeAddress(pool, a)
<1>1. FreeEntry \in Slot /\ FreeEntry.addr = 0
  BY DEF FreeEntry, Slot, DevAddress
<1>2. q \in Pool
  BY <1>1 DEF FreeAddress, Pool
<1>3. ASSUME Holds(pool, a), NEW e \in Entry PROVE q[e].addr = 0
  <2>1. CASE FirstWith(pool, e, a)
    BY <1>1, <2>1 DEF FreeAddress
  <2>2. CASE ~FirstWith(pool, e, a)
    <3>1. q[e] = pool[e]
      BY <2>2 DEF FreeAddress
    <3>2. CASE a = 0
      BY <1>3, <3>1, <3>2 DEF Holds
    <3>3. CASE a = 1
      <4>1. PICK x \in Entry : \A f \in Entry : pool[f].addr = IF f = x THEN 1 ELSE 0
        BY <1>3, <3>3 DEF Holds
      <4>2. \A f \in Entry : f < x => pool[f].addr # 1
        BY <4>1, TaskAssumption DEF Entry
      <4>3. FirstWith(pool, x, a)
        BY <3>3, <4>1, <4>2 DEF FirstWith
      <4>4. e # x
        BY <2>2, <4>3
      <4> QED BY <3>1, <4>1, <4>4
    <3> QED BY <3>2, <3>3 DEF DevAddress
  <2> QED BY <2>1, <2>2
<1> QED BY <1>2, <1>3 DEF Holds

LEMMA AllocTakes ==
  ASSUME NEW pool \in Pool, NEW e \in Entry, FirstWith(pool, e, 0)
  PROVE  /\ Alloc(pool, e) \in Pool
         /\ Holds(pool, 0) => Holds(Alloc(pool, e), 1)
<1> DEFINE q == Alloc(pool, e)
<1>1. q \in Pool
  BY DEF Alloc, Pool, Slot, DevAddress
<1>2. \A f \in Entry : q[f].addr = IF f = e THEN 1 ELSE pool[f].addr
  BY DEF Alloc, Pool, Slot
<1>3. Holds(pool, 0) => \A f \in Entry : q[f].addr = IF f = e THEN 1 ELSE 0
  BY <1>2 DEF Holds
<1> QED BY <1>1, <1>3 DEF Holds

LEMMA SetEpKeeps ==
  ASSUME NEW pool \in Pool
  PROVE  /\ SetEpInfo(pool, 1) \in Pool
         /\ Holds(pool, 1) => Holds(SetEpInfo(pool, 1), 1) /\ Owned(SetEpInfo(pool, 1))
<1> DEFINE q == SetEpInfo(pool, 1)
           mine == [addr |-> 1, ep |-> "midi"]
<1>1. mine \in Slot /\ mine.addr = 1 /\ mine.ep = "midi"
  BY DEF Slot, DevAddress
<1>2. q = [e \in Entry |-> IF FirstWith(pool, e, 1) THEN mine ELSE pool[e]]
  BY DEF SetEpInfo
<1> HIDE DEF q, mine
<1>3. q \in Pool
  BY <1>1, <1>2 DEF Pool
<1>4. ASSUME Holds(pool, 1) PROVE Holds(q, 1) /\ Owned(q)
  <2>1. PICK x \in Entry : \A f \in Entry : pool[f].addr = IF f = x THEN 1 ELSE 0
    BY <1>4 DEF Holds
  <2>2. \A f \in Entry : f < x => pool[f].addr # 1
    BY <2>1, TaskAssumption DEF Entry
  <2>3. \A e \in Entry : FirstWith(pool, e, 1) <=> e = x
    BY <2>1, <2>2 DEF FirstWith
  <2>4. \A e \in Entry : q[e] = IF e = x THEN mine ELSE pool[e]
    BY <1>2, <2>3
  <2>5. \A e \in Entry : q[e].addr = IF e = x THEN 1 ELSE 0
    BY <1>1, <2>1, <2>4
  <2>6. \A e \in Entry : q[e].addr # 0 => q[e].ep = "midi"
    BY <1>1, <2>4, <2>5
  <2> QED BY <2>5, <2>6 DEF Holds, Owned
<1> QED BY <1>3, <1>4 DEF q

-----------------------------------------------------------------------------
(***************************************************************************)
(* The pool keeps to the driver: PoolInv is an invariant.                  *)
(***************************************************************************)
DriverTypes == bAddress \in DevAddress /\ bPollEnable \in BOOLEAN /\ thePool \in Pool

Wires == <<port, bus, condet, vbusState>>

LEMMA InitPool == Init => PoolInv
<1> SUFFICES ASSUME Init PROVE PoolInv
  OBVIOUS
<1> USE DEF Init
<1>1. FreeEntry \in Slot /\ FreeEntry.addr = 0
  BY DEF FreeEntry, Slot, DevAddress
<1>2. ControlTypes
  BY <1>1, TaskAssumption DEF ControlTypes, Lines, UsbState, Detached, PcPlace, DevAddress, Pool
<1>3. Enumerates
  BY DEF Enumerates, Enumerating, Addressed
<1>4. BusKnown
  BY DEF BusKnown, Detached
<1>5. Pooled
  BY <1>1 DEF Pooled, Detached, Holds
<1> QED BY <1>2, <1>3, <1>4, <1>5 DEF PoolInv

\* A step that leaves the wires alone, away from the interrupt handler.
LEMMA WiresStay ==
  ASSUME BusKnown, UNCHANGED Wires, pc # "clear", pc' # "clear",
         usb_task_state' \notin Detached /\ pc' # "task" => vbusState = "HOST"
  PROVE  BusKnown'
BY DEF BusKnown, Wires

\* What a step of an enumeration may do to the place and the task's state.
Goes ==
  \/ usb_task_state' = "CONFIGURING" /\ pc' \in Enumerating
  \/ usb_task_state' \in {"ERROR", "RUNNING"} /\ pc' = "irq"

LEMMA EnumeratingWires ==
  ASSUME PoolInv, pc \in Enumerating, UNCHANGED Wires, Goes
  PROVE  /\ BusKnown' /\ port' = port
         /\ Sound' => vbusState' # "SE1"
         /\ usb_task_state' \in UsbState /\ pc' \in PcPlace
         /\ pc' \in Enumerating <=> usb_task_state' = "CONFIGURING"
         /\ usb_task_state' \notin Detached
         /\ port' \in PortType /\ bus' \in Lines /\ vbusState' \in Lines /\ condet' \in BOOLEAN
<1>1. usb_task_state = "CONFIGURING"
  BY DEF PoolInv, Enumerates
<1>2. vbusState = "HOST"
  BY <1>1 DEF PoolInv, BusKnown, Enumerating, Detached
<1>3. pc # "clear" /\ pc' # "clear"
  BY DEF Enumerating, Goes
<1>4. BusKnown'
  BY <1>2, <1>3, WiresStay DEF PoolInv
<1> QED
  BY <1>2, <1>4 DEF Wires, Goes, PoolInv, ControlTypes, UsbState, PcPlace, Enumerating, Detached

\* The outcomes of a step of the driver's Init.
DriverStays == UNCHANGED <<bAddress, bPollEnable, thePool>>

Released ==
  /\ thePool' = FreeAddress(thePool, bAddress)
  /\ bAddress' = 0
  /\ bPollEnable' = FALSE

\* AttemptConfig calls Init again, or Configuring returns.
Fails == 
  \/ usb_task_state' = usb_task_state /\ pc' = "init"
  \/ usb_task_state' = "ERROR" /\ pc' = "irq"

LEMMA AttemptFailsFails ==
  ASSUME NEW r, NEW d, AttemptFails(r, d)
  PROVE  Fails
BY DEF AttemptFails, Configured, Fails

\* A step of Init that fails leaves a free pool behind.
LEMMA FailingStep ==
  ASSUME PoolInv, pc \in Enumerating, UNCHANGED Wires, Fails,
         Released \/ (DriverStays /\ bAddress = 0)
  PROVE  PoolInv'
<1>0. usb_task_state = "CONFIGURING"
  BY DEF PoolInv, Enumerates
<1>1. Goes
  BY <1>0 DEF Fails, Goes, Enumerating
<1>2. pc' = "init" \/ (pc' = "irq" /\ usb_task_state' = "ERROR")
  BY DEF Fails
<1>3. thePool \in Pool /\ bAddress \in DevAddress /\ bPollEnable \in BOOLEAN
  BY DEF PoolInv, ControlTypes
<1>4. bAddress' = 0 /\ bPollEnable' = FALSE
  BY DEF Released, DriverStays, PoolInv, Enumerates
<1>5. thePool' \in Pool /\ (Sound => Holds(thePool', 0))
  <2>1. CASE Released
    BY <1>3, <2>1, FreeEmpties DEF Released, PoolInv, Pooled
  <2>2. CASE DriverStays /\ bAddress = 0
    BY <1>3, <2>2 DEF DriverStays, PoolInv, Pooled
  <2> QED BY <2>1, <2>2
<1>6. ControlTypes'
  BY <1>1, <1>4, <1>5, EnumeratingWires DEF ControlTypes, DevAddress
<1>7. Enumerates'
  BY <1>1, <1>2, <1>4, EnumeratingWires DEF Enumerates, Addressed
<1>8. Pooled'
  BY <1>1, <1>2, <1>4, <1>5, EnumeratingWires DEF Pooled, Sound
<1> QED BY <1>1, <1>6, <1>7, <1>8, EnumeratingWires DEF PoolInv

\* A step of Init that goes on with the address it has.
LEMMA AddressedStep ==
  ASSUME PoolInv, pc \in Enumerating, UNCHANGED Wires,
         usb_task_state' = usb_task_state, pc' \in Addressed,
         bAddress' = 1, bPollEnable' = FALSE,
         thePool' \in Pool,
         Sound => Holds(thePool', 1) /\ (pc' \in {"iconf", "setconf"} => Owned(thePool'))
  PROVE  PoolInv'
<1>1. Goes
  BY DEF PoolInv, Enumerates, Goes, Enumerating, Addressed
<1>2. ControlTypes'
  BY <1>1, EnumeratingWires DEF ControlTypes, DevAddress
<1>3. Enumerates'
  BY <1>1, EnumeratingWires DEF Enumerates, Addressed
<1>4. usb_task_state' = "CONFIGURING" /\ pc' # "descr" /\ pc' # "default"
  BY DEF PoolInv, Enumerates, Addressed
<1>5. Pooled'
  BY <1>1, <1>4, EnumeratingWires DEF Pooled, Sound
<1> QED BY <1>1, <1>2, <1>3, <1>5, EnumeratingWires DEF PoolInv

LEMMA PoolGetDevDescr == PoolInv /\ GetDevDescr => PoolInv'
<1> SUFFICES ASSUME PoolInv, GetDevDescr PROVE PoolInv'
  OBVIOUS
<1>1. UNCHANGED Wires /\ DriverStays /\ pc \in Enumerating
  BY DEF GetDevDescr, Wires, DriverStays, driver, environment, Enumerating
<1>2. usb_task_state = "CONFIGURING"
  BY <1>1 DEF PoolInv, Enumerates
<1>3. \/ usb_task_state' = usb_task_state /\ pc' = (IF bAddress = 0 THEN "init" ELSE "default")
      \/ usb_task_state' = "ERROR" /\ pc' = "irq"
  BY DEF GetDevDescr, Configured
<1>4. Goes
  BY <1>2, <1>3 DEF Goes, Enumerating
<1>5. Sound => bAddress = 0
  BY DEF PoolInv, Pooled, GetDevDescr
<1>6. ControlTypes'
  BY <1>1, <1>4, EnumeratingWires DEF ControlTypes, DriverStays, PoolInv
<1>7. Enumerates'
  BY <1>1, <1>3, <1>4, EnumeratingWires DEF Enumerates, Addressed, DriverStays, PoolInv
<1>8. bAddress = 0 => bPollEnable = FALSE
  BY DEF PoolInv, Enumerates, ControlTypes
<1>9. Pooled'
  BY <1>1, <1>3, <1>4, <1>5, <1>8, EnumeratingWires DEF Pooled, Sound, DriverStays, PoolInv
<1> QED BY <1>1, <1>4, <1>6, <1>7, <1>9, EnumeratingWires DEF PoolInv

\* Reached only where a disconnect may have been hidden from the task.
LEMMA PoolDefaultAddressing == PoolInv /\ DefaultAddressing => PoolInv'
<1> SUFFICES ASSUME PoolInv, DefaultAddressing PROVE PoolInv'
  OBVIOUS
<1>1. UNCHANGED Wires /\ UNCHANGED <<bAddress, bPollEnable>> /\ pc \in Enumerating /\ pc = "default"
  BY DEF DefaultAddressing, Wires, Enumerating
<1>2. ~Sound
  BY <1>1 DEF PoolInv, Pooled
<1>3. usb_task_state' \in {"ERROR", "RUNNING"} /\ pc' = "irq"
  BY DEF DefaultAddressing, Configured
<1>4. Goes
  BY <1>3 DEF Goes
<1>5. thePool \in Pool
  BY DEF PoolInv, ControlTypes
<1>6. thePool' \in Pool
  <2>1. CASE thePool' = thePool
    BY <1>5, <2>1
  <2>2. ASSUME NEW e \in Entry, FirstWith(thePool, e, 0),
               thePool' = Alloc(thePool, e) \/ thePool' = FreeAddress(Alloc(thePool, e), 1)
        PROVE  thePool' \in Pool
    BY <1>5, <2>2, AllocTakes, FreeEmpties DEF DevAddress
  <2> QED BY <2>1, <2>2 DEF DefaultAddressing
<1>7. ControlTypes'
  BY <1>1, <1>4, <1>6, EnumeratingWires DEF ControlTypes, PoolInv
<1>8. Enumerates'
  BY <1>1, <1>3, <1>4, EnumeratingWires DEF Enumerates, Addressed, PoolInv
<1>9. Pooled'
  BY <1>1, <1>2, <1>4, EnumeratingWires DEF Pooled, Sound
<1> QED BY <1>1, <1>4, <1>7, <1>8, <1>9, EnumeratingWires DEF PoolInv

LEMMA PoolInitFirst == PoolInv /\ InitFirst => PoolInv'
<1> SUFFICES ASSUME PoolInv, InitFirst PROVE PoolInv'
  OBVIOUS
<1>1. UNCHANGED Wires /\ pc \in Enumerating /\ bAddress = 0 /\ bPollEnable = FALSE
  BY DEF InitFirst, Wires, Enumerating, PoolInv, Enumerates, ControlTypes
<1>2. thePool \in Pool /\ (Sound => Holds(thePool, 0))
  BY <1>1 DEF PoolInv, ControlTypes, Pooled
<1>3. ASSUME NEW e \in Entry, FirstWith(thePool, e, 0), thePool' = Alloc(thePool, e),
             bAddress' = 1, Proceed("setaddr"), UNCHANGED bPollEnable
      PROVE  PoolInv'
  <2>1. thePool' \in Pool /\ (Sound => Holds(thePool', 1))
    BY <1>2, <1>3, AllocTakes
  <2> QED BY <1>1, <1>3, <2>1, AddressedStep DEF Proceed, Addressed
<1>4. ASSUME AttemptFails("error", dev), UNCHANGED driver PROVE PoolInv'
  <2>1. Fails /\ DriverStays
    BY <1>4, AttemptFailsFails DEF driver, DriverStays
  <2> QED BY <1>1, <2>1, FailingStep
<1>5. ASSUME NEW r, ReleaseDriver, AttemptFails(r, dev) PROVE PoolInv'
  <2>1. Fails /\ Released
    BY <1>5, AttemptFailsFails DEF ReleaseDriver, ReleaseAddress, Released
  <2> QED BY <1>1, <2>1, FailingStep
<1> QED BY <1>3, <1>4, <1>5 DEF InitFirst

LEMMA PoolInitSetAddr == PoolInv /\ InitSetAddr => PoolInv'
<1> SUFFICES ASSUME PoolInv, InitSetAddr PROVE PoolInv'
  OBVIOUS
<1>1. UNCHANGED Wires /\ pc \in Enumerating /\ bAddress = 1 /\ bPollEnable = FALSE
  BY DEF InitSetAddr, Wires, Enumerating, Addressed, PoolInv, Enumerates, ControlTypes
<1>2. thePool \in Pool /\ (Sound => Holds(thePool, 1))
  BY <1>1 DEF PoolInv, ControlTypes, Pooled
<1>3. ASSUME Proceed("idescr"), UNCHANGED driver PROVE PoolInv'
  BY <1>1, <1>2, <1>3, AddressedStep DEF Proceed, Addressed, driver
<1>4. ASSUME NEW r, NEW d, thePool' = FreeAddress(thePool, bAddress), bAddress' = 0,
             UNCHANGED bPollEnable, AttemptFails(r, d)
      PROVE  PoolInv'
  BY <1>1, <1>4, AttemptFailsFails, FailingStep DEF Released
<1> QED BY <1>3, <1>4 DEF InitSetAddr

LEMMA PoolInitDescr == PoolInv /\ InitDescr => PoolInv'
<1> SUFFICES ASSUME PoolInv, InitDescr PROVE PoolInv'
  OBVIOUS
<1>1. UNCHANGED Wires /\ pc \in Enumerating /\ bAddress = 1 /\ bPollEnable = FALSE
  BY DEF InitDescr, Wires, Enumerating, Addressed, PoolInv, Enumerates, ControlTypes
<1>2. thePool \in Pool /\ (Sound => Holds(thePool, 1))
  BY <1>1 DEF PoolInv, ControlTypes, Pooled
<1>3. ASSUME thePool' = SetEpInfo(thePool, bAddress), Proceed("iconf"),
             UNCHANGED <<bAddress, bPollEnable>>
      PROVE  PoolInv'
  BY <1>1, <1>2, <1>3, SetEpKeeps, AddressedStep DEF Proceed, Addressed
<1>4. ASSUME NEW r, InitReleases(r, dev) PROVE PoolInv'
  <2>1. Fails /\ Released
    BY <1>4, AttemptFailsFails DEF InitReleases, ReleaseDriver, ReleaseAddress, Released
  <2> QED BY <1>1, <2>1, FailingStep
<1> QED BY <1>3, <1>4 DEF InitDescr

LEMMA PoolInitConf == PoolInv /\ InitConf => PoolInv'
<1> SUFFICES ASSUME PoolInv, InitConf PROVE PoolInv'
  OBVIOUS
<1>1. UNCHANGED Wires /\ pc \in Enumerating /\ bAddress = 1 /\ bPollEnable = FALSE
  BY DEF InitConf, Wires, Enumerating, Addressed, PoolInv, Enumerates, ControlTypes
<1>2. thePool \in Pool /\ (Sound => Holds(thePool, 1) /\ Owned(thePool))
  BY <1>1 DEF PoolInv, ControlTypes, Pooled, InitConf
<1>3. ASSUME NEW s, ConfFound(s) PROVE PoolInv'
  BY <1>1, <1>2, <1>3, SetEpKeeps, AddressedStep DEF ConfFound, Proceed, Addressed
<1>4. ASSUME NEW last, ConfNext(last) PROVE PoolInv'
  BY <1>1, <1>2, <1>4, AddressedStep DEF ConfNext, Proceed, Addressed
<1>5. ASSUME NEW r, ReleaseAddress, AttemptFails(r, dev) PROVE PoolInv'
  <2>1. Fails /\ Released
    BY <1>5, AttemptFailsFails DEF ReleaseAddress, Released
  <2> QED BY <1>1, <2>1, FailingStep
<1>6. ASSUME NEW r, InitReleases(r, dev) PROVE PoolInv'
  BY <1>5, <1>6 DEF InitReleases, ReleaseDriver
<1> QED BY <1>3, <1>4, <1>5, <1>6 DEF InitConf

LEMMA PoolInitSetConf == PoolInv /\ InitSetConf => PoolInv'
<1> SUFFICES ASSUME PoolInv, InitSetConf PROVE PoolInv'
  OBVIOUS
<1>1. UNCHANGED Wires /\ pc = "setconf" /\ pc \in Enumerating /\ bAddress = 1
  BY DEF InitSetConf, Wires, Enumerating, Addressed, PoolInv, Enumerates, ControlTypes
<1>2. thePool \in Pool /\ (Sound => Holds(thePool, 1) /\ Owned(thePool))
  BY <1>1 DEF PoolInv, ControlTypes, Pooled
<1>3. ASSUME bPollEnable' = TRUE, Configured("RUNNING"), UNCHANGED <<bAddress, thePool>>
      PROVE  PoolInv'
  <2>1. Goes /\ usb_task_state' = "RUNNING" /\ pc' = "irq"
    BY <1>3 DEF Configured, Goes
  <2>2. ControlTypes'
    BY <1>1, <1>2, <1>3, <2>1, EnumeratingWires DEF ControlTypes, DevAddress
  <2>3. Enumerates'
    BY <1>1, <1>3, <2>1, EnumeratingWires DEF Enumerates, Addressed
  <2>4. Pooled'
    BY <1>1, <1>2, <1>3, <2>1, EnumeratingWires DEF Pooled, Sound
  <2> QED BY <1>1, <2>1, <2>2, <2>3, <2>4, EnumeratingWires DEF PoolInv
<1>4. ASSUME NEW r, NEW d, InitReleases(r, d) PROVE PoolInv'
  <2>1. Fails /\ Released
    BY <1>4, AttemptFailsFails DEF InitReleases, ReleaseDriver, ReleaseAddress, Released
  <2> QED BY <1>1, <2>1, FailingStep
<1> QED BY <1>3, <1>4 DEF InitSetConf

\* What the task makes of the bus.
LEMMA AfterVbusKnown ==
  ASSUME PoolInv, pc = "task"
  PROVE  /\ AfterVbus \in UsbState \ {"CONFIGURING"}
         /\ AfterVbus \notin Detached => vbusState = "HOST"
         /\ AfterVbus \in {"ILLEGAL", "INITIALIZE", "SETTLE", usb_task_state}
         /\ usb_task_state \notin Detached /\ AfterVbus \in Detached => vbusState \in {"SE0", "SE1"}
         /\ AfterVbus = "ILLEGAL" => vbusState = "SE1" \/ usb_task_state = "ILLEGAL"
         /\ usb_task_state # "CONFIGURING"
<1>1. usb_task_state \in UsbState \ {"CONFIGURING"} /\ vbusState \in Lines
  BY DEF PoolInv, ControlTypes, Enumerates, Enumerating
<1> QED BY <1>1 DEF AfterVbus, UsbState, Detached, Lines

LEMMA PoolTaskInitialize == PoolInv /\ TaskInitialize => PoolInv'
<1> SUFFICES ASSUME PoolInv, TaskInitialize PROVE PoolInv'
  OBVIOUS
<1>1. /\ UNCHANGED Wires /\ pc = "task" /\ pc' = "irq"
      /\ usb_task_state' = "WAIT_FOR_DEVICE" /\ Released
  BY DEF TaskInitialize, Wires, environment, ReleaseDriver, ReleaseAddress, Released
<1>2. BusKnown'
  BY <1>1, WiresStay DEF PoolInv, Detached
<1>3. thePool \in Pool /\ bAddress \in DevAddress
  BY DEF PoolInv, ControlTypes
<1>4. thePool' \in Pool /\ (Sound => Holds(thePool', 0))
  BY <1>1, <1>3, FreeEmpties DEF Released, PoolInv, Pooled
<1>5. ControlTypes'
  BY <1>1, <1>4 DEF ControlTypes, PoolInv, Wires, Released, DevAddress, UsbState, Detached, PcPlace
<1>6. Enumerates'
  BY <1>1 DEF Enumerates, Enumerating, Addressed, Released
<1>7. Pooled'
  BY <1>1, <1>4 DEF Pooled, Sound, Detached, Released, Wires
<1> QED BY <1>2, <1>5, <1>6, <1>7 DEF PoolInv

\* A step of the task that goes on with the port, and not from RUNNING.
LEMMA PoolTaskGoesOn ==
  ASSUME PoolInv, pc = "task", UNCHANGED Wires, DriverStays,
         AfterVbus # "INITIALIZE",
         \/ usb_task_state' = AfterVbus /\ pc' = "irq"
         \/ /\ AfterVbus \in {"SETTLE", "WAIT_RESET_COMPLETE", "WAIT_SOF"}
            /\ usb_task_state' \in {"WAIT_RESET_COMPLETE", "WAIT_SOF", "WAIT_RESET"}
            /\ pc' = "irq"
         \/ /\ AfterVbus = "WAIT_RESET"
            /\ usb_task_state' = "CONFIGURING" /\ pc' = "descr"
  PROVE  PoolInv'
<1>1. usb_task_state' \in UsbState /\ (usb_task_state' \notin Detached => vbusState = "HOST")
  BY AfterVbusKnown DEF UsbState, Detached
<1>2. BusKnown'
  BY <1>1, WiresStay DEF PoolInv
<1>3. ControlTypes'
  BY <1>1 DEF ControlTypes, PoolInv, Wires, DriverStays, PcPlace, Enumerating
<1>4. pc' \in Enumerating <=> usb_task_state' = "CONFIGURING"
  BY AfterVbusKnown DEF Enumerating
<1>5. Enumerates'
  BY <1>4 DEF Enumerates, DriverStays, PoolInv, Addressed
<1>6. Sound => ((usb_task_state' \notin {"CONFIGURING", "RUNNING"} \/ pc' = "descr") => bAddress = 0)
  <2>1. CASE usb_task_state' = usb_task_state
    BY <2>1, AfterVbusKnown DEF PoolInv, Pooled
  <2>2. CASE usb_task_state # "RUNNING"
    BY <2>2, AfterVbusKnown DEF PoolInv, Pooled
  <2>3. CASE usb_task_state = "RUNNING" /\ usb_task_state' # "RUNNING"
    <3>1. usb_task_state \notin Detached
      BY <2>3 DEF Detached
    <3>2. Sound => vbusState # "SE1"
      BY <3>1 DEF PoolInv, Pooled
    <3>3. Sound => AfterVbus \in {"INITIALIZE", "RUNNING"}
      BY <2>3, <3>1, <3>2 DEF AfterVbus
    <3> QED BY <2>3, <3>3
  <2> QED BY <2>1, <2>2, <2>3
<1>7. Pooled'
  BY <1>1, <1>6 DEF Pooled, PoolInv, Sound, DriverStays, Wires
<1> QED BY <1>2, <1>3, <1>5, <1>7 DEF PoolInv

LEMMA PoolTask == PoolInv /\ Task => PoolInv'
<1> SUFFICES ASSUME PoolInv, Task PROVE PoolInv'
  OBVIOUS
<1>1. CASE TaskInitialize
  BY <1>1, PoolTaskInitialize
<1>2. CASE TaskWait
  BY <1>2, PoolTaskGoesOn DEF TaskWait, Wires, DriverStays, environment, driver
<1>3. CASE TaskReset
  BY <1>3, PoolTaskGoesOn DEF TaskReset, Wires, DriverStays, driver
<1>4. CASE TaskFrames
  BY <1>4, PoolTaskGoesOn DEF TaskFrames, Wires, DriverStays, environment, driver
<1>5. CASE TaskConfigure
  BY <1>5, PoolTaskGoesOn DEF TaskConfigure, Wires, DriverStays, environment, driver
<1> QED BY <1>1, <1>2, <1>3, <1>4, <1>5 DEF Task

\* The driver and the task's state stay, and the task is not about to run.
LEMMA InterruptStep ==
  ASSUME PoolInv, BusKnown', UNCHANGED <<port, usb_task_state>>, DriverStays,
         bus' \in Lines, vbusState' \in Lines, condet' \in BOOLEAN,
         \/ pc' = pc
         \/ pc \in {"irq", "clear"} /\ pc' \in {"clear", "task"},
         vbusState' = vbusState \/ pc = "irq",
         Sound /\ usb_task_state \notin Detached => vbusState' # "SE1"
  PROVE  PoolInv'
<1>1. ControlTypes'
  BY DEF ControlTypes, PoolInv, DriverStays, PcPlace
<1>2. Enumerates'
  BY DEF Enumerates, PoolInv, DriverStays, Enumerating, Addressed
<1>3. Pooled'
  BY DEF Pooled, PoolInv, DriverStays, Sound
<1> QED BY <1>1, <1>2, <1>3 DEF PoolInv

LEMMA PoolReadIrq == PoolInv /\ ReadIrq => PoolInv'
<1> SUFFICES ASSUME PoolInv, ReadIrq PROVE PoolInv'
  OBVIOUS
<1>1. /\ UNCHANGED <<port, bus, condet, usb_task_state>> /\ DriverStays /\ pc = "irq"
      /\ vbusState' = (IF condet THEN bus ELSE vbusState)
      /\ pc' = (IF condet THEN "clear" ELSE "task")
  BY DEF ReadIrq, environment, driver, DriverStays
<1>2. bus \in Lines /\ vbusState \in Lines /\ condet \in BOOLEAN /\ port \in PortType
  BY DEF PoolInv, ControlTypes
<1>3. BusKnown'
  BY <1>1, <1>2 DEF BusKnown, PoolInv, Detached, Lines
<1>4. Sound /\ usb_task_state \notin Detached => vbusState' # "SE1"
  <2>1. usb_task_state \notin Detached => vbusState = "HOST"
    BY <1>1 DEF PoolInv, BusKnown
  <2>2. ~port.illegal => bus # "SE1"
    BY DEF PoolInv, BusKnown
  <2>3. port.slow /\ condet => (vbusState = "SE0" <=> bus # "SE0")
    BY <1>1 DEF PoolInv, BusKnown
  <2> QED BY <1>1, <2>1, <2>2, <2>3 DEF Sound
<1> QED BY <1>1, <1>2, <1>3, <1>4, InterruptStep

LEMMA PoolClearIrq == PoolInv /\ ClearIrq => PoolInv'
<1> SUFFICES ASSUME PoolInv, ClearIrq PROVE PoolInv'
  OBVIOUS
<1>1. /\ UNCHANGED <<port, bus, vbusState, usb_task_state>> /\ DriverStays /\ pc = "clear"
      /\ condet' = FALSE /\ pc' = "task"
  BY DEF ClearIrq, driver, DriverStays
<1>2. bus \in Lines /\ vbusState \in Lines
  BY DEF PoolInv, ControlTypes
<1>3. BusKnown'
  BY <1>1 DEF BusKnown, PoolInv, Detached
<1>4. Sound /\ usb_task_state \notin Detached => vbusState' # "SE1"
  BY <1>1 DEF PoolInv, Pooled
<1> QED BY <1>1, <1>2, <1>3, <1>4, InterruptStep

LEMMA PoolBusChange ==
  ASSUME PoolInv, NEW b \in Lines, BusChange(b)
  PROVE  PoolInv'
<1>1. /\ UNCHANGED <<port, vbusState, usb_task_state, pc>> /\ DriverStays
      /\ bus' = b /\ b # bus
      /\ condet' = (condet \/ "SE0" \in {bus, b})
      /\ (b = "SE1" => port.illegal) /\ (port.slow => ~condet)
  BY DEF BusChange, driver, DriverStays
<1>2. bus \in Lines /\ vbusState \in Lines /\ condet \in BOOLEAN /\ port \in PortType
  BY DEF PoolInv, ControlTypes
<1>3. BusKnown'
  <2>1. (~port.illegal => bus # "SE1" /\ vbusState # "SE1")'
    BY <1>1 DEF PoolInv, BusKnown
  <2>2. (pc = "clear" => condet)'
    BY <1>1 DEF PoolInv, BusKnown
  <2>3. (usb_task_state \notin Detached /\ pc \notin {"clear", "task"} => vbusState = "HOST")'
    BY <1>1 DEF PoolInv, BusKnown
  <2>4. ASSUME port.slow
        PROVE  /\ ~condet /\ pc # "clear" /\ (vbusState = "SE0" <=> bus = "SE0")
               /\ condet' <=> "SE0" \in {bus, b}
    BY <1>1, <2>4 DEF PoolInv, BusKnown
  <2>5. port.slow => (~condet => (vbusState = "SE0" <=> bus = "SE0"))'
    BY <1>1, <1>2, <2>4 DEF Lines
  <2>6. port.slow => (condet /\ pc # "clear" => (vbusState = "SE0" <=> bus # "SE0"))'
    BY <1>1, <1>2, <2>4 DEF Lines
  <2>7. port.slow => pc' # "clear"
    BY <1>1, <2>4
  <2>8. port' = port
    BY <1>1
  <2> QED BY <2>1, <2>2, <2>3, <2>5, <2>6, <2>7, <2>8 DEF BusKnown
<1>4. Sound /\ usb_task_state \notin Detached => vbusState' # "SE1"
  BY <1>1 DEF PoolInv, Pooled
<1>5. condet' \in BOOLEAN
  BY <1>1, <1>2
<1> QED BY <1>1, <1>2, <1>3, <1>4, <1>5, InterruptStep

LEMMA PoolNext == PoolInv /\ [Next]_vars => PoolInv'
<1> SUFFICES ASSUME PoolInv, [Next]_vars PROVE PoolInv'
  OBVIOUS
<1>1. CASE ReadIrq \/ ClearIrq \/ Task
  BY <1>1, PoolReadIrq, PoolClearIrq, PoolTask
<1>2. CASE Enumerate
  BY <1>2, PoolGetDevDescr, PoolDefaultAddressing, PoolInitFirst, PoolInitSetAddr,
     PoolInitDescr, PoolInitConf, PoolInitSetConf DEF Enumerate
<1>3. ASSUME NEW b \in {"SE0", "HOST", "SE1"}, BusChange(b) PROVE PoolInv'
  BY <1>3, PoolBusChange DEF Lines
<1>4. CASE UNCHANGED vars
  BY <1>4 DEF vars, driver, PoolInv, ControlTypes, Enumerates, BusKnown, Pooled, Sound
<1> QED BY <1>1, <1>2, <1>3, <1>4 DEF Next, Host

LEMMA PoolAlways == Spec => []PoolInv
BY InitPool, PoolNext, PTL DEF Spec

LEMMA PoolFacts == PoolInv => PoolMatchesDriver
<1> SUFFICES ASSUME PoolInv, Sound
             PROVE  LET taken == {e \in Entry : thePool[e].addr # 0} IN
                    /\ Cardinality(taken) = bAddress
                    /\ \A e \in taken : bPollEnable => thePool[e].ep = "midi"
  BY DEF PoolMatchesDriver, Sound
<1> DEFINE taken == {e \in Entry : thePool[e].addr # 0}
<1>1. Holds(thePool, bAddress) /\ (bPollEnable => Owned(thePool))
  BY DEF PoolInv, Pooled
<1>2. CASE bAddress = 0 /\ \A e \in Entry : thePool[e].addr = 0
  <2>1. taken = {}
    BY <1>2
  <2> QED BY <1>2, <2>1, FS_EmptySet
<1>3. ASSUME bAddress = 1, NEW x \in Entry,
             \A e \in Entry : thePool[e].addr = IF e = x THEN 1 ELSE 0
      PROVE  Cardinality(taken) = bAddress
  <2>1. taken = {x}
    BY <1>3
  <2> QED BY <1>3, <2>1, FS_Singleton
<1>4. Cardinality(taken) = bAddress
  BY <1>1, <1>2, <1>3 DEF Holds
<1>5. \A e \in taken : bPollEnable => thePool[e].ep = "midi"
  BY <1>1 DEF Owned
<1> QED BY <1>4, <1>5

\* The pool holds exactly the address of the driver, and an enabled driver
\* owns its endpoints, whatever step of an enumeration fails or is interrupted
\* by the plug: USBH_MIDI::Init and Release (usbh_midi.cpp:157-288)
\* with AllocAddress and FreeAddress (address.h:142-271), for a pool of any
\* size and any number of failures.
THEOREM PoolIsTheDrivers == Spec => []PoolMatchesDriver
BY PoolFacts, PoolAlways, PTL

-----------------------------------------------------------------------------
(***************************************************************************)
(* The descriptor parser.  First what it does with one descriptor is shown  *)
(* not to depend on the pieces in which it comes (PieceByPiece); then what  *)
(* each kind of descriptor leads to, and with that a whole configuration    *)
(* (RegularIsRight).                                                        *)
(***************************************************************************)

(***************************************************************************)
(* Pieces of a sequence.                                                   *)
(***************************************************************************)
ByteSeq == Seq(Nat)
Take(q, n) == SubSeq(q, 1, n)
Drop(q, n) == Parser!Drop(q, n)

LEMMA DropFacts ==
  ASSUME NEW q \in ByteSeq, NEW n \in 0..Len(q)
  PROVE  /\ Drop(q, n) \in ByteSeq /\ Len(Drop(q, n)) = Len(q) - n
         /\ \A i \in 1..(Len(q) - n) : Drop(q, n)[i] = q[n + i]
BY SubSeqProperties DEF Drop, Parser!Drop, ByteSeq

LEMMA TakeFacts ==
  ASSUME NEW q \in ByteSeq, NEW n \in 0..Len(q)
  PROVE  /\ Take(q, n) \in ByteSeq /\ Len(Take(q, n)) = n
         /\ \A i \in 1..n : Take(q, n)[i] = q[i]
BY SubSeqProperties DEF Take, ByteSeq

LEMMA JoinFacts ==
  ASSUME NEW a \in ByteSeq, NEW b \in ByteSeq
  PROVE  /\ a \o b \in ByteSeq /\ Len(a \o b) = Len(a) + Len(b)
         /\ \A i \in 1..Len(a) : (a \o b)[i] = a[i]
         /\ \A i \in 1..Len(b) : (a \o b)[Len(a) + i] = b[i]
BY ConcatProperties DEF ByteSeq

LEMMA SameBytes ==
  ASSUME NEW a \in ByteSeq, NEW b \in ByteSeq, Len(a) = Len(b), \A i \in 1..Len(a) : a[i] = b[i]
  PROVE  a = b
BY SeqEqual DEF ByteSeq

LEMMA DropJoin ==
  ASSUME NEW a \in ByteSeq, NEW b \in ByteSeq
  PROVE  /\ \A n \in 0..Len(a) : Drop(a \o b, n) = Drop(a, n) \o b
         /\ \A m \in 0..Len(b) : Drop(a \o b, Len(a) + m) = Drop(b, m)
<1> DEFINE q == a \o b
<1>1. /\ q \in ByteSeq /\ Len(q) = Len(a) + Len(b) /\ Len(a) \in Nat /\ Len(b) \in Nat
      /\ \A i \in 1..Len(a) : q[i] = a[i]
      /\ \A i \in 1..Len(b) : q[Len(a) + i] = b[i]
  BY JoinFacts, LenProperties DEF ByteSeq
<1> HIDE DEF q
<1>2. ASSUME NEW n \in 0..Len(a) PROVE Drop(q, n) = Drop(a, n) \o b
  <2> DEFINE l == Drop(q, n)
             d == Drop(a, n)
             r == d \o b
  <2>1. /\ l \in ByteSeq /\ Len(l) = Len(q) - n /\ \A i \in 1..(Len(q) - n) : l[i] = q[n + i]
    BY <1>1, DropFacts
  <2>2. /\ d \in ByteSeq /\ Len(d) = Len(a) - n /\ \A i \in 1..(Len(a) - n) : d[i] = a[n + i]
    BY DropFacts
  <2> HIDE DEF d
  <2>3. /\ r \in ByteSeq /\ Len(r) = Len(d) + Len(b)
        /\ \A i \in 1..Len(d) : r[i] = d[i]
        /\ \A i \in 1..Len(b) : r[Len(d) + i] = b[i]
    BY <2>2, JoinFacts
  <2> HIDE DEF l, r
  <2>4. Len(l) = Len(r)
    BY <1>1, <2>1, <2>2, <2>3, SMT
  <2>5. ASSUME NEW i \in 1..Len(l) PROVE l[i] = r[i]
    <3>1. l[i] = q[n + i]
      BY <2>1, <2>5
    <3>2. CASE i <= Len(d)
      <4>1. i \in 1..Len(d) /\ i \in 1..(Len(a) - n) /\ n + i \in 1..Len(a)
        BY <1>1, <2>2, <3>2, SMT
      <4> QED BY <1>1, <2>2, <2>3, <3>1, <4>1
    <3>3. CASE i > Len(d)
      <4> DEFINE j == i - Len(d)
      <4>1. j \in 1..Len(b) /\ Len(d) + j = i /\ n + i = Len(a) + j
        BY <1>1, <2>1, <2>2, <3>3, SMT
      <4> HIDE DEF j
      <4> QED BY <1>1, <2>3, <3>1, <4>1
    <3> QED BY <1>1, <2>1, <2>2, <3>2, <3>3, SMT
  <2>6. l = r
    BY <2>1, <2>3, <2>4, <2>5, SameBytes
  <2> QED BY <2>6 DEF l, r, d
<1>3. ASSUME NEW m \in 0..Len(b) PROVE Drop(q, Len(a) + m) = Drop(b, m)
  <2> DEFINE n == Len(a) + m
             l == Drop(q, n)
             r == Drop(b, m)
  <2>1. n \in 0..Len(q) /\ Len(q) - n = Len(b) - m
    BY <1>1, SMT
  <2> HIDE DEF n
  <2>2. /\ l \in ByteSeq /\ Len(l) = Len(q) - n /\ \A i \in 1..(Len(q) - n) : l[i] = q[n + i]
    BY <1>1, <2>1, DropFacts
  <2>3. /\ r \in ByteSeq /\ Len(r) = Len(b) - m /\ \A i \in 1..(Len(b) - m) : r[i] = b[m + i]
    BY DropFacts
  <2> HIDE DEF l, r
  <2>4. ASSUME NEW i \in 1..Len(l) PROVE l[i] = r[i]
    <3>1. m + i \in 1..Len(b) /\ n + i = Len(a) + (m + i)
      BY <1>1, <2>1, <2>2, SMT DEF n
    <3> QED BY <1>1, <2>1, <2>2, <2>3, <3>1, <2>4
  <2>5. l = r
    BY <2>1, <2>2, <2>3, <2>4, SameBytes
  <2> QED BY <2>5 DEF l, r, n
<1> QED BY <1>2, <1>3 DEF q

\* x written over q behind its first n.
Write(q, n, x) == Take(q, n) \o x \o Drop(q, n + Len(x))

LEMMA WriteFacts ==
  ASSUME NEW q \in ByteSeq, NEW x \in ByteSeq, NEW n \in 0..Len(q)
  PROVE  /\ Write(q, n, x) \in ByteSeq
         /\ Len(Write(q, n, x)) = IF n + Len(x) <= Len(q) THEN Len(q) ELSE n + Len(x)
         /\ \A i \in 1..Len(x) : Write(q, n, x)[n + i] = x[i]
         /\ \A i \in 1..Len(q) : i <= n \/ n + Len(x) < i => Write(q, n, x)[i] = q[i]
<1> DEFINE t == Take(q, n)
           d == Drop(q, n + Len(x))
           u == t \o x
           w == u \o d
<1>1. t \in ByteSeq /\ Len(t) = n /\ \A i \in 1..n : t[i] = q[i]
  BY TakeFacts
<1>2. Len(x) \in Nat /\ Len(q) \in Nat /\ n \in Nat
  BY LenProperties, SMT DEF ByteSeq
<1>3. /\ d \in ByteSeq /\ Len(d) = IF n + Len(x) <= Len(q) THEN Len(q) - (n + Len(x)) ELSE 0
      /\ \A i \in 1..Len(d) : d[i] = q[(n + Len(x)) + i]
  <2>1. CASE n + Len(x) <= Len(q)
    <3>1. n + Len(x) \in 0..Len(q)
      BY <1>2, <2>1, SMT
    <3> QED BY <2>1, <3>1, DropFacts
  <2>2. CASE n + Len(x) > Len(q)
    <3>1. n + Len(x) + 1 \in Int /\ Len(q) \in Int /\ Len(q) < n + Len(x) + 1
      BY <1>2, <2>2, SMT
    <3>2. d = << >>
      BY <3>1, SubSeqEmpty DEF Drop, Parser!Drop
    <3>3. d \in ByteSeq /\ Len(d) = 0
      BY <3>2, EmptySeq DEF ByteSeq
    <3>4. ~(n + Len(x) <= Len(q)) /\ 1..0 = {}
      BY <1>2, <2>2, SMT
    <3> HIDE DEF d
    <3> QED BY <3>3, <3>4
  <2> QED BY <1>2, <2>1, <2>2, SMT
<1> HIDE DEF t, d
<1>4. /\ u \in ByteSeq /\ Len(u) = n + Len(x)
      /\ \A i \in 1..n : u[i] = q[i]
      /\ \A i \in 1..Len(x) : u[n + i] = x[i]
  BY <1>1, JoinFacts
<1> HIDE DEF u
<1>5. /\ w \in ByteSeq /\ Len(w) = (n + Len(x)) + Len(d)
      /\ \A i \in 1..(n + Len(x)) : w[i] = u[i]
      /\ \A i \in 1..Len(d) : w[(n + Len(x)) + i] = d[i]
  <2>1. /\ w \in ByteSeq /\ Len(w) = Len(u) + Len(d)
        /\ \A i \in 1..Len(u) : w[i] = u[i]
        /\ \A i \in 1..Len(d) : w[Len(u) + i] = d[i]
    BY <1>3, <1>4, JoinFacts
  <2> HIDE DEF w
  <2> QED BY <1>4, <2>1
<1>6. w = Write(q, n, x)
  BY DEF w, u, t, d, Write
<1> HIDE DEF w
<1>7. Len(w) = IF n + Len(x) <= Len(q) THEN Len(q) ELSE n + Len(x)
  <2>1. CASE n + Len(x) <= Len(q)
    <3>1. Len(w) = (n + Len(x)) + (Len(q) - (n + Len(x)))
      BY <1>3, <1>5, <2>1
    <3> QED BY <1>2, <2>1, <3>1, SMT
  <2>2. CASE ~(n + Len(x) <= Len(q))
    <3>1. Len(w) = (n + Len(x)) + 0
      BY <1>3, <1>5, <2>2
    <3> QED BY <1>2, <2>2, <3>1, SMT
  <2> QED BY <2>1, <2>2
<1>8. ASSUME NEW i \in 1..Len(x) PROVE w[n + i] = x[i]
  <2>1. n + i \in 1..(n + Len(x))
    BY <1>2, SMT
  <2> QED BY <1>4, <1>5, <2>1
<1>9. ASSUME NEW i \in 1..Len(q), i <= n \/ n + Len(x) < i PROVE w[i] = q[i]
  <2>1. CASE i <= n
    <3>1. i \in 1..n /\ i \in 1..(n + Len(x))
      BY <1>2, <2>1, SMT
    <3> QED BY <1>4, <1>5, <3>1
  <2>2. CASE n + Len(x) < i
    <3> DEFINE j == i - (n + Len(x))
    <3>1. (n + Len(x)) + j = i /\ j \in 1..Len(d)
      BY <1>2, <1>3, <2>2, SMT
    <3> HIDE DEF j
    <3> QED BY <1>3, <1>5, <3>1
  <2> QED BY <1>9, <2>1, <2>2
<1> QED BY <1>5, <1>6, <1>7, <1>8, <1>9

\* Two writes, the second behind the first, are one.
LEMMA WriteWrite ==
  ASSUME NEW q \in ByteSeq, NEW x \in ByteSeq, NEW y \in ByteSeq, NEW n \in 0..Len(q)
  PROVE  Write(Write(q, n, x), n + Len(x), y) = Write(q, n, x \o y)
<1> DEFINE w == Write(q, n, x)
           v == Write(w, n + Len(x), y)
           z == x \o y
           u == Write(q, n, z)
<1>1. Len(x) \in Nat /\ Len(y) \in Nat /\ Len(q) \in Nat /\ n \in Nat /\ n <= Len(q)
  BY LenProperties, SMT DEF ByteSeq
<1>2. /\ w \in ByteSeq /\ Len(w) = IF n + Len(x) <= Len(q) THEN Len(q) ELSE n + Len(x)
      /\ \A i \in 1..Len(x) : w[n + i] = x[i]
      /\ \A i \in 1..Len(q) : i <= n \/ n + Len(x) < i => w[i] = q[i]
  BY WriteFacts
<1> HIDE DEF w
<1> DEFINE m == n + Len(x)
<1>3. m \in 0..Len(w)
  BY <1>1, <1>2, SMT
<1> HIDE DEF m
<1>4. /\ v \in ByteSeq /\ Len(v) = IF m + Len(y) <= Len(w) THEN Len(w) ELSE m + Len(y)
      /\ \A i \in 1..Len(y) : v[m + i] = y[i]
      /\ \A i \in 1..Len(w) : i <= m \/ m + Len(y) < i => v[i] = w[i]
  <2>1. v = Write(w, m, y)
    BY DEF m
  <2> QED BY <1>2, <1>3, <2>1, WriteFacts
<1>5. /\ z \in ByteSeq /\ Len(z) = Len(x) + Len(y)
      /\ \A i \in 1..Len(x) : z[i] = x[i]
      /\ \A i \in 1..Len(y) : z[Len(x) + i] = y[i]
  BY JoinFacts
<1> HIDE DEF z
<1>6. /\ u \in ByteSeq /\ Len(u) = IF n + Len(z) <= Len(q) THEN Len(q) ELSE n + Len(z)
      /\ \A i \in 1..Len(z) : u[n + i] = z[i]
      /\ \A i \in 1..Len(q) : i <= n \/ n + Len(z) < i => u[i] = q[i]
  BY <1>5, WriteFacts
<1> HIDE DEF u, v
<1>7. Len(v) = Len(u) /\ Len(v) \in Nat
  <2>1. Len(w) = IF m <= Len(q) THEN Len(q) ELSE m
    BY <1>2 DEF m
  <2>2. Len(v) = IF m + Len(y) <= Len(w) THEN Len(w) ELSE m + Len(y)
    BY <1>4
  <2>3. Len(u) = IF m + Len(y) <= Len(q) THEN Len(q) ELSE m + Len(y)
    <3>1. Len(u) = IF n + Len(z) <= Len(q) THEN Len(q) ELSE n + Len(z)
      BY <1>6
    <3>2. n + Len(z) = m + Len(y)
      <4>1. Len(z) = Len(x) + Len(y)
        BY <1>5
      <4> QED BY <1>1, <4>1, SMT DEF m
    <3> QED BY <3>1, <3>2
  <2>4. m \in Nat
    BY <1>1, SMT DEF m
  <2> QED BY <1>1, <2>1, <2>2, <2>3, <2>4, SMT
<1>8. ASSUME NEW i \in 1..Len(v) PROVE v[i] = u[i]
  <2>1. CASE i <= n
    <3>1. i \in 1..Len(q) /\ i \in 1..Len(w) /\ i <= m
      BY <1>1, <1>2, <2>1, SMT DEF m
    <3> QED BY <1>2, <1>4, <1>6, <2>1, <3>1
  <2>2. CASE n < i /\ i <= m
    <3> DEFINE j == i - n
    <3>1. j \in 1..Len(x) /\ j \in 1..Len(z) /\ n + j = i /\ i \in 1..Len(w)
      BY <1>1, <1>2, <1>5, <2>2, SMT DEF m
    <3> HIDE DEF j
    <3> QED BY <1>2, <1>4, <1>5, <1>6, <2>2, <3>1
  <2>3. CASE m < i /\ i <= m + Len(y)
    <3> DEFINE j == i - m
    <3>1. j \in 1..Len(y) /\ m + j = i /\ n + (Len(x) + j) = i /\ Len(x) + j \in 1..Len(z)
      BY <1>1, <1>5, <2>3, SMT DEF m
    <3> HIDE DEF j
    <3>2. v[i] = y[j]
      BY <1>4, <3>1
    <3>3. u[i] = z[Len(x) + j]
      BY <1>6, <3>1
    <3> QED BY <1>5, <3>1, <3>2, <3>3
  <2>4. CASE m + Len(y) < i
    <3>1. i \in 1..Len(q) /\ i \in 1..Len(w) /\ n + Len(x) < i /\ n + Len(z) < i
      BY <1>1, <1>2, <1>4, <1>5, <1>7, <2>4, SMT DEF m
    <3> QED BY <1>2, <1>4, <1>6, <2>4, <3>1
  <2> QED BY <1>1, <1>7, <2>1, <2>2, <2>3, <2>4, SMT DEF m
<1>9. v = u
  BY <1>4, <1>6, <1>7, <1>8, SameBytes
<1> QED BY <1>9 DEF v, u, w, z, m

LEMMA TakeJoin ==
  ASSUME NEW a \in ByteSeq, NEW b \in ByteSeq
  PROVE  /\ \A n \in 0..Len(a) : Take(a \o b, n) = Take(a, n)
         /\ \A m \in 0..Len(b) : Take(a \o b, Len(a) + m) = a \o Take(b, m)
<1> DEFINE q == a \o b
<1>1. /\ q \in ByteSeq /\ Len(q) = Len(a) + Len(b) /\ Len(a) \in Nat /\ Len(b) \in Nat
      /\ \A i \in 1..Len(a) : q[i] = a[i]
      /\ \A i \in 1..Len(b) : q[Len(a) + i] = b[i]
  BY JoinFacts, LenProperties DEF ByteSeq
<1> HIDE DEF q
<1>2. ASSUME NEW n \in 0..Len(a) PROVE Take(q, n) = Take(a, n)
  <2>1. n \in 0..Len(q) /\ 1..n \subseteq 1..Len(a)
    BY <1>1, SMT
  <2>2. /\ Take(q, n) \in ByteSeq /\ Len(Take(q, n)) = n /\ \A i \in 1..n : Take(q, n)[i] = q[i]
    BY <1>1, <2>1, TakeFacts
  <2>3. /\ Take(a, n) \in ByteSeq /\ Len(Take(a, n)) = n /\ \A i \in 1..n : Take(a, n)[i] = a[i]
    BY TakeFacts
  <2> QED BY <1>1, <2>1, <2>2, <2>3, SameBytes
<1>3. ASSUME NEW m \in 0..Len(b) PROVE Take(q, Len(a) + m) = a \o Take(b, m)
  <2> DEFINE n == Len(a) + m
             l == Take(q, n)
             t == Take(b, m)
             r == a \o t
  <2>1. n \in 0..Len(q)
    BY <1>1, SMT
  <2> HIDE DEF n
  <2>2. /\ l \in ByteSeq /\ Len(l) = n /\ \A i \in 1..n : l[i] = q[i]
    BY <1>1, <2>1, TakeFacts
  <2>3. /\ t \in ByteSeq /\ Len(t) = m /\ \A i \in 1..m : t[i] = b[i]
    BY TakeFacts
  <2> HIDE DEF t
  <2>4. /\ r \in ByteSeq /\ Len(r) = Len(a) + Len(t)
        /\ \A i \in 1..Len(a) : r[i] = a[i]
        /\ \A i \in 1..Len(t) : r[Len(a) + i] = t[i]
    BY <2>3, JoinFacts
  <2> HIDE DEF l, r
  <2>5. Len(l) = Len(r)
    BY <2>2, <2>3, <2>4 DEF n
  <2>6. ASSUME NEW i \in 1..Len(l) PROVE l[i] = r[i]
    <3>1. CASE i <= Len(a)
      <4>1. i \in 1..Len(a) /\ i \in 1..n
        BY <1>1, <2>2, <3>1, SMT
      <4> QED BY <1>1, <2>2, <2>4, <4>1
    <3>2. CASE i > Len(a)
      <4> DEFINE j == i - Len(a)
      <4>1. j \in 1..m /\ j \in 1..Len(b) /\ Len(a) + j = i /\ i \in 1..n
        BY <1>1, <2>2, <3>2, SMT DEF n
      <4> HIDE DEF j
      <4> QED BY <1>1, <2>2, <2>3, <2>4, <4>1
    <3> QED BY <1>1, <2>2, <3>1, <3>2, SMT
  <2>7. l = r
    BY <2>2, <2>4, <2>5, <2>6, SameBytes
  <2> QED BY <2>7 DEF l, r, t, n
<1> QED BY <1>2, <1>3 DEF q

LEMMA WholeTake == ASSUME NEW q \in ByteSeq PROVE Take(q, Len(q)) = q /\ Drop(q, Len(q)) = <<>>
<1>1. Len(q) \in 0..Len(q) /\ Len(q) \in Nat /\ Len(q) - Len(q) = 0
  BY LenProperties, SMT DEF ByteSeq
<1>2. /\ Take(q, Len(q)) \in ByteSeq /\ Len(Take(q, Len(q))) = Len(q)
      /\ \A i \in 1..Len(q) : Take(q, Len(q))[i] = q[i]
  BY <1>1, TakeFacts
<1>3. Take(q, Len(q)) = q
  BY <1>2, SameBytes
<1>4. Len(Drop(q, Len(q))) = 0 /\ Drop(q, Len(q)) \in ByteSeq
  BY <1>1, DropFacts
<1>5. Drop(q, Len(q)) = <<>>
  BY <1>4, EmptySeq DEF ByteSeq
<1> QED BY <1>3, <1>5

(***************************************************************************)
(* The parser and its helpers.                                             *)
(***************************************************************************)
Fields ==
  [stateParseDescr : {0, 1, 4}, varBuffer : ByteSeq,
   pValue : Nat, valueSize : Nat, countDown : Nat, skipping : BOOLEAN, toSkip : Nat,
   dscrLen : Nat, dscrType : Nat, isMidiSearch : BOOLEAN, bTransferTypeMask : Nat,
   isGoodInterface : BOOLEAN, nEPs : Nat, confValue : Nat, epIn : 0..15, epOut : 0..15]

\* Where the value parser writes next.
Place(s) == s.pValue + s.valueSize - s.countDown

ValueReady(s) == s.countDown <= s.valueSize /\ Place(s) <= Len(s.varBuffer)

\* The fields after n bytes x of the value.
FilledIn(s, x, left) ==
  [s EXCEPT !.varBuffer = Write(s.varBuffer, Place(s), x), !.countDown = left]

LEMMA FilledFields ==
  ASSUME NEW s \in Fields, ValueReady(s), NEW x \in ByteSeq, NEW left \in Nat
  PROVE  /\ FilledIn(s, x, left) \in Fields
         /\ Place(s) \in Nat /\ Place(s) \in 0..Len(s.varBuffer)
         /\ Write(s.varBuffer, Place(s), x) \in ByteSeq
         /\ Len(FilledIn(s, x, left).varBuffer) >= Len(s.varBuffer)
         /\ Len(FilledIn(s, x, left).varBuffer) >= Place(s) + Len(x)
<1>1. s.varBuffer \in ByteSeq /\ s.countDown \in Nat /\ s.valueSize \in Nat /\ s.pValue \in Nat
  BY DEF Fields
<1>2. Len(s.varBuffer) \in Nat /\ Len(x) \in Nat
  BY <1>1, LenProperties DEF ByteSeq
<1>3. Place(s) \in Nat /\ Place(s) \in 0..Len(s.varBuffer)
  BY <1>1, <1>2, SMT DEF Place, ValueReady
<1>4. /\ Write(s.varBuffer, Place(s), x) \in ByteSeq
      /\ Len(Write(s.varBuffer, Place(s), x)) =
           IF Place(s) + Len(x) <= Len(s.varBuffer) THEN Len(s.varBuffer) ELSE Place(s) + Len(x)
  BY <1>1, <1>3, WriteFacts
<1> DEFINE w == Write(s.varBuffer, Place(s), x)
<1>5. Len(w) >= Len(s.varBuffer) /\ Len(w) >= Place(s) + Len(x)
  <2>1. Len(w) = IF Place(s) + Len(x) <= Len(s.varBuffer) THEN Len(s.varBuffer) ELSE Place(s) + Len(x)
    BY <1>4
  <2> HIDE DEF w
  <2> QED BY <1>2, <1>3, <2>1, SMT
<1>6. w \in ByteSeq
  BY <1>4
<1> HIDE DEF w
<1>7. FilledIn(s, x, left) = [s EXCEPT !.varBuffer = w, !.countDown = left]
  BY DEF FilledIn, w
<1>8. FilledIn(s, x, left) \in Fields /\ FilledIn(s, x, left).varBuffer = w
  BY <1>6, <1>7 DEF Fields
<1> QED BY <1>3, <1>5, <1>6, <1>8 DEF w

LEMMA ValueDone ==
  ASSUME NEW s \in Fields, ValueReady(s), NEW b \in ByteSeq, s.countDown <= Len(b)
  PROVE  Parser!ParseValue(s, b) =
           Parser!Result(FilledIn(s, Take(b, s.countDown), s.valueSize), Drop(b, s.countDown), TRUE)
<1>1. s.countDown \in Nat /\ Len(b) \in Nat
  BY LenProperties DEF Fields, ByteSeq
<1>2. Parser!Least(s.countDown, Len(b)) = s.countDown
  BY <1>1, SMT DEF Parser!Least
<1>3. s.countDown - s.countDown = 0
  BY <1>1, SMT
<1>4. Len(Take(b, s.countDown)) = s.countDown
  <2>1. s.countDown \in 0..Len(b)
    BY <1>1, SMT
  <2> QED BY <2>1, TakeFacts
<1> QED BY <1>2, <1>3, <1>4 DEF Parser!ParseValue, FilledIn, Write, Take, Drop, Place

LEMMA ValueWaits ==
  ASSUME NEW s \in Fields, ValueReady(s), NEW b \in ByteSeq, Len(b) < s.countDown
  PROVE  Parser!ParseValue(s, b) =
           Parser!Result(FilledIn(s, b, s.countDown - Len(b)), <<>>, FALSE)
<1>1. s.countDown \in Nat /\ Len(b) \in Nat
  BY LenProperties DEF Fields, ByteSeq
<1>2. Parser!Least(s.countDown, Len(b)) = Len(b)
  BY <1>1, SMT DEF Parser!Least
<1>3. s.countDown - Len(b) # 0
  BY <1>1, SMT
<1>4. Take(b, Len(b)) = b /\ Drop(b, Len(b)) = <<>>
  BY WholeTake
<1> QED BY <1>2, <1>3, <1>4 DEF Parser!ParseValue, FilledIn, Write, Take, Drop, Place

\* A value that comes in two pieces.
LEMMA ValueJoin ==
  ASSUME NEW s \in Fields, ValueReady(s), NEW a \in ByteSeq, NEW b \in ByteSeq
  PROVE  /\ s.countDown <= Len(a) =>
              Parser!ParseValue(s, a \o b) =
                Parser!Result(Parser!ParseValue(s, a).parser, Parser!ParseValue(s, a).rest \o b, TRUE)
         /\ Len(a) < s.countDown =>
              Parser!ParseValue(s, a \o b) = Parser!ParseValue(Parser!ParseValue(s, a).parser, b)
<1>1. /\ s.countDown \in Nat /\ s.valueSize \in Nat /\ s.pValue \in Nat /\ s.varBuffer \in ByteSeq
      /\ Len(a) \in Nat /\ Len(b) \in Nat
      /\ a \o b \in ByteSeq /\ Len(a \o b) = Len(a) + Len(b)
  BY LenProperties, JoinFacts DEF Fields, ByteSeq
<1>2. CASE s.countDown <= Len(a)
  <2>1. s.countDown \in 0..Len(a) /\ s.countDown <= Len(a \o b)
    BY <1>1, <1>2, SMT
  <2>2. Take(a \o b, s.countDown) = Take(a, s.countDown) /\ Drop(a \o b, s.countDown) = Drop(a, s.countDown) \o b
    BY <2>1, TakeJoin, DropJoin
  <2>3. Parser!ParseValue(s, a) =
          Parser!Result(FilledIn(s, Take(a, s.countDown), s.valueSize), Drop(a, s.countDown), TRUE)
    BY <1>2, ValueDone
  <2>4. Parser!ParseValue(s, a \o b) =
          Parser!Result(FilledIn(s, Take(a \o b, s.countDown), s.valueSize), Drop(a \o b, s.countDown), TRUE)
    BY <1>1, <2>1, ValueDone
  <2>5. ~(Len(a) < s.countDown)
    BY <1>1, <1>2, SMT
  <2> QED BY <2>2, <2>3, <2>4, <2>5 DEF Parser!Result
<1>3. CASE Len(a) < s.countDown
  <2> DEFINE left == s.countDown - Len(a)
             t == FilledIn(s, a, left)
  <2>1. left \in Nat /\ left # 0
    BY <1>1, <1>3, SMT
  <2>2. Parser!ParseValue(s, a) = Parser!Result(t, <<>>, FALSE)
    BY <1>3, ValueWaits
  <2>3. t \in Fields /\ Place(s) \in 0..Len(s.varBuffer) /\ Len(t.varBuffer) >= Place(s) + Len(a)
    BY <2>1, FilledFields
  <2>4. /\ t.varBuffer = Write(s.varBuffer, Place(s), a) /\ t.countDown = left
        /\ t.valueSize = s.valueSize /\ t.pValue = s.pValue
    BY DEF FilledIn, Fields
  <2>5. Place(t) = Place(s) + Len(a)
    BY <1>1, <2>4, SMT DEF Place
  <2>6. ValueReady(t)
    <3>1. t.countDown <= t.valueSize
      BY <1>1, <2>4, SMT DEF ValueReady
    <3>2. Len(t.varBuffer) \in Nat /\ Place(s) \in Int
      <4>1. t.varBuffer \in ByteSeq
        BY <2>3 DEF Fields
      <4> QED BY <2>3, <4>1, LenProperties, SMT DEF ByteSeq
    <3> HIDE DEF t
    <3> QED BY <1>1, <2>3, <2>5, <3>1, <3>2, SMT DEF ValueReady
  <2>7. ASSUME NEW x \in ByteSeq, NEW l PROVE FilledIn(t, x, l) = FilledIn(s, a \o x, l)
    <3>1. Write(t.varBuffer, Place(t), x) = Write(s.varBuffer, Place(s), a \o x)
      BY <1>1, <2>3, <2>4, <2>5, WriteWrite
    <3> DEFINE w == Write(s.varBuffer, Place(s), a \o x)
               v == Write(s.varBuffer, Place(s), a)
    <3>2. FilledIn(t, x, l) = [t EXCEPT !.varBuffer = w, !.countDown = l]
      BY <3>1 DEF FilledIn
    <3>3. t = [s EXCEPT !.varBuffer = v, !.countDown = left]
      BY DEF FilledIn
    <3>4. FilledIn(s, a \o x, l) = [s EXCEPT !.varBuffer = w, !.countDown = l]
      BY DEF FilledIn
    <3> HIDE DEF t, w, v, left
    <3> QED BY <3>2, <3>3, <3>4 DEF Fields
  <2> HIDE DEF t
  <2>8. CASE left <= Len(b)
    <3>1. Parser!ParseValue(t, b) = Parser!Result(FilledIn(t, Take(b, left), t.valueSize), Drop(b, left), TRUE)
      BY <2>3, <2>4, <2>6, <2>8, ValueDone
    <3>2. left \in 0..Len(b) /\ s.countDown = Len(a) + left /\ s.countDown <= Len(a \o b)
      BY <1>1, <2>1, <2>8, SMT
    <3> HIDE DEF left
    <3>3. Parser!ParseValue(s, a \o b) =
            Parser!Result(FilledIn(s, Take(a \o b, s.countDown), s.valueSize), Drop(a \o b, s.countDown), TRUE)
      BY <1>1, <3>2, ValueDone
    <3>4. Take(a \o b, s.countDown) = a \o Take(b, left) /\ Drop(a \o b, s.countDown) = Drop(b, left)
      BY <3>2, TakeJoin, DropJoin
    <3>5. Take(b, left) \in ByteSeq
      BY <3>2, TakeFacts
    <3>6. FilledIn(t, Take(b, left), t.valueSize) = FilledIn(s, a \o Take(b, left), s.valueSize)
      BY <2>4, <2>7, <3>5
    <3>7. Parser!ParseValue(s, a).parser = t
      BY <2>2 DEF Parser!Result
    <3>8. ~(s.countDown <= Len(a))
      BY <1>1, <1>3, SMT
    <3> QED BY <3>1, <3>3, <3>4, <3>6, <3>7, <3>8
  <2>9. CASE Len(b) < left
    <3>1. Parser!ParseValue(t, b) = Parser!Result(FilledIn(t, b, t.countDown - Len(b)), <<>>, FALSE)
      BY <2>3, <2>4, <2>6, <2>9, ValueWaits
    <3>2. Len(a \o b) < s.countDown /\ s.countDown - Len(a \o b) = left - Len(b)
      BY <1>1, <2>9, SMT
    <3> HIDE DEF left
    <3>3. Parser!ParseValue(s, a \o b) =
            Parser!Result(FilledIn(s, a \o b, s.countDown - Len(a \o b)), <<>>, FALSE)
      BY <1>1, <3>2, ValueWaits
    <3>4. FilledIn(t, b, t.countDown - Len(b)) = FilledIn(s, a \o b, s.countDown - Len(a \o b))
      BY <2>4, <2>7, <3>2
    <3>7. Parser!ParseValue(s, a).parser = t
      BY <2>2 DEF Parser!Result
    <3>8. ~(s.countDown <= Len(a))
      BY <1>1, <1>3, SMT
    <3> QED BY <3>1, <3>3, <3>4, <3>7, <3>8
  <2>10. left <= Len(b) \/ Len(b) < left
    BY <1>1, <2>1, SMT
  <2> QED BY <2>8, <2>9, <2>10
<1>4. s.countDown <= Len(a) \/ Len(a) < s.countDown
  BY <1>1, SMT
<1> QED BY <1>2, <1>3, <1>4

\* What a body that is not kept still has to skip.
Count(s, size) == IF s.skipping THEN s.toSkip ELSE size

\* The parser after some bytes were skipped.
Skipped(s, more, left) == [s EXCEPT !.skipping = more, !.toSkip = left]

LEMMA SkipDone ==
  ASSUME NEW s \in Fields, NEW size \in Nat, NEW b \in ByteSeq, Count(s, size) <= Len(b)
  PROVE  Parser!Skip(s, b, size) =
           Parser!Result(Skipped(s, FALSE, 0), Drop(b, Count(s, size)), TRUE)
<1> DEFINE c == Count(s, size)
<1>1. c \in Nat /\ Len(b) \in Nat /\ c <= Len(b)
  BY LenProperties DEF Fields, ByteSeq, Count
<1>2. Parser!Skip(s, b, size) =
        LET n == Parser!Least(c, Len(b)) IN
        Parser!Result([s EXCEPT !.skipping = n < c, !.toSkip = c - n], Drop(b, n), n = c)
  BY DEF Parser!Skip, Count, Drop, Parser!Drop
<1> HIDE DEF c
<1>3. Parser!Least(c, Len(b)) = c
  BY <1>1, SMT DEF Parser!Least
<1>4. c - c = 0 /\ (c < c) = FALSE
  BY <1>1, SMT
<1> QED BY <1>2, <1>3, <1>4 DEF c, Skipped

LEMMA SkipWaits ==
  ASSUME NEW s \in Fields, NEW size \in Nat, NEW b \in ByteSeq, Len(b) < Count(s, size)
  PROVE  Parser!Skip(s, b, size) =
           Parser!Result(Skipped(s, TRUE, Count(s, size) - Len(b)), <<>>, FALSE)
<1> DEFINE c == Count(s, size)
<1>1. c \in Nat /\ Len(b) \in Nat /\ Len(b) < c
  BY LenProperties DEF Fields, ByteSeq, Count
<1>2. Parser!Skip(s, b, size) =
        LET n == Parser!Least(c, Len(b)) IN
        Parser!Result([s EXCEPT !.skipping = n < c, !.toSkip = c - n], Drop(b, n), n = c)
  BY DEF Parser!Skip, Count, Drop, Parser!Drop
<1> HIDE DEF c
<1>3. Parser!Least(c, Len(b)) = Len(b)
  BY <1>1, SMT DEF Parser!Least
<1>4. Len(b) # c /\ (Len(b) < c) = TRUE
  BY <1>1, SMT
<1>5. Drop(b, Len(b)) = <<>>
  BY WholeTake
<1> QED BY <1>2, <1>3, <1>4, <1>5 DEF c, Skipped

LEMMA SkippedFields ==
  ASSUME NEW s \in Fields, NEW more \in BOOLEAN, NEW left \in Nat
  PROVE  /\ Skipped(s, more, left) \in Fields
         /\ Skipped(s, more, left).skipping = more
         /\ Skipped(s, more, left).toSkip = left
         /\ Skipped(s, more, left).varBuffer = s.varBuffer
BY DEF Skipped, Fields

\* A body to skip that comes in two pieces.
LEMMA SkipJoin ==
  ASSUME NEW s \in Fields, NEW size \in Nat, NEW a \in ByteSeq, NEW b \in ByteSeq
  PROVE  /\ Count(s, size) <= Len(a) =>
              Parser!Skip(s, a \o b, size) =
                Parser!Result(Parser!Skip(s, a, size).parser, Parser!Skip(s, a, size).rest \o b, TRUE)
         /\ Len(a) < Count(s, size) =>
              Parser!Skip(s, a \o b, size) = Parser!Skip(Parser!Skip(s, a, size).parser, b, size)
<1> DEFINE c == Count(s, size)
<1>1. /\ c \in Nat /\ Len(a) \in Nat /\ Len(b) \in Nat
      /\ a \o b \in ByteSeq /\ Len(a \o b) = Len(a) + Len(b)
  BY LenProperties, JoinFacts DEF Fields, ByteSeq, Count
<1>2. CASE c <= Len(a)
  <2>1. c \in 0..Len(a) /\ c <= Len(a \o b) /\ ~(Len(a) < c)
    BY <1>1, <1>2, SMT
  <2>2. Drop(a \o b, c) = Drop(a, c) \o b
    BY <2>1, DropJoin
  <2>3. Parser!Skip(s, a, size) = Parser!Result(Skipped(s, FALSE, 0), Drop(a, c), TRUE)
    BY <1>2, SkipDone
  <2>4. Parser!Skip(s, a \o b, size) = Parser!Result(Skipped(s, FALSE, 0), Drop(a \o b, c), TRUE)
    BY <1>1, <2>1, SkipDone
  <2>5. Parser!Skip(s, a, size).parser = Skipped(s, FALSE, 0) /\ Parser!Skip(s, a, size).rest = Drop(a, c)
    BY <2>3 DEF Parser!Result
  <2> QED BY <2>1, <2>2, <2>4, <2>5
<1>3. CASE Len(a) < c
  <2> DEFINE left == c - Len(a)
             t == Skipped(s, TRUE, left)
  <2>1. left \in Nat /\ left # 0 /\ ~(c <= Len(a))
    BY <1>1, <1>3, SMT
  <2>2. Parser!Skip(s, a, size) = Parser!Result(t, <<>>, FALSE)
    BY <1>3, SkipWaits
  <2>3. t \in Fields /\ Count(t, size) = left
    BY <2>1, SkippedFields DEF Count
  <2>4. \A more, l : Skipped(t, more, l) = Skipped(s, more, l)
    BY DEF Skipped, Fields
  <2>5. Parser!Skip(s, a, size).parser = t
    BY <2>2 DEF Parser!Result
  <2> HIDE DEF t, c
  <2>6. CASE left <= Len(b)
    <3>1. Parser!Skip(t, b, size) = Parser!Result(Skipped(t, FALSE, 0), Drop(b, left), TRUE)
      BY <2>3, <2>6, SkipDone
    <3>2. left \in 0..Len(b) /\ c = Len(a) + left /\ c <= Len(a \o b)
      BY <1>1, <2>1, <2>6, SMT
    <3> HIDE DEF left
    <3>3. Parser!Skip(s, a \o b, size) = Parser!Result(Skipped(s, FALSE, 0), Drop(a \o b, c), TRUE)
      BY <1>1, <3>2, SkipDone DEF c
    <3>4. Drop(a \o b, c) = Drop(b, left)
      BY <3>2, DropJoin
    <3> QED BY <2>1, <2>4, <2>5, <3>1, <3>3, <3>4 DEF c
  <2>7. CASE Len(b) < left
    <3>1. Parser!Skip(t, b, size) = Parser!Result(Skipped(t, TRUE, left - Len(b)), <<>>, FALSE)
      BY <2>3, <2>7, SkipWaits
    <3>2. Len(a \o b) < c /\ c - Len(a \o b) = left - Len(b)
      BY <1>1, <2>7, SMT
    <3> HIDE DEF left
    <3>3. Parser!Skip(s, a \o b, size) = Parser!Result(Skipped(s, TRUE, c - Len(a \o b)), <<>>, FALSE)
      BY <1>1, <3>2, SkipWaits DEF c
    <3> QED BY <2>1, <2>4, <2>5, <3>1, <3>2, <3>3 DEF c
  <2>8. left <= Len(b) \/ Len(b) < left
    BY <1>1, <2>1, SMT
  <2> QED BY <2>6, <2>7, <2>8
<1>4. c <= Len(a) \/ Len(a) < c
  BY <1>1, SMT
<1> QED BY <1>2, <1>3, <1>4

(***************************************************************************)
(* Bodies.                                                                 *)
(***************************************************************************)
Valued(s) == s.dscrType \in {Parser!CONFIGURATION, Parser!INTERFACE, Parser!ENDPOINT}

Size(s) == (s.dscrLen - 2) % 65536

\* The bytes that are missing of a body.
Left(s) == IF Valued(s) THEN s.countDown ELSE Count(s, Size(s))

\* The state in which ParseBody is called.
BodyReady(s) ==
  /\ s \in Fields /\ s.stateParseDescr = 4 /\ Len(s.varBuffer) >= 16
  /\ Valued(s) => ValueReady(s) /\ s.pValue = 2 /\ ~s.skipping

Body(s, b) == IF Valued(s) THEN Parser!ParseValue(s, b) ELSE Parser!Skip(s, b, Size(s))

LEMMA LeftType == ASSUME NEW s \in Fields PROVE Size(s) \in Nat /\ Left(s) \in Nat
<1>1. s.dscrLen \in Nat /\ s.toSkip \in Nat /\ s.countDown \in Nat
  BY DEF Fields
<1>2. Size(s) \in Nat
  BY <1>1, SMT DEF Size
<1> QED BY <1>1, <1>2 DEF Left, Count

\* What a complete body leaves behind.
LEMMA BodyDone ==
  ASSUME NEW s, BodyReady(s), NEW b \in ByteSeq, Left(s) <= Len(b)
  PROVE  /\ Body(s, b).done = TRUE
         /\ Body(s, b).rest = Drop(b, Left(s)) /\ Body(s, b).rest \in ByteSeq
         /\ Body(s, b).parser \in Fields /\ ~Body(s, b).parser.skipping
         /\ Len(Body(s, b).parser.varBuffer) >= 16
<1>1. s \in Fields /\ Len(s.varBuffer) \in Nat /\ Len(s.varBuffer) >= 16 /\ s.countDown \in Nat
      /\ s.valueSize \in Nat /\ s.skipping \in BOOLEAN
  BY LenProperties DEF BodyReady, Fields, ByteSeq
<1>2. Left(s) \in 0..Len(b)
  <2>1. Left(s) \in Nat /\ Len(b) \in Nat
    BY <1>1, LeftType, LenProperties DEF ByteSeq
  <2> QED BY <2>1, SMT
<1>3. Drop(b, Left(s)) \in ByteSeq /\ Take(b, Left(s)) \in ByteSeq
  BY <1>2, DropFacts, TakeFacts
<1>4. CASE Valued(s)
  <2>1. Left(s) = s.countDown /\ ValueReady(s) /\ ~s.skipping
    BY <1>4 DEF Left, BodyReady
  <2> DEFINE x == Take(b, s.countDown)
             t == FilledIn(s, x, s.valueSize)
  <2>2. Body(s, b) = Parser!Result(t, Drop(b, s.countDown), TRUE)
    BY <1>1, <1>4, <2>1, ValueDone DEF Body
  <2>3. x \in ByteSeq
    BY <1>3, <2>1
  <2> HIDE DEF x
  <2>4. t \in Fields /\ Len(t.varBuffer) >= Len(s.varBuffer)
    BY <1>1, <2>1, <2>3, FilledFields
  <2>5. t.skipping = s.skipping
    BY <1>1 DEF FilledIn, Fields
  <2> HIDE DEF t
  <2>6. Len(t.varBuffer) >= 16
    <3>1. Len(t.varBuffer) \in Nat
      BY <2>4, LenProperties DEF Fields, ByteSeq
    <3> QED BY <1>1, <2>4, <3>1, SMT
  <2>7. Body(s, b).parser = t /\ Body(s, b).done = TRUE /\ Body(s, b).rest = Drop(b, Left(s))
    BY <2>1, <2>2 DEF Parser!Result
  <2> QED BY <1>3, <2>1, <2>4, <2>5, <2>6, <2>7
<1>5. CASE ~Valued(s)
  <2>1. Left(s) = Count(s, Size(s)) /\ Size(s) \in Nat
    BY <1>1, <1>5, LeftType DEF Left
  <2>2. Body(s, b) = Parser!Result(Skipped(s, FALSE, 0), Drop(b, Left(s)), TRUE)
    BY <1>1, <1>5, <2>1, SkipDone DEF Body
  <2>3. /\ Skipped(s, FALSE, 0) \in Fields /\ Skipped(s, FALSE, 0).skipping = FALSE
        /\ Skipped(s, FALSE, 0).varBuffer = s.varBuffer
    BY <1>1 DEF Skipped, Fields
  <2>4. /\ Body(s, b).parser = Skipped(s, FALSE, 0) /\ Body(s, b).done = TRUE
        /\ Body(s, b).rest = Drop(b, Left(s))
    BY <2>2 DEF Parser!Result
  <2> QED BY <1>1, <1>3, <2>3, <2>4
<1> QED BY <1>4, <1>5

\* A body that is cut off goes on with the next piece.
LEMMA BodyWaits ==
  ASSUME NEW s, BodyReady(s), NEW b \in ByteSeq, Len(b) < Left(s)
  PROVE  /\ Body(s, b).done = FALSE /\ Body(s, b).rest = <<>>
         /\ BodyReady(Body(s, b).parser)
         /\ Left(Body(s, b).parser) = Left(s) - Len(b)
         /\ Valued(Body(s, b).parser) = Valued(s) /\ Size(Body(s, b).parser) = Size(s)
<1>1. s \in Fields /\ Len(s.varBuffer) \in Nat /\ Len(s.varBuffer) >= 16 /\ s.countDown \in Nat
      /\ s.valueSize \in Nat /\ s.skipping \in BOOLEAN /\ s.pValue \in Nat
      /\ s.stateParseDescr = 4
  BY LenProperties DEF BodyReady, Fields, ByteSeq
<1>2. Left(s) \in Nat /\ Len(b) \in Nat /\ Left(s) - Len(b) \in Nat
  <2>1. Left(s) \in Nat /\ Len(b) \in Nat
    BY <1>1, LeftType, LenProperties DEF ByteSeq
  <2> QED BY <2>1, SMT
<1>3. CASE Valued(s)
  <2> DEFINE left == s.countDown - Len(b)
             t == FilledIn(s, b, left)
  <2>1. Left(s) = s.countDown /\ ValueReady(s) /\ ~s.skipping /\ s.pValue = 2
    BY <1>3 DEF Left, BodyReady
  <2>2. Body(s, b) = Parser!Result(t, <<>>, FALSE)
    BY <1>1, <1>3, <2>1, ValueWaits DEF Body
  <2>3. left \in Nat
    BY <1>2, <2>1
  <2>4. /\ t \in Fields /\ Len(t.varBuffer) >= Len(s.varBuffer)
        /\ Len(t.varBuffer) >= Place(s) + Len(b) /\ Place(s) \in Nat
    BY <1>1, <2>1, <2>3, FilledFields
  <2>5. /\ t.skipping = s.skipping /\ t.pValue = s.pValue /\ t.valueSize = s.valueSize
        /\ t.countDown = left /\ t.stateParseDescr = 4 /\ t.dscrType = s.dscrType
        /\ t.dscrLen = s.dscrLen
    BY <1>1 DEF FilledIn, Fields
  <2> HIDE DEF t
  <2>6. Len(t.varBuffer) \in Nat
    BY <2>4, LenProperties DEF Fields, ByteSeq
  <2>7. Len(t.varBuffer) >= 16
    BY <1>1, <2>4, <2>6, SMT
  <2>8. ValueReady(t)
    <3>1. Place(t) = Place(s) + Len(b)
      BY <1>1, <1>2, <2>5, SMT DEF Place
    <3>2. t.countDown <= t.valueSize
      BY <1>1, <1>2, <2>1, <2>5, SMT DEF ValueReady
    <3> QED BY <2>4, <3>1, <3>2 DEF ValueReady
  <2>9. Valued(t) = Valued(s) /\ Size(t) = Size(s)
    BY <2>5 DEF Valued, Size
  <2>10. BodyReady(t) /\ Left(t) = Left(s) - Len(b)
    BY <1>3, <2>1, <2>4, <2>5, <2>7, <2>8, <2>9 DEF BodyReady, Left
  <2>11. Body(s, b).parser = t /\ Body(s, b).done = FALSE /\ Body(s, b).rest = <<>>
    BY <2>2 DEF Parser!Result
  <2> QED BY <2>9, <2>10, <2>11
<1>4. CASE ~Valued(s)
  <2> DEFINE left == Left(s) - Len(b)
             t == Skipped(s, TRUE, left)
  <2>1. Left(s) = Count(s, Size(s)) /\ Size(s) \in Nat
    BY <1>1, <1>4, LeftType DEF Left
  <2>2. Body(s, b) = Parser!Result(t, <<>>, FALSE)
    BY <1>1, <1>4, <2>1, SkipWaits DEF Body
  <2>3. /\ t \in Fields /\ t.skipping = TRUE /\ t.toSkip = left /\ t.varBuffer = s.varBuffer
    BY <1>1, <1>2, SkippedFields
  <2>4. t.dscrType = s.dscrType /\ t.dscrLen = s.dscrLen /\ t.stateParseDescr = 4
    BY <1>1 DEF Skipped, Fields
  <2> HIDE DEF t
  <2>5. Valued(t) = Valued(s) /\ Size(t) = Size(s)
    BY <2>4 DEF Valued, Size
  <2>6. BodyReady(t) /\ Left(t) = left
    BY <1>1, <1>4, <2>3, <2>4, <2>5 DEF BodyReady, Left, Count
  <2>7. Body(s, b).parser = t /\ Body(s, b).done = FALSE /\ Body(s, b).rest = <<>>
    BY <2>2 DEF Parser!Result
  <2> QED BY <2>5, <2>6, <2>7
<1> QED BY <1>3, <1>4

LEMMA BodyJoin ==
  ASSUME NEW s, BodyReady(s), NEW a \in ByteSeq, NEW b \in ByteSeq
  PROVE  /\ Left(s) <= Len(a) =>
              Body(s, a \o b) = Parser!Result(Body(s, a).parser, Body(s, a).rest \o b, TRUE)
         /\ Len(a) < Left(s) => Body(s, a \o b) = Body(Body(s, a).parser, b)
<1>1. s \in Fields
  BY DEF BodyReady
<1>2. CASE Valued(s)
  <2>1. ValueReady(s) /\ Left(s) = s.countDown
    BY <1>2 DEF BodyReady, Left
  <2>2. /\ Body(s, a) = Parser!ParseValue(s, a)
        /\ Body(s, a \o b) = Parser!ParseValue(s, a \o b)
    BY <1>2 DEF Body
  <2>3. ASSUME Len(a) < Left(s) PROVE Body(Body(s, a).parser, b) = Parser!ParseValue(Body(s, a).parser, b)
    <3>1. Valued(Body(s, a).parser)
      BY <1>2, <2>3, BodyWaits
    <3> QED BY <3>1 DEF Body
  <2>4. /\ s.countDown <= Len(a) =>
              Parser!ParseValue(s, a \o b) =
                Parser!Result(Parser!ParseValue(s, a).parser, Parser!ParseValue(s, a).rest \o b, TRUE)
        /\ Len(a) < s.countDown => Parser!ParseValue(s, a \o b) = Parser!ParseValue(Parser!ParseValue(s, a).parser, b)
    BY <1>1, <2>1, ValueJoin
  <2>5. ASSUME Left(s) <= Len(a)
        PROVE  Body(s, a \o b) = Parser!Result(Body(s, a).parser, Body(s, a).rest \o b, TRUE)
    BY <2>1, <2>2, <2>4, <2>5
  <2>6. ASSUME Len(a) < Left(s)
        PROVE  Body(s, a \o b) = Body(Body(s, a).parser, b)
    BY <2>1, <2>2, <2>3, <2>4, <2>6
  <2> QED BY <2>5, <2>6
<1>3. CASE ~Valued(s)
  <2>1. Size(s) \in Nat /\ Left(s) = Count(s, Size(s))
    BY <1>1, <1>3, LeftType DEF Left
  <2>2. /\ Body(s, a) = Parser!Skip(s, a, Size(s))
        /\ Body(s, a \o b) = Parser!Skip(s, a \o b, Size(s))
    BY <1>3 DEF Body
  <2>3. ASSUME Len(a) < Left(s) PROVE Body(Body(s, a).parser, b) = Parser!Skip(Body(s, a).parser, b, Size(s))
    <3>1. ~Valued(Body(s, a).parser) /\ Size(Body(s, a).parser) = Size(s)
      BY <1>3, <2>3, BodyWaits
    <3> QED BY <3>1 DEF Body
  <2>4. /\ Count(s, Size(s)) <= Len(a) =>
              Parser!Skip(s, a \o b, Size(s)) =
                Parser!Result(Parser!Skip(s, a, Size(s)).parser, Parser!Skip(s, a, Size(s)).rest \o b, TRUE)
        /\ Len(a) < Count(s, Size(s)) => Parser!Skip(s, a \o b, Size(s)) = Parser!Skip(Parser!Skip(s, a, Size(s)).parser, b, Size(s))
    BY <1>1, <2>1, SkipJoin
  <2>5. ASSUME Left(s) <= Len(a)
        PROVE  Body(s, a \o b) = Parser!Result(Body(s, a).parser, Body(s, a).rest \o b, TRUE)
    BY <2>1, <2>2, <2>4, <2>5
  <2>6. ASSUME Len(a) < Left(s)
        PROVE  Body(s, a \o b) = Body(Body(s, a).parser, b)
    BY <2>1, <2>2, <2>3, <2>4, <2>6
  <2> QED BY <2>5, <2>6
<1> QED BY <1>2, <1>3

(***************************************************************************)
(* Descriptors.                                                            *)
(***************************************************************************)

\* The states in which the parser waits for the next piece.
ParserState ==
  {s \in Fields :
     /\ Len(s.varBuffer) >= 16
     /\ s.stateParseDescr # 4 => ~s.skipping
     /\ s.stateParseDescr = 1 => s.pValue = 0 /\ s.valueSize = 2 /\ s.countDown \in 1..2
     /\ s.stateParseDescr = 4 => BodyReady(s) /\ Left(s) > 0}

\* Between two descriptors, or between a header and its body.
Whole(s) == s \in Fields /\ Len(s.varBuffer) >= 16 /\ ~s.skipping

After(s) == [Parser!Descriptor(s) EXCEPT !.stateParseDescr = 0]

LEMMA Bytes16 ==
  ASSUME NEW s \in Fields, Len(s.varBuffer) >= 16, NEW k \in 0..15
  PROVE  Parser!At(s, k) \in Nat
<1>1. s.varBuffer \in Seq(Nat) /\ Len(s.varBuffer) \in Nat
  BY LenProperties DEF Fields, ByteSeq
<1>2. k + 1 \in 1..Len(s.varBuffer)
  BY <1>1, SMT
<1>3. s.varBuffer[k + 1] \in Nat
  BY <1>1, <1>2, ElementOfSeq
<1> QED BY <1>3 DEF Parser!At

\* What is read is taken over, and the parser is ready for the next descriptor.
LEMMA AfterState == ASSUME NEW s, Whole(s) PROVE After(s) \in ParserState /\ After(s).stateParseDescr = 0
<1> DEFINE d == Parser!Descriptor(s)
<1>1. s \in Fields /\ Len(s.varBuffer) >= 16 /\ ~s.skipping
  BY DEF Whole
<1>2. Parser!At(s, 2) \in Nat /\ Parser!At(s, 3) \in Nat /\ Parser!At(s, 5) \in Nat
  <2>1. 2 \in 0..15 /\ 3 \in 0..15 /\ 5 \in 0..15
    BY SMT
  <2> QED BY <1>1, <2>1, Bytes16
<1>3. s.nEPs \in Nat /\ s.nEPs + 1 \in Nat /\ Parser!At(s, 2) % 16 \in 0..15 /\ 0 \in Nat
  <2>1. s.nEPs \in Nat
    BY <1>1 DEF Fields
  <2> QED BY <1>2, <2>1, SMT
<1>4. d \in Fields /\ d.varBuffer = s.varBuffer /\ d.skipping = s.skipping
  <2>1. CASE d = [s EXCEPT !.confValue = Parser!At(s, 5)]
    BY <1>1, <1>2, <2>1 DEF Fields
  <2>2. CASE d = [s EXCEPT !.isGoodInterface = TRUE, !.nEPs = IF @ < 2 THEN 0 ELSE @]
    <3>1. (IF s.nEPs < 2 THEN 0 ELSE s.nEPs) \in Nat
      BY <1>3
    <3> DEFINE n == IF s.nEPs < 2 THEN 0 ELSE s.nEPs
    <3>2. d = [s EXCEPT !.isGoodInterface = TRUE, !.nEPs = n]
      BY <2>2
    <3> HIDE DEF d, n
    <3> QED BY <1>1, <3>1, <3>2 DEF Fields, n
  <2>3. CASE d = Parser!EndpointXtract(s)
    <3> DEFINE e == Parser!EndpointXtract(s)
               number == Parser!At(s, 2) % 16
    <3>1. \/ e = s
          \/ e = [s EXCEPT !.epIn = number, !.nEPs = s.nEPs + 1]
          \/ e = [s EXCEPT !.epOut = number, !.nEPs = s.nEPs + 1]
      BY <1>1 DEF Parser!EndpointXtract, Fields
    <3>2. number \in 0..15 /\ s.nEPs + 1 \in Nat
      BY <1>3
    <3> HIDE DEF d, e, number
    <3>3. e \in Fields /\ e.varBuffer = s.varBuffer /\ e.skipping = s.skipping
      BY <1>1, <3>1, <3>2 DEF Fields
    <3> QED BY <2>3, <3>3 DEF e
  <2>4. CASE d = s
    BY <1>1, <2>4
  <2>5. \/ d = [s EXCEPT !.confValue = Parser!At(s, 5)]
        \/ d = [s EXCEPT !.isGoodInterface = TRUE, !.nEPs = IF @ < 2 THEN 0 ELSE @]
        \/ d = Parser!EndpointXtract(s)
        \/ d = s
    <3> DEFINE p == s.dscrType = Parser!CONFIGURATION
               i == s.dscrType = Parser!INTERFACE /\ Parser!GoodInterface(s)
               e == s.dscrType = Parser!ENDPOINT /\ s.isGoodInterface /\ s.nEPs < 2
               x == [s EXCEPT !.confValue = Parser!At(s, 5)]
               y == [s EXCEPT !.isGoodInterface = TRUE, !.nEPs = IF @ < 2 THEN 0 ELSE @]
               z == Parser!EndpointXtract(s)
    <3>1. d = CASE p -> x [] i -> y [] e -> z [] OTHER -> s
      BY Zenon DEF Parser!Descriptor
    <3> HIDE DEF d, p, i, e, x, y, z
    <3>2. d = x \/ d = y \/ d = z \/ d = s
      BY <3>1
    <3> QED BY <3>2 DEF x, y, z
  <2> QED BY <2>1, <2>2, <2>3, <2>4, <2>5
<1> HIDE DEF d
<1>5. After(s) = [d EXCEPT !.stateParseDescr = 0]
  BY DEF After, d
<1>6. After(s) \in Fields /\ After(s).varBuffer = d.varBuffer /\ After(s).skipping = d.skipping /\ After(s).stateParseDescr = 0
  BY <1>4, <1>5 DEF Fields
<1> QED BY <1>1, <1>4, <1>6 DEF ParserState

LEMMA HeaderReady ==
  ASSUME NEW s, Whole(s)
  PROVE  BodyReady(Parser!Header(s))
<1> DEFINE len == Parser!At(s, 0)
           type == Parser!At(s, 1)
           size == (len - 2) % 256
           good == s.isGoodInterface /\ type # Parser!INTERFACE
           h == [s EXCEPT !.dscrLen = len, !.dscrType = type, !.stateParseDescr = 4,
                          !.isGoodInterface = good]
           t == [h EXCEPT !.pValue = 2, !.valueSize = size, !.countDown = size]
<1>1. s \in Fields /\ Len(s.varBuffer) >= 16 /\ ~s.skipping /\ Len(s.varBuffer) \in Nat
  BY LenProperties DEF Whole, Fields, ByteSeq
<1>2. len \in Nat /\ type \in Nat
  <2>1. 0 \in 0..15 /\ 1 \in 0..15
    BY SMT
  <2> QED BY <1>1, <2>1, Bytes16
<1>3. size \in Nat /\ good \in BOOLEAN
  BY <1>2, SMT
<1>4. Parser!Header(s) = t
  <2>1. h.dscrLen = len
    BY <1>1 DEF Fields
  <2> QED BY <1>1, <2>1 DEF Parser!Header, Parser!Expect, Fields
<1> HIDE DEF size, len, type, good
<1>5. h \in Fields /\ h.varBuffer = s.varBuffer /\ h.skipping = s.skipping
  BY <1>1, <1>2, <1>3 DEF Fields
<1>6. /\ t \in Fields /\ t.varBuffer = s.varBuffer /\ t.skipping = s.skipping /\ t.pValue = 2
      /\ t.valueSize = size /\ t.countDown = size /\ t.stateParseDescr = 4
  BY <1>1, <1>2, <1>3 DEF Fields
<1> HIDE DEF t
<1>7. Place(t) = 2 /\ t.countDown <= t.valueSize
  BY <1>3, <1>6, SMT DEF Place
<1> QED BY <1>1, <1>4, <1>6, <1>7, SMT DEF BodyReady, ValueReady

\* The header that is begun, or goes on.
Begun(s) ==
  IF s.stateParseDescr = 0
    THEN [Parser!Expect(s, 0, 2) EXCEPT !.stateParseDescr = 1] ELSE s

LEMMA BegunState ==
  ASSUME NEW s \in ParserState, s.stateParseDescr # 4
  PROVE  /\ Begun(s) \in ParserState /\ Begun(s).stateParseDescr = 1 /\ Whole(Begun(s))
         /\ ValueReady(Begun(s)) /\ Begun(s).countDown \in 1..2
         /\ s.stateParseDescr = 1 => Begun(s) = s
         /\ s.stateParseDescr = 0 => Begun(s).countDown = 2
<1> DEFINE t == Begun(s)
<1>1. s \in Fields /\ Len(s.varBuffer) >= 16 /\ ~s.skipping /\ Len(s.varBuffer) \in Nat
      /\ s.stateParseDescr \in {0, 1}
  BY LenProperties DEF ParserState, Fields, ByteSeq
<1>2. CASE s.stateParseDescr = 0
  <2>1. t = [s EXCEPT !.pValue = 0, !.valueSize = 2, !.countDown = 2, !.stateParseDescr = 1]
    BY <1>1, <1>2 DEF Begun, Parser!Expect, Fields
  <2> HIDE DEF t
  <2>2. /\ t \in Fields /\ t.stateParseDescr = 1 /\ t.pValue = 0 /\ t.valueSize = 2 /\ t.countDown = 2
        /\ t.varBuffer = s.varBuffer /\ ~t.skipping
    BY <1>1, <2>1 DEF Fields
  <2>3. t.countDown \in 1..2 /\ Place(t) = 0
    BY <2>2, SMT DEF Place
  <2>4. ValueReady(t)
    BY <1>1, <2>2, <2>3, SMT DEF ValueReady
  <2> QED BY <1>1, <1>2, <2>2, <2>3, <2>4 DEF ParserState, Whole, t
<1>3. CASE s.stateParseDescr = 1
  <2>1. t = s
    BY <1>3 DEF Begun
  <2>2. s.pValue = 0 /\ s.valueSize = 2 /\ s.countDown \in 1..2
    BY <1>3 DEF ParserState
  <2>3. ValueReady(s)
    BY <1>1, <2>2, SMT DEF ValueReady, Place
  <2> QED BY <1>1, <1>3, <2>1, <2>2, <2>3 DEF Whole
<1> QED BY <1>1, <1>2, <1>3

\* ParseBody, as far as the piece reaches.
LEMMA BodyParsed ==
  ASSUME NEW s, BodyReady(s), NEW b \in ByteSeq
  PROVE  /\ Left(s) <= Len(b) =>
              /\ Parser!ParseBody(s, b) = Parser!Result(After(Body(s, b).parser), Drop(b, Left(s)), TRUE)
              /\ After(Body(s, b).parser) \in ParserState
              /\ After(Body(s, b).parser).stateParseDescr = 0
         /\ Len(b) < Left(s) =>
              /\ Parser!ParseBody(s, b) = Parser!Result(Body(s, b).parser, <<>>, FALSE)
              /\ Body(s, b).parser \in ParserState /\ Body(s, b).parser.stateParseDescr = 4
              /\ BodyReady(Body(s, b).parser)
<1>1. Left(s) \in Nat /\ Len(b) \in Nat
  BY LeftType, LenProperties DEF BodyReady, ByteSeq
<1>2. Parser!ParseBody(s, b) =
        IF Body(s, b).done THEN Parser!Result(After(Body(s, b).parser), Body(s, b).rest, TRUE)
                           ELSE Body(s, b)
  BY DEF Parser!ParseBody, Body, Valued, Size, After
<1>3. ASSUME Left(s) <= Len(b)
      PROVE  /\ Parser!ParseBody(s, b) = Parser!Result(After(Body(s, b).parser), Drop(b, Left(s)), TRUE)
             /\ After(Body(s, b).parser) \in ParserState
             /\ After(Body(s, b).parser).stateParseDescr = 0
  <2>1. Body(s, b).done = TRUE /\ Body(s, b).rest = Drop(b, Left(s)) /\ Whole(Body(s, b).parser)
    BY <1>3, BodyDone DEF Whole
  <2>2. After(Body(s, b).parser) \in ParserState /\ After(Body(s, b).parser).stateParseDescr = 0
    BY <2>1, AfterState
  <2> QED BY <1>2, <2>1, <2>2
<1>4. ASSUME Len(b) < Left(s)
      PROVE  /\ Parser!ParseBody(s, b) = Parser!Result(Body(s, b).parser, <<>>, FALSE)
             /\ Body(s, b).parser \in ParserState /\ Body(s, b).parser.stateParseDescr = 4
             /\ BodyReady(Body(s, b).parser)
  <2> DEFINE r == Body(s, b)
  <2>1. /\ r.done = FALSE /\ r.rest = <<>> /\ BodyReady(r.parser) /\ Left(r.parser) = Left(s) - Len(b)
    BY <1>4, BodyWaits
  <2>2. r = Parser!Result(r.parser, r.rest, r.done)
    BY Zenon DEF Body, Parser!ParseValue, Parser!Skip, Parser!Result
  <2> HIDE DEF r
  <2>3. Left(r.parser) > 0
    BY <1>1, <1>4, <2>1, SMT
  <2>4. r.parser \in ParserState /\ r.parser.stateParseDescr = 4
    BY <2>1, <2>3 DEF ParserState, BodyReady
  <2> QED BY <1>2, <2>1, <2>2, <2>4 DEF r
<1> QED BY <1>3, <1>4

\* Bytes go on behind a piece.
LEMMA BodyParsedJoin ==
  ASSUME NEW s, BodyReady(s), NEW a \in ByteSeq, NEW b \in ByteSeq
  PROVE  /\ Left(s) <= Len(a) =>
              Parser!ParseBody(s, a \o b) =
                Parser!Result(After(Body(s, a).parser), Drop(a, Left(s)) \o b, TRUE)
         /\ Len(a) < Left(s) =>
              Parser!ParseBody(s, a \o b) = Parser!ParseBody(Body(s, a).parser, b)
<1> DEFINE q == a \o b
<1>1. /\ Left(s) \in Nat /\ Len(a) \in Nat /\ Len(b) \in Nat
      /\ q \in ByteSeq /\ Len(q) = Len(a) + Len(b)
  BY LeftType, LenProperties, JoinFacts DEF BodyReady, ByteSeq
<1>2. ASSUME NEW x, NEW y
      PROVE  Parser!ParseBody(x, y) =
               IF Body(x, y).done THEN Parser!Result(After(Body(x, y).parser), Body(x, y).rest, TRUE)
                                  ELSE Body(x, y)
  BY SMT DEF Parser!ParseBody, Body, Valued, Size, After
<1>3. ASSUME Left(s) <= Len(a)
      PROVE  Parser!ParseBody(s, q) =
               Parser!Result(After(Body(s, a).parser), Drop(a, Left(s)) \o b, TRUE)
  <2>1. Body(s, a).rest = Drop(a, Left(s))
    BY <1>3, BodyDone
  <2>2. Body(s, q) = Parser!Result(Body(s, a).parser, Body(s, a).rest \o b, TRUE)
    BY <1>3, BodyJoin
  <2> HIDE DEF q
  <2>3. /\ Body(s, q).parser = Body(s, a).parser /\ Body(s, q).done = TRUE
        /\ Body(s, q).rest = Body(s, a).rest \o b
    BY <2>2 DEF Parser!Result
  <2> QED BY <1>2, <2>1, <2>3
<1>4. ASSUME Len(a) < Left(s)
      PROVE  Parser!ParseBody(s, q) = Parser!ParseBody(Body(s, a).parser, b)
  <2>1. Body(s, q) = Body(Body(s, a).parser, b)
    BY <1>4, BodyJoin
  <2> HIDE DEF q
  <2> QED BY <1>2, <2>1
<1> QED BY <1>3, <1>4

(***************************************************************************)
(* ParseDescriptor.                                                        *)
(***************************************************************************)

\* The parser behind the n bytes of the header that were missing.
Headed(s, b) == FilledIn(Begun(s), Take(b, Begun(s).countDown), Begun(s).valueSize)

LEMMA HeadDone ==
  ASSUME NEW s \in ParserState, s.stateParseDescr # 4, NEW b \in ByteSeq, Begun(s).countDown <= Len(b)
  PROVE  /\ Parser!ParseDescriptor(s, b) =
              Parser!ParseBody(Parser!Header(Headed(s, b)), Drop(b, Begun(s).countDown))
         /\ Whole(Headed(s, b)) /\ BodyReady(Parser!Header(Headed(s, b)))
         /\ Drop(b, Begun(s).countDown) \in ByteSeq
         /\ Len(Drop(b, Begun(s).countDown)) < Len(b)
<1> DEFINE t == Begun(s)
           n == t.countDown
<1>1. t \in ParserState /\ t.stateParseDescr = 1 /\ Whole(t) /\ ValueReady(t) /\ n \in 1..2
  BY BegunState
<1>2. t \in Fields /\ Len(t.varBuffer) >= 16 /\ ~t.skipping /\ Len(t.varBuffer) \in Nat
      /\ t.valueSize \in Nat /\ Len(b) \in Nat
  BY <1>1, LenProperties DEF Whole, Fields, ByteSeq
<1>3. n \in 0..Len(b) /\ Len(b) - n < Len(b)
  BY <1>1, <1>2, SMT
<1>4. Take(b, n) \in ByteSeq /\ Drop(b, n) \in ByteSeq /\ Len(Drop(b, n)) = Len(b) - n
  BY <1>3, TakeFacts, DropFacts
<1>5. Parser!ParseValue(t, b) = Parser!Result(Headed(s, b), Drop(b, n), TRUE)
  BY <1>1, <1>2, ValueDone DEF Headed
<1> DEFINE f == Headed(s, b)
<1>6. Parser!ParseDescriptor(s, b) =
        LET head == Parser!ParseValue(t, b) IN
        IF head.done THEN Parser!ParseBody(Parser!Header(head.parser), head.rest) ELSE head
  BY Zenon DEF Parser!ParseDescriptor, Begun
<1>7. Whole(f)
  <2> DEFINE x == Take(b, n)
  <2>1. f = FilledIn(t, x, t.valueSize)
    BY DEF Headed
  <2>2. x \in ByteSeq
    BY <1>4
  <2> HIDE DEF f, t, x
  <2>3. f \in Fields /\ Len(f.varBuffer) >= Len(t.varBuffer)
    BY <1>1, <1>2, <2>1, <2>2, FilledFields
  <2>4. f.skipping = t.skipping
    BY <1>2, <2>1 DEF FilledIn, Fields
  <2>5. Len(f.varBuffer) \in Nat
    BY <2>3, LenProperties DEF Fields, ByteSeq
  <2>6. Len(f.varBuffer) >= 16
    BY <1>2, <2>3, <2>5, SMT
  <2> QED BY <1>2, <2>3, <2>4, <2>6 DEF Whole
<1>8. BodyReady(Parser!Header(f))
  BY <1>7, HeaderReady
<1> HIDE DEF f
<1>9. Parser!ParseDescriptor(s, b) = Parser!ParseBody(Parser!Header(f), Drop(b, n))
  <2>1. Parser!ParseValue(t, b) = Parser!Result(f, Drop(b, n), TRUE)
    BY <1>5 DEF f
  <2> HIDE DEF t, n
  <2> QED BY <1>6, <2>1 DEF Parser!Result
<1> QED BY <1>3, <1>4, <1>7, <1>8, <1>9 DEF f

LEMMA HeadWaits ==
  ASSUME NEW s \in ParserState, s.stateParseDescr # 4, NEW b \in ByteSeq, Len(b) < Begun(s).countDown
  PROVE  /\ Parser!ParseDescriptor(s, b) = Parser!ParseValue(Begun(s), b)
         /\ Parser!ParseDescriptor(s, b) =
              Parser!Result(FilledIn(Begun(s), b, Begun(s).countDown - Len(b)), <<>>, FALSE)
         /\ FilledIn(Begun(s), b, Begun(s).countDown - Len(b)) \in ParserState
         /\ FilledIn(Begun(s), b, Begun(s).countDown - Len(b)).stateParseDescr = 1
<1> DEFINE t == Begun(s)
           left == t.countDown - Len(b)
           f == FilledIn(t, b, left)
<1>1. t \in ParserState /\ t.stateParseDescr = 1 /\ Whole(t) /\ ValueReady(t) /\ t.countDown \in 1..2
  BY BegunState
<1>2. t \in Fields /\ Len(t.varBuffer) >= 16 /\ ~t.skipping /\ Len(t.varBuffer) \in Nat
      /\ t.valueSize = 2 /\ t.pValue = 0 /\ Len(b) \in Nat
  BY <1>1, LenProperties DEF Whole, Fields, ByteSeq, ParserState
<1>3. left \in Nat /\ left \in 1..2
  BY <1>1, <1>2, SMT
<1>4. Parser!ParseValue(t, b) = Parser!Result(f, <<>>, FALSE)
  BY <1>1, <1>2, ValueWaits
<1>5. Parser!ParseDescriptor(s, b) =
        LET head == Parser!ParseValue(t, b) IN
        IF head.done THEN Parser!ParseBody(Parser!Header(head.parser), head.rest) ELSE head
  BY Zenon DEF Parser!ParseDescriptor, Begun
<1>6. f \in Fields /\ Len(f.varBuffer) >= Len(t.varBuffer)
  BY <1>1, <1>2, <1>3, FilledFields
<1>7. /\ f.skipping = t.skipping /\ f.countDown = left /\ f.pValue = t.pValue
      /\ f.valueSize = t.valueSize /\ f.stateParseDescr = t.stateParseDescr
  BY <1>2 DEF FilledIn, Fields
<1> HIDE DEF f, t
<1>8. Len(f.varBuffer) >= 16
  <2>1. Len(f.varBuffer) \in Nat
    BY <1>6, LenProperties DEF Fields, ByteSeq
  <2> QED BY <1>2, <1>6, <2>1, SMT
<1>9. f \in ParserState
  <2> HIDE DEF left
  <2> QED BY <1>1, <1>2, <1>3, <1>6, <1>7, <1>8 DEF ParserState
<1>10. Parser!ParseDescriptor(s, b) = Parser!ParseValue(t, b)
  BY <1>4, <1>5 DEF Parser!Result
<1> QED BY <1>1, <1>4, <1>7, <1>9, <1>10 DEF f, t

LEMMA DescriptorBody ==
  ASSUME NEW s \in ParserState, s.stateParseDescr = 4, NEW b \in ByteSeq
  PROVE  Parser!ParseDescriptor(s, b) = Parser!ParseBody(s, b) /\ BodyReady(s) /\ Left(s) > 0
BY DEF Parser!ParseDescriptor, ParserState

\* What one call does: it comes to the end of a descriptor or of the piece.
Parsed1(s, b, r) ==
  /\ r = Parser!Result(r.parser, r.rest, r.done)
  /\ r.parser \in ParserState /\ r.rest \in ByteSeq /\ r.done \in BOOLEAN
  /\ r.done => r.parser.stateParseDescr = 0
  /\ ~r.done => r.rest = <<>>
  /\ b # <<>> => Len(r.rest) < Len(b)

LEMMA DescriptorFacts ==
  ASSUME NEW s \in ParserState, NEW b \in ByteSeq
  PROVE  Parsed1(s, b, Parser!ParseDescriptor(s, b))
<1> DEFINE r == Parser!ParseDescriptor(s, b)
<1>1. /\ Len(b) \in Nat /\ (b # <<>> => Len(b) > 0) /\ <<>> \in ByteSeq /\ Len(<<>>) = 0
  BY LenProperties, EmptySeq, SMT DEF ByteSeq
<1>2. ASSUME NEW t, BodyReady(t), NEW c \in ByteSeq, r = Parser!ParseBody(t, c), Len(c) <= Len(b),
             Left(t) > 0 \/ Len(c) < Len(b)
      PROVE  Parsed1(s, b, r)
  <2>1. Left(t) \in Nat /\ Len(c) \in Nat
    BY <1>2, LeftType, LenProperties DEF BodyReady, ByteSeq
  <2>2. CASE Left(t) <= Len(c)
    <3> DEFINE p == After(Body(t, c).parser)
               e == Drop(c, Left(t))
    <3>1. r = Parser!Result(p, e, TRUE) /\ p \in ParserState /\ p.stateParseDescr = 0
      BY <1>2, <2>2, BodyParsed
    <3>2. e \in ByteSeq /\ Len(e) = Len(c) - Left(t)
      <4>1. Left(t) \in 0..Len(c)
        BY <2>1, <2>2, SMT
      <4> QED BY <4>1, DropFacts
    <3> HIDE DEF p, e, r
    <3>3. Len(e) < Len(b)
      BY <1>1, <1>2, <2>1, <2>2, <3>2, SMT
    <3>4. r.parser = p /\ r.rest = e /\ r.done = TRUE
      BY <3>1 DEF Parser!Result
    <3> QED BY <3>1, <3>2, <3>3, <3>4 DEF Parsed1
  <2>3. CASE Len(c) < Left(t)
    <3> DEFINE p == Body(t, c).parser
    <3>1. r = Parser!Result(p, <<>>, FALSE) /\ p \in ParserState
      BY <1>2, <2>3, BodyParsed
    <3> HIDE DEF p, r
    <3>2. r.parser = p /\ r.rest = <<>> /\ r.done = FALSE
      BY <3>1 DEF Parser!Result
    <3>3. b # <<>> => Len(<<>>) < Len(b)
      BY <1>1, SMT
    <3> QED BY <1>1, <3>1, <3>2, <3>3 DEF Parsed1
  <2>4. Left(t) <= Len(c) \/ Len(c) < Left(t)
    BY <2>1, SMT
  <2> QED BY <2>2, <2>3, <2>4
<1>3. CASE s.stateParseDescr = 4
  <2>1. r = Parser!ParseBody(s, b) /\ BodyReady(s) /\ Left(s) > 0 /\ Len(b) <= Len(b)
    BY <1>1, <1>3, DescriptorBody, SMT
  <2> QED BY <1>2, <2>1
<1>4. CASE s.stateParseDescr # 4 /\ Begun(s).countDown <= Len(b)
  <2> DEFINE h == Parser!Header(Headed(s, b))
             c == Drop(b, Begun(s).countDown)
  <2>1. r = Parser!ParseBody(h, c) /\ BodyReady(h) /\ c \in ByteSeq /\ Len(c) < Len(b)
    BY <1>4, HeadDone
  <2>2. Len(c) <= Len(b)
    <3>1. Len(c) \in Nat
      BY <2>1, LenProperties DEF ByteSeq
    <3> QED BY <1>1, <2>1, <3>1, SMT
  <2> HIDE DEF h, c
  <2> QED BY <1>2, <2>1, <2>2
<1>5. CASE s.stateParseDescr # 4 /\ Len(b) < Begun(s).countDown
  <2> DEFINE p == FilledIn(Begun(s), b, Begun(s).countDown - Len(b))
  <2>1. r = Parser!Result(p, <<>>, FALSE) /\ p \in ParserState
    BY <1>5, HeadWaits
  <2> HIDE DEF p, r
  <2>2. r.parser = p /\ r.rest = <<>> /\ r.done = FALSE
    BY <2>1 DEF Parser!Result
  <2>3. b # <<>> => Len(<<>>) < Len(b)
    BY <1>1, SMT
  <2> QED BY <1>1, <2>1, <2>2, <2>3 DEF Parsed1, r
<1>6. s.stateParseDescr = 4 \/ Begun(s).countDown <= Len(b) \/ Len(b) < Begun(s).countDown
  <2>1. CASE s.stateParseDescr # 4
    <3>1. Begun(s).countDown \in 1..2
      BY <2>1, BegunState
    <3> QED BY <1>1, <3>1, SMT
  <2> QED BY <2>1
<1> QED BY <1>3, <1>4, <1>5, <1>6

\* r, what a call on a returns, says what the call returns when b follows.
GoesOn(s, a, b, r) ==
  /\ r.done => Parser!ParseDescriptor(s, a \o b) = Parser!Result(r.parser, r.rest \o b, TRUE)
  /\ ~r.done => Parser!ParseDescriptor(s, a \o b) = Parser!ParseDescriptor(r.parser, b)

\* One call on joined pieces is one call, or two.
LEMMA DescriptorJoin ==
  ASSUME NEW s \in ParserState, NEW a \in ByteSeq, NEW b \in ByteSeq
  PROVE  GoesOn(s, a, b, Parser!ParseDescriptor(s, a))
<1> DEFINE r == Parser!ParseDescriptor(s, a)
<1>0. r = Parser!ParseDescriptor(s, a)
  OBVIOUS
<1> HIDE DEF r
<1> SUFFICES /\ r.done => Parser!ParseDescriptor(s, a \o b) = Parser!Result(r.parser, r.rest \o b, TRUE)
             /\ ~r.done => Parser!ParseDescriptor(s, a \o b) = Parser!ParseDescriptor(r.parser, b)
  BY <1>0, Zenon DEF GoesOn
<1> DEFINE q == a \o b
<1>1. Len(a) \in Nat /\ Len(b) \in Nat /\ q \in ByteSeq /\ Len(q) = Len(a) + Len(b)
  BY LenProperties, JoinFacts DEF ByteSeq
<1>2. ASSUME NEW t, BodyReady(t), NEW c \in ByteSeq, r = Parser!ParseBody(t, c),
             Parser!ParseDescriptor(s, q) = Parser!ParseBody(t, c \o b)
      PROVE  /\ r.done => Parser!ParseDescriptor(s, q) = Parser!Result(r.parser, r.rest \o b, TRUE)
             /\ ~r.done => Parser!ParseDescriptor(s, q) = Parser!ParseDescriptor(r.parser, b)
  <2> HIDE DEF q
  <2>1. Left(t) \in Nat /\ Len(c) \in Nat
    BY <1>2, LeftType, LenProperties DEF BodyReady, ByteSeq
  <2>2. CASE Left(t) <= Len(c)
    <3>1. r = Parser!Result(After(Body(t, c).parser), Drop(c, Left(t)), TRUE)
      BY <1>2, <2>2, BodyParsed
    <3>2. r.done = TRUE /\ r.parser = After(Body(t, c).parser) /\ r.rest = Drop(c, Left(t))
      BY <3>1 DEF Parser!Result
    <3>3. Parser!ParseBody(t, c \o b) =
            Parser!Result(After(Body(t, c).parser), Drop(c, Left(t)) \o b, TRUE)
      BY <1>2, <2>2, BodyParsedJoin
    <3> QED BY <1>2, <3>2, <3>3
  <2>3. CASE Len(c) < Left(t)
    <3>1. /\ r = Parser!Result(Body(t, c).parser, <<>>, FALSE)
          /\ Body(t, c).parser \in ParserState /\ Body(t, c).parser.stateParseDescr = 4
      BY <1>2, <2>3, BodyParsed
    <3>2. r.done = FALSE /\ r.parser = Body(t, c).parser
      BY <3>1 DEF Parser!Result
    <3>3. Parser!ParseBody(t, c \o b) = Parser!ParseBody(Body(t, c).parser, b)
      BY <1>2, <2>3, BodyParsedJoin
    <3>4. Parser!ParseDescriptor(r.parser, b) = Parser!ParseBody(r.parser, b)
      BY <3>1, <3>2, DescriptorBody
    <3> QED BY <1>2, <3>2, <3>3, <3>4
  <2>4. Left(t) <= Len(c) \/ Len(c) < Left(t)
    BY <2>1, SMT
  <2> QED BY <2>2, <2>3, <2>4
<1>3. CASE s.stateParseDescr = 4
  <2>1. r = Parser!ParseBody(s, a) /\ BodyReady(s) /\ Parser!ParseDescriptor(s, q) = Parser!ParseBody(s, a \o b)
    BY <1>0, <1>1, <1>3, DescriptorBody
  <2> HIDE DEF q
  <2>2. /\ r.done => Parser!ParseDescriptor(s, q) = Parser!Result(r.parser, r.rest \o b, TRUE)
        /\ ~r.done => Parser!ParseDescriptor(s, q) = Parser!ParseDescriptor(r.parser, b)
    BY <1>2, <2>1
  <2> QED BY <2>2 DEF q
<1>4. CASE s.stateParseDescr # 4 /\ Begun(s).countDown <= Len(a)
  <2> DEFINE n == Begun(s).countDown
             h == Parser!Header(Headed(s, a))
             c == Drop(a, n)
  <2>1. r = Parser!ParseBody(h, c) /\ BodyReady(h) /\ c \in ByteSeq
    BY <1>0, <1>4, HeadDone
  <2>2. n \in 1..2
    BY <1>4, BegunState
  <2>3. n \in 0..Len(a) /\ n <= Len(q)
    BY <1>1, <1>4, <2>2, SMT
  <2>4. Take(q, n) = Take(a, n) /\ Drop(q, n) = c \o b
    BY <2>3, TakeJoin, DropJoin
  <2>5. Headed(s, q) = Headed(s, a)
    BY <2>4 DEF Headed
  <2>6. Parser!ParseDescriptor(s, q) = Parser!ParseBody(Parser!Header(Headed(s, q)), Drop(q, n))
    BY <1>1, <1>4, <2>3, HeadDone
  <2>7. Parser!ParseDescriptor(s, q) = Parser!ParseBody(h, c \o b)
    BY <2>4, <2>5, <2>6
  <2> HIDE DEF h, c, q
  <2>8. /\ r.done => Parser!ParseDescriptor(s, q) = Parser!Result(r.parser, r.rest \o b, TRUE)
        /\ ~r.done => Parser!ParseDescriptor(s, q) = Parser!ParseDescriptor(r.parser, b)
    BY <1>2, <2>1, <2>7
  <2> QED BY <2>8 DEF q
<1>5. CASE s.stateParseDescr # 4 /\ Len(a) < Begun(s).countDown
  <2> DEFINE t == Begun(s)
             n == t.countDown
             p == FilledIn(t, a, n - Len(a))
  <2>1. r = Parser!Result(p, <<>>, FALSE) /\ p \in ParserState /\ p.stateParseDescr = 1
        /\ r = Parser!ParseValue(t, a)
    BY <1>0, <1>5, HeadWaits
  <2>2. t \in Fields /\ ValueReady(t)
    BY <1>5, BegunState DEF Whole
  <2>3. Begun(p) = p
    BY <2>1, BegunState
  <2>4. r.done = FALSE /\ r.parser = p
    BY <2>1 DEF Parser!Result
  <2>5. Parser!ParseValue(t, q) = Parser!ParseValue(p, b)
    <3>1. Parser!ParseValue(t, q) = Parser!ParseValue(Parser!ParseValue(t, a).parser, b)
      BY <1>5, <2>2, ValueJoin
    <3> QED BY <2>1, <2>4, <3>1
  <2>6. \A x, y : x.stateParseDescr # 4 => Parser!ParseDescriptor(x, y) =
          LET head == Parser!ParseValue(Begun(x), y) IN
          IF head.done THEN Parser!ParseBody(Parser!Header(head.parser), head.rest) ELSE head
    BY Zenon DEF Parser!ParseDescriptor, Begun
  <2>7. p.stateParseDescr # 4
    BY <2>1
  <2> HIDE DEF p, q
  <2>8. Parser!ParseDescriptor(s, q) = Parser!ParseDescriptor(p, b)
    BY <1>5, <2>3, <2>5, <2>6, <2>7
  <2> QED BY <2>4, <2>8 DEF q
<1>6. s.stateParseDescr = 4 \/ Begun(s).countDown <= Len(a) \/ Len(a) < Begun(s).countDown
  <2>1. CASE s.stateParseDescr # 4
    <3>1. Begun(s).countDown \in 1..2
      BY <2>1, BegunState
    <3> QED BY <1>1, <3>1, SMT
  <2> QED BY <2>1
<1> QED BY <1>3, <1>4, <1>5, <1>6

(***************************************************************************)
(* Parse, which is a fold over the bytes of a piece.                       *)
(***************************************************************************)

\* The last of a set of positions.
Top(S) == CHOOSE x \in S : \A y \in S : x >= y

LEMMA TopIsTop ==
  ASSUME NEW n \in Nat, NEW S \in SUBSET (1..n), S # {} PROVE Top(S) \in S /\ \A y \in S : y <= Top(S)
<1> DEFINE T == {m \in Nat : n - m \in S}
<1>1. PICK x \in S : TRUE
  OBVIOUS
<1>2. n - x \in Nat /\ n - (n - x) = x
  BY SMT
<1>3. T \subseteq Nat /\ T # {}
  BY <1>1, <1>2
<1>4. PICK m \in T : \A y \in T : m <= y
  BY <1>3, LeastNat
<1>5. n - m \in S /\ m \in Nat
  OBVIOUS
<1>6. ASSUME NEW y \in S PROVE n - m >= y
  <2>1. n - y \in Nat /\ n - (n - y) = y
    BY SMT
  <2>2. n - y \in T
    BY <2>1
  <2>3. m <= n - y
    BY <1>4, <2>2
  <2> HIDE DEF T
  <2> QED BY <1>5, <2>3, SMT
<1> HIDE DEF T
<1>7. Top(S) \in S /\ \A y \in S : Top(S) >= y
  BY <1>5, <1>6, Zenon DEF Top
<1> DEFINE t == Top(S)
<1>8. t \in 1..n /\ \A y \in S : y \in 1..n /\ t >= y
  BY <1>7
<1> HIDE DEF t
<1>9. \A y \in S : y <= t
  BY <1>8, SMT
<1> QED BY <1>7, <1>9 DEF t

LEMMA TopFacts ==
  /\ \A n \in Nat : \A S \in SUBSET (1..n) : S # {} => Top(S) \in S
  /\ \A n \in Nat : n # 0 => Top(1..n) = n /\ (1..n) \ {n} = 1..(n - 1) /\ 1..n # {}
  /\ 1..0 = {}
<1>1. ASSUME NEW n \in Nat, NEW S \in SUBSET (1..n), S # {} PROVE Top(S) \in S
  BY <1>1, TopIsTop
<1>2. ASSUME NEW n \in Nat, n # 0
      PROVE  Top(1..n) = n /\ (1..n) \ {n} = 1..(n - 1) /\ 1..n # {}
  <2>1. n \in 1..n /\ \A y \in 1..n : n >= y
    BY <1>2, SMT
  <2>2. ASSUME NEW x \in 1..n, \A y \in 1..n : x >= y PROVE x = n
    BY <1>2, <2>1, <2>2, SMT
  <2>3. Top(1..n) = n
    BY <2>1, <2>2, Zenon DEF Top
  <2>4. (1..n) \ {n} = 1..(n - 1)
    BY <1>2, SMT
  <2> QED BY <2>1, <2>3, <2>4
<1>3. 1..0 = {}
  BY SMT
<1> QED BY <1>1, <1>2, <1>3

\* What a call returns.
Returned == [parser : ParserState, rest : ByteSeq, done : BOOLEAN]

LEMMA Calls ==
  ASSUME NEW s \in ParserState, NEW b \in ByteSeq
  PROVE  /\ Parser!ParseDescriptor(s, b) \in Returned
         /\ Parser!Result(s, b, TRUE) \in Returned
<1> DEFINE r == Parser!ParseDescriptor(s, b)
<1>1. Parsed1(s, b, r)
  BY DescriptorFacts
<1> HIDE DEF r
<1>2. r \in Returned
  BY <1>1 DEF Parsed1, Parser!Result, Returned
<1> QED BY <1>2 DEF r, Parser!Result, Returned

\* One round of Parse.
Round(r) ==
  IF r.done /\ r.rest # <<>> THEN Parser!ParseDescriptor(r.parser, r.rest) ELSE r

Rounds == [r \in Returned |-> Round(r)]

LEMMA RoundType == Rounds \in [Returned -> Returned]
<1>1. ASSUME NEW r \in Returned PROVE Round(r) \in Returned
  <2>1. r.parser \in ParserState /\ r.rest \in ByteSeq
    BY DEF Returned
  <2> QED BY <2>1, Calls DEF Round
<1> QED BY <1>1 DEF Rounds

\* The rounds that begin with r.
Runs(F, r) == F \in [Nat -> Returned] /\ Recurs(F, r, Rounds)

LEMMA RunExists == ASSUME NEW r \in Returned PROVE \E F : Runs(F, r)
<1>1. PICK F \in [Nat -> Returned] : Recurs(F, r, Rounds)
  BY RoundType, NatRecursion, Zenon
<1> QED BY <1>1, Zenon DEF Runs

LEMMA RunSteps ==
  ASSUME NEW F, NEW r \in Returned, Runs(F, r)
  PROVE  /\ F[0] = r
         /\ \A n \in Nat : F[n] \in Returned /\ F[n + 1] = Round(F[n])
<1>1. F[0] = r
  BY DEF Runs, Recurs, Step
<1>2. ASSUME NEW n \in Nat PROVE F[n + 1] = Round(F[n])
  <2>1. n + 1 \in Nat /\ n + 1 # 0 /\ (n + 1) - 1 = n
    BY SMT
  <2>2. F[n + 1] = Rounds[F[n]] /\ F[n] \in Returned
    BY <2>1 DEF Runs, Recurs, Step
  <2> QED BY <2>2 DEF Rounds
<1>3. \A n \in Nat : F[n] \in Returned
  BY DEF Runs
<1> QED BY <1>1, <1>2, <1>3

IsFold(H, base, D) ==
  H = [S \in SUBSET D |-> IF S = {} THEN base ELSE Round(H[S \ {Top(S)}])]

\* The fold ends where as many rounds end as the piece has bytes.
LEMMA ParseRuns ==
  ASSUME NEW s \in ParserState, NEW b \in ByteSeq, NEW F, Runs(F, Parser!Result(s, b, TRUE))
  PROVE  Parser!Parse(s, b) = F[Len(b)].parser
<1> DEFINE base == Parser!Result(s, b, TRUE)
           D == DOMAIN b
           G == CHOOSE H : IsFold(H, base, D)
           H == [S \in SUBSET D |-> F[Cardinality(S)]]
<1>1. Parser!Parse(s, b) = G[D].parser
  BY Zenon DEF Parser!Parse, Parser!FoldLeft, Parser!MapThenFoldSet, Parser!Max, Round, IsFold, Top
<1>2. base \in Returned /\ D = 1..Len(b) /\ Len(b) \in Nat
  BY Calls, LenProperties DEF ByteSeq
<1>3. F[0] = base /\ \A n \in Nat : F[n] \in Returned /\ F[n + 1] = Round(F[n])
  BY <1>2, RunSteps
<1> HIDE DEF base, D
<1>4. \A S \in SUBSET D : IsFiniteSet(S) /\ Cardinality(S) \in Nat
  <2>1. 1 \in Int /\ Len(b) \in Int
    BY <1>2, SMT
  <2>2. IsFiniteSet(D)
    BY <1>2, <2>1, FS_Interval
  <2> QED BY <2>2, FS_Subset, FS_CardinalityType
<1>5. IsFold(H, base, D)
  <2>1. ASSUME NEW S \in SUBSET D
        PROVE  H[S] = IF S = {} THEN base ELSE Round(H[S \ {Top(S)}])
    <3>1. CASE S = {}
      <4>1. Cardinality(S) = 0
        BY <3>1, FS_EmptySet
      <4> QED BY <1>3, <3>1, <4>1
    <3>2. CASE S # {}
      <4> DEFINE t == Top(S)
                 n == Cardinality(S) - 1
      <4>1. t \in S
        BY <1>2, <3>2, TopFacts
      <4> HIDE DEF t
      <4>2. S \ {t} \in SUBSET D /\ Cardinality(S \ {t}) = n
        BY <1>4, <4>1, FS_RemoveElement
      <4>3. n \in Nat /\ n + 1 = Cardinality(S)
        BY <1>4, <4>2, SMT
      <4> HIDE DEF n
      <4>4. H[S] = F[n + 1] /\ H[S \ {t}] = F[n]
        BY <4>2, <4>3
      <4> QED BY <1>3, <3>2, <4>3, <4>4 DEF t
    <3> QED BY <3>1, <3>2
  <2>2. H = [S \in SUBSET D |-> H[S]]
    OBVIOUS
  <2> HIDE DEF H
  <2> QED BY <2>1, <2>2, Zenon DEF IsFold
<1>6. IsFold(G, base, D)
  <2> HIDE DEF H
  <2> QED BY <1>5, Zenon
<1> HIDE DEF G
<1> DEFINE N == {n \in Nat : n <= Len(b) => G[1..n] = F[n]}
<1>7. 0 \in N
  <2>1. 1..0 = {} /\ {} \in SUBSET D
    BY TopFacts
  <2>2. G[{}] = base
    BY <1>6, <2>1 DEF IsFold
  <2> QED BY <1>3, <2>1, <2>2
<1>8. ASSUME NEW n \in Nat, n \in N PROVE n + 1 \in N
  <2> SUFFICES ASSUME n + 1 <= Len(b) PROVE G[1..(n + 1)] = F[n + 1]
    BY SMT
  <2>1. n + 1 \in Nat /\ n + 1 # 0 /\ (n + 1) - 1 = n /\ n <= Len(b) /\ 1..(n + 1) \subseteq 1..Len(b)
    BY <1>2, SMT
  <2>2. Top(1..(n + 1)) = n + 1 /\ (1..(n + 1)) \ {n + 1} = 1..n /\ 1..(n + 1) # {}
    BY <2>1, TopFacts
  <2>3. 1..(n + 1) \in SUBSET D
    BY <1>2, <2>1
  <2>4. G[1..(n + 1)] = Round(G[1..n])
    BY <1>6, <2>2, <2>3 DEF IsFold
  <2>5. G[1..n] = F[n]
    BY <1>8, <2>1
  <2> QED BY <1>3, <2>4, <2>5
<1> HIDE DEF N
<1>9. Len(b) \in N
  BY <1>2, <1>7, <1>8, Induction
<1>10. G[D] = F[Len(b)]
  <2>1. Len(b) <= Len(b)
    BY <1>2, SMT
  <2> QED BY <1>2, <1>9, <2>1 DEF N
<1> QED BY <1>1, <1>10

\* Nothing is left to do.
Halted(r) == ~r.done \/ r.rest = <<>>

\* Rounds go on until the piece is used up.
LEMMA RunsEnd ==
  ASSUME NEW r \in Returned, NEW F, Runs(F, r), NEW n \in Nat, Len(r.rest) <= n
  PROVE  F[n] = F[Len(r.rest)]
<1> DEFINE l == Len(r.rest)
           N == {k \in Nat : Halted(F[k]) \/ Len(F[k].rest) + k <= l}
<1>1. l \in Nat /\ F[0] = r /\ \A k \in Nat : F[k] \in Returned /\ F[k + 1] = Round(F[k])
  BY RunSteps, LenProperties DEF Returned, ByteSeq
<1>2. \A k \in Nat : F[k].rest \in ByteSeq /\ Len(F[k].rest) \in Nat /\ F[k].parser \in ParserState
                     /\ F[k].done \in BOOLEAN
  BY <1>1, LenProperties DEF Returned, ByteSeq
<1> HIDE DEF l
<1>3. 0 \in N
  BY <1>1, SMT DEF l
<1>4. ASSUME NEW k \in Nat, k \in N PROVE k + 1 \in N
  <2>1. k + 1 \in Nat /\ F[k + 1] = Round(F[k])
    BY <1>1, SMT
  <2>2. CASE Halted(F[k])
    <3>1. F[k + 1] = F[k]
      BY <2>1, <2>2 DEF Round, Halted
    <3> QED BY <2>1, <2>2, <3>1
  <2>3. CASE ~Halted(F[k]) /\ Len(F[k].rest) + k <= l
    <3> DEFINE p == F[k].parser
               b == F[k].rest
               x == Parser!ParseDescriptor(p, b)
    <3>1. F[k + 1] = x /\ b # <<>>
      BY <2>1, <2>3 DEF Round, Halted
    <3>2. Parsed1(p, b, x)
      BY <1>2, DescriptorFacts
    <3>3. Len(x.rest) < Len(b) /\ Len(x.rest) \in Nat /\ Len(b) \in Nat
      BY <1>2, <2>1, <3>1, <3>2 DEF Parsed1
    <3> HIDE DEF x
    <3>4. Len(x.rest) + (k + 1) <= l
      <4>1. Len(b) + k <= l
        BY <2>3
      <4>2. l \in Nat
        BY <1>1
      <4>3. \A i, j \in Nat : i < j /\ j + k <= l => i + (k + 1) <= l
        BY <4>2, SMT
      <4> HIDE DEF b
      <4> QED BY <3>3, <4>1, <4>3
    <3> QED BY <2>1, <3>1, <3>4
  <2> QED BY <1>4, <2>2, <2>3
<1> HIDE DEF N
<1>5. l \in N
  BY <1>1, <1>3, <1>4, Induction
<1>6. Halted(F[l])
  <2>1. CASE Len(F[l].rest) + l <= l
    <3>1. Len(F[l].rest) = 0
      BY <1>1, <1>2, <2>1, SMT
    <3>2. F[l].rest = <<>>
      BY <1>1, <1>2, <3>1, EmptySeq DEF ByteSeq
    <3> QED BY <3>2 DEF Halted
  <2> QED BY <1>5, <2>1 DEF N
<1> DEFINE M == {k \in Nat : F[l + k] = F[l]}
<1>7. 0 \in M
  BY <1>1, SMT
<1>8. ASSUME NEW k \in Nat, k \in M PROVE k + 1 \in M
  <2>1. l + k \in Nat /\ (l + k) + 1 = l + (k + 1)
    BY <1>1, SMT
  <2>2. F[l + (k + 1)] = Round(F[l + k])
    BY <1>1, <2>1
  <2>3. Round(F[l]) = F[l]
    BY <1>6 DEF Round, Halted
  <2> QED BY <1>8, <2>2, <2>3
<1> HIDE DEF M
<1>9. n - l \in Nat /\ l + (n - l) = n
  BY <1>1, SMT DEF l
<1>10. n - l \in M
  BY <1>7, <1>8, <1>9, Induction
<1> QED BY <1>9, <1>10 DEF M, l

(***************************************************************************)
(* Parse, one descriptor at a time.                                        *)
(***************************************************************************)
LEMMA ParseNothing == ASSUME NEW s \in ParserState PROVE Parser!Parse(s, <<>>) = s
<1> DEFINE r == Parser!Result(s, <<>>, TRUE)
<1>1. <<>> \in ByteSeq /\ Len(<<>>) = 0
  BY EmptySeq DEF ByteSeq
<1>2. r \in Returned
  BY <1>1, Calls
<1>3. PICK F : Runs(F, r)
  BY <1>2, RunExists
<1>4. Parser!Parse(s, <<>>) = F[Len(<<>>)].parser
  BY <1>1, <1>3, ParseRuns
<1>5. F[0] = r
  BY <1>2, <1>3, RunSteps
<1>6. r.parser = s
  BY DEF Parser!Result
<1> QED BY <1>1, <1>4, <1>5, <1>6

LEMMA ParseNext ==
  ASSUME NEW s \in ParserState, NEW b \in ByteSeq, b # <<>>,
         NEW r, r = Parser!ParseDescriptor(s, b)
  PROVE  Parser!Parse(s, b) = IF r.done THEN Parser!Parse(r.parser, r.rest) ELSE r.parser
<1> DEFINE q == Parser!Result(s, b, TRUE)
<1>1. /\ q \in Returned /\ r \in Returned /\ Parsed1(s, b, r)
      /\ r.parser \in ParserState /\ r.rest \in ByteSeq
  <2>1. q \in Returned /\ r \in Returned /\ Parsed1(s, b, r)
    BY Calls, DescriptorFacts
  <2> QED BY <2>1 DEF Returned
<1>2. Len(b) \in Nat /\ Len(r.rest) \in Nat /\ Len(r.rest) < Len(b)
  BY <1>1, LenProperties DEF ByteSeq, Parsed1
<1>3. PICK F : Runs(F, q)
  BY <1>1, RunExists
<1>4. PICK E : Runs(E, r)
  BY <1>1, RunExists
<1>5. F[0] = q /\ \A n \in Nat : F[n] \in Returned /\ F[n + 1] = Round(F[n])
  BY <1>1, <1>3, RunSteps
<1>6. E[0] = r /\ \A n \in Nat : E[n] \in Returned /\ E[n + 1] = Round(E[n])
  BY <1>1, <1>4, RunSteps
<1>7. Round(q) = r
  BY DEF Round, Parser!Result
<1> HIDE DEF q
<1> DEFINE N == {n \in Nat : F[n + 1] = E[n]}
<1>8. 0 \in N
  <2>1. F[0 + 1] = Round(F[0])
    BY <1>5
  <2> QED BY <1>5, <1>6, <1>7, <2>1
<1>9. ASSUME NEW n \in Nat, n \in N PROVE n + 1 \in N
  <2>1. n + 1 \in Nat
    BY SMT
  <2>2. F[(n + 1) + 1] = Round(F[n + 1]) /\ E[n + 1] = Round(E[n])
    BY <1>5, <1>6, <2>1
  <2> QED BY <1>9, <2>1, <2>2
<1> HIDE DEF N
<1>10. ASSUME NEW n \in Nat PROVE F[n + 1] = E[n]
  <2>1. n \in N
    BY <1>8, <1>9, Induction
  <2> QED BY <2>1 DEF N
<1>11. Len(b) - 1 \in Nat /\ (Len(b) - 1) + 1 = Len(b) /\ Len(r.rest) <= Len(b) - 1
  BY <1>2, SMT
<1>12. Parser!Parse(s, b) = E[Len(b) - 1].parser
  <2>1. Parser!Parse(s, b) = F[Len(b)].parser
    BY <1>3, ParseRuns DEF q
  <2>2. F[(Len(b) - 1) + 1] = E[Len(b) - 1]
    BY <1>10, <1>11
  <2> QED BY <1>11, <2>1, <2>2
<1>13. E[Len(b) - 1] = E[Len(r.rest)]
  BY <1>1, <1>4, <1>11, RunsEnd
<1>14. CASE r.done
  <2>1. r = Parser!Result(r.parser, r.rest, TRUE)
    BY <1>1, <1>14 DEF Parsed1
  <2>2. Runs(E, Parser!Result(r.parser, r.rest, TRUE))
    BY <1>4, <2>1
  <2>3. Parser!Parse(r.parser, r.rest) = E[Len(r.rest)].parser
    BY <1>1, <2>2, ParseRuns
  <2> QED BY <1>12, <1>13, <1>14, <2>3
<1>15. CASE ~r.done
  <2>1. r.rest = <<>> /\ Len(<<>>) = 0
    BY <1>1, <1>15, EmptySeq DEF Parsed1
  <2> QED BY <1>6, <1>12, <1>13, <1>15, <2>1
<1> QED BY <1>14, <1>15

LEMMA ParseType ==
  ASSUME NEW s \in ParserState, NEW b \in ByteSeq PROVE Parser!Parse(s, b) \in ParserState
<1> DEFINE q == Parser!Result(s, b, TRUE)
<1>1. q \in Returned /\ Len(b) \in Nat
  BY Calls, LenProperties DEF ByteSeq
<1>2. PICK F : Runs(F, q)
  BY <1>1, RunExists
<1>3. F[Len(b)] \in Returned
  BY <1>1, <1>2 DEF Runs
<1>4. Parser!Parse(s, b) = F[Len(b)].parser
  BY <1>2, ParseRuns
<1> QED BY <1>3, <1>4 DEF Returned

\* The parser goes through joined pieces as through one after the other.
LEMMA ParseJoin ==
  ASSUME NEW s \in ParserState, NEW a \in ByteSeq, NEW b \in ByteSeq
  PROVE  Parser!Parse(s, a \o b) = Parser!Parse(Parser!Parse(s, a), b)
<1> DEFINE Joins(t, x) == Parser!Parse(t, x \o b) = Parser!Parse(Parser!Parse(t, x), b)
           N == {n \in Nat : \A t \in ParserState, x \in ByteSeq : Len(x) <= n => Joins(t, x)}
<1>1. ASSUME NEW t \in ParserState, NEW x \in ByteSeq,
             \A u \in ParserState, y \in ByteSeq : Len(y) < Len(x) => Joins(u, y)
      PROVE  Joins(t, x)
  <2>1. CASE x = <<>>
    <3>1. x \o b = b
      BY <2>1, ConcatProperties DEF ByteSeq
    <3> QED BY <2>1, <3>1, ParseNothing
  <2>2. CASE x # <<>>
    <3> DEFINE r == Parser!ParseDescriptor(t, x)
               q == x \o b
    <3>1. /\ r \in Returned /\ Parsed1(t, x, r)
          /\ r.parser \in ParserState /\ r.rest \in ByteSeq /\ r.done \in BOOLEAN
          /\ Len(r.rest) < Len(x)
      <4>1. r \in Returned /\ Parsed1(t, x, r)
        BY Calls, DescriptorFacts
      <4> QED BY <2>2, <4>1 DEF Returned, Parsed1
    <3>2. q \in ByteSeq /\ q # <<>>
      <4>1. q \in ByteSeq /\ Len(q) = Len(x) + Len(b) /\ Len(x) \in Nat /\ Len(b) \in Nat
        BY JoinFacts, LenProperties DEF ByteSeq
      <4>2. Len(x) # 0
        BY <2>2, EmptySeq DEF ByteSeq
      <4>3. Len(q) # 0
        <5> HIDE DEF q
        <5> QED BY <4>1, <4>2, SMT
      <4> QED BY <4>1, <4>3, EmptySeq
    <3>3. /\ r.done => Parser!ParseDescriptor(t, q) = Parser!Result(r.parser, r.rest \o b, TRUE)
          /\ ~r.done => Parser!ParseDescriptor(t, q) = Parser!ParseDescriptor(r.parser, b)
      <4>1. GoesOn(t, x, b, r)
        BY DescriptorJoin
      <4> HIDE DEF r
      <4> QED BY <4>1 DEF GoesOn
    <3>4. Parser!Parse(t, x) = IF r.done THEN Parser!Parse(r.parser, r.rest) ELSE r.parser
      BY <2>2, ParseNext
    <3>5. Parser!Parse(t, q) =
            LET e == Parser!ParseDescriptor(t, q) IN
            IF e.done THEN Parser!Parse(e.parser, e.rest) ELSE e.parser
      BY <3>2, ParseNext
    <3> HIDE DEF r
    <3>6. CASE r.done
      <4>1. Joins(r.parser, r.rest)
        BY <1>1, <3>1
      <4>2. Parser!Parse(t, q) = Parser!Parse(r.parser, r.rest \o b)
        <5> DEFINE e == Parser!ParseDescriptor(t, q)
        <5>1. e = Parser!Result(r.parser, r.rest \o b, TRUE)
          BY <3>3, <3>6
        <5>2. Parser!Parse(t, q) = IF e.done THEN Parser!Parse(e.parser, e.rest) ELSE e.parser
          BY <3>5
        <5> HIDE DEF q, e
        <5>3. e.done = TRUE /\ e.parser = r.parser /\ e.rest = r.rest \o b
          BY <5>1 DEF Parser!Result
        <5> QED BY <5>2, <5>3
      <4> QED BY <3>4, <3>6, <4>1, <4>2
    <3>7. CASE ~r.done
      <4>1. CASE b = <<>>
        <5>1. q = x
          BY <4>1, ConcatProperties DEF ByteSeq
        <5> QED BY <3>1, <3>4, <3>7, <4>1, <5>1, ParseNothing
      <4>2. CASE b # <<>>
        <5>1. Parser!Parse(r.parser, b) =
                LET e == Parser!ParseDescriptor(r.parser, b) IN
                IF e.done THEN Parser!Parse(e.parser, e.rest) ELSE e.parser
          BY <3>1, <4>2, ParseNext
        <5>2. Parser!ParseDescriptor(t, q) = Parser!ParseDescriptor(r.parser, b)
          BY <3>3, <3>7
        <5>3. Parser!Parse(t, q) = Parser!Parse(r.parser, b)
          <6> HIDE DEF q
          <6> QED BY <3>5, <5>1, <5>2
        <5> QED BY <3>4, <3>7, <5>3
      <4> QED BY <4>1, <4>2
    <3> QED BY <3>6, <3>7
  <2> QED BY <2>1, <2>2
<1> HIDE DEF Joins
<1>2. \A x \in ByteSeq : Len(x) \in Nat
  BY LenProperties DEF ByteSeq
<1>3. 0 \in N
  <2>1. ASSUME NEW t \in ParserState, NEW x \in ByteSeq, Len(x) <= 0 PROVE Joins(t, x)
    <3>1. \A y \in ByteSeq : ~(Len(y) < Len(x))
      BY <1>2, <2>1, SMT
    <3> QED BY <1>1, <3>1
  <2> QED BY <2>1
<1>4. ASSUME NEW n \in Nat, n \in N PROVE n + 1 \in N
  <2>1. ASSUME NEW t \in ParserState, NEW x \in ByteSeq, Len(x) <= n + 1 PROVE Joins(t, x)
    <3>1. ASSUME NEW u \in ParserState, NEW y \in ByteSeq, Len(y) < Len(x) PROVE Joins(u, y)
      <4>1. Len(y) <= n
        <5>1. Len(x) \in Nat /\ Len(y) \in Nat
          BY <1>2
        <5> QED BY <2>1, <3>1, <5>1, SMT
      <4> QED BY <1>4, <4>1
    <3> QED BY <1>1, <3>1
  <2>2. n + 1 \in Nat
    BY SMT
  <2> QED BY <2>1, <2>2
<1> HIDE DEF N
<1>5. Len(a) \in N /\ Len(a) <= Len(a)
  <2>1. Len(a) \in Nat
    BY <1>2
  <2>2. Nat \subseteq N
    BY <1>3, <1>4, Induction
  <2> QED BY <2>1, <2>2, SMT
<1>6. Joins(s, a)
  BY <1>5 DEF N
<1> QED BY <1>6 DEF Joins

(***************************************************************************)
(* ParseAll, which is a fold over pieces.                                  *)
(***************************************************************************)
IsFoldAll(H, s, q) ==
  H = [S \in SUBSET DOMAIN q |-> IF S = {} THEN s ELSE Parser!Parse(H[S \ {Top(S)}], q[Top(S)])]

\* E[k] are the bytes that the first k pieces of q make up.
Joined(E, q) ==
  /\ E[0] = <<>>
  /\ \A k \in 0..Len(q) : E[k] \in ByteSeq
  /\ \A k \in 0..Len(q) : k # Len(q) => E[k + 1] = E[k] \o q[k + 1]

LEMMA ParseAllJoined ==
  ASSUME NEW s \in ParserState, NEW q \in Seq(ByteSeq), NEW E, Joined(E, q)
  PROVE  Parser!ParseAll(s, q) = Parser!Parse(s, E[Len(q)])
<1> DEFINE D == DOMAIN q
           G == CHOOSE H : IsFoldAll(H, s, q)
           step == [i \in D |-> [x \in ParserState |-> Parser!Parse(x, q[i])]]
           pick == [S \in SUBSET D |-> Top(S)]
<1>1. Parser!ParseAll(s, q) = G[D]
  BY Zenon DEF Parser!ParseAll, Parser!FoldLeft, Parser!MapThenFoldSet, Parser!Max, IsFoldAll, Top
<1>2. D = 1..Len(q) /\ Len(q) \in Nat /\ \A i \in D : q[i] \in ByteSeq
  BY LenProperties, ElementOfSeq
<1> HIDE DEF D
<1>3. IsFiniteSet(D)
  <2>1. 1 \in Int /\ Len(q) \in Int
    BY <1>2, SMT
  <2> QED BY <1>2, <2>1, FS_Interval
<1>4. step \in [D -> [ParserState -> ParserState]]
  BY <1>2, ParseType
<1>5. Picks(pick, D)
  <2>1. \A S \in SUBSET D : S # {} => Top(S) \in S
    BY <1>2, TopFacts
  <2> QED BY <2>1 DEF Picks
<1>6. PICK F \in [SUBSET D -> ParserState] : Folds(F, D, s, step, pick)
  <2> HIDE DEF step, pick
  <2> QED BY <1>3, <1>4, <1>5, SetRecursion, Zenon
<1>7. IsFoldAll(F, s, q)
  <2>1. ASSUME NEW S \in SUBSET D
        PROVE  F[S] = IF S = {} THEN s ELSE Parser!Parse(F[S \ {Top(S)}], q[Top(S)])
    <3>1. F[S] = Fold(F, s, step, pick, S)
      BY <1>6 DEF Folds
    <3>2. CASE S = {}
      BY <3>1, <3>2 DEF Fold
    <3>3. CASE S # {}
      <4> DEFINE t == Top(S)
      <4>1. t \in D /\ pick[S] = t
        BY <1>2, <3>3, TopFacts
      <4> HIDE DEF t
      <4>2. F[S \ {t}] \in ParserState
        OBVIOUS
      <4>3. step[t][F[S \ {t}]] = Parser!Parse(F[S \ {t}], q[t])
        BY <4>1, <4>2
      <4> HIDE DEF step, pick
      <4> QED BY <3>1, <3>3, <4>1, <4>3 DEF Fold, t
    <3> QED BY <3>2, <3>3
  <2>2. F = [S \in SUBSET D |-> F[S]]
    OBVIOUS
  <2> QED BY <2>1, <2>2, Zenon DEF IsFoldAll, D
<1>8. IsFoldAll(G, s, q)
  BY <1>7, Zenon
<1> HIDE DEF G
<1> DEFINE N == {n \in Nat : n <= Len(q) => G[1..n] = Parser!Parse(s, E[n])}
<1>9. 0 \in N
  <2>1. 1..0 = {} /\ {} \in SUBSET D
    BY TopFacts
  <2>2. G[{}] = s
    BY <1>8, <2>1 DEF IsFoldAll, D
  <2> QED BY <2>1, <2>2, ParseNothing DEF Joined
<1>10. ASSUME NEW n \in Nat, n \in N PROVE n + 1 \in N
  <2> SUFFICES ASSUME n + 1 <= Len(q) PROVE G[1..(n + 1)] = Parser!Parse(s, E[n + 1])
    BY SMT
  <2>1. /\ n + 1 \in Nat /\ n + 1 # 0 /\ (n + 1) - 1 = n /\ n <= Len(q) /\ n # Len(q)
        /\ 1..(n + 1) \subseteq 1..Len(q) /\ n \in 0..Len(q) /\ n + 1 \in 1..Len(q)
    BY <1>2, SMT
  <2>2. Top(1..(n + 1)) = n + 1 /\ (1..(n + 1)) \ {n + 1} = 1..n /\ 1..(n + 1) # {}
    BY <2>1, TopFacts
  <2>3. 1..(n + 1) \in SUBSET D /\ q[n + 1] \in ByteSeq
    BY <1>2, <2>1
  <2>4. G[1..(n + 1)] = Parser!Parse(G[1..n], q[n + 1])
    BY <1>8, <2>2, <2>3 DEF IsFoldAll, D
  <2>5. G[1..n] = Parser!Parse(s, E[n])
    BY <1>10, <2>1
  <2>6. E[n + 1] = E[n] \o q[n + 1] /\ E[n] \in ByteSeq
    BY <2>1 DEF Joined
  <2>7. Parser!Parse(s, E[n] \o q[n + 1]) = Parser!Parse(Parser!Parse(s, E[n]), q[n + 1])
    BY <2>3, <2>6, ParseJoin
  <2> QED BY <2>4, <2>5, <2>6, <2>7
<1> HIDE DEF N
<1>11. Len(q) \in N /\ Len(q) <= Len(q)
  <2>1. Nat \subseteq N
    BY <1>9, <1>10, Induction
  <2> QED BY <1>2, <2>1, SMT
<1>12. G[1..Len(q)] = Parser!Parse(s, E[Len(q)])
  BY <1>11 DEF N
<1> QED BY <1>1, <1>2, <1>12

\* How many pieces of d bytes cover l bytes, and that no piece is empty.
LEMMA EnoughPieces ==
  ASSUME NEW l \in Nat, NEW d \in Nat \ {0}, NEW n, n = (l + d - 1) \div d
  PROVE  /\ n \in Nat /\ l <= n * d
         /\ \A k \in Nat : k * d \in Nat /\ (k + 1) * d = k * d + d
         /\ \A k \in Nat : k < n => k * d < l
<1> DEFINE x == l + d - 1
           r == x % d
<1>1. x \in Nat /\ d \in Int /\ d > 0
  BY SMT
<1>2. n \in Int /\ r \in Int /\ x = d * n + r /\ 0 <= r /\ r < d
  BY <1>1, Divide
<1>3. l <= d * n /\ d * n < l + d
  <2> HIDE DEF r
  <2>1. d * n \in Int
    BY <1>1, <1>2, SMT
  <2>2. d * n = x - r
    BY <1>1, <1>2, <2>1, SMT
  <2> QED BY <1>1, <1>2, <2>1, <2>2, SMT
<1>4. n \in Nat
  <2>1. CASE n < 0
    <3>1. d * n <= -d
      BY <1>1, <1>2, <2>1, SMT
    <3> QED BY <1>1, <1>2, <1>3, <3>1, SMT
  <2> QED BY <1>2, <2>1, SMT
<1>5. \A k \in Nat : k * d \in Nat /\ (k + 1) * d = k * d + d
  BY <1>1, SMT
<1>6. ASSUME NEW k \in Nat, k < n PROVE k * d < l
  <2>1. n - (k + 1) \in Nat
    BY <1>4, <1>6, SMT
  <2>2. (n - (k + 1)) * d \in Nat
    BY <1>5, <2>1
  <2>3. (n - (k + 1)) * d = d * n - (k * d + d)
    BY <1>1, <1>4, SMT
  <2>4. k * d \in Nat
    BY <1>5
  <2> QED BY <1>1, <1>3, <1>4, <2>2, <2>3, <2>4, SMT
<1>7. d * n = n * d
  BY <1>1, <1>4, SMT
<1> QED BY <1>3, <1>4, <1>5, <1>6, <1>7

LEMMA TakeMore ==
  ASSUME NEW b \in ByteSeq, NEW m \in Nat, NEW l \in Nat, m <= l, l <= Len(b)
  PROVE  SubSeq(b, m + 1, l) \in ByteSeq /\ Take(b, l) = Take(b, m) \o SubSeq(b, m + 1, l)
<1> DEFINE q == SubSeq(b, m + 1, l)
           t == Take(b, m)
           u == Take(b, l)
           v == t \o q
<1>1. Len(b) \in Nat /\ b \in Seq(Nat)
  BY LenProperties DEF ByteSeq
<1>2. m \in 0..Len(b) /\ l \in 0..Len(b) /\ m + 1 \in Nat /\ m + 1 \in 1..(Len(b) + 1)
  BY <1>1, SMT
<1>3. q \in ByteSeq /\ Len(q) = l - m /\ \A i \in 1..(l - m) : q[i] = b[m + i]
  <2>1. \A i \in m + 1 .. l : b[i] \in Nat
    <3>1. m + 1 .. l \subseteq 1..Len(b)
      BY <1>1, <1>2, SMT
    <3> QED BY <1>1, <3>1, ElementOfSeq
  <2>2. q = [i \in 1..(l - m) |-> b[i + m]]
    BY <1>1, <1>2, SMT
  <2>3. l - m \in Nat
    BY SMT
  <2> HIDE DEF q
  <2>4. Len(q) = l - m /\ \A i \in 1..(l - m) : q[i] = b[m + i] /\ q[i] \in Nat
    <3>1. \A i \in 1..(l - m) : i + m = m + i /\ m + i \in m + 1 .. l
      BY SMT
    <3> QED BY <2>1, <2>2, <2>3, <3>1
  <2>5. q \in Seq(Nat)
    BY <2>2, <2>3, <2>4
  <2> QED BY <2>4, <2>5 DEF ByteSeq
<1> HIDE DEF q
<1>4. t \in ByteSeq /\ Len(t) = m /\ \A i \in 1..m : t[i] = b[i]
  BY <1>2, TakeFacts
<1>5. u \in ByteSeq /\ Len(u) = l /\ \A i \in 1..l : u[i] = b[i]
  BY <1>2, TakeFacts
<1> HIDE DEF t, u
<1>6. /\ v \in ByteSeq /\ Len(v) = Len(t) + Len(q)
      /\ \A i \in 1..Len(t) : v[i] = t[i]
      /\ \A i \in 1..Len(q) : v[Len(t) + i] = q[i]
  BY <1>3, <1>4, JoinFacts
<1> HIDE DEF v
<1>7. Len(v) = l
  BY <1>3, <1>4, <1>6, SMT
<1>8. ASSUME NEW i \in 1..l PROVE v[i] = u[i]
  <2>1. CASE i <= m
    <3>1. i \in 1..m
      BY <2>1, SMT
    <3> QED BY <1>4, <1>5, <1>6, <3>1
  <2>2. CASE i > m
    <3> DEFINE j == i - m
    <3>1. j \in 1..(l - m) /\ m + j = i
      BY <2>2, SMT
    <3> HIDE DEF j
    <3> QED BY <1>3, <1>4, <1>5, <1>6, <3>1
  <2> QED BY <2>1, <2>2, SMT
<1>9. v = u
  BY <1>5, <1>6, <1>7, <1>8, SameBytes
<1> QED BY <1>3, <1>9 DEF q, t, u, v

\* How far the first k pieces of a descriptor reach.
Reach(b, size, k) == IF k * size < Len(b) THEN k * size ELSE Len(b)

\* What the parser finds in the first j pieces is what it finds in the bytes
\* they make up.
LEMMA FirstPieces ==
  ASSUME NEW s \in ParserState, NEW b \in ByteSeq, NEW size \in Nat \ {0},
         NEW j \in 0..Len(Parser!Pieces(b, size))
  PROVE  /\ Parser!Pieces(b, size) \in Seq(ByteSeq)
         /\ Reach(b, size, Len(Parser!Pieces(b, size))) = Len(b)
         /\ Reach(b, size, j) \in 0..Len(b)
         /\ SubSeq(Parser!Pieces(b, size), 1, j) \in Seq(ByteSeq)
         /\ Parser!ParseAll(s, SubSeq(Parser!Pieces(b, size), 1, j)) =
              Parser!Parse(s, Take(b, Reach(b, size, j)))
<1> DEFINE l == Len(b)
           n == (l + size - 1) \div size
           p == Parser!Pieces(b, size)
           q == SubSeq(p, 1, j)
           E == [k \in Nat |-> Take(b, Reach(b, size, k))]
           part(k) == SubSeq(b, (k - 1) * size + 1, Parser!Least(k * size, l))
<1>1. l \in Nat
  BY LenProperties DEF ByteSeq
<1>2. p = [k \in 1..n |-> part(k)]
  BY Zenon DEF Parser!Pieces
<1> HIDE DEF l
<1>3. /\ n \in Nat /\ l <= n * size
      /\ \A k \in Nat : k * size \in Nat /\ (k + 1) * size = k * size + size
      /\ \A k \in Nat : k < n => k * size < l
  BY <1>1, EnoughPieces
<1> HIDE DEF n
<1>4. \A k \in Nat : Reach(b, size, k) \in 0..l /\ Reach(b, size, k) \in Nat
  BY <1>1, <1>3, SMT DEF Reach, l
<1>5. Reach(b, size, n) = l
  BY <1>1, <1>3, SMT DEF Reach, l
<1>6. ASSUME NEW k \in Nat, k < n
      PROVE  part(k + 1) \in ByteSeq /\ Take(b, Reach(b, size, k + 1)) = Take(b, Reach(b, size, k)) \o part(k + 1)
  <2> DEFINE m == Reach(b, size, k)
             h == Reach(b, size, k + 1)
  <2>1. m = k * size /\ m \in Nat
    BY <1>3, <1>6 DEF Reach, l
  <2>2. k + 1 \in Nat /\ (k + 1) - 1 = k
    BY SMT
  <2>3. h \in Nat /\ h <= l /\ h = Parser!Least((k + 1) * size, l)
    BY <1>4, <2>2, SMT DEF Reach, Parser!Least, l
  <2>4. m <= h
    <3>1. k * size \in Nat /\ (k + 1) * size = k * size + size /\ k * size < l
      BY <1>3, <1>6
    <3> DEFINE x == k * size
               y == (k + 1) * size
    <3>2. m = x /\ h = (IF y < l THEN y ELSE l)
      BY <2>1, <2>3 DEF Parser!Least
    <3> HIDE DEF x, y, m, h
    <3>3. x \in Nat /\ y = x + size /\ x < l
      BY <3>1 DEF x, y
    <3> QED BY <1>1, <3>2, <3>3, SMT
  <2>5. part(k + 1) = SubSeq(b, m + 1, h)
    BY <2>1, <2>2, <2>3
  <2> HIDE DEF m, h, part
  <2>6. SubSeq(b, m + 1, h) \in ByteSeq /\ Take(b, h) = Take(b, m) \o SubSeq(b, m + 1, h)
    BY <2>1, <2>3, <2>4, TakeMore DEF l
  <2> QED BY <2>5, <2>6 DEF m, h
<1> HIDE DEF part, p
<1>7. /\ p \in Seq(ByteSeq) /\ Len(p) = n /\ \A k \in 1..n : p[k] = part(k)
  <2>1. ASSUME NEW k \in 1..n PROVE part(k) \in ByteSeq
    <3>1. k - 1 \in Nat /\ k - 1 < n /\ (k - 1) + 1 = k
      BY <1>3, SMT
    <3>2. part((k - 1) + 1) \in ByteSeq
      BY <1>6, <3>1
    <3> QED BY <3>1, <3>2
  <2> QED BY <1>2, <1>3, <2>1
<1>8. j \in 0..n /\ j \in Nat
  BY <1>3, <1>7, SMT DEF p
<1>9. q \in Seq(ByteSeq) /\ Len(q) = j /\ \A k \in 1..j : q[k] = p[k]
  <2>1. q = [k \in 1..j |-> p[k]]
    BY <1>3, <1>7, <1>8, SMT
  <2>2. \A k \in 1..j : p[k] \in ByteSeq
    <3>1. 1..j \subseteq 1..Len(p)
      BY <1>3, <1>7, <1>8, SMT
    <3> QED BY <1>7, <3>1, ElementOfSeq
  <2> HIDE DEF q
  <2> QED BY <1>8, <2>1, <2>2
<1> HIDE DEF q
<1>10. Joined(E, q)
  <2>1. E[0] = <<>>
    <3>1. Reach(b, size, 0) = 0
      BY <1>1, <1>3, SMT DEF Reach, l
    <3>2. Take(b, 0) \in ByteSeq /\ Len(Take(b, 0)) = 0
      <4>1. 0 \in 0..Len(b)
        BY <1>1, SMT DEF l
      <4> QED BY <4>1, TakeFacts
    <3>3. Take(b, 0) = <<>>
      BY <3>2, EmptySeq DEF ByteSeq
    <3> QED BY <3>1, <3>3
  <2>2. ASSUME NEW k \in 0..j PROVE E[k] \in ByteSeq
    <3>1. Reach(b, size, k) \in 0..Len(b)
      <4>1. k \in Nat
        BY <1>8, SMT
      <4> QED BY <1>4, <4>1 DEF l
    <3> QED BY <3>1, TakeFacts
  <2>3. ASSUME NEW k \in 0..j, k # j PROVE E[k + 1] = E[k] \o q[k + 1]
    <3>1. k \in Nat /\ k + 1 \in Nat /\ k < n /\ k + 1 \in 1..j /\ k + 1 \in 1..n
      BY <1>3, <1>8, <2>3, SMT
    <3>2. q[k + 1] = part(k + 1)
      BY <1>7, <1>9, <3>1
    <3> QED BY <1>6, <3>1, <3>2
  <2> HIDE DEF E
  <2> QED BY <1>9, <2>1, <2>2, <2>3 DEF Joined
<1>11. E[j] = Take(b, Reach(b, size, j))
  BY <1>8
<1> HIDE DEF E
<1>12. Parser!ParseAll(s, q) = Parser!Parse(s, E[Len(q)])
  BY <1>9, <1>10, ParseAllJoined
<1> QED BY <1>3, <1>4, <1>5, <1>7, <1>8, <1>9, <1>11, <1>12 DEF l, p, q

LEMMA PiecesCount ==
  ASSUME NEW b \in ByteSeq, NEW size \in Nat \ {0} PROVE Len(Parser!Pieces(b, size)) \in Nat
<1> DEFINE m == (Len(b) + size - 1) \div size
           part(k) == SubSeq(b, (k - 1) * size + 1, Parser!Least(k * size, Len(b)))
           p == Parser!Pieces(b, size)
<1>1. Len(b) \in Nat
  BY LenProperties DEF ByteSeq
<1>2. m \in Nat
  BY <1>1, EnoughPieces
<1>3. p = [k \in 1..m |-> part(k)]
  BY Zenon DEF Parser!Pieces
<1> HIDE DEF m, part, p
<1>4. Len(p) \in Nat
  BY <1>2, <1>3
<1> QED BY <1>4 DEF p

\* The parser finds the same in a descriptor, whatever the pieces are in which
\* it comes: no cut, be it within a length, a body that is kept or a body that
\* is skipped, changes what it goes on with (usbh_midi.cpp:578-655,
\* parsetools.h).
THEOREM PieceByPiece ==
  ASSUME NEW s \in ParserState, NEW bytes \in Seq(Nat), NEW bufSize \in Nat \ {0}
  PROVE  Parser!ParseAll(s, Parser!Pieces(bytes, bufSize)) = Parser!Parse(s, bytes)
<1> DEFINE p == Parser!Pieces(bytes, bufSize)
           n == Len(p)
<1>1. bytes \in ByteSeq
  BY DEF ByteSeq
<1>2. n \in Nat /\ Reach(bytes, bufSize, n) = Len(bytes) /\ 0 \in 0..n
  <2>1. n \in Nat
    BY <1>1, PiecesCount
  <2>2. 0 \in 0..n
    BY <2>1, SMT
  <2> QED BY <1>1, <2>1, <2>2, FirstPieces
<1>3. n \in 0..n
  BY <1>2, SMT
<1>4. /\ p \in Seq(ByteSeq)
      /\ Parser!ParseAll(s, SubSeq(p, 1, n)) = Parser!Parse(s, Take(bytes, Reach(bytes, bufSize, n)))
  BY <1>1, <1>3, FirstPieces
<1>5. SubSeq(p, 1, n) = p
  <2> HIDE DEF p
  <2> QED BY <1>4, SMT
<1>6. Take(bytes, Len(bytes)) = bytes
  BY <1>1, WholeTake
<1> QED BY <1>2, <1>4, <1>5, <1>6

(***************************************************************************)
(* Whole descriptors.                                                      *)
(***************************************************************************)

\* The parser between two descriptors.
Ready == {s \in ParserState : s.stateParseDescr = 0}

\* What it has found, and what it looks for.
View(s) ==
  [midi |-> s.isMidiSearch, mask |-> s.bTransferTypeMask, good |-> s.isGoodInterface,
   n |-> s.nEPs, conf |-> s.confValue, in |-> s.epIn, out |-> s.epOut]

\* h has read q, and the interface is no longer good if q begins another one.
HasRead(h, s, q) ==
  /\ Whole(h) /\ h.dscrType = q[2]
  /\ View(h) = [View(s) EXCEPT !.good = s.isGoodInterface /\ q[2] # Parser!INTERFACE]
  /\ Valued(h) => \A k \in 1..Len(q) : h.varBuffer[k] = q[k]

\* The bytes of one descriptor, which begin with their number and its type.
WholeDescriptor(q) == q \in ByteSeq /\ Len(q) = q[1] /\ Len(q) \in 3..255

LEMMA DescriptorLength ==
  ASSUME NEW q, WholeDescriptor(q)
  PROVE  /\ Len(q) \in Nat /\ Len(q) >= 3 /\ Len(q) <= 255
         /\ 2 \in 0..Len(q) /\ 1 \in 1..Len(q) /\ 2 \in 1..Len(q)
         /\ Len(q) - 2 \in Nat
         /\ (q[1] - 2) % 256 = Len(q) - 2 /\ (q[1] - 2) % 65536 = Len(q) - 2
<1> DEFINE l == Len(q)
<1>1. l \in 3..255 /\ q[1] = l
  BY DEF WholeDescriptor
<1> HIDE DEF l
<1>2. /\ l \in Nat /\ l >= 3 /\ l <= 255
      /\ 2 \in 0..l /\ 1 \in 1..l /\ 2 \in 1..l
      /\ l - 2 \in Nat
      /\ (l - 2) % 256 = l - 2 /\ (l - 2) % 65536 = l - 2
  BY <1>1, SMT
<1> QED BY <1>1, <1>2 DEF l

LEMMA ReadHeader ==
  ASSUME NEW s \in Ready, NEW q \in ByteSeq, WholeDescriptor(q),
         NEW f, f = Headed(s, q)
  PROVE  /\ BodyReady(Parser!Header(f))
         /\ Left(Parser!Header(f)) = Len(q) - 2
         /\ Parser!Header(f).dscrType = q[2] /\ Parser!Header(f) \in Fields
         /\ Parser!Header(f).varBuffer = Write(s.varBuffer, 0, Take(q, 2))
         /\ Place(Parser!Header(f)) = 2
         /\ Parser!Header(f).countDown = Len(q) - 2 /\ Parser!Header(f).skipping = FALSE
         /\ View(Parser!Header(f)) =
              [View(s) EXCEPT !.good = s.isGoodInterface /\ q[2] # Parser!INTERFACE]
<1> DEFINE t == Begun(s)
           w == Write(s.varBuffer, 0, Take(q, 2))
<1>1. s \in ParserState /\ s \in Fields /\ s.stateParseDescr = 0 /\ ~s.skipping
      /\ s.varBuffer \in ByteSeq /\ Len(s.varBuffer) >= 16 /\ Len(s.varBuffer) \in Nat
  BY LenProperties DEF Ready, ParserState, Fields, ByteSeq
<1>2. t = [s EXCEPT !.pValue = 0, !.valueSize = 2, !.countDown = 2, !.stateParseDescr = 1]
  BY <1>1 DEF Begun, Parser!Expect, Fields
<1>3. /\ t.countDown = 2 /\ t.valueSize = 2 /\ t.pValue = 0 /\ t.varBuffer = s.varBuffer
      /\ View(t) = View(s) /\ t \in Fields /\ t.isGoodInterface = s.isGoodInterface
      /\ t.skipping = s.skipping
  <2> HIDE DEF t
  <2>1. /\ t.countDown = 2 /\ t.valueSize = 2 /\ t.pValue = 0 /\ t.varBuffer = s.varBuffer
        /\ t.isGoodInterface = s.isGoodInterface /\ t.skipping = s.skipping
    BY <1>1, <1>2 DEF Fields
  <2>3. t \in Fields
    BY <1>1, BegunState DEF Whole, t
  <2>2. View(t) = View(s)
    BY <1>1, <1>2 DEF Fields, View
  <2> QED BY <2>1, <2>2, <2>3
<1>4. Place(t) = 0
  BY <1>3, SMT DEF Place
<1> HIDE DEF t
<1>5. 2 \in 0..Len(q) /\ 0 \in 0..Len(s.varBuffer) /\ 1 \in 1..2 /\ 2 \in 1..2
  <2>1. 0 \in 0..Len(s.varBuffer) /\ 1 \in 1..2 /\ 2 \in 1..2
    BY <1>1, SMT
  <2> QED BY <2>1, DescriptorLength
<1>6. Take(q, 2) \in ByteSeq /\ Len(Take(q, 2)) = 2 /\ Take(q, 2)[1] = q[1] /\ Take(q, 2)[2] = q[2]
  BY <1>5, TakeFacts
<1>7. w \in ByteSeq /\ w[1] = q[1] /\ w[2] = q[2]
  <2> DEFINE x == Take(q, 2)
  <2>1. x \in ByteSeq /\ Len(x) = 2 /\ x[1] = q[1] /\ x[2] = q[2]
    BY <1>6
  <2> HIDE DEF x
  <2>2. w = Write(s.varBuffer, 0, x)
    BY DEF x
  <2> DEFINE v == Write(s.varBuffer, 0, x)
  <2>3. w \in ByteSeq /\ \A i \in 1..2 : w[0 + i] = x[i]
    <3>1. v \in ByteSeq /\ \A i \in 1..Len(x) : v[0 + i] = x[i]
      BY <1>1, <1>5, <2>1, WriteFacts
    <3> HIDE DEF v, w
    <3> QED BY <2>1, <2>2, <3>1 DEF v
  <2> HIDE DEF w
  <2>4. w[0 + 1] = x[1] /\ w[0 + 2] = x[2]
    BY <1>5, <2>3
  <2>5. 0 + 1 = 1 /\ 0 + 2 = 2
    BY SMT
  <2> QED BY <2>1, <2>3, <2>4, <2>5
<1>8. f = [t EXCEPT !.varBuffer = w, !.countDown = 2]
  BY <1>3, <1>4, Zenon DEF Headed, FilledIn, t
<1> HIDE DEF w
<1>9. /\ f \in Fields /\ f.varBuffer = w /\ View(f) = View(s) /\ f.skipping = FALSE
      /\ f.isGoodInterface = s.isGoodInterface
  BY <1>1, <1>3, <1>7, <1>8 DEF Fields, View
<1>10. Parser!At(f, 0) = q[1] /\ Parser!At(f, 1) = q[2]
  <2>1. 0 + 1 = 1 /\ 1 + 1 = 2
    BY SMT
  <2> QED BY <1>7, <1>9, <2>1 DEF Parser!At
<1> DEFINE h == Parser!Header(f)
           good == f.isGoodInterface /\ q[2] # Parser!INTERFACE
           size == (q[1] - 2) % 256
<1>11. h = [f EXCEPT !.dscrLen = q[1], !.dscrType = q[2], !.stateParseDescr = 4,
                     !.isGoodInterface = good,
                     !.pValue = 2, !.valueSize = size, !.countDown = size]
  <2> DEFINE g == [f EXCEPT !.dscrLen = q[1], !.dscrType = q[2], !.stateParseDescr = 4,
                            !.isGoodInterface = good]
  <2>1. h = Parser!Expect(g, 2, (g.dscrLen - 2) % 256)
    BY <1>10 DEF Parser!Header
  <2>2. g.dscrLen = q[1]
    BY <1>9 DEF Fields
  <2> HIDE DEF h
  <2> QED BY <1>9, <2>1, <2>2 DEF Parser!Expect, Fields
<1>12. size = Len(q) - 2 /\ Len(q) - 2 \in Nat
  BY DescriptorLength
<1>13. (q[1] - 2) % 65536 = Len(q) - 2
  BY DescriptorLength
<1> HIDE DEF h
<1>14. /\ h.dscrLen = q[1] /\ h.dscrType = q[2] /\ h.stateParseDescr = 4 /\ h.pValue = 2
       /\ h.valueSize = size /\ h.countDown = size /\ h.skipping = FALSE /\ h.varBuffer = w
       /\ View(h) = [View(s) EXCEPT !.good = good]
  <2> HIDE DEF good, size
  <2> QED BY <1>9, <1>11 DEF Fields, View
<1>15. h \in Fields
  <2>1. q[1] \in Nat /\ q[2] \in Nat
    <3>1. 1 \in 1..Len(q) /\ 2 \in 1..Len(q)
      BY DescriptorLength
    <3> QED BY <3>1, ElementOfSeq DEF ByteSeq
  <2>2. good \in BOOLEAN /\ size \in Nat
    BY <1>12
  <2> HIDE DEF good, size
  <2> QED BY <1>9, <1>11, <2>1, <2>2 DEF Fields
<1>16. Whole(f)
  <2>1. Len(w) = IF 0 + Len(Take(q, 2)) <= Len(s.varBuffer) THEN Len(s.varBuffer)
                                                            ELSE 0 + Len(Take(q, 2))
    BY <1>1, <1>5, <1>6, WriteFacts DEF w
  <2>2. Len(w) >= 16
    BY <1>1, <1>6, <2>1, SMT
  <2> QED BY <1>9, <2>2 DEF Whole
<1>17. BodyReady(h)
  BY <1>16, HeaderReady DEF h
<1>18. Left(h) = Len(q) - 2
  <2>1. Size(h) = Len(q) - 2
    BY <1>13, <1>14 DEF Size
  <2>2. h.countDown = Len(q) - 2 /\ ~h.skipping
    BY <1>12, <1>14
  <2> QED BY <2>1, <2>2 DEF Left, Count
<1>19. Place(h) = 2
  <2> HIDE DEF size
  <2> QED BY <1>12, <1>14, SMT DEF Place
<1> QED BY <1>9, <1>12, <1>14, <1>15, <1>17, <1>18, <1>19 DEF w, h

\* One descriptor that is there as a whole.
LEMMA OneDescriptor ==
  ASSUME NEW s \in Ready, NEW q \in ByteSeq, WholeDescriptor(q)
  PROVE  /\ Parser!Parse(s, q) \in Ready
         /\ \E h : HasRead(h, s, q) /\ Parser!Parse(s, q) = After(h)
<1> DEFINE f == Headed(s, q)
           g == Parser!Header(f)
           c == Drop(q, 2)
           h == Body(g, c).parser
<1>1. s \in ParserState /\ s \in Fields /\ s.stateParseDescr = 0 /\ s.stateParseDescr # 4
      /\ s.varBuffer \in ByteSeq /\ Len(s.varBuffer) \in Nat
  BY LenProperties DEF Ready, ParserState, Fields, ByteSeq
<1>2. Begun(s).countDown = 2
  BY <1>1, BegunState
<1>3. 2 <= Len(q) /\ 2 \in 0..Len(q) /\ Len(q) \in Nat /\ 0 \in 0..Len(s.varBuffer)
  <2>1. 0 \in 0..Len(s.varBuffer)
    BY <1>1, SMT
  <2>2. 2 \in 0..Len(q) /\ Len(q) \in Nat /\ Len(q) >= 3
    BY DescriptorLength
  <2>3. 2 <= Len(q)
    BY <2>2, SMT
  <2> QED BY <2>1, <2>2, <2>3
<1>4. Parser!ParseDescriptor(s, q) = Parser!ParseBody(g, c)
  BY <1>1, <1>2, <1>3, HeadDone
<1>5. c \in ByteSeq /\ Len(c) = Len(q) - 2 /\ Take(q, 2) \in ByteSeq /\ Len(Take(q, 2)) = 2
  BY <1>3, DropFacts, TakeFacts
<1>6. /\ BodyReady(g) /\ Left(g) = Len(q) - 2 /\ g.dscrType = q[2] /\ g \in Fields
      /\ g.varBuffer = Write(s.varBuffer, 0, Take(q, 2)) /\ Place(g) = 2
      /\ g.countDown = Len(q) - 2 /\ g.skipping = FALSE
      /\ View(g) = [View(s) EXCEPT !.good = s.isGoodInterface /\ q[2] # Parser!INTERFACE]
  <2>1. f = Headed(s, q)
    OBVIOUS
  <2> HIDE DEF f
  <2> QED BY <2>1, ReadHeader
<1> HIDE DEF f, g
<1>7. Left(g) <= Len(c) /\ Left(g) = Len(c)
  BY <1>3, <1>5, <1>6, SMT
<1>8. Parser!ParseDescriptor(s, q) = Parser!Result(After(h), <<>>, TRUE)
  <2>1. Parser!ParseBody(g, c) = Parser!Result(After(h), Drop(c, Left(g)), TRUE)
    BY <1>5, <1>6, <1>7, BodyParsed
  <2>2. Drop(c, Len(c)) = <<>>
    BY <1>5, WholeTake
  <2> QED BY <1>4, <1>7, <2>1, <2>2
<1>9. After(h) \in Ready
  <2>1. After(h) \in ParserState /\ After(h).stateParseDescr = 0
    BY <1>5, <1>6, <1>7, BodyParsed
  <2> QED BY <2>1 DEF Ready
<1>10. Whole(h)
  BY <1>5, <1>6, <1>7, BodyDone DEF Whole
<1>11. ASSUME Valued(g) PROVE HasRead(h, s, q)
  <2>1. h = FilledIn(g, c, g.valueSize)
    <3>1. Take(c, g.countDown) = c
      BY <1>5, <1>6, WholeTake
    <3>2. Body(g, c) = Parser!Result(FilledIn(g, Take(c, g.countDown), g.valueSize), Drop(c, g.countDown), TRUE)
      <4>1. ValueReady(g) /\ g.countDown <= Len(c)
        BY <1>6, <1>7, <1>11 DEF BodyReady
      <4> QED BY <1>5, <1>6, <1>11, <4>1, ValueDone DEF Body
    <3> QED BY <3>1, <3>2 DEF Parser!Result
  <2> DEFINE w == Write(g.varBuffer, 2, c)
  <2>2. h = [g EXCEPT !.varBuffer = w, !.countDown = g.valueSize]
    BY <1>6, <2>1 DEF FilledIn
  <2>3. w = Write(s.varBuffer, 0, q)
    <3>1. Write(Write(s.varBuffer, 0, Take(q, 2)), 0 + Len(Take(q, 2)), c) =
            Write(s.varBuffer, 0, Take(q, 2) \o c)
      BY <1>1, <1>3, <1>5, WriteWrite
    <3>2. 0 + Len(Take(q, 2)) = 2
      BY <1>5, SMT
    <3>3. Take(q, 2) \o c = q
      <4>1. 2 \in Nat /\ 2 + 1 \in Nat /\ Len(q) <= Len(q)
        BY <1>3, SMT
      <4>2. Take(q, Len(q)) = Take(q, 2) \o SubSeq(q, 2 + 1, Len(q))
        BY <1>3, <4>1, TakeMore
      <4>3. c = SubSeq(q, 2 + 1, Len(q))
        BY DEF Drop, Parser!Drop
      <4> QED BY <4>2, <4>3, WholeTake
    <3> QED BY <1>6, <3>1, <3>2, <3>3
  <2> HIDE DEF h, w
  <2>4. h.dscrType = q[2] /\ View(h) = View(g) /\ h.varBuffer = w
    BY <1>6, <2>2 DEF Fields, View
  <2>5. ASSUME NEW k \in 1..Len(q) PROVE w[k] = q[k]
    <3>1. w[0 + k] = q[k]
      BY <1>1, <1>3, <2>3, WriteFacts
    <3>2. 0 + k = k
      BY SMT
    <3> QED BY <3>1, <3>2
  <2>6. HasRead(h, s, q)
    BY <1>6, <1>10, <2>4, <2>5 DEF HasRead, h
  <2> QED BY <2>6
<1>12. ASSUME ~Valued(g) PROVE HasRead(h, s, q)
  <2>1. h = Skipped(g, FALSE, 0)
    <3>1. Size(g) \in Nat /\ Count(g, Size(g)) <= Len(c)
      BY <1>6, <1>7, <1>12, LeftType DEF Left
    <3>2. Body(g, c) = Parser!Result(Skipped(g, FALSE, 0), Drop(c, Count(g, Size(g))), TRUE)
      BY <1>5, <1>6, <1>12, <3>1, SkipDone DEF Body
    <3> DEFINE b == Body(g, c)
               k == Skipped(g, FALSE, 0)
               d == Drop(c, Count(g, Size(g)))
    <3>3. b = Parser!Result(k, d, TRUE)
      BY <3>2
    <3> HIDE DEF b, k, d
    <3>4. b.parser = k
      BY <3>3 DEF Parser!Result
    <3> QED BY <3>4 DEF b, k
  <2> HIDE DEF h
  <2>2. h.dscrType = g.dscrType /\ View(h) = View(g) /\ Valued(h) = Valued(g)
    BY <1>6, <2>1 DEF Skipped, Fields, View, Valued
  <2>3. HasRead(h, s, q)
    BY <1>6, <1>10, <1>12, <2>2 DEF HasRead, h
  <2> QED BY <2>3
<1>13. Parser!Parse(s, q) = After(h)
  <2> DEFINE r == Parser!ParseDescriptor(s, q)
  <2>1. q # <<>>
    BY <1>3, EmptySeq
  <2>2. Parser!Parse(s, q) = IF r.done THEN Parser!Parse(r.parser, r.rest) ELSE r.parser
    BY <1>1, <2>1, ParseNext
  <2>3. r.done = TRUE /\ r.parser = After(h) /\ r.rest = <<>>
    BY <1>8 DEF Parser!Result
  <2>4. Parser!Parse(After(h), <<>>) = After(h)
    BY <1>9, ParseNothing DEF Ready
  <2> HIDE DEF r
  <2> QED BY <2>2, <2>3, <2>4
<1>14. HasRead(h, s, q)
  BY <1>11, <1>12
<1> QED BY <1>9, <1>13, <1>14, Zenon

ViewType ==
  [midi : BOOLEAN, mask : Nat, good : BOOLEAN, n : Nat, conf : Nat, in : 0..15, out : 0..15]

LEMMA ViewFacts ==
  ASSUME NEW s \in Fields
  PROVE  /\ View(s) \in ViewType
         /\ View(s).midi = s.isMidiSearch /\ View(s).mask = s.bTransferTypeMask
         /\ View(s).good = s.isGoodInterface /\ View(s).n = s.nEPs
         /\ View(s).conf = s.confValue /\ View(s).in = s.epIn /\ View(s).out = s.epOut
BY DEF View, ViewType, Fields

LEMMA AfterView ==
  ASSUME NEW s, Whole(s)
  PROVE  View(After(s)) = View(Parser!Descriptor(s))
BY DEF View, After

\* What a descriptor that is not a configuration's may change.
Update(v, good, n, in, out) ==
  [midi |-> v.midi, mask |-> v.mask, good |-> good, n |-> n, conf |-> v.conf,
   in |-> in, out |-> out]

LEMMA ViewUpdates ==
  ASSUME NEW h \in Fields
  PROVE  /\ \A x : View([h EXCEPT !.confValue = x]) = [View(h) EXCEPT !.conf = x]
         /\ \A x, n : View([h EXCEPT !.isGoodInterface = x, !.nEPs = n]) =
                      Update(View(h), x, n, h.epIn, h.epOut)
         /\ \A x, n : View([h EXCEPT !.epIn = x, !.nEPs = n]) =
                      Update(View(h), h.isGoodInterface, n, x, h.epOut)
         /\ \A x, n : View([h EXCEPT !.epOut = x, !.nEPs = n]) =
                      Update(View(h), h.isGoodInterface, n, h.epIn, x)
<1>1. \A x : View([h EXCEPT !.confValue = x]) = [View(h) EXCEPT !.conf = x]
  BY DEF View, Fields
<1>2. ASSUME NEW x, NEW n
      PROVE  View([h EXCEPT !.isGoodInterface = x, !.nEPs = n]) = Update(View(h), x, n, h.epIn, h.epOut)
  BY DEF View, Fields, Update
<1>3. ASSUME NEW x, NEW n
      PROVE  View([h EXCEPT !.epIn = x, !.nEPs = n]) = Update(View(h), h.isGoodInterface, n, x, h.epOut)
  BY DEF View, Fields, Update
<1>4. ASSUME NEW x, NEW n
      PROVE  View([h EXCEPT !.epOut = x, !.nEPs = n]) = Update(View(h), h.isGoodInterface, n, h.epIn, x)
  BY DEF View, Fields, Update
<1> QED BY <1>1, <1>2, <1>3, <1>4

\* What a parser that looks for interfaces makes of one, taken or not.
ToInterface(v, taken) ==
  Update(v, taken, IF taken /\ v.n < 2 THEN 0 ELSE v.n, v.in, v.out)

\* What it makes of an endpoint.
ToEndpoint(v, address, attributes) ==
  IF v.good /\ v.n < 2 /\ Parser!TransferTypeOK(v.mask, attributes)
    THEN IF address >= 128 THEN Update(v, v.good, v.n + 1, address % 16, v.out)
                           ELSE Update(v, v.good, v.n + 1, v.in, address % 16)
    ELSE v

\* The bytes of a descriptor that was read.
LEMMA ReadBytes ==
  ASSUME NEW h, NEW s, NEW q, WholeDescriptor(q), HasRead(h, s, q),
         q[2] \in {Parser!CONFIGURATION, Parser!INTERFACE, Parser!ENDPOINT},
         NEW k \in Nat, k < Len(q)
  PROVE  Parser!At(h, k) = q[k + 1]
<1>1. Len(q) \in Nat
  BY DescriptorLength
<1>2. k + 1 \in 1..Len(q)
  BY <1>1, SMT
<1>3. Valued(h)
  BY DEF HasRead, Valued
<1>4. h.varBuffer[k + 1] = q[k + 1]
  BY <1>2, <1>3 DEF HasRead
<1> QED BY <1>4 DEF Parser!At

\* What one descriptor leads to.
LEMMA ConfigurationStep ==
  ASSUME NEW s \in Ready, NEW q \in ByteSeq, WholeDescriptor(q),
         q[2] = Parser!CONFIGURATION, 5 < Len(q)
  PROVE  /\ Parser!Parse(s, q) \in Ready
         /\ View(Parser!Parse(s, q)) = [View(s) EXCEPT !.conf = q[6]]
<1>1. PICK h : HasRead(h, s, q) /\ Parser!Parse(s, q) = After(h)
  BY OneDescriptor
<1>2. s \in Fields /\ Whole(h) /\ h \in Fields /\ h.dscrType = Parser!CONFIGURATION
  BY <1>1 DEF Ready, ParserState, HasRead, Whole
<1>3. View(h) = View(s)
  <2>1. s.isGoodInterface \in BOOLEAN /\ q[2] # Parser!INTERFACE
    BY <1>2 DEF Fields, Parser!CONFIGURATION, Parser!INTERFACE
  <2>2. View(h) = [View(s) EXCEPT !.good = s.isGoodInterface]
    BY <1>1, <2>1 DEF HasRead
  <2> QED BY <2>2 DEF View
<1>4. Parser!At(h, 5) = q[6]
  <2>1. 5 \in Nat /\ 5 + 1 = 6
    BY SMT
  <2>2. Parser!At(h, 5) = q[5 + 1]
    BY <1>1, <2>1, ReadBytes
  <2> QED BY <2>1, <2>2
<1>5. Parser!Descriptor(h) = [h EXCEPT !.confValue = q[6]]
  <2> DEFINE p == h.dscrType = Parser!CONFIGURATION
             i == h.dscrType = Parser!INTERFACE /\ Parser!GoodInterface(h)
             e == h.dscrType = Parser!ENDPOINT /\ h.isGoodInterface /\ h.nEPs < 2
             x == [h EXCEPT !.confValue = Parser!At(h, 5)]
             y == [h EXCEPT !.isGoodInterface = TRUE, !.nEPs = IF @ < 2 THEN 0 ELSE @]
             z == Parser!EndpointXtract(h)
  <2>1. Parser!Descriptor(h) = CASE p -> x [] i -> y [] e -> z [] OTHER -> h
    BY Zenon DEF Parser!Descriptor
  <2>2. p /\ ~i /\ ~e
    BY <1>2, SMT DEF Parser!CONFIGURATION, Parser!INTERFACE, Parser!ENDPOINT
  <2> HIDE DEF p, i, e, x, y, z
  <2>3. Parser!Descriptor(h) = x
    BY <2>1, <2>2
  <2> QED BY <1>4, <2>3 DEF x
<1>6. View(Parser!Descriptor(h)) = [View(h) EXCEPT !.conf = q[6]]
  BY <1>2, <1>5, ViewUpdates
<1>7. Parser!Parse(s, q) \in Ready
  BY OneDescriptor
<1> QED BY <1>1, <1>2, <1>3, <1>6, <1>7, AfterView

LEMMA InterfaceStep ==
  ASSUME NEW s \in Ready, NEW q \in ByteSeq, WholeDescriptor(q),
         q[2] = Parser!INTERFACE, 6 < Len(q),
         NEW taken \in BOOLEAN,
         taken <=> (s.isMidiSearch => q[6] = Parser!AUDIO /\ q[7] = Parser!MIDISTREAMING)
  PROVE  /\ Parser!Parse(s, q) \in Ready
         /\ View(Parser!Parse(s, q)) = ToInterface(View(s), taken)
<1>1. PICK h : HasRead(h, s, q) /\ Parser!Parse(s, q) = After(h)
  BY OneDescriptor
<1>2. s \in Fields /\ Whole(h) /\ h \in Fields /\ h.dscrType = Parser!INTERFACE
  BY <1>1 DEF Ready, ParserState, HasRead, Whole
<1>3. View(h) = [View(s) EXCEPT !.good = FALSE]
  BY <1>1 DEF HasRead
<1>4. h.isMidiSearch = s.isMidiSearch /\ h.isGoodInterface = FALSE /\ h.nEPs = s.nEPs /\ s.nEPs \in Nat
  BY <1>2, <1>3 DEF View, Fields
<1>5. Parser!At(h, 5) = q[6] /\ Parser!At(h, 6) = q[7]
  <2>1. 5 \in Nat /\ 5 + 1 = 6 /\ 6 \in Nat /\ 6 + 1 = 7 /\ 5 < Len(q)
    BY DescriptorLength, SMT
  <2>2. Parser!At(h, 5) = q[5 + 1] /\ Parser!At(h, 6) = q[6 + 1]
    BY <1>1, <2>1, ReadBytes
  <2> QED BY <2>1, <2>2
<1>6. Parser!GoodInterface(h) <=> taken
  BY <1>4, <1>5 DEF Parser!GoodInterface
<1>7. Parser!Descriptor(h) =
        IF taken THEN [h EXCEPT !.isGoodInterface = TRUE, !.nEPs = IF @ < 2 THEN 0 ELSE @] ELSE h
  BY <1>2, <1>6, SMT
     DEF Parser!Descriptor, Parser!INTERFACE, Parser!CONFIGURATION, Parser!ENDPOINT
<1>8. View(Parser!Descriptor(h)) = ToInterface(View(s), taken)
  <2> DEFINE n == IF s.nEPs < 2 THEN 0 ELSE s.nEPs
             d == Parser!Descriptor(h)
  <2>1. /\ View(s).n = s.nEPs /\ View(s).in = h.epIn /\ View(s).out = h.epOut
        /\ \A g, m, x, y : Update(View(h), g, m, x, y) = Update(View(s), g, m, x, y)
    BY <1>3 DEF View, Update
  <2>2. CASE taken
    <3>1. d = [h EXCEPT !.isGoodInterface = TRUE, !.nEPs = n]
      BY <1>4, <1>7, <2>2
    <3>2. ToInterface(View(s), taken) = Update(View(s), TRUE, n, h.epIn, h.epOut)
      BY <2>1, <2>2 DEF ToInterface
    <3> HIDE DEF d, n
    <3>3. View(d) = Update(View(h), TRUE, n, h.epIn, h.epOut)
      BY <1>2, <3>1, ViewUpdates
    <3> QED BY <2>1, <3>2, <3>3 DEF d
  <2>3. CASE ~taken
    <3>1. ToInterface(View(s), taken) = Update(View(s), FALSE, s.nEPs, h.epIn, h.epOut)
      BY <2>1, <2>3 DEF ToInterface
    <3>2. View(h) = Update(View(s), FALSE, s.nEPs, h.epIn, h.epOut)
      BY <1>3 DEF View, Update
    <3> QED BY <1>7, <2>3, <3>1, <3>2
  <2> QED BY <2>2, <2>3
<1>9. Parser!Parse(s, q) \in Ready
  BY OneDescriptor
<1> QED BY <1>1, <1>2, <1>8, <1>9, AfterView

LEMMA EndpointStep ==
  ASSUME NEW s \in Ready, NEW q \in ByteSeq, WholeDescriptor(q),
         q[2] = Parser!ENDPOINT, 3 < Len(q)
  PROVE  /\ Parser!Parse(s, q) \in Ready
         /\ View(Parser!Parse(s, q)) = ToEndpoint(View(s), q[3], q[4])
<1>1. PICK h : HasRead(h, s, q) /\ Parser!Parse(s, q) = After(h)
  BY OneDescriptor
<1>2. s \in Fields /\ Whole(h) /\ h \in Fields /\ h.dscrType = Parser!ENDPOINT
  BY <1>1 DEF Ready, ParserState, HasRead, Whole
<1>3. View(h) = View(s)
  <2>1. s.isGoodInterface \in BOOLEAN /\ q[2] # Parser!INTERFACE
    BY <1>2 DEF Fields, Parser!ENDPOINT, Parser!INTERFACE
  <2>2. View(h) = [View(s) EXCEPT !.good = s.isGoodInterface]
    BY <1>1, <2>1 DEF HasRead
  <2> QED BY <2>2 DEF View
<1>4. /\ h.isGoodInterface = View(s).good /\ h.nEPs = View(s).n
      /\ h.bTransferTypeMask = View(s).mask
  BY <1>3 DEF View
<1>5. Parser!At(h, 2) = q[3] /\ Parser!At(h, 3) = q[4]
  <2>1. 2 \in Nat /\ 2 + 1 = 3 /\ 3 \in Nat /\ 3 + 1 = 4 /\ 2 < Len(q)
    BY DescriptorLength, SMT
  <2>2. Parser!At(h, 2) = q[2 + 1] /\ Parser!At(h, 3) = q[3 + 1]
    BY <1>1, <2>1, ReadBytes
  <2> QED BY <2>1, <2>2
<1>6. Parser!Descriptor(h) =
        IF View(s).good /\ View(s).n < 2 THEN Parser!EndpointXtract(h) ELSE h
  BY <1>2, <1>4, SMT
     DEF Parser!Descriptor, Parser!INTERFACE, Parser!CONFIGURATION, Parser!ENDPOINT
<1>7. Parser!EndpointXtract(h) =
        IF ~Parser!TransferTypeOK(View(s).mask, q[4]) THEN h
        ELSE IF q[3] >= 128 THEN [h EXCEPT !.epIn = q[3] % 16, !.nEPs = View(s).n + 1]
                            ELSE [h EXCEPT !.epOut = q[3] % 16, !.nEPs = View(s).n + 1]
  BY <1>4, <1>5, Zenon DEF Parser!EndpointXtract
<1>8. View(Parser!Descriptor(h)) = ToEndpoint(View(s), q[3], q[4])
  <2> DEFINE d == Parser!Descriptor(h)
             a == q[3] % 16
             n == View(s).n + 1
             ok == View(s).good /\ View(s).n < 2 /\ Parser!TransferTypeOK(View(s).mask, q[4])
  <2>0. /\ View(s).good = h.isGoodInterface /\ View(s).in = h.epIn /\ View(s).out = h.epOut
        /\ View(h) = View(s)
    BY <1>3 DEF View
  <2>1. CASE ok /\ q[3] >= 128
    <3>1. d = [h EXCEPT !.epIn = a, !.nEPs = n]
      BY <1>6, <1>7, <2>1
    <3>2. ToEndpoint(View(s), q[3], q[4]) = Update(View(s), View(s).good, n, a, View(s).out)
      BY <2>1 DEF ToEndpoint
    <3> HIDE DEF d, a, n
    <3>3. View(d) = Update(View(h), h.isGoodInterface, n, a, h.epOut)
      BY <1>2, <3>1, ViewUpdates
    <3> QED BY <2>0, <3>2, <3>3 DEF d
  <2>2. CASE ok /\ ~(q[3] >= 128)
    <3>1. d = [h EXCEPT !.epOut = a, !.nEPs = n]
      BY <1>6, <1>7, <2>2
    <3>2. ToEndpoint(View(s), q[3], q[4]) = Update(View(s), View(s).good, n, View(s).in, a)
      BY <2>2 DEF ToEndpoint
    <3> HIDE DEF d, a, n
    <3>3. View(d) = Update(View(h), h.isGoodInterface, n, h.epIn, a)
      BY <1>2, <3>1, ViewUpdates
    <3> QED BY <2>0, <3>2, <3>3 DEF d
  <2>3. CASE ~ok
    <3>1. d = h
      BY <1>6, <1>7, <2>3
    <3>2. ToEndpoint(View(s), q[3], q[4]) = View(s)
      BY <2>3 DEF ToEndpoint
    <3> QED BY <1>3, <3>1, <3>2
  <2> QED BY <2>1, <2>2, <2>3
<1>9. Parser!Parse(s, q) \in Ready
  BY OneDescriptor
<1> QED BY <1>1, <1>2, <1>8, <1>9, AfterView

LEMMA OtherStep ==
  ASSUME NEW s \in Ready, NEW q \in ByteSeq, WholeDescriptor(q),
         q[2] \notin {Parser!CONFIGURATION, Parser!INTERFACE, Parser!ENDPOINT}
  PROVE  Parser!Parse(s, q) \in Ready /\ View(Parser!Parse(s, q)) = View(s)
<1>1. PICK h : HasRead(h, s, q) /\ Parser!Parse(s, q) = After(h)
  BY OneDescriptor
<1>2. s \in Fields /\ Whole(h) /\ h \in Fields /\ h.dscrType = q[2]
  BY <1>1 DEF Ready, ParserState, HasRead, Whole
<1>3. View(h) = View(s)
  <2>1. s.isGoodInterface \in BOOLEAN
    BY <1>2 DEF Fields
  <2>2. View(h) = [View(s) EXCEPT !.good = s.isGoodInterface]
    BY <1>1, <2>1 DEF HasRead
  <2> QED BY <2>2 DEF View
<1>4. Parser!Descriptor(h) = h
  BY <1>2, SMT DEF Parser!Descriptor
<1>5. Parser!Parse(s, q) \in Ready
  BY OneDescriptor
<1> QED BY <1>1, <1>2, <1>3, <1>4, <1>5, AfterView

(***************************************************************************)
(* Several descriptors.                                                    *)
(***************************************************************************)

\* Reading q takes the parser from a view in P to a view in Q.
Leads(q, P, Q) ==
  /\ q \in ByteSeq
  /\ \A s \in Ready : View(s) \in P =>
       Parser!Parse(s, q) \in Ready /\ View(Parser!Parse(s, q)) \in Q

LEMMA LeadsJoin ==
  ASSUME NEW a, NEW b, NEW P, NEW Q, NEW R, Leads(a, P, Q), Leads(b, Q, R)
  PROVE  Leads(a \o b, P, R)
<1>1. a \in ByteSeq /\ b \in ByteSeq /\ a \o b \in ByteSeq
  BY JoinFacts DEF Leads
<1>2. ASSUME NEW s \in Ready, View(s) \in P
      PROVE  /\ Parser!Parse(s, a \o b) \in Ready
             /\ View(Parser!Parse(s, a \o b)) \in R
  <2> DEFINE t == Parser!Parse(s, a)
  <2>1. t \in Ready /\ View(t) \in Q
    BY <1>2 DEF Leads
  <2>2. Parser!Parse(s, a \o b) = Parser!Parse(t, b)
    BY <1>1, ParseJoin DEF Ready
  <2> HIDE DEF t
  <2> QED BY <2>1, <2>2 DEF Leads
<1> QED BY <1>1, <1>2 DEF Leads

LEMMA LeadsNothing == ASSUME NEW P PROVE Leads(<<>>, P, P)
<1>1. <<>> \in ByteSeq
  BY DEF ByteSeq
<1>2. \A s \in Ready : Parser!Parse(s, <<>>) = s
  BY ParseNothing DEF Ready
<1> QED BY <1>1, <1>2 DEF Leads

\* H is what FlattenSeq computes.
Flattens(H, q) ==
  H = [i \in 1..Len(q) |-> IF i = 1 THEN q[i] ELSE H[i - 1] \o q[i]]

LEMMA FlattenedExists ==
  ASSUME NEW q \in Seq(ByteSeq) PROVE \E H : Flattens(H, q)
<1> DEFINE D == 1..Len(q)
           step == [i \in D |-> [x \in ByteSeq |-> x \o q[i]]]
           pick == [S \in SUBSET D |-> Top(S)]
<1>1. Len(q) \in Nat /\ \A i \in D : q[i] \in ByteSeq
  BY LenProperties, ElementOfSeq
<1>2. IsFiniteSet(D)
  <2>1. 1 \in Int /\ Len(q) \in Int
    BY <1>1, SMT
  <2> QED BY <2>1, FS_Interval
<1>3. step \in [D -> [ByteSeq -> ByteSeq]]
  BY <1>1, JoinFacts
<1>4. Picks(pick, D)
  <2>1. \A S \in SUBSET D : S # {} => Top(S) \in S
    BY <1>1, TopFacts
  <2> QED BY <2>1 DEF Picks
<1>5. <<>> \in ByteSeq
  BY DEF ByteSeq
<1>6. PICK F \in [SUBSET D -> ByteSeq] : Folds(F, D, <<>>, step, pick)
  <2> HIDE DEF step, pick, D
  <2> QED BY <1>2, <1>3, <1>4, <1>5, SetRecursion, Zenon
<1> DEFINE H == [i \in D |-> F[1..i]]
<1>7. ASSUME NEW i \in D PROVE H[i] = IF i = 1 THEN q[i] ELSE H[i - 1] \o q[i]
  <2>1. i \in Nat /\ i # 0 /\ 1..i \subseteq D /\ 1..(i - 1) \subseteq D /\ i - 1 \in Nat
    BY <1>1, SMT
  <2>2. Top(1..i) = i /\ (1..i) \ {i} = 1..(i - 1) /\ 1..i # {}
    BY <2>1, TopFacts
  <2>3. F[1..i] = Fold(F, <<>>, step, pick, 1..i)
    BY <1>6, <2>1 DEF Folds
  <2>4. pick[1..i] = i
    BY <2>1, <2>2
  <2>5. F[1..(i - 1)] \in ByteSeq
    BY <2>1
  <2>6. step[i][F[1..(i - 1)]] = F[1..(i - 1)] \o q[i]
    BY <2>5
  <2>7. F[1..i] = F[1..(i - 1)] \o q[i]
    <3> HIDE DEF step, pick, D
    <3> QED BY <2>2, <2>3, <2>4, <2>6, Zenon DEF Fold
  <2>8. CASE i = 1
    <3>1. i - 1 = 0 /\ 1..0 = {} /\ {} \in SUBSET D
      BY <2>8, TopFacts, SMT
    <3>2. F[{}] = <<>>
      BY <1>6, <3>1 DEF Folds, Fold
    <3>3. <<>> \o q[i] = q[i]
      BY <1>1, ConcatProperties DEF ByteSeq
    <3> QED BY <2>7, <2>8, <3>1, <3>2, <3>3
  <2>9. CASE i # 1
    <3>1. i - 1 \in D
      BY <1>1, <2>9, SMT
    <3> QED BY <2>7, <2>9, <3>1
  <2> QED BY <2>8, <2>9
<1>8. H = [i \in D |-> H[i]]
  OBVIOUS
<1> HIDE DEF H
<1>9. Flattens(H, q)
  BY <1>7, <1>8, Zenon DEF Flattens
<1> QED BY <1>9

LEMMA FlattenIs ==
  ASSUME NEW q \in Seq(ByteSeq)
  PROVE  IF q = <<>> THEN FlattenSeq(q) = <<>>
         ELSE \E H : Flattens(H, q) /\ FlattenSeq(q) = H[Len(q)]
<1>1. CASE q = <<>>
  <2>1. Len(q) = 0
    BY <1>1, EmptySeq DEF ByteSeq
  <2>2. FlattenSeq(q) = q
    BY <2>1, Zenon DEF FlattenSeq
  <2> QED BY <1>1, <2>2
<1>2. CASE q # <<>>
  <2> DEFINE H == CHOOSE G : Flattens(G, q)
  <2>1. Len(q) # 0
    BY <1>2, EmptySeq
  <2>2. FlattenSeq(q) = H[Len(q)]
    BY <2>1, Zenon DEF FlattenSeq, Flattens
  <2>3. Flattens(H, q)
    BY FlattenedExists, Zenon
  <2> HIDE DEF H
  <2> QED BY <1>2, <2>2, <2>3
<1> QED BY <1>1, <1>2

\* Pieces that lead from one of the sets I to the next, one after the other.
LeadOn(q, I) == \A k \in 1..Len(q) : Leads(q[k], I[k - 1], I[k])

LEMMA LeadsFlatten ==
  ASSUME NEW q \in Seq(ByteSeq), NEW I, LeadOn(q, I)
  PROVE  Leads(FlattenSeq(q), I[0], I[Len(q)])
<1>1. Len(q) \in Nat
  BY LenProperties
<1>2. CASE q = <<>>
  <2>1. Len(q) = 0 /\ FlattenSeq(q) = <<>>
    BY <1>2, EmptySeq, FlattenIs
  <2> QED BY <2>1, LeadsNothing
<1>3. CASE q # <<>>
  <2>1. PICK H : Flattens(H, q) /\ FlattenSeq(q) = H[Len(q)]
    BY <1>3, FlattenIs
  <2>2. Len(q) # 0
    BY <1>3, EmptySeq
  <2> DEFINE N == {n \in Nat : n + 1 <= Len(q) => Leads(H[n + 1], I[0], I[n + 1])}
  <2>3. \A i \in 1..Len(q) : H[i] = IF i = 1 THEN q[i] ELSE H[i - 1] \o q[i]
    BY <2>1, Zenon DEF Flattens
  <2>4. 0 \in N
    <3>1. 0 + 1 = 1 /\ 1 \in 1..Len(q) /\ 1 - 1 = 0
      BY <1>1, <2>2, SMT
    <3>2. H[1] = q[1] /\ Leads(q[1], I[1 - 1], I[1])
      BY <2>3, <3>1 DEF LeadOn
    <3> QED BY <3>1, <3>2
  <2>5. ASSUME NEW n \in Nat, n \in N PROVE n + 1 \in N
    <3> SUFFICES ASSUME (n + 1) + 1 <= Len(q) PROVE Leads(H[(n + 1) + 1], I[0], I[(n + 1) + 1])
      BY SMT
    <3> DEFINE m == n + 1
    <3>1. m + 1 \in 1..Len(q) /\ (m + 1) - 1 = m /\ m + 1 # 1 /\ m <= Len(q)
      BY <1>1, SMT
    <3>2. Leads(H[m], I[0], I[m])
      BY <2>5, <3>1
    <3> HIDE DEF m
    <3>3. H[m + 1] = H[m] \o q[m + 1] /\ Leads(q[m + 1], I[m], I[m + 1])
      BY <2>3, <3>1 DEF LeadOn
    <3>4. Leads(H[m + 1], I[0], I[m + 1])
      BY <3>2, <3>3, LeadsJoin
    <3> QED BY <3>4 DEF m
  <2> HIDE DEF N
  <2>6. Nat \subseteq N
    BY <2>4, <2>5, Induction
  <2>7. Len(q) - 1 \in Nat /\ (Len(q) - 1) + 1 = Len(q) /\ Len(q) <= Len(q)
    BY <1>1, <2>2, SMT
  <2>8. Leads(H[Len(q)], I[0], I[Len(q)])
    <3>1. Len(q) - 1 \in N
      BY <2>6, <2>7
    <3> QED BY <2>7, <3>1 DEF N
  <2> QED BY <2>1, <2>8
<1> QED BY <1>2, <1>3

LEMMA FlattenType == ASSUME NEW q \in Seq(ByteSeq) PROVE FlattenSeq(q) \in ByteSeq
<1> DEFINE I == [k \in Nat |-> {}]
<1>1. \A k \in Nat : I[k] = {}
  OBVIOUS
<1>2. \A k \in 1..Len(q) : q[k] \in ByteSeq /\ k - 1 \in Nat /\ k \in Nat
  <2>1. \A k \in 1..Len(q) : k - 1 \in Nat /\ k \in Nat
    BY LenProperties, SMT
  <2> QED BY <2>1, ElementOfSeq
<1> HIDE DEF I
<1>3. LeadOn(q, I)
  BY <1>1, <1>2 DEF LeadOn, Leads
<1> QED BY <1>3, LeadsFlatten DEF Leads

(***************************************************************************)
(* The descriptors of an endpoint.                                         *)
(***************************************************************************)
Mask(d) == IF d.quirk THEN 2 ELSE 3

LEMMA MaskFits ==
  ASSUME NEW d \in DeviceType, NEW e \in EndpointType
  PROVE  Parser!TransferTypeOK(Mask(d), e.attr) <=> Fits(d, e)
<1>1. e.attr \in 0..3 /\ d.quirk \in BOOLEAN
  BY DEF EndpointType, DeviceType
<1> DEFINE a == e.attr
<1>2. CASE d.quirk
  <2>1. Parser!TransferTypeOK(Mask(d), a) <=> (a \div 2) % 2 = 1
    BY <1>2, SMT DEF Parser!TransferTypeOK, Mask
  <2>2. (a \div 2) % 2 = 1 <=> a = 2 \/ a = 3
    <3> HIDE DEF a
    <3> QED BY <1>1, SMT DEF a
  <2> QED BY <1>2, <2>1, <2>2 DEF Fits
<1>3. CASE ~d.quirk
  <2>1. Parser!TransferTypeOK(Mask(d), a) <=> a % 4 = 2
    BY <1>3, SMT DEF Parser!TransferTypeOK, Mask, Parser!BULK
  <2>2. a % 4 = 2 <=> a = 2
    <3> HIDE DEF a
    <3> QED BY <1>1, SMT DEF a
  <2> QED BY <1>3, <2>1, <2>2 DEF Fits
<1> QED BY <1>1, <1>2, <1>3

\* What the parser makes of endpoint e of device d.
Counted(v, d, e) ==
  IF v.good /\ v.n < 2 /\ Fits(d, e)
    THEN IF e.in THEN Update(v, v.good, v.n + 1, e.num, v.out)
                 ELSE Update(v, v.good, v.n + 1, v.in, e.num)
    ELSE v

LEMMA EndpointCounted ==
  ASSUME NEW d \in DeviceType, NEW e \in EndpointType, NEW v, v.mask = Mask(d),
         NEW a, a = e.num + IF e.in THEN 128 ELSE 0
  PROVE  /\ a \in Nat
         /\ ToEndpoint(v, a, e.attr) = Counted(v, d, e)
<1>1. e.num \in 1..15 /\ e.in \in BOOLEAN
  BY DEF EndpointType
<1>2. a \in Nat /\ a % 16 = e.num /\ (a >= 128 <=> e.in)
  BY <1>1, SMT
<1>3. Parser!TransferTypeOK(v.mask, e.attr) <=> Fits(d, e)
  BY MaskFits
<1>4. CASE v.good /\ v.n < 2 /\ Fits(d, e)
  BY <1>2, <1>3, <1>4 DEF ToEndpoint, Counted
<1>5. CASE ~(v.good /\ v.n < 2 /\ Fits(d, e))
  BY <1>2, <1>3, <1>5 DEF ToEndpoint, Counted
<1> QED BY <1>2, <1>4, <1>5

LEMMA OtherLeads ==
  ASSUME NEW q, WholeDescriptor(q), NEW P,
         q[2] \notin {Parser!CONFIGURATION, Parser!INTERFACE, Parser!ENDPOINT}
  PROVE  Leads(q, P, P)
<1>1. q \in ByteSeq
  BY DEF WholeDescriptor
<1> QED BY <1>1, OtherStep DEF Leads

\* The two forms of an endpoint descriptor.
EndpointForm(q, a, t) ==
  \/ q = <<9>> \o <<5, a, t, 64, 0, 0>> \o <<0, 0>>
  \/ q = <<7>> \o <<5, a, t, 64, 0, 0>>

LEMMA EndpointForms ==
  ASSUME NEW a \in Nat, NEW t \in Nat, NEW q, EndpointForm(q, a, t)
  PROVE  WholeDescriptor(q) /\ 3 < Len(q) /\ q[2] = 5 /\ q[3] = a /\ q[4] = t
<1>1. CASE q = <<9>> \o <<5, a, t, 64, 0, 0>> \o <<0, 0>>
  <2>1. q \in ByteSeq /\ Len(q) = 9 /\ q[1] = 9 /\ q[2] = 5 /\ q[3] = a /\ q[4] = t
    BY <1>1 DEF ByteSeq
  <2> QED BY <2>1, SMT DEF WholeDescriptor
<1>2. CASE q = <<7>> \o <<5, a, t, 64, 0, 0>>
  <2>1. q \in ByteSeq /\ Len(q) = 7 /\ q[1] = 7 /\ q[2] = 5 /\ q[3] = a /\ q[4] = t
    BY <1>2 DEF ByteSeq
  <2> QED BY <2>1, SMT DEF WholeDescriptor
<1> QED BY <1>1, <1>2 DEF EndpointForm

LEMMA EndpointLeads ==
  ASSUME NEW d \in DeviceType, NEW e \in EndpointType, NEW f \in InterfaceType,
         NEW v, v.mask = Mask(d)
  PROVE  Leads(EndpointBytes(f, e), {v}, {Counted(v, d, e)})
<1> DEFINE a == e.num + IF e.in THEN 128 ELSE 0
           t == e.attr
           basic == <<5, a, t, 64, 0, 0>>
<1>1. a \in Nat /\ ToEndpoint(v, a, t) = Counted(v, d, e)
  BY EndpointCounted
<1>2. t \in Nat
  BY DEF EndpointType
<1>3. EndpointBytes(f, e) = IF f.midi THEN <<9>> \o basic \o <<0, 0>> \o <<5, 37, 1, 1, 1>>
                                      ELSE <<7>> \o basic
  BY Zenon DEF EndpointBytes
<1>4. ASSUME NEW q, EndpointForm(q, a, t)
      PROVE  Leads(q, {v}, {Counted(v, d, e)})
  <2>1. WholeDescriptor(q) /\ 3 < Len(q) /\ q[2] = 5 /\ q[3] = a /\ q[4] = t
    <3> HIDE DEF a, t
    <3> QED BY <1>1, <1>2, <1>4, EndpointForms
  <2> HIDE DEF a, t
  <2>2. q[2] = Parser!ENDPOINT /\ q \in ByteSeq
    BY <2>1 DEF Parser!ENDPOINT, WholeDescriptor
  <2>3. \A s \in Ready : View(s) = v =>
          Parser!Parse(s, q) \in Ready /\ View(Parser!Parse(s, q)) = Counted(v, d, e)
    BY <1>1, <2>1, <2>2, EndpointStep
  <2> QED BY <2>2, <2>3 DEF Leads
<1> HIDE DEF a, t
<1>5. CASE f.midi
  <2> DEFINE q == <<9>> \o basic \o <<0, 0>>
             r == <<5, 37, 1, 1, 1>>
  <2>1. Leads(q, {v}, {Counted(v, d, e)})
    BY <1>4, Zenon DEF EndpointForm
  <2>2. r \in ByteSeq /\ Len(r) = 5 /\ r[1] = 5 /\ r[2] = 37
    BY DEF ByteSeq
  <2>3. EndpointBytes(f, e) = q \o r
    BY <1>3, <1>5, Zenon
  <2> HIDE DEF q, r
  <2>4. WholeDescriptor(r) /\ r[2] \notin {Parser!CONFIGURATION, Parser!INTERFACE, Parser!ENDPOINT}
    BY <2>2, SMT DEF WholeDescriptor, Parser!CONFIGURATION, Parser!INTERFACE, Parser!ENDPOINT
  <2>5. Leads(r, {Counted(v, d, e)}, {Counted(v, d, e)})
    BY <2>4, OtherLeads
  <2> QED BY <2>1, <2>3, <2>5, LeadsJoin
<1>6. CASE ~f.midi
  <2>1. Leads(<<7>> \o basic, {v}, {Counted(v, d, e)})
    BY <1>4, Zenon DEF EndpointForm
  <2> QED BY <1>3, <1>6, <2>1, Zenon
<1> QED BY <1>5, <1>6

(***************************************************************************)
(* The head of an interface.                                               *)
(***************************************************************************)
InterfaceHead(f, n) ==
  <<9, 4, n - 1, 0, Len(f.eps)>> \o
  (IF f.midi THEN <<1, 3, 0, 0>> \o <<7, 36, 1, 0, 1, 7, 0>> ELSE <<255, 0, 0, 0>>)

LEMMA JoinJoin ==
  ASSUME NEW a \in ByteSeq, NEW b \in ByteSeq, NEW c \in ByteSeq
  PROVE  (a \o b) \o c = a \o (b \o c)
BY ConcatAssociative DEF ByteSeq

LEMMA HeadLeads ==
  ASSUME NEW f \in InterfaceType, NEW n \in Nat \ {0}, NEW v, v.midi \in BOOLEAN,
         NEW taken, taken = (v.midi => f.midi)
  PROVE  Leads(InterfaceHead(f, n), {v}, {ToInterface(v, taken)})
<1> DEFINE A == <<9, 4, n - 1, 0, Len(f.eps)>>
           B == <<1, 3, 0, 0>>
           C == <<7, 36, 1, 0, 1, 7, 0>>
           G == <<255, 0, 0, 0>>
<1>1. f.midi \in BOOLEAN /\ Len(f.eps) \in Nat /\ n - 1 \in Nat /\ taken \in BOOLEAN
  <2>1. f.midi \in BOOLEAN /\ f.eps \in Seq(EndpointType)
    BY DEF InterfaceType
  <2>2. Len(f.eps) \in Nat
    BY <2>1, LenProperties
  <2>3. n - 1 \in Nat
    BY SMT
  <2> QED BY <2>1, <2>2, <2>3
<1>2. A \in ByteSeq /\ B \in ByteSeq /\ C \in ByteSeq /\ G \in ByteSeq
  BY <1>1 DEF ByteSeq
<1>3. ASSUME NEW q \in ByteSeq, Len(q) = 9, q[1] = 9, q[2] = 4,
             f.midi <=> (q[6] = 1 /\ q[7] = 3)
      PROVE  Leads(q, {v}, {ToInterface(v, taken)})
  <2>1. WholeDescriptor(q) /\ 6 < Len(q)
    BY <1>3, SMT DEF WholeDescriptor
  <2>2. q[2] = Parser!INTERFACE
    BY <1>3 DEF Parser!INTERFACE
  <2>3. ASSUME NEW s \in Ready, View(s) = v
        PROVE  Parser!Parse(s, q) \in Ready /\ View(Parser!Parse(s, q)) = ToInterface(v, taken)
    <3>1. s.isMidiSearch = v.midi
      BY <2>3 DEF View
    <3>2. taken <=> (s.isMidiSearch => q[6] = Parser!AUDIO /\ q[7] = Parser!MIDISTREAMING)
      BY <1>1, <1>3, <3>1 DEF Parser!AUDIO, Parser!MIDISTREAMING
    <3> QED BY <1>1, <2>1, <2>2, <2>3, <3>2, InterfaceStep
  <2> QED BY <2>3 DEF Leads
<1>4. CASE f.midi
  <2> DEFINE q == A \o B
  <2>1. q \in ByteSeq /\ Len(q) = 9 /\ q[1] = 9 /\ q[2] = 4 /\ q[6] = 1 /\ q[7] = 3
    BY <1>1, SMT DEF ByteSeq
  <2>2. Len(C) = 7 /\ C[1] = 7 /\ C[2] = 36
    OBVIOUS
  <2>3. InterfaceHead(f, n) = A \o (B \o C)
    BY <1>4 DEF InterfaceHead
  <2>4. A \o (B \o C) = q \o C
    <3>1. A \in Seq(Nat) /\ B \in Seq(Nat) /\ C \in Seq(Nat)
      BY <1>2 DEF ByteSeq
    <3> HIDE DEF A, B, C
    <3>2. (A \o B) \o C = A \o (B \o C)
      BY <3>1, JoinJoin DEF ByteSeq
    <3> QED BY <3>2
  <2> HIDE DEF A, B, C
  <2> HIDE DEF q
  <2>5. WholeDescriptor(C) /\ C[2] \notin {Parser!CONFIGURATION, Parser!INTERFACE, Parser!ENDPOINT}
    BY <1>2, <2>2, SMT DEF WholeDescriptor, Parser!CONFIGURATION, Parser!INTERFACE, Parser!ENDPOINT
  <2>6. Leads(q, {v}, {ToInterface(v, taken)})
    BY <1>3, <1>4, <2>1
  <2>7. Leads(C, {ToInterface(v, taken)}, {ToInterface(v, taken)})
    BY <2>5, OtherLeads
  <2> QED BY <2>3, <2>4, <2>6, <2>7, LeadsJoin
<1>5. CASE ~f.midi
  <2> DEFINE q == A \o G
  <2>1. q \in ByteSeq /\ Len(q) = 9 /\ q[1] = 9 /\ q[2] = 4 /\ q[6] = 255
    BY <1>1, SMT DEF ByteSeq
  <2>2. InterfaceHead(f, n) = q
    BY <1>5 DEF InterfaceHead
  <2> HIDE DEF q
  <2>3. ~(q[6] = 1 /\ q[7] = 3)
    BY <2>1, SMT
  <2> QED BY <1>3, <1>5, <2>1, <2>2, <2>3
<1> QED BY <1>1, <1>4, <1>5

LEMMA LeadsWithin ==
  ASSUME NEW q, NEW P, NEW Q, NEW P1 \in SUBSET P, NEW Q1, Q \subseteq Q1, Leads(q, P, Q)
  PROVE  Leads(q, P1, Q1)
BY DEF Leads

LEMMA LeadsEach ==
  ASSUME NEW q \in ByteSeq, NEW P, NEW Q, \A v \in P : Leads(q, {v}, Q)
  PROVE  Leads(q, P, Q)
BY DEF Leads

(***************************************************************************)
(* The endpoints of an interface.                                          *)
(***************************************************************************)

\* The endpoints of one direction among the first k.
Upto(d, f, in, k) == {j \in Heads(d, f, in) : j <= k}

Some(S) == IF S = {} THEN 0 ELSE 1

\* x is the number of one of the endpoints S or, if there is none, y.
Numbered(f, S, x, y) == IF S = {} THEN x = y ELSE \E j \in S : x = f.eps[j].num

\* The view w after k endpoints, and v before them.
EndpointsRead(v, w, d, f, k) ==
  /\ w = Update(v, v.good, w.n, w.in, w.out)
  /\ v.good /\ v.n < 2 =>
       /\ w.n = Some(Upto(d, f, TRUE, k)) + Some(Upto(d, f, FALSE, k))
       /\ Numbered(f, Upto(d, f, TRUE, k), w.in, v.in)
       /\ Numbered(f, Upto(d, f, FALSE, k), w.out, v.out)
  /\ ~(v.good /\ v.n < 2) => w = v

Single(d, f) == \A in \in BOOLEAN : \A k, l \in Heads(d, f, in) : k = l

LEMMA UptoNext ==
  ASSUME NEW d, NEW f \in InterfaceType, NEW in \in BOOLEAN, NEW k \in Nat, k + 1 \in 1..Len(f.eps)
  PROVE  Upto(d, f, in, k + 1) =
           IF Fits(d, f.eps[k + 1]) /\ f.eps[k + 1].in = in
             THEN Upto(d, f, in, k) \cup {k + 1} ELSE Upto(d, f, in, k)
<1>1. f.eps \in Seq(EndpointType)
  BY DEF InterfaceType
<1>2. DOMAIN f.eps = 1..Len(f.eps) /\ Len(f.eps) \in Nat
  BY <1>1, LenProperties
<1>3. \A j \in 1..Len(f.eps) : j <= k + 1 <=> j <= k \/ j = k + 1
  BY <1>2, SMT
<1>4. ~(k + 1 <= k) /\ k + 1 <= k + 1
  BY SMT
<1> DEFINE H == Heads(d, f, in)
<1>5. H \subseteq 1..Len(f.eps) /\ (k + 1 \in H <=> Fits(d, f.eps[k + 1]) /\ f.eps[k + 1].in = in)
  BY <1>2 DEF Heads, Fitting
<1> HIDE DEF H
<1>6. {j \in H : j <= k + 1} = IF k + 1 \in H THEN {j \in H : j <= k} \cup {k + 1} ELSE {j \in H : j <= k}
  BY <1>3, <1>4, <1>5
<1> QED BY <1>5, <1>6 DEF Upto, H

LEMMA CountedType ==
  ASSUME NEW d, NEW e \in EndpointType, NEW v \in ViewType
  PROVE  /\ Counted(v, d, e) \in ViewType
         /\ v.good \in BOOLEAN /\ v.n \in Nat /\ v.midi \in BOOLEAN
<1>1. /\ v.midi \in BOOLEAN /\ v.mask \in Nat /\ v.good \in BOOLEAN /\ v.n \in Nat
      /\ v.conf \in Nat /\ v.in \in 0..15 /\ v.out \in 0..15
  BY DEF ViewType
<1>2. e.num \in 0..15 /\ v.n + 1 \in Nat
  <2>1. e.num \in 1..15
    BY DEF EndpointType
  <2> QED BY <1>1, <2>1, SMT
<1>3. \A n \in Nat, x \in 0..15, y \in 0..15 : Update(v, v.good, n, x, y) \in ViewType
  BY <1>1 DEF Update, ViewType
<1>4. Update(v, v.good, v.n + 1, e.num, v.out) \in ViewType
  BY <1>1, <1>2, <1>3
<1>5. Update(v, v.good, v.n + 1, v.in, e.num) \in ViewType
  BY <1>1, <1>2, <1>3
<1> QED BY <1>1, <1>4, <1>5 DEF Counted

\* Nothing changes for an interface that is not taken or no longer looked at.
LEMMA SameView ==
  ASSUME NEW v \in ViewType
  PROVE  v = Update(v, v.good, v.n, v.in, v.out)
BY DEF ViewType, Update

LEMMA UpdateFields ==
  ASSUME NEW v, NEW g, NEW n, NEW x, NEW y
  PROVE  LET u == Update(v, g, n, x, y) IN
         /\ u.midi = v.midi /\ u.mask = v.mask /\ u.conf = v.conf
         /\ u.good = g /\ u.n = n /\ u.in = x /\ u.out = y
         /\ \A h, m, a, b : Update(u, h, m, a, b) = Update(v, h, m, a, b)
BY DEF Update

LEMMA EndpointsNext ==
  ASSUME NEW d \in DeviceType, NEW f \in InterfaceType, NEW v \in ViewType,
         v.good /\ v.n < 2 => Single(d, f),
         NEW w \in ViewType, NEW k \in Nat, k + 1 \in 1..Len(f.eps),
         EndpointsRead(v, w, d, f, k)
  PROVE  EndpointsRead(v, Counted(w, d, f.eps[k + 1]), d, f, k + 1)
<1> DEFINE e == f.eps[k + 1]
           A(in) == Upto(d, f, in, k)
           B(in) == Upto(d, f, in, k + 1)
           c == Counted(w, d, e)
<1>1. e \in EndpointType /\ e.in \in BOOLEAN
  <2>1. f.eps \in Seq(EndpointType)
    BY DEF InterfaceType
  <2>2. e \in EndpointType
    BY <2>1, ElementOfSeq
  <2> QED BY <2>2 DEF EndpointType
<1>2. \A in \in BOOLEAN : B(in) = IF Fits(d, e) /\ e.in = in THEN A(in) \cup {k + 1} ELSE A(in)
  BY UptoNext
<1>3. w = Update(v, v.good, w.n, w.in, w.out)
  BY DEF EndpointsRead
<1>4. w.good = v.good /\ w.n \in Nat
  <2>1. w.good = v.good
    BY <1>3, UpdateFields
  <2> QED BY <1>1, <2>1, CountedType
<1>6. CASE ~(v.good /\ v.n < 2)
  <2>1. w = v /\ c = v
    BY <1>6 DEF EndpointsRead, Counted
  <2> HIDE DEF c
  <2>2. EndpointsRead(v, c, d, f, k + 1)
    BY <1>3, <1>6, <2>1 DEF EndpointsRead
  <2> QED BY <2>2 DEF c
<1>7. CASE v.good /\ v.n < 2
  <2>0. \A in \in BOOLEAN : Fits(d, e) /\ e.in = in => A(in) = {}
    <3> SUFFICES ASSUME NEW in \in BOOLEAN, Fits(d, e), e.in = in, NEW j \in A(in) PROVE FALSE
      OBVIOUS
    <3>1. f.eps \in Seq(EndpointType)
      BY DEF InterfaceType
    <3>2. DOMAIN f.eps = 1..Len(f.eps)
      BY <3>1, LenProperties
    <3>3. k + 1 \in Heads(d, f, in)
      BY <3>2 DEF Heads, Fitting
    <3>4. j \in Heads(d, f, in) /\ j <= k /\ j \in 1..Len(f.eps)
      BY <3>2 DEF Upto, Heads, Fitting
    <3>5. j = k + 1
      BY <1>7, <3>3, <3>4 DEF Single
    <3> QED BY <3>4, <3>5, SMT
  <2>1. /\ w.n = Some(A(TRUE)) + Some(A(FALSE))
        /\ Numbered(f, A(TRUE), w.in, v.in) /\ Numbered(f, A(FALSE), w.out, v.out)
    BY <1>7 DEF EndpointsRead
  <2>2. \A S : S # {} => Some(S) = 1
    BY DEF Some
  <2>3. Some({}) = 0 /\ \A S : Some(S) \in {0, 1}
    BY DEF Some
  <2>4. \A S : S \cup {k + 1} # {}
    OBVIOUS
  <2>5. CASE ~Fits(d, e)
    <3>1. c = w
      BY <2>5 DEF Counted
    <3>2. B(TRUE) = A(TRUE) /\ B(FALSE) = A(FALSE)
      BY <1>2, <2>5
    <3> HIDE DEF c, A, B
    <3>3. EndpointsRead(v, c, d, f, k + 1)
      BY <1>3, <1>7, <2>1, <3>1, <3>2 DEF EndpointsRead, B
    <3> QED BY <3>3 DEF c
  <2>6. CASE Fits(d, e) /\ e.in
    <3>1. A(TRUE) = {} /\ B(TRUE) = A(TRUE) \cup {k + 1} /\ B(FALSE) = A(FALSE)
      BY <1>1, <1>2, <2>0, <2>6
    <3> HIDE DEF A, B
    <3>2. w.n < 2 /\ w.n + 1 = Some(B(TRUE)) + Some(B(FALSE))
      <4>1. Some(A(TRUE)) = 0 /\ Some(B(TRUE)) = 1 /\ Some(A(FALSE)) \in {0, 1}
        BY <2>2, <2>3, <2>4, <3>1
      <4>2. w.n = 0 + Some(A(FALSE)) /\ Some(B(FALSE)) = Some(A(FALSE))
        BY <2>1, <3>1, <4>1
      <4>3. \A x \in {0, 1} : 0 + x < 2 /\ (0 + x) + 1 = 1 + x
        BY SMT
      <4> QED BY <4>1, <4>2, <4>3
    <3>3. c = Update(w, w.good, w.n + 1, e.num, w.out)
      BY <1>4, <1>7, <2>6, <3>2 DEF Counted
    <3>4. /\ c = Update(v, v.good, w.n + 1, e.num, w.out)
          /\ c.n = w.n + 1 /\ c.in = e.num /\ c.out = w.out
      <4> HIDE DEF c
      <4>1. c.n = w.n + 1 /\ c.in = e.num /\ c.out = w.out
        BY <3>3, UpdateFields
      <4>2. Update(w, w.good, w.n + 1, e.num, w.out) = Update(v, w.good, w.n + 1, e.num, w.out)
        BY <1>3, UpdateFields
      <4> QED BY <1>4, <3>3, <4>1, <4>2
    <3> HIDE DEF c
    <3>5. Numbered(f, B(TRUE), c.in, v.in)
      BY <3>1, <3>4 DEF Numbered
    <3>6. Numbered(f, B(FALSE), c.out, v.out)
      BY <2>1, <3>1, <3>4
    <3>7. EndpointsRead(v, c, d, f, k + 1)
      <4>1. c.n = Some(B(TRUE)) + Some(B(FALSE)) /\ c = Update(v, v.good, c.n, c.in, c.out)
        BY <3>2, <3>4
      <4> QED BY <1>7, <3>5, <3>6, <4>1 DEF EndpointsRead, B
    <3> QED BY <3>7 DEF c
  <2>7. CASE Fits(d, e) /\ ~e.in
    <3>1. A(FALSE) = {} /\ B(FALSE) = A(FALSE) \cup {k + 1} /\ B(TRUE) = A(TRUE)
      BY <1>1, <1>2, <2>0, <2>7
    <3> HIDE DEF A, B
    <3>2. w.n < 2 /\ w.n + 1 = Some(B(TRUE)) + Some(B(FALSE))
      <4>1. Some(A(FALSE)) = 0 /\ Some(B(FALSE)) = 1 /\ Some(A(TRUE)) \in {0, 1}
        BY <2>2, <2>3, <2>4, <3>1
      <4>2. w.n = Some(A(TRUE)) + 0 /\ Some(B(TRUE)) = Some(A(TRUE))
        BY <2>1, <3>1, <4>1
      <4>3. \A x \in {0, 1} : x + 0 < 2 /\ (x + 0) + 1 = x + 1
        BY SMT
      <4> QED BY <4>1, <4>2, <4>3
    <3>3. c = Update(w, w.good, w.n + 1, w.in, e.num)
      BY <1>4, <1>7, <2>7, <3>2 DEF Counted
    <3>4. /\ c = Update(v, v.good, w.n + 1, w.in, e.num)
          /\ c.n = w.n + 1 /\ c.in = w.in /\ c.out = e.num
      <4> HIDE DEF c
      <4>1. c.n = w.n + 1 /\ c.in = w.in /\ c.out = e.num
        BY <3>3, UpdateFields
      <4>2. Update(w, w.good, w.n + 1, w.in, e.num) = Update(v, w.good, w.n + 1, w.in, e.num)
        BY <1>3, UpdateFields
      <4> QED BY <1>4, <3>3, <4>1, <4>2
    <3> HIDE DEF c
    <3>5. Numbered(f, B(FALSE), c.out, v.out)
      BY <3>1, <3>4 DEF Numbered
    <3>6. Numbered(f, B(TRUE), c.in, v.in)
      BY <2>1, <3>1, <3>4
    <3>7. EndpointsRead(v, c, d, f, k + 1)
      <4>1. c.n = Some(B(TRUE)) + Some(B(FALSE)) /\ c = Update(v, v.good, c.n, c.in, c.out)
        BY <3>2, <3>4
      <4> QED BY <1>7, <3>5, <3>6, <4>1 DEF EndpointsRead, B
    <3> QED BY <3>7 DEF c
  <2> QED BY <2>5, <2>6, <2>7
<1> QED BY <1>6, <1>7

\* The views after k endpoints of f, from v.
AfterEndpoints(v, d, f, k) == {w \in ViewType : EndpointsRead(v, w, d, f, k)}

LEMMA EndpointsLead ==
  ASSUME NEW d \in DeviceType, NEW f \in InterfaceType,
         NEW v \in ViewType, v.mask = Mask(d),
         v.good /\ v.n < 2 => v.n = 0 /\ Single(d, f)
  PROVE  Leads(FlattenSeq([k \in 1..Len(f.eps) |-> EndpointBytes(f, f.eps[k])]),
               {v}, AfterEndpoints(v, d, f, Len(f.eps)))
<1> DEFINE l == Len(f.eps)
           q == [k \in 1..l |-> EndpointBytes(f, f.eps[k])]
           I == [k \in 0..l |-> AfterEndpoints(v, d, f, k)]
<1>1. l \in Nat /\ \A k \in 1..l : f.eps[k] \in EndpointType
  <2>1. f.eps \in Seq(EndpointType)
    BY DEF InterfaceType
  <2> QED BY <2>1, LenProperties, ElementOfSeq
<1> HIDE DEF l
<1>2. \A k \in 1..l : q[k] \in ByteSeq
  BY <1>1, EndpointLeads DEF Leads
<1>3. q \in Seq(ByteSeq) /\ Len(q) = l
  <2>1. q \in [1..l -> ByteSeq]
    BY <1>2
  <2> HIDE DEF q
  <2> QED BY <1>1, <2>1, LenProperties
<1>4. v \in AfterEndpoints(v, d, f, 0)
  <2>1. \A in \in BOOLEAN : Upto(d, f, in, 0) = {}
    <3>1. Len(f.eps) \in Nat /\ DOMAIN f.eps = 1..Len(f.eps)
      <4>1. f.eps \in Seq(EndpointType)
        BY DEF InterfaceType
      <4> QED BY <4>1, LenProperties
    <3>2. \A j \in DOMAIN f.eps : ~(j <= 0)
      BY <3>1, SMT
    <3> QED BY <3>2 DEF Upto, Heads, Fitting
  <2>2. Some({}) + Some({}) = 0
    BY SMT DEF Some
  <2>3. Numbered(f, {}, v.in, v.in) /\ Numbered(f, {}, v.out, v.out)
    BY DEF Numbered
  <2> QED BY <2>1, <2>2, <2>3, SameView DEF AfterEndpoints, EndpointsRead
<1>5. LeadOn(q, I)
  <2> SUFFICES ASSUME NEW k \in 1..Len(q) PROVE Leads(q[k], I[k - 1], I[k])
    BY DEF LeadOn
  <2>1. k - 1 \in Nat /\ k - 1 \in 0..l /\ (k - 1) + 1 = k /\ k \in 0..l /\ k \in 1..l
    BY <1>1, <1>3, SMT
  <2>2. ASSUME NEW w \in I[k - 1] PROVE Leads(q[k], {w}, I[k])
    <3> DEFINE c == Counted(w, d, f.eps[k])
    <3>1. w \in ViewType /\ EndpointsRead(v, w, d, f, k - 1)
      BY <2>1, <2>2 DEF AfterEndpoints
    <3>2. w.mask = Mask(d)
      BY <3>1, UpdateFields DEF EndpointsRead
    <3>3. Leads(q[k], {w}, {c})
      BY <1>1, <2>1, <3>2, EndpointLeads
    <3>4. c \in ViewType
      BY <1>1, <2>1, <3>1, CountedType
    <3>5. EndpointsRead(v, c, d, f, k)
      <4>1. k - 1 \in Nat /\ (k - 1) + 1 \in 1..Len(f.eps)
        BY <2>1 DEF l
      <4>2. EndpointsRead(v, Counted(w, d, f.eps[(k - 1) + 1]), d, f, (k - 1) + 1)
        BY <3>1, <4>1, EndpointsNext
      <4> QED BY <2>1, <4>2
    <3>6. c \in I[k]
      BY <2>1, <3>4, <3>5 DEF AfterEndpoints
    <3> HIDE DEF c, q, I
    <3> QED BY <3>3, <3>6, LeadsWithin
  <2>3. q[k] \in ByteSeq
    BY <1>2, <2>1
  <2> HIDE DEF q, I
  <2> QED BY <2>2, <2>3, LeadsEach
<1>6. Leads(FlattenSeq(q), I[0], I[l])
  <2> HIDE DEF q, I
  <2> QED BY <1>3, <1>5, LeadsFlatten
<1>7. I[l] = AfterEndpoints(v, d, f, l) /\ I[0] = AfterEndpoints(v, d, f, 0)
  BY <1>1, SMT
<1> HIDE DEF q, I
<1>8. Leads(FlattenSeq(q), {v}, AfterEndpoints(v, d, f, l))
  <2>1. {v} \in SUBSET I[0]
    BY <1>4, <1>7
  <2> QED BY <1>6, <1>7, <2>1, LeadsWithin
<1> QED BY <1>8 DEF q, l

(***************************************************************************)
(* A whole interface.                                                      *)
(***************************************************************************)
InterfaceRead(v, w, d, f, taken) ==
  /\ w.midi = v.midi /\ w.mask = v.mask /\ w.conf = v.conf
  /\ taken /\ v.n < 2 =>
       /\ w.n = Some(Heads(d, f, TRUE)) + Some(Heads(d, f, FALSE))
       /\ Numbered(f, Heads(d, f, TRUE), w.in, v.in)
       /\ Numbered(f, Heads(d, f, FALSE), w.out, v.out)
  /\ ~(taken /\ v.n < 2) => w.n = v.n /\ w.in = v.in /\ w.out = v.out

LEMMA UptoAll ==
  ASSUME NEW d, NEW f \in InterfaceType, NEW in \in BOOLEAN
  PROVE  Upto(d, f, in, Len(f.eps)) = Heads(d, f, in)
<1>1. f.eps \in Seq(EndpointType)
  BY DEF InterfaceType
<1>2. DOMAIN f.eps = 1..Len(f.eps) /\ Len(f.eps) \in Nat
  BY <1>1, LenProperties
<1>3. \A j \in DOMAIN f.eps : j <= Len(f.eps)
  BY <1>2, SMT
<1> QED BY <1>3 DEF Upto, Heads, Fitting

LEMMA InterfaceLeads ==
  ASSUME NEW d \in DeviceType, NEW f \in InterfaceType, NEW n \in Nat \ {0},
         NEW v \in ViewType, v.mask = Mask(d),
         NEW taken \in BOOLEAN, taken = (v.midi => f.midi), taken => Single(d, f)
  PROVE  Leads(InterfaceBytes(f, n), {v}, {w \in ViewType : InterfaceRead(v, w, d, f, taken)})
<1> DEFINE u == ToInterface(v, taken)
           m == IF taken /\ v.n < 2 THEN 0 ELSE v.n
           q == FlattenSeq([k \in 1..Len(f.eps) |-> EndpointBytes(f, f.eps[k])])
           W == AfterEndpoints(u, d, f, Len(f.eps))
<1>1. /\ v.midi \in BOOLEAN /\ v.mask \in Nat /\ v.good \in BOOLEAN /\ v.n \in Nat
      /\ v.conf \in Nat /\ v.in \in 0..15 /\ v.out \in 0..15 /\ m \in Nat
  BY DEF ViewType
<1>2. u = Update(v, taken, m, v.in, v.out)
  BY DEF ToInterface
<1>3. u \in ViewType
  <2> HIDE DEF u, m
  <2> QED BY <1>1, <1>2 DEF Update, ViewType
<1>4. /\ u.midi = v.midi /\ u.mask = v.mask /\ u.conf = v.conf /\ u.good = taken /\ u.n = m
      /\ u.in = v.in /\ u.out = v.out
  <2> HIDE DEF u, m
  <2> QED BY <1>2, UpdateFields
<1>5. Leads(InterfaceHead(f, n), {v}, {u})
  BY <1>1, HeadLeads
<1>6. Leads(q, {u}, W)
  <2>1. u.mask = Mask(d)
    BY <1>4
  <2>2. u.good /\ u.n < 2 => u.n = 0 /\ Single(d, f)
    BY <1>4
  <2> HIDE DEF u
  <2> QED BY <1>3, <2>1, <2>2, EndpointsLead
<1>7. InterfaceBytes(f, n) = InterfaceHead(f, n) \o q
  BY Zenon DEF InterfaceBytes, InterfaceHead
<1>8. W \subseteq {w \in ViewType : InterfaceRead(v, w, d, f, taken)}
  <2> SUFFICES ASSUME NEW w \in W PROVE w \in ViewType /\ InterfaceRead(v, w, d, f, taken)
    OBVIOUS
  <2>1. w \in ViewType /\ EndpointsRead(u, w, d, f, Len(f.eps))
    BY DEF AfterEndpoints
  <2> HIDE DEF u, W
  <2>2. w.midi = u.midi /\ w.mask = u.mask /\ w.conf = u.conf
    BY <2>1, UpdateFields DEF EndpointsRead
  <2>3. CASE taken /\ v.n < 2
    <3>1. u.good /\ u.n < 2
      BY <1>4, <2>3, SMT
    <3>2. /\ w.n = Some(Heads(d, f, TRUE)) + Some(Heads(d, f, FALSE))
          /\ Numbered(f, Heads(d, f, TRUE), w.in, v.in)
          /\ Numbered(f, Heads(d, f, FALSE), w.out, v.out)
      BY <1>4, <2>1, <3>1, UptoAll DEF EndpointsRead
    <3> QED BY <1>4, <2>1, <2>2, <2>3, <3>2 DEF InterfaceRead
  <2>4. CASE ~(taken /\ v.n < 2)
    <3>1. u.n = v.n /\ ~(u.good /\ u.n < 2)
      BY <1>4, <2>4
    <3>2. w = u
      BY <2>1, <3>1 DEF EndpointsRead
    <3> QED BY <1>4, <2>1, <2>4, <3>1, <3>2 DEF InterfaceRead
  <2> QED BY <2>3, <2>4
<1> HIDE DEF u, W, q
<1>9. Leads(InterfaceBytes(f, n), {v}, W)
  BY <1>5, <1>6, <1>7, LeadsJoin
<1> QED BY <1>8, <1>9, LeadsWithin

(***************************************************************************)
(* A whole configuration.                                                  *)
(***************************************************************************)

\* The endpoints of one direction of interface n.
Line(d, c, n, in) == Heads(d, d.confs[c][n], in)

Complete(d, c, n) == \A in \in BOOLEAN : Line(d, c, n, in) # {}

\* What was counted in the interfaces S, and a number found in them.
CountRead(x, d, c, S) ==
  /\ (\E n \in S : Complete(d, c, n)) => x = 2
  /\ ~(\E n \in S : Complete(d, c, n)) =>
       /\ x < 2
       /\ S = {} => x = 0
       /\ \A n \in S : (\A k \in S : k <= n) =>
            x = Some(Line(d, c, n, TRUE)) + Some(Line(d, c, n, FALSE))

NumberRead(x, d, c, in, S) ==
  (\E n \in S : Line(d, c, n, in) # {}) =>
    \E n \in S : \E j \in Line(d, c, n, in) : x = d.confs[c][n].eps[j].num

ConfRead(w, d, c, vendor, S) ==
  /\ w.midi = ~vendor /\ w.mask = Mask(d) /\ w.conf = c
  /\ CountRead(w.n, d, c, S)
  /\ NumberRead(w.in, d, c, TRUE, S)
  /\ NumberRead(w.out, d, c, FALSE, S)

LEMMA NumberNext ==
  ASSUME NEW d, NEW c, NEW n, NEW in, NEW S, NEW x, NEW y, NumberRead(y, d, c, in, S),
         Numbered(d.confs[c][n], Line(d, c, n, in), x, y)
  PROVE  NumberRead(x, d, c, in, S \cup {n})
<1>1. CASE Line(d, c, n, in) = {}
  BY <1>1 DEF NumberRead, Numbered
<1>2. CASE Line(d, c, n, in) # {}
  <2>1. PICK j \in Line(d, c, n, in) : x = d.confs[c][n].eps[j].num
    BY <1>2 DEF Numbered
  <2> QED BY <2>1 DEF NumberRead
<1> QED BY <1>1, <1>2

LEMMA SomeFacts ==
  ASSUME NEW S PROVE Some(S) \in {0, 1} /\ (Some(S) = 1 <=> S # {})
<1>1. CASE S = {}
  BY <1>1, SMT DEF Some
<1>2. CASE S # {}
  BY <1>2, SMT DEF Some
<1> QED BY <1>1, <1>2

LEMMA CountNext ==
  ASSUME NEW d, NEW c, NEW n \in Nat, NEW S \in SUBSET Nat, \A k \in S : k < n,
         ~(\E k \in S : Complete(d, c, k)),
         NEW x, x = Some(Line(d, c, n, TRUE)) + Some(Line(d, c, n, FALSE))
  PROVE  CountRead(x, d, c, S \cup {n})
<1> DEFINE a == Some(Line(d, c, n, TRUE))
           b == Some(Line(d, c, n, FALSE))
<1>1. /\ a \in {0, 1} /\ b \in {0, 1}
      /\ a = 1 <=> Line(d, c, n, TRUE) # {}
      /\ b = 1 <=> Line(d, c, n, FALSE) # {}
  BY SomeFacts
<1>2. x = a + b
  OBVIOUS
<1>3. Complete(d, c, n) <=> a = 1 /\ b = 1
  <2> HIDE DEF a, b
  <2> QED BY <1>1 DEF Complete
<1>4. \A k \in S \cup {n} : (\A m \in S \cup {n} : m <= k) => k = n
  BY SMT
<1>5. n \in S \cup {n}
  OBVIOUS
<1>6. (a = 1 /\ b = 1 => x = 2) /\ (~(a = 1 /\ b = 1) => x < 2)
  <2>1. \A k \in {0, 1}, l \in {0, 1} :
          (k = 1 /\ l = 1 => k + l = 2) /\ (~(k = 1 /\ l = 1) => k + l < 2)
    BY SMT
  <2> HIDE DEF a, b
  <2> QED BY <1>1, <1>2, <2>1
<1>7. (\E k \in S \cup {n} : Complete(d, c, k)) <=> Complete(d, c, n)
  OBVIOUS
<1> QED BY <1>2, <1>3, <1>4, <1>5, <1>6, <1>7 DEF CountRead

\* The interfaces S, and n if it is taken.
Added(S, n, taken) == IF taken THEN S \cup {n} ELSE S

LEMMA ConfStep ==
  ASSUME NEW d, NEW c, NEW vendor, NEW n \in Nat, NEW S \in SUBSET Nat, \A k \in S : k < n,
         NEW v, NEW w, NEW taken \in BOOLEAN,
         ConfRead(v, d, c, vendor, S), InterfaceRead(v, w, d, d.confs[c][n], taken)
  PROVE  ConfRead(w, d, c, vendor, Added(S, n, taken))
<1>1. w.midi = ~vendor /\ w.mask = Mask(d) /\ w.conf = c
  BY DEF ConfRead, InterfaceRead
<1>2. /\ CountRead(v.n, d, c, S) /\ NumberRead(v.in, d, c, TRUE, S)
      /\ NumberRead(v.out, d, c, FALSE, S)
  BY DEF ConfRead
<1>3. CASE ~taken
  <2>1. w.n = v.n /\ w.in = v.in /\ w.out = v.out
    BY <1>3 DEF InterfaceRead
  <2> QED BY <1>1, <1>2, <1>3, <2>1 DEF ConfRead, Added
<1>4. CASE taken /\ ~(v.n < 2)
  <2>1. w.n = v.n /\ w.in = v.in /\ w.out = v.out
    BY <1>4 DEF InterfaceRead
  <2>2. PICK m \in S : Complete(d, c, m)
    BY <1>2, <1>4 DEF CountRead
  <2>3. CountRead(w.n, d, c, S \cup {n})
    BY <1>2, <2>1, <2>2 DEF CountRead
  <2>4. NumberRead(w.in, d, c, TRUE, S \cup {n}) /\ NumberRead(w.out, d, c, FALSE, S \cup {n})
    BY <1>2, <2>1, <2>2 DEF NumberRead, Complete
  <2> QED BY <1>1, <1>4, <2>3, <2>4 DEF ConfRead, Added
<1>5. CASE taken /\ v.n < 2
  <2>1. /\ w.n = Some(Line(d, c, n, TRUE)) + Some(Line(d, c, n, FALSE))
        /\ Numbered(d.confs[c][n], Line(d, c, n, TRUE), w.in, v.in)
        /\ Numbered(d.confs[c][n], Line(d, c, n, FALSE), w.out, v.out)
    BY <1>5 DEF InterfaceRead, Line
  <2>2. ~(\E k \in S : Complete(d, c, k))
    <3>1. ~(2 < 2)
      BY SMT
    <3> QED BY <1>2, <1>5, <3>1 DEF CountRead
  <2>3. CountRead(w.n, d, c, S \cup {n})
    BY <2>1, <2>2, CountNext
  <2>4. NumberRead(w.in, d, c, TRUE, S \cup {n}) /\ NumberRead(w.out, d, c, FALSE, S \cup {n})
    BY <1>2, <2>1, NumberNext
  <2> QED BY <1>1, <1>5, <2>3, <2>4 DEF ConfRead, Added
<1> QED BY <1>3, <1>4, <1>5

\* A parser before a descriptor.
NewView(d, vendor) ==
  [midi |-> ~vendor, mask |-> Mask(d), good |-> FALSE, n |-> 0, conf |-> 0, in |-> 0, out |-> 0]

New(d, vendor) == Parser!NewParser(~vendor, IF d.quirk THEN 2 ELSE 3, 0, 0)

LEMMA BytesOf ==
  ASSUME NEW l \in Nat, NEW b \in [1..l -> Nat] PROVE b \in ByteSeq /\ Len(b) = l
BY LenProperties DEF ByteSeq

LEMMA NewIsReady ==
  ASSUME NEW d, NEW vendor \in BOOLEAN
  PROVE  /\ New(d, vendor) \in Ready /\ View(New(d, vendor)) = NewView(d, vendor)
         /\ NewView(d, vendor) \in ViewType
<1> DEFINE s == New(d, vendor)
           b == [k \in 1..16 |-> 0]
<1>1. s = [stateParseDescr |-> 0, varBuffer |-> b, pValue |-> 0, valueSize |-> 0, countDown |-> 0,
           skipping |-> FALSE, toSkip |-> 0, dscrLen |-> 0, dscrType |-> 0,
           isMidiSearch |-> ~vendor, bTransferTypeMask |-> Mask(d),
           isGoodInterface |-> FALSE, nEPs |-> 0, confValue |-> 0, epIn |-> 0, epOut |-> 0]
  BY DEF New, Parser!NewParser, Parser!BufferSize, Mask
<1>2. b \in ByteSeq /\ Len(b) = 16 /\ Len(b) >= 16
  <2>1. b \in [1..16 -> Nat] /\ 16 \in Nat
    BY SMT
  <2> HIDE DEF b
  <2>2. b \in ByteSeq /\ Len(b) = 16
    BY <2>1, BytesOf
  <2> QED BY <2>2, SMT
<1>3. Mask(d) \in Nat /\ 0 \in 0..15 /\ 0 \in Nat /\ 0 # 1 /\ 0 # 4
  BY SMT DEF Mask
<1> HIDE DEF b, s
<1>4. s \in Fields
  BY <1>1, <1>2, <1>3 DEF Fields
<1>5. s.varBuffer = b /\ s.stateParseDescr = 0 /\ s.skipping = FALSE
  BY <1>1
<1>6. s \in Ready
  BY <1>2, <1>3, <1>4, <1>5 DEF Ready, ParserState
<1>7. View(s) = NewView(d, vendor)
  BY <1>1 DEF View, NewView
<1>8. NewView(d, vendor) \in ViewType
  BY <1>4, <1>7, ViewFacts
<1> QED BY <1>6, <1>7, <1>8 DEF s

LEMMA ConfHeadLeads ==
  ASSUME NEW l \in Nat, NEW n \in Nat, NEW i \in Nat, NEW v
  PROVE  Leads(<<9, 2, 9 + l, 0, n, i, 0, 128, 50>>, {v}, {[v EXCEPT !.conf = i]})
<1> DEFINE q == <<9, 2, 9 + l, 0, n, i, 0, 128, 50>>
<1>0. 9 + l \in Nat
  BY SMT
<1>1. q \in ByteSeq /\ Len(q) = 9 /\ q[1] = 9 /\ q[2] = 2 /\ q[6] = i
  BY <1>0 DEF ByteSeq
<1> HIDE DEF q
<1>2. WholeDescriptor(q) /\ 5 < Len(q)
  BY <1>1, SMT DEF WholeDescriptor
<1>3. q[2] = Parser!CONFIGURATION
  BY <1>1 DEF Parser!CONFIGURATION
<1>4. \A s \in Ready : View(s) = v =>
        Parser!Parse(s, q) \in Ready /\ View(Parser!Parse(s, q)) = [v EXCEPT !.conf = i]
  BY <1>1, <1>2, <1>3, ConfigurationStep
<1>5. Leads(q, {v}, {[v EXCEPT !.conf = i]})
  BY <1>1, <1>4 DEF Leads
<1> QED BY <1>5 DEF q

LEMMA InterfaceIsBytes ==
  ASSUME NEW f \in InterfaceType, NEW n \in Nat \ {0}
  PROVE  InterfaceBytes(f, n) \in ByteSeq
<1> DEFINE p == [k \in 1..Len(f.eps) |-> EndpointBytes(f, f.eps[k])]
           d == [quirk |-> FALSE, confs |-> << <<>> >>]
           v == NewView(d, TRUE)
<1>1. f.eps \in Seq(EndpointType) /\ f.midi \in BOOLEAN
  BY DEF InterfaceType
<1>2. Len(f.eps) \in Nat /\ \A k \in 1..Len(f.eps) : f.eps[k] \in EndpointType
  BY <1>1, LenProperties, ElementOfSeq
<1>3. v.mask = Mask(d) /\ v.midi \in BOOLEAN /\ d \in DeviceType
  BY DEF NewView, DeviceType
<1> HIDE DEF d, v
<1>4. \A k \in 1..Len(f.eps) : EndpointBytes(f, f.eps[k]) \in ByteSeq
  BY <1>2, <1>3, EndpointLeads DEF Leads
<1>5. p \in Seq(ByteSeq)
  <2>1. p \in [1..Len(f.eps) -> ByteSeq]
    BY <1>4
  <2> HIDE DEF p
  <2> QED BY <1>2, <2>1, LenProperties
<1>6. FlattenSeq(p) \in ByteSeq
  <2> HIDE DEF p
  <2> QED BY <1>5, FlattenType
<1>7. InterfaceHead(f, n) \in ByteSeq
  <2>1. Leads(InterfaceHead(f, n), {v}, {ToInterface(v, v.midi => f.midi)})
    BY <1>3, HeadLeads
  <2> QED BY <2>1 DEF Leads
<1>8. InterfaceBytes(f, n) = InterfaceHead(f, n) \o FlattenSeq(p)
  BY Zenon DEF InterfaceBytes, InterfaceHead
<1> HIDE DEF p
<1> QED BY <1>6, <1>7, <1>8, JoinFacts

LEMMA ConfIsBytes ==
  ASSUME NEW d \in DeviceType, NEW c \in DOMAIN d.confs
  PROVE  ConfBytes(d, c) \in ByteSeq
<1> DEFINE ifaces == d.confs[c]
           l == Len(ifaces)
           q == [n \in 1..l |-> InterfaceBytes(ifaces[n], n)]
           head == <<9, 2, 9 + Len(FlattenSeq(q)), 0, l, c, 0, 128, 50>>
<1>1. c \in Nat /\ l \in Nat /\ \A n \in 1..l : ifaces[n] \in InterfaceType /\ n \in Nat \ {0}
  <2>1. d.confs \in Seq(Seq(InterfaceType))
    BY DEF DeviceType
  <2>2. DOMAIN d.confs = 1..Len(d.confs) /\ Len(d.confs) \in Nat
    BY <2>1, LenProperties
  <2>3. ifaces \in Seq(InterfaceType)
    BY <2>1, <2>2, ElementOfSeq
  <2>4. c \in Nat
    BY <2>2, SMT
  <2>5. l \in Nat /\ \A n \in 1..l : ifaces[n] \in InterfaceType
    BY <2>3, LenProperties, ElementOfSeq
  <2>6. \A n \in 1..l : n \in Nat \ {0}
    BY <2>5, SMT
  <2> QED BY <2>4, <2>5, <2>6
<1> HIDE DEF l
<1>2. q \in [1..l -> ByteSeq]
  BY <1>1, InterfaceIsBytes
<1>3. ConfBytes(d, c) = head \o FlattenSeq(q)
  BY Zenon DEF ConfBytes, l
<1> HIDE DEF q
<1>4. q \in Seq(ByteSeq)
  BY <1>1, <1>2, LenProperties
<1>5. FlattenSeq(q) \in ByteSeq /\ Len(FlattenSeq(q)) \in Nat
  BY <1>4, FlattenType, LenProperties DEF ByteSeq
<1>6. head \in ByteSeq
  <2>1. Leads(head, {0}, {[0 EXCEPT !.conf = c]})
    BY <1>1, <1>5, ConfHeadLeads
  <2> QED BY <2>1 DEF Leads
<1> HIDE DEF head
<1> QED BY <1>3, <1>5, <1>6, JoinFacts

\* The interfaces that were searched among the first m.
SearchedTo(d, c, vendor, m) == {n \in Searched(d, c, vendor) : n <= m}

LEMMA SearchedNext ==
  ASSUME NEW d, NEW c, NEW vendor, NEW l \in Nat, DOMAIN d.confs[c] = 1..l,
         NEW n \in 1..l, NEW taken, taken <=> n \in Searched(d, c, vendor)
  PROVE  /\ SearchedTo(d, c, vendor, n) = Added(SearchedTo(d, c, vendor, n - 1), n, taken)
         /\ SearchedTo(d, c, vendor, n - 1) \in SUBSET Nat
         /\ \A k \in SearchedTo(d, c, vendor, n - 1) : k < n
<1> DEFINE S == Searched(d, c, vendor)
<1>1. S \subseteq 1..l
  BY DEF Searched
<1>2. \A k \in 1..l : (k <= n <=> k <= n - 1 \/ k = n) /\ (k <= n - 1 => k < n) /\ k \in Nat
  BY SMT
<1>3. ~(n <= n - 1)
  BY SMT
<1> HIDE DEF S
<1> QED BY <1>1, <1>2, <1>3 DEF SearchedTo, S, Added

ConfsRead(d, c, vendor, S) == {w \in ViewType : ConfRead(w, d, c, vendor, S)}

LEMMA ConfLeads ==
  ASSUME NEW d \in DeviceType, Regular(d), NEW c \in DOMAIN d.confs, NEW vendor \in BOOLEAN
  PROVE  Leads(ConfBytes(d, c), {NewView(d, vendor)},
               ConfsRead(d, c, vendor, Searched(d, c, vendor)))
<1> DEFINE ifaces == d.confs[c]
           l == Len(ifaces)
           q == [n \in 1..l |-> InterfaceBytes(ifaces[n], n)]
           S(m) == SearchedTo(d, c, vendor, m)
           I == [m \in 0..l |-> ConfsRead(d, c, vendor, S(m))]
           v == [NewView(d, vendor) EXCEPT !.conf = c]
           head == <<9, 2, 9 + Len(FlattenSeq(q)), 0, l, c, 0, 128, 50>>
<1>1. /\ c \in Nat /\ l \in Nat /\ DOMAIN ifaces = 1..l
      /\ \A n \in 1..l : ifaces[n] \in InterfaceType /\ ifaces[n].midi \in BOOLEAN
  <2>1. d.confs \in Seq(Seq(InterfaceType))
    BY DEF DeviceType
  <2>2. DOMAIN d.confs = 1..Len(d.confs) /\ Len(d.confs) \in Nat
    BY <2>1, LenProperties
  <2>3. ifaces \in Seq(InterfaceType)
    BY <2>1, <2>2, ElementOfSeq
  <2>4. c \in Nat
    BY <2>2, SMT
  <2>5. l \in Nat /\ DOMAIN ifaces = 1..l /\ \A n \in 1..l : ifaces[n] \in InterfaceType
    BY <2>3, LenProperties, ElementOfSeq
  <2> QED BY <2>4, <2>5 DEF InterfaceType
<1> HIDE DEF l
<1>2. ASSUME NEW n \in 1..l, NEW w \in I[n - 1] PROVE Leads(q[n], {w}, I[n])
  <2> DEFINE f == ifaces[n]
             taken == (~vendor => f.midi)
             R == {x \in ViewType : InterfaceRead(w, x, d, f, taken)}
  <2>1. n \in Nat /\ n \in Nat \ {0} /\ n - 1 \in 0..l /\ n \in 0..l
    BY <1>1, SMT
  <2>2. w \in ViewType /\ ConfRead(w, d, c, vendor, S(n - 1))
    BY <1>2, <2>1 DEF ConfsRead
  <2>3. w.midi = ~vendor /\ w.mask = Mask(d)
    BY <2>2 DEF ConfRead
  <2>4. f \in InterfaceType /\ f.midi \in BOOLEAN /\ taken \in BOOLEAN
    BY <1>1
  <2>5. taken <=> n \in Searched(d, c, vendor)
    BY <1>1 DEF Searched
  <2>6. taken => Single(d, f)
    BY <2>5 DEF Regular, Single
  <2>7. Leads(InterfaceBytes(f, n), {w}, R)
    <3>1. taken = (w.midi => f.midi)
      BY <2>3
    <3> HIDE DEF taken, f
    <3> QED BY <2>1, <2>2, <2>3, <2>4, <2>6, <3>1, InterfaceLeads
  <2>8. R \subseteq ConfsRead(d, c, vendor, S(n))
    <3> SUFFICES ASSUME NEW x \in R PROVE x \in ConfsRead(d, c, vendor, S(n))
      OBVIOUS
    <3>1. x \in ViewType /\ InterfaceRead(w, x, d, d.confs[c][n], taken)
      OBVIOUS
    <3> DEFINE A == S(n - 1)
    <3>2. /\ S(n) = Added(A, n, taken)
          /\ A \in SUBSET Nat /\ \A k \in A : k < n
      <4> HIDE DEF taken
      <4> QED BY <1>1, <2>5, SearchedNext
    <3> HIDE DEF R, A, taken
    <3>3. ConfRead(x, d, c, vendor, Added(A, n, taken))
      <4>1. ConfRead(w, d, c, vendor, A)
        BY <2>2 DEF A
      <4>2. taken \in BOOLEAN /\ A \in SUBSET Nat /\ \A k \in A : k < n
        BY <2>4, <3>2
      <4> QED BY <2>1, <3>1, <4>1, <4>2, ConfStep, Zenon
    <3> QED BY <3>1, <3>2, <3>3 DEF ConfsRead
  <2>9. q[n] = InterfaceBytes(f, n) /\ I[n] = ConfsRead(d, c, vendor, S(n))
    BY <2>1
  <2> HIDE DEF q, I, R, f, S
  <2> QED BY <2>7, <2>8, <2>9, LeadsWithin
<1>3. \A n \in 1..l : q[n] \in ByteSeq
  BY <1>1, InterfaceIsBytes, SMT
<1>4. q \in Seq(ByteSeq) /\ Len(q) = l
  <2>1. q \in [1..l -> ByteSeq]
    BY <1>3
  <2> HIDE DEF q
  <2> QED BY <1>1, <2>1, LenProperties
<1>5. LeadOn(q, I)
  <2> HIDE DEF q, I
  <2> QED BY <1>2, <1>3, <1>4, LeadsEach DEF LeadOn
<1>6. Leads(FlattenSeq(q), I[0], I[l])
  <2> HIDE DEF q, I
  <2> QED BY <1>4, <1>5, LeadsFlatten
<1>7. I[0] = ConfsRead(d, c, vendor, S(0)) /\ I[l] = ConfsRead(d, c, vendor, S(l))
  BY <1>1, SMT
<1>8. S(0) = {} /\ S(l) = Searched(d, c, vendor)
  <2>1. \A n \in 1..l : ~(n <= 0) /\ n <= l
    BY <1>1, SMT
  <2>2. Searched(d, c, vendor) \subseteq 1..l
    BY <1>1 DEF Searched
  <2> QED BY <2>1, <2>2 DEF SearchedTo
<1>9. v \in I[0]
  <2>1. NewView(d, vendor) \in ViewType
    BY NewIsReady
  <2>2. v \in ViewType /\ v.midi = ~vendor /\ v.mask = Mask(d) /\ v.conf = c /\ v.n = 0
    BY <1>1, <2>1 DEF ViewType, NewView
  <2> HIDE DEF v
  <2>3. ConfRead(v, d, c, vendor, {})
    BY <2>2, SMT DEF ConfRead, CountRead, NumberRead
  <2> QED BY <1>7, <1>8, <2>2, <2>3 DEF ConfsRead
<1> HIDE DEF I, S
<1>10. Leads(FlattenSeq(q), {v}, ConfsRead(d, c, vendor, Searched(d, c, vendor)))
  <2>1. {v} \in SUBSET I[0]
    BY <1>9
  <2> HIDE DEF q, v
  <2> QED BY <1>6, <1>7, <1>8, <2>1, LeadsWithin
<1>11. Leads(head, {NewView(d, vendor)}, {v})
  <2>1. Len(FlattenSeq(q)) \in Nat
    <3> HIDE DEF q
    <3>1. FlattenSeq(q) \in ByteSeq
      BY <1>4, FlattenType
    <3> QED BY <3>1, LenProperties DEF ByteSeq
  <2> HIDE DEF q
  <2> QED BY <1>1, <2>1, ConfHeadLeads
<1>12. ConfBytes(d, c) = head \o FlattenSeq(q)
  BY Zenon DEF ConfBytes, l
<1> HIDE DEF head, q, v
<1> QED BY <1>10, <1>11, <1>12, LeadsJoin

(***************************************************************************)
(* What the search gets to know.                                           *)
(***************************************************************************)

\* A parse that is over, whatever the pieces were.
LEMMA LastParsed ==
  ASSUME NEW d \in Devices, NEW c \in DOMAIN d.confs, NEW vendor \in BOOLEAN, NEW size \in BufSizes
  PROVE  LET parsed == Parsed[d][c][vendor][size] IN
         parsed[Len(parsed)] = Parser!Parse(New(d, vendor), ConfBytes(d, c))
<1> DEFINE b == ConfBytes(d, c)
           p == Parser!Pieces(b, size)
           n == Len(p)
           new == New(d, vendor)
           parsed == Parsed[d][c][vendor][size]
<1>1. d \in DeviceType /\ size \in Nat \ {0} /\ b \in ByteSeq /\ new \in ParserState
  BY TaskAssumption, ConfIsBytes, NewIsReady DEF Ready
<1>2. parsed = [k \in 1..(n + 1) |-> Parser!ParseAll(new, SubSeq(p, 1, k - 1))]
  BY Zenon DEF Parsed, New
<1> HIDE DEF b, new
<1>3. p \in Seq(ByteSeq) /\ n \in Nat
  <2>1. 0 \in 0..n
    <3>1. n \in Nat
      BY <1>1, PiecesCount
    <3> QED BY <3>1, SMT
  <2>2. p \in Seq(ByteSeq)
    BY <1>1, <2>1, FirstPieces
  <2> HIDE DEF p
  <2> QED BY <2>2, LenProperties
<1>4. Parser!ParseAll(new, p) = Parser!Parse(new, b)
  BY <1>1, PieceByPiece DEF ByteSeq
<1> HIDE DEF p, parsed
<1>5. SubSeq(p, 1, n) = p
  BY <1>3, SMT
<1>6. (n + 1) - 1 = n /\ n + 1 \in 1..(n + 1) /\ n + 1 \in Nat
  BY <1>3, SMT
<1>7. Len(parsed) = n + 1
  BY <1>2, <1>6
<1> QED BY <1>2, <1>4, <1>5, <1>6, <1>7 DEF parsed, b, new

LEMMA ConfParts ==
  ASSUME NEW d \in DeviceType, NEW c \in DOMAIN d.confs
  PROVE  LET ifaces == d.confs[c] IN
         /\ DOMAIN ifaces = 1..Len(ifaces) /\ Len(ifaces) \in Nat
         /\ \A n \in DOMAIN ifaces :
              \A j \in DOMAIN ifaces[n].eps : ifaces[n].eps[j].in \in BOOLEAN
<1> DEFINE ifaces == d.confs[c]
<1>1. DOMAIN ifaces = 1..Len(ifaces) /\ Len(ifaces) \in Nat /\ ifaces \in Seq(InterfaceType)
  <2>1. d.confs \in Seq(Seq(InterfaceType))
    BY DEF DeviceType
  <2>2. ifaces \in Seq(InterfaceType)
    BY <2>1, LenProperties, ElementOfSeq
  <2> QED BY <2>2, LenProperties
<1>2. \A n \in DOMAIN ifaces : ifaces[n].eps \in Seq(EndpointType)
  <2>1. \A n \in DOMAIN ifaces : ifaces[n] \in InterfaceType
    BY <1>1, ElementOfSeq
  <2> QED BY <2>1 DEF InterfaceType
<1>3. ASSUME NEW n \in DOMAIN ifaces, NEW j \in DOMAIN ifaces[n].eps
      PROVE  ifaces[n].eps[j].in \in BOOLEAN
  <2>1. ifaces[n].eps[j] \in EndpointType
    BY <1>2, LenProperties, ElementOfSeq
  <2> QED BY <2>1 DEF EndpointType
<1> QED BY <1>1, <1>3

LEMMA FittingLines ==
  ASSUME NEW d \in DeviceType, NEW c \in DOMAIN d.confs, NEW m \in DOMAIN d.confs[c]
  PROVE  Fitting(d, d.confs[c][m]) = {} <=> \A in \in BOOLEAN : Line(d, c, m, in) = {}
BY ConfParts DEF Line, Heads, Fitting

\* The endpoints that a search may take.
LEMMA OffersAre ==
  ASSUME NEW d \in DeviceType, NEW c \in DOMAIN d.confs, NEW vendor \in BOOLEAN
  PROVE  \A e : e \in Offers(d, c, vendor) <=>
           \E n \in Searched(d, c, vendor), in \in BOOLEAN :
             \E j \in Line(d, c, n, in) : e = d.confs[c][n].eps[j] /\ e.in = in
<1> DEFINE ifaces == d.confs[c]
           F == {f \in ToSet(ifaces) : vendor \/ f.midi}
<1>2. \A n \in DOMAIN ifaces : \A j \in DOMAIN ifaces[n].eps : ifaces[n].eps[j].in \in BOOLEAN
  BY ConfParts
<1>3. Offers(d, c, vendor) = {x \in UNION {ToSet(f.eps) : f \in F} : Fits(d, x)}
  <2> DEFINE X == {x \in UNION {ToSet(f.eps) : f \in F} : Fits(d, x)}
  <2>1. Offers(d, c, vendor) = {u[2] : u \in {<<c, x>> : x \in X}}
    BY Zenon DEF Offers, EndpointsOf
  <2> HIDE DEF X
  <2>2. {u[2] : u \in {<<c, x>> : x \in X}} = X
    <3>1. \A x : <<c, x>>[2] = x
      OBVIOUS
    <3> QED BY <3>1, Zenon
  <2> QED BY <2>1, <2>2 DEF X
<1>4. \A s : ToSet(s) = {s[i] : i \in DOMAIN s}
  BY DEF ToSet
<1>5. ASSUME NEW e, e \in Offers(d, c, vendor)
      PROVE  \E n \in Searched(d, c, vendor), in \in BOOLEAN :
               \E j \in Line(d, c, n, in) : e = ifaces[n].eps[j] /\ e.in = in
  <2>1. PICK f \in F : e \in ToSet(f.eps) /\ Fits(d, e)
    BY <1>3, <1>5
  <2>2. PICK n \in DOMAIN ifaces : f = ifaces[n]
    BY <1>4, <2>1
  <2>3. PICK j \in DOMAIN f.eps : e = f.eps[j]
    BY <1>4, <2>1
  <2>4. n \in Searched(d, c, vendor)
    BY <2>1, <2>2 DEF Searched
  <2>5. e.in \in BOOLEAN
    BY <1>2, <2>2, <2>3
  <2>6. j \in Line(d, c, n, e.in)
    BY <2>1, <2>2, <2>3 DEF Line, Heads, Fitting
  <2> QED BY <2>2, <2>3, <2>4, <2>5, <2>6
<1>6. ASSUME NEW n \in Searched(d, c, vendor), NEW in \in BOOLEAN, NEW j \in Line(d, c, n, in)
      PROVE  ifaces[n].eps[j] \in Offers(d, c, vendor)
  <2>1. n \in DOMAIN ifaces /\ (vendor \/ ifaces[n].midi)
    BY DEF Searched
  <2>2. j \in DOMAIN ifaces[n].eps /\ Fits(d, ifaces[n].eps[j])
    BY DEF Line, Heads, Fitting
  <2>3. ifaces[n] \in F
    BY <1>4, <2>1
  <2>4. ifaces[n].eps[j] \in ToSet(ifaces[n].eps)
    BY <1>4, <2>2
  <2> QED BY <1>3, <2>2, <2>3, <2>4
<1> QED BY <1>5, <1>6

\* A configuration that was read tells what RightAbout asks for.
LEMMA ReadIsRight ==
  ASSUME NEW d \in DeviceType, Regular(d), NEW c \in DOMAIN d.confs, NEW vendor \in BOOLEAN,
         NEW w, w \in ViewType, ConfRead(w, d, c, vendor, Searched(d, c, vendor))
  PROVE  LET offers == Offers(d, c, vendor) IN
         /\ w.n > 0 <=> offers # {}
         /\ w.conf = c
         /\ (\E e \in offers : e.in) => \E e \in offers : e.in /\ e.num = w.in
         /\ (\E e \in offers : ~e.in) => \E e \in offers : ~e.in /\ e.num = w.out
<1> DEFINE S == Searched(d, c, vendor)
           offers == Offers(d, c, vendor)
           none == \A n \in S : \A in \in BOOLEAN : Line(d, c, n, in) = {}
<1>1. \A e : e \in offers <=>
        \E n \in S, in \in BOOLEAN : \E j \in Line(d, c, n, in) : e = d.confs[c][n].eps[j] /\ e.in = in
  BY OffersAre
<1>2. /\ CountRead(w.n, d, c, S) /\ NumberRead(w.in, d, c, TRUE, S)
      /\ NumberRead(w.out, d, c, FALSE, S) /\ w.conf = c
  BY DEF ConfRead
<1>3. \A n \in S, in \in BOOLEAN : \A j \in Line(d, c, n, in) : d.confs[c][n].eps[j].in = in
  BY DEF Line, Heads
<1>4. w.n \in Nat
  BY DEF ViewType
<1> HIDE DEF offers
<1>5. (\E e \in offers : e.in) => \E e \in offers : e.in /\ e.num = w.in
  <2> SUFFICES ASSUME NEW e \in offers, e.in PROVE \E x \in offers : x.in /\ x.num = w.in
    OBVIOUS
  <2>1. \E n \in S : Line(d, c, n, TRUE) # {}
    BY <1>1
  <2>2. PICK n \in S : \E j \in Line(d, c, n, TRUE) : w.in = d.confs[c][n].eps[j].num
    BY <1>2, <2>1 DEF NumberRead
  <2> QED BY <1>1, <1>3, <2>2
<1>6. (\E e \in offers : ~e.in) => \E e \in offers : ~e.in /\ e.num = w.out
  <2> SUFFICES ASSUME NEW e \in offers, ~e.in PROVE \E x \in offers : ~x.in /\ x.num = w.out
    OBVIOUS
  <2>1. \E n \in S : Line(d, c, n, FALSE) # {}
    BY <1>1
  <2>2. PICK n \in S : \E j \in Line(d, c, n, FALSE) : w.out = d.confs[c][n].eps[j].num
    BY <1>2, <2>1 DEF NumberRead
  <2> QED BY <1>1, <1>3, <2>2
<1>7. w.n > 0 <=> offers # {}
  <2>1. offers = {} <=> none
    BY <1>1, <1>3
  <2>2. CASE \E n \in S : Complete(d, c, n)
    <3>1. w.n = 2 /\ ~none
      BY <1>2, <2>2 DEF CountRead, Complete
    <3> QED BY <2>1, <3>1, SMT
  <2>3. CASE ~(\E n \in S : Complete(d, c, n)) /\ S = {}
    <3>1. w.n = 0 /\ none
      BY <1>2, <2>3 DEF CountRead
    <3> QED BY <2>1, <3>1, SMT
  <2>4. CASE ~(\E n \in S : Complete(d, c, n)) /\ S # {}
    <3> DEFINE l == Len(d.confs[c])
    <3>1. S \in SUBSET (1..l) /\ l \in Nat
      BY ConfParts DEF Searched
    <3>2. PICK n \in S : \A m \in S : m <= n
      <4> HIDE DEF S, l
      <4> QED BY <2>4, <3>1, TopIsTop
    <3>3. w.n = Some(Line(d, c, n, TRUE)) + Some(Line(d, c, n, FALSE))
      BY <1>2, <2>4, <3>2 DEF CountRead
    <3>4. w.n = 0 <=> \A in \in BOOLEAN : Line(d, c, n, in) = {}
      <4> DEFINE a == Some(Line(d, c, n, TRUE))
                 b == Some(Line(d, c, n, FALSE))
      <4>1. a \in {0, 1} /\ b \in {0, 1} /\ (a = 1 <=> Line(d, c, n, TRUE) # {})
            /\ (b = 1 <=> Line(d, c, n, FALSE) # {}) /\ w.n = a + b
        BY <3>3, SomeFacts
      <4>2. \A x \in {0, 1}, y \in {0, 1} : x + y = 0 <=> ~(x = 1) /\ ~(y = 1)
        BY SMT
      <4> HIDE DEF a, b
      <4> QED BY <4>1, <4>2
    <3>5. \A m \in S : Fitting(d, d.confs[c][m]) = {} <=> \A in \in BOOLEAN : Line(d, c, m, in) = {}
      BY FittingLines DEF Searched
    <3>6. none <=> \A in \in BOOLEAN : Line(d, c, n, in) = {}
      <4>1. \/ \E m \in S : \A in \in BOOLEAN : Heads(d, d.confs[c][m], in) # {}
            \/ \A x \in S : (\A m \in S : m <= x) /\ Fitting(d, d.confs[c][x]) = {} =>
                  \A m \in S : Fitting(d, d.confs[c][m]) = {}
        BY Zenon DEF Regular
      <4>2. Fitting(d, d.confs[c][n]) = {} => \A m \in S : Fitting(d, d.confs[c][m]) = {}
        <5> HIDE DEF S
        <5> QED BY <2>4, <3>2, <4>1, Zenon DEF Complete, Line
      <4> HIDE DEF S
      <4> QED BY <3>2, <3>5, <4>2
    <3>7. w.n > 0 <=> w.n # 0
      BY <1>4, SMT
    <3> QED BY <2>1, <3>4, <3>6, <3>7
  <2> QED BY <2>2, <2>3, <2>4
<1> QED BY <1>2, <1>5, <1>6, <1>7 DEF offers

LEMMA RegularIsRight == ASSUME NEW d \in Devices, Regular(d) PROVE RightAbout(d)
<1> SUFFICES ASSUME NEW c \in DOMAIN d.confs, NEW vendor \in BOOLEAN, NEW size \in BufSizes
    PROVE LET parsed == Parsed[d][c][vendor][size]
              s == parsed[Len(parsed)]
              offers == Offers(d, c, vendor) IN
          /\ s.nEPs > 0 <=> offers # {}
          /\ s.nEPs > 0 =>
               /\ s.confValue = c
               /\ (\E e \in offers : e.in) => \E e \in offers : e.in /\ e.num = s.epIn
               /\ (\E e \in offers : ~e.in) => \E e \in offers : ~e.in /\ e.num = s.epOut
  BY Zenon DEF RightAbout
<1> DEFINE parsed == Parsed[d][c][vendor][size]
           s == parsed[Len(parsed)]
           w == View(s)
           offers == Offers(d, c, vendor)
<1>1. d \in DeviceType
  BY TaskAssumption
<1>2. s = Parser!Parse(New(d, vendor), ConfBytes(d, c))
  BY LastParsed
<1>3. Leads(ConfBytes(d, c), {NewView(d, vendor)}, ConfsRead(d, c, vendor, Searched(d, c, vendor)))
  BY <1>1, ConfLeads
<1> HIDE DEF s
<1>4. s \in Ready /\ w \in ConfsRead(d, c, vendor, Searched(d, c, vendor))
  BY <1>2, <1>3, NewIsReady DEF Leads
<1>5. w \in ViewType /\ ConfRead(w, d, c, vendor, Searched(d, c, vendor))
  BY <1>4 DEF ConfsRead
<1>6. w.n = s.nEPs /\ w.conf = s.confValue /\ w.in = s.epIn /\ w.out = s.epOut
  BY DEF View
<1> HIDE DEF w, offers
<1>7. /\ w.n > 0 <=> offers # {}
      /\ w.conf = c
      /\ (\E e \in offers : e.in) => \E e \in offers : e.in /\ e.num = w.in
      /\ (\E e \in offers : ~e.in) => \E e \in offers : ~e.in /\ e.num = w.out
  BY <1>1, <1>5, ReadIsRight DEF offers
<1> QED BY <1>6, <1>7 DEF s, offers

(***************************************************************************)
(* What the parser gets to know of any device, regular or not.             *)
(***************************************************************************)
Known(d, c) == {w \in ViewType : w.mask = Mask(d) /\ w.conf = c}

LEMMA LeadsAll ==
  ASSUME NEW q \in Seq(ByteSeq), NEW K, \A k \in 1..Len(q) : Leads(q[k], K, K)
  PROVE  Leads(FlattenSeq(q), K, K)
<1> DEFINE I == [k \in 0..Len(q) |-> K]
<1>1. Len(q) \in Nat
  BY LenProperties
<1>2. \A k \in 0..Len(q) : I[k] = K
  OBVIOUS
<1>3. \A k \in 1..Len(q) : k - 1 \in 0..Len(q) /\ k \in 0..Len(q)
  BY <1>1, SMT
<1>4. 0 \in 0..Len(q) /\ Len(q) \in 0..Len(q)
  BY <1>1, SMT
<1> HIDE DEF I
<1>5. LeadOn(q, I)
  BY <1>2, <1>3 DEF LeadOn
<1>6. Leads(FlattenSeq(q), I[0], I[Len(q)])
  BY <1>5, LeadsFlatten
<1> QED BY <1>2, <1>4, <1>6

LEMMA KnownEndpoint ==
  ASSUME NEW d \in DeviceType, NEW c, NEW f \in InterfaceType, NEW e \in EndpointType
  PROVE  Leads(EndpointBytes(f, e), Known(d, c), Known(d, c))
<1>1. ASSUME NEW v \in Known(d, c) PROVE Leads(EndpointBytes(f, e), {v}, Known(d, c))
  <2>1. v \in ViewType /\ v.mask = Mask(d) /\ v.conf = c
    BY DEF Known
  <2>2. Leads(EndpointBytes(f, e), {v}, {Counted(v, d, e)})
    BY <2>1, EndpointLeads
  <2>3. Counted(v, d, e) \in ViewType
    BY <2>1, CountedType
  <2>4. Counted(v, d, e).mask = v.mask /\ Counted(v, d, e).conf = v.conf
    BY UpdateFields DEF Counted
  <2>5. Counted(v, d, e) \in Known(d, c)
    BY <2>1, <2>3, <2>4 DEF Known
  <2> QED BY <2>2, <2>5, LeadsWithin
<1>2. EndpointBytes(f, e) \in ByteSeq
  <2>1. Leads(EndpointBytes(f, e), {[mask |-> Mask(d)]}, {Counted([mask |-> Mask(d)], d, e)})
    BY EndpointLeads
  <2> QED BY <2>1 DEF Leads
<1> QED BY <1>1, <1>2, LeadsEach

LEMMA KnownInterface ==
  ASSUME NEW d \in DeviceType, NEW c, NEW f \in InterfaceType, NEW n \in Nat \ {0}
  PROVE  Leads(InterfaceBytes(f, n), Known(d, c), Known(d, c))
<1> DEFINE q == [k \in 1..Len(f.eps) |-> EndpointBytes(f, f.eps[k])]
<1>1. Len(f.eps) \in Nat /\ \A k \in 1..Len(f.eps) : f.eps[k] \in EndpointType
  <2>1. f.eps \in Seq(EndpointType)
    BY DEF InterfaceType
  <2> QED BY <2>1, LenProperties, ElementOfSeq
<1>2. \A k \in 1..Len(f.eps) : Leads(q[k], Known(d, c), Known(d, c)) /\ q[k] \in ByteSeq
  BY <1>1, KnownEndpoint DEF Leads
<1>3. q \in Seq(ByteSeq) /\ Len(q) = Len(f.eps)
  <2>1. q \in [1..Len(f.eps) -> ByteSeq]
    BY <1>2
  <2> HIDE DEF q
  <2> QED BY <1>1, <2>1, LenProperties
<1>4. Leads(FlattenSeq(q), Known(d, c), Known(d, c))
  <2> HIDE DEF q
  <2> QED BY <1>2, <1>3, LeadsAll
<1>5. ASSUME NEW v \in Known(d, c) PROVE Leads(InterfaceHead(f, n), {v}, Known(d, c))
  <2> DEFINE taken == (v.midi => f.midi)
             u == ToInterface(v, taken)
  <2>1. v \in ViewType /\ v.mask = Mask(d) /\ v.conf = c /\ v.midi \in BOOLEAN /\ f.midi \in BOOLEAN
    BY DEF Known, ViewType, InterfaceType
  <2>2. Leads(InterfaceHead(f, n), {v}, {u})
    BY <2>1, HeadLeads
  <2>3. u \in ViewType
    <3> DEFINE m == IF taken /\ v.n < 2 THEN 0 ELSE v.n
    <3>1. m \in Nat /\ taken \in BOOLEAN
      BY <2>1 DEF ViewType
    <3>2. u = Update(v, taken, m, v.in, v.out)
      BY DEF ToInterface
    <3> HIDE DEF m, u, taken
    <3> QED BY <2>1, <3>1, <3>2 DEF Update, ViewType
  <2>4. u.mask = v.mask /\ u.conf = v.conf
    BY UpdateFields DEF ToInterface
  <2>5. u \in Known(d, c)
    BY <2>1, <2>3, <2>4 DEF Known
  <2> HIDE DEF u
  <2> QED BY <2>2, <2>5, LeadsWithin
<1>6. InterfaceHead(f, n) \in ByteSeq
  <2> DEFINE v == NewView(d, TRUE)
  <2>1. v.midi \in BOOLEAN /\ f.midi \in BOOLEAN
    BY DEF NewView, InterfaceType
  <2> HIDE DEF v
  <2>2. Leads(InterfaceHead(f, n), {v}, {ToInterface(v, v.midi => f.midi)})
    BY <2>1, HeadLeads
  <2> QED BY <2>2 DEF Leads
<1>7. Leads(InterfaceHead(f, n), Known(d, c), Known(d, c))
  BY <1>5, <1>6, LeadsEach
<1>8. InterfaceBytes(f, n) = InterfaceHead(f, n) \o FlattenSeq(q)
  BY Zenon DEF InterfaceBytes, InterfaceHead
<1> HIDE DEF q
<1> QED BY <1>4, <1>7, <1>8, LeadsJoin

LEMMA KnownConf ==
  ASSUME NEW d \in DeviceType, NEW c \in DOMAIN d.confs, NEW vendor \in BOOLEAN
  PROVE  Leads(ConfBytes(d, c), {NewView(d, vendor)}, Known(d, c))
<1> DEFINE ifaces == d.confs[c]
           l == Len(ifaces)
           q == [n \in 1..l |-> InterfaceBytes(ifaces[n], n)]
           v == [NewView(d, vendor) EXCEPT !.conf = c]
           head == <<9, 2, 9 + Len(FlattenSeq(q)), 0, l, c, 0, 128, 50>>
<1>1. c \in Nat /\ l \in Nat /\ \A n \in 1..l : ifaces[n] \in InterfaceType
  <2>1. d.confs \in Seq(Seq(InterfaceType))
    BY DEF DeviceType
  <2>2. DOMAIN d.confs = 1..Len(d.confs) /\ Len(d.confs) \in Nat
    BY <2>1, LenProperties
  <2>3. ifaces \in Seq(InterfaceType)
    BY <2>1, <2>2, ElementOfSeq
  <2>4. c \in Nat
    BY <2>2, SMT
  <2> QED BY <2>3, <2>4, LenProperties, ElementOfSeq
<1> HIDE DEF l, ifaces
<1>2. \A n \in 1..l : Leads(q[n], Known(d, c), Known(d, c)) /\ q[n] \in ByteSeq
  <2>1. \A n \in 1..l : n \in Nat \ {0}
    BY SMT
  <2> QED BY <1>1, <2>1, KnownInterface DEF Leads
<1>3. q \in Seq(ByteSeq) /\ Len(q) = l
  <2>1. q \in [1..l -> ByteSeq]
    BY <1>2
  <2> HIDE DEF q
  <2> QED BY <1>1, <2>1, LenProperties
<1>4. Leads(FlattenSeq(q), Known(d, c), Known(d, c))
  <2> HIDE DEF q
  <2> QED BY <1>2, <1>3, LeadsAll
<1>5. v \in Known(d, c)
  <2>1. NewView(d, vendor) \in ViewType
    BY NewIsReady
  <2> QED BY <1>1, <2>1 DEF Known, ViewType, NewView
<1>6. Leads(head, {NewView(d, vendor)}, {v})
  <2>1. Len(FlattenSeq(q)) \in Nat
    <3> HIDE DEF q
    <3> QED BY <1>3, FlattenType, LenProperties DEF ByteSeq
  <2> HIDE DEF q
  <2> QED BY <1>1, <2>1, ConfHeadLeads
<1>7. ConfBytes(d, c) = head \o FlattenSeq(q)
  BY Zenon DEF ConfBytes, l, ifaces
<1> HIDE DEF head, q, v
<1>8. Leads(head, {NewView(d, vendor)}, Known(d, c))
  BY <1>5, <1>6, LeadsWithin
<1> QED BY <1>4, <1>7, <1>8, LeadsJoin

\* At the end of a descriptor the parser has its configuration's value.
LEMMA ConfValueIsRead ==
  ASSUME NEW d \in Devices, NEW c \in DOMAIN d.confs, NEW vendor \in BOOLEAN, NEW size \in BufSizes
  PROVE  LET parsed == Parsed[d][c][vendor][size] IN parsed[Len(parsed)].confValue = c
<1> DEFINE parsed == Parsed[d][c][vendor][size]
           s == parsed[Len(parsed)]
<1>1. d \in DeviceType
  BY TaskAssumption
<1>2. s = Parser!Parse(New(d, vendor), ConfBytes(d, c))
  BY LastParsed
<1> HIDE DEF s
<1>3. View(s) \in Known(d, c)
  BY <1>1, <1>2, KnownConf, NewIsReady DEF Leads
<1> QED BY <1>3 DEF Known, View, s

\* Wherever a transfer ends, the endpoints that were found have numbers.
LEMMA ParsedNumbers ==
  ASSUME NEW d \in Devices, NEW c \in DOMAIN d.confs, NEW vendor \in BOOLEAN, NEW size \in BufSizes
  PROVE  LET parsed == Parsed[d][c][vendor][size] IN
         /\ Len(parsed) \in 1..Len(parsed)
         /\ \A k \in 1..Len(parsed) : parsed[k].epIn \in 0..15 /\ parsed[k].epOut \in 0..15
<1> DEFINE b == ConfBytes(d, c)
           p == Parser!Pieces(b, size)
           n == Len(p)
           new == New(d, vendor)
           parsed == Parsed[d][c][vendor][size]
<1>1. d \in DeviceType /\ size \in Nat \ {0} /\ b \in ByteSeq /\ new \in ParserState
  BY TaskAssumption, ConfIsBytes, NewIsReady DEF Ready
<1>2. parsed = [k \in 1..(n + 1) |-> Parser!ParseAll(new, SubSeq(p, 1, k - 1))]
  BY Zenon DEF Parsed, New
<1> HIDE DEF b, new
<1>3. n \in Nat
  BY <1>1, PiecesCount
<1>4. ASSUME NEW k \in 1..(n + 1) PROVE parsed[k].epIn \in 0..15 /\ parsed[k].epOut \in 0..15
  <2> DEFINE j == k - 1
             t == Take(b, Reach(b, size, j))
  <2>1. j \in 0..n
    BY <1>3, SMT
  <2> HIDE DEF p, parsed
  <2>2. parsed[k] = Parser!ParseAll(new, SubSeq(p, 1, j))
    BY <1>2
  <2> HIDE DEF j
  <2>3. Parser!ParseAll(new, SubSeq(p, 1, j)) = Parser!Parse(new, t) /\ Reach(b, size, j) \in 0..Len(b)
    BY <1>1, <2>1, FirstPieces DEF p
  <2>4. t \in ByteSeq
    BY <1>1, <2>3, TakeFacts
  <2>5. parsed[k] \in ParserState
    BY <1>1, <2>2, <2>3, <2>4, ParseType
  <2> QED BY <2>5 DEF ParserState, Fields
<1> HIDE DEF p, parsed
<1>5. Len(parsed) = n + 1 /\ n + 1 \in 1..(n + 1)
  <2>1. n + 1 \in Nat /\ n + 1 \in 1..(n + 1)
    BY <1>3, SMT
  <2> QED BY <1>2, <2>1
<1> QED BY <1>4, <1>5 DEF parsed

-----------------------------------------------------------------------------
(***************************************************************************)
(* What the driver may use, and what the searches offer it.                *)
(***************************************************************************)
GoodOf(d, ifaces) == {x \in UNION {ToSet(f.eps) : f \in ifaces} : Fits(d, x)}

InterfacesOf(d, c, vendor) == {f \in ToSet(d.confs[c]) : vendor \/ f.midi}

With(c, G) == {<<c, e>> : e \in G}
Seconds(P) == {u[2] : u \in P}

LEMMA SecondsOfWith == \A c, G : Seconds(With(c, G)) = G
<1> TAKE c, G
<1>1. \A e : <<c, e>>[2] = e
  OBVIOUS
<1>2. ASSUME NEW x \in G PROVE x \in Seconds(With(c, G))
  <2>1. <<c, x>> \in With(c, G)
    BY <1>2, Zenon DEF With
  <2>2. <<c, x>>[2] \in Seconds(With(c, G))
    BY <2>1, Zenon DEF Seconds
  <2> QED BY <1>1, <2>2
<1>3. ASSUME NEW x \in Seconds(With(c, G)) PROVE x \in G
  <2>1. PICK e \in G : x = <<c, e>>[2]
    BY <1>3, Zenon DEF With, Seconds
  <2> QED BY <1>1, <2>1
<1> QED BY <1>2, <1>3, Zenon

LEMMA OffersAreGood ==
  \A d, c, vendor : Offers(d, c, vendor) = GoodOf(d, InterfacesOf(d, c, vendor))
<1> TAKE d, c, vendor
<1> DEFINE G == GoodOf(d, InterfacesOf(d, c, vendor))
<1>1. Offers(d, c, vendor) = Seconds(With(c, G))
  BY DEF Offers, EndpointsOf, GoodOf, InterfacesOf, Seconds, With
<1> QED BY <1>1, SecondsOfWith, Zenon

Pairs(d, v) == UNION {With(c, Offers(d, c, v)) : c \in DOMAIN d.confs}

LEMMA UsableSplit ==
  ASSUME NEW d
  PROVE  Usable(d) = IF Pairs(d, FALSE) # {} THEN Pairs(d, FALSE) ELSE Pairs(d, TRUE)
<1>1. ASSUME NEW c
      PROVE  /\ EndpointsOf(d, ToSet(d.confs[c]), c) = With(c, Offers(d, c, TRUE))
             /\ EndpointsOf(d, {f \in ToSet(d.confs[c]) : f.midi}, c) = With(c, Offers(d, c, FALSE))
  <2>1. InterfacesOf(d, c, TRUE) = ToSet(d.confs[c])
    BY Zenon DEF InterfacesOf
  <2>2. InterfacesOf(d, c, FALSE) = {f \in ToSet(d.confs[c]) : f.midi}
    BY Zenon DEF InterfacesOf
  <2>3. /\ Offers(d, c, TRUE) = GoodOf(d, ToSet(d.confs[c]))
        /\ Offers(d, c, FALSE) = GoodOf(d, {f \in ToSet(d.confs[c]) : f.midi})
    BY <2>1, <2>2, OffersAreGood, Zenon
  <2> QED BY <2>3, Zenon DEF EndpointsOf, GoodOf, With
<1> DEFINE D == DOMAIN d.confs
           all == UNION {EndpointsOf(d, ToSet(d.confs[c]), c) : c \in D}
           midi == UNION {EndpointsOf(d, {f \in ToSet(d.confs[c]) : f.midi}, c) : c \in D}
<1>2. ASSUME NEW x PROVE x \in all <=> x \in Pairs(d, TRUE)
  <2>1. x \in all <=> \E c \in D : x \in EndpointsOf(d, ToSet(d.confs[c]), c)
    BY Zenon
  <2>2. x \in Pairs(d, TRUE) <=> \E c \in D : x \in With(c, Offers(d, c, TRUE))
    BY Zenon DEF Pairs
  <2> HIDE DEF D, all
  <2> QED BY <1>1, <2>1, <2>2, Zenon
<1>3. ASSUME NEW x PROVE x \in midi <=> x \in Pairs(d, FALSE)
  <2>1. x \in midi <=> \E c \in D : x \in EndpointsOf(d, {f \in ToSet(d.confs[c]) : f.midi}, c)
    BY Zenon
  <2>2. x \in Pairs(d, FALSE) <=> \E c \in D : x \in With(c, Offers(d, c, FALSE))
    BY Zenon DEF Pairs
  <2> HIDE DEF D, midi
  <2> QED BY <1>1, <2>1, <2>2, Zenon
<1>4. Usable(d) = IF midi # {} THEN midi ELSE all
  BY Zenon DEF Usable
<1>5. all = Pairs(d, TRUE) /\ midi = Pairs(d, FALSE)
  <2> HIDE DEF all, midi
  <2> QED BY <1>2, <1>3, Zenon
<1> QED BY <1>4, <1>5, Zenon

LEMMA SliceOfPairs ==
  ASSUME NEW d, NEW c \in DOMAIN d.confs, NEW v
  PROVE  Seconds({u \in Pairs(d, v) : u[1] = c}) = Offers(d, c, v)
<1> DEFINE S == {u \in Pairs(d, v) : u[1] = c}
<1>1. ASSUME NEW u \in S PROVE u \in With(c, Offers(d, c, v))
  <2>1. PICK x \in DOMAIN d.confs : u \in With(x, Offers(d, x, v))
    BY <1>1, Zenon DEF Pairs
  <2>2. u[1] = x
    BY <2>1 DEF With
  <2> QED BY <1>1, <2>1, <2>2
<1>2. ASSUME NEW u \in With(c, Offers(d, c, v)) PROVE u \in S
  <2>1. u \in Pairs(d, v)
    BY <1>2, Zenon DEF Pairs
  <2>2. u[1] = c
    BY <1>2 DEF With
  <2> QED BY <2>1, <2>2
<1>3. S = With(c, Offers(d, c, v))
  <2> HIDE DEF S
  <2> QED BY <1>1, <1>2, Zenon
<1> QED BY <1>3, SecondsOfWith

\* What is the driver's to use is what the step of the search offers that
\* finds it.
LEMMA MineIsOffered ==
  ASSUME NEW d, NEW c \in DOMAIN d.confs, NEW vendor \in BOOLEAN,
         Offers(d, c, vendor) # {},
         vendor => \A x \in DOMAIN d.confs : Offers(d, x, FALSE) = {}
  PROVE  Mine(d, c) = Offers(d, c, vendor)
<1>1. Usable(d) = Pairs(d, vendor)
  <2>1. CASE vendor = TRUE
    <3>1. \A x \in DOMAIN d.confs : With(x, Offers(d, x, FALSE)) = {}
      BY <2>1, Zenon DEF With
    <3>2. Pairs(d, FALSE) = {}
      BY <3>1, Zenon DEF Pairs
    <3> QED BY <2>1, <3>2, UsableSplit
  <2>2. CASE vendor = FALSE
    <3>1. With(c, Offers(d, c, FALSE)) # {}
      BY <2>2, Zenon DEF With
    <3>2. Pairs(d, FALSE) # {}
      BY <3>1, Zenon DEF Pairs
    <3> QED BY <2>2, <3>2, UsableSplit
  <2> QED BY <2>1, <2>2
<1>2. Mine(d, c) = Seconds({u \in Pairs(d, vendor) : u[1] = c})
  BY <1>1, Zenon DEF Mine, Seconds
<1> QED BY <1>2, SliceOfPairs

LEMMA OffersAreEndpoints ==
  ASSUME NEW d \in Devices, NEW c \in DOMAIN d.confs, NEW vendor
  PROVE  Offers(d, c, vendor) \subseteq EndpointType
<1>1. d.confs \in Seq(Seq(InterfaceType))
  BY TaskAssumption DEF DeviceType
<1> DEFINE ifaces == d.confs[c]
<1>2. ifaces \in Seq(InterfaceType)
  BY <1>1
<1>3. \A f \in ToSet(ifaces) : f \in InterfaceType
  BY <1>2 DEF ToSet
<1>4. \A f \in InterfaceType : f.eps \in Seq(EndpointType)
  BY DEF InterfaceType
<1>5. \A s \in Seq(EndpointType) : ToSet(s) \subseteq EndpointType
  BY DEF ToSet
<1>6. GoodOf(d, InterfacesOf(d, c, vendor)) \subseteq EndpointType
  BY <1>3, <1>4, <1>5, Zenon DEF GoodOf, InterfacesOf
<1> QED BY <1>6, OffersAreGood

-----------------------------------------------------------------------------
(***************************************************************************)
(* The driver speaks to its device: SearchInv is an invariant.             *)
(***************************************************************************)

\* A device without an address has no configuration.
Sane(d) == d \in Dev /\ (d.addr = 0 => d.conf = 0)

Ends == <<epIn, epOut>>

LEMMA DeviceFacts ==
  /\ NoSearch \in Search
  /\ \A d \in Dev : Sane(Default(d))
  /\ \A d \in Dev : Sane([d EXCEPT !.addr = 1]) /\ [d EXCEPT !.addr = 1].conf = d.conf
  /\ \A d \in Dev, e \in Devices : Sane([Default(d) EXCEPT !.desc = e])
  /\ \A d \in Dev : Default(d).addr = 0 /\ \A e : [Default(d) EXCEPT !.desc = e].addr = 0
<1>1. NoSearch \in Search
  BY DEF NoSearch, Search
<1>2. ASSUME NEW d \in Dev
      PROVE  d.addr \in DevAddress /\ d.conf \in 0..255 /\ d.desc \in Devices
  BY DEF Dev
<1>3. ASSUME NEW d \in Dev
      PROVE  Default(d) = [addr |-> 0, conf |-> 0, desc |-> d.desc]
  BY DEF Default
<1>4. ASSUME NEW d \in Dev
      PROVE  [d EXCEPT !.addr = 1] = [addr |-> 1, conf |-> d.conf, desc |-> d.desc]
  BY DEF Dev
<1>5. ASSUME NEW d \in Dev, NEW e
      PROVE  [Default(d) EXCEPT !.desc = e] = [addr |-> 0, conf |-> 0, desc |-> e]
  BY <1>3
<1>6. ASSUME NEW a \in DevAddress, NEW c \in 0..255, NEW e \in Devices
      PROVE  /\ [addr |-> a, conf |-> c, desc |-> e] \in Dev
             /\ [addr |-> a, conf |-> c, desc |-> e].addr = a
             /\ [addr |-> a, conf |-> c, desc |-> e].conf = c
  BY DEF Dev
<1> DEFINE zero == 0
<1>0. zero \in 0..255 /\ zero \in DevAddress
  BY SMT DEF DevAddress
<1>7. \A d \in Dev : Sane(Default(d)) /\ Default(d).addr = 0
  <2> SUFFICES ASSUME NEW d \in Dev PROVE Sane(Default(d)) /\ Default(d).addr = 0
    OBVIOUS
  <2> DEFINE x == [addr |-> zero, conf |-> zero, desc |-> d.desc]
  <2>1. Default(d) = x /\ zero = 0
    BY <1>3
  <2> HIDE DEF zero
  <2>2. x \in Dev /\ x.addr = zero /\ x.conf = zero
    BY <1>0, <1>2, <1>6
  <2> HIDE DEF x
  <2> QED BY <2>1, <2>2 DEF Sane
<1>8. ASSUME NEW d \in Dev
      PROVE  Sane([d EXCEPT !.addr = 1]) /\ [d EXCEPT !.addr = 1].conf = d.conf
  <2> DEFINE x == [addr |-> 1, conf |-> d.conf, desc |-> d.desc]
  <2>1. x \in Dev /\ x.addr = 1 /\ x.conf = d.conf
    BY <1>2, <1>6 DEF DevAddress
  <2>2. [d EXCEPT !.addr = 1] = x
    BY <1>4
  <2> HIDE DEF x
  <2> QED BY <2>1, <2>2 DEF Sane
<1>9. ASSUME NEW d \in Dev, NEW e \in Devices
      PROVE  Sane([Default(d) EXCEPT !.desc = e])
  <2> DEFINE x == [addr |-> zero, conf |-> zero, desc |-> e]
  <2>1. x \in Dev /\ x.addr = 0 /\ x.conf = 0
    <3> HIDE DEF zero
    <3>1. x \in Dev /\ x.addr = zero /\ x.conf = zero
      BY <1>0, <1>6
    <3> QED BY <3>1 DEF zero
  <2>2. [Default(d) EXCEPT !.desc = e] = x
    BY <1>5
  <2> HIDE DEF x
  <2> QED BY <2>1, <2>2 DEF Sane
<1>10. \A d \in Dev : \A e : [Default(d) EXCEPT !.desc = e].addr = 0
  BY <1>5
<1> QED BY <1>1, <1>7, <1>8, <1>9, <1>10

LEMMA InitSearch == Init => SearchInv
<1> SUFFICES ASSUME Init PROVE SearchInv
  OBVIOUS
<1>1. dev \in Dev /\ dev.addr = 0 /\ dev.conf = 0
  BY DEF Init, Dev, DevAddress
<1>2. search = NoSearch /\ pc = "irq"
  BY DEF Init
<1> QED BY <1>1, <1>2, DeviceFacts DEF SearchInv

\* A step that searches nothing and leaves the endpoints alone.
LEMMA IdleSearch ==
  ASSUME SearchInv, UNCHANGED <<Ends, search>>, pc \notin {"iconf", "setconf"},
         pc' \notin {"iconf", "setconf"}, Sane(dev'),
         bPollEnable' => \/ bPollEnable /\ dev' = dev
                         \/ dev'.addr = 0 \/ dev'.conf = 0
  PROVE  SearchInv'
<1>1. dev' \in Dev /\ (dev'.addr = 0 => dev'.conf = 0) /\ search' = search /\ search = NoSearch
  BY DEF Sane, SearchInv
<1>2. (bPollEnable /\ dev.addr = 1 /\ dev.conf # 0 /\ Regular(dev.desc) =>
         Covers(Mine(dev.desc, dev.conf), epIn, epOut))'
  <2>1. CASE bPollEnable /\ dev' = dev
    BY <2>1 DEF SearchInv, Ends
  <2>2. CASE dev'.addr = 0 \/ dev'.conf = 0 \/ ~bPollEnable'
    BY <2>2
  <2> QED BY <2>1, <2>2
<1> QED BY <1>1, <1>2, DeviceFacts DEF SearchInv

LEMMA AttemptFailsDev ==
  ASSUME NEW r, NEW d \in Dev, Sane(d), AttemptFails(r, d)
  PROVE  Sane(dev') /\ pc' \in {"init", "irq"}
BY DeviceFacts DEF AttemptFails, Configured

\* A step that ends an Init.
LEMMA FailingSearch ==
  ASSUME NEW r, NEW d, Sane(d), AttemptFails(r, d), bPollEnable' = FALSE, search' = NoSearch
  PROVE  SearchInv'
<1>1. Sane(dev') /\ pc' \in {"init", "irq"}
  BY AttemptFailsDev DEF Sane
<1> QED BY <1>1, DeviceFacts DEF SearchInv, Sane

LEMMA SearchInitFirst == PoolInv /\ SearchInv /\ InitFirst => SearchInv'
<1> SUFFICES ASSUME PoolInv, SearchInv, InitFirst PROVE SearchInv'
  OBVIOUS
<1>1. Sane(dev) /\ bPollEnable = FALSE /\ search = NoSearch /\ pc = "init"
  BY DEF InitFirst, PoolInv, Enumerates, ControlTypes, SearchInv, Sane
<1>2. ASSUME Proceed("setaddr"), UNCHANGED <<bPollEnable, endpoints, dev>> PROVE SearchInv'
  BY <1>1, <1>2, IdleSearch DEF Proceed, endpoints, Ends
<1>3. ASSUME AttemptFails("error", dev), UNCHANGED driver PROVE SearchInv'
  BY <1>1, <1>3, FailingSearch DEF driver, endpoints
<1>4. ASSUME NEW r, ReleaseDriver, AttemptFails(r, dev) PROVE SearchInv'
  BY <1>1, <1>4, FailingSearch DEF ReleaseDriver, ReleaseAddress
<1> QED BY <1>2, <1>3, <1>4 DEF InitFirst

LEMMA SearchInitSetAddr == PoolInv /\ SearchInv /\ InitSetAddr => SearchInv'
<1> SUFFICES ASSUME PoolInv, SearchInv, InitSetAddr PROVE SearchInv'
  OBVIOUS
<1>1. /\ Sane(dev) /\ dev \in Dev /\ bPollEnable = FALSE /\ search = NoSearch
      /\ pc = "setaddr" /\ bAddress = 1
  BY DEF InitSetAddr, PoolInv, Enumerates, ControlTypes, SearchInv, Sane, Addressed
<1>2. ASSUME dev' = [dev EXCEPT !.addr = bAddress], Proceed("idescr"), UNCHANGED driver PROVE SearchInv'
  BY <1>1, <1>2, IdleSearch, DeviceFacts DEF Proceed, driver, endpoints, Ends
<1>3. ASSUME NEW r, NEW d \in {dev, [dev EXCEPT !.addr = IF Reaches(0) THEN 1 ELSE @]},
             UNCHANGED <<bPollEnable, endpoints>>, AttemptFails(r, d)
      PROVE  SearchInv'
  <2>1. [dev EXCEPT !.addr = IF Reaches(0) THEN 1 ELSE @] \in {dev, [dev EXCEPT !.addr = 1]}
    BY <1>1 DEF Dev
  <2>2. Sane(d)
    BY <1>1, <1>3, <2>1, DeviceFacts
  <2> QED BY <1>1, <1>3, <2>2, FailingSearch DEF endpoints
<1> QED BY <1>2, <1>3 DEF InitSetAddr

\* Any device has a first configuration.
LEMMA FirstConfiguration ==
  ASSUME NEW d \in Devices
  PROVE  /\ d.confs \in Seq(Seq(InterfaceType)) /\ DOMAIN d.confs = 1..Len(d.confs)
         /\ Len(d.confs) \in 1..255 /\ 1 \in DOMAIN d.confs
BY TaskAssumption DEF DeviceType

LEMMA SearchInitDescr == PoolInv /\ SearchInv /\ InitDescr => SearchInv'
<1> SUFFICES ASSUME PoolInv, SearchInv, InitDescr PROVE SearchInv'
  OBVIOUS
<1>1. Sane(dev) /\ dev \in Dev /\ bPollEnable = FALSE /\ search = NoSearch
  BY DEF InitDescr, PoolInv, Enumerates, ControlTypes, SearchInv, Sane, Addressed
<1>2. ASSUME Proceed("iconf"), UNCHANGED <<dev, bAddress, bPollEnable, endpoints>> PROVE SearchInv'
  <2>1. dev.desc \in Devices
    BY <1>1 DEF Dev
  <2>2. 1 \in DOMAIN dev.desc.confs /\ \A c \in DOMAIN dev.desc.confs : ~(c < 1)
    BY <2>1, FirstConfiguration
  <2>3. search' = NoSearch /\ dev' = dev /\ pc' = "iconf" /\ bPollEnable' = FALSE
    BY <1>1, <1>2 DEF Proceed, endpoints
  <2>4. NoSearch.i = 1 /\ NoSearch.vendor = FALSE
    BY DEF NoSearch
  <2> QED BY <1>1, <2>2, <2>3, <2>4, DeviceFacts DEF SearchInv, Sane
<1>3. ASSUME NEW r, InitReleases(r, dev) PROVE SearchInv'
  BY <1>1, <1>3, FailingSearch DEF InitReleases, ReleaseDriver, ReleaseAddress
<1> QED BY <1>2, <1>3 DEF InitDescr

\* What RightAbout says of one descriptor.
Tells(s, d, c, vendor) ==
  LET offers == Offers(d, c, vendor) IN
  /\ s.nEPs > 0 <=> offers # {}
  /\ s.nEPs > 0 =>
       /\ s.confValue = c
       /\ (\E e \in offers : e.in) => \E e \in offers : e.in /\ e.num = s.epIn
       /\ (\E e \in offers : ~e.in) => \E e \in offers : ~e.in /\ e.num = s.epOut

\* The parser at the end of a descriptor.
AtEnd(d, c, vendor, size) ==
  LET parsed == Parsed[d][c][vendor][size] IN parsed[Len(parsed)]

Reports(s, d, c, vendor) == s.confValue = c /\ (Regular(d) => Tells(s, d, c, vendor))

LEMMA ParserTells ==
  ASSUME NEW d \in Devices, NEW c \in DOMAIN d.confs, NEW vendor \in BOOLEAN,
         NEW size \in BufSizes
  PROVE  Reports(AtEnd(d, c, vendor, size), d, c, vendor)
BY RegularIsRight, ConfValueIsRead DEF RightAbout, Tells, AtEnd, Reports

LEMMA FoundSearch ==
  ASSUME SearchInv, pc = "iconf", dev.addr = 1, bPollEnable = FALSE,
         NEW s, s.confValue = search.i,
         Regular(dev.desc) => Tells(s, dev.desc, search.i, search.vendor),
         s.nEPs > 0, ConfFound(s), Xtract(s)
  PROVE  SearchInv'
<1> DEFINE d == dev.desc
           c == search.i
           offers == Offers(d, c, search.vendor)
<1>1. d \in Devices /\ c \in DOMAIN d.confs /\ search.vendor \in BOOLEAN /\ search \in Search
  BY DEF SearchInv, Dev, Search
<1>2. c \in 1..255
  BY <1>1 DEF Search
<1>3. /\ search' = [search EXCEPT !.conf = c] /\ pc' = "setconf"
      /\ dev' = dev /\ bPollEnable' = FALSE
  BY DEF ConfFound, Proceed
<1>4. search' \in Search /\ search'.conf = c /\ c # 0
  BY <1>1, <1>2, <1>3 DEF Search
<1>5. ASSUME Regular(d) PROVE Covers(Mine(d, c), epIn', epOut')
  <2>1. search.vendor => \A x \in DOMAIN d.confs : Offers(d, x, FALSE) = {}
    BY <1>5 DEF SearchInv
  <2>2. /\ offers # {}
        /\ (\E e \in offers : e.in) => \E e \in offers : e.in /\ e.num = s.epIn
        /\ (\E e \in offers : ~e.in) => \E e \in offers : ~e.in /\ e.num = s.epOut
    BY <1>5 DEF Tells
  <2>3. Mine(d, c) = offers
    BY <1>1, <2>1, <2>2, MineIsOffered
  <2>4. \A e \in offers : e.num # 0
    <3>1. offers \subseteq EndpointType
      BY <1>1, OffersAreEndpoints
    <3> HIDE DEF offers
    <3> QED BY <3>1 DEF EndpointType
  <2>5. Covers(offers, epIn', epOut')
    <3> HIDE DEF offers
    <3>1. (\E e \in offers : e.in) => epIn' = s.epIn
      BY <2>2, <2>4 DEF Xtract
    <3>2. (\E e \in offers : ~e.in) => epOut' = s.epOut
      BY <2>2, <2>4 DEF Xtract
    <3> QED BY <2>2, <3>1, <3>2 DEF Covers
  <2> QED BY <2>3, <2>5
<1> HIDE DEF c, d, offers
<1> QED BY <1>3, <1>4, <1>5 DEF SearchInv, d

LEMMA NextSearch ==
  ASSUME SearchInv, pc = "iconf", dev.addr = 1, bPollEnable = FALSE,
         NEW s, Regular(dev.desc) => Tells(s, dev.desc, search.i, search.vendor), ~(s.nEPs > 0),
         NEW last, last = (search.i = Len(dev.desc.confs)),
         ~(last /\ search.vendor), ConfNext(last)
  PROVE  SearchInv'
<1> DEFINE d == dev.desc
           D == DOMAIN d.confs
<1>1. d \in Devices /\ search.i \in D /\ search.vendor \in BOOLEAN /\ search \in Search
  BY DEF SearchInv, Dev, Search
<1>2. D = 1..Len(d.confs) /\ Len(d.confs) \in 1..255 /\ Len(d.confs) \in Nat /\ 1 \in D
  <2>1. D = 1..Len(d.confs) /\ Len(d.confs) \in 1..255 /\ 1 \in D
    BY <1>1, FirstConfiguration
  <2>2. \A n \in 1..255 : n \in Nat
    BY SMT
  <2> HIDE DEF D
  <2> QED BY <2>1, <2>2
<1>3. Regular(d) => \A c \in D : search.vendor \/ c < search.i => Offers(d, c, FALSE) = {}
  BY DEF SearchInv
<1>4. Regular(d) /\ ~search.vendor => Offers(d, search.i, FALSE) = {}
  BY <1>1 DEF Tells
<1>5. /\ search' = (IF last THEN [NoSearch EXCEPT !.vendor = TRUE] ELSE [search EXCEPT !.i = @ + 1])
      /\ pc' = "iconf" /\ dev' = dev /\ bPollEnable' = FALSE
  BY DEF ConfNext, Proceed
<1>6. /\ search' \in Search
      /\ search'.i = (IF last THEN 1 ELSE search.i + 1)
      /\ search'.vendor = (last \/ search.vendor)
  <2>1. CASE last
    <3>1. search' = [vendor |-> TRUE, i |-> 1, conf |-> 0]
      BY <1>5, <2>1 DEF NoSearch
    <3>2. 1 \in 1..255 /\ 0 \in 0..255
      BY SMT
    <3> QED BY <2>1, <3>1, <3>2 DEF Search
  <2>2. CASE ~last
    <3>1. search.i + 1 \in 1..255
      <4> DEFINE n == Len(d.confs)
                 i == search.i
      <4>1. i \in 1..n /\ i # n /\ n \in 1..255
        BY <1>1, <1>2, <2>2
      <4> HIDE DEF n, i
      <4>2. i + 1 \in 1..255
        BY <4>1, SMT
      <4> QED BY <4>2 DEF i
    <3> QED BY <1>1, <1>5, <2>2, <3>1 DEF Search
  <2> QED BY <2>1, <2>2
<1>7. search'.i \in D
  <2> DEFINE n == Len(d.confs)
             i == search.i
  <2>1. last <=> i = n
    OBVIOUS
  <2>2. n \in Nat /\ i \in 1..n /\ D = 1..n /\ 1 \in D
    BY <1>1, <1>2
  <2> HIDE DEF D, d, n, i
  <2>3. CASE last
    BY <1>6, <2>2, <2>3
  <2>4. CASE ~last
    <3>1. i # n /\ search'.i = i + 1
      BY <1>6, <2>1, <2>4 DEF i
    <3> QED BY <2>2, <3>1
  <2> QED BY <2>3, <2>4
<1>8. ASSUME Regular(d)
      PROVE  \A c \in D : search'.vendor \/ c < search'.i => Offers(d, c, FALSE) = {}
  <2> DEFINE n == Len(d.confs)
             i == search.i
  <2>1. last <=> i = n
    OBVIOUS
  <2>2. n \in Nat /\ i \in 1..n /\ D = 1..n
    BY <1>1, <1>2
  <2> HIDE DEF D, d, n, i
  <2>3. ASSUME NEW c \in D, search.vendor \/ c < i PROVE Offers(d, c, FALSE) = {}
    BY <1>3, <1>8, <2>3 DEF i, D, d
  <2>4. ASSUME ~search.vendor PROVE Offers(d, i, FALSE) = {}
    BY <1>4, <1>8, <2>4 DEF i, D, d
  <2>5. CASE search.vendor
    BY <2>3, <2>5
  <2>6. CASE ~search.vendor
    <3>1. ASSUME NEW c \in D, c < i + 1 PROVE Offers(d, c, FALSE) = {}
      <4>1. c < i \/ c = i
        BY <2>2, <3>1
      <4> QED BY <2>3, <2>4, <2>6, <4>1
    <3>2. CASE last
      <4>1. \A c \in D : c < i + 1
        BY <2>1, <2>2, <3>2
      <4> QED BY <3>1, <4>1
    <3>3. CASE ~last
      <4>1. search'.i = i + 1 /\ ~search'.vendor
        BY <1>6, <2>6, <3>3 DEF i
      <4> QED BY <3>1, <4>1
    <3> QED BY <3>2, <3>3
  <2> QED BY <2>5, <2>6
<1> HIDE DEF D
<1> QED BY <1>5, <1>6, <1>7, <1>8 DEF SearchInv, D

LEMMA SearchInitConf == PoolInv /\ SearchInv /\ InitConf => SearchInv'
<1> SUFFICES ASSUME PoolInv, SearchInv, InitConf PROVE SearchInv'
  OBVIOUS
<1>1. Sane(dev) /\ dev \in Dev /\ bPollEnable = FALSE /\ bAddress = 1 /\ pc = "iconf"
  BY DEF InitConf, PoolInv, Enumerates, ControlTypes, SearchInv, Sane, Addressed
<1>2. ASSUME NEW r, ReleaseAddress, AttemptFails(r, dev) PROVE SearchInv'
  BY <1>1, <1>2, FailingSearch DEF ReleaseAddress
<1>3. ASSUME NEW r, InitReleases(r, dev) PROVE SearchInv'
  BY <1>2, <1>3 DEF InitReleases, ReleaseDriver
<1>4. ASSUME Reaches(bAddress), NEW size \in BufSizes, NEW parsed, NEW s, NEW last,
             parsed = Parsed[dev.desc][search.i][search.vendor][size],
             s = parsed[Len(parsed)],
             last = (search.i = Len(dev.desc.confs)),
             Xtract(s),
             \/ s.nEPs > 0 /\ ConfFound(s)
             \/ s.nEPs = 0 /\ ~(last /\ search.vendor) /\ ConfNext(last)
      PROVE  SearchInv'
  <2>1. dev.addr = 1
    BY <1>1, <1>4 DEF Reaches
  <2>2. dev.desc \in Devices /\ search.i \in DOMAIN dev.desc.confs /\ search.vendor \in BOOLEAN
    BY <1>1, <2>1 DEF SearchInv, Dev, Search
  <2>3. /\ s.confValue = search.i
        /\ Regular(dev.desc) => Tells(s, dev.desc, search.i, search.vendor)
    <3>1. s = AtEnd(dev.desc, search.i, search.vendor, size)
      BY <1>4, Zenon DEF AtEnd
    <3>2. Reports(AtEnd(dev.desc, search.i, search.vendor, size), dev.desc, search.i, search.vendor)
      BY <1>4, <2>2, ParserTells, Zenon
    <3> QED BY <3>1, <3>2, Zenon DEF Reports
  <2>4. CASE s.nEPs > 0 /\ ConfFound(s)
    BY <1>1, <1>4, <2>1, <2>3, <2>4, FoundSearch
  <2>5. CASE s.nEPs = 0 /\ ~(last /\ search.vendor) /\ ConfNext(last)
    <3>1. ~(s.nEPs > 0)
      BY <2>5
    <3> QED BY <1>1, <1>4, <2>1, <2>3, <2>5, <3>1, NextSearch, Zenon
  <2> QED BY <1>4, <2>4, <2>5
<1> QED BY <1>2, <1>3, <1>4 DEF InitConf

LEMMA SearchInitSetConf == PoolInv /\ SearchInv /\ InitSetConf => SearchInv'
<1> SUFFICES ASSUME PoolInv, SearchInv, InitSetConf PROVE SearchInv'
  OBVIOUS
<1>1. /\ Sane(dev) /\ dev \in Dev /\ bAddress = 1 /\ pc = "setconf"
      /\ search \in Search /\ search.conf \in 0..255
  BY DEF InitSetConf, PoolInv, Enumerates, SearchInv, Sane, Addressed, Search
<1> DEFINE e == [dev EXCEPT !.conf = search.conf]
<1>2. e \in Dev /\ e.addr = dev.addr /\ e.conf = search.conf /\ e.desc = dev.desc
  BY <1>1 DEF Dev
<1>3. ASSUME Transfer(bAddress, "ok"), dev' = e, search' = NoSearch,
             Configured("RUNNING"), UNCHANGED <<epIn, epOut>>
      PROVE  SearchInv'
  <2>1. dev.addr = 1
    BY <1>1, <1>3 DEF Transfer, Reaches
  <2>2. Regular(dev.desc) => Covers(Mine(dev.desc, search.conf), epIn', epOut')
    BY <1>1, <1>3, <2>1 DEF SearchInv
  <2>3. pc' = "irq"
    BY <1>3 DEF Configured
  <2> HIDE DEF e
  <2> QED BY <1>2, <1>3, <2>1, <2>2, <2>3, DeviceFacts DEF SearchInv
<1>4. ASSUME NEW r, NEW d \in {dev, [dev EXCEPT !.conf = IF Reaches(bAddress) THEN search.conf ELSE @]},
             InitReleases(r, d)
      PROVE  SearchInv'
  <2>1. CASE d = dev
    BY <1>1, <1>4, <2>1, FailingSearch DEF InitReleases, ReleaseDriver, ReleaseAddress
  <2>2. CASE d # dev
    <3>1. Reaches(bAddress) /\ d = e
      BY <1>1, <1>4, <2>2 DEF Dev
    <3>2. Sane(d)
      BY <1>1, <1>2, <3>1 DEF Reaches, Sane
    <3> QED BY <1>4, <3>2, FailingSearch DEF InitReleases, ReleaseDriver, ReleaseAddress
  <2> QED BY <2>1, <2>2
<1> QED BY <1>3, <1>4 DEF InitSetConf

\* The steps outside the driver's Init.
LEMMA SearchTask == PoolInv /\ SearchInv /\ Task => SearchInv'
<1> SUFFICES ASSUME PoolInv, SearchInv, Task PROVE SearchInv'
  OBVIOUS
<1>1. Sane(dev) /\ dev \in Dev /\ search \in Search
  BY DEF SearchInv, Sane
<1>2. CASE TaskInitialize
  <2>1. /\ dev' = dev /\ bPollEnable' = FALSE /\ pc' = "irq" /\ search' = NoSearch
    BY <1>2 DEF TaskInitialize, environment, ReleaseDriver, ReleaseAddress
  <2> QED BY <1>1, <2>1, DeviceFacts DEF SearchInv, Sane
<1>3. CASE TaskWait \/ TaskFrames \/ TaskConfigure
  <2>1. /\ dev' = dev /\ UNCHANGED <<Ends, search, bPollEnable>>
        /\ pc \notin {"iconf", "setconf"} /\ pc' \notin {"iconf", "setconf"}
    BY <1>3 DEF TaskWait, TaskFrames, TaskConfigure, environment, driver, endpoints, Ends
  <2> QED BY <1>1, <2>1, IdleSearch
<1>4. CASE TaskReset
  <2>1. /\ dev' \in {dev, Default(dev)} /\ UNCHANGED <<Ends, search, bPollEnable>>
        /\ pc \notin {"iconf", "setconf"} /\ pc' \notin {"iconf", "setconf"}
    BY <1>4 DEF TaskReset, BusReset, driver, endpoints, Ends
  <2> QED BY <1>1, <2>1, IdleSearch, DeviceFacts
<1> QED BY <1>2, <1>3, <1>4 DEF Task

LEMMA SearchIrq == SearchInv /\ (ReadIrq \/ ClearIrq) => SearchInv'
<1> SUFFICES ASSUME SearchInv, ReadIrq \/ ClearIrq PROVE SearchInv'
  OBVIOUS
<1>1. /\ dev' = dev /\ UNCHANGED <<Ends, search, bPollEnable>>
      /\ pc \notin {"iconf", "setconf"} /\ pc' \notin {"iconf", "setconf"}
  BY DEF ReadIrq, ClearIrq, environment, driver, endpoints, Ends
<1> QED BY <1>1, IdleSearch DEF SearchInv, Sane

LEMMA SearchGetDevDescr == SearchInv /\ GetDevDescr => SearchInv'
<1> SUFFICES ASSUME SearchInv, GetDevDescr PROVE SearchInv'
  OBVIOUS
<1>1. /\ dev' = dev /\ UNCHANGED <<Ends, search, bPollEnable>>
      /\ pc \notin {"iconf", "setconf"} /\ pc' \notin {"iconf", "setconf"}
  BY DEF GetDevDescr, environment, driver, endpoints, Ends, Configured
<1> QED BY <1>1, IdleSearch DEF SearchInv, Sane

LEMMA SearchDefaultAddressing == SearchInv /\ DefaultAddressing => SearchInv'
<1> SUFFICES ASSUME SearchInv, DefaultAddressing PROVE SearchInv'
  OBVIOUS
<1>1. /\ UNCHANGED <<Ends, search, bPollEnable>> /\ dev \in Dev /\ Sane(dev)
      /\ pc \notin {"iconf", "setconf"} /\ pc' \notin {"iconf", "setconf"}
  BY DEF DefaultAddressing, endpoints, Ends, Configured, SearchInv, Sane
<1>2. dev' = dev \/ (dev' = [dev EXCEPT !.addr = 1] /\ Reaches(0))
  <2>1. [dev EXCEPT !.addr = IF Reaches(0) THEN 1 ELSE @] \in {dev, [dev EXCEPT !.addr = 1]}
        /\ (~Reaches(0) => [dev EXCEPT !.addr = IF Reaches(0) THEN 1 ELSE @] = dev)
    BY <1>1 DEF Dev
  <2> QED BY <2>1 DEF DefaultAddressing, Transfer
<1>3. CASE dev' = dev
  BY <1>1, <1>3, IdleSearch
<1>4. CASE dev' = [dev EXCEPT !.addr = 1] /\ Reaches(0)
  <2>1. dev.conf = 0
    BY <1>4 DEF Reaches, SearchInv
  <2>2. Sane(dev') /\ dev'.conf = 0
    BY <1>1, <1>4, <2>1, DeviceFacts
  <2> QED BY <1>1, <2>2, IdleSearch
<1> QED BY <1>2, <1>3, <1>4

LEMMA SearchBusChange ==
  ASSUME SearchInv, NEW b, BusChange(b)
  PROVE  SearchInv'
<1>1. UNCHANGED <<pc, epIn, epOut, search, bPollEnable>> /\ dev \in Dev
  BY DEF BusChange, driver, endpoints, SearchInv
<1>2. CASE dev' = dev
  BY <1>1, <1>2 DEF SearchInv
<1>3. CASE dev' # dev
  <2>1. Sane(dev') /\ dev'.addr = 0
    BY <1>1, <1>3, DeviceFacts DEF BusChange
  <2> QED BY <1>1, <2>1 DEF SearchInv, Sane
<1> QED BY <1>2, <1>3

LEMMA SearchNext == PoolInv /\ SearchInv /\ [Next]_vars => SearchInv'
<1> SUFFICES ASSUME PoolInv, SearchInv, [Next]_vars PROVE SearchInv'
  OBVIOUS
<1>1. CASE ReadIrq \/ ClearIrq \/ Task
  BY <1>1, SearchIrq, SearchTask
<1>2. CASE Enumerate
  BY <1>2, SearchGetDevDescr, SearchDefaultAddressing, SearchInitFirst, SearchInitSetAddr,
     SearchInitDescr, SearchInitConf, SearchInitSetConf DEF Enumerate
<1>3. ASSUME NEW b \in {"SE0", "HOST", "SE1"}, BusChange(b) PROVE SearchInv'
  BY <1>3, SearchBusChange
<1>4. CASE UNCHANGED vars
  BY <1>4 DEF vars, endpoints, SearchInv
<1> QED BY <1>1, <1>2, <1>3, <1>4 DEF Next, Host

-----------------------------------------------------------------------------
(***************************************************************************)
(* A device that has gone is noticed.                                      *)
(***************************************************************************)

\* An enabled driver is the one of a running host.
LEMMA EnabledRuns ==
  ASSUME PoolInv, Sound, bPollEnable
  PROVE  /\ usb_task_state \in {"CONFIGURING", "RUNNING"} /\ pc \notin Addressed \cup {"descr", "init", "default"}
         /\ usb_task_state = "RUNNING" /\ pc \in {"irq", "clear", "task"}
<1>1. bAddress = 1
  BY DEF PoolInv, Enumerates, ControlTypes, DevAddress
<1>2. usb_task_state \in {"CONFIGURING", "RUNNING"} /\ pc \notin {"descr", "default", "init"}
  BY <1>1 DEF PoolInv, Pooled, Enumerates
<1>3. pc \notin Addressed
  BY DEF PoolInv, Enumerates
<1> QED BY <1>2, <1>3 DEF PoolInv, Enumerates, Enumerating, Addressed, ControlTypes, PcPlace

LEMMA InitNoticed == Init => Noticed
BY DEF Init, Noticed

LEMMA NoticedNext == PoolInv /\ PoolInv' /\ SearchInv /\ Noticed /\ [Next]_vars => Noticed'
<1> SUFFICES ASSUME PoolInv, PoolInv', SearchInv, Noticed, [Next]_vars, port'.slow, bPollEnable'
             PROVE  \/ dev'.addr = 1 /\ dev'.conf # 0 /\ bus' # "SE0"
                    \/ condet'
                    \/ pc' = "task" /\ vbusState' = "SE0"
  BY DEF Noticed
<1>1. CASE UNCHANGED vars
  BY <1>1 DEF vars, Noticed
<1>2. CASE InitSetConf
  <2>1. pc = "setconf" /\ bAddress = 1 /\ ~bPollEnable
    BY <1>2 DEF InitSetConf, PoolInv, Enumerates, Addressed
  <2>2. Reaches(bAddress) /\ dev' = [dev EXCEPT !.conf = search.conf] /\ bus' = bus
    BY <1>2 DEF InitSetConf, InitReleases, ReleaseDriver, ReleaseAddress, Transfer
  <2>3. search.conf # 0 /\ dev \in Dev
    BY <2>1, <2>2 DEF SearchInv, Reaches
  <2>4. dev'.conf # 0 /\ dev'.addr = 1
    BY <2>1, <2>2, <2>3 DEF Reaches, Dev
  <2> QED BY <2>2, <2>4 DEF Reaches
<1>3. CASE Next /\ ~InitSetConf
  <2>1. port' = port
    BY <1>3 DEF Next, Host, Task, Enumerate, BusChange, ReadIrq, ClearIrq, TaskInitialize,
       TaskWait, TaskReset, TaskFrames, TaskConfigure, GetDevDescr, DefaultAddressing,
       InitFirst, InitSetAddr, InitDescr, InitConf, environment
  <2>2. CASE Enumerate
    <3>1. pc \in Enumerating /\ pc # "setconf" /\ (bPollEnable' => bPollEnable)
      BY <1>3, <2>2 DEF Enumerate, Enumerating, GetDevDescr, DefaultAddressing,
         InitFirst, InitSetAddr, InitDescr, InitConf, InitReleases, ReleaseDriver, ReleaseAddress,
         ConfFound, ConfNext, driver
    <3> QED BY <2>1, <3>1, EnabledRuns DEF Sound, Enumerating
  <2>3. CASE Task
    <3>1. ~TaskInitialize /\ bPollEnable /\ pc = "task"
      BY <2>3 DEF Task, TaskInitialize, TaskWait, TaskReset, TaskFrames, TaskConfigure,
         ReleaseDriver, ReleaseAddress, driver
    <3>2. usb_task_state = "RUNNING" /\ vbusState # "SE1"
      BY <2>1, <3>1, EnabledRuns DEF Sound, PoolInv, Pooled, Detached
    <3>3. AfterVbus \in {"INITIALIZE", "RUNNING"} /\ (vbusState = "SE0" => AfterVbus = "INITIALIZE")
      BY <3>2 DEF AfterVbus, Detached
    <3>4. TaskWait /\ AfterVbus # "INITIALIZE"
      BY <2>3, <3>1, <3>3 DEF Task, TaskWait, TaskReset, TaskFrames, TaskConfigure
    <3>5. UNCHANGED environment /\ vbusState # "SE0"
      BY <3>3, <3>4 DEF TaskWait
    <3> QED BY <2>1, <3>1, <3>5 DEF Noticed, environment
  <2>4. CASE ReadIrq
    BY <2>4 DEF ReadIrq, environment, driver, Noticed
  <2>5. CASE ClearIrq
    <3>1. bPollEnable /\ pc = "clear" /\ port.slow
      BY <2>1, <2>5 DEF ClearIrq, driver
    <3>2. usb_task_state \notin Detached
      BY <3>1, EnabledRuns DEF Sound, Detached
    <3>3. vbusState = "SE0"
      BY <3>1, <3>2 DEF PoolInv, BusKnown
    <3> QED BY <2>5, <3>3 DEF ClearIrq
  <2>6. ASSUME NEW b \in {"SE0", "HOST", "SE1"}, BusChange(b)
        PROVE  \/ dev'.addr = 1 /\ dev'.conf # 0 /\ bus' # "SE0"
               \/ condet'
               \/ pc' = "task" /\ vbusState' = "SE0"
    <3>1. bPollEnable /\ UNCHANGED <<pc, vbusState>>
      BY <2>6 DEF BusChange, driver
    <3>2. condet => condet'
      BY <2>6 DEF BusChange
    <3>3. CASE "SE0" \in {bus, b}
      BY <2>6, <3>3 DEF BusChange
    <3>4. CASE "SE0" \notin {bus, b}
      <4>1. dev' = dev /\ bus' # "SE0"
        BY <2>6, <3>4 DEF BusChange
      <4> QED BY <2>1, <3>1, <3>2, <4>1 DEF Noticed
    <3> QED BY <3>3, <3>4
  <2> QED BY <1>3, <2>2, <2>3, <2>4, <2>5, <2>6 DEF Next, Host
<1> QED BY <1>1, <1>2, <1>3

LEMMA DeviceNext == DeviceInv /\ [Next]_vars => DeviceInv'
BY PoolNext, SearchNext, NoticedNext DEF DeviceInv

LEMMA DeviceAlways == Spec => []DeviceInv
<1>1. Init => DeviceInv
  BY InitPool, InitSearch, InitNoticed DEF DeviceInv
<1> QED BY <1>1, DeviceNext, PTL DEF Spec

LEMMA StaleFacts == DeviceInv => StaleIsNoticed
<1> SUFFICES ASSUME DeviceInv, port.slow, bPollEnable
             PROVE  \/ Served \/ bus = "SE1" \/ condet
                    \/ pc = "task" /\ vbusState = "SE0"
  BY DEF StaleIsNoticed
<1>1. bAddress = 1 /\ bus \in Lines
  BY DEF DeviceInv, PoolInv, Enumerates, ControlTypes, DevAddress
<1> QED BY <1>1 DEF DeviceInv, Noticed, Served, Reaches, Lines

LEMMA SpeakFacts == DeviceInv /\ Regular(dev.desc) => SpeaksToItsDevice
<1> SUFFICES ASSUME DeviceInv, Regular(dev.desc), bPollEnable, Served PROVE SpeaksToItsDevice
  BY DEF SpeaksToItsDevice
<1>1. bAddress = 1
  BY DEF DeviceInv, PoolInv, Enumerates, ControlTypes, DevAddress
<1>2. Covers(Mine(dev.desc, dev.conf), epIn, epOut)
  BY <1>1 DEF DeviceInv, SearchInv, Served, Reaches
<1> QED BY <1>2, Zenon DEF SpeaksToItsDevice, Covers, Mine

\* With slow hands on the plug, an enabled driver serves the device that is
\* plugged in, or the host is about to find out that it does not: MAX3421e's
\* busprobe and IntHandler (usbhost.cpp:222-294) with USB::Task
\* (Usb.cpp:455-559), wherever an enumeration is when the plug is pulled.
THEOREM StaleDeviceIsNoticed == Spec => []StaleIsNoticed
BY StaleFacts, DeviceAlways, PTL

\* Any device may be plugged in.
LEMMA DeviceIsRegular == RegularDevices /\ DeviceInv => Regular(dev.desc)
BY DEF RegularDevices, DeviceInv, SearchInv, Dev

\* An enabled driver polls an endpoint of the device that is plugged in, of its
\* MIDI interface if it has one, in the configuration it has selected, and
\* sends to such an endpoint: the two searches of USBH_MIDI::Init
\* (usbh_midi.cpp:213-252) with its EndpointXtract, for any devices that are
\* regular.
THEOREM DriverSpeaksToItsDevice == ASSUME RegularDevices PROVE Spec => []SpeaksToItsDevice
BY RegularDevices, DeviceIsRegular, SpeakFacts, DeviceAlways, PTL

\* The parser finds in the descriptors of any regular device what the search
\* is meant to find, whatever the pieces are in which they come
\* (usbh_midi.cpp:555-670, parsetools.h).
THEOREM DescriptorsAreAlwaysRead == ASSUME RegularDevices PROVE Spec => []DescriptorsAreRead
<1>1. DeviceInv => DescriptorsAreRead
  BY RegularDevices, RegularIsRight DEF RegularDevices, DeviceInv, SearchInv, Dev, DescriptorsAreRead
<1> QED BY <1>1, DeviceAlways, PTL

-----------------------------------------------------------------------------
(***************************************************************************)
(* Every variable has its type: the counters stay within their bounds, and *)
(* what the parser writes through to the driver is an endpoint number.     *)
(***************************************************************************)
Numbers == epIn \in 0..15 /\ epOut \in 0..15
Bounds == retries \in 0..3 /\ faults \in 0..MaxFaults

LEMMA TransferBounds ==
  ASSUME Bounds, NEW a, NEW r, Transfer(a, r)
  PROVE  faults' \in 0..MaxFaults
<1>1. faults \in 0..MaxFaults /\ MaxFaults \in Nat
  BY TaskAssumption DEF Bounds
<1>2. CASE r # "ok" /\ Reaches(a)
  <2>1. faults < MaxFaults /\ faults' = faults + 1
    BY <1>2 DEF Transfer
  <2> QED BY <1>1, <2>1, SMT
<1>3. CASE ~(r # "ok" /\ Reaches(a))
  BY <1>1, <1>3 DEF Transfer
<1> QED BY <1>2, <1>3

LEMMA AttemptBounds ==
  ASSUME Bounds, NEW r, NEW d, AttemptFails(r, d)
  PROVE  retries' \in 0..3
<1>1. retries \in 0..3
  BY DEF Bounds
<1>2. CASE r = "jerr" /\ retries < 3
  <2>1. retries' = retries + 1
    BY <1>2 DEF AttemptFails
  <2> QED BY <1>1, <1>2, <2>1, SMT
<1>3. CASE ~(r = "jerr" /\ retries < 3)
  <2>1. retries' = 0
    BY <1>3 DEF AttemptFails, Configured
  <2> QED BY <2>1, SMT
<1> QED BY <1>2, <1>3

LEMMA ReleaseBounds ==
  ASSUME Bounds, NEW r, NEW d, InitReleases(r, d)
  PROVE  Bounds'
BY TransferBounds, AttemptBounds DEF InitReleases, Bounds

LEMMA XtractNumbers ==
  ASSUME Numbers, NEW s, s.epIn \in 0..15, s.epOut \in 0..15, Xtract(s)
  PROVE  Numbers'
BY DEF Xtract, Numbers

LEMMA BoundsNext == Bounds /\ [Next]_vars => Bounds'
<1> SUFFICES ASSUME Bounds, [Next]_vars PROVE Bounds'
  OBVIOUS
<1>0. 0 \in 0..3 /\ 0 \in 0..MaxFaults
  BY TaskAssumption, SMT
<1>1. CASE ReadIrq \/ ClearIrq \/ Task \/ UNCHANGED vars
  BY <1>1 DEF ReadIrq, ClearIrq, Task, TaskInitialize, TaskWait, TaskReset, TaskFrames,
     TaskConfigure, vars, Bounds
<1>2. CASE GetDevDescr
  <2>1. faults' \in 0..MaxFaults
    BY <1>2, TransferBounds DEF GetDevDescr
  <2>2. retries' \in 0..3
    BY <1>0, <1>2 DEF GetDevDescr, Configured, Bounds
  <2> QED BY <2>1, <2>2 DEF Bounds
<1>3. CASE DefaultAddressing
  <2>1. faults' \in 0..MaxFaults
    BY <1>3, TransferBounds DEF DefaultAddressing, Bounds
  <2>2. retries' \in 0..3
    BY <1>0, <1>3 DEF DefaultAddressing, Configured
  <2> QED BY <2>1, <2>2 DEF Bounds
<1>4. CASE InitFirst
  <2>1. faults' \in 0..MaxFaults
    BY <1>4, TransferBounds DEF InitFirst
  <2>2. retries' \in 0..3
    BY <1>4, AttemptBounds DEF InitFirst, Proceed, Bounds
  <2> QED BY <2>1, <2>2 DEF Bounds
<1>5. CASE InitSetAddr
  <2>1. faults' \in 0..MaxFaults
    BY <1>5, TransferBounds DEF InitSetAddr
  <2>2. retries' \in 0..3
    BY <1>5, AttemptBounds DEF InitSetAddr, Proceed, Bounds
  <2> QED BY <2>1, <2>2 DEF Bounds
<1>6. CASE InitDescr
  <2>1. CASE Transfer(bAddress, "ok") /\ Proceed("iconf")
    BY <2>1, TransferBounds DEF Proceed, Bounds
  <2> QED BY <1>6, <2>1, ReleaseBounds DEF InitDescr
<1>7. CASE InitConf
  <2>1. CASE Reaches(bAddress)
    <3>1. faults' \in 0..MaxFaults
      BY <1>7, <2>1, TransferBounds DEF InitConf
    <3>2. retries' \in 0..3
      BY <1>7, <2>1, AttemptBounds DEF InitConf, ConfFound, ConfNext, Proceed, Bounds
    <3> QED BY <3>1, <3>2 DEF Bounds
  <2>2. CASE ~Reaches(bAddress)
    BY <1>7, <2>2, ReleaseBounds DEF InitConf
  <2> QED BY <2>1, <2>2
<1>8. CASE InitSetConf
  <2>1. CASE Transfer(bAddress, "ok") /\ Configured("RUNNING")
    BY <1>0, <2>1, TransferBounds DEF Configured, Bounds
  <2> QED BY <1>8, <2>1, ReleaseBounds DEF InitSetConf
<1>9. ASSUME NEW b \in {"SE0", "HOST", "SE1"}, BusChange(b) PROVE Bounds'
  BY <1>0, <1>9 DEF BusChange, Bounds
<1> QED BY <1>1, <1>2, <1>3, <1>4, <1>5, <1>6, <1>7, <1>8, <1>9 DEF Next, Host, Enumerate

LEMMA NumbersNext == DeviceInv /\ Numbers /\ [Next]_vars => Numbers'
<1> SUFFICES ASSUME DeviceInv, Numbers, [Next]_vars PROVE Numbers'
  OBVIOUS
<1>1. CASE InitConf /\ Reaches(bAddress)
  <2>1. dev.desc \in Devices /\ search.i \in DOMAIN dev.desc.confs /\ search.vendor \in BOOLEAN
    BY <1>1 DEF InitConf, Reaches, DeviceInv, PoolInv, Enumerates, SearchInv, Dev, Search, Addressed
  <2>2. PICK size \in BufSizes :
          LET parsed == Parsed[dev.desc][search.i][search.vendor][size]
          IN Xtract(parsed[Len(parsed)]) \/ \E k \in 1..Len(parsed) : Xtract(parsed[k])
    BY <1>1, Zenon DEF InitConf
  <2> DEFINE parsed == Parsed[dev.desc][search.i][search.vendor][size]
  <2>3. /\ Len(parsed) \in 1..Len(parsed)
        /\ \A k \in 1..Len(parsed) : parsed[k].epIn \in 0..15 /\ parsed[k].epOut \in 0..15
    BY <2>1, ParsedNumbers, Zenon
  <2>4. PICK k \in 1..Len(parsed) : Xtract(parsed[k])
    BY <2>2, <2>3, Zenon
  <2> HIDE DEF parsed
  <2> QED BY <2>3, <2>4, XtractNumbers
<1>2. CASE InitConf /\ ~Reaches(bAddress)
  BY <1>2 DEF InitConf, InitReleases, ReleaseDriver, Numbers
<1>3. CASE ReadIrq \/ ClearIrq \/ Task \/ UNCHANGED vars
  BY <1>3 DEF ReadIrq, ClearIrq, Task, TaskInitialize, TaskWait, TaskReset, TaskFrames,
     TaskConfigure, ReleaseDriver, driver, endpoints, vars, Numbers
<1>4. CASE GetDevDescr \/ DefaultAddressing \/ InitFirst \/ InitSetAddr \/ InitDescr \/ InitSetConf
  BY <1>4 DEF GetDevDescr, DefaultAddressing, InitFirst, InitSetAddr, InitDescr, InitSetConf,
     InitReleases, ReleaseDriver, driver, endpoints, Numbers
<1>5. ASSUME NEW b \in {"SE0", "HOST", "SE1"}, BusChange(b) PROVE Numbers'
  BY <1>5 DEF BusChange, driver, endpoints, Numbers
<1> QED BY <1>1, <1>2, <1>3, <1>4, <1>5 DEF Next, Host, Enumerate

LEMMA InitNumbers == Init => Numbers /\ Bounds
<1>1. 0 \in 0..15 /\ 0 \in 0..3 /\ 0 \in 0..MaxFaults
  BY TaskAssumption, SMT
<1> QED BY <1>1 DEF Init, Numbers, Bounds

TypesInv == DeviceInv /\ Numbers /\ Bounds

LEMMA TypeFacts == TypesInv => TypeOK
BY DEF TypesInv, DeviceInv, PoolInv, ControlTypes, SearchInv, Numbers, Bounds, TypeOK, Lines,
       PcPlace, DevAddress, Pool, Slot, Dev, Search

\* Every variable of the task has its type: no retry is one too many, the
\* search stays within the bytes that count configurations, and what the parser
\* writes through to the driver's endpoints is an endpoint number, whatever the
\* descriptors are and wherever a transfer ends (Usb.cpp:277-345,
\* usbh_midi.cpp:157-273, 555-670).
THEOREM TaskTypesHold == Spec => []TypeOK
<1>1. Init => TypesInv
  BY InitPool, InitSearch, InitNoticed, InitNumbers DEF DeviceInv, TypesInv
<1>2. TypesInv /\ [Next]_vars => TypesInv'
  BY DeviceNext, NumbersNext, BoundsNext DEF TypesInv
<1> QED BY <1>1, <1>2, TypeFacts, PTL DEF Spec
=============================================================================

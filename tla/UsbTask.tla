------------------------------ MODULE UsbTask ------------------------------
(***************************************************************************)
(* The USB host of the synthesizer: the interrupt handler of the MAX3421E  *)
(* (usbhost.cpp), the task that main calls on every round (Usb.cpp), the   *)
(* address pool (address.h) and the part of the MIDI driver that           *)
(* enumerates a device (usbh_midi.cpp).  One driver is registered and      *)
(* there is no hub, as in main.cpp.                                        *)
(*                                                                         *)
(* The host blocks while it enumerates, but the player does not: the plug  *)
(* can be pulled between any two transfers, and between the sampling of    *)
(* the bus and the clearing of the interrupt.  Full and low speed are one  *)
(* bus state, HOST.  The three delays of the task (200 ms, the reset, 20   *)
(* ms) are steps that may be taken at any later call.  Branches that no    *)
(* registered driver can reach are left out: DEVCLASSOK, ConfigureDevice   *)
(* and INIT_INCOMPLETE keep the defaults of UsbCore.h.                     *)
(*                                                                         *)
(* What a device is comes from its descriptors, which the driver reads in  *)
(* two searches and parses piece by piece (MidiDescParser).                *)
(***************************************************************************)
EXTENDS Integers, FiniteSets, SequencesExt

Parser == INSTANCE MidiDescParser

CONSTANTS
  Entries,        \* USB_NUMDEVICES - 1, the entries of thePool after entry 0
  Ports,          \* how the port may behave, see PortType
  Devices,        \* what may be plugged in, see DeviceType
  BufSizes,       \* 64, bufSize of getConfDescr
  MaxFaults       \* bound: transfers that fail although the device is there

\* slow: no plug change before the host serviced the last one;
\* illegal: the bus may show the illegal state SE1.
PortType == [slow : BOOLEAN, illegal : BOOLEAN]

\* An endpoint, an interface, a configuration, a device: it needs the looser
\* endpoint check of setupDeviceSpecific if it has a quirk, and
\* bNumConfigurations is a byte.
EndpointType == [num : 1..15, in : BOOLEAN, attr : 0..3]
InterfaceType == [midi : BOOLEAN, eps : Seq(EndpointType)]
DeviceType ==
  [quirk : BOOLEAN, confs : {q \in Seq(Seq(InterfaceType)) : Len(q) \in 1..255}]

ASSUME TaskAssumption ==
  /\ Entries \in Nat \ {0}
  /\ Ports \subseteq PortType /\ Ports # {}
  /\ Devices \subseteq DeviceType /\ Devices # {}
  /\ BufSizes \subseteq Nat \ {0} /\ BufSizes # {}
  /\ MaxFaults \in Nat

VARIABLES
  port,             \* the port of this behaviour, one of Ports
  bus,              \* what J and K show: "SE0", "HOST" or "SE1"
  dev,              \* the device: its address, its configuration, what it is
  condet,           \* CONDETIRQ
  vbusState, usb_task_state,
  pc,               \* where the host is
  retries,          \* of AttemptConfig
  bAddress, bPollEnable,   \* of the MIDI driver
  epIn, epOut,             \* epInfo[1].epAddr and epInfo[2].epAddr
  search,                  \* of the driver's Init: the step and i of its loop, bConfNum
  thePool,          \* devAddress and epinfo of the entries after entry 0
  faults            \* transfers to the device that failed since it was plugged in

environment == <<port, bus, dev, condet>>
endpoints == <<epIn, epOut, search>>
driver == <<bAddress, bPollEnable, endpoints, thePool>>
vars == <<port, bus, dev, condet, vbusState, usb_task_state, pc, retries,
          bAddress, bPollEnable, endpoints, thePool, faults>>

Entry == 1..Entries
Detached == {"INITIALIZE", "WAIT_FOR_DEVICE", "ILLEGAL"}
UsbState == Detached \cup {"SETTLE", "WAIT_RESET_COMPLETE", "WAIT_SOF",
                           "WAIT_RESET", "CONFIGURING", "RUNNING", "ERROR"}
Enumerating == {"descr", "default", "init", "setaddr", "idescr", "iconf", "setconf"}

\* i and bConfNum of the search, before it and at its start.
NoSearch == [vendor |-> FALSE, i |-> 1, conf |-> 0]

\* InitEntry
FreeEntry == [addr |-> 0, ep |-> "dev0"]

\* MAX3421e::Init has probed the bus and cleared the interrupt behind it, so
\* a fast plug may have moved in between.
Init ==
  /\ port \in Ports
  /\ bus \in {"SE0", "HOST"}
  /\ dev \in [addr : {0}, conf : {0}, desc : Devices]
  /\ condet = FALSE
  /\ vbusState \in {"SE0", "HOST"}
  /\ port.slow => vbusState = bus
  /\ usb_task_state = "INITIALIZE"
  /\ pc = "irq"
  /\ retries = 0
  /\ bAddress = 0 /\ bPollEnable = FALSE
  /\ epIn = 0 /\ epOut = 0 /\ search = NoSearch
  /\ thePool = [e \in Entry |-> FreeEntry]
  /\ faults = 0

-----------------------------------------------------------------------------
(***************************************************************************)
(* The device and its plug: external.                                      *)
(***************************************************************************)

\* The device after a bus reset or a power-up.
Default(d) == [addr |-> 0, conf |-> 0, desc |-> d.desc]

\* The controller flags a change from or to SE0 as connect or disconnect.
BusChange(b) ==
  /\ b # bus
  /\ b = "SE1" => port.illegal
  /\ port.slow => ~condet
  /\ bus' = b
  /\ condet' = (condet \/ "SE0" \in {bus, b})
  /\ IF b = "SE0"
       THEN /\ \E d \in Devices : dev' = [Default(dev) EXCEPT !.desc = d]
            /\ faults' = 0
       ELSE UNCHANGED <<dev, faults>>
  /\ UNCHANGED <<port, vbusState, usb_task_state, pc, retries, driver>>

(***************************************************************************)
(* Its configuration descriptors, byte by byte: a MIDI interface has       *)
(* class-specific descriptors of its own and longer endpoint descriptors.  *)
(***************************************************************************)
EndpointBytes(iface, e) ==
  LET basic == <<5, e.num + IF e.in THEN 128 ELSE 0, e.attr, 64, 0, 0>> IN
  IF iface.midi THEN <<9>> \o basic \o <<0, 0>> \o <<5, 37, 1, 1, 1>>
                ELSE <<7>> \o basic

InterfaceBytes(iface, n) ==
  <<9, 4, n - 1, 0, Len(iface.eps)>> \o
  (IF iface.midi THEN <<1, 3, 0, 0>> \o <<7, 36, 1, 0, 1, 7, 0>> ELSE <<255, 0, 0, 0>>) \o
  FlattenSeq([k \in 1..Len(iface.eps) |-> EndpointBytes(iface, iface.eps[k])])

\* Configuration i has the value i.
ConfBytes(d, i) ==
  LET ifaces == d.confs[i]
      rest == FlattenSeq([n \in 1..Len(ifaces) |-> InterfaceBytes(ifaces[n], n)])
  IN <<9, 2, 9 + Len(rest), 0, Len(ifaces), i, 0, 128, 50>> \o rest

BusReset == dev' = IF bus = "HOST" THEN Default(dev) ELSE dev

\* A device answers at its own address only.
Reaches(a) == bus = "HOST" /\ dev.addr = a

\* A control transfer to address a that ends in r; "jerr" is hrJERR.
Transfer(a, r) ==
  /\ r = "ok" => Reaches(a)
  /\ r # "ok" /\ Reaches(a) => faults < MaxFaults
  /\ faults' = IF r # "ok" /\ Reaches(a) THEN faults + 1 ELSE faults

Failure == {"jerr", "error"}

-----------------------------------------------------------------------------
(***************************************************************************)
(* MAX3421e::Task                                                          *)
(***************************************************************************)

\* IntHandler: busprobe if the connection changed.
ReadIrq ==
  /\ pc = "irq"
  /\ IF condet
       THEN vbusState' = bus /\ pc' = "clear"
       ELSE UNCHANGED vbusState /\ pc' = "task"
  /\ UNCHANGED <<environment, usb_task_state, retries, driver, faults>>

\* Writing the flag back clears it, whether or not the bus changed again.
ClearIrq ==
  /\ pc = "clear"
  /\ condet' = FALSE
  /\ pc' = "task"
  /\ UNCHANGED <<port, bus, dev, vbusState, usb_task_state, retries, driver, faults>>

-----------------------------------------------------------------------------
(***************************************************************************)
(* The address pool.                                                       *)
(***************************************************************************)

\* FindAddressIndex: the first entry with the address.
FirstWith(pool, e, a) ==
  /\ pool[e].addr = a
  /\ \A f \in Entry : f < e => pool[f].addr # a

\* AllocAddress for a device on the root port: always address 1.
Alloc(pool, e) == [pool EXCEPT ![e].addr = 1]

\* Mutant: freeing an address forgets it only in the driver.
FreeNothing(pool, a) == pool

FreeAddress(pool, a) ==
  [e \in Entry |-> IF FirstWith(pool, e, a) THEN FreeEntry ELSE pool[e]]

\* setEpInfoEntry
SetEpInfo(pool, a) ==
  [e \in Entry |-> IF FirstWith(pool, e, a) THEN [addr |-> a, ep |-> "midi"] ELSE pool[e]]

\* Mutant: the driver stays enabled after its device has gone.
ReleasePoolOnly ==
  /\ thePool' = FreeAddress(thePool, bAddress)
  /\ bAddress' = 0
  /\ search' = NoSearch
  /\ UNCHANGED bPollEnable

\* USBH_MIDI::Release, which leaves the endpoints alone.  The search is
\* over with the Init that calls it.
ReleaseAddress ==
  /\ thePool' = FreeAddress(thePool, bAddress)
  /\ bAddress' = 0
  /\ bPollEnable' = FALSE
  /\ search' = NoSearch

ReleaseDriver == ReleaseAddress /\ UNCHANGED <<epIn, epOut>>

-----------------------------------------------------------------------------
(***************************************************************************)
(* USB::Task                                                               *)
(***************************************************************************)

\* Mutant: a disconnect is only seen by a running host.
AfterVbusRunning ==
  CASE vbusState = "SE1" -> "ILLEGAL"
    [] vbusState = "SE0" /\ usb_task_state = "RUNNING" -> "INITIALIZE"
    [] vbusState = "HOST" /\ usb_task_state \in Detached -> "SETTLE"
    [] OTHER -> usb_task_state

\* The state that the switch over vbusState leaves for the second switch.
AfterVbus ==
  CASE vbusState = "SE1" -> "ILLEGAL"
    [] vbusState = "SE0" /\ usb_task_state \notin Detached -> "INITIALIZE"
    [] vbusState = "HOST" /\ usb_task_state \in Detached -> "SETTLE"
    [] OTHER -> usb_task_state

TaskInitialize ==
  /\ pc = "task"
  /\ AfterVbus = "INITIALIZE"
  /\ ReleaseDriver
  /\ usb_task_state' = "WAIT_FOR_DEVICE"
  /\ pc' = "irq"
  /\ UNCHANGED <<environment, vbusState, retries, faults>>

\* Nothing to do, or a delay, the reset or the first frame is not over.
TaskWait ==
  /\ pc = "task"
  /\ AfterVbus # "INITIALIZE"
  /\ usb_task_state' = AfterVbus
  /\ pc' = "irq"
  /\ UNCHANGED <<environment, vbusState, retries, driver, faults>>

\* The settle delay, set by an earlier call, is over.
TaskReset ==
  /\ pc = "task"
  /\ usb_task_state = "SETTLE" /\ AfterVbus = "SETTLE"
  /\ BusReset
  /\ usb_task_state' = "WAIT_RESET_COMPLETE"
  /\ pc' = "irq"
  /\ UNCHANGED <<port, bus, condet, vbusState, retries, driver, faults>>

TaskFrames ==
  /\ pc = "task"
  /\ \/ AfterVbus = "WAIT_RESET_COMPLETE" /\ usb_task_state' = "WAIT_SOF"
     \/ AfterVbus = "WAIT_SOF" /\ usb_task_state' = "WAIT_RESET"
  /\ pc' = "irq"
  /\ UNCHANGED <<environment, vbusState, retries, driver, faults>>

TaskConfigure ==
  /\ pc = "task"
  /\ AfterVbus = "WAIT_RESET"
  /\ usb_task_state' = "CONFIGURING"
  /\ pc' = "descr"
  /\ UNCHANGED <<environment, vbusState, retries, driver, faults>>

\* Configuring returns to the task.
Configured(state) ==
  /\ usb_task_state' = state
  /\ pc' = "irq"
  /\ retries' = 0

-----------------------------------------------------------------------------
(***************************************************************************)
(* USB::Configuring and USB::DefaultAddressing                             *)
(***************************************************************************)
GetDevDescr ==
  /\ pc = "descr"
  /\ \/ /\ Transfer(0, "ok")
        /\ pc' = IF bAddress = 0 THEN "init" ELSE "default"
        /\ UNCHANGED <<usb_task_state, retries>>
     \/ /\ \E r \in Failure : Transfer(0, r)
        /\ Configured("ERROR")
  /\ UNCHANGED <<environment, vbusState, driver>>

\* Every driver is consumed.
DefaultAddressing ==
  /\ pc = "default"
  /\ \/ /\ \A e \in Entry : thePool[e].addr # 0
        /\ Configured("ERROR")
        /\ UNCHANGED <<thePool, dev, faults>>
     \/ \E e \in Entry :
          /\ FirstWith(thePool, e, 0)
          /\ \/ /\ Transfer(0, "ok")
                /\ dev' = [dev EXCEPT !.addr = 1]
                /\ thePool' = Alloc(thePool, e)
                /\ Configured("RUNNING")
             \/ /\ \E r \in Failure : Transfer(0, r)
                /\ dev' \in {dev, [dev EXCEPT !.addr = IF Reaches(0) THEN 1 ELSE @]}
                /\ thePool' = FreeAddress(Alloc(thePool, e), 1)
                /\ Configured("ERROR")
  /\ UNCHANGED <<port, bus, condet, vbusState, bAddress, bPollEnable, endpoints>>

-----------------------------------------------------------------------------
(***************************************************************************)
(* USBH_MIDI::Init, called by USB::AttemptConfig                           *)
(***************************************************************************)

\* Mutant: one retry too many.
AttemptFailsLate(r, d) ==
  IF r = "jerr" /\ retries <= 3
    THEN /\ retries' = retries + 1 /\ pc' = "init"
         /\ dev' = d /\ UNCHANGED usb_task_state
    ELSE /\ dev' = IF bus = "HOST" THEN Default(d) ELSE d
         /\ Configured("ERROR")

\* Mutant: the retries are not counted.
AttemptFailsUncounted(r, d) ==
  IF r = "jerr" /\ retries < 3
    THEN /\ UNCHANGED retries /\ pc' = "init"
         /\ dev' = d /\ UNCHANGED usb_task_state
    ELSE /\ dev' = IF bus = "HOST" THEN Default(d) ELSE d
         /\ Configured("ERROR")

\* Init returned r to AttemptConfig; d is the device as Init leaves it.
AttemptFails(r, d) ==
  IF r = "jerr" /\ retries < 3
    THEN /\ retries' = retries + 1 /\ pc' = "init"
         /\ dev' = d /\ UNCHANGED usb_task_state
    ELSE /\ dev' = IF bus = "HOST" THEN Default(d) ELSE d
         /\ Configured("ERROR")

Proceed(to) == pc' = to /\ UNCHANGED <<usb_task_state, retries>>

\* First descriptor, then the address is allocated.
InitFirst ==
  /\ pc = "init"
  /\ \/ /\ Transfer(0, "ok")
        /\ \/ \E e \in Entry :
                /\ FirstWith(thePool, e, 0)
                /\ thePool' = Alloc(thePool, e)
                /\ bAddress' = 1
                /\ Proceed("setaddr")
                /\ UNCHANGED <<bPollEnable, endpoints, dev>>
           \/ /\ \A e \in Entry : thePool[e].addr # 0
              /\ AttemptFails("error", dev)
              /\ UNCHANGED driver
     \/ \E r \in Failure :
          /\ Transfer(0, r)
          /\ ReleaseDriver
          /\ AttemptFails(r, dev)
  /\ UNCHANGED <<port, bus, condet, vbusState>>

\* A device may take the address although the host sees the transfer fail.
InitSetAddr ==
  /\ pc = "setaddr"
  /\ \/ /\ Transfer(0, "ok")
        /\ dev' = [dev EXCEPT !.addr = bAddress]
        /\ Proceed("idescr")
        /\ UNCHANGED driver
     \/ \E r \in Failure : \E d \in {dev, [dev EXCEPT !.addr = IF Reaches(0) THEN 1 ELSE @]} :
          /\ Transfer(0, r)
          /\ thePool' = FreeAddress(thePool, bAddress)
          /\ bAddress' = 0
          /\ UNCHANGED <<bPollEnable, endpoints>>
          /\ AttemptFails(r, d)
  /\ UNCHANGED <<port, bus, condet, vbusState>>

\* A failure after the address was assigned.
InitReleases(r, d) ==
  /\ Transfer(bAddress, r)
  /\ ReleaseDriver
  /\ AttemptFails(r, d)

InitDescr ==
  /\ pc = "idescr"
  /\ \/ /\ Transfer(bAddress, "ok")
        /\ thePool' = SetEpInfo(thePool, bAddress)
        /\ Proceed("iconf")
        /\ UNCHANGED <<dev, bAddress, bPollEnable, endpoints>>
     \/ \E r \in Failure : InitReleases(r, dev)
  /\ UNCHANGED <<port, bus, condet, vbusState>>

\* What the parser has found when a transfer ends, by device, configuration,
\* step of the search and size of the pieces: one record for each number of
\* pieces that came.  Endpoint 0 stands for one that was not written.
Parsed ==
  [d \in Devices |-> [i \in DOMAIN d.confs |-> [vendor \in BOOLEAN |-> [size \in BufSizes |->
     LET pieces == Parser!Pieces(ConfBytes(d, i), size)
         new == Parser!NewParser(~vendor, IF d.quirk THEN 2 ELSE 3, 0, 0)
     IN [k \in 1..(Len(pieces) + 1) |-> Parser!ParseAll(new, SubSeq(pieces, 1, k - 1))]]]]]

\* EndpointXtract writes through to epInfo.
Xtract(s) ==
  /\ epIn' = IF s.epIn = 0 THEN epIn ELSE s.epIn
  /\ epOut' = IF s.epOut = 0 THEN epOut ELSE s.epOut

\* The device found: setEpInfoEntry gets all three endpoints.
ConfFound(s) ==
  /\ thePool' = SetEpInfo(thePool, bAddress)
  /\ search' = [search EXCEPT !.conf = s.confValue]
  /\ Proceed("setconf")
  /\ UNCHANGED <<dev, bAddress, bPollEnable>>

\* The next configuration, or the first one again for any kind of device.
ConfNext(last) ==
  /\ search' = IF last THEN [NoSearch EXCEPT !.vendor = TRUE]
                       ELSE [search EXCEPT !.i = @ + 1]
  /\ Proceed("iconf")
  /\ UNCHANGED <<dev, bAddress, bPollEnable, thePool>>

\* One configuration descriptor of the search, read in pieces of bufSize
\* bytes.  The transfer may fail behind any piece; what the parser has put
\* into epInfo until then stays there, also over the release.
InitConf ==
  /\ pc = "iconf"
  /\ \/ /\ Reaches(bAddress)
        /\ \E size \in BufSizes :
             LET parsed == Parsed[dev.desc][search.i][search.vendor][size]
                 s == parsed[Len(parsed)]
                 last == search.i = Len(dev.desc.confs) IN
             \/ /\ Transfer(bAddress, "ok")
                /\ Xtract(s)
                /\ \/ s.nEPs > 0 /\ ConfFound(s)
                   \/ s.nEPs = 0 /\ ~(last /\ search.vendor) /\ ConfNext(last)
                   \/ /\ s.nEPs = 0 /\ last /\ search.vendor
                      /\ ReleaseAddress
                      /\ AttemptFails("error", dev)
             \/ \E r \in Failure, k \in 1..Len(parsed) :
                  /\ Transfer(bAddress, r)
                  /\ Xtract(parsed[k])
                  /\ ReleaseAddress
                  /\ AttemptFails(r, dev)
     \/ /\ ~Reaches(bAddress)
        /\ \E r \in Failure : InitReleases(r, dev)
  /\ UNCHANGED <<port, bus, condet, vbusState>>

InitSetConf ==
  /\ pc = "setconf"
  /\ \/ /\ Transfer(bAddress, "ok")
        /\ dev' = [dev EXCEPT !.conf = search.conf]
        /\ bPollEnable' = TRUE
        /\ search' = NoSearch
        /\ Configured("RUNNING")
        /\ UNCHANGED <<bAddress, epIn, epOut, thePool>>
     \/ \E r \in Failure :
          \E d \in {dev, [dev EXCEPT !.conf = IF Reaches(bAddress) THEN search.conf ELSE @]} :
            InitReleases(r, d)
  /\ UNCHANGED <<port, bus, condet, vbusState>>

-----------------------------------------------------------------------------
Task == TaskInitialize \/ TaskWait \/ TaskReset \/ TaskFrames \/ TaskConfigure

Enumerate ==
  \/ GetDevDescr \/ DefaultAddressing
  \/ InitFirst \/ InitSetAddr \/ InitDescr \/ InitConf \/ InitSetConf

Host == ReadIrq \/ ClearIrq \/ Task \/ Enumerate

Next == Host \/ \E b \in {"SE0", "HOST", "SE1"} : BusChange(b)

Spec == Init /\ [][Next]_vars

(***************************************************************************)
(* The processor runs the host, delays and resets end, and frames come.    *)
(***************************************************************************)
FairSpec ==
  /\ Spec
  /\ WF_vars(Host)
  /\ SF_vars(TaskReset) /\ SF_vars(TaskFrames) /\ SF_vars(TaskConfigure)

-----------------------------------------------------------------------------
TypeOK ==
  /\ port \in PortType
  /\ bus \in {"SE0", "HOST", "SE1"}
  /\ dev \in [addr : {0, 1}, conf : 0..255, desc : Devices]
  /\ epIn \in 0..15 /\ epOut \in 0..15
  /\ search \in [vendor : BOOLEAN, i : 1..255, conf : 0..255]
  /\ condet \in BOOLEAN
  /\ vbusState \in {"SE0", "HOST", "SE1"}
  /\ usb_task_state \in UsbState
  /\ pc \in {"irq", "clear", "task"} \cup Enumerating
  /\ retries \in 0..3
  /\ bAddress \in {0, 1}
  /\ bPollEnable \in BOOLEAN
  /\ thePool \in [Entry -> [addr : {0, 1}, ep : {"dev0", "midi"}]]
  /\ faults \in 0..MaxFaults

\* The pool holds exactly the address of the driver, and an enabled driver
\* owns its endpoints: no entry leaks, whatever step of an enumeration fails
\* or is interrupted (address.h:142-271, usbh_midi.cpp:157-273).  (The illegal
\* state hides a following disconnect from the task if the plug is fast.)
PoolMatchesDriver ==
  port.slow \/ ~port.illegal =>
    LET taken == {e \in Entry : thePool[e].addr # 0} IN
    /\ Cardinality(taken) = bAddress
    /\ \A e \in taken : bPollEnable => thePool[e].ep = "midi"

\* The device is there and configured by the driver.
Served == Reaches(bAddress) /\ dev.conf # 0

\* With slow hands on the plug, an enabled driver serves the device that is
\* plugged in, or the host is about to find out that it does not: the
\* interrupt is pending, or the task is about to release the driver
\* (usbhost.cpp:279-294, Usb.cpp:469-505).
StaleIsNoticed ==
  port.slow /\ bPollEnable =>
    \/ Served \/ bus = "SE1" \/ condet
    \/ pc = "task" /\ vbusState = "SE0"

\* A driver whose device has gone is released, and the pool is empty.
CleanedUp == ~bPollEnable /\ \A e \in Entry : thePool[e] = FreeEntry

\* "Performs enumeration/cleanup" (Usb.cpp:454), the cleanup, for a device
\* that has gone for good.
CleansUp == <>[](bus = "SE0") => <>[]CleanedUp

\* The same, with slow hands on the plug.
UnpluggedIsReleased == <>[](port.slow /\ bus = "SE0") => <>[]CleanedUp

\* The endpoints of a device that the driver may use, each with its
\* configuration: the bulk endpoints of its MIDI streaming interfaces or, if
\* it has none, any bulk endpoints.
Fits(d, e) == e.attr = 2 \/ (d.quirk /\ e.attr = 3)

EndpointsOf(d, ifaces, c) ==
  {<<c, e>> : e \in {x \in UNION {ToSet(f.eps) : f \in ifaces} : Fits(d, x)}}

Usable(d) ==
  LET all == UNION {EndpointsOf(d, ToSet(d.confs[c]), c) : c \in DOMAIN d.confs}
      midi == UNION {EndpointsOf(d, {f \in ToSet(d.confs[c]) : f.midi}, c)
                       : c \in DOMAIN d.confs}
  IN IF midi # {} THEN midi ELSE all

\* An enabled driver polls an IN endpoint of the device that is plugged in,
\* of the MIDI interface if it has one, in the configuration it has selected;
\* and sends to such an OUT endpoint.  The endpoints survive the device they
\* were read from, failed enumerations, interfaces that were passed over and
\* the first of the two searches (usbh_midi.cpp:213-252, 555-670), and
\* descriptors come in pieces cut anywhere.
SpeaksToItsDevice ==
  bPollEnable /\ Served =>
    LET mine == {u[2] : u \in {v \in Usable(dev.desc) : v[1] = dev.conf}} IN
    /\ mine # {}
    /\ (\E e \in mine : e.in) => \E e \in mine : e.in /\ e.num = epIn
    /\ (\E e \in mine : ~e.in) => \E e \in mine : ~e.in /\ e.num = epOut

\* The endpoints that a search may take from configuration c: those of the MIDI
\* streaming interfaces first, and then of all.
Offers(d, c, vendor) ==
  {u[2] : u \in EndpointsOf(d, {f \in ToSet(d.confs[c]) : vendor \/ f.midi}, c)}

\* What SpeaksToItsDevice asks of the parser: of each descriptor of d, in pieces
\* of any of the sizes, it reports endpoints exactly if the search may take some,
\* and then the configuration's value and one endpoint of each direction.
RightAbout(d) ==
  \A c \in DOMAIN d.confs, vendor \in BOOLEAN, size \in BufSizes :
    LET parsed == Parsed[d][c][vendor][size]
        s == parsed[Len(parsed)]
        offers == Offers(d, c, vendor) IN
    /\ s.nEPs > 0 <=> offers # {}
    /\ s.nEPs > 0 =>
         /\ s.confValue = c
         /\ (\E e \in offers : e.in) => \E e \in offers : e.in /\ e.num = s.epIn
         /\ (\E e \in offers : ~e.in) => \E e \in offers : ~e.in /\ e.num = s.epOut

\* The endpoints of interface f that fit, and those of one direction; the
\* interfaces of configuration c that a search takes.
Fitting(d, f) == {k \in DOMAIN f.eps : Fits(d, f.eps[k])}
Heads(d, f, in) == {k \in Fitting(d, f) : f.eps[k].in = in}
Searched(d, c, vendor) == {n \in DOMAIN d.confs[c] : vendor \/ d.confs[c][n].midi}

\* The devices that the parser is made for.  It counts to two and begins to
\* count again with every interface it takes (usbh_midi.cpp:634-645): so none
\* of them has two endpoints of one direction, and either one has both
\* directions or the last one has endpoints if any has.
Regular(d) ==
  \A c \in DOMAIN d.confs, vendor \in BOOLEAN :
    LET searched == Searched(d, c, vendor)
        f(n) == d.confs[c][n] IN
    /\ \A n \in searched, in \in BOOLEAN : \A k, l \in Heads(d, f(n), in) : k = l
    /\ \/ \E n \in searched : \A in \in BOOLEAN : Heads(d, f(n), in) # {}
       \/ \A n \in searched :
            (\A m \in searched : m <= n) /\ Fitting(d, f(n)) = {} =>
              \A m \in searched : Fitting(d, f(m)) = {}

RegularDevices == \A d \in Devices : Regular(d)

\* The parser finds what it should in the descriptors of the device that is
\* plugged in, cut anywhere, whatever the sizes of the bodies it skips
\* (MidiDescParser::ParseDescriptor, usbh_midi.cpp:578-655).
DescriptorsAreRead == RightAbout(dev.desc)

\* The task returns to main, however the plug is played with and whatever
\* the transfers to a missing device end in: the notes of the main loop are
\* never held up by an endless enumeration (Usb.cpp:601-640).
TaskReturns == []<>(pc = "irq")
=============================================================================

------------------------------ MODULE UsbCore ------------------------------
(***************************************************************************)
(* How the USB interrupt, the USB task and the device manager share one    *)
(* interrupt line and one power state: mcu/usb/lib/isr/usb_isr.c,          *)
(* task/usb_task.c, dm/usb_dm.c, and what composite/usb_composite_dev.c    *)
(* does to the power state.  The interrupt masks itself, posts what        *)
(* happened to the USB task and counts it; the task unmasks the interrupt  *)
(* when the count is back to zero.                                         *)
(***************************************************************************)
EXTENDS Naturals, Sequences, FiniteSets

CONSTANTS QueueLen,          \* capacity of the USB task queue (0x20)
          EventsPerIrq,      \* hooks a HAL interrupt may call between enter and exit
          MaxHw,             \* bound: events latched by the controller
          MaxPosts,          \* bound: start and stop requests queued at a time
          RestartWhileBusy,  \* usb_dm_start may follow a stop not yet handled
          SlowIrq,           \* an interrupt may come later than a resume of 20 ms
          ExitMayFail        \* hal_usb_suspend_exit may return an error

ASSUME LimitsAssumption == /\ QueueLen \in Nat \ {0}
                           /\ EventsPerIrq \in Nat \ {0}
                           /\ MaxHw \in Nat /\ MaxPosts \in Nat
                           /\ RestartWhileBusy \in BOOLEAN /\ SlowIrq \in BOOLEAN /\ ExitMayFail \in BOOLEAN

\* The control requests that differ for the device manager.
Pkts == {"SET_ADDRESS", "SET_CONFIGURATION", "other"}
NoPkt == "-"
\* XFER_DONE also stands for RESET and IN_NAK: counted, without effect here.
HalTypes == {"SPEED_ENUM_DONE", "SETUP", "SUSPEND", "RESUME", "XFER_DONE"}
DmTypes == {"START", "STOP"}
PwrStates == {"PDN", "POWERED", "DEFAULT", "ADDRESSED", "CONFIGURED", "SUSPENDED"}
Msg(type, pkt) == [type |-> type, pkt |-> pkt]
Msgs == [type : HalTypes \cup DmTypes, pkt : Pkts \cup {NoPkt}]
HalMsgs == [type : HalTypes, pkt : Pkts \cup {NoPkt}]
Width == 256                 \* usb_isr_pending is a uint8_t

VARIABLES queue,      \* usb_task_msg_queue
          pending,    \* usb_isr_pending
          nvic,       \* USB_IP_IRQn is enabled
          setup_pkt,  \* the one static packet buffer
          ipc,        \* the interrupt: "out", or running between enter and exit
          taken,      \* hooks called in this interrupt
          tpc, tmsg, tmp,  \* the task: where it is, its message, pending as loaded
          pwr,        \* usb_pwr_state
          before,     \* usb_pwr_state_before_suspend
          phy,        \* "off", "on", "suspended"
          attached,   \* soft-attached, global and suspendn interrupts enabled
          asleep,     \* low power mode, USB interrupts disabled by the store hook
          bus,        \* what the host does: "active", "suspended"
          hwEv,       \* latched events, oldest first
          ifs         \* the endpoints of the interfaces are enabled

isr  == <<ipc, taken>>
task == <<tpc, tmsg, tmp>>
dm   == <<pwr, before, phy, attached, asleep>>
host == <<bus, hwEv>>
vars == <<queue, pending, nvic, setup_pkt, ipc, taken, tpc, tmsg, tmp, pwr, before,
          phy, attached, asleep, bus, hwEv, ifs>>

TypeOK ==
    /\ queue \in Seq(Msgs)
    /\ pending \in 0..(Width - 1)
    /\ nvic \in BOOLEAN
    /\ setup_pkt \in Pkts \cup {NoPkt}
    /\ ipc \in {"out", "in"} /\ taken \in Nat
    /\ tpc \in {"wait", "dm", "hal", "dec", "store", "enable", "decPdn", "storePdn"}
    /\ tmsg \in Msgs /\ tmp \in 0..(Width - 1)
    /\ pwr \in PwrStates /\ before \in PwrStates
    /\ phy \in {"off", "on", "suspended"}
    /\ attached \in BOOLEAN /\ asleep \in BOOLEAN
    /\ bus \in {"active", "suspended"}
    /\ hwEv \in Seq(HalMsgs)
    /\ ifs \in BOOLEAN

Init ==
    /\ queue = <<>> /\ pending = 0 /\ nvic = FALSE /\ setup_pkt = NoPkt
    /\ ipc = "out" /\ taken = 0
    /\ tpc = "wait" /\ tmsg = Msg("STOP", NoPkt) /\ tmp = 0
    /\ pwr = "PDN" /\ before = "POWERED" /\ phy = "off"
    /\ attached = FALSE /\ asleep = FALSE
    /\ bus = "active" /\ hwEv = <<>>
    /\ ifs = FALSE

\* os_msg_send(.., 0): a full queue loses the message and nobody looks.
Post(m) == queue' = IF Len(queue) < QueueLen THEN Append(queue, m) ELSE queue
\* how many messages of some types a sequence holds
CountOf(s, types) == Cardinality({i \in DOMAIN s : s[i].type \in types})
Runs == ipc = "out" /\ ~asleep

-----------------------------------------------------------------------------
(* Variants of the operations below with a plausible bug each.  They are no *)
(* part of the specification: they document which mistake each property     *)
(* would reveal.                                                            *)

\* the interrupt does not mask itself
IsrEnter_NotMasked ==
    /\ Runs /\ nvic /\ attached /\ hwEv # <<>>
    /\ ipc' = "in" /\ taken' = 0
    /\ UNCHANGED <<queue, pending, nvic, setup_pkt, task, dm, host, ifs>>

\* the exit hook unmasks whatever is unhandled
IsrExit_Always ==
    /\ ipc = "in" /\ taken > 0
    /\ ipc' = "out" /\ taken' = 0
    /\ nvic' = TRUE
    /\ UNCHANGED <<queue, pending, setup_pkt, task, dm, host, ifs>>

\* the exit hook leaves unmasking to the task
IsrExit_Never ==
    /\ ipc = "in" /\ taken > 0
    /\ ipc' = "out" /\ taken' = 0
    /\ UNCHANGED <<queue, pending, nvic, setup_pkt, task, dm, host, ifs>>

\* the interrupt puts the PHY to sleep, as in the example of hal_usb.h, and no more
SuspendEnter_PhyOnly == phy' = "suspended" /\ UNCHANGED <<pwr, before, attached, asleep>>

\* suspend_exit restores the state and forgets the PHY
SuspendExit_StateOnly ==
    /\ pwr' = IF pwr = "SUSPENDED" THEN before ELSE pwr
    /\ UNCHANGED <<phy, hwEv>>

\* suspend_exit wakes the PHY and leaves the state to the handler of RESUME
SuspendExit_PhyOnly ==
    IF pwr = "SUSPENDED"
    THEN phy' = "on" /\ hwEv' = Append(hwEv, Msg("RESUME", NoPkt)) /\ UNCHANGED pwr
    ELSE UNCHANGED <<pwr, phy, hwEv>>

\* the driver does not get RESUME
HalDispatch_NoResume ==
    /\ Runs /\ tpc = "hal" /\ pwr # "PDN"
    /\ tpc' = "dec"
    /\ pwr' = CASE tmsg.type = "SPEED_ENUM_DONE" -> "DEFAULT"
                [] tmsg.type = "SETUP" /\ setup_pkt = "SET_ADDRESS" -> "ADDRESSED"
                [] tmsg.type = "SETUP" /\ setup_pkt = "SET_CONFIGURATION" -> "CONFIGURED"
                [] OTHER -> pwr
    /\ ifs' = CASE tmsg.type = "SETUP" /\ setup_pkt = "SET_CONFIGURATION" -> TRUE
                [] tmsg.type = "SUSPEND" -> FALSE
                [] OTHER -> ifs
    /\ UNCHANGED <<queue, pending, nvic, setup_pkt, isr, tmsg, tmp, before, phy,
                   attached, asleep, host>>

\* a message dropped after power down is not counted off
HalPdn_NotCounted ==
    /\ Runs /\ tpc = "hal" /\ pwr = "PDN"
    /\ tpc' = "wait"
    /\ UNCHANGED <<queue, pending, nvic, setup_pkt, isr, tmsg, tmp, dm, host, ifs>>

\* off by one: the last message leaves the interrupt masked
Enable_AtOne ==
    /\ Runs /\ tpc = "enable"
    /\ nvic' = (nvic \/ pending = 1)
    /\ tpc' = "wait"
    /\ UNCHANGED <<queue, pending, setup_pkt, isr, tmsg, tmp, dm, host, ifs>>

-----------------------------------------------------------------------------
(* The application: usb_dm_start and usb_dm_stop only post *)

PostStart ==
    /\ Runs /\ CountOf(queue, DmTypes) < MaxPosts
    /\ RestartWhileBusy \/ (pwr = "PDN" /\ queue = <<>> /\ tpc = "wait")
    /\ Post(Msg("START", NoPkt))
    /\ UNCHANGED <<pending, nvic, setup_pkt, isr, task, dm, host, ifs>>

PostStop ==
    /\ Runs /\ CountOf(queue, DmTypes) < MaxPosts
    /\ Post(Msg("STOP", NoPkt))
    /\ UNCHANGED <<pending, nvic, setup_pkt, isr, task, dm, host, ifs>>

-----------------------------------------------------------------------------
(* The common interrupt: usb_common_isr_enter, _handler, _exit *)

IsrEnter ==
    /\ Runs /\ nvic /\ attached /\ hwEv # <<>>
    /\ ipc' = "in" /\ taken' = 0
    /\ nvic' = FALSE
    /\ UNCHANGED <<queue, pending, setup_pkt, task, dm, host, ifs>>

\* usb_dm_suspend_enter, called by the hook itself
SuspendEnter ==
    /\ phy' = "suspended"
    /\ before' = pwr
    /\ pwr' = "SUSPENDED"
    /\ UNCHANGED <<attached, asleep>>

\* One hook call.  A finished transfer nobody waits for is not posted.
IsrEvent ==
    LET e == Head(hwEv) IN
    /\ ipc = "in" /\ taken < EventsPerIrq /\ hwEv # <<>>
    /\ hwEv' = Tail(hwEv)
    /\ taken' = taken + 1
    /\ setup_pkt' = IF e.type = "SETUP" THEN e.pkt ELSE setup_pkt
    /\ IF e.type = "SUSPEND" THEN SuspendEnter ELSE UNCHANGED dm
    /\ \/ Post(e) /\ pending' = (pending + 1) % Width
       \/ e.type = "XFER_DONE" /\ UNCHANGED <<queue, pending>>
    /\ UNCHANGED <<nvic, ipc, task, bus, ifs>>

IsrExit ==
    /\ ipc = "in" /\ taken > 0
    /\ ipc' = "out" /\ taken' = 0
    /\ nvic' = (nvic \/ pending = 0)
    /\ UNCHANGED <<queue, pending, setup_pkt, task, dm, host, ifs>>

-----------------------------------------------------------------------------
(* Leaving suspend: usb_dm_suspend_exit under os_lock *)

SuspendExit ==
    IF pwr = "SUSPENDED"
    THEN \/ /\ pwr' = before /\ phy' = "on"
            /\ hwEv' = Append(hwEv, Msg("RESUME", NoPkt))
         \/ /\ ExitMayFail
            /\ pwr' = "PDN"
            /\ UNCHANGED <<phy, hwEv>>
    ELSE UNCHANGED <<pwr, phy, hwEv>>

\* usb_suspendn_isr_handler: the host drives the bus while the PHY sleeps.
SuspendnIsr ==
    /\ Runs /\ attached /\ phy = "suspended" /\ bus = "active"
    /\ SuspendExit
    /\ UNCHANGED <<queue, pending, nvic, setup_pkt, isr, task, before, attached,
                   asleep, bus, ifs>>

\* usb_composite_dev_remote_wakeup, in a task of the application; the bus is
\* only woken if the host has allowed it.
RemoteWakeup(allowed) ==
    /\ Runs /\ pwr = "SUSPENDED"
    /\ SuspendExit
    /\ bus' = IF allowed THEN "active" ELSE bus
    /\ UNCHANGED <<queue, pending, nvic, setup_pkt, isr, task, before, attached,
                   asleep, ifs>>

\* Low power mode is entered from the idle task when usb_dm_lpm_check agrees; the
\* store hook disables the USB interrupts, the restore hook enables them.
LpmStore ==
    /\ Runs /\ queue = <<>> /\ tpc = "wait" /\ pwr = "SUSPENDED"
    /\ asleep' = TRUE /\ nvic' = FALSE
    /\ UNCHANGED <<queue, pending, setup_pkt, isr, task, pwr, before, phy, attached,
                   host, ifs>>

LpmRestore ==
    /\ asleep
    /\ asleep' = FALSE /\ nvic' = TRUE
    /\ UNCHANGED <<queue, pending, setup_pkt, isr, task, pwr, before, phy, attached,
                   host, ifs>>

-----------------------------------------------------------------------------
(* The task: usb_task, usb_task_msg_handle *)

Recv ==
    /\ Runs /\ tpc = "wait" /\ queue # <<>>
    /\ tmsg' = Head(queue) /\ queue' = Tail(queue)
    /\ tpc' = IF Head(queue).type \in DmTypes THEN "dm" ELSE "hal"
    /\ UNCHANGED <<pending, nvic, setup_pkt, isr, tmp, dm, host, ifs>>

\* START: ignored if the charger detection refuses the port (or already started).
DmStart(accepted) ==
    /\ Runs /\ tpc = "dm" /\ tmsg.type = "START"
    /\ tpc' = "wait"
    /\ IF accepted /\ pwr = "PDN"
       THEN /\ pwr' = "POWERED" /\ phy' = "on" /\ attached' = TRUE
            /\ nvic' = TRUE /\ hwEv' = <<>>
       ELSE UNCHANGED <<pwr, phy, attached, nvic, hwEv>>
    /\ UNCHANGED <<queue, pending, setup_pkt, isr, tmsg, tmp, before, asleep, bus,
                   ifs>>

DmStop ==
    /\ Runs /\ tpc = "dm" /\ tmsg.type = "STOP"
    /\ tpc' = "wait"
    /\ IF pwr # "PDN"
       THEN /\ pwr' = "PDN" /\ before' = "PDN" /\ phy' = "off" /\ attached' = FALSE
            /\ nvic' = FALSE /\ hwEv' = <<>>
       ELSE UNCHANGED <<pwr, before, phy, attached, nvic, hwEv>>
    /\ UNCHANGED <<queue, pending, setup_pkt, isr, tmsg, tmp, asleep, bus, ifs>>

\* usb_isr_msg_handle: what the device driver makes of the message.  The packet is
\* read from the static buffer.  SET_CONFIGURATION(0) acts like SET_ADDRESS.
HalDispatch ==
    /\ Runs /\ tpc = "hal" /\ pwr # "PDN"
    /\ tpc' = "dec"
    /\ pwr' = CASE tmsg.type = "SPEED_ENUM_DONE" -> "DEFAULT"
                [] tmsg.type = "SETUP" /\ setup_pkt = "SET_ADDRESS" -> "ADDRESSED"
                [] tmsg.type = "SETUP" /\ setup_pkt = "SET_CONFIGURATION" -> "CONFIGURED"
                [] OTHER -> pwr
    /\ ifs' = CASE tmsg.type = "SETUP" /\ setup_pkt = "SET_CONFIGURATION" -> TRUE
                [] tmsg.type = "SUSPEND" -> FALSE
                [] tmsg.type = "RESUME" -> TRUE
                [] OTHER -> ifs
    /\ UNCHANGED <<queue, pending, nvic, setup_pkt, isr, tmsg, tmp, before, phy,
                   attached, asleep, host>>

\* Powered down meanwhile: the message is only counted off.
HalPdn ==
    /\ Runs /\ tpc = "hal" /\ pwr = "PDN"
    /\ tpc' = "decPdn"
    /\ UNCHANGED <<queue, pending, nvic, setup_pkt, isr, tmsg, tmp, dm, host, ifs>>

\* usb_isr_pending--, a load and a store that an interrupt may come between.
Load ==
    /\ Runs /\ tpc \in {"dec", "decPdn"}
    /\ tmp' = pending
    /\ tpc' = IF tpc = "dec" THEN "store" ELSE "storePdn"
    /\ UNCHANGED <<queue, pending, nvic, setup_pkt, isr, tmsg, dm, host, ifs>>

Store ==
    /\ Runs /\ tpc \in {"store", "storePdn"}
    /\ pending' = (tmp + Width - 1) % Width
    /\ tpc' = IF tpc = "store" THEN "enable" ELSE "wait"
    /\ UNCHANGED <<queue, nvic, setup_pkt, isr, tmsg, tmp, dm, host, ifs>>

Enable ==
    /\ Runs /\ tpc = "enable"
    /\ nvic' = (nvic \/ pending = 0)
    /\ tpc' = "wait"
    /\ UNCHANGED <<queue, pending, setup_pkt, isr, tmsg, tmp, dm, host, ifs>>

-----------------------------------------------------------------------------
(* The host and the controller: events are latched until the interrupt *)

Latch(m) == /\ attached /\ phy = "on" /\ ipc = "out" /\ Len(hwEv) < MaxHw
            /\ hwEv' = Append(hwEv, m)

NoneLatched(type) == \A i \in DOMAIN hwEv : hwEv[i].type # type

\* One control transfer at a time: no new SETUP before the last one was taken.  A
\* host that resumes the bus does so for 20 ms before it sends again.
HostEvent ==
    /\ bus = "active"
    /\ SlowIrq \/ NoneLatched("SUSPEND")
    /\ \/ NoneLatched("SETUP") /\ \E p \in Pkts : Latch(Msg("SETUP", p))
       \/ NoneLatched("SPEED_ENUM_DONE") /\ Latch(Msg("SPEED_ENUM_DONE", NoPkt))
       \/ NoneLatched("XFER_DONE") /\ Latch(Msg("XFER_DONE", NoPkt))
    /\ UNCHANGED <<queue, pending, nvic, setup_pkt, isr, task, dm, bus, ifs>>

HostSuspend ==
    /\ bus = "active" /\ ipc = "out" /\ attached
    /\ bus' = "suspended"
    /\ UNCHANGED <<queue, pending, nvic, setup_pkt, isr, task, dm, hwEv, ifs>>

HostResume ==
    /\ bus = "suspended" /\ ipc = "out"
    /\ bus' = "active"
    /\ UNCHANGED <<queue, pending, nvic, setup_pkt, isr, task, dm, hwEv, ifs>>

\* 3 ms of idle bus
SeeSuspend ==
    /\ bus = "suspended" /\ NoneLatched("SUSPEND") /\ Latch(Msg("SUSPEND", NoPkt))
    /\ UNCHANGED <<queue, pending, nvic, setup_pkt, isr, task, dm, bus, ifs>>

TaskStep == Recv \/ (\E accepted \in BOOLEAN : DmStart(accepted)) \/ DmStop
            \/ HalDispatch \/ HalPdn \/ Load \/ Store \/ Enable
IsrStep == IsrEvent \/ IsrExit
Next ==
    \/ PostStart \/ PostStop
    \/ IsrEnter \/ IsrStep
    \/ SuspendnIsr \/ (\E allowed \in BOOLEAN : RemoteWakeup(allowed))
    \/ LpmStore \/ LpmRestore
    \/ TaskStep
    \/ HostEvent \/ HostSuspend \/ HostResume \/ SeeSuspend

Spec == Init /\ [][Next]_vars

-----------------------------------------------------------------------------
(* Properties *)

InHand == IF tpc \in {"hal", "dec", "store", "decPdn", "storePdn"} THEN 1 ELSE 0

\* usb_isr_pending is the number of interrupt messages the task has not finished:
\* no decrement is lost between its load and its store, none is made twice.
PendingCounts == pending = CountOf(queue, HalTypes) + InHand

\* The USB interrupt stays masked while a message of an earlier one is unhandled
\* (hal_usb.h:71-77): the count is not touched by two at once, and the one packet
\* buffer is not overwritten.
MaskedWhilePending == ipc = "out" /\ pending > 0 => ~nvic

\* The driver reads from the shared buffer the packet that its message announced.
SetupIntact == tpc = "hal" /\ tmsg.type = "SETUP" => setup_pkt = tmsg.pkt

\* With nothing left to do, an attached device listens: no order of decrements,
\* start, stop and sleep leaves the interrupt masked for good.
NotDeaf == attached /\ ~asleep /\ ipc = "out" /\ queue = <<>> /\ tpc = "wait" => nvic

\* The power state knows whether the PHY sleeps: suspend_exit wakes it only if
\* the state is SUSPENDED, so a state overwritten meanwhile loses the PHY.  A PHY
\* that failed to wake is reported as powered down.
SuspendTracked == /\ pwr = "SUSPENDED" => phy = "suspended"
                  /\ phy = "suspended" => pwr \in {"SUSPENDED", "PDN"}

\* The state to return to is saved whatever it is (usb_dm.c:175).  Between two
\* suspends there is always a finished exit, and no stop, failed exit or suspend of
\* a device that is down comes between saving and restoring: a suspended device
\* never returns to a state in which its PHY should be asleep or off.
ReturnsAwake == pwr = "SUSPENDED" => before \notin {"PDN", "SUSPENDED"}

\* Once the messages are handled, the endpoints are enabled when configured, and
\* disabled when a configured device is suspended.
Settled == ipc = "out" /\ hwEv = <<>> /\ queue = <<>> /\ tpc = "wait"
InterfacesFollow ==
    Settled => /\ pwr = "CONFIGURED" => ifs
               /\ pwr = "SUSPENDED" => ~ifs

\* The tasks and the handlers are scheduled; an interrupt that is latched is taken
\* when it is unmasked, however often sleep masks it in between.  Nothing is assumed
\* of the application or of the host.
Fairness == /\ WF_vars(IsrStep) /\ WF_vars(TaskStep)
            /\ SF_vars(IsrEnter) /\ SF_vars(SuspendnIsr)
            /\ WF_vars(bus = "active" /\ LpmRestore)
FairSpec == Spec /\ Fairness

\* A packet the controller has latched is dispatched to the driver, unless the
\* device is powered down or the host suspends the bus.
SetupDispatched ==
    ~NoneLatched("SETUP") ~> (\/ tpc = "hal" /\ tmsg.type = "SETUP"
                              \/ pwr = "PDN" \/ bus = "suspended")

\* hal_usb.h:279-281: a host that drives the bus again gets a PHY that is awake,
\* even from low power mode and whatever was being handled, or one that is
\* reported as powered down.
HostWakesPhy ==
    bus = "active" /\ phy = "suspended"
        ~> phy # "suspended" \/ pwr = "PDN" \/ bus = "suspended"
=============================================================================

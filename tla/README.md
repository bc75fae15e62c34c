# A verification project for the RTL87x3E dongle firmware

The repository is the SDK of a Bluetooth audio SoC (RTL87x3E) with the firmware
of a gaming dongle: a USB device that carries audio and control between a PC and
a headset. This directory holds TLA+ modules of the parts that carry the
firmware's own concurrent logic, TLC configurations that check them on small
instances, and TLAPS proofs about them. Paths are relative to the
root of the repository (`src/mcu/usb/lib/pipe/usb_pipe.c`); `PROJECT.json` puts the
name of the checkout in front (`src/src/mcu/...`).

## 1. Inventory

### 1.1 How the parts hang together

```
   PC  <-- USB -->  controller ---- interrupt --> usb_isr.c --- message --> usb_task.c
                        ^                            |                         |
                        | urb                        | direct calls            v
                    usb_pipe.c                       v                  composite device,
                        ^                        usb_dm.c  <----------  class drivers
                        | usb_pipe_send              |                         |
   application tasks ---+---- usb_dm_start/stop -----+<--- callbacks ----------+
        |
        +-- sys_timer.c   (hardware timer interrupt -> message -> framework task)
        +-- sys_event.c, sys_ipc.c   (callback lists)
        +-- remote_mgr.c, bt_pm.c    (relay to the second device, link power)
        +-- btm/*                    (protocols and profiles over a binary host stack)
        +-- audiomgr/*               (tracks, media and jitter buffer over a binary DSP layer)
```

There is one core. Concurrency is that of interrupts against tasks and of tasks
preempting each other; the locks of the code (`os_lock`) are critical sections
with interrupts off. Almost all communication is "an interrupt posts a message,
a task handles it later", so the recurrent questions are what has changed
between posting and handling, what happens when a queue is full, and who is
responsible for going on.

### 1.2 The components

| Component | State it keeps | Operations | Hard behaviour | What makes it correct |
|---|---|---|---|---|
| USB data pipe (`usb_pipe.c`) | idle, pending and current request, one urb | open, send, completion, refill, close, OUT receive | several callers and the completion share one urb and lists locked only in parts | one user of the urb; no request lost or doubled; order kept; nothing left queued |
| USB interrupt, message task, device manager (`usb_isr.c`, `usb_task.c`, `usb_dm.c`) | message queue, `usb_isr_pending`, one SETUP buffer, power state, PHY | interrupt hooks, message handling, start, stop, suspend, resume, low power store/restore | the count has no lock, the mask of the interrupt is the lock; state set in the interrupt, overwritten by older messages | count exact; masked while pending; packet intact; never deaf; the PHY is woken |
| USB composite device | configuration, interfaces, power state | reset, standard requests, suspend, resume, remote wake-up | configuration half set; state kept across sessions | interfaces follow the power state |
| System timers (`sys_timer.c`) | delta list, hardware timer, message queue | create, start, restart, stop, delete, expiry | interrupt between sampling and stopping the hardware timer; the message does not name the timer | the list stalls only when an interrupt goes unnoticed; no timer late or early; each started timer runs or is stopped |
| HID class driver | endpoints, request in progress | SET_REPORT, GET_REPORT, open, suspend, resume | data stage against a new SETUP | each request answered once, by its own handler |
| Audio class driver | alternate settings, pipes | interface and control requests | setting changes while a pipe transfers | pipes are open exactly in the active setting |
| Events and topics (`sys_event.c`, `sys_ipc.c`) | flags with waiters, subscriber lists | set, clear, wait, abort; publish, subscribe, unsubscribe | callbacks that change the list being walked | each waiter called once, none after it left |
| Remote relay (`remote_mgr.c`) | credits, relay queue, sequence numbers, timer | send, confirm, receive, retransmission, sniff, connect, disconnect | retransmission against late answers; duplicates filtered by an 8-bit sequence | each message delivered at most once, in order, and in the end sent |
| Link power management (`bt_pm.c`) | per-link sniff state, deferred requests | enter and exit sniff, timers | a request that meets a mode change under way | a deferred request is in the end served |
| L2CAP protocols (`rfc.c`, `avdtp.c`, ...) | per-channel credits and state | connect, data, disconnect, signalling | credit accounting across retries | credits never overdrawn |
| Profiles, role switch (`bt_*.c`) | per-link profile state | event translation | ordering against the binary stack | - |
| Audio manager | track state, media ring, jitter buffer | create, start, pause, stop, release, write, read | ring boundaries; asynchronous path events | the ring never overruns; a track's state follows the path |
| Audio hardware layer, console | register images, command line | - | - | - |
| Dongle application (`sample/gaming_dongle`) | USB state, Bluetooth policy, firmware update | message handlers | power states that arrive late, update steps out of order | the application agrees with the device after all messages |
| LE scan and privacy (`scan_mgr.c`, `ble_privacy.c`) | scan requests, resolving list, what is suspended | start, stop, bond added or removed, results of the stack | the list may change only while nothing scans and resolution is off; the news of both come late | a change is never forgotten, and all that was suspended is resumed |
| LE connection and advertising managers (`app/bt_ual`) | connections, advertising sets | start, stop, callbacks | a stop that meets a start under way | the last request wins |
| Peripheral drivers, binary libraries, FAT, tools | - | - | - | - |

`PROJECT.json` lists each with its files and whether it is modelled. Its
`hazards` name, line by line, what in this code is hard to test; every property
below answers one or several of them; the three without a property say why or what
would show them.

## 2. The modules

| Module | Stands for |
|---|---|
| `SerialPipe` | what an IN pipe promises: a serial queue with one item on the wire |
| `UsbPipe` | the IN direction of `usb_pipe.c`; contains the refinement to `SerialPipe` |
| `UsbCore` | `usb_isr.c`, `usb_task.c`, `usb_dm.c` and the power state in `usb_composite_dev.c` |
| `SysTimer` | the high precision timers of `sys_timer.c` on the hardware timer of `hw_tim.c` |
| `RelayLink` | what the relay promises: a session's messages arrive in order and at most once |
| `BtPm` | the sniff mode state machine of `bt_pm.c`, as functions of a link's record |
| `RemoteRelay` | `remote_mgr.c` over the channel of `bt_rdtp.c` and the link of `BtPm`, with the controller and the peer; contains the refinement to `RelayLink` |
| `LePrivacy` | `scan_mgr.c` together with `ble_privacy.c` |
| `ListFacts` | lemmas on sequences (first, last, append, tail, concatenation) |
| `UsbPipeProofs`, `UsbCoreProofs`, `SysTimerProofs`, `RemoteRelayProofs`, `LePrivacyProofs` | theorems about the module each is named after |
| `PipeRefinement` | the proof that `UsbPipe` implements `SerialPipe` |
| `RelayRefinement` | the proof that `RemoteRelay` implements `RelayLink` |

Next to some operations stand variants such as `Enqueue_CurIgnored`, with one
slip each. They are part of no specification. Each property has at least one
that breaks it, which shows that the property depends on the code being the way
it is.

### 2.1 UsbPipe

| State | In the code |
|---|---|
| `idle`, `pending`, `cur` | `priv.tx->idle_reqs`, `pending_reqs`, `cur_req` |
| `data` | the buffer of each request |
| `hw`, `urbBuf`, `urbOk` | the urb: where it is, `urb->buf`, `urb->status` |
| `pc`, `req`, `msg` | each caller of `usb_pipe_send`, its `req`, its argument |
| `xpc` | `usb_pipe_in_xfer_done` and `usb_pipe_pending_req_handle` |

An action is one `os_lock` section or the code between two of them. `Call`,
`TakeIdle`, `TakePending`, `Enqueue`, `PeekCur`, `SendUrb`, `SendFailed` follow
`usb_pipe_send` (`usb_pipe.c:350-433`); `XferDone`, `Release`, `Refill`,
`RefillSend` the completion (`214-276`); `HwDone` is the controller. With
`HighThroughput` the completion runs in the interrupt and no caller runs
meanwhile; otherwise it is a task like the callers. `ReqNum = 0` is a pipe
without request list, whose send goes straight to the urb. A request is a number,
a payload a model value. The NULL written through when nothing is left to drop
is the place `"fault"`, after which nothing happens (`Alive`). The unlocked read of
`cur_req->buf` and `len` (`400-401`) may go through NULL too, when a caller has only
queued its request and the completion has emptied the queue. Such a caller
makes no use of what it read; the read itself is taken to do no harm, as it is
where address 0 can be read. What `PeekCur` and `OneTransfer` say is that the caller
that does send reads its own request.

### 2.2 UsbCore

| State | In the code |
|---|---|
| `queue`, `pending`, `nvic` | `usb_task_msg_queue`, `usb_isr_pending` (8 bits), the interrupt's mask |
| `setup_pkt` | the static SETUP buffer of `usb_isr.c` |
| `ipc`, `taken` | the interrupt between `usb_common_isr_enter` and `_exit` |
| `tpc`, `tmsg`, `tmp` | the task: its place, its message, the count as loaded |
| `pwr`, `before` | `usb_pwr_state`, `usb_pwr_state_before_suspend` |
| `phy`, `attached`, `asleep` | controller set-up and low power mode |
| `bus`, `hwEv`, `ifs` | the host, latched events, endpoints enabled |

The interrupt is `IsrEnter`, one `IsrEvent` per hook, `IsrExit`; the task is
`Recv`, `DmStart`/`DmStop`, `HalDispatch`/`HalPdn`, and then the decrement in its
three steps `Load`, `Store`, `Enable`, because `usb_isr_pending--` is no atomic
instruction. `SuspendnIsr`, `RemoteWakeup`, `LpmStore`, `LpmRestore` are the other
ways in. The HAL is a binary library: which hooks it may call, and that several
may be called in one interrupt, is taken from `inc/usb/hal/hal_usb.h` and from how
the hooks are written. Messages whose type makes no difference here (transfer
done, reset, IN token) are one type.

### 2.3 SysTimer

`list` and `left` are the pending list with each timer's time after its predecessor,
`interval` and `since` the two variables from which the code works out the elapsed
time when the hardware timer stands, `hw` the hardware timer. Its interrupt sends
two messages (`sys_timer.c:97-98`): one to `msg_queue`, here `msgs`, and then an
`EVENT_SYS_MSG` to the queue that the framework task waits on, here counted by
`events`. For each event the task takes one message. The result of the second send
is ignored, so a message can be left without an event: it stays in the queue and the
task is from then on one message behind. The low precision timers, which the OS
counts, post to the same two queues (`LowFire`, `LowExpire`); so a later event can
bring a forgotten message back. `Woken` says that a message of the hardware timer is
among those the events account for, and `lost`, a history variable, that the last
interrupt left none such, its message or its event having been refused. Each of
remove and insert is three steps (sample the elapsed time, ask whether the timer
runs, stop it and edit the list), because the interrupt may fall between any two.
`Fire` is the interrupt, `Expire` and `CallbackEnd` the two halves of
`sys_hp_timer_expire` around the callback, which may itself start and stop timers.
The two sends of an interrupt are one step, since the task does not run in between;
those of an OS timer, which runs in a task of its own, are taken as one step too.
`due` and `slip` are not in the code: the true time to go of each timer (0 when it
is over), and the time the code knowingly does not count. That is the ticks between
a call's sample of the elapsed time and its restart of a hardware timer it found
running, also when the interrupt falls between the two (`Unseen`), and what is
missing to the 5 us to which `hw_timer_restart` raises shorter periods, here
`MinPeriod`. `TimeTo` adds up the differences of a list: what each of its timers has
to go. One `Tick` is one count of the hardware timer, 1 us; times beyond `MaxTime`
are cut to it.

### 2.4 BtPm and RemoteRelay

| State | In the code |
|---|---|
| `session` | state of the channel in `bt_rdtp.c` and `REMOTE_SESSION_STATE_CONNECTED` |
| `queue`, `credits`, `tx_seq`, `retrans` | `relay_queue`, `credits`, `tx_seq`, `retrans_timer` |
| `rx_seq` | `rx_seq` of the peer |
| `unacked`, `air` | messages L2CAP has not answered, messages the peer has not handled |
| `tried`, `sessions`, `last` | not in the code: what has been numbered, opened, delivered |
| `pm` | the part of `T_BT_LINK` that `bt_pm.c` works on: `state` is `bt_sniff_state`, `action` the deferred request, `timer` the idle timer, `enable` whether sniff mode is enabled |
| `pm.cmds`, `evts`, `mode` | commands to the controller, its events to the host, the mode it has the link in |

A message is its number in the session and the sequence number it carries.
`Send` and `SendRefused` are a call of `remote_async_msg_relay`, which takes its
sequence number before anything can fail. `Dequeue` is
`remote_msg_dequeue`: it sends while the link is active, the queue is not empty,
credits are left and L2CAP has a buffer; if L2CAP has none it starts the timer,
and if the link is not active it asks `bt_pm.c` to leave sniff mode. It is part of
`Send`, `DataRsp` (the answer of L2CAP that returns a credit), `Retrans` (the
timer) and of the events after which the link is active again.

`BtPm` follows `bt_pm_sm` handler by handler. A handler that calls the callbacks of
the profiles is split in a part before and a part after them, because the
relay is one of them and calls back into the state machine; `RemoteRelay` puts its
own calls between the two. The other profiles appear as vetoes of an entry
and as exits at any time. The controller carries out the commands in order and may
refuse each; the peer may change the mode at any time, so a command can meet a
link that is already where it wants it.

Only one direction of data is there, since the two share nothing but the link. The
synchronised variant differs in the clock value it carries and a timer on the
receiving side, both left out; so are the registration of channels (they are
taken as known), the crossing of two connection requests, the link policy bits and
the list of callbacks. A receiver of a message with loopback relays it
back as a plain one, which for its own sending side is a `Send` like any other. `LinkLost`
clears the session as `Disconnected` does and starts with a new link.
`pm.gaveUp` is a history variable: an attempt to leave the present sniff
mode failed, which nobody in the code repeats.

### 2.5 LePrivacy

The controller's resolving list may change only while address resolution is off
and nothing scans, advertises or synchronises. A bond that comes or goes
therefore suspends these activities, waits for their end, turns resolution off, changes
the list entry by entry, turns it on and resumes.

| State | In the code |
|---|---|
| `clients` | `lescan_refcnt` of `bt_adap_start_discovery` |
| `scan.state`, `enabled`, `gap` | `scan_state`, `scan_enabled`, `gap_scan_state` |
| `scan.stack`, `scan.msgs` | the stack's own scan state, and its messages about it |
| `scan.refused` | not in the code: the last command to the stack was refused in a state in which it could have been carried out |
| `rl.listed`, `inCtl`, `removal` | `rl_list`, those with `in_controller_rl`, those with `pending_removal` |
| `rl.op`, `attempt`, `act`, `waits`, `state` | `p_rl_op_dev`, the attempts, `rl_act_state`, `suspended_rl_state`, the resolution state |
| `other` | advertising and periodic synchronisation, as one activity |

Every `le_ext_scan_start` and `le_ext_scan_stop` may fail (`ok` of `LeStart`, `LeStop`). A
refused start is logged and otherwise ignored (`scan_mgr.c:191-196`, `229-233`,
`278-282`), the result of a stop is not looked at (`205`, `247`, `266`): the manager
goes on as if the command had been taken, and nothing repeats it. `Oks` is what the
stack answers in one handler to each kind of command.

All handlers run in the application task. `Check`, `Execute`, `Done`, `Toggle` are
the functions of `ble_privacy.c` that call each other; they return the new
`ble_privacy_cb` and whether everything is to be resumed, so that an action can put
the resume where the code has it. That matters in `ScanEnded`: there the resume runs
inside `scan_sm_execute`, which overwrites what it has set (4.4). `FREED` and
`FAULT` stand for an entry freed while the controller still works on it and for the
write to it, after which nothing happens. The functions that set the resolution mode
and the random address are not called in this build; clearing all bonds at once, and
the background connections that are suspended at once and resumed with the rest, are
left out. `rl.gaveUp` is again history: turning resolution off failed.

## 3. The runs

| Run | Asks | Instance | Result |
|---|---|---|---|
| `UsbPipe_safe` | types, `RequestsConserved`, `OneTransfer`, refinement of `SerialPipe` | 2 callers, 2 payloads, 3 requests, drop-first, every controller failure | holds |
| `UsbPipe_live` | `NoLostWakeup`, `QueuedIsServed` | 2 callers, 1 payload, 3 requests, drop-current, fairness, `HandlerTxMayFail = FALSE` | holds |
| `UsbPipe_nullreq` | `DropFirstFindsOne` | 2 requests, drop-first | violated, 4.1 |
| `UsbCore_irq` | `PendingCounts`, `MaskedWhilePending`, `SetupIntact`, `NotDeaf` | 2 hooks per interrupt, 2 latched events, 2 posted starts/stops, `SlowIrq` | holds; 2.0 M states |
| `UsbCore_suspend` | `SuspendTracked`, `ReturnsAwake`, `InterfacesFollow`, `SetupDispatched`, `HostWakesPhy` | 1 hook per interrupt, fairness, wake-up may fail | holds; 379 k states |
| `UsbCore_oneirq` | `HostWakesPhy` | 2 hooks per interrupt, fairness | violated, 4.2 |
| `SysTimer_all` | types, `Armed`, `NeverLate`, `EveryTimerRuns` | 2 timers, one periodic, 3 calls at any moment, a queue of 2 shared with low precision timers, refused events, fairness | holds; 480 k states |
| `SysTimer_stale` | `FirstItemExpired` | calls may fall between interrupt and message | violated, 4.3 |
| `RemoteRelay_safe` | types, `CreditsConserved`, `RelayWakeup`, `PendingAnswered`, `IdleTimerArmed`, `ActionFitsState`, `DisabledWakes`, refinement of `RelayLink` | 2 credits, queue of 2, 3 sequence numbers, 4 messages, 2 sessions | holds |
| `RemoteRelay_live` | `QueueDrains` | 1 credit, queue of 2, 2 messages, 1 session, 2 commands under way, fairness | holds |
| `LePrivacy_safe` | types, `ScanSettles`, `ModifyGoesOn`, `WaitEnds`, `ResolutionOff`, `OthersResume`, `ScanStops` | 2 bonds, 2 attempts, 2 clients, 3 messages under way, every command may be refused, fairness | holds; 77 k states |
| `LePrivacy_resume` | `ScanResumes` | the same | violated, 4.4 |

### 3.1 Bounds, and why they are enough

* Pipe: two callers are what a race needs; each step concerns one or two. With
  two requests the pipe is congested while both callers are under way, with three
  a queue of two exists behind a transfer, so order and both ends of the queue
  matter. Both congestion policies are covered, one by each run.
  `HighThroughput = FALSE` is the general case for safety: `TRUE` only adds the guard
  that no caller runs during the completion. Requests and payloads are finite sets,
  so nothing else needs a bound. The theorems lift the invariants and the
  refinement to any number of callers, requests and payloads.
* Core: `QueueLen`, `MaxHw`, `MaxPosts` bound the queue, the events latched and
  the starts and stops queued. The real queue has 0x20 places; `QueueLen = 4` in
  `UsbCore_irq` is exactly what two hooks and two posts need (`QueueFits` in 5.2),
  so the queue does get full. Two hooks in one interrupt are the least with
  which a count above one, and an order within one interrupt, occur. The
  invariants of that run are proved for every value with `QueueFits`, those of
  `UsbCore_suspend`, where one hook per interrupt is part of the question, for
  every queue and load.
* Timers: two timers are the least for which a list matters. `MaxCalls` bounds the
  starts and stops of a behaviour, `MaxTime` the times (beyond it they saturate);
  periods below and above `MinPeriod` both occur. `QueueLen = 2` lets the queue fill
  with messages of either kind; the real one has 0x20 places. `MaxRefused = 1`
  bounds the messages that have no event; one is enough for the task to be behind.
  The invariants are proved for every set of timers, every period and every value of
  these bounds.
* Relay: with two credits and a queue of two, four messages fill both; the fourth
  number is again the first modulo `Width = 3`, so the mistake of the duplicate
  check, which 8-bit numbers make after 255 refused messages, happens within the
  bound. Two sessions let what a session leaves behind (timer, credits, the peer's
  number) meet the next. `MaxCmds` and `MaxEvts` bound commands and events under
  way; with `MaxCmds = 1` the stack refuses a second command, as it may in the
  code. The invariants and the refinement are proved for every value of these
  constants.
* Privacy: two entries are the least for which one can be added while
  another is being removed; two attempts let one fail and be repeated; two
  clients make the first and the last one differ; three messages under way
  are a stop, a start and a stop that the task has not yet heard of. The
  invariants are proved for every value of these constants.

### 3.2 Assumptions that are constants

* `HandlerTxMayFail = FALSE` in `UsbPipe_live` only: the completion ignores the
  result of its send (`usb_pipe.c:231`), so if the controller refuses it the
  request stays current for good and what follows only queues. That is a hazard
  of the code, listed as one; the run shows that it is the only way to get stuck.
* `ReqNum = 0`, a pipe without request list, is described by the module and
  excluded from the runs: its send copies into the urb whatever that is doing.
  The dongle's HID wrapper raises the number to a minimum.
* `RestartWhileBusy = FALSE` in the core's runs: `usb_dm_start` comes
  when the task has dealt with everything before. With `TRUE`, `MaskedWhilePending`
  fails: `usb_isr_enable` unmasks unconditionally and nothing resets
  `usb_isr_pending`, so messages of the old session and interrupts of the new one
  race for the count and the packet buffer.
* `ExitMayFail`: `hal_usb_suspend_exit` may return an error, upon which the device
  reports power-down while still attached (`usb_dm.c:190`). `UsbCore_suspend`
  allows it, and so do the three theorems that belong to that run; those under
  `QueueFits` do not (`NotDeaf` and the masking argument need that power-down
  means detached).
* `SlowIrq`: the interrupt may be taken later than the 20 ms for which a host
  drives resume, so that a SETUP can be latched behind a SUSPEND not yet seen.
  The core's first run allows it.
* Several events in one interrupt (`EventsPerIrq = 2`) are plausible because the
  interrupt stays masked for as long as the low-priority USB task has messages
  to handle, which may be longer than the 3 ms of idle bus that make a suspend.
* `MaxRefused` in `SysTimer`: how many events may be refused before the task has
  caught up. The event queue is shared with many other senders, so it can be full
  when `msg_queue` is not. `sys_hw_timer_handler` sends nothing when
  `hEventQueueHandleAu` is NULL (`sys_timer.c:94`); `sys_mgr_init` sets it before it
  calls `sys_timer_init` (`sys_mgr.c:184`), so no timer exists before it does, and
  the check always passes.
* `CallInCallback`, `CallMeetsFiring`, `SameTick` in `SysTimer`: all `TRUE` in
  `SysTimer_all`. For "only an expired timer is run" each of them alone is fatal;
  `SysTimer_stale` has `CallMeetsFiring` alone, which isolates its cause (4.3).

### 3.3 Fairness

* `UsbPipe!FairSpec`: weak fairness of each caller inside `usb_pipe_send` (tasks
  are scheduled, and it waits for nothing), of the completion handler, and of the
  controller (the host polls an IN endpoint of a configured device). No caller
  has to call.
* `UsbCore!FairSpec`: weak fairness of the interrupt once entered, of the task
  (the lowest priority runs when the others block), and of waking from low power
  mode when the host drives the bus. Strong fairness of taking a latched
  interrupt: the latch is level triggered, so it is taken however often
  low power mode masks the line in between. Nothing is assumed of the application
  and nothing of the host; the liveness properties except the cases in which the
  host suspends or the device is powered down.
* `SysTimer!FairSpec`: time passes, the interrupt is taken, the framework task
  runs when an event is there. Nothing is assumed of messages without an event, which
  is why `Armed` and `EveryTimerRuns` except `lost`: after a refused message or event
  the list waits until a timer is started anew or an event of something else lets the
  task come to the message. Neither calls nor their absence are assumed, though a
  behaviour has at most `MaxCalls` of them.
* `RemoteRelay!FairSpec`: weak fairness of the task for events, of the timer, of
  L2CAP's answers, of the controller for each kind of command, and of the end of a
  disconnection once asked for. Strong fairness in two places: the
  controller does not refuse every exit from sniff mode, and not every firing of
  the retransmission timer finds L2CAP without a buffer. Nothing is assumed of the
  callers, of the other profiles or of the peer. Even so `QueueDrains` excepts
  `gaveUp`: an exit that failed while messages wait is not repeated until somebody
  sends again.
* `LePrivacy!FairSpec`: the task handles its messages, the stack carries out a
  scan command it has taken (or fails). Nothing of clients, bonds or the
  controller's answers about the resolving list, and not that any command is taken:
  `ScanStops` excepts `refused`.

Deadlock is checked except where a run's system does stop: in `UsbPipe_safe` at
the NULL write of 4.1, in the two runs of `LePrivacy` at the write to a
freed entry.

## 4. Where the code and its documentation disagree

1. *Drop-first with nothing to drop* (`UsbPipe_nullreq`). When every request is
   current or in a caller's hands, the pending list is empty and the request
   that should give way is NULL; it is written through (`usb_pipe.c:384`).
2. *A suspended state that is overwritten* (`UsbCore_oneirq`). The interrupt sets
   SUSPENDED at once, while a SETUP it reported just before is still queued; its
   handler sets the power state again and the resume finds nothing to undo, so the
   PHY stays asleep.
3. *The wrong timer* (`SysTimer_stale`). The interrupt's message does not say which
   timer fired. A timer stopped or restarted before the message is handled lets
   the next one in the list run before its time. Two further causes were met: an
   elapsed time of 0 stands for "stopped" and is also what a timer restarted
   within the same count reports (`sys_timer.c:178`); and with the hardware timer
   stopped the delay since the interrupt is taken off the list at every call, not
   once (`sys_timer.c:180`). Setting `SameTick` or `CallInCallback` to `TRUE` and
   `CallMeetsFiring` to `FALSE` in `SysTimer_stale.cfg` shows each of them; with all
  three `FALSE` the property holds.
4. *A resume that is overwritten* (`LePrivacy_resume`). `hdl_resume_req` sets the
   state with the words "change scan state right now" (`scan_mgr.c:283`). When the
   end of the scan is the last thing a modification waited for, and the command to
   the controller is refused, the resume runs inside `scan_sm_execute`, which
   afterwards sets the next state of its own table, suspended (`scan_mgr.c:309`).
   The scan that was just started is stopped again when it reports, and does not
   come back until the next modification, or until nobody wants it any more. The shortest
   run: a client starts scanning, a bond is added while the scan is
   starting, the scan fails to start, the command is refused.

## 5. What is proved

TLAPS proves the following for every value of the constants that meets the named
assumptions; TLC has checked the same formulas first.

### 5.1 The pipe (`UsbPipeProofs`)

* `TypeCorrect`, `SingleTransfer` (`OneTransfer`): from `SafeInv`, the conjunction
  of the types, `ControlInv` (which request a caller must have in hand where) and
  `OneTransfer`. `OneTransfer` says that whoever is between making a request
  current and handing over the urb holds exactly `cur`, that the controller does
  not have the urb then, and that the completion is not about to use it. It is
  inductive once "held requests are not NULL" is known, because `cur` is only set
  when it is NULL, and while it is set every path leads through its one owner.
* `NoRequestLost` (`RequestsConserved`): each request is at exactly one of four
  places. It is proved per action on top of `SafeInv`; the list lemmas of
  `ListFacts` say which elements append, tail and concatenation leave in place.
* `NothingLeftQueued` (`NoLostWakeup`): assuming `~HandlerTxMayFail` and a request
  list. The invariant is `WakeupInv`: if nothing is current while something is
  queued, the completion is at its refill step, and if something is current,
  somebody is on the way to send or release it. Quiet contradicts both.

* `PipeRefines` (`ImplementsSerialPipe`, in `PipeRefinement`): a pipe with a
  request list (`HasTx`) implements `SerialPipe`. The refinement mapping reads off
  what the pending list, the current request and the urb carry, so besides the
  invariants above it needs `Written`: a request that is pending or current has
  been written. The pending list changes only through append and tail;
  `CarriedTail` and `CarriedAppend` say that what the list carries changes in the
  same way, and `CarriedKept` that writing to a request in somebody's hands does
  not touch it, which is where `RequestsConserved` comes in. Each action then
  is one step of `SerialPipe` or a stutter.

### 5.2 The USB core (`UsbCoreProofs`)

`CoreTypes`, `CountExact`, `MaskHolds`, `PacketIntact`, `ListensWhenIdle`, under

    QueueFits: MaxPosts + EventsPerIrq <= QueueLen, EventsPerIrq < 256,
               ~RestartWhileBusy, ~ExitMayFail

The first conjunct says that no message is lost to a full queue (0x20 places in
the code, against a handful of hooks in an interrupt and of queued starts and
stops), the second that the 8-bit count does not wrap, the others exclude the two
situations in which the conclusion is false or unfounded. None of the five
properties is inductive alone; they are proved together as `IInv`:

* `CountInv`: the count equals the unhandled messages, is at most `EventsPerIrq`,
  and the value the task has loaded is still the count when it stores it;
* `MaskInv`: masked while pending, and while the interrupt runs everything before
  it has been handled, so that the count is at most the hooks called so far;
* `PowerInv`: power-down means detached, sleep means an empty queue;
* `StartInv`: a START finds the device down and the count at zero, which is what
  makes its unconditional unmasking harmless;
* `SetupInv`: at most one SETUP is latched, queued or in hand, and the buffer holds
  its packet;
* `ListenInv`: attached, awake, count zero and nobody about to unmask implies
  unmasked.

They need each other in a circle: the decrement is exact because the interrupt is
masked, it is masked because the count is exact.

`SuspendKnown` (`SuspendTracked`), `ReturnsToAwake` (`ReturnsAwake`) and
`InterfacesCatchUp` (`InterfacesFollow`) stand under another assumption:

    SerialEvents: MaxPosts + EventsPerIrq <= QueueLen, EventsPerIrq = 1,
                  ~RestartWhileBusy, ~SlowIrq

Two of these are not for convenience: with two events in an interrupt
`SuspendTracked` and `InterfacesFollow` fail (4.2 is what follows from it), and with
`SlowIrq` alone `SuspendTracked` fails, since a SETUP may then be latched behind a
SUSPEND. In exchange leaving suspend may fail here (`ExitMayFail`). The invariant
`SInv` keeps types, `CountInv`, `MaskInv` and `StartInv` and adds

* `PhyInv`: `SuspendTracked` and `ReturnsAwake`, events are latched only by a PHY that
  is on, and a SUSPEND is the last of them. `usb_dm_suspend_enter` saves the state to
  return to without a look at it, so `ReturnsAwake` rests on suspend and exit
  taking turns; a failed exit, which ends in power-down, keeps the PHY from reporting
  another suspend;
* `IfsInv`: while suspended, the only message under way is the SUSPEND that will
  disable the endpoints; when configured, the endpoints are enabled and no
  SUSPEND is under way, or a RESUME is still to be handled.

With the mask held, one event per interrupt means at most one message of the
controller between interrupt and task (`OneMessage`), so an older message that would
overwrite the power state cannot exist when the interrupt sets SUSPENDED.

### 5.3 The timers (`SysTimerProofs`)

From `TimerAssumption` alone (finitely bounded, positive periods), for any set of
timers, with every interleaving of calls, interrupt and task that the model has:
`TimerTypes`, `ListNeverStalls` (`Armed`), `NeverKeptLate` (`NeverLate`). The invariant
`TimerInv` adds to types and `Armed`

* `Roles`: at which step of a call the task knows what about its timer and about
  the hardware timer; in particular a hardware timer that runs when the list is
  edited was seen running;
* `Loaded`: the hardware timer runs for the first timer of the list, with its
  time or `MinPeriod`;
* `Bounded`: no timer of the list has more than `MaxTime` to go;
* `Timely`: what the list says is left of a timer is at most its true time, its
  `slip`, and the time `Uncounted` that has passed and will still be taken off:
  what the hardware timer has counted, or, when it has stopped, the interval it ran
  for and the time since. `Slow` makes a `slip` at its bound stand for any larger one.

`Armed` itself needs of the queues only that a post takes nothing from what the events
account for (`PostKeeps`) and that a received low precision message leaves a
message of the hardware timer where it was (`RecvKeeps`).

`NeverLate` speaks only of moments when the hardware timer runs; between a
sample and the restart the list is ahead of it, after the interrupt behind, and
`Uncounted` is what makes one statement of all of them. The list stores
differences, so the heart of the proof is what removing, inserting and
taking time off do to their sums (`RemovedTimes`, `InsertedTimes`, `ConsumedTimes`
and the lemmas before them). Those are inductions along the list; since the induction
theorems of the library cannot be applied, each takes the least index at
which the claim fails (`Least`, from the well-foundedness of the naturals).

Stating these for every instance corrected the model's own bookkeeping: `NeverLate`
had held in the run's instance only, because ticks after an interrupt inside a
call were not in `slip`, and `Armed` did not require that the task will restart the
hardware timer, only that it is in a call.


### 5.4 The relay (`RemoteRelayProofs`, `RelayRefinement`)

From `RelayAssumption` alone (positive credits and queue, at least two sequence
numbers), so for any number of messages and sessions, with every refusal, failure
and change of mode the model has:

* `RelayTypes`, `CreditsKept` (`CreditsConserved`), `QueueWatched` (`RelayWakeup`),
  `TimerRuns` (`IdleTimerArmed`), `ActionFits` (`ActionFitsState`),
  `DisabledIsAwake` (`DisabledWakes`). Their invariant `RelayInv` is `Books`, what
  the properties need of credits, queue and link record, together with "no session,
  nothing waiting"; and `Others`, the types of the rest. Most steps change the link
  by a composition of functions of `BtPm`, often several in one action, so the proof
  has first what each function does to a sound record (`Sound`: types,
  `IdleTimerArmed`, `ActionFitsState`, `DisabledWakes` hold of it) and where it may
  take its state (`Moves`), and then one step per action that composes these lemmas.
  `QueueWatched` is the one that needs both halves: messages wait unwatched only if
  no credit is out, no timer runs and the link rests; the lemma on `Dequeue` shows
  that it then either sent something, started the timer or asked for an exit, and
  the lemmas on `ExitSniff` that an exit leaves the link pending or given up.
* `PendingIsAnswered` (`PendingAnswered`): a link waits only while a command or an
  event that ends the wait is under way. On top of `RelayInv` it is inductive
  alone; the lemma for the controller shows that each command it takes leaves an
  event, whether it was carried out, refused or met a link already there.
* `RelayRefines` (`ImplementsRelayLink`): `RemoteRelay` implements `RelayLink`. It
  needs `Numbers` besides `RelayInv`: a message in the air or in the queue has its
  number modulo `Width` for a sequence number, `tx_seq` and `rx_seq` are so derived
  from the number given and the number received last, and while both sides are in a
  session none of these numbers is above `tried`, so that the next one is new. Then
  `ConnCmpl` maps to `Open`, `Send` to `Accept`, `Receive` to `Deliver` or, when the
  number has come round, to `Mistake`, the closing of either side to `SenderClose`
  or `ReceiverClose`, and every other step, also one that moves a burst from the
  queue to the air, to a stutter.

### 5.5 Scan and resolving list (`LePrivacyProofs`)

From `PrivacyAssumption` alone, for any bonds, list size, attempts and clients:
`PrivacyTypes`, `ScanFollows` (`ScanSettles`), `ChangeGoesOn` (`ModifyGoesOn`),
`WaitsEnd` (`WaitEnds`), `ListChangesOff` (`ResolutionOff`), `OthersComeBack`
(`OthersResume`). `PrivacyInv` has a part for each of the two records and two
conjuncts that tie them together:

* `ScanSound`: the last message of the stack's news, or the manager's own view when
  there is none, is the stack's state (`Heard`), and with nothing more to hear an
  enabled scan is not idle and another one is not scanning (`Wanted`), unless the last
  command was refused although it could have been carried out. What a command,
  taken or refused, does to such a record is `CommandFacts`. `ScanSettles`
  is too weak to be inductive, because it says nothing of a scan that is starting
  or stopping when the request changes;
* `ListSound`: a modification that waits, works or was given up, and what each of
  these implies of resolution, the command and the entries;
* a wait for the scan finds the scan suspended and not over (`Awaits`), from which,
  with `Wanted`, `WaitEnds` follows; and what else
  was suspended is back when the list has settled, or the modification gave up.

The functions of `ble_privacy.c` call each other, so the proof goes bottom-up:
one lemma for each says which outcome it has for a sound list (`Outcome`: still
waiting, command under way, or finished with everything to be resumed), then
one step per handler.

### 5.6 What is only model-checked

Liveness: `QueuedIsServed`, `SetupDispatched`, `HostWakesPhy`, `EveryTimerRuns`,
`QueueDrains`, `ScanStops`. The prover has no rule for fairness with `ENABLED`. Every
invariant and every refinement that a passing run checks is a theorem.

## 6. What is not modelled

* `usb_pipe_close`: it unlinks the pipe and frees its memory later; what becomes of
  a transfer in flight is decided in the binary `hal_usb`. The OUT direction has
  one urb and no queue.
* The callback lists of `usb_dm.c`, deferred calls of `usb_task.c`, IN tokens.
* Descriptors and configuration selection; the class drivers.
* Low precision timers, which are OS timers: only the messages of their expiry, which
  share both queues with the others, are modelled.
* Of the relay and `bt_pm.c`, and of the LE managers, what 2.4 and 2.5 leave out.
* Events and topics (`sys_event.c`, `sys_ipc.c`): whether an item freed during a walk
  is still read is a question of the heap below.
* L2CAP protocols, profiles and role switch: they translate between the
  applications and a binary host stack. Audio: its state machines wait for
  messages of a binary DSP library. The dongle's own policies are too large to be
  modelled faithfully as a whole.
* Binary libraries (host stack, DSP, USB HAL, OS) appear only as the repository
  uses them. Parsing and building of protocol data is left out on purpose.

By size most of the repository is none of the above: register headers of several
chips, samples for other products, a FAT file system, drivers that write
registers. What is modelled is a small share of its lines.

## 7. Plan

1. Theorems: which of those under `QueueFits` need neither `~ExitMayFail` nor
   one session at a time; what a pipe without request list, which is outside
   the refinement, still promises.
2. The callback lists of `usb_dm.c`, `sys_event.c` and `sys_ipc.c`, once, with the
   order of fetching the next item as a parameter.
3. Configuration selection and the data stage of HID requests.
4. Credits of `rfc.c`, the ring of `media_buffer.c`, the update of `app_cfu.c`.

------------------------------ MODULE SysTimer ------------------------------
(***************************************************************************)
(* The high precision timers of the framework (sys_timer.c).  One hardware *)
(* timer serves a pending list that stores, for each timer, the time left  *)
(* after the timer before it.  The interrupt of the hardware timer only    *)
(* posts a message and, to another queue, the event that wakes the         *)
(* framework task for it.  The task pops the first timer when it comes to  *)
(* the message, runs its callback and restarts the hardware timer.         *)
(* start, restart and stop sample the elapsed time, edit the list and      *)
(* restart the hardware timer, with no lock against the interrupt.         *)
(*                                                                         *)
(* One Tick is one count of the hardware timer (1 us).  An operator X_Y    *)
(* beside an operator X is part of no specification: it documents a slip   *)
(* in X that one of the properties would reveal.                           *)
(***************************************************************************)
EXTENDS Integers, Sequences, FiniteSets, FiniteSetsExt, SequencesExt

CONSTANTS Timers,      \* the high precision timers
          Periods,     \* the periods they are started with
          Reload,      \* the periodic ones
          MinPeriod,   \* hw_timer_restart raises a shorter period to this
          QueueLen,    \* SYS_MSG_MAX_NUM, the places of msg_queue
          MaxCalls,    \* bound: calls of start and stop in a behaviour
          MaxTime,     \* bound: a time beyond it makes no difference
          NONE,
          CallInCallback,  \* a callback may start and stop timers
          CallMeetsFiring, \* a call may fall between interrupt and callback
          SameTick,        \* two calls may fall into one tick
          MaxRefused       \* bound: events refused because their queue is full

ASSUME TimerAssumption ==
    /\ Reload \subseteq Timers /\ NONE \notin Timers
    /\ Periods \subseteq Nat \ {0} /\ MinPeriod \in Nat \ {0}
    /\ QueueLen \in Nat \ {0} /\ MaxCalls \in Nat /\ MaxTime \in Nat /\ MaxRefused \in Nat
    /\ \A d \in Periods : d <= MaxTime

VARIABLES list,      \* hp_timer_list
          left,      \* timeout_left of each timer
          period,    \* timeout_interval of each timer
          interval,  \* sys_timer_db.timeout_interval
          since,     \* os_hp_time_get() - sys_timer_db.hp_timeout_time
          hw,        \* the hardware timer: running, loaded with, counts to go
          msgs,      \* msg_queue: messages of high and low precision timers
          events,    \* EVENT_SYS_MSG events in hEventQueueHandleAu
          pc, who, active, next, inCb,   \* the framework task
          calls,     \* calls made so far
          due,       \* the true time to go of each timer, 0 when it is over
          slip,      \* the time the code does not count, for each timer
          lost       \* the task will not be woken for the last interrupt

task == <<pc, who, active, next, inCb>>
queues == <<msgs, events>>
vars == <<list, left, period, interval, since, hw, queues, task, calls, due, slip, lost>>

Off == [on |-> FALSE, load |-> 0, cnt |-> 0]
Running(p) == LET q == Max({p, MinPeriod}) IN [on |-> TRUE, load |-> q, cnt |-> q]

Counts == 0 .. Max({MaxTime, MinPeriod})

TypeOK ==
    /\ list \in Seq(Timers) /\ IsInjective(list)
    /\ left \in [Timers -> 0 .. MaxTime] /\ period \in [Timers -> Periods \cup {0}]
    /\ interval \in 0 .. MaxTime /\ since \in 0 .. MaxTime
    /\ hw \in [on : BOOLEAN, load : Counts, cnt : Counts] /\ hw.cnt <= hw.load
    /\ msgs \in Seq({"high", "low"}) /\ events <= Len(msgs) /\ Len(msgs) <= QueueLen
    /\ events \in Nat /\ lost \in BOOLEAN /\ calls \in 0 .. MaxCalls
    /\ pc \in {"idle", "remove", "removeActive", "removeEdit",
               "insert", "insertActive", "insertEdit", "cb"}
    /\ who \in Timers \cup {NONE} /\ active \in BOOLEAN /\ inCb \in BOOLEAN
    /\ next \in {"insert", "return"}
    /\ due \in [Timers -> 0 .. MaxTime] /\ slip \in [Timers -> 0 .. MaxTime]

-----------------------------------------------------------------------------
(* The pending list *)

InList(t) == Contains(list, t)

\* The time left, after the last sample, of the k-th timer of list l: each timer
\* stores in f the time after the one before it.
TimeTo(l, f) ==
    LET sum[k \in 0 .. Len(l)] == IF k = 0 THEN 0 ELSE sum[k - 1] + f[l[k]]
    IN  sum
Place(t) == CHOOSE i \in DOMAIN list : list[i] = t

Elapsed == hw.load - hw.cnt

\* sys_hp_timer_elapsed_time_update walks the list and takes the elapsed time
\* off the timers in turn; an elapsed time of 0 stands for a stopped timer.
Consumed(e) ==
    LET Rest(k) == Max({0, TimeTo(list, left)[k] - e})
    IN  [t \in Timers |-> IF InList(t) THEN Rest(Place(t)) - Rest(Place(t) - 1)
                                       ELSE left[t]]

SampleElapsed ==
    /\ hw.on /\ Elapsed = 0 => SameTick
    /\ IF Elapsed = 0
       THEN left' = Consumed(interval + since) /\ UNCHANGED <<since, interval>>
       ELSE left' = Consumed(Elapsed) /\ since' = 0 /\ interval' = 0

Pad(p) == Max({0, MinPeriod - p})
Capped(n) == Min({n, MaxTime})

\* The timer that is started or stopped begins a new count.
Fresh == [t \in Timers |-> IF t = who THEN 0 ELSE slip[t]]

\* Start the hardware timer for the first timer of list l, whose time left is in
\* f; what it adds to a short period all the timers of the list wait for.
StartFirst(l, f) ==
    /\ hw' = Running(f[l[1]]) /\ interval' = f[l[1]] /\ lost' = FALSE
    /\ slip' = [t \in Timers |-> IF Contains(l, t) THEN Capped(Fresh[t] + Pad(f[l[1]])) ELSE 0]

\* The last lines of insert and remove: the hardware timer is started if it ran
\* before.
Rearm(l, f) ==
    IF active /\ l # <<>>
    THEN StartFirst(l, f)
    ELSE hw' = Off /\ slip' = Fresh /\ UNCHANGED <<interval, lost>>

-----------------------------------------------------------------------------
(* The hardware *)

\* The interrupt is taken within the count that reaches 0.
InCall == pc \notin {"idle", "cb"}
Sampled == pc \in {"removeActive", "removeEdit", "insertActive", "insertEdit"}

\* The ticks that no sample takes off: the call has sampled and will restart the
\* hardware timer, which it found or will find running.
Unseen == Sampled /\ (hw.on \/ active)

Tick ==
    /\ hw.on => hw.cnt > (IF InCall /\ ~CallMeetsFiring THEN 1 ELSE 0)
    /\ hw' = IF hw.on THEN [hw EXCEPT !.cnt = @ - 1] ELSE hw
    /\ since' = Capped(since + 1)
    /\ due' = [t \in Timers |-> IF InList(t) THEN Max({due[t] - 1, 0}) ELSE due[t]]
    /\ slip' = [t \in Timers |-> IF InList(t) /\ Unseen /\ slip[t] < MaxTime
                                 THEN slip[t] + 1 ELSE slip[t]]
    /\ UNCHANGED <<list, left, period, interval, queues, task, calls, lost>>

\* The task takes one message for each event: those before the event are the ones
\* it will come to.
Woken == \E i \in 1 .. events : msgs[i] = "high"

\* The message goes to msg_queue, then its event to the queue the task waits on;
\* the result of the second send is ignored.  A message without an event stays, and
\* leaves the task one behind.
Post(m) ==
    IF Len(msgs) < QueueLen
    THEN /\ msgs' = Append(msgs, m)
         /\ events' = events + 1 \/ (Len(msgs) - events < MaxRefused /\ events' = events)
    ELSE UNCHANGED queues

\* hw_timer_handler_imp stops a one-shot timer and calls sys_hw_timer_handler.
\* The queues exist before the timers do: sys_mgr_init sets hEventQueueHandleAu
\* ahead of sys_timer_init.
Fire ==
    /\ hw.on /\ hw.cnt = 0
    /\ hw' = Off
    /\ Post("high") /\ lost' = ~Woken'
    /\ since' = 0
    /\ UNCHANGED <<list, left, period, interval, task, calls, due, slip>>

\* sys_sw_timer_handler: a low precision timer, which the OS counts, posts to the
\* same queues; of a refused message nothing remains.
LowFire ==
    /\ Len(msgs) < QueueLen /\ Post("low")
    /\ UNCHANGED <<list, left, period, interval, since, hw, task, calls, due, slip, lost>>

-----------------------------------------------------------------------------
(* The framework task *)

Return == IF inCb THEN "cb" ELSE "idle"

MayCall ==
    /\ calls < MaxCalls
    /\ pc = "idle" \/ (pc = "cb" /\ CallInCallback)
    /\ CallMeetsFiring \/ (~Contains(msgs, "high") /\ (hw.on => hw.cnt > 1))

\* A slip in Start: a timer already in the list is inserted a second time.
Start_KeepOld(t, d) ==
    /\ MayCall
    /\ calls' = calls + 1
    /\ who' = t /\ period' = [period EXCEPT ![t] = d]
    /\ next' = "insert" /\ pc' = "insert"
    /\ UNCHANGED <<list, left, interval, since, hw, queues, active, inCb, due, slip, lost>>

\* sys_timer_start and sys_timer_restart: the timer is removed first.
Start(t, d) ==
    /\ MayCall
    /\ calls' = calls + 1
    /\ who' = t /\ period' = [period EXCEPT ![t] = d]
    /\ next' = "insert"
    /\ pc' = IF InList(t) THEN "remove" ELSE "insert"
    /\ UNCHANGED <<list, left, interval, since, hw, queues, active, inCb, due, slip, lost>>

\* sys_timer_stop and sys_timer_delete; there is nothing to do for a timer that
\* is not in the list.
Stop(t) ==
    /\ MayCall /\ InList(t)
    /\ calls' = calls + 1
    /\ who' = t
    /\ next' = "return" /\ pc' = "remove"
    /\ UNCHANGED <<list, left, period, interval, since, hw, queues, active, inCb, due, slip, lost>>

RemoveSample ==
    /\ pc = "remove"
    /\ SampleElapsed
    /\ pc' = "removeActive"
    /\ UNCHANGED <<list, period, hw, queues, who, active, next, inCb, calls, due, slip, lost>>

\* A slip in ReadActive: the timer is stopped before it is asked.
ReadActive_AfterStop ==
    /\ pc \in {"removeActive", "insertActive"}
    /\ active' = FALSE
    /\ pc' = IF pc = "removeActive" THEN "removeEdit" ELSE "insertEdit"
    /\ UNCHANGED <<list, left, period, interval, since, hw, queues, who, next, inCb,
                   calls, due, slip, lost>>

\* The hardware timer is asked before it is stopped.
ReadActive ==
    /\ pc \in {"removeActive", "insertActive"}
    /\ active' = hw.on
    /\ pc' = IF pc = "removeActive" THEN "removeEdit" ELSE "insertEdit"
    /\ UNCHANGED <<list, left, period, interval, since, hw, queues, who, next, inCb,
                   calls, due, slip, lost>>

\* The timer after the removed one inherits its time.
Removed(i) == IF i < Len(list) THEN [left EXCEPT ![list[i + 1]] = @ + left[list[i]]]
                               ELSE left

RemoveEdit ==
    LET i == Place(who)
        l == RemoveAt(list, i)
        f == Removed(i)
    IN  /\ pc = "removeEdit"
        /\ list' = l /\ left' = f
        /\ Rearm(l, f)
        /\ active' = FALSE
        /\ due' = [due EXCEPT ![who] = 0]
        /\ IF next = "insert" THEN pc' = "insert" /\ UNCHANGED <<who, next>>
                              ELSE pc' = Return /\ who' = NONE /\ next' = "return"
        /\ UNCHANGED <<period, since, queues, inCb, calls>>

\* sys_hp_timer_list_insert: the first timer starts the hardware timer at once.
InsertFirst ==
    /\ pc = "insert" /\ list = <<>>
    /\ list' = <<who>>
    /\ left' = [left EXCEPT ![who] = period[who]]
    /\ hw' = Running(period[who]) /\ interval' = period[who]
    /\ due' = [due EXCEPT ![who] = period[who]]
    /\ slip' = [slip EXCEPT ![who] = Capped(Pad(period[who]))] /\ lost' = FALSE
    /\ pc' = Return /\ who' = NONE /\ next' = "return"
    /\ UNCHANGED <<period, since, queues, active, inCb, calls>>

InsertSample ==
    /\ pc = "insert" /\ list # <<>>
    /\ SampleElapsed
    /\ pc' = "insertActive"
    /\ UNCHANGED <<list, period, hw, queues, who, active, next, inCb, calls, due, slip, lost>>

\* A slip in Inserted: the timer that follows keeps all its time.
Inserted_NextKeeps(k, p) == [left EXCEPT ![who] = p]

\* p_timer goes after the k timers that are due no later; it and the timer that
\* follows it keep what is left after the one before.
Inserted(k, p) ==
    [t \in Timers |-> IF t = who THEN p
                      ELSE IF k < Len(list) /\ t = list[k + 1] THEN left[t] - p
                      ELSE left[t]]

InsertEdit ==
    LET k == Max({i \in 0 .. Len(list) : TimeTo(list, left)[i] <= period[who]})
        l == InsertAt(list, k + 1, who)
        f == Inserted(k, period[who] - TimeTo(list, left)[k])
    IN  /\ pc = "insertEdit"
        /\ list' = l /\ left' = f
        /\ Rearm(l, f)
        /\ active' = FALSE
        /\ due' = [due EXCEPT ![who] = period[who]]
        /\ pc' = Return /\ who' = NONE /\ next' = "return"
        /\ UNCHANGED <<period, since, queues, inCb, calls>>

\* sys_msg_handler: for one event the task takes one message.
Recv(m) ==
    /\ pc = "idle" /\ events > 0 /\ Head(msgs) = m
    /\ events' = events - 1 /\ msgs' = Tail(msgs)

\* The callback of a low precision timer; the starts and stops it makes are calls.
LowExpire ==
    /\ Recv("low")
    /\ UNCHANGED <<list, left, period, interval, since, hw, task, calls, due, slip, lost>>

\* sys_hp_timer_expire up to the callback: a periodic timer is inserted again
\* first.
Expire ==
    /\ Recv("high")
    /\ interval' = 0 /\ hw' = Off
    /\ IF list = <<>>
       THEN UNCHANGED <<list, due, slip, pc, who, next, inCb>>
       ELSE LET p == Head(list) IN
            /\ list' = Tail(list)
            /\ due' = [due EXCEPT ![p] = 0] /\ slip' = [slip EXCEPT ![p] = 0]
            /\ inCb' = TRUE
            /\ IF p \in Reload
               THEN pc' = "insert" /\ who' = p /\ next' = "insert"
               ELSE pc' = "cb" /\ UNCHANGED <<who, next>>
    /\ UNCHANGED <<left, period, since, active, calls, lost>>

\* A slip in CallbackEnd: the rest of the list is not started.
CallbackEnd_NoRestart ==
    /\ pc = "cb"
    /\ pc' = "idle" /\ inCb' = FALSE
    /\ UNCHANGED <<list, left, period, interval, since, hw, queues, who, active, next,
                   calls, due, slip, lost>>

\* The end of sys_hp_timer_expire: unless the callback started the hardware
\* timer, it is started for the first timer of the list.
CallbackEnd ==
    /\ pc = "cb"
    /\ pc' = "idle" /\ inCb' = FALSE
    /\ IF hw.on \/ list = <<>>
       THEN UNCHANGED <<left, interval, since, hw, slip, lost>>
       ELSE LET f == Consumed(interval + since) IN
            /\ left' = f
            /\ StartFirst(list, f)
            /\ UNCHANGED since
    /\ UNCHANGED <<list, period, queues, who, active, next, calls, due>>

-----------------------------------------------------------------------------
Init ==
    /\ list = <<>> /\ left = [t \in Timers |-> 0] /\ period = [t \in Timers |-> 0]
    /\ interval = 0 /\ since \in {0, MaxTime} /\ hw = Off
    /\ msgs = <<>> /\ events = 0 /\ lost = FALSE
    /\ pc = "idle" /\ who = NONE /\ active = FALSE /\ next = "return" /\ inCb = FALSE
    /\ calls = 0 /\ due = [t \in Timers |-> 0] /\ slip = [t \in Timers |-> 0]

Call == \E t \in Timers : Stop(t) \/ \E d \in Periods : Start(t, d)
TaskStep == RemoveSample \/ ReadActive \/ RemoveEdit \/ InsertFirst \/ InsertSample
            \/ InsertEdit \/ Expire \/ LowExpire \/ CallbackEnd

Next == Tick \/ Fire \/ LowFire \/ Call \/ TaskStep

Spec == Init /\ [][Next]_vars

Fairness == WF_vars(Tick) /\ WF_vars(Fire) /\ WF_vars(TaskStep)
FairSpec == Spec /\ Fairness

-----------------------------------------------------------------------------
(* Properties *)

\* A pending timer is forgotten only with a lost interrupt: as long as the list is
\* not empty, the hardware timer runs, or its message waits and the task will be
\* woken for it, or the task is at work on the list, or message or event of the
\* last interrupt were refused.  remove and insert restart the hardware timer only
\* if they found it running, so this rests on the message of a timer that fired,
\* which is one of many in a queue that the task may be behind in.
Armed == list # <<>> => hw.on \/ Woken \/ inCb \/ active \/ lost

\* sys_timer.c:341: "First item will be the expired timer in the pending list"
FirstItemExpired ==
    pc = "idle" /\ events > 0 /\ Head(msgs) = "high" /\ list # <<>>
        => due[Head(list)] = 0

\* No timer is kept longer than it asked: whenever the hardware timer runs for
\* the list, what the list says is left of a timer exceeds the truth by no more
\* than the ticks a call did not see, because they fell between its sample and
\* its restart of a timer it found running, and the time by which the hardware
\* timer raised a short period.
NeverLate ==
    hw.on /\ ~Sampled =>
    \A i \in DOMAIN list :
        TimeTo(list, left)[i] - Elapsed <= due[list[i]] + slip[list[i]]

\* Every timer that is started is run or stopped, whatever is started and
\* stopped around it and however many messages of other timers are in the queue,
\* unless the task is not woken for an interrupt.
EveryTimerRuns == \A t \in Timers : InList(t) ~> ~InList(t) \/ lost
=============================================================================

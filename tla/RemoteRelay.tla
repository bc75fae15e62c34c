----------------------------- MODULE RemoteRelay -----------------------------
(***************************************************************************)
(* The relay of messages to the other device (remote_mgr.c) over its L2CAP *)
(* channel (bt_rdtp.c) and a Bluetooth link that goes in and out of sniff  *)
(* mode (bt_pm.c, module BtPm).  The sending side is modelled in full; of  *)
(* the peer, what it receives and that it may change the mode of the link, *)
(* close the session and lose the link as it likes.                        *)
(*                                                                         *)
(* A message is its number in the session (id) and the sequence number it  *)
(* carries (seq).  All handlers run in one task; each is an action.  The   *)
(* controller executes the commands in order and reports by events that    *)
(* the host handles later.                                                 *)
(***************************************************************************)
EXTENDS Naturals, Sequences, SequencesExt, BtPm

CONSTANTS Credits,      \* REMOTE_MSG_CREDITS
          QueueNum,     \* REMOTE_MSG_QUEUE_NUM
          Width,        \* number of sequence numbers, 2^8
          MaxCalls,     \* bound: messages numbered in a session
          MaxSessions,  \* bound: sessions
          MaxCmds,      \* bound: commands the stack takes before it refuses
          MaxEvts       \* bound: events on their way to the host

ASSUME RelayAssumption ==
    /\ Credits \in Nat \ {0} /\ QueueNum \in Nat \ {0} /\ Width \in Nat \ {0, 1}
    /\ MaxCalls \in Nat /\ MaxSessions \in Nat
    /\ MaxCmds \in Nat \ {0} /\ MaxEvts \in Nat \ {0}

VARIABLES session,   \* state of the channel and, with it, of the session
          queue,     \* relay_queue
          credits, tx_seq,
          retrans,   \* retrans_timer is running
          tried,     \* messages numbered in this session
          unacked,   \* messages given to L2CAP, its L2C_DATA_RSP still to come
          air,       \* messages given to L2CAP and not yet handled by the peer
          peerUp, rx_seq,  \* the peer's session and its rx_seq
          last,      \* id of the message the peer delivered last, or 0
          sessions,  \* sessions so far
          pm,        \* the link's record, see BtPm
          mode,      \* the mode the controller has the link in
          evts       \* events on their way to the host

relay == <<queue, credits, retrans, unacked, air>>
count == <<tx_seq, tried>>
peer == <<peerUp, rx_seq, last>>
link == <<pm, mode, evts>>
vars == <<session, relay, count, peer, sessions, link>>

Message == [id : Nat, seq : 0 .. Width - 1]

\* The variables keep their types: the queue keeps its limit (remote_msg_enqueue),
\* a message number its width, the link's record its states.
TypeOK ==
    /\ session \in {"down", "connecting", "up", "closing"}
    /\ queue \in Seq(Message) /\ Len(queue) <= QueueNum /\ air \in Seq(Message)
    /\ credits \in 0 .. Credits /\ unacked \in 0 .. Credits
    /\ tx_seq \in 0 .. Width - 1 /\ rx_seq \in 0 .. Width - 1
    /\ tried \in 0 .. MaxCalls /\ last \in Nat /\ sessions \in 0 .. MaxSessions
    /\ retrans \in BOOLEAN /\ peerUp \in BOOLEAN
    /\ pm \in Link /\ mode \in {"active", "sniff"} /\ evts \in Seq(PmEvents)

Init ==
    /\ session = "down" /\ queue = <<>> /\ credits = 0 /\ tx_seq = 0
    /\ retrans = FALSE /\ tried = 0 /\ unacked = 0 /\ air = <<>>
    /\ peerUp = FALSE /\ rx_seq = 0 /\ last = 0 /\ sessions = 0
    /\ pm = NewLink /\ mode = "active" /\ evts = <<>>

\* REMOTE_SESSION_STATE_CONNECTED, and remote_bt_pm_cback is registered.
Connected == session \in {"up", "closing"}
Busy == Connected /\ queue # <<>>

\* The outcomes of a command sent to the stack.
Taken(l) == IF Len(l.cmds) < MaxCmds THEN BOOLEAN ELSE {FALSE}

-----------------------------------------------------------------------------
(* remote_msg_dequeue with queue q and c credits.  It sends k messages and *)
(* stops at the end of the queue, of the credits, or of the L2CAP buffers; *)
(* in the last case it starts the timer.  Unless the link is active it     *)
(* only asks for that.                                                     *)

Ready(q, c) == IF Len(q) < c THEN Len(q) ELSE c

Burst(l, q, c) ==
    IF l.state = "active" /\ session = "up" THEN 0 .. Ready(q, c) ELSE {0}

Transmit(l, q, c, k) ==
    /\ k \in Burst(l, q, c)
    /\ queue' = SubSeq(q, k + 1, Len(q))
    /\ air' = IF peerUp THEN air \o SubSeq(q, 1, k) ELSE <<>>
    /\ credits' = c - k

Short(l, q, c, k) == l.state = "active" /\ k < Ready(q, c)

\* bt_rdtp_data_send asks for an exit with every message it sends.
Woken_Sent(l, k, ok) == IF k > 0 THEN ExitSniff(l, ok) ELSE l
Woken(l, k, ok) == IF l.state # "active" \/ k > 0 THEN ExitSniff(l, ok) ELSE l

Dequeue(q, c, acked) ==
    \E k \in 0 .. Credits, ok \in Taken(pm) :
        /\ Transmit(pm, q, c, k)
        /\ unacked' = unacked + k - acked
        /\ retrans' = (retrans \/ Short(pm, q, c, k))
        /\ pm' = Woken(pm, k, ok)

\* remote_async_msg_relay and remote_sync_msg_relay.  The sequence number is
\* taken before anything can fail.
Number ==
    /\ Connected
    /\ tried < MaxCalls
    /\ tried' = tried + 1
    /\ tx_seq' = (tx_seq + 1) % Width

\* remote_msg_enqueue
Space_Over == Len(queue) <= QueueNum
Space == Len(queue) < QueueNum

Send ==
    /\ Number
    /\ Space
    /\ Dequeue(Append(queue, [id |-> tried', seq |-> tx_seq']), credits, 0)
    /\ UNCHANGED <<session, peer, sessions, mode, evts>>

\* The queue is full, or there is no memory.
SendRefused ==
    /\ Number
    /\ UNCHANGED <<session, relay, peer, sessions, link>>

\* L2C_DATA_RSP: remote_relay_data_rsp.
Credited_Below(c) == IF c + 1 < Credits THEN c + 1 ELSE c
Credited(c) == IF c < Credits THEN c + 1 ELSE c

DataRsp ==
    /\ Connected /\ unacked > 0
    /\ Dequeue(queue, Credited(credits), 1)
    /\ UNCHANGED <<session, count, peer, sessions, mode, evts>>

\* remote_retrans_timer_cback.  The timer is not stopped with the session.
Retrans ==
    /\ retrans
    /\ \E k \in 0 .. Credits, ok \in Taken(pm) :
          /\ Transmit(pm, queue, credits, k)
          /\ unacked' = unacked + k
          /\ pm' = Woken(pm, k, ok)
    /\ retrans' = (queue' # <<>>)
    /\ UNCHANGED <<session, count, peer, sessions, mode, evts>>

-----------------------------------------------------------------------------
(* The peer: remote_relay_data_ind drops a message whose sequence number   *)
(* it has seen last, and only warns of a gap.                              *)

Receive ==
    /\ peerUp /\ air # <<>>
    /\ air' = Tail(air)
    /\ LET m == Head(air)
       IN  IF m.seq = rx_seq THEN UNCHANGED <<rx_seq, last>>
           ELSE rx_seq' = m.seq /\ last' = m.id
    /\ UNCHANGED <<session, queue, credits, retrans, unacked, count, peerUp, sessions, link>>

\* The peer's channel is closed: what it has not handled is lost.
Forget_Part == last' = 0 /\ UNCHANGED rx_seq
Forget == last' = 0 /\ rx_seq' = 0

PeerDisconnected ==
    /\ peerUp
    /\ peerUp' = FALSE /\ air' = <<>> /\ Forget
    /\ UNCHANGED <<session, queue, credits, retrans, unacked, count, sessions, link>>

-----------------------------------------------------------------------------
(* The session *)

\* bt_rdtp_connect_req, or L2C_CONN_IND from the peer.
Connect ==
    /\ session = "down" /\ sessions < MaxSessions
    /\ session' = "connecting" /\ sessions' = sessions + 1
    /\ \E ok \in Taken(pm) : pm' \in {pm, ExitSniff(pm, ok)}
    /\ UNCHANGED <<relay, count, peer, mode, evts>>

ConnFail ==
    /\ session = "connecting"
    /\ session' = "down"
    /\ UNCHANGED <<relay, count, peer, sessions, link>>

\* L2C_CONN_CMPL, and BT_IPC_REMOTE_CONNECTED with it.
ConnCmpl ==
    /\ session = "connecting" /\ ~peerUp
    /\ session' = "up" /\ peerUp' = TRUE
    /\ credits' = Credits
    /\ UNCHANGED <<queue, retrans, unacked, air, count, rx_seq, last, sessions, link>>

\* bt_rdtp_disconnect_req
Close ==
    /\ session = "up"
    /\ session' = "closing"
    /\ \E ok \in Taken(pm) : pm' = ExitSniff(pm, ok)
    /\ UNCHANGED <<relay, count, peer, sessions, mode, evts>>

\* BT_IPC_REMOTE_DISCONNECTED
Clear ==
    /\ Connected
    /\ session' = "down" /\ queue' = <<>> /\ unacked' = 0
    /\ tx_seq' = 0 /\ tried' = 0
    /\ UNCHANGED <<credits, retrans, air, peer, sessions>>

Disconnected == Clear /\ UNCHANGED link

\* The link itself is lost, and with it the channel; a new one is set up.
LinkLost ==
    /\ Clear
    /\ pm' = NewLink /\ mode' = "active" /\ evts' = <<>>

-----------------------------------------------------------------------------
(* The link's mode: the events, with the calls of remote_bt_pm_cback       *)

Event(e) == evts # <<>> /\ Head(evts) = e /\ evts' = Tail(evts)

Asked(l, ok) == IF Busy THEN ExitSniff(l, ok) ELSE l

SniffEntered ==
    /\ Event("sniff")
    /\ \E ok, again \in Taken(pm) :
          pm' = EnterSuccessEnd(Asked(EnterSuccessBegin(pm), ok), again)
    /\ UNCHANGED <<session, relay, count, peer, sessions, mode>>

SniffExitFailed ==
    /\ Event("exitFail")
    /\ IF pm.state = "activePending"
       THEN \E ok, again \in Taken(pm) :
                pm' = ExitFailEnd(Asked(ExitFailBegin(pm), ok), again)
       ELSE UNCHANGED pm
    /\ UNCHANGED <<session, relay, count, peer, sessions, mode>>

\* The link is active: l is its record before the callbacks.
Resume(l) ==
    \E k \in 0 .. Credits, ok \in Taken(pm) :
        /\ Connected \/ k = 0
        /\ Transmit(l, queue, credits, k)
        /\ unacked' = unacked + k
        /\ retrans' = (retrans \/ (Connected /\ Short(l, queue, credits, k)))
        /\ pm' = WokeEnd(Woken(l, k, ok), ok)

SniffExited ==
    /\ Event("active")
    /\ Resume(ExitSuccessBegin(pm))
    /\ UNCHANGED <<session, count, peer, sessions, mode>>

SniffEnterFailed_Alone ==
    /\ Event("enterFail")
    /\ pm' = IF pm.state = "sniffPending" THEN WokeEnd(EnterFailBegin(pm), FALSE) ELSE pm
    /\ UNCHANGED <<relay, session, count, peer, sessions, mode>>
SniffEnterFailed ==
    /\ Event("enterFail")
    /\ IF pm.state = "sniffPending" THEN Resume(EnterFailBegin(pm))
       ELSE UNCHANGED <<pm, relay>>
    /\ UNCHANGED <<session, count, peer, sessions, mode>>

-----------------------------------------------------------------------------
(* The link's mode: requests *)

pmOnly == UNCHANGED <<session, relay, count, peer, sessions, mode, evts>>

\* bt_pm_timeout_cback.  The relay refuses while messages wait, bt_mgr_pm_cback
\* while sniff mode is disabled, another profile when it likes.
Enter(l) ==
    \E veto \in BOOLEAN, ok \in Taken(pm) :
        pm' = EnterReq(l, veto \/ Busy \/ ~pm.enable, ok)

IdleTimeout ==
    /\ pm.timer
    /\ Enter([pm EXCEPT !.timer = FALSE])
    /\ pmOnly

\* A HID channel is opened over the same link.
HidConnected == Enter(pm) /\ pmOnly

\* A profile sends something: bt_sniff_mode_exit.
ProfileExit == \E ok \in Taken(pm) : pm' = ExitSniff(pm, ok) /\ pmOnly

SniffDisable == \E ok \in Taken(pm) : pm' = Disable(pm, ok) /\ pmOnly

SniffEnable ==
    \E change \in BOOLEAN, ok \in Taken(pm) : pm' = Enable(pm, change, ok) /\ pmOnly

-----------------------------------------------------------------------------
(* The controller *)

Report(m, e) ==
    /\ Len(evts) < MaxEvts
    /\ mode' = m
    /\ evts' = Append(evts, e)
    /\ UNCHANGED <<session, relay, count, peer, sessions>>

Command(c) ==
    /\ pm.cmds # <<>> /\ Head(pm.cmds) = c
    /\ pm' = [pm EXCEPT !.cmds = Tail(@)]

EnterDone == Command("enter") /\ mode = "active" /\ Report("sniff", "sniff")
ExitDone == Command("exit") /\ mode = "sniff" /\ Report("active", "active")
EnterRefused == Command("enter") /\ Report(mode, "enterFail")
ExitRefused == Command("exit") /\ Report(mode, "exitFail")

\* The peer has the mode changed.
PeerSniffs == mode = "active" /\ Report("sniff", "sniff") /\ UNCHANGED pm
PeerWakes == mode = "sniff" /\ Report("active", "active") /\ UNCHANGED pm

-----------------------------------------------------------------------------
Host == \/ SniffEntered \/ SniffExited \/ SniffEnterFailed \/ SniffExitFailed

Next ==
    \/ Send \/ SendRefused \/ DataRsp \/ Retrans
    \/ Receive \/ PeerDisconnected
    \/ Connect \/ ConnFail \/ ConnCmpl \/ Close \/ Disconnected \/ LinkLost
    \/ Host
    \/ IdleTimeout \/ HidConnected \/ ProfileExit \/ SniffDisable \/ SniffEnable
    \/ EnterDone \/ ExitDone \/ EnterRefused \/ ExitRefused
    \/ PeerSniffs \/ PeerWakes

Spec == Init /\ [][Next]_vars

\* The task handles its events and timers, L2CAP answers every message, the
\* controller every command; neither refuses an exit for ever, nor is every
\* firing of the timer, while the link is active, one without L2CAP buffers.
RetransSends == Retrans /\ queue' # queue
Fairness ==
    /\ WF_vars(Host) /\ WF_vars(DataRsp) /\ WF_vars(Retrans) /\ SF_vars(RetransSends)
    /\ WF_vars(EnterDone \/ EnterRefused) /\ WF_vars(ExitDone \/ ExitRefused)
    /\ SF_vars(ExitDone)
    /\ WF_vars(Disconnected /\ session = "closing")

FairSpec == Spec /\ Fairness

-----------------------------------------------------------------------------
(* The properties *)

\* Every credit of a session is at the sender or with a message whose answer
\* is still to come, whatever session, timer, answer and mode change took it
\* (remote_msg_send takes one, remote_relay_data_rsp gives one back).
CreditsConserved == Connected => credits + unacked = Credits

\* While messages wait in a session, something is under way that will come back
\* to remote_msg_dequeue: an answer of L2CAP, the timer, or a change of mode
\* (remote_bt_pm_cback); if not, leaving sniff mode was tried and failed.
RelayWakeup ==
    Busy => unacked > 0 \/ retrans \/ pm.state \in Pending \/ pm.gaveUp

Outstanding(c, answers) ==
    Contains(pm.cmds, c) \/ \E i \in DOMAIN evts : evts[i] \in answers

\* A link record is only pending while the command it waits for, or the event
\* that answers it, is on its way: bt_pm_sm never waits for nothing, also when
\* the peer changes the mode meanwhile.
PendingAnswered ==
    /\ pm.state = "sniffPending" => Outstanding("enter", {"sniff", "enterFail"})
    /\ pm.state = "activePending" => Outstanding("exit", {"active", "exitFail"})

\* A link out of sniff mode has its idle timer running, so that bt_pm_timeout_cback
\* will try again to save power, whatever was refused or has failed.
IdleTimerArmed == pm.state \in {"active", "sniffPending"} => pm.timer

\* Only the opposite of the change under way is remembered (pm.action), and it
\* is forgotten once the change is settled: no request outlives its occasion.
ActionFitsState ==
    /\ pm.action = "exit" => pm.state = "sniffPending"
    /\ pm.action = "enter" => pm.state = "activePending"

\* A link whose sniff mode is disabled rests in sniff mode only if leaving it
\* was tried and failed, even if it was disabled while entering.
DisabledWakes == pm.state = "sniff" /\ ~pm.enable => pm.gaveUp

Queued(i) == \E k \in DOMAIN queue : queue[k].id = i
\* A message that waits in the queue is sent or given up with its session, or the
\* link is one that the host failed to get out of sniff mode.
QueueDrains == \A i \in 1 .. MaxCalls : Queued(i) ~> ~Queued(i) \/ pm.gaveUp

Ids(q) == [i \in DOMAIN q |-> q[i].id]
L == INSTANCE RelayLink WITH
        Numbers <- 1 .. MaxCalls,
        open <- Connected /\ peerUp,
        pipe <- IF peerUp THEN Ids(air \o queue) ELSE <<>>
\* The relay keeps the promise of RelayLink: in order, at most once, with loss
\* only at the end of a session or by a sequence number that came round.
ImplementsRelayLink == L!Spec
=============================================================================

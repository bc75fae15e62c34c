------------------------------ MODULE UsbPipe ------------------------------
(***************************************************************************)
(* The IN direction of mcu/usb/lib/pipe/usb_pipe.c: tasks that share a     *)
(* pipe call usb_pipe_send while the controller's completion runs in the   *)
(* USB task or, for a high_throughput pipe, in the interrupt.  Every       *)
(* os_lock/os_unlock section is one action; what lies between two sections *)
(* is a place where the others may run.                                    *)
(***************************************************************************)
EXTENDS Naturals, Sequences, SequencesExt

CONSTANTS Producers,        \* callers of usb_pipe_send
          Data,             \* payloads
          NoData,           \* contents of a request buffer never written
          ReqNum,           \* pending_req_num of usb_pipe_open
          DropFirst,        \* congestion_ctrl = CONGESTION_CTRL_DROP_FIRST
          HighThroughput,   \* attr.high_throughput: completion in the ISR
          HandlerTxMayFail  \* hal_usb_ep_tx may fail on the completion path

ASSUME ReqNumAssumption == ReqNum \in Nat
ASSUME AttrAssumption == /\ DropFirst \in BOOLEAN
                         /\ HighThroughput \in BOOLEAN
                         /\ HandlerTxMayFail \in BOOLEAN
ASSUME NoDataAssumption == NoData \notin Data

Reqs == 1..ReqNum
NULL == 0
HasTx == ReqNum # 0          \* pipe->priv.tx is allocated

VARIABLES idle,     \* priv.tx->idle_reqs
          pending,  \* priv.tx->pending_reqs
          cur,      \* priv.tx->cur_req
          data,     \* contents of each request's buffer
          pc,       \* where each caller is in usb_pipe_send
          req,      \* its local `req`, then the request it sends
          msg,      \* the data it was asked to send
          hw,       \* the urb: "idle", "busy" (with the controller), "done"
          urbBuf,   \* urb->buf
          urbOk,    \* urb->status = ESUCCESS
          xpc       \* where usb_pipe_in_xfer_done is

tx   == <<idle, pending, cur, data>>
urb  == <<hw, urbBuf, urbOk>>
vars == <<idle, pending, cur, data, pc, req, msg, hw, urbBuf, urbOk, xpc>>

TypeOK ==
    /\ idle \in Seq(Reqs)
    /\ pending \in Seq(Reqs)
    /\ cur \in Reqs \cup {NULL}
    /\ data \in [Reqs -> Data \cup {NoData}]
    /\ pc \in [Producers -> {"out", "take", "drop", "queue", "peek", "tx", "fail", "fault"}]
    /\ req \in [Producers -> Reqs \cup {NULL}]
    /\ msg \in [Producers -> Data \cup {NoData}]
    /\ hw \in {"idle", "busy", "done"}
    /\ urbBuf \in Data \cup {NoData}
    /\ urbOk \in BOOLEAN
    /\ xpc \in {"out", "cb", "refill", "tx"}

(* usb_pipe_open: the request array, all of it idle *)
Init ==
    /\ idle = [i \in Reqs |-> i]
    /\ pending = <<>>
    /\ cur = NULL
    /\ data = [r \in Reqs |-> NoData]
    /\ pc = [p \in Producers |-> "out"]
    /\ req = [p \in Producers |-> NULL]
    /\ msg = [p \in Producers |-> NoData]
    /\ hw = "idle" /\ urbBuf = NoData /\ urbOk = TRUE
    /\ xpc = "out"

\* A caller runs unless the completion occupies the core as an interrupt.
Runs == HighThroughput => xpc = "out"
Goto(p, there) == pc' = [pc EXCEPT ![p] = there]

-----------------------------------------------------------------------------
(* Variants of steps below, each with one slip.  They are part of no         *)
(* specification: they document which mistake each property would reveal.    *)

\* only the queue is looked at, not the request in transfer
Enqueue_CurIgnored(p) ==
    /\ pc[p] = "queue" /\ Runs
    /\ data' = [data EXCEPT ![req[p]] = msg[p]]
    /\ msg' = [msg EXCEPT ![p] = NoData]
    /\ Goto(p, "peek")
    /\ IF pending # <<>>
       THEN /\ pending' = Append(pending, req[p])
            /\ req' = [req EXCEPT ![p] = NULL]
            /\ UNCHANGED cur
       ELSE cur' = req[p] /\ UNCHANGED <<pending, req>>
    /\ UNCHANGED <<idle, urb, xpc>>

\* the newest queued request is dropped instead of the oldest
TakePending_Newest(p) ==
    /\ pc[p] = "drop" /\ Runs
    /\ IF pending # <<>>
       THEN /\ req' = [req EXCEPT ![p] = Last(pending)]
            /\ pending' = Front(pending)
            /\ Goto(p, "queue")
       ELSE Goto(p, "fault") /\ UNCHANGED <<req, pending>>
    /\ UNCHANGED <<idle, cur, data, msg, urb, xpc>>

\* cur_req is cleared before it is put back
SendFailed_ClearedFirst(p) ==
    /\ pc[p] = "fail" /\ Runs
    /\ cur' = NULL
    /\ idle' = Append(idle, cur') \o pending
    /\ pending' = <<>>
    /\ req' = [req EXCEPT ![p] = NULL]
    /\ Goto(p, "out")
    /\ UNCHANGED <<data, msg, urb, xpc>>

\* what was queued behind a refused request is left there
SendFailed_QueueKept(p) ==
    /\ pc[p] = "fail" /\ Runs
    /\ idle' = Append(idle, cur)
    /\ cur' = NULL
    /\ req' = [req EXCEPT ![p] = NULL]
    /\ Goto(p, "out")
    /\ UNCHANGED <<pending, data, msg, urb, xpc>>

\* the completed request is not given back
Release_NotGivenBack ==
    /\ xpc = "cb"
    /\ idle' = IF urbOk THEN idle ELSE idle \o pending
    /\ pending' = IF urbOk THEN pending ELSE <<>>
    /\ cur' = NULL
    /\ xpc' = "refill"
    /\ UNCHANGED <<data, pc, req, msg, urb>>

\* a failed transfer ends the handler early
Release_EndsOnError ==
    /\ xpc = "cb"
    /\ idle' = Append(idle, cur)
    /\ cur' = NULL
    /\ xpc' = IF urbOk THEN "refill" ELSE "out"
    /\ UNCHANGED <<pending, data, pc, req, msg, urb>>

-----------------------------------------------------------------------------
(* usb_pipe_send *)

Call(p, d) ==
    /\ pc[p] = "out" /\ Runs
    /\ msg' = [msg EXCEPT ![p] = d]
    /\ Goto(p, IF HasTx THEN "take" ELSE "tx")
    /\ UNCHANGED <<tx, req, urb, xpc>>

TakeIdle(p) ==
    /\ pc[p] = "take" /\ Runs
    /\ IF idle # <<>>
       THEN /\ req' = [req EXCEPT ![p] = Head(idle)]
            /\ idle' = Tail(idle)
            /\ Goto(p, "queue")
            /\ UNCHANGED msg
       ELSE /\ Goto(p, IF DropFirst THEN "drop" ELSE "out")
            /\ msg' = IF DropFirst THEN msg ELSE [msg EXCEPT ![p] = NoData]
            /\ UNCHANGED <<req, idle>>
    /\ UNCHANGED <<pending, cur, data, urb, xpc>>

\* Drop the first queued request and reuse it; with none queued the code goes
\* on to write through the NULL it was given.
TakePending(p) ==
    /\ pc[p] = "drop" /\ Runs
    /\ IF pending # <<>>
       THEN /\ req' = [req EXCEPT ![p] = Head(pending)]
            /\ pending' = Tail(pending)
            /\ Goto(p, "queue")
       ELSE Goto(p, "fault") /\ UNCHANGED <<req, pending>>
    /\ UNCHANGED <<idle, cur, data, msg, urb, xpc>>

\* The copy into the private request and the locked decision to queue it or
\* to make it the current one.
Enqueue(p) ==
    /\ pc[p] = "queue" /\ Runs
    /\ data' = [data EXCEPT ![req[p]] = msg[p]]
    /\ msg' = [msg EXCEPT ![p] = NoData]
    /\ IF pending # <<>> \/ cur # NULL
       THEN /\ pending' = Append(pending, req[p])
            /\ req' = [req EXCEPT ![p] = NULL]
            /\ Goto(p, "peek")
            /\ UNCHANGED cur
       ELSE /\ cur' = req[p]
            /\ Goto(p, "peek")
            /\ UNCHANGED <<pending, req>>
    /\ UNCHANGED <<idle, urb, xpc>>

\* buf_to_send = cur_req->buf, read with no lock held and whether or not this
\* caller is the one that sends.  Only the caller that sends uses it, and for that one
\* cur_req is its own; for the others it may have become NULL, and the read through
\* NULL is taken to do no harm.
PeekCur(p) ==
    /\ pc[p] = "peek" /\ Runs
    /\ IF req[p] # NULL
       THEN req' = [req EXCEPT ![p] = cur] /\ Goto(p, "tx")
       ELSE Goto(p, "out") /\ UNCHANGED req
    /\ UNCHANGED <<tx, msg, urb, xpc>>

\* usb_pipe_ep_data_send: fill urb->buf and hand the urb to the controller.
FillUrb(d) == urbBuf' = d
SendUrb(p) ==
    /\ pc[p] = "tx" /\ Runs
    /\ FillUrb(IF HasTx THEN data[req[p]] ELSE msg[p])
    /\ \/ /\ hw' = "busy"
          /\ Goto(p, "out")
          /\ req' = [req EXCEPT ![p] = NULL]
          /\ msg' = [msg EXCEPT ![p] = NoData]
       \/ /\ Goto(p, IF HasTx THEN "fail" ELSE "out")
          /\ msg' = [msg EXCEPT ![p] = NoData]
          /\ UNCHANGED <<hw, req>>
    /\ UNCHANGED <<tx, urbOk, xpc>>

\* hal_usb_ep_tx failed: the callback has run, everything goes back to idle.
SendFailed(p) ==
    /\ pc[p] = "fail" /\ Runs
    /\ idle' = Append(idle, cur) \o pending
    /\ pending' = <<>>
    /\ cur' = NULL
    /\ req' = [req EXCEPT ![p] = NULL]
    /\ Goto(p, "out")
    /\ UNCHANGED <<data, msg, urb, xpc>>

-----------------------------------------------------------------------------
(* The controller, as usb_pipe.c uses it, and usb_pipe_in_xfer_done *)

HwDone(ok) ==
    /\ hw = "busy"
    /\ hw' = "done" /\ urbOk' = ok
    /\ UNCHANGED <<tx, pc, req, msg, urbBuf, xpc>>

\* The completion is dispatched; the pipe's callback runs first.
XferDone ==
    /\ xpc = "out" /\ hw = "done"
    /\ hw' = "idle"
    /\ xpc' = IF HasTx THEN "cb" ELSE "out"
    /\ UNCHANGED <<tx, pc, req, msg, urbBuf, urbOk>>

Release ==
    /\ xpc = "cb"
    /\ idle' = IF urbOk THEN Append(idle, cur) ELSE Append(idle, cur) \o pending
    /\ pending' = IF urbOk THEN pending ELSE <<>>
    /\ cur' = NULL
    /\ xpc' = "refill"
    /\ UNCHANGED <<data, pc, req, msg, urb>>

\* usb_pipe_pending_req_handle, the locked part
Refill ==
    /\ xpc = "refill"
    /\ IF cur = NULL /\ pending # <<>>
       THEN cur' = Head(pending) /\ pending' = Tail(pending) /\ xpc' = "tx"
       ELSE xpc' = "out" /\ UNCHANGED <<cur, pending>>
    /\ UNCHANGED <<idle, data, pc, req, msg, urb>>

\* ... and its send, whose result is not looked at
RefillSend ==
    /\ xpc = "tx"
    /\ FillUrb(data[cur])
    /\ hw' = "busy" \/ (HandlerTxMayFail /\ UNCHANGED hw)
    /\ xpc' = "out"
    /\ UNCHANGED <<tx, pc, req, msg, urbOk>>

-----------------------------------------------------------------------------
Step(p) == \/ TakeIdle(p) \/ TakePending(p) \/ Enqueue(p) \/ PeekCur(p)
           \/ SendUrb(p) \/ SendFailed(p)
Handler == XferDone \/ Release \/ Refill \/ RefillSend

\* A write through NULL takes the core down.
Alive == \A p \in Producers : pc[p] # "fault"

Next == /\ Alive
        /\ \/ \E p \in Producers : Step(p) \/ \E d \in Data : Call(p, d)
           \/ \E ok \in BOOLEAN : HwDone(ok)
           \/ Handler

Spec == Init /\ [][Next]_vars

-----------------------------------------------------------------------------
(* Properties *)

Holds(p, r) == pc[p] = "queue" /\ req[p] = r

\* A caller that made a request the current one and has not yet got rid of it.
Turn(p) == \/ pc[p] \in {"tx", "fail"}
           \/ pc[p] = "peek" /\ req[p] # NULL

AtOnePlace(r) ==
    \/ /\ Contains(idle, r) /\ ~Contains(pending, r) /\ cur # r
       /\ \A p \in Producers : ~Holds(p, r)
    \/ /\ Contains(pending, r) /\ ~Contains(idle, r) /\ cur # r
       /\ \A p \in Producers : ~Holds(p, r)
    \/ /\ cur = r /\ ~Contains(idle, r) /\ ~Contains(pending, r)
       /\ \A p \in Producers : ~Holds(p, r)
    \/ /\ ~Contains(idle, r) /\ ~Contains(pending, r) /\ cur # r
       /\ \E p \in Producers :
             Holds(p, r) /\ \A q \in Producers : Holds(q, r) => q = p

\* Requests are neither lost nor shared: at every moment each of them is at
\* exactly one place of exactly one of idle_reqs, pending_reqs, cur_req and the
\* hands of one caller between its two locked sections, although four code
\* paths (send, its failure, the completion, the refill) move them about
\* (usb_pipe.c:214-433).
RequestsConserved ==
    /\ IsInjective(idle) /\ IsInjective(pending)
    /\ \A r \in Reqs : AtOnePlace(r)

\* The single urb has one user at a time: whoever is about to fill urb->buf or
\* to undo a refused send owns cur_req, no other caller or completion is in
\* that position, and the controller does not have the urb.  Nothing locks the
\* urb; only the discipline around cur_req does (usb_pipe.c:214-236, 386-430).
OneTransfer ==
    HasTx =>
    /\ \A p \in Producers : Turn(p) =>
          /\ cur # NULL /\ req[p] = cur
          /\ hw = "idle" /\ xpc \notin {"cb", "tx"}
          /\ \A q \in Producers : Turn(q) => q = p
    /\ xpc \in {"cb", "tx"} => hw = "idle" /\ cur # NULL
    /\ hw # "idle" => cur # NULL

\* No lost wake-up: once no caller is inside usb_pipe_send, no completion is
\* running and the controller is done, nothing is left queued or current - else
\* nobody would ever send it (usb_pipe.c:214-276, 386-399).
Quiet == hw = "idle" /\ xpc = "out" /\ \A p \in Producers : pc[p] = "out"
NoLostWakeup == Quiet => cur = NULL /\ pending = <<>>

\* usb_pipe.h:63: with CONGESTION_CTRL_DROP_FIRST "the first data in the queue
\* will be dropped" - there always is a first one to reuse (usb_pipe.c:370-384).
DropFirstFindsOne == Alive

\* The inductive invariant behind them: which code can be reached with which
\* requests in hand, and who is in charge of the urb or of the queue.
ControlInv ==
    /\ \A p \in Producers :
          /\ pc[p] = "queue" => req[p] # NULL
          /\ pc[p] \in {"take", "drop", "queue", "peek", "fail"} => HasTx
    /\ xpc # "out" => HasTx
SafeInv == TypeOK /\ ControlInv /\ OneTransfer
WakeupInv ==
    HasTx =>
    /\ cur = NULL /\ pending # <<>> => xpc = "refill"
    /\ cur # NULL => \/ \E p \in Producers : Turn(p)
                    \/ xpc \in {"cb", "tx"}
                    \/ hw # "idle"

\* Seen from outside the pipe is a serial queue (SerialPipe): the controller
\* transmits each accepted item at most once, whole, and in arrival order.
CurPhase == CASE cur = NULL -> "none"
              [] cur # NULL /\ hw = "busy" -> "sending"
              [] cur # NULL /\ hw # "busy" /\ (hw = "done" \/ xpc = "cb") -> "sent"
              [] OTHER -> "ready"
Serial == INSTANCE SerialPipe WITH
            waiting <- [i \in 1..Len(pending) |-> data[pending[i]]],
            current <- IF cur = NULL THEN NoData ELSE data[cur],
            phase   <- CurPhase,
            wire    <- IF hw = "busy" THEN urbBuf ELSE NoData
ImplementsSerialPipe == Serial!Spec

\* Callers and the USB task are scheduled, and the host keeps polling.
Fairness == /\ \A p \in Producers : WF_vars(Alive /\ Step(p))
            /\ WF_vars(Alive /\ Handler)
            /\ WF_vars(Alive /\ \E ok \in BOOLEAN : HwDone(ok))
FairSpec == Spec /\ Fairness

\* Every queued request is in the end sent or given back (usb_pipe.c:229-275).
QueuedIsServed == \A r \in Reqs : Contains(pending, r) ~> ~Contains(pending, r)
=============================================================================

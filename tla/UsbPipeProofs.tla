--------------------------- MODULE UsbPipeProofs ---------------------------
(***************************************************************************)
(* Proofs about UsbPipe, for every number of callers, requests and         *)
(* payloads: types, the single user of the urb, the conservation of the    *)
(* requests and the absence of lost wake-ups.                              *)
(***************************************************************************)
EXTENDS UsbPipe, ListFacts

USE ReqNumAssumption, AttrAssumption DEF NULL, HasTx, Reqs, tx, urb, Goto, FillUrb

-----------------------------------------------------------------------------
(* Types, reachable code and the single user of the urb *)

LEMMA InitSafe == Init => SafeInv
<1> SUFFICES ASSUME Init PROVE SafeInv
    OBVIOUS
<1>1. [i \in Reqs |-> i] \in Seq(Reqs)
    OBVIOUS
<1>2. TypeOK
    BY <1>1 DEF Init, TypeOK
<1>3. ControlInv /\ OneTransfer
    BY DEF Init, ControlInv, OneTransfer, Turn
<1>4. QED
    BY <1>2, <1>3 DEF SafeInv

\* The steps of a caller.
LEMMA CallerSafe ==
    ASSUME SafeInv, NEW p \in Producers,
           Step(p) \/ \E d \in Data : Call(p, d)
    PROVE  SafeInv'
<1> USE DEF SafeInv, TypeOK, ControlInv, OneTransfer, Turn
<1>1. ASSUME NEW d \in Data, Call(p, d) PROVE SafeInv'
    BY <1>1 DEF Call
<1>2. CASE TakeIdle(p)
  <2>1. idle # <<>> => Head(idle) \in Reqs /\ Tail(idle) \in Seq(Reqs)
    BY TakeHead
  <2>2. TypeOK'
    BY <1>2, <2>1 DEF TakeIdle
  <2>3. \A q \in Producers : ~Turn(p)' /\ (q # p => pc'[q] = pc[q] /\ req'[q] = req[q])
    BY <1>2 DEF TakeIdle
  <2>4. pc'[p] = "queue" => req'[p] # NULL
    BY <1>2, <2>1 DEF TakeIdle
  <2>5. UNCHANGED <<cur, hw, xpc>> /\ HasTx
    BY <1>2 DEF TakeIdle
  <2>6. ControlInv'
    BY <2>3, <2>4, <2>5
  <2>7. OneTransfer'
    BY <2>3, <2>5
  <2>8. QED
    BY <2>2, <2>6, <2>7
<1>3. CASE TakePending(p)
  <2>1. pending # <<>> => Head(pending) \in Reqs /\ Tail(pending) \in Seq(Reqs)
    BY TakeHead
  <2>2. TypeOK'
    BY <1>3, <2>1 DEF TakePending
  <2>3. \A q \in Producers : ~Turn(p)' /\ (q # p => pc'[q] = pc[q] /\ req'[q] = req[q])
    BY <1>3 DEF TakePending
  <2>4. pc'[p] = "queue" => req'[p] # NULL
    BY <1>3, <2>1 DEF TakePending
  <2>5. UNCHANGED <<cur, hw, xpc>> /\ HasTx
    BY <1>3 DEF TakePending
  <2>6. ControlInv'
    BY <2>3, <2>4, <2>5
  <2>7. OneTransfer'
    BY <2>3, <2>5
  <2>8. QED
    BY <2>2, <2>6, <2>7
<1>4. CASE Enqueue(p)
  <2>1. req[p] \in Reqs
    BY <1>4 DEF Enqueue
  <2>2. Append(pending, req[p]) \in Seq(Reqs)
    BY <2>1, PutTail
  <2>3. TypeOK'
    BY <1>4, <2>1, <2>2 DEF Enqueue
  <2>4. (ControlInv /\ OneTransfer)'
    <3>1. CASE pending # <<>> \/ cur # NULL
      <4>1. /\ req' = [req EXCEPT ![p] = NULL] /\ pc' = [pc EXCEPT ![p] = "peek"]
            /\ cur' = cur /\ hw' = hw /\ xpc' = xpc /\ HasTx' = HasTx /\ HasTx
        BY <1>4, <3>1 DEF Enqueue
      <4>2. ControlInv'
        BY <4>1
      <4>3. /\ ~Turn(p)'
            /\ \A q \in Producers : q # p => Turn(q)' = Turn(q) /\ req'[q] = req[q]
        BY <4>1
      <4>4. QED
        BY <4>1, <4>2, <4>3
    <3>2. CASE ~(pending # <<>> \/ cur # NULL)
      <4>1. \A q \in Producers : ~Turn(q)
        BY <1>4, <3>2 DEF Enqueue
      <4>2. /\ cur' = req[p] /\ req' = req /\ pc' = [pc EXCEPT ![p] = "peek"]
            /\ hw = "idle" /\ xpc \notin {"cb", "tx"} /\ hw' = hw /\ xpc' = xpc
        BY <1>4, <3>2 DEF Enqueue
      <4>3. QED
        BY <1>4, <2>1, <4>1, <4>2
    <3>3. QED
      BY <3>1, <3>2
  <2>5. QED
    BY <2>3, <2>4
<1>5. CASE PeekCur(p)
  <2>1. CASE req[p] # NULL
    <3>1. req[p] = cur /\ HasTx
      BY <1>5, <2>1 DEF PeekCur
    <3>2. req' = req /\ pc' = [pc EXCEPT ![p] = "tx"]
      BY <1>5, <2>1, <3>1 DEF PeekCur
    <3>3. TypeOK' /\ ControlInv'
      BY <1>5, <3>1, <3>2 DEF PeekCur
    <3>4. \A q \in Producers : Turn(q)' = Turn(q)
      BY <1>5, <2>1, <3>2 DEF PeekCur
    <3>5. QED
      BY <1>5, <3>1, <3>2, <3>3, <3>4 DEF PeekCur
  <2>2. CASE req[p] = NULL
    BY <1>5, <2>2 DEF PeekCur
  <2>3. QED
    BY <2>1, <2>2
<1>6. CASE SendUrb(p)
  <2>1. (IF HasTx THEN data[req[p]] ELSE msg[p]) \in Data \cup {NoData}
    BY <1>6 DEF SendUrb
  <2>2. TypeOK'
    BY <1>6, <2>1 DEF SendUrb
  <2>3. (ControlInv /\ OneTransfer)'
    BY <1>6 DEF SendUrb
  <2>4. QED
    BY <2>2, <2>3
<1>7. CASE SendFailed(p)
  <2>1. cur \in Reqs
    BY <1>7 DEF SendFailed
  <2>2. Append(idle, cur) \o pending \in Seq(Reqs)
    BY <2>1, PutTail, JoinLists
  <2>3. <<>> \in Seq(Reqs)
    OBVIOUS
  <2>4. QED
    BY <1>7, <2>2, <2>3 DEF SendFailed
<1>8. QED
    BY <1>1, <1>2, <1>3, <1>4, <1>5, <1>6, <1>7 DEF Step

\* The steps of the controller and of the completion.
LEMMA CompletionSafe ==
    ASSUME SafeInv, Handler \/ \E ok \in BOOLEAN : HwDone(ok)
    PROVE  SafeInv'
<1> USE DEF SafeInv, TypeOK, ControlInv, OneTransfer, Turn
<1>1. ASSUME NEW ok \in BOOLEAN, HwDone(ok) PROVE SafeInv'
    BY <1>1 DEF HwDone
<1>2. CASE XferDone
    BY <1>2 DEF XferDone
<1>3. CASE Release
  <2>1. cur \in Reqs
    BY <1>3 DEF Release
  <2>2. /\ Append(idle, cur) \in Seq(Reqs)
        /\ Append(idle, cur) \o pending \in Seq(Reqs)
        /\ <<>> \in Seq(Reqs)
    BY <2>1, PutTail, JoinLists
  <2>3. QED
    BY <1>3, <2>2 DEF Release
<1>4. CASE Refill
  <2>1. pending # <<>> => Head(pending) \in Reqs /\ Tail(pending) \in Seq(Reqs)
    BY TakeHead
  <2>2. TypeOK'
    BY <1>4, <2>1 DEF Refill
  <2>3. (ControlInv /\ OneTransfer)'
    <3>1. CASE cur = NULL /\ pending # <<>>
      BY <1>4, <2>1, <3>1 DEF Refill
    <3>2. CASE ~(cur = NULL /\ pending # <<>>)
      BY <1>4, <3>2 DEF Refill
    <3>3. QED
      BY <3>1, <3>2
  <2>4. QED
    BY <2>2, <2>3
<1>5. CASE RefillSend
    BY <1>5 DEF RefillSend
<1>6. QED
    BY <1>1, <1>2, <1>3, <1>4, <1>5 DEF Handler

\* Types, ControlInv and OneTransfer hold in every reachable state.
THEOREM SafeInvariant == Spec => []SafeInv
<1>1. SafeInv /\ [Next]_vars => SafeInv'
  <2> SUFFICES ASSUME SafeInv, [Next]_vars PROVE SafeInv'
    OBVIOUS
  <2>1. CASE UNCHANGED vars
    BY <2>1 DEF vars, SafeInv, TypeOK, ControlInv, OneTransfer, Turn
  <2>2. CASE Next
    BY <2>2, CallerSafe, CompletionSafe DEF Next
  <2>3. QED
    BY <2>1, <2>2
<1>2. QED
    BY <1>1, InitSafe, PTL DEF Spec

\* The variables keep their types: in particular idle_reqs and pending_reqs
\* never receive a NULL request (usb_pipe.c:243, 261-267, 388, 418-424).
THEOREM TypeCorrect == Spec => []TypeOK
BY SafeInvariant, PTL DEF SafeInv

\* The urb has one user at a time (usb_pipe.c:214-236, 386-430).
THEOREM SingleTransfer == Spec => []OneTransfer
BY SafeInvariant, PTL DEF SafeInv

-----------------------------------------------------------------------------
(* No request is lost or shared *)

LEMMA InitConserved == Init => RequestsConserved
<1> SUFFICES ASSUME Init PROVE RequestsConserved
    OBVIOUS
<1>1. idle = [i \in Reqs |-> i] /\ Len(idle) = ReqNum
    BY DEF Init
<1>2. \A r \in Reqs : Contains(idle, r)
    BY <1>1 DEF Contains
<1>3. IsInjective(idle)
    BY <1>1 DEF IsInjective
<1>4. pending = <<>> /\ cur = NULL /\ \A p \in Producers : pc[p] = "out"
    BY DEF Init
<1>5. IsInjective(pending) /\ \A r \in Reqs : ~Contains(pending, r)
    BY <1>4 DEF IsInjective, Contains
<1>6. QED
    BY <1>2, <1>3, <1>4, <1>5 DEF RequestsConserved, AtOnePlace, Holds

\* A step that moves no request.
LEMMA NothingMoves ==
    ASSUME RequestsConserved, UNCHANGED <<idle, pending, cur>>,
           \A p \in Producers, r \in Reqs : Holds(p, r)' <=> Holds(p, r)
    PROVE  RequestsConserved'
BY DEF RequestsConserved, AtOnePlace

\* A request that stays where it is.
LEMMA StaysPut ==
    ASSUME NEW r \in Reqs, AtOnePlace(r),
           Contains(idle, r)' <=> Contains(idle, r),
           Contains(pending, r)' <=> Contains(pending, r),
           cur' = r <=> cur = r,
           \A p \in Producers : Holds(p, r)' <=> Holds(p, r)
    PROVE  AtOnePlace(r)'
BY DEF AtOnePlace

\* usb_pipe_send moves requests between the lists, its own hands and cur_req.
LEMMA CallerConserves ==
    ASSUME SafeInv, RequestsConserved, NEW p \in Producers,
           Step(p) \/ \E d \in Data : Call(p, d)
    PROVE  RequestsConserved'
<1> USE DEF SafeInv, TypeOK
<1>1. ASSUME NEW d \in Data, Call(p, d) PROVE RequestsConserved'
  <2>1. UNCHANGED <<idle, pending, cur, req>>
    BY <1>1 DEF Call
  <2>2. \A q \in Producers : pc'[q] = "queue" <=> pc[q] = "queue"
    BY <1>1 DEF Call
  <2>3. QED
    BY <2>1, <2>2, NothingMoves DEF Holds
<1>2. CASE TakeIdle(p)
  <2>1. CASE idle # <<>>
    <3>0. PICK h \in Reqs : h = Head(idle)
      BY <2>1, TakeHead
    <3>1. /\ \A r : Contains(idle, r) <=> r = h \/ Contains(Tail(idle), r)
          /\ IsInjective(Tail(idle)) /\ ~Contains(Tail(idle), h)
      BY <2>1, <3>0, TakeHead DEF RequestsConserved
    <3>2. /\ idle' = Tail(idle) /\ pending' = pending /\ cur' = cur
          /\ \A q \in Producers, r \in Reqs :
                Holds(q, r)' <=> IF q = p THEN r = h ELSE Holds(q, r)
      BY <1>2, <2>1, <3>0 DEF TakeIdle, Holds
    <3>3. \A r \in Reqs : ~Holds(p, r)
      BY <1>2 DEF TakeIdle, Holds
    <3>4. AtOnePlace(h)'
      BY <3>1, <3>2, <3>3 DEF RequestsConserved, AtOnePlace
    <3>5. ASSUME NEW r \in Reqs, r # h PROVE AtOnePlace(r)'
      BY <3>1, <3>2, <3>3, <3>5, StaysPut DEF RequestsConserved
    <3>6. QED
      BY <3>1, <3>2, <3>4, <3>5 DEF RequestsConserved
  <2>2. CASE idle = <<>>
    <3>1. UNCHANGED <<idle, pending, cur, req>>
      BY <1>2, <2>2 DEF TakeIdle
    <3>2. \A q \in Producers : pc'[q] = "queue" <=> pc[q] = "queue"
      BY <1>2, <2>2 DEF TakeIdle
    <3>3. QED
      BY <3>1, <3>2, NothingMoves DEF Holds
  <2>3. QED
    BY <2>1, <2>2
<1>3. CASE TakePending(p)
  <2>1. CASE pending # <<>>
    <3>0. PICK h \in Reqs : h = Head(pending)
      BY <2>1, TakeHead
    <3>1. /\ \A r : Contains(pending, r) <=> r = h \/ Contains(Tail(pending), r)
          /\ IsInjective(Tail(pending)) /\ ~Contains(Tail(pending), h)
      BY <2>1, <3>0, TakeHead DEF RequestsConserved
    <3>2. /\ idle' = idle /\ pending' = Tail(pending) /\ cur' = cur
          /\ \A q \in Producers, r \in Reqs :
                Holds(q, r)' <=> IF q = p THEN r = h ELSE Holds(q, r)
      BY <1>3, <2>1, <3>0 DEF TakePending, Holds
    <3>3. \A r \in Reqs : ~Holds(p, r)
      BY <1>3 DEF TakePending, Holds
    <3>4. AtOnePlace(h)'
      BY <3>1, <3>2, <3>3 DEF RequestsConserved, AtOnePlace
    <3>5. ASSUME NEW r \in Reqs, r # h PROVE AtOnePlace(r)'
      BY <3>1, <3>2, <3>3, <3>5, StaysPut DEF RequestsConserved
    <3>6. QED
      BY <3>1, <3>2, <3>4, <3>5 DEF RequestsConserved
  <2>2. CASE pending = <<>>
    <3>1. UNCHANGED <<idle, pending, cur, req>>
      BY <1>3, <2>2 DEF TakePending
    <3>2. \A q \in Producers : pc'[q] = "queue" <=> pc[q] = "queue"
      BY <1>3, <2>2 DEF TakePending
    <3>3. QED
      BY <3>1, <3>2, NothingMoves DEF Holds
  <2>3. QED
    BY <2>1, <2>2
<1>4. CASE Enqueue(p)
  <2>0. PICK h \in Reqs : h = req[p]
    BY <1>4 DEF Enqueue, ControlInv
  <2>1. Holds(p, h) /\ \A r \in Reqs : Holds(p, r) => r = h
    BY <1>4, <2>0 DEF Enqueue, Holds
  <2>2. /\ ~Contains(pending, h) /\ ~Contains(idle, h) /\ cur # h
        /\ \A q \in Producers : Holds(q, h) => q = p
    BY <2>1 DEF RequestsConserved, AtOnePlace
  <2>3. \A q \in Producers, r \in Reqs : Holds(q, r)' <=> q # p /\ Holds(q, r)
    BY <1>4 DEF Enqueue, Holds
  <2>4. CASE pending # <<>> \/ cur # NULL
    <3>1. /\ \A r : Contains(Append(pending, h), r) <=> Contains(pending, r) \/ r = h
          /\ IsInjective(Append(pending, h))
      BY <2>1, <2>2, PutTail DEF RequestsConserved, AtOnePlace
    <3>2. idle' = idle /\ pending' = Append(pending, h) /\ cur' = cur
      BY <1>4, <2>0, <2>4 DEF Enqueue
    <3>3. AtOnePlace(h)'
      BY <2>1, <2>2, <2>3, <3>1, <3>2 DEF AtOnePlace
    <3>4. ASSUME NEW r \in Reqs, r # h PROVE AtOnePlace(r)'
      BY <2>1, <2>3, <3>1, <3>2, <3>4, StaysPut DEF RequestsConserved
    <3>5. QED
      BY <3>1, <3>2, <3>3, <3>4 DEF RequestsConserved
  <2>5. CASE ~(pending # <<>> \/ cur # NULL)
    <3>1. idle' = idle /\ pending' = pending /\ cur' = h
      BY <1>4, <2>0, <2>5 DEF Enqueue
    <3>2. AtOnePlace(h)'
      BY <2>1, <2>2, <2>3, <3>1 DEF AtOnePlace
    <3>3. ASSUME NEW r \in Reqs, r # h PROVE AtOnePlace(r)'
      <4>1. cur' # r /\ cur # r
        BY <2>5, <3>1, <3>3
      <4>2. QED
        BY <2>1, <2>3, <3>1, <3>3, <4>1, StaysPut DEF RequestsConserved
    <3>4. QED
      BY <3>1, <3>2, <3>3 DEF RequestsConserved
  <2>6. QED
    BY <2>4, <2>5
<1>5. CASE PeekCur(p)
  <2>1. UNCHANGED <<idle, pending, cur>> /\ pc[p] = "peek"
    BY <1>5 DEF PeekCur
  <2>2. \A q \in Producers, r \in Reqs : Holds(q, r)' <=> Holds(q, r)
    BY <1>5 DEF PeekCur, Holds
  <2>3. QED
    BY <2>1, <2>2, NothingMoves
<1>6. CASE SendUrb(p)
  <2>1. UNCHANGED <<idle, pending, cur>> /\ pc[p] = "tx"
    BY <1>6 DEF SendUrb
  <2>2. \A q \in Producers, r \in Reqs : Holds(q, r)' <=> Holds(q, r)
    BY <1>6 DEF SendUrb, Holds
  <2>3. QED
    BY <2>1, <2>2, NothingMoves
<1>7. CASE SendFailed(p)
  <2>1. cur \in Reqs
    BY <1>7 DEF SendFailed, ControlInv, OneTransfer, Turn
  <2>2. \A q \in Producers, r \in Reqs : Holds(q, r)' <=> Holds(q, r)
    BY <1>7 DEF SendFailed, Holds
  <2>3. /\ Append(idle, cur) \in Seq(Reqs) /\ IsInjective(Append(idle, cur))
        /\ \A r : Contains(Append(idle, cur), r) <=> Contains(idle, r) \/ r = cur
    BY <2>1, PutTail DEF RequestsConserved, AtOnePlace
  <2>4. /\ IsInjective(Append(idle, cur) \o pending)
        /\ \A r : Contains(Append(idle, cur) \o pending, r)
                     <=> Contains(idle, r) \/ r = cur \/ Contains(pending, r)
    <3>1. /\ IsInjective(pending)
          /\ \A r \in Reqs : ~(Contains(Append(idle, cur), r) /\ Contains(pending, r))
      BY <2>1, <2>3 DEF RequestsConserved, AtOnePlace
    <3>2. /\ Append(idle, cur) \in Seq(Reqs) /\ pending \in Seq(Reqs)
          /\ IsInjective(Append(idle, cur))
      BY <2>3
    <3>3. PICK a \in Seq(Reqs) : a = Append(idle, cur)
      BY <3>2
    <3>4. IsInjective(a \o pending)
      BY <3>1, <3>2, <3>3, JoinLists
    <3>5. \A r : Contains(a \o pending, r) <=> Contains(a, r) \/ Contains(pending, r)
      BY <3>2, JoinLists
    <3>6. QED
      BY <2>3, <3>3, <3>4, <3>5
  <2>5. IsInjective(<<>>) /\ \A r : ~Contains(<<>>, r)
    BY DEF IsInjective, Contains
  <2>6. idle' = Append(idle, cur) \o pending /\ pending' = <<>> /\ cur' = NULL
    BY <1>7 DEF SendFailed
  <2>7. ASSUME NEW r \in Reqs PROVE AtOnePlace(r)'
    <3>1. /\ Contains(idle', r) <=> Contains(idle, r) \/ r = cur \/ Contains(pending, r)
          /\ ~Contains(pending', r) /\ cur' # r
      BY <2>1, <2>4, <2>5, <2>6
    <3>2. (\E q \in Producers : Holds(q, r)) => ~Contains(idle', r)
      BY <2>1, <3>1 DEF RequestsConserved, AtOnePlace
    <3>3. AtOnePlace(r)
      BY DEF RequestsConserved
    <3>4. QED
      BY <2>1, <2>2, <3>1, <3>2, <3>3 DEF AtOnePlace
  <2>8. QED
    BY <2>4, <2>5, <2>6, <2>7 DEF RequestsConserved
<1>8. QED
    BY <1>1, <1>2, <1>3, <1>4, <1>5, <1>6, <1>7 DEF Step

\* The completion gives requests back and takes the next one.
LEMMA CompletionConserves ==
    ASSUME SafeInv, RequestsConserved, Handler \/ \E ok \in BOOLEAN : HwDone(ok)
    PROVE  RequestsConserved'
<1> USE DEF SafeInv, TypeOK
<1>0. UNCHANGED <<pc, req>>
    BY DEF Handler, HwDone, XferDone, Release, Refill, RefillSend
<1>1. \A q \in Producers, r \in Reqs : Holds(q, r)' <=> Holds(q, r)
    BY <1>0 DEF Holds
<1>2. CASE XferDone \/ RefillSend \/ \E ok \in BOOLEAN : HwDone(ok)
  <2>1. UNCHANGED <<idle, pending, cur>>
    BY <1>2 DEF HwDone, XferDone, RefillSend
  <2>2. QED
    BY <1>1, <2>1, NothingMoves
<1>3. CASE Release
  <2>1. cur \in Reqs
    BY <1>3 DEF Release, ControlInv, OneTransfer
  <2>2. /\ Append(idle, cur) \in Seq(Reqs) /\ IsInjective(Append(idle, cur))
        /\ \A r : Contains(Append(idle, cur), r) <=> Contains(idle, r) \/ r = cur
    BY <2>1, PutTail DEF RequestsConserved, AtOnePlace
  <2>3. CASE urbOk
    <3>1. idle' = Append(idle, cur) /\ pending' = pending /\ cur' = NULL
      BY <1>3, <2>3 DEF Release
    <3>2. ASSUME NEW r \in Reqs PROVE AtOnePlace(r)'
      <4>1. CASE r = cur
        BY <1>1, <2>1, <2>2, <3>1, <4>1 DEF RequestsConserved, AtOnePlace
      <4>2. CASE r # cur
        <5>1. cur' # r
          BY <3>1
        <5>2. QED
          BY <1>1, <2>2, <3>1, <4>2, <5>1, StaysPut DEF RequestsConserved
      <4>3. QED
        BY <4>1, <4>2
    <3>3. QED
      BY <2>2, <3>1, <3>2 DEF RequestsConserved
  <2>4. CASE ~urbOk
    <3>0. /\ IsInjective(pending)
          /\ \A r \in Reqs : ~(Contains(Append(idle, cur), r) /\ Contains(pending, r))
      BY <2>1, <2>2 DEF RequestsConserved, AtOnePlace
    <3>1. /\ IsInjective(Append(idle, cur) \o pending)
          /\ \A r : Contains(Append(idle, cur) \o pending, r)
                       <=> Contains(idle, r) \/ r = cur \/ Contains(pending, r)
      <4>1. /\ Append(idle, cur) \in Seq(Reqs) /\ pending \in Seq(Reqs)
            /\ IsInjective(Append(idle, cur))
        BY <2>2
      <4>2. PICK a \in Seq(Reqs) : a = Append(idle, cur)
        BY <4>1
      <4>3. IsInjective(a \o pending)
        BY <3>0, <4>1, <4>2, JoinLists
      <4>4. \A r : Contains(a \o pending, r) <=> Contains(a, r) \/ Contains(pending, r)
        BY <4>1, JoinLists
      <4>5. QED
        BY <2>2, <4>2, <4>3, <4>4
    <3>2. IsInjective(<<>>) /\ \A r : ~Contains(<<>>, r)
      BY DEF IsInjective, Contains
    <3>3. idle' = Append(idle, cur) \o pending /\ pending' = <<>> /\ cur' = NULL
      BY <1>3, <2>4 DEF Release
    <3>4. ASSUME NEW r \in Reqs PROVE AtOnePlace(r)'
      <4>1. /\ Contains(idle', r) <=> Contains(idle, r) \/ r = cur \/ Contains(pending, r)
            /\ ~Contains(pending', r) /\ cur' # r
        BY <3>1, <3>2, <3>3
      <4>2. (\E q \in Producers : Holds(q, r)) => ~Contains(idle', r)
        BY <2>1, <4>1 DEF RequestsConserved, AtOnePlace
      <4>3. AtOnePlace(r)
        BY DEF RequestsConserved
      <4>4. QED
        BY <1>1, <2>1, <4>1, <4>2, <4>3 DEF AtOnePlace
    <3>5. QED
      BY <3>1, <3>2, <3>3, <3>4 DEF RequestsConserved
  <2>5. QED
    BY <2>3, <2>4
<1>4. CASE Refill
  <2>1. CASE cur = NULL /\ pending # <<>>
    <3>0. PICK h \in Reqs : h = Head(pending)
      BY <2>1, TakeHead
    <3>1. /\ \A r : Contains(pending, r) <=> r = h \/ Contains(Tail(pending), r)
          /\ IsInjective(Tail(pending)) /\ ~Contains(Tail(pending), h)
      BY <2>1, <3>0, TakeHead DEF RequestsConserved
    <3>2. idle' = idle /\ pending' = Tail(pending) /\ cur' = h
      BY <1>4, <2>1, <3>0 DEF Refill
    <3>3. AtOnePlace(h)'
      BY <1>1, <2>1, <3>1, <3>2 DEF RequestsConserved, AtOnePlace
    <3>4. ASSUME NEW r \in Reqs, r # h PROVE AtOnePlace(r)'
      <4>1. cur' # r /\ cur # r
        BY <2>1, <3>2, <3>4
      <4>2. QED
        BY <1>1, <3>1, <3>2, <3>4, <4>1, StaysPut DEF RequestsConserved
    <3>5. QED
      BY <3>1, <3>2, <3>3, <3>4 DEF RequestsConserved
  <2>2. CASE ~(cur = NULL /\ pending # <<>>)
    <3>1. UNCHANGED <<idle, pending, cur>>
      BY <1>4, <2>2 DEF Refill
    <3>2. QED
      BY <1>1, <3>1, NothingMoves
  <2>3. QED
    BY <2>1, <2>2
<1>5. QED
    BY <1>2, <1>3, <1>4 DEF Handler

\* In every reachable state each request is at exactly one place
\* (usb_pipe.c:214-433).
THEOREM NoRequestLost == Spec => []RequestsConserved
<1>1. SafeInv /\ RequestsConserved /\ [Next]_vars => RequestsConserved'
  <2> SUFFICES ASSUME SafeInv, RequestsConserved, [Next]_vars
               PROVE  RequestsConserved'
    OBVIOUS
  <2>1. CASE UNCHANGED vars
    BY <2>1 DEF vars, RequestsConserved, AtOnePlace, Holds
  <2>2. CASE Next
    BY <2>2, CallerConserves, CompletionConserves DEF Next
  <2>3. QED
    BY <2>1, <2>2
<1>2. QED
    BY <1>1, InitConserved, SafeInvariant, PTL DEF Spec

-----------------------------------------------------------------------------
(* No wake-up is lost *)

\* A caller neither leaves the queue unattended nor a current request without
\* somebody in charge of it.
LEMMA CallerWakes ==
    ASSUME SafeInv, WakeupInv, NEW p \in Producers,
           Step(p) \/ \E d \in Data : Call(p, d)
    PROVE  WakeupInv'
<1> USE DEF SafeInv, TypeOK, WakeupInv, ControlInv, OneTransfer, Turn
<1>1. ASSUME NEW d \in Data, Call(p, d) PROVE WakeupInv'
  <2>1. \A q \in Producers : Turn(q) => q # p
    BY <1>1 DEF Call
  <2>2. \A q \in Producers : q # p => (Turn(q)' <=> Turn(q))
    BY <1>1 DEF Call
  <2>3. QED
    BY <1>1, <2>1, <2>2 DEF Call
<1>2. CASE TakeIdle(p)
  <2>1. \A q \in Producers : Turn(q) => Turn(q)'
    BY <1>2 DEF TakeIdle
  <2>2. QED
    BY <1>2, <2>1 DEF TakeIdle
<1>3. CASE TakePending(p)
  <2>1. \A q \in Producers : Turn(q) => Turn(q)'
    BY <1>3 DEF TakePending
  <2>2. pending' # <<>> => pending # <<>>
    BY <1>3 DEF TakePending
  <2>3. QED
    BY <1>3, <2>1, <2>2 DEF TakePending
<1>4. CASE Enqueue(p)
  <2>1. CASE pending # <<>> \/ cur # NULL
    <3>1. \A q \in Producers : Turn(q) => Turn(q)'
      BY <1>4, <2>1 DEF Enqueue
    <3>2. cur' = cur /\ hw' = hw /\ xpc' = xpc
      BY <1>4, <2>1 DEF Enqueue
    <3>3. QED
      BY <2>1, <3>1, <3>2
  <2>2. CASE ~(pending # <<>> \/ cur # NULL)
    <3>1. Turn(p)' /\ cur' # NULL
      BY <1>4, <2>2 DEF Enqueue
    <3>2. QED
      BY <3>1
  <2>3. QED
    BY <2>1, <2>2
<1>5. CASE PeekCur(p)
  <2>1. \A q \in Producers : Turn(q) => Turn(q)'
    BY <1>5 DEF PeekCur
  <2>2. QED
    BY <1>5, <2>1 DEF PeekCur
<1>6. CASE SendUrb(p)
  <2>1. HasTx => hw' # "idle" \/ Turn(p)'
    BY <1>6 DEF SendUrb
  <2>2. UNCHANGED <<cur, pending, xpc>>
    BY <1>6 DEF SendUrb
  <2>3. QED
    BY <2>1, <2>2
<1>7. CASE SendFailed(p)
    BY <1>7 DEF SendFailed
<1>8. QED
    BY <1>1, <1>2, <1>3, <1>4, <1>5, <1>6, <1>7 DEF Step

\* Nor does the completion, if the controller takes what it hands on.
LEMMA CompletionWakes ==
    ASSUME ~HandlerTxMayFail, SafeInv, WakeupInv,
           Handler \/ \E ok \in BOOLEAN : HwDone(ok)
    PROVE  WakeupInv'
<1> USE DEF SafeInv, TypeOK, WakeupInv, ControlInv, OneTransfer
<1>1. \A q \in Producers : Turn(q)' <=> Turn(q)
    BY DEF Handler, HwDone, XferDone, Release, Refill, RefillSend, Turn
<1>2. ASSUME NEW ok \in BOOLEAN, HwDone(ok) PROVE WakeupInv'
    BY <1>1, <1>2 DEF HwDone
<1>3. CASE XferDone
    BY <1>1, <1>3 DEF XferDone
<1>4. CASE Release
    BY <1>4 DEF Release
<1>5. CASE Refill
    BY <1>1, <1>5 DEF Refill
<1>6. CASE RefillSend
    BY <1>6 DEF RefillSend
<1>7. QED
    BY <1>2, <1>3, <1>4, <1>5, <1>6 DEF Handler

\* As long as hal_usb_ep_tx accepts what usb_pipe_pending_req_handle gives it, a
\* pipe that comes to rest has nothing queued (usb_pipe.c:214-276, 386-399).
THEOREM NothingLeftQueued ==
    ASSUME ~HandlerTxMayFail, HasTx PROVE Spec => []NoLostWakeup
<1>1. Init => WakeupInv
    BY DEF Init, WakeupInv
<1>2. SafeInv /\ WakeupInv /\ [Next]_vars => WakeupInv'
  <2> SUFFICES ASSUME SafeInv, WakeupInv, [Next]_vars PROVE WakeupInv'
    OBVIOUS
  <2>1. CASE UNCHANGED vars
    BY <2>1 DEF vars, WakeupInv, Turn
  <2>2. CASE Next
    BY <2>2, CallerWakes, CompletionWakes DEF Next
  <2>3. QED
    BY <2>1, <2>2
<1>3. WakeupInv => NoLostWakeup
    BY DEF WakeupInv, NoLostWakeup, Quiet, Turn
<1>4. QED
    BY <1>1, <1>2, <1>3, SafeInvariant, PTL DEF Spec
=============================================================================

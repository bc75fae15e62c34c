--------------------------- MODULE PipeRefinement ---------------------------
(***************************************************************************)
(* Proof that UsbPipe implements SerialPipe, for every number of callers,  *)
(* requests and payloads: what callers hand over goes to the controller    *)
(* whole, at most once and in the order in which it was accepted.  A pipe  *)
(* without requests of its own (pending_req_num = 0) makes no promise.     *)
(***************************************************************************)
EXTENDS UsbPipeProofs, SequenceTheorems

-----------------------------------------------------------------------------
(* What the requests of a list carry *)

Items == Data \cup {NoData}
Buffers == [Reqs -> Items]

Carried(s, f) == [i \in 1 .. Len(s) |-> f[s[i]]]

LEMMA CarriedFacts ==
    ASSUME NEW s \in Seq(Reqs), NEW f \in Buffers
    PROVE  /\ Carried(s, f) \in Seq(Items) /\ Len(Carried(s, f)) = Len(s)
           /\ \A i \in 1 .. Len(s) : Carried(s, f)[i] = f[s[i]]
           /\ Carried(s, f) = <<>> <=> s = <<>>
<1>1. Len(s) \in Nat /\ \A i \in 1 .. Len(s) : s[i] \in Reqs
    BY LenProperties, ElementOfSeq
<1>2. Carried(s, f) \in Seq(Items) /\ Len(Carried(s, f)) = Len(s)
    BY <1>1, IsASeq DEF Carried, Buffers
<1>3. Carried(s, f) = <<>> <=> s = <<>>
    BY <1>2, EmptySeq
<1>4. QED
    BY <1>2, <1>3 DEF Carried

\* Writing to a request that is not in the list.
LEMMA CarriedKept ==
    ASSUME NEW s \in Seq(Reqs), NEW f, NEW g,
           \A r \in Reqs : Contains(s, r) => g[r] = f[r]
    PROVE  Carried(s, g) = Carried(s, f)
<1>1. \A i \in 1 .. Len(s) : s[i] \in Reqs /\ Contains(s, s[i])
    BY ElementOfSeq DEF Contains
<1>2. QED
    BY <1>1 DEF Carried

LEMMA CarriedTail ==
    ASSUME NEW s \in Seq(Reqs), NEW f \in Buffers, s # <<>>
    PROVE  /\ Carried(s, f) # <<>> /\ Head(Carried(s, f)) = f[Head(s)]
           /\ Carried(Tail(s), f) = Tail(Carried(s, f))
<1>1. /\ Tail(s) \in Seq(Reqs) /\ Len(Tail(s)) = Len(s) - 1 /\ Len(s) \in Nat \ {0}
      /\ \A i \in 1 .. Len(Tail(s)) : Tail(s)[i] = s[i + 1]
      /\ Head(s) = s[1]
    BY HeadTailProperties, EmptySeq
<1>2. /\ Carried(s, f) \in Seq(Items) /\ Len(Carried(s, f)) = Len(s) /\ Carried(s, f) # <<>>
      /\ \A i \in 1 .. Len(s) : Carried(s, f)[i] = f[s[i]]
    BY CarriedFacts
<1>3. /\ Carried(Tail(s), f) \in Seq(Items) /\ Len(Carried(Tail(s), f)) = Len(s) - 1
      /\ \A i \in 1 .. Len(s) - 1 : Carried(Tail(s), f)[i] = f[Tail(s)[i]]
    BY <1>1, CarriedFacts
<1>4. /\ Tail(Carried(s, f)) \in Seq(Items) /\ Len(Tail(Carried(s, f))) = Len(s) - 1
      /\ \A i \in 1 .. Len(s) - 1 : Tail(Carried(s, f))[i] = Carried(s, f)[i + 1]
    BY <1>2, HeadTailProperties
<1>5. ASSUME NEW i \in 1 .. Len(s) - 1
      PROVE  Carried(Tail(s), f)[i] = Tail(Carried(s, f))[i]
    BY <1>1, <1>2, <1>3, <1>4
<1>6. Carried(Tail(s), f) = Tail(Carried(s, f))
    BY <1>3, <1>4, <1>5, SeqEqual
<1>7. Head(Carried(s, f)) = f[Head(s)]
    BY <1>1, <1>2
<1>8. QED
    BY <1>2, <1>6, <1>7

LEMMA CarriedAppend ==
    ASSUME NEW s \in Seq(Reqs), NEW f \in Buffers, NEW e \in Reqs
    PROVE  Carried(Append(s, e), f) = Append(Carried(s, f), f[e])
<1> DEFINE a == Append(s, e)
           c == Append(Carried(s, f), f[e])
<1>1. /\ a \in Seq(Reqs) /\ Len(a) = Len(s) + 1 /\ a[Len(s) + 1] = e
      /\ \A i \in 1 .. Len(s) : a[i] = s[i]
      /\ Len(s) \in Nat /\ f[e] \in Items
    BY AppendProperties DEF Buffers
<1>2. /\ Carried(s, f) \in Seq(Items) /\ Len(Carried(s, f)) = Len(s)
      /\ \A i \in 1 .. Len(s) : Carried(s, f)[i] = f[s[i]]
    BY CarriedFacts
<1>3. /\ c \in Seq(Items) /\ Len(c) = Len(s) + 1 /\ c[Len(s) + 1] = f[e]
      /\ \A i \in 1 .. Len(s) : c[i] = Carried(s, f)[i]
    BY <1>1, <1>2, AppendProperties
<1> HIDE DEF a, c
<1>4. /\ Carried(a, f) \in Seq(Items) /\ Len(Carried(a, f)) = Len(s) + 1
      /\ \A i \in 1 .. Len(s) + 1 : Carried(a, f)[i] = f[a[i]]
    BY <1>1, CarriedFacts
<1>5. ASSUME NEW i \in 1 .. Len(s) + 1 PROVE Carried(a, f)[i] = c[i]
  <2>1. i = Len(s) + 1 \/ i \in 1 .. Len(s)
    BY <1>1
  <2>2. CASE i = Len(s) + 1
    BY <1>1, <1>3, <1>4, <2>2
  <2>3. CASE i \in 1 .. Len(s)
    BY <1>1, <1>2, <1>3, <1>4, <2>3
  <2>4. QED
    BY <2>1, <2>2, <2>3
<1>6. Carried(a, f) = c
    BY <1>3, <1>4, <1>5, SeqEqual
<1>7. QED
    BY <1>6 DEF a, c

-----------------------------------------------------------------------------
(* The mapping, and what it needs: a request that is current or queued     *)
(* carries a caller's data, and so does a caller until it has copied it.   *)

Waiting == Carried(pending, data)
Current == IF cur = NULL THEN NoData ELSE data[cur]
Wire == IF hw = "busy" THEN urbBuf ELSE NoData

Written ==
    /\ \A r \in Reqs : cur = r \/ Contains(pending, r) => data[r] \in Data
    /\ \A p \in Producers : pc[p] \in {"take", "drop", "queue"} => msg[p] \in Data

PipeInv == SafeInv /\ RequestsConserved /\ Written

LEMMA MappingFacts ==
    ASSUME PipeInv, HasTx
    PROVE  /\ Waiting = <<>> <=> pending = <<>>
           /\ Current = NoData <=> cur = NULL
           /\ cur = NULL => hw = "idle" /\ xpc # "cb" /\ CurPhase = "none" /\ Wire = NoData
           /\ \A p \in Producers : Turn(p) => CurPhase = "ready" /\ hw = "idle" /\ cur = req[p]
<1>1. pending \in Seq(Reqs) /\ data \in Buffers /\ cur \in Reqs \cup {NULL}
    BY DEF PipeInv, SafeInv, TypeOK, Buffers, Items
<1>2. Waiting = <<>> <=> pending = <<>>
    BY <1>1, CarriedFacts DEF Waiting
<1>3. Current = NoData <=> cur = NULL
    BY <1>1, NoDataAssumption DEF Current, PipeInv, Written
<1>4. cur = NULL => hw = "idle" /\ xpc # "cb" /\ CurPhase = "none" /\ Wire = NoData
    BY DEF PipeInv, SafeInv, OneTransfer, TypeOK, CurPhase, Wire
<1>5. ASSUME NEW p \in Producers, Turn(p)
      PROVE  CurPhase = "ready" /\ hw = "idle" /\ cur = req[p]
    BY <1>5 DEF PipeInv, SafeInv, OneTransfer, CurPhase
<1>6. QED
    BY <1>2, <1>3, <1>4, <1>5

\* The steps of SerialPipe, in terms of the mapping.
Implements == Serial!Next \/ UNCHANGED Serial!vars

LEMMA Accepts ==
    ASSUME NEW d \in Data, Wire' = Wire,
           IF Current = NoData /\ Waiting = <<>>
           THEN Current' = d /\ CurPhase' = "ready" /\ Waiting' = Waiting
           ELSE Waiting' = Append(Waiting, d) /\ Current' = Current /\ CurPhase' = CurPhase
    PROVE  Implements
<1>1. Serial!Accept(d)
    BY DEF Serial!Accept, Waiting, Carried, Current, Wire
<1>2. QED
    BY <1>1 DEF Implements, Serial!Next

LEMMA Drops ==
    ASSUME Waiting # <<>>, Waiting' = Tail(Waiting),
           Current' = Current, CurPhase' = CurPhase, Wire' = Wire
    PROVE  Implements
<1>1. Serial!DropOldest
    BY DEF Serial!DropOldest, Waiting, Carried, Current, Wire
<1>2. QED
    BY <1>1 DEF Implements, Serial!Next

LEMMA Promotes ==
    ASSUME Current = NoData, Waiting # <<>>, Waiting' = Tail(Waiting),
           Current' = Head(Waiting), CurPhase' = "ready", Wire' = Wire
    PROVE  Implements
<1>1. Serial!Promote
    BY DEF Serial!Promote, Waiting, Carried, Current, Wire
<1>2. QED
    BY <1>1 DEF Implements, Serial!Next

LEMMA Starts ==
    ASSUME CurPhase = "ready", CurPhase' = "sending", Wire' = Current,
           Current' = Current, Waiting' = Waiting
    PROVE  Implements
<1>1. Serial!Start
    BY DEF Serial!Start, Waiting, Carried, Current, Wire
<1>2. QED
    BY <1>1 DEF Implements, Serial!Next

LEMMA Finishes ==
    ASSUME CurPhase = "sending", CurPhase' = "sent", Wire' = NoData,
           Current' = Current, Waiting' = Waiting
    PROVE  Implements
<1>1. Serial!Finish
    BY DEF Serial!Finish, Waiting, Carried, Current, Wire
<1>2. QED
    BY <1>1 DEF Implements, Serial!Next

LEMMA Releases ==
    ASSUME CurPhase = "sent", CurPhase' = "none", Wire' = Wire,
           Current' = NoData, Waiting' \in {Waiting, <<>>}
    PROVE  Implements
<1>1. Serial!Release
    BY DEF Serial!Release, Waiting, Carried, Current, Wire
<1>2. QED
    BY <1>1 DEF Implements, Serial!Next

LEMMA Abandons ==
    ASSUME CurPhase = "ready", CurPhase' = "none", Wire' = Wire,
           Current' = NoData, Waiting' = <<>>
    PROVE  Implements
<1>1. Serial!Abandon
    BY DEF Serial!Abandon, Waiting, Carried, Current, Wire
<1>2. QED
    BY <1>1 DEF Implements, Serial!Next

LEMMA Stutters ==
    ASSUME UNCHANGED <<Waiting, Current, CurPhase, Wire>>
    PROVE  Implements
    BY DEF Implements, Serial!vars, Waiting, Carried, Current, Wire

\* A step that moves no request, writes none and leaves the controller alone.
LEMMA Idles ==
    ASSUME UNCHANGED <<pending, cur, data, hw, urbBuf, xpc>>
    PROVE  Implements
<1>1. UNCHANGED <<Waiting, Current, CurPhase, Wire>>
    BY DEF Waiting, Carried, Current, CurPhase, Wire
<1>2. QED
    BY <1>1, Stutters

-----------------------------------------------------------------------------
(* Every step of the callers *)

USE ReqNumAssumption DEF NULL, HasTx, Reqs, tx, urb, Goto, FillUrb

LEMMA CallImplements ==
    ASSUME PipeInv, HasTx, NEW p \in Producers, NEW d \in Data, Call(p, d)
    PROVE  Written' /\ Implements
<1>1. UNCHANGED <<idle, pending, cur, data, hw, urbBuf, xpc>>
    BY DEF Call
<1>2. msg' = [msg EXCEPT ![p] = d] /\ pc' = [pc EXCEPT ![p] = "take"]
    BY DEF Call
<1>3. Written'
    BY <1>1, <1>2 DEF PipeInv, Written, SafeInv, TypeOK
<1>4. QED
    BY <1>1, <1>3, Idles

LEMMA TakeIdleImplements ==
    ASSUME PipeInv, NEW p \in Producers, TakeIdle(p)
    PROVE  Written' /\ Implements
<1>1. UNCHANGED <<pending, cur, data, hw, urbBuf, xpc>> /\ pc[p] = "take"
    BY DEF TakeIdle
<1>2. \A q \in Producers :
          pc'[q] \in {"take", "drop", "queue"}
              => pc[q] \in {"take", "drop", "queue"} /\ msg'[q] = msg[q]
    BY DEF TakeIdle, PipeInv, SafeInv, TypeOK
<1>3. Written'
    BY <1>1, <1>2 DEF PipeInv, Written
<1>4. QED
    BY <1>1, <1>3, Idles

\* Congestion: the oldest gives way.
LEMMA TakePendingImplements ==
    ASSUME PipeInv, NEW p \in Producers, TakePending(p)
    PROVE  Written' /\ Implements
<1>1. pending \in Seq(Reqs) /\ data \in Buffers
    BY DEF PipeInv, SafeInv, TypeOK, Buffers, Items
<1>2. UNCHANGED <<cur, data, hw, urbBuf, xpc, msg>> /\ pc[p] = "drop"
    BY DEF TakePending
<1>3. \A q \in Producers : pc'[q] \in {"take", "drop", "queue"}
                               => pc[q] \in {"take", "drop", "queue"}
    BY DEF TakePending, PipeInv, SafeInv, TypeOK
<1>4. CASE pending # <<>>
  <2>1. pending' = Tail(pending)
    BY <1>4 DEF TakePending
  <2>2. \A r \in Reqs : Contains(pending', r) => Contains(pending, r)
    BY <1>1, <1>4, <2>1, TakeHead
  <2>3. Written'
    BY <1>2, <1>3, <2>2 DEF PipeInv, Written
  <2>4. Waiting # <<>> /\ Waiting' = Tail(Waiting)
    BY <1>1, <1>2, <1>4, <2>1, CarriedTail DEF Waiting
  <2>5. UNCHANGED <<Current, CurPhase, Wire>>
    BY <1>2 DEF Current, CurPhase, Wire
  <2>6. QED
    BY <2>3, <2>4, <2>5, Drops
<1>5. CASE pending = <<>>
  <2>1. pending' = pending
    BY <1>5 DEF TakePending
  <2>2. Written'
    BY <1>2, <1>3, <2>1 DEF PipeInv, Written
  <2>3. QED
    BY <1>2, <2>1, <2>2, Idles
<1>6. QED
    BY <1>4, <1>5

\* The copy goes to a request that nobody else has.
LEMMA EnqueueImplements ==
    ASSUME PipeInv, HasTx, NEW p \in Producers, Enqueue(p)
    PROVE  Written' /\ Implements
<1> DEFINE h == req[p]
           d == msg[p]
<1>1. /\ pending \in Seq(Reqs) /\ data \in Buffers /\ cur \in Reqs \cup {NULL} /\ h \in Reqs
      /\ pc[p] = "queue" /\ d \in Data /\ NULL \notin Reqs
    BY DEF PipeInv, SafeInv, TypeOK, ControlInv, Written, Enqueue, Buffers, Items
<1>2. Holds(p, h) /\ ~Contains(pending, h) /\ cur # h
    BY <1>1 DEF PipeInv, RequestsConserved, AtOnePlace, Holds
<1>3. /\ data' = [data EXCEPT ![h] = d] /\ UNCHANGED <<hw, urbBuf, xpc>>
      /\ msg' = [msg EXCEPT ![p] = NoData] /\ pc' = [pc EXCEPT ![p] = "peek"]
    BY DEF Enqueue
<1> HIDE DEF h, d
<1>4. data' \in Buffers /\ data'[h] = d /\ \A r \in Reqs : r # h => data'[r] = data[r]
    BY <1>1, <1>3 DEF Buffers, Items
<1>5. \A q \in Producers : pc'[q] \in {"take", "drop", "queue"}
          => pc[q] \in {"take", "drop", "queue"} /\ msg'[q] = msg[q]
    BY <1>3 DEF PipeInv, SafeInv, TypeOK
<1>6. Carried(pending, data') = Waiting
    BY <1>1, <1>2, <1>4, CarriedKept DEF Waiting
<1>7. cur # NULL => data'[cur] = data[cur]
    BY <1>1, <1>2, <1>4
<1>8. CASE pending # <<>> \/ cur # NULL
  <2>1. pending' = Append(pending, h) /\ cur' = cur
    BY <1>8 DEF Enqueue, h
  <2>2. \A r \in Reqs : Contains(pending', r) => Contains(pending, r) \/ r = h
    BY <1>1, <2>1, PutTail
  <2>3. Written'
    BY <1>1, <1>4, <1>5, <2>1, <2>2 DEF PipeInv, Written
  <2>4. Waiting' = Append(Waiting, d)
    BY <1>1, <1>4, <1>6, <2>1, CarriedAppend DEF Waiting
  <2>5. UNCHANGED <<Current, CurPhase, Wire>>
    BY <1>3, <1>7, <2>1 DEF Current, CurPhase, Wire
  <2>6. ~(Current = NoData /\ Waiting = <<>>)
    BY <1>8, MappingFacts
  <2>7. QED
    BY <1>1, <2>3, <2>4, <2>5, <2>6, Accepts
<1>9. CASE pending = <<>> /\ cur = NULL
  <2>1. pending' = pending /\ cur' = h
    BY <1>9 DEF Enqueue, h
  <2>2. Written'
    BY <1>1, <1>4, <1>5, <2>1 DEF PipeInv, Written
  <2>3. hw = "idle" /\ xpc # "cb" /\ Current = NoData /\ Waiting = <<>>
    BY <1>9, MappingFacts
  <2>4. Waiting' = Waiting
    BY <1>6, <2>1 DEF Waiting
  <2>5. Current' = d /\ CurPhase' = "ready" /\ Wire' = Wire
    BY <1>1, <1>3, <1>4, <2>1, <2>3 DEF Current, CurPhase, Wire
  <2>6. QED
    BY <1>1, <2>2, <2>3, <2>4, <2>5, Accepts
<1>10. QED
    BY <1>8, <1>9

LEMMA PeekImplements ==
    ASSUME PipeInv, NEW p \in Producers, PeekCur(p)
    PROVE  Written' /\ Implements
<1>1. UNCHANGED <<pending, cur, data, hw, urbBuf, xpc, msg>> /\ pc[p] = "peek"
    BY DEF PeekCur
<1>2. \A q \in Producers : pc'[q] \in {"take", "drop", "queue"}
                               => pc[q] \in {"take", "drop", "queue"}
    BY DEF PeekCur, PipeInv, SafeInv, TypeOK
<1>3. Written'
    BY <1>1, <1>2 DEF PipeInv, Written
<1>4. QED
    BY <1>1, <1>3, Idles

\* Whoever sends, sends what is current.
LEMMA SendUrbImplements ==
    ASSUME PipeInv, HasTx, NEW p \in Producers, SendUrb(p)
    PROVE  Written' /\ Implements
<1>1. Turn(p) /\ UNCHANGED <<pending, cur, data, xpc>> /\ urbBuf' = data[req[p]]
    BY DEF SendUrb, Turn
<1>2. \A q \in Producers : pc'[q] \in {"take", "drop", "queue"}
          => pc[q] \in {"take", "drop", "queue"} /\ msg'[q] = msg[q]
    BY DEF SendUrb, PipeInv, SafeInv, TypeOK
<1>3. Written'
    BY <1>1, <1>2 DEF PipeInv, Written
<1>4. CurPhase = "ready" /\ hw = "idle" /\ cur = req[p] /\ cur # NULL
    BY <1>1, MappingFacts DEF PipeInv, SafeInv, OneTransfer
<1>5. Waiting' = Waiting /\ Current' = Current
    BY <1>1 DEF Waiting, Carried, Current
<1>6. CASE hw' = "busy"
  <2>1. CurPhase' = "sending" /\ Wire' = Current
    BY <1>1, <1>4, <1>6 DEF CurPhase, Wire, Current
  <2>2. QED
    BY <1>3, <1>4, <1>5, <2>1, Starts
<1>7. CASE hw' = hw
  <2>1. CurPhase' = CurPhase /\ Wire' = Wire
    BY <1>1, <1>4, <1>7 DEF CurPhase, Wire
  <2>2. QED
    BY <1>3, <1>5, <2>1, Stutters
<1>8. QED
    BY <1>6, <1>7 DEF SendUrb

LEMMA SendFailedImplements ==
    ASSUME PipeInv, HasTx, NEW p \in Producers, SendFailed(p)
    PROVE  Written' /\ Implements
<1>1. /\ Turn(p) /\ UNCHANGED <<data, hw, urbBuf, xpc, msg>>
      /\ pending' = <<>> /\ cur' = NULL
    BY DEF SendFailed, Turn
<1>2. \A q \in Producers : pc'[q] \in {"take", "drop", "queue"}
                               => pc[q] \in {"take", "drop", "queue"}
    BY DEF SendFailed, PipeInv, SafeInv, TypeOK
<1>3. \A r \in Reqs : ~Contains(pending', r) /\ cur' # r
    BY <1>1 DEF Contains
<1>4. Written'
    BY <1>1, <1>2, <1>3 DEF PipeInv, Written
<1>5. CurPhase = "ready" /\ hw = "idle"
    BY <1>1, MappingFacts
<1>6. CurPhase' = "none" /\ Wire' = Wire /\ Current' = NoData
    BY <1>1 DEF CurPhase, Wire, Current
<1>7. Waiting' = <<>>
    BY <1>1 DEF Waiting, Carried
<1>8. QED
    BY <1>4, <1>5, <1>6, <1>7, Abandons

-----------------------------------------------------------------------------
(* Every step of the controller and of the completion *)

LEMMA HwDoneImplements ==
    ASSUME PipeInv, HasTx, NEW ok \in BOOLEAN, HwDone(ok)
    PROVE  Written' /\ Implements
<1>1. UNCHANGED <<pending, cur, data, xpc, msg, pc>> /\ hw = "busy" /\ hw' = "done"
    BY DEF HwDone
<1>2. Written'
    BY <1>1 DEF PipeInv, Written
<1>3. cur # NULL
    BY <1>1 DEF PipeInv, SafeInv, OneTransfer
<1>4. CurPhase = "sending" /\ CurPhase' = "sent" /\ Wire' = NoData
    BY <1>1, <1>3 DEF CurPhase, Wire
<1>5. Current' = Current /\ Waiting' = Waiting
    BY <1>1 DEF Current, Waiting, Carried
<1>6. QED
    BY <1>2, <1>4, <1>5, Finishes

LEMMA XferDoneImplements ==
    ASSUME PipeInv, HasTx, XferDone
    PROVE  Written' /\ Implements
<1>1. /\ UNCHANGED <<pending, cur, data, urbBuf, msg, pc>>
      /\ hw = "done" /\ hw' = "idle" /\ xpc' = "cb"
    BY DEF XferDone
<1>2. Written'
    BY <1>1 DEF PipeInv, Written
<1>3. UNCHANGED <<Waiting, Current, CurPhase, Wire>>
    BY <1>1 DEF Waiting, Carried, Current, CurPhase, Wire
<1>4. QED
    BY <1>2, <1>3, Stutters

LEMMA ReleaseImplements ==
    ASSUME PipeInv, HasTx, Release
    PROVE  Written' /\ Implements
<1>1. /\ UNCHANGED <<data, hw, urbBuf, msg, pc>> /\ xpc = "cb"
      /\ cur' = NULL /\ pending' \in {pending, <<>>}
    BY DEF Release
<1>2. \A r \in Reqs : cur' # r /\ (Contains(pending', r) => Contains(pending, r))
    BY <1>1 DEF Contains
<1>3. Written'
    BY <1>1, <1>2 DEF PipeInv, Written
<1>4. hw = "idle" /\ cur # NULL
    BY <1>1 DEF PipeInv, SafeInv, OneTransfer
<1>5. CurPhase = "sent" /\ CurPhase' = "none" /\ Wire' = Wire /\ Current' = NoData
    BY <1>1, <1>4 DEF CurPhase, Wire, Current
<1>6. Waiting' \in {Waiting, <<>>}
  <2>1. CASE pending' = pending
    BY <1>1, <2>1 DEF Waiting
  <2>2. CASE pending' = <<>>
    BY <2>2 DEF Waiting, Carried
  <2>3. QED
    BY <1>1, <2>1, <2>2
<1>7. QED
    BY <1>3, <1>5, <1>6, Releases

LEMMA RefillImplements ==
    ASSUME PipeInv, HasTx, Refill
    PROVE  Written' /\ Implements
<1>1. /\ pending \in Seq(Reqs) /\ data \in Buffers
      /\ UNCHANGED <<data, hw, urbBuf, msg, pc>> /\ xpc = "refill"
    BY DEF PipeInv, SafeInv, TypeOK, Refill, Buffers, Items
<1>2. CASE cur = NULL /\ pending # <<>>
  <2>1. cur' = Head(pending) /\ pending' = Tail(pending) /\ xpc' = "tx"
    BY <1>2 DEF Refill
  <2>2. /\ Head(pending) \in Reqs /\ Contains(pending, Head(pending))
        /\ \A r \in Reqs : Contains(pending', r) => Contains(pending, r)
    BY <1>1, <1>2, <2>1, TakeHead
  <2>3. Written'
    BY <1>1, <2>1, <2>2 DEF PipeInv, Written
  <2>4. hw = "idle" /\ Current = NoData
    BY <1>2, MappingFacts
  <2>5. /\ Waiting # <<>> /\ Head(Waiting) = data[Head(pending)]
        /\ Waiting' = Tail(Waiting)
    BY <1>1, <1>2, <2>1, CarriedTail DEF Waiting
  <2>6. Current' = Head(Waiting) /\ CurPhase' = "ready" /\ Wire' = Wire
    BY <1>1, <2>1, <2>2, <2>4, <2>5 DEF Current, CurPhase, Wire
  <2>7. QED
    BY <2>3, <2>4, <2>5, <2>6, Promotes
<1>3. CASE ~(cur = NULL /\ pending # <<>>)
  <2>1. UNCHANGED <<cur, pending>> /\ xpc' = "out"
    BY <1>3 DEF Refill
  <2>2. Written'
    BY <1>1, <2>1 DEF PipeInv, Written
  <2>3. UNCHANGED <<Waiting, Current, CurPhase, Wire>>
    BY <1>1, <2>1 DEF Waiting, Carried, Current, CurPhase, Wire
  <2>4. QED
    BY <2>2, <2>3, Stutters
<1>4. QED
    BY <1>2, <1>3

LEMMA RefillSendImplements ==
    ASSUME PipeInv, HasTx, RefillSend
    PROVE  Written' /\ Implements
<1>1. /\ UNCHANGED <<pending, cur, data, msg, pc>> /\ urbBuf' = data[cur]
      /\ xpc = "tx" /\ xpc' = "out" /\ hw' \in {hw, "busy"}
    BY DEF RefillSend
<1>2. Written'
    BY <1>1 DEF PipeInv, Written
<1>3. hw = "idle" /\ cur # NULL
    BY <1>1 DEF PipeInv, SafeInv, OneTransfer
<1>4. CurPhase = "ready" /\ Waiting' = Waiting /\ Current' = Current
    BY <1>1, <1>3 DEF CurPhase, Waiting, Carried, Current
<1>5. CASE hw' = "busy"
  <2>1. CurPhase' = "sending" /\ Wire' = Current
    BY <1>1, <1>3, <1>5 DEF CurPhase, Wire, Current
  <2>2. QED
    BY <1>2, <1>4, <2>1, Starts
<1>6. CASE hw' = hw
  <2>1. CurPhase' = CurPhase /\ Wire' = Wire
    BY <1>1, <1>3, <1>6 DEF CurPhase, Wire
  <2>2. QED
    BY <1>2, <1>4, <2>1, Stutters
<1>7. QED
    BY <1>1, <1>5, <1>6

-----------------------------------------------------------------------------
(* The theorem *)

LEMMA StepImplements ==
    ASSUME PipeInv, HasTx, [Next]_vars
    PROVE  Written' /\ Implements
<1>1. CASE UNCHANGED vars
  <2>1. UNCHANGED <<pending, cur, data, hw, urbBuf, xpc, msg, pc>>
    BY <1>1 DEF vars
  <2>2. Written'
    BY <2>1 DEF PipeInv, Written
  <2>3. QED
    BY <2>1, <2>2, Idles
<1>2. ASSUME NEW p \in Producers, Step(p) \/ \E d \in Data : Call(p, d)
      PROVE  Written' /\ Implements
    BY <1>2, CallImplements, TakeIdleImplements, TakePendingImplements, EnqueueImplements,
       PeekImplements, SendUrbImplements, SendFailedImplements DEF Step
<1>3. CASE Handler \/ \E ok \in BOOLEAN : HwDone(ok)
    BY <1>3, HwDoneImplements, XferDoneImplements, ReleaseImplements, RefillImplements,
       RefillSendImplements DEF Handler
<1>4. QED
    BY <1>1, <1>2, <1>3 DEF Next

\* A data pipe with requests of its own is a serial queue: each item accepted by
\* usb_pipe_send is transmitted whole, at most once and in order, and leaves only
\* when it is sent, refused or dropped for room (usb_pipe.c:214-433).
THEOREM PipeRefines ==
    ASSUME HasTx PROVE Spec => ImplementsSerialPipe
<1>1. Init => Written /\ Serial!Init
  <2> SUFFICES ASSUME Init PROVE Written /\ Serial!Init
    OBVIOUS
  <2>1. Written
    BY DEF Init, Written, Contains
  <2>2. Serial!Init
    BY DEF Init, Serial!Init, CurPhase
  <2>3. QED
    BY <2>1, <2>2
<1>2. SafeInv /\ RequestsConserved /\ Written /\ [Next]_vars => Written' /\ Implements
    BY StepImplements DEF PipeInv
<1>3. Implements => [Serial!Next]_Serial!vars
    BY DEF Implements
<1>4. QED
    BY <1>1, <1>2, <1>3, SafeInvariant, NoRequestLost, PTL
       DEF Spec, ImplementsSerialPipe, Serial!Spec
=============================================================================

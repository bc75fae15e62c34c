--------------------------- MODULE UsbCoreProofs ---------------------------
(***************************************************************************)
(* Proofs about UsbCore for every queue length, number of hooks per        *)
(* interrupt and load of the application: the count of unhandled messages, *)
(* the mask of the interrupt, the packet buffer, and that the device       *)
(* listens again.                                                          *)
(***************************************************************************)
EXTENDS UsbCore, FiniteSetTheorems, TLAPS

-----------------------------------------------------------------------------
(* Counting messages *)

LEMMA CountType ==
    ASSUME NEW M, NEW s \in Seq(M), NEW types
    PROVE  /\ IsFiniteSet({i \in DOMAIN s : s[i].type \in types})
           /\ CountOf(s, types) \in Nat
           /\ CountOf(s, types) <= Len(s)
           /\ CountOf(s, types) = 0 <=> \A i \in DOMAIN s : s[i].type \notin types
<1>1. Len(s) \in Nat /\ DOMAIN s = 1..Len(s)
    OBVIOUS
<1>2. IsFiniteSet(1..Len(s)) /\ Cardinality(1..Len(s)) = Len(s)
    BY <1>1, FS_Interval
<1>3. PICK C : C = {i \in DOMAIN s : s[i].type \in types}
    OBVIOUS
<1>4. C \in SUBSET (1..Len(s))
    BY <1>1, <1>3
<1>5. IsFiniteSet(C) /\ Cardinality(C) <= Len(s)
    BY <1>2, <1>4, FS_Subset
<1>6. Cardinality(C) \in Nat /\ (Cardinality(C) = 0 <=> C = {})
    BY <1>5, FS_CardinalityType, FS_EmptySet
<1>7. QED
    BY <1>3, <1>5, <1>6 DEF CountOf

LEMMA CountAppend ==
    ASSUME NEW M, NEW s \in Seq(M), NEW m \in M, NEW types
    PROVE  CountOf(Append(s, m), types) =
               CountOf(s, types) + (IF m.type \in types THEN 1 ELSE 0)
<1>1. /\ Len(s) \in Nat /\ DOMAIN s = 1..Len(s)
      /\ DOMAIN Append(s, m) = 1..(Len(s) + 1)
      /\ \A i \in 1..Len(s) : Append(s, m)[i] = s[i]
      /\ Append(s, m)[Len(s) + 1] = m
    OBVIOUS
<1>2. PICK C : C = {i \in DOMAIN s : s[i].type \in types}
    OBVIOUS
<1>3. IsFiniteSet(C) /\ Cardinality(C) = CountOf(s, types) /\ CountOf(s, types) \in Nat
    BY <1>2, CountType DEF CountOf
<1>4. Len(s) + 1 \notin C
    BY <1>1, <1>2
<1>5. PICK D : D = {i \in DOMAIN Append(s, m) : Append(s, m)[i].type \in types}
    OBVIOUS
<1>6. CountOf(Append(s, m), types) = Cardinality(D)
    BY <1>5 DEF CountOf
<1>7. Cardinality(C \cup {Len(s) + 1}) = Cardinality(C) + 1
    BY <1>3, <1>4, FS_AddElement
<1>8. CASE m.type \in types
  <2>1. D = C \cup {Len(s) + 1}
    BY <1>1, <1>2, <1>5, <1>8
  <2>2. QED
    BY <1>3, <1>6, <1>7, <1>8, <2>1
<1>9. CASE m.type \notin types
  <2>1. D = C
    BY <1>1, <1>2, <1>5, <1>9
  <2>2. QED
    BY <1>3, <1>6, <1>9, <2>1
<1>10. QED
    BY <1>8, <1>9

LEMMA CountTail ==
    ASSUME NEW M, NEW s \in Seq(M), s # <<>>, NEW types
    PROVE  CountOf(s, types) =
               CountOf(Tail(s), types) + (IF Head(s).type \in types THEN 1 ELSE 0)
<1>1. /\ Len(s) \in Nat \ {0} /\ DOMAIN s = 1..Len(s) /\ Head(s) = s[1]
      /\ Tail(s) \in Seq(M) /\ DOMAIN Tail(s) = 1..(Len(s) - 1)
      /\ \A i \in 1..(Len(s) - 1) : Tail(s)[i] = s[i + 1]
    OBVIOUS
<1>2. PICK C : C = {i \in DOMAIN s : s[i].type \in types}
    OBVIOUS
<1>3. PICK D : D = {i \in DOMAIN Tail(s) : Tail(s)[i].type \in types}
    OBVIOUS
<1>4. /\ IsFiniteSet(C) /\ Cardinality(C) = CountOf(s, types)
      /\ IsFiniteSet(D) /\ Cardinality(D) = CountOf(Tail(s), types)
      /\ Cardinality(C) \in Nat /\ Cardinality(D) \in Nat
    BY <1>1, <1>2, <1>3, CountType DEF CountOf
<1>5. [i \in D |-> i + 1] \in Bijection(D, C \ {1})
  <2>1. ASSUME NEW i \in D PROVE i + 1 \in C \ {1}
    BY <1>1, <1>2, <1>3
  <2>2. ASSUME NEW j \in C \ {1} PROVE j - 1 \in D /\ (j - 1) + 1 = j
    BY <1>1, <1>2, <1>3
  <2>3. D \in SUBSET Nat
    BY <1>1, <1>3
  <2>4. PICK f : f = [i \in D |-> i + 1]
    OBVIOUS
  <2>5. f \in [D -> C \ {1}] /\ \A i \in D : f[i] = i + 1
    BY <2>1, <2>4
  <2>6. \A a, b \in D : f[a] = f[b] => a = b
    BY <2>3, <2>5
  <2>7. \A j \in C \ {1} : \E i \in D : f[i] = j
    BY <2>2, <2>5
  <2>8. QED
    BY <2>4, <2>5, <2>6, <2>7 DEF Bijection, Injection, Surjection, IsInjective
<1>6. Cardinality(C \ {1}) = Cardinality(D)
    BY <1>4, <1>5, FS_Bijection DEF ExistsBijection
<1>7. Cardinality(C \ {1}) = IF 1 \in C THEN Cardinality(C) - 1 ELSE Cardinality(C)
    BY <1>4, FS_RemoveElement
<1>8. 1 \in C <=> Head(s).type \in types
    BY <1>1, <1>2
<1>9. QED
    BY <1>4, <1>6, <1>7, <1>8

-----------------------------------------------------------------------------
(* The inductive invariant *)

\* What the theorems assume of the deployment: the queue has room for what one
\* interrupt and the application may post, the count does not wrap, the
\* application starts the device only when nothing is queued, and the PHY wakes.
QueueFits == /\ MaxPosts + EventsPerIrq <= QueueLen /\ EventsPerIrq < Width
             /\ ~RestartWhileBusy /\ ~ExitMayFail

\* The count is exact, the decrement under way is not stale, the queue has room.
CountInv == /\ PendingCounts
            /\ pending <= EventsPerIrq
            /\ CountOf(queue, DmTypes) <= MaxPosts
            /\ tpc \in {"store", "storePdn"} => tmp = pending

\* The interrupt only runs when everything before was handled.
MaskInv == /\ MaskedWhilePending
           /\ ipc = "in" => /\ ~nvic /\ attached /\ ~asleep
                            /\ pending <= taken /\ taken <= EventsPerIrq
                            /\ InHand = 0

PowerInv == /\ pwr = "PDN" => ~attached
            /\ pwr = "SUSPENDED" => before # "PDN"
            /\ asleep => queue = <<>> /\ tpc = "wait" /\ ipc = "out"
            /\ tpc \in {"decPdn", "storePdn"} => ~attached

\* A START finds the device down and everything handled.
StartInv == /\ \A i \in DOMAIN queue : queue[i].type = "START" =>
                   i = 1 /\ pwr = "PDN" /\ pending = 0 /\ tpc = "wait"
            /\ tpc = "dm" /\ tmsg.type = "START" => pwr = "PDN" /\ pending = 0

\* One SETUP is on its way at a time, and the buffer holds its packet.
SetupInv == /\ \A i, j \in DOMAIN hwEv :
                   hwEv[i].type = "SETUP" /\ hwEv[j].type = "SETUP" => i = j
            /\ ipc = "in" /\ ~NoneLatched("SETUP") =>
                   /\ \A i \in DOMAIN queue : queue[i].type # "SETUP"
                   /\ ~(tpc = "hal" /\ tmsg.type = "SETUP")
            /\ \A i, j \in DOMAIN queue :
                   queue[i].type = "SETUP" /\ queue[j].type = "SETUP" => i = j
            /\ \A i \in DOMAIN queue : queue[i].type = "SETUP" =>
                   setup_pkt = queue[i].pkt /\ ~(tpc = "hal" /\ tmsg.type = "SETUP")
            /\ SetupIntact

ListenInv == attached /\ ~asleep /\ ipc = "out" /\ pending = 0 /\ tpc # "enable" => nvic

IInv == TypeOK /\ CountInv /\ MaskInv /\ PowerInv /\ StartInv /\ SetupInv /\ ListenInv

LEMMA InitInv == Init => IInv
<1> SUFFICES ASSUME Init PROVE IInv
    OBVIOUS
<1> USE LimitsAssumption DEF Init
<1>1. TypeOK
  <2>1. queue \in Seq(Msgs) /\ hwEv \in Seq(HalMsgs)
    OBVIOUS
  <2>2. tmsg \in Msgs
    BY DEF Msg, Msgs, DmTypes
  <2>3. /\ pending \in 0..(Width - 1) /\ tmp \in 0..(Width - 1)
        /\ pwr \in PwrStates /\ before \in PwrStates
    BY DEF Width, PwrStates
  <2>4. QED
    BY <2>1, <2>2, <2>3 DEF TypeOK
<1>2. CountOf(queue, HalTypes) = 0 /\ CountOf(queue, DmTypes) = 0
  <2>1. queue \in Seq(Msgs) /\ DOMAIN queue = {}
    OBVIOUS
  <2>2. QED
    BY <2>1, CountType
<1>3. CountInv
    BY <1>2 DEF CountInv, PendingCounts, InHand
<1>4. MaskInv /\ PowerInv /\ StartInv /\ SetupInv /\ ListenInv
    BY DEF MaskInv, MaskedWhilePending, PowerInv, StartInv, SetupInv, SetupIntact, ListenInv
<1>5. QED
    BY <1>1, <1>3, <1>4 DEF IInv

\* Every message is of the interrupt or of the application.
LEMMA Partition ==
    ASSUME TypeOK
    PROVE  /\ CountOf(queue, HalTypes) \in Nat /\ CountOf(queue, DmTypes) \in Nat
           /\ Len(queue) = CountOf(queue, HalTypes) + CountOf(queue, DmTypes)
<1>1. /\ queue \in Seq(Msgs) /\ Len(queue) \in Nat /\ DOMAIN queue = 1..Len(queue)
      /\ \A i \in 1..Len(queue) : queue[i].type \in HalTypes \cup DmTypes
  <2>1. queue \in Seq(Msgs) /\ Len(queue) \in Nat /\ DOMAIN queue = 1..Len(queue)
    BY DEF TypeOK
  <2>2. \A i \in 1..Len(queue) : queue[i] \in Msgs
    BY <2>1
  <2>3. QED
    BY <2>1, <2>2 DEF Msgs
<1>2. PICK H : H = {i \in DOMAIN queue : queue[i].type \in HalTypes}
    OBVIOUS
<1>3. PICK D : D = {i \in DOMAIN queue : queue[i].type \in DmTypes}
    OBVIOUS
<1>4. H \cup D = 1..Len(queue) /\ H \cap D = {}
    BY <1>1, <1>2, <1>3 DEF HalTypes, DmTypes
<1>5. /\ IsFiniteSet(H) /\ Cardinality(H) = CountOf(queue, HalTypes) /\ Cardinality(H) \in Nat
      /\ IsFiniteSet(D) /\ Cardinality(D) = CountOf(queue, DmTypes) /\ Cardinality(D) \in Nat
    BY <1>1, <1>2, <1>3, CountType DEF CountOf
<1>6. Cardinality(H \cup D) = Cardinality(H) + Cardinality(D) - Cardinality(H \cap D)
    BY <1>5, FS_Union
<1>7. Cardinality(1..Len(queue)) = Len(queue) /\ Cardinality({}) = 0
  <2>1. PICK n \in Nat : n = Len(queue)
    BY <1>1
  <2>2. Cardinality(1..n) = n
    BY FS_Interval
  <2>3. Cardinality({}) = 0
    BY FS_EmptySet
  <2>4. QED
    BY <2>1, <2>2, <2>3
<1>8. Cardinality(H \cup D) = Len(queue) /\ Cardinality(H \cap D) = 0
    BY <1>4, <1>7
<1>9. QED
    BY <1>1, <1>5, <1>6, <1>8

\* So no message is lost.
LEMMA Room ==
    ASSUME IInv, QueueFits, CountOf(queue, DmTypes) < MaxPosts \/ pending < EventsPerIrq
    PROVE  Len(queue) < QueueLen
<1>1. Len(queue) = CountOf(queue, HalTypes) + CountOf(queue, DmTypes)
      /\ CountOf(queue, HalTypes) \in Nat /\ CountOf(queue, DmTypes) \in Nat
    BY Partition DEF IInv
<1>2. CountOf(queue, HalTypes) <= pending /\ pending \in Nat
    BY <1>1 DEF IInv, CountInv, PendingCounts, InHand, TypeOK, Width
<1>3. QED
    BY <1>1, <1>2, LimitsAssumption DEF IInv, CountInv, QueueFits

\* A count of zero means that the task has nothing of the interrupt.
LEMMA NothingPending ==
    ASSUME IInv
    PROVE  /\ pending = 0 => /\ \A i \in DOMAIN queue : queue[i].type \notin HalTypes
                             /\ tpc \notin {"hal", "dec", "store", "decPdn", "storePdn"}
           /\ queue = <<>> /\ tpc = "wait" => pending = 0
<1>1. /\ CountOf(queue, HalTypes) \in Nat
      /\ CountOf(queue, HalTypes) = 0 <=> \A i \in DOMAIN queue : queue[i].type \notin HalTypes
    BY CountType DEF IInv, TypeOK
<1>2. QED
    BY <1>1 DEF IInv, CountInv, PendingCounts, InHand

\* What sending to the queue and receiving from it do.
LEMMA Posted ==
    ASSUME TypeOK, NEW m \in Msgs
    PROVE  /\ Append(queue, m) \in Seq(Msgs)
           /\ \A types : CountOf(Append(queue, m), types) =
                  CountOf(queue, types) + (IF m.type \in types THEN 1 ELSE 0)
           /\ \A i \in DOMAIN Append(queue, m) :
                  \/ i \in DOMAIN queue /\ Append(queue, m)[i] = queue[i]
                  \/ i = Len(queue) + 1 /\ Append(queue, m)[i] = m
<1>1. queue \in Seq(Msgs)
    BY DEF TypeOK
<1>2. QED
    BY <1>1, CountAppend

LEMMA Received ==
    ASSUME TypeOK, queue # <<>>
    PROVE  /\ Head(queue) \in Msgs /\ Tail(queue) \in Seq(Msgs)
           /\ 1 \in DOMAIN queue /\ Head(queue) = queue[1]
           /\ \A types : CountOf(queue, types) = CountOf(Tail(queue), types)
                             + (IF Head(queue).type \in types THEN 1 ELSE 0)
           /\ \A i \in DOMAIN Tail(queue) :
                  i \in Nat \ {0} /\ i + 1 \in DOMAIN queue /\ Tail(queue)[i] = queue[i + 1]
<1>1. queue \in Seq(Msgs)
    BY DEF TypeOK
<1>2. QED
    BY <1>1, CountTail

-----------------------------------------------------------------------------
(* Every step preserves it *)

LEMMA PostInv ==
    ASSUME IInv, QueueFits, PostStart \/ PostStop
    PROVE  IInv'
<1> USE DEF IInv
<1>1. PICK m \in {Msg("START", NoPkt), Msg("STOP", NoPkt)} :
          /\ CountOf(queue, DmTypes) < MaxPosts /\ Post(m)
          /\ m.type = "START" => pwr = "PDN" /\ queue = <<>> /\ tpc = "wait"
    BY DEF PostStart, PostStop, QueueFits, Msg
<1>2. m \in Msgs /\ m.type \in DmTypes /\ m.type \notin HalTypes /\ m.type # "SETUP"
    BY DEF Msg, Msgs, DmTypes, HalTypes
<1>3. queue' = Append(queue, m)
    BY <1>1, Room DEF Post
<1>4. /\ queue' \in Seq(Msgs)
      /\ CountOf(queue, HalTypes)' = CountOf(queue, HalTypes)
      /\ CountOf(queue, DmTypes)' = CountOf(queue, DmTypes) + 1
      /\ \A i \in DOMAIN queue' : \/ i \in DOMAIN queue /\ queue'[i] = queue[i]
                                  \/ i = Len(queue) + 1 /\ queue'[i] = m
    BY <1>2, <1>3, Posted, Partition
<1>5. UNCHANGED <<pending, nvic, setup_pkt, isr, task, dm, host, ifs>> /\ Runs
    BY DEF PostStart, PostStop
<1> USE DEF isr, task, dm, host
<1>6. TypeOK'
    BY <1>4, <1>5 DEF TypeOK
<1>7. CountInv'
    BY <1>1, <1>4, <1>5, Partition, LimitsAssumption DEF CountInv, PendingCounts, InHand
<1>8. MaskInv' /\ ListenInv'
    BY <1>5 DEF MaskInv, MaskedWhilePending, ListenInv, InHand
<1>9. PowerInv'
    BY <1>5 DEF PowerInv, Runs
<1>10. StartInv'
    BY <1>1, <1>2, <1>4, <1>5, NothingPending DEF StartInv
<1>11. SetupInv'
    BY <1>1, <1>2, <1>4, <1>5 DEF SetupInv, SetupIntact, NoneLatched
<1>12. QED
    BY <1>6, <1>7, <1>8, <1>9, <1>10, <1>11

\* Steps that leave the queue, the count and the task alone keep what is said of them.
Apart == UNCHANGED <<queue, pending, setup_pkt, task>>

LEMMA ApartCounts ==
    ASSUME IInv, Apart
    PROVE  CountInv'
BY DEF IInv, CountInv, PendingCounts, InHand, Apart, task

LEMMA IsrInv ==
    ASSUME IInv, QueueFits, IsrEnter \/ IsrStep
    PROVE  IInv'
<1> USE DEF IInv, isr, task, dm, host
<1>1. CASE IsrEnter
  <2>1. Apart /\ pending = 0 /\ UNCHANGED <<dm, host, ifs>>
    BY <1>1 DEF IsrEnter, Runs, Apart, MaskInv, MaskedWhilePending, TypeOK, Width
  <2>2. TypeOK'
    BY <1>1 DEF IsrEnter, TypeOK
  <2>3. MaskInv' /\ ListenInv'
    BY <1>1, <2>1, NothingPending, LimitsAssumption
    DEF IsrEnter, Runs, MaskInv, MaskedWhilePending, ListenInv, InHand
  <2>4. PowerInv' /\ StartInv'
    BY <1>1 DEF IsrEnter, Runs, PowerInv, StartInv
  <2>5. SetupInv'
    BY <1>1, <2>1, NothingPending DEF IsrEnter, SetupInv, SetupIntact, NoneLatched, HalTypes
  <2>6. QED
    BY <2>1, <2>2, <2>3, <2>4, <2>5, ApartCounts
<1>2. CASE IsrExit
  <2>1. Apart
    BY <1>2 DEF IsrExit, Apart
  <2>2. TypeOK'
    BY <1>2 DEF IsrExit, TypeOK
  <2>3. MaskInv' /\ ListenInv'
    <3>1. ipc = "in" /\ ipc' = "out" /\ ~nvic /\ pending' = pending /\ pending \in Nat
      BY <1>2 DEF IsrExit, MaskInv, TypeOK, Width
    <3>2. nvic' <=> pending = 0
      BY <1>2, <3>1 DEF IsrExit
    <3>3. QED
      BY <3>1, <3>2 DEF MaskInv, MaskedWhilePending, ListenInv, InHand
  <2>4. PowerInv' /\ StartInv'
    BY <1>2 DEF IsrExit, PowerInv, StartInv
  <2>5. SetupInv'
    BY <1>2 DEF IsrExit, SetupInv, SetupIntact, NoneLatched
  <2>6. QED
    BY <2>1, <2>2, <2>3, <2>4, <2>5, ApartCounts
<1>3. CASE IsrEvent
  <2>1. PICK e : e = Head(hwEv) /\ e \in HalMsgs
    BY <1>3 DEF IsrEvent, TypeOK
  <2>2. e \in Msgs /\ e.type \in HalTypes /\ e.type \notin DmTypes
    BY <2>1 DEF HalMsgs, Msgs, HalTypes, DmTypes
  <2>3. /\ ipc = "in" /\ taken < EventsPerIrq /\ taken \in Nat
        /\ pending \in Nat /\ pending <= taken /\ attached /\ ~asleep /\ ~nvic
    BY <1>3 DEF IsrEvent, MaskInv, TypeOK, Width
  <2>4. /\ hwEv \in Seq(HalMsgs) /\ hwEv' = Tail(hwEv) /\ hwEv' \in Seq(HalMsgs)
        /\ 1 \in DOMAIN hwEv /\ e = hwEv[1]
        /\ \A i \in DOMAIN hwEv' :
               i \in Nat \ {0} /\ i + 1 \in DOMAIN hwEv /\ hwEv'[i] = hwEv[i + 1]
    BY <1>3, <2>1 DEF IsrEvent, TypeOK
  <2>5. /\ setup_pkt' = IF e.type = "SETUP" THEN e.pkt ELSE setup_pkt
        /\ IF e.type = "SUSPEND" THEN SuspendEnter ELSE UNCHANGED dm
        /\ taken' = taken + 1 /\ UNCHANGED <<nvic, ipc, task, bus, ifs>>
    BY <1>3, <2>1 DEF IsrEvent
  <2>6. \/ queue' = Append(queue, e) /\ pending' = pending + 1
        \/ e.type = "XFER_DONE" /\ queue' = queue /\ pending' = pending
  <3>1. (pending + 1) % Width = pending + 1
    BY <2>3, LimitsAssumption DEF QueueFits, Width
  <3>2. Len(queue) < QueueLen
    BY <2>3, LimitsAssumption, Room
  <3>3. QED
    BY <1>3, <2>1, <3>1, <3>2 DEF IsrEvent, Post
  <2>7. /\ queue' \in Seq(Msgs)
        /\ CountOf(queue, DmTypes)' = CountOf(queue, DmTypes)
        /\ CountOf(queue, HalTypes)' = CountOf(queue, HalTypes) + (pending' - pending)
        /\ \A i \in DOMAIN queue' :
               \/ i \in DOMAIN queue /\ queue'[i] = queue[i]
               \/ i = Len(queue) + 1 /\ queue'[i] = e
    <3>1. CASE queue' = queue /\ pending' = pending
      BY <2>3, <3>1, Partition DEF TypeOK
    <3>2. CASE queue' = Append(queue, e) /\ pending' = pending + 1
      BY <2>2, <2>3, <3>2, Posted, Partition
    <3>3. QED
      BY <2>6, <3>1, <3>2
  <2>8. pwr # "PDN" /\ pwr' # "PDN" /\ UNCHANGED <<attached, asleep>>
    BY <2>3, <2>5 DEF PowerInv, SuspendEnter
  <2>9. TypeOK'
    <3>1. e.type = "SETUP" => e.pkt \in Pkts \cup {NoPkt}
      BY <2>1 DEF HalMsgs
    <3>2. pending' \in Nat /\ pending' <= EventsPerIrq /\ EventsPerIrq < 256
      BY <2>3, <2>6, LimitsAssumption DEF QueueFits, Width
    <3>3. pwr' \in PwrStates /\ before' \in PwrStates /\ phy' \in {"off", "on", "suspended"}
      BY <2>5 DEF SuspendEnter, TypeOK, PwrStates
    <3>4. QED
      BY <2>3, <2>4, <2>5, <2>7, <2>8, <3>1, <3>2, <3>3, LimitsAssumption DEF TypeOK, Width
  <2>10. CountInv'
    <3>1. tpc' = tpc /\ tmp' = tmp /\ tpc \notin {"store", "storePdn"}
      BY <2>3, <2>5 DEF MaskInv, InHand
    <3>2. pending' <= EventsPerIrq /\ pending' \in Nat
      BY <2>3, <2>6, LimitsAssumption
    <3>3. PendingCounts'
      <4>1. CountOf(queue, HalTypes) \in Nat /\ InHand' = InHand /\ InHand \in Nat
        BY <2>3, <3>1, Partition DEF InHand
      <4>2. pending = CountOf(queue, HalTypes) + InHand
        BY <2>3 DEF CountInv, PendingCounts
      <4>3. pending' = (CountOf(queue, HalTypes) + (pending' - pending)) + InHand
        BY <3>2, <4>1, <4>2
      <4>4. QED
        BY <2>7, <4>1, <4>3 DEF PendingCounts
    <3>4. QED
      BY <2>7, <3>1, <3>2, <3>3 DEF CountInv
  <2>11. MaskInv' /\ ListenInv'
    BY <2>3, <2>5, <2>6, <2>8, LimitsAssumption DEF MaskInv, MaskedWhilePending, ListenInv, InHand
  <2>12. PowerInv'
    BY <2>3, <2>5, <2>8 DEF PowerInv, SuspendEnter
  <2>13. StartInv'
    BY <2>2, <2>5, <2>7, <2>8 DEF StartInv, DmTypes
  <2>14. SetupInv'
    <3>1. \A i, j \in DOMAIN hwEv' :
              hwEv'[i].type = "SETUP" /\ hwEv'[j].type = "SETUP" => i = j
      BY <2>4 DEF SetupInv
    <3>2. ~NoneLatched("SETUP")' => ~NoneLatched("SETUP")
      BY <2>4 DEF NoneLatched
    <3>3. tpc' = tpc /\ tmsg' = tmsg
      BY <2>5
    <3>4. CASE e.type = "SETUP"
      <4>1. ~NoneLatched("SETUP") /\ NoneLatched("SETUP")'
        BY <2>4, <3>4 DEF SetupInv, NoneLatched
      <4>2. /\ \A i \in DOMAIN queue : queue[i].type # "SETUP"
            /\ ~(tpc = "hal" /\ tmsg.type = "SETUP")
        BY <2>3, <4>1 DEF SetupInv
      <4>3. \A i \in DOMAIN queue' : queue'[i].type = "SETUP" =>
                i = Len(queue) + 1 /\ queue'[i] = e
        BY <2>7, <4>2
      <4>4. setup_pkt' = e.pkt
        BY <2>5, <3>4
      <4>5. QED
        BY <3>1, <3>3, <4>1, <4>2, <4>3, <4>4 DEF SetupInv, SetupIntact
    <3>5. CASE e.type # "SETUP"
      <4>1. \A i \in DOMAIN queue' : queue'[i].type = "SETUP" =>
                i \in DOMAIN queue /\ queue'[i] = queue[i]
        BY <2>7, <3>5
      <4>2. setup_pkt' = setup_pkt
        BY <2>5, <3>5
      <4>3. ipc' = ipc
        BY <2>5
      <4>4. QED
        BY <3>1, <3>2, <3>3, <4>1, <4>2, <4>3 DEF SetupInv, SetupIntact
    <3>6. QED
      BY <3>4, <3>5
  <2>15. QED
    BY <2>9, <2>10, <2>11, <2>12, <2>13, <2>14
<1>4. QED
    BY <1>1, <1>2, <1>3 DEF IsrStep

LEMMA PowerModeInv ==
    ASSUME IInv, QueueFits,
           SuspendnIsr \/ (\E allowed \in BOOLEAN : RemoteWakeup(allowed))
           \/ LpmStore \/ LpmRestore
    PROVE  IInv'
<1> USE DEF IInv, isr, task, dm, host
<1>1. CASE SuspendnIsr \/ (\E allowed \in BOOLEAN : RemoteWakeup(allowed))
  <2>1. /\ SuspendExit /\ Runs /\ Apart
        /\ UNCHANGED <<nvic, ipc, taken, before, attached, asleep, ifs>>
        /\ bus' \in {bus, "active"}
    BY <1>1 DEF SuspendnIsr, RemoteWakeup, Apart
  <2>2. /\ pwr' \in {pwr, before} /\ phy' \in {phy, "on"}
        /\ (pwr' # "PDN" \/ pwr' = pwr) /\ (pwr = "PDN" => pwr' = "PDN")
        /\ pwr' = "SUSPENDED" => before # "PDN"
        /\ \/ hwEv' = hwEv
           \/ hwEv' = Append(hwEv, Msg("RESUME", NoPkt))
    BY <2>1 DEF SuspendExit, PowerInv, QueueFits
  <2>3. Msg("RESUME", NoPkt) \in HalMsgs
    BY DEF Msg, HalMsgs, HalTypes
  <2>4. /\ hwEv' \in Seq(HalMsgs)
        /\ \A i \in DOMAIN hwEv' : \/ i \in DOMAIN hwEv /\ hwEv'[i] = hwEv[i]
                                   \/ hwEv'[i].type = "RESUME"
    <3>1. CASE hwEv' = hwEv
      BY <3>1 DEF TypeOK
    <3>2. CASE hwEv' = Append(hwEv, Msg("RESUME", NoPkt))
      <4>1. Msg("RESUME", NoPkt).type = "RESUME"
        BY DEF Msg
      <4>2. PICK m : m = Msg("RESUME", NoPkt) /\ m.type = "RESUME"
        BY <4>1
      <4>3. m \in HalMsgs /\ hwEv' = Append(hwEv, m)
        BY <2>3, <3>2, <4>2
      <4>4. QED
        BY <4>2, <4>3 DEF TypeOK
    <3>3. QED
      BY <2>2, <3>1, <3>2
  <2>5. TypeOK'
    BY <2>1, <2>2, <2>4 DEF TypeOK, Apart
  <2>6. MaskInv' /\ ListenInv'
    BY <2>1, <2>2 DEF Apart, MaskInv, MaskedWhilePending, ListenInv, InHand
  <2>7. PowerInv' /\ StartInv'
    BY <2>1, <2>2 DEF Apart, PowerInv, StartInv
  <2>8. SetupInv'
    BY <2>1, <2>4 DEF Apart, Runs, SetupInv, SetupIntact, NoneLatched
  <2>9. QED
    BY <2>1, <2>5, <2>6, <2>7, <2>8, ApartCounts
<1>2. CASE LpmStore
  <2>1. Apart
    BY <1>2 DEF LpmStore, Apart
  <2>2. TypeOK'
    BY <1>2 DEF LpmStore, TypeOK
  <2>3. MaskInv' /\ ListenInv'
    BY <1>2 DEF LpmStore, Runs, MaskInv, MaskedWhilePending, ListenInv, InHand
  <2>4. PowerInv' /\ StartInv' /\ SetupInv'
    BY <1>2 DEF LpmStore, Runs, PowerInv, StartInv, SetupInv, SetupIntact, NoneLatched
  <2>5. QED
    BY <2>1, <2>2, <2>3, <2>4, ApartCounts
<1>3. CASE LpmRestore
  <2>1. Apart /\ pending = 0
    BY <1>3, NothingPending DEF LpmRestore, Apart, PowerInv
  <2>2. TypeOK'
    BY <1>3 DEF LpmRestore, TypeOK
  <2>3. MaskInv' /\ ListenInv'
    BY <1>3, <2>1 DEF LpmRestore, PowerInv, MaskInv, MaskedWhilePending, ListenInv, InHand
  <2>4. PowerInv' /\ StartInv' /\ SetupInv'
    BY <1>3 DEF LpmRestore, PowerInv, StartInv, SetupInv, SetupIntact, NoneLatched
  <2>5. QED
    BY <2>1, <2>2, <2>3, <2>4, ApartCounts
<1>4. QED
    BY <1>1, <1>2, <1>3

LEMMA HostInv ==
    ASSUME IInv, HostEvent \/ HostSuspend \/ HostResume \/ SeeSuspend
    PROVE  IInv'
<1> USE DEF IInv, isr, task, dm, host
<1>1. /\ Apart /\ UNCHANGED <<nvic, isr, dm, ifs>> /\ bus' \in {"active", "suspended"}
  <2>1. CASE HostEvent \/ SeeSuspend
    BY <2>1 DEF HostEvent, SeeSuspend, Apart, TypeOK
  <2>2. CASE HostSuspend \/ HostResume
    BY <2>2 DEF HostSuspend, HostResume, Apart
  <2>3. QED
    BY <2>1, <2>2
<1>2. \/ hwEv' = hwEv
      \/ \E m \in HalMsgs : /\ ipc = "out" /\ hwEv' = Append(hwEv, m)
                            /\ m.type = "SETUP" => NoneLatched("SETUP")
  <2>1. /\ \A p \in Pkts : Msg("SETUP", p) \in HalMsgs
        /\ \A t \in {"SPEED_ENUM_DONE", "XFER_DONE", "SUSPEND"} :
               Msg(t, NoPkt) \in HalMsgs /\ Msg(t, NoPkt).type # "SETUP"
    BY DEF Msg, HalMsgs, HalTypes
  <2>2. CASE HostEvent
    BY <2>1, <2>2 DEF HostEvent, Latch
  <2>3. CASE SeeSuspend
    BY <2>1, <2>3 DEF SeeSuspend, Latch
  <2>4. CASE HostSuspend \/ HostResume
    BY <2>4 DEF HostSuspend, HostResume
  <2>5. QED
    BY <2>2, <2>3, <2>4
<1>3. TypeOK' /\ SetupInv'
  <2>1. CASE hwEv' = hwEv
    BY <1>1, <2>1 DEF Apart, TypeOK, SetupInv, SetupIntact, NoneLatched
  <2>2. ASSUME NEW m \in HalMsgs, ipc = "out", hwEv' = Append(hwEv, m),
               m.type = "SETUP" => NoneLatched("SETUP")
        PROVE  TypeOK' /\ SetupInv'
    <3>1. /\ hwEv' \in Seq(HalMsgs)
          /\ \A i \in DOMAIN hwEv' : \/ i \in DOMAIN hwEv /\ hwEv'[i] = hwEv[i]
                                     \/ i = Len(hwEv) + 1 /\ hwEv'[i] = m
      BY <2>2 DEF TypeOK
    <3>2. QED
      BY <1>1, <2>2, <3>1 DEF Apart, TypeOK, SetupInv, SetupIntact, NoneLatched
  <2>3. QED
    BY <1>2, <2>1, <2>2
<1>4. MaskInv' /\ ListenInv'
    BY <1>1 DEF Apart, MaskInv, MaskedWhilePending, ListenInv, InHand
<1>5. PowerInv' /\ StartInv'
    BY <1>1 DEF Apart, PowerInv, StartInv
<1>6. QED
    BY <1>1, <1>3, <1>4, <1>5, ApartCounts

LEMMA TaskInv ==
    ASSUME IInv, QueueFits, TaskStep
    PROVE  IInv'
<1> USE DEF IInv, isr, task, dm, host
<1>1. CASE Recv
  <2>1. /\ Runs /\ tpc = "wait" /\ queue # <<>> /\ queue' = Tail(queue) /\ tmsg' = Head(queue)
        /\ tpc' = IF Head(queue).type \in DmTypes THEN "dm" ELSE "hal"
        /\ UNCHANGED <<pending, nvic, setup_pkt, isr, tmp, dm, host, ifs>>
    BY <1>1 DEF Recv
  <2>2. PICK m : m = Head(queue) /\ m \in Msgs /\ m = queue[1] /\ 1 \in DOMAIN queue
    BY <2>1, Received
  <2>3. m.type \in DmTypes <=> m.type \notin HalTypes
    BY <2>2 DEF Msgs, DmTypes, HalTypes
  <2>4. /\ queue' \in Seq(Msgs)
        /\ CountOf(queue, HalTypes) = CountOf(queue, HalTypes)'
               + (IF m.type \in HalTypes THEN 1 ELSE 0)
        /\ CountOf(queue, DmTypes) = CountOf(queue, DmTypes)'
               + (IF m.type \in DmTypes THEN 1 ELSE 0)
        /\ \A i \in DOMAIN queue' :
               i \in Nat \ {0} /\ i + 1 \in DOMAIN queue /\ queue'[i] = queue[i + 1]
    BY <2>1, <2>2, Received
  <2>5. CountOf(queue, HalTypes)' \in Nat /\ CountOf(queue, DmTypes)' \in Nat
    BY <2>4, CountType
  <2>6. TypeOK'
    BY <2>1, <2>2, <2>4 DEF TypeOK
  <2>7. CountInv'
    <3>1. InHand = 0 /\ InHand' = IF m.type \in HalTypes THEN 1 ELSE 0
      BY <2>1, <2>2, <2>3 DEF InHand
    <3>2. QED
      BY <2>1, <2>3, <2>4, <2>5, <3>1, LimitsAssumption DEF CountInv, PendingCounts
  <2>8. MaskInv' /\ ListenInv'
    BY <2>1 DEF Runs, MaskInv, MaskedWhilePending, ListenInv
  <2>9. PowerInv'
    BY <2>1 DEF Runs, PowerInv
  <2>10. StartInv'
    BY <2>1, <2>2, <2>4 DEF StartInv
  <2>11. SetupInv'
    BY <2>1, <2>2, <2>4 DEF Runs, SetupInv, SetupIntact, NoneLatched
  <2>12. QED
    BY <2>6, <2>7, <2>8, <2>9, <2>10, <2>11
<1>2. CASE DmStop \/ \E accepted \in BOOLEAN : DmStart(accepted)
  <2>1. /\ Runs /\ tpc = "dm" /\ tpc' = "wait"
        /\ UNCHANGED <<queue, pending, setup_pkt, ipc, taken, tmsg, tmp, asleep, bus, ifs>>
        /\ hwEv' \in {hwEv, <<>>}
    BY <1>2 DEF DmStop, DmStart
  <2>2. /\ \A i \in DOMAIN queue : queue[i].type # "START"
        /\ tmsg.type = "START" => pwr = "PDN" /\ pending = 0
    BY <2>1 DEF StartInv
  <2>3. TypeOK'
    <3>1. /\ pwr' \in PwrStates /\ before' \in PwrStates /\ nvic' \in BOOLEAN
          /\ phy' \in {"off", "on", "suspended"} /\ attached' \in BOOLEAN
      <4>1. CASE DmStop
        BY <4>1 DEF DmStop, TypeOK, PwrStates
      <4>2. ASSUME NEW accepted \in BOOLEAN, DmStart(accepted)
            PROVE  /\ pwr' \in PwrStates /\ before' \in PwrStates /\ nvic' \in BOOLEAN
                   /\ phy' \in {"off", "on", "suspended"} /\ attached' \in BOOLEAN
        BY <4>2 DEF DmStart, TypeOK, PwrStates
      <4>3. QED
        BY <1>2, <4>1, <4>2
    <3>2. hwEv \in Seq(HalMsgs) /\ <<>> \in Seq(HalMsgs)
      BY DEF TypeOK
    <3>3. hwEv' \in Seq(HalMsgs)
      BY <2>1, <3>2
    <3>4. QED
      BY <2>1, <3>1, <3>3 DEF TypeOK
  <2>4. CountInv'
    BY <2>1 DEF CountInv, PendingCounts, InHand
  <2>5. MaskInv' /\ ListenInv'
    BY <1>2, <2>1, <2>2 DEF DmStop, DmStart, Runs, MaskInv, MaskedWhilePending, ListenInv
  <2>6. PowerInv'
    BY <1>2, <2>1 DEF DmStop, DmStart, Runs, PowerInv
  <2>7. StartInv'
    BY <2>1, <2>2 DEF StartInv
  <2>8. SetupInv'
    BY <2>1 DEF Runs, SetupInv, SetupIntact, NoneLatched
  <2>9. QED
    BY <2>3, <2>4, <2>5, <2>6, <2>7, <2>8
<1>3. CASE HalDispatch \/ HalPdn
  <2>1. /\ Runs /\ tpc = "hal" /\ tpc' \in {"dec", "decPdn"} /\ (pwr = "PDN" <=> pwr' = "PDN")
        /\ tpc' = "decPdn" => pwr = "PDN"
        /\ UNCHANGED <<queue, pending, nvic, setup_pkt, isr, tmsg, tmp, before, phy,
                       attached, asleep, host>>
        /\ pwr' = "SUSPENDED" => pwr = "SUSPENDED"
        /\ pwr' \in PwrStates /\ ifs' \in BOOLEAN
    BY <1>3 DEF HalDispatch, HalPdn, TypeOK, PwrStates
  <2>2. TypeOK'
    BY <2>1 DEF TypeOK
  <2>3. CountInv'
    BY <2>1 DEF CountInv, PendingCounts, InHand
  <2>4. MaskInv' /\ ListenInv'
    BY <2>1 DEF Runs, MaskInv, MaskedWhilePending, ListenInv
  <2>5. PowerInv' /\ StartInv'
    BY <2>1 DEF Runs, PowerInv, StartInv
  <2>6. SetupInv'
    BY <2>1 DEF Runs, SetupInv, SetupIntact, NoneLatched
  <2>7. QED
    BY <2>2, <2>3, <2>4, <2>5, <2>6
<1>4. CASE Load
  <2>1. TypeOK'
    BY <1>4 DEF Load, TypeOK
  <2>2. CountInv'
    BY <1>4 DEF Load, CountInv, PendingCounts, InHand
  <2>3. MaskInv' /\ ListenInv'
    BY <1>4 DEF Load, Runs, MaskInv, MaskedWhilePending, ListenInv
  <2>4. PowerInv' /\ StartInv' /\ SetupInv'
    BY <1>4 DEF Load, Runs, PowerInv, StartInv, SetupInv, SetupIntact, NoneLatched
  <2>5. QED
    BY <2>1, <2>2, <2>3, <2>4
<1>5. CASE Store
  <2>1. /\ Runs /\ tpc \in {"store", "storePdn"} /\ tmp = pending
        /\ tpc' = IF tpc = "store" THEN "enable" ELSE "wait"
        /\ UNCHANGED <<queue, nvic, setup_pkt, isr, tmsg, tmp, dm, host, ifs>>
    BY <1>5 DEF Store, CountInv
  <2>2. pending \in 1..255 /\ CountOf(queue, HalTypes) \in Nat
    <3>1. InHand = 1 /\ pending \in 0..255
      BY <2>1 DEF InHand, TypeOK, Width
    <3>2. pending = CountOf(queue, HalTypes) + 1 /\ CountOf(queue, HalTypes) \in Nat
      BY <3>1, Partition DEF CountInv, PendingCounts
    <3>3. QED
      BY <3>1, <3>2
  <2>3. pending' = pending - 1
    BY <1>5, <2>1, <2>2 DEF Store, Width
  <2>4. TypeOK'
    BY <2>1, <2>2, <2>3 DEF TypeOK, Width
  <2>5. CountInv'
    BY <2>1, <2>2, <2>3, LimitsAssumption DEF CountInv, PendingCounts, InHand
  <2>6. MaskInv' /\ ListenInv'
    BY <2>1, <2>2, <2>3 DEF Runs, MaskInv, MaskedWhilePending, PowerInv, ListenInv
  <2>7. PowerInv' /\ StartInv'
    BY <2>1, <2>2, <2>3 DEF Runs, PowerInv, StartInv
  <2>8. SetupInv'
    BY <2>1 DEF Runs, SetupInv, SetupIntact, NoneLatched
  <2>9. QED
    BY <2>4, <2>5, <2>6, <2>7, <2>8
<1>6. CASE Enable
  <2>1. TypeOK'
    BY <1>6 DEF Enable, TypeOK
  <2>2. CountInv'
    BY <1>6 DEF Enable, CountInv, PendingCounts, InHand
  <2>3. MaskInv' /\ ListenInv'
    <3>1. ipc = "out" /\ ipc' = "out" /\ pending' = pending /\ pending \in Nat
      BY <1>6 DEF Enable, Runs, TypeOK, Width
    <3>2. nvic' <=> nvic \/ pending = 0
      BY <1>6 DEF Enable, TypeOK
    <3>3. QED
      BY <3>1, <3>2 DEF MaskInv, MaskedWhilePending, ListenInv
  <2>4. PowerInv' /\ StartInv' /\ SetupInv'
    BY <1>6 DEF Enable, Runs, PowerInv, StartInv, SetupInv, SetupIntact, NoneLatched
  <2>5. QED
    BY <2>1, <2>2, <2>3, <2>4
<1>7. QED
    BY <1>1, <1>2, <1>3, <1>4, <1>5, <1>6 DEF TaskStep

-----------------------------------------------------------------------------
(* The theorems *)

LEMMA Invariance == ASSUME QueueFits PROVE Spec => []IInv
<1>1. Init => IInv
    BY InitInv
<1>2. IInv /\ [Next]_vars => IInv'
  <2> SUFFICES ASSUME IInv, [Next]_vars PROVE IInv'
      OBVIOUS
  <2>1. CASE UNCHANGED vars
    <3>1. TypeOK' /\ CountInv'
      BY <2>1 DEF vars, IInv, TypeOK, CountInv, PendingCounts, InHand
    <3>2. MaskInv' /\ ListenInv' /\ PowerInv' /\ StartInv'
      BY <2>1 DEF vars, IInv, MaskInv, MaskedWhilePending, InHand, ListenInv, PowerInv, StartInv
    <3>3. SetupInv'
      BY <2>1 DEF vars, IInv, SetupInv, SetupIntact, NoneLatched
    <3>4. QED
      BY <3>1, <3>2, <3>3 DEF IInv
  <2>2. CASE Next
    BY <2>2, PostInv, IsrInv, PowerModeInv, HostInv, TaskInv DEF Next
  <2>3. QED
    BY <2>1, <2>2
<1>3. QED
    BY <1>1, <1>2, PTL DEF Spec

\* Every variable of the USB core keeps its type.
THEOREM CoreTypes == ASSUME QueueFits PROVE Spec => []TypeOK
<1>1. IInv => TypeOK
    BY DEF IInv
<1>2. QED
    BY <1>1, Invariance, PTL

\* usb_isr_pending counts the interrupt messages that are not finished, although it
\* is incremented by the interrupt and decremented by the task without a lock.
THEOREM CountExact == ASSUME QueueFits PROVE Spec => []PendingCounts
<1>1. IInv => PendingCounts
    BY DEF IInv, CountInv
<1>2. QED
    BY <1>1, Invariance, PTL

\* The interrupt is masked until all it posted is handled (usb_common_isr_exit,
\* usb_isr_msg_handle).
THEOREM MaskHolds == ASSUME QueueFits PROVE Spec => []MaskedWhilePending
<1>1. IInv => MaskedWhilePending
    BY DEF IInv, MaskInv
<1>2. QED
    BY <1>1, Invariance, PTL

\* The one static packet buffer holds the packet of the SETUP message being handled.
THEOREM PacketIntact == ASSUME QueueFits PROVE Spec => []SetupIntact
<1>1. IInv => SetupIntact
    BY DEF IInv, SetupInv
<1>2. QED
    BY <1>1, Invariance, PTL

\* The interrupt of an attached device that is awake and has nothing to do is
\* unmasked.
THEOREM ListensWhenIdle == ASSUME QueueFits PROVE Spec => []NotDeaf
<1>1. IInv => NotDeaf
    BY NothingPending DEF IInv, ListenInv, NotDeaf
<1>2. QED
    BY <1>1, Invariance, PTL

-----------------------------------------------------------------------------
(* The power state and the PHY, where an exit from suspend may also fail *)

\* What these theorems assume: the controller raises one event per interrupt, the
\* interrupt is served before a host that resumes the bus sends again, the
\* application starts the device only when nothing is queued.
SerialEvents == /\ MaxPosts + EventsPerIrq <= QueueLen /\ EventsPerIrq = 1
                /\ ~RestartWhileBusy /\ ~SlowIrq

\* A message of this type is posted and not yet dispatched.
Underway(type) == \/ \E i \in DOMAIN queue : queue[i].type = type
                  \/ tpc = "hal" /\ tmsg.type = type

\* Nothing is latched once the PHY sleeps, and a suspend is the last thing latched
\* before it does.
PhyInv == /\ SuspendTracked /\ ReturnsAwake
          /\ hwEv # <<>> => phy = "on"
          /\ pwr = "PDN" => phy # "on"
          /\ \A i \in DOMAIN hwEv : hwEv[i].type = "SUSPEND" => i = Len(hwEv)
          /\ asleep => queue = <<>> /\ tpc = "wait" /\ ipc = "out"

\* What a suspended or configured device still has to hear of.
IfsInv == /\ pwr = "SUSPENDED" => /\ \A type \in HalTypes : Underway(type) => type = "SUSPEND"
                                  /\ ifs => Underway("SUSPEND")
          /\ pwr = "CONFIGURED" => \/ ifs /\ ~Underway("SUSPEND")
                                   \/ ~NoneLatched("RESUME") \/ Underway("RESUME")

SInv == TypeOK /\ CountInv /\ MaskInv /\ StartInv /\ PhyInv /\ IfsInv

LEMMA SerialInit == Init => SInv
<1> SUFFICES ASSUME Init PROVE SInv
    OBVIOUS
<1>1. TypeOK /\ CountInv /\ MaskInv /\ StartInv
    BY InitInv DEF IInv
<1>2. PhyInv
    BY DEF Init, PhyInv, ReturnsAwake, SuspendTracked
<1>3. IfsInv
    BY DEF Init, IfsInv
<1> QED BY <1>1, <1>2, <1>3 DEF SInv

\* At most one message of the interrupt is unhandled.
LEMMA OneMessage ==
    ASSUME SInv, SerialEvents
    PROVE  /\ pending \in {0, 1} /\ MaxPosts \in Nat
           /\ CountOf(queue, DmTypes) < MaxPosts \/ pending = 0 => Len(queue) < QueueLen
           /\ pending = 0 => /\ \A i \in DOMAIN queue : queue[i].type \notin HalTypes
                             /\ InHand = 0
           /\ InHand = 1 => /\ \A i \in DOMAIN queue : queue[i].type \notin HalTypes
                            /\ pending = 1
           /\ queue = <<>> /\ tpc = "wait" => pending = 0
           /\ tpc = "hal" => InHand = 1
<1>1. /\ CountOf(queue, HalTypes) \in Nat
      /\ CountOf(queue, HalTypes) = 0 <=> \A i \in DOMAIN queue : queue[i].type \notin HalTypes
    BY CountType DEF SInv, TypeOK
<1>2. /\ Len(queue) = CountOf(queue, HalTypes) + CountOf(queue, DmTypes)
      /\ CountOf(queue, DmTypes) \in Nat
    BY Partition DEF SInv
<1>3. /\ pending = CountOf(queue, HalTypes) + InHand /\ pending <= EventsPerIrq
      /\ CountOf(queue, DmTypes) <= MaxPosts /\ InHand \in {0, 1}
    BY DEF SInv, CountInv, PendingCounts, InHand
<1>4. EventsPerIrq = 1 /\ MaxPosts + 1 <= QueueLen /\ MaxPosts \in Nat /\ QueueLen \in Nat
    BY LimitsAssumption DEF SerialEvents
<1>5. pending \in {0, 1} /\ CountOf(queue, HalTypes) <= pending
    BY <1>1, <1>3, <1>4
<1>6. CountOf(queue, DmTypes) < MaxPosts \/ pending = 0 => Len(queue) < QueueLen
    BY <1>1, <1>2, <1>3, <1>4, <1>5
<1>7. /\ pending = 0 => CountOf(queue, HalTypes) = 0 /\ InHand = 0
      /\ InHand = 1 => CountOf(queue, HalTypes) = 0 /\ pending = 1
    BY <1>1, <1>3, <1>5
<1>8. queue = <<>> /\ tpc = "wait" => pending = 0
  <2>1. ASSUME queue = <<>>, tpc = "wait" PROVE pending = 0
    <3>1. CountOf(queue, HalTypes) = 0
      BY <1>1, <2>1
    <3>2. InHand = 0
      BY <2>1 DEF InHand
    <3> QED BY <1>3, <3>1, <3>2
  <2> QED BY <2>1
<1>9. tpc = "hal" => InHand = 1
    BY DEF InHand
<1> QED BY <1>1, <1>4, <1>5, <1>6, <1>7, <1>8, <1>9

LEMMA SerialPost ==
    ASSUME SInv, SerialEvents, PostStart \/ PostStop
    PROVE  SInv'
<1> USE DEF SInv
<1>1. PICK m \in {Msg("START", NoPkt), Msg("STOP", NoPkt)} :
          /\ CountOf(queue, DmTypes) < MaxPosts /\ Post(m)
          /\ m.type = "START" => pwr = "PDN" /\ queue = <<>> /\ tpc = "wait"
    BY DEF PostStart, PostStop, SerialEvents, Msg
<1>2. m \in Msgs /\ m.type \in DmTypes /\ m.type \notin HalTypes
    BY DEF Msg, Msgs, DmTypes, HalTypes
<1>3. queue' = Append(queue, m)
    BY <1>1, OneMessage DEF Post
<1>4. /\ queue' \in Seq(Msgs)
      /\ CountOf(queue, HalTypes)' = CountOf(queue, HalTypes)
      /\ CountOf(queue, DmTypes)' = CountOf(queue, DmTypes) + 1
      /\ \A i \in DOMAIN queue' : \/ i \in DOMAIN queue /\ queue'[i] = queue[i]
                                  \/ i = Len(queue) + 1 /\ queue'[i] = m
      /\ \A i \in DOMAIN queue : i \in DOMAIN queue' /\ queue'[i] = queue[i]
  <2>1. queue \in Seq(Msgs)
    BY DEF TypeOK
  <2> QED BY <1>2, <1>3, <2>1, Posted, Partition
<1>5. UNCHANGED <<pending, nvic, setup_pkt, isr, task, dm, host, ifs>> /\ Runs
    BY DEF PostStart, PostStop
<1> USE DEF isr, task, dm, host
<1>6. TypeOK'
    BY <1>4, <1>5 DEF TypeOK
<1>7. CountInv'
    BY <1>1, <1>4, <1>5, Partition, LimitsAssumption DEF CountInv, PendingCounts, InHand
<1>8. MaskInv'
    BY <1>5 DEF MaskInv, MaskedWhilePending, InHand
<1>9. StartInv'
    BY <1>1, <1>2, <1>4, <1>5, OneMessage DEF StartInv
<1>10. PhyInv'
    BY <1>5 DEF PhyInv, ReturnsAwake, SuspendTracked, Runs
<1>11. \A type \in HalTypes : Underway(type)' <=> Underway(type)
    BY <1>2, <1>4, <1>5 DEF Underway
<1>12. IfsInv'
    BY <1>5, <1>11 DEF IfsInv, NoneLatched, HalTypes
<1> QED BY <1>6, <1>7, <1>8, <1>9, <1>10, <1>12

\* The rest of a sequence.
LEMMA TailOf ==
    ASSUME NEW M, NEW s \in Seq(M), s # <<>>
    PROVE  /\ Tail(s) \in Seq(M) /\ 1 \in DOMAIN s /\ Head(s) = s[1]
           /\ Len(s) \in Nat /\ Len(Tail(s)) = Len(s) - 1
           /\ \A i \in DOMAIN Tail(s) :
                  i \in Nat \ {0} /\ i + 1 \in DOMAIN s /\ Tail(s)[i] = s[i + 1]
           /\ \A i \in DOMAIN s : i # 1 => i - 1 \in DOMAIN Tail(s) /\ Tail(s)[i - 1] = s[i]
           /\ Len(s) = 1 => Tail(s) = <<>>
<1> DEFINE r == Tail(s)
<1>1. /\ Len(s) \in Nat \ {0} /\ DOMAIN s = 1..Len(s) /\ Head(s) = s[1]
      /\ r \in Seq(M) /\ DOMAIN r = 1..(Len(s) - 1) /\ Len(r) = Len(s) - 1
      /\ \A i \in 1..(Len(s) - 1) : r[i] = s[i + 1]
    OBVIOUS
<1> HIDE DEF r
<1>2. ASSUME NEW i \in DOMAIN r PROVE i \in Nat \ {0} /\ i + 1 \in DOMAIN s /\ r[i] = s[i + 1]
    BY <1>1
<1>3. ASSUME NEW i \in DOMAIN s, i # 1 PROVE i - 1 \in DOMAIN r /\ r[i - 1] = s[i]
  <2>1. PICK j \in 1..(Len(s) - 1) : j = i - 1 /\ j + 1 = i
    BY <1>1, <1>3
  <2>2. r[j] = s[j + 1]
    BY <1>1
  <2> QED BY <1>1, <2>1, <2>2
<1>4. Len(s) = 1 => r = <<>>
  <2>1. Len(s) = 1 => Len(r) = 0
    BY <1>1
  <2> QED BY <1>1, <2>1
<1>5. /\ r \in Seq(M) /\ 1 \in DOMAIN s /\ Head(s) = s[1]
      /\ Len(s) \in Nat /\ Len(r) = Len(s) - 1
      /\ \A i \in DOMAIN r : i \in Nat \ {0} /\ i + 1 \in DOMAIN s /\ r[i] = s[i + 1]
      /\ \A i \in DOMAIN s : i # 1 => i - 1 \in DOMAIN r /\ r[i - 1] = s[i]
      /\ Len(s) = 1 => r = <<>>
  <2>1. 1 \in DOMAIN s
    BY <1>1
  <2>2. \A i \in DOMAIN s : i # 1 => i - 1 \in DOMAIN r /\ r[i - 1] = s[i]
    BY <1>3, Zenon
  <2>3. \A i \in DOMAIN r : i \in Nat \ {0} /\ i + 1 \in DOMAIN s /\ r[i] = s[i + 1]
    BY <1>2
  <2> QED BY <1>1, <1>4, <2>1, <2>2, <2>3
<1> QED BY <1>5, Zenon DEF r

LEMMA SerialIsr ==
    ASSUME SInv, SerialEvents, IsrEnter \/ IsrStep
    PROVE  SInv'
<1> USE DEF SInv, isr, task, dm, host
<1>1. CASE IsrEnter
  <2>1. /\ Apart /\ pending = 0 /\ UNCHANGED <<dm, host, ifs>> /\ InHand = 0
        /\ ipc' = "in" /\ taken' = 0 /\ nvic' = FALSE /\ attached /\ ~asleep
    BY <1>1, OneMessage DEF IsrEnter, Runs, Apart, MaskInv, MaskedWhilePending, TypeOK, Width
  <2>2. TypeOK' /\ CountInv'
    BY <2>1 DEF Apart, TypeOK, CountInv, PendingCounts, InHand
  <2>3. MaskInv'
    BY <2>1, LimitsAssumption DEF Apart, MaskInv, MaskedWhilePending, InHand
  <2>4. StartInv' /\ PhyInv' /\ IfsInv'
    BY <2>1 DEF Apart, StartInv, PhyInv, ReturnsAwake, SuspendTracked, IfsInv, Underway, NoneLatched
  <2> QED BY <2>2, <2>3, <2>4
<1>2. CASE IsrExit
  <2>1. /\ Apart /\ UNCHANGED <<dm, host, ifs>> /\ ~nvic
        /\ ipc' = "out" /\ taken' = 0 /\ nvic' = (nvic \/ pending = 0)
    BY <1>2 DEF IsrExit, Apart, MaskInv
  <2>2. TypeOK' /\ CountInv'
    BY <2>1 DEF Apart, TypeOK, CountInv, PendingCounts, InHand
  <2>3. MaskInv'
    <3>1. pending' = pending /\ pending \in Nat
      BY <2>1 DEF Apart, TypeOK, Width
    <3>2. nvic' <=> pending = 0
      BY <1>2, <2>1 DEF IsrExit
    <3> QED BY <2>1, <3>1, <3>2 DEF MaskInv, MaskedWhilePending
  <2>4. StartInv' /\ PhyInv' /\ IfsInv'
    BY <2>1 DEF Apart, StartInv, PhyInv, ReturnsAwake, SuspendTracked, IfsInv, Underway, NoneLatched
  <2> QED BY <2>2, <2>3, <2>4
<1>3. CASE IsrEvent
  <2>1. PICK e : e = Head(hwEv) /\ e \in HalMsgs
    BY <1>3 DEF IsrEvent, TypeOK
  <2>2. e \in Msgs /\ e.type \in HalTypes /\ e.type \notin DmTypes
    BY <2>1 DEF HalMsgs, Msgs, HalTypes, DmTypes
  <2>3. /\ ipc = "in" /\ taken = 0 /\ pending = 0 /\ InHand = 0 /\ attached /\ ~asleep /\ ~nvic
        /\ phy = "on" /\ pwr \notin {"PDN", "SUSPENDED"}
        /\ \A i \in DOMAIN queue : queue[i].type \notin HalTypes
    <3>1. /\ ipc = "in" /\ taken < EventsPerIrq /\ taken \in Nat /\ pending \in Nat
          /\ pending <= taken /\ attached /\ ~asleep /\ ~nvic /\ hwEv # <<>> /\ EventsPerIrq = 1
      BY <1>3 DEF IsrEvent, MaskInv, TypeOK, Width, SerialEvents
    <3>2. taken = 0 /\ pending = 0
      BY <3>1
    <3> QED BY <3>1, <3>2, OneMessage DEF PhyInv, ReturnsAwake, SuspendTracked
  <2>4. /\ hwEv \in Seq(HalMsgs) /\ hwEv' = Tail(hwEv) /\ hwEv' \in Seq(HalMsgs)
        /\ 1 \in DOMAIN hwEv /\ e = hwEv[1] /\ Len(hwEv) \in Nat /\ Len(hwEv') = Len(hwEv) - 1
        /\ \A i \in DOMAIN hwEv' :
               i \in Nat \ {0} /\ i + 1 \in DOMAIN hwEv /\ hwEv'[i] = hwEv[i + 1]
        /\ \A i \in DOMAIN hwEv : i # 1 => i - 1 \in DOMAIN hwEv' /\ hwEv'[i - 1] = hwEv[i]
        /\ Len(hwEv) = 1 => hwEv' = <<>>
    <3>1. hwEv \in Seq(HalMsgs) /\ hwEv # <<>> /\ hwEv' = Tail(hwEv)
      BY <1>3 DEF IsrEvent, TypeOK
    <3> QED BY <2>1, <3>1, TailOf
  <2>5. /\ setup_pkt' = IF e.type = "SETUP" THEN e.pkt ELSE setup_pkt
        /\ IF e.type = "SUSPEND" THEN SuspendEnter ELSE UNCHANGED dm
        /\ taken' = 1 /\ UNCHANGED <<nvic, ipc, task, bus, ifs>>
    <3>1. /\ setup_pkt' = IF e.type = "SETUP" THEN e.pkt ELSE setup_pkt
          /\ IF e.type = "SUSPEND" THEN SuspendEnter ELSE UNCHANGED dm
          /\ taken' = taken + 1 /\ UNCHANGED <<nvic, ipc, task, bus, ifs>>
      BY <1>3, <2>1 DEF IsrEvent
    <3>2. taken' = 0 + 1
      BY <2>3, <3>1
    <3> QED BY <3>1, <3>2
  <2>6. \/ queue' = Append(queue, e) /\ pending' = 1
        \/ e.type = "XFER_DONE" /\ queue' = queue /\ pending' = 0
    <3>1. (0 + 1) % 256 = 1
      OBVIOUS
    <3>2. (pending + 1) % Width = 1
      BY <2>3, <3>1 DEF Width
    <3>3. Len(queue) < QueueLen
      BY <2>3, OneMessage
    <3> QED BY <1>3, <2>1, <2>3, <3>2, <3>3 DEF IsrEvent, Post
  <2>7. /\ queue' \in Seq(Msgs)
        /\ CountOf(queue, DmTypes)' = CountOf(queue, DmTypes)
        /\ CountOf(queue, HalTypes)' = CountOf(queue, HalTypes) + pending'
        /\ \A i \in DOMAIN queue' :
               \/ i \in DOMAIN queue /\ queue'[i] = queue[i]
               \/ i = Len(queue) + 1 /\ queue'[i] = e
        /\ \A i \in DOMAIN queue : i \in DOMAIN queue' /\ queue'[i] = queue[i]
        /\ e.type # "XFER_DONE" => \E i \in DOMAIN queue' : queue'[i] = e
    <3>1. queue \in Seq(Msgs) /\ CountOf(queue, DmTypes) \in Nat /\ CountOf(queue, HalTypes) \in Nat
      BY Partition DEF TypeOK
    <3>2. CASE queue' = queue /\ pending' = 0
      BY <2>6, <3>1, <3>2
    <3>3. CASE queue' = Append(queue, e) /\ pending' = 1
      BY <2>2, <3>1, <3>3, Posted
    <3> QED BY <2>6, <3>2, <3>3
  <2>8. pwr' # "PDN" /\ UNCHANGED <<attached, asleep>>
    BY <2>3, <2>5 DEF SuspendEnter
  <2>9. TypeOK'
    <3>1. e.type = "SETUP" => e.pkt \in Pkts \cup {NoPkt}
      BY <2>1 DEF HalMsgs
    <3>2. pwr' \in PwrStates /\ before' \in PwrStates /\ phy' \in {"off", "on", "suspended"}
      BY <2>5 DEF SuspendEnter, TypeOK, PwrStates
    <3>3. pending' \in 0..(Width - 1)
      BY <2>6 DEF Width
    <3> QED BY <2>3, <2>4, <2>5, <2>7, <2>8, <3>1, <3>2, <3>3 DEF TypeOK
  <2>10. CountInv'
    <3>1. tpc' = tpc /\ tmp' = tmp /\ tpc \notin {"store", "storePdn"} /\ InHand' = 0
      BY <2>3, <2>5 DEF InHand
    <3>2. CountOf(queue, HalTypes) = 0
      BY <2>3, Partition DEF CountInv, PendingCounts
    <3> QED BY <2>6, <2>7, <3>1, <3>2 DEF CountInv, PendingCounts, SerialEvents
  <2>11. MaskInv'
    BY <2>3, <2>5, <2>6, <2>8 DEF MaskInv, MaskedWhilePending, InHand, SerialEvents
  <2>12. StartInv'
    BY <2>2, <2>3, <2>5, <2>7, <2>8 DEF StartInv, DmTypes
  <2>13. e.type = "SUSPEND" => hwEv' = <<>>
    <3>1. e.type = "SUSPEND" => Len(hwEv) = 1
      BY <2>4 DEF PhyInv
    <3> QED BY <2>4, <3>1
  <2>14. PhyInv'
    <3>1. SuspendTracked' /\ (hwEv' # <<>> => phy' = "on") /\ (pwr' = "PDN" => phy' # "on")
          /\ (pwr' = "SUSPENDED" => before' \notin {"PDN", "SUSPENDED"}) /\ ~asleep'
      BY <2>3, <2>5, <2>8, <2>13 DEF SuspendTracked, SuspendEnter
    <3>2. \A i \in DOMAIN hwEv' : hwEv'[i].type = "SUSPEND" => i = Len(hwEv')
      <4> TAKE i \in DOMAIN hwEv'
      <4>1. i \in Nat /\ i + 1 \in DOMAIN hwEv /\ hwEv'[i] = hwEv[i + 1]
        BY <2>4
      <4>2. hwEv[i + 1].type = "SUSPEND" => i + 1 = Len(hwEv)
        BY <4>1 DEF PhyInv
      <4> QED BY <2>4, <4>1, <4>2
    <3> QED BY <3>1, <3>2 DEF PhyInv, ReturnsAwake
  <2>15. IfsInv'
    <3>1. \A type \in HalTypes : Underway(type)' => type = e.type
      BY <2>3, <2>5, <2>7 DEF Underway, InHand
    <3>2. e.type # "XFER_DONE" => Underway(e.type)'
      BY <2>7 DEF Underway
    <3>3. "SUSPEND" \in HalTypes /\ "RESUME" \in HalTypes
      BY DEF HalTypes
    <3>4. CASE e.type = "SUSPEND"
      <4>1. pwr' = "SUSPENDED"
        BY <2>5, <3>4 DEF SuspendEnter
      <4>2. Underway("SUSPEND")'
        BY <3>2, <3>4
      <4> QED BY <3>1, <3>4, <4>1, <4>2 DEF IfsInv
    <3>5. CASE e.type = "RESUME"
      <4>1. Underway("RESUME")' /\ pwr' = pwr
        BY <2>5, <3>2, <3>5
      <4> QED BY <2>3, <4>1 DEF IfsInv
    <3>6. CASE e.type \notin {"SUSPEND", "RESUME"}
      <4>1. pwr' = pwr /\ ifs' = ifs /\ ~Underway("SUSPEND")'
        BY <2>5, <3>1, <3>3, <3>6
      <4>2. ~NoneLatched("RESUME") => ~NoneLatched("RESUME")'
        BY <2>4, <3>6 DEF NoneLatched
      <4>3. ~Underway("RESUME")
        BY <2>3, <3>3 DEF Underway, InHand
      <4> QED BY <2>3, <4>1, <4>2, <4>3 DEF IfsInv
    <3> QED BY <3>4, <3>5, <3>6
  <2> QED BY <2>9, <2>10, <2>11, <2>12, <2>14, <2>15
<1> QED BY <1>1, <1>2, <1>3 DEF IsrStep

LEMMA SerialPower ==
    ASSUME SInv, SerialEvents,
           SuspendnIsr \/ (\E allowed \in BOOLEAN : RemoteWakeup(allowed))
           \/ LpmStore \/ LpmRestore
    PROVE  SInv'
<1> USE DEF SInv, isr, task, dm, host
<1>1. CASE SuspendnIsr \/ (\E allowed \in BOOLEAN : RemoteWakeup(allowed))
  <2>1. /\ SuspendExit /\ Runs /\ Apart
        /\ UNCHANGED <<nvic, ipc, taken, before, attached, asleep, ifs>>
        /\ bus' \in {bus, "active"}
    BY <1>1 DEF SuspendnIsr, RemoteWakeup, Apart
  <2>2. CASE UNCHANGED <<pwr, phy, hwEv>>
    <3>1. TypeOK'
      BY <2>1, <2>2 DEF TypeOK, Apart
    <3>2. CountInv' /\ MaskInv' /\ StartInv'
      BY <2>1, <2>2 DEF Apart, CountInv, PendingCounts, InHand, MaskInv, MaskedWhilePending, StartInv
    <3>3. PhyInv' /\ IfsInv'
      BY <2>1, <2>2 DEF Apart, PhyInv, ReturnsAwake, SuspendTracked, IfsInv, Underway, NoneLatched
    <3> QED BY <3>1, <3>2, <3>3
  <2>3. CASE pwr = "SUSPENDED" /\ pwr' = "PDN" /\ UNCHANGED <<phy, hwEv>>
    <3>1. TypeOK'
      BY <2>1, <2>3 DEF TypeOK, Apart, PwrStates
    <3>2. CountInv' /\ MaskInv' /\ StartInv'
      BY <2>1, <2>3 DEF Apart, CountInv, PendingCounts, InHand, MaskInv, MaskedWhilePending, StartInv
    <3>3. PhyInv' /\ IfsInv'
      BY <2>1, <2>3 DEF Apart, PhyInv, ReturnsAwake, SuspendTracked, IfsInv
    <3> QED BY <3>1, <3>2, <3>3
  <2>4. CASE /\ pwr = "SUSPENDED" /\ pwr' = before /\ phy' = "on"
             /\ hwEv' = Append(hwEv, Msg("RESUME", NoPkt))
    <3>1. Msg("RESUME", NoPkt) \in HalMsgs /\ Msg("RESUME", NoPkt).type = "RESUME"
      BY DEF Msg, HalMsgs, HalTypes
    <3>2. PICK m \in HalMsgs : m = Msg("RESUME", NoPkt) /\ m.type = "RESUME"
      BY <3>1
    <3>3. hwEv = <<>>
      BY <2>4 DEF PhyInv, ReturnsAwake, SuspendTracked
    <3>4. /\ hwEv' \in Seq(HalMsgs) /\ \A i \in DOMAIN hwEv' : hwEv'[i] = m
          /\ 1 \in DOMAIN hwEv' /\ hwEv'[1].type = "RESUME"
      BY <2>4, <3>2, <3>3
    <3>5. TypeOK'
      BY <2>1, <2>4, <3>4 DEF TypeOK, Apart
    <3>6. before \notin {"PDN", "SUSPENDED"}
      BY <2>4 DEF PhyInv, ReturnsAwake
    <3>7. CountInv' /\ MaskInv' /\ StartInv'
      BY <2>1, <2>4 DEF Apart, CountInv, PendingCounts, InHand, MaskInv, MaskedWhilePending, StartInv
    <3>8. PhyInv'
      BY <2>1, <2>4, <3>2, <3>4, <3>6 DEF Apart, PhyInv, ReturnsAwake, SuspendTracked
    <3>9. IfsInv'
      BY <2>4, <3>4, <3>6 DEF IfsInv, NoneLatched
    <3> QED BY <3>5, <3>7, <3>8, <3>9
  <2> QED BY <2>1, <2>2, <2>3, <2>4 DEF SuspendExit
<1>2. CASE LpmStore \/ LpmRestore
  <2>1. /\ Apart /\ pending = 0 /\ UNCHANGED <<isr, pwr, before, phy, attached, host, ifs>>
        /\ queue = <<>> /\ tpc = "wait" /\ ipc = "out"
        /\ nvic' \in BOOLEAN /\ asleep' \in BOOLEAN
    BY <1>2, OneMessage DEF LpmStore, LpmRestore, Apart, Runs, PhyInv
  <2>2. TypeOK' /\ CountInv'
    BY <2>1 DEF Apart, TypeOK, CountInv, PendingCounts, InHand
  <2>3. MaskInv'
    BY <2>1 DEF Apart, MaskInv, MaskedWhilePending
  <2>4. StartInv' /\ PhyInv' /\ IfsInv'
    BY <2>1 DEF Apart, StartInv, PhyInv, ReturnsAwake, SuspendTracked, IfsInv, Underway, NoneLatched
  <2> QED BY <2>2, <2>3, <2>4
<1> QED BY <1>1, <1>2

LEMMA SerialHost ==
    ASSUME SInv, SerialEvents, HostEvent \/ HostSuspend \/ HostResume \/ SeeSuspend
    PROVE  SInv'
<1> USE DEF SInv, isr, task, dm, host
<1>1. /\ Apart /\ UNCHANGED <<nvic, isr, dm, ifs>> /\ bus' \in {"active", "suspended"}
  <2>1. CASE HostEvent \/ SeeSuspend
    BY <2>1 DEF HostEvent, SeeSuspend, Apart, TypeOK
  <2>2. CASE HostSuspend \/ HostResume
    BY <2>2 DEF HostSuspend, HostResume, Apart
  <2> QED BY <2>1, <2>2
<1>2. \/ hwEv' = hwEv
      \/ \E m \in HalMsgs : /\ phy = "on" /\ hwEv' = Append(hwEv, m) /\ NoneLatched("SUSPEND")
  <2>1. /\ \A p \in Pkts : Msg("SETUP", p) \in HalMsgs
        /\ \A t \in {"SPEED_ENUM_DONE", "XFER_DONE", "SUSPEND"} : Msg(t, NoPkt) \in HalMsgs
    BY DEF Msg, HalMsgs, HalTypes
  <2>2. CASE HostEvent
    BY <2>1, <2>2 DEF HostEvent, Latch, SerialEvents
  <2>3. CASE SeeSuspend
    BY <2>1, <2>3 DEF SeeSuspend, Latch
  <2>4. CASE HostSuspend \/ HostResume
    BY <2>4 DEF HostSuspend, HostResume
  <2> QED BY <2>2, <2>3, <2>4
<1>3. CountInv' /\ MaskInv' /\ StartInv'
    BY <1>1 DEF Apart, CountInv, PendingCounts, InHand, MaskInv, MaskedWhilePending, StartInv
<1>4. CASE hwEv' = hwEv
  <2>1. TypeOK'
    BY <1>1, <1>4 DEF Apart, TypeOK
  <2>2. PhyInv' /\ IfsInv'
    BY <1>1, <1>4 DEF Apart, PhyInv, ReturnsAwake, SuspendTracked, IfsInv, Underway, NoneLatched
  <2> QED BY <1>3, <2>1, <2>2
<1>5. ASSUME NEW m \in HalMsgs, phy = "on", hwEv' = Append(hwEv, m), NoneLatched("SUSPEND")
      PROVE  SInv'
  <2>1. /\ hwEv' \in Seq(HalMsgs) /\ Len(hwEv') = Len(hwEv) + 1
        /\ \A i \in DOMAIN hwEv' : \/ i \in DOMAIN hwEv /\ hwEv'[i] = hwEv[i]
                                   \/ i = Len(hwEv) + 1 /\ hwEv'[i] = m
        /\ \A i \in DOMAIN hwEv : i \in DOMAIN hwEv' /\ hwEv'[i] = hwEv[i]
    BY <1>5 DEF TypeOK
  <2>2. TypeOK'
    BY <1>1, <2>1 DEF Apart, TypeOK
  <2>3. PhyInv'
    BY <1>1, <1>5, <2>1 DEF Apart, PhyInv, ReturnsAwake, SuspendTracked, NoneLatched
  <2>4. ~NoneLatched("RESUME") => ~NoneLatched("RESUME")'
    BY <2>1 DEF NoneLatched
  <2>5. IfsInv'
    BY <1>1, <2>4 DEF Apart, IfsInv, Underway
  <2> QED BY <1>3, <2>2, <2>3, <2>5
<1> QED BY <1>2, <1>4, <1>5

LEMMA SerialTask ==
    ASSUME SInv, SerialEvents, TaskStep
    PROVE  SInv'
<1> USE DEF SInv, isr, task, dm, host
<1>1. CASE Recv
  <2>1. /\ Runs /\ tpc = "wait" /\ queue # <<>> /\ queue' = Tail(queue) /\ tmsg' = Head(queue)
        /\ tpc' = IF Head(queue).type \in DmTypes THEN "dm" ELSE "hal"
        /\ UNCHANGED <<pending, nvic, setup_pkt, isr, tmp, dm, host, ifs>>
    BY <1>1 DEF Recv
  <2>2. PICK m : m = Head(queue) /\ m \in Msgs /\ m = queue[1] /\ 1 \in DOMAIN queue
    BY <2>1, Received
  <2>3. m.type \in DmTypes <=> m.type \notin HalTypes
    BY <2>2 DEF Msgs, DmTypes, HalTypes
  <2>4. /\ queue' \in Seq(Msgs)
        /\ CountOf(queue, HalTypes) = CountOf(queue, HalTypes)'
               + (IF m.type \in HalTypes THEN 1 ELSE 0)
        /\ CountOf(queue, DmTypes) = CountOf(queue, DmTypes)'
               + (IF m.type \in DmTypes THEN 1 ELSE 0)
        /\ \A i \in DOMAIN queue' :
               i \in Nat \ {0} /\ i + 1 \in DOMAIN queue /\ queue'[i] = queue[i + 1]
    BY <2>1, <2>2, Received
  <2>5. CountOf(queue, HalTypes)' \in Nat /\ CountOf(queue, DmTypes)' \in Nat
    BY <2>4, CountType
  <2>6. TypeOK'
    BY <2>1, <2>2, <2>4 DEF TypeOK
  <2>7. CountInv'
    <3>1. InHand = 0 /\ InHand' = IF m.type \in HalTypes THEN 1 ELSE 0
      BY <2>1, <2>2, <2>3 DEF InHand
    <3> QED BY <2>1, <2>3, <2>4, <2>5, <3>1, LimitsAssumption DEF CountInv, PendingCounts
  <2>8. MaskInv' /\ PhyInv'
    BY <2>1 DEF Runs, MaskInv, MaskedWhilePending, PhyInv, ReturnsAwake, SuspendTracked
  <2>9. StartInv'
    BY <2>1, <2>2, <2>4 DEF StartInv
  <2>10. \A type \in HalTypes : Underway(type)' <=> Underway(type)
    <3> TAKE type \in HalTypes
    <3>1. ASSUME Underway(type) PROVE Underway(type)'
      <4>1. PICK i \in DOMAIN queue : queue[i].type = type
        BY <2>1, <3>1 DEF Underway
      <4>2. CASE i = 1
        BY <2>1, <2>2, <2>3, <4>1, <4>2 DEF Underway
      <4>3. CASE i # 1
        <5>1. i - 1 \in DOMAIN queue' /\ queue'[i - 1] = queue[i]
          <6>1. queue \in Seq(Msgs)
            BY DEF TypeOK
          <6> QED BY <2>1, <4>1, <4>3, <6>1, TailOf
        <5> QED BY <4>1, <5>1 DEF Underway
      <4> QED BY <4>2, <4>3
    <3>2. ASSUME Underway(type)' PROVE Underway(type)
      BY <2>1, <2>2, <2>4, <3>2 DEF Underway
    <3> QED BY <3>1, <3>2
  <2>11. IfsInv'
    BY <2>1, <2>10 DEF IfsInv, NoneLatched, HalTypes
  <2> QED BY <2>6, <2>7, <2>8, <2>9, <2>11
<1>2. CASE DmStop \/ \E accepted \in BOOLEAN : DmStart(accepted)
  <2>1. /\ Runs /\ tpc = "dm" /\ tpc' = "wait"
        /\ UNCHANGED <<queue, pending, setup_pkt, ipc, taken, tmsg, tmp, asleep, bus, ifs>>
        /\ \/ UNCHANGED <<pwr, before, phy, attached, nvic, hwEv>>
           \/ /\ pwr' = "PDN" /\ before' = "PDN" /\ phy' = "off" /\ attached' = FALSE
              /\ nvic' = FALSE /\ hwEv' = <<>>
           \/ /\ tmsg.type = "START" /\ pwr' = "POWERED" /\ before' = before /\ phy' = "on"
              /\ attached' = TRUE /\ nvic' = TRUE /\ hwEv' = <<>>
    BY <1>2 DEF DmStop, DmStart
  <2>2. /\ \A i \in DOMAIN queue : queue[i].type # "START"
        /\ tmsg.type = "START" => pwr = "PDN" /\ pending = 0
    BY <2>1 DEF StartInv
  <2>3. TypeOK'
    <3>1. hwEv \in Seq(HalMsgs) /\ <<>> \in Seq(HalMsgs)
      BY DEF TypeOK
    <3>2. hwEv' \in Seq(HalMsgs)
      BY <2>1, <3>1
    <3>3. /\ pwr' \in PwrStates /\ before' \in PwrStates /\ nvic' \in BOOLEAN
          /\ phy' \in {"off", "on", "suspended"} /\ attached' \in BOOLEAN
      BY <2>1 DEF TypeOK, PwrStates
    <3> QED BY <2>1, <3>2, <3>3 DEF TypeOK
  <2>4. CountInv' /\ StartInv'
    BY <2>1, <2>2 DEF CountInv, PendingCounts, InHand, StartInv
  <2>5. MaskInv'
    BY <2>1, <2>2 DEF Runs, MaskInv, MaskedWhilePending
  <2>6. \A type : Underway(type)' <=> Underway(type)
    BY <2>1 DEF Underway
  <2>7. PhyInv'
    BY <2>1 DEF Runs, PhyInv, ReturnsAwake, SuspendTracked
  <2>8. IfsInv'
    BY <2>1, <2>6 DEF IfsInv, NoneLatched
  <2> QED BY <2>3, <2>4, <2>5, <2>7, <2>8
<1>3. CASE HalDispatch
  <2>1. /\ Runs /\ tpc = "hal" /\ tpc' = "dec" /\ pwr # "PDN"
        /\ UNCHANGED <<queue, pending, nvic, setup_pkt, isr, tmsg, tmp, before, phy,
                       attached, asleep, host>>
        /\ pwr' \in PwrStates /\ ifs' \in BOOLEAN
        /\ tmsg.type \notin {"SPEED_ENUM_DONE", "SETUP"} => pwr' = pwr
        /\ pwr' = pwr \/ pwr' \in {"DEFAULT", "ADDRESSED"} \/ (pwr' = "CONFIGURED" /\ ifs' = TRUE)
        /\ tmsg.type = "SUSPEND" => ifs' = FALSE
        /\ tmsg.type = "RESUME" => ifs' = TRUE
        /\ tmsg.type \notin {"SUSPEND", "RESUME"} => ifs' \in {ifs, TRUE}
    <3>1. /\ Runs /\ tpc = "hal" /\ tpc' = "dec" /\ pwr # "PDN"
          /\ UNCHANGED <<queue, pending, nvic, setup_pkt, isr, tmsg, tmp, before, phy,
                         attached, asleep, host>>
      BY <1>3 DEF HalDispatch
    <3> DEFINE Good == /\ pwr' \in PwrStates
                       /\ tmsg.type \notin {"SPEED_ENUM_DONE", "SETUP"} => pwr' = pwr
                       /\ pwr' = pwr \/ pwr' \in {"DEFAULT", "ADDRESSED"} \/ (pwr' = "CONFIGURED" /\ ifs' = TRUE)
               Fits == /\ ifs' \in BOOLEAN
                       /\ tmsg.type = "SUSPEND" => ifs' = FALSE
                       /\ tmsg.type = "RESUME" => ifs' = TRUE
                       /\ tmsg.type \notin {"SUSPEND", "RESUME"} => ifs' \in {ifs, TRUE}
    <3>2. ifs \in BOOLEAN /\ pwr \in PwrStates
      BY DEF TypeOK
    <3>3. CASE tmsg.type = "SPEED_ENUM_DONE"
      <4>1. pwr' = "DEFAULT" /\ ifs' = ifs
        BY <1>3, <3>3 DEF HalDispatch
      <4>2. Good
        BY <3>3, <4>1 DEF PwrStates
      <4>3. Fits
        BY <3>3, <3>2, <4>1
      <4> QED BY <3>1, <4>2, <4>3
    <3>4. CASE tmsg.type = "SETUP"
      <4>1. \/ pwr' \in {"ADDRESSED", pwr} /\ ifs' = ifs
            \/ pwr' = "CONFIGURED" /\ ifs' = TRUE
        BY <1>3, <3>4 DEF HalDispatch
      <4>2. Good
        BY <3>4, <3>2, <4>1 DEF PwrStates
      <4>3. Fits
        BY <3>4, <3>2, <4>1
      <4> QED BY <3>1, <4>2, <4>3
    <3>5. CASE tmsg.type \notin {"SPEED_ENUM_DONE", "SETUP"}
      <4>1. pwr' = pwr
        BY <1>3, <3>5 DEF HalDispatch
      <4>2. /\ tmsg.type = "SUSPEND" => ifs' = FALSE
            /\ tmsg.type = "RESUME" => ifs' = TRUE
            /\ tmsg.type \notin {"SUSPEND", "RESUME"} => ifs' = ifs
        BY <1>3, <3>5 DEF HalDispatch
      <4>3. Good
        BY <3>2, <4>1
      <4>4. Fits
        BY <3>2, <4>2
      <4> QED BY <3>1, <4>3, <4>4
    <3> QED BY <3>3, <3>4, <3>5
  <2>2. \A type \in HalTypes : ~Underway(type)' /\ (Underway(type) => tmsg.type = type)
    BY <2>1, OneMessage DEF Underway
  <2>3. tmsg.type \in HalTypes => Underway(tmsg.type)
    BY <2>1 DEF Underway
  <2>4. tmsg.type \in {"SPEED_ENUM_DONE", "SETUP"} => pwr # "SUSPENDED"
    BY <2>3 DEF IfsInv, HalTypes
  <2>5. TypeOK'
    BY <2>1 DEF TypeOK
  <2>6. CountInv' /\ StartInv'
    BY <2>1 DEF CountInv, PendingCounts, InHand, StartInv
  <2>7. MaskInv'
    BY <2>1 DEF Runs, MaskInv, MaskedWhilePending
  <2>8. PhyInv'
    BY <2>1, <2>4 DEF Runs, PhyInv, ReturnsAwake, SuspendTracked
  <2>9. "SUSPEND" \in HalTypes /\ "RESUME" \in HalTypes
    BY DEF HalTypes
  <2>10. pwr' = "SUSPENDED" => ~ifs'
    <3>1. ASSUME pwr' = "SUSPENDED" PROVE ~ifs'
      <4>1. pwr = "SUSPENDED"
        BY <2>1, <3>1
      <4>2. CASE tmsg.type = "SUSPEND"
        BY <2>1, <4>2
      <4>3. CASE tmsg.type # "SUSPEND"
        <5>1. tmsg.type \notin HalTypes /\ ~ifs
          BY <2>2, <2>3, <2>9, <4>1, <4>3 DEF IfsInv
        <5>2. ifs' = ifs
          BY <1>3, <5>1 DEF HalDispatch, HalTypes
        <5> QED BY <5>1, <5>2
      <4> QED BY <4>2, <4>3
    <3> QED BY <3>1
  <2>11. pwr' = "CONFIGURED" => ifs' \/ ~NoneLatched("RESUME")
    <3>1. ASSUME pwr' = "CONFIGURED", ~ifs' PROVE ~NoneLatched("RESUME")
      <4>1. pwr = "CONFIGURED" /\ tmsg.type # "RESUME"
        BY <2>1, <3>1
      <4>2. ~Underway("RESUME")
        BY <2>2, <2>9, <4>1
      <4>3. CASE tmsg.type = "SUSPEND"
        BY <2>3, <2>9, <4>1, <4>2, <4>3 DEF IfsInv
      <4>4. CASE tmsg.type # "SUSPEND"
        <5>1. ~ifs
          BY <2>1, <3>1, <4>1, <4>4
        <5> QED BY <4>1, <4>2, <5>1 DEF IfsInv
      <4> QED BY <4>3, <4>4
    <3> QED BY <3>1
  <2>12. IfsInv'
    <3>1. NoneLatched("RESUME")' <=> NoneLatched("RESUME")
      BY <2>1 DEF NoneLatched
    <3> QED BY <2>2, <2>9, <2>10, <2>11, <3>1 DEF IfsInv
  <2> QED BY <2>5, <2>6, <2>7, <2>8, <2>12
<1>4. CASE HalPdn \/ Load \/ Enable
  <2>1. /\ Runs /\ tpc \in {"hal", "dec", "decPdn", "enable"}
        /\ UNCHANGED <<queue, pending, setup_pkt, isr, tmsg, dm, host, ifs>>
        /\ tpc = "hal" => pwr = "PDN" /\ tpc' = "decPdn" /\ UNCHANGED <<nvic, tmp>>
        /\ tpc = "dec" => tpc' = "store" /\ tmp' = pending /\ nvic' = nvic
        /\ tpc = "decPdn" => tpc' = "storePdn" /\ tmp' = pending /\ nvic' = nvic
        /\ tpc = "enable" => tpc' = "wait" /\ tmp' = tmp /\ nvic' = (nvic \/ pending = 0)
    BY <1>4 DEF HalPdn, Load, Enable
  <2>2. pending \in Nat
    BY DEF TypeOK, Width
  <2>3. TypeOK'
    BY <2>1 DEF TypeOK
  <2>4. CountInv' /\ StartInv'
    BY <2>1 DEF CountInv, PendingCounts, InHand, StartInv
  <2>5. MaskInv'
    <3>1. nvic' => nvic \/ pending = 0
      BY <2>1
    <3> QED BY <2>1, <2>2, <3>1 DEF Runs, MaskInv, MaskedWhilePending
  <2>6. PhyInv'
    BY <2>1 DEF Runs, PhyInv, ReturnsAwake, SuspendTracked
  <2>7. pwr # "PDN" => \A type : Underway(type)' <=> Underway(type)
    BY <2>1 DEF Underway
  <2>8. IfsInv'
    BY <2>1, <2>7 DEF IfsInv, NoneLatched
  <2> QED BY <2>3, <2>4, <2>5, <2>6, <2>8
<1>5. CASE Store
  <2>1. /\ Runs /\ tpc \in {"store", "storePdn"} /\ tmp = pending
        /\ tpc' = IF tpc = "store" THEN "enable" ELSE "wait"
        /\ UNCHANGED <<queue, nvic, setup_pkt, isr, tmsg, tmp, dm, host, ifs>>
        /\ pending' = (tmp + Width - 1) % Width
    BY <1>5 DEF Store, CountInv
  <2>2. InHand = 1 /\ InHand' = 0 /\ pending = 1
    BY <2>1, OneMessage DEF InHand
  <2>3. pending' = 0
    <3>1. (1 + 256 - 1) % 256 = 0
      OBVIOUS
    <3> QED BY <2>1, <2>2, <3>1 DEF Width
  <2>4. TypeOK'
    BY <2>1, <2>3 DEF TypeOK, Width
  <2>5. CountInv'
    <3>1. CountOf(queue, HalTypes) = 0
      BY <2>2, Partition DEF CountInv, PendingCounts
    <3> QED BY <2>1, <2>2, <2>3, <3>1 DEF CountInv, PendingCounts, SerialEvents
  <2>6. MaskInv' /\ StartInv'
    BY <2>1, <2>2, <2>3 DEF Runs, MaskInv, MaskedWhilePending, StartInv
  <2>7. PhyInv'
    BY <2>1 DEF Runs, PhyInv, ReturnsAwake, SuspendTracked
  <2>8. IfsInv'
    BY <2>1 DEF IfsInv, Underway, NoneLatched
  <2> QED BY <2>4, <2>5, <2>6, <2>7, <2>8
<1> QED BY <1>1, <1>2, <1>3, <1>4, <1>5 DEF TaskStep

LEMMA SerialInvariance == ASSUME SerialEvents PROVE Spec => []SInv
<1>1. Init => SInv
    BY SerialInit
<1>2. SInv /\ [Next]_vars => SInv'
  <2> SUFFICES ASSUME SInv, [Next]_vars PROVE SInv'
      OBVIOUS
  <2>1. CASE UNCHANGED vars
    <3>1. TypeOK' /\ CountInv'
      BY <2>1 DEF vars, SInv, TypeOK, CountInv, PendingCounts, InHand
    <3>2. MaskInv' /\ StartInv'
      BY <2>1 DEF vars, SInv, MaskInv, MaskedWhilePending, InHand, StartInv
    <3>3. PhyInv' /\ IfsInv'
      BY <2>1 DEF vars, SInv, PhyInv, ReturnsAwake, SuspendTracked, IfsInv, Underway, NoneLatched
    <3> QED BY <3>1, <3>2, <3>3 DEF SInv
  <2>2. CASE Next
    BY <2>2, SerialPost, SerialIsr, SerialPower, SerialHost, SerialTask DEF Next
  <2> QED BY <2>1, <2>2
<1> QED BY <1>1, <1>2, PTL DEF Spec

\* The power state knows whether the PHY sleeps, although the interrupt enters
\* suspend, and the suspendn interrupt or a task leaves it, while the USB task may
\* be handling a message.
THEOREM SuspendKnown == ASSUME SerialEvents PROVE Spec => []SuspendTracked
<1>1. SInv => SuspendTracked
    BY DEF SInv, PhyInv
<1> QED BY <1>1, SerialInvariance, PTL

\* What suspend has saved is a state in which the device was awake, although it is
\* saved without a look at what it is: suspend and exit alternate.
THEOREM ReturnsToAwake == ASSUME SerialEvents PROVE Spec => []ReturnsAwake
<1>1. SInv => ReturnsAwake
    BY DEF SInv, PhyInv
<1> QED BY <1>1, SerialInvariance, PTL

\* Once every message is handled, a configured device has its endpoints enabled
\* and a suspended one disabled: no exit from suspend overtakes the message of the
\* suspend for good.
THEOREM InterfacesCatchUp == ASSUME SerialEvents PROVE Spec => []InterfacesFollow
<1>1. ASSUME SInv PROVE InterfacesFollow
  <2>1. Settled => /\ ~Underway("SUSPEND") /\ ~Underway("RESUME")
                   /\ NoneLatched("RESUME")
    BY DEF Settled, Underway, NoneLatched
  <2> QED BY <1>1, <2>1 DEF SInv, IfsInv, InterfacesFollow
<1>2. SInv => InterfacesFollow
    BY <1>1
<1> QED BY <1>2, SerialInvariance, PTL

=============================================================================

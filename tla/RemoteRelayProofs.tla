-------------------------- MODULE RemoteRelayProofs --------------------------
(***************************************************************************)
(* Proofs about RemoteRelay, for every number of credits, queue length,    *)
(* width of the sequence numbers and bounds: types, the credits, the state *)
(* machine of sniff mode, and that the relay queue is never left to itself.*)
(***************************************************************************)
EXTENDS RemoteRelay, ListFacts

-----------------------------------------------------------------------------
(* The link's record *)

\* What a single record promises, whoever acts on it.
Sound(l) ==
    /\ l \in Link
    /\ l.state \in {"active", "sniffPending"} => l.timer
    /\ l.action = "exit" => l.state = "sniffPending"
    /\ l.action = "enter" => l.state = "activePending"
    /\ l.state = "sniff" /\ ~l.enable => l.gaveUp

\* The link is on its way to another mode, or stuck in sniff mode.
Moves(l) == l.state \in Pending \/ l.gaveUp

\* Asking for an exit from any state.
LEMMA ExitFacts ==
    ASSUME NEW l \in Link, NEW ok \in BOOLEAN
    PROVE  /\ ExitSniff(l, ok) \in Link
           /\ ExitSniff(l, ok).timer = l.timer /\ ExitSniff(l, ok).enable = l.enable
           /\ \/ ExitSniff(l, ok).action = "idle"
              \/ ExitSniff(l, ok).action = "exit" /\ l.state = "sniffPending"
           /\ l.state # "sniff" => /\ ExitSniff(l, ok).state = l.state
                                   /\ ExitSniff(l, ok).gaveUp = l.gaveUp
           /\ l.state = "sniff" => \/ ExitSniff(l, ok).state = "activePending"
                                   \/ ExitSniff(l, ok).state = "sniff" /\ ExitSniff(l, ok).gaveUp
<1>1. Append(l.cmds, "exit") \in Seq(Commands)
    BY PutTail DEF Link, Commands
<1>2. CASE l.state = "sniff" /\ ok
  <2>1. ExitSniff(l, ok) \in Link
    BY <1>1, <1>2 DEF ExitSniff, Link, PmStates, PmActions, Pending
  <2>2. ExitSniff(l, ok).timer = l.timer /\ ExitSniff(l, ok).enable = l.enable
    BY <1>2 DEF ExitSniff, Link
  <2>3. ExitSniff(l, ok).action = "idle" /\ ExitSniff(l, ok).state = "activePending"
    BY <1>2 DEF ExitSniff, Link
  <2>4. QED
    BY <1>2, <2>1, <2>2, <2>3
<1>3. CASE l.state # "sniff" \/ ~ok
  <2>1. ExitSniff(l, ok) \in Link
    BY <1>3 DEF ExitSniff, Link, PmStates, PmActions, Pending
  <2>2. ExitSniff(l, ok).timer = l.timer /\ ExitSniff(l, ok).enable = l.enable
    BY <1>3 DEF ExitSniff, Link
  <2>3. /\ l.state # "sniff" => ExitSniff(l, ok).gaveUp = l.gaveUp
        /\ l.state = "sniff" => ExitSniff(l, ok).gaveUp
    BY <1>3 DEF ExitSniff, Link
  <2>4. /\ ExitSniff(l, ok).state = l.state
        /\ ExitSniff(l, ok).action = IF l.state = "sniffPending" THEN "exit" ELSE "idle"
    BY <1>3 DEF ExitSniff, Link
  <2>5. QED
    BY <1>3, <2>1, <2>2, <2>3, <2>4
<1>4. QED
    BY <1>2, <1>3

\* Asking to enter sniff mode from any state.
LEMMA EnterFacts ==
    ASSUME NEW l \in Link, NEW ok \in BOOLEAN
    PROVE  /\ EnterSniff(l, ok) \in Link
           /\ EnterSniff(l, ok).timer = l.timer /\ EnterSniff(l, ok).enable = l.enable
           /\ EnterSniff(l, ok).gaveUp = l.gaveUp
           /\ \/ EnterSniff(l, ok).action = "idle"
              \/ EnterSniff(l, ok).action = "enter" /\ l.state = "activePending"
           /\ \/ EnterSniff(l, ok).state = l.state
              \/ EnterSniff(l, ok).state = "sniffPending" /\ l.state = "active"
<1>1. Append(l.cmds, "enter") \in Seq(Commands)
    BY PutTail DEF Link, Commands
<1>2. CASE l.state = "active" /\ ok
  <2>1. EnterSniff(l, ok) \in Link
    BY <1>1, <1>2 DEF EnterSniff, Link, PmStates, PmActions, Pending
  <2>2. /\ EnterSniff(l, ok).timer = l.timer /\ EnterSniff(l, ok).enable = l.enable
        /\ EnterSniff(l, ok).gaveUp = l.gaveUp
    BY <1>2 DEF EnterSniff, Link
  <2>3. EnterSniff(l, ok).action = "idle" /\ EnterSniff(l, ok).state = "sniffPending"
    BY <1>2 DEF EnterSniff, Link
  <2>4. QED
    BY <1>2, <2>1, <2>2, <2>3
<1>3. CASE l.state # "active" \/ ~ok
  <2>1. EnterSniff(l, ok) \in Link
    BY <1>3 DEF EnterSniff, Link, PmStates, PmActions, Pending
  <2>2. /\ EnterSniff(l, ok).timer = l.timer /\ EnterSniff(l, ok).enable = l.enable
        /\ EnterSniff(l, ok).gaveUp = l.gaveUp
    BY <1>3 DEF EnterSniff, Link
  <2>3. /\ EnterSniff(l, ok).state = l.state
        /\ EnterSniff(l, ok).action = IF l.state = "activePending" THEN "enter" ELSE "idle"
    BY <1>3 DEF EnterSniff, Link
  <2>4. QED
    BY <1>3, <2>1, <2>2, <2>3
<1>4. QED
    BY <1>2, <1>3

\* Asking for an exit when sniff mode is not only being entered.
LEMMA ExitFromSniff ==
    ASSUME NEW l \in Link, NEW ok \in BOOLEAN, l.state \in {"sniff", "activePending"}
    PROVE  /\ ExitSniff(l, ok) \in Link /\ ExitSniff(l, ok).action = "idle"
           /\ \/ ExitSniff(l, ok).state = "activePending"
              \/ ExitSniff(l, ok).state = "sniff" /\ ExitSniff(l, ok).gaveUp
<1>1. ExitSniff(l, ok) \in Link /\ ExitSniff(l, ok).action = "idle"
    BY ExitFacts
<1>2. CASE l.state = "sniff"
    BY <1>2, ExitFacts
<1>3. CASE l.state = "activePending"
    BY <1>3, ExitFacts
<1>4. QED
    BY <1>1, <1>2, <1>3

\* Asking for an exit.
LEMMA ExitSound ==
    ASSUME NEW l, Sound(l), NEW ok \in BOOLEAN
    PROVE  /\ Sound(ExitSniff(l, ok))
           /\ l.state # "active" => Moves(ExitSniff(l, ok))
           /\ Moves(l) => Moves(ExitSniff(l, ok))
    BY ExitFacts DEF Sound, Moves, Link, PmStates, Pending

\* A request to enter sniff mode, with the idle timer running or not.
LEMMA EnterReqSound ==
    ASSUME NEW p, Sound(p), NEW l \in {p, [p EXCEPT !.timer = FALSE]},
           NEW veto \in BOOLEAN, NEW ok \in BOOLEAN
    PROVE  /\ Sound(EnterReq(l, veto, ok))
           /\ veto /\ Moves(p) => Moves(EnterReq(l, veto, ok))
<1> DEFINE e == IF veto THEN l ELSE EnterSniff(l, ok)
           r == EnterReq(l, veto, ok)
<1>1. /\ l \in Link /\ l.state = p.state /\ l.action = p.action
      /\ l.enable = p.enable /\ l.gaveUp = p.gaveUp
    BY DEF Sound, Link
<1>2. /\ e \in Link
      /\ e.action = l.action \/ e.action = "idle"
            \/ (e.action = "enter" /\ l.state = "activePending")
      /\ e.state = l.state \/ (e.state = "sniffPending" /\ l.state = "active")
      /\ e.enable = l.enable /\ e.gaveUp = l.gaveUp
    BY <1>1, EnterFacts
<1>3. veto => e.state = l.state /\ e.action = l.action
    BY DEF Link
<1>4. e.state # l.state => e.action # "exit"
    BY <1>1, <1>2 DEF Sound, Link
<1>5. r = [e EXCEPT !.timer = Restart(l, veto)]
    BY DEF EnterReq
<1> HIDE DEF e, r
<1>6. Restart(l, veto) \in BOOLEAN
    BY DEF Restart
<1>7. /\ r \in Link /\ r.timer = Restart(l, veto)
      /\ r.state = e.state /\ r.action = e.action /\ r.enable = e.enable /\ r.gaveUp = e.gaveUp
    BY <1>2, <1>5, <1>6 DEF Link
<1>8. r.state \in {"active", "sniffPending"} => r.timer
    BY <1>1, <1>2, <1>7 DEF Restart
<1>9. /\ r.action = "exit" => r.state = "sniffPending"
      /\ r.action = "enter" => r.state = "activePending"
    BY <1>1, <1>2, <1>3, <1>4, <1>7 DEF Sound
<1>10. r.state = "sniff" /\ ~r.enable => r.gaveUp
    BY <1>1, <1>2, <1>7 DEF Sound
<1>11. veto /\ Moves(p) => Moves(r)
    BY <1>1, <1>2, <1>3, <1>7 DEF Moves
<1>12. QED
    BY <1>7, <1>8, <1>9, <1>10, <1>11 DEF Sound, r

\* Sniff mode was entered; asked says whether a callback wants out at once.
LEMMA EnteredSound ==
    ASSUME NEW l, Sound(l), NEW asked \in BOOLEAN, NEW ok \in BOOLEAN, NEW again \in BOOLEAN,
           NEW a, a = IF asked THEN ExitSniff(EnterSuccessBegin(l), ok) ELSE EnterSuccessBegin(l)
    PROVE  /\ Sound(EnterSuccessEnd(a, again))
           /\ asked => Moves(EnterSuccessEnd(a, again))
<1> DEFINE b == EnterSuccessBegin(l)
           e == [a EXCEPT !.action = "idle"]
           r == EnterSuccessEnd(a, again)
<1>1. /\ b \in Link /\ b.state = "sniff" /\ b.enable = l.enable
    BY DEF Sound, EnterSuccessBegin, Link, PmStates, Pending
<1>2. ASSUME asked
      PROVE  /\ a \in Link /\ a.action = "idle"
             /\ a.state = "activePending" \/ (a.state = "sniff" /\ a.gaveUp)
    BY <1>1, <1>2, ExitFacts
<1>3. a \in Link /\ a.state \in {"sniff", "activePending"}
    BY <1>1, <1>2
<1>4. /\ e \in Link /\ e.state = a.state /\ e.enable = a.enable /\ e.gaveUp = a.gaveUp
      /\ e.action = "idle"
    BY <1>3 DEF Link, PmActions
<1>5. r = IF Leave(a) THEN ExitSniff(e, again) ELSE e
    BY DEF EnterSuccessEnd
<1> HIDE DEF e, r
<1>6. CASE Leave(a)
  <2>1. /\ r \in Link
        /\ r.state = "activePending" \/ (r.state = "sniff" /\ r.gaveUp)
    BY <1>3, <1>4, <1>5, <1>6, ExitFromSniff
  <2>2. r.action = "idle"
    BY <1>3, <1>4, <1>5, <1>6, ExitFromSniff
  <2>3. QED
    BY <2>1, <2>2 DEF Sound, Moves, Pending, r
<1>7. CASE ~Leave(a)
  <2>1. a.enable
    BY <1>7 DEF Leave
  <2>2. QED
    BY <1>2, <1>3, <1>4, <1>5, <1>7, <2>1 DEF Sound, Moves, Pending, r
<1>8. QED
    BY <1>6, <1>7

\* An exit failed.
LEMMA ExitFailSound ==
    ASSUME NEW l, Sound(l), NEW asked \in BOOLEAN, NEW ok \in BOOLEAN, NEW again \in BOOLEAN,
           NEW a, a = IF asked THEN ExitSniff(ExitFailBegin(l), ok) ELSE ExitFailBegin(l)
    PROVE  /\ Sound(ExitFailEnd(a, again))
           /\ Moves(ExitFailEnd(a, again))
<1> DEFINE b == ExitFailBegin(l)
           e == [a EXCEPT !.action = "idle"]
           r == ExitFailEnd(a, again)
<1>1. b \in Link /\ b.state = "sniff" /\ b.gaveUp
    BY DEF Sound, ExitFailBegin, Link, PmStates, Pending
<1>2. a \in Link /\ (a.state = "activePending" \/ (a.state = "sniff" /\ a.gaveUp))
    BY <1>1, ExitFacts
<1>3. /\ e \in Link /\ e.state = a.state /\ e.gaveUp = a.gaveUp /\ e.action = "idle"
    BY <1>2 DEF Link, PmActions
<1>4. r = IF a.action = "exit" THEN ExitSniff(e, again) ELSE e
    BY DEF ExitFailEnd
<1> HIDE DEF e, r
<1>5. CASE a.action = "exit"
  <2>1. r = ExitSniff(e, again)
    BY <1>4, <1>5
  <2>2. /\ r \in Link /\ r.action = "idle"
        /\ r.state = "activePending" \/ (r.state = "sniff" /\ r.gaveUp)
    BY <1>2, <1>3, <2>1, ExitFromSniff
  <2>3. QED
    BY <2>2 DEF Sound, Moves, Pending, r
<1>6. CASE a.action # "exit"
    BY <1>2, <1>3, <1>4, <1>6 DEF Sound, Moves, Pending, r
<1>7. QED
    BY <1>5, <1>6

\* The link is active again: l is its record after Woke, c what the callbacks
\* made of it.
LEMMA WokeSound ==
    ASSUME NEW p, Sound(p), NEW asked \in BOOLEAN, NEW ok \in BOOLEAN,
           NEW a, a = IF asked THEN ExitSniff(Woke(p), ok) ELSE Woke(p)
    PROVE  Sound(WokeEnd(a, ok))
<1> DEFINE b == Woke(p)
           e == [a EXCEPT !.action = "idle"]
           r == WokeEnd(a, ok)
<1>1. b \in Link /\ b.state = "active" /\ b.timer = TRUE
    BY DEF Sound, Woke, Link, PmStates, Pending
<1>2. a \in Link /\ a.state = "active" /\ a.timer = TRUE
    BY <1>1, ExitFacts
<1>3. /\ e \in Link /\ e.state = "active" /\ e.timer = TRUE /\ e.action = "idle"
    BY <1>2 DEF Link, PmActions
<1>4. r = IF a.action = "enter" THEN EnterSniff(e, ok) ELSE e
    BY DEF WokeEnd
<1> HIDE DEF e, r
<1>5. QED
    BY <1>3, <1>4, EnterFacts DEF Sound, r

\* bt_sniff_mode_disable and bt_sniff_mode_enable.
LEMMA ConfigSound ==
    ASSUME NEW l, Sound(l), NEW ok \in BOOLEAN, NEW change \in BOOLEAN
    PROVE  /\ Sound(Disable(l, ok)) /\ Sound(Enable(l, change, ok))
           /\ Moves(l) => Moves(Disable(l, ok)) /\ Moves(Enable(l, change, ok))
<1> DEFINE d == [l EXCEPT !.enable = FALSE]
           e == [l EXCEPT !.enable = TRUE]
<1>1. /\ d \in Link /\ d.state = l.state /\ d.action = l.action /\ d.timer = l.timer
      /\ d.gaveUp = l.gaveUp
    BY DEF Sound, Link
<1>2. /\ e \in Link /\ e.state = l.state /\ e.action = l.action /\ e.timer = l.timer
      /\ e.gaveUp = l.gaveUp /\ e.enable = TRUE
    BY DEF Sound, Link
<1>3. /\ Disable(l, ok) = IF ~l.enable THEN l ELSE IF l.state = "active" THEN d ELSE ExitSniff(d, ok)
      /\ Enable(l, change, ok) = IF change THEN ExitSniff(e, ok) ELSE e
    BY DEF Disable, Enable
<1> HIDE DEF d, e
<1>4. Sound(e) /\ (Moves(l) => Moves(e))
    BY <1>2 DEF Sound, Moves
<1>5. l.state = "active" => Sound(d) /\ (Moves(l) => Moves(d))
    BY <1>1 DEF Sound, Moves
<1>6. l.state # "active" => Sound(ExitSniff(d, ok)) /\ Moves(ExitSniff(d, ok))
    BY <1>1, ExitFacts DEF Sound, Moves, Link, PmStates, Pending
<1>7. QED
    BY <1>3, <1>4, <1>5, <1>6, ExitSound

-----------------------------------------------------------------------------
(* The relay *)

\* The inductive invariant.  Books: a session's credits are accounted for, nothing
\* waits without a session, the link's record is sound and something will come
\* back to the queue.  Others: the types of what dequeueing does not touch.
Books ==
    /\ queue \in Seq(Message) /\ Len(queue) <= QueueNum /\ air \in Seq(Message)
    /\ credits \in 0 .. Credits /\ unacked \in 0 .. Credits /\ retrans \in BOOLEAN
    /\ Sound(pm)
    /\ CreditsConserved
    /\ ~Connected => unacked = 0 /\ queue = <<>>
    /\ RelayWakeup

Others ==
    /\ session \in {"down", "connecting", "up", "closing"}
    /\ tx_seq \in 0 .. Width - 1 /\ rx_seq \in 0 .. Width - 1
    /\ tried \in 0 .. MaxCalls /\ last \in Nat /\ sessions \in 0 .. MaxSessions
    /\ peerUp \in BOOLEAN /\ mode \in {"active", "sniff"} /\ evts \in Seq(PmEvents)

RelayInv == Books /\ Others

\* With no credit left, some answer is still to come.
LEMMA AllLent ==
    ASSUME NEW c \in 0 .. Credits, NEW u \in 0 .. Credits, c + u = Credits, c = 0
    PROVE  u > 0
    BY RelayAssumption

\* What one call of remote_msg_dequeue does to the queue and the credits.
LEMMA TransmitFacts ==
    ASSUME RelayInv, NEW q \in Seq(Message), NEW c \in 0 .. Credits,
           NEW k \in 0 .. Credits, NEW l, Transmit(l, q, c, k)
    PROVE  /\ k <= Len(q) /\ k <= c
           /\ queue' \in Seq(Message) /\ Len(queue') = Len(q) - k
           /\ air' \in Seq(Message)
           /\ credits' = c - k
           /\ session # "up" => k = 0
           /\ k = 0 => queue' = q
           /\ l.state = "active" /\ ~Short(l, q, c, k) /\ queue' # <<>> => credits' = 0
<1> USE RelayAssumption
<1>1. Len(q) \in Nat /\ k \in Nat /\ c \in Nat /\ credits' = c - k
    BY DEF Transmit
<1>2. Ready(q, c) \in Nat /\ Ready(q, c) <= Len(q) /\ Ready(q, c) <= c
    BY <1>1 DEF Ready
<1>3. k <= Ready(q, c) /\ (session # "up" => k = 0)
    BY <1>1, <1>2 DEF Transmit, Burst
<1>4. k <= Len(q) /\ k <= c
    BY <1>1, <1>2, <1>3
<1>5. queue' = SubSeq(q, k + 1, Len(q)) /\ queue' \in Seq(Message) /\ Len(queue') = Len(q) - k
    BY <1>1, <1>4 DEF Transmit
<1>6. SubSeq(q, 1, k) \in Seq(Message)
    BY <1>1, <1>4
<1>7. air' \in Seq(Message)
    BY <1>6, JoinLists DEF Transmit, RelayInv, Books
<1>8. k = 0 => queue' = q
    BY <1>1, <1>5
<1>9. ASSUME l.state = "active", ~Short(l, q, c, k), queue' # <<>>
      PROVE  credits' = 0
  <2>1. k = Ready(q, c)
    BY <1>1, <1>2, <1>3, <1>9 DEF Short
  <2>2. Len(queue') # 0
    BY <1>5, <1>9
  <2>3. k # Len(q)
    BY <1>1, <1>5, <2>2
  <2>4. k = c
    BY <2>1, <2>3 DEF Ready
  <2>5. QED
    BY <1>1, <2>4
<1>10. QED
    BY <1>1, <1>3, <1>4, <1>5, <1>7, <1>8, <1>9

\* remote_msg_dequeue in a session, for queue q and c credits, after acked answers.
LEMMA DequeueSafe ==
    ASSUME RelayInv, Connected, NEW q \in Seq(Message), Len(q) <= QueueNum,
           NEW c \in 0 .. Credits, NEW acked \in {0, 1}, acked <= unacked,
           c + unacked - acked = Credits, Dequeue(q, c, acked), UNCHANGED session
    PROVE  Books' /\ Connected'
<1> USE RelayAssumption DEF RelayInv, Books, Others
<1>1. PICK k \in 0 .. Credits, ok \in Taken(pm) :
         /\ Transmit(pm, q, c, k)
         /\ unacked' = unacked + k - acked
         /\ retrans' = (retrans \/ Short(pm, q, c, k))
         /\ pm' = Woken(pm, k, ok)
    BY DEF Dequeue
<1>2. ok \in BOOLEAN
    BY DEF Taken
<1>3. /\ k <= Len(q) /\ k <= c
      /\ queue' \in Seq(Message) /\ Len(queue') = Len(q) - k
      /\ air' \in Seq(Message)
      /\ credits' = c - k
      /\ pm.state = "active" /\ ~Short(pm, q, c, k) /\ queue' # <<>> => credits' = 0
    BY <1>1, TransmitFacts
<1>4. unacked \in Nat /\ c \in Nat /\ k \in Nat /\ Len(q) \in Nat /\ QueueNum \in Nat
    OBVIOUS
<1>5. /\ credits' \in 0 .. Credits /\ unacked' \in 0 .. Credits
      /\ credits' + unacked' = Credits /\ Len(queue') <= QueueNum
    BY <1>1, <1>3, <1>4
<1>6. retrans' \in BOOLEAN
    BY <1>1 DEF Short
<1>7. Sound(pm') /\ (pm.state # "active" => Moves(pm'))
    BY <1>1, <1>2, ExitSound DEF Woken
<1>8. Connected'
    BY DEF Connected
<1>9. RelayWakeup'
  <2> SUFFICES ASSUME queue' # <<>>, pm.state = "active", ~Short(pm, q, c, k)
               PROVE  unacked' > 0
    BY <1>1, <1>7 DEF RelayWakeup, Busy, Moves
  <2>1. credits' = 0
    BY <1>3
  <2>2. QED
    BY <1>5, <2>1, AllLent
<1>10. QED
    BY <1>3, <1>5, <1>6, <1>7, <1>8, <1>9 DEF CreditsConserved

\* The timer, whose queue may have gone with its session.
LEMMA RetransSafe ==
    ASSUME RelayInv, Retrans
    PROVE  Books'
<1> USE RelayAssumption DEF RelayInv, Books, Others
<1>1. PICK k \in 0 .. Credits, ok \in Taken(pm) :
         /\ Transmit(pm, queue, credits, k)
         /\ unacked' = unacked + k
         /\ pm' = Woken(pm, k, ok)
    BY DEF Retrans
<1>2. ok \in BOOLEAN /\ retrans' = (queue' # <<>>) /\ session' = session
    BY DEF Taken, Retrans
<1>3. /\ k <= Len(queue) /\ k <= credits
      /\ queue' \in Seq(Message) /\ Len(queue') = Len(queue) - k
      /\ air' \in Seq(Message)
      /\ credits' = credits - k
      /\ session # "up" => k = 0
      /\ k = 0 => queue' = queue
    BY <1>1, TransmitFacts
<1>4. unacked \in Nat /\ credits \in Nat /\ k \in Nat /\ Len(queue) \in Nat
    OBVIOUS
<1>5. /\ credits' \in 0 .. Credits /\ Len(queue') <= QueueNum
      /\ CreditsConserved' /\ unacked' \in 0 .. Credits
  <2>1. CASE Connected
    BY <1>1, <1>2, <1>3, <1>4, <2>1 DEF CreditsConserved, Connected
  <2>2. CASE ~Connected
    BY <1>1, <1>2, <1>3, <1>4, <2>2 DEF CreditsConserved, Connected
  <2>3. QED
    BY <2>1, <2>2
<1>6. ~Connected' => unacked' = 0 /\ queue' = <<>>
    BY <1>1, <1>2, <1>3 DEF Connected
<1>7. Sound(pm')
    BY <1>1, <1>2, ExitSound DEF Woken
<1>8. RelayWakeup' /\ retrans' \in BOOLEAN
    BY <1>2 DEF RelayWakeup, Busy
<1>9. QED
    BY <1>3, <1>5, <1>6, <1>7, <1>8

\* The link has become active.
LEMMA ResumeSafe ==
    ASSUME RelayInv, Resume(Woke(pm)), UNCHANGED session
    PROVE  Books'
<1> USE RelayAssumption DEF RelayInv, Books, Others
<1> DEFINE l == Woke(pm)
<1>1. PICK k \in 0 .. Credits, ok \in Taken(pm) :
         /\ Connected \/ k = 0
         /\ Transmit(l, queue, credits, k)
         /\ unacked' = unacked + k
         /\ retrans' = (retrans \/ (Connected /\ Short(l, queue, credits, k)))
         /\ pm' = WokeEnd(Woken(l, k, ok), ok)
    BY DEF Resume
<1>2. ok \in BOOLEAN /\ l.state = "active"
    BY DEF Taken, Woke, Sound, Link
<1>3. /\ k <= Len(queue) /\ k <= credits
      /\ queue' \in Seq(Message) /\ Len(queue') = Len(queue) - k
      /\ air' \in Seq(Message)
      /\ credits' = credits - k
      /\ k = 0 => queue' = queue
      /\ l.state = "active" /\ ~Short(l, queue, credits, k) /\ queue' # <<>> => credits' = 0
    BY <1>1, TransmitFacts
<1>4. unacked \in Nat /\ credits \in Nat /\ k \in Nat /\ Len(queue) \in Nat
    OBVIOUS
<1>5. /\ credits' \in 0 .. Credits /\ Len(queue') <= QueueNum
      /\ CreditsConserved' /\ unacked' \in 0 .. Credits
  <2>1. CASE Connected
    BY <1>1, <1>3, <1>4, <2>1 DEF CreditsConserved, Connected
  <2>2. CASE ~Connected
    BY <1>1, <1>3, <1>4, <2>2 DEF CreditsConserved, Connected
  <2>3. QED
    BY <2>1, <2>2
<1>6. ~Connected' => unacked' = 0 /\ queue' = <<>>
    BY <1>1, <1>3 DEF Connected
<1>7. Sound(pm')
    BY <1>1, <1>2, WokeSound DEF Woken
<1>8. retrans' \in BOOLEAN
    BY <1>1 DEF Short
<1>9. RelayWakeup'
  <2> SUFFICES ASSUME Connected, queue' # <<>>, ~Short(l, queue, credits, k)
               PROVE  unacked' > 0
    BY <1>1 DEF RelayWakeup, Busy, Connected
  <2>1. credits' = 0
    BY <1>2, <1>3
  <2>2. credits' + unacked' = Credits
    BY <1>5 DEF CreditsConserved, Connected
  <2>3. QED
    BY <1>5, <2>1, <2>2, AllLent
<1>10. QED
    BY <1>3, <1>5, <1>6, <1>7, <1>8, <1>9

-----------------------------------------------------------------------------
(* Every step keeps the invariant *)

\* What does not touch queue, credits and link record.
LEMMA BooksUntouched ==
    ASSUME Books, UNCHANGED <<queue, credits, unacked, retrans, pm, session>>,
           air' \in Seq(Message)
    PROVE  Books'
    BY DEF Books, CreditsConserved, Connected, RelayWakeup, Busy

\* What works on the link record only.
LEMMA LinkOnly ==
    ASSUME Books, UNCHANGED <<queue, credits, unacked, retrans, air, session>>,
           Sound(pm'), Busy /\ Moves(pm) => Moves(pm')
    PROVE  Books'
    BY DEF Books, CreditsConserved, Connected, RelayWakeup, Busy, Moves

\* The sender's messages.
LEMMA SenderStep ==
    ASSUME RelayInv, Send \/ SendRefused \/ DataRsp \/ Retrans
    PROVE  RelayInv'
<1> USE RelayAssumption DEF RelayInv, relay, count, peer, link
<1>1. Number => Connected /\ tried' \in 1 .. MaxCalls /\ tx_seq' \in 0 .. Width - 1
    BY DEF Number, Others
<1>2. CASE Send
  <2> DEFINE m == [id |-> tried', seq |-> tx_seq']
             q == Append(queue, m)
  <2>1. m \in Message
    BY <1>1, <1>2 DEF Send, Message
  <2>2. q \in Seq(Message) /\ Len(q) = Len(queue) + 1 /\ Len(queue) < QueueNum
    BY <1>2, <2>1, PutTail DEF Send, Space, Books
  <2>3. Dequeue(q, credits, 0) /\ Connected /\ UNCHANGED session
    BY <1>1, <1>2 DEF Send
  <2>4. Len(q) <= QueueNum /\ 0 <= unacked /\ credits + unacked - 0 = Credits
    BY <2>2, <2>3 DEF Books, CreditsConserved
  <2> HIDE DEF q
  <2>5. Books'
    BY <2>2, <2>3, <2>4, DequeueSafe DEF Books
  <2>6. Others'
    BY <1>1, <1>2 DEF Send, Others
  <2>7. QED
    BY <2>5, <2>6
<1>3. CASE SendRefused
    BY <1>1, <1>3, BooksUntouched DEF SendRefused, Books, Others
<1>4. CASE DataRsp
  <2>1. /\ Connected /\ unacked > 0 /\ UNCHANGED session
        /\ Dequeue(queue, Credited(credits), 1)
    BY <1>4 DEF DataRsp
  <2>2. Credited(credits) \in 0 .. Credits /\ Credited(credits) + unacked - 1 = Credits
    BY <2>1 DEF Books, CreditsConserved, Credited
  <2>3. Books'
    BY <2>1, <2>2, DequeueSafe DEF Books
  <2>4. Others'
    BY <1>4 DEF DataRsp, Others
  <2>5. QED
    BY <2>3, <2>4
<1>5. CASE Retrans
    BY <1>5, RetransSafe DEF Retrans, Others
<1>6. QED
    BY <1>2, <1>3, <1>4, <1>5

LEMMA PeerStep ==
    ASSUME RelayInv, Receive \/ PeerDisconnected
    PROVE  RelayInv'
<1> USE RelayAssumption DEF RelayInv, relay, count, peer, link
<1>1. CASE Receive
  <2>1. Head(air) \in Message /\ Tail(air) \in Seq(Message)
    BY <1>1, TakeHead DEF Receive, Books
  <2>2. Head(air).id \in Nat /\ Head(air).seq \in 0 .. Width - 1
    BY <2>1 DEF Message
  <2>3. Others'
    BY <1>1, <2>2 DEF Receive, Others
  <2>4. Books'
    BY <1>1, <2>1, BooksUntouched DEF Receive
  <2>5. QED
    BY <2>3, <2>4
<1>2. CASE PeerDisconnected
  <2>1. Books'
    BY <1>2, BooksUntouched DEF PeerDisconnected
  <2>2. 0 \in 0 .. Width - 1 /\ 0 \in Nat
    OBVIOUS
  <2>3. Others'
    BY <1>2, <2>2 DEF PeerDisconnected, Forget, Others
  <2>4. QED
    BY <2>1, <2>3
<1>3. QED
    BY <1>1, <1>2

\* A new link is active and watched by its idle timer.
LEMMA NewLinkSound == Sound(NewLink)
    BY DEF Sound, NewLink, Link, PmStates, PmActions, Pending

LEMMA SessionStep ==
    ASSUME RelayInv, \/ Connect \/ ConnFail \/ ConnCmpl \/ Close \/ Disconnected \/ LinkLost
    PROVE  RelayInv'
<1> USE RelayAssumption DEF RelayInv, relay, count, peer, link
<1>1. CASE Connect
  <2>1. PICK ok \in Taken(pm) : pm' \in {pm, ExitSniff(pm, ok)}
    BY <1>1 DEF Connect
  <2>2. Sound(pm')
    BY <2>1, ExitSound DEF Books, Taken
  <2>3. ~Connected /\ ~Connected'
    BY <1>1 DEF Connect, Connected
  <2>4. Books'
    BY <1>1, <2>2, <2>3 DEF Connect, Books, CreditsConserved, RelayWakeup, Busy
  <2>5. Others'
    BY <1>1 DEF Connect, Others
  <2>6. QED
    BY <2>4, <2>5
<1>2. CASE ConnFail
  <2>1. ~Connected /\ ~Connected'
    BY <1>2 DEF ConnFail, Connected
  <2>2. Books'
    BY <1>2, <2>1 DEF ConnFail, Books, CreditsConserved, RelayWakeup, Busy
  <2>3. QED
    BY <1>2, <2>2 DEF ConnFail, Others
<1>3. CASE ConnCmpl
  <2>1. ~Connected /\ Connected'
    BY <1>3 DEF ConnCmpl, Connected
  <2>2. Books'
    BY <1>3, <2>1 DEF ConnCmpl, Books, CreditsConserved, RelayWakeup, Busy
  <2>3. QED
    BY <1>3, <2>2 DEF ConnCmpl, Others
<1>4. CASE Close
  <2>1. PICK ok \in Taken(pm) : pm' = ExitSniff(pm, ok)
    BY <1>4 DEF Close
  <2>2. Sound(pm') /\ (Moves(pm) => Moves(pm'))
    BY <2>1, ExitSound DEF Books, Taken
  <2>3. Connected /\ Connected'
    BY <1>4 DEF Close, Connected
  <2>4. Books'
    BY <1>4, <2>2, <2>3 DEF Close, Books, CreditsConserved, RelayWakeup, Busy, Moves
  <2>5. QED
    BY <1>4, <2>4 DEF Close, Others
<1>5. ASSUME Clear, Sound(pm') PROVE Books'
    BY <1>5 DEF Clear, Books, CreditsConserved, RelayWakeup, Busy, Connected
<1>6. CASE Disconnected
    BY <1>5, <1>6 DEF Disconnected, Clear, Books, Others
<1>7. CASE LinkLost
    BY <1>5, <1>7, NewLinkSound DEF LinkLost, Clear, Others
<1>8. QED
    BY <1>1, <1>2, <1>3, <1>4, <1>6, <1>7

\* The events of the link.
LEMMA EventStep ==
    ASSUME RelayInv, Host
    PROVE  RelayInv'
<1> USE RelayAssumption DEF RelayInv, relay, count, peer, link
<1>1. ASSUME NEW e, Event(e) PROVE evts' \in Seq(PmEvents)
    BY <1>1, TakeHead DEF Event, Others
<1>2. Sound(pm) /\ \A ok \in Taken(pm) : ok \in BOOLEAN
    BY DEF Books, Taken
<1>3. CASE SniffEntered
  <2>1. PICK ok, again \in Taken(pm) :
           pm' = EnterSuccessEnd(Asked(EnterSuccessBegin(pm), ok), again)
    BY <1>3 DEF SniffEntered
  <2>2. Sound(pm') /\ (Busy => Moves(pm'))
    BY <1>2, <2>1, EnteredSound, Busy \in BOOLEAN DEF Asked, Busy
  <2>3. Books'
    BY <1>3, <2>2, LinkOnly DEF SniffEntered
  <2>4. Others'
    BY <1>1, <1>3 DEF SniffEntered, Others
  <2>5. QED
    BY <2>3, <2>4
<1>4. CASE SniffExitFailed
  <2>1. Sound(pm') /\ (Busy /\ Moves(pm) => Moves(pm'))
    <3>1. CASE pm.state = "activePending"
      <4>1. PICK ok, again \in Taken(pm) :
               pm' = ExitFailEnd(Asked(ExitFailBegin(pm), ok), again)
        BY <1>4, <3>1 DEF SniffExitFailed
      <4>2. QED
        BY <1>2, <4>1, ExitFailSound, Busy \in BOOLEAN DEF Asked, Busy
    <3>2. CASE pm.state # "activePending"
      BY <1>2, <1>4, <3>2 DEF SniffExitFailed
    <3>3. QED
      BY <3>1, <3>2
  <2>2. Books'
    BY <1>4, <2>1, LinkOnly DEF SniffExitFailed
  <2>3. Others'
    BY <1>1, <1>4 DEF SniffExitFailed, Others
  <2>4. QED
    BY <2>2, <2>3
<1>5. CASE SniffExited
  <2>1. Books'
    BY <1>5, ResumeSafe DEF SniffExited, ExitSuccessBegin
  <2>2. Others'
    BY <1>1, <1>5 DEF SniffExited, Others
  <2>3. QED
    BY <2>1, <2>2
<1>6. CASE SniffEnterFailed
  <2>1. ASSUME pm.state = "sniffPending" PROVE Books'
    BY <1>6, <2>1, ResumeSafe DEF SniffEnterFailed, EnterFailBegin
  <2>2. ASSUME pm.state # "sniffPending" PROVE Books'
    BY <1>6, <2>2, BooksUntouched DEF SniffEnterFailed, Books
  <2>3. Others'
    BY <1>1, <1>6 DEF SniffEnterFailed, Others
  <2>4. QED
    BY <2>1, <2>2, <2>3
<1>7. QED
    BY <1>3, <1>4, <1>5, <1>6 DEF Host

\* Requests to change the mode.
LEMMA RequestStep ==
    ASSUME RelayInv,
           \/ IdleTimeout \/ HidConnected \/ ProfileExit \/ SniffDisable \/ SniffEnable
    PROVE  RelayInv'
<1> USE RelayAssumption DEF RelayInv
<1>1. Sound(pm) /\ \A ok \in Taken(pm) : ok \in BOOLEAN
    BY DEF Books, Taken
<1>2. ASSUME NEW l \in {pm, [pm EXCEPT !.timer = FALSE]}, Enter(l)
      PROVE  Sound(pm') /\ (Busy /\ Moves(pm) => Moves(pm'))
  <2>1. PICK veto \in BOOLEAN, ok \in Taken(pm) : pm' = EnterReq(l, veto \/ Busy \/ ~pm.enable, ok)
    BY <1>2 DEF Enter
  <2>2. (veto \/ Busy \/ ~pm.enable) \in BOOLEAN /\ (Busy => (veto \/ Busy \/ ~pm.enable))
    OBVIOUS
  <2>3. QED
    BY <1>1, <2>1, <2>2, EnterReqSound
<1>3. Sound(pm') /\ (Busy /\ Moves(pm) => Moves(pm'))
  <2>1. CASE IdleTimeout
    BY <1>2, <2>1 DEF IdleTimeout
  <2>2. CASE HidConnected
    BY <1>2, <2>2 DEF HidConnected
  <2>3. CASE ProfileExit
    BY <1>1, <2>3, ExitSound DEF ProfileExit
  <2>4. CASE SniffDisable
    BY <1>1, <2>4, ConfigSound DEF SniffDisable
  <2>5. CASE SniffEnable
    BY <1>1, <2>5, ConfigSound DEF SniffEnable
  <2>6. QED
    BY <2>1, <2>2, <2>3, <2>4, <2>5
<1>4. pmOnly
    BY DEF IdleTimeout, HidConnected, ProfileExit, SniffDisable, SniffEnable
<1>5. Books'
    BY <1>3, <1>4, LinkOnly DEF pmOnly, relay
<1>6. Others'
    BY <1>4 DEF pmOnly, Others, relay, count, peer
<1>7. QED
    BY <1>5, <1>6

\* The controller takes a command off the record and reports.
LEMMA ControllerStep ==
    ASSUME RelayInv,
           \/ EnterDone \/ ExitDone \/ EnterRefused \/ ExitRefused \/ PeerSniffs \/ PeerWakes
    PROVE  RelayInv'
<1> USE RelayAssumption DEF RelayInv
<1>1. ASSUME NEW c, Command(c)
      PROVE  Sound(pm') /\ (Moves(pm) => Moves(pm'))
  <2>1. pm \in Link /\ pm.cmds \in Seq(Commands) /\ pm.cmds # <<>>
    BY <1>1 DEF Command, Books, Sound, Link
  <2>2. Tail(pm.cmds) \in Seq(Commands)
    BY <2>1, TakeHead
  <2>3. /\ pm' \in Link /\ pm'.state = pm.state /\ pm'.action = pm.action
        /\ pm'.timer = pm.timer /\ pm'.enable = pm.enable /\ pm'.gaveUp = pm.gaveUp
    BY <1>1, <2>1, <2>2 DEF Command, Link
  <2>4. QED
    BY <2>3 DEF Books, Sound, Moves
<1>2. Sound(pm') /\ (Moves(pm) => Moves(pm'))
    BY <1>1 DEF EnterDone, ExitDone, EnterRefused, ExitRefused, PeerSniffs, PeerWakes, Books
<1>3. PICK m \in {"active", "sniff"}, e \in PmEvents : Report(m, e)
  <2>1. mode \in {"active", "sniff"}
    BY DEF Others
  <2>2. QED
    BY <2>1 DEF EnterDone, ExitDone, EnterRefused, ExitRefused, PeerSniffs, PeerWakes, PmEvents
<1>4. Books'
    BY <1>2, <1>3, LinkOnly DEF Report, relay
<1>5. evts' \in Seq(PmEvents)
    BY <1>3, PutTail DEF Report, Others
<1>6. Others'
    BY <1>3, <1>5 DEF Report, Others, relay, count, peer
<1>7. QED
    BY <1>4, <1>6

-----------------------------------------------------------------------------
(* What a pending link waits for.  The peer may change the mode meanwhile, *)
(* so neither the mode nor the events tell which command is under way; but *)
(* a link only becomes pending by sending the command, every command turns *)
(* into its answer, and an answer that is handled ends the wait.           *)

\* The link r has come from l: it lost no command, and if it has become pending
\* then by the command that says so.
Asks(l, r) ==
    /\ \A c : Contains(l.cmds, c) => Contains(r.cmds, c)
    /\ r.state = "sniffPending" => l.state = "sniffPending" \/ Contains(r.cmds, "enter")
    /\ r.state = "activePending" => l.state = "activePending" \/ Contains(r.cmds, "exit")

LEMMA AsksOn == ASSUME NEW l, NEW m, NEW r, Asks(l, m), Asks(m, r) PROVE Asks(l, r)
    BY DEF Asks

LEMMA AsksExit ==
    ASSUME NEW l \in Link, NEW ok \in BOOLEAN
    PROVE  ExitSniff(l, ok) \in Link /\ Asks(l, ExitSniff(l, ok))
<1>1. l.cmds \in Seq(Commands) /\ "exit" \in Commands
    BY DEF Link, Commands
<1>2. /\ Contains(Append(l.cmds, "exit"), "exit")
      /\ \A c : Contains(l.cmds, c) => Contains(Append(l.cmds, "exit"), c)
    BY <1>1, PutTail
<1>3. CASE l.state = "sniff" /\ ok
  <2>1. /\ ExitSniff(l, ok).state = "activePending"
        /\ ExitSniff(l, ok).cmds = Append(l.cmds, "exit")
    BY <1>3 DEF ExitSniff, Link
  <2>2. QED
    BY <1>2, <2>1, ExitFacts DEF Asks
<1>4. CASE ~(l.state = "sniff" /\ ok)
  <2>1. ExitSniff(l, ok).state = l.state /\ ExitSniff(l, ok).cmds = l.cmds
    BY <1>4 DEF ExitSniff, Link
  <2>2. QED
    BY <2>1, ExitFacts DEF Asks
<1>5. QED
    BY <1>3, <1>4

LEMMA AsksEnter ==
    ASSUME NEW l \in Link, NEW ok \in BOOLEAN
    PROVE  EnterSniff(l, ok) \in Link /\ Asks(l, EnterSniff(l, ok))
<1>1. l.cmds \in Seq(Commands) /\ "enter" \in Commands
    BY DEF Link, Commands
<1>2. /\ Contains(Append(l.cmds, "enter"), "enter")
      /\ \A c : Contains(l.cmds, c) => Contains(Append(l.cmds, "enter"), c)
    BY <1>1, PutTail
<1>3. CASE l.state = "active" /\ ok
  <2>1. /\ EnterSniff(l, ok).state = "sniffPending"
        /\ EnterSniff(l, ok).cmds = Append(l.cmds, "enter")
    BY <1>3 DEF EnterSniff, Link
  <2>2. QED
    BY <1>2, <2>1, EnterFacts DEF Asks
<1>4. CASE ~(l.state = "active" /\ ok)
  <2>1. EnterSniff(l, ok).state = l.state /\ EnterSniff(l, ok).cmds = l.cmds
    BY <1>4 DEF EnterSniff, Link
  <2>2. QED
    BY <2>1, EnterFacts DEF Asks
<1>5. QED
    BY <1>3, <1>4

\* What a handler does after an answer that ended a wait: b is not pending, the
\* callbacks may ask for an exit (asked), and f forgets the action and goes on.
LEMMA AsksAfter ==
    ASSUME NEW b \in Link, NEW asked \in BOOLEAN, NEW ok \in BOOLEAN, NEW again \in BOOLEAN,
           NEW a, a = IF asked THEN ExitSniff(b, ok) ELSE b,
           NEW r \in {EnterSuccessEnd(a, again), ExitFailEnd(a, again), WokeEnd(a, again)}
    PROVE  Asks(b, r)
<1> DEFINE e == [a EXCEPT !.action = "idle"]
<1>1. a \in Link /\ Asks(b, a)
    BY AsksExit DEF Asks
<1>2. e \in Link /\ e.state = a.state /\ e.cmds = a.cmds
    BY <1>1 DEF Link, PmActions
<1>3. r \in {a, e, ExitSniff(e, again), EnterSniff(e, again)}
    BY DEF EnterSuccessEnd, ExitFailEnd, WokeEnd
<1> HIDE DEF e
<1>4. Asks(a, r)
    BY <1>2, <1>3, AsksExit, AsksEnter DEF Asks
<1>5. QED
    BY <1>1, <1>4, AsksOn

\* A step that handles no event.
LEMMA StillAnswered ==
    ASSUME PendingAnswered, Asks(pm, pm'), UNCHANGED evts
    PROVE  PendingAnswered'
    BY DEF PendingAnswered, Outstanding, Asks

\* A step that handles an answer.
LEMMA NewlyAnswered ==
    ASSUME NEW b, b.state \notin Pending, Asks(b, pm')
    PROVE  PendingAnswered'
    BY DEF PendingAnswered, Outstanding, Asks, Pending

LEMMA RequestAnswered ==
    ASSUME RelayInv, PendingAnswered,
           \/ Send \/ SendRefused \/ DataRsp \/ Retrans \/ Receive \/ PeerDisconnected
           \/ Connect \/ ConnFail \/ ConnCmpl \/ Close \/ Disconnected
           \/ IdleTimeout \/ HidConnected \/ ProfileExit \/ SniffDisable \/ SniffEnable
    PROVE  PendingAnswered'
<1>1. pm \in Link /\ (\A ok \in Taken(pm) : ok \in BOOLEAN) /\ Asks(pm, pm)
    BY DEF RelayInv, Books, Sound, Taken, Asks
<1>2. UNCHANGED evts
    BY DEF Send, SendRefused, DataRsp, Retrans, Receive, PeerDisconnected, Connect, ConnFail,
           ConnCmpl, Close, Disconnected, IdleTimeout, HidConnected, ProfileExit, SniffDisable,
           SniffEnable, pmOnly, link
<1>3. ASSUME NEW k \in 0 .. Credits, NEW ok \in Taken(pm) PROVE Asks(pm, Woken(pm, k, ok))
    BY <1>1, AsksExit DEF Woken
<1>4. CASE Send \/ DataRsp \/ Retrans
  <2>1. PICK k \in 0 .. Credits, ok \in Taken(pm) : pm' = Woken(pm, k, ok)
    BY <1>4 DEF Send, DataRsp, Retrans, Dequeue
  <2>2. QED
    BY <1>2, <1>3, <2>1, StillAnswered
<1>5. CASE SendRefused \/ Receive \/ PeerDisconnected \/ ConnFail \/ ConnCmpl \/ Disconnected
  <2>1. pm' = pm
    BY <1>5 DEF SendRefused, Receive, PeerDisconnected, ConnFail, ConnCmpl, Disconnected, link
  <2>2. QED
    BY <1>1, <1>2, <2>1, StillAnswered
<1>6. CASE Connect \/ Close \/ ProfileExit
  <2>1. \E ok \in Taken(pm) : pm' \in {pm, ExitSniff(pm, ok)}
    BY <1>6 DEF Connect, Close, ProfileExit
  <2>2. QED
    BY <1>1, <1>2, <2>1, AsksExit, StillAnswered
<1>7. ASSUME NEW l \in Link, l.state = pm.state, l.cmds = pm.cmds, Enter(l)
      PROVE  PendingAnswered'
  <2>1. PICK veto \in BOOLEAN, ok \in Taken(pm) : pm' = EnterReq(l, veto \/ Busy \/ ~pm.enable, ok)
    BY <1>7 DEF Enter
  <2> DEFINE v == veto \/ Busy \/ ~pm.enable
             e == IF v THEN l ELSE EnterSniff(l, ok)
  <2>2. e \in Link /\ Asks(l, e)
    BY <1>1, <1>7, AsksEnter DEF Asks
  <2>3. pm' = [e EXCEPT !.timer = Restart(l, v)]
    BY <2>1 DEF EnterReq
  <2> HIDE DEF e
  <2>4. pm'.state = e.state /\ pm'.cmds = e.cmds
    BY <2>2, <2>3 DEF Link
  <2>5. QED
    BY <1>2, <1>7, <2>2, <2>4, StillAnswered DEF Asks
<1>8. CASE IdleTimeout
  <2>1. /\ [pm EXCEPT !.timer = FALSE] \in Link
        /\ [pm EXCEPT !.timer = FALSE].state = pm.state
        /\ [pm EXCEPT !.timer = FALSE].cmds = pm.cmds
    BY <1>1 DEF Link
  <2>2. QED
    BY <1>7, <1>8, <2>1 DEF IdleTimeout
<1>9. CASE HidConnected
    BY <1>1, <1>7, <1>9 DEF HidConnected
<1>10. CASE SniffDisable \/ SniffEnable
  <2>1. PICK ok \in Taken(pm), on \in BOOLEAN :
           pm' \in {pm, [pm EXCEPT !.enable = on], ExitSniff([pm EXCEPT !.enable = on], ok)}
    BY <1>10 DEF SniffDisable, SniffEnable, Disable, Enable
  <2> DEFINE d == [pm EXCEPT !.enable = on]
  <2>2. d \in Link /\ d.state = pm.state /\ d.cmds = pm.cmds
    BY <1>1 DEF Link
  <2>3. pm' \in {pm, d, ExitSniff(d, ok)}
    BY <2>1
  <2> HIDE DEF d
  <2>4. Asks(pm, pm')
    BY <1>1, <2>2, <2>3, AsksExit DEF Asks
  <2>5. QED
    BY <1>2, <2>4, StillAnswered
<1>11. QED
    BY <1>4, <1>5, <1>6, <1>8, <1>9, <1>10

\* An answer that nobody waits for is no answer to the wait there is.
LEMMA OtherEvent ==
    ASSUME RelayInv, PendingAnswered, UNCHANGED pm,
           \/ Event("enterFail") /\ pm.state # "sniffPending"
           \/ Event("exitFail") /\ pm.state # "activePending"
    PROVE  PendingAnswered'
<1>1. evts \in Seq(PmEvents) /\ evts # <<>> /\ evts' = Tail(evts)
    BY DEF RelayInv, Others, Event
<1>2. \A i \in DOMAIN evts : i = 1 \/ (i - 1 \in DOMAIN evts' /\ evts'[i - 1] = evts[i])
    BY <1>1
<1>3. evts[1] = Head(evts)
    BY <1>1
<1>4. ASSUME NEW answers, Head(evts) \notin answers, \E i \in DOMAIN evts : evts[i] \in answers
      PROVE  \E i \in DOMAIN evts' : evts'[i] \in answers
    BY <1>2, <1>3, <1>4
<1>5. QED
    BY <1>4 DEF PendingAnswered, Outstanding, Event

LEMMA EventAnswered ==
    ASSUME RelayInv, PendingAnswered, Host
    PROVE  PendingAnswered'
<1>1. Sound(pm) /\ pm \in Link /\ (\A ok \in Taken(pm) : ok \in BOOLEAN) /\ Busy \in BOOLEAN
    BY DEF RelayInv, Books, Sound, Taken, Busy
<1>2. ASSUME Resume(Woke(pm)) PROVE PendingAnswered'
  <2>1. PICK k \in 0 .. Credits, ok \in Taken(pm) : pm' = WokeEnd(Woken(Woke(pm), k, ok), ok)
    BY <1>2 DEF Resume
  <2>2. Woke(pm) \in Link /\ Woke(pm).state = "active"
    BY <1>1 DEF Woke, Link, PmStates, Pending
  <2>3. (k > 0) \in BOOLEAN /\ Woken(Woke(pm), k, ok) = IF k > 0 THEN ExitSniff(Woke(pm), ok) ELSE Woke(pm)
    BY <2>2 DEF Woken
  <2>4. Asks(Woke(pm), pm')
    BY <1>1, <2>1, <2>2, <2>3, AsksAfter
  <2>5. QED
    BY <2>2, <2>4, NewlyAnswered DEF Pending
<1>3. CASE SniffEntered
  <2>1. PICK ok, again \in Taken(pm) :
           pm' = EnterSuccessEnd(Asked(EnterSuccessBegin(pm), ok), again)
    BY <1>3 DEF SniffEntered
  <2>2. EnterSuccessBegin(pm) \in Link /\ EnterSuccessBegin(pm).state = "sniff"
    BY <1>1 DEF EnterSuccessBegin, Link, PmStates, Pending
  <2>3. Asks(EnterSuccessBegin(pm), pm')
    BY <1>1, <2>1, <2>2, AsksAfter DEF Asked
  <2>4. QED
    BY <2>2, <2>3, NewlyAnswered DEF Pending
<1>4. CASE SniffExitFailed /\ pm.state = "activePending"
  <2>1. PICK ok, again \in Taken(pm) :
           pm' = ExitFailEnd(Asked(ExitFailBegin(pm), ok), again)
    BY <1>4 DEF SniffExitFailed
  <2>2. ExitFailBegin(pm) \in Link /\ ExitFailBegin(pm).state = "sniff"
    BY <1>1 DEF ExitFailBegin, Link, PmStates, Pending
  <2>3. Asks(ExitFailBegin(pm), pm')
    BY <1>1, <2>1, <2>2, AsksAfter DEF Asked
  <2>4. QED
    BY <2>2, <2>3, NewlyAnswered DEF Pending
<1>5. CASE SniffExitFailed /\ pm.state # "activePending"
    BY <1>5, OtherEvent DEF SniffExitFailed
<1>6. CASE SniffExited
    BY <1>2, <1>6 DEF SniffExited, ExitSuccessBegin
<1>7. CASE SniffEnterFailed /\ pm.state = "sniffPending"
    BY <1>2, <1>7 DEF SniffEnterFailed, EnterFailBegin
<1>8. CASE SniffEnterFailed /\ pm.state # "sniffPending"
    BY <1>8, OtherEvent DEF SniffEnterFailed
<1>9. QED
    BY <1>3, <1>4, <1>5, <1>6, <1>7, <1>8 DEF Host

\* A command turns into its answer; a report of the peer comes on top.
LEMMA ControllerAnswered ==
    ASSUME RelayInv, PendingAnswered,
           \/ EnterDone \/ ExitDone \/ EnterRefused \/ ExitRefused \/ PeerSniffs \/ PeerWakes
    PROVE  PendingAnswered'
<1>1. /\ pm \in Link /\ pm.cmds \in Seq(Commands) /\ evts \in Seq(PmEvents)
      /\ mode \in {"active", "sniff"}
    BY DEF RelayInv, Books, Others, Sound, Link
<1>2. ASSUME NEW m, NEW e \in PmEvents, Report(m, e)
      PROVE  /\ \A i \in DOMAIN evts : i \in DOMAIN evts' /\ evts'[i] = evts[i]
             /\ \E i \in DOMAIN evts' : evts'[i] = e
  <2>1. evts' = Append(evts, e) /\ Len(evts) \in Nat
    BY <1>1, <1>2 DEF Report
  <2>2. Len(evts') = Len(evts) + 1 /\ evts'[Len(evts) + 1] = e /\ Len(evts) + 1 \in DOMAIN evts'
    BY <1>1, <2>1
  <2>3. \A i \in DOMAIN evts : i \in DOMAIN evts' /\ evts'[i] = evts[i]
    BY <1>1, <2>1
  <2>4. QED
    BY <2>2, <2>3
<1>3. ASSUME NEW c, Command(c)
      PROVE  /\ pm'.state = pm.state
             /\ \A d : Contains(pm.cmds, d) => d = c \/ Contains(pm'.cmds, d)
  <2>1. pm.cmds # <<>> /\ Head(pm.cmds) = c /\ pm' = [pm EXCEPT !.cmds = Tail(@)]
    BY <1>3 DEF Command
  <2>2. pm'.state = pm.state /\ pm'.cmds = Tail(pm.cmds)
    BY <1>1, <2>1 DEF Link
  <2>3. QED
    BY <1>1, <2>1, <2>2, TakeHead
<1>4. CASE EnterDone \/ EnterRefused
  <2>1. PICK m \in {"active", "sniff"}, e \in {"sniff", "enterFail"} :
           Command("enter") /\ Report(m, e)
    BY <1>1, <1>4 DEF EnterDone, EnterRefused
  <2>2. e \in PmEvents
    BY DEF PmEvents
  <2>3. QED
    BY <1>2, <1>3, <2>1, <2>2 DEF PendingAnswered, Outstanding
<1>5. CASE ExitDone \/ ExitRefused
  <2>1. PICK m \in {"active", "sniff"}, e \in {"active", "exitFail"} :
           Command("exit") /\ Report(m, e)
    BY <1>1, <1>5 DEF ExitDone, ExitRefused
  <2>2. e \in PmEvents
    BY DEF PmEvents
  <2>3. QED
    BY <1>2, <1>3, <2>1, <2>2 DEF PendingAnswered, Outstanding
<1>6. CASE PeerSniffs \/ PeerWakes
  <2>1. PICK m \in {"active", "sniff"}, e \in PmEvents : Report(m, e) /\ pm' = pm
    BY <1>6 DEF PeerSniffs, PeerWakes, PmEvents
  <2>2. QED
    BY <1>2, <2>1 DEF PendingAnswered, Outstanding
<1>7. QED
    BY <1>4, <1>5, <1>6

LEMMA StepAnswered == RelayInv /\ PendingAnswered /\ [Next]_vars => PendingAnswered'
<1> SUFFICES ASSUME RelayInv, PendingAnswered, [Next]_vars PROVE PendingAnswered'
    OBVIOUS
<1>1. CASE UNCHANGED vars
    BY <1>1 DEF vars, link, PendingAnswered, Outstanding
<1>2. CASE LinkLost
    BY <1>2 DEF LinkLost, NewLink, PendingAnswered
<1>3. CASE Next /\ ~LinkLost
    BY <1>3, RequestAnswered, EventAnswered, ControllerAnswered DEF Next
<1>4. QED
    BY <1>1, <1>2, <1>3

-----------------------------------------------------------------------------
(* The theorems *)

LEMMA InitRelay == Init => RelayInv
<1> SUFFICES ASSUME Init PROVE RelayInv
    OBVIOUS
<1>1. <<>> \in Seq(Message) /\ <<>> \in Seq(PmEvents) /\ Len(<<>>) = 0
    OBVIOUS
<1>2. /\ 0 \in 0 .. Width - 1 /\ 0 \in 0 .. MaxCalls /\ 0 \in 0 .. MaxSessions
      /\ 0 \in 0 .. Credits /\ 0 <= QueueNum /\ 0 \in Nat
    BY RelayAssumption
<1>3. ~Connected /\ Sound(pm)
    BY NewLinkSound DEF Init, Connected
<1>4. Books
    BY <1>1, <1>2, <1>3 DEF Init, Books, CreditsConserved, RelayWakeup, Busy
<1>5. Others
    BY <1>1, <1>2 DEF Init, Others
<1>6. QED
    BY <1>4, <1>5 DEF RelayInv

LEMMA StepRelay == RelayInv /\ [Next]_vars => RelayInv'
<1> SUFFICES ASSUME RelayInv, [Next]_vars PROVE RelayInv'
    OBVIOUS
<1>1. CASE UNCHANGED vars
  <2>1. UNCHANGED <<queue, credits, unacked, retrans, pm, session>> /\ UNCHANGED air
    BY <1>1 DEF vars, relay, link
  <2>2. Books'
    BY <2>1, BooksUntouched DEF RelayInv, Books
  <2>3. Others'
    BY <1>1 DEF vars, relay, count, peer, link, RelayInv, Others
  <2>4. QED
    BY <2>2, <2>3 DEF RelayInv
<1>2. CASE Next
    BY <1>2, SenderStep, PeerStep, SessionStep, EventStep, RequestStep, ControllerStep DEF Next
<1>3. QED
    BY <1>1, <1>2

LEMMA RelaySafe == Spec => []RelayInv
<1>1. QED
    BY InitRelay, StepRelay, PTL DEF Spec

LEMMA RelayImplies ==
    RelayInv => /\ TypeOK /\ CreditsConserved /\ RelayWakeup
                /\ IdleTimerArmed /\ ActionFitsState /\ DisabledWakes
<1> SUFFICES ASSUME RelayInv
             PROVE  /\ TypeOK /\ CreditsConserved /\ RelayWakeup
                    /\ IdleTimerArmed /\ ActionFitsState /\ DisabledWakes
    OBVIOUS
<1>1. TypeOK
    BY DEF RelayInv, Books, Others, Sound, TypeOK
<1>2. IdleTimerArmed
    BY DEF RelayInv, Books, Sound, IdleTimerArmed
<1>3. ActionFitsState /\ DisabledWakes
    BY DEF RelayInv, Books, Sound, ActionFitsState, DisabledWakes
<1>4. QED
    BY <1>1, <1>2, <1>3 DEF RelayInv, Books

\* Every variable of the relay keeps its type; the queue keeps its limit
\* (remote_msg_enqueue) and a sequence number its width.
THEOREM RelayTypes == Spec => []TypeOK
<1>1. QED
    BY RelaySafe, RelayImplies, PTL

\* No credit is lost or made up by any order of answers, timer, mode changes
\* and sessions (remote_msg_send, remote_relay_data_rsp).
THEOREM CreditsKept == Spec => []CreditsConserved
<1>1. QED
    BY RelaySafe, RelayImplies, PTL

\* A waiting message never depends on nothing: remote_msg_dequeue will be called
\* again, unless an exit from sniff mode failed.
THEOREM QueueWatched == Spec => []RelayWakeup
<1>1. QED
    BY RelaySafe, RelayImplies, PTL

\* The idle timer of a link out of sniff mode runs (bt_pm_sm).
THEOREM TimerRuns == Spec => []IdleTimerArmed
<1>1. QED
    BY RelaySafe, RelayImplies, PTL

\* A remembered request is the opposite of the change under way (bt_pm_sm).
THEOREM ActionFits == Spec => []ActionFitsState
<1>1. QED
    BY RelaySafe, RelayImplies, PTL

\* A disabled link does not rest in sniff mode unless leaving it failed
\* (bt_sniff_mode_disable, and SNIFF_ENTER_SUCCESS after it).
THEOREM DisabledIsAwake == Spec => []DisabledWakes
<1>1. QED
    BY RelaySafe, RelayImplies, PTL

\* A link waits only for a command or an event that is on its way, also when the
\* peer changes the mode at the same time (bt_pm_sm).
THEOREM PendingIsAnswered == Spec => []PendingAnswered
<1>1. Init => PendingAnswered
    BY DEF Init, NewLink, PendingAnswered
<1>2. QED
    BY <1>1, RelaySafe, StepAnswered, PTL DEF Spec
=============================================================================

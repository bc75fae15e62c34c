--------------------------- MODULE LePrivacyProofs ---------------------------
(***************************************************************************)
(* Proofs about LePrivacy for any number of bonds, entries of the          *)
(* resolving list, attempts and clients: the list changes only while       *)
(* resolution is off, a change never just lies there, everything that was  *)
(* suspended is resumed but the scan of ScanEnded, and unless it refused   *)
(* the last command the stack scans exactly when the manager wants it to.  *)
(***************************************************************************)
EXTENDS LePrivacy, FiniteSetTheorems, TLAPS

-----------------------------------------------------------------------------
(* The scan manager *)

\* The stack's state is what the task will have heard of it in the end.
Heard(s) == s.stack = IF s.msgs = <<>> THEN s.gap ELSE s.msgs[Len(s.msgs)]

\* ScanSettles for a record, also while a start or a stop is under way: with
\* nothing more to hear, an enabled scan is not idle, another is not scanning.
Wanted(s) ==
    s.msgs = <<>> /\ ~s.refused => IF s.state = "enable" THEN s.stack # "idle"
                                                         ELSE s.stack # "scanning"

ScanSound(s) == s \in Scan /\ Heard(s) /\ Wanted(s)

LEMMA ToFacts ==
    ASSUME NEW s \in Scan, NEW g \in GapStates
    PROVE  /\ To(s, g) \in Scan /\ Heard(To(s, g))
           /\ To(s, g).msgs # <<>> /\ To(s, g).stack = g
           /\ To(s, g).state = s.state /\ To(s, g).enabled = s.enabled
           /\ To(s, g).gap = s.gap /\ To(s, g).refused = s.refused
<1>1. s.msgs \in Seq(GapStates) /\ Append(s.msgs, g) \in Seq(GapStates)
    BY DEF Scan
<1>2. Append(s.msgs, g) # <<>> /\ Append(s.msgs, g)[Len(Append(s.msgs, g))] = g
    BY <1>1
<1>3. /\ To(s, g).msgs = Append(s.msgs, g) /\ To(s, g).stack = g
      /\ To(s, g).state = s.state /\ To(s, g).enabled = s.enabled /\ To(s, g).gap = s.gap
      /\ To(s, g).refused = s.refused
    BY DEF To, Scan
<1>4. To(s, g) \in Scan
    BY <1>1 DEF To, Scan
<1>5. QED
    BY <1>2, <1>3, <1>4 DEF Heard

\* A command, taken or refused, leaves the manager's own fields alone; what it
\* starts or stops is yet to be heard of.
LEMMA CommandFacts ==
    ASSUME NEW s \in Scan, Heard(s), NEW from \in GapStates, NEW to \in {"start", "stop"},
           NEW ok \in BOOLEAN, NEW r, r = LeCommand(s, from, to, ok)
    PROVE  /\ r \in Scan /\ Heard(r) /\ r.state = s.state /\ r.gap = s.gap
           /\ r.msgs = <<>> => r.stack = s.stack /\ s.msgs = <<>>
           /\ r.msgs = <<>> /\ ~r.refused => s.stack # from
           /\ s.stack # "idle" \/ s.msgs # <<>> => r.stack # "idle" \/ r.msgs # <<>>
<1> DEFINE a == [s EXCEPT !.refused = (s.stack = from /\ ~ok)]
<1>1. /\ a \in Scan /\ Heard(a) /\ a.state = s.state /\ a.gap = s.gap
      /\ a.stack = s.stack /\ a.msgs = s.msgs /\ (a.refused <=> s.stack = from /\ ~ok)
    BY DEF Scan, Heard
<1>2. r = IF s.stack = from /\ ok THEN To(a, to) ELSE a
    BY DEF LeCommand
<1> HIDE DEF a
<1>3. CASE s.stack = from /\ ok
  <2>1. r = To(a, to) /\ to \in GapStates
    BY <1>2, <1>3 DEF GapStates
  <2>2. QED
    BY <1>1, <2>1, ToFacts
<1>4. CASE ~(s.stack = from /\ ok)
    BY <1>1, <1>2, <1>4
<1>5. QED
    BY <1>3, <1>4

LEMMA StartFacts ==
    ASSUME NEW s \in Scan, Heard(s), NEW ok \in BOOLEAN, NEW r, r = LeStart(s, ok)
    PROVE  /\ r \in Scan /\ Heard(r) /\ r.state = s.state /\ r.gap = s.gap
           /\ r.msgs = <<>> => r.stack = s.stack /\ s.msgs = <<>>
           /\ r.msgs = <<>> /\ ~r.refused => r.stack # "idle"
           /\ s.stack # "idle" \/ s.msgs # <<>> => r.stack # "idle" \/ r.msgs # <<>>
<1>1. r = LeCommand(s, "idle", "start", ok) /\ "idle" \in GapStates
    BY DEF LeStart, GapStates
<1>2. QED
    BY <1>1, CommandFacts

LEMMA StopFacts ==
    ASSUME NEW s \in Scan, Heard(s), NEW ok \in BOOLEAN, NEW r, r = LeStop(s, ok)
    PROVE  /\ r \in Scan /\ Heard(r) /\ r.state = s.state /\ r.gap = s.gap
           /\ r.msgs = <<>> => r.stack = s.stack /\ s.msgs = <<>>
           /\ r.msgs = <<>> /\ ~r.refused => r.stack # "scanning"
           /\ s.stack # "idle" \/ s.msgs # <<>> => r.stack # "idle" \/ r.msgs # <<>>
<1>1. r = LeCommand(s, "scanning", "stop", ok) /\ "scanning" \in GapStates
    BY DEF LeStop, GapStates
<1>2. QED
    BY <1>1, CommandFacts

\* The stack will have been told what the manager wants: a wait for the end of
\* the scan stays one for something that is to come.
Awaits(s) == s.state = "suspend" /\ (s.stack # "idle" \/ s.msgs # <<>>)

LEMMA RequestFacts ==
    ASSUME NEW s, ScanSound(s), NEW ok \in BOOLEAN
    PROVE  /\ ScanSound(StartReq(s, ok)) /\ ScanSound(StopReq(s, ok)) /\ ScanSound(ResumeReq(s, ok))
           /\ Awaits(s) => Awaits(StartReq(s, ok)) /\ Awaits(StopReq(s, ok))
<1>1. s \in Scan /\ Heard(s) /\ Wanted(s) /\ s.state \in {"idle", "suspend", "enable"}
    BY DEF ScanSound, Scan
<1>2. ScanSound(StartReq(s, ok)) /\ (Awaits(s) => Awaits(StartReq(s, ok)))
  <2> DEFINE e == [s EXCEPT !.enabled = TRUE]
             i == [e EXCEPT !.state = "enable"]
  <2>1. /\ e \in Scan /\ Heard(e) /\ e.stack = s.stack /\ e.msgs = s.msgs
        /\ e.state = s.state /\ e.refused = s.refused
        /\ i \in Scan /\ Heard(i) /\ i.state = "enable"
    BY <1>1 DEF Scan, Heard
  <2>2. CASE s.state = "idle"
    <3>1. StartReq(s, ok) = LeStart(i, ok)
      BY <2>2 DEF StartReq
    <3>2. QED
      <4> HIDE DEF e, i
      <4>1. ScanSound(LeStart(i, ok))
        BY <2>1, StartFacts DEF ScanSound, Wanted
      <4>2. QED
        BY <2>2, <3>1, <4>1 DEF Awaits
  <2>3. CASE s.state = "suspend"
    <3>1. StartReq(s, ok) = e
      BY <2>3 DEF StartReq
    <3>2. QED
      BY <1>1, <2>1, <2>3, <3>1 DEF ScanSound, Wanted, Awaits
  <2>4. CASE s.state = "enable"
    <3>1. StartReq(s, ok) = s
      BY <2>4 DEF StartReq
    <3>2. QED
      BY <2>4, <3>1 DEF Awaits
  <2>5. QED
    BY <1>1, <2>2, <2>3, <2>4
<1>3. ScanSound(StopReq(s, ok)) /\ (Awaits(s) => Awaits(StopReq(s, ok)))
  <2> DEFINE d == [s EXCEPT !.enabled = FALSE]
             i == [d EXCEPT !.state = "idle"]
  <2>1. /\ d \in Scan /\ Heard(d) /\ d.stack = s.stack /\ d.msgs = s.msgs /\ d.state = s.state
        /\ i \in Scan /\ Heard(i) /\ i.state = "idle"
    BY <1>1 DEF Scan, Heard
  <2>2. StopReq(s, ok) = CASE s.state = "idle" -> s [] s.state = "suspend" -> LeStop(d, ok)
                       [] s.state = "enable" -> LeStop(i, ok)
    BY DEF StopReq
  <2> HIDE DEF d, i
  <2>3. CASE s.state = "idle"
    <3>1. StopReq(s, ok) = s
      BY <2>3, <2>2
    <3>2. QED
      BY <2>3, <3>1 DEF Awaits
  <2>4. CASE s.state = "suspend"
    <3>1. StopReq(s, ok) = LeStop(d, ok)
      BY <2>4, <2>2
    <3>2. QED
      BY <2>1, <2>4, <3>1, StopFacts DEF ScanSound, Wanted, Awaits
  <2>5. CASE s.state = "enable"
    <3>1. StopReq(s, ok) = LeStop(i, ok)
      BY <2>5, <2>2
    <3>2. QED
      BY <2>1, <2>5, <3>1, StopFacts DEF ScanSound, Wanted, Awaits
  <2>6. QED
    BY <1>1, <2>3, <2>4, <2>5
<1>4. ScanSound(ResumeReq(s, ok))
  <2> DEFINE e == [s EXCEPT !.state = "enable"]
             i == [s EXCEPT !.state = "idle"]
  <2>1. e \in Scan /\ Heard(e) /\ e.state = "enable"
    BY <1>1 DEF Scan, Heard
  <2>2. i \in Scan /\ Heard(i) /\ i.state = "idle" /\ i.stack = s.stack
        /\ i.msgs = s.msgs /\ i.refused = s.refused
    BY <1>1 DEF Scan, Heard
  <2>3. ScanSound(LeStart(e, ok))
    BY <2>1, StartFacts DEF ScanSound, Wanted
  <2>4. s.state = "suspend" => ScanSound(i)
    BY <1>1, <2>2 DEF ScanSound, Wanted
  <2>5. QED
    BY <2>3, <2>4 DEF ResumeReq
<1>5. QED
    BY <1>2, <1>3, <1>4

\* What le_scan_suspend_req answers is right: if the task has not heard that the
\* scan is idle, then it is not, or the news is under way.
LEMMA SuspendFacts ==
    ASSUME NEW s, ScanSound(s), NEW ok \in BOOLEAN
    PROVE  /\ ScanSound(SuspendReq(s, ok))
           /\ SuspendReq(s, ok).state = "suspend"
           /\ EndAwaited(SuspendReq(s, ok)) => Awaits(SuspendReq(s, ok))
<1> DEFINE q == [s EXCEPT !.state = "suspend"]
           r == SuspendReq(s, ok)
<1>1. /\ s \in Scan /\ Heard(s) /\ Wanted(s)
      /\ q \in Scan /\ Heard(q) /\ q.state = "suspend"
      /\ q.stack = s.stack /\ q.msgs = s.msgs /\ q.gap = s.gap
      /\ q.refused = s.refused
    BY DEF ScanSound, Scan, Heard
<1>2. r = IF s.state # "suspend" /\ s.gap = "scanning" THEN LeStop(q, ok) ELSE q
    BY DEF SuspendReq
<1> HIDE DEF q, r
<1>3. r \in Scan /\ Heard(r) /\ r.state = "suspend"
    BY <1>1, <1>2, StopFacts
<1>4. Wanted(r)
  <2>1. CASE s.state # "suspend" /\ s.gap = "scanning"
    BY <1>1, <1>2, <1>3, <2>1, StopFacts DEF Wanted
  <2>2. CASE s.state = "suspend"
    BY <1>1, <1>2, <2>2 DEF Wanted
  <2>3. CASE s.gap # "scanning"
    BY <1>1, <1>2, <2>3 DEF Wanted, Heard
  <2>4. QED
    BY <2>1, <2>2, <2>3
<1>5. EndAwaited(r) => Awaits(r)
    BY <1>3 DEF EndAwaited, Awaits, Heard
<1>6. QED
    BY <1>3, <1>4, <1>5 DEF ScanSound, r

\* The next message of the stack.
LEMMA NewsFacts ==
    ASSUME ScanSound(scan), scan.msgs # <<>>
    PROVE  /\ News \in Scan /\ Heard(News)
           /\ News.state = scan.state /\ News.enabled = scan.enabled
           /\ News.gap = Head(scan.msgs)
<1>1. scan \in Scan /\ Heard(scan) /\ scan.msgs \in Seq(GapStates)
    BY DEF ScanSound, Scan
<1>2. /\ Head(scan.msgs) \in GapStates /\ Tail(scan.msgs) \in Seq(GapStates)
      /\ Tail(scan.msgs) # <<>> =>
            Tail(scan.msgs)[Len(Tail(scan.msgs))] = scan.msgs[Len(scan.msgs)]
      /\ Tail(scan.msgs) = <<>> => Head(scan.msgs) = scan.msgs[Len(scan.msgs)]
  <2> DEFINE m == scan.msgs
             w == Tail(m)
  <2>1. m \in Seq(GapStates) /\ m # <<>> /\ Len(m) \in Nat \ {0} /\ Head(m) = m[1]
    BY <1>1
  <2>2. w \in Seq(GapStates) /\ Len(w) = Len(m) - 1 /\ \A k \in 1 .. Len(w) : w[k] = m[k + 1]
    BY <2>1
  <2> HIDE DEF m, w
  <2>3. w # <<>> => w[Len(w)] = m[Len(m)]
    BY <2>1, <2>2
  <2>4. w = <<>> => Head(m) = m[Len(m)]
    <3>1. w = <<>> => Len(w) = 0
      OBVIOUS
    <3>2. Len(w) = 0 => Len(m) = 1
      BY <2>1, <2>2
    <3>3. QED
      BY <2>1, <3>1, <3>2, Zenon
  <2>5. m[1] \in GapStates
    BY <2>1
  <2>6. QED
    BY <2>1, <2>2, <2>3, <2>4, <2>5 DEF m, w
<1>3. /\ News \in Scan /\ News.state = scan.state /\ News.enabled = scan.enabled
      /\ News.gap = Head(scan.msgs) /\ News.msgs = Tail(scan.msgs) /\ News.stack = scan.stack
    BY <1>1, <1>2 DEF News, Scan
<1>4. Heard(News)
    BY <1>1, <1>2, <1>3 DEF Heard
<1>5. QED
    BY <1>3, <1>4

-----------------------------------------------------------------------------
(* The resolving list *)

Settled(p) == p.state \in {"disable", "enable"}

\* Types, and the room in the controller: an entry that was added holds a place.
Listed(p) ==
    /\ p \in Rl /\ p.inCtl \subseteq p.listed /\ p.removal \subseteq p.inCtl
    /\ IsFiniteSet(p.listed) /\ p.avail + Cardinality(p.listed) <= RlSize

\* While a command changes the list, resolution is off, the modification goes on
\* and the command is about an entry that is listed (or has been freed).
Working(p) ==
    /\ p.op # NONE => p.attempt < Attempts /\ p.state = "disable" /\ "modify" \in p.act
    /\ p.op \in Devs => p.op \in p.listed

\* What is waited for keeps the activity open; without a modification nothing
\* turns resolution on or off meanwhile.
Parked(p) ==
    p.waits # {} => "suspend" \in p.act /\ ("modify" \in p.act \/ Settled(p))

\* ModifyGoesOn for a record.
GoesOn(p) ==
    "modify" \in p.act =>
        p.waits # {} \/ p.op # NONE \/ p.state \in {"disabling", "enabling"} \/ p.gaveUp

ListSound(p) == Listed(p) /\ Working(p) /\ Parked(p) /\ GoesOn(p)

\* An outcome r after which w is waited for: nothing is resumed too early, and it
\* is resumed if nothing is left to do.
Outcome(r, w) ==
    /\ ListSound(r.rl) /\ r.rl.waits = w
    /\ r.resume \in BOOLEAN
    /\ r.resume => w = {}
    /\ r.rl.act = {} /\ Settled(r.rl) => r.resume \/ r.rl.gaveUp

\* What may be taken for granted when a change of the list is carried on.
Ready(p) ==
    /\ Listed(p) /\ Working(p) /\ Parked(p)
    /\ "modify" \in p.act /\ (p.waits = {} \/ Settled(p))

LEMMA StateCases ==
    ASSUME NEW p \in Rl
    PROVE  Settled(p) <=> p.state \notin {"disabling", "enabling"}
    BY DEF Rl, Settled

\* A record whose fields but these are p's is as well listed.
LEMMA ListedKept ==
    ASSUME NEW p, Listed(p), NEW q \in Rl,
           q.listed = p.listed, q.inCtl = p.inCtl, q.removal = p.removal, q.avail = p.avail
    PROVE  Listed(q)
    BY DEF Listed

LEMMA ToggleFacts ==
    ASSUME NEW p, Listed(p), p.op = NONE, p.waits = {}, p.act \subseteq {"suspend"},
           NEW ok \in Oks
    PROVE  p.act = {} \/ Settled(p) => Outcome(Toggle(p, ok), {})
<1> SUFFICES ASSUME p.act = {} \/ Settled(p) PROVE Outcome(Toggle(p, ok), {})
    OBVIOUS
<1> DEFINE off == [p EXCEPT !.state = "disabling"]
           on == [p EXCEPT !.state = "enabling"]
           idle == [p EXCEPT !.act = {}]
<1>1. p \in Rl /\ ok.resolve \in BOOLEAN /\ NONE \notin Devs
    BY PrivacyAssumption DEF Listed, Oks
<1>2. CASE p.state \in {"disabling", "enabling"}
  <2>1. Toggle(p, ok) = Stay(p)
    BY <1>2 DEF Toggle
  <2>2. ~Settled(p) /\ "modify" \notin p.act
    BY <1>2 DEF Settled
  <2>3. QED
    BY <1>1, <2>1, <2>2 DEF Stay, Outcome, ListSound, Working, Parked, GoesOn
<1>3. ASSUME NEW q \in {off, on}, Toggle(p, ok) = Stay(q) PROVE Outcome(Toggle(p, ok), {})
  <2>1. /\ q \in Rl /\ ~Settled(q) /\ q.op = NONE /\ q.waits = {} /\ "modify" \notin q.act
        /\ q.listed = p.listed /\ q.inCtl = p.inCtl /\ q.removal = p.removal /\ q.avail = p.avail
    BY <1>1, <1>3 DEF Rl, Settled
  <2>2. Listed(q)
    BY <2>1, ListedKept
  <2>3. QED
    BY <1>1, <1>3, <2>1, <2>2 DEF Stay, Outcome, ListSound, Working, Parked, GoesOn
<1>4. CASE Toggle(p, ok) = Rest(p)
  <2>1. /\ idle \in Rl /\ idle.op = NONE /\ idle.waits = {} /\ idle.act = {}
        /\ idle.listed = p.listed /\ idle.inCtl = p.inCtl /\ idle.removal = p.removal
        /\ idle.avail = p.avail
    BY <1>1 DEF Rl
  <2>2. Toggle(p, ok).rl = idle /\ Toggle(p, ok).resume = TRUE
    BY <1>4 DEF Rest
  <2> HIDE DEF idle
  <2>3. Listed(idle)
    BY <2>1, ListedKept
  <2>4. QED
    BY <1>1, <2>1, <2>2, <2>3 DEF Outcome, ListSound, Working, Parked, GoesOn
<1>5. QED
    BY <1>1, <1>2, <1>3, <1>4 DEF Toggle

LEMMA DoneFacts ==
    ASSUME NEW p, Ready(p), p.op = NONE, NEW ok \in Oks
    PROVE  Outcome(Done(p, ok), p.waits)
<1> DEFINE e == [p EXCEPT !.attempt = 0, !.act = @ \ {"modify"}]
           c == [e EXCEPT !.act = {}]
<1>1. p \in Rl /\ NONE \notin Devs /\ 0 \in 0 .. Attempts
    BY PrivacyAssumption DEF Ready, Listed
<1>2. /\ e \in Rl /\ e.op = NONE /\ e.act = p.act \ {"modify"} /\ e.waits = p.waits
      /\ e.state = p.state
      /\ e.listed = p.listed /\ e.inCtl = p.inCtl /\ e.removal = p.removal /\ e.avail = p.avail
    BY <1>1 DEF Rl
<1>3. /\ c \in Rl /\ c.op = NONE /\ c.act = {} /\ c.waits = p.waits
      /\ c.listed = p.listed /\ c.inCtl = p.inCtl /\ c.removal = p.removal /\ c.avail = p.avail
    BY <1>1 DEF Rl
<1>4. Listed(e) /\ Listed(c)
    BY <1>2, <1>3, ListedKept DEF Ready
<1>5. Done(p, ok) = IF e.waits = {} THEN Toggle(c, ok) ELSE Stay(e)
    BY DEF Done
<1> HIDE DEF e, c
<1>6. CASE p.waits = {}
    BY <1>2, <1>3, <1>4, <1>5, <1>6, ToggleFacts
<1>7. CASE p.waits # {}
  <2>1. "suspend" \in e.act /\ Settled(e) /\ "modify" \notin e.act
    BY <1>2, <1>7 DEF Ready, Parked, Settled
  <2>2. Done(p, ok).rl = e /\ Done(p, ok).resume = FALSE
    BY <1>2, <1>5, <1>7 DEF Stay
  <2>3. ListSound(e)
    BY <1>1, <1>2, <1>4, <2>1 DEF ListSound, Working, Parked, GoesOn
  <2>4. QED
    BY <1>2, <2>1, <2>2, <2>3 DEF Outcome
<1>8. QED
    BY <1>6, <1>7

LEMMA ExecuteFacts ==
    ASSUME NEW q, Ready(q), NEW d \in Firsts(q), NEW ok \in Oks
    PROVE  Outcome(Execute(q, d, ok), q.waits)
<1> DEFINE p == [q EXCEPT !.gaveUp = FALSE]
           add == [p EXCEPT !.op = d]
<1>1. q \in Rl /\ NONE \notin Devs /\ Attempts \in Nat /\ ok.modify \in BOOLEAN
    BY PrivacyAssumption DEF Ready, Listed, Oks
<1>2. /\ p \in Rl /\ p.op = q.op /\ p.act = q.act /\ p.waits = q.waits /\ p.state = q.state
      /\ p.attempt = q.attempt
      /\ p.listed = q.listed /\ p.inCtl = q.inCtl /\ p.removal = q.removal /\ p.avail = q.avail
    BY <1>1 DEF Rl
<1>3. Ready(p) /\ d \in Firsts(p)
  <2>1. Listed(p)
    BY <1>2, ListedKept DEF Ready
  <2>2. QED
    BY <1>2, <2>1 DEF Ready, Working, Parked, Settled, Firsts, Todo
<1>4. Execute(q, d, ok) =
          IF p.attempt >= Attempts THEN Done(p, ok)
          ELSE IF p.op # NONE THEN Stay(p)
          ELSE IF Todo(p) = {} THEN Done(p, ok)
          ELSE IF Blocked(p) THEN Stay(TurnOff(p, ok))
          ELSE IF ok.modify THEN Stay([p EXCEPT !.op = d]) ELSE Done(p, ok)
    BY DEF Execute
<1>5. add = [p EXCEPT !.op = d]
    OBVIOUS
<1> HIDE DEF p, add
<1>6. p.attempt \in Nat
    BY <1>2 DEF Rl
<1>7. p.attempt >= Attempts => p.op = NONE
    BY <1>1, <1>3, <1>6 DEF Ready, Working
<1>8. CASE Execute(q, d, ok) = Done(p, ok) /\ p.op = NONE
    BY <1>2, <1>3, <1>8, DoneFacts
<1>9. CASE Execute(q, d, ok) = Stay(p) /\ p.op # NONE
    BY <1>2, <1>3, <1>9 DEF Stay, Outcome, ListSound, GoesOn, Ready
<1>10. CASE Execute(q, d, ok) = Stay(TurnOff(p, ok)) /\ Blocked(p) /\ p.op = NONE
  <2> DEFINE t == TurnOff(p, ok)
  <2>1. /\ t \in Rl /\ t.op = NONE /\ t.act = p.act /\ t.waits = p.waits
        /\ t.listed = p.listed /\ t.inCtl = p.inCtl /\ t.removal = p.removal /\ t.avail = p.avail
        /\ t.state \in {"disabling", "enabling"} \/ t.gaveUp
    BY <1>2, <1>10 DEF TurnOff, Blocked, Rl
  <2> HIDE DEF t
  <2>2. Listed(t)
    BY <1>3, <2>1, ListedKept DEF Ready
  <2>3. Working(t) /\ Parked(t) /\ GoesOn(t) /\ "modify" \in t.act
    BY <1>1, <1>3, <2>1 DEF Ready, Working, Parked, GoesOn
  <2>4. QED
    BY <1>2, <1>10, <2>1, <2>2, <2>3 DEF t, Stay, Outcome, ListSound
<1>11. CASE /\ Execute(q, d, ok) = Stay(add) /\ Todo(p) # {} /\ ~Blocked(p)
            /\ p.op = NONE /\ p.attempt < Attempts
  <2>1. d \in p.listed /\ d \in Devs
    BY <1>2, <1>3, <1>11 DEF Firsts, Todo, Ready, Listed, Rl
  <2>2. /\ add \in Rl /\ add.op = d /\ add.act = p.act /\ add.waits = p.waits
        /\ add.attempt = p.attempt /\ add.state = p.state
        /\ add.listed = p.listed /\ add.inCtl = p.inCtl /\ add.removal = p.removal
        /\ add.avail = p.avail
    BY <1>2, <1>5, <2>1 DEF Rl
  <2>3. Listed(add)
    BY <1>3, <2>2, ListedKept DEF Ready
  <2>4. Working(add) /\ Parked(add) /\ GoesOn(add) /\ "modify" \in add.act
    BY <1>1, <1>3, <1>11, <2>1, <2>2
       DEF Ready, Working, Parked, GoesOn, Settled, Blocked
  <2>5. QED
    BY <1>2, <1>11, <2>2, <2>3, <2>4 DEF Stay, Outcome, ListSound
<1>12. QED
    BY <1>1, <1>4, <1>5, <1>6, <1>7, <1>8, <1>9, <1>10, <1>11

\* The end of an activity that was waited for: p.waits is what is left.
LEMMA CheckFacts ==
    ASSUME NEW p, Listed(p), Working(p), Parked(p), NEW d \in Firsts(p), NEW ok \in Oks
    PROVE  Outcome(Check(p, d, ok), p.waits)
<1> DEFINE e == [p EXCEPT !.act = @ \ {"suspend"}]
<1>1. p \in Rl /\ NONE \notin Devs
    BY PrivacyAssumption DEF Listed
<1>2. /\ e \in Rl /\ e.op = p.op /\ e.act = p.act \ {"suspend"} /\ e.waits = p.waits
      /\ e.state = p.state /\ e.attempt = p.attempt
      /\ e.listed = p.listed /\ e.inCtl = p.inCtl /\ e.removal = p.removal /\ e.avail = p.avail
    BY <1>1 DEF Rl
<1>3. Listed(e)
    BY <1>2, ListedKept
<1>4. Check(p, d, ok) = IF p.waits # {} THEN Stay(p)
                        ELSE IF "modify" \in e.act THEN Execute(e, d, ok) ELSE Toggle(e, ok)
    BY DEF Check
<1> HIDE DEF e
<1>5. CASE p.waits # {}
  <2>1. Check(p, d, ok).rl = p /\ Check(p, d, ok).resume = FALSE
    BY <1>4, <1>5 DEF Stay
  <2>2. GoesOn(p) /\ p.act # {}
    BY <1>5 DEF GoesOn, Parked
  <2>3. QED
    BY <2>1, <2>2 DEF Outcome, ListSound
<1>6. CASE p.waits = {} /\ "modify" \in e.act
  <2>1. Ready(e) /\ d \in Firsts(e)
    BY <1>2, <1>3, <1>6 DEF Ready, Working, Parked, Firsts, Todo
  <2>2. QED
    BY <1>2, <1>4, <1>6, <2>1, ExecuteFacts
<1>7. CASE p.waits = {} /\ "modify" \notin e.act
  <2>1. e.act = {} /\ e.op = NONE
    BY <1>1, <1>2, <1>7 DEF Working, Rl
  <2>2. QED
    BY <1>2, <1>3, <1>4, <1>7, <2>1, ToggleFacts
<1>8. QED
    BY <1>5, <1>6, <1>7

\* A change of the list is begun: what is not idle is waited for.
LEMMA ModifyFacts ==
    ASSUME NEW p, Listed(p), p.op = NONE, p.waits = {}, "modify" \notin p.act,
           NEW s, NEW d \in Firsts(p), NEW ok \in Oks, NEW ended \in BOOLEAN
    PROVE  \E w : /\ Outcome(Modify(p, s, d, ok, ended), w)
                  /\ "scan" \in w => EndAwaited(s)
<1> DEFINE open == (IF EndAwaited(s) THEN {"scan"} ELSE {}) \cup (IF ended THEN {} ELSE {"other"})
           e == [p EXCEPT !.act = @ \cup {"modify"}, !.waits = open]
           f == [e EXCEPT !.act = @ \cup {"suspend"}]
<1>1. p \in Rl /\ NONE \notin Devs
    BY PrivacyAssumption DEF Listed
<1>2. open \subseteq {"scan", "other"} /\ ("scan" \in open => EndAwaited(s))
    OBVIOUS
<1>3. Modify(p, s, d, ok, ended) = IF open = {} THEN Execute(e, d, ok) ELSE Stay(f)
    BY <1>1 DEF Modify, Rl
<1> HIDE DEF open
<1>4. /\ e \in Rl /\ e.op = NONE /\ "modify" \in e.act /\ e.waits = open
      /\ e.listed = p.listed /\ e.inCtl = p.inCtl /\ e.removal = p.removal /\ e.avail = p.avail
    BY <1>1, <1>2 DEF Rl
<1>5. /\ f \in Rl /\ f.op = NONE /\ "modify" \in f.act /\ "suspend" \in f.act /\ f.waits = open
      /\ f.listed = p.listed /\ f.inCtl = p.inCtl /\ f.removal = p.removal /\ f.avail = p.avail
    BY <1>1, <1>2 DEF Rl
<1> HIDE DEF e, f
<1>6. Listed(e) /\ Listed(f)
    BY <1>4, <1>5, ListedKept
<1>7. CASE open = {}
  <2>1. Ready(e) /\ d \in Firsts(e)
    BY <1>1, <1>4, <1>6, <1>7 DEF Ready, Working, Parked, Firsts, Todo
  <2>2. QED
    BY <1>2, <1>3, <1>4, <1>7, <2>1, ExecuteFacts
<1>8. CASE open # {}
  <2>1. Modify(p, s, d, ok, ended).rl = f /\ Modify(p, s, d, ok, ended).resume = FALSE
    BY <1>3, <1>8 DEF Stay
  <2>2. ListSound(f)
    BY <1>1, <1>5, <1>6, <1>8 DEF ListSound, Working, Parked, GoesOn
  <2>3. Outcome(Modify(p, s, d, ok, ended), open)
    BY <1>5, <2>1, <2>2 DEF Outcome
  <2>4. QED
    BY <1>2, <2>3
<1>9. QED
    BY <1>7, <1>8

-----------------------------------------------------------------------------
(* The invariant.  ListSound says what the modification still waits for,   *)
(* and without "scan" \in waits => Awaits(scan) a handler could not be     *)
(* known to end the wait; the rest ties the two records to each other.     *)

PrivacyInv ==
    /\ clients \in 0 .. MaxClients /\ other \in BOOLEAN
    /\ ScanSound(scan) /\ ListSound(rl)
    /\ "scan" \in rl.waits => Awaits(scan)
    /\ other /\ rl.act = {} /\ Settled(rl) => rl.gaveUp

\* A handler that ends with an outcome keeps the invariant.
LEMMA BecomesSafe ==
    ASSUME NEW r, NEW w, Outcome(r, w), NEW s, ScanSound(s), "scan" \in w => Awaits(s),
           NEW o \in BOOLEAN, NEW ok \in Oks, Becomes(r, s, o, ok), clients' \in 0 .. MaxClients
    PROVE  PrivacyInv'
<1>1. rl' = r.rl /\ ListSound(rl') /\ rl'.waits = w
    BY DEF Becomes, Outcome
<1>2. CASE r.resume = TRUE
  <2>1. scan' = ResumeReq(s, ok.scan) /\ ok.scan \in BOOLEAN /\ other' = FALSE /\ w = {}
    BY <1>2 DEF Becomes, Outcome, Oks
  <2>2. ScanSound(scan')
    BY <2>1, RequestFacts
  <2>3. QED
    BY <1>1, <2>1, <2>2 DEF PrivacyInv, ListSound, ScanSound
<1>3. CASE r.resume = FALSE
  <2>1. scan' = s /\ other' = o
    BY <1>3 DEF Becomes
  <2>2. rl'.act = {} /\ Settled(rl') => rl'.gaveUp
    BY <1>1, <1>3 DEF Outcome
  <2>3. QED
    BY <1>1, <2>1, <2>2 DEF PrivacyInv
<1>4. QED
    BY <1>2, <1>3 DEF Outcome

\* The requests of clients, and what the stack does by itself.
LEMMA RequestSafe ==
    ASSUME PrivacyInv, MaxClients \in Nat, Discover \/ Leave
    PROVE  PrivacyInv'
<1>1. PICK ok \in BOOLEAN : /\ UNCHANGED <<other, rl>>
                           /\ scan' \in {scan, StartReq(scan, ok), StopReq(scan, ok)}
    BY DEF Discover, Leave
<1>2. clients' \in 0 .. MaxClients
    BY DEF PrivacyInv, Discover, Leave
<1>3. ScanSound(scan') /\ (Awaits(scan) => Awaits(scan'))
    BY <1>1, RequestFacts DEF PrivacyInv
<1>4. QED
    BY <1>1, <1>2, <1>3 DEF PrivacyInv, Settled

LEMMA StackSafe ==
    ASSUME PrivacyInv, ScanStarted \/ ScanFailed \/ ScanStopped
    PROVE  PrivacyInv'
<1>1. PICK g \in GapStates : scan' = To(scan, g) /\ UNCHANGED <<clients, other, rl>>
    BY DEF ScanStarted, ScanFailed, ScanStopped, StackMoves, GapStates
<1>2. ScanSound(scan') /\ (Awaits(scan) => Awaits(scan'))
    BY <1>1, ToFacts DEF PrivacyInv, ScanSound, Wanted, Awaits
<1>3. QED
    BY <1>1, <1>2 DEF PrivacyInv, Settled

\* News of the scan sets right what the stack is found doing.
LEMMA NewsSafe ==
    ASSUME PrivacyInv, ScanNews
    PROVE  PrivacyInv'
<1>1. /\ ScanSound(scan) /\ scan.msgs # <<>> /\ ~Ended
      /\ UNCHANGED <<clients, other, rl>>
    BY DEF PrivacyInv, ScanNews
<1>2. PICK ok \in BOOLEAN : scan' = StateChange(News, ok)
    BY DEF ScanNews
<1>3. /\ News \in Scan /\ Heard(News)
      /\ News.state = scan.state /\ News.gap = Head(scan.msgs)
    BY <1>1, NewsFacts
<1>4. News.msgs = <<>> => News.stack = News.gap
    BY <1>3 DEF Heard
<1>5. ScanSound(StateChange(News, ok))
  <2>1. CASE News.gap = "idle" /\ News.state = "enable"
    BY <1>3, <1>4, <2>1, StartFacts DEF StateChange, ScanSound, Wanted
  <2>2. CASE News.gap = "scanning" /\ News.state # "enable"
    BY <1>3, <1>4, <2>2, StopFacts DEF StateChange, ScanSound, Wanted
  <2>3. QED
    BY <1>3, <1>4, <2>1, <2>2 DEF StateChange, ScanSound, Wanted
<1>6. Awaits(scan) => Awaits(StateChange(News, ok))
  <2>1. Awaits(scan) => News.state = "suspend" /\ (News.stack # "idle" \/ News.msgs # <<>>)
    BY <1>1, <1>3, <1>4 DEF Awaits, Ended
  <2>2. Awaits(scan) => StateChange(News, ok) \in {News, LeStop(News, ok)}
    BY <2>1 DEF StateChange
  <2>3. QED
    BY <1>3, <2>1, <2>2, StopFacts DEF Awaits
<1>7. QED
    BY <1>1, <1>5, <1>6, <1>2 DEF PrivacyInv, Settled

\* An activity that ended is not waited for any more.
LEMMA WaitLess ==
    ASSUME ListSound(rl), NEW a,
           NEW p, p = [rl EXCEPT !.waits = @ \ {a}]
    PROVE  Listed(p) /\ Working(p) /\ Parked(p) /\ p.waits = rl.waits \ {a}
<1>1. /\ p \in Rl /\ p.waits = rl.waits \ {a} /\ p.op = rl.op /\ p.act = rl.act
      /\ p.state = rl.state /\ p.attempt = rl.attempt
      /\ p.listed = rl.listed /\ p.inCtl = rl.inCtl /\ p.removal = rl.removal
      /\ p.avail = rl.avail
    BY DEF ListSound, Listed, Rl
<1>2. Listed(p)
    BY <1>1, ListedKept DEF ListSound
<1>3. QED
    BY <1>1, <1>2 DEF ListSound, Working, Parked, Settled

\* The scan ended while it is suspended.  Whether the scan is asked for once more
\* or not, the manager ends in "suspend", with no scan on.
LEMMA ScanEndedSafe ==
    ASSUME PrivacyInv, ScanEnded
    PROVE  PrivacyInv'
<1> DEFINE p == [rl EXCEPT !.waits = @ \ {"scan"}]
           back(r, ok) == IF r.resume THEN ResumeReq(News, ok.scan) ELSE News
<1>1. /\ ScanSound(scan) /\ scan.msgs # <<>> /\ scan.state = "suspend"
      /\ Head(scan.msgs) = "idle"
    BY DEF PrivacyInv, ScanEnded, Ended
<1>2. PICK ok \in Oks, d \in Firsts(p) :
        /\ rl' = Check(p, d, ok).rl
        /\ scan' = [back(Check(p, d, ok), ok) EXCEPT !.state = "suspend"]
        /\ other' = (other /\ ~Check(p, d, ok).resume)
    BY DEF ScanEnded
<1>3. Listed(p) /\ Working(p) /\ Parked(p) /\ p.waits = rl.waits \ {"scan"}
    BY WaitLess DEF PrivacyInv
<1> HIDE DEF p
<1>4. Outcome(Check(p, d, ok), p.waits)
    BY <1>3, CheckFacts
<1>5. ScanSound(News) /\ (News.msgs = <<>> => News.stack = "idle") /\ News.state = "suspend"
    BY <1>1, NewsFacts DEF ScanSound, Wanted, Heard
<1>6. /\ ResumeReq(News, ok.scan) \in Scan /\ Heard(ResumeReq(News, ok.scan))
      /\ LET r == ResumeReq(News, ok.scan) IN r.msgs = <<>> => r.stack # "scanning"
  <2> DEFINE e == [News EXCEPT !.state = "enable"]
             i == [News EXCEPT !.state = "idle"]
  <2>1. ResumeReq(News, ok.scan) = IF News.enabled THEN LeStart(e, ok.scan) ELSE i
    BY <1>5 DEF ResumeReq
  <2>2. ok.scan \in BOOLEAN
    BY DEF Oks
  <2>3. /\ e \in Scan /\ Heard(e) /\ e.stack = News.stack /\ e.msgs = News.msgs
        /\ i \in Scan /\ Heard(i) /\ i.stack = News.stack /\ i.msgs = News.msgs
    BY <1>5 DEF ScanSound, Scan, Heard
  <2> HIDE DEF e, i
  <2>4. QED
    BY <1>5, <2>1, <2>3, <2>2, StartFacts
<1>7. back(Check(p, d, ok), ok) \in {News, ResumeReq(News, ok.scan)}
    OBVIOUS
<1>8. ScanSound(scan')
  <2> DEFINE b == back(Check(p, d, ok), ok)
  <2>1. b \in Scan /\ Heard(b) /\ (b.msgs = <<>> => b.stack # "scanning")
    BY <1>5, <1>6, <1>7 DEF ScanSound
  <2> HIDE DEF b
  <2>2. /\ scan' \in Scan /\ scan'.state = "suspend" /\ scan'.msgs = b.msgs
        /\ scan'.stack = b.stack /\ scan'.gap = b.gap
    BY <1>2, <2>1 DEF b, Scan
  <2>3. QED
    BY <2>1, <2>2 DEF ScanSound, Heard, Wanted
<1>9. /\ ListSound(rl') /\ "scan" \notin rl'.waits
      /\ other' \in BOOLEAN /\ (other' /\ rl'.act = {} /\ Settled(rl') => rl'.gaveUp)
    BY <1>2, <1>3, <1>4 DEF Outcome, PrivacyInv
<1>10. clients' = clients
    BY DEF ScanEnded
<1>11. QED
    BY <1>8, <1>9, <1>10 DEF PrivacyInv

\* Advertising or synchronisation has ended.
LEMMA OtherEndedSafe ==
    ASSUME PrivacyInv, OtherEnded
    PROVE  PrivacyInv'
<1> DEFINE p == [rl EXCEPT !.waits = @ \ {"other"}]
<1>1. PICK ok \in Oks, d \in Firsts(p) : Becomes(Check(p, d, ok), scan, TRUE, ok)
    BY DEF OtherEnded
<1>2. Listed(p) /\ Working(p) /\ Parked(p) /\ p.waits = rl.waits \ {"other"}
    BY WaitLess DEF PrivacyInv
<1> HIDE DEF p
<1>3. Outcome(Check(p, d, ok), p.waits)
    BY <1>2, CheckFacts
<1>4. /\ ScanSound(scan) /\ ("scan" \in p.waits => Awaits(scan))
      /\ clients' \in 0 .. MaxClients
    BY <1>2 DEF PrivacyInv, OtherEnded
<1>5. QED
    BY <1>1, <1>3, <1>4, BecomesSafe

-----------------------------------------------------------------------------
(* Bonds *)

\* The list changed to p, nothing else of it did.
Same(p) == /\ p.op = rl.op /\ p.act = rl.act /\ p.waits = rl.waits /\ p.state = rl.state
           /\ p.attempt = rl.attempt /\ p.gaveUp = rl.gaveUp

LEMMA ChangeSafe ==
    ASSUME PrivacyInv, NEW p, Listed(p), Same(p), rl.listed \subseteq p.listed,
           Change(p), UNCHANGED clients
    PROVE  PrivacyInv'
<1>1. p \in Rl /\ NONE \notin Devs
    BY PrivacyAssumption DEF Listed
<1>2. Working(p) /\ Parked(p) /\ GoesOn(p)
    BY DEF PrivacyInv, ListSound, Working, Parked, GoesOn, Same, Settled
<1>3. CASE "modify" \in rl.act
    BY <1>2, <1>3 DEF Change, PrivacyInv, ListSound, Same, Settled
<1>4. CASE "modify" \notin rl.act /\ rl.waits # {}
  <2> DEFINE e == [p EXCEPT !.act = @ \cup {"modify", "suspend"}]
  <2>1. rl' = e /\ UNCHANGED <<scan, other>>
    BY <1>4 DEF Change
  <2>2. /\ e \in Rl /\ "modify" \in e.act /\ "suspend" \in e.act /\ e.waits = p.waits
        /\ e.op = p.op /\ e.attempt = p.attempt /\ e.state = p.state
        /\ e.listed = p.listed /\ e.inCtl = p.inCtl /\ e.removal = p.removal
        /\ e.avail = p.avail
    BY <1>1 DEF Rl
  <2> HIDE DEF e
  <2>3. Listed(e)
    BY <2>2, ListedKept
  <2>4. ListSound(e) /\ e.waits = rl.waits
    BY <1>2, <1>4, <2>2, <2>3 DEF ListSound, Working, Parked, GoesOn, Same
  <2>5. QED
    BY <2>1, <2>2, <2>4 DEF PrivacyInv
<1>5. CASE "modify" \notin rl.act /\ rl.waits = {}
  <2>1. PICK ok \in Oks, d \in Firsts(p), ended \in BOOLEAN :
            LET s == SuspendReq(scan, ok.scan)
            IN  Becomes(Modify(p, s, d, ok, ended), s, TRUE, ok)
    BY <1>5 DEF Change, PrivacyInv
  <2>2. p.op = NONE /\ p.waits = {} /\ "modify" \notin p.act
    BY <1>2, <1>5 DEF Working, Same
  <2>3. PICK w : LET s == SuspendReq(scan, ok.scan)
                 IN  /\ Outcome(Modify(p, s, d, ok, ended), w)
                     /\ "scan" \in w => EndAwaited(s)
    BY <2>2, ModifyFacts
  <2>4. LET s == SuspendReq(scan, ok.scan)
        IN  /\ ScanSound(s) /\ ("scan" \in w => Awaits(s))
            /\ clients' \in 0 .. MaxClients
    BY <2>3, SuspendFacts DEF PrivacyInv, Oks
  <2>5. QED
    BY <2>1, <2>3, <2>4, BecomesSafe
<1>6. QED
    BY <1>3, <1>4, <1>5

LEMMA BondAddSafe ==
    ASSUME PrivacyInv, NEW d \in Devs, BondAdd(d)
    PROVE  PrivacyInv'
<1>1. Listed(rl) /\ rl \in Rl /\ RlSize \in Nat
    BY PrivacyAssumption DEF PrivacyInv, ListSound, Listed
<1>2. CASE d \in rl.listed
    BY <1>1, <1>2, ChangeSafe DEF BondAdd, Same
<1>3. CASE d \notin rl.listed
  <2> DEFINE p == [rl EXCEPT !.listed = @ \cup {d}, !.avail = @ - 1]
  <2>1. Change(p) /\ UNCHANGED clients /\ rl.avail > 0
    BY <1>3 DEF BondAdd
  <2>2. rl.avail - 1 \in 0 .. RlSize
    BY <1>1, <2>1 DEF Rl
  <2>3. /\ p \in Rl /\ p.listed = rl.listed \cup {d} /\ p.avail = rl.avail - 1
        /\ p.inCtl = rl.inCtl /\ p.removal = rl.removal /\ Same(p)
    BY <1>1, <2>2 DEF Rl, Same
  <2> HIDE DEF p
  <2>4. /\ IsFiniteSet(rl.listed) /\ rl.avail + Cardinality(rl.listed) <= RlSize
        /\ Cardinality(rl.listed) \in Nat /\ rl.avail \in Nat
    BY <1>1, FS_CardinalityType DEF Listed, Rl
  <2>5. /\ IsFiniteSet(rl.listed \cup {d})
        /\ Cardinality(rl.listed \cup {d}) = Cardinality(rl.listed) + 1
    BY <1>3, <2>4, FS_AddElement
  <2>6. IsFiniteSet(p.listed) /\ Cardinality(p.listed) = Cardinality(rl.listed) + 1
    BY <2>3, <2>5
  <2>7. Listed(p) /\ rl.listed \subseteq p.listed
    BY <1>1, <2>3, <2>4, <2>6 DEF Listed
  <2>8. QED
    BY <2>1, <2>3, <2>7, ChangeSafe
<1>4. QED
    BY <1>2, <1>3

LEMMA BondRemovedSafe ==
    ASSUME PrivacyInv, NEW d \in Devs, BondRemoved(d)
    PROVE  PrivacyInv'
<1> DEFINE p == [rl EXCEPT !.removal = @ \cup {d}]
<1>1. Listed(rl) /\ rl \in Rl /\ d \in rl.inCtl /\ Change(p) /\ UNCHANGED clients
    BY DEF PrivacyInv, ListSound, Listed, BondRemoved
<1>2. /\ p \in Rl /\ p.removal = rl.removal \cup {d} /\ p.inCtl = rl.inCtl
      /\ p.listed = rl.listed /\ p.avail = rl.avail /\ Same(p)
    BY <1>1 DEF Rl, Same
<1> HIDE DEF p
<1>3. Listed(p)
    BY <1>1, <1>2 DEF Listed
<1>4. QED
    BY <1>1, <1>2, <1>3, ChangeSafe

\* The entry's place is given back; if a command is about it, that command goes on.
LEMMA BondFreedSafe ==
    ASSUME PrivacyInv, NEW d \in Devs, BondFreed(d)
    PROVE  PrivacyInv'
<1>1. /\ ListSound(rl) /\ Listed(rl) /\ rl \in Rl /\ d \in rl.listed \ rl.inCtl
      /\ NONE # FREED /\ NONE \notin Devs /\ FREED \notin Devs /\ RlSize \in Nat
    BY PrivacyAssumption DEF PrivacyInv, ListSound, Listed, BondFreed
<1>2. /\ IsFiniteSet(rl.listed) /\ rl.avail + Cardinality(rl.listed) <= RlSize
      /\ Cardinality(rl.listed) \in Nat /\ rl.avail \in Nat
    BY <1>1, FS_CardinalityType DEF Listed, Rl
<1>3. IsFiniteSet(rl.listed \ {d}) /\ Cardinality(rl.listed \ {d}) = Cardinality(rl.listed) - 1
    BY <1>1, <1>2, FS_RemoveElement
<1>4. Cardinality(rl.listed \ {d}) \in Nat
    BY <1>3, FS_CardinalityType
<1>5. /\ rl' \in Rl /\ rl'.listed = rl.listed \ {d} /\ rl'.avail = rl.avail + 1
      /\ rl'.inCtl = rl.inCtl /\ rl'.removal = rl.removal
      /\ rl'.op = (IF rl.op = d THEN FREED ELSE rl.op) /\ rl'.act = rl.act
      /\ rl'.waits = rl.waits /\ rl'.state = rl.state /\ rl'.attempt = rl.attempt
      /\ rl'.gaveUp = rl.gaveUp
  <2>1. rl' = [rl EXCEPT !.listed = @ \ {d}, !.avail = @ + 1,
                         !.op = IF @ = d THEN FREED ELSE @]
    BY DEF BondFreed
  <2>2. rl.avail + 1 \in 0 .. RlSize
    BY <1>1, <1>2, <1>3, <1>4
  <2>3. QED
    BY <1>1, <2>1, <2>2 DEF Rl
<1>6. Listed(rl')
    BY <1>1, <1>2, <1>3, <1>5 DEF Listed
<1>7. ListSound(rl')
    BY <1>1, <1>5, <1>6 DEF ListSound, Working, Parked, GoesOn, Settled
<1>8. UNCHANGED <<clients, scan, other>>
    BY DEF BondFreed
<1>9. QED
    BY <1>5, <1>7, <1>8 DEF PrivacyInv, Settled

-----------------------------------------------------------------------------
(* Answers of the controller *)

LEMMA ResolutionDoneSafe ==
    ASSUME PrivacyInv, ResolutionDone
    PROVE  PrivacyInv'
<1> DEFINE p == [rl EXCEPT !.state = IF @ = "enabling" THEN "enable" ELSE "disable"]
<1>1. /\ ListSound(rl) /\ Listed(rl) /\ rl \in Rl /\ NONE \notin Devs
      /\ rl.state \in {"disabling", "enabling"} /\ clients' \in 0 .. MaxClients
      /\ ScanSound(scan) /\ other \in BOOLEAN /\ ("scan" \in rl.waits => Awaits(scan))
    BY PrivacyAssumption DEF PrivacyInv, ListSound, Listed, ResolutionDone
<1>2. PICK ok \in Oks, d \in Firsts(p) : Becomes(Resolved(p, d, ok), scan, other, ok)
    BY DEF ResolutionDone
<1>3. /\ p \in Rl /\ Settled(p) /\ p.op = rl.op /\ p.act = rl.act /\ p.waits = rl.waits
      /\ p.listed = rl.listed /\ p.inCtl = rl.inCtl /\ p.removal = rl.removal
      /\ p.avail = rl.avail
    BY <1>1 DEF Rl, Settled
<1> HIDE DEF p
<1>4. Listed(p) /\ p.op = NONE
    BY <1>1, <1>3, ListedKept DEF ListSound, Working
<1>5. Parked(p) /\ Working(p)
    BY <1>1, <1>3, <1>4 DEF ListSound, Parked, Working
<1>6. Outcome(Resolved(p, d, ok), rl.waits)
  <2>1. CASE "modify" \in p.act
    <3>1. Ready(p)
      BY <1>3, <1>4, <1>5, <2>1 DEF Ready
    <3>2. Resolved(p, d, ok) = Execute(p, d, ok)
      BY <2>1 DEF Resolved
    <3>3. QED
      BY <1>3, <3>1, <3>2, ExecuteFacts
  <2>2. CASE "modify" \notin p.act
    <3>1. p.waits = {} /\ p.act \subseteq {"suspend"}
      BY <1>1, <1>3, <2>2 DEF ListSound, Parked, Settled, Rl
    <3>2. Resolved(p, d, ok) = Toggle(p, ok)
      BY <2>2 DEF Resolved
    <3>3. QED
      BY <1>3, <1>4, <3>1, <3>2, ToggleFacts
  <2>3. QED
    BY <2>1, <2>2
<1>7. QED
    BY <1>1, <1>2, <1>6, BecomesSafe

\* Nobody retries: gaveUp is set, and the list stays as it is.
LEMMA ResolutionFailedSafe ==
    ASSUME PrivacyInv, ResolutionFailed
    PROVE  PrivacyInv'
<1>1. /\ ListSound(rl) /\ Listed(rl) /\ rl \in Rl
      /\ rl.state \in {"disabling", "enabling"} /\ UNCHANGED <<clients, scan, other>>
    BY DEF PrivacyInv, ListSound, Listed, ResolutionFailed
<1>2. /\ rl' \in Rl /\ rl'.state = "disable" /\ rl'.gaveUp /\ rl'.op = rl.op
      /\ rl'.act = rl.act /\ rl'.waits = rl.waits /\ rl'.attempt = rl.attempt
      /\ rl'.listed = rl.listed /\ rl'.inCtl = rl.inCtl /\ rl'.removal = rl.removal
      /\ rl'.avail = rl.avail
    BY <1>1 DEF ResolutionFailed, Rl
<1>3. Listed(rl')
    BY <1>1, <1>2, ListedKept
<1>4. ListSound(rl')
    BY <1>1, <1>2, <1>3 DEF ListSound, Working, Parked, GoesOn, Settled
<1>5. QED
    BY <1>1, <1>2, <1>4 DEF PrivacyInv

\* The answer to a command that changes the list, after which the list is p.
LEMMA GoOnSafe ==
    ASSUME PrivacyInv, rl.op # NONE, NEW p, Listed(p), p.op = NONE,
           p.act = rl.act, p.waits = rl.waits, p.state = rl.state,
           GoOn(p), UNCHANGED clients
    PROVE  PrivacyInv'
<1>1. PICK ok \in Oks, d \in Firsts(p) : Becomes(Execute(p, d, ok), scan, other, ok)
    BY DEF GoOn
<1>2. NONE \notin Devs /\ ListSound(rl)
    BY PrivacyAssumption DEF PrivacyInv
<1>3. Ready(p)
    BY <1>2 DEF ListSound, Ready, Working, Parked, Settled
<1>4. Outcome(Execute(p, d, ok), rl.waits)
    BY <1>3, ExecuteFacts
<1>5. /\ ScanSound(scan) /\ other \in BOOLEAN /\ ("scan" \in rl.waits => Awaits(scan))
      /\ clients' \in 0 .. MaxClients
    BY DEF PrivacyInv
<1>6. QED
    BY <1>1, <1>4, <1>5, BecomesSafe

LEMMA ListModifiedSafe ==
    ASSUME PrivacyInv, ListModified
    PROVE  PrivacyInv'
<1> DEFINE p == Modified(rl.op)
<1>1. /\ ListSound(rl) /\ Listed(rl) /\ rl \in Rl /\ rl.op \in Devs /\ rl.op \in rl.listed
      /\ NONE \notin Devs /\ RlSize \in Nat /\ Attempts \in Nat /\ GoOn(p) /\ UNCHANGED clients
    BY PrivacyAssumption DEF PrivacyInv, ListSound, Listed, Working, ListModified
<1>2. 0 \in 0 .. Attempts
    BY <1>1
<1>3. /\ p \in Rl /\ p.op = NONE /\ p.act = rl.act /\ p.waits = rl.waits /\ p.state = rl.state
      /\ p.avail = rl.avail
      /\ p.listed \in {rl.listed, rl.listed \ {rl.op}}
      /\ p.inCtl \subseteq p.listed /\ p.removal \subseteq p.inCtl
  <2>1. CASE rl.op \in rl.removal
    <3>1. p = [rl EXCEPT !.listed = @ \ {rl.op}, !.inCtl = @ \ {rl.op},
                         !.removal = @ \ {rl.op}, !.attempt = 0, !.op = NONE]
      BY <2>1 DEF Modified
    <3>2. /\ p.op = NONE /\ p.act = rl.act /\ p.waits = rl.waits /\ p.state = rl.state
          /\ p.avail = rl.avail /\ p.listed = rl.listed \ {rl.op}
          /\ p.inCtl = rl.inCtl \ {rl.op} /\ p.removal = rl.removal \ {rl.op}
      BY <1>1, <3>1 DEF Rl
    <3>3. /\ rl.listed \ {rl.op} \in SUBSET Devs /\ rl.inCtl \ {rl.op} \in SUBSET Devs
          /\ rl.removal \ {rl.op} \in SUBSET Devs
      BY <1>1 DEF Rl
    <3>4. p \in Rl
      <4> DEFINE q == [rl EXCEPT !.attempt = 0, !.op = NONE]
      <4>1. q \in Rl
        BY <1>1, <1>2 DEF Rl
      <4>2. p = [q EXCEPT !.listed = rl.listed \ {rl.op}, !.inCtl = rl.inCtl \ {rl.op},
                          !.removal = rl.removal \ {rl.op}]
        BY <1>1, <3>1 DEF Rl
      <4> HIDE DEF q
      <4>3. QED
        BY <3>3, <4>1, <4>2 DEF Rl
    <3>5. QED
      BY <1>1, <3>2, <3>4 DEF Listed
  <2>2. CASE rl.op \notin rl.removal
    <3>1. p = [rl EXCEPT !.inCtl = @ \cup {rl.op}, !.attempt = 0, !.op = NONE]
      BY <2>2 DEF Modified
    <3>2. /\ p.op = NONE /\ p.act = rl.act /\ p.waits = rl.waits /\ p.state = rl.state
          /\ p.avail = rl.avail /\ p.listed = rl.listed
          /\ p.inCtl = rl.inCtl \cup {rl.op} /\ p.removal = rl.removal
      BY <1>1, <3>1 DEF Rl
    <3>3. rl.inCtl \cup {rl.op} \in SUBSET Devs
      BY <1>1 DEF Rl
    <3>4. p \in Rl
      BY <1>1, <1>2, <3>1, <3>3 DEF Rl
    <3>5. QED
      BY <1>1, <3>2, <3>4 DEF Listed
  <2>3. QED
    BY <2>1, <2>2
<1> HIDE DEF p
<1>4. /\ IsFiniteSet(rl.listed) /\ rl.avail + Cardinality(rl.listed) <= RlSize
      /\ Cardinality(rl.listed) \in Nat /\ rl.avail \in Nat
    BY <1>1, FS_CardinalityType DEF Listed, Rl
<1>5. Listed(p)
  <2>1. p.listed \in SUBSET rl.listed
    BY <1>3
  <2>2. /\ IsFiniteSet(p.listed) /\ Cardinality(p.listed) \in Nat
        /\ Cardinality(p.listed) <= Cardinality(rl.listed)
    BY <1>4, <2>1, FS_Subset, FS_CardinalityType
  <2>3. QED
    BY <1>1, <1>3, <1>4, <2>2 DEF Listed
<1>6. QED
    BY <1>1, <1>3, <1>5, GoOnSafe

LEMMA ModifyFailedSafe ==
    ASSUME PrivacyInv, ModifyFailed
    PROVE  PrivacyInv'
<1> DEFINE p == [rl EXCEPT !.attempt = @ + 1, !.op = NONE]
<1>1. /\ ListSound(rl) /\ Listed(rl) /\ rl \in Rl /\ rl.op # NONE /\ rl.attempt < Attempts
      /\ Attempts \in Nat /\ GoOn(p) /\ UNCHANGED clients
    BY PrivacyAssumption DEF PrivacyInv, ListSound, Listed, Working, ModifyFailed
<1>2. rl.attempt + 1 \in 0 .. Attempts
    BY <1>1 DEF Rl
<1>3. /\ p \in Rl /\ p.op = NONE /\ p.act = rl.act /\ p.waits = rl.waits /\ p.state = rl.state
      /\ p.avail = rl.avail /\ p.listed = rl.listed /\ p.inCtl = rl.inCtl
      /\ p.removal = rl.removal
    BY <1>1, <1>2 DEF Rl
<1> HIDE DEF p
<1>4. Listed(p)
    BY <1>1, <1>3, ListedKept
<1>5. QED
    BY <1>1, <1>3, <1>4, GoOnSafe

LEMMA ModifiedFreedSafe ==
    ASSUME PrivacyInv, ModifiedFreed
    PROVE  PrivacyInv'
<1>1. /\ ListSound(rl) /\ Listed(rl) /\ rl \in Rl /\ rl.op = FREED
      /\ UNCHANGED <<clients, scan, other>>
      /\ NONE # FREED /\ NONE # FAULT /\ FAULT \notin Devs
    BY PrivacyAssumption DEF PrivacyInv, ListSound, Listed, ModifiedFreed
<1>2. /\ rl' \in Rl /\ rl'.op = FAULT /\ rl'.act = rl.act /\ rl'.waits = rl.waits
      /\ rl'.state = rl.state /\ rl'.attempt = rl.attempt /\ rl'.gaveUp = rl.gaveUp
      /\ rl'.listed = rl.listed /\ rl'.inCtl = rl.inCtl /\ rl'.removal = rl.removal
      /\ rl'.avail = rl.avail
    BY <1>1 DEF ModifiedFreed, Rl
<1>3. Listed(rl')
    BY <1>1, <1>2, ListedKept
<1>4. ListSound(rl')
    BY <1>1, <1>2, <1>3 DEF ListSound, Working, Parked, GoesOn, Settled
<1>5. QED
    BY <1>1, <1>2, <1>4 DEF PrivacyInv, Settled

-----------------------------------------------------------------------------
(* Every step *)

LEMMA InitPrivacy == Init => PrivacyInv
<1> SUFFICES ASSUME Init PROVE PrivacyInv
    OBVIOUS
<1>1. RlSize \in Nat /\ Attempts \in Nat /\ MaxClients \in Nat /\ NONE \notin Devs
    BY PrivacyAssumption
<1>2. ScanSound(scan) /\ "scan" \notin rl.waits
    BY DEF Init, ScanSound, Scan, GapStates, Heard, Wanted
<1>3. IsFiniteSet({}) /\ Cardinality({}) = 0
    BY FS_EmptySet
<1>4. rl \in Rl /\ rl.listed = {} /\ rl.avail = RlSize
    BY <1>1 DEF Init, Rl
<1>5. ListSound(rl)
    BY <1>1, <1>3, <1>4 DEF Init, ListSound, Listed, Working, Parked, GoesOn
<1>6. clients = 0 /\ other = FALSE /\ 0 \in 0 .. MaxClients
    BY <1>1 DEF Init
<1>7. QED
    BY <1>2, <1>5, <1>6 DEF PrivacyInv

LEMMA StepPrivacy == PrivacyInv /\ [Next]_vars => PrivacyInv'
<1> SUFFICES ASSUME PrivacyInv, [Next]_vars PROVE PrivacyInv'
    OBVIOUS
<1>1. CASE Discover \/ Leave
    BY <1>1, PrivacyAssumption, RequestSafe
<1>2. CASE ScanNews
    BY <1>2, NewsSafe
<1>3. CASE ScanEnded
    BY <1>3, ScanEndedSafe
<1>4. CASE OtherEnded
    BY <1>4, OtherEndedSafe
<1>5. CASE \E d \in Devs : BondAdd(d) \/ BondFreed(d) \/ BondRemoved(d)
    BY <1>5, BondAddSafe, BondFreedSafe, BondRemovedSafe
<1>6. CASE ResolutionDone
    BY <1>6, ResolutionDoneSafe
<1>7. CASE ResolutionFailed
    BY <1>7, ResolutionFailedSafe
<1>8. CASE ListModified
    BY <1>8, ListModifiedSafe
<1>9. CASE ModifyFailed
    BY <1>9, ModifyFailedSafe
<1>10. CASE ModifiedFreed
    BY <1>10, ModifiedFreedSafe
<1>11. CASE ScanStarted \/ ScanFailed \/ ScanStopped
    BY <1>11, StackSafe
<1>12. CASE UNCHANGED vars
    BY <1>12 DEF vars, PrivacyInv, Settled
<1>13. QED
    BY <1>1, <1>2, <1>3, <1>4, <1>5, <1>6, <1>7, <1>8, <1>9, <1>10, <1>11, <1>12
       DEF Next, Host

LEMMA PrivacySafe == Spec => []PrivacyInv
    BY InitPrivacy, StepPrivacy, PTL DEF Spec

LEMMA PrivacyImplies ==
    ASSUME PrivacyInv
    PROVE  /\ TypeOK /\ ScanSettles /\ ModifyGoesOn
           /\ WaitEnds /\ ResolutionOff /\ OthersResume
<1>1. TypeOK
    BY DEF PrivacyInv, ScanSound, ListSound, Listed, TypeOK
<1>2. ScanSettles
    BY DEF PrivacyInv, ScanSound, Wanted, ScanSettles
<1>3. ModifyGoesOn
    BY DEF PrivacyInv, ListSound, GoesOn, ModifyGoesOn
<1>4. WaitEnds
  <2>1. "scan" \in rl.waits => Awaits(scan) /\ Wanted(scan) /\ scan.stack \in GapStates
    BY DEF PrivacyInv, ScanSound, Scan
  <2>2. QED
    BY <2>1 DEF Awaits, Wanted, WaitEnds, GapStates
<1>5. ResolutionOff
    BY DEF PrivacyInv, ListSound, Working, ResolutionOff
<1>6. OthersResume
    BY DEF PrivacyInv, Settled, Finished, OthersResume
<1>7. QED
    BY <1>1, <1>2, <1>3, <1>4, <1>5, <1>6

-----------------------------------------------------------------------------
(* The theorems *)

\* The two state machines keep to their states, the list to the controller's
\* size, a command to its attempts, and only an entry that is in the controller
\* is marked for removal.
THEOREM PrivacyTypes == Spec => []TypeOK
<1>1. PrivacyInv => TypeOK
    BY PrivacyImplies
<1>2. QED
    BY <1>1, PrivacySafe, PTL

\* However requests, suspensions and late news of the stack follow each other
\* (scan_sm_execute, hdl_scan_state_change), and whatever the stack has refused
\* before, once it has nothing more to report it scans exactly when the manager is
\* enabled, unless it could have carried out the last command and refused it.
THEOREM ScanFollows == Spec => []ScanSettles
<1>1. PrivacyInv => ScanSettles
    BY PrivacyImplies
<1>2. QED
    BY <1>1, PrivacySafe, PTL

\* A change of the resolving list that was asked for waits for something, is with
\* the controller, or was given up because resolution could not be turned off
\* (execute_rl_dev_operation, check_rl_pending_action).
THEOREM ChangeGoesOn == Spec => []ModifyGoesOn
<1>1. PrivacyInv => ModifyGoesOn
    BY PrivacyImplies
<1>2. QED
    BY <1>1, PrivacySafe, PTL

\* le_scan_suspend_req never makes the list wait for a scan that is over, nor for
\* one that nobody has stopped, unless the stack refused the stop.
THEOREM WaitsEnd == Spec => []WaitEnds
<1>1. PrivacyInv => WaitEnds
    BY PrivacyImplies
<1>2. QED
    BY <1>1, PrivacySafe, PTL

\* The controller is told to change its list only while resolution is off, and
\* nothing turns it on before the answer (execute_rl_dev_operation).
THEOREM ListChangesOff == Spec => []ResolutionOff
<1>1. PrivacyInv => ResolutionOff
    BY PrivacyImplies
<1>2. QED
    BY <1>1, PrivacySafe, PTL

\* Whichever way a modification ends, what was suspended but the scan has been
\* resumed by then (check_rl_to_enable_resolving).
THEOREM OthersComeBack == Spec => []OthersResume
<1>1. PrivacyInv => OthersResume
    BY PrivacyImplies
<1>2. QED
    BY <1>1, PrivacySafe, PTL
=============================================================================

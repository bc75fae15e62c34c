--------------------------- MODULE RelayRefinement ---------------------------
(***************************************************************************)
(* Proof that RemoteRelay implements RelayLink, for every number of        *)
(* credits, queue length, width of the sequence numbers and bounds: what   *)
(* the sender numbers comes out in order and at most once, and a message   *)
(* is lost only at the end of a session or by a sequence number that has   *)
(* come round.                                                             *)
(***************************************************************************)
EXTENDS RemoteRelayProofs, SequenceTheorems

-----------------------------------------------------------------------------
(* Sequence numbers *)

LEMMA DivisionFacts ==
    ASSUME NEW W \in Nat \ {0}, NEW a \in Nat
    PROVE  a = W * (a \div W) + (a % W) /\ a % W \in 0 .. W - 1 /\ a \div W \in Nat
    BY SMTT(60)

LEMMA RemainderUnique ==
    ASSUME NEW W \in Nat \ {0}, NEW q \in Nat, NEW r \in 0 .. W - 1
    PROVE  (W * q + r) % W = r
    BY SMTT(60)

\* The next sequence number is that of the next number (remote_mgr.c:679).
LEMMA NextNumber ==
    ASSUME NEW W \in Nat \ {0}, NEW a \in Nat
    PROVE  ((a % W) + 1) % W = (a + 1) % W
<1> DEFINE q == a \div W
           r == a % W
<1>1. a = W * q + r /\ r \in 0 .. W - 1 /\ q \in Nat
    BY DivisionFacts
<1> HIDE DEF q
<1>2. CASE r + 1 < W
  <2>1. r + 1 \in 0 .. W - 1
    BY <1>1, <1>2
  <2>2. (W * q + (r + 1)) % W = r + 1 /\ (W * 0 + (r + 1)) % W = r + 1
    BY <1>1, <2>1, RemainderUnique
  <2> HIDE DEF r
  <2>3. a + 1 = W * q + (r + 1) /\ r + 1 = W * 0 + (r + 1)
    BY <1>1
  <2>4. QED
    BY <2>2, <2>3 DEF r
<1>3. CASE r + 1 = W
  <2>1. 0 \in 0 .. W - 1 /\ q + 1 \in Nat
    BY <1>1
  <2>2. (W * (q + 1) + 0) % W = 0 /\ (W * 1 + 0) % W = 0
    BY <2>1, RemainderUnique
  <2> HIDE DEF r
  <2>3. a + 1 = W * (q + 1) + 0 /\ r + 1 = W * 1 + 0
    BY <1>1, <1>3
  <2>4. QED
    BY <2>2, <2>3 DEF r
<1>4. QED
    BY <1>1, <1>2, <1>3

-----------------------------------------------------------------------------
(* Lists of messages *)

\* Head and tail of a list made of them.
LEMMA HeadFirst ==
    ASSUME NEW m \in Message, NEW z \in Seq(Message), NEW w, w = <<m>> \o z
    PROVE  w # <<>> /\ Head(w) = m /\ Tail(w) = z
<1>1. /\ <<m>> \in Seq(Message) /\ Len(<<m>>) = 1 /\ <<m>>[1] = m /\ Len(z) \in Nat
    OBVIOUS
<1>2. /\ w \in Seq(Message) /\ Len(w) = 1 + Len(z)
      /\ \A i \in 1 .. 1 + Len(z) : w[i] = IF i <= 1 THEN <<m>>[i] ELSE z[i - 1]
    BY <1>1, ConcatProperties
<1>3. w # <<>> /\ w[1] = m
    BY <1>1, <1>2, EmptySeq
<1>4. /\ Head(w) = w[1] /\ Tail(w) \in Seq(Message) /\ Len(Tail(w)) = Len(z)
      /\ \A i \in 1 .. Len(z) : Tail(w)[i] = w[i + 1]
    BY <1>1, <1>2, <1>3, HeadTailProperties
<1>5. ASSUME NEW i \in 1 .. Len(z) PROVE Tail(w)[i] = z[i]
    BY <1>1, <1>2, <1>4
<1>6. Tail(w) = z
    BY <1>4, <1>5, SeqEqual
<1>7. QED
    BY <1>3, <1>4, <1>6

\* The messages of a list carry the sequence numbers of their numbers, up to n.
Numbered(s, n) ==
    \A i \in 1 .. Len(s) : s[i].seq = s[i].id % Width /\ s[i].id \in 1 .. n

LEMMA NumberedLists ==
    ASSUME NEW s \in Seq(Message), NEW t \in Seq(Message), NEW n \in Nat,
           Numbered(s, n), Numbered(t, n)
    PROVE  Numbered(s \o t, n)
<1>1. /\ Len(s) \in Nat /\ Len(t) \in Nat /\ Len(s \o t) = Len(s) + Len(t)
      /\ \A i \in 1 .. Len(s) + Len(t) : (s \o t)[i] =
              IF i <= Len(s) THEN s[i] ELSE t[i - Len(s)]
    BY ConcatProperties
<1> SUFFICES ASSUME NEW i \in 1 .. Len(s) + Len(t)
             PROVE  (s \o t)[i].seq = (s \o t)[i].id % Width /\ (s \o t)[i].id \in 1 .. n
    BY <1>1 DEF Numbered
<1>2. CASE i <= Len(s)
    BY <1>1, <1>2 DEF Numbered
<1>3. CASE ~(i <= Len(s))
  <2>1. i - Len(s) \in 1 .. Len(t)
    BY <1>1, <1>3
  <2>2. QED
    BY <1>1, <1>3, <2>1 DEF Numbered
<1>4. QED
    BY <1>2, <1>3

\* A part of a list.
LEMMA NumberedPart ==
    ASSUME NEW s \in Seq(Message), NEW n \in Nat, Numbered(s, n),
           NEW a \in 1 .. Len(s) + 1, NEW b \in 0 .. Len(s)
    PROVE  SubSeq(s, a, b) \in Seq(Message) /\ Numbered(SubSeq(s, a, b), n)
<1>1. Len(s) \in Nat
    OBVIOUS
<1>2. \A i \in a .. b : s[i] \in Message
    BY <1>1, ElementOfSeq
<1>3. /\ SubSeq(s, a, b) \in Seq(Message)
      /\ Len(SubSeq(s, a, b)) = IF a <= b THEN b - a + 1 ELSE 0
      /\ \A i \in 1 .. b - a + 1 : SubSeq(s, a, b)[i] = s[a + i - 1]
    BY <1>1, <1>2, SubSeqProperties
<1> SUFFICES ASSUME NEW i \in 1 .. Len(SubSeq(s, a, b))
             PROVE  /\ SubSeq(s, a, b)[i].seq = SubSeq(s, a, b)[i].id % Width
                    /\ SubSeq(s, a, b)[i].id \in 1 .. n
    BY <1>3 DEF Numbered
<1>4. i \in 1 .. b - a + 1 /\ a + i - 1 \in 1 .. Len(s)
    BY <1>1, <1>3
<1>5. QED
    BY <1>3, <1>4 DEF Numbered

LEMMA NumberedMore ==
    ASSUME NEW s, NEW n \in Nat, Numbered(s, n), NEW m \in Nat, n <= m
    PROVE  Numbered(s, m)
    BY DEF Numbered

\* The numbers of a list.
LEMMA IdsFacts ==
    ASSUME NEW s \in Seq(Message)
    PROVE  /\ Ids(s) \in Seq(Nat) /\ Len(Ids(s)) = Len(s)
           /\ \A i \in 1 .. Len(s) : Ids(s)[i] = s[i].id
           /\ Ids(s) = <<>> <=> s = <<>>
<1>1. /\ DOMAIN s = 1 .. Len(s) /\ Len(s) \in Nat
      /\ \A i \in 1 .. Len(s) : s[i] \in Message
    BY LenProperties, ElementOfSeq
<1>2. Ids(s) = [i \in 1 .. Len(s) |-> s[i].id]
    BY <1>1 DEF Ids
<1>3. Ids(s) \in Seq(Nat) /\ Len(Ids(s)) = Len(s)
    BY <1>1, <1>2, IsASeq DEF Message
<1>4. \A i \in 1 .. Len(s) : Ids(s)[i] = s[i].id
    BY <1>2
<1>5. Ids(s) = <<>> <=> s = <<>>
    BY <1>3, EmptySeq
<1>6. QED
    BY <1>3, <1>4, <1>5

LEMMA IdsAppend ==
    ASSUME NEW s \in Seq(Message), NEW m \in Message
    PROVE  Ids(Append(s, m)) = Append(Ids(s), m.id)
<1>1. /\ Append(s, m) \in Seq(Message) /\ Len(Append(s, m)) = Len(s) + 1
      /\ \A i \in 1 .. Len(s) : Append(s, m)[i] = s[i]
      /\ Append(s, m)[Len(s) + 1] = m
      /\ Len(s) \in Nat /\ m.id \in Nat
    BY AppendProperties DEF Message
<1>2. /\ Ids(s) \in Seq(Nat) /\ Len(Ids(s)) = Len(s)
      /\ \A i \in 1 .. Len(s) : Ids(s)[i] = s[i].id
    BY IdsFacts
<1>3. /\ Ids(Append(s, m)) \in Seq(Nat) /\ Len(Ids(Append(s, m))) = Len(s) + 1
      /\ \A i \in 1 .. Len(s) + 1 : Ids(Append(s, m))[i] = Append(s, m)[i].id
    BY <1>1, IdsFacts
<1>4. /\ Append(Ids(s), m.id) \in Seq(Nat) /\ Len(Append(Ids(s), m.id)) = Len(s) + 1
      /\ \A i \in 1 .. Len(s) : Append(Ids(s), m.id)[i] = Ids(s)[i]
      /\ Append(Ids(s), m.id)[Len(s) + 1] = m.id
    BY <1>1, <1>2, AppendProperties
<1>5. ASSUME NEW i \in 1 .. Len(s) + 1 PROVE Ids(Append(s, m))[i] = Append(Ids(s), m.id)[i]
  <2>1. Ids(Append(s, m))[i] = Append(s, m)[i].id
    BY <1>3
  <2>2. CASE i = Len(s) + 1
    BY <1>1, <1>4, <2>1, <2>2
  <2>3. CASE i \in 1 .. Len(s)
    <3>1. Append(s, m)[i] = s[i]
      BY <1>1, <2>3
    <3>2. Append(Ids(s), m.id)[i] = Ids(s)[i] /\ Ids(s)[i] = s[i].id
      BY <1>2, <1>4, <2>3
    <3>3. QED
      BY <2>1, <3>1, <3>2
  <2>4. Len(s) \in Nat
    BY <1>1
  <2>5. i = Len(s) + 1 \/ i \in 1 .. Len(s)
    BY <2>4
  <2>6. QED
    BY <2>2, <2>3, <2>5
<1>6. QED
    BY <1>3, <1>4, <1>5, SeqEqual

LEMMA IdsTail ==
    ASSUME NEW s \in Seq(Message), s # <<>>
    PROVE  Ids(Tail(s)) = Tail(Ids(s)) /\ Head(Ids(s)) = Head(s).id
<1>1. /\ Tail(s) \in Seq(Message) /\ Len(Tail(s)) = Len(s) - 1 /\ Len(s) \in Nat \ {0}
      /\ \A i \in 1 .. Len(Tail(s)) : Tail(s)[i] = s[i + 1]
    BY HeadTailProperties, EmptySeq
<1>2. /\ Ids(s) \in Seq(Nat) /\ Len(Ids(s)) = Len(s) /\ Ids(s) # <<>>
      /\ \A i \in 1 .. Len(s) : Ids(s)[i] = s[i].id
    BY IdsFacts
<1>3. /\ Ids(Tail(s)) \in Seq(Nat) /\ Len(Ids(Tail(s))) = Len(s) - 1
      /\ \A i \in 1 .. Len(s) - 1 : Ids(Tail(s))[i] = Tail(s)[i].id
    BY <1>1, IdsFacts
<1>4. /\ Tail(Ids(s)) \in Seq(Nat) /\ Len(Tail(Ids(s))) = Len(s) - 1
      /\ \A i \in 1 .. Len(s) - 1 : Tail(Ids(s))[i] = Ids(s)[i + 1]
    BY <1>2, HeadTailProperties
<1>5. ASSUME NEW i \in 1 .. Len(s) - 1 PROVE Ids(Tail(s))[i] = Tail(Ids(s))[i]
    BY <1>1, <1>2, <1>3, <1>4
<1>6. Ids(Tail(s)) = Tail(Ids(s))
    BY <1>3, <1>4, <1>5, SeqEqual
<1>7. Head(Ids(s)) = Head(s).id
    BY <1>1, <1>2
<1>8. QED
    BY <1>6, <1>7

LEMMA IdsPart ==
    ASSUME NEW s \in Seq(Message), NEW t \in Seq(Message)
    PROVE  Ids(s) = SubSeq(Ids(s \o t), 1, Len(s)) /\ Len(s) \in 0 .. Len(Ids(s \o t))
<1>1. /\ s \o t \in Seq(Message) /\ Len(s) \in Nat /\ Len(t) \in Nat
      /\ Len(s \o t) = Len(s) + Len(t)
      /\ \A i \in 1 .. Len(s) + Len(t) : (s \o t)[i] =
              IF i <= Len(s) THEN s[i] ELSE t[i - Len(s)]
    BY ConcatProperties
<1>2. /\ Ids(s) \in Seq(Nat) /\ Len(Ids(s)) = Len(s)
      /\ \A i \in 1 .. Len(s) : Ids(s)[i] = s[i].id
    BY IdsFacts
<1> DEFINE w == Ids(s \o t)
<1>3. /\ w \in Seq(Nat) /\ Len(w) = Len(s) + Len(t)
      /\ \A i \in 1 .. Len(s) + Len(t) : w[i] = (s \o t)[i].id
    BY <1>1, IdsFacts
<1> HIDE DEF w
<1>4. \A i \in 1 .. Len(s) : w[i] \in Nat
    BY <1>1, <1>3, ElementOfSeq
<1>5. /\ SubSeq(w, 1, Len(s)) \in Seq(Nat)
      /\ Len(SubSeq(w, 1, Len(s))) = Len(s)
      /\ \A i \in 1 .. Len(s) : SubSeq(w, 1, Len(s))[i] = w[i]
    BY <1>1, <1>3, <1>4
<1>6. ASSUME NEW i \in 1 .. Len(s) PROVE Ids(s)[i] = SubSeq(w, 1, Len(s))[i]
  <2>1. i \in 1 .. Len(s) + Len(t) /\ i <= Len(s)
    BY <1>1
  <2>2. (s \o t)[i] = s[i]
    BY <1>1, <2>1
  <2>3. w[i] = s[i].id
    BY <1>3, <2>1, <2>2
  <2>4. QED
    BY <1>2, <1>5, <2>3
<1>7. Ids(s) = SubSeq(w, 1, Len(s))
    BY <1>2, <1>5, <1>6, SeqEqual
<1>8. QED
    BY <1>1, <1>3, <1>7 DEF w

-----------------------------------------------------------------------------
(* Numbers and sequence numbers along the way *)

\* The inductive invariant: what waits or is under way is numbered in this
\* session, and the peer has what it received last.
Numbers ==
    /\ ~peerUp => air = <<>> /\ last = 0
    /\ rx_seq = last % Width
    /\ tx_seq = tried % Width
    /\ Numbered(queue, tried)
    /\ Numbered(air, MaxCalls)
    /\ Connected /\ peerUp => last <= tried /\ Numbered(air, tried)

LEMMA MessagesAssociate ==
    ASSUME NEW a \in Seq(Message), NEW b \in Seq(Message), NEW c \in Seq(Message)
    PROVE  (a \o b) \o c = a \o (b \o c)
    BY ConcatAssociative, SMTT(60)

\* Dequeueing moves messages from the queue to the air and changes nothing else.
LEMMA Moved ==
    ASSUME RelayInv, Numbers, NEW q \in Seq(Message), NEW c \in 0 .. Credits,
           NEW k \in 0 .. Credits, NEW l, Transmit(l, q, c, k),
           NEW n \in 0 .. MaxCalls, Numbered(q, n), tried <= n
    PROVE  /\ Numbered(queue', n) /\ Numbered(air', MaxCalls)
           /\ Connected /\ peerUp => Numbered(air', n)
           /\ ~peerUp => air' = <<>>
           /\ peerUp => air' \o queue' = air \o q
<1> USE RelayAssumption DEF RelayInv, Books, Others
<1>1. Len(q) \in Nat /\ k \in Nat /\ k <= Len(q) /\ n \in Nat /\ MaxCalls \in Nat /\ tried \in Nat
    BY TransmitFacts
<1> DEFINE s == SubSeq(q, 1, k)
           r == SubSeq(q, k + 1, Len(q))
<1>2. queue' = r /\ air' = (IF peerUp THEN air \o s ELSE <<>>)
    BY DEF Transmit
<1>3. 1 \in 1 .. Len(q) + 1 /\ k + 1 \in 1 .. Len(q) + 1 /\ k \in 0 .. Len(q) /\ Len(q) \in 0 .. Len(q)
    BY <1>1
<1>4. s \in Seq(Message) /\ Numbered(s, n) /\ r \in Seq(Message) /\ Numbered(r, n)
    BY <1>1, <1>3, NumberedPart
<1>5. s \o r = q
  <2>1. k \in 1 - 1 .. Len(q) /\ Len(q) \in k .. Len(q)
    BY <1>1
  <2>2. s \o r = SubSeq(q, 1, Len(q))
    BY <1>3, <2>1, ConcatAdjacentSubSeq
  <2>3. QED
    BY <2>2, SubSeqFull
<1> HIDE DEF s, r
<1>6. peerUp => air' \o queue' = air \o q
  <2>1. air \in Seq(Message)
    OBVIOUS
  <2>2. (air \o s) \o r = air \o (s \o r)
    BY <1>4, <2>1, MessagesAssociate
  <2>3. QED
    BY <1>2, <1>5, <2>2
<1>7. Numbered(s, MaxCalls)
    BY <1>1, <1>4, NumberedMore
<1>8. Numbered(<<>>, MaxCalls)
    BY DEF Numbered
<1>9. Numbered(air', MaxCalls)
    BY <1>1, <1>2, <1>4, <1>7, <1>8, NumberedLists DEF Numbers
<1>10. ASSUME Connected, peerUp PROVE Numbered(air', n)
  <2>1. Numbered(air, n)
    BY <1>1, <1>10, NumberedMore DEF Numbers
  <2>2. QED
    BY <1>1, <1>2, <1>4, <1>10, <2>1, NumberedLists
<1>11. QED
    BY <1>2, <1>4, <1>6, <1>9, <1>10

\* The state of RelayLink.
open == Connected /\ peerUp
pipe == IF peerUp THEN Ids(air \o queue) ELSE <<>>

\* Steps that only move messages along.
LEMMA MovesAlong ==
    ASSUME RelayInv, Numbers, NEW c \in 0 .. Credits, NEW k \in 0 .. Credits, NEW l,
           Transmit(l, queue, c, k), UNCHANGED <<session, count, peer>>
    PROVE  Numbers' /\ UNCHANGED <<open, pipe, last>>
<1>1. /\ tried \in 0 .. MaxCalls /\ tried <= tried /\ Numbered(queue, tried)
      /\ queue \in Seq(Message)
    BY RelayAssumption DEF RelayInv, Books, Others, Numbers
<1>2. /\ Numbered(queue', tried) /\ Numbered(air', MaxCalls)
      /\ Connected /\ peerUp => Numbered(air', tried)
      /\ ~peerUp => air' = <<>>
      /\ peerUp => air' \o queue' = air \o queue
    BY <1>1, Moved
<1>3. UNCHANGED <<session, tx_seq, tried, peerUp, rx_seq, last>>
    BY DEF count, peer
<1>4. Numbers'
    BY <1>2, <1>3 DEF Numbers, Numbered, Connected
<1>5. UNCHANGED <<open, pipe, last>>
    BY <1>2, <1>3 DEF open, pipe, Connected
<1>6. QED
    BY <1>4, <1>5

-----------------------------------------------------------------------------
(* Every step is one of RelayLink, or none of its business *)

Implements == Numbers' /\ (L!Next \/ UNCHANGED L!vars)

LEMMA Stutter ==
    ASSUME Numbers', UNCHANGED <<open, pipe, last>>
    PROVE  Implements
    BY DEF Implements, L!vars, open, pipe

LEMMA Idle ==
    ASSUME Numbers, UNCHANGED <<session, queue, air, count, peer>>
    PROVE  Implements
<1>1. UNCHANGED <<session, queue, air, tx_seq, tried, peerUp, rx_seq, last>>
    BY DEF count, peer
<1>2. Numbers'
    BY <1>1 DEF Numbers, Numbered, Connected
<1>3. UNCHANGED <<open, pipe, last>>
    BY <1>1 DEF open, pipe, Connected
<1>4. QED
    BY <1>2, <1>3, Stutter

\* A message is numbered: what Numbers says of the other variables then.
LEMMA NumbersNext ==
    ASSUME Numbers, tried \in Nat, tried' \in Nat, tried <= tried', tx_seq' = tried' % Width,
           last \in Nat, UNCHANGED <<session, peerUp, rx_seq, last>>,
           Numbered(queue', tried'), Numbered(air', MaxCalls),
           ~peerUp => air' = <<>>, Connected /\ peerUp => Numbered(air', tried')
    PROVE  Numbers'
<1>1. ~peerUp' => air' = <<>> /\ last' = 0
    BY DEF Numbers
<1>2. rx_seq' = last' % Width
    BY DEF Numbers
<1>3. Connected' = Connected /\ peerUp' = peerUp /\ last' = last
    BY DEF Connected
<1>4. Connected /\ peerUp => last <= tried'
    BY DEF Numbers
<1>5. QED
    BY <1>1, <1>2, <1>3, <1>4 DEF Numbers, Numbered

\* A message is numbered; if there is room for it, it is accepted.
LEMMA SendImplements ==
    ASSUME RelayInv, Numbers, Send \/ SendRefused
    PROVE  Implements
<1> USE RelayAssumption
<1>1. /\ Connected /\ tried \in Nat /\ tried' = tried + 1 /\ tried' \in 1 .. MaxCalls
      /\ tx_seq' = (tx_seq + 1) % Width
    BY DEF Send, SendRefused, Number, RelayInv, Others
<1>2. tx_seq' = tried' % Width
    BY <1>1, NextNumber DEF Numbers
<1>3. UNCHANGED <<session, peerUp, rx_seq, last>>
    BY DEF Send, SendRefused, peer
<1>4. /\ queue \in Seq(Message) /\ air \in Seq(Message)
      /\ Numbered(queue, tried') /\ Numbered(air, MaxCalls)
      /\ peerUp => last <= tried /\ Numbered(air, tried) /\ Numbered(air, tried')
    BY <1>1, NumberedMore DEF RelayInv, Books, Numbers
<1>5. last \in Nat /\ tried <= tried' /\ tried' \in Nat /\ tried' \in 0 .. MaxCalls
    BY <1>1 DEF RelayInv, Others
<1>6. CASE SendRefused
  <2>1. UNCHANGED <<queue, air>>
    BY <1>6 DEF SendRefused, relay
  <2>2. /\ Numbered(queue', tried') /\ Numbered(air', MaxCalls)
        /\ Connected /\ peerUp => Numbered(air', tried')
    BY <1>4, <2>1 DEF Numbered
  <2>3. ~peerUp => air' = <<>>
    BY <2>1 DEF Numbers
  <2>4. Numbers'
    BY <1>5, <1>1, <1>2, <1>3, <2>2, <2>3, NumbersNext
  <2>5. UNCHANGED <<open, pipe, last>>
    BY <1>3, <2>1 DEF open, pipe, Connected
  <2>6. QED
    BY <2>4, <2>5, Stutter
<1>7. CASE Send
  <2> DEFINE m == [id |-> tried', seq |-> tx_seq']
             q == Append(queue, m)
  <2>1. m \in Message /\ m.id = tried' /\ m.seq = m.id % Width
    BY <1>1, <1>2, SenderStep, <1>7 DEF Message, RelayInv, Others
  <2> HIDE DEF m
  <2>2. /\ q \in Seq(Message) /\ Len(q) = Len(queue) + 1 /\ Len(queue) \in Nat
        /\ \A i \in 1 .. Len(queue) : q[i] = queue[i]
        /\ q[Len(queue) + 1] = m
    BY <1>4, <2>1, AppendProperties
  <2>3. Numbered(q, tried')
    <3> SUFFICES ASSUME NEW i \in 1 .. Len(queue) + 1
                 PROVE  q[i].seq = q[i].id % Width /\ q[i].id \in 1 .. tried'
      BY <2>2 DEF Numbered
    <3>1. CASE i = Len(queue) + 1
      BY <1>1, <2>1, <2>2, <3>1
    <3>2. CASE i \in 1 .. Len(queue)
      BY <1>4, <2>2, <3>2 DEF Numbered
    <3>3. QED
      BY <2>2, <3>1, <3>2
  <2> HIDE DEF q
  <2>4. PICK k \in 0 .. Credits : Transmit(pm, q, credits, k)
    BY <1>7 DEF Send, Dequeue, q, m
  <2> DEFINE n == tried'
  <2>5. credits \in 0 .. Credits
    BY DEF RelayInv, Books
  <2>6. n \in 0 .. MaxCalls /\ tried <= n /\ Numbered(q, n)
    BY <1>5, <2>3
  <2> HIDE DEF n
  <2>7. /\ Numbered(queue', n) /\ Numbered(air', MaxCalls)
        /\ Connected /\ peerUp => Numbered(air', n)
        /\ ~peerUp => air' = <<>>
        /\ peerUp => air' \o queue' = air \o q
    BY <2>2, <2>4, <2>5, <2>6, Moved
  <2>8. /\ Numbered(queue', tried') /\ Numbered(air', MaxCalls)
        /\ Connected /\ peerUp => Numbered(air', tried')
        /\ ~peerUp => air' = <<>>
        /\ peerUp => air' \o queue' = air \o q
    BY <2>7 DEF n
  <2>9. Numbers'
    BY <1>5, <1>1, <1>2, <1>3, <2>8, NumbersNext
  <2>10. CASE ~peerUp
    <3>1. UNCHANGED <<open, pipe, last>>
      BY <1>3, <2>10 DEF open, pipe, Connected
    <3>2. QED
      BY <2>9, <3>1, Stutter
  <2>11. CASE peerUp
    <3>1. pipe' = Append(pipe, tried')
      <4>1. air \o q = Append(air \o queue, m)
        <5>1. q = queue \o <<m>> /\ <<m>> \in Seq(Message)
          BY <1>4, <2>1, AppendIsConcat DEF q
        <5>2. air \o queue \in Seq(Message)
          BY <1>4, ConcatProperties
        <5>3. Append(air \o queue, m) = (air \o queue) \o <<m>>
          BY <2>1, <5>2, AppendIsConcat
        <5>4. QED
          BY <1>4, <5>1, <5>3, MessagesAssociate
      <4>2. Ids(Append(air \o queue, m)) = Append(Ids(air \o queue), m.id)
        BY <1>4, <2>1, IdsAppend, ConcatProperties
      <4>3. QED
        BY <1>3, <2>1, <2>8, <2>11, <4>1, <4>2 DEF pipe, Ids
    <3>2. tried' > last
      BY <1>1, <1>4, <2>11 DEF RelayInv, Others
    <3>3. \A j \in DOMAIN pipe : tried' > pipe[j]
      <4>1. Numbered(air \o queue, tried) /\ air \o queue \in Seq(Message)
        BY <1>1, <1>4, <2>11, NumberedLists, ConcatProperties DEF Numbers
      <4>2. /\ pipe \in Seq(Nat) /\ Len(pipe) = Len(air \o queue)
            /\ \A i \in 1 .. Len(air \o queue) : pipe[i] = (air \o queue)[i].id
        BY <2>11, <4>1, IdsFacts DEF pipe
      <4>3. \A i \in 1 .. Len(pipe) : pipe[i] \in 1 .. tried
        BY <4>1, <4>2 DEF Numbered
      <4>4. QED
        BY <1>1, <4>2, <4>3, LenProperties
    <3>4. open /\ open' /\ last' = last
      BY <1>1, <1>3, <2>11 DEF open, Connected
    <3>5. L!Accept
      BY <1>1, <3>1, <3>2, <3>3, <3>4 DEF L!Accept, open, pipe
    <3>6. QED
      BY <2>9, <3>5 DEF Implements, L!Next
  <2>12. QED
    BY <2>10, <2>11
<1>8. QED
    BY <1>6, <1>7

\* An answer of L2CAP, the timer, or the end of sniff mode: messages move along.
LEMMA MovingImplements ==
    ASSUME RelayInv, Numbers, Next, DataRsp \/ Retrans \/ SniffExited \/ SniffEnterFailed
    PROVE  Implements
<1>1. credits \in 0 .. Credits /\ Credited(credits) \in 0 .. Credits
    BY RelayAssumption DEF RelayInv, Books, Credited
<1>2. CASE DataRsp
  <2>1. PICK k \in 0 .. Credits : Transmit(pm, queue, Credited(credits), k)
    BY <1>2 DEF DataRsp, Dequeue
  <2>2. UNCHANGED <<session, count, peer>>
    BY <1>2 DEF DataRsp
  <2>3. QED
    BY <1>1, <2>1, <2>2, MovesAlong, Stutter
<1>3. CASE Retrans
  <2>1. PICK k \in 0 .. Credits : Transmit(pm, queue, credits, k)
    BY <1>3 DEF Retrans
  <2>2. UNCHANGED <<session, count, peer>>
    BY <1>3 DEF Retrans
  <2>3. QED
    BY <1>1, <2>1, <2>2, MovesAlong, Stutter
<1>4. ASSUME NEW l, Resume(l), UNCHANGED <<session, count, peer>>
      PROVE  Implements
  <2>1. PICK k \in 0 .. Credits : Transmit(l, queue, credits, k)
    BY <1>4 DEF Resume
  <2>2. QED
    BY <1>1, <1>4, <2>1, MovesAlong, Stutter
<1>5. CASE SniffExited
    BY <1>4, <1>5 DEF SniffExited
<1>6. CASE SniffEnterFailed
  <2>1. UNCHANGED <<session, count, peer>>
    BY <1>6 DEF SniffEnterFailed
  <2>2. CASE pm.state = "sniffPending"
    BY <1>4, <1>6, <2>1, <2>2 DEF SniffEnterFailed
  <2>3. CASE pm.state # "sniffPending"
    BY <1>6, <2>1, <2>3, Idle DEF SniffEnterFailed, relay
  <2>4. QED
    BY <2>2, <2>3
<1>7. QED
    BY <1>2, <1>3, <1>5, <1>6

\* The peer takes a message for new, or for the one it has.
LEMMA ReceiveImplements ==
    ASSUME RelayInv, Numbers, Receive
    PROVE  Implements
<1> DEFINE m == Head(air)
<1>1. /\ peerUp /\ air # <<>> /\ air' = Tail(air)
      /\ UNCHANGED <<session, queue, tx_seq, tried, peerUp>>
      /\ IF m.seq = rx_seq THEN UNCHANGED <<rx_seq, last>>
         ELSE rx_seq' = m.seq /\ last' = m.id
    BY DEF Receive, count
<1>2. /\ air \in Seq(Message) /\ queue \in Seq(Message) /\ tried \in Nat /\ last \in Nat
      /\ MaxCalls \in Nat
    BY RelayAssumption DEF RelayInv, Books, Others
<1>3. Len(air) \in Nat \ {0} /\ 1 \in 1 .. Len(air) /\ m = air[1]
    BY <1>1, <1>2, EmptySeq
<1>4. m.seq = m.id % Width /\ m.id \in 1 .. MaxCalls
    BY <1>3 DEF Numbers, Numbered
<1>5. Connected => m.id \in 1 .. tried
    BY <1>1, <1>3 DEF Numbers, Numbered
<1>6. Tail(air) = SubSeq(air, 2, Len(air)) /\ 2 \in 1 .. Len(air) + 1 /\ Len(air) \in 0 .. Len(air)
    BY <1>1, <1>2, <1>3
<1> HIDE DEF m
<1>7. Tail(air) \in Seq(Message) /\ Numbered(Tail(air), MaxCalls)
    BY <1>2, <1>6, NumberedPart DEF Numbers
<1>8. Connected => Numbered(Tail(air), tried)
    BY <1>1, <1>2, <1>6, NumberedPart DEF Numbers
<1>9. rx_seq' = last' % Width
    BY <1>1, <1>4 DEF Numbers
<1>10. Connected => last' <= tried
    BY <1>1, <1>2, <1>5 DEF Numbers
<1>11. Numbers'
  <2>1. peerUp' /\ Connected' = Connected
    BY <1>1 DEF Connected
  <2>2. Numbered(queue, tried) /\ tx_seq = tried % Width
    BY DEF Numbers
  <2>3. QED
    BY <1>1, <1>7, <1>8, <1>9, <1>10, <2>1, <2>2 DEF Numbers, Numbered
<1>12. /\ pipe # <<>> /\ Head(pipe) = m.id /\ pipe' = Tail(pipe) /\ open' = open
  <2> DEFINE w == air \o queue
  <2>1. w \in Seq(Message) /\ w # <<>> /\ Head(w) = m /\ Tail(w) = Tail(air) \o queue
    <3>1. air = <<m>> \o Tail(air) /\ <<m>> \in Seq(Message)
      <4>1. air \in Seq(Message) /\ air # <<>>
        BY <1>1, <1>2
      <4>2. Head(air) \in Message /\ air = <<Head(air)>> \o Tail(air)
        BY <4>1, HeadTailProperties
      <4>3. QED
        BY <4>2 DEF m
    <3>2. w \in Seq(Message) /\ w = <<m>> \o (Tail(air) \o queue) /\ Tail(air) \o queue \in Seq(Message)
      <4>1. (<<m>> \o Tail(air)) \o queue = <<m>> \o (Tail(air) \o queue)
        BY <1>2, <1>7, <3>1, MessagesAssociate
      <4>2. QED
        BY <1>2, <1>7, <3>1, <4>1, ConcatProperties
    <3> HIDE DEF w
    <3> DEFINE z == Tail(air) \o queue
    <3>3. z \in Seq(Message) /\ w = <<m>> \o z /\ m \in Message
      BY <3>1, <3>2, ElementOfSeq
    <3> HIDE DEF z
    <3>4. w # <<>> /\ Head(w) = m /\ Tail(w) = z
      BY <3>3, HeadFirst
    <3>5. QED
      BY <3>2, <3>4 DEF z
  <2> HIDE DEF w
  <2>2. Ids(w) # <<>> /\ Head(Ids(w)) = m.id /\ Tail(Ids(w)) = Ids(Tail(w))
    BY <2>1, IdsFacts, IdsTail
  <2>3. pipe = Ids(w) /\ pipe' = Ids(Tail(w))
    BY <1>1, <2>1 DEF pipe, w, Ids
  <2>4. QED
    BY <1>1, <2>2, <2>3 DEF open, Connected
<1>13. CASE m.seq = rx_seq
  <2>1. L!Mistake
    BY <1>1, <1>4, <1>12, <1>13 DEF L!Mistake, L!Duplicate, open, pipe, Numbers
  <2>2. QED
    BY <1>11, <2>1 DEF Implements, L!Next
<1>14. CASE m.seq # rx_seq
  <2>1. L!Deliver
    BY <1>1, <1>4, <1>12, <1>14 DEF L!Deliver, L!Duplicate, open, pipe, Numbers
  <2>2. QED
    BY <1>11, <2>1 DEF Implements, L!Next
<1>15. QED
    BY <1>13, <1>14

-----------------------------------------------------------------------------
(* The session *)

LEMMA SessionImplements ==
    ASSUME RelayInv, Numbers,
           PeerDisconnected \/ Connect \/ ConnFail \/ ConnCmpl \/ Close \/ Clear
    PROVE  Implements
<1> USE RelayAssumption
<1>1. 0 % Width = 0 /\ Numbered(<<>>, tried) /\ Numbered(<<>>, MaxCalls) /\ Numbered(<<>>, 0)
    BY DEF Numbered
<1>2. air \in Seq(Message) /\ queue \in Seq(Message) /\ tried \in Nat
    BY DEF RelayInv, Books, Others
<1>3. CASE PeerDisconnected
  <2>1. UNCHANGED <<session, queue, tx_seq, tried>>
    BY <1>3 DEF PeerDisconnected, count
  <2>2. peerUp' = FALSE /\ air' = <<>> /\ last' = 0 /\ rx_seq' = 0
    BY <1>3 DEF PeerDisconnected, Forget
  <2>3. Numbers'
    BY <1>1, <2>1, <2>2 DEF Numbers, Numbered
  <2>4. L!ReceiverClose
    BY <2>2 DEF L!ReceiverClose, open, pipe
  <2>5. QED
    BY <2>3, <2>4 DEF Implements, L!Next
<1>4. CASE Connect \/ ConnFail \/ Close
  <2>1. /\ UNCHANGED <<relay, count, peer>> /\ Connected' = Connected
    BY <1>4 DEF Connect, ConnFail, Close, Connected
  <2>2. UNCHANGED <<queue, air, tx_seq, tried, peerUp, rx_seq, last>>
    BY <2>1 DEF relay, count, peer
  <2>3. Numbers'
    BY <2>1, <2>2 DEF Numbers, Numbered
  <2>4. UNCHANGED <<open, pipe, last>>
    BY <2>1, <2>2 DEF open, pipe
  <2>5. QED
    BY <2>3, <2>4, Stutter
<1>5. CASE ConnCmpl
  <2>1. /\ ~peerUp /\ ~Connected /\ peerUp' = TRUE /\ Connected'
        /\ UNCHANGED <<queue, air, tx_seq, tried, rx_seq, last>>
    BY <1>5 DEF ConnCmpl, Connected, count
  <2>2. queue = <<>> /\ air = <<>> /\ last = 0
    BY <2>1 DEF RelayInv, Books, Numbers
  <2>3. Numbers'
    BY <1>1, <1>2, <2>1, <2>2 DEF Numbers, Numbered
  <2>4. ~open /\ open' = TRUE /\ pipe = <<>> /\ pipe' = <<>>
    <3>1. <<>> \in Seq(Message) /\ <<>> \o <<>> = <<>>
      BY EmptySeq, ConcatEmptySeq
    <3>2. Ids(<<>> \o <<>>) = <<>>
      BY <3>1, IdsFacts
    <3>3. QED
      BY <2>1, <2>2, <3>2 DEF open, pipe
  <2>5. L!Open
    BY <2>1, <2>2, <2>4 DEF L!Open, open, pipe
  <2>6. QED
    BY <2>3, <2>5 DEF Implements, L!Next
<1>6. CASE Clear
  <2>1. /\ Connected /\ ~Connected' /\ queue' = <<>> /\ tx_seq' = 0 /\ tried' = 0
        /\ UNCHANGED <<air, peerUp, rx_seq, last>>
    BY <1>6 DEF Clear, Connected, peer
  <2>2. Numbers'
    BY <1>1, <2>1 DEF Numbers, Numbered
  <2>3. CASE peerUp
    <3>1. pipe = Ids(air \o queue) /\ pipe' = Ids(air)
      <4>1. air \o <<>> = air
        BY <1>2, ConcatEmptySeq
      <4>2. QED
        BY <2>1, <2>3, <4>1 DEF pipe, Ids
    <3>2. pipe' = SubSeq(pipe, 1, Len(air)) /\ Len(air) \in 0 .. Len(pipe)
      BY <1>2, <3>1, IdsPart
    <3>3. open /\ ~open' /\ last' = last
      BY <2>1, <2>3 DEF open
    <3>4. open' = FALSE
      BY <2>1 DEF open
    <3>5. L!SenderClose
      BY <3>2, <3>3, <3>4 DEF L!SenderClose, open, pipe
    <3>6. QED
      BY <2>2, <3>5 DEF Implements, L!Next
  <2>4. CASE ~peerUp
    <3>1. UNCHANGED <<open, pipe, last>>
      BY <2>1, <2>4 DEF open, pipe
    <3>2. QED
      BY <2>2, <3>1, Stutter
  <2>5. QED
    BY <2>3, <2>4
<1>7. QED
    BY <1>3, <1>4, <1>5, <1>6

-----------------------------------------------------------------------------
(* The theorem *)

LEMMA StepImplements ==
    ASSUME RelayInv, Numbers, [Next]_vars
    PROVE  Implements
<1>1. CASE Send \/ SendRefused
    BY <1>1, SendImplements
<1>2. CASE DataRsp \/ Retrans \/ SniffExited \/ SniffEnterFailed
    BY <1>2, MovingImplements DEF Next, Host
<1>3. CASE Receive
    BY <1>3, ReceiveImplements
<1>4. CASE PeerDisconnected \/ Connect \/ ConnFail \/ ConnCmpl \/ Close \/ Disconnected \/ LinkLost
    BY <1>4, SessionImplements DEF Disconnected, LinkLost
<1>5. CASE SniffEntered \/ SniffExitFailed
  <2>1. UNCHANGED <<session, relay, count, peer>>
    BY <1>5 DEF SniffEntered, SniffExitFailed
  <2>2. QED
    BY <2>1, Idle DEF relay
<1>6. CASE IdleTimeout \/ HidConnected \/ ProfileExit \/ SniffDisable \/ SniffEnable
  <2>1. UNCHANGED <<session, relay, count, peer>>
    BY <1>6 DEF IdleTimeout, HidConnected, ProfileExit, SniffDisable, SniffEnable, pmOnly
  <2>2. QED
    BY <2>1, Idle DEF relay
<1>7. CASE EnterDone \/ ExitDone \/ EnterRefused \/ ExitRefused \/ PeerSniffs \/ PeerWakes
  <2>1. UNCHANGED <<session, relay, count, peer>>
    BY <1>7 DEF EnterDone, ExitDone, EnterRefused, ExitRefused, PeerSniffs, PeerWakes, Report
  <2>2. QED
    BY <2>1, Idle DEF relay
<1>8. CASE UNCHANGED vars
    BY <1>8, Idle DEF vars, relay
<1>9. QED
    BY <1>1, <1>2, <1>3, <1>4, <1>5, <1>6, <1>7, <1>8 DEF Next, Host

\* The relay keeps the promise of RelayLink: the messages of a session come out
\* in order and at most once, and one is lost only with the session, or when
\* its sequence number is again the one received last (remote_relay_data_ind).
THEOREM RelayRefines == Spec => ImplementsRelayLink
<1>1. Init => Numbers
    BY RelayAssumption DEF Init, Numbers, Numbered, Connected
<1>2. Init => L!Init
    BY DEF Init, L!Init, Connected
<1>3. RelayInv /\ Numbers /\ [Next]_vars => Numbers'
    BY StepImplements DEF Implements
<1>4. RelayInv /\ Numbers /\ [Next]_vars => [L!Next]_L!vars
    BY StepImplements DEF Implements
<1>5. Spec => []RelayInv
    BY RelaySafe
<1>6. QED
    BY <1>1, <1>2, <1>3, <1>4, <1>5, PTL DEF Spec, ImplementsRelayLink, L!Spec
=============================================================================

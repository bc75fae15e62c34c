----------------------------- MODULE ListFacts -----------------------------
(***************************************************************************)
(* The intrusive lists of the firmware (inc/rtl87x3e/os/os_queue.h) hold   *)
(* each element at most once.  What removing the head, appending and       *)
(* joining do to the members of such a list; the proofs of the modules     *)
(* that keep such lists cite these facts.                                  *)
(***************************************************************************)
EXTENDS Naturals, Sequences, SequencesExt, TLAPS

\* What taking the head of a list does to its members (os_queue_out).
LEMMA TakeHead ==
    ASSUME NEW S, NEW s \in Seq(S), s # <<>>
    PROVE  /\ Head(s) \in S /\ Tail(s) \in Seq(S)
           /\ \A r : Contains(s, r) <=> r = Head(s) \/ Contains(Tail(s), r)
           /\ IsInjective(s) => IsInjective(Tail(s)) /\ ~Contains(Tail(s), Head(s))
<1>1. /\ Len(s) \in Nat \ {0} /\ Head(s) = s[1] /\ Head(s) \in S
      /\ Tail(s) \in Seq(S) /\ Len(Tail(s)) = Len(s) - 1
      /\ \A i \in 1..Len(Tail(s)) : Tail(s)[i] = s[i + 1]
    OBVIOUS
<1>2. ASSUME NEW r
      PROVE  Contains(s, r) <=> r = Head(s) \/ Contains(Tail(s), r)
  <2>1. ASSUME Contains(s, r), r # Head(s) PROVE Contains(Tail(s), r)
    <3>1. PICK i \in 1..Len(s) : s[i] = r
      BY <2>1 DEF Contains
    <3>2. i - 1 \in 1..Len(Tail(s)) /\ Tail(s)[i - 1] = r
      BY <1>1, <2>1, <3>1
    <3>3. QED
      BY <3>2 DEF Contains
  <2>2. ASSUME Contains(Tail(s), r) PROVE Contains(s, r)
    <3>1. PICK i \in 1..Len(Tail(s)) : Tail(s)[i] = r
      BY <2>2 DEF Contains
    <3>2. i + 1 \in 1..Len(s) /\ s[i + 1] = r
      BY <1>1, <3>1
    <3>3. QED
      BY <3>2 DEF Contains
  <2>3. Contains(s, Head(s))
    BY <1>1 DEF Contains
  <2>4. QED
    BY <2>1, <2>2, <2>3
<1>3. ASSUME IsInjective(s) PROVE IsInjective(Tail(s)) /\ ~Contains(Tail(s), Head(s))
    BY <1>1, <1>3 DEF IsInjective, Contains
<1>4. QED
    BY <1>1, <1>2, <1>3

\* What joining two lists does (os_queue_in, once or in a loop).
LEMMA JoinLists ==
    ASSUME NEW S, NEW s \in Seq(S), NEW t \in Seq(S)
    PROVE  /\ s \o t \in Seq(S)
           /\ \A r : Contains(s \o t, r) <=> Contains(s, r) \/ Contains(t, r)
           /\ IsInjective(s) /\ IsInjective(t) /\ (\A r \in S : ~(Contains(s, r) /\ Contains(t, r)))
                 => IsInjective(s \o t)
<1>1. /\ s \o t \in Seq(S) /\ Len(s) \in Nat /\ Len(t) \in Nat
      /\ Len(s \o t) = Len(s) + Len(t)
      /\ \A i \in 1..Len(s) : (s \o t)[i] = s[i] /\ s[i] \in S
      /\ \A i \in 1..Len(t) : (s \o t)[Len(s) + i] = t[i] /\ t[i] \in S
    OBVIOUS
<1>2. \A i \in 1..Len(s \o t) : i \notin 1..Len(s) =>
         i - Len(s) \in 1..Len(t) /\ (s \o t)[i] = t[i - Len(s)]
    BY <1>1
<1>3. ASSUME NEW r
      PROVE  Contains(s \o t, r) <=> Contains(s, r) \/ Contains(t, r)
  <2>1. ASSUME Contains(s \o t, r) PROVE Contains(s, r) \/ Contains(t, r)
    BY <1>1, <1>2, <2>1 DEF Contains
  <2>2. ASSUME Contains(s, r) PROVE Contains(s \o t, r)
    BY <1>1, <2>2 DEF Contains
  <2>3. ASSUME Contains(t, r) PROVE Contains(s \o t, r)
    <3>1. PICK i \in 1..Len(t) : t[i] = r
      BY <2>3 DEF Contains
    <3>2. Len(s) + i \in 1..Len(s \o t) /\ (s \o t)[Len(s) + i] = r
      BY <1>1, <3>1
    <3>3. QED
      BY <3>2 DEF Contains
  <2>4. QED
    BY <2>1, <2>2, <2>3
<1>4. ASSUME IsInjective(s), IsInjective(t), \A r \in S : ~(Contains(s, r) /\ Contains(t, r))
      PROVE  IsInjective(s \o t)
  <2> SUFFICES ASSUME NEW i \in 1..Len(s \o t), NEW j \in 1..Len(s \o t),
                      (s \o t)[i] = (s \o t)[j]
               PROVE  i = j
    BY DEF IsInjective
  <2>1. CASE i \in 1..Len(s) /\ j \in 1..Len(s)
    BY <1>1, <1>4, <2>1 DEF IsInjective
  <2>2. CASE i \notin 1..Len(s) /\ j \notin 1..Len(s)
    <3>1. i - Len(s) = j - Len(s)
      BY <1>2, <1>4, <2>2 DEF IsInjective
    <3>2. QED
      BY <3>1, <1>1
  <2>3. CASE i \in 1..Len(s) /\ j \notin 1..Len(s)
    BY <1>1, <1>2, <1>4, <2>3 DEF Contains
  <2>4. CASE i \notin 1..Len(s) /\ j \in 1..Len(s)
    <3>1. /\ i - Len(s) \in 1..Len(t) /\ t[i - Len(s)] = s[j] /\ s[j] \in S
      BY <1>1, <1>2, <2>4
    <3>2. Contains(s, s[j]) /\ Contains(t, s[j])
      BY <2>4, <3>1 DEF Contains
    <3>3. QED
      BY <1>4, <3>1, <3>2
  <2>5. QED
    BY <2>1, <2>2, <2>3, <2>4
<1>5. QED
    BY <1>1, <1>3, <1>4

\* Appending one request.
LEMMA PutTail ==
    ASSUME NEW S, NEW s \in Seq(S), NEW e \in S
    PROVE  /\ Append(s, e) \in Seq(S) /\ Append(s, e) # <<>>
           /\ \A r : Contains(Append(s, e), r) <=> Contains(s, r) \/ r = e
           /\ IsInjective(s) /\ ~Contains(s, e) => IsInjective(Append(s, e))
<1>1. /\ Append(s, e) \in Seq(S) /\ Len(s) \in Nat
      /\ Len(Append(s, e)) = Len(s) + 1
      /\ \A i \in 1..Len(s) : Append(s, e)[i] = s[i]
      /\ Append(s, e)[Len(s) + 1] = e
      /\ Append(s, e) # <<>>
    OBVIOUS
<1>2. \A i \in 1..(Len(s) + 1) : i \in 1..Len(s) \/ i = Len(s) + 1
    BY <1>1
<1>3. ASSUME NEW r PROVE Contains(Append(s, e), r) <=> Contains(s, r) \/ r = e
  <2>1. Contains(s, r) => Contains(Append(s, e), r)
    BY <1>1 DEF Contains
  <2>2. Contains(Append(s, e), e)
    BY <1>1 DEF Contains
  <2>3. Contains(Append(s, e), r) => Contains(s, r) \/ r = e
    BY <1>1, <1>2 DEF Contains
  <2>4. QED
    BY <2>1, <2>2, <2>3
<1>4. IsInjective(s) /\ ~Contains(s, e) => IsInjective(Append(s, e))
    BY <1>1, <1>2 DEF IsInjective, Contains
<1>5. QED
    BY <1>1, <1>3, <1>4
=============================================================================

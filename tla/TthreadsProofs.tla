---------------------------- MODULE TthreadsProofs ----------------------------
(***************************************************************************)
(* Theorems about what the programs of tthreads.cpp run: the blocking      *)
(* queue of test2() and test3(), for any threads, filters, elements and    *)
(* limit, and test4(), for any workers, frames, period and limit.          *)
(***************************************************************************)
EXTENDS ThreadQueue, TrackPipeline, FiniteSetTheorems, TLAPS

-----------------------------------------------------------------------------
(***************************************************************************)
(* Facts about the operators                                               *)
(***************************************************************************)
\* The elements of a concatenation.
LEMMA ConcatFacts ==
    ASSUME NEW S, NEW a \in Seq(S), NEW b \in Seq(S)
    PROVE  /\ a \o b \in Seq(S)
           /\ Len(a \o b) = Len(a) + Len(b)
           /\ \A k \in 1 .. Len(a) + Len(b) :
                (a \o b)[k] = IF k <= Len(a) THEN a[k] ELSE b[k - Len(a)]
OBVIOUS

\* Erasing position i of a deque keeps the elements before it where they are
\* and moves those behind it one place to the front.
LEMMA RemoveAtFacts ==
    ASSUME NEW S, NEW s \in Seq(S), NEW i \in 1 .. Len(s)
    PROVE  /\ RemoveAt(s, i) \in Seq(S)
           /\ Len(RemoveAt(s, i)) = Len(s) - 1
           /\ \A k \in 1 .. Len(s) - 1 :
                RemoveAt(s, i)[k] = IF k < i THEN s[k] ELSE s[k + 1]
<1>1. PICK a \in Seq(S) :
        /\ a = SubSeq(s, 1, i - 1)
        /\ Len(a) = i - 1
        /\ \A k \in 1 .. i - 1 : a[k] = s[k]
  <2>1. /\ SubSeq(s, 1, i - 1) \in Seq(S)
        /\ Len(SubSeq(s, 1, i - 1)) = i - 1
        /\ \A k \in 1 .. i - 1 : SubSeq(s, 1, i - 1)[k] = s[k]
    OBVIOUS
  <2> QED BY <2>1, Zenon
<1>2. PICK b \in Seq(S) :
        /\ b = SubSeq(s, i + 1, Len(s))
        /\ Len(b) = Len(s) - i
        /\ \A k \in 1 .. Len(s) - i : b[k] = s[i + k]
  <2>1. /\ SubSeq(s, i + 1, Len(s)) \in Seq(S)
        /\ Len(SubSeq(s, i + 1, Len(s))) = Len(s) - i
        /\ \A k \in 1 .. Len(s) - i : SubSeq(s, i + 1, Len(s))[k] = s[i + k]
    OBVIOUS
  <2> QED BY <2>1, Zenon
<1>3. RemoveAt(s, i) = a \o b
  BY <1>1, <1>2 DEF RemoveAt
<1>4. Len(s) \in Nat /\ Len(a) + Len(b) = Len(s) - 1
  <2>1. Len(s) \in Nat /\ i \in Int
    OBVIOUS
  <2>2. Len(a) = i - 1 /\ Len(b) = Len(s) - i
    BY <1>1, <1>2
  <2> QED BY ONLY <2>1, <2>2
<1>5. /\ a \o b \in Seq(S)
      /\ Len(a \o b) = Len(s) - 1
      /\ \A k \in 1 .. Len(s) - 1 :
            (a \o b)[k] = IF k <= Len(a) THEN a[k] ELSE b[k - Len(a)]
  <2>1. /\ a \o b \in Seq(S)
        /\ Len(a \o b) = Len(a) + Len(b)
        /\ \A k \in 1 .. Len(a) + Len(b) :
              (a \o b)[k] = IF k <= Len(a) THEN a[k] ELSE b[k - Len(a)]
    BY ConcatFacts, Zenon
  <2> QED BY ONLY <2>1, <1>4
<1>6. ASSUME NEW k \in 1 .. Len(s) - 1, k < i PROVE (a \o b)[k] = s[k]
  BY <1>1, <1>4, <1>5, <1>6
<1>7. ASSUME NEW k \in 1 .. Len(s) - 1, ~(k < i) PROVE (a \o b)[k] = s[k + 1]
  <2>1. k - Len(a) \in 1 .. Len(s) - i /\ ~(k <= Len(a)) /\ i + (k - Len(a)) = k + 1
    BY <1>1, <1>4, <1>7
  <2>2. (a \o b)[k] = b[k - Len(a)]
    BY <1>5, <2>1
  <2>3. b[k - Len(a)] = s[i + (k - Len(a))]
    BY <1>2, <2>1
  <2> QED BY <2>1, <2>2, <2>3
<1> QED BY <1>3, <1>5, <1>6, <1>7

\* What a putter puts is one of the elements.
LEMMA ObjIsItem ==
    ASSUME TypeOK, NEW p \in Putters, nput[p] < PutCount[p]
    PROVE  Obj(p) \in Item
<1>1. nput[p] + 1 \in 1 .. PutCount[p]
  BY ThreadQueueAssumption DEF TypeOK
<1>2. Obj(p) \in [from : {p}, no : 1 .. PutCount[p]]
  BY <1>1 DEF Obj
<1> QED BY <1>2 DEF Item

-----------------------------------------------------------------------------
(***************************************************************************)
(* Type correctness                                                        *)
(***************************************************************************)
\* The variables of the queue and of its threads have their types; what
\* get() copies is an element and what put() pushes is one.
THEOREM TypeCorrect == SafeSpec => []TypeOK
<1> USE ThreadQueueAssumption
<1>1. Init => TypeOK
  <2> SUFFICES ASSUME Init PROVE TypeOK
    OBVIOUS
  <2>1. <<>> \in Seq(Item)
    OBVIOUS
  <2>2. got \in [Getters -> Seq(Item)] /\ q \in Seq(Item)
    BY <2>1 DEF Init
  <2>3. nput \in [Putters -> Nat] /\ \A p \in Putters : nput[p] <= PutCount[p]
    BY DEF Init
  <2>4. arrived \in [Item -> Nat]
    BY DEF Init
  <2> QED BY <2>2, <2>3, <2>4 DEF Init, TypeOK
<1>2. TypeOK /\ [Next]_vars => TypeOK'
  <2> SUFFICES ASSUME TypeOK, [Next]_vars PROVE TypeOK'
    OBVIOUS
  <2>1. ASSUME NEW g \in Getters, GetTake(g) PROVE TypeOK'
    <3>1. PICK it \in DOMAIN q : StopsAt(g, it) /\ Copy(g, it) /\ q' = RemoveAt(q, it)
      BY <2>1 DEF GetTake
    <3>2. it \in 1 .. Len(q) /\ q[it] \in Item
      BY <3>1 DEF TypeOK
    <3>3. q' \in Seq(Item)
      BY <3>1, <3>2, RemoveAtFacts DEF TypeOK
    <3>4. got' \in [Getters -> Seq(Item)]
      BY <3>1, <3>2 DEF TypeOK, Copy
    <3>5. maxSize' \in Nat
      BY <2>1 DEF TypeOK, GetTake, Larger
    <3>6. cvNotfull' \subseteq Putters \ done'
      BY <2>1 DEF TypeOK, GetTake
    <3> QED BY <2>1, <3>3, <3>4, <3>5, <3>6 DEF TypeOK, GetTake, ghosts
  <2>2. ASSUME NEW g \in Getters, GetClosed(g) PROVE TypeOK'
    BY <2>2 DEF TypeOK, GetClosed, Larger, ghosts
  <2>3. ASSUME NEW g \in Getters, GetWait(g) PROVE TypeOK'
    BY <2>3 DEF TypeOK, GetWait, ghosts
  <2>4. ASSUME NEW p \in Putters, PutPush(p) PROVE TypeOK'
    <3>1. nput[p] < PutCount[p] /\ Obj(p) \in Item
      BY <2>4, ObjIsItem DEF PutPush, CanPut
    <3>2. q' \in Seq(Item) /\ Len(q') \in Nat
      BY <2>4, <3>1 DEF TypeOK, PutPush, Push
    <3>3. nput' \in [Putters -> Nat] /\ \A r \in Putters : nput'[r] <= PutCount[r]
      BY <2>4, <3>1 DEF TypeOK, PutPush, Push
    <3>4. arrived' \in [Item -> Nat] /\ count' \in Nat
      BY <2>4, <3>1 DEF TypeOK, PutPush, Push
    <3>5. peak' \in Nat
      BY <2>4, <3>2 DEF TypeOK, PutPush, Push, Larger
    <3>6. \A r \in cvNotfull' : nput'[r] < PutCount[r]
      BY <2>4 DEF TypeOK, PutPush, Push, CanPut
    <3> QED BY <2>4, <3>2, <3>3, <3>4, <3>5, <3>6 DEF TypeOK, PutPush
  <2>5. ASSUME NEW p \in Putters, PutRefuse(p) PROVE TypeOK'
    <3>1. nput' \in [Putters -> Nat] /\ \A r \in Putters : nput'[r] <= PutCount[r]
      BY <2>5 DEF TypeOK, PutRefuse, CanPut
    <3>2. \A r \in cvNotfull' : nput'[r] < PutCount[r]
      BY <2>5 DEF TypeOK, PutRefuse, CanPut
    <3> QED BY <2>5, <3>1, <3>2 DEF TypeOK, PutRefuse, ghosts
  <2>6. ASSUME NEW p \in Putters, PutWait(p) PROVE TypeOK'
    BY <2>6 DEF TypeOK, PutWait, CanPut, ghosts
  <2>7. ASSUME NEW p \in Putters, Close(p) PROVE TypeOK'
    <3>1. p \notin cvNotfull
      BY <2>7 DEF TypeOK, Close
    <3> QED BY <2>7, <3>1 DEF TypeOK, Close, ghosts
  <2>8. ASSUME NEW p \in Putters, Return(p) PROVE TypeOK'
    <3>1. p \notin cvNotfull
      BY <2>8 DEF TypeOK, Return
    <3> QED BY <2>8, <3>1 DEF TypeOK, Return, ghosts
  <2>9. ASSUME NEW t \in Getters \cup Putters, SpuriousWakeup(t) PROVE TypeOK'
    BY <2>9 DEF TypeOK, SpuriousWakeup, ghosts
  <2>10. CASE UNCHANGED vars
    BY <2>10 DEF TypeOK, vars
  <2> QED
    BY <2>1, <2>2, <2>3, <2>4, <2>5, <2>6, <2>7, <2>8, <2>9, <2>10 DEF Next, Get, Put
<1> QED BY <1>1, <1>2, PTL DEF SafeSpec

\* What get() leaves in the deque was in it before, one element less.
LEMMA TakeFacts ==
    ASSUME TypeOK, NEW g \in Getters, GetTake(g)
    PROVE  \E it \in 1 .. Len(q) :
              /\ StopsAt(g, it)
              /\ got' = [got EXCEPT ![g] = Append(@, q[it])]
              /\ q' = RemoveAt(q, it)
              /\ Len(q') = Len(q) - 1
              /\ \A k \in 1 .. Len(q) - 1 : q'[k] = IF k < it THEN q[k] ELSE q[k + 1]
<1>1. PICK it \in DOMAIN q : StopsAt(g, it) /\ Copy(g, it) /\ q' = RemoveAt(q, it)
  BY DEF GetTake
<1>2. it \in 1 .. Len(q) /\ q \in Seq(Item)
  BY <1>1 DEF TypeOK
<1>3. /\ Len(q') = Len(q) - 1
      /\ \A k \in 1 .. Len(q) - 1 : q'[k] = IF k < it THEN q[k] ELSE q[k + 1]
  BY <1>1, <1>2, RemoveAtFacts
<1> QED BY <1>1, <1>2, <1>3 DEF Copy

-----------------------------------------------------------------------------
(***************************************************************************)
(* No lost wake-up                                                         *)
(***************************************************************************)
\* No schedule of put(), get(), close() and spurious wake-ups leaves a getter
\* asleep with an element its filter accepts in the queue, or in a closed
\* queue, or a putter asleep with room in the queue.
THEOREM NoWakeupIsLost == SafeSpec => []NoLostWakeup
<1> USE ThreadQueueAssumption
<1>1. Init => NoLostWakeup
  BY DEF Init, NoLostWakeup
<1>2. TypeOK /\ NoLostWakeup /\ [Next]_vars => NoLostWakeup'
  <2> SUFFICES ASSUME TypeOK, NoLostWakeup, [Next]_vars PROVE NoLostWakeup'
    OBVIOUS
  <2>1. ASSUME NEW g \in Getters, GetTake(g) PROVE NoLostWakeup'
    <3>1. PICK it \in 1 .. Len(q) :
            /\ StopsAt(g, it)
            /\ Len(q') = Len(q) - 1
            /\ \A k \in 1 .. Len(q) - 1 : q'[k] = IF k < it THEN q[k] ELSE q[k + 1]
      BY <2>1, TakeFacts
    <3>2. DOMAIN q = 1 .. Len(q) /\ DOMAIN q' = 1 .. Len(q) - 1 /\ Len(q) \in Nat
      <4>1. q' \in Seq(Item)
        BY <2>1, RemoveAtFacts DEF TypeOK, GetTake
      <4> QED BY <3>1, <4>1 DEF TypeOK
    <3>3. ASSUME NEW h \in cv' PROVE Matches(h)' = {} /\ ~closed'
      <4>1. h \in cv /\ closed' = closed
        BY <2>1, <3>3 DEF GetTake
      <4>2. \A k \in 1 .. Len(q) : q[k] \notin Accepts[h]
        BY <4>1, <3>2 DEF NoLostWakeup, Matches
      <4>3. ASSUME NEW k \in 1 .. Len(q) - 1 PROVE q'[k] \notin Accepts[h]
        <5>1. k \in 1 .. Len(q) /\ k + 1 \in 1 .. Len(q)
          BY <3>2
        <5>2. q'[k] = IF k < it THEN q[k] ELSE q[k + 1]
          BY <3>1
        <5> QED BY <4>2, <5>1, <5>2
      <4> QED BY <3>2, <4>1, <4>3 DEF NoLostWakeup, Matches
    <3>4. cvNotfull' # {} => Full(q')
      BY <2>1 DEF GetTake
    <3> QED BY <3>3, <3>4 DEF NoLostWakeup, Full
  <2>2. ASSUME NEW g \in Getters, GetClosed(g) PROVE NoLostWakeup'
    BY <2>2 DEF NoLostWakeup, GetClosed, Matches, Full
  <2>3. ASSUME NEW g \in Getters, GetWait(g) PROVE NoLostWakeup'
    BY <2>3 DEF NoLostWakeup, GetWait, Matches, Full
  <2>4. ASSUME NEW p \in Putters, PutPush(p) PROVE NoLostWakeup'
    BY <2>4 DEF NoLostWakeup, PutPush
  <2>5. ASSUME NEW p \in Putters, PutRefuse(p) PROVE NoLostWakeup'
    BY <2>5 DEF NoLostWakeup, PutRefuse, Matches, Full
  <2>6. ASSUME NEW p \in Putters, PutWait(p) PROVE NoLostWakeup'
    BY <2>6 DEF NoLostWakeup, PutWait, Matches, Full
  <2>7. ASSUME NEW p \in Putters, Close(p) PROVE NoLostWakeup'
    BY <2>7 DEF NoLostWakeup, Close, Full
  <2>8. ASSUME NEW p \in Putters, Return(p) PROVE NoLostWakeup'
    BY <2>8 DEF NoLostWakeup, Return, Matches, Full
  <2>9. ASSUME NEW t \in Getters \cup Putters, SpuriousWakeup(t) PROVE NoLostWakeup'
    BY <2>9 DEF NoLostWakeup, SpuriousWakeup, Matches, Full
  <2>10. CASE UNCHANGED vars
    BY <2>10 DEF NoLostWakeup, vars, Matches, Full
  <2> QED
    BY <2>1, <2>2, <2>3, <2>4, <2>5, <2>6, <2>7, <2>8, <2>9, <2>10 DEF Next, Get, Put
<1> QED BY <1>1, <1>2, TypeCorrect, PTL DEF SafeSpec

-----------------------------------------------------------------------------
(***************************************************************************)
(* Order of arrival                                                        *)
(***************************************************************************)
\* Arrival numbers are given out one after the other, to the elements that
\* have been put and to no other.
ArrivalNumbers ==
    \A x \in Item : arrived[x] <= count /\ (arrived[x] > 0 => x.no <= nput[x.from])

\* The queue is in the order of arrival.
QueueInOrder ==
    /\ \A i \in 1 .. Len(q) : arrived[q[i]] > 0
    /\ \A i, j \in 1 .. Len(q) : i < j => arrived[q[i]] < arrived[q[j]]

\* What a getter has, it accepts, and it has it in the order of arrival.
GotInOrder ==
    \A g \in Getters :
        /\ \A i \in 1 .. Len(got[g]) : got[g][i] \in Accepts[g] /\ arrived[got[g][i]] > 0
        /\ \A i, j \in 1 .. Len(got[g]) : i < j => arrived[got[g][i]] < arrived[got[g][j]]

\* What a getter has arrived before all it would accept that is queued.
GotFirst ==
    \A g \in Getters : \A i \in 1 .. Len(got[g]), j \in 1 .. Len(q) :
        q[j] \in Accepts[g] => arrived[got[g][i]] < arrived[q[j]]

\* No two getters have the same element.
GotByOne ==
    \A g, h \in Getters : g # h =>
        \A i \in 1 .. Len(got[g]), j \in 1 .. Len(got[h]) : got[g][i] # got[h][j]

\* An element that has arrived is queued or has been received.
NothingLost ==
    \A x \in Item : arrived[x] > 0 =>
        \/ \E j \in 1 .. Len(q) : q[j] = x
        \/ \E g \in Getters : \E i \in 1 .. Len(got[g]) : got[g][i] = x

\* Arrival numbers, the deque and what was received tell the same story.
OrderInv ==
    /\ ArrivalNumbers
    /\ QueueInOrder
    /\ GotInOrder
    /\ GotFirst
    /\ GotByOne
    /\ NothingLost

\* The position an element at position k had before position it was erased.
Before(k, it) == IF k < it THEN k ELSE k + 1

\* get() moves the elements behind the erased one forward and no other.
LEMMA TakeShifts ==
    ASSUME TypeOK, NEW g \in Getters, GetTake(g)
    PROVE  \E it \in 1 .. Len(q) :
              /\ q[it] \in Item
              /\ q[it] \in Accepts[g]
              /\ \A j \in 1 .. Len(q) : q[j] \in Accepts[g] => it <= j
              /\ got' = [got EXCEPT ![g] = Append(@, q[it])]
              /\ q' \in Seq(Item)
              /\ \A k \in 1 .. Len(q') :
                    Before(k, it) \in 1 .. Len(q) \ {it} /\ q'[k] = q[Before(k, it)]
              /\ \A k, l \in 1 .. Len(q') : k < l => Before(k, it) < Before(l, it)
              /\ \A m \in 1 .. Len(q) : m # it => \E k \in 1 .. Len(q') : Before(k, it) = m
<1>1. PICK it \in 1 .. Len(q) :
        /\ StopsAt(g, it)
        /\ got' = [got EXCEPT ![g] = Append(@, q[it])]
        /\ q' = RemoveAt(q, it)
        /\ Len(q') = Len(q) - 1
        /\ \A k \in 1 .. Len(q) - 1 : q'[k] = IF k < it THEN q[k] ELSE q[k + 1]
  BY TakeFacts
<1>2. Len(q) \in Nat /\ it \in Nat /\ 1 <= it /\ it <= Len(q) /\ DOMAIN q = 1 .. Len(q)
  BY DEF TypeOK
<1>3. q[it] \in Item
  BY <1>2 DEF TypeOK
<1>4. q[it] \in Accepts[g] /\ \A j \in 1 .. Len(q) : q[j] \in Accepts[g] => it <= j
  BY <1>1, <1>2 DEF StopsAt, Matches
<1>5. q' \in Seq(Item)
  BY <1>1, RemoveAtFacts DEF TypeOK
<1>6. ASSUME NEW k \in 1 .. Len(q')
      PROVE  Before(k, it) \in 1 .. Len(q) \ {it} /\ q'[k] = q[Before(k, it)]
  <2>1. k \in 1 .. Len(q) - 1
    BY <1>1
  <2>2. q'[k] = IF k < it THEN q[k] ELSE q[k + 1]
    BY <1>1, <2>1
  <2> QED BY <1>2, <2>1, <2>2 DEF Before
<1>7. \A k, l \in 1 .. Len(q') : k < l => Before(k, it) < Before(l, it)
  BY <1>1, <1>2 DEF Before
<1>8. ASSUME NEW m \in 1 .. Len(q), m # it
      PROVE  \E k \in 1 .. Len(q') : Before(k, it) = m
  <2>1. CASE m < it
    <3>1. m \in 1 .. Len(q')
      BY <1>1, <1>2, <2>1
    <3>2. Before(m, it) = m
      BY <2>1 DEF Before
    <3> QED BY <3>1, <3>2
  <2>2. CASE m > it
    <3>1. m - 1 \in 1 .. Len(q')
      BY <1>1, <1>2, <2>2
    <3>2. Before(m - 1, it) = m
      BY <1>2, <2>2 DEF Before
    <3> QED BY <3>1, <3>2
  <2> QED BY <1>2, <1>8, <2>1, <2>2
<1> QED BY <1>1, <1>3, <1>4, <1>5, <1>6, <1>7, <1>8

\* The sequences after Append.
LEMMA AppendFacts ==
    ASSUME NEW S, NEW s \in Seq(S), NEW x \in S
    PROVE  /\ Append(s, x) \in Seq(S)
           /\ Len(Append(s, x)) = Len(s) + 1
           /\ Append(s, x)[Len(s) + 1] = x
           /\ \A i \in 1 .. Len(s) : Append(s, x)[i] = s[i]
           /\ \A i \in 1 .. Len(s) + 1 : i \in 1 .. Len(s) \/ i = Len(s) + 1
OBVIOUS

\* get() keeps the order.
LEMMA GetTakeKeepsOrder ==
    ASSUME TypeOK, OrderInv, NEW g \in Getters, GetTake(g)
    PROVE  OrderInv'
<1>1. PICK it \in 1 .. Len(q) :
        /\ q[it] \in Item
        /\ q[it] \in Accepts[g]
        /\ \A j \in 1 .. Len(q) : q[j] \in Accepts[g] => it <= j
        /\ got' = [got EXCEPT ![g] = Append(@, q[it])]
        /\ q' \in Seq(Item)
        /\ \A k \in 1 .. Len(q') :
              Before(k, it) \in 1 .. Len(q) \ {it} /\ q'[k] = q[Before(k, it)]
        /\ \A k, l \in 1 .. Len(q') : k < l => Before(k, it) < Before(l, it)
        /\ \A m \in 1 .. Len(q) : m # it => \E k \in 1 .. Len(q') : Before(k, it) = m
  BY TakeShifts
<1>2. arrived' = arrived /\ count' = count /\ nput' = nput
  BY DEF GetTake, ghosts
<1>3. /\ \A h \in Getters : h # g => got'[h] = got[h]
      /\ Len(got'[g]) = Len(got[g]) + 1
      /\ got'[g][Len(got[g]) + 1] = q[it]
      /\ \A i \in 1 .. Len(got[g]) : got'[g][i] = got[g][i]
      /\ \A i \in 1 .. Len(got[g]) + 1 : i \in 1 .. Len(got[g]) \/ i = Len(got[g]) + 1
  <2>1. got[g] \in Seq(Item) /\ got'[g] = Append(got[g], q[it])
    BY <1>1 DEF TypeOK
  <2>2. \A h \in Getters : h # g => got'[h] = got[h]
    BY <1>1 DEF TypeOK
  <2> QED BY <1>1, <2>1, <2>2, AppendFacts
<1>4. \A h \in Getters : Len(got[h]) \in Nat
  BY DEF TypeOK
<1>5. arrived \in [Item -> Nat] /\ \A i \in 1 .. Len(q) : q[i] \in Item
  BY DEF TypeOK
<1>6. \A h \in Getters : \A i \in 1 .. Len(got[h]) : got[h][i] \in Item
  BY DEF TypeOK
<1>7. ArrivalNumbers'
  BY <1>2 DEF OrderInv, ArrivalNumbers
<1>8. QueueInOrder'
  <2>1. ASSUME NEW k \in 1 .. Len(q') PROVE arrived'[q'[k]] > 0
    BY <1>1, <1>2 DEF OrderInv, QueueInOrder
  <2>2. ASSUME NEW k \in 1 .. Len(q'), NEW l \in 1 .. Len(q'), k < l
        PROVE  arrived'[q'[k]] < arrived'[q'[l]]
    <3>1. /\ Before(k, it) \in 1 .. Len(q) /\ q'[k] = q[Before(k, it)]
          /\ Before(l, it) \in 1 .. Len(q) /\ q'[l] = q[Before(l, it)]
          /\ Before(k, it) < Before(l, it)
      BY <1>1, <2>2
    <3> QED BY <1>2, <3>1 DEF OrderInv, QueueInOrder
  <2> QED BY <2>1, <2>2 DEF QueueInOrder
<1>9. GotInOrder'
  <2>1. \A i \in 1 .. Len(got[g]) : arrived[got[g][i]] < arrived[q[it]]
    BY <1>1 DEF OrderInv, GotFirst
  <2>2. arrived[q[it]] > 0
    BY <1>1 DEF OrderInv, QueueInOrder
  <2>3. ASSUME NEW i \in 1 .. Len(got'[g]) PROVE got'[g][i] \in Accepts[g] /\ arrived'[got'[g][i]] > 0
    BY <1>1, <1>2, <1>3, <2>2 DEF OrderInv, GotInOrder
  <2>4. ASSUME NEW i \in 1 .. Len(got'[g]), NEW j \in 1 .. Len(got'[g]), i < j
        PROVE  arrived'[got'[g][i]] < arrived'[got'[g][j]]
    <3>1. i \in 1 .. Len(got[g])
      BY <1>3, <1>4, <2>4
    <3>2. CASE j \in 1 .. Len(got[g])
      BY <1>2, <1>3, <2>4, <3>1, <3>2 DEF OrderInv, GotInOrder
    <3>3. CASE j = Len(got[g]) + 1
      BY <1>2, <1>3, <2>1, <3>1, <3>3
    <3> QED BY <1>3, <3>2, <3>3
  <2>5. ASSUME NEW h \in Getters, h # g
        PROVE  /\ \A i \in 1 .. Len(got'[h]) : got'[h][i] \in Accepts[h] /\ arrived'[got'[h][i]] > 0
               /\ \A i, j \in 1 .. Len(got'[h]) : i < j => arrived'[got'[h][i]] < arrived'[got'[h][j]]
    BY <1>2, <1>3, <2>5 DEF OrderInv, GotInOrder
  <2> QED BY <2>3, <2>4, <2>5 DEF GotInOrder
<1>10. GotFirst'
  <2>1. ASSUME NEW h \in Getters, NEW i \in 1 .. Len(got'[h]), NEW j \in 1 .. Len(q'),
               q'[j] \in Accepts[h]
        PROVE  arrived'[got'[h][i]] < arrived'[q'[j]]
    <3> DEFINE m == Before(j, it)
    <3>1. m \in 1 .. Len(q) /\ m # it /\ q'[j] = q[m]
      BY <1>1
    <3> HIDE DEF m
    <3>2. CASE i \in 1 .. Len(got[h])
      <4>1. got'[h][i] = got[h][i]
        BY <1>3, <3>2
      <4> QED BY <1>2, <2>1, <3>1, <3>2, <4>1 DEF OrderInv, GotFirst
    <3>3. CASE i \notin 1 .. Len(got[h])
      <4>1. h = g /\ i = Len(got[g]) + 1
        BY <1>3, <3>3
      <4>2. got'[h][i] = q[it] /\ it <= m
        BY <1>1, <1>3, <2>1, <3>1, <4>1
      <4>3. it < m
        BY <3>1, <4>2
      <4> QED BY <1>2, <3>1, <4>2, <4>3 DEF OrderInv, QueueInOrder
    <3> QED BY <3>2, <3>3
  <2> QED BY <2>1 DEF GotFirst
<1>11. GotByOne'
  <2>1. \A h \in Getters : \A j \in 1 .. Len(got[h]) : got[h][j] # q[it]
    <3> SUFFICES ASSUME NEW h \in Getters, NEW j \in 1 .. Len(got[h]), got[h][j] = q[it]
                 PROVE  FALSE
      OBVIOUS
    <3>1. q[it] \in Accepts[h]
      BY DEF OrderInv, GotInOrder
    <3>2. arrived[got[h][j]] < arrived[q[it]] /\ arrived[q[it]] \in Nat
      BY <1>5, <3>1 DEF OrderInv, GotFirst
    <3> QED BY <3>2
  <2>2. ASSUME NEW h \in Getters, h # g, NEW i \in 1 .. Len(got'[g]), NEW j \in 1 .. Len(got[h])
        PROVE  got'[g][i] # got[h][j]
    <3>1. CASE i \in 1 .. Len(got[g])
      <4>1. got'[g][i] = got[g][i]
        BY <1>3, <3>1
      <4>2. got[g][i] # got[h][j]
        BY <2>2, <3>1 DEF OrderInv, GotByOne
      <4> QED BY <4>1, <4>2
    <3>2. CASE i \notin 1 .. Len(got[g])
      <4>1. got'[g][i] = q[it]
        BY <1>3, <3>2
      <4> QED BY <2>1, <4>1
    <3> QED BY <3>1, <3>2
  <2>3. ASSUME NEW h \in Getters, NEW f \in Getters, h # f,
               NEW i \in 1 .. Len(got'[h]), NEW j \in 1 .. Len(got'[f])
        PROVE  got'[h][i] # got'[f][j]
    <3>1. CASE h = g
      BY <1>3, <2>2, <2>3, <3>1
    <3>2. CASE f = g
      BY <1>3, <2>2, <2>3, <3>2
    <3>3. CASE h # g /\ f # g
      BY <1>3, <2>3, <3>3 DEF OrderInv, GotByOne
    <3> QED BY <3>1, <3>2, <3>3
  <2> QED BY <2>3 DEF GotByOne
<1>12. NothingLost'
  <2>1. ASSUME NEW x \in Item, arrived[x] > 0
        PROVE  \/ \E j \in 1 .. Len(q') : q'[j] = x
               \/ \E h \in Getters : \E i \in 1 .. Len(got'[h]) : got'[h][i] = x
    <3>1. CASE \E j \in 1 .. Len(q) : q[j] = x
      <4>1. PICK m \in 1 .. Len(q) : q[m] = x
        BY <3>1
      <4>2. CASE m = it
        <5>1. Len(got[g]) + 1 \in 1 .. Len(got'[g])
          BY <1>3, <1>4
        <5> QED BY <1>3, <4>1, <4>2, <5>1
      <4>3. CASE m # it
        BY <1>1, <4>1, <4>3
      <4> QED BY <4>2, <4>3
    <3>2. CASE \E h \in Getters : \E i \in 1 .. Len(got[h]) : got[h][i] = x
      <4>1. PICK h \in Getters : \E i \in 1 .. Len(got[h]) : got[h][i] = x
        BY <3>2
      <4>2. PICK i \in 1 .. Len(got[h]) : got[h][i] = x
        BY <4>1
      <4>3. i \in 1 .. Len(got'[h]) /\ got'[h][i] = x
        BY <1>3, <1>4, <4>2
      <4> QED BY <4>3
    <3> QED BY <2>1, <3>1, <3>2 DEF OrderInv, NothingLost
  <2> QED BY <1>2, <2>1 DEF NothingLost
<1> QED BY <1>7, <1>8, <1>9, <1>10, <1>11, <1>12 DEF OrderInv

\* put() gives the element a number larger than all others.
LEMMA PutPushKeepsOrder ==
    ASSUME TypeOK, OrderInv, NEW p \in Putters, PutPush(p)
    PROVE  OrderInv'
<1> DEFINE x == Obj(p)
<1>1. x \in Item /\ x.from = p /\ x.no = nput[p] + 1
  BY ObjIsItem DEF PutPush, CanPut, Obj
<1>2. /\ q \in Seq(Item) /\ q' = Append(q, x)
      /\ nput \in [Putters -> Nat] /\ nput' = [nput EXCEPT ![p] = @ + 1]
      /\ arrived \in [Item -> Nat] /\ arrived' = [arrived EXCEPT ![x] = count + 1]
      /\ count \in Nat /\ count' = count + 1
      /\ got' = got
  BY DEF PutPush, Push, TypeOK
<1> HIDE DEF x
<1>3. arrived[x] = 0
  <2>1. ~(x.no <= nput[x.from])
    BY <1>1, <1>2
  <2>2. arrived[x] > 0 => x.no <= nput[x.from]
    BY <1>1 DEF OrderInv, ArrivalNumbers
  <2>3. arrived[x] \in Nat
    BY <1>1, <1>2
  <2> QED BY <2>1, <2>2, <2>3
<1>4. /\ Len(q') = Len(q) + 1
      /\ q'[Len(q) + 1] = x
      /\ \A i \in 1 .. Len(q) : q'[i] = q[i]
      /\ \A i \in 1 .. Len(q') : i \in 1 .. Len(q) \/ i = Len(q) + 1
  BY <1>1, <1>2, AppendFacts
<1>5. /\ \A i \in 1 .. Len(q) : q[i] \in Item /\ q[i] # x
      /\ \A g \in Getters : \A i \in 1 .. Len(got[g]) : got[g][i] \in Item /\ got[g][i] # x
  <2>1. /\ \A i \in 1 .. Len(q) : q[i] \in Item
        /\ \A g \in Getters : \A i \in 1 .. Len(got[g]) : got[g][i] \in Item
    BY DEF TypeOK
  <2> QED BY <1>3, <2>1 DEF OrderInv, QueueInOrder, GotInOrder
<1>6. arrived'[x] = count + 1 /\ \A y \in Item : y # x => arrived'[y] = arrived[y]
  BY <1>1, <1>2
<1>7. \A y \in Item : arrived[y] \in Nat /\ arrived[y] <= count /\ arrived[y] < count + 1
  BY <1>2 DEF OrderInv, ArrivalNumbers
<1>8. ArrivalNumbers'
  <2>1. ASSUME NEW y \in Item
        PROVE  arrived'[y] <= count' /\ (arrived'[y] > 0 => y.no <= nput'[y.from])
    <3>1. CASE y = x
      BY <1>1, <1>2, <1>6, <3>1
    <3>2. CASE y # x
      <4>1. arrived'[y] = arrived[y] /\ arrived'[y] <= count'
        BY <1>2, <1>6, <1>7, <3>2
      <4>2. PICK r \in Putters : y \in [from : {r}, no : 1 .. PutCount[r]]
        BY DEF Item
      <4>3. y.from \in Putters /\ y.no \in Int
        BY <4>2
      <4>4. nput[y.from] <= nput'[y.from] /\ nput[y.from] \in Nat /\ nput'[y.from] \in Nat
        BY <1>2, <4>3
      <4> QED BY <4>1, <4>3, <4>4 DEF OrderInv, ArrivalNumbers
    <3> QED BY <3>1, <3>2
  <2> QED BY <2>1 DEF ArrivalNumbers
<1>9. QueueInOrder'
  <2>1. ASSUME NEW i \in 1 .. Len(q') PROVE arrived'[q'[i]] > 0
    BY <1>2, <1>4, <1>5, <1>6 DEF OrderInv, QueueInOrder
  <2>2. ASSUME NEW i \in 1 .. Len(q'), NEW j \in 1 .. Len(q'), i < j
        PROVE  arrived'[q'[i]] < arrived'[q'[j]]
    <3>1. i \in 1 .. Len(q)
      BY <1>2, <1>4, <2>2
    <3>2. CASE j \in 1 .. Len(q)
      BY <1>4, <1>5, <1>6, <2>2, <3>1, <3>2 DEF OrderInv, QueueInOrder
    <3>3. CASE j = Len(q) + 1
      BY <1>4, <1>5, <1>6, <1>7, <3>1, <3>3
    <3> QED BY <1>4, <3>2, <3>3
  <2> QED BY <2>1, <2>2 DEF QueueInOrder
<1>10. GotInOrder'
  <2>1. ASSUME NEW g \in Getters, NEW i \in 1 .. Len(got[g])
        PROVE  /\ got'[g] = got[g]
               /\ arrived'[got[g][i]] = arrived[got[g][i]]
    BY <1>2, <1>5, <1>6
  <2> QED BY <1>2, <2>1 DEF OrderInv, GotInOrder
<1>11. GotFirst'
  <2>1. ASSUME NEW g \in Getters, NEW i \in 1 .. Len(got[g]), NEW j \in 1 .. Len(q'),
               q'[j] \in Accepts[g]
        PROVE  arrived'[got[g][i]] < arrived'[q'[j]]
    <3>1. CASE j \in 1 .. Len(q)
      BY <1>4, <1>5, <1>6, <2>1, <3>1 DEF OrderInv, GotFirst
    <3>2. CASE j = Len(q) + 1
      BY <1>4, <1>5, <1>6, <1>7, <3>2
    <3> QED BY <1>4, <3>1, <3>2
  <2> QED BY <1>2, <2>1 DEF GotFirst
<1>12. GotByOne'
  BY <1>2 DEF OrderInv, GotByOne
<1>13. NothingLost'
  <2>1. ASSUME NEW y \in Item, arrived'[y] > 0
        PROVE  \/ \E j \in 1 .. Len(q') : q'[j] = y
               \/ \E g \in Getters : \E i \in 1 .. Len(got[g]) : got[g][i] = y
    <3>1. CASE y = x
      <4>1. Len(q) + 1 \in 1 .. Len(q')
        BY <1>2, <1>4
      <4> QED BY <1>4, <3>1, <4>1
    <3>2. CASE y # x
      <4>1. CASE \E j \in 1 .. Len(q) : q[j] = y
        <5>1. PICK j \in 1 .. Len(q) : q[j] = y
          BY <4>1
        <5>2. j \in 1 .. Len(q') /\ q'[j] = y
          BY <1>2, <1>4, <5>1
        <5> QED BY <5>2
      <4> QED BY <1>6, <2>1, <3>2, <4>1 DEF OrderInv, NothingLost
    <3> QED BY <3>1, <3>2
  <2> QED BY <1>2, <2>1 DEF NothingLost
<1> QED BY <1>8, <1>9, <1>10, <1>11, <1>12, <1>13 DEF OrderInv

\* A step that touches neither the queue nor what has been received keeps the
\* order.
LEMMA OthersKeepOrder ==
    ASSUME TypeOK, OrderInv, q' = q, got' = got, arrived' = arrived, count' = count,
           nput' \in [Putters -> Nat], \A p \in Putters : nput[p] <= nput'[p]
    PROVE  OrderInv'
<1>1. ArrivalNumbers'
  <2>1. ASSUME NEW y \in Item, arrived[y] > 0 PROVE y.no <= nput'[y.from]
    <3>1. PICK r \in Putters : y \in [from : {r}, no : 1 .. PutCount[r]]
      BY DEF Item
    <3>2. y.from \in Putters /\ y.no \in Int
      BY <3>1
    <3>3. nput[y.from] <= nput'[y.from] /\ nput[y.from] \in Nat /\ nput'[y.from] \in Nat
      BY <3>2 DEF TypeOK
    <3> QED BY <2>1, <3>2, <3>3 DEF OrderInv, ArrivalNumbers
  <2> QED BY <2>1 DEF OrderInv, ArrivalNumbers
<1>2. QueueInOrder'
  BY DEF OrderInv, QueueInOrder
<1>3. GotInOrder'
  BY DEF OrderInv, GotInOrder
<1>4. GotFirst'
  BY DEF OrderInv, GotFirst
<1>5. GotByOne'
  BY DEF OrderInv, GotByOne
<1>6. NothingLost'
  BY DEF OrderInv, NothingLost
<1> QED BY <1>1, <1>2, <1>3, <1>4, <1>5, <1>6 DEF OrderInv

\* The inductive invariant behind the two theorems that follow.
THEOREM OrderHolds == SafeSpec => []OrderInv
<1> USE ThreadQueueAssumption
<1>1. Init => OrderInv
  <2> SUFFICES ASSUME Init PROVE OrderInv
    OBVIOUS
  <2>1. Len(q) = 0 /\ \A g \in Getters : Len(got[g]) = 0
    BY DEF Init
  <2>2. ArrivalNumbers /\ NothingLost
    BY DEF Init, ArrivalNumbers, NothingLost
  <2> QED BY <2>1, <2>2 DEF OrderInv, QueueInOrder, GotInOrder, GotFirst, GotByOne
<1>2. TypeOK /\ OrderInv /\ [Next]_vars => OrderInv'
  <2> SUFFICES ASSUME TypeOK, OrderInv, [Next]_vars PROVE OrderInv'
    OBVIOUS
  <2>1. ASSUME NEW g \in Getters, GetTake(g) PROVE OrderInv'
    BY <2>1, GetTakeKeepsOrder
  <2>2. ASSUME NEW g \in Getters, GetClosed(g) PROVE OrderInv'
    BY <2>2, OthersKeepOrder DEF GetClosed, ghosts, TypeOK
  <2>3. ASSUME NEW g \in Getters, GetWait(g) PROVE OrderInv'
    BY <2>3, OthersKeepOrder DEF GetWait, ghosts, TypeOK
  <2>4. ASSUME NEW p \in Putters, PutPush(p) PROVE OrderInv'
    BY <2>4, PutPushKeepsOrder
  <2>5. ASSUME NEW p \in Putters, PutRefuse(p) PROVE OrderInv'
    <3>1. nput' \in [Putters -> Nat] /\ \A r \in Putters : nput[r] <= nput'[r]
      BY <2>5 DEF PutRefuse, TypeOK
    <3> QED BY <2>5, <3>1, OthersKeepOrder DEF PutRefuse, ghosts
  <2>6. ASSUME NEW p \in Putters, PutWait(p) PROVE OrderInv'
    BY <2>6, OthersKeepOrder DEF PutWait, ghosts, TypeOK
  <2>7. ASSUME NEW p \in Putters, Close(p) PROVE OrderInv'
    BY <2>7, OthersKeepOrder DEF Close, ghosts, TypeOK
  <2>8. ASSUME NEW p \in Putters, Return(p) PROVE OrderInv'
    BY <2>8, OthersKeepOrder DEF Return, ghosts, TypeOK
  <2>9. ASSUME NEW t \in Getters \cup Putters, SpuriousWakeup(t) PROVE OrderInv'
    BY <2>9, OthersKeepOrder DEF SpuriousWakeup, ghosts, TypeOK
  <2>10. CASE UNCHANGED vars
    BY <2>10, OthersKeepOrder DEF vars, TypeOK
  <2> QED
    BY <2>1, <2>2, <2>3, <2>4, <2>5, <2>6, <2>7, <2>8, <2>9, <2>10 DEF Next, Get, Put
<1> QED BY <1>1, <1>2, TypeCorrect, PTL DEF SafeSpec

\* First in, first out for every filter, with any number of getters and
\* putters.
THEOREM FifoHolds == SafeSpec => []FifoPerFilter
<1>1. TypeOK /\ OrderInv => FifoPerFilter
  <2> SUFFICES ASSUME TypeOK, OrderInv, NEW g \in Getters
               PROVE  /\ \A i, j \in DOMAIN got[g] : i < j =>
                            arrived[got[g][i]] < arrived[got[g][j]]
                      /\ \A x \in Taken(g), y \in ToSet(q) \cap Accepts[g] :
                            arrived[x] < arrived[y]
    BY DEF FifoPerFilter
  <2>1. DOMAIN q = 1 .. Len(q) /\ DOMAIN got[g] = 1 .. Len(got[g])
    BY DEF TypeOK
  <2> QED BY <2>1 DEF OrderInv, GotInOrder, GotFirst, Taken, ToSet
<1> QED BY <1>1, TypeCorrect, OrderHolds, PTL

\* Every element that is put is in the queue once or with one getter once.
THEOREM ExactlyOnceHolds == SafeSpec => []ExactlyOnce
<1>1. TypeOK /\ OrderInv => ExactlyOnce
  <2> SUFFICES ASSUME TypeOK, OrderInv PROVE ExactlyOnce
    OBVIOUS
  <2>1. /\ DOMAIN q = 1 .. Len(q) /\ Len(q) \in Nat
        /\ \A i \in 1 .. Len(q) : q[i] \in Item
        /\ \A x \in Item : arrived[x] \in Nat
    BY DEF TypeOK
  <2>2. ASSUME NEW g \in Getters
        PROVE  /\ DOMAIN got[g] = 1 .. Len(got[g]) /\ Len(got[g]) \in Nat
               /\ \A i \in 1 .. Len(got[g]) : got[g][i] \in Item
    BY DEF TypeOK
  <2>3. \A i, j \in DOMAIN q : q[i] = q[j] => i = j
    BY <2>1 DEF OrderInv, QueueInOrder
  <2>4. ASSUME NEW g \in Getters
        PROVE  \A i, j \in DOMAIN got[g] : got[g][i] = got[g][j] => i = j
    BY <2>1, <2>2 DEF OrderInv, GotInOrder
  <2>5. ASSUME NEW g \in Getters PROVE Taken(g) \cap ToSet(q) = {}
    <3> SUFFICES ASSUME NEW i \in 1 .. Len(got[g]), NEW j \in 1 .. Len(q), got[g][i] = q[j]
                 PROVE  FALSE
      BY <2>1, <2>2 DEF Taken, ToSet
    <3>1. q[j] \in Accepts[g]
      BY DEF OrderInv, GotInOrder
    <3>2. arrived[q[j]] < arrived[q[j]] /\ arrived[q[j]] \in Nat
      BY <2>1, <3>1 DEF OrderInv, GotFirst
    <3> QED BY <3>2
  <2>6. ASSUME NEW g \in Getters, NEW h \in Getters, g # h PROVE Taken(g) \cap Taken(h) = {}
    BY <2>2, <2>6 DEF OrderInv, GotByOne, Taken, ToSet
  <2>7. Pushed \subseteq ToSet(q) \cup UNION {Taken(g) : g \in Getters}
    <3> SUFFICES ASSUME NEW x \in Item, arrived[x] > 0
                 PROVE  x \in ToSet(q) \/ \E g \in Getters : x \in Taken(g)
      BY DEF Pushed
    <3>1. CASE \E j \in 1 .. Len(q) : q[j] = x
      BY <2>1, <3>1 DEF ToSet
    <3>2. CASE \E g \in Getters : \E i \in 1 .. Len(got[g]) : got[g][i] = x
      BY <2>2, <3>2 DEF ToSet, Taken
    <3> QED BY <3>1, <3>2 DEF OrderInv, NothingLost
  <2>8. ToSet(q) \subseteq Pushed
    BY <2>1 DEF ToSet, Pushed, OrderInv, QueueInOrder
  <2>9. ASSUME NEW g \in Getters PROVE Taken(g) \subseteq Pushed
    BY <2>2 DEF ToSet, Taken, Pushed, OrderInv, GotInOrder
  <2> QED BY <2>3, <2>4, <2>5, <2>6, <2>7, <2>8, <2>9 DEF ExactlyOnce
<1> QED BY <1>1, TypeCorrect, OrderHolds, PTL

-----------------------------------------------------------------------------
(***************************************************************************)
(* The limit and the high-water mark                                       *)
(***************************************************************************)
\* The queue never holds more than its limit, however many putters one
\* notify_all() wakes, because put() sleeps at the limit; and _max_size, which
\* put() never touches, misses no peak, because get() measures before it erases.
THEOREM SizesAreRight == SafeSpec => []SizesHold
<1> USE ThreadQueueAssumption DEF SizesHold, LimitHolds, HighWaterMark, Larger
<1>1. Init => SizesHold
  BY DEF Init
<1>2. TypeOK /\ SizesHold /\ [Next]_vars => SizesHold'
  <2> SUFFICES ASSUME TypeOK, SizesHold, [Next]_vars PROVE SizesHold'
    OBVIOUS
  <2> USE DEF ghosts
  <2>0. Len(q) \in Nat /\ maxSize \in Nat /\ peak \in Nat
    BY DEF TypeOK
  <2>1. ASSUME NEW g \in Getters, GetTake(g) PROVE SizesHold'
    <3>1. Len(q') = Len(q) - 1
      BY <2>1, TakeFacts
    <3>2. maxSize' = Larger(Len(q), maxSize) /\ peak' = peak
      BY <2>1 DEF GetTake
    <3> QED BY <2>0, <3>1, <3>2
  <2>2. ASSUME NEW g \in Getters, GetClosed(g) PROVE SizesHold'
    BY <2>0, <2>2 DEF GetClosed
  <2>3. ASSUME NEW g \in Getters, GetWait(g) PROVE SizesHold'
    BY <2>0, <2>3 DEF GetWait
  <2>4. ASSUME NEW p \in Putters, PutPush(p) PROVE SizesHold'
    <3>1. Len(q') = Len(q) + 1
      BY <2>4 DEF TypeOK, PutPush, Push
    <3>2. maxSize' = maxSize /\ peak' = Larger(Len(q'), peak) /\ ~Full(q)
      BY <2>4 DEF PutPush, Push
    <3> QED BY <2>0, <3>1, <3>2 DEF Full
  <2>5. ASSUME NEW p \in Putters, PutRefuse(p) PROVE SizesHold'
    BY <2>0, <2>5 DEF PutRefuse
  <2>6. ASSUME NEW p \in Putters, PutWait(p) PROVE SizesHold'
    BY <2>0, <2>6 DEF PutWait
  <2>7. ASSUME NEW p \in Putters, Close(p) PROVE SizesHold'
    BY <2>0, <2>7 DEF Close
  <2>8. ASSUME NEW p \in Putters, Return(p) PROVE SizesHold'
    BY <2>0, <2>8 DEF Return
  <2>9. ASSUME NEW t \in Getters \cup Putters, SpuriousWakeup(t) PROVE SizesHold'
    BY <2>0, <2>9 DEF SpuriousWakeup
  <2>10. CASE UNCHANGED vars
    BY <2>0, <2>10 DEF vars
  <2> QED
    BY <2>1, <2>2, <2>3, <2>4, <2>5, <2>6, <2>7, <2>8, <2>9, <2>10 DEF Next, Get, Put
<1> QED BY <1>1, <1>2, TypeCorrect, PTL DEF SafeSpec

-----------------------------------------------------------------------------
(***************************************************************************)
(* What is left when a getter leaves                                       *)
(***************************************************************************)
\* put() accepts elements after close(), so the code keeps what it promises a
\* getter it sends away only when those who may still put then put nothing a
\* getter would take.  The putters of test2() and test3() are like that: the
\* one that closes is the only one, and has put its last element.
LatePutsUnwanted ==
    \A c \in Closers : \A p \in Putters \ {c} :
        \A g \in Getters : \A x \in Accepts[g] : x.from # p

\* A closed queue was closed by a putter that has nothing left to put, and
\* get() fails for a closed queue only.
ClosedInv ==
    /\ closed => \E c \in Closers : nput[c] = PutCount[c]
    /\ gone # {} => closed
    /\ NothingFoundInFuture

\* A getter whose get() has returned false leaves nothing behind that its filter
\* accepts, neither then nor later.
THEOREM NothingIsLeftBehind ==
    ASSUME LatePutsUnwanted
    PROVE  SafeSpec => []NothingFoundInFuture
<1> USE ThreadQueueAssumption
<1>1. Init => ClosedInv
  BY DEF Init, ClosedInv, NothingFoundInFuture
<1>2. TypeOK /\ ClosedInv /\ [Next]_vars => ClosedInv'
  <2> SUFFICES ASSUME TypeOK, ClosedInv, [Next]_vars PROVE ClosedInv'
    OBVIOUS
  <2>0. DOMAIN q = 1 .. Len(q) /\ Len(q) \in Nat /\ gone \subseteq Getters
    BY DEF TypeOK
  <2>1. ASSUME NEW g \in Getters, GetTake(g) PROVE ClosedInv'
    <3>1. PICK it \in 1 .. Len(q) :
            /\ Len(q') = Len(q) - 1
            /\ \A k \in 1 .. Len(q) - 1 : q'[k] = IF k < it THEN q[k] ELSE q[k + 1]
      BY <2>1, TakeFacts
    <3>2. DOMAIN q' = 1 .. Len(q) - 1
      <4>1. q' \in Seq(Item)
        BY <2>1, RemoveAtFacts DEF TypeOK, GetTake
      <4> QED BY <3>1, <4>1
    <3>3. UNCHANGED <<closed, nput, gone>>
      BY <2>1 DEF GetTake
    <3>4. ASSUME NEW h \in gone, NEW k \in 1 .. Len(q) - 1 PROVE q'[k] \notin Accepts[h]
      <4>1. \A i \in 1 .. Len(q) : q[i] \notin Accepts[h]
        BY <2>0 DEF ClosedInv, NothingFoundInFuture, Matches
      <4>2. k \in 1 .. Len(q) /\ k + 1 \in 1 .. Len(q)
        BY <2>0
      <4>3. q'[k] = IF k < it THEN q[k] ELSE q[k + 1]
        BY <3>1
      <4> QED BY <4>1, <4>2, <4>3
    <3>5. NothingFoundInFuture'
      BY <3>2, <3>3, <3>4 DEF NothingFoundInFuture, Matches
    <3> QED BY <3>3, <3>5 DEF ClosedInv
  <2>2. ASSUME NEW g \in Getters, GetClosed(g) PROVE ClosedInv'
    BY <2>2 DEF ClosedInv, NothingFoundInFuture, GetClosed, Matches
  <2>3. ASSUME NEW g \in Getters, GetWait(g) PROVE ClosedInv'
    BY <2>3 DEF ClosedInv, NothingFoundInFuture, GetWait, Matches
  <2>4. ASSUME NEW p \in Putters, PutPush(p) PROVE ClosedInv'
    <3>1. /\ UNCHANGED <<closed, gone>>
          /\ nput' = [nput EXCEPT ![p] = @ + 1] /\ nput[p] < PutCount[p]
      BY <2>4 DEF PutPush, Push, CanPut
    <3>2. nput \in [Putters -> Nat]
      BY DEF TypeOK
    <3>3. ASSUME closed
          PROVE  \E c \in Closers \ {p} : nput[c] = PutCount[c] /\ nput'[c] = nput[c]
      <4>1. PICK c \in Closers : nput[c] = PutCount[c]
        BY <3>3 DEF ClosedInv
      <4>2. c # p
        BY <3>1, <3>2, <4>1
      <4> QED BY <3>1, <3>2, <4>1, <4>2
    <3>4. /\ DOMAIN q' = 1 .. Len(q) + 1
          /\ q'[Len(q) + 1] = Obj(p)
          /\ \A i \in 1 .. Len(q) : q'[i] = q[i]
      <4>1. Obj(p) \in Item
        BY <2>4, ObjIsItem DEF PutPush, CanPut
      <4> QED BY <2>4, <4>1, AppendFacts DEF PutPush, Push, TypeOK
    <3>5. ASSUME NEW h \in gone PROVE Obj(p) \notin Accepts[h]
      <4>1. \E c \in Closers : p \in Putters \ {c}
        BY <3>3, <3>5 DEF ClosedInv
      <4> QED BY <2>0, <4>1 DEF LatePutsUnwanted, Obj
    <3>6. ASSUME NEW h \in gone, NEW k \in 1 .. Len(q) + 1 PROVE q'[k] \notin Accepts[h]
      <4>1. CASE k \in 1 .. Len(q)
        BY <2>0, <3>4, <4>1 DEF ClosedInv, NothingFoundInFuture, Matches
      <4>2. CASE k = Len(q) + 1
        BY <3>4, <3>5, <4>2
      <4> QED BY <2>0, <4>1, <4>2
    <3>7. NothingFoundInFuture'
      BY <3>1, <3>4, <3>6 DEF NothingFoundInFuture, Matches
    <3> QED BY <3>1, <3>3, <3>7 DEF ClosedInv
  <2>5. ASSUME NEW p \in Putters, PutRefuse(p) PROVE ClosedInv'
    <3>1. \A c \in Closers : nput[c] = PutCount[c] => nput'[c] = nput[c]
      BY <2>5 DEF PutRefuse, CanPut, TypeOK
    <3> QED BY <2>5, <3>1 DEF ClosedInv, NothingFoundInFuture, PutRefuse, Matches
  <2>6. ASSUME NEW p \in Putters, PutWait(p) PROVE ClosedInv'
    BY <2>6 DEF ClosedInv, NothingFoundInFuture, PutWait, Matches
  <2>7. ASSUME NEW p \in Putters, Close(p) PROVE ClosedInv'
    BY <2>7 DEF ClosedInv, NothingFoundInFuture, Close, Matches
  <2>8. ASSUME NEW p \in Putters, Return(p) PROVE ClosedInv'
    BY <2>8 DEF ClosedInv, NothingFoundInFuture, Return, Matches
  <2>9. ASSUME NEW t \in Getters \cup Putters, SpuriousWakeup(t) PROVE ClosedInv'
    BY <2>9 DEF ClosedInv, NothingFoundInFuture, SpuriousWakeup, Matches
  <2>10. CASE UNCHANGED vars
    BY <2>10 DEF ClosedInv, NothingFoundInFuture, vars, Matches
  <2> QED
    BY <2>1, <2>2, <2>3, <2>4, <2>5, <2>6, <2>7, <2>8, <2>9, <2>10 DEF Next, Get, Put
<1>3. ClosedInv => NothingFoundInFuture
  BY DEF ClosedInv
<1> QED BY <1>1, <1>2, <1>3, TypeCorrect, PTL DEF SafeSpec

-----------------------------------------------------------------------------
(***************************************************************************)
(* The queue implements the channel                                        *)
(***************************************************************************)
\* Every step of the queue is a step of the channel or leaves the channel as
\* it is.
THEOREM QueueImplementsChannel == SafeSpec => ImplementsChannelSafely
<1> USE ThreadQueueAssumption
<1>1. Init => Channel!Init
  BY DEF Init, Channel!Init
<1>2. TypeOK /\ [Next]_vars => [Channel!Next]_(Channel!cvars)
  <2> SUFFICES ASSUME TypeOK, [Next]_vars
               PROVE  Channel!Next \/ UNCHANGED Channel!cvars
    OBVIOUS
  <2>1. ASSUME NEW g \in Getters, GetTake(g) PROVE Channel!Receive(g)
    <3>1. PICK it \in DOMAIN q : StopsAt(g, it) /\ Copy(g, it) /\ q' = RemoveAt(q, it)
      BY <2>1 DEF GetTake
    <3>2. it \in Channel!Wanted(g) /\ \A j \in Channel!Wanted(g) : it <= j
      BY <3>1 DEF StopsAt, Matches, Channel!Wanted
    <3>3. /\ got' = [got EXCEPT ![g] = Append(@, q[it])]
          /\ q' = RemoveAt(q, it)
      BY <3>1 DEF Copy
    <3>4. g \notin gone /\ UNCHANGED <<closed, gone>>
      BY <2>1 DEF GetTake
    <3>5. \E i \in Channel!Wanted(g) :
            /\ \A j \in Channel!Wanted(g) : i <= j
            /\ got' = [got EXCEPT ![g] = Append(@, q[i])]
            /\ q' = RemoveAt(q, i)
      BY <3>2, <3>3, Zenon
    <3> QED BY <3>4, <3>5 DEF Channel!Receive, RemoveAt, Channel!RemoveAt
  <2>2. ASSUME NEW g \in Getters, GetClosed(g) PROVE Channel!Leave(g)
    BY <2>2 DEF GetClosed, ghosts, Matches, Channel!Leave, Channel!Wanted
  <2>3. ASSUME NEW g \in Getters, GetWait(g) PROVE UNCHANGED Channel!cvars
    BY <2>3 DEF GetWait, Channel!cvars
  <2>4. ASSUME NEW p \in Putters, PutPush(p) PROVE \E x \in Item : Channel!Send(x)
    <3>1. Obj(p) \in Item
      BY <2>4, ObjIsItem DEF PutPush, CanPut
    <3> QED BY <2>4, <3>1 DEF PutPush, Push, Channel!Send
  <2>5. ASSUME NEW p \in Putters, PutRefuse(p) PROVE UNCHANGED Channel!cvars
    BY <2>5 DEF PutRefuse, Channel!cvars
  <2>6. ASSUME NEW p \in Putters, PutWait(p) PROVE UNCHANGED Channel!cvars
    BY <2>6 DEF PutWait, Channel!cvars
  <2>7. ASSUME NEW p \in Putters, Close(p) PROVE Channel!Shut
    BY <2>7 DEF Close, Channel!Shut
  <2>8. ASSUME NEW p \in Putters, Return(p) PROVE UNCHANGED Channel!cvars
    BY <2>8 DEF Return, Channel!cvars
  <2>9. ASSUME NEW t \in Getters \cup Putters, SpuriousWakeup(t)
        PROVE  UNCHANGED Channel!cvars
    BY <2>9 DEF SpuriousWakeup, Channel!cvars
  <2>10. CASE UNCHANGED vars
    BY <2>10 DEF vars, Channel!cvars
  <2> QED
    BY <2>1, <2>2, <2>3, <2>4, <2>5, <2>6, <2>7, <2>8, <2>9, <2>10
       DEF Next, Get, Put, Channel!Next
<1> QED BY <1>1, <1>2, TypeCorrect, PTL DEF SafeSpec, ImplementsChannelSafely, Channel!SafeSpec

-----------------------------------------------------------------------------
(***************************************************************************)
(* test4(): each of its pools is used as a pool, so that what is proved of *)
(* ThreadPool holds of both                                                *)
(***************************************************************************)
\* The theorems on the pool, about the tracker's.
TP == INSTANCE ThreadPoolProofs WITH
    Workers <- TrackWorkers, Clients <- {Main}, Task <- Frame,
    Submits <- [c \in {Main} |-> Frame], Spawns <- [f \in Frame |-> {}],
    Stoppers <- {Main}, NoTask <- NoFrame,
    tasks <- tTasks, stop <- tStop, condition <- tCondition,
    conditionNotfull <- tNotfull, pc <- tPc, arg <- tArg,
    running <- tRunning, called <- tCalled, ready <- tReady, early <- tEarly

\* And about the detector's.
DP == INSTANCE ThreadPoolProofs WITH
    Workers <- DetectWorkers, Clients <- {Main}, Task <- DetectFrame,
    Submits <- [c \in {Main} |-> DetectFrame], Spawns <- [f \in DetectFrame |-> {}],
    Stoppers <- {Main}, NoTask <- NoFrame,
    tasks <- dTasks, stop <- dStop, condition <- dCondition,
    conditionNotfull <- dNotfull, pc <- dPc, arg <- dArg,
    running <- dRunning, called <- dCalled, ready <- dReady, early <- dEarly

\* One step of the tracker's pool, whoever takes it.
TrackPoolStep ==
    \/ \E f \in Frame : T!CallEnqueue(Main, f)
    \/ T!Emplace(Main) \/ T!EnqueueWait(Main) \/ T!NotifyOne(Main)
    \/ T!SetStop(Main) \/ T!NotifyAll(Main) \/ T!Join(Main)
    \/ \E w \in TrackWorkers : T!Loop(w) \/ T!FinishTask(w)
    \/ \E th \in TrackWorkers \cup {Main} : T!SpuriousWakeup(th)

\* And of the detector's.
DetectPoolStep ==
    \/ \E f \in DetectFrame : D!CallEnqueue(Main, f)
    \/ D!Emplace(Main) \/ D!EnqueueWait(Main) \/ D!NotifyOne(Main)
    \/ D!SetStop(Main) \/ D!NotifyAll(Main) \/ D!Join(Main)
    \/ \E w \in DetectWorkers : D!Loop(w) \/ D!FinishTask(w)
    \/ \E th \in DetectWorkers \cup {Main} : D!SpuriousWakeup(th)

\* Whatever a thread of test4() does is a step of one pool at most.
LEMMA StepsOfPools ==
    ASSUME PipelineNext \/ UNCHANGED pipelineVars
    PROVE  /\ TrackPoolStep \/ UNCHANGED tvars
           /\ DetectPoolStep \/ UNCHANGED dvars
<1> USE TrackPipelineAssumption
<1>1. CASE UNCHANGED pipelineVars
  BY <1>1 DEF pipelineVars
<1>2. CASE SubmitDetect
  BY <1>2 DEF SubmitDetect, DetectionAsked, DetectPoolStep
<1>3. CASE SubmitTrack
  <2>1. PICK f \in {next} : T!CallEnqueue(Main, f) /\ f < TaskCnt
    BY <1>3 DEF SubmitTrack
  <2>2. f \in Frame
    BY <2>1 DEF T!CallEnqueue
  <2> QED BY <1>3, <2>1, <2>2 DEF SubmitTrack, TrackPoolStep
<1>4. CASE InsideEnqueue
  BY <1>4 DEF InsideEnqueue, TrackPoolStep, DetectPoolStep
<1>5. CASE StopTrack
  BY <1>5 DEF StopTrack, TrackPoolStep
<1>6. CASE DestroyDetect
  BY <1>6 DEF DestroyDetect, DetectPoolStep
<1>7. CASE InsideStop
  BY <1>7 DEF InsideStop, TrackPoolStep, DetectPoolStep
<1>8. ASSUME NEW w \in TrackWorkers, Tracker(w)
      PROVE  (TrackPoolStep \/ UNCHANGED tvars) /\ UNCHANGED dvars
  BY <1>8 DEF Tracker, TrackerLoop, GetPrev, GetDet, LoadId, StoreId, Goto, ReturnTrack, TrackPoolStep
<1>9. ASSUME NEW w \in DetectWorkers, Detecter(w)
      PROVE  DetectPoolStep /\ UNCHANGED tvars
  BY <1>9 DEF Detecter, DetectPoolStep
<1>10. CASE Spurious
  BY <1>10 DEF Spurious, TrackPoolStep, DetectPoolStep
<1> QED
  BY <1>1, <1>2, <1>3, <1>4, <1>5, <1>6, <1>7, <1>8, <1>9, <1>10 DEF PipelineNext, MainStep

\* The tracker's pool is an instance the theorems on the pool speak of: one
\* client, main, which also stops it, and tasks that enqueue none.
LEMMA TrackPoolAssumption == TP!ThreadPoolAssumption
<1> USE TrackPipelineAssumption
<1>1. IsFiniteSet({Main})
  BY FS_Singleton
<1>2. /\ TP!IsFiniteSet(TrackWorkers) /\ TrackWorkers # {}
      /\ TP!IsFiniteSet({Main})
      /\ TrackWorkers \cap {Main} = {}
  BY <1>1 DEF TP!IsFiniteSet, IsFiniteSet
<1>3. /\ [c \in {Main} |-> Frame] \in [{Main} -> SUBSET Frame]
      /\ [f \in Frame |-> {}] \in [Frame -> SUBSET Frame]
      /\ \A c \in {Main}, t \in Frame :
             [d \in {Main} |-> Frame][c] \cap [f \in Frame |-> {}][t] = {}
  OBVIOUS
<1>4. NoFrame \notin Frame
  BY DEF Frame
<1> QED
  <2> HIDE DEF Frame, DetectFrame
  <2> QED BY <1>2, <1>3, <1>4

\* So is the detector's.
LEMMA DetectPoolAssumption == DP!ThreadPoolAssumption
<1> USE TrackPipelineAssumption
<1>1. IsFiniteSet({Main})
  BY FS_Singleton
<1>2. /\ DP!IsFiniteSet(DetectWorkers) /\ DetectWorkers # {}
      /\ DP!IsFiniteSet({Main})
      /\ DetectWorkers \cap {Main} = {}
  BY <1>1 DEF DP!IsFiniteSet, IsFiniteSet
<1>3. /\ [c \in {Main} |-> DetectFrame] \in [{Main} -> SUBSET DetectFrame]
      /\ [f \in DetectFrame |-> {}] \in [DetectFrame -> SUBSET DetectFrame]
      /\ \A c \in {Main}, t \in DetectFrame :
             [d \in {Main} |-> DetectFrame][c] \cap [f \in DetectFrame |-> {}][t] = {}
  OBVIOUS
<1>4. NoFrame \notin DetectFrame
  BY DEF Frame, DetectFrame
<1> QED
  <2> HIDE DEF Frame, DetectFrame
  <2> QED BY <1>2, <1>3, <1>4

\* What test4() does to the tracker's pool a ThreadPool does.
LEMMA TrackPoolStepIsPool == TrackPoolStep => TP!Next
<1> USE DEF TP!Next, TP!Use, TP!Work, TP!Enqueue
<1>1. ASSUME NEW f \in Frame, T!CallEnqueue(Main, f) PROVE TP!Next
  BY <1>1 DEF T!CallEnqueue, TP!CallEnqueue
<1>2. ASSUME T!Emplace(Main) PROVE TP!Next
  BY <1>2 DEF T!Emplace, T!AtEnqueue, T!HasRoom, TP!Emplace, TP!AtEnqueue, TP!HasRoom
<1>3. ASSUME T!EnqueueWait(Main) PROVE TP!Next
  BY <1>3 DEF T!EnqueueWait, T!AtEnqueue, T!HasRoom, TP!EnqueueWait, TP!AtEnqueue, TP!HasRoom
<1>4. ASSUME T!NotifyOne(Main) PROVE TP!Next
  BY <1>4 DEF T!NotifyOne, T!Caller, TP!NotifyOne, TP!Caller
<1>5. ASSUME T!SetStop(Main) PROVE TP!Next
  BY <1>5 DEF T!SetStop, TP!SetStop
<1>6. ASSUME T!NotifyAll(Main) PROVE TP!Next
  BY <1>6 DEF T!NotifyAll, TP!NotifyAll
<1>7. ASSUME T!Join(Main) PROVE TP!Next
  BY <1>7 DEF T!Join, TP!Join
<1>8. ASSUME NEW w \in TrackWorkers, T!Loop(w) PROVE TP!Next
  BY <1>8 DEF T!Loop, T!WorkerPop, T!WorkerExit, T!WorkerWait, T!AtLoop,
              TP!Loop, TP!WorkerPop, TP!WorkerExit, TP!WorkerWait, TP!AtLoop
<1>9. ASSUME NEW w \in TrackWorkers, T!FinishTask(w) PROVE TP!Next
  BY <1>9 DEF T!FinishTask, TP!FinishTask
<1>10. ASSUME NEW th \in TrackWorkers \cup {Main}, T!SpuriousWakeup(th) PROVE TP!Next
  BY <1>10 DEF T!SpuriousWakeup, TP!SpuriousWakeup, TP!Thread
<1> QED
  BY <1>1, <1>2, <1>3, <1>4, <1>5, <1>6, <1>7, <1>8, <1>9, <1>10 DEF TrackPoolStep

\* What test4() does to the detector's pool a ThreadPool does.
LEMMA DetectPoolStepIsPool == DetectPoolStep => DP!Next
<1> USE DEF DP!Next, DP!Use, DP!Work, DP!Enqueue
<1>1. ASSUME NEW f \in DetectFrame, D!CallEnqueue(Main, f) PROVE DP!Next
  BY <1>1 DEF D!CallEnqueue, DP!CallEnqueue
<1>2. ASSUME D!Emplace(Main) PROVE DP!Next
  BY <1>2 DEF D!Emplace, D!AtEnqueue, D!HasRoom, DP!Emplace, DP!AtEnqueue, DP!HasRoom
<1>3. ASSUME D!EnqueueWait(Main) PROVE DP!Next
  BY <1>3 DEF D!EnqueueWait, D!AtEnqueue, D!HasRoom, DP!EnqueueWait, DP!AtEnqueue, DP!HasRoom
<1>4. ASSUME D!NotifyOne(Main) PROVE DP!Next
  BY <1>4 DEF D!NotifyOne, D!Caller, DP!NotifyOne, DP!Caller
<1>5. ASSUME D!SetStop(Main) PROVE DP!Next
  BY <1>5 DEF D!SetStop, DP!SetStop
<1>6. ASSUME D!NotifyAll(Main) PROVE DP!Next
  BY <1>6 DEF D!NotifyAll, DP!NotifyAll
<1>7. ASSUME D!Join(Main) PROVE DP!Next
  BY <1>7 DEF D!Join, DP!Join
<1>8. ASSUME NEW w \in DetectWorkers, D!Loop(w) PROVE DP!Next
  BY <1>8 DEF D!Loop, D!WorkerPop, D!WorkerExit, D!WorkerWait, D!AtLoop,
              DP!Loop, DP!WorkerPop, DP!WorkerExit, DP!WorkerWait, DP!AtLoop
<1>9. ASSUME NEW w \in DetectWorkers, D!FinishTask(w) PROVE DP!Next
  BY <1>9 DEF D!FinishTask, DP!FinishTask
<1>10. ASSUME NEW th \in DetectWorkers \cup {Main}, D!SpuriousWakeup(th) PROVE DP!Next
  BY <1>10 DEF D!SpuriousWakeup, DP!SpuriousWakeup, DP!Thread
<1> QED
  BY <1>1, <1>2, <1>3, <1>4, <1>5, <1>6, <1>7, <1>8, <1>9, <1>10 DEF DetectPoolStep

\* test4() uses both pools as thread_pool.h lets them be used: each behaves as
\* the ThreadPool of one client.
THEOREM PipelineUsesPools == SafePipeline => TP!SafeSpec /\ DP!SafeSpec
<1>1. PipelineInit => TP!Init /\ DP!Init
  BY DEF PipelineInit, T!Init, D!Init, TP!Init, DP!Init, T!Thread, D!Thread, TP!Thread, DP!Thread
<1>2. [PipelineNext]_pipelineVars => [TP!Next]_TP!vars /\ [DP!Next]_DP!vars
  BY StepsOfPools, TrackPoolStepIsPool, DetectPoolStepIsPool
  DEF tvars, dvars, TP!vars, DP!vars
<1> QED BY <1>1, <1>2, PTL DEF SafePipeline, TP!SafeSpec, DP!SafeSpec
-----------------------------------------------------------------------------
(***************************************************************************)
(* test4(): the order of the frames and the counter                        *)
(***************************************************************************)
\* What the pools, as pools, say of the frames: a worker that is inside track()
\* has a frame that no other worker has and that is not ready.
FramesOK ==
    /\ tPc \in [TrackWorkers \cup {Main} -> TP!WorkerPc \cup TP!ClientPc]
    /\ dPc \in [DetectWorkers \cup {Main} -> DP!WorkerPc \cup DP!ClientPc]
    /\ tRunning \in [TrackWorkers -> Frame \cup {NoFrame}]
    /\ \A w \in TrackWorkers : tPc[w] = "run" => tRunning[w] \in Frame \ tReady
    /\ \A v, w \in TrackWorkers : tRunning[v] = tRunning[w] /\ tRunning[v] # NoFrame => v = w
    /\ tReady \subseteq Frame
    /\ dReady \subseteq DetectFrame

\* Those facts are the pools' EveryTaskOnce and TypeOK.
LEMMA FramesAreRight == SafePipeline => []FramesOK
<1>1. TP!TypeOK /\ TP!EveryTaskOnce /\ DP!TypeOK => FramesOK
  <2> SUFFICES ASSUME TP!TypeOK, TP!EveryTaskOnce, DP!TypeOK PROVE FramesOK
    OBVIOUS
  <2>1. /\ tRunning \in [TrackWorkers -> Frame \cup {NoFrame}]
        /\ tReady \subseteq Frame
    BY DEF TP!TypeOK
  <2>2. dReady \subseteq DetectFrame
    BY DEF DP!TypeOK
  <2>3. tPc \in [TrackWorkers \cup {Main} -> TP!WorkerPc \cup TP!ClientPc]
    BY DEF TP!TypeOK, TP!Thread
  <2>4. dPc \in [DetectWorkers \cup {Main} -> DP!WorkerPc \cup DP!ClientPc]
    BY DEF DP!TypeOK, DP!Thread
  <2>5. \A v, w \in TrackWorkers : tRunning[v] = tRunning[w] /\ tRunning[v] # NoFrame => v = w
    BY DEF TP!EveryTaskOnce
  <2>6. ASSUME NEW w \in TrackWorkers, tPc[w] = "run"
        PROVE  tRunning[w] \in Frame \ tReady
    <3>1. tRunning[w] # NoFrame
      BY <2>6 DEF TP!TypeOK
    <3>2. tRunning[w] \in Frame
      BY <2>1, <3>1
    <3> QED BY <3>1, <3>2 DEF TP!EveryTaskOnce, TP!InRun
  <2> QED BY <2>1, <2>2, <2>3, <2>4, <2>5, <2>6 DEF FramesOK
<1>2. TP!SafeSpec => []TP!TypeOK
  BY TP!TypeCorrect, TrackPoolAssumption
<1>3. TP!SafeSpec => []TP!EveryTaskOnce
  BY TP!NoTaskLostOrDoubled, TrackPoolAssumption
<1>4. DP!SafeSpec => []DP!TypeOK
  BY DP!TypeCorrect, DetectPoolAssumption
<1> QED BY <1>1, <1>2, <1>3, <1>4, PipelineUsesPools, PTL

\* The local variables of track() and the counter.
TrackTypeOK ==
    /\ at \in [TrackWorkers -> TrackPc]
    /\ seen \in [TrackWorkers -> Int]
    /\ id \in 0 .. TaskCnt
    /\ \A w \in TrackWorkers : at[w] # "none" => tPc[w] = "run"

\* A worker has got what it has waited for.
Waited ==
    \A w \in TrackWorkers :
        /\ at[w] \notin {"none", "prev"} => tRunning[w] = 0 \/ tRunning[w] - 1 \in tReady
        /\ at[w] \in {"load", "store", "return"} /\ tRunning[w] \in DetectFrame => tRunning[w] \in dReady

\* The frames that are ready are the first ones, with their detections.
InOrder ==
    \A f \in tReady :
        /\ \A e \in 0 .. f : e \in tReady
        /\ f \in DetectFrame => f \in dReady

\* The counter is the number of frames that are ready, and of the one whose
\* worker has stored it already.
Counted ==
    /\ \A w \in TrackWorkers : at[w] = "store" => seen[w] = id
    /\ \A w \in TrackWorkers : at[w] = "return" => id = tRunning[w] + 1
    /\ (\A w \in TrackWorkers : at[w] # "return") => \A f \in Frame : f \in tReady <=> f < id

\* main stops the pools after the last frame.
LastIsReady ==
    /\ tPc[Main] \in {"stopping", "joining", "stopped"} => TaskCnt - 1 \in tReady
    /\ dPc[Main] \in {"stopping", "joining", "stopped"} => TaskCnt - 1 \in tReady

PipelineInv == TrackTypeOK /\ Waited /\ InOrder /\ Counted /\ LastIsReady

\* Behind prev.get() there is one worker: of two the one with the earlier frame
\* would have returned already.
LEMMA OneBehindPrev ==
    ASSUME FramesOK, TrackTypeOK, Waited, InOrder,
           NEW v \in TrackWorkers, NEW w \in TrackWorkers,
           at[v] \notin {"none", "prev"}, at[w] \notin {"none", "prev"}
    PROVE  v = w
<1> USE TrackPipelineAssumption
<1>1. /\ tRunning[v] \in Frame \ tReady
      /\ tRunning[w] \in Frame \ tReady
  BY DEF TrackTypeOK, FramesOK
<1>2. /\ tRunning[v] = 0 \/ tRunning[v] - 1 \in tReady
      /\ tRunning[w] = 0 \/ tRunning[w] - 1 \in tReady
  BY DEF Waited
<1>3. ~ tRunning[v] < tRunning[w]
  BY <1>1, <1>2 DEF InOrder, Frame
<1>4. ~ tRunning[w] < tRunning[v]
  BY <1>1, <1>2 DEF InOrder, Frame
<1>5. tRunning[v] = tRunning[w] /\ tRunning[v] # NoFrame
  BY <1>1, <1>3, <1>4 DEF Frame
<1> QED BY <1>5 DEF FramesOK

\* Steps that leave track() alone keep the invariant: of the pools they change
\* neither who runs what nor, but for more detections, what is ready.
LEMMA ElsewhereKeepsInv ==
    ASSUME FramesOK, PipelineInv,
           UNCHANGED <<tRunning, tReady, local>>,
           dReady \subseteq dReady',
           \A w \in TrackWorkers : tPc'[w] = tPc[w],
           LastIsReady'
    PROVE  PipelineInv'
BY DEF PipelineInv, TrackTypeOK, Waited, InOrder, Counted, local

\* main moves tasks and itself, in one pool or in the other.
LEMMA MainIsElsewhere ==
    ASSUME FramesOK, PipelineInv, MainStep
    PROVE  PipelineInv'
<1> USE TrackPipelineAssumption DEF FramesOK
<1>0. LastIsReady
  BY DEF PipelineInv
<1>1. CASE SubmitDetect
  <2>1. PICK f \in {next} : D!CallEnqueue(Main, f)
    BY <1>1 DEF SubmitDetect
  <2> QED BY <1>0, <1>1, <2>1, ElsewhereKeepsInv DEF SubmitDetect, D!CallEnqueue, LastIsReady, tvars
<1>2. CASE SubmitTrack
  <2>1. PICK f \in {next} : T!CallEnqueue(Main, f)
    BY <1>2 DEF SubmitTrack
  <2> QED BY <1>0, <1>2, <2>1, ElsewhereKeepsInv DEF SubmitTrack, T!CallEnqueue, LastIsReady, dvars
<1>3. CASE InsideEnqueue
  <2>1. CASE (T!Emplace(Main) \/ T!EnqueueWait(Main) \/ T!NotifyOne(Main)) /\ UNCHANGED <<dvars, local>>
    BY <1>0, <2>1, ElsewhereKeepsInv
    DEF T!Emplace, T!EnqueueWait, T!NotifyOne, T!Caller, LastIsReady, dvars
  <2>2. CASE (D!Emplace(Main) \/ D!EnqueueWait(Main) \/ D!NotifyOne(Main)) /\ UNCHANGED <<tvars, local>>
    BY <1>0, <2>2, ElsewhereKeepsInv
    DEF D!Emplace, D!EnqueueWait, D!NotifyOne, D!Caller, LastIsReady, tvars
  <2> QED BY <1>3, <2>1, <2>2 DEF InsideEnqueue
<1>4. CASE StopTrack
  BY <1>0, <1>4, ElsewhereKeepsInv DEF StopTrack, T!SetStop, LastIsReady, dvars
<1>5. CASE DestroyDetect
  BY <1>0, <1>5, ElsewhereKeepsInv DEF DestroyDetect, D!SetStop, LastIsReady, tvars
<1>6. CASE InsideStop
  <2>1. CASE (T!NotifyAll(Main) \/ T!Join(Main)) /\ UNCHANGED <<dvars, local>>
    BY <1>0, <2>1, ElsewhereKeepsInv DEF T!NotifyAll, T!Join, LastIsReady, dvars
  <2>2. CASE (D!NotifyAll(Main) \/ D!Join(Main)) /\ UNCHANGED <<tvars, local>>
    BY <1>0, <2>2, ElsewhereKeepsInv DEF D!NotifyAll, D!Join, LastIsReady, tvars
  <2> QED BY <1>6, <2>1, <2>2 DEF InsideStop
<1> QED BY <1>1, <1>2, <1>3, <1>4, <1>5, <1>6 DEF MainStep

\* Taking a task and leaving the pool happen outside track().
LEMMA LoopKeepsInv ==
    ASSUME FramesOK, PipelineInv, NEW w \in TrackWorkers, TrackerLoop(w)
    PROVE  PipelineInv'
<1> USE TrackPipelineAssumption DEF FramesOK, TrackerLoop
<1>1. /\ at[w] = "none" /\ tPc[w] = "lock"
      /\ at' = [at EXCEPT ![w] = IF tPc'[w] = "run" THEN "prev" ELSE "none"]
      /\ tPc' \in {[tPc EXCEPT ![w] = "run"], [tPc EXCEPT ![w] = "exited"], tPc}
      /\ UNCHANGED <<tReady, dvars, id, seen>>
      /\ \A v \in TrackWorkers \ {w} : tRunning'[v] = tRunning[v]
  BY DEF T!Loop, T!WorkerPop, T!WorkerExit, T!WorkerWait, T!AtLoop, PipelineInv, TrackTypeOK
<1>2. /\ at'[w] \in {"none", "prev"}
      /\ \A v \in TrackWorkers \ {w} : at'[v] = at[v] /\ tPc'[v] = tPc[v]
      /\ tPc'[Main] = tPc[Main]
      /\ at' \in [TrackWorkers -> TrackPc]
      /\ at'[w] # "none" => tPc'[w] = "run"
  BY <1>1 DEF PipelineInv, TrackTypeOK, TrackPc
<1>3. TrackTypeOK'
  BY <1>1, <1>2 DEF PipelineInv, TrackTypeOK
<1>4. Waited'
  BY <1>1, <1>2 DEF PipelineInv, Waited, dvars
<1>5. InOrder'
  BY <1>1 DEF PipelineInv, InOrder, dvars
<1>6. Counted'
  BY <1>1, <1>2 DEF PipelineInv, Counted
<1>7. LastIsReady'
  BY <1>1, <1>2 DEF PipelineInv, LastIsReady, dvars
<1> QED BY <1>3, <1>4, <1>5, <1>6, <1>7 DEF PipelineInv

\* The steps inside track(), up to its return.
LEMMA TrackKeepsInv ==
    ASSUME FramesOK, PipelineInv, NEW w \in TrackWorkers,
           GetPrev(w) \/ GetDet(w) \/ LoadId(w) \/ StoreId(w)
    PROVE  PipelineInv'
<1> USE TrackPipelineAssumption DEF FramesOK
<1>0. /\ UNCHANGED <<tPc, tRunning, tReady, dPc, dReady>>
      /\ tPc[w] = "run" /\ tRunning[w] \in Frame \ tReady
      /\ \A v \in TrackWorkers \ {w} : at'[v] = at[v]
  BY DEF GetPrev, GetDet, LoadId, StoreId, Goto, tvars, dvars, PipelineInv, TrackTypeOK
<1>1. InOrder' /\ LastIsReady'
  BY <1>0 DEF PipelineInv, InOrder, LastIsReady
<1>2. CASE GetPrev(w)
  <2>1. at[w] = "prev" /\ at' = [at EXCEPT ![w] = "det"] /\ UNCHANGED <<id, seen>>
    BY <1>2 DEF GetPrev, Goto
  <2>2. tRunning[w] = 0 \/ tRunning[w] - 1 \in tReady
    BY <1>2 DEF GetPrev
  <2>3. at'[w] = "det"
    BY <2>1 DEF PipelineInv, TrackTypeOK
  <2>4. TrackTypeOK'
    BY <1>0, <2>1 DEF PipelineInv, TrackTypeOK, TrackPc
  <2>5. Waited'
    BY <1>0, <2>2, <2>3 DEF PipelineInv, Waited
  <2>6. Counted'
    BY <1>0, <2>1, <2>3 DEF PipelineInv, Counted
  <2> QED BY <1>1, <2>4, <2>5, <2>6 DEF PipelineInv
<1>3. CASE GetDet(w)
  <2>1. at[w] = "det" /\ at' = [at EXCEPT ![w] = "load"] /\ UNCHANGED <<id, seen>>
    BY <1>3 DEF GetDet, Goto
  <2>2. tRunning[w] \in DetectFrame => tRunning[w] \in dReady
    BY <1>3 DEF GetDet
  <2>3. at'[w] = "load"
    BY <2>1 DEF PipelineInv, TrackTypeOK
  <2>4. TrackTypeOK'
    BY <1>0, <2>1 DEF PipelineInv, TrackTypeOK, TrackPc
  <2>5. Waited'
    BY <1>0, <2>1, <2>2, <2>3 DEF PipelineInv, Waited
  <2>6. Counted'
    BY <1>0, <2>1, <2>3 DEF PipelineInv, Counted
  <2> QED BY <1>1, <2>4, <2>5, <2>6 DEF PipelineInv
<1>4. CASE LoadId(w)
  <2>1. at[w] = "load" /\ at' = [at EXCEPT ![w] = "store"] /\ id' = id /\ seen' = [seen EXCEPT ![w] = id]
    BY <1>4 DEF LoadId, Goto
  <2>3. at'[w] = "store" /\ seen'[w] = id
    BY <2>1 DEF PipelineInv, TrackTypeOK
  <2>4. TrackTypeOK'
    BY <1>0, <2>1 DEF PipelineInv, TrackTypeOK, TrackPc
  <2>5. Waited'
    BY <1>0, <2>1, <2>3 DEF PipelineInv, Waited
  <2>6. Counted'
    BY <1>0, <2>1, <2>3 DEF PipelineInv, TrackTypeOK, Counted
  <2> QED BY <1>1, <2>4, <2>5, <2>6 DEF PipelineInv
<1>5. CASE StoreId(w)
  <2>1. at[w] = "store" /\ at' = [at EXCEPT ![w] = "return"] /\ id' = seen[w] + 1 /\ seen' = seen
    BY <1>5 DEF StoreId, Goto
  <2>2. \A v \in TrackWorkers \ {w} : at[v] \in {"none", "prev"}
    BY <2>1, OneBehindPrev DEF PipelineInv
  <2>3. at'[w] = "return" /\ \A v \in TrackWorkers \ {w} : at'[v] \in {"none", "prev"}
    BY <1>0, <2>1, <2>2 DEF PipelineInv, TrackTypeOK
  <2>4. id = tRunning[w]
    <3>1. \A f \in Frame : f \in tReady <=> f < id
      BY <2>1, <2>2 DEF PipelineInv, Counted
    <3>2. tRunning[w] = 0 \/ tRunning[w] - 1 \in tReady
      BY <2>1 DEF PipelineInv, Waited
    <3> QED BY <1>0, <3>1, <3>2 DEF PipelineInv, TrackTypeOK, Frame
  <2>5. id' = tRunning[w] + 1
    BY <2>1, <2>4 DEF PipelineInv, Counted
  <2>6. TrackTypeOK'
    BY <1>0, <2>1, <2>5 DEF PipelineInv, TrackTypeOK, TrackPc, Frame
  <2>7. Waited'
    BY <1>0, <2>1, <2>3 DEF PipelineInv, Waited
  <2>8. Counted'
    BY <1>0, <2>3, <2>5 DEF PipelineInv, Counted
  <2> QED BY <1>1, <2>6, <2>7, <2>8 DEF PipelineInv
<1> QED BY <1>2, <1>3, <1>4, <1>5

\* track() returns: its frame joins those that are ready, as the next one, and
\* the counter, which was ahead by one, is their number again.
LEMMA ReturnKeepsInv ==
    ASSUME FramesOK, PipelineInv, NEW w \in TrackWorkers, ReturnTrack(w)
    PROVE  PipelineInv'
<1> USE TrackPipelineAssumption DEF FramesOK
<1> DEFINE f == tRunning[w]
<1>1. /\ at[w] = "return"
      /\ tReady' = tReady \cup {f}
      /\ tRunning' = [tRunning EXCEPT ![w] = NoFrame]
      /\ tPc' = [tPc EXCEPT ![w] = "lock"]
      /\ at' = [at EXCEPT ![w] = "none"]
      /\ UNCHANGED <<dPc, dReady, id, seen>>
      /\ f \in Frame \ tReady
  BY DEF ReturnTrack, T!FinishTask, dvars, PipelineInv, TrackTypeOK
<1>2. /\ at'[w] = "none"
      /\ \A v \in TrackWorkers \ {w} : at'[v] = at[v] /\ tPc'[v] = tPc[v] /\ tRunning'[v] = tRunning[v]
      /\ tPc'[Main] = tPc[Main]
  BY <1>1 DEF PipelineInv, TrackTypeOK
<1>3. \A v \in TrackWorkers : at'[v] \in {"none", "prev"}
  BY <1>1, <1>2, OneBehindPrev DEF PipelineInv
<1>4. /\ f = 0 \/ f - 1 \in tReady
      /\ f \in DetectFrame => f \in dReady
      /\ id = f + 1
  BY <1>1 DEF PipelineInv, Waited, Counted
<1>5. \A g \in Frame : g \in tReady <=> g < f
  BY <1>1, <1>4 DEF PipelineInv, InOrder, Frame
<1>6. TrackTypeOK'
  BY <1>1, <1>2 DEF PipelineInv, TrackTypeOK, TrackPc
<1>7. Waited'
  BY <1>3 DEF Waited
<1>8. InOrder'
  BY <1>1, <1>4, <1>5 DEF PipelineInv, InOrder, Frame
<1>9. Counted'
  BY <1>1, <1>3, <1>4, <1>5 DEF Counted, Frame
<1>10. LastIsReady'
  BY <1>1, <1>2 DEF PipelineInv, LastIsReady
<1> QED BY <1>6, <1>7, <1>8, <1>9, <1>10 DEF PipelineInv

\* The invariant of test4().
LEMMA PipelineInvHolds == SafePipeline => []PipelineInv
<1> USE TrackPipelineAssumption
<1>1. PipelineInit => PipelineInv
  BY DEF PipelineInit, T!Init, D!Init, T!Thread, D!Thread, PipelineInv, TrackTypeOK, TrackPc,
         Waited, InOrder, Counted, LastIsReady, Frame
<1>2. FramesOK /\ PipelineInv /\ [PipelineNext]_pipelineVars => PipelineInv'
  <2> SUFFICES ASSUME FramesOK, PipelineInv, [PipelineNext]_pipelineVars PROVE PipelineInv'
    OBVIOUS
  <2>1. CASE UNCHANGED pipelineVars
    BY <2>1, ElsewhereKeepsInv DEF pipelineVars, tvars, dvars, PipelineInv, LastIsReady
  <2>2. CASE MainStep
    BY <2>2, MainIsElsewhere
  <2>3. ASSUME NEW w \in TrackWorkers, Tracker(w) PROVE PipelineInv'
    BY <2>3, LoopKeepsInv, TrackKeepsInv, ReturnKeepsInv DEF Tracker
  <2>4. ASSUME NEW w \in DetectWorkers, Detecter(w) PROVE PipelineInv'
    <3>1. /\ UNCHANGED <<tvars, local>> /\ dReady \subseteq dReady' /\ dPc'[Main] = dPc[Main]
      BY <2>4 DEF Detecter, D!Loop, D!WorkerPop, D!WorkerExit, D!WorkerWait, D!FinishTask, FramesOK
    <3> QED BY <3>1, ElsewhereKeepsInv DEF tvars, PipelineInv, LastIsReady
  <2>5. CASE Spurious
    BY <2>5, ElsewhereKeepsInv
    DEF Spurious, T!SpuriousWakeup, D!SpuriousWakeup, tvars, dvars, PipelineInv, LastIsReady
  <2> QED BY <2>1, <2>2, <2>3, <2>4, <2>5 DEF PipelineNext
<1> QED BY <1>1, <1>2, FramesAreRight, PTL DEF SafePipeline

\* track() is executed by one worker at a time behind prev.get(), and frames
\* become ready in order, each with its detection, for any number of workers.
THEOREM TrackingIsSequential == SafePipeline => []TrackInSequence
<1>1. FramesOK /\ PipelineInv => TrackInSequence
  BY OneBehindPrev DEF PipelineInv, InOrder, TrackInSequence
<1> QED BY <1>1, FramesAreRight, PipelineInvHolds, PTL

\* When ~ThreadPool() of the detector's pool has returned every frame has been
\* tracked, tracker::id is their number, although nothing locks it, and every
\* detection has been made.
THEOREM Test4TracksEverything == SafePipeline => []NothingLostAtEnd
<1>1. FramesOK /\ PipelineInv => NothingLostAtEnd
  <2> USE TrackPipelineAssumption
  <2> SUFFICES ASSUME FramesOK, PipelineInv, dPc[Main] = "stopped"
               PROVE  id = TaskCnt /\ tReady = Frame /\ dReady = DetectFrame
    BY DEF NothingLostAtEnd
  <2>1. tReady = Frame
    BY DEF PipelineInv, LastIsReady, InOrder, FramesOK, Frame
  <2>2. dReady = DetectFrame
    BY <2>1 DEF PipelineInv, InOrder, FramesOK, DetectFrame
  <2>3. \A w \in TrackWorkers : at[w] # "return"
    BY <2>1 DEF PipelineInv, TrackTypeOK, FramesOK
  <2>4. TaskCnt - 1 < id
    BY <2>1, <2>3 DEF PipelineInv, Counted, Frame
  <2> QED BY <2>1, <2>2, <2>4 DEF PipelineInv, TrackTypeOK
<1> QED BY <1>1, FramesAreRight, PipelineInvHolds, PTL

=============================================================================

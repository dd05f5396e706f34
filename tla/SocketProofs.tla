---------------------------- MODULE SocketProofs ----------------------------
(***************************************************************************)
(* What SocketTransfer delivers and how SocketSetup hands out sockets and  *)
(* names, for every plan of calls and any number of processes, proved with *)
(* TLAPS.                                                                  *)
(***************************************************************************)
EXTENDS SocketSetup, SocketTransfer, FiniteSetTheorems, WellFoundedInduction, TLAPS

-----------------------------------------------------------------------------
(***************************************************************************)
(* A connection: the invariant                                             *)
(***************************************************************************)
UnitType == [call : Nat, no : Nat]
StoredType == UnitType \cup {Junk}

\* The types of the variables.
TransferTypeOK ==
    /\ pipe \in Seq(UnitType)
    /\ sender \in {"runs", "gone"}
    /\ sDone \in 0 .. Len(Plan) /\ sPos \in Nat
    /\ receiver \in {"runs", "ended", "failed", "gone"}
    /\ answers \in Seq(Seq(StoredType)) /\ Len(answers) <= Len(Plan)
    /\ buffer \in Seq(StoredType) /\ rfd \in StoredType
    /\ control \in BOOLEAN /\ full \in BOOLEAN

\* A call that has all its units has returned.
CallsOpen ==
    /\ IF sDone < Len(Plan) THEN sPos < Plan[sDone + 1].size ELSE sPos = 0
    /\ IF Len(answers) < Len(Plan) THEN Len(buffer) < Plan[Len(answers) + 1].size ELSE buffer = <<>>

\* The unit that follows another one, and those that come next at either end.
After(u) == IF u.no < Plan[u.call].size THEN [call |-> u.call, no |-> u.no + 1]
            ELSE [call |-> u.call + 1, no |-> 1]
NextToSend == [call |-> sDone + 1, no |-> sPos + 1]
NextToReceive == [call |-> Len(answers) + 1, no |-> Len(buffer) + 1]

\* The units in the socket join the two ends: both are at the same call and
\* at the same place of it, but for what is on the way.
Stream == Append(pipe, NextToSend)
InStep ==
    receiver = "runs" =>
        /\ Stream[1] = NextToReceive
        /\ \A i \in 1 .. Len(pipe) : Stream[i + 1] = After(Stream[i])

\* What a call number k for data has stored.
DataUpTo(k, stored) == \A i \in 1 .. Len(stored) : stored[i] = [call |-> k, no |-> i]

DataSoFar == Receiving /\ ToReceive.kind = "data" => DataUpTo(Len(answers) + 1, buffer)

\* What a call number k for descriptors has stored, m of which have arrived;
\* the last of them is still in cmsgBuf.
FdsUpTo(k, stored, last, room) ==
    \E m \in 0 .. Len(stored) :
        /\ room => m = Len(stored)
        /\ last = IF m = 0 THEN Junk ELSE [call |-> k, no |-> m]
        /\ \A i \in 1 .. Len(stored) :
              stored[i] = IF m = 0 THEN Junk ELSE [call |-> k, no |-> IF i <= m THEN i ELSE m]

FdsSoFar ==
    Receiving /\ ToReceive.kind = "fds" => FdsUpTo(Len(answers) + 1, buffer, rfd, control)

TransferInv ==
    /\ TransferTypeOK /\ CallsOpen /\ InStep /\ DataSoFar /\ FdsSoFar
    /\ BuffersAsSent /\ FdsUpToDrop /\ EndIsTheEnd

-----------------------------------------------------------------------------
(***************************************************************************)
(* Numbers and sequences                                                   *)
(***************************************************************************)
\* Induction over the numbers up to n, for a set.
LEMMA UpTo ==
    ASSUME NEW n \in Nat, NEW T, n >= 1 => 1 \in T,
           \A i \in 1 .. n - 1 : i \in T => i + 1 \in T
    PROVE  \A i \in 1 .. n : i \in T
<1> DEFINE S == {i \in 1 .. n : i \notin T}
<1> SUFFICES ASSUME S # {} PROVE FALSE
  OBVIOUS
<1>1. S \in SUBSET Nat
  OBVIOUS
<1> HIDE DEF S
<1>2. PICK x \in S : \A y \in S : <<y, x>> \notin OpToRel(<, Nat)
  <2> DEFINE R == OpToRel(<, Nat)
  <2>1. IsWellFoundedOn(R, Nat)
    BY NatLessThanWellFounded
  <2> HIDE DEF R
  <2>2. \E x \in S : \A y \in S : <<y, x>> \notin R
    BY <1>1, <2>1, WFMin
  <2> QED
    BY <2>2 DEF R
<1>3. \A y \in S : ~(y < x)
  BY <1>1, <1>2 DEF OpToRel
<1>4. x \in 1 .. n /\ x \notin T
  BY DEF S
<1>5. x - 1 \in 1 .. n - 1 /\ x - 1 \notin S
  BY <1>3, <1>4
<1>6. x - 1 \in T
  BY <1>5 DEF S
<1> QED
  BY <1>4, <1>5, <1>6

LEMMA PlanFacts ==
    /\ Len(Plan) \in Nat
    /\ \A k \in 1 .. Len(Plan) : Plan[k].size \in Nat \ {0} /\ Plan[k].kind \in {"data", "fds"}
<1>1. Plan \in Seq(Call)
  BY SocketTransferAssumption
<1>2. Len(Plan) \in Nat /\ \A k \in 1 .. Len(Plan) : Plan[k] \in Call
  BY <1>1
<1>3. \A x \in Call : x.size \in Nat \ {0} /\ x.kind \in {"data", "fds"}
  BY DEF Call
<1> QED
  BY <1>2, <1>3

\* A sequence and the element that follows it.
LEMMA SnocFacts ==
    ASSUME NEW S, NEW s \in Seq(S), NEW e
    PROVE  /\ Len(s) \in Nat
           /\ \A i \in 1 .. Len(s) : Append(s, e)[i] = s[i] /\ s[i] \in S
           /\ Append(s, e)[Len(s) + 1] = e
OBVIOUS

LEMMA StreamFacts ==
    ASSUME TransferTypeOK
    PROVE  /\ Len(pipe) \in Nat
           /\ \A i \in 1 .. Len(pipe) : Stream[i] = pipe[i] /\ pipe[i] \in UnitType
           /\ Stream[Len(pipe) + 1] = NextToSend
BY SnocFacts DEF TransferTypeOK, Stream

LEMMA AfterIs ==
    ASSUME NEW c, NEW x
    PROVE  After([call |-> c, no |-> x]) = IF x < Plan[c].size THEN [call |-> c, no |-> x + 1]
                                           ELSE [call |-> c + 1, no |-> 1]
BY DEF After

LEMMA TransferInitHolds == TransferInit => TransferInv
<1> SUFFICES ASSUME TransferInit PROVE TransferInv
  OBVIOUS
<1>1. /\ pipe = <<>> /\ sender = "runs" /\ sDone = 0 /\ sPos = 0 /\ receiver = "runs"
      /\ answers = <<>> /\ buffer = <<>> /\ rfd = Junk /\ control = TRUE /\ full = FALSE
  BY DEF TransferInit
<1>2. Len(pipe) = 0 /\ Len(answers) = 0 /\ Len(buffer) = 0 /\ DOMAIN answers = {}
  BY <1>1
<1>3. TransferTypeOK
  <2>1. Junk \in StoredType
    BY DEF StoredType
  <2>2. pipe \in Seq(UnitType) /\ answers \in Seq(Seq(StoredType)) /\ buffer \in Seq(StoredType)
    BY <1>1
  <2>3. sDone \in 0 .. Len(Plan) /\ sPos \in Nat /\ Len(answers) <= Len(Plan)
    BY <1>1, <1>2, PlanFacts
  <2>4. rfd \in StoredType /\ control \in BOOLEAN /\ full \in BOOLEAN
    BY <1>1, <2>1
  <2> QED
    BY <1>1, <2>2, <2>3, <2>4 DEF TransferTypeOK
<1>4. CallsOpen
  BY <1>1, <1>2, PlanFacts DEF CallsOpen
<1>5. InStep
  BY <1>1, <1>2, <1>3, StreamFacts DEF InStep, NextToSend, NextToReceive
<1>6. DataSoFar /\ FdsSoFar
  BY <1>1, <1>2 DEF DataSoFar, DataUpTo, FdsSoFar, FdsUpTo
<1>7. BuffersAsSent /\ FdsUpToDrop /\ EndIsTheEnd
  BY <1>1, <1>2 DEF BuffersAsSent, FdsUpToDrop, EndIsTheEnd
<1> QED
  BY <1>3, <1>4, <1>5, <1>6, <1>7 DEF TransferInv

-----------------------------------------------------------------------------
(***************************************************************************)
(* Sending                                                                 *)
(***************************************************************************)
\* Some of the units of the present call are put in the socket.
LEMMA StreamGrows ==
    ASSUME TransferInv, Sending, NEW us \in Seq(UnitType), Len(us) >= 1,
           \A i \in 1 .. Len(us) : us[i] = Unit(sPos + i),
           sPos + Len(us) <= ToSend.size, pipe' = pipe \o us, Sent(Len(us))
    PROVE  TransferInv'
<1> DEFINE n == Len(us)
<1> DEFINE l == Len(pipe)
<1>0. TransferTypeOK /\ sDone + 1 \in 1 .. Len(Plan) /\ sPos \in Nat /\ n \in Nat /\ l \in Nat
  BY PlanFacts DEF TransferInv, TransferTypeOK, Sending
<1>1. /\ UNCHANGED <<sender, receiver, answers, buffer, rfd, control, full>>
      /\ sDone' = IF sPos + n = ToSend.size THEN sDone + 1 ELSE sDone
      /\ sPos' = IF sPos + n = ToSend.size THEN 0 ELSE sPos + n
  BY DEF Sent, recvVars
<1>2. ToSend.size \in Nat \ {0}
  BY <1>0, PlanFacts DEF ToSend
<1>3. /\ pipe' \in Seq(UnitType) /\ Len(pipe') = l + n
      /\ \A i \in 1 .. l : pipe'[i] = pipe[i]
      /\ \A i \in 1 .. n : pipe'[l + i] = Unit(sPos + i)
  <2>1. pipe \in Seq(UnitType)
    BY <1>0 DEF TransferTypeOK
  <2>2. /\ pipe \o us \in Seq(UnitType) /\ Len(pipe \o us) = Len(pipe) + Len(us)
        /\ \A i \in 1 .. Len(pipe) : (pipe \o us)[i] = pipe[i]
        /\ \A i \in 1 .. Len(us) : (pipe \o us)[Len(pipe) + i] = us[i]
    BY <2>1
  <2> QED
    BY <2>2
<1>4. TransferTypeOK'
  BY <1>0, <1>1, <1>2, <1>3 DEF TransferTypeOK
<1>5. CallsOpen'
  <2>1. IF sDone' < Len(Plan) THEN sPos' < Plan[sDone' + 1].size ELSE sPos' = 0
    <3>1. CASE sPos + n = ToSend.size
      BY <1>0, <1>1, <3>1, PlanFacts DEF Sending
    <3>2. CASE sPos + n # ToSend.size
      BY <1>0, <1>1, <1>2, <3>2 DEF ToSend
    <3> QED
      BY <3>1, <3>2
  <2> QED
    BY <1>1, <2>1 DEF TransferInv, CallsOpen
<1>6. InStep'
  <2> SUFFICES ASSUME receiver = "runs"
               PROVE  /\ Stream'[1] = NextToReceive'
                      /\ \A i \in 1 .. Len(pipe') : Stream'[i + 1] = After(Stream'[i])
    BY <1>1 DEF InStep, After
  <2>1. /\ \A i \in 1 .. l : Stream[i] = pipe[i]
        /\ Stream[l + 1] = Unit(sPos + 1)
    BY <1>0, StreamFacts DEF NextToSend, Unit
  <2>2. /\ \A i \in 1 .. l + n : Stream'[i] = pipe'[i]
        /\ Stream'[l + n + 1] = NextToSend'
    <3>1. /\ \A i \in 1 .. Len(pipe') : Stream'[i] = pipe'[i]
          /\ Stream'[Len(pipe') + 1] = NextToSend'
      BY <1>3, SnocFacts DEF Stream
    <3> QED
      BY <1>3, <1>4, <3>1
  <2>3. Stream[1] = NextToReceive /\ \A i \in 1 .. l : Stream[i + 1] = After(Stream[i])
    BY DEF TransferInv, InStep
  <2>4. n >= 1 /\ \A i \in 1 .. l + 1 : Stream'[i] = Stream[i]
    <3>1. l + 1 \in 1 .. l + n /\ 1 \in 1 .. n /\ \A i \in 1 .. l : i \in 1 .. l + n
      BY <1>0
    <3> QED
      BY <1>0, <1>3, <2>1, <2>2, <3>1
  <2>5. NextToReceive' = NextToReceive
    BY <1>1 DEF NextToReceive
  <2>6. ASSUME NEW i \in 1 .. l + n PROVE Stream'[i + 1] = After(Stream'[i])
    <3>1. CASE i <= l
      <4>1. i \in 1 .. l /\ i \in 1 .. l + 1 /\ i + 1 \in 1 .. l + 1
        BY <1>0, <3>1
      <4> QED
        BY <2>3, <2>4, <4>1
    <3>2. CASE i > l
      <4>1. PICK j \in 1 .. n : i = l + j
        <5>1. i - l \in 1 .. n /\ i = l + (i - l)
          BY <1>0, <3>2
        <5> QED
          BY <5>1
      <4>2. Stream'[i] = Unit(sPos + j)
        BY <1>3, <2>2, <4>1
      <4>3. CASE j < n
        <5>1. j + 1 \in 1 .. n /\ i + 1 = l + (j + 1) /\ i + 1 \in 1 .. l + n
          BY <1>0, <4>1, <4>3
        <5>2. Stream'[i + 1] = Unit(sPos + (j + 1))
          BY <1>3, <2>2, <5>1
        <5>3. sPos + j < Plan[sDone + 1].size
          BY <1>0, <1>2, <4>3 DEF ToSend
        <5>4. sPos + (j + 1) = (sPos + j) + 1
          BY <1>0
        <5> QED
          BY <4>2, <5>2, <5>3, <5>4, AfterIs DEF Unit
      <4>4. CASE j = n
        <5>1. Stream'[i + 1] = NextToSend'
          BY <2>2, <4>1, <4>4
        <5>2. CASE sPos + n = ToSend.size
          <6>1. NextToSend' = [call |-> (sDone + 1) + 1, no |-> 1]
            <7>1. sDone' + 1 = (sDone + 1) + 1 /\ sPos' + 1 = 1
              BY <1>1, <5>2
            <7> QED
              BY <7>1 DEF NextToSend
          <6>2. ~(sPos + n < Plan[sDone + 1].size)
            BY <1>0, <1>2, <5>2 DEF ToSend
          <6> QED
            BY <4>2, <4>4, <5>1, <6>1, <6>2, AfterIs DEF Unit
        <5>3. CASE sPos + n # ToSend.size
          <6>1. NextToSend' = [call |-> sDone + 1, no |-> (sPos + n) + 1]
            <7>1. sDone' + 1 = sDone + 1 /\ sPos' + 1 = (sPos + n) + 1
              BY <1>1, <5>3
            <7> QED
              BY <7>1 DEF NextToSend
          <6>2. sPos + n < Plan[sDone + 1].size
            <7> DEFINE z == ToSend.size
            <7>1. sPos + n <= z /\ z \in Nat /\ sPos \in Nat /\ n \in Nat /\ sPos + n # z
              BY <1>0, <1>2, <5>3
            <7> HIDE DEF z, n
            <7>2. sPos + n < z
              BY ONLY <7>1
            <7> QED
              BY <7>2 DEF z, ToSend
          <6> QED
            BY <4>2, <4>4, <5>1, <6>1, <6>2, AfterIs DEF Unit
        <5> QED
          BY <5>2, <5>3
      <4> QED
        BY <1>0, <4>1, <4>3, <4>4
    <3> QED
      BY <1>0, <3>1, <3>2
  <2>7. Stream'[1] = NextToReceive'
    <3>1. 1 \in 1 .. l + 1
      BY <1>0
    <3> QED
      BY <2>3, <2>4, <2>5, <3>1
  <2> QED
    BY <1>3, <2>6, <2>7
<1>7. DataSoFar' /\ FdsSoFar'
  BY <1>1 DEF TransferInv, DataSoFar, DataUpTo, FdsSoFar, FdsUpTo, Receiving, ToReceive
<1>8. BuffersAsSent' /\ FdsUpToDrop'
  BY <1>1 DEF TransferInv, BuffersAsSent, FdsUpToDrop, Whole
<1>9. EndIsTheEnd'
  BY <1>1 DEF TransferInv, EndIsTheEnd, Sending
<1> QED
  BY <1>4, <1>5, <1>6, <1>7, <1>8, <1>9 DEF TransferInv

LEMMA WriteKeeps ==
    ASSUME TransferInv, NEW n \in 1 .. Room, Write(n)
    PROVE  TransferInv'
<1> DEFINE us == [i \in 1 .. n |-> Unit(sPos + i)]
<1>1. Sending /\ n <= ToSend.size - sPos /\ pipe' = pipe \o us /\ Sent(n)
  BY DEF Write
<1>2. sDone + 1 \in Nat /\ sPos \in Nat /\ n \in Nat /\ n >= 1 /\ ToSend.size \in Nat
  BY <1>1, PlanFacts, SocketTransferAssumption DEF TransferInv, TransferTypeOK, Sending, ToSend
<1>3. us \in Seq(UnitType) /\ Len(us) = n /\ \A i \in 1 .. n : us[i] = Unit(sPos + i)
  <2>1. \A i \in 1 .. n : Unit(sPos + i) \in UnitType
    BY <1>2 DEF Unit, UnitType
  <2> QED
    BY <1>2, <2>1
<1>4. sPos + Len(us) <= ToSend.size
  BY <1>1, <1>2, <1>3
<1> HIDE DEF us
<1> QED
  BY <1>1, <1>2, <1>3, <1>4, StreamGrows

LEMMA SendFdKeeps == TransferInv /\ SendFd => TransferInv'
<1> SUFFICES ASSUME TransferInv, SendFd PROVE TransferInv'
  OBVIOUS
<1> DEFINE us == <<Unit(sPos + 1)>>
<1>1. Sending /\ pipe' = Append(pipe, Unit(sPos + 1)) /\ Sent(1)
  BY DEF SendFd
<1>2. /\ sDone + 1 \in Nat /\ sPos \in Nat /\ ToSend.size \in Nat /\ sPos < ToSend.size
      /\ pipe \in Seq(UnitType)
  BY <1>1, PlanFacts DEF TransferInv, TransferTypeOK, CallsOpen, Sending, ToSend
<1>3. Unit(sPos + 1) \in UnitType
  BY <1>2 DEF Unit, UnitType
<1>4. us \in Seq(UnitType) /\ Len(us) = 1 /\ us[1] = Unit(sPos + 1) /\ pipe' = pipe \o us
  BY <1>1, <1>2, <1>3
<1>5. sPos + Len(us) <= ToSend.size /\ \A i \in 1 .. Len(us) : us[i] = Unit(sPos + i)
  BY <1>2, <1>4
<1> HIDE DEF us
<1> QED
  BY <1>1, <1>4, <1>5, StreamGrows

-----------------------------------------------------------------------------
(***************************************************************************)
(* Receiving                                                               *)
(***************************************************************************)
\* The first units in the socket belong to the receiver's call.
LEMMA FirstUnits ==
    ASSUME TransferInv, Receiving, NEW n \in Nat, n <= Len(pipe), n <= Left
    PROVE  \A i \in 1 .. n : pipe[i] = [call |-> Len(answers) + 1, no |-> Len(buffer) + i]
<1> DEFINE r == Len(answers) + 1
<1> DEFINE b == Len(buffer)
<1> DEFINE T == {i \in 1 .. n : pipe[i] = [call |-> r, no |-> b + i]}
<1>1. /\ Len(pipe) \in Nat /\ b \in Nat /\ r \in 1 .. Len(Plan) /\ n <= Plan[r].size - b
      /\ Plan[r].size \in Nat
  BY PlanFacts DEF TransferInv, TransferTypeOK, Receiving, Left, ToReceive
<1>2. /\ \A i \in 1 .. Len(pipe) : Stream[i] = pipe[i]
      /\ \A i \in 1 .. Len(pipe) : Stream[i + 1] = After(Stream[i])
      /\ Stream[1] = [call |-> r, no |-> b + 1]
  BY StreamFacts DEF TransferInv, InStep, Receiving, NextToReceive
<1> HIDE DEF r, b
<1>3. n >= 1 => 1 \in T
  BY <1>1, <1>2
<1>4. ASSUME NEW i \in 1 .. n - 1, i \in T PROVE i + 1 \in T
  <2>1. i \in 1 .. Len(pipe) /\ i + 1 \in 1 .. Len(pipe) /\ i + 1 \in 1 .. n
    BY <1>1
  <2>2. pipe[i] = [call |-> r, no |-> b + i]
    BY <1>4
  <2>3. pipe[i + 1] = After([call |-> r, no |-> b + i])
    BY <1>2, <2>1, <2>2
  <2>4. b + i < Plan[r].size /\ (b + i) + 1 = b + (i + 1)
    BY <1>1
  <2>5. pipe[i + 1] = [call |-> r, no |-> b + (i + 1)]
    BY <2>3, <2>4, AfterIs
  <2> QED
    BY <2>1, <2>5
<1>5. \A i \in 1 .. n : i \in T
  <2> HIDE DEF T
  <2> QED
    BY <1>3, <1>4, UpTo
<1> QED
  BY <1>5 DEF r, b

\* What call number k stores is what it should, as far as it has come.
RightUpTo(k, stored, last, room) ==
    /\ Plan[k].kind = "data" => DataUpTo(k, stored)
    /\ Plan[k].kind = "fds" => FdsUpTo(k, stored, last, room)

\* What a call number k for descriptors may return.
FdsAnswer(k, s) ==
    \E m \in 0 .. Plan[k].size :
        s = [i \in 1 .. Plan[k].size |->
               IF m = 0 THEN Junk ELSE [call |-> k, no |-> IF i <= m THEN i ELSE m]]

\* A right answer to call number k.
RightAnswer(k, s) ==
    /\ Plan[k].kind = "data" => s = Whole(k)
    /\ Plan[k].kind = "fds" => FdsAnswer(k, s)

LEMMA AnswersAreRight ==
    AnswersAsSent <=> \A k \in DOMAIN answers : RightAnswer(k, answers[k])
BY DEF AnswersAsSent, BuffersAsSent, FdsUpToDrop, RightAnswer, FdsAnswer

\* A call that has all its units has a right answer.
LEMMA AllIsAnAnswer ==
    ASSUME NEW k, NEW got \in Seq(StoredType), NEW last, NEW room,
           Len(got) = Plan[k].size, RightUpTo(k, got, last, room)
    PROVE  RightAnswer(k, got)
<1>1. got = [i \in 1 .. Len(got) |-> got[i]]
  OBVIOUS
<1>2. ASSUME Plan[k].kind = "data" PROVE got = Whole(k)
  <2>1. \A i \in 1 .. Len(got) : got[i] = [call |-> k, no |-> i]
    BY <1>2 DEF RightUpTo, DataUpTo
  <2> QED
    BY <1>1, <2>1 DEF Whole
<1>3. ASSUME Plan[k].kind = "fds" PROVE FdsAnswer(k, got)
  <2>1. PICK m \in 0 .. Len(got) :
           \A i \in 1 .. Len(got) :
              got[i] = IF m = 0 THEN Junk ELSE [call |-> k, no |-> IF i <= m THEN i ELSE m]
    BY <1>3 DEF RightUpTo, FdsUpTo
  <2>2. got = [i \in 1 .. Len(got) |->
                 IF m = 0 THEN Junk ELSE [call |-> k, no |-> IF i <= m THEN i ELSE m]]
    BY <1>1, <2>1
  <2> QED
    BY <2>2 DEF FdsAnswer
<1> QED
  BY <1>2, <1>3 DEF RightAnswer

\* One right answer more.
LEMMA OneAnswerMore ==
    ASSUME answers \in Seq(Seq(StoredType)), AnswersAsSent,
           NEW got \in Seq(StoredType), RightAnswer(Len(answers) + 1, got),
           answers' = Append(answers, got)
    PROVE  AnswersAsSent'
<1> DEFINE r == Len(answers) + 1
<1>1. /\ DOMAIN answers' = 1 .. r /\ answers'[r] = got /\ r \in Nat
      /\ \A i \in 1 .. r : i = r \/ (i \in DOMAIN answers /\ answers'[i] = answers[i])
  OBVIOUS
<1>2. \A k \in DOMAIN answers : RightAnswer(k, answers[k])
  BY AnswersAreRight
<1>3. RightAnswer(r, got)
  OBVIOUS
<1> HIDE DEF r
<1>4. ASSUME NEW k \in 1 .. r PROVE RightAnswer(k, answers'[k])
  <2>1. CASE k = r
    BY <1>1, <1>3, <2>1
  <2>2. CASE k # r
    BY <1>1, <1>2, <2>2
  <2> QED
    BY <2>1, <2>2
<1>5. \A k \in DOMAIN answers' : RightAnswer(k, answers'[k])
  BY <1>1, <1>4
<1> QED
  BY <1>5 DEF AnswersAsSent, BuffersAsSent, FdsUpToDrop, RightAnswer, FdsAnswer, Whole

\* A call takes the first n units from the socket and stores as many: got is
\* what it has then, and last is in cmsgBuf.
Takes(n, got, last, room) ==
    /\ Receiving
    /\ n \in Nat \ {0} /\ n <= Len(pipe) /\ n <= Left
    /\ got \in Seq(StoredType) /\ Len(got) = Len(buffer) + n
    /\ last \in StoredType /\ room \in BOOLEAN
    /\ RightUpTo(Len(answers) + 1, got, last, room)

LEMMA TakesFacts ==
    ASSUME TransferInv, NEW n, NEW got, NEW last, NEW room, Takes(n, got, last, room)
    PROVE  /\ TransferTypeOK /\ receiver = "runs" /\ n \in Nat /\ n >= 1
           /\ Len(pipe) \in Nat /\ n <= Len(pipe)
           /\ Len(answers) \in Nat /\ Len(answers) + 1 \in 1 .. Len(Plan) /\ Len(Plan) \in Nat
           /\ Len(buffer) \in Nat
           /\ Plan[Len(answers) + 1].size \in Nat
           /\ Len(buffer) + n <= Plan[Len(answers) + 1].size
<1>1. /\ receiver = "runs" /\ Len(answers) < Len(Plan) /\ n \in Nat \ {0} /\ n <= Len(pipe)
      /\ n <= Plan[Len(answers) + 1].size - Len(buffer)
  BY DEF Takes, Receiving, Left, ToReceive
<1>2. TransferTypeOK /\ Len(pipe) \in Nat /\ Len(answers) \in Nat /\ Len(buffer) \in Nat
  BY DEF TransferInv, TransferTypeOK
<1>3. Len(answers) + 1 \in 1 .. Len(Plan) /\ Len(Plan) \in Nat
  BY <1>1, <1>2, PlanFacts
<1>4. Plan[Len(answers) + 1].size \in Nat
  BY <1>3, PlanFacts
<1> QED
  BY <1>1, <1>2, <1>3, <1>4

\* What the two branches of Stored leave.
LEMMA StoredIs ==
    ASSUME TransferInv, NEW n, NEW got, NEW last, NEW room,
           Takes(n, got, last, room), Stored(got, last, room)
    PROVE  \/ /\ Len(buffer) + n = Plan[Len(answers) + 1].size
              /\ answers' = Append(answers, got) /\ answers' \in Seq(Seq(StoredType))
              /\ Len(answers') = Len(answers) + 1
              /\ buffer' = <<>> /\ Len(buffer') = 0 /\ rfd' = Junk /\ control' = TRUE
           \/ /\ Len(buffer) + n < Plan[Len(answers) + 1].size
              /\ answers' = answers /\ buffer' = got /\ Len(buffer') = Len(buffer) + n
              /\ rfd' = last /\ control' = room
<1>1. Len(got) = Len(buffer) + n /\ got \in Seq(StoredType) /\ answers \in Seq(Seq(StoredType))
  BY DEF Takes, TransferInv, TransferTypeOK
<1>2. \/ Len(buffer) + n = Plan[Len(answers) + 1].size
      \/ Len(buffer) + n < Plan[Len(answers) + 1].size
  BY TakesFacts
<1>3. CASE Len(buffer) + n = Plan[Len(answers) + 1].size
  <2>1. answers' = Append(answers, got) /\ buffer' = <<>> /\ rfd' = Junk /\ control' = TRUE
    BY <1>1, <1>3 DEF Stored, ToReceive
  <2>2. /\ Append(answers, got) \in Seq(Seq(StoredType))
        /\ Len(Append(answers, got)) = Len(answers) + 1 /\ Len(<<>>) = 0
    BY <1>1
  <2> QED
    BY <1>3, <2>1, <2>2
<1>4. CASE Len(buffer) + n < Plan[Len(answers) + 1].size
  <2>1. Len(got) # ToReceive.size
    BY <1>1, <1>4, TakesFacts DEF ToReceive
  <2> QED
    BY <1>1, <1>4, <2>1 DEF Stored
<1> QED
  BY <1>2, <1>3, <1>4

\* The stream loses its first units.
LEMMA StreamShrinks ==
    ASSUME TransferInv, receiver = "runs", NEW n \in Nat, n >= 1, n <= Len(pipe),
           pipe' = SubSeq(pipe, n + 1, Len(pipe)), UNCHANGED <<sDone, sPos>>
    PROVE  /\ pipe' \in Seq(UnitType) /\ Len(pipe') \in Nat
           /\ Stream'[1] = After(pipe[n])
           /\ \A i \in 1 .. Len(pipe') : Stream'[i + 1] = After(Stream'[i])
<1> DEFINE l == Len(pipe)
<1>1. pipe \in Seq(UnitType) /\ l \in Nat
  BY DEF TransferInv, TransferTypeOK
<1>2. /\ pipe' \in Seq(UnitType) /\ Len(pipe') = l - n
      /\ \A i \in 1 .. l - n : pipe'[i] = pipe[n + i]
  BY <1>1
<1>3. /\ \A i \in 1 .. l : Stream[i] = pipe[i]
      /\ Stream[l + 1] = NextToSend
      /\ \A i \in 1 .. l : Stream[i + 1] = After(Stream[i])
  BY StreamFacts DEF TransferInv, InStep
<1>4. NextToSend' = NextToSend
  BY DEF NextToSend
<1>5. /\ \A i \in 1 .. Len(pipe') : Stream'[i] = pipe'[i]
      /\ Stream'[Len(pipe') + 1] = NextToSend
  <2>1. Stream' = Append(pipe', NextToSend)
    BY <1>4 DEF Stream
  <2>2. pipe' \in Seq(UnitType)
    BY <1>2
  <2>3. /\ \A i \in 1 .. Len(pipe') : Append(pipe', NextToSend)[i] = pipe'[i]
        /\ Append(pipe', NextToSend)[Len(pipe') + 1] = NextToSend
    BY ONLY <2>2, SnocFacts
  <2> QED
    BY <2>1, <2>3
<1>6. n \in Nat /\ n >= 1 /\ l - n \in Nat /\ l - n >= 0
  BY <1>1
<1>7. n <= l
  OBVIOUS
<1> HIDE DEF l
<1>8. \A i \in 1 .. l - n + 1 : Stream'[i] = Stream[n + i]
  <2> SUFFICES ASSUME NEW i \in 1 .. l - n + 1 PROVE Stream'[i] = Stream[n + i]
    OBVIOUS
  <2>1. CASE i = l - n + 1
    <3>1. n + i = l + 1
      BY ONLY <1>1, <1>6, <2>1
    <3> QED
      BY ONLY <1>2, <1>3, <1>5, <2>1, <3>1
  <2>2. CASE i # l - n + 1
    <3>1. i \in 1 .. l - n /\ n + i \in 1 .. l
      BY ONLY <1>1, <1>6, <2>2, i \in 1 .. l - n + 1
    <3> QED
      BY ONLY <1>2, <1>3, <1>5, <3>1
  <2> QED
    BY <2>1, <2>2
<1>9. ASSUME NEW i \in 1 .. Len(pipe') PROVE Stream'[i + 1] = After(Stream'[i])
  <2>1. i \in 1 .. l - n
    BY ONLY <1>2, i \in 1 .. Len(pipe')
  <2>2. /\ i \in 1 .. l - n + 1 /\ i + 1 \in 1 .. l - n + 1 /\ n + i \in 1 .. l
        /\ n + (i + 1) = (n + i) + 1
    BY ONLY <1>1, <1>6, <2>1
  <2> QED
    BY ONLY <1>3, <1>8, <2>2
<1>10. Stream'[1] = After(pipe[n])
  <2>1. n \in 1 .. l /\ 1 \in 1 .. l - n + 1
    BY ONLY <1>1, <1>6, <1>7
  <2> QED
    BY ONLY <1>3, <1>8, <2>1
<1> QED
  BY <1>2, <1>6, <1>9, <1>10

\* A call takes n units from the socket and stores as many.
LEMMA TakesKeeps ==
    ASSUME TransferInv, NEW n, NEW got, NEW last, NEW room,
           Takes(n, got, last, room), Stored(got, last, room),
           pipe' = SubSeq(pipe, n + 1, Len(pipe))
    PROVE  TransferInv'
<1> DEFINE r == Len(answers) + 1
<1> DEFINE b == Len(buffer)
<1> DEFINE z == Plan[r].size
<1>0. /\ TransferTypeOK /\ receiver = "runs" /\ n \in Nat /\ n >= 1 /\ n <= Len(pipe)
      /\ Len(answers) \in Nat /\ r \in 1 .. Len(Plan) /\ Len(Plan) \in Nat
      /\ b \in Nat /\ z \in Nat /\ b + n <= z
  BY TakesFacts
<1>1. UNCHANGED <<receiver, sender, sDone, sPos, full>>
  BY DEF Stored, sendVars
<1>2. \/ /\ b + n = z
         /\ answers' = Append(answers, got) /\ answers' \in Seq(Seq(StoredType))
         /\ Len(answers') = r
         /\ buffer' = <<>> /\ Len(buffer') = 0 /\ rfd' = Junk /\ control' = TRUE
      \/ /\ b + n < z
         /\ answers' = answers /\ buffer' = got /\ Len(buffer') = b + n
         /\ rfd' = last /\ control' = room
  BY StoredIs
<1>3. /\ pipe' \in Seq(UnitType) /\ Len(pipe') \in Nat
      /\ Stream'[1] = After(pipe[n])
      /\ \A i \in 1 .. Len(pipe') : Stream'[i + 1] = After(Stream'[i])
  BY <1>0, <1>1, StreamShrinks
<1>4. pipe[n] = [call |-> r, no |-> b + n]
  <2>1. Receiving /\ n <= Left /\ n \in 1 .. n
    BY <1>0 DEF Takes
  <2> QED
    BY <1>0, <2>1, FirstUnits
<1>5. TransferTypeOK'
  <2>1. answers' \in Seq(Seq(StoredType)) /\ Len(answers') <= Len(Plan)
    <3>1. answers \in Seq(Seq(StoredType))
      BY <1>0 DEF TransferTypeOK
    <3>2. r <= Len(Plan) /\ Len(answers) <= Len(Plan)
      BY <1>0
    <3> HIDE DEF r, b, z
    <3> QED
      BY ONLY <1>2, <3>1, <3>2
  <2>2. Junk \in StoredType /\ <<>> \in Seq(StoredType)
    BY DEF StoredType
  <2>3. got \in Seq(StoredType) /\ last \in StoredType /\ room \in BOOLEAN
    BY DEF Takes
  <2>4. buffer' \in Seq(StoredType) /\ rfd' \in StoredType /\ control' \in BOOLEAN
    BY ONLY <1>2, <2>2, <2>3
  <2> QED
    BY <1>0, <1>1, <1>3, <2>1, <2>4 DEF TransferTypeOK
<1>6. CallsOpen'
  <2>1. IF Len(answers') < Len(Plan) THEN Len(buffer') < Plan[Len(answers') + 1].size ELSE buffer' = <<>>
    <3>1. CASE b + n = z
      <4>1. Len(answers') = r /\ Len(buffer') = 0 /\ buffer' = <<>>
        BY ONLY <1>2, <3>1, <1>0
      <4>2. CASE r < Len(Plan)
        <5>1. r + 1 \in 1 .. Len(Plan)
          BY <1>0, <4>2
        <5>2. Plan[r + 1].size \in Nat \ {0}
          BY <5>1, PlanFacts
        <5> HIDE DEF r
        <5> QED
          BY ONLY <4>1, <4>2, <5>2
      <4>3. CASE ~(r < Len(Plan))
        BY ONLY <4>1, <4>3
      <4> QED
        BY <4>2, <4>3
    <3>2. CASE b + n < z
      <4>1. Len(answers') = Len(answers) /\ Len(buffer') = b + n
        BY ONLY <1>0, <1>2, <3>2
      <4>2. Len(answers) < Len(Plan)
        BY <1>0
      <4> QED
        BY ONLY <3>2, <4>1, <4>2
    <3> QED
      BY <1>2, <3>1, <3>2
  <2> QED
    BY <1>1, <2>1 DEF TransferInv, CallsOpen
<1>7. InStep'
  <2>1. Stream'[1] = NextToReceive'
    <3>1. Stream'[1] = After([call |-> r, no |-> b + n])
      BY ONLY <1>3, <1>4
    <3>2. CASE b + n = z
      <4>1. Len(answers') = r /\ Len(buffer') = 0
        BY ONLY <1>0, <1>2, <3>2
      <4>2. NextToReceive' = [call |-> r + 1, no |-> 1]
        <5> HIDE DEF r
        <5> QED
          BY ONLY <4>1 DEF NextToReceive
      <4>3. ~(b + n < z)
        BY ONLY <1>0, <3>2
      <4> HIDE DEF r, b
      <4> QED
        BY ONLY <3>1, <4>2, <4>3, AfterIs DEF z
    <3>3. CASE b + n < z
      <4>1. Len(answers') + 1 = r /\ Len(buffer') = b + n
        BY ONLY <1>0, <1>2, <3>3
      <4>2. NextToReceive' = [call |-> r, no |-> (b + n) + 1]
        <5> HIDE DEF r
        <5> QED
          BY ONLY <4>1 DEF NextToReceive
      <4> HIDE DEF r, b
      <4> QED
        BY ONLY <3>1, <3>3, <4>2, AfterIs DEF z
    <3> QED
      BY <1>2, <3>2, <3>3
  <2> QED
    BY ONLY <1>3, <2>1 DEF InStep, After
<1>8. DataSoFar' /\ FdsSoFar'
  <2>1. CASE b + n = z
    <3>1. Len(buffer') = 0 /\ rfd' = Junk
      BY ONLY <1>0, <1>2, <2>1
    <3> QED
      BY ONLY <3>1 DEF DataSoFar, DataUpTo, FdsSoFar, FdsUpTo
  <2>2. CASE b + n < z
    <3>1. answers' = answers /\ buffer' = got /\ rfd' = last /\ control' = room
      BY ONLY <1>0, <1>2, <2>2
    <3>2. RightUpTo(r, got, last, room)
      BY DEF Takes
    <3>3. Len(answers') + 1 = r /\ ToReceive' = Plan[r]
      BY <3>1 DEF ToReceive
    <3>4. RightUpTo(Len(answers') + 1, buffer', rfd', control')
      BY ONLY <3>1, <3>2, <3>3
    <3> QED
      BY ONLY <3>3, <3>4 DEF DataSoFar, FdsSoFar, RightUpTo, DataUpTo, FdsUpTo
  <2> QED
    BY <1>2, <2>1, <2>2
<1>9. BuffersAsSent' /\ FdsUpToDrop'
  <2>1. AnswersAsSent /\ answers \in Seq(Seq(StoredType))
    BY DEF TransferInv, TransferTypeOK, AnswersAsSent
  <2>2. CASE b + n = z
    <3>1. answers' = Append(answers, got)
      BY ONLY <1>0, <1>2, <2>2
    <3>2. got \in Seq(StoredType) /\ Len(got) = b + n /\ RightUpTo(r, got, last, room)
      BY DEF Takes
    <3>3. RightAnswer(r, got)
      BY ONLY <2>2, <3>2, AllIsAnAnswer
    <3>4. AnswersAsSent'
      BY ONLY <2>1, <3>1, <3>2, <3>3, OneAnswerMore
    <3> QED
      BY ONLY <3>4 DEF AnswersAsSent
  <2>3. CASE answers' = answers
    BY <2>1, <2>3 DEF AnswersAsSent, BuffersAsSent, FdsUpToDrop, Whole
  <2> QED
    BY <1>2, <2>2, <2>3
<1>10. EndIsTheEnd'
  BY <1>0, <1>1 DEF EndIsTheEnd
<1> QED
  BY <1>5, <1>6, <1>7, <1>8, <1>9, <1>10 DEF TransferInv
LEMMA ReadKeeps ==
    ASSUME TransferInv, NEW n \in 1 .. Room, Read(n)
    PROVE  TransferInv'
<1> DEFINE r == Len(answers) + 1
<1> DEFINE b == Len(buffer)
<1> DEFINE got == buffer \o SubSeq(pipe, 1, n)
<1>1. /\ Receiving /\ ToReceive.kind = "data" /\ n <= Left /\ n <= Len(pipe)
      /\ pipe' = SubSeq(pipe, n + 1, Len(pipe)) /\ Stored(got, rfd, control)
  BY DEF Read
<1>2. n \in Nat \ {0} /\ n \in Nat
  BY SocketTransferAssumption
<1>3. /\ pipe \in Seq(UnitType) /\ buffer \in Seq(StoredType) /\ b \in Nat /\ Len(pipe) \in Nat
      /\ rfd \in StoredType /\ control \in BOOLEAN
  BY DEF TransferInv, TransferTypeOK
<1>4. \A i \in 1 .. n : pipe[i] = [call |-> r, no |-> b + i] /\ pipe[i] \in StoredType
  <2>1. \A i \in 1 .. n : pipe[i] = [call |-> r, no |-> b + i]
    BY <1>1, <1>2, FirstUnits
  <2>2. \A i \in 1 .. n : pipe[i] \in UnitType
    BY <1>1, <1>2, <1>3
  <2> QED
    BY <2>1, <2>2 DEF StoredType
<1>5. /\ SubSeq(pipe, 1, n) \in Seq(StoredType) /\ Len(SubSeq(pipe, 1, n)) = n
      /\ \A i \in 1 .. n : SubSeq(pipe, 1, n)[i] = pipe[i]
  <2>1. /\ SubSeq(pipe, 1, n) \in Seq(UnitType) /\ Len(SubSeq(pipe, 1, n)) = n
        /\ \A i \in 1 .. n : SubSeq(pipe, 1, n)[i] = pipe[i]
    BY ONLY <1>1, <1>2, <1>3
  <2>2. Seq(UnitType) \subseteq Seq(StoredType)
    BY DEF StoredType
  <2> QED
    BY <2>1, <2>2
<1>6. /\ got \in Seq(StoredType) /\ Len(got) = b + n
      /\ \A i \in 1 .. b : got[i] = buffer[i]
      /\ \A i \in 1 .. n : got[b + i] = pipe[i]
  <2> DEFINE us == SubSeq(pipe, 1, n)
  <2>1. us \in Seq(StoredType) /\ Len(us) = n /\ \A i \in 1 .. n : us[i] = pipe[i]
    BY <1>5
  <2> HIDE DEF us
  <2>2. /\ buffer \o us \in Seq(StoredType) /\ Len(buffer \o us) = b + n
        /\ \A i \in 1 .. b : (buffer \o us)[i] = buffer[i]
        /\ \A i \in 1 .. n : (buffer \o us)[b + i] = us[i]
    BY <1>2, <1>3, <2>1
  <2> QED
    BY <2>1, <2>2 DEF us
<1>7. \A i \in 1 .. b : buffer[i] = [call |-> r, no |-> i]
  BY <1>1 DEF TransferInv, DataSoFar, DataUpTo
<1> HIDE DEF got, r, b
<1>8. DataUpTo(r, got)
  <2> SUFFICES ASSUME NEW i \in 1 .. Len(got) PROVE got[i] = [call |-> r, no |-> i]
    BY DEF DataUpTo
  <2>1. CASE i <= b
    <3>1. i \in 1 .. b
      BY <1>2, <1>3, <1>6, <2>1
    <3> QED
      BY <1>6, <1>7, <3>1
  <2>2. CASE i > b
    <3>1. i - b \in 1 .. n /\ b + (i - b) = i
      BY <1>2, <1>3, <1>6, <2>2
    <3> QED
      BY <1>4, <1>6, <3>1
  <2> QED
    BY <1>3, <1>6, <2>1, <2>2
<1>9. RightUpTo(r, got, rfd, control)
  BY <1>1, <1>8 DEF RightUpTo, ToReceive, r
<1>10. Takes(n, got, rfd, control)
  BY <1>1, <1>2, <1>3, <1>6, <1>9 DEF Takes, r, b
<1> QED
  BY <1>1, <1>10, TakesKeeps

\* A call for descriptors stores one more.
LEMMA OneDescriptorMore ==
    ASSUME NEW k, NEW stored \in Seq(StoredType), NEW last, NEW room,
           FdsUpTo(k, stored, last, room),
           NEW x, NEW more, x = IF more THEN [call |-> k, no |-> Len(stored) + 1] ELSE last,
           more => room, x \in StoredType
    PROVE  FdsUpTo(k, Append(stored, x), x, more)
<1> DEFINE s == Append(stored, x)
<1> DEFINE l == Len(stored)
<1>1. l \in Nat /\ Len(s) = l + 1 /\ s[l + 1] = x /\ \A i \in 1 .. l : s[i] = stored[i]
  OBVIOUS
<1>2. PICK m \in 0 .. l :
         /\ room => m = l
         /\ last = IF m = 0 THEN Junk ELSE [call |-> k, no |-> m]
         /\ \A i \in 1 .. l :
               stored[i] = IF m = 0 THEN Junk ELSE [call |-> k, no |-> IF i <= m THEN i ELSE m]
  BY DEF FdsUpTo
<1> HIDE DEF s, l
<1>3. \A i \in 1 .. l + 1 : i \in 1 .. l \/ i = l + 1
  BY <1>1
<1>4. CASE more
  <2>1. m = l /\ x = [call |-> k, no |-> l + 1] /\ l + 1 # 0 /\ l + 1 \in 0 .. l + 1
    BY <1>1, <1>2, <1>4 DEF l
  <2>2. ASSUME NEW i \in 1 .. l + 1
        PROVE  s[i] = [call |-> k, no |-> IF i <= l + 1 THEN i ELSE l + 1]
    <3>1. CASE i \in 1 .. l
      <4>1. l # 0 /\ i <= l /\ i <= l + 1
        BY <1>1, <3>1
      <4>2. s[i] = [call |-> k, no |-> i]
        BY <1>1, <1>2, <2>1, <3>1, <4>1
      <4> QED
        BY <4>1, <4>2
    <3>2. CASE i = l + 1
      BY <1>1, <2>1, <3>2
    <3> QED
      BY <1>3, <3>1, <3>2
  <2> QED
    BY <1>1, <1>4, <2>1, <2>2 DEF FdsUpTo, s
<1>5. CASE ~more
  <2>1. x = last /\ m \in 0 .. l + 1 /\ ~(l + 1 <= m)
    BY <1>1, <1>2, <1>5
  <2>2. ASSUME NEW i \in 1 .. l + 1
        PROVE  s[i] = IF m = 0 THEN Junk ELSE [call |-> k, no |-> IF i <= m THEN i ELSE m]
    BY <1>1, <1>2, <1>3, <2>1
  <2> QED
    BY <1>1, <1>2, <1>5, <2>1, <2>2 DEF FdsUpTo, s
<1> QED
  BY <1>4, <1>5

LEMMA ReceiveFdKeeps == TransferInv /\ ReceiveFd => TransferInv'
<1> SUFFICES ASSUME TransferInv, ReceiveFd PROVE TransferInv'
  OBVIOUS
<1> DEFINE r == Len(answers) + 1
<1> DEFINE b == Len(buffer)
<1> DEFINE got == Append(buffer, InCmsg)
<1>1. /\ Receiving /\ ToReceive.kind = "fds" /\ pipe # <<>>
      /\ pipe' = Tail(pipe) /\ Stored(got, InCmsg, Arrives)
  BY DEF ReceiveFd
<1>2. /\ pipe \in Seq(UnitType) /\ buffer \in Seq(StoredType) /\ b \in Nat /\ Len(pipe) \in Nat
      /\ rfd \in StoredType /\ control \in BOOLEAN /\ r \in 1 .. Len(Plan)
      /\ b < Plan[r].size /\ Plan[r].size \in Nat
  BY <1>1, PlanFacts DEF TransferInv, TransferTypeOK, CallsOpen, Receiving
<1>3. /\ 1 <= Len(pipe) /\ Head(pipe) = pipe[1] /\ Tail(pipe) = SubSeq(pipe, 1 + 1, Len(pipe))
  BY <1>1, <1>2
<1>4. 1 <= Left
  BY <1>2 DEF Left, ToReceive
<1>5. Head(pipe) = [call |-> r, no |-> b + 1] /\ Head(pipe) \in StoredType
  <2>1. 1 \in 1 .. 1 /\ 1 \in Nat /\ 1 \in 1 .. Len(pipe)
    BY <1>2, <1>3
  <2>2. pipe[1] = [call |-> r, no |-> b + 1]
    BY <1>1, <1>3, <1>4, <2>1, FirstUnits
  <2>3. pipe[1] \in UnitType
    BY <1>2, <2>1
  <2> QED
    BY <1>3, <2>2, <2>3 DEF StoredType
<1>6. Arrives \in BOOLEAN /\ (Arrives => control)
  BY DEF Arrives
<1>7. InCmsg \in StoredType
  BY <1>2, <1>5 DEF InCmsg
<1>8. got \in Seq(StoredType) /\ Len(got) = b + 1
  BY <1>2, <1>7
<1>9. FdsUpTo(r, got, InCmsg, Arrives)
  <2>1. FdsUpTo(r, buffer, rfd, control)
    BY <1>1 DEF TransferInv, FdsSoFar
  <2>2. InCmsg = IF Arrives THEN [call |-> r, no |-> b + 1] ELSE rfd
    BY <1>5 DEF InCmsg
  <2> QED
    BY ONLY <1>2, <1>6, <1>7, <2>1, <2>2, OneDescriptorMore
<1> HIDE DEF got
<1>10. RightUpTo(r, got, InCmsg, Arrives)
  BY <1>1, <1>9 DEF RightUpTo, ToReceive
<1>11. Takes(1, got, InCmsg, Arrives)
  BY <1>1, <1>3, <1>4, <1>6, <1>7, <1>8, <1>10 DEF Takes
<1> QED
  BY <1>1, <1>3, <1>11, TakesKeeps

-----------------------------------------------------------------------------
(***************************************************************************)
(* The end of a connection                                                 *)
(***************************************************************************)
\* A step of an end that is not in the middle of a transfer.
LEMMA EndKeeps ==
    ASSUME TransferInv, UNCHANGED <<sDone, sPos, answers, buffer, rfd, control, full>>,
           \/ pipe' = pipe /\ receiver' = receiver
           \/ pipe' \in Seq(UnitType) /\ receiver' # "runs",
           sender' \in {"runs", "gone"}, receiver' \in {"runs", "ended", "failed", "gone"},
           EndIsTheEnd'
    PROVE  TransferInv'
<1>1. TransferTypeOK'
  BY DEF TransferInv, TransferTypeOK
<1>2. CallsOpen'
  BY DEF TransferInv, CallsOpen
<1>3. InStep'
  BY DEF TransferInv, InStep, Stream, NextToSend, NextToReceive, After
<1>4. DataSoFar' /\ FdsSoFar'
  BY DEF TransferInv, DataSoFar, DataUpTo, FdsSoFar, FdsUpTo, Receiving, ToReceive
<1>5. BuffersAsSent' /\ FdsUpToDrop'
  BY DEF TransferInv, BuffersAsSent, FdsUpToDrop, Whole
<1> QED
  BY <1>1, <1>2, <1>3, <1>4, <1>5 DEF TransferInv

LEMMA SenderEndKeeps == TransferInv /\ SenderGoes => TransferInv'
<1> SUFFICES ASSUME TransferInv, SenderGoes PROVE TransferInv'
  OBVIOUS
<1>1. UNCHANGED <<sDone, sPos, answers, buffer, rfd, control, full, pipe, receiver>> /\ sender' = "gone"
  BY DEF SenderGoes, recvVars
<1>2. receiver' \in {"runs", "ended", "failed", "gone"}
  BY <1>1 DEF TransferInv, TransferTypeOK
<1>3. EndIsTheEnd'
  BY <1>1 DEF TransferInv, EndIsTheEnd
<1> QED
  BY <1>1, <1>2, <1>3, EndKeeps

LEMMA ReceiveFdFailsKeeps == TransferInv /\ ReceiveFdFails => TransferInv'
<1> SUFFICES ASSUME TransferInv, ReceiveFdFails PROVE TransferInv'
  OBVIOUS
<1>1. /\ UNCHANGED <<sDone, sPos, answers, buffer, rfd, control, full, sender>>
      /\ receiver' = "failed" /\ pipe # <<>> /\ pipe' = Tail(pipe)
  BY DEF ReceiveFdFails, sendVars
<1>2. pipe \in Seq(UnitType) /\ sender \in {"runs", "gone"}
  BY DEF TransferInv, TransferTypeOK
<1>3. pipe' \in Seq(UnitType)
  BY <1>1, <1>2
<1>4. EndIsTheEnd'
  BY <1>1 DEF EndIsTheEnd
<1> QED
  BY <1>1, <1>2, <1>3, <1>4, EndKeeps

\* With nothing on the way both ends are at the same place.
LEMMA ReceiveEndKeeps == TransferInv /\ ReceiveEnd => TransferInv'
<1> SUFFICES ASSUME TransferInv, ReceiveEnd PROVE TransferInv'
  OBVIOUS
<1>1. /\ UNCHANGED <<sDone, sPos, answers, buffer, rfd, control, full, sender, pipe>>
      /\ receiver' = "ended" /\ pipe = <<>> /\ sender = "gone" /\ receiver = "runs"
  BY DEF ReceiveEnd, Receiving, sendVars
<1>2. pipe \in Seq(UnitType) /\ sender \in {"runs", "gone"} /\ sDone \in Nat /\ Len(answers) \in Nat
  BY PlanFacts DEF TransferInv, TransferTypeOK
<1>3. Stream[1] = NextToSend
  <2>1. Len(pipe) = 0
    BY <1>1
  <2> QED
    BY <2>1, StreamFacts DEF TransferInv
<1>4. Stream[1] = NextToReceive
  BY <1>1 DEF TransferInv, InStep
<1>5. sDone + 1 = Len(answers) + 1
  BY <1>3, <1>4 DEF NextToSend, NextToReceive
<1>6. sDone <= Len(answers)
  BY <1>2, <1>5
<1>7. EndIsTheEnd'
  BY <1>1, <1>6 DEF EndIsTheEnd
<1> QED
  BY <1>1, <1>2, <1>7, EndKeeps

LEMMA ReceiverEndKeeps == TransferInv /\ ReceiverGoes => TransferInv'
<1> SUFFICES ASSUME TransferInv, ReceiverGoes PROVE TransferInv'
  OBVIOUS
<1>1. UNCHANGED <<sDone, sPos, answers, buffer, rfd, control, full, sender, pipe>> /\ receiver' = "gone"
  BY DEF ReceiverGoes, sendVars
<1>2. pipe \in Seq(UnitType) /\ sender \in {"runs", "gone"}
  BY DEF TransferInv, TransferTypeOK
<1>3. EndIsTheEnd'
  BY <1>1 DEF EndIsTheEnd
<1> QED
  BY <1>1, <1>2, <1>3, EndKeeps

\* How many descriptors the receiver has left is in no part of the invariant.
LEMMA OthersKeep == TransferInv /\ OthersUseDescriptors => TransferInv'
<1> SUFFICES ASSUME TransferInv, OthersUseDescriptors PROVE TransferInv'
  OBVIOUS
<1>1. UNCHANGED <<pipe, sender, sDone, sPos, receiver, answers, buffer, rfd, control>> /\ full' = ~full
  BY DEF OthersUseDescriptors, sendVars, recvVars
<1>2. TransferTypeOK'
  BY <1>1 DEF TransferInv, TransferTypeOK
<1>3. CallsOpen' /\ EndIsTheEnd'
  BY <1>1 DEF TransferInv, CallsOpen, EndIsTheEnd
<1>4. InStep'
  BY <1>1 DEF TransferInv, InStep, Stream, NextToSend, NextToReceive, After
<1>5. DataSoFar' /\ FdsSoFar'
  BY <1>1 DEF TransferInv, DataSoFar, DataUpTo, FdsSoFar, FdsUpTo, Receiving, ToReceive
<1>6. BuffersAsSent' /\ FdsUpToDrop'
  BY <1>1 DEF TransferInv, BuffersAsSent, FdsUpToDrop, Whole
<1> QED
  BY <1>2, <1>3, <1>4, <1>5, <1>6 DEF TransferInv

LEMMA TransferStutterKeeps == TransferInv /\ UNCHANGED transferVars => TransferInv'
<1> SUFFICES ASSUME TransferInv, UNCHANGED transferVars PROVE TransferInv'
  OBVIOUS
<1>1. UNCHANGED <<pipe, sender, sDone, sPos, receiver, answers, buffer, rfd, control, full>>
  BY DEF transferVars, sendVars, recvVars
<1>2. /\ sender \in {"runs", "gone"} /\ receiver \in {"runs", "ended", "failed", "gone"}
  BY DEF TransferInv, TransferTypeOK
<1>3. EndIsTheEnd'
  BY <1>1 DEF TransferInv, EndIsTheEnd
<1> QED
  BY <1>1, <1>2, <1>3, EndKeeps

LEMMA TransferHolds == SafeTransfer => []TransferInv
<1>1. TransferInv /\ [TransferNext]_transferVars => TransferInv'
  <2> SUFFICES ASSUME TransferInv, [TransferNext]_transferVars PROVE TransferInv'
    OBVIOUS
  <2>1. ASSUME NEW n \in 1 .. Room, Write(n) PROVE TransferInv'
    BY <2>1, WriteKeeps
  <2>2. CASE SendFd
    BY <2>2, SendFdKeeps
  <2>3. CASE SendFails \/ SenderCloses \/ SenderGoes
    BY <2>3, SenderEndKeeps DEF SendFails, SenderCloses
  <2>4. ASSUME NEW n \in 1 .. Room, Read(n) PROVE TransferInv'
    BY <2>4, ReadKeeps
  <2>5. CASE ReceiveFd
    BY <2>5, ReceiveFdKeeps
  <2>6. CASE ReceiveFdFails
    BY <2>6, ReceiveFdFailsKeeps
  <2>7. CASE ReceiveEnd
    BY <2>7, ReceiveEndKeeps
  <2>8. CASE ReceiverCloses \/ ReceiverGoes
    BY <2>8, ReceiverEndKeeps DEF ReceiverCloses
  <2>9. CASE OthersUseDescriptors
    BY <2>9, OthersKeep
  <2>10. CASE UNCHANGED transferVars
    BY <2>10, TransferStutterKeeps
  <2> QED
    BY <2>1, <2>2, <2>3, <2>4, <2>5, <2>6, <2>7, <2>8, <2>9, <2>10 DEF TransferNext, Send, Receive
<1> QED
  BY <1>1, TransferInitHolds, PTL DEF SafeTransfer

\* Every call of SocketHelper.cpp that succeeds at the receiver returns what
\* the sender's call of the same number has sent: data whole and in order,
\* descriptors in order up to the first that was dropped; for every plan of
\* calls, every socket size and every cut of the stream into system calls.
THEOREM AnswersAreAsSent == SafeTransfer => []AnswersAsSent
<1>1. TransferInv => AnswersAsSent
  BY DEF TransferInv, AnswersAsSent
<1> QED
  BY <1>1, TransferHolds, PTL

\* A 0 from readSocket or receiveFdsThroughSocket means that every call of the
\* sender that has succeeded was answered.
THEOREM ZeroMeansTheEnd == SafeTransfer => []EndIsTheEnd
<1>1. TransferInv => EndIsTheEnd
  BY DEF TransferInv
<1> QED
  BY <1>1, TransferHolds, PTL

-----------------------------------------------------------------------------
(***************************************************************************)
(* Setup: the invariant                                                    *)
(***************************************************************************)
\* The types of the variables.
SetupTypeOK ==
    /\ own \in [Socket -> Process \cup {NoProcess}]
    /\ family \in [Socket -> {"unix", "tcp"}]
    /\ st \in [Socket -> {"none", "new", "listening", "connected", "closed"}]
    /\ queued \in [Socket -> Seq(Socket)]
    /\ name \in [Callers \cup {NoProcess} -> Socket \cup {None}]
    /\ port \in Socket \cup {None} /\ cutter \in Socket \cup {None}
    /\ pc \in [Process -> {"idle", "option", "unlink", "bind", "listen", "connect", "stat",
                           "unlinkCaller"}]
    /\ cur \in [Process -> Socket \cup {None}] /\ peer \in [Process -> Socket \cup {None}]
    /\ kept \in [Process -> SUBSET Socket] /\ zero \in [Process -> Socket \cup {Stdin, None}]
    /\ turned \in SUBSET Socket

\* Sockets are numbered as they are created.
Numbered == \E n \in 0 .. MaxSockets : Created = 1 .. n

\* What a process works at and what it was given are its own, and open.
Mine(p, s) == s \in Open /\ own[s] = p
HeldBy(p) ==
    /\ \A s \in kept[p] : Mine(p, s)
    /\ IF pc[p] = "idle" THEN cur[p] = None ELSE Mine(p, cur[p]) /\ cur[p] \notin kept[p]
Held ==
    /\ \A s \in Created : own[s] \in Process
    /\ \A p \in Process : HeldBy(p)

\* Names are for Unix sockets, the port is for TCP.
Families ==
    /\ \A x \in Callers \cup {NoProcess} :
          name[x] # None => name[x] \in Created /\ family[name[x]] = "unix"
    /\ port # None => port \in Created /\ family[port] = "tcp"

\* A server's socket has its name or its port, unless another took the name.
Bound(s) == IF family[s] = "tcp" THEN port = s ELSE name[NoProcess] = s \/ cutter # s

\* The socket of a caller that has connected.
Called(s) == s \in Created /\ own[s] \in Callers /\ st[s] # "new"

\* Its process has another one for Unix, or its name is this one's.
Double(s) == \E d \in Created \ {s} : own[d] = own[s] /\ family[d] = "unix"
Named(s) == name[own[s]] = s \/ Double(s)

\* Where a process is, and with what kind of socket.
AtWork(p, s) ==
    /\ pc[p] \in {"option", "unlink", "bind", "listen", "connect"} => st[s] = "new"
    /\ pc[p] = "unlink" \/ (pc[p] = "bind" /\ p \in Callers) => family[s] = "unix"
    /\ pc[p] = "option" => family[s] = "tcp"
    /\ pc[p] = "listen" => p \in Servers /\ Bound(s)
    /\ pc[p] = "connect" => p \in Callers /\ (family[s] = "unix" => Named(s))

\* It is accepting a call.
Accepting(p) == pc[p] \in {"stat", "unlinkCaller"}
Accepts(p, s) == Called(s) /\ family[s] = "unix" /\ (pc[p] = "stat" => Named(s))

Stages ==
    \A p \in Process : \A s \in Socket :
        /\ s = cur[p] => AtWork(p, s)
        /\ s = peer[p] /\ Accepting(p) => Accepts(p, s)
Peers == \A p \in Process : Accepting(p) => peer[p] \in Socket

\* What the listening sockets have queued.
InQueue(s, l) == \E i \in 1 .. Len(queued[l]) : queued[l][i] = s
Queues ==
    \A l, s \in Socket : InQueue(s, l) =>
        /\ l \in Created /\ Called(s) /\ family[s] = family[l]
        /\ family[l] = "unix" => Named(s)

\* A caller's socket waits at one place at most.
Distinct(q) == \A i, j \in 1 .. Len(q) : q[i] = q[j] => i = j
Once ==
    /\ \A l \in Socket : Distinct(queued[l])
    /\ \A l, m, s \in Socket : InQueue(s, l) /\ InQueue(s, m) => l = m
    /\ \A p \in Process : \A s \in Socket : Accepting(p) /\ s = peer[p] =>
          /\ \A l \in Socket : ~InQueue(s, l)
          /\ \A q \in Process : Accepting(q) /\ s = peer[q] => q = p

SetupInv ==
    /\ SetupTypeOK /\ Numbered /\ Held /\ Families /\ Stages /\ Peers /\ Queues /\ Once
    /\ SetupLeaksNothing /\ OnlyAServerCutsOff
    /\ turned \subseteq Created /\ OnlyItsDoubleTurnsAway

LEMMA SetupInitHolds == Init => SetupInv
<1> SUFFICES ASSUME Init PROVE SetupInv
  OBVIOUS
<1>1. Created = {} /\ Open = {} /\ \A l \in Socket : queued[l] = <<>> /\ Len(queued[l]) = 0
  BY DEF Init, Created, Open
<1>2. SetupTypeOK
  BY DEF Init, SetupTypeOK
<1>3. Numbered
  <2>1. 0 \in 0 .. MaxSockets /\ 1 .. 0 = {}
    BY SocketSetupAssumption
  <2> QED
    BY <1>1, <2>1 DEF Numbered
<1>4. Held
  BY <1>1 DEF Init, Held, HeldBy, Mine
<1>5. Families
  BY DEF Init, Families
<1>6. Stages /\ Peers
  BY DEF Init, Stages, Peers, AtWork, Accepting, Socket, None
<1>7. Queues /\ Once
  BY <1>1 DEF Init, Queues, Once, InQueue, Distinct, Accepting
<1>8. SetupLeaksNothing /\ OnlyAServerCutsOff /\ turned \subseteq Created /\ OnlyItsDoubleTurnsAway
  BY <1>1 DEF Init, SetupLeaksNothing, OnlyAServerCutsOff, OnlyItsDoubleTurnsAway, Open
<1> QED
  BY <1>2, <1>3, <1>4, <1>5, <1>6, <1>7, <1>8 DEF SetupInv

LEMMA KindsOfProcess ==
    /\ Servers \cap Callers = {} /\ NoProcess \notin Servers /\ NoProcess \notin Callers
    /\ Process = Servers \cup Callers
    /\ None \notin Socket /\ Stdin \notin Socket /\ None # Stdin
    /\ \A p \in Servers : NameOf(p) = NoProcess
    /\ \A p \in Callers : NameOf(p) = p
BY SocketSetupAssumption DEF Process, None, Stdin, Socket, NameOf

LEMMA CreatedOpen ==
    /\ Open \subseteq Created /\ Created \subseteq Socket
    /\ \A s \in Socket : st[s] = "none" => s \notin Created
BY DEF Open, Created

-----------------------------------------------------------------------------
(***************************************************************************)
(* New sockets                                                             *)
(***************************************************************************)
\* A new socket is in nobody's hands yet.
Fresh(s, p, f, x) ==
    /\ s \notin Created /\ Created' = Created \cup {s} /\ Open' = Open \cup {s} /\ Numbered'
    /\ own'[s] = p /\ family'[s] = f /\ st'[s] = x
    /\ \A t \in Created : /\ t # s /\ t \in Socket
                          /\ own'[t] = own[t] /\ family'[t] = family[t] /\ st'[t] = st[t]
    /\ own' \in [Socket -> Process \cup {NoProcess}]
    /\ family' \in [Socket -> {"unix", "tcp"}]
    /\ st' \in [Socket -> {"none", "new", "listening", "connected", "closed"}]
    /\ zero' \in [Process -> Socket \cup {Stdin, None}]
    /\ zero'[p] = IF zero[p] = None THEN s ELSE zero[p]
    /\ \A q \in Process \ {p} : zero'[q] = zero[q]

LEMMA FreshSocket ==
    ASSUME SetupInv, NEW p \in Process, NEW f \in {"unix", "tcp"}, NEW s \in Socket,
           NewSocket(s, p, f), NEW x \in {"new", "connected"}, st' = [st EXCEPT ![s] = x]
    PROVE  Fresh(s, p, f, x)
<1>1. PICK n \in 0 .. MaxSockets : Created = 1 .. n
  BY DEF SetupInv, Numbered
<1>2. Cardinality(Created) = n
  <2>1. n \in Nat /\ 1 \in Nat
    BY SocketSetupAssumption
  <2>2. Cardinality(1 .. n) = IF 1 > n THEN 0 ELSE n - 1 + 1
    BY <2>1, FS_Interval
  <2>3. Cardinality(1 .. n) = n
    BY <2>1, <2>2
  <2> QED
    BY <1>1, <2>3
<1>3. s = n + 1 /\ n + 1 \in 0 .. MaxSockets
  BY <1>1, <1>2, SocketSetupAssumption DEF NewSocket
<1>4. s \notin Created /\ st[s] = "none"
  <2>1. s \notin Created
    BY <1>1, <1>3, SocketSetupAssumption
  <2> QED
    BY <2>1 DEF Created
<1>5. /\ own \in [Socket -> Process \cup {NoProcess}] /\ family \in [Socket -> {"unix", "tcp"}]
      /\ st \in [Socket -> {"none", "new", "listening", "connected", "closed"}]
      /\ zero \in [Process -> Socket \cup {Stdin, None}]
  BY DEF SetupInv, SetupTypeOK
<1>6. /\ own' = [own EXCEPT ![s] = p] /\ family' = [family EXCEPT ![s] = f]
      /\ zero' = [zero EXCEPT ![p] = IF @ = None THEN s ELSE @]
  BY DEF NewSocket
<1>7. /\ own'[s] = p /\ family'[s] = f /\ st'[s] = x
      /\ \A t \in Socket \ {s} : own'[t] = own[t] /\ family'[t] = family[t] /\ st'[t] = st[t]
  BY <1>5, <1>6
<1>8. Created' = Created \cup {s}
  BY <1>7 DEF Created
<1>9. Open' = Open \cup {s}
  BY <1>7 DEF Open
<1>10. Numbered'
  <2>1. 1 .. n \cup {s} = 1 .. n + 1
    BY <1>1, <1>3, SocketSetupAssumption
  <2> QED
    BY <1>1, <1>3, <1>8, <2>1 DEF Numbered
<1>11. /\ own' \in [Socket -> Process \cup {NoProcess}] /\ family' \in [Socket -> {"unix", "tcp"}]
       /\ st' \in [Socket -> {"none", "new", "listening", "connected", "closed"}]
       /\ zero' \in [Process -> Socket \cup {Stdin, None}]
  BY <1>5, <1>6
<1>12. /\ zero'[p] = IF zero[p] = None THEN s ELSE zero[p]
       /\ \A q \in Process \ {p} : zero'[q] = zero[q]
  BY <1>5, <1>6
<1> QED
  BY <1>4, <1>7, <1>8, <1>9, <1>10, <1>11, <1>12, CreatedOpen DEF Fresh

\* Sockets keep their process and their family.
OldKeep == Created \subseteq Created' /\ \A t \in Created : own'[t] = own[t] /\ family'[t] = family[t]

LEMMA DoubleStays ==
    ASSUME OldKeep, NEW t \in Created, Double(t)
    PROVE  Double(t)'
<1>1. PICK d \in Created \ {t} : own[d] = own[t] /\ family[d] = "unix"
  BY DEF Double
<1>2. d \in Created' \ {t} /\ own'[d] = own'[t] /\ family'[d] = "unix"
  BY <1>1 DEF OldKeep
<1> QED
  BY <1>2 DEF Double

LEMMA NamedStays ==
    ASSUME OldKeep, name' = name, NEW t \in Created, Named(t)
    PROVE  Named(t)'
<1>1. own'[t] = own[t]
  BY DEF OldKeep
<1>2. CASE Double(t)
  BY <1>2, DoubleStays DEF Named
<1>3. CASE name[own[t]] = t
  BY <1>1, <1>3 DEF Named
<1> QED
  BY <1>2, <1>3 DEF Named

\* Whoever was turned away has a double still.
LEMMA TurnedStay ==
    ASSUME SetupInv, OldKeep, turned' = turned
    PROVE  turned' \subseteq Created' /\ OnlyItsDoubleTurnsAway'
<1>1. turned \subseteq Created /\ \A s \in turned : Double(s)
  BY DEF SetupInv, OnlyItsDoubleTurnsAway, Double
<1>2. \A s \in turned : Double(s)'
  BY <1>1, DoubleStays
<1>3. turned' \subseteq Created'
  BY <1>1 DEF OldKeep
<1> QED
  BY <1>2, <1>3 DEF OnlyItsDoubleTurnsAway, Double

\* What leaves a queue does not disturb the others in it.
LEMMA QueuesKeepNames ==
    ASSUME SetupInv, OldKeep,
           \A t \in Created : st[t] # "new" => st'[t] # "new",
           \A l, s \in Socket : InQueue(s, l)' => InQueue(s, l),
           \A l, s \in Socket : InQueue(s, l) /\ Called(s) /\ Named(s) => Named(s)'
    PROVE  Queues'
<1>1. ASSUME NEW l \in Socket, NEW s \in Socket, InQueue(s, l)
      PROVE  /\ l \in Created' /\ Called(s)' /\ family'[s] = family'[l]
             /\ family'[l] = "unix" => Named(s)'
  <2>1. /\ l \in Created /\ Called(s) /\ family[s] = family[l]
        /\ family[l] = "unix" => Named(s)
    BY <1>1 DEF SetupInv, Queues
  <2>2. s \in Created /\ l \in Created' /\ family'[s] = family'[l] /\ family'[l] = family[l]
    BY <2>1 DEF Called, OldKeep
  <2>3. Called(s)'
    BY <2>1, <2>2 DEF Called, OldKeep
  <2> QED
    BY <1>1, <2>1, <2>2, <2>3
<1> QED
  BY <1>1 DEF Queues

LEMMA QueuesShrink ==
    ASSUME SetupInv, OldKeep, name' = name,
           \A t \in Created : st[t] # "new" => st'[t] # "new",
           \A l, s \in Socket : InQueue(s, l)' => InQueue(s, l)
    PROVE  Queues'
<1>1. \A s \in Socket : Called(s) /\ Named(s) => Named(s)'
  BY NamedStays DEF Called
<1> QED
  BY <1>1, QueuesKeepNames

LEMMA QueuesStay ==
    ASSUME SetupInv, OldKeep, queued' = queued, name' = name,
           \A t \in Created : st[t] # "new" => st'[t] # "new"
    PROVE  Queues' /\ (\A l, s \in Socket : InQueue(s, l)' <=> InQueue(s, l))
<1>1. \A l, s \in Socket : InQueue(s, l)' <=> InQueue(s, l)
  BY DEF InQueue
<1>2. Queues'
  BY <1>1, QueuesShrink
<1> QED
  BY <1>1, <1>2

\* A process that does nothing stays where it is.
LEMMA StageKeepsNames ==
    ASSUME SetupInv, OldKeep,
           \A t \in Created : st[t] # "new" => st'[t] # "new",
           NEW q \in Process, NEW s \in Socket, pc'[q] = pc[q], cur'[q] = cur[q], peer'[q] = peer[q],
           s = cur[q] => st'[s] = st[s],
           s = cur[q] /\ pc[q] = "connect" /\ Named(s) => Named(s)',
           s = cur[q] /\ pc[q] = "listen" /\ Bound(s) => Bound(s)',
           s = peer[q] /\ pc[q] = "stat" /\ Called(s) /\ Named(s) => Named(s)'
    PROVE  /\ s = cur'[q] => AtWork(q, s)'
           /\ s = peer'[q] /\ Accepting(q)' => Accepts(q, s)'
<1>1. ASSUME s = cur[q] PROVE AtWork(q, s)'
  <2>1. AtWork(q, s)
    BY <1>1 DEF SetupInv, Stages
  <2>2. s \in Created /\ pc[q] # "idle"
    BY <1>1, KindsOfProcess, CreatedOpen DEF SetupInv, Held, HeldBy, Mine
  <2>3. family'[s] = family[s] /\ st'[s] = st[s]
    BY <1>1, <2>2 DEF OldKeep
  <2> QED
    BY <1>1, <2>1, <2>3 DEF AtWork
<1>2. ASSUME s = peer[q], Accepting(q) PROVE Accepts(q, s)'
  <2>1. Accepts(q, s)
    BY <1>2 DEF SetupInv, Stages
  <2>2. s \in Created
    BY <2>1 DEF Accepts, Called
  <2>3. family'[s] = family[s] /\ own'[s] = own[s] /\ s \in Created'
    BY <2>2 DEF OldKeep
  <2>4. Called(s)'
    BY <2>1, <2>2, <2>3 DEF Accepts, Called
  <2> QED
    BY <1>2, <2>1, <2>3, <2>4 DEF Accepts
<1> QED
  BY <1>1, <1>2 DEF Accepting

LEMMA StageStays ==
    ASSUME SetupInv, OldKeep, name' = name, port' = port, cutter' = cutter,
           \A t \in Created : st[t] # "new" => st'[t] # "new",
           NEW q \in Process, NEW s \in Socket, pc'[q] = pc[q], cur'[q] = cur[q], peer'[q] = peer[q],
           s = cur[q] => st'[s] = st[s]
    PROVE  /\ s = cur'[q] => AtWork(q, s)'
           /\ s = peer'[q] /\ Accepting(q)' => Accepts(q, s)'
<1>1. s = cur[q] => s \in Created
  BY KindsOfProcess, CreatedOpen DEF SetupInv, Held, HeldBy, Mine
<1>2. s \in Created /\ Named(s) => Named(s)'
  BY NamedStays
<1>3. s \in Created /\ Bound(s) => Bound(s)'
  BY DEF Bound, OldKeep
<1>4. Called(s) => s \in Created
  BY DEF Called
<1> QED
  BY <1>1, <1>2, <1>3, <1>4, StageKeepsNames

LEMMA CreateKeeps ==
    ASSUME SetupInv, NEW p \in Process, NEW f \in {"unix", "tcp"}, Create(p, f)
    PROVE  SetupInv'
<1>1. /\ pc[p] = "idle"
      /\ UNCHANGED <<queued, name, port, cutter, peer, kept, turned>>
  BY DEF Create, names
<1>2. PICK s \in Socket :
        /\ NewSocket(s, p, f)
        /\ st' = [st EXCEPT ![s] = "new"]
        /\ cur' = [cur EXCEPT ![p] = s]
        /\ pc' = [pc EXCEPT ![p] = IF f = "unix" THEN "unlink" ELSE "option"]
  BY DEF Create
<1>3. /\ s \notin Created /\ Created' = Created \cup {s} /\ Open' = Open \cup {s} /\ Numbered'
      /\ own'[s] = p /\ family'[s] = f /\ st'[s] = "new"
      /\ \A t \in Created : /\ t # s /\ t \in Socket
                            /\ own'[t] = own[t] /\ family'[t] = family[t] /\ st'[t] = st[t]
      /\ own' \in [Socket -> Process \cup {NoProcess}]
      /\ family' \in [Socket -> {"unix", "tcp"}]
      /\ st' \in [Socket -> {"none", "new", "listening", "connected", "closed"}]
      /\ zero' \in [Process -> Socket \cup {Stdin, None}]
      /\ zero'[p] = IF zero[p] = None THEN s ELSE zero[p]
      /\ \A q \in Process \ {p} : zero'[q] = zero[q]
  <2>1. Fresh(s, p, f, "new")
    BY <1>2, FreshSocket
  <2> QED
    BY <2>1 DEF Fresh
<1>4. OldKeep /\ Open \subseteq Created
  BY <1>3, CreatedOpen DEF OldKeep
<1>5. /\ pc \in [Process -> {"idle", "option", "unlink", "bind", "listen", "connect", "stat",
                             "unlinkCaller"}]
      /\ cur \in [Process -> Socket \cup {None}]
  BY DEF SetupInv, SetupTypeOK
<1>6. /\ \A q \in Process \ {p} : pc'[q] = pc[q] /\ cur'[q] = cur[q]
      /\ cur'[p] = s /\ pc'[p] = IF f = "unix" THEN "unlink" ELSE "option"
      /\ pc' \in [Process -> {"idle", "option", "unlink", "bind", "listen", "connect", "stat",
                              "unlinkCaller"}]
      /\ cur' \in [Process -> Socket \cup {None}]
  BY <1>2, <1>5
<1>7. SetupTypeOK'
  BY <1>1, <1>3, <1>6 DEF SetupInv, SetupTypeOK
<1>8. \A q \in Process : HeldBy(q)
  BY DEF SetupInv, Held
<1>9. cur[p] = None
  BY <1>1, <1>8 DEF HeldBy
<1>10. Held'
  <2>1. \A t \in Created' : own'[t] \in Process
    BY <1>3 DEF SetupInv, Held
  <2>2. ASSUME NEW q \in Process PROVE HeldBy(q)'
    <3>1. \A t \in kept[q] : Mine(q, t)'
      BY <1>3, <1>4, <1>8 DEF HeldBy, Mine
    <3>2. CASE q # p
      BY <1>1, <1>3, <1>4, <1>6, <1>8, <3>1, <3>2 DEF HeldBy, Mine
    <3>3. CASE q = p
      <4>1. s \notin kept[p]
        BY <1>3, <1>4, <1>8 DEF HeldBy, Mine
      <4> QED
        BY <1>1, <1>3, <1>6, <1>9, <3>1, <3>3, <4>1 DEF HeldBy, Mine
    <3> QED
      BY <3>2, <3>3
  <2> QED
    BY <2>1, <2>2 DEF Held
<1>11. Families'
  BY <1>1, <1>3 DEF SetupInv, Families
<1>12. Stages' /\ Peers'
  <2>1. ASSUME NEW q \in Process, NEW t \in Socket
        PROVE  /\ t = cur'[q] => AtWork(q, t)'
               /\ t = peer'[q] /\ Accepting(q)' => Accepts(q, t)'
    <3>1. CASE q # p
      <4>1. pc'[q] = pc[q] /\ cur'[q] = cur[q] /\ peer'[q] = peer[q]
        BY <1>1, <1>6, <3>1
      <4>2. t = cur[q] => st'[t] = st[t]
        BY <1>3, <1>4, <1>8, KindsOfProcess DEF HeldBy, Mine
      <4> QED
        BY <1>1, <1>3, <1>4, <4>1, <4>2, StageStays
    <3>2. CASE q = p
      <4>1. ~Accepting(p)'
        BY <1>6 DEF Accepting
      <4>2. AtWork(p, s)'
        BY <1>3, <1>6, KindsOfProcess DEF AtWork
      <4> QED
        BY <1>6, <3>2, <4>1, <4>2
    <3> QED
      BY <3>1, <3>2
  <2>2. Peers'
    BY <1>1, <1>6 DEF SetupInv, Peers, Accepting
  <2> QED
    BY <2>1, <2>2 DEF Stages
<1>13. Queues' /\ Once'
  <2>1. Queues' /\ \A l, t \in Socket : InQueue(t, l)' <=> InQueue(t, l)
    BY <1>1, <1>3, <1>4, QueuesStay
  <2>2. \A q \in Process : Accepting(q)' => Accepting(q) /\ peer'[q] = peer[q]
    BY <1>1, <1>6 DEF Accepting
  <2> QED
    BY <1>1, <2>1, <2>2 DEF SetupInv, Once, Distinct
<1>14. SetupLeaksNothing'
  <2> SUFFICES ASSUME NEW t \in Open'
               PROVE  \/ t \in kept'[own'[t]] \/ t = cur'[own'[t]]
                      \/ family'[t] = "tcp" /\ zero'[own'[t]] = t
    BY DEF SetupLeaksNothing
  <2>1. CASE t = s
    BY <1>3, <1>6, <2>1
  <2>2. CASE t \in Open
    <3>1. own'[t] = own[t] /\ family'[t] = family[t] /\ own[t] \in Process /\ t # None
      BY <1>3, <1>4, <2>2, KindsOfProcess DEF SetupInv, Held
    <3>2. \/ t \in kept[own[t]] \/ t = cur[own[t]]
          \/ family[t] = "tcp" /\ zero[own[t]] = t
      BY <2>2 DEF SetupInv, SetupLeaksNothing
    <3> QED
      BY <1>1, <1>3, <1>6, <1>9, <3>1, <3>2
  <2> QED
    BY <1>3, <2>1, <2>2
<1>15. OnlyAServerCutsOff'
  BY <1>1, <1>3, <1>4 DEF SetupInv, OnlyAServerCutsOff
<1>16. turned' \subseteq Created' /\ OnlyItsDoubleTurnsAway'
  BY <1>1, <1>4, TurnedStay
<1> QED
  BY <1>3, <1>7, <1>10, <1>11, <1>12, <1>13, <1>14, <1>15, <1>16 DEF SetupInv

\* The first of a queue leaves it.
LEMMA QueueTail ==
    ASSUME NEW q \in Seq(Socket), q # <<>>, Distinct(q)
    PROVE  /\ Head(q) \in Socket /\ Tail(q) \in Seq(Socket) /\ Distinct(Tail(q))
           /\ \E i \in 1 .. Len(q) : q[i] = Head(q)
           /\ \A i \in 1 .. Len(Tail(q)) :
                 /\ Tail(q)[i] # Head(q)
                 /\ \E j \in 1 .. Len(q) : q[j] = Tail(q)[i]
<1>1. /\ Len(q) \in Nat /\ Len(q) >= 1 /\ Head(q) = q[1] /\ 1 \in 1 .. Len(q)
      /\ Tail(q) \in Seq(Socket) /\ Len(Tail(q)) = Len(q) - 1
      /\ \A i \in 1 .. Len(q) - 1 : Tail(q)[i] = q[i + 1]
  OBVIOUS
<1>2. \A i \in 1 .. Len(q) - 1 : i + 1 \in 1 .. Len(q) /\ i + 1 # 1
  BY <1>1
<1>3. \A i \in 1 .. Len(Tail(q)) : Tail(q)[i] # Head(q) /\ \E j \in 1 .. Len(q) : q[j] = Tail(q)[i]
  BY <1>1, <1>2 DEF Distinct
<1>4. ASSUME NEW i \in 1 .. Len(Tail(q)), NEW j \in 1 .. Len(Tail(q)), Tail(q)[i] = Tail(q)[j]
      PROVE  i = j
  <2>1. i + 1 \in 1 .. Len(q) /\ j + 1 \in 1 .. Len(q) /\ q[i + 1] = q[j + 1]
    BY <1>1, <1>2, <1>4
  <2>2. i + 1 = j + 1
    BY <2>1 DEF Distinct
  <2> QED
    BY <1>1, <2>2
<1> QED
  BY <1>1, <1>3, <1>4 DEF Distinct

LEMMA AcceptKeeps ==
    ASSUME SetupInv, NEW p \in Process, NEW l \in Socket, Accept(p, l)
    PROVE  SetupInv'
<1>1. /\ pc[p] = "idle" /\ l \in kept[p] /\ queued[l] # <<>>
      /\ queued' = [queued EXCEPT ![l] = Tail(@)]
      /\ UNCHANGED <<name, port, cutter, turned>>
  BY DEF Accept, names
<1>first. PICK x : x = Head(queued[l])
  OBVIOUS
<1>2. PICK s \in Socket :
        /\ NewSocket(s, p, family[l])
        /\ st' = [st EXCEPT ![s] = "connected"]
        /\ IF family[l] = "tcp"
           THEN kept' = [kept EXCEPT ![p] = @ \cup {s}] /\ UNCHANGED <<pc, cur, peer>>
           ELSE /\ cur' = [cur EXCEPT ![p] = s] /\ pc' = [pc EXCEPT ![p] = "stat"]
                /\ peer' = [peer EXCEPT ![p] = x]
                /\ UNCHANGED kept
  BY <1>first DEF Accept
<1>3. family[l] \in {"unix", "tcp"}
  BY DEF SetupInv, SetupTypeOK
<1>4. Fresh(s, p, family[l], "connected")
  BY <1>2, <1>3, FreshSocket
<1>5. /\ s \notin Created /\ Created' = Created \cup {s} /\ Open' = Open \cup {s} /\ Numbered'
      /\ own'[s] = p /\ family'[s] = family[l] /\ st'[s] = "connected"
      /\ \A t \in Created : /\ t # s /\ t \in Socket
                            /\ own'[t] = own[t] /\ family'[t] = family[t] /\ st'[t] = st[t]
      /\ own' \in [Socket -> Process \cup {NoProcess}]
      /\ family' \in [Socket -> {"unix", "tcp"}]
      /\ st' \in [Socket -> {"none", "new", "listening", "connected", "closed"}]
      /\ zero' \in [Process -> Socket \cup {Stdin, None}]
      /\ zero'[p] = IF zero[p] = None THEN s ELSE zero[p]
      /\ \A q \in Process \ {p} : zero'[q] = zero[q]
  BY <1>4 DEF Fresh
<1>6. OldKeep /\ Open \subseteq Created
  BY <1>5, CreatedOpen DEF OldKeep
<1>7. /\ pc \in [Process -> {"idle", "option", "unlink", "bind", "listen", "connect", "stat",
                             "unlinkCaller"}]
      /\ cur \in [Process -> Socket \cup {None}] /\ peer \in [Process -> Socket \cup {None}]
      /\ kept \in [Process -> SUBSET Socket] /\ queued \in [Socket -> Seq(Socket)]
  BY DEF SetupInv, SetupTypeOK
<1>8. /\ x \in Socket /\ Tail(queued[l]) \in Seq(Socket) /\ Distinct(Tail(queued[l]))
      /\ InQueue(x, l)
      /\ \A i \in 1 .. Len(Tail(queued[l])) :
            /\ Tail(queued[l])[i] # x
            /\ \E j \in 1 .. Len(queued[l]) : queued[l][j] = Tail(queued[l])[i]
  <2>1. queued[l] \in Seq(Socket) /\ Distinct(queued[l])
    BY <1>7 DEF SetupInv, Once
  <2> QED
    BY <1>1, <1>first, <2>1, QueueTail DEF InQueue
<1>9. /\ queued' \in [Socket -> Seq(Socket)] /\ queued'[l] = Tail(queued[l])
      /\ \A m \in Socket \ {l} : queued'[m] = queued[m]
  BY <1>1, <1>7, <1>8
<1>10. \A m, t \in Socket : InQueue(t, m)' => InQueue(t, m) /\ t # x
  <2> SUFFICES ASSUME NEW m \in Socket, NEW t \in Socket, InQueue(t, m)'
               PROVE  InQueue(t, m) /\ t # x
    OBVIOUS
  <2>1. CASE m = l
    BY <1>8, <1>9, <2>1 DEF InQueue
  <2>2. CASE m # l
    <3>1. InQueue(t, m)
      BY <1>9, <2>2 DEF InQueue
    <3> QED
      BY <1>8, <2>2, <3>1 DEF SetupInv, Once
  <2> QED
    BY <2>1, <2>2
<1>11. /\ \A q \in Process \ {p} : /\ pc'[q] = pc[q] /\ cur'[q] = cur[q] /\ peer'[q] = peer[q]
                                   /\ kept'[q] = kept[q]
       /\ \/ /\ family[l] = "tcp" /\ pc'[p] = "idle" /\ cur'[p] = cur[p] /\ peer'[p] = peer[p]
             /\ kept'[p] = kept[p] \cup {s}
          \/ /\ family[l] = "unix" /\ pc'[p] = "stat" /\ cur'[p] = s /\ peer'[p] = x
             /\ kept'[p] = kept[p]
       /\ pc' \in [Process -> {"idle", "option", "unlink", "bind", "listen", "connect", "stat",
                               "unlinkCaller"}]
       /\ cur' \in [Process -> Socket \cup {None}] /\ peer' \in [Process -> Socket \cup {None}]
       /\ kept' \in [Process -> SUBSET Socket]
  <2>1. CASE family[l] = "tcp"
    <3>1. UNCHANGED <<pc, cur, peer>> /\ kept' = [kept EXCEPT ![p] = kept[p] \cup {s}]
      BY <1>2, <2>1
    <3>2. kept[p] \cup {s} \in SUBSET Socket
      BY <1>7
    <3>3. /\ kept' \in [Process -> SUBSET Socket] /\ kept'[p] = kept[p] \cup {s}
          /\ \A q \in Process \ {p} : kept'[q] = kept[q]
      BY ONLY <1>7, <3>1, <3>2, p \in Process
    <3> QED
      BY <1>1, <1>7, <2>1, <3>1, <3>3
  <2>2. CASE family[l] = "unix"
    BY <1>2, <1>7, <1>8, <2>2
  <2> QED
    BY <1>3, <2>1, <2>2
<1>12. SetupTypeOK'
  BY <1>1, <1>5, <1>9, <1>11 DEF SetupInv, SetupTypeOK
<1>13. \A q \in Process : HeldBy(q)
  BY DEF SetupInv, Held
<1>14. cur[p] = None /\ s # None
  BY <1>1, <1>13, KindsOfProcess DEF HeldBy
<1>15. Held'
  <2>1. \A t \in Created' : own'[t] \in Process
    BY <1>5 DEF SetupInv, Held
  <2>2. ASSUME NEW q \in Process PROVE HeldBy(q)'
    <3>1. \A t \in kept[q] : Mine(q, t)'
      BY <1>5, <1>6, <1>13 DEF HeldBy, Mine
    <3>2. CASE q # p
      BY <1>5, <1>6, <1>11, <1>13, <3>1, <3>2 DEF HeldBy, Mine
    <3>3. CASE q = p
      <4>1. s \notin kept[p] /\ Mine(p, s)'
        BY <1>5, <1>6, <1>13 DEF HeldBy, Mine
      <4>2. CASE family[l] = "tcp"
        BY <1>11, <1>14, <3>1, <3>3, <4>1, <4>2 DEF HeldBy, Mine
      <4>3. CASE family[l] = "unix"
        BY <1>11, <1>14, <3>1, <3>3, <4>1, <4>3 DEF HeldBy, Mine
      <4> QED
        BY <1>3, <4>2, <4>3
    <3> QED
      BY <3>2, <3>3
  <2> QED
    BY <2>1, <2>2 DEF Held
<1>16. Families'
  BY <1>1, <1>5 DEF SetupInv, Families
<1>17. \A t \in Created : st[t] # "new" => st'[t] # "new"
  BY <1>5
<1>18. family[l] = "unix" => x \in Created /\ Called(x) /\ Named(x) /\ family[x] = "unix"
  BY <1>8 DEF SetupInv, Queues, Called
<1>19. Stages'
  <2> SUFFICES ASSUME NEW q \in Process, NEW t \in Socket
               PROVE  /\ t = cur'[q] => AtWork(q, t)'
                      /\ t = peer'[q] /\ Accepting(q)' => Accepts(q, t)'
    BY DEF Stages
  <2>1. CASE q # p \/ family[l] = "tcp"
    <3>1. pc'[q] = pc[q] /\ cur'[q] = cur[q] /\ peer'[q] = peer[q]
      BY <1>1, <1>11, <2>1
    <3>2. t = cur[q] => st'[t] = st[t]
      BY <1>5, <1>6, <1>13, KindsOfProcess DEF HeldBy, Mine
    <3> QED
      BY <1>1, <1>6, <1>17, <3>1, <3>2, StageStays
  <2>2. CASE q = p /\ family[l] = "unix"
    <3>1. pc'[p] = "stat" /\ cur'[p] = s /\ peer'[p] = x
      BY <1>11, <2>2
    <3>2. AtWork(p, s)'
      BY <3>1 DEF AtWork
    <3>3. Accepts(p, x)'
      <4>1. Named(x)'
        BY <1>1, <1>6, <1>18, <2>2, NamedStays
      <4>2. Called(x)' /\ family'[x] = "unix"
        BY <1>5, <1>17, <1>18, <2>2 DEF Called
      <4> QED
        BY <4>1, <4>2 DEF Accepts
    <3> QED
      BY <2>2, <3>1, <3>2, <3>3
  <2> QED
    BY <1>3, <2>1, <2>2
<1>20. Peers'
  BY <1>1, <1>8, <1>11 DEF SetupInv, Peers, Accepting
<1>21. Queues'
  BY <1>1, <1>6, <1>10, <1>17, QueuesShrink
<1>22. Once'
  <2>1. \A m \in Socket : Distinct(queued[m])'
    BY <1>8, <1>9 DEF SetupInv, Once, Distinct
  <2>2. \A m, k, t \in Socket : InQueue(t, m)' /\ InQueue(t, k)' => m = k
    BY <1>10 DEF SetupInv, Once
  <2>3. ASSUME NEW q \in Process, NEW t \in Socket, Accepting(q)', t = peer'[q]
        PROVE  /\ \A m \in Socket : ~InQueue(t, m)'
               /\ \A r \in Process : Accepting(r)' /\ t = peer'[r] => r = q
    <3>1. \A r \in Process : Accepting(r)' => \/ Accepting(r) /\ peer'[r] = peer[r]
                                              \/ r = p /\ peer'[r] = x
      BY <1>1, <1>11 DEF Accepting
    <3>2. \A r \in Process : Accepting(r) => peer[r] # x
      BY <1>8 DEF SetupInv, Once
    <3>3. CASE t = x
      BY <1>10, <2>3, <3>1, <3>2, <3>3
    <3>4. CASE t # x
      BY <1>10, <2>3, <3>1, <3>4 DEF SetupInv, Once
    <3> QED
      BY <3>3, <3>4
  <2> QED
    BY <2>1, <2>2, <2>3 DEF Once
<1>23. SetupLeaksNothing'
  <2> SUFFICES ASSUME NEW t \in Open'
               PROVE  \/ t \in kept'[own'[t]] \/ t = cur'[own'[t]]
                      \/ family'[t] = "tcp" /\ zero'[own'[t]] = t
    BY DEF SetupLeaksNothing
  <2>1. CASE t = s
    BY <1>5, <1>11, <2>1
  <2>2. CASE t \in Open
    <3>1. own'[t] = own[t] /\ family'[t] = family[t] /\ own[t] \in Process /\ t # None
      BY <1>5, <1>6, <2>2, KindsOfProcess DEF SetupInv, Held
    <3>2. \/ t \in kept[own[t]] \/ t = cur[own[t]]
          \/ family[t] = "tcp" /\ zero[own[t]] = t
      BY <2>2 DEF SetupInv, SetupLeaksNothing
    <3> QED
      BY <1>5, <1>11, <1>14, <3>1, <3>2
  <2> QED
    BY <1>5, <2>1, <2>2
<1>24. OnlyAServerCutsOff'
  BY <1>1, <1>5, <1>6 DEF SetupInv, OnlyAServerCutsOff
<1>25. turned' \subseteq Created' /\ OnlyItsDoubleTurnsAway'
  BY <1>1, <1>6, TurnedStay
<1> QED
  BY <1>5, <1>12, <1>15, <1>16, <1>19, <1>20, <1>21, <1>22, <1>23, <1>24, <1>25 DEF SetupInv

-----------------------------------------------------------------------------
(***************************************************************************)
(* Steps of one call                                                       *)
(***************************************************************************)
\* Two processes work at two sockets.
LEMMA CurApart ==
    ASSUME SetupInv, NEW p \in Process, NEW q \in Process, p # q, pc[p] # "idle"
    PROVE  cur[p] # cur[q]
BY KindsOfProcess, CreatedOpen DEF SetupInv, Held, HeldBy, Mine

\* A step within a call.
LEMMA WorkGoesOn ==
    ASSUME SetupInv, NEW p \in Process, pc[p] # "idle",
           NEW x \in {"bind", "listen", "connect", "unlinkCaller"}, pc' = [pc EXCEPT ![p] = x],
           UNCHANGED <<own, family, st, cur, kept, zero>>
    PROVE  /\ Created' = Created /\ Open' = Open /\ OldKeep
           /\ Held' /\ SetupLeaksNothing' /\ Numbered'
           /\ pc'[p] = x /\ \A q \in Process \ {p} : pc'[q] = pc[q]
           /\ pc' \in [Process -> {"idle", "option", "unlink", "bind", "listen", "connect", "stat",
                                   "unlinkCaller"}]
<1>1. Created' = Created /\ Open' = Open /\ OldKeep
  BY DEF Created, Open, OldKeep
<1>2. pc \in [Process -> {"idle", "option", "unlink", "bind", "listen", "connect", "stat",
                          "unlinkCaller"}]
  BY DEF SetupInv, SetupTypeOK
<1>3. /\ pc'[p] = x /\ \A q \in Process \ {p} : pc'[q] = pc[q]
      /\ pc' \in [Process -> {"idle", "option", "unlink", "bind", "listen", "connect", "stat",
                              "unlinkCaller"}]
  BY <1>2
<1>4. \A q \in Process : HeldBy(q)'
  <2> SUFFICES ASSUME NEW q \in Process PROVE HeldBy(q)'
    OBVIOUS
  <2>1. HeldBy(q) /\ (pc'[q] = "idle" <=> pc[q] = "idle")
    BY <1>3 DEF SetupInv, Held
  <2> QED
    BY <1>1, <2>1 DEF HeldBy, Mine
<1>5. Held'
  BY <1>1, <1>4 DEF SetupInv, Held
<1>6. SetupLeaksNothing' /\ Numbered'
  BY <1>1 DEF SetupInv, SetupLeaksNothing, Numbered
<1> QED
  BY <1>1, <1>3, <1>5, <1>6

\* A call returns its socket.
LEMMA HandsOver ==
    ASSUME SetupInv, NEW p \in Process, pc[p] # "idle", Keeps(p), Returns(p),
           UNCHANGED <<own, family, zero>>, Created' = Created, Open' = Open
    PROVE  /\ OldKeep /\ Held' /\ SetupLeaksNothing' /\ Numbered'
           /\ pc'[p] = "idle" /\ cur'[p] = None
           /\ \A q \in Process \ {p} : pc'[q] = pc[q] /\ cur'[q] = cur[q]
           /\ pc' \in [Process -> {"idle", "option", "unlink", "bind", "listen", "connect", "stat",
                                   "unlinkCaller"}]
           /\ cur' \in [Process -> Socket \cup {None}] /\ kept' \in [Process -> SUBSET Socket]
<1>1. OldKeep /\ Numbered'
  BY DEF SetupInv, OldKeep, Numbered
<1>2. /\ pc \in [Process -> {"idle", "option", "unlink", "bind", "listen", "connect", "stat",
                             "unlinkCaller"}]
      /\ cur \in [Process -> Socket \cup {None}] /\ kept \in [Process -> SUBSET Socket]
  BY DEF SetupInv, SetupTypeOK
<1>3. \A q \in Process : HeldBy(q)
  BY DEF SetupInv, Held
<1>4. Mine(p, cur[p]) /\ cur[p] \in Socket
  BY <1>3, CreatedOpen DEF HeldBy, Mine
<1>5. /\ pc'[p] = "idle" /\ \A q \in Process \ {p} : pc'[q] = pc[q]
      /\ pc' \in [Process -> {"idle", "option", "unlink", "bind", "listen", "connect", "stat",
                              "unlinkCaller"}]
  BY <1>2 DEF Returns
<1>6. /\ cur'[p] = None /\ \A q \in Process \ {p} : cur'[q] = cur[q]
      /\ cur' \in [Process -> Socket \cup {None}]
  BY <1>2 DEF Returns
<1>7. /\ kept'[p] = kept[p] \cup {cur[p]} /\ \A q \in Process \ {p} : kept'[q] = kept[q]
      /\ kept' \in [Process -> SUBSET Socket]
  <2>1. kept[p] \cup {cur[p]} \in SUBSET Socket
    BY <1>2, <1>4
  <2> QED
    BY <1>2, <2>1 DEF Keeps
<1>8. \A q \in Process : HeldBy(q)'
  <2> SUFFICES ASSUME NEW q \in Process PROVE HeldBy(q)'
    OBVIOUS
  <2>1. \A s : Mine(q, s) <=> Mine(q, s)'
    BY DEF Mine
  <2>2. CASE q = p
    BY <1>3, <1>4, <1>5, <1>6, <1>7, <2>1, <2>2 DEF HeldBy
  <2>3. CASE q # p
    <3>1. HeldBy(q) /\ pc'[q] = pc[q] /\ cur'[q] = cur[q] /\ kept'[q] = kept[q]
      BY <1>3, <1>5, <1>6, <1>7, <2>3
    <3> QED
      BY <3>1 DEF HeldBy, Mine
  <2> QED
    BY <2>2, <2>3
<1>9. Held'
  BY <1>8 DEF SetupInv, Held
<1>10. SetupLeaksNothing'
  <2> SUFFICES ASSUME NEW t \in Open
               PROVE  \/ t \in kept'[own[t]] \/ t = cur'[own[t]]
                      \/ family[t] = "tcp" /\ zero[own[t]] = t
    BY DEF SetupLeaksNothing
  <2>1. own[t] \in Process
    BY CreatedOpen DEF SetupInv, Held
  <2>2. \/ t \in kept[own[t]] \/ t = cur[own[t]]
        \/ family[t] = "tcp" /\ zero[own[t]] = t
    BY DEF SetupInv, SetupLeaksNothing
  <2> QED
    BY <1>6, <1>7, <2>1, <2>2
<1> QED
  BY <1>1, <1>5, <1>6, <1>7, <1>9, <1>10

\* What the socket of a call under way is.
LEMMA AtWorkNow ==
    ASSUME SetupInv, NEW p \in Process, pc[p] # "idle"
    PROVE  cur[p] \in Socket /\ cur[p] \in Created /\ own[cur[p]] = p /\ AtWork(p, cur[p])
<1>1. cur[p] \in Socket /\ cur[p] \in Created /\ own[cur[p]] = p
  BY CreatedOpen DEF SetupInv, Held, HeldBy, Mine
<1> QED
  BY <1>1 DEF SetupInv, Stages

\* A descriptor 0 is given up, any other is gone on with.
LEMMA SetOptionKeeps ==
    ASSUME SetupInv, NEW p \in Process, SetOption(p)
    PROVE  SetupInv'
<1>1. /\ pc[p] = "option"
      /\ UNCHANGED <<own, family, st, queued, name, port, cutter, peer, kept, zero, turned>>
  BY DEF SetOption, sockets, names
<1>2. Created' = Created /\ Open' = Open /\ OldKeep /\ Numbered'
  BY <1>1 DEF Created, Open, OldKeep, SetupInv, Numbered
<1>3. /\ pc \in [Process -> {"idle", "option", "unlink", "bind", "listen", "connect", "stat",
                             "unlinkCaller"}]
      /\ cur \in [Process -> Socket \cup {None}]
  BY DEF SetupInv, SetupTypeOK
<1>4. cur[p] \in Socket /\ st[cur[p]] = "new" /\ family[cur[p]] = "tcp"
  BY <1>1, AtWorkNow DEF AtWork
<1>5. /\ \A q \in Process \ {p} : pc'[q] = pc[q] /\ cur'[q] = cur[q]
      /\ \/ pc'[p] = "idle" /\ cur'[p] = None /\ zero[p] = cur[p]
         \/ pc'[p] = (IF p \in Servers THEN "bind" ELSE "connect") /\ cur'[p] = cur[p]
      /\ pc' \in [Process -> {"idle", "option", "unlink", "bind", "listen", "connect", "stat",
                              "unlinkCaller"}]
      /\ cur' \in [Process -> Socket \cup {None}]
  <2>1. CASE zero[p] = cur[p]
    BY <1>1, <1>3, <2>1 DEF SetOption, Returns
  <2>2. CASE zero[p] # cur[p]
    BY <1>1, <1>3, <2>2 DEF SetOption
  <2> QED
    BY <2>1, <2>2
<1>6. SetupTypeOK' /\ Families'
  BY <1>1, <1>2, <1>5 DEF SetupInv, SetupTypeOK, Families
<1>7. Held'
  <2>1. ASSUME NEW q \in Process PROVE HeldBy(q)'
    <3>1. HeldBy(q)
      BY DEF SetupInv, Held
    <3> QED
      BY <1>1, <1>2, <1>5, <3>1 DEF HeldBy, Mine
  <2> QED
    BY <1>1, <1>2, <2>1 DEF SetupInv, Held
<1>8. Stages'
  <2> SUFFICES ASSUME NEW q \in Process, NEW t \in Socket
               PROVE  /\ t = cur'[q] => AtWork(q, t)'
                      /\ t = peer'[q] /\ Accepting(q)' => Accepts(q, t)'
    BY DEF Stages
  <2>1. CASE q = p
    <3>1. pc'[p] \in {"idle", "bind", "connect"} /\ ~Accepting(p)'
      BY <1>5 DEF Accepting
    <3>2. t = cur'[p] => t = cur[p] /\ pc'[p] = (IF p \in Servers THEN "bind" ELSE "connect")
      BY <1>5, KindsOfProcess
    <3>3. t = cur'[p] => AtWork(p, t)'
      BY <1>1, <1>4, <3>2, KindsOfProcess DEF AtWork
    <3> QED
      BY <2>1, <3>1, <3>3
  <2>2. CASE q # p
    BY <1>1, <1>2, <1>5, <2>2, StageStays
  <2> QED
    BY <2>1, <2>2
<1>9. Queues' /\ \A l, t \in Socket : InQueue(t, l)' <=> InQueue(t, l)
  BY <1>1, <1>2, QueuesStay
<1>10. \A q \in Process : Accepting(q)' <=> Accepting(q)
  BY <1>1, <1>5 DEF Accepting
<1>11. Once' /\ Peers'
  BY <1>1, <1>9, <1>10 DEF SetupInv, Once, Peers, Distinct
<1>12. SetupLeaksNothing'
  <2> SUFFICES ASSUME NEW t \in Open
               PROVE  \/ t \in kept[own[t]] \/ t = cur'[own[t]]
                      \/ family[t] = "tcp" /\ zero[own[t]] = t
    BY <1>1, <1>2 DEF SetupLeaksNothing
  <2>1. own[t] \in Process
    BY CreatedOpen DEF SetupInv, Held
  <2>2. \/ t \in kept[own[t]] \/ t = cur[own[t]]
        \/ family[t] = "tcp" /\ zero[own[t]] = t
    BY DEF SetupInv, SetupLeaksNothing
  <2> QED
    BY <1>4, <1>5, <2>1, <2>2
<1>13. OnlyAServerCutsOff'
  BY <1>1, <1>2 DEF SetupInv, OnlyAServerCutsOff
<1>14. turned' \subseteq Created' /\ OnlyItsDoubleTurnsAway'
  BY <1>1, <1>2, TurnedStay
<1> QED
  BY <1>2, <1>6, <1>7, <1>8, <1>9, <1>11, <1>12, <1>13, <1>14 DEF SetupInv

LEMMA UnlinkOldKeeps ==
    ASSUME SetupInv, NEW p \in Process, UnlinkOld(p)
    PROVE  SetupInv'
<1>1. PICK c : c = cur[p]
  OBVIOUS
<1>2. /\ pc[p] = "unlink" /\ pc' = [pc EXCEPT ![p] = "bind"]
      /\ name' = [name EXCEPT ![NameOf(p)] = None]
      /\ cutter' = IF p \in Servers THEN c ELSE cutter
      /\ UNCHANGED <<own, family, st, queued, port, cur, peer, kept, zero, turned>>
  BY <1>1 DEF UnlinkOld, sockets
<1>3. c \in Socket /\ c \in Created /\ own[c] = p /\ st[c] = "new" /\ family[c] = "unix"
  BY <1>1, <1>2, AtWorkNow DEF AtWork
<1>4. /\ Created' = Created /\ Open' = Open /\ OldKeep
      /\ Held' /\ SetupLeaksNothing' /\ Numbered'
      /\ pc'[p] = "bind" /\ \A q \in Process \ {p} : pc'[q] = pc[q]
      /\ pc' \in [Process -> {"idle", "option", "unlink", "bind", "listen", "connect", "stat",
                              "unlinkCaller"}]
  BY <1>2, WorkGoesOn
<1>5. name \in [Callers \cup {NoProcess} -> Socket \cup {None}]
  BY DEF SetupInv, SetupTypeOK
<1>6. /\ name' \in [Callers \cup {NoProcess} -> Socket \cup {None}]
      /\ \A y \in Callers \cup {NoProcess} : name'[y] = IF y = NameOf(p) THEN None ELSE name[y]
  BY <1>2, <1>5
<1>7. SetupTypeOK'
  BY <1>2, <1>3, <1>4, <1>6 DEF SetupInv, SetupTypeOK
<1>8. Families'
  BY <1>2, <1>4, <1>6 DEF SetupInv, Families
<1>9. ASSUME NEW t \in Created, own[t] \in Callers, t # c, Named(t) PROVE Named(t)'
  <2>1. CASE own[t] = p
    <3>1. Double(t)
      BY <1>3, <1>9, <2>1 DEF Double
    <3> QED
      BY <1>4, <3>1, DoubleStays DEF Named
  <2>2. CASE own[t] # p
    <3>1. own[t] # NameOf(p) /\ own'[t] = own[t]
      BY <1>2, <1>9, <2>2, KindsOfProcess
    <3>2. name'[own'[t]] = name[own[t]]
      BY <1>6, <1>9, <3>1
    <3>3. Double(t) => Double(t)'
      BY <1>4, DoubleStays
    <3> QED
      BY <1>9, <3>2, <3>3 DEF Named
  <2> QED
    BY <2>1, <2>2
<1>10. ASSUME NEW t \in Created, t # c, Bound(t) PROVE Bound(t)'
  <2>1. CASE p \in Servers
    BY <1>2, <1>10, <2>1 DEF Bound
  <2>2. CASE p \in Callers
    <3>1. name'[NoProcess] = name[NoProcess] /\ cutter' = cutter
      BY <1>2, <1>6, <2>2, KindsOfProcess
    <3> QED
      BY <1>2, <1>10, <3>1 DEF Bound
  <2> QED
    BY <2>1, <2>2, KindsOfProcess
<1>11. \A t \in Created : st[t] # "new" => st'[t] # "new"
  BY <1>2
<1>12. Stages'
  <2> SUFFICES ASSUME NEW q \in Process, NEW t \in Socket
               PROVE  /\ t = cur'[q] => AtWork(q, t)'
                      /\ t = peer'[q] /\ Accepting(q)' => Accepts(q, t)'
    BY DEF Stages
  <2>1. CASE q = p
    BY <1>1, <1>2, <1>3, <1>4, <2>1 DEF AtWork, Accepting
  <2>2. CASE q # p
    <3>1. pc'[q] = pc[q] /\ cur'[q] = cur[q] /\ peer'[q] = peer[q] /\ cur[q] # c
      BY <1>1, <1>2, <1>4, <2>2, CurApart
    <3>2. t = cur[q] => pc[q] # "idle"
      BY KindsOfProcess DEF SetupInv, Held, HeldBy
    <3>3. t = cur[q] => t \in Created /\ own[t] = q /\ AtWork(q, t)
      BY <3>2, AtWorkNow
    <3>4. t = cur[q] /\ pc[q] = "connect" /\ Named(t) => Named(t)'
      BY <1>9, <3>1, <3>3 DEF AtWork
    <3>5. t = cur[q] /\ pc[q] = "listen" /\ Bound(t) => Bound(t)'
      BY <1>10, <3>1, <3>3
    <3>6. Called(t) /\ Named(t) => Named(t)'
      BY <1>3, <1>9 DEF Called
    <3> QED
      BY <1>2, <1>4, <1>11, <3>1, <3>4, <3>5, <3>6, StageKeepsNames
  <2> QED
    BY <2>1, <2>2
<1>13. \A l, t \in Socket : InQueue(t, l)' <=> InQueue(t, l)
  BY <1>2 DEF InQueue
<1>14. Queues'
  <2>1. \A t \in Socket : Called(t) /\ Named(t) => Named(t)'
    BY <1>3, <1>9 DEF Called
  <2> QED
    BY <1>4, <1>11, <1>13, <2>1, QueuesKeepNames
<1>15. \A q \in Process : Accepting(q)' <=> Accepting(q)
  BY <1>2, <1>4 DEF Accepting
<1>16. Once' /\ Peers'
  BY <1>2, <1>13, <1>15 DEF SetupInv, Once, Peers, Distinct
<1>17. OnlyAServerCutsOff'
  <2> SUFFICES ASSUME NEW t \in Open, st[t] = "listening" PROVE Bound(t)'
    BY <1>2, <1>4 DEF OnlyAServerCutsOff, Bound
  <2>1. t # c /\ t \in Created /\ Bound(t)
    BY <1>3, CreatedOpen DEF SetupInv, OnlyAServerCutsOff, Bound
  <2> QED
    BY <1>10, <2>1
<1>18. turned' \subseteq Created' /\ OnlyItsDoubleTurnsAway'
  BY <1>2, <1>4, TurnedStay
<1> QED
  BY <1>4, <1>7, <1>8, <1>12, <1>14, <1>16, <1>17, <1>18 DEF SetupInv

LEMMA BindKeeps ==
    ASSUME SetupInv, NEW p \in Process, Bind(p)
    PROVE  SetupInv'
<1>1. PICK c : c = cur[p]
  OBVIOUS
<1>2. PICK x \in {"listen", "connect"} : x = IF p \in Servers THEN "listen" ELSE "connect"
  OBVIOUS
<1>3. /\ pc[p] = "bind" /\ pc' = [pc EXCEPT ![p] = x]
      /\ UNCHANGED <<own, family, st, queued, cutter, cur, peer, kept, zero, turned>>
      /\ \/ /\ family[c] = "unix" /\ name[NameOf(p)] = None
            /\ name' = [name EXCEPT ![NameOf(p)] = c] /\ UNCHANGED port
         \/ /\ family[c] = "tcp" /\ port = None
            /\ port' = c /\ UNCHANGED name
  BY <1>1, <1>2 DEF Bind, sockets
<1>4. /\ c \in Socket /\ c \in Created /\ own[c] = p /\ st[c] = "new"
      /\ p \in Callers => family[c] = "unix"
  BY <1>1, <1>3, AtWorkNow DEF AtWork
<1>5. /\ Created' = Created /\ Open' = Open /\ OldKeep
      /\ Held' /\ SetupLeaksNothing' /\ Numbered'
      /\ pc'[p] = x /\ \A q \in Process \ {p} : pc'[q] = pc[q]
      /\ pc' \in [Process -> {"idle", "option", "unlink", "bind", "listen", "connect", "stat",
                              "unlinkCaller"}]
  BY <1>2, <1>3, WorkGoesOn
<1>6. /\ name \in [Callers \cup {NoProcess} -> Socket \cup {None}]
      /\ NameOf(p) \in Callers \cup {NoProcess} /\ None \notin Socket
  BY KindsOfProcess DEF SetupInv, SetupTypeOK
<1>7. /\ name' \in [Callers \cup {NoProcess} -> Socket \cup {None}]
      /\ port' \in Socket \cup {None}
      /\ \A y \in Callers \cup {NoProcess} : name[y] # None => name'[y] = name[y]
      /\ \A y \in Callers \cup {NoProcess} : name'[y] = name[y] \/ (name'[y] = c /\ family[c] = "unix")
      /\ port # None => port' = port
      /\ port' = port \/ (port' = c /\ family[c] = "tcp")
      /\ IF family[c] = "unix" THEN name'[NameOf(p)] = c ELSE port' = c
  <2>1. CASE family[c] = "unix"
    <3>1. name' = [name EXCEPT ![NameOf(p)] = c] /\ port' = port /\ name[NameOf(p)] = None
      BY <1>3, <2>1
    <3>2. port \in Socket \cup {None}
      BY DEF SetupInv, SetupTypeOK
    <3> QED
      BY <1>4, <1>6, <2>1, <3>1, <3>2
  <2>2. CASE family[c] = "tcp"
    BY <1>3, <1>4, <1>6, <2>2
  <2> QED
    BY <1>3, <2>1, <2>2
<1>8. SetupTypeOK'
  BY <1>3, <1>5, <1>7 DEF SetupInv, SetupTypeOK
<1>9. Families'
  BY <1>3, <1>4, <1>5, <1>7 DEF SetupInv, Families
<1>10. ASSUME NEW t \in Created, own[t] \in Callers, Named(t) PROVE Named(t)'
  <2>1. Double(t) => Double(t)'
    BY <1>5, DoubleStays
  <2>2. t # None
    BY <1>6, CreatedOpen
  <2>3. name[own[t]] = t => name'[own'[t]] = t
    BY <1>3, <1>7, <1>10, <2>2
  <2> QED
    BY <1>10, <2>1, <2>3 DEF Named
<1>11. ASSUME NEW t \in Created, Bound(t) PROVE Bound(t)'
  <2>1. t # None /\ NoProcess \in Callers \cup {NoProcess}
    BY <1>6, CreatedOpen
  <2> QED
    BY <1>3, <1>7, <1>11, <2>1 DEF Bound
<1>12. \A t \in Created : st[t] # "new" => st'[t] # "new"
  BY <1>3
<1>13. Stages'
  <2> SUFFICES ASSUME NEW q \in Process, NEW t \in Socket
               PROVE  /\ t = cur'[q] => AtWork(q, t)'
                      /\ t = peer'[q] /\ Accepting(q)' => Accepts(q, t)'
    BY DEF Stages
  <2>1. CASE q = p
    <3>1. ~Accepting(p)' /\ cur'[p] = c
      BY <1>1, <1>2, <1>3, <1>5 DEF Accepting
    <3>2. p \in Servers => Bound(c)'
      BY <1>3, <1>7, KindsOfProcess, <1>4 DEF Bound, SetupInv, SetupTypeOK
    <3>3. p \in Callers => Named(c)'
      BY <1>3, <1>4, <1>7, KindsOfProcess DEF Named
    <3>4. AtWork(p, c)'
      <4>1. CASE p \in Servers
        <5>1. pc'[p] = "listen" /\ st'[c] = "new"
          BY <1>2, <1>3, <1>4, <1>5, <4>1
        <5> QED
          BY <3>2, <4>1, <5>1 DEF AtWork
      <4>2. CASE p \in Callers
        <5>1. pc'[p] = "connect" /\ st'[c] = "new"
          BY <1>2, <1>3, <1>4, <1>5, <4>2, KindsOfProcess
        <5> QED
          BY <3>3, <4>2, <5>1 DEF AtWork
      <4> QED
        BY <4>1, <4>2, KindsOfProcess
    <3> QED
      BY <2>1, <3>1, <3>4
  <2>2. CASE q # p
    <3>1. pc'[q] = pc[q] /\ cur'[q] = cur[q] /\ peer'[q] = peer[q]
      BY <1>3, <1>5, <2>2
    <3>2. t = cur[q] => pc[q] # "idle"
      BY KindsOfProcess DEF SetupInv, Held, HeldBy
    <3>3. t = cur[q] => t \in Created /\ own[t] = q /\ AtWork(q, t)
      BY <3>2, AtWorkNow
    <3>4. t = cur[q] /\ pc[q] = "connect" /\ Named(t) => Named(t)'
      BY <1>10, <3>3 DEF AtWork
    <3>5. t = cur[q] /\ pc[q] = "listen" /\ Bound(t) => Bound(t)'
      BY <1>11, <3>3
    <3>6. Called(t) /\ Named(t) => Named(t)'
      BY <1>10 DEF Called
    <3> QED
      BY <1>3, <1>5, <1>12, <3>1, <3>4, <3>5, <3>6, StageKeepsNames
  <2> QED
    BY <2>1, <2>2
<1>14. \A l, t \in Socket : InQueue(t, l)' <=> InQueue(t, l)
  BY <1>3 DEF InQueue
<1>15. Queues'
  <2>1. \A t \in Socket : Called(t) /\ Named(t) => Named(t)'
    BY <1>10 DEF Called
  <2> QED
    BY <1>5, <1>12, <1>14, <2>1, QueuesKeepNames
<1>16. \A q \in Process : Accepting(q)' <=> Accepting(q)
  BY <1>2, <1>3, <1>5 DEF Accepting
<1>17. Once' /\ Peers'
  BY <1>3, <1>14, <1>16 DEF SetupInv, Once, Peers, Distinct
<1>18. OnlyAServerCutsOff'
  <2> SUFFICES ASSUME NEW t \in Open, st[t] = "listening" PROVE Bound(t)'
    BY <1>3, <1>5 DEF OnlyAServerCutsOff, Bound
  <2>1. t \in Created /\ Bound(t)
    BY CreatedOpen DEF SetupInv, OnlyAServerCutsOff, Bound
  <2> QED
    BY <1>11, <2>1
<1>19. turned' \subseteq Created' /\ OnlyItsDoubleTurnsAway'
  BY <1>3, <1>5, TurnedStay
<1> QED
  BY <1>5, <1>8, <1>9, <1>13, <1>15, <1>17, <1>18, <1>19 DEF SetupInv

\* listen() and connect() give the socket of the call a new state.
LEMMA StateMoves ==
    ASSUME SetupInv, NEW p \in Process, NEW c, c = cur[p], pc[p] # "idle", st[c] = "new",
           NEW x \in {"listening", "connected"}, st' = [st EXCEPT ![c] = x]
    PROVE  /\ Created' = Created /\ Open' = Open /\ st'[c] = x
           /\ \A t \in Socket \ {c} : st'[t] = st[t]
           /\ \A t \in Created : st[t] # "new" => st'[t] # "new"
           /\ st' \in [Socket -> {"none", "new", "listening", "connected", "closed"}]
<1>1. /\ st \in [Socket -> {"none", "new", "listening", "connected", "closed"}]
      /\ c \in Socket
  BY AtWorkNow DEF SetupInv, SetupTypeOK
<1>2. /\ st'[c] = x /\ \A t \in Socket \ {c} : st'[t] = st[t]
      /\ st' \in [Socket -> {"none", "new", "listening", "connected", "closed"}]
  BY <1>1
<1>3. Created' = Created
  BY <1>1, <1>2 DEF Created
<1>4. Open' = Open
  BY <1>1, <1>2 DEF Open
<1>5. \A t \in Created : st[t] # "new" => st'[t] # "new"
  BY <1>2, CreatedOpen
<1> QED
  BY <1>2, <1>3, <1>4, <1>5

LEMMA ListenKeeps ==
    ASSUME SetupInv, NEW p \in Process, Listen(p)
    PROVE  SetupInv'
<1>1. PICK c : c = cur[p]
  OBVIOUS
<1>2. /\ pc[p] = "listen" /\ st' = [st EXCEPT ![c] = "listening"] /\ Keeps(p) /\ Returns(p)
      /\ UNCHANGED <<own, family, queued, name, port, cutter, peer, zero, turned>>
  BY <1>1 DEF Listen, names
<1>3. /\ c \in Socket /\ c \in Created /\ own[c] = p /\ st[c] = "new"
      /\ p \in Servers /\ Bound(c)
  BY <1>1, <1>2, AtWorkNow DEF AtWork
<1>4. /\ Created' = Created /\ Open' = Open /\ st'[c] = "listening"
      /\ \A t \in Socket \ {c} : st'[t] = st[t]
      /\ \A t \in Created : st[t] # "new" => st'[t] # "new"
      /\ st' \in [Socket -> {"none", "new", "listening", "connected", "closed"}]
  BY <1>1, <1>2, <1>3, StateMoves
<1>5. /\ OldKeep /\ Held' /\ SetupLeaksNothing' /\ Numbered'
      /\ pc'[p] = "idle" /\ cur'[p] = None
      /\ \A q \in Process \ {p} : pc'[q] = pc[q] /\ cur'[q] = cur[q]
      /\ pc' \in [Process -> {"idle", "option", "unlink", "bind", "listen", "connect", "stat",
                              "unlinkCaller"}]
      /\ cur' \in [Process -> Socket \cup {None}] /\ kept' \in [Process -> SUBSET Socket]
  BY <1>2, <1>4, HandsOver
<1>6. SetupTypeOK'
  BY <1>2, <1>4, <1>5 DEF SetupInv, SetupTypeOK
<1>7. Families'
  BY <1>2, <1>4 DEF SetupInv, Families
<1>8. Stages'
  <2> SUFFICES ASSUME NEW q \in Process, NEW t \in Socket
               PROVE  /\ t = cur'[q] => AtWork(q, t)'
                      /\ t = peer'[q] /\ Accepting(q)' => Accepts(q, t)'
    BY DEF Stages
  <2>1. CASE q = p
    BY <1>5, <2>1, KindsOfProcess DEF Accepting
  <2>2. CASE q # p
    <3>1. pc'[q] = pc[q] /\ cur'[q] = cur[q] /\ peer'[q] = peer[q] /\ cur[q] # c
      BY <1>1, <1>2, <1>5, <2>2, CurApart
    <3> QED
      BY <1>2, <1>4, <1>5, <3>1, StageStays
  <2> QED
    BY <2>1, <2>2
<1>9. Queues' /\ \A l, t \in Socket : InQueue(t, l)' <=> InQueue(t, l)
  BY <1>2, <1>4, <1>5, QueuesStay
<1>10. \A q \in Process : Accepting(q)' <=> Accepting(q)
  BY <1>2, <1>5 DEF Accepting
<1>11. Once' /\ Peers'
  BY <1>2, <1>9, <1>10 DEF SetupInv, Once, Peers, Distinct
<1>12. OnlyAServerCutsOff'
  <2> SUFFICES ASSUME NEW t \in Open, st'[t] = "listening" PROVE Bound(t)
    BY <1>2, <1>4 DEF OnlyAServerCutsOff, Bound
  <2>1. CASE t = c
    BY <1>3, <2>1
  <2>2. CASE t # c
    BY <1>4, <2>2, CreatedOpen DEF SetupInv, OnlyAServerCutsOff, Bound
  <2> QED
    BY <2>1, <2>2
<1>13. turned' \subseteq Created' /\ OnlyItsDoubleTurnsAway'
  BY <1>2, <1>5, TurnedStay
<1> QED
  BY <1>5, <1>6, <1>7, <1>8, <1>9, <1>11, <1>12, <1>13 DEF SetupInv

\* One more in a queue that it was not in.
LEMMA QueueAppend ==
    ASSUME NEW q \in Seq(Socket), Distinct(q), NEW c \in Socket,
           \A i \in 1 .. Len(q) : q[i] # c
    PROVE  /\ Append(q, c) \in Seq(Socket) /\ Distinct(Append(q, c))
           /\ \A i \in 1 .. Len(Append(q, c)) :
                 Append(q, c)[i] = c \/ \E j \in 1 .. Len(q) : q[j] = Append(q, c)[i]
<1> DEFINE r == Append(q, c)
<1>1. /\ r \in Seq(Socket) /\ Len(q) \in Nat /\ Len(r) = Len(q) + 1 /\ r[Len(q) + 1] = c
      /\ \A i \in 1 .. Len(q) : r[i] = q[i]
  OBVIOUS
<1> HIDE DEF r
<1>2. \A i \in 1 .. Len(r) : i = Len(q) + 1 \/ i \in 1 .. Len(q)
  BY <1>1
<1>3. Distinct(r)
  <2> SUFFICES ASSUME NEW i \in 1 .. Len(r), NEW j \in 1 .. Len(r), r[i] = r[j] PROVE i = j
    BY DEF Distinct
  <2>1. CASE i \in 1 .. Len(q) /\ j \in 1 .. Len(q)
    BY <1>1, <2>1 DEF Distinct
  <2>2. CASE i = Len(q) + 1 \/ j = Len(q) + 1
    BY <1>1, <1>2, <2>2
  <2> QED
    BY <1>2, <2>1, <2>2
<1> QED
  BY <1>1, <1>2, <1>3 DEF r

LEMMA ConnectKeeps ==
    ASSUME SetupInv, NEW p \in Process, Connect(p)
    PROVE  SetupInv'
<1>1. PICK c : c = cur[p]
  OBVIOUS
<1>2. PICK l : l = ConnectTo(p)
  OBVIOUS
<1>3. /\ pc[p] = "connect" /\ l # None /\ st[l] = "listening"
      /\ st' = [st EXCEPT ![c] = "connected"] /\ Keeps(p) /\ Returns(p)
      /\ queued' = [queued EXCEPT ![l] = Append(queued[l], c)]
      /\ UNCHANGED <<own, family, name, port, cutter, peer, zero, turned>>
  BY <1>1, <1>2 DEF Connect, Reachable, names
<1>4. /\ c \in Socket /\ c \in Created /\ own[c] = p /\ st[c] = "new"
      /\ p \in Callers /\ (family[c] = "unix" => Named(c))
  BY <1>1, <1>3, AtWorkNow DEF AtWork
<1>5. l \in Created /\ l \in Socket /\ family[l] = family[c]
  <2>1. family[c] \in {"unix", "tcp"}
    BY <1>4 DEF SetupInv, SetupTypeOK
  <2>2. CASE family[c] = "unix"
    BY <1>1, <1>2, <1>3, <2>2, CreatedOpen DEF ConnectTo, SetupInv, Families
  <2>3. CASE family[c] = "tcp"
    BY <1>1, <1>2, <1>3, <2>3, CreatedOpen DEF ConnectTo, SetupInv, Families
  <2> QED
    BY <2>1, <2>2, <2>3
<1>6. /\ Created' = Created /\ Open' = Open /\ st'[c] = "connected"
      /\ \A t \in Socket \ {c} : st'[t] = st[t]
      /\ \A t \in Created : st[t] # "new" => st'[t] # "new"
      /\ st' \in [Socket -> {"none", "new", "listening", "connected", "closed"}]
  BY <1>1, <1>3, <1>4, StateMoves
<1>7. /\ OldKeep /\ Held' /\ SetupLeaksNothing' /\ Numbered'
      /\ pc'[p] = "idle" /\ cur'[p] = None
      /\ \A q \in Process \ {p} : pc'[q] = pc[q] /\ cur'[q] = cur[q]
      /\ pc' \in [Process -> {"idle", "option", "unlink", "bind", "listen", "connect", "stat",
                              "unlinkCaller"}]
      /\ cur' \in [Process -> Socket \cup {None}] /\ kept' \in [Process -> SUBSET Socket]
  BY <1>3, <1>6, HandsOver
<1>8. \A m \in Socket : ~InQueue(c, m)
  BY <1>4 DEF SetupInv, Queues, Called
<1>9. /\ queued \in [Socket -> Seq(Socket)] /\ queued[l] \in Seq(Socket) /\ Distinct(queued[l])
  BY <1>5 DEF SetupInv, SetupTypeOK, Once
<1>10. /\ Append(queued[l], c) \in Seq(Socket) /\ Distinct(Append(queued[l], c))
       /\ \A i \in 1 .. Len(Append(queued[l], c)) :
             \/ Append(queued[l], c)[i] = c
             \/ \E j \in 1 .. Len(queued[l]) : queued[l][j] = Append(queued[l], c)[i]
  <2>1. \A i \in 1 .. Len(queued[l]) : queued[l][i] # c
    BY <1>5, <1>8 DEF InQueue
  <2> QED
    BY <1>4, <1>9, <2>1, QueueAppend
<1>11. /\ queued' \in [Socket -> Seq(Socket)] /\ queued'[l] = Append(queued[l], c)
       /\ \A m \in Socket \ {l} : queued'[m] = queued[m]
  BY <1>3, <1>5, <1>9, <1>10
<1>12. \A m, t \in Socket : InQueue(t, m)' => InQueue(t, m) \/ (t = c /\ m = l)
  <2> SUFFICES ASSUME NEW m \in Socket, NEW t \in Socket, InQueue(t, m)'
               PROVE  InQueue(t, m) \/ (t = c /\ m = l)
    OBVIOUS
  <2>1. CASE m = l
    BY <1>10, <1>11, <2>1 DEF InQueue
  <2>2. CASE m # l
    BY <1>11, <2>2 DEF InQueue
  <2> QED
    BY <2>1, <2>2
<1>13. SetupTypeOK'
  BY <1>3, <1>6, <1>7, <1>11 DEF SetupInv, SetupTypeOK
<1>14. Families'
  BY <1>3, <1>6 DEF SetupInv, Families
<1>15. \A t \in Created : Named(t) => Named(t)'
  BY <1>3, <1>7, NamedStays
<1>16. Stages'
  <2> SUFFICES ASSUME NEW q \in Process, NEW t \in Socket
               PROVE  /\ t = cur'[q] => AtWork(q, t)'
                      /\ t = peer'[q] /\ Accepting(q)' => Accepts(q, t)'
    BY DEF Stages
  <2>1. CASE q = p
    BY <1>7, <2>1, KindsOfProcess DEF Accepting
  <2>2. CASE q # p
    <3>1. pc'[q] = pc[q] /\ cur'[q] = cur[q] /\ peer'[q] = peer[q] /\ cur[q] # c
      BY <1>1, <1>3, <1>7, <2>2, CurApart
    <3> QED
      BY <1>3, <1>6, <1>7, <3>1, StageStays
  <2> QED
    BY <2>1, <2>2
<1>17. Queues'
  <2> SUFFICES ASSUME NEW m \in Socket, NEW t \in Socket, InQueue(t, m)'
               PROVE  /\ m \in Created' /\ Called(t)' /\ family'[t] = family'[m]
                      /\ family'[m] = "unix" => Named(t)'
    BY DEF Queues
  <2>1. CASE InQueue(t, m)
    <3>1. /\ m \in Created /\ Called(t) /\ family[t] = family[m]
          /\ family[m] = "unix" => Named(t)
      BY <2>1 DEF SetupInv, Queues
    <3>2. t \in Created /\ Called(t)'
      BY <1>3, <1>6, <3>1 DEF Called
    <3> QED
      BY <1>3, <1>6, <1>15, <3>1, <3>2
  <2>2. CASE t = c /\ m = l
    <3>1. Called(c)'
      BY <1>3, <1>4, <1>6 DEF Called
    <3> QED
      BY <1>3, <1>4, <1>5, <1>6, <1>15, <2>2, <3>1
  <2> QED
    BY <1>12, <2>1, <2>2
<1>18. \A q \in Process : Accepting(q)' <=> Accepting(q)
  BY <1>3, <1>7 DEF Accepting
<1>19. Peers'
  BY <1>3, <1>18 DEF SetupInv, Peers
<1>20. Once'
  <2>1. \A m \in Socket : Distinct(queued[m])'
    BY <1>10, <1>11 DEF SetupInv, Once, Distinct
  <2>2. \A m, k, t \in Socket : InQueue(t, m)' /\ InQueue(t, k)' => m = k
    BY <1>8, <1>12 DEF SetupInv, Once
  <2>3. ASSUME NEW q \in Process, NEW t \in Socket, Accepting(q)', t = peer'[q]
        PROVE  /\ \A m \in Socket : ~InQueue(t, m)'
               /\ \A r \in Process : Accepting(r)' /\ t = peer'[r] => r = q
    <3>1. Accepting(q) /\ t = peer[q] /\ Called(t)
      BY <1>3, <1>18, <2>3 DEF SetupInv, Stages, Accepts
    <3>2. t # c
      BY <1>4, <3>1 DEF Called
    <3> QED
      BY <1>3, <1>12, <1>18, <3>1, <3>2 DEF SetupInv, Once
  <2> QED
    BY <2>1, <2>2, <2>3 DEF Once
<1>21. OnlyAServerCutsOff'
  <2> SUFFICES ASSUME NEW t \in Open, st'[t] = "listening" PROVE Bound(t)
    BY <1>3, <1>6 DEF OnlyAServerCutsOff, Bound
  <2>1. t # c
    BY <1>6
  <2> QED
    BY <1>6, <2>1, CreatedOpen DEF SetupInv, OnlyAServerCutsOff, Bound
<1>22. turned' \subseteq Created' /\ OnlyItsDoubleTurnsAway'
  BY <1>3, <1>7, TurnedStay
<1> QED
  BY <1>7, <1>13, <1>14, <1>16, <1>17, <1>19, <1>20, <1>21, <1>22 DEF SetupInv

LEMMA StatKeeps ==
    ASSUME SetupInv, NEW p \in Process, Stat(p)
    PROVE  SetupInv'
<1>1. /\ pc[p] = "stat" /\ pc' = [pc EXCEPT ![p] = "unlinkCaller"]
      /\ UNCHANGED <<own, family, st, queued, name, port, cutter, cur, peer, kept, zero, turned>>
  BY DEF Stat, sockets, names
<1>2. /\ Created' = Created /\ Open' = Open /\ OldKeep
      /\ Held' /\ SetupLeaksNothing' /\ Numbered'
      /\ pc'[p] = "unlinkCaller" /\ \A q \in Process \ {p} : pc'[q] = pc[q]
      /\ pc' \in [Process -> {"idle", "option", "unlink", "bind", "listen", "connect", "stat",
                              "unlinkCaller"}]
  BY <1>1, WorkGoesOn
<1>3. SetupTypeOK' /\ Families'
  BY <1>1, <1>2 DEF SetupInv, SetupTypeOK, Families
<1>4. Stages'
  <2> SUFFICES ASSUME NEW q \in Process, NEW t \in Socket
               PROVE  /\ t = cur'[q] => AtWork(q, t)'
                      /\ t = peer'[q] /\ Accepting(q)' => Accepts(q, t)'
    BY DEF Stages
  <2>1. CASE q = p
    <3>1. t = peer[p] => Called(t) /\ family[t] = "unix"
      BY <1>1 DEF SetupInv, Stages, Accepting, Accepts
    <3> QED
      BY <1>1, <1>2, <2>1, <3>1 DEF AtWork, Accepts, Called
  <2>2. CASE q # p
    BY <1>1, <1>2, <2>2, StageStays
  <2> QED
    BY <2>1, <2>2
<1>5. Queues' /\ \A l, t \in Socket : InQueue(t, l)' <=> InQueue(t, l)
  BY <1>1, <1>2, QueuesStay
<1>6. \A q \in Process : Accepting(q)' <=> Accepting(q)
  BY <1>1, <1>2 DEF Accepting
<1>7. Once' /\ Peers'
  BY <1>1, <1>5, <1>6 DEF SetupInv, Once, Peers, Distinct
<1>8. OnlyAServerCutsOff'
  BY <1>1, <1>2 DEF SetupInv, OnlyAServerCutsOff
<1>9. turned' \subseteq Created' /\ OnlyItsDoubleTurnsAway'
  BY <1>1, <1>2, TurnedStay
<1> QED
  BY <1>2, <1>3, <1>4, <1>5, <1>7, <1>8, <1>9 DEF SetupInv

LEMMA UnlinkCallerKeeps ==
    ASSUME SetupInv, NEW p \in Process, UnlinkCaller(p)
    PROVE  SetupInv'
<1>1. PICK x : x = peer[p]
  OBVIOUS
<1>2. /\ pc[p] = "unlinkCaller" /\ Keeps(p) /\ Returns(p)
      /\ name' = [name EXCEPT ![own[x]] = None]
      /\ UNCHANGED <<own, family, st, queued, port, cutter, peer, zero, turned>>
  BY <1>1 DEF UnlinkCaller, Caller, sockets
<1>3. x \in Socket /\ x \in Created /\ Called(x) /\ family[x] = "unix" /\ own[x] \in Callers
  <2>1. Accepting(p) /\ x \in Socket
    BY <1>1, <1>2 DEF Accepting, SetupInv, Peers
  <2>2. Accepts(p, x)
    BY <1>1, <2>1 DEF SetupInv, Stages
  <2> QED
    BY <2>1, <2>2 DEF Accepts, Called
<1>4. Created' = Created /\ Open' = Open
  BY <1>2 DEF Created, Open
<1>5. /\ OldKeep /\ Held' /\ SetupLeaksNothing' /\ Numbered'
      /\ pc'[p] = "idle" /\ cur'[p] = None
      /\ \A q \in Process \ {p} : pc'[q] = pc[q] /\ cur'[q] = cur[q]
      /\ pc' \in [Process -> {"idle", "option", "unlink", "bind", "listen", "connect", "stat",
                              "unlinkCaller"}]
      /\ cur' \in [Process -> Socket \cup {None}] /\ kept' \in [Process -> SUBSET Socket]
  BY <1>2, <1>4, HandsOver
<1>6. /\ name' \in [Callers \cup {NoProcess} -> Socket \cup {None}]
      /\ \A y \in Callers \cup {NoProcess} : name'[y] = IF y = own[x] THEN None ELSE name[y]
  <2>1. name \in [Callers \cup {NoProcess} -> Socket \cup {None}]
    BY DEF SetupInv, SetupTypeOK
  <2> QED
    BY <1>2, <2>1
<1>7. SetupTypeOK'
  BY <1>2, <1>5, <1>6 DEF SetupInv, SetupTypeOK
<1>8. Families'
  BY <1>2, <1>4, <1>6 DEF SetupInv, Families
<1>9. ASSUME NEW t \in Created, own[t] \in Callers, t # x, Named(t) PROVE Named(t)'
  <2>1. CASE own[t] = own[x]
    <3>1. Double(t)
      BY <1>3, <1>9, <2>1 DEF Double
    <3> QED
      BY <1>5, <3>1, DoubleStays DEF Named
  <2>2. CASE own[t] # own[x]
    <3>1. name'[own'[t]] = name[own[t]]
      BY <1>2, <1>6, <1>9, <2>2
    <3>2. Double(t) => Double(t)'
      BY <1>5, DoubleStays
    <3> QED
      BY <1>9, <3>1, <3>2 DEF Named
  <2> QED
    BY <2>1, <2>2
<1>10. \A t \in Created : Bound(t) => Bound(t)'
  <2>1. name'[NoProcess] = name[NoProcess]
    BY <1>3, <1>6, KindsOfProcess
  <2> QED
    BY <1>2, <2>1 DEF Bound
<1>11. \A t \in Created : st[t] # "new" => st'[t] # "new"
  BY <1>2
<1>12. Accepting(p)
  BY <1>2 DEF Accepting
<1>13. Stages'
  <2> SUFFICES ASSUME NEW q \in Process, NEW t \in Socket
               PROVE  /\ t = cur'[q] => AtWork(q, t)'
                      /\ t = peer'[q] /\ Accepting(q)' => Accepts(q, t)'
    BY DEF Stages
  <2>1. CASE q = p
    BY <1>5, <2>1, KindsOfProcess DEF Accepting
  <2>2. CASE q # p
    <3>1. pc'[q] = pc[q] /\ cur'[q] = cur[q] /\ peer'[q] = peer[q]
      BY <1>2, <1>5, <2>2
    <3>2. t = cur[q] => pc[q] # "idle"
      BY KindsOfProcess DEF SetupInv, Held, HeldBy
    <3>3. t = cur[q] => t \in Created /\ own[t] = q /\ AtWork(q, t)
      BY <3>2, AtWorkNow
    <3>4. t = cur[q] /\ pc[q] = "connect" /\ Named(t) => Named(t)'
      BY <1>3, <1>9, <3>3 DEF AtWork, Called
    <3>5. t = cur[q] /\ pc[q] = "listen" /\ Bound(t) => Bound(t)'
      BY <1>10, <3>3
    <3>6. t = peer[q] /\ pc[q] = "stat" => t # x
      BY <1>1, <1>3, <1>12, <2>2 DEF SetupInv, Once, Accepting
    <3>7. t = peer[q] /\ pc[q] = "stat" /\ Called(t) /\ Named(t) => Named(t)'
      BY <1>9, <3>6 DEF Called
    <3> QED
      BY <1>2, <1>5, <1>11, <3>1, <3>4, <3>5, <3>7, StageKeepsNames
  <2> QED
    BY <2>1, <2>2
<1>14. \A l, t \in Socket : InQueue(t, l)' <=> InQueue(t, l)
  BY <1>2 DEF InQueue
<1>15. Queues'
  <2>1. \A l, t \in Socket : InQueue(t, l) => t # x
    BY <1>1, <1>3, <1>12 DEF SetupInv, Once
  <2>2. \A l, t \in Socket : InQueue(t, l) /\ Called(t) /\ Named(t) => Named(t)'
    BY <1>9, <2>1 DEF Called
  <2> QED
    BY <1>5, <1>11, <1>14, <2>2, QueuesKeepNames
<1>16. \A q \in Process : Accepting(q)' => Accepting(q)
  BY <1>5 DEF Accepting
<1>17. Once' /\ Peers'
  BY <1>2, <1>14, <1>16 DEF SetupInv, Once, Peers, Distinct
<1>18. OnlyAServerCutsOff'
  <2> SUFFICES ASSUME NEW t \in Open, st[t] = "listening" PROVE Bound(t)'
    BY <1>2, <1>4 DEF OnlyAServerCutsOff, Bound
  <2>1. t \in Created /\ Bound(t)
    BY CreatedOpen DEF SetupInv, OnlyAServerCutsOff, Bound
  <2> QED
    BY <1>10, <2>1
<1>19. turned' \subseteq Created' /\ OnlyItsDoubleTurnsAway'
  BY <1>2, <1>5, TurnedStay
<1> QED
  BY <1>5, <1>7, <1>8, <1>13, <1>15, <1>17, <1>18, <1>19 DEF SetupInv

-----------------------------------------------------------------------------
(***************************************************************************)
(* Closing                                                                 *)
(***************************************************************************)
\* A process closes sockets of its own, among them the one it works at, if
\* there is one.
LEMMA CloseAllKeeps ==
    ASSUME SetupInv, NEW p \in Process, NEW ss, \A s \in ss : Mine(p, s), CloseAll(ss),
           UNCHANGED <<own, family, name, cutter, peer>>,
           pc[p] = "idle" \/ cur[p] \in ss,
           Returns(p), kept' \in [Process -> SUBSET Socket], kept'[p] = kept[p] \ ss,
           \A q \in Process \ {p} : kept'[q] = kept[q],
           turned' \subseteq Created, OnlyItsDoubleTurnsAway'
    PROVE  SetupInv'
<1>1. /\ st \in [Socket -> {"none", "new", "listening", "connected", "closed"}]
      /\ queued \in [Socket -> Seq(Socket)] /\ port \in Socket \cup {None}
      /\ zero \in [Process -> Socket \cup {Stdin, None}]
      /\ pc \in [Process -> {"idle", "option", "unlink", "bind", "listen", "connect", "stat",
                             "unlinkCaller"}]
      /\ cur \in [Process -> Socket \cup {None}]
  BY DEF SetupInv, SetupTypeOK
<1>2. ss \subseteq Open /\ ss \subseteq Socket /\ \A s \in ss : own[s] = p
  BY CreatedOpen DEF Mine
<1>3. /\ \A s \in Socket : st'[s] = IF s \in ss THEN "closed" ELSE st[s]
      /\ st' \in [Socket -> {"none", "new", "listening", "connected", "closed"}]
  BY <1>1 DEF CloseAll
<1>4. /\ \A s \in Socket : queued'[s] = IF s \in ss THEN <<>> ELSE queued[s]
      /\ queued' \in [Socket -> Seq(Socket)]
  <2>1. <<>> \in Seq(Socket)
    OBVIOUS
  <2> QED
    BY <1>1, <2>1 DEF CloseAll
<1>5. port' = (IF port \in ss THEN None ELSE port) /\ port' \in Socket \cup {None}
  BY <1>1 DEF CloseAll
<1>6. /\ \A q \in Process : zero'[q] = IF zero[q] \in ss THEN None ELSE zero[q]
      /\ zero' \in [Process -> Socket \cup {Stdin, None}]
  BY <1>1 DEF CloseAll
<1>7. Created' = Created /\ Open' = Open \ ss /\ OldKeep
  <2>1. Created' = Created
    BY <1>2, <1>3 DEF Created, Open
  <2>2. Open' = Open \ ss
    BY <1>2, <1>3 DEF Open
  <2> QED
    BY <2>1, <2>2 DEF OldKeep
<1>8. /\ pc'[p] = "idle" /\ cur'[p] = None
      /\ \A q \in Process \ {p} : pc'[q] = pc[q] /\ cur'[q] = cur[q]
      /\ pc' \in [Process -> {"idle", "option", "unlink", "bind", "listen", "connect", "stat",
                              "unlinkCaller"}]
      /\ cur' \in [Process -> Socket \cup {None}]
  BY <1>1 DEF Returns
<1>9. SetupTypeOK'
  BY <1>3, <1>4, <1>5, <1>6, <1>8, CreatedOpen DEF SetupInv, SetupTypeOK
<1>10. \A q \in Process : HeldBy(q)
  BY DEF SetupInv, Held
<1>11. Held'
  <2>1. ASSUME NEW q \in Process, NEW s, Mine(q, s), s \notin ss PROVE Mine(q, s)'
    BY <1>7, <2>1 DEF Mine
  <2>2. ASSUME NEW q \in Process PROVE HeldBy(q)'
    <3>1. CASE q = p
      BY <1>8, <1>10, <2>1, <3>1 DEF HeldBy
    <3>2. CASE q # p
      <4>1. pc'[q] = pc[q] /\ cur'[q] = cur[q] /\ kept'[q] = kept[q]
        BY <1>8, <3>2
      <4>2. \A s : Mine(q, s) => s \notin ss
        BY <1>2, <3>2 DEF Mine
      <4>3. \A s : Mine(q, s) => s \in Open' /\ own'[s] = q
        BY <1>7, <4>2 DEF Mine
      <4> QED
        BY <1>10, <4>1, <4>3 DEF HeldBy, Mine
    <3> QED
      BY <3>1, <3>2
  <2> QED
    BY <1>7, <2>2 DEF SetupInv, Held
<1>12. Numbered' /\ Families'
  BY <1>5, <1>7 DEF SetupInv, Numbered, Families
<1>13. \A t \in Created : st[t] # "new" => st'[t] # "new"
  BY <1>3, CreatedOpen
<1>14. \A t \in Created : t \notin ss /\ Bound(t) => Bound(t)'
  BY <1>5, KindsOfProcess, CreatedOpen DEF Bound
<1>15. \A t \in Created : Named(t) => Named(t)'
  BY <1>7, NamedStays
<1>16. Stages'
  <2> SUFFICES ASSUME NEW q \in Process, NEW t \in Socket
               PROVE  /\ t = cur'[q] => AtWork(q, t)'
                      /\ t = peer'[q] /\ Accepting(q)' => Accepts(q, t)'
    BY DEF Stages
  <2>1. CASE q = p
    BY <1>8, <2>1, KindsOfProcess DEF Accepting
  <2>2. CASE q # p
    <3>1. pc'[q] = pc[q] /\ cur'[q] = cur[q] /\ peer'[q] = peer[q]
      BY <1>8, <2>2
    <3>2. t = cur[q] => t \in Created /\ t \notin ss
      BY <1>2, <1>10, <2>2, KindsOfProcess, CreatedOpen DEF HeldBy, Mine
    <3>3. t = cur[q] => st'[t] = st[t]
      BY <1>3, <3>2
    <3>4. Called(t) /\ Named(t) => Named(t)'
      BY <1>15 DEF Called
    <3> QED
      BY <1>7, <1>13, <1>14, <1>15, <3>1, <3>2, <3>3, <3>4, StageKeepsNames
  <2> QED
    BY <2>1, <2>2
<1>17. \A l, t \in Socket : InQueue(t, l)' => InQueue(t, l)
  <2> SUFFICES ASSUME NEW l \in Socket, NEW t \in Socket, InQueue(t, l)' PROVE InQueue(t, l)
    OBVIOUS
  <2>1. CASE l \in ss
    <3>1. Len(queued'[l]) = 0
      BY <1>4, <2>1
    <3> QED
      BY <3>1 DEF InQueue
  <2>2. CASE l \notin ss
    BY <1>4, <2>2 DEF InQueue
  <2> QED
    BY <2>1, <2>2
<1>18. Queues'
  BY <1>7, <1>13, <1>17, QueuesShrink
<1>19. \A q \in Process : Accepting(q)' => Accepting(q)
  BY <1>8 DEF Accepting
<1>20. Peers'
  BY <1>19 DEF SetupInv, Peers
<1>21. Once'
  <2>1. \A l \in Socket : Distinct(queued[l])'
    <3> SUFFICES ASSUME NEW l \in Socket PROVE Distinct(queued[l])'
      OBVIOUS
    <3>1. CASE l \in ss
      <4>1. Len(queued'[l]) = 0
        BY <1>4, <3>1
      <4> QED
        BY <4>1 DEF Distinct
    <3>2. CASE l \notin ss
      BY <1>4, <3>2 DEF SetupInv, Once, Distinct
    <3> QED
      BY <3>1, <3>2
  <2> QED
    BY <1>17, <1>19, <2>1 DEF SetupInv, Once
<1>22. SetupLeaksNothing'
  <2> SUFFICES ASSUME NEW t \in Open, t \notin ss
               PROVE  \/ t \in kept'[own[t]] \/ t = cur'[own[t]]
                      \/ family[t] = "tcp" /\ zero'[own[t]] = t
    BY <1>7 DEF SetupLeaksNothing
  <2>1. own[t] \in Process /\ t # None
    BY CreatedOpen, KindsOfProcess DEF SetupInv, Held
  <2>2. \/ t \in kept[own[t]] \/ t = cur[own[t]]
        \/ family[t] = "tcp" /\ zero[own[t]] = t
    BY DEF SetupInv, SetupLeaksNothing
  <2>3. CASE t \in kept[own[t]]
    BY <2>1, <2>3
  <2>4. CASE t = cur[own[t]]
    <3>1. own[t] # p
      BY <1>10, <2>1, <2>4 DEF HeldBy
    <3> QED
      BY <1>8, <2>1, <2>4, <3>1
  <2>5. CASE family[t] = "tcp" /\ zero[own[t]] = t
    BY <1>6, <2>1, <2>5
  <2> QED
    BY <2>2, <2>3, <2>4, <2>5
<1>23. OnlyAServerCutsOff'
  <2> SUFFICES ASSUME NEW t \in Open, t \notin ss, st'[t] = "listening" PROVE Bound(t)'
    BY <1>7 DEF OnlyAServerCutsOff, Bound
  <2>1. t \in Created /\ st[t] = "listening"
    BY <1>3, CreatedOpen
  <2>2. Bound(t)
    BY <2>1 DEF SetupInv, OnlyAServerCutsOff, Bound
  <2> QED
    BY <1>14, <2>1, <2>2
<1> QED
  BY <1>7, <1>9, <1>11, <1>12, <1>16, <1>18, <1>20, <1>21, <1>22, <1>23 DEF SetupInv

\* The error paths: close(), and nothing is kept.
LEMMA FailsKeeps ==
    ASSUME SetupInv, NEW p \in Process, pc[p] # "idle", Fails(p),
           turned' \subseteq Created, OnlyItsDoubleTurnsAway'
    PROVE  SetupInv'
<1> DEFINE ss == {cur[p]}
<1>1. /\ CloseAll(ss) /\ Returns(p) /\ UNCHANGED <<own, family, name, cutter, peer>> /\ kept' = kept
  BY DEF Fails
<1>2. Mine(p, cur[p]) /\ cur[p] \notin kept[p] /\ kept \in [Process -> SUBSET Socket]
  BY DEF SetupInv, Held, HeldBy, SetupTypeOK
<1>3. \A s \in ss : Mine(p, s)
  BY <1>2
<1>4. kept'[p] = kept[p] \ ss
  BY <1>1, <1>2
<1> QED
  BY <1>1, <1>2, <1>3, <1>4, CloseAllKeeps

LEMMA SetupFailsKeeps ==
    ASSUME SetupInv, NEW p \in Process, SetupFails(p)
    PROVE  SetupInv'
<1>1. pc[p] # "idle" /\ Fails(p) /\ turned' = turned
  BY DEF SetupFails
<1>2. Created' = Created /\ OldKeep
  <2>1. UNCHANGED <<own, family>> /\ CloseAll({cur[p]}) /\ cur[p] \in Open
    BY <1>1 DEF Fails, SetupInv, Held, HeldBy, Mine
  <2> QED
    BY <2>1 DEF Created, Open, OldKeep, CloseAll
<1>3. turned' \subseteq Created /\ OnlyItsDoubleTurnsAway'
  BY <1>1, <1>2, TurnedStay
<1> QED
  BY <1>1, <1>3, FailsKeeps

\* Who is turned away has a double: its name is gone.
LEMMA StatFailsKeeps ==
    ASSUME SetupInv, NEW p \in Process, StatFails(p)
    PROVE  SetupInv'
<1>1. PICK x : x = peer[p]
  OBVIOUS
<1>2. pc[p] = "stat" /\ name[own[x]] = None /\ Fails(p) /\ turned' = turned \cup {x}
  BY <1>1 DEF StatFails, Caller
<1>3. x \in Socket /\ Named(x) /\ x \in Created
  <2>1. Accepting(p) /\ x \in Socket
    BY <1>1, <1>2 DEF Accepting, SetupInv, Peers
  <2>2. Accepts(p, x)
    BY <1>1, <2>1 DEF SetupInv, Stages
  <2> QED
    BY <1>2, <2>1, <2>2 DEF Accepts, Called
<1>4. Double(x)
  BY <1>2, <1>3, KindsOfProcess DEF Named
<1>5. Created' = Created /\ OldKeep
  <2>1. UNCHANGED <<own, family>> /\ CloseAll({cur[p]}) /\ cur[p] \in Open
    BY <1>2 DEF Fails, SetupInv, Held, HeldBy, Mine
  <2> QED
    BY <2>1 DEF Created, Open, OldKeep, CloseAll
<1>6. turned \subseteq Created /\ \A s \in turned : Double(s)
  BY DEF SetupInv, OnlyItsDoubleTurnsAway, Double
<1>7. \A s \in turned \cup {x} : Double(s)'
  BY <1>3, <1>4, <1>5, <1>6, DoubleStays
<1>8. turned' \subseteq Created /\ OnlyItsDoubleTurnsAway'
  BY <1>2, <1>3, <1>6, <1>7 DEF OnlyItsDoubleTurnsAway, Double
<1> QED
  BY <1>2, <1>8, FailsKeeps

LEMMA CloseKeeps ==
    ASSUME SetupInv, NEW p \in Process, NEW s \in Socket, Close(p, s)
    PROVE  SetupInv'
<1> DEFINE ss == {s}
<1>1. /\ pc[p] = "idle" /\ s \in kept[p] /\ CloseAll(ss)
      /\ kept' = [kept EXCEPT ![p] = @ \ ss]
      /\ UNCHANGED <<own, family, name, cutter, pc, cur, peer, turned>>
  BY DEF Close
<1>2. /\ Mine(p, s) /\ cur[p] = None /\ kept \in [Process -> SUBSET Socket]
      /\ pc \in [Process -> {"idle", "option", "unlink", "bind", "listen", "connect", "stat",
                             "unlinkCaller"}]
      /\ cur \in [Process -> Socket \cup {None}]
  BY <1>1 DEF SetupInv, Held, HeldBy, SetupTypeOK
<1>3. Returns(p)
  BY <1>1, <1>2 DEF Returns
<1>4. \A t \in ss : Mine(p, t)
  BY <1>2
<1>5. /\ kept' \in [Process -> SUBSET Socket] /\ kept'[p] = kept[p] \ ss
      /\ \A q \in Process \ {p} : kept'[q] = kept[q]
  BY <1>1, <1>2
<1>6. Created' = Created /\ OldKeep
  BY <1>1, <1>2 DEF Created, Open, OldKeep, CloseAll, Mine
<1>7. turned' \subseteq Created /\ OnlyItsDoubleTurnsAway'
  BY <1>1, <1>6, TurnedStay
<1> HIDE DEF ss
<1> QED
  BY <1>1, <1>3, <1>4, <1>5, <1>7, CloseAllKeeps

LEMMA DieKeeps ==
    ASSUME SetupInv, NEW p \in Process, Die(p)
    PROVE  SetupInv'
<1>1. PICK ss : ss = {s \in Open : own[s] = p}
  OBVIOUS
<1>2. /\ CloseAll(ss) /\ kept' = [kept EXCEPT ![p] = {}] /\ Returns(p)
      /\ UNCHANGED <<own, family, name, cutter, peer, turned>>
  BY <1>1 DEF Die
<1>3. \A s : s \in ss <=> Mine(p, s)
  BY <1>1 DEF Mine
<1>4. HeldBy(p) /\ kept \in [Process -> SUBSET Socket]
  BY DEF SetupInv, Held, SetupTypeOK
<1>5. pc[p] = "idle" \/ cur[p] \in ss
  BY <1>3, <1>4 DEF HeldBy
<1>6. /\ kept' \in [Process -> SUBSET Socket] /\ kept'[p] = kept[p] \ ss
      /\ \A q \in Process \ {p} : kept'[q] = kept[q]
  BY <1>2, <1>3, <1>4 DEF HeldBy
<1>7. Created' = Created /\ OldKeep
  BY <1>1, <1>2 DEF Created, Open, OldKeep, CloseAll
<1>8. turned' \subseteq Created /\ OnlyItsDoubleTurnsAway'
  BY <1>2, <1>7, TurnedStay
<1> QED
  BY <1>2, <1>3, <1>5, <1>6, <1>8, CloseAllKeeps

LEMMA SetupStutterKeeps == SetupInv /\ UNCHANGED vars => SetupInv'
<1> SUFFICES ASSUME SetupInv, UNCHANGED vars PROVE SetupInv'
  OBVIOUS
<1>1. UNCHANGED <<own, family, st, queued, name, port, cutter, pc, cur, peer, kept, zero, turned>>
  BY DEF vars, sockets, names
<1>2. Created' = Created /\ Open' = Open /\ OldKeep
  BY <1>1 DEF Created, Open, OldKeep
<1>3. SetupTypeOK' /\ Numbered' /\ Families'
  BY <1>1, <1>2 DEF SetupInv, SetupTypeOK, Numbered, Families
<1>4. Held'
  BY <1>1, <1>2 DEF SetupInv, Held, HeldBy, Mine
<1>5. Stages' /\ Peers'
  <2>1. Stages'
    BY <1>1, <1>2, StageStays DEF Stages
  <2> QED
    BY <1>1, <2>1 DEF SetupInv, Peers, Accepting
<1>6. Queues' /\ Once'
  <2>1. Queues' /\ \A l, t \in Socket : InQueue(t, l)' <=> InQueue(t, l)
    BY <1>1, <1>2, QueuesStay
  <2>2. \A q \in Process : Accepting(q)' <=> Accepting(q)
    BY <1>1 DEF Accepting
  <2> QED
    BY <1>1, <2>1, <2>2 DEF SetupInv, Once, Distinct
<1>7. SetupLeaksNothing' /\ OnlyAServerCutsOff'
  BY <1>1, <1>2 DEF SetupInv, SetupLeaksNothing, OnlyAServerCutsOff
<1>8. turned' \subseteq Created' /\ OnlyItsDoubleTurnsAway'
  BY <1>1, <1>2, TurnedStay
<1> QED
  BY <1>3, <1>4, <1>5, <1>6, <1>7, <1>8 DEF SetupInv

LEMMA SetupHolds == Spec => []SetupInv
<1>1. SetupInv /\ [Next]_vars => SetupInv'
  <2> SUFFICES ASSUME SetupInv, [Next]_vars PROVE SetupInv'
    OBVIOUS
  <2>1. ASSUME NEW p \in Process, NEW f \in {"unix", "tcp"}, Create(p, f) PROVE SetupInv'
    BY <2>1, CreateKeeps
  <2>2. ASSUME NEW p \in Process, UnlinkOld(p) PROVE SetupInv'
    BY <2>2, UnlinkOldKeeps
  <2>3. ASSUME NEW p \in Process, Bind(p) PROVE SetupInv'
    BY <2>3, BindKeeps
  <2>4. ASSUME NEW p \in Process, Listen(p) PROVE SetupInv'
    BY <2>4, ListenKeeps
  <2>5. ASSUME NEW p \in Process, Connect(p) PROVE SetupInv'
    BY <2>5, ConnectKeeps
  <2>6. ASSUME NEW p \in Process, SetupFails(p) PROVE SetupInv'
    BY <2>6, SetupFailsKeeps
  <2>7. ASSUME NEW p \in Process, NEW s \in Socket, Accept(p, s) PROVE SetupInv'
    BY <2>7, AcceptKeeps
  <2>8. ASSUME NEW p \in Process, NEW s \in Socket, Close(p, s) PROVE SetupInv'
    BY <2>8, CloseKeeps
  <2>9. ASSUME NEW p \in Process, Stat(p) PROVE SetupInv'
    BY <2>9, StatKeeps
  <2>10. ASSUME NEW p \in Process, StatFails(p) PROVE SetupInv'
    BY <2>10, StatFailsKeeps
  <2>11. ASSUME NEW p \in Process, UnlinkCaller(p) PROVE SetupInv'
    BY <2>11, UnlinkCallerKeeps
  <2>12. ASSUME NEW p \in Process, Die(p) PROVE SetupInv'
    BY <2>12, DieKeeps
  <2>13. ASSUME NEW p \in Process, SetOption(p) PROVE SetupInv'
    BY <2>13, SetOptionKeeps
  <2>14. CASE UNCHANGED vars
    BY <2>14, SetupStutterKeeps
  <2> QED
    BY <2>1, <2>2, <2>3, <2>4, <2>5, <2>6, <2>7, <2>8, <2>9, <2>10, <2>11, <2>12, <2>13, <2>14
       DEF Next
<1> QED
  BY <1>1, SetupInitHolds, PTL DEF Spec

\* Whatever setupListenSocket, setupConnectionSocket and acceptConnectSocket
\* fail at, and whoever closes or dies, no descriptor is left open but what
\* was returned, what a call works at, and a TCP socket that became
\* descriptor 0; for any number of processes and sockets.
THEOREM NoDescriptorLeaks == Spec => []SetupLeaksNothing
<1>1. SetupInv => SetupLeaksNothing
  BY DEF SetupInv
<1> QED
  BY <1>1, SetupHolds, PTL

\* A listening socket keeps its port, and its name until another
\* setupListenSocket() unlinks it.
THEOREM ServersStayReachable == Spec => []OnlyAServerCutsOff
<1>1. SetupInv => OnlyAServerCutsOff
  BY DEF SetupInv
<1> QED
  BY <1>1, SetupHolds, PTL

\* acceptConnectSocket() turns a caller away only if its process, or its
\* successor, has called setupConnectionSocket() for a Unix socket again.
THEOREM CallersAreTurnedAwayByDoubles == Spec => []OnlyItsDoubleTurnsAway
<1>1. SetupInv => OnlyItsDoubleTurnsAway
  BY DEF SetupInv
<1> QED
  BY <1>1, SetupHolds, PTL
=============================================================================

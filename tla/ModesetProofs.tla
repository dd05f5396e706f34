--------------------------- MODULE ModesetProofs ---------------------------
(***************************************************************************)
(* How Modeset shares out the CRTCs, what it leaves behind, what the       *)
(* screens show in the end and how the colours move, for every card,       *)
(* proved with TLAPS.                                                      *)
(***************************************************************************)
EXTENDS Modeset, WellFoundedInduction, TLAPS

-----------------------------------------------------------------------------
(***************************************************************************)
(* Numbers and sequences                                                   *)
(***************************************************************************)
LEMMA LeastOf ==
    ASSUME NEW T \in SUBSET Nat, T # {}
    PROVE  \E x \in T : \A y \in T : x <= y
<1>1. PICK x \in T : \A y \in T : <<y, x>> \notin OpToRel(<, Nat)
  <2> DEFINE R == OpToRel(<, Nat)
  <2>1. IsWellFoundedOn(R, Nat)
    BY NatLessThanWellFounded
  <2> HIDE DEF R
  <2>2. \E x \in T : \A y \in T : <<y, x>> \notin R
    BY <2>1, WFMin
  <2> QED
    BY <2>2 DEF R
<1>2. \A y \in T : ~(y < x)
  BY <1>1 DEF OpToRel
<1> QED
  BY <1>2

LEMMA ModOnce ==
    ASSUME NEW l \in Nat \ {0}, NEW a \in 0 .. 2 * l - 1
    PROVE  a % l = IF a < l THEN a ELSE a - l
OBVIOUS

\* The newest device is the first.
LEMMA TailFacts ==
    ASSUME NEW S, NEW s \in Seq(S), s # <<>>
    PROVE  /\ Head(s) = s[1] /\ 1 \in DOMAIN s /\ Head(s) \in ToSet(s)
           /\ Tail(s) \in Seq(S)
           /\ \A i \in DOMAIN Tail(s) : i + 1 \in DOMAIN s /\ Tail(s)[i] = s[i + 1]
           /\ \A i \in DOMAIN s : i = 1 \/ (i - 1 \in DOMAIN Tail(s) /\ Tail(s)[i - 1] = s[i])
<1>1. /\ Head(s) = s[1] /\ 1 \in DOMAIN s
      /\ Tail(s) \in Seq(S) /\ Len(Tail(s)) = Len(s) - 1 /\ Len(s) \in Nat
      /\ DOMAIN s = 1 .. Len(s) /\ DOMAIN Tail(s) = 1 .. Len(Tail(s))
      /\ \A i \in 1 .. Len(Tail(s)) : Tail(s)[i] = s[i + 1]
  OBVIOUS
<1>2. Head(s) \in ToSet(s)
  BY <1>1 DEF ToSet
<1> QED
  BY <1>1, <1>2

\* It is put in front.
LEMMA ConsFacts ==
    ASSUME NEW S, NEW s \in Seq(S), NEW e \in S
    PROVE  /\ <<e>> \o s \in Seq(S)
           /\ Len(<<e>> \o s) = Len(s) + 1
           /\ (<<e>> \o s)[1] = e
           /\ \A i \in 1 .. Len(s) : (<<e>> \o s)[i + 1] = s[i]
           /\ \A i \in 2 .. Len(s) + 1 : (<<e>> \o s)[i] = s[i - 1]
           /\ ToSet(<<e>> \o s) = {e} \cup ToSet(s)
<1>1. /\ <<e>> \o s \in Seq(S) /\ Len(<<e>> \o s) = Len(s) + 1 /\ Len(s) \in Nat
      /\ (<<e>> \o s)[1] = e
      /\ \A i \in 1 .. Len(s) : (<<e>> \o s)[i + 1] = s[i]
      /\ \A i \in 2 .. Len(s) + 1 : (<<e>> \o s)[i] = s[i - 1]
  OBVIOUS
<1>2. ToSet(<<e>> \o s) = {e} \cup ToSet(s)
  <2> DEFINE u == <<e>> \o s
  <2>1. /\ DOMAIN u = 1 .. Len(s) + 1 /\ DOMAIN s = 1 .. Len(s) /\ u[1] = e /\ Len(s) \in Nat
        /\ \A i \in 1 .. Len(s) : u[i + 1] = s[i]
        /\ \A i \in 2 .. Len(s) + 1 : u[i] = s[i - 1]
    BY <1>1
  <2> HIDE DEF u
  <2>2. ASSUME NEW i \in DOMAIN u PROVE u[i] \in {e} \cup ToSet(s)
    <3>1. CASE i = 1
      BY <2>1, <3>1
    <3>2. CASE i # 1
      <4>1. i - 1 \in DOMAIN s /\ u[i] = s[i - 1]
        BY <2>1, <3>2
      <4> QED
        BY <4>1 DEF ToSet
    <3> QED
      BY <3>1, <3>2
  <2>3. ASSUME NEW i \in DOMAIN s PROVE s[i] \in ToSet(u)
    <3>1. i + 1 \in DOMAIN u /\ u[i + 1] = s[i]
      BY <2>1
    <3> QED
      BY <3>1 DEF ToSet
  <2>4. e \in ToSet(u)
    BY <2>1 DEF ToSet
  <2>5. ToSet(u) = {e} \cup ToSet(s)
    BY <2>2, <2>3, <2>4 DEF ToSet
  <2> QED
    BY <2>5 DEF u
<1> QED
  BY <1>1, <1>2

-----------------------------------------------------------------------------
(***************************************************************************)
(* The invariant                                                           *)
(***************************************************************************)
Creating == {"create dumb", "add fb", "map"}
Setup == {"open", "resources", "prepare"} \cup Creating

\* Later devices come first.
Descending == \A i, j \in DOMAIN list : i < j => list[j] < list[i]

\* Where the program has how many devices.
Stages ==
    /\ at \in {"open", "resources"} => list = <<>> /\ conn = 1
    /\ at \in Setup => \A i \in DOMAIN list : list[i] < conn
    /\ at \in Creating => conn \in Conn
    /\ at = "show" => conn = Connectors + 1
    /\ at = "open" => ~fd

\* No connector has been moved before the first is shown.
OwnCrtcs == at \in Setup => \A c \in Conn : route[c] \in {None} \cup Possible(c)

LeftOut ==
    at \in Setup \cup {"show"} => \A c \in 1 .. conn - 1 :
        status[c] = "usable" /\ c \notin ToSet(list) /\ c \notin failed
            => \A k \in Possible(c) : \E d \in ToSet(list) : d < c /\ crtc[d] = k

IInv ==
    /\ TypeOK /\ Descending /\ Stages /\ OwnCrtcs
    /\ OneConnectorPerCrtc /\ LeftOut /\ NothingLeaks

LEMMA PossibleKept ==
    ASSUME encoders' = encoders
    PROVE  \A c : Possible(c)' = Possible(c)
BY DEF Possible

LEMMA LeftOutStays ==
    ASSUME LeftOut, at \in Setup \cup {"show"}, UNCHANGED <<encoders, status, conn, list, crtc, failed>>
    PROVE  LeftOut'
BY DEF LeftOut, Possible

LEMMA InitHolds == Init => IInv
<1> USE ModesetAssumption
<1> SUFFICES ASSUME Init PROVE IInv
  OBVIOUS
<1>1. list = <<>> /\ ToSet(list) = {} /\ DOMAIN list = {}
  BY DEF Init, ToSet
<1>2. TypeOK
  <2>1. encoders \in [Conn -> Seq(SUBSET Crtc)] /\ status \in [Conn -> Status]
    BY DEF Init
  <2>2. /\ route \in [Conn -> {None} \cup Crtc] /\ before \in [Conn -> {None} \cup Crtc]
        /\ crtc \in [Conn -> {None} \cup Crtc]
    BY DEF Init
  <2>3. /\ bufs \subseteq Conn /\ fbs \subseteq Conn /\ maps \subseteq Conn /\ failed \subseteq Conn
        /\ fd \in BOOLEAN /\ at \in Places
    BY DEF Init, Places
  <2>a. list \in Seq(Conn)
    BY <1>1
  <2>4. conn \in 1 .. Connectors + 1
    BY DEF Init
  <2> QED
    BY <2>1, <2>2, <2>3, <2>a, <2>4 DEF TypeOK
<1>3. Descending /\ Stages /\ OwnCrtcs
  BY <1>1 DEF Init, Descending, Stages, OwnCrtcs, Creating
<1>4. OneConnectorPerCrtc
  BY <1>1 DEF Init, OneConnectorPerCrtc, Devices
<1>5. LeftOut
  <2>1. 1 .. conn - 1 = {}
    BY DEF Init
  <2> QED
    BY <2>1 DEF LeftOut
<1>6. NothingLeaks
  BY <1>1 DEF Init, NothingLeaks
<1> QED
  BY <1>2, <1>3, <1>4, <1>5, <1>6 DEF IInv

-----------------------------------------------------------------------------
(***************************************************************************)
(* Steps that set up no device                                             *)
(***************************************************************************)
Quiet ==
    \/ \E ok \in BOOLEAN : Open(ok) \/ GetResources(ok)
    \/ Prepared \/ Shown \/ Draw \/ DrawDone \/ CleanupCrashes \/ Close

LEMMA QuietKeeps == IInv /\ Quiet => IInv'
<1> USE ModesetAssumption
<1> SUFFICES ASSUME IInv, Quiet PROVE IInv'
  OBVIOUS
<1>1. /\ UNCHANGED <<encoders, status, before, route, bufs, fbs, maps, conn, list, crtc, saved, failed>>
      /\ at \notin Creating /\ at' \notin Creating
      /\ at' \in Places /\ fd' \in BOOLEAN
  BY DEF Quiet, Open, GetResources, Prepared, Shown, Draw, DrawDone, CleanupCrashes, Close,
         card, kernel, objects, IInv, TypeOK, Creating, Places
<1>2. /\ at' \in Setup => at \in Setup
      /\ at' = "show" => at \in Setup \cup {"show"}
      /\ at' = "resources" => at = "open"
      /\ at' = "show" => conn > Connectors
      /\ at' # "open"
  BY DEF Quiet, Open, GetResources, Prepared, Shown, Draw, DrawDone, CleanupCrashes, Close,
         Setup, Creating
<1>3. /\ at' = "exit" => list = <<>> /\ ~fd'
      /\ at' = "crashed" => list # <<>> /\ saved[Head(list)] = NULL
  BY DEF Quiet, Open, GetResources, Prepared, Shown, Draw, DrawDone, CleanupCrashes, Close,
         IInv, Stages
<1>4. TypeOK'
  BY <1>1 DEF IInv, TypeOK
<1>5. Descending' /\ OwnCrtcs'
  BY <1>1, <1>2 DEF IInv, Descending, OwnCrtcs, Possible
<1>6. Stages'
  BY <1>1, <1>2 DEF IInv, Stages, TypeOK
<1>7. OneConnectorPerCrtc'
  <2>1. Devices' = Devices
    BY <1>1 DEF Devices, Creating
  <2> QED
    BY <1>1, <2>1 DEF IInv, OneConnectorPerCrtc, Possible
<1>8. LeftOut'
  BY <1>1, <1>2 DEF IInv, LeftOut, Possible
<1>9. NothingLeaks'
  <2>1. list # <<>> => Head(list) \in ToSet(list)
    BY TailFacts DEF IInv, TypeOK
  <2> QED
    BY <1>1, <1>3, <2>1 DEF IInv, NothingLeaks, Creating
<1> QED
  BY <1>4, <1>5, <1>6, <1>7, <1>8, <1>9 DEF IInv

-----------------------------------------------------------------------------
(***************************************************************************)
(* Setting up devices                                                      *)
(***************************************************************************)
LEMMA ConnIsNew ==
    ASSUME IInv, at \in Setup
    PROVE  conn \notin ToSet(list) /\ \A d \in ToSet(list) : d \in Conn /\ d < conn
<1>1. conn \in Int /\ list \in Seq(Conn) /\ \A i \in DOMAIN list : list[i] < conn
  BY DEF IInv, Stages, TypeOK
<1>2. \A i \in DOMAIN list : list[i] \in Conn
  BY <1>1
<1>3. ~(conn < conn)
  BY <1>1
<1> QED
  BY <1>1, <1>2, <1>3 DEF ToSet

\* A connector is given up, because it has no CRTC or a call has failed.
LEMMA GiveUpKeeps ==
    ASSUME IInv, at \in {"prepare"} \cup Creating, conn \in Conn, GiveUp,
           UNCHANGED <<card, route, fd, list, saved>>,
           bufs' = ToSet(list), fbs' = ToSet(list), maps' = ToSet(list),
           failed \subseteq failed', failed' \subseteq Conn,
           status[conn] = "usable" /\ conn \notin failed' => Possible(conn) \subseteq Taken
    PROVE  IInv'
<1> USE ModesetAssumption
<1>0. conn \notin ToSet(list) /\ \A d \in ToSet(list) : d \in Conn /\ d < conn
  BY ConnIsNew DEF Setup
<1>1. /\ UNCHANGED <<encoders, status, before, route, fd, list, saved>>
      /\ at' = "prepare" /\ conn' = conn + 1
      /\ crtc' = [crtc EXCEPT ![conn] = None] /\ at \in Setup
  BY DEF GiveUp, card, Setup
<1>2. \A d \in ToSet(list) : crtc'[d] = crtc[d]
  BY <1>0, <1>1 DEF IInv, TypeOK
<1>3. TypeOK'
  <2>1. conn' \in 1 .. Connectors + 1
    BY <1>1 DEF Conn
  <2>a. at' \in Places
    BY <1>1 DEF Places
  <2>2. crtc' \in [Conn -> {None} \cup Crtc]
    BY <1>1 DEF IInv, TypeOK
  <2>3. bufs' \subseteq Conn /\ fbs' \subseteq Conn /\ maps' \subseteq Conn
    BY <1>0
  <2> QED
    BY <1>1, <2>1, <2>a, <2>2, <2>3 DEF IInv, TypeOK
<1>4. Descending' /\ OwnCrtcs'
  BY <1>1 DEF IInv, Descending, OwnCrtcs, Possible
<1>5. Stages'
  <2>1. \A i \in DOMAIN list : list[i] \in Int /\ list[i] < conn
    <3>1. \A i \in DOMAIN list : list[i] \in Conn /\ list[i] < conn
      BY <1>1 DEF IInv, Stages, TypeOK
    <3> QED
      BY <3>1 DEF Conn
  <2>2. \A i \in DOMAIN list : list[i] < conn + 1
    BY <2>1 DEF Conn
  <2> QED
    BY <1>1, <2>2 DEF Stages, Creating
<1>6. OneConnectorPerCrtc'
  <2>1. Devices' = ToSet(list) /\ ToSet(list) \subseteq Devices
    BY <1>1 DEF Devices
  <2> QED
    BY <1>1, <1>2, <2>1 DEF IInv, OneConnectorPerCrtc, Possible
<1>7. LeftOut'
  <2> SUFFICES ASSUME NEW c \in 1 .. conn, status[c] = "usable", c \notin ToSet(list), c \notin failed',
                      NEW x \in Possible(c)
               PROVE  \E d \in ToSet(list) : d < c /\ crtc[d] = x
    BY <1>1, <1>2 DEF LeftOut, Possible, Conn
  <2>1. CASE c = conn
    <3>1. x \in Taken
      BY <2>1
    <3> QED
      BY <1>0, <2>1, <3>1 DEF Taken
  <2>2. CASE c # conn
    <3>1. c \in 1 .. conn - 1
      BY <2>2 DEF Conn
    <3> QED
      BY <1>1, <3>1 DEF IInv, LeftOut
  <2> QED
    BY <2>1, <2>2
<1>8. NothingLeaks'
  BY <1>1 DEF NothingLeaks
<1> QED
  BY <1>3, <1>4, <1>5, <1>6, <1>7, <1>8 DEF IInv

\* When no CRTC is found, though every encoder has been looked at, all are taken.
LEMMA NoneIsFree ==
    ASSUME TypeOK, conn \in Conn, \A x \in Crtc : ~FirstFree(DOMAIN encoders[conn], x)
    PROVE  Possible(conn) \subseteq Taken
<1> DEFINE E == {e \in DOMAIN encoders[conn] : encoders[conn][e] \ Taken # {}}
<1>1. encoders[conn] \in Seq(SUBSET Crtc)
  BY DEF TypeOK
<1>2. E \in SUBSET Nat /\ \A e \in E : encoders[conn][e] \in SUBSET Crtc
  BY <1>1
<1>3. ASSUME E # {} PROVE FALSE
  <2>1. PICK e \in E : \A f \in E : e <= f
    BY <1>2, <1>3, LeastOf
  <2>2. encoders[conn][e] \ Taken \in SUBSET Nat /\ encoders[conn][e] \ Taken # {}
    BY <1>2 DEF Crtc
  <2>3. PICK x \in encoders[conn][e] \ Taken : \A j \in encoders[conn][e] \ Taken : x <= j
    BY <2>2, LeastOf
  <2>4. \A f \in DOMAIN encoders[conn] : f < e => encoders[conn][f] \subseteq Taken
    <3> SUFFICES ASSUME NEW f \in DOMAIN encoders[conn], f < e, f \in E PROVE FALSE
      OBVIOUS
    <3>1. e <= f /\ e \in Nat /\ f \in Nat
      BY <1>2, <2>1
    <3> QED
      BY <3>1
  <2>5. FirstFree(DOMAIN encoders[conn], x)
    BY <2>3, <2>4 DEF FirstFree
  <2>6. x \in Crtc
    BY <1>2, <2>3
  <2> QED
    BY <2>5, <2>6
<1> QED
  BY <1>3 DEF Possible

LEMMA SkipKeeps == IInv /\ Skip => IInv'
<1> SUFFICES ASSUME IInv, Skip PROVE IInv'
  OBVIOUS
<1>1. /\ at = "prepare" /\ conn \in Conn /\ GiveUp
      /\ UNCHANGED <<card, route, fd, list, saved, bufs, fbs, maps>>
  BY DEF Skip, Preparing, kernel, objects
<1>2. bufs = ToSet(list) /\ fbs = ToSet(list) /\ maps = ToSet(list)
  BY <1>1 DEF IInv, NothingLeaks
<1>3. /\ failed \subseteq failed' /\ failed' \subseteq Conn
      /\ status[conn] # "usable" \/ conn \in failed'
  BY <1>1 DEF Skip, IInv, TypeOK
<1> QED
  BY <1>1, <1>2, <1>3, GiveUpKeeps

\* A connector gets a CRTC.
LEMMA FindCrtcFinds ==
    ASSUME IInv, at = "prepare", conn \in Conn, NEW own \in BOOLEAN,
           NEW seen \in SUBSET DOMAIN encoders[conn], NEW x \in Crtc, FindCrtc(x, own, seen)
    PROVE  x \in Possible(conn) \ Taken
<1>1. CASE own /\ route[conn] \notin {None} \cup Taken
  <2>1. x = route[conn]
    BY <1>1 DEF FindCrtc
  <2>2. route[conn] \in {None} \cup Possible(conn)
    BY DEF IInv, OwnCrtcs, Setup
  <2> QED
    BY <1>1, <2>1, <2>2
<1>2. CASE ~(own /\ route[conn] \notin {None} \cup Taken)
  BY <1>2 DEF FindCrtc, FirstFree, Possible
<1> QED
  BY <1>1, <1>2

LEMMA SetupDevKeeps ==
    ASSUME IInv, NEW own \in BOOLEAN, SetupDev(own)
    PROVE  IInv'
<1> USE ModesetAssumption
<1>0. /\ at = "prepare" /\ conn \in Conn /\ status[conn] = "usable"
      /\ UNCHANGED <<card, route, fd, list, saved, bufs, fbs, maps>>
  BY DEF SetupDev, Preparing, kernel, objects
<1>1. PICK seen \in SUBSET DOMAIN encoders[conn] :
        /\ failed' = IF own /\ seen = DOMAIN encoders[conn] THEN failed ELSE failed \cup {conn}
        /\ \/ \E x \in Crtc :
                  /\ FindCrtc(x, own, seen)
                  /\ crtc' = [crtc EXCEPT ![conn] = x] /\ at' = "create dumb" /\ UNCHANGED conn
           \/ (\A x \in Crtc : ~FindCrtc(x, own, seen)) /\ GiveUp
  BY DEF SetupDev
<1>2. failed \subseteq failed' /\ failed' \subseteq Conn
  BY <1>0, <1>1 DEF IInv, TypeOK
<1>3. bufs = ToSet(list) /\ fbs = ToSet(list) /\ maps = ToSet(list)
  BY <1>0 DEF IInv, NothingLeaks
<1>4. ASSUME \A x \in Crtc : ~FindCrtc(x, own, seen), GiveUp PROVE IInv'
  <2>1. ASSUME conn \notin failed' PROVE Possible(conn) \subseteq Taken
    <3>1. own /\ seen = DOMAIN encoders[conn]
      BY <1>1, <2>1
    <3>2. route[conn] \in {None} \cup Taken
      <4>1. route[conn] \in {None} \cup Crtc
        BY <1>0 DEF IInv, TypeOK
      <4> QED
        BY <1>4, <3>1, <4>1 DEF FindCrtc
    <3>3. \A x \in Crtc : ~FirstFree(DOMAIN encoders[conn], x)
      BY <1>4, <3>1, <3>2 DEF FindCrtc
    <3> QED
      BY <1>0, <3>3, NoneIsFree DEF IInv
  <2> QED
    BY <1>0, <1>2, <1>3, <1>4, <2>1, GiveUpKeeps
<1>5. ASSUME NEW x \in Crtc, FindCrtc(x, own, seen),
             crtc' = [crtc EXCEPT ![conn] = x], at' = "create dumb", conn' = conn
      PROVE  IInv'
  <2>1. x \in Possible(conn) \ Taken
    BY <1>0, <1>5, FindCrtcFinds
  <2>2. /\ UNCHANGED <<encoders, status, before, route, bufs, fbs, maps, fd, list, saved, conn>>
        /\ at \in Setup /\ conn \notin ToSet(list)
        /\ \A d \in ToSet(list) : d \in Conn /\ d < conn
    BY <1>0, <1>5, ConnIsNew DEF card, Setup
  <2>3. crtc'[conn] = x /\ \A d \in ToSet(list) : crtc'[d] = crtc[d]
    BY <1>0, <1>5, <2>2 DEF IInv, TypeOK
  <2>4. TypeOK'
    BY <1>2, <1>5, <2>2 DEF IInv, TypeOK, Places
  <2>5. Descending' /\ OwnCrtcs'
    BY <2>2 DEF IInv, Descending, OwnCrtcs, Possible
  <2>6. Stages'
    BY <1>0, <1>5, <2>2 DEF IInv, Stages, Creating
  <2>7. OneConnectorPerCrtc'
    <3>1. Devices' = ToSet(list) \cup {conn} /\ ToSet(list) \subseteq Devices
      BY <1>5, <2>2 DEF Devices
    <3>2. \A d \in ToSet(list) : crtc[d] \in Taken
      BY DEF Taken
    <3>3. \A c \in ToSet(list) :
            crtc[c] \in Possible(c) /\ \A d \in ToSet(list) \ {c} : crtc[c] # crtc[d]
      BY <3>1 DEF IInv, OneConnectorPerCrtc
    <3>4. \A c \in ToSet(list) \cup {conn} :
            crtc'[c] \in Possible(c) /\ \A d \in (ToSet(list) \cup {conn}) \ {c} : crtc'[c] # crtc'[d]
      BY <2>1, <2>2, <2>3, <3>2, <3>3
    <3> QED
      BY <2>2, <3>1, <3>4 DEF OneConnectorPerCrtc, Possible
  <2>8. LeftOut'
    BY <1>2, <2>2, <2>3 DEF IInv, LeftOut, Possible
  <2>9. NothingLeaks'
    BY <1>0, <1>3, <1>5, <2>2 DEF NothingLeaks
  <2> QED
    BY <2>4, <2>5, <2>6, <2>7, <2>8, <2>9 DEF IInv
<1> QED
  BY <1>1, <1>4, <1>5

\* A call of modeset_create_fb() has succeeded.
LEMMA GoesKeeps ==
    ASSUME IInv, NEW to \in {"add fb", "map"}, at \in Creating, Goes(to),
           UNCHANGED <<card, route, fd, list, saved, maps>>,
           bufs' = ToSet(list) \cup {conn},
           fbs' = ToSet(list) \cup (IF to = "map" THEN {conn} ELSE {}),
           maps = ToSet(list)
    PROVE  IInv'
<1> USE ModesetAssumption
<1>1. /\ UNCHANGED <<encoders, status, before, route, fd, list, saved, maps, conn, crtc, failed>>
      /\ at \in Setup /\ at' = to /\ conn \in Conn
  BY DEF Goes, card, Setup, IInv, Stages
<1>2. ToSet(list) \subseteq Conn
  BY <1>1, ConnIsNew
<1>3. TypeOK'
  BY <1>1, <1>2 DEF IInv, TypeOK, Places
<1>4. Descending' /\ OwnCrtcs'
  BY <1>1 DEF IInv, Descending, OwnCrtcs, Possible
<1>a. LeftOut'
  BY <1>1, LeftOutStays DEF IInv
<1>5. Stages'
  BY <1>1 DEF IInv, Stages
<1>6. OneConnectorPerCrtc'
  <2>1. Devices' = Devices
    BY <1>1 DEF Devices, Creating
  <2> QED
    BY <1>1, <2>1 DEF IInv, OneConnectorPerCrtc, Possible
<1>7. NothingLeaks'
  BY <1>1 DEF NothingLeaks
<1> QED
  BY <1>3, <1>4, <1>a, <1>5, <1>6, <1>7 DEF IInv

LEMMA CreateDumbKeeps == IInv /\ CreateDumb => IInv'
<1> SUFFICES ASSUME IInv, CreateDumb PROVE IInv'
  OBVIOUS
<1>1. /\ at \in Creating /\ at = "create dumb" /\ conn \in Conn
      /\ UNCHANGED <<card, route, fd, list, saved, fbs, maps>>
  BY DEF CreateDumb, kernel, Creating, IInv, Stages
<1>2. bufs = ToSet(list) /\ fbs = ToSet(list) /\ maps = ToSet(list)
  BY <1>1 DEF IInv, NothingLeaks
<1>3. CASE bufs' = bufs \cup {conn} /\ Goes("add fb")
  BY <1>1, <1>2, <1>3, GoesKeeps
<1>4. CASE bufs' = bufs /\ Fails
  BY <1>1, <1>2, <1>4, GiveUpKeeps DEF Fails, IInv, TypeOK
<1> QED
  BY <1>3, <1>4 DEF CreateDumb

LEMMA AddFBKeeps == IInv /\ AddFB => IInv'
<1> SUFFICES ASSUME IInv, AddFB PROVE IInv'
  OBVIOUS
<1>1. /\ at \in Creating /\ at = "add fb" /\ conn \in Conn
      /\ UNCHANGED <<card, route, fd, list, saved, maps>>
  BY DEF AddFB, kernel, Creating, IInv, Stages
<1>2. /\ bufs = ToSet(list) \cup {conn} /\ fbs = ToSet(list) /\ maps = ToSet(list)
      /\ conn \notin ToSet(list)
  BY <1>1, ConnIsNew DEF IInv, NothingLeaks, Setup
<1>3. CASE fbs' = fbs \cup {conn} /\ bufs' = bufs /\ Goes("map")
  BY <1>1, <1>2, <1>3, GoesKeeps
<1>4. CASE bufs' = bufs \ {conn} /\ fbs' = fbs /\ Fails
  <2>1. bufs' = ToSet(list) /\ fbs' = ToSet(list) /\ maps' = ToSet(list)
    BY <1>1, <1>2, <1>4
  <2> QED
    BY <1>1, <1>4, <2>1, GiveUpKeeps DEF Fails, IInv, TypeOK
<1> QED
  BY <1>3, <1>4 DEF AddFB

LEMMA MapKeeps == IInv /\ Map => IInv'
<1> USE ModesetAssumption
<1> SUFFICES ASSUME IInv, Map PROVE IInv'
  OBVIOUS
<1>1. /\ at \in Creating /\ at = "map" /\ conn \in Conn /\ at \in Setup
      /\ UNCHANGED <<encoders, status, before, route, fd, saved>> /\ UNCHANGED card
  BY DEF Map, kernel, card, Creating, IInv, Stages, Setup
<1>2. /\ bufs = ToSet(list) \cup {conn} /\ fbs = ToSet(list) \cup {conn} /\ maps = ToSet(list)
      /\ conn \notin ToSet(list) /\ \A d \in ToSet(list) : d \in Conn /\ d < conn
  BY <1>1, ConnIsNew DEF IInv, NothingLeaks
<1>3. ASSUME maps' = maps \cup {conn}, UNCHANGED <<bufs, fbs, crtc, failed>>,
             list' = <<conn>> \o list, at' = "prepare", conn' = conn + 1
      PROVE  IInv'
  <2>0. list \in Seq(Conn) /\ list' \in Seq(Conn) /\ Len(list') = Len(list) + 1
    BY <1>1, <1>3, ConsFacts DEF IInv, TypeOK
  <2>1. /\ list'[1] = conn
        /\ \A i \in 2 .. Len(list) + 1 : list'[i] = list[i - 1]
        /\ ToSet(list') = {conn} \cup ToSet(list)
    BY <1>1, <1>3, <2>0, ConsFacts
  <2>2. DOMAIN list' = 1 .. Len(list) + 1 /\ DOMAIN list = 1 .. Len(list) /\ Len(list) \in Nat
    BY <2>0
  <2>3. \A i \in DOMAIN list : list[i] \in ToSet(list)
    BY DEF ToSet
  <2>4. \A i \in DOMAIN list' : i = 1 \/ (i - 1 \in DOMAIN list /\ list'[i] = list[i - 1])
    BY <2>1, <2>2
  <2>5. TypeOK'
    <3>1. conn' \in 1 .. Connectors + 1
      BY <1>1, <1>3 DEF Conn
    <3>2. maps' \subseteq Conn
      BY <1>1, <1>2, <1>3
    <3> QED
      BY <1>1, <1>3, <2>0, <3>1, <3>2 DEF IInv, TypeOK, Places
  <2>6. Descending'
    <3> SUFFICES ASSUME NEW i \in DOMAIN list', NEW j \in DOMAIN list', i < j
                 PROVE  list'[j] < list'[i]
      BY DEF Descending
    <3>1. j # 1 /\ j - 1 \in DOMAIN list /\ list'[j] = list[j - 1]
      BY <2>2, <2>4
    <3>2. CASE i = 1
      BY <1>2, <2>1, <2>3, <3>1, <3>2
    <3>3. CASE i # 1
      <4>1. i - 1 \in DOMAIN list /\ list'[i] = list[i - 1] /\ i - 1 < j - 1
        BY <2>2, <2>4, <3>3
      <4> QED
        BY <3>1, <4>1 DEF IInv, Descending
    <3> QED
      BY <3>2, <3>3
  <2>7. Stages'
    <3>1. \A i \in DOMAIN list' : list'[i] < conn + 1
      <4>1. \A d \in ToSet(list) : d < conn + 1
        BY <1>1, <1>2 DEF Conn
      <4>2. conn < conn + 1
        BY <1>1 DEF Conn
      <4> QED
        BY <2>1, <2>3, <2>4, <4>1, <4>2
    <3> QED
      BY <1>3, <3>1 DEF Stages, Creating
  <2>8. OwnCrtcs'
    BY <1>1, <1>3 DEF IInv, OwnCrtcs, Possible
  <2>9. OneConnectorPerCrtc'
    <3>1. Devices' = Devices
      BY <1>1, <1>3, <2>1 DEF Devices
    <3> QED
      BY <1>1, <1>3, <3>1 DEF IInv, OneConnectorPerCrtc, Possible
  <2>10. LeftOut'
    <3> SUFFICES ASSUME NEW c \in 1 .. conn, status[c] = "usable", c \notin ToSet(list'), c \notin failed,
                        NEW x \in Possible(c)
                 PROVE  \E d \in ToSet(list') : d < c /\ crtc[d] = x
      BY <1>1, <1>3 DEF LeftOut, Possible, Conn
    <3>1. c \in 1 .. conn - 1 /\ c \notin ToSet(list)
      BY <1>1, <2>1 DEF Conn
    <3>2. \E d \in ToSet(list) : d < c /\ crtc[d] = x
      BY <1>1, <3>1 DEF IInv, LeftOut
    <3> QED
      BY <2>1, <3>2
  <2>11. NothingLeaks'
    BY <1>2, <1>3, <2>1 DEF NothingLeaks
  <2> QED
    BY <2>5, <2>6, <2>7, <2>8, <2>9, <2>10, <2>11 DEF IInv
<1>4. ASSUME fbs' = fbs \ {conn}, bufs' = bufs \ {conn}, UNCHANGED <<maps, list>>, Fails
      PROVE  IInv'
  <2>1. bufs' = ToSet(list) /\ fbs' = ToSet(list) /\ maps' = ToSet(list)
    BY <1>2, <1>4
  <2> QED
    BY <1>1, <1>4, <2>1, GiveUpKeeps DEF Fails, IInv, TypeOK
<1> QED
  BY <1>3, <1>4 DEF Map

-----------------------------------------------------------------------------
(***************************************************************************)
(* Showing the devices and putting everything back                         *)
(***************************************************************************)
LEMMA RouteType ==
    ASSUME TypeOK, NEW x \in {None} \cup Crtc, NEW c \in Conn
    PROVE  RouteTo(x, c) \in [Conn -> {None} \cup Crtc]
BY DEF RouteTo, TypeOK

LEMMA ShowKeeps == IInv /\ Show => IInv'
<1> SUFFICES ASSUME IInv, Show PROVE IInv'
  OBVIOUS
<1> DEFINE c == list[next]
<1>0. TypeOK /\ at = "show" /\ next \in DOMAIN list
  BY DEF IInv, Show
<1>1. c \in Conn /\ crtc[c] \in {None} \cup Crtc
  BY <1>0 DEF TypeOK
<1>2. /\ UNCHANGED <<encoders, status, before, bufs, fbs, maps, fd, at, conn, list, crtc>>
      /\ \/ SetCrtc(crtc[c], c, c) /\ UNCHANGED failed
         \/ SetCrtcFails(c)
  BY DEF Show, card, objects
<1> HIDE DEF c
<1>3. failed \subseteq failed' /\ failed' \subseteq Conn
  <2>1. failed' = failed \/ failed' = failed \cup {c}
    BY <1>2 DEF SetCrtcFails
  <2> QED
    BY <1>0, <1>1, <2>1 DEF TypeOK
<1>a. route' \in [Conn -> {None} \cup Crtc]
  <2>1. route' = route \/ route' = RouteTo(crtc[c], c)
    BY <1>2 DEF SetCrtc, SetCrtcFails, kernel
  <2>2. RouteTo(crtc[c], c) \in [Conn -> {None} \cup Crtc]
    BY <1>0, <1>1, RouteType
  <2> QED
    BY <1>0, <2>1, <2>2 DEF TypeOK
<1>4. TypeOK'
  BY <1>0, <1>2, <1>3, <1>a DEF TypeOK
<1>5. Descending' /\ Stages' /\ OwnCrtcs'
  BY <1>0, <1>2 DEF IInv, Descending, Stages, OwnCrtcs, Setup, Creating
<1>6. OneConnectorPerCrtc'
  <2>1. Devices' = Devices
    BY <1>2 DEF Devices
  <2> QED
    BY <1>2, <2>1 DEF IInv, OneConnectorPerCrtc, Possible
<1>7. LeftOut'
  BY <1>2, <1>3 DEF IInv, LeftOut, Possible
<1>8. NothingLeaks'
  BY <1>0, <1>2 DEF IInv, NothingLeaks
<1> QED
  BY <1>4, <1>5, <1>6, <1>7, <1>8 DEF IInv

\* The first device occurs nowhere else.
LEMMA HeadGone ==
    ASSUME list \in Seq(Conn), list # <<>>, Descending
    PROVE  ToSet(Tail(list)) = ToSet(list) \ {Head(list)}
<1>1. /\ Head(list) = list[1] /\ 1 \in DOMAIN list
      /\ \A i \in DOMAIN Tail(list) : i + 1 \in DOMAIN list /\ Tail(list)[i] = list[i + 1]
      /\ \A i \in DOMAIN list : i = 1 \/ (i - 1 \in DOMAIN Tail(list) /\ Tail(list)[i - 1] = list[i])
  BY TailFacts
<1>2. ASSUME NEW i \in DOMAIN Tail(list) PROVE Tail(list)[i] \in ToSet(list) \ {Head(list)}
  <2>1. i + 1 \in DOMAIN list /\ Tail(list)[i] = list[i + 1] /\ 1 < i + 1
    BY <1>1
  <2>2. list[i + 1] < list[1] /\ list[1] \in Int /\ list[i + 1] \in Int
    <3>1. list[i + 1] < list[1]
      BY <1>1, <2>1 DEF Descending
    <3>2. list[1] \in Conn /\ list[i + 1] \in Conn
      BY <1>1, <2>1
    <3> QED
      BY <3>1, <3>2 DEF Conn
  <2> QED
    BY <1>1, <2>1, <2>2 DEF ToSet
<1>3. ASSUME NEW i \in DOMAIN list, list[i] # Head(list) PROVE list[i] \in ToSet(Tail(list))
  BY <1>1, <1>3 DEF ToSet
<1> QED
  BY <1>2, <1>3 DEF ToSet

LEMMA CleanupKeeps == IInv /\ Cleanup => IInv'
<1> SUFFICES ASSUME IInv, Cleanup PROVE IInv'
  OBVIOUS
<1> DEFINE c == Head(list)
<1>0. TypeOK /\ at = "cleanup" /\ list # <<>> /\ list \in Seq(Conn)
  BY DEF IInv, Cleanup, TypeOK
<1>1. /\ c = list[1] /\ 1 \in DOMAIN list /\ c \in ToSet(list) /\ Tail(list) \in Seq(Conn)
      /\ \A i \in DOMAIN Tail(list) : i + 1 \in DOMAIN list /\ Tail(list)[i] = list[i + 1]
      /\ \A i \in DOMAIN list : i = 1 \/ (i - 1 \in DOMAIN Tail(list) /\ Tail(list)[i - 1] = list[i])
  BY <1>0, TailFacts
<1>2. c \in Conn
  BY <1>0, <1>1
<1>3. /\ UNCHANGED <<encoders, status, before, fd, at, conn, crtc, saved>>
      /\ list' = Tail(list) /\ Restore(c)
      /\ maps' = maps \ {c} /\ fbs' = fbs \ {c} /\ bufs' = bufs \ {c}
  BY DEF Cleanup, card
<1> HIDE DEF c
<1>4. failed \subseteq failed' /\ failed' \subseteq Conn
  BY <1>0, <1>2, <1>3 DEF Restore, TypeOK
<1>5. route' \in [Conn -> {None} \cup Crtc]
  <2>1. RouteTo(crtc[c], c) \in [Conn -> {None} \cup Crtc] /\ route \in [Conn -> {None} \cup Crtc]
    BY <1>0, <1>2, RouteType DEF TypeOK
  <2>2. ASSUME NEW r \in [Conn -> {None} \cup Crtc], NEW s, RmFB(c, r, s)
        PROVE  route' \in [Conn -> {None} \cup Crtc]
    BY <2>2 DEF RmFB
  <2> QED
    BY <1>3, <2>1, <2>2 DEF Restore
<1>6. TypeOK'
  BY <1>0, <1>1, <1>3, <1>4, <1>5 DEF TypeOK
<1>7. \A i \in DOMAIN list : i \in Int
  BY <1>0
<1>8. ToSet(list') = ToSet(list) \ {c}
  <2>1. ToSet(Tail(list)) = ToSet(list) \ {Head(list)}
    BY <1>0, HeadGone DEF IInv
  <2> QED
    BY <1>3, <2>1 DEF c
<1>9. Descending'
  <2> SUFFICES ASSUME NEW i \in DOMAIN list', NEW j \in DOMAIN list', i < j
               PROVE  list'[j] < list'[i]
    BY DEF Descending
  <2>1. /\ i + 1 \in DOMAIN list /\ list'[i] = list[i + 1]
        /\ j + 1 \in DOMAIN list /\ list'[j] = list[j + 1]
    BY <1>1, <1>3
  <2>2. i + 1 < j + 1
    BY <1>0, <1>3
  <2> QED
    BY <2>1, <2>2 DEF IInv, Descending
<1>10. Stages' /\ OwnCrtcs' /\ LeftOut'
  BY <1>0, <1>3 DEF Stages, OwnCrtcs, LeftOut, Setup, Creating
<1>11. OneConnectorPerCrtc'
  <2>1. Devices' \subseteq Devices
    BY <1>0, <1>3, <1>8 DEF Devices
  <2> QED
    BY <1>3, <2>1 DEF IInv, OneConnectorPerCrtc, Possible
<1>12. NothingLeaks'
  <2>1. bufs = ToSet(list) /\ fbs = ToSet(list) /\ maps = ToSet(list)
    BY <1>0 DEF IInv, NothingLeaks
  <2> QED
    BY <1>0, <1>3, <1>8, <2>1 DEF NothingLeaks
<1> QED
  BY <1>6, <1>9, <1>10, <1>11, <1>12 DEF IInv

-----------------------------------------------------------------------------
(***************************************************************************)
(* The theorems                                                            *)
(***************************************************************************)
LEMMA NextKeeps == IInv /\ [Next]_vars => IInv'
<1> SUFFICES ASSUME IInv, [Next]_vars PROVE IInv'
  OBVIOUS
<1>1. CASE UNCHANGED vars
  <2>1. UNCHANGED <<encoders, status, before, route, bufs, fbs, maps, fd, at, conn, list, crtc, saved, failed>>
    BY <1>1 DEF vars, card, kernel, objects
  <2>2. TypeOK' /\ Descending' /\ Stages'
    BY <2>1 DEF IInv, TypeOK, Descending, Stages
  <2>a. OwnCrtcs'
    BY <2>1, PossibleKept DEF IInv, OwnCrtcs
  <2>3. OneConnectorPerCrtc'
    <3>1. Devices' = Devices
      BY <2>1 DEF Devices
    <3> QED
      BY <2>1, <3>1 DEF IInv, OneConnectorPerCrtc, Possible
  <2>4. LeftOut'
    BY <2>1 DEF IInv, LeftOut, Possible
  <2>5. NothingLeaks'
    BY <2>1 DEF IInv, NothingLeaks
  <2> QED
    BY <2>2, <2>a, <2>3, <2>4, <2>5 DEF IInv
<1>2. CASE Quiet
  BY <1>2, QuietKeeps
<1>3. ASSUME NEW own \in BOOLEAN, SetupDev(own) PROVE IInv'
  BY <1>3, SetupDevKeeps
<1>4. CASE Skip \/ CreateDumb \/ AddFB \/ Map \/ Show \/ Cleanup
  BY <1>4, SkipKeeps, CreateDumbKeeps, AddFBKeeps, MapKeeps, ShowKeeps, CleanupKeeps
<1> QED
  BY <1>1, <1>2, <1>3, <1>4 DEF Next, Quiet

LEMMA ModesetHolds == Spec => []IInv
BY InitHolds, NextKeeps, PTL DEF Spec

\* The types of the variables.
THEOREM TypeCorrect == Spec => []TypeOK
<1>1. IInv => TypeOK
  BY DEF IInv
<1> QED
  BY <1>1, ModesetHolds, PTL

\* Whatever the card and whichever calls fail, no CRTC is shared by two
\* devices, and no connector is left out for less than want of one.
THEOREM CrtcsAreShared == Spec => []CrtcsShared
<1>1. IInv => CrtcsShared
  BY DEF IInv, CrtcsShared, LeftOut, LeftOutForWantOfCrtc, Setup
<1> QED
  BY <1>1, ModesetHolds, PTL

\* What the program has of the card is what its devices have; it ends with
\* nothing.
THEOREM CardIsReleased == Spec => []NothingLeaks
<1>1. IInv => NothingLeaks
  BY DEF IInv
<1> QED
  BY <1>1, ModesetHolds, PTL

\* A colour is a colour.
ColourType == colour \in 0 .. Levels - 1 /\ mod \in 1 .. Levels

\* One call of next_color().
LEMMA ColourStep ==
    ASSUME ColourType, NEW d \in 0 .. mod - 1, NextColor(d)
    PROVE  colour' - colour < mod /\ colour - colour' < mod /\ colour' \in 0 .. Levels - 1
<1>0. /\ Levels \in Nat \ {0} /\ colour \in 0 .. Levels - 1 /\ d \in 0 .. Levels - 1
      /\ mod \in 1 .. Levels
  BY ModesetAssumption DEF ColourType
<1>1. CASE up
  <2> DEFINE a == colour + d
  <2>1. a % Levels = IF a < Levels THEN a ELSE a - Levels
    <3>1. a \in 0 .. 2 * Levels - 1
      BY <1>0
    <3> HIDE DEF a
    <3> QED
      BY <1>0, <3>1, ModOnce
  <2>2. colour' = IF a % Levels < colour THEN colour ELSE a % Levels
    BY <1>1 DEF NextColor
  <2> QED
    BY <1>0, <2>1, <2>2
<1>2. CASE ~up
  <2> DEFINE a == colour + (Levels - d)
  <2>1. a % Levels = IF a < Levels THEN a ELSE a - Levels
    <3>1. a \in 0 .. 2 * Levels - 1
      BY <1>0
    <3> HIDE DEF a
    <3> QED
      BY <1>0, <3>1, ModOnce
  <2>2. colour' = IF a % Levels > colour THEN colour ELSE a % Levels
    BY <1>2 DEF NextColor
  <2> QED
    BY <1>0, <2>1, <2>2
<1> QED
  BY <1>1, <1>2

\* The colours move smoothly, for any number of levels and any mod.
THEOREM ColoursAreSmooth == Spec => ColourMovesSmoothly
<1>1. Init => ColourType
  BY ModesetAssumption DEF Init, ColourType
<1>2. ColourType /\ [Next]_vars =>
        /\ ColourType'
        /\ colour' - colour < mod /\ colour - colour' < mod /\ colour' \in 0 .. Levels - 1
  <2> SUFFICES ASSUME ColourType, [Next]_vars
               PROVE  /\ ColourType'
                      /\ colour' - colour < mod /\ colour - colour' < mod /\ colour' \in 0 .. Levels - 1
    OBVIOUS
  <2>1. CASE Draw
    <3>1. mod' = mod /\ \E d \in 0 .. mod - 1 : NextColor(d)
      BY <2>1 DEF Draw
    <3> QED
      BY <3>1, ColourStep DEF ColourType
  <2>2. CASE ~Draw
    <3>1. colour' = colour /\ mod' = mod
      BY <2>2 DEF Next, vars, drawing, Open, GetResources, SetupDev, Skip, Prepared, CreateDumb,
                  AddFB, Map, Show, Shown, DrawDone, Cleanup, CleanupCrashes, Close
    <3>2. colour \in Int /\ mod \in Int /\ mod > 0
      BY ModesetAssumption DEF ColourType
    <3> QED
      BY <3>1, <3>2 DEF ColourType
  <2> QED
    BY <2>1, <2>2
<1> QED
  BY <1>1, <1>2, PTL DEF Spec, ColourMovesSmoothly

-----------------------------------------------------------------------------
(***************************************************************************)
(* What the screens show                                                   *)
(***************************************************************************)
\* The devices that are on, or have failed to be.
On ==
    IF at \in Setup THEN {}
    ELSE IF at = "show" THEN {list[i] : i \in {j \in DOMAIN list : j < next}}
    ELSE ToSet(list)

\* Until the first device is shown nothing has changed.
Untouched ==
    at \in Setup =>
        /\ route = before /\ next = 1
        /\ \A c \in Conn : before[c] # None => shows[before[c]] = Old
        /\ \A c \in Conn : crtc[c] # None => c \in Devices

\* A CRTC stays with its device when that has been taken off the list.
CrtcsOwned == \A c, d \in Conn : c # d /\ crtc[c] # None => crtc[c] # crtc[d]

\* Whose framebuffer a CRTC can show.
Framebuffers ==
    \A k \in Crtc : shows[k] \in {None, Old} \/ (shows[k] \in On /\ crtc[shows[k]] = k)

\* A connector that has kept its CRTC.
Keeps(c) == before[c] # None /\ crtc[c] = before[c] /\ c \notin failed

Kept ==
    \A c \in Conn : Keeps(c) =>
        /\ route[c] = before[c]
        /\ shows[before[c]] = IF c \in On THEN c ELSE Old
        /\ c \in On => saved[c] \in {Old, NULL}

Screens ==
    /\ next \in Nat /\ saved \in [Conn -> {None, Old, NULL}]
    /\ Untouched /\ CrtcsOwned /\ Framebuffers /\ Kept

LEMMA ScreensInit == Init => Screens
<1> SUFFICES ASSUME Init PROVE Screens
  OBVIOUS
<1>1. next \in Nat /\ saved \in [Conn -> {None, Old, NULL}]
  BY DEF Init
<1>2. On = {} /\ at \in Setup
  BY DEF Init, On, Setup
<1>3. \A c \in Conn : crtc[c] = None
  BY DEF Init
<1>4. ASSUME NEW c \in Conn, before[c] # None PROVE shows[before[c]] = Old
  <2>1. before[c] \in Crtc /\ route[c] = before[c]
    BY <1>4 DEF Init
  <2> QED
    BY <2>1 DEF Init
<1>5. Untouched
  BY <1>3, <1>4 DEF Init, Untouched
<1>6. CrtcsOwned /\ Kept
  BY <1>3 DEF CrtcsOwned, Kept, Keeps
<1>7. Framebuffers
  BY DEF Init, Framebuffers
<1> QED
  BY <1>1, <1>5, <1>6, <1>7 DEF Screens

\* While the devices are set up the screens stay as they are.
LEMMA StillUntouched ==
    ASSUME Screens, at \in Setup, at' \in Setup, UNCHANGED <<before, route, shows, saved, next>>,
           OneConnectorPerCrtc', \A c \in Conn : crtc'[c] # None => c \in Devices'
    PROVE  Screens'
<1>1. On = {} /\ On' = {}
  BY DEF On
<1>2. /\ route = before /\ next = 1
      /\ \A c \in Conn : before[c] # None => shows[before[c]] = Old
  BY DEF Screens, Untouched
<1>3. Untouched'
  BY <1>2 DEF Untouched
<1>4. CrtcsOwned'
  <2> SUFFICES ASSUME NEW c \in Conn, NEW d \in Conn, c # d, crtc'[c] # None
               PROVE  crtc'[c] # crtc'[d]
    BY DEF CrtcsOwned
  <2>1. c \in Devices'
    OBVIOUS
  <2>2. CASE d \in Devices'
    BY <2>1, <2>2 DEF OneConnectorPerCrtc
  <2>3. CASE d \notin Devices'
    BY <2>3
  <2> QED
    BY <2>2, <2>3
<1>5. Framebuffers'
  BY <1>1 DEF Screens, Framebuffers
<1>6. Kept'
  BY <1>1, <1>2 DEF Kept, Keeps
<1> QED
  BY <1>3, <1>4, <1>5, <1>6 DEF Screens

\* And wherever the program goes without touching a device.
LEMMA QuietScreens == IInv /\ Screens /\ Quiet => Screens'
<1> SUFFICES ASSUME IInv, Screens, Quiet PROVE Screens'
  OBVIOUS
<1>1. UNCHANGED <<before, route, shows, saved, next, crtc, list, failed, conn>>
  BY DEF Quiet, Open, GetResources, Prepared, Shown, Draw, DrawDone, CleanupCrashes, Close,
         card, kernel, objects
<1>2. at' \in Setup => at \in Setup /\ at \notin Creating /\ at' \notin Creating
  BY DEF Quiet, Open, GetResources, Prepared, Shown, Draw, DrawDone, CleanupCrashes, Close,
         Setup, Creating
<1>3. On' = On
  <2>1. /\ list \in Seq(Conn) /\ next \in Nat /\ DOMAIN list = 1 .. Len(list) /\ Len(list) \in Nat
        /\ at \in Setup => next = 1
    BY DEF IInv, TypeOK, Screens, Untouched
  <2>2. CASE \E ok \in BOOLEAN : Open(ok) \/ GetResources(ok)
    <3>1. at \in Setup /\ at' \in Setup \cup {"exit"} /\ at' # "show" /\ list = <<>>
      BY <2>2 DEF Open, GetResources, Setup, IInv, Stages
    <3> QED
      BY <1>1, <3>1 DEF On, ToSet
  <2>3. CASE Prepared
    <3>1. at \in Setup /\ at' = "show" /\ at' \notin Setup /\ next = 1
      BY <2>1, <2>3 DEF Prepared, Setup, Creating
    <3>2. {list[i] : i \in {j \in DOMAIN list : j < next}} = {}
      BY <2>1, <3>1
    <3> QED
      BY <1>1, <3>1, <3>2 DEF On
  <2>4. CASE Shown
    <3>1. at = "show" /\ at \notin Setup /\ at' = "draw" /\ at' \notin Setup /\ next > Len(list)
      BY <2>4 DEF Shown, Setup, Creating
    <3>2. {list[i] : i \in {j \in DOMAIN list : j < next}} = ToSet(list)
      BY <2>1, <3>1 DEF ToSet
    <3> QED
      BY <1>1, <3>1, <3>2 DEF On
  <2>5. CASE Draw \/ DrawDone \/ CleanupCrashes \/ Close
    <3>1. /\ at \notin Setup /\ at # "show"
          /\ at' \notin Setup /\ at' # "show"
      BY <2>5 DEF Draw, DrawDone, CleanupCrashes, Close, Setup, Creating
    <3> QED
      BY <1>1, <3>1 DEF On
  <2> QED
    BY <2>2, <2>3, <2>4, <2>5 DEF Quiet
<1>4. Untouched'
  <2>1. at' \in Setup => Devices' = Devices
    BY <1>1, <1>2 DEF Devices, Creating
  <2> QED
    BY <1>1, <1>2, <2>1 DEF Screens, Untouched
<1> QED
  BY <1>1, <1>3, <1>4 DEF Screens, CrtcsOwned, Framebuffers, Kept, Keeps

LEMMA SetupScreens ==
    ASSUME IInv, IInv', Screens,
           (\E own \in BOOLEAN : SetupDev(own)) \/ Skip \/ CreateDumb \/ AddFB \/ Map
    PROVE  Screens'
<1>1. /\ at \in Setup /\ at' \in Setup /\ UNCHANGED <<before, route, shows, saved, next>>
      /\ conn \in Conn
  BY DEF SetupDev, Skip, CreateDumb, AddFB, Map, Preparing, GiveUp, Fails, Goes, card, kernel,
         Setup, Creating, IInv, Stages
<1>2. \A c \in Conn : crtc[c] # None => c \in Devices
  BY <1>1 DEF Screens, Untouched
<1>3. crtc \in [Conn -> {None} \cup Crtc]
  BY DEF IInv, TypeOK
<1>4. \A c \in Conn : crtc'[c] # None => c \in Devices'
  <2>1. CASE GiveUp /\ list' = list
    <3>1. crtc' = [crtc EXCEPT ![conn] = None] /\ Devices \subseteq ToSet(list) \cup {conn}
      BY <2>1 DEF GiveUp, Devices
    <3>2. ToSet(list) \subseteq Devices'
      BY <2>1 DEF Devices
    <3> QED
      BY <1>2, <1>3, <3>1, <3>2
  <2>2. CASE at' \in Creating /\ UNCHANGED <<conn, list>>
             /\ \A c \in Conn : c # conn => crtc'[c] = crtc[c]
    <3>1. Devices' = ToSet(list) \cup {conn} /\ Devices \subseteq Devices'
      BY <2>2 DEF Devices, Creating
    <3> QED
      BY <1>2, <2>2, <3>1
  <2>3. CASE list' = <<conn>> \o list /\ crtc' = crtc
    <3>1. ToSet(list') = {conn} \cup ToSet(list)
      BY <1>1, <2>3, ConsFacts DEF IInv, TypeOK
    <3>2. Devices \subseteq Devices'
      BY <3>1 DEF Devices
    <3> QED
      BY <1>2, <2>3, <3>2
  <2>4. CASE \E own \in BOOLEAN : SetupDev(own)
    <3>1. \/ GiveUp /\ list' = list
          \/ \E x \in Crtc : /\ crtc' = [crtc EXCEPT ![conn] = x]
                             /\ at' = "create dumb" /\ UNCHANGED <<conn, list>>
      BY <2>4 DEF SetupDev
    <3> QED
      BY <1>3, <2>1, <2>2, <3>1 DEF Creating
  <2>5. CASE Skip
    BY <2>1, <2>5 DEF Skip
  <2>6. CASE CreateDumb
    BY <2>1, <2>2, <2>6 DEF CreateDumb, Fails, Goes, Creating
  <2>7. CASE AddFB
    BY <2>1, <2>2, <2>7 DEF AddFB, Fails, Goes, Creating
  <2>8. CASE Map
    BY <2>1, <2>3, <2>8 DEF Map, Fails
  <2> QED
    BY <2>4, <2>5, <2>6, <2>7, <2>8
<1>5. OneConnectorPerCrtc'
  BY DEF IInv
<1> QED
  BY <1>1, <1>4, <1>5, StillUntouched

\* A device of the list has a CRTC, and no other connector has that one.
LEMMA DeviceHasCrtc ==
    ASSUME IInv, Screens, NEW d \in ToSet(list)
    PROVE  /\ d \in Conn /\ crtc[d] \in Crtc /\ crtc[d] # None
           /\ \A c \in Conn : c # d => crtc[c] # crtc[d]
<1>1. d \in Conn
  BY DEF IInv, TypeOK, ToSet
<1>2. crtc[d] \in Possible(d)
  BY DEF IInv, OneConnectorPerCrtc, Devices
<1>3. crtc[d] \in Crtc
  BY <1>1, <1>2 DEF IInv, TypeOK, Possible
<1>4. crtc[d] # None
  BY <1>3 DEF Crtc, None
<1> QED
  BY <1>1, <1>3, <1>4 DEF Screens, CrtcsOwned

LEMMA ShowScreens == IInv /\ Screens /\ Show => Screens'
<1> SUFFICES ASSUME IInv, Screens, Show PROVE Screens'
  OBVIOUS
<1> DEFINE d == list[next]
<1>0. /\ at = "show" /\ at' = "show" /\ at \notin Setup /\ at' \notin Setup
      /\ next \in DOMAIN list /\ next' = next + 1 /\ next \in Nat
      /\ list \in Seq(Conn) /\ DOMAIN list \subseteq Nat
  BY DEF Show, Setup, Creating, IInv, TypeOK, Screens
<1>1. d \in ToSet(list)
  BY <1>0 DEF ToSet
<1>2. UNCHANGED <<before, list, crtc>>
  BY DEF Show, card
<1>3. PICK ans \in {shows[crtc[d]], NULL} : saved' = [saved EXCEPT ![d] = ans]
  BY DEF Show
<1>4. \/ SetCrtc(crtc[d], d, d) /\ failed' = failed
      \/ failed' = failed \cup {d} /\ UNCHANGED <<route, shows>>
  BY DEF Show, SetCrtcFails, kernel
<1>5. d \notin On /\ On' = On \cup {d} /\ On \subseteq ToSet(list)
  <2>1. On = {list[i] : i \in {j \in DOMAIN list : j < next}}
    BY <1>0 DEF On
  <2>2. On' = {list[i] : i \in {j \in DOMAIN list : j < next + 1}}
    BY <1>0, <1>2 DEF On
  <2>3. ASSUME NEW i \in DOMAIN list, i < next PROVE list[i] # d
    <3>1. d < list[i] /\ d \in Conn /\ list[i] \in Conn
      BY <1>0, <2>3 DEF IInv, Descending
    <3> QED
      BY <3>1 DEF Conn
  <2>4. \A i \in DOMAIN list : i < next + 1 <=> i < next \/ i = next
    BY <1>0
  <2> QED
    BY <1>0, <2>1, <2>2, <2>3, <2>4 DEF ToSet
<1>6. /\ d \in Conn /\ crtc[d] \in Crtc /\ crtc[d] # None
      /\ \A c \in Conn : c # d => crtc[c] # crtc[d]
  BY <1>1, DeviceHasCrtc
<1> HIDE DEF d
<1>7. On \subseteq Conn
  BY <1>0, <1>5 DEF ToSet
<1>8. shows[crtc[d]] \in {None, Old}
  BY <1>5, <1>6, <1>7 DEF Screens, Framebuffers
<1>9. /\ saved' \in [Conn -> {None, Old, NULL}] /\ saved'[d] = ans
      /\ \A c \in Conn : c # d => saved'[c] = saved[c]
  BY <1>3, <1>6, <1>8 DEF Screens
<1>10. Framebuffers'
  <2> SUFFICES ASSUME NEW j \in Crtc
               PROVE  shows'[j] \in {None, Old} \/ (shows'[j] \in On' /\ crtc[shows'[j]] = j)
    BY <1>2 DEF Framebuffers
  <2>1. shows[j] \in {None, Old} \/ (shows[j] \in On /\ crtc[shows[j]] = j)
    BY DEF Screens, Framebuffers
  <2>2. CASE SetCrtc(crtc[d], d, d)
    <3>1. (shows'[j] = d /\ j = crtc[d]) \/ shows'[j] \in {None, shows[j]}
      BY <2>2 DEF SetCrtc
    <3> QED
      BY <1>5, <2>1, <3>1
  <2>3. CASE shows' = shows
    BY <1>5, <2>1, <2>3
  <2> QED
    BY <1>4, <2>2, <2>3
<1>11. Kept'
  <2> SUFFICES ASSUME NEW c \in Conn, Keeps(c)'
               PROVE  /\ route'[c] = before[c]
                      /\ shows'[before[c]] = IF c \in On' THEN c ELSE Old
                      /\ c \in On' => saved'[c] \in {Old, NULL}
    BY <1>2 DEF Kept
  <2>1. Keeps(c) /\ c \notin failed'
    BY <1>2, <1>4 DEF Keeps
  <2>2. /\ route[c] = before[c] /\ before[c] # None /\ crtc[c] = before[c]
        /\ shows[before[c]] = IF c \in On THEN c ELSE Old
        /\ c \in On => saved[c] \in {Old, NULL}
    BY <2>1 DEF Screens, Kept, Keeps
  <2>3. before[c] \in Crtc
    BY <2>2 DEF IInv, TypeOK
  <2>4. CASE c = d
    <3>1. SetCrtc(crtc[d], d, d)
      BY <1>4, <2>1, <2>4
    <3>2. route'[d] = crtc[d] /\ shows'[crtc[d]] = d
      BY <1>6, <3>1 DEF SetCrtc, RouteTo
    <3>3. ans \in {Old, NULL}
      BY <1>5, <2>2, <2>4
    <3> QED
      BY <1>5, <1>9, <2>2, <2>4, <3>2, <3>3
  <2>5. CASE c # d
    <3>1. route'[c] = route[c] /\ shows'[before[c]] = shows[before[c]]
      <4>1. CASE SetCrtc(crtc[d], d, d)
        <5>1. RouteTo(crtc[d], d)[c] = route[c]
          BY <1>6, <2>2, <2>5 DEF RouteTo
        <5>2. before[c] # crtc[d]
          BY <1>6, <2>2, <2>5
        <5> QED
          BY <2>2, <2>3, <4>1, <5>1, <5>2 DEF SetCrtc
      <4>2. CASE UNCHANGED <<route, shows>>
        BY <4>2
      <4> QED
        BY <1>4, <4>1, <4>2
    <3>2. c \in On' <=> c \in On
      BY <1>5, <2>5
    <3> QED
      BY <1>9, <2>2, <2>5, <3>1, <3>2
  <2> QED
    BY <2>4, <2>5
<1>12. Untouched' /\ CrtcsOwned'
  BY <1>0, <1>2 DEF Screens, Untouched, CrtcsOwned
<1>13. next' \in Nat
  BY <1>0
<1> QED
  BY <1>9, <1>10, <1>11, <1>12, <1>13 DEF Screens

LEMMA CleanupScreens == IInv /\ Screens /\ Cleanup => Screens'
<1> SUFFICES ASSUME IInv, Screens, Cleanup PROVE Screens'
  OBVIOUS
<1> DEFINE d == Head(list)
<1> DEFINE r == RouteTo(crtc[d], d)
<1> DEFINE s == [j \in Crtc |->
                   IF j = crtc[d] THEN saved[d]
                   ELSE IF j = route[d] /\ \A x \in Conn : r[x] # j THEN None
                   ELSE shows[j]]
<1>0. /\ at = "cleanup" /\ at' = "cleanup" /\ at \notin Setup /\ list # <<>>
      /\ list \in Seq(Conn) /\ saved[d] # NULL
      /\ UNCHANGED <<before, crtc, saved, next>> /\ list' = Tail(list)
  BY DEF Cleanup, Setup, Creating, IInv, TypeOK, card
<1>1. \/ saved[d] # None /\ RmFB(d, r, s) /\ failed' = failed
      \/ RmFB(d, route, shows) /\ failed' = IF saved[d] = None THEN failed ELSE failed \cup {d}
  BY DEF Cleanup, Restore
<1>2. d \in ToSet(list)
  BY <1>0, TailFacts
<1>3. On = ToSet(list) /\ On' = On \ {d} /\ d \in On
  <2>1. ToSet(list') = ToSet(list) \ {d}
    BY <1>0, HeadGone DEF IInv
  <2>2. On = ToSet(list) /\ On' = ToSet(list')
    BY <1>0 DEF On
  <2> QED
    BY <1>2, <2>1, <2>2
<1>4. /\ d \in Conn /\ crtc[d] \in Crtc /\ crtc[d] # None
      /\ \A c \in Conn : c # d => crtc[c] # crtc[d]
  BY <1>2, DeviceHasCrtc
<1>5. d # None /\ d # Old
  BY <1>4 DEF Conn, None, Old
<1>6. saved[d] # None => saved[d] = Old
  BY <1>0, <1>4 DEF Screens
<1> HIDE DEF d, r
<1>7. \A j \in Crtc : s[j] \in {None, shows[j]} \/ (saved[d] # None => s[j] = Old)
  BY <1>6
<1>8. Framebuffers'
  <2> SUFFICES ASSUME NEW j \in Crtc
               PROVE  shows'[j] \in {None, Old} \/ (shows'[j] \in On' /\ crtc[shows'[j]] = j)
    BY <1>0 DEF Framebuffers
  <2>1. shows[j] \in {None, Old} \/ (shows[j] \in On /\ crtc[shows[j]] = j)
    BY DEF Screens, Framebuffers
  <2>2. \/ shows'[j] = None
        \/ shows'[j] # d /\ shows'[j] = shows[j]
        \/ shows'[j] # d /\ shows'[j] = s[j] /\ saved[d] # None
    BY <1>1 DEF RmFB
  <2> HIDE DEF s
  <2>3. shows'[j] \in {None, Old} \/ (shows'[j] # d /\ shows'[j] = shows[j])
    BY <1>7, <2>2
  <2> QED
    BY <1>3, <2>1, <2>3
<1>9. Kept'
  <2> SUFFICES ASSUME NEW c \in Conn, Keeps(c)'
               PROVE  /\ route'[c] = before[c]
                      /\ shows'[before[c]] = IF c \in On' THEN c ELSE Old
                      /\ c \in On' => saved[c] \in {Old, NULL}
    BY <1>0 DEF Kept
  <2>1. Keeps(c) /\ c \notin failed'
    BY <1>0, <1>1 DEF Keeps
  <2>2. /\ route[c] = before[c] /\ before[c] # None /\ crtc[c] = before[c]
        /\ shows[before[c]] = IF c \in On THEN c ELSE Old
        /\ c \in On => saved[c] \in {Old, NULL}
    BY <2>1 DEF Screens, Kept, Keeps
  <2>3. before[c] \in Crtc
    BY <2>2 DEF IInv, TypeOK
  <2>4. CASE c = d
    <3>1. saved[d] = Old /\ RmFB(d, r, s)
      BY <1>0, <1>1, <1>3, <1>6, <2>1, <2>2, <2>4 DEF None, Old, NULL
    <3>2. r[d] = crtc[d] /\ s[crtc[d]] = Old
      BY <1>4, <3>1 DEF r, RouteTo
    <3>3. route'[d] = crtc[d] /\ shows'[crtc[d]] = Old
      <4> HIDE DEF s
      <4> QED
        BY <1>4, <1>5, <3>1, <3>2 DEF RmFB
    <3> QED
      BY <1>3, <2>2, <2>4, <3>3
  <2>5. CASE c # d
    <3>1. before[c] # crtc[d] /\ shows[before[c]] # d
      BY <1>4, <1>5, <2>2, <2>5
    <3>2. r[c] = before[c] /\ s[before[c]] = shows[before[c]]
      <4>1. r[c] = before[c]
        BY <2>2, <2>5, <3>1 DEF r, RouteTo
      <4> QED
        BY <2>3, <3>1, <4>1
    <3>3. route'[c] = before[c] /\ shows'[before[c]] = shows[before[c]]
      <4> HIDE DEF s
      <4> QED
        BY <1>1, <2>2, <2>3, <3>1, <3>2 DEF RmFB
    <3>4. c \in On' <=> c \in On
      BY <1>3, <2>5
    <3> QED
      BY <2>2, <3>3, <3>4
  <2> QED
    BY <2>4, <2>5
<1>10. Untouched' /\ CrtcsOwned'
  BY <1>0 DEF Screens, Untouched, CrtcsOwned
<1> QED
  BY <1>0, <1>8, <1>9, <1>10 DEF Screens

\* A connector that keeps its CRTC shows in the end what it did, and no screen
\* shows a framebuffer that is gone: for every card and wherever calls fail.
THEOREM ScreensAreRestored == Spec => []ScreensRestored
<1>1. IInv /\ Screens /\ [Next]_vars => Screens'
  <2> SUFFICES ASSUME IInv, Screens, [Next]_vars PROVE Screens'
    OBVIOUS
  <2>1. IInv'
    BY NextKeeps
  <2>2. CASE Quiet
    BY <2>2, QuietScreens
  <2>3. CASE (\E own \in BOOLEAN : SetupDev(own)) \/ Skip \/ CreateDumb \/ AddFB \/ Map
    BY <2>1, <2>3, SetupScreens
  <2>4. CASE Show \/ Cleanup
    BY <2>4, ShowScreens, CleanupScreens
  <2>5. CASE UNCHANGED vars
    <3>1. UNCHANGED <<before, route, shows, saved, next, crtc, list, failed, conn, at>>
      BY <2>5 DEF vars, card, kernel
    <3>2. On' = On /\ Devices' = Devices
      BY <3>1 DEF On, Devices
    <3> QED
      BY <3>1, <3>2 DEF Screens, Untouched, CrtcsOwned, Framebuffers, Kept, Keeps
  <2> QED
    BY <2>2, <2>3, <2>4, <2>5 DEF Next, Quiet
<1>2. IInv /\ Screens => ScreensRestored
  <2> SUFFICES ASSUME IInv, Screens PROVE ScreensRestored
    OBVIOUS
  <2>1. On \subseteq ToSet(list)
    BY DEF On, ToSet
  <2>2. ToSet(list) \subseteq fbs
    BY DEF IInv, NothingLeaks
  <2>3. \A x \in Crtc : shows[x] \in {None, Old} \cup fbs
    BY <2>1, <2>2 DEF Screens, Framebuffers
  <2>4. at = "exit" => On = {}
    BY <2>1 DEF IInv, NothingLeaks, ToSet
  <2>5. ASSUME at = "exit", NEW c \in Conn \ failed, before[c] # None, crtc[c] = before[c]
        PROVE  route[c] = before[c] /\ shows[route[c]] = Old
    BY <2>4, <2>5 DEF Screens, Kept, Keeps
  <2> QED
    BY <2>3, <2>5 DEF ScreensRestored
<1> QED
  BY <1>1, <1>2, ScreensInit, ModesetHolds, PTL DEF Spec
=============================================================================

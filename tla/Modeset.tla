------------------------------ MODULE Modeset ------------------------------
(***************************************************************************)
(* src/tdrm1.c: the program sets up a framebuffer for every connector of a *)
(* graphics card that has a monitor, shows it, draws for a while and puts  *)
(* everything back.  Any call to the kernel may fail.                      *)
(*                                                                         *)
(* The card's state is the kernel's: SetCrtc(), RmFB() and the states a    *)
(* card can be in are modelled from how the program uses them.             *)
(***************************************************************************)
EXTENDS Integers, Sequences, SequencesExt

CONSTANTS
    Connectors,  \* how many connectors the card has
    Crtcs,       \* and how many CRTCs
    Cards,       \* for each connector, its encoders: a sequence of possible_crtcs
    Levels,      \* the levels of a colour (256)
    Mods,        \* how far next_color() may go (20, 10 and 5)
    Rounds       \* bound: the rounds of drawing (50)

Conn == 1 .. Connectors
Crtc == 1 .. Crtcs

ASSUME ModesetAssumption ==
    /\ Connectors \in Nat /\ Crtcs \in Nat
    /\ Cards \subseteq [Conn -> Seq(SUBSET Crtc)]
    /\ Levels \in Nat \ {0, 1}
    /\ Mods \subseteq 1 .. Levels
    /\ Rounds \in Nat

VARIABLES
    encoders, status,  \* the card: a member of Cards; what each connector has
    route, shows,      \* the CRTC of a connector, the framebuffer of a CRTC
    bufs, fbs, maps,   \* dumb buffers, framebuffers and mappings of the program
    fd,                \* whether the card is open
    at, conn,          \* where the program is, the connector it prepares
    list,              \* modeset_list, the newest device first
    crtc, saved,       \* dev->crtc and dev->saved_crtc
    next,              \* the device whose turn it is to be shown
    colour, up, mod,   \* one of the three colours, its direction and next_color()'s mod
    round,
    before,            \* what route has been
    failed             \* the connectors for which a call has failed

card == <<encoders, status, before>>
kernel == <<route, shows>>
objects == <<bufs, fbs, maps>>
drawing == <<colour, up, mod, round>>
vars == <<card, kernel, objects, fd, at, conn, list, crtc, saved, next, drawing, failed>>

\* 0 is nobody's id.  A framebuffer of the program has its connector's number.
None == 0
Old == -1   \* the framebuffer somebody else has put there
NULL == -2  \* no configuration
Status == {"unused", "no modes", "usable"}
Places == {"open", "resources", "prepare", "create dumb", "add fb", "map", "show", "draw",
           "cleanup", "exit", "crashed"}

Possible(c) == UNION {encoders[c][e] : e \in DOMAIN encoders[c]}

Init ==
    /\ encoders \in Cards
    /\ status \in [Conn -> Status]
    /\ route \in [Conn -> {None} \cup Crtc]
    /\ \A c \in Conn : route[c] \in {None} \cup Possible(c)
    /\ shows = [k \in Crtc |-> IF \E c \in Conn : route[c] = k THEN Old ELSE None]
    /\ bufs = {} /\ fbs = {} /\ maps = {} /\ fd = FALSE
    /\ at = "open" /\ conn = 1 /\ list = <<>> /\ next = 1
    /\ crtc = [c \in Conn |-> None] /\ saved = [c \in Conn |-> NULL]
    /\ colour \in 0 .. Levels - 2 /\ up = TRUE /\ mod \in Mods /\ round = 0
    /\ before = route /\ failed = {}

-----------------------------------------------------------------------------
(***************************************************************************)
(* modeset_open(), modeset_prepare(), modeset_setup_dev()                  *)
(***************************************************************************)
\* The card cannot be opened, or has no dumb buffers.
Open(ok) ==
    /\ at = "open"
    /\ fd' = ok /\ at' = IF ok THEN "resources" ELSE "exit"
    /\ UNCHANGED <<card, kernel, objects, conn, list, crtc, saved, next, drawing, failed>>

\* drmModeGetResources(); main() closes the card when it fails.
GetResources(ok) ==
    /\ at = "resources"
    /\ fd' = ok /\ at' = IF ok THEN "prepare" ELSE "exit"
    /\ UNCHANGED <<card, kernel, objects, conn, list, crtc, saved, next, drawing, failed>>

\* The device of the present connector is freed, and the next one's turn comes.
GiveUp ==
    /\ at' = "prepare" /\ conn' = conn + 1
    /\ crtc' = [crtc EXCEPT ![conn] = None]

Preparing == at = "prepare" /\ conn \in Conn

\* No monitor, or one without modes; or drmModeGetConnector() fails.
Skip ==
    /\ Preparing
    /\ \/ status[conn] # "usable" /\ UNCHANGED failed
       \/ failed' = failed \cup {conn}
    /\ GiveUp
    /\ UNCHANGED <<card, kernel, objects, fd, list, saved, next, drawing>>

\* The CRTCs of the devices set up so far.
Taken == {crtc[c] : c \in ToSet(list)}

\* modeset_find_crtc(): the CRTC the connector has, when nobody else took it;
\* else the first free CRTC of the first encoder that has one.  An encoder
\* that cannot be retrieved is passed over.
FirstFree(seen, k) ==
    \E e \in seen :
        /\ k \in encoders[conn][e] \ Taken
        /\ \A j \in encoders[conn][e] \ Taken : k <= j
        /\ \A f \in seen : f < e => encoders[conn][f] \subseteq Taken

\* Mutant: nobody asks whether the connector's present CRTC has been taken.
FindCrtc_KeepOwn(k, own, seen) ==
    IF own /\ route[conn] # None THEN k = route[conn] ELSE FirstFree(seen, k)

FindCrtc(k, own, seen) ==
    IF own /\ route[conn] \notin {None} \cup Taken
    THEN k = route[conn]
    ELSE FirstFree(seen, k)

\* own: the present encoder has been retrieved; seen: which others have.
SetupDev(own) ==
    /\ Preparing /\ status[conn] = "usable"
    /\ \E seen \in SUBSET DOMAIN encoders[conn] :
        /\ failed' = IF own /\ seen = DOMAIN encoders[conn] THEN failed ELSE failed \cup {conn}
        /\ \/ \E k \in Crtc :
                  /\ FindCrtc(k, own, seen)
                  /\ crtc' = [crtc EXCEPT ![conn] = k] /\ at' = "create dumb" /\ UNCHANGED conn
           \/ (\A k \in Crtc : ~FindCrtc(k, own, seen)) /\ GiveUp
    /\ UNCHANGED <<card, kernel, objects, fd, list, saved, next, drawing>>

Prepared ==
    /\ at = "prepare" /\ conn > Connectors
    /\ at' = "show"
    /\ UNCHANGED <<card, kernel, objects, fd, conn, list, crtc, saved, next, drawing, failed>>

-----------------------------------------------------------------------------
(***************************************************************************)
(* modeset_create_fb()                                                     *)
(***************************************************************************)
Fails == failed' = failed \cup {conn} /\ GiveUp
Goes(to) == at' = to /\ UNCHANGED <<conn, crtc, failed>>

CreateDumb ==
    /\ at = "create dumb"
    /\ \/ bufs' = bufs \cup {conn} /\ Goes("add fb")
       \/ UNCHANGED bufs /\ Fails
    /\ UNCHANGED <<card, kernel, fbs, maps, fd, list, saved, next, drawing>>

\* err_destroy
AddFB ==
    /\ at = "add fb"
    /\ \/ fbs' = fbs \cup {conn} /\ UNCHANGED bufs /\ Goes("map")
       \/ bufs' = bufs \ {conn} /\ UNCHANGED fbs /\ Fails
    /\ UNCHANGED <<card, kernel, maps, fd, list, saved, next, drawing>>

\* Mutant: err_fb does not go on to err_destroy.
Map_ErrFbOnly ==
    /\ at = "map"
    /\ \/ /\ maps' = maps \cup {conn} /\ UNCHANGED <<bufs, fbs, crtc, failed>>
          /\ list' = <<conn>> \o list
          /\ at' = "prepare" /\ conn' = conn + 1
       \/ fbs' = fbs \ {conn} /\ UNCHANGED <<maps, bufs, list>> /\ Fails
    /\ UNCHANGED <<card, kernel, fd, saved, next, drawing>>

\* The two calls that map the buffer, and err_fb; the device joins the list.
Map ==
    /\ at = "map"
    /\ \/ /\ maps' = maps \cup {conn} /\ UNCHANGED <<bufs, fbs, crtc, failed>>
          /\ list' = <<conn>> \o list
          /\ at' = "prepare" /\ conn' = conn + 1
       \/ /\ fbs' = fbs \ {conn} /\ bufs' = bufs \ {conn}
          /\ UNCHANGED <<maps, list>> /\ Fails
    /\ UNCHANGED <<card, kernel, fd, saved, next, drawing>>

-----------------------------------------------------------------------------
(***************************************************************************)
(* main()                                                                  *)
(***************************************************************************)
\* drmModeSetCrtc() with one connector: connectors that share the CRTC lose
\* it, and the CRTC the connector leaves goes dark when it was the only one.
RouteTo(k, c) == [x \in Conn |-> IF x = c THEN k ELSE IF route[x] = k THEN None ELSE route[x]]

SetCrtc(k, fb, c) ==
    /\ fb # None
    /\ route' = RouteTo(k, c)
    /\ shows' = [j \in Crtc |->
                   IF j = k THEN fb
                   ELSE IF j = route[c] /\ \A x \in Conn : RouteTo(k, c)[x] # j THEN None
                   ELSE shows[j]]

SetCrtcFails(c) == failed' = failed \cup {c} /\ UNCHANGED kernel

\* Mutant: what the CRTC has shown is asked for after the change.
Show_SavedLate ==
    /\ at = "show" /\ next \in DOMAIN list
    /\ LET c == list[next] IN
        /\ saved' = [saved EXCEPT ![c] = c]
        /\ SetCrtc(crtc[c], c, c) /\ UNCHANGED failed
    /\ next' = next + 1
    /\ UNCHANGED <<card, objects, fd, at, conn, list, crtc, drawing>>

\* drmModeGetCrtc() may return NULL, which nobody looks at.
Show ==
    /\ at = "show" /\ next \in DOMAIN list
    /\ LET c == list[next] IN
        /\ \E ans \in {shows[crtc[c]], NULL} : saved' = [saved EXCEPT ![c] = ans]
        /\ \/ SetCrtc(crtc[c], c, c) /\ UNCHANGED failed
           \/ SetCrtcFails(c)
    /\ next' = next + 1
    /\ UNCHANGED <<card, objects, fd, at, conn, list, crtc, drawing>>

Shown ==
    /\ at = "show" /\ next > Len(list)
    /\ at' = "draw"
    /\ UNCHANGED <<card, kernel, objects, fd, conn, list, crtc, saved, next, drawing, failed>>

\* Mutant: the colour wraps around.
NextColor_Wraps(d) ==
    /\ colour' = (colour + (IF up THEN d ELSE Levels - d)) % Levels
    /\ UNCHANGED up

\* next_color(): in uint8_t; an overflow turns the direction instead.
NextColor(d) ==
    LET n == (colour + (IF up THEN d ELSE Levels - d)) % Levels
        over == (up /\ n < colour) \/ (~up /\ n > colour)
    IN /\ colour' = IF over THEN colour ELSE n
       /\ up' = IF over THEN ~up ELSE up

\* A round of modeset_draw(); the pixels are not looked at.
Draw ==
    /\ at = "draw" /\ round < Rounds
    /\ \E d \in 0 .. mod - 1 : NextColor(d)
    /\ round' = round + 1
    /\ UNCHANGED <<card, kernel, objects, fd, at, conn, list, crtc, saved, next, mod, failed>>

DrawDone ==
    /\ at = "draw" /\ round = Rounds
    /\ at' = "cleanup"
    /\ UNCHANGED <<card, kernel, objects, fd, conn, list, crtc, saved, next, drawing, failed>>

\* drmModeRmFB(): a CRTC that shows the framebuffer is switched off.
RmFB(c, r, s) ==
    /\ route' = [x \in Conn |-> IF r[x] # None /\ s[r[x]] = c THEN None ELSE r[x]]
    /\ shows' = [k \in Crtc |-> IF s[k] = c THEN None ELSE s[k]]

\* One round of modeset_cleanup().  The saved configuration is restored, if
\* the CRTC showed something, and the framebuffer and its buffer go.
Restore(c) ==
    LET k == crtc[c] r == RouteTo(k, c) IN
    \/ /\ saved[c] # None
       /\ RmFB(c, r, [j \in Crtc |->
                        IF j = k THEN saved[c]
                        ELSE IF j = route[c] /\ \A x \in Conn : r[x] # j THEN None
                        ELSE shows[j]])
       /\ UNCHANGED failed
    \/ /\ RmFB(c, route, shows)
       /\ failed' = IF saved[c] = None THEN failed ELSE failed \cup {c}

Cleanup ==
    /\ at = "cleanup" /\ list # <<>> /\ saved[Head(list)] # NULL
    /\ LET c == Head(list) IN
        /\ Restore(c)
        /\ maps' = maps \ {c} /\ fbs' = fbs \ {c} /\ bufs' = bufs \ {c}
    /\ list' = Tail(list)
    /\ UNCHANGED <<card, fd, at, conn, crtc, saved, next, drawing>>

\* iter->saved_crtc->crtc_id, when saved_crtc is NULL.
CleanupCrashes ==
    /\ at = "cleanup" /\ list # <<>> /\ saved[Head(list)] = NULL
    /\ at' = "crashed"
    /\ UNCHANGED <<card, kernel, objects, fd, conn, list, crtc, saved, next, drawing, failed>>

Close ==
    /\ at = "cleanup" /\ list = <<>>
    /\ fd' = FALSE /\ at' = "exit"
    /\ UNCHANGED <<card, kernel, objects, conn, list, crtc, saved, next, drawing, failed>>

Next ==
    \/ (\E ok \in BOOLEAN : Open(ok) \/ GetResources(ok) \/ SetupDev(ok))
    \/ Skip \/ Prepared \/ CreateDumb \/ AddFB \/ Map
    \/ Show \/ Shown \/ Draw \/ DrawDone \/ Cleanup \/ CleanupCrashes \/ Close

Spec == Init /\ [][Next]_vars

-----------------------------------------------------------------------------
(***************************************************************************)
(* Properties                                                              *)
(***************************************************************************)
\* The types of the variables.
TypeOK ==
    /\ encoders \in [Conn -> Seq(SUBSET Crtc)] /\ status \in [Conn -> Status]
    /\ route \in [Conn -> {None} \cup Crtc] /\ before \in [Conn -> {None} \cup Crtc]
    /\ bufs \subseteq Conn /\ fbs \subseteq Conn /\ maps \subseteq Conn
    /\ fd \in BOOLEAN /\ at \in Places /\ conn \in 1 .. Connectors + 1
    /\ list \in Seq(Conn) /\ crtc \in [Conn -> {None} \cup Crtc]
    /\ failed \subseteq Conn

Devices == ToSet(list) \cup (IF at \in {"create dumb", "add fb", "map"} THEN {conn} ELSE {})

\* "we can only drive one connector per CRTC" (tdrm1.c:337): whatever the
\* connectors have had before, each device has a CRTC that its connector can
\* use and that no other device has.
OneConnectorPerCrtc ==
    \A c \in Devices :
        /\ crtc[c] \in Possible(c)
        /\ \A d \in Devices \ {c} : crtc[c] # crtc[d]

\* A connector with a monitor is left out only when every CRTC it could use
\* belongs to a device set up before, or some call for it has failed.
LeftOutForWantOfCrtc ==
    at \in {"prepare", "show"} => \A c \in 1 .. conn - 1 :
        status[c] = "usable" /\ c \notin ToSet(list) /\ c \notin failed
            => \A k \in Possible(c) : \E d \in ToSet(list) : d < c /\ crtc[d] = k

\* How the CRTCs are shared out.
CrtcsShared == OneConnectorPerCrtc /\ LeftOutForWantOfCrtc

\* err_fb, err_destroy and modeset_cleanup(): whichever call fails, what the
\* program has of the card is what its devices have, and it ends with nothing
\* and with the card closed.  Only a configuration that could not be had
\* makes it crash.
NothingLeaks ==
    /\ bufs = ToSet(list) \cup (IF at \in {"add fb", "map"} THEN {conn} ELSE {})
    /\ fbs = ToSet(list) \cup (IF at = "map" THEN {conn} ELSE {})
    /\ maps = ToSet(list)
    /\ at = "exit" => list = <<>> /\ ~fd
    /\ at = "crashed" => \E c \in ToSet(list) : saved[c] = NULL

\* "restore the CRTC to the same mode as was before we changed it" (tdrm1.c:544):
\* a connector that has kept its CRTC shows in the end what it did, no matter
\* whose turn came first; and none shows a framebuffer that is gone.  (One
\* that had to move, or whose CRTC another device took, stays dark.)
ScreensRestored ==
    /\ \A k \in Crtc : shows[k] \in {None, Old} \cup fbs
    /\ at = "exit" => \A c \in Conn \ failed :
           before[c] # None /\ crtc[c] = before[c] => route[c] = before[c] /\ shows[route[c]] = Old

\* "smoothly changing": a colour never moves by mod or more, the overflow of
\* next_color()'s uint8_t included.
ColourMovesSmoothly ==
    [][colour' - colour < mod /\ colour - colour' < mod /\ colour' \in 0 .. Levels - 1]_vars
=============================================================================

---------------------------- MODULE FilterChannel ----------------------------
(***************************************************************************)
(* What blocking_queue<T> of src/thread_queue.h promises: an ordered       *)
(* channel from which every receiver takes, atomically, the oldest element *)
(* its filter accepts, and which ends for a receiver when it is shut and   *)
(* holds nothing for it.  There is no lock, no sleeping and no limit.      *)
(***************************************************************************)
EXTENDS Naturals, Sequences, SequencesExt

CONSTANTS Getters, Item, Accepts

VARIABLES chan,      \* the elements in the channel, the oldest first
          shut,      \* a sender has shut the channel
          received,  \* what each receiver has taken, in order
          gone       \* the receivers that have been told the channel ended

cvars == <<chan, shut, received, gone>>

Init ==
    /\ chan = <<>>
    /\ shut = FALSE
    /\ received = [g \in Getters |-> <<>>]
    /\ gone = {}

Wanted(g) == {i \in DOMAIN chan : chan[i] \in Accepts[g]}

Send(x) ==
    /\ chan' = Append(chan, x)
    /\ UNCHANGED <<shut, received, gone>>

Shut ==
    /\ shut' = TRUE
    /\ UNCHANGED <<chan, received, gone>>

Receive(g) ==
    /\ g \notin gone
    /\ \E i \in Wanted(g) :
        /\ \A j \in Wanted(g) : i <= j
        /\ received' = [received EXCEPT ![g] = Append(@, chan[i])]
        /\ chan' = RemoveAt(chan, i)
    /\ UNCHANGED <<shut, gone>>

Leave(g) ==
    /\ g \notin gone
    /\ shut
    /\ Wanted(g) = {}
    /\ gone' = gone \cup {g}
    /\ UNCHANGED <<chan, shut, received>>

Next ==
    \/ \E x \in Item : Send(x)
    \/ Shut
    \/ \E g \in Getters : Receive(g) \/ Leave(g)

SafeSpec == Init /\ [][Next]_cvars

\* A receiver for which there is an element, or the end, gets it.
Spec == SafeSpec /\ \A g \in Getters : WF_cvars(Receive(g) \/ Leave(g))
=============================================================================

----------------------------- MODULE MCThreadPool -----------------------------
(***************************************************************************)
(* Instances of ThreadPool for TLC.                                        *)
(***************************************************************************)
EXTENDS ThreadPool

CONSTANTS w1, w2, c1, c2, t1, t2, t3, t4, none

AllTasks == {t1, t2, t3, t4}

\* Two clients; t1 spawns t4 and c1 stops the pool whatever c2 is doing.
TwoClients == (c1 :> {t1, t2}) @@ (c2 :> {t3})
OneSpawner == [t \in AllTasks |-> IF t = t1 THEN {t4} ELSE {}]

\* One client that submits everything and then stops the pool.
OneClient == c1 :> {t1, t2, t3}
=============================================================================

---------------------------- MODULE PoolService ----------------------------
(* What a Pool promises about its lifetime, with no gate, counter or condition *)
(* variable: callers enter only while the Pool is open, retained storage moves *)
(* only through a caller that is inside or through the one close-time cleanup,  *)
(* and cleanup runs only when nobody is inside.  PoolGate implements it.        *)
EXTENDS Naturals

CONSTANTS Threads,      \* goroutines that call the Pool
          NumStores,    \* number of retained stores (class x shard)
          StoreLimit    \* buffers one store can retain

VARIABLES phase,        \* "Active", "Closing" or "Closed"
          inside,       \* callers whose operation has been admitted
          stored,       \* stored[s]: buffers retained by store s
          clearing      \* the configuration clears retained storage on Close

vars == <<phase, inside, stored, clearing>>

Stores == 0 .. NumStores - 1

Init ==
    /\ phase = "Active"
    /\ inside = {}
    /\ stored = [s \in Stores |-> 0]
    /\ clearing \in BOOLEAN

Enter(t) ==
    /\ phase = "Active"
    /\ t \notin inside
    /\ inside' = inside \cup {t}
    /\ UNCHANGED <<phase, stored, clearing>>

(* An admitted caller changes at most one store and leaves. *)
WorkAndLeave(t) ==
    /\ t \in inside
    /\ \/ UNCHANGED stored
       \/ \E s \in Stores, n \in 0 .. StoreLimit : stored' = [stored EXCEPT ![s] = n]
    /\ inside' = inside \ {t}
    /\ UNCHANGED <<phase, clearing>>

StartClose ==
    /\ phase = "Active"
    /\ phase' = "Closing"
    /\ UNCHANGED <<inside, stored, clearing>>

(* Cleanup empties one store at a time, behind the barrier. *)
ClearStore ==
    /\ phase = "Closing" /\ clearing
    /\ inside = {}
    /\ \E s \in Stores : stored' = [stored EXCEPT ![s] = 0]
    /\ UNCHANGED <<phase, inside, clearing>>

FinishClose ==
    /\ phase = "Closing"
    /\ inside = {}
    /\ clearing => \A s \in Stores : stored[s] = 0
    /\ phase' = "Closed"
    /\ UNCHANGED <<inside, stored, clearing>>

Next ==
    \/ \E t \in Threads : Enter(t) \/ WorkAndLeave(t)
    \/ StartClose
    \/ ClearStore
    \/ FinishClose

Spec == Init /\ [][Next]_vars
=============================================================================

------------------------------ MODULE RWLocks ------------------------------
(***************************************************************************)
(* What the lock table of assignment06/server.c promises: shared and       *)
(* exclusive locks on blocks, held by transactions.  There are no queues,  *)
(* no threads and no records beside the holders here; LockManager is shown *)
(* to implement this specification.                                        *)
(***************************************************************************)
CONSTANTS Txns, Locks

VARIABLES
    shared,  \* shared[b]: the transactions that hold b for reading
    owned    \* owned[b]: the transaction, if any, that holds b for writing

Init ==
    /\ shared = [b \in Locks |-> {}]
    /\ owned = [b \in Locks |-> {}]

\* f after t has given up the blocks of R.
Without(f, t, R) == [b \in Locks |-> IF b \in R THEN f[b] \ {t} ELSE f[b]]

Release(t, R) ==
    /\ shared' = Without(shared, t, R)
    /\ owned' = Without(owned, t, R)

\* A transaction may have to give up locks, b itself among them, in the step
\* that grants it one.
Share(t, b, R) ==
    /\ Without(owned, t, R)[b] = {}
    /\ shared' = [Without(shared, t, R) EXCEPT ![b] = @ \union {t}]
    /\ owned' = Without(owned, t, R)

Own(t, b, R) ==
    /\ owned[b] \subseteq {t}
    /\ shared[b] \subseteq {t}
    /\ shared' = [Without(shared, t, R) EXCEPT ![b] = {}]
    /\ owned' = [Without(owned, t, R) EXCEPT ![b] = {t}]

Next ==
    \E t \in Txns : \E R \in SUBSET Locks :
        \/ Release(t, R)
        \/ \E b \in Locks : Share(t, b, R) \/ Own(t, b, R)

Spec == Init /\ [][Next]_<<shared, owned>>

\* Readers and a writer never hold a block together, nor do two writers.
Exclusion ==
    \A b \in Locks :
        /\ owned[b] # {} => shared[b] = {}
        /\ \A s, t \in owned[b] : s = t
=============================================================================

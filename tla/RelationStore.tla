---------------------------- MODULE RelationStore ----------------------------
(***************************************************************************)
(* What the storage engine of assignment06/mydb.c keeps: named relations,  *)
(* each a set of rows of which no two agree on the key attributes, which   *)
(* come first.  A derived relation has all its attributes as its key.      *)
(* There are no blocks, buckets or scans here; Storage is shown to         *)
(* implement this specification.                                           *)
(***************************************************************************)
EXTENDS Naturals, Sequences

VARIABLE store   \* store[n]: the key size and the rows of relation n

Init == store = << >>

KeyOf(row, k) == SubSeq(row, 1, k)

Keyed(r) == \A x, y \in r.rows : KeyOf(x, r.keysize) = KeyOf(y, r.keysize) => x = y

Create(n) ==
    /\ n \notin DOMAIN store
    /\ store'[n].rows = {}
    /\ store' = [m \in DOMAIN store \union {n} |-> IF m = n THEN store'[n] ELSE store[m]]

Drop(n) == store' = [m \in DOMAIN store \ {n} |-> store[m]]

\* One row comes, one goes, or one replaces another that has its key.
Add(n) ==
    \E row \in store'[n].rows \ store[n].rows :
        store' = [store EXCEPT ![n].rows = @ \union {row}]

Remove(n) ==
    \E row \in store[n].rows : store' = [store EXCEPT ![n].rows = @ \ {row}]

Replace(n) ==
    \E old \in store[n].rows, new \in store'[n].rows :
        /\ KeyOf(old, store[n].keysize) = KeyOf(new, store[n].keysize)
        /\ store' = [store EXCEPT ![n].rows = (@ \ {old}) \union {new}]

Write(n) ==
    /\ DOMAIN store' = DOMAIN store
    /\ Add(n) \/ Remove(n) \/ Replace(n)
    /\ Keyed(store'[n])

Next ==
    \/ \E n \in DOMAIN store' \ DOMAIN store : Create(n)
    \/ \E n \in DOMAIN store : Drop(n) \/ Write(n)

Spec == Init /\ [][Next]_store
=============================================================================

--------------------------- MODULE MCLockManager ---------------------------
(***************************************************************************)
(* Instances of LockManager for TLC.  Transaction ids are written as in    *)
(* data.in: the client's number, then the phase.                           *)
(***************************************************************************)
EXTENDS LockManager, TLC

CONSTANTS w1, w2, w3, a, b, c

MCNames  == {a, b, c}
MCBucket == (a :> 0) @@ (b :> 1) @@ (c :> 1)

MCSymmetry == Permutations(Workers)

Cmd(op, args) == [op |-> op, args |-> args]

OneClientEach == [t \in Tids |-> t \div 10]

\* A writer that makes and drops relations and prints one before or after it has
\* written it (when before, going down to bucket 0 costs it the reader's lock), a
\* reader, and a transaction that reads one bucket and joins two relations of
\* another.
ThreeProgram ==
    (11 :> {Cmd("CR", <<a>>), Cmd("SL", <<a, b>>), Cmd("DE", <<a>>), Cmd("PR", <<b>>)})
 @@ (21 :> {Cmd("PR", <<a>>), Cmd("PR", <<b>>)})
 @@ (31 :> {Cmd("PR", <<a>>), Cmd("UN", <<b, b, c>>)})

\* Small enough for liveness without symmetry, and still with a queue of
\* three on bucket 0, a reader, and a transaction that goes back to a lower
\* bucket.
FairProgram ==
    (11 :> {Cmd("CR", <<a>>)})
 @@ (21 :> {Cmd("UP", <<b>>), Cmd("UP", <<a>>)})
 @@ (31 :> {Cmd("PR", <<a>>)})

\* Transaction 11 reads relation a and then writes it.
UpgradeProgram ==
    (11 :> {Cmd("CR", <<a>>), Cmd("PR", <<a>>), Cmd("UP", <<a>>)})
 @@ (21 :> {Cmd("PR", <<a>>)})

=============================================================================

----------------------------- MODULE MCDbServer -----------------------------
(***************************************************************************)
(* Instances of DbServer for TLC.  Transaction ids are written as in       *)
(* data.in: the client's number, then the phase; phase 0 runs at any time. *)
(***************************************************************************)
EXTENDS DbServer, TLC

CONSTANTS w1, w2, a

MCNames  == {a}
MCBucket == a :> 0

Exec(t)   == [type |-> "exec", tid |-> t]
Commit(t) == [type |-> "commit", tid |-> t]

Cmd(op, args) == [op |-> op, args |-> args]

\* Client 1 ends its phase without a command and then changes a relation at
\* any time; client 2 does so in the turn that it is given.
MixedScript == <<
    <<Commit(11), Exec(10), Commit(10)>>,
    <<Exec(21), Commit(21)>> >>

MixedText == <<
    <<Cmd("CR", <<a>>), Cmd("CR", <<a>>), Cmd("CR", <<a>>)>>,
    <<Cmd("DE", <<a>>), Cmd("DE", <<a>>)>> >>
=============================================================================

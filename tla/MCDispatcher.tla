---------------------------- MODULE MCDispatcher ----------------------------
(***************************************************************************)
(* Instances of Dispatcher for TLC.  Transaction ids are written as in     *)
(* data.in: the client's number, then the phase.                           *)
(***************************************************************************)
EXTENDS Dispatcher

CONSTANTS w1, w2

Exec(t)   == [type |-> "exec", tid |-> t]
Commit(t) == [type |-> "commit", tid |-> t]

\* Each client has one transaction in each phase, as in data.in.
PhasedScript == <<
    <<Exec(11), Commit(11), Commit(12)>>,
    <<Commit(21), Exec(22), Commit(22)>> >>

\* A third client, where two take turns and vote: one transaction that runs when
\* its phase is over, and one whose phase never ends.
ExtraScript == <<
    <<Commit(11)>>,
    <<Commit(21), Exec(21)>>,
    <<Commit(32)>> >>
=============================================================================

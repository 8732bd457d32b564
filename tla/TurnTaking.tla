----------------------------- MODULE TurnTaking -----------------------------
(***************************************************************************)
(* What the turns of assignment06/server.c promise: the requests of the    *)
(* clients' scripts are carried out one at a time, each client's in order, *)
(* and a transaction only when its phase has passed or when its client has *)
(* the turn in it.  There are no sockets, queues or threads here;          *)
(* Dispatcher is shown to implement this specification.                    *)
(***************************************************************************)
EXTENDS Naturals, Sequences

CONSTANTS
    Clients,  \* the client processes
    Script,   \* Script[c]: the requests of client c
    Players   \* the clients 1 .. Players take turns

VARIABLES
    done,     \* done[c]: how many requests of c have been carried out
    phase,    \* the phase that is running
    turn      \* the client whose turn it is

Init ==
    /\ done = [c \in Clients |-> 0]
    /\ phase = 1
    /\ turn = 1

PhaseOf(t)  == t % 10
ClientOf(t) == t \div 10

HasTurn(t) == PhaseOf(t) = phase /\ ClientOf(t) = turn

MayRun(t) == PhaseOf(t) < phase \/ HasTurn(t)

PassTurn ==
    IF turn < Players THEN turn' = turn + 1 /\ UNCHANGED phase
    ELSE turn' = 1 /\ phase' = phase + 1

Serve(c) ==
    /\ done[c] < Len(Script[c])
    /\ LET request == Script[c][done[c] + 1]
       IN  /\ MayRun(request.tid)
           /\ IF request.type = "commit" /\ HasTurn(request.tid)
              THEN PassTurn
              ELSE UNCHANGED <<phase, turn>>
    /\ done' = [done EXCEPT ![c] = @ + 1]

Next == \E c \in Clients : Serve(c)

Spec == Init /\ [][Next]_<<done, phase, turn>>
=============================================================================

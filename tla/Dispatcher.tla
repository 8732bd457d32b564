----------------------------- MODULE Dispatcher -----------------------------
(***************************************************************************)
(* The way of a request through assignment06/server.c: a client sends it   *)
(* and waits, the connection's reader thread puts it into the message      *)
(* queue, a worker takes it, puts it back while it is not its turn, and    *)
(* otherwise carries it out and answers; and the way the server stops.     *)
(* What carrying out an EXEC request involves is LockManager's subject;    *)
(* here it takes one step.                                                 *)
(***************************************************************************)
EXTENDS Integers, Sequences, FiniteSets

CONSTANTS
    Clients,            \* the numbers of the client processes
    Workers,            \* the threads of the worker pool
    Script,             \* Script[c]: the EXEC and COMMIT requests of client c
    QueueCap,           \* messages the queue holds (mq_maxmsg)
    ExpectedShutdowns   \* votes that stop the server, and clients in a phase

MaxPhases  == 16
MaxClients == 16

Request == [type : {"exec", "commit", "shutdown"}, tid : Nat]

ASSUME DispatcherAssumption ==
    /\ Clients \subseteq 1 .. 9
    /\ IsFiniteSet(Workers)
    /\ Script \in [Clients -> Seq([type : {"exec", "commit"}, tid : Nat \ {0}])]
    /\ QueueCap \in Nat \ {0}
    /\ ExpectedShutdowns \in Nat \ {0}

\* A client ends with its vote to stop the server.
Requests(c) == Append(Script[c], [type |-> "shutdown", tid |-> c])

NoClient == 0

\* A work item, and the message main sends to wake a worker at the end.
Item == [from : Clients \union {NoClient}, type : {"exec", "commit", "shutdown", "none"},
         tid : Nat]
Sentinel == [from |-> NoClient, type |-> "none", tid |-> 0]

txn_client_id(t) == t \div 10
txn_phase_id(t)  == t % 10

VARIABLES
    client,     \* client[c]: "outside", "ready", "waiting" or "gone"
    sent,       \* sent[c]: how many requests c has sent
    unread,     \* the clients whose request is still in the socket
    reader,     \* reader[c]: where the reader thread of c's connection is
    queue,      \* the message queue g_mqd
    pc,         \* pc[w]: where worker w is in worker_main
    item,       \* item[w]: the work item w has taken
    phase,      \* g_current_phase
    turn,       \* g_current_client
    votes,      \* g_shutdown_count
    running,    \* g_running
    main,       \* "accepting", "stopping" or "exited"
    sentinels,  \* how many sentinels main has sent
    served      \* history: how many EXEC and COMMIT requests of c were carried out

connection == <<client, sent, unread, reader>>
turns      == <<phase, turn>>
stopping   == <<votes, running, main, sentinels>>
vars == <<connection, queue, pc, item, turns, stopping, served>>

TypeOK ==
    /\ client \in [Clients -> {"outside", "ready", "waiting", "gone"}]
    /\ sent \in [Clients -> Nat]
    /\ \A c \in Clients : sent[c] \in 0 .. Len(Requests(c))
    /\ unread \in SUBSET Clients
    /\ reader \in [Clients -> {"none", "recv", "enqueue", "check", "closed"}]
    /\ queue \in Seq(Item)
    /\ Len(queue) <= QueueCap
    /\ pc \in [Workers -> {"receive", "gate", "requeue", "serve", "reply", "check", "exited"}]
    /\ item \in [Workers -> Item]
    /\ phase \in Nat \ {0}
    /\ turn \in 1 .. ExpectedShutdowns
    /\ votes \in Nat
    /\ running \in BOOLEAN
    /\ main \in {"accepting", "stopping", "exited"}
    /\ sentinels \in 0 .. Cardinality(Workers)
    /\ served \in [Clients -> Nat]
    /\ \A c \in Clients : served[c] \in 0 .. Len(Script[c])

Init ==
    /\ client = [c \in Clients |-> "outside"]
    /\ sent = [c \in Clients |-> 0]
    /\ unread = {}
    /\ reader = [c \in Clients |-> "none"]
    /\ queue = << >>
    /\ pc = [w \in Workers |-> "receive"]
    /\ item = [w \in Workers |-> Sentinel]
    /\ phase = 1
    /\ turn = 1
    /\ votes = 0
    /\ running = TRUE
    /\ main = "accepting"
    /\ sentinels = 0
    /\ served = [c \in Clients |-> 0]

(***************************************************************************)
(* The clients and their connections                                       *)
(***************************************************************************)

\* main accepts the connection and starts its reader.
Connect(c) ==
    /\ client[c] = "outside"
    /\ main = "accepting"
    /\ client' = [client EXCEPT ![c] = "ready"]
    /\ reader' = [reader EXCEPT ![c] = "recv"]
    /\ UNCHANGED <<sent, unread, queue, pc, item, turns, stopping, served>>

Send(c) ==
    /\ client[c] = "ready"
    /\ reader[c] # "closed"
    /\ sent[c] < Len(Requests(c))
    /\ client' = [client EXCEPT ![c] = "waiting"]
    /\ sent' = [sent EXCEPT ![c] = @ + 1]
    /\ unread' = unread \union {c}
    /\ UNCHANGED <<reader, queue, pc, item, turns, stopping, served>>

\* The client has its last answer, or finds the connection closed; the vote it
\* still tries to send is lost with the connection.  One that comes too late is
\* not accepted at all.
Leave(c) ==
    /\ \/ client[c] = "ready" /\ sent[c] = Len(Requests(c))
       \/ client[c] \in {"ready", "waiting"} /\ reader[c] = "closed"
       \/ client[c] = "outside" /\ main # "accepting"
    /\ client' = [client EXCEPT ![c] = "gone"]
    /\ UNCHANGED <<sent, unread, reader, queue, pc, item, turns, stopping, served>>

ReadRequest(c) ==
    /\ reader[c] = "recv"
    /\ c \in unread
    /\ unread' = unread \ {c}
    /\ reader' = [reader EXCEPT ![c] = "enqueue"]
    /\ UNCHANGED <<client, sent, queue, pc, item, turns, stopping, served>>

ReadEnd(c) ==
    /\ reader[c] = "recv"
    /\ c \notin unread
    /\ client[c] = "gone"
    /\ reader' = [reader EXCEPT ![c] = "closed"]
    /\ UNCHANGED <<client, sent, unread, queue, pc, item, turns, stopping, served>>

\* The work item of the request that c has sent last.
ItemOf(c) ==
    LET request == Requests(c)[sent[c]]
    IN  [from |-> c, type |-> request.type, tid |-> request.tid]

\* mq_send blocks while the queue is full.
Enqueue(c) ==
    /\ reader[c] = "enqueue"
    /\ Len(queue) < QueueCap
    /\ queue' = Append(queue, ItemOf(c))
    /\ reader' = [reader EXCEPT ![c] = "check"]
    /\ UNCHANGED <<client, sent, unread, pc, item, turns, stopping, served>>

\* The reader closes the connection when the server is stopping, though it has
\* just passed on a request that is still to be answered.
ReaderCheck(c) ==
    /\ reader[c] = "check"
    /\ reader' = [reader EXCEPT ![c] = IF running THEN "recv" ELSE "closed"]
    /\ UNCHANGED <<client, sent, unread, queue, pc, item, turns, stopping, served>>

(***************************************************************************)
(* The workers                                                             *)
(***************************************************************************)

\* Variant: the turn in a phase is not looked at.
PhaseIsReadyAnyClient(t) == txn_phase_id(t) <= phase

\* phase_is_ready; tid 0 is the sentinels'.
PhaseIsReady(t) ==
    \/ txn_phase_id(t) = 0
    \/ txn_phase_id(t) < phase
    \/ txn_phase_id(t) = phase /\ txn_client_id(t) = turn

Receive(w) ==
    /\ pc[w] = "receive"
    /\ queue # << >>
    /\ item' = [item EXCEPT ![w] = Head(queue)]
    /\ queue' = Tail(queue)
    /\ pc' = [pc EXCEPT ![w] = "gate"]
    /\ UNCHANGED <<connection, turns, stopping, served>>

Gate(w) ==
    /\ pc[w] = "gate"
    /\ pc' = [pc EXCEPT ![w] =
                  IF item[w].type \in {"exec", "commit"} /\ ~ PhaseIsReady(item[w].tid)
                  THEN "requeue"
                  ELSE IF item[w].from # NoClient THEN "serve" ELSE "check"]
    /\ UNCHANGED <<connection, queue, item, turns, stopping, served>>

\* Variant: the worker goes on with the item that it has put back.
AfterRequeueServe == "serve"

\* A worker that has put its item back takes the next, and does not look whether
\* the server is stopping.
AfterRequeue == "receive"

Requeue(w) ==
    /\ pc[w] = "requeue"
    /\ Len(queue) < QueueCap
    /\ queue' = Append(queue, item[w])
    /\ pc' = [pc EXCEPT ![w] = AfterRequeue]
    /\ UNCHANGED <<connection, item, turns, stopping, served>>

CountServed(w) == served' = [served EXCEPT ![item[w].from] = @ + 1]

ServeExec(w) ==
    /\ pc[w] = "serve"
    /\ item[w].type = "exec"
    /\ CountServed(w)
    /\ pc' = [pc EXCEPT ![w] = "reply"]
    /\ UNCHANGED <<connection, queue, item, turns, stopping>>

\* Variant: the turn goes past the last client before the phase ends.
NextTurnTooFar(u) == IF u > ExpectedShutdowns THEN 1 ELSE u + 1

\* The client whose turn follows that of client u.
NextTurn(u) == IF u + 1 > ExpectedShutdowns THEN 1 ELSE u + 1

\* Only the transaction that has the turn hands it on.
CommitHasTurn(t) ==
    /\ txn_phase_id(t) \in 1 .. MaxPhases - 1
    /\ txn_client_id(t) \in 1 .. MaxClients - 1
    /\ txn_phase_id(t) = phase
    /\ txn_client_id(t) = turn

ServeCommit(w) ==
    /\ pc[w] = "serve"
    /\ item[w].type = "commit"
    /\ IF CommitHasTurn(item[w].tid)
       THEN /\ turn' = NextTurn(turn)
            /\ phase' = IF turn' = 1 THEN phase + 1 ELSE phase
       ELSE UNCHANGED turns
    /\ CountServed(w)
    /\ pc' = [pc EXCEPT ![w] = "reply"]
    /\ UNCHANGED <<connection, queue, item, stopping>>

\* Variant: the last vote is not waited for.
EnoughVotesEarly(n) == n + 1 >= ExpectedShutdowns

EnoughVotes(n) == n >= ExpectedShutdowns

ServeShutdown(w) ==
    /\ pc[w] = "serve"
    /\ item[w].type = "shutdown"
    /\ votes' = votes + 1
    /\ running' = (running /\ ~ EnoughVotes(votes'))
    /\ pc' = [pc EXCEPT ![w] = "reply"]
    /\ UNCHANGED <<connection, queue, item, turns, main, sentinels, served>>

\* The answer is lost when the reader has closed the connection.
Reply(w) ==
    LET c == item[w].from IN
    /\ pc[w] = "reply"
    /\ client' = IF client[c] = "waiting" /\ reader[c] # "closed"
                 THEN [client EXCEPT ![c] = "ready"] ELSE client
    /\ pc' = [pc EXCEPT ![w] = "check"]
    /\ UNCHANGED <<sent, unread, reader, queue, item, turns, stopping, served>>

WorkerCheck(w) ==
    /\ pc[w] = "check"
    /\ pc' = [pc EXCEPT ![w] = IF running THEN "receive" ELSE "exited"]
    /\ UNCHANGED <<connection, queue, item, turns, stopping, served>>

(***************************************************************************)
(* The main thread                                                         *)
(***************************************************************************)

\* The last vote has shut the listening socket down.
StopAccepting ==
    /\ main = "accepting"
    /\ ~ running
    /\ main' = "stopping"
    /\ UNCHANGED <<connection, queue, pc, item, turns, votes, running, sentinels, served>>

\* Variants: the loop runs once too often, or not at all.
SentinelsOneMore == Cardinality(Workers) + 1
SentinelsNone    == 0

SentinelsToSend == Cardinality(Workers)

SendSentinel ==
    /\ main = "stopping"
    /\ sentinels < SentinelsToSend
    /\ Len(queue) < QueueCap
    /\ queue' = Append(queue, Sentinel)
    /\ sentinels' = sentinels + 1
    /\ UNCHANGED <<connection, pc, item, turns, votes, running, main, served>>

\* main joins the workers and returns: the process ends, its readers with it.
Exit ==
    /\ main = "stopping"
    /\ sentinels = SentinelsToSend
    /\ \A w \in Workers : pc[w] = "exited"
    /\ main' = "exited"
    /\ reader' = [c \in Clients |-> "closed"]
    /\ UNCHANGED <<client, sent, unread, queue, pc, item, turns, votes, running,
                   sentinels, served>>

(***************************************************************************)
(* The specification                                                       *)
(***************************************************************************)
ClientStep(c) == Connect(c) \/ Send(c) \/ Leave(c)

ReaderStep(c) == ReadRequest(c) \/ ReadEnd(c) \/ Enqueue(c) \/ ReaderCheck(c)

WorkerStep(w) ==
    \/ Receive(w)
    \/ Gate(w)
    \/ Requeue(w)
    \/ ServeExec(w)
    \/ ServeCommit(w)
    \/ ServeShutdown(w)
    \/ Reply(w)
    \/ WorkerCheck(w)

MainStep == StopAccepting \/ SendSentinel \/ Exit

Next ==
    \/ \E c \in Clients : main # "exited" /\ ReaderStep(c)
    \/ \E c \in Clients : ClientStep(c)
    \/ \E w \in Workers : WorkerStep(w)
    \/ MainStep

Spec == Init /\ [][Next]_vars

\* Every process and every thread that can run is scheduled in the end.
FairSpec ==
    /\ Spec
    /\ \A c \in Clients : WF_vars(ClientStep(c)) /\ WF_vars(ReaderStep(c))
    /\ \A w \in Workers : WF_vars(WorkerStep(w))
    /\ WF_vars(MainStep)

(***************************************************************************)
(* Properties                                                              *)
(***************************************************************************)
HasItem(w, c) == item[w].from = c /\ pc[w] \in {"gate", "requeue", "serve", "reply"}

\* Where the request of c can be.
Copies(c) ==
    Cardinality({x \in {"socket"} : c \in unread})
    + Cardinality({x \in {"reader"} : reader[c] = "enqueue"})
    + Cardinality({i \in DOMAIN queue : queue[i].from = c})
    + Cardinality({w \in Workers : HasItem(w, c)})

\* No request is lost or doubled on its way, however often it is put back: one
\* that its client waits for exists exactly once, until the server hangs up.
OneCopy ==
    \A c \in Clients :
        /\ Copies(c) <= 1
        /\ client[c] = "waiting" /\ reader[c] # "closed" => Copies(c) = 1
        /\ client[c] = "ready" => Copies(c) = 0

\* Neither a reader, nor a worker that puts an item back, nor main with its
\* sentinels ever finds the queue full: nobody blocks in mq_send, where the
\* workers could wait for themselves.
NeverFull ==
    \/ \E c \in Clients : reader[c] = "enqueue"
    \/ \E w \in Workers : pc[w] = "requeue"
    \/ main = "stopping" /\ sentinels < SentinelsToSend
    => Len(queue) < QueueCap

\* The server stops only when every client has had its whole script carried out.
StopsLast == ~ running => \A c \in Clients : served[c] = Len(Script[c])

Turns == INSTANCE TurnTaking WITH Players <- ExpectedShutdowns, done <- served

\* The queue and its workers carry the scripts out as the turns promise.
ImplementsTurnTaking == Turns!Spec

\* Every script is carried out to its end, and then the server stops.
AllServed   == <>(\A c \in Clients : served[c] = Len(Script[c]))
ServerStops == <>(main = "exited")
=============================================================================

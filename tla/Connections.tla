----------------------------- MODULE Connections -----------------------------
(***************************************************************************)
(* The descriptors of assignment06/server.c.  A work item names the client *)
(* it came from by the descriptor of its connection.  The reader thread    *)
(* closes that descriptor when the client has gone, whatever is still in   *)
(* the queue or with a worker, and the next connection that main accepts   *)
(* gets the same number.                                                   *)
(*                                                                         *)
(* Dispatcher follows a request through queue and workers, with clients in *)
(* the place of descriptors; here all of that is the set of items that are *)
(* owed an answer.  The server does not stop.                              *)
(***************************************************************************)
EXTENDS Naturals, Sequences, FiniteSets

CONSTANTS
    Clients,      \* the client processes
    Mortal,       \* those of them that may be killed
    MaxRequests   \* bound on the requests of a client

ASSUME ConnectionsAssumption ==
    /\ IsFiniteSet(Clients)
    /\ Mortal \subseteq Clients
    /\ MaxRequests \in Nat \ {0}

\* The descriptors of connections; every client connects once.
Descriptors == 1 .. Cardinality(Clients)
None == 0

Requests == [from : Clients, n : 1 .. MaxRequests]

VARIABLES
    client,  \* client[c]: "outside", "ready", "waiting", "gone" or "killed"
    asked,   \* asked[c]: how many requests c has sent
    fd,      \* fd[c]: the descriptor of its connection while that is open
    reader,  \* reader[c]: where the reader thread of its connection is
    read,    \* read[c]: how many of its requests the reader has read
    owed,    \* the work items in the queue or with a worker
    inbox,   \* inbox[c]: the answers in the socket of c, by their requests
    got      \* history: the answers taken by clients: who, for which request, which

vars == <<client, asked, fd, reader, read, owed, inbox, got>>

TypeOK ==
    /\ client \in [Clients -> {"outside", "ready", "waiting", "gone", "killed"}]
    /\ asked \in [Clients -> 0 .. MaxRequests]
    /\ fd \in [Clients -> Descriptors \union {None}]
    /\ reader \in [Clients -> {"none", "recv", "enqueue", "closed"}]
    /\ read \in [Clients -> 0 .. MaxRequests]
    /\ owed \in SUBSET [request : Requests, client_fd : Descriptors]
    /\ inbox \in [Clients -> Seq(Requests)]
    /\ got \in SUBSET [by : Requests, answer : Requests]

Init ==
    /\ client = [c \in Clients |-> "outside"]
    /\ asked = [c \in Clients |-> 0]
    /\ fd = [c \in Clients |-> None]
    /\ reader = [c \in Clients |-> "none"]
    /\ read = [c \in Clients |-> 0]
    /\ owed = {}
    /\ inbox = [c \in Clients |-> << >>]
    /\ got = {}

Last(c) == [from |-> c, n |-> asked[c]]

(***************************************************************************)
(* The clients                                                             *)
(***************************************************************************)

\* accept returns a number that is free, the lowest one; which that is depends on
\* what else the server has open.  A reader begins.
Connect(c) ==
    /\ client[c] = "outside"
    /\ client' = [client EXCEPT ![c] = "ready"]
    /\ \E f \in Descriptors :
          /\ \A k \in Clients : fd[k] # f
          /\ fd' = [fd EXCEPT ![c] = f]
    /\ reader' = [reader EXCEPT ![c] = "recv"]
    /\ UNCHANGED <<asked, read, owed, inbox, got>>

\* rpc_call: a request is sent ...
Ask(c) ==
    /\ client[c] = "ready"
    /\ asked[c] < MaxRequests
    /\ client' = [client EXCEPT ![c] = "waiting"]
    /\ asked' = [asked EXCEPT ![c] = @ + 1]
    /\ UNCHANGED <<fd, reader, read, owed, inbox, got>>

\* ... and the first answer that comes is taken for its answer.
TakeAnswer(c) ==
    /\ client[c] = "waiting"
    /\ inbox[c] # << >>
    /\ got' = got \union {[by |-> Last(c), answer |-> Head(inbox[c])]}
    /\ inbox' = [inbox EXCEPT ![c] = Tail(@)]
    /\ client' = [client EXCEPT ![c] = "ready"]
    /\ UNCHANGED <<asked, fd, reader, read, owed>>

\* The client closes its socket after the answer to its vote.
Leave(c) ==
    /\ client[c] = "ready"
    /\ asked[c] > 0
    /\ client' = [client EXCEPT ![c] = "gone"]
    /\ inbox' = [inbox EXCEPT ![c] = << >>]
    /\ UNCHANGED <<asked, fd, reader, read, owed, got>>

Die(c) ==
    /\ c \in Mortal
    /\ client[c] \in {"ready", "waiting"}
    /\ client' = [client EXCEPT ![c] = "killed"]
    /\ inbox' = [inbox EXCEPT ![c] = << >>]
    /\ UNCHANGED <<asked, fd, reader, read, owed, got>>

Ended(c) == client[c] \in {"gone", "killed"}

(***************************************************************************)
(* The readers and workers                                                 *)
(***************************************************************************)

\* Variant: recv_all takes a part of a request for the whole.
ArrivedInPart(c) == asked[c] > 0 /\ read[c] <= asked[c]

\* A request that the reader has not read is in the socket.
Arrived(c) == read[c] < asked[c]

ReadRequest(c) ==
    /\ reader[c] = "recv"
    /\ Arrived(c)
    /\ read' = [read EXCEPT ![c] = @ + 1]
    /\ reader' = [reader EXCEPT ![c] = "enqueue"]
    /\ UNCHANGED <<client, asked, fd, owed, inbox, got>>

\* The connection of an ended client may be reset, and its request lost.
ReadEnd(c) ==
    /\ reader[c] = "recv"
    /\ Ended(c)
    /\ reader' = [reader EXCEPT ![c] = "closed"]
    /\ fd' = [fd EXCEPT ![c] = None]
    /\ UNCHANGED <<client, asked, read, owed, inbox, got>>

\* Variant: a reader closes its connection when it has passed a request on.
PassOnAndClose(c) ==
    /\ reader' = [reader EXCEPT ![c] = "closed"]
    /\ fd' = [fd EXCEPT ![c] = None]

PassOn(c) ==
    /\ reader' = [reader EXCEPT ![c] = "recv"]
    /\ UNCHANGED fd

Enqueue(c) ==
    /\ reader[c] = "enqueue"
    /\ owed' = owed \union {[request |-> [from |-> c, n |-> read[c]], client_fd |-> fd[c]]}
    /\ PassOn(c)
    /\ UNCHANGED <<client, asked, read, inbox, got>>

\* Variant: a worker keeps the item that it has answered.
DoneKept(i) == owed

Done(i) == owed \ {i}

\* send_all of process_request: the items come in any order, as those whose turn it
\* is not rotate in the queue.
Answer(i) ==
    /\ i \in owed
    /\ owed' = Done(i)
    /\ inbox' = [c \in Clients |->
                    IF fd[c] = i.client_fd /\ ~ Ended(c)
                    THEN Append(inbox[c], i.request) ELSE inbox[c]]
    /\ UNCHANGED <<client, asked, fd, reader, read, got>>

ClientStep(c) == Connect(c) \/ Ask(c) \/ TakeAnswer(c) \/ Leave(c) \/ Die(c)
ReaderStep(c) == ReadRequest(c) \/ ReadEnd(c) \/ Enqueue(c)

Next ==
    \/ \E c \in Clients : ClientStep(c) \/ ReaderStep(c)
    \/ \E i \in owed : Answer(i)

Spec == Init /\ [][Next]_vars

(***************************************************************************)
(* Properties                                                              *)
(***************************************************************************)

\* rpc_call receives "the corresponding server response" (client.c:230).
AnswersOwn == \A a \in got : a.answer = a.by

NobodyKilled == \A c \in Clients : client[c] # "killed"

\* While no client has been killed, clients that come and go and get the descriptors
\* of others receive their own answers, and nobody's requests meet in the server:
\* LockManager and Dispatcher rely on a client having one request at a time.
InStepUntilKilled ==
    NobodyKilled =>
        /\ AnswersOwn
        /\ \A i, j \in owed : i.request.from = j.request.from => i = j

\* A client that lives and still waits for an answer has not lost it to another: an
\* answer in a stranger's socket is for a client that has ended.
LivingKeepTheirAnswers ==
    \A c \in Clients : \A k \in DOMAIN inbox[c] :
        LET owner == inbox[c][k].from IN owner # c => Ended(owner)

\* However far the answers are behind, a client takes each of its own answers at most
\* once, and none from the future (client.c:239-243).
AnswersFromThePast ==
    \A a \in got : a.answer.from = a.by.from =>
        /\ a.answer.n <= a.by.n
        /\ \A b \in got : b.answer = a.answer => b = a

\* What holds of answers whoever is killed.
AnswersKept == LivingKeepTheirAnswers /\ AnswersFromThePast

(***************************************************************************)
(* What the properties rest on                                             *)
(***************************************************************************)

\* A descriptor is open as long as its reader runs, and belongs to one connection.
OpenWhileRead == \A c \in Clients : fd[c] # None <=> reader[c] \in {"recv", "enqueue"}
OneOwnerEach  == \A c, k \in Clients : fd[c] = fd[k] /\ fd[c] # None => c = k

\* A reader begins with its client and outlives it; it has not read what was not sent.
ReadersFollow ==
    \A c \in Clients :
        /\ reader[c] = "none" <=> client[c] = "outside"
        /\ reader[c] = "closed" => Ended(c)
        /\ reader[c] = "enqueue" => read[c] > 0
        /\ client[c] = "waiting" => asked[c] > 0
        /\ read[c] <= asked[c]

\* The descriptor in an item is its client's until that has ended.
OwedInTheOpen ==
    \A i \in owed : ~ Ended(i.request.from) => fd[i.request.from] = i.client_fd

\* c is between two requests, or its last one is in one place: the socket, the reader,
\* the queue and workers, or, answered, its socket again.
InStep(c) ==
    LET mine == {i \in owed : i.request.from = c}
    IN  \/ /\ client[c] # "waiting" /\ read[c] = asked[c] /\ reader[c] # "enqueue"
           /\ mine = {} /\ inbox[c] = << >>
        \/ /\ client[c] = "waiting" /\ read[c] = asked[c] - 1 /\ reader[c] = "recv"
           /\ mine = {} /\ inbox[c] = << >>
        \/ /\ client[c] = "waiting" /\ read[c] = asked[c] /\ reader[c] = "enqueue"
           /\ mine = {} /\ inbox[c] = << >>
        \/ /\ client[c] = "waiting" /\ read[c] = asked[c] /\ reader[c] = "recv"
           /\ \E i \in owed : i.request = Last(c) /\ mine = {i}
           /\ inbox[c] = << >>
        \/ /\ client[c] = "waiting" /\ read[c] = asked[c] /\ reader[c] = "recv"
           /\ mine = {} /\ inbox[c] = <<Last(c)>>

AllInStep == NobodyKilled => AnswersOwn /\ \A c \in Clients : InStep(c)

\* The reader has passed request r on.
Passed(r) == r.n <= read[r.from] /\ (reader[r.from] = "enqueue" => r.n < read[r.from])

\* Only such requests are owed or answered ...
PassedOnly ==
    /\ \A i \in owed : Passed(i.request)
    /\ \A c \in Clients : \A k \in DOMAIN inbox[c] : Passed(inbox[c][k])
    /\ \A a \in got : Passed(a.answer)

\* ... and each in one place: owed, in a socket, or taken.
OwedOnce  == \A i, j \in owed : i.request = j.request => i = j
InboxOnce ==
    \A c, d \in Clients : \A k \in DOMAIN inbox[c], l \in DOMAIN inbox[d] :
        inbox[c][k] = inbox[d][l] => c = d /\ k = l
GotOnce   == \A a, b \in got : a.answer = b.answer => a = b
PlacesApart ==
    /\ \A i \in owed : \A a \in got : i.request # a.answer
    /\ \A c \in Clients : \A k \in DOMAIN inbox[c] :
          /\ \A i \in owed : inbox[c][k] # i.request
          /\ \A a \in got : inbox[c][k] # a.answer

\* A client's own answers are not from the future.
NoneFromTheFuture == \A a \in got : a.answer.from = a.by.from => a.answer.n <= a.by.n
=============================================================================

------------------------------ MODULE DbServer ------------------------------
(***************************************************************************)
(* assignment06/server.c as a whole: the workers of Dispatcher carry an    *)
(* EXEC or a COMMIT out through the lock table of LockManager.  A worker   *)
(* that sleeps in lock_acquire is lost to the pool until the lock is       *)
(* granted.  Clients may die (see Mortal).                                 *)
(***************************************************************************)
EXTENDS Integers, Sequences, FiniteSets

CONSTANTS
    Clients, Workers, Script, QueueCap, ExpectedShutdowns,  \* see Dispatcher
    Names, DiskSize, Bucket, SlotCount, MaxHolders,         \* see LockManager
    Text,    \* Text[c][i]: the command in the i-th request of c, if it has one
    Mortal   \* the clients that may die

VARIABLES
    client, sent, unread, reader, queue, item, phase, turn, votes, running,
    main, sentinels, served,                                \* see Dispatcher
    mode, holders, waiting, asleep, txnStates, catalog, tid, cmd, todo,
                                                            \* see LockManager
    pc,      \* pc[w]: where w is in worker_main
    lpc      \* lpc[w]: where w is in process_request, or "idle" outside

\* The requests of the scripts: a client and the place of a request in its script.
Steps == UNION {{c} \X DOMAIN Script[c] : c \in Clients}

TidOf(s) == Script[s[1]][s[2]].tid

Tids    == {TidOf(s) : s \in Steps}
Owner   == [t \in Tids |-> (CHOOSE s \in Steps : TidOf(s) = t)[1]]
Program == [t \in Tids |->
    {Text[s[1]][s[2]] : s \in {x \in Steps : TidOf(x) = t /\ Script[x[1]][x[2]].type = "exec"}}]

D == INSTANCE Dispatcher
L == INSTANCE LockManager WITH pc <- lpc

poolVars == <<client, sent, unread, reader, queue, item, phase, turn, votes, running,
              main, sentinels, served, pc>>
lockVars == <<mode, holders, waiting, asleep, txnStates, catalog, tid, cmd, todo, lpc>>
vars == <<poolVars, lockVars>>

\* What the two components assume, and that each transaction is one client's.
ASSUME DbServerAssumption ==
    /\ Clients \subseteq 1 .. 9
    /\ IsFiniteSet(Workers)
    /\ Script \in [Clients -> Seq([type : {"exec", "commit"}, tid : Nat \ {0}])]
    /\ QueueCap \in Nat \ {0}
    /\ ExpectedShutdowns \in Nat \ {0}
    /\ DiskSize \in Nat \ {0}
    /\ SlotCount \in Nat \ {0}
    /\ MaxHolders \in Nat \ {0}
    /\ Bucket \in [Names -> L!Blocks]
    /\ Mortal \subseteq Clients
    /\ \A c \in Clients : DOMAIN Text[c] = DOMAIN Script[c]
    /\ \A s, u \in Steps : TidOf(s) = TidOf(u) => s[1] = u[1]
    /\ \A c \in Clients : \A i \in DOMAIN Script[c] :
          Script[c][i].type = "exec" => Text[c][i] \in L!Command

\* No transaction prints a relation and asks in a later request to write its
\* bucket.  The scripts of data.in are so: what a transaction prints, it prints
\* after its writes.  Only ServerSerializesConflicts assumes it.
NoUpgrades ==
    \A c \in Clients : \A i, j \in DOMAIN Script[c] :
        /\ i < j /\ Script[c][i].tid = Script[c][j].tid
        /\ Script[c][i].type = "exec" /\ Script[c][j].type = "exec"
        /\ L!LockMode(Text[c][i]) = L!READ_LOCK
        /\ L!LockMode(Text[c][j]) = L!WRITE_LOCK
        => L!LockPlan(Text[c][i]) \intersect L!LockPlan(Text[c][j]) = {}

Init == D!Init /\ L!Init

(***************************************************************************)
(* process_request                                                         *)
(***************************************************************************)

\* w enters process_request with an EXEC or a COMMIT.
Enters(w, type) ==
    /\ pc[w] = "serve"
    /\ item[w].type = type
    /\ lpc[w] = "idle"
    /\ tid' = [tid EXCEPT ![w] = item[w].tid]
    /\ UNCHANGED <<poolVars, mode, holders, waiting, asleep, txnStates, catalog>>

\* The command of the request that c has sent last.
CommandOf(c) == Text[c][sent[c]]

BeginExec(w) ==
    /\ Enters(w, "exec")
    /\ lpc' = [lpc EXCEPT ![w] = "lock"]
    /\ cmd' = [cmd EXCEPT ![w] = CommandOf(item[w].from)]
    /\ todo' = [todo EXCEPT ![w] = L!LockPlan(CommandOf(item[w].from))]

BeginCommit(w) ==
    /\ Enters(w, "commit")
    /\ lpc' = [lpc EXCEPT ![w] = "commit"]
    /\ UNCHANGED <<cmd, todo>>

\* What happens on the way.
LockStep(w) ==
    /\ \/ \E b \in L!Blocks :
            \/ L!LockAlreadyHeld(w, b)
            \/ L!LockGrantNow(w, b)
            \/ L!LockEnqueue(w, b)
            \/ L!GrantAfterWait(w, b)
            \/ L!SleepAgain(w, b)
       \/ L!LocksAcquired(w)
       \/ L!RequiredReady(w)
       \/ L!TakeCreated(w)
       \/ L!ReleaseAll(w)
    /\ UNCHANGED poolVars

EndExec(w) == (L!Execute(w) \/ L!RequireTimeout(w)) /\ D!ServeExec(w)

EndCommit(w) == L!Announce(w) /\ D!ServeCommit(w)

(***************************************************************************)
(* The rest of the server                                                  *)
(***************************************************************************)
PoolStep(w) ==
    /\ \/ D!Receive(w)
       \/ D!Gate(w)
       \/ D!Requeue(w)
       \/ D!ServeShutdown(w)
       \/ D!Reply(w)
       \/ D!WorkerCheck(w)
    /\ UNCHANGED lockVars

ReaderStep(c) == main # "exited" /\ D!ReaderStep(c) /\ UNCHANGED lockVars

ClientStep(c) == D!ClientStep(c) /\ UNCHANGED lockVars

MainStep == D!MainStep /\ UNCHANGED lockVars

SpuriousWakeup(w) == L!SpuriousWakeup(w) /\ UNCHANGED poolVars

\* A client is killed: nobody receives its answers, and nothing undoes what its
\* transaction has done so far.
Die(c) ==
    /\ c \in Mortal
    /\ client[c] \in {"ready", "waiting"}
    /\ client' = [client EXCEPT ![c] = "gone"]
    /\ UNCHANGED <<sent, unread, reader, queue, pc, item, phase, turn, votes, running,
                   main, sentinels, served, lockVars>>

WorkerStep(w) ==
    \/ PoolStep(w)
    \/ BeginExec(w)
    \/ BeginCommit(w)
    \/ LockStep(w)
    \/ EndExec(w)
    \/ EndCommit(w)

Next ==
    \/ \E w \in Workers : WorkerStep(w) \/ SpuriousWakeup(w)
    \/ \E c \in Clients : ReaderStep(c) \/ ClientStep(c) \/ Die(c)
    \/ MainStep

Spec == Init /\ [][Next]_vars

\* The process ends with its threads: nothing moves after main has returned.
FairSpec ==
    /\ Spec
    /\ \A c \in Clients : WF_vars(ClientStep(c)) /\ WF_vars(ReaderStep(c))
    /\ \A w \in Workers : WF_vars(WorkerStep(w))
    /\ WF_vars(MainStep)

(***************************************************************************)
(* Properties                                                              *)
(***************************************************************************)

\* The dispatcher is the environment the lock manager was checked and proved in:
\* it never has two workers on one client's requests, and every request it
\* hands over is one of its client's script.
ImplementsLockManager == L!Spec

\* The turn that was looked at before a request was accepted (worker_main) is
\* still its client's, or its phase over, whenever it is being carried out.
GateStillOpen == \A w \in Workers : lpc[w] # "idle" => D!PhaseIsReady(tid[w])

\* A client that has the answer to a COMMIT holds no lock and is in no queue.
AnsweredCommitIsClean ==
    \A c \in Clients : \A t \in Tids :
        /\ Owner[t] = c
        /\ client[c] = "ready" /\ sent[c] > 0
        /\ D!Requests(c)[sent[c]].type = "commit" /\ D!Requests(c)[sent[c]].tid = t
        => /\ \A b \in L!Blocks : t \notin holders[b]
           /\ \A w \in Workers : tid[w] # t

\* What the dispatcher knows of a request when it lets it go, and what it tells its
\* client at the end, is true of the lock table (process_request).
TurnsAndLocksAgree == GateStillOpen /\ AnsweredCommitIsClean

\* A client that has died before it sent its last request, the vote.
Died(c) == client[c] = "gone" /\ sent[c] < Len(D!Requests(c))

\* What a dead client leaves behind: locks that nobody will release, or a turn
\* that nobody will hand on.
LeftBehind ==
    \/ \E b \in L!Blocks : \E t \in holders[b] : Died(Owner[t])
    \/ \E c \in Clients : c = turn /\ Died(c)

\* A request is answered, unless a client has died at a point where the others
\* depend on it.
AnsweredUnlessAbandoned ==
    \A c \in Clients : client[c] = "waiting" ~> client[c] # "waiting" \/ LeftBehind
=============================================================================

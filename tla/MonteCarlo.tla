----------------------------- MODULE MonteCarlo -----------------------------
(***************************************************************************)
(* assignment03: monte_master.c cuts N tosses into chunks and puts them    *)
(* into a System V message queue; the monte_worker.c processes take them   *)
(* out and add to a sum in shared memory, under a semaphore.  SIGUSR1 and  *)
(* SIGUSR2 pause and resume a process, SIGINT stops them all.              *)
(*                                                                         *)
(* A chunk is known by the tosses that remained when it was cut off, the   *)
(* message without tosses by 0, and the sum by the set of chunks that were *)
(* added to it.  msgsnd, msgrcv and semop are never restarted after a      *)
(* signal handler, whatever way it was installed; wait is, because signal  *)
(* of the C library asks for it.                                           *)
(***************************************************************************)
EXTENDS Integers, Sequences, FiniteSets

CONSTANTS
    Workers,       \* the worker processes (M of them)
    N,             \* tosses in all
    C,             \* tosses in a chunk
    QueueCap,      \* messages the queue holds
    MasterPauses,  \* bound on the SIGUSR1 signals the master gets
    WorkerPauses,  \* bound on the SIGUSR1 signals the workers get
    MayStop        \* whether somebody may send SIGINT

ASSUME MonteCarloAssumption ==
    /\ IsFiniteSet(Workers)
    /\ Workers # {}
    /\ N \in Nat
    /\ C \in Nat \ {0}
    /\ QueueCap \in Nat \ {0}
    /\ MasterPauses \in Nat
    /\ WorkerPauses \in Nat
    /\ MayStop \in BOOLEAN

\* The message that tells a worker to exit.
Empty == 0

VARIABLES
    remaining,  \* the tosses the master has not sent yet
    master,     \* where the master is in main, or in its signal handler
    empties,    \* how many turns of the loop that sends the empty messages
    queue,      \* the message queue
    sem,        \* the value of the semaphore
    sum,        \* the chunks in *global_count
    pc,         \* pc[w]: where worker w is in main
    chunk,      \* chunk[w]: the chunk w has taken
    seen,       \* seen[w]: the sum as w has read it
    terminate,  \* terminate[w]: the flag of worker w
    paused,     \* the master, if it is paused, and the workers that are
    killed,     \* the workers that SIGINT is on its way to
    pauses,     \* how many SIGUSR1 signals master and workers may still get
    lost,       \* history: empty messages whose msgsnd was interrupted
    intruded    \* history: how often a semop was interrupted

work    == <<pc, chunk, seen, terminate>>
signals == <<paused, killed, pauses>>
history == <<lost, intruded>>
vars == <<remaining, master, empties, queue, sem, sum, work, signals, history>>

Master == "master"

TypeOK ==
    /\ remaining \in 0 .. N
    /\ master \in {"cut", "send", "empty", "wait", "done", "cleanup", "stopped"}
    /\ empties \in 0 .. Cardinality(Workers)
    /\ queue \in Seq(0 .. N)
    /\ Len(queue) <= QueueCap
    /\ sem \in Nat
    /\ sum \in SUBSET (1 .. N)
    /\ pc \in [Workers -> {"top", "receive", "lock", "read", "write", "unlock", "exited"}]
    /\ chunk \in [Workers -> 0 .. N]
    /\ seen \in [Workers -> SUBSET (1 .. N)]
    /\ terminate \in [Workers -> BOOLEAN]
    /\ paused \in SUBSET (Workers \union {Master})
    /\ killed \in SUBSET Workers
    /\ pauses \in [master : 0 .. MasterPauses, worker : 0 .. WorkerPauses]
    /\ lost \in 0 .. Cardinality(Workers)
    /\ intruded \in Nat

Init ==
    /\ remaining = N
    /\ master = "cut"
    /\ empties = 0
    /\ queue = << >>
    /\ sem = 1
    /\ sum = {}
    /\ pc = [w \in Workers |-> "top"]
    /\ chunk = [w \in Workers |-> Empty]
    /\ seen = [w \in Workers |-> {}]
    /\ terminate = [w \in Workers |-> FALSE]
    /\ paused = {}
    /\ killed = {}
    /\ pauses = [master |-> MasterPauses, worker |-> WorkerPauses]
    /\ lost = 0
    /\ intruded = 0

(***************************************************************************)
(* The master                                                              *)
(***************************************************************************)
Full == Len(queue) = QueueCap

\* The size of the next chunk when r tosses remain.
Cut(r) == IF r > C THEN C ELSE r

\* Variant: the last chunk is forgotten.
MoreToSendEarly == remaining > C

MoreToSend == remaining > 0

\* The head of the sending loop.
CutChunk ==
    /\ master = "cut"
    /\ IF MoreToSend THEN Master \notin paused /\ master' = "send"
                        ELSE master' = "empty"
    /\ UNCHANGED <<remaining, empties, queue, sem, sum, work, signals, history>>

SendChunk ==
    /\ master = "send"
    /\ ~ Full
    /\ queue' = Append(queue, remaining)
    /\ remaining' = remaining - Cut(remaining)
    /\ master' = "cut"
    /\ UNCHANGED <<empties, sem, sum, work, signals, history>>

\* Variant: one empty message fewer.
EmptiesFewer == Cardinality(Workers) - 1

EmptiesToSend == Cardinality(Workers)

SendEmpty ==
    /\ master = "empty"
    /\ empties < EmptiesToSend
    /\ ~ Full
    /\ queue' = Append(queue, Empty)
    /\ empties' = empties + 1
    /\ UNCHANGED <<remaining, master, sem, sum, work, signals, history>>

EmptiesSent ==
    /\ master = "empty"
    /\ empties = EmptiesToSend
    /\ master' = "wait"
    /\ UNCHANGED <<remaining, empties, queue, sem, sum, work, signals, history>>

AllExited == \A w \in Workers : pc[w] = "exited"

\* All workers are gone: the sum is read, printed, and the queue removed.
Finish ==
    /\ master = "wait"
    /\ AllExited
    /\ master' = "done"
    /\ UNCHANGED <<remaining, empties, queue, sem, sum, work, signals, history>>

(***************************************************************************)
(* The workers                                                             *)
(***************************************************************************)

\* The head of the loop.
Top(w) ==
    /\ pc[w] = "top"
    /\ IF terminate[w] THEN pc' = [pc EXCEPT ![w] = "exited"]
       ELSE w \notin paused /\ pc' = [pc EXCEPT ![w] = "receive"]
    /\ UNCHANGED <<remaining, master, empties, queue, sem, sum, chunk, seen,
                   terminate, signals, history>>

\* msgrcv, and the tosses of the chunk.
TakeMessage(w) ==
    /\ pc[w] = "receive"
    /\ queue # << >>
    /\ queue' = Tail(queue)
    /\ chunk' = [chunk EXCEPT ![w] = Head(queue)]
    /\ pc' = [pc EXCEPT ![w] = IF Head(queue) = Empty THEN "exited" ELSE "lock"]
    /\ UNCHANGED <<remaining, master, empties, sem, sum, seen, terminate, signals, history>>

\* Variant: the semaphore is not looked at.
SemFreeAlways == sem \in Nat

SemFree == sem > 0

Lock(w) ==
    /\ pc[w] = "lock"
    /\ SemFree
    /\ sem' = sem - 1
    /\ pc' = [pc EXCEPT ![w] = "read"]
    /\ UNCHANGED <<remaining, master, empties, queue, sum, chunk, seen, terminate,
                   signals, history>>

\* *global_count += local_in_circle is a read and a write.
ReadSum(w) ==
    /\ pc[w] = "read"
    /\ seen' = [seen EXCEPT ![w] = sum]
    /\ pc' = [pc EXCEPT ![w] = "write"]
    /\ UNCHANGED <<remaining, master, empties, queue, sem, sum, chunk, terminate,
                   signals, history>>

WriteSum(w) ==
    /\ pc[w] = "write"
    /\ sum' = seen[w] \union {chunk[w]}
    /\ pc' = [pc EXCEPT ![w] = "unlock"]
    /\ UNCHANGED <<remaining, master, empties, queue, sem, chunk, seen, terminate,
                   signals, history>>

Unlock(w) ==
    /\ pc[w] = "unlock"
    /\ sem' = sem + 1
    /\ pc' = [pc EXCEPT ![w] = "top"]
    /\ UNCHANGED <<remaining, master, empties, queue, sum, chunk, seen, terminate,
                   signals, history>>

(***************************************************************************)
(* Signals                                                                 *)
(***************************************************************************)

\* Where w may be after a signal.  The signal ends the call w sleeps in: after
\* msgrcv w looks for EINTR and begins anew; after semop it does not look, and
\* goes on without the semaphore.  Or the signal came just before w entered the
\* call: then nothing ends, and w goes to sleep in it.
AfterSignal(w) ==
    {pc[w]}
    \union {x \in {"top"} : pc[w] = "receive" /\ queue = << >>}
    \union {x \in {"read"} : pc[w] = "lock" /\ ~ SemFree}

Interrupt(w) ==
    \E place \in AfterSignal(w) :
        /\ pc' = [pc EXCEPT ![w] = place]
        /\ intruded' = IF pc[w] = "lock" /\ place = "read" THEN intruded + 1 ELSE intruded

\* A signal ends the msgsnd the master sleeps in, if it sleeps there already.  A
\* chunk is sent again, an empty message is not.
InterruptMaster ==
    /\ master' \in {master} \union {x \in {"cut"} : master = "send" /\ Full}
    /\ \/ UNCHANGED <<empties, lost>>
       \/ /\ master = "empty" /\ empties < EmptiesToSend /\ Full
          /\ empties' = empties + 1
          /\ lost' = lost + 1

PauseMaster ==
    /\ master \in {"cut", "send", "empty", "wait"}
    /\ pauses.master > 0
    /\ pauses' = [pauses EXCEPT !.master = @ - 1]
    /\ paused' = paused \union {Master}
    /\ InterruptMaster
    /\ UNCHANGED <<remaining, queue, sem, sum, work, killed, intruded>>

ResumeMaster ==
    /\ master \in {"cut", "send", "empty", "wait"}
    /\ Master \in paused
    /\ paused' = paused \ {Master}
    /\ InterruptMaster
    /\ UNCHANGED <<remaining, queue, sem, sum, work, killed, pauses, intruded>>

PauseWorker(w) ==
    /\ pc[w] # "exited"
    /\ pauses.worker > 0
    /\ pauses' = [pauses EXCEPT !.worker = @ - 1]
    /\ paused' = paused \union {w}
    /\ Interrupt(w)
    /\ UNCHANGED <<remaining, master, empties, queue, sem, sum, chunk, seen, terminate,
                   killed, lost>>

ResumeWorker(w) ==
    /\ pc[w] # "exited"
    /\ w \in paused
    /\ paused' = paused \ {w}
    /\ Interrupt(w)
    /\ UNCHANGED <<remaining, master, empties, queue, sem, sum, chunk, seen, terminate,
                   killed, pauses, lost>>

\* SIGINT: the master's handler passes it on to the workers and waits for them.
Stop ==
    /\ MayStop
    /\ master \in {"cut", "send", "empty", "wait"}
    /\ master' = "cleanup"
    /\ killed' = {w \in Workers : pc[w] # "exited"}
    /\ UNCHANGED <<remaining, empties, queue, sem, sum, work, paused, pauses, history>>

Killed(w) ==
    /\ w \in killed
    /\ killed' = killed \ {w}
    /\ IF pc[w] = "exited" THEN UNCHANGED <<work, intruded>>
       ELSE /\ terminate' = [terminate EXCEPT ![w] = TRUE]
            /\ Interrupt(w)
            /\ UNCHANGED <<chunk, seen>>
    /\ UNCHANGED <<remaining, master, empties, queue, sem, sum, paused, pauses, lost>>

CleanedUp ==
    /\ master = "cleanup"
    /\ AllExited
    /\ master' = "stopped"
    /\ UNCHANGED <<remaining, empties, queue, sem, sum, work, signals, history>>

(***************************************************************************)
(* The specification                                                       *)
(***************************************************************************)
MasterStep ==
    \/ CutChunk
    \/ SendChunk
    \/ SendEmpty
    \/ EmptiesSent
    \/ Finish
    \/ CleanedUp

WorkerStep(w) ==
    \/ Top(w)
    \/ TakeMessage(w)
    \/ Lock(w)
    \/ ReadSum(w)
    \/ WriteSum(w)
    \/ Unlock(w)
    \/ Killed(w)

Next ==
    \/ MasterStep
    \/ \E w \in Workers : WorkerStep(w)
    \/ PauseMaster
    \/ ResumeMaster
    \/ \E w \in Workers : PauseWorker(w) \/ ResumeWorker(w)
    \/ Stop

Spec == Init /\ [][Next]_vars

\* Processes that can run do, a signal that was sent arrives, and whoever pauses
\* a process lets it go on in the end.
FairSpec ==
    /\ Spec
    /\ WF_vars(MasterStep)
    /\ WF_vars(ResumeMaster)
    /\ \A w \in Workers :
        /\ WF_vars(WorkerStep(w))
        /\ WF_vars(Killed(w))
        /\ WF_vars(ResumeWorker(w))

(***************************************************************************)
(* Properties                                                              *)
(***************************************************************************)

\* The chunks that N is cut into.
Chunks == {r \in 1 .. N : \E k \in 0 .. N : r = N - k * C}

\* A worker that has taken a chunk and not added it.
HasChunk(w) == pc[w] \in {"lock", "read", "write"}

\* Where chunk r can be.
Places(r) ==
    Cardinality({x \in {"master"} : r <= remaining})
    + Cardinality({i \in DOMAIN queue : queue[i] = r})
    + Cardinality({w \in Workers : HasChunk(w) /\ chunk[w] = r})
    + Cardinality({x \in {"sum"} : r \in sum})

\* Each chunk is with the master, in the queue, with one worker or in the sum,
\* and never in two of these, as long as no semop was interrupted: none is lost
\* when a send is interrupted, when two workers add at once or when the program
\* is stopped, and none is added twice.
ChunkConserved == intruded = 0 => \A r \in Chunks : Places(r) = 1

\* What is printed is the sum of all chunks, unless a semop was interrupted.
SumExact == master = "done" /\ intruded = 0 => sum = Chunks

\* A worker that SIGINT reached between its look at terminate and msgrcv.
Stranded(w) ==
    master = "cleanup" /\ terminate[w] /\ pc[w] = "receive" /\ queue = << >>

\* There are two ways to hang: an empty message whose sending was interrupted,
\* and a SIGINT between the check of terminate and msgrcv.
EndsUnlessStranded ==
    <>(\/ master \in {"done", "stopped"}
       \/ lost > 0
       \/ \E w \in Workers : Stranded(w))
(***************************************************************************)
(* The inductive invariant: what the proofs of the properties above need   *)
(***************************************************************************)

\* Only chunks of N are ever on the way, and an empty message comes after all
\* of them have been sent.
ChunksOnly ==
    /\ remaining \in Chunks \union {0}
    /\ master = "send" => remaining # 0
    /\ master \in {"empty", "wait", "done"} => remaining = 0
    /\ \A i \in DOMAIN queue : queue[i] \in Chunks \union {Empty}
    /\ \A w \in Workers : HasChunk(w) => chunk[w] \in Chunks
    /\ \A w \in Workers : seen[w] \subseteq Chunks
    /\ sum \subseteq Chunks

\* Behind an empty message there are only empty ones, and a worker that has
\* exited by itself has seen one.
EmptiesLast ==
    /\ \A i, j \in DOMAIN queue :
          queue[i] = Empty /\ i <= j => remaining = 0 /\ queue[j] = Empty
    /\ \A w \in Workers : pc[w] = "exited" /\ ~ terminate[w] =>
          remaining = 0 /\ \A i \in DOMAIN queue : queue[i] = Empty

\* The workers are told to stop only when the program is; when the sum is
\* printed they have all exited.
StopsInOrder ==
    /\ \A w \in Workers : terminate[w] \/ w \in killed => master \in {"cleanup", "stopped"}
    /\ master = "done" => AllExited
    /\ lost <= empties

InSection(w) == pc[w] \in {"read", "write", "unlock"}

\* The semaphore admits one worker at a time to the sum.
SumGuarded ==
    intruded = 0 =>
        /\ sem \in {0, 1}
        /\ \A w \in Workers : InSection(w) => sem = 0
        /\ \A v, w \in Workers : InSection(v) /\ InSection(w) => v = w
        /\ \A w \in Workers : pc[w] = "write" => seen[w] = sum

Queued(r) == \E i \in DOMAIN queue : queue[i] = r
Taken(r)  == \E w \in Workers : HasChunk(w) /\ chunk[w] = r

\* A chunk is somewhere, and in no two places.
OnePlace ==
    intruded = 0 =>
        /\ \A r \in Chunks :
              /\ r <= remaining \/ Queued(r) \/ Taken(r) \/ r \in sum
              /\ r <= remaining => ~ Queued(r) /\ ~ Taken(r) /\ r \notin sum
              /\ Queued(r) => ~ Taken(r) /\ r \notin sum
              /\ Taken(r) => r \notin sum
        /\ \A i, j \in DOMAIN queue : queue[i] = queue[j] /\ queue[i] # Empty => i = j
        /\ \A v, w \in Workers :
              HasChunk(v) /\ HasChunk(w) /\ chunk[v] = chunk[w] => v = w
=============================================================================

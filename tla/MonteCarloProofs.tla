-------------------------- MODULE MonteCarloProofs --------------------------
(***************************************************************************)
(* The theorems about MonteCarlo, for every number of workers, tosses and  *)
(* signals, and every size of a chunk and of the queue.  IInv is           *)
(* inductive; everything else follows from it.                             *)
(***************************************************************************)
EXTENDS MonteCarlo, FiniteSetTheorems, SequenceTheorems, TLAPS

IInv ==
    /\ TypeOK
    /\ ChunksOnly
    /\ EmptiesLast
    /\ StopsInOrder
    /\ SumGuarded
    /\ OnePlace

(***************************************************************************)
(* Chunks                                                                  *)
(***************************************************************************)
LEMMA Multiples ==
    ASSUME NEW j \in Nat, NEW k \in Nat, j < k
    PROVE  j * C + C <= k * C
<1>1. C \in Nat /\ k - j - 1 \in Nat
  BY MonteCarloAssumption
<1>2. (k - j - 1) * C >= 0
  BY <1>1
<1>3. (k - j - 1) * C = k * C - j * C - C
  BY <1>1
<1>. QED
  BY <1>1, <1>2, <1>3

LEMMA ChunkRange == Chunks \subseteq 1 .. N /\ Chunks \subseteq 0 .. N
BY MonteCarloAssumption DEF Chunks

LEMMA FirstChunk == N \in Chunks \union {0}
<1>1. CASE N = 0
  BY <1>1
<1>2. CASE N # 0
  <2>1. N \in 1 .. N /\ 0 \in 0 .. N /\ N = N - 0 * C
    BY <1>2, MonteCarloAssumption
  <2>. QED
    BY <2>1 DEF Chunks
<1>. QED
  BY <1>1, <1>2

\* What remains after a chunk is cut off is a chunk again, or nothing, and no
\* chunk lies between.
LEMMA NextChunk ==
    ASSUME NEW r \in Chunks
    PROVE  /\ r - Cut(r) \in Chunks \union {0}
           /\ r - Cut(r) < r
           /\ r - Cut(r) \in 0 .. N
           /\ \A s \in Chunks : s <= r => s = r \/ s <= r - Cut(r)
<1>. USE MonteCarloAssumption
<1>1. PICK k \in 0 .. N : r = N - k * C
  BY DEF Chunks
<1>2. r \in 1 .. N /\ k \in Nat
  BY DEF Chunks
<1>3. Cut(r) \in Nat \ {0} /\ Cut(r) <= r
  BY <1>2 DEF Cut
<1>4. r - Cut(r) < r /\ r - Cut(r) \in 0 .. N
  BY <1>2, <1>3
<1>5. r - Cut(r) \in Chunks \union {0}
  <2>1. CASE r > C
    <3>1. r - Cut(r) = r - C /\ r - C \in 1 .. N
      BY <2>1, <1>2 DEF Cut
    <3>2. r - C = N - (k + 1) * C
      BY <1>1, <1>2
    <3>3. (k + 1) * C <= N
      BY <3>1, <3>2, <1>2
    <3>4. k + 1 <= (k + 1) * C
      <4>1. (k + 1) * (C - 1) >= 0
        BY <1>2
      <4>. QED
        BY <4>1, <1>2
    <3>5. k + 1 \in 0 .. N
      BY <3>3, <3>4, <1>2
    <3>. QED
      BY <3>1, <3>2, <3>5 DEF Chunks
  <2>2. CASE ~ (r > C)
    BY <2>2, <1>2 DEF Cut
  <2>. QED
    BY <2>1, <2>2
<1>6. ASSUME NEW s \in Chunks, s <= r PROVE s = r \/ s <= r - Cut(r)
  <2>1. PICK j \in 0 .. N : s = N - j * C
    BY DEF Chunks
  <2>2. s \in 1 .. N /\ j \in Nat
    BY DEF Chunks
  <2>3. CASE j = k
    BY <2>1, <2>3, <1>1
  <2>4. CASE k < j
    <3>1. k * C + C <= j * C
      BY <2>4, <2>2, <1>2, Multiples
    <3>2. s <= r - C
      BY <3>1, <2>1, <1>1, <1>2, <2>2
    <3>. QED
      BY <3>2, <1>2, <2>2 DEF Cut
  <2>5. CASE j < k
    <3>1. j * C + C <= k * C
      BY <2>5, <2>2, <1>2, Multiples
    <3>2. r <= s - C
      BY <3>1, <2>1, <1>1, <1>2, <2>2
    <3>. QED
      BY <3>2, <1>6, <1>2, <2>2
  <2>. QED
    BY <2>2, <2>3, <2>4, <2>5, <1>2
<1>. QED
  BY <1>4, <1>5, <1>6

(***************************************************************************)
(* The queue                                                               *)
(***************************************************************************)
LEMMA AppendFacts ==
    ASSUME NEW q \in Seq(0 .. N), NEW m \in 0 .. N
    PROVE  /\ Append(q, m) \in Seq(0 .. N)
           /\ Len(Append(q, m)) = Len(q) + 1
           /\ DOMAIN q = 1 .. Len(q)
           /\ DOMAIN Append(q, m) = 1 .. Len(q) + 1
           /\ Len(q) \in Nat
           /\ \A i \in 1 .. Len(q) : Append(q, m)[i] = q[i]
           /\ Append(q, m)[Len(q) + 1] = m
           /\ \A i \in DOMAIN Append(q, m) :
                \/ i \in DOMAIN q /\ i # Len(q) + 1 /\ Append(q, m)[i] = q[i]
                \/ i = Len(q) + 1 /\ Append(q, m)[i] = m
OBVIOUS

LEMMA TailFacts ==
    ASSUME NEW q \in Seq(0 .. N), q # << >>
    PROVE  /\ Tail(q) \in Seq(0 .. N)
           /\ Len(q) \in Nat \ {0}
           /\ Len(Tail(q)) = Len(q) - 1
           /\ DOMAIN q = 1 .. Len(q)
           /\ DOMAIN Tail(q) = 1 .. Len(q) - 1
           /\ \A i \in DOMAIN Tail(q) : i + 1 \in DOMAIN q /\ Tail(q)[i] = q[i + 1]
           /\ Head(q) = q[1] /\ 1 \in DOMAIN q /\ \A i \in DOMAIN q : 1 <= i
           /\ Head(q) \in 0 .. N
<1>1. Len(q) \in Nat \ {0} /\ DOMAIN q = 1 .. Len(q) /\ Head(q) = q[1]
  OBVIOUS
<1>2. Tail(q) \in Seq(0 .. N) /\ Len(Tail(q)) = Len(q) - 1
  BY <1>1
<1>3. DOMAIN Tail(q) = 1 .. Len(q) - 1
  BY <1>2
<1>4. \A i \in DOMAIN Tail(q) : i + 1 \in DOMAIN q /\ Tail(q)[i] = q[i + 1]
  BY <1>1, <1>3
<1>5. q[1] \in 0 .. N
  <2>1. 1 \in 1 .. Len(q)
    BY <1>1
  <2>. QED
    BY <2>1, ElementOfSeq
<1>. QED
  BY <1>1, <1>2, <1>3, <1>4, <1>5

\* What the steps that move messages do to the queue.
LEMMA PutFacts ==
    ASSUME queue \in Seq(0 .. N), NEW m \in 0 .. N, queue' = Append(queue, m)
    PROVE  /\ queue' \in Seq(0 .. N) /\ Len(queue') = Len(queue) + 1 /\ Len(queue) \in Nat
           /\ Len(queue) + 1 \in DOMAIN queue' /\ queue'[Len(queue) + 1] = m
           /\ \A k \in DOMAIN queue' :
                 \/ k \in DOMAIN queue /\ k # Len(queue) + 1 /\ queue'[k] = queue[k]
                 \/ k = Len(queue) + 1 /\ queue'[k] = m
           /\ \A k \in DOMAIN queue : k \in DOMAIN queue' /\ queue'[k] = queue[k]
<1>1. /\ queue' \in Seq(0 .. N) /\ Len(queue') = Len(queue) + 1 /\ Len(queue) \in Nat
      /\ DOMAIN queue = 1 .. Len(queue) /\ DOMAIN queue' = 1 .. Len(queue) + 1
      /\ \A k \in 1 .. Len(queue) : queue'[k] = queue[k]
      /\ queue'[Len(queue) + 1] = m
  BY AppendFacts
<1>. QED
  BY <1>1

LEMMA PutChunk ==
    ASSUME TypeOK, SendChunk
    PROVE  /\ queue' \in Seq(0 .. N) /\ Len(queue') = Len(queue) + 1 /\ Len(queue) \in Nat
           /\ Len(queue) + 1 \in DOMAIN queue' /\ queue'[Len(queue) + 1] = remaining
           /\ \A k \in DOMAIN queue' :
                 \/ k \in DOMAIN queue /\ k # Len(queue) + 1 /\ queue'[k] = queue[k]
                 \/ k = Len(queue) + 1 /\ queue'[k] = remaining
           /\ \A k \in DOMAIN queue : k \in DOMAIN queue' /\ queue'[k] = queue[k]
<1>1. queue \in Seq(0 .. N) /\ remaining \in 0 .. N /\ queue' = Append(queue, remaining)
  BY DEF TypeOK, SendChunk
<1>. QED
  BY <1>1, PutFacts

LEMMA PutEmpty ==
    ASSUME TypeOK, SendEmpty
    PROVE  /\ queue' \in Seq(0 .. N) /\ Len(queue') = Len(queue) + 1 /\ Len(queue) \in Nat
           /\ Len(queue) + 1 \in DOMAIN queue' /\ queue'[Len(queue) + 1] = Empty
           /\ \A k \in DOMAIN queue' :
                 \/ k \in DOMAIN queue /\ k # Len(queue) + 1 /\ queue'[k] = queue[k]
                 \/ k = Len(queue) + 1 /\ queue'[k] = Empty
           /\ \A k \in DOMAIN queue : k \in DOMAIN queue' /\ queue'[k] = queue[k]
<1>1. queue \in Seq(0 .. N) /\ queue' = Append(queue, Empty)
  BY DEF TypeOK, SendEmpty
<1>2. Empty \in 0 .. N
  BY MonteCarloAssumption DEF Empty
<1>. QED
  BY <1>1, <1>2, PutFacts

LEMMA TakeFacts ==
    ASSUME TypeOK, NEW w \in Workers, TakeMessage(w)
    PROVE  /\ queue' \in Seq(0 .. N)
           /\ Len(queue) \in Nat \ {0} /\ Len(queue') = Len(queue) - 1
           /\ DOMAIN queue = 1 .. Len(queue)
           /\ DOMAIN queue' = 1 .. Len(queue) - 1
           /\ \A i \in DOMAIN queue' :
                 i \in Nat /\ i + 1 \in DOMAIN queue /\ queue'[i] = queue[i + 1] /\ i + 1 # 1
           /\ Head(queue) = queue[1] /\ 1 \in DOMAIN queue /\ \A i \in DOMAIN queue : 1 <= i
           /\ Head(queue) \in 0 .. N
<1>1. queue \in Seq(0 .. N) /\ queue # << >> /\ queue' = Tail(queue)
  BY DEF TypeOK, TakeMessage
<1>2. /\ queue' \in Seq(0 .. N)
      /\ Len(queue) \in Nat \ {0} /\ Len(queue') = Len(queue) - 1
      /\ DOMAIN queue = 1 .. Len(queue)
      /\ DOMAIN queue' = 1 .. Len(queue) - 1
      /\ \A i \in DOMAIN queue' : i + 1 \in DOMAIN queue /\ queue'[i] = queue[i + 1]
      /\ Head(queue) = queue[1] /\ 1 \in DOMAIN queue /\ \A i \in DOMAIN queue : 1 <= i
      /\ Head(queue) \in 0 .. N
  BY <1>1, TailFacts
<1>3. \A i \in DOMAIN queue' : i \in Nat /\ i + 1 # 1
  BY <1>2
<1>. QED
  BY <1>2, <1>3

(***************************************************************************)
(* Signals                                                                 *)
(***************************************************************************)

\* A signal moves a worker only out of a call it sleeps in; one that had a
\* chunk keeps it.
LEMMA SignalEffect ==
    ASSUME TypeOK, NEW w \in Workers, Interrupt(w)
    PROVE  /\ pc' \in [Workers -> {"top", "receive", "lock", "read", "write", "unlock", "exited"}]
           /\ intruded' \in Nat
           /\ intruded' = 0 => intruded = 0
           /\ \A v \in Workers \ {w} : pc'[v] = pc[v]
           /\ pc'[w] \in {"lock", "read", "write"} <=> HasChunk(w)
           /\ pc[w] \in {"exited", "write", "read", "unlock"} => pc'[w] = pc[w]
           /\ pc'[w] \in {"exited", "write", "unlock"} => pc'[w] = pc[w]
           /\ intruded' = 0 /\ pc'[w] = "read" => pc[w] = "read"
<1>1. PICK place \in AfterSignal(w) :
         /\ pc' = [pc EXCEPT ![w] = place]
         /\ intruded' = IF pc[w] = "lock" /\ place = "read" THEN intruded + 1 ELSE intruded
  BY DEF Interrupt
<1>2. /\ place \in {"top", "receive", "lock", "read", "write", "unlock", "exited"}
      /\ \/ place = pc[w]
         \/ place = "top" /\ pc[w] = "receive"
         \/ place = "read" /\ pc[w] = "lock"
  BY DEF AfterSignal, TypeOK
<1>3. /\ intruded' \in Nat
      /\ intruded' = 0 => intruded = 0
      /\ intruded' = 0 => ~ (pc[w] = "lock" /\ place = "read")
  BY <1>1 DEF TypeOK
<1>4. /\ pc' \in [Workers -> {"top", "receive", "lock", "read", "write", "unlock", "exited"}]
      /\ pc'[w] = place /\ \A v \in Workers \ {w} : pc'[v] = pc[v]
  BY <1>1, <1>2 DEF TypeOK
<1>. QED
  BY <1>2, <1>3, <1>4 DEF HasChunk

(***************************************************************************)
(* Types                                                                   *)
(***************************************************************************)
LEMMA TypeStep == TypeOK /\ ChunksOnly /\ StopsInOrder /\ [Next]_vars => TypeOK'
<1>. SUFFICES ASSUME TypeOK, ChunksOnly, StopsInOrder, [Next]_vars PROVE TypeOK'
  OBVIOUS
<1>. USE MonteCarloAssumption
<1>0. Cardinality(Workers) \in Nat
  BY FS_CardinalityType
<1>1. CASE CutChunk \/ EmptiesSent \/ Finish \/ CleanedUp
  BY <1>1 DEF CutChunk, EmptiesSent, Finish, CleanedUp, TypeOK, work, signals, history
<1>2. CASE SendChunk
  <2>1. remaining \in Chunks /\ remaining \in 0 .. N
    BY <1>2 DEF SendChunk, ChunksOnly, TypeOK
  <2>2. remaining - Cut(remaining) \in 0 .. N
    BY <2>1, NextChunk
  <2>3. queue' \in Seq(0 .. N) /\ Len(queue') <= QueueCap
    BY <1>2, PutChunk DEF SendChunk, Full, TypeOK
  <2>. QED
    BY <1>2, <2>2, <2>3 DEF SendChunk, TypeOK, work, signals, history
<1>3. CASE SendEmpty
  <2>1. queue' \in Seq(0 .. N) /\ Len(queue') <= QueueCap
    BY <1>3, PutEmpty DEF SendEmpty, Full, TypeOK
  <2>2. empties' \in 0 .. Cardinality(Workers)
    BY <1>0, <1>3 DEF SendEmpty, EmptiesToSend, TypeOK
  <2>. QED
    BY <1>3, <2>1, <2>2 DEF SendEmpty, TypeOK, work, signals, history
<1>4. ASSUME NEW w \in Workers, TakeMessage(w) PROVE TypeOK'
  <2>1. queue' \in Seq(0 .. N) /\ Len(queue') <= QueueCap /\ Head(queue) \in 0 .. N
    BY <1>4, TakeFacts DEF TypeOK
  <2>. QED
    BY <1>4, <2>1 DEF TakeMessage, TypeOK, signals, history
<1>5. ASSUME NEW w \in Workers, Top(w) \/ Lock(w) \/ ReadSum(w) \/ Unlock(w) PROVE TypeOK'
  <2>1. CASE Top(w)
    BY <2>1 DEF Top, TypeOK, signals, history
  <2>2. CASE Lock(w)
    BY <2>2 DEF Lock, SemFree, TypeOK, signals, history
  <2>3. CASE ReadSum(w)
    BY <2>3 DEF ReadSum, TypeOK, signals, history
  <2>4. CASE Unlock(w)
    BY <2>4 DEF Unlock, TypeOK, signals, history
  <2>. QED
    BY <1>5, <2>1, <2>2, <2>3, <2>4
<1>6. ASSUME NEW w \in Workers, WriteSum(w) PROVE TypeOK'
  <2>1. chunk[w] \in 1 .. N
    BY <1>6, ChunkRange DEF WriteSum, ChunksOnly, HasChunk
  <2>. QED
    BY <1>6, <2>1 DEF WriteSum, TypeOK, signals, history
<1>7. ASSUME NEW w \in Workers, Killed(w) PROVE TypeOK'
  <2>1. pc' \in [Workers -> {"top", "receive", "lock", "read", "write", "unlock", "exited"}]
        /\ intruded' \in Nat
    BY <1>7, SignalEffect DEF Killed, TypeOK, work
  <2>. QED
    BY <1>7, <2>1 DEF Killed, TypeOK, work
<1>8. ASSUME NEW w \in Workers, PauseWorker(w) \/ ResumeWorker(w) PROVE TypeOK'
  <2>1. pc' \in [Workers -> {"top", "receive", "lock", "read", "write", "unlock", "exited"}]
        /\ intruded' \in Nat
    BY <1>8, SignalEffect DEF PauseWorker, ResumeWorker
  <2>2. pauses' \in [master : 0 .. MasterPauses, worker : 0 .. WorkerPauses]
    BY <1>8 DEF PauseWorker, ResumeWorker, TypeOK
  <2>. QED
    BY <1>8, <2>1, <2>2 DEF PauseWorker, ResumeWorker, TypeOK
<1>9. CASE PauseMaster \/ ResumeMaster
  <2>1. /\ master' \in {"cut", "send", "empty", "wait", "done", "cleanup", "stopped"}
        /\ empties' \in 0 .. Cardinality(Workers)
        /\ lost' \in 0 .. Cardinality(Workers)
    <3>1. InterruptMaster
      BY <1>9 DEF PauseMaster, ResumeMaster
    <3>2. master' \in {"cut", "send", "empty", "wait", "done", "cleanup", "stopped"}
      BY <3>1 DEF InterruptMaster, TypeOK
    <3>3. /\ empties' \in 0 .. Cardinality(Workers)
          /\ lost' \in 0 .. Cardinality(Workers)
      BY <1>0, <3>1 DEF InterruptMaster, EmptiesToSend, StopsInOrder, TypeOK
    <3>. QED
      BY <3>2, <3>3
  <2>2. pauses' \in [master : 0 .. MasterPauses, worker : 0 .. WorkerPauses]
    BY <1>9 DEF PauseMaster, ResumeMaster, TypeOK
  <2>. QED
    BY <1>9, <2>1, <2>2 DEF PauseMaster, ResumeMaster, TypeOK, work
<1>10. CASE Stop
  BY <1>10 DEF Stop, TypeOK, work, history
<1>11. CASE UNCHANGED vars
  BY <1>11 DEF vars, work, signals, history, TypeOK
<1>. QED
  BY <1>1, <1>2, <1>3, <1>4, <1>5, <1>6, <1>7, <1>8, <1>9, <1>10, <1>11
     DEF Next, MasterStep, WorkerStep

(***************************************************************************)
(* The chunks on their way                                                 *)
(***************************************************************************)

\* A worker that moves without touching the queue or the chunks.
Moves(w) == Top(w) \/ Lock(w) \/ ReadSum(w) \/ Unlock(w)

\* A worker that gets a signal.
Signalled(w) == Killed(w) \/ PauseWorker(w) \/ ResumeWorker(w)

\* A step of the master, or a signal to it, that leaves the queue alone.
MasterQuiet ==
    CutChunk \/ EmptiesSent \/ Finish \/ CleanedUp \/ PauseMaster \/ ResumeMaster \/ Stop

LEMMA MoveFacts ==
    ASSUME TypeOK, NEW w \in Workers, Moves(w)
    PROVE  /\ UNCHANGED <<remaining, master, queue, sum, chunk, terminate, killed, empties, lost, intruded>>
           /\ \A v \in Workers : HasChunk(v)' <=> HasChunk(v)
           /\ \A v \in Workers \ {w} : pc'[v] = pc[v]
           /\ pc[w] # "exited"
           /\ pc'[w] = "exited" => terminate[w]
<1>1. CASE Top(w)
  BY <1>1 DEF Top, HasChunk, signals, history, TypeOK
<1>2. CASE Lock(w)
  BY <1>2 DEF Lock, HasChunk, signals, history, TypeOK
<1>3. CASE ReadSum(w)
  BY <1>3 DEF ReadSum, HasChunk, signals, history, TypeOK
<1>4. CASE Unlock(w)
  BY <1>4 DEF Unlock, HasChunk, signals, history, TypeOK
<1>. QED
  BY <1>1, <1>2, <1>3, <1>4 DEF Moves

LEMMA SignalFacts ==
    ASSUME TypeOK, NEW w \in Workers, Signalled(w)
    PROVE  /\ UNCHANGED <<remaining, master, empties, queue, sem, sum, chunk, seen, lost>>
           /\ killed' \subseteq killed
           /\ \A v \in Workers : HasChunk(v)' <=> HasChunk(v)
           /\ \A v \in Workers : pc'[v] = "exited" <=> pc[v] = "exited"
           /\ \A v \in Workers : terminate[v] => terminate'[v]
           /\ \A v \in Workers : terminate'[v] => terminate[v] \/ v \in killed
           /\ intruded' \in Nat
           /\ intruded' = 0 => intruded = 0
           /\ intruded' = 0 => \A v \in Workers :
                (InSection(v)' <=> InSection(v)) /\ (pc'[v] = "write" => pc[v] = "write")
<1>1. CASE Interrupt(w)
  <2>1. /\ \A v \in Workers : HasChunk(v)' <=> HasChunk(v)
        /\ \A v \in Workers : pc'[v] = "exited" <=> pc[v] = "exited"
        /\ intruded' \in Nat
        /\ intruded' = 0 => intruded = 0
    BY <1>1, SignalEffect DEF HasChunk
  <2>2. intruded' = 0 => \A v \in Workers :
                (InSection(v)' <=> InSection(v)) /\ (pc'[v] = "write" => pc[v] = "write")
    BY <1>1, SignalEffect DEF InSection
  <2>3. /\ UNCHANGED <<remaining, master, empties, queue, sem, sum, chunk, seen, lost>>
        /\ killed' \subseteq killed
    BY DEF Signalled, Killed, PauseWorker, ResumeWorker, work
  <2>4. /\ \A v \in Workers : terminate[v] => terminate'[v]
        /\ \A v \in Workers : terminate'[v] => terminate[v] \/ v \in killed
    BY DEF Signalled, Killed, PauseWorker, ResumeWorker, work, TypeOK
  <2>. QED
    BY <2>1, <2>2, <2>3, <2>4
<1>2. CASE Killed(w) /\ UNCHANGED <<work, intruded>>
  BY <1>2 DEF Killed, work, HasChunk, InSection, TypeOK
<1>. QED
  BY <1>1, <1>2 DEF Signalled, Killed, PauseWorker, ResumeWorker

LEMMA MasterFacts ==
    ASSUME TypeOK, MasterQuiet
    PROVE  UNCHANGED <<remaining, queue, sem, sum, pc, chunk, seen, terminate, intruded>>
BY DEF MasterQuiet, CutChunk, EmptiesSent, Finish, CleanedUp, PauseMaster, ResumeMaster, Stop,
       InterruptMaster, work, signals, history

\* Every step is one of seven kinds.
LEMMA Kinds ==
    ASSUME [Next]_vars
    PROVE  \/ MasterQuiet
           \/ SendChunk
           \/ SendEmpty
           \/ \E w \in Workers : TakeMessage(w) \/ WriteSum(w) \/ Moves(w) \/ Signalled(w)
           \/ UNCHANGED vars
BY DEF Next, MasterStep, WorkerStep, MasterQuiet, Moves, Signalled

LEMMA ChunksOnlyStep == TypeOK /\ ChunksOnly /\ [Next]_vars => ChunksOnly'
<1>. SUFFICES ASSUME TypeOK, ChunksOnly, [Next]_vars PROVE ChunksOnly'
  OBVIOUS
<1>. USE MonteCarloAssumption
<1>1. CASE MasterQuiet
  <2>1. /\ master' = "send" => remaining # 0
        /\ master' \in {"empty", "wait", "done"} => remaining = 0
    BY <1>1 DEF MasterQuiet, CutChunk, MoreToSend, EmptiesSent, Finish, CleanedUp, PauseMaster,
                ResumeMaster, Stop, InterruptMaster, TypeOK, ChunksOnly
  <2>. QED
    BY <1>1, <2>1, MasterFacts DEF ChunksOnly, HasChunk
<1>2. CASE SendChunk
  <2>1. remaining \in Chunks /\ remaining \in 0 .. N
    BY <1>2 DEF SendChunk, ChunksOnly, TypeOK
  <2>2. remaining' \in Chunks \union {0}
    BY <1>2, <2>1, NextChunk DEF SendChunk
  <2>3. \A i \in DOMAIN queue' : queue'[i] \in Chunks \union {Empty}
    BY <1>2, <2>1, PutChunk DEF ChunksOnly
  <2>. QED
    BY <1>2, <2>2, <2>3 DEF SendChunk, ChunksOnly, HasChunk, work
<1>3. CASE SendEmpty
  <2>1. \A i \in DOMAIN queue' : queue'[i] \in Chunks \union {Empty}
    BY <1>3, PutEmpty DEF Empty, ChunksOnly
  <2>. QED
    BY <1>3, <2>1 DEF SendEmpty, ChunksOnly, HasChunk, work
<1>4. ASSUME NEW w \in Workers, TakeMessage(w) PROVE ChunksOnly'
  <2>1. \A i \in DOMAIN queue' : queue'[i] \in Chunks \union {Empty}
    BY <1>4, TakeFacts DEF ChunksOnly
  <2>2. Head(queue) \in Chunks \union {Empty}
    BY <1>4, TakeFacts DEF ChunksOnly
  <2>3. \A v \in Workers : HasChunk(v)' => chunk'[v] \in Chunks
    BY <1>4, <2>2 DEF TakeMessage, ChunksOnly, HasChunk, TypeOK
  <2>. QED
    BY <1>4, <2>1, <2>3 DEF TakeMessage, ChunksOnly
<1>5. ASSUME NEW w \in Workers, WriteSum(w) PROVE ChunksOnly'
  <2>1. chunk[w] \in Chunks /\ seen[w] \subseteq Chunks
    BY <1>5 DEF WriteSum, ChunksOnly, HasChunk
  <2>2. \A v \in Workers : HasChunk(v)' => HasChunk(v)
    BY <1>5 DEF WriteSum, HasChunk, TypeOK
  <2>. QED
    BY <1>5, <2>1, <2>2 DEF WriteSum, ChunksOnly
<1>6. ASSUME NEW w \in Workers, Moves(w) PROVE ChunksOnly'
  <2>1. \A v \in Workers : seen'[v] \subseteq Chunks
    BY <1>6 DEF Moves, Top, Lock, ReadSum, Unlock, ChunksOnly, TypeOK
  <2>. QED
    BY <1>6, <2>1, MoveFacts DEF ChunksOnly
<1>7. ASSUME NEW w \in Workers, Signalled(w) PROVE ChunksOnly'
  BY <1>7, SignalFacts DEF ChunksOnly
<1>8. CASE UNCHANGED vars
  BY <1>8 DEF vars, work, ChunksOnly, HasChunk
<1>. QED
  BY <1>1, <1>2, <1>3, <1>4, <1>5, <1>6, <1>7, <1>8, Kinds

LEMMA EmptiesLastStep == TypeOK /\ ChunksOnly /\ EmptiesLast /\ [Next]_vars => EmptiesLast'
<1>. SUFFICES ASSUME TypeOK, ChunksOnly, EmptiesLast, [Next]_vars PROVE EmptiesLast'
  OBVIOUS
<1>. USE MonteCarloAssumption
<1>1. CASE MasterQuiet
  BY <1>1, MasterFacts DEF EmptiesLast
<1>2. CASE SendChunk
  <2>1. remaining # 0 /\ remaining \in 0 .. N
    BY <1>2 DEF SendChunk, ChunksOnly, TypeOK
  <2>2. \A i \in DOMAIN queue : queue[i] # Empty
    BY <2>1, AppendFacts DEF EmptiesLast, TypeOK
  <2>3. \A i \in DOMAIN queue' : queue'[i] # Empty
    BY <1>2, <2>1, <2>2, PutChunk DEF Empty
  <2>4. \A v \in Workers : pc'[v] = "exited" => terminate'[v]
    BY <1>2, <2>1 DEF SendChunk, EmptiesLast, work
  <2>. QED
    BY <2>3, <2>4 DEF EmptiesLast
<1>3. CASE SendEmpty
  <2>1. remaining = 0 /\ remaining' = 0
    BY <1>3 DEF SendEmpty, ChunksOnly
  <2>2. ASSUME NEW i \in DOMAIN queue', NEW j \in DOMAIN queue', queue'[i] = Empty, i <= j
        PROVE  queue'[j] = Empty
    <3>1. /\ j = Len(queue) + 1 => queue'[j] = Empty
          /\ j # Len(queue) + 1 => i \in DOMAIN queue /\ j \in DOMAIN queue
                                  /\ queue'[i] = queue[i] /\ queue'[j] = queue[j]
      BY <1>3, <2>2, PutEmpty
    <3>. QED
      BY <2>2, <3>1 DEF EmptiesLast
  <2>3. (\A i \in DOMAIN queue : queue[i] = Empty) => \A i \in DOMAIN queue' : queue'[i] = Empty
    BY <1>3, PutEmpty DEF Empty
  <2>. QED
    BY <1>3, <2>1, <2>2, <2>3 DEF SendEmpty, EmptiesLast, work
<1>4. ASSUME NEW w \in Workers, TakeMessage(w) PROVE EmptiesLast'
  <2>1. ASSUME NEW i \in DOMAIN queue', NEW j \in DOMAIN queue', queue'[i] = Empty, i <= j
        PROVE  remaining' = 0 /\ queue'[j] = Empty
    <3>1. /\ i + 1 \in DOMAIN queue /\ queue'[i] = queue[i + 1]
          /\ j + 1 \in DOMAIN queue /\ queue'[j] = queue[j + 1]
      BY <1>4, TakeFacts
    <3>2. i + 1 <= j + 1
      BY <2>1, <1>4, TakeFacts
    <3>3. remaining = 0 /\ queue[j + 1] = Empty
      BY <2>1, <3>1, <3>2 DEF EmptiesLast
    <3>. QED
      BY <1>4, <3>1, <3>3 DEF TakeMessage
  <2>2. (\A i \in DOMAIN queue : queue[i] = Empty) => \A i \in DOMAIN queue' : queue'[i] = Empty
    BY <1>4, TakeFacts
  <2>3. Head(queue) = Empty => remaining = 0 /\ \A i \in DOMAIN queue : queue[i] = Empty
    BY <1>4, TakeFacts DEF EmptiesLast
  <2>4. \A v \in Workers : pc'[v] = "exited" => pc[v] = "exited" \/ Head(queue) = Empty
    BY <1>4 DEF TakeMessage, TypeOK
  <2>. QED
    BY <1>4, <2>1, <2>2, <2>3, <2>4 DEF TakeMessage, EmptiesLast
<1>5. ASSUME NEW w \in Workers, WriteSum(w) PROVE EmptiesLast'
  <2>1. \A v \in Workers : pc'[v] = "exited" => pc[v] = "exited"
    BY <1>5 DEF WriteSum, TypeOK
  <2>. QED
    BY <1>5, <2>1 DEF WriteSum, EmptiesLast
<1>6. ASSUME NEW w \in Workers, Moves(w) PROVE EmptiesLast'
  BY <1>6, MoveFacts DEF EmptiesLast
<1>7. ASSUME NEW w \in Workers, Signalled(w) PROVE EmptiesLast'
  BY <1>7, SignalFacts DEF EmptiesLast
<1>8. CASE UNCHANGED vars
  BY <1>8 DEF vars, work, EmptiesLast
<1>. QED
  BY <1>1, <1>2, <1>3, <1>4, <1>5, <1>6, <1>7, <1>8, Kinds

LEMMA StopsInOrderStep == TypeOK /\ StopsInOrder /\ [Next]_vars => StopsInOrder'
<1>. SUFFICES ASSUME TypeOK, StopsInOrder, [Next]_vars PROVE StopsInOrder'
  OBVIOUS
<1>. USE MonteCarloAssumption
<1>0. Cardinality(Workers) \in Nat
  BY FS_CardinalityType
<1>1. CASE MasterQuiet
  <2>1. UNCHANGED <<pc, terminate>>
    BY <1>1, MasterFacts
  <2>2. \A w \in Workers : terminate'[w] \/ w \in killed' => master' \in {"cleanup", "stopped"}
    BY <1>1, <2>1 DEF MasterQuiet, CutChunk, EmptiesSent, Finish, CleanedUp, PauseMaster,
       ResumeMaster, Stop, InterruptMaster, signals, StopsInOrder
  <2>3. master' = "done" => AllExited'
    BY <1>1, <2>1 DEF MasterQuiet, CutChunk, EmptiesSent, Finish, CleanedUp, PauseMaster,
       ResumeMaster, Stop, InterruptMaster, AllExited, StopsInOrder
  <2>4. lost' <= empties'
    BY <1>0, <1>1 DEF MasterQuiet, CutChunk, EmptiesSent, Finish, CleanedUp, PauseMaster,
       ResumeMaster, Stop, InterruptMaster, history, TypeOK, StopsInOrder
  <2>. QED
    BY <2>2, <2>3, <2>4 DEF StopsInOrder
<1>2. CASE SendChunk
  BY <1>2 DEF SendChunk, StopsInOrder, AllExited, work, signals, history
<1>3. CASE SendEmpty
  BY <1>0, <1>3 DEF SendEmpty, StopsInOrder, AllExited, work, signals, history, TypeOK
<1>4. ASSUME NEW w \in Workers, TakeMessage(w) \/ WriteSum(w) PROVE StopsInOrder'
  <2>1. pc[w] # "exited" /\ UNCHANGED <<master, empties, lost, terminate, killed>>
    BY <1>4 DEF TakeMessage, WriteSum, signals, history
  <2>. QED
    BY <2>1 DEF StopsInOrder, AllExited
<1>5. ASSUME NEW w \in Workers, Moves(w) PROVE StopsInOrder'
  BY <1>5, MoveFacts DEF StopsInOrder, AllExited
<1>6. ASSUME NEW w \in Workers, Signalled(w) PROVE StopsInOrder'
  BY <1>6, SignalFacts DEF StopsInOrder, AllExited
<1>7. CASE UNCHANGED vars
  BY <1>7 DEF vars, work, signals, history, StopsInOrder, AllExited
<1>. QED
  BY <1>1, <1>2, <1>3, <1>4, <1>5, <1>6, <1>7, Kinds

(***************************************************************************)
(* The semaphore                                                           *)
(***************************************************************************)
LEMMA SumGuardedStep == TypeOK /\ SumGuarded /\ [Next]_vars => SumGuarded'
<1>. SUFFICES ASSUME TypeOK, SumGuarded, [Next]_vars, intruded' = 0 PROVE SumGuarded'
  BY DEF SumGuarded
<1>1. CASE MasterQuiet
  BY <1>1, MasterFacts DEF SumGuarded, InSection
<1>2. CASE SendChunk \/ SendEmpty
  BY <1>2 DEF SendChunk, SendEmpty, SumGuarded, InSection, work, history
<1>3. ASSUME NEW w \in Workers, TakeMessage(w) PROVE SumGuarded'
  <2>1. \A v \in Workers : (InSection(v)' <=> InSection(v)) /\ (pc'[v] = "write" => pc[v] = "write")
    BY <1>3 DEF TakeMessage, InSection, TypeOK
  <2>. QED
    BY <1>3, <2>1 DEF TakeMessage, SumGuarded, history
<1>4. ASSUME NEW w \in Workers, Top(w) PROVE SumGuarded'
  <2>1. \A v \in Workers : (InSection(v)' <=> InSection(v)) /\ (pc'[v] = "write" => pc[v] = "write")
    BY <1>4 DEF Top, InSection, TypeOK
  <2>. QED
    BY <1>4, <2>1 DEF Top, SumGuarded, history
<1>5. ASSUME NEW w \in Workers, Lock(w) PROVE SumGuarded'
  <2>1. intruded = 0 /\ sem = 1 /\ sem' = 0
    BY <1>5 DEF Lock, SemFree, SumGuarded, history
  <2>2. \A v \in Workers : ~ InSection(v)
    BY <2>1 DEF SumGuarded
  <2>3. \A v \in Workers : (InSection(v)' => v = w) /\ pc'[v] # "write"
    BY <1>5, <2>2 DEF Lock, InSection, TypeOK
  <2>. QED
    BY <2>1, <2>3 DEF SumGuarded
<1>6. ASSUME NEW w \in Workers, ReadSum(w) PROVE SumGuarded'
  <2>1. intruded = 0 /\ InSection(w)
    BY <1>6 DEF ReadSum, InSection, history
  <2>2. \A v \in Workers : InSection(v) => v = w
    BY <2>1 DEF SumGuarded
  <2>3. \A v \in Workers : (InSection(v)' => v = w) /\ (pc'[v] = "write" => v = w)
    BY <1>6, <2>2 DEF ReadSum, InSection, TypeOK
  <2>4. seen'[w] = sum' /\ sem' = 0
    BY <1>6, <2>1 DEF ReadSum, SumGuarded, TypeOK
  <2>. QED
    BY <2>3, <2>4 DEF SumGuarded
<1>7. ASSUME NEW w \in Workers, WriteSum(w) PROVE SumGuarded'
  <2>1. intruded = 0 /\ InSection(w)
    BY <1>7 DEF WriteSum, InSection, history
  <2>2. \A v \in Workers : InSection(v) => v = w
    BY <2>1 DEF SumGuarded
  <2>3. \A v \in Workers : (InSection(v)' => v = w) /\ pc'[v] # "write"
    BY <1>7, <2>2 DEF WriteSum, InSection, TypeOK
  <2>4. sem' = 0
    BY <1>7, <2>1 DEF WriteSum, SumGuarded
  <2>. QED
    BY <2>3, <2>4 DEF SumGuarded
<1>8. ASSUME NEW w \in Workers, Unlock(w) PROVE SumGuarded'
  <2>1. intruded = 0 /\ InSection(w)
    BY <1>8 DEF Unlock, InSection, history
  <2>2. \A v \in Workers : InSection(v) => v = w
    BY <2>1 DEF SumGuarded
  <2>3. \A v \in Workers : ~ InSection(v)' /\ pc'[v] # "write"
    BY <1>8, <2>2 DEF Unlock, InSection, TypeOK
  <2>4. sem' = 1
    BY <1>8, <2>1 DEF Unlock, SumGuarded
  <2>. QED
    BY <2>3, <2>4 DEF SumGuarded
<1>9. ASSUME NEW w \in Workers, Signalled(w) PROVE SumGuarded'
  BY <1>9, SignalFacts DEF SumGuarded
<1>10. CASE UNCHANGED vars
  BY <1>10 DEF vars, work, history, SumGuarded, InSection
<1>. QED
  BY <1>1, <1>2, <1>3, <1>4, <1>5, <1>6, <1>7, <1>8, <1>9, <1>10, Kinds DEF Moves

(***************************************************************************)
(* No chunk is lost, none is added twice                                   *)
(***************************************************************************)

\* As long as chunks stay where they are, nothing changes.
LEMMA NothingMoves ==
    ASSUME OnePlace, UNCHANGED <<remaining, queue, sum, chunk>>,
           intruded' = 0 => intruded = 0,
           \A v \in Workers : HasChunk(v)' <=> HasChunk(v)
    PROVE  OnePlace'
<1>1. \A r \in Chunks : (Queued(r)' <=> Queued(r)) /\ (Taken(r)' <=> Taken(r))
  BY DEF Queued, Taken
<1>. QED
  BY <1>1 DEF OnePlace

LEMMA OnePlaceStep ==
    TypeOK /\ ChunksOnly /\ SumGuarded /\ OnePlace /\ [Next]_vars => OnePlace'
<1>. SUFFICES ASSUME TypeOK, ChunksOnly, SumGuarded, OnePlace, [Next]_vars, intruded' = 0
              PROVE  OnePlace'
  BY DEF OnePlace
<1>. USE MonteCarloAssumption
<1>0. 0 \notin Chunks
  BY ChunkRange
<1>1. CASE MasterQuiet
  BY <1>1, MasterFacts, NothingMoves DEF HasChunk
<1>2. CASE SendChunk
  <2>1. remaining \in Chunks /\ intruded = 0 /\ remaining \in 0 .. N
    BY <1>2 DEF SendChunk, ChunksOnly, history, TypeOK
  <2>2. /\ remaining' < remaining /\ remaining' \in 0 .. N
        /\ \A s \in Chunks : s <= remaining => s = remaining \/ s <= remaining'
    BY <1>2, <2>1, NextChunk DEF SendChunk
  <2>3. ASSUME NEW r \in Chunks PROVE Queued(r)' <=> Queued(r) \/ r = remaining
    <3>1. /\ \A i \in DOMAIN queue' : (i \in DOMAIN queue /\ queue'[i] = queue[i])
                                       \/ queue'[i] = remaining
          /\ \A i \in DOMAIN queue : i \in DOMAIN queue' /\ queue'[i] = queue[i]
      BY <1>2, PutChunk
    <3>2. Len(queue) + 1 \in DOMAIN queue' /\ queue'[Len(queue) + 1] = remaining
      BY <1>2, PutChunk
    <3>. QED
      BY <3>1, <3>2 DEF Queued
  <2>4. \A r \in Chunks : Taken(r)' <=> Taken(r)
    BY <1>2 DEF SendChunk, Taken, HasChunk, work
  <2>5. ~ Queued(remaining) /\ ~ Taken(remaining) /\ remaining \notin sum
    BY <2>1 DEF OnePlace
  <2>6. \A r \in Chunks :
            /\ r <= remaining' \/ Queued(r)' \/ Taken(r)' \/ r \in sum'
            /\ r <= remaining' => ~ Queued(r)' /\ ~ Taken(r)' /\ r \notin sum'
            /\ Queued(r)' => ~ Taken(r)' /\ r \notin sum'
            /\ Taken(r)' => r \notin sum'
    <3>1. \A r \in Chunks : r \in 1 .. N
      BY ChunkRange
    <3>. QED
      BY <1>2, <2>1, <2>2, <2>3, <2>4, <2>5, <3>1 DEF SendChunk, OnePlace
  <2>7. ASSUME NEW i \in DOMAIN queue', NEW j \in DOMAIN queue',
               queue'[i] = queue'[j], queue'[i] # Empty
        PROVE  i = j
    <3>1. \A k \in DOMAIN queue' : \/ k \in DOMAIN queue /\ queue'[k] = queue[k]
                                   \/ k = Len(queue) + 1 /\ queue'[k] = remaining
      BY <1>2, PutChunk
    <3>2. \A k \in DOMAIN queue : queue[k] # remaining
      BY <2>5 DEF Queued
    <3>. QED
      BY <2>1, <2>7, <3>1, <3>2 DEF OnePlace
  <2>8. \A v, w \in Workers : HasChunk(v)' /\ HasChunk(w)' /\ chunk'[v] = chunk'[w] => v = w
    BY <1>2, <2>1 DEF SendChunk, OnePlace, HasChunk, work
  <2>. QED
    BY <2>6, <2>7, <2>8 DEF OnePlace
<1>3. CASE SendEmpty
  <2>1. intruded = 0 /\ UNCHANGED <<remaining, sum, pc, chunk>>
    BY <1>3 DEF SendEmpty, history, work
  <2>2. \A r \in Chunks : (Queued(r)' <=> Queued(r)) /\ (Taken(r)' <=> Taken(r))
    <3>1. ASSUME NEW r \in Chunks PROVE Queued(r)' <=> Queued(r)
      <4>1. /\ \A i \in DOMAIN queue' : (i \in DOMAIN queue /\ queue'[i] = queue[i])
                                         \/ queue'[i] = Empty
            /\ \A i \in DOMAIN queue : i \in DOMAIN queue' /\ queue'[i] = queue[i]
            /\ r # Empty
        BY <1>0, <1>3, PutEmpty DEF Empty
      <4>. QED
        BY <4>1 DEF Queued
    <3>. QED
      BY <2>1, <3>1 DEF Taken, HasChunk
  <2>3. ASSUME NEW i \in DOMAIN queue', NEW j \in DOMAIN queue',
               queue'[i] = queue'[j], queue'[i] # Empty
        PROVE  i = j
    <3>1. \A k \in DOMAIN queue' : \/ k \in DOMAIN queue /\ queue'[k] = queue[k]
                                   \/ queue'[k] = Empty
      BY <1>3, PutEmpty DEF Empty
    <3>. QED
      BY <2>1, <2>3, <3>1 DEF OnePlace
  <2>. QED
    BY <2>1, <2>2, <2>3 DEF OnePlace, HasChunk
<1>4. ASSUME NEW w \in Workers, TakeMessage(w) PROVE OnePlace'
  <2>0. PICK m : m = Head(queue)
    OBVIOUS
  <2>1. /\ intruded = 0 /\ UNCHANGED <<remaining, sum>>
        /\ ~ HasChunk(w)
        /\ m \in Chunks \union {Empty}
        /\ m = queue[1] /\ 1 \in DOMAIN queue
    BY <1>4, <2>0, TakeFacts DEF TakeMessage, history, HasChunk, ChunksOnly
  <2>2. ASSUME NEW i \in DOMAIN queue', NEW j \in DOMAIN queue',
               queue'[i] = queue'[j], queue'[i] # Empty
        PROVE  i = j
    <3>1. /\ i + 1 \in DOMAIN queue /\ queue'[i] = queue[i + 1]
          /\ j + 1 \in DOMAIN queue /\ queue'[j] = queue[j + 1]
      BY <1>4, TakeFacts
    <3>3. i \in Nat /\ j \in Nat
      BY <1>4, TakeFacts
    <3>2. i + 1 = j + 1
      BY <2>1, <2>2, <3>1 DEF OnePlace
    <3>. QED
      BY <3>2, <3>3
  <2>3. /\ \A k \in DOMAIN queue : k = 1 \/ \E i \in DOMAIN queue' : queue'[i] = queue[k]
        /\ \A i \in DOMAIN queue' : \E k \in DOMAIN queue : k # 1 /\ queue'[i] = queue[k]
    <3>1. ASSUME NEW k \in DOMAIN queue, k # 1
          PROVE  \E i \in DOMAIN queue' : queue'[i] = queue[k]
      <4>0. /\ DOMAIN queue = 1 .. Len(queue) /\ Len(queue) \in Nat
            /\ DOMAIN queue' = 1 .. Len(queue) - 1
        BY <1>4, TakeFacts
      <4>1. k - 1 \in DOMAIN queue' /\ (k - 1) + 1 = k
        BY <3>1, <4>0
      <4>2. queue'[k - 1] = queue[k]
        <5>1. \A i \in DOMAIN queue' : queue'[i] = queue[i + 1]
          BY <1>4, TakeFacts
        <5>. QED
          BY <4>1, <5>1
      <4>. QED
        BY <4>1, <4>2
    <3>2. ASSUME NEW i \in DOMAIN queue'
          PROVE  \E k \in DOMAIN queue : k # 1 /\ queue'[i] = queue[k]
      <4>1. i + 1 \in DOMAIN queue /\ queue'[i] = queue[i + 1] /\ i + 1 # 1
        BY <1>4, TakeFacts
      <4>. QED
        BY <4>1
    <3>. QED
      BY <3>1, <3>2
  <2>4. CASE m = Empty
    <3>1. \A v \in Workers : (HasChunk(v)' <=> HasChunk(v)) /\ (HasChunk(v) => chunk'[v] = chunk[v])
      BY <1>4, <2>0, <2>1, <2>4 DEF TakeMessage, HasChunk, TypeOK
    <3>2. \A r \in Chunks : Taken(r)' <=> Taken(r)
      BY <3>1 DEF Taken
    <3>3. ASSUME NEW r \in Chunks PROVE Queued(r)' <=> Queued(r)
      <4>1. queue[1] # r
        BY <1>0, <2>1, <2>4 DEF Empty
      <4>2. ASSUME NEW k \in DOMAIN queue, queue[k] = r PROVE Queued(r)'
        BY <2>3, <4>1, <4>2 DEF Queued
      <4>3. ASSUME NEW i \in DOMAIN queue', queue'[i] = r PROVE Queued(r)
        BY <2>3, <4>3 DEF Queued
      <4>. QED
        BY <4>2, <4>3 DEF Queued
    <3>. QED
      BY <2>1, <2>2, <3>1, <3>2, <3>3 DEF OnePlace
  <2>5. CASE m # Empty
    <3>1. m \in Chunks
      BY <2>1, <2>5
    <3>2. \A v \in Workers : (HasChunk(v)' <=> HasChunk(v) \/ v = w)
                             /\ chunk'[v] = IF v = w THEN m ELSE chunk[v]
      BY <1>4, <2>0, <2>5 DEF TakeMessage, HasChunk, TypeOK
    <3>3. \A r \in Chunks : Taken(r)' <=> Taken(r) \/ r = m
      BY <2>1, <3>2 DEF Taken
    <3>4. Queued(m) /\ ~ Queued(m)'
      <4>1. Queued(m)
        BY <2>1 DEF Queued
      <4>2. \A k \in DOMAIN queue : queue[k] = queue[1] => k = 1
        BY <2>1, <2>5 DEF OnePlace
      <4>3. \A i \in DOMAIN queue' : queue'[i] # queue[1]
        BY <2>3, <4>2
      <4>. QED
        BY <2>1, <4>1, <4>3 DEF Queued
    <3>5. \A r \in Chunks : r # m => (Queued(r)' <=> Queued(r))
      BY <2>1, <2>3 DEF Queued
    <3>6. ~ (m <= remaining) /\ ~ Taken(m) /\ m \notin sum
      BY <2>1, <3>1, <3>4 DEF OnePlace
    <3>7. \A r \in Chunks :
            /\ r <= remaining' \/ Queued(r)' \/ Taken(r)' \/ r \in sum'
            /\ r <= remaining' => ~ Queued(r)' /\ ~ Taken(r)' /\ r \notin sum'
            /\ Queued(r)' => ~ Taken(r)' /\ r \notin sum'
            /\ Taken(r)' => r \notin sum'
      <4>1. ASSUME NEW r \in Chunks, r # m
            PROVE  /\ r <= remaining' \/ Queued(r)' \/ Taken(r)' \/ r \in sum'
                   /\ r <= remaining' => ~ Queued(r)' /\ ~ Taken(r)' /\ r \notin sum'
                   /\ Queued(r)' => ~ Taken(r)' /\ r \notin sum'
                   /\ Taken(r)' => r \notin sum'
        <5>1. (Queued(r)' <=> Queued(r)) /\ (Taken(r)' <=> Taken(r))
          BY <3>3, <3>5, <4>1
        <5>. QED
          BY <2>1, <5>1 DEF OnePlace
      <4>2. /\ Taken(m)' /\ ~ Queued(m)' /\ ~ (m <= remaining') /\ m \notin sum'
        BY <2>1, <3>1, <3>3, <3>4, <3>6
      <4>. QED
        BY <4>1, <4>2
    <3>8. \A u, v \in Workers : HasChunk(u)' /\ HasChunk(v)' /\ chunk'[u] = chunk'[v] => u = v
      BY <2>1, <3>2, <3>6 DEF OnePlace, Taken
    <3>. QED
      BY <2>2, <3>7, <3>8 DEF OnePlace
  <2>. QED
    BY <2>4, <2>5
<1>5. ASSUME NEW w \in Workers, WriteSum(w) PROVE OnePlace'
  <2>1. intruded = 0 /\ UNCHANGED <<remaining, queue, chunk>> /\ HasChunk(w)
    BY <1>5 DEF WriteSum, HasChunk, history
  <2>2. chunk[w] \in Chunks /\ sum' = sum \union {chunk[w]}
    BY <1>5, <2>1 DEF WriteSum, ChunksOnly, SumGuarded
  <2>3. \A v \in Workers : HasChunk(v)' <=> HasChunk(v) /\ v # w
    BY <1>5 DEF WriteSum, HasChunk, TypeOK
  <2>4. \A r \in Chunks : Queued(r)' <=> Queued(r)
    BY <2>1 DEF Queued
  <2>5. Taken(chunk[w])
    BY <2>1 DEF Taken
  <2>6. \A r \in Chunks : Taken(r)' <=> Taken(r) /\ r # chunk[w]
    BY <2>1, <2>3 DEF Taken, OnePlace
  <2>7. \A r \in Chunks :
            /\ r <= remaining' \/ Queued(r)' \/ Taken(r)' \/ r \in sum'
            /\ r <= remaining' => ~ Queued(r)' /\ ~ Taken(r)' /\ r \notin sum'
            /\ Queued(r)' => ~ Taken(r)' /\ r \notin sum'
            /\ Taken(r)' => r \notin sum'
    BY <2>1, <2>2, <2>4, <2>5, <2>6 DEF OnePlace
  <2>. QED
    BY <2>1, <2>3, <2>7 DEF OnePlace
<1>6. ASSUME NEW w \in Workers, Moves(w) PROVE OnePlace'
  BY <1>6, MoveFacts, NothingMoves
<1>7. ASSUME NEW w \in Workers, Signalled(w) PROVE OnePlace'
  BY <1>7, SignalFacts, NothingMoves
<1>8. CASE UNCHANGED vars
  BY <1>8, NothingMoves DEF vars, work, history, HasChunk
<1>. QED
  BY <1>1, <1>2, <1>3, <1>4, <1>5, <1>6, <1>7, <1>8, Kinds

(***************************************************************************)
(* The inductive invariant                                                 *)
(***************************************************************************)
LEMMA InvInit == Init => IInv
<1>. SUFFICES ASSUME Init PROVE IInv
  OBVIOUS
<1>. USE MonteCarloAssumption
<1>1. TypeOK
  <2>1. Cardinality(Workers) \in Nat
    BY FS_CardinalityType
  <2>. QED
    BY <2>1 DEF Init, TypeOK, Empty
<1>2. ChunksOnly
  BY FirstChunk DEF Init, ChunksOnly, HasChunk
<1>3. EmptiesLast /\ StopsInOrder /\ SumGuarded
  BY DEF Init, EmptiesLast, StopsInOrder, SumGuarded, InSection
<1>4. OnePlace
  <2>1. \A r \in Chunks : r <= N
    BY ChunkRange
  <2>. QED
    BY <2>1 DEF Init, OnePlace, Queued, Taken, HasChunk
<1>. QED
  BY <1>1, <1>2, <1>3, <1>4 DEF IInv

LEMMA InvStep == IInv /\ [Next]_vars => IInv'
BY TypeStep, ChunksOnlyStep, EmptiesLastStep, StopsInOrderStep, SumGuardedStep, OnePlaceStep
   DEF IInv

LEMMA Invariant == Spec => []IInv
<1>. QED
  BY InvInit, InvStep, PTL DEF Spec

(***************************************************************************)
(* The theorems                                                            *)
(***************************************************************************)

\* Every variable keeps its type: the counters of monte_master.c stay within
\* the number of workers, and the queue within its capacity.
THEOREM MonteTypeCorrect == Spec => []TypeOK
BY Invariant, PTL DEF IInv

\* If no semop was interrupted, the semaphore keeps two workers from adding to
\* the sum at once, and nobody writes back an old sum.
THEOREM MonteSumGuarded == Spec => []SumGuarded
BY Invariant, PTL DEF IInv

LEMMA AtMostOne ==
    ASSUME NEW S, \A x, y \in S : x = y
    PROVE  IsFiniteSet(S) /\ Cardinality(S) = IF S = {} THEN 0 ELSE 1
<1>1. CASE S = {}
  BY <1>1, FS_EmptySet
<1>2. CASE S # {}
  <2>1. PICK x : S = {x}
    BY <1>2
  <2>. QED
    BY <2>1, FS_Singleton
<1>. QED
  BY <1>1, <1>2

\* monte_master.c hands out each chunk once: in every reachable state it is
\* still to be sent, in the queue, with one worker, or in the sum.
THEOREM MonteChunkConserved == Spec => []ChunkConserved
<1>1. IInv => ChunkConserved
  <2>. SUFFICES ASSUME IInv, intruded = 0, NEW r \in Chunks PROVE Places(r) = 1
    BY DEF ChunkConserved
  <2>. DEFINE A == {x \in {"master"} : r <= remaining}
              B == {i \in DOMAIN queue : queue[i] = r}
              D == {w \in Workers : HasChunk(w) /\ chunk[w] = r}
              E == {x \in {"sum"} : r \in sum}
  <2>1. r # Empty
    BY ChunkRange DEF Empty
  <2>2. /\ \A x, y \in A : x = y
        /\ \A x, y \in B : x = y
        /\ \A x, y \in D : x = y
        /\ \A x, y \in E : x = y
    BY <2>1 DEF IInv, OnePlace
  <2>3. /\ Cardinality(A) = IF A = {} THEN 0 ELSE 1
        /\ Cardinality(B) = IF B = {} THEN 0 ELSE 1
        /\ Cardinality(D) = IF D = {} THEN 0 ELSE 1
        /\ Cardinality(E) = IF E = {} THEN 0 ELSE 1
    <3>. HIDE DEF A, B, D, E
    <3>. QED
      BY <2>2, AtMostOne
  <2>4. /\ A = {} <=> ~ (r <= remaining)
        /\ B = {} <=> ~ Queued(r)
        /\ D = {} <=> ~ Taken(r)
        /\ E = {} <=> r \notin sum
    BY DEF Queued, Taken
  <2>5. /\ r <= remaining \/ Queued(r) \/ Taken(r) \/ r \in sum
        /\ r <= remaining => ~ Queued(r) /\ ~ Taken(r) /\ r \notin sum
        /\ Queued(r) => ~ Taken(r) /\ r \notin sum
        /\ Taken(r) => r \notin sum
    BY DEF IInv, OnePlace
  <2>6. Places(r) = Cardinality(A) + Cardinality(B) + Cardinality(D) + Cardinality(E)
    BY DEF Places
  <2>. HIDE DEF A, B, D, E
  <2>. QED
    BY <2>3, <2>4, <2>5, <2>6
<1>. QED
  BY <1>1, Invariant, PTL

\* What monte_master.c prints counts every toss once.
THEOREM MonteSumExact == Spec => []SumExact
<1>1. IInv => SumExact
  <2>. SUFFICES ASSUME IInv, master = "done", intruded = 0 PROVE sum = Chunks
    BY DEF SumExact
  <2>1. remaining = 0 /\ sum \subseteq Chunks
    BY DEF IInv, ChunksOnly
  <2>2. \A w \in Workers : pc[w] = "exited" /\ ~ terminate[w]
    BY DEF IInv, StopsInOrder, AllExited
  <2>3. \A i \in DOMAIN queue : queue[i] = Empty
    BY <2>2, MonteCarloAssumption DEF IInv, EmptiesLast
  <2>4. ASSUME NEW r \in Chunks PROVE r \in sum
    <3>1. r \in 1 .. N
      BY ChunkRange
    <3>2. ~ (r <= remaining) /\ ~ Queued(r) /\ ~ Taken(r)
      BY <2>1, <2>2, <2>3, <3>1 DEF Queued, Taken, HasChunk, Empty
    <3>. QED
      BY <3>2 DEF IInv, OnePlace
  <2>. QED
    BY <2>1, <2>4
<1>. QED
  BY <1>1, Invariant, PTL
=============================================================================

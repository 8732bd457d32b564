------------------------- MODULE LockManagerProofs -------------------------
(***************************************************************************)
(* Theorems about LockManager, for every number of workers, transactions,  *)
(* relations and buckets and for every program of commands.                *)
(***************************************************************************)
EXTENDS LockManager, FiniteSetTheorems, TLAPS

(***************************************************************************)
(* Lemmas about the operators                                              *)
(***************************************************************************)

\* Every transaction id falls into the array (get_txn_state).
LEMMA SlotType == \A t \in Nat : Slot(t) \in Slots
BY ConstantsAssumption DEF Slot, Slots

\* A command of a program locks buckets of the table, and in one of the two modes.
LEMMA PlanType ==
    ASSUME NEW t \in Tids, NEW c \in Program[t]
    PROVE  /\ c \in Command
           /\ LockPlan(c) \in SUBSET Blocks
           /\ LockMode(c) \in {READ_LOCK, WRITE_LOCK}
<1>1. c \in Command
  BY ConstantsAssumption
<1>2. \A i \in DOMAIN c.args : c.args[i] \in Names
  BY <1>1 DEF Command
<1>3. LockPlan(c) \in SUBSET Blocks
  BY <1>2, ConstantsAssumption DEF LockPlan
<1> QED
  BY <1>1, <1>3 DEF LockMode

\* A command names the relation it creates.
LEMMA CreatedType ==
    ASSUME NEW c \in Command
    PROVE  Created(c) \in Names
<1>1. \A n \in Nat : \A f \in [1 .. n -> Names] : f \in Seq(Names) /\ Len(f) = n
  OBVIOUS
<1>2. PICK n \in {1, 2, 3} : c.args \in [1 .. n -> Names]
  BY DEF Command
<1>3. Len(c.args) = n
  BY <1>1, <1>2
<1> QED
  BY <1>2, <1>3 DEF Created

\* The bookkeeping operators stay within the type of an entry.
LEMMA TxnType ==
    ASSUME TypeOK, NEW t \in Tids
    PROVE  GetTxn(t) \in TxnState
<1>1. txnStates[Slot(t)] \in TxnState
  BY SlotType, ConstantsAssumption DEF TypeOK
<1>2. FreshTxn(t) \in TxnState
  BY DEF FreshTxn, TxnState
<1> QED
  BY <1>1, <1>2 DEF GetTxn

\* Asking for a block leaves a well-typed entry, and gives up blocks only.
LEMMA EntryType ==
    ASSUME TypeOK, NEW t \in Tids, NEW b \in Blocks
    PROVE  /\ Dropped(t, b) \in SUBSET Blocks
           /\ Asking(t, b) \in TxnState
<1>1. GetTxn(t) \in TxnState
  BY TxnType
<1>2. Dropped(t, b) \in SUBSET Blocks
  BY <1>1 DEF Dropped, TxnState
<1>3. [GetTxn(t) EXCEPT !.held = {}, !.maxBlock = -1] \in TxnState
  BY <1>1 DEF TxnState
<1> QED
  BY <1>1, <1>2, <1>3 DEF Asking

\* Recording a grant leaves a well-typed entry.
LEMMA RecordedType ==
    ASSUME NEW tx \in TxnState, NEW b \in Blocks
    PROVE  Recorded(tx, b) \in TxnState
BY DEF Recorded, TxnState

\* What a release leaves of the lock table is a lock table.
LEMMA WithoutType ==
    ASSUME TypeOK, NEW t \in Tids, NEW R \in SUBSET Blocks
    PROVE  /\ HoldersWithout(t, R) \in [Blocks -> SUBSET Tids]
           /\ ModeWithout(t, R) \in [Blocks -> {READ_LOCK, WRITE_LOCK, FREE_LOCK}]
BY DEF TypeOK, HoldersWithout, ModeWithout

\* So is what a grant makes of an entry of it.
LEMMA WithType ==
    ASSUME NEW t \in Tids, NEW h \in SUBSET Tids,
           NEW m \in {READ_LOCK, WRITE_LOCK, FREE_LOCK},
           NEW want \in {READ_LOCK, WRITE_LOCK}
    PROVE  /\ HoldersWith(h, t) \in SUBSET Tids
           /\ ModeWith(m, want) \in {READ_LOCK, WRITE_LOCK}
BY DEF HoldersWith, ModeWith, READ_LOCK, WRITE_LOCK, FREE_LOCK

\* A worker that executes a command has a transaction and a command of it.
LEMMA RequestType ==
    ASSUME TypeOK, RequestsWellFormed, NEW w \in Workers, pc[w] \in Executing
    PROVE  /\ tid[w] \in Tids
           /\ cmd[w] \in Program[tid[w]]
           /\ cmd[w] \in Command
           /\ LockPlan(cmd[w]) \in SUBSET Blocks
           /\ Want(w) \in {READ_LOCK, WRITE_LOCK}
<1>1. tid[w] \in Tids /\ cmd[w] \in Program[tid[w]]
  BY DEF RequestsWellFormed, Executing
<1> QED
  BY <1>1, PlanType DEF Want

\* A blocked worker's queue is not empty, and its head is a blocked worker.
LEMMA QueueHead ==
    ASSUME TypeOK, QueuesMatchWorkers, NEW b \in Blocks, waiting[b] # << >>
    PROVE  /\ Head(waiting[b]) \in Workers
           /\ Head(waiting[b]) \in Range(waiting[b])
           /\ pc[Head(waiting[b])] = "blocked"
           /\ IsNext(Head(waiting[b]), b)
<1>1. waiting[b] \in Seq(Workers) /\ 1 \in DOMAIN waiting[b]
  BY DEF TypeOK
<1>2. Head(waiting[b]) = waiting[b][1]
  BY <1>1
<1>3. Head(waiting[b]) \in Workers /\ Head(waiting[b]) \in Range(waiting[b])
  BY <1>1, <1>2 DEF Range
<1> QED
  BY <1>3 DEF QueuesMatchWorkers

(***************************************************************************)
(* Types, requests and queues                                              *)
(***************************************************************************)
Shape == TypeOK /\ RequestsWellFormed /\ OneWorkerPerClient /\ QueuesMatchWorkers

\* The server starts with every register empty and no queue.
LEMMA ShapeInit == Init => Shape
<1> SUFFICES ASSUME Init PROVE Shape
  OBVIOUS
<1>1. TypeOK
  BY ConstantsAssumption DEF Init, TypeOK, TxnState, ProgramCounter, Slots, Blocks
<1>2. RequestsWellFormed
  BY DEF Init, RequestsWellFormed, Executing
<1>3. OneWorkerPerClient
  BY DEF Init, OneWorkerPerClient
<1>4. QueuesMatchWorkers
  BY DEF Init, QueuesMatchWorkers, IsInjective, Range
<1> QED
  BY <1>1, <1>2, <1>3, <1>4 DEF Shape

\* Every action keeps every variable in its range.
LEMMA TypeStep == Shape /\ [Next]_vars => TypeOK'
<1> SUFFICES ASSUME Shape, [Next]_vars PROVE TypeOK'
  OBVIOUS
<1> USE DEF Shape
<1>1. ASSUME NEW w \in Workers, NEW t \in Tids, NEW c \in Program[t], Receive(w, t, c)
      PROVE  TypeOK'
  BY <1>1, PlanType DEF Receive, TypeOK, ProgramCounter
<1>2. ASSUME NEW w \in Workers, NEW b \in Blocks, LockAlreadyHeld(w, b)
      PROVE  TypeOK'
  BY <1>2 DEF LockAlreadyHeld, TypeOK
<1>3. ASSUME NEW w \in Workers, NEW b \in Blocks, LockGrantNow(w, b)
      PROVE  TypeOK'
  <2> DEFINE t == tid[w]
             R == Dropped(t, b)
  <2>1. t \in Tids /\ Want(w) \in {READ_LOCK, WRITE_LOCK}
    BY <1>3, RequestType DEF LockGrantNow, Executing
  <2>2. R \in SUBSET Blocks /\ Recorded(Asking(t, b), b) \in TxnState
    BY <2>1, EntryType, RecordedType
  <2>3. /\ HoldersWithout(t, R) \in [Blocks -> SUBSET Tids]
        /\ ModeWithout(t, R) \in [Blocks -> {READ_LOCK, WRITE_LOCK, FREE_LOCK}]
    BY <2>1, <2>2, WithoutType
  <2>4. /\ HoldersWith(HoldersWithout(t, R)[b], t) \in SUBSET Tids
        /\ ModeWith(ModeWithout(t, R)[b], Want(w)) \in {READ_LOCK, WRITE_LOCK}
    BY <2>1, <2>3, WithType
  <2>5. holders' \in [Blocks -> SUBSET Tids]
    BY <1>3, <2>3, <2>4 DEF LockGrantNow
  <2>6. mode' \in [Blocks -> {READ_LOCK, WRITE_LOCK, FREE_LOCK}]
    BY <1>3, <2>3, <2>4 DEF LockGrantNow
  <2>7. txnStates' \in [Slots -> TxnState]
    BY <1>3, <2>2 DEF LockGrantNow, TypeOK
  <2> QED
    BY <1>3, <2>5, <2>6, <2>7 DEF LockGrantNow, TypeOK
<1>4. ASSUME NEW w \in Workers, NEW b \in Blocks, LockEnqueue(w, b)
      PROVE  TypeOK'
  <2> DEFINE t == tid[w]
             R == Dropped(t, b)
  <2>1. t \in Tids
    BY <1>4, RequestType DEF LockEnqueue, Executing
  <2>2. R \in SUBSET Blocks /\ Asking(t, b) \in TxnState
    BY <2>1, EntryType
  <2>3. holders' \in [Blocks -> SUBSET Tids]
    BY <1>4, <2>1, <2>2, WithoutType DEF LockEnqueue
  <2>4. mode' \in [Blocks -> {READ_LOCK, WRITE_LOCK, FREE_LOCK}]
    BY <1>4, <2>1, <2>2, WithoutType DEF LockEnqueue
  <2>5. txnStates' \in [Slots -> TxnState]
    BY <1>4, <2>2 DEF LockEnqueue, TypeOK
  <2>6. waiting' \in [Blocks -> Seq(Workers)]
    BY <1>4 DEF LockEnqueue, TypeOK
  <2> QED
    BY <1>4, <2>3, <2>4, <2>5, <2>6 DEF LockEnqueue, TypeOK, ProgramCounter
<1>5. ASSUME NEW w \in Workers, NEW b \in Blocks, GrantAfterWait(w, b)
      PROVE  TypeOK'
  <2> DEFINE t == tid[w]
  <2>1. t \in Tids /\ Want(w) \in {READ_LOCK, WRITE_LOCK}
    BY <1>5, RequestType DEF GrantAfterWait, Executing
  <2>2. /\ HoldersWith(holders[b], t) \in SUBSET Tids
        /\ ModeWith(mode[b], Want(w)) \in {READ_LOCK, WRITE_LOCK}
    BY <2>1, WithType DEF TypeOK
  <2>3. Slot(t) \in Slots
    BY <2>1, SlotType, ConstantsAssumption
  <2>4. txnStates' \in [Slots -> TxnState]
    BY <1>5, <2>3, RecordedType DEF GrantAfterWait, TypeOK
  <2>5. waiting[b] # << >>
    BY <1>5 DEF GrantAfterWait, QueuesMatchWorkers, Range
  <2>6. waiting' \in [Blocks -> Seq(Workers)]
    BY <1>5, <2>5 DEF GrantAfterWait, TypeOK
  <2>7. holders' \in [Blocks -> SUBSET Tids]
    BY <1>5, <2>2 DEF GrantAfterWait, TypeOK
  <2>8. mode' \in [Blocks -> {READ_LOCK, WRITE_LOCK, FREE_LOCK}]
    BY <1>5, <2>2 DEF GrantAfterWait, TypeOK
  <2> QED
    BY <1>5, <2>4, <2>6, <2>7, <2>8 DEF GrantAfterWait, TypeOK, ProgramCounter
<1>6. ASSUME NEW w \in Workers, NEW b \in Blocks, SleepAgain(w, b)
      PROVE  TypeOK'
  BY <1>6 DEF SleepAgain, TypeOK
<1>7. ASSUME NEW w \in Workers, SpuriousWakeup(w)
      PROVE  TypeOK'
  BY <1>7 DEF SpuriousWakeup, TypeOK
<1>8. ASSUME NEW w \in Workers, LocksAcquired(w)
      PROVE  TypeOK'
  <2>1. tid[w] \in Tids
    BY <1>8, RequestType DEF LocksAcquired, Executing
  <2>2. GetTxn(tid[w]) \in TxnState
    BY <2>1, TxnType
  <2>3. [GetTxn(tid[w]) EXCEPT !.created = TRUE] \in TxnState
    BY <2>2 DEF TxnState
  <2>4. txnStates' \in [Slots -> TxnState]
    BY <1>8, <2>3 DEF LocksAcquired, TypeOK
  <2> QED
    BY <1>8, <2>4 DEF LocksAcquired, TypeOK, ProgramCounter
<1>9. ASSUME NEW w \in Workers, RequiredReady(w)
      PROVE  TypeOK'
  BY <1>9 DEF RequiredReady, TypeOK, ProgramCounter
<1>10. ASSUME NEW w \in Workers, RequireTimeout(w)
       PROVE  TypeOK'
  BY <1>10 DEF RequireTimeout, Finish, TypeOK, ProgramCounter
<1>11. ASSUME NEW w \in Workers, Execute(w)
       PROVE  TypeOK'
  <2>1. cmd[w] \in Command
    BY <1>11, RequestType DEF Execute, Executing
  <2>2. Created(cmd[w]) \in Names
    BY <2>1, CreatedType
  <2>3. catalog' \in SUBSET Names
    BY <1>11, <2>2 DEF Execute, Outcomes, TypeOK
  <2> QED
    BY <1>11, <2>3 DEF Execute, Finish, TypeOK, ProgramCounter
<1>12. ASSUME NEW w \in Workers, NEW t \in Tids, ReceiveCommit(w, t)
       PROVE  TypeOK'
  BY <1>12 DEF ReceiveCommit, TypeOK, ProgramCounter
<1>13. ASSUME NEW w \in Workers, TakeCreated(w)
       PROVE  TypeOK'
  <2>1. tid[w] \in Tids
    BY <1>13 DEF TakeCreated, RequestsWellFormed
  <2>2. GetTxn(tid[w]) \in TxnState
    BY <2>1, TxnType
  <2>3. [GetTxn(tid[w]) EXCEPT !.created = FALSE] \in TxnState
    BY <2>2 DEF TxnState
  <2> QED
    BY <1>13, <2>3 DEF TakeCreated, TypeOK, ProgramCounter
<1>14. ASSUME NEW w \in Workers, ReleaseAll(w)
       PROVE  TypeOK'
  <2> DEFINE t == tid[w]
             R == GetTxn(t).held
  <2>1. t \in Tids
    BY <1>14 DEF ReleaseAll, RequestsWellFormed
  <2>2. GetTxn(t) \in TxnState
    BY <2>1, TxnType
  <2>3. /\ R \in SUBSET Blocks
        /\ [GetTxn(t) EXCEPT !.held = {}, !.maxBlock = -1] \in TxnState
    BY <2>2 DEF TxnState
  <2>4. holders' \in [Blocks -> SUBSET Tids]
    BY <1>14, <2>1, <2>3, WithoutType DEF ReleaseAll
  <2>5. mode' \in [Blocks -> {READ_LOCK, WRITE_LOCK, FREE_LOCK}]
    BY <1>14, <2>1, <2>3, WithoutType DEF ReleaseAll
  <2>6. txnStates' \in [Slots -> TxnState]
    BY <1>14, <2>3 DEF ReleaseAll, TypeOK
  <2> QED
    BY <1>14, <2>4, <2>5, <2>6 DEF ReleaseAll, TypeOK, ProgramCounter
<1>15. ASSUME NEW w \in Workers, Announce(w)
       PROVE  TypeOK'
  BY <1>15 DEF Announce, Finish, TypeOK, ProgramCounter
<1>16. CASE UNCHANGED vars
  BY <1>16 DEF vars, TypeOK
<1> QED
  BY <1>1, <1>2, <1>3, <1>4, <1>5, <1>6, <1>7, <1>8, <1>9, <1>10, <1>11, <1>12,
     <1>13, <1>14, <1>15, <1>16 DEF Next, WorkerStep, Commit

\* Every action leaves the workers with requests of the programs.
LEMMA RequestsStep == Shape /\ [Next]_vars => RequestsWellFormed'
<1> SUFFICES ASSUME Shape, [Next]_vars PROVE RequestsWellFormed'
  OBVIOUS
<1> USE DEF Shape, IsNext
<1>0. /\ pc \in [Workers -> ProgramCounter]
      /\ tid \in [Workers -> Tids \union {NoTid}]
      /\ cmd \in [Workers -> Command \union {NoCommand}]
      /\ todo \in [Workers -> SUBSET Blocks]
  BY DEF TypeOK
<1>1. ASSUME NEW w \in Workers, NEW t \in Tids, NEW c \in Program[t], Receive(w, t, c)
      PROVE  RequestsWellFormed'
  BY <1>0, <1>1, PlanType DEF Receive, RequestsWellFormed, Executing
<1>2. ASSUME NEW w \in Workers, NEW b \in Blocks, LockAlreadyHeld(w, b)
      PROVE  RequestsWellFormed'
  BY <1>0, <1>2 DEF LockAlreadyHeld, RequestsWellFormed, Executing
<1>3. ASSUME NEW w \in Workers, NEW b \in Blocks, LockGrantNow(w, b)
      PROVE  RequestsWellFormed'
  BY <1>0, <1>3 DEF LockGrantNow, RequestsWellFormed, Executing
<1>4. ASSUME NEW w \in Workers, NEW b \in Blocks, LockEnqueue(w, b)
      PROVE  RequestsWellFormed'
  BY <1>0, <1>4 DEF LockEnqueue, RequestsWellFormed, Executing
<1>5. ASSUME NEW w \in Workers, NEW b \in Blocks, GrantAfterWait(w, b)
      PROVE  RequestsWellFormed'
  BY <1>0, <1>5 DEF GrantAfterWait, RequestsWellFormed, Executing
<1>6. ASSUME NEW w \in Workers, NEW b \in Blocks, SleepAgain(w, b)
      PROVE  RequestsWellFormed'
  BY <1>0, <1>6 DEF SleepAgain, RequestsWellFormed, Executing
<1>7. ASSUME NEW w \in Workers, SpuriousWakeup(w)
      PROVE  RequestsWellFormed'
  BY <1>0, <1>7 DEF SpuriousWakeup, RequestsWellFormed, Executing
<1>8. ASSUME NEW w \in Workers, LocksAcquired(w)
      PROVE  RequestsWellFormed'
  BY <1>0, <1>8 DEF LocksAcquired, RequestsWellFormed, Executing
<1>9. ASSUME NEW w \in Workers, RequiredReady(w)
      PROVE  RequestsWellFormed'
  BY <1>0, <1>9 DEF RequiredReady, RequestsWellFormed, Executing
<1>10. ASSUME NEW w \in Workers, RequireTimeout(w)
       PROVE  RequestsWellFormed'
  BY <1>0, <1>10 DEF RequireTimeout, Finish, RequestsWellFormed, Executing
<1>11. ASSUME NEW w \in Workers, Execute(w)
       PROVE  RequestsWellFormed'
  BY <1>0, <1>11 DEF Execute, Finish, RequestsWellFormed, Executing
<1>12. ASSUME NEW w \in Workers, NEW t \in Tids, ReceiveCommit(w, t)
       PROVE  RequestsWellFormed'
  BY <1>0, <1>12 DEF ReceiveCommit, RequestsWellFormed, Executing
<1>13. ASSUME NEW w \in Workers, TakeCreated(w)
       PROVE  RequestsWellFormed'
  BY <1>0, <1>13 DEF TakeCreated, RequestsWellFormed, Executing
<1>14. ASSUME NEW w \in Workers, ReleaseAll(w)
       PROVE  RequestsWellFormed'
  BY <1>0, <1>14 DEF ReleaseAll, RequestsWellFormed, Executing
<1>15. ASSUME NEW w \in Workers, Announce(w)
       PROVE  RequestsWellFormed'
  BY <1>0, <1>15 DEF Announce, Finish, RequestsWellFormed, Executing
<1>16. CASE UNCHANGED vars
  BY <1>0, <1>16 DEF vars, RequestsWellFormed, Executing
<1> QED
  BY <1>1, <1>2, <1>3, <1>4, <1>5, <1>6, <1>7, <1>8, <1>9, <1>10, <1>11, <1>12,
     <1>13, <1>14, <1>15, <1>16 DEF Next, WorkerStep, Commit

\* A request is received only from a client no other worker serves.
LEMMA ClientStep == Shape /\ [Next]_vars => OneWorkerPerClient'
<1> SUFFICES ASSUME Shape, [Next]_vars PROVE OneWorkerPerClient'
  OBVIOUS
<1> USE DEF Shape, TypeOK
<1>1. ASSUME NEW w \in Workers, NEW t \in Tids, NEW c \in Program[t], Receive(w, t, c)
      PROVE  OneWorkerPerClient'
  BY <1>1 DEF Receive, OwnerIsQuiet, OneWorkerPerClient
<1>2. ASSUME NEW w \in Workers, NEW b \in Blocks, LockAlreadyHeld(w, b)
      PROVE  OneWorkerPerClient'
  BY <1>2 DEF LockAlreadyHeld, OneWorkerPerClient
<1>3. ASSUME NEW w \in Workers, NEW b \in Blocks, LockGrantNow(w, b)
      PROVE  OneWorkerPerClient'
  BY <1>3 DEF LockGrantNow, OneWorkerPerClient
<1>4. ASSUME NEW w \in Workers, NEW b \in Blocks, LockEnqueue(w, b)
      PROVE  OneWorkerPerClient'
  BY <1>4 DEF LockEnqueue, OneWorkerPerClient
<1>5. ASSUME NEW w \in Workers, NEW b \in Blocks, GrantAfterWait(w, b)
      PROVE  OneWorkerPerClient'
  BY <1>5 DEF GrantAfterWait, OneWorkerPerClient
<1>6. ASSUME NEW w \in Workers, NEW b \in Blocks, SleepAgain(w, b)
      PROVE  OneWorkerPerClient'
  BY <1>6 DEF SleepAgain, OneWorkerPerClient
<1>7. ASSUME NEW w \in Workers, SpuriousWakeup(w)
      PROVE  OneWorkerPerClient'
  BY <1>7 DEF SpuriousWakeup, OneWorkerPerClient
<1>8. ASSUME NEW w \in Workers, LocksAcquired(w)
      PROVE  OneWorkerPerClient'
  BY <1>8 DEF LocksAcquired, OneWorkerPerClient
<1>9. ASSUME NEW w \in Workers, RequiredReady(w)
      PROVE  OneWorkerPerClient'
  BY <1>9 DEF RequiredReady, OneWorkerPerClient
<1>10. ASSUME NEW w \in Workers, RequireTimeout(w)
       PROVE  OneWorkerPerClient'
  BY <1>10 DEF RequireTimeout, Finish, OneWorkerPerClient
<1>11. ASSUME NEW w \in Workers, Execute(w)
       PROVE  OneWorkerPerClient'
  BY <1>11 DEF Execute, Finish, OneWorkerPerClient
<1>12. ASSUME NEW w \in Workers, NEW t \in Tids, ReceiveCommit(w, t)
       PROVE  OneWorkerPerClient'
  BY <1>12 DEF ReceiveCommit, OwnerIsQuiet, OneWorkerPerClient
<1>13. ASSUME NEW w \in Workers, TakeCreated(w)
       PROVE  OneWorkerPerClient'
  BY <1>13 DEF TakeCreated, OneWorkerPerClient
<1>14. ASSUME NEW w \in Workers, ReleaseAll(w)
       PROVE  OneWorkerPerClient'
  BY <1>14 DEF ReleaseAll, OneWorkerPerClient
<1>15. ASSUME NEW w \in Workers, Announce(w)
       PROVE  OneWorkerPerClient'
  BY <1>15 DEF Announce, Finish, OneWorkerPerClient
<1>16. CASE UNCHANGED vars
  BY <1>16 DEF vars, OneWorkerPerClient
<1> QED
  BY <1>1, <1>2, <1>3, <1>4, <1>5, <1>6, <1>7, <1>8, <1>9, <1>10, <1>11, <1>12,
     <1>13, <1>14, <1>15, <1>16 DEF Next, WorkerStep, Commit

\* Appending a newcomer to a queue without repetitions.
LEMMA AppendRange ==
    ASSUME NEW S, NEW s \in Seq(S), NEW w \in S
    PROVE  /\ Range(Append(s, w)) = Range(s) \union {w}
           /\ IsInjective(s) /\ w \notin Range(s) => IsInjective(Append(s, w))
<1>1. /\ DOMAIN Append(s, w) = 1 .. (Len(s) + 1)
      /\ \A i \in 1 .. Len(s) : Append(s, w)[i] = s[i]
      /\ Append(s, w)[Len(s) + 1] = w
  OBVIOUS
<1>2. DOMAIN s = 1 .. Len(s) /\ Len(s) \in Nat
  OBVIOUS
<1>3. DOMAIN Append(s, w) = DOMAIN s \union {Len(s) + 1}
  BY <1>1, <1>2
<1>4. Range(Append(s, w)) = Range(s) \union {w}
  BY <1>1, <1>2, <1>3 DEF Range
<1>5. ASSUME IsInjective(s), w \notin Range(s)
      PROVE  IsInjective(Append(s, w))
  BY <1>1, <1>2, <1>3, <1>5 DEF Range, IsInjective
<1> QED
  BY <1>4, <1>5

\* Taking the head off a queue without repetitions.
LEMMA TailRange ==
    ASSUME NEW S, NEW s \in Seq(S), s # << >>, IsInjective(s)
    PROVE  /\ Range(Tail(s)) = Range(s) \ {Head(s)}
           /\ IsInjective(Tail(s))
<1>1. Len(s) \in Nat \ {0} /\ DOMAIN s = 1 .. Len(s) /\ Head(s) = s[1]
  OBVIOUS
<1>2. /\ DOMAIN Tail(s) = 1 .. (Len(s) - 1)
      /\ \A i \in 1 .. (Len(s) - 1) : Tail(s)[i] = s[i + 1]
  BY <1>1
<1>3. IsInjective(Tail(s))
  BY <1>1, <1>2 DEF IsInjective
<1>4. \A i \in DOMAIN s : i # 1 => i - 1 \in DOMAIN Tail(s) /\ Tail(s)[i - 1] = s[i]
  BY <1>1, <1>2
<1>5. Range(s) \ {Head(s)} \subseteq Range(Tail(s))
  BY <1>1, <1>4 DEF Range
<1>6. Range(Tail(s)) \subseteq Range(s) \ {Head(s)}
  BY <1>1, <1>2 DEF Range, IsInjective
<1> QED
  BY <1>3, <1>5, <1>6

\* A worker asks for one block at a time.
LEMMA NextUnique ==
    ASSUME TypeOK, NEW w \in Workers, NEW b \in Blocks, NEW x \in Blocks,
           IsNext(w, b), IsNext(w, x)
    PROVE  b = x
<1>1. b <= x /\ x <= b /\ b \in Int /\ x \in Int
  BY DEF IsNext, Blocks
<1> QED
  BY <1>1

\* Enqueueing and granting keep each queue the set of those blocked on it.
LEMMA QueuesStep == Shape /\ [Next]_vars => QueuesMatchWorkers'
<1> SUFFICES ASSUME Shape, [Next]_vars PROVE QueuesMatchWorkers'
  OBVIOUS
<1> USE DEF Shape
<1>0. /\ waiting \in [Blocks -> Seq(Workers)]
      /\ pc \in [Workers -> ProgramCounter]
      /\ todo \in [Workers -> SUBSET Blocks]
      /\ asleep \in SUBSET Workers
  BY DEF TypeOK
<1>1. ASSUME NEW w \in Workers, NEW t \in Tids, NEW c \in Program[t], Receive(w, t, c)
      PROVE  QueuesMatchWorkers'
  BY <1>1, <1>0 DEF Receive, QueuesMatchWorkers, IsNext
<1>2. ASSUME NEW w \in Workers, NEW b \in Blocks, LockAlreadyHeld(w, b)
      PROVE  QueuesMatchWorkers'
  BY <1>2, <1>0 DEF LockAlreadyHeld, QueuesMatchWorkers, IsNext
<1>3. ASSUME NEW w \in Workers, NEW b \in Blocks, LockGrantNow(w, b)
      PROVE  QueuesMatchWorkers'
  BY <1>3, <1>0 DEF LockGrantNow, QueuesMatchWorkers, IsNext
<1>4. ASSUME NEW w \in Workers, NEW b \in Blocks, LockEnqueue(w, b)
      PROVE  QueuesMatchWorkers'
  <2>1. /\ waiting' = [waiting EXCEPT ![b] = Append(@, w)]
        /\ pc' = [pc EXCEPT ![w] = "blocked"]
        /\ todo' = todo
        /\ asleep' \subseteq asleep \union {w}
        /\ pc[w] = "lock" /\ IsNext(w, b)
    BY <1>4 DEF LockEnqueue
  <2>2. \A x \in Blocks : w \notin Range(waiting[x])
    BY <2>1 DEF QueuesMatchWorkers
  <2>3. /\ Range(waiting'[b]) = Range(waiting[b]) \union {w}
        /\ IsInjective(waiting'[b])
    BY <1>0, <2>1, <2>2, AppendRange DEF QueuesMatchWorkers
  <2>4. \A x \in Blocks : x # b => waiting'[x] = waiting[x]
    BY <1>0, <2>1
  <2>5. \A v \in Workers : \A x \in Blocks : IsNext(v, x)' <=> IsNext(v, x)
    BY <2>1 DEF IsNext
  <2>6. \A x \in Blocks : IsNext(w, x) => x = b
    BY <2>1, NextUnique
  <2>7. ASSUME NEW x \in Blocks, NEW v \in Workers
        PROVE  v \in Range(waiting'[x]) <=> pc'[v] = "blocked" /\ IsNext(v, x)'
    <3>1. CASE v = w
      BY <1>0, <2>1, <2>2, <2>3, <2>4, <2>5, <2>6, <3>1
    <3>2. CASE v # w
      BY <1>0, <2>1, <2>3, <2>4, <2>5, <3>2 DEF QueuesMatchWorkers
    <3> QED
      BY <3>1, <3>2
  <2> QED
    BY <1>0, <2>1, <2>3, <2>4, <2>7 DEF QueuesMatchWorkers
<1>5. ASSUME NEW w \in Workers, NEW b \in Blocks, GrantAfterWait(w, b)
      PROVE  QueuesMatchWorkers'
  <2>1. /\ waiting' = [waiting EXCEPT ![b] = Tail(@)]
        /\ pc' = [pc EXCEPT ![w] = "lock"]
        /\ todo' = [todo EXCEPT ![w] = @ \ {b}]
        /\ asleep' \subseteq asleep /\ w \notin asleep
        /\ pc[w] = "blocked" /\ IsNext(w, b) /\ Head(waiting[b]) = w
    BY <1>5 DEF GrantAfterWait
  <2>2. waiting[b] # << >>
    BY <2>1 DEF QueuesMatchWorkers, Range
  <2>3. /\ Range(waiting'[b]) = Range(waiting[b]) \ {w}
        /\ IsInjective(waiting'[b])
    BY <1>0, <2>1, <2>2, TailRange DEF QueuesMatchWorkers
  <2>4. \A x \in Blocks : x # b => waiting'[x] = waiting[x]
    BY <1>0, <2>1
  <2>5. \A v \in Workers \ {w} : \A x \in Blocks : IsNext(v, x)' <=> IsNext(v, x)
    BY <1>0, <2>1 DEF IsNext
  <2>6. \A x \in Blocks : IsNext(w, x) => x = b
    BY <2>1, NextUnique
  <2>7. ASSUME NEW x \in Blocks, NEW v \in Workers
        PROVE  v \in Range(waiting'[x]) <=> pc'[v] = "blocked" /\ IsNext(v, x)'
    <3>1. CASE v = w
      BY <1>0, <2>1, <2>3, <2>4, <2>6, <3>1 DEF QueuesMatchWorkers
    <3>2. CASE v # w
      BY <1>0, <2>1, <2>3, <2>4, <2>5, <3>2 DEF QueuesMatchWorkers
    <3> QED
      BY <3>1, <3>2
  <2> QED
    BY <1>0, <2>1, <2>3, <2>4, <2>7 DEF QueuesMatchWorkers
<1>6. ASSUME NEW w \in Workers, NEW b \in Blocks, SleepAgain(w, b)
      PROVE  QueuesMatchWorkers'
  BY <1>6, <1>0 DEF SleepAgain, QueuesMatchWorkers, IsNext
<1>7. ASSUME NEW w \in Workers, SpuriousWakeup(w)
      PROVE  QueuesMatchWorkers'
  BY <1>7, <1>0 DEF SpuriousWakeup, QueuesMatchWorkers, IsNext
<1>8. ASSUME NEW w \in Workers, LocksAcquired(w)
      PROVE  QueuesMatchWorkers'
  BY <1>8, <1>0 DEF LocksAcquired, QueuesMatchWorkers, IsNext
<1>9. ASSUME NEW w \in Workers, RequiredReady(w)
      PROVE  QueuesMatchWorkers'
  BY <1>9, <1>0 DEF RequiredReady, QueuesMatchWorkers, IsNext
<1>10. ASSUME NEW w \in Workers, RequireTimeout(w)
       PROVE  QueuesMatchWorkers'
  BY <1>10, <1>0 DEF RequireTimeout, Finish, QueuesMatchWorkers, IsNext
<1>11. ASSUME NEW w \in Workers, Execute(w)
       PROVE  QueuesMatchWorkers'
  BY <1>11, <1>0 DEF Execute, Finish, QueuesMatchWorkers, IsNext
<1>12. ASSUME NEW w \in Workers, NEW t \in Tids, ReceiveCommit(w, t)
       PROVE  QueuesMatchWorkers'
  BY <1>12, <1>0 DEF ReceiveCommit, QueuesMatchWorkers, IsNext
<1>13. ASSUME NEW w \in Workers, TakeCreated(w)
       PROVE  QueuesMatchWorkers'
  BY <1>13, <1>0 DEF TakeCreated, QueuesMatchWorkers, IsNext
<1>14. ASSUME NEW w \in Workers, ReleaseAll(w)
       PROVE  QueuesMatchWorkers'
  BY <1>14, <1>0 DEF ReleaseAll, QueuesMatchWorkers, IsNext
<1>15. ASSUME NEW w \in Workers, Announce(w)
       PROVE  QueuesMatchWorkers'
  BY <1>15, <1>0 DEF Announce, Finish, QueuesMatchWorkers, IsNext
<1>16. CASE UNCHANGED vars
  BY <1>16, <1>0 DEF vars, QueuesMatchWorkers, IsNext
<1> QED
  BY <1>1, <1>2, <1>3, <1>4, <1>5, <1>6, <1>7, <1>8, <1>9, <1>10, <1>11, <1>12,
     <1>13, <1>14, <1>15, <1>16 DEF Next, WorkerStep, Commit

\* The four parts of Shape together are inductive.
LEMMA ShapeStep == Shape /\ [Next]_vars => Shape'
BY TypeStep, RequestsStep, ClientStep, QueuesStep DEF Shape

\* Shape holds of every program, without any assumption on it.
LEMMA ShapeCorrect == Spec => []Shape
<1>1. Init => Shape
  BY ShapeInit
<1>2. Shape /\ [Next]_vars => Shape'
  BY ShapeStep
<1> QED
  BY <1>1, <1>2, PTL DEF Spec

\* Every variable keeps to its range, whatever the programs: no entry of
\* txn_states, no holders array and no queue is ever given a value that is not
\* one of its own (lock_acquire, release_all_locks_locked, process_request).
THEOREM TypeCorrect == Spec => []TypeOK
<1>1. Shape => TypeOK
  BY DEF Shape
<1> QED
  BY <1>1, ShapeCorrect, PTL

(***************************************************************************)
(* Modes, wakeups and the order of the queue                               *)
(***************************************************************************)

\* Only these steps touch the lock table.
LEMMA LockTableSteps ==
    ASSUME [Next]_vars
    PROVE  \/ UNCHANGED <<mode, holders>>
           \/ \E w \in Workers : \E b \in Blocks :
                 LockGrantNow(w, b) \/ LockEnqueue(w, b) \/ GrantAfterWait(w, b)
           \/ \E w \in Workers : ReleaseAll(w)
BY DEF Next, WorkerStep, Commit, vars, Receive, LockAlreadyHeld, SleepAgain,
       SpuriousWakeup, LocksAcquired, RequiredReady, RequireTimeout, Execute,
       ReceiveCommit, TakeCreated, Announce

\* ModeMatchesHolders for one entry with holders h and lock mode m.
Consistent(h, m) ==
    /\ m = FREE_LOCK <=> h = {}
    /\ m = WRITE_LOCK => \A s, t \in h : s = t

\* A release leaves every entry of the table consistent.
LEMMA WithoutConsistent ==
    ASSUME TypeOK, ModeMatchesHolders, NEW t \in Tids, NEW R \in SUBSET Blocks,
           NEW b \in Blocks
    PROVE  Consistent(HoldersWithout(t, R)[b], ModeWithout(t, R)[b])
BY DEF TypeOK, ModeMatchesHolders, Consistent, HoldersWithout, ModeWithout,
       READ_LOCK, WRITE_LOCK, FREE_LOCK

\* A grant that lock_can_grant allows leaves the entry consistent.
LEMMA WithConsistent ==
    ASSUME NEW t \in Tids, NEW h \in SUBSET Tids,
           NEW m \in {READ_LOCK, WRITE_LOCK, FREE_LOCK},
           NEW want \in {READ_LOCK, WRITE_LOCK},
           Consistent(h, m), CanGrant(h, m, t, want)
    PROVE  Consistent(HoldersWith(h, t), ModeWith(m, want))
<1>1. h = {} => HoldersWith(h, t) = {t}
  BY FS_EmptySet, ConstantsAssumption DEF HoldersWith
<1>2. HoldersWith(h, t) \in {h, h \union {t}}
  BY DEF HoldersWith
<1> QED
  BY <1>1, <1>2 DEF Consistent, CanGrant, ModeWith, READ_LOCK, WRITE_LOCK, FREE_LOCK

\* Every action keeps the modes and the holders in agreement.
LEMMA ModeStep == Shape /\ ModeMatchesHolders /\ [Next]_vars => ModeMatchesHolders'
<1> SUFFICES ASSUME Shape, ModeMatchesHolders, [Next]_vars PROVE ModeMatchesHolders'
  OBVIOUS
<1>0. TypeOK /\ RequestsWellFormed
  BY DEF Shape
<1>1. CASE UNCHANGED <<mode, holders>>
  BY <1>1 DEF ModeMatchesHolders
<1>2. ASSUME NEW w \in Workers, NEW b \in Blocks, LockGrantNow(w, b)
      PROVE  ModeMatchesHolders'
  <2> DEFINE t == tid[w]
             R == Dropped(t, b)
             H == HoldersWithout(t, R)
             M == ModeWithout(t, R)
  <2>1. t \in Tids /\ Want(w) \in {READ_LOCK, WRITE_LOCK}
    BY <1>0, <1>2, RequestType DEF LockGrantNow, Executing
  <2>2. R \in SUBSET Blocks
    BY <1>0, <2>1, EntryType
  <2>3. /\ H \in [Blocks -> SUBSET Tids]
        /\ M \in [Blocks -> {READ_LOCK, WRITE_LOCK, FREE_LOCK}]
    BY <1>0, <2>1, <2>2, WithoutType
  <2>4. \A x \in Blocks : Consistent(H[x], M[x])
    BY <1>0, <2>1, <2>2, WithoutConsistent
  <2>5. CanGrant(H[b], M[b], t, Want(w))
    BY <1>2 DEF LockGrantNow
  <2>6. Consistent(HoldersWith(H[b], t), ModeWith(M[b], Want(w)))
    BY <2>1, <2>3, <2>4, <2>5, WithConsistent
  <2>7. /\ holders' = [H EXCEPT ![b] = HoldersWith(@, t)]
        /\ mode' = [M EXCEPT ![b] = ModeWith(@, Want(w))]
    BY <1>2 DEF LockGrantNow
  <2>8. \A x \in Blocks : Consistent(holders'[x], mode'[x])
    <3> HIDE DEF H, M
    <3> QED BY <2>3, <2>4, <2>6, <2>7
  <2> QED
    BY <2>8 DEF ModeMatchesHolders, Consistent
<1>3. ASSUME NEW w \in Workers, NEW b \in Blocks, LockEnqueue(w, b)
      PROVE  ModeMatchesHolders'
  <2>1. tid[w] \in Tids
    BY <1>0, <1>3, RequestType DEF LockEnqueue, Executing
  <2>2. Dropped(tid[w], b) \in SUBSET Blocks
    BY <1>0, <2>1, EntryType
  <2>3. \A x \in Blocks : Consistent(holders'[x], mode'[x])
    BY <1>0, <1>3, <2>1, <2>2, WithoutConsistent DEF LockEnqueue
  <2> QED
    BY <2>3 DEF ModeMatchesHolders, Consistent
<1>4. ASSUME NEW w \in Workers, NEW b \in Blocks, GrantAfterWait(w, b)
      PROVE  ModeMatchesHolders'
  <2>1. tid[w] \in Tids /\ Want(w) \in {READ_LOCK, WRITE_LOCK}
    BY <1>0, <1>4, RequestType DEF GrantAfterWait, Executing
  <2>2. \A x \in Blocks : Consistent(holders[x], mode[x])
    BY DEF ModeMatchesHolders, Consistent
  <2>3. holders[b] \in SUBSET Tids /\ mode[b] \in {READ_LOCK, WRITE_LOCK, FREE_LOCK}
    BY <1>0 DEF TypeOK
  <2>4. Consistent(HoldersWith(holders[b], tid[w]), ModeWith(mode[b], Want(w)))
    BY <1>4, <2>1, <2>2, <2>3, WithConsistent DEF GrantAfterWait
  <2>5. \A x \in Blocks : Consistent(holders'[x], mode'[x])
    BY <1>0, <1>4, <2>2, <2>4 DEF GrantAfterWait, TypeOK
  <2> QED
    BY <2>5 DEF ModeMatchesHolders, Consistent
<1>5. ASSUME NEW w \in Workers, ReleaseAll(w)
      PROVE  ModeMatchesHolders'
  <2>1. tid[w] \in Tids
    BY <1>0, <1>5 DEF ReleaseAll, RequestsWellFormed
  <2>2. GetTxn(tid[w]).held \in SUBSET Blocks
    BY <1>0, <2>1, TxnType DEF TxnState
  <2>3. \A x \in Blocks : Consistent(holders'[x], mode'[x])
    BY <1>0, <1>5, <2>1, <2>2, WithoutConsistent DEF ReleaseAll
  <2> QED
    BY <2>3 DEF ModeMatchesHolders, Consistent
<1> QED
  BY <1>1, <1>2, <1>3, <1>4, <1>5, LockTableSteps

\* Every bucket starts free and without holders.
LEMMA ModeInit == Init => ModeMatchesHolders
BY DEF Init, ModeMatchesHolders, FREE_LOCK, WRITE_LOCK

\* The lock mode of a bucket always tells who holds it: free when nobody does,
\* and write mode for a single holder; the fallback to shared mode in
\* lock_release_locked never leaves a writer among readers.
THEOREM ModeCorrect == Spec => []ModeMatchesHolders
<1>1. Init => ModeMatchesHolders
  BY ModeInit
<1>2. Shape /\ ModeMatchesHolders /\ [Next]_vars => ModeMatchesHolders'
  BY ModeStep
<1> QED
  BY <1>1, <1>2, ShapeCorrect, PTL DEF Spec

\* A release either leaves the entry of b as it was or wakes all who wait for b.
LEMMA WithoutWakes ==
    ASSUME TypeOK, NEW t \in Tids, NEW R \in SUBSET Blocks, NEW b \in Blocks
    PROVE  \/ /\ HoldersWithout(t, R)[b] = holders[b]
              /\ ModeWithout(t, R)[b] = mode[b]
           \/ Range(waiting[b]) \subseteq Woken(t, R)
<1>1. CASE b \in R /\ t \in holders[b]
  BY <1>1 DEF Woken
<1>2. CASE ~ (b \in R /\ t \in holders[b])
  BY <1>2 DEF TypeOK, HoldersWithout, ModeWithout
<1> QED
  BY <1>1, <1>2

\* Every action that could make the head of a queue grantable wakes it.
LEMMA WakeupStep == Shape /\ NoLostWakeup /\ [Next]_vars => NoLostWakeup'
<1> SUFFICES ASSUME Shape /\ NoLostWakeup, [Next]_vars PROVE NoLostWakeup'
  OBVIOUS
<1> USE DEF Shape
<1>heads. \A x \in Blocks : waiting[x] # << >> =>
         /\ Head(waiting[x]) \in Workers /\ Head(waiting[x]) \in Range(waiting[x])
         /\ pc[Head(waiting[x])] = "blocked" /\ IsNext(Head(waiting[x]), x)
  BY QueueHead
<1>types. /\ tid \in [Workers -> Tids \union {NoTid}]
       /\ cmd \in [Workers -> Command \union {NoCommand}]
  BY DEF TypeOK
<1>1. ASSUME NEW w \in Workers, NEW t \in Tids, NEW c \in Program[t], Receive(w, t, c)
      PROVE  NoLostWakeup'
  BY <1>1, <1>heads, <1>types DEF Receive, NoLostWakeup, Want
<1>2. ASSUME NEW w \in Workers, NEW b \in Blocks, LockAlreadyHeld(w, b)
      PROVE  NoLostWakeup'
  BY <1>2, <1>heads, <1>types DEF LockAlreadyHeld, NoLostWakeup, Want
<1>3. ASSUME NEW w \in Workers, NEW b \in Blocks, LockGrantNow(w, b)
      PROVE  NoLostWakeup'
  <2> DEFINE t == tid[w]
             R == Dropped(t, b)
             H == HoldersWithout(t, R)
             M == ModeWithout(t, R)
  <2>1. t \in Tids /\ R \in SUBSET Blocks
    BY <1>3, RequestType, EntryType DEF LockGrantNow, Executing
  <2>2. /\ holders' = [H EXCEPT ![b] = HoldersWith(@, t)]
        /\ mode' = [M EXCEPT ![b] = ModeWith(@, Want(w))]
        /\ asleep' = asleep \ Woken(t, R)
        /\ waiting' = waiting /\ tid' = tid /\ cmd' = cmd
        /\ waiting[b] = << >>
    BY <1>3 DEF LockGrantNow, QueueEmpty
  <2>3. ASSUME NEW x \in Blocks, waiting[x] # << >>, Head(waiting[x]) \in asleep'
        PROVE  holders'[x] = holders[x] /\ mode'[x] = mode[x]
    <3>1. Head(waiting[x]) \notin Woken(t, R) /\ Head(waiting[x]) \in Range(waiting[x])
      BY <1>heads, <2>2, <2>3
    <3>2. H[x] = holders[x] /\ M[x] = mode[x]
      BY <2>1, <3>1, WithoutWakes
    <3>3. /\ H \in [Blocks -> SUBSET Tids]
          /\ M \in [Blocks -> {READ_LOCK, WRITE_LOCK, FREE_LOCK}]
      BY <2>1, WithoutType
    <3>4. x # b
      BY <2>2, <2>3
    <3> HIDE DEF H, M
    <3> QED
      BY <2>2, <3>2, <3>3, <3>4
  <2> QED
    BY <2>2, <2>3 DEF NoLostWakeup, Want
<1>4. ASSUME NEW w \in Workers, NEW b \in Blocks, LockEnqueue(w, b)
      PROVE  NoLostWakeup'
  <2> DEFINE t == tid[w]
             R == Dropped(t, b)
             H == HoldersWithout(t, R)
             M == ModeWithout(t, R)
  <2>1. t \in Tids /\ R \in SUBSET Blocks
    BY <1>4, RequestType, EntryType DEF LockEnqueue, Executing
  <2>2. /\ holders' = H
        /\ mode' = M
        /\ asleep' = (asleep \ Woken(t, R)) \union {w}
        /\ waiting' = [waiting EXCEPT ![b] = Append(@, w)]
        /\ tid' = tid /\ cmd' = cmd
        /\ pc[w] = "lock"
        /\ waiting[b] # << >> \/ ~ CanGrant(H[b], M[b], t, Want(w))
    BY <1>4 DEF LockEnqueue, QueueEmpty
  <2>3. \A x \in Blocks : x # b => waiting'[x] = waiting[x]
    BY <2>2 DEF TypeOK
  <2>4. waiting'[b] = Append(waiting[b], w) /\ waiting[b] \in Seq(Workers)
    BY <2>2 DEF TypeOK
  <2>5. Head(waiting'[b]) = IF waiting[b] = << >> THEN w ELSE Head(waiting[b])
    BY <2>4
  <2>6. ASSUME NEW x \in Blocks, waiting[x] # << >>, Head(waiting[x]) \in asleep'
        PROVE  ~ CanGrant(holders'[x], mode'[x], tid[Head(waiting[x])], Want(Head(waiting[x])))
    <3>1. Head(waiting[x]) # w
      BY <1>heads, <2>2, <2>6
    <3>2. /\ Head(waiting[x]) \in asleep
          /\ Head(waiting[x]) \notin Woken(t, R)
          /\ Head(waiting[x]) \in Range(waiting[x])
      BY <1>heads, <2>2, <2>6, <3>1
    <3>3. H[x] = holders[x] /\ M[x] = mode[x]
      BY <2>1, <3>2, WithoutWakes
    <3> HIDE DEF H, M
    <3> QED
      BY <2>2, <2>6, <3>2, <3>3 DEF NoLostWakeup
  <2>7. ASSUME NEW x \in Blocks, waiting'[x] # << >>, Head(waiting'[x]) \in asleep'
        PROVE  ~ CanGrant(holders'[x], mode'[x], tid[Head(waiting'[x])], Want(Head(waiting'[x])))
    <3>1. CASE x = b /\ waiting[b] = << >>
      BY <2>2, <2>5, <3>1
    <3>2. CASE x = b /\ waiting[b] # << >>
      BY <2>5, <2>6, <2>7, <3>2
    <3>3. CASE x # b
      BY <2>3, <2>6, <2>7, <3>3
    <3> QED
      BY <3>1, <3>2, <3>3
  <2> QED
    BY <2>2, <2>7 DEF NoLostWakeup, Want
<1>5. ASSUME NEW w \in Workers, NEW b \in Blocks, GrantAfterWait(w, b)
      PROVE  NoLostWakeup'
  <2>1. /\ holders' = [holders EXCEPT ![b] = HoldersWith(@, tid[w])]
        /\ mode' = [mode EXCEPT ![b] = ModeWith(@, Want(w))]
        /\ asleep' = asleep \ Range(waiting[b])
        /\ waiting' = [waiting EXCEPT ![b] = Tail(@)]
        /\ tid' = tid /\ cmd' = cmd
        /\ IsNext(w, b) /\ pc[w] = "blocked"
    BY <1>5 DEF GrantAfterWait, WokenByGrant
  <2>2. \A x \in Blocks : x # b =>
            waiting'[x] = waiting[x] /\ holders'[x] = holders[x] /\ mode'[x] = mode[x]
    BY <2>1 DEF TypeOK
  <2>3. ASSUME waiting'[b] # << >>
        PROVE  Head(waiting'[b]) \notin asleep'
    <3>1. waiting'[b] = Tail(waiting[b]) /\ waiting[b] \in Seq(Workers)
      BY <2>1 DEF TypeOK
    <3>2. waiting[b] # << >>
      BY <2>1 DEF QueuesMatchWorkers, Range
    <3>3. Head(waiting'[b]) = waiting[b][2] /\ 2 \in DOMAIN waiting[b]
      BY <2>3, <3>1, <3>2
    <3> QED
      BY <2>1, <3>3 DEF Range
  <2>4. \A x \in Blocks : x # b /\ waiting'[x] # << >> =>
            (Head(waiting'[x]) \in asleep' =>
                ~ CanGrant(holders'[x], mode'[x], tid'[Head(waiting'[x])],
                           LockMode(cmd'[Head(waiting'[x])])))
    BY <2>1, <2>2 DEF NoLostWakeup, Want
  <2> QED
    BY <2>3, <2>4 DEF NoLostWakeup, Want
<1>6. ASSUME NEW w \in Workers, NEW b \in Blocks, SleepAgain(w, b)
      PROVE  NoLostWakeup'
  <2>1. /\ ~ (Head(waiting[b]) = w /\ CanGrant(holders[b], mode[b], tid[w], Want(w)))
        /\ asleep' = asleep \union {w}
        /\ IsNext(w, b)
        /\ UNCHANGED <<mode, holders, waiting, tid, cmd>>
    BY <1>6 DEF SleepAgain
  <2>2. \A x \in Blocks : waiting[x] # << >> /\ Head(waiting[x]) = w => x = b
    BY <1>heads, <2>1, NextUnique
  <2> QED
    BY <2>1, <2>2 DEF NoLostWakeup, Want
<1>7. ASSUME NEW w \in Workers, SpuriousWakeup(w)
      PROVE  NoLostWakeup'
  BY <1>7, <1>heads, <1>types DEF SpuriousWakeup, NoLostWakeup, Want
<1>8. ASSUME NEW w \in Workers, LocksAcquired(w)
      PROVE  NoLostWakeup'
  BY <1>8, <1>heads, <1>types DEF LocksAcquired, NoLostWakeup, Want
<1>9. ASSUME NEW w \in Workers, RequiredReady(w)
      PROVE  NoLostWakeup'
  BY <1>9, <1>heads, <1>types DEF RequiredReady, NoLostWakeup, Want
<1>10. ASSUME NEW w \in Workers, RequireTimeout(w)
       PROVE  NoLostWakeup'
  BY <1>10, <1>heads, <1>types DEF RequireTimeout, Finish, NoLostWakeup, Want
<1>11. ASSUME NEW w \in Workers, Execute(w)
       PROVE  NoLostWakeup'
  BY <1>11, <1>heads, <1>types DEF Execute, Finish, NoLostWakeup, Want
<1>12. ASSUME NEW w \in Workers, NEW t \in Tids, ReceiveCommit(w, t)
       PROVE  NoLostWakeup'
  BY <1>12, <1>heads, <1>types DEF ReceiveCommit, NoLostWakeup, Want
<1>13. ASSUME NEW w \in Workers, TakeCreated(w)
       PROVE  NoLostWakeup'
  BY <1>13, <1>heads, <1>types DEF TakeCreated, NoLostWakeup, Want
<1>14. ASSUME NEW w \in Workers, ReleaseAll(w)
       PROVE  NoLostWakeup'
  <2> DEFINE t == tid[w]
             R == GetTxn(t).held
  <2>1. t \in Tids
    BY <1>14 DEF ReleaseAll, RequestsWellFormed
  <2>2. R \in SUBSET Blocks
    BY <2>1, TxnType DEF TxnState
  <2>3. /\ holders' = HoldersWithout(t, R)
        /\ mode' = ModeWithout(t, R)
        /\ asleep' = asleep \ Woken(t, R)
        /\ waiting' = waiting /\ tid' = tid /\ cmd' = cmd
    BY <1>14 DEF ReleaseAll
  <2>4. ASSUME NEW x \in Blocks, waiting[x] # << >>, Head(waiting[x]) \in asleep'
        PROVE  holders'[x] = holders[x] /\ mode'[x] = mode[x]
    BY <1>heads, <2>1, <2>2, <2>3, <2>4, WithoutWakes
  <2> QED
    BY <2>3, <2>4 DEF NoLostWakeup, Want
<1>15. ASSUME NEW w \in Workers, Announce(w)
       PROVE  NoLostWakeup'
  BY <1>15, <1>heads, <1>types DEF Announce, Finish, NoLostWakeup, Want
<1>16. CASE UNCHANGED vars
  BY <1>16, <1>heads, <1>types DEF vars, NoLostWakeup, Want
<1> QED
  BY <1>1, <1>2, <1>3, <1>4, <1>5, <1>6, <1>7, <1>8, <1>9, <1>10, <1>11, <1>12,
     <1>13, <1>14, <1>15, <1>16 DEF Next, WorkerStep, Commit

\* No worker waits at the start.
LEMMA WakeupInit == Init => NoLostWakeup
BY DEF Init, NoLostWakeup

\* A worker that sleeps at the head of a queue has nothing to wake up for,
\* whatever the programs: every step that could make its lock grantable, the
\* commit, the ordering release and the grant to the one before it, broadcasts.
THEOREM NoWakeupLost == Spec => []NoLostWakeup
<1>1. Init => NoLostWakeup
  BY WakeupInit
<1>2. Shape /\ NoLostWakeup /\ [Next]_vars => NoLostWakeup'
  BY WakeupStep
<1> QED
  BY <1>1, <1>2, ShapeCorrect, PTL DEF Spec

\* A step that adds a holder of a bucket adds the head of its queue.
LEMMA OvertakingStep ==
    Shape /\ [Next]_vars =>
        \A x \in Blocks : \A s \in holders'[x] \ holders[x] :
            waiting[x] # << >> => tid[Head(waiting[x])] = s
<1> SUFFICES ASSUME Shape, [Next]_vars,
                    NEW x \in Blocks, NEW s, s \in holders'[x], s \notin holders[x],
                    waiting[x] # << >>
             PROVE  tid[Head(waiting[x])] = s
  OBVIOUS
<1>0. TypeOK
  BY DEF Shape
<1>1. CASE UNCHANGED <<mode, holders>>
  BY <1>1
<1>2. ASSUME NEW w \in Workers, NEW b \in Blocks, LockGrantNow(w, b)
      PROVE  FALSE
  <2> DEFINE H == HoldersWithout(tid[w], Dropped(tid[w], b))
  <2>1. holders' = [H EXCEPT ![b] = HoldersWith(@, tid[w])] /\ x # b
    BY <1>2 DEF LockGrantNow, QueueEmpty
  <2>2. H[x] \subseteq holders[x]
    BY DEF HoldersWithout
  <2>3. holders'[x] = H[x]
    BY <2>1 DEF HoldersWithout
  <2> QED
    BY <2>2, <2>3
<1>3. ASSUME NEW w \in Workers, NEW b \in Blocks, LockEnqueue(w, b)
      PROVE  FALSE
  BY <1>3 DEF LockEnqueue, HoldersWithout
<1>4. ASSUME NEW w \in Workers, NEW b \in Blocks, GrantAfterWait(w, b)
      PROVE  tid[Head(waiting[x])] = s
  BY <1>0, <1>4 DEF GrantAfterWait, HoldersWith, TypeOK
<1>5. ASSUME NEW w \in Workers, ReleaseAll(w)
      PROVE  FALSE
  BY <1>5 DEF ReleaseAll, HoldersWithout
<1> QED
  BY <1>1, <1>2, <1>3, <1>4, <1>5, LockTableSteps

\* First come, first served, whatever the programs: a transaction becomes a
\* holder of a bucket only when it is at the head of the bucket's queue or the
\* queue is empty (lock_acquire).
THEOREM FirstComeFirstServed == Spec => NoOvertaking
<1>1. Shape /\ [Next]_vars =>
          [\A b \in Blocks : \A t \in holders'[b] \ holders[b] :
              waiting[b] # << >> => tid[Head(waiting[b])] = t]_vars
  BY OvertakingStep
<1> QED
  BY <1>1, ShapeCorrect, PTL DEF Spec, NoOvertaking

(***************************************************************************)
(* The lock table implements RWLocks                                       *)
(***************************************************************************)
SharedIn(h, m) == [b \in Blocks |-> IF m[b] = READ_LOCK THEN h[b] ELSE {}]
OwnedIn(h, m)  == [b \in Blocks |-> IF m[b] = WRITE_LOCK THEN h[b] ELSE {}]

\* A release of the code is a release of the abstract locks.
LEMMA WithoutMaps ==
    ASSUME TypeOK, ModeMatchesHolders, NEW t \in Tids, NEW R \in SUBSET Blocks
    PROVE  /\ SharedIn(HoldersWithout(t, R), ModeWithout(t, R)) = RW!Without(SharedBy, t, R)
           /\ OwnedIn(HoldersWithout(t, R), ModeWithout(t, R)) = RW!Without(OwnedBy, t, R)
<1> DEFINE H == HoldersWithout(t, R)
           M == ModeWithout(t, R)
<1>1. ASSUME NEW b \in Blocks
      PROVE  /\ SharedIn(H, M)[b] = RW!Without(SharedBy, t, R)[b]
             /\ OwnedIn(H, M)[b] = RW!Without(OwnedBy, t, R)[b]
  <2>1. CASE b \in R /\ holders[b] = {t}
    BY <2>1 DEF SharedIn, OwnedIn, HoldersWithout, ModeWithout, RW!Without, SharedBy,
                OwnedBy, READ_LOCK, WRITE_LOCK, FREE_LOCK
  <2>2. CASE b \in R /\ t \in holders[b] /\ holders[b] # {t}
    <3>1. mode[b] = READ_LOCK
      BY <2>2 DEF TypeOK, ModeMatchesHolders
    <3> QED
      BY <2>2, <3>1 DEF SharedIn, OwnedIn, HoldersWithout, ModeWithout, RW!Without,
                        SharedBy, OwnedBy, READ_LOCK, WRITE_LOCK
  <2>3. CASE b \notin R \/ t \notin holders[b]
    BY <2>3 DEF SharedIn, OwnedIn, HoldersWithout, ModeWithout, RW!Without, SharedBy,
                OwnedBy
  <2> QED
    BY <2>1, <2>2, <2>3
<1> QED
  BY <1>1 DEF SharedIn, OwnedIn, RW!Without

\* A grant, after the release of R, shares or owns the block, or changes nothing.
LEMMA GrantMaps ==
    ASSUME NEW t \in Tids, NEW b \in Blocks, NEW R \in SUBSET Blocks,
           NEW h \in [Blocks -> SUBSET Tids],
           NEW m \in [Blocks -> {READ_LOCK, WRITE_LOCK, FREE_LOCK}],
           NEW want \in {READ_LOCK, WRITE_LOCK},
           \A x \in Blocks : Consistent(h[x], m[x]),
           SharedIn(h, m) = RW!Without(SharedBy, t, R),
           OwnedIn(h, m) = RW!Without(OwnedBy, t, R),
           SharedBy \in [Blocks -> SUBSET Tids], OwnedBy \in [Blocks -> SUBSET Tids],
           CanGrant(h[b], m[b], t, want),
           holders' = [h EXCEPT ![b] = HoldersWith(@, t)],
           mode' = [m EXCEPT ![b] = ModeWith(@, want)]
    PROVE  RW!Next
<1>1. /\ SharedBy' = SharedIn(holders', mode')
      /\ OwnedBy' = OwnedIn(holders', mode')
  BY DEF SharedBy, OwnedBy, SharedIn, OwnedIn
<1>2. \A x \in Blocks : x # b => holders'[x] = h[x] /\ mode'[x] = m[x]
  OBVIOUS
<1>3. /\ holders'[b] = HoldersWith(h[b], t)
      /\ mode'[b] = ModeWith(m[b], want)
  OBVIOUS
<1>4. h[b] = {} => HoldersWith(h[b], t) = {t}
  BY FS_EmptySet, ConstantsAssumption DEF HoldersWith
<1>5. HoldersWith(h[b], t) \in {h[b], h[b] \union {t}}
  BY DEF HoldersWith
<1>m. READ_LOCK # WRITE_LOCK /\ FREE_LOCK # WRITE_LOCK
  BY DEF READ_LOCK, WRITE_LOCK, FREE_LOCK
<1>6. CASE want = WRITE_LOCK
  <2>1. h[b] \subseteq {t} /\ holders'[b] = {t} /\ mode'[b] = WRITE_LOCK
    BY <1>3, <1>4, <1>5, <1>6 DEF CanGrant, ModeWith, READ_LOCK, WRITE_LOCK
  <2>2. SharedBy[b] \subseteq {t} /\ OwnedBy[b] \subseteq {t}
    <3>1. RW!Without(SharedBy, t, R)[b] \subseteq {t} /\ RW!Without(OwnedBy, t, R)[b] \subseteq {t}
      BY <2>1 DEF SharedIn, OwnedIn
    <3> QED
      BY <3>1 DEF RW!Without
  <2>3. SharedBy' = [SharedIn(h, m) EXCEPT ![b] = {}]
    BY <1>1, <1>2, <1>m, <2>1 DEF SharedIn
  <2>4. OwnedBy' = [OwnedIn(h, m) EXCEPT ![b] = {t}]
    BY <1>1, <1>2, <2>1 DEF OwnedIn
  <2>5. RW!Own(t, b, R)
    BY <2>2, <2>3, <2>4 DEF RW!Own
  <2> QED
    BY <2>5 DEF RW!Next
<1>7. CASE want = READ_LOCK
  <2>1. /\ mode'[b] = READ_LOCK
        /\ m[b] \in {READ_LOCK, FREE_LOCK}
        /\ OwnedIn(h, m)[b] = {} /\ SharedIn(h, m)[b] = h[b]
    BY <1>3, <1>7 DEF CanGrant, ModeWith, Consistent, OwnedIn, SharedIn,
                      READ_LOCK, WRITE_LOCK, FREE_LOCK
  <2>2. OwnedBy' = OwnedIn(h, m)
    BY <1>1, <1>2, <1>m, <2>1 DEF OwnedIn
  <2>3. CASE holders'[b] = h[b]
    <3>1. SharedBy' = SharedIn(h, m)
      BY <1>1, <1>2, <2>1, <2>3 DEF SharedIn
    <3>2. RW!Release(t, R)
      BY <2>2, <3>1 DEF RW!Release
    <3> QED
      BY <3>2 DEF RW!Next
  <2>4. CASE holders'[b] = h[b] \union {t}
    <3>1. SharedBy' = [SharedIn(h, m) EXCEPT ![b] = @ \union {t}]
      BY <1>1, <1>2, <2>1, <2>4 DEF SharedIn
    <3>2. RW!Share(t, b, R)
      BY <2>1, <2>2, <3>1 DEF RW!Share
    <3> QED
      BY <3>2 DEF RW!Next
  <2> QED
    BY <1>3, <1>5, <2>3, <2>4
<1> QED
  BY <1>6, <1>7

\* The initial lock table maps to the initial abstract locks.
LEMMA RWInit == Init => RW!Init
BY DEF Init, RW!Init, SharedBy, OwnedBy, READ_LOCK, WRITE_LOCK, FREE_LOCK

\* Every step of the code is a step of the abstract locks or a stutter.
LEMMA RWStep ==
    Shape /\ ModeMatchesHolders /\ [Next]_vars => [RW!Next]_<<SharedBy, OwnedBy>>
<1> SUFFICES ASSUME Shape, ModeMatchesHolders, [Next]_vars
             PROVE  [RW!Next]_<<SharedBy, OwnedBy>>
  OBVIOUS
<1>0. TypeOK /\ RequestsWellFormed
  BY DEF Shape
<1>f. SharedBy \in [Blocks -> SUBSET Tids] /\ OwnedBy \in [Blocks -> SUBSET Tids]
  BY <1>0 DEF TypeOK, SharedBy, OwnedBy
<1>r. ASSUME NEW t \in Tids, NEW R \in SUBSET Blocks,
             holders' = HoldersWithout(t, R), mode' = ModeWithout(t, R)
      PROVE  RW!Next
  <2>1. SharedBy' = SharedIn(holders', mode') /\ OwnedBy' = OwnedIn(holders', mode')
    BY DEF SharedBy, OwnedBy, SharedIn, OwnedIn
  <2>2. RW!Release(t, R)
    BY <1>0, <1>r, <2>1, WithoutMaps DEF RW!Release
  <2> QED
    BY <2>2 DEF RW!Next
<1>1. CASE UNCHANGED <<mode, holders>>
  BY <1>1 DEF SharedBy, OwnedBy
<1>2. ASSUME NEW w \in Workers, NEW b \in Blocks, LockGrantNow(w, b)
      PROVE  RW!Next
  <2> DEFINE t == tid[w]
             R == Dropped(t, b)
             H == HoldersWithout(t, R)
             M == ModeWithout(t, R)
  <2>1. t \in Tids /\ Want(w) \in {READ_LOCK, WRITE_LOCK}
    BY <1>0, <1>2, RequestType DEF LockGrantNow, Executing
  <2>2. R \in SUBSET Blocks
    BY <1>0, <2>1, EntryType
  <2>3. /\ H \in [Blocks -> SUBSET Tids]
        /\ M \in [Blocks -> {READ_LOCK, WRITE_LOCK, FREE_LOCK}]
    BY <1>0, <2>1, <2>2, WithoutType
  <2>4. /\ \A x \in Blocks : Consistent(H[x], M[x])
        /\ SharedIn(H, M) = RW!Without(SharedBy, t, R)
        /\ OwnedIn(H, M) = RW!Without(OwnedBy, t, R)
    BY <1>0, <2>1, <2>2, WithoutConsistent, WithoutMaps
  <2>5. /\ CanGrant(H[b], M[b], t, Want(w))
        /\ holders' = [H EXCEPT ![b] = HoldersWith(@, t)]
        /\ mode' = [M EXCEPT ![b] = ModeWith(@, Want(w))]
    BY <1>2 DEF LockGrantNow
  <2> HIDE DEF H, M
  <2> QED
    BY <1>f, <2>1, <2>2, <2>3, <2>4, <2>5, GrantMaps
<1>3. ASSUME NEW w \in Workers, NEW b \in Blocks, LockEnqueue(w, b)
      PROVE  RW!Next
  <2>1. tid[w] \in Tids
    BY <1>0, <1>3, RequestType DEF LockEnqueue, Executing
  <2>2. Dropped(tid[w], b) \in SUBSET Blocks
    BY <1>0, <2>1, EntryType
  <2> QED
    BY <1>3, <1>r, <2>1, <2>2 DEF LockEnqueue
<1>4. ASSUME NEW w \in Workers, NEW b \in Blocks, GrantAfterWait(w, b)
      PROVE  RW!Next
  <2>1. tid[w] \in Tids /\ Want(w) \in {READ_LOCK, WRITE_LOCK}
    BY <1>0, <1>4, RequestType DEF GrantAfterWait, Executing
  <2>2. /\ SharedIn(holders, mode) = RW!Without(SharedBy, tid[w], {})
        /\ OwnedIn(holders, mode) = RW!Without(OwnedBy, tid[w], {})
    BY DEF SharedIn, OwnedIn, SharedBy, OwnedBy, RW!Without
  <2>3. \A x \in Blocks : Consistent(holders[x], mode[x])
    BY DEF ModeMatchesHolders, Consistent
  <2>4. /\ CanGrant(holders[b], mode[b], tid[w], Want(w))
        /\ holders' = [holders EXCEPT ![b] = HoldersWith(@, tid[w])]
        /\ mode' = [mode EXCEPT ![b] = ModeWith(@, Want(w))]
    BY <1>4 DEF GrantAfterWait
  <2>5. /\ holders \in [Blocks -> SUBSET Tids]
        /\ mode \in [Blocks -> {READ_LOCK, WRITE_LOCK, FREE_LOCK}]
    BY <1>0 DEF TypeOK
  <2> QED
    BY <1>f, <2>1, <2>2, <2>3, <2>4, <2>5, GrantMaps
<1>5. ASSUME NEW w \in Workers, ReleaseAll(w)
      PROVE  RW!Next
  <2>1. tid[w] \in Tids
    BY <1>0, <1>5 DEF ReleaseAll, RequestsWellFormed
  <2>2. GetTxn(tid[w]).held \in SUBSET Blocks
    BY <1>0, <2>1, TxnType DEF TxnState
  <2> QED
    BY <1>5, <1>r, <2>1, <2>2 DEF ReleaseAll
<1> QED
  BY <1>1, <1>2, <1>3, <1>4, <1>5, LockTableSteps

\* The lock table of the server, its queues and its two records of every lock
\* implement plain shared and exclusive locks, whatever the programs: each
\* critical section grants, gives back, or leaves the locks as they are.
THEOREM LocksImplemented == Spec => ImplementsRWLocks
<1>1. Init => RW!Init
  BY RWInit
<1>2. Shape /\ ModeMatchesHolders /\ [Next]_vars => [RW!Next]_<<SharedBy, OwnedBy>>
  BY RWStep
<1> QED
  BY <1>1, <1>2, ShapeCorrect, ModeCorrect, PTL DEF Spec, ImplementsRWLocks, RW!Spec

(***************************************************************************)
(* The bookkeeping of transactions, when no two of them share an entry of  *)
(* txn_states and every holders array has room for them all                *)
(***************************************************************************)
Ledger == HoldersMatchTxns /\ EntriesStay

\* All that a transaction other than t holds, and its entry, are as before.
OthersKeep(t) ==
    \A s \in Tids \ {t} :
        /\ GetTxn(s)' = GetTxn(s)
        /\ txnStates'[Slot(s)] = txnStates[Slot(s)]
        /\ \A b \in Blocks : s \in holders'[b] <=> s \in holders[b]

\* Writing the entry of one transaction changes no other one's.
LEMMA EntryUpdate ==
    ASSUME NoSlotCollision, TypeOK, NEW t \in Tids, NEW e, e.active, e.tid = t,
           txnStates' = [txnStates EXCEPT ![Slot(t)] = e]
    PROVE  /\ txnStates'[Slot(t)] = e
           /\ GetTxn(t)' = e
           /\ \A s \in Tids \ {t} : /\ GetTxn(s)' = GetTxn(s)
                                    /\ txnStates'[Slot(s)] = txnStates[Slot(s)]
<1>1. \A s \in Tids : Slot(s) \in Slots
  BY SlotType, ConstantsAssumption
<1>2. txnStates'[Slot(t)] = e
  BY <1>1 DEF TypeOK
<1>3. \A s \in Tids \ {t} : txnStates'[Slot(s)] = txnStates[Slot(s)]
  BY <1>1 DEF TypeOK, NoSlotCollision
<1> QED
  BY <1>2, <1>3 DEF GetTxn

\* get_txn_state returns an entry that is the transaction's own.
LEMMA EntryOwn ==
    ASSUME TypeOK, NEW t \in Tids
    PROVE  /\ GetTxn(t).active /\ GetTxn(t).tid = t
           /\ GetTxn(t).held \in SUBSET Blocks
           /\ GetTxn(t).maxBlock \in Blocks \union {-1}
<1>1. GetTxn(t) \in TxnState
  BY TxnType
<1>2. GetTxn(t).active /\ GetTxn(t).tid = t
  BY DEF GetTxn, FreshTxn
<1> QED
  BY <1>1, <1>2 DEF TxnState

\* With room for every transaction, no grant is dropped.
LEMMA HoldersRoom ==
    ASSUME RoomForHolders, NEW t \in Tids, NEW h \in SUBSET Tids
    PROVE  HoldersWith(h, t) = h \union {t}
<1>1. CASE t \in h
  BY <1>1 DEF HoldersWith
<1>2. CASE t \notin h
  <2>1. IsFiniteSet(Tids) /\ MaxHolders \in Nat
    BY ConstantsAssumption
  <2>2. IsFiniteSet(h)
    BY <2>1, FS_Subset
  <2>3. Cardinality(h) \in Nat /\ Cardinality(Tids) \in Nat
    BY <2>1, <2>2, FS_CardinalityType
  <2>4. Cardinality(h \union {t}) = Cardinality(h) + 1
    BY <1>2, <2>2, FS_AddElement
  <2>5. Cardinality(h \union {t}) <= Cardinality(Tids)
    BY <2>1, FS_Subset
  <2>6. Cardinality(h) < MaxHolders
    BY <2>1, <2>3, <2>4, <2>5 DEF RoomForHolders
  <2> QED
    BY <2>6 DEF HoldersWith
<1> QED
  BY <1>1, <1>2

\* What asking for b leaves t with, in both records: nothing at b or above, but
\* perhaps b itself.
LEMMA AskingMatches ==
    ASSUME TypeOK, HoldersMatchTxns, NEW t \in Tids, NEW b \in Blocks
    PROVE  /\ Asking(t, b).active /\ Asking(t, b).tid = t
           /\ Asking(t, b).held \in SUBSET Blocks
           /\ Asking(t, b).maxBlock \in Blocks \union {-1}
           /\ \A x \in Asking(t, b).held : x <= Asking(t, b).maxBlock /\ x <= b
           /\ Asking(t, b).maxBlock # -1 => Asking(t, b).maxBlock \in Asking(t, b).held
           /\ \A x \in Blocks : t \in HoldersWithout(t, Dropped(t, b))[x]
                                    <=> x \in Asking(t, b).held
           /\ \A s \in Tids \ {t} : \A x \in Blocks :
                  s \in HoldersWithout(t, Dropped(t, b))[x] <=> s \in holders[x]
<1> DEFINE e == GetTxn(t)
<1>1. /\ e.active /\ e.tid = t
      /\ e.held \in SUBSET Blocks /\ e.maxBlock \in Blocks \union {-1}
      /\ e = [active |-> e.active, tid |-> e.tid, held |-> e.held,
              maxBlock |-> e.maxBlock, created |-> e.created]
  BY EntryOwn, TxnType DEF TxnState
<1>2. /\ \A x \in Blocks : t \in holders[x] <=> x \in e.held
      /\ \A x \in e.held : x <= e.maxBlock
      /\ e.maxBlock # -1 => e.maxBlock \in e.held
  BY DEF HoldersMatchTxns
<1>3. CASE Dropped(t, b) = {}
  <2>1. Asking(t, b) = e
    BY <1>3 DEF Asking
  <2>2. \A x \in Blocks : HoldersWithout(t, Dropped(t, b))[x] = holders[x]
    BY <1>3 DEF HoldersWithout
  <2>3. e.held = {} \/ ~ (b < e.maxBlock)
    BY <1>3 DEF Dropped
  <2>4. \A x \in e.held : x <= b
    BY <1>1, <1>2, <2>3 DEF Blocks
  <2> HIDE DEF e
  <2> QED
    BY <1>1, <1>2, <2>1, <2>2, <2>4
<1>4. CASE Dropped(t, b) # {}
  <2>1. Dropped(t, b) = e.held
    BY <1>4 DEF Dropped
  <2>2. Asking(t, b) = [e EXCEPT !.held = {}, !.maxBlock = -1]
    BY <1>4 DEF Asking
  <2>3. /\ Asking(t, b).held = {} /\ Asking(t, b).maxBlock = -1
        /\ Asking(t, b).active = e.active /\ Asking(t, b).tid = e.tid
    BY <1>1, <2>2
  <2>4. \A x \in Blocks : HoldersWithout(t, Dropped(t, b))[x] \subseteq holders[x]
    BY DEF HoldersWithout
  <2>5. \A x \in Blocks : t \notin HoldersWithout(t, Dropped(t, b))[x]
    BY <1>2, <2>1 DEF HoldersWithout
  <2>6. \A s \in Tids \ {t} : \A x \in Blocks :
            s \in HoldersWithout(t, Dropped(t, b))[x] <=> s \in holders[x]
    BY DEF HoldersWithout
  <2> HIDE DEF e
  <2> QED
    BY <1>1, <2>3, <2>5, <2>6
<1> QED
  BY <1>3, <1>4

\* The fields of an entry after a grant.
LEMMA RecordedFields ==
    ASSUME NEW tx \in TxnState, NEW b \in Blocks
    PROVE  /\ Recorded(tx, b).active = tx.active /\ Recorded(tx, b).tid = tx.tid
           /\ Recorded(tx, b).held = tx.held \union {b}
           /\ Recorded(tx, b).maxBlock = IF b > tx.maxBlock THEN b ELSE tx.maxBlock
           /\ Recorded(tx, b).created = tx.created
BY DEF Recorded, TxnState

\* What each step of a transaction's worker does to the two records.
LEMMA GrantNowEffect ==
    ASSUME NoSlotCollision, RoomForHolders, Shape, Ledger,
           NEW w \in Workers, NEW b \in Blocks, LockGrantNow(w, b),
           NEW t \in Tids, tid[w] = t
    PROVE  /\ OthersKeep(t)
           /\ GetTxn(t)' = Recorded(Asking(t, b), b)
           /\ txnStates'[Slot(t)] = Recorded(Asking(t, b), b)
           /\ \A x \in Blocks : t \in holders'[x]
                                    <=> x \in Asking(t, b).held \union {b}
<1> DEFINE H == HoldersWithout(t, Dropped(t, b))
<1>0. TypeOK /\ RequestsWellFormed /\ HoldersMatchTxns
  BY DEF Shape, Ledger
<1>2. Dropped(t, b) \in SUBSET Blocks /\ Asking(t, b) \in TxnState
  BY <1>0, EntryType
<1>3. Recorded(Asking(t, b), b).active /\ Recorded(Asking(t, b), b).tid = t
  BY <1>0, <1>2, AskingMatches, RecordedFields
<1>4. txnStates' = [txnStates EXCEPT ![Slot(t)] = Recorded(Asking(t, b), b)]
  BY DEF LockGrantNow
<1>5. /\ txnStates'[Slot(t)] = Recorded(Asking(t, b), b)
      /\ GetTxn(t)' = Recorded(Asking(t, b), b)
      /\ \A s \in Tids \ {t} : /\ GetTxn(s)' = GetTxn(s)
                               /\ txnStates'[Slot(s)] = txnStates[Slot(s)]
  <2> QED BY <1>0, <1>3, <1>4, EntryUpdate
<1>6. H \in [Blocks -> SUBSET Tids]
  BY <1>0, <1>2, WithoutType
<1>7. holders' = [H EXCEPT ![b] = H[b] \union {t}]
  BY <1>6, HoldersRoom DEF LockGrantNow
<1>8. /\ \A x \in Blocks : t \in H[x] <=> x \in Asking(t, b).held
      /\ \A s \in Tids \ {t} : \A x \in Blocks : s \in H[x] <=> s \in holders[x]
  BY <1>0, AskingMatches
<1>9. /\ \A x \in Blocks : t \in holders'[x] <=> x \in Asking(t, b).held \union {b}
      /\ \A s \in Tids \ {t} : \A x \in Blocks : s \in holders'[x] <=> s \in holders[x]
  <2> HIDE DEF H
  <2> QED BY <1>6, <1>7, <1>8
<1> QED
  BY <1>5, <1>9 DEF OthersKeep

\* What falling asleep does to the two records: only the ordering release.
LEMMA EnqueueEffect ==
    ASSUME NoSlotCollision, Shape, Ledger,
           NEW w \in Workers, NEW b \in Blocks, LockEnqueue(w, b),
           NEW t \in Tids, tid[w] = t
    PROVE  /\ OthersKeep(t)
           /\ GetTxn(t)' = Asking(t, b)
           /\ txnStates'[Slot(t)] = Asking(t, b)
           /\ \A x \in Blocks : t \in holders'[x] <=> x \in Asking(t, b).held
<1>0. TypeOK /\ RequestsWellFormed /\ HoldersMatchTxns
  BY DEF Shape, Ledger
<1>2. Asking(t, b).active /\ Asking(t, b).tid = t
  BY <1>0, AskingMatches
<1>3. txnStates' = [txnStates EXCEPT ![Slot(t)] = Asking(t, b)]
  BY DEF LockEnqueue
<1>4. /\ txnStates'[Slot(t)] = Asking(t, b)
      /\ GetTxn(t)' = Asking(t, b)
      /\ \A s \in Tids \ {t} : /\ GetTxn(s)' = GetTxn(s)
                               /\ txnStates'[Slot(s)] = txnStates[Slot(s)]
  <2> QED BY <1>0, <1>2, <1>3, EntryUpdate
<1>5. holders' = HoldersWithout(t, Dropped(t, b))
  BY DEF LockEnqueue
<1> QED
  BY <1>0, <1>4, <1>5, AskingMatches DEF OthersKeep

\* What a grant after a wait does to the two records.
LEMMA GrantAfterWaitEffect ==
    ASSUME NoSlotCollision, RoomForHolders, Shape, Ledger,
           NEW w \in Workers, NEW b \in Blocks, GrantAfterWait(w, b),
           NEW t \in Tids, tid[w] = t
    PROVE  /\ OthersKeep(t)
           /\ GetTxn(t)' = Recorded(GetTxn(t), b)
           /\ txnStates'[Slot(t)] = Recorded(GetTxn(t), b)
           /\ \A x \in Blocks : t \in holders'[x]
                                    <=> x \in GetTxn(t).held \union {b}
<1>0. TypeOK /\ RequestsWellFormed /\ HoldersMatchTxns
  BY DEF Shape, Ledger
<1>1. pc[w] = "blocked"
  BY DEF GrantAfterWait
<1>2. txnStates[Slot(t)] = GetTxn(t)
  BY <1>1 DEF Ledger, EntriesStay, GetTxn
<1>3. Slot(t) \in Slots
  BY <1>1, SlotType, ConstantsAssumption
<1>4. txnStates' = [txnStates EXCEPT ![Slot(t)] = Recorded(GetTxn(t), b)]
  BY <1>0, <1>2, <1>3 DEF GrantAfterWait, TypeOK
<1>5. Recorded(GetTxn(t), b).active /\ Recorded(GetTxn(t), b).tid = t
  BY <1>0, <1>1, TxnType, EntryOwn, RecordedFields
<1>6. /\ txnStates'[Slot(t)] = Recorded(GetTxn(t), b)
      /\ GetTxn(t)' = Recorded(GetTxn(t), b)
      /\ \A s \in Tids \ {t} : /\ GetTxn(s)' = GetTxn(s)
                               /\ txnStates'[Slot(s)] = txnStates[Slot(s)]
  <2> QED BY <1>0, <1>1, <1>4, <1>5, EntryUpdate
<1>7. holders' = [holders EXCEPT ![b] = holders[b] \union {t}]
  BY <1>0, <1>1, HoldersRoom DEF GrantAfterWait, TypeOK
<1>8. \A x \in Blocks : t \in holders[x] <=> x \in GetTxn(t).held
  BY <1>0, <1>1 DEF HoldersMatchTxns
<1> QED
  BY <1>0, <1>1, <1>6, <1>7, <1>8 DEF OthersKeep, TypeOK

\* What setting or clearing created_relation does to the two records: nothing.
LEMMA FlagEffect ==
    ASSUME NoSlotCollision, TypeOK, NEW t \in Tids, NEW f \in BOOLEAN,
           txnStates' = [txnStates EXCEPT ![Slot(t)] = [GetTxn(t) EXCEPT !.created = f]],
           holders' = holders
    PROVE  /\ OthersKeep(t)
           /\ txnStates'[Slot(t)] = GetTxn(t)'
           /\ GetTxn(t)'.active /\ GetTxn(t)'.tid = t
           /\ GetTxn(t)'.held = GetTxn(t).held
           /\ GetTxn(t)'.maxBlock = GetTxn(t).maxBlock
           /\ GetTxn(t)'.created = f
<1> DEFINE e == [GetTxn(t) EXCEPT !.created = f]
<1>1. /\ e.active /\ e.tid = t /\ e.held = GetTxn(t).held
      /\ e.maxBlock = GetTxn(t).maxBlock /\ e.created = f
  BY TxnType, EntryOwn DEF TxnState
<1>2. txnStates' = [txnStates EXCEPT ![Slot(t)] = e]
  OBVIOUS
<1>3. /\ txnStates'[Slot(t)] = e
      /\ GetTxn(t)' = e
      /\ \A s \in Tids \ {t} : /\ GetTxn(s)' = GetTxn(s)
                               /\ txnStates'[Slot(s)] = txnStates[Slot(s)]
  <2> HIDE DEF e
  <2> QED BY <1>1, <1>2, EntryUpdate
<1> QED
  BY <1>1, <1>3 DEF OthersKeep

\* What release_all_locks_locked does to the two records.
LEMMA ReleaseEffect ==
    ASSUME NoSlotCollision, Shape, Ledger, NEW w \in Workers, ReleaseAll(w),
           NEW t \in Tids, tid[w] = t
    PROVE  /\ OthersKeep(t)
           /\ txnStates'[Slot(t)] = GetTxn(t)'
           /\ GetTxn(t)'.active /\ GetTxn(t)'.tid = t
           /\ GetTxn(t)'.held = {}
           /\ GetTxn(t)'.maxBlock = -1
           /\ GetTxn(t)'.created = GetTxn(t).created
           /\ \A x \in Blocks : t \notin holders'[x]
<1> DEFINE e == [GetTxn(t) EXCEPT !.held = {}, !.maxBlock = -1]
<1>0. TypeOK /\ RequestsWellFormed /\ HoldersMatchTxns
  BY DEF Shape, Ledger
<1>2. /\ e.active /\ e.tid = t /\ e.held = {} /\ e.maxBlock = -1
      /\ e.created = GetTxn(t).created
  BY <1>0, TxnType, EntryOwn DEF TxnState
<1>3. txnStates' = [txnStates EXCEPT ![Slot(t)] = e]
  BY DEF ReleaseAll
<1>4. /\ txnStates'[Slot(t)] = e
      /\ GetTxn(t)' = e
      /\ \A s \in Tids \ {t} : /\ GetTxn(s)' = GetTxn(s)
                               /\ txnStates'[Slot(s)] = txnStates[Slot(s)]
  <2> HIDE DEF e
  <2> QED BY <1>0, <1>2, <1>3, EntryUpdate
<1>5. \A x \in Blocks : holders'[x] = IF x \in GetTxn(t).held THEN holders[x] \ {t}
                                      ELSE holders[x]
  BY DEF ReleaseAll, HoldersWithout
<1>6. \A x \in Blocks : t \in holders[x] <=> x \in GetTxn(t).held
  BY <1>0 DEF HoldersMatchTxns
<1>7. /\ \A x \in Blocks : t \notin holders'[x]
      /\ \A s \in Tids \ {t} : \A x \in Blocks : s \in holders'[x] <=> s \in holders[x]
  BY <1>5, <1>6
<1> HIDE DEF e
<1> QED
  BY <1>2, <1>4, <1>7 DEF OthersKeep

\* Only these steps touch the holders or the entries.
LEMMA LedgerSteps ==
    ASSUME [Next]_vars
    PROVE  \/ UNCHANGED <<holders, txnStates>>
           \/ \E w \in Workers : \E b \in Blocks :
                 LockGrantNow(w, b) \/ LockEnqueue(w, b) \/ GrantAfterWait(w, b)
           \/ \E w \in Workers : LocksAcquired(w) \/ TakeCreated(w) \/ ReleaseAll(w)
BY DEF Next, WorkerStep, Commit, vars, Receive, LockAlreadyHeld, SleepAgain,
       SpuriousWakeup, RequiredReady, RequireTimeout, Execute, ReceiveCommit, Announce

\* What an enqueued request does to the program counters.
LEMMA EnqueueBlocks ==
    \A w \in Workers : \A b \in Blocks : LockEnqueue(w, b) =>
        pc' = [pc EXCEPT ![w] = "blocked"] /\ tid' = tid
<1>1. SUFFICES ASSUME NEW w \in Workers, NEW b \in Blocks, LockEnqueue(w, b)
              PROVE  pc' = [pc EXCEPT ![w] = "blocked"] /\ tid' = tid
  OBVIOUS
<1>2. pc' = [pc EXCEPT ![w] = "blocked"]
  BY <1>1 DEF LockEnqueue
<1>3. tid' = tid
  BY <1>1 DEF LockEnqueue
<1>4. QED
  BY <1>2, <1>3

\* A worker found blocked was blocked before, or has just gone to sleep.
LEMMA BlockedBefore ==
    ASSUME TypeOK, [Next]_vars, NEW v \in Workers, pc'[v] = "blocked"
    PROVE  /\ tid'[v] = tid[v]
           /\ pc[v] = "blocked" \/ \E b \in Blocks : LockEnqueue(v, b)
<1>0. /\ pc \in [Workers -> ProgramCounter]
      /\ tid \in [Workers -> Tids \union {NoTid}]
  BY DEF TypeOK
<1>1. CASE \E w \in Workers : \E b \in Blocks : LockEnqueue(w, b)
  BY <1>0, <1>1, EnqueueBlocks
<1> DEFINE Keeps == tid'[v] = tid[v] /\ pc[v] = "blocked"
<1>2. ASSUME NEW w \in Workers, NEW t \in Tids, NEW c \in Program[t], Receive(w, t, c)
      PROVE  Keeps
  BY <1>0, <1>2 DEF Receive
<1>3. ASSUME NEW w \in Workers, NEW b \in Blocks, LockAlreadyHeld(w, b)
      PROVE  Keeps
  BY <1>0, <1>3 DEF LockAlreadyHeld
<1>4. ASSUME NEW w \in Workers, NEW b \in Blocks, LockGrantNow(w, b)
      PROVE  Keeps
  BY <1>0, <1>4 DEF LockGrantNow
<1>5. ASSUME NEW w \in Workers, NEW b \in Blocks, GrantAfterWait(w, b)
      PROVE  Keeps
  BY <1>0, <1>5 DEF GrantAfterWait
<1>6. ASSUME NEW w \in Workers, NEW b \in Blocks, SleepAgain(w, b)
      PROVE  Keeps
  BY <1>0, <1>6 DEF SleepAgain
<1>7. ASSUME NEW w \in Workers, SpuriousWakeup(w)
      PROVE  Keeps
  BY <1>0, <1>7 DEF SpuriousWakeup
<1>8. ASSUME NEW w \in Workers, LocksAcquired(w)
      PROVE  Keeps
  BY <1>0, <1>8 DEF LocksAcquired
<1>9. ASSUME NEW w \in Workers, RequiredReady(w)
      PROVE  Keeps
  BY <1>0, <1>9 DEF RequiredReady
<1>10. ASSUME NEW w \in Workers, RequireTimeout(w)
       PROVE  Keeps
  BY <1>0, <1>10 DEF RequireTimeout, Finish
<1>11. ASSUME NEW w \in Workers, Execute(w)
       PROVE  Keeps
  BY <1>0, <1>11 DEF Execute, Finish
<1>12. ASSUME NEW w \in Workers, NEW t \in Tids, ReceiveCommit(w, t)
       PROVE  Keeps
  BY <1>0, <1>12 DEF ReceiveCommit
<1>13. ASSUME NEW w \in Workers, TakeCreated(w)
       PROVE  Keeps
  BY <1>0, <1>13 DEF TakeCreated
<1>14. ASSUME NEW w \in Workers, ReleaseAll(w)
       PROVE  Keeps
  BY <1>0, <1>14 DEF ReleaseAll
<1>15. ASSUME NEW w \in Workers, Announce(w)
       PROVE  Keeps
  BY <1>0, <1>15 DEF Announce, Finish
<1>16. CASE UNCHANGED vars
  BY <1>16 DEF vars
<1> QED
  BY <1>1, <1>2, <1>3, <1>4, <1>5, <1>6, <1>7, <1>8, <1>9,
     <1>10, <1>11, <1>12, <1>13, <1>14, <1>15, <1>16 DEF Next, WorkerStep, Commit

\* A step by t that settles t's own records keeps Ledger.
LEMMA LedgerFromOthers ==
    ASSUME Shape, Ledger, Shape', [Next]_vars, NEW t \in Tids, OthersKeep(t),
           \A w \in Workers : \A b \in Blocks : LockEnqueue(w, b) => tid[w] = t,
           txnStates'[Slot(t)].active, txnStates'[Slot(t)].tid = t,
           \A x \in Blocks : t \in holders'[x] <=> x \in GetTxn(t)'.held,
           \A x \in GetTxn(t)'.held : x <= GetTxn(t)'.maxBlock,
           GetTxn(t)'.maxBlock # -1 => GetTxn(t)'.maxBlock \in GetTxn(t)'.held
    PROVE  Ledger'
<1>1. HoldersMatchTxns'
  BY DEF Ledger, HoldersMatchTxns, OthersKeep
<1>2. \A s \in Tids : txnStates'[Slot(s)].active => txnStates'[Slot(s)].tid = s
  BY DEF Ledger, EntriesStay, OthersKeep
<1>3. ASSUME NEW v \in Workers, pc'[v] = "blocked"
      PROVE  txnStates'[Slot(tid'[v])].active
  <2>1. tid'[v] \in Tids
    BY <1>3 DEF Shape, RequestsWellFormed
  <2>2. tid'[v] = tid[v] /\ (pc[v] = "blocked" \/ tid[v] = t)
    BY <1>3, BlockedBefore DEF Shape
  <2> QED
    BY <2>1, <2>2 DEF Ledger, EntriesStay, OthersKeep
<1> QED
  BY <1>1, <1>2, <1>3 DEF Ledger, EntriesStay

\* Ledger is inductive, given Shape and the two assumptions.
LEMMA LedgerStep ==
    ASSUME NoSlotCollision, RoomForHolders
    PROVE  Shape /\ Ledger /\ [Next]_vars => Ledger'
<1> SUFFICES ASSUME Shape, Ledger, [Next]_vars PROVE Ledger'
  OBVIOUS
<1>0. TypeOK /\ RequestsWellFormed /\ HoldersMatchTxns /\ Shape'
  BY ShapeStep DEF Shape, Ledger
<1>e. ASSUME NEW w \in Workers, NEW b \in Blocks, LockEnqueue(w, b),
             NEW v \in Workers, NEW x \in Blocks, LockEnqueue(v, x)
      PROVE  v = w
  BY <1>0, <1>e DEF LockEnqueue, TypeOK
<1>1. CASE UNCHANGED <<holders, txnStates>>
  <2>1. HoldersMatchTxns'
    BY <1>0, <1>1 DEF HoldersMatchTxns, GetTxn
  <2>2. ASSUME NEW v \in Workers, pc'[v] = "blocked"
        PROVE  txnStates'[Slot(tid'[v])].active
    <3>1. CASE pc[v] = "blocked"
      BY <1>0, <1>1, <2>2, <3>1, BlockedBefore DEF Ledger, EntriesStay
    <3>2. CASE \E b \in Blocks : LockEnqueue(v, b)
      <4> PICK b \in Blocks : LockEnqueue(v, b)
        BY <3>2
      <4> PICK t \in Tids : t = tid[v]
        BY <1>0, RequestType DEF LockEnqueue, Executing
      <4> QED
        BY <1>0, <2>2, EnqueueEffect, AskingMatches, BlockedBefore
    <3> QED
      BY <1>0, <2>2, <3>1, <3>2, BlockedBefore
  <2> QED
    BY <1>1, <2>1, <2>2 DEF Ledger, EntriesStay
<1>2. ASSUME NEW w \in Workers, NEW b \in Blocks, LockGrantNow(w, b)
      PROVE  Ledger'
  <2> PICK t \in Tids : t = tid[w]
    BY <1>0, <1>2, RequestType DEF LockGrantNow, Executing
  <2>1. /\ OthersKeep(t)
        /\ GetTxn(t)' = Recorded(Asking(t, b), b)
        /\ txnStates'[Slot(t)] = Recorded(Asking(t, b), b)
        /\ \A x \in Blocks : t \in holders'[x] <=> x \in Asking(t, b).held \union {b}
    BY <1>2, GrantNowEffect
  <2>2. /\ Recorded(Asking(t, b), b).active /\ Recorded(Asking(t, b), b).tid = t
        /\ Recorded(Asking(t, b), b).held = Asking(t, b).held \union {b}
        /\ Recorded(Asking(t, b), b).maxBlock = b
    <3>1. /\ Asking(t, b) \in TxnState
          /\ Asking(t, b).maxBlock = -1 \/ Asking(t, b).maxBlock <= b
      BY <1>0, EntryType, AskingMatches
    <3>2. b > -1 /\ b \in Int /\ Asking(t, b).maxBlock \in Int
      BY <3>1 DEF TxnState, Blocks
    <3> QED
      BY <1>0, <3>1, <3>2, RecordedFields, AskingMatches
  <2>3. \A x \in Asking(t, b).held \union {b} : x <= b
    BY <1>0, AskingMatches DEF Blocks
  <2>4. \A v \in Workers : \A x \in Blocks : LockEnqueue(v, x) => tid[v] = t
    BY <1>0, <1>2 DEF LockEnqueue, LockGrantNow, TypeOK
  <2> QED
    BY <1>0, <2>1, <2>2, <2>3, <2>4, LedgerFromOthers
<1>3. ASSUME NEW w \in Workers, NEW b \in Blocks, LockEnqueue(w, b)
      PROVE  Ledger'
  <2> PICK t \in Tids : t = tid[w]
    BY <1>0, <1>3, RequestType DEF LockEnqueue, Executing
  <2>1. /\ OthersKeep(t)
        /\ GetTxn(t)' = Asking(t, b)
        /\ txnStates'[Slot(t)] = Asking(t, b)
        /\ \A x \in Blocks : t \in holders'[x] <=> x \in Asking(t, b).held
    BY <1>3, EnqueueEffect
  <2>2. \A v \in Workers : \A x \in Blocks : LockEnqueue(v, x) => tid[v] = t
    BY <1>3, <1>e
  <2> QED
    BY <1>0, <2>1, <2>2, AskingMatches, LedgerFromOthers
<1>4. ASSUME NEW w \in Workers, NEW b \in Blocks, GrantAfterWait(w, b)
      PROVE  Ledger'
  <2> PICK t \in Tids : t = tid[w]
    BY <1>0, <1>4, RequestType DEF GrantAfterWait, Executing
  <2>1. /\ OthersKeep(t)
        /\ GetTxn(t)' = Recorded(GetTxn(t), b)
        /\ txnStates'[Slot(t)] = Recorded(GetTxn(t), b)
        /\ \A x \in Blocks : t \in holders'[x] <=> x \in GetTxn(t).held \union {b}
    BY <1>4, GrantAfterWaitEffect
  <2> DEFINE e == GetTxn(t)
             f == Recorded(GetTxn(t), b)
  <2>2. /\ e.held \in SUBSET Blocks /\ e.maxBlock \in Blocks \union {-1}
        /\ f.active /\ f.tid = t
        /\ f.held = e.held \union {b}
        /\ f.maxBlock = IF b > e.maxBlock THEN b ELSE e.maxBlock
    BY <1>0, TxnType, EntryOwn, RecordedFields
  <2>3. /\ \A x \in e.held : x <= e.maxBlock
        /\ e.maxBlock # -1 => e.maxBlock \in e.held
    BY <1>0 DEF HoldersMatchTxns
  <2>4. /\ \A x \in f.held : x <= f.maxBlock
        /\ f.maxBlock # -1 => f.maxBlock \in f.held
    <3> HIDE DEF e, f
    <3> QED BY <2>2, <2>3 DEF Blocks
  <2>5. \A v \in Workers : \A x \in Blocks : LockEnqueue(v, x) => tid[v] = t
    BY <1>0, <1>4 DEF LockEnqueue, GrantAfterWait, TypeOK
  <2> QED
    BY <1>0, <2>1, <2>2, <2>4, <2>5, LedgerFromOthers
<1>5. ASSUME NEW w \in Workers, NEW f \in BOOLEAN, NEW t \in Tids, tid[w] = t,
             txnStates' = [txnStates EXCEPT ![Slot(t)] = [GetTxn(t) EXCEPT !.created = f]],
             holders' = holders, pc'[w] # pc[w], pc'[w] # "blocked"
      PROVE  Ledger'
  <2>1. /\ OthersKeep(t)
        /\ txnStates'[Slot(t)] = GetTxn(t)'
        /\ GetTxn(t)'.active /\ GetTxn(t)'.tid = t
        /\ GetTxn(t)'.held = GetTxn(t).held
        /\ GetTxn(t)'.maxBlock = GetTxn(t).maxBlock
    BY <1>0, <1>5, FlagEffect
  <2>2. \A v \in Workers : \A x \in Blocks : LockEnqueue(v, x) => tid[v] = t
    BY <1>0, <1>5, EnqueueBlocks DEF TypeOK
  <2>3. /\ \A x \in Blocks : t \in holders[x] <=> x \in GetTxn(t).held
        /\ \A x \in GetTxn(t).held : x <= GetTxn(t).maxBlock
        /\ GetTxn(t).maxBlock # -1 => GetTxn(t).maxBlock \in GetTxn(t).held
    BY <1>0 DEF HoldersMatchTxns
  <2>4. \A x \in Blocks : t \in holders'[x] <=> x \in GetTxn(t)'.held
    BY <1>5, <2>1, <2>3
  <2>5. /\ \A x \in GetTxn(t)'.held : x <= GetTxn(t)'.maxBlock
        /\ GetTxn(t)'.maxBlock # -1 => GetTxn(t)'.maxBlock \in GetTxn(t)'.held
    BY <2>1, <2>3
  <2>6. txnStates'[Slot(t)].active /\ txnStates'[Slot(t)].tid = t
    BY <2>1
  <2>7. OthersKeep(t)
    BY <2>1
  <2> QED
    BY <1>0, <2>2, <2>4, <2>5, <2>6, <2>7, LedgerFromOthers
<1>6. ASSUME NEW w \in Workers, LocksAcquired(w)
      PROVE  Ledger'
  <2> PICK t \in Tids : t = tid[w]
    BY <1>0, <1>6, RequestType DEF LocksAcquired, Executing
  <2> QED
    BY <1>0, <1>1, <1>5, <1>6 DEF LocksAcquired, TypeOK
<1>7. ASSUME NEW w \in Workers, TakeCreated(w)
      PROVE  Ledger'
  <2> PICK t \in Tids : t = tid[w]
    BY <1>0, <1>7 DEF TakeCreated, RequestsWellFormed
  <2> QED
    BY <1>0, <1>5, <1>7 DEF TakeCreated, TypeOK
<1>8. ASSUME NEW w \in Workers, ReleaseAll(w)
      PROVE  Ledger'
  <2> PICK t \in Tids : t = tid[w]
    BY <1>0, <1>8 DEF ReleaseAll, RequestsWellFormed
  <2>1. \A v \in Workers : \A x \in Blocks : LockEnqueue(v, x) => tid[v] = t
    BY <1>0, <1>8 DEF LockEnqueue, ReleaseAll, TypeOK
  <2>2. /\ OthersKeep(t)
        /\ txnStates'[Slot(t)] = GetTxn(t)'
        /\ GetTxn(t)'.active /\ GetTxn(t)'.tid = t
        /\ GetTxn(t)'.held = {} /\ GetTxn(t)'.maxBlock = -1
        /\ \A x \in Blocks : t \notin holders'[x]
    BY <1>8, ReleaseEffect
  <2> QED
    BY <1>0, <2>1, <2>2, LedgerFromOthers
<1> QED
  BY <1>1, <1>2, <1>3, <1>4, <1>6, <1>7, <1>8, LedgerSteps

\* All entries start inactive and all buckets free.
LEMMA LedgerInit == Init => Ledger
<1> SUFFICES ASSUME Init PROVE Ledger
  OBVIOUS
<1>1. \A t \in Tids : GetTxn(t) = FreshTxn(t)
  BY SlotType, ConstantsAssumption DEF Init, GetTxn
<1>2. HoldersMatchTxns
  BY <1>1 DEF Init, HoldersMatchTxns, FreshTxn
<1>3. EntriesStay
  BY SlotType, ConstantsAssumption DEF Init, EntriesStay
<1> QED
  BY <1>2, <1>3 DEF Ledger

\* Ledger holds in every program that fits the two tables.
LEMMA LedgerCorrect ==
    ASSUME NoSlotCollision, RoomForHolders
    PROVE  Spec => []Ledger
<1>1. Shape /\ Ledger /\ [Next]_vars => Ledger'
  BY LedgerStep
<1> QED
  BY <1>1, LedgerInit, ShapeCorrect, PTL DEF Spec

\* The holders of the lock table and the locks the entries of txn_states list
\* are the same, at every moment: what release_all_locks_locked undoes is all
\* that lock_grant has done.
THEOREM BookkeepingCorrect ==
    ASSUME NoSlotCollision, RoomForHolders
    PROVE  Spec => []HoldersMatchTxns
<1>1. Ledger => HoldersMatchTxns
  BY DEF Ledger
<1> QED
  BY <1>1, LedgerCorrect, PTL

(***************************************************************************)
(* The order in which a request acquires its plan                          *)
(***************************************************************************)

\* PlanInOrder for one worker.
OrderedPlan(v) ==
    pc[v] \in Executing =>
        /\ \A b \in LockPlan(cmd[v]) \ todo[v] : tid[v] \in holders[b]
        /\ pc[v] = "blocked" \/ todo[v] # LockPlan(cmd[v]) =>
              \A b \in todo[v] : \A x \in Blocks : tid[v] \in holders[x] => x < b

Registers(v) == <<pc[v], tid[v], cmd[v], todo[v]>>

\* A worker keeps its plan while another one moves.
LEMMA PlanBystander ==
    ASSUME Shape, NEW v \in Workers, NEW w \in Workers, v # w, pc[w] # "idle",
           NEW t \in Tids, tid[w] = t, OthersKeep(t) \/ UNCHANGED holders,
           OrderedPlan(v), Registers(v)' = Registers(v)
    PROVE  OrderedPlan(v)'
<1> SUFFICES ASSUME pc[v] \in Executing PROVE OrderedPlan(v)'
  BY DEF OrderedPlan, Registers
<1>1. tid[v] \in Tids /\ tid[v] # t
  BY DEF Shape, RequestsWellFormed, OneWorkerPerClient, Executing
<1>2. pc'[v] = pc[v] /\ tid'[v] = tid[v] /\ cmd'[v] = cmd[v] /\ todo'[v] = todo[v]
  BY DEF Registers
<1>3. LockPlan(cmd[v]) \in SUBSET Blocks
  BY RequestType DEF Shape
<1>4. \A x \in Blocks : tid[v] \in holders'[x] <=> tid[v] \in holders[x]
  BY <1>1 DEF OthersKeep
<1> QED
  BY <1>2, <1>3, <1>4 DEF OrderedPlan, LockPlan

\* Nothing that t acquired in order is given up by asking for the next block.
LEMMA AskingKeeps ==
    ASSUME TypeOK, HoldersMatchTxns, NEW t \in Tids, NEW b \in Blocks,
           \/ b \in Asking(t, b).held
           \/ \A x \in Blocks : t \in holders[x] => x < b
    PROVE  Asking(t, b) = GetTxn(t)
<1>1. /\ GetTxn(t).maxBlock \in Blocks \union {-1}
      /\ GetTxn(t).held \in SUBSET Blocks
  BY EntryOwn
<1>2. CASE b \in Asking(t, b).held
  <2>1. CASE Dropped(t, b) = {}
    BY <2>1 DEF Asking
  <2>2. CASE Dropped(t, b) # {}
    <3>1. Asking(t, b).held = {}
      BY <2>2, TxnType DEF Asking, TxnState
    <3> QED
      BY <1>2, <3>1
  <2> QED
    BY <2>1, <2>2
<1>3. CASE \A x \in Blocks : t \in holders[x] => x < b
  <2>1. GetTxn(t).maxBlock = -1 \/ GetTxn(t).maxBlock < b
    BY <1>1, <1>3 DEF HoldersMatchTxns
  <2>2. ~ (b < GetTxn(t).maxBlock)
    BY <1>1, <2>1 DEF Blocks
  <2> QED
    BY <2>2 DEF Dropped, Asking
<1> QED
  BY <1>2, <1>3

\* PlanInOrder is inductive, given Shape and Ledger.
LEMMA PlanStep ==
    ASSUME NoSlotCollision, RoomForHolders
    PROVE  Shape /\ Ledger /\ PlanInOrder /\ [Next]_vars => PlanInOrder'
<1> SUFFICES ASSUME Shape, Ledger, PlanInOrder, [Next]_vars,
                    NEW v \in Workers
             PROVE  OrderedPlan(v)'
  BY DEF PlanInOrder, OrderedPlan
<1>0. /\ TypeOK /\ RequestsWellFormed /\ HoldersMatchTxns
      /\ OrderedPlan(v)
  BY DEF Shape, Ledger, PlanInOrder, OrderedPlan
<1>types. /\ pc \in [Workers -> ProgramCounter]
          /\ tid \in [Workers -> Tids \union {NoTid}]
          /\ cmd \in [Workers -> Command \union {NoCommand}]
          /\ todo \in [Workers -> SUBSET Blocks]
  BY <1>0 DEF TypeOK
<1>1. ASSUME NEW w \in Workers, NEW t \in Tids, NEW c \in Program[t], Receive(w, t, c)
      PROVE  OrderedPlan(v)'
  BY <1>1, <1>0, <1>types DEF Receive, OrderedPlan, Executing
<1>2. ASSUME NEW w \in Workers, NEW b \in Blocks, LockAlreadyHeld(w, b)
      PROVE  OrderedPlan(v)'
  <2> PICK t \in Tids : t = tid[w]
    BY <1>0, <1>2, RequestType DEF LockAlreadyHeld, Executing
  <2>1. CASE v # w
    <3>1. Registers(v)' = Registers(v) /\ pc[w] # "idle"
      BY <1>2, <1>types, <2>1 DEF LockAlreadyHeld, Registers
    <3> QED
      BY <1>2, <1>0, <2>1, <3>1, PlanBystander DEF LockAlreadyHeld
  <2>2. CASE v = w
    <3>1. /\ b \in Asking(t, b).held /\ holders' = holders
          /\ pc'[w] = "lock" /\ tid'[w] = t /\ cmd'[w] = cmd[w]
          /\ todo'[w] = todo[w] \ {b} /\ IsNext(w, b) /\ pc[w] = "lock"
      BY <1>2, <1>types DEF LockAlreadyHeld
    <3>2. /\ t \in holders[b]
          /\ \A x \in Blocks : t \in holders[x] => x <= b
      BY <1>0, <3>1, AskingKeeps, AskingMatches DEF HoldersMatchTxns
    <3>3. todo[w] \in SUBSET Blocks
      BY <1>types
    <3>4. \A y \in todo[w] \ {b} : \A x \in Blocks : t \in holders[x] => x < y
      BY <3>1, <3>2, <3>3 DEF IsNext, Blocks
    <3> QED
      BY <1>0, <2>2, <3>1, <3>2, <3>4 DEF OrderedPlan, Executing
  <2> QED
    BY <2>1, <2>2
<1>3. ASSUME NEW w \in Workers, NEW b \in Blocks, LockGrantNow(w, b)
      PROVE  OrderedPlan(v)'
  <2> PICK t \in Tids : t = tid[w]
    BY <1>0, <1>3, RequestType DEF LockGrantNow, Executing
  <2>1. CASE v # w
    <3>1. Registers(v)' = Registers(v) /\ pc[w] # "idle"
      BY <1>3, <1>types, <2>1 DEF LockGrantNow, Registers
    <3> QED
      BY <1>3, <1>0, <2>1, <3>1, PlanBystander, GrantNowEffect
  <2>2. CASE v = w
    <3>1. /\ pc'[w] = "lock" /\ tid'[w] = t /\ cmd'[w] = cmd[w]
          /\ todo'[w] = todo[w] \ {b} /\ IsNext(w, b) /\ pc[w] = "lock"
      BY <1>3, <1>types DEF LockGrantNow
    <3>2. \A x \in Blocks : t \in holders'[x] <=> x \in Asking(t, b).held \union {b}
      BY <1>3, GrantNowEffect
    <3>3. \A x \in Blocks : t \in holders'[x] => x <= b
      BY <1>0, <3>2, AskingMatches DEF Blocks
    <3>4. \A y \in todo[w] \ {b} : \A x \in Blocks : t \in holders'[x] => x < y
      BY <1>types, <3>1, <3>3 DEF IsNext, Blocks
    <3>5. ASSUME NEW y \in LockPlan(cmd[w]), y \notin todo[w]
          PROVE  t \in holders'[y]
      <4>1. todo[w] # LockPlan(cmd[w]) /\ b \in todo[w]
        BY <3>1, <3>5 DEF IsNext
      <4>2. \A x \in Blocks : t \in holders[x] => x < b
        BY <1>0, <2>2, <3>1, <4>1 DEF OrderedPlan, Executing
      <4>3. Asking(t, b) = GetTxn(t)
        BY <1>0, <4>2, AskingKeeps
      <4>4. y \in Blocks /\ t \in holders[y]
        BY <1>0, <2>2, <3>1, <3>5, RequestType DEF OrderedPlan, Executing
      <4> QED
        BY <1>0, <3>2, <4>3, <4>4 DEF HoldersMatchTxns
    <3> QED
      BY <2>2, <3>1, <3>2, <3>4, <3>5 DEF OrderedPlan
  <2> QED
    BY <2>1, <2>2
<1>4. ASSUME NEW w \in Workers, NEW b \in Blocks, LockEnqueue(w, b)
      PROVE  OrderedPlan(v)'
  <2> PICK t \in Tids : t = tid[w]
    BY <1>0, <1>4, RequestType DEF LockEnqueue, Executing
  <2>1. CASE v # w
    <3>1. Registers(v)' = Registers(v) /\ pc[w] # "idle"
      BY <1>4, <1>types, <2>1 DEF LockEnqueue, Registers
    <3> QED
      BY <1>4, <1>0, <2>1, <3>1, PlanBystander, EnqueueEffect
  <2>2. CASE v = w
    <3>1. /\ tid'[w] = t /\ cmd'[w] = cmd[w] /\ todo'[w] = todo[w]
          /\ IsNext(w, b) /\ pc[w] = "lock" /\ b \notin Asking(t, b).held
      BY <1>4 DEF LockEnqueue
    <3>2. \A x \in Blocks : t \in holders'[x] <=> x \in Asking(t, b).held
      BY <1>4, EnqueueEffect
    <3>3. \A x \in Blocks : t \in holders'[x] => x < b
      BY <1>0, <3>1, <3>2, AskingMatches DEF Blocks
    <3>4. \A y \in todo[w] : \A x \in Blocks : t \in holders'[x] => x < y
      BY <1>types, <3>1, <3>3 DEF IsNext, Blocks
    <3>5. ASSUME NEW y \in LockPlan(cmd[w]), y \notin todo[w]
          PROVE  t \in holders'[y]
      <4>1. todo[w] # LockPlan(cmd[w]) /\ b \in todo[w]
        BY <3>1, <3>5 DEF IsNext
      <4>2. \A x \in Blocks : t \in holders[x] => x < b
        BY <1>0, <2>2, <3>1, <4>1 DEF OrderedPlan, Executing
      <4>3. Asking(t, b) = GetTxn(t)
        BY <1>0, <4>2, AskingKeeps
      <4>4. y \in Blocks /\ t \in holders[y]
        BY <1>0, <2>2, <3>1, <3>5, RequestType DEF OrderedPlan, Executing
      <4> QED
        BY <1>0, <3>2, <4>3, <4>4 DEF HoldersMatchTxns
    <3> QED
      BY <2>2, <3>1, <3>4, <3>5 DEF OrderedPlan
  <2> QED
    BY <2>1, <2>2
<1>5. ASSUME NEW w \in Workers, NEW b \in Blocks, GrantAfterWait(w, b)
      PROVE  OrderedPlan(v)'
  <2> PICK t \in Tids : t = tid[w]
    BY <1>0, <1>5, RequestType DEF GrantAfterWait, Executing
  <2>1. CASE v # w
    <3>1. Registers(v)' = Registers(v) /\ pc[w] # "idle"
      BY <1>5, <1>types, <2>1 DEF GrantAfterWait, Registers
    <3> QED
      BY <1>5, <1>0, <2>1, <3>1, PlanBystander, GrantAfterWaitEffect
  <2>2. CASE v = w
    <3>1. /\ tid'[w] = t /\ cmd'[w] = cmd[w] /\ todo'[w] = todo[w] \ {b}
          /\ IsNext(w, b) /\ pc[w] = "blocked" /\ b \in todo[w]
      BY <1>5, <1>types DEF GrantAfterWait, IsNext
    <3>2. \A x \in Blocks : t \in holders'[x] <=> x \in GetTxn(t).held \union {b}
      BY <1>5, GrantAfterWaitEffect
    <3>3. \A x \in Blocks : t \in holders[x] <=> x \in GetTxn(t).held
      BY <1>0 DEF HoldersMatchTxns
    <3>4. \A x \in Blocks : t \in holders[x] => x < b
      BY <1>0, <2>2, <3>1 DEF OrderedPlan, Executing
    <3>5. \A y \in todo[w] \ {b} : \A x \in Blocks : t \in holders'[x] => x < y
      BY <1>types, <3>1, <3>2, <3>3, <3>4 DEF IsNext, Blocks
    <3>6. \A y \in LockPlan(cmd[w]) \ todo[w] : t \in holders'[y]
      BY <1>0, <2>2, <3>1, <3>2, <3>3, RequestType DEF OrderedPlan, Executing
    <3> QED
      BY <2>2, <3>1, <3>2, <3>5, <3>6 DEF OrderedPlan
  <2> QED
    BY <2>1, <2>2
<1>6. ASSUME NEW w \in Workers, NEW b \in Blocks, SleepAgain(w, b)
      PROVE  OrderedPlan(v)'
  BY <1>6, <1>0, <1>types DEF SleepAgain, OrderedPlan, Executing
<1>7. ASSUME NEW w \in Workers, SpuriousWakeup(w)
      PROVE  OrderedPlan(v)'
  BY <1>7, <1>0, <1>types DEF SpuriousWakeup, OrderedPlan, Executing
<1>8. ASSUME NEW w \in Workers, LocksAcquired(w)
      PROVE  OrderedPlan(v)'
  BY <1>8, <1>0, <1>types DEF LocksAcquired, OrderedPlan, Executing
<1>9. ASSUME NEW w \in Workers, RequiredReady(w)
      PROVE  OrderedPlan(v)'
  BY <1>9, <1>0, <1>types DEF RequiredReady, OrderedPlan, Executing
<1>10. ASSUME NEW w \in Workers, RequireTimeout(w)
       PROVE  OrderedPlan(v)'
  BY <1>10, <1>0, <1>types DEF RequireTimeout, Finish, OrderedPlan, Executing
<1>11. ASSUME NEW w \in Workers, Execute(w)
       PROVE  OrderedPlan(v)'
  BY <1>11, <1>0, <1>types DEF Execute, Finish, OrderedPlan, Executing
<1>12. ASSUME NEW w \in Workers, NEW t \in Tids, ReceiveCommit(w, t)
       PROVE  OrderedPlan(v)'
  BY <1>12, <1>0, <1>types DEF ReceiveCommit, OrderedPlan, Executing
<1>13. ASSUME NEW w \in Workers, TakeCreated(w)
       PROVE  OrderedPlan(v)'
  BY <1>13, <1>0, <1>types DEF TakeCreated, OrderedPlan, Executing
<1>14. ASSUME NEW w \in Workers, ReleaseAll(w)
       PROVE  OrderedPlan(v)'
  <2> PICK t \in Tids : t = tid[w]
    BY <1>0, <1>14 DEF ReleaseAll, RequestsWellFormed
  <2>1. CASE v # w
    <3>1. Registers(v)' = Registers(v) /\ pc[w] # "idle"
      BY <1>14, <1>types, <2>1 DEF ReleaseAll, Registers
    <3> QED
      BY <1>14, <1>0, <2>1, <3>1, PlanBystander, ReleaseEffect
  <2>2. CASE v = w
    BY <1>14, <1>types, <2>2 DEF ReleaseAll, OrderedPlan, Executing
  <2> QED
    BY <2>1, <2>2
<1>15. ASSUME NEW w \in Workers, Announce(w)
       PROVE  OrderedPlan(v)'
  BY <1>15, <1>0, <1>types DEF Announce, Finish, OrderedPlan, Executing
<1>16. CASE UNCHANGED vars
  BY <1>0, <1>16 DEF vars, OrderedPlan
<1> QED
  BY <1>1, <1>2, <1>3, <1>4, <1>5, <1>6, <1>7, <1>8, <1>9, <1>10, <1>11, <1>12,
     <1>13, <1>14, <1>15, <1>16 DEF Next, WorkerStep, Commit

\* PlanInOrder holds in every program that fits the two tables.
LEMMA PlanCorrect ==
    ASSUME NoSlotCollision, RoomForHolders
    PROVE  Spec => []PlanInOrder
<1>1. Init => PlanInOrder
  BY DEF Init, PlanInOrder, Executing
<1>2. Shape /\ Ledger /\ PlanInOrder /\ [Next]_vars => PlanInOrder'
  BY PlanStep
<1> QED
  BY <1>1, <1>2, ShapeCorrect, LedgerCorrect, PTL DEF Spec

\* No transaction ever waits for a block below one it holds, so no cycle of
\* transactions waits for each other ("Enforce ordered locking to avoid cycles").
THEOREM DeadlockAvoided ==
    ASSUME NoSlotCollision, RoomForHolders
    PROVE  Spec => []WaitsUpward
<1>1. PlanInOrder => WaitsUpward
  BY DEF PlanInOrder, WaitsUpward, Executing
<1> QED
  BY <1>1, PlanCorrect, PTL

(***************************************************************************)
(* Commit                                                                  *)
(***************************************************************************)

\* FlagConsumed and CommitReleasesAll for one worker and its transaction.
Committing(v, s) ==
    /\ pc[v] = "release" => ~ GetTxn(s).created
    /\ pc[v] = "announce" => /\ \A b \in Blocks : s \notin holders[b]
                             /\ ~ GetTxn(s).created

\* What a commit has cleared stays clear until it answers.
LEMMA CommitStep ==
    ASSUME NoSlotCollision, RoomForHolders
    PROVE  Shape /\ Ledger /\ FlagConsumed /\ CommitReleasesAll /\ [Next]_vars
               => (FlagConsumed /\ CommitReleasesAll)'
<1> SUFFICES ASSUME Shape, Ledger, FlagConsumed, CommitReleasesAll, [Next]_vars,
                    NEW v \in Workers, NEW s, tid'[v] = s,
                    pc'[v] \in {"release", "announce"}
             PROVE  Committing(v, s)'
  BY DEF FlagConsumed, CommitReleasesAll, Committing, GetTxn, FreshTxn
<1>0. TypeOK /\ RequestsWellFormed /\ HoldersMatchTxns /\ Shape'
  BY ShapeStep DEF Shape, Ledger
<1>types. /\ pc \in [Workers -> ProgramCounter]
          /\ tid \in [Workers -> Tids \union {NoTid}]
  BY <1>0 DEF TypeOK
<1>tid. s \in Tids
  BY <1>0 DEF Shape, RequestsWellFormed
<1>before. ASSUME tid[v] = s PROVE Committing(v, s)
  BY <1>before DEF FlagConsumed, CommitReleasesAll, Committing
<1>same. ASSUME tid[v] = s, pc'[v] = pc[v], UNCHANGED <<holders, txnStates>>
         PROVE  Committing(v, s)'
  BY <1>before, <1>same DEF Committing, GetTxn
<1>other. ASSUME NEW w \in Workers, NEW t \in Tids, v # w, tid[w] = t, pc[w] # "idle",
                 OthersKeep(t), tid[v] = s, pc'[v] = pc[v]
          PROVE  Committing(v, s)'
  <2>1. s # t
    BY <1>0, <1>other DEF Shape, OneWorkerPerClient
  <2> QED
    BY <1>tid, <1>before, <1>other, <2>1 DEF OthersKeep, Committing
<1>1. ASSUME NEW w \in Workers, NEW t \in Tids, NEW c \in Program[t], Receive(w, t, c)
      PROVE  Committing(v, s)'
  BY <1>1, <1>types, <1>same DEF Receive
<1>2. ASSUME NEW w \in Workers, NEW b \in Blocks, LockAlreadyHeld(w, b)
      PROVE  Committing(v, s)'
  BY <1>2, <1>types, <1>same DEF LockAlreadyHeld
<1>3. ASSUME NEW w \in Workers, NEW b \in Blocks, LockGrantNow(w, b)
      PROVE  Committing(v, s)'
  <2> PICK t \in Tids : t = tid[w]
    BY <1>0, <1>3, RequestType DEF LockGrantNow, Executing
  <2>1. OthersKeep(t)
    BY <1>3, GrantNowEffect
  <2> QED
    BY <1>3, <1>types, <1>other, <2>1 DEF LockGrantNow
<1>4. ASSUME NEW w \in Workers, NEW b \in Blocks, LockEnqueue(w, b)
      PROVE  Committing(v, s)'
  <2> PICK t \in Tids : t = tid[w]
    BY <1>0, <1>4, RequestType DEF LockEnqueue, Executing
  <2>1. OthersKeep(t)
    BY <1>4, EnqueueEffect
  <2> QED
    BY <1>4, <1>types, <1>other, <2>1 DEF LockEnqueue
<1>5. ASSUME NEW w \in Workers, NEW b \in Blocks, GrantAfterWait(w, b)
      PROVE  Committing(v, s)'
  <2> PICK t \in Tids : t = tid[w]
    BY <1>0, <1>5, RequestType DEF GrantAfterWait, Executing
  <2>1. OthersKeep(t)
    BY <1>5, GrantAfterWaitEffect
  <2> QED
    BY <1>5, <1>types, <1>other, <2>1 DEF GrantAfterWait
<1>6. ASSUME NEW w \in Workers, NEW b \in Blocks, SleepAgain(w, b)
      PROVE  Committing(v, s)'
  BY <1>6, <1>types, <1>same DEF SleepAgain
<1>7. ASSUME NEW w \in Workers, SpuriousWakeup(w)
      PROVE  Committing(v, s)'
  BY <1>7, <1>types, <1>same DEF SpuriousWakeup
<1>8. ASSUME NEW w \in Workers, LocksAcquired(w)
      PROVE  Committing(v, s)'
  <2> PICK t \in Tids : t = tid[w]
    BY <1>0, <1>8, RequestType DEF LocksAcquired, Executing
  <2>1. OthersKeep(t) \/ UNCHANGED <<holders, txnStates>>
    BY <1>8, <1>0, FlagEffect DEF LocksAcquired
  <2>2. v # w /\ pc'[v] = pc[v] /\ tid[v] = s /\ pc[w] # "idle"
    BY <1>8, <1>types DEF LocksAcquired
  <2> QED
    BY <2>1, <2>2, <1>other, <1>same
<1>9. ASSUME NEW w \in Workers, RequiredReady(w)
      PROVE  Committing(v, s)'
  BY <1>9, <1>types, <1>same DEF RequiredReady
<1>10. ASSUME NEW w \in Workers, RequireTimeout(w)
       PROVE  Committing(v, s)'
  BY <1>10, <1>types, <1>same DEF RequireTimeout, Finish
<1>11. ASSUME NEW w \in Workers, Execute(w)
       PROVE  Committing(v, s)'
  BY <1>11, <1>types, <1>same DEF Execute, Finish
<1>12. ASSUME NEW w \in Workers, NEW t \in Tids, ReceiveCommit(w, t)
       PROVE  Committing(v, s)'
  BY <1>12, <1>types, <1>same DEF ReceiveCommit
<1>13. ASSUME NEW w \in Workers, TakeCreated(w)
       PROVE  Committing(v, s)'
  <2> PICK t \in Tids : t = tid[w]
    BY <1>0, <1>13 DEF TakeCreated, RequestsWellFormed
  <2>1. OthersKeep(t) /\ ~ GetTxn(t)'.created
    BY <1>13, <1>0, FlagEffect DEF TakeCreated
  <2>2. CASE v = w
    <3>1. s = t /\ pc'[v] = "release"
      BY <1>13, <1>types, <2>2 DEF TakeCreated
    <3> QED
      BY <2>1, <3>1 DEF Committing
  <2>3. CASE v # w
    BY <1>13, <1>types, <1>other, <2>1, <2>3 DEF TakeCreated
  <2> QED
    BY <2>2, <2>3
<1>14. ASSUME NEW w \in Workers, ReleaseAll(w)
       PROVE  Committing(v, s)'
  <2> PICK t \in Tids : t = tid[w]
    BY <1>0, <1>14 DEF ReleaseAll, RequestsWellFormed
  <2>1. /\ OthersKeep(t)
        /\ GetTxn(t)'.created = GetTxn(t).created
        /\ \A x \in Blocks : t \notin holders'[x]
    BY <1>14, ReleaseEffect
  <2>2. CASE v = w
    <3>1. s = t /\ pc'[v] = "announce" /\ pc[v] = "release"
      BY <1>14, <1>types, <2>2 DEF ReleaseAll
    <3>2. ~ GetTxn(t).created
      BY <1>before, <2>2, <3>1 DEF Committing
    <3> QED
      BY <2>1, <3>1, <3>2 DEF Committing
  <2>3. CASE v # w
    BY <1>14, <1>types, <1>other, <2>1, <2>3 DEF ReleaseAll
  <2> QED
    BY <2>2, <2>3
<1>15. ASSUME NEW w \in Workers, Announce(w)
       PROVE  Committing(v, s)'
  BY <1>15, <1>types, <1>same DEF Announce, Finish
<1>16. CASE UNCHANGED vars
  BY <1>16, <1>same DEF vars
<1> QED
  BY <1>1, <1>2, <1>3, <1>4, <1>5, <1>6, <1>7, <1>8, <1>9, <1>10, <1>11, <1>12,
     <1>13, <1>14, <1>15, <1>16 DEF Next, WorkerStep, Commit

\* When a commit has released its locks its transaction holds nothing, in
\* either record, and has no relation left to announce ("Commit releases every
\* lock owned by this TID").
THEOREM CommitCorrect ==
    ASSUME NoSlotCollision, RoomForHolders
    PROVE  Spec => []CommitReleasesAll
<1>1. Init => FlagConsumed /\ CommitReleasesAll
  BY DEF Init, FlagConsumed, CommitReleasesAll
<1>2. Shape /\ Ledger /\ FlagConsumed /\ CommitReleasesAll /\ [Next]_vars
          => (FlagConsumed /\ CommitReleasesAll)'
  BY CommitStep
<1> QED
  BY <1>1, <1>2, ShapeCorrect, LedgerCorrect, PTL DEF Spec

(***************************************************************************)
(* What the locks are for                                                  *)
(***************************************************************************)
\* A release changes no mode under a remaining holder's lock.
LEMMA WithoutKeepsMode ==
    ASSUME TypeOK, ModeMatchesHolders, NEW t \in Tids, NEW R \in SUBSET Blocks,
           NEW x \in Blocks, NEW s \in HoldersWithout(t, R)[x]
    PROVE  s \in holders[x] /\ ModeWithout(t, R)[x] = mode[x]
<1>1. s \in holders[x] /\ (x \in R => s # t)
  BY DEF HoldersWithout
<1>2. CASE x \in R /\ t \in holders[x]
  BY <1>1, <1>2 DEF TypeOK, ModeMatchesHolders, ModeWithout
<1>3. CASE ~ (x \in R /\ t \in holders[x])
  BY <1>1, <1>3 DEF ModeWithout
<1> QED
  BY <1>1, <1>2, <1>3

\* What a request has acquired it had before, or acquires in this step.
LEMMA Acquired ==
    ASSUME TypeOK, RequestsWellFormed, [Next]_vars, NEW v \in Workers, pc'[v] \in Executing,
           NEW x \in LockPlan(cmd'[v]) \ todo'[v]
    PROVE  /\ pc[v] \in Executing /\ cmd'[v] = cmd[v] /\ tid'[v] = tid[v]
           /\ \/ x \notin todo[v]
              \/ LockAlreadyHeld(v, x) \/ LockGrantNow(v, x) \/ GrantAfterWait(v, x)
<1> DEFINE Goal == /\ pc[v] \in Executing /\ cmd'[v] = cmd[v] /\ tid'[v] = tid[v]
                   /\ \/ x \notin todo[v]
                      \/ LockAlreadyHeld(v, x) \/ LockGrantNow(v, x) \/ GrantAfterWait(v, x)
<1>types. /\ pc \in [Workers -> ProgramCounter]
          /\ tid \in [Workers -> Tids \union {NoTid}]
          /\ cmd \in [Workers -> Command \union {NoCommand}]
          /\ todo \in [Workers -> SUBSET Blocks]
  BY DEF TypeOK
<1>1. ASSUME NEW w \in Workers, NEW t \in Tids, NEW c \in Program[t], Receive(w, t, c)
      PROVE  Goal
  BY <1>1, <1>types DEF Receive
<1>2. ASSUME NEW w \in Workers, NEW b \in Blocks, LockAlreadyHeld(w, b)
      PROVE  Goal
  <2>1. UNCHANGED <<pc, cmd, tid>> /\ todo' = [todo EXCEPT ![w] = @ \ {b}]
    BY <1>2 DEF LockAlreadyHeld
  <2>2. CASE v = w /\ x = b
    BY <1>2, <2>1, <2>2
  <2>3. CASE ~ (v = w /\ x = b)
    BY <1>types, <2>1, <2>3
  <2> QED
    BY <2>2, <2>3
<1>3. ASSUME NEW w \in Workers, NEW b \in Blocks, LockGrantNow(w, b)
      PROVE  Goal
  <2>1. UNCHANGED <<pc, cmd, tid>> /\ todo' = [todo EXCEPT ![w] = @ \ {b}]
    BY <1>3 DEF LockGrantNow
  <2>2. CASE v = w /\ x = b
    BY <1>3, <2>1, <2>2
  <2>3. CASE ~ (v = w /\ x = b)
    BY <1>types, <2>1, <2>3
  <2> QED
    BY <2>2, <2>3
<1>4. ASSUME NEW w \in Workers, NEW b \in Blocks, LockEnqueue(w, b)
      PROVE  Goal
  BY <1>4, <1>types DEF LockEnqueue, Executing
<1>5. ASSUME NEW w \in Workers, NEW b \in Blocks, GrantAfterWait(w, b)
      PROVE  Goal
  <2>1. /\ UNCHANGED <<cmd, tid>> /\ todo' = [todo EXCEPT ![w] = @ \ {b}]
        /\ pc[w] = "blocked" /\ pc' = [pc EXCEPT ![w] = "lock"]
    BY <1>5 DEF GrantAfterWait
  <2>2. CASE v = w /\ x = b
    BY <1>5, <2>1, <2>2 DEF Executing
  <2>3. CASE ~ (v = w /\ x = b)
    BY <1>types, <2>1, <2>3 DEF Executing
  <2> QED
    BY <2>2, <2>3
<1>6. ASSUME NEW w \in Workers, NEW b \in Blocks, SleepAgain(w, b)
      PROVE  Goal
  BY <1>6 DEF SleepAgain
<1>7. ASSUME NEW w \in Workers, SpuriousWakeup(w)
      PROVE  Goal
  BY <1>7 DEF SpuriousWakeup
<1>8. ASSUME NEW w \in Workers, LocksAcquired(w) \/ RequiredReady(w)
      PROVE  Goal
  BY <1>8, <1>types DEF LocksAcquired, RequiredReady, Executing
<1>9. ASSUME NEW w \in Workers, RequireTimeout(w) \/ Execute(w) \/ Announce(w)
      PROVE  Goal
  <2>1. Finish(w) /\ UNCHANGED todo
    BY <1>9 DEF RequireTimeout, Execute, Announce
  <2>2. v # w
    BY <1>types, <2>1 DEF Finish, Executing
  <2> QED
    BY <1>types, <2>1, <2>2 DEF Finish
<1>10. ASSUME NEW w \in Workers, NEW t \in Tids, ReceiveCommit(w, t)
       PROVE  Goal
  BY <1>10, <1>types DEF ReceiveCommit, Executing
<1>11. ASSUME NEW w \in Workers, TakeCreated(w) \/ ReleaseAll(w)
       PROVE  Goal
  BY <1>11, <1>types DEF TakeCreated, ReleaseAll, Executing
<1>12. CASE UNCHANGED vars
  BY <1>12 DEF vars
<1> QED
  BY <1>1, <1>2, <1>3, <1>4, <1>5, <1>6, <1>7, <1>8, <1>9, <1>10, <1>11, <1>12
     DEF Next, WorkerStep, Commit

\* What is held for writing stays so while its holder keeps it: the one grant
\* that could change the mode is the holder's own, and that is for writing.
LEMMA WriteStays ==
    ASSUME Shape, ModeMatchesHolders, [Next]_vars, NEW x \in Blocks, NEW s \in Tids,
           mode[x] = WRITE_LOCK, s \in holders'[x],
           \A w \in Workers : pc[w] \in Executing /\ tid[w] = s => Want(w) = WRITE_LOCK
    PROVE  mode'[x] = WRITE_LOCK \/ s \notin holders[x]
<1> SUFFICES ASSUME s \in holders[x] PROVE mode'[x] = WRITE_LOCK
  OBVIOUS
<1>0. TypeOK /\ RequestsWellFormed
  BY DEF Shape
<1>r. ASSUME NEW t \in Tids, NEW R \in SUBSET Blocks, s \in HoldersWithout(t, R)[x]
      PROVE  ModeWithout(t, R)[x] = WRITE_LOCK
  BY <1>0, <1>r, WithoutKeepsMode
<1>1. CASE UNCHANGED <<mode, holders>>
  BY <1>1
<1>2. ASSUME NEW w \in Workers, NEW b \in Blocks, LockGrantNow(w, b)
      PROVE  mode'[x] = WRITE_LOCK
  <2> DEFINE t == tid[w]
             R == Dropped(t, b)
             H == HoldersWithout(t, R)
             M == ModeWithout(t, R)
  <2>1. t \in Tids /\ pc[w] \in Executing
    BY <1>0, <1>2, RequestType DEF LockGrantNow, Executing
  <2>2. R \in SUBSET Blocks
    BY <1>0, <2>1, EntryType
  <2>3. /\ H \in [Blocks -> SUBSET Tids]
        /\ M \in [Blocks -> {READ_LOCK, WRITE_LOCK, FREE_LOCK}]
    BY <1>0, <2>1, <2>2, WithoutType
  <2>4. s \in H[x] => M[x] = WRITE_LOCK
    BY <1>r, <2>1, <2>2
  <2>5. /\ holders' = [H EXCEPT ![b] = HoldersWith(@, t)]
        /\ mode' = [M EXCEPT ![b] = ModeWith(@, Want(w))]
    BY <1>2 DEF LockGrantNow
  <2>6. s = t => Want(w) = WRITE_LOCK
    BY <2>1
  <2> HIDE DEF H, M
  <2>7. CASE x = b
    <3>1. s \in H[b] \/ s = t
      BY <2>3, <2>5, <2>7 DEF HoldersWith
    <3>2. mode'[b] = ModeWith(M[b], Want(w))
      BY <2>3, <2>5
    <3> QED
      BY <2>4, <2>6, <2>7, <3>1, <3>2 DEF ModeWith, WRITE_LOCK, FREE_LOCK
  <2>8. CASE x # b
    BY <2>3, <2>4, <2>5, <2>8
  <2> QED
    BY <2>7, <2>8
<1>3. ASSUME NEW w \in Workers, NEW b \in Blocks, LockEnqueue(w, b)
      PROVE  mode'[x] = WRITE_LOCK
  <2>1. tid[w] \in Tids
    BY <1>0, <1>3, RequestType DEF LockEnqueue, Executing
  <2>2. Dropped(tid[w], b) \in SUBSET Blocks
    BY <1>0, <2>1, EntryType
  <2> QED
    BY <1>3, <1>r, <2>1, <2>2 DEF LockEnqueue
<1>4. ASSUME NEW w \in Workers, NEW b \in Blocks, GrantAfterWait(w, b)
      PROVE  mode'[x] = WRITE_LOCK
  <2>1. mode' = [mode EXCEPT ![b] = ModeWith(@, Want(w))]
    BY <1>4 DEF GrantAfterWait
  <2>2. mode \in [Blocks -> {READ_LOCK, WRITE_LOCK, FREE_LOCK}]
    BY <1>0 DEF TypeOK
  <2> QED
    BY <2>1, <2>2 DEF ModeWith, WRITE_LOCK, FREE_LOCK
<1>5. ASSUME NEW w \in Workers, ReleaseAll(w)
      PROVE  mode'[x] = WRITE_LOCK
  <2>1. tid[w] \in Tids
    BY <1>0, <1>5 DEF ReleaseAll, RequestsWellFormed
  <2>2. GetTxn(tid[w]).held \in SUBSET Blocks
    BY <1>0, <2>1, EntryOwn
  <2> QED
    BY <1>5, <1>r, <2>1, <2>2 DEF ReleaseAll
<1> QED
  BY <1>1, <1>2, <1>3, <1>4, <1>5, LockTableSteps

\* HeldAsUsed is inductive as long as no request upgrades a lock.
LEMMA UsedStep ==
    Shape /\ ModeMatchesHolders /\ PlanInOrder /\ PlanInOrder' /\ HeldAsUsed /\ NoUpgrade
        /\ [Next]_vars => HeldAsUsed'
<1> SUFFICES ASSUME Shape, ModeMatchesHolders, PlanInOrder, PlanInOrder', HeldAsUsed,
                    NoUpgrade, [Next]_vars, NEW v \in Workers, pc'[v] \in Executing,
                    Want(v)' = WRITE_LOCK, NEW x \in LockPlan(cmd'[v]) \ todo'[v]
             PROVE  mode'[x] = WRITE_LOCK
  BY DEF HeldAsUsed, LockPlan
<1>1. TypeOK /\ RequestsWellFormed
  BY DEF Shape
<1>2. /\ pc[v] \in Executing /\ cmd'[v] = cmd[v] /\ tid'[v] = tid[v]
      /\ \/ x \notin todo[v]
         \/ LockAlreadyHeld(v, x) \/ LockGrantNow(v, x) \/ GrantAfterWait(v, x)
  BY <1>1, Acquired
<1>3. /\ tid[v] \in Tids /\ x \in Blocks /\ x \in LockPlan(cmd[v])
      /\ Want(v) = WRITE_LOCK
  BY <1>1, <1>2, RequestType DEF Want
<1>4. CASE x \notin todo[v]
  <2>1. mode[x] = WRITE_LOCK /\ tid[v] \in holders[x]
    BY <1>2, <1>3, <1>4 DEF HeldAsUsed, PlanInOrder
  <2>2. tid[v] \in holders'[x]
    BY <1>2 DEF PlanInOrder, LockPlan
  <2>3. \A w \in Workers : pc[w] \in Executing /\ tid[w] = tid[v] => Want(w) = WRITE_LOCK
    BY <1>2, <1>3 DEF Shape, OneWorkerPerClient, Executing
  <2> QED
    BY <1>3, <2>1, <2>2, <2>3, WriteStays
<1>5. CASE LockAlreadyHeld(v, x)
  BY <1>2, <1>3, <1>5 DEF LockAlreadyHeld, NoUpgrade, IsNext
<1>6. CASE LockGrantNow(v, x)
  <2> DEFINE M == ModeWithout(tid[v], Dropped(tid[v], x))
  <2>1. mode' = [M EXCEPT ![x] = ModeWith(@, Want(v))]
    BY <1>6 DEF LockGrantNow
  <2>2. DOMAIN M = Blocks
    BY DEF ModeWithout
  <2> HIDE DEF M
  <2> QED
    BY <1>3, <2>1, <2>2 DEF ModeWith
<1>7. CASE GrantAfterWait(v, x)
  BY <1>1, <1>3, <1>7 DEF GrantAfterWait, ModeWith, TypeOK
<1> QED
  BY <1>2, <1>4, <1>5, <1>6, <1>7

\* HeldAsUsed holds in every behaviour without upgrades.
LEMMA UsedCorrect ==
    ASSUME NoSlotCollision, RoomForHolders
    PROVE  Spec /\ []NoUpgrade => []HeldAsUsed
<1>1. Init => HeldAsUsed
  BY DEF Init, HeldAsUsed, Executing
<1> QED
  BY <1>1, UsedStep, ShapeCorrect, ModeCorrect, PlanCorrect, PTL DEF Spec

\* A complete plan, held in the modes it is used in, is exclusive.
LEMMA ExclusiveFromParts ==
    Shape /\ ModeMatchesHolders /\ PlanInOrder /\ HeldAsUsed => ExclusiveExecution
<1> SUFFICES ASSUME Shape, ModeMatchesHolders, PlanInOrder, HeldAsUsed,
                    NEW w \in Workers, pc[w] = "run", NEW b \in LockPlan(cmd[w])
             PROVE  /\ tid[w] \in holders[b]
                    /\ Want(w) = WRITE_LOCK => holders[b] = {tid[w]} /\ mode[b] = WRITE_LOCK
  BY DEF ExclusiveExecution
<1>1. /\ tid[w] \in Tids /\ b \in Blocks
  BY RequestType DEF Shape, Executing
<1>2. todo[w] = {}
  BY DEF Shape, RequestsWellFormed
<1>3. tid[w] \in holders[b]
  BY <1>2 DEF PlanInOrder, Executing
<1>4. Want(w) = WRITE_LOCK => mode[b] = WRITE_LOCK
  BY <1>2 DEF HeldAsUsed, Executing
<1>5. mode[b] = WRITE_LOCK => holders[b] = {tid[w]}
  BY <1>1, <1>3 DEF ModeMatchesHolders
<1> QED
  BY <1>3, <1>4, <1>5

\* A command runs with all its locks, and one that changes relations runs with
\* them to itself, for every program, as long as no request upgrades a lock that
\* its transaction holds for reading (lock_acquire would leave it a reader's).
THEOREM ExecutionExclusive ==
    ASSUME NoSlotCollision, RoomForHolders
    PROVE  Spec /\ []NoUpgrade => []ExclusiveExecution
BY ExclusiveFromParts, ShapeCorrect, ModeCorrect, PlanCorrect, UsedCorrect, PTL

\* So two commands that conflict never run together.
THEOREM ConflictsNeverMeet ==
    ASSUME NoSlotCollision, RoomForHolders
    PROVE  Spec /\ []NoUpgrade => []ConflictsSerialized
<1>1. Shape /\ ExclusiveExecution => ConflictsSerialized
  BY DEF Shape, ExclusiveExecution, ConflictsSerialized, OneWorkerPerClient
<1> QED
  BY <1>1, ShapeCorrect, ExecutionExclusive, PTL

\* A transaction comes to hold a bucket for reading only by a request to read it.
LEMMA ReadersGrow ==
    ASSUME Shape, ModeMatchesHolders, [Next]_vars, NEW x \in Blocks, NEW s \in Tids,
           s \in holders'[x], mode'[x] = READ_LOCK
    PROVE  \/ s \in holders[x] /\ mode[x] = READ_LOCK
           \/ \E w \in Workers :
                 pc[w] \in Executing /\ tid[w] = s /\ Want(w) = READ_LOCK
                 /\ x \in LockPlan(cmd[w])
<1> DEFINE Asks == \E w \in Workers :
                      pc[w] \in Executing /\ tid[w] = s /\ Want(w) = READ_LOCK
                      /\ x \in LockPlan(cmd[w])
           Held == s \in holders[x] /\ mode[x] = READ_LOCK
<1>0. TypeOK /\ RequestsWellFormed
  BY DEF Shape
<1>r. ASSUME NEW t \in Tids, NEW R \in SUBSET Blocks, s \in HoldersWithout(t, R)[x],
             ModeWithout(t, R)[x] = READ_LOCK
      PROVE  Held
  BY <1>0, <1>r, WithoutKeepsMode
\* A grant that leaves the bucket in read mode is a grant for reading.
<1>g. ASSUME NEW w \in Workers, pc[w] \in Executing, x \in todo[w], NEW h \in SUBSET Tids,
             NEW m \in {READ_LOCK, WRITE_LOCK, FREE_LOCK}, Consistent(h, m),
             s \in HoldersWith(h, tid[w]), ModeWith(m, Want(w)) = READ_LOCK
      PROVE  (s \in h /\ m = READ_LOCK) \/ Asks
  <2>1. Want(w) = READ_LOCK /\ m \in {READ_LOCK, FREE_LOCK}
    BY <1>0, <1>g, RequestType DEF ModeWith, READ_LOCK, WRITE_LOCK, FREE_LOCK
  <2>2. s \in h => m = READ_LOCK
    BY <1>g, <2>1 DEF Consistent
  <2>3. s = tid[w] => Asks
    BY <1>0, <1>g, <2>1 DEF RequestsWellFormed
  <2> QED
    BY <1>g, <2>2, <2>3 DEF HoldersWith
<1>1. CASE UNCHANGED <<mode, holders>>
  BY <1>1
<1>2. ASSUME NEW w \in Workers, NEW b \in Blocks, LockGrantNow(w, b)
      PROVE  Held \/ Asks
  <2> DEFINE t == tid[w]
             R == Dropped(t, b)
             H == HoldersWithout(t, R)
             M == ModeWithout(t, R)
  <2>1. t \in Tids /\ pc[w] \in Executing /\ b \in todo[w]
    BY <1>0, <1>2, RequestType DEF LockGrantNow, Executing, IsNext
  <2>2. R \in SUBSET Blocks
    BY <1>0, <2>1, EntryType
  <2>3. /\ H \in [Blocks -> SUBSET Tids]
        /\ M \in [Blocks -> {READ_LOCK, WRITE_LOCK, FREE_LOCK}]
        /\ Consistent(H[b], M[b])
    BY <1>0, <2>1, <2>2, WithoutType, WithoutConsistent
  <2>4. s \in H[x] /\ M[x] = READ_LOCK => Held
    BY <1>r, <2>1, <2>2
  <2>5. /\ holders' = [H EXCEPT ![b] = HoldersWith(@, t)]
        /\ mode' = [M EXCEPT ![b] = ModeWith(@, Want(w))]
    BY <1>2 DEF LockGrantNow
  <2> HIDE DEF H, M, Held, Asks
  <2>6. CASE x = b
    BY <1>g, <2>1, <2>3, <2>4, <2>5, <2>6
  <2>7. CASE x # b
    BY <2>3, <2>4, <2>5, <2>7
  <2> QED
    BY <2>6, <2>7
<1>3. ASSUME NEW w \in Workers, NEW b \in Blocks, LockEnqueue(w, b)
      PROVE  Held
  <2>1. tid[w] \in Tids
    BY <1>0, <1>3, RequestType DEF LockEnqueue, Executing
  <2>2. Dropped(tid[w], b) \in SUBSET Blocks
    BY <1>0, <2>1, EntryType
  <2> QED
    BY <1>3, <1>r, <2>1, <2>2 DEF LockEnqueue
<1>4. ASSUME NEW w \in Workers, NEW b \in Blocks, GrantAfterWait(w, b)
      PROVE  Held \/ Asks
  <2>1. /\ pc[w] \in Executing /\ b \in todo[w]
        /\ holders' = [holders EXCEPT ![b] = HoldersWith(@, tid[w])]
        /\ mode' = [mode EXCEPT ![b] = ModeWith(@, Want(w))]
    BY <1>4 DEF GrantAfterWait, Executing, IsNext
  <2>2. /\ holders \in [Blocks -> SUBSET Tids]
        /\ mode \in [Blocks -> {READ_LOCK, WRITE_LOCK, FREE_LOCK}]
        /\ Consistent(holders[b], mode[b])
    BY <1>0 DEF TypeOK, ModeMatchesHolders, Consistent
  <2> HIDE DEF Asks
  <2>3. CASE x = b
    BY <1>g, <2>1, <2>2, <2>3
  <2>4. CASE x # b
    BY <2>1, <2>2, <2>4
  <2> QED
    BY <2>3, <2>4
<1>5. ASSUME NEW w \in Workers, ReleaseAll(w)
      PROVE  Held
  <2>1. tid[w] \in Tids
    BY <1>0, <1>5 DEF ReleaseAll, RequestsWellFormed
  <2>2. GetTxn(tid[w]).held \in SUBSET Blocks
    BY <1>0, <2>1, EntryOwn
  <2> QED
    BY <1>5, <1>r, <2>1, <2>2 DEF ReleaseAll
<1> QED
  BY <1>1, <1>2, <1>3, <1>4, <1>5, LockTableSteps

\* An upgrade is a request to write what its transaction holds for reading.
LEMMA UpgradeSeen ==
    ASSUME Shape, ModeMatchesHolders, HoldersMatchTxns, ~ NoUpgrade
    PROVE  \E w \in Workers : \E b \in LockPlan(cmd[w]) :
              /\ pc[w] \in Executing /\ Want(w) = WRITE_LOCK /\ b \in Blocks
              /\ tid[w] \in holders[b] /\ mode[b] = READ_LOCK
<1>1. PICK w \in Workers : \E y \in todo[w] :
         /\ pc[w] = "lock" /\ y \in Asking(tid[w], y).held
         /\ Want(w) = WRITE_LOCK /\ mode[y] # WRITE_LOCK
  BY DEF NoUpgrade
<1>0. PICK b \in todo[w] :
         /\ pc[w] = "lock" /\ b \in Asking(tid[w], b).held
         /\ Want(w) = WRITE_LOCK /\ mode[b] # WRITE_LOCK
  BY <1>1
<1>2. TypeOK /\ RequestsWellFormed /\ pc[w] \in Executing
  BY <1>0 DEF Shape, Executing
<1>3. tid[w] \in Tids /\ b \in LockPlan(cmd[w]) /\ b \in Blocks
  BY <1>2, RequestType DEF RequestsWellFormed
<1>4. b \in GetTxn(tid[w]).held
  <2>1. CASE Dropped(tid[w], b) = {}
    BY <1>0, <2>1 DEF Asking
  <2>2. CASE Dropped(tid[w], b) # {}
    <3>1. GetTxn(tid[w]) \in TxnState
      BY <1>2, <1>3, TxnType
    <3>2. Asking(tid[w], b).held = {}
      BY <2>2, <3>1 DEF Asking, TxnState
    <3> QED
      BY <1>0, <3>2
  <2> QED
    BY <2>1, <2>2
<1>5. tid[w] \in holders[b]
  BY <1>3, <1>4 DEF HoldersMatchTxns
<1>6. mode[b] = READ_LOCK
  BY <1>0, <1>2, <1>3, <1>5 DEF ModeMatchesHolders, TypeOK
<1> QED
  BY <1>0, <1>2, <1>3, <1>5, <1>6

\* Only Execute changes the catalog.
LEMMA CatalogSteps ==
    ASSUME [Next]_vars
    PROVE  UNCHANGED catalog \/ \E w \in Workers : Execute(w)
<1>1. ASSUME NEW w \in Workers, NEW b \in Blocks,
             LockGrantNow(w, b) \/ LockEnqueue(w, b) \/ GrantAfterWait(w, b)
      PROVE  UNCHANGED catalog
  BY <1>1 DEF LockGrantNow, LockEnqueue, GrantAfterWait
<1>2. ASSUME NEW w \in Workers, ReleaseAll(w)
      PROVE  UNCHANGED catalog
  BY <1>2 DEF ReleaseAll
<1> QED
  BY <1>1, <1>2 DEF Next, WorkerStep, Commit, vars, Receive, LockAlreadyHeld,
       SleepAgain, SpuriousWakeup, LocksAcquired, RequiredReady, RequireTimeout,
       ReceiveCommit, TakeCreated, Announce

\* A command locks the bucket of every relation it names, and those it needs or
\* makes are among them.
LEMMA NamesInPlan ==
    ASSUME NEW c \in Command
    PROVE  /\ \A r \in Range(c.args) : Bucket[r] \in LockPlan(c)
           /\ Required(c) \subseteq Range(c.args)
           /\ Created(c) \in Range(c.args)
<1>1. \A r \in Range(c.args) : Bucket[r] \in LockPlan(c)
  BY DEF Range, LockPlan
<1>2. 1 \in DOMAIN c.args
  BY DEF Command
<1>3. c.op \in BinaryOps => 2 \in DOMAIN c.args
  BY DEF Command, UnaryOps, DerivedOps, BinaryOps
<1>4. Required(c) \subseteq Range(c.args)
  BY <1>2, <1>3 DEF Required, Range
<1>5. \A n \in Nat : \A f \in [1 .. n -> Names] : f \in Seq(Names) /\ Len(f) = n
  OBVIOUS
<1>6. PICK n \in {1, 2, 3} : c.args \in [1 .. n -> Names]
  BY DEF Command
<1>7. Len(c.args) = n /\ n \in DOMAIN c.args
  BY <1>5, <1>6
<1> QED
  BY <1>1, <1>4, <1>7 DEF Created, Range

\* A relation enters or leaves the catalog by a command that names it and has
\* its bucket for writing.
LEMMA CatalogChange ==
    ASSUME TypeOK, NEW w \in Workers, Execute(w), cmd[w] \in Command, NEW r,
           ~ (r \in catalog' <=> r \in catalog)
    PROVE  r \in Range(cmd[w].args) /\ Want(w) = WRITE_LOCK
<1>1. \/ cmd[w].op \in Creators /\ r = Created(cmd[w])
      \/ cmd[w].op = "DE" /\ r = cmd[w].args[1]
  BY DEF Execute, Outcomes
<1>2. 1 \in DOMAIN cmd[w].args
  BY DEF Command
<1>3. r \in Range(cmd[w].args)
  BY <1>1, <1>2, NamesInPlan DEF Range
<1>4. cmd[w].op # "PR"
  BY <1>1 DEF Creators, DerivedOps, BinaryOps
<1> QED
  BY <1>3, <1>4 DEF Want, LockMode

\* While a worker polls for its relations or runs, none of them comes or goes.
LEMMA CatalogStep ==
    ASSUME Shape, PlanInOrder, ExclusiveExecution, [Next]_vars,
           NEW v \in Workers, pc[v] \in {"require", "run"}, pc'[v] = pc[v],
           NEW r \in Range(cmd[v].args)
    PROVE  r \in catalog' <=> r \in catalog
<1> SUFFICES ASSUME NEW w \in Workers, Execute(w), ~ (r \in catalog' <=> r \in catalog)
             PROVE  FALSE
  BY CatalogSteps
<1>1. pc[w] = "run" /\ v # w
  BY DEF Execute, Finish, Shape, TypeOK
<1>2. /\ cmd[v] \in Command /\ cmd[w] \in Command /\ todo[v] = {}
  BY <1>1, RequestType DEF Shape, RequestsWellFormed, Executing
<1>3. tid[v] # tid[w]
  BY <1>1 DEF Shape, OneWorkerPerClient
<1>4. Bucket[r] \in LockPlan(cmd[v]) /\ Bucket[r] \in LockPlan(cmd[w])
  BY <1>2, CatalogChange, NamesInPlan DEF Shape
<1>5. tid[v] \in holders[Bucket[r]]
  BY <1>2, <1>4 DEF PlanInOrder, Executing
<1>6. holders[Bucket[r]] = {tid[w]}
  BY <1>1, <1>2, <1>4, CatalogChange DEF Shape, ExclusiveExecution
<1> QED
  BY <1>3, <1>5, <1>6

\* While wait_for_required_relations polls and until the command has run, the
\* relations the command names neither come nor go: the catalog is read in one
\* critical section and used in another, and the bucket locks cover the gap.
THEOREM CatalogStays ==
    ASSUME NoSlotCollision, RoomForHolders
    PROVE  Spec /\ []NoUpgrade => CatalogStable
<1>1. Shape /\ PlanInOrder /\ ExclusiveExecution /\ [Next]_vars =>
          [\A w \in Workers : pc[w] \in {"require", "run"} /\ pc'[w] = pc[w] =>
              \A r \in Range(cmd[w].args) : r \in catalog' <=> r \in catalog]_vars
  BY CatalogStep
<1> QED
  BY <1>1, ShapeCorrect, PlanCorrect, ExecutionExclusive, PTL DEF Spec, CatalogStable

\* A worker found running was running before, or has just seen its relations.
LEMMA RunBefore ==
    ASSUME TypeOK, [Next]_vars, NEW v \in Workers, pc'[v] = "run"
    PROVE  /\ cmd'[v] = cmd[v]
           /\ \/ pc[v] = "run"
              \/ Required(cmd[v]) \subseteq catalog /\ UNCHANGED catalog
<1> DEFINE Goal == /\ cmd'[v] = cmd[v]
                   /\ \/ pc[v] = "run"
                      \/ Required(cmd[v]) \subseteq catalog /\ UNCHANGED catalog
<1>types. /\ pc \in [Workers -> ProgramCounter]
          /\ cmd \in [Workers -> Command \union {NoCommand}]
  BY DEF TypeOK
<1>1. ASSUME NEW w \in Workers, NEW t \in Tids, NEW c \in Program[t], Receive(w, t, c)
      PROVE  Goal
  BY <1>1, <1>types DEF Receive
<1>2. ASSUME NEW w \in Workers, NEW b \in Blocks, LockAlreadyHeld(w, b)
      PROVE  Goal
  BY <1>2, <1>types DEF LockAlreadyHeld
<1>3. ASSUME NEW w \in Workers, NEW b \in Blocks, LockGrantNow(w, b)
      PROVE  Goal
  BY <1>3, <1>types DEF LockGrantNow
<1>4. ASSUME NEW w \in Workers, NEW b \in Blocks, LockEnqueue(w, b)
      PROVE  Goal
  BY <1>4, <1>types DEF LockEnqueue
<1>5. ASSUME NEW w \in Workers, NEW b \in Blocks, GrantAfterWait(w, b)
      PROVE  Goal
  BY <1>5, <1>types DEF GrantAfterWait
<1>6. ASSUME NEW w \in Workers, NEW b \in Blocks, SleepAgain(w, b)
      PROVE  Goal
  BY <1>6, <1>types DEF SleepAgain
<1>7. ASSUME NEW w \in Workers, SpuriousWakeup(w)
      PROVE  Goal
  BY <1>7, <1>types DEF SpuriousWakeup
<1>8. ASSUME NEW w \in Workers, LocksAcquired(w)
      PROVE  Goal
  BY <1>8, <1>types DEF LocksAcquired
<1>9. ASSUME NEW w \in Workers, RequiredReady(w)
      PROVE  Goal
  BY <1>9, <1>types DEF RequiredReady
<1>10. ASSUME NEW w \in Workers, RequireTimeout(w)
       PROVE  Goal
  BY <1>10, <1>types DEF RequireTimeout, Finish
<1>11. ASSUME NEW w \in Workers, Execute(w)
       PROVE  Goal
  BY <1>11, <1>types DEF Execute, Finish
<1>12. ASSUME NEW w \in Workers, NEW t \in Tids, ReceiveCommit(w, t)
       PROVE  Goal
  BY <1>12, <1>types DEF ReceiveCommit
<1>13. ASSUME NEW w \in Workers, TakeCreated(w)
       PROVE  Goal
  BY <1>13, <1>types DEF TakeCreated
<1>14. ASSUME NEW w \in Workers, ReleaseAll(w)
       PROVE  Goal
  BY <1>14, <1>types DEF ReleaseAll
<1>15. ASSUME NEW w \in Workers, Announce(w)
       PROVE  Goal
  BY <1>15, <1>types DEF Announce, Finish
<1>16. CASE UNCHANGED vars
  BY <1>16 DEF vars
<1> QED
  BY <1>1, <1>2, <1>3, <1>4, <1>5, <1>6, <1>7, <1>8, <1>9, <1>10, <1>11, <1>12,
     <1>13, <1>14, <1>15, <1>16 DEF Next, WorkerStep, Commit

\* The relations a command was found to need are still there when it runs,
\* though g_db_mutex was given back in between: only a deletion could take one
\* away, and it would need the lock that the command holds.
THEOREM RequiredStayThere ==
    ASSUME NoSlotCollision, RoomForHolders
    PROVE  Spec /\ []NoUpgrade => []RequiredAtRun
<1>1. Init => RequiredAtRun
  BY DEF Init, RequiredAtRun
<1>2. ASSUME Shape, PlanInOrder, ExclusiveExecution, RequiredAtRun, [Next]_vars,
             NEW v \in Workers, pc'[v] = "run"
      PROVE  Required(cmd'[v]) \subseteq catalog'
  <2>1. CASE pc[v] = "run"
    <3>1. cmd[v] \in Command
      BY <1>2, <2>1, RequestType DEF Shape, Executing
    <3>2. Required(cmd[v]) \subseteq Range(cmd[v].args) \intersect catalog
      BY <1>2, <2>1, <3>1, NamesInPlan DEF RequiredAtRun
    <3> QED
      BY <1>2, <2>1, <3>2, CatalogStep, RunBefore DEF Shape
  <2> QED
    BY <1>2, <2>1, RunBefore DEF Shape
<1>3. Shape /\ PlanInOrder /\ ExclusiveExecution /\ RequiredAtRun /\ [Next]_vars
          => RequiredAtRun'
  BY <1>2 DEF RequiredAtRun, Required
<1> QED
  BY <1>1, <1>3, ShapeCorrect, PlanCorrect, ExecutionExclusive, PTL DEF Spec
=============================================================================

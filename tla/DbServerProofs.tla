--------------------------- MODULE DbServerProofs ---------------------------
(***************************************************************************)
(* Theorems about the server as a whole.  DP and LP are the proofs of its  *)
(* two components.  A fact of theirs is cited with DispatcherAssumed or    *)
(* LockManagerAssumed, which say that the server uses the component as the *)
(* component assumes it is used.                                           *)
(*                                                                         *)
(* The dispatcher's invariants also survive clients that die (DieKeeps),   *)
(* and Agreement joins a worker's place in the pool to its place in the    *)
(* lock table.  With both, a step of the server is a step of the lock      *)
(* manager or none, so that the lock manager's theorems are the server's.  *)
(***************************************************************************)
EXTENDS DbServer, FiniteSetTheorems, TLAPS

DP == INSTANCE DispatcherProofs
LP == INSTANCE LockManagerProofs WITH pc <- lpc

\* The dispatcher is used as it assumes it is (DispatcherAssumption).
LEMMA DispatcherAssumed ==
    /\ Clients \subseteq 1 .. 9
    /\ DP!IsFiniteSet(Workers)
    /\ Script \in [Clients -> Seq([type : {"exec", "commit"}, tid : Nat \ {0}])]
    /\ QueueCap \in Nat \ {0}
    /\ ExpectedShutdowns \in Nat \ {0}
BY DbServerAssumption DEF DP!IsFiniteSet, IsFiniteSet

(***************************************************************************)
(* D and DP, and L and LP, are two names for the same definitions          *)
(***************************************************************************)

\* A worker's steps in the pool.
LEMMA SamePool ==
    ASSUME NEW w \in Workers
    PROVE  /\ D!Receive(w) <=> DP!Receive(w)
           /\ D!Gate(w) <=> DP!Gate(w)
           /\ D!Requeue(w) <=> DP!Requeue(w)
           /\ D!ServeExec(w) <=> DP!ServeExec(w)
           /\ D!ServeCommit(w) <=> DP!ServeCommit(w)
           /\ D!ServeShutdown(w) <=> DP!ServeShutdown(w)
           /\ D!Reply(w) <=> DP!Reply(w)
           /\ D!WorkerCheck(w) <=> DP!WorkerCheck(w)
<1>. USE DEF D!connection, DP!connection, D!turns, DP!turns, D!stopping, DP!stopping
<1>1. D!Receive(w) <=> DP!Receive(w)
  BY DEF D!Receive, DP!Receive
<1>2. D!Gate(w) <=> DP!Gate(w)
  BY DEF D!Gate, DP!Gate, D!PhaseIsReady, DP!PhaseIsReady, D!NoClient, DP!NoClient,
         D!txn_client_id, D!txn_phase_id, DP!txn_client_id, DP!txn_phase_id
<1>3. D!Requeue(w) <=> DP!Requeue(w)
  BY DEF D!Requeue, DP!Requeue, D!AfterRequeue, DP!AfterRequeue
<1>4. D!ServeExec(w) <=> DP!ServeExec(w)
  BY DEF D!ServeExec, DP!ServeExec, D!CountServed, DP!CountServed
<1>5. D!ServeCommit(w) <=> DP!ServeCommit(w)
  BY DEF D!ServeCommit, DP!ServeCommit, D!CountServed, DP!CountServed,
         D!CommitHasTurn, DP!CommitHasTurn, D!NextTurn, DP!NextTurn,
         D!txn_client_id, D!txn_phase_id, DP!txn_client_id, DP!txn_phase_id,
         D!MaxPhases, DP!MaxPhases, D!MaxClients, DP!MaxClients
<1>6. D!ServeShutdown(w) <=> DP!ServeShutdown(w)
  BY DEF D!ServeShutdown, DP!ServeShutdown, D!EnoughVotes, DP!EnoughVotes
<1>7. D!Reply(w) <=> DP!Reply(w)
  BY DEF D!Reply, DP!Reply
<1>8. D!WorkerCheck(w) <=> DP!WorkerCheck(w)
  BY DEF D!WorkerCheck, DP!WorkerCheck
<1>. QED
  BY <1>1, <1>2, <1>3, <1>4, <1>5, <1>6, <1>7, <1>8

\* The steps of the readers, the clients and the main thread.
LEMMA SameEnds ==
    /\ D!Init <=> DP!Init
    /\ \A c \in Clients : D!ReaderStep(c) <=> DP!ReaderStep(c)
    /\ \A c \in Clients : D!ClientStep(c) <=> DP!ClientStep(c)
    /\ D!MainStep <=> DP!MainStep
<1>. USE DEF D!connection, DP!connection, D!turns, DP!turns, D!stopping, DP!stopping
<1>1. D!Init <=> DP!Init
  BY DEF D!Init, DP!Init, D!Sentinel, DP!Sentinel, D!NoClient, DP!NoClient
<1>2. \A c \in Clients : D!ReaderStep(c) <=> DP!ReaderStep(c)
  BY DEF D!ReaderStep, DP!ReaderStep, D!ReadRequest, DP!ReadRequest, D!ReadEnd, DP!ReadEnd,
         D!Enqueue, DP!Enqueue, D!ItemOf, DP!ItemOf, D!Requests, DP!Requests,
         D!ReaderCheck, DP!ReaderCheck
<1>3. \A c \in Clients : D!ClientStep(c) <=> DP!ClientStep(c)
  BY DEF D!ClientStep, DP!ClientStep, D!Connect, DP!Connect, D!Send, DP!Send, D!Leave, DP!Leave,
         D!Requests, DP!Requests
<1>4. D!StopAccepting <=> DP!StopAccepting
  BY DEF D!StopAccepting, DP!StopAccepting
<1>5. D!SendSentinel <=> DP!SendSentinel
  BY DEF D!SendSentinel, DP!SendSentinel, D!SentinelsToSend, DP!SentinelsToSend, D!Sentinel,
         DP!Sentinel, D!NoClient, DP!NoClient, D!Cardinality, DP!Cardinality
<1>6. D!Exit <=> DP!Exit
  BY DEF D!Exit, DP!Exit, D!SentinelsToSend, DP!SentinelsToSend, D!Cardinality, DP!Cardinality
<1>. QED
  BY <1>1, <1>2, <1>3, <1>4, <1>5, <1>6 DEF D!MainStep, DP!MainStep

\* The steps in the lock table.
LEMMA SameLocks == [L!Next]_L!vars <=> [LP!Next]_LP!vars
<1>1. ASSUME NEW w \in Workers, NEW b \in L!Blocks
      PROVE  /\ L!LockAlreadyHeld(w, b) <=> LP!LockAlreadyHeld(w, b)
             /\ L!LockGrantNow(w, b) <=> LP!LockGrantNow(w, b)
             /\ L!LockEnqueue(w, b) <=> LP!LockEnqueue(w, b)
             /\ L!GrantAfterWait(w, b) <=> LP!GrantAfterWait(w, b)
             /\ L!SleepAgain(w, b) <=> LP!SleepAgain(w, b)
  <2>1. L!LockAlreadyHeld(w, b) <=> LP!LockAlreadyHeld(w, b)
    BY DEF L!LockAlreadyHeld, LP!LockAlreadyHeld, L!IsNext, LP!IsNext, L!Asking, LP!Asking,
           L!Dropped, LP!Dropped, L!GetTxn, LP!GetTxn, L!FreshTxn, LP!FreshTxn, L!Slot, LP!Slot
  <2>2. L!LockGrantNow(w, b) <=> LP!LockGrantNow(w, b)
    BY DEF L!LockGrantNow, LP!LockGrantNow, L!IsNext, LP!IsNext, L!Want, LP!Want, L!Asking,
           LP!Asking, L!Dropped, LP!Dropped, L!GetTxn, LP!GetTxn, L!FreshTxn, LP!FreshTxn,
           L!Slot, LP!Slot, L!HoldersWithout, LP!HoldersWithout, L!ModeWithout, LP!ModeWithout,
           L!Woken, LP!Woken, L!HoldersWith, LP!HoldersWith, L!ModeWith, LP!ModeWith,
           L!CanGrant, LP!CanGrant, L!Recorded, LP!Recorded, L!QueueEmpty, LP!QueueEmpty,
           L!Blocks, LP!Blocks, L!LockMode, LP!LockMode, L!READ_LOCK, LP!READ_LOCK,
           L!WRITE_LOCK, LP!WRITE_LOCK, L!FREE_LOCK, LP!FREE_LOCK, L!Range, LP!Range,
           L!Cardinality, LP!Cardinality
  <2>3. L!LockEnqueue(w, b) <=> LP!LockEnqueue(w, b)
    BY DEF L!LockEnqueue, LP!LockEnqueue, L!IsNext, LP!IsNext, L!Want, LP!Want, L!Asking,
           LP!Asking, L!Dropped, LP!Dropped, L!GetTxn, LP!GetTxn, L!FreshTxn, LP!FreshTxn,
           L!Slot, LP!Slot, L!HoldersWithout, LP!HoldersWithout, L!ModeWithout, LP!ModeWithout,
           L!Woken, LP!Woken, L!HoldersWith, LP!HoldersWith, L!ModeWith, LP!ModeWith,
           L!CanGrant, LP!CanGrant, L!Recorded, LP!Recorded, L!QueueEmpty, LP!QueueEmpty,
           L!Blocks, LP!Blocks, L!LockMode, LP!LockMode, L!READ_LOCK, LP!READ_LOCK,
           L!WRITE_LOCK, LP!WRITE_LOCK, L!FREE_LOCK, LP!FREE_LOCK, L!Range, LP!Range
  <2>4. L!GrantAfterWait(w, b) <=> LP!GrantAfterWait(w, b)
    BY DEF L!GrantAfterWait, LP!GrantAfterWait, L!IsNext, LP!IsNext, L!Want, LP!Want, L!GetTxn,
           LP!GetTxn, L!FreshTxn, LP!FreshTxn, L!Slot, LP!Slot, L!HoldersWithout,
           LP!HoldersWithout, L!ModeWithout, LP!ModeWithout, L!Woken, LP!Woken, L!HoldersWith,
           LP!HoldersWith, L!ModeWith, LP!ModeWith, L!CanGrant, LP!CanGrant, L!Recorded,
           LP!Recorded, L!QueueEmpty, LP!QueueEmpty, L!WokenByGrant, LP!WokenByGrant, L!Blocks,
           LP!Blocks, L!LockMode, LP!LockMode, L!READ_LOCK, LP!READ_LOCK, L!WRITE_LOCK,
           LP!WRITE_LOCK, L!FREE_LOCK, LP!FREE_LOCK, L!Range, LP!Range,
           L!Cardinality, LP!Cardinality
  <2>5. L!SleepAgain(w, b) <=> LP!SleepAgain(w, b)
    BY DEF L!SleepAgain, LP!SleepAgain, L!IsNext, LP!IsNext, L!Want, LP!Want, L!CanGrant,
           LP!CanGrant, L!LockMode, LP!LockMode, L!READ_LOCK, LP!READ_LOCK, L!WRITE_LOCK,
           LP!WRITE_LOCK
  <2>. QED
    BY <2>1, <2>2, <2>3, <2>4, <2>5
<1>2. ASSUME NEW w \in Workers
      PROVE  /\ L!LocksAcquired(w) <=> LP!LocksAcquired(w)
             /\ L!RequiredReady(w) <=> LP!RequiredReady(w)
             /\ L!RequireTimeout(w) <=> LP!RequireTimeout(w)
             /\ L!Execute(w) <=> LP!Execute(w)
             /\ L!TakeCreated(w) <=> LP!TakeCreated(w)
             /\ L!ReleaseAll(w) <=> LP!ReleaseAll(w)
             /\ L!Announce(w) <=> LP!Announce(w)
             /\ L!SpuriousWakeup(w) <=> LP!SpuriousWakeup(w)
  <2>1. L!LocksAcquired(w) <=> LP!LocksAcquired(w)
    BY DEF L!LocksAcquired, LP!LocksAcquired, L!GetTxn, LP!GetTxn, L!FreshTxn, LP!FreshTxn,
           L!Slot, LP!Slot, L!Creators, LP!Creators, L!DerivedOps, LP!DerivedOps, L!BinaryOps,
           LP!BinaryOps
  <2>2. L!RequiredReady(w) <=> LP!RequiredReady(w)
    BY DEF L!RequiredReady, LP!RequiredReady, L!Required, LP!Required, L!BinaryOps, LP!BinaryOps
  <2>3. L!RequireTimeout(w) <=> LP!RequireTimeout(w)
    BY DEF L!RequireTimeout, LP!RequireTimeout, L!Required, LP!Required, L!BinaryOps,
           LP!BinaryOps, L!Finish, LP!Finish, L!NoTid, LP!NoTid, L!NoCommand, LP!NoCommand
  <2>4. L!Execute(w) <=> LP!Execute(w)
    BY DEF L!Execute, LP!Execute, L!Outcomes, LP!Outcomes, L!Creators, LP!Creators,
           L!DerivedOps, LP!DerivedOps, L!BinaryOps, LP!BinaryOps, L!Created, LP!Created,
           L!Finish, LP!Finish, L!NoTid, LP!NoTid, L!NoCommand, LP!NoCommand
  <2>5. L!TakeCreated(w) <=> LP!TakeCreated(w)
    BY DEF L!TakeCreated, LP!TakeCreated, L!GetTxn, LP!GetTxn, L!FreshTxn, LP!FreshTxn, L!Slot,
           LP!Slot
  <2>6. L!ReleaseAll(w) <=> LP!ReleaseAll(w)
    BY DEF L!ReleaseAll, LP!ReleaseAll, L!GetTxn, LP!GetTxn, L!FreshTxn, LP!FreshTxn, L!Slot,
           LP!Slot, L!HoldersWithout, LP!HoldersWithout, L!ModeWithout, LP!ModeWithout, L!Woken,
           LP!Woken, L!Blocks, LP!Blocks, L!WRITE_LOCK, LP!WRITE_LOCK, L!READ_LOCK,
           LP!READ_LOCK, L!FREE_LOCK, LP!FREE_LOCK, L!Range, LP!Range
  <2>7. L!Announce(w) <=> LP!Announce(w)
    BY DEF L!Announce, LP!Announce, L!Finish, LP!Finish, L!NoTid, LP!NoTid, L!NoCommand,
           LP!NoCommand
  <2>8. L!SpuriousWakeup(w) <=> LP!SpuriousWakeup(w)
    BY DEF L!SpuriousWakeup, LP!SpuriousWakeup
  <2>. QED
    BY <2>1, <2>2, <2>3, <2>4, <2>5, <2>6, <2>7, <2>8
<1>3. ASSUME NEW w \in Workers, NEW t \in Tids, NEW c \in Program[t]
      PROVE  L!Receive(w, t, c) <=> LP!Receive(w, t, c)
  BY DEF L!Receive, LP!Receive, L!OwnerIsQuiet, LP!OwnerIsQuiet, L!LockPlan, LP!LockPlan
<1>4. ASSUME NEW t \in Tids PROVE L!Commit(t) <=> LP!Commit(t)
  BY DEF L!Commit, LP!Commit, L!ReceiveCommit, LP!ReceiveCommit, L!OwnerIsQuiet, LP!OwnerIsQuiet
<1>5. ASSUME NEW w \in Workers PROVE L!WorkerStep(w) <=> LP!WorkerStep(w)
  BY <1>1, <1>2 DEF L!WorkerStep, LP!WorkerStep, L!Blocks, LP!Blocks
<1>6. L!Next <=> LP!Next
  BY <1>2, <1>3, <1>4, <1>5 DEF L!Next, LP!Next
<1>. QED
  BY <1>6 DEF L!vars, LP!vars

(***************************************************************************)
(* The constants                                                           *)
(***************************************************************************)

\* A step is a request of a client's script.
LEMMA StepFacts ==
    ASSUME NEW s \in Steps
    PROVE  s[1] \in Clients /\ s[2] \in DOMAIN Script[s[1]] /\ s[2] \in 1 .. Len(Script[s[1]])
<1>1. PICK c \in Clients : s \in {c} \X DOMAIN Script[c]
  BY DEF Steps
<1>2. s[1] = c /\ s[2] \in DOMAIN Script[c]
  BY <1>1
<1>3. DOMAIN Script[c] = 1 .. Len(Script[c])
  BY DbServerAssumption
<1>. QED
  BY <1>2, <1>3

\* The scripts make finitely many transactions, each of them one client's.
LEMMA TidFacts ==
    /\ IsFiniteSet(Tids)
    /\ Tids \subseteq Nat \ {0}
    /\ \A s \in Steps : TidOf(s) \in Tids /\ Owner[TidOf(s)] = s[1]
    /\ \A c \in Clients : \A i \in 1 .. Len(Script[c]) :
          /\ Len(Script[c]) \in Nat
          /\ <<c, i>> \in Steps
          /\ TidOf(<<c, i>>) = Script[c][i].tid
          /\ Script[c][i].tid \in Nat \ {0}
<1>1. ASSUME NEW c \in Clients
      PROVE  /\ Len(Script[c]) \in Nat /\ DOMAIN Script[c] = 1 .. Len(Script[c])
             /\ \A i \in 1 .. Len(Script[c]) : Script[c][i].tid \in Nat \ {0}
  <2>1. /\ Len(Script[c]) \in Nat
        /\ \A i \in 1 .. Len(Script[c]) :
              Script[c][i] \in [type : {"exec", "commit"}, tid : Nat \ {0}]
    BY DispatcherAssumed, DP!RequestFacts
  <2>2. DOMAIN Script[c] = 1 .. Len(Script[c])
    BY DbServerAssumption
  <2>. QED
    BY <2>1, <2>2
<1>2. ASSUME NEW c \in Clients, NEW i \in 1 .. Len(Script[c])
      PROVE  /\ Len(Script[c]) \in Nat
             /\ <<c, i>> \in Steps
             /\ TidOf(<<c, i>>) = Script[c][i].tid
             /\ Script[c][i].tid \in Nat \ {0}
  <2>1. <<c, i>> \in {c} \X DOMAIN Script[c]
    BY <1>1
  <2>2. <<c, i>> \in Steps
    BY <2>1 DEF Steps
  <2>. QED
    BY <1>1, <2>2 DEF TidOf
<1>3. ASSUME NEW s \in Steps
      PROVE  /\ TidOf(s) \in Tids /\ TidOf(s) \in Nat \ {0}
             /\ Owner[TidOf(s)] = s[1]
  <2>1. TidOf(s) \in Tids
    BY DEF Tids
  <2>2. PICK u \in Steps : u = CHOOSE x \in Steps : TidOf(x) = TidOf(s)
    OBVIOUS
  <2>3. TidOf(u) = TidOf(s)
    BY <2>2
  <2>4. u[1] = s[1]
    BY <2>3, DbServerAssumption
  <2>5. TidOf(s) \in Nat \ {0}
    BY <1>1, StepFacts DEF TidOf
  <2>. QED
    BY <2>1, <2>2, <2>4, <2>5 DEF Owner
<1>4. Tids \subseteq Nat \ {0}
  BY <1>3 DEF Tids
<1>5. IsFiniteSet(Tids)
  <2>. DEFINE F(c) == {c} \X DOMAIN Script[c]
  <2>1. IsFiniteSet(Clients)
    BY FS_Interval, FS_Subset, 1 \in Int, 9 \in Int, DbServerAssumption
  <2>2. ASSUME NEW c \in Clients PROVE IsFiniteSet(F(c))
    <3>1. Len(Script[c]) \in Int
      BY <1>1
    <3>2. IsFiniteSet(1 .. Len(Script[c]))
      BY <3>1, 1 \in Int, FS_Interval
    <3>3. IsFiniteSet({c})
      BY FS_Singleton
    <3>. QED
      BY <1>1, <3>2, <3>3, FS_Product
  <2>. HIDE DEF F
  <2>3. IsFiniteSet({F(c) : c \in Clients})
    <3>1. [c \in Clients |-> F(c)] \in Surjection(Clients, {F(c) : c \in Clients})
      BY DEF Surjection
    <3>. QED
      BY <2>1, <3>1, FS_Surjection
  <2>4. IsFiniteSet(UNION {F(c) : c \in Clients})
    BY <2>2, <2>3, FS_UNION
  <2>5. IsFiniteSet(Steps)
    BY <2>4 DEF Steps, F
  <2>6. [s \in Steps |-> TidOf(s)] \in Surjection(Steps, Tids)
    BY DEF Surjection, Tids
  <2>. QED
    BY <2>5, <2>6, FS_Surjection
<1>. QED
  BY <1>2, <1>3, <1>4, <1>5

\* So the lock manager is used as it assumes it is (ConstantsAssumption).
LEMMA LockManagerAssumed ==
    /\ DiskSize \in Nat \ {0}
    /\ SlotCount \in Nat \ {0}
    /\ MaxHolders \in Nat \ {0}
    /\ Tids \subseteq Nat \ {0}
    /\ LP!IsFiniteSet(Tids)
    /\ Bucket \in [Names -> LP!Blocks]
    /\ Program \in [Tids -> SUBSET LP!Command]
<1>1. Program \in [Tids -> SUBSET LP!Command]
  <2>1. L!Command = LP!Command
    BY DEF L!Command, LP!Command, L!UnaryOps, LP!UnaryOps, L!DerivedOps, LP!DerivedOps,
           L!BinaryOps, LP!BinaryOps
  <2>2. ASSUME NEW s \in Steps, Script[s[1]][s[2]].type = "exec"
        PROVE  Text[s[1]][s[2]] \in L!Command
    <3>1. s[1] \in Clients /\ s[2] \in DOMAIN Script[s[1]]
      BY StepFacts
    <3>. QED
      BY <2>2, <3>1, DbServerAssumption
  <2>. QED
    BY <2>1, <2>2 DEF Program
<1>2. LP!IsFiniteSet(Tids)
  BY TidFacts DEF LP!IsFiniteSet, IsFiniteSet
<1>. QED
  BY <1>1, <1>2, TidFacts, DbServerAssumption DEF LP!Blocks, L!Blocks

\* No two clients run the same transaction: all that the gate needs of the ids.
LEMMA TidsApart == DP!TidsApart
<1>. SUFFICES ASSUME NEW c \in Clients, NEW d \in Clients,
                    NEW i \in 1 .. Len(Script[c]), NEW j \in 1 .. Len(Script[d]),
                    Script[c][i].tid = Script[d][j].tid
             PROVE  c = d
  BY DEF DP!TidsApart
<1>1. <<c, i>> \in Steps /\ <<d, j>> \in Steps /\ TidOf(<<c, i>>) = TidOf(<<d, j>>)
  BY TidFacts
<1>2. <<c, i>>[1] = <<d, j>>[1]
  BY <1>1, DbServerAssumption
<1>. QED
  BY <1>2

(***************************************************************************)
(* The pool is the dispatcher's, but for the clients that die              *)
(***************************************************************************)

\* A step of the server is one of the dispatcher's, or a death.
LEMMA DispatcherStep == [Next]_vars => [DP!Next]_DP!vars \/ \E c \in Clients : Die(c)
<1>. SUFFICES ASSUME [Next]_vars PROVE [DP!Next]_DP!vars \/ \E c \in Clients : Die(c)
  OBVIOUS
<1>1. ASSUME NEW w \in Workers, PoolStep(w) \/ EndExec(w) \/ EndCommit(w) PROVE DP!Next
  <2>1. DP!WorkerStep(w)
    BY <1>1, SamePool DEF PoolStep, EndExec, EndCommit, DP!WorkerStep
  <2>. QED
    BY <2>1 DEF DP!Next
<1>2. ASSUME NEW w \in Workers,
             BeginExec(w) \/ BeginCommit(w) \/ LockStep(w) \/ SpuriousWakeup(w)
      PROVE  UNCHANGED poolVars
  BY <1>2 DEF BeginExec, BeginCommit, Enters, LockStep, SpuriousWakeup
<1>3. UNCHANGED poolVars => UNCHANGED DP!vars
  BY DEF poolVars, DP!vars, DP!connection, DP!turns, DP!stopping
<1>4. ASSUME NEW c \in Clients, ReaderStep(c) \/ ClientStep(c) PROVE DP!Next
  BY <1>4, SameEnds DEF ReaderStep, ClientStep, DP!Next
<1>5. ASSUME MainStep PROVE DP!Next
  BY <1>5, SameEnds DEF MainStep, DP!Next
<1>6. CASE UNCHANGED vars
  BY <1>3, <1>6 DEF vars
<1>. QED
  BY <1>1, <1>2, <1>3, <1>4, <1>5, <1>6 DEF Next, WorkerStep

\* Nobody in the server sees a client die.
LEMMA DieKeeps ==
    ASSUME DP!IInv, DP!GateHolds, NEW c \in Clients, Die(c)
    PROVE  DP!IInv' /\ DP!GateHolds'
<1>0. DP!TypeOK /\ DP!OnePlace /\ DP!ItemsRight /\ DP!Progress
  BY DEF DP!IInv
<1>1. UNCHANGED <<sent, unread, reader, queue, pc, item, phase, turn, votes, running, main,
                  sentinels, served>>
  BY DEF Die
<1>2. /\ client' \in [Clients -> {"outside", "ready", "waiting", "gone"}]
      /\ \A d \in Clients : client'[d] = client[d] \/ client'[d] = "gone"
  BY <1>0 DEF Die, DP!TypeOK
<1>3. DP!TypeOK'
  BY <1>0, <1>1, <1>2 DEF DP!TypeOK, DP!Requests
<1>4. /\ \A d \in Clients : (DP!InQueue(d)' <=> DP!InQueue(d)) /\ (DP!Held(d)' <=> DP!Held(d))
      /\ \A d \in Clients : DP!Nowhere(d)' <=> DP!Nowhere(d)
      /\ \A d \in Clients : DP!InTransit(d)' <=> DP!InTransit(d)
      /\ DP!QueueUnique' <=> DP!QueueUnique
      /\ DP!WorkersUnique' <=> DP!WorkersUnique
  BY <1>1 DEF DP!InQueue, DP!Held, DP!HasItem, DP!Nowhere, DP!InTransit, DP!QueueUnique,
              DP!WorkersUnique, DP!Busy
<1>5. DP!OnePlace'
  BY <1>0, <1>1, <1>2, <1>4 DEF DP!OnePlace
<1>6. DP!ItemsRight'
  BY <1>0, <1>1 DEF DP!ItemsRight, DP!RightItem, DP!ItemOf, DP!Requests, DP!Busy
<1>7. DP!Progress'
  BY <1>0, <1>1, <1>4 DEF DP!Progress, DP!Due
<1>8. DP!GateHolds'
  BY <1>1 DEF DP!GateHolds, DP!PhaseIsReady
<1>. QED
  BY <1>3, <1>5, <1>6, <1>7, <1>8 DEF DP!IInv

\* So the dispatcher's invariants are the server's too.
LEMMA DispatcherKeeps == DP!IInv /\ DP!GateHolds /\ [Next]_vars => (DP!IInv /\ DP!GateHolds)'
<1>. SUFFICES ASSUME DP!IInv, DP!GateHolds, [Next]_vars PROVE (DP!IInv /\ DP!GateHolds)'
  OBVIOUS
<1>1. CASE [DP!Next]_DP!vars
  BY <1>1, DispatcherAssumed, TidsApart, DP!InvStep, DP!GateStep
<1>2. ASSUME NEW c \in Clients, Die(c) PROVE (DP!IInv /\ DP!GateHolds)'
  BY <1>2, DieKeeps
<1>. QED
  BY <1>1, <1>2, DispatcherStep

(***************************************************************************)
(* The two records of what a worker is doing                               *)
(***************************************************************************)

\* A worker in the lock table is carrying out the item that it has taken from
\* the queue, and it is the item's transaction that it serves there.
Agreement ==
    /\ \A w \in Workers : lpc[w] = "idle" => tid[w] = LP!NoTid
    /\ \A w \in Workers : lpc[w] # "idle" =>
          /\ pc[w] = "serve"
          /\ tid[w] = item[w].tid
          /\ item[w].type = IF lpc[w] \in LP!Executing THEN "exec" ELSE "commit"

\* What a worker is about to carry out is its client's last request, one of
\* the client's own transactions, and no other worker serves that client.
LEMMA Requested ==
    ASSUME DP!IInv, NEW w \in Workers, pc[w] = "serve", item[w].type \in {"exec", "commit"}
    PROVE  \E c \in Clients :
             /\ item[w].from = c
             /\ sent[c] \in 1 .. Len(Script[c]) /\ <<c, sent[c]>> \in Steps
             /\ item[w].tid = TidOf(<<c, sent[c]>>)
             /\ item[w].type = Script[c][sent[c]].type
             /\ item[w].tid \in Tids /\ Owner[item[w].tid] = c
             /\ item[w].type = "exec" => CommandOf(c) \in Program[item[w].tid]
             /\ \A v \in Workers : pc[v] \in {"serve", "reply"} /\ item[v].from = c => v = w
             /\ client[c] \notin {"outside", "ready"}
<1>1. PICK c \in Clients :
         /\ item[w].from = c /\ item[w] = DP!ItemOf(c) /\ DP!Held(c)
         /\ \A v \in Workers : DP!HasItem(v, c) => v = w
         /\ DP!InTransit(c)
  BY DispatcherAssumed, DP!WorkItem DEF DP!IInv
<1>2. /\ sent[c] = served[c] + 1 /\ served[c] \in Nat /\ Len(Script[c]) \in Nat
      /\ served[c] < Len(Script[c])
      /\ item[w].type = Script[c][served[c] + 1].type
      /\ item[w].tid = Script[c][served[c] + 1].tid
  BY <1>1, DispatcherAssumed, DP!ServedNext
<1>3. sent[c] \in 1 .. Len(Script[c]) /\ item[w].tid = Script[c][sent[c]].tid
      /\ item[w].type = Script[c][sent[c]].type
  BY <1>2
<1>4. /\ <<c, sent[c]>> \in Steps
      /\ item[w].tid = TidOf(<<c, sent[c]>>)
  BY <1>3, TidFacts
<1>5. item[w].tid \in Tids /\ Owner[item[w].tid] = c
  BY <1>4, TidFacts
<1>6. ASSUME item[w].type = "exec" PROVE CommandOf(c) \in Program[item[w].tid]
  <2>. DEFINE t == item[w].tid
              S == {x \in Steps : TidOf(x) = t /\ Script[x[1]][x[2]].type = "exec"}
              u == <<c, sent[c]>>
  <2>1. u[1] = c /\ u[2] = sent[c]
    OBVIOUS
  <2>2. u \in S
    BY <1>3, <1>4, <1>6, <2>1
  <2>3. Program[t] = {Text[x[1]][x[2]] : x \in S}
    BY <1>5 DEF Program
  <2>4. CommandOf(c) = Text[u[1]][u[2]]
    BY <2>1 DEF CommandOf
  <2>. QED
    BY <2>2, <2>3, <2>4
<1>7. ASSUME NEW v \in Workers, pc[v] \in {"serve", "reply"}, item[v].from = c PROVE v = w
  BY <1>1, <1>7 DEF DP!HasItem
<1>8. client[c] \notin {"outside", "ready"}
  BY <1>1 DEF DP!IInv, DP!OnePlace, DP!Nowhere
<1>. QED
  BY <1>1, <1>3, <1>4, <1>5, <1>6, <1>7, <1>8

\* So nobody else is at work for a transaction that is about to be served.
LEMMA Quiet ==
    ASSUME DP!IInv, Agreement, NEW w \in Workers, pc[w] = "serve",
           item[w].type \in {"exec", "commit"}, lpc[w] = "idle"
    PROVE  L!OwnerIsQuiet(item[w].tid)
<1>1. PICK c \in Clients :
         /\ Owner[item[w].tid] = c
         /\ \A v \in Workers : pc[v] \in {"serve", "reply"} /\ item[v].from = c => v = w
  BY Requested
<1>2. ASSUME NEW v \in Workers, lpc[v] # "idle" PROVE Owner[tid[v]] # c
  <2>1. pc[v] = "serve" /\ tid[v] = item[v].tid /\ item[v].type \in {"exec", "commit"}
    BY <1>2 DEF Agreement
  <2>2. Owner[tid[v]] = item[v].from
    BY <2>1, Requested
  <2>. QED
    BY <1>1, <1>2, <2>1, <2>2
<1>. QED
  BY <1>1, <1>2 DEF L!OwnerIsQuiet

\* Every step of the server is a step of the lock manager, or none.
LEMMA LockStepMaps ==
    ASSUME DP!IInv, Agreement, [Next]_vars
    PROVE  [L!Next]_L!vars
<1>0. UNCHANGED lockVars => UNCHANGED L!vars
  BY DEF lockVars, L!vars
<1>1. ASSUME NEW w \in Workers, BeginExec(w) PROVE L!Next
  <2>1. /\ pc[w] = "serve" /\ item[w].type = "exec" /\ lpc[w] = "idle"
    BY <1>1 DEF BeginExec, Enters
  <2>2. PICK c \in Clients :
           /\ item[w].from = c /\ item[w].tid \in Tids
           /\ CommandOf(c) \in Program[item[w].tid]
    BY <2>1, Requested
  <2>3. L!Receive(w, item[w].tid, CommandOf(c))
    BY <1>1, <2>1, <2>2, Quiet DEF BeginExec, Enters, L!Receive
  <2>. QED
    BY <2>2, <2>3 DEF L!Next
<1>2. ASSUME NEW w \in Workers, BeginCommit(w) PROVE L!Next
  <2>1. /\ pc[w] = "serve" /\ item[w].type = "commit" /\ lpc[w] = "idle"
    BY <1>2 DEF BeginCommit, Enters
  <2>2. item[w].tid \in Tids
    BY <2>1, Requested
  <2>3. L!ReceiveCommit(w, item[w].tid)
    BY <1>2, <2>1, Quiet DEF BeginCommit, Enters, L!ReceiveCommit
  <2>. QED
    BY <2>2, <2>3 DEF L!Next, L!Commit
<1>3. ASSUME NEW w \in Workers, LockStep(w) \/ EndExec(w) \/ EndCommit(w) PROVE L!Next
  <2>1. L!WorkerStep(w)
    BY <1>3 DEF LockStep, EndExec, EndCommit, L!WorkerStep
  <2>. QED
    BY <2>1 DEF L!Next
<1>4. ASSUME NEW w \in Workers, SpuriousWakeup(w) PROVE L!Next
  BY <1>4 DEF SpuriousWakeup, L!Next
<1>5. ASSUME NEW w \in Workers, PoolStep(w) PROVE UNCHANGED lockVars
  BY <1>5 DEF PoolStep
<1>6. ASSUME NEW c \in Clients, ReaderStep(c) \/ ClientStep(c) \/ Die(c) PROVE UNCHANGED lockVars
  BY <1>6 DEF ReaderStep, ClientStep, Die
<1>7. ASSUME MainStep PROVE UNCHANGED lockVars
  BY <1>7 DEF MainStep
<1>8. CASE UNCHANGED vars
  BY <1>0, <1>8 DEF vars
<1>. QED
  BY <1>0, <1>1, <1>2, <1>3, <1>4, <1>5, <1>6, <1>7, <1>8 DEF Next, WorkerStep

(***************************************************************************)
(* The inductive invariant                                                 *)
(***************************************************************************)
\* A client that has not connected has sent nothing.
NothingSent == \A c \in Clients : client[c] = "outside" => sent[c] = 0

\* The components' inductive invariants, and what ties them together.
ServerInv == DP!IInv /\ DP!GateHolds /\ LP!Shape /\ Agreement /\ NothingSent

LEMMA ServerInit == Init => ServerInv
<1>. SUFFICES ASSUME Init PROVE ServerInv
  OBVIOUS
<1>1. DP!IInv /\ DP!GateHolds
  <2>1. DP!Init
    BY SameEnds DEF Init
  <2>. QED
    BY <2>1, DispatcherAssumed, DP!InvInit, DP!GateInit
<1>2. LP!Shape
  <2>1. LP!Init
    BY DEF Init, L!Init, LP!Init, L!Blocks, LP!Blocks, L!FREE_LOCK, LP!FREE_LOCK, L!Slots,
           LP!Slots, L!NoTid, LP!NoTid, L!NoCommand, LP!NoCommand
  <2>. QED
    BY <2>1, LockManagerAssumed, LP!ShapeInit
<1>3. Agreement
  BY DEF Init, L!Init, L!NoTid, LP!NoTid, Agreement
<1>4. NothingSent
  BY DEF Init, D!Init, NothingSent
<1>. QED
  BY <1>1, <1>2, <1>3, <1>4 DEF ServerInv

\* The two records go on together: a worker enters the table with its item and
\* leaves it with the answer.
LEMMA AgreementStep == ServerInv /\ [Next]_vars => Agreement'
<1>. SUFFICES ASSUME ServerInv, [Next]_vars, NEW v \in Workers
              PROVE  /\ lpc'[v] = "idle" => tid'[v] = LP!NoTid
                     /\ lpc'[v] # "idle" =>
                          /\ pc'[v] = "serve"
                          /\ tid'[v] = item'[v].tid
                          /\ item'[v].type = IF lpc'[v] \in LP!Executing THEN "exec" ELSE "commit"
  BY DEF Agreement
<1>0. DP!TypeOK /\ LP!TypeOK /\ Agreement /\ DP!IInv
  BY DEF ServerInv, DP!IInv, LP!Shape
<1>t. /\ pc \in [Workers -> {"receive", "gate", "requeue", "serve", "reply", "check", "exited"}]
      /\ item \in [Workers -> DP!Item]
      /\ lpc \in [Workers -> LP!ProgramCounter]
      /\ tid \in [Workers -> Tids \union {LP!NoTid}]
  BY <1>0 DEF DP!TypeOK, LP!TypeOK
<1>same. ASSUME UNCHANGED <<lpc, tid>>, lpc[v] # "idle" => pc'[v] = pc[v] /\ item'[v] = item[v]
         PROVE  /\ lpc'[v] = "idle" => tid'[v] = LP!NoTid
                /\ lpc'[v] # "idle" =>
                     /\ pc'[v] = "serve"
                     /\ tid'[v] = item'[v].tid
                     /\ item'[v].type = IF lpc'[v] \in LP!Executing THEN "exec" ELSE "commit"
  BY <1>0, <1>same DEF Agreement
<1>1. ASSUME NEW w \in Workers, PoolStep(w)
      PROVE  UNCHANGED <<lpc, tid>> /\ (lpc[v] # "idle" => pc'[v] = pc[v] /\ item'[v] = item[v])
  <2>1. UNCHANGED <<lpc, tid>>
    BY <1>1 DEF PoolStep, lockVars
  <2>2. v # w => pc'[v] = pc[v] /\ item'[v] = item[v]
    BY <1>1, <1>t DEF PoolStep, D!Receive, D!Gate, D!Requeue, D!ServeShutdown, D!Reply, D!WorkerCheck
  <2>3. lpc[w] = "idle"
    BY <1>0, <1>1 DEF PoolStep, D!Receive, D!Gate, D!Requeue, D!ServeShutdown, D!Reply,
                      D!WorkerCheck, Agreement
  <2>. QED
    BY <2>1, <2>2, <2>3
<1>2. ASSUME NEW w \in Workers, BeginExec(w) \/ BeginCommit(w)
      PROVE  /\ lpc'[v] = "idle" => tid'[v] = LP!NoTid
             /\ lpc'[v] # "idle" =>
                  /\ pc'[v] = "serve"
                  /\ tid'[v] = item'[v].tid
                  /\ item'[v].type = IF lpc'[v] \in LP!Executing THEN "exec" ELSE "commit"
  <2>1. /\ pc[w] = "serve" /\ UNCHANGED <<pc, item>>
        /\ tid' = [tid EXCEPT ![w] = item[w].tid]
    BY <1>2 DEF BeginExec, BeginCommit, Enters, poolVars
  <2>2. \/ item[w].type = "exec" /\ lpc' = [lpc EXCEPT ![w] = "lock"]
        \/ item[w].type = "commit" /\ lpc' = [lpc EXCEPT ![w] = "commit"]
    BY <1>2 DEF BeginExec, BeginCommit, Enters
  <2>3. CASE v = w
    BY <1>t, <2>1, <2>2, <2>3 DEF LP!Executing
  <2>4. CASE v # w
    BY <1>0, <1>t, <2>1, <2>2, <2>4 DEF Agreement
  <2>. QED
    BY <2>3, <2>4
<1>3. ASSUME NEW w \in Workers, LockStep(w)
      PROVE  /\ lpc'[v] = "idle" => tid'[v] = LP!NoTid
             /\ lpc'[v] # "idle" =>
                  /\ pc'[v] = "serve"
                  /\ tid'[v] = item'[v].tid
                  /\ item'[v].type = IF lpc'[v] \in LP!Executing THEN "exec" ELSE "commit"
  <2>1. UNCHANGED <<pc, item, tid>>
    BY <1>3 DEF LockStep, poolVars, L!LockAlreadyHeld, L!LockGrantNow, L!LockEnqueue,
                L!GrantAfterWait, L!SleepAgain, L!LocksAcquired, L!RequiredReady, L!TakeCreated,
                L!ReleaseAll
  <2>2. \/ UNCHANGED lpc
        \/ lpc[w] \in LP!Executing /\ \E x \in LP!Executing : lpc' = [lpc EXCEPT ![w] = x]
        \/ /\ lpc[w] \in {"commit", "release"}
           /\ \E x \in {"release", "announce"} : lpc' = [lpc EXCEPT ![w] = x]
    BY <1>3 DEF LockStep, L!LockAlreadyHeld, L!LockGrantNow, L!LockEnqueue,
                L!GrantAfterWait, L!SleepAgain, L!LocksAcquired, L!RequiredReady, L!TakeCreated,
                L!ReleaseAll, LP!Executing
  <2>3. /\ lpc'[v] = "idle" <=> lpc[v] = "idle"
        /\ lpc'[v] \in LP!Executing <=> lpc[v] \in LP!Executing
    BY <1>t, <2>2 DEF LP!Executing
  <2>. QED
    BY <1>0, <2>1, <2>3 DEF Agreement
<1>4. ASSUME NEW w \in Workers, EndExec(w) \/ EndCommit(w)
      PROVE  /\ lpc'[v] = "idle" => tid'[v] = LP!NoTid
             /\ lpc'[v] # "idle" =>
                  /\ pc'[v] = "serve"
                  /\ tid'[v] = item'[v].tid
                  /\ item'[v].type = IF lpc'[v] \in LP!Executing THEN "exec" ELSE "commit"
  <2>1. L!Finish(w)
    BY <1>4 DEF EndExec, EndCommit, L!Execute, L!RequireTimeout, L!Announce
  <2>2. lpc' = [lpc EXCEPT ![w] = "idle"] /\ tid' = [tid EXCEPT ![w] = LP!NoTid]
    BY <2>1 DEF L!Finish, L!NoTid, LP!NoTid
  <2>3. item' = item /\ pc' = [pc EXCEPT ![w] = "reply"]
    BY <1>4 DEF EndExec, EndCommit, D!ServeExec, D!ServeCommit
  <2>. QED
    BY <1>0, <1>t, <2>2, <2>3 DEF Agreement
<1>5. ASSUME NEW w \in Workers, SpuriousWakeup(w) PROVE UNCHANGED <<lpc, tid, pc, item>>
  BY <1>5 DEF SpuriousWakeup, L!SpuriousWakeup, poolVars
<1>6. ASSUME NEW c \in Clients, ReaderStep(c) \/ ClientStep(c) \/ Die(c)
      PROVE  UNCHANGED <<lpc, tid, pc, item>>
  BY <1>6 DEF ReaderStep, ClientStep, Die, lockVars, D!ReaderStep, D!ReadRequest, D!ReadEnd,
              D!Enqueue, D!ReaderCheck, D!ClientStep, D!Connect, D!Send, D!Leave
<1>7. ASSUME MainStep PROVE UNCHANGED <<lpc, tid, pc, item>>
  BY <1>7 DEF MainStep, lockVars, D!MainStep, D!StopAccepting, D!SendSentinel, D!Exit
<1>8. CASE UNCHANGED vars
  BY <1>8, <1>same DEF vars, poolVars, lockVars
<1>. QED
  BY <1>same, <1>1, <1>2, <1>3, <1>4, <1>5, <1>6, <1>7, <1>8 DEF Next, WorkerStep

LEMMA NothingSentStep == ServerInv /\ [Next]_vars => NothingSent'
<1>. SUFFICES ASSUME ServerInv, [Next]_vars PROVE NothingSent'
  OBVIOUS
<1>0. /\ client \in [Clients -> {"outside", "ready", "waiting", "gone"}]
      /\ sent \in [Clients -> Nat]
      /\ NothingSent
  BY DEF ServerInv, DP!IInv, DP!TypeOK
<1>1. ASSUME \A c \in Clients : /\ client'[c] = "outside" => client[c] = "outside"
                                /\ client'[c] = "outside" => sent'[c] = sent[c]
      PROVE  NothingSent'
  BY <1>0, <1>1 DEF NothingSent
<1>2. ASSUME NEW c \in Clients, ClientStep(c) \/ Die(c) PROVE NothingSent'
  BY <1>0, <1>1, <1>2 DEF ClientStep, D!ClientStep, D!Connect, D!Send, D!Leave, Die
<1>3. ASSUME NEW c \in Clients, ReaderStep(c) PROVE NothingSent'
  BY <1>1, <1>3 DEF ReaderStep, D!ReaderStep, D!ReadRequest, D!ReadEnd, D!Enqueue, D!ReaderCheck
<1>4. ASSUME MainStep PROVE NothingSent'
  BY <1>1, <1>4 DEF MainStep, D!MainStep, D!StopAccepting, D!SendSentinel, D!Exit, D!connection
<1>5. ASSUME NEW w \in Workers,
             BeginExec(w) \/ BeginCommit(w) \/ LockStep(w) \/ SpuriousWakeup(w)
      PROVE  NothingSent'
  BY <1>1, <1>5 DEF BeginExec, BeginCommit, Enters, LockStep, SpuriousWakeup, poolVars
<1>6. ASSUME NEW w \in Workers, PoolStep(w) \/ EndExec(w) \/ EndCommit(w) PROVE NothingSent'
  BY <1>0, <1>1, <1>6
     DEF PoolStep, EndExec, EndCommit, D!Receive, D!Gate, D!Requeue, D!ServeShutdown, D!Reply,
         D!WorkerCheck, D!ServeExec, D!ServeCommit, D!connection
<1>7. CASE UNCHANGED vars
  BY <1>1, <1>7 DEF vars, poolVars
<1>. QED
  BY <1>2, <1>3, <1>4, <1>5, <1>6, <1>7 DEF Next, WorkerStep

LEMMA ServerStep == ServerInv /\ [Next]_vars => ServerInv'
<1>. SUFFICES ASSUME ServerInv, [Next]_vars PROVE ServerInv'
  OBVIOUS
<1>1. (DP!IInv /\ DP!GateHolds)'
  BY DispatcherKeeps DEF ServerInv
<1>2. LP!Shape'
  <2>1. [LP!Next]_LP!vars
    BY LockStepMaps, SameLocks DEF ServerInv
  <2>. QED
    BY <2>1, LockManagerAssumed, LP!ShapeStep DEF ServerInv
<1>. QED
  BY <1>1, <1>2, AgreementStep, NothingSentStep DEF ServerInv

LEMMA ServerCorrect == Spec => []ServerInv
BY ServerInit, ServerStep, PTL DEF Spec

(***************************************************************************)
(* The theorems about the gate and the lock manager's steps                *)
(***************************************************************************)

\* A turn that was looked at when the request was accepted is not handed on
\* while the request is carried out, however long that takes.
THEOREM ServerGateOpen == Spec => []GateStillOpen
<1>1. ServerInv => GateStillOpen
  <2>. SUFFICES ASSUME ServerInv, NEW w \in Workers, lpc[w] # "idle" PROVE D!PhaseIsReady(tid[w])
    BY DEF GateStillOpen
  <2>1. pc[w] = "serve" /\ tid[w] = item[w].tid /\ item[w].type \in {"exec", "commit"}
    BY DEF ServerInv, Agreement
  <2>2. DP!PhaseIsReady(item[w].tid)
    BY <2>1 DEF ServerInv, DP!GateHolds
  <2>. QED
    BY <2>1, <2>2 DEF D!PhaseIsReady, DP!PhaseIsReady, D!txn_client_id, D!txn_phase_id,
                      DP!txn_client_id, DP!txn_phase_id
<1>. QED
  BY <1>1, ServerCorrect, PTL

\* The dispatcher hands requests over in the way the lock manager assumes:
\* commands of the transaction's script, and one worker for a client at a time,
\* whatever clients die.
THEOREM ServerImplementsLockManager == Spec => ImplementsLockManager
<1>1. Init => L!Init
  BY DEF Init
<1>2. ServerInv /\ [Next]_vars => [L!Next]_L!vars
  BY LockStepMaps DEF ServerInv
<1>. QED
  BY <1>1, <1>2, ServerCorrect, PTL DEF Spec, ImplementsLockManager, L!Spec

(***************************************************************************)
(* What an answered commit leaves behind                                   *)
(***************************************************************************)

\* The transaction holds no bucket, and nobody serves it.
Clean(t) ==
    /\ \A b \in LP!Blocks : t \notin holders[b]
    /\ \A w \in Workers : tid[w] # t

\* A worker that is about to answer a commit has cleared its transaction.
RepliesClean ==
    \A w \in Workers : pc[w] = "reply" /\ item[w].type = "commit" =>
        /\ item[w].tid \in Tids /\ Owner[item[w].tid] = item[w].from
        /\ Clean(item[w].tid)

\* A bucket gets a holder only from a worker that serves it.
LEMMA HoldersGrow ==
    ASSUME [LP!Next]_LP!vars, holders \in [LP!Blocks -> SUBSET Tids],
           NEW b \in LP!Blocks, NEW s \in holders'[b]
    PROVE  s \in holders[b] \/ \E w \in Workers : tid[w] = s
<1>1. CASE UNCHANGED <<mode, holders>>
  BY <1>1
<1>2. ASSUME NEW t, NEW R PROVE LP!HoldersWithout(t, R)[b] \subseteq holders[b]
  BY DEF LP!HoldersWithout
<1>3. ASSUME NEW w \in Workers, NEW x \in LP!Blocks, LP!LockGrantNow(w, x)
      PROVE  s \in holders[b] \/ tid[w] = s
  <2>. DEFINE H == LP!HoldersWithout(tid[w], LP!Dropped(tid[w], x))
  <2>1. holders' = [H EXCEPT ![x] = LP!HoldersWith(@, tid[w])]
    BY <1>3 DEF LP!LockGrantNow
  <2>2. DOMAIN H = LP!Blocks
    BY DEF LP!HoldersWithout
  <2>. HIDE DEF H
  <2>3. holders'[b] = IF b = x THEN LP!HoldersWith(H[b], tid[w]) ELSE H[b]
    BY <2>1, <2>2
  <2>4. H[b] \subseteq holders[b]
    BY <1>2 DEF H
  <2>. QED
    BY <2>3, <2>4 DEF LP!HoldersWith
<1>4. ASSUME NEW w \in Workers, NEW x \in LP!Blocks, LP!LockEnqueue(w, x)
      PROVE  s \in holders[b]
  BY <1>2, <1>4 DEF LP!LockEnqueue
<1>5. ASSUME NEW w \in Workers, NEW x \in LP!Blocks, LP!GrantAfterWait(w, x)
      PROVE  s \in holders[b] \/ tid[w] = s
  <2>1. holders'[b] = IF b = x THEN LP!HoldersWith(holders[b], tid[w]) ELSE holders[b]
    BY <1>5 DEF LP!GrantAfterWait
  <2>. QED
    BY <2>1 DEF LP!HoldersWith
<1>6. ASSUME NEW w \in Workers, LP!ReleaseAll(w) PROVE s \in holders[b]
  BY <1>2, <1>6 DEF LP!ReleaseAll
<1>. QED
  BY <1>1, <1>3, <1>4, <1>5, <1>6, LockManagerAssumed, LP!LockTableSteps

\* The transactions of the workers change with the requests.
LEMMA TidsChange ==
    ASSUME ServerInv, [Next]_vars, NEW v \in Workers
    PROVE  \/ tid'[v] = tid[v]
           \/ tid'[v] = LP!NoTid
           \/ (BeginExec(v) \/ BeginCommit(v)) /\ tid'[v] = item[v].tid
<1>0. tid \in [Workers -> Tids \union {LP!NoTid}]
  BY DEF ServerInv, LP!Shape, LP!TypeOK
<1>1. ASSUME NEW w \in Workers, BeginExec(w) \/ BeginCommit(w)
      PROVE  tid'[v] = tid[v] \/ (v = w /\ tid'[v] = item[v].tid)
  BY <1>0, <1>1 DEF BeginExec, BeginCommit, Enters
<1>2. ASSUME NEW w \in Workers, EndExec(w) \/ EndCommit(w)
      PROVE  tid'[v] = tid[v] \/ tid'[v] = LP!NoTid
  <2>1. L!Finish(w)
    BY <1>2 DEF EndExec, EndCommit, L!Execute, L!RequireTimeout, L!Announce
  <2>. QED
    BY <1>0, <2>1 DEF L!Finish, L!NoTid, LP!NoTid
<1>3. ASSUME NEW w \in Workers, LockStep(w) PROVE UNCHANGED tid
  BY <1>3 DEF LockStep, L!LockAlreadyHeld, L!LockGrantNow, L!LockEnqueue, L!GrantAfterWait,
              L!SleepAgain, L!LocksAcquired, L!RequiredReady, L!TakeCreated, L!ReleaseAll
<1>4. ASSUME NEW w \in Workers, PoolStep(w) \/ SpuriousWakeup(w) PROVE UNCHANGED tid
  BY <1>4 DEF PoolStep, lockVars, SpuriousWakeup, L!SpuriousWakeup
<1>5. ASSUME NEW c \in Clients, ReaderStep(c) \/ ClientStep(c) \/ Die(c) PROVE UNCHANGED tid
  BY <1>5 DEF ReaderStep, ClientStep, Die, lockVars
<1>6. ASSUME MainStep \/ UNCHANGED vars PROVE UNCHANGED tid
  BY <1>6 DEF MainStep, vars, lockVars
<1>. QED
  BY <1>1, <1>2, <1>3, <1>4, <1>5, <1>6 DEF Next, WorkerStep

\* What is clear stays clear until the transaction is served again.
LEMMA CleanStays ==
    ASSUME ServerInv, [Next]_vars, NEW t \in Tids, Clean(t),
           ~ \E w \in Workers : (BeginExec(w) \/ BeginCommit(w)) /\ item[w].tid = t
    PROVE  Clean(t)'
<1>1. [LP!Next]_LP!vars
  BY LockStepMaps, SameLocks DEF ServerInv
<1>2. holders \in [LP!Blocks -> SUBSET Tids]
  BY DEF ServerInv, LP!Shape, LP!TypeOK
<1>3. \A b \in LP!Blocks : t \notin holders'[b]
  BY <1>1, <1>2, HoldersGrow DEF Clean
<1>4. t # LP!NoTid
  BY TidFacts DEF LP!NoTid
<1>5. \A v \in Workers : tid'[v] # t
  BY <1>4, TidsChange DEF Clean
<1>. QED
  BY <1>3, <1>5 DEF Clean

\* The commit that a worker has just carried out has cleared its transaction.
LEMMA EndCommitClears ==
    ASSUME ServerInv, LP!CommitReleasesAll, [Next]_vars, NEW w \in Workers, EndCommit(w),
           NEW t, t = item[w].tid
    PROVE  t \in Tids /\ Owner[t] = item[w].from /\ Clean(t)'
<1>1. lpc[w] = "announce" /\ pc[w] = "serve" /\ item[w].type = "commit" /\ tid[w] = item[w].tid
  BY DEF EndCommit, L!Announce, D!ServeCommit, ServerInv, Agreement
<1>2. item[w].tid \in Tids /\ Owner[item[w].tid] = item[w].from
  BY <1>1, Requested DEF ServerInv
<1>3. \A b \in LP!Blocks : item[w].tid \notin holders'[b]
  BY <1>1 DEF LP!CommitReleasesAll, EndCommit, L!Announce
<1>4. item[w].tid # LP!NoTid
  BY <1>2, TidFacts DEF LP!NoTid
<1>5. ASSUME NEW v \in Workers, tid'[v] = item[w].tid PROVE FALSE
  <2>1. tid' = [tid EXCEPT ![w] = LP!NoTid] /\ w \in DOMAIN tid
    BY DEF EndCommit, L!Announce, L!Finish, L!NoTid, LP!NoTid, ServerInv, LP!Shape, LP!TypeOK
  <2>2. v # w /\ tid[v] = tid[w]
    BY <1>1, <1>4, <1>5, <2>1
  <2>3. lpc[v] # "idle"
    BY <1>1, <1>4, <2>2 DEF ServerInv, Agreement
  <2>. QED
    BY <1>1, <2>2, <2>3 DEF ServerInv, LP!Shape, LP!OneWorkerPerClient
<1>. QED
  BY <1>2, <1>3, <1>5 DEF Clean

\* A worker starts on no transaction that has just been cleared: its client has
\* not had the answer, or has not sent its next request.
LEMMA NotBegun ==
    ASSUME ServerInv, NEW w \in Workers, BeginExec(w) \/ BeginCommit(w)
    PROVE  /\ client[Owner[item[w].tid]] # "ready"
           /\ \A v \in Workers : pc[v] = "reply" => item[v].from # Owner[item[w].tid]
<1>1. pc[w] = "serve" /\ item[w].type \in {"exec", "commit"}
  BY DEF BeginExec, BeginCommit, Enters
<1>. QED
  BY <1>1, Requested DEF ServerInv

\* A commit that is answered has cleared its transaction, until the answer.
LEMMA RepliesStep ==
    ASSUME ServerInv, LP!CommitReleasesAll, RepliesClean, [Next]_vars
    PROVE  RepliesClean'
<1>. SUFFICES ASSUME NEW v \in Workers, NEW t, pc'[v] = "reply", item'[v].type = "commit",
                     item'[v].tid = t
              PROVE  t \in Tids /\ Owner[t] = item'[v].from /\ Clean(t)'
  BY DEF RepliesClean, Clean
<1>t. /\ pc \in [Workers -> {"receive", "gate", "requeue", "serve", "reply", "check", "exited"}]
      /\ item \in [Workers -> DP!Item]
  BY DEF ServerInv, DP!IInv, DP!TypeOK
<1>same. ASSUME pc[v] = "reply", item'[v] = item[v]
         PROVE  t \in Tids /\ Owner[t] = item'[v].from /\ Clean(t)'
  <2>1. t \in Tids /\ Owner[t] = item[v].from /\ Clean(t)
    BY <1>same DEF RepliesClean
  <2>2. ~ \E w \in Workers : (BeginExec(w) \/ BeginCommit(w)) /\ item[w].tid = t
    BY <1>same, <2>1, NotBegun
  <2>. QED
    BY <1>same, <2>1, <2>2, CleanStays
<1>1. ASSUME NEW w \in Workers, PoolStep(w)
      PROVE  item'[v].type # "commit" \/ (pc[v] = "reply" /\ item'[v] = item[v])
  <2>1. CASE D!ServeShutdown(w)
    <3>1. item' = item /\ (v # w => pc'[v] = pc[v]) /\ item[w].type = "shutdown"
      BY <1>t, <2>1 DEF D!ServeShutdown
    <3>2. CASE v = w
      BY <3>1, <3>2
    <3>3. CASE v # w
      BY <3>1, <3>3
    <3>. QED
      BY <3>2, <3>3
  <2>2. ASSUME ~ D!ServeShutdown(w), v # w
        PROVE  pc[v] = "reply" /\ item'[v] = item[v]
    <3>1. pc'[v] = pc[v] /\ item'[v] = item[v]
      BY <1>1, <1>t, <2>2 DEF PoolStep, D!Receive, D!Gate, D!Requeue, D!AfterRequeue, D!Reply,
                              D!WorkerCheck
    <3>. QED
      BY <3>1
  <2>3. ASSUME ~ D!ServeShutdown(v), PoolStep(v) PROVE FALSE
    BY <1>t, <2>3 DEF PoolStep, D!Receive, D!Gate, D!Requeue, D!AfterRequeue, D!Reply,
                      D!WorkerCheck
  <2>. QED
    BY <1>1, <2>1, <2>2, <2>3
<1>2. ASSUME NEW w \in Workers, EndExec(w)
      PROVE  item'[v].type # "commit" \/ (pc[v] = "reply" /\ item'[v] = item[v])
  BY <1>2, <1>t DEF EndExec, D!ServeExec
<1>3. ASSUME NEW w \in Workers, EndCommit(w), v # w PROVE pc[v] = "reply" /\ item'[v] = item[v]
  BY <1>3, <1>t DEF EndCommit, D!ServeCommit
<1>4. ASSUME EndCommit(v)
      PROVE  t \in Tids /\ Owner[t] = item'[v].from /\ Clean(t)'
  <2>1. item' = item
    BY <1>4 DEF EndCommit, D!ServeCommit
  <2>. QED
    BY <1>4, <2>1, EndCommitClears
<1>5. ASSUME NEW w \in Workers,
             BeginExec(w) \/ BeginCommit(w) \/ LockStep(w) \/ SpuriousWakeup(w)
      PROVE  UNCHANGED <<pc, item>>
  BY <1>5 DEF BeginExec, BeginCommit, Enters, LockStep, SpuriousWakeup, poolVars
<1>6. ASSUME NEW c \in Clients, ReaderStep(c) \/ ClientStep(c) \/ Die(c)
      PROVE  UNCHANGED <<pc, item>>
  BY <1>6 DEF ReaderStep, ClientStep, Die, D!ReaderStep, D!ReadRequest, D!ReadEnd,
              D!Enqueue, D!ReaderCheck, D!ClientStep, D!Connect, D!Send, D!Leave
<1>7. ASSUME MainStep PROVE UNCHANGED <<pc, item>>
  BY <1>7 DEF MainStep, D!MainStep, D!StopAccepting, D!SendSentinel, D!Exit
<1>8. CASE UNCHANGED vars
  BY <1>8, <1>same DEF vars, poolVars
<1>. QED
  BY <1>same, <1>1, <1>2, <1>3, <1>4, <1>5, <1>6, <1>7, <1>8 DEF Next, WorkerStep

\* A client that is ready was ready, has sent nothing, or gets its answer now.
LEMMA ReadySteps ==
    ASSUME ServerInv, [Next]_vars, NEW c \in Clients, client'[c] = "ready"
    PROVE  \/ client[c] = "ready" /\ sent'[c] = sent[c]
           \/ sent'[c] = 0
           \/ \E w \in Workers : PoolStep(w) /\ D!Reply(w) /\ item[w].from = c
<1>0. /\ client \in [Clients -> {"outside", "ready", "waiting", "gone"}]
      /\ sent \in [Clients -> Nat]
      /\ NothingSent
  BY DEF ServerInv, DP!IInv, DP!TypeOK
<1>1. ASSUME NEW d \in Clients, ClientStep(d) \/ Die(d)
      PROVE  \/ client[c] = "ready" /\ sent'[c] = sent[c]
             \/ sent'[c] = 0
  BY <1>0, <1>1 DEF ClientStep, D!ClientStep, D!Connect, D!Send, D!Leave, Die, NothingSent
<1>2. ASSUME NEW d \in Clients, ReaderStep(d) PROVE UNCHANGED <<client, sent>>
  BY <1>2 DEF ReaderStep, D!ReaderStep, D!ReadRequest, D!ReadEnd, D!Enqueue, D!ReaderCheck
<1>3. ASSUME MainStep PROVE UNCHANGED <<client, sent>>
  BY <1>3 DEF MainStep, D!MainStep, D!StopAccepting, D!SendSentinel, D!Exit, D!connection
<1>4. ASSUME NEW w \in Workers,
             BeginExec(w) \/ BeginCommit(w) \/ LockStep(w) \/ SpuriousWakeup(w)
      PROVE  UNCHANGED <<client, sent>>
  BY <1>4 DEF BeginExec, BeginCommit, Enters, LockStep, SpuriousWakeup, poolVars
<1>5. ASSUME NEW w \in Workers, PoolStep(w) \/ EndExec(w) \/ EndCommit(w), ~ D!Reply(w)
      PROVE  UNCHANGED <<client, sent>>
  BY <1>5 DEF PoolStep, EndExec, EndCommit, D!Receive, D!Gate, D!Requeue, D!ServeShutdown,
              D!WorkerCheck, D!ServeExec, D!ServeCommit, D!connection
<1>6. ASSUME NEW w \in Workers, D!Reply(w)
      PROVE  \/ client[c] = "ready" /\ sent'[c] = sent[c]
             \/ item[w].from = c
  BY <1>0, <1>6 DEF D!Reply
<1>7. ASSUME NEW w \in Workers, EndExec(w) \/ EndCommit(w) PROVE ~ D!Reply(w)
  BY <1>7 DEF EndExec, EndCommit, D!ServeExec, D!ServeCommit, D!Reply
<1>8. CASE UNCHANGED vars
  BY <1>8 DEF vars, poolVars
<1>. QED
  BY <1>1, <1>2, <1>3, <1>4, <1>5, <1>6, <1>7, <1>8 DEF Next, WorkerStep

\* So when a client that committed is ready again, its transaction is clear.
LEMMA AnsweredStep ==
    ASSUME ServerInv, RepliesClean, AnsweredCommitIsClean, [Next]_vars
    PROVE  AnsweredCommitIsClean'
<1>. SUFFICES ASSUME NEW c \in Clients, NEW t \in Tids, Owner[t] = c,
                     client'[c] = "ready", sent'[c] > 0,
                     D!Requests(c)[sent'[c]].type = "commit", D!Requests(c)[sent'[c]].tid = t
              PROVE  Clean(t)'
  BY DEF AnsweredCommitIsClean, Clean, L!Blocks, LP!Blocks, D!Requests
<1>1. CASE client[c] = "ready" /\ sent'[c] = sent[c]
  <2>1. Clean(t)
    BY <1>1 DEF AnsweredCommitIsClean, Clean, L!Blocks, LP!Blocks
  <2>2. ~ \E w \in Workers : (BeginExec(w) \/ BeginCommit(w)) /\ item[w].tid = t
    BY <1>1, NotBegun
  <2>. QED
    BY <2>1, <2>2, CleanStays
<1>2. CASE sent'[c] = 0
  BY <1>2
<1>3. ASSUME NEW w \in Workers, PoolStep(w), D!Reply(w), item[w].from = c PROVE Clean(t)'
  <2>1. pc[w] = "reply" /\ UNCHANGED sent /\ UNCHANGED lockVars
    BY <1>3 DEF D!Reply, PoolStep
  <2>2. item[w] = DP!ItemOf(c)
    <3>1. \E d \in Clients : item[w].from = d /\ item[w] = DP!ItemOf(d)
      BY <2>1, DispatcherAssumed, DP!WorkItem DEF ServerInv, DP!IInv
    <3>. QED
      BY <1>3, <3>1
  <2>3. item[w].type = "commit" /\ item[w].tid = t
    <3>1. sent'[c] = sent[c] /\ DP!Requests(c) = D!Requests(c)
      BY <2>1 DEF DP!Requests, D!Requests
    <3>2. item[w].type = DP!Requests(c)[sent[c]].type /\ item[w].tid = DP!Requests(c)[sent[c]].tid
      BY <2>2 DEF DP!ItemOf
    <3>. QED
      BY <3>1, <3>2
  <2>4. Clean(t)
    BY <2>1, <2>3 DEF RepliesClean
  <2>. QED
    BY <2>1, <2>4 DEF Clean, lockVars
<1>. QED
  BY <1>1, <1>2, <1>3, ReadySteps

(***************************************************************************)
(* The theorems about the whole server                                     *)
(***************************************************************************)

\* The server uses the lock manager as its specification allows.
LEMMA LockManagerUsed == Spec => LP!Spec
<1>1. Init => LP!Init
  BY DEF Init, L!Init, LP!Init, L!Blocks, LP!Blocks, L!FREE_LOCK, LP!FREE_LOCK, L!Slots,
         LP!Slots, L!NoTid, LP!NoTid, L!NoCommand, LP!NoCommand
<1>2. ServerInv /\ [Next]_vars => [LP!Next]_LP!vars
  BY LockStepMaps, SameLocks DEF ServerInv
<1>. QED
  BY <1>1, <1>2, ServerCorrect, PTL DEF Spec, LP!Spec

\* The lock table's sizes suffice for the scripts, for either name of it.
LEMMA SameSizes ==
    /\ L!NoSlotCollision <=> LP!NoSlotCollision
    /\ L!RoomForHolders <=> LP!RoomForHolders
<1>1. L!NoSlotCollision <=> LP!NoSlotCollision
  BY DEF L!NoSlotCollision, LP!NoSlotCollision, L!Slot, LP!Slot
<1>2. L!RoomForHolders <=> LP!RoomForHolders
  BY DEF L!RoomForHolders, LP!RoomForHolders, L!Cardinality, LP!Cardinality
<1>. QED
  BY <1>1, <1>2

(***************************************************************************)
(* Scripts without upgrades                                                *)
(***************************************************************************)

\* What a worker carries out in the lock table is its client's last request.
CommandsRight ==
    \A w \in Workers : lpc[w] \in LP!Executing => cmd[w] = CommandOf(item[w].from)

\* t has sent a request to print a relation of bucket b.
AskedToRead(t, b) ==
    \E i \in 1 .. sent[Owner[t]] :
        /\ i \in DOMAIN Script[Owner[t]]
        /\ Script[Owner[t]][i].tid = t /\ Script[Owner[t]][i].type = "exec"
        /\ LP!LockMode(Text[Owner[t]][i]) = LP!READ_LOCK
        /\ b \in LP!LockPlan(Text[Owner[t]][i])

\* A bucket is held for reading only by transactions that asked for that.
ReadsAsked ==
    \A t \in Tids : \A b \in LP!Blocks :
        t \in holders[b] /\ mode[b] = LP!READ_LOCK => AskedToRead(t, b)

\* Only a client's own sending moves its place in its script, and forward.
LEMMA SentGrows ==
    ASSUME ServerInv, [Next]_vars, NEW c \in Clients
    PROVE  /\ sent[c] \in Nat
           /\ sent'[c] = sent[c] \/ (client[c] = "ready" /\ sent'[c] = sent[c] + 1)
<1>0. sent \in [Clients -> Nat]
  BY DEF ServerInv, DP!IInv, DP!TypeOK
<1>1. ASSUME NEW d \in Clients, ClientStep(d) \/ Die(d)
      PROVE  sent'[c] = sent[c] \/ (client[c] = "ready" /\ sent'[c] = sent[c] + 1)
  BY <1>0, <1>1 DEF ClientStep, D!ClientStep, D!Connect, D!Send, D!Leave, Die
<1>2. ASSUME NEW d \in Clients, ReaderStep(d) PROVE UNCHANGED sent
  BY <1>2 DEF ReaderStep, D!ReaderStep, D!ReadRequest, D!ReadEnd, D!Enqueue, D!ReaderCheck
<1>3. ASSUME MainStep PROVE UNCHANGED sent
  BY <1>3 DEF MainStep, D!MainStep, D!StopAccepting, D!SendSentinel, D!Exit, D!connection
<1>4. ASSUME NEW w \in Workers,
             BeginExec(w) \/ BeginCommit(w) \/ LockStep(w) \/ SpuriousWakeup(w)
      PROVE  UNCHANGED sent
  BY <1>4 DEF BeginExec, BeginCommit, Enters, LockStep, SpuriousWakeup, poolVars
<1>5. ASSUME NEW w \in Workers, PoolStep(w) \/ EndExec(w) \/ EndCommit(w)
      PROVE  UNCHANGED sent
  BY <1>5 DEF PoolStep, EndExec, EndCommit, D!Receive, D!Gate, D!Requeue, D!ServeShutdown,
              D!Reply, D!WorkerCheck, D!ServeExec, D!ServeCommit, D!connection
<1>6. CASE UNCHANGED vars
  BY <1>0, <1>6 DEF vars, poolVars
<1>. QED
  BY <1>0, <1>1, <1>2, <1>3, <1>4, <1>5, <1>6 DEF Next, WorkerStep

\* A worker in the lock table keeps its item and its command.
LEMMA CommandKept ==
    ASSUME ServerInv, [Next]_vars, NEW v \in Workers, lpc'[v] \in LP!Executing, ~ BeginExec(v)
    PROVE  lpc[v] \in LP!Executing /\ cmd'[v] = cmd[v] /\ item'[v] = item[v]
<1>t. /\ pc \in [Workers -> {"receive", "gate", "requeue", "serve", "reply", "check", "exited"}]
      /\ item \in [Workers -> DP!Item]
      /\ lpc \in [Workers -> LP!ProgramCounter]
      /\ cmd \in [Workers -> LP!Command \union {LP!NoCommand}]
      /\ Agreement
  BY DEF ServerInv, DP!IInv, DP!TypeOK, LP!Shape, LP!TypeOK
<1>1. ASSUME NEW w \in Workers, PoolStep(w)
      PROVE  lpc[v] \in LP!Executing /\ cmd'[v] = cmd[v] /\ item'[v] = item[v]
  <2>1. UNCHANGED <<lpc, cmd>>
    BY <1>1 DEF PoolStep, lockVars
  <2>2. pc[v] = "serve" /\ item[v].type = "exec"
    BY <1>t, <2>1 DEF Agreement, LP!Executing
  <2>3. item'[v] = item[v]
    BY <1>1, <1>t, <2>2 DEF PoolStep, D!Receive, D!Gate, D!Requeue, D!AfterRequeue,
                            D!ServeShutdown, D!Reply, D!WorkerCheck
  <2>. QED
    BY <2>1, <2>3
<1>2. ASSUME NEW w \in Workers, BeginExec(w), v # w
      PROVE  lpc[v] \in LP!Executing /\ cmd'[v] = cmd[v] /\ item'[v] = item[v]
  BY <1>2, <1>t DEF BeginExec, Enters, poolVars
<1>3. ASSUME NEW w \in Workers, BeginCommit(w)
      PROVE  lpc[v] \in LP!Executing /\ cmd'[v] = cmd[v] /\ item'[v] = item[v]
  BY <1>3, <1>t DEF BeginCommit, Enters, poolVars, LP!Executing
<1>4. ASSUME NEW w \in Workers, LockStep(w)
      PROVE  lpc[v] \in LP!Executing /\ cmd'[v] = cmd[v] /\ item'[v] = item[v]
  <2>1. UNCHANGED <<item, cmd>>
    BY <1>4 DEF LockStep, poolVars, L!LockAlreadyHeld, L!LockGrantNow, L!LockEnqueue,
                L!GrantAfterWait, L!SleepAgain, L!LocksAcquired, L!RequiredReady, L!TakeCreated,
                L!ReleaseAll
  <2>2. \/ UNCHANGED lpc
        \/ lpc[w] \in LP!Executing /\ \E x \in LP!Executing : lpc' = [lpc EXCEPT ![w] = x]
        \/ \E x \in {"release", "announce"} : lpc' = [lpc EXCEPT ![w] = x]
    BY <1>4 DEF LockStep, L!LockAlreadyHeld, L!LockGrantNow, L!LockEnqueue,
                L!GrantAfterWait, L!SleepAgain, L!LocksAcquired, L!RequiredReady, L!TakeCreated,
                L!ReleaseAll, LP!Executing
  <2>3. lpc[v] \in LP!Executing
    BY <1>t, <2>2 DEF LP!Executing
  <2>. QED
    BY <2>1, <2>3
<1>5. ASSUME NEW w \in Workers, EndExec(w) \/ EndCommit(w)
      PROVE  lpc[v] \in LP!Executing /\ cmd'[v] = cmd[v] /\ item'[v] = item[v]
  <2>1. L!Finish(w)
    BY <1>5 DEF EndExec, EndCommit, L!Execute, L!RequireTimeout, L!Announce
  <2>2. item' = item
    BY <1>5 DEF EndExec, EndCommit, D!ServeExec, D!ServeCommit
  <2>. QED
    BY <1>t, <2>1, <2>2 DEF L!Finish, LP!Executing
<1>6. ASSUME NEW w \in Workers, SpuriousWakeup(w) PROVE UNCHANGED <<lpc, cmd, item>>
  BY <1>6 DEF SpuriousWakeup, L!SpuriousWakeup, poolVars
<1>7. ASSUME NEW c \in Clients, ReaderStep(c) \/ ClientStep(c) \/ Die(c)
      PROVE  UNCHANGED <<lpc, cmd, item>>
  BY <1>7 DEF ReaderStep, ClientStep, Die, lockVars, D!ReaderStep, D!ReadRequest, D!ReadEnd,
              D!Enqueue, D!ReaderCheck, D!ClientStep, D!Connect, D!Send, D!Leave
<1>8. ASSUME MainStep PROVE UNCHANGED <<lpc, cmd, item>>
  BY <1>8 DEF MainStep, lockVars, D!MainStep, D!StopAccepting, D!SendSentinel, D!Exit
<1>9. CASE UNCHANGED vars
  BY <1>9 DEF vars, poolVars, lockVars
<1>. QED
  BY <1>1, <1>2, <1>3, <1>4, <1>5, <1>6, <1>7, <1>8, <1>9 DEF Next, WorkerStep

\* And its client sends nothing in the meantime.
LEMMA CommandsStep == ServerInv /\ CommandsRight /\ [Next]_vars => CommandsRight'
<1>. SUFFICES ASSUME ServerInv, CommandsRight, [Next]_vars,
                     NEW v \in Workers, lpc'[v] \in LP!Executing
              PROVE  cmd'[v] = Text[item'[v].from][sent'[item'[v].from]]
  BY DEF CommandsRight, CommandOf
<1>1. CASE BeginExec(v)
  <2>1. /\ UNCHANGED <<item, sent>> /\ cmd' = [cmd EXCEPT ![v] = CommandOf(item[v].from)]
    BY <1>1 DEF BeginExec, Enters, poolVars
  <2>2. cmd \in [Workers -> LP!Command \union {LP!NoCommand}]
    BY DEF ServerInv, LP!Shape, LP!TypeOK
  <2>. QED
    BY <2>1, <2>2 DEF CommandOf
<1>2. CASE ~ BeginExec(v)
  <2>1. lpc[v] \in LP!Executing /\ cmd'[v] = cmd[v] /\ item'[v] = item[v]
    BY <1>2, CommandKept
  <2>2. pc[v] = "serve" /\ item[v].type = "exec"
    BY <2>1 DEF ServerInv, Agreement, LP!Executing
  <2>3. item[v].from \in Clients /\ client[item[v].from] # "ready"
    BY <2>2, Requested DEF ServerInv
  <2>4. sent'[item[v].from] = sent[item[v].from]
    BY <2>3, SentGrows
  <2>. QED
    BY <2>1, <2>4 DEF CommandsRight, CommandOf
<1>. QED
  BY <1>1, <1>2

\* A worker that serves an EXEC serves one of its transaction's requests.
LEMMA ServedRequest ==
    ASSUME ServerInv, CommandsRight, NEW w \in Workers, lpc[w] \in LP!Executing
    PROVE  /\ tid[w] \in Tids /\ Owner[tid[w]] \in Clients
           /\ sent[Owner[tid[w]]] \in DOMAIN Script[Owner[tid[w]]]
           /\ sent[Owner[tid[w]]] \in Nat \ {0}
           /\ Script[Owner[tid[w]]][sent[Owner[tid[w]]]].tid = tid[w]
           /\ Script[Owner[tid[w]]][sent[Owner[tid[w]]]].type = "exec"
           /\ cmd[w] = Text[Owner[tid[w]]][sent[Owner[tid[w]]]]
<1>1. pc[w] = "serve" /\ item[w].type = "exec" /\ tid[w] = item[w].tid
  BY DEF ServerInv, Agreement, LP!Executing
<1>2. PICK c \in Clients :
             /\ item[w].from = c
             /\ sent[c] \in 1 .. Len(Script[c]) /\ <<c, sent[c]>> \in Steps
             /\ item[w].tid = TidOf(<<c, sent[c]>>)
             /\ item[w].type = Script[c][sent[c]].type
             /\ item[w].tid \in Tids /\ Owner[item[w].tid] = c
  BY <1>1, Requested DEF ServerInv
<1>3. Script[c][sent[c]].tid = tid[w]
  BY <1>1, <1>2, TidFacts
<1>4. sent[c] \in DOMAIN Script[c] /\ sent[c] \in Nat \ {0}
  BY <1>2, TidFacts, DbServerAssumption
<1>5. cmd[w] = Text[c][sent[c]]
  BY <1>2 DEF CommandsRight, CommandOf
<1>. QED
  BY <1>1, <1>2, <1>3, <1>4, <1>5

LEMMA ReadsStep ==
    ServerInv /\ CommandsRight /\ LP!ModeMatchesHolders /\ ReadsAsked /\ [Next]_vars
        => ReadsAsked'
<1>. SUFFICES ASSUME ServerInv, CommandsRight, LP!ModeMatchesHolders, ReadsAsked, [Next]_vars,
                     NEW t \in Tids, NEW b \in LP!Blocks,
                     t \in holders'[b], mode'[b] = LP!READ_LOCK
              PROVE  AskedToRead(t, b)'
  BY DEF ReadsAsked, LP!Blocks, LP!READ_LOCK
<1>1. [LP!Next]_LP!vars
  BY LockStepMaps, SameLocks DEF ServerInv
<1>2. AskedToRead(t, b)
  <2>1. CASE t \in holders[b] /\ mode[b] = LP!READ_LOCK
    BY <2>1 DEF ReadsAsked
  <2>2. ASSUME NEW w \in Workers, lpc[w] \in LP!Executing, tid[w] = t,
               LP!Want(w) = LP!READ_LOCK, b \in LP!LockPlan(cmd[w])
        PROVE  AskedToRead(t, b)
    <3>1. /\ sent[Owner[t]] \in DOMAIN Script[Owner[t]] /\ sent[Owner[t]] \in Nat \ {0}
          /\ Script[Owner[t]][sent[Owner[t]]].tid = t
          /\ Script[Owner[t]][sent[Owner[t]]].type = "exec"
          /\ cmd[w] = Text[Owner[t]][sent[Owner[t]]]
      BY <2>2, ServedRequest
    <3>2. sent[Owner[t]] \in 1 .. sent[Owner[t]]
      BY <3>1
    <3>. QED
      BY <2>2, <3>1, <3>2 DEF AskedToRead, LP!Want
  <2>3. LP!Shape
    BY DEF ServerInv
  <2>. QED
    BY <1>1, <2>1, <2>2, <2>3, LockManagerAssumed, LP!ReadersGrow
<1>3. Owner[t] \in Clients
  <2>1. PICK s \in Steps : t = TidOf(s)
    BY DEF Tids
  <2>. QED
    BY <2>1, TidFacts, StepFacts
<1>4. sent[Owner[t]] \in Nat /\ sent'[Owner[t]] \in Nat /\ sent[Owner[t]] <= sent'[Owner[t]]
  BY <1>3, SentGrows
<1>5. 1 .. sent[Owner[t]] \subseteq 1 .. sent'[Owner[t]]
  BY <1>4
<1>. QED
  BY <1>2, <1>5 DEF AskedToRead, LP!LockMode, LP!LockPlan, LP!READ_LOCK

\* So when every transaction prints after its writes, no request finds what it
\* has to write held for reading.
LEMMA ServerNoUpgrade ==
    ASSUME L!NoSlotCollision, L!RoomForHolders, NoUpgrades
    PROVE  Spec => []LP!NoUpgrade
<1>1. Spec => []LP!ModeMatchesHolders /\ []LP!HoldersMatchTxns
  <2>1. LP!Spec => []LP!ModeMatchesHolders
    BY LockManagerAssumed, LP!ModeCorrect
  <2>2. LP!Spec => []LP!HoldersMatchTxns
    BY SameSizes, LockManagerAssumed, LP!BookkeepingCorrect
  <2>. QED
    BY <2>1, <2>2, LockManagerUsed, PTL
<1>2. Init => CommandsRight /\ ReadsAsked
  BY DEF Init, L!Init, CommandsRight, ReadsAsked, LP!Executing, L!Blocks, LP!Blocks
<1>3. ASSUME ServerInv, CommandsRight, ReadsAsked, LP!ModeMatchesHolders, LP!HoldersMatchTxns,
             ~ LP!NoUpgrade
      PROVE  FALSE
  <2>1. LP!Shape
    BY <1>3 DEF ServerInv
  <2>2. PICK w \in Workers : \E y \in LP!LockPlan(cmd[w]) :
           /\ lpc[w] \in LP!Executing /\ LP!Want(w) = LP!WRITE_LOCK /\ y \in LP!Blocks
           /\ tid[w] \in holders[y] /\ mode[y] = LP!READ_LOCK
    BY <1>3, <2>1, LockManagerAssumed, LP!UpgradeSeen
  <2>3. PICK b \in LP!LockPlan(cmd[w]) :
           b \in LP!Blocks /\ tid[w] \in holders[b] /\ mode[b] = LP!READ_LOCK
    BY <2>2
  <2>. DEFINE c == Owner[tid[w]]
              k == sent[c]
  <2>4. /\ tid[w] \in Tids /\ c \in Clients /\ k \in DOMAIN Script[c] /\ k \in Nat \ {0}
        /\ Script[c][k].tid = tid[w] /\ Script[c][k].type = "exec" /\ cmd[w] = Text[c][k]
    BY <1>3, <2>2, ServedRequest
  <2>5. AskedToRead(tid[w], b)
    BY <1>3, <2>3, <2>4 DEF ReadsAsked
  <2>6. PICK i \in 1 .. k :
           /\ i \in DOMAIN Script[c] /\ Script[c][i].tid = tid[w] /\ Script[c][i].type = "exec"
           /\ LP!LockMode(Text[c][i]) = LP!READ_LOCK /\ b \in LP!LockPlan(Text[c][i])
    BY <2>5 DEF AskedToRead
  <2>7. LP!LockMode(Text[c][k]) = LP!WRITE_LOCK /\ b \in LP!LockPlan(Text[c][k])
    BY <2>2, <2>3, <2>4 DEF LP!Want
  <2>. HIDE DEF c, k
  <2>8. i < k
    BY <2>4, <2>6, <2>7 DEF LP!READ_LOCK, LP!WRITE_LOCK
  <2>9. L!LockPlan(Text[c][i]) \intersect L!LockPlan(Text[c][k]) = {}
    BY <2>4, <2>6, <2>7, <2>8
       DEF NoUpgrades, L!LockMode, LP!LockMode, L!READ_LOCK, LP!READ_LOCK, L!WRITE_LOCK,
           LP!WRITE_LOCK
  <2>. QED
    BY <2>6, <2>7, <2>9 DEF L!LockPlan, LP!LockPlan
<1>. QED
  BY <1>1, <1>2, <1>3, CommandsStep, ReadsStep, ServerCorrect, PTL DEF Spec

\* What the dispatcher knows of a request when it lets it go, and what it tells
\* its client at the end, is true of the lock table (process_request), if every
\* transaction has an entry of its own and a place among the holders.
THEOREM ServerTurnsAndLocksAgree ==
    ASSUME L!NoSlotCollision, L!RoomForHolders
    PROVE  Spec => []TurnsAndLocksAgree
<1>1. Spec => []LP!CommitReleasesAll
  <2>1. LP!Spec => []LP!CommitReleasesAll
    BY SameSizes, LockManagerAssumed, LP!CommitCorrect
  <2>. QED
    BY <2>1, LockManagerUsed
<1>2. Init => RepliesClean /\ AnsweredCommitIsClean
  BY DEF Init, D!Init, RepliesClean, AnsweredCommitIsClean
<1>3. ServerInv /\ LP!CommitReleasesAll /\ RepliesClean /\ AnsweredCommitIsClean /\ [Next]_vars
          => RepliesClean' /\ AnsweredCommitIsClean'
  BY RepliesStep, AnsweredStep
<1>4. GateStillOpen /\ AnsweredCommitIsClean => TurnsAndLocksAgree
  BY DEF TurnsAndLocksAgree
<1>. QED
  BY <1>1, <1>2, <1>3, <1>4, ServerCorrect, ServerGateOpen, PTL DEF Spec

\* The lock manager's theorems hold in the server: of two commands that
\* conflict only one runs at a time, whichever worker got it from the queue, if
\* every transaction prints a relation only after its last write of its bucket.
THEOREM ServerSerializesConflicts ==
    ASSUME L!NoSlotCollision, L!RoomForHolders, NoUpgrades
    PROVE  Spec => [](/\ LP!ExclusiveExecution
                      /\ LP!ConflictsSerialized
                      /\ LP!RequiredAtRun)
<1>1. LP!Spec /\ []LP!NoUpgrade => []LP!ExclusiveExecution
  BY SameSizes, LockManagerAssumed, LP!ExecutionExclusive
<1>2. LP!Spec /\ []LP!NoUpgrade => []LP!ConflictsSerialized
  BY SameSizes, LockManagerAssumed, LP!ConflictsNeverMeet
<1>3. LP!Spec /\ []LP!NoUpgrade => []LP!RequiredAtRun
  BY SameSizes, LockManagerAssumed, LP!RequiredStayThere
<1>. QED
  BY <1>1, <1>2, <1>3, LockManagerUsed, ServerNoUpgrade, PTL

\* So do first come, first served, and that waits for locks form no cycle: the
\* pool's threads never all wait for each other.
THEOREM ServerWaitsUpward ==
    ASSUME L!NoSlotCollision, L!RoomForHolders
    PROVE  Spec => []LP!WaitsUpward /\ LP!NoOvertaking
<1>1. LP!Spec => []LP!WaitsUpward
  BY SameSizes, LockManagerAssumed, LP!DeadlockAvoided
<1>2. LP!Spec => LP!NoOvertaking
  BY LockManagerAssumed, LP!FirstComeFirstServed
<1>. QED
  BY <1>1, <1>2, LockManagerUsed, PTL
=============================================================================

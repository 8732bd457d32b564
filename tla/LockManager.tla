---------------------------- MODULE LockManager ----------------------------
(***************************************************************************)
(* The lock table of assignment06/server.c and the way its worker threads  *)
(* use it: lock_acquire and its wait queue, the per-transaction            *)
(* bookkeeping in txn_states, the EXEC and COMMIT branches of              *)
(* process_request, and the wait for relations that do not exist yet.      *)
(*                                                                         *)
(* Every step of a worker is one critical section of the code: what it     *)
(* does between taking g_lock_mutex (or g_db_mutex) and giving it back, or *)
(* falling asleep in pthread_cond_wait.                                    *)
(***************************************************************************)
EXTENDS Integers, Sequences, FiniteSets, Functions

CONSTANTS
    Workers,     \* the threads of the worker pool
    Tids,        \* the transaction ids that appear in the clients' scripts
    Owner,       \* Owner[t]: the client process that runs transaction t
    Names,       \* relation names
    DiskSize,    \* number of lock buckets (DISKSIZE)
    Bucket,      \* Bucket[n]: the bucket of relation n (rel_to_block)
    SlotCount,   \* entries of txn_states
    MaxHolders,  \* entries of a holders array
    Program      \* Program[t]: the commands t may issue before it commits

Blocks == 0 .. DiskSize - 1

(***************************************************************************)
(* Commands.  A command is its verb and the relation names on its first    *)
(* line; its data lines matter to the storage engine alone.                *)
(***************************************************************************)
UnaryOps   == {"CR", "DE", "IN", "RM", "UP", "PR"}
DerivedOps == {"PJ", "SL"}
BinaryOps  == {"UN", "DF", "NJ"}

Command == [op : UnaryOps,   args : [1 .. 1 -> Names]]
    \union [op : DerivedOps, args : [1 .. 2 -> Names]]
    \union [op : BinaryOps,  args : [1 .. 3 -> Names]]

NoCommand == [op |-> "none", args |-> << >>]

Creators == {"CR"} \union DerivedOps \union BinaryOps

READ_LOCK  == 0
WRITE_LOCK == 1
FREE_LOCK  == -1

\* The buckets a command locks.  Two names of one command may share a bucket,
\* and then it is locked once.
LockPlan(c) == {Bucket[c.args[i]] : i \in DOMAIN c.args}

\* A PR locks what it prints for reading; every other verb locks all its
\* relations, the ones it only reads included, for writing.
LockMode(c) == IF c.op = "PR" THEN READ_LOCK ELSE WRITE_LOCK

\* The relations that must exist before a command runs.
Required(c) ==
    CASE c.op \in BinaryOps -> {c.args[1], c.args[2]}
      [] c.op = "CR"        -> {}
      [] OTHER              -> {c.args[1]}

\* The relation a creator makes is the last one it names.
Created(c) == c.args[Len(c.args)]

Slots   == 0 .. SlotCount - 1
Slot(t) == t % SlotCount

(***************************************************************************)
(* Assumptions on the constants.  The two operators after the ASSUME       *)
(* describe the programs the lock table is large enough for; only the      *)
(* theorems that need one of them assume it, and README.md says what       *)
(* happens without it.                                                     *)
(***************************************************************************)
ASSUME ConstantsAssumption ==
    /\ DiskSize \in Nat \ {0}
    /\ SlotCount \in Nat \ {0}
    /\ MaxHolders \in Nat \ {0}
    /\ Tids \subseteq Nat \ {0}
    /\ IsFiniteSet(Tids)
    /\ Bucket \in [Names -> Blocks]
    /\ Program \in [Tids -> SUBSET Command]

\* No two transaction ids fall into the same entry of txn_states.
NoSlotCollision == \A s, t \in Tids : Slot(s) = Slot(t) => s = t

\* A bucket's holders array has room for every transaction.
RoomForHolders == Cardinality(Tids) <= MaxHolders

VARIABLES
    mode,       \* mode[b]: lock_table[b].lock_mode
    holders,    \* holders[b]: the tids in lock_table[b].holders
    waiting,    \* waiting[b]: the queue of workers behind lock_table[b].waiting
    asleep,     \* the workers inside pthread_cond_wait
    txnStates,  \* txn_states
    catalog,    \* the relations that exist
    pc,         \* pc[w]: where worker w is in process_request
    tid,        \* tid[w]: the transaction of w's request
    cmd,        \* cmd[w]: the command of w's request
    todo        \* todo[w]: the buckets of w's plan it has not acquired yet

vars == <<mode, holders, waiting, asleep, txnStates, catalog, pc, tid, cmd, todo>>

NoTid == 0

\* held is the set of blocks in held[]; the mode kept beside each is never read.
TxnState == [active : BOOLEAN, tid : Tids \union {NoTid}, held : SUBSET Blocks,
             maxBlock : Blocks \union {-1}, created : BOOLEAN]

ProgramCounter == {"idle", "lock", "blocked", "require", "run",
                   "commit", "release", "announce"}

\* Every variable keeps to its range.  The two that could fail are the entries
\* of txn_states, which transactions share, and the holders arrays.
TypeOK ==
    /\ mode \in [Blocks -> {READ_LOCK, WRITE_LOCK, FREE_LOCK}]
    /\ holders \in [Blocks -> SUBSET Tids]
    /\ waiting \in [Blocks -> Seq(Workers)]
    /\ asleep \in SUBSET Workers
    /\ txnStates \in [Slots -> TxnState]
    /\ catalog \in SUBSET Names
    /\ pc \in [Workers -> ProgramCounter]
    /\ tid \in [Workers -> Tids \union {NoTid}]
    /\ cmd \in [Workers -> Command \union {NoCommand}]
    /\ todo \in [Workers -> SUBSET Blocks]

Init ==
    /\ mode = [b \in Blocks |-> FREE_LOCK]
    /\ holders = [b \in Blocks |-> {}]
    /\ waiting = [b \in Blocks |-> << >>]
    /\ asleep = {}
    /\ txnStates = [s \in Slots |-> [active |-> FALSE, tid |-> NoTid, held |-> {},
                                     maxBlock |-> 0, created |-> FALSE]]
    /\ catalog = {}
    /\ pc = [w \in Workers |-> "idle"]
    /\ tid = [w \in Workers |-> NoTid]
    /\ cmd = [w \in Workers |-> NoCommand]
    /\ todo = [w \in Workers |-> {}]

(***************************************************************************)
(* The bookkeeping of a transaction                                        *)
(***************************************************************************)
FreshTxn(t) == [active |-> TRUE, tid |-> t, held |-> {}, maxBlock |-> -1,
                created |-> FALSE]

\* An entry that belongs to another transaction is reset and taken over.
GetTxn(t) ==
    LET entry == txnStates[Slot(t)]
    IN  IF entry.active /\ entry.tid = t THEN entry ELSE FreshTxn(t)

\* Variant: no ordering release.
DroppedNever(t, b) == {}

\* The locks t loses by asking for b: all of them, when b is below the highest.
Dropped(t, b) == IF b < GetTxn(t).maxBlock THEN GetTxn(t).held ELSE {}

\* Variant: the ordering release does not clear the entry.
AskingKeepsEntry(t, b) == GetTxn(t)

\* The entry of t once it has asked for b.
Asking(t, b) ==
    IF Dropped(t, b) = {} THEN GetTxn(t)
    ELSE [GetTxn(t) EXCEPT !.held = {}, !.maxBlock = -1]

\* The entry tx after the grant of b.
Recorded(tx, b) ==
    [tx EXCEPT !.held = @ \union {b},
               !.maxBlock = IF b > @ THEN b ELSE @]

(***************************************************************************)
(* The lock table                                                          *)
(***************************************************************************)

\* Variant: a writer shares with one reader, whoever that is.
CanGrantBesideReader(h, m, t, want) ==
    \/ h = {}
    \/ want = READ_LOCK /\ m = READ_LOCK
    \/ want = WRITE_LOCK /\ Cardinality(h) = 1

\* Variant: readers are let in whatever the lock mode.
CanGrantAnyReader(h, m, t, want) ==
    \/ h = {}
    \/ want = READ_LOCK
    \/ want = WRITE_LOCK /\ h = {t}

\* lock_can_grant, of an entry with lock mode m and holders h.
CanGrant(h, m, t, want) ==
    \/ h = {}
    \/ want = READ_LOCK /\ m = READ_LOCK
    \/ want = WRITE_LOCK /\ h = {t}

\* A grant to t: a full holders array drops the new holder without a word.
HoldersWith(h, t) ==
    IF Cardinality(h) < MaxHolders THEN h \union {t} ELSE h

ModeWith(m, want) ==
    IF want = WRITE_LOCK THEN WRITE_LOCK
    ELSE IF m = FREE_LOCK THEN READ_LOCK ELSE m

\* Variant: the loop over held[] stops one short.
HoldersWithoutLast(t, R) ==
    [b \in Blocks |->
        IF b \in R /\ \E x \in R : b < x THEN holders[b] \ {t} ELSE holders[b]]

\* The table after t has given up the blocks of R, of which it may hold some.
HoldersWithout(t, R) ==
    [b \in Blocks |-> IF b \in R THEN holders[b] \ {t} ELSE holders[b]]

\* Variant: the last holder leaves the mode as it was.
ModeWithoutFree(t, R) ==
    [b \in Blocks |->
        IF b \in R /\ t \in holders[b] /\ mode[b] = WRITE_LOCK
        THEN READ_LOCK ELSE mode[b]]

ModeWithout(t, R) ==
    [b \in Blocks |->
        IF b \in R /\ t \in holders[b]
        THEN IF holders[b] = {t} THEN FREE_LOCK
             ELSE IF mode[b] = WRITE_LOCK THEN READ_LOCK ELSE mode[b]
        ELSE mode[b]]

\* Variant: a release does not broadcast.
WokenNever(t, R) == {}

\* The workers that the release of R by t wakes.
Woken(t, R) == UNION {Range(waiting[b]) : b \in {x \in R : t \in holders[x]}}

\* Variant: a grant does not pass the wakeup on.
WokenByNoGrant(b) == {}

\* The workers that a grant of b wakes.
WokenByGrant(b) == Range(waiting[b])

\* Variant: the queue is not looked at before a lock is taken.
NobodyAhead(b) == TRUE

\* A request that joins the queue of b is at its head at once.
QueueEmpty(b) == waiting[b] = << >>

(***************************************************************************)
(* EXEC requests                                                           *)
(***************************************************************************)

\* A client sends its next request only when the last one has been answered,
\* so at most one worker is busy for it.
OwnerIsQuiet(t) ==
    \A w \in Workers : pc[w] # "idle" => Owner[tid[w]] # Owner[t]

Want(w)      == LockMode(cmd[w])
IsNext(w, b) == b \in todo[w] /\ \A x \in todo[w] : b <= x

Receive(w, t, c) ==
    /\ pc[w] = "idle"
    /\ OwnerIsQuiet(t)
    /\ pc' = [pc EXCEPT ![w] = "lock"]
    /\ tid' = [tid EXCEPT ![w] = t]
    /\ cmd' = [cmd EXCEPT ![w] = c]
    /\ todo' = [todo EXCEPT ![w] = LockPlan(c)]
    /\ UNCHANGED <<mode, holders, waiting, asleep, txnStates, catalog>>

\* lock_acquire returns at once, whatever the mode the block is held in.
LockAlreadyHeld(w, b) ==
    /\ pc[w] = "lock"
    /\ IsNext(w, b)
    /\ b \in Asking(tid[w], b).held
    /\ todo' = [todo EXCEPT ![w] = @ \ {b}]
    /\ UNCHANGED <<mode, holders, waiting, asleep, txnStates, catalog, pc, tid, cmd>>

\* The request goes through the queue without sleeping.
LockGrantNow(w, b) ==
    LET t == tid[w]
        H == HoldersWithout(t, Dropped(t, b))
        M == ModeWithout(t, Dropped(t, b))
    IN  /\ pc[w] = "lock"
        /\ IsNext(w, b)
        /\ b \notin Asking(t, b).held
        /\ QueueEmpty(b)
        /\ CanGrant(H[b], M[b], t, Want(w))
        /\ holders' = [H EXCEPT ![b] = HoldersWith(@, t)]
        /\ mode' = [M EXCEPT ![b] = ModeWith(@, Want(w))]
        /\ txnStates' = [txnStates EXCEPT ![Slot(t)] = Recorded(Asking(t, b), b)]
        /\ asleep' = asleep \ Woken(t, Dropped(t, b))
        /\ todo' = [todo EXCEPT ![w] = @ \ {b}]
        /\ UNCHANGED <<waiting, catalog, pc, tid, cmd>>

\* The request joins the queue and the worker falls asleep.
LockEnqueue(w, b) ==
    LET t == tid[w]
        H == HoldersWithout(t, Dropped(t, b))
        M == ModeWithout(t, Dropped(t, b))
    IN  /\ pc[w] = "lock"
        /\ IsNext(w, b)
        /\ b \notin Asking(t, b).held
        /\ ~ QueueEmpty(b) \/ ~ CanGrant(H[b], M[b], t, Want(w))
        /\ holders' = H
        /\ mode' = M
        /\ txnStates' = [txnStates EXCEPT ![Slot(t)] = Asking(t, b)]
        /\ waiting' = [waiting EXCEPT ![b] = Append(@, w)]
        /\ asleep' = (asleep \ Woken(t, Dropped(t, b))) \union {w}
        /\ pc' = [pc EXCEPT ![w] = "blocked"]
        /\ UNCHANGED <<catalog, tid, cmd, todo>>

\* An awake waiter at the head of the queue takes the lock.  It goes on using
\* the pointer into txn_states that it obtained before it slept.
GrantAfterWait(w, b) ==
    LET t == tid[w] IN
    /\ pc[w] = "blocked"
    /\ w \notin asleep
    /\ IsNext(w, b)
    /\ Head(waiting[b]) = w
    /\ CanGrant(holders[b], mode[b], t, Want(w))
    /\ waiting' = [waiting EXCEPT ![b] = Tail(@)]
    /\ holders' = [holders EXCEPT ![b] = HoldersWith(@, t)]
    /\ mode' = [mode EXCEPT ![b] = ModeWith(@, Want(w))]
    /\ txnStates' = [txnStates EXCEPT ![Slot(t)] = Recorded(@, b)]
    /\ asleep' = asleep \ WokenByGrant(b)
    /\ pc' = [pc EXCEPT ![w] = "lock"]
    /\ todo' = [todo EXCEPT ![w] = @ \ {b}]
    /\ UNCHANGED <<catalog, tid, cmd>>

SleepAgain(w, b) ==
    /\ pc[w] = "blocked"
    /\ w \notin asleep
    /\ IsNext(w, b)
    /\ ~ (Head(waiting[b]) = w /\ CanGrant(holders[b], mode[b], tid[w], Want(w)))
    /\ asleep' = asleep \union {w}
    /\ UNCHANGED <<mode, holders, waiting, txnStates, catalog, pc, tid, cmd, todo>>

\* POSIX lets pthread_cond_wait return without a wakeup.
SpuriousWakeup(w) ==
    /\ w \in asleep
    /\ asleep' = asleep \ {w}
    /\ UNCHANGED <<mode, holders, waiting, txnStates, catalog, pc, tid, cmd, todo>>

\* No worker is about to find a block of its plan held for reading by its own
\* transaction when it has to write it: lock_acquire would let it go on with the
\* reader's lock.  A transaction that writes a relation first and prints it later,
\* or that loses its locks in between, does not come here.
NoUpgrade ==
    \A w \in Workers : \A b \in todo[w] :
        pc[w] = "lock" /\ IsNext(w, b) /\ b \in Asking(tid[w], b).held
        /\ Want(w) = WRITE_LOCK => mode[b] = WRITE_LOCK

\* All locks are in; a verb that makes a relation notes it for the commit.
LocksAcquired(w) ==
    LET t == tid[w] IN
    /\ pc[w] = "lock"
    /\ todo[w] = {}
    /\ IF cmd[w].op \in Creators
       THEN txnStates' = [txnStates EXCEPT ![Slot(t)] = [GetTxn(t) EXCEPT !.created = TRUE]]
       ELSE UNCHANGED txnStates
    /\ pc' = [pc EXCEPT ![w] = "require"]
    /\ UNCHANGED <<mode, holders, waiting, asleep, catalog, tid, cmd, todo>>

RequiredReady(w) ==
    /\ pc[w] = "require"
    /\ Required(cmd[w]) \subseteq catalog
    /\ pc' = [pc EXCEPT ![w] = "run"]
    /\ UNCHANGED <<mode, holders, waiting, asleep, txnStates, catalog, tid, cmd, todo>>

\* The worker answers and returns to the queue.
Finish(w) ==
    /\ pc' = [pc EXCEPT ![w] = "idle"]
    /\ tid' = [tid EXCEPT ![w] = NoTid]
    /\ cmd' = [cmd EXCEPT ![w] = NoCommand]

\* Fifty looks at the catalog did not find the relations.  Their number and
\* the 200 ms between them are left open: the wait may end after any look.
RequireTimeout(w) ==
    /\ pc[w] = "require"
    /\ ~ (Required(cmd[w]) \subseteq catalog)
    /\ Finish(w)
    /\ UNCHANGED <<mode, holders, waiting, asleep, txnStates, catalog, todo>>

\* What a command may do to the catalog.  The engine may refuse to make a
\* relation: no memory, no such attribute, not the same attributes.
Outcomes(c) ==
    IF c.op \in Creators THEN {catalog, catalog \union {Created(c)}}
    ELSE IF c.op = "DE" THEN {catalog \ {c.args[1]}}
    ELSE {catalog}

Execute(w) ==
    /\ pc[w] = "run"
    /\ catalog' \in Outcomes(cmd[w])
    /\ Finish(w)
    /\ UNCHANGED <<mode, holders, waiting, asleep, txnStates, todo>>

(***************************************************************************)
(* COMMIT requests                                                         *)
(***************************************************************************)
ReceiveCommit(w, t) ==
    /\ pc[w] = "idle"
    /\ OwnerIsQuiet(t)
    /\ pc' = [pc EXCEPT ![w] = "commit"]
    /\ tid' = [tid EXCEPT ![w] = t]
    /\ UNCHANGED <<mode, holders, waiting, asleep, txnStates, catalog, cmd, todo>>

TakeCreated(w) ==
    LET t == tid[w] IN
    /\ pc[w] = "commit"
    /\ txnStates' = [txnStates EXCEPT ![Slot(t)] = [GetTxn(t) EXCEPT !.created = FALSE]]
    /\ pc' = [pc EXCEPT ![w] = "release"]
    /\ UNCHANGED <<mode, holders, waiting, asleep, catalog, tid, cmd, todo>>

ReleaseAll(w) ==
    LET t == tid[w]
        R == GetTxn(t).held
    IN  /\ pc[w] = "release"
        /\ holders' = HoldersWithout(t, R)
        /\ mode' = ModeWithout(t, R)
        /\ asleep' = asleep \ Woken(t, R)
        /\ txnStates' = [txnStates EXCEPT ![Slot(t)] =
                            [GetTxn(t) EXCEPT !.held = {}, !.maxBlock = -1]]
        /\ pc' = [pc EXCEPT ![w] = "announce"]
        /\ UNCHANGED <<waiting, catalog, tid, cmd, todo>>

\* The broadcast on g_rel_cond only shortens a timed wait, and the turn that
\* the commit hands on is another module's: what is left is the answer.
Announce(w) ==
    /\ pc[w] = "announce"
    /\ Finish(w)
    /\ UNCHANGED <<mode, holders, waiting, asleep, txnStates, catalog, todo>>

(***************************************************************************)
(* The specification                                                       *)
(***************************************************************************)

\* What a worker does by itself once it has a request.
WorkerStep(w) ==
    \/ \E b \in Blocks :
        \/ LockAlreadyHeld(w, b)
        \/ LockGrantNow(w, b)
        \/ LockEnqueue(w, b)
        \/ GrantAfterWait(w, b)
        \/ SleepAgain(w, b)
    \/ LocksAcquired(w)
    \/ RequiredReady(w)
    \/ RequireTimeout(w)
    \/ Execute(w)
    \/ TakeCreated(w)
    \/ ReleaseAll(w)
    \/ Announce(w)

Commit(t) == \E w \in Workers : ReceiveCommit(w, t)

Next ==
    \/ \E w \in Workers :
        \/ WorkerStep(w)
        \/ SpuriousWakeup(w)
        \/ \E t \in Tids : \E c \in Program[t] : Receive(w, t, c)
    \/ \E t \in Tids : Commit(t)

Spec == Init /\ [][Next]_vars

\* The operating system schedules every thread that can run, and every
\* transaction of a script ends with a C line, so a client that is answered
\* again and again comes to it.
FairSpec ==
    /\ Spec
    /\ \A w \in Workers : WF_vars(WorkerStep(w))
    /\ \A t \in Tids : SF_vars(Commit(t))

(***************************************************************************)
(* Properties                                                              *)
(***************************************************************************)

\* The two records of a lock agree: t is in the holders of b exactly when b is
\* in the entry of t, and the entry's max_block is its highest block.  Commit
\* and the ordering release undo only what the entry lists (release_all_locks_locked).
HoldersMatchTxns ==
    \A t \in Tids :
        /\ \A b \in Blocks : t \in holders[b] <=> b \in GetTxn(t).held
        /\ \A b \in GetTxn(t).held : b <= GetTxn(t).maxBlock
        /\ GetTxn(t).maxBlock # -1 => GetTxn(t).maxBlock \in GetTxn(t).held

\* A block in write mode has one holder, and a block nobody holds is free.
ModeMatchesHolders ==
    \A b \in Blocks :
        /\ mode[b] = FREE_LOCK <=> holders[b] = {}
        /\ mode[b] = WRITE_LOCK => \A s, t \in holders[b] : s = t

\* While a command runs, its transaction still holds every bucket of its plan
\* (the ordering release has not taken one back), and nobody else holds a
\* bucket the command may change.
ExclusiveExecution ==
    \A w \in Workers : pc[w] = "run" =>
        \A b \in LockPlan(cmd[w]) :
            /\ tid[w] \in holders[b]
            /\ Want(w) = WRITE_LOCK => holders[b] = {tid[w]} /\ mode[b] = WRITE_LOCK

\* What the lock modes are for: two commands of which one writes a bucket that
\* both use never run at the same time.
ConflictsSerialized ==
    \A v, w \in Workers :
        v # w /\ pc[v] = "run" /\ pc[w] = "run" /\ Want(w) = WRITE_LOCK
            => LockPlan(cmd[v]) \intersect LockPlan(cmd[w]) = {}

\* The relations a command needs were seen under g_db_mutex and are used in a
\* later critical section: its locks keep them from being deleted in between.
RequiredAtRun ==
    \A w \in Workers : pc[w] = "run" => Required(cmd[w]) \subseteq catalog

\* What a worker saw of its command's relations stays so until its own command
\* runs, however long it polls: nobody else makes or drops one of them.
CatalogStable ==
    [][\A w \in Workers : pc[w] \in {"require", "run"} /\ pc'[w] = pc[w] =>
          \A r \in Range(cmd[w].args) : r \in catalog' <=> r \in catalog]_vars

\* No wakeup is lost: a worker asleep at the head of a queue cannot be granted
\* the lock it waits for.
NoLostWakeup ==
    \A b \in Blocks : waiting[b] # << >> =>
        LET w == Head(waiting[b])
        IN  w \in asleep => ~ CanGrant(holders[b], mode[b], tid[w], Want(w))

\* Locks are waited for in ascending order: a blocked transaction holds only
\* blocks below the one it waits for, so the waits form no cycle.
WaitsUpward ==
    \A w \in Workers : pc[w] = "blocked" =>
        \A b \in todo[w] : \A x \in Blocks : tid[w] \in holders[x] => x < b

\* When a commit comes to its answer (process_request), its transaction holds no
\* lock, whatever the ordering release and the waits did to the records that
\* release_all_locks_locked works from, and has no relation left to announce.
CommitReleasesAll ==
    \A w \in Workers : pc[w] = "announce" =>
        /\ \A b \in Blocks : tid[w] \notin holders[b]
        /\ ~ GetTxn(tid[w]).created

\* The locks readers and writers hold, as the lock table records them.
SharedBy == [b \in Blocks |-> IF mode[b] = READ_LOCK THEN holders[b] ELSE {}]
OwnedBy  == [b \in Blocks |-> IF mode[b] = WRITE_LOCK THEN holders[b] ELSE {}]

RW == INSTANCE RWLocks WITH Txns <- Tids, Locks <- Blocks,
                            shared <- SharedBy, owned <- OwnedBy

\* The queues, the ordering release and the two records of every lock together
\* do what a table of shared and exclusive locks promises.
ImplementsRWLocks == RW!Spec

\* First come, first served: a transaction that becomes a holder overtakes no
\* request that was waiting for the block.
NoOvertaking ==
    [][\A b \in Blocks : \A t \in holders'[b] \ holders[b] :
          waiting[b] # << >> => tid[Head(waiting[b])] = t]_vars

\* Every request that waits for a lock is granted it.
WaiterServed == \A w \in Workers : pc[w] = "blocked" ~> pc[w] # "blocked"

(***************************************************************************)
(* The inductive invariant: what the proofs of the properties above need   *)
(***************************************************************************)
Executing == {"lock", "blocked", "require", "run"}

\* A worker's registers hold a request of a transaction while it serves one.
RequestsWellFormed ==
    \A w \in Workers :
        /\ pc[w] # "idle" => tid[w] \in Tids
        /\ pc[w] \in Executing => cmd[w] \in Program[tid[w]]
        /\ todo[w] \subseteq LockPlan(cmd[w])
        /\ pc[w] \notin {"lock", "blocked"} => todo[w] = {}
        /\ pc[w] = "blocked" => \E b \in Blocks : IsNext(w, b)

\* A client waits for its answer, so no two workers serve the same one.
OneWorkerPerClient ==
    \A v, w \in Workers :
        pc[v] # "idle" /\ pc[w] # "idle" /\ Owner[tid[v]] = Owner[tid[w]] => v = w

\* A worker is in the queue of b once if it is blocked on b, and else not at
\* all; only blocked workers sleep.
QueuesMatchWorkers ==
    /\ \A b \in Blocks : IsInjective(waiting[b])
    /\ \A b \in Blocks : \A w \in Workers :
          w \in Range(waiting[b]) <=> pc[w] = "blocked" /\ IsNext(w, b)
    /\ \A w \in asleep : pc[w] = "blocked"

\* No entry of txn_states is taken over by another transaction, so the pointer
\* a blocked worker keeps is still its transaction's.
EntriesStay ==
    /\ \A t \in Tids : txnStates[Slot(t)].active => txnStates[Slot(t)].tid = t
    /\ \A w \in Workers : pc[w] = "blocked" => txnStates[Slot(tid[w])].active

\* What a request has acquired of its plan it still holds, and what it has yet
\* to acquire lies above all its transaction holds, from the moment the first
\* block is in or waited for.
PlanInOrder ==
    \A w \in Workers : pc[w] \in Executing =>
        /\ \A b \in LockPlan(cmd[w]) \ todo[w] : tid[w] \in holders[b]
        /\ pc[w] = "blocked" \/ todo[w] # LockPlan(cmd[w]) =>
              \A b \in todo[w] : \A x \in Blocks : tid[w] \in holders[x] => x < b

\* What a request that changes relations has acquired of its plan, its
\* transaction holds for writing.
HeldAsUsed ==
    \A w \in Workers : pc[w] \in Executing /\ Want(w) = WRITE_LOCK =>
        \A b \in LockPlan(cmd[w]) \ todo[w] : mode[b] = WRITE_LOCK

\* A transaction under commit has nothing left to announce.
FlagConsumed ==
    \A w \in Workers : pc[w] = "release" => ~ GetTxn(tid[w]).created
=============================================================================

# TLA+ models of the CPSC 375 programs

The repository collects the assignments of a course on high-performance
computing. Its largest program is the transaction server of `assignment06`: a
storage engine (`mydb.c`), a multi-threaded server around it (`server.c`) and
a client (`client.c`). This directory holds TLA+ modules about that server, about
two worker farms, the Monte Carlo program of `assignment03` and the Mandelbrot
program of `assignment10`, and about the smaller programs: pipelines, chat, ping,
radix sort and prime sieves; the TLC configurations that check them; and TLAPS
proofs. The other programs are listed in the inventory.

- [1 Inventory](#1-inventory)
- [2 Modules and how they correspond to the code](#2-modules-and-how-they-correspond-to-the-code)
- [3 Runs](#3-runs)
- [4 Proofs](#4-proofs)
- [5 What the checks found](#5-what-the-checks-found)
- [6 Limits](#6-limits)
- [7 Not modelled](#7-not-modelled)
- [8 What could come next](#8-what-could-come-next)

## 1 Inventory

### 1.1 Lock manager (`assignment06/server.c`, 288-541 and 947-1020)

*State.* `lock_table`, one entry per bucket, with a mode, an array of 32 holders
and a linked list of waiting requests; `txn_states`, 256 entries of
per-transaction records (held locks, highest block asked for, a created flag);
one mutex `g_lock_mutex` for both and a condition variable per bucket.

*Operations.* `lock_acquire`, `release_all_locks`, the EXEC and COMMIT branches
of `process_request`, `wait_for_required_relations`.

*Interactions.* Up to four worker threads call it. A worker blocks inside it;
only another worker's commit, ordering release or grant can free it.

*Hard.* Wakeups, records kept twice, a pointer kept across a wait, locks that
are given up in the middle of a transaction, entries shared by two transactions,
a check of the catalog in one critical section that is used in another.

*Correct when* the holders and the transactions' records agree; readers and
writers exclude each other; a command runs with all its locks; waits never form
a cycle; no wakeup is lost and nobody is overtaken; a commit leaves nothing
behind; every waiter is served.

### 1.2 Request dispatch, turns and shutdown (`server.c` 136-223, 1021-1286; `client.c`)

*State.* A POSIX message queue of ten items, four workers, one reader thread per
connection, `g_current_phase` and `g_current_client`, `g_shutdown_count`,
`g_running`.

*Operations.* A client sends one request and waits for the answer. Its reader
puts the request into the queue. A worker takes an item; if its transaction
`T<client><phase>` is not due it puts the item back at the end, otherwise it
carries it out and answers. A commit hands the turn to the next client, and
after the last client to the next phase. Each client votes for shutdown at its
end; the fourth vote clears `g_running`, and `main` sends one sentinel per worker
and joins them.

*Hard.* The order of execution must not depend on the order in the queue; a
request is put back any number of times; readers, workers and `main` all block
on the same queue; stopping races with requests that are still under way.

*Correct when* requests run in turn order; none is lost or carried out twice; the
queue never fills; the server stops, and not before the scripts are finished.

### 1.3 Storage engine and relational algebra (`assignment06/mydb.c`, the same file as `assignment05/mydb.c`)

*State.* 256 blocks and their bitmap, relations with up to 16 data and 4 overflow
blocks, the dictionary relations `catalog` and `columns`, three block buffers.

*Operations.* `CR DE IN RM UP PR PJ SL UN DF NJ`, over hashed buckets for base
relations and a heap for derived ones.

*Hard.* Full buckets, full relations and a full disk, whose failures the callers
ignore; shared buffers; blocks that must return to the bitmap exactly once; an
error in the middle of a command's data lines.

*Correct when* a relation is the set of tuples its commands define, block
ownership and bitmap agree, the dictionary describes what exists, an operator's
result is what the relational algebra says, and rows are dropped only for want of
room. `LockManager` keeps the one effect that its control depends on, which
relations exist.

### 1.4 The server as a whole

*Interaction.* The dispatcher's workers are the lock manager's workers. One that
sleeps in `lock_acquire` does not take items from the queue, and the COMMIT that
would wake it is such an item. A client that dies leaves its locks, its turn and
its vote behind.

*Correct when* the dispatcher uses the lock manager in the way it was specified
(one request of a client at a time, its transactions its own), a request that was
accepted is still due when it runs, an answered commit has left nothing behind,
and everybody is answered.

### 1.5 Monte Carlo (`assignment03/monte_master.c`, `monte_worker.c`)

*State.* A System V message queue of bounded size, a sum in shared memory under a
semaphore, a `terminate` and a `paused` flag in each process.

*Operations.* The master cuts the tosses into chunks and sends them, then one
empty message per worker, waits for the workers and prints. A worker takes a
message, tosses, adds to the sum. SIGUSR1 and SIGUSR2 pause and resume, SIGINT
stops everything.

*Hard.* `msgsnd`, `msgrcv` and `semop` end early when a signal arrives; a signal
may arrive between a check and the call that should have been prevented.

*Correct when* no chunk is lost or added twice, what is printed counts all tosses,
and every process ends.

### 1.6 Mandelbrot (`assignment10/mandelbrotproblem/mandelbrot.c`)

*State.* Rank 0 has the picture, `next_row` and `pending`; the others the row they
compute. Messages with the tags `TAG_WORK`, `TAG_DONE` and `TAG_RESULT`.

*Operations.* Seeding, collecting a result from any worker and giving it the next
row or retiring it, computing a row, `MPI_Finalize`.

*Hard.* Results in any order; sends that wait for the receiver; fewer rows than
workers.

*Correct when* every row is computed and stored once, and every process ends.

### 1.7 Connections and scripts of the server (`server.c` 1110-1141, 1229-1261; `client.c` 277-389)

*State.* A work item names its client by the descriptor of its connection. A
request is a command line with the data lines it announces.

*Operations.* `accept` gives the lowest free descriptor; the reader closes it when
its client has gone. A client picks its own commands out of a script that all
clients read; the server plans locks from a request's first line; the engine reads
a request line by line.

*Hard.* A descriptor that is used again while an answer for its last owner is still
to be sent; three parsers that have to find the same commands and take lines apart
differently: client and server compare the whole first word with a verb and read names
of up to 63 characters, the engine takes the first two characters and names of up to
31, and each has its own idea of when a line is complete.

*Correct when* everybody receives the own answers, one request at a time; and no
command is run that was not sent as one, or without its locks.

### 1.8 The smaller programs

| Program | State and interaction | Hard | Correct when |
| --- | --- | --- | --- |
| `assignment01/mypipen.c` | processes joined by pipes | which pipe ends stay open where | one command that ends brings all to their end |
| `assignment02` chat | four processes, two FIFOs, signals | opening order, lines read together, signals for processes that are gone | a full stop ends all four |
| `assignment04` ping | UDP request and reply with a timeout, SIGINT | late replies, statistics in the middle of an update | what is printed fits together |
| `assignment07` sieves | MPI ranks with blocks of odd numbers, in pieces | block arithmetic, ranks and arrays without elements | the primes are counted |
| `assignment08` radix sort | MPI ranks with blocks of one array | places in the whole array, empty blocks | each pass is a stable sort of the whole array |
| `assignment10` n-body | MPI collectives on floats | nothing that TLC can explore | - |
| examples, cluster project, notes | - | - | not part of a program |

The list of what is hard to test, each at its line and with the properties that
watch it, is `hazards` in `PROJECT.json`. One more, `strncpy` of a name of 31 or more
characters into an array that was not cleared (`server.c:744`), is about characters
and no model has any.

## 2 Modules and how they correspond to the code

| Module | What it is |
| --- | --- |
| `LockManager` | the lock table, its queues, the transactions' records, EXEC and COMMIT |
| `RWLocks` | abstract: shared and exclusive locks |
| `LockManagerProofs` | theorems about `LockManager` |
| `MCLockManager` | instances of `LockManager` |
| `Dispatcher` | clients, readers, queue, workers, turns, shutdown |
| `TurnTaking` | abstract: scripts carried out one request at a time, in turn |
| `DispatcherProofs` | theorems about `Dispatcher` |
| `MCDispatcher` | instances of `Dispatcher` |
| `DbServer` | `Dispatcher` and `LockManager` composed, with clients that may die |
| `DbServerProofs` | theorems about `DbServer`, on those about its two components |
| `MCDbServer` | an instance of `DbServer` |
| `Storage` | the engine: disk, headers, dictionary, scans, and every command |
| `RelationStore` | abstract: named sets of rows with unique keys |
| `StorageProofs` | theorems about `Storage`: blocks, what a step leaves alone, the dictionary, `RelationStore`, types, that only what is full turns a row down, and the results of the operators |
| `MCStorage` | instances of `Storage` |
| `MonteCarlo` | master and workers of `assignment03`, with signals |
| `MonteCarloProofs` | theorems about `MonteCarlo` |
| `MCMonteCarlo` | an instance of `MonteCarlo` |
| `MandelbrotFarm` | master and workers of `assignment10`, with messages |
| `TaskBag` | abstract: tasks handed out, carried out and recorded once |
| `MandelbrotFarmProofs` | theorems about `MandelbrotFarm` |
| `Connections` | descriptors of the server's connections, and who gets which answer |
| `ConnectionsProofs` | theorems about `Connections` |
| `CommandStream` | lines of a script become commands: client, server and engine |
| `Chat` | the two chat programs of `assignment02` |
| `Ping` | the ping client and server of `assignment04` |
| `Pipeline` | `mypipen.c` of `assignment01` |
| `RadixSort` | the parallel radix sort of `assignment08` |
| `LsdSort` | abstract: one array sorted by one digit after the other |
| `PrimeSieve` | the three sieves of `assignment07` |
| `SmallModels` | the last seven side by side, one program to a behaviour |
| `SmallModelsProofs` | theorems about `Ping`, `Chat`, `Pipeline`, `PrimeSieve`, `CommandStream` and `RadixSort` |
| `MCSmallModels` | an instance of `SmallModels` |

The modules that only state what a component promises are `RWLocks`,
`TurnTaking`, `RelationStore`, `TaskBag` and `LsdSort`.

### 2.1 `LockManager`

A step of a worker is one critical section: everything between taking
`g_lock_mutex` or `g_db_mutex` and giving it back or falling asleep.

| Variable | Code |
| --- | --- |
| `mode`, `holders`, `waiting` | `lock_mode`, `holders[]`, `waiting` of `lock_table[b]`; a queue holds the workers whose requests it lists |
| `asleep` | the threads inside `pthread_cond_wait` |
| `txnStates` | `txn_states`; `held` is a set, since the mode kept with each held lock is never read |
| `catalog` | the relations `find_relation` finds |
| `pc`, `tid`, `cmd`, `todo` | a worker's place in `process_request`, its request, and the part of its lock plan still to be acquired |

`lock_acquire` is one of `LockAlreadyHeld`, `LockGrantNow` or `LockEnqueue`, each
with the ordering release at its beginning, and after a wait `GrantAfterWait` or
`SleepAgain`. `SpuriousWakeup` is what POSIX permits. `LocksAcquired` sets the
created flag, `RequiredReady` and `RequireTimeout` end the wait for relations,
`Execute` is the section under `g_db_mutex`. A commit is `TakeCreated`,
`ReleaseAll`, `Announce`.

The data are abstracted to what control depends on. A command is a verb and
relation names, which gives its lock plan (`derive_lock_plan`), the relations it
needs (`parse_required_relations`) and the one it makes. Names, and the bucket
each falls into, are constants: `rel_to_block` may send two names to one bucket.
The engine may refuse to make a relation, so `Outcomes` leaves that open. The
fifty polls of 200 ms become "may end after any look", and the broadcast on
`g_rel_cond` only shortens a poll. A client sends a request when its last one is
answered (`OwnerIsQuiet`); which request it sends is left open, so the model
contains every script over the given commands and every turn order.

`RWLocks` has two variables, who shares a block and who owns it. Its steps give
up some locks of one transaction and then share or own one block. The refinement
maps `holders` by `mode`; queues, records and sleeping threads disappear.

### 2.2 `Dispatcher`

| Variable | Code |
| --- | --- |
| `client`, `sent`, `unread` | a client process in `rpc_call`, its place in its script, a request still in the socket |
| `reader` | a thread in `reader_main`: receiving, in `mq_send`, checking `g_running`, closed |
| `queue` | the message queue; an item names its client for its descriptor |
| `pc`, `item` | a thread in `worker_main` and its item |
| `phase`, `turn` | `g_current_phase`, `g_current_client` |
| `votes`, `running`, `main`, `sentinels` | the shutdown |
| `served` | history only: requests carried out, per client |

`Receive`, `Gate`, `Requeue`, one of `ServeExec`, `ServeCommit`, `ServeShutdown`,
then `Reply` and `WorkerCheck` are a round of a worker. After `Requeue` the
worker does not look at `g_running`, as in the code. `ReaderCheck` may close a
connection whose request is still to be answered, and `Reply` then answers
nobody. Carrying an EXEC out takes one step; what happens inside is
`LockManager`.

`TurnTaking` carries the scripts out with `done`, `phase` and `turn` alone. The
refinement maps `served` to `done`.

### 2.3 `Storage`

| Variable | Code |
| --- | --- |
| `bitmapblk` | `bitmapblk` |
| `headers`, `virtual_disk` | `virtual_disk`, with a block read as `header_block_t` or as `block_t` |
| `g_relations` | the entries of `g_relations` that are in use, by name |
| `data_buffers`, `cursor` | `data_buffers[1]` and `[2]`, and the loops that read them |
| `pf` | the row of the first relation in `join_with_p_tuple` |
| `pc`, `command`, `lines`, `pending` | how far `process_commands` is with its command: the lines still to be read and the dictionary rows still to be written |
| `printed` | history only: what a PR has printed |

One command runs at a time, so the steps are those of a sequential program; what
varies is which command comes next. A command begins with `Refuse`, `BeginCreate`,
`Delete`, `BeginLines` or `BeginPrint`. `CarryOutLine` is one turn of the loops of
`do_insert`, `do_remove` and `do_update`. `Describe` appends one dictionary row of
a new relation. A scan is `LoadBlock` for each block, then `SkipSlot` or a
callback for each slot: `PrintRow`, `DeriveRow`, or `BeginJoin` and, within it, a
scan of the second relation with `JoinRow`. `InsertBase`, `InsertHeap` and `Grow`
are the three insertion routines, with their failures: nothing changes, and the
caller goes on.

A row is a sequence of fields, and a field value its rank in its domain, which is
all that `eval_cmp` looks at. `Hash` gives the bucket of a key. The dictionary's
rows keep the columns that say which relation, block, attribute and position is
meant. `data_buffers[0]` is filled and read within one step by every routine that
uses it and is left out; the two buffers that stay filled across a callback are
kept. What they hold between two commands is forgotten.

`RelationStore` has one row come, go or replace another with its key. The
refinement maps a relation to the rows in its blocks; headers, buckets, overflow
blocks, the bitmap, the dictionary and the scans disappear.

### 2.4 `DbServer`

It has the variables of `Dispatcher` and of `LockManager` and takes their actions
by `INSTANCE`. `pc` is a worker's place in `worker_main`, `lpc` its place in
`process_request`. Where `Dispatcher` carries an EXEC or a COMMIT out in one step,
`DbServer` has `BeginExec` or `BeginCommit`, the steps of `LockManager`, and
`EndExec` or `EndCommit`, the last one together with the dispatcher's step. The
command of a request is in `Text`; `LockManager`'s constants `Owner` and
`Program` are computed from the scripts. `Die` is the end of a client process:
its reader finds the connection closed, and nothing else changes.

### 2.5 `MandelbrotFarm`

| Variable | Code |
| --- | --- |
| `master`, `seeded` | the loops of `run_master` |
| `next_row`, `pending`, `image` | the variables of the same names |
| `worker`, `row` | a process in `run_worker` and its row |
| `inbox`, `results` | messages that were sent and not received, per pair of ranks |
| `sendingTo`, `worker[w] = "send"` | a process inside `MPI_Send` |

A row's pixels are the number of the row they were computed for. `MPI_Send` is a
step that hands the message over and a step that returns. `Store` is the receive
from `MPI_ANY_SOURCE`, of a message with a row's number and its pixels. `Finalize` is
collective.

### 2.6 `MonteCarlo`

| Variable | Code |
| --- | --- |
| `master`, `remaining`, `empties` | `main` of `monte_master.c`, or its signal handler |
| `queue`, `sem`, `sum` | the IPC objects; the sum is the set of chunks added to it |
| `pc`, `chunk`, `terminate` | `main` of `monte_worker.c` |
| `seen` | the sum between the read and the write of `+=` |
| `paused`, `killed`, `pauses` | flags, and signals on their way |
| `lost`, `intruded` | history only: interrupted calls with consequences |

A chunk is known by the tosses that remained when it was cut off. A signal that
finds a process asleep in `msgsnd`, `msgrcv` or `semop` ends the call with EINTR:
the worker looks for it after `msgrcv` and begins anew, does not look after `semop`
and goes on without the semaphore; the master repeats an interrupted chunk and
does not repeat an interrupted empty message. A process at such a call may be asleep in
it or just before it: in the second case the signal ends nothing and the process goes
to sleep afterwards (`AfterSignal`, `InterruptMaster`).

### 2.7 `Connections`

| Variable | Code |
| --- | --- |
| `client`, `asked` | a client process: outside, between two requests, in `rpc_call`, or at its end |
| `fd` | the descriptors of open connections |
| `reader`, `read` | a thread in `reader_main` |
| `owed` | work items in the queue or with a worker |
| `inbox` | answers in a client's socket, by the requests they are for |
| `got` | history only: who took which answer for which request |

`Dispatcher` knows who sent a request; here an item knows a number, and `Answer`
sends to whoever has that number now. What happens to an item between queue and
workers is `Dispatcher`'s, so `owed` is a set that items leave in any order. The
descriptor is any that is free: the lowest depends on the other files of the server.

### 2.8 `SmallModels` and its seven modules

Each behaviour chooses one of six programs; the variables of the others keep their
first values. The properties are those of the instances. `StreamAssumption` says of
what types the lines of scripts are, and nothing else about them.

- `CommandStream`: a line is the digits of its transaction id, its verb, the form it is
  written in (as one word with the first name, with a space too many, or without its
  last number), the names of relations in pieces of 31 characters, the number of lines
  it announces, and whether its command accepts it. Each parser has its own reading of
  it: `Extra` is the client's `parse_extra_count`; `Recognized` and `Locked` the
  server's `derive_lock_plan`; `Understood`, `Needs` and `Taken` the engine's, with the
  locks that a command calls for and the lines that it reads before it returns.
  `ReadLine`, `SkipLine`, `CollectLine` and `Submit` are the client's loop, which may
  leave a line out for want of room in the payload (`dropped`). `GiveUp` is a request
  whose relations do not appear, `Render` a `PR`, which the server carries out itself,
  `RunCommand` a turn of the loop of `process_commands`.
- `Chat`: `parent` and `child` are places in the two `main` functions, `pipe` what is
  in the FIFOs, `termed` the SIGTERMs on their way. A line is `"text"` or `"stop"`.
  `Read` takes all that is there, and looks at the first line only, as the code does:
  lines are written with their zero byte and compared with `strcmp`.
- `Ping`: every statement of the loop that changes a statistic is a step, so that
  `Interrupt` finds each value between two of them. `total`, `least` and `most` are the
  sets of times that have gone into `total_rtt`, `min_rtt` and `max_rtt`.
- `Pipeline`: `ends` is what each process has open; `Fork` copies it, `CloseEnds` and
  `Exec` close. A command reads, writes, and may exit at any time.
- `RadixSort`: one step per pass, since the collective operations hold all ranks
  together. `Hist`, `PrefixHist`, `GlobalHist` and `DigitStart` are the arrays of that
  name, `Owner` is the binary search for the rank that has a position, `SentTo` and
  `Received` are the exchange, where an element's index in the send buffer is the number
  of those before it for the same rank, and `Place` is the counting sort on one rank.
  `Weight` is the shift of `extract_byte`, for any base. `LsdSort` is `RadixSerial.c`,
  where an element's new place is the number of those that come before it; the
  refinement maps the blocks to the whole array.
- `PrimeSieve`: `program` chooses between the two modes of `MPI_sieve.c` and its two
  single-purpose versions; a step is a piece of the cache's size, or one prime.

## 3 Runs

| Run | Shows |
| --- | --- |
| `lock_safety` | all safety and action properties of `LockManager`, and `RWLocks` |
| `lock_liveness` | `WaiterServed` under fairness |
| `lock_upgrade` | finding, section 5 |
| `dispatch_turns` | no stop before the end, every script carried out, `TurnTaking` |
| `dispatch_stop` | no request lost or doubled, queue never full, the server stops |
| `server` | the composition: what each part expects of the other, and liveness when a client dies |
| `mandelbrot` | no mutual send, `TaskBag`, the end |
| `monte` | every chunk once while no `semop` is interrupted, the sum, the two ways to hang |
| `storage_base` | `CR DE IN RM UP` on a disk that fills up, and `RelationStore` |
| `storage_algebra` | `PJ SL UN DF NJ PR` against set definitions |
| `connections` | who gets whose answer while descriptors are used again and clients are killed |
| `small` | the six programs of `SmallModels` |

The properties of `lock_safety`:

- `HoldersMatchTxns`: the lock table and `txn_states` tell the same story.
- `ExclusiveExecution`: a running command has every lock of its plan, and a
  writing one has them alone.
- `CatalogStable`: none of a command's relations comes or goes while it polls or runs,
  so what it saw is there when it runs.
- `NoLostWakeup`, `NoOvertaking`, `WaitsUpward`: the queue wakes its head, keeps
  its order, and waits go upwards only.
- `CommitReleasesAll`: nothing is left after a commit.
- `ImplementsRWLocks`: the refinement.

The properties of the dispatcher:

- `ImplementsTurnTaking`: the refinement. A request is carried out only in its
  client's turn or after its phase, and turns pass on by commits alone.
- `StopsLast`, `AllServed`, `ServerStops`: the end is neither too early nor never.
- `OneCopy`: socket, reader, queue and workers together hold a client's request
  exactly once while it waits.
- `NeverFull`: nobody who wants to send finds the queue full.

The properties of the composed server:

- `ImplementsLockManager`: every behaviour is one of `LockManager`, so what is
  checked and proved there holds in the server.
- `TurnsAndLocksAgree`: the turn that was looked at before the request was accepted is
  still right while the request waits for its locks and runs, and the client that reads
  the answer to its COMMIT holds nothing.
- `AnsweredUnlessAbandoned`: a request is answered unless a dead client has left a
  lock or the turn behind.

The properties of the farms:

- `ImplementsTaskBag`: a row is with one worker at a time and is stored once, in its
  place.
- `NoMutualSend`: master and worker are never in `MPI_Send` for each other.
- `Terminates`: the program ends if and only if there are rows for all workers.
- `ChunkConserved`, `SumExact`: a chunk is in one place, and the printed sum is
  that of all chunks, while no `semop` is interrupted.
- `EndsUnlessStranded`: the program ends unless an empty message was lost or a
  SIGINT came between the check of `terminate` and `msgrcv`.

The properties of the engine:

- `BlocksOwnedOnce`: bitmap, headers and `g_relations` agree on who has a block.
- `DictionarySound`, `DescribedUnlessFull`: the dictionary says nothing false, and
  all there is to say unless it or the disk is full.
- `RefusedOnlyWhenFull`, `OnlyTheTarget`: a line of an IN is lost only for want of
  room, and a command touches the rows of its own relation only.
- `ResultsExact`: the rows of a result, as functions from attribute names to
  values, are those of the relational algebra, or as many of them as fit
  (`ResultExact`); no row is kept twice (`StoredOnce`); a PR prints every row once
  (`PrintedOnce`).
- `ImplementsRelationStore`: the refinement.

The properties of the connections:

- `InStepUntilKilled`: while no client has been killed, everybody receives the own
  answers, and no client has two requests in the server, however descriptors pass from
  one to another.
- `AnswersKept`: whoever is killed, an answer in a stranger's socket is for a client
  that has ended (`LivingKeepTheirAnswers`), and a client takes each of its own answers
  at most once and none before its request (`AnswersFromThePast`).

The properties of `small`:

- `ParsersAgree`: of a script that has as many data lines as its commands announce
  (`Fits`), a client sends its own commands, whole and in order, unless a line did not
  fit a payload (`SentWhole`). Of any script: what the engine does first in a request
  has its locks, for reading or for writing, if the request's first line is written as
  usual (`AsWritten`: verb and names apart by one space, complete, and no name longer
  than the engine reads; `LocksCover`); no data line is run, unless a `PJ`, `SL` or `NJ`
  has met a line that it does not accept (`Stops`; `DataStaysData`); and client and
  server read the same client number out of an id exactly if it has two digits
  (`SameClient`). Each of these conditions is needed: without it the run fails.
- `ConversationEnds`: both programs connect, a full stop ends all four processes unless
  it was read together with another line, a child does not outlive its parent, and a
  SIGTERM goes astray only after a broken pipe.
- `StatisticsRight`: the loss is not negative, a time that is not its request's own
  comes after a timeout only, and the three statistics differ by one answer at most.
- `PipelineEnds`: when one command ends, or the main process fails, all end.
- `RadixRight`, `ImplementsLsdSort`: blocks keep their sizes, the array is sorted with
  the values it had, the program's word for it is right; and each pass is a stable sort.
- `SieveRight`: the count is that of the primes, no rank writes outside its array, and
  a piece is finished when it is left.

*Bounds.* `lock_safety` has three workers, one for each of three clients: since a
client has one request under way, more workers would be idle, and three suffice
for a queue of two behind a holder and for a cycle of waits over two buckets.
Two buckets with three names give two names in one bucket, a transaction that
goes back to a lower bucket, and plans of two buckets; transaction 11 prints a relation
after it has written it, which is no upgrade, or before. `SlotCount` is 8 and
`MaxHolders` 3 instead of 256 and 32: the three ids fall into different entries
and a holders array has room for all three, which is what the real sizes give
for up to 32 transactions with two-digit ids. `lock_liveness` has fewer commands,
because it cannot use symmetry, and still a queue of three, a reader and an
ordering release.

`dispatch_turns` has two clients and two phases, so that the turn wraps around
twice. `dispatch_stop` has three clients, two votes, two workers and a queue of
three. The real numbers are nine, four, four and ten. What matters is that the
queue has room for every client, and for every client that is not among the
voters together with one sentinel per worker: 3 >= 3 and 3 >= 1 + 2 in the run,
10 >= 9 and 10 >= 5 + 4 in the code. With a sentinel more the run fails, so the
bound is reached.

`server` has two clients and two workers. Client 1 may die; it has a COMMIT in its
turn and then a transaction that runs at any time, client 2 a transaction in the
turn it is given, and both change the one relation. So the two contend, one sleeps
while the other's COMMIT goes through the queue, and client 1 can die with the
turn, with the lock, asleep in the lock's queue, or after its vote.

`mandelbrot` has three workers and one to four rows, which gives workers without a
first row, as many rows as workers, and a row more. `monte` has two workers, three
chunks of which the last is smaller, and a queue of two, so that the master is
held up while it sends chunks and while it sends empty messages. The master and
one worker may be paused once each, and SIGINT may come at any moment
(`MasterPauses`, `WorkerPauses`, `MayStop`).

The engine's runs have blocks of two rows, two data blocks and one overflow block
instead of 4, 16 and 4, so a few rows fill a bucket, spill into the overflow
block and are turned down. In `storage_base` the disk has ten blocks and
`g_relations` four entries: two relations and the dictionary fill the one, a
third relation does not fit into the other. The inserted rows contain a key that
is there, a row of the wrong length and a value of the wrong domain. In
`storage_algebra` the disk is large enough for two relations, their dictionary
rows and two results, so that only relations fill up; the second relation has the
columns of the first in another order, or one of them and a new one. A result is
read by another operator in turn.

`connections` has three clients with two requests each, of which two may be killed: a
descriptor can pass through three hands, and a client can be one answer behind after
it has sent its second request.

`small` has two lines to type at each side of `Chat`, so that two can be read at once;
three requests in `Ping`, so that a late answer displaces the next and the one after
it; four commands and pipes of two items in `Pipeline`, where the first, the last and two
in between differ; in `RadixSort` two passes over two digits and up to five elements on
up to four ranks, which gives blocks that are empty, unequal and equal; in `PrimeSieve`
every n up to 45 on up to three ranks with pieces of four numbers, so that there are
several pieces on a rank, base primes that start in a later piece, and ranks without
elements; and in `CommandStream` every script of up to three of twelve blocks of lines:
commands whose data lines look like ids and like commands, a line its command does not
accept, an indented line, a `CR` without its last number, a verb written as one word with
a name, a name of more than 31 characters, a command that announces more lines than it
has, a line without id between commands, and an id of three digits.

*Fairness.* `FairSpec` of `LockManager` has weak fairness of each worker's own
steps: threads that can run are scheduled. Spurious wakeups and new requests are
not fair. A commit is strongly fair for each transaction: every transaction of a
script ends in a `C` line and the client sends it when the commands before it
are answered, which happens again and again. `FairSpec` of `Dispatcher` has weak
fairness of every client, reader, worker and of `main`; the queue is first in,
first out, so weak fairness carries a request that is due to a worker. `DbServer`
has the same, needs no assumption about commits, which its scripts contain, and
none about deaths, which are not fair; readers and workers stop with the process.
In `MandelbrotFarm` ranks that can go on do, and an `MPI_Send` is sure to return
only when its message has been received, since MPI promises no more. In
`MonteCarlo` processes that can run do, a signal that was sent arrives, and a
paused process is resumed in the end, which is up to the person who paused it. In
`SmallModels` the processes of the chat and of the pipeline run and signals arrive;
nobody has to type, and no command of a pipeline has to exit by itself.

*Deadlock.* The runs of programs that end do not check for it; their liveness
properties say where they may end. In `LockManager` spurious wakeups keep some
step possible, so `WaiterServed` carries the question. The engine's runs check it.

## 4 Proofs

There are theorems about twelve modules, for every value of the constants that the
module's own assumption allows. `LockManager`, `Dispatcher`, `DbServer`, `Storage`,
`Connections`, `MandelbrotFarm` and `MonteCarlo` have a module of proofs each; those of
`Ping`, `Chat`, `Pipeline`, `PrimeSieve`, `CommandStream` and `RadixSort` are in
`SmallModelsProofs`, as theorems about `SmallModels`.

| Theorem | Property | Assumes |
| --- | --- | --- |
| `TypeCorrect` | `LockManager` `TypeOK` (no run) | - |
| `ModeCorrect` | `ModeMatchesHolders` (no run) | - |
| `NoWakeupLost` | `NoLostWakeup` | - |
| `FirstComeFirstServed` | `NoOvertaking` | - |
| `LocksImplemented` | `ImplementsRWLocks` | - |
| `BookkeepingCorrect` | `HoldersMatchTxns` | S, R |
| `DeadlockAvoided` | `WaitsUpward` | S, R |
| `CommitCorrect` | `CommitReleasesAll` | S, R |
| `ExecutionExclusive` | `ExclusiveExecution` | S, R, U |
| `ConflictsNeverMeet` | `ConflictsSerialized` | S, R, U |
| `CatalogStays` | `CatalogStable` | S, R, U |
| `RequiredStayThere` | `RequiredAtRun` (no run) | S, R, U |
| `DispatcherTypeCorrect` | `Dispatcher` `TypeOK` (no run) | - |
| `DispatcherOneCopy` | `OneCopy` | - |
| `DispatcherStopsLast` | `StopsLast` | V |
| `DispatcherNeverFull` | `NeverFull` | Q |
| `DispatcherTakesTurns` | `ImplementsTurnTaking` | O |
| `ServerImplementsLockManager` | `ImplementsLockManager` | - |
| `ServerGateOpen` | `GateStillOpen` (in `TurnsAndLocksAgree`) | - |
| `ServerTurnsAndLocksAgree` | `TurnsAndLocksAgree` | S, R |
| `ServerWaitsUpward` | `WaitsUpward`, `NoOvertaking` in `DbServer` (no run) | S, R |
| `ServerSerializesConflicts` | `ExclusiveExecution`, `ConflictsSerialized`, `RequiredAtRun` in `DbServer` (no run) | S, R, P |
| `FarmTypeCorrect` | `MandelbrotFarm` `TypeOK` (no run) | - |
| `FarmSendsMeet` | `NoMutualSend` | - |
| `FarmImageComplete` | `ImageComplete` (no run) | - |
| `FarmRetiredExactly` | `RetiredExactly` (no run) | - |
| `FarmImplementsTaskBag` | `ImplementsTaskBag` | - |
| `MonteTypeCorrect` | `MonteCarlo` `TypeOK` (no run) | - |
| `MonteSumGuarded` | `SumGuarded` (no run) | - |
| `MonteChunkConserved` | `ChunkConserved` | - |
| `MonteSumExact` | `SumExact` | - |
| `ConnectionsTypeCorrect` | `Connections` `TypeOK` (no run) | - |
| `ConnectionsLivingKeepTheirAnswers` | `LivingKeepTheirAnswers` (in `AnswersKept`) | - |
| `ConnectionsInStep` | `InStepUntilKilled` | - |
| `ConnectionsAnswersKept` | `AnswersKept` | - |
| `PingStatisticsRight` | `StatisticsRight` | - |
| `ChatStraysOnlyWhenPiped` | `StraysOnlyWhenPiped` (in `ConversationEnds`) | - |
| `PipelineNeverStuck` | `NeverStuck` (behind `PipelineEnds`) | - |
| `SieveCorrect` | `SieveRight` | - |
| `StreamParsersAgree` | `ParsersAgree` | - |
| `RadixCorrect` | `RadixRight` | - |
| `RadixImplementsLsdSort` | `ImplementsLsdSort` | - |
| `StorageInvariant` | `IInv` (no run) | H |
| `StorageBlocksOwnedOnce` | `Storage` `BlocksOwnedOnce` | H |
| `StorageOnlyTheTarget` | `OnlyTheTarget` | H |
| `StorageDictionarySound` | `DictionarySound` | H |
| `StorageImplementsRelationStore` | `ImplementsRelationStore` | H |
| `StorageTypeCorrect` | `Storage` `TypeOK` (no run) | H |
| `StorageRefusedOnlyWhenFull` | `RefusedOnlyWhenFull` | H, A |
| `StorageDescribedUnlessFull` | `DescribedUnlessFull` | H |
| `StorageStoredOnce` | `StoredOnce`, `PrintedOnce` (in `ResultsExact`) | H |
| `StorageResultsExact` | `ResultsExact` | H, N |

The letters are conditions on the programs:

- **S** `NoSlotCollision`: no two ids agree modulo the size of `txn_states`;
  otherwise the newcomer erases the other's record.
- **R** `RoomForHolders`: a holders array has room for every transaction. Without
  it `lock_grant` drops a holder, and the two records differ.
- **U** `NoUpgrade` in every state (`[]NoUpgrade`), a condition on behaviours and not on
  the constants: no worker is about to find a block that it has to write held for reading
  by its own transaction. Without it `ConflictsSerialized` fails (`lock_upgrade`). A
  transaction may write a relation first and print it later, as `data.in` does in lines
  53 to 56.
- **P** `NoUpgrades` of `DbServer`: no transaction prints a relation and writes its bucket
  in a later request. `data.in` is so, and U follows from it (4.3). Scripts may have any
  length.
- **V** `EverybodyVotes`: no more clients than expected votes. Without it
  `StopsLast` fails: the server stops while a client is working.
- **Q** `RoomInQueue`: the queue has room for all clients, and for the clients whose
  vote is not counted together with one sentinel per worker. The code has ten places
  for nine clients, and for five and four.
- **O** `OwnScripts`: a client's script has only transactions whose id begins with
  its number. A commit under another's id would pass that client's turn on.
- **H** `HashInRange`: a hash is the number of a bucket. `mydb.c` takes it modulo the
  number of buckets.
- **A** `NoneEmpty`: every relation a `CR` makes has an attribute. A row without fields
  would look like a free slot of the model.
- **N** `OperandNamed`, a condition on the state and not on the constants: the first
  operand of a `UN` or `DF` that is being carried out has no two attributes of one name.
  Nothing in the code sees to it (section 5, 22).

### 4.1 The lock manager

The argument goes in layers, each inductive given the ones before.

1. `Shape`: types, well-formed requests, one worker per client, and queues that
   hold exactly the workers blocked on their bucket. It needs no assumption.
2. `ModeMatchesHolders`, `NoLostWakeup` and the refinement follow from single
   steps and `Shape`. For wakeups, each step that changes an entry either leaves
   it or wakes everyone in its queue.
3. `Ledger`: `HoldersMatchTxns` with `EntriesStay`. Each step of a transaction
   changes both records of its own locks alike and no other's; the pointer kept
   across the wait is harmless because nobody else takes the entry over.
4. `PlanInOrder`: what a command has acquired it still holds, and the rest lies
   above. This is where the ordering release is shown never to strike inside a
   plan: it can only come with a plan's first block. `WaitsUpward` follows.
5. `HeldAsUsed`: what a writing command has acquired is held for writing. A step
   keeps it as long as the block it acquires is not one that its transaction holds
   for reading already, which is `NoUpgrade`; and what is held for writing stays so
   while its holder's command writes, since nobody else gets it (`WriteStays`). With 2
   and 4 this gives `ExclusiveExecution`, and from it the two theorems about the
   catalog.

The invariants used as steps (`RequestsWellFormed`, `OneWorkerPerClient`,
`QueuesMatchWorkers`, `EntriesStay`, `PlanInOrder`, `HeldAsUsed`, `FlagConsumed`)
are defined at the end of `LockManager`.

### 4.2 The dispatcher

`OneCopy` alone is not inductive: it counts places of waiting clients and says
nothing of a request whose client is gone, nor of what the items contain. `IInv`
adds that. `OnePlace` says of every two places that a request is not in both;
`ItemsRight` that an item is its client's latest request, and what has been gated
is no sentinel; `Progress` that `served` is what was sent, less what is in
transit. `VotesCounted` (the votes are those of clients that sent them) and
`Progress` give `StopsLast`: the last vote is sent after everything else was
answered. `QueueCounted` bounds the queue by the clients that have an item in it and
the sentinels; whoever has an item to send is a client without one in the queue, or
`main` with a sentinel to go, so with Q there is room (`NeverFull`). `GateHolds` says that a request accepted by `phase_is_ready` stays due:
only its own client's commit could pass the turn on, and that client has no other
request. With `Progress` this maps a step that carries a request out to a step of
`TurnTaking`, and every other step to a stutter. For `GateHolds` it is enough that no id
is in the scripts of two clients (`TidsApart`), which O implies.

### 4.3 The server as a whole

`DbServerProofs` takes the proofs of both components as instances, `DP` and `LP`. Their
theorems are about their own `Spec`, and the server's behaviours are none of the
dispatcher's: clients die, and carrying a request out takes many steps. So the
argument has two halves.

*The dispatcher's invariants hold in the server.* `DispatcherAssumed` discharges the
dispatcher's assumption, and `TidsApart` the one on ids. Every step of the server is a
step of the dispatcher, leaves its variables alone, or is a death, and a death keeps
the invariants (`DieKeeps`): they speak of what is on the way and of its client's
number, not of the client being there to receive it.

*Every step is a step of the lock manager, or none.* `Agreement` joins a worker's two
places: it is inside `process_request` only while it serves, with the request and the
command of its item. A request that begins is thus one of its client's script
(`Program`), and by the dispatcher's `OnePlace` no other worker has one of the same
client, which are the two things the lock manager expects. The refinement gives
`LP!Spec`, with it every theorem of the lock manager becomes one of the server
(`ServerWaitsUpward`, `ServerSerializesConflicts`), and its assumption is discharged in
`LockManagerAssumed`.

*Scripts without upgrades.* The lock manager's U is about states, P about scripts.
`CommandsRight` says that a worker carries out the command of its item, and `ReadsAsked`
that a bucket is held for reading only by a transaction that has sent a request to print
one of its relations. The request of a worker is the last its client has sent; so if it
is to write a bucket that its transaction holds for reading, an earlier request of the
script has printed there, which P excludes (`UpgradeSeen`, `ServerNoUpgrade`).

For `TurnsAndLocksAgree` there is more to say. `GateStillOpen` is the dispatcher's
`GateHolds` where `Agreement` says the two ids are the same. That an answered `COMMIT`
is clean needs the answer to come after the release. A worker that is about to answer a
`COMMIT` has a transaction of its client's that holds nothing (`RepliesClean`), by the lock
manager's `CommitReleasesAll`; and a bucket gets a holder only from a worker that serves it
(`HoldersGrow`), of which, by `OnePlace`, there is none until the client's next request.

### 4.4 The farms

`MandelbrotFarm`: a worker has one row, in one of three places, or was given
nothing, or was told to stop (`OneRowEach`); rows of two workers differ and are not
stored (`RowsApart`); every row handed out is stored or with a worker
(`RowsAccounted`); `pending` is the number of workers with a row (`PendingCounts`);
`Stages` ties the counters to the loops. With these five and the types, the
theorems follow from single steps.

`MonteCarlo`: only chunks are on the way (`ChunksOnly`), empty messages come last
(`EmptiesLast`), workers exit without a message only when the program is stopped
(`StopsInOrder`), the semaphore admits one worker and what it has read is the sum
(`SumGuarded`), and a chunk is in no two places (`OnePlace`). The last two hold as
long as `intruded = 0`: the proof shows that an interrupted `semop` is the only
thing that can break them. `SumExact` follows because a master that waits has no
chunk left, and behind workers that exited by themselves there are only empty
messages.

### 4.5 The storage engine

`StorageAssumption` asks for a disk that holds the bitmap and the two headers of the
dictionary, blocks and headers with at least one entry, `g_relations` with room for the dictionary, and commands whose attributes
and lines are sequences. The order in which blocks and positions are searched is
written with `Picked`, a function, so that proofs can speak of it.

1. *Blocks.* `BlocksOwnedOnce` counts owners. The proof keeps what that means apart:
   what a header names is marked (`Marked`), what is marked somebody names
   (`NoneLost`), and no block is named in two places (`NoneShared`). `Grow` marks the
   first free block and fills one entry, `Delete` frees exactly the blocks its relation
   names. `Counted` is needed because the code asks the counter of a header whether
   there is room, and then looks for an empty entry: the counter must be the number of
   entries that are filled. `TargetsExist` gives a command that goes on the relation it
   writes to; `DiskTyped` says that blocks have slots. Together they are `IInv`.
2. *What a step leaves alone* (`Untouched`). A step writes to a block of its own
   relation or to one that was free, and by 1 neither is another relation's. Its
   theorem, `StorageOnlyTheTarget`, is also what carries everything below over the
   relations a step is not about.
3. *The dictionary.* `DictionaryInv` says that its rows are true, and so are those
   still to be written, which are what makes it inductive: `DE` cannot come in between.
4. *Relations as sets of rows.* `StoreInv` has four parts. `RelationsInv`: the
   dictionary stays, and the key of a derived relation is the whole row. `RowsInv`: rows
   have all their fields, and in a base relation no two places hold the same key
   (`KeysApart`). That is stronger than "no two rows": it also means that removing or
   replacing the one place that was found changes one row. `CommandInv`: a command reads
   relations that stay, and writes to another. `ScanInv`: what a scan has still to read
   are blocks of its source, and its buffer holds rows that fit, so the callback's result
   fits the new relation. From there every step adds, removes or replaces one row of one
   relation (`Changes`), makes or drops one, or is a stutter. That a key which was not
   found is nowhere (`NothingFound`) needs the arithmetic of `Places`: every slot of
   every block is visited.
5. *What is full.* A row that `Grow` finds no slot for was offered to
   every block of its relation, so each of those is full, and no header had an entry
   left or no block was free (`GrownOrFull`). `MayRefuse` counts rows, not slots:
   `SlotsCounted` turns one into the other, for a relation whose rows are kept once
   (`RowsApart`, from `KeysApart`). For the dictionary, `DescribedInv` follows each row
   of a new relation from `pending` to its block (`Seen`), and says that what is pending
   is new; that holds because `DictionaryInv` leaves no row under a name that is free.
6. *What a scan has passed.* `ScansInv` is inductive beside 1 to 5. The rows `Ahead` of a
   scan are those in its buffer from its slot on and those in the blocks it has still to
   load; the others of its source are `Past`. `ScanPlace` says that blocks ahead are
   blocks of the source, no two the same, and that the buffer is a copy of another one.
   With `AllApart` (no row in two places, `StoredOnce`) a turn of the loop makes exactly
   one row pass, or none at a free slot. `AllApart` holds in a base relation because keys
   do not repeat. In a derived one `PJ` and `UN` look for the row first; `SL`, `DF` and
   `NJ` do not, and need not, because the rows of their sources are apart and so what
   they make of different rows differs (`JoinedApart`).
7. *What is due.* `Due` is what the rows past call for: one row or none for each, for a
   join one for each of `Pairs`, whose second part counts only as far as the inner scan
   has come, as long as the outer row is the one in `pf`. `HoldsDue` says that the new
   relation has nothing else, and all of it unless it may turn rows down, which by 5
   means that it is full. `UN` starts its second scan with the whole of the first
   relation; a row it meets again is not stored again. `PrintInv` is the same for a `PR`.
8. *The relational algebra.* At the end of a scan everything is past, and one lemma for
   each operator says that `Due`, with fields read under their names, is what the
   definition over sets of functions asks for (`ProjectionDue` to `NaturalJoinDue`).
   `VerbsInv` and `ResolvedInv` carry what the command's own checks have found to the end
   of its scan. For `UN` and `DF` a row must be determined by its fields' names: there,
   and only there, N is used.

### 4.6 The connections

Three layers. `Shape`: a descriptor is open as long as its reader runs and belongs to one
connection (`OpenWhileRead`, `OneOwnerEach`), and readers begin with their clients and
outlive them (`ReadersFollow`). `Owed` adds that the descriptor in an item is still its
client's until that has ended (`OwedInTheOpen`), so whoever else holds the number later
gets an answer of the dead (`LivingKeepTheirAnswers`). On it rest two invariants.
`AllInStep` says where a client's one request is while nobody has been killed: in its
socket, with its reader, owed, or answered; so an answer that is sent finds its client
waiting. `EachOnce` needs no such condition: requests that were passed on
(`PassedOnly`) are in one place each, owed, in a socket, or taken, and what a reader
passes on next is none of them.

### 4.7 Ping, chat and pipeline

`Ping`. `StatisticsRight` has a part about late answers and one about the three
sums. For the first, a datagram that is not that of the request being waited for is
late: a request no younger was given up (`LateDatagrams`, with `DatagramsOnce`), and so
is a time measured for another request (`LateTimes`). For the second, `Counted` says at
each statement which of the sums lack the time in hand; that the time is new to them, so
that a set counts it, is `TimesEarlier`. `SentFirst` gives the loss.

`Chat`. `StraysOnlyWhenPiped` needs to know who is alive when a signal arrives.
`Families`: a side has a child once it has forked, and as long as the child may still
notify its parent, that has neither waited for it nor been killed. `Signals`: a
SIGTERM on its way to a parent comes from its child and finds it, one to a child has
a child to find.

`Pipeline`. `PipelineEnds` is liveness; what can go wrong is that commands wait for one
another in a ring through a descriptor that somebody kept. `NeverStuck` says that, once
all are set up, one that runs can go on. `EndsInPlace` gives who has which end open: a
running command its own two at most, one that has ended and the waiting main process
none. The command to look at is the last of those that hold something to write. If its
pipe is full and somebody is there to read it, that is the next command, which has
empty hands and reads; otherwise it writes, or learns that nobody reads. If nobody
holds anything, the first one at work can read, or learns that its input has ended.
`WellFoundedInduction` is used for "last" and "first".

### 4.8 The sieves

`SieveRight` compares what loops over numbers do with what a prime is. The invariant,
`SieveInv`, is `InsideArray`, `PiecesDone`, `CountRight`, types, and `PrimesDone`, which
says of the programs that go prime by prime what `PiecesDone` says of those that go
piece by piece: the elements set are the multiples, from the square on, of the primes
that a rank was given and has done. That a step keeps it rests on three arguments.

1. *The base primes.* The loop in which each rank finds them is a recursive function
   whose values have a closed form (`SetBefore`): after the turn of `k`, what is set are
   the proper multiples of the odd numbers 3 to `3 + 2 * k` (`SetOneMore`; a number that
   is set has a divisor whose multiples were set before, so skipping it loses nothing).
   What is left are the odd primes (`BasePrimesAre`). They are enough: the least divisor
   of a composite number is a prime and no greater than the root (`LeastDivisor`).
2. *A piece.* `First` computes the first multiple in the piece from its lowest value and
   that value's parity; from there on, every element in steps of the prime is an odd
   multiple no less than its square, and there is no other (`NextMultiple`, `Struck`). So
   a piece loses its composite numbers and nothing else (`PieceLoses`). The ranks' blocks
   lie end to end and pieces cover them (`BlockFacts`, `PiecesFacts`).
3. *The count.* Elements and odd primes correspond one to one (`PrimesUpTo`), the blocks
   of the ranks are disjoint (`RanksAdd`), and the reduction adds up what they left:
   `SumOverRanks` says that this sum is the number of all. Where every rank has the
   whole array it is what no rank has set (`LeftByAll`).

What a given loop computes is proved without induction over data: the least number for
which a statement fails (`LeastNat`, from `WellFoundedInduction`) is not 0, and its
predecessor contradicts it.

### 4.9 The reading of scripts

`StreamInv` has two parts.

`RequestInv` holds for every script. While the client collects, the request has at least
one line, the first is one of its own transactions (`OwnLine`), and what it has and what
is still to be read is no more than the first line announces. While the engine is at it,
either nothing has been read (`Unread`) or `Begun` holds: the first line that was run has
its locks, and all that belongs to it has been read with it unless a line made it stop.
The two readings of a first line are compared in `OnePiece` and `FirstLine`: written as
usual, a line has one piece for each name, the locks that the engine needs are among
those the server took, and if the client sends data lines with it, the engine understands
it and expects as many.
`TakenFits` says that a command which does not stop takes at least as many lines as the
client had counted for it, so the rest is empty.

`PositionInv` is about scripts that fit, while no line has been dropped. `Flat[k]` are the
lines of the first `k` blocks and `Owns[k]` those of them that are the client's. The client
is at one place of the script, in one of five ways: between two blocks (`AtCommand`),
among the data lines of another's command (`Skipping`) or of an own one, with the request
as far as it has been read (`Collecting`), waiting for its answer (`Executing`), or at the
end (`Finished`). It counts the lines it has still to read, so its place is `Flat[k]` less
that number. That both `Lines` and the requests due are recursive functions with one
solution each is `Recursion` and `RecursionUnique`.

### 4.10 The radix sort

The theorems hold for all arrays of numbers below `Base ^ Passes`, any number of ranks,
any base from 1 and any number of passes; the code has base 256 and four passes. The
argument follows an element through a pass.

1. *The blocks.* `Start` and `Size` cut the positions of the array into blocks that lie
   end to end (`PartitionIs`), so each position is in one block (`BlockOf`,
   `BlocksApart`), and the binary search finds it: below `lo` and above `hi` there is
   never the block that is looked for (`OwnerIs`).
2. *The place.* `NewPlace` of a position is the number of elements with a smaller digit,
   or the same digit and no higher position. It is one to one (`Ranking`), and onto
   (`RankingOnto`). The histograms are cardinalities of sets of positions (`HistIs`), so
   their prefix and their sum over the ranks, and the sum of those over the smaller digits,
   are too (`PrefixIs`, `GlobalIs`, `DigitStartIs`). Together: `GlobalPos` is the new
   place less one (`GlobalPosIs`), and `Owner` gives the block the new place is in.
3. *The exchange.* A rank sends in the order of its block (`SentIs`), and what arrives
   is in order of the sender. So the element that was at `g` arrives at the place that
   counts the elements for the same rank up to `g` (`ReceivedIs`), and a rank receives as
   many as its block has places: the buffers, which were allocated once, suffice.
4. *The counting sort.* What a rank received is ranked once more, by the same digit
   (`PlaceIs`). As the places of its block are consecutive, the ranking among its own
   elements is the new place less the block's start (`CountingSortIs`), and the
   element is where it belongs (`PassMoves`).

`RadixInv` is the inductive invariant: types, `BlocksKept`, `SameValues` (every value as
often as in the input, from the one to one correspondence) and `SortedSoFar`: the array
ascends in the remainders by `Weight[pass]`, what the digits done count for. A pass
keeps it because a remainder by the next weight is a digit before the remainder by this
one (`OneDigitMore`), and elements of one digit keep their order. After the last pass the
remainder is the number itself. The verdict is right in every state, sorted or not
(`VerdictIsRight`): blocks that are empty lie behind all others, since the first blocks
are the larger ones, so that no empty block hides a boundary. For the refinement
(`PassSorts`), the elements before a position in `LsdSort` are one fewer than its
new place.

### 4.11 What is only model-checked

Liveness (`WaiterServed`, `AllServed`, `ServerStops`, `AnsweredUnlessAbandoned`,
`Terminates`, `EndsUnlessStranded`, `ConversationEnds`, `PipelineEnds`), which is out of
the prover's reach; of `ConversationEnds` and `PipelineEnds` a safety part is proved.
Every invariant and every action property of a passing run is stated by a theorem.

## 5 What the checks found

With a run that shows it:

1. *Upgrade* (`lock_upgrade`, `server.c:470`). A transaction that prints a relation
   and then changes it keeps its shared lock; the branch of `lock_can_grant` that
   would upgrade it is never reached. Readers run beside the writer.
Written into a condition of a property or theorem, which fails without it:

2. *A client more* (`server.c:1025`, condition V). The server stops after four votes
   whoever is still working, and a fifth client never has a turn.
3. *A phase skipped* (`server.c:214`, the scripts of the runs). A client without a
   transaction in a phase keeps the turn, and the others' requests circulate for ever.
4. *Shared entries* (`server.c:290`, condition S). Transactions whose ids agree in
   eight bits erase each other's records; the buckets stay locked after the commit.
5. *An interrupted `semop`* (`monte_worker.c:173`, `intruded` in `SumExact`). The
   result of `semop` is not looked at: a worker that is paused while it waits for
   the semaphore adds to the sum without it and raises it once too often.
6. *An interrupted empty message* (`monte_master.c:248`, `lost` in
   `EndsUnlessStranded`). It is not sent again, and one worker never exits.
7. *SIGINT between check and wait* (`monte_worker.c:132`, `Stranded`). The worker
   sleeps in `msgrcv`, which it had not entered when the signal came, and the master in
   its cleanup.
8. *More workers than rows* (`mandelbrot.c:163`, `Terminates`). The workers without a
   first row are never told to stop; `MPI_Finalize` hangs.
9. *A client that dies* (`server.c:1121`, `LeftBehind`). Its locks and its turn stay.
10. *A pool that sleeps* (`server.c:522`). With more clients than workers and
    transactions outside the phases, all workers may sleep in `lock_acquire` while
    the COMMIT that would wake them is in the queue. The run `server` has as many
    workers as clients, which excludes it.
11. *A stranger's answer* (`server.c:1140`, `NobodyKilled` in `InStepUntilKilled`). A
    client is killed while a worker carries its request out; its descriptor goes to the
    next client, and so does the answer. That client stays one answer behind.
12. *Lines left over* (`mydb.c:1135`, `Stops` in `DataStaysData`). A PJ with an
    unknown attribute returns before its other lines, and SL and NJ likewise; a line
    left over that reads as a command is carried out, without its locks.
13. *Ids of one or three digits* (`client.c:191`, `server.c:142`, `SameClient`). The client
    takes the first digit for its number, the server the id divided by ten.
14. *Lines read together* (`assignment02/client.c:103`, `merged` in `EndsUnlessMerged`).
    Lines are written with their zero byte and read with whatever else is there; only
    the first of a read is shown, and a full stop after another line is not seen.
15. *A parent that is gone* (`assignment02/client.c:113`, `StraysOnlyWhenPiped`). When
    SIGPIPE has ended the parent, the child signals the process that adopted it.
16. *Late answers* (`myping.c:132`, `LateOnlyAfterTimeout`). Requests carry no number: an
    answer that comes after its timeout is taken for that of the next request.
17. *SIGINT in an update* (`myping.c:159`, `LacksOneAtMost`). An answer is counted whose
    time is in no sum yet, and the average that is printed is too small.
18. *No primes* (`domainSieve.c:121`, `funcSieve.c:81`, the second term of `CountRight`).
    Both add one for the prime 2 whatever n is, and find one prime up to 0 and up to 1;
    `MPI_sieve.c` looks for n < 2 first.

19. *A line that only the engine understands* (`mydb.c:1898`, `AsWritten` in `LocksCover`
    and `DataStaysData`). The engine takes two characters for the verb: `DEflights`
    deletes the relation, but the server finds no verb and takes no lock. A name of more
    than 31 characters is two names for the engine and one for the others, so it works on
    a relation that is not locked, or gives up at once and leaves data lines to be taken
    for commands; an indented line, or one without its last number, leaves them too.

Noticed in the model, without a run:

20. *Waiting in vain* (`server.c:961`). A command that waits for a relation holds the
    lock its creator needs. `CatalogStable` shows the other side: without upgrades,
    no poll after the first can succeed.
21. *Rows left out* (`mydb.c:551`, `mydb.c:1234`). A base relation holds up to 80
    rows, a derived one 64. A selection from a larger relation, and likewise the
    other operators, leave rows out without saying so (`ResultExact` allows for it).
22. *Two attributes of one name* (`mydb.c:1318`, condition N). `CR` takes them, and `NJ`
    makes them when the operands share a name that is not joined on. Names are looked
    up from the front, so `UN` and `DF` compare and copy the first of the two twice.

None of 1 to 4 happens with the script `data.in`, where every one of four clients has
one transaction in every phase.

## 6 Limits

- A failing `calloc` in `lock_acquire` and a failing `mq_send` are left out.
- Commands too short to name their relations take no lock; they are left out.
- `g_running` is read without a lock. The model reads the current value, which on
  the usual platforms is what a plain load gives sooner or later.
- `Dispatcher` and `DbServer` have a client for its descriptor, so none is used again;
  that is `Connections`, where in turn the server does not stop and a worker is not ended
  by SIGPIPE. Clients die in `DbServer` and `Connections` only.
- The engine: rows that do not fit a slot of 62 characters, two spellings of one
  number, operators other than the six comparisons, more than ten attributes and
  malformed schema lines are left out. So is the copy of the bitmap in block 0,
  which is never read. A command in `Commands` comes with its own lines; a command
  that returns before it has read them all leaves the rest to be taken for
  commands, which is `CommandStream`'s subject: `Storage` has such commands refused.
- `MonteCarlo`: creating the IPC objects, a failing `fork` and the random tosses are
  left out. The message queue's limit in bytes is a number of messages.
- `MandelbrotFarm`: the pixels of a row and the command line are left out.
- `CommandStream`: one client's lines. Lines longer than `LINE_BUF`, names of more than 63
  characters and a number that stands where a name is missing are left out, and an
  instruction with a `T` but no digits is `T0`, nobody's.
- `Chat`: lines are short, FIFOs never fill, `fork` and `write` do not fail otherwise.
- `Ping`: datagrams are not duplicated, and nobody else sends any.
- `RadixSort`, `PrimeSieve`: random numbers, time measurement, failing allocations and
  the overflow of `long long` are left out. A radix pass is one step of all ranks.
- `Pipeline`: commands are what reads an item and writes an item.

## 7 Not modelled

- *Reply rendering* (`mydb.c`, `client.c`): printing tables is layout.
- *N-body* (`assignment10`): floating-point arithmetic between two collective
  operations per step, which leave nothing to interleave.
- *`mypipe3.c` and `whowc.c`* (`assignment01`): `mypipen.c` with three and two commands.
- *Examples, homework, cluster project, notes*: not part of a program. The notes
  come with `final-exam-notes/.obsidian/plugins/terminal/main.js`, a third party's
  minified bundle for the note-taking program. It is generated code, it is the
  only JavaScript of the repository, and no program of the repository uses it. Its
  lines are not mapped to any definition; the programs modelled here are all C.

## 8 What could come next

1. `DbServer` with more clients than workers.
2. `Connections` within `Dispatcher`: descriptors as the names of clients in the queue,
   and a server that stops while answers are under way.

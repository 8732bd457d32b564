--------------------------- MODULE MandelbrotFarm ---------------------------
(***************************************************************************)
(* assignment10/mandelbrotproblem/mandelbrot.c: rank 0 hands the rows of a *)
(* picture to the other ranks, one row at a time, stores the rows that     *)
(* come back, and retires a worker when no row is left for it.             *)
(*                                                                         *)
(* The messages between two ranks stay in order.  MPI_Send may return as   *)
(* soon as the library has copied the message, and is sure to return only  *)
(* once the message has been received: both are in the model, and the      *)
(* fairness condition relies on the latter alone.                          *)
(***************************************************************************)
EXTENDS Integers, Sequences, FiniteSets, Functions

CONSTANTS
    NProcs,    \* MPI processes
    MaxHeight  \* bound on the height given on the command line

Workers == 1 .. NProcs - 1
Rows    == 0 .. MaxHeight - 1

\* main refuses to run without a worker.
ASSUME FarmAssumption ==
    /\ NProcs \in Nat \ {0, 1}
    /\ MaxHeight \in Nat \ {0}

NoRow == -1
Nobody == 0

\* The work message of a row, and the message that retires a worker.
Work(r) == [tag |-> "TAG_WORK", row |-> r]
Done    == [tag |-> "TAG_DONE", row |-> NoRow]
Message == {Work(r) : r \in Rows} \union {Done}

\* A result: the number of a row, and the row whose pixels follow it.
Result == [row : Rows, pixels : Rows]

VARIABLES
    height,     \* the height on the command line
    master,     \* where run_master is
    next_row,
    pending,
    seeded,     \* the workers 1 .. seeded have been given their first row
    sendingTo,  \* the worker run_master is in MPI_Send for
    image,      \* image[r]: the row whose pixels are in row r of the image
    inbox,      \* inbox[w]: the messages to w that it has not received
    worker,     \* worker[w]: where run_worker is
    row,        \* row[w]: the row w works on
    results     \* results[w]: the messages of w that the master has not received

masterVars == <<master, next_row, pending, seeded, sendingTo, image>>
workerVars == <<worker, row>>
vars == <<height, masterVars, inbox, workerVars, results>>

TypeOK ==
    /\ height \in 1 .. MaxHeight
    /\ master \in {"seed", "collect", "finalize", "ended"}
    /\ next_row \in 0 .. height
    /\ pending \in Nat
    /\ seeded \in 0 .. NProcs - 1
    /\ sendingTo \in Workers \union {Nobody}
    /\ image \in [Rows -> Rows \union {NoRow}]
    /\ inbox \in [Workers -> Seq(Message)]
    /\ worker \in [Workers -> {"recv", "compute", "send", "exited"}]
    /\ row \in [Workers -> Rows \union {NoRow}]
    /\ results \in [Workers -> Seq(Result)]

\* main lets only a height above zero through; malloc leaves the image blank.
Init ==
    /\ height \in 1 .. MaxHeight
    /\ master = "seed"
    /\ next_row = 0
    /\ pending = 0
    /\ seeded = 0
    /\ sendingTo = Nobody
    /\ image = [r \in Rows |-> NoRow]
    /\ inbox = [w \in Workers |-> << >>]
    /\ worker = [w \in Workers |-> "recv"]
    /\ row = [w \in Workers |-> NoRow]
    /\ results = [w \in Workers |-> << >>]

(***************************************************************************)
(* The master                                                              *)
(***************************************************************************)

\* The master enters MPI_Send.
SendTo(w, m) ==
    /\ inbox' = [inbox EXCEPT ![w] = Append(@, m)]
    /\ sendingTo' = w

RowsLeft == next_row < height

\* One turn of the seeding loop.
Seed(w) ==
    /\ master = "seed"
    /\ sendingTo = Nobody
    /\ w = seeded + 1
    /\ RowsLeft
    /\ SendTo(w, Work(next_row))
    /\ seeded' = w
    /\ next_row' = next_row + 1
    /\ pending' = pending + 1
    /\ UNCHANGED <<height, master, image, workerVars, results>>

SeedingOver ==
    /\ master = "seed"
    /\ sendingTo = Nobody
    /\ seeded + 1 = NProcs \/ ~ RowsLeft
    /\ master' = "collect"
    /\ UNCHANGED <<height, next_row, pending, seeded, sendingTo, image, inbox,
                   workerVars, results>>

\* The master receives a result from any worker and stores the row.
Store(w) ==
    /\ master = "collect"
    /\ sendingTo = Nobody
    /\ pending > 0
    /\ results[w] # << >>
    /\ results' = [results EXCEPT ![w] = Tail(@)]
    /\ image' = [image EXCEPT ![Head(results[w]).row] = Head(results[w]).pixels]

\* Variant: the next row goes to the worker after the one that sent the result.
CollectAndSendNext(w) ==
    /\ Store(w)
    /\ RowsLeft
    /\ SendTo(IF w + 1 < NProcs THEN w + 1 ELSE 1, Work(next_row))
    /\ next_row' = next_row + 1
    /\ UNCHANGED <<height, master, pending, seeded, workerVars>>

\* The worker that sent it gets the next row.
CollectAndSend(w) ==
    /\ Store(w)
    /\ RowsLeft
    /\ SendTo(w, Work(next_row))
    /\ next_row' = next_row + 1
    /\ UNCHANGED <<height, master, pending, seeded, workerVars>>

\* Variant: the last worker is left waiting.
RetireAllButLast(w) ==
    /\ Store(w)
    /\ ~ RowsLeft
    /\ IF pending > 1 THEN SendTo(w, Done) ELSE UNCHANGED <<inbox, sendingTo>>
    /\ pending' = pending - 1
    /\ UNCHANGED <<height, master, next_row, seeded, workerVars>>

\* No row is left: the worker is retired.
CollectAndRetire(w) ==
    /\ Store(w)
    /\ ~ RowsLeft
    /\ SendTo(w, Done)
    /\ pending' = pending - 1
    /\ UNCHANGED <<height, master, next_row, seeded, workerVars>>

\* The picture is written, and the master comes to MPI_Finalize.
WriteImage ==
    /\ master = "collect"
    /\ sendingTo = Nobody
    /\ pending = 0
    /\ master' = "finalize"
    /\ UNCHANGED <<height, next_row, pending, seeded, sendingTo, image, inbox,
                   workerVars, results>>

\* MPI_Finalize is collective: it returns when every rank has called it.
Finalize ==
    /\ master = "finalize"
    /\ \A w \in Workers : worker[w] = "exited"
    /\ master' = "ended"
    /\ UNCHANGED <<height, next_row, pending, seeded, sendingTo, image, inbox,
                   workerVars, results>>

MasterSent ==
    /\ sendingTo # Nobody
    /\ sendingTo' = Nobody
    /\ UNCHANGED <<height, master, next_row, pending, seeded, image, inbox,
                   workerVars, results>>

(***************************************************************************)
(* The workers                                                             *)
(***************************************************************************)
ReceiveRow(w) ==
    /\ worker[w] = "recv"
    /\ inbox[w] # << >>
    /\ Head(inbox[w]).tag = "TAG_WORK"
    /\ inbox' = [inbox EXCEPT ![w] = Tail(@)]
    /\ row' = [row EXCEPT ![w] = Head(inbox[w]).row]
    /\ worker' = [worker EXCEPT ![w] = "compute"]
    /\ UNCHANGED <<height, masterVars, results>>

Retire(w) ==
    /\ worker[w] = "recv"
    /\ inbox[w] # << >>
    /\ Head(inbox[w]).tag = "TAG_DONE"
    /\ inbox' = [inbox EXCEPT ![w] = Tail(@)]
    /\ worker' = [worker EXCEPT ![w] = "exited"]
    /\ UNCHANGED <<height, masterVars, row, results>>

\* Variant: the number is that of the row before.
ResultOfPrevious(r) == [row |-> IF r > 0 THEN r - 1 ELSE r, pixels |-> r]

ResultOf(r) == [row |-> r, pixels |-> r]

\* The row is computed and its result handed to MPI_Send.
Compute(w) ==
    /\ worker[w] = "compute"
    /\ results' = [results EXCEPT ![w] = Append(@, ResultOf(row[w]))]
    /\ worker' = [worker EXCEPT ![w] = "send"]
    /\ UNCHANGED <<height, masterVars, inbox, row>>

WorkerSent(w) ==
    /\ worker[w] = "send"
    /\ worker' = [worker EXCEPT ![w] = "recv"]
    /\ UNCHANGED <<height, masterVars, inbox, row, results>>

(***************************************************************************)
(* The specification                                                       *)
(***************************************************************************)
MasterStep ==
    \/ \E w \in Workers : Seed(w) \/ CollectAndSend(w) \/ CollectAndRetire(w)
    \/ SeedingOver
    \/ WriteImage
    \/ Finalize
    \/ MasterSent

WorkerStep(w) == ReceiveRow(w) \/ Retire(w) \/ Compute(w) \/ WorkerSent(w)

Next == MasterStep \/ \E w \in Workers : WorkerStep(w)

Spec == Init /\ [][Next]_vars

\* A rank that can go on does; one inside MPI_Send is sure to only when its
\* message has been received.
SureMasterStep ==
    MasterStep /\ (sendingTo # Nobody => inbox[sendingTo] = << >>)

SureWorkerStep(w) ==
    WorkerStep(w) /\ (worker[w] = "send" => results[w] = << >>)

FairSpec ==
    /\ Spec
    /\ WF_vars(SureMasterStep)
    /\ \A w \in Workers : WF_vars(SureWorkerStep(w))

(***************************************************************************)
(* Properties                                                              *)
(***************************************************************************)

\* The rows on the way to a worker, with it, or on the way back.
RowsIn(in, at, r, out) ==
    {m.row : m \in {x \in Range(in) : x.tag = "TAG_WORK"}}
    \union (IF at = "compute" THEN {r} ELSE {})
    \union {m.row : m \in Range(out)}

\* The rows w has been given and the master has not stored.
RowsOf(w) == RowsIn(inbox[w], worker[w], row[w], results[w])

Stored == {r \in Rows : image[r] # NoRow}

Bag == INSTANCE TaskBag WITH
    Tasks <- Rows, Doers <- Workers,
    open <- next_row .. height - 1,
    taken <- [w \in Workers |-> RowsOf(w)],
    done <- Stored

\* Every row is given to one worker, computed by it and stored once, in whatever
\* order the results come in (the loop of run_master).
ImplementsTaskBag == Bag!Spec

\* When run_master writes the picture no row of it is missing or misplaced.
ImageComplete ==
    master \in {"finalize", "ended"} => \A r \in 0 .. height - 1 : image[r] = r

\* The master never waits in MPI_Send for a worker that waits in MPI_Send for
\* the master, which would hang the program as soon as messages are too long to
\* be copied.
NoMutualSend ==
    \A w \in Workers :
        sendingTo = w /\ inbox[w] # << >> => results[w] = << >>

\* The worker has been told to stop.
Dismissed(w) ==
    \/ worker[w] = "exited"
    \/ Done \in Range(inbox[w])

\* When the picture is written, the workers that had a row have all been told
\* to stop, and nobody else has: a worker without a first row is never told.
RetiredExactly ==
    master \in {"finalize", "ended"} =>
        \A w \in Workers : Dismissed(w) <=> w <= height

\* The picture is written, and when there are rows for all workers the program
\* ends.
Terminates ==
    /\ <>(master = "finalize")
    /\ height >= NProcs - 1 => <>(master = "ended")

(***************************************************************************)
(* The inductive invariant: what the proofs of the properties above need   *)
(***************************************************************************)

\* w has been given row r: it is in exactly one place.
Holds(w, r) ==
    \/ /\ inbox[w] = <<Work(r)>>
       /\ worker[w] \in {"recv", "send"}
       /\ results[w] = << >>
    \/ /\ inbox[w] = << >>
       /\ worker[w] = "compute"
       /\ row[w] = r
       /\ results[w] = << >>
    \/ /\ inbox[w] = << >>
       /\ worker[w] \in {"recv", "send"}
       /\ results[w] = <<ResultOf(r)>>

\* w has been given nothing yet.
Fresh(w) == inbox[w] = << >> /\ worker[w] = "recv" /\ results[w] = << >>

\* w has been told to stop.
Gone(w) ==
    \/ inbox[w] = <<Done>> /\ worker[w] \in {"recv", "send"} /\ results[w] = << >>
    \/ inbox[w] = << >> /\ worker[w] = "exited" /\ results[w] = << >>

Busy == {w \in Workers : \E r \in Rows : Holds(w, r)}

\* The workers that were seeded have one row each or have been told to stop,
\* which happens only when no row is left.
OneRowEach ==
    \A w \in Workers :
        IF w <= seeded
        THEN (\E r \in Rows : Holds(w, r)) \/ (Gone(w) /\ next_row = height)
        ELSE Fresh(w)

\* A row with a worker is not stored, and is with that worker alone.
RowsApart ==
    \A w \in Workers : \A r \in Rows : Holds(w, r) =>
        /\ r < next_row
        /\ image[r] = NoRow
        /\ \A v \in Workers : Holds(v, r) => v = w

\* A row that was handed out is stored or with a worker.
RowsAccounted ==
    \A r \in Rows :
        \/ r >= next_row /\ image[r] = NoRow
        \/ r < next_row /\ image[r] = r
        \/ r < next_row /\ image[r] = NoRow /\ \E w \in Workers : Holds(w, r)

\* pending counts the workers that have a row.
PendingCounts == pending = Cardinality(Busy)

\* Seeding stops at the last worker or the last row; the picture is written
\* when nobody has a row.
Stages ==
    /\ master = "seed" => next_row = seeded
    /\ master # "seed" => seeded = NProcs - 1 \/ seeded = height
    /\ seeded <= height
    /\ master \in {"finalize", "ended"} => pending = 0
=============================================================================

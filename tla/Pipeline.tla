------------------------------ MODULE Pipeline ------------------------------
(***************************************************************************)
(* assignment01/mypipen.c: a process makes a pipe between each command and *)
(* the next, forks a child for each, and waits for them all.  What matters *)
(* is which ends stay open where: a command that reads sees the end of its *)
(* input, and one that writes learns that nobody reads, only if no other   *)
(* process has kept the end.                                               *)
(*                                                                         *)
(* Pipe c goes from command c to command c + 1.  The first command reads a *)
(* terminal that never ends, the last writes to one.  A command reads an   *)
(* item, writes an item, and so on; it may end at any time.                *)
(***************************************************************************)
EXTENDS Naturals, FiniteSets

CONSTANTS
    N,    \* the number of commands, at least 1
    Cap   \* the items a pipe holds, at least 1

Commands  == 1 .. N
Pipes     == 1 .. N - 1
Main      == 0
Processes == {Main} \union Commands
Ends      == Pipes \X {"r", "w"}

VARIABLES
    main,   \* what the main process does next
    i,      \* the command its loop is at
    prev,   \* the pipe of prev_pipe_read, 0 for standard input
    state,  \* state[c]: how far command c is
    ends,   \* ends[q]: the ends process q has open
    items,  \* items[c]: the items in pipe c
    hand    \* hand[c]: command c has an item to write

vars == <<main, i, prev, state, ends, items, hand>>

Init ==
    /\ main = "pipe"
    /\ i = 1
    /\ prev = 0
    /\ state = [c \in Commands |-> "unborn"]
    /\ ends = [q \in Processes |-> {}]
    /\ items = [c \in Pipes |-> 0]
    /\ hand = [c \in Commands |-> FALSE]

Held(c, end) == \E q \in Processes : <<c, end>> \in ends[q]

(***************************************************************************)
(* The main process                                                        *)
(***************************************************************************)

\* ! is_last
NotLast == i < N

MakePipe ==
    /\ main = "pipe"
    /\ ends' = [ends EXCEPT ![Main] = IF NotLast THEN @ \union {<<i, "r">>, <<i, "w">>} ELSE @]
    /\ main' = "fork"
    /\ UNCHANGED <<i, prev, state, items, hand>>

\* The child has what its parent has.
Fork ==
    /\ main = "fork"
    /\ state' = [state EXCEPT ![i] = "setup"]
    /\ ends' = [ends EXCEPT ![i] = ends[Main]]
    /\ main' = "close"
    /\ UNCHANGED <<i, prev, items, hand>>

\* pipe or fork fails: the main process exits, the commands it has begun go on.
Fail ==
    /\ main \in {"pipe", "fork"}
    /\ main' = "failed"
    /\ ends' = [ends EXCEPT ![Main] = {}]
    /\ UNCHANGED <<i, prev, state, items, hand>>

\* What the parent closes after the fork.
Closed == {<<prev, "r">>, <<i, "w">>}

CloseEnds ==
    /\ main = "close"
    /\ ends' = [ends EXCEPT ![Main] = @ \ Closed]
    /\ IF NotLast THEN prev' = i /\ i' = i + 1 /\ main' = "pipe"
                ELSE main' = "wait" /\ UNCHANGED <<i, prev>>
    /\ UNCHANGED <<state, items, hand>>

Ended == \A c \in Commands : state[c] \in {"unborn", "ended"}

\* wait has returned -1: there are no children left.
Finish ==
    /\ main = "wait"
    /\ Ended
    /\ main' = "done"
    /\ ends' = [ends EXCEPT ![Main] = {}]
    /\ UNCHANGED <<i, prev, state, items, hand>>

(***************************************************************************)
(* The commands                                                            *)
(***************************************************************************)

\* Variant: the child keeps the end its neighbour is to read from.
KeptBoth(c) == {<<c - 1, "r">>, <<c, "r">>, <<c, "w">>}

\* What is left of the child's ends when it has closed the others: standard input
\* and standard output.
Kept(c) == {<<c - 1, "r">>, <<c, "w">>}

Exec(c) ==
    /\ state[c] = "setup"
    /\ ends' = [ends EXCEPT ![c] = @ \intersect Kept(c)]
    /\ state' = [state EXCEPT ![c] = "run"]
    /\ UNCHANGED <<main, i, prev, items, hand>>

\* The command exits, or exec has failed.
End(c) ==
    /\ state' = [state EXCEPT ![c] = "ended"]
    /\ ends' = [ends EXCEPT ![c] = {}]
    /\ UNCHANGED <<main, i, prev, items, hand>>

Read(c) ==
    /\ state[c] = "run" /\ ~ hand[c]
    /\ c > 1 => items[c - 1] > 0
    /\ items' = IF c > 1 THEN [items EXCEPT ![c - 1] = @ - 1] ELSE items
    /\ hand' = [hand EXCEPT ![c] = TRUE]
    /\ UNCHANGED <<main, i, prev, state, ends>>

EndOfFile(c) ==
    /\ state[c] = "run" /\ ~ hand[c]
    /\ c > 1 /\ items[c - 1] = 0 /\ ~ Held(c - 1, "w")
    /\ End(c)

Write(c) ==
    /\ state[c] = "run" /\ hand[c]
    /\ c < N => items[c] < Cap /\ Held(c, "r")
    /\ items' = IF c < N THEN [items EXCEPT ![c] = @ + 1] ELSE items
    /\ hand' = [hand EXCEPT ![c] = FALSE]
    /\ UNCHANGED <<main, i, prev, state, ends>>

\* SIGPIPE
BrokenPipe(c) ==
    /\ state[c] = "run" /\ hand[c]
    /\ c < N /\ ~ Held(c, "r")
    /\ End(c)

Quit(c) == state[c] \in {"setup", "run"} /\ End(c)

Run(c) == Exec(c) \/ Read(c) \/ EndOfFile(c) \/ Write(c) \/ BrokenPipe(c)

MainStep == MakePipe \/ Fork \/ CloseEnds \/ Finish

Next == MainStep \/ Fail \/ \E c \in Commands : Run(c) \/ Quit(c)

Spec == Init /\ [][Next]_vars

(***************************************************************************)
(* Properties                                                              *)
(***************************************************************************)

\* One command that ends brings all the others to their end, those before it by
\* SIGPIPE and those after it by the end of their input, and the main process with
\* them; so does a main process that fails (mypipen.c:29-39, 59-76).
PipelineEnds ==
    (main = "failed" \/ \E c \in Commands : state[c] = "ended")
        ~> (Ended /\ main \in {"done", "failed"})
=============================================================================

------------------------------ MODULE TaskBag ------------------------------
(***************************************************************************)
(* What a farm of workers promises: each task is handed to one worker, is  *)
(* carried out by it, and is recorded once.  There are no messages here;   *)
(* MandelbrotFarm (assignment10) is shown to implement this specification. *)
(***************************************************************************)
CONSTANTS Tasks, Doers

VARIABLES
    open,   \* the tasks nobody has been given
    taken,  \* taken[w]: the tasks w has been given and that are not recorded
    done    \* the tasks that are recorded

Init ==
    /\ open \in SUBSET Tasks
    /\ taken = [w \in Doers |-> {}]
    /\ done = {}

Take(w, t) ==
    /\ t \in open
    /\ taken[w] = {}
    /\ open' = open \ {t}
    /\ taken' = [taken EXCEPT ![w] = {t}]
    /\ done' = done

Record(w, t) ==
    /\ taken[w] = {t}
    /\ done' = done \union {t}
    /\ taken' = [taken EXCEPT ![w] = {}]
    /\ open' = open

\* The one who records a task may hand the worker the next at once.
RecordAndTake(w, t, u) ==
    /\ taken[w] = {t}
    /\ u \in open
    /\ done' = done \union {t}
    /\ taken' = [taken EXCEPT ![w] = {u}]
    /\ open' = open \ {u}

Next ==
    \E w \in Doers : \E t \in Tasks :
        \/ Take(w, t)
        \/ Record(w, t)
        \/ \E u \in Tasks : RecordAndTake(w, t, u)

Spec == Init /\ [][Next]_<<open, taken, done>>
=============================================================================

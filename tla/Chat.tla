-------------------------------- MODULE Chat --------------------------------
(***************************************************************************)
(* assignment02: a server and a client chat over two named pipes.  Each    *)
(* side forks once connected: the parent copies what its user types to one *)
(* FIFO, the child shows what comes out of the other.  A line with only a  *)
(* full stop ends the conversation.                                        *)
(*                                                                         *)
(* A line is "text" or "stop".  Lines are short: a write is atomic, a FIFO *)
(* never fills, and a read of BUFSIZ bytes takes all that is there.        *)
(***************************************************************************)
EXTENDS Naturals, SequencesExt

CONSTANT MaxLines  \* a number: bound on the lines a user types

Sides == {"server", "client"}
Other(s) == IF s = "server" THEN "client" ELSE "server"

VARIABLES
    fifos,    \* whether the FIFOs are in /tmp
    parent,   \* parent[s]: where the parent of side s is in main
    child,    \* child[s]: where its child is
    line,     \* line[s]: the line the parent has read and not yet written
    pipe,     \* pipe[s]: what s has written and nobody has read
    termed,   \* the processes a SIGTERM is on its way to
    typed,    \* history: typed[s]: how many lines were typed at s
    sent,     \* history: sent[s]: the lines s has written
    merged,   \* history: merged[s]: a read at s took more than one line
    strays    \* history: a SIGTERM for a parent went to another process

history == <<typed, sent, merged, strays>>
vars == <<fifos, parent, child, line, pipe, termed, history>>

Dead == {"failed", "done", "killed", "piped"}

\* A server that broke off has left its FIFOs behind.
Init ==
    /\ fifos \in BOOLEAN
    /\ parent = [s \in Sides |-> "start"]
    /\ child = [s \in Sides |-> "none"]
    /\ line = [s \in Sides |-> "text"]
    /\ pipe = [s \in Sides |-> << >>]
    /\ termed = {}
    /\ typed = [s \in Sides |-> 0]
    /\ sent = [s \in Sides |-> << >>]
    /\ merged = [s \in Sides |-> FALSE]
    /\ strays = FALSE

(***************************************************************************)
(* Connecting                                                              *)
(***************************************************************************)

\* The FIFOs in the order s opens them.
Opens(s) == IF s = "server" THEN <<1, 2>> ELSE <<1, 2>>

\* mkfifo for both FIFOs: the client can see neither before the other, because its
\* first open waits for the server's.
MakeFifos ==
    /\ parent["server"] = "start"
    /\ fifos' = TRUE
    /\ parent' = [parent EXCEPT !["server"] = "open1"]
    /\ UNCHANGED <<child, line, pipe, termed, history>>

ClientOpens ==
    /\ parent["client"] = "start"
    /\ parent' = [parent EXCEPT !["client"] = IF fifos THEN "open1" ELSE "failed"]
    /\ UNCHANGED <<fifos, child, line, pipe, termed, history>>

\* s has called open for FIFO f.
Reached(s, f) ==
    CASE parent[s] \in {"start", "failed"} -> FALSE
      [] parent[s] = "open1"               -> f = Opens(s)[1]
      [] OTHER                             -> TRUE

\* open waits for the other end to be opened.
Opened(s) ==
    /\ \/ /\ parent[s] = "open1"
          /\ Reached(Other(s), Opens(s)[1])
          /\ parent' = [parent EXCEPT ![s] = "open2"]
       \/ /\ parent[s] = "open2"
          /\ Reached(Other(s), Opens(s)[2])
          /\ parent' = [parent EXCEPT ![s] = "fork"]
    /\ UNCHANGED <<fifos, child, line, pipe, termed, history>>

Fork(s) ==
    /\ parent[s] = "fork"
    /\ parent' = [parent EXCEPT ![s] = "type"]
    /\ child' = [child EXCEPT ![s] = "read"]
    /\ UNCHANGED <<fifos, line, pipe, termed, history>>

(***************************************************************************)
(* The parent                                                              *)
(***************************************************************************)

IsStop(l) == l = "stop"

\* A process of s has the FIFOs open.
Holds(s) ==
    \/ parent[s] \in {"open2", "fork", "type", "write", "close"}
    \/ child[s] \in {"read", "notify", "leave"}

Type(s, l) ==
    /\ parent[s] = "type"
    /\ typed[s] < MaxLines
    /\ typed' = [typed EXCEPT ![s] = @ + 1]
    /\ line' = [line EXCEPT ![s] = l]
    /\ parent' = [parent EXCEPT ![s] = "write"]
    /\ UNCHANGED <<fifos, child, pipe, termed, sent, merged, strays>>

\* The end of standard input.
EndOfInput(s) ==
    /\ parent[s] = "type"
    /\ parent' = [parent EXCEPT ![s] = "close"]
    /\ UNCHANGED <<fifos, child, line, pipe, termed, history>>

Write(s) ==
    /\ parent[s] = "write"
    /\ Holds(Other(s))
    /\ pipe' = [pipe EXCEPT ![s] = Append(@, line[s])]
    /\ sent' = [sent EXCEPT ![s] = Append(@, line[s])]
    /\ parent' = [parent EXCEPT ![s] = IF IsStop(line[s]) THEN "close" ELSE "type"]
    /\ UNCHANGED <<fifos, child, line, termed, typed, merged, strays>>

\* Nobody reads any more: SIGPIPE, which neither program handles.
BrokenPipe(s) ==
    /\ parent[s] = "write"
    /\ ~ Holds(Other(s))
    /\ parent' = [parent EXCEPT ![s] = "piped"]
    /\ termed' = termed \ {<<s, "parent">>}
    /\ UNCHANGED <<fifos, child, line, pipe, history>>

Close(s) ==
    /\ parent[s] = "close"
    /\ parent' = [parent EXCEPT ![s] = "kill"]
    /\ UNCHANGED <<fifos, child, line, pipe, termed, history>>

\* A child that has exited is not reaped before wait, so the signal does no harm.
KillChild(s) ==
    /\ parent[s] = "kill"
    /\ termed' = IF child[s] = "done" THEN termed ELSE termed \union {<<s, "child">>}
    /\ parent' = [parent EXCEPT ![s] = "wait"]
    /\ UNCHANGED <<fifos, child, line, pipe, history>>

\* wait returns; the server removes the FIFOs.
Reap(s) ==
    /\ parent[s] = "wait"
    /\ child[s] = "done"
    /\ fifos' = (fifos /\ s # "server")
    /\ parent' = [parent EXCEPT ![s] = "done"]
    /\ termed' = termed \ {<<s, "parent">>}
    /\ UNCHANGED <<child, line, pipe, history>>

(***************************************************************************)
(* The child                                                               *)
(***************************************************************************)

\* The lines end in a zero byte each, so only the first of those that were read
\* is looked at and shown.
Read(s) ==
    LET in == pipe[Other(s)]
    IN  /\ child[s] = "read"
        /\ in # << >>
        /\ pipe' = [pipe EXCEPT ![Other(s)] = << >>]
        /\ merged' = [merged EXCEPT ![s] = @ \/ Len(in) > 1]
        /\ child' = IF IsStop(Head(in)) THEN [child EXCEPT ![s] = "notify"] ELSE child
        /\ UNCHANGED <<fifos, parent, line, termed, typed, sent, strays>>

\* Variant: the child's own side has the FIFO open for writing too.
NoWritersOwn(s) == ~ Holds(Other(s)) /\ ~ Holds(s)

NoWriters(s) == ~ Holds(Other(s))

\* read returns zero: no process has the FIFO open for writing.
EndOfFile(s) ==
    /\ child[s] = "read"
    /\ pipe[Other(s)] = << >>
    /\ NoWriters(s)
    /\ child' = [child EXCEPT ![s] = "leave"]
    /\ UNCHANGED <<fifos, parent, line, pipe, termed, history>>

\* kill(getppid(), SIGTERM)
Notified(s) == IF parent[s] \in Dead THEN termed ELSE termed \union {<<s, "parent">>}

NotifyParent(s) ==
    /\ child[s] = "notify"
    /\ termed' = Notified(s)
    /\ strays' = (strays \/ parent[s] \in Dead)
    /\ child' = [child EXCEPT ![s] = "leave"]
    /\ UNCHANGED <<fifos, parent, line, pipe, typed, sent, merged>>

Leave(s) ==
    /\ child[s] = "leave"
    /\ child' = [child EXCEPT ![s] = "done"]
    /\ termed' = termed \ {<<s, "child">>}
    /\ UNCHANGED <<fifos, parent, line, pipe, history>>

(***************************************************************************)
(* SIGTERM                                                                 *)
(***************************************************************************)

\* The server's processes, the child too, remove the FIFOs before they exit.
TerminateParent(s) ==
    /\ <<s, "parent">> \in termed
    /\ termed' = termed \ {<<s, "parent">>}
    /\ parent' = [parent EXCEPT ![s] = "killed"]
    /\ fifos' = (fifos /\ s # "server")
    /\ UNCHANGED <<child, line, pipe, history>>

TerminateChild(s) ==
    /\ <<s, "child">> \in termed
    /\ termed' = termed \ {<<s, "child">>}
    /\ child' = [child EXCEPT ![s] = "done"]
    /\ fifos' = (fifos /\ s # "server")
    /\ UNCHANGED <<parent, line, pipe, history>>

(***************************************************************************)
(* The specification                                                       *)
(***************************************************************************)
User(s) == \/ \E l \in {"text", "stop"} : Type(s, l)
           \/ EndOfInput(s)

ParentStep(s) ==
    Opened(s) \/ Fork(s) \/ Write(s) \/ BrokenPipe(s) \/ Close(s) \/ KillChild(s) \/ Reap(s)

ChildStep(s) == Read(s) \/ EndOfFile(s) \/ NotifyParent(s) \/ Leave(s)

Terminate(s) == TerminateParent(s) \/ TerminateChild(s)

Next == \/ MakeFifos
        \/ ClientOpens
        \/ \E s \in Sides : User(s) \/ ParentStep(s) \/ ChildStep(s) \/ Terminate(s)

Spec == Init /\ [][Next]_vars

(***************************************************************************)
(* Properties                                                              *)
(***************************************************************************)
AllGone == \A s \in Sides : parent[s] \in Dead /\ child[s] = "done"

\* Once both programs have begun to open the FIFOs, both get through to the fork,
\* in whatever order they were started (client.c:30-57, server.c:60-79).
BothConnect ==
    (\A s \in Sides : parent[s] \notin {"start", "failed"})
        ~> (\A s \in Sides : child[s] # "none")

\* A full stop ends all four processes, whatever the other side is doing, even if
\* both send one, unless the read that took it began with another line
\* (client.c:103-115, server.c:130-142).
EndsUnlessMerged ==
    \A s \in Sides : ("stop" \in Range(sent[s])) ~> (AllGone \/ merged[Other(s)])

\* A side whose parent is gone, however it went, is not left with a child that reads
\* (client.c:89-94, server.c:111-117).
ChildrenFollow ==
    \A s \in Sides : (parent[s] \in {"done", "killed", "piped"}) ~> (child[s] = "done")

\* A child that tells its parent to exit finds its parent, unless a broken pipe
\* has ended it: on every other way out a parent outlives its child, or was told by it
\* (client.c:113, server.c:140).
StraysOnlyWhenPiped == strays => \E s \in Sides : parent[s] = "piped"

\* A conversation begins and ends on both sides.
ConversationEnds ==
    BothConnect /\ EndsUnlessMerged /\ ChildrenFollow /\ []StraysOnlyWhenPiped
=============================================================================

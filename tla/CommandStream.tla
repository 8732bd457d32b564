---------------------------- MODULE CommandStream ----------------------------
(***************************************************************************)
(* How the lines of a script become commands in assignment06.  Every       *)
(* client reads the whole script and sends the commands of its own         *)
(* transactions, each with its data lines as one request (client.c).  The  *)
(* server takes the locks that the first line asks for (server.c), and the *)
(* engine reads the request line by line as a stream of commands (mydb.c). *)
(* Each takes a line apart in its own way: client and server compare the   *)
(* whole first word with a verb and read names of up to 63 characters; the *)
(* engine takes the first two characters for the verb and reads names of   *)
(* up to 31; and each has its own idea of when a line is complete.         *)
(*                                                                         *)
(* One client is followed; another request's locks and execution do not    *)
(* touch this one's lines.  A line is                                      *)
(*   tid    the digits after its T, << >> for a line without T             *)
(*   verb   its first two letters if they are a verb, "C" for a commit,    *)
(*          and "data" for anything else                                   *)
(*   form   "plain", or "glued" to the first name as DEflights, "indented" *)
(*          by one more space, or "short" of its last number               *)
(*   names  the relations it names, each as the pieces of at most 31       *)
(*          characters that the engine reads                               *)
(*   count  the number of data lines it announces                          *)
(*   right  a data line that its command accepts                           *)
(* Left out: lines longer than LINE_BUF, names longer than 63 characters,  *)
(* and a count that stands where a name is missing.  A T without digits is *)
(* T0, nobody's.                                                           *)
(***************************************************************************)
EXTENDS Naturals, Sequences, SequencesExt

CONSTANTS
    ClientIds,   \* the clients that may be followed, of 1 to 9
    Blocks,      \* what scripts are made of: commands with their data lines, and others
    MaxBlocks    \* bound on the blocks of a script

VARIABLES
    client_id,  \* the client
    script,     \* its input, block by block
    at,         \* the lines that it has read
    mode,       \* "command", "skip", "collect", "execute" or "done"
    extra,      \* data lines still to be read
    request,    \* the request being put together, or carried out: its lines
    rest,       \* the lines of it that the engine has not read
    sent,       \* history: the requests that the client has sent
    dropped,    \* history: a data line has been dropped from a request
    ran         \* history: the lines of this request that were taken for commands

vars == <<client_id, script, at, mode, extra, request, rest, sent, dropped, ran>>

Lines == FlattenSeq(script)
AtEnd == at = Len(Lines)

Init ==
    /\ client_id \in ClientIds
    /\ script \in BoundedSeq(Blocks, MaxBlocks)
    /\ at = 0
    /\ mode = "command"
    /\ extra = 0
    /\ request = << >>
    /\ rest = << >>
    /\ sent = << >>
    /\ dropped = FALSE
    /\ ran = << >>

(***************************************************************************)
(* Lines                                                                   *)
(***************************************************************************)
Verbs   == {"CR", "DE", "IN", "RM", "UP", "PR", "PJ", "SL", "UN", "DF", "NJ"}
Counted == {"CR", "IN", "RM", "UP", "PJ", "SL", "NJ"}

\* The number of relations that a command is about; it writes the last.
Arity(v) == IF v \in {"PJ", "SL"} THEN 2 ELSE IF v \in {"UN", "DF", "NJ"} THEN 3 ELSE 1

ScriptLine == [tid : Seq(0 .. 9), verb : Verbs \union {"C", "data"},
               form : {"plain", "glued", "indented", "short"},
               names : Seq(Seq(STRING)), count : Nat, right : BOOLEAN]

(***************************************************************************)
(* The client                                                              *)
(***************************************************************************)
extract_tid_client(t) == Head(t)

\* parse_extra_count: "CR" and "NJ" have to stand at the beginning, the other verbs may
\* have a space before them; CR's last number is its keys, the others' their lines.
Extra(l) ==
    IF /\ l.verb \in Counted /\ l.form # "glued"
       /\ l.verb \in {"CR", "NJ"} => l.form # "indented"
       /\ l.form = "short" => l.verb = "CR"
       /\ Len(l.names) = Arity(l.verb)
    THEN l.count ELSE 0

\* One line of the client's loop; lines without T are left out.
ReadLine ==
    LET l == Lines[at + 1] IN
    /\ mode = "command" /\ ~ AtEnd
    /\ at' = at + 1
    /\ IF l.tid = << >> THEN UNCHANGED <<mode, extra, request>>
       ELSE IF extract_tid_client(l.tid) # client_id
       THEN /\ mode' = "skip"
            /\ extra' = Extra(l)
            /\ UNCHANGED request
       ELSE /\ mode' = "collect"
            /\ extra' = Extra(l)
            /\ request' = <<l>>
    /\ UNCHANGED <<client_id, script, rest, sent, dropped, ran>>

SkipLine ==
    /\ mode = "skip"
    /\ IF extra = 0 \/ AtEnd
       THEN mode' = "command" /\ UNCHANGED <<at, extra>>
       ELSE at' = at + 1 /\ extra' = extra - 1 /\ UNCHANGED mode
    /\ UNCHANGED <<client_id, script, request, rest, sent, dropped, ran>>

\* A line that does not fit into the payload is dropped without a word.
CollectLine ==
    /\ mode = "collect"
    /\ extra > 0 /\ ~ AtEnd
    /\ at' = at + 1
    /\ extra' = extra - 1
    /\ \/ request' = Append(request, Lines[at + 1]) /\ UNCHANGED dropped
       \/ dropped' = TRUE /\ UNCHANGED request
    /\ UNCHANGED <<client_id, script, mode, rest, sent, ran>>

\* A commit does not reach the engine, and the first line goes without its T.
Payload(r) == IF r[1].verb = "C" /\ r[1].form # "glued" THEN << >>
              ELSE [r EXCEPT ![1].tid = << >>]

\* rpc_call
Submit ==
    /\ mode = "collect"
    /\ extra = 0 \/ AtEnd
    /\ sent' = Append(sent, request)
    /\ mode' = "execute"
    /\ rest' = Payload(request)
    /\ UNCHANGED <<client_id, script, at, extra, request, dropped, ran>>

EndOfScript ==
    /\ mode = "command" /\ AtEnd
    /\ mode' = "done"
    /\ UNCHANGED <<client_id, script, at, extra, request, rest, sent, dropped, ran>>

(***************************************************************************)
(* The server                                                              *)
(***************************************************************************)

\* All digits of an id but the last (tid / 10).
txn_client_id(t) == Front(t)

\* The first word is a verb, and there are enough names after it.
Recognized(l) == l.verb \in Verbs /\ l.form # "glued" /\ Len(l.names) >= Arity(l.verb)

\* derive_lock_plan
Locked(l) ==
    IF Recognized(l)
    THEN {<<l.names[i], IF l.verb = "PR" THEN "read" ELSE "write">> : i \in 1 .. Arity(l.verb)}
    ELSE {}

\* wait_for_required_relations: the request fails when the relations do not appear.
GiveUp ==
    /\ mode = "execute" /\ rest # << >> /\ ran = << >>
    /\ Recognized(request[1]) /\ request[1].verb # "CR"
    /\ rest' = << >>
    /\ UNCHANGED <<client_id, script, at, mode, extra, request, sent, dropped, ran>>

\* execute_payload renders the relation of PR itself.
Renders == Recognized(request[1]) /\ request[1].verb = "PR"

Render ==
    /\ mode = "execute" /\ rest # << >> /\ Renders
    /\ ran' = <<Head(rest)>>
    /\ rest' = << >>
    /\ UNCHANGED <<client_id, script, at, mode, extra, request, sent, dropped>>

(***************************************************************************)
(* The engine                                                              *)
(***************************************************************************)
Pieces(l) == FlattenSeq(l.names)

\* Whether sscanf finds all that the command needs; an extra space before the verb, or a
\* piece of a name where a number should be, is enough to make it fail.
Understood(l) ==
    /\ l.tid = << >> /\ l.verb \in Verbs /\ l.form # "indented"
    /\ l.form = "short" => l.verb \notin Counted
    /\ IF l.verb \in Counted THEN Len(Pieces(l)) = Arity(l.verb)
                             ELSE Len(Pieces(l)) >= Arity(l.verb)

\* The relations that a line makes the engine read or write.
Needs(l) ==
    IF Understood(l)
    THEN {<<Pieces(l)[i], IF l.verb = "PR" \/ i < Arity(l.verb) THEN "read" ELSE "write">> :
             i \in 1 .. Arity(l.verb)}
    ELSE {}

\* Variant: IN, RM and UP give up without a look at their lines.
TakenUnlessRefused(l, follow) ==
    LET n == IF l.count > Len(follow) THEN Len(follow) ELSE l.count
        wrong == {k \in 1 .. n : ~ follow[k].right}
    IN  IF ~ Understood(l) \/ l.verb \notin Counted THEN {0}
        ELSE IF l.verb \in {"CR", "IN", "RM", "UP"} THEN {n, 0}
        ELSE {n} \union {k \in wrong : \A j \in wrong : k <= j}

\* The data lines that a command takes from those that follow it: CR, IN, RM and UP
\* all of them, and the others too if they give up at once; otherwise they stop at a
\* line that they do not accept.
Taken(l, follow) ==
    LET n == IF l.count > Len(follow) THEN Len(follow) ELSE l.count
        wrong == {k \in 1 .. n : ~ follow[k].right}
    IN  IF ~ Understood(l) \/ l.verb \notin Counted THEN {0}
        ELSE IF l.verb \in {"CR", "IN", "RM", "UP"} THEN {n}
        ELSE {n} \union {k \in wrong : \A j \in wrong : k <= j}

\* One turn of the loop of process_commands; a line that is no command is passed over.
RunCommand ==
    /\ mode = "execute" /\ rest # << >> /\ ~ Renders
    /\ \E n \in Taken(Head(rest), Tail(rest)) : rest' = SubSeq(rest, n + 2, Len(rest))
    /\ ran' = Append(ran, Head(rest))
    /\ UNCHANGED <<client_id, script, at, mode, extra, request, sent, dropped>>

Answered ==
    /\ mode = "execute" /\ rest = << >>
    /\ mode' = "command"
    /\ ran' = << >>
    /\ UNCHANGED <<client_id, script, at, extra, request, rest, sent, dropped>>

Next == \/ ReadLine \/ SkipLine \/ CollectLine \/ Submit \/ EndOfScript
        \/ GiveUp \/ Render \/ RunCommand \/ Answered

Spec == Init /\ [][Next]_vars

(***************************************************************************)
(* Properties                                                              *)
(***************************************************************************)

\* The commands of the client's own transactions, in the order of the script.
Own(b) == b[1].tid # << >> /\ extract_tid_client(b[1].tid) = client_id

OwnCommands ==
    LET own[k \in 0 .. Len(script)] ==
            IF k = 0 THEN << >>
            ELSE IF Own(script[k])
            THEN Append(own[k - 1], script[k])
            ELSE own[k - 1]
    IN  own[Len(script)]

\* Every command has an id, and behind it the data lines that it announces; between the
\* commands there are only lines without T.
Fits ==
    \A i \in DOMAIN script :
        LET l == script[i][1] IN Len(script[i]) = 1 + IF l.tid = << >> THEN 0 ELSE Extra(l)

\* If the script fits, the commands of a client's transactions are sent by that client,
\* each whole unless a line did not fit its payload, in the order of the script, and
\* nothing else is, whatever its and the others' data look like (client.c:277-389).
SentWhole == mode = "done" /\ Fits /\ ~ dropped => sent = OwnCommands

\* The request's first line is complete, has one space before its verb and one behind,
\* and no name of more than 31 characters.
AsWritten ==
    request[1].form = "plain" /\ \A i \in DOMAIN request[1].names : Len(request[1].names[i]) = 1

Covers(granted, needed) ==
    \A n \in needed : <<<<n[1]>>, n[2]>> \in granted \/ <<<<n[1]>>, "write">> \in granted

\* What the engine does first in a request has its locks, those that the server took
\* from the first line in its own reading of it (server.c:670-714, mydb.c:1883-2030).
LocksCover == ran # << >> /\ AsWritten => Covers(Locked(request[1]), Needs(ran[1]))

Stops ==
    /\ request[1].verb \in {"PJ", "SL", "NJ"}
    /\ \E k \in 2 .. Len(request) : ~ request[k].right

\* No data line runs as a command, with or without locks, whatever it looks like and
\* whether or not the script fits, unless PJ, SL or NJ stop at a line that they do not
\* accept and leave the lines behind it (mydb.c:1135, 1949-2024).
DataStaysData ==
    AsWritten /\ ~ Stops => Len(ran) <= 1

\* Client and server find the same client in an id that has two digits and in no other
\* (client.c:181-192, server.c:136-143).
SameClient ==
    \A k \in DOMAIN sent :
        LET t == sent[k][1].tid IN txn_client_id(t) = <<client_id>> <=> Len(t) = 2

\* The client, the server and the engine agree on what the lines of a script are.
ParsersAgree ==
    SentWhole /\ SameClient /\ (mode = "execute" => LocksCover /\ DataStaysData)
=============================================================================

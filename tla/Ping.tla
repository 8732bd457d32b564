-------------------------------- MODULE Ping --------------------------------
(***************************************************************************)
(* assignment04: myping.c sends a datagram a second and waits at most a    *)
(* second for the answer of myping_server.c, which echoes what it gets.    *)
(* SIGINT prints the statistics and exits.                                 *)
(*                                                                         *)
(* All datagrams have the same payload.  The model knows each by the       *)
(* number of the request it belongs to, which the program cannot see, and  *)
(* a measured time by that number and the one of the request it was        *)
(* measured for.  The network loses, delays and reorders datagrams.        *)
(***************************************************************************)
EXTENDS Integers, FiniteSets

CONSTANT MaxSeq  \* a number: bound on the requests sent

VARIABLES
    pc,        \* what the client is about to do in its loop
    seq,       \* the number of the request it is at
    sent,      \* sent_packets
    received,  \* received_packets
    total,     \* the times added to total_rtt
    least,     \* the times min_rtt has been compared with
    most,      \* the times max_rtt has been compared with
    time,      \* the time it has measured last
    requests,  \* datagrams on their way to the server
    answers,   \* datagrams on their way to the client, or in its socket
    timedout   \* history: the requests that timed out

net   == <<requests, answers>>
stats == <<sent, received, total, least, most>>
vars == <<pc, seq, stats, time, net, timedout>>

Seqs == 1 .. MaxSeq

\* The answer to one request, measured from when another was sent.
Times == [of : Seqs, from : Seqs]
NoTime == [of |-> 0, from |-> 0]

Init ==
    /\ pc = "begin"
    /\ seq = 0
    /\ sent = 0 /\ received = 0
    /\ total = {} /\ least = {} /\ most = {}
    /\ time = NoTime
    /\ requests = {} /\ answers = {}
    /\ timedout = {}

(***************************************************************************)
(* The client                                                              *)
(***************************************************************************)

\* The order of the statements that sending and receiving consist of.
After(step) ==
    CASE step = "send"  -> "sent"
      [] step = "sent"  -> "wait"
      [] step = "received" -> "total"
      [] step = "total" -> "least"
      [] step = "least" -> "most"
      [] step = "most"  -> "sleep"

\* The next turn of the loop; the clock is started.
Begin ==
    /\ pc \in {"begin", "sleep"}
    /\ seq < MaxSeq
    /\ seq' = seq + 1
    /\ pc' = "send"
    /\ UNCHANGED <<stats, time, net, timedout>>

\* sendto may fail: nothing is sent, and the client goes on as if it had been.
Send ==
    /\ pc = "send"
    /\ \/ requests' = requests \union {seq}
       \/ UNCHANGED requests
    /\ pc' = After(pc)
    /\ UNCHANGED <<seq, stats, time, answers, timedout>>

CountSent ==
    /\ pc = "sent"
    /\ sent' = sent + 1
    /\ pc' = After(pc)
    /\ UNCHANGED <<seq, received, total, least, most, time, net, timedout>>

\* Any answer will do.
Receive(a) ==
    /\ pc = "wait"
    /\ a \in answers
    /\ answers' = answers \ {a}
    /\ time' = [of |-> a, from |-> seq]
    /\ pc' = "received"
    /\ UNCHANGED <<seq, stats, requests, timedout>>

Timeout ==
    /\ pc = "wait"
    /\ timedout' = timedout \union {seq}
    /\ pc' = "sleep"
    /\ UNCHANGED <<seq, stats, time, net>>

CountReceived ==
    /\ pc = "received"
    /\ received' = received + 1
    /\ pc' = After(pc)
    /\ UNCHANGED <<seq, sent, total, least, most, time, net, timedout>>

AddTotal ==
    /\ pc = "total"
    /\ total' = total \union {time}
    /\ pc' = After(pc)
    /\ UNCHANGED <<seq, sent, received, least, most, time, net, timedout>>

CompareLeast ==
    /\ pc = "least"
    /\ least' = least \union {time}
    /\ pc' = After(pc)
    /\ UNCHANGED <<seq, sent, received, total, most, time, net, timedout>>

CompareMost ==
    /\ pc = "most"
    /\ most' = most \union {time}
    /\ pc' = After(pc)
    /\ UNCHANGED <<seq, sent, received, total, least, time, net, timedout>>

\* SIGINT: cleanup prints the statistics as they are and exits.
Interrupt ==
    /\ pc # "stopped"
    /\ pc' = "stopped"
    /\ UNCHANGED <<seq, stats, time, net, timedout>>

(***************************************************************************)
(* The server and the network                                              *)
(***************************************************************************)

\* Variant: the server answers a datagram twice.
EchoedTwice(r) == requests

Echoed(r) == requests \ {r}

\* recvfrom and sendto of the server, which may fail.
Echo(r) ==
    /\ r \in requests
    /\ requests' = Echoed(r)
    /\ \/ answers' = answers \union {r}
       \/ UNCHANGED answers
    /\ UNCHANGED <<pc, seq, stats, time, timedout>>

Lose(r) ==
    /\ \/ r \in requests /\ requests' = requests \ {r} /\ UNCHANGED answers
       \/ r \in answers /\ answers' = answers \ {r} /\ UNCHANGED requests
    /\ UNCHANGED <<pc, seq, stats, time, timedout>>

Client == \/ Begin \/ Send \/ CountSent
          \/ \E a \in answers : Receive(a)
          \/ Timeout
          \/ CountReceived \/ AddTotal \/ CompareLeast \/ CompareMost

Next == \/ Client
        \/ Interrupt
        \/ \E r \in Seqs : Echo(r) \/ Lose(r)

Spec == Init /\ [][Next]_vars

(***************************************************************************)
(* Properties                                                              *)
(***************************************************************************)

\* Whenever SIGINT comes, no more answers than requests are reported, so the loss
\* is never negative (myping.c:47).
LossNotNegative == received <= sent

\* A time that is not the round trip of its request comes after a timeout: the
\* answers were in step until a request no younger than the answer was given up
\* (myping.c:132-152).
LateOnlyAfterTimeout ==
    \A t \in total : t.of # t.from => \E r \in timedout : r <= t.of

\* The average, the least and the greatest time that are printed lack at most the
\* time of the last answer that was counted (myping.c:159-164).
LacksOneAtMost ==
    /\ most \subseteq least /\ least \subseteq total
    /\ \A times \in {total, least, most} : received - Cardinality(times) \in {0, 1}

\* What SIGINT prints at any moment.
StatisticsRight == LossNotNegative /\ LateOnlyAfterTimeout /\ LacksOneAtMost
=============================================================================

-------------------------- MODULE DispatcherProofs --------------------------
(***************************************************************************)
(* The theorems about Dispatcher, for every number of clients (up to the   *)
(* nine that transaction ids have room for), of workers and of requests,   *)
(* and every size of the queue.                                            *)
(***************************************************************************)
EXTENDS Dispatcher, FiniteSetTheorems, SequenceTheorems, TLAPS

(***************************************************************************)
(* The inductive invariant                                                 *)
(***************************************************************************)
Busy(w)    == pc[w] \in {"gate", "requeue", "serve", "reply"}
InQueue(c) == \E i \in DOMAIN queue : queue[i].from = c
Held(c)    == \E w \in Workers : HasItem(w, c)

Nowhere(c) == c \notin unread /\ reader[c] # "enqueue" /\ ~ InQueue(c) /\ ~ Held(c)

QueueUnique ==
    \A i, j \in DOMAIN queue :
        queue[i].from = queue[j].from /\ queue[i].from # NoClient => i = j

WorkersUnique ==
    \A v, w \in Workers :
        Busy(v) /\ Busy(w) /\ item[v].from = item[w].from /\ item[v].from # NoClient => v = w

\* A request is in one place at a time.
OnePlace ==
    /\ \A c \in Clients :
          /\ c \in unread => reader[c] # "enqueue" /\ ~ InQueue(c) /\ ~ Held(c)
          /\ reader[c] = "enqueue" => ~ InQueue(c) /\ ~ Held(c)
          /\ InQueue(c) => ~ Held(c)
          /\ client[c] \in {"outside", "ready"} => Nowhere(c)
          /\ client[c] = "waiting" /\ reader[c] # "closed" => ~ Nowhere(c)
    /\ QueueUnique
    /\ WorkersUnique

\* What the queue and the workers have is what the clients sent last.
RightItem(m) == IF m.from = NoClient THEN m = Sentinel ELSE m = ItemOf(m.from)

ItemsRight ==
    /\ \A i \in DOMAIN queue : RightItem(queue[i])
    /\ \A w \in Workers : Busy(w) => RightItem(item[w])
    /\ \A w \in Workers : pc[w] \in {"requeue", "serve", "reply"} => item[w].from # NoClient
    /\ main = "exited" => \A c \in Clients : reader[c] = "closed"

\* A request that is still to be carried out.
InTransit(c) ==
    \/ c \in unread
    \/ reader[c] = "enqueue"
    \/ InQueue(c)
    \/ \E w \in Workers : HasItem(w, c) /\ pc[w] # "reply"

\* The requests of c that were sent, without its vote.
Due(c) == IF sent[c] <= Len(Script[c]) THEN sent[c] ELSE Len(Script[c])

\* All that was sent has been carried out, but for what is in transit.
Progress ==
    \A c \in Clients :
        /\ InTransit(c) => sent[c] >= 1 /\ served[c] = sent[c] - 1
        /\ ~ InTransit(c) /\ main # "exited" => served[c] = Due(c)

IInv == TypeOK /\ OnePlace /\ ItemsRight /\ Progress

(***************************************************************************)
(* Sequences                                                               *)
(***************************************************************************)
LEMMA AppendFacts ==
    ASSUME NEW S, NEW q \in Seq(S), NEW m \in S
    PROVE  /\ Append(q, m) \in Seq(S)
           /\ Len(Append(q, m)) = Len(q) + 1
           /\ Len(q) \in Nat
           /\ \A i \in DOMAIN Append(q, m) :
                \/ i \in DOMAIN q /\ i # Len(q) + 1 /\ Append(q, m)[i] = q[i]
                \/ i = Len(q) + 1 /\ Append(q, m)[i] = m
           /\ \A i \in DOMAIN q : i \in DOMAIN Append(q, m) /\ Append(q, m)[i] = q[i]
           /\ Len(q) + 1 \in DOMAIN Append(q, m) /\ Append(q, m)[Len(q) + 1] = m
OBVIOUS

LEMMA TailFacts ==
    ASSUME NEW S, NEW q \in Seq(S), q # << >>
    PROVE  /\ Tail(q) \in Seq(S)
           /\ Len(q) \in Nat \ {0}
           /\ Len(Tail(q)) = Len(q) - 1
           /\ DOMAIN q = 1 .. Len(q)
           /\ DOMAIN Tail(q) = 1 .. Len(q) - 1
           /\ \A i \in DOMAIN Tail(q) : i + 1 \in DOMAIN q /\ Tail(q)[i] = q[i + 1]
           /\ Head(q) = q[1] /\ 1 \in DOMAIN q
           /\ Head(q) \in S
<1>1. Len(q) \in Nat \ {0} /\ DOMAIN q = 1 .. Len(q) /\ Head(q) = q[1] /\ 1 \in DOMAIN q
  OBVIOUS
<1>2. Tail(q) \in Seq(S) /\ Len(Tail(q)) = Len(q) - 1 /\ Head(q) \in S
  BY HeadTailProperties
<1>3. DOMAIN Tail(q) = 1 .. Len(q) - 1
  BY <1>1, <1>2
<1>4. \A i \in DOMAIN Tail(q) : i + 1 \in DOMAIN q /\ Tail(q)[i] = q[i + 1]
  BY <1>1, <1>3
<1>. QED
  BY <1>1, <1>2, <1>3, <1>4

\* A client's requests are its script and then its vote.
LEMMA RequestFacts ==
    ASSUME NEW c \in Clients
    PROVE  /\ Len(Script[c]) \in Nat
           /\ Len(Requests(c)) = Len(Script[c]) + 1
           /\ \A i \in 1 .. Len(Script[c]) :
                 /\ Requests(c)[i] = Script[c][i]
                 /\ Script[c][i] \in [type : {"exec", "commit"}, tid : Nat \ {0}]
           /\ Requests(c)[Len(Script[c]) + 1] = [type |-> "shutdown", tid |-> c]
           /\ c \in Nat \ {0}
<1>1. /\ Script[c] \in Seq([type : {"exec", "commit"}, tid : Nat \ {0}])
      /\ c \in 1 .. 9
  BY DispatcherAssumption
<1>2. \A i \in 1 .. Len(Script[c]) : Script[c][i] \in [type : {"exec", "commit"}, tid : Nat \ {0}]
  BY <1>1, ElementOfSeq
<1>. QED
  BY <1>1, <1>2 DEF Requests

LEMMA ItemFacts ==
    ASSUME NEW c \in Clients, sent[c] \in 1 .. Len(Requests(c))
    PROVE  /\ ItemOf(c) \in Item
           /\ ItemOf(c).from = c
           /\ sent[c] <= Len(Script[c]) =>
                /\ ItemOf(c).type \in {"exec", "commit"}
                /\ ItemOf(c).type = Script[c][sent[c]].type
                /\ ItemOf(c).tid = Script[c][sent[c]].tid
           /\ sent[c] > Len(Script[c]) => ItemOf(c).type = "shutdown"
           /\ NoClient \notin Clients
           /\ c # NoClient
<1>1. NoClient \notin Clients /\ c # NoClient
  BY DispatcherAssumption DEF NoClient
<1>0. /\ Len(Script[c]) \in Nat
      /\ sent[c] \in Nat \ {0} /\ sent[c] <= Len(Script[c]) + 1
  <2>1. Len(Script[c]) \in Nat /\ Len(Requests(c)) = Len(Script[c]) + 1
    BY RequestFacts
  <2>. QED
    BY <2>1
<1>2. CASE sent[c] <= Len(Script[c])
  <2>0. sent[c] \in 1 .. Len(Script[c])
    BY <1>0, <1>2
  <2>1. /\ Requests(c)[sent[c]] = Script[c][sent[c]]
        /\ Script[c][sent[c]] \in [type : {"exec", "commit"}, tid : Nat \ {0}]
    BY <2>0, RequestFacts
  <2>. QED
    BY <1>1, <1>2, <2>1 DEF ItemOf, Item
<1>3. CASE ~ (sent[c] <= Len(Script[c]))
  <2>1. sent[c] = Len(Script[c]) + 1
    BY <1>0, <1>3
  <2>2. Requests(c)[sent[c]] = [type |-> "shutdown", tid |-> c] /\ c \in Nat
    BY <2>1, RequestFacts
  <2>. QED
    BY <1>1, <1>3, <2>1, <2>2, RequestFacts DEF ItemOf, Item
<1>. QED
  BY <1>2, <1>3

LEMMA SentinelFacts == Sentinel \in Item /\ Sentinel.from = NoClient /\ Sentinel.type = "none"
BY DEF Sentinel, Item

(***************************************************************************)
(* The places of a request                                                 *)
(***************************************************************************)
LEMMA SamePlaces ==
    ASSUME UNCHANGED <<queue, item>>, \A w \in Workers : Busy(w)' <=> Busy(w)
    PROVE  /\ \A c \in Clients : (InQueue(c)' <=> InQueue(c)) /\ (Held(c)' <=> Held(c))
           /\ QueueUnique => QueueUnique'
           /\ WorkersUnique => WorkersUnique'
BY DEF InQueue, Held, HasItem, Busy, QueueUnique, WorkersUnique

LEMMA SameHeld ==
    ASSUME UNCHANGED item, \A w \in Workers : Busy(w)' <=> Busy(w)
    PROVE  /\ \A c \in Clients : Held(c)' <=> Held(c)
           /\ WorkersUnique => WorkersUnique'
BY DEF Held, HasItem, Busy, WorkersUnique

LEMMA PutEffect ==
    ASSUME queue \in Seq(Item), NEW m \in Item, queue' = Append(queue, m), QueueUnique
    PROVE  /\ \A c \in Clients : InQueue(c)' <=> InQueue(c) \/ m.from = c
           /\ \A i \in DOMAIN queue' : queue'[i] = m \/ \E k \in DOMAIN queue : queue'[i] = queue[k]
           /\ m.from = NoClient \/ ~ InQueue(m.from) => QueueUnique'
<1>1. /\ \A i \in DOMAIN queue' :
            \/ i \in DOMAIN queue /\ i # Len(queue) + 1 /\ queue'[i] = queue[i]
            \/ i = Len(queue) + 1 /\ queue'[i] = m
      /\ \A i \in DOMAIN queue : i \in DOMAIN queue' /\ queue'[i] = queue[i]
  BY AppendFacts
<1>2. Len(queue) + 1 \in DOMAIN queue' /\ queue'[Len(queue) + 1] = m
  BY AppendFacts
<1>3. \A c \in Clients : InQueue(c)' <=> InQueue(c) \/ m.from = c
  BY <1>1, <1>2 DEF InQueue
<1>4. ASSUME m.from = NoClient \/ ~ InQueue(m.from) PROVE QueueUnique'
  <2>1. m.from = NoClient \/ \A i \in DOMAIN queue : queue[i].from # m.from
    BY <1>4 DEF InQueue
  <2>. QED
    BY <1>1, <2>1 DEF QueueUnique
<1>. QED
  BY <1>1, <1>3, <1>4

LEMMA TakeEffect ==
    ASSUME queue \in Seq(Item), queue # << >>, queue' = Tail(queue), NEW m, m = Head(queue),
           QueueUnique
    PROVE  /\ m \in Item /\ \E i \in DOMAIN queue : m = queue[i]
           /\ \A c \in Clients : InQueue(c) <=> InQueue(c)' \/ m.from = c
           /\ m.from # NoClient => ~ InQueue(m.from)'
           /\ \A i \in DOMAIN queue' : \E k \in DOMAIN queue : queue'[i] = queue[k]
           /\ QueueUnique'
<1>1. /\ Len(queue) \in Nat \ {0}
      /\ DOMAIN queue = 1 .. Len(queue)
      /\ DOMAIN queue' = 1 .. Len(queue) - 1
      /\ \A i \in DOMAIN queue' : i + 1 \in DOMAIN queue /\ queue'[i] = queue[i + 1]
      /\ m = queue[1] /\ 1 \in DOMAIN queue
      /\ m \in Item
  BY TailFacts
<1>2. ASSUME NEW k \in DOMAIN queue, k # 1
      PROVE  \E i \in DOMAIN queue' : queue'[i] = queue[k]
  <2>1. k - 1 \in DOMAIN queue' /\ (k - 1) + 1 = k
    BY <1>1, <1>2
  <2>2. queue'[k - 1] = queue[k]
    BY <1>1, <2>1
  <2>. QED
    BY <2>1, <2>2
<1>3. ASSUME NEW i \in DOMAIN queue' PROVE \E k \in DOMAIN queue : k # 1 /\ queue'[i] = queue[k]
  <2>1. i + 1 # 1
    BY <1>1
  <2>. QED
    BY <1>1, <2>1
<1>4. \A c \in Clients : InQueue(c) <=> InQueue(c)' \/ m.from = c
  BY <1>1, <1>2, <1>3 DEF InQueue
<1>5. m.from # NoClient => ~ InQueue(m.from)'
  BY <1>1, <1>3 DEF InQueue, QueueUnique
<1>6. QueueUnique'
  <2>1. SUFFICES ASSUME NEW i \in DOMAIN queue', NEW j \in DOMAIN queue',
                        queue'[i].from = queue'[j].from, queue'[i].from # NoClient
                 PROVE  i = j
    BY DEF QueueUnique
  <2>2. /\ i + 1 \in DOMAIN queue /\ queue'[i] = queue[i + 1]
        /\ j + 1 \in DOMAIN queue /\ queue'[j] = queue[j + 1]
    BY <1>1
  <2>3. i + 1 = j + 1
    BY <2>1, <2>2 DEF QueueUnique
  <2>4. i \in Nat /\ j \in Nat
    BY <1>1
  <2>. QED
    BY <2>3, <2>4
<1>. QED
  BY <1>1, <1>3, <1>4, <1>5, <1>6

\* The request that a reader passes on is one that was sent.
LEMMA SentFacts ==
    ASSUME TypeOK, Progress, NEW c \in Clients, InTransit(c)
    PROVE  /\ sent[c] \in 1 .. Len(Requests(c))
           /\ served[c] = sent[c] - 1
           /\ served[c] \in Nat /\ served[c] <= Len(Script[c])
<1>1. /\ sent[c] \in 0 .. Len(Requests(c))
      /\ Len(Requests(c)) = Len(Script[c]) + 1
      /\ Len(Script[c]) \in Nat
      /\ sent[c] >= 1 /\ served[c] = sent[c] - 1
      /\ served[c] \in 0 .. Len(Script[c])
  BY RequestFacts DEF TypeOK, Progress
<1>. QED
  BY <1>1

\* What a worker is about to do concerns a client's request.
LEMMA WorkItem ==
    ASSUME TypeOK, OnePlace, ItemsRight, Progress, NEW w \in Workers,
           pc[w] \in {"requeue", "serve", "reply"}
    PROVE  \E c \in Clients :
             /\ item[w].from = c /\ item[w] = ItemOf(c) /\ HasItem(w, c) /\ Held(c)
             /\ c \notin unread /\ reader[c] # "enqueue" /\ ~ InQueue(c)
             /\ \A v \in Workers : HasItem(v, c) => v = w
             /\ c # NoClient
             /\ pc[w] # "reply" => InTransit(c)
<1>1. item[w].from \in Clients /\ item[w].from # NoClient
  BY DEF TypeOK, Item, ItemsRight
<1>2. PICK c \in Clients : item[w].from = c /\ c # NoClient
  BY <1>1
<1>3. Busy(w) /\ HasItem(w, c) /\ Held(c)
  BY <1>2 DEF Busy, HasItem, Held
<1>4. item[w] = ItemOf(c)
  BY <1>2, <1>3 DEF ItemsRight, RightItem
<1>5. \A v \in Workers : HasItem(v, c) => v = w
  BY <1>2, <1>3 DEF OnePlace, WorkersUnique, HasItem, Busy
<1>6. c \notin unread /\ reader[c] # "enqueue" /\ ~ InQueue(c)
  BY <1>3 DEF OnePlace
<1>. QED
  BY <1>2, <1>3, <1>4, <1>5, <1>6 DEF InTransit

Serve(w) == ServeExec(w) \/ ServeCommit(w) \/ ServeShutdown(w)

\* Every step is one of these kinds.
LEMMA Kinds ==
    ASSUME [Next]_vars
    PROVE  \/ \E c \in Clients : Connect(c) \/ Leave(c) \/ Send(c)
           \/ \E c \in Clients : /\ main # "exited"
                                 /\ ReadRequest(c) \/ ReadEnd(c) \/ Enqueue(c) \/ ReaderCheck(c)
           \/ \E w \in Workers :
                 Receive(w) \/ Gate(w) \/ Requeue(w) \/ Serve(w) \/ Reply(w) \/ WorkerCheck(w)
           \/ StopAccepting \/ SendSentinel \/ Exit
           \/ UNCHANGED vars
BY DEF Next, ClientStep, ReaderStep, WorkerStep, MainStep, Serve

(***************************************************************************)
(* A request is in one place                                               *)
(***************************************************************************)
LEMMA OnePlaceStep == IInv /\ [Next]_vars => OnePlace'
<1>. SUFFICES ASSUME IInv, [Next]_vars PROVE OnePlace'
  OBVIOUS
<1>0. TypeOK /\ OnePlace /\ ItemsRight /\ Progress /\ QueueUnique /\ WorkersUnique
      /\ queue \in Seq(Item)
  BY DEF IInv, OnePlace, TypeOK
<1>1. ASSUME NEW c \in Clients, Connect(c) \/ Leave(c) PROVE OnePlace'
  <2>1. UNCHANGED <<unread, queue, pc, item>>
    BY <1>1 DEF Connect, Leave
  <2>2. /\ \A d \in Clients : (InQueue(d)' <=> InQueue(d)) /\ (Held(d)' <=> Held(d))
        /\ QueueUnique' /\ WorkersUnique'
    BY <1>0, <2>1, SamePlaces DEF Busy
  <2>3. \A d \in Clients :
            /\ reader'[d] = "enqueue" <=> reader[d] = "enqueue"
            /\ client'[d] \in {"outside", "ready"} => client[d] \in {"outside", "ready"}
            /\ client'[d] = "waiting" => client[d] = "waiting" /\ reader'[d] = reader[d]
    BY <1>0, <1>1 DEF Connect, Leave, TypeOK, OnePlace, Nowhere
  <2>. QED
    BY <1>0, <2>1, <2>2, <2>3 DEF OnePlace, Nowhere
<1>2. ASSUME NEW c \in Clients, Send(c) PROVE OnePlace'
  <2>1. UNCHANGED <<reader, queue, pc, item>> /\ unread' = unread \union {c} /\ Nowhere(c)
    BY <1>0, <1>2 DEF Send, OnePlace
  <2>2. /\ \A d \in Clients : (InQueue(d)' <=> InQueue(d)) /\ (Held(d)' <=> Held(d))
        /\ QueueUnique' /\ WorkersUnique'
    BY <1>0, <2>1, SamePlaces DEF Busy
  <2>3. \A d \in Clients : client'[d] = IF d = c THEN "waiting" ELSE client[d]
    BY <1>0, <1>2 DEF Send, TypeOK
  <2>. QED
    BY <1>0, <2>1, <2>2, <2>3 DEF OnePlace, Nowhere
<1>3. ASSUME NEW c \in Clients, ReadRequest(c) PROVE OnePlace'
  <2>1. UNCHANGED <<client, queue, pc, item>> /\ unread' = unread \ {c} /\ c \in unread
    BY <1>3 DEF ReadRequest
  <2>2. /\ \A d \in Clients : (InQueue(d)' <=> InQueue(d)) /\ (Held(d)' <=> Held(d))
        /\ QueueUnique' /\ WorkersUnique'
    BY <1>0, <2>1, SamePlaces DEF Busy
  <2>3. \A d \in Clients : reader'[d] = IF d = c THEN "enqueue" ELSE reader[d]
    BY <1>0, <1>3 DEF ReadRequest, TypeOK
  <2>. QED
    BY <1>0, <2>1, <2>2, <2>3 DEF OnePlace, Nowhere
<1>4. ASSUME NEW c \in Clients, ReadEnd(c) \/ ReaderCheck(c) PROVE OnePlace'
  <2>1. UNCHANGED <<client, unread, queue, pc, item>>
    BY <1>4 DEF ReadEnd, ReaderCheck
  <2>2. /\ \A d \in Clients : (InQueue(d)' <=> InQueue(d)) /\ (Held(d)' <=> Held(d))
        /\ QueueUnique' /\ WorkersUnique'
    BY <1>0, <2>1, SamePlaces DEF Busy
  <2>3. \A d \in Clients : /\ reader'[d] = "enqueue" <=> reader[d] = "enqueue"
                           /\ reader'[d] # "closed" => reader[d] # "closed"
    BY <1>0, <1>4 DEF ReadEnd, ReaderCheck, TypeOK
  <2>. QED
    BY <1>0, <2>1, <2>2, <2>3 DEF OnePlace, Nowhere
<1>5. ASSUME NEW c \in Clients, Enqueue(c) PROVE OnePlace'
  <2>1. UNCHANGED <<client, unread, pc, item>> /\ queue' = Append(queue, ItemOf(c))
    BY <1>5 DEF Enqueue
  <2>2. ItemOf(c) \in Item /\ ItemOf(c).from = c /\ ~ InQueue(c) /\ ~ Held(c) /\ c \notin unread
    BY <1>0, <1>5, SentFacts, ItemFacts DEF Enqueue, InTransit, OnePlace
  <2>3. QueueUnique' /\ \A d \in Clients : InQueue(d)' <=> InQueue(d) \/ c = d
    BY <1>0, <2>1, <2>2, PutEffect
  <2>4. WorkersUnique' /\ \A d \in Clients : Held(d)' <=> Held(d)
    BY <1>0, <2>1, SameHeld DEF Busy
  <2>5. \A d \in Clients : reader'[d] = IF d = c THEN "check" ELSE reader[d]
    BY <1>0, <1>5 DEF Enqueue, TypeOK
  <2>. QED
    BY <1>0, <1>5, <2>1, <2>2, <2>3, <2>4, <2>5 DEF Enqueue, OnePlace, Nowhere
<1>6. ASSUME NEW w \in Workers, Receive(w) PROVE OnePlace'
  <2>0. PICK m : m = Head(queue)
    OBVIOUS
  <2>1. UNCHANGED <<client, unread, reader>> /\ queue # << >> /\ queue' = Tail(queue)
    BY <1>6 DEF Receive, connection
  <2>2. /\ m \in Item /\ \E i \in DOMAIN queue : m = queue[i]
        /\ \A c \in Clients : InQueue(c) <=> InQueue(c)' \/ m.from = c
        /\ m.from # NoClient => ~ InQueue(m.from)'
        /\ QueueUnique'
    BY <1>0, <2>0, <2>1, TakeEffect
  <2>3. \A v \in Workers : /\ item'[v] = IF v = w THEN m ELSE item[v]
                           /\ Busy(v)' <=> Busy(v) \/ v = w
                           /\ ~ Busy(w)
    BY <1>0, <1>6, <2>0 DEF Receive, Busy, TypeOK
  <2>4. \A c \in Clients : Held(c)' <=> Held(c) \/ m.from = c
    BY <2>3 DEF Held, HasItem, Busy
  <2>5. m.from # NoClient => m.from \in Clients /\ ~ Held(m.from)
    BY <1>0, <2>2 DEF Item, OnePlace, InQueue
  <2>6. WorkersUnique'
    <3>1. m.from # NoClient => \A v \in Workers : Busy(v) => item[v].from # m.from
      BY <2>5 DEF Held, HasItem, Busy
    <3>. QED
      BY <1>0, <2>3, <3>1 DEF WorkersUnique
  <2>7. NoClient \notin Clients
    BY DispatcherAssumption DEF NoClient
  <2>8. ASSUME NEW c \in Clients
        PROVE  /\ InQueue(c)' => ~ Held(c)'
               /\ InQueue(c) \/ Held(c) <=> InQueue(c)' \/ Held(c)'
    BY <1>0, <2>2, <2>4, <2>5, <2>7 DEF OnePlace
  <2>. QED
    BY <1>0, <2>1, <2>2, <2>6, <2>8 DEF OnePlace, Nowhere
<1>7. ASSUME NEW w \in Workers, Gate(w) \/ WorkerCheck(w) PROVE OnePlace'
  <2>1. UNCHANGED <<client, unread, reader, queue, item>>
    BY <1>7 DEF Gate, WorkerCheck, connection
  <2>2. \A v \in Workers : \/ Busy(v)' <=> Busy(v)
                           \/ item[v].from = NoClient /\ ~ Busy(v)'
    BY <1>0, <1>7 DEF Gate, WorkerCheck, Busy, TypeOK
  <2>3. NoClient \notin Clients
    BY DispatcherAssumption DEF NoClient
  <2>4. /\ \A c \in Clients : (InQueue(c)' <=> InQueue(c)) /\ (Held(c)' <=> Held(c))
        /\ QueueUnique'
    BY <1>0, <2>1, <2>2, <2>3 DEF InQueue, Held, HasItem, Busy, QueueUnique
  <2>5. WorkersUnique'
    BY <1>0, <2>1, <2>2 DEF WorkersUnique
  <2>. QED
    BY <1>0, <2>1, <2>4, <2>5 DEF OnePlace, Nowhere
<1>8. ASSUME NEW w \in Workers, Requeue(w) PROVE OnePlace'
  <2>1. PICK c \in Clients :
             /\ item[w].from = c /\ HasItem(w, c) /\ Held(c)
             /\ c \notin unread /\ reader[c] # "enqueue" /\ ~ InQueue(c)
             /\ \A v \in Workers : HasItem(v, c) => v = w
    BY <1>0, <1>8, WorkItem DEF Requeue
  <2>2. UNCHANGED <<client, unread, reader, item>> /\ queue' = Append(queue, item[w])
        /\ item[w] \in Item
    BY <1>0, <1>8 DEF Requeue, connection, TypeOK
  <2>3. QueueUnique' /\ \A d \in Clients : InQueue(d)' <=> InQueue(d) \/ c = d
    BY <1>0, <2>1, <2>2, PutEffect
  <2>4. \A v \in Workers : Busy(v)' <=> Busy(v) /\ v # w
    BY <1>0, <1>8 DEF Requeue, Busy, AfterRequeue, TypeOK
  <2>5. WorkersUnique' /\ \A d \in Clients : Held(d)' <=> Held(d) /\ d # c
    BY <1>0, <2>1, <2>2, <2>4 DEF WorkersUnique, Held, HasItem, Busy
  <2>. QED
    BY <1>0, <2>1, <2>2, <2>3, <2>5 DEF OnePlace, Nowhere
<1>9. ASSUME NEW w \in Workers, Serve(w) PROVE OnePlace'
  <2>1. UNCHANGED <<client, unread, reader, queue, item>>
    BY <1>9 DEF Serve, ServeExec, ServeCommit, ServeShutdown, connection
  <2>2. \A v \in Workers : Busy(v)' <=> Busy(v)
    BY <1>0, <1>9 DEF Serve, ServeExec, ServeCommit, ServeShutdown, Busy, TypeOK
  <2>. QED
    BY <1>0, <2>1, <2>2, SamePlaces DEF OnePlace, Nowhere
<1>10. ASSUME NEW w \in Workers, Reply(w) PROVE OnePlace'
  <2>1. PICK c \in Clients :
             /\ item[w].from = c /\ HasItem(w, c) /\ Held(c)
             /\ c \notin unread /\ reader[c] # "enqueue" /\ ~ InQueue(c)
             /\ \A v \in Workers : HasItem(v, c) => v = w
    BY <1>0, <1>10, WorkItem DEF Reply
  <2>2. UNCHANGED <<unread, reader, queue, item>>
    BY <1>10 DEF Reply
  <2>3. QueueUnique' /\ \A d \in Clients : InQueue(d)' <=> InQueue(d)
    BY <1>0, <2>2 DEF QueueUnique, InQueue
  <2>4. \A v \in Workers : Busy(v)' <=> Busy(v) /\ v # w
    BY <1>0, <1>10 DEF Reply, Busy, TypeOK
  <2>5. WorkersUnique' /\ \A d \in Clients : Held(d)' <=> Held(d) /\ d # c
    BY <1>0, <2>1, <2>2, <2>4 DEF WorkersUnique, Held, HasItem, Busy
  <2>6. \A d \in Clients : /\ d # c => client'[d] = client[d]
                           /\ client'[c] = "waiting" => client[c] = "waiting" /\ reader[c] = "closed"
    BY <1>0, <1>10, <2>1 DEF Reply, TypeOK
  <2>. QED
    BY <1>0, <2>1, <2>2, <2>3, <2>5, <2>6 DEF OnePlace, Nowhere
<1>11. CASE SendSentinel
  <2>1. UNCHANGED <<client, unread, reader, pc, item>> /\ queue' = Append(queue, Sentinel)
    BY <1>11 DEF SendSentinel, connection
  <2>2. NoClient \notin Clients
    BY DispatcherAssumption DEF NoClient
  <2>3. QueueUnique' /\ \A d \in Clients : InQueue(d)' <=> InQueue(d)
    BY <1>0, <2>1, <2>2, SentinelFacts, PutEffect
  <2>4. WorkersUnique' /\ \A d \in Clients : Held(d)' <=> Held(d)
    BY <1>0, <2>1, SameHeld DEF Busy
  <2>. QED
    BY <1>0, <2>1, <2>3, <2>4 DEF OnePlace, Nowhere
<1>12. CASE Exit
  <2>1. UNCHANGED <<client, unread, queue, pc, item>> /\ \A c \in Clients : reader'[c] = "closed"
    BY <1>12 DEF Exit
  <2>. QED
    BY <1>0, <2>1, SamePlaces DEF Busy, OnePlace, Nowhere
<1>13. CASE StopAccepting \/ UNCHANGED vars
  <2>1. UNCHANGED <<client, unread, reader, queue, pc, item>>
    BY <1>13 DEF StopAccepting, vars, connection
  <2>. QED
    BY <1>0, <2>1, SamePlaces DEF Busy, OnePlace, Nowhere
<1>. QED
  BY <1>1, <1>2, <1>3, <1>4, <1>5, <1>6, <1>7, <1>8, <1>9, <1>10, <1>11, <1>12, <1>13, Kinds

(***************************************************************************)
(* The items are what the clients sent                                     *)
(***************************************************************************)

\* An item stays right as long as no client that has one sends.
LEMMA StaysRight ==
    ASSUME UNCHANGED sent
    PROVE  \A m : RightItem(m)' <=> RightItem(m)
BY DEF RightItem, ItemOf, Requests

LEMMA ItemsRightStep == IInv /\ [Next]_vars => ItemsRight'
<1>. SUFFICES ASSUME IInv, [Next]_vars PROVE ItemsRight'
  OBVIOUS
<1>0. TypeOK /\ OnePlace /\ ItemsRight /\ Progress /\ QueueUnique /\ WorkersUnique
      /\ queue \in Seq(Item)
  BY DEF IInv, OnePlace, TypeOK
<1>1. ASSUME UNCHANGED <<sent, queue, pc, item>>,
             main' = "exited" => \A c \in Clients : reader'[c] = "closed"
      PROVE  ItemsRight'
  <2>1. \A m : RightItem(m)' <=> RightItem(m)
    BY <1>1, StaysRight
  <2>. QED
    BY <1>0, <1>1, <2>1 DEF ItemsRight, Busy
<1>2. ASSUME NEW c \in Clients, Connect(c) \/ Leave(c) PROVE ItemsRight'
  <2>1. UNCHANGED <<sent, queue, pc, item, main>>
        /\ (main # "exited" \/ UNCHANGED reader)
    BY <1>2 DEF Connect, Leave, stopping
  <2>. QED
    BY <1>0, <1>1, <2>1 DEF ItemsRight
<1>3. ASSUME NEW c \in Clients, Send(c) PROVE ItemsRight'
  <2>1. UNCHANGED <<reader, queue, pc, item, main>> /\ Nowhere(c)
        /\ \A d \in Clients : d # c => sent'[d] = sent[d]
    BY <1>0, <1>3 DEF Send, stopping, OnePlace, TypeOK
  <2>2. \A d \in Clients : d # c => ItemOf(d)' = ItemOf(d)
    BY <2>1 DEF ItemOf
  <2>3. /\ \A i \in DOMAIN queue : queue[i].from # c /\ queue[i].from \in Clients \union {NoClient}
        /\ \A w \in Workers : Busy(w) => item[w].from # c /\ item[w].from \in Clients \union {NoClient}
    <3>1. \A i \in DOMAIN queue : queue[i] \in Item
      BY <1>0, ElementOfSeq
    <3>. QED
      BY <1>0, <2>1, <3>1 DEF Nowhere, InQueue, Held, HasItem, Busy, TypeOK, Item
  <2>4. /\ \A i \in DOMAIN queue : RightItem(queue[i])'
        /\ \A w \in Workers : Busy(w) => RightItem(item[w])'
    BY <1>0, <2>1, <2>2, <2>3 DEF ItemsRight, RightItem
  <2>. QED
    BY <1>0, <2>1, <2>4 DEF ItemsRight, Busy
<1>4. ASSUME NEW c \in Clients, main # "exited", ReadRequest(c) \/ ReadEnd(c) \/ ReaderCheck(c)
      PROVE  ItemsRight'
  BY <1>1, <1>4 DEF ReadRequest, ReadEnd, ReaderCheck, stopping
<1>5. ASSUME NEW c \in Clients, main # "exited", Enqueue(c) PROVE ItemsRight'
  <2>1. UNCHANGED <<sent, pc, item, main>> /\ queue' = Append(queue, ItemOf(c))
    BY <1>5 DEF Enqueue, stopping
  <2>2. ItemOf(c) \in Item /\ ItemOf(c).from = c /\ c # NoClient
    BY <1>0, <1>5, SentFacts, ItemFacts DEF Enqueue, InTransit
  <2>3. \A i \in DOMAIN queue' :
           queue'[i] = ItemOf(c) \/ \E k \in DOMAIN queue : queue'[i] = queue[k]
    BY <1>0, <2>1, <2>2, PutEffect
  <2>4. RightItem(ItemOf(c))
    BY <2>2 DEF RightItem
  <2>. QED
    BY <1>0, <1>5, <2>1, <2>3, <2>4 DEF ItemsRight, RightItem, ItemOf, Busy
<1>6. ASSUME NEW w \in Workers, Receive(w) PROVE ItemsRight'
  <2>0. PICK m : m = Head(queue)
    OBVIOUS
  <2>1. UNCHANGED <<sent, reader, main>> /\ queue # << >> /\ queue' = Tail(queue)
    BY <1>6 DEF Receive, connection, stopping
  <2>2. /\ \E i \in DOMAIN queue : m = queue[i]
        /\ \A i \in DOMAIN queue' : \E k \in DOMAIN queue : queue'[i] = queue[k]
    BY <1>0, <2>0, <2>1, TakeEffect
  <2>3. \A v \in Workers : /\ item'[v] = IF v = w THEN m ELSE item[v]
                           /\ pc'[v] = IF v = w THEN "gate" ELSE pc[v]
    BY <1>0, <1>6, <2>0 DEF Receive, TypeOK
  <2>4. /\ \A i \in DOMAIN queue' : RightItem(queue'[i])
        /\ \A v \in Workers : Busy(v)' => RightItem(item'[v])
    BY <1>0, <2>2, <2>3 DEF ItemsRight, Busy
  <2>5. \A v \in Workers : pc'[v] \in {"requeue", "serve", "reply"} => item'[v].from # NoClient
    BY <1>0, <2>3 DEF ItemsRight
  <2>. QED
    BY <1>0, <2>1, <2>4, <2>5 DEF ItemsRight, RightItem, ItemOf
<1>7. ASSUME NEW w \in Workers, Gate(w) PROVE ItemsRight'
  <2>1. UNCHANGED <<sent, reader, queue, item, main>>
    BY <1>7 DEF Gate, connection, stopping
  <2>2. Busy(w) /\ \A v \in Workers : v # w => pc'[v] = pc[v]
    BY <1>0, <1>7 DEF Gate, Busy, TypeOK
  <2>3. pc'[w] \in {"requeue", "serve", "reply"} => item[w].from # NoClient
    <3>1. item[w].from = NoClient => item[w].type = "none"
      BY <1>0, <2>2, SentinelFacts DEF ItemsRight, RightItem
    <3>. QED
      BY <1>0, <1>7, <3>1 DEF Gate, TypeOK
  <2>4. \A v \in Workers : Busy(v)' => Busy(v)
    BY <2>2 DEF Busy
  <2>. QED
    BY <1>0, <2>1, <2>2, <2>3, <2>4 DEF ItemsRight, RightItem, ItemOf
<1>8. ASSUME NEW w \in Workers, Requeue(w) PROVE ItemsRight'
  <2>1. UNCHANGED <<sent, reader, item, main>> /\ queue' = Append(queue, item[w])
        /\ item[w] \in Item
    BY <1>0, <1>8 DEF Requeue, connection, stopping, TypeOK
  <2>2. \A i \in DOMAIN queue' :
           queue'[i] = item[w] \/ \E k \in DOMAIN queue : queue'[i] = queue[k]
    BY <1>0, <2>1, PutEffect
  <2>3. RightItem(item[w])
    BY <1>0, <1>8 DEF Requeue, ItemsRight, Busy
  <2>4. \A v \in Workers : pc'[v] = IF v = w THEN "receive" ELSE pc[v]
    BY <1>0, <1>8 DEF Requeue, AfterRequeue, TypeOK
  <2>. QED
    BY <1>0, <2>1, <2>2, <2>3, <2>4 DEF ItemsRight, RightItem, ItemOf, Busy
<1>9. ASSUME NEW w \in Workers, Serve(w) \/ Reply(w) \/ WorkerCheck(w) PROVE ItemsRight'
  <2>1. UNCHANGED <<sent, reader, queue, item, main>>
    BY <1>9 DEF Serve, ServeExec, ServeCommit, ServeShutdown, Reply, WorkerCheck, connection,
                stopping
  <2>2. \A v \in Workers : /\ Busy(v)' => Busy(v)
                           /\ pc'[v] \in {"requeue", "serve", "reply"}
                                => pc[v] \in {"requeue", "serve", "reply"}
    <3>1. CASE Serve(w)
      BY <1>0, <3>1 DEF Serve, ServeExec, ServeCommit, ServeShutdown, Busy, TypeOK
    <3>2. CASE Reply(w) \/ WorkerCheck(w)
      BY <1>0, <3>2 DEF Reply, WorkerCheck, Busy, TypeOK
    <3>. QED
      BY <1>9, <3>1, <3>2
  <2>. QED
    BY <1>0, <2>1, <2>2 DEF ItemsRight, RightItem, ItemOf
<1>10. CASE SendSentinel
  <2>1. UNCHANGED <<sent, reader, pc, item, main>> /\ queue' = Append(queue, Sentinel)
    BY <1>10 DEF SendSentinel, connection
  <2>2. \A i \in DOMAIN queue' :
           queue'[i] = Sentinel \/ \E k \in DOMAIN queue : queue'[i] = queue[k]
    BY <1>0, <2>1, SentinelFacts, PutEffect
  <2>3. RightItem(Sentinel)
    BY SentinelFacts DEF RightItem
  <2>. QED
    BY <1>0, <2>1, <2>2, <2>3 DEF ItemsRight, RightItem, ItemOf, Busy
<1>11. CASE Exit
  BY <1>1, <1>11 DEF Exit
<1>12. CASE StopAccepting \/ UNCHANGED vars
  <2>1. UNCHANGED <<sent, reader, queue, pc, item>> /\ (main' = "exited" => main = "exited")
    BY <1>12 DEF StopAccepting, vars, connection, stopping
  <2>. QED
    BY <1>0, <1>1, <2>1 DEF ItemsRight
<1>. QED
  BY <1>2, <1>3, <1>4, <1>5, <1>6, <1>7, <1>8, <1>9, <1>10, <1>11, <1>12, Kinds

(***************************************************************************)
(* What is in transit, and what has been carried out                       *)
(***************************************************************************)
LEMMA SendEffect ==
    ASSUME IInv, NEW c \in Clients, Send(c)
    PROVE  /\ ~ InTransit(c) /\ main # "exited"
           /\ sent[c] < Len(Requests(c))
           /\ \A d \in Clients : InTransit(d)' <=> InTransit(d) \/ d = c
           /\ sent' = [sent EXCEPT ![c] = sent[c] + 1]
           /\ UNCHANGED <<served, votes, running, main, phase, turn>>
<1>1. TypeOK /\ OnePlace /\ ItemsRight
  BY DEF IInv
<1>2. Nowhere(c) /\ main # "exited"
  BY <1>1 DEF Send, OnePlace, ItemsRight
<1>3. ~ InTransit(c)
  BY <1>2 DEF Nowhere, InTransit, Held
<1>4. \A d \in Clients : InTransit(d)' <=> InTransit(d) \/ d = c
  BY DEF Send, InTransit, InQueue, HasItem
<1>. QED
  BY <1>2, <1>3, <1>4 DEF Send, stopping, turns

LEMMA ServeEffect ==
    ASSUME IInv, NEW w \in Workers, Serve(w)
    PROVE  \E c \in Clients :
             /\ InTransit(c) /\ HasItem(w, c) /\ item[w] = ItemOf(c) /\ c # NoClient
             /\ \A d \in Clients : InTransit(d)' <=> InTransit(d) /\ d # c
             /\ sent' = sent
             /\ main' = main
             /\ served' = IF ServeShutdown(w) THEN served ELSE [served EXCEPT ![c] = @ + 1]
<1>1. TypeOK /\ OnePlace /\ ItemsRight /\ Progress
  BY DEF IInv
<1>2. pc[w] = "serve"
  BY DEF Serve, ServeExec, ServeCommit, ServeShutdown
<1>3. PICK c \in Clients :
             /\ item[w].from = c /\ item[w] = ItemOf(c) /\ HasItem(w, c)
             /\ c \notin unread /\ reader[c] # "enqueue" /\ ~ InQueue(c)
             /\ \A v \in Workers : HasItem(v, c) => v = w
             /\ c # NoClient
             /\ InTransit(c)
  BY <1>1, <1>2, WorkItem
<1>4. UNCHANGED <<sent, unread, reader, queue, item, main>>
  BY DEF Serve, ServeExec, ServeCommit, ServeShutdown, connection, stopping
<1>5. \A v \in Workers : pc'[v] = IF v = w THEN "reply" ELSE pc[v]
  BY <1>1 DEF Serve, ServeExec, ServeCommit, ServeShutdown, TypeOK
<1>6. \A d \in Clients : InTransit(d)' <=> InTransit(d) /\ d # c
  BY <1>2, <1>3, <1>4, <1>5 DEF InTransit, InQueue, HasItem
<1>7. served' = IF ServeShutdown(w) THEN served ELSE [served EXCEPT ![c] = @ + 1]
  BY <1>3 DEF Serve, ServeExec, ServeCommit, ServeShutdown, CountServed
<1>. QED
  BY <1>3, <1>4, <1>6, <1>7

\* The other steps leave alone what was sent and what was carried out.
Quiet ==
    /\ UNCHANGED <<sent, served, votes, running, phase, turn>>
    /\ \A c \in Clients : InTransit(c)' <=> InTransit(c)
    /\ main' = "exited" <=> main = "exited"
    /\ main' = "accepting" => main = "accepting"
    /\ main # "accepting" \/ main' = "accepting" \/ ~ running

LEMMA QuietSteps ==
    ASSUME IInv, [Next]_vars
    PROVE  \/ \E c \in Clients : Send(c)
           \/ \E w \in Workers : Serve(w)
           \/ Exit
           \/ Quiet
<1>0. TypeOK /\ OnePlace /\ ItemsRight /\ Progress /\ QueueUnique /\ queue \in Seq(Item)
  BY DEF IInv, OnePlace, TypeOK
<1>1. ASSUME NEW c \in Clients, Connect(c) \/ Leave(c) PROVE Quiet
  <2>1. UNCHANGED <<sent, unread, queue, pc, item, served, votes, running, main, phase, turn>>
    BY <1>1 DEF Connect, Leave, turns, stopping
  <2>2. \A d \in Clients : reader'[d] = "enqueue" <=> reader[d] = "enqueue"
    BY <1>0, <1>1 DEF Connect, Leave, TypeOK, OnePlace, Nowhere
  <2>. QED
    BY <2>1, <2>2 DEF Quiet, InTransit, InQueue, HasItem
<1>2. ASSUME NEW c \in Clients, ReadRequest(c) \/ ReadEnd(c) \/ ReaderCheck(c) PROVE Quiet
  <2>1. UNCHANGED <<sent, queue, pc, item, served, votes, running, main, phase, turn>>
    BY <1>2 DEF ReadRequest, ReadEnd, ReaderCheck, turns, stopping
  <2>2. \A d \in Clients : reader'[d] = "enqueue" \/ d \in unread'
                           <=> reader[d] = "enqueue" \/ d \in unread
    BY <1>0, <1>2 DEF ReadRequest, ReadEnd, ReaderCheck, TypeOK
  <2>. QED
    BY <2>1, <2>2 DEF Quiet, InTransit, InQueue, HasItem
<1>3. ASSUME NEW c \in Clients, Enqueue(c) PROVE Quiet
  <2>1. /\ UNCHANGED <<sent, unread, pc, item, served, votes, running, main, phase, turn>>
        /\ queue' = Append(queue, ItemOf(c))
    BY <1>3 DEF Enqueue, turns, stopping
  <2>2. ItemOf(c) \in Item /\ ItemOf(c).from = c
    BY <1>0, <1>3, SentFacts, ItemFacts DEF Enqueue, InTransit
  <2>3. \A d \in Clients : InQueue(d)' <=> InQueue(d) \/ c = d
    BY <1>0, <2>1, <2>2, PutEffect
  <2>4. reader[c] = "enqueue" /\ \A d \in Clients : reader'[d] = IF d = c THEN "check" ELSE reader[d]
    BY <1>0, <1>3 DEF Enqueue, TypeOK
  <2>. QED
    BY <2>1, <2>3, <2>4 DEF Quiet, InTransit, HasItem
<1>4. ASSUME NEW w \in Workers, Receive(w) PROVE Quiet
  <2>0. PICK m : m = Head(queue)
    OBVIOUS
  <2>1. /\ UNCHANGED <<sent, unread, reader, served, votes, running, main, phase, turn>>
        /\ queue # << >> /\ queue' = Tail(queue)
    BY <1>4 DEF Receive, connection, turns, stopping
  <2>2. \A c \in Clients : InQueue(c) <=> InQueue(c)' \/ m.from = c
    BY <1>0, <2>0, <2>1, TakeEffect
  <2>3. \A v \in Workers : /\ item'[v] = IF v = w THEN m ELSE item[v]
                           /\ pc'[v] = IF v = w THEN "gate" ELSE pc[v]
                           /\ pc[w] = "receive"
    BY <1>0, <1>4, <2>0 DEF Receive, TypeOK
  <2>4. \A c \in Clients : (\E v \in Workers : HasItem(v, c)' /\ pc'[v] # "reply")
                           <=> (\E v \in Workers : HasItem(v, c) /\ pc[v] # "reply") \/ m.from = c
    BY <2>3 DEF HasItem
  <2>. QED
    BY <2>1, <2>2, <2>4 DEF Quiet, InTransit
<1>5. ASSUME NEW w \in Workers, Gate(w) \/ Reply(w) \/ WorkerCheck(w) PROVE Quiet
  <2>1. UNCHANGED <<sent, unread, reader, queue, item, served, votes, running, main, phase, turn>>
    BY <1>5 DEF Gate, Reply, WorkerCheck, connection, turns, stopping
  <2>2. \A v \in Workers :
            item[v].from = NoClient
            \/ (pc'[v] \in {"gate", "requeue", "serve"} <=> pc[v] \in {"gate", "requeue", "serve"})
    BY <1>0, <1>5 DEF Gate, Reply, WorkerCheck, TypeOK
  <2>3. NoClient \notin Clients
    BY DispatcherAssumption DEF NoClient
  <2>. QED
    BY <2>1, <2>2, <2>3 DEF Quiet, InTransit, InQueue, HasItem
<1>6. ASSUME NEW w \in Workers, Requeue(w) PROVE Quiet
  <2>1. PICK c \in Clients :
             /\ item[w].from = c /\ HasItem(w, c)
             /\ \A v \in Workers : HasItem(v, c) => v = w
    BY <1>0, <1>6, WorkItem DEF Requeue
  <2>2. /\ UNCHANGED <<sent, unread, reader, item, served, votes, running, main, phase, turn>>
        /\ queue' = Append(queue, item[w]) /\ item[w] \in Item
    BY <1>0, <1>6 DEF Requeue, connection, turns, stopping, TypeOK
  <2>3. \A d \in Clients : InQueue(d)' <=> InQueue(d) \/ c = d
    BY <1>0, <2>1, <2>2, PutEffect
  <2>4. pc[w] = "requeue" /\ \A v \in Workers : pc'[v] = IF v = w THEN "receive" ELSE pc[v]
    BY <1>0, <1>6 DEF Requeue, AfterRequeue, TypeOK
  <2>5. \A d \in Clients : (\E v \in Workers : HasItem(v, d)' /\ pc'[v] # "reply")
                           <=> (\E v \in Workers : HasItem(v, d) /\ pc[v] # "reply") /\ d # c
    BY <2>1, <2>2, <2>4 DEF HasItem
  <2>6. InTransit(c) /\ InTransit(c)'
    BY <2>1, <2>3, <2>4 DEF InTransit, HasItem
  <2>7. \A d \in Clients : d # c => (InTransit(d)' <=> InTransit(d))
    BY <2>2, <2>3, <2>5 DEF InTransit
  <2>. QED
    BY <2>2, <2>6, <2>7 DEF Quiet
<1>7. CASE SendSentinel
  <2>1. /\ UNCHANGED <<sent, unread, reader, pc, item, served, votes, running, main, phase, turn>>
        /\ queue' = Append(queue, Sentinel)
    BY <1>7 DEF SendSentinel, connection, turns
  <2>2. NoClient \notin Clients
    BY DispatcherAssumption DEF NoClient
  <2>3. \A d \in Clients : InQueue(d)' <=> InQueue(d)
    BY <1>0, <2>1, <2>2, SentinelFacts, PutEffect
  <2>. QED
    BY <2>1, <2>3 DEF Quiet, InTransit, HasItem
<1>8. CASE StopAccepting \/ UNCHANGED vars
  <2>1. UNCHANGED <<sent, unread, reader, queue, pc, item, served, votes, running, phase, turn>>
        /\ (UNCHANGED main \/ (main = "accepting" /\ main' = "stopping" /\ ~ running))
    BY <1>8 DEF StopAccepting, vars, connection, turns, stopping
  <2>. QED
    BY <2>1 DEF Quiet, InTransit, InQueue, HasItem
<1>. QED
  BY <1>1, <1>2, <1>3, <1>4, <1>5, <1>6, <1>7, <1>8, Kinds

LEMMA ExitEffect ==
    ASSUME Exit
    PROVE  /\ UNCHANGED <<sent, served, votes, running, phase, turn>> /\ main' = "exited"
           /\ \A c \in Clients : InTransit(c)' => InTransit(c)
<1>1. UNCHANGED <<sent, unread, queue, pc, item, served, votes, running, phase, turn>>
      /\ main' = "exited" /\ \A c \in Clients : reader'[c] = "closed"
  BY DEF Exit, turns
<1>. QED
  BY <1>1 DEF InTransit, InQueue, HasItem

\* A worker carries out the next request of its client.
LEMMA ServedNext ==
    ASSUME IInv, NEW c \in Clients, InTransit(c)
    PROVE  /\ sent[c] = served[c] + 1 /\ served[c] \in Nat /\ Len(Script[c]) \in Nat
           /\ served[c] <= Len(Script[c])
           /\ ItemOf(c).type # "shutdown" =>
                 /\ served[c] < Len(Script[c])
                 /\ ItemOf(c).type = Script[c][served[c] + 1].type
                 /\ ItemOf(c).tid = Script[c][served[c] + 1].tid
           /\ ItemOf(c).type = "shutdown" => served[c] = Len(Script[c])
<1>1. /\ sent[c] \in 1 .. Len(Requests(c))
      /\ served[c] = sent[c] - 1 /\ served[c] \in Nat /\ served[c] <= Len(Script[c])
      /\ Len(Script[c]) \in Nat /\ Len(Requests(c)) = Len(Script[c]) + 1
  BY SentFacts, RequestFacts DEF IInv
<1>2. sent[c] = served[c] + 1
  BY <1>1
<1>3. sent[c] <= Len(Script[c]) =>
         /\ ItemOf(c).type \in {"exec", "commit"}
         /\ ItemOf(c).type = Script[c][sent[c]].type
         /\ ItemOf(c).tid = Script[c][sent[c]].tid
  BY <1>1, ItemFacts
<1>4. sent[c] > Len(Script[c]) => ItemOf(c).type = "shutdown"
  BY <1>1, ItemFacts
<1>. QED
  BY <1>1, <1>2, <1>3, <1>4

LEMMA ProgressStep == IInv /\ [Next]_vars => Progress'
<1>. SUFFICES ASSUME IInv, [Next]_vars PROVE Progress'
  OBVIOUS
<1>0. TypeOK /\ Progress
  BY DEF IInv
<1>1. CASE Quiet
  BY <1>0, <1>1 DEF Quiet, Progress, Due
<1>2. ASSUME NEW c \in Clients, Send(c) PROVE Progress'
  <2>1. /\ ~ InTransit(c) /\ main # "exited" /\ main' = main
        /\ \A d \in Clients : InTransit(d)' <=> InTransit(d) \/ d = c
        /\ served' = served
        /\ \A d \in Clients : sent'[d] = IF d = c THEN sent[c] + 1 ELSE sent[d]
    BY <1>0, <1>2, SendEffect DEF TypeOK
  <2>2. sent[c] \in Nat /\ sent[c] <= Len(Script[c]) /\ served[c] = Due(c)
    <3>1. /\ Len(Requests(c)) = Len(Script[c]) + 1 /\ Len(Script[c]) \in Nat
          /\ sent[c] < Len(Requests(c)) /\ sent[c] \in 0 .. Len(Requests(c))
      BY <1>0, <1>2, SendEffect, RequestFacts DEF TypeOK
    <3>. QED
      BY <1>0, <2>1, <3>1 DEF Progress
  <2>3. served'[c] = sent'[c] - 1 /\ sent'[c] >= 1
    BY <2>1, <2>2 DEF Due
  <2>. QED
    BY <1>0, <2>1, <2>3 DEF Progress, Due
<1>3. ASSUME NEW w \in Workers, Serve(w) PROVE Progress'
  <2>1. PICK c \in Clients :
             /\ InTransit(c) /\ item[w] = ItemOf(c)
             /\ \A d \in Clients : InTransit(d)' <=> InTransit(d) /\ d # c
             /\ sent' = sent /\ main' = main
             /\ served' = IF ServeShutdown(w) THEN served ELSE [served EXCEPT ![c] = @ + 1]
    BY <1>3, ServeEffect
  <2>2. CASE ServeShutdown(w)
    <3>1. served[c] = Len(Script[c]) /\ sent[c] = served[c] + 1 /\ served[c] \in Nat
      BY <2>1, <2>2, ServedNext DEF ServeShutdown
    <3>2. served'[c] = Due(c)'
      BY <2>1, <2>2, <3>1 DEF Due
    <3>. QED
      BY <1>0, <2>1, <2>2, <3>2 DEF Progress, Due
  <2>3. CASE ~ ServeShutdown(w)
    <3>0. item[w].type # "shutdown"
      BY <1>3, <2>3 DEF Serve, ServeExec, ServeCommit
    <3>1. served[c] < Len(Script[c]) /\ sent[c] = served[c] + 1 /\ served[c] \in Nat
          /\ Len(Script[c]) \in Nat
      BY <2>1, <3>0, ServedNext
    <3>2. \A d \in Clients : served'[d] = IF d = c THEN served[c] + 1 ELSE served[d]
      BY <1>0, <2>1, <2>3 DEF TypeOK
    <3>3. served'[c] = Due(c)'
      BY <2>1, <3>1, <3>2 DEF Due
    <3>. QED
      BY <1>0, <2>1, <3>2, <3>3 DEF Progress, Due
  <2>. QED
    BY <2>2, <2>3
<1>4. CASE Exit
  BY <1>0, <1>4, ExitEffect DEF Progress
<1>. QED
  BY <1>1, <1>2, <1>3, <1>4, QuietSteps

(***************************************************************************)
(* Types                                                                   *)
(***************************************************************************)
LEMMA TypeStep == IInv /\ [Next]_vars => TypeOK'
<1>. SUFFICES ASSUME IInv, [Next]_vars PROVE TypeOK'
  OBVIOUS
<1>0. TypeOK /\ queue \in Seq(Item) /\ QueueUnique
  BY DEF IInv, TypeOK, OnePlace
<1>1. ASSUME NEW c \in Clients, Connect(c) \/ Leave(c) PROVE TypeOK'
  BY <1>0, <1>1 DEF Connect, Leave, TypeOK, turns, stopping
<1>2. ASSUME NEW c \in Clients, Send(c) PROVE TypeOK'
  <2>1. /\ sent' \in [Clients -> Nat]
        /\ \A d \in Clients : sent'[d] = IF d = c THEN sent[c] + 1 ELSE sent[d]
        /\ client' \in [Clients -> {"outside", "ready", "waiting", "gone"}]
        /\ unread' \in SUBSET Clients
    BY <1>0, <1>2 DEF Send, TypeOK
  <2>2. sent'[c] \in 0 .. Len(Requests(c))
    <3>1. /\ Len(Requests(c)) \in Nat /\ sent[c] \in 0 .. Len(Requests(c))
          /\ sent[c] < Len(Requests(c))
      BY <1>0, <1>2, RequestFacts DEF Send, TypeOK
    <3>. QED
      BY <2>1, <3>1
  <2>3. \A d \in Clients : sent'[d] \in 0 .. Len(Requests(d))
    BY <1>0, <2>1, <2>2 DEF TypeOK
  <2>. QED
    BY <1>0, <1>2, <2>1, <2>3 DEF Send, TypeOK, turns, stopping, Requests
<1>3. ASSUME NEW c \in Clients, ReadRequest(c) \/ ReadEnd(c) \/ ReaderCheck(c) PROVE TypeOK'
  BY <1>0, <1>3 DEF ReadRequest, ReadEnd, ReaderCheck, TypeOK, turns, stopping
<1>4. ASSUME NEW c \in Clients, Enqueue(c) PROVE TypeOK'
  <2>1. ItemOf(c) \in Item
    BY <1>4, SentFacts, ItemFacts DEF IInv, Enqueue, InTransit
  <2>2. queue' \in Seq(Item) /\ Len(queue') <= QueueCap
    <3>1. Len(queue) \in Nat /\ Len(queue) < QueueCap /\ QueueCap \in Nat
      BY <1>0, <1>4, DispatcherAssumption DEF Enqueue
    <3>2. queue' \in Seq(Item) /\ Len(queue') = Len(queue) + 1
      BY <1>0, <1>4, <2>1, AppendFacts DEF Enqueue
    <3>. QED
      BY <3>1, <3>2
  <2>. QED
    BY <1>0, <1>4, <2>2 DEF Enqueue, TypeOK, turns, stopping
<1>5. ASSUME NEW w \in Workers, Receive(w) PROVE TypeOK'
  <2>1. queue' \in Seq(Item) /\ Len(queue') <= QueueCap /\ Head(queue) \in Item
    <3>1. /\ queue' \in Seq(Item) /\ Head(queue) \in Item
          /\ Len(queue) \in Nat /\ Len(queue') = Len(queue) - 1
      BY <1>0, <1>5, TailFacts DEF Receive
    <3>. QED
      BY <1>0, <3>1, DispatcherAssumption DEF TypeOK
  <2>. QED
    BY <1>0, <1>5, <2>1 DEF Receive, TypeOK, connection, turns, stopping
<1>6. ASSUME NEW w \in Workers, Gate(w) \/ WorkerCheck(w) PROVE TypeOK'
  BY <1>0, <1>6 DEF Gate, WorkerCheck, TypeOK, connection, turns, stopping
<1>7. ASSUME NEW w \in Workers, Requeue(w) PROVE TypeOK'
  <2>1. queue' \in Seq(Item) /\ Len(queue') <= QueueCap
    <3>1. Len(queue) \in Nat /\ Len(queue) < QueueCap /\ QueueCap \in Nat /\ item[w] \in Item
      BY <1>0, <1>7, DispatcherAssumption DEF Requeue, TypeOK
    <3>2. queue' \in Seq(Item) /\ Len(queue') = Len(queue) + 1
      BY <1>0, <1>7, <3>1, AppendFacts DEF Requeue
    <3>. QED
      BY <3>1, <3>2
  <2>2. pc' \in [Workers -> {"receive", "gate", "requeue", "serve", "reply", "check", "exited"}]
    BY <1>0, <1>7 DEF Requeue, AfterRequeue, TypeOK
  <2>. QED
    BY <1>0, <1>7, <2>1, <2>2 DEF Requeue, TypeOK, connection, turns, stopping
<1>8. ASSUME NEW w \in Workers, Serve(w) PROVE TypeOK'
  <2>1. PICK c \in Clients :
             /\ InTransit(c) /\ item[w] = ItemOf(c)
             /\ served' = IF ServeShutdown(w) THEN served ELSE [served EXCEPT ![c] = @ + 1]
    BY <1>8, ServeEffect
  <2>2. served' \in [Clients -> Nat] /\ \A d \in Clients : served'[d] \in 0 .. Len(Script[d])
    <3>1. CASE ServeShutdown(w)
      BY <1>0, <2>1, <3>1 DEF TypeOK
    <3>2. CASE ~ ServeShutdown(w)
      <4>1. item[w].type # "shutdown"
        BY <1>8, <3>2 DEF Serve, ServeExec, ServeCommit
      <4>2. served[c] < Len(Script[c]) /\ served[c] \in Nat /\ Len(Script[c]) \in Nat
        BY <2>1, <4>1, ServedNext
      <4>3. served' = [served EXCEPT ![c] = served[c] + 1]
        BY <2>1, <3>2
      <4>4. \A d \in Clients : served'[d] = IF d = c THEN served[c] + 1 ELSE served[d]
        BY <1>0, <4>3 DEF TypeOK
      <4>. QED
        BY <1>0, <4>2, <4>3, <4>4 DEF TypeOK
    <3>. QED
      BY <3>1, <3>2
  <2>3. phase' \in Nat \ {0} /\ turn' \in 1 .. ExpectedShutdowns
    <3>1. CASE ServeCommit(w)
      BY <1>0, <3>1, DispatcherAssumption DEF ServeCommit, NextTurn, TypeOK, turns
    <3>2. CASE ServeExec(w) \/ ServeShutdown(w)
      BY <1>0, <3>2 DEF ServeExec, ServeShutdown, TypeOK, turns
    <3>. QED
      BY <1>8, <3>1, <3>2 DEF Serve
  <2>4. votes' \in Nat /\ running' \in BOOLEAN /\ UNCHANGED <<main, sentinels>>
    <3>1. votes' \in Nat /\ UNCHANGED <<main, sentinels>>
      BY <1>0, <1>8 DEF Serve, ServeExec, ServeCommit, ServeShutdown, TypeOK, stopping
    <3>2. CASE ServeShutdown(w)
      <4>1. running' = (running /\ ~ EnoughVotes(votes'))
        BY <3>2 DEF ServeShutdown
      <4>. QED
        BY <3>1, <4>1, Zenon
    <3>3. CASE ServeExec(w) \/ ServeCommit(w)
      <4>1. running' = running /\ running \in BOOLEAN
        BY <1>0, <3>3 DEF ServeExec, ServeCommit, TypeOK, stopping
      <4>. QED
        BY <3>1, <4>1
    <3>. QED
      BY <1>8, <3>2, <3>3 DEF Serve
  <2>5. /\ UNCHANGED <<client, sent, unread, reader, queue, item>>
        /\ pc' \in [Workers -> {"receive", "gate", "requeue", "serve", "reply", "check", "exited"}]
    BY <1>0, <1>8 DEF Serve, ServeExec, ServeCommit, ServeShutdown, TypeOK, connection
  <2>. QED
    BY <1>0, <2>2, <2>3, <2>4, <2>5 DEF TypeOK
<1>9. ASSUME NEW w \in Workers, Reply(w) PROVE TypeOK'
  <2>1. client' \in [Clients -> {"outside", "ready", "waiting", "gone"}]
    BY <1>0, <1>9 DEF Reply, TypeOK
  <2>. QED
    BY <1>0, <1>9, <2>1 DEF Reply, TypeOK, turns, stopping
<1>10. CASE SendSentinel
  <2>1. queue' \in Seq(Item) /\ Len(queue') <= QueueCap
    <3>1. Len(queue) \in Nat /\ Len(queue) < QueueCap /\ QueueCap \in Nat
      BY <1>0, <1>10, DispatcherAssumption DEF SendSentinel
    <3>2. queue' \in Seq(Item) /\ Len(queue') = Len(queue) + 1
      BY <1>0, <1>10, SentinelFacts, AppendFacts DEF SendSentinel
    <3>. QED
      BY <3>1, <3>2
  <2>2. sentinels' \in 0 .. Cardinality(Workers)
    <3>1. Cardinality(Workers) \in Nat
      BY DispatcherAssumption, FS_CardinalityType
    <3>. QED
      BY <1>0, <1>10, <3>1 DEF SendSentinel, SentinelsToSend, TypeOK
  <2>. QED
    BY <1>0, <1>10, <2>1, <2>2 DEF SendSentinel, TypeOK, connection, turns
<1>11. CASE Exit \/ StopAccepting
  BY <1>0, <1>11 DEF Exit, StopAccepting, TypeOK, connection, turns
<1>12. CASE UNCHANGED vars
  BY <1>0, <1>12 DEF vars, TypeOK, connection, turns, stopping, Requests
<1>. QED
  BY <1>1, <1>2, <1>3, <1>4, <1>5, <1>6, <1>7, <1>8, <1>9, <1>10, <1>11, <1>12, Kinds

LEMMA InvInit == Init => IInv
<1>. SUFFICES ASSUME Init PROVE IInv
  OBVIOUS
<1>1. TypeOK
  <2>1. \A c \in Clients : Len(Script[c]) \in Nat /\ Len(Requests(c)) \in Nat
    BY RequestFacts
  <2>2. Cardinality(Workers) \in Nat
    BY DispatcherAssumption, FS_CardinalityType
  <2>3. queue \in Seq(Item) /\ Len(queue) <= QueueCap
    BY DispatcherAssumption DEF Init
  <2>. QED
    BY <2>1, <2>2, <2>3, SentinelFacts, DispatcherAssumption DEF Init, TypeOK
<1>2. \A c \in Clients : Nowhere(c) /\ ~ InTransit(c)
  BY DEF Init, Nowhere, InTransit, InQueue, Held, HasItem
<1>3. OnePlace
  BY <1>2 DEF Init, OnePlace, QueueUnique, WorkersUnique, Busy, Nowhere
<1>4. ItemsRight
  BY DEF Init, ItemsRight, Busy
<1>5. Progress
  <2>1. \A c \in Clients : Len(Script[c]) \in Nat
    BY RequestFacts
  <2>. QED
    BY <1>2, <2>1 DEF Init, Progress, Due
<1>. QED
  BY <1>1, <1>3, <1>4, <1>5 DEF IInv

LEMMA InvStep == IInv /\ [Next]_vars => IInv'
BY TypeStep, OnePlaceStep, ItemsRightStep, ProgressStep DEF IInv

LEMMA Invariant == Spec => []IInv
<1>. QED
  BY InvInit, InvStep, PTL DEF Spec

(***************************************************************************)
(* The theorems                                                            *)
(***************************************************************************)

\* Every variable keeps its type: the turn stays with one of the clients that
\* take turns, and nobody has more requests carried out than it sent.
THEOREM DispatcherTypeCorrect == Spec => []TypeOK
BY Invariant, PTL DEF IInv

LEMMA AtMostOne ==
    ASSUME NEW S, \A x, y \in S : x = y
    PROVE  Cardinality(S) = IF S = {} THEN 0 ELSE 1
<1>1. CASE S = {}
  BY <1>1, FS_EmptySet
<1>2. CASE S # {}
  <2>1. PICK x : S = {x}
    BY <1>2
  <2>. QED
    BY <2>1, FS_Singleton
<1>. QED
  BY <1>1, <1>2

\* worker_main puts requests back into the queue that readers and main write to
\* as well: none gets lost or doubled on the way.
THEOREM DispatcherOneCopy == Spec => []OneCopy
<1>1. ASSUME IInv, NEW c \in Clients
      PROVE  Copies(c) = IF Nowhere(c) THEN 0 ELSE 1
  <2>. DEFINE A == {x \in {"socket"} : c \in unread}
              B == {x \in {"reader"} : reader[c] = "enqueue"}
              D == {i \in DOMAIN queue : queue[i].from = c}
              E == {w \in Workers : HasItem(w, c)}
  <2>1. c # NoClient /\ OnePlace
    BY <1>1, DispatcherAssumption DEF NoClient, IInv
  <2>2. /\ \A x, y \in A : x = y
        /\ \A x, y \in B : x = y
        /\ \A x, y \in D : x = y
        /\ \A x, y \in E : x = y
    BY <2>1 DEF OnePlace, QueueUnique, WorkersUnique, HasItem, Busy
  <2>3. /\ A = {} <=> c \notin unread
        /\ B = {} <=> reader[c] # "enqueue"
        /\ D = {} <=> ~ InQueue(c)
        /\ E = {} <=> ~ Held(c)
    BY DEF InQueue, Held
  <2>4. Copies(c) = Cardinality(A) + Cardinality(B) + Cardinality(D) + Cardinality(E)
    BY DEF Copies
  <2>. HIDE DEF A, B, D, E
  <2>5. /\ Cardinality(A) = IF A = {} THEN 0 ELSE 1
        /\ Cardinality(B) = IF B = {} THEN 0 ELSE 1
        /\ Cardinality(D) = IF D = {} THEN 0 ELSE 1
        /\ Cardinality(E) = IF E = {} THEN 0 ELSE 1
    BY <2>2, AtMostOne
  <2>6. /\ c \in unread => reader[c] # "enqueue" /\ ~ InQueue(c) /\ ~ Held(c)
        /\ reader[c] = "enqueue" => ~ InQueue(c) /\ ~ Held(c)
        /\ InQueue(c) => ~ Held(c)
    BY <2>1 DEF OnePlace
  <2>. QED
    BY <2>3, <2>4, <2>5, <2>6 DEF Nowhere
<1>2. IInv => OneCopy
  BY <1>1 DEF OneCopy, IInv, OnePlace
<1>. QED
  BY <1>2, Invariant, PTL

\* Nobody else's transactions are in a client's script, as in data.in.
OwnScripts ==
    \A c \in Clients : \A i \in 1 .. Len(Script[c]) : txn_client_id(Script[c][i].tid) = c

\* No two clients run the same transaction.
TidsApart ==
    \A c, d \in Clients : \A i \in 1 .. Len(Script[c]) : \A j \in 1 .. Len(Script[d]) :
        Script[c][i].tid = Script[d][j].tid => c = d

LEMMA OwnTids == OwnScripts => TidsApart
BY DEF OwnScripts, TidsApart

\* No more clients come than votes are waited for.
EverybodyVotes == Cardinality(Clients) <= ExpectedShutdowns

Voted == {c \in Clients : sent[c] = Len(Requests(c)) /\ ~ InTransit(c)}

\* The votes that were counted were cast.
VotesCounted ==
    /\ main = "accepting" \/ ~ running
    /\ main # "exited" => votes <= Cardinality(Voted)

LEMMA VotedFinite == IsFiniteSet(Clients) /\ IsFiniteSet(Voted) /\ Cardinality(Voted) \in Nat
<1>1. IsFiniteSet(1 .. 9)
  BY FS_Interval, 1 \in Int, 9 \in Int
<1>2. IsFiniteSet(Clients)
  BY <1>1, DispatcherAssumption, FS_Subset
<1>3. IsFiniteSet(Voted)
  BY <1>2, FS_Subset DEF Voted
<1>. QED
  BY <1>2, <1>3, FS_CardinalityType

\* A client whose request is no vote has not sent its vote yet.
LEMMA NotYetVoted ==
    ASSUME IInv, NEW c \in Clients, InTransit(c), ItemOf(c).type # "shutdown"
    PROVE  sent[c] # Len(Requests(c)) /\ served[c] # Len(Script[c])
<1>1. /\ served[c] < Len(Script[c]) /\ sent[c] = served[c] + 1 /\ served[c] \in Nat
      /\ Len(Script[c]) \in Nat /\ Len(Requests(c)) = Len(Script[c]) + 1
  BY ServedNext, RequestFacts
<1>. QED
  BY <1>1

LEMMA VotesStep == IInv /\ IInv' /\ VotesCounted /\ [Next]_vars => VotesCounted'
<1>. SUFFICES ASSUME IInv, IInv', VotesCounted, [Next]_vars
              PROVE  VotesCounted'
  OBVIOUS
<1>0. TypeOK /\ TypeOK'
  BY DEF IInv
<1>1. CASE Quiet
  <2>1. Voted' = Voted
    BY <1>1 DEF Quiet, Voted, Requests
  <2>. QED
    BY <1>1, <2>1 DEF Quiet, VotesCounted
<1>2. ASSUME NEW c \in Clients, Send(c) PROVE VotesCounted'
  <2>1. /\ \A d \in Clients : InTransit(d)' <=> InTransit(d) \/ d = c
        /\ \A d \in Clients : sent'[d] = IF d = c THEN sent[c] + 1 ELSE sent[d]
        /\ sent[c] < Len(Requests(c))
        /\ UNCHANGED <<served, votes, running, main>>
    BY <1>0, <1>2, SendEffect DEF TypeOK
  <2>2. Voted' = Voted
    <3>1. sent[c] # Len(Requests(c))
      BY <2>1, RequestFacts, <1>0 DEF TypeOK
    <3>. QED
      BY <2>1, <3>1 DEF Voted, Requests
  <2>. QED
    BY <2>1, <2>2 DEF VotesCounted
<1>3. CASE Exit
  <2>1. ~ running
    BY <1>3 DEF Exit, VotesCounted
  <2>. QED
    BY <1>3, <2>1, ExitEffect DEF VotesCounted
<1>4. ASSUME NEW w \in Workers, Serve(w) PROVE VotesCounted'
  <2>1. PICK c \in Clients :
             /\ InTransit(c) /\ item[w] = ItemOf(c)
             /\ \A d \in Clients : InTransit(d)' <=> InTransit(d) /\ d # c
             /\ sent' = sent /\ main' = main
             /\ served' = IF ServeShutdown(w) THEN served ELSE [served EXCEPT ![c] = @ + 1]
    BY <1>4, ServeEffect
  <2>2. CASE ~ ServeShutdown(w)
    <3>1. UNCHANGED <<votes, running>> /\ item[w].type # "shutdown"
      BY <1>4, <2>2 DEF Serve, ServeExec, ServeCommit, stopping
    <3>2. sent[c] # Len(Requests(c))
      BY <2>1, <3>1, NotYetVoted
    <3>3. Voted' = Voted
      BY <2>1, <3>2 DEF Voted, Requests
    <3>. QED
      BY <2>1, <3>1, <3>3 DEF VotesCounted
  <2>3. CASE ServeShutdown(w)
    <3>1. votes' = votes + 1 /\ running' = (running /\ ~ EnoughVotes(votes'))
      BY <2>3 DEF ServeShutdown
    <3>2. Len(Script[c]) \in Nat /\ sent[c] = Len(Requests(c)) /\ c \notin Voted
      <4>1. /\ served[c] = Len(Script[c]) /\ sent[c] = served[c] + 1 /\ served[c] \in Nat
            /\ Len(Requests(c)) = Len(Script[c]) + 1
        BY <2>1, <2>3, ServedNext, RequestFacts DEF ServeShutdown
      <4>. QED
        BY <2>1, <4>1 DEF Voted
    <3>3. Voted' = Voted \union {c}
      BY <2>1, <3>2 DEF Voted, Requests
    <3>4. Cardinality(Voted') = Cardinality(Voted) + 1
      BY <3>2, <3>3, VotedFinite, FS_AddElement
    <3>. QED
      BY <1>0, <2>1, <3>1, <3>4, VotedFinite DEF VotesCounted, TypeOK
  <2>. QED
    BY <2>2, <2>3
<1>. QED
  BY <1>1, <1>2, <1>3, <1>4, QuietSteps

LEMMA StopsStep ==
    EverybodyVotes /\ IInv /\ IInv' /\ VotesCounted /\ VotesCounted' /\ StopsLast /\ [Next]_vars
        => StopsLast'
<1>. SUFFICES ASSUME EverybodyVotes, IInv, IInv', VotesCounted, VotesCounted', StopsLast, [Next]_vars
              PROVE  StopsLast'
  OBVIOUS
<1>0. TypeOK /\ Progress /\ TypeOK' /\ Progress'
  BY DEF IInv
<1>1. CASE Quiet
  BY <1>1 DEF Quiet, StopsLast
<1>2. ASSUME NEW c \in Clients, Send(c) PROVE StopsLast'
  BY <1>2 DEF Send, stopping, StopsLast
<1>3. CASE Exit
  BY <1>3, ExitEffect DEF StopsLast
<1>4. ASSUME NEW w \in Workers, Serve(w) PROVE StopsLast'
  <2>1. PICK c \in Clients :
             /\ InTransit(c) /\ item[w] = ItemOf(c)
             /\ \A d \in Clients : InTransit(d)' <=> InTransit(d) /\ d # c
             /\ sent' = sent /\ main' = main
             /\ served' = IF ServeShutdown(w) THEN served ELSE [served EXCEPT ![c] = @ + 1]
    BY <1>4, ServeEffect
  <2>2. CASE ~ ServeShutdown(w)
    <3>1. UNCHANGED running /\ item[w].type # "shutdown"
      BY <1>4, <2>2 DEF Serve, ServeExec, ServeCommit, stopping
    <3>2. served[c] # Len(Script[c])
      BY <2>1, <3>1, NotYetVoted
    <3>. QED
      BY <3>1, <3>2 DEF StopsLast
  <2>3. CASE ServeShutdown(w)
    <3>1. served' = served /\ running' = (running /\ ~ EnoughVotes(votes'))
      BY <2>1, <2>3 DEF ServeShutdown
    <3>2. CASE ~ running
      BY <3>1, <3>2 DEF StopsLast
    <3>3. CASE running /\ ~ running'
      <4>1. main # "exited" /\ votes' >= ExpectedShutdowns
        BY <3>1, <3>3 DEF EnoughVotes, VotesCounted
      <4>2. votes' <= Cardinality(Voted')
        BY <2>1, <4>1 DEF VotesCounted
      <4>3. Voted' \subseteq Clients /\ Cardinality(Voted') \in Nat /\ Cardinality(Clients) \in Nat
            /\ Cardinality(Voted') <= Cardinality(Clients)
        <5>1. Voted' \subseteq Clients
          BY DEF Voted
        <5>. QED
          BY <5>1, VotedFinite, FS_Subset, FS_CardinalityType
      <4>4. Cardinality(Voted') = Cardinality(Clients)
        <5>1. votes' \in Nat /\ ExpectedShutdowns \in Nat
          BY <1>0, DispatcherAssumption DEF TypeOK
        <5>. QED
          BY <4>1, <4>2, <4>3, <5>1 DEF EverybodyVotes
      <4>5. Voted' = Clients
        BY <4>3, <4>4, VotedFinite, FS_Subset
      <4>6. ASSUME NEW d \in Clients PROVE served'[d] = Len(Script[d])
        <5>1. sent'[d] = Len(Requests(d)) /\ ~ InTransit(d)'
          BY <4>5 DEF Voted, Requests
        <5>2. served'[d] = Due(d)'
          BY <1>0, <2>1, <4>1, <5>1 DEF Progress
        <5>3. Len(Requests(d)) = Len(Script[d]) + 1 /\ Len(Script[d]) \in Nat
          BY RequestFacts
        <5>4. Due(d)' = Len(Script[d])
          BY <5>1, <5>3 DEF Due
        <5>. QED
          BY <5>2, <5>4
      <4>. QED
        BY <4>6 DEF StopsLast
    <3>4. CASE running'
      BY <3>4 DEF StopsLast
    <3>. QED
      BY <3>2, <3>3, <3>4
  <2>. QED
    BY <2>2, <2>3
<1>. QED
  BY <1>1, <1>2, <1>3, <1>4, QuietSteps

LEMMA VotesInit == Init => VotesCounted /\ StopsLast
BY VotedFinite DEF Init, VotesCounted, StopsLast

\* With no more clients than votes, the server stops only after every script has
\* been carried out.  (With more clients it does not: a run shows that.)
THEOREM DispatcherStopsLast == ASSUME EverybodyVotes PROVE Spec => []StopsLast
<1>1. IInv /\ IInv' /\ VotesCounted /\ StopsLast /\ [Next]_vars => VotesCounted' /\ StopsLast'
  BY VotesStep, StopsStep
<1>. QED
  BY <1>1, VotesInit, Invariant, PTL DEF Spec

(***************************************************************************)
(* The size of the queue                                                   *)
(***************************************************************************)

\* The queue has room for every client, and when the votes are in for the
\* clients that are left and one sentinel per worker.
RoomInQueue ==
    /\ Cardinality(Clients) <= QueueCap
    /\ Cardinality(Clients) + Cardinality(Workers) <= QueueCap + ExpectedShutdowns

Queued == {c \in Clients : InQueue(c)}

\* The queue holds one item for each client in it, and sentinels, which main
\* sends when the votes are in.
QueueCounted ==
    /\ Len(queue) <= Cardinality(Queued) + sentinels
    /\ main = "accepting" => sentinels = 0
    /\ running \/ votes >= ExpectedShutdowns
    /\ main = "exited" => \A w \in Workers : pc[w] = "exited"

LEMMA QueuedFinite ==
    /\ IsFiniteSet(Queued) /\ Cardinality(Queued) \in Nat
    /\ Queued \subseteq Clients
<1>1. Queued \subseteq Clients
  BY DEF Queued
<1>. QED
  BY <1>1, VotedFinite, FS_Subset, FS_CardinalityType

LEMMA ItemFrom == \A c \in Clients : c # NoClient
BY DispatcherAssumption DEF NoClient

\* A client's item at the end of the queue.
LEMMA CountPut ==
    ASSUME queue \in Seq(Item), NEW m \in Item, queue' = Append(queue, m), QueueUnique,
           m.from \in Clients, ~ InQueue(m.from),
           Len(queue) <= Cardinality(Queued) + sentinels, sentinels \in Nat, sentinels' = sentinels
    PROVE  Len(queue') <= Cardinality(Queued') + sentinels'
<1>1. \A c \in Clients : InQueue(c)' <=> InQueue(c) \/ m.from = c
  BY PutEffect
<1>2. Queued' = Queued \union {m.from} /\ m.from \notin Queued
  BY <1>1 DEF Queued
<1>3. Cardinality(Queued') = Cardinality(Queued) + 1
  BY <1>2, QueuedFinite, FS_AddElement
<1>4. Len(queue') = Len(queue) + 1 /\ Len(queue) \in Nat
  BY AppendFacts
<1>. QED
  BY <1>3, <1>4, QueuedFinite

\* The first item leaves the queue.
LEMMA CountTake ==
    ASSUME queue \in Seq(Item), queue # << >>, queue' = Tail(queue), QueueUnique,
           Len(queue) <= Cardinality(Queued) + sentinels, sentinels \in Nat, sentinels' = sentinels
    PROVE  Len(queue') <= Cardinality(Queued') + sentinels'
<1>1. PICK m \in Item : m = Head(queue)
  BY TailFacts
<1>2. /\ \A c \in Clients : InQueue(c) <=> InQueue(c)' \/ m.from = c
      /\ m.from # NoClient => ~ InQueue(m.from)'
  BY <1>1, TakeEffect
<1>3. Len(queue') = Len(queue) - 1 /\ Len(queue) \in Nat
  BY TailFacts
<1>4. CASE m.from \notin Clients
  <2>1. Queued' = Queued
    BY <1>2, <1>4 DEF Queued
  <2>. QED
    BY <1>3, <2>1, QueuedFinite
<1>5. CASE m.from \in Clients
  <2>0. m.from # NoClient
    BY <1>5, ItemFrom
  <2>1. Queued' = Queued \ {m.from} /\ m.from \in Queued
    BY <1>2, <1>5, <2>0 DEF Queued
  <2>2. Cardinality(Queued') = Cardinality(Queued) - 1
    BY <2>1, QueuedFinite, FS_RemoveElement
  <2>. QED
    BY <1>3, <2>2, QueuedFinite
<1>. QED
  BY <1>4, <1>5

LEMMA QueueStep ==
    IInv /\ VotesCounted /\ QueueCounted /\ [Next]_vars => QueueCounted'
<1>. SUFFICES ASSUME IInv, VotesCounted, QueueCounted, [Next]_vars
              PROVE  QueueCounted'
  OBVIOUS
<1>0. /\ TypeOK /\ OnePlace /\ ItemsRight /\ QueueUnique /\ queue \in Seq(Item)
      /\ sentinels \in Nat /\ votes \in Nat /\ ExpectedShutdowns \in Nat
      /\ Len(queue) <= Cardinality(Queued) + sentinels
  <2>1. TypeOK /\ OnePlace /\ ItemsRight
    BY DEF IInv
  <2>2. Cardinality(Workers) \in Nat
    BY DispatcherAssumption, FS_CardinalityType
  <2>. QED
    BY <2>1, <2>2, DispatcherAssumption DEF TypeOK, OnePlace, QueueCounted
<1>1. queue' = queue => Queued' = Queued
  BY DEF Queued, InQueue
<1>2. CASE UNCHANGED vars
  BY <1>1, <1>2 DEF vars, stopping, QueueCounted
<1>3. ASSUME NEW c \in Clients, ClientStep(c) PROVE QueueCounted'
  <2>1. UNCHANGED <<queue, pc, votes, running, main, sentinels>>
    BY <1>3 DEF ClientStep, Connect, Send, Leave, stopping
  <2>. QED
    BY <1>1, <2>1 DEF QueueCounted
<1>4. ASSUME NEW c \in Clients, ReaderStep(c) PROVE QueueCounted'
  <2>1. UNCHANGED <<pc, votes, running, main, sentinels>>
    BY <1>4 DEF ReaderStep, ReadRequest, ReadEnd, Enqueue, ReaderCheck, stopping
  <2>2. CASE queue' = queue
    BY <1>1, <2>1, <2>2 DEF QueueCounted
  <2>3. CASE Enqueue(c)
    <3>1. /\ queue' = Append(queue, ItemOf(c)) /\ ~ InQueue(c)
      BY <1>0, <2>3 DEF Enqueue, OnePlace
    <3>2. ItemOf(c) \in Item /\ ItemOf(c).from = c
      <4>1. InTransit(c)
        BY <2>3 DEF Enqueue, InTransit
      <4>2. sent[c] \in 1 .. Len(Requests(c))
        BY <4>1, SentFacts DEF IInv
      <4>. QED
        BY <4>2, ItemFacts
    <3>3. Len(queue') <= Cardinality(Queued') + sentinels'
      BY <1>0, <2>1, <3>1, <3>2, CountPut
    <3>. QED
      BY <2>1, <3>3 DEF QueueCounted
  <2>. QED
    BY <1>4, <2>2, <2>3 DEF ReaderStep, ReadRequest, ReadEnd, ReaderCheck
<1>5. ASSUME NEW w \in Workers, WorkerStep(w) PROVE QueueCounted'
  <2>1. UNCHANGED <<main, sentinels>> /\ pc[w] # "exited"
    BY <1>5 DEF WorkerStep, Receive, Gate, Requeue, ServeExec, ServeCommit, ServeShutdown, Reply,
                WorkerCheck, stopping
  <2>2. main' # "exited"
    BY <2>1 DEF QueueCounted
  <2>3. running' \/ votes' >= ExpectedShutdowns
    <3>1. CASE ServeShutdown(w)
      <4>1. votes' = votes + 1 /\ running' = (running /\ ~ (votes' >= ExpectedShutdowns))
        BY <3>1 DEF ServeShutdown, EnoughVotes
      <4>2. running \/ votes' >= ExpectedShutdowns
        BY <1>0, <4>1 DEF QueueCounted
      <4>. QED
        BY <4>1, <4>2
    <3>2. CASE UNCHANGED <<votes, running>>
      BY <3>2 DEF QueueCounted
    <3>. QED
      BY <1>5, <3>1, <3>2 DEF WorkerStep, Receive, Gate, Requeue, ServeExec, ServeCommit, Reply,
                              WorkerCheck, stopping
  <2>4. Len(queue') <= Cardinality(Queued') + sentinels'
    <3>1. CASE queue' = queue
      BY <1>0, <1>1, <2>1, <3>1
    <3>2. CASE Receive(w)
      BY <1>0, <2>1, <3>2, CountTake DEF Receive
    <3>3. CASE Requeue(w)
      <4>1. PICK c \in Clients : item[w].from = c /\ item[w] \in Item /\ ~ InQueue(c)
        BY <1>0, <3>3 DEF Requeue, ItemsRight, TypeOK, Item, OnePlace, Held, HasItem
      <4>2. queue' = Append(queue, item[w])
        BY <3>3 DEF Requeue
      <4>. QED
        BY <1>0, <2>1, <4>1, <4>2, CountPut
    <3>. QED
      BY <1>5, <3>1, <3>2, <3>3
         DEF WorkerStep, Gate, ServeExec, ServeCommit, ServeShutdown, Reply, WorkerCheck
  <2>. QED
    BY <2>1, <2>2, <2>3, <2>4 DEF QueueCounted
<1>6. CASE StopAccepting
  BY <1>0, <1>1, <1>6 DEF StopAccepting, QueueCounted
<1>7. CASE SendSentinel
  <2>1. /\ queue' = Append(queue, Sentinel) /\ sentinels' = sentinels + 1
        /\ main = "stopping" /\ UNCHANGED <<main, votes, running, pc>>
    BY <1>7 DEF SendSentinel
  <2>2. Len(queue') = Len(queue) + 1 /\ Len(queue) \in Nat
    BY <1>0, <2>1, SentinelFacts, AppendFacts
  <2>3. \A c \in Clients : InQueue(c)' <=> InQueue(c) \/ Sentinel.from = c
    BY <1>0, <2>1, SentinelFacts, PutEffect
  <2>4. Queued' = Queued
    <3>1. \A c \in Clients : Sentinel.from # c
      BY SentinelFacts, ItemFrom
    <3>. QED
      BY <2>3, <3>1 DEF Queued
  <2>5. Len(queue') <= Cardinality(Queued') + sentinels'
    BY <1>0, <2>1, <2>2, <2>4, QueuedFinite
  <2>. QED
    BY <2>1, <2>5 DEF QueueCounted
<1>8. CASE Exit
  BY <1>0, <1>1, <1>8 DEF Exit, QueueCounted
<1>. QED
  BY <1>2, <1>3, <1>4, <1>5, <1>6, <1>7, <1>8 DEF Next, MainStep

LEMMA QueueInit == Init => QueueCounted
<1>. SUFFICES ASSUME Init PROVE QueueCounted
  OBVIOUS
<1>1. queue = << >> /\ sentinels = 0 /\ main = "accepting" /\ running
  BY DEF Init
<1>2. Len(queue) = 0
  BY <1>1
<1>. QED
  BY <1>1, <1>2, QueuedFinite DEF QueueCounted

\* The sum behind the size of the queue: s sentinels and the items of q clients,
\* where v of c clients have voted, e votes are expected, and somebody, a client
\* or main, has one item more to send.
LEMMA RoomSum ==
    ASSUME NEW l \in Nat, NEW q \in Nat, NEW s \in Nat, NEW v \in Nat, NEW c \in Nat,
           NEW e \in Nat, NEW w \in Nat, NEW cap \in Nat,
           l <= q + s, e <= v, c + w <= cap + e,
           \/ q + v < c /\ s <= w
           \/ q + v < c + 1 /\ s + 1 <= w
    PROVE  l < cap
OBVIOUS

\* While somebody has a message for the queue, those in it do not fill it.
LEMMA RoomLeft ==
    ASSUME RoomInQueue, IInv, VotesCounted, QueueCounted, main # "exited"
    PROVE  /\ \A c \in Clients : InTransit(c) /\ ~ InQueue(c) => Len(queue) < QueueCap
           /\ main = "stopping" /\ sentinels < SentinelsToSend => Len(queue) < QueueCap
<1>0. /\ Cardinality(Clients) \in Nat /\ Cardinality(Workers) \in Nat
      /\ Cardinality(Queued) \in Nat /\ Cardinality(Voted) \in Nat
      /\ Len(queue) \in Nat /\ sentinels \in 0 .. Cardinality(Workers)
      /\ votes \in Nat /\ ExpectedShutdowns \in Nat /\ QueueCap \in Nat
  <2>1. queue \in Seq(Item) /\ sentinels \in 0 .. Cardinality(Workers) /\ votes \in Nat
    BY DEF IInv, TypeOK
  <2>. QED
    BY <2>1, VotedFinite, QueuedFinite, DispatcherAssumption, FS_CardinalityType
<1>1. Cardinality(Queued \union Voted) = Cardinality(Queued) + Cardinality(Voted)
      /\ IsFiniteSet(Queued \union Voted)
  <2>1. Queued \intersect Voted = {}
    BY DEF Queued, Voted, InTransit
  <2>2. /\ IsFiniteSet(Queued \union Voted)
        /\ Cardinality(Queued \union Voted)
             = Cardinality(Queued) + Cardinality(Voted) - Cardinality(Queued \intersect Voted)
    BY QueuedFinite, VotedFinite, FS_Union
  <2>3. Cardinality(Queued \intersect Voted) = 0
    BY <2>1, FS_EmptySet
  <2>. QED
    BY <1>0, <2>2, <2>3
<1>2. main # "accepting" => ExpectedShutdowns <= Cardinality(Voted)
  <2>1. main # "accepting" => votes >= ExpectedShutdowns
    BY DEF VotesCounted, QueueCounted
  <2>2. votes <= Cardinality(Voted)
    BY DEF VotesCounted
  <2>. QED
    BY <1>0, <2>1, <2>2
<1>3. /\ Len(queue) <= Cardinality(Queued) + sentinels
      /\ main = "accepting" => sentinels = 0
      /\ Cardinality(Clients) <= QueueCap
      /\ Cardinality(Clients) + Cardinality(Workers) <= QueueCap + ExpectedShutdowns
  BY DEF QueueCounted, RoomInQueue
<1>4. ASSUME NEW c \in Clients, InTransit(c), ~ InQueue(c) PROVE Len(queue) < QueueCap
  <2>1. Cardinality(Queued) + Cardinality(Voted) < Cardinality(Clients)
    <3>1. /\ Queued \union Voted \subseteq Clients
          /\ c \notin Queued \union Voted
      BY <1>4 DEF Queued, Voted
    <3>2. /\ Cardinality(Queued \union Voted) <= Cardinality(Clients)
          /\ Cardinality(Queued \union Voted) # Cardinality(Clients)
      BY <3>1, VotedFinite, FS_Subset
    <3>. QED
      BY <1>0, <1>1, <3>2
  <2>2. CASE main = "accepting"
    BY <1>0, <1>3, <2>1, <2>2
  <2>3. CASE main # "accepting"
    <3>1. ExpectedShutdowns <= Cardinality(Voted) /\ sentinels <= Cardinality(Workers)
      BY <1>0, <1>2, <2>3
    <3>. QED
      BY <1>0, <1>3, <2>1, <3>1, RoomSum
  <2>. QED
    BY <2>2, <2>3
<1>5. ASSUME main = "stopping", sentinels < SentinelsToSend PROVE Len(queue) < QueueCap
  <2>1. Cardinality(Queued) + Cardinality(Voted) <= Cardinality(Clients)
    <3>1. Queued \union Voted \subseteq Clients
      BY DEF Queued, Voted
    <3>. QED
      BY <1>1, <3>1, VotedFinite, FS_Subset
  <2>2. ExpectedShutdowns <= Cardinality(Voted) /\ sentinels + 1 <= Cardinality(Workers)
    BY <1>0, <1>2, <1>5 DEF SentinelsToSend
  <2>3. sentinels \in Nat /\ Cardinality(Queued) + Cardinality(Voted) < Cardinality(Clients) + 1
    BY <1>0, <2>1
  <2>. QED
    BY <1>0, <1>3, <2>2, <2>3, RoomSum
<1>. QED
  BY <1>4, <1>5

\* Nobody ever blocks in mq_send, so the workers, which alone empty the queue,
\* cannot wait for themselves, if the queue has the room that the server gives it.
THEOREM DispatcherNeverFull == ASSUME RoomInQueue PROVE Spec => []NeverFull
<1>1. IInv /\ VotesCounted /\ QueueCounted => NeverFull
  <2>. SUFFICES ASSUME IInv, VotesCounted, QueueCounted PROVE NeverFull
    OBVIOUS
  <2>0. OnePlace /\ ItemsRight /\ TypeOK
    BY DEF IInv
  <2>1. ASSUME NEW c \in Clients, reader[c] = "enqueue" PROVE Len(queue) < QueueCap
    <3>1. main # "exited" /\ InTransit(c) /\ ~ InQueue(c)
      BY <2>0, <2>1 DEF ItemsRight, OnePlace, InTransit
    <3>. QED
      BY <3>1, RoomLeft
  <2>2. ASSUME NEW w \in Workers, pc[w] = "requeue" PROVE Len(queue) < QueueCap
    <3>1. PICK c \in Clients : item[w].from = c
      BY <2>0, <2>2 DEF ItemsRight, TypeOK, Item
    <3>2. main # "exited" /\ InTransit(c) /\ ~ InQueue(c)
      BY <2>0, <2>2, <3>1 DEF QueueCounted, OnePlace, InTransit, Held, HasItem
    <3>. QED
      BY <3>2, RoomLeft
  <2>3. ASSUME main = "stopping", sentinels < SentinelsToSend PROVE Len(queue) < QueueCap
    BY <2>3, RoomLeft
  <2>. QED
    BY <2>1, <2>2, <2>3 DEF NeverFull
<1>2. Init => VotesCounted /\ QueueCounted
  BY VotesInit, QueueInit
<1>3. IInv /\ IInv' /\ VotesCounted /\ QueueCounted /\ [Next]_vars
        => VotesCounted' /\ QueueCounted'
  BY VotesStep, QueueStep
<1>. QED
  BY <1>1, <1>2, <1>3, Invariant, PTL DEF Spec

(***************************************************************************)
(* The turns                                                               *)
(***************************************************************************)

\* What passed the gate may still run when it is carried out.
GateHolds ==
    \A w \in Workers :
        pc[w] = "serve" /\ item[w].type \in {"exec", "commit"} => PhaseIsReady(item[w].tid)

\* A request of a script that somebody holds has its client's id.
LEMMA HeldTid ==
    ASSUME OwnScripts, IInv, NEW c \in Clients, InTransit(c), ItemOf(c).type # "shutdown"
    PROVE  txn_client_id(ItemOf(c).tid) = c
<1>1. /\ served[c] + 1 \in 1 .. Len(Script[c])
      /\ ItemOf(c).tid = Script[c][served[c] + 1].tid
  BY ServedNext
<1>. QED
  BY <1>1 DEF OwnScripts

\* A transaction id is its client's number and its phase.
LEMMA TidParts ==
    ASSUME NEW t \in Nat, NEW u \in Nat,
           txn_client_id(t) = txn_client_id(u), txn_phase_id(t) = txn_phase_id(u)
    PROVE  t = u
<1>1. t \div 10 = u \div 10 /\ t % 10 = u % 10
  BY DEF txn_client_id, txn_phase_id
<1>. QED
  BY <1>1

\* Only the transaction that has the turn changes the turn, and no other client
\* had it.
LEMMA TurnMoves ==
    ASSUME TidsApart, IInv, NEW w \in Workers, ServeCommit(w), CommitHasTurn(item[w].tid)
    PROVE  /\ phase' \in Nat /\ phase' >= phase
           /\ \A v \in Workers :
                 pc'[v] = "serve" /\ item[v].type \in {"exec", "commit"} /\ PhaseIsReady(item[v].tid)
                    => PhaseIsReady(item[v].tid)'
<1>0. TypeOK /\ OnePlace /\ ItemsRight /\ Progress
  BY DEF IInv
<1>1. phase \in Nat /\ phase' \in Nat /\ phase' >= phase
  BY <1>0 DEF ServeCommit, TypeOK, turns
<1>2. ASSUME NEW v \in Workers, pc'[v] = "serve", item[v].type \in {"exec", "commit"},
             PhaseIsReady(item[v].tid)
      PROVE  PhaseIsReady(item[v].tid)'
  <2>1. v # w /\ pc[v] = "serve" /\ pc[w] = "serve"
    BY <1>0, <1>2 DEF ServeCommit, TypeOK
  <2>2. PICK c \in Clients : item[w].from = c /\ item[w] = ItemOf(c) /\ InTransit(c)
                             /\ \A u \in Workers : HasItem(u, c) => u = w
    BY <1>0, <2>1, WorkItem
  <2>3. PICK d \in Clients : item[v].from = d /\ item[v] = ItemOf(d) /\ InTransit(d) /\ HasItem(v, d)
    BY <1>0, <2>1, WorkItem
  <2>4. c # d
    BY <2>1, <2>2, <2>3
  <2>5. /\ served[c] + 1 \in 1 .. Len(Script[c])
        /\ item[w].tid = Script[c][served[c] + 1].tid
    BY <2>2, ServedNext DEF ServeCommit
  <2>6. /\ served[d] + 1 \in 1 .. Len(Script[d])
        /\ item[v].tid = Script[d][served[d] + 1].tid
    BY <1>2, <2>3, ServedNext
  <2>7. item[v].tid # item[w].tid
    BY <2>4, <2>5, <2>6 DEF TidsApart
  <2>8. item' = item
    BY DEF ServeCommit
  <2>9. item[v].tid \in Nat /\ item[w].tid \in Nat
    BY <1>0 DEF TypeOK, Item
  <2>10. ~ (txn_phase_id(item[v].tid) = phase /\ txn_client_id(item[v].tid) = turn)
    BY <2>7, <2>9, TidParts DEF CommitHasTurn
  <2>11. DEFINE p == txn_phase_id(item[v].tid)
  <2>12. p = 0 \/ p < phase
    BY <1>2, <2>10 DEF PhaseIsReady
  <2>13. p \in Int
    BY <2>9 DEF txn_phase_id
  <2>14. p = 0 \/ p < phase'
    <3>. HIDE DEF p
    <3>. QED
      BY <1>1, <2>12, <2>13
  <2>. QED
    BY <2>8, <2>14 DEF PhaseIsReady, txn_phase_id
<1>. QED
  BY <1>1, <1>2

LEMMA GateStep == ASSUME TidsApart PROVE IInv /\ GateHolds /\ [Next]_vars => GateHolds'
<1>. SUFFICES ASSUME IInv, GateHolds, [Next]_vars PROVE GateHolds'
  OBVIOUS
<1>0. TypeOK
  BY DEF IInv
<1>1. CASE UNCHANGED <<pc, item, phase, turn>>
  BY <1>1 DEF GateHolds, PhaseIsReady
<1>2. ASSUME NEW w \in Workers, ServeCommit(w) /\ CommitHasTurn(item[w].tid) PROVE GateHolds'
  <2>1. \A v \in Workers : item'[v] = item[v] /\ (pc'[v] = "serve" => pc[v] = "serve")
    BY <1>0, <1>2 DEF ServeCommit, TypeOK
  <2>2. \A v \in Workers :
           pc'[v] = "serve" /\ item[v].type \in {"exec", "commit"} /\ PhaseIsReady(item[v].tid)
              => PhaseIsReady(item[v].tid)'
    BY <1>2, TurnMoves
  <2>3. item' = item
    BY <1>2 DEF ServeCommit
  <2>. QED
    BY <2>1, <2>2, <2>3 DEF GateHolds, PhaseIsReady
<1>3. ASSUME NEW w \in Workers,
             UNCHANGED <<phase, turn>>,
             \A v \in Workers : v # w => pc'[v] = pc[v] /\ item'[v] = item[v],
             pc'[w] = "serve" /\ item'[w].type \in {"exec", "commit"} => PhaseIsReady(item'[w].tid)
      PROVE  GateHolds'
  BY <1>3 DEF GateHolds, PhaseIsReady
<1>4. ASSUME NEW w \in Workers, Gate(w) PROVE GateHolds'
  <2>1. UNCHANGED <<phase, turn, item>> /\ \A v \in Workers : v # w => pc'[v] = pc[v]
    BY <1>0, <1>4 DEF Gate, turns, TypeOK
  <2>2. pc'[w] = "serve" /\ item[w].type \in {"exec", "commit"} => PhaseIsReady(item[w].tid)
    BY <1>0, <1>4 DEF Gate, TypeOK
  <2>. QED
    BY <1>3, <2>1, <2>2
<1>5. ASSUME NEW w \in Workers, Receive(w) \/ Requeue(w) \/ Reply(w) \/ WorkerCheck(w)
      PROVE  GateHolds'
  <2>1. UNCHANGED <<phase, turn>> /\ pc'[w] # "serve"
        /\ \A v \in Workers : v # w => pc'[v] = pc[v] /\ item'[v] = item[v]
    BY <1>0, <1>5 DEF Receive, Requeue, AfterRequeue, Reply, WorkerCheck, turns, TypeOK
  <2>. QED
    BY <1>3, <2>1
<1>6. ASSUME NEW w \in Workers, Serve(w), ~ (ServeCommit(w) /\ CommitHasTurn(item[w].tid))
      PROVE  GateHolds'
  <2>1. UNCHANGED <<phase, turn>> /\ pc'[w] # "serve"
        /\ \A v \in Workers : v # w => pc'[v] = pc[v] /\ item'[v] = item[v]
    BY <1>0, <1>6 DEF Serve, ServeExec, ServeCommit, ServeShutdown, turns, TypeOK
  <2>. QED
    BY <1>3, <2>1
<1>7. ASSUME NEW c \in Clients,
             Connect(c) \/ Leave(c) \/ Send(c) \/ ReadRequest(c) \/ ReadEnd(c) \/ Enqueue(c)
                \/ ReaderCheck(c)
      PROVE  UNCHANGED <<pc, item, phase, turn>>
  BY <1>7 DEF Connect, Leave, Send, ReadRequest, ReadEnd, Enqueue, ReaderCheck, turns
<1>8. ASSUME StopAccepting \/ SendSentinel \/ Exit \/ UNCHANGED vars
      PROVE  UNCHANGED <<pc, item, phase, turn>>
  BY <1>8 DEF StopAccepting, SendSentinel, Exit, vars, turns
<1>. QED
  BY <1>1, <1>2, <1>4, <1>5, <1>6, <1>7, <1>8, Kinds DEF Serve

LEMMA GateInit == Init => GateHolds
BY DEF Init, GateHolds

LEMMA TurnsStep ==
    ASSUME OwnScripts
    PROVE  IInv /\ GateHolds /\ [Next]_vars => [Turns!Next]_<<served, phase, turn>>
<1>. SUFFICES ASSUME IInv, GateHolds, [Next]_vars PROVE [Turns!Next]_<<served, phase, turn>>
  OBVIOUS
<1>0. TypeOK
  BY DEF IInv
<1>1. CASE Quiet
  BY <1>1 DEF Quiet
<1>2. ASSUME NEW c \in Clients, Send(c) PROVE UNCHANGED <<served, phase, turn>>
  BY <1>2, SendEffect
<1>3. CASE Exit
  BY <1>3, ExitEffect
<1>4. ASSUME NEW w \in Workers, Serve(w)
      PROVE  [Turns!Next]_<<served, phase, turn>>
  <2>1. PICK c \in Clients :
             /\ InTransit(c) /\ item[w] = ItemOf(c)
             /\ served' = IF ServeShutdown(w) THEN served ELSE [served EXCEPT ![c] = @ + 1]
    BY <1>4, ServeEffect
  <2>2. CASE ServeShutdown(w)
    BY <2>1, <2>2 DEF ServeShutdown, turns
  <2>3. CASE ~ ServeShutdown(w)
    <3>1. PICK t \in Nat : t = item[w].tid
      BY <1>0 DEF TypeOK, Item
    <3>2. item[w].type \in {"exec", "commit"} /\ pc[w] = "serve"
      BY <1>4, <2>3 DEF Serve, ServeExec, ServeCommit
    <3>3. /\ served[c] < Len(Script[c])
          /\ item[w].type = Script[c][served[c] + 1].type
          /\ t = Script[c][served[c] + 1].tid
      BY <2>1, <3>1, <3>2, ServedNext
    <3>4. PhaseIsReady(t)
      BY <3>1, <3>2 DEF GateHolds
    <3>5. phase \in Nat \ {0} /\ turn \in 1 .. ExpectedShutdowns /\ ExpectedShutdowns \in Nat
      BY <1>0, DispatcherAssumption DEF TypeOK
    <3>6. t % 10 \in 0 .. 9
      BY <3>1
    <3>7. Turns!MayRun(t)
      BY <3>4, <3>5 DEF PhaseIsReady, txn_phase_id, txn_client_id, Turns!MayRun, Turns!HasTurn,
                        Turns!PhaseOf, Turns!ClientOf
    <3>8. txn_client_id(t) = c /\ c \in 1 .. 9
      BY <2>1, <3>1, <3>2, HeldTid, DispatcherAssumption
    <3>9. CommitHasTurn(t) <=> Turns!HasTurn(t)
      BY <3>5, <3>6, <3>8
         DEF CommitHasTurn, MaxPhases, MaxClients, txn_phase_id, txn_client_id, Turns!HasTurn,
             Turns!PhaseOf, Turns!ClientOf
    <3>10. served' = [served EXCEPT ![c] = @ + 1]
      BY <2>1, <2>3
    <3>11. IF item[w].type = "commit" /\ Turns!HasTurn(t)
           THEN Turns!PassTurn ELSE UNCHANGED <<phase, turn>>
      <4>1. CASE ServeExec(w)
        BY <4>1 DEF ServeExec, turns
      <4>2. CASE ServeCommit(w) /\ ~ CommitHasTurn(t)
        BY <3>1, <3>9, <4>2 DEF ServeCommit, turns
      <4>3. CASE ServeCommit(w) /\ CommitHasTurn(t)
        <5>1. turn' = NextTurn(turn) /\ phase' = IF turn' = 1 THEN phase + 1 ELSE phase
          BY <3>1, <4>3 DEF ServeCommit
        <5>2. Turns!PassTurn
          BY <3>5, <5>1 DEF NextTurn, Turns!PassTurn
        <5>. QED
          BY <3>9, <4>3, <5>2 DEF ServeCommit
      <4>. QED
        BY <1>4, <2>3, <4>1, <4>2, <4>3 DEF Serve
    <3>12. Turns!Serve(c)
      BY <3>3, <3>7, <3>10, <3>11 DEF Turns!Serve
    <3>. QED
      BY <3>12 DEF Turns!Next
  <2>. QED
    BY <2>2, <2>3
<1>. QED
  BY <1>1, <1>2, <1>3, <1>4, QuietSteps

\* Sockets, readers, the queue that requests are put back into, the pool of
\* workers and the gate together let the clients take turns, if each client
\* sends transactions of its own.
THEOREM DispatcherTakesTurns == ASSUME OwnScripts PROVE Spec => ImplementsTurnTaking
<1>1. Init => Turns!Init
  BY DEF Init, Turns!Init
<1>2. IInv /\ GateHolds /\ [Next]_vars => GateHolds'
  BY GateStep, OwnTids
<1>3. IInv /\ GateHolds /\ [Next]_vars => [Turns!Next]_<<served, phase, turn>>
  BY TurnsStep
<1>. QED
  BY <1>1, <1>2, <1>3, GateInit, Invariant, PTL DEF Spec, ImplementsTurnTaking, Turns!Spec
=============================================================================

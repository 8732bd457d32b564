------------------------- MODULE ConnectionsProofs -------------------------
(***************************************************************************)
(* Theorems about Connections, for any clients, any of which may be        *)
(* killed, and any number of requests.                                     *)
(***************************************************************************)
EXTENDS Connections, TLAPS, FiniteSetTheorems

(***************************************************************************)
(* The connections of the database server                                  *)
(***************************************************************************)
Shape == TypeOK /\ OpenWhileRead /\ OneOwnerEach /\ ReadersFollow

(***************************************************************************)
(* Types, descriptors and readers                                          *)
(***************************************************************************)

\* In the first state nothing is open and nothing is owed.
LEMMA ShapeInit == Init => Shape
  BY ConnectionsAssumption
     DEF Init, Shape, TypeOK, OpenWhileRead, OneOwnerEach, ReadersFollow, Descriptors, None

\* What a client sends, and what it takes, is a request.
LEMMA RequestTypes ==
  ASSUME Shape, NEW c \in Clients
  PROVE  /\ client[c] = "waiting" => Last(c) \in Requests
         /\ reader[c] = "enqueue" => [from |-> c, n |-> read[c]] \in Requests
         /\ inbox[c] # << >> => Head(inbox[c]) \in Requests /\ Tail(inbox[c]) \in Seq(Requests)
         /\ fd[c] # None => fd[c] \in Descriptors
         /\ None \notin Descriptors
<1>1. client[c] = "waiting" => Last(c) \in Requests
  BY ConnectionsAssumption DEF Shape, TypeOK, ReadersFollow, Requests, Last
<1>2. reader[c] = "enqueue" => [from |-> c, n |-> read[c]] \in Requests
  BY ConnectionsAssumption DEF Shape, TypeOK, ReadersFollow, Requests
<1>3. inbox[c] # << >> => Head(inbox[c]) \in Requests /\ Tail(inbox[c]) \in Seq(Requests)
  <2>1. inbox[c] \in Seq(Requests)
    BY DEF Shape, TypeOK
  <2> QED BY <2>1
<1>4. fd[c] # None => fd[c] \in Descriptors
  BY DEF Shape, TypeOK
<1>5. None \notin Descriptors
  BY DEF Descriptors, None
<1> QED BY <1>1, <1>2, <1>3, <1>4, <1>5

\* A step keeps types, and what ties descriptors to readers and readers to clients.
LEMMA ShapeStep == Shape /\ [Next]_vars => Shape'
<1> SUFFICES ASSUME Shape, [Next]_vars PROVE Shape'
  OBVIOUS
<1> USE ConnectionsAssumption
<1>1. ASSUME NEW c \in Clients, Connect(c) PROVE Shape'
  BY <1>1 DEF Connect, Shape, TypeOK, OpenWhileRead, OneOwnerEach, ReadersFollow, Ended, None, Descriptors
<1>2. ASSUME NEW c \in Clients, Ask(c) PROVE Shape'
  BY <1>2 DEF Ask, Shape, TypeOK, OpenWhileRead, OneOwnerEach, ReadersFollow, Ended
<1>3. ASSUME NEW c \in Clients, TakeAnswer(c) PROVE Shape'
  <2>1. Last(c) \in Requests /\ Head(inbox[c]) \in Requests /\ Tail(inbox[c]) \in Seq(Requests)
    BY <1>3, RequestTypes DEF TakeAnswer
  <2>2. TypeOK'
    BY <1>3, <2>1 DEF TakeAnswer, Shape, TypeOK
  <2> QED BY <1>3, <2>2 DEF TakeAnswer, Shape, TypeOK, OpenWhileRead, OneOwnerEach, ReadersFollow, Ended
<1>4. ASSUME NEW c \in Clients, Leave(c) PROVE Shape'
  BY <1>4 DEF Leave, Shape, TypeOK, OpenWhileRead, OneOwnerEach, ReadersFollow, Ended
<1>5. ASSUME NEW c \in Clients, Die(c) PROVE Shape'
  BY <1>5 DEF Die, Shape, TypeOK, OpenWhileRead, OneOwnerEach, ReadersFollow, Ended
<1>6. ASSUME NEW c \in Clients, ReadRequest(c) PROVE Shape'
  BY <1>6 DEF ReadRequest, Arrived, Shape, TypeOK, OpenWhileRead, OneOwnerEach, ReadersFollow, Ended
<1>7. ASSUME NEW c \in Clients, ReadEnd(c) PROVE Shape'
  BY <1>7 DEF ReadEnd, Shape, TypeOK, OpenWhileRead, OneOwnerEach, ReadersFollow, Ended, None
<1>8. ASSUME NEW c \in Clients, Enqueue(c) PROVE Shape'
  <2>1. [from |-> c, n |-> read[c]] \in Requests /\ fd[c] \in Descriptors
    BY <1>8, RequestTypes DEF Enqueue, Shape, OpenWhileRead
  <2>2. TypeOK'
    BY <1>8, <2>1 DEF Enqueue, PassOn, Shape, TypeOK
  <2> QED BY <1>8, <2>2 DEF Enqueue, PassOn, Shape, TypeOK, OpenWhileRead, OneOwnerEach, ReadersFollow, Ended
<1>9. ASSUME NEW i \in owed, Answer(i) PROVE Shape'
  <2>1. \A c \in Clients : Append(inbox[c], i.request) \in Seq(Requests)
    BY DEF Shape, TypeOK
  <2>2. TypeOK'
    BY <1>9, <2>1 DEF Answer, Done, Shape, TypeOK
  <2> QED BY <1>9, <2>2 DEF Answer, Shape, TypeOK, OpenWhileRead, OneOwnerEach, ReadersFollow, Ended
<1>10. CASE UNCHANGED vars
  BY <1>10 DEF vars, Shape, TypeOK, OpenWhileRead, OneOwnerEach, ReadersFollow, Ended
<1> QED
  BY <1>1, <1>2, <1>3, <1>4, <1>5, <1>6, <1>7, <1>8, <1>9, <1>10 DEF Next, ClientStep, ReaderStep

\* TypeOK: every variable keeps to its range, for any clients.
THEOREM ConnectionsTypeCorrect == Spec => []TypeOK
<1>1. Spec => []Shape
  BY ShapeInit, ShapeStep, PTL DEF Spec
<1> QED BY <1>1, PTL DEF Shape

(***************************************************************************)
(* Answers in a stranger's socket                                          *)
(***************************************************************************)
Owed == Shape /\ OwedInTheOpen /\ LivingKeepTheirAnswers

LEMMA OwedInit == Init => OwedInTheOpen /\ LivingKeepTheirAnswers
  BY DEF Init, OwedInTheOpen, LivingKeepTheirAnswers

\* Whoever has the descriptor of an item whose client lives is that client.
LEMMA AnswerFinds ==
  ASSUME Owed, NEW i \in owed, ~ Ended(i.request.from), NEW c \in Clients, fd[c] = i.client_fd
  PROVE  c = i.request.from
<1>1. i.request.from \in Clients /\ i.client_fd \in Descriptors
  BY DEF Owed, Shape, TypeOK, Requests
<1>2. fd[i.request.from] = i.client_fd
  BY DEF Owed, OwedInTheOpen
<1>3. fd[c] # None
  BY <1>1, RequestTypes DEF Owed
<1> QED BY <1>1, <1>2, <1>3 DEF Owed, Shape, OneOwnerEach

LEMMA OwedStep == Owed /\ [Next]_vars => (OwedInTheOpen /\ LivingKeepTheirAnswers)'
<1> SUFFICES ASSUME Owed, [Next]_vars PROVE (OwedInTheOpen /\ LivingKeepTheirAnswers)'
  OBVIOUS
<1>t. /\ client \in [Clients -> {"outside", "ready", "waiting", "gone", "killed"}]
      /\ fd \in [Clients -> Descriptors \union {None}]
      /\ inbox \in [Clients -> Seq(Requests)]
      /\ \A i \in owed : i.request \in Requests /\ i.client_fd \in Descriptors
      /\ \A r \in Requests : r.from \in Clients
  BY DEF Owed, Shape, TypeOK, Requests
<1>1. ASSUME NEW c \in Clients, Connect(c) PROVE (OwedInTheOpen /\ LivingKeepTheirAnswers)'
  <2>1. \A i \in owed : i.request.from # c
    <3> SUFFICES ASSUME NEW i \in owed, i.request.from = c PROVE FALSE
      OBVIOUS
    <3>1. fd[c] = i.client_fd /\ i.client_fd # None
      BY <1>1, <1>t, RequestTypes DEF Connect, Ended, Owed, OwedInTheOpen
    <3>2. reader[c] \in {"recv", "enqueue"}
      BY <3>1 DEF Owed, Shape, OpenWhileRead
    <3> QED BY <1>1, <3>2 DEF Connect, Owed, Shape, ReadersFollow
  <2> QED BY <1>1, <1>t, <2>1 DEF Connect, Owed, OwedInTheOpen, LivingKeepTheirAnswers, Ended
<1>2. ASSUME NEW c \in Clients, Ask(c) PROVE (OwedInTheOpen /\ LivingKeepTheirAnswers)'
  BY <1>2, <1>t DEF Ask, Owed, OwedInTheOpen, LivingKeepTheirAnswers, Ended
<1>3. ASSUME NEW c \in Clients, TakeAnswer(c) PROVE (OwedInTheOpen /\ LivingKeepTheirAnswers)'
  <2>1. OwedInTheOpen'
    BY <1>3, <1>t DEF TakeAnswer, Owed, OwedInTheOpen, Ended
  <2>2. \A k \in DOMAIN Tail(inbox[c]) :
           k + 1 \in DOMAIN inbox[c] /\ Tail(inbox[c])[k] = inbox[c][k + 1]
    BY <1>3, <1>t DEF TakeAnswer
  <2>3. \A d \in Clients : Ended(d)' <=> Ended(d)
    BY <1>3, <1>t DEF TakeAnswer, Ended
  <2>4. ASSUME NEW d \in Clients, NEW k \in DOMAIN inbox'[d], inbox'[d][k].from # d
        PROVE  Ended(inbox'[d][k].from)
    <3>1. CASE d = c
      BY <1>3, <1>t, <2>2, <2>4, <3>1 DEF TakeAnswer, Owed, LivingKeepTheirAnswers
    <3>2. CASE d # c
      BY <1>3, <1>t, <2>4, <3>2 DEF TakeAnswer, Owed, LivingKeepTheirAnswers
    <3> QED BY <3>1, <3>2
  <2>5. \A d \in Clients : \A k \in DOMAIN inbox'[d] : inbox'[d][k].from \in Clients
    <3>1. inbox' \in [Clients -> Seq(Requests)]
      BY <1>3, <1>t, RequestTypes DEF TakeAnswer, Owed
    <3> QED BY <3>1, <1>t
  <2> QED BY <2>1, <2>3, <2>4, <2>5 DEF LivingKeepTheirAnswers
<1>4. ASSUME NEW c \in Clients, Leave(c) PROVE (OwedInTheOpen /\ LivingKeepTheirAnswers)'
  BY <1>4, <1>t DEF Leave, Owed, OwedInTheOpen, LivingKeepTheirAnswers, Ended
<1>5. ASSUME NEW c \in Clients, Die(c) PROVE (OwedInTheOpen /\ LivingKeepTheirAnswers)'
  BY <1>5, <1>t DEF Die, Owed, OwedInTheOpen, LivingKeepTheirAnswers, Ended
<1>6. ASSUME NEW c \in Clients, ReadRequest(c) PROVE (OwedInTheOpen /\ LivingKeepTheirAnswers)'
  BY <1>6, <1>t DEF ReadRequest, Owed, OwedInTheOpen, LivingKeepTheirAnswers, Ended
<1>7. ASSUME NEW c \in Clients, ReadEnd(c) PROVE (OwedInTheOpen /\ LivingKeepTheirAnswers)'
  BY <1>7, <1>t DEF ReadEnd, Owed, OwedInTheOpen, LivingKeepTheirAnswers, Ended
<1>8. ASSUME NEW c \in Clients, Enqueue(c) PROVE (OwedInTheOpen /\ LivingKeepTheirAnswers)'
  BY <1>8, <1>t DEF Enqueue, PassOn, Owed, OwedInTheOpen, LivingKeepTheirAnswers, Ended
<1>9. ASSUME NEW i \in owed, Answer(i) PROVE (OwedInTheOpen /\ LivingKeepTheirAnswers)'
  <2>1. OwedInTheOpen'
    BY <1>9, <1>t DEF Answer, Done, Owed, OwedInTheOpen, Ended
  <2>2. \A d \in Clients : Ended(d)' <=> Ended(d)
    BY <1>9, <1>t DEF Answer, Ended
  <2>3. ASSUME NEW d \in Clients, NEW k \in DOMAIN inbox'[d], inbox'[d][k].from # d
        PROVE  Ended(inbox'[d][k].from) /\ inbox'[d][k].from \in Clients
    <3>1. CASE k \in DOMAIN inbox[d] /\ inbox'[d][k] = inbox[d][k]
      BY <1>t, <2>3, <3>1 DEF Owed, LivingKeepTheirAnswers
    <3>2. CASE fd[d] = i.client_fd /\ inbox'[d][k] = i.request
      BY <1>t, <2>3, <3>2, AnswerFinds
    <3>3. \/ k \in DOMAIN inbox[d] /\ inbox'[d][k] = inbox[d][k]
          \/ fd[d] = i.client_fd /\ inbox'[d][k] = i.request
      BY <1>9, <1>t DEF Answer
    <3> QED BY <3>1, <3>2, <3>3
  <2> QED BY <2>1, <2>2, <2>3 DEF LivingKeepTheirAnswers
<1>10. CASE UNCHANGED vars
  BY <1>10 DEF vars, Owed, OwedInTheOpen, LivingKeepTheirAnswers, Ended
<1> QED
  BY <1>1, <1>2, <1>3, <1>4, <1>5, <1>6, <1>7, <1>8, <1>9, <1>10 DEF Next, ClientStep, ReaderStep

LEMMA OwedAlways == Spec => []Owed
<1>1. Init => Owed
  BY ShapeInit, OwedInit DEF Owed
<1>2. Owed /\ [Next]_vars => Owed'
  BY ShapeStep, OwedStep DEF Owed
<1> QED BY <1>1, <1>2, PTL DEF Spec

\* LivingKeepTheirAnswers: an answer in a stranger's socket is for a client that has
\* ended, for any clients, any of which may be killed at any moment.
THEOREM ConnectionsLivingKeepTheirAnswers == Spec => []LivingKeepTheirAnswers
  BY OwedAlways, PTL DEF Owed

(***************************************************************************)
(* One request at a time, while nobody has been killed                     *)
(***************************************************************************)
Mine(c) == {i \in owed : i.request.from = c}

LEMMA InStepInit == Init => AllInStep
  BY DEF Init, AllInStep, AnswersOwn, InStep

\* A step that is not about d leaves d where it is.
LEMMA InStepSame ==
  ASSUME NEW d \in Clients, InStep(d), Mine(d)' = Mine(d),
         client'[d] = client[d], asked'[d] = asked[d], reader'[d] = reader[d],
         read'[d] = read[d], inbox'[d] = inbox[d]
  PROVE  InStep(d)'
<1>1. Last(d)' = Last(d)
  BY DEF Last
<1>2. ASSUME NEW i \in owed, Mine(d) = {i} PROVE i \in owed'
  BY <1>2 DEF Mine
<1> QED BY <1>1, <1>2 DEF InStep, Mine

LEMMA InStepStep == Owed /\ AllInStep /\ [Next]_vars => AllInStep'
<1> SUFFICES ASSUME Owed, AllInStep, [Next]_vars, NobodyKilled'
             PROVE  AnswersOwn' /\ \A c \in Clients : InStep(c)'
  BY DEF AllInStep
<1>t. /\ client \in [Clients -> {"outside", "ready", "waiting", "gone", "killed"}]
      /\ asked \in [Clients -> 0 .. MaxRequests]
      /\ fd \in [Clients -> Descriptors \union {None}]
      /\ reader \in [Clients -> {"none", "recv", "enqueue", "closed"}]
      /\ read \in [Clients -> 0 .. MaxRequests]
      /\ inbox \in [Clients -> Seq(Requests)]
      /\ \A i \in owed : i.request \in Requests /\ i.client_fd \in Descriptors
      /\ \A r \in Requests : r.from \in Clients
      /\ MaxRequests \in Nat
  BY ConnectionsAssumption DEF Owed, Shape, TypeOK, Requests
<1>0. NobodyKilled
  BY <1>t DEF NobodyKilled, Next, vars, ClientStep, ReaderStep, Connect, Ask, TakeAnswer, Leave,
              Die, ReadRequest, ReadEnd, Enqueue, Answer
<1>i. AnswersOwn /\ \A c \in Clients : InStep(c)
  BY <1>0 DEF AllInStep
<1>1. ASSUME NEW c \in Clients, Connect(c) PROVE AnswersOwn' /\ \A d \in Clients : InStep(d)'
  <2>1. InStep(c)'
    <3>1. InStep(c) /\ client[c] = "outside"
      BY <1>1, <1>i DEF Connect
    <3> QED BY <1>1, <1>t, <3>1 DEF Connect, InStep
  <2>2. ASSUME NEW d \in Clients, d # c PROVE InStep(d)'
    BY <1>1, <1>t, <1>i, <2>2, InStepSame DEF Connect, Mine
  <2> QED BY <1>1, <1>i, <2>1, <2>2 DEF Connect, AnswersOwn
<1>2. ASSUME NEW c \in Clients, Ask(c) PROVE AnswersOwn' /\ \A d \in Clients : InStep(d)'
  <2>1. InStep(c)'
    <3>1. InStep(c) /\ client[c] = "ready" /\ reader[c] = "recv"
      BY <1>2, <1>t, <1>i DEF Ask, InStep, Owed, Shape, ReadersFollow, Ended
    <3> QED BY <1>2, <1>t, <3>1 DEF Ask, InStep
  <2>2. ASSUME NEW d \in Clients, d # c PROVE InStep(d)'
    BY <1>2, <1>t, <1>i, <2>2, InStepSame DEF Ask, Mine
  <2> QED BY <1>2, <1>i, <2>1, <2>2 DEF Ask, AnswersOwn
<1>3. ASSUME NEW c \in Clients, TakeAnswer(c) PROVE AnswersOwn' /\ \A d \in Clients : InStep(d)'
  <2>1. /\ read[c] = asked[c] /\ reader[c] = "recv" /\ inbox[c] = <<Last(c)>>
        /\ {i \in owed : i.request.from = c} = {}
    BY <1>3, <1>i DEF TakeAnswer, InStep
  <2>2. Head(inbox[c]) = Last(c) /\ Tail(inbox[c]) = << >>
    BY <2>1
  <2>3. InStep(c)'
    BY <1>3, <1>t, <2>1, <2>2 DEF TakeAnswer, InStep
  <2>4. ASSUME NEW d \in Clients, d # c PROVE InStep(d)'
    BY <1>3, <1>t, <1>i, <2>4, InStepSame DEF TakeAnswer, Mine
  <2>5. AnswersOwn'
    BY <1>3, <1>i, <2>2 DEF TakeAnswer, AnswersOwn
  <2> QED BY <2>3, <2>4, <2>5
<1>4. ASSUME NEW c \in Clients, Leave(c) PROVE AnswersOwn' /\ \A d \in Clients : InStep(d)'
  <2>1. InStep(c)'
    <3>1. InStep(c) /\ client[c] = "ready"
      BY <1>4, <1>i DEF Leave
    <3> QED BY <1>4, <1>t, <3>1 DEF Leave, InStep
  <2>2. ASSUME NEW d \in Clients, d # c PROVE InStep(d)'
    BY <1>4, <1>t, <1>i, <2>2, InStepSame DEF Leave, Mine
  <2> QED BY <1>4, <1>i, <2>1, <2>2 DEF Leave, AnswersOwn
<1>5. ASSUME NEW c \in Clients, Die(c) PROVE FALSE
  BY <1>5, <1>t DEF Die, NobodyKilled
<1>6. ASSUME NEW c \in Clients, ReadRequest(c) PROVE AnswersOwn' /\ \A d \in Clients : InStep(d)'
  <2>1. InStep(c)'
    <3>1. InStep(c) /\ reader[c] = "recv" /\ read[c] < asked[c]
      BY <1>6, <1>i DEF ReadRequest, Arrived
    <3>2. /\ client[c] = "waiting" /\ read[c] = asked[c] - 1 /\ inbox[c] = << >>
          /\ {i \in owed : i.request.from = c} = {}
      BY <3>1, <1>t DEF InStep
    <3> QED BY <1>6, <1>t, <3>2 DEF ReadRequest, InStep
  <2>2. ASSUME NEW d \in Clients, d # c PROVE InStep(d)'
    BY <1>6, <1>t, <1>i, <2>2, InStepSame DEF ReadRequest, Mine
  <2> QED BY <1>6, <1>i, <2>1, <2>2 DEF ReadRequest, AnswersOwn
<1>7. ASSUME NEW c \in Clients, ReadEnd(c) PROVE AnswersOwn' /\ \A d \in Clients : InStep(d)'
  <2>1. InStep(c)'
    <3>1. InStep(c) /\ client[c] # "waiting"
      BY <1>7, <1>i DEF ReadEnd, Ended
    <3> QED BY <1>7, <1>t, <3>1 DEF ReadEnd, InStep
  <2>2. ASSUME NEW d \in Clients, d # c PROVE InStep(d)'
    BY <1>7, <1>t, <1>i, <2>2, InStepSame DEF ReadEnd, Mine
  <2> QED BY <1>7, <1>i, <2>1, <2>2 DEF ReadEnd, AnswersOwn
<1>8. ASSUME NEW c \in Clients, Enqueue(c) PROVE AnswersOwn' /\ \A d \in Clients : InStep(d)'
  <2> DEFINE new == [request |-> [from |-> c, n |-> read[c]], client_fd |-> fd[c]]
  <2>1. /\ client[c] = "waiting" /\ read[c] = asked[c] /\ inbox[c] = << >>
        /\ {i \in owed : i.request.from = c} = {}
    BY <1>8, <1>i DEF Enqueue, InStep
  <2>2. owed' = owed \union {new} /\ new.request = Last(c) /\ new.request.from = c
    BY <1>8, <2>1 DEF Enqueue, Last
  <2>3. {i \in owed' : i.request.from = c} = {new} /\ new \in owed'
    BY <2>1, <2>2
  <2>4. Last(c)' = Last(c)
    BY <1>8 DEF Enqueue, Last
  <2>5. InStep(c)'
    <3>1. /\ client'[c] = "waiting" /\ read'[c] = asked'[c] /\ reader'[c] = "recv"
          /\ inbox'[c] = << >>
      BY <1>8, <1>t, <2>1 DEF Enqueue, PassOn
    <3>2. \E i \in owed' : i.request = Last(c)' /\ {j \in owed' : j.request.from = c} = {i}
      BY <2>2, <2>3, <2>4
    <3> QED BY <3>1, <3>2 DEF InStep
  <2>6. ASSUME NEW d \in Clients, d # c PROVE InStep(d)'
    <3>1. Mine(d)' = Mine(d)
      BY <2>2, <2>6 DEF Mine
    <3> QED BY <1>8, <1>t, <1>i, <2>6, <3>1, InStepSame DEF Enqueue, PassOn
  <2> QED BY <1>8, <1>i, <2>5, <2>6 DEF Enqueue, AnswersOwn
<1>9. ASSUME NEW i \in owed, Answer(i) PROVE AnswersOwn' /\ \A d \in Clients : InStep(d)'
  <2> DEFINE c == i.request.from
  <2>1. c \in Clients
    BY <1>t
  <2>2. /\ client[c] = "waiting" /\ read[c] = asked[c] /\ reader[c] = "recv" /\ inbox[c] = << >>
        /\ i.request = Last(c) /\ {j \in owed : j.request.from = c} = {i}
    BY <1>i, <2>1 DEF InStep
  <2>3. ~ Ended(c) /\ fd[c] = i.client_fd
    BY <2>2 DEF Ended, Owed, OwedInTheOpen
  <2>4. \A d \in Clients : fd[d] = i.client_fd => d = c
    BY <2>3, AnswerFinds
  <2>5. owed' = owed \ {i}
    BY <1>9 DEF Answer, Done
  <2>6. InStep(c)'
    <3>1. inbox'[c] = <<Last(c)>>
      <4>1. inbox'[c] = Append(inbox[c], i.request)
        BY <1>9, <2>1, <2>3 DEF Answer
      <4>2. \A r : Append(<< >>, r) = <<r>>
        OBVIOUS
      <4> QED BY <2>2, <4>1, <4>2
    <3>2. {j \in owed' : j.request.from = c} = {}
      BY <2>2, <2>5
    <3>3. Last(c)' = Last(c)
      BY <1>9 DEF Answer, Last
    <3> QED BY <1>9, <2>2, <3>1, <3>2, <3>3 DEF Answer, InStep
  <2>7. ASSUME NEW d \in Clients, d # c PROVE InStep(d)'
    <3>1. Mine(d)' = Mine(d)
      BY <2>5, <2>7 DEF Mine
    <3> QED BY <1>9, <1>i, <2>4, <2>7, <3>1, InStepSame DEF Answer
  <2> QED BY <1>9, <1>i, <2>6, <2>7 DEF Answer, AnswersOwn
<1>10. CASE UNCHANGED vars
  BY <1>10, <1>i, InStepSame DEF vars, Mine, AnswersOwn
<1> QED
  BY <1>1, <1>2, <1>3, <1>4, <1>5, <1>6, <1>7, <1>8, <1>9, <1>10 DEF Next, ClientStep, ReaderStep

\* InStepUntilKilled: while nobody has been killed, everybody receives the own answers
\* and has one request in the server at most, however descriptors pass on.
THEOREM ConnectionsInStep == Spec => []InStepUntilKilled
<1>1. Spec => []AllInStep
  BY InStepInit, InStepStep, OwedAlways, PTL DEF Spec
<1>2. Owed /\ AllInStep => InStepUntilKilled
  <2> SUFFICES ASSUME Owed, AllInStep, NobodyKilled
               PROVE  \A i, j \in owed : i.request.from = j.request.from => i = j
    BY DEF AllInStep, InStepUntilKilled
  <2> TAKE i, j \in owed
  <2>1. i.request.from \in Clients
    BY DEF Owed, Shape, TypeOK, Requests
  <2> QED BY <2>1 DEF AllInStep, InStep
<1> QED BY <1>1, <1>2, OwedAlways, PTL

(***************************************************************************)
(* No answer twice, none from the future                                   *)
(***************************************************************************)
EachOnce == PassedOnly /\ OwedOnce /\ InboxOnce /\ GotOnce /\ PlacesApart /\ NoneFromTheFuture

LEMMA EachOnceInit == Init => EachOnce
  BY DEF Init, EachOnce, PassedOnly, OwedOnce, InboxOnce, GotOnce, PlacesApart, NoneFromTheFuture

\* A step that leaves owed, the sockets and what was taken alone, or a socket that is
\* emptied, leaves each request in at most one place.
LEMMA EachOnceSame ==
  ASSUME EachOnce, owed' = owed, got' = got,
         \A d \in Clients : inbox'[d] = inbox[d] \/ inbox'[d] = << >>,
         \A r \in Requests : Passed(r) => Passed(r)', TypeOK
  PROVE  EachOnce'
<1>t. /\ \A i \in owed : i.request \in Requests
      /\ \A c \in Clients : \A k \in DOMAIN inbox[c] : inbox[c][k] \in Requests
      /\ \A a \in got : a.answer \in Requests
  BY DEF TypeOK
<1>1. \A d \in Clients : \A k \in DOMAIN inbox'[d] : k \in DOMAIN inbox[d] /\ inbox'[d][k] = inbox[d][k]
  OBVIOUS
<1>2. PassedOnly'
  BY <1>t, <1>1 DEF EachOnce, PassedOnly
<1>3. InboxOnce'
  BY <1>1 DEF EachOnce, InboxOnce
<1>4. PlacesApart'
  BY <1>1 DEF EachOnce, PlacesApart
<1> QED BY <1>2, <1>3, <1>4 DEF EachOnce, OwedOnce, GotOnce, NoneFromTheFuture

LEMMA EachOnceStep == Owed /\ EachOnce /\ [Next]_vars => EachOnce'
<1> SUFFICES ASSUME Owed, EachOnce, [Next]_vars PROVE EachOnce'
  OBVIOUS
<1>t. /\ client \in [Clients -> {"outside", "ready", "waiting", "gone", "killed"}]
      /\ asked \in [Clients -> 0 .. MaxRequests]
      /\ fd \in [Clients -> Descriptors \union {None}]
      /\ reader \in [Clients -> {"none", "recv", "enqueue", "closed"}]
      /\ read \in [Clients -> 0 .. MaxRequests]
      /\ inbox \in [Clients -> Seq(Requests)]
      /\ \A i \in owed : i.request \in Requests /\ i.client_fd \in Descriptors
      /\ \A a \in got : a.answer \in Requests /\ a.by \in Requests
      /\ TypeOK
  BY DEF Owed, Shape, TypeOK
<1>n. /\ \A r \in Requests : r.from \in Clients /\ r.n \in Nat
      /\ \A c \in Clients : read[c] \in Nat /\ asked[c] \in Nat
      /\ MaxRequests \in Nat
  <2>1. MaxRequests \in Nat
    BY ConnectionsAssumption
  <2>2. \A r \in Requests : r.from \in Clients /\ r.n \in 1 .. MaxRequests
    BY DEF Requests
  <2> QED BY <1>t, <2>1, <2>2
<1>1. ASSUME NEW c \in Clients, Connect(c) PROVE EachOnce'
  <2>1. \A r \in Requests : Passed(r) => Passed(r)'
    BY <1>1, <1>t, <1>n DEF Connect, Passed
  <2> QED BY <1>1, <1>t, <2>1, EachOnceSame DEF Connect
<1>2. ASSUME NEW c \in Clients, Ask(c) PROVE EachOnce'
  <2>1. \A r \in Requests : Passed(r) => Passed(r)'
    BY <1>2, <1>t DEF Ask, Passed
  <2> QED BY <1>2, <1>t, <2>1, EachOnceSame DEF Ask
<1>3. ASSUME NEW c \in Clients, TakeAnswer(c) PROVE EachOnce'
  <2> DEFINE new == [by |-> Last(c), answer |-> Head(inbox[c])]
  <2>1. /\ 1 \in DOMAIN inbox[c] /\ inbox[c][1] = new.answer
        /\ \A k \in DOMAIN Tail(inbox[c]) :
              k # 0 /\ k + 1 \in DOMAIN inbox[c] /\ Tail(inbox[c])[k] = inbox[c][k + 1]
        /\ \A k \in DOMAIN inbox[c] : k \in Nat
        /\ \A k \in DOMAIN Tail(inbox[c]) : k \in Nat
    BY <1>3, <1>t DEF TakeAnswer
  <2>2. /\ got' = got \union {new} /\ owed' = owed
        /\ inbox'[c] = Tail(inbox[c])
        /\ \A d \in Clients : d # c => inbox'[d] = inbox[d]
    <3>1. got' = got \union {new} /\ owed' = owed
      BY <1>3 DEF TakeAnswer
    <3>2. inbox' = [inbox EXCEPT ![c] = Tail(inbox[c])]
      BY <1>3 DEF TakeAnswer
    <3> QED BY <1>t, <3>1, <3>2
  <2>3. \A r : Passed(r)' <=> Passed(r)
    BY <1>3 DEF TakeAnswer, Passed
  <2>4. \A d \in Clients : \A k \in DOMAIN inbox'[d] :
           \E l \in DOMAIN inbox[d] : inbox'[d][k] = inbox[d][l]
                                      /\ (d = c => l = k + 1) /\ (d # c => l = k)
    BY <2>1, <2>2
  <2>5. PassedOnly'
    <3>1. Passed(new.answer)
      BY <2>1 DEF EachOnce, PassedOnly
    <3>2. \A a \in got' : Passed(a.answer)
      BY <2>2, <3>1 DEF EachOnce, PassedOnly
    <3>3. \A d \in Clients : \A k \in DOMAIN inbox'[d] : Passed(inbox'[d][k])
      BY <2>4 DEF EachOnce, PassedOnly
    <3> QED BY <2>2, <2>3, <3>2, <3>3 DEF EachOnce, PassedOnly
  <2>6. OwedOnce'
    BY <2>2 DEF EachOnce, OwedOnce
  <2>7. InboxOnce'
    <3> SUFFICES ASSUME NEW d \in Clients, NEW e \in Clients,
                        NEW k \in DOMAIN inbox'[d], NEW l \in DOMAIN inbox'[e],
                        inbox'[d][k] = inbox'[e][l]
                 PROVE  d = e /\ k = l
      BY DEF InboxOnce
    <3>1. PICK m \in DOMAIN inbox[d] : inbox'[d][k] = inbox[d][m]
                                       /\ (d = c => m = k + 1) /\ (d # c => m = k)
      BY <2>4
    <3>2. PICK n \in DOMAIN inbox[e] : inbox'[e][l] = inbox[e][n]
                                       /\ (e = c => n = l + 1) /\ (e # c => n = l)
      BY <2>4
    <3>3. d = e /\ m = n
      <4>1. inbox[d][m] = inbox[e][n]
        BY <3>1, <3>2
      <4>2. InboxOnce
        BY DEF EachOnce
      <4> QED BY <4>1, <4>2 DEF InboxOnce
    <3>4. CASE d = c
      <4>1. k \in Nat /\ l \in Nat
        BY <2>1, <2>2, <3>3, <3>4
      <4> QED BY <3>1, <3>2, <3>3, <3>4, <4>1
    <3>5. CASE d # c
      BY <3>1, <3>2, <3>3, <3>5
    <3> QED BY <3>4, <3>5
  <2>8. GotOnce'
    <3>1. \A a \in got : a.answer # new.answer
      BY <2>1 DEF EachOnce, PlacesApart
    <3> QED BY <2>2, <3>1 DEF EachOnce, GotOnce
  <2>9. PlacesApart'
    <3>1. \A i \in owed : \A a \in got' : i.request # a.answer
      BY <2>1, <2>2 DEF EachOnce, PlacesApart
    <3>2. \A d \in Clients : \A k \in DOMAIN inbox'[d] : \A i \in owed : inbox'[d][k] # i.request
      BY <2>4 DEF EachOnce, PlacesApart
    <3>3. \A d \in Clients : \A k \in DOMAIN inbox'[d] : \A a \in got : inbox'[d][k] # a.answer
      BY <2>4 DEF EachOnce, PlacesApart
    <3>4. ASSUME NEW d \in Clients, NEW k \in DOMAIN inbox'[d], inbox'[d][k] = new.answer
          PROVE  FALSE
      <4>1. PICK l \in DOMAIN inbox[d] : inbox'[d][k] = inbox[d][l] /\ (d = c => l = k + 1)
        BY <2>4
      <4>2. d = c /\ l = 1
        BY <2>1, <3>4, <4>1 DEF EachOnce, InboxOnce
      <4>3. k \in DOMAIN Tail(inbox[c]) /\ k + 1 = 1
        BY <2>2, <4>1, <4>2
      <4> QED BY <2>1, <4>3
    <3> QED BY <2>2, <3>1, <3>2, <3>3, <3>4 DEF PlacesApart
  <2>10. NoneFromTheFuture'
    <3>1. new.answer.from = c => new.answer.n <= asked[c]
      <4>1. Passed(new.answer) /\ new.answer \in Requests
        BY <2>1, <1>t DEF EachOnce, PassedOnly
      <4>2. read[c] <= asked[c]
        BY DEF Owed, Shape, ReadersFollow
      <4> QED BY <1>n, <4>1, <4>2 DEF Passed
    <3>2. new.by.from = c /\ new.by.n = asked[c]
      BY DEF Last
    <3> QED BY <2>2, <3>1, <3>2 DEF EachOnce, NoneFromTheFuture
  <2> QED BY <2>5, <2>6, <2>7, <2>8, <2>9, <2>10 DEF EachOnce
<1>4. ASSUME NEW c \in Clients, Leave(c) PROVE EachOnce'
  <2>1. \A r \in Requests : Passed(r) => Passed(r)'
    BY <1>4, <1>t DEF Leave, Passed
  <2> QED BY <1>4, <1>t, <2>1, EachOnceSame DEF Leave
<1>5. ASSUME NEW c \in Clients, Die(c) PROVE EachOnce'
  <2>1. \A r \in Requests : Passed(r) => Passed(r)'
    BY <1>5, <1>t DEF Die, Passed
  <2> QED BY <1>5, <1>t, <2>1, EachOnceSame DEF Die
<1>6. ASSUME NEW c \in Clients, ReadRequest(c) PROVE EachOnce'
  <2>1. \A r \in Requests : Passed(r) => Passed(r)'
    BY <1>6, <1>t, <1>n DEF ReadRequest, Passed
  <2> QED BY <1>6, <1>t, <2>1, EachOnceSame DEF ReadRequest
<1>7. ASSUME NEW c \in Clients, ReadEnd(c) PROVE EachOnce'
  <2>1. \A r \in Requests : Passed(r) => Passed(r)'
    BY <1>7, <1>t, <1>n DEF ReadEnd, Passed
  <2> QED BY <1>7, <1>t, <2>1, EachOnceSame DEF ReadEnd
<1>8. ASSUME NEW c \in Clients, Enqueue(c) PROVE EachOnce'
  <2> DEFINE new == [request |-> [from |-> c, n |-> read[c]], client_fd |-> fd[c]]
  <2>1. owed' = owed \union {new} /\ got' = got /\ inbox' = inbox
    BY <1>8 DEF Enqueue
  <2>2. ~ Passed(new.request)
    BY <1>8, <1>n DEF Enqueue, Passed
  <2>3. new.request \in Requests
    BY <1>8, RequestTypes DEF Enqueue, Owed
  <2>4. \A r \in Requests : Passed(r) \/ r = new.request => Passed(r)'
    BY <1>8, <1>t, <1>n DEF Enqueue, PassOn, Passed
  <2>5. PassedOnly'
    <3>1. \A i \in owed' : i.request \in Requests /\ (Passed(i.request) \/ i.request = new.request)
      BY <1>t, <2>1, <2>3 DEF EachOnce, PassedOnly
    <3>2. \A d \in Clients : \A k \in DOMAIN inbox[d] : inbox[d][k] \in Requests
      BY <1>t
    <3> QED BY <1>t, <2>1, <2>4, <3>1, <3>2 DEF EachOnce, PassedOnly
  <2>6. OwedOnce'
    BY <2>1, <2>2 DEF EachOnce, OwedOnce, PassedOnly
  <2>7. PlacesApart'
    BY <2>1, <2>2 DEF EachOnce, PlacesApart, PassedOnly
  <2> QED BY <2>1, <2>5, <2>6, <2>7 DEF EachOnce, InboxOnce, GotOnce, NoneFromTheFuture
<1>9. ASSUME NEW i \in owed, Answer(i) PROVE EachOnce'
  <2>1. owed' = owed \ {i} /\ got' = got
    BY <1>9 DEF Answer, Done
  <2>2. \A r : Passed(r)' <=> Passed(r)
    BY <1>9 DEF Answer, Passed
  <2>3. \A d \in Clients : \A k \in DOMAIN inbox'[d] :
           \/ k \in DOMAIN inbox[d] /\ inbox'[d][k] = inbox[d][k]
           \/ fd[d] = i.client_fd /\ k = Len(inbox[d]) + 1 /\ inbox'[d][k] = i.request
    BY <1>9, <1>t DEF Answer
  <2>4. \A d, e \in Clients : fd[d] = i.client_fd /\ fd[e] = i.client_fd => d = e
    BY <1>t, RequestTypes DEF Owed, Shape, OneOwnerEach
  <2>5. PassedOnly'
    BY <2>1, <2>2, <2>3 DEF EachOnce, PassedOnly
  <2>6. OwedOnce'
    BY <2>1 DEF EachOnce, OwedOnce
  <2>7. InboxOnce'
    <3> SUFFICES ASSUME NEW d \in Clients, NEW e \in Clients,
                        NEW k \in DOMAIN inbox'[d], NEW l \in DOMAIN inbox'[e],
                        inbox'[d][k] = inbox'[e][l]
                 PROVE  d = e /\ k = l
      BY DEF InboxOnce
    <3> QED BY <2>3, <2>4 DEF EachOnce, InboxOnce, PlacesApart
  <2>8. PlacesApart'
    <3>1. \A j \in owed' : j.request # i.request
      BY <2>1 DEF EachOnce, OwedOnce
    <3> QED BY <2>1, <2>3, <3>1 DEF EachOnce, PlacesApart
  <2> QED BY <2>1, <2>5, <2>6, <2>7, <2>8 DEF EachOnce, GotOnce, NoneFromTheFuture
<1>10. CASE UNCHANGED vars
  <2>1. \A r \in Requests : Passed(r) => Passed(r)'
    BY <1>10 DEF vars, Passed
  <2> QED BY <1>10, <1>t, <2>1, EachOnceSame DEF vars
<1> QED
  BY <1>1, <1>2, <1>3, <1>4, <1>5, <1>6, <1>7, <1>8, <1>9, <1>10 DEF Next, ClientStep, ReaderStep

\* AnswersKept: whoever is killed and whoever gets the descriptor, a client takes each of
\* its own answers at most once and none before its request, and nobody else has it.
THEOREM ConnectionsAnswersKept == Spec => []AnswersKept
<1>1. Spec => []EachOnce
  <2>1. Owed /\ EachOnce /\ [Next]_vars => EachOnce'
    BY EachOnceStep DEF Owed
  <2> QED BY <2>1, EachOnceInit, OwedAlways, PTL DEF Spec
<1>2. Owed /\ EachOnce => AnswersKept
  BY DEF Owed, EachOnce, AnswersKept, AnswersFromThePast, NoneFromTheFuture, GotOnce
<1> QED BY <1>1, <1>2, OwedAlways, PTL
=============================================================================

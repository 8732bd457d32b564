------------------------- MODULE SmallModelsProofs -------------------------
(***************************************************************************)
(* Theorems about the smaller models: Ping for any number of datagrams,    *)
(* Chat for any number of lines, Pipeline for any number of commands and   *)
(* any size of a pipe, PrimeSieve for all numbers, any number of ranks and *)
(* any size of a piece, CommandStream for all scripts, and RadixSort for   *)
(* all arrays, any number of ranks, any base and any number of passes.     *)
(***************************************************************************)
EXTENDS SmallModels, TLAPS, FiniteSetTheorems, SequenceTheorems,
        WellFoundedInduction

\* A step is one of each program, or leaves it alone.
LEMMA EachByItself ==
    [Next]_vars => /\ [Ping!Next]_(Ping!vars)
                   /\ [Chat!Next]_(Chat!vars)
                   /\ [Pipeline!Next]_(Pipeline!vars)
                   /\ [Sieve!Next]_(Sieve!vars)
                   /\ [Stream!Next]_(Stream!vars)
                   /\ [Radix!Next]_(Radix!vars)
<1>. SUFFICES ASSUME [Next]_vars
              PROVE  /\ [Ping!Next]_(Ping!vars)
                     /\ [Chat!Next]_(Chat!vars)
                     /\ [Pipeline!Next]_(Pipeline!vars)
                     /\ [Sieve!Next]_(Sieve!vars)
                     /\ [Stream!Next]_(Stream!vars)
                     /\ [Radix!Next]_(Radix!vars)
  OBVIOUS
<1>. USE DEF Next, vars, RunsPing, RunsChat, RunsPipeline, RunsRadix, RunsSieve, RunsStream
<1>1. Ping!Next \/ UNCHANGED ping_vars
  OBVIOUS
<1>2. Chat!Next \/ UNCHANGED chat_vars
  OBVIOUS
<1>3. Pipeline!Next \/ UNCHANGED pipeline_vars
  OBVIOUS
<1>4. Sieve!Next \/ UNCHANGED sieve_vars
  OBVIOUS
<1>0. Stream!Next \/ UNCHANGED stream_vars
  OBVIOUS
<1>10. Radix!Next \/ UNCHANGED radix_vars
  OBVIOUS
<1>5. UNCHANGED ping_vars => UNCHANGED Ping!vars
  BY DEF ping_vars, Ping!vars, Ping!stats, Ping!net
<1>6. UNCHANGED chat_vars => UNCHANGED Chat!vars
  BY DEF chat_vars, Chat!vars, Chat!history
<1>7. UNCHANGED pipeline_vars => UNCHANGED Pipeline!vars
  BY DEF pipeline_vars, Pipeline!vars
<1>8. UNCHANGED sieve_vars => UNCHANGED Sieve!vars
  BY DEF sieve_vars, Sieve!vars
<1>9. UNCHANGED stream_vars => UNCHANGED Stream!vars
  BY DEF stream_vars, Stream!vars
<1>11. UNCHANGED radix_vars => UNCHANGED Radix!vars
  BY DEF radix_vars, Radix!vars
<1>. QED
  BY <1>0, <1>1, <1>2, <1>3, <1>4, <1>5, <1>6, <1>7, <1>8, <1>9, <1>10, <1>11

(***************************************************************************)
(* Least and greatest numbers                                              *)
(***************************************************************************)
LEMMA LeastNat ==
    ASSUME NEW S, S \subseteq Nat, S # {}
    PROVE \E m \in S : \A c \in S : m <= c
<1>. DEFINE R == OpToRel(<, Nat)
<1>1. PICK m \in S : \A c \in S : <<c, m>> \notin R
  <2>1. IsWellFoundedOn(R, Nat)
    BY NatLessThanWellFounded
  <2>. HIDE DEF R
  <2>. QED
    BY <2>1, WFMin
<1>2. R = {ss \in Nat \X Nat : ss[1] < ss[2]}
  BY Zenon DEF OpToRel
<1>. HIDE DEF R
<1>3. ASSUME NEW c \in S PROVE m <= c
  <2>1. c < m => <<c, m>> \in R
    BY <1>2
  <2>. QED
    BY <1>1, <2>1
<1>. QED
  BY <1>3

LEMMA GreatestNat ==
    ASSUME NEW k \in Nat, NEW S, S \subseteq 0 .. k, S # {}
    PROVE \E m \in S : \A c \in S : c <= m
<1>. DEFINE D == {k - c : c \in S}
<1>1. D \subseteq Nat /\ D # {}
  <2>1. \A c \in S : k - c \in Nat
    OBVIOUS
  <2>2. PICK c \in S : k - c \in D
    OBVIOUS
  <2>. QED
    BY <2>1, <2>2
<1>2. PICK d \in D : \A c \in D : d <= c
  <2>. HIDE DEF D
  <2>. QED
    BY <1>1, LeastNat
<1>3. PICK m \in S : d = k - m
  BY <1>2
<1>4. \A c \in S : k - m <= k - c
  BY <1>2, <1>3
<1>5. \A c \in S : c \in Int
  OBVIOUS
<1>. QED
  BY <1>3, <1>4, <1>5

(***************************************************************************)
(* The UDP ping                                                            *)
(***************************************************************************)
\* A request no younger than d was given up.
GivenUp(d) == \E r \in timedout : r <= d

\* Every datagram is on its way once at most, and none before its request.
DatagramsOnce ==
    /\ seq \in Nat /\ timedout \subseteq 1 .. seq
    /\ requests \subseteq 1 .. seq /\ answers \subseteq 1 .. seq
    /\ requests \intersect answers = {}
    /\ ping_pc = "send" => seq \notin requests \union answers
    /\ ping_pc \notin {"begin", "stopped"} => seq \in 1 .. seq

\* A datagram other than that of the request that is being waited for is late.
LateDatagrams ==
    ping_pc # "stopped" =>
        \A d \in requests \union answers : (d = seq /\ ping_pc \in {"sent", "wait"}) \/ GivenUp(d)

Measured == {"received", "total", "least", "most"}

\* So is an answer that has been measured for another request than its own.
LateTimes ==
    /\ \A t \in total : t.of # t.from => GivenUp(t.of)
    /\ ping_pc \in Measured => /\ time.from = seq /\ time.of \in 1 .. seq
                               /\ time.of # time.from => GivenUp(time.of)

\* A time that has been added belongs to an earlier request, or is the last one.
TimesEarlier ==
    ping_pc # "stopped" =>
        \A t \in total :
            /\ t.from \in 1 .. seq
            /\ ping_pc \in {"send", "sent", "wait", "received", "total"} => t.from # seq

\* How far the counters and the three sets are at each statement.
Counted ==
    /\ IsFiniteSet(total) /\ IsFiniteSet(least) /\ IsFiniteSet(most) /\ received \in Nat
    /\ ping_pc \in {"begin", "sleep", "send", "sent", "wait", "received"} =>
           total = least /\ least = most /\ received = Cardinality(total)
    /\ ping_pc = "total" => total = least /\ least = most /\ received = Cardinality(total) + 1
    /\ ping_pc = "least" => /\ total = least \union {time} /\ time \notin least /\ least = most
                            /\ received = Cardinality(total)
    /\ ping_pc = "most"  => /\ total = least /\ least = most \union {time} /\ time \notin most
                            /\ received = Cardinality(total)
    /\ ping_pc = "stopped" => Ping!LacksOneAtMost

\* A request that is waited for has been counted, its answer has not.
SentFirst ==
    /\ ping_sent \in Nat /\ received \in Nat /\ received <= ping_sent
    /\ ping_pc \in {"wait", "received"} => received < ping_sent

PingPcs ==
    ping_pc \in {"begin", "send", "sent", "wait", "sleep", "stopped"} \union Measured

PingInv ==
    PingPcs /\ DatagramsOnce /\ LateDatagrams /\ LateTimes /\ TimesEarlier /\ Counted /\ SentFirst

LEMMA PingInit == Ping!Init => PingInv
<1>. SUFFICES ASSUME Ping!Init PROVE PingInv
  OBVIOUS
<1>1. PingPcs /\ DatagramsOnce /\ LateDatagrams /\ LateTimes /\ TimesEarlier /\ SentFirst
  BY DEF Ping!Init, PingPcs, DatagramsOnce, LateDatagrams, LateTimes, TimesEarlier, SentFirst, Measured
<1>2. Counted
  BY FS_EmptySet DEF Ping!Init, Counted
<1>. QED
  BY <1>1, <1>2 DEF PingInv

\* What one statement does to the program counter.
LEMMA PingAfter ==
    /\ Ping!After("send") = "sent" /\ Ping!After("sent") = "wait"
    /\ Ping!After("received") = "total" /\ Ping!After("total") = "least"
    /\ Ping!After("least") = "most" /\ Ping!After("most") = "sleep"
BY DEF Ping!After

LEMMA GivenUpGrows ==
    ASSUME NEW d, GivenUp(d), timedout \subseteq timedout'
    PROVE GivenUp(d)'
BY DEF GivenUp

LEMMA PingPcsStep == PingInv /\ [Ping!Next]_(Ping!vars) => PingPcs'
<1>. SUFFICES ASSUME PingInv, [Ping!Next]_(Ping!vars) PROVE PingPcs'
  OBVIOUS
<1>1. PingPcs
  BY DEF PingInv
<1>2. ASSUME UNCHANGED ping_pc PROVE PingPcs'
  BY <1>1, <1>2 DEF PingPcs, Measured
<1>3. CASE Ping!Begin \/ Ping!Timeout \/ Ping!Interrupt
  BY <1>3 DEF Ping!Begin, Ping!Timeout, Ping!Interrupt, PingPcs, Measured
<1>4. CASE Ping!Send \/ Ping!CountSent \/ Ping!CountReceived \/ Ping!AddTotal
           \/ Ping!CompareLeast \/ Ping!CompareMost
  BY <1>4, PingAfter DEF Ping!Send, Ping!CountSent, Ping!CountReceived, Ping!AddTotal,
     Ping!CompareLeast, Ping!CompareMost, PingPcs, Measured
<1>5. ASSUME NEW a \in answers, Ping!Receive(a) PROVE PingPcs'
  BY <1>5 DEF Ping!Receive, PingPcs, Measured
<1>6. ASSUME NEW r \in Ping!Seqs, Ping!Echo(r) \/ Ping!Lose(r) PROVE PingPcs'
  BY <1>2, <1>6 DEF Ping!Echo, Ping!Lose
<1>7. CASE UNCHANGED Ping!vars
  BY <1>2, <1>7 DEF Ping!vars
<1>. QED
  BY <1>3, <1>4, <1>5, <1>6, <1>7 DEF Ping!Next, Ping!Client

\* Each statement by its effect on the client's variables.
LEMMA PingCases ==
    ASSUME [Ping!Next]_(Ping!vars)
    PROVE \/ Ping!Begin \/ Ping!Send \/ Ping!CountSent \/ Ping!Timeout
          \/ Ping!CountReceived \/ Ping!AddTotal \/ Ping!CompareLeast \/ Ping!CompareMost
          \/ Ping!Interrupt
          \/ \E a \in answers : Ping!Receive(a)
          \/ /\ UNCHANGED <<ping_pc, seq, ping_sent, received, total, least, most, time, timedout>>
             /\ \/ UNCHANGED <<requests, answers>>
                \/ \E r \in requests : /\ requests' = requests \ {r}
                                       /\ answers' \in {answers, answers \union {r}}
                \/ \E r \in answers : UNCHANGED requests /\ answers' = answers \ {r}
<1>1. ASSUME NEW r \in Ping!Seqs, Ping!Echo(r) \/ Ping!Lose(r)
      PROVE /\ UNCHANGED <<ping_pc, seq, ping_sent, received, total, least, most, time, timedout>>
            /\ \/ \E x \in requests : /\ requests' = requests \ {x}
                                      /\ answers' \in {answers, answers \union {x}}
               \/ \E x \in answers : UNCHANGED requests /\ answers' = answers \ {x}
  BY <1>1 DEF Ping!Echo, Ping!Lose, Ping!Echoed, Ping!stats
<1>2. CASE UNCHANGED Ping!vars
  BY <1>2 DEF Ping!vars, Ping!stats, Ping!net
<1>. QED
  BY <1>1, <1>2 DEF Ping!Next, Ping!Client

LEMMA DatagramsStep == PingInv /\ [Ping!Next]_(Ping!vars) => DatagramsOnce' /\ LateDatagrams'
<1>. SUFFICES ASSUME PingInv, [Ping!Next]_(Ping!vars) PROVE DatagramsOnce' /\ LateDatagrams'
  OBVIOUS
<1>1. DatagramsOnce /\ LateDatagrams
  BY DEF PingInv
<1>2. CASE Ping!Begin
  BY <1>1, <1>2 DEF Ping!Begin, Ping!net, DatagramsOnce, LateDatagrams, GivenUp
<1>3. CASE Ping!Send
  BY <1>1, <1>3, PingAfter DEF Ping!Send, DatagramsOnce, LateDatagrams, GivenUp
<1>4. CASE Ping!CountSent
  BY <1>1, <1>4, PingAfter DEF Ping!CountSent, Ping!net, DatagramsOnce, LateDatagrams, GivenUp
<1>5. CASE Ping!Timeout
  <2>1. DatagramsOnce'
    <3>1. seq \in 1 .. seq
      BY <1>1, <1>5 DEF DatagramsOnce, Ping!Timeout
    <3>. QED
      BY <1>1, <1>5, <3>1 DEF Ping!Timeout, Ping!net, DatagramsOnce
  <2>2. LateDatagrams'
    BY <1>1, <1>5 DEF Ping!Timeout, Ping!net, DatagramsOnce, LateDatagrams, GivenUp
  <2>. QED
    BY <2>1, <2>2
<1>6. CASE Ping!CountReceived \/ Ping!AddTotal \/ Ping!CompareLeast \/ Ping!CompareMost
  <2>1. /\ ping_pc' \in {"total", "least", "most", "sleep"} /\ ping_pc \in Measured
        /\ UNCHANGED <<seq, requests, answers, timedout>>
    BY <1>6, PingAfter DEF Ping!CountReceived, Ping!AddTotal, Ping!CompareLeast, Ping!CompareMost,
       Ping!net, Measured
  <2>. QED
    BY <1>1, <2>1 DEF DatagramsOnce, LateDatagrams, GivenUp, Measured
<1>7. CASE Ping!Interrupt
  BY <1>1, <1>7 DEF Ping!Interrupt, Ping!net, DatagramsOnce, LateDatagrams
<1>8. ASSUME NEW a \in answers, Ping!Receive(a) PROVE DatagramsOnce' /\ LateDatagrams'
  <2>1. DatagramsOnce'
    BY <1>1, <1>8 DEF Ping!Receive, DatagramsOnce
  <2>2. ASSUME NEW d \in requests \union (answers \ {a}) PROVE GivenUp(d)
    <3>1. d # a /\ d \in 1 .. seq /\ a \in 1 .. seq
      BY <1>1 DEF DatagramsOnce
    <3>2. CASE a = seq
      BY <1>1, <1>8, <3>1, <3>2 DEF LateDatagrams, Ping!Receive
    <3>3. CASE a # seq
      <4>1. PICK r \in timedout : r <= a
        BY <1>1, <1>8, <3>3 DEF LateDatagrams, Ping!Receive, GivenUp
      <4>2. CASE d = seq
        BY <1>1, <3>1, <4>1, <4>2 DEF DatagramsOnce, GivenUp
      <4>3. CASE d # seq
        BY <1>1, <1>8, <4>3 DEF LateDatagrams, Ping!Receive
      <4>. QED
        BY <4>2, <4>3
    <3>. QED
      BY <3>2, <3>3
  <2>3. LateDatagrams'
    BY <1>8, <2>2 DEF Ping!Receive, LateDatagrams, GivenUp
  <2>. QED
    BY <2>1, <2>3
<1>9. ASSUME UNCHANGED <<ping_pc, seq, timedout>>,
             \/ UNCHANGED <<requests, answers>>
             \/ \E r \in requests : /\ requests' = requests \ {r}
                                    /\ answers' \in {answers, answers \union {r}}
             \/ \E r \in answers : UNCHANGED requests /\ answers' = answers \ {r}
      PROVE DatagramsOnce' /\ LateDatagrams'
  BY <1>1, <1>9 DEF DatagramsOnce, LateDatagrams, GivenUp
<1>. QED
  BY <1>2, <1>3, <1>4, <1>5, <1>6, <1>7, <1>8, <1>9, PingCases

LEMMA LateTimesStep == PingInv /\ [Ping!Next]_(Ping!vars) => LateTimes'
<1>. SUFFICES ASSUME PingInv, [Ping!Next]_(Ping!vars) PROVE LateTimes'
  OBVIOUS
<1>1. DatagramsOnce /\ LateDatagrams /\ LateTimes
  BY DEF PingInv
<1>2. ASSUME timedout \subseteq timedout', UNCHANGED total, ping_pc' \notin Measured
      PROVE LateTimes'
  BY <1>1, <1>2 DEF LateTimes, GivenUp
<1>3. CASE Ping!Begin \/ Ping!Send \/ Ping!CountSent \/ Ping!Timeout \/ Ping!Interrupt
           \/ Ping!CompareMost
  BY <1>2, <1>3, PingAfter DEF Ping!Begin, Ping!Send, Ping!CountSent, Ping!Timeout, Ping!Interrupt,
     Ping!CompareMost, Ping!stats, Measured
<1>4. CASE Ping!CountReceived \/ Ping!CompareLeast
  BY <1>1, <1>4, PingAfter DEF Ping!CountReceived, Ping!CompareLeast, LateTimes, GivenUp, Measured
<1>5. CASE Ping!AddTotal
  BY <1>1, <1>5, PingAfter DEF Ping!AddTotal, LateTimes, GivenUp, Measured
<1>6. ASSUME NEW a \in answers, Ping!Receive(a) PROVE LateTimes'
  <2>1. a \in 1 .. seq /\ (a # seq => GivenUp(a))
    BY <1>1, <1>6 DEF DatagramsOnce, LateDatagrams, Ping!Receive
  <2>. QED
    BY <1>1, <1>6, <2>1 DEF Ping!Receive, Ping!stats, LateTimes, GivenUp, Measured
<1>7. ASSUME UNCHANGED <<ping_pc, seq, total, time, timedout>> PROVE LateTimes'
  BY <1>1, <1>7 DEF LateTimes, GivenUp
<1>. QED
  BY <1>3, <1>4, <1>5, <1>6, <1>7, PingCases

LEMMA TimesStep == PingInv /\ [Ping!Next]_(Ping!vars) => TimesEarlier'
<1>. SUFFICES ASSUME PingInv, [Ping!Next]_(Ping!vars) PROVE TimesEarlier'
  OBVIOUS
<1>1. TimesEarlier /\ LateTimes /\ seq \in Nat
  BY DEF PingInv, DatagramsOnce
<1>2. CASE Ping!Begin
  BY <1>1, <1>2 DEF Ping!Begin, Ping!stats, TimesEarlier
<1>3. CASE Ping!Send \/ Ping!CountSent \/ Ping!CountReceived
  BY <1>1, <1>3, PingAfter DEF Ping!Send, Ping!CountSent, Ping!CountReceived, Ping!stats, TimesEarlier
<1>4. CASE Ping!Timeout \/ Ping!Interrupt \/ Ping!CompareLeast \/ Ping!CompareMost
  BY <1>1, <1>4, PingAfter DEF Ping!Timeout, Ping!Interrupt, Ping!CompareLeast, Ping!CompareMost,
     Ping!stats, TimesEarlier
<1>5. CASE Ping!AddTotal
  <2>1. time.from = seq /\ time.of \in 1 .. seq
    BY <1>1, <1>5 DEF Ping!AddTotal, LateTimes, Measured
  <2>. QED
    BY <1>1, <1>5, <2>1, PingAfter DEF Ping!AddTotal, TimesEarlier
<1>6. ASSUME NEW a \in answers, Ping!Receive(a) PROVE TimesEarlier'
  BY <1>1, <1>6 DEF Ping!Receive, Ping!stats, TimesEarlier
<1>7. ASSUME UNCHANGED <<ping_pc, seq, total>> PROVE TimesEarlier'
  BY <1>1, <1>7 DEF TimesEarlier
<1>. QED
  BY <1>2, <1>3, <1>4, <1>5, <1>6, <1>7, PingCases

\* The cardinality that Ping takes from FiniteSets.
LEMMA PingCardinality == ASSUME NEW S PROVE Ping!Cardinality(S) = Cardinality(S)
BY DEF Ping!Cardinality, Cardinality

LEMMA CountedLacksOne ==
    ASSUME PingPcs, Counted
    PROVE Ping!LacksOneAtMost
<1>. DEFINE Lacks(S) == received - Cardinality(S) \in {0, 1}
<1>1. ASSUME Lacks(total), Lacks(least), Lacks(most), most \subseteq least, least \subseteq total
      PROVE Ping!LacksOneAtMost
  <2>1. ASSUME NEW S \in {total, least, most} PROVE Lacks(S)
    <3>1. S = total \/ S = least \/ S = most
      OBVIOUS
    <3>. HIDE DEF Lacks
    <3>. QED
      BY <1>1, <3>1
  <2>2. \A times \in {total, least, most} : received - Ping!Cardinality(times) \in {0, 1}
    BY <2>1, PingCardinality
  <2>3. most \subseteq least /\ least \subseteq total
    BY <1>1
  <2>. QED
    BY <2>2, <2>3, Zenon DEF Ping!LacksOneAtMost
<1>2. Cardinality(total) \in Nat /\ Cardinality(least) \in Nat /\ Cardinality(most) \in Nat
  BY FS_CardinalityType DEF Counted
<1>3. CASE ping_pc \in {"begin", "sleep", "send", "sent", "wait", "received", "total"}
  BY <1>1, <1>2, <1>3 DEF Counted
<1>4. CASE ping_pc = "least"
  <2>1. Cardinality(total) = Cardinality(least) + 1 /\ least = most /\ least \subseteq total
    BY <1>4, FS_AddElement DEF Counted
  <2>2. received = Cardinality(total)
    BY <1>4 DEF Counted
  <2>. QED
    BY <1>1, <1>2, <2>1, <2>2
<1>5. CASE ping_pc = "most"
  <2>1. Cardinality(least) = Cardinality(most) + 1 /\ total = least /\ most \subseteq least
    BY <1>5, FS_AddElement DEF Counted
  <2>2. received = Cardinality(total)
    BY <1>5 DEF Counted
  <2>. QED
    BY <1>1, <1>2, <2>1, <2>2
<1>6. CASE ping_pc = "stopped"
  BY <1>6 DEF Counted
<1>. QED
  BY <1>3, <1>4, <1>5, <1>6 DEF PingPcs, Measured

LEMMA CountedStep == PingInv /\ [Ping!Next]_(Ping!vars) => Counted'
<1>. SUFFICES ASSUME PingInv, [Ping!Next]_(Ping!vars) PROVE Counted'
  OBVIOUS
<1>1. Counted /\ PingPcs /\ TimesEarlier /\ LateTimes
  BY DEF PingInv
<1>2. CASE Ping!Begin \/ Ping!Send \/ Ping!CountSent \/ Ping!Timeout
  BY <1>1, <1>2, PingAfter DEF Ping!Begin, Ping!Send, Ping!CountSent, Ping!Timeout, Ping!stats, Counted
<1>3. CASE Ping!CountReceived
  <2>1. Cardinality(total) \in Nat
    BY <1>1, FS_CardinalityType DEF Counted
  <2>. QED
    BY <1>1, <1>3, <2>1, PingAfter DEF Ping!CountReceived, Counted
<1>4. CASE Ping!AddTotal
  <2>1. time \notin total
    BY <1>1, <1>4 DEF Ping!AddTotal, TimesEarlier, LateTimes, Measured
  <2>2. IsFiniteSet(total \union {time}) /\ Cardinality(total \union {time}) = Cardinality(total) + 1
    BY <1>1, <2>1, FS_AddElement DEF Counted
  <2>. QED
    BY <1>1, <1>4, <2>1, <2>2, PingAfter DEF Ping!AddTotal, Counted
<1>5. CASE Ping!CompareLeast
  <2>1. IsFiniteSet(least \union {time})
    BY <1>1, FS_AddElement DEF Counted
  <2>. QED
    BY <1>1, <1>5, <2>1, PingAfter DEF Ping!CompareLeast, Counted
<1>6. CASE Ping!CompareMost
  <2>1. IsFiniteSet(most \union {time})
    BY <1>1, FS_AddElement DEF Counted
  <2>. QED
    BY <1>1, <1>6, <2>1, PingAfter DEF Ping!CompareMost, Counted
<1>7. CASE Ping!Interrupt
  <2>1. Ping!LacksOneAtMost'
    BY <1>1, <1>7, CountedLacksOne DEF Ping!Interrupt, Ping!stats, Ping!LacksOneAtMost
  <2>. QED
    BY <1>1, <1>7, <2>1 DEF Ping!Interrupt, Ping!stats, Counted
<1>8. ASSUME NEW a \in answers, Ping!Receive(a) PROVE Counted'
  BY <1>1, <1>8 DEF Ping!Receive, Ping!stats, Counted
<1>9. ASSUME UNCHANGED <<ping_pc, received, total, least, most, time>> PROVE Counted'
  BY <1>1, <1>9 DEF Counted, Ping!LacksOneAtMost
<1>. QED
  BY <1>2, <1>3, <1>4, <1>5, <1>6, <1>7, <1>8, <1>9, PingCases

LEMMA SentFirstStep == PingInv /\ [Ping!Next]_(Ping!vars) => SentFirst'
<1>. SUFFICES ASSUME PingInv, [Ping!Next]_(Ping!vars) PROVE SentFirst'
  OBVIOUS
<1>1. SentFirst
  BY DEF PingInv
<1>2. CASE Ping!Begin \/ Ping!Send \/ Ping!CountSent \/ Ping!Timeout \/ Ping!Interrupt
  BY <1>1, <1>2, PingAfter DEF Ping!Begin, Ping!Send, Ping!CountSent, Ping!Timeout, Ping!Interrupt,
     Ping!stats, SentFirst
<1>3. CASE Ping!CountReceived \/ Ping!AddTotal \/ Ping!CompareLeast \/ Ping!CompareMost
  BY <1>1, <1>3, PingAfter DEF Ping!CountReceived, Ping!AddTotal, Ping!CompareLeast, Ping!CompareMost,
     SentFirst
<1>4. ASSUME NEW a \in answers, Ping!Receive(a) PROVE SentFirst'
  BY <1>1, <1>4 DEF Ping!Receive, Ping!stats, SentFirst
<1>5. ASSUME UNCHANGED <<ping_pc, ping_sent, received>> PROVE SentFirst'
  BY <1>1, <1>5 DEF SentFirst
<1>. QED
  BY <1>2, <1>3, <1>4, <1>5, PingCases

\* Whenever SIGINT comes and however many requests were sent, lost, delayed and reordered:
\* the loss that is printed is not negative, a time measured for the wrong request comes
\* after a timeout, and the average, the least and the greatest time lack at most the time
\* of the last answer (myping.c).
THEOREM PingStatisticsRight == Spec => []StatisticsRight
<1>1. PingInv /\ [Next]_vars => PingInv'
  BY EachByItself, PingPcsStep, DatagramsStep, LateTimesStep, TimesStep, CountedStep, SentFirstStep
     DEF PingInv
<1>2. PingInv => StatisticsRight
  BY CountedLacksOne
     DEF PingInv, SentFirst, LateTimes, GivenUp, StatisticsRight,
         Ping!StatisticsRight, Ping!LossNotNegative, Ping!LateOnlyAfterTimeout
<1>3. Init => PingInv
  BY PingInit DEF Init
<1>. QED
  BY <1>1, <1>2, <1>3, PTL DEF Spec

(***************************************************************************)
(* The chat                                                                *)
(***************************************************************************)
Unforked == {"start", "open1", "open2", "fork", "failed"}
Forked   == {"type", "write", "close", "kill", "wait", "done", "killed", "piped"}

\* A side has a child once it has forked, and a parent that has been reaped or killed
\* leaves none that could still notify it.
Families ==
    /\ parent \in [Chat!Sides -> Unforked \union Forked]
    /\ child \in [Chat!Sides -> {"none", "read", "notify", "leave", "done"}]
    /\ \A s \in Chat!Sides :
           /\ parent[s] \in Unforked <=> child[s] = "none"
           /\ child[s] \in {"none", "read", "notify"} => parent[s] \notin {"done", "killed"}

\* A signal on its way to a parent has come from its child and finds the parent alive;
\* one on its way to a child has a child to find.
Signals ==
    \A s \in Chat!Sides :
        /\ <<s, "parent">> \in termed =>
               parent[s] \notin Chat!Dead /\ child[s] \in {"leave", "done"}
        /\ <<s, "child">> \in termed => child[s] # "none"

ChatInv == Families /\ Signals /\ Chat!StraysOnlyWhenPiped

LEMMA ChatInit == Chat!Init => ChatInv
BY DEF Chat!Init, ChatInv, Families, Signals, Chat!StraysOnlyWhenPiped, Unforked, Chat!Sides

LEMMA FamiliesStep == ChatInv /\ [Chat!Next]_(Chat!vars) => Families'
<1>. SUFFICES ASSUME ChatInv, [Chat!Next]_(Chat!vars) PROVE Families'
  OBVIOUS
<1>. USE DEF Families, Unforked, Forked
<1>1. Families /\ Signals /\ "server" \in Chat!Sides /\ "client" \in Chat!Sides
  BY DEF ChatInv, Chat!Sides
<1>2. CASE Chat!MakeFifos \/ Chat!ClientOpens
  BY <1>1, <1>2 DEF Chat!MakeFifos, Chat!ClientOpens
<1>3. ASSUME NEW s \in Chat!Sides, Chat!User(s) PROVE Families'
  BY <1>1, <1>3 DEF Chat!User, Chat!Type, Chat!EndOfInput
<1>4. ASSUME NEW s \in Chat!Sides, Chat!ParentStep(s) PROVE Families'
  <2>1. CASE Chat!Opened(s) \/ Chat!Fork(s)
    BY <1>1, <2>1 DEF Chat!Opened, Chat!Fork
  <2>2. CASE Chat!Write(s) \/ Chat!BrokenPipe(s)
    BY <1>1, <2>2 DEF Chat!Write, Chat!BrokenPipe
  <2>3. CASE Chat!Close(s) \/ Chat!KillChild(s) \/ Chat!Reap(s)
    BY <1>1, <2>3 DEF Chat!Close, Chat!KillChild, Chat!Reap
  <2>. QED
    BY <1>4, <2>1, <2>2, <2>3 DEF Chat!ParentStep
<1>5. ASSUME NEW s \in Chat!Sides, Chat!ChildStep(s) PROVE Families'
  BY <1>1, <1>5 DEF Chat!ChildStep, Chat!Read, Chat!EndOfFile, Chat!NotifyParent, Chat!Leave
<1>6. ASSUME NEW s \in Chat!Sides, Chat!Terminate(s) PROVE Families'
  <2>1. CASE Chat!TerminateParent(s)
    BY <1>1, <2>1 DEF Chat!TerminateParent, Signals, Chat!Dead
  <2>2. CASE Chat!TerminateChild(s)
    BY <1>1, <2>2 DEF Chat!TerminateChild, Signals
  <2>. QED
    BY <1>6, <2>1, <2>2 DEF Chat!Terminate
<1>7. CASE UNCHANGED Chat!vars
  BY <1>1, <1>7 DEF Chat!vars
<1>. QED
  BY <1>2, <1>3, <1>4, <1>5, <1>6, <1>7 DEF Chat!Next

LEMMA SignalsStep == ChatInv /\ [Chat!Next]_(Chat!vars) => Signals' /\ Chat!StraysOnlyWhenPiped'
<1>. SUFFICES ASSUME ChatInv, [Chat!Next]_(Chat!vars)
              PROVE Signals' /\ Chat!StraysOnlyWhenPiped'
  OBVIOUS
<1>. USE DEF Signals, Chat!StraysOnlyWhenPiped, Chat!Dead
<1>1. /\ Families /\ Signals /\ Chat!StraysOnlyWhenPiped
      /\ "server" \in Chat!Sides /\ "client" \in Chat!Sides
  BY DEF ChatInv, Chat!Sides
<1>2. CASE Chat!MakeFifos \/ Chat!ClientOpens
  BY <1>1, <1>2 DEF Chat!MakeFifos, Chat!ClientOpens, Chat!history, Families, Unforked
<1>3. ASSUME NEW s \in Chat!Sides, Chat!User(s) PROVE Signals' /\ Chat!StraysOnlyWhenPiped'
  BY <1>1, <1>3 DEF Chat!User, Chat!Type, Chat!EndOfInput, Chat!history, Families
<1>4. ASSUME NEW s \in Chat!Sides, Chat!ParentStep(s) PROVE Signals' /\ Chat!StraysOnlyWhenPiped'
  <2>1. CASE Chat!Opened(s) \/ Chat!Fork(s)
    BY <1>1, <2>1 DEF Chat!Opened, Chat!Fork, Chat!history, Families, Unforked
  <2>2. CASE Chat!Write(s) \/ Chat!BrokenPipe(s)
    BY <1>1, <2>2 DEF Chat!Write, Chat!BrokenPipe, Chat!history, Families
  <2>3. CASE Chat!Close(s) \/ Chat!Reap(s)
    BY <1>1, <2>3 DEF Chat!Close, Chat!Reap, Chat!history, Families
  <2>4. CASE Chat!KillChild(s)
    <3>1. child[s] # "none"
      BY <1>1, <2>4 DEF Chat!KillChild, Families, Unforked
    <3>. QED
      BY <1>1, <2>4, <3>1 DEF Chat!KillChild, Chat!history, Families
  <2>. QED
    BY <1>4, <2>1, <2>2, <2>3, <2>4 DEF Chat!ParentStep
<1>5. ASSUME NEW s \in Chat!Sides, Chat!ChildStep(s) PROVE Signals' /\ Chat!StraysOnlyWhenPiped'
  <2>1. CASE Chat!Read(s) \/ Chat!EndOfFile(s) \/ Chat!Leave(s)
    BY <1>1, <2>1 DEF Chat!Read, Chat!EndOfFile, Chat!Leave, Chat!history, Families
  <2>2. CASE Chat!NotifyParent(s)
    <3>1. /\ child[s] = "notify" /\ child' = [child EXCEPT ![s] = "leave"]
          /\ strays' = (strays \/ parent[s] \in Chat!Dead) /\ UNCHANGED parent
          /\ termed' = Chat!Notified(s)
      BY <2>2 DEF Chat!NotifyParent
    <3>2. parent[s] \in Chat!Dead => parent[s] = "piped"
      BY <1>1, <3>1 DEF Families, Unforked
    <3>3. Signals'
      BY <1>1, <3>1 DEF Families, Chat!Notified
    <3>4. Chat!StraysOnlyWhenPiped'
      BY <1>1, <3>1, <3>2
    <3>. QED
      BY <3>3, <3>4
  <2>. QED
    BY <1>5, <2>1, <2>2 DEF Chat!ChildStep
<1>6. ASSUME NEW s \in Chat!Sides, Chat!Terminate(s) PROVE Signals' /\ Chat!StraysOnlyWhenPiped'
  BY <1>1, <1>6 DEF Chat!Terminate, Chat!TerminateParent, Chat!TerminateChild, Chat!history, Families
<1>7. CASE UNCHANGED Chat!vars
  BY <1>1, <1>7 DEF Chat!vars, Chat!history
<1>. QED
  BY <1>2, <1>3, <1>4, <1>5, <1>6, <1>7 DEF Chat!Next

\* However long the users type and whatever dies first, a SIGTERM that a child sends to its
\* parent never reaches another process, unless a broken pipe has ended the parent
\* (client.c:113, server.c:140).
THEOREM ChatStraysOnlyWhenPiped == Spec => []Chat!StraysOnlyWhenPiped
<1>1. ChatInv /\ [Next]_vars => ChatInv'
  BY EachByItself, FamiliesStep, SignalsStep DEF ChatInv
<1>2. ChatInv => Chat!StraysOnlyWhenPiped
  BY DEF ChatInv
<1>3. Init => ChatInv
  BY ChatInit DEF Init
<1>. QED
  BY <1>1, <1>2, <1>3, PTL DEF Spec

(***************************************************************************)
(* The pipeline                                                            *)
(***************************************************************************)
\* main has the ends that the next command is to have; a command at work has its own two,
\* and one that is not has none.
EndsInPlace ==
    /\ turn \in 1 .. N /\ prev = turn - 1
    /\ main \in {"pipe", "fork", "close", "wait", "done", "failed"}
    /\ state \in [Pipeline!Commands -> {"unborn", "setup", "run", "ended"}]
    /\ ends \in [Pipeline!Processes -> SUBSET Pipeline!Ends]
    /\ main = "pipe" => ends[0] \subseteq {<<turn - 1, "r">>}
    /\ main \in {"fork", "close"} => ends[0] \subseteq {<<turn - 1, "r">>, <<turn, "r">>, <<turn, "w">>}
    /\ main \in {"wait", "done", "failed"} => ends[0] = {}
    /\ \A c \in Pipeline!Commands :
           /\ state[c] = "run" => ends[c] \subseteq {<<c - 1, "r">>, <<c, "w">>}
           /\ state[c] \in {"unborn", "ended"} => ends[c] = {}

ItemsCounted ==
    /\ items \in [Pipeline!Pipes -> Nat]
    /\ hand \in [Pipeline!Commands -> BOOLEAN]

PipelineInv == EndsInPlace /\ ItemsCounted

\* Command c can read, write, or learn that it has no neighbour left.
CanGoOn(c) ==
    /\ state[c] = "run"
    /\ \/ ~ hand[c] /\ (c > 1 => items[c - 1] > 0)
       \/ ~ hand[c] /\ c > 1 /\ items[c - 1] = 0 /\ ~ Pipeline!Held(c - 1, "w")
       \/ hand[c] /\ (c < N => items[c] < Cap /\ Pipeline!Held(c, "r"))
       \/ hand[c] /\ c < N /\ ~ Pipeline!Held(c, "r")

\* Commands that have all been set up never wait for one another, all of them, however
\* many have ended or were never begun.
NeverStuck ==
    /\ main \in {"wait", "failed"}
    /\ \A c \in Pipeline!Commands : state[c] # "setup"
    /\ \E c \in Pipeline!Commands : state[c] = "run"
    => \E c \in Pipeline!Commands : CanGoOn(c)

LEMMA PipelineInit == ASSUME N \in Nat \ {0} PROVE Pipeline!Init => PipelineInv
BY DEF Pipeline!Init, PipelineInv, EndsInPlace, ItemsCounted, Pipeline!Processes, Pipeline!Commands,
   Pipeline!Main, Pipeline!Pipes

LEMMA ItemsStep ==
    ASSUME N \in Nat \ {0}, PipelineInv, [Pipeline!Next]_(Pipeline!vars)
    PROVE ItemsCounted'
<1>. USE DEF ItemsCounted
<1>1. ItemsCounted
  BY DEF PipelineInv
<1>2. CASE Pipeline!MainStep \/ Pipeline!Fail
  BY <1>1, <1>2 DEF Pipeline!MainStep, Pipeline!MakePipe, Pipeline!Fork, Pipeline!CloseEnds,
     Pipeline!Finish, Pipeline!Fail
<1>3. ASSUME NEW c \in Pipeline!Commands, Pipeline!Run(c) \/ Pipeline!Quit(c) PROVE ItemsCounted'
  <2>1. CASE Pipeline!Read(c)
    BY <1>1, <2>1 DEF Pipeline!Read, Pipeline!Commands, Pipeline!Pipes
  <2>2. CASE Pipeline!Write(c)
    BY <1>1, <2>2 DEF Pipeline!Write, Pipeline!Commands, Pipeline!Pipes
  <2>3. CASE Pipeline!Exec(c) \/ Pipeline!EndOfFile(c) \/ Pipeline!BrokenPipe(c) \/ Pipeline!Quit(c)
    BY <1>1, <2>3 DEF Pipeline!Exec, Pipeline!EndOfFile, Pipeline!BrokenPipe, Pipeline!Quit, Pipeline!End
  <2>. QED
    BY <1>3, <2>1, <2>2, <2>3 DEF Pipeline!Run
<1>4. CASE UNCHANGED Pipeline!vars
  BY <1>1, <1>4 DEF Pipeline!vars
<1>. QED
  BY <1>2, <1>3, <1>4 DEF Pipeline!Next

LEMMA EndsStep ==
    ASSUME N \in Nat \ {0}, PipelineInv, [Pipeline!Next]_(Pipeline!vars)
    PROVE EndsInPlace'
<1>1. EndsInPlace
  BY DEF PipelineInv
<1>2. /\ Pipeline!Commands = 1 .. N /\ Pipeline!Main = 0
      /\ Pipeline!Processes = {0} \union 1 .. N /\ 0 \notin 1 .. N
      /\ Pipeline!Ends = (1 .. N - 1) \X {"r", "w"}
  BY DEF Pipeline!Commands, Pipeline!Main, Pipeline!Processes, Pipeline!Ends, Pipeline!Pipes
<1>3. CASE Pipeline!MakePipe
  BY <1>1, <1>2, <1>3 DEF Pipeline!MakePipe, Pipeline!NotLast, EndsInPlace
<1>4. CASE Pipeline!Fork
  BY <1>1, <1>2, <1>4 DEF Pipeline!Fork, EndsInPlace
<1>5. CASE Pipeline!CloseEnds
  <2>1. ends[0] \ Pipeline!Closed \subseteq {<<turn, "r">>}
    BY <1>1, <1>5 DEF Pipeline!CloseEnds, Pipeline!Closed, EndsInPlace
  <2>2. turn = N => ends[0] \ Pipeline!Closed = {}
    BY <1>1, <1>2, <2>1 DEF EndsInPlace
  <2>. QED
    BY <1>1, <1>2, <1>5, <2>1, <2>2 DEF Pipeline!CloseEnds, Pipeline!NotLast, EndsInPlace
<1>6. CASE Pipeline!Finish \/ Pipeline!Fail
  BY <1>1, <1>2, <1>6 DEF Pipeline!Finish, Pipeline!Fail, EndsInPlace
<1>7. ASSUME NEW c \in 1 .. N, Pipeline!Exec(c) PROVE EndsInPlace'
  BY <1>1, <1>2, <1>7 DEF Pipeline!Exec, Pipeline!Kept, EndsInPlace
<1>8. ASSUME NEW c \in 1 .. N, Pipeline!End(c) PROVE EndsInPlace'
  BY <1>1, <1>2, <1>8 DEF Pipeline!End, EndsInPlace
<1>9. ASSUME NEW c \in 1 .. N, Pipeline!Read(c) \/ Pipeline!Write(c) PROVE EndsInPlace'
  BY <1>1, <1>2, <1>9 DEF Pipeline!Read, Pipeline!Write, EndsInPlace
<1>10. CASE UNCHANGED Pipeline!vars
  BY <1>1, <1>2, <1>10 DEF Pipeline!vars, EndsInPlace
<1>. QED
  BY <1>2, <1>3, <1>4, <1>5, <1>6, <1>7, <1>8, <1>9, <1>10
     DEF Pipeline!Next, Pipeline!MainStep, Pipeline!Run, Pipeline!Quit, Pipeline!EndOfFile, Pipeline!BrokenPipe

\* The last command with something to write is read from, or can write on; without one,
\* the first command at work can read.
LEMMA SomeGoesOn ==
    ASSUME N \in Nat \ {0}, Cap \in Nat \ {0}, PipelineInv
    PROVE NeverStuck
<1>. SUFFICES ASSUME main \in {"wait", "failed"}, \A c \in 1 .. N : state[c] # "setup",
                     NEW some \in 1 .. N, state[some] = "run"
              PROVE \E c \in 1 .. N : CanGoOn(c)
  BY DEF NeverStuck, Pipeline!Commands
<1>1. /\ ends[0] = {} /\ items \in [1 .. N - 1 -> Nat] /\ hand \in [1 .. N -> BOOLEAN]
      /\ \A c \in 1 .. N : /\ state[c] = "run" => ends[c] \subseteq {<<c - 1, "r">>, <<c, "w">>}
                           /\ state[c] # "run" => ends[c] = {}
  BY DEF PipelineInv, EndsInPlace, ItemsCounted, Pipeline!Commands, Pipeline!Pipes
\* An end of a pipe is held by the command it is for, which is at work.
<1>2. ASSUME NEW c \in Int
      PROVE /\ Pipeline!Held(c, "w") => c \in 1 .. N /\ state[c] = "run"
            /\ Pipeline!Held(c, "r") => c + 1 \in 1 .. N /\ state[c + 1] = "run"
  <2>1. ASSUME NEW q \in {0} \union 1 .. N, NEW e \in {"r", "w"}, <<c, e>> \in ends[q]
        PROVE q \in 1 .. N /\ state[q] = "run" /\ (e = "w" => q = c) /\ (e = "r" => q = c + 1)
    <3>1. q \in 1 .. N /\ state[q] = "run"
      BY <1>1, <2>1
    <3>2. <<c, e>> \in {<<q - 1, "r">>, <<q, "w">>}
      BY <1>1, <2>1, <3>1
    <3>. QED
      BY <3>1, <3>2
  <2>. QED
    BY <2>1 DEF Pipeline!Held, Pipeline!Processes, Pipeline!Main, Pipeline!Commands
<1>. DEFINE busy == {c \in 1 .. N : state[c] = "run"}
            full == {c \in busy : hand[c]}
<1>3. CASE full # {}
  <2>1. PICK e \in full : \A c \in full : c <= e
    <3>1. full \subseteq 0 .. N
      OBVIOUS
    <3>. HIDE DEF full
    <3>. QED
      BY <1>3, <3>1, GreatestNat
  <2>2. CASE e < N /\ Pipeline!Held(e, "r") /\ ~ (items[e] < Cap)
    <3>1. e + 1 \in busy /\ e \in Int
      BY <1>2, <2>2
    <3>2. ~ hand[e + 1]
      BY <2>1, <3>1
    <3>3. items[e] > 0 /\ (e + 1) - 1 = e
      BY <1>1, <2>2, <3>1
    <3>4. CanGoOn(e + 1)
      BY <3>1, <3>2, <3>3 DEF CanGoOn
    <3>. QED
      BY <3>1, <3>4
  <2>3. CASE ~ (e < N /\ Pipeline!Held(e, "r") /\ ~ (items[e] < Cap))
    BY <2>1, <2>3 DEF CanGoOn
  <2>. QED
    BY <2>2, <2>3
<1>4. CASE full = {}
  <2>1. PICK f \in busy : \A c \in busy : f <= c
    <3>1. busy \subseteq Nat /\ some \in busy
      OBVIOUS
    <3>. HIDE DEF busy
    <3>. QED
      BY <3>1, LeastNat
  <2>2. ~ hand[f] /\ f \in Int
    BY <1>1, <1>4
  <2>3. f > 1 => ~ Pipeline!Held(f - 1, "w")
    <3>1. f - 1 \in Int /\ f - 1 < f
      BY <2>2
    <3>2. f - 1 \notin busy
      BY <2>1, <3>1
    <3>. QED
      BY <1>2, <3>1, <3>2
  <2>4. f > 1 => items[f - 1] \in Nat
    BY <1>1, <2>2
  <2>5. CanGoOn(f)
    BY <2>1, <2>2, <2>3, <2>4 DEF CanGoOn
  <2>. QED
    BY <2>5
<1>. QED
  BY <1>3, <1>4

\* However many commands there are and however much a pipe holds: a pipeline that has been
\* set up never comes to a stop with a command at work, whichever commands have ended, since
\* no process has kept an end that is not its own (mypipen.c).
THEOREM PipelineNeverStuck == Spec => []NeverStuck
<1>1. PipelineInv /\ [Next]_vars => PipelineInv'
  BY EachByItself, ItemsStep, EndsStep, SmallModelsAssumption DEF PipelineInv
<1>2. Init => PipelineInv
  BY PipelineInit, SmallModelsAssumption DEF Init
<1>3. PipelineInv => NeverStuck
  BY SomeGoesOn, SmallModelsAssumption
<1>. QED
  BY <1>1, <1>2, <1>3, PTL DEF Spec

(***************************************************************************)
(* Divisors                                                                *)
(***************************************************************************)
Divides(d, k) == \E c \in Int : k = d * c

LEMMA ModZero ==
    ASSUME NEW d \in Nat \ {0}, NEW k \in Int
    PROVE k % d = 0 <=> Divides(d, k)
<1>1. PICK e \in Int, r \in 0 .. d - 1 : k % d = r /\ k = d * e + r
  <2>1. k = d * (k \div d) + (k % d) /\ k % d \in 0 .. d - 1 /\ k \div d \in Int
    OBVIOUS
  <2>. QED
    BY <2>1
<1>2. k % d = 0 => Divides(d, k)
  <2>1. r = 0 => k = d * e
    BY <1>1
  <2>. QED
    BY <1>1, <2>1 DEF Divides
<1>3. ASSUME NEW c \in Int, k = d * c PROVE r = 0
  <2>1. PICK m \in Int : m = c - e
    OBVIOUS
  <2>2. d * m = r
    <3>1. d * c = d * e + r
      BY <1>1, <1>3
    <3>2. d * (c - e) = d * c - d * e
      OBVIOUS
    <3>. QED
      BY <2>1, <3>1, <3>2
  <2>3. m >= 1 => d * m >= d
    OBVIOUS
  <2>4. m <= -1 => d * m <= -d
    OBVIOUS
  <2>5. m = 0 => d * m = 0
    OBVIOUS
  <2>. QED
    BY <2>2, <2>3, <2>4, <2>5
<1>. QED
  BY <1>1, <1>2, <1>3 DEF Divides

LEMMA DividesProduct == ASSUME NEW d \in Int, NEW c \in Int PROVE Divides(d, d * c)
BY DEF Divides

\* Divisors of two numbers divide their sum and difference, and a multiple.
LEMMA DividesBoth ==
    ASSUME NEW d \in Int, NEW a \in Int, NEW b \in Int, Divides(d, a)
    PROVE /\ Divides(d, b) <=> Divides(d, a + b)
          /\ Divides(d, b) <=> Divides(d, b - a)
          /\ Divides(d, a * b)
<1>1. PICK x \in Int : a = d * x
  BY DEF Divides
<1>2. ASSUME NEW y \in Int PROVE /\ d * x + d * y = d * (x + y)
                                 /\ d * y - d * x = d * (y - x)
                                 /\ (d * x) * y = d * (x * y)
                                 /\ x + y \in Int /\ y - x \in Int /\ x * y \in Int
  OBVIOUS
<1>3. ASSUME Divides(d, b) PROVE Divides(d, a + b) /\ Divides(d, b - a)
  <2>1. PICK y \in Int : b = d * y
    BY <1>3 DEF Divides
  <2>. QED
    BY <1>1, <1>2, <2>1 DEF Divides
<1>4. ASSUME Divides(d, a + b) PROVE Divides(d, b)
  <2>1. PICK y \in Int : a + b = d * y
    BY <1>4 DEF Divides
  <2>2. b = d * y - d * x
    BY <1>1, <2>1
  <2>. QED
    BY <1>2, <2>2 DEF Divides
<1>5. ASSUME Divides(d, b - a) PROVE Divides(d, b)
  <2>1. PICK y \in Int : b - a = d * y
    BY <1>5 DEF Divides
  <2>2. b = d * x + d * y
    BY <1>1, <2>1
  <2>. QED
    BY <1>2, <2>2 DEF Divides
<1>6. Divides(d, a * b)
  BY <1>1, <1>2 DEF Divides
<1>. QED
  BY <1>3, <1>4, <1>5, <1>6

LEMMA DividesTransitive ==
    ASSUME NEW d \in Int, NEW e \in Int, NEW k \in Int, Divides(d, e), Divides(e, k)
    PROVE Divides(d, k)
<1>1. PICK c \in Int : k = e * c
  BY DEF Divides
<1>. QED
  BY <1>1, DividesBoth

\* An odd number that divides the double of x divides x.
LEMMA DividesHalf ==
    ASSUME NEW i \in Int, NEW x \in Int, Divides(3 + 2 * i, 2 * x)
    PROVE Divides(3 + 2 * i, x)
<1>. DEFINE d == 3 + 2 * i
<1>1. PICK c \in Int : 2 * x = d * c
  BY DEF Divides
<1>2. PICK e \in Int : e = x - (1 + i) * c
  OBVIOUS
<1>3. c = 2 * e
  <2>1. d * c = 2 * ((1 + i) * c) + c
    OBVIOUS
  <2>. QED
    BY <1>1, <1>2, <2>1
<1>4. 2 * x = 2 * (d * e)
  <2>1. d * (2 * e) = 2 * (d * e)
    OBVIOUS
  <2>. QED
    BY <1>1, <1>3, <2>1
<1>5. x = d * e
  BY <1>4
<1>. QED
  BY <1>5 DEF Divides

\* A divisor of a positive number is no greater.
LEMMA DivisorBound ==
    ASSUME NEW d \in Nat \ {0}, NEW k \in Nat \ {0}, Divides(d, k)
    PROVE \E c \in 1 .. k : k = d * c /\ d <= k
<1>1. PICK c \in Int : k = d * c
  BY DEF Divides
<1>2. c <= 0 => d * c <= 0
  OBVIOUS
<1>3. c >= 1
  BY <1>1, <1>2
<1>4. d * c >= d /\ d * c >= c
  BY <1>3
<1>5. c \in 1 .. k /\ d <= k
  BY <1>1, <1>3, <1>4
<1>. QED
  BY <1>1, <1>5

LEMMA EvenOrOdd == \A k \in Int : \E h \in Int : k = 2 * h \/ k = 1 + 2 * h
<1>. TAKE k \in Int
<1>1. k = 2 * (k \div 2) + (k % 2) /\ k \div 2 \in Int /\ (k % 2 = 0 \/ k % 2 = 1)
  OBVIOUS
<1>. QED
  BY <1>1

\* A divisor of an odd number is odd.
LEMMA OddDivisor ==
    ASSUME NEW i \in Int, NEW d \in Int, d > 1, Divides(d, 3 + 2 * i)
    PROVE \E h \in Nat : d = 3 + 2 * h
<1>1. PICK x \in Int : 3 + 2 * i = d * x
  BY DEF Divides
<1>2. PICK h \in Int : d = 2 * h \/ d = 3 + 2 * h
  <2>1. PICK e \in Int : d = 2 * e \/ d = 1 + 2 * e
    BY EvenOrOdd
  <2>2. e \in Int /\ e - 1 \in Int /\ (d = 2 * e \/ d = 3 + 2 * (e - 1))
    BY <2>1
  <2>. QED
    BY <2>2
<1>3. d # 2 * h
  <2>1. (2 * h) * x = 2 * (h * x) /\ h * x \in Int
    OBVIOUS
  <2>2. PICK y \in Int : y = h * x
    OBVIOUS
  <2>3. 3 + 2 * i # 2 * y
    OBVIOUS
  <2>. QED
    BY <1>1, <2>1, <2>2, <2>3
<1>. QED
  BY <1>2, <1>3

IsPrime(k) == k > 1 /\ \A d \in 2 .. k - 1 : ~ Divides(d, k)

LEMMA PrimeDivides ==
    ASSUME NEW k \in Int
    PROVE Sieve!IsPrime(k) <=> IsPrime(k)
<1>1. \A d \in 2 .. k - 1 : k % d = 0 <=> Divides(d, k)
  BY ModZero
<1>. QED
  BY <1>1 DEF Sieve!IsPrime, IsPrime

\* The least divisor of a number that is no prime is a prime, and no greater than its root.
LEMMA LeastDivisor ==
    ASSUME NEW k \in Nat, k > 1, ~ IsPrime(k)
    PROVE \E d \in 2 .. k - 1 : IsPrime(d) /\ Divides(d, k) /\ d * d <= k
<1>. DEFINE D == {d \in 2 .. k - 1 : Divides(d, k)}
<1>1. PICK d \in D : \A e \in D : d <= e
  <2>1. D # {} /\ D \subseteq Nat
    BY DEF IsPrime
  <2>. HIDE DEF D
  <2>. QED
    BY <2>1, LeastNat
<1>2. IsPrime(d)
  <2>1. ASSUME NEW e \in 2 .. d - 1, Divides(e, d) PROVE FALSE
    <3>1. Divides(e, k)
      BY <2>1, DividesTransitive
    <3>. QED
      BY <1>1, <3>1
  <2>. QED
    BY <2>1 DEF IsPrime
<1>3. d * d <= k
  <2>1. PICK c \in 1 .. k : k = d * c
    BY <1>1, DivisorBound
  <2>2. c # 1 /\ c # k
    <3>1. c = 1 => k = d
      BY <2>1
    <3>2. c = k => d * k >= 2 * k
      OBVIOUS
    <3>. QED
      BY <2>1, <3>1, <3>2
  <2>3. Divides(c, k)
    <3>1. k = c * d
      BY <2>1
    <3>. QED
      BY <3>1 DEF Divides
  <2>4. d <= c
    BY <1>1, <2>2, <2>3
  <2>5. d * d <= d * c
    BY <2>4
  <2>. QED
    BY <2>1, <2>5
<1>. QED
  BY <1>1, <1>2, <1>3

(***************************************************************************)
(* The primes that every rank finds by itself                              *)
(***************************************************************************)
SieveTyped == sieve_n \in Nat /\ sieve_p \in Nat \ {0}

Last == Sieve!sqrt_elements

\* The elements of base_primes that the first k turns of the loop set.
SetBefore(k) ==
    {j \in 0 .. Last : \E c \in 0 .. k - 1 : c < j /\ Divides(3 + 2 * c, 3 + 2 * j)}

LEMMA RootFacts ==
    ASSUME SieveTyped
    PROVE /\ Sieve!sqrt_n \in Nat /\ Last \in Nat
          /\ \A d \in Nat : d * d <= sieve_n => d <= Sieve!sqrt_n
<1>. DEFINE S == {r \in 0 .. sieve_n : r * r <= sieve_n}
<1>1. Sieve!sqrt_n \in S /\ \A y \in S : Sieve!sqrt_n >= y
  <2>1. S # {}
    <3>1. 0 \in S
      BY DEF SieveTyped
    <3>. QED
      BY <3>1
  <2>2. PICK m \in S : \A c \in S : c <= m
    <3>1. S \subseteq 0 .. sieve_n
      OBVIOUS
    <3>. HIDE DEF S
    <3>. QED
      BY <2>1, <3>1, GreatestNat DEF SieveTyped
  <2>3. \A y \in S : m >= y
    BY <2>2 DEF SieveTyped
  <2>4. Sieve!sqrt_n = CHOOSE x \in S : \A y \in S : x >= y
    BY DEF Sieve!sqrt_n, Sieve!Max
  <2>. HIDE DEF S
  <2>. QED
    BY <2>2, <2>3, <2>4
<1>2. Last \in Nat
  BY <1>1 DEF SieveTyped, Last, Sieve!sqrt_elements, Sieve!Half
<1>3. ASSUME NEW d \in Nat, d * d <= sieve_n PROVE d \in S
  <2>1. d >= 1 => d <= d * d
    OBVIOUS
  <2>. QED
    BY <1>3, <2>1 DEF SieveTyped
<1>4. Sieve!sqrt_n \in Nat
  BY <1>1 DEF SieveTyped
<1>5. ASSUME NEW d \in Nat, d * d <= sieve_n PROVE d <= Sieve!sqrt_n
  <2>1. Sieve!sqrt_n >= d
    <3>. HIDE DEF S
    <3>. QED
      BY <1>1, <1>3, <1>5
  <2>. QED
    BY <1>4, <2>1
<1>. QED
  BY <1>2, <1>4, <1>5

\* Steps of an odd number from an element of which it is the value, or of a multiple.
LEMMA SteppedIs ==
    ASSUME NEW first \in Int, NEW last \in Int, NEW i \in Nat, NEW j \in Int, NEW low \in Int,
           Divides(3 + 2 * i, low + 2 * first)
    PROVE j \in Sieve!Stepped(first, last, 3 + 2 * i)
            <=> j \in first .. last /\ Divides(3 + 2 * i, low + 2 * j)
<1>. DEFINE q == 3 + 2 * i
<1>1. q \in Nat \ {0}
  OBVIOUS
<1>2. j \in Sieve!Stepped(first, last, q) <=> j \in first .. last /\ Divides(q, j - first)
  <2>1. (j - first) % q = 0 <=> Divides(q, j - first)
    BY <1>1, ModZero
  <2>. QED
    BY <2>1 DEF Sieve!Stepped
<1>3. Divides(q, j - first) <=> Divides(q, 2 * (j - first))
  <2>1. Divides(q, j - first) => Divides(q, (j - first) * 2)
    BY <1>1, DividesBoth
  <2>2. (j - first) * 2 = 2 * (j - first) /\ j - first \in Int
    OBVIOUS
  <2>. QED
    BY <2>1, <2>2, DividesHalf
<1>4. Divides(q, 2 * (j - first)) <=> Divides(q, low + 2 * j)
  <2>1. 2 * (j - first) = (low + 2 * j) - (low + 2 * first)
    OBVIOUS
  <2>. QED
    BY <2>1, DividesBoth
<1>. QED
  BY <1>2, <1>3, <1>4

\* One turn of the loop.
LEMMA SetOneMore ==
    ASSUME SieveTyped, NEW k \in 0 .. Last
    PROVE SetBefore(k + 1) =
            IF k \in SetBefore(k) THEN SetBefore(k)
            ELSE SetBefore(k) \union Sieve!Stepped(k + Sieve!Odd(k), Last, Sieve!Odd(k))
<1>. DEFINE q == 3 + 2 * k
<1>1. Sieve!Odd(k) = q /\ Last \in Nat
  BY RootFacts DEF Sieve!Odd
<1>2. ASSUME NEW j
      PROVE  j \in SetBefore(k + 1) <=>
                \/ j \in SetBefore(k)
                \/ j \in 0 .. Last /\ k < j /\ Divides(q, 3 + 2 * j)
  <2>1. \A c : c \in 0 .. (k + 1) - 1 <=> c \in 0 .. k - 1 \/ c = k
    OBVIOUS
  <2>. QED
    BY <2>1 DEF SetBefore
<1>3. ASSUME NEW j \in Int
      PROVE j \in Sieve!Stepped(k + q, Last, q) <=>
               j \in 0 .. Last /\ k < j /\ Divides(q, 3 + 2 * j)
  <2>1. Divides(q, 3 + 2 * (k + q))
    <3>1. 3 + 2 * (k + q) = q * 3
      OBVIOUS
    <3>. QED
      BY <3>1 DEF Divides
  <2>2. j \in Sieve!Stepped(k + q, Last, q)
          <=> j \in k + q .. Last /\ Divides(q, 3 + 2 * j)
    BY <1>1, <2>1, SteppedIs
  <2>3. ASSUME k < j, Divides(q, 3 + 2 * j) PROVE j >= k + q
    <3>1. Divides(q, 2 * (j - k))
      <4>1. Divides(q, q)
        <5>1. q = q * 1
          OBVIOUS
        <5>. QED
          BY <5>1 DEF Divides
      <4>2. 2 * (j - k) = (3 + 2 * j) - q
        OBVIOUS
      <4>. QED
        BY <2>3, <4>1, <4>2, DividesBoth
    <3>2. Divides(q, j - k)
      BY <3>1, DividesHalf
    <3>3. q <= j - k
      BY <2>3, <3>2, DivisorBound
    <3>. QED
      BY <3>3
  <2>. QED
    BY <1>1, <2>2, <2>3
<1>4. CASE k \in SetBefore(k)
  <2>1. PICK c \in 0 .. k - 1 : Divides(3 + 2 * c, q)
    BY <1>4 DEF SetBefore
  <2>2. ASSUME NEW j \in 0 .. Last, k < j, Divides(q, 3 + 2 * j) PROVE j \in SetBefore(k)
    <3>1. Divides(3 + 2 * c, 3 + 2 * j) /\ c < j
      BY <2>1, <2>2, DividesTransitive
    <3>. QED
      BY <3>1 DEF SetBefore
  <2>3. SetBefore(k + 1) = SetBefore(k)
    BY <1>2, <2>2
  <2>. QED
    BY <1>4, <2>3
<1>5. CASE k \notin SetBefore(k)
  <2>1. \A j : j \in Sieve!Stepped(k + q, Last, q) => j \in Int
    BY <1>1 DEF Sieve!Stepped
  <2>2. \A j : j \in SetBefore(k + 1) <=> j \in SetBefore(k) \/ j \in Sieve!Stepped(k + q, Last, q)
    BY <1>2, <1>3, <2>1
  <2>. QED
    BY <1>1, <1>5, <2>2
<1>. QED
  BY <1>4, <1>5

LEMMA BaseMarkedIs == ASSUME SieveTyped PROVE Sieve!BaseMarked = SetBefore(Last + 1)
<1>. DEFINE G(g, i) == IF i = 0 THEN {}
                       ELSE IF i - 1 \in g[i - 1] THEN g[i - 1]
                       ELSE g[i - 1] \union Sieve!Stepped(i - 1 + Sieve!Odd(i - 1), Last, Sieve!Odd(i - 1))
            all == [i \in 0 .. Last + 1 |-> SetBefore(i)]
            set == CHOOSE g : g = [i \in 0 .. Last + 1 |-> G(g, i)]
<1>1. Sieve!BaseMarked = set[Last + 1]
  BY DEF Sieve!BaseMarked, Last
<1>2. Last \in Nat /\ SetBefore(0) = {}
  BY RootFacts DEF SetBefore
<1>3. ASSUME NEW i \in 0 .. Last + 1 PROVE SetBefore(i) = G(all, i)
  <2>1. CASE i = 0
    BY <1>2, <2>1
  <2>2. CASE i # 0
    <3>1. PICK k \in 0 .. Last : k = i - 1
      BY <1>2, <2>2
    <3>2. SetBefore(k + 1) =
            IF k \in SetBefore(k) THEN SetBefore(k)
            ELSE SetBefore(k) \union Sieve!Stepped(k + Sieve!Odd(k), Last, Sieve!Odd(k))
      BY SetOneMore
    <3>3. i = k + 1 /\ all[k] = SetBefore(k)
      BY <1>2, <3>1
    <3>4. G(all, i) = IF k \in all[k] THEN all[k]
                      ELSE all[k] \union Sieve!Stepped(k + Sieve!Odd(k), Last, Sieve!Odd(k))
      BY <2>2, <3>1
    <3>. QED
      BY <3>2, <3>3, <3>4
  <2>. QED
    BY <2>1, <2>2
<1>4. all = [i \in 0 .. Last + 1 |-> G(all, i)]
  BY <1>3
<1>5. set = [i \in 0 .. Last + 1 |-> G(set, i)]
  <2>. HIDE DEF G, all
  <2>. QED
    BY <1>4
<1>6. ASSUME NEW k \in 0 .. Last + 1, set[k] # SetBefore(k) PROVE FALSE
  <2>. DEFINE wrong == {i \in 0 .. Last + 1 : set[i] # SetBefore(i)}
  <2>1. PICK i \in wrong : \A c \in wrong : i <= c
    <3>1. wrong \subseteq Nat /\ wrong # {}
      <4>. HIDE DEF set
      <4>. QED
        BY <1>2, <1>6
    <3>. HIDE DEF wrong
    <3>. QED
      BY <3>1, LeastNat
  <2>2. set[i] = G(set, i)
    <3>. HIDE DEF G, set
    <3>. QED
      BY <1>5
  <2>3. i # 0
    <3>. HIDE DEF set
    <3>. QED
      BY <1>2, <2>1, <2>2
  <2>4. set[i - 1] = SetBefore(i - 1) /\ all[i - 1] = SetBefore(i - 1)
    <3>1. i - 1 \in 0 .. Last + 1 /\ ~ (i <= i - 1)
      BY <1>2, <2>3
    <3>. HIDE DEF set
    <3>. QED
      BY <2>1, <3>1
  <2>5. G(set, i) = G(all, i)
    <3>. HIDE DEF set, all
    <3>. QED
      BY <2>4
  <2>6. set[i] = SetBefore(i)
    <3>. HIDE DEF G, set
    <3>. QED
      BY <1>3, <2>2, <2>5
  <2>. QED
    BY <2>1, <2>6
<1>7. Last + 1 \in 0 .. Last + 1
  BY <1>2
<1>. QED
  BY <1>1, <1>6, <1>7

\* They are the odd primes up to the root of n, and one more if it is a prime.
LEMMA BasePrimesAre ==
    ASSUME SieveTyped
    PROVE Sieve!BasePrimes = {q \in {3 + 2 * i : i \in 0 .. Last} : IsPrime(q)}
<1>1. Last \in Nat
  BY RootFacts
<1>2. ASSUME NEW i \in 0 .. Last PROVE i \notin Sieve!BaseMarked <=> IsPrime(3 + 2 * i)
  <2>1. i \in Sieve!BaseMarked <=> \E c \in 0 .. Last : c < i /\ Divides(3 + 2 * c, 3 + 2 * i)
    <3>1. (Last + 1) - 1 = Last
      BY <1>1
    <3>. QED
      BY <3>1, BaseMarkedIs DEF SetBefore
  <2>2. ASSUME NEW c \in 0 .. Last, c < i, Divides(3 + 2 * c, 3 + 2 * i)
        PROVE ~ IsPrime(3 + 2 * i)
    <3>1. 3 + 2 * c \in 2 .. (3 + 2 * i) - 1
      BY <2>2
    <3>. QED
      BY <2>2, <3>1 DEF IsPrime
  <2>3. ASSUME NEW d \in 2 .. (3 + 2 * i) - 1, Divides(d, 3 + 2 * i)
        PROVE \E c \in 0 .. Last : c < i /\ Divides(3 + 2 * c, 3 + 2 * i)
    <3>1. PICK h \in Nat : d = 3 + 2 * h
      BY <2>3, OddDivisor
    <3>2. h \in 0 .. Last /\ h < i
      BY <1>1, <3>1
    <3>. QED
      BY <2>3, <3>1, <3>2
  <2>. QED
    BY <1>1, <2>1, <2>2, <2>3 DEF IsPrime
<1>. QED
  BY <1>2 DEF Sieve!BasePrimes, Sieve!Odd, Last

(***************************************************************************)
(* What is struck out of a piece                                           *)
(***************************************************************************)
LEMMA Division ==
    ASSUME NEW a \in Int, NEW d \in Nat \ {0}
    PROVE \E e \in Int, r \in 0 .. d - 1 : a \div d = e /\ a % d = r /\ a = d * e + r
<1>1. a = d * (a \div d) + (a % d) /\ a % d \in 0 .. d - 1 /\ a \div d \in Int
  OBVIOUS
<1>. QED
  BY <1>1

LEMMA DivisionGrows ==
    ASSUME NEW a \in Int, NEW b \in Int, a <= b, NEW d \in Nat \ {0}
    PROVE a \div d <= b \div d
<1>1. PICK e \in Int, r \in 0 .. d - 1 : a \div d = e /\ a = d * e + r
  BY Division
<1>2. PICK f \in Int, s \in 0 .. d - 1 : b \div d = f /\ b = d * f + s
  BY Division
<1>3. e > f => d * e >= d * f + d
  <2>1. e - f >= 1 => d * (e - f) >= d
    OBVIOUS
  <2>2. d * (e - f) = d * e - d * f
    OBVIOUS
  <2>. QED
    BY <2>1, <2>2
<1>4. ~ (e > f)
  BY <1>1, <1>2, <1>3
<1>. QED
  BY <1>1, <1>2, <1>4

\* The next odd multiple of q after an odd number that is none.
LEMMA NextMultiple ==
    ASSUME NEW i \in Nat, NEW low \in Int, NEW l \in Int,
           low = 1 + 2 * l, low % (3 + 2 * i) # 0
    PROVE LET q == 3 + 2 * i
              above == low + (q - (low % q))
              multiple == IF above % 2 = 0 THEN above + q ELSE above
          IN  /\ Divides(q, multiple)
              /\ \E y \in Int : y > l /\ multiple = 1 + 2 * y
              /\ \A x \in Int : x >= l /\ Divides(q, 1 + 2 * x) => 1 + 2 * x >= multiple
<1>. DEFINE q == 3 + 2 * i
            above == low + (q - (low % q))
            multiple == IF above % 2 = 0 THEN above + q ELSE above
<1>1. q \in Nat \ {0} /\ low \in Int
  OBVIOUS
<1>2. PICK e \in Int, r \in 0 .. q - 1 : low % q = r /\ low = q * e + r
  BY <1>1, Division
<1>3. r > 0
  BY <1>2
<1>4. above = q * e + q /\ above > low /\ above \in Int
  <2>1. q * e \in Int
    BY <1>1
  <2>. QED
    BY <1>1, <1>2, <2>1
<1>5. q * (e + 1) = q * e + q /\ q * (e + 2) = (q * e + q) + q
  OBVIOUS
<1>6. PICK h \in Int : above = 2 * h \/ above = 1 + 2 * h
  <2>. HIDE DEF above
  <2>. QED
    BY <1>4, EvenOrOdd
<1>7. multiple = IF above = 2 * h THEN above + q ELSE above
  <2>1. above = 2 * h => above % 2 = 0
    BY <1>4
  <2>2. above = 1 + 2 * h => above % 2 # 0 /\ above # 2 * h
    BY <1>4
  <2>. QED
    BY <1>6, <2>1, <2>2
<1>8. multiple = IF above = 2 * h THEN q * (e + 2) ELSE q * (e + 1)
  BY <1>4, <1>5, <1>7
<1>9. Divides(q, multiple)
  <2>. HIDE DEF q, above, multiple
  <2>. QED
    BY <1>8 DEF Divides
<1>10. \E y \in Int : y > l /\ multiple = 1 + 2 * y
  <2>. HIDE DEF above, multiple
  <2>1. CASE above = 2 * h
    <3>1. multiple = 1 + 2 * (h + i + 1) /\ h + i + 1 > l /\ h + i + 1 \in Int
      BY <1>4, <1>7, <2>1
    <3>. QED
      BY <3>1
  <2>2. CASE above # 2 * h
    BY <1>4, <1>6, <1>7, <2>2
  <2>. QED
    BY <2>1, <2>2
<1>11. ASSUME NEW x \in Int, x >= l, Divides(q, 1 + 2 * x) PROVE 1 + 2 * x >= multiple
  <2>1. PICK c \in Int : 1 + 2 * x = q * c
    BY <1>11 DEF Divides
  <2>2. c > e
    <3>1. c <= e => q * c <= q * e
      BY <1>1
    <3>. QED
      BY <1>2, <1>3, <1>11, <2>1, <3>1
  <2>3. c >= e + 1 => q * c >= q * (e + 1)
    BY <1>1
  <2>4. c >= e + 2 => q * c >= q * (e + 2)
    BY <1>1
  <2>5. above = 2 * h => c # e + 1
    <3>1. c = e + 1 => above = 1 + 2 * x
      BY <1>4, <1>5, <2>1
    <3>. QED
      BY <3>1
  <2>. HIDE DEF q, above, multiple
  <2>. QED
    BY <1>8, <2>1, <2>2, <2>3, <2>4, <2>5
<1>. QED
  BY <1>9, <1>10, <1>11

\* From its first element on, a piece loses the multiples of a prime that are no less than
\* the prime's square, and nothing else.
LEMMA Struck ==
    ASSUME NEW i \in Nat, NEW id, NEW b, NEW last \in Int, NEW j \in Int,
           Sieve!BLOCK_LOW(id) \in Int, Sieve!block_start_idx(b) \in Int
    PROVE  j \in Sieve!Stepped(Sieve!First(id, b, 3 + 2 * i), last, 3 + 2 * i)
             <=> /\ Sieve!block_start_idx(b) <= j /\ j <= last
                 /\ Divides(3 + 2 * i, Sieve!low_value(id) + 2 * j)
                 /\ (3 + 2 * i) * (3 + 2 * i) <= Sieve!low_value(id) + 2 * j
<1>. DEFINE q == 3 + 2 * i
            B == Sieve!BLOCK_LOW(id)
            s == Sieve!block_start_idx(b)
            lv == 3 + 2 * B
            low == lv + 2 * s
            above == low + (q - (low % q))
            multiple == IF above % 2 = 0 THEN above + q ELSE above
            F == Sieve!First(id, b, q)
<1>1. Sieve!low_value(id) = lv /\ Sieve!block_low_val(id, b) = low
  BY DEF Sieve!low_value, Sieve!block_low_val
<1>2. F = IF q * q > low THEN (q * q - lv) \div 2
          ELSE IF low % q = 0 THEN s
          ELSE (multiple - lv) \div 2
  BY <1>1 DEF Sieve!First
<1>3. q \in Nat \ {0} /\ lv \in Int /\ low \in Int /\ B \in Int /\ s \in Int /\ q * q \in Int
  OBVIOUS
<1>. HIDE DEF F
\* It is enough that the first element struck out is the least that may be.
<1>4. SUFFICES /\ F \in Int /\ F >= s
               /\ Divides(q, lv + 2 * F)
               /\ F <= j => q * q <= lv + 2 * j
               /\ s <= j /\ Divides(q, lv + 2 * j) /\ q * q <= lv + 2 * j => F <= j
  <2>1. j \in Sieve!Stepped(F, last, q) <=> j \in F .. last /\ Divides(q, lv + 2 * j)
    <3>1. F \in Int /\ Divides(3 + 2 * i, lv + 2 * F) /\ lv \in Int
      BY <1>3, <1>4
    <3>. HIDE DEF lv
    <3>. QED
      BY <3>1, SteppedIs
  <2>2. j \in F .. last <=> F <= j /\ j <= last
    BY <1>4
  <2>. QED
    BY <1>1, <1>3, <1>4, <2>1, <2>2 DEF F
<1>5. CASE q * q > low
  <2>1. PICK x \in Int : q * q = lv + 2 * x
    <3>1. q * q = 9 + 2 * (6 * i + 2 * (i * i)) /\ i * i \in Int
      OBVIOUS
    <3>2. PICK m \in Int : m = i * i
      BY <3>1
    <3>3. PICK x \in Int : x = (3 + 6 * i + 2 * m) - B
      BY <1>3
    <3>4. 9 + 2 * (6 * i + 2 * m) = lv + 2 * x
      BY <1>3, <3>3
    <3>. QED
      BY <3>1, <3>2, <3>4
  <2>2. F = x
    <3>1. q * q - lv = 2 * x
      BY <1>3, <2>1
    <3>2. (2 * x) \div 2 = x
      OBVIOUS
    <3>. QED
      BY <1>2, <1>5, <3>1, <3>2
  <2>3. Divides(q, q * q)
    <3>. HIDE DEF q
    <3>. QED
      BY <1>3, DividesProduct
  <2>. QED
    BY <1>3, <1>5, <2>1, <2>2, <2>3
<1>6. CASE ~ (q * q > low) /\ low % q = 0
  <2>1. F = s /\ Divides(q, low)
    BY <1>2, <1>3, <1>6, ModZero
  <2>. QED
    BY <1>3, <1>6, <2>1
<1>7. CASE ~ (q * q > low) /\ low % q # 0
  <2>1. PICK l \in Int : l = 1 + B + s
    BY <1>3
  <2>2. low = 1 + 2 * l
    BY <1>3, <2>1
  <2>3. /\ Divides(q, multiple)
        /\ \E y \in Int : y > l /\ multiple = 1 + 2 * y
        /\ \A x \in Int : x >= l /\ Divides(q, 1 + 2 * x) => 1 + 2 * x >= multiple
    <3>. HIDE DEF low
    <3>. QED
      BY <1>3, <1>7, <2>2, NextMultiple, ZenonT(30)
  <2>. HIDE DEF multiple, above
  <2>4. PICK y \in Int : y > l /\ multiple = 1 + 2 * y
    BY <2>3
  <2>5. F = y - 1 - B
    <3>1. multiple - lv = 2 * (y - 1 - B)
      BY <1>3, <2>4
    <3>2. PICK z \in Int : z = y - 1 - B
      BY <1>3
    <3>3. (2 * z) \div 2 = z
      OBVIOUS
    <3>. QED
      BY <1>2, <1>7, <3>1, <3>2, <3>3
  <2>6. F \in Int /\ F >= s /\ lv + 2 * F = multiple
    BY <1>3, <2>1, <2>4, <2>5
  <2>7. F <= j => q * q <= lv + 2 * j
    BY <1>3, <1>7, <2>6
  <2>8. ASSUME s <= j, Divides(q, lv + 2 * j) PROVE F <= j
    <3>1. PICK x \in Int : x = 1 + B + j
      BY <1>3
    <3>2. x >= l /\ lv + 2 * j = 1 + 2 * x
      BY <1>3, <2>1, <2>8, <3>1
    <3>3. 1 + 2 * x >= multiple
      BY <2>3, <2>8, <3>2
    <3>. QED
      BY <1>3, <2>6, <3>2, <3>3
  <2>. QED
    BY <2>3, <2>6, <2>7, <2>8
<1>. QED
  BY <1>5, <1>6, <1>7

(***************************************************************************)
(* The array and its pieces                                                *)
(***************************************************************************)
LEMMA ElementsAre ==
    ASSUME SieveTyped
    PROVE /\ Sieve!elements \in Nat
          /\ \A j \in Nat : j < Sieve!elements <=> 3 + 2 * j <= sieve_n
<1>1. CASE sieve_n = 0
  BY <1>1 DEF Sieve!elements, Sieve!Half
<1>2. CASE sieve_n # 0
  BY <1>2 DEF Sieve!elements, Sieve!Half, SieveTyped
<1>. QED
  BY <1>1, <1>2

LEMMA Composite ==
    ASSUME SieveTyped, NEW j \in Nat, 3 + 2 * j <= sieve_n
    PROVE ~ IsPrime(3 + 2 * j)
            <=> \E i \in 0 .. Last : /\ IsPrime(3 + 2 * i)
                                     /\ Divides(3 + 2 * i, 3 + 2 * j)
                                     /\ (3 + 2 * i) * (3 + 2 * i) <= 3 + 2 * j
<1>1. ASSUME NEW i \in Nat, Divides(3 + 2 * i, 3 + 2 * j),
             (3 + 2 * i) * (3 + 2 * i) <= 3 + 2 * j
      PROVE ~ IsPrime(3 + 2 * j)
  <2>1. (3 + 2 * i) * (3 + 2 * i) = 9 + 12 * i + 4 * (i * i) /\ i * i >= 0
    OBVIOUS
  <2>2. PICK m \in Nat : m = i * i
    OBVIOUS
  <2>3. 3 + 2 * i \in 2 .. (3 + 2 * j) - 1
    BY <1>1, <2>1, <2>2
  <2>. QED
    BY <1>1, <2>3 DEF IsPrime
<1>2. ASSUME ~ IsPrime(3 + 2 * j)
      PROVE \E i \in 0 .. Last : /\ IsPrime(3 + 2 * i)
                                /\ Divides(3 + 2 * i, 3 + 2 * j)
                                /\ (3 + 2 * i) * (3 + 2 * i) <= 3 + 2 * j
  <2>1. PICK d \in 2 .. (3 + 2 * j) - 1 : IsPrime(d) /\ Divides(d, 3 + 2 * j) /\ d * d <= 3 + 2 * j
    BY <1>2, LeastDivisor
  <2>2. PICK h \in Nat : d = 3 + 2 * h
    BY <2>1, OddDivisor
  <2>3. d <= Sieve!sqrt_n
    <3>1. d * d <= sieve_n
      BY <2>1 DEF SieveTyped
    <3>. QED
      BY <3>1, RootFacts
  <2>4. h \in 0 .. Last
    BY <2>2, <2>3, RootFacts DEF Last, Sieve!sqrt_elements, Sieve!Half
  <2>. QED
    BY <2>1, <2>2, <2>4
<1>3. 0 .. Last \subseteq Nat
  BY RootFacts
<1>. QED
  BY <1>1, <1>2, <1>3

LEMMA LeastOfTwo ==
    ASSUME NEW a \in Int, NEW b \in Int
    PROVE Sieve!Min({a, b}) = IF a <= b THEN a ELSE b
<1>1. Sieve!Min({a, b}) = CHOOSE x \in {a, b} : \A y \in {a, b} : x <= y
  BY DEF Sieve!Min
<1>2. \E x \in {a, b} : \A y \in {a, b} : x <= y
  OBVIOUS
<1>. QED
  BY <1>1, <1>2

LEMMA BlockFacts ==
    ASSUME SieveTyped
    PROVE /\ Sieve!BLOCK_LOW(0) = 0 /\ Sieve!BLOCK_LOW(sieve_p) = Sieve!elements
          /\ \A id \in Nat : Sieve!BLOCK_LOW(id) \in Nat
          /\ \A a, b \in Nat : a <= b => Sieve!BLOCK_LOW(a) <= Sieve!BLOCK_LOW(b)
          /\ \A id \in Sieve!Ranks : /\ id \in Nat /\ id + 1 <= sieve_p
                                     /\ Sieve!BLOCK_SIZE(id) \in Nat
                                     /\ Sieve!BLOCK_LOW(id) + Sieve!BLOCK_SIZE(id)
                                            = Sieve!BLOCK_LOW(id + 1)
                                     /\ Sieve!BLOCK_LOW(id + 1) <= Sieve!elements
<1>. DEFINE e == Sieve!elements
<1>1. e \in Nat /\ sieve_p \in Nat \ {0}
  BY ElementsAre DEF SieveTyped
<1>. HIDE DEF e
<1>2. \A id : Sieve!BLOCK_LOW(id) = (id * e) \div sieve_p
  BY DEF Sieve!BLOCK_LOW, e
<1>3. ASSUME NEW a \in Nat, NEW b \in Nat, a <= b
      PROVE (a * e) \div sieve_p <= (b * e) \div sieve_p
  <2>1. a * e \in Int /\ b * e \in Int /\ a * e <= b * e
    <3>1. b * e = a * e + (b - a) * e /\ (b - a) * e >= 0
      BY <1>1, <1>3
    <3>. QED
      BY <1>1, <3>1
  <2>. QED
    BY <1>1, <2>1, DivisionGrows
<1>4. (0 * e) \div sieve_p = 0
  <2>1. 0 * e = 0
    BY <1>1
  <2>2. PICK x \in Int, r \in 0 .. sieve_p - 1 : 0 \div sieve_p = x /\ 0 = sieve_p * x + r
    BY <1>1, Division
  <2>3. x >= 1 => sieve_p * x >= sieve_p
    BY <1>1
  <2>4. x <= -1 => sieve_p * x <= - sieve_p
    BY <1>1
  <2>. QED
    BY <1>1, <2>1, <2>2, <2>3, <2>4
<1>5. (sieve_p * e) \div sieve_p = e
  <2>1. PICK x \in Int, r \in 0 .. sieve_p - 1 :
           (sieve_p * e) \div sieve_p = x /\ sieve_p * e = sieve_p * x + r
    BY <1>1, Division
  <2>2. PICK z \in Int : z = e - x
    BY <1>1
  <2>3. sieve_p * z = r
    <3>1. sieve_p * (e - x) = sieve_p * e - sieve_p * x
      BY <1>1
    <3>2. sieve_p * e \in Int /\ sieve_p * x \in Int
      BY <1>1
    <3>. QED
      BY <2>1, <2>2, <3>1, <3>2
  <2>4. z >= 1 => sieve_p * z >= sieve_p
    BY <1>1
  <2>5. z <= -1 => sieve_p * z <= - sieve_p
    BY <1>1
  <2>. QED
    BY <1>1, <2>1, <2>2, <2>3, <2>4, <2>5
<1>6. ASSUME NEW id \in Nat PROVE (id * e) \div sieve_p \in Nat
  <2>1. (0 * e) \div sieve_p <= (id * e) \div sieve_p
    BY <1>3
  <2>2. (id * e) \div sieve_p \in Int
    <3>1. id * e \in Int
      BY <1>1
    <3>. QED
      BY <1>1, <3>1, Division
  <2>. QED
    BY <1>4, <2>1, <2>2
<1>7. ASSUME NEW id \in Sieve!Ranks
      PROVE  /\ id \in Nat /\ id + 1 <= sieve_p
             /\ Sieve!BLOCK_SIZE(id) \in Nat
             /\ Sieve!BLOCK_LOW(id) + Sieve!BLOCK_SIZE(id) = Sieve!BLOCK_LOW(id + 1)
             /\ Sieve!BLOCK_LOW(id + 1) <= e
  <2>1. id \in Nat /\ id + 1 \in Nat /\ id + 1 <= sieve_p /\ id <= id + 1
    BY <1>1 DEF Sieve!Ranks
  <2>2. Sieve!BLOCK_LOW(id) \in Nat /\ Sieve!BLOCK_LOW(id + 1) \in Nat
        /\ Sieve!BLOCK_LOW(id) <= Sieve!BLOCK_LOW(id + 1)
    BY <1>2, <1>3, <1>6, <2>1
  <2>3. Sieve!BLOCK_LOW(id + 1) <= e
    BY <1>1, <1>2, <1>3, <1>5, <2>1
  <2>. QED
    BY <2>1, <2>2, <2>3 DEF Sieve!BLOCK_SIZE
<1>. QED
  BY <1>2, <1>3, <1>4, <1>5, <1>6, <1>7 DEF e

\* The pieces of a rank are its block, and the last is not empty.
LEMMA PiecesFacts ==
    ASSUME SieveTyped, CACHE_L1_SIZE \in Nat \ {0}, NEW id \in Sieve!Ranks
    PROVE /\ Sieve!num_blocks(id) \in Nat
          /\ Sieve!BLOCK_SIZE(id) <= Sieve!num_blocks(id) * CACHE_L1_SIZE
<1>1. PICK s \in Nat : s = Sieve!BLOCK_SIZE(id)
  BY BlockFacts
<1>2. PICK a \in Nat : a = s + CACHE_L1_SIZE - 1
  OBVIOUS
<1>3. PICK x \in Int, r \in 0 .. CACHE_L1_SIZE - 1 :
         a \div CACHE_L1_SIZE = x /\ a = CACHE_L1_SIZE * x + r
  BY Division
<1>4. x >= 0
  <2>1. x <= -1 => CACHE_L1_SIZE * x <= - CACHE_L1_SIZE
    OBVIOUS
  <2>. QED
    BY <1>3, <2>1
<1>5. s <= CACHE_L1_SIZE * x
  <2>1. CACHE_L1_SIZE * x \in Int
    OBVIOUS
  <2>. QED
    BY <1>2, <1>3, <2>1
<1>6. Sieve!num_blocks(id) = x
  BY <1>1, <1>2, <1>3 DEF Sieve!num_blocks
<1>7. CACHE_L1_SIZE * x = x * CACHE_L1_SIZE
  OBVIOUS
<1>. QED
  BY <1>1, <1>4, <1>5, <1>6, <1>7

(***************************************************************************)
(* The order of the primes                                                 *)
(***************************************************************************)
Before(q) == {r \in Sieve!BasePrimes : r < q}

LEMMA BasePrimesFinite ==
    ASSUME SieveTyped
    PROVE /\ IsFiniteSet(Sieve!BasePrimes)
          /\ Sieve!BasePrimes \subseteq Nat
          /\ Cardinality(Sieve!BasePrimes) \in Nat
          /\ \A q : IsFiniteSet(Before(q)) /\ Cardinality(Before(q)) \in Nat
<1>. DEFINE top == 3 + 2 * Last
<1>1. Sieve!BasePrimes \subseteq 0 .. top
  BY RootFacts, BasePrimesAre
<1>2. IsFiniteSet(0 .. top)
  BY RootFacts, FS_Interval
<1>3. IsFiniteSet(Sieve!BasePrimes)
  <2>. HIDE DEF top
  <2>. QED
    BY <1>1, <1>2, FS_Subset
<1>4. \A q : Before(q) \subseteq Sieve!BasePrimes
  BY DEF Before
<1>. QED
  BY <1>1, <1>3, <1>4, FS_Subset, FS_CardinalityType

LEMMA OrderGrows ==
    ASSUME SieveTyped, NEW q \in Sieve!BasePrimes, NEW r \in Sieve!BasePrimes, q < r
    PROVE Cardinality(Before(q)) < Cardinality(Before(r))
<1>1. q \in Nat /\ r \in Nat /\ Sieve!BasePrimes \subseteq Nat
  BY BasePrimesFinite
<1>2. Before(q) \subseteq Before(r)
  <2>1. ASSUME NEW x \in Before(q) PROVE x \in Before(r)
    <3>1. x \in Sieve!BasePrimes /\ x < q
      BY <2>1 DEF Before
    <3>2. x \in Nat /\ x < r
      BY <1>1, <3>1
    <3>. QED
      BY <3>1, <3>2 DEF Before
  <2>. QED
    BY <2>1
<1>3. q \in Before(r) /\ q \notin Before(q)
  BY <1>1 DEF Before
<1>. QED
  BY <1>2, <1>3, BasePrimesFinite, FS_Subset

\* Distinct primes have distinct places, and every place below their number is taken.
LEMMA OrderInjective ==
    ASSUME SieveTyped, NEW q \in Sieve!BasePrimes, NEW r \in Sieve!BasePrimes,
           Cardinality(Before(q)) = Cardinality(Before(r))
    PROVE q = r
<1>1. q \in Nat /\ r \in Nat
  BY BasePrimesFinite
<1>2. ~ (q < r) /\ ~ (r < q)
  BY OrderGrows, BasePrimesFinite
<1>. QED
  BY <1>1, <1>2

LEMMA OrderOnto ==
    ASSUME SieveTyped, NEW k \in Nat, k < Cardinality(Sieve!BasePrimes)
    PROVE \E q \in Sieve!BasePrimes : Cardinality(Before(q)) = k
<1>. DEFINE B == Sieve!BasePrimes
            V == {s \in B : Cardinality(Before(s)) < k}
            f == [s \in V |-> Cardinality(Before(s))]
<1>1. IsFiniteSet(V) /\ Cardinality(V) \in Nat
  BY BasePrimesFinite, FS_Subset, FS_CardinalityType
<1>2. Cardinality(V) <= k
  <2>1. f \in Injection(V, 0 .. k - 1)
    <3>1. f \in [V -> 0 .. k - 1]
      BY BasePrimesFinite
    <3>2. \A s, t \in V : f[s] = f[t] => s = t
      BY OrderInjective
    <3>. HIDE DEF f, V
    <3>. QED
      BY <3>1, <3>2 DEF Injection, IsInjective
  <2>2. IsFiniteSet(0 .. k - 1) /\ Cardinality(0 .. k - 1) = k
    BY FS_Interval
  <2>3. \E g : g \in Injection(V, 0 .. k - 1)
    BY <2>1
  <2>. HIDE DEF V, f
  <2>. QED
    BY <2>2, <2>3, FS_Injection
<1>3. PICK q \in B \ V : \A c \in B \ V : q <= c
  <2>1. B \ V # {}
    BY <1>2, BasePrimesFinite
  <2>2. B \ V \subseteq Nat
    BY BasePrimesFinite
  <2>. HIDE DEF B, V
  <2>. QED
    BY <2>1, <2>2, LeastNat
<1>4. Before(q) \subseteq V
  <2>1. ASSUME NEW r \in Before(q), r \notin V PROVE FALSE
    <3>1. r \in B \ V /\ r < q
      BY <2>1 DEF Before
    <3>2. q <= r
      <4>. HIDE DEF B, V
      <4>. QED
        BY <1>3, <3>1
    <3>3. r \in Nat /\ q \in Nat
      BY <3>1, BasePrimesFinite
    <3>. QED
      BY <3>1, <3>2, <3>3
  <2>. QED
    BY <2>1
<1>5. Cardinality(Before(q)) <= Cardinality(V)
  <2>. HIDE DEF V
  <2>. QED
    BY <1>1, <1>4, FS_Subset
<1>. QED
  BY <1>1, <1>2, <1>3, <1>5, BasePrimesFinite

\* The prime of a turn of the loop.
LEMMA PrimeOfTurn ==
    ASSUME SieveTyped, NEW k \in Nat, k < Cardinality(Sieve!BasePrimes)
    PROVE LET q == Sieve!Min({r \in Sieve!BasePrimes :
                                Cardinality({s \in Sieve!BasePrimes : s < r}) = k})
          IN  q \in Sieve!BasePrimes /\ Cardinality(Before(q)) = k
<1>. DEFINE S == {r \in Sieve!BasePrimes : Cardinality({s \in Sieve!BasePrimes : s < r}) = k}
<1>1. S = {r \in Sieve!BasePrimes : Cardinality(Before(r)) = k}
  BY DEF Before
<1>2. PICK q \in S : TRUE
  BY <1>1, OrderOnto
<1>3. \A r \in S : r = q /\ r \in Nat
  BY <1>1, <1>2, OrderInjective, BasePrimesFinite
<1>4. Sieve!Min(S) \in S
  <2>1. Sieve!Min(S) = CHOOSE x \in S : \A y \in S : x <= y
    BY DEF Sieve!Min
  <2>. HIDE DEF S
  <2>2. \E x \in S : \A y \in S : x <= y
    BY <1>2, <1>3
  <2>. QED
    BY <2>1, <2>2
<1>. QED
  BY <1>1, <1>4

(***************************************************************************)
(* The sieves                                                              *)
(***************************************************************************)
SieveTypes ==
    /\ sieve \in {"domain", "functional", "domainSieve", "funcSieve"}
    /\ SieveTyped
    /\ next \in [Sieve!Ranks -> Nat]
    /\ marked \in [Sieve!Ranks -> SUBSET Int]

\* What the primes of a rank that have had their turn strike out of its array.
PrimesDone ==
    ~ Sieve!IsDomain =>
        \A id \in Sieve!Ranks : \A j \in 0 .. Sieve!elements - 1 :
            j \in marked[id] <=> \E q \in Sieve!BasePrimes :
                                    /\ Sieve!Assigned(id, q)
                                    /\ Cardinality(Before(q)) < next[id]
                                    /\ Divides(q, 3 + 2 * j) /\ q * q <= 3 + 2 * j

SieveInv ==
    /\ SieveTypes
    /\ Sieve!InsideArray
    /\ Sieve!PiecesDone
    /\ PrimesDone
    /\ Sieve!CountRight

\* A piece loses its composite numbers.
LEMMA PieceLoses ==
    ASSUME SieveTyped, CACHE_L1_SIZE \in Nat \ {0}, NEW id \in Sieve!Ranks, NEW b \in Nat,
           NEW j \in Int
    PROVE  j \in UNION {Sieve!Stepped(Sieve!First(id, b, q), Sieve!block_end_idx(id, b), q) :
                           q \in Sieve!BasePrimes}
             <=> /\ b * CACHE_L1_SIZE <= j
                 /\ j < (b + 1) * CACHE_L1_SIZE
                 /\ j < Sieve!BLOCK_SIZE(id)
                 /\ ~ IsPrime(Sieve!low_value(id) + 2 * j)
<1>. DEFINE C == CACHE_L1_SIZE
            last == Sieve!block_end_idx(id, b)
            B == Sieve!BLOCK_LOW(id)
            v == Sieve!low_value(id) + 2 * j
<1>1. B \in Nat /\ Sieve!BLOCK_SIZE(id) \in Nat /\ B + Sieve!BLOCK_SIZE(id) <= Sieve!elements
  BY BlockFacts
<1>2. b * C \in Nat /\ (b + 1) * C \in Nat /\ Sieve!block_start_idx(b) = b * C
  BY DEF Sieve!block_start_idx
<1>3. last \in Int /\ (j <= last <=> j < (b + 1) * C /\ j < Sieve!BLOCK_SIZE(id))
  BY <1>1, <1>2, LeastOfTwo DEF Sieve!block_end_idx
<1>4. v = 3 + 2 * (B + j)
  BY <1>1 DEF Sieve!low_value
<1>. HIDE DEF last, v, B
<1>5. ASSUME NEW i \in 0 .. Last
      PROVE  j \in Sieve!Stepped(Sieve!First(id, b, 3 + 2 * i), last, 3 + 2 * i)
               <=> /\ b * C <= j /\ j <= last
                   /\ Divides(3 + 2 * i, v) /\ (3 + 2 * i) * (3 + 2 * i) <= v
  <2>1. i \in Nat /\ Sieve!BLOCK_LOW(id) \in Int /\ Sieve!block_start_idx(b) \in Int
    BY <1>1, <1>2, RootFacts DEF B
  <2>2. j \in Sieve!Stepped(Sieve!First(id, b, 3 + 2 * i), last, 3 + 2 * i)
          <=> /\ Sieve!block_start_idx(b) <= j /\ j <= last
              /\ Divides(3 + 2 * i, Sieve!low_value(id) + 2 * j)
              /\ (3 + 2 * i) * (3 + 2 * i) <= Sieve!low_value(id) + 2 * j
    BY <1>3, <2>1, Struck
  <2>. QED
    BY <1>2, <2>2 DEF v
<1>6. j \in UNION {Sieve!Stepped(Sieve!First(id, b, q), last, q) : q \in Sieve!BasePrimes}
        <=> \E i \in 0 .. Last :
               IsPrime(3 + 2 * i) /\ j \in Sieve!Stepped(Sieve!First(id, b, 3 + 2 * i), last, 3 + 2 * i)
  BY BasePrimesAre
<1>7. ASSUME b * C <= j, j <= last
      PROVE ~ IsPrime(v) <=> \E i \in 0 .. Last : /\ IsPrime(3 + 2 * i)
                                                 /\ Divides(3 + 2 * i, v)
                                                 /\ (3 + 2 * i) * (3 + 2 * i) <= v
  <2>1. PICK k \in Nat : k = B + j
    BY <1>1, <1>2, <1>7
  <2>2. k < Sieve!elements
    BY <1>1, <1>3, <1>7, <2>1, ElementsAre DEF B
  <2>. QED
    BY <1>4, <2>1, <2>2, ElementsAre, Composite
<1>. QED
  BY <1>3, <1>5, <1>6, <1>7 DEF last, v

LEMMA SieveNumberIs ==
    ASSUME SieveTyped, NEW id \in Sieve!Ranks, NEW j \in Nat
    PROVE Sieve!IsPrime(Sieve!low_value(id) + 2 * j) <=> IsPrime(Sieve!low_value(id) + 2 * j)
<1>1. Sieve!low_value(id) + 2 * j \in Int
  BY BlockFacts DEF Sieve!low_value
<1>. QED
  BY <1>1, PrimeDivides

\* What depends on the program, n and p alone.
LEMMA SieveSame ==
    ASSUME UNCHANGED <<sieve, sieve_n, sieve_p>>
    PROVE /\ Sieve!BasePrimes' = Sieve!BasePrimes
          /\ Sieve!elements' = Sieve!elements
          /\ Sieve!Ranks' = Sieve!Ranks
          /\ Sieve!IsDomain' <=> Sieve!IsDomain
          /\ \A id : /\ Sieve!BLOCK_SIZE(id)' = Sieve!BLOCK_SIZE(id)
                     /\ Sieve!low_value(id)' = Sieve!low_value(id)
                     /\ Sieve!num_blocks(id)' = Sieve!num_blocks(id)
                     /\ \A q : Sieve!Assigned(id, q)' <=> Sieve!Assigned(id, q)
          /\ \A q : Before(q)' = Before(q)
<1>1. Sieve!sqrt_n' = Sieve!sqrt_n
  <2>1. Sieve!Max({r \in 0 .. sieve_n' : r * r <= sieve_n'})
          = Sieve!Max({r \in 0 .. sieve_n : r * r <= sieve_n})
    OBVIOUS
  <2>. QED
    BY <2>1 DEF Sieve!sqrt_n
<1>2. Sieve!sqrt_elements' = Sieve!sqrt_elements
  BY <1>1 DEF Sieve!sqrt_elements, Sieve!Half
<1>3. Sieve!BaseMarked' = Sieve!BaseMarked
  BY <1>2 DEF Sieve!BaseMarked, Sieve!Stepped, Sieve!Odd
<1>4. Sieve!BasePrimes' = Sieve!BasePrimes
  BY <1>2, <1>3 DEF Sieve!BasePrimes, Sieve!Odd
<1>5. Sieve!elements' = Sieve!elements
  BY DEF Sieve!elements, Sieve!Half
<1>6. \A id : Sieve!BLOCK_LOW(id)' = Sieve!BLOCK_LOW(id)
  BY <1>5 DEF Sieve!BLOCK_LOW
<1>7. \A id : Sieve!BLOCK_SIZE(id)' = Sieve!BLOCK_SIZE(id)
  BY <1>6 DEF Sieve!BLOCK_SIZE
<1>8. \A id : /\ Sieve!low_value(id)' = Sieve!low_value(id)
              /\ Sieve!num_blocks(id)' = Sieve!num_blocks(id)
  BY <1>6, <1>7 DEF Sieve!num_blocks, Sieve!low_value
<1>9. \A id, q : Sieve!Assigned(id, q)' <=> Sieve!Assigned(id, q)
  BY <1>4 DEF Sieve!Assigned
<1>10. Sieve!Ranks' = Sieve!Ranks
  BY DEF Sieve!Ranks
<1>11. Sieve!IsDomain' <=> Sieve!IsDomain
  BY DEF Sieve!IsDomain
<1>12. \A q : Before(q)' = Before(q)
  BY <1>4 DEF Before
<1>. QED
  BY <1>4, <1>5, <1>7, <1>8, <1>9, <1>10, <1>11, <1>12

LEMMA SieveStarts == Sieve!Init => SieveInv
<1>. SUFFICES ASSUME Sieve!Init PROVE SieveInv
  OBVIOUS
<1>. USE DEF Sieve!Init
<1>1. SieveTypes
  BY SmallModelsAssumption DEF SieveTypes, SieveTyped, Sieve!Ranks
<1>2. Sieve!InsideArray
  BY DEF Sieve!InsideArray
<1>3. Sieve!PiecesDone
  BY SmallModelsAssumption DEF Sieve!PiecesDone
<1>4. PrimesDone
  <2>1. \A q : ~ (Cardinality(Before(q)) < 0)
    BY <1>1, BasePrimesFinite DEF SieveTypes
  <2>. QED
    BY <2>1 DEF PrimesDone
<1>5. Sieve!CountRight
  BY DEF Sieve!CountRight
<1>. QED
  BY <1>1, <1>2, <1>3, <1>4, <1>5 DEF SieveInv

LEMMA SieveCardinality == \A S : Sieve!Cardinality(S) = Cardinality(S)
BY DEF Cardinality, Sieve!Cardinality

LEMMA PieceStep ==
    ASSUME SieveInv, NEW id \in Sieve!Ranks, Sieve!SievePiece(id)
    PROVE SieveInv'
<1>. DEFINE C == CACHE_L1_SIZE
            b == next[id]
            U == UNION {Sieve!Stepped(Sieve!First(id, b, q), Sieve!block_end_idx(id, b), q) :
                           q \in Sieve!BasePrimes}
<1>1. /\ sieve' = sieve /\ sieve_n' = sieve_n /\ sieve_p' = sieve_p /\ count' = count
      /\ Sieve!IsDomain
      /\ marked' = [marked EXCEPT ![id] = @ \union U]
      /\ next' = [next EXCEPT ![id] = @ + 1]
  BY DEF Sieve!SievePiece
<1>2. SieveTypes /\ SieveTyped /\ C \in Nat \ {0} /\ b \in Nat
  BY SmallModelsAssumption DEF SieveInv, SieveTypes
<1>3. U \subseteq Int
  BY DEF Sieve!Stepped
<1>4. ASSUME NEW j \in Int
      PROVE j \in U <=> /\ b * C <= j /\ j < (b + 1) * C /\ j < Sieve!BLOCK_SIZE(id)
                        /\ ~ IsPrime(Sieve!low_value(id) + 2 * j)
  BY <1>2, PieceLoses
<1>. HIDE DEF U
<1>5. ASSUME NEW r \in Sieve!Ranks
      PROVE /\ marked'[r] = IF r = id THEN marked[r] \union U ELSE marked[r]
            /\ next'[r] = IF r = id THEN b + 1 ELSE next[r]
  BY <1>1, <1>2 DEF SieveTypes
<1>6. SieveTypes'
  <2>1. next' \in [Sieve!Ranks -> Nat]
    BY <1>1, <1>2 DEF SieveTypes
  <2>2. marked' \in [Sieve!Ranks -> SUBSET Int]
    BY <1>1, <1>2, <1>3 DEF SieveTypes
  <2>. QED
    BY <1>1, <1>2, <2>1, <2>2, SieveSame DEF SieveTypes, SieveTyped
<1>7. Sieve!InsideArray'
  <2>1. ASSUME NEW j \in U PROVE j \in 0 .. Sieve!BLOCK_SIZE(id) - 1
    <3>1. j \in Int /\ b * C \in Nat /\ Sieve!BLOCK_SIZE(id) \in Nat
      BY <1>2, <1>3, BlockFacts
    <3>. QED
      BY <1>4, <3>1
  <2>2. \A r \in Sieve!Ranks : marked'[r] \subseteq 0 .. Sieve!BLOCK_SIZE(r) - 1
    BY <1>1, <1>5, <2>1 DEF SieveInv, Sieve!InsideArray
  <2>. QED
    BY <1>1, <2>2, SieveSame DEF Sieve!InsideArray
<1>8. Sieve!PiecesDone'
  <2>1. ASSUME NEW r \in Sieve!Ranks, NEW j \in 0 .. Sieve!BLOCK_SIZE(r) - 1
        PROVE IF j < next'[r] * C
              THEN j \in marked'[r] <=> ~ Sieve!IsPrime(Sieve!low_value(r) + 2 * j)
              ELSE j \notin marked'[r]
    <3>1. IF j < next[r] * C THEN j \in marked[r] <=> ~ Sieve!IsPrime(Sieve!low_value(r) + 2 * j)
                             ELSE j \notin marked[r]
      BY <1>1 DEF SieveInv, Sieve!PiecesDone
    <3>2. CASE r # id
      BY <1>5, <3>1, <3>2
    <3>3. CASE r = id
      <4>1. j \in Int /\ j < Sieve!BLOCK_SIZE(id) /\ b * C \in Nat /\ (b + 1) * C = b * C + C
        BY <1>2, <3>3, BlockFacts
      <4>2. (b + 1) * C \in Nat /\ b * C < (b + 1) * C
        BY <1>2, <4>1
      <4>3. Sieve!IsPrime(Sieve!low_value(id) + 2 * j) <=> IsPrime(Sieve!low_value(id) + 2 * j)
        BY <1>2, <3>3, SieveNumberIs
      <4>4. next'[r] = b + 1 /\ marked'[r] = marked[id] \union U /\ next[r] = b
        BY <1>5, <3>3
      <4>5. CASE j < b * C
        BY <1>4, <3>1, <3>3, <4>1, <4>2, <4>4, <4>5
      <4>6. CASE ~ (j < b * C)
        BY <1>4, <3>1, <3>3, <4>1, <4>2, <4>3, <4>4, <4>6
      <4>. QED
        BY <4>5, <4>6
    <3>. QED
      BY <3>2, <3>3
  <2>. QED
    BY <1>1, <2>1, SieveSame DEF Sieve!PiecesDone
<1>9. PrimesDone'
  BY <1>1, SieveSame DEF PrimesDone
<1>10. Sieve!CountRight'
  BY <1>1 DEF SieveInv, Sieve!CountRight, Sieve!Runs, Sieve!IsPrime
<1>. QED
  BY <1>6, <1>7, <1>8, <1>9, <1>10 DEF SieveInv

\* The steps of a prime from its square on are its multiples.
LEMMA SquareOn ==
    ASSUME SieveTyped, NEW i \in Nat, NEW j \in 0 .. Sieve!elements - 1
    PROVE LET q == 3 + 2 * i
          IN  j \in Sieve!Stepped((q * q - 3) \div 2, Sieve!elements - 1, q)
                <=> Divides(q, 3 + 2 * j) /\ q * q <= 3 + 2 * j
<1>. DEFINE q == 3 + 2 * i
<1>1. PICK x \in Int : q * q = 3 + 2 * x /\ x >= 0
  <2>1. q * q = 3 + 2 * (3 + 6 * i + 2 * (i * i)) /\ i * i \in Int /\ i * i >= 0
    OBVIOUS
  <2>2. PICK m \in Int : m = i * i /\ m >= 0
    BY <2>1
  <2>3. PICK x \in Int : x = 3 + 6 * i + 2 * m /\ x >= 0
    BY <2>2
  <2>. QED
    BY <2>1, <2>2, <2>3
<1>2. (q * q - 3) \div 2 = x
  <2>1. q * q - 3 = 2 * x
    BY <1>1
  <2>2. (2 * x) \div 2 = x
    OBVIOUS
  <2>. HIDE DEF q
  <2>. QED
    BY <2>1, <2>2
<1>3. Divides(q, 3 + 2 * x)
  <2>1. q \in Int
    OBVIOUS
  <2>. HIDE DEF q
  <2>. QED
    BY <1>1, <2>1, DividesProduct
<1>4. Sieve!elements \in Nat /\ j \in Int
  BY ElementsAre
<1>5. j \in Sieve!Stepped(x, Sieve!elements - 1, q)
        <=> j \in x .. Sieve!elements - 1 /\ Divides(q, 3 + 2 * j)
  BY <1>3, <1>4, SteppedIs
<1>6. j \in x .. Sieve!elements - 1 <=> q * q <= 3 + 2 * j
  <2>. HIDE DEF q
  <2>. QED
    BY <1>1, <1>4
<1>. QED
  BY <1>2, <1>5, <1>6

LEMMA PrimeStep ==
    ASSUME SieveInv, NEW id \in Sieve!Ranks, Sieve!SievePrime(id)
    PROVE SieveInv'
<1>. DEFINE k == next[id]
            q == Sieve!Min({r \in Sieve!BasePrimes :
                              Sieve!Cardinality({s \in Sieve!BasePrimes : s < r}) = k})
            U == IF Sieve!Assigned(id, q)
                 THEN Sieve!Stepped((q * q - 3) \div 2, Sieve!elements - 1, q) ELSE {}
<1>1. /\ sieve' = sieve /\ sieve_n' = sieve_n /\ sieve_p' = sieve_p /\ count' = count
      /\ ~ Sieve!IsDomain
      /\ k < Cardinality(Sieve!BasePrimes)
      /\ marked' = IF Sieve!Assigned(id, q)
                   THEN [marked EXCEPT ![id] = @ \union
                            Sieve!Stepped((q * q - 3) \div 2, Sieve!elements - 1, q)]
                   ELSE marked
      /\ next' = [next EXCEPT ![id] = @ + 1]
  <2>1. /\ sieve' = sieve /\ sieve_n' = sieve_n /\ sieve_p' = sieve_p /\ count' = count
        /\ ~ Sieve!IsDomain
        /\ next' = [next EXCEPT ![id] = @ + 1]
    BY DEF Sieve!SievePrime
  <2>2. k < Cardinality(Sieve!BasePrimes)
    BY SieveCardinality DEF Sieve!SievePrime
  <2>3. marked' = IF Sieve!Assigned(id, q)
                  THEN [marked EXCEPT ![id] = @ \union
                           Sieve!Stepped((q * q - 3) \div 2, Sieve!elements - 1, q)]
                  ELSE marked
    BY Zenon DEF Sieve!SievePrime
  <2>. QED
    BY <2>1, <2>2, <2>3
<1>2. SieveTypes /\ SieveTyped /\ k \in Nat
  BY DEF SieveInv, SieveTypes
<1>3. q \in Sieve!BasePrimes /\ Cardinality(Before(q)) = k
  <2>1. {r \in Sieve!BasePrimes : Sieve!Cardinality({s \in Sieve!BasePrimes : s < r}) = k}
          = {r \in Sieve!BasePrimes : Cardinality({s \in Sieve!BasePrimes : s < r}) = k}
    BY SieveCardinality
  <2>. QED
    BY <1>1, <1>2, <2>1, PrimeOfTurn
<1>. HIDE DEF q
<1>4. PICK i \in Nat : q = 3 + 2 * i
  BY <1>2, <1>3, BasePrimesAre, RootFacts
<1>5. U \subseteq 0 .. Sieve!elements - 1
  <2>1. (q * q - 3) \div 2 >= 0 /\ (q * q - 3) \div 2 \in Int
    <3>1. q * q \in Int /\ q * q >= 3
      BY <1>4
    <3>. QED
      BY <3>1
  <2>. QED
    BY <1>2, <2>1, ElementsAre DEF Sieve!Stepped
<1>6. ASSUME NEW j \in 0 .. Sieve!elements - 1
      PROVE j \in U <=> Sieve!Assigned(id, q) /\ Divides(q, 3 + 2 * j) /\ q * q <= 3 + 2 * j
  BY <1>2, <1>4, SquareOn
<1>. HIDE DEF U
<1>7. ASSUME NEW r \in Sieve!Ranks
      PROVE /\ marked'[r] = IF r = id THEN marked[r] \union U ELSE marked[r]
            /\ next'[r] = IF r = id THEN k + 1 ELSE next[r]
  BY <1>1, <1>2 DEF SieveTypes, U
<1>8. SieveTypes'
  <2>1. next' \in [Sieve!Ranks -> Nat]
    BY <1>1, <1>2 DEF SieveTypes
  <2>2. U \subseteq Int
    BY <1>5
  <2>3. marked' \in [Sieve!Ranks -> SUBSET Int]
    BY <1>1, <1>2, <2>2 DEF SieveTypes, U
  <2>. QED
    BY <1>1, <1>2, <2>1, <2>3, SieveSame DEF SieveTypes, SieveTyped
<1>9. Sieve!InsideArray'
  <2>1. ASSUME NEW r \in Sieve!Ranks PROVE marked'[r] \subseteq 0 .. Sieve!elements - 1
    <3>1. marked[r] \subseteq 0 .. Sieve!elements - 1
      BY <1>1 DEF SieveInv, Sieve!InsideArray
    <3>. QED
      BY <1>5, <1>7, <3>1
  <2>. QED
    BY <1>1, <2>1, SieveSame DEF Sieve!InsideArray
<1>10. Sieve!PiecesDone'
  BY <1>1, SieveSame DEF Sieve!PiecesDone
<1>11. PrimesDone'
  <2>1. ASSUME NEW r \in Sieve!Ranks, NEW j \in 0 .. Sieve!elements - 1
        PROVE j \in marked'[r] <=> \E t \in Sieve!BasePrimes :
                                       /\ Sieve!Assigned(r, t)
                                       /\ Cardinality(Before(t)) < next'[r]
                                       /\ Divides(t, 3 + 2 * j) /\ t * t <= 3 + 2 * j
    <3>1. j \in marked[r] <=> \E t \in Sieve!BasePrimes :
                                  /\ Sieve!Assigned(r, t)
                                  /\ Cardinality(Before(t)) < next[r]
                                  /\ Divides(t, 3 + 2 * j) /\ t * t <= 3 + 2 * j
      BY <1>1 DEF SieveInv, PrimesDone
    <3>2. CASE r # id
      BY <1>7, <3>1, <3>2
    <3>3. CASE r = id
      <4>1. \A t \in Sieve!BasePrimes :
               Cardinality(Before(t)) < k + 1 <=> Cardinality(Before(t)) < k \/ t = q
        <5>1. ASSUME NEW t \in Sieve!BasePrimes
              PROVE Cardinality(Before(t)) < k + 1 <=> Cardinality(Before(t)) < k \/ t = q
          <6>1. Cardinality(Before(t)) \in Nat
            BY <1>2, BasePrimesFinite
          <6>2. Cardinality(Before(t)) = k => t = q
            BY <1>2, <1>3, OrderInjective
          <6>. QED
            BY <1>2, <1>3, <6>1, <6>2
        <5>. QED
          BY <5>1
      <4>2. next'[r] = k + 1 /\ next[r] = k /\ marked'[r] = marked[r] \union U
        BY <1>7, <3>3
      <4>. QED
        BY <1>3, <1>6, <3>1, <3>3, <4>1, <4>2
    <3>. QED
      BY <3>2, <3>3
  <2>. QED
    BY <1>1, <2>1, SieveSame DEF PrimesDone
<1>12. Sieve!CountRight'
  BY <1>1 DEF SieveInv, Sieve!CountRight, Sieve!Runs, Sieve!IsPrime
<1>. QED
  BY <1>8, <1>9, <1>10, <1>11, <1>12 DEF SieveInv

(***************************************************************************)
(* The count                                                               *)
(***************************************************************************)
\* The elements of the array that are primes, and those of them in the parts of some ranks.
PrimeElements == {j \in 0 .. Sieve!elements - 1 : IsPrime(3 + 2 * j)}

OfRanks(s) == {j \in PrimeElements :
                 \E id \in s : Sieve!BLOCK_LOW(id) <= j /\ j < Sieve!BLOCK_LOW(id + 1)}

\* What a rank counts in its part.
Open(id) == Sieve!BLOCK_SIZE(id) - Sieve!Cardinality(marked[id])

LEMMA PrimeElementsFinite ==
    ASSUME SieveTyped
    PROVE /\ IsFiniteSet(PrimeElements) /\ Cardinality(PrimeElements) \in Nat
          /\ \A s : IsFiniteSet(OfRanks(s)) /\ Cardinality(OfRanks(s)) \in Nat
<1>1. IsFiniteSet(0 .. Sieve!elements - 1)
  BY ElementsAre, FS_Interval
<1>2. IsFiniteSet(PrimeElements)
  BY <1>1, FS_Subset DEF PrimeElements
<1>3. \A s : OfRanks(s) \subseteq PrimeElements
  BY DEF OfRanks
<1>. QED
  BY <1>2, <1>3, FS_Subset, FS_CardinalityType

\* Together with 2 they are the primes up to n.
LEMMA PrimesUpTo ==
    ASSUME SieveTyped
    PROVE Cardinality({k \in 2 .. sieve_n : Sieve!IsPrime(k)})
            = IF sieve_n < 2 THEN 0 ELSE Cardinality(PrimeElements) + 1
<1>. DEFINE P == {k \in 2 .. sieve_n : Sieve!IsPrime(k)}
            O == {k \in P : k # 2}
            f == [j \in PrimeElements |-> 3 + 2 * j]
<1>1. P = {k \in 2 .. sieve_n : IsPrime(k)}
  BY PrimeDivides
<1>2. CASE sieve_n < 2
  <2>1. P = {}
    BY <1>2 DEF SieveTyped
  <2>. QED
    BY <1>2, <2>1, FS_EmptySet
<1>3. CASE ~ (sieve_n < 2)
  <2>1. 2 \in P
    BY <1>1, <1>3 DEF IsPrime, SieveTyped
  <2>2. f \in Bijection(PrimeElements, O)
    <3>1. ASSUME NEW j \in PrimeElements PROVE f[j] \in O
      <4>1. j \in Nat /\ j < Sieve!elements /\ IsPrime(3 + 2 * j)
        BY ElementsAre DEF PrimeElements
      <4>2. 3 + 2 * j \in 2 .. sieve_n
        BY <4>1, ElementsAre DEF SieveTyped
      <4>. QED
        BY <1>1, <4>1, <4>2
    <3>2. ASSUME NEW k \in O PROVE \E j \in PrimeElements : f[j] = k
      <4>1. k \in Int /\ k > 2 /\ k <= sieve_n /\ IsPrime(k)
        BY <1>1 DEF SieveTyped
      <4>2. ~ Divides(2, k)
        BY <4>1 DEF IsPrime
      <4>3. PICK e \in Int : k = 2 * e \/ k = 1 + 2 * e
        BY <4>1, EvenOrOdd
      <4>4. k # 2 * e
        BY <4>2 DEF Divides
      <4>5. PICK j \in Nat : k = 3 + 2 * j
        <5>1. e - 1 \in Nat /\ k = 3 + 2 * (e - 1)
          BY <4>1, <4>3, <4>4
        <5>. QED
          BY <5>1
      <4>6. j < Sieve!elements
        BY <4>1, <4>5, ElementsAre
      <4>7. j \in PrimeElements
        BY <4>1, <4>5, <4>6, ElementsAre DEF PrimeElements
      <4>. QED
        BY <4>5, <4>7
    <3>3. \A j, k \in PrimeElements : f[j] = f[k] => j = k
      BY ElementsAre DEF PrimeElements
    <3>4. f \in [PrimeElements -> O]
      BY <3>1
    <3>. HIDE DEF f, O
    <3>. QED
      BY <3>2, <3>3, <3>4 DEF Bijection, Injection, IsInjective, Surjection
  <2>3. IsFiniteSet(O) /\ Cardinality(O) = Cardinality(PrimeElements)
    <3>1. ExistsBijection(PrimeElements, O)
      BY <2>2 DEF ExistsBijection
    <3>. HIDE DEF O
    <3>. QED
      BY <3>1, PrimeElementsFinite, FS_Bijection
  <2>4. P = O \union {2} /\ 2 \notin O
    BY <2>1
  <2>5. Cardinality(P) = Cardinality(O) + 1
    <3>. HIDE DEF O, P
    <3>. QED
      BY <2>3, <2>4, FS_AddElement
  <2>. QED
    BY <1>3, <2>3, <2>5
<1>. QED
  BY <1>2, <1>3

\* It is enough that rank 0 prints one more than there are.
LEMMA CountIsEnough ==
    ASSUME SieveTyped, Sieve!Runs, count' = Cardinality(PrimeElements) + 1,
           UNCHANGED <<sieve, sieve_n, sieve_p>>
    PROVE Sieve!CountRight'
<1>1. Sieve!Runs'
  BY DEF Sieve!Runs
<1>2. ASSUME sieve_n < 2 PROVE Cardinality(PrimeElements) = 0
  <2>1. Sieve!elements = 0
    BY <1>2 DEF Sieve!elements, Sieve!Half, SieveTyped
  <2>2. PrimeElements = {}
    BY <2>1 DEF PrimeElements
  <2>. QED
    BY <2>2, FS_EmptySet
<1>3. {k \in 2 .. sieve_n' : Sieve!IsPrime(k)} = {k \in 2 .. sieve_n : Sieve!IsPrime(k)}
  OBVIOUS
<1>4. count' = Cardinality({k \in 2 .. sieve_n : Sieve!IsPrime(k)}) + (IF sieve_n < 2 THEN 1 ELSE 0)
  BY <1>2, PrimesUpTo, PrimeElementsFinite
<1>5. Sieve!Cardinality({k \in 2 .. sieve_n' : Sieve!IsPrime(k)})
        = Cardinality({k \in 2 .. sieve_n : Sieve!IsPrime(k)})
  BY <1>3, SieveCardinality
<1>6. count' = Sieve!Cardinality({k \in 2 .. sieve_n' : Sieve!IsPrime(k)})
                  + (IF sieve_n' < 2 THEN 1 ELSE 0)
  BY <1>4, <1>5
<1>. QED
  BY <1>1, <1>6 DEF Sieve!CountRight

\* A rank that is done with its part has left the primes of it.
LEMMA OpenOfRank ==
    ASSUME SieveInv, Sieve!IsDomain, NEW id \in Sieve!Ranks, Sieve!Sieved(id)
    PROVE Open(id) = Cardinality(OfRanks({id}))
<1>. DEFINE size == Sieve!BLOCK_SIZE(id)
            low == Sieve!BLOCK_LOW(id)
            left == (0 .. size - 1) \ marked[id]
            f == [j \in left |-> low + j]
<1>1. SieveTyped /\ id \in Nat
  BY BlockFacts DEF SieveInv, SieveTypes
<1>2. /\ size \in Nat /\ low \in Nat /\ low + size = Sieve!BLOCK_LOW(id + 1)
      /\ low + size <= Sieve!elements /\ Sieve!elements \in Nat
  BY <1>1, BlockFacts, ElementsAre
<1>3. marked[id] \subseteq 0 .. size - 1
  BY DEF SieveInv, Sieve!InsideArray
<1>. HIDE DEF size, low
<1>4. IsFiniteSet(0 .. size - 1) /\ Cardinality(0 .. size - 1) = size
  <2>1. size - 1 \in Int /\ (0 > size - 1 <=> size = 0) /\ size - 1 - 0 + 1 = size
    BY <1>2
  <2>2. /\ IsFiniteSet(0 .. size - 1)
        /\ Cardinality(0 .. size - 1) = IF 0 > size - 1 THEN 0 ELSE size - 1 - 0 + 1
    BY <2>1, FS_Interval
  <2>. QED
    BY <2>1, <2>2
<1>5. IsFiniteSet(left) /\ Cardinality(left) = size - Cardinality(marked[id])
  <2>1. (0 .. size - 1) \intersect marked[id] = marked[id]
    BY <1>3
  <2>2. /\ IsFiniteSet((0 .. size - 1) \ marked[id])
        /\ Cardinality((0 .. size - 1) \ marked[id])
              = Cardinality(0 .. size - 1) - Cardinality((0 .. size - 1) \intersect marked[id])
    BY <1>4, FS_Difference, Zenon
  <2>. QED
    BY <1>4, <2>1, <2>2
<1>6. ASSUME NEW j \in 0 .. size - 1 PROVE j \in left <=> IsPrime(3 + 2 * (low + j))
  <2>1. j \in Nat /\ j < size
    BY <1>2
  <2>2. Sieve!low_value(id) + 2 * j = 3 + 2 * (low + j)
    BY <1>2, <2>1 DEF Sieve!low_value, low
  <2>3. j < next[id] * CACHE_L1_SIZE
    <3>1. next[id] = Sieve!num_blocks(id)
      BY DEF Sieve!Sieved
    <3>2. Sieve!num_blocks(id) \in Nat /\ size <= Sieve!num_blocks(id) * CACHE_L1_SIZE
      BY <1>1, SmallModelsAssumption, PiecesFacts DEF size
    <3>. QED
      BY <1>2, <2>1, <3>1, <3>2, SmallModelsAssumption
  <2>4. j \in marked[id] <=> ~ Sieve!IsPrime(Sieve!low_value(id) + 2 * j)
    BY <2>3 DEF SieveInv, Sieve!PiecesDone, size
  <2>5. Sieve!IsPrime(Sieve!low_value(id) + 2 * j) <=> IsPrime(Sieve!low_value(id) + 2 * j)
    BY <1>1, <2>1, SieveNumberIs
  <2>. QED
    BY <2>2, <2>4, <2>5
<1>7. f \in Bijection(left, OfRanks({id}))
  <2>1. ASSUME NEW j \in left PROVE f[j] \in OfRanks({id})
    <3>1. IsPrime(3 + 2 * (low + j)) /\ low + j \in 0 .. Sieve!elements - 1
          /\ low <= low + j /\ low + j < low + size
      BY <1>2, <1>6
    <3>. QED
      BY <1>2, <3>1 DEF OfRanks, PrimeElements, low
  <2>2. ASSUME NEW k \in OfRanks({id}) PROVE \E j \in left : f[j] = k
    <3>1. k \in Int /\ low <= k /\ k < low + size /\ IsPrime(3 + 2 * k)
      BY <1>2 DEF OfRanks, PrimeElements, low
    <3>2. PICK j \in 0 .. size - 1 : k = low + j
      <4>1. k - low \in 0 .. size - 1 /\ k = low + (k - low)
        BY <1>2, <3>1
      <4>. QED
        BY <4>1
    <3>3. j \in left
      BY <1>6, <3>1, <3>2
    <3>. QED
      BY <3>2, <3>3
  <2>3. \A j, k \in left : f[j] = f[k] => j = k
    BY <1>2
  <2>4. f \in [left -> OfRanks({id})]
    BY <2>1
  <2>. HIDE DEF f, left
  <2>. QED
    BY <2>2, <2>3, <2>4 DEF Bijection, Injection, IsInjective, Surjection
<1>8. Cardinality(OfRanks({id})) = Cardinality(left)
  <2>1. ExistsBijection(left, OfRanks({id}))
    BY <1>7 DEF ExistsBijection
  <2>. HIDE DEF left
  <2>. QED
    BY <1>5, <2>1, FS_Bijection
<1>. QED
  BY <1>5, <1>8, SieveCardinality DEF Open, size

LEMMA RanksAdd ==
    ASSUME SieveTyped, NEW s \in SUBSET Sieve!Ranks, NEW x \in s
    PROVE Cardinality(OfRanks(s)) = Cardinality(OfRanks({x})) + Cardinality(OfRanks(s \ {x}))
<1>1. OfRanks(s) = OfRanks({x}) \union OfRanks(s \ {x})
  BY DEF OfRanks
<1>2. ASSUME NEW j \in OfRanks({x}), j \in OfRanks(s \ {x}) PROVE FALSE
  <2>1. PICK y \in s \ {x} : Sieve!BLOCK_LOW(y) <= j /\ j < Sieve!BLOCK_LOW(y + 1)
    BY <1>2 DEF OfRanks
  <2>2. Sieve!BLOCK_LOW(x) <= j /\ j < Sieve!BLOCK_LOW(x + 1) /\ j \in Int
    BY <1>2 DEF OfRanks, PrimeElements
  <2>3. x \in Nat /\ y \in Nat /\ x # y
    BY BlockFacts
  <2>4. /\ Sieve!BLOCK_LOW(x) \in Nat /\ Sieve!BLOCK_LOW(y) \in Nat
        /\ Sieve!BLOCK_LOW(x + 1) \in Nat /\ Sieve!BLOCK_LOW(y + 1) \in Nat
    BY <2>3, BlockFacts
  <2>5. CASE x < y
    <3>1. Sieve!BLOCK_LOW(x + 1) <= Sieve!BLOCK_LOW(y)
      BY <2>3, <2>5, BlockFacts
    <3>. QED
      BY <2>1, <2>2, <2>4, <3>1
  <2>6. CASE y < x
    <3>1. Sieve!BLOCK_LOW(y + 1) <= Sieve!BLOCK_LOW(x)
      BY <2>3, <2>6, BlockFacts
    <3>. QED
      BY <2>1, <2>2, <2>4, <3>1
  <2>. QED
    BY <2>3, <2>5, <2>6
<1>3. OfRanks({x}) \intersect OfRanks(s \ {x}) = {}
  BY <1>2
<1>4. /\ IsFiniteSet(OfRanks({x})) /\ Cardinality(OfRanks({x})) \in Nat
      /\ IsFiniteSet(OfRanks(s \ {x})) /\ Cardinality(OfRanks(s \ {x})) \in Nat
  BY PrimeElementsFinite
<1>5. Cardinality(OfRanks({x}) \union OfRanks(s \ {x}))
        = Cardinality(OfRanks({x})) + Cardinality(OfRanks(s \ {x}))
             - Cardinality(OfRanks({x}) \intersect OfRanks(s \ {x}))
  BY <1>4, FS_Union
<1>6. Cardinality(OfRanks({x}) \intersect OfRanks(s \ {x})) = 0
  BY <1>3, FS_EmptySet
<1>. QED
  BY <1>1, <1>4, <1>5, <1>6

\* Every element is in the part of some rank.
LEMMA AllRanks == ASSUME SieveTyped PROVE OfRanks(Sieve!Ranks) = PrimeElements
<1>1. ASSUME NEW j \in 0 .. Sieve!elements - 1
      PROVE \E id \in Sieve!Ranks : Sieve!BLOCK_LOW(id) <= j /\ j < Sieve!BLOCK_LOW(id + 1)
  <2>. DEFINE S == {id \in Sieve!Ranks : Sieve!BLOCK_LOW(id) <= j}
  <2>1. S # {}
    <3>1. 0 \in Sieve!Ranks
      BY DEF Sieve!Ranks, SieveTyped
    <3>2. Sieve!BLOCK_LOW(0) <= j
      BY BlockFacts, ElementsAre
    <3>. QED
      BY <3>1, <3>2
  <2>2. PICK m \in S : \A c \in S : c <= m
    <3>1. S \subseteq 0 .. sieve_p /\ sieve_p \in Nat
      BY DEF Sieve!Ranks, SieveTyped
    <3>. HIDE DEF S
    <3>. QED
      BY <2>1, <3>1, GreatestNat
  <2>3. m \in Nat /\ m + 1 \in Nat /\ m + 1 <= sieve_p /\ Sieve!BLOCK_LOW(m + 1) \in Nat
    BY BlockFacts
  <2>4. CASE m + 1 \in Sieve!Ranks
    <3>1. m + 1 \notin S
      <4>. HIDE DEF S
      <4>. QED
        BY <2>2, <2>3
    <3>. QED
      BY <2>2, <2>3, <2>4, <3>1
  <2>5. CASE m + 1 \notin Sieve!Ranks
    <3>1. m + 1 = sieve_p
      BY <2>3, <2>5 DEF Sieve!Ranks, SieveTyped
    <3>2. Sieve!BLOCK_LOW(sieve_p) = Sieve!elements /\ Sieve!elements \in Nat
      BY BlockFacts, ElementsAre
    <3>3. j < Sieve!BLOCK_LOW(m + 1)
      BY <3>1, <3>2
    <3>. QED
      BY <2>2, <3>3
  <2>. QED
    BY <2>4, <2>5
<1>. QED
  BY <1>1 DEF OfRanks, PrimeElements

\* The sum over the ranks, as the library defines it, is the number of all.
LEMMA SumOverRanks ==
    ASSUME SieveInv, Sieve!IsDomain, \A id \in Sieve!Ranks : Sieve!Sieved(id)
    PROVE LET G(g, s) == IF s = {} THEN 0
                         ELSE LET x == CHOOSE x \in s : TRUE IN Open(x) + g[s \ {x}]
              iter == CHOOSE g : g = [s \in SUBSET Sieve!Ranks |-> G(g, s)]
          IN  iter[Sieve!Ranks] = Cardinality(PrimeElements)
<1>. DEFINE R == Sieve!Ranks
            G(g, s) == IF s = {} THEN 0
                       ELSE LET x == CHOOSE x \in s : TRUE IN Open(x) + g[s \ {x}]
            iter == CHOOSE g : g = [s \in SUBSET R |-> G(g, s)]
            size(s) == Cardinality(OfRanks(s))
            all == [s \in SUBSET R |-> size(s)]
<1>1. SieveTyped /\ IsFiniteSet(R)
  <2>1. SieveTyped
    BY DEF SieveInv, SieveTypes
  <2>. QED
    BY <2>1, FS_Interval DEF Sieve!Ranks, SieveTyped
<1>2. ASSUME NEW s \in SUBSET R PROVE size(s) = G(all, s)
  <2>1. CASE s = {}
    <3>1. OfRanks(s) = {}
      BY <2>1 DEF OfRanks
    <3>. QED
      BY <2>1, <3>1, FS_EmptySet
  <2>2. CASE s # {}
    <3>. DEFINE x == CHOOSE x \in s : TRUE
    <3>1. x \in s
      BY <2>2
    <3>. HIDE DEF x
    <3>2. Open(x) = size({x})
      BY <3>1, OpenOfRank
    <3>3. size(s) = size({x}) + size(s \ {x})
      BY <1>1, <3>1, RanksAdd
    <3>4. all[s \ {x}] = size(s \ {x})
      <4>. HIDE DEF size
      <4>. QED
        OBVIOUS
    <3>5. size(s) = Open(x) + all[s \ {x}]
      <4>. HIDE DEF all, size
      <4>. QED
        BY <3>2, <3>3, <3>4
    <3>. HIDE DEF all, size
    <3>. QED
      BY <2>2, <3>5 DEF x
  <2>. QED
    BY <2>1, <2>2
<1>. HIDE DEF size
<1>3. all = [s \in SUBSET R |-> G(all, s)]
  BY <1>2
<1>4. iter = [s \in SUBSET R |-> G(iter, s)]
  <2>. HIDE DEF G, all
  <2>. QED
    BY <1>3
<1>5. ASSUME NEW t \in SUBSET R, iter[t] # size(t) PROVE FALSE
  <2>. DEFINE wrong == {s \in SUBSET R : iter[s] # size(s)}
              D == {Cardinality(s) : s \in wrong}
  <2>1. \A s \in SUBSET R : IsFiniteSet(s) /\ Cardinality(s) \in Nat
    BY <1>1, FS_Subset, FS_CardinalityType
  <2>2. D \subseteq Nat /\ D # {}
    <3>1. t \in wrong
      <4>. HIDE DEF iter
      <4>. QED
        BY <1>5
    <3>2. wrong \subseteq SUBSET R
      OBVIOUS
    <3>. HIDE DEF wrong
    <3>. QED
      BY <2>1, <3>1, <3>2
  <2>3. PICK d \in D : \A c \in D : d <= c
    <3>. HIDE DEF D
    <3>. QED
      BY <2>2, LeastNat
  <2>4. PICK s \in wrong : d = Cardinality(s)
    <3>. HIDE DEF wrong
    <3>. QED
      BY <2>3
  <2>5. s \in SUBSET R /\ iter[s] # size(s)
    <3>. HIDE DEF iter
    <3>. QED
      BY <2>4
  <2>6. iter[s] = G(iter, s)
    <3>. HIDE DEF G, iter
    <3>. QED
      BY <1>4, <2>5
  <2>7. s # {}
    <3>1. size({}) = 0
      BY <1>2
    <3>. HIDE DEF iter
    <3>. QED
      BY <2>5, <2>6, <3>1
  <2>. DEFINE x == CHOOSE x \in s : TRUE
  <2>8. x \in s
    BY <2>7
  <2>9. iter[s \ {x}] = size(s \ {x})
    <3>1. Cardinality(s \ {x}) = Cardinality(s) - 1
      <4>. HIDE DEF x
      <4>. QED
        BY <2>1, <2>5, <2>8, FS_RemoveElement
    <3>2. s \ {x} \in wrong => Cardinality(s \ {x}) \in D
      <4>. HIDE DEF wrong, x
      <4>. QED
        OBVIOUS
    <3>3. s \ {x} \notin wrong
      <4>1. Cardinality(s) \in Nat
        BY <2>1, <2>5
      <4>. HIDE DEF D, wrong, x
      <4>. QED
        BY <2>3, <2>4, <3>1, <3>2, <4>1
    <3>4. s \ {x} \in SUBSET R
      BY <2>5
    <3>. HIDE DEF iter, x
    <3>. QED
      BY <3>3, <3>4
  <2>10. G(iter, s) = Open(x) + iter[s \ {x}]
    <3>. HIDE DEF iter
    <3>. QED
      BY <2>7
  <2>11. G(all, s) = Open(x) + all[s \ {x}]
    <3>. HIDE DEF all
    <3>. QED
      BY <2>7
  <2>12. all[s \ {x}] = size(s \ {x}) /\ size(s) = G(all, s)
    <3>1. s \ {x} \in SUBSET R
      BY <2>5
    <3>. HIDE DEF x, G
    <3>. QED
      BY <1>2, <2>5, <3>1
  <2>. HIDE DEF G, iter, all, x
  <2>. QED
    BY <2>5, <2>6, <2>9, <2>10, <2>11, <2>12
<1>6. iter[R] = size(R)
  <2>. HIDE DEF iter
  <2>. QED
    BY <1>5
<1>. QED
  BY <1>1, <1>6, AllRanks DEF size

\* With the whole array, the elements that no rank has set are the primes.
LEMMA LeftByAll ==
    ASSUME SieveInv, ~ Sieve!IsDomain, \A id \in Sieve!Ranks : Sieve!Sieved(id)
    PROVE Sieve!elements - Cardinality(UNION {marked[id] : id \in Sieve!Ranks})
            = Cardinality(PrimeElements)
<1>. DEFINE all == 0 .. Sieve!elements - 1
            set == UNION {marked[id] : id \in Sieve!Ranks}
<1>1. SieveTyped /\ Sieve!elements \in Nat
  BY ElementsAre DEF SieveInv, SieveTypes
<1>2. set \subseteq all
  BY DEF SieveInv, Sieve!InsideArray
<1>3. ASSUME NEW j \in all PROVE j \in set <=> ~ IsPrime(3 + 2 * j)
  <2>1. j \in Nat /\ 3 + 2 * j <= sieve_n
    BY <1>1, ElementsAre
  <2>2. ASSUME j \in set PROVE ~ IsPrime(3 + 2 * j)
    <3>1. PICK id \in Sieve!Ranks : j \in marked[id]
      BY <2>2
    <3>2. PICK q \in Sieve!BasePrimes : Divides(q, 3 + 2 * j) /\ q * q <= 3 + 2 * j
      BY <3>1 DEF SieveInv, PrimesDone
    <3>. QED
      BY <1>1, <2>1, <3>2, BasePrimesAre, Composite
  <2>3. ASSUME ~ IsPrime(3 + 2 * j) PROVE j \in set
    <3>1. PICK q \in Sieve!BasePrimes : Divides(q, 3 + 2 * j) /\ q * q <= 3 + 2 * j
      BY <1>1, <2>1, <2>3, BasePrimesAre, Composite
    <3>. DEFINE id == Cardinality(Before(q)) % sieve_p
    <3>2. id \in Sieve!Ranks
      BY <1>1, BasePrimesFinite DEF Sieve!Ranks, SieveTyped
    <3>3. Sieve!Assigned(id, q)
      BY SieveCardinality DEF Sieve!Assigned, Before
    <3>. HIDE DEF id
    <3>4. Cardinality(Before(q)) < next[id]
      <4>1. next[id] = Cardinality(Sieve!BasePrimes)
        BY <3>2, SieveCardinality DEF Sieve!Sieved
      <4>2. Before(q) \subseteq Sieve!BasePrimes /\ q \notin Before(q)
        <5>1. q \in Nat
          BY <1>1, <3>1, BasePrimesFinite
        <5>. QED
          BY <5>1 DEF Before
      <4>3. IsFiniteSet(Sieve!BasePrimes) /\ Cardinality(Sieve!BasePrimes) \in Nat
            /\ Cardinality(Before(q)) \in Nat
        BY <1>1, BasePrimesFinite
      <4>4. /\ Cardinality(Before(q)) <= Cardinality(Sieve!BasePrimes)
            /\ Cardinality(Before(q)) # Cardinality(Sieve!BasePrimes)
        BY <3>1, <4>2, <4>3, FS_Subset
      <4>. QED
        BY <4>1, <4>3, <4>4
    <3>5. j \in marked[id]
      BY <3>1, <3>2, <3>3, <3>4 DEF SieveInv, PrimesDone
    <3>. QED
      BY <3>2, <3>5
  <2>. QED
    BY <2>2, <2>3
<1>4. all \ set = PrimeElements
  BY <1>3 DEF PrimeElements
<1>5. IsFiniteSet(all) /\ Cardinality(all) = Sieve!elements
  <2>1. IsFiniteSet(all)
        /\ Cardinality(all) = IF 0 > Sieve!elements - 1 THEN 0 ELSE Sieve!elements - 1 - 0 + 1
    <3>1. Sieve!elements - 1 \in Int
      BY <1>1
    <3>. QED
      BY <3>1, FS_Interval
  <2>. QED
    BY <1>1, <2>1
<1>6. Cardinality(all \ set) = Cardinality(all) - Cardinality(set)
  <2>1. all \intersect set = set
    BY <1>2
  <2>. HIDE DEF all, set
  <2>. QED
    BY <1>5, <2>1, FS_Difference
<1>. QED
  BY <1>4, <1>5, <1>6

LEMMA ReduceStep == ASSUME SieveInv, Sieve!Runs, Sieve!Reduce PROVE SieveInv'
<1>1. /\ sieve' = sieve /\ sieve_n' = sieve_n /\ sieve_p' = sieve_p
      /\ marked' = marked /\ next' = next
      /\ \A id \in Sieve!Ranks : Sieve!Sieved(id)
  BY DEF Sieve!Reduce
<1>2. count' = Cardinality(PrimeElements) + 1
  <2>1. CASE Sieve!IsDomain
    <3>. DEFINE G(g, s) == IF s = {} THEN 0
                           ELSE LET x == CHOOSE x \in s : TRUE IN Open(x) + g[s \ {x}]
                iter == CHOOSE g : g = [s \in SUBSET Sieve!Ranks |-> G(g, s)]
    <3>1. count' = iter[Sieve!Ranks] + 1
      BY <2>1 DEF Sieve!Reduce, Sieve!Printed, Sieve!MapThenSumSet, Sieve!MapThenFoldSet, Open
    <3>2. iter[Sieve!Ranks] = Cardinality(PrimeElements)
      BY <1>1, <2>1, SumOverRanks
    <3>. QED
      BY <3>1, <3>2
  <2>2. CASE ~ Sieve!IsDomain
    <3>1. count' = Sieve!elements
                     - Sieve!Cardinality(UNION {marked[id] : id \in Sieve!Ranks}) + 1
      BY <2>2 DEF Sieve!Reduce, Sieve!Printed
    <3>. QED
      BY <1>1, <2>2, <3>1, SieveCardinality, LeftByAll
  <2>. QED
    BY <2>1, <2>2
<1>3. SieveTyped
  BY DEF SieveInv, SieveTypes
<1>4. Sieve!CountRight'
  BY <1>1, <1>2, <1>3, CountIsEnough
<1>5. SieveTypes'
  BY <1>1, SieveSame DEF SieveInv, SieveTypes, SieveTyped
<1>6. Sieve!InsideArray' /\ Sieve!PiecesDone'
  BY <1>1, SieveSame DEF SieveInv, Sieve!InsideArray, Sieve!PiecesDone
<1>7. PrimesDone'
  BY <1>1, SieveSame DEF SieveInv, PrimesDone
<1>. QED
  BY <1>4, <1>5, <1>6, <1>7 DEF SieveInv

\* MPI_sieve.c counts no primes below 2.
LEMMA TooSmallStep == ASSUME SieveInv, Sieve!TooSmall PROVE SieveInv'
<1>1. /\ sieve' = sieve /\ sieve_n' = sieve_n /\ sieve_p' = sieve_p
      /\ marked' = marked /\ next' = next
      /\ count' = 0 /\ sieve_n < 2 /\ sieve \in {"domain", "functional"}
  BY DEF Sieve!TooSmall
<1>2. Sieve!CountRight'
  <2>1. SieveTyped
    BY DEF SieveInv, SieveTypes
  <2>2. {k \in 2 .. sieve_n' : Sieve!IsPrime(k)} = {}
    BY <1>1, <2>1 DEF SieveTyped
  <2>3. Sieve!Cardinality({k \in 2 .. sieve_n' : Sieve!IsPrime(k)}) = 0
    BY <2>2, SieveCardinality, FS_EmptySet
  <2>4. ~ Sieve!Runs'
    BY <1>1, <2>1 DEF Sieve!Runs, SieveTyped
  <2>. QED
    BY <1>1, <2>3, <2>4 DEF Sieve!CountRight
<1>3. SieveTypes'
  BY <1>1, SieveSame DEF SieveInv, SieveTypes, SieveTyped
<1>4. Sieve!InsideArray' /\ Sieve!PiecesDone'
  BY <1>1, SieveSame DEF SieveInv, Sieve!InsideArray, Sieve!PiecesDone
<1>5. PrimesDone'
  BY <1>1, SieveSame DEF SieveInv, PrimesDone
<1>. QED
  BY <1>2, <1>3, <1>4, <1>5 DEF SieveInv

LEMMA SieveSteps == SieveInv /\ [Sieve!Next]_(Sieve!vars) => SieveInv'
<1>. SUFFICES ASSUME SieveInv, [Sieve!Next]_(Sieve!vars) PROVE SieveInv'
  OBVIOUS
<1>1. CASE \E id \in Sieve!Ranks : Sieve!SievePiece(id) \/ Sieve!SievePrime(id)
  BY <1>1, PieceStep, PrimeStep
<1>2. CASE Sieve!Runs /\ Sieve!Reduce
  BY <1>2, ReduceStep
<1>3. CASE Sieve!TooSmall
  BY <1>3, TooSmallStep
<1>4. CASE UNCHANGED Sieve!vars
  <2>1. /\ sieve' = sieve /\ sieve_n' = sieve_n /\ sieve_p' = sieve_p
        /\ marked' = marked /\ next' = next /\ count' = count
    BY <1>4 DEF Sieve!vars
  <2>2. SieveTypes'
    BY <2>1, SieveSame DEF SieveInv, SieveTypes, SieveTyped
  <2>3. Sieve!InsideArray' /\ Sieve!PiecesDone'
    BY <2>1, SieveSame DEF SieveInv, Sieve!InsideArray, Sieve!PiecesDone
  <2>4. PrimesDone'
    BY <2>1, SieveSame DEF SieveInv, PrimesDone
  <2>5. Sieve!CountRight'
    BY <2>1 DEF SieveInv, Sieve!CountRight, Sieve!Runs, Sieve!IsPrime
  <2>. QED
    BY <2>2, <2>3, <2>4, <2>5 DEF SieveInv
<1>. QED
  BY <1>1, <1>2, <1>3, <1>4 DEF Sieve!Next

\* Whatever n, however many ranks there are and however many elements a piece has: what
\* rank 0 prints is the number of primes, each rank writes in its own array, and no
\* piece is left before all its composite numbers are struck out, nor touched before
\* its turn (MPI_sieve.c:40-113, 115-202).
THEOREM SieveCorrect == Spec => []SieveRight
<1>1. Init => SieveInv
  BY SieveStarts DEF Init
<1>2. SieveInv /\ [Next]_vars => SieveInv'
  BY SieveSteps, EachByItself
<1>3. SieveInv => SieveRight
  BY DEF SieveInv, SieveRight, Sieve!SieveRight
<1>. QED
  BY <1>1, <1>2, <1>3, PTL DEF Spec

(***************************************************************************)
(* Recursive functions                                                     *)
(***************************************************************************)
\* A recursion from 0 to n has a solution, and only one.
Solves(f, n, a, h) == f[0] = a /\ \A k \in 1 .. n : f[k] = h[k][f[k - 1]]

LEMMA Recursion ==
    ASSUME NEW A, NEW a \in A, NEW n \in Nat, NEW h \in [1 .. n -> [A -> A]]
    PROVE \E f \in [0 .. n -> A] : Solves(f, n, a, h)
<1>. DEFINE Good(k) == \E f \in [0 .. k -> A] : Solves(f, k, a, h)
            bad == {k \in 0 .. n : ~ Good(k)}
<1>1. Good(0)
  <2>. DEFINE f == [i \in 0 .. 0 |-> a]
  <2>1. f \in [0 .. 0 -> A] /\ Solves(f, 0, a, h)
    BY DEF Solves
  <2>. HIDE DEF f
  <2>. QED
    BY <2>1
<1>2. ASSUME NEW k \in 0 .. n, k < n, Good(k) PROVE Good(k + 1)
  <2>1. PICK f \in [0 .. k -> A] : Solves(f, k, a, h)
    BY <1>2
  <2>. DEFINE g == [i \in 0 .. k + 1 |-> IF i = k + 1 THEN h[k + 1][f[k]] ELSE f[i]]
  <2>2. h[k + 1][f[k]] \in A
    <3>1. k + 1 \in 1 .. n /\ f[k] \in A
      BY <1>2
    <3>. QED
      BY <3>1
  <2>3. g \in [0 .. k + 1 -> A]
    BY <2>2
  <2>4. g[0] = a
    BY <1>2, <2>1 DEF Solves
  <2>5. ASSUME NEW i \in 1 .. k + 1 PROVE g[i] = h[i][g[i - 1]]
    <3>1. CASE i = k + 1
      <4>1. g[i - 1] = f[k] /\ g[i] = h[i][f[k]]
        BY <1>2, <3>1
      <4>. QED
        BY <4>1
    <3>2. CASE i # k + 1
      <4>1. i \in 1 .. k /\ g[i] = f[i] /\ g[i - 1] = f[i - 1]
        BY <1>2, <3>2
      <4>. QED
        BY <2>1, <4>1 DEF Solves
    <3>. QED
      BY <3>1, <3>2
  <2>6. Solves(g, k + 1, a, h)
    <3>. HIDE DEF g
    <3>. QED
      BY <2>4, <2>5 DEF Solves
  <2>. HIDE DEF g
  <2>. QED
    BY <2>3, <2>6
<1>. HIDE DEF Good
<1>3. bad = {}
  <2>. SUFFICES ASSUME bad # {} PROVE FALSE
    OBVIOUS
  <2>1. PICK m \in bad : \A c \in bad : m <= c
    <3>1. bad \subseteq Nat
      OBVIOUS
    <3>. HIDE DEF bad
    <3>. QED
      BY <3>1, LeastNat
  <2>2. m # 0
    BY <1>1
  <2>3. m - 1 \in 0 .. n /\ m - 1 < n /\ (m - 1) + 1 = m /\ ~ (m <= m - 1)
    BY <2>2
  <2>4. Good(m - 1)
    BY <2>1, <2>3
  <2>. QED
    BY <1>2, <2>3, <2>4
<1>. QED
  BY <1>3 DEF Good

LEMMA RecursionUnique ==
    ASSUME NEW n \in Nat, NEW f, NEW g, NEW a, NEW h, Solves(f, n, a, h), Solves(g, n, a, h),
           NEW k \in 0 .. n
    PROVE f[k] = g[k]
<1>. DEFINE wrong == {i \in 0 .. n : f[i] # g[i]}
<1>. SUFFICES ASSUME wrong # {} PROVE FALSE
  OBVIOUS
<1>1. PICK m \in wrong : \A c \in wrong : m <= c
  <2>1. wrong \subseteq Nat
    OBVIOUS
  <2>. HIDE DEF wrong
  <2>. QED
    BY <2>1, LeastNat
<1>2. m # 0
  BY DEF Solves
<1>3. m - 1 \in 0 .. n /\ m \in 1 .. n /\ ~ (m <= m - 1)
  BY <1>2
<1>4. f[m - 1] = g[m - 1]
  BY <1>1, <1>3
<1>. QED
  BY <1>3, <1>4 DEF Solves

(***************************************************************************)
(* Flattened and selected sequences                                        *)
(***************************************************************************)
Joins(s, X) == [i \in 1 .. Len(s) |-> [t \in Seq(X) |-> t \o s[i]]]

LEMMA FlattenIs ==
    ASSUME NEW X, NEW s \in Seq(Seq(X)), NEW f, Solves(f, Len(s), << >>, Joins(s, X)),
           f \in [0 .. Len(s) -> Seq(X)]
    PROVE Stream!FlattenSeq(s) = f[Len(s)]
<1>. DEFINE n == Len(s)
            G(g, i) == IF i = 1 THEN s[i] ELSE g[i - 1] \o s[i]
            flatten == CHOOSE g : g = [i \in 1 .. n |-> G(g, i)]
            all == [i \in 1 .. n |-> f[i]]
<1>0. n \in Nat
  OBVIOUS
<1>1. ASSUME NEW i \in 1 .. n PROVE f[i] = f[i - 1] \o s[i] /\ s[i] \in Seq(X) /\ f[i - 1] \in Seq(X)
  <2>1. f[i - 1] \in Seq(X) /\ s[i] \in Seq(X)
    <3>1. i - 1 \in 0 .. n
      BY <1>0
    <3>. QED
      BY <3>1
  <2>2. f[i] = Joins(s, X)[i][f[i - 1]]
    BY DEF Solves
  <2>. QED
    BY <2>1, <2>2 DEF Joins
<1>2. CASE n = 0
  <2>1. s = << >>
    BY <1>2
  <2>2. f[0] = << >>
    BY DEF Solves
  <2>. QED
    BY <1>2, <2>1, <2>2 DEF Stream!FlattenSeq
<1>3. CASE n # 0
  <2>1. Stream!FlattenSeq(s) = flatten[n]
    BY <1>3 DEF Stream!FlattenSeq
  <2>2. ASSUME NEW i \in 1 .. n PROVE all[i] = G(all, i)
    <3>1. CASE i = 1
      <4>1. f[0] = << >> /\ f[1] = f[0] \o s[1]
        <5>1. 1 - 1 = 0
          OBVIOUS
        <5>. QED
          BY <1>1, <3>1, <5>1 DEF Solves
      <4>2. << >> \o s[1] = s[1]
        BY <1>1, <3>1
      <4>. QED
        BY <3>1, <4>1, <4>2
    <3>2. CASE i # 1
      <4>1. all[i - 1] = f[i - 1]
        BY <1>0, <3>2
      <4>. QED
        BY <1>1, <3>2, <4>1
    <3>. QED
      BY <3>1, <3>2
  <2>3. all = [i \in 1 .. n |-> G(all, i)]
    <3>. HIDE DEF G
    <3>. QED
      BY <2>2
  <2>4. flatten = [i \in 1 .. n |-> G(flatten, i)]
    <3>. HIDE DEF G, all
    <3>. QED
      BY <2>3
  <2>. DEFINE g == [i \in 0 .. n |-> IF i = 0 THEN << >> ELSE flatten[i]]
  <2>5. ASSUME NEW i \in 1 .. n PROVE flatten[i] = G(flatten, i)
    <3>. HIDE DEF G, flatten
    <3>. QED
      BY <2>4
  <2>. HIDE DEF flatten
  <2>. DEFINE wrong == {i \in 1 .. n : flatten[i] # f[i]}
  <2>6. wrong = {}
    <3>. SUFFICES ASSUME wrong # {} PROVE FALSE
      OBVIOUS
    <3>1. PICK m \in wrong : \A c \in wrong : m <= c
      <4>1. wrong \subseteq Nat
        BY <1>0
      <4>. HIDE DEF wrong
      <4>. QED
        BY <4>1, LeastNat
    <3>2. CASE m = 1
      BY <2>2, <2>5, <3>2
    <3>3. CASE m # 1
      <4>1. m - 1 \in 1 .. n /\ ~ (m <= m - 1)
        BY <1>0, <3>3
      <4>2. flatten[m - 1] = f[m - 1]
        BY <3>1, <4>1
      <4>. QED
        BY <1>1, <2>5, <3>3, <4>2
    <3>. QED
      BY <3>2, <3>3
  <2>7. flatten[n] = f[n]
    BY <1>0, <1>3, <2>6
  <2>. QED
    BY <2>1, <2>7
<1>. QED
  BY <1>2, <1>3

(***************************************************************************)
(* The lines of a script                                                   *)
(***************************************************************************)
Line == Stream!ScriptLine
Mine(b) == Stream!Own(b)

\* Flat[k]: the lines of the first k commands; Owns[k]: those of these commands that the
\* client sends.
Flat == CHOOSE f : f \in [0 .. Len(script) -> Seq(Line)]
                   /\ Solves(f, Len(script), << >>, Joins(script, Line))

Picks == [i \in 1 .. Len(script) |-> [t \in Seq(Blocks) |->
             IF Mine(script[i]) THEN Append(t, script[i]) ELSE t]]

Owns == CHOOSE f : f \in [0 .. Len(script) -> Seq(Blocks)]
                   /\ Solves(f, Len(script), << >>, Picks)

LEMMA BlocksAreSequences ==
    /\ Seq(Blocks) \subseteq Seq(Seq(Line))
    /\ \A b \in Blocks : b \in Seq(Line) /\ Len(b) \in Nat \ {0} /\ b[1] \in Line
<1>1. ASSUME NEW b \in Blocks
      PROVE b \in Seq(Line) /\ Len(b) \in Nat \ {0} /\ b[1] \in Line
  <2>1. b \in Seq(Line) /\ b # << >>
    BY StreamAssumption DEF Line
  <2>2. Len(b) \in Nat \ {0}
    BY <2>1, EmptySeq
  <2>3. b[1] \in Line
    BY <2>1, <2>2
  <2>. QED
    BY <2>1, <2>2, <2>3
<1>2. Blocks \subseteq Seq(Line)
  BY <1>1
<1>3. ASSUME NEW s \in Seq(Blocks) PROVE s \in Seq(Seq(Line))
  BY <1>2, SeqMonotonic
<1>. QED
  BY <1>1, <1>3

LEMMA FlatFacts ==
    ASSUME script \in Seq(Blocks)
    PROVE /\ Flat[0] = << >>
          /\ \A k \in 0 .. Len(script) : Flat[k] \in Seq(Line)
          /\ \A k \in 1 .. Len(script) : /\ Flat[k] = Flat[k - 1] \o script[k]
                                         /\ Len(Flat[k]) = Len(Flat[k - 1]) + Len(script[k])
          /\ Stream!Lines = Flat[Len(script)]
<1>. DEFINE n == Len(script)
            h == Joins(script, Line)
<1>1. n \in Nat /\ script \in Seq(Seq(Line))
  BY BlocksAreSequences
<1>2. h \in [1 .. n -> [Seq(Line) -> Seq(Line)]]
  <2>1. ASSUME NEW i \in 1 .. n, NEW t \in Seq(Line) PROVE t \o script[i] \in Seq(Line)
    <3>1. script[i] \in Seq(Line)
      BY <1>1
    <3>. QED
      BY <3>1
  <2>. QED
    BY <1>1, <2>1 DEF Joins
<1>3. << >> \in Seq(Line)
  OBVIOUS
<1>4. Flat \in [0 .. n -> Seq(Line)] /\ Solves(Flat, n, << >>, h)
  <2>1. \E f \in [0 .. n -> Seq(Line)] : Solves(f, n, << >>, h)
    <3>. HIDE DEF h
    <3>. QED
      BY <1>1, <1>2, <1>3, Recursion
  <2>. QED
    BY <2>1 DEF Flat
<1>5. Stream!Lines = Flat[n]
  <2>1. Stream!FlattenSeq(script) = Flat[n]
    BY <1>1, <1>4, FlattenIs
  <2>. QED
    BY <2>1 DEF Stream!Lines
<1>6. ASSUME NEW k \in 1 .. n
      PROVE /\ Flat[k] = Flat[k - 1] \o script[k]
            /\ Len(Flat[k]) = Len(Flat[k - 1]) + Len(script[k])
  <2>1. k - 1 \in 0 .. n
    BY <1>1
  <2>2. Flat[k - 1] \in Seq(Line) /\ script[k] \in Seq(Line)
    <3>1. Flat[k - 1] \in Seq(Line)
      BY <1>4, <2>1
    <3>2. script[k] \in Seq(Line)
      BY <1>1, ElementOfSeq
    <3>. QED
      BY <3>1, <3>2
  <2>3. Flat[k] = h[k][Flat[k - 1]]
    BY <1>4 DEF Solves
  <2>4. Flat[k] = Flat[k - 1] \o script[k]
    BY <1>1, <2>2, <2>3 DEF Joins
  <2>. QED
    BY <2>2, <2>4
<1>7. \A k \in 0 .. n : Flat[k] \in Seq(Line)
  BY <1>4
<1>. QED
  BY <1>4, <1>5, <1>6, <1>7 DEF Solves

\* The lines of the first commands are the first lines, and fewer unless all commands are.
LEMMA FlatPrefix ==
    ASSUME script \in Seq(Blocks), NEW k \in 0 .. Len(script)
    PROVE /\ Len(Flat[k]) <= Len(Stream!Lines)
          /\ k < Len(script) => Len(Flat[k]) < Len(Stream!Lines)
          /\ \A j \in 1 .. Len(Flat[k]) : Stream!Lines[j] = Flat[k][j]
<1>. DEFINE n == Len(script)
            Good(i) == /\ Len(Flat[i]) <= Len(Stream!Lines)
                       /\ i < n => Len(Flat[i]) < Len(Stream!Lines)
                       /\ \A j \in 1 .. Len(Flat[i]) : Stream!Lines[j] = Flat[i][j]
            bad == {i \in 0 .. n : ~ Good(i)}
<1>1. n \in Nat /\ Stream!Lines = Flat[n]
  BY FlatFacts
<1>2. ASSUME NEW i \in 0 .. n PROVE Flat[i] \in Seq(Line) /\ Len(Flat[i]) \in Nat
  BY FlatFacts
<1>3. Good(n)
  BY <1>1, <1>2
<1>4. ASSUME NEW i \in 0 .. n, i < n, Good(i + 1) PROVE Good(i)
  <2>1. i + 1 \in 1 .. n /\ i + 1 \in 0 .. n /\ (i + 1) - 1 = i
    BY <1>1, <1>4
  <2>2. script[i + 1] \in Blocks
    BY <2>1
  <2>3. script[i + 1] \in Seq(Line) /\ Len(script[i + 1]) \in Nat \ {0}
    BY <2>2, BlocksAreSequences
  <2>4. Flat[i + 1] = Flat[i] \o script[i + 1]
        /\ Len(Flat[i + 1]) = Len(Flat[i]) + Len(script[i + 1])
    BY <2>1, FlatFacts
  <2>5. Flat[i] \in Seq(Line) /\ Len(Flat[i]) \in Nat /\ Len(Stream!Lines) \in Nat
    BY <1>1, <1>2
  <2>. DEFINE a == Flat[i]
              b == script[i + 1]
              c == Flat[i + 1]
  <2>6. /\ a \in Seq(Line) /\ b \in Seq(Line) /\ c = a \o b
        /\ Len(c) = Len(a) + Len(b) /\ Len(a) \in Nat /\ Len(b) \in Nat \ {0}
        /\ Len(Stream!Lines) \in Nat
        /\ Len(c) <= Len(Stream!Lines) /\ \A j \in 1 .. Len(c) : Stream!Lines[j] = c[j]
    BY <1>4, <2>3, <2>4, <2>5
  <2>. HIDE DEF a, b, c
  <2>7. \A j \in 1 .. Len(a) : j \in 1 .. Len(c) /\ c[j] = a[j]
    BY <2>6
  <2>8. /\ Len(a) <= Len(Stream!Lines) /\ Len(a) < Len(Stream!Lines)
        /\ \A j \in 1 .. Len(a) : Stream!Lines[j] = a[j]
    BY <2>6, <2>7
  <2>. QED
    BY <2>8 DEF a
<1>. HIDE DEF Good
<1>5. bad = {}
  <2>. SUFFICES ASSUME bad # {} PROVE FALSE
    OBVIOUS
  <2>1. PICK m \in bad : \A c \in bad : c <= m
    <3>1. bad \subseteq 0 .. n
      OBVIOUS
    <3>. HIDE DEF bad, n
    <3>. QED
      BY <1>1, <3>1, GreatestNat
  <2>2. m \in 0 .. n /\ m < n /\ m + 1 \in 0 .. n /\ ~ (m + 1 <= m)
    BY <1>1, <1>3
  <2>3. Good(m + 1)
    BY <2>1, <2>2
  <2>. QED
    BY <1>4, <2>2, <2>3
<1>. QED
  BY <1>5 DEF Good

\* Line j of command k.
LEMMA LineOfBlock ==
    ASSUME script \in Seq(Blocks), NEW k \in 1 .. Len(script), NEW j \in 1 .. Len(script[k])
    PROVE /\ Stream!Lines[Len(Flat[k - 1]) + j] = script[k][j]
          /\ Len(Flat[k - 1]) + j <= Len(Stream!Lines)
<1>1. script[k] \in Seq(Line) /\ Len(script[k]) \in Nat
  BY BlocksAreSequences
<1>2. k - 1 \in 0 .. Len(script) /\ k \in 0 .. Len(script)
  OBVIOUS
<1>. DEFINE a == Flat[k - 1]
            b == script[k]
            c == Flat[k]
<1>3. a \in Seq(Line) /\ c = a \o b /\ Len(c) = Len(a) + Len(b)
  BY <1>2, FlatFacts
<1>4. /\ Len(c) <= Len(Stream!Lines) /\ Len(Stream!Lines) \in Nat
      /\ \A i \in 1 .. Len(c) : Stream!Lines[i] = c[i]
  <2>1. Stream!Lines \in Seq(Line)
    BY FlatFacts
  <2>. QED
    BY <1>2, <2>1, FlatPrefix
<1>5. j \in 1 .. Len(b) /\ b \in Seq(Line) /\ Len(b) \in Nat
  BY <1>1
<1>. HIDE DEF a, b, c
<1>6. Len(a) \in Nat
  BY <1>3
<1>7. Len(a) + j \in 1 .. Len(c) /\ c[Len(a) + j] = b[j]
  BY <1>3, <1>5, <1>6, ConcatProperties
<1>8. Stream!Lines[Len(a) + j] = b[j] /\ Len(a) + j <= Len(Stream!Lines)
  BY <1>3, <1>4, <1>5, <1>6, <1>7
<1>. QED
  BY <1>8 DEF a, b

LEMMA OwnFacts ==
    ASSUME script \in Seq(Blocks)
    PROVE /\ Owns[0] = << >>
          /\ \A k \in 0 .. Len(script) : Owns[k] \in Seq(Blocks)
          /\ \A k \in 1 .. Len(script) :
                Owns[k] = IF Mine(script[k]) THEN Append(Owns[k - 1], script[k]) ELSE Owns[k - 1]
          /\ Stream!OwnCommands = Owns[Len(script)]
<1>. DEFINE n == Len(script)
<1>1. n \in Nat /\ << >> \in Seq(Blocks)
  OBVIOUS
<1>2. Picks \in [1 .. n -> [Seq(Blocks) -> Seq(Blocks)]]
  BY DEF Picks
<1>3. Owns \in [0 .. n -> Seq(Blocks)] /\ Solves(Owns, n, << >>, Picks)
  <2>1. \E f \in [0 .. n -> Seq(Blocks)] : Solves(f, n, << >>, Picks)
    BY <1>1, <1>2, Recursion
  <2>. QED
    BY <2>1 DEF Owns
<1>4. ASSUME NEW k \in 1 .. n
      PROVE Owns[k] = IF Mine(script[k]) THEN Append(Owns[k - 1], script[k]) ELSE Owns[k - 1]
  <2>1. Owns[k - 1] \in Seq(Blocks)
    <3>1. k - 1 \in 0 .. n
      BY <1>1
    <3>. QED
      BY <1>3, <3>1
  <2>2. Owns[k] = Picks[k][Owns[k - 1]]
    BY <1>3 DEF Solves
  <2>. QED
    BY <2>1, <2>2 DEF Picks
<1>5. Stream!OwnCommands = Owns[n]
  <2>. DEFINE G(g, k) == IF k = 0 THEN << >>
                         ELSE IF Mine(script[k]) THEN Append(g[k - 1], script[k]) ELSE g[k - 1]
              own == CHOOSE g : g = [k \in 0 .. n |-> G(g, k)]
  <2>1. Stream!OwnCommands = own[n]
    BY DEF Stream!OwnCommands, Mine
  <2>2. ASSUME NEW k \in 0 .. n PROVE Owns[k] = G(Owns, k)
    <3>1. k # 0 => k \in 1 .. n
      BY <1>1
    <3>. QED
      BY <1>3, <1>4, <3>1 DEF Solves
  <2>3. Owns = [k \in 0 .. n |-> G(Owns, k)]
    <3>. HIDE DEF G
    <3>. QED
      BY <1>3, <2>2
  <2>4. own = [k \in 0 .. n |-> G(own, k)]
    <3>. HIDE DEF G
    <3>. QED
      BY <2>3
  <2>5. ASSUME NEW k \in 0 .. n PROVE own[k] = G(own, k)
    <3>. HIDE DEF G, own
    <3>. QED
      BY <2>4
  <2>. HIDE DEF own
  <2>. DEFINE wrong == {k \in 0 .. n : own[k] # Owns[k]}
  <2>6. wrong = {}
    <3>. SUFFICES ASSUME wrong # {} PROVE FALSE
      OBVIOUS
    <3>1. PICK m \in wrong : \A c \in wrong : m <= c
      <4>1. wrong \subseteq Nat
        BY <1>1
      <4>. HIDE DEF wrong
      <4>. QED
        BY <4>1, LeastNat
    <3>2. CASE m = 0
      BY <2>2, <2>5, <3>2
    <3>3. CASE m # 0
      <4>1. m - 1 \in 0 .. n /\ ~ (m <= m - 1)
        BY <1>1, <3>3
      <4>2. own[m - 1] = Owns[m - 1]
        BY <3>1, <4>1
      <4>. QED
        BY <2>2, <2>5, <3>3, <4>2
    <3>. QED
      BY <3>2, <3>3
  <2>7. own[n] = Owns[n]
    BY <1>1, <2>6
  <2>. QED
    BY <2>1, <2>7
<1>. QED
  BY <1>3, <1>4, <1>5 DEF Solves

(***************************************************************************)
(* What client, server and engine make of a request                        *)
(***************************************************************************)
Stopping == {"PJ", "SL", "NJ"}

OwnLine(r) == r[1] \in Line /\ Mine(r)

\* The engine has read nothing of the request, and perhaps will not; or it has read the
\* first line, with its locks, and with all the lines that belong to it if nothing stops.
Unread == ran = << >> /\ (rest = Stream!Payload(request) \/ rest = << >>)

Begun ==
    /\ ran \in Seq(Line) /\ ran # << >> /\ rest \in Seq(Line)
    /\ Stream!LocksCover
    /\ Stream!Renders => rest = << >>
    /\ Stream!AsWritten /\ ~ Stream!Stops => rest = << >> /\ Len(ran) = 1

RequestInv ==
    /\ script \in Seq(Blocks) /\ at \in Nat /\ at <= Len(Stream!Lines) /\ extra \in Nat
    /\ sent \in Seq(Seq(Line)) /\ \A i \in DOMAIN sent : OwnLine(sent[i])
    /\ mode \in {"collect", "execute"} =>
           request \in Seq(Line) /\ Len(request) > 0 /\ OwnLine(request)
    /\ mode = "collect" => Len(request) + extra <= Stream!Extra(request[1]) + 1
    /\ mode = "execute" => Len(request) <= Stream!Extra(request[1]) + 1 /\ (Unread \/ Begun)
    /\ mode # "execute" => ran = << >>

LEMMA StreamSame ==
    ASSUME UNCHANGED <<client_id, script>>
    PROVE /\ Flat' = Flat /\ Owns' = Owns /\ Stream!Lines' = Stream!Lines
          /\ \A b : Mine(b)' <=> Mine(b)
          /\ Stream!Fits' <=> Stream!Fits
<1>1. \A b : Mine(b)' <=> Mine(b)
  BY DEF Mine, Stream!Own
<1>2. Flat' = Flat
  BY DEF Flat
<1>3. Picks' = Picks
  BY DEF Picks, Mine, Stream!Own
<1>4. Owns' = Owns
  BY <1>3 DEF Owns
<1>5. Stream!Lines' = Stream!Lines
  BY DEF Stream!Lines
<1>6. Stream!Fits' <=> Stream!Fits
  BY DEF Stream!Fits
<1>. QED
  BY <1>1, <1>2, <1>4, <1>5, <1>6

LEMMA OwnLineSame ==
    ASSUME UNCHANGED <<client_id, script>>, NEW r PROVE OwnLine(r)' <=> OwnLine(r)
BY DEF OwnLine, Mine, Stream!Own

LEMMA ExtraIsNat == ASSUME NEW l \in Line PROVE Stream!Extra(l) \in Nat
<1>1. l.count \in Nat
  BY DEF Line, Stream!ScriptLine
<1>. QED
  BY <1>1 DEF Stream!Extra

\* The lines of the script, whether or not it fits.
LEMMA LinesFacts ==
    ASSUME RequestInv
    PROVE /\ Stream!Lines \in Seq(Line) /\ Len(Stream!Lines) \in Nat
          /\ at # Len(Stream!Lines) => /\ at + 1 \in 1 .. Len(Stream!Lines)
                                       /\ Stream!Lines[at + 1] \in Line
<1>1. Stream!Lines \in Seq(Line)
  BY FlatFacts DEF RequestInv
<1>2. Len(Stream!Lines) \in Nat /\ at \in Nat /\ at <= Len(Stream!Lines)
  BY <1>1 DEF RequestInv
<1>3. ASSUME at # Len(Stream!Lines) PROVE at + 1 \in 1 .. Len(Stream!Lines)
  BY <1>2, <1>3
<1>4. ASSUME at # Len(Stream!Lines) PROVE Stream!Lines[at + 1] \in Line
  BY <1>1, <1>3, <1>4, ElementOfSeq
<1>. QED
  BY <1>1, <1>2, <1>3, <1>4

\* Names of one piece are the pieces that the engine reads.
LEMMA OnePiece ==
    ASSUME NEW s \in Seq(Seq(STRING)), \A i \in DOMAIN s : Len(s[i]) = 1
    PROVE /\ Len(Stream!FlattenSeq(s)) = Len(s)
          /\ \A i \in 1 .. Len(s) : s[i] = <<Stream!FlattenSeq(s)[i]>>
<1>. DEFINE n == Len(s)
            f == [k \in 0 .. n |-> [i \in 1 .. k |-> s[i][1]]]
<1>1. n \in Nat
  OBVIOUS
<1>2. ASSUME NEW i \in 1 .. n PROVE s[i] \in Seq(STRING) /\ Len(s[i]) = 1 /\ s[i][1] \in STRING
                                    /\ s[i] = <<s[i][1]>>
  <2>1. s[i] \in Seq(STRING) /\ Len(s[i]) = 1
    BY <1>1
  <2>. QED
    BY <2>1
<1>3. ASSUME NEW k \in 0 .. n PROVE f[k] \in Seq(STRING) /\ Len(f[k]) = k
  <2>1. k \in Nat /\ \A i \in 1 .. k : i \in 1 .. n
    BY <1>1
  <2>2. f[k] \in [1 .. k -> STRING]
    BY <1>2, <2>1
  <2>. HIDE DEF f
  <2>. QED
    BY <2>1, <2>2
<1>4. f \in [0 .. n -> Seq(STRING)]
  BY <1>3
<1>5. ASSUME NEW k \in 1 .. n PROVE f[k] = f[k - 1] \o s[k]
  <2>1. k - 1 \in 0 .. n /\ k \in 0 .. n
    BY <1>1
  <2>. DEFINE a == f[k - 1]
              b == s[k]
              c == f[k]
  <2>2. /\ a \in Seq(STRING) /\ Len(a) = k - 1 /\ c \in Seq(STRING) /\ Len(c) = k
        /\ b \in Seq(STRING) /\ Len(b) = 1
    BY <1>2, <1>3, <2>1
  <2>3. \A i \in 1 .. k - 1 : a[i] = s[i][1]
    BY <2>1
  <2>4. \A i \in 1 .. k : c[i] = s[i][1]
    BY <2>1
  <2>. HIDE DEF a, b, c
  <2>5. a \o b \in Seq(STRING) /\ Len(a \o b) = k
    <3>1. a \o b \in Seq(STRING) /\ Len(a \o b) = Len(a) + Len(b)
      BY <2>2, ConcatProperties
    <3>2. k \in Nat
      BY <1>1
    <3>. QED
      BY <2>2, <3>1, <3>2
  <2>6. ASSUME NEW i \in 1 .. k PROVE (a \o b)[i] = c[i]
    <3>1. CASE i = k
      <4>1. i \in 1 .. Len(a) + Len(b) /\ ~ (i <= Len(a)) /\ i - Len(a) = 1
        BY <1>1, <2>2, <3>1
      <4>2. (a \o b)[i] = IF i <= Len(a) THEN a[i] ELSE b[i - Len(a)]
        BY <2>2, <4>1, ConcatProperties
      <4>3. (a \o b)[i] = b[1]
        BY <4>1, <4>2, Zenon
      <4>4. c[i] = s[k][1]
        BY <2>4, <3>1
      <4>. QED
        BY <4>3, <4>4 DEF b
    <3>2. CASE i # k
      <4>1. i \in 1 .. k - 1
        BY <1>1, <3>2
      <4>2. i \in 1 .. Len(a) + Len(b) /\ i <= Len(a)
        BY <2>2, <4>1
      <4>3. (a \o b)[i] = IF i <= Len(a) THEN a[i] ELSE b[i - Len(a)]
        BY <2>2, <4>2, ConcatProperties
      <4>4. (a \o b)[i] = a[i]
        BY <4>2, <4>3, Zenon
      <4>. QED
        BY <2>3, <2>4, <4>1, <4>4
    <3>. QED
      BY <3>1, <3>2
  <2>7. a \o b = c
    <3>. DEFINE d == a \o b
    <3>1. d \in Seq(STRING) /\ Len(d) = Len(c) /\ \A i \in 1 .. Len(d) : d[i] = c[i]
      BY <2>2, <2>5, <2>6
    <3>. HIDE DEF d
    <3>2. d = c
      BY <2>2, <3>1, SeqEqual
    <3>. QED
      BY <3>2 DEF d
  <2>. QED
    BY <2>7 DEF a, b, c
<1>6. Solves(f, n, << >>, Joins(s, STRING))
  <2>1. f[0] = << >>
    BY <1>1
  <2>2. ASSUME NEW k \in 1 .. n PROVE f[k] = Joins(s, STRING)[k][f[k - 1]]
    <3>1. f[k - 1] \in Seq(STRING)
      <4>1. k - 1 \in 0 .. n
        BY <1>1
      <4>. QED
        BY <1>3, <4>1
    <3>. HIDE DEF f
    <3>. QED
      BY <1>5, <3>1 DEF Joins
  <2>. QED
    BY <2>1, <2>2 DEF Solves
<1>7. Stream!FlattenSeq(s) = f[n]
  <2>. HIDE DEF f
  <2>. QED
    BY <1>4, <1>6, FlattenIs
<1>8. Len(f[n]) = n /\ \A i \in 1 .. n : f[n][i] = s[i][1]
  BY <1>1, <1>3
<1>9. ASSUME NEW i \in 1 .. n PROVE s[i] = <<f[n][i]>>
  BY <1>2, <1>8
<1>. QED
  BY <1>7, <1>8, <1>9

\* The relations that the engine uses for a line are locked by the server for the same
\* line, if it is plain and its names are short; and then the engine accepts it if the
\* client sends data with it.
LEMMA FirstLine ==
    ASSUME NEW l \in Line, l.form = "plain", \A i \in DOMAIN l.names : Len(l.names[i]) = 1,
           NEW e, e = [l EXCEPT !.tid = << >>]
    PROVE /\ Stream!Covers(Stream!Locked(l), Stream!Needs(e))
          /\ Stream!Extra(l) # 0 => /\ Stream!Understood(e) /\ e.verb \in Stream!Counted
                                    /\ e.count = Stream!Extra(l)
<1>1. /\ l.names \in Seq(Seq(STRING)) /\ l.count \in Nat
      /\ e.names = l.names /\ e.verb = l.verb /\ e.form = "plain" /\ e.tid = << >>
      /\ e.count = l.count
  BY DEF Line, Stream!ScriptLine
<1>2. /\ Len(Stream!Pieces(e)) = Len(l.names)
      /\ \A i \in 1 .. Len(l.names) : l.names[i] = <<Stream!Pieces(e)[i]>>
  BY <1>1, OnePiece DEF Stream!Pieces
<1>. DEFINE a == Stream!Arity(l.verb)
            P == Stream!Pieces(e)
<1>3. a \in 1 .. 3 /\ Len(l.names) \in Nat
  BY <1>1 DEF Stream!Arity
<1>. HIDE DEF P
<1>4. Stream!Covers(Stream!Locked(l), Stream!Needs(e))
  <2>. SUFFICES ASSUME NEW d \in Stream!Needs(e)
                PROVE \/ <<<<d[1]>>, d[2]>> \in Stream!Locked(l)
                      \/ <<<<d[1]>>, "write">> \in Stream!Locked(l)
    BY DEF Stream!Covers
  <2>1. Stream!Understood(e)
    BY DEF Stream!Needs
  <2>2. PICK i \in 1 .. a :
           d = <<P[i], IF l.verb = "PR" \/ i < a THEN "read" ELSE "write">>
    BY <1>1, <2>1 DEF Stream!Needs, P
  <2>3. Stream!Recognized(l)
    <3>1. l.verb \in Stream!Verbs /\ Len(P) >= a
      BY <1>1, <1>2, <1>3, <2>1 DEF Stream!Understood, P
    <3>. QED
      BY <1>2, <3>1 DEF Stream!Recognized, P
  <2>4. i \in 1 .. Len(l.names)
    BY <1>3, <2>3 DEF Stream!Recognized
  <2>5. l.names[i] = <<d[1]>>
    BY <1>2, <2>2, <2>4 DEF P
  <2>. DEFINE w == IF l.verb = "PR" THEN "read" ELSE "write"
  <2>6. <<l.names[i], w>> \in Stream!Locked(l)
    BY <2>3 DEF Stream!Locked
  <2>7. w = "write" \/ d[2] = w
    BY <2>2
  <2>. QED
    BY <2>5, <2>6, <2>7
<1>5. ASSUME Stream!Extra(l) # 0
      PROVE Stream!Understood(e) /\ e.verb \in Stream!Counted /\ e.count = Stream!Extra(l)
  <2>1. l.verb \in Stream!Counted /\ Len(l.names) = a /\ Stream!Extra(l) = l.count
    BY <1>5 DEF Stream!Extra
  <2>2. l.verb \in Stream!Verbs
    BY <2>1 DEF Stream!Counted, Stream!Verbs
  <2>. QED
    BY <1>1, <1>2, <2>1, <2>2 DEF Stream!Understood
<1>. QED
  BY <1>4, <1>5

\* A command takes no more lines than there are; and it takes all of them if it announces
\* as many and accepts them, or does not mind.
LEMMA TakenFits ==
    ASSUME NEW l \in Line, NEW follow \in Seq(Line), NEW c \in Stream!Taken(l, follow)
    PROVE /\ c \in 0 .. Len(follow)
          /\ /\ Stream!Understood(l) /\ l.verb \in Stream!Counted /\ l.count >= Len(follow)
             /\ l.verb \in Stopping => \A i \in 1 .. Len(follow) : follow[i].right
             => c = Len(follow)
<1>. DEFINE m == IF l.count > Len(follow) THEN Len(follow) ELSE l.count
            wrong == {i \in 1 .. m : ~ follow[i].right}
            all == \/ ~ Stream!Understood(l) \/ l.verb \notin Stream!Counted
<1>1. Len(follow) \in Nat /\ l.count \in Nat
  BY DEF Line, Stream!ScriptLine
<1>2. /\ m \in 0 .. Len(follow) /\ \A i \in 1 .. m : i \in 0 .. Len(follow)
      /\ l.count >= Len(follow) => m = Len(follow)
  BY <1>1
<1>3. c \in IF ~ Stream!Understood(l) \/ l.verb \notin Stream!Counted THEN {0}
            ELSE IF l.verb \in {"CR", "IN", "RM", "UP"} THEN {m}
            ELSE {m} \union {k \in wrong : \A j \in wrong : k <= j}
  BY DEF Stream!Taken
<1>. HIDE DEF m
<1>4. CASE ~ Stream!Understood(l) \/ l.verb \notin Stream!Counted
  <2>1. c = 0
    BY <1>3, <1>4
  <2>. QED
    BY <1>1, <1>4, <2>1
<1>5. CASE Stream!Understood(l) /\ l.verb \in {"CR", "IN", "RM", "UP"}
  <2>1. c = m
    BY <1>3, <1>5 DEF Stream!Counted
  <2>. QED
    BY <1>2, <2>1
<1>6. CASE Stream!Understood(l) /\ l.verb \in Stopping
  <2>1. c = m \/ c \in wrong
    BY <1>3, <1>6 DEF Stream!Counted, Stopping
  <2>2. ASSUME l.count >= Len(follow), \A i \in 1 .. Len(follow) : follow[i].right PROVE c = m
    BY <1>2, <2>1, <2>2
  <2>. QED
    BY <1>2, <1>6, <2>1, <2>2
<1>. QED
  BY <1>4, <1>5, <1>6 DEF Stream!Counted, Stopping

\* The lines that the engine is given.
LEMMA PayloadLines ==
    ASSUME request \in Seq(Line), Len(request) > 0,
           rest = Stream!Payload(request), rest # << >>
    PROVE /\ rest \in Seq(Line) /\ Len(rest) = Len(request)
          /\ Head(rest) \in Line /\ Head(rest) = [request[1] EXCEPT !.tid = << >>]
          /\ Tail(rest) \in Seq(Line) /\ Len(Tail(rest)) = Len(request) - 1
          /\ \A i \in 1 .. Len(request) - 1 : Tail(rest)[i] = request[i + 1]
<1>. DEFINE e == [request[1] EXCEPT !.tid = << >>]
            n == Len(request)
<1>1. rest = [request EXCEPT ![1] = e]
  BY DEF Stream!Payload
<1>2. n \in Nat /\ n > 0 /\ 1 \in 1 .. n /\ request[1] \in Line
  <2>1. n \in Nat /\ n > 0 /\ 1 \in 1 .. n
    OBVIOUS
  <2>. QED
    BY <2>1, ElementOfSeq
<1>3. e \in Line
  <2>1. \A l \in Line : [l EXCEPT !.tid = << >>] \in Line
    <3>1. << >> \in Seq(0 .. 9)
      OBVIOUS
    <3>. QED
      BY <3>1 DEF Line, Stream!ScriptLine
  <2>. QED
    BY <1>2, <2>1
<1>. HIDE DEF e
<1>4. request \in [1 .. n -> Line]
  OBVIOUS
<1>5. rest \in [1 .. n -> Line] /\ rest[1] = e /\ \A i \in 1 .. n : i # 1 => rest[i] = request[i]
  BY <1>1, <1>2, <1>3, <1>4
<1>6. rest \in Seq(Line) /\ Len(rest) = n
  BY <1>2, <1>5
<1>7. Head(rest) = e
  BY <1>5, <1>6
<1>8. Tail(rest) \in Seq(Line) /\ Len(Tail(rest)) = n - 1
  BY <1>2, <1>6
<1>9. ASSUME NEW i \in 1 .. n - 1 PROVE Tail(rest)[i] = request[i + 1]
  <2>1. Tail(rest)[i] = rest[i + 1]
    BY <1>2, <1>6
  <2>2. i + 1 \in 1 .. n /\ i + 1 # 1
    BY <1>2
  <2>. QED
    BY <1>5, <2>1, <2>2
<1>. QED
  BY <1>3, <1>6, <1>7, <1>8, <1>9 DEF e

\* What the parts of a state that say something of the request depend on.
LEMMA RequestSame ==
    ASSUME UNCHANGED request
    PROVE /\ Stream!AsWritten' <=> Stream!AsWritten
          /\ Stream!Stops' <=> Stream!Stops
          /\ Stream!Renders' <=> Stream!Renders
BY DEF Stream!AsWritten, Stream!Stops, Stream!Renders

LEMMA RequestStarts == Stream!Init => RequestInv
<1>. SUFFICES ASSUME Stream!Init PROVE RequestInv
  OBVIOUS
<1>1. /\ at = 0 /\ mode = "command" /\ extra = 0 /\ sent = << >> /\ ran = << >>
      /\ script \in Stream!BoundedSeq(Blocks, MaxBlocks)
  BY DEF Stream!Init
<1>2. script \in Seq(Blocks)
  <2>1. PICK m \in 0 .. MaxBlocks : script \in [1 .. m -> Blocks]
    BY <1>1 DEF Stream!BoundedSeq, Stream!SeqOf
  <2>2. m \in Nat
    BY <2>1
  <2>. QED
    BY <2>1, <2>2
<1>3. Len(Stream!Lines) \in Nat
  <2>1. Stream!Lines \in Seq(Line)
    BY <1>2, FlatFacts
  <2>. QED
    BY <2>1
<1>. QED
  BY <1>1, <1>2, <1>3 DEF RequestInv

LEMMA RequestReadLine == ASSUME RequestInv, Stream!ReadLine PROVE RequestInv'
<1>. DEFINE l == Stream!Lines[at + 1]
<1>1. /\ mode = "command" /\ at # Len(Stream!Lines) /\ at' = at + 1
      /\ UNCHANGED <<client_id, script, rest, sent, ran>>
  BY DEF Stream!ReadLine, Stream!AtEnd
<1>2. l \in Line /\ at' \in Nat /\ at' <= Len(Stream!Lines)
  BY <1>1, LinesFacts DEF RequestInv
<1>3. Stream!Extra(l) \in Nat
  BY <1>2, ExtraIsNat
<1>. HIDE DEF l
<1>4. ran' = << >> /\ extra \in Nat
  BY <1>1 DEF RequestInv
<1>5. /\ script' \in Seq(Blocks) /\ sent' \in Seq(Seq(Line))
      /\ (\A i \in DOMAIN sent : OwnLine(sent[i]))'
  BY <1>1, OwnLineSame DEF RequestInv
<1>6. at' \in Nat /\ at' <= Len(Stream!Lines')
  BY <1>1, <1>2, StreamSame
<1>7. CASE l.tid = << >>
  <2>1. mode' = "command" /\ extra' = extra
    BY <1>1, <1>7 DEF Stream!ReadLine, l
  <2>. QED
    BY <1>4, <1>5, <1>6, <2>1 DEF RequestInv
<1>8. CASE l.tid # << >> /\ Stream!extract_tid_client(l.tid) # client_id
  <2>1. mode' = "skip" /\ extra' = Stream!Extra(l)
    BY <1>8 DEF Stream!ReadLine, l
  <2>. QED
    BY <1>3, <1>4, <1>5, <1>6, <2>1 DEF RequestInv
<1>9. CASE l.tid # << >> /\ Stream!extract_tid_client(l.tid) = client_id
  <2>1. mode' = "collect" /\ extra' = Stream!Extra(l) /\ request' = <<l>>
    BY <1>9 DEF Stream!ReadLine, l
  <2>2. request' \in Seq(Line) /\ Len(request') = 1 /\ request'[1] = l
    BY <1>2, <2>1
  <2>3. OwnLine(<<l>>)
    BY <1>2, <1>9 DEF OwnLine, Mine, Stream!Own
  <2>4. OwnLine(request)'
    BY <1>1, <2>1, <2>3 DEF OwnLine, Mine, Stream!Own
  <2>5. Len(request') + extra' <= Stream!Extra(request'[1]) + 1
    BY <1>3, <2>1, <2>2
  <2>. QED
    BY <1>3, <1>4, <1>5, <1>6, <2>1, <2>2, <2>4, <2>5 DEF RequestInv
<1>. QED
  BY <1>7, <1>8, <1>9

LEMMA RequestSkipLine == ASSUME RequestInv, Stream!SkipLine PROVE RequestInv'
<1>1. mode = "skip" /\ mode' \in {"skip", "command"} /\ UNCHANGED <<client_id, script, sent, ran>>
  BY DEF Stream!SkipLine
<1>2. at' \in Nat /\ at' <= Len(Stream!Lines) /\ extra' \in Nat
  <2>1. at \in Nat /\ at <= Len(Stream!Lines) /\ extra \in Nat /\ Len(Stream!Lines) \in Nat
    BY LinesFacts DEF RequestInv
  <2>2. CASE extra = 0 \/ Stream!AtEnd
    BY <2>1, <2>2 DEF Stream!SkipLine
  <2>3. CASE ~ (extra = 0 \/ Stream!AtEnd)
    <3>1. at' = at + 1 /\ extra' = extra - 1 /\ extra # 0 /\ at # Len(Stream!Lines)
      BY <2>3 DEF Stream!SkipLine, Stream!AtEnd
    <3>. QED
      BY <2>1, <3>1
  <2>. QED
    BY <2>2, <2>3
<1>3. /\ script' \in Seq(Blocks) /\ sent' \in Seq(Seq(Line)) /\ ran' = << >>
      /\ (\A i \in DOMAIN sent : OwnLine(sent[i]))'
  BY <1>1, OwnLineSame DEF RequestInv
<1>4. at' <= Len(Stream!Lines')
  BY <1>1, <1>2, StreamSame
<1>. QED
  BY <1>1, <1>2, <1>3, <1>4 DEF RequestInv

LEMMA RequestCollectLine == ASSUME RequestInv, Stream!CollectLine PROVE RequestInv'
<1>. DEFINE l == Stream!Lines[at + 1]
<1>1. /\ mode = "collect" /\ mode' = "collect" /\ UNCHANGED <<client_id, script, rest, sent, ran>>
      /\ extra > 0 /\ at # Len(Stream!Lines) /\ at' = at + 1 /\ extra' = extra - 1
      /\ request' = Append(request, l) \/ request' = request
  BY DEF Stream!CollectLine, Stream!AtEnd
<1>2. l \in Line /\ at' \in Nat /\ at' <= Len(Stream!Lines) /\ extra \in Nat /\ extra' \in Nat
  BY <1>1, LinesFacts DEF RequestInv
<1>. HIDE DEF l
<1>3. /\ request \in Seq(Line) /\ Len(request) > 0 /\ OwnLine(request)
      /\ Len(request) + extra <= Stream!Extra(request[1]) + 1
  BY <1>1 DEF RequestInv
<1>4. Stream!Extra(request[1]) \in Nat
  BY <1>3, ExtraIsNat DEF OwnLine
<1>5. /\ request' \in Seq(Line) /\ Len(request') > 0 /\ request'[1] = request[1]
      /\ Len(request') <= Len(request) + 1
  <2>1. CASE request' = request
    BY <1>3, <2>1
  <2>2. CASE request' = Append(request, l)
    BY <1>2, <1>3, <2>2
  <2>. QED
    BY <1>1, <2>1, <2>2
<1>6. Len(request') + extra' <= Stream!Extra(request'[1]) + 1
  <2>. DEFINE a == Len(request)
              b == Len(request')
              x == Stream!Extra(request[1])
  <2>1. a \in Nat /\ b \in Nat /\ x \in Nat /\ a + extra <= x + 1 /\ b <= a + 1
    BY <1>3, <1>4, <1>5
  <2>2. b + extra' <= x + 1
    <3>. HIDE DEF a, b, x
    <3>. QED
      BY <1>1, <1>2, <2>1
  <2>. QED
    BY <1>5, <2>2
<1>7. OwnLine(request)'
  BY <1>1, <1>3, <1>5 DEF OwnLine, Mine, Stream!Own
<1>8. /\ script' \in Seq(Blocks) /\ sent' \in Seq(Seq(Line)) /\ ran' = << >>
      /\ (\A i \in DOMAIN sent : OwnLine(sent[i]))'
  BY <1>1, OwnLineSame DEF RequestInv
<1>9. at' <= Len(Stream!Lines')
  BY <1>1, <1>2, StreamSame
<1>. QED
  BY <1>1, <1>2, <1>5, <1>6, <1>7, <1>8, <1>9 DEF RequestInv

LEMMA RequestSubmit == ASSUME RequestInv, Stream!Submit PROVE RequestInv'
<1>1. /\ mode = "collect" /\ mode' = "execute"
      /\ UNCHANGED <<client_id, script, at, extra, request, ran>>
      /\ sent' = Append(sent, request) /\ rest' = Stream!Payload(request)
  BY DEF Stream!Submit
<1>2. /\ request \in Seq(Line) /\ Len(request) > 0 /\ OwnLine(request) /\ ran = << >>
      /\ Len(request) + extra <= Stream!Extra(request[1]) + 1 /\ extra \in Nat
      /\ sent \in Seq(Seq(Line)) /\ \A i \in DOMAIN sent : OwnLine(sent[i])
  BY <1>1 DEF RequestInv
<1>3. Len(request) <= Stream!Extra(request[1]) + 1
  <2>1. Stream!Extra(request[1]) \in Nat /\ Len(request) \in Nat
    BY <1>2, ExtraIsNat DEF OwnLine
  <2>. QED
    BY <1>2, <2>1
<1>4. Unread'
  BY <1>1, <1>2 DEF Unread, Stream!Payload
<1>5. OwnLine(request)'
  BY <1>1, <1>2 DEF OwnLine, Mine, Stream!Own
<1>6. sent' \in Seq(Seq(Line)) /\ (\A i \in DOMAIN sent : OwnLine(sent[i]))'
  <2>1. /\ sent' \in Seq(Seq(Line)) /\ DOMAIN sent' = 1 .. Len(sent) + 1
        /\ \A i \in 1 .. Len(sent) : sent'[i] = sent[i]
        /\ sent'[Len(sent) + 1] = request
    <3>. HIDE DEF Line
    <3>. QED
      BY <1>1, <1>2
  <2>2. ASSUME NEW i \in DOMAIN sent' PROVE OwnLine(sent'[i])
    <3>1. i \in 1 .. Len(sent) \/ i = Len(sent) + 1
      BY <1>2, <2>1
    <3>2. CASE i \in 1 .. Len(sent)
      <4>1. i \in DOMAIN sent /\ sent'[i] = sent[i]
        BY <1>2, <2>1, <3>2
      <4>. QED
        BY <1>2, <4>1
    <3>3. CASE i = Len(sent) + 1
      <4>1. sent'[i] = request
        BY <2>1, <3>3
      <4>. QED
        BY <1>2, <4>1
    <3>. QED
      BY <3>1, <3>2, <3>3
  <2>. QED
    BY <1>1, <2>1, <2>2 DEF OwnLine, Mine, Stream!Own
<1>7. script' \in Seq(Blocks) /\ at' \in Nat /\ at' <= Len(Stream!Lines') /\ extra' \in Nat
  BY <1>1, StreamSame DEF RequestInv
<1>. QED
  BY <1>1, <1>2, <1>3, <1>4, <1>5, <1>6, <1>7 DEF RequestInv

\* The steps that carry a request out change rest and ran only.
LEMMA RequestCarriedOut ==
    ASSUME RequestInv, mode = "execute",
           UNCHANGED <<client_id, script, at, mode, extra, request, sent>>,
           Unread' \/ Begun'
    PROVE RequestInv'
<1>1. /\ request \in Seq(Line) /\ Len(request) > 0 /\ OwnLine(request)
      /\ Len(request) <= Stream!Extra(request[1]) + 1
      /\ sent \in Seq(Seq(Line)) /\ \A i \in DOMAIN sent : OwnLine(sent[i])
  BY DEF RequestInv
<1>2. OwnLine(request)' /\ (\A i \in DOMAIN sent : OwnLine(sent[i]))'
  BY <1>1 DEF OwnLine, Mine, Stream!Own
<1>3. script' \in Seq(Blocks) /\ at' \in Nat /\ at' <= Len(Stream!Lines') /\ extra' \in Nat
  BY StreamSame DEF RequestInv
<1>. QED
  BY <1>1, <1>2, <1>3 DEF RequestInv

LEMMA RequestGiveUp == ASSUME RequestInv, Stream!GiveUp PROVE RequestInv'
<1>1. /\ mode = "execute" /\ ran = << >> /\ rest' = << >>
      /\ UNCHANGED <<client_id, script, at, mode, extra, request, sent, ran>>
  BY DEF Stream!GiveUp
<1>. QED
  BY <1>1, RequestCarriedOut DEF Unread

\* What has been read first, and its locks.
LEMMA FirstRun ==
    ASSUME RequestInv, mode = "execute", rest # << >>, Unread, UNCHANGED request,
           ran' = <<Head(rest)>>
    PROVE /\ ran' \in Seq(Line) /\ ran' # << >> /\ Len(ran') = 1
          /\ Stream!LocksCover'
<1>1. request \in Seq(Line) /\ Len(request) > 0 /\ request[1] \in Line
  BY DEF RequestInv, OwnLine
<1>2. rest = Stream!Payload(request)
  BY DEF Unread
<1>3. Head(rest) \in Line /\ Head(rest) = [request[1] EXCEPT !.tid = << >>]
  BY <1>1, <1>2, PayloadLines
<1>4. ran' \in Seq(Line) /\ ran' # << >> /\ Len(ran') = 1 /\ ran'[1] = Head(rest)
  BY <1>3
<1>5. Stream!AsWritten => Stream!Covers(Stream!Locked(request[1]), Stream!Needs(Head(rest)))
  BY <1>1, <1>3, FirstLine DEF Stream!AsWritten
<1>6. Stream!LocksCover'
  BY <1>4, <1>5, RequestSame DEF Stream!LocksCover
<1>. QED
  BY <1>4, <1>6

LEMMA RequestRender == ASSUME RequestInv, Stream!Render PROVE RequestInv'
<1>1. /\ mode = "execute" /\ rest # << >> /\ Stream!Renders
      /\ ran' = <<Head(rest)>> /\ rest' = << >>
      /\ UNCHANGED <<client_id, script, at, mode, extra, request, sent>>
  BY DEF Stream!Render
<1>2. Unread
  BY <1>1 DEF RequestInv, Begun
<1>3. ran' \in Seq(Line) /\ ran' # << >> /\ Len(ran') = 1 /\ Stream!LocksCover'
  BY <1>1, <1>2, FirstRun
<1>4. Begun'
  BY <1>1, <1>3 DEF Begun
<1>. QED
  BY <1>1, <1>4, RequestCarriedOut

LEMMA SuffixLines ==
    ASSUME NEW r \in Seq(Line), NEW c \in Nat PROVE SubSeq(r, c + 2, Len(r)) \in Seq(Line)
<1>1. Len(r) \in Nat
  OBVIOUS
<1>2. c + 2 \in Int /\ Len(r) \in Int /\ \A i \in c + 2 .. Len(r) : i \in 1 .. Len(r)
  BY <1>1
<1>3. \A i \in c + 2 .. Len(r) : r[i] \in Line
  BY <1>2, ElementOfSeq
<1>. QED
  BY <1>2, <1>3, SubSeqProperties

LEMMA RequestRunCommand == ASSUME RequestInv, Stream!RunCommand PROVE RequestInv'
<1>1. /\ mode = "execute" /\ rest # << >> /\ ~ Stream!Renders
      /\ UNCHANGED <<client_id, script, at, mode, extra, request, sent>>
      /\ ran' = Append(ran, Head(rest))
  BY DEF Stream!RunCommand
<1>2. PICK c \in Stream!Taken(Head(rest), Tail(rest)) : rest' = SubSeq(rest, c + 2, Len(rest))
  BY DEF Stream!RunCommand
<1>3. ~ Stream!Renders'
  BY <1>1, RequestSame
<1>4. CASE Unread
  <2>1. /\ request \in Seq(Line) /\ Len(request) > 0 /\ request[1] \in Line
        /\ Len(request) <= Stream!Extra(request[1]) + 1
    BY <1>1 DEF RequestInv, OwnLine
  <2>2. rest = Stream!Payload(request)
    BY <1>1, <1>4 DEF Unread
  <2>. DEFINE e == Head(rest)
              follow == Tail(rest)
              n == Len(request)
  <2>3. /\ e \in Line /\ e = [request[1] EXCEPT !.tid = << >>] /\ e.verb = request[1].verb
        /\ follow \in Seq(Line) /\ Len(follow) = n - 1 /\ Len(rest) = n
        /\ \A i \in 1 .. n - 1 : follow[i] = request[i + 1]
    <3>1. request[1].verb = [request[1] EXCEPT !.tid = << >>].verb
      BY <2>1 DEF Line, Stream!ScriptLine
    <3>. QED
      BY <1>1, <2>1, <2>2, <3>1, PayloadLines
  <2>4. ran' = <<e>>
    <3>1. ran = << >>
      BY <1>4 DEF Unread
    <3>. QED
      BY <1>1, <3>1
  <2>5. ran' \in Seq(Line) /\ ran' # << >> /\ Len(ran') = 1 /\ Stream!LocksCover'
    BY <1>1, <1>4, <2>4, FirstRun
  <2>6. ASSUME Stream!AsWritten, ~ Stream!Stops PROVE rest' = << >>
    <3>1. c \in 0 .. n - 1
      BY <2>3, TakenFits
    <3>2. c = n - 1
      <4>1. CASE Stream!Extra(request[1]) = 0
        BY <2>1, <3>1, <4>1
      <4>2. CASE Stream!Extra(request[1]) # 0
        <5>1. /\ Stream!Understood(e) /\ e.verb \in Stream!Counted
              /\ e.count = Stream!Extra(request[1])
          BY <2>1, <2>3, <2>6, <4>2, FirstLine DEF Stream!AsWritten
        <5>2. e.count >= Len(follow)
          <6>1. Stream!Extra(request[1]) \in Nat
            BY <2>1, ExtraIsNat
          <6>. QED
            BY <2>1, <2>3, <5>1, <6>1
        <5>3. ASSUME e.verb \in Stopping, NEW i \in 1 .. Len(follow) PROVE follow[i].right
          <6>1. i + 1 \in 2 .. n /\ follow[i] = request[i + 1]
            BY <2>1, <2>3
          <6>2. request[i + 1].right
            BY <2>3, <2>6, <5>3, <6>1 DEF Stream!Stops, Stopping
          <6>. QED
            BY <6>1, <6>2
        <5>. HIDE DEF e, follow
        <5>. QED
          BY <2>3, <5>1, <5>2, <5>3, <1>2, TakenFits DEF e, follow
      <4>. QED
        BY <4>1, <4>2
    <3>3. c + 2 \in Int /\ Len(rest) \in Int /\ Len(rest) < c + 2
      BY <2>1, <2>3, <3>2
    <3>. QED
      BY <1>2, <3>3, SubSeqEmpty
  <2>7. rest' \in Seq(Line)
    <3>1. c \in Nat
      <4>1. c \in 0 .. n - 1
        BY <2>3, TakenFits
      <4>. QED
        BY <2>1, <4>1
    <3>2. rest \in Seq(Line)
      BY <1>1, <2>1, <2>2, PayloadLines
    <3>. QED
      BY <1>2, <3>1, <3>2, SuffixLines
  <2>8. Begun'
    BY <1>1, <1>3, <2>5, <2>6, <2>7, RequestSame DEF Begun
  <2>. QED
    BY <1>1, <2>8, RequestCarriedOut
<1>5. CASE Begun
  <2>1. /\ ran \in Seq(Line) /\ ran # << >> /\ Stream!LocksCover /\ rest \in Seq(Line)
        /\ ~ (Stream!AsWritten /\ ~ Stream!Stops)
    BY <1>1, <1>5 DEF Begun
  <2>2. Head(rest) \in Line /\ Tail(rest) \in Seq(Line)
    BY <1>1, <2>1, HeadTailProperties
  <2>3. rest' \in Seq(Line)
    <3>1. c \in Nat
      <4>1. c \in 0 .. Len(Tail(rest))
        BY <2>2, TakenFits
      <4>. QED
        BY <2>2, <4>1
    <3>. QED
      BY <1>2, <2>1, <3>1, SuffixLines
  <2>4. ran' \in Seq(Line) /\ ran' # << >> /\ ran'[1] = ran[1]
    <3>1. Len(ran) \in Nat /\ Len(ran) # 0
      BY <2>1, EmptySeq
    <3>. HIDE DEF Line
    <3>. QED
      BY <1>1, <2>1, <2>2, <3>1
  <2>5. Stream!LocksCover'
    BY <1>1, <2>1, <2>4, RequestSame DEF Stream!LocksCover
  <2>6. Begun'
    BY <1>3, <2>1, <2>3, <2>4, <2>5, <1>1, RequestSame DEF Begun
  <2>. QED
    BY <1>1, <2>6, RequestCarriedOut
<1>. QED
  BY <1>1, <1>4, <1>5 DEF RequestInv

LEMMA RequestEnds ==
    ASSUME RequestInv, Stream!EndOfScript \/ Stream!Answered PROVE RequestInv'
<1>1. /\ UNCHANGED <<client_id, script, at, extra, request, rest, sent>>
      /\ mode' \in {"done", "command"} /\ ran' = << >>
  BY DEF Stream!EndOfScript, Stream!Answered, RequestInv
<1>2. (\A i \in DOMAIN sent : OwnLine(sent[i]))'
  BY <1>1, OwnLineSame DEF RequestInv
<1>3. script' \in Seq(Blocks) /\ at' \in Nat /\ at' <= Len(Stream!Lines') /\ extra' \in Nat
  BY <1>1, StreamSame DEF RequestInv
<1>4. sent' \in Seq(Seq(Line))
  BY <1>1 DEF RequestInv
<1>. QED
  BY <1>1, <1>2, <1>3, <1>4 DEF RequestInv

LEMMA RequestSteps == RequestInv /\ [Stream!Next]_(Stream!vars) => RequestInv'
<1>. SUFFICES ASSUME RequestInv, [Stream!Next]_(Stream!vars) PROVE RequestInv'
  OBVIOUS
<1>1. CASE UNCHANGED Stream!vars
  <2>1. UNCHANGED <<client_id, script, at, mode, extra, request, rest, sent, dropped, ran>>
    BY <1>1 DEF Stream!vars
  <2>2. (\A i \in DOMAIN sent : OwnLine(sent[i]))' /\ (OwnLine(request)' <=> OwnLine(request))
    BY <2>1, OwnLineSame DEF RequestInv, OwnLine, Mine, Stream!Own
  <2>3. (Unread' <=> Unread) /\ (Begun' <=> Begun)
    BY <2>1 DEF Unread, Begun, Stream!LocksCover, Stream!Renders, Stream!AsWritten,
                Stream!Stops
  <2>4. script' \in Seq(Blocks) /\ at' \in Nat /\ at' <= Len(Stream!Lines') /\ extra' \in Nat
    BY <2>1, StreamSame DEF RequestInv
  <2>. QED
    BY <2>1, <2>2, <2>3, <2>4 DEF RequestInv
<1>. QED
  BY <1>1, RequestReadLine, RequestSkipLine, RequestCollectLine, RequestSubmit, RequestEnds,
     RequestGiveUp, RequestRender, RequestRunCommand DEF Stream!Next

(***************************************************************************)
(* Where the client is in a script that fits                               *)
(***************************************************************************)

\* The client has gone through the first k commands, and what it does now.
AtCommand(k) ==
    /\ mode = "command" /\ k \in 0 .. Len(script)
    /\ at = Len(Flat[k]) /\ sent = Owns[k]

Skipping(k) ==
    /\ mode = "skip" /\ k \in 1 .. Len(script)
    /\ extra < Len(script[k]) /\ at = Len(Flat[k]) - extra
    /\ sent = Owns[k]

Collecting(k) ==
    /\ mode = "collect" /\ k \in 1 .. Len(script) /\ Mine(script[k])
    /\ extra < Len(script[k]) /\ at = Len(Flat[k]) - extra
    /\ sent = Owns[k - 1]
    /\ request = SubSeq(script[k], 1, Len(script[k]) - extra)

Executing(k) ==
    /\ mode = "execute" /\ k \in 1 .. Len(script)
    /\ at = Len(Flat[k]) /\ sent = Owns[k]

Finished(k) == mode = "done" /\ k = Len(script) /\ sent = Owns[k]

Position(k) == AtCommand(k) \/ Skipping(k) \/ Collecting(k) \/ Executing(k) \/ Finished(k)

PositionInv == Stream!Fits /\ ~ dropped => \E k \in Nat : Position(k)

LEMMA FitFacts ==
    ASSUME RequestInv, Stream!Fits
    PROVE /\ script \in Seq(Blocks) /\ at \in Nat /\ extra \in Nat /\ Len(script) \in Nat
          /\ Stream!Lines \in Seq(Line) /\ Len(Stream!Lines) \in Nat
          /\ \A k \in 0 .. Len(script) : Len(Flat[k]) \in Nat
          /\ \A k \in 1 .. Len(script) :
                /\ k - 1 \in 0 .. Len(script) /\ k \in 0 .. Len(script)
                /\ script[k] \in Blocks /\ script[k] \in Seq(Line)
                /\ Len(script[k]) \in Nat \ {0} /\ script[k][1] \in Line
                /\ script[k][1].tid = << >> => Len(script[k]) = 1
                /\ script[k][1].tid # << >> => Stream!Extra(script[k][1]) = Len(script[k]) - 1
                /\ Len(Flat[k]) = Len(Flat[k - 1]) + Len(script[k])
                /\ Len(Flat[k]) <= Len(Stream!Lines)
<1>1. script \in Seq(Blocks) /\ at \in Nat /\ extra \in Nat /\ Len(script) \in Nat
  BY DEF RequestInv
<1>2. Stream!Lines \in Seq(Line) /\ Len(Stream!Lines) \in Nat
  <2>1. Stream!Lines \in Seq(Line)
    BY <1>1, FlatFacts
  <2>. QED
    BY <2>1
<1>3. \A k \in 0 .. Len(script) : Len(Flat[k]) \in Nat
  BY <1>1, FlatFacts
<1>4. ASSUME NEW k \in 1 .. Len(script)
      PROVE /\ k - 1 \in 0 .. Len(script) /\ k \in 0 .. Len(script)
            /\ script[k] \in Blocks /\ script[k] \in Seq(Line)
            /\ Len(script[k]) \in Nat \ {0} /\ script[k][1] \in Line
            /\ script[k][1].tid = << >> => Len(script[k]) = 1
            /\ script[k][1].tid # << >> => Stream!Extra(script[k][1]) = Len(script[k]) - 1
            /\ Len(Flat[k]) = Len(Flat[k - 1]) + Len(script[k])
            /\ Len(Flat[k]) <= Len(Stream!Lines)
  <2>1. k - 1 \in 0 .. Len(script) /\ k \in 0 .. Len(script)
    BY <1>1
  <2>2. script[k] \in Blocks
    BY <1>1
  <2>3. Len(Flat[k]) = Len(Flat[k - 1]) + Len(script[k])
    BY <1>1, FlatFacts
  <2>4. Len(Flat[k]) <= Len(Stream!Lines)
    BY <1>1, <2>1, FlatPrefix
  <2>5. script[k] \in Seq(Line) /\ Len(script[k]) \in Nat \ {0} /\ script[k][1] \in Line
    BY <2>2, BlocksAreSequences
  <2>6. Len(script[k]) = 1 + IF script[k][1].tid = << >> THEN 0
                             ELSE Stream!Extra(script[k][1])
    <3>1. k \in DOMAIN script
      BY <1>1
    <3>2. Stream!Fits
      OBVIOUS
    <3>. QED
      BY <3>1, <3>2, Zenon DEF Stream!Fits
  <2>7. /\ script[k][1].tid = << >> => Len(script[k]) = 1
        /\ script[k][1].tid # << >> => Stream!Extra(script[k][1]) = Len(script[k]) - 1
    BY <2>5, <2>6, ExtraIsNat
  <2>. QED
    BY <2>1, <2>2, <2>3, <2>4, <2>5, <2>7
<1>. QED
  BY <1>1, <1>2, <1>3, <1>4

LEMMA ReadLinePosition ==
    ASSUME RequestInv, Stream!Fits, NEW k \in Nat, Position(k), Stream!ReadLine
    PROVE \E j \in Nat : Position(j)'
<1>. DEFINE l == Stream!Lines[at + 1]
<1>1. /\ mode = "command" /\ at # Len(Stream!Lines) /\ at' = at + 1
      /\ UNCHANGED <<client_id, script, rest, sent, dropped, ran>>
  BY DEF Stream!ReadLine, Stream!AtEnd
<1>2. AtCommand(k)
  BY <1>1 DEF Position, Skipping, Collecting, Executing, Finished
<1>3. k < Len(script) /\ k + 1 \in 1 .. Len(script) /\ (k + 1) - 1 = k
  <2>1. k # Len(script)
    BY <1>1, <1>2, FitFacts, FlatFacts DEF AtCommand
  <2>. QED
    BY <1>2, <2>1, FitFacts DEF AtCommand
<1>. DEFINE b == script[k + 1]
<1>4. /\ b \in Seq(Line) /\ Len(b) \in Nat \ {0} /\ b[1] \in Line
      /\ b[1].tid = << >> => Len(b) = 1
      /\ b[1].tid # << >> => Stream!Extra(b[1]) = Len(b) - 1
      /\ Len(Flat[k + 1]) = Len(Flat[k]) + Len(b)
      /\ Len(Flat[k]) \in Nat
  BY <1>2, <1>3, FitFacts DEF AtCommand
<1>5. l = b[1]
  <2>1. script \in Seq(Blocks)
    BY FitFacts
  <2>2. 1 \in 1 .. Len(script[k + 1])
    BY <1>4
  <2>3. Stream!Lines[Len(Flat[(k + 1) - 1]) + 1] = b[1]
    <3>. HIDE DEF b
    <3>. QED
      BY <1>3, <2>1, <2>2, LineOfBlock DEF b
  <2>. QED
    BY <1>2, <1>3, <2>3 DEF AtCommand
<1>. HIDE DEF l, b
<1>6. CASE b[1].tid = << >>
  <2>1. mode' = "command" /\ ~ Mine(b) /\ Len(b) = 1
    BY <1>1, <1>4, <1>5, <1>6 DEF Stream!ReadLine, Mine, Stream!Own, l
  <2>2. Owns[k + 1] = Owns[k]
    BY <1>3, <2>1, FitFacts, OwnFacts DEF b
  <2>3. at' = Len(Flat[k + 1])
    BY <1>1, <1>2, <1>4, <2>1 DEF AtCommand
  <2>4. k + 1 \in 0 .. Len(script)
    BY <1>3
  <2>5. AtCommand(k + 1)'
    BY <1>1, <1>2, <2>1, <2>2, <2>3, <2>4, StreamSame DEF AtCommand
  <2>. QED
    BY <1>3, <2>5 DEF Position
<1>7. CASE b[1].tid # << >> /\ ~ Mine(b)
  <2>1. mode' = "skip" /\ extra' = Len(b) - 1
    BY <1>4, <1>5, <1>7 DEF Stream!ReadLine, Mine, Stream!Own, l
  <2>2. Owns[k + 1] = Owns[k]
    BY <1>3, <1>7, FitFacts, OwnFacts DEF b
  <2>3. extra' \in Nat /\ extra' < Len(b) /\ at' = Len(Flat[k + 1]) - extra'
    BY <1>1, <1>2, <1>4, <2>1 DEF AtCommand
  <2>4. Skipping(k + 1)'
    BY <1>1, <1>2, <1>3, <2>1, <2>2, <2>3, StreamSame DEF Skipping, AtCommand, b
  <2>. QED
    BY <1>3, <2>4 DEF Position
<1>8. CASE b[1].tid # << >> /\ Mine(b)
  <2>1. mode' = "collect" /\ extra' = Len(b) - 1 /\ request' = <<b[1]>>
    BY <1>4, <1>5, <1>8 DEF Stream!ReadLine, Mine, Stream!Own, l
  <2>2. extra' \in Nat /\ extra' < Len(b) /\ at' = Len(Flat[k + 1]) - extra'
    BY <1>1, <1>2, <1>4, <2>1 DEF AtCommand
  <2>3. request' = SubSeq(b, 1, Len(b) - extra')
    <3>1. Len(b) - extra' = 1
      BY <1>4, <2>1
    <3>2. SubSeq(b, 1, 1) = <<b[1]>>
      <4>1. 1 \in 1 .. Len(b)
        BY <1>4
      <4>2. SubSeq(b, 1, 1) = <<b[1]>> \o SubSeq(b, 1 + 1, 1)
        BY <1>4, <4>1, SubSeqRecursiveFirst
      <4>3. SubSeq(b, 1 + 1, 1) = << >>
        BY SubSeqEmpty
      <4>4. <<b[1]>> \in Seq(Line) /\ <<b[1]>> \o << >> = <<b[1]>>
        <5>1. <<b[1]>> \in Seq(Line)
          BY <1>4
        <5>. HIDE DEF Line
        <5>. QED
          BY <5>1, ConcatEmptySeq
      <4>. QED
        BY <4>2, <4>3, <4>4
    <3>. QED
      BY <2>1, <3>1, <3>2
  <2>4. Collecting(k + 1)'
    BY <1>1, <1>2, <1>3, <1>8, <2>1, <2>2, <2>3, StreamSame DEF Collecting, AtCommand, b
  <2>. QED
    BY <1>3, <2>4 DEF Position
<1>. QED
  BY <1>6, <1>7, <1>8

LEMMA SkipLinePosition ==
    ASSUME RequestInv, Stream!Fits, NEW k \in Nat, Position(k), Stream!SkipLine
    PROVE \E j \in Nat : Position(j)'
<1>1. mode = "skip" /\ UNCHANGED <<client_id, script, request, rest, sent, dropped, ran>>
  BY DEF Stream!SkipLine
<1>2. Skipping(k)
  BY <1>1 DEF Position, AtCommand, Collecting, Executing, Finished
<1>3. /\ k \in 1 .. Len(script) /\ k \in 0 .. Len(script) /\ Len(Flat[k]) \in Nat
      /\ Len(Flat[k]) <= Len(Stream!Lines) /\ Len(Stream!Lines) \in Nat
      /\ Len(script[k]) \in Nat
  BY <1>2, FitFacts DEF Skipping
<1>5. CASE extra = 0 \/ Stream!AtEnd
  <2>1. mode' = "command" /\ at' = at /\ extra' = extra
    BY <1>5 DEF Stream!SkipLine
  <2>2. extra = 0
    BY <1>2, <1>3, <1>5, FitFacts DEF Skipping, Stream!AtEnd
  <2>3. AtCommand(k)'
    BY <1>1, <1>2, <1>3, <2>1, <2>2, StreamSame DEF AtCommand, Skipping
  <2>. QED
    BY <2>3 DEF Position
<1>6. CASE ~ (extra = 0 \/ Stream!AtEnd)
  <2>1. mode' = mode /\ at' = at + 1 /\ extra' = extra - 1
    BY <1>6 DEF Stream!SkipLine
  <2>2. at' \in Nat /\ extra' \in Nat /\ extra' < Len(script[k]) /\ at' = Len(Flat[k]) - extra'
    <3>1. extra \in Nat /\ at \in Nat /\ extra # 0
      BY <1>6, FitFacts
    <3>2. extra < Len(script[k]) /\ at = Len(Flat[k]) - extra
      BY <1>2 DEF Skipping
    <3>. QED
      BY <1>3, <2>1, <3>1, <3>2
  <2>3. Skipping(k)'
    BY <1>1, <1>2, <1>3, <2>1, <2>2, StreamSame DEF Skipping
  <2>. QED
    BY <2>3 DEF Position
<1>. QED
  BY <1>5, <1>6

LEMMA CollectLinePosition ==
    ASSUME RequestInv, Stream!Fits, NEW k \in Nat, Position(k), Stream!CollectLine, ~ dropped'
    PROVE \E j \in Nat : Position(j)'
<1>1. /\ mode = "collect" /\ mode' = "collect" /\ UNCHANGED <<client_id, script, rest, sent, ran>>
      /\ extra > 0 /\ at' = at + 1 /\ extra' = extra - 1
      /\ request' = Append(request, Stream!Lines[at + 1])
  BY DEF Stream!CollectLine
<1>2. Collecting(k)
  BY <1>1 DEF Position, AtCommand, Skipping, Executing, Finished
<1>3. k \in 1 .. Len(script)
  BY <1>2 DEF Collecting
<1>. DEFINE b == script[k]
            j == Len(b) - extra + 1
<1>4. /\ b \in Seq(Line) /\ Len(b) \in Nat /\ Len(Flat[k]) = Len(Flat[k - 1]) + Len(b)
      /\ Len(Flat[k - 1]) \in Nat /\ extra \in Nat /\ at \in Nat
  BY <1>3, FitFacts
<1>5. extra < Len(b) /\ at = Len(Flat[k]) - extra /\ request = SubSeq(b, 1, Len(b) - extra)
  BY <1>2 DEF Collecting
<1>6. Stream!Lines[Len(Flat[k - 1]) + j] = b[j]
  <2>1. j \in 1 .. Len(b)
    BY <1>1, <1>4, <1>5
  <2>. QED
    BY <1>3, <2>1, FitFacts, LineOfBlock
<1>. HIDE DEF b
<1>7. request' = Append(SubSeq(b, 1, Len(b) - extra), b[j])
  <2>1. Len(Flat[k - 1]) + j = at + 1
    <3>1. Len(b) \in Nat /\ Len(Flat[k]) = Len(Flat[k - 1]) + Len(b) /\ Len(Flat[k - 1]) \in Nat
      BY <1>4
    <3>2. at = Len(Flat[k]) - extra /\ extra \in Nat /\ at \in Nat
      BY <1>4, <1>5
    <3>. DEFINE B == Len(b)
                F == Len(Flat[k])
                G == Len(Flat[k - 1])
    <3>3. B \in Nat /\ F = G + B /\ G \in Nat /\ at = F - extra
      BY <3>1, <3>2
    <3>4. G + (B - extra + 1) = at + 1
      <4>. HIDE DEF B, F, G
      <4>. QED
        BY <3>2, <3>3
    <3>. QED
      BY <3>4
  <2>. QED
    BY <1>1, <1>5, <1>6, <2>1
<1>8. Append(SubSeq(b, 1, Len(b) - extra), b[j]) = SubSeq(b, 1, Len(b) - extra')
  <2>1. /\ j \in 1 .. Len(b) /\ j - 1 = Len(b) - extra /\ Len(b) - extra' = j /\ 1 \in 1 .. Len(b)
        /\ Len(b) - extra \in Int
    BY <1>1, <1>4, <1>5
  <2>. HIDE DEF j
  <2>2. SubSeq(b, 1, j) = SubSeq(b, 1, j - 1) \o <<b[j]>>
    BY <1>4, <2>1, SubSeqRecursiveSecond
  <2>3. SubSeq(b, 1, j - 1) \in Seq(Line) /\ b[j] \in Line
    <3>1. b[j] \in Line
      BY <1>4, <2>1, ElementOfSeq
    <3>2. \A i \in 1 .. j - 1 : b[i] \in Line
      BY <1>4, <2>1, ElementOfSeq
    <3>3. j - 1 \in Int /\ 1 \in Int
      BY <2>1
    <3>. QED
      BY <3>1, <3>2, <3>3, SubSeqProperties
  <2>4. Append(SubSeq(b, 1, j - 1), b[j]) = SubSeq(b, 1, j - 1) \o <<b[j]>>
    BY <2>3, AppendIsConcat
  <2>. QED
    BY <2>1, <2>2, <2>4
<1>9. extra' \in Nat /\ extra' < Len(b) /\ at' = Len(Flat[k]) - extra' /\ at' \in Nat
  BY <1>1, <1>4, <1>5
<1>10. Collecting(k)'
  BY <1>1, <1>2, <1>7, <1>8, <1>9, StreamSame DEF Collecting, b
<1>. QED
  BY <1>10 DEF Position

LEMMA SubmitPosition ==
    ASSUME RequestInv, Stream!Fits, NEW k \in Nat, Position(k), Stream!Submit
    PROVE \E j \in Nat : Position(j)'
<1>1. /\ mode = "collect" /\ mode' = "execute" /\ UNCHANGED <<client_id, script, at, extra, request, dropped, ran>>
      /\ extra = 0 \/ at = Len(Stream!Lines)
      /\ sent' = Append(sent, request)
  BY DEF Stream!Submit, Stream!AtEnd
<1>2. Collecting(k)
  BY <1>1 DEF Position, AtCommand, Skipping, Executing, Finished
<1>3. k \in 1 .. Len(script) /\ Mine(script[k]) /\ sent = Owns[k - 1]
  BY <1>2 DEF Collecting
<1>. DEFINE b == script[k]
<1>4. /\ b \in Seq(Line) /\ Len(b) \in Nat \ {0} /\ b \in Blocks
      /\ Len(Flat[k]) \in Nat /\ Len(Flat[k]) <= Len(Stream!Lines) /\ Len(Stream!Lines) \in Nat
      /\ extra \in Nat /\ at \in Nat
  BY <1>3, FitFacts
<1>5. extra = 0 /\ at = Len(Flat[k])
  BY <1>1, <1>2, <1>4 DEF Collecting
<1>6. request = b
  <2>1. request = SubSeq(b, 1, Len(b))
    BY <1>2, <1>4, <1>5 DEF Collecting
  <2>. QED
    BY <1>4, <2>1, SubSeqFull
<1>7. sent' = Owns[k]
  BY <1>1, <1>3, <1>6, FitFacts, OwnFacts
<1>8. Executing(k)'
  BY <1>1, <1>3, <1>5, <1>7, StreamSame DEF Executing
<1>. QED
  BY <1>8 DEF Position

LEMMA EndOfScriptPosition ==
    ASSUME RequestInv, Stream!Fits, NEW k \in Nat, Position(k), Stream!EndOfScript
    PROVE \E j \in Nat : Position(j)'
<1>1. /\ mode = "command" /\ mode' = "done" /\ at = Len(Stream!Lines)
      /\ UNCHANGED <<client_id, script, at, extra, request, rest, sent, dropped, ran>>
  BY DEF Stream!EndOfScript, Stream!AtEnd
<1>2. AtCommand(k)
  BY <1>1 DEF Position, Skipping, Collecting, Executing, Finished
<1>3. k = Len(script)
  <2>1. k \in 0 .. Len(script) /\ Len(Flat[k]) = Len(Stream!Lines)
    BY <1>1, <1>2 DEF AtCommand
  <2>2. k < Len(script) => Len(Flat[k]) < Len(Stream!Lines)
    BY <2>1, FitFacts, FlatPrefix
  <2>. QED
    BY <2>1, <2>2, FitFacts
<1>4. Finished(k)'
  BY <1>1, <1>2, <1>3, StreamSame DEF AtCommand, Finished
<1>. QED
  BY <1>4 DEF Position

LEMMA ExecutePosition ==
    ASSUME RequestInv, NEW k \in Nat, Position(k),
           Stream!GiveUp \/ Stream!Render \/ Stream!RunCommand \/ Stream!Answered
    PROVE \E j \in Nat : Position(j)'
<1>1. /\ mode = "execute" /\ mode' \in {"execute", "command"}
      /\ UNCHANGED <<client_id, script, at, sent>>
  BY DEF Stream!GiveUp, Stream!Render, Stream!RunCommand, Stream!Answered
<1>2. Executing(k)
  BY <1>1 DEF Position, AtCommand, Skipping, Collecting, Finished
<1>3. k \in 0 .. Len(script)
  BY <1>2 DEF Executing, RequestInv
<1>4. Executing(k)' \/ AtCommand(k)'
  BY <1>1, <1>2, <1>3, StreamSame DEF Executing, AtCommand
<1>. QED
  BY <1>4 DEF Position

LEMMA PositionSteps ==
    RequestInv /\ PositionInv /\ [Stream!Next]_(Stream!vars) => PositionInv'
<1>. SUFFICES ASSUME RequestInv, PositionInv, [Stream!Next]_(Stream!vars),
                     Stream!Fits', ~ dropped'
              PROVE \E j \in Nat : Position(j)'
  BY DEF PositionInv
<1>1. UNCHANGED <<client_id, script>> /\ (~ dropped' => ~ dropped)
  BY DEF Stream!Next, Stream!vars, Stream!ReadLine, Stream!SkipLine, Stream!CollectLine,
         Stream!Submit, Stream!EndOfScript, Stream!GiveUp, Stream!Render,
         Stream!RunCommand, Stream!Answered
<1>2. Stream!Fits
  BY <1>1, StreamSame
<1>3. PICK k \in Nat : Position(k)
  BY <1>1, <1>2 DEF PositionInv
<1>4. CASE UNCHANGED Stream!vars
  <2>1. UNCHANGED <<client_id, script, at, mode, extra, request, rest, sent, dropped, ran>>
    BY <1>4 DEF Stream!vars
  <2>2. Position(k)'
    BY <1>3, <2>1, StreamSame
    DEF Position, AtCommand, Skipping, Collecting, Executing, Finished
  <2>. QED
    BY <2>2
<1>. QED
  BY <1>2, <1>3, <1>4, ReadLinePosition, SkipLinePosition, CollectLinePosition,
     SubmitPosition, EndOfScriptPosition, ExecutePosition DEF Stream!Next

LEMMA PositionStarts == Stream!Init => PositionInv
<1>. SUFFICES ASSUME Stream!Init PROVE PositionInv
  OBVIOUS
<1>1. at = 0 /\ mode = "command" /\ sent = << >> /\ script \in Seq(Blocks)
  BY RequestStarts DEF Stream!Init, RequestInv
<1>2. AtCommand(0)
  BY <1>1, FlatFacts, OwnFacts DEF AtCommand
<1>. QED
  BY <1>2 DEF PositionInv, Position

StreamInv == RequestInv /\ PositionInv

LEMMA StreamAgrees == StreamInv => Stream!ParsersAgree
<1>. SUFFICES ASSUME StreamInv PROVE Stream!ParsersAgree
  OBVIOUS
<1>1. Stream!SentWhole
  <2>1. ASSUME mode = "done", Stream!Fits, ~ dropped PROVE sent = Stream!OwnCommands
    <3>1. PICK k \in Nat : Finished(k)
      BY <2>1 DEF StreamInv, PositionInv, Position, AtCommand, Skipping, Collecting, Executing
    <3>. QED
      BY <3>1, OwnFacts DEF Finished, StreamInv, RequestInv
  <2>. QED
    BY <2>1 DEF Stream!SentWhole
<1>2. Stream!SameClient
  <2>. SUFFICES ASSUME NEW i \in DOMAIN sent
                PROVE Stream!txn_client_id(sent[i][1].tid) = <<client_id>>
                      <=> Len(sent[i][1].tid) = 2
    BY DEF Stream!SameClient
  <2>. DEFINE t == sent[i][1].tid
              d == Stream!txn_client_id(t)
  <2>1. sent[i][1] \in Line /\ t # << >> /\ Head(t) = client_id
    BY DEF StreamInv, RequestInv, OwnLine, Mine, Stream!Own, Stream!extract_tid_client
  <2>2. t \in Seq(0 .. 9)
    BY <2>1 DEF Line, Stream!ScriptLine
  <2>3. d = SubSeq(t, 1, Len(t) - 1)
    BY DEF Stream!txn_client_id, Stream!Front
  <2>. HIDE DEF t
  <2>4. Len(t) \in Nat \ {0} /\ t[1] = client_id
    BY <2>1, <2>2, EmptySeq
  <2>. HIDE DEF d
  <2>. DEFINE m == Len(t) - 1
  <2>5. /\ d \in Seq(0 .. 9) /\ Len(d) = m /\ m \in Nat /\ Len(t) = m + 1
        /\ \A j \in 1 .. Len(d) : d[j] = t[j]
    <3>1. m \in Nat /\ Len(t) = m + 1
      BY <2>4
    <3>2. \A j \in 1 .. m : t[j] \in 0 .. 9
      BY <2>2, <2>4, ElementOfSeq
    <3>3. d = SubSeq(t, 1, m)
      BY <2>3
    <3>. HIDE DEF m
    <3>4. 1 \in Int /\ m \in Int
      BY <3>1
    <3>5. /\ d \in Seq(0 .. 9) /\ Len(d) = IF 1 <= m THEN m - 1 + 1 ELSE 0
          /\ \A j \in 1 .. m - 1 + 1 : d[j] = t[1 + j - 1]
      BY <3>2, <3>3, <3>4, SubSeqProperties
    <3>6. Len(d) = m
      BY <3>1, <3>5
    <3>. QED
      BY <3>1, <3>5, <3>6
  <2>. HIDE DEF m
  <2>6. ASSUME d = <<client_id>> PROVE Len(t) = 2
    <3>1. Len(d) = 1
      BY <2>6
    <3>2. m = 1
      BY <2>5, <3>1
    <3>. QED
      BY <2>5, <3>2
  <2>7. ASSUME Len(t) = 2 PROVE d = <<client_id>>
    <3>1. d \in Seq(0 .. 9) /\ Len(d) = 1 /\ d[1] = client_id
      <4>1. m = 1
        <5>1. m \in Nat /\ m + 1 = 2
          BY <2>5, <2>7, Zenon
        <5>. QED
          BY <5>1
      <4>2. 1 \in 1 .. Len(d)
        BY <2>5, <4>1
      <4>. QED
        BY <2>4, <2>5, <4>1, <4>2
    <3>. QED
      BY <3>1
  <2>. QED
    BY <2>6, <2>7 DEF t, d
<1>3. ASSUME mode = "execute" PROVE Stream!LocksCover /\ Stream!DataStaysData
  <2>1. CASE Unread
    <3>1. ran = << >> /\ Len(ran) = 0
      BY <2>1 DEF Unread
    <3>. QED
      BY <3>1 DEF Stream!LocksCover, Stream!DataStaysData
  <2>2. CASE Begun
    <3>1. Stream!LocksCover
      BY <2>2 DEF Begun
    <3>2. ASSUME Stream!AsWritten, ~ Stream!Stops PROVE Len(ran) = 1
      BY <2>2, <3>2 DEF Begun
    <3>3. Stream!DataStaysData
      BY <3>2 DEF Stream!DataStaysData
    <3>. QED
      BY <3>1, <3>3
  <2>. QED
    BY <1>3, <2>1, <2>2 DEF StreamInv, RequestInv
<1>. QED
  BY <1>1, <1>2, <1>3 DEF Stream!ParsersAgree

\* Whatever lines a script is made of: if every command has an id and the data lines that
\* it announces, and no line is dropped, a client sends the commands of its own
\* transactions, each whole and in order, and nothing else; whether or not that is so,
\* client and server find the same client in the ids of two digits and in no others; a
\* request's first line, if it is plain and its names are short, has the locks for all
\* that the engine does with it; and no line behind it runs as a command, unless PJ, SL
\* or NJ stop at a line that they do not accept (client.c:277-389, server.c:136-143,
\* 670-714, mydb.c:1883-2030).
THEOREM StreamParsersAgree == Spec => []ParsersAgree
<1>1. Init => StreamInv
  BY RequestStarts, PositionStarts DEF Init, StreamInv
<1>2. StreamInv /\ [Next]_vars => StreamInv'
  BY RequestSteps, PositionSteps, EachByItself DEF StreamInv
<1>3. StreamInv => ParsersAgree
  BY StreamAgrees DEF ParsersAgree
<1>. QED
  BY <1>1, <1>2, <1>3, PTL DEF Spec

(***************************************************************************)
(* The blocks of the array                                                 *)
(***************************************************************************)
Length == Len(input)

RadixTyped ==
    /\ radix_p \in Nat \ {0} /\ pass \in 0 .. Passes
    /\ input \in Seq(Radix!Values)
    /\ data \in [Radix!Ranks -> Seq(Radix!Values)]

\* The partition that RadixTyped and BlocksKept give: blocks side by side, the first
\* ones not smaller than the others.
LEMMA PartitionIs ==
    ASSUME radix_p \in Nat \ {0}, Length \in Nat
    PROVE /\ Radix!Start(0) = 0 /\ Radix!Start(radix_p) = Length
          /\ \A r \in 0 .. radix_p : Radix!Start(r) \in Nat /\ Radix!RankStart(r) = Radix!Start(r)
          /\ \A r \in Nat : Radix!Size(r) \in Nat /\ Radix!Start(r + 1) = Radix!Start(r) + Radix!Size(r)
          /\ \A q, r \in Nat : q <= r => Radix!Size(r) <= Radix!Size(q)
<1>1. PICK b \in Int, m \in 0 .. radix_p - 1 :
          Length \div radix_p = b /\ Length % radix_p = m /\ Length = radix_p * b + m
  BY Division
<1>2. b \in Nat
  <2>1. b < 0 => radix_p * b <= - radix_p
    <3>1. b < 0 => radix_p * (b + 1) <= 0
      OBVIOUS
    <3>2. radix_p * (b + 1) = radix_p * b + radix_p
      OBVIOUS
    <3>. QED
      BY <3>1, <3>2
  <2>. QED
    BY <1>1, <2>1
<1>3. \A r : Radix!Size(r) = b + (IF r < m THEN 1 ELSE 0)
  BY <1>1 DEF Radix!Size, Radix!n_global, Length
<1>4. \A r : Radix!Start(r) = r * b + (IF r < m THEN r ELSE m)
  BY <1>1 DEF Radix!Start, Radix!n_global, Length
<1>5. Radix!Start(0) = 0
  BY <1>1, <1>2, <1>4
<1>6. Radix!Start(radix_p) = Length
  BY <1>1, <1>2, <1>4
<1>7. ASSUME NEW r \in Nat
      PROVE Radix!Size(r) \in Nat /\ Radix!Start(r + 1) = Radix!Start(r) + Radix!Size(r)
  <2>. DEFINE c == r * b
              e == (r + 1) * b
  <2>1. e = c + b /\ c \in Nat
    BY <1>2
  <2>2. /\ Radix!Start(r) = c + (IF r < m THEN r ELSE m)
        /\ Radix!Start(r + 1) = e + (IF r + 1 < m THEN r + 1 ELSE m)
        /\ Radix!Size(r) = b + (IF r < m THEN 1 ELSE 0)
    BY <1>3, <1>4
  <2>. HIDE DEF c, e
  <2>. QED
    BY <1>2, <2>1, <2>2
<1>8. ASSUME NEW r \in 0 .. radix_p
      PROVE Radix!Start(r) \in Nat /\ Radix!RankStart(r) = Radix!Start(r)
  <2>1. r * b \in Nat
    BY <1>2
  <2>2. Radix!Start(r) \in Nat
    BY <1>4, <2>1
  <2>. QED
    BY <1>6, <2>2 DEF Radix!RankStart, Radix!n_global, Length
<1>. QED
  BY <1>2, <1>3, <1>5, <1>6, <1>7, <1>8

LEMMA StartGrows ==
    ASSUME radix_p \in Nat \ {0}, Length \in Nat,
           NEW q \in 0 .. radix_p, NEW r \in 0 .. radix_p, q <= r
    PROVE Radix!Start(q) <= Radix!Start(r)
<1>. DEFINE wrong == {k \in 0 .. radix_p : q <= k /\ ~ (Radix!Start(q) <= Radix!Start(k))}
<1>. SUFFICES ASSUME wrong # {} PROVE FALSE
  OBVIOUS
<1>1. PICK k \in wrong : \A c \in wrong : k <= c
  <2>1. wrong \subseteq Nat
    OBVIOUS
  <2>. HIDE DEF wrong
  <2>. QED
    BY <2>1, LeastNat
<1>2. k # q
  <2>1. Radix!Start(q) \in Nat
    BY PartitionIs
  <2>2. Radix!Start(q) <= Radix!Start(q)
    BY <2>1
  <2>. QED
    BY <2>2
<1>3. k - 1 \in 0 .. radix_p /\ q <= k - 1 /\ ~ (k <= k - 1)
  BY <1>2
<1>4. Radix!Start(q) <= Radix!Start(k - 1)
  BY <1>1, <1>3
<1>5. Radix!Start(k) = Radix!Start(k - 1) + Radix!Size(k - 1) /\ Radix!Size(k - 1) \in Nat
  <2>1. k - 1 \in Nat /\ (k - 1) + 1 = k
    BY <1>3
  <2>. QED
    BY <2>1, PartitionIs
<1>6. Radix!Start(q) \in Nat /\ Radix!Start(k) \in Nat /\ Radix!Start(k - 1) \in Nat
  BY <1>3, PartitionIs
<1>. QED
  BY <1>4, <1>5, <1>6

\* Every position of the array is in the block of one rank.
LEMMA BlockOf ==
    ASSUME radix_p \in Nat \ {0}, Length \in Nat, NEW x \in 1 .. Length
    PROVE \E r \in Radix!Ranks : \E i \in 1 .. Radix!Size(r) : x = Radix!Start(r) + i
<1>. DEFINE S == {r \in Radix!Ranks : Radix!Start(r) < x}
<1>1. 0 \in S
  BY PartitionIs DEF Radix!Ranks
<1>2. PICK r \in S : \A c \in S : c <= r
  <2>1. S \subseteq 0 .. radix_p
    BY DEF Radix!Ranks
  <2>. HIDE DEF S
  <2>. QED
    BY <1>1, <2>1, GreatestNat
<1>3. r \in Nat /\ r + 1 \in 0 .. radix_p /\ r \in Radix!Ranks /\ r \in 0 .. radix_p
  BY DEF Radix!Ranks
<1>4. x <= Radix!Start(r + 1)
  <2>1. CASE r + 1 = radix_p
    BY <2>1, PartitionIs
  <2>2. CASE r + 1 # radix_p
    <3>1. r + 1 \in Radix!Ranks /\ ~ (r + 1 <= r)
      BY <1>3, <2>2 DEF Radix!Ranks
    <3>2. r + 1 \notin S
      <4>. HIDE DEF S
      <4>. QED
        BY <1>2, <3>1
    <3>. QED
      BY <1>3, <3>1, <3>2, PartitionIs
  <2>. QED
    BY <2>1, <2>2
<1>5. /\ Radix!Start(r) \in Nat /\ Radix!Size(r) \in Nat
      /\ Radix!Start(r + 1) = Radix!Start(r) + Radix!Size(r)
  BY <1>3, PartitionIs
<1>6. x - Radix!Start(r) \in 1 .. Radix!Size(r)
  BY <1>4, <1>5
<1>. QED
  BY <1>3, <1>5, <1>6

\* Blocks lie apart.
LEMMA BlocksApart ==
    ASSUME radix_p \in Nat \ {0}, Length \in Nat,
           NEW q \in Radix!Ranks, NEW r \in Radix!Ranks, NEW x \in Int,
           Radix!Start(q) < x, x <= Radix!Start(q + 1),
           Radix!Start(r) < x, x <= Radix!Start(r + 1)
    PROVE q = r
<1>1. /\ q \in 0 .. radix_p /\ r \in 0 .. radix_p
      /\ q + 1 \in 0 .. radix_p /\ r + 1 \in 0 .. radix_p
  BY DEF Radix!Ranks
<1>2. \A k \in 0 .. radix_p : Radix!Start(k) \in Nat
  BY PartitionIs
<1>3. CASE q < r
  <2>1. Radix!Start(q + 1) <= Radix!Start(r)
    BY <1>1, <1>3, StartGrows
  <2>. QED
    BY <1>1, <1>2, <2>1
<1>4. CASE r < q
  <2>1. Radix!Start(r + 1) <= Radix!Start(q)
    BY <1>1, <1>4, StartGrows
  <2>. QED
    BY <1>1, <1>2, <2>1
<1>. QED
  BY <1>1, <1>3, <1>4

(***************************************************************************)
(* The owner of a position                                                 *)
(***************************************************************************)
\* The binary search finds the rank whose block the position is in.
LEMMA OwnerIs ==
    ASSUME radix_p \in Nat \ {0}, Length \in Nat, NEW r \in Radix!Ranks, NEW idx \in Nat,
           Radix!Start(r) <= idx, idx < Radix!Start(r + 1)
    PROVE Radix!Owner(idx) = r
<1>. DEFINE P == radix_p
            L == 0 .. P
            H == -1 .. P - 1
            mid(lo, hi) == lo + (hi - lo) \div 2
            G(g, lo, hi) == IF lo > hi THEN P - 1
                            ELSE IF idx < Radix!RankStart(mid(lo, hi)) THEN g[lo][mid(lo, hi) - 1]
                            ELSE IF idx >= Radix!RankStart(mid(lo, hi) + 1)
                                 THEN g[mid(lo, hi) + 1][hi]
                            ELSE mid(lo, hi)
            search == CHOOSE g : g = [lo \in L |-> [hi \in H |-> G(g, lo, hi)]]
            found(lo, hi) == IF lo <= r /\ r <= hi THEN r ELSE P - 1
            all == [lo \in L |-> [hi \in H |-> found(lo, hi)]]
<1>1. Radix!Owner(idx) = search[0][P - 1]
  BY DEF Radix!Owner
<1>2. r \in Nat /\ r < P /\ r \in 0 .. P /\ r + 1 \in 0 .. P
  BY DEF Radix!Ranks
<1>3. ASSUME NEW k \in 0 .. P
      PROVE /\ idx < Radix!RankStart(k) <=> r < k
            /\ Radix!RankStart(k) \in Nat
  <2>1. /\ Radix!RankStart(k) = Radix!Start(k) /\ Radix!Start(k) \in Nat
        /\ Radix!Start(r) \in Nat /\ Radix!Start(r + 1) \in Nat
    BY <1>2, PartitionIs
  <2>2. CASE r < k
    <3>1. Radix!Start(r + 1) <= Radix!Start(k)
      BY <1>2, <2>2, StartGrows
    <3>. QED
      BY <2>1, <2>2, <3>1
  <2>3. CASE ~ (r < k)
    <3>1. Radix!Start(k) <= Radix!Start(r)
      BY <1>2, <2>3, StartGrows
    <3>. QED
      BY <2>1, <2>3, <3>1
  <2>. QED
    BY <2>2, <2>3
<1>4. ASSUME NEW lo \in L, NEW hi \in H, lo <= hi
      PROVE /\ mid(lo, hi) \in Int /\ lo <= mid(lo, hi) /\ mid(lo, hi) <= hi
            /\ mid(lo, hi) \in 0 .. P /\ mid(lo, hi) + 1 \in 0 .. P
            /\ mid(lo, hi) + 1 \in L /\ mid(lo, hi) - 1 \in H
  <2>1. PICK e \in Int, x \in 0 .. 1 : (hi - lo) \div 2 = e /\ hi - lo = 2 * e + x
    BY Division
  <2>. QED
    BY <1>4, <2>1
<1>5. ASSUME NEW lo \in L, NEW hi \in H PROVE found(lo, hi) = G(all, lo, hi)
  <2>1. CASE lo > hi
    BY <1>2, <2>1
  <2>2. CASE ~ (lo > hi)
    <3>. DEFINE m == mid(lo, hi)
    <3>1. /\ lo \in Int /\ hi \in Int /\ m \in Int /\ lo <= m /\ m <= hi
          /\ m \in 0 .. P /\ m + 1 \in 0 .. P /\ m + 1 \in L /\ m - 1 \in H
      BY <1>4, <2>2
    <3>. HIDE DEF mid
    <3>2. all[lo][m - 1] = found(lo, m - 1) /\ all[m + 1][hi] = found(m + 1, hi)
      BY <3>1
    <3>. HIDE DEF all, L, H
    <3>3. G(all, lo, hi) = IF r < m THEN all[lo][m - 1]
                           ELSE IF ~ (r < m + 1) THEN all[m + 1][hi] ELSE m
      <4>1. /\ (idx < Radix!RankStart(m)) <=> r < m
            /\ (idx >= Radix!RankStart(m + 1)) <=> ~ (r < m + 1)
        <5>1. Radix!RankStart(m + 1) \in Nat
          BY <1>3, <3>1
        <5>. HIDE DEF m
        <5>. QED
          BY <1>3, <3>1, <5>1
      <4>. QED
        BY <2>2, <4>1
    <3>. HIDE DEF G, m
    <3>. QED
      BY <1>2, <3>1, <3>2, <3>3, <2>2
  <2>. QED
    BY <2>1, <2>2
<1>6. all = [lo \in L |-> [hi \in H |-> G(all, lo, hi)]]
  <2>. HIDE DEF G, found
  <2>. QED
    BY <1>5
<1>7. search = [lo \in L |-> [hi \in H |-> G(search, lo, hi)]]
  <2>. HIDE DEF G, all, L, H
  <2>. QED
    BY <1>6
<1>. HIDE DEF search
<1>8. ASSUME NEW lo \in L, NEW hi \in H PROVE search[lo][hi] = G(search, lo, hi)
  <2>1. search[lo] = [h \in H |-> G(search, lo, h)]
    <3>. HIDE DEF G, L, H
    <3>. QED
      BY <1>7
  <2>. HIDE DEF G
  <2>. QED
    BY <2>1
<1>. DEFINE Differs(k) == \E lo \in L, hi \in H : k = hi - lo + P + 1 /\ search[lo][hi] # found(lo, hi)
            wrong == {k \in Nat : Differs(k)}
<1>9. wrong = {}
  <2>. SUFFICES ASSUME wrong # {} PROVE FALSE
    OBVIOUS
  <2>1. PICK k \in wrong : \A c \in wrong : k <= c
    <3>1. wrong \subseteq Nat
      OBVIOUS
    <3>. HIDE DEF wrong
    <3>. QED
      BY <3>1, LeastNat
  <2>2. PICK lo \in L, hi \in H : k = hi - lo + P + 1 /\ search[lo][hi] # found(lo, hi)
    BY <2>1
  <2>3. ASSUME NEW l \in L, NEW h \in H, h - l < hi - lo PROVE search[l][h] = found(l, h)
    <3>1. h - l + P + 1 \in Nat /\ ~ (k <= h - l + P + 1)
      BY <2>2, <2>3
    <3>2. h - l + P + 1 \notin wrong
      <4>. HIDE DEF wrong
      <4>. QED
        BY <2>1, <3>1
    <3>. HIDE DEF found
    <3>. QED
      BY <3>1, <3>2
  <2>4. CASE lo > hi
    BY <1>2, <1>8, <2>2, <2>4
  <2>5. CASE ~ (lo > hi)
    <3>. DEFINE m == mid(lo, hi)
    <3>1. /\ m \in Int /\ lo <= m /\ m <= hi /\ m + 1 \in L /\ m - 1 \in H
      BY <1>4, <2>5
    <3>2. search[lo][m - 1] = found(lo, m - 1) /\ search[m + 1][hi] = found(m + 1, hi)
      <4>1. (m - 1) - lo < hi - lo /\ hi - (m + 1) < hi - lo
        BY <3>1
      <4>. HIDE DEF m, found, L, H
      <4>. QED
        BY <2>3, <3>1, <4>1
    <3>3. all[lo][m - 1] = found(lo, m - 1) /\ all[m + 1][hi] = found(m + 1, hi)
      <4>. HIDE DEF m, found
      <4>. QED
        BY <3>1
    <3>4. search[lo][hi] = G(search, lo, hi) /\ found(lo, hi) = G(all, lo, hi)
      <4>. HIDE DEF G, found, all
      <4>. QED
        BY <1>5, <1>8
    <3>. HIDE DEF found, all
    <3>. QED
      BY <2>2, <3>2, <3>3, <3>4
  <2>. QED
    BY <2>4, <2>5
<1>10. search[0][P - 1] = found(0, P - 1)
  <2>1. 0 \in L /\ P - 1 \in H /\ (P - 1) - 0 + P + 1 \in Nat
    OBVIOUS
  <2>. HIDE DEF found, L, H
  <2>. QED
    BY <1>9, <2>1
<1>. QED
  BY <1>1, <1>2, <1>10

(***************************************************************************)
(* Counting                                                                *)
(***************************************************************************)
LEMMA RadixCardinality == \A S : Radix!Cardinality(S) = Cardinality(S)
  BY DEF Radix!Cardinality, Cardinality

LEMMA LsdCardinality == \A S : Radix!Lsd!Cardinality(S) = Cardinality(S)
  BY DEF Radix!Lsd!Cardinality, Cardinality

\* Two sets have the same number of elements if a function takes one onto the other.
LEMMA SameNumber ==
    ASSUME NEW S, IsFiniteSet(S), NEW T, NEW f \in [S -> T],
           \A a, b \in S : f[a] = f[b] => a = b,
           \A t \in T : \E a \in S : f[a] = t
    PROVE IsFiniteSet(T) /\ Cardinality(T) = Cardinality(S)
<1>1. f \in Bijection(S, T)
  BY DEF Bijection, Injection, Surjection, IsInjective
<1>2. ExistsBijection(S, T)
  BY <1>1 DEF ExistsBijection
<1>. QED
  BY <1>2, FS_Bijection

LEMMA SumOfTwo ==
    ASSUME NEW S, NEW T, IsFiniteSet(S), IsFiniteSet(T), S \intersect T = {}
    PROVE /\ IsFiniteSet(S \union T) /\ Cardinality(S) \in Nat /\ Cardinality(T) \in Nat
          /\ Cardinality(S \union T) = Cardinality(S) + Cardinality(T)
<1>1. Cardinality(S) \in Nat /\ Cardinality(T) \in Nat
  BY FS_CardinalityType
<1>2. /\ IsFiniteSet(S \union T)
      /\ Cardinality(S \union T) = Cardinality(S) + Cardinality(T) - Cardinality(S \intersect T)
  BY FS_Union
<1>3. Cardinality(S \intersect T) = 0
  BY FS_EmptySet
<1>. QED
  BY <1>1, <1>2, <1>3

\* The elements of a finite set with different keys, in the order of the keys.
UpTo(S, key, a) == {b \in S : key[b] <= key[a]}

LEMMA Ranking ==
    ASSUME NEW S, IsFiniteSet(S), NEW key \in [S -> Int],
           \A a, b \in S : key[a] = key[b] => a = b
    PROVE /\ \A a \in S : Cardinality(UpTo(S, key, a)) \in 1 .. Cardinality(S)
          /\ \A a, b \in S : key[a] < key[b] =>
                 Cardinality(UpTo(S, key, a)) < Cardinality(UpTo(S, key, b))
          /\ \A a, b \in S : Cardinality(UpTo(S, key, a)) = Cardinality(UpTo(S, key, b)) => a = b
<1>. DEFINE place(a) == Cardinality(UpTo(S, key, a))
            n == Cardinality(S)
<1>0. n \in Nat
  BY FS_CardinalityType
<1>1. ASSUME NEW a \in S PROVE IsFiniteSet(UpTo(S, key, a)) /\ place(a) \in 1 .. n
  <2>1. UpTo(S, key, a) \subseteq S /\ a \in UpTo(S, key, a)
    BY DEF UpTo
  <2>2. IsFiniteSet(UpTo(S, key, a)) /\ place(a) <= n
    BY <2>1, FS_Subset
  <2>3. place(a) \in Nat
    BY <2>2, FS_CardinalityType
  <2>4. place(a) # 0
    BY <2>1, <2>2, FS_EmptySet
  <2>. QED
    BY <1>0, <2>2, <2>3, <2>4
<1>2. ASSUME NEW a \in S, NEW b \in S, key[a] < key[b] PROVE place(a) < place(b)
  <2>1. UpTo(S, key, a) \subseteq UpTo(S, key, b)
    BY <1>2 DEF UpTo
  <2>2. b \in UpTo(S, key, b) /\ b \notin UpTo(S, key, a)
    BY <1>2 DEF UpTo
  <2>. QED
    BY <1>1, <2>1, <2>2, FS_Subset
<1>3. ASSUME NEW a \in S, NEW b \in S, place(a) = place(b) PROVE a = b
  <2>1. ~ (key[a] < key[b]) /\ ~ (key[b] < key[a])
    <3>1. place(a) \in Int /\ place(b) \in Int
      BY <1>1
    <3>. HIDE DEF place
    <3>. QED
      BY <1>2, <1>3, <3>1
  <2>. QED
    BY <2>1
<1>. QED
  BY <1>1, <1>2, <1>3

LEMMA RankingOnto ==
    ASSUME NEW S, IsFiniteSet(S), NEW key \in [S -> Int],
           \A a, b \in S : key[a] = key[b] => a = b, NEW m \in 1 .. Cardinality(S)
    PROVE \E a \in S : Cardinality(UpTo(S, key, a)) = m
<1>. DEFINE T == {Cardinality(UpTo(S, key, a)) : a \in S}
            f == [a \in S |-> Cardinality(UpTo(S, key, a))]
            n == Cardinality(S)
<1>0. n \in Nat
  BY FS_CardinalityType
<1>1. f \in [S -> T] /\ \A t \in T : \E a \in S : f[a] = t
  OBVIOUS
<1>2. \A a, b \in S : f[a] = f[b] => a = b
  BY Ranking
<1>3. IsFiniteSet(T) /\ Cardinality(T) = n
  <2>. HIDE DEF T, f
  <2>. QED
    BY <1>1, <1>2, SameNumber
<1>4. T \subseteq 1 .. n
  BY Ranking
<1>5. IsFiniteSet(1 .. n) /\ Cardinality(1 .. n) = n
  <2>. HIDE DEF n
  <2>1. IsFiniteSet(1 .. n) /\ Cardinality(1 .. n) = IF 1 > n THEN 0 ELSE n - 1 + 1
    BY <1>0, FS_Interval
  <2>. QED
    BY <1>0, <2>1
<1>6. T = 1 .. n
  <2>. HIDE DEF T, n
  <2>. QED
    BY <1>3, <1>4, <1>5, FS_Subset
<1>7. m \in T
  BY <1>6
<1>. QED
  BY <1>7

LEMMA RankingOfNumbers ==
    ASSUME NEW S, IsFiniteSet(S), S \subseteq Int
    PROVE /\ \A a \in S : Cardinality({b \in S : b <= a}) \in 1 .. Cardinality(S)
          /\ \A a, b \in S : Cardinality({c \in S : c <= a}) = Cardinality({c \in S : c <= b})
                               => a = b
          /\ \A m \in 1 .. Cardinality(S) : \E a \in S : Cardinality({b \in S : b <= a}) = m
<1>. DEFINE key == [a \in S |-> a]
<1>1. key \in [S -> Int] /\ \A a, b \in S : key[a] = key[b] => a = b
  OBVIOUS
<1>2. \A a \in S : UpTo(S, key, a) = {b \in S : b <= a}
  BY DEF UpTo
<1>. HIDE DEF key
<1>3. /\ \A a \in S : Cardinality(UpTo(S, key, a)) \in 1 .. Cardinality(S)
      /\ \A a, b \in S : Cardinality(UpTo(S, key, a)) = Cardinality(UpTo(S, key, b)) => a = b
  BY <1>1, Ranking
<1>4. \A a \in S : Cardinality({b \in S : b <= a}) \in 1 .. Cardinality(S)
  BY <1>2, <1>3
<1>5. ASSUME NEW a \in S, NEW b \in S,
             Cardinality({c \in S : c <= a}) = Cardinality({c \in S : c <= b})
      PROVE a = b
  BY <1>2, <1>3, <1>5
<1>6. ASSUME NEW m \in 1 .. Cardinality(S)
      PROVE \E a \in S : Cardinality({b \in S : b <= a}) = m
  <2>1. PICK a \in S : Cardinality(UpTo(S, key, a)) = m
    BY <1>1, RankingOnto
  <2>. QED
    BY <1>2, <2>1
<1>. QED
  BY <1>4, <1>5, <1>6

\* A sum over a set, as the library computes it, is what adding up element by element gives.
Additive(size, f, S) ==
    /\ size \in [SUBSET S -> Int] /\ size[{}] = 0
    /\ \A s \in SUBSET S : \A x \in s : size[s] = f[x] + size[s \ {x}]

Iterated(it, f, S) ==
    \A s \in SUBSET S :
        it[s] = IF s = {} THEN 0
                ELSE f[CHOOSE x \in s : TRUE] + it[s \ {CHOOSE x \in s : TRUE}]

LEMMA SumIs ==
    ASSUME NEW S, IsFiniteSet(S), NEW f, NEW size, Additive(size, f, S),
           NEW it, Iterated(it, f, S)
    PROVE it[S] = size[S]
<1>. USE DEF Additive, Iterated
<1>. DEFINE wrong == {s \in SUBSET S : it[s] # size[s]}
            D == {Cardinality(s) : s \in wrong}
<1>1. \A s \in SUBSET S : IsFiniteSet(s) /\ Cardinality(s) \in Nat
  BY FS_Subset, FS_CardinalityType
<1>. SUFFICES ASSUME it[S] # size[S] PROVE FALSE
  OBVIOUS
<1>2. D \subseteq Nat /\ D # {}
  <2>1. S \in wrong /\ wrong \subseteq SUBSET S
    OBVIOUS
  <2>. HIDE DEF wrong
  <2>. QED
    BY <1>1, <2>1
<1>3. PICK d \in D : \A c \in D : d <= c
  <2>. HIDE DEF D
  <2>. QED
    BY <1>2, LeastNat
<1>4. PICK s \in wrong : d = Cardinality(s)
  <2>. HIDE DEF wrong
  <2>. QED
    BY <1>3
<1>5. s \in SUBSET S /\ it[s] # size[s]
  BY <1>4
<1>6. s # {}
  BY <1>5
<1>. DEFINE x == CHOOSE x \in s : TRUE
<1>7. x \in s
  BY <1>6
<1>8. it[s] = f[x] + it[s \ {x}]
  BY <1>5, <1>6
<1>. HIDE DEF x
<1>9. s \ {x} \in SUBSET S
  BY <1>5
<1>10. it[s \ {x}] = size[s \ {x}]
  <2>1. Cardinality(s \ {x}) = Cardinality(s) - 1
    BY <1>1, <1>5, <1>7, FS_RemoveElement
  <2>2. s \ {x} \in wrong => Cardinality(s \ {x}) \in D
    <3>. HIDE DEF wrong
    <3>. QED
      OBVIOUS
  <2>3. s \ {x} \notin wrong
    <3>1. Cardinality(s) \in Nat
      BY <1>1, <1>5
    <3>. HIDE DEF D, wrong
    <3>. QED
      BY <1>3, <1>4, <2>1, <2>2, <3>1
  <2>. QED
    BY <1>9, <2>3
<1>. QED
  BY <1>5, <1>7, <1>8, <1>10

LEMMA RadixFlatten == \A s : Radix!FlattenSeq(s) = Stream!FlattenSeq(s)
  BY DEF Radix!FlattenSeq, Stream!FlattenSeq

\* st[k] elements are in the first k of the sequences.
Sizes(st, s) ==
    /\ st \in [0 .. Len(s) -> Nat] /\ st[0] = 0
    /\ \A k \in 1 .. Len(s) : st[k] = st[k - 1] + Len(s[k])

\* Where the elements are when the sequences are flattened.
LEMMA FlattenAt ==
    ASSUME NEW X, NEW s \in Seq(Seq(X)), NEW st, Sizes(st, s)
    PROVE /\ Radix!FlattenSeq(s) \in Seq(X)
          /\ Len(Radix!FlattenSeq(s)) = st[Len(s)]
          /\ \A k \in 1 .. Len(s) : \A i \in 1 .. Len(s[k]) :
                 Radix!FlattenSeq(s)[st[k - 1] + i] = s[k][i]
<1>. USE DEF Sizes
<1>. DEFINE n == Len(s)
            h == Joins(s, X)
<1>0. n \in Nat /\ \A k \in 1 .. n : s[k] \in Seq(X) /\ Len(s[k]) \in Nat
  <2>1. \A k \in 1 .. n : s[k] \in Seq(X)
    OBVIOUS
  <2>. QED
    BY <2>1
<1>1. PICK f \in [0 .. n -> Seq(X)] : Solves(f, n, << >>, h)
  <2>1. h \in [1 .. n -> [Seq(X) -> Seq(X)]]
    BY <1>0 DEF Joins
  <2>2. << >> \in Seq(X)
    OBVIOUS
  <2>. HIDE DEF h
  <2>. QED
    BY <1>0, <2>1, <2>2, Recursion
<1>2. Radix!FlattenSeq(s) = f[n]
  BY <1>1, FlattenIs, RadixFlatten
<1>3. ASSUME NEW k \in 1 .. n
      PROVE f[k - 1] \in Seq(X) /\ f[k] = f[k - 1] \o s[k] /\ k - 1 \in 0 .. n
  <2>1. k - 1 \in 0 .. n
    BY <1>0
  <2>2. f[k - 1] \in Seq(X)
    BY <2>1
  <2>3. f[k] = h[k][f[k - 1]]
    BY <1>1 DEF Solves
  <2>4. f[k] = f[k - 1] \o s[k]
    BY <2>2, <2>3 DEF Joins
  <2>. QED
    BY <2>1, <2>2, <2>4
<1>. DEFINE Good(k) == /\ Len(f[k]) = st[k]
                       /\ \A j \in 1 .. k : \A i \in 1 .. Len(s[j]) :
                              st[j - 1] + i \in 1 .. st[k] /\ f[k][st[j - 1] + i] = s[j][i]
            bad == {k \in 0 .. n : ~ Good(k)}
<1>4. Good(0)
  <2>1. f[0] = << >>
    BY <1>1 DEF Solves
  <2>. QED
    BY <2>1
<1>5. ASSUME NEW k \in 1 .. n, Good(k - 1) PROVE Good(k)
  <2>1. f[k - 1] \in Seq(X) /\ s[k] \in Seq(X) /\ f[k] = f[k - 1] \o s[k] /\ k - 1 \in 0 .. n
    BY <1>0, <1>3
  <2>2. st[k - 1] \in Nat /\ Len(s[k]) \in Nat /\ Len(f[k - 1]) = st[k - 1]
    BY <1>0, <1>5, <2>1
  <2>3. st[k] = st[k - 1] + Len(s[k])
    OBVIOUS
  <2>4. Len(f[k]) = st[k]
    <3>1. Len(f[k - 1] \o s[k]) = Len(f[k - 1]) + Len(s[k])
      BY <2>1
    <3>. QED
      BY <2>1, <2>2, <2>3, <3>1
  <2>5. ASSUME NEW j \in 1 .. k, NEW i \in 1 .. Len(s[j])
        PROVE st[j - 1] + i \in 1 .. st[k] /\ f[k][st[j - 1] + i] = s[j][i]
    <3>1. CASE j = k
      <4>1. st[j - 1] + i \in 1 .. st[k] /\ i \in 1 .. Len(s[k])
        BY <2>2, <2>3, <3>1
      <4>2. (f[k - 1] \o s[k])[Len(f[k - 1]) + i] = s[k][i]
        BY <2>1, <4>1
      <4>. QED
        BY <2>1, <2>2, <3>1, <4>1, <4>2
    <3>2. CASE j # k
      <4>1. j \in 1 .. k - 1
        BY <3>2
      <4>2. st[j - 1] + i \in 1 .. st[k - 1] /\ f[k - 1][st[j - 1] + i] = s[j][i]
        BY <1>5, <4>1
      <4>. DEFINE x == st[j - 1] + i
      <4>3. x \in 1 .. st[k] /\ x \in 1 .. Len(f[k - 1])
        <5>. HIDE DEF x
        <5>. QED
          BY <2>2, <2>3, <4>2, SMTT(30) DEF x
      <4>4. (f[k - 1] \o s[k])[x] = f[k - 1][x]
        <5>. HIDE DEF x
        <5>. QED
          BY <2>1, <4>3
      <4>. QED
        BY <2>1, <4>2, <4>3, <4>4
    <3>. QED
      BY <3>1, <3>2
  <2>. QED
    BY <2>4, <2>5
<1>. HIDE DEF Good
<1>6. bad = {}
  <2>. SUFFICES ASSUME bad # {} PROVE FALSE
    OBVIOUS
  <2>1. PICK m \in bad : \A c \in bad : m <= c
    <3>1. bad \subseteq Nat
      OBVIOUS
    <3>. HIDE DEF bad
    <3>. QED
      BY <3>1, LeastNat
  <2>2. m # 0
    BY <1>4
  <2>3. m - 1 \in 0 .. n /\ m \in 1 .. n /\ ~ (m <= m - 1)
    BY <1>0, <2>2
  <2>4. Good(m - 1)
    BY <2>1, <2>3
  <2>. QED
    BY <1>5, <2>3, <2>4
<1>7. Good(n)
  BY <1>0, <1>6
<1>. QED
  BY <1>0, <1>1, <1>2, <1>7, SMTT(30) DEF Good

(***************************************************************************)
(* Digits                                                                  *)
(***************************************************************************)
LEMMA WeightIs ==
    /\ Radix!Weight[0] = 1
    /\ \A k \in 0 .. Passes : Radix!Weight[k] \in Nat \ {0}
    /\ \A k \in 0 .. Passes - 1 : Radix!Weight[k + 1] = Base * Radix!Weight[k]
<1>. DEFINE G(g, k) == IF k = 0 THEN 1 ELSE Base * g[k - 1]
            P == Nat \ {0}
            h == [k \in 1 .. Passes |-> [x \in P |-> Base * x]]
            w == Radix!Weight
<1>0. Base \in P /\ Passes \in Nat
  BY SmallModelsAssumption
<1>1. PICK f \in [0 .. Passes -> P] : Solves(f, Passes, 1, h)
  <2>1. \A x \in P : Base * x \in P
    BY <1>0
  <2>2. h \in [1 .. Passes -> [P -> P]]
    BY <2>1
  <2>3. 1 \in P
    OBVIOUS
  <2>. HIDE DEF P, h
  <2>. QED
    BY <1>0, <2>2, <2>3, Recursion
<1>2. f = [k \in 0 .. Passes |-> G(f, k)]
  <2>1. ASSUME NEW k \in 0 .. Passes PROVE f[k] = G(f, k)
    <3>1. CASE k = 0
      BY <1>1, <3>1 DEF Solves
    <3>2. CASE k # 0
      <4>1. k \in 1 .. Passes /\ k - 1 \in 0 .. Passes
        BY <1>0, <3>2
      <4>2. f[k] = h[k][f[k - 1]] /\ f[k - 1] \in P
        BY <1>1, <4>1 DEF Solves
      <4>. QED
        BY <3>2, <4>1, <4>2
    <3>. QED
      BY <3>1, <3>2
  <2>. HIDE DEF G
  <2>. QED
    BY <2>1
<1>3. w = CHOOSE g : g = [k \in 0 .. Passes |-> G(g, k)]
  BY DEF Radix!Weight
<1>. HIDE DEF w
<1>4. w = [k \in 0 .. Passes |-> G(w, k)]
  <2>. HIDE DEF G
  <2>. QED
    BY <1>2, <1>3
<1>5. \A k \in 0 .. Passes : w[k] = G(w, k)
  <2>. HIDE DEF G
  <2>. QED
    BY <1>4
<1>6. w[0] = 1
  BY <1>0, <1>5
<1>7. ASSUME NEW k \in 0 .. Passes - 1 PROVE w[k + 1] = Base * w[k]
  <2>1. k + 1 \in 0 .. Passes /\ k + 1 # 0 /\ (k + 1) - 1 = k
    BY <1>0
  <2>. QED
    BY <1>5, <2>1
<1>. DEFINE bad == {k \in 0 .. Passes : w[k] \notin P}
<1>8. bad = {}
  <2>. SUFFICES ASSUME bad # {} PROVE FALSE
    OBVIOUS
  <2>1. PICK m \in bad : \A c \in bad : m <= c
    <3>1. bad \subseteq Nat
      OBVIOUS
    <3>. HIDE DEF bad
    <3>. QED
      BY <3>1, LeastNat
  <2>2. m # 0
    BY <1>6
  <2>3. m - 1 \in 0 .. Passes /\ m - 1 \in 0 .. Passes - 1 /\ ~ (m <= m - 1) /\ (m - 1) + 1 = m
    BY <1>0, <2>2
  <2>4. w[m - 1] \in P
    BY <2>1, <2>3
  <2>5. w[m] = Base * w[m - 1]
    BY <1>7, <2>3
  <2>6. \A x \in P : Base * x \in P
    BY <1>0
  <2>. QED
    BY <2>1, <2>4, <2>5, <2>6
<1>. QED
  BY <1>6, <1>7, <1>8 DEF w

\* A number by its last k + 1 digits: the digit k and the last k.
LEMMA OneDigitMore ==
    ASSUME NEW v \in Nat, NEW k \in 0 .. Passes - 1
    PROVE /\ v % Radix!Weight[k] \in 0 .. Radix!Weight[k] - 1
          /\ Radix!Digit(v, k) \in 0 .. Base - 1
          /\ v % Radix!Weight[k + 1] 
                 = Radix!Digit(v, k) * Radix!Weight[k] + (v % Radix!Weight[k])
<1>. DEFINE w == Radix!Weight[k]
            u == Radix!Weight[k + 1]
<1>0. w \in Nat \ {0} /\ u = Base * w /\ Base \in Nat \ {0} /\ u \in Nat \ {0}
  <2>1. k \in 0 .. Passes /\ k + 1 \in 0 .. Passes
    BY SmallModelsAssumption
  <2>. QED
    BY <2>1, WeightIs, SmallModelsAssumption
<1>1. Radix!Digit(v, k) = (v \div w) % Base
  BY DEF Radix!Digit
<1>. HIDE DEF w, u
<1>2. PICK q \in Int, r \in 0 .. w - 1 : v \div w = q /\ v % w = r /\ v = w * q + r
  BY <1>0, Division
<1>3. PICK e \in Int, d \in 0 .. Base - 1 : q \div Base = e /\ q % Base = d /\ q = Base * e + d
  BY <1>0, Division
<1>4. PICK x \in Int, y \in 0 .. u - 1 : v \div u = x /\ v % u = y /\ v = u * x + y
  BY <1>0, Division
<1>. DEFINE z == d * w + r
<1>5. v = u * e + z
  <2>1. w * q = (Base * w) * e + d * w
    BY <1>0, <1>3
  <2>2. u * e = (Base * w) * e
    BY <1>0
  <2>. QED
    BY <1>0, <1>2, <1>3, <2>1, <2>2
<1>6. z \in 0 .. u - 1
  <2>1. d * w <= (Base - 1) * w /\ d * w \in Nat
    <3>1. (Base - 1 - d) * w \in Nat
      BY <1>0
    <3>2. (Base - 1 - d) * w = (Base - 1) * w - d * w
      BY <1>0
    <3>3. d * w \in Nat /\ (Base - 1) * w \in Nat
      BY <1>0
    <3>. QED
      BY <3>1, <3>2, <3>3
  <2>2. (Base - 1) * w = u - w
    BY <1>0
  <2>. HIDE DEF z
  <2>. QED
    BY <1>0, <1>2, <2>1, <2>2 DEF z
<1>7. y = z
  <2>. HIDE DEF z
  <2>1. u * (e - x) = y - z
    <3>1. u * (e - x) = u * e - u * x
      BY <1>0
    <3>. QED
      BY <1>0, <1>4, <1>5, <1>6, <3>1
  <2>2. ~ (e - x >= 1)
    <3>1. e - x >= 1 => u * (e - x) >= u
      BY <1>0
    <3>. QED
      BY <1>0, <1>6, <2>1, <3>1
  <2>3. ~ (e - x <= -1)
    <3>1. e - x <= -1 => u * (e - x) <= - u
      <4>1. x - e >= 1 => u * (x - e) >= u
        BY <1>0
      <4>2. u * (x - e) = - (u * (e - x))
        BY <1>0
      <4>3. u * (e - x) \in Int
        BY <1>0
      <4>. QED
        BY <1>0, <4>1, <4>2, <4>3
    <3>. QED
      BY <1>0, <1>6, <2>1, <3>1
  <2>4. e - x = 0
    BY <2>2, <2>3
  <2>. QED
    BY <1>0, <1>6, <2>1, <2>4
<1>. QED
  BY <1>0, <1>1, <1>2, <1>3, <1>4, <1>7 DEF w, u

(***************************************************************************)
(* The whole array                                                         *)
(***************************************************************************)
Positions == 1 .. Length

\* Blocks of the right sizes make up an array of the right length; x[r] is the block of
\* rank r.
LEMMA BlocksMakeWhole ==
    ASSUME radix_p \in Nat \ {0}, Length \in Nat, NEW X, NEW x \in [Radix!Ranks -> Seq(X)],
           \A r \in Radix!Ranks : Len(x[r]) = Radix!Size(r)
    PROVE LET w == Radix!FlattenSeq([m \in 1 .. radix_p |-> x[m - 1]])
          IN  /\ w \in Seq(X) /\ Len(w) = Length
              /\ \A r \in Radix!Ranks : \A i \in 1 .. Radix!Size(r) :
                     Radix!Start(r) + i \in Positions /\ w[Radix!Start(r) + i] = x[r][i]
<1>. DEFINE s == [m \in 1 .. radix_p |-> x[m - 1]]
            st == [m \in 0 .. radix_p |-> Radix!Start(m)]
            w == Radix!FlattenSeq(s)
<1>1. s \in Seq(Seq(X)) /\ Len(s) = radix_p /\ \A m \in 1 .. radix_p : s[m] = x[m - 1]
  <2>1. \A m \in 1 .. radix_p : x[m - 1] \in Seq(X)
    BY DEF Radix!Ranks
  <2>. QED
    BY <2>1
<1>. HIDE DEF s
<1>2. st \in [0 .. radix_p -> Nat] /\ st[0] = 0 /\ st[radix_p] = Length
  <2>1. \A m \in 0 .. radix_p : Radix!Start(m) \in Nat
    BY PartitionIs
  <2>2. st[0] = Radix!Start(0) /\ st[radix_p] = Radix!Start(radix_p)
    OBVIOUS
  <2>. QED
    BY <2>1, <2>2, PartitionIs
<1>3. ASSUME NEW m \in 1 .. radix_p
      PROVE /\ st[m] = st[m - 1] + Len(s[m])
            /\ m - 1 \in Radix!Ranks /\ st[m - 1] = Radix!Start(m - 1)
            /\ Len(s[m]) = Radix!Size(m - 1)
  <2>1. m - 1 \in Nat /\ (m - 1) + 1 = m /\ m - 1 \in Radix!Ranks /\ m - 1 \in 0 .. radix_p
    BY DEF Radix!Ranks
  <2>2. Radix!Start(m) = Radix!Start(m - 1) + Radix!Size(m - 1)
    BY <2>1, PartitionIs
  <2>. QED
    BY <1>1, <2>1, <2>2
<1>. HIDE DEF st
<1>4. /\ w \in Seq(X) /\ Len(w) = Length
      /\ \A m \in 1 .. radix_p : \A i \in 1 .. Len(s[m]) : w[st[m - 1] + i] = s[m][i]
  <2>1. Sizes(st, s)
    BY <1>1, <1>2, <1>3 DEF Sizes
  <2>2. /\ w \in Seq(X) /\ Len(w) = st[Len(s)]
        /\ \A k \in 1 .. Len(s) : \A i \in 1 .. Len(s[k]) : w[st[k - 1] + i] = s[k][i]
    <3>1. s \in Seq(Seq(X))
      BY <1>1
    <3>2. Radix!FlattenSeq(s) \in Seq(X)
      BY <2>1, <3>1, FlattenAt
    <3>3. Len(Radix!FlattenSeq(s)) = st[Len(s)]
      BY <2>1, <3>1, FlattenAt
    <3>4. \A k \in 1 .. Len(s) : \A i \in 1 .. Len(s[k]) :
              Radix!FlattenSeq(s)[st[k - 1] + i] = s[k][i]
      BY <2>1, <3>1, FlattenAt
    <3>. QED
      BY <3>2, <3>3, <3>4
  <2>. HIDE DEF w
  <2>. QED
    BY <1>1, <1>2, <2>2
<1>5. ASSUME NEW r \in Radix!Ranks, NEW i \in 1 .. Radix!Size(r)
      PROVE Radix!Start(r) + i \in Positions /\ w[Radix!Start(r) + i] = x[r][i]
  <2>1. r + 1 \in 1 .. radix_p /\ (r + 1) - 1 = r /\ r \in Nat
    BY DEF Radix!Ranks
  <2>2. w[Radix!Start(r) + i] = x[r][i]
    <3>1. /\ s[r + 1] = x[r] /\ st[r] = Radix!Start(r) /\ Len(s[r + 1]) = Radix!Size(r)
      <4>1. /\ s[r + 1] = x[(r + 1) - 1] /\ st[(r + 1) - 1] = Radix!Start((r + 1) - 1)
            /\ Len(s[r + 1]) = Radix!Size((r + 1) - 1)
        BY <1>1, <1>3, <2>1
      <4>. QED
        BY <2>1, <4>1
    <3>2. \A j \in 1 .. Len(s[r + 1]) : w[st[(r + 1) - 1] + j] = s[r + 1][j]
      BY <1>4, <2>1
    <3>. HIDE DEF w
    <3>. QED
      BY <2>1, <3>1, <3>2
  <2>3. /\ Radix!Start(r) \in Nat /\ Radix!Start(r + 1) = Radix!Start(r) + Radix!Size(r)
        /\ Radix!Size(r) \in Nat
    BY <2>1, PartitionIs
  <2>4. Radix!Start(r + 1) <= Length
    <3>1. r + 1 \in 0 .. radix_p /\ radix_p \in 0 .. radix_p /\ r + 1 <= radix_p
      BY <2>1
    <3>. QED
      BY <3>1, StartGrows, PartitionIs
  <2>. QED
    BY <2>2, <2>3, <2>4 DEF Positions
<1>. QED
  BY <1>4, <1>5 DEF s, w

LEMMA WholeIs ==
    ASSUME RadixTyped, Radix!BlocksKept
    PROVE /\ radix_p \in Nat \ {0} /\ Length \in Nat /\ IsFiniteSet(Positions)
          /\ Radix!Whole \in Seq(Radix!Values) /\ Len(Radix!Whole) = Length
          /\ \A r \in Radix!Ranks :
                 /\ DOMAIN data[r] = 1 .. Radix!Size(r)
                 /\ \A i \in 1 .. Radix!Size(r) :
                        /\ Radix!Start(r) + i \in Positions
                        /\ Radix!Whole[Radix!Start(r) + i] = data[r][i]
<1>1. radix_p \in Nat \ {0} /\ Length \in Nat
  BY DEF RadixTyped, Length
<1>2. \A r \in Radix!Ranks : Len(data[r]) = Radix!Size(r) /\ data[r] \in Seq(Radix!Values)
  BY DEF Radix!BlocksKept, RadixTyped
<1>3. \A r \in Radix!Ranks : DOMAIN data[r] = 1 .. Radix!Size(r)
  BY <1>2
<1>4. /\ Radix!Whole \in Seq(Radix!Values) /\ Len(Radix!Whole) = Length
      /\ \A r \in Radix!Ranks : \A i \in 1 .. Radix!Size(r) :
             Radix!Start(r) + i \in Positions /\ Radix!Whole[Radix!Start(r) + i] = data[r][i]
  <2>1. data \in [Radix!Ranks -> Seq(Radix!Values)]
    BY DEF RadixTyped
  <2>. QED
    BY <1>1, <1>2, <2>1, BlocksMakeWhole DEF Radix!Whole
<1>5. IsFiniteSet(Positions)
  BY <1>1, FS_Interval DEF Positions
<1>. QED
  BY <1>1, <1>3, <1>4, <1>5

\* The digit of the element at a position in this pass.
DigitAt(g) == Radix!Digit(Radix!Whole[g], pass)

LEMMA DigitsAre ==
    ASSUME RadixTyped, Radix!BlocksKept, pass < Passes, NEW g \in Positions
    PROVE Radix!Whole[g] \in Nat /\ DigitAt(g) \in 0 .. Base - 1 /\ DigitAt(g) \in Nat
<1>1. Radix!Whole[g] \in Radix!Values
  BY WholeIs DEF Positions
<1>2. Radix!Whole[g] \in Nat
  BY <1>1 DEF Radix!Values
<1>3. pass \in 0 .. Passes - 1
  BY SmallModelsAssumption DEF RadixTyped
<1>4. DigitAt(g) \in 0 .. Base - 1
  BY <1>2, <1>3, OneDigitMore DEF DigitAt
<1>. QED
  BY <1>2, <1>4, SmallModelsAssumption

(***************************************************************************)
(* The histograms                                                          *)
(***************************************************************************)
InBlock(g, r) == Radix!Start(r) < g /\ g <= Radix!Start(r + 1)

\* The positions of digit d in the blocks of the ranks of s.
WithDigit(d, s) == {g \in Positions : DigitAt(g) = d /\ \E r \in s : InBlock(g, r)}

LEMMA HistIs ==
    ASSUME RadixTyped, Radix!BlocksKept, NEW r \in Radix!Ranks, NEW d
    PROVE Radix!Hist(r, d) = Cardinality(WithDigit(d, {r}))
<1>. DEFINE S == {i \in DOMAIN data[r] : Radix!Digit(data[r][i], pass) = d}
            T == WithDigit(d, {r})
            f == [i \in S |-> Radix!Start(r) + i]
<1>1. /\ Radix!Start(r) \in Nat /\ Radix!Size(r) \in Nat
      /\ Radix!Start(r + 1) = Radix!Start(r) + Radix!Size(r)
      /\ DOMAIN data[r] = 1 .. Radix!Size(r)
  <2>1. r \in Nat /\ r \in 0 .. radix_p
    BY WholeIs DEF Radix!Ranks
  <2>. QED
    BY <2>1, WholeIs, PartitionIs
<1>2. f \in [S -> T]
  <2>1. ASSUME NEW i \in S PROVE Radix!Start(r) + i \in T
    <3>1. i \in 1 .. Radix!Size(r) /\ Radix!Digit(data[r][i], pass) = d
      BY <1>1
    <3>2. Radix!Start(r) + i \in Positions /\ DigitAt(Radix!Start(r) + i) = d
      BY <3>1, WholeIs DEF DigitAt
    <3>3. InBlock(Radix!Start(r) + i, r)
      BY <1>1, <3>1 DEF InBlock
    <3>. QED
      BY <3>2, <3>3 DEF WithDigit
  <2>. QED
    BY <2>1
<1>3. \A i, j \in S : f[i] = f[j] => i = j
  BY <1>1
<1>4. ASSUME NEW g \in T PROVE \E i \in S : f[i] = g
  <2>1. g \in Positions /\ DigitAt(g) = d /\ InBlock(g, r)
    BY DEF WithDigit
  <2>. DEFINE i == g - Radix!Start(r)
  <2>2. i \in 1 .. Radix!Size(r) /\ Radix!Start(r) + i = g
    BY <1>1, <2>1 DEF InBlock, Positions
  <2>3. Radix!Whole[g] = data[r][i]
    <3>. HIDE DEF i
    <3>. QED
      BY <2>2, WholeIs
  <2>4. i \in S
    BY <1>1, <2>1, <2>2, <2>3 DEF DigitAt
  <2>. HIDE DEF S, i
  <2>. QED
    BY <2>2, <2>4
<1>5. IsFiniteSet(S)
  <2>1. IsFiniteSet(DOMAIN data[r])
    BY <1>1, FS_Interval
  <2>. QED
    BY <2>1, FS_Subset
<1>. HIDE DEF T, f
<1>6. Cardinality(T) = Cardinality(S)
  <2>. HIDE DEF S
  <2>. QED
    BY <1>2, <1>3, <1>4, <1>5, SameNumber
<1>. QED
  BY <1>6, RadixCardinality DEF Radix!Hist, T

LEMMA WithDigitAdds ==
    ASSUME RadixTyped, Radix!BlocksKept, NEW d, NEW s \in SUBSET Radix!Ranks, NEW r \in s
    PROVE /\ Cardinality(WithDigit(d, s)) \in Nat
          /\ Cardinality(WithDigit(d, s)) = Radix!Hist(r, d) + Cardinality(WithDigit(d, s \ {r}))
<1>1. \A t : IsFiniteSet(WithDigit(d, t))
  <2>1. \A t : WithDigit(d, t) \subseteq Positions
    BY DEF WithDigit
  <2>. QED
    BY <2>1, WholeIs, FS_Subset
<1>2. WithDigit(d, s) = WithDigit(d, {r}) \union WithDigit(d, s \ {r})
  BY DEF WithDigit
<1>3. ASSUME NEW g \in WithDigit(d, {r}), g \in WithDigit(d, s \ {r}) PROVE FALSE
  <2>1. g \in Int /\ InBlock(g, r)
    BY DEF WithDigit, Positions
  <2>2. PICK q \in s \ {r} : InBlock(g, q)
    BY <1>3 DEF WithDigit
  <2>3. r \in Radix!Ranks /\ q \in Radix!Ranks
    OBVIOUS
  <2>4. q = r
    BY <2>1, <2>2, <2>3, WholeIs, BlocksApart DEF InBlock
  <2>. QED
    BY <2>4
<1>4. WithDigit(d, {r}) \intersect WithDigit(d, s \ {r}) = {}
  BY <1>3
<1>5. Radix!Hist(r, d) = Cardinality(WithDigit(d, {r}))
  BY HistIs
<1>6. Cardinality(WithDigit(d, {r}) \union WithDigit(d, s \ {r}))
          = Cardinality(WithDigit(d, {r})) + Cardinality(WithDigit(d, s \ {r}))
  BY <1>1, <1>4, SumOfTwo
<1>. QED
  BY <1>1, <1>2, <1>5, <1>6, FS_CardinalityType

LEMMA HistSum ==
    ASSUME RadixTyped, Radix!BlocksKept, NEW d, NEW S \in SUBSET Radix!Ranks
    PROVE LET G(g, s) == IF s = {} THEN 0
                         ELSE LET x == CHOOSE x \in s : TRUE IN Radix!Hist(x, d) + g[s \ {x}]
              iter == CHOOSE g : g = [s \in SUBSET S |-> G(g, s)]
          IN  iter[S] = Cardinality(WithDigit(d, S))
<1>. DEFINE G(g, s) == IF s = {} THEN 0
                       ELSE LET x == CHOOSE x \in s : TRUE IN Radix!Hist(x, d) + g[s \ {x}]
            iter == CHOOSE g : g = [s \in SUBSET S |-> G(g, s)]
            size == [s \in SUBSET S |-> Cardinality(WithDigit(d, s))]
            f == [x \in S |-> Radix!Hist(x, d)]
<1>1. IsFiniteSet(S)
  <2>1. IsFiniteSet(Radix!Ranks)
    <3>1. radix_p - 1 \in Int
      BY DEF RadixTyped
    <3>. QED
      BY <3>1, FS_Interval DEF Radix!Ranks
  <2>. QED
    BY <2>1, FS_Subset
<1>2. ASSUME NEW s \in SUBSET S, NEW x \in s
      PROVE size[s] = Radix!Hist(x, d) + size[s \ {x}]
  <2>1. s \in SUBSET Radix!Ranks /\ s \ {x} \in SUBSET S
    OBVIOUS
  <2>. QED
    BY <2>1, WithDigitAdds
<1>3. size[{}] = 0
  <2>1. WithDigit(d, {}) = {}
    BY DEF WithDigit
  <2>. QED
    BY <2>1, FS_EmptySet
<1>4. size \in [SUBSET S -> Int]
  <2>1. \A s \in SUBSET S : IsFiniteSet(WithDigit(d, s))
    <3>1. \A s : WithDigit(d, s) \subseteq Positions
      BY DEF WithDigit
    <3>. QED
      BY <3>1, WholeIs, FS_Subset
  <2>. QED
    BY <2>1, FS_CardinalityType
<1>. HIDE DEF size
<1>5. size = [s \in SUBSET S |-> G(size, s)]
  <2>1. ASSUME NEW s \in SUBSET S PROVE size[s] = G(size, s)
    BY <1>2, <1>3
  <2>2. size = [s \in SUBSET S |-> size[s]]
    BY <1>4
  <2>. HIDE DEF G
  <2>. QED
    BY <2>1, <2>2
<1>6. iter = [s \in SUBSET S |-> G(iter, s)]
  <2>. HIDE DEF G
  <2>. QED
    BY <1>5
<1>. HIDE DEF iter
<1>7. ASSUME NEW s \in SUBSET S
      PROVE iter[s] = IF s = {} THEN 0
                      ELSE f[CHOOSE x \in s : TRUE] + iter[s \ {CHOOSE x \in s : TRUE}]
  <2>1. iter[s] = G(iter, s)
    <3>. HIDE DEF G
    <3>. QED
      BY <1>6
  <2>. DEFINE x == CHOOSE x \in s : TRUE
  <2>2. s # {} => f[x] = Radix!Hist(x, d)
    OBVIOUS
  <2>. HIDE DEF f
  <2>. QED
    BY <2>1, <2>2
<1>8. iter[S] = size[S]
  <2>1. Additive(size, f, S)
    BY <1>2, <1>3, <1>4 DEF Additive
  <2>2. Iterated(iter, f, S)
    <3>. HIDE DEF f
    <3>. QED
      BY <1>7 DEF Iterated
  <2>. HIDE DEF f
  <2>. QED
    BY <1>1, <2>1, <2>2, SumIs
<1>. QED
  BY <1>8 DEF size, iter

LEMMA PrefixIs ==
    ASSUME RadixTyped, Radix!BlocksKept, NEW d, NEW r \in Radix!Ranks
    PROVE Radix!PrefixHist(r, d)
            = Cardinality({g \in Positions : DigitAt(g) = d /\ g <= Radix!Start(r)})
<1>. DEFINE S == 0 .. r - 1
<1>0. r \in Nat /\ r \in 0 .. radix_p /\ radix_p \in Nat \ {0} /\ Length \in Nat
      /\ S \in SUBSET Radix!Ranks
  BY WholeIs DEF Radix!Ranks
<1>1. Radix!PrefixHist(r, d) = Cardinality(WithDigit(d, S))
  BY <1>0, HistSum DEF Radix!PrefixHist, Radix!MapThenSumSet, Radix!MapThenFoldSet
<1>2. ASSUME NEW g \in Positions
      PROVE (\E q \in S : InBlock(g, q)) <=> g <= Radix!Start(r)
  <2>1. g \in 1 .. Length /\ g \in Int /\ Radix!Start(r) \in Nat
    BY <1>0, PartitionIs DEF Positions
  <2>2. ASSUME NEW q \in S, InBlock(g, q) PROVE g <= Radix!Start(r)
    <3>1. q + 1 \in 0 .. radix_p /\ q + 1 <= r
      BY <1>0
    <3>2. Radix!Start(q + 1) <= Radix!Start(r) /\ Radix!Start(q + 1) \in Nat
      BY <1>0, <3>1, StartGrows, PartitionIs
    <3>3. g <= Radix!Start(q + 1)
      BY <2>2 DEF InBlock
    <3>. QED
      BY <2>1, <3>2, <3>3
  <2>3. ASSUME g <= Radix!Start(r) PROVE \E q \in S : InBlock(g, q)
    <3>1. PICK q \in Radix!Ranks : \E i \in 1 .. Radix!Size(q) : g = Radix!Start(q) + i
      BY <1>0, <2>1, BlockOf
    <3>2. /\ q \in Nat /\ Radix!Start(q) \in Nat /\ Radix!Size(q) \in Nat /\ q \in 0 .. radix_p
          /\ Radix!Start(q + 1) = Radix!Start(q) + Radix!Size(q)
      <4>1. q \in Nat /\ q \in 0 .. radix_p
        BY <1>0 DEF Radix!Ranks
      <4>. QED
        BY <1>0, <4>1, PartitionIs
    <3>3. Radix!Start(q) < g /\ g <= Radix!Start(q + 1)
      BY <3>1, <3>2
    <3>4. q < r
      <4>1. r <= q => Radix!Start(r) <= Radix!Start(q)
        BY <1>0, <3>2, StartGrows
      <4>. QED
        BY <1>0, <2>1, <2>3, <3>2, <3>3, <4>1
    <3>. QED
      BY <1>0, <3>2, <3>3, <3>4 DEF InBlock
  <2>. QED
    BY <2>2, <2>3
<1>3. WithDigit(d, S) = {g \in Positions : DigitAt(g) = d /\ g <= Radix!Start(r)}
  <2>. HIDE DEF S
  <2>. QED
    BY <1>2 DEF WithDigit
<1>. QED
  BY <1>1, <1>3

LEMMA GlobalIs ==
    ASSUME RadixTyped, Radix!BlocksKept, NEW d
    PROVE Radix!GlobalHist(d) = Cardinality({g \in Positions : DigitAt(g) = d})
<1>0. radix_p \in Nat \ {0} /\ Length \in Nat
  BY WholeIs
<1>1. Radix!GlobalHist(d) = Cardinality(WithDigit(d, Radix!Ranks))
  BY HistSum DEF Radix!GlobalHist, Radix!MapThenSumSet, Radix!MapThenFoldSet
<1>2. ASSUME NEW g \in Positions PROVE \E q \in Radix!Ranks : InBlock(g, q)
  <2>1. PICK q \in Radix!Ranks : \E i \in 1 .. Radix!Size(q) : g = Radix!Start(q) + i
    BY <1>0, BlockOf DEF Positions
  <2>2. /\ Radix!Start(q) \in Nat /\ Radix!Size(q) \in Nat
        /\ Radix!Start(q + 1) = Radix!Start(q) + Radix!Size(q)
    <3>1. q \in Nat /\ q \in 0 .. radix_p
      BY <1>0 DEF Radix!Ranks
    <3>. QED
      BY <1>0, <3>1, PartitionIs
  <2>. QED
    BY <2>1, <2>2 DEF InBlock
<1>3. WithDigit(d, Radix!Ranks) = {g \in Positions : DigitAt(g) = d}
  BY <1>2 DEF WithDigit
<1>. QED
  BY <1>1, <1>3

LEMMA DigitStartIs ==
    ASSUME RadixTyped, Radix!BlocksKept, pass < Passes, NEW d \in Nat
    PROVE Radix!DigitStart(d) = Cardinality({g \in Positions : DigitAt(g) < d})
<1>. DEFINE S == 0 .. d - 1
            Of(s) == {g \in Positions : DigitAt(g) \in s}
            G(g, s) == IF s = {} THEN 0
                       ELSE LET x == CHOOSE x \in s : TRUE IN Radix!GlobalHist(x) + g[s \ {x}]
            iter == CHOOSE g : g = [s \in SUBSET S |-> G(g, s)]
            size == [s \in SUBSET S |-> Cardinality(Of(s))]
            f == [x \in S |-> Radix!GlobalHist(x)]
<1>0. Radix!DigitStart(d) = iter[S]
  BY DEF Radix!DigitStart, Radix!MapThenSumSet, Radix!MapThenFoldSet
<1>1. IsFiniteSet(S)
  BY FS_Interval
<1>2. \A s : IsFiniteSet(Of(s)) /\ Cardinality(Of(s)) \in Nat
  <2>1. \A s : Of(s) \subseteq Positions
    OBVIOUS
  <2>. HIDE DEF Of
  <2>. QED
    BY <2>1, WholeIs, FS_Subset, FS_CardinalityType
<1>3. ASSUME NEW s \in SUBSET S, NEW x \in s PROVE size[s] = Radix!GlobalHist(x) + size[s \ {x}]
  <2>1. Of(s) = Of({x}) \union Of(s \ {x}) /\ Of({x}) \intersect Of(s \ {x}) = {}
    OBVIOUS
  <2>2. Radix!GlobalHist(x) = Cardinality(Of({x}))
    <3>1. Of({x}) = {g \in Positions : DigitAt(g) = x}
      OBVIOUS
    <3>. HIDE DEF Of
    <3>. QED
      BY <3>1, GlobalIs
  <2>. HIDE DEF Of
  <2>3. Cardinality(Of(s)) = Cardinality(Of({x})) + Cardinality(Of(s \ {x}))
    BY <1>2, <2>1, SumOfTwo
  <2>4. size[s] = Cardinality(Of(s)) /\ size[s \ {x}] = Cardinality(Of(s \ {x}))
    <3>1. s \ {x} \in SUBSET S
      OBVIOUS
    <3>. QED
      BY <3>1
  <2>. QED
    BY <2>2, <2>3, <2>4
<1>4. size[{}] = 0
  <2>1. Of({}) = {}
    OBVIOUS
  <2>. HIDE DEF Of
  <2>. QED
    BY <2>1, FS_EmptySet
<1>5. size \in [SUBSET S -> Int]
  <2>. HIDE DEF Of
  <2>. QED
    BY <1>2
<1>. HIDE DEF size, S
<1>6. size = [s \in SUBSET S |-> G(size, s)]
  <2>1. ASSUME NEW s \in SUBSET S PROVE size[s] = G(size, s)
    BY <1>3, <1>4
  <2>2. size = [s \in SUBSET S |-> size[s]]
    BY <1>5
  <2>. HIDE DEF G
  <2>. QED
    BY <2>1, <2>2
<1>7. iter = [s \in SUBSET S |-> G(iter, s)]
  <2>. HIDE DEF G
  <2>. QED
    BY <1>6
<1>. HIDE DEF iter
<1>8. Iterated(iter, f, S)
  <2>1. ASSUME NEW s \in SUBSET S
        PROVE iter[s] = IF s = {} THEN 0
                        ELSE f[CHOOSE x \in s : TRUE] + iter[s \ {CHOOSE x \in s : TRUE}]
    <3>1. iter[s] = G(iter, s)
      <4>. HIDE DEF G
      <4>. QED
        BY <1>7
    <3>. DEFINE x == CHOOSE x \in s : TRUE
    <3>2. s # {} => f[x] = Radix!GlobalHist(x)
      OBVIOUS
    <3>. HIDE DEF f
    <3>. QED
      BY <3>1, <3>2
  <2>. HIDE DEF f
  <2>. QED
    BY <2>1 DEF Iterated
<1>9. Additive(size, f, S)
  BY <1>3, <1>4, <1>5 DEF Additive
<1>10. iter[S] = size[S]
  <2>. HIDE DEF f
  <2>. QED
    BY <1>1, <1>8, <1>9, SumIs
<1>11. Of(S) = {g \in Positions : DigitAt(g) < d}
  BY DigitsAre DEF S
<1>. QED
  BY <1>0, <1>10, <1>11 DEF size

(***************************************************************************)
(* The place of an element                                                 *)
(***************************************************************************)
\* The elements in the order of their digits, and of their positions if these are equal.
Keys == [g \in Positions |-> DigitAt(g) * (Length + 1) + g]

LEMMA KeyOrder ==
    ASSUME RadixTyped, Radix!BlocksKept, pass < Passes
    PROVE /\ Keys \in [Positions -> Int]
          /\ \A g, h \in Positions :
                 Keys[g] <= Keys[h] <=> \/ DigitAt(g) < DigitAt(h)
                                        \/ DigitAt(g) = DigitAt(h) /\ g <= h
          /\ \A g, h \in Positions : Keys[g] = Keys[h] => g = h
<1>. DEFINE m == Length + 1
<1>1. Length \in Nat /\ m \in Nat
  BY WholeIs
<1>2. \A g \in Positions : Keys[g] = DigitAt(g) * m + g
  BY DEF Keys
<1>3. \A g \in Positions : DigitAt(g) \in Nat /\ DigitAt(g) * m \in Nat /\ g \in 1 .. Length
  BY <1>1, DigitsAre DEF Positions
<1>4. Keys \in [Positions -> Int]
  <2>1. \A g \in Positions : DigitAt(g) * (Length + 1) + g \in Int
    BY <1>3
  <2>. QED
    BY <2>1 DEF Keys
<1>5. ASSUME NEW g \in Positions, NEW h \in Positions, DigitAt(g) < DigitAt(h)
      PROVE Keys[g] < Keys[h]
  <2>1. (DigitAt(h) - DigitAt(g)) * m >= m
    BY <1>1, <1>3, <1>5
  <2>2. (DigitAt(h) - DigitAt(g)) * m = DigitAt(h) * m - DigitAt(g) * m
    <3>1. \A a, b \in Nat : (b - a) * m = b * m - a * m
      BY <1>1
    <3>. HIDE DEF m
    <3>. QED
      BY <1>3, <3>1
  <2>3. DigitAt(h) * m >= DigitAt(g) * m + m
    BY <1>1, <1>3, <2>1, <2>2
  <2>. QED
    BY <1>1, <1>2, <1>3, <2>3
<1>6. ASSUME NEW g \in Positions, NEW h \in Positions
      PROVE Keys[g] <= Keys[h] <=> \/ DigitAt(g) < DigitAt(h)
                                   \/ DigitAt(g) = DigitAt(h) /\ g <= h
  <2>1. Keys[g] \in Int /\ Keys[h] \in Int
    BY <1>4
  <2>2. DigitAt(g) = DigitAt(h) => (Keys[g] <= Keys[h] <=> g <= h)
    BY <1>2, <1>3
  <2>3. DigitAt(h) < DigitAt(g) => Keys[h] < Keys[g]
    BY <1>5
  <2>4. DigitAt(g) < DigitAt(h) => Keys[g] < Keys[h]
    BY <1>5
  <2>. QED
    BY <1>3, <2>1, <2>2, <2>3, <2>4
<1>7. ASSUME NEW g \in Positions, NEW h \in Positions, Keys[g] = Keys[h] PROVE g = h
  <2>1. Keys[g] <= Keys[h] /\ Keys[h] <= Keys[g]
    BY <1>4, <1>7
  <2>. QED
    BY <1>3, <1>6, <2>1
<1>. QED
  BY <1>4, <1>6, <1>7

\* Where it belongs after the pass.
NewPlace(g) == Cardinality(UpTo(Positions, Keys, g))

LEMMA NewPlaces ==
    ASSUME RadixTyped, Radix!BlocksKept, pass < Passes
    PROVE /\ \A g \in Positions : NewPlace(g) \in Positions
          /\ \A g, h \in Positions : NewPlace(g) <= NewPlace(h) <=> Keys[g] <= Keys[h]
          /\ \A g, h \in Positions : NewPlace(g) = NewPlace(h) => g = h
          /\ \A x \in Positions : \E g \in Positions : NewPlace(g) = x
<1>1. /\ IsFiniteSet(Positions) /\ Keys \in [Positions -> Int] /\ Length \in Nat
      /\ \A g, h \in Positions : Keys[g] = Keys[h] => g = h
  BY KeyOrder, WholeIs
<1>2. Cardinality(Positions) = Length
  <2>1. Cardinality(1 .. Length) = IF 1 > Length THEN 0 ELSE Length - 1 + 1
    BY <1>1, FS_Interval
  <2>. QED
    BY <1>1, <2>1 DEF Positions
<1>3. /\ \A g \in Positions : NewPlace(g) \in 1 .. Cardinality(Positions)
      /\ \A g, h \in Positions : Keys[g] < Keys[h] => NewPlace(g) < NewPlace(h)
      /\ \A g, h \in Positions : NewPlace(g) = NewPlace(h) => g = h
  BY <1>1, Ranking DEF NewPlace
<1>5. ASSUME NEW x \in 1 .. Cardinality(Positions) PROVE \E g \in Positions : NewPlace(g) = x
  BY <1>1, RankingOnto DEF NewPlace
<1>4. ASSUME NEW g \in Positions, NEW h \in Positions
      PROVE NewPlace(g) <= NewPlace(h) <=> Keys[g] <= Keys[h]
  <2>1. NewPlace(g) \in Int /\ NewPlace(h) \in Int /\ Keys[g] \in Int /\ Keys[h] \in Int
    BY <1>1, <1>3
  <2>2. Keys[g] = Keys[h] => NewPlace(g) = NewPlace(h)
    BY <1>1
  <2>3. /\ Keys[g] < Keys[h] => NewPlace(g) < NewPlace(h)
        /\ Keys[h] < Keys[g] => NewPlace(h) < NewPlace(g)
    BY <1>3
  <2>. QED
    BY <2>1, <2>2, <2>3
<1>. QED
  BY <1>2, <1>3, <1>4, <1>5 DEF Positions

LEMMA GlobalPosIs ==
    ASSUME RadixTyped, Radix!BlocksKept, pass < Passes,
           NEW r \in Radix!Ranks, NEW i \in 1 .. Radix!Size(r)
    PROVE Radix!GlobalPos(r, i) = NewPlace(Radix!Start(r) + i) - 1
<1>. DEFINE g == Radix!Start(r) + i
            d == DigitAt(g)
            A == {h \in Positions : DigitAt(h) < d}
            B == {h \in Positions : DigitAt(h) = d /\ h <= Radix!Start(r)}
            C == {h \in Positions : DigitAt(h) = d /\ Radix!Start(r) < h /\ h < g}
            J == {j \in 1 .. i - 1 : Radix!Digit(data[r][j], pass) = d}
<1>1. /\ r \in Nat /\ Radix!Start(r) \in Nat /\ Radix!Size(r) \in Nat /\ Length \in Nat
      /\ g \in Positions /\ g \in Nat /\ d = Radix!Digit(data[r][i], pass)
  <2>1. radix_p \in Nat \ {0} /\ Length \in Nat /\ r \in Nat /\ r \in 0 .. radix_p
    BY WholeIs DEF Radix!Ranks
  <2>2. g \in Positions /\ Radix!Whole[g] = data[r][i]
    BY WholeIs
  <2>. QED
    BY <2>1, <2>2, PartitionIs DEF DigitAt, Positions
<1>2. d \in Nat /\ \A h \in Positions : DigitAt(h) \in Nat /\ h \in Nat
  BY <1>1, DigitsAre DEF Positions
<1>3. Radix!GlobalPos(r, i) = Radix!DigitStart(d) + Radix!PrefixHist(r, d) + Radix!Cardinality(J)
  BY <1>1 DEF Radix!GlobalPos
<1>4. Radix!DigitStart(d) = Cardinality(A)
  <2>. HIDE DEF d
  <2>. QED
    BY <1>2, DigitStartIs
<1>5. Radix!PrefixHist(r, d) = Cardinality(B)
  <2>. HIDE DEF d
  <2>. QED
    BY PrefixIs
<1>6. IsFiniteSet(A) /\ IsFiniteSet(B) /\ IsFiniteSet(C)
  <2>1. A \subseteq Positions /\ B \subseteq Positions /\ C \subseteq Positions
    OBVIOUS
  <2>. HIDE DEF A, B, C
  <2>. QED
    BY <2>1, WholeIs, FS_Subset
<1>7. Cardinality(C) = Cardinality(J)
  <2>. DEFINE f == [j \in J |-> Radix!Start(r) + j]
  <2>1. IsFiniteSet(J)
    <3>1. IsFiniteSet(1 .. i - 1)
      BY <1>1, FS_Interval
    <3>. QED
      BY <3>1, FS_Subset
  <2>2. ASSUME NEW j \in 1 .. i - 1
        PROVE /\ Radix!Start(r) + j \in Positions
              /\ DigitAt(Radix!Start(r) + j) = Radix!Digit(data[r][j], pass)
    <3>1. j \in 1 .. Radix!Size(r)
      BY <1>1
    <3>. QED
      BY <3>1, WholeIs DEF DigitAt
  <2>3. f \in [J -> C]
    BY <1>1, <2>2
  <2>4. \A j, k \in J : f[j] = f[k] => j = k
    BY <1>1
  <2>5. ASSUME NEW h \in C PROVE \E j \in J : f[j] = h
    <3>. DEFINE j == h - Radix!Start(r)
    <3>1. j \in 1 .. i - 1 /\ Radix!Start(r) + j = h
      BY <1>1, <1>2
    <3>2. DigitAt(h) = Radix!Digit(data[r][j], pass) /\ DigitAt(h) = d
      <4>1. DigitAt(h) = Radix!Digit(data[r][j], pass)
        <5>. HIDE DEF j
        <5>. QED
          BY <2>2, <3>1
      <4>. QED
        BY <4>1
    <3>3. j \in J
      <4>. HIDE DEF d
      <4>. QED
        BY <3>1, <3>2
    <3>. HIDE DEF J, j
    <3>. QED
      BY <3>1, <3>3
  <2>. HIDE DEF J, C, f
  <2>. QED
    BY <2>1, <2>3, <2>4, <2>5, SameNumber
<1>8. UpTo(Positions, Keys, g) = ((A \union B) \union C) \union {g}
  <2>1. ASSUME NEW h \in Positions
        PROVE Keys[h] <= Keys[g] <=> \/ DigitAt(h) < d
                                     \/ DigitAt(h) = d /\ h <= g
    BY <1>1, KeyOrder
  <2>2. \A h \in Positions : h <= g <=> \/ h <= Radix!Start(r)
                                        \/ Radix!Start(r) < h /\ h < g
                                        \/ h = g
    BY <1>1, <1>2
  <2>. HIDE DEF g
  <2>. QED
    BY <1>1, <2>1, <2>2 DEF UpTo
<1>9. /\ A \intersect B = {} /\ (A \union B) \intersect C = {}
      /\ ((A \union B) \union C) \intersect {g} = {}
  <2>1. g > Radix!Start(r) /\ DigitAt(g) = d
    BY <1>1
  <2>. HIDE DEF d, g
  <2>2. A \intersect B = {} /\ A \intersect C = {} /\ B \intersect C = {}
    <3>1. \A h \in Positions : DigitAt(h) < d => DigitAt(h) # d
      BY <1>2
    <3>2. \A h \in Positions : h <= Radix!Start(r) => ~ (Radix!Start(r) < h)
      BY <1>1, <1>2
    <3>3. \A h \in A : h \notin B /\ h \notin C
      BY <3>1
    <3>4. \A h \in B : h \notin C
      BY <3>2
    <3>. HIDE DEF A, B, C
    <3>. QED
      BY <3>3, <3>4
  <2>3. g \notin A /\ g \notin B /\ g \notin C
    BY <1>1, <1>2, <2>1
  <2>. HIDE DEF A, B, C
  <2>. QED
    BY <2>2, <2>3
<1>. HIDE DEF A, B, C, d, J, g
<1>10. Cardinality(((A \union B) \union C) \union {g})
          = Cardinality(A) + Cardinality(B) + Cardinality(C) + 1
  <2>1. /\ IsFiniteSet(A \union B) /\ Cardinality(A \union B) = Cardinality(A) + Cardinality(B)
        /\ Cardinality(A) \in Nat /\ Cardinality(B) \in Nat
    BY <1>6, <1>9, SumOfTwo
  <2>2. /\ IsFiniteSet((A \union B) \union C) /\ Cardinality(C) \in Nat
        /\ Cardinality((A \union B) \union C) = Cardinality(A \union B) + Cardinality(C)
    BY <1>6, <1>9, <2>1, SumOfTwo
  <2>3. IsFiniteSet({g}) /\ Cardinality({g}) = 1
    BY FS_Singleton
  <2>4. Cardinality(((A \union B) \union C) \union {g})
          = Cardinality((A \union B) \union C) + Cardinality({g})
    BY <1>9, <2>2, <2>3, SumOfTwo
  <2>. QED
    BY <2>1, <2>2, <2>3, <2>4
<1>11. Cardinality(A) \in Nat /\ Cardinality(B) \in Nat /\ Cardinality(C) \in Nat
  BY <1>6, FS_CardinalityType
<1>12. NewPlace(g) = Cardinality(A) + Cardinality(B) + Cardinality(C) + 1
  BY <1>8, <1>10 DEF NewPlace
<1>13. Radix!Cardinality(J) = Cardinality(J)
  BY RadixCardinality
<1>. QED
  BY <1>3, <1>4, <1>5, <1>7, <1>11, <1>12, <1>13 DEF g

(***************************************************************************)
(* What a rank receives                                                    *)
(***************************************************************************)
\* The positions of the elements that rank q gets.
GoesTo(q) == {g \in Positions : InBlock(NewPlace(g), q)}

\* How many of the first x elements they are.
SoFar(q, x) == {g \in GoesTo(q) : g <= x}

LEMMA OwnerOf ==
    ASSUME RadixTyped, Radix!BlocksKept, pass < Passes, NEW q \in Radix!Ranks,
           NEW r \in Radix!Ranks, NEW i \in 1 .. Radix!Size(r)
    PROVE Radix!Owner(Radix!GlobalPos(r, i)) = q <=> Radix!Start(r) + i \in GoesTo(q)
<1>. DEFINE g == Radix!Start(r) + i
            x == NewPlace(g)
<1>1. radix_p \in Nat \ {0} /\ Length \in Nat /\ g \in Positions /\ x \in Positions /\ x \in 1 .. Length
  BY WholeIs, NewPlaces DEF Positions
<1>2. Radix!GlobalPos(r, i) = x - 1
  BY GlobalPosIs
<1>. HIDE DEF x
<1>3. PICK o \in Radix!Ranks : \E j \in 1 .. Radix!Size(o) : x = Radix!Start(o) + j
  BY <1>1, BlockOf
<1>4. /\ \A k \in Radix!Ranks : /\ Radix!Start(k) \in Nat /\ Radix!Size(k) \in Nat
                                /\ Radix!Start(k + 1) = Radix!Start(k) + Radix!Size(k)
  <2>1. \A k \in Radix!Ranks : k \in Nat /\ k \in 0 .. radix_p
    BY <1>1 DEF Radix!Ranks
  <2>. QED
    BY <1>1, <2>1, PartitionIs
<1>5. Radix!Start(o) < x /\ x <= Radix!Start(o + 1) /\ Radix!Start(o + 1) \in Nat
  BY <1>3, <1>4
<1>6. Radix!Owner(x - 1) = o
  <2>1. x - 1 \in Nat /\ Radix!Start(o) <= x - 1 /\ x - 1 < Radix!Start(o + 1)
    BY <1>1, <1>4, <1>5
  <2>. QED
    BY <1>1, <2>1, OwnerIs
<1>7. InBlock(x, q) => q = o
  BY <1>1, <1>5, BlocksApart DEF InBlock
<1>8. InBlock(x, o)
  BY <1>5 DEF InBlock
<1>. QED
  BY <1>1, <1>2, <1>6, <1>7, <1>8 DEF GoesTo, x

LEMMA IntervalSize ==
    ASSUME NEW a \in Nat, NEW b \in Nat, a <= b
    PROVE IsFiniteSet(a + 1 .. b) /\ Cardinality(a + 1 .. b) = b - a
<1>1. /\ IsFiniteSet(a + 1 .. b)
      /\ Cardinality(a + 1 .. b) = IF a + 1 > b THEN 0 ELSE b - (a + 1) + 1
  BY FS_Interval
<1>. QED
  BY <1>1

LEMMA BlockBounds ==
    ASSUME RadixTyped, Radix!BlocksKept, NEW r \in Radix!Ranks
    PROVE /\ r \in Nat /\ r \in 0 .. radix_p /\ Length \in Nat
          /\ Radix!Start(r) \in Nat /\ Radix!Size(r) \in Nat
          /\ Radix!Start(r + 1) = Radix!Start(r) + Radix!Size(r)
          /\ Radix!Start(r + 1) <= Length
<1>1. /\ radix_p \in Nat \ {0} /\ Length \in Nat /\ r \in Nat /\ r \in 0 .. radix_p
      /\ r + 1 \in 0 .. radix_p /\ radix_p \in 0 .. radix_p /\ r + 1 <= radix_p
  BY WholeIs DEF Radix!Ranks
<1>2. Radix!Start(r + 1) <= Radix!Start(radix_p)
  BY <1>1, StartGrows
<1>. QED
  BY <1>1, <1>2, PartitionIs

\* The place of an element of rank q in the order in which they arrive.
ArrivesAt(q, g) == Cardinality(SoFar(q, g))

LEMMA Arrivals ==
    ASSUME RadixTyped, Radix!BlocksKept, pass < Passes, NEW q \in Radix!Ranks
    PROVE /\ \A x : IsFiniteSet(SoFar(q, x)) /\ Cardinality(SoFar(q, x)) \in Nat
          /\ IsFiniteSet(GoesTo(q)) /\ Cardinality(GoesTo(q)) = Radix!Size(q)
          /\ \A g \in GoesTo(q) : ArrivesAt(q, g) \in 1 .. Radix!Size(q)
          /\ \A g, h \in GoesTo(q) : ArrivesAt(q, g) <= ArrivesAt(q, h) <=> g <= h
          /\ \A g, h \in GoesTo(q) : ArrivesAt(q, g) = ArrivesAt(q, h) => g = h
          /\ \A m \in 1 .. Radix!Size(q) : \E g \in GoesTo(q) : ArrivesAt(q, g) = m
<1>. DEFINE S == GoesTo(q)
            key == [g \in S |-> g]
            T == Radix!Start(q) + 1 .. Radix!Start(q + 1)
            f == [g \in S |-> NewPlace(g)]
<1>1. IsFiniteSet(S) /\ S \subseteq Positions
  <2>1. S \subseteq Positions
    BY DEF GoesTo
  <2>. QED
    BY <2>1, WholeIs, FS_Subset
<1>2. \A x : IsFiniteSet(SoFar(q, x)) /\ Cardinality(SoFar(q, x)) \in Nat
  <2>1. \A x : SoFar(q, x) \subseteq S
    BY DEF SoFar
  <2>. QED
    BY <1>1, <2>1, FS_Subset, FS_CardinalityType
<1>3. \A g \in S : g \in Int
  BY <1>1 DEF Positions
<1>4. Cardinality(S) = Radix!Size(q)
  <2>1. f \in [S -> T]
    <3>1. ASSUME NEW g \in S PROVE NewPlace(g) \in T
      <4>1. NewPlace(g) \in Positions /\ InBlock(NewPlace(g), q)
        BY NewPlaces DEF GoesTo
      <4>. QED
        BY <4>1, BlockBounds DEF InBlock, Positions
    <3>. QED
      BY <3>1
  <2>2. \A g, h \in S : f[g] = f[h] => g = h
    BY <1>1, NewPlaces
  <2>3. ASSUME NEW x \in T PROVE \E g \in S : f[g] = x
    <3>1. x \in Positions /\ InBlock(x, q)
      BY BlockBounds DEF InBlock, Positions
    <3>2. PICK g \in Positions : NewPlace(g) = x
      BY <3>1, NewPlaces
    <3>. QED
      BY <3>1, <3>2 DEF GoesTo
  <2>4. Cardinality(T) = Cardinality(S)
    <3>. HIDE DEF S, T, f
    <3>. QED
      BY <1>1, <2>1, <2>2, <2>3, SameNumber
  <2>5. Cardinality(T) = Radix!Start(q + 1) - Radix!Start(q)
    <3>1. /\ Radix!Start(q) \in Nat /\ Radix!Start(q + 1) \in Nat
          /\ Radix!Start(q) <= Radix!Start(q + 1)
      BY BlockBounds
    <3>. QED
      BY <3>1, IntervalSize
  <2>. QED
    BY <2>4, <2>5, BlockBounds
<1>5. \A g \in S : UpTo(S, key, g) = SoFar(q, g)
  BY DEF UpTo, SoFar
<1>6. /\ key \in [S -> Int] /\ \A g, h \in S : key[g] = key[h] => g = h
      /\ \A g \in S : key[g] = g
  BY <1>3
<1>. HIDE DEF S, key
<1>7. /\ \A g \in S : ArrivesAt(q, g) \in 1 .. Radix!Size(q)
      /\ \A g, h \in S : g < h => ArrivesAt(q, g) < ArrivesAt(q, h)
      /\ \A g, h \in S : ArrivesAt(q, g) = ArrivesAt(q, h) => g = h
      /\ \A m \in 1 .. Radix!Size(q) : \E g \in S : ArrivesAt(q, g) = m
  <2>1. /\ \A g \in S : Cardinality(UpTo(S, key, g)) \in 1 .. Cardinality(S)
        /\ \A g, h \in S : key[g] < key[h] =>
               Cardinality(UpTo(S, key, g)) < Cardinality(UpTo(S, key, h))
        /\ \A g, h \in S :
               Cardinality(UpTo(S, key, g)) = Cardinality(UpTo(S, key, h)) => g = h
    BY <1>1, <1>6, Ranking
  <2>3. ASSUME NEW m \in 1 .. Cardinality(S)
        PROVE \E g \in S : Cardinality(UpTo(S, key, g)) = m
    BY <1>1, <1>6, RankingOnto
  <2>2. \A g \in S : Cardinality(UpTo(S, key, g)) = ArrivesAt(q, g)
    BY <1>5 DEF ArrivesAt
  <2>. QED
    BY <1>4, <1>6, <2>1, <2>2, <2>3
<1>8. ASSUME NEW g \in S, NEW h \in S PROVE ArrivesAt(q, g) <= ArrivesAt(q, h) <=> g <= h
  <2>1. ArrivesAt(q, g) \in Int /\ ArrivesAt(q, h) \in Int /\ g \in Int /\ h \in Int
    BY <1>3, <1>7
  <2>2. g < h => ArrivesAt(q, g) < ArrivesAt(q, h)
    BY <1>7
  <2>3. h < g => ArrivesAt(q, h) < ArrivesAt(q, g)
    BY <1>7
  <2>. QED
    BY <2>1, <2>2, <2>3
<1>. QED
  BY <1>1, <1>2, <1>4, <1>7, <1>8 DEF S

\* The elements that rank r has for rank q.
For(r, q) == {i \in 1 .. Radix!Size(r) : Radix!Start(r) + i \in GoesTo(q)}

LEMMA ForIs ==
    ASSUME RadixTyped, Radix!BlocksKept, pass < Passes,
           NEW r \in Radix!Ranks, NEW q \in Radix!Ranks
    PROVE /\ IsFiniteSet(For(r, q))
          /\ {i \in DOMAIN data[r] : Radix!Owner(Radix!GlobalPos(r, i)) = q} = For(r, q)
          /\ \A k \in 0 .. Radix!Size(r) :
                 /\ Cardinality({i \in For(r, q) : i <= k}) \in Nat
                 /\ Cardinality(SoFar(q, Radix!Start(r) + k))
                      = Cardinality(SoFar(q, Radix!Start(r)))
                          + Cardinality({i \in For(r, q) : i <= k})
<1>1. DOMAIN data[r] = 1 .. Radix!Size(r)
  BY WholeIs
<1>2. {i \in DOMAIN data[r] : Radix!Owner(Radix!GlobalPos(r, i)) = q} = For(r, q)
  BY <1>1, OwnerOf DEF For
<1>3. IsFiniteSet(For(r, q))
  <2>1. IsFiniteSet(1 .. Radix!Size(r))
    BY BlockBounds, FS_Interval
  <2>. QED
    BY <2>1, FS_Subset DEF For
<1>4. ASSUME NEW k \in 0 .. Radix!Size(r)
      PROVE /\ Cardinality({i \in For(r, q) : i <= k}) \in Nat
            /\ Cardinality(SoFar(q, Radix!Start(r) + k))
                 = Cardinality(SoFar(q, Radix!Start(r)))
                     + Cardinality({i \in For(r, q) : i <= k})
  <2>. DEFINE a == Radix!Start(r)
              J == {i \in For(r, q) : i <= k}
              T == {g \in GoesTo(q) : a < g /\ g <= a + k}
              f == [i \in J |-> a + i]
  <2>0. a \in Nat /\ \A g \in GoesTo(q) : g \in Nat
    BY BlockBounds DEF GoesTo, Positions
  <2>1. IsFiniteSet(J) /\ Cardinality(J) \in Nat
    <3>1. J \subseteq For(r, q)
      OBVIOUS
    <3>. QED
      BY <1>3, <3>1, FS_Subset, FS_CardinalityType
  <2>. HIDE DEF a
  <2>2. f \in [J -> T]
    BY <2>0 DEF For, a
  <2>3. \A i, j \in J : f[i] = f[j] => i = j
    BY <2>0 DEF For
  <2>4. ASSUME NEW g \in T PROVE \E i \in J : f[i] = g
    <3>1. g - a \in 1 .. Radix!Size(r) /\ a + (g - a) = g /\ g - a <= k
      BY <2>0, BlockBounds
    <3>2. g - a \in J
      BY <3>1 DEF For, a
    <3>. HIDE DEF J
    <3>. QED
      BY <3>1, <3>2
  <2>5. Cardinality(T) = Cardinality(J)
    <3>. HIDE DEF T, J, f
    <3>. QED
      BY <2>1, <2>2, <2>3, <2>4, SameNumber
  <2>6. SoFar(q, a + k) = SoFar(q, a) \union T
    <3>1. \A g \in GoesTo(q) : g <= a + k <=> (g <= a \/ (a < g /\ g <= a + k))
      BY <2>0
    <3>. QED
      BY <3>1 DEF SoFar
  <2>7. SoFar(q, a) \intersect T = {}
    <3>1. \A g \in GoesTo(q) : g <= a => ~ (a < g)
      BY <2>0
    <3>. QED
      BY <3>1 DEF SoFar
  <2>8. IsFiniteSet(SoFar(q, a)) /\ IsFiniteSet(T)
    <3>1. T \subseteq GoesTo(q)
      OBVIOUS
    <3>. HIDE DEF T
    <3>. QED
      BY <3>1, Arrivals, FS_Subset
  <2>. HIDE DEF T, J
  <2>9. Cardinality(SoFar(q, a + k)) = Cardinality(SoFar(q, a)) + Cardinality(J)
    BY <2>5, <2>6, <2>7, <2>8, SumOfTwo
  <2>. QED
    BY <2>1, <2>9 DEF a, J
<1>. QED
  BY <1>2, <1>3, <1>4

LEMMA SentIs ==
    ASSUME RadixTyped, Radix!BlocksKept, pass < Passes,
           NEW r \in Radix!Ranks, NEW q \in Radix!Ranks
    PROVE /\ Radix!SentTo(r, q) \in Seq(Radix!Values)
          /\ Cardinality(SoFar(q, Radix!Start(r + 1)))
               = Cardinality(SoFar(q, Radix!Start(r))) + Len(Radix!SentTo(r, q))
          /\ \A i \in 1 .. Radix!Size(r) : Radix!Start(r) + i \in GoesTo(q) =>
                 \E m \in 1 .. Len(Radix!SentTo(r, q)) :
                     /\ ArrivesAt(q, Radix!Start(r) + i)
                          = Cardinality(SoFar(q, Radix!Start(r))) + m
                     /\ Radix!SentTo(r, q)[m] = Radix!Whole[Radix!Start(r) + i]
<1>. DEFINE S == For(r, q)
            place(i) == Cardinality({j \in S : j <= i})
            n == Cardinality(S)
            sent_to == [m \in 1 .. n |-> data[r][CHOOSE i \in S : place(i) = m]]
<1>1. IsFiniteSet(S) /\ n \in Nat /\ S \subseteq 1 .. Radix!Size(r)
  BY ForIs, FS_CardinalityType DEF For
<1>2. Radix!SentTo(r, q) = sent_to
  <2>. DEFINE mine == {i \in DOMAIN data[r] : Radix!Owner(Radix!GlobalPos(r, i)) = q}
  <2>1. Radix!SentTo(r, q)
          = [m \in 1 .. Radix!Cardinality(mine) |->
                data[r][CHOOSE i \in mine : Radix!Cardinality({j \in mine : j <= i}) = m]]
    BY DEF Radix!SentTo
  <2>2. mine = S
    BY ForIs
  <2>. HIDE DEF mine, S
  <2>3. Radix!SentTo(r, q)
          = [m \in 1 .. Radix!Cardinality(S) |->
                data[r][CHOOSE i \in S : Radix!Cardinality({j \in S : j <= i}) = m]]
    BY <2>1, <2>2
  <2>. QED
    BY <2>3 DEF Radix!Cardinality, Cardinality
<1>3. /\ \A i \in S : place(i) \in 1 .. n
      /\ \A i, j \in S : place(i) = place(j) => i = j
      /\ \A m \in 1 .. n : \E i \in S : place(i) = m
  <2>1. S \subseteq Int
    BY <1>1, BlockBounds
  <2>. HIDE DEF S
  <2>. QED
    BY <1>1, <2>1, RankingOfNumbers
<1>4. \A i \in 1 .. Radix!Size(r) : data[r][i] \in Radix!Values
  <2>1. data[r] \in Seq(Radix!Values) /\ DOMAIN data[r] = 1 .. Radix!Size(r)
    BY WholeIs DEF RadixTyped
  <2>2. Len(data[r]) = Radix!Size(r)
    BY DEF Radix!BlocksKept
  <2>. QED
    BY <2>1, <2>2, ElementOfSeq
<1>. HIDE DEF S, place, n
<1>5. sent_to \in Seq(Radix!Values) /\ Len(sent_to) = n
  <2>1. \A m \in 1 .. n : data[r][CHOOSE i \in S : place(i) = m] \in Radix!Values
    BY <1>1, <1>3, <1>4
  <2>. QED
    BY <1>1, <2>1
<1>6. \A i \in S : sent_to[place(i)] = data[r][i]
  BY <1>3
<1>. HIDE DEF sent_to
<1>7. Cardinality(SoFar(q, Radix!Start(r + 1))) = Cardinality(SoFar(q, Radix!Start(r))) + n
  <2>1. Radix!Size(r) \in 0 .. Radix!Size(r) /\ Radix!Start(r + 1) = Radix!Start(r) + Radix!Size(r)
    BY BlockBounds
  <2>2. {i \in S : i <= Radix!Size(r)} = S
    <3>1. \A i \in S : i <= Radix!Size(r)
      BY <1>1, BlockBounds
    <3>. QED
      BY <3>1
  <2>. QED
    BY <2>1, <2>2, ForIs DEF S, n
<1>8. ASSUME NEW i \in 1 .. Radix!Size(r), Radix!Start(r) + i \in GoesTo(q)
      PROVE /\ place(i) \in 1 .. n
            /\ ArrivesAt(q, Radix!Start(r) + i) = Cardinality(SoFar(q, Radix!Start(r))) + place(i)
            /\ sent_to[place(i)] = Radix!Whole[Radix!Start(r) + i]
  <2>1. i \in S /\ i \in 0 .. Radix!Size(r)
    BY <1>8, BlockBounds DEF S, For
  <2>2. ArrivesAt(q, Radix!Start(r) + i) = Cardinality(SoFar(q, Radix!Start(r))) + place(i)
    BY <2>1, ForIs DEF ArrivesAt, S, place
  <2>3. sent_to[place(i)] = Radix!Whole[Radix!Start(r) + i]
    BY <1>6, <2>1, WholeIs
  <2>. QED
    BY <1>3, <2>1, <2>2, <2>3
<1>. QED
  BY <1>2, <1>5, <1>7, <1>8

LEMMA ReceivedIs ==
    ASSUME RadixTyped, Radix!BlocksKept, pass < Passes, NEW q \in Radix!Ranks
    PROVE /\ Radix!Received(q) \in Seq(Radix!Values)
          /\ Len(Radix!Received(q)) = Radix!Size(q)
          /\ \A g \in GoesTo(q) : Radix!Received(q)[ArrivesAt(q, g)] = Radix!Whole[g]
<1>. DEFINE s == [m \in 1 .. radix_p |-> Radix!SentTo(m - 1, q)]
            st == [m \in 0 .. radix_p |-> Cardinality(SoFar(q, Radix!Start(m)))]
            all == Radix!FlattenSeq(s)
<1>0. radix_p \in Nat \ {0} /\ Length \in Nat
  BY WholeIs
<1>1. Radix!Received(q) = all
  BY DEF Radix!Received
<1>2. /\ s \in Seq(Seq(Radix!Values)) /\ Len(s) = radix_p
      /\ \A m \in 1 .. radix_p : s[m] = Radix!SentTo(m - 1, q)
  <2>1. \A m \in 1 .. radix_p : Radix!SentTo(m - 1, q) \in Seq(Radix!Values)
    <3>1. \A m \in 1 .. radix_p : m - 1 \in Radix!Ranks
      BY <1>0 DEF Radix!Ranks
    <3>. QED
      BY <3>1, SentIs
  <2>. QED
    BY <1>0, <2>1
<1>3. Sizes(st, s)
  <2>1. st \in [0 .. Len(s) -> Nat]
    BY <1>2, Arrivals
  <2>2. st[0] = 0
    <3>1. st[0] = Cardinality(SoFar(q, Radix!Start(0))) /\ Radix!Start(0) = 0
      BY <1>0, PartitionIs
    <3>2. SoFar(q, 0) = {}
      BY DEF SoFar, GoesTo, Positions
    <3>. HIDE DEF st
    <3>. QED
      BY <3>1, <3>2, FS_EmptySet
  <2>3. ASSUME NEW m \in 1 .. Len(s) PROVE st[m] = st[m - 1] + Len(s[m])
    <3>1. /\ m \in 1 .. radix_p /\ m \in 0 .. radix_p /\ m - 1 \in 0 .. radix_p
          /\ m - 1 \in Radix!Ranks /\ (m - 1) + 1 = m
      BY <1>0, <1>2 DEF Radix!Ranks
    <3>2. Cardinality(SoFar(q, Radix!Start((m - 1) + 1)))
            = Cardinality(SoFar(q, Radix!Start(m - 1))) + Len(Radix!SentTo(m - 1, q))
      BY <3>1, SentIs
    <3>3. /\ st[m] = Cardinality(SoFar(q, Radix!Start(m)))
          /\ st[m - 1] = Cardinality(SoFar(q, Radix!Start(m - 1)))
      BY <3>1
    <3>. HIDE DEF st, s
    <3>. QED
      BY <1>2, <3>1, <3>2, <3>3
  <2>. HIDE DEF st, s
  <2>. QED
    BY <2>1, <2>2, <2>3 DEF Sizes
<1>4. /\ st[radix_p] = Cardinality(SoFar(q, Length))
      /\ \A r \in Radix!Ranks : st[(r + 1) - 1] = Cardinality(SoFar(q, Radix!Start(r)))
  <2>1. Radix!Start(radix_p) = Length
    BY <1>0, PartitionIs
  <2>2. \A r \in Radix!Ranks : (r + 1) - 1 = r /\ r \in 0 .. radix_p
    BY <1>0 DEF Radix!Ranks
  <2>. QED
    BY <1>0, <2>1, <2>2
<1>. HIDE DEF s, st
<1>5. all \in Seq(Radix!Values)
  BY <1>2, <1>3, FlattenAt
<1>6. Len(all) = Radix!Size(q)
  <2>1. Len(all) = st[Len(s)]
    BY <1>2, <1>3, FlattenAt
  <2>2. SoFar(q, Length) = GoesTo(q)
    BY <1>0 DEF SoFar, GoesTo, Positions
  <2>. HIDE DEF all
  <2>. QED
    BY <1>2, <1>4, <2>1, <2>2, Arrivals
<1>7. \A k \in 1 .. Len(s) : \A i \in 1 .. Len(s[k]) : all[st[k - 1] + i] = s[k][i]
  <2>1. s \in Seq(Seq(Radix!Values)) /\ Sizes(st, s)
    BY <1>2, <1>3
  <2>. QED
    BY <2>1, FlattenAt
<1>. HIDE DEF all
<1>8. ASSUME NEW g \in GoesTo(q) PROVE all[ArrivesAt(q, g)] = Radix!Whole[g]
  <2>1. PICK r \in Radix!Ranks : \E i \in 1 .. Radix!Size(r) : g = Radix!Start(r) + i
    BY <1>0, BlockOf DEF GoesTo, Positions
  <2>2. PICK i \in 1 .. Radix!Size(r) : g = Radix!Start(r) + i
    BY <2>1
  <2>3. PICK m \in 1 .. Len(Radix!SentTo(r, q)) :
            /\ ArrivesAt(q, g) = Cardinality(SoFar(q, Radix!Start(r))) + m
            /\ Radix!SentTo(r, q)[m] = Radix!Whole[g]
    BY <2>2, SentIs
  <2>4. r + 1 \in 1 .. Len(s) /\ s[r + 1] = Radix!SentTo(r, q)
    <3>1. r + 1 \in 1 .. radix_p /\ (r + 1) - 1 = r
      BY <1>0 DEF Radix!Ranks
    <3>2. s[r + 1] = Radix!SentTo((r + 1) - 1, q)
      BY <1>2, <3>1
    <3>. QED
      BY <1>2, <3>1, <3>2
  <2>5. all[st[(r + 1) - 1] + m] = s[r + 1][m]
    BY <1>7, <2>4
  <2>. QED
    BY <1>4, <2>3, <2>4, <2>5
<1>. QED
  BY <1>1, <1>5, <1>6, <1>8

\* The counting sort puts every element where it belongs.
LEMMA PlaceIs ==
    ASSUME RadixTyped, Radix!BlocksKept, pass < Passes, NEW q \in Radix!Ranks,
           NEW g \in GoesTo(q)
    PROVE Radix!Place(Radix!Received(q), ArrivesAt(q, g)) = NewPlace(g) - Radix!Start(q)
<1>. DEFINE s == Radix!Received(q)
            d == DigitAt(g)
            n == Radix!Size(q)
            spot(h) == ArrivesAt(q, h)
            A == {j \in 1 .. n : Radix!Digit(s[j], pass) < d}
            B == {j \in 1 .. spot(g) : Radix!Digit(s[j], pass) = d}
            C == {h \in GoesTo(q) : Keys[h] <= Keys[g]}
            T == Radix!Start(q) + 1 .. NewPlace(g)
            f == [h \in C |-> spot(h)]
            e == [h \in C |-> NewPlace(h)]
<1>1. /\ s \in Seq(Radix!Values) /\ Len(s) = n /\ n \in Nat /\ DOMAIN s = 1 .. n
      /\ \A h \in GoesTo(q) : s[spot(h)] = Radix!Whole[h]
  <2>1. /\ s \in Seq(Radix!Values) /\ Len(s) = n /\ n \in Nat
        /\ \A h \in GoesTo(q) : s[spot(h)] = Radix!Whole[h]
    BY ReceivedIs, BlockBounds
  <2>. HIDE DEF s
  <2>. QED
    BY <2>1
<1>2. /\ \A h \in GoesTo(q) : spot(h) \in 1 .. n
      /\ \A h, k \in GoesTo(q) : spot(h) <= spot(k) <=> h <= k
      /\ \A h, k \in GoesTo(q) : spot(h) = spot(k) => h = k
      /\ \A m \in 1 .. n : \E h \in GoesTo(q) : spot(h) = m
  BY Arrivals
<1>3. \A h \in GoesTo(q) : Radix!Digit(s[spot(h)], pass) = DigitAt(h)
  BY <1>1 DEF DigitAt
<1>4. GoesTo(q) \subseteq Positions /\ IsFiniteSet(GoesTo(q))
  BY Arrivals DEF GoesTo
<1>5. \A h \in Positions : DigitAt(h) \in Nat /\ h \in Nat
  BY DigitsAre DEF Positions
<1>6. \A h \in Positions : Keys[h] <= Keys[g] <=> \/ DigitAt(h) < d
                                                  \/ DigitAt(h) = d /\ h <= g
  BY <1>4, KeyOrder
<1>7. Radix!Place(s, spot(g)) = Cardinality(A) + Cardinality(B)
  <2>1. /\ s[spot(g)] = Radix!Whole[g]
        /\ Radix!Digit(s[spot(g)], pass) = d
    BY <1>1, <1>3
  <2>2. Radix!Place(s, spot(g)) = Radix!Cardinality({j \in DOMAIN s : Radix!Digit(s[j], pass) < d})
                                  + Radix!Cardinality(B)
    <3>. HIDE DEF s, d, spot
    <3>. QED
      BY <2>1 DEF Radix!Place
  <2>3. {j \in DOMAIN s : Radix!Digit(s[j], pass) < d} = A
    <3>. HIDE DEF s, d, n
    <3>. QED
      BY <1>1
  <2>. HIDE DEF A, B, s
  <2>. QED
    BY <2>2, <2>3, RadixCardinality
<1>. HIDE DEF s, spot, n, d
<1>8. IsFiniteSet(A) /\ IsFiniteSet(B) /\ A \intersect B = {}
  <2>1. A \subseteq 1 .. n /\ B \subseteq 1 .. n
    BY <1>1, <1>2
  <2>2. IsFiniteSet(1 .. n)
    <3>1. n \in Int
      BY <1>1
    <3>. QED
      BY <3>1, FS_Interval
  <2>3. IsFiniteSet(A) /\ IsFiniteSet(B)
    <3>. HIDE DEF A, B
    <3>. QED
      BY <2>1, <2>2, FS_Subset
  <2>4. d \in Nat
    BY <1>4, <1>5 DEF d
  <2>5. \A j \in A : j \notin B
    BY <2>4
  <2>. HIDE DEF A, B
  <2>. QED
    BY <2>3, <2>5
<1>9. Cardinality(C) = Cardinality(A \union B)
  <2>1. f \in [C -> A \union B]
    <3>1. ASSUME NEW h \in C PROVE spot(h) \in A \union B
      <4>1. /\ h \in GoesTo(q) /\ h \in Positions /\ spot(h) \in 1 .. n
            /\ \/ DigitAt(h) < d
               \/ DigitAt(h) = d /\ h <= g
        BY <1>2, <1>4, <1>6
      <4>2. h <= g => spot(h) \in 1 .. spot(g)
        BY <1>2, <4>1
      <4>. QED
        BY <1>3, <4>1, <4>2
    <3>. HIDE DEF A, B, C
    <3>. QED
      BY <3>1
  <2>2. \A h, k \in C : f[h] = f[k] => h = k
    BY <1>2
  <2>3. ASSUME NEW j \in A \union B PROVE \E h \in C : f[h] = j
    <3>1. j \in 1 .. n
      BY <1>1, <1>2
    <3>2. PICK h \in GoesTo(q) : spot(h) = j
      BY <1>2, <3>1
    <3>3. Radix!Digit(s[j], pass) = DigitAt(h)
      BY <1>3, <3>2
    <3>4. j \in B => h <= g
      <4>1. j \in B => spot(h) <= spot(g)
        BY <1>2, <3>2
      <4>. QED
        BY <1>2, <4>1
    <3>5. Keys[h] <= Keys[g]
      BY <1>4, <1>6, <3>3, <3>4
    <3>. QED
      BY <3>2, <3>5
  <2>4. IsFiniteSet(C)
    <3>1. C \subseteq GoesTo(q)
      OBVIOUS
    <3>. HIDE DEF C
    <3>. QED
      BY <1>4, <3>1, FS_Subset
  <2>. HIDE DEF A, B, C, f
  <2>. QED
    BY <2>1, <2>2, <2>3, <2>4, SameNumber
<1>10. Cardinality(C) = NewPlace(g) - Radix!Start(q)
  <2>0. /\ NewPlace(g) \in Nat /\ Radix!Start(q) \in Nat /\ Radix!Start(q) <= NewPlace(g)
        /\ NewPlace(g) <= Radix!Start(q + 1) /\ NewPlace(g) <= Length /\ Length \in Nat
    <3>1. NewPlace(g) \in Positions /\ InBlock(NewPlace(g), q)
      BY <1>4, NewPlaces DEF GoesTo
    <3>. QED
      BY <3>1, BlockBounds DEF InBlock, Positions
  <2>1. e \in [C -> T]
    <3>1. ASSUME NEW h \in C PROVE NewPlace(h) \in T
      <4>1. NewPlace(h) \in Positions /\ InBlock(NewPlace(h), q) /\ NewPlace(h) <= NewPlace(g)
        BY <1>4, NewPlaces DEF GoesTo
      <4>. QED
        BY <2>0, <4>1 DEF InBlock, Positions
    <3>. HIDE DEF C, T
    <3>. QED
      BY <3>1
  <2>2. \A h, k \in C : e[h] = e[k] => h = k
    BY <1>4, NewPlaces
  <2>3. ASSUME NEW x \in T PROVE \E h \in C : e[h] = x
    <3>1. x \in Positions /\ InBlock(x, q) /\ x <= NewPlace(g)
      BY <2>0, BlockBounds DEF InBlock, Positions
    <3>2. PICK h \in Positions : NewPlace(h) = x
      BY <3>1, NewPlaces
    <3>3. h \in GoesTo(q)
      BY <3>1, <3>2 DEF GoesTo
    <3>4. Keys[h] <= Keys[g]
      BY <1>4, <3>1, <3>2, NewPlaces
    <3>. QED
      BY <3>2, <3>3, <3>4
  <2>4. IsFiniteSet(C)
    <3>1. C \subseteq GoesTo(q)
      OBVIOUS
    <3>. HIDE DEF C
    <3>. QED
      BY <1>4, <3>1, FS_Subset
  <2>5. Cardinality(T) = NewPlace(g) - Radix!Start(q)
    BY <2>0, IntervalSize
  <2>6. Cardinality(T) = Cardinality(C)
    <3>. HIDE DEF T, C, e
    <3>. QED
      BY <2>1, <2>2, <2>3, <2>4, SameNumber
  <2>. QED
    BY <2>5, <2>6
<1>11. Cardinality(A \union B) = Cardinality(A) + Cardinality(B)
  BY <1>8, SumOfTwo
<1>. QED
  BY <1>7, <1>9, <1>10, <1>11 DEF s, spot

LEMMA CountingSortIs ==
    ASSUME RadixTyped, Radix!BlocksKept, pass < Passes, NEW q \in Radix!Ranks
    PROVE LET sorted == Radix!CountingSort(Radix!Received(q))
          IN  /\ sorted \in Seq(Radix!Values) /\ Len(sorted) = Radix!Size(q)
              /\ \A g \in GoesTo(q) : sorted[NewPlace(g) - Radix!Start(q)] = Radix!Whole[g]
<1>. DEFINE s == Radix!Received(q)
            n == Radix!Size(q)
            Chosen(m) == CHOOSE i \in DOMAIN s : Radix!Place(s, i) = m
            sorted == [m \in 1 .. n |-> s[Chosen(m)]]
<1>1. /\ s \in Seq(Radix!Values) /\ Len(s) = n /\ n \in Nat /\ DOMAIN s = 1 .. n
      /\ \A g \in GoesTo(q) : s[ArrivesAt(q, g)] = Radix!Whole[g]
  <2>1. /\ s \in Seq(Radix!Values) /\ Len(s) = n /\ n \in Nat
        /\ \A g \in GoesTo(q) : s[ArrivesAt(q, g)] = Radix!Whole[g]
    BY ReceivedIs, BlockBounds
  <2>. HIDE DEF s
  <2>. QED
    BY <2>1
<1>2. Radix!CountingSort(s) = sorted
  <2>. HIDE DEF s
  <2>. QED
    BY <1>1 DEF Radix!CountingSort
<1>3. ASSUME NEW g \in GoesTo(q)
      PROVE /\ NewPlace(g) - Radix!Start(q) \in 1 .. n
            /\ Chosen(NewPlace(g) - Radix!Start(q)) = ArrivesAt(q, g)
  <2>1. NewPlace(g) \in Positions /\ InBlock(NewPlace(g), q)
    BY NewPlaces DEF GoesTo
  <2>2. NewPlace(g) - Radix!Start(q) \in 1 .. n
    BY <2>1, BlockBounds DEF InBlock, Positions
  <2>3. ArrivesAt(q, g) \in DOMAIN s
    BY <1>1, Arrivals
  <2>4. Radix!Place(s, ArrivesAt(q, g)) = NewPlace(g) - Radix!Start(q)
    BY PlaceIs
  <2>5. ASSUME NEW i \in DOMAIN s, Radix!Place(s, i) = NewPlace(g) - Radix!Start(q)
        PROVE i = ArrivesAt(q, g)
    <3>1. PICK h \in GoesTo(q) : ArrivesAt(q, h) = i
      BY <1>1, Arrivals
    <3>2. NewPlace(h) - Radix!Start(q) = NewPlace(g) - Radix!Start(q)
      BY <2>5, <3>1, PlaceIs
    <3>3. NewPlace(h) = NewPlace(g)
      <4>1. NewPlace(h) \in Int /\ NewPlace(g) \in Int /\ Radix!Start(q) \in Int
        BY NewPlaces, BlockBounds DEF GoesTo, Positions
      <4>. QED
        BY <3>2, <4>1
    <3>4. h = g
      BY <3>3, NewPlaces DEF GoesTo
    <3>. QED
      BY <3>1, <3>4
  <2>. HIDE DEF s
  <2>. QED
    BY <2>2, <2>3, <2>4, <2>5
<1>4. ASSUME NEW m \in 1 .. n PROVE s[Chosen(m)] \in Radix!Values
  <2>1. /\ Radix!Start(q) + m \in Positions /\ InBlock(Radix!Start(q) + m, q)
        /\ (Radix!Start(q) + m) - Radix!Start(q) = m
    BY BlockBounds DEF InBlock, Positions
  <2>2. PICK g \in Positions : NewPlace(g) = Radix!Start(q) + m
    BY <2>1, NewPlaces
  <2>3. g \in GoesTo(q)
    BY <2>1, <2>2 DEF GoesTo
  <2>4. Chosen(m) = ArrivesAt(q, g)
    <3>1. Chosen(NewPlace(g) - Radix!Start(q)) = ArrivesAt(q, g)
      BY <1>3, <2>3
    <3>. HIDE DEF Chosen
    <3>. QED
      BY <2>1, <2>2, <3>1
  <2>5. ArrivesAt(q, g) \in 1 .. Len(s)
    BY <1>1, <2>3, Arrivals
  <2>. HIDE DEF s, Chosen
  <2>. QED
    BY <1>1, <2>4, <2>5, ElementOfSeq
<1>5. sorted \in Seq(Radix!Values) /\ Len(sorted) = n
  <2>. HIDE DEF s, Chosen
  <2>. QED
    BY <1>1, <1>4
<1>6. ASSUME NEW g \in GoesTo(q) PROVE sorted[NewPlace(g) - Radix!Start(q)] = Radix!Whole[g]
  <2>. HIDE DEF s, Chosen
  <2>. QED
    BY <1>1, <1>3
<1>. HIDE DEF sorted
<1>. QED
  BY <1>2, <1>5, <1>6

(***************************************************************************)
(* A pass moves every element to its place                                 *)
(***************************************************************************)
LEMMA PassMoves ==
    ASSUME RadixTyped, Radix!BlocksKept, Radix!Pass
    PROVE /\ pass < Passes /\ pass' = pass + 1 /\ input' = input /\ radix_p' = radix_p
          /\ Positions' = Positions
          /\ RadixTyped' /\ Radix!BlocksKept'
          /\ Radix!Whole' \in Seq(Radix!Values) /\ Len(Radix!Whole') = Length
          /\ \A g \in Positions : Radix!Whole'[NewPlace(g)] = Radix!Whole[g]
<1>1. /\ pass < Passes /\ pass' = pass + 1 /\ input' = input /\ radix_p' = radix_p
      /\ data' = [r \in Radix!Ranks |-> Radix!CountingSort(Radix!Received(r))]
  BY DEF Radix!Pass
<1>2. /\ radix_p \in Nat \ {0} /\ Length \in Nat /\ pass \in Nat
  BY SmallModelsAssumption, WholeIs DEF RadixTyped
<1>3. /\ Length' = Length /\ Positions' = Positions /\ Radix!Ranks' = Radix!Ranks
      /\ Radix!Values' = Radix!Values
      /\ \A r : Radix!Size(r)' = Radix!Size(r)
  BY <1>1 DEF Length, Positions, Radix!Ranks, Radix!Values, Radix!Weight, Radix!Size, Radix!n_global
<1>4. ASSUME NEW r \in Radix!Ranks
      PROVE /\ data'[r] \in Seq(Radix!Values) /\ Len(data'[r]) = Radix!Size(r)
            /\ \A g \in GoesTo(r) : data'[r][NewPlace(g) - Radix!Start(r)] = Radix!Whole[g]
  <2>1. data'[r] = Radix!CountingSort(Radix!Received(r))
    BY <1>1
  <2>. QED
    BY <1>1, <2>1, CountingSortIs
<1>5. data' \in [Radix!Ranks -> Seq(Radix!Values)]
  <2>1. data' = [r \in Radix!Ranks |-> data'[r]]
    BY <1>1
  <2>. QED
    BY <1>4, <2>1
<1>6. RadixTyped'
  <2>1. input' \in Seq(Radix!Values) /\ pass' \in 0 .. Passes
    BY <1>1, <1>2, SmallModelsAssumption DEF RadixTyped
  <2>. QED
    BY <1>1, <1>2, <1>3, <1>5, <2>1 DEF RadixTyped
<1>7. Radix!BlocksKept'
  BY <1>3, <1>4 DEF Radix!BlocksKept
<1>8. Radix!Whole' = Radix!FlattenSeq([m \in 1 .. radix_p |-> data'[m - 1]])
  BY <1>1 DEF Radix!Whole
<1>9. /\ Radix!Whole' \in Seq(Radix!Values) /\ Len(Radix!Whole') = Length
      /\ \A r \in Radix!Ranks : \A i \in 1 .. Radix!Size(r) :
             Radix!Whole'[Radix!Start(r) + i] = data'[r][i]
  <2>. DEFINE x == data'
              w == Radix!Whole'
  <2>1. /\ x \in [Radix!Ranks -> Seq(Radix!Values)]
        /\ \A r \in Radix!Ranks : Len(x[r]) = Radix!Size(r)
        /\ w = Radix!FlattenSeq([m \in 1 .. radix_p |-> x[m - 1]])
    BY <1>4, <1>5, <1>8
  <2>. HIDE DEF x, w
  <2>2. /\ w \in Seq(Radix!Values) /\ Len(w) = Length
        /\ \A r \in Radix!Ranks : \A i \in 1 .. Radix!Size(r) : w[Radix!Start(r) + i] = x[r][i]
    BY <1>2, <2>1, BlocksMakeWhole
  <2>. QED
    BY <2>2 DEF x, w
<1>10. ASSUME NEW g \in Positions PROVE Radix!Whole'[NewPlace(g)] = Radix!Whole[g]
  <2>1. NewPlace(g) \in 1 .. Length
    BY <1>1, NewPlaces DEF Positions
  <2>2. PICK r \in Radix!Ranks : \E i \in 1 .. Radix!Size(r) : NewPlace(g) = Radix!Start(r) + i
    BY <1>2, <2>1, BlockOf
  <2>3. PICK i \in 1 .. Radix!Size(r) : NewPlace(g) = Radix!Start(r) + i
    BY <2>2
  <2>4. /\ Radix!Start(r) \in Nat /\ Radix!Size(r) \in Nat
        /\ Radix!Start(r + 1) = Radix!Start(r) + Radix!Size(r)
    BY BlockBounds
  <2>5. InBlock(NewPlace(g), r) /\ NewPlace(g) - Radix!Start(r) = i
    BY <2>3, <2>4 DEF InBlock
  <2>6. g \in GoesTo(r)
    BY <2>5 DEF GoesTo
  <2>7. data'[r][i] = Radix!Whole[g]
    BY <1>4, <2>5, <2>6
  <2>8. Radix!Whole'[Radix!Start(r) + i] = data'[r][i]
    BY <1>9
  <2>. QED
    BY <2>3, <2>7, <2>8
<1>. QED
  BY <1>1, <1>3, <1>6, <1>7, <1>9, <1>10

(***************************************************************************)
(* The invariant                                                           *)
(***************************************************************************)
\* Every value is in the array as often as at the start.
SameValues ==
    \A v : Cardinality({i \in Positions : Radix!Whole[i] = v})
             = Cardinality({i \in Positions : input[i] = v})

\* After k passes the array is sorted by the last k digits.
SortedSoFar ==
    \A i, j \in Positions :
        i < j => Radix!Whole[i] % Radix!Weight[pass] <= Radix!Whole[j] % Radix!Weight[pass]

RadixInv == RadixTyped /\ Radix!BlocksKept /\ SameValues /\ SortedSoFar

LEMMA SameValuesStep ==
    ASSUME RadixInv, Radix!Pass
    PROVE SameValues'
<1>. USE DEF RadixInv
<1>1. /\ pass < Passes /\ input' = input /\ Positions' = Positions
      /\ \A g \in Positions : Radix!Whole'[NewPlace(g)] = Radix!Whole[g]
  BY PassMoves
<1>. SUFFICES ASSUME NEW v
              PROVE Cardinality({i \in Positions : Radix!Whole'[i] = v})
                      = Cardinality({i \in Positions : input[i] = v})
  <2>1. input' = input /\ Positions' = Positions
    BY <1>1
  <2>. QED
    BY <2>1, ZenonT(30) DEF SameValues
<1>. DEFINE S == {g \in Positions : Radix!Whole[g] = v}
            T == {x \in Positions : Radix!Whole'[x] = v}
            f == [g \in S |-> NewPlace(g)]
<1>2. IsFiniteSet(S)
  <2>1. S \subseteq Positions
    OBVIOUS
  <2>. HIDE DEF S
  <2>. QED
    BY <2>1, WholeIs, FS_Subset
<1>3. f \in [S -> T]
  BY <1>1, NewPlaces
<1>4. \A g, h \in S : f[g] = f[h] => g = h
  BY <1>1, NewPlaces
<1>5. ASSUME NEW x \in T PROVE \E g \in S : f[g] = x
  <2>1. PICK g \in Positions : NewPlace(g) = x
    BY <1>1, NewPlaces
  <2>2. g \in S
    BY <1>1, <2>1
  <2>. QED
    BY <2>1, <2>2
<1>6. Cardinality(T) = Cardinality(S)
  <2>. HIDE DEF S, T, f
  <2>. QED
    BY <1>2, <1>3, <1>4, <1>5, SameNumber
<1>7. Cardinality(S) = Cardinality({i \in Positions : input[i] = v})
  BY DEF SameValues
<1>. QED
  BY <1>6, <1>7

LEMMA SortedSoFarStep ==
    ASSUME RadixInv, Radix!Pass
    PROVE SortedSoFar'
<1>. USE DEF RadixInv
<1>1. /\ pass < Passes /\ pass' = pass + 1 /\ Positions' = Positions
      /\ \A g \in Positions : Radix!Whole'[NewPlace(g)] = Radix!Whole[g]
  BY PassMoves
<1>2. pass \in 0 .. Passes - 1 /\ pass \in 0 .. Passes
  BY <1>1, SmallModelsAssumption DEF RadixTyped
<1>. DEFINE w == Radix!Weight[pass]
            u == Radix!Weight[pass + 1]
<1>3. Radix!Weight'[pass'] = u
  BY <1>1 DEF Radix!Weight
<1>4. w \in Nat \ {0}
  BY <1>2, WeightIs
<1>5. ASSUME NEW g \in Positions
      PROVE /\ g \in Nat /\ DigitAt(g) \in Nat
            /\ Radix!Whole[g] % w \in 0 .. w - 1
            /\ Radix!Whole[g] % u = DigitAt(g) * w + (Radix!Whole[g] % w)
  <2>1. Radix!Whole[g] \in Nat /\ DigitAt(g) \in Nat /\ g \in Nat
    BY <1>1, DigitsAre DEF Positions
  <2>. QED
    BY <1>2, <2>1, OneDigitMore DEF DigitAt
<1>. HIDE DEF w, u
<1>6. ASSUME NEW x \in Positions, NEW y \in Positions, x < y
      PROVE Radix!Whole'[x] % u <= Radix!Whole'[y] % u
  <2>1. PICK g \in Positions : NewPlace(g) = x
    BY <1>1, NewPlaces
  <2>2. PICK h \in Positions : NewPlace(h) = y
    BY <1>1, NewPlaces
  <2>3. ~ (Keys[h] <= Keys[g])
    <3>1. ~ (NewPlace(h) <= NewPlace(g))
      BY <1>6, <2>1, <2>2 DEF Positions
    <3>. QED
      BY <1>1, <3>1, NewPlaces
  <2>. DEFINE a == Radix!Whole[g] % w
              b == Radix!Whole[h] % w
              c == DigitAt(g)
              d == DigitAt(h)
  <2>4. /\ c \in Nat /\ d \in Nat /\ a \in 0 .. w - 1 /\ b \in 0 .. w - 1 /\ g \in Nat /\ h \in Nat
        /\ Radix!Whole[g] % u = c * w + a /\ Radix!Whole[h] % u = d * w + b
    BY <1>5
  <2>5. c < d \/ (c = d /\ g < h)
    <3>1. ~ (d < c \/ (d = c /\ h <= g))
      BY <1>1, <2>3, KeyOrder
    <3>. HIDE DEF c, d
    <3>. QED
      BY <2>4, <3>1
  <2>6. c = d => a <= b
    BY <1>2, <2>5, <2>4 DEF SortedSoFar, w
  <2>. HIDE DEF a, b, c, d
  <2>7. c * w + a <= d * w + b
    <3>1. CASE c = d
      BY <1>4, <2>4, <2>6, <3>1
    <3>2. CASE c < d
      <4>1. (d - c) * w >= w
        BY <1>4, <2>4, <3>2
      <4>2. (d - c) * w = d * w - c * w /\ d * w \in Nat /\ c * w \in Nat
        BY <1>4, <2>4
      <4>. QED
        BY <1>4, <2>4, <4>1, <4>2
    <3>. QED
      BY <2>5, <3>1, <3>2
  <2>8. Radix!Whole'[x] = Radix!Whole[g] /\ Radix!Whole'[y] = Radix!Whole[h]
    BY <1>1, <2>1, <2>2
  <2>. QED
    BY <2>4, <2>7, <2>8
<1>. QED
  BY <1>1, <1>3, <1>6 DEF SortedSoFar

LEMMA RadixSame ==
    ASSUME RadixInv, UNCHANGED radix_vars
    PROVE RadixInv'
<1>1. radix_p' = radix_p /\ input' = input /\ data' = data /\ pass' = pass
  BY DEF radix_vars
<1>2. /\ Length' = Length /\ Positions' = Positions /\ Radix!Ranks' = Radix!Ranks
      /\ Radix!Weight' = Radix!Weight /\ Radix!Values' = Radix!Values
      /\ Radix!Whole' = Radix!Whole /\ \A r : Radix!Size(r)' = Radix!Size(r)
  BY <1>1 DEF Length, Positions, Radix!Ranks, Radix!Values, Radix!Weight, Radix!Size,
              Radix!n_global, Radix!Whole
<1>3. RadixTyped' /\ Radix!BlocksKept'
  BY <1>1, <1>2 DEF RadixInv, RadixTyped, Radix!BlocksKept
<1>4. SameValues' /\ SortedSoFar'
  BY <1>1, <1>2 DEF RadixInv, SameValues, SortedSoFar
<1>. QED
  BY <1>3, <1>4 DEF RadixInv

LEMMA RadixSteps == RadixInv /\ [Radix!Next]_(Radix!vars) => RadixInv'
<1>1. ASSUME RadixInv, Radix!Pass PROVE RadixInv'
  <2>1. RadixTyped' /\ Radix!BlocksKept'
    BY <1>1, PassMoves DEF RadixInv
  <2>. QED
    BY <1>1, <2>1, SameValuesStep, SortedSoFarStep DEF RadixInv
<1>2. UNCHANGED Radix!vars => UNCHANGED radix_vars
  BY DEF Radix!vars, radix_vars
<1>. QED
  BY <1>1, <1>2, RadixSame DEF Radix!Next

\* At the start the blocks make up the array of rank 0.
LEMMA RadixStarts ==
    ASSUME Radix!Init
    PROVE RadixInv /\ Radix!Whole = input
<1>1. /\ radix_p \in Nat \ {0} /\ pass = 0
      /\ data = [r \in Radix!Ranks |-> Radix!Scattered(input, r)]
      /\ input \in Radix!BoundedSeq(Radix!Values, MaxLength)
  BY DEF Radix!Init
<1>2. input \in Seq(Radix!Values) /\ Length \in Nat
  BY <1>1 DEF Radix!BoundedSeq, Radix!SeqOf, Length
<1>3. ASSUME NEW r \in Radix!Ranks
      PROVE /\ data[r] \in Seq(Radix!Values) /\ Len(data[r]) = Radix!Size(r)
            /\ \A i \in 1 .. Radix!Size(r) : data[r][i] = input[Radix!Start(r) + i]
  <2>. DEFINE a == Radix!Start(r)
              n == Radix!Size(r)
  <2>1. a \in Nat /\ n \in Nat /\ a + n <= Len(input)
    <3>1. r \in Nat /\ r \in 0 .. radix_p /\ r + 1 \in 0 .. radix_p /\ r + 1 <= radix_p
          /\ radix_p \in 0 .. radix_p
      BY <1>1 DEF Radix!Ranks
    <3>2. Radix!Start(r + 1) <= Radix!Start(radix_p)
      BY <1>1, <1>2, <3>1, StartGrows
    <3>. QED
      BY <1>1, <1>2, <3>1, <3>2, PartitionIs DEF Length
  <2>2. data[r] = SubSeq(input, a + 1, a + n)
    BY <1>1 DEF Radix!Scattered
  <2>. HIDE DEF a, n
  <2>3. /\ SubSeq(input, a + 1, a + n) \in Seq(Radix!Values)
        /\ Len(SubSeq(input, a + 1, a + n)) = n
        /\ \A i \in 1 .. n : SubSeq(input, a + 1, a + n)[i] = input[a + i]
    BY <1>2, <2>1
  <2>. QED
    BY <2>2, <2>3 DEF a, n
<1>4. RadixTyped
  <2>1. data \in [Radix!Ranks -> Seq(Radix!Values)]
    <3>1. data = [r \in Radix!Ranks |-> data[r]]
      BY <1>1
    <3>. QED
      BY <1>3, <3>1
  <2>. QED
    BY <1>1, <1>2, <2>1, SmallModelsAssumption DEF RadixTyped
<1>5. Radix!BlocksKept
  BY <1>3 DEF Radix!BlocksKept
<1>6. Radix!Whole = input
  <2>1. Radix!Whole \in Seq(Radix!Values) /\ Len(Radix!Whole) = Len(input)
    BY <1>4, <1>5, WholeIs DEF Length
  <2>2. ASSUME NEW x \in 1 .. Length PROVE Radix!Whole[x] = input[x]
    <3>1. PICK r \in Radix!Ranks : \E i \in 1 .. Radix!Size(r) : x = Radix!Start(r) + i
      BY <1>1, <1>2, BlockOf
    <3>. QED
      BY <1>3, <1>4, <1>5, <3>1, WholeIs
  <2>. QED
    BY <1>2, <2>1, <2>2, SeqEqual DEF Length
<1>7. SortedSoFar
  <2>1. ASSUME NEW i \in Positions PROVE input[i] % Radix!Weight[pass] = 0
    <3>1. input[i] \in Radix!Values
      BY <1>2 DEF Positions, Length
    <3>2. input[i] \in Int /\ Radix!Weight[pass] = 1
      BY <1>1, <3>1, WeightIs DEF Radix!Values
    <3>3. PICK e \in Int, x \in 0 .. 1 - 1 : input[i] % 1 = x
      BY <3>2, Division
    <3>. QED
      BY <3>2, <3>3
  <2>. QED
    BY <1>6, <2>1 DEF SortedSoFar
<1>8. SameValues
  BY <1>6 DEF SameValues
<1>. QED
  BY <1>4, <1>5, <1>6, <1>7, <1>8 DEF RadixInv

(***************************************************************************)
(* What the program says of its array                                      *)
(***************************************************************************)
\* A sequence ascends if every element does not exceed the next.
LEMMA NextIsEnough ==
    ASSUME NEW s \in Seq(Nat), \A x \in 1 .. Len(s) - 1 : s[x] <= s[x + 1]
    PROVE Radix!Ascending(s)
<1>1. Len(s) \in Nat /\ DOMAIN s = 1 .. Len(s) /\ \A x \in 1 .. Len(s) : s[x] \in Nat
  BY ElementOfSeq
<1>. SUFFICES ASSUME NEW i \in 1 .. Len(s) PROVE \A j \in 1 .. Len(s) : i < j => s[i] <= s[j]
  BY <1>1 DEF Radix!Ascending
<1>. DEFINE wrong == {j \in 1 .. Len(s) : i < j /\ ~ (s[i] <= s[j])}
<1>. SUFFICES ASSUME wrong # {} PROVE FALSE
  OBVIOUS
<1>2. PICK j \in wrong : \A c \in wrong : j <= c
  <2>1. wrong \subseteq Nat
    BY <1>1
  <2>. HIDE DEF wrong
  <2>. QED
    BY <2>1, LeastNat
<1>3. /\ j \in 1 .. Len(s) /\ i < j /\ ~ (s[i] <= s[j])
      /\ j - 1 \in 1 .. Len(s) /\ j - 1 \in 1 .. Len(s) - 1 /\ ~ (j <= j - 1)
      /\ (j - 1) + 1 = j
  BY <1>1, <1>2
<1>4. s[i] <= s[j - 1]
  <2>1. j - 1 \notin wrong
    <3>. HIDE DEF wrong
    <3>. QED
      BY <1>2, <1>3
  <2>2. i < j - 1 \/ i = j - 1
    BY <1>3
  <2>3. i = j - 1 => s[i] <= s[j - 1]
    BY <1>1
  <2>. QED
    BY <1>3, <2>1, <2>2, <2>3
<1>5. s[j - 1] <= s[j]
  <2>1. s[j - 1] <= s[(j - 1) + 1]
    BY <1>3
  <2>. QED
    BY <1>3, <2>1
<1>6. s[i] \in Nat /\ s[j] \in Nat /\ s[j - 1] \in Nat
  BY <1>1, <1>3
<1>. QED
  BY <1>3, <1>4, <1>5, <1>6, SMTT(30)

LEMMA BlockElements ==
    ASSUME RadixTyped, Radix!BlocksKept, NEW r \in Radix!Ranks
    PROVE /\ data[r] \in Seq(Nat) /\ Len(data[r]) = Radix!Size(r) /\ Radix!Size(r) \in Nat
          /\ data[r] = << >> <=> Radix!Size(r) = 0
          /\ \A i \in 1 .. Radix!Size(r) : data[r][i] \in Nat
<1>1. /\ data[r] \in Seq(Radix!Values) /\ Len(data[r]) = Radix!Size(r) /\ Radix!Size(r) \in Nat
  BY BlockBounds DEF RadixTyped, Radix!BlocksKept
<1>2. Radix!Values \subseteq Nat
  BY DEF Radix!Values
<1>3. data[r] \in Seq(Nat)
  BY <1>1, <1>2, SeqMonotonic
<1>4. data[r] = << >> <=> Len(data[r]) = 0
  BY <1>3, EmptySeq
<1>. QED
  BY <1>1, <1>3, <1>4, ElementOfSeq

LEMMA VerdictIsRight ==
    ASSUME RadixTyped, Radix!BlocksKept
    PROVE Radix!VerdictRight
<1>. DEFINE w == Radix!Whole
            start(r) == Radix!Start(r)
            size(r) == Radix!Size(r)
<1>0. radix_p \in Nat \ {0} /\ Length \in Nat
  BY WholeIs
<1>1. /\ w \in Seq(Nat) /\ Len(w) = Length /\ DOMAIN w = 1 .. Length
      /\ \A x \in 1 .. Length : w[x] \in Nat
  <2>1. w \in Seq(Radix!Values) /\ Len(w) = Length
    BY WholeIs
  <2>2. Radix!Values \subseteq Nat
    BY DEF Radix!Values
  <2>. HIDE DEF w
  <2>3. w \in Seq(Nat)
    BY <2>1, <2>2, SeqMonotonic
  <2>. QED
    BY <2>1, <2>3, ElementOfSeq
<1>2. ASSUME NEW r \in Radix!Ranks
      PROVE /\ r \in Nat /\ start(r) \in Nat /\ size(r) \in Nat
            /\ start(r + 1) = start(r) + size(r) /\ start(r + 1) <= Length
            /\ Len(data[r]) = size(r) /\ (data[r] = << >> <=> size(r) = 0)
            /\ \A i \in 1 .. size(r) : /\ start(r) + i \in 1 .. Length
                                       /\ w[start(r) + i] = data[r][i] /\ data[r][i] \in Nat
  BY BlockBounds, BlockElements, WholeIs DEF Positions
<1>3. ASSUME NEW r \in Radix!Ranks, r > 0
      PROVE /\ r - 1 \in Radix!Ranks /\ (r - 1) + 1 = r /\ size(r) <= size(r - 1)
            /\ start(r) = start(r - 1) + size(r - 1)
  <2>1. r - 1 \in Radix!Ranks /\ (r - 1) + 1 = r /\ r \in Nat /\ r - 1 \in Nat
    BY <1>0, <1>3 DEF Radix!Ranks
  <2>2. size(r) <= size(r - 1)
    BY <1>0, <2>1, PartitionIs
  <2>3. start((r - 1) + 1) = start(r - 1) + size(r - 1)
    BY <1>2, <2>1
  <2>. QED
    BY <2>1, <2>2, <2>3
<1>4. ASSUME NEW r \in Radix!Ranks, r > 0, size(r) > 0
      PROVE Radix!BoundaryOk(r) <=> data[r - 1][size(r - 1)] <= data[r][1]
  <2>1. /\ r - 1 \in Radix!Ranks /\ size(r - 1) > 0 /\ size(r) \in Nat /\ size(r - 1) \in Nat
        /\ Len(data[r]) > 0 /\ data[r - 1] # << >> /\ Len(data[r - 1]) = size(r - 1)
        /\ data[r - 1][size(r - 1)] \in Nat /\ data[r][1] \in Nat
    <3>1. r - 1 \in Radix!Ranks /\ size(r) <= size(r - 1)
      BY <1>3, <1>4
    <3>2. /\ size(r) \in Nat /\ size(r - 1) \in Nat /\ Len(data[r]) = size(r)
          /\ (data[r - 1] = << >> <=> size(r - 1) = 0) /\ Len(data[r - 1]) = size(r - 1)
      BY <1>2, <3>1
    <3>3. size(r - 1) > 0 /\ size(r - 1) \in 1 .. size(r - 1) /\ 1 \in 1 .. size(r)
      <4>. HIDE DEF size
      <4>. QED
        BY <1>4, <3>1, <3>2
    <3>4. data[r - 1][size(r - 1)] \in Nat /\ data[r][1] \in Nat
      BY <1>2, <3>1, <3>3
    <3>. HIDE DEF size
    <3>. QED
      BY <1>4, <3>1, <3>2, <3>3, <3>4
  <2>2. Radix!BoundaryOk(r)
          <=> ~ (r > 0 /\ Len(data[r]) > 0 /\ data[r - 1][Len(data[r - 1])] > data[r][1])
    BY <2>1 DEF Radix!BoundaryOk
  <2>. HIDE DEF size
  <2>. QED
    BY <1>4, <2>1, <2>2
<1>. HIDE DEF start, size, w
<1>5. ASSUME Radix!SortedLocal, Radix!SortedBoundaries PROVE Radix!Ascending(w)
  <2>1. ASSUME NEW x \in 1 .. Len(w) - 1 PROVE w[x] <= w[x + 1]
    <3>1. x \in 1 .. Length /\ x + 1 \in 1 .. Length
      BY <1>0, <1>1
    <3>2. PICK r \in Radix!Ranks : \E i \in 1 .. size(r) : x = start(r) + i
      BY <1>0, <3>1, BlockOf DEF start, size
    <3>3. PICK i \in 1 .. size(r) : x = start(r) + i
      BY <3>2
    <3>4. w[x] = data[r][i]
      BY <1>2, <3>3
    <3>5. CASE i < size(r)
      <4>1. i + 1 \in 1 .. size(r) /\ i + 1 \in 2 .. Len(data[r]) /\ (i + 1) - 1 = i
            /\ start(r) + (i + 1) = x + 1
        BY <1>2, <3>3, <3>5
      <4>2. w[x + 1] = data[r][i + 1]
        BY <1>2, <4>1
      <4>3. ~ data[r][i] > data[r][i + 1]
        BY <1>5, <4>1 DEF Radix!SortedLocal
      <4>4. data[r][i] \in Nat /\ data[r][i + 1] \in Nat
        BY <1>2, <4>1
      <4>. QED
        BY <3>4, <4>2, <4>3, <4>4
    <3>6. CASE ~ (i < size(r))
      <4>1. i = size(r) /\ x = start(r + 1) /\ r + 1 \in Nat /\ r \in Nat
        BY <1>2, <3>3, <3>6
      <4>2. r + 1 \in Radix!Ranks
        <5>1. r + 1 = radix_p => start(r + 1) = Length
          BY <1>0, PartitionIs DEF start
        <5>2. r + 1 # radix_p
          BY <1>0, <3>1, <4>1, <5>1
        <5>. QED
          BY <1>0, <5>2 DEF Radix!Ranks
      <4>. DEFINE q == r + 1
      <4>3. q \in Radix!Ranks /\ q > 0 /\ q - 1 = r /\ x = start(q)
        BY <4>1, <4>2
      <4>. HIDE DEF q
      <4>4. size(q) > 0
        <5>1. PICK b \in Radix!Ranks : \E j \in 1 .. size(b) : x + 1 = start(b) + j
          BY <1>0, <3>1, BlockOf DEF start, size
        <5>2. PICK j \in 1 .. size(b) : x + 1 = start(b) + j
          BY <5>1
        <5>3. /\ b \in Nat /\ start(b) \in Nat /\ size(b) \in Nat /\ start(b + 1) = start(b) + size(b)
              /\ q \in Nat /\ size(q) \in Nat /\ start(q) \in Nat /\ start(b + 1) \in Nat
          <6>1. /\ b \in Nat /\ start(b) \in Nat /\ size(b) \in Nat
                /\ start(b + 1) = start(b) + size(b)
            BY <1>2
          <6>2. q \in Nat /\ size(q) \in Nat /\ start(q) \in Nat
            BY <1>2, <4>3
          <6>3. start(b + 1) \in Nat
            BY <6>1
          <6>. QED
            BY <6>1, <6>2, <6>3
        <5>4. ~ (b < q)
          <6>1. b < q => start(b + 1) <= start(q)
            <7>1. b + 1 \in 0 .. radix_p /\ q \in 0 .. radix_p
              BY <1>0, <4>3 DEF Radix!Ranks
            <7>2. b < q => b + 1 <= q
              BY <5>3
            <7>. QED
              BY <1>0, <7>1, <7>2, StartGrows DEF start
          <6>. QED
            BY <4>3, <5>2, <5>3, <6>1
        <5>5. size(b) <= size(q)
          BY <1>0, <5>3, <5>4, PartitionIs DEF size
        <5>. QED
          BY <5>2, <5>3, <5>5
      <4>5. data[r][size(r)] <= data[q][1]
        <5>1. Radix!BoundaryOk(q)
          BY <1>5, <4>3 DEF Radix!SortedBoundaries
        <5>2. data[q - 1][size(q - 1)] <= data[q][1]
          BY <1>4, <4>3, <4>4, <5>1
        <5>. QED
          BY <4>3, <5>2
      <4>6. w[x + 1] = data[q][1]
        <5>1. 1 \in 1 .. size(q)
          BY <1>2, <4>3, <4>4
        <5>2. w[start(q) + 1] = data[q][1]
          BY <1>2, <4>3, <5>1
        <5>. QED
          BY <4>3, <5>2
      <4>. QED
        BY <3>4, <4>1, <4>5, <4>6
    <3>. QED
      BY <3>5, <3>6
  <2>. QED
    BY <1>1, <2>1, NextIsEnough
<1>6. ASSUME Radix!Ascending(w) PROVE Radix!SortedLocal /\ Radix!SortedBoundaries
  <2>0. \A x, y \in 1 .. Length : x < y => w[x] <= w[y]
    BY <1>1, <1>6 DEF Radix!Ascending
  <2>1. ASSUME NEW r \in Radix!Ranks, NEW i \in 2 .. Len(data[r])
        PROVE ~ data[r][i - 1] > data[r][i]
    <3>1. i \in 1 .. size(r) /\ i - 1 \in 1 .. size(r) /\ start(r) + (i - 1) < start(r) + i
      BY <1>2
    <3>2. /\ start(r) + i \in 1 .. Length /\ w[start(r) + i] = data[r][i] /\ data[r][i] \in Nat
          /\ start(r) + (i - 1) \in 1 .. Length /\ w[start(r) + (i - 1)] = data[r][i - 1]
          /\ data[r][i - 1] \in Nat
      BY <1>2, <3>1
    <3>3. data[r][i - 1] <= data[r][i]
      BY <2>0, <3>1, <3>2
    <3>. QED
      BY <3>2, <3>3
  <2>2. ASSUME NEW r \in Radix!Ranks PROVE Radix!BoundaryOk(r)
    <3>1. CASE ~ (r > 0 /\ size(r) > 0)
      <4>1. ~ (r > 0 /\ Len(data[r]) > 0)
        BY <1>2, <3>1
      <4>. QED
        BY <4>1 DEF Radix!BoundaryOk
    <3>2. CASE r > 0 /\ size(r) > 0
      <4>1. r - 1 \in Radix!Ranks /\ size(r) <= size(r - 1) /\ start(r) = start(r - 1) + size(r - 1)
        BY <1>3, <3>2
      <4>2. /\ size(r) \in Nat /\ size(r - 1) \in Nat /\ start(r) \in Nat /\ start(r - 1) \in Nat
        BY <1>2, <4>1
      <4>3. 1 \in 1 .. size(r) /\ size(r - 1) \in 1 .. size(r - 1)
            /\ start(r - 1) + size(r - 1) < start(r) + 1
        BY <3>2, <4>1, <4>2
      <4>4. /\ start(r) + 1 \in 1 .. Length /\ w[start(r) + 1] = data[r][1]
        BY <1>2, <4>3
      <4>5. /\ start(r - 1) + size(r - 1) \in 1 .. Length
            /\ w[start(r - 1) + size(r - 1)] = data[r - 1][size(r - 1)]
        BY <1>2, <4>1, <4>3
      <4>6. data[r - 1][size(r - 1)] <= data[r][1]
        BY <2>0, <4>3, <4>4, <4>5
      <4>. QED
        BY <1>4, <3>2, <4>6
    <3>. QED
      BY <3>1, <3>2
  <2>. QED
    BY <2>1, <2>2 DEF Radix!SortedLocal, Radix!SortedBoundaries
<1>. QED
  BY <1>5, <1>6 DEF Radix!VerdictRight, w

\* The array is sorted once all digits have been.
LEMMA SortedInTheEnd ==
    ASSUME RadixInv
    PROVE Radix!Sorted
<1>. USE DEF RadixInv
<1>1. /\ Radix!Whole \in Seq(Radix!Values) /\ DOMAIN Radix!Whole = Positions
      /\ DOMAIN input = Positions
  <2>1. /\ Radix!Whole \in Seq(Radix!Values) /\ Len(Radix!Whole) = Length
        /\ input \in Seq(Radix!Values)
    BY WholeIs DEF RadixTyped
  <2>. QED
    BY <2>1 DEF Positions, Length
<1>2. ASSUME NEW v \in Radix!Values PROVE v \in Nat /\ v % Radix!Weight[Passes] = v
  <2>1. Radix!Weight[Passes] \in Nat \ {0} /\ v \in 0 .. Radix!Weight[Passes] - 1
    BY SmallModelsAssumption, WeightIs DEF Radix!Values
  <2>. DEFINE d == Radix!Weight[Passes]
  <2>. HIDE DEF d
  <2>2. d \in Nat \ {0} /\ v \in 0 .. d - 1
    BY <2>1 DEF d
  <2>3. PICK e \in Int, r \in 0 .. d - 1 : v % d = r /\ v = d * e + r
    BY <2>2, Division
  <2>4. ~ (e >= 1)
    <3>1. e >= 1 => d * e >= d
      BY <2>2
    <3>. QED
      BY <2>2, <2>3, <3>1
  <2>5. ~ (e <= -1)
    <3>1. - e >= 1 => d * (- e) >= d
      BY <2>2
    <3>2. d * (- e) = - (d * e) /\ d * e \in Int
      BY <2>2
    <3>. QED
      BY <2>2, <2>3, <3>1, <3>2
  <2>6. e = 0
    BY <2>4, <2>5
  <2>. QED
    BY <2>2, <2>3, <2>6 DEF d
<1>3. ASSUME pass = Passes PROVE Radix!Ascending(Radix!Whole)
  <2>1. ASSUME NEW i \in Positions, NEW j \in Positions, i < j
        PROVE Radix!Whole[i] <= Radix!Whole[j]
    <3>1. Radix!Whole[i] \in Radix!Values /\ Radix!Whole[j] \in Radix!Values
      BY <1>1
    <3>2. Radix!Whole[i] % Radix!Weight[Passes] <= Radix!Whole[j] % Radix!Weight[Passes]
      BY <1>3, <2>1 DEF SortedSoFar
    <3>. QED
      BY <1>2, <3>1, <3>2
  <2>. QED
    BY <1>1, <2>1 DEF Radix!Ascending
<1>4. ASSUME NEW v
      PROVE Radix!Cardinality({i \in DOMAIN Radix!Whole : Radix!Whole[i] = v})
              = Radix!Cardinality({i \in DOMAIN input : input[i] = v})
  BY <1>1, RadixCardinality DEF SameValues
<1>. QED
  BY <1>3, <1>4 DEF Radix!Sorted

\* The parallel radix sort, for any array, any number of ranks and any digits: after the
\* last pass the array is sorted and has the values it had, the blocks keep their sizes in
\* every pass, and the program says "yes" of an array if and only if it is sorted
\* (RadixParallel.c).
THEOREM RadixCorrect == Spec => []RadixRight
<1>1. Init => RadixInv
  BY RadixStarts DEF Init
<1>2. RadixInv /\ [Next]_vars => RadixInv'
  BY RadixSteps, EachByItself
<1>3. RadixInv => RadixRight
  BY SortedInTheEnd, VerdictIsRight DEF RadixInv, RadixRight, Radix!RadixRight
<1>. QED
  BY <1>1, <1>2, <1>3, PTL DEF Spec

(***************************************************************************)
(* A pass of the ranks is a pass of the serial program                     *)
(***************************************************************************)
LEMMA LsdDigit == \A v, k : Radix!Lsd!Digit(v, k) = Radix!Digit(v, k)
<1>1. Radix!Lsd!Weight = Radix!Weight
  BY DEF Radix!Lsd!Weight, Radix!Weight
<1>. QED
  BY <1>1 DEF Radix!Lsd!Digit, Radix!Digit

LEMMA PassSorts ==
    ASSUME RadixInv, Radix!Pass
    PROVE Radix!Lsd!SortByDigit
<1>. USE DEF RadixInv
<1>. DEFINE s == Radix!Whole
            t == Radix!Whole'
            Precedes(i, j) ==
                \/ Radix!Lsd!Digit(s[i], pass) < Radix!Lsd!Digit(s[j], pass)
                \/ Radix!Lsd!Digit(s[i], pass) = Radix!Lsd!Digit(s[j], pass) /\ i < j
            first(i) == {j \in DOMAIN s : Precedes(j, i)}
            chosen(m) == CHOOSE i \in DOMAIN s : Radix!Lsd!Cardinality(first(i)) = m - 1
            stable == [m \in DOMAIN s |-> s[chosen(m)]]
<1>1. /\ pass < Passes /\ pass' = pass + 1
      /\ t \in Seq(Radix!Values) /\ Len(t) = Length
      /\ \A g \in Positions : t[NewPlace(g)] = s[g]
  BY PassMoves
<1>2. DOMAIN s = Positions /\ DOMAIN t = Positions
  <2>1. s \in Seq(Radix!Values) /\ Len(s) = Length
    BY WholeIs
  <2>. HIDE DEF s, t
  <2>. QED
    BY <1>1, <2>1 DEF Positions
<1>3. Radix!Lsd!StableByDigit(s, pass) = stable
  <2>. HIDE DEF s
  <2>. QED
    BY DEF Radix!Lsd!StableByDigit
<1>4. ASSUME NEW g \in Positions
      PROVE Radix!Lsd!Cardinality(first(g)) = NewPlace(g) - 1
  <2>1. \A h \in Positions : Radix!Lsd!Digit(s[h], pass) = DigitAt(h)
    BY LsdDigit DEF DigitAt
  <2>2. \A h \in Positions : DigitAt(h) \in Nat /\ h \in Nat
    BY <1>1, DigitsAre DEF Positions
  <2>3. \A h \in Positions : Keys[h] <= Keys[g] <=> \/ DigitAt(h) < DigitAt(g)
                                                    \/ DigitAt(h) = DigitAt(g) /\ h <= g
    BY <1>1, KeyOrder
  <2>4. UpTo(Positions, Keys, g) = first(g) \union {g}
    <3>1. ASSUME NEW h \in Positions PROVE Keys[h] <= Keys[g] <=> Precedes(h, g) \/ h = g
      BY <2>1, <2>2, <2>3
    <3>2. first(g) = {h \in Positions : Precedes(h, g)}
      BY <1>2
    <3>. HIDE DEF first, Precedes
    <3>. QED
      BY <3>1, <3>2 DEF UpTo
  <2>5. g \notin first(g)
    <3>1. \A x \in Nat : ~ (x < x)
      OBVIOUS
    <3>2. Radix!Lsd!Digit(s[g], pass) \in Nat /\ g \in Nat
      BY <2>1, <2>2
    <3>3. ~ Precedes(g, g)
      BY <3>1, <3>2
    <3>. HIDE DEF Precedes
    <3>. QED
      BY <3>3
  <2>6. IsFiniteSet(first(g))
    <3>1. first(g) \subseteq Positions
      BY <1>2
    <3>. HIDE DEF first
    <3>. QED
      BY <3>1, WholeIs, FS_Subset
  <2>. HIDE DEF first
  <2>7. /\ Cardinality(first(g) \union {g}) = Cardinality(first(g)) + 1
        /\ Cardinality(first(g)) \in Nat
    BY <2>5, <2>6, FS_AddElement, FS_CardinalityType
  <2>. QED
    BY <2>4, <2>7, LsdCardinality DEF NewPlace
<1>. HIDE DEF first, s, t
<1>5. ASSUME NEW m \in Positions PROVE t[m] = s[chosen(m)]
  <2>1. PICK g \in Positions : NewPlace(g) = m
    BY <1>1, NewPlaces
  <2>2. \A h \in Positions : NewPlace(h) \in Int
    BY <1>1, NewPlaces DEF Positions
  <2>3. ASSUME NEW h \in Positions, Radix!Lsd!Cardinality(first(h)) = m - 1 PROVE h = g
    <3>1. NewPlace(h) = NewPlace(g)
      BY <1>4, <2>1, <2>2, <2>3
    <3>. QED
      BY <1>1, <3>1, NewPlaces
  <2>4. chosen(m) = g
    BY <1>2, <1>4, <2>1, <2>3
  <2>. HIDE DEF chosen
  <2>. QED
    BY <1>1, <2>1, <2>4
<1>6. t = stable
  <2>1. t = [m \in Positions |-> t[m]]
    BY <1>1, <1>2
  <2>. HIDE DEF chosen
  <2>. QED
    BY <1>2, <1>5, <2>1
<1>. QED
  BY <1>1, <1>3, <1>6 DEF Radix!Lsd!SortByDigit, s, t

\* Each pass of the ranks is one stable sort of the whole array by one digit, as the serial
\* program does it, for any number of ranks (RadixParallel.c:120-208, RadixSerial.c:61-68).
THEOREM RadixImplementsLsdSort == Spec => ImplementsLsdSort
<1>1. Init => RadixInv /\ Radix!Lsd!Init
  <2>1. Radix!Init => Radix!Lsd!Init
    BY RadixStarts DEF Radix!Init, Radix!Lsd!Init
  <2>. QED
    BY <2>1, RadixStarts DEF Init
<1>2. RadixInv /\ [Next]_vars => RadixInv'
  BY RadixSteps, EachByItself
<1>3. RadixInv /\ [Next]_vars => [Radix!Lsd!SortByDigit]_<<Radix!Whole, pass>>
  <2>1. Radix!Next => Radix!Pass
    BY DEF Radix!Next
  <2>2. UNCHANGED Radix!vars => UNCHANGED <<Radix!Whole, pass>>
    BY DEF Radix!vars, Radix!Whole
  <2>. QED
    BY <2>1, <2>2, PassSorts, EachByItself
<1>. QED
  BY <1>1, <1>2, <1>3, PTL DEF Spec, ImplementsLsdSort, Radix!ImplementsLsdSort, Radix!Lsd!Spec

=============================================================================

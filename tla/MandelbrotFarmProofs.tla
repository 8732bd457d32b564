------------------------ MODULE MandelbrotFarmProofs ------------------------
(***************************************************************************)
(* The theorems about MandelbrotFarm, for every number of processes and    *)
(* rows.  IInv is inductive; everything else follows from it.              *)
(***************************************************************************)
EXTENDS MandelbrotFarm, FiniteSetTheorems, TLAPS

IInv ==
    /\ TypeOK
    /\ OneRowEach
    /\ RowsApart
    /\ RowsAccounted
    /\ PendingCounts
    /\ Stages

(***************************************************************************)
(* Sequences of one message                                                *)
(***************************************************************************)
LEMMA OneMessage ==
    ASSUME NEW m
    PROVE  /\ Append(<< >>, m) = <<m>>
           /\ Head(<<m>>) = m
           /\ Tail(<<m>>) = << >>
           /\ <<m>> # << >>
           /\ Range(<<m>>) = {m}
           /\ Range(<< >>) = {}
BY DEF Range

LEMMA SameMessage ==
    ASSUME NEW m, NEW n, <<m>> = <<n>>
    PROVE  m = n
<1>1. Head(<<m>>) = m /\ Head(<<n>>) = n
  BY OneMessage
<1>. QED
  BY <1>1

LEMMA WorkersFinite == IsFiniteSet(Workers)
<1>1. 1 \in Int /\ NProcs - 1 \in Int
  BY FarmAssumption
<1>. QED
  BY <1>1, FS_Interval DEF Workers

(***************************************************************************)
(* A worker has one row, or was given nothing yet, or was told to stop     *)
(***************************************************************************)
LEMMA HoldsOne ==
    ASSUME NEW w, NEW r \in Rows, NEW s \in Rows, Holds(w, r), Holds(w, s)
    PROVE  r = s
<1>1. <<Work(r)>> # << >> /\ <<ResultOf(r)>> # << >>
  BY OneMessage
<1>2. <<Work(s)>> # << >> /\ <<ResultOf(s)>> # << >>
  BY OneMessage
<1>3. CASE inbox[w] # << >>
  <2>1. <<Work(r)>> = <<Work(s)>>
    BY <1>3 DEF Holds
  <2>. QED
    BY <2>1, SameMessage DEF Work
<1>4. CASE inbox[w] = << >> /\ results[w] # << >>
  <2>1. <<ResultOf(r)>> = <<ResultOf(s)>>
    BY <1>1, <1>2, <1>4 DEF Holds
  <2>2. ResultOf(r) = ResultOf(s)
    BY <2>1, SameMessage
  <2>. QED
    BY <2>2 DEF ResultOf
<1>5. CASE inbox[w] = << >> /\ results[w] = << >>
  BY <1>1, <1>2, <1>5 DEF Holds
<1>. QED
  BY <1>3, <1>4, <1>5

LEMMA HoldsNotGone ==
    ASSUME NEW w, NEW r \in Rows, Holds(w, r)
    PROVE  ~ Gone(w) /\ ~ Fresh(w)
<1>1. <<Work(r)>> # << >> /\ <<ResultOf(r)>> # << >> /\ <<Done>> # << >>
  BY OneMessage
<1>2. <<Work(r)>> # <<Done>>
  BY SameMessage DEF Work, Done
<1>. QED
  BY <1>1, <1>2 DEF Holds, Gone, Fresh

LEMMA RowsOfHolder ==
    ASSUME NEW w, NEW r \in Rows, Holds(w, r)
    PROVE  RowsOf(w) = {r}
<1>1. Work(r).tag = "TAG_WORK" /\ Work(r).row = r /\ ResultOf(r).row = r
  BY DEF Work, ResultOf
<1>2. CASE inbox[w] = <<Work(r)>> /\ worker[w] \in {"recv", "send"} /\ results[w] = << >>
  BY <1>1, <1>2, OneMessage DEF RowsOf, RowsIn
<1>3. CASE inbox[w] = << >> /\ worker[w] = "compute" /\ row[w] = r /\ results[w] = << >>
  BY <1>3, OneMessage DEF RowsOf, RowsIn
<1>4. CASE inbox[w] = << >> /\ worker[w] \in {"recv", "send"} /\ results[w] = <<ResultOf(r)>>
  BY <1>1, <1>4, OneMessage DEF RowsOf, RowsIn
<1>. QED
  BY <1>2, <1>3, <1>4 DEF Holds

LEMMA RowsOfOther ==
    ASSUME NEW w, Fresh(w) \/ Gone(w)
    PROVE  RowsOf(w) = {}
<1>1. Done.tag # "TAG_WORK"
  BY DEF Done
<1>2. CASE inbox[w] = <<Done>> /\ worker[w] \in {"recv", "send"} /\ results[w] = << >>
  BY <1>1, <1>2, OneMessage DEF RowsOf, RowsIn
<1>3. CASE inbox[w] = << >> /\ worker[w] # "compute" /\ results[w] = << >>
  BY <1>3, OneMessage DEF RowsOf, RowsIn
<1>. QED
  BY <1>2, <1>3 DEF Fresh, Gone

(***************************************************************************)
(* Types                                                                   *)
(***************************************************************************)
LEMMA TypeStep == TypeOK /\ OneRowEach /\ [Next]_vars => TypeOK'
<1>. SUFFICES ASSUME TypeOK, OneRowEach, [Next]_vars PROVE TypeOK'
  OBVIOUS
<1>. USE FarmAssumption
<1>0. \A r \in Rows : Work(r) \in Message /\ ResultOf(r) \in Result
  BY DEF Message, Result, ResultOf
<1>1. Done \in Message
  BY DEF Message
<1>2. ASSUME RowsLeft PROVE next_row \in Rows /\ next_row + 1 \in 0 .. height
  BY <1>2 DEF RowsLeft, TypeOK, Rows
<1>3. ASSUME NEW w \in Workers, Store(w)
      PROVE  /\ results' \in [Workers -> Seq(Result)]
             /\ image' \in [Rows -> Rows \union {NoRow}]
  <2>1. results[w] \in Seq(Result) /\ results[w] # << >>
    BY <1>3 DEF Store, TypeOK
  <2>2. Head(results[w]) \in Result /\ Tail(results[w]) \in Seq(Result)
    BY <2>1
  <2>. QED
    BY <1>3, <2>2 DEF Store, TypeOK, Result
<1>4. ASSUME NEW w \in Workers, NEW m \in Message, SendTo(w, m)
      PROVE  /\ inbox' \in [Workers -> Seq(Message)]
             /\ sendingTo' \in Workers \union {Nobody}
  BY <1>4 DEF SendTo, TypeOK
<1>5. CASE \E w \in Workers : Seed(w)
  BY <1>5, <1>0, <1>2, <1>4 DEF Seed, TypeOK, workerVars, Workers
<1>6. CASE \E w \in Workers : CollectAndSend(w)
  BY <1>6, <1>0, <1>2, <1>3, <1>4 DEF CollectAndSend, TypeOK, workerVars
<1>7. CASE \E w \in Workers : CollectAndRetire(w)
  <2>1. pending > 0
    BY <1>7 DEF CollectAndRetire, Store
  <2>2. pending - 1 \in Nat
    BY <2>1 DEF TypeOK
  <2>. QED
    BY <1>7, <1>1, <1>3, <1>4, <2>2 DEF CollectAndRetire, TypeOK, workerVars
<1>8. CASE SeedingOver \/ WriteImage \/ Finalize \/ MasterSent
  BY <1>8 DEF SeedingOver, WriteImage, Finalize, MasterSent, TypeOK, workerVars
<1>9. CASE \E w \in Workers : WorkerStep(w)
  <2>. PICK w \in Workers : WorkerStep(w)
    BY <1>9
  <2>1. CASE ReceiveRow(w)
    <3>1. inbox[w] \in Seq(Message) /\ inbox[w] # << >>
      BY <2>1 DEF ReceiveRow, TypeOK
    <3>2. Head(inbox[w]) \in Message /\ Tail(inbox[w]) \in Seq(Message)
      BY <3>1
    <3>3. Head(inbox[w]).row \in Rows \union {NoRow}
      BY <3>2 DEF Message, Work, Done
    <3>. QED
      BY <2>1, <3>2, <3>3 DEF ReceiveRow, TypeOK, masterVars
  <2>2. CASE Retire(w)
    <3>1. inbox[w] \in Seq(Message) /\ inbox[w] # << >>
      BY <2>2 DEF Retire, TypeOK
    <3>2. Tail(inbox[w]) \in Seq(Message)
      BY <3>1
    <3>. QED
      BY <2>2, <3>2 DEF Retire, TypeOK, masterVars
  <2>3. CASE Compute(w)
    <3>1. row[w] \in Rows
      BY <2>3 DEF Compute, OneRowEach, Holds, Gone, Fresh
    <3>. QED
      BY <2>3, <3>1, <1>0 DEF Compute, TypeOK, masterVars
  <2>4. CASE WorkerSent(w)
    BY <2>4 DEF WorkerSent, TypeOK, masterVars
  <2>. QED
    BY <2>1, <2>2, <2>3, <2>4 DEF WorkerStep
<1>10. CASE UNCHANGED vars
  BY <1>10 DEF vars, masterVars, workerVars, TypeOK
<1>. QED
  BY <1>5, <1>6, <1>7, <1>8, <1>9, <1>10 DEF Next, MasterStep

(***************************************************************************)
(* The steps that move a row, and those that do not                        *)
(***************************************************************************)

\* What the invariant says of the workers, apart from the types.
WorkersInv == OneRowEach /\ RowsApart /\ RowsAccounted /\ PendingCounts

\* A step that leaves every row where it is.
LEMMA QuietStep ==
    ASSUME WorkersInv,
           UNCHANGED <<height, next_row, pending, seeded, image>>,
           \A v \in Workers :
              /\ \A r \in Rows : Holds(v, r)' <=> Holds(v, r)
              /\ Fresh(v) => Fresh(v)'
              /\ Gone(v) => Gone(v)'
    PROVE  WorkersInv'
<1>1. OneRowEach'
  BY DEF WorkersInv, OneRowEach
<1>2. RowsApart'
  BY DEF WorkersInv, RowsApart
<1>3. RowsAccounted'
  BY DEF WorkersInv, RowsAccounted
<1>4. PendingCounts'
  <2>1. Busy' = Busy
    BY DEF Busy
  <2>. QED
    BY <2>1 DEF WorkersInv, PendingCounts
<1>. QED
  BY <1>1, <1>2, <1>3, <1>4 DEF WorkersInv

\* A worker whose messages and registers stay keeps its row.
LEMMA Bystander ==
    ASSUME NEW v, UNCHANGED <<inbox[v], worker[v], row[v], results[v]>>
    PROVE  /\ \A r \in Rows : Holds(v, r)' <=> Holds(v, r)
           /\ Fresh(v)' <=> Fresh(v)
           /\ Gone(v)' <=> Gone(v)
BY DEF Holds, Fresh, Gone

\* So do all of them when the master takes no message and sends none.
LEMMA NobodyMoves ==
    ASSUME WorkersInv,
           UNCHANGED <<height, next_row, pending, seeded, image>>,
           UNCHANGED <<inbox, worker, row, results>>
    PROVE  WorkersInv'
<1>1. \A v \in Workers :
        /\ \A r \in Rows : Holds(v, r)' <=> Holds(v, r)
        /\ Fresh(v) => Fresh(v)'
        /\ Gone(v) => Gone(v)'
  BY Bystander
<1>. QED
  BY <1>1, QuietStep

LEMMA WorkerStepEffect ==
    ASSUME TypeOK, WorkersInv, NEW w \in Workers, WorkerStep(w)
    PROVE  /\ UNCHANGED <<height, next_row, pending, seeded, image>>
           /\ \A v \in Workers :
                 /\ \A r \in Rows : Holds(v, r)' <=> Holds(v, r)
                 /\ Fresh(v) => Fresh(v)'
                 /\ Gone(v) => Gone(v)'
<1>. DEFINE Kept(v) ==
        /\ \A r \in Rows : Holds(v, r)' <=> Holds(v, r)
        /\ Fresh(v) => Fresh(v)'
        /\ Gone(v) => Gone(v)'
<1>0. UNCHANGED <<height, next_row, pending, seeded, image>>
  BY DEF WorkerStep, ReceiveRow, Retire, Compute, WorkerSent, masterVars
<1>1. ASSUME NEW v \in Workers, v # w PROVE Kept(v)
  <2>1. UNCHANGED <<inbox[v], worker[v], row[v], results[v]>>
    BY <1>1 DEF WorkerStep, ReceiveRow, Retire, Compute, WorkerSent, masterVars, TypeOK
  <2>. QED
    BY <2>1, Bystander
<1>2. Fresh(w) \/ Gone(w) \/ \E r \in Rows : Holds(w, r)
  BY DEF WorkersInv, OneRowEach
<1>3. \A r \in Rows : /\ Work(r).tag = "TAG_WORK" /\ Work(r).row = r
                      /\ Work(r) # Done
                      /\ ResultOf(r) \in Result
  BY DEF Work, Done, ResultOf, Result
<1>4. \A m : <<m>> # << >>
  BY OneMessage
<1>5. CASE ReceiveRow(w)
  <2>1. PICK r \in Rows : Holds(w, r)
    <3>1. Head(<<Done>>).tag = "TAG_DONE"
      BY OneMessage DEF Done
    <3>. QED
      BY <3>1, <1>2, <1>5 DEF ReceiveRow, Fresh, Gone
  <2>2. inbox[w] = <<Work(r)>> /\ results[w] = << >>
    BY <2>1, <1>5 DEF Holds, ReceiveRow
  <2>3. /\ inbox'[w] = << >>
        /\ row'[w] = r
        /\ worker'[w] = "compute"
        /\ results'[w] = << >>
    BY <2>2, <1>3, <1>5, OneMessage DEF ReceiveRow, TypeOK
  <2>4. Holds(w, r)'
    BY <2>3 DEF Holds
  <2>5. Kept(w)
    <3>1. \A s \in Rows : Holds(w, s)' <=> s = r
      BY <2>3, <2>4, <1>4 DEF Holds
    <3>2. \A s \in Rows : Holds(w, s) <=> s = r
      BY <2>1, HoldsOne
    <3>3. ~ Fresh(w) /\ ~ Gone(w)
      BY <2>1, HoldsNotGone
    <3>. QED
      BY <3>1, <3>2, <3>3
  <2>. QED
    BY <1>0, <1>1, <2>5
<1>6. CASE Retire(w)
  <2>1. ~ \E r \in Rows : Holds(w, r)
    <3>. SUFFICES ASSUME NEW r \in Rows, Holds(w, r) PROVE FALSE
      OBVIOUS
    <3>1. inbox[w] = <<Work(r)>>
      BY <1>6 DEF Retire, Holds
    <3>. QED
      BY <3>1, <1>3, <1>6, OneMessage DEF Retire
  <2>2. Gone(w) /\ ~ Fresh(w)
    BY <2>1, <1>2, <1>6 DEF Retire, Fresh
  <2>3. inbox[w] = <<Done>> /\ results[w] = << >>
    BY <2>2, <1>6 DEF Gone, Retire
  <2>4. inbox'[w] = << >> /\ worker'[w] = "exited" /\ results'[w] = << >>
    BY <2>3, <1>6, OneMessage DEF Retire, TypeOK
  <2>5. Gone(w)' /\ \A r \in Rows : ~ Holds(w, r)'
    BY <2>4, <1>4 DEF Gone, Holds
  <2>6. Kept(w)
    BY <2>1, <2>2, <2>5
  <2>. QED
    BY <1>0, <1>1, <2>6
<1>7. CASE Compute(w)
  <2>1. PICK r \in Rows : Holds(w, r)
    BY <1>2, <1>7 DEF Compute, Fresh, Gone
  <2>2. inbox[w] = << >> /\ row[w] = r /\ results[w] = << >>
    BY <2>1, <1>7 DEF Holds, Compute
  <2>3. /\ inbox'[w] = << >>
        /\ worker'[w] = "send"
        /\ results'[w] = <<ResultOf(r)>>
    BY <2>2, <1>7, OneMessage DEF Compute, TypeOK
  <2>4. Holds(w, r)'
    BY <2>3 DEF Holds
  <2>5. Kept(w)
    <3>1. \A s \in Rows : Holds(w, s)' => s = r
      <4>. TAKE s \in Rows
      <4>1. Holds(w, s)' => <<ResultOf(s)>> = <<ResultOf(r)>>
        BY <2>3, <1>4 DEF Holds, ResultOf
      <4>. QED
        BY <4>1, SameMessage DEF ResultOf
    <3>2. \A s \in Rows : Holds(w, s) <=> s = r
      BY <2>1, HoldsOne
    <3>3. ~ Fresh(w) /\ ~ Gone(w)
      BY <2>1, HoldsNotGone
    <3>. QED
      BY <2>4, <3>1, <3>2, <3>3
  <2>. QED
    BY <1>0, <1>1, <2>5
<1>8. CASE WorkerSent(w)
  <2>1. /\ worker[w] = "send" /\ worker'[w] = "recv"
        /\ UNCHANGED <<inbox[w], results[w], row[w]>>
    BY <1>8 DEF WorkerSent, TypeOK, masterVars
  <2>2. Kept(w)
    BY <2>1 DEF Holds, Fresh, Gone
  <2>. QED
    BY <1>0, <1>1, <2>2
<1>. QED
  BY <1>5, <1>6, <1>7, <1>8 DEF WorkerStep

LEMMA WorkerStepKeeps ==
    ASSUME TypeOK, WorkersInv, NEW w \in Workers, WorkerStep(w)
    PROVE  WorkersInv'
BY WorkerStepEffect, QuietStep

\* The next row goes to a worker that had none.
LEMMA SeedEffect ==
    ASSUME TypeOK, WorkersInv, Stages, NEW w \in Workers, Seed(w)
    PROVE  \E n \in Rows :
              /\ n = next_row /\ n < height /\ seeded \in Nat /\ w = seeded + 1 /\ n = seeded
              /\ UNCHANGED <<height, image>>
              /\ next_row' = n + 1 /\ seeded' = w /\ pending' = pending + 1
              /\ Fresh(w)
              /\ \A r \in Rows : Holds(w, r)' <=> r = n
              /\ \A v \in Workers : v # w =>
                    /\ \A r \in Rows : Holds(v, r)' <=> Holds(v, r)
                    /\ Fresh(v)' <=> Fresh(v)
                    /\ Gone(v)' <=> Gone(v)
<1>. PICK n : n = next_row
  OBVIOUS
<1>0. n \in Rows /\ n < height /\ seeded \in Nat /\ w = seeded + 1 /\ n = seeded
  BY FarmAssumption DEF Seed, RowsLeft, TypeOK, Rows, Stages
<1>1. /\ UNCHANGED <<height, image>>
      /\ next_row' = n + 1
      /\ seeded' = w
      /\ pending' = pending + 1
  BY DEF Seed
<1>2. Fresh(w)
  BY <1>0 DEF WorkersInv, OneRowEach, Workers
<1>3. /\ inbox'[w] = <<Work(n)>>
      /\ worker'[w] = "recv"
      /\ results'[w] = << >>
  BY <1>2, OneMessage DEF Seed, SendTo, Fresh, TypeOK, workerVars
<1>4. Holds(w, n)' /\ ~ \E r \in Rows : Holds(w, r)
  <2>1. Holds(w, n)'
    BY <1>3 DEF Holds
  <2>. QED
    BY <2>1, <1>2, HoldsNotGone
<1>5. \A r \in Rows : Holds(w, r)' <=> r = n
  <2>. SUFFICES ASSUME NEW r \in Rows, Holds(w, r)' PROVE r = n
    BY <1>4
  <2>1. <<Work(r)>> = <<Work(n)>>
    BY <1>3, OneMessage DEF Holds
  <2>. QED
    BY <2>1, SameMessage DEF Work
<1>6. \A v \in Workers : v # w =>
        /\ \A r \in Rows : Holds(v, r)' <=> Holds(v, r)
        /\ Fresh(v)' <=> Fresh(v)
        /\ Gone(v)' <=> Gone(v)
  <2>. SUFFICES ASSUME NEW v \in Workers, v # w
       PROVE UNCHANGED <<inbox[v], worker[v], row[v], results[v]>>
    BY Bystander
  <2>. QED
    BY DEF Seed, SendTo, TypeOK, workerVars
<1>. QED
  BY <1>0, <1>1, <1>2, <1>5, <1>6

LEMMA SeedKeeps ==
    ASSUME TypeOK, WorkersInv, Stages, NEW w \in Workers, Seed(w)
    PROVE  WorkersInv'
<1>0. PICK n \in Rows :
        /\ n = next_row /\ n < height /\ seeded \in Nat /\ w = seeded + 1 /\ n = seeded
        /\ UNCHANGED <<height, image>>
        /\ next_row' = n + 1 /\ seeded' = w /\ pending' = pending + 1
        /\ Fresh(w)
        /\ \A r \in Rows : Holds(w, r)' <=> r = n
        /\ \A v \in Workers : v # w =>
              /\ \A r \in Rows : Holds(v, r)' <=> Holds(v, r)
              /\ Fresh(v)' <=> Fresh(v)
              /\ Gone(v)' <=> Gone(v)
  BY SeedEffect
<1>4. Holds(w, n)' /\ ~ \E r \in Rows : Holds(w, r)
  BY <1>0, HoldsNotGone
<1>7. OneRowEach'
  <2>1. \A v \in Workers : Gone(v) => v > seeded
    BY <1>0, HoldsNotGone DEF WorkersInv, OneRowEach
  <2>2. ASSUME NEW v \in Workers, v <= seeded'
        PROVE  \E r \in Rows : Holds(v, r)'
    <3>1. CASE v = w
      BY <3>1, <1>0, <1>4
    <3>2. CASE v # w
      <4>1. v <= seeded
        BY <3>2, <2>2, <1>0 DEF Workers
      <4>2. \E r \in Rows : Holds(v, r)
        BY <4>1, <1>0, <2>2 DEF WorkersInv, OneRowEach
      <4>. QED
        BY <4>2, <3>2, <1>0
    <3>. QED
      BY <3>1, <3>2
  <2>3. ASSUME NEW v \in Workers, ~ (v <= seeded') PROVE Fresh(v)'
    <3>1. v # w /\ ~ (v <= seeded)
      BY <2>3, <1>0 DEF Workers
    <3>. QED
      BY <3>1, <1>0 DEF WorkersInv, OneRowEach
  <2>. QED
    BY <2>2, <2>3 DEF OneRowEach
<1>8. RowsApart'
  <2>. SUFFICES ASSUME NEW v \in Workers, NEW r \in Rows, Holds(v, r)'
       PROVE  /\ r < next_row' /\ image'[r] = NoRow
              /\ \A u \in Workers : Holds(u, r)' => u = v
    BY DEF RowsApart
  <2>0. image[n] = NoRow
    BY <1>0 DEF WorkersInv, RowsAccounted, Rows
  <2>1. CASE v = w
    <3>1. r = n
      BY <2>1, <1>0
    <3>2. \A u \in Workers : u # w => ~ Holds(u, n)'
      BY <1>0 DEF WorkersInv, RowsApart
    <3>. QED
      BY <2>0, <2>1, <3>1, <3>2, <1>0
  <2>2. CASE v # w
    <3>1. Holds(v, r) /\ r < n
      BY <2>2, <1>0 DEF WorkersInv, RowsApart
    <3>. QED
      BY <2>2, <3>1, <1>0 DEF WorkersInv, RowsApart, Rows
  <2>. QED
    BY <2>1, <2>2
<1>9. RowsAccounted'
  <2>. SUFFICES ASSUME NEW r \in Rows
       PROVE  \/ r >= next_row' /\ image'[r] = NoRow
              \/ r < next_row' /\ image'[r] = r
              \/ r < next_row' /\ image'[r] = NoRow /\ \E v \in Workers : Holds(v, r)'
    BY DEF RowsAccounted
  <2>1. CASE r = n
    BY <2>1, <1>0, <1>4 DEF WorkersInv, RowsAccounted, Rows
  <2>2. CASE r # n
    <3>1. \A v \in Workers : Holds(v, r) => Holds(v, r)'
      BY <1>4, <1>0
    <3>. QED
      BY <2>2, <3>1, <1>0 DEF WorkersInv, RowsAccounted, Rows
  <2>. QED
    BY <2>1, <2>2
<1>10. PendingCounts'
  <2>1. Busy' = Busy \union {w} /\ w \notin Busy
    BY <1>0, <1>4 DEF Busy
  <2>2. IsFiniteSet(Busy)
    BY WorkersFinite, FS_Subset DEF Busy
  <2>. QED
    BY <2>1, <2>2, <1>0, FS_AddElement DEF WorkersInv, PendingCounts
<1>. QED
  BY <1>7, <1>8, <1>9, <1>10 DEF WorkersInv

\* The result the master takes is that of the row its sender has.
LEMMA StoreFacts ==
    ASSUME TypeOK, WorkersInv, NEW w \in Workers, Store(w)
    PROVE  \E r \in Rows :
              /\ Holds(w, r)
              /\ inbox[w] = << >> /\ worker[w] \in {"recv", "send"}
              /\ results'[w] = << >>
              /\ image' = [image EXCEPT ![r] = r]
              /\ w <= seeded
<1>1. results[w] # << >>
  BY DEF Store
<1>2. w <= seeded
  BY <1>1 DEF WorkersInv, OneRowEach, Fresh
<1>3. PICK r \in Rows : Holds(w, r)
  BY <1>1, <1>2 DEF WorkersInv, OneRowEach, Gone
<1>4. /\ inbox[w] = << >> /\ worker[w] \in {"recv", "send"}
      /\ results[w] = <<ResultOf(r)>>
  BY <1>1, <1>3 DEF Holds
<1>5. /\ Head(results[w]).row = r /\ Head(results[w]).pixels = r
      /\ Tail(results[w]) = << >>
  BY <1>4, OneMessage DEF ResultOf
<1>6. results'[w] = << >> /\ image' = [image EXCEPT ![r] = r]
  BY <1>5 DEF Store, TypeOK
<1>. QED
  BY <1>2, <1>3, <1>4, <1>6

\* The sender's row is stored, and it gets the next.
LEMMA CollectAndSendEffect ==
    ASSUME TypeOK, WorkersInv, NEW w \in Workers, CollectAndSend(w)
    PROVE  \E n, r \in Rows :
              /\ n = next_row /\ n < height /\ height' = height /\ next_row' = n + 1
              /\ seeded' = seeded /\ pending' = pending /\ w <= seeded
              /\ r < n /\ image[r] = NoRow /\ image[n] = NoRow
              /\ \A s \in Rows : image'[s] = IF s = r THEN r ELSE image[s]
              /\ \A s \in Rows : Holds(w, s)' <=> s = n
              /\ \A s \in Rows : Holds(w, s) <=> s = r
              /\ \A v \in Workers : v # w =>
                    /\ \A s \in Rows : Holds(v, s)' <=> Holds(v, s)
                    /\ Fresh(v)' <=> Fresh(v)
                    /\ Gone(v)' <=> Gone(v)
<1>. PICK n : n = next_row
  OBVIOUS
<1>0. n \in Rows /\ n < height /\ height' = height /\ next_row' = n + 1
      /\ seeded' = seeded /\ pending' = pending
  BY FarmAssumption DEF CollectAndSend, RowsLeft, TypeOK, Rows
<1>1. Store(w)
  BY DEF CollectAndSend
<1>2. PICK r \in Rows :
        /\ Holds(w, r)
        /\ inbox[w] = << >> /\ worker[w] \in {"recv", "send"}
        /\ results'[w] = << >>
        /\ image' = [image EXCEPT ![r] = r]
        /\ w <= seeded
  BY <1>1, StoreFacts
<1>3. r < n /\ image[r] = NoRow /\ image[n] = NoRow
  BY <1>0, <1>2 DEF WorkersInv, RowsApart, RowsAccounted, Rows
<1>4. \A s \in Rows : image'[s] = IF s = r THEN r ELSE image[s]
  BY <1>2 DEF TypeOK
<1>5. /\ inbox'[w] = <<Work(n)>>
      /\ worker'[w] \in {"recv", "send"}
      /\ results'[w] = << >>
  BY <1>2, OneMessage DEF CollectAndSend, SendTo, TypeOK, workerVars
<1>6. \A s \in Rows : Holds(w, s)' <=> s = n
  <2>1. Holds(w, n)'
    BY <1>5 DEF Holds
  <2>. SUFFICES ASSUME NEW s \in Rows, Holds(w, s)' PROVE s = n
    BY <2>1
  <2>2. <<Work(s)>> = <<Work(n)>>
    BY <1>5, OneMessage DEF Holds
  <2>. QED
    BY <2>2, SameMessage DEF Work
<1>7. \A s \in Rows : Holds(w, s) <=> s = r
  BY <1>2, HoldsOne
<1>8. \A v \in Workers : v # w =>
        /\ \A s \in Rows : Holds(v, s)' <=> Holds(v, s)
        /\ Fresh(v)' <=> Fresh(v)
        /\ Gone(v)' <=> Gone(v)
  <2>. SUFFICES ASSUME NEW v \in Workers, v # w
       PROVE UNCHANGED <<inbox[v], worker[v], row[v], results[v]>>
    BY Bystander
  <2>. QED
    BY DEF CollectAndSend, Store, SendTo, TypeOK, workerVars
<1>. QED
  BY <1>0, <1>2, <1>3, <1>4, <1>6, <1>7, <1>8

LEMMA CollectAndSendKeeps ==
    ASSUME TypeOK, WorkersInv, NEW w \in Workers, CollectAndSend(w)
    PROVE  WorkersInv'
<1>0. PICK n, r \in Rows :
        /\ n = next_row /\ n < height /\ height' = height /\ next_row' = n + 1
        /\ seeded' = seeded /\ pending' = pending /\ w <= seeded
        /\ r < n /\ image[r] = NoRow /\ image[n] = NoRow
        /\ \A s \in Rows : image'[s] = IF s = r THEN r ELSE image[s]
        /\ \A s \in Rows : Holds(w, s)' <=> s = n
        /\ \A s \in Rows : Holds(w, s) <=> s = r
        /\ \A v \in Workers : v # w =>
              /\ \A s \in Rows : Holds(v, s)' <=> Holds(v, s)
              /\ Fresh(v)' <=> Fresh(v)
              /\ Gone(v)' <=> Gone(v)
  BY CollectAndSendEffect
<1>9. OneRowEach'
  <2>. SUFFICES ASSUME NEW v \in Workers
       PROVE IF v <= seeded
             THEN (\E s \in Rows : Holds(v, s)') \/ (Gone(v)' /\ next_row' = height)
             ELSE Fresh(v)'
    BY <1>0 DEF OneRowEach
  <2>1. CASE v = w
    BY <2>1, <1>0
  <2>2. CASE v # w
    <3>1. n # height
      BY <1>0 DEF TypeOK
    <3>. QED
      BY <2>2, <3>1, <1>0 DEF WorkersInv, OneRowEach
  <2>. QED
    BY <2>1, <2>2
<1>10. RowsApart'
  <2>. SUFFICES ASSUME NEW v \in Workers, NEW s \in Rows, Holds(v, s)'
       PROVE  /\ s < next_row' /\ image'[s] = NoRow
              /\ \A u \in Workers : Holds(u, s)' => u = v
    BY DEF RowsApart
  <2>1. CASE v = w
    <3>1. s = n
      BY <2>1, <1>0
    <3>2. \A u \in Workers : u # w => ~ Holds(u, n)'
      BY <1>0 DEF WorkersInv, RowsApart, Rows
    <3>. QED
      BY <2>1, <3>1, <3>2, <1>0 DEF Rows
  <2>2. CASE v # w
    <3>1. Holds(v, s) /\ s < n /\ image[s] = NoRow
      BY <2>2, <1>0 DEF WorkersInv, RowsApart
    <3>2. s # r
      BY <2>2, <3>1, <1>0 DEF WorkersInv, RowsApart
    <3>3. \A u \in Workers : Holds(u, s)' => u = v
      BY <2>2, <3>1, <1>0 DEF WorkersInv, RowsApart, Rows
    <3>. QED
      BY <3>1, <3>2, <3>3, <1>0 DEF Rows
  <2>. QED
    BY <2>1, <2>2
<1>11. RowsAccounted'
  <2>. SUFFICES ASSUME NEW s \in Rows
       PROVE  \/ s >= next_row' /\ image'[s] = NoRow
              \/ s < next_row' /\ image'[s] = s
              \/ s < next_row' /\ image'[s] = NoRow /\ \E v \in Workers : Holds(v, s)'
    BY DEF RowsAccounted
  <2>1. CASE s = n
    BY <2>1, <1>0 DEF Rows
  <2>2. CASE s = r
    BY <2>2, <1>0 DEF Rows
  <2>3. CASE s # n /\ s # r
    <3>1. \A v \in Workers : Holds(v, s) => Holds(v, s)'
      BY <2>3, <1>0
    <3>. QED
      BY <2>3, <3>1, <1>0 DEF WorkersInv, RowsAccounted, Rows
  <2>. QED
    BY <2>1, <2>2, <2>3
<1>12. PendingCounts'
  <2>1. Busy' = Busy
    BY <1>0 DEF Busy
  <2>. QED
    BY <2>1, <1>0 DEF WorkersInv, PendingCounts
<1>. QED
  BY <1>9, <1>10, <1>11, <1>12 DEF WorkersInv

\* The sender's row is stored, and it is told to stop.
LEMMA CollectAndRetireEffect ==
    ASSUME TypeOK, WorkersInv, NEW w \in Workers, CollectAndRetire(w)
    PROVE  \E r \in Rows :
              /\ UNCHANGED <<height, next_row, seeded>>
              /\ next_row = height /\ pending' = pending - 1 /\ w <= seeded
              /\ r < next_row
              /\ \A s \in Rows : image'[s] = IF s = r THEN r ELSE image[s]
              /\ Gone(w)' /\ \A s \in Rows : ~ Holds(w, s)'
              /\ \A s \in Rows : Holds(w, s) <=> s = r
              /\ \A v \in Workers : v # w =>
                    /\ \A s \in Rows : Holds(v, s)' <=> Holds(v, s)
                    /\ Fresh(v)' <=> Fresh(v)
                    /\ Gone(v)' <=> Gone(v)
<1>0. /\ UNCHANGED <<height, next_row, seeded>>
      /\ next_row = height /\ pending' = pending - 1
  BY DEF CollectAndRetire, RowsLeft, TypeOK
<1>1. Store(w)
  BY DEF CollectAndRetire
<1>2. PICK r \in Rows :
        /\ Holds(w, r)
        /\ inbox[w] = << >> /\ worker[w] \in {"recv", "send"}
        /\ results'[w] = << >>
        /\ image' = [image EXCEPT ![r] = r]
        /\ w <= seeded
  BY <1>1, StoreFacts
<1>3. r < next_row
  BY <1>2 DEF WorkersInv, RowsApart
<1>4. \A s \in Rows : image'[s] = IF s = r THEN r ELSE image[s]
  BY <1>2 DEF TypeOK
<1>5. /\ inbox'[w] = <<Done>>
      /\ worker'[w] \in {"recv", "send"}
      /\ results'[w] = << >>
  BY <1>2, OneMessage DEF CollectAndRetire, SendTo, TypeOK, workerVars
<1>6. Gone(w)' /\ \A s \in Rows : ~ Holds(w, s)'
  <2>1. Gone(w)'
    BY <1>5 DEF Gone
  <2>2. \A s \in Rows : <<Work(s)>> # <<Done>> /\ <<Done>> # << >>
    BY OneMessage, SameMessage DEF Work, Done
  <2>. QED
    BY <2>1, <2>2, <1>5 DEF Holds
<1>7. \A s \in Rows : Holds(w, s) <=> s = r
  BY <1>2, HoldsOne
<1>8. \A v \in Workers : v # w =>
        /\ \A s \in Rows : Holds(v, s)' <=> Holds(v, s)
        /\ Fresh(v)' <=> Fresh(v)
        /\ Gone(v)' <=> Gone(v)
  <2>. SUFFICES ASSUME NEW v \in Workers, v # w
       PROVE UNCHANGED <<inbox[v], worker[v], row[v], results[v]>>
    BY Bystander
  <2>. QED
    BY DEF CollectAndRetire, Store, SendTo, TypeOK, workerVars
<1>. QED
  BY <1>0, <1>2, <1>3, <1>4, <1>6, <1>7, <1>8

LEMMA CollectAndRetireKeeps ==
    ASSUME TypeOK, WorkersInv, NEW w \in Workers, CollectAndRetire(w)
    PROVE  WorkersInv'
<1>0. PICK r \in Rows :
        /\ UNCHANGED <<height, next_row, seeded>>
        /\ next_row = height /\ pending' = pending - 1 /\ w <= seeded
        /\ r < next_row
        /\ \A s \in Rows : image'[s] = IF s = r THEN r ELSE image[s]
        /\ Gone(w)' /\ \A s \in Rows : ~ Holds(w, s)'
        /\ \A s \in Rows : Holds(w, s) <=> s = r
        /\ \A v \in Workers : v # w =>
              /\ \A s \in Rows : Holds(v, s)' <=> Holds(v, s)
              /\ Fresh(v)' <=> Fresh(v)
              /\ Gone(v)' <=> Gone(v)
  BY CollectAndRetireEffect
<1>9. OneRowEach'
  <2>. SUFFICES ASSUME NEW v \in Workers
       PROVE IF v <= seeded
             THEN (\E s \in Rows : Holds(v, s)') \/ (Gone(v)' /\ next_row' = height')
             ELSE Fresh(v)'
    BY <1>0 DEF OneRowEach
  <2>1. CASE v = w
    BY <2>1, <1>0
  <2>2. CASE v # w
    BY <2>2, <1>0 DEF WorkersInv, OneRowEach
  <2>. QED
    BY <2>1, <2>2
<1>10. RowsApart'
  <2>. SUFFICES ASSUME NEW v \in Workers, NEW s \in Rows, Holds(v, s)'
       PROVE  /\ s < next_row' /\ image'[s] = NoRow
              /\ \A u \in Workers : Holds(u, s)' => u = v
    BY DEF RowsApart
  <2>1. v # w /\ Holds(v, s)
    BY <1>0
  <2>2. s # r
    BY <2>1, <1>0 DEF WorkersInv, RowsApart
  <2>3. \A u \in Workers : Holds(u, s)' => u = v
    BY <2>1, <1>0 DEF WorkersInv, RowsApart
  <2>. QED
    BY <2>1, <2>2, <2>3, <1>0 DEF WorkersInv, RowsApart
<1>11. RowsAccounted'
  <2>. SUFFICES ASSUME NEW s \in Rows
       PROVE  \/ s >= next_row' /\ image'[s] = NoRow
              \/ s < next_row' /\ image'[s] = s
              \/ s < next_row' /\ image'[s] = NoRow /\ \E v \in Workers : Holds(v, s)'
    BY DEF RowsAccounted
  <2>1. CASE s = r
    BY <2>1, <1>0
  <2>2. CASE s # r
    <3>1. \A v \in Workers : Holds(v, s) => Holds(v, s)'
      BY <2>2, <1>0
    <3>. QED
      BY <2>2, <3>1, <1>0 DEF WorkersInv, RowsAccounted
  <2>. QED
    BY <2>1, <2>2
<1>12. PendingCounts'
  <2>1. Busy' = Busy \ {w} /\ w \in Busy
    BY <1>0 DEF Busy
  <2>2. IsFiniteSet(Busy)
    BY WorkersFinite, FS_Subset DEF Busy
  <2>. QED
    BY <2>1, <2>2, <1>0, FS_RemoveElement DEF WorkersInv, PendingCounts
<1>. QED
  BY <1>9, <1>10, <1>11, <1>12 DEF WorkersInv

(***************************************************************************)
(* The invariant                                                           *)
(***************************************************************************)
LEMMA InvInit == Init => IInv
<1>. SUFFICES ASSUME Init PROVE IInv
  OBVIOUS
<1>. USE FarmAssumption
<1>1. TypeOK
  BY DEF Init, TypeOK
<1>2. \A w \in Workers : Fresh(w) /\ \A r \in Rows : ~ Holds(w, r)
  <2>. TAKE w \in Workers
  <2>1. Fresh(w)
    BY DEF Init, Fresh
  <2>. QED
    BY <2>1, HoldsNotGone
<1>3. OneRowEach
  BY <1>2 DEF Init, OneRowEach, Workers
<1>4. RowsApart
  BY <1>2 DEF RowsApart
<1>5. RowsAccounted
  BY DEF Init, RowsAccounted, Rows
<1>6. PendingCounts
  <2>1. Busy = {}
    BY <1>2 DEF Busy
  <2>. QED
    BY <2>1, FS_EmptySet DEF Init, PendingCounts
<1>7. Stages
  BY DEF Init, Stages
<1>. QED
  BY <1>1, <1>3, <1>4, <1>5, <1>6, <1>7 DEF IInv

LEMMA StagesStep == TypeOK /\ Stages /\ [Next]_vars => Stages'
<1>. SUFFICES ASSUME TypeOK, Stages, [Next]_vars PROVE Stages'
  OBVIOUS
<1>. USE FarmAssumption DEF TypeOK, Stages
<1>1. CASE \E w \in Workers : Seed(w)
  BY <1>1 DEF Seed, RowsLeft
<1>2. CASE \E w \in Workers : CollectAndSend(w) \/ CollectAndRetire(w)
  BY <1>2 DEF CollectAndSend, CollectAndRetire, Store
<1>3. CASE SeedingOver
  BY <1>3 DEF SeedingOver, RowsLeft
<1>4. CASE WriteImage \/ Finalize \/ MasterSent
  BY <1>4 DEF WriteImage, Finalize, MasterSent
<1>5. CASE \E w \in Workers : WorkerStep(w)
  BY <1>5 DEF WorkerStep, ReceiveRow, Retire, Compute, WorkerSent, masterVars
<1>6. CASE UNCHANGED vars
  BY <1>6 DEF vars, masterVars
<1>. QED
  BY <1>1, <1>2, <1>3, <1>4, <1>5, <1>6 DEF Next, MasterStep

LEMMA InvStep == IInv /\ [Next]_vars => IInv'
<1>. SUFFICES ASSUME IInv, [Next]_vars PROVE IInv'
  OBVIOUS
<1>. TypeOK /\ WorkersInv /\ Stages
  BY DEF IInv, WorkersInv
<1>1. TypeOK' /\ Stages'
  BY TypeStep, StagesStep DEF WorkersInv
<1>2. WorkersInv'
  <2>1. CASE \E w \in Workers : Seed(w)
    BY <2>1, SeedKeeps
  <2>2. CASE \E w \in Workers : CollectAndSend(w)
    BY <2>2, CollectAndSendKeeps
  <2>3. CASE \E w \in Workers : CollectAndRetire(w)
    BY <2>3, CollectAndRetireKeeps
  <2>4. CASE SeedingOver \/ WriteImage \/ Finalize \/ MasterSent
    BY <2>4, NobodyMoves DEF SeedingOver, WriteImage, Finalize, MasterSent, workerVars
  <2>5. CASE \E w \in Workers : WorkerStep(w)
    BY <2>5, WorkerStepKeeps
  <2>6. CASE UNCHANGED vars
    BY <2>6, NobodyMoves DEF vars, masterVars, workerVars
  <2>. QED
    BY <2>1, <2>2, <2>3, <2>4, <2>5, <2>6 DEF Next, MasterStep
<1>. QED
  BY <1>1, <1>2 DEF IInv, WorkersInv

LEMMA Invariant == Spec => []IInv
BY InvInit, InvStep, PTL DEF Spec

(***************************************************************************)
(* The theorems                                                            *)
(***************************************************************************)

\* Counters, messages and registers keep to their ranges: no row number beyond
\* the height is ever sent or stored.
THEOREM FarmTypeCorrect == Spec => []TypeOK
BY Invariant, PTL DEF IInv

\* No two processes ever wait for each other in MPI_Send.
THEOREM FarmSendsMeet == Spec => []NoMutualSend
<1>1. IInv => NoMutualSend
  <2>. SUFFICES ASSUME IInv, NEW w \in Workers, inbox[w] # << >>
       PROVE  results[w] = << >>
    BY DEF NoMutualSend
  <2>. QED
    BY DEF IInv, OneRowEach, Holds, Fresh, Gone
<1>. QED
  BY <1>1, Invariant, PTL

\* When the picture is to be written, nobody has a row and all rows were given.
LEMMA AllIn ==
    ASSUME IInv, master \in {"finalize", "ended"}
    PROVE  /\ Busy = {}
           /\ next_row = height
           /\ \A w \in Workers : w <= seeded => Gone(w)
           /\ \A w \in Workers : w <= seeded <=> w <= height
<1>. USE FarmAssumption
<1>1. Busy = {}
  <2>1. IsFiniteSet(Busy)
    BY WorkersFinite, FS_Subset DEF Busy
  <2>. QED
    BY <2>1, FS_EmptySet DEF IInv, PendingCounts, Stages
<1>2. \A w \in Workers : w <= seeded => Gone(w) /\ next_row = height
  BY <1>1 DEF IInv, OneRowEach, Busy
<1>3. 1 \in Workers /\ seeded >= 1
  BY DEF IInv, TypeOK, Stages, Workers
<1>4. \A w \in Workers : w <= seeded <=> w <= height
  BY DEF IInv, TypeOK, Stages, Workers
<1>. QED
  BY <1>1, <1>2, <1>3, <1>4

\* The picture is complete and every row in its place when it is written.
THEOREM FarmImageComplete == Spec => []ImageComplete
<1>1. IInv => ImageComplete
  <2>. SUFFICES ASSUME IInv, master \in {"finalize", "ended"}, NEW r \in 0 .. height - 1
       PROVE  image[r] = r
    BY DEF ImageComplete
  <2>1. r \in Rows /\ r < next_row
    BY AllIn, FarmAssumption DEF IInv, TypeOK, Rows
  <2>2. ~ \E w \in Workers : Holds(w, r)
    BY <2>1, AllIn DEF Busy
  <2>. QED
    BY <2>1, <2>2 DEF IInv, TypeOK, RowsAccounted, Rows
<1>. QED
  BY <1>1, Invariant, PTL

\* Exactly the workers that had a row are told to stop: with more workers than
\* rows the others wait for ever, and so does MPI_Finalize.
THEOREM FarmRetiredExactly == Spec => []RetiredExactly
<1>1. IInv => RetiredExactly
  <2>. SUFFICES ASSUME IInv, master \in {"finalize", "ended"}, NEW w \in Workers
       PROVE  Dismissed(w) <=> w <= height
    BY DEF RetiredExactly
  <2>1. CASE w <= height
    <3>1. Gone(w)
      BY <2>1, AllIn
    <3>. QED
      BY <2>1, <3>1, OneMessage DEF Gone, Dismissed
  <2>2. CASE ~ (w <= height)
    <3>1. Fresh(w)
      BY <2>2, AllIn DEF IInv, OneRowEach
    <3>. QED
      BY <2>2, <3>1, OneMessage DEF Fresh, Dismissed
  <2>. QED
    BY <2>1, <2>2
<1>. QED
  BY <1>1, Invariant, PTL

(***************************************************************************)
(* The task bag                                                            *)
(***************************************************************************)

\* The rows of a worker, read off its place.  It holds in every state, and so
\* in the second state of a step.
RowsFact ==
    \A w \in Workers :
        /\ \A r \in Rows : Holds(w, r) => RowsOf(w) = {r}
        /\ Fresh(w) \/ Gone(w) => RowsOf(w) = {}

LEMMA RowsFactHolds == RowsFact
BY RowsOfHolder, RowsOfOther DEF RowsFact

LEMMA RowsKept ==
    ASSUME RowsFact, RowsFact', OneRowEach, NEW v \in Workers,
           \A r \in Rows : Holds(v, r) => Holds(v, r)',
           Fresh(v) => Fresh(v)',
           Gone(v) => Gone(v)'
    PROVE  RowsOf(v)' = RowsOf(v)
<1>1. CASE \E r \in Rows : Holds(v, r)
  BY <1>1 DEF RowsFact
<1>2. CASE Fresh(v) \/ Gone(v)
  BY <1>2 DEF RowsFact
<1>. QED
  BY <1>1, <1>2 DEF OneRowEach

LEMMA BagInit == Init => Bag!Init
<1>. SUFFICES ASSUME Init PROVE Bag!Init
  OBVIOUS
<1>1. next_row .. height - 1 \in SUBSET Rows
  BY FarmAssumption DEF Init, Rows
<1>2. \A w \in Workers : RowsOf(w) = {}
  BY RowsOfOther DEF Init, Fresh
<1>3. Stored = {}
  BY DEF Init, Stored
<1>. QED
  BY <1>1, <1>2, <1>3 DEF Bag!Init

LEMMA BagStep ==
    ASSUME IInv, RowsFact, RowsFact', [Next]_vars
    PROVE  [Bag!Next]_<<next_row .. height - 1,
                        [w \in Workers |-> RowsOf(w)], Stored>>
<1>. DEFINE open  == next_row .. height - 1
            taken == [w \in Workers |-> RowsOf(w)]
<1>0. TypeOK /\ WorkersInv /\ Stages /\ OneRowEach
  BY DEF IInv, WorkersInv
<1>1. ASSUME NEW w \in Workers, Seed(w) PROVE Bag!Next
  <2>1. PICK n \in Rows :
        /\ n = next_row /\ n < height /\ seeded \in Nat /\ w = seeded + 1 /\ n = seeded
        /\ UNCHANGED <<height, image>>
        /\ next_row' = n + 1 /\ seeded' = w /\ pending' = pending + 1
        /\ Fresh(w)
        /\ \A r \in Rows : Holds(w, r)' <=> r = n
        /\ \A v \in Workers : v # w =>
              /\ \A r \in Rows : Holds(v, r)' <=> Holds(v, r)
              /\ Fresh(v)' <=> Fresh(v)
              /\ Gone(v)' <=> Gone(v)
    BY <1>0, <1>1, SeedEffect
  <2>2. n \in open /\ open' = open \ {n}
    BY <2>1, <1>0, FarmAssumption DEF TypeOK, Rows
  <2>3. RowsOf(w) = {} /\ RowsOf(w)' = {n}
    BY <2>1 DEF RowsFact
  <2>4. \A v \in Workers : v # w => RowsOf(v)' = RowsOf(v)
    BY <2>1, <1>0, RowsKept
  <2>5. taken[w] = {} /\ taken' = [taken EXCEPT ![w] = {n}]
    BY <2>3, <2>4
  <2>6. Stored' = Stored
    BY <2>1 DEF Stored
  <2>. QED
    BY <2>2, <2>5, <2>6 DEF Bag!Next, Bag!Take
<1>2. ASSUME NEW w \in Workers, CollectAndSend(w) PROVE Bag!Next
  <2>1. PICK n, r \in Rows :
        /\ n = next_row /\ n < height /\ height' = height /\ next_row' = n + 1
        /\ seeded' = seeded /\ pending' = pending /\ w <= seeded
        /\ r < n /\ image[r] = NoRow /\ image[n] = NoRow
        /\ \A s \in Rows : image'[s] = IF s = r THEN r ELSE image[s]
        /\ \A s \in Rows : Holds(w, s)' <=> s = n
        /\ \A s \in Rows : Holds(w, s) <=> s = r
        /\ \A v \in Workers : v # w =>
              /\ \A s \in Rows : Holds(v, s)' <=> Holds(v, s)
              /\ Fresh(v)' <=> Fresh(v)
              /\ Gone(v)' <=> Gone(v)
    BY <1>0, <1>2, CollectAndSendEffect
  <2>2. n \in open /\ open' = open \ {n}
    BY <2>1, <1>0, FarmAssumption DEF TypeOK, Rows
  <2>3. RowsOf(w) = {r} /\ RowsOf(w)' = {n}
    BY <2>1 DEF RowsFact
  <2>4. \A v \in Workers : v # w => RowsOf(v)' = RowsOf(v)
    BY <2>1, <1>0, RowsKept
  <2>5. taken[w] = {r} /\ taken' = [taken EXCEPT ![w] = {n}]
    BY <2>3, <2>4
  <2>6. Stored' = Stored \union {r}
    BY <2>1 DEF Stored, NoRow, Rows
  <2>. QED
    BY <2>2, <2>5, <2>6 DEF Bag!Next, Bag!RecordAndTake
<1>3. ASSUME NEW w \in Workers, CollectAndRetire(w) PROVE Bag!Next
  <2>1. PICK r \in Rows :
        /\ UNCHANGED <<height, next_row, seeded>>
        /\ next_row = height /\ pending' = pending - 1 /\ w <= seeded
        /\ r < next_row
        /\ \A s \in Rows : image'[s] = IF s = r THEN r ELSE image[s]
        /\ Gone(w)' /\ \A s \in Rows : ~ Holds(w, s)'
        /\ \A s \in Rows : Holds(w, s) <=> s = r
        /\ \A v \in Workers : v # w =>
              /\ \A s \in Rows : Holds(v, s)' <=> Holds(v, s)
              /\ Fresh(v)' <=> Fresh(v)
              /\ Gone(v)' <=> Gone(v)
    BY <1>0, <1>3, CollectAndRetireEffect
  <2>2. open' = open
    BY <2>1
  <2>3. RowsOf(w) = {r} /\ RowsOf(w)' = {}
    BY <2>1 DEF RowsFact
  <2>4. \A v \in Workers : v # w => RowsOf(v)' = RowsOf(v)
    BY <2>1, <1>0, RowsKept
  <2>5. taken[w] = {r} /\ taken' = [taken EXCEPT ![w] = {}]
    BY <2>3, <2>4
  <2>6. Stored' = Stored \union {r}
    BY <2>1 DEF Stored, NoRow, Rows
  <2>. QED
    BY <2>2, <2>5, <2>6 DEF Bag!Next, Bag!Record
<1>4. ASSUME NEW w \in Workers, WorkerStep(w)
      PROVE  UNCHANGED <<open, taken, Stored>>
  <2>1. /\ UNCHANGED <<height, next_row, image>>
        /\ \A v \in Workers :
              /\ \A r \in Rows : Holds(v, r)' <=> Holds(v, r)
              /\ Fresh(v) => Fresh(v)'
              /\ Gone(v) => Gone(v)'
    BY <1>0, <1>4, WorkerStepEffect
  <2>2. \A v \in Workers : RowsOf(v)' = RowsOf(v)
    BY <2>1, <1>0, RowsKept
  <2>. QED
    BY <2>1, <2>2 DEF Stored
<1>5. ASSUME UNCHANGED <<height, next_row, image, inbox, worker, row, results>>
      PROVE  UNCHANGED <<open, taken, Stored>>
  BY <1>5 DEF RowsOf, Stored
<1>6. CASE SeedingOver \/ WriteImage \/ Finalize \/ MasterSent \/ UNCHANGED vars
  BY <1>5, <1>6 DEF SeedingOver, WriteImage, Finalize, MasterSent, workerVars, masterVars, vars
<1>. QED
  BY <1>1, <1>2, <1>3, <1>4, <1>6 DEF Next, MasterStep

\* Each row is handed out, computed and stored once: the farm implements the
\* task bag.
THEOREM FarmImplementsTaskBag == Spec => ImplementsTaskBag
<1>1. Init => Bag!Init
  BY BagInit
<1>2. IInv /\ RowsFact /\ RowsFact' /\ [Next]_vars
        => [Bag!Next]_<<next_row .. height - 1,
                        [w \in Workers |-> RowsOf(w)], Stored>>
  BY BagStep
<1>3. RowsFact
  BY RowsFactHolds
<1>. QED
  BY <1>1, <1>2, <1>3, Invariant, PTL DEF Spec, ImplementsTaskBag, Bag!Spec
=============================================================================

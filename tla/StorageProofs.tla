--------------------------- MODULE StorageProofs ---------------------------
(***************************************************************************)
(* Theorems about Storage, for every size of disk, block, header and       *)
(* input.                                                                  *)
(*                                                                         *)
(* No block is lost, given out twice or shared (IInv); a command changes   *)
(* the rows of its own relation only (what a step leaves alone follows     *)
(* from IInv); the dictionary never tells of what is not there             *)
(* (DictionaryInv, beside IInv).                                           *)
(*                                                                         *)
(* Storage implements RelationStore: whatever happens to headers, buckets, *)
(* overflow blocks and scans, a relation is a set of rows with unique      *)
(* keys, which changes one row at a time (StoreInv).  On the same          *)
(* invariant rest the type invariant, that a row is turned down only by a  *)
(* relation or a disk that is full, and that what is made is described     *)
(* unless the dictionary or the disk is full.                              *)
(*                                                                         *)
(* The last half is about scans.  ScansInv says which rows of its source   *)
(* a scan has passed and what they call for; from it follow that nothing   *)
(* is kept twice, that the results are those of the relational algebra,    *)
(* and that a PR prints every row once.                                    *)
(***************************************************************************)
EXTENDS Storage, FiniteSetTheorems, SequenceTheorems, FunctionTheorems, TLAPS

\* The bucket of a row is its hash modulo the number of buckets.
HashInRange == \A key : Hash(key) \in 0 .. BLKMAX - 1

Kinds == {"data", "overflow"}

Size(kind) == IF kind = "data" THEN BLKMAX ELSE OVBLKMAX

IsHeader(h) ==
    /\ DOMAIN h = {"data", "overflow", "num"}
    /\ DOMAIN h.num = {"data", "overflow"}
    /\ h.data \in [1 .. BLKMAX -> Blocks] /\ h.overflow \in [1 .. OVBLKMAX -> Blocks]
    /\ h.num["data"] \in Int /\ h.num["overflow"] \in Int

HeaderBlock(n) == g_relations[n].header_block

Entry(n, kind, i) == headers[HeaderBlock(n)][kind][i]

Filled(n, kind) == {i \in 1 .. Size(kind) : Entry(n, kind, i) # 0}

IsSequence(f) == f \in Seq(Range(f))

BlocksTyped ==
    /\ bitmapblk \in [Blocks -> {0, 1}]
    /\ DOMAIN headers = Blocks /\ \A b \in Blocks : IsHeader(headers[b])
    /\ \A n \in DOMAIN g_relations : HeaderBlock(n) \in Blocks \ {0}

\* What BlocksOwnedOnce says, one kind of owner at a time.
Marked ==
    /\ bitmapblk[0] = 1
    /\ \A n \in DOMAIN g_relations : bitmapblk[HeaderBlock(n)] = 1
    /\ \A n \in DOMAIN g_relations, kind \in Kinds : \A i \in 1 .. Size(kind) :
           bitmapblk[Entry(n, kind, i)] = 1

NoneLost ==
    \A b \in Blocks \ {0} : bitmapblk[b] = 1 =>
        \/ \E n \in DOMAIN g_relations : HeaderBlock(n) = b
        \/ \E n \in DOMAIN g_relations, kind \in Kinds :
               \E i \in 1 .. Size(kind) : Entry(n, kind, i) = b

NoneShared ==
    /\ \A n, m \in DOMAIN g_relations : HeaderBlock(n) = HeaderBlock(m) => n = m
    /\ \A n, m \in DOMAIN g_relations, kind \in Kinds : \A i \in 1 .. Size(kind) :
           Entry(n, kind, i) # HeaderBlock(m)
    /\ \A n, m \in DOMAIN g_relations, k1, k2 \in Kinds :
           \A i \in 1 .. Size(k1), j \in 1 .. Size(k2) :
               Entry(n, k1, i) = Entry(m, k2, j) /\ Entry(n, k1, i) # 0
                   => n = m /\ k1 = k2 /\ i = j

\* A header counts its blocks right, so one that is not full has an entry left.
Counted ==
    \A n \in DOMAIN g_relations, kind \in Kinds :
        headers[HeaderBlock(n)].num[kind] = Cardinality(Filled(n, kind))

BlocksInv == BlocksTyped /\ Marked /\ NoneLost /\ NoneShared /\ Counted

Derivers == {"PJ", "SL", "UN", "DF", "NJ"}

\* A command that writes has a relation to write to.
TargetsExist ==
    /\ {"catalog", "columns"} \subseteq DOMAIN g_relations
    /\ \A n \in DOMAIN g_relations : IsSequence(AttrsOf(n))
    /\ IsSequence(pending)
    /\ \A i \in DOMAIN pending : pending[i].to \in {"catalog", "columns"}
    /\ pc = "lines" => Exists(command.p)
    /\ pc \in {"dictionary", "scan", "second", "join"} /\ command.verb \in Derivers
           => Exists(command.r)
    /\ pc = "join" => command.verb = "NJ"

DiskTyped ==
    /\ DOMAIN virtual_disk = Blocks
    /\ \A b \in Blocks : DOMAIN virtual_disk[b] = 1 .. BLKFAC

IInv == BlocksInv /\ TargetsExist /\ DiskTyped

(***************************************************************************)
(* Minima, headers and sequences                                           *)
(***************************************************************************)
LEMMA MinIsLeast ==
    ASSUME NEW S, S \subseteq Nat, S # {}
    PROVE Min(S) \in S /\ \A y \in S : Min(S) <= y
<1>. DEFINE R == OpToRel(<, Nat)
<1>1. PICK x \in S : \A y \in S : <<y, x>> \notin R
  <2>1. IsWellFoundedOn(R, Nat)
    BY NatLessThanWellFounded
  <2>. HIDE DEF R
  <2>. QED
    BY <2>1, WFMin
<1>2. R = {ss \in Nat \X Nat : ss[1] < ss[2]}
  BY Zenon DEF OpToRel
<1>. HIDE DEF R
<1>3. ASSUME NEW y \in S PROVE x <= y
  <2>1. y < x => <<y, x>> \in R
    BY <1>2
  <2>. QED
    BY <2>1, <1>1
<1>. QED
  BY <1>3 DEF Min

LEMMA HasGreatest ==
    ASSUME NEW k \in Nat, NEW S, S \subseteq 1 .. k, S # {}
    PROVE \E m \in S : \A i \in S : i <= m
<1>. DEFINE D == {k - i : i \in S}
<1>1. D \subseteq Nat /\ D # {}
  <2>1. \A i \in S : k - i \in Nat
    OBVIOUS
  <2>2. PICK i \in S : TRUE
    OBVIOUS
  <2>3. k - i \in D
    BY <2>2
  <2>. QED
    BY <2>1, <2>3
<1>2. Min(D) \in D /\ \A y \in D : Min(D) <= y
  BY <1>1, MinIsLeast
<1>3. PICK m \in S : Min(D) = k - m
  BY <1>2
<1>4. \A i \in S : k - m <= k - i
  BY <1>2, <1>3
<1>. QED
  BY <1>4

\* What is picked from a sequence are elements at the positions given.
LEMMA PickedFacts ==
    ASSUME NEW k \in Nat, NEW s, NEW P, P \subseteq 1 .. k
    PROVE Picked(s, P) \in Seq({s[i] : i \in P})
<1>. DEFINE c    == Cardinality(P)
            H(j) == {i \in P : Cardinality({l \in P : l <= i}) >= j}
<1>1. IsFiniteSet(P) /\ c \in Nat /\ (c = 0 <=> P = {})
  <2>1. IsFiniteSet(1 .. k)
    BY FS_Interval
  <2>2. IsFiniteSet(P)
    BY <2>1, FS_Subset
  <2>. QED
    BY <2>2, FS_CardinalityType, FS_EmptySet
<1>2. ASSUME NEW j \in 1 .. c PROVE Min(H(j)) \in P
  <2>1. P # {}
    BY <1>1
  <2>2. PICK m \in P : \A i \in P : i <= m
    BY <2>1, HasGreatest
  <2>3. {l \in P : l <= m} = P
    BY <2>2
  <2>4. m \in H(j)
    BY <1>1, <2>3
  <2>5. ASSUME NEW G, G = H(j) PROVE Min(G) \in P
    <3>1. G \subseteq P /\ m \in G
      BY <2>4, <2>5
    <3>2. G \subseteq Nat /\ G # {}
      BY <3>1
    <3>3. Min(G) \in G
      BY <3>2, MinIsLeast
    <3>. QED
      BY <3>1, <3>3
  <2>. QED
    BY <2>5
<1>3. Picked(s, P) = [j \in 1 .. c |-> s[Min(H(j))]]
  BY DEF Picked
<1>. HIDE DEF c, H
<1>4. Picked(s, P) \in [1 .. c -> {s[i] : i \in P}]
  BY <1>2, <1>3
<1>. QED
  BY <1>1, <1>4

LEMMA SlotOfPlace ==
    ASSUME NEW n \in Nat, NEW k \in 1 .. n * BLKFAC
    PROVE ((k - 1) \div BLKFAC) + 1 \in 1 .. n
<1>. DEFINE q == (k - 1) \div BLKFAC
<1>1. BLKFAC \in Nat /\ BLKFAC > 0 /\ k - 1 \in Nat /\ k - 1 < n * BLKFAC
  <2>1. BLKFAC \in Nat /\ BLKFAC > 0
    BY StorageAssumption
  <2>2. n * BLKFAC \in Nat
    BY <2>1
  <2>. QED
    BY <2>1, <2>2
<1>2. q \in Nat /\ q * BLKFAC <= k - 1
  BY <1>1
<1>. HIDE DEF q
<1>3. ASSUME q >= n PROVE FALSE
  <2>1. q - n \in Nat
    BY <1>2, <1>3
  <2>2. (q - n) * BLKFAC >= 0
    BY <1>1, <2>1
  <2>3. (q - n) * BLKFAC = q * BLKFAC - n * BLKFAC
    BY <1>1, <1>2
  <2>4. q * BLKFAC \in Int /\ n * BLKFAC \in Int
    BY <1>1, <1>2
  <2>. QED
    BY <1>1, <1>2, <2>2, <2>3, <2>4
<1>4. q + 1 \in 1 .. n
  BY <1>2, <1>3
<1>. QED
  BY <1>4 DEF q

LEMMA SizeIsNat == \A kind \in Kinds : Size(kind) \in Nat
BY StorageAssumption DEF Kinds, Size

LEMMA EntriesTyped ==
    ASSUME NEW h, IsHeader(h), NEW kind \in Kinds
    PROVE h[kind] \in [1 .. Size(kind) -> Blocks] /\ h.num[kind] \in Int
BY DEF IsHeader, Kinds, Size

LEMMA EntryTyped ==
    ASSUME BlocksTyped, NEW n \in DOMAIN g_relations, NEW kind \in Kinds
    PROVE /\ Header(n) = headers[HeaderBlock(n)]
          /\ Header(n)[kind] \in [1 .. Size(kind) -> Blocks]
          /\ \A i \in 1 .. Size(kind) : Entry(n, kind, i) \in Blocks
          /\ Header(n).num[kind] \in Int
<1>1. Header(n) = headers[HeaderBlock(n)] /\ IsHeader(Header(n))
  BY DEF BlocksTyped, Header, HeaderBlock
<1>2. Header(n)[kind] \in [1 .. Size(kind) -> Blocks] /\ Header(n).num[kind] \in Int
  BY <1>1, EntriesTyped
<1>. QED
  BY <1>1, <1>2 DEF Entry

LEMMA FilledFinite ==
    ASSUME NEW n, NEW kind \in Kinds
    PROVE IsFiniteSet(Filled(n, kind)) /\ Cardinality(Filled(n, kind)) \in Nat
<1>1. IsFiniteSet(1 .. Size(kind))
  BY SizeIsNat, FS_Interval
<1>2. Filled(n, kind) \subseteq 1 .. Size(kind)
  BY DEF Filled
<1>3. IsFiniteSet(Filled(n, kind))
  BY <1>1, <1>2, FS_Subset
<1>. QED
  BY <1>3, FS_CardinalityType

\* An entry is left as long as fewer than Size(kind) are filled.
LEMMA EntryLeft ==
    ASSUME NEW n, NEW kind \in Kinds, Cardinality(Filled(n, kind)) < Size(kind)
    PROVE \E i \in 1 .. Size(kind) : Entry(n, kind, i) = 0
<1>1. Size(kind) \in Nat
  BY SizeIsNat
<1>2. Cardinality(1 .. Size(kind)) = Size(kind)
  BY <1>1, FS_Interval
<1>3. Filled(n, kind) # 1 .. Size(kind)
  BY <1>1, <1>2
<1>. QED
  BY <1>3 DEF Filled

LEMMA FunctionIsSequence ==
    ASSUME NEW k \in Nat, NEW f, f = [i \in 1 .. k |-> f[i]]
    PROVE IsSequence(f)
<1>1. f \in [1 .. k -> Range(f)]
  BY DEF Range
<1>. QED
  BY <1>1 DEF IsSequence

LEMMA SequenceDomain ==
    ASSUME NEW f, IsSequence(f)
    PROVE Len(f) \in Nat /\ DOMAIN f = 1 .. Len(f)
BY LenProperties DEF IsSequence

(***************************************************************************)
(* What changes the bitmap and the headers                                 *)
(***************************************************************************)
NoBlockMoves == UNCHANGED <<bitmapblk, headers>>

\* A header after one of its entries has been filled.
Updated(h, kind, i, b) == [h EXCEPT ![kind][i] = b, !.num[kind] = @ + 1]

\* A free block goes to an entry of n that had none.
TakesBlock(n, kind, i, b) ==
    /\ b \in Blocks /\ bitmapblk[b] = 0
    /\ Entry(n, kind, i) = 0
    /\ bitmapblk' = [bitmapblk EXCEPT ![b] = 1]
    /\ headers' = [headers EXCEPT ![HeaderBlock(n)] = Updated(@, kind, i, b)]

IsEntry(n, b) == \E kind \in Kinds : \E i \in 1 .. Size(kind) : Entry(n, kind, i) = b

\* A row is written to a block of n, or to a block that was free.
WritesTo(n) ==
    \E b \in Blocks \ {0} :
        /\ bitmapblk[b] = 0 \/ IsEntry(n, b)
        /\ DiskTyped'
        /\ \A x \in Blocks \ {b} : virtual_disk'[x] = virtual_disk[x]

AppendEffect(n) ==
    /\ \/ NoBlockMoves
       \/ \E kind \in Kinds : \E i \in 1 .. Size(kind), b \in Blocks : TakesBlock(n, kind, i, b)
    /\ UNCHANGED virtual_disk \/ WritesTo(n)

\* The kinds of blocks in which a relation has rows.
BlockKinds(n) == IF g_relations[n].is_base THEN Kinds ELSE {"data"}

\* What appending a row to n comes to: nothing, a free slot of one of its blocks,
\* or a new block for it.
InsertEffect(n, row) ==
    \/ UNCHANGED storage
    \/ \E b \in RowBlocks(n) : \E s \in FreeSlots(b) : WriteTuple(b, s, row)
    \/ \E kind \in BlockKinds(n) : \E i \in 1 .. Size(kind) :
           /\ FreeBlocks # {} /\ Entry(n, kind, i) = 0
           /\ Grow(n, kind, i, row)

\* What writing a row to n comes to: nothing, a slot of a block that n has, or a
\* new block for it.
RowEffect(n, row) ==
    \/ UNCHANGED storage
    \/ \E b \in Blocks \ {0} : \E s : IsEntry(n, b) /\ WriteTuple(b, s, row)
    \/ \E kind \in Kinds : \E i \in 1 .. Size(kind) :
           /\ FreeBlocks # {} /\ Entry(n, kind, i) = 0
           /\ Grow(n, kind, i, row)

LEMMA FreeBlockIsFree ==
    ASSUME FreeBlocks # {}
    PROVE Min(FreeBlocks) \in Blocks /\ bitmapblk[Min(FreeBlocks)] = 0
<1>1. FreeBlocks \subseteq Nat
  BY StorageAssumption DEF FreeBlocks, Blocks
<1>2. Min(FreeBlocks) \in FreeBlocks
  BY <1>1, MinIsLeast
<1>. QED
  BY <1>2 DEF FreeBlocks

LEMMA RowBlockEntry ==
    ASSUME BlocksTyped, NEW n \in DOMAIN g_relations, NEW b
    PROVE b \in RowBlocks(n) <=>
              /\ b # 0
              /\ \E kind \in BlockKinds(n) : \E i \in 1 .. Size(kind) : Entry(n, kind, i) = b
<1>1. ASSUME NEW kind \in Kinds
      PROVE b \in Range(Header(n)[kind]) <=> \E i \in 1 .. Size(kind) : Entry(n, kind, i) = b
  <2>1. /\ Header(n)[kind] \in [1 .. Size(kind) -> Blocks]
        /\ \A i : Header(n)[kind][i] = Entry(n, kind, i)
    BY EntryTyped DEF Entry
  <2>. QED
    BY <2>1 DEF Range
<1>. QED
  BY <1>1 DEF RowBlocks, BlockKinds, Kinds

LEMMA RowBlockIsEntry ==
    ASSUME BlocksTyped, NEW n \in DOMAIN g_relations, NEW b \in RowBlocks(n)
    PROVE b \in Blocks \ {0} /\ IsEntry(n, b)
<1>1. PICK kind \in BlockKinds(n) : \E i \in 1 .. Size(kind) : Entry(n, kind, i) = b
  BY RowBlockEntry
<1>2. kind \in Kinds
  BY DEF BlockKinds, Kinds
<1>. QED
  BY <1>1, <1>2, RowBlockEntry, EntryTyped DEF IsEntry

LEMMA GrowEffect ==
    ASSUME NEW n, NEW kind \in BlockKinds(n), NEW i \in 1 .. Size(kind), NEW row,
           Entry(n, kind, i) = 0, Grow(n, kind, i, row)
    PROVE InsertEffect(n, row)
BY DEF Grow, InsertEffect

LEMMA WriteEffect ==
    ASSUME NEW n, NEW b \in Blocks \ {0}, IsEntry(n, b), NEW s, NEW row, WriteTuple(b, s, row)
    PROVE RowEffect(n, row)
BY DEF RowEffect

LEMMA StillEffect ==
    ASSUME NEW n, NEW row, UNCHANGED storage
    PROVE InsertEffect(n, row) /\ RowEffect(n, row)
BY DEF InsertEffect, RowEffect

\* A block with room that a header mentions.
LEMMA IntoEffect ==
    ASSUME BlocksTyped, NEW n \in DOMAIN g_relations, NEW kind \in BlockKinds(n),
           NEW i \in 1 .. Size(kind), NEW row,
           HasRoom(Header(n)[kind][i]), WriteInto(Header(n)[kind][i], row)
    PROVE InsertEffect(n, row)
<1>. DEFINE b == Header(n)[kind][i]
<1>1. b # 0 /\ b = Entry(n, kind, i)
  BY EntryTyped DEF HasRoom, Entry, BlockKinds, Kinds
<1>2. b \in RowBlocks(n)
  BY <1>1, RowBlockEntry
<1>3. FreeSlots(b) # {} /\ FreeSlots(b) \subseteq Nat
  BY StorageAssumption DEF HasRoom, FreeSlots
<1>4. Min(FreeSlots(b)) \in FreeSlots(b)
  BY <1>3, MinIsLeast
<1>. HIDE DEF b
<1>. QED
  BY <1>2, <1>4 DEF WriteInto, InsertEffect, b

LEMMA WithRoomEffect ==
    ASSUME BlocksTyped, NEW n \in DOMAIN g_relations, NEW kind \in BlockKinds(n), NEW row,
           WithRoom(n, kind) # {}, WriteInto(Header(n)[kind][Min(WithRoom(n, kind))], row)
    PROVE InsertEffect(n, row)
<1>. DEFINE i == Min(WithRoom(n, kind))
<1>1. kind \in Kinds
  BY DEF BlockKinds, Kinds
<1>2. Header(n)[kind] \in [1 .. Size(kind) -> Blocks]
  BY <1>1, EntryTyped
<1>3. WithRoom(n, kind) \subseteq 1 .. Size(kind)
  BY <1>2 DEF WithRoom
<1>4. i \in WithRoom(n, kind)
  BY <1>1, <1>3, SizeIsNat, MinIsLeast
<1>5. i \in 1 .. Size(kind) /\ HasRoom(Header(n)[kind][i])
  BY <1>3, <1>4 DEF WithRoom
<1>. HIDE DEF i
<1>. QED
  BY <1>5, IntoEffect DEF i

LEMMA GrowMissing ==
    ASSUME BlocksTyped, Counted, NEW n \in DOMAIN g_relations, NEW kind \in BlockKinds(n),
           Header(n).num[kind] < Size(kind), NEW row,
           Grow(n, kind, Min(Missing(n, kind)), row)
    PROVE InsertEffect(n, row)
<1>1. kind \in Kinds
  BY DEF BlockKinds, Kinds
<1>2. /\ Header(n)[kind] \in [1 .. Size(kind) -> Blocks]
      /\ Header(n) = headers[HeaderBlock(n)]
  BY <1>1, EntryTyped
<1>3. Missing(n, kind) = {i \in 1 .. Size(kind) : Entry(n, kind, i) = 0}
  BY <1>2 DEF Missing, Entry
<1>4. Cardinality(Filled(n, kind)) < Size(kind)
  BY <1>1, <1>2 DEF Counted
<1>5. Missing(n, kind) # {}
  BY <1>1, <1>3, <1>4, EntryLeft
<1>6. Missing(n, kind) \subseteq Nat
  BY <1>1, <1>3, SizeIsNat
<1>7. Min(Missing(n, kind)) \in Missing(n, kind)
  BY <1>5, <1>6, MinIsLeast
<1>. QED
  BY <1>3, <1>7, GrowEffect

LEMMA InsertBaseEffect ==
    ASSUME HashInRange, BlocksTyped, Counted, NEW n \in DOMAIN g_relations, NEW row,
           g_relations[n].is_base, InsertBase(n, row)
    PROVE InsertEffect(n, row)
<1>. DEFINE bucket == Hash(KeyOf(row, g_relations[n].keysize)) + 1
            home   == Header(n).data[bucket]
            spill  == WithRoom(n, "overflow")
<1>1. "data" \in BlockKinds(n) /\ "overflow" \in BlockKinds(n)
  BY DEF BlockKinds, Kinds
<1>2. bucket \in 1 .. Size("data") /\ home = Header(n)["data"][bucket]
  BY StorageAssumption DEF HashInRange, Size
<1>3. CASE home = 0 /\ Grow(n, "data", bucket, row)
  <2>1. Entry(n, "data", bucket) = 0
    BY <1>2, <1>3, EntryTyped DEF Kinds, Entry
  <2>. QED
    BY <1>1, <1>2, <1>3, <2>1, GrowEffect
<1>4. CASE HasRoom(home) /\ WriteInto(home, row)
  <2>. HIDE DEF bucket, home
  <2>. QED
    BY <1>1, <1>2, <1>4, IntoEffect
<1>5. CASE spill # {} /\ WriteInto(Header(n).overflow[Min(spill)], row)
  BY <1>1, <1>5, WithRoomEffect
<1>6. CASE /\ Header(n).num["overflow"] < OVBLKMAX
           /\ Grow(n, "overflow", Min(Missing(n, "overflow")), row)
  BY <1>1, <1>6, GrowMissing DEF Size
<1>7. CASE UNCHANGED storage
  BY <1>7, StillEffect
<1>. QED
  BY <1>3, <1>4, <1>5, <1>6, <1>7 DEF InsertBase

LEMMA InsertHeapEffect ==
    ASSUME BlocksTyped, Counted, NEW n \in DOMAIN g_relations, NEW row,
           InsertHeap(n, row)
    PROVE InsertEffect(n, row)
<1>1. "data" \in BlockKinds(n)
  BY DEF BlockKinds, Kinds
<1>2. CASE /\ WithRoom(n, "data") # {}
           /\ WriteInto(Header(n).data[Min(WithRoom(n, "data"))], row)
  BY <1>1, <1>2, WithRoomEffect
<1>3. CASE /\ Header(n).num["data"] < BLKMAX
           /\ Grow(n, "data", Min(Missing(n, "data")), row)
  BY <1>1, <1>3, GrowMissing DEF Size
<1>4. CASE UNCHANGED storage
  BY <1>4, StillEffect
<1>. QED
  BY <1>2, <1>3, <1>4 DEF InsertHeap

LEMMA AppendTupleInserts ==
    ASSUME HashInRange, BlocksTyped, Counted, NEW n \in DOMAIN g_relations, NEW row,
           AppendTuple(n, row)
    PROVE InsertEffect(n, row)
BY InsertBaseEffect, InsertHeapEffect DEF AppendTuple

LEMMA AppendTupleEffect ==
    ASSUME HashInRange, BlocksTyped, Counted, NEW n \in DOMAIN g_relations, NEW row,
           AppendTuple(n, row)
    PROVE RowEffect(n, row)
<1>1. InsertEffect(n, row)
  BY AppendTupleInserts
<1>2. CASE UNCHANGED storage
  BY <1>2, StillEffect
<1>3. ASSUME NEW b \in RowBlocks(n), NEW s, WriteTuple(b, s, row) PROVE RowEffect(n, row)
  BY <1>3, RowBlockIsEntry, WriteEffect
<1>4. ASSUME NEW kind \in BlockKinds(n), NEW i \in 1 .. Size(kind),
             FreeBlocks # {}, Entry(n, kind, i) = 0, Grow(n, kind, i, row)
      PROVE RowEffect(n, row)
  BY <1>4 DEF RowEffect, BlockKinds, Kinds
<1>. QED
  BY <1>1, <1>2, <1>3, <1>4 DEF InsertEffect

\* Which blocks move when a row is written, and which contents change.
LEMMA RowEffectBlocks ==
    ASSUME BlocksInv, DiskTyped, NEW n, NEW row, RowEffect(n, row)
    PROVE AppendEffect(n)
<1>1. CASE UNCHANGED storage
  BY <1>1 DEF storage, AppendEffect, NoBlockMoves
<1>2. ASSUME NEW b \in Blocks \ {0}, NEW s, IsEntry(n, b), WriteTuple(b, s, row)
      PROVE AppendEffect(n)
  <2>1. NoBlockMoves /\ virtual_disk' = [virtual_disk EXCEPT ![b][s] = row]
    BY <1>2 DEF WriteTuple, NoBlockMoves
  <2>2. DiskTyped'
    BY <2>1 DEF DiskTyped
  <2>3. WritesTo(n)
    BY <1>2, <2>1, <2>2 DEF WritesTo, DiskTyped
  <2>. QED
    BY <2>1, <2>3 DEF AppendEffect
<1>3. ASSUME NEW kind \in Kinds, NEW i \in 1 .. Size(kind),
             FreeBlocks # {}, Entry(n, kind, i) = 0, Grow(n, kind, i, row)
      PROVE AppendEffect(n)
  <2>. DEFINE b == Min(FreeBlocks)
  <2>1. TakesBlock(n, kind, i, b)
    BY <1>3, FreeBlockIsFree DEF Grow, TakesBlock, HeaderBlock, Updated
  <2>2. b \in Blocks \ {0} /\ bitmapblk[b] = 0
    BY <1>3, FreeBlockIsFree DEF BlocksInv, Marked
  <2>3. virtual_disk' = [virtual_disk EXCEPT ![b] = [EmptyBlock EXCEPT ![1] = row]]
    BY <1>3 DEF Grow
  <2>. HIDE DEF b
  <2>4. DiskTyped'
    BY <2>2, <2>3 DEF DiskTyped, EmptyBlock
  <2>5. WritesTo(n)
    BY <2>2, <2>3, <2>4 DEF WritesTo, DiskTyped
  <2>. QED
    BY <2>1, <2>2, <2>5 DEF AppendEffect
<1>. QED
  BY <1>1, <1>2, <1>3 DEF RowEffect

LEMMA UsedEntries ==
    ASSUME BlocksTyped, NEW n \in DOMAIN g_relations, NEW kind \in BlockKinds(n)
    PROVE Used(Header(n)[kind]) \in Seq(RowBlocks(n))
<1>. DEFINE e == Header(n)[kind]
            P == {i \in DOMAIN e : e[i] # 0}
<1>1. kind \in Kinds
  BY DEF BlockKinds, Kinds
<1>2. e \in [1 .. Size(kind) -> Blocks] /\ \A i : e[i] = Entry(n, kind, i)
  BY <1>1, EntryTyped DEF Entry
<1>3. P \subseteq 1 .. Size(kind)
  BY <1>2
<1>4. Used(e) = Picked(e, P)
  BY DEF Used
<1>5. {e[i] : i \in P} \subseteq RowBlocks(n)
  <2>1. ASSUME NEW i \in P PROVE e[i] \in RowBlocks(n)
    <3>1. i \in 1 .. Size(kind) /\ e[i] # 0 /\ e[i] = Entry(n, kind, i)
      BY <1>2
    <3>. HIDE DEF e, P
    <3>. QED
      BY <3>1, RowBlockEntry
  <2>. QED
    BY <2>1
<1>. HIDE DEF e, P
<1>6. Used(e) \in Seq({e[i] : i \in P})
  BY <1>1, <1>3, <1>4, SizeIsNat, PickedFacts
<1>7. Used(e) \in Seq(RowBlocks(n))
  BY <1>5, <1>6, SeqMonotonic
<1>. QED
  BY <1>7 DEF e

LEMMA BlockListRows ==
    ASSUME BlocksTyped, NEW n \in DOMAIN g_relations
    PROVE BlockList(n) \in Seq(RowBlocks(n))
<1>1. Used(Header(n)["data"]) \in Seq(RowBlocks(n))
  BY UsedEntries DEF BlockKinds, Kinds
<1>2. CASE g_relations[n].is_base
  <2>1. Used(Header(n)["overflow"]) \in Seq(RowBlocks(n))
    BY <1>2, UsedEntries DEF BlockKinds, Kinds
  <2>. QED
    BY <1>1, <1>2, <2>1, ConcatProperties DEF BlockList
<1>3. CASE ~ g_relations[n].is_base
  <2>1. << >> \in Seq(RowBlocks(n))
    BY EmptySeq
  <2>. QED
    BY <1>1, <1>3, <2>1, ConcatProperties DEF BlockList
<1>. QED
  BY <1>2, <1>3

\* A row that is found by its key is in a block of its relation.
LEMMA FoundPlace ==
    ASSUME BlocksTyped, NEW n \in DOMAIN g_relations, NEW key, NEW place \in Found(n, key)
    PROVE /\ place \in RowBlocks(n) \X (1 .. BLKFAC)
          /\ RowAt(place) # Free
          /\ Len(key) = g_relations[n].keysize
          /\ KeyOf(RowAt(place), Len(key)) = key
<1>. DEFINE blocks == BlockList(n)
            places == Places(n)
            hits   == {i \in DOMAIN places : /\ RowAt(places[i]) # Free
                                             /\ Len(key) = g_relations[n].keysize
                                             /\ KeyOf(RowAt(places[i]), Len(key)) = key}
<1>1. blocks \in Seq(RowBlocks(n)) /\ Len(blocks) \in Nat
  BY BlockListRows, LenProperties
<1>2. places = [k \in 1 .. Len(blocks) * BLKFAC |->
                   <<blocks[((k - 1) \div BLKFAC) + 1], ((k - 1) % BLKFAC) + 1>>]
  BY DEF Places
<1>3. hits # {} /\ place = places[Min(hits)]
  BY DEF Found
<1>4. hits \subseteq DOMAIN places
  OBVIOUS
<1>5. \A i \in hits : /\ RowAt(places[i]) # Free
                      /\ Len(key) = g_relations[n].keysize
                      /\ KeyOf(RowAt(places[i]), Len(key)) = key
  OBVIOUS
<1>. HIDE DEF blocks, places, hits
<1>6. DOMAIN places = 1 .. Len(blocks) * BLKFAC /\ DOMAIN places \subseteq Nat
  BY <1>2
<1>7. Min(hits) \in hits
  BY <1>3, <1>4, <1>6, MinIsLeast
<1>8. PICK k \in 1 .. Len(blocks) * BLKFAC : k = Min(hits)
  BY <1>4, <1>6, <1>7
<1>9. ((k - 1) \div BLKFAC) + 1 \in 1 .. Len(blocks)
  BY <1>1, SlotOfPlace
<1>10. ((k - 1) % BLKFAC) + 1 \in 1 .. BLKFAC
  <2>1. BLKFAC \in Nat \ {0} /\ k - 1 \in Int
    BY <1>6, <1>8, StorageAssumption
  <2>. QED
    BY <2>1
<1>11. blocks[((k - 1) \div BLKFAC) + 1] \in RowBlocks(n)
  BY <1>1, <1>9, ElementOfSeq
<1>12. place = <<blocks[((k - 1) \div BLKFAC) + 1], ((k - 1) % BLKFAC) + 1>>
  BY <1>2, <1>3, <1>8
<1>13. place \in RowBlocks(n) \X (1 .. BLKFAC)
  BY <1>10, <1>11, <1>12
<1>. QED
  BY <1>3, <1>5, <1>7, <1>13, Zenon

LEMMA FoundInEntry ==
    ASSUME BlocksTyped, NEW n \in DOMAIN g_relations, NEW key, NEW place \in Found(n, key)
    PROVE place[1] \in Blocks \ {0} /\ IsEntry(n, place[1])
<1>1. place[1] \in RowBlocks(n)
  BY FoundPlace
<1>. QED
  BY <1>1, RowBlockIsEntry

(***************************************************************************)
(* A block is taken                                                        *)
(***************************************************************************)
LEMMA HeaderUpdate ==
    ASSUME NEW h, IsHeader(h), NEW kind \in Kinds, NEW i \in 1 .. Size(kind), NEW b \in Blocks
    PROVE /\ IsHeader(Updated(h, kind, i, b))
          /\ \A l \in Kinds :
                 /\ Updated(h, kind, i, b).num[l] = h.num[l] + (IF l = kind THEN 1 ELSE 0)
                 /\ \A j \in 1 .. Size(l) :
                        Updated(h, kind, i, b)[l][j] = IF l = kind /\ j = i THEN b ELSE h[l][j]
<1>1. CASE kind = "data"
  <2>. DEFINE g == [h EXCEPT !["data"][i] = b, !.num["data"] = @ + 1]
  <2>1. i \in 1 .. BLKMAX
    BY <1>1 DEF Size
  <2>2. IsHeader(g)
    BY <2>1 DEF IsHeader
  <2>3. /\ g["data"] = [h["data"] EXCEPT ![i] = b] /\ g["overflow"] = h["overflow"]
        /\ g.num["data"] = h.num["data"] + 1 /\ g.num["overflow"] = h.num["overflow"]
    BY <2>1 DEF IsHeader
  <2>4. Updated(h, kind, i, b) = g
    <3>1. Updated(h, kind, i, b) = Updated(h, "data", i, b)
      BY <1>1
    <3>. QED
      BY <3>1 DEF Updated
  <2>. HIDE DEF g
  <2>5. \A j \in 1 .. BLKMAX : g["data"][j] = IF j = i THEN b ELSE h["data"][j]
    BY <2>1, <2>3 DEF IsHeader
  <2>6. h.num["overflow"] + 0 = h.num["overflow"]
    BY DEF IsHeader
  <2>7. \A l \in Kinds :
            /\ g.num[l] = h.num[l] + (IF l = kind THEN 1 ELSE 0)
            /\ \A j \in 1 .. Size(l) : g[l][j] = IF l = kind /\ j = i THEN b ELSE h[l][j]
    BY <1>1, <2>3, <2>5, <2>6 DEF Kinds, Size
  <2>. QED
    BY <2>2, <2>4, <2>7
<1>2. CASE kind = "overflow"
  <2>. DEFINE g == [h EXCEPT !["overflow"][i] = b, !.num["overflow"] = @ + 1]
  <2>1. i \in 1 .. OVBLKMAX
    BY <1>2 DEF Size
  <2>2. IsHeader(g)
    BY <2>1 DEF IsHeader
  <2>3. /\ g["overflow"] = [h["overflow"] EXCEPT ![i] = b] /\ g["data"] = h["data"]
        /\ g.num["overflow"] = h.num["overflow"] + 1 /\ g.num["data"] = h.num["data"]
    BY <2>1 DEF IsHeader
  <2>4. Updated(h, kind, i, b) = g
    <3>1. Updated(h, kind, i, b) = Updated(h, "overflow", i, b)
      BY <1>2
    <3>. QED
      BY <3>1 DEF Updated
  <2>. HIDE DEF g
  <2>5. \A j \in 1 .. OVBLKMAX : g["overflow"][j] = IF j = i THEN b ELSE h["overflow"][j]
    BY <2>1, <2>3 DEF IsHeader
  <2>6. h.num["data"] + 0 = h.num["data"]
    BY DEF IsHeader
  <2>7. \A l \in Kinds :
            /\ g.num[l] = h.num[l] + (IF l = kind THEN 1 ELSE 0)
            /\ \A j \in 1 .. Size(l) : g[l][j] = IF l = kind /\ j = i THEN b ELSE h[l][j]
    BY <1>2, <2>3, <2>5, <2>6 DEF Kinds, Size
  <2>. QED
    BY <2>2, <2>4, <2>7
<1>. QED
  BY <1>1, <1>2 DEF Kinds

\* Nothing but one entry, its count and one bit changes.
LEMMA TakenEntries ==
    ASSUME BlocksInv, UNCHANGED g_relations,
           NEW n \in DOMAIN g_relations, NEW kind \in Kinds, NEW i \in 1 .. Size(kind),
           NEW b \in Blocks, TakesBlock(n, kind, i, b)
    PROVE /\ DOMAIN headers' = Blocks /\ \A x \in Blocks : IsHeader(headers'[x])
          /\ \A m \in DOMAIN g_relations, l \in Kinds :
                 /\ headers'[HeaderBlock(m)].num[l] =
                        headers[HeaderBlock(m)].num[l] + (IF m = n /\ l = kind THEN 1 ELSE 0)
                 /\ \A j \in 1 .. Size(l) :
                        Entry(m, l, j)' =
                            IF m = n /\ l = kind /\ j = i THEN b ELSE Entry(m, l, j)
<1>. DEFINE hb == HeaderBlock(n)
            h  == headers[hb]
            g  == Updated(h, kind, i, b)
<1>1. hb \in Blocks /\ IsHeader(h)
  BY DEF BlocksInv, BlocksTyped
<1>2. headers' = [headers EXCEPT ![hb] = g] /\ DOMAIN headers = Blocks
  BY DEF TakesBlock, BlocksInv, BlocksTyped
<1>3. /\ IsHeader(g)
      /\ \A l \in Kinds : /\ g.num[l] = h.num[l] + (IF l = kind THEN 1 ELSE 0)
                          /\ \A j \in 1 .. Size(l) :
                                 g[l][j] = IF l = kind /\ j = i THEN b ELSE h[l][j]
  BY <1>1, HeaderUpdate
<1>. HIDE DEF g
<1>4. DOMAIN headers' = Blocks /\ \A x \in Blocks : IsHeader(headers'[x])
  BY <1>1, <1>2, <1>3 DEF BlocksInv, BlocksTyped
<1>5. ASSUME NEW m \in DOMAIN g_relations, NEW l \in Kinds
      PROVE /\ headers'[HeaderBlock(m)].num[l] =
                   headers[HeaderBlock(m)].num[l] + (IF m = n /\ l = kind THEN 1 ELSE 0)
            /\ \A j \in 1 .. Size(l) :
                   Entry(m, l, j)' =
                       IF m = n /\ l = kind /\ j = i THEN b ELSE Entry(m, l, j)
  <2>1. HeaderBlock(m) \in Blocks /\ IsHeader(headers[HeaderBlock(m)])
    BY DEF BlocksInv, BlocksTyped
  <2>2. HeaderBlock(m)' = HeaderBlock(m)
    BY DEF HeaderBlock
  <2>3. headers[HeaderBlock(m)].num[l] \in Int
    BY <2>1, EntriesTyped
  <2>4. \A j \in 1 .. Size(l) : Entry(m, l, j)' = headers'[HeaderBlock(m)][l][j]
    BY <2>2 DEF Entry
  <2>5. CASE m = n
    BY <1>1, <1>2, <1>3, <2>4, <2>5 DEF Entry
  <2>6. CASE m # n
    <3>1. HeaderBlock(m) # hb
      BY <2>6 DEF BlocksInv, NoneShared
    <3>2. headers'[HeaderBlock(m)] = headers[HeaderBlock(m)]
      BY <1>2, <2>1, <3>1
    <3>. QED
      BY <2>3, <2>4, <2>6, <3>2 DEF Entry
  <2>. QED
    BY <2>5, <2>6
<1>. QED
  BY <1>4, <1>5

LEMMA TakeStep ==
    ASSUME BlocksInv, UNCHANGED g_relations,
           NEW n \in DOMAIN g_relations, NEW kind \in Kinds, NEW i \in 1 .. Size(kind),
           NEW b \in Blocks, TakesBlock(n, kind, i, b)
    PROVE BlocksInv'
<1>1. /\ DOMAIN headers' = Blocks /\ \A x \in Blocks : IsHeader(headers'[x])
      /\ \A m \in DOMAIN g_relations, l \in Kinds :
             /\ headers'[HeaderBlock(m)].num[l] =
                    headers[HeaderBlock(m)].num[l] + (IF m = n /\ l = kind THEN 1 ELSE 0)
             /\ \A j \in 1 .. Size(l) :
                    Entry(m, l, j)' =
                        IF m = n /\ l = kind /\ j = i THEN b ELSE Entry(m, l, j)
  BY TakenEntries
<1>2. \A m : HeaderBlock(m)' = HeaderBlock(m)
  BY DEF HeaderBlock
<1>3. /\ 0 \in Blocks
      /\ \A x \in Blocks : bitmapblk'[x] = IF x = b THEN 1 ELSE bitmapblk[x]
      /\ bitmapblk' \in [Blocks -> {0, 1}]
  BY StorageAssumption DEF TakesBlock, BlocksInv, BlocksTyped, Blocks
<1>4. b # 0 /\ bitmapblk[b] = 0 /\ Entry(n, kind, i) = 0
  BY DEF TakesBlock, BlocksInv, Marked
<1>5. \A m \in DOMAIN g_relations : HeaderBlock(m) \in Blocks \ {0}
  BY DEF BlocksInv, BlocksTyped
<1>6. \A m \in DOMAIN g_relations, l \in Kinds : \A j \in 1 .. Size(l) :
          Entry(m, l, j) \in Blocks
  BY EntryTyped DEF BlocksInv
<1>7. DOMAIN g_relations' = DOMAIN g_relations
  OBVIOUS
<1>8. BlocksTyped'
  BY <1>1, <1>2, <1>3, <1>5 DEF BlocksTyped
<1>9. Marked'
  BY <1>1, <1>2, <1>3, <1>4, <1>5, <1>6, <1>7 DEF BlocksInv, Marked
<1>10. NoneLost'
  <2>. SUFFICES ASSUME NEW x \in Blocks \ {0}, bitmapblk'[x] = 1
                PROVE \/ \E m \in DOMAIN g_relations : HeaderBlock(m) = x
                      \/ \E m \in DOMAIN g_relations, l \in Kinds :
                             \E j \in 1 .. Size(l) : Entry(m, l, j)' = x
    BY <1>2, <1>7 DEF NoneLost
  <2>1. CASE x = b
    BY <1>1, <2>1
  <2>2. CASE x # b
    <3>1. bitmapblk[x] = 1
      BY <1>3, <2>2
    <3>2. CASE \E m \in DOMAIN g_relations : HeaderBlock(m) = x
      BY <3>2
    <3>3. ASSUME NEW m \in DOMAIN g_relations, NEW l \in Kinds, NEW j \in 1 .. Size(l),
                 Entry(m, l, j) = x
          PROVE Entry(m, l, j)' = x
      BY <1>1, <1>4, <3>3
    <3>. QED
      BY <3>1, <3>2, <3>3 DEF BlocksInv, NoneLost
  <2>. QED
    BY <2>1, <2>2
<1>11. NoneShared'
  <2>1. /\ \A m \in DOMAIN g_relations : HeaderBlock(m) # b
        /\ \A m \in DOMAIN g_relations, l \in Kinds : \A j \in 1 .. Size(l) :
               Entry(m, l, j) # b
    BY <1>4 DEF BlocksInv, Marked
  <2>2. \A m1, m2 \in DOMAIN g_relations, l \in Kinds : \A j \in 1 .. Size(l) :
            Entry(m1, l, j)' # HeaderBlock(m2)
    BY <1>1, <2>1 DEF BlocksInv, NoneShared
  <2>3. ASSUME NEW m1 \in DOMAIN g_relations, NEW m2 \in DOMAIN g_relations,
               NEW k1 \in Kinds, NEW k2 \in Kinds,
               NEW j1 \in 1 .. Size(k1), NEW j2 \in 1 .. Size(k2),
               Entry(m1, k1, j1)' = Entry(m2, k2, j2)', Entry(m1, k1, j1)' # 0
        PROVE m1 = m2 /\ k1 = k2 /\ j1 = j2
    BY <1>1, <2>1, <2>3 DEF BlocksInv, NoneShared
  <2>. QED
    BY <1>2, <1>7, <2>2, <2>3 DEF BlocksInv, NoneShared
<1>12. Counted'
  <2>. SUFFICES ASSUME NEW m \in DOMAIN g_relations, NEW l \in Kinds
                PROVE headers'[HeaderBlock(m)].num[l] = Cardinality(Filled(m, l)')
    BY <1>2, <1>7 DEF Counted
  <2>1. headers[HeaderBlock(m)].num[l] = Cardinality(Filled(m, l))
    BY DEF BlocksInv, Counted
  <2>2. IsFiniteSet(Filled(m, l)) /\ Cardinality(Filled(m, l)) \in Nat
    BY FilledFinite
  <2>3. CASE m = n /\ l = kind
    <3>1. Filled(m, l)' = Filled(m, l) \union {i} /\ i \notin Filled(m, l)
      BY <1>1, <1>4, <2>3 DEF Filled
    <3>2. Cardinality(Filled(m, l)') = Cardinality(Filled(m, l)) + 1
      BY <2>2, <3>1, FS_AddElement
    <3>. QED
      BY <1>1, <2>1, <2>3, <3>2
  <2>4. CASE ~ (m = n /\ l = kind)
    <3>1. Filled(m, l)' = Filled(m, l)
      BY <1>1, <2>4 DEF Filled
    <3>. QED
      BY <1>1, <2>1, <2>2, <2>4, <3>1
  <2>. QED
    BY <2>3, <2>4
<1>. QED
  BY <1>8, <1>9, <1>10, <1>11, <1>12 DEF BlocksInv

LEMMA StillStep ==
    ASSUME BlocksInv, NoBlockMoves, UNCHANGED g_relations
    PROVE BlocksInv'
<1>1. \A n : HeaderBlock(n)' = HeaderBlock(n)
  BY DEF HeaderBlock
<1>2. \A n, kind, i : Entry(n, kind, i)' = Entry(n, kind, i)
  BY <1>1 DEF NoBlockMoves, Entry
<1>3. \A n, kind : Filled(n, kind)' = Filled(n, kind)
  BY <1>2 DEF Filled
<1>4. bitmapblk' = bitmapblk /\ headers' = headers /\ DOMAIN g_relations' = DOMAIN g_relations
  BY DEF NoBlockMoves
<1>5. BlocksTyped'
  BY <1>1, <1>4 DEF BlocksInv, BlocksTyped
<1>6. Marked'
  BY <1>1, <1>2, <1>4 DEF BlocksInv, Marked
<1>7. NoneLost'
  BY <1>1, <1>2, <1>4 DEF BlocksInv, NoneLost
<1>8. NoneShared'
  BY <1>1, <1>2, <1>4 DEF BlocksInv, NoneShared
<1>9. Counted'
  BY <1>1, <1>3, <1>4 DEF BlocksInv, Counted
<1>. QED
  BY <1>5, <1>6, <1>7, <1>8, <1>9 DEF BlocksInv

LEMMA AppendStep ==
    ASSUME BlocksInv, UNCHANGED g_relations, NEW n \in DOMAIN g_relations, AppendEffect(n)
    PROVE BlocksInv'
<1>1. CASE NoBlockMoves
  BY <1>1, StillStep
<1>2. CASE \E kind \in Kinds : \E i \in 1 .. Size(kind), b \in Blocks : TakesBlock(n, kind, i, b)
  BY <1>2, TakeStep
<1>. QED
  BY <1>1, <1>2 DEF AppendEffect

(***************************************************************************)
(* A relation is made, and one is deleted                                  *)
(***************************************************************************)
LEMMA EmptyHeaderFacts ==
    /\ IsHeader(EmptyHeader)
    /\ \A kind \in Kinds : /\ EmptyHeader.num[kind] = 0
                           /\ \A i \in 1 .. Size(kind) : EmptyHeader[kind][i] = 0
<1>1. 0 \in Blocks
  BY StorageAssumption DEF Blocks
<1>. QED
  BY <1>1 DEF EmptyHeader, IsHeader, Kinds, Size

\* A free block's header is reset: no relation reads it.
LEMMA ResetHeaders ==
    ASSUME BlocksInv, NEW hb \in Blocks, bitmapblk[hb] = 0,
           headers' = [headers EXCEPT ![hb] = EmptyHeader]
    PROVE /\ hb # 0
          /\ DOMAIN headers' = Blocks /\ \A x \in Blocks : IsHeader(headers'[x])
          /\ headers'[hb] = EmptyHeader
          /\ \A m \in DOMAIN g_relations : /\ HeaderBlock(m) # hb
                                           /\ headers'[HeaderBlock(m)] = headers[HeaderBlock(m)]
<1>1. DOMAIN headers = Blocks /\ \A x \in Blocks : IsHeader(headers[x])
  BY DEF BlocksInv, BlocksTyped
<1>2. hb # 0 /\ \A m \in DOMAIN g_relations : HeaderBlock(m) # hb
  BY DEF BlocksInv, Marked
<1>3. \A m \in DOMAIN g_relations : HeaderBlock(m) \in Blocks
  BY DEF BlocksInv, BlocksTyped
<1>. QED
  BY <1>1, <1>2, <1>3, EmptyHeaderFacts

\* g_relations has no entry left: the header block was taken and given back.
LEMMA NoEntryStep ==
    ASSUME BlocksInv, NEW hb \in Blocks, bitmapblk[hb] = 0,
           headers' = [headers EXCEPT ![hb] = EmptyHeader],
           UNCHANGED <<bitmapblk, g_relations>>
    PROVE BlocksInv'
<1>1. /\ DOMAIN headers' = Blocks /\ \A x \in Blocks : IsHeader(headers'[x])
      /\ \A m \in DOMAIN g_relations : headers'[HeaderBlock(m)] = headers[HeaderBlock(m)]
  BY ResetHeaders
<1>2. /\ bitmapblk' = bitmapblk /\ DOMAIN g_relations' = DOMAIN g_relations
      /\ \A m : HeaderBlock(m)' = HeaderBlock(m)
  BY DEF HeaderBlock
<1>3. \A m \in DOMAIN g_relations, l \in Kinds :
          /\ \A j \in 1 .. Size(l) : Entry(m, l, j)' = Entry(m, l, j)
          /\ Filled(m, l)' = Filled(m, l)
  <2>1. \A m \in DOMAIN g_relations : \A l, j : Entry(m, l, j)' = Entry(m, l, j)
    BY <1>1, <1>2 DEF Entry
  <2>. QED
    BY <2>1 DEF Filled
<1>5. BlocksTyped'
  BY <1>1, <1>2 DEF BlocksInv, BlocksTyped
<1>6. Marked'
  BY <1>2, <1>3 DEF BlocksInv, Marked
<1>7. NoneLost'
  BY <1>2, <1>3 DEF BlocksInv, NoneLost
<1>8. NoneShared'
  BY <1>2, <1>3 DEF BlocksInv, NoneShared
<1>9. Counted'
  BY <1>1, <1>2, <1>3 DEF BlocksInv, Counted
<1>. QED
  BY <1>5, <1>6, <1>7, <1>8, <1>9 DEF BlocksInv

LEMMA MakeStep ==
    ASSUME BlocksInv, NEW hb \in Blocks, bitmapblk[hb] = 0,
           headers' = [headers EXCEPT ![hb] = EmptyHeader],
           bitmapblk' = [bitmapblk EXCEPT ![hb] = 1],
           NEW name, name \notin DOMAIN g_relations,
           DOMAIN g_relations' = DOMAIN g_relations \union {name},
           g_relations'[name].header_block = hb,
           \A m \in DOMAIN g_relations : g_relations'[m] = g_relations[m]
    PROVE BlocksInv'
<1>1. /\ hb # 0
      /\ DOMAIN headers' = Blocks /\ \A x \in Blocks : IsHeader(headers'[x])
      /\ headers'[hb] = EmptyHeader
      /\ \A m \in DOMAIN g_relations : /\ HeaderBlock(m) # hb
                                       /\ headers'[HeaderBlock(m)] = headers[HeaderBlock(m)]
  BY ResetHeaders
<1>2. /\ HeaderBlock(name)' = hb
      /\ \A m \in DOMAIN g_relations : HeaderBlock(m)' = HeaderBlock(m) /\ m # name
  BY DEF HeaderBlock
<1>3. /\ 0 \in Blocks
      /\ \A x \in Blocks : bitmapblk'[x] = IF x = hb THEN 1 ELSE bitmapblk[x]
      /\ bitmapblk' \in [Blocks -> {0, 1}]
  BY StorageAssumption DEF BlocksInv, BlocksTyped, Blocks
<1>4. \A l \in Kinds : \A j \in 1 .. Size(l) : Entry(name, l, j)' = 0
  BY <1>1, <1>2, EmptyHeaderFacts DEF Entry
<1>5. \A m \in DOMAIN g_relations : \A l, j : Entry(m, l, j)' = Entry(m, l, j)
  BY <1>1, <1>2 DEF Entry
<1>6. \A m \in DOMAIN g_relations, l \in Kinds : \A j \in 1 .. Size(l) :
          Entry(m, l, j) \in Blocks
  BY EntryTyped DEF BlocksInv
<1>7. \A m \in DOMAIN g_relations : HeaderBlock(m) \in Blocks \ {0}
  BY DEF BlocksInv, BlocksTyped
<1>8. BlocksTyped'
  BY <1>1, <1>2, <1>3, <1>7 DEF BlocksTyped
<1>9. Marked'
  <2>1. bitmapblk'[0] = 1
    BY <1>1, <1>3 DEF BlocksInv, Marked
  <2>2. \A m \in DOMAIN g_relations' : bitmapblk'[HeaderBlock(m)'] = 1
    BY <1>2, <1>3, <1>7 DEF BlocksInv, Marked
  <2>3. \A m \in DOMAIN g_relations', l \in Kinds : \A j \in 1 .. Size(l) :
            bitmapblk'[Entry(m, l, j)'] = 1
    BY <2>1, <1>3, <1>4, <1>5, <1>6 DEF BlocksInv, Marked
  <2>. QED
    BY <2>1, <2>2, <2>3 DEF Marked
<1>10. NoneLost'
  <2>. SUFFICES ASSUME NEW x \in Blocks \ {0}, bitmapblk'[x] = 1
                PROVE \/ \E m \in DOMAIN g_relations' : HeaderBlock(m)' = x
                      \/ \E m \in DOMAIN g_relations', l \in Kinds :
                             \E j \in 1 .. Size(l) : Entry(m, l, j)' = x
    BY DEF NoneLost
  <2>1. CASE x = hb
    BY <1>2, <2>1
  <2>2. CASE x # hb
    <3>1. \/ \E m \in DOMAIN g_relations : HeaderBlock(m) = x
          \/ \E m \in DOMAIN g_relations, l \in Kinds :
                 \E j \in 1 .. Size(l) : Entry(m, l, j) = x
      BY <1>3, <2>2 DEF BlocksInv, NoneLost
    <3>. QED
      BY <3>1, <1>2, <1>5
  <2>. QED
    BY <2>1, <2>2
<1>11. NoneShared'
  <2>1. \A m \in DOMAIN g_relations, l \in Kinds : \A j \in 1 .. Size(l) : Entry(m, l, j) # hb
    BY DEF BlocksInv, Marked
  <2>2. \A m1, m2 \in DOMAIN g_relations' : HeaderBlock(m1)' = HeaderBlock(m2)' => m1 = m2
    BY <1>1, <1>2 DEF BlocksInv, NoneShared
  <2>3. \A m1, m2 \in DOMAIN g_relations', l \in Kinds : \A j \in 1 .. Size(l) :
            Entry(m1, l, j)' # HeaderBlock(m2)'
    BY <1>1, <1>2, <1>4, <1>5, <1>7, <2>1 DEF BlocksInv, NoneShared
  <2>4. ASSUME NEW m1 \in DOMAIN g_relations', NEW m2 \in DOMAIN g_relations',
               NEW k1 \in Kinds, NEW k2 \in Kinds,
               NEW j1 \in 1 .. Size(k1), NEW j2 \in 1 .. Size(k2),
               Entry(m1, k1, j1)' = Entry(m2, k2, j2)', Entry(m1, k1, j1)' # 0
        PROVE m1 = m2 /\ k1 = k2 /\ j1 = j2
    <3>1. m1 \in DOMAIN g_relations /\ m2 \in DOMAIN g_relations
      BY <1>4, <2>4
    <3>2. Entry(m1, k1, j1) = Entry(m2, k2, j2) /\ Entry(m1, k1, j1) # 0
      BY <1>5, <2>4, <3>1
    <3>. QED
      BY <3>1, <3>2 DEF BlocksInv, NoneShared
  <2>. QED
    BY <2>2, <2>3, <2>4 DEF NoneShared
<1>12. Counted'
  <2>. SUFFICES ASSUME NEW m \in DOMAIN g_relations', NEW l \in Kinds
                PROVE headers'[HeaderBlock(m)'].num[l] = Cardinality(Filled(m, l)')
    BY DEF Counted
  <2>1. CASE m = name
    <3>1. Filled(m, l)' = {}
      BY <1>4, <2>1 DEF Filled
    <3>2. headers'[HeaderBlock(m)'].num[l] = 0
      BY <1>1, <1>2, <2>1, EmptyHeaderFacts
    <3>. QED
      BY <3>1, <3>2, FS_EmptySet
  <2>2. CASE m \in DOMAIN g_relations
    <3>1. Filled(m, l)' = Filled(m, l)
      BY <1>5, <2>2 DEF Filled
    <3>. QED
      BY <1>1, <1>2, <2>2, <3>1 DEF BlocksInv, Counted
  <2>. QED
    BY <2>1, <2>2
<1>. QED
  BY <1>8, <1>9, <1>10, <1>11, <1>12 DEF BlocksInv

\* The blocks of a relation, as delete_relation gives them back.
LEMMA OwnBlocksOf ==
    ASSUME BlocksInv, NEW n \in DOMAIN g_relations, NEW b
    PROVE b \in OwnBlocks(n) <=>
              \/ b = HeaderBlock(n)
              \/ \E kind \in Kinds : \E i \in 1 .. Size(kind) : Entry(n, kind, i) = b
<1>1. /\ Header(n) = headers[HeaderBlock(n)]
      /\ \A kind \in Kinds : Header(n)[kind] \in [1 .. Size(kind) -> Blocks]
  BY EntryTyped DEF BlocksInv, Header, HeaderBlock
<1>2. \A kind \in Kinds : b \in Range(Header(n)[kind])
          <=> \E i \in 1 .. Size(kind) : Entry(n, kind, i) = b
  BY <1>1 DEF Range, Entry
<1>. QED
  BY <1>2 DEF OwnBlocks, Kinds, HeaderBlock

LEMMA DeleteStep ==
    ASSUME BlocksInv, NEW n \in DOMAIN g_relations,
           bitmapblk' = [b \in Blocks |-> IF b \in OwnBlocks(n) \ {0} THEN 0 ELSE bitmapblk[b]],
           g_relations' = [m \in DOMAIN g_relations \ {n} |-> g_relations[m]],
           UNCHANGED headers
    PROVE BlocksInv'
<1>1. /\ DOMAIN g_relations' = DOMAIN g_relations \ {n}
      /\ \A m \in DOMAIN g_relations' : HeaderBlock(m)' = HeaderBlock(m)
  BY DEF HeaderBlock
<1>2. \A m \in DOMAIN g_relations' : \A l, j : Entry(m, l, j)' = Entry(m, l, j)
  BY <1>1 DEF Entry
<1>3. /\ 0 \in Blocks /\ bitmapblk' \in [Blocks -> {0, 1}]
      /\ \A x \in Blocks : bitmapblk'[x] = IF x \in OwnBlocks(n) \ {0} THEN 0 ELSE bitmapblk[x]
  BY StorageAssumption DEF BlocksInv, BlocksTyped, Blocks
<1>4. /\ \A m \in DOMAIN g_relations : HeaderBlock(m) \in Blocks \ {0}
      /\ \A m \in DOMAIN g_relations, l \in Kinds : \A j \in 1 .. Size(l) :
             Entry(m, l, j) \in Blocks
  BY EntryTyped DEF BlocksInv, BlocksTyped
<1>5. BlocksTyped'
  BY <1>1, <1>3, <1>4 DEF BlocksInv, BlocksTyped
<1>6. Marked'
  <2>1. \A m \in DOMAIN g_relations' : HeaderBlock(m) \notin OwnBlocks(n)
    BY <1>1, OwnBlocksOf DEF BlocksInv, NoneShared
  <2>2. \A m \in DOMAIN g_relations', l \in Kinds : \A j \in 1 .. Size(l) :
            Entry(m, l, j) \notin OwnBlocks(n) \ {0}
    BY <1>1, OwnBlocksOf DEF BlocksInv, NoneShared
  <2>3. bitmapblk'[0] = 1
    BY <1>3 DEF BlocksInv, Marked
  <2>4. \A m \in DOMAIN g_relations' : bitmapblk'[HeaderBlock(m)] = 1
    BY <1>1, <1>3, <1>4, <2>1 DEF BlocksInv, Marked
  <2>5. \A m \in DOMAIN g_relations', l \in Kinds : \A j \in 1 .. Size(l) :
            bitmapblk'[Entry(m, l, j)] = 1
    BY <1>1, <1>3, <1>4, <2>2 DEF BlocksInv, Marked
  <2>. QED
    BY <1>1, <1>2, <2>3, <2>4, <2>5 DEF Marked
<1>7. NoneLost'
  <2>. SUFFICES ASSUME NEW x \in Blocks \ {0}, bitmapblk'[x] = 1
                PROVE \/ \E m \in DOMAIN g_relations' : HeaderBlock(m)' = x
                      \/ \E m \in DOMAIN g_relations', l \in Kinds :
                             \E j \in 1 .. Size(l) : Entry(m, l, j)' = x
    BY DEF NoneLost
  <2>1. x \notin OwnBlocks(n) /\ bitmapblk[x] = 1
    BY <1>3
  <2>2. CASE \E m \in DOMAIN g_relations : HeaderBlock(m) = x
    BY <1>1, <2>1, <2>2, OwnBlocksOf
  <2>3. CASE \E m \in DOMAIN g_relations, l \in Kinds :
                 \E j \in 1 .. Size(l) : Entry(m, l, j) = x
    BY <1>1, <1>2, <2>1, <2>3, OwnBlocksOf
  <2>. QED
    BY <2>1, <2>2, <2>3 DEF BlocksInv, NoneLost
<1>8. NoneShared'
  <2>1. \A m \in DOMAIN g_relations' : m \in DOMAIN g_relations
    BY <1>1
  <2>. QED
    BY <1>1, <1>2, <2>1 DEF BlocksInv, NoneShared
<1>9. Counted'
  <2>1. \A m \in DOMAIN g_relations', l \in Kinds : Filled(m, l)' = Filled(m, l)
    BY <1>2 DEF Filled
  <2>. QED
    BY <1>1, <2>1 DEF BlocksInv, Counted
<1>. QED
  BY <1>5, <1>6, <1>7, <1>8, <1>9 DEF BlocksInv

(***************************************************************************)
(* The new relation's attributes and its rows in the dictionary            *)
(***************************************************************************)
LEMMA RestIsSequence ==
    ASSUME TargetsExist, NEW c, Exists(c.q)
    PROVE \E k \in Nat : DOMAIN Rest(c) = 1 .. k
<1>. DEFINE joined    == {AttrIndex(AttrsOf(c.q), c.attrs[j]) : j \in DOMAIN c.attrs}
            positions == DOMAIN AttrsOf(c.q)
<1>1. IsSequence(AttrsOf(c.q))
  BY DEF TargetsExist, Exists
<1>2. IsFiniteSet(positions)
  BY <1>1, SequenceDomain, FS_Interval
<1>3. Cardinality(positions \ joined) \in Nat
  BY <1>2, FS_Difference, FS_CardinalityType
<1>4. DOMAIN Rest(c) = 1 .. Cardinality(positions \ joined)
  BY DEF Rest, Picked
<1>. QED
  BY <1>3, <1>4

LEMMA ResultAttrsAreSequence ==
    ASSUME TargetsExist, NEW c \in Commands, c.verb \in Makers, Accepted(c)
    PROVE IsSequence(ResultAttrs(c))
<1>1. CASE c.verb = "CR"
  BY <1>1, StorageAssumption DEF ResultAttrs, IsSequence
<1>2. CASE c.verb = "PJ"
  <2>1. IsSequence(c.attrs)
    BY <1>2, StorageAssumption DEF IsSequence
  <2>2. Len(c.attrs) \in Nat /\ DOMAIN c.attrs = 1 .. Len(c.attrs)
    BY <2>1, SequenceDomain
  <2>3. ResultAttrs(c) = [i \in DOMAIN c.attrs |-> ResultAttrs(c)[i]]
    BY <1>2 DEF ResultAttrs
  <2>. QED
    BY <2>2, <2>3, FunctionIsSequence
<1>3. CASE c.verb = "NJ"
  <2>. DEFINE ps == AttrsOf(c.p)
              qs == [i \in DOMAIN Rest(c) |-> AttrsOf(c.q)[Rest(c)[i]]]
  <2>1. Exists(c.p) /\ Exists(c.q)
    BY <1>3 DEF Accepted
  <2>2. ps \in Seq(Range(ps))
    BY <2>1 DEF TargetsExist, Exists, IsSequence
  <2>3. PICK k \in Nat : DOMAIN Rest(c) = 1 .. k
    BY <2>1, RestIsSequence
  <2>4. qs = [i \in 1 .. k |-> qs[i]]
    BY <2>3
  <2>5. ResultAttrs(c) = ps \o qs
    BY <1>3 DEF ResultAttrs
  <2>. HIDE DEF ps, qs
  <2>6. qs \in Seq(Range(qs))
    BY <2>4, FunctionIsSequence DEF IsSequence
  <2>7. ps \in Seq(Range(ps) \union Range(qs)) /\ qs \in Seq(Range(ps) \union Range(qs))
    BY <2>2, <2>6, SeqMonotonic
  <2>8. ps \o qs \in Seq(Range(ps) \union Range(qs))
    BY <2>7, ConcatProperties
  <2>. QED
    BY <2>5, <2>8, SeqOfRange DEF IsSequence
<1>4. CASE c.verb \in {"SL", "UN", "DF"}
  <2>1. Exists(c.p)
    BY <1>4 DEF Accepted
  <2>2. ResultAttrs(c) = AttrsOf(c.p)
    BY <1>4 DEF ResultAttrs
  <2>. QED
    BY <2>1, <2>2 DEF TargetsExist, Exists
<1>. QED
  BY <1>1, <1>2, <1>3, <1>4 DEF Makers

LEMMA DictionaryRowsTyped ==
    ASSUME NEW name, NEW attrs, IsSequence(attrs), NEW block
    PROVE /\ IsSequence(DictionaryRows(name, attrs, block))
          /\ \A i \in DOMAIN DictionaryRows(name, attrs, block) :
                 DictionaryRows(name, attrs, block)[i].to \in {"catalog", "columns"}
<1>. DEFINE first == [to |-> "catalog", row |-> <<name, block>>]
            rest  == [i \in DOMAIN attrs |-> [to |-> "columns", row |-> <<name, attrs[i].name, i>>]]
            T     == {first} \union Range(rest)
            rows  == DictionaryRows(name, attrs, block)
<1>1. Len(attrs) \in Nat /\ DOMAIN attrs = 1 .. Len(attrs)
  BY SequenceDomain
<1>2. \A x \in T : x.to \in {"catalog", "columns"}
  BY DEF Range
<1>3. <<first>> \in Seq(T)
  OBVIOUS
<1>4. rest \in Seq(T)
  <2>1. rest = [i \in 1 .. Len(attrs) |-> rest[i]]
    BY <1>1
  <2>. HIDE DEF rest
  <2>2. rest \in Seq(Range(rest))
    BY <1>1, <2>1, FunctionIsSequence DEF IsSequence
  <2>. QED
    BY <2>2, SeqMonotonic
<1>5. rows = <<first>> \o rest
  BY DEF DictionaryRows
<1>. HIDE DEF first, rest, rows, T
<1>6. rows \in Seq(T)
  BY <1>3, <1>4, <1>5, ConcatProperties
<1>7. IsSequence(rows)
  BY <1>6, SeqOfRange DEF IsSequence
<1>8. \A i \in DOMAIN rows : rows[i] \in T
  BY <1>6, LenProperties, ElementOfSeq
<1>. QED
  BY <1>2, <1>7, <1>8 DEF rows

LEMMA PendingHeadTail ==
    ASSUME TargetsExist, pending # << >>
    PROVE /\ Head(pending).to \in DOMAIN g_relations \intersect {"catalog", "columns"}
          /\ IsSequence(Tail(pending))
          /\ \A i \in DOMAIN Tail(pending) : Tail(pending)[i].to \in {"catalog", "columns"}
<1>. DEFINE T == {x \in Range(pending) : x.to \in {"catalog", "columns"}}
<1>1. pending \in Seq(Range(pending)) /\ Range(pending) \subseteq T
  BY DEF TargetsExist, IsSequence, Range
<1>2. pending \in Seq(T)
  BY <1>1, SeqMonotonic
<1>. HIDE DEF T
<1>3. Head(pending) \in T /\ Tail(pending) \in Seq(T)
  BY <1>2, HeadTailProperties
<1>4. \A i \in DOMAIN Tail(pending) : Tail(pending)[i] \in T
  BY <1>3, LenProperties, ElementOfSeq
<1>5. IsSequence(Tail(pending))
  BY <1>3, SeqOfRange DEF IsSequence
<1>. QED
  BY <1>3, <1>4, <1>5 DEF T, TargetsExist

(***************************************************************************)
(* IInv is inductive                                                       *)
(***************************************************************************)
LEMMA DictionaryFacts ==
    /\ DOMAIN Dictionary = {"catalog", "columns"}
    /\ Dictionary["catalog"].header_block = 1 /\ Dictionary["columns"].header_block = 2
    /\ IsSequence(Dictionary["catalog"].attrs) /\ IsSequence(Dictionary["columns"].attrs)
<1>1. IsSequence(Attrs(<<"Relname", "Relptr">>, "S"))
  <2>1. Attrs(<<"Relname", "Relptr">>, "S")
            = [i \in 1 .. 2 |-> Attrs(<<"Relname", "Relptr">>, "S")[i]]
    BY DEF Attrs
  <2>. QED
    BY <2>1, FunctionIsSequence
<1>2. IsSequence(Attrs(<<"Relname", "Attname", "Attpos">>, "S"))
  <2>1. Attrs(<<"Relname", "Attname", "Attpos">>, "S")
            = [i \in 1 .. 3 |-> Attrs(<<"Relname", "Attname", "Attpos">>, "S")[i]]
    BY DEF Attrs
  <2>. QED
    BY <2>1, FunctionIsSequence
<1>. QED
  BY <1>1, <1>2 DEF Dictionary, Relation

LEMMA InitBlocks == Init => BlocksInv
<1>. SUFFICES ASSUME Init PROVE BlocksInv
  OBVIOUS
<1>1. /\ DOMAIN g_relations = {"catalog", "columns"}
      /\ HeaderBlock("catalog") = 1 /\ HeaderBlock("columns") = 2
  BY DictionaryFacts DEF Init, HeaderBlock
<1>2. 0 \in Blocks /\ 1 \in Blocks /\ 2 \in Blocks /\ Blocks \subseteq Nat
  BY StorageAssumption DEF Blocks
<1>3. \A n \in DOMAIN g_relations : headers[HeaderBlock(n)] = EmptyHeader
  BY <1>1, <1>2 DEF Init
<1>4. \A n \in DOMAIN g_relations, kind \in Kinds : \A i \in 1 .. Size(kind) :
          Entry(n, kind, i) = 0
  BY <1>3, EmptyHeaderFacts DEF Entry
<1>5. \A b \in Blocks : bitmapblk[b] = IF b < 3 THEN 1 ELSE 0
  BY DEF Init
<1>6. BlocksTyped
  BY <1>1, <1>2, EmptyHeaderFacts DEF BlocksTyped, Init
<1>7. Marked
  BY <1>1, <1>2, <1>4, <1>5 DEF Marked
<1>8. NoneLost
  <2>. SUFFICES ASSUME NEW b \in Blocks \ {0}, bitmapblk[b] = 1
                PROVE b = 1 \/ b = 2
    BY <1>1 DEF NoneLost
  <2>. QED
    BY <1>2, <1>5
<1>9. NoneShared
  BY <1>1, <1>4 DEF NoneShared
<1>10. Counted
  <2>. SUFFICES ASSUME NEW n \in DOMAIN g_relations, NEW kind \in Kinds
                PROVE headers[HeaderBlock(n)].num[kind] = Cardinality(Filled(n, kind))
    BY DEF Counted
  <2>1. Filled(n, kind) = {}
    BY <1>4 DEF Filled
  <2>. QED
    BY <1>3, <2>1, EmptyHeaderFacts, FS_EmptySet
<1>. QED
  BY <1>6, <1>7, <1>8, <1>9, <1>10 DEF BlocksInv

LEMMA InitTargets == Init => TargetsExist
<1>. SUFFICES ASSUME Init PROVE TargetsExist
  OBVIOUS
<1>1. IsSequence(pending) /\ DOMAIN pending = {}
  BY EmptySeq, SeqOfRange DEF Init, IsSequence
<1>2. \A n \in DOMAIN g_relations : IsSequence(AttrsOf(n))
  BY DictionaryFacts DEF Init, AttrsOf
<1>. QED
  BY <1>1, <1>2, DictionaryFacts DEF Init, TargetsExist

LEMMA DescribeEffect ==
    ASSUME HashInRange, IInv, Describe
    PROVE /\ Head(pending).to \in DOMAIN g_relations \intersect {"catalog", "columns"}
          /\ RowEffect(Head(pending).to, Head(pending).row)
BY AppendTupleEffect, PendingHeadTail DEF Describe, IInv, BlocksInv

\* The four actions that write rows write them to the relation the command is
\* for, or to the dictionary.
WriteTargets == IF pc = "dictionary" THEN {"catalog", "columns"} ELSE Targets

LEMMA WritersEffect ==
    ASSUME HashInRange, IInv, CarryOutLine \/ Describe \/ DeriveRow \/ JoinRow
    PROVE \E n \in DOMAIN g_relations : AppendEffect(n) /\ n \in WriteTargets
<1>. USE DEF WriteTargets
<1>1. ASSUME NEW n \in DOMAIN g_relations, NEW row, RowEffect(n, row) PROVE AppendEffect(n)
  BY <1>1, RowEffectBlocks DEF IInv
<1>2. ASSUME NEW n \in DOMAIN g_relations, NEW row, AppendTuple(n, row)
      PROVE AppendEffect(n)
  BY <1>1, <1>2, AppendTupleEffect DEF IInv, BlocksInv
<1>3. ASSUME NEW n \in DOMAIN g_relations, NEW key, NEW place \in Found(n, key), NEW row,
             WriteTuple(place[1], place[2], row)
      PROVE AppendEffect(n)
  <2>1. place[1] \in Blocks \ {0} /\ IsEntry(n, place[1])
    BY <1>3, FoundInEntry DEF IInv, BlocksInv
  <2>. QED
    BY <1>1, <1>3, <2>1, WriteEffect
<1>4. ASSUME NEW n \in DOMAIN g_relations, UNCHANGED storage PROVE AppendEffect(n)
  BY <1>1, <1>4, StillEffect
<1>5. ASSUME NEW n \in DOMAIN g_relations, NEW rows, Emit(n, rows)
      PROVE AppendEffect(n)
  BY <1>2, <1>4, <1>5 DEF Emit
<1>6. CASE CarryOutLine
  <2>1. command.p \in DOMAIN g_relations
    BY <1>6 DEF CarryOutLine, IInv, TargetsExist, Exists
  <2>2. command.p \in Targets
    BY <1>6 DEF CarryOutLine, Targets
  <2>3. CASE InsertLine(command.p, Head(lines))
    BY <1>2, <1>6, <1>4, <2>1, <2>2, <2>3 DEF InsertLine, CarryOutLine
  <2>4. CASE RemoveLine(command.p, Head(lines))
    BY <1>3, <1>6, <1>4, <2>1, <2>2, <2>4 DEF RemoveLine, CarryOutLine
  <2>5. CASE UpdateLine(command.p, Head(lines))
    BY <1>3, <1>6, <1>4, <2>1, <2>2, <2>5 DEF UpdateLine, FoundLike, CarryOutLine
  <2>. QED
    BY <1>6, <2>3, <2>4, <2>5 DEF CarryOutLine
<1>7. CASE Describe
  BY <1>1, <1>7, DescribeEffect DEF Describe
<1>8. CASE DeriveRow
  <2>1. command.r \in DOMAIN g_relations
    BY <1>8 DEF DeriveRow, IInv, TargetsExist, Exists, Derivers
  <2>2. command.r \in Targets
    BY <1>8 DEF DeriveRow, Targets, Makers
  <2>. QED
    BY <1>5, <1>8, <2>1, <2>2 DEF DeriveRow
<1>9. CASE JoinRow
  <2>1. command.verb = "NJ"
    BY <1>9 DEF JoinRow, IInv, TargetsExist
  <2>2. command.r \in DOMAIN g_relations
    BY <1>9, <2>1 DEF JoinRow, IInv, TargetsExist, Exists, Derivers
  <2>3. command.r \in Targets
    BY <2>1 DEF Targets, Makers
  <2>. QED
    BY <1>5, <1>9, <2>2, <2>3 DEF JoinRow
<1>. QED
  BY <1>6, <1>7, <1>8, <1>9

LEMMA BlocksStep == HashInRange /\ IInv /\ [Next]_vars => BlocksInv'
<1>. SUFFICES ASSUME HashInRange, IInv, [Next]_vars PROVE BlocksInv'
  OBVIOUS
<1>. USE DEF IInv
<1>1. ASSUME NEW c \in Commands, BeginCreate(c) PROVE BlocksInv'
  <2>. DEFINE hb == Min(FreeBlocks)
  <2>1. FreeBlocks # {} /\ c.verb \in Makers /\ Accepted(c)
    BY <1>1 DEF BeginCreate
  <2>2. hb \in Blocks /\ bitmapblk[hb] = 0
    BY <2>1, FreeBlockIsFree
  <2>3. headers' = [headers EXCEPT ![hb] = EmptyHeader]
    BY <1>1 DEF BeginCreate
  <2>4. ResultName(c) \notin DOMAIN g_relations
    BY <2>1 DEF Accepted, Exists
  <2>. HIDE DEF hb
  <2>5. CASE Cardinality(DOMAIN g_relations) < MAX_REL
    <3>1. /\ bitmapblk' = [bitmapblk EXCEPT ![hb] = 1]
          /\ DOMAIN g_relations' = DOMAIN g_relations \union {ResultName(c)}
          /\ g_relations'[ResultName(c)].header_block = hb
          /\ \A m \in DOMAIN g_relations : g_relations'[m] = g_relations[m]
      BY <1>1, <2>4, <2>5 DEF BeginCreate, Relation, hb
    <3>. QED
      BY <2>2, <2>3, <2>4, <3>1, MakeStep
  <2>6. CASE ~ (Cardinality(DOMAIN g_relations) < MAX_REL)
    <3>1. UNCHANGED <<bitmapblk, g_relations>>
      BY <1>1, <2>6 DEF BeginCreate
    <3>. QED
      BY <2>2, <2>3, <3>1, NoEntryStep
  <2>. QED
    BY <2>5, <2>6
<1>2. ASSUME NEW c \in Commands, Delete(c) PROVE BlocksInv'
  <2>1. c.p \in DOMAIN g_relations
    BY <1>2 DEF Delete, Accepted, Exists
  <2>. QED
    BY <1>2, <2>1, DeleteStep DEF Delete
<1>3. CASE CarryOutLine \/ Describe \/ DeriveRow \/ JoinRow
  <2>1. UNCHANGED g_relations
    BY <1>3 DEF CarryOutLine, Describe, DeriveRow, JoinRow
  <2>. QED
    BY <1>3, <2>1, WritersEffect, AppendStep
<1>4. ASSUME UNCHANGED <<storage, g_relations>> PROVE BlocksInv'
  BY <1>4, StillStep DEF NoBlockMoves, storage
<1>5. ASSUME NEW c \in Commands, Refuse(c) \/ BeginLines(c) \/ BeginPrint(c)
      PROVE UNCHANGED <<storage, g_relations>>
  BY <1>5 DEF Refuse, BeginLines, BeginPrint, vars, storage
<1>6. CASE EndLines \/ EndDictionary \/ PrintRow \/ BeginSecond \/ BeginJoin \/ EndJoin \/ EndScan
  <2>1. UNCHANGED <<storage, g_relations>>
    BY <1>6 DEF EndLines, EndDictionary, PrintRow, BeginSecond, BeginJoin, EndJoin, EndScan, storage
  <2>. QED
    BY <1>4, <2>1
<1>7. ASSUME NEW w \in {"scan", "join"}, LoadBlock(w) \/ SkipSlot(w)
      PROVE UNCHANGED <<storage, g_relations>>
  BY <1>7 DEF LoadBlock, SkipSlot, storage
<1>8. CASE UNCHANGED vars
  BY <1>4, <1>8 DEF vars, storage
<1>. QED
  BY <1>1, <1>2, <1>3, <1>4, <1>5, <1>6, <1>7, <1>8 DEF Next

LEMMA TargetsStep == IInv /\ [Next]_vars => TargetsExist'
<1>. SUFFICES ASSUME TargetsExist, [Next]_vars PROVE TargetsExist'
  BY DEF IInv
\* Steps that change none of these, and steps of a command that goes on or ends.
<1>1. ASSUME UNCHANGED <<g_relations, pending, pc, command>> PROVE TargetsExist'
  BY <1>1 DEF TargetsExist, AttrsOf, Exists
<1>2. ASSUME UNCHANGED <<g_relations, pending>>, pc' = "idle" PROVE TargetsExist'
  BY <1>2 DEF TargetsExist, AttrsOf, Exists
<1>3. ASSUME UNCHANGED <<g_relations, pending, command>>,
             pc \in {"dictionary", "scan", "second", "join"}, pc' \in {"scan", "second"}
      PROVE TargetsExist'
  BY <1>3 DEF TargetsExist, AttrsOf, Exists
<1>4. ASSUME NEW c \in Commands, BeginCreate(c) PROVE TargetsExist'
  <2>. DEFINE hb == Min(FreeBlocks)
              name == ResultName(c)
              attrs == ResultAttrs(c)
  <2>1. CASE Cardinality(DOMAIN g_relations) < MAX_REL
    <3>1. c.verb \in Makers /\ Accepted(c) /\ name \notin DOMAIN g_relations
      BY <1>4 DEF BeginCreate, Accepted, Exists
    <3>2. IsSequence(attrs)
      BY <3>1, ResultAttrsAreSequence
    <3>3. /\ DOMAIN g_relations' = DOMAIN g_relations \union {name}
          /\ g_relations'[name].attrs = attrs
          /\ \A m \in DOMAIN g_relations : g_relations'[m] = g_relations[m]
      BY <1>4, <2>1, <3>1 DEF BeginCreate, Relation
    <3>4. /\ pending' = DictionaryRows(name, attrs, hb)
          /\ pc' = "dictionary" /\ command' = c
      BY <1>4, <2>1 DEF BeginCreate
    <3>5. c.verb \in Derivers => name = c.r
      BY DEF Derivers, ResultName
    <3>. HIDE DEF hb, name, attrs
    <3>6. \A n \in DOMAIN g_relations' : IsSequence(g_relations'[n].attrs)
      BY <3>2, <3>3 DEF TargetsExist, AttrsOf
    <3>7. /\ IsSequence(pending')
          /\ \A i \in DOMAIN pending' : pending'[i].to \in {"catalog", "columns"}
      BY <3>2, <3>4, DictionaryRowsTyped
    <3>8. {"catalog", "columns"} \subseteq DOMAIN g_relations'
      BY <3>3 DEF TargetsExist
    <3>. QED
      BY <3>3, <3>4, <3>5, <3>6, <3>7, <3>8 DEF TargetsExist, AttrsOf, Exists
  <2>2. CASE ~ (Cardinality(DOMAIN g_relations) < MAX_REL)
    BY <1>1, <1>4, <2>2 DEF BeginCreate
  <2>. QED
    BY <2>1, <2>2
<1>5. ASSUME NEW c \in Commands, Delete(c) PROVE TargetsExist'
  <2>1. c.p \notin {"catalog", "columns"}
    BY <1>5, DictionaryFacts DEF Delete, Accepted, IsDictionary
  <2>2. /\ DOMAIN g_relations' = DOMAIN g_relations \ {c.p}
        /\ \A m \in DOMAIN g_relations' : g_relations'[m] = g_relations[m]
        /\ pc' = "idle" /\ pending' = pending
    BY <1>5 DEF Delete
  <2>. QED
    BY <2>1, <2>2 DEF TargetsExist, AttrsOf, Exists
<1>6. ASSUME NEW c \in Commands, BeginLines(c) PROVE TargetsExist'
  <2>1. /\ c.p \in DOMAIN g_relations
        /\ pc' = "lines" /\ command' = c /\ UNCHANGED <<g_relations, pending>>
    BY <1>6 DEF BeginLines, Accepted, Exists
  <2>. QED
    BY <2>1 DEF TargetsExist, AttrsOf, Exists
<1>7. ASSUME NEW c \in Commands, BeginPrint(c) PROVE TargetsExist'
  <2>1. c.verb = "PR" /\ pc' = "scan" /\ command' = c /\ UNCHANGED <<g_relations, pending>>
    BY <1>7 DEF BeginPrint
  <2>. QED
    BY <2>1 DEF TargetsExist, AttrsOf, Exists, Derivers
<1>8. CASE Describe
  <2>1. /\ IsSequence(Tail(pending))
        /\ \A i \in DOMAIN Tail(pending) : Tail(pending)[i].to \in {"catalog", "columns"}
    BY <1>8, PendingHeadTail DEF Describe
  <2>2. pending' = Tail(pending) /\ UNCHANGED <<g_relations, pc, command>>
    BY <1>8 DEF Describe
  <2>. QED
    BY <2>1, <2>2 DEF TargetsExist, AttrsOf, Exists
<1>9. CASE EndDictionary
  <2>1. CASE command.verb = "CR"
    BY <1>2, <1>9, <2>1 DEF EndDictionary, EndCommand
  <2>2. CASE command.verb # "CR"
    BY <1>3, <1>9, <2>2 DEF EndDictionary
  <2>. QED
    BY <2>1, <2>2
<1>10. CASE EndLines \/ EndScan
  BY <1>2, <1>10 DEF EndLines, EndScan, EndCommand
<1>11. CASE BeginSecond \/ EndJoin
  BY <1>3, <1>11 DEF BeginSecond, EndJoin
<1>12. CASE BeginJoin
  <2>1. /\ pc = "scan" /\ command.verb = "NJ"
        /\ pc' = "join" /\ UNCHANGED <<g_relations, pending, command>>
    BY <1>12 DEF BeginJoin
  <2>. QED
    BY <2>1 DEF TargetsExist, AttrsOf, Exists
<1>13. CASE CarryOutLine \/ DeriveRow \/ JoinRow \/ PrintRow
  BY <1>1, <1>13 DEF CarryOutLine, DeriveRow, JoinRow, PrintRow
<1>14. ASSUME NEW w \in {"scan", "join"}, LoadBlock(w) \/ SkipSlot(w) PROVE TargetsExist'
  BY <1>1, <1>14 DEF LoadBlock, SkipSlot
<1>15. ASSUME NEW c \in Commands, Refuse(c) PROVE TargetsExist'
  BY <1>1, <1>15 DEF Refuse, vars
<1>16. CASE UNCHANGED vars
  BY <1>1, <1>16 DEF vars
<1>. QED
  BY <1>4, <1>5, <1>6, <1>7, <1>8, <1>9, <1>10, <1>11, <1>12, <1>13, <1>14, <1>15, <1>16 DEF Next

LEMMA DiskStep == HashInRange /\ IInv /\ [Next]_vars => DiskTyped'
<1>. SUFFICES ASSUME HashInRange, IInv, [Next]_vars PROVE DiskTyped'
  OBVIOUS
<1>1. ASSUME UNCHANGED virtual_disk PROVE DiskTyped'
  BY <1>1 DEF IInv, DiskTyped
<1>2. ASSUME NEW c \in Commands, Delete(c) PROVE DiskTyped'
  BY <1>2 DEF Delete, DiskTyped
<1>3. CASE CarryOutLine \/ Describe \/ DeriveRow \/ JoinRow
  BY <1>1, <1>3, WritersEffect DEF AppendEffect, WritesTo
<1>4. ASSUME NEW c \in Commands, Refuse(c) \/ BeginCreate(c) \/ BeginLines(c) \/ BeginPrint(c)
      PROVE UNCHANGED virtual_disk
  BY <1>4 DEF Refuse, BeginCreate, BeginLines, BeginPrint, vars, storage
<1>5. CASE EndLines \/ EndDictionary \/ PrintRow \/ BeginSecond \/ BeginJoin \/ EndJoin \/ EndScan
  BY <1>1, <1>5
     DEF EndLines, EndDictionary, PrintRow, BeginSecond, BeginJoin, EndJoin, EndScan, storage
<1>6. ASSUME NEW w \in {"scan", "join"}, LoadBlock(w) \/ SkipSlot(w) PROVE UNCHANGED virtual_disk
  BY <1>6 DEF LoadBlock, SkipSlot, storage
<1>7. CASE UNCHANGED vars
  BY <1>1, <1>7 DEF vars, storage
<1>. QED
  BY <1>1, <1>2, <1>3, <1>4, <1>5, <1>6, <1>7 DEF Next

\* No block is lost, given out twice or shared, the headers count their blocks
\* right, and a command that writes has a relation to write to.
THEOREM StorageInvariant ==
    ASSUME HashInRange
    PROVE Spec => []IInv
<1>1. Init => IInv
  BY InitBlocks, InitTargets DEF IInv, Init, DiskTyped, EmptyBlock
<1>2. IInv /\ [Next]_vars => IInv'
  BY BlocksStep, TargetsStep, DiskStep DEF IInv
<1>. QED
  BY <1>1, <1>2, PTL DEF Spec

\* Every block that is marked belongs to one relation, in one place, and every
\* block of a relation is marked, for every size of the disk and every input.
THEOREM StorageBlocksOwnedOnce ==
    ASSUME HashInRange
    PROVE Spec => []BlocksOwnedOnce
<1>1. IInv => BlocksOwnedOnce
  <2>. SUFFICES ASSUME BlocksInv, NEW b \in Blocks
                PROVE /\ (bitmapblk[b] = 1) <=> (b = 0 \/ Owners(b) # {})
                      /\ \A x, y \in Owners(b) : x = y
    BY DEF IInv, BlocksOwnedOnce
  <2>. DEFINE Hs == {<<n, "header", 0>> : n \in {m \in DOMAIN g_relations : HeaderBlock(m) = b}}
              Es == {x \in (DOMAIN g_relations) \X Kinds \X (1 .. BLKMAX + OVBLKMAX) :
                        /\ b # 0
                        /\ x[3] \in DOMAIN Header(x[1])[x[2]]
                        /\ Header(x[1])[x[2]][x[3]] = b}
  <2>1. Owners(b) = Hs \union Es
    BY DEF Owners, HeaderBlock, Kinds
  <2>2. ASSUME NEW x
        PROVE x \in Es <=> /\ b # 0
                           /\ \E n \in DOMAIN g_relations, kind \in Kinds :
                                  \E i \in 1 .. Size(kind) :
                                      x = <<n, kind, i>> /\ Entry(n, kind, i) = b
    <3>1. ASSUME NEW n \in DOMAIN g_relations, NEW kind \in Kinds
          PROVE /\ DOMAIN Header(n)[kind] = 1 .. Size(kind)
                /\ \A i : Header(n)[kind][i] = Entry(n, kind, i)
                /\ 1 .. Size(kind) \subseteq 1 .. BLKMAX + OVBLKMAX
      <4>1. 1 .. Size(kind) \subseteq 1 .. BLKMAX + OVBLKMAX
        BY StorageAssumption DEF Size
      <4>. QED
        BY <4>1, EntryTyped DEF BlocksInv, Entry
    <3>2. ASSUME x \in Es
          PROVE /\ b # 0
                /\ \E n \in DOMAIN g_relations, kind \in Kinds :
                       \E i \in 1 .. Size(kind) :
                           x = <<n, kind, i>> /\ Entry(n, kind, i) = b
      <4>1. /\ x[1] \in DOMAIN g_relations /\ x[2] \in Kinds /\ x = <<x[1], x[2], x[3]>>
            /\ b # 0 /\ x[3] \in DOMAIN Header(x[1])[x[2]] /\ Header(x[1])[x[2]][x[3]] = b
        BY <3>2
      <4>2. x[3] \in 1 .. Size(x[2]) /\ Entry(x[1], x[2], x[3]) = b
        BY <3>1, <4>1
      <4>. QED
        BY <4>1, <4>2
    <3>3. ASSUME b # 0, NEW n \in DOMAIN g_relations, NEW kind \in Kinds,
                 NEW i \in 1 .. Size(kind), x = <<n, kind, i>>, Entry(n, kind, i) = b
          PROVE x \in Es
      <4>1. x \in (DOMAIN g_relations) \X Kinds \X (1 .. BLKMAX + OVBLKMAX)
        BY <3>1, <3>3
      <4>2. x[1] = n /\ x[2] = kind /\ x[3] = i
        BY <3>3
      <4>. QED
        BY <3>1, <3>3, <4>1, <4>2
    <3>. QED
      BY <3>2, <3>3
  <2>3. \A x : x \in Hs <=> \E n \in DOMAIN g_relations : HeaderBlock(n) = b /\ x = <<n, "header", 0>>
    OBVIOUS
  <2>. HIDE DEF Hs, Es
  <2>4. (bitmapblk[b] = 1) <=> (b = 0 \/ Owners(b) # {})
    <3>1. ASSUME bitmapblk[b] = 1, b # 0 PROVE Owners(b) # {}
      <4>1. ASSUME NEW n \in DOMAIN g_relations, HeaderBlock(n) = b PROVE Owners(b) # {}
        <5>1. <<n, "header", 0>> \in Hs
          BY <2>3, <4>1
        <5>. QED
          BY <2>1, <5>1
      <4>2. ASSUME NEW n \in DOMAIN g_relations, NEW kind \in Kinds, NEW i \in 1 .. Size(kind),
                   Entry(n, kind, i) = b
            PROVE Owners(b) # {}
        <5>1. <<n, kind, i>> \in Es
          BY <2>2, <3>1, <4>2
        <5>. QED
          BY <2>1, <5>1
      <4>. QED
        BY <3>1, <4>1, <4>2 DEF BlocksInv, NoneLost
    <3>2. ASSUME NEW x \in Owners(b) PROVE bitmapblk[b] = 1
      BY <2>1, <2>2, <2>3, <3>2 DEF BlocksInv, Marked
    <3>3. bitmapblk[0] = 1
      BY DEF BlocksInv, Marked
    <3>. QED
      BY <3>1, <3>2, <3>3
  <2>5. ASSUME NEW x \in Owners(b), NEW y \in Owners(b) PROVE x = y
    <3>1. CASE x \in Hs /\ y \in Hs
      BY <2>3, <3>1 DEF BlocksInv, NoneShared
    <3>2. CASE x \in Es /\ y \in Es
      BY <2>2, <3>2 DEF BlocksInv, NoneShared
    <3>3. CASE x \in Hs /\ y \in Es
      BY <2>2, <2>3, <3>3 DEF BlocksInv, NoneShared
    <3>4. CASE x \in Es /\ y \in Hs
      BY <2>2, <2>3, <3>4 DEF BlocksInv, NoneShared
    <3>. QED
      BY <2>1, <2>5, <3>1, <3>2, <3>3, <3>4
  <2>. QED
    BY <2>4, <2>5
<1>. QED
  BY <1>1, StorageInvariant, PTL

(***************************************************************************)
(* What a step leaves alone                                                *)
(***************************************************************************)
\* A relation of which no block, nor the list of its blocks, is written.
Untouched(n) ==
    /\ g_relations'[n] = g_relations[n]
    /\ headers'[HeaderBlock(n)] = headers[HeaderBlock(n)]
    /\ \A b \in RowBlocks(n), s \in 1 .. BLKFAC : virtual_disk'[b][s] = virtual_disk[b][s]

LEMMA SameRows ==
    ASSUME NEW n, Untouched(n)
    PROVE /\ RowBlocks(n)' = RowBlocks(n) /\ Rows(n)' = Rows(n)
          /\ \A place \in RowBlocks(n) \X (1 .. BLKFAC) : RowAt(place)' = RowAt(place)
<1>1. Header(n)' = Header(n)
  BY DEF Header, HeaderBlock, Untouched
<1>2. RowBlocks(n)' = RowBlocks(n)
  BY <1>1 DEF RowBlocks, Untouched
<1>3. \A place \in RowBlocks(n) \X (1 .. BLKFAC) : RowAt(place)' = RowAt(place)
  BY DEF RowAt, Untouched
<1>. QED
  BY <1>2, <1>3 DEF Rows

LEMMA StillUntouched ==
    ASSUME NEW n, UNCHANGED <<storage, g_relations>>
    PROVE Untouched(n)
BY DEF Untouched, storage

LEMMA WriteFrame ==
    ASSUME IInv, UNCHANGED g_relations, NEW t \in DOMAIN g_relations, AppendEffect(t),
           NEW n \in DOMAIN g_relations, n # t
    PROVE Untouched(n)
<1>1. headers'[HeaderBlock(n)] = headers[HeaderBlock(n)]
  <2>1. CASE NoBlockMoves
    BY <2>1 DEF NoBlockMoves
  <2>2. ASSUME NEW kind, NEW i, NEW b, TakesBlock(t, kind, i, b)
        PROVE headers'[HeaderBlock(n)] = headers[HeaderBlock(n)]
    <3>1. HeaderBlock(n) # HeaderBlock(t) /\ HeaderBlock(n) \in DOMAIN headers
      BY DEF IInv, BlocksInv, BlocksTyped, NoneShared
    <3>2. headers' = [headers EXCEPT ![HeaderBlock(t)] =
                         Updated(headers[HeaderBlock(t)], kind, i, b)]
      BY <2>2 DEF TakesBlock
    <3>. QED
      BY <3>1, <3>2
  <2>. QED
    BY <2>1, <2>2 DEF AppendEffect
<1>2. ASSUME NEW x \in RowBlocks(n) PROVE virtual_disk'[x] = virtual_disk[x]
  <2>1. x \in DOMAIN virtual_disk /\ x # 0 /\ IsEntry(n, x)
    BY RowBlockIsEntry DEF IInv, BlocksInv, DiskTyped
  <2>2. bitmapblk[x] = 1
    BY <2>1 DEF IsEntry, IInv, BlocksInv, Marked
  <2>3. ~ IsEntry(t, x)
    BY <2>1 DEF IsEntry, IInv, BlocksInv, NoneShared
  <2>. QED
    BY <2>1, <2>2, <2>3 DEF AppendEffect, WritesTo, IInv, DiskTyped
<1>. QED
  BY <1>1, <1>2 DEF Untouched

LEMMA CreateFrame ==
    ASSUME IInv, NEW c \in Commands, BeginCreate(c), NEW n \in DOMAIN g_relations
    PROVE Untouched(n)
<1>. DEFINE hb == Min(FreeBlocks)
<1>1. FreeBlocks # {} /\ ResultName(c) # n
  BY DEF BeginCreate, Accepted, Exists
<1>2. hb \in Blocks /\ bitmapblk[hb] = 0
  BY <1>1, FreeBlockIsFree
<1>3. /\ headers' = [headers EXCEPT ![hb] = EmptyHeader]
      /\ UNCHANGED virtual_disk /\ g_relations'[n] = g_relations[n]
  BY <1>1 DEF BeginCreate
<1>. HIDE DEF hb
<1>4. headers'[HeaderBlock(n)] = headers[HeaderBlock(n)]
  BY <1>2, <1>3, ResetHeaders DEF IInv
<1>. QED
  BY <1>3, <1>4 DEF Untouched

LEMMA DeleteFrame ==
    ASSUME IInv, NEW c \in Commands, Delete(c),
           NEW n \in DOMAIN g_relations, n # c.p, n \notin {"catalog", "columns"}
    PROVE Untouched(n)
<1>1. UNCHANGED headers /\ g_relations'[n] = g_relations[n]
  BY DEF Delete
<1>2. ASSUME NEW b \in RowBlocks(n), NEW s \in 1 .. BLKFAC
      PROVE virtual_disk'[b][s] = virtual_disk[b][s]
  <2>1. b \in Blocks \ {0} /\ IsEntry(n, b)
    BY RowBlockIsEntry DEF IInv, BlocksInv
  <2>2. b \notin DictionaryBlocks
    <3>1. ASSUME NEW d \in {"catalog", "columns"}, b \in RowBlocks(d) PROVE FALSE
      <4>1. d \in DOMAIN g_relations /\ d # n
        BY DEF IInv, TargetsExist
      <4>2. IsEntry(d, b)
        BY <3>1, <4>1, RowBlockIsEntry DEF IInv, BlocksInv
      <4>. QED
        BY <2>1, <4>1, <4>2 DEF IsEntry, IInv, BlocksInv, NoneShared
    <3>. QED
      BY <3>1 DEF DictionaryBlocks
  <2>3. ~ Describes(b, s, c.p)
    BY <2>2 DEF Describes
  <2>. QED
    BY <2>1, <2>3 DEF Delete
<1>. QED
  BY <1>1, <1>2 DEF Untouched

LEMMA FrameStep ==
    ASSUME HashInRange, IInv, Next,
           NEW n \in DOMAIN g_relations \intersect DOMAIN g_relations',
           n \notin {"catalog", "columns"}, n \notin Targets
    PROVE Untouched(n)
<1>1. ASSUME UNCHANGED <<storage, g_relations>> PROVE Untouched(n)
  BY <1>1, StillUntouched
<1>2. ASSUME NEW c \in Commands, BeginCreate(c) PROVE Untouched(n)
  BY <1>2, CreateFrame
<1>3. ASSUME NEW c \in Commands, Delete(c) PROVE Untouched(n)
  <2>1. n # c.p
    BY <1>3 DEF Delete
  <2>. QED
    BY <1>3, <2>1, DeleteFrame
<1>4. CASE CarryOutLine \/ Describe \/ DeriveRow \/ JoinRow
  <2>1. UNCHANGED g_relations
    BY <1>4 DEF CarryOutLine, Describe, DeriveRow, JoinRow
  <2>2. PICK t \in DOMAIN g_relations :
            AppendEffect(t) /\ t \in WriteTargets
    BY <1>4, WritersEffect
  <2>3. n # t
    BY <2>2 DEF WriteTargets
  <2>. QED
    BY <2>1, <2>2, <2>3, WriteFrame
<1>5. ASSUME NEW c \in Commands, Refuse(c) \/ BeginLines(c) \/ BeginPrint(c)
      PROVE Untouched(n)
  BY <1>1, <1>5 DEF Refuse, BeginLines, BeginPrint, vars
<1>6. CASE EndLines \/ EndDictionary \/ PrintRow \/ BeginSecond \/ BeginJoin \/ EndJoin \/ EndScan
  BY <1>1, <1>6 DEF EndLines, EndDictionary, PrintRow, BeginSecond, BeginJoin, EndJoin, EndScan
<1>7. ASSUME NEW w \in {"scan", "join"}, LoadBlock(w) \/ SkipSlot(w)
      PROVE Untouched(n)
  BY <1>1, <1>7 DEF LoadBlock, SkipSlot
<1>. QED
  BY <1>2, <1>3, <1>4, <1>5, <1>6, <1>7 DEF Next

\* Whatever a command does, the rows of every relation but its own stay as they
\* are: no block is shared, and the dictionary's rows go from its own blocks only.
THEOREM StorageOnlyTheTarget ==
    ASSUME HashInRange
    PROVE Spec => OnlyTheTarget
<1>. DEFINE Frame == \A n \in (DOMAIN g_relations \intersect DOMAIN g_relations') \ DOMAIN Dictionary :
                        Rows(n)' # Rows(n) => n \in Targets
<1>1. IInv /\ [Next]_vars => [Frame]_vars
  <2>. SUFFICES ASSUME IInv, Next PROVE Frame
    OBVIOUS
  <2>. QED
    BY FrameStep, SameRows, DictionaryFacts
<1>. QED
  BY <1>1, StorageInvariant, PTL DEF Spec, OnlyTheTarget

(***************************************************************************)
(* The dictionary                                                          *)
(***************************************************************************)
\* The rows that would be true of a relation, by the dictionary relation.
TrueRows(d) ==
    IF d = "catalog"
    THEN {<<n, HeaderBlock(n)>> : n \in DOMAIN g_relations \ DOMAIN Dictionary}
    ELSE UNION {{<<n, AttrsOf(n)[i].name, i>> : i \in DOMAIN AttrsOf(n)} :
                    n \in DOMAIN g_relations \ DOMAIN Dictionary}

\* What is in a dictionary relation is true, and what is going to be in it.
TellsTruth(d) ==
    /\ Rows(d) \subseteq TrueRows(d)
    /\ \A i \in DOMAIN pending : pending[i].to = d => pending[i].row \in TrueRows(d)

DictionaryInv ==
    /\ \A d \in {"catalog", "columns"} : TellsTruth(d)
    /\ pc # "dictionary" => pending = << >>
    /\ pc = "lines" => ~ IsDictionary(command.p)
    /\ pc \in {"dictionary", "scan", "second", "join"} /\ command.verb \in Derivers
           => ~ IsDictionary(command.r)

\* A row is added to a relation, or replaces one, and no other row comes with it.
LEMMA RowsGained ==
    ASSUME BlocksInv, DiskTyped, UNCHANGED g_relations,
           NEW n \in DOMAIN g_relations, NEW row, RowEffect(n, row)
    PROVE Rows(n)' \subseteq Rows(n) \union {row}
<1>1. CASE UNCHANGED storage
  BY <1>1, StillUntouched, SameRows
<1>2. ASSUME NEW b \in Blocks \ {0}, NEW s, WriteTuple(b, s, row)
      PROVE Rows(n)' \subseteq Rows(n) \union {row}
  <2>1. UNCHANGED headers /\ virtual_disk' = [virtual_disk EXCEPT ![b][s] = row]
    BY <1>2 DEF WriteTuple
  <2>2. RowBlocks(n)' = RowBlocks(n)
    BY <2>1 DEF RowBlocks, Header
  <2>3. ASSUME NEW x \in RowBlocks(n), NEW k \in 1 .. BLKFAC
        PROVE virtual_disk'[x][k] \in {virtual_disk[x][k], row}
    <3>1. x \in DOMAIN virtual_disk /\ k \in DOMAIN virtual_disk[x]
      BY RowBlockIsEntry DEF BlocksInv, DiskTyped
    <3>. QED
      BY <2>1, <3>1
  <2>. QED
    BY <2>2, <2>3 DEF Rows, RowAt
<1>3. ASSUME NEW kind \in Kinds, NEW i \in 1 .. Size(kind), FreeBlocks # {}, Grow(n, kind, i, row)
      PROVE Rows(n)' \subseteq Rows(n) \union {row}
  <2>. DEFINE b  == Min(FreeBlocks)
              hb == HeaderBlock(n)
  <2>1. b \in Blocks
    BY <1>3, FreeBlockIsFree
  <2>2. /\ headers' = [headers EXCEPT ![hb] = Updated(headers[hb], kind, i, b)]
        /\ virtual_disk' = [virtual_disk EXCEPT ![b] = [EmptyBlock EXCEPT ![1] = row]]
    BY <1>3 DEF Grow, HeaderBlock, Updated
  <2>. HIDE DEF b, hb
  <2>3. /\ hb \in DOMAIN headers /\ IsHeader(headers[hb])
        /\ Header(n) = headers[hb] /\ Header(n)' = headers'[hb]
    BY DEF BlocksInv, BlocksTyped, Header, HeaderBlock, hb
  <2>4. Header(n)' = Updated(Header(n), kind, i, b)
    BY <2>2, <2>3
  <2>5. ASSUME NEW l \in Kinds
        PROVE Range(Header(n)'[l]) \subseteq Range(Header(n)[l]) \union {b}
    <3>1. /\ IsHeader(Header(n)')
          /\ \A j \in 1 .. Size(l) :
                 Header(n)'[l][j] = IF l = kind /\ j = i THEN b ELSE Header(n)[l][j]
      BY <2>1, <2>3, <2>4, HeaderUpdate
    <3>2. DOMAIN Header(n)'[l] = 1 .. Size(l) /\ DOMAIN Header(n)[l] = 1 .. Size(l)
      BY <2>3, <3>1, EntriesTyped
    <3>. QED
      BY <3>1, <3>2 DEF Range
  <2>6. RowBlocks(n)' \subseteq RowBlocks(n) \union {b}
    BY <2>5 DEF RowBlocks, Kinds
  <2>7. ASSUME NEW x \in RowBlocks(n)', NEW k \in 1 .. BLKFAC
        PROVE \/ virtual_disk'[x][k] \in {Free, row}
              \/ x \in RowBlocks(n) /\ virtual_disk'[x][k] = virtual_disk[x][k]
    <3>1. CASE x = b
      BY <2>1, <2>2, <3>1 DEF EmptyBlock, DiskTyped
    <3>2. CASE x # b
      <4>1. x \in RowBlocks(n)
        BY <2>6, <3>2
      <4>2. x \in DOMAIN virtual_disk
        BY <4>1, RowBlockIsEntry DEF BlocksInv, DiskTyped
      <4>. QED
        BY <2>2, <3>2, <4>1, <4>2
    <3>. QED
      BY <3>1, <3>2
  <2>. QED
    BY <2>7 DEF Rows, RowAt, Free
<1>. QED
  BY <1>1, <1>2, <1>3 DEF RowEffect

\* A row about a relation that is in block, by the dictionary relation it is for.
IsAbout(d, name, attrs, block) ==
    \/ d.to = "catalog" /\ d.row = <<name, block>>
    \/ d.to = "columns" /\ \E j \in DOMAIN attrs : d.row = <<name, attrs[j].name, j>>

LEMMA DictionaryRowsTrue ==
    ASSUME NEW name, NEW attrs, IsSequence(attrs), NEW block,
           NEW i \in DOMAIN DictionaryRows(name, attrs, block)
    PROVE IsAbout(DictionaryRows(name, attrs, block)[i], name, attrs, block)
<1>. DEFINE first == [to |-> "catalog", row |-> <<name, block>>]
            rest  == [j \in DOMAIN attrs |-> [to |-> "columns", row |-> <<name, attrs[j].name, j>>]]
            T     == {first} \union Range(rest)
            rows  == DictionaryRows(name, attrs, block)
<1>1. Len(attrs) \in Nat /\ DOMAIN attrs = 1 .. Len(attrs)
  BY SequenceDomain
<1>2. \A x \in T : IsAbout(x, name, attrs, block)
  BY DEF Range, IsAbout
<1>3. <<first>> \in Seq(T)
  OBVIOUS
<1>4. rest \in Seq(T)
  <2>1. rest = [j \in 1 .. Len(attrs) |-> rest[j]]
    BY <1>1
  <2>. HIDE DEF rest
  <2>2. rest \in Seq(Range(rest))
    BY <1>1, <2>1, FunctionIsSequence DEF IsSequence
  <2>. QED
    BY <2>2, SeqMonotonic
<1>5. rows = <<first>> \o rest
  BY DEF DictionaryRows
<1>. HIDE DEF first, rest, rows, T
<1>6. rows \in Seq(T)
  BY <1>3, <1>4, <1>5, ConcatProperties
<1>7. rows[i] \in T
  BY <1>6, LenProperties, ElementOfSeq DEF rows
<1>. QED
  BY <1>2, <1>7 DEF rows

LEMMA PendingTrue ==
    ASSUME TargetsExist, pending # << >>, NEW d, TellsTruth(d)
    PROVE /\ Head(pending).to = d => Head(pending).row \in TrueRows(d)
          /\ \A i \in DOMAIN Tail(pending) :
                 Tail(pending)[i].to = d => Tail(pending)[i].row \in TrueRows(d)
<1>. DEFINE T == {x \in Range(pending) : x.to = d => x.row \in TrueRows(d)}
<1>1. pending \in Seq(Range(pending)) /\ Range(pending) \subseteq T
  BY DEF TargetsExist, TellsTruth, IsSequence, Range
<1>2. pending \in Seq(T)
  BY <1>1, SeqMonotonic
<1>. HIDE DEF T
<1>3. Head(pending) \in T /\ Tail(pending) \in Seq(T)
  BY <1>2, HeadTailProperties
<1>4. \A i \in DOMAIN Tail(pending) : Tail(pending)[i] \in T
  BY <1>3, LenProperties, ElementOfSeq
<1>. QED
  BY <1>3, <1>4 DEF T

LEMMA InitDictionary == Init => DictionaryInv
<1>. SUFFICES ASSUME Init PROVE DictionaryInv
  OBVIOUS
<1>1. ASSUME NEW n \in {"catalog", "columns"} PROVE Rows(n) = {}
  <2>1. n \in DOMAIN g_relations /\ BlocksTyped
    BY <1>1, InitBlocks, DictionaryFacts DEF BlocksInv, Init
  <2>2. \A b \in RowBlocks(n), s \in 1 .. BLKFAC : virtual_disk[b][s] = Free
    BY <2>1, RowBlockIsEntry DEF Init, EmptyBlock
  <2>. QED
    BY <2>2 DEF Rows, RowAt
<1>2. DOMAIN pending = {} /\ pending = << >> /\ pc = "idle"
  BY EmptySeq DEF Init
<1>. QED
  BY <1>1, <1>2 DEF DictionaryInv, TellsTruth

\* The true rows stay true as long as the relations they are about are there.
LEMMA TrueRowsStay ==
    ASSUME NEW d, NEW S, S \subseteq DOMAIN g_relations, S \subseteq DOMAIN g_relations',
           \A n \in S : g_relations'[n] = g_relations[n],
           NEW row \in TrueRows(d), row[1] \in S
    PROVE row \in TrueRows(d)'
<1>1. CASE d = "catalog"
  <2>1. PICK n \in DOMAIN g_relations \ DOMAIN Dictionary : row = <<n, HeaderBlock(n)>>
    BY <1>1 DEF TrueRows
  <2>2. n \in S /\ HeaderBlock(n)' = HeaderBlock(n)
    BY <2>1 DEF HeaderBlock
  <2>. QED
    BY <1>1, <2>1, <2>2 DEF TrueRows
<1>2. CASE d # "catalog"
  <2>1. PICK n \in DOMAIN g_relations \ DOMAIN Dictionary : \E i \in DOMAIN AttrsOf(n) :
            row = <<n, AttrsOf(n)[i].name, i>>
    BY <1>2 DEF TrueRows
  <2>2. n \in S /\ AttrsOf(n)' = AttrsOf(n)
    BY <2>1 DEF AttrsOf
  <2>. QED
    BY <1>2, <2>1, <2>2 DEF TrueRows
<1>. QED
  BY <1>1, <1>2

LEMMA TrueRowsName ==
    ASSUME NEW d, NEW row \in TrueRows(d)
    PROVE row[1] \in DOMAIN g_relations \ DOMAIN Dictionary
<1>1. CASE d = "catalog"
  BY <1>1 DEF TrueRows
<1>2. CASE d # "catalog"
  BY <1>2 DEF TrueRows
<1>. QED
  BY <1>1, <1>2

LEMMA CreateDictionary ==
    ASSUME IInv, DictionaryInv, NEW c \in Commands, BeginCreate(c)
    PROVE DictionaryInv'
<1>. DEFINE hb    == Min(FreeBlocks)
            name  == ResultName(c)
            attrs == ResultAttrs(c)
<1>1. ASSUME NEW d \in {"catalog", "columns"} PROVE Rows(d)' = Rows(d)
  BY CreateFrame, SameRows DEF IInv, TargetsExist
<1>2. CASE ~ (Cardinality(DOMAIN g_relations) < MAX_REL)
  <2>1. UNCHANGED <<g_relations, pending, pc, command>>
    BY <1>2 DEF BeginCreate
  <2>2. \A d : TrueRows(d)' = TrueRows(d)
    BY <2>1 DEF TrueRows, HeaderBlock, AttrsOf
  <2>. QED
    BY <1>1, <2>1, <2>2 DEF DictionaryInv, TellsTruth
<1>3. CASE Cardinality(DOMAIN g_relations) < MAX_REL
  <2>1. /\ DOMAIN g_relations' = DOMAIN g_relations \union {name}
        /\ g_relations'[name].attrs = attrs /\ g_relations'[name].header_block = hb
        /\ \A n \in DOMAIN g_relations \ {name} : g_relations'[n] = g_relations[n]
        /\ pending' = DictionaryRows(name, attrs, hb) /\ pc' = "dictionary" /\ command' = c
    BY <1>3 DEF BeginCreate, Relation
  <2>2. /\ name \notin DOMAIN g_relations /\ name \notin DOMAIN Dictionary
        /\ c.verb \in Makers /\ IsSequence(attrs)
    BY ResultAttrsAreSequence DEF BeginCreate, Accepted, Exists, IsDictionary, IInv
  <2>3. c.verb \in Derivers => c.r = name
    BY DEF Derivers, ResultName
  <2>. HIDE DEF hb, name, attrs
  <2>4. ASSUME NEW d \in {"catalog", "columns"} PROVE Rows(d)' \subseteq TrueRows(d)'
    <3>1. ASSUME NEW row \in Rows(d) PROVE row \in TrueRows(d)'
      <4>1. row \in TrueRows(d) /\ row[1] \in DOMAIN g_relations
        BY TrueRowsName DEF DictionaryInv, TellsTruth
      <4>. QED
        BY <2>1, <2>2, <4>1, TrueRowsStay
    <3>. QED
      BY <1>1, <3>1
  <2>5. ASSUME NEW d \in {"catalog", "columns"}, NEW i \in DOMAIN pending', pending'[i].to = d
        PROVE pending'[i].row \in TrueRows(d)'
    <3>1. HeaderBlock(name)' = hb /\ AttrsOf(name)' = attrs
      BY <2>1 DEF HeaderBlock, AttrsOf
    <3>2. IsAbout(pending'[i], name, attrs, hb)
      BY <2>1, <2>2, DictionaryRowsTrue
    <3>3. PICK x : x = pending'[i] /\ IsAbout(x, name, attrs, hb)
      BY <3>2
    <3>4. CASE d = "catalog"
      <4>1. x.row = <<name, hb>>
        BY <2>5, <3>3, <3>4 DEF IsAbout
      <4>. QED
        BY <2>1, <2>2, <3>1, <3>3, <3>4, <4>1 DEF TrueRows
    <3>5. CASE d = "columns"
      <4>1. \E j \in DOMAIN attrs : x.row = <<name, attrs[j].name, j>>
        BY <2>5, <3>3, <3>5 DEF IsAbout
      <4>. QED
        BY <2>1, <2>2, <3>1, <3>3, <3>5, <4>1 DEF TrueRows
    <3>. QED
      BY <3>4, <3>5
  <2>6. \A d \in {"catalog", "columns"} : TellsTruth(d)'
    BY <2>4, <2>5 DEF TellsTruth
  <2>. QED
    BY <2>1, <2>2, <2>3, <2>6 DEF DictionaryInv, IsDictionary
<1>. QED
  BY <1>2, <1>3

\* When a relation goes, so do the rows that describe it.
LEMMA DeleteDictionary ==
    ASSUME IInv, DictionaryInv, NEW c \in Commands, Delete(c)
    PROVE DictionaryInv'
<1>1. UNCHANGED <<headers, pc, command, pending>> /\ pending = << >>
  BY DEF Delete, DictionaryInv
<1>2. \A n \in DOMAIN g_relations \ {c.p} : g_relations'[n] = g_relations[n]
  BY DEF Delete
<1>3. DOMAIN g_relations' = DOMAIN g_relations \ {c.p} /\ c.p \notin {"catalog", "columns"}
  BY DictionaryFacts DEF Delete, Accepted, IsDictionary
<1>4. ASSUME NEW d \in {"catalog", "columns"}, NEW row \in Rows(d)' PROVE row \in TrueRows(d)'
  <2>1. d \in DOMAIN g_relations /\ g_relations'[d] = g_relations[d]
    BY <1>2, <1>3 DEF IInv, TargetsExist
  <2>2. RowBlocks(d)' = RowBlocks(d)
    BY <1>1, <2>1 DEF RowBlocks, Header
  <2>3. PICK b \in RowBlocks(d), s \in 1 .. BLKFAC : row = virtual_disk'[b][s] /\ row # Free
    BY <2>2 DEF Rows, RowAt
  <2>4. b \in Blocks
    BY <2>1, RowBlockIsEntry DEF IInv, BlocksInv
  <2>5. ~ Describes(b, s, c.p) /\ row = virtual_disk[b][s]
    BY <2>3, <2>4 DEF Delete
  <2>6. row[1] # c.p
    BY <2>3, <2>5 DEF Describes, DictionaryBlocks
  <2>7. row \in Rows(d)
    <3>1. PICK place \in RowBlocks(d) \X (1 .. BLKFAC) : place = <<b, s>>
      BY <2>3
    <3>2. RowAt(place) = row
      BY <2>5, <3>1 DEF RowAt
    <3>. QED
      BY <2>3, <3>1, <3>2 DEF Rows
  <2>8. row \in TrueRows(d) /\ row[1] \in DOMAIN g_relations
    BY <2>7, TrueRowsName DEF DictionaryInv, TellsTruth
  <2>. QED
    BY <1>2, <1>3, <2>6, <2>8, TrueRowsStay
<1>5. DOMAIN pending' = {} /\ pending' = << >> /\ pc' = "idle"
  BY <1>1, EmptySeq DEF Delete
<1>. QED
  BY <1>4, <1>5 DEF DictionaryInv, TellsTruth

LEMMA SameTrueRows ==
    ASSUME UNCHANGED g_relations, NEW d
    PROVE TrueRows(d)' = TrueRows(d)
BY DEF TrueRows, HeaderBlock, AttrsOf

LEMMA DescribeDictionary ==
    ASSUME HashInRange, IInv, DictionaryInv, Describe
    PROVE DictionaryInv'
<1>1. UNCHANGED <<g_relations, pc, command>> /\ pending' = Tail(pending) /\ pending # << >>
  BY DEF Describe
<1>2. PICK t, row : t = Head(pending).to /\ row = Head(pending).row
  OBVIOUS
<1>3. t \in DOMAIN g_relations /\ t \in {"catalog", "columns"} /\ RowEffect(t, row)
  BY <1>2, DescribeEffect
<1>4. row \in TrueRows(t)
  BY <1>1, <1>2, <1>3, PendingTrue DEF IInv, DictionaryInv
<1>5. ASSUME NEW d \in {"catalog", "columns"} PROVE Rows(d)' \subseteq TrueRows(d)'
  <2>1. TrueRows(d)' = TrueRows(d) /\ Rows(d) \subseteq TrueRows(d) /\ d \in DOMAIN g_relations
    BY <1>1, SameTrueRows DEF DictionaryInv, TellsTruth, IInv, TargetsExist
  <2>2. CASE d = t
    <3>1. Rows(t)' \subseteq Rows(t) \union {row}
      BY <1>1, <1>3, RowsGained DEF IInv
    <3>2. Rows(d)' \subseteq Rows(d) \union {row}
      BY <2>2, <3>1
    <3>. QED
      BY <1>4, <2>1, <2>2, <3>2
  <2>3. CASE d # t
    <3>1. AppendEffect(t)
      BY <1>3, RowEffectBlocks DEF IInv
    <3>2. Rows(d)' = Rows(d)
      BY <1>1, <1>3, <2>1, <2>3, <3>1, WriteFrame, SameRows
    <3>. QED
      BY <2>1, <3>2
  <2>. QED
    BY <2>2, <2>3
<1>6. ASSUME NEW d \in {"catalog", "columns"} PROVE TellsTruth(d)'
  <2>1. \A i \in DOMAIN pending' : pending'[i].to = d => pending'[i].row \in TrueRows(d)
    BY <1>1, PendingTrue DEF IInv, DictionaryInv
  <2>2. TrueRows(d)' = TrueRows(d)
    BY <1>1, SameTrueRows
  <2>. QED
    BY <1>5, <2>1, <2>2 DEF TellsTruth
<1>7. pc = "dictionary"
  BY DEF Describe
<1>. QED
  BY <1>1, <1>6, <1>7 DEF DictionaryInv

\* The rows of the dictionary and what is true of the relations stay as they are.
LEMMA DictionaryStays ==
    ASSUME NEW d, TellsTruth(d), UNCHANGED <<g_relations, pending>>, Rows(d)' = Rows(d)
    PROVE TellsTruth(d)'
BY SameTrueRows DEF TellsTruth

LEMMA WriterDictionary ==
    ASSUME HashInRange, IInv, DictionaryInv, CarryOutLine \/ DeriveRow \/ JoinRow
    PROVE DictionaryInv'
<1>1. UNCHANGED <<g_relations, pc, command, pending>> /\ pc # "dictionary"
  BY DEF CarryOutLine, DeriveRow, JoinRow
<1>2. PICK t \in DOMAIN g_relations : AppendEffect(t) /\ t \in Targets
  BY <1>1, WritersEffect DEF WriteTargets
<1>3. ~ IsDictionary(t)
  <2>1. CASE CarryOutLine
    BY <1>2, <2>1 DEF CarryOutLine, Targets, DictionaryInv
  <2>2. CASE DeriveRow
    BY <1>2, <2>2 DEF DeriveRow, Targets, Makers, Derivers, DictionaryInv
  <2>3. CASE JoinRow
    BY <1>2, <2>3 DEF JoinRow, Targets, Makers, Derivers, DictionaryInv, IInv, TargetsExist
  <2>. QED
    BY <2>1, <2>2, <2>3
<1>4. ASSUME NEW d \in {"catalog", "columns"} PROVE Rows(d)' = Rows(d)
  <2>1. d \in DOMAIN g_relations /\ d # t
    BY <1>3, DictionaryFacts DEF IsDictionary, IInv, TargetsExist
  <2>. QED
    BY <1>1, <1>2, <2>1, WriteFrame, SameRows
<1>. QED
  BY <1>1, <1>4, DictionaryStays DEF DictionaryInv

LEMMA DictionaryStep == HashInRange /\ IInv /\ DictionaryInv /\ [Next]_vars => DictionaryInv'
<1>. SUFFICES ASSUME HashInRange, IInv, DictionaryInv, [Next]_vars PROVE DictionaryInv'
  OBVIOUS
<1>1. ASSUME UNCHANGED <<storage, g_relations, pending>>
      PROVE \A d \in {"catalog", "columns"} : TellsTruth(d)'
  <2>1. \A d \in {"catalog", "columns"} : Rows(d)' = Rows(d)
    BY <1>1, StillUntouched, SameRows
  <2>. QED
    BY <1>1, <2>1, DictionaryStays DEF DictionaryInv
\* Steps of a command that goes on, ends or moves on to its scans.
<1>2. ASSUME UNCHANGED <<storage, g_relations, pending, pc, command>> PROVE DictionaryInv'
  BY <1>1, <1>2 DEF DictionaryInv
<1>3. ASSUME UNCHANGED <<storage, g_relations, pending>>, pc' = "idle", pending = << >>
      PROVE DictionaryInv'
  BY <1>1, <1>3 DEF DictionaryInv
<1>4. ASSUME UNCHANGED <<storage, g_relations, pending, command>>, pending = << >>,
             pc \in {"dictionary", "scan", "second", "join"}, pc' \in {"scan", "second", "join"}
      PROVE DictionaryInv'
  BY <1>1, <1>4 DEF DictionaryInv
<1>5. ASSUME NEW c \in Commands, Refuse(c) PROVE DictionaryInv'
  BY <1>2, <1>5 DEF Refuse, vars
<1>6. ASSUME NEW c \in Commands, BeginLines(c) PROVE DictionaryInv'
  <2>1. /\ UNCHANGED <<storage, g_relations, pending>> /\ pc' = "lines" /\ command' = c
        /\ pending = << >> /\ ~ IsDictionary(c.p)
    BY <1>6 DEF BeginLines, Accepted, DictionaryInv
  <2>. QED
    BY <1>1, <2>1 DEF DictionaryInv
<1>7. ASSUME NEW c \in Commands, BeginPrint(c) PROVE DictionaryInv'
  <2>1. /\ UNCHANGED <<storage, g_relations, pending>> /\ pc' = "scan" /\ command' = c
        /\ pending = << >> /\ c.verb = "PR"
    BY <1>7 DEF BeginPrint, DictionaryInv
  <2>. QED
    BY <1>1, <2>1 DEF DictionaryInv, Derivers
<1>8. CASE EndLines
  BY <1>3, <1>8 DEF EndLines, EndCommand, DictionaryInv
<1>9. CASE EndDictionary
  <2>1. UNCHANGED <<storage, g_relations, pending>> /\ pending = << >> /\ pc = "dictionary"
    BY <1>9 DEF EndDictionary
  <2>2. CASE command.verb = "CR"
    BY <1>3, <1>9, <2>1, <2>2 DEF EndDictionary, EndCommand
  <2>3. CASE command.verb # "CR"
    BY <1>4, <1>9, <2>1, <2>3 DEF EndDictionary
  <2>. QED
    BY <2>2, <2>3
<1>10. ASSUME NEW w \in {"scan", "join"}, LoadBlock(w) \/ SkipSlot(w) PROVE DictionaryInv'
  BY <1>2, <1>10 DEF LoadBlock, SkipSlot
<1>11. CASE PrintRow
  BY <1>2, <1>11 DEF PrintRow
<1>12. CASE BeginSecond \/ BeginJoin \/ EndJoin
  BY <1>4, <1>12 DEF BeginSecond, BeginJoin, EndJoin, DictionaryInv
<1>13. CASE EndScan
  BY <1>3, <1>13 DEF EndScan, EndCommand, DictionaryInv
<1>14. CASE UNCHANGED vars
  BY <1>2, <1>14 DEF vars
<1>. QED
  BY <1>5, <1>6, <1>7, <1>8, <1>9, <1>10, <1>11, <1>12, <1>13, <1>14,
     CreateDictionary, DeleteDictionary, DescribeDictionary, WriterDictionary DEF Next

\* The dictionary never tells of a relation that is gone, nor of a block or an
\* attribute a relation does not have, at any step of any command.
THEOREM StorageDictionarySound ==
    ASSUME HashInRange
    PROVE Spec => []DictionarySound
<1>1. Init => DictionaryInv
  BY InitDictionary
<1>2. IInv /\ DictionaryInv /\ [Next]_vars => DictionaryInv'
  BY DictionaryStep
<1>3. DictionaryInv => DictionarySound
  BY DEF DictionaryInv, TellsTruth, DictionarySound, TrueRows, HeaderBlock
<1>. QED
  BY <1>1, <1>2, <1>3, StorageInvariant, PTL DEF Spec

(***************************************************************************)
(* Relations as sets of rows with unique keys                              *)
(***************************************************************************)
Slots == 1 .. BLKFAC

\* A row with a field for every attribute of n.
Fits(row, n) == row = [i \in DOMAIN AttrsOf(n) |-> row[i]]

KeyAt(n, place) == KeyOf(RowAt(place), g_relations[n].keysize)

\* No two places of n hold rows with the same key.
KeysApart(n) ==
    \A x, y \in RowBlocks(n) \X Slots :
        RowAt(x) # Free /\ RowAt(y) # Free /\ KeyAt(n, x) = KeyAt(n, y) => x = y

\* The key of a derived relation is the whole row.
RelationsInv ==
    /\ \A d \in {"catalog", "columns"} : Exists(d) /\ g_relations[d] = Dictionary[d]
    /\ \A n \in DOMAIN g_relations \ DOMAIN Dictionary :
           /\ g_relations[n].keysize \in Nat
           /\ ~ g_relations[n].is_base => g_relations[n].keysize = Len(AttrsOf(n))

RowsSound(n) ==
    /\ \A row \in Rows(n) : Fits(row, n)
    /\ g_relations[n].is_base => KeysApart(n)

RowsInv == \A n \in DOMAIN g_relations \ DOMAIN Dictionary : RowsSound(n)

Deriving ==
    pc \in {"dictionary", "scan", "second", "join"} /\ command.verb \in Derivers

\* A command reads relations that stay there and writes another one.
CommandInv ==
    /\ pc = "lines" => /\ g_relations[command.p].is_base
                       /\ IsSequence(lines)
                       /\ \A i \in DOMAIN lines : IsSequence(lines[i])
    /\ pc = "second" => command.verb = "UN"
    /\ Deriving => /\ ~ g_relations[command.r].is_base
                   /\ AttrsOf(command.r) = ResultAttrs(command)
                   /\ Exists(command.p) /\ command.p # command.r
                   /\ command.verb \in {"UN", "DF", "NJ"} =>
                          Exists(command.q) /\ command.q # command.r

\* The relation whose rows a deriving command takes, one after the other.
Source == IF pc = "second" THEN command.q ELSE command.p

\* What is still to be read is in that relation, and so are the rows in the buffer.
ScanSound ==
    /\ cursor["scan"].slot \in Nat \ {0}
    /\ cursor["scan"].left \in Seq(RowBlocks(Source))
    /\ cursor["scan"].slot <= BLKFAC => \A s \in Slots :
           data_buffers[2][s] = Free \/ Fits(data_buffers[2][s], Source)

ScanInv ==
    /\ DOMAIN data_buffers = 1 .. 2 /\ DOMAIN cursor = {"scan", "join"}
    /\ DOMAIN cursor["scan"] = {"left", "slot"}
    /\ Deriving /\ pc # "dictionary" => ScanSound
    /\ Deriving /\ pc = "join" => Fits(pf, command.p)

StoreInv == RelationsInv /\ RowsInv /\ CommandInv /\ ScanInv

(***************************************************************************)
(* A row is added, replaced or removed                                     *)
(***************************************************************************)
\* Row comes to slot s of block b, which is free or new.
AddsRow(n, b, s, row) ==
    /\ RowBlocks(n)' = RowBlocks(n) \union {b} /\ s \in Slots
    /\ b \in RowBlocks(n) => virtual_disk[b][s] = Free
    /\ virtual_disk'[b][s] = row
    /\ \A x \in RowBlocks(n) \union {b}, k \in Slots : <<x, k>> # <<b, s>> =>
           virtual_disk'[x][k] = IF x \in RowBlocks(n) THEN virtual_disk[x][k] ELSE Free

LEMMA GrowAdds ==
    ASSUME IInv, UNCHANGED g_relations, NEW n \in DOMAIN g_relations, NEW row,
           NEW kind \in BlockKinds(n), NEW i \in 1 .. Size(kind),
           FreeBlocks # {}, Entry(n, kind, i) = 0, Grow(n, kind, i, row)
    PROVE AddsRow(n, Min(FreeBlocks), 1, row)
<1>. DEFINE b  == Min(FreeBlocks)
            hb == HeaderBlock(n)
<1>1. b \in Blocks /\ bitmapblk[b] = 0 /\ b # 0
  BY FreeBlockIsFree DEF IInv, BlocksInv, Marked
<1>2. /\ headers' = [headers EXCEPT ![hb] = Updated(headers[hb], kind, i, b)]
      /\ virtual_disk' = [virtual_disk EXCEPT ![b] = [EmptyBlock EXCEPT ![1] = row]]
  BY DEF Grow, HeaderBlock, Updated
<1>3. kind \in Kinds
  BY DEF BlockKinds, Kinds
<1>. HIDE DEF b, hb
<1>4. /\ hb \in DOMAIN headers /\ IsHeader(headers[hb])
      /\ Header(n) = headers[hb] /\ Header(n)' = headers'[hb]
  BY DEF IInv, BlocksInv, BlocksTyped, Header, HeaderBlock, hb
<1>5. Header(n)' = Updated(Header(n), kind, i, b)
  BY <1>2, <1>4
<1>6. ASSUME NEW l \in Kinds, NEW x, x # 0
      PROVE x \in Range(Header(n)'[l]) <=> x \in Range(Header(n)[l]) \/ (l = kind /\ x = b)
  <2>1. /\ IsHeader(Header(n)')
        /\ \A j \in 1 .. Size(l) :
               Header(n)'[l][j] = IF l = kind /\ j = i THEN b ELSE Header(n)[l][j]
    BY <1>1, <1>3, <1>4, <1>5, HeaderUpdate
  <2>2. DOMAIN Header(n)'[l] = 1 .. Size(l) /\ DOMAIN Header(n)[l] = 1 .. Size(l)
    BY <1>4, <2>1, EntriesTyped
  <2>3. l = kind => Header(n)[l][i] = 0
    BY <1>4 DEF Entry, hb
  <2>. QED
    BY <1>6, <2>1, <2>2, <2>3 DEF Range
<1>7. RowBlocks(n)' = RowBlocks(n) \union {b}
  <2>1. ASSUME NEW x PROVE x \in RowBlocks(n)' <=> x \in RowBlocks(n) \union {b}
    <3>1. CASE g_relations[n].is_base
      BY <1>1, <1>3, <1>6, <3>1 DEF RowBlocks, Kinds
    <3>2. CASE ~ g_relations[n].is_base
      <4>1. kind = "data"
        BY <3>2 DEF BlockKinds
      <4>. QED
        BY <1>1, <1>6, <3>2, <4>1 DEF RowBlocks, Kinds
    <3>. QED
      BY <3>1, <3>2
  <2>. QED
    BY <2>1
<1>8. b \notin RowBlocks(n)
  <2>. SUFFICES ASSUME b \in RowBlocks(n) PROVE FALSE
    OBVIOUS
  <2>1. IsEntry(n, b)
    BY RowBlockIsEntry DEF IInv, BlocksInv
  <2>. QED
    BY <1>1, <2>1 DEF IsEntry, IInv, BlocksInv, Marked
<1>9. 1 \in Slots
  BY StorageAssumption DEF Slots
<1>10. virtual_disk'[b] = [EmptyBlock EXCEPT ![1] = row]
  BY <1>1, <1>2 DEF IInv, DiskTyped
<1>11. virtual_disk'[b][1] = row /\ \A k \in Slots : k # 1 => virtual_disk'[b][k] = Free
  BY <1>9, <1>10 DEF EmptyBlock, Slots
<1>12. ASSUME NEW x \in RowBlocks(n) PROVE virtual_disk'[x] = virtual_disk[x]
  <2>1. x \in DOMAIN virtual_disk /\ x # b
    BY <1>8, RowBlockIsEntry DEF IInv, BlocksInv, DiskTyped
  <2>. QED
    BY <1>2, <2>1
<1>13. AddsRow(n, b, 1, row)
  BY <1>7, <1>8, <1>9, <1>11, <1>12 DEF AddsRow
<1>. QED
  BY <1>13 DEF b

LEMMA InsertAdds ==
    ASSUME IInv, UNCHANGED g_relations, NEW n \in DOMAIN g_relations, NEW row,
           InsertEffect(n, row)
    PROVE UNCHANGED storage \/ \E b, s : AddsRow(n, b, s, row)
<1>1. ASSUME NEW b \in RowBlocks(n), NEW s \in FreeSlots(b), WriteTuple(b, s, row)
      PROVE AddsRow(n, b, s, row)
  <2>1. UNCHANGED headers /\ virtual_disk' = [virtual_disk EXCEPT ![b][s] = row]
    BY <1>1 DEF WriteTuple
  <2>2. RowBlocks(n)' = RowBlocks(n)
    BY <2>1 DEF RowBlocks, Header
  <2>3. s \in Slots /\ virtual_disk[b][s] = Free
    BY DEF FreeSlots, Slots
  <2>4. \A x \in RowBlocks(n) : x \in DOMAIN virtual_disk /\ DOMAIN virtual_disk[x] = Slots
    BY RowBlockIsEntry DEF IInv, BlocksInv, DiskTyped, Slots
  <2>5. \A x \in RowBlocks(n), k \in Slots :
            virtual_disk'[x][k] = IF x = b /\ k = s THEN row ELSE virtual_disk[x][k]
    BY <2>1, <2>4
  <2>. QED
    BY <2>2, <2>3, <2>5 DEF AddsRow
<1>. QED
  BY <1>1, GrowAdds DEF InsertEffect

LEMMA RowsAfterAdding ==
    ASSUME NEW n, NEW b, NEW s, NEW row, AddsRow(n, b, s, row)
    PROVE Rows(n)' = (Rows(n) \union {row}) \ {Free}
<1>1. \A x \in RowBlocks(n), k \in Slots : <<x, k>> # <<b, s>> =>
          virtual_disk'[x][k] = virtual_disk[x][k]
  BY DEF AddsRow
<1>2. ASSUME NEW y \in Rows(n)' PROVE y \in (Rows(n) \union {row}) \ {Free}
  <2>1. PICK x \in RowBlocks(n) \union {b}, k \in Slots : y = virtual_disk'[x][k] /\ y # Free
    BY DEF Rows, RowAt, AddsRow, Slots
  <2>2. CASE <<x, k>> = <<b, s>>
    BY <2>1, <2>2 DEF AddsRow
  <2>3. CASE <<x, k>> # <<b, s>>
    <3>1. x \in RowBlocks(n) /\ y = virtual_disk[x][k]
      BY <2>1, <2>3 DEF AddsRow
    <3>2. <<x, k>> \in RowBlocks(n) \X Slots /\ RowAt(<<x, k>>) = y
      BY <3>1 DEF RowAt
    <3>. QED
      BY <2>1, <3>2 DEF Rows, Slots
  <2>. QED
    BY <2>2, <2>3
<1>3. ASSUME NEW y \in Rows(n) PROVE y \in Rows(n)'
  <2>1. PICK x \in RowBlocks(n), k \in Slots : y = virtual_disk[x][k] /\ y # Free
    BY DEF Rows, RowAt, Slots
  <2>2. <<x, k>> # <<b, s>>
    BY <2>1 DEF AddsRow
  <2>3. virtual_disk'[x][k] = y /\ x \in RowBlocks(n)'
    BY <1>1, <2>1, <2>2 DEF AddsRow
  <2>4. <<x, k>> \in (RowBlocks(n) \X Slots)' /\ RowAt(<<x, k>>)' = y
    BY <2>3 DEF RowAt, Slots
  <2>. QED
    BY <2>1, <2>4 DEF Rows, Slots
<1>4. row # Free => row \in Rows(n)'
  <2>1. <<b, s>> \in (RowBlocks(n) \X Slots)' /\ RowAt(<<b, s>>)' = row
    BY DEF RowAt, AddsRow, Slots
  <2>. QED
    BY <2>1 DEF Rows, Slots
<1>5. Free \notin Rows(n) /\ Free \notin Rows(n)'
  BY DEF Rows
<1>. QED
  BY <1>2, <1>3, <1>4, <1>5

LEMMA KeysAfterAdding ==
    ASSUME NEW n, NEW b, NEW s, NEW row, AddsRow(n, b, s, row),
           g_relations'[n] = g_relations[n], KeysApart(n),
           \A x \in RowBlocks(n) \X Slots :
               RowAt(x) # Free => KeyAt(n, x) # KeyOf(row, g_relations[n].keysize)
    PROVE KeysApart(n)'
<1>1. ASSUME NEW x \in RowBlocks(n)' \X Slots, RowAt(x)' # Free
      PROVE \/ x = <<b, s>> /\ KeyAt(n, x)' = KeyOf(row, g_relations[n].keysize)
            \/ x \in RowBlocks(n) \X Slots /\ RowAt(x) # Free /\ KeyAt(n, x)' = KeyAt(n, x)
  <2>1. PICK y \in RowBlocks(n) \union {b}, k \in Slots : x = <<y, k>>
    BY DEF AddsRow
  <2>2. CASE x = <<b, s>>
    BY <2>2 DEF AddsRow, KeyAt, RowAt
  <2>3. CASE x # <<b, s>>
    <3>1. y \in RowBlocks(n) /\ virtual_disk'[y][k] = virtual_disk[y][k]
      BY <1>1, <2>1, <2>3 DEF AddsRow, RowAt
    <3>. QED
      BY <1>1, <2>1, <3>1 DEF KeyAt, RowAt
  <2>. QED
    BY <2>2, <2>3
<1>. QED
  BY <1>1 DEF KeysApart, Slots

\* A row that is found gives way to another with its key, or to nothing.
LEMMA Replacing ==
    ASSUME IInv, UNCHANGED g_relations, NEW n \in DOMAIN g_relations, KeysApart(n),
           NEW place \in RowBlocks(n) \X Slots, RowAt(place) # Free,
           NEW row, WriteTuple(place[1], place[2], row),
           row = Free \/ KeyOf(row, g_relations[n].keysize) = KeyAt(n, place)
    PROVE /\ Rows(n)' = ((Rows(n) \ {RowAt(place)}) \union {row}) \ {Free}
          /\ KeysApart(n)'
<1>1. PICK b \in RowBlocks(n), s \in Slots : place = <<b, s>>
  OBVIOUS
<1>2. UNCHANGED headers /\ virtual_disk' = [virtual_disk EXCEPT ![b][s] = row]
  BY <1>1 DEF WriteTuple
<1>3. RowBlocks(n)' = RowBlocks(n)
  BY <1>2 DEF RowBlocks, Header
<1>4. \A x \in RowBlocks(n) : x \in DOMAIN virtual_disk /\ DOMAIN virtual_disk[x] = Slots
  BY RowBlockIsEntry DEF IInv, BlocksInv, DiskTyped, Slots
<1>5. \A x \in RowBlocks(n), k \in Slots :
          virtual_disk'[x][k] = IF x = b /\ k = s THEN row ELSE virtual_disk[x][k]
  BY <1>2, <1>4
<1>6. \A x \in RowBlocks(n) \X Slots : RowAt(x)' = IF x = place THEN row ELSE RowAt(x)
  BY <1>1, <1>5 DEF RowAt
<1>7. \A x \in RowBlocks(n) \X Slots : x # place => RowAt(x) # RowAt(place)
  BY DEF KeysApart, KeyAt
<1>8. KeysApart(n)'
  <2>1. \A x \in RowBlocks(n) \X Slots :
            RowAt(x)' # Free => RowAt(x) # Free /\ KeyAt(n, x)' = KeyAt(n, x)
    BY <1>6 DEF KeyAt
  <2>. QED
    BY <1>3, <2>1 DEF KeysApart, Slots
<1>9. ASSUME NEW y PROVE y \in Rows(n)' <=> y \in ((Rows(n) \ {RowAt(place)}) \union {row}) \ {Free}
  <2>1. y \in Rows(n)' <=> y # Free /\ \E x \in RowBlocks(n) \X Slots : RowAt(x)' = y
    BY <1>3 DEF Rows, Slots
  <2>2. y \in Rows(n) <=> y # Free /\ \E x \in RowBlocks(n) \X Slots : RowAt(x) = y
    BY DEF Rows, Slots
  <2>. QED
    BY <1>6, <1>7, <2>1, <2>2
<1>. QED
  BY <1>8, <1>9

(***************************************************************************)
(* A key that is not found is nowhere                                      *)
(***************************************************************************)
\* The positions at which Picked takes its elements.
Positions(P) ==
    [j \in 1 .. Cardinality(P) |-> Min({i \in P : Cardinality({l \in P : l <= i}) >= j})]

LEMMA PickedAt ==
    ASSUME NEW s, NEW P
    PROVE Picked(s, P) = [j \in 1 .. Cardinality(P) |-> s[Positions(P)[j]]]
BY DEF Picked, Positions

\* They are all of the positions given, in ascending order.
LEMMA PositionsAscend ==
    ASSUME NEW k \in Nat, NEW P, P \subseteq 1 .. k
    PROVE /\ Cardinality(P) \in Nat
          /\ Positions(P) \in [1 .. Cardinality(P) -> P]
          /\ \A i \in P : \E j \in 1 .. Cardinality(P) : Positions(P)[j] = i
          /\ \A i, j \in 1 .. Cardinality(P) : i < j => Positions(P)[i] < Positions(P)[j]
<1>. DEFINE Upto(m) == {l \in P : l <= m}
            c       == Cardinality(P)
            H(j)    == {i \in P : Cardinality(Upto(i)) >= j}
            pos     == Positions(P)
<1>1. IsFiniteSet(P) /\ c \in Nat
  <2>1. IsFiniteSet(1 .. k)
    BY FS_Interval
  <2>. QED
    BY <2>1, FS_Subset, FS_CardinalityType
<1>2. P \subseteq Nat /\ \A i \in P : i \in Int
  OBVIOUS
<1>3. ASSUME NEW m PROVE IsFiniteSet(Upto(m)) /\ Cardinality(Upto(m)) \in Nat
  <2>1. Upto(m) \subseteq P
    OBVIOUS
  <2>2. IsFiniteSet(Upto(m))
    BY <1>1, <2>1, FS_Subset
  <2>. QED
    BY <2>2, FS_CardinalityType
<1>4. ASSUME NEW m \in P, NEW i \in P, m < i
      PROVE Cardinality(Upto(m)) < Cardinality(Upto(i))
  <2>1. Upto(m) \subseteq Upto(i) /\ Upto(m) # Upto(i)
    <3>1. i \in Int /\ m \in Int /\ \A l \in P : l \in Int
      BY <1>2
    <3>2. \A l \in P : l <= m => l <= i
      BY <1>4, <3>1
    <3>3. i \in Upto(i) /\ i \notin Upto(m)
      BY <1>4, <3>1
    <3>. QED
      BY <3>2, <3>3
  <2>2. IsFiniteSet(Upto(i))
    BY <1>3
  <2>3. /\ Cardinality(Upto(m)) <= Cardinality(Upto(i))
        /\ Cardinality(Upto(m)) = Cardinality(Upto(i)) => Upto(m) = Upto(i)
    BY <2>1, <2>2, FS_Subset
  <2>4. Cardinality(Upto(m)) \in Nat /\ Cardinality(Upto(i)) \in Nat
    BY <1>3
  <2>. QED
    BY <2>1, <2>3, <2>4
<1>5. ASSUME NEW i \in P PROVE Cardinality(Upto(i)) \in 1 .. c
  <2>1. Upto(i) \subseteq P /\ i \in Upto(i)
    BY <1>2
  <2>2. Cardinality(Upto(i)) <= c /\ Cardinality(Upto(i)) \in Nat
    BY <1>1, <1>3, <2>1, FS_Subset
  <2>3. IsFiniteSet(Upto(i))
    BY <1>3
  <2>4. Cardinality(Upto(i)) # 0
    BY <2>1, <2>3, FS_EmptySet
  <2>. QED
    BY <1>1, <2>2, <2>4
<1>6. pos = [j \in 1 .. c |-> Min(H(j))]
  BY DEF Positions
<1>7. ASSUME NEW j, NEW G, G = H(j)
      PROVE G \subseteq P /\ G \subseteq Nat /\ (G # {} => Min(G) \in G /\ \A y \in G : Min(G) <= y)
  <2>1. G \subseteq P
    BY <1>7, Zenon
  <2>2. G \subseteq Nat
    BY <1>2, <2>1
  <2>. QED
    BY <2>1, <2>2, MinIsLeast
<1>8. ASSUME NEW j \in 1 .. c PROVE pos[j] \in H(j) /\ \A y \in H(j) : pos[j] <= y
  <2>1. P # {}
    BY <1>1, FS_EmptySet
  <2>2. PICK m \in P : \A i \in P : i <= m
    BY <2>1, HasGreatest
  <2>3. Upto(m) = P
    BY <2>2
  <2>4. m \in H(j)
    BY <1>1, <2>3
  <2>5. pos[j] = Min(H(j))
    BY <1>6
  <2>. QED
    BY <1>7, <2>4, <2>5
<1>9. ASSUME NEW i \in P PROVE \E j \in 1 .. c : pos[j] = i
  <2>1. PICK j \in 1 .. c : j = Cardinality(Upto(i))
    BY <1>5
  <2>2. i \in H(j)
    BY <1>1, <2>1
  <2>3. pos[j] \in P /\ pos[j] <= i /\ Cardinality(Upto(pos[j])) >= j
    BY <1>8, <2>2
  <2>4. ~ (pos[j] < i)
    <3>1. Cardinality(Upto(pos[j])) \in Nat
      BY <1>3
    <3>2. pos[j] < i => Cardinality(Upto(pos[j])) < j
      BY <1>4, <2>1, <2>3
    <3>. QED
      BY <2>1, <2>3, <3>1, <3>2
  <2>5. pos[j] \in Int /\ i \in Int
    BY <1>2, <2>3
  <2>. QED
    BY <2>3, <2>4, <2>5
<1>10. pos \in [1 .. c -> P]
  BY <1>6, <1>8
<1>11. ASSUME NEW i \in 1 .. c, NEW j \in 1 .. c, i < j PROVE pos[i] < pos[j]
  <2>1. pos[j] \in P /\ Cardinality(Upto(pos[j])) >= j /\ Cardinality(Upto(pos[j])) \in Nat
    BY <1>3, <1>8
  <2>2. pos[j] \in H(i)
    BY <1>11, <2>1
  <2>3. pos[i] <= pos[j]
    BY <1>8, <2>2
  <2>4. pos[i] # pos[j]
    <3>1. pos \in Surjection(1 .. c, P)
      BY <1>9, <1>10, Fun_IsSurj
    <3>2. IsFiniteSet(1 .. c) /\ Cardinality(1 .. c) = c
      BY <1>1, FS_Interval
    <3>3. pos \in Injection(1 .. c, P)
      BY <3>1, <3>2, FS_Surjection
    <3>. QED
      BY <1>1, <1>11, <3>3, Fun_InjectionProperties
  <2>5. pos[i] \in Int /\ pos[j] \in Int
    BY <1>2, <1>10
  <2>. QED
    BY <2>3, <2>4, <2>5
<1>. QED
  BY <1>1, <1>9, <1>10, <1>11

LEMMA PickedCovers ==
    ASSUME NEW k \in Nat, NEW s, NEW P, P \subseteq 1 .. k, NEW i \in P
    PROVE \E j \in 1 .. Len(Picked(s, P)) : Picked(s, P)[j] = s[i]
<1>. DEFINE c   == Cardinality(P)
            pos == Positions(P)
            z   == Picked(s, P)
<1>1. z = [j \in 1 .. c |-> s[pos[j]]]
  BY PickedAt
<1>2. c \in Nat /\ \E j \in 1 .. c : pos[j] = i
  BY PositionsAscend
<1>3. z \in Seq({s[l] : l \in P})
  BY PickedFacts
<1>. HIDE DEF c, pos, z
<1>4. Len(z) = c
  <2>1. DOMAIN z = 1 .. c
    BY <1>1
  <2>. QED
    BY <1>2, <1>3, <2>1, LenProperties
<1>5. \E j \in 1 .. Len(z) : z[j] = s[i]
  BY <1>1, <1>2, <1>4
<1>. QED
  BY <1>5 DEF z

\* The numbers that Places counts places with.
LEMMA PlaceNumber ==
    ASSUME NEW m \in Nat, NEW s \in Slots, NEW k, k = m * BLKFAC + s
    PROVE (k - 1) \div BLKFAC = m /\ (k - 1) % BLKFAC = s - 1
<1>. DEFINE x == k - 1
            q == x \div BLKFAC
            r == x % BLKFAC
<1>1. BLKFAC \in Nat /\ BLKFAC > 0 /\ s \in 1 .. BLKFAC
  BY StorageAssumption DEF Slots
<1>2. m * BLKFAC \in Nat
  BY <1>1
<1>3. x \in Nat /\ x = m * BLKFAC + (s - 1)
  BY <1>1, <1>2
<1>4. q \in Nat /\ r \in 0 .. BLKFAC - 1 /\ x = q * BLKFAC + r
  <2>. HIDE DEF x
  <2>. QED
    BY <1>1, <1>3
<1>. HIDE DEF q, r, x
<1>5. (q - m) * BLKFAC = (s - 1) - r
  <2>1. (q - m) * BLKFAC = q * BLKFAC - m * BLKFAC
    BY <1>1, <1>4
  <2>2. q * BLKFAC \in Int
    BY <1>1, <1>4
  <2>. QED
    BY <1>1, <1>2, <1>3, <1>4, <2>1, <2>2
<1>6. ASSUME q - m >= 1 PROVE FALSE
  <2>1. (q - m) * BLKFAC >= BLKFAC
    <3>1. (q - m - 1) * BLKFAC >= 0
      BY <1>1, <1>4, <1>6
    <3>2. (q - m - 1) * BLKFAC = (q - m) * BLKFAC - BLKFAC
      BY <1>1, <1>4
    <3>3. (q - m) * BLKFAC \in Int
      BY <1>1, <1>4
    <3>. QED
      BY <1>1, <3>1, <3>2, <3>3
  <2>. QED
    BY <1>1, <1>4, <1>5, <2>1
<1>7. ASSUME m - q >= 1 PROVE FALSE
  <2>1. (m - q) * BLKFAC >= BLKFAC
    <3>1. (m - q - 1) * BLKFAC >= 0
      BY <1>1, <1>4, <1>7
    <3>2. (m - q - 1) * BLKFAC = (m - q) * BLKFAC - BLKFAC
      BY <1>1, <1>4
    <3>3. (m - q) * BLKFAC \in Int
      BY <1>1, <1>4
    <3>. QED
      BY <1>1, <3>1, <3>2, <3>3
  <2>2. (m - q) * BLKFAC = r - (s - 1)
    <3>1. (m - q) * BLKFAC = - ((q - m) * BLKFAC)
      BY <1>1, <1>4
    <3>2. (q - m) * BLKFAC \in Int
      BY <1>1, <1>4
    <3>. QED
      BY <1>1, <1>4, <1>5, <3>1, <3>2
  <2>. QED
    BY <1>1, <1>4, <2>1, <2>2
<1>8. q = m
  BY <1>4, <1>6, <1>7
<1>9. r = s - 1
  BY <1>1, <1>2, <1>3, <1>4, <1>8
<1>. QED
  BY <1>8, <1>9 DEF q, r, x

LEMMA BlockListCovers ==
    ASSUME BlocksTyped, NEW n \in DOMAIN g_relations, NEW b \in RowBlocks(n)
    PROVE \E j \in 1 .. Len(BlockList(n)) : BlockList(n)[j] = b
<1>1. ASSUME NEW kind \in BlockKinds(n), NEW i \in 1 .. Size(kind), Entry(n, kind, i) = b
      PROVE /\ \E j \in 1 .. Len(Used(Header(n)[kind])) : Used(Header(n)[kind])[j] = b
            /\ Used(Header(n)[kind]) \in Seq(RowBlocks(n))
  <2>. DEFINE e == Header(n)[kind]
              P == {l \in DOMAIN e : e[l] # 0}
  <2>1. kind \in Kinds
    BY DEF BlockKinds, Kinds
  <2>2. e \in [1 .. Size(kind) -> Blocks] /\ e[i] = b
    BY <1>1, <2>1, EntryTyped DEF Entry
  <2>3. P \subseteq 1 .. Size(kind) /\ i \in P /\ Used(e) = Picked(e, P)
    BY <2>2, RowBlockEntry DEF Used
  <2>4. Size(kind) \in Nat
    BY <2>1, SizeIsNat
  <2>. HIDE DEF e, P
  <2>5. \E j \in 1 .. Len(Used(e)) : Used(e)[j] = b
    BY <2>2, <2>3, <2>4, PickedCovers
  <2>. QED
    BY <2>5, UsedEntries DEF e
<1>2. PICK kind \in BlockKinds(n) : \E i \in 1 .. Size(kind) : Entry(n, kind, i) = b
  BY RowBlockEntry
<1>. DEFINE data  == Used(Header(n)["data"])
            spill == Used(Header(n)["overflow"])
            T     == RowBlocks(n)
<1>3. data \in Seq(T)
  BY UsedEntries DEF BlockKinds, Kinds
<1>4. CASE g_relations[n].is_base
  <2>1. spill \in Seq(T)
    BY <1>4, UsedEntries DEF BlockKinds, Kinds
  <2>2. BlockList(n) = data \o spill
    BY <1>4 DEF BlockList
  <2>3. (\E j \in 1 .. Len(data) : data[j] = b) \/ (\E j \in 1 .. Len(spill) : spill[j] = b)
    BY <1>1, <1>2, <1>4 DEF BlockKinds, Kinds
  <2>. HIDE DEF data, spill, T
  <2>4. /\ Len(data \o spill) = Len(data) + Len(spill)
        /\ Len(data) \in Nat /\ Len(spill) \in Nat
        /\ \A j \in 1 .. Len(data) : (data \o spill)[j] = data[j]
        /\ \A j \in 1 .. Len(spill) : (data \o spill)[Len(data) + j] = spill[j]
    BY <1>3, <2>1, ConcatProperties, LenProperties
  <2>. QED
    BY <2>2, <2>3, <2>4
<1>5. CASE ~ g_relations[n].is_base
  <2>1. kind = "data"
    BY <1>5 DEF BlockKinds
  <2>2. \E j \in 1 .. Len(data) : data[j] = b
    BY <1>1, <1>2, <2>1
  <2>3. BlockList(n) = data \o << >>
    BY <1>5 DEF BlockList
  <2>. HIDE DEF data, T
  <2>4. BlockList(n) = data
    BY <1>3, <2>3, ConcatEmptySeq
  <2>. QED
    BY <2>2, <2>4
<1>. QED
  BY <1>4, <1>5

LEMMA NothingFound ==
    ASSUME BlocksTyped, NEW n \in DOMAIN g_relations, NEW key,
           Len(key) = g_relations[n].keysize, Found(n, key) = {},
           NEW place \in RowBlocks(n) \X Slots, RowAt(place) # Free
    PROVE KeyAt(n, place) # key
<1>. DEFINE blocks == BlockList(n)
            places == Places(n)
<1>1. PICK b \in RowBlocks(n), s \in Slots : place = <<b, s>>
  OBVIOUS
<1>2. PICK j \in 1 .. Len(blocks) : blocks[j] = b
  BY BlockListCovers
<1>3. Len(blocks) \in Nat /\ BLKFAC \in Nat \ {0} /\ s \in 1 .. BLKFAC
  BY BlockListRows, LenProperties, StorageAssumption DEF Slots
<1>4. PICK m \in Nat : m = j - 1
  BY <1>2, <1>3
<1>10. PICK k : k = m * BLKFAC + s
  OBVIOUS
<1>5. k \in 1 .. Len(blocks) * BLKFAC
  <2>1. m * BLKFAC \in Nat /\ Len(blocks) * BLKFAC \in Nat
    BY <1>3
  <2>2. (Len(blocks) - (m + 1)) * BLKFAC >= 0
    BY <1>2, <1>3, <1>4
  <2>3. (Len(blocks) - (m + 1)) * BLKFAC = Len(blocks) * BLKFAC - m * BLKFAC - BLKFAC
    BY <1>2, <1>3, <1>4
  <2>. QED
    BY <1>3, <1>10, <2>1, <2>2, <2>3
<1>6. (k - 1) \div BLKFAC = m /\ (k - 1) % BLKFAC = s - 1
  BY <1>1, <1>4, <1>10, PlaceNumber, Zenon
<1>7. places = [l \in 1 .. Len(blocks) * BLKFAC |->
                   <<blocks[((l - 1) \div BLKFAC) + 1], ((l - 1) % BLKFAC) + 1>>]
  BY DEF Places
<1>. HIDE DEF blocks, places
<1>8. places[k] = place /\ k \in DOMAIN places
  <2>1. ((k - 1) \div BLKFAC) + 1 = j /\ ((k - 1) % BLKFAC) + 1 = s
    BY <1>2, <1>3, <1>4, <1>6
  <2>. QED
    BY <1>1, <1>2, <1>5, <1>7, <2>1
<1>9. {l \in DOMAIN places : /\ RowAt(places[l]) # Free
                             /\ Len(key) = g_relations[n].keysize
                             /\ KeyOf(RowAt(places[l]), Len(key)) = key} = {}
  BY DEF Found, places
<1>. QED
  BY <1>8, <1>9 DEF KeyAt

(***************************************************************************)
(* The rows that are written fit                                           *)
(***************************************************************************)
LEMMA DictionaryFit ==
    ASSUME RelationsInv, DictionaryInv, NEW d \in {"catalog", "columns"}, NEW row \in Rows(d)
    PROVE Fits(row, d)
<1>1. row \in TrueRows(d) /\ AttrsOf(d) = Dictionary[d].attrs
  BY DEF DictionaryInv, TellsTruth, RelationsInv, AttrsOf
<1>2. CASE d = "catalog"
  <2>1. DOMAIN AttrsOf(d) = 1 .. 2
    BY <1>1, <1>2 DEF Dictionary, Relation, Attrs
  <2>2. \E a, b : row = <<a, b>>
    BY <1>1, <1>2 DEF TrueRows
  <2>. QED
    BY <2>1, <2>2 DEF Fits
<1>3. CASE d = "columns"
  <2>1. DOMAIN AttrsOf(d) = 1 .. 3
    BY <1>1, <1>3 DEF Dictionary, Relation, Attrs
  <2>2. \E a, b, c : row = <<a, b, c>>
    BY <1>1, <1>3 DEF TrueRows
  <2>. QED
    BY <2>1, <2>2 DEF Fits
<1>. QED
  BY <1>2, <1>3

LEMMA AllRowsFit ==
    ASSUME RelationsInv, RowsInv, DictionaryInv, NEW n \in DOMAIN g_relations, NEW row \in Rows(n)
    PROVE Fits(row, n)
BY DictionaryFit, DictionaryFacts DEF RowsInv, RowsSound

LEMMA FitsLength ==
    ASSUME TargetsExist, NEW n \in DOMAIN g_relations, NEW row, Fits(row, n)
    PROVE IsSequence(row) /\ Len(row) = Len(AttrsOf(n))
<1>1. PICK k \in Nat : k = Len(AttrsOf(n)) /\ DOMAIN AttrsOf(n) = 1 .. k
  BY SequenceDomain DEF TargetsExist
<1>2. row = [i \in 1 .. k |-> row[i]]
  BY <1>1 DEF Fits
<1>3. IsSequence(row) /\ DOMAIN row = 1 .. k
  BY <1>1, <1>2, FunctionIsSequence
<1>4. Len(row) \in Nat /\ DOMAIN row = 1 .. Len(row)
  BY <1>3, SequenceDomain
<1>5. Len(row) = k
  BY <1>1, <1>3, <1>4
<1>. QED
  BY <1>1, <1>3, <1>5

LEMMA OutputFits ==
    ASSUME CommandInv, Deriving, pc \in {"scan", "second"},
           command.verb \in {"PJ", "SL", "UN", "DF"},
           NEW row, Fits(row, Source), NEW x \in Output(command, row)
    PROVE Fits(x, command.r)
<1>1. AttrsOf(command.r) = ResultAttrs(command)
  BY DEF CommandInv
<1>2. CASE command.verb = "PJ"
  <2>1. x = Projected(command, row)
    BY <1>2 DEF Output
  <2>2. DOMAIN AttrsOf(command.r) = DOMAIN command.attrs
    BY <1>1, <1>2 DEF ResultAttrs
  <2>. QED
    BY <2>1, <2>2 DEF Projected, Fits
<1>3. CASE command.verb \in {"SL", "DF"}
  <2>1. x = row /\ Source = command.p
    BY <1>3 DEF Output, Source, CommandInv
  <2>2. AttrsOf(command.r) = AttrsOf(command.p)
    BY <1>1, <1>3 DEF ResultAttrs
  <2>. QED
    BY <2>1, <2>2 DEF Fits
<1>4. CASE command.verb = "UN"
  <2>1. AttrsOf(command.r) = AttrsOf(command.p)
    BY <1>1, <1>4 DEF ResultAttrs
  <2>2. CASE pc = "scan"
    <3>1. x = row /\ Source = command.p
      BY <1>4, <2>2 DEF Output, Source
    <3>. QED
      BY <2>1, <3>1 DEF Fits
  <2>3. CASE pc = "second"
    <3>1. x = Mapped(command, row)
      BY <1>4, <2>3 DEF Output
    <3>. QED
      BY <2>1, <3>1 DEF Mapped, Fits
  <2>. QED
    BY <2>2, <2>3
<1>. QED
  BY <1>2, <1>3, <1>4

LEMMA JoinedFits ==
    ASSUME TargetsExist, CommandInv, Deriving, pc = "join", NEW x, Fits(x, command.p), NEW y
    PROVE Fits(Joined(command, x, y), command.r)
<1>. DEFINE ps == AttrsOf(command.p)
            qs == [i \in DOMAIN Rest(command) |-> AttrsOf(command.q)[Rest(command)[i]]]
            zs == [i \in DOMAIN Rest(command) |-> y[Rest(command)[i]]]
            rs == AttrsOf(command.r)
            j  == Joined(command, x, y)
<1>1. command.verb = "NJ" /\ Exists(command.p) /\ Exists(command.q) /\ rs = ResultAttrs(command)
  BY DEF TargetsExist, CommandInv
<1>2. rs = ps \o qs /\ j = x \o zs
  BY <1>1 DEF ResultAttrs, Joined
<1>3. IsSequence(x) /\ Len(x) = Len(ps) /\ IsSequence(ps)
  BY <1>1, FitsLength DEF TargetsExist, Exists
<1>4. PICK k \in Nat : DOMAIN Rest(command) = 1 .. k
  BY <1>1, RestIsSequence
<1>5. IsSequence(qs) /\ Len(qs) = k
  <2>1. qs = [i \in 1 .. k |-> qs[i]]
    BY <1>4
  <2>. HIDE DEF qs
  <2>2. IsSequence(qs) /\ DOMAIN qs = 1 .. k
    BY <1>4, <2>1, FunctionIsSequence
  <2>3. Len(qs) \in Nat /\ DOMAIN qs = 1 .. Len(qs)
    BY <2>2, SequenceDomain
  <2>. QED
    BY <1>4, <2>2, <2>3
<1>6. IsSequence(zs) /\ Len(zs) = k
  <2>1. zs = [i \in 1 .. k |-> zs[i]]
    BY <1>4
  <2>. HIDE DEF zs
  <2>2. IsSequence(zs) /\ DOMAIN zs = 1 .. k
    BY <1>4, <2>1, FunctionIsSequence
  <2>3. Len(zs) \in Nat /\ DOMAIN zs = 1 .. Len(zs)
    BY <2>2, SequenceDomain
  <2>. QED
    BY <1>4, <2>2, <2>3
<1>. HIDE DEF ps, qs, zs, rs, j
<1>7. ASSUME NEW a, IsSequence(a), NEW b, IsSequence(b)
      PROVE a \o b \in Seq(Range(a) \union Range(b)) /\ Len(a \o b) = Len(a) + Len(b)
  <2>1. a \in Seq(Range(a) \union Range(b)) /\ b \in Seq(Range(a) \union Range(b))
    BY <1>7, SeqMonotonic DEF IsSequence
  <2>. QED
    BY <2>1, ConcatProperties
<1>8. DOMAIN rs = 1 .. Len(ps) + k
  <2>1. rs \in Seq(Range(ps) \union Range(qs)) /\ Len(rs) = Len(ps) + k
    BY <1>2, <1>3, <1>5, <1>7
  <2>. QED
    BY <2>1, LenProperties
<1>9. j = [i \in 1 .. Len(ps) + k |-> j[i]]
  <2>1. j \in Seq(Range(x) \union Range(zs)) /\ Len(j) = Len(ps) + k
    BY <1>2, <1>3, <1>6, <1>7
  <2>. QED
    BY <2>1, LenProperties
<1>10. Fits(j, command.r)
  BY <1>8, <1>9 DEF Fits, rs
<1>. QED
  BY <1>10 DEF j

(***************************************************************************)
(* What the actions that write to a relation come to                       *)
(***************************************************************************)
Changes(t) ==
    \/ Rows(t)' = Rows(t)
    \/ \E row : Rows(t)' = (Rows(t) \union {row}) \ {Free}
    \/ \E old \in Rows(t) : \E other :
           /\ other = Free \/ KeyOf(other, g_relations[t].keysize) = KeyOf(old, g_relations[t].keysize)
           /\ Rows(t)' = ((Rows(t) \ {old}) \union {other}) \ {Free}

Wrote(t) ==
    /\ AppendEffect(t) /\ Changes(t)
    /\ \A row \in Rows(t)' : Fits(row, t)
    /\ g_relations[t].is_base => KeysApart(t)'

LEMMA SameKeys ==
    ASSUME NEW n, Untouched(n), KeysApart(n)
    PROVE KeysApart(n)'
<1>1. RowBlocks(n)' = RowBlocks(n) /\ \A x \in RowBlocks(n) \X Slots : RowAt(x)' = RowAt(x)
  BY SameRows DEF Slots
<1>. QED
  BY <1>1 DEF KeysApart, KeyAt, Slots, Untouched

LEMMA StillWrote ==
    ASSUME IInv, RowsInv, UNCHANGED <<storage, g_relations>>,
           NEW t \in DOMAIN g_relations \ DOMAIN Dictionary
    PROVE Wrote(t)
<1>1. Untouched(t)
  BY StillUntouched
<1>2. Rows(t)' = Rows(t)
  BY <1>1, SameRows
<1>3. AppendEffect(t)
  BY RowEffectBlocks, StillEffect DEF IInv
<1>. QED
  BY <1>1, <1>2, <1>3, SameKeys DEF Wrote, Changes, RowsInv, RowsSound

LEMMA InsertWrote ==
    ASSUME HashInRange, IInv, RowsInv, UNCHANGED g_relations,
           NEW t \in DOMAIN g_relations \ DOMAIN Dictionary,
           NEW row, Fits(row, t), AppendTuple(t, row),
           g_relations[t].is_base => \A x \in RowBlocks(t) \X Slots :
               RowAt(x) # Free => KeyAt(t, x) # KeyOf(row, g_relations[t].keysize)
    PROVE Wrote(t)
<1>1. InsertEffect(t, row) /\ AppendEffect(t)
  BY AppendTupleInserts, AppendTupleEffect, RowEffectBlocks DEF IInv, BlocksInv
<1>2. CASE UNCHANGED storage
  BY <1>2, StillWrote
<1>3. ASSUME NEW b, NEW s, AddsRow(t, b, s, row) PROVE Wrote(t)
  <2>1. Rows(t)' = (Rows(t) \union {row}) \ {Free}
    BY <1>3, RowsAfterAdding
  <2>2. g_relations[t].is_base => KeysApart(t)'
    BY <1>3, KeysAfterAdding DEF RowsInv, RowsSound
  <2>. QED
    BY <1>1, <2>1, <2>2 DEF Wrote, Changes, RowsInv, RowsSound
<1>. QED
  BY <1>1, <1>2, <1>3, InsertAdds

LEMMA ReplaceWrote ==
    ASSUME IInv, RowsInv, UNCHANGED g_relations,
           NEW t \in DOMAIN g_relations \ DOMAIN Dictionary, g_relations[t].is_base,
           NEW place \in RowBlocks(t) \X Slots, RowAt(place) # Free,
           NEW row, WriteTuple(place[1], place[2], row),
           row = Free \/ (Fits(row, t) /\ KeyOf(row, g_relations[t].keysize) = KeyAt(t, place))
    PROVE Wrote(t)
<1>1. /\ Rows(t)' = ((Rows(t) \ {RowAt(place)}) \union {row}) \ {Free}
      /\ KeysApart(t)'
  BY Replacing DEF RowsInv, RowsSound
<1>2. RowAt(place) \in Rows(t)
  BY DEF Rows, Slots
<1>3. place[1] \in Blocks \ {0} /\ IsEntry(t, place[1])
  BY RowBlockIsEntry DEF IInv, BlocksInv
<1>4. AppendEffect(t)
  BY <1>3, WriteEffect, RowEffectBlocks DEF IInv
<1>5. Changes(t)
  BY <1>1, <1>2 DEF Changes, KeyAt
<1>6. \A y \in Rows(t)' : Fits(y, t)
  BY <1>1 DEF RowsInv, RowsSound
<1>. QED
  BY <1>1, <1>4, <1>5, <1>6 DEF Wrote

LEMMA LineWrote ==
    ASSUME HashInRange, IInv, DictionaryInv, StoreInv, CarryOutLine
    PROVE command.p \in DOMAIN g_relations \ DOMAIN Dictionary /\ Wrote(command.p)
<1>. DEFINE t    == command.p
            row  == Head(lines)
            size == g_relations[t].keysize
<1>1. /\ t \in DOMAIN g_relations \ DOMAIN Dictionary /\ g_relations[t].is_base
      /\ UNCHANGED g_relations /\ size \in Nat /\ lines # << >>
      /\ IsSequence(lines) /\ \A i \in DOMAIN lines : IsSequence(lines[i])
  BY DEF CarryOutLine, IInv, TargetsExist, DictionaryInv, IsDictionary, Exists,
         StoreInv, RelationsInv, CommandInv
<1>2. IsSequence(row)
  <2>1. lines \in Seq(Range(lines)) /\ \A x \in Range(lines) : IsSequence(x)
    BY <1>1 DEF IsSequence, Range
  <2>2. row \in Range(lines)
    BY <1>1, <2>1, HeadTailProperties
  <2>. QED
    BY <2>1, <2>2
<1>3. Len(KeyOf(row, size)) = size
  <2>. DEFINE S == {row[i] : i \in 1 .. size}
  <2>1. \A i \in 1 .. size : row[i] \in S
    OBVIOUS
  <2>. HIDE DEF S
  <2>2. Len(SubSeq(row, 1, size)) = IF 1 <= size THEN size - 1 + 1 ELSE 0
    BY <1>1, <2>1, SubSeqProperties
  <2>3. Len(SubSeq(row, 1, size)) = size
    BY <1>1, <2>2
  <2>. QED
    BY <2>3 DEF KeyOf
<1>4. ASSUME Valid(t, row) PROVE Fits(row, t)
  <2>1. Len(row) \in Nat /\ DOMAIN row = 1 .. Len(row)
    BY <1>2, SequenceDomain
  <2>2. DOMAIN AttrsOf(t) = 1 .. Len(AttrsOf(t))
    BY <1>1, SequenceDomain DEF IInv, TargetsExist
  <2>3. row = [i \in DOMAIN row |-> row[i]]
    BY <1>2 DEF IsSequence
  <2>. QED
    BY <1>4, <2>1, <2>2, <2>3 DEF Valid, Fits
<1>5. ASSUME NEW key, NEW place \in Found(t, key)
      PROVE /\ place \in RowBlocks(t) \X Slots /\ RowAt(place) # Free
            /\ Len(key) = size /\ KeyAt(t, place) = key
  BY <1>1, <1>5, FoundPlace DEF IInv, BlocksInv, Slots, KeyAt
<1>6. ASSUME UNCHANGED storage PROVE Wrote(t)
  BY <1>1, <1>6, StillWrote DEF StoreInv
<1>7. CASE InsertLine(t, row)
  <2>1. CASE Valid(t, row) /\ FoundLike(t, row) = {} /\ AppendTuple(t, row)
    <3>1. \A x \in RowBlocks(t) \X Slots : RowAt(x) # Free => KeyAt(t, x) # KeyOf(row, size)
      BY <1>1, <1>3, <2>1, NothingFound DEF FoundLike, IInv, BlocksInv
    <3>. QED
      BY <1>1, <1>4, <2>1, <3>1, InsertWrote DEF StoreInv
  <2>. QED
    BY <1>1, <1>6, <1>7, <2>1 DEF InsertLine
<1>8. CASE RemoveLine(t, row)
  <2>1. ASSUME NEW place \in Found(t, row), WriteTuple(place[1], place[2], Free) PROVE Wrote(t)
    BY <1>1, <1>5, <2>1, ReplaceWrote DEF StoreInv
  <2>. QED
    BY <1>1, <1>6, <1>8, <2>1 DEF RemoveLine
<1>9. CASE UpdateLine(t, row)
  <2>1. ASSUME Valid(t, row), NEW place \in FoundLike(t, row), WriteTuple(place[1], place[2], row)
        PROVE Wrote(t)
    <3>1. /\ place \in RowBlocks(t) \X Slots /\ RowAt(place) # Free
          /\ KeyAt(t, place) = KeyOf(row, size)
      BY <1>5 DEF FoundLike
    <3>. QED
      BY <1>1, <1>4, <2>1, <3>1, ReplaceWrote DEF StoreInv
  <2>. QED
    BY <1>1, <1>6, <1>9, <2>1 DEF UpdateLine
<1>10. InsertLine(t, row) \/ RemoveLine(t, row) \/ UpdateLine(t, row)
  BY DEF CarryOutLine
<1>. QED
  BY <1>1, <1>7, <1>8, <1>9, <1>10

LEMMA EmitWrote ==
    ASSUME HashInRange, IInv, RowsInv, UNCHANGED g_relations,
           NEW t \in DOMAIN g_relations \ DOMAIN Dictionary, ~ g_relations[t].is_base,
           NEW rows, \A x \in rows : Fits(x, t), Emit(t, rows)
    PROVE Wrote(t)
BY InsertWrote, StillWrote DEF Emit

LEMMA DeriveWrote ==
    ASSUME HashInRange, IInv, DictionaryInv, StoreInv, DeriveRow
    PROVE command.r \in DOMAIN g_relations \ DOMAIN Dictionary /\ Wrote(command.r)
<1>1. /\ pc \in {"scan", "second"} /\ command.verb \in {"PJ", "SL", "UN", "DF"} /\ Deriving
      /\ UNCHANGED g_relations
  BY DEF DeriveRow, Deriving, Derivers
<1>2. /\ command.r \in DOMAIN g_relations \ DOMAIN Dictionary /\ ~ g_relations[command.r].is_base
  BY <1>1 DEF Deriving, IInv, TargetsExist, Exists, DictionaryInv, IsDictionary, StoreInv, CommandInv
<1>3. Fits(AtSlot("scan"), Source)
  <2>1. cursor["scan"].slot \in Slots /\ AtSlot("scan") = data_buffers[2][cursor["scan"].slot]
    BY <1>1, StorageAssumption
       DEF DeriveRow, BlockRead, AtSlot, BufferOf, StoreInv, ScanInv, ScanSound, Slots
  <2>. QED
    BY <1>1, <2>1 DEF DeriveRow, StoreInv, ScanInv, ScanSound, Slots
<1>4. \A x \in Output(command, AtSlot("scan")) : Fits(x, command.r)
  BY <1>1, <1>3, OutputFits DEF StoreInv
<1>. QED
  BY <1>1, <1>2, <1>4, EmitWrote DEF DeriveRow, StoreInv

LEMMA JoinWrote ==
    ASSUME HashInRange, IInv, DictionaryInv, StoreInv, JoinRow
    PROVE command.r \in DOMAIN g_relations \ DOMAIN Dictionary /\ Wrote(command.r)
<1>1. pc = "join" /\ command.verb = "NJ" /\ Deriving /\ UNCHANGED g_relations
  BY DEF JoinRow, Deriving, Derivers, IInv, TargetsExist
<1>2. /\ command.r \in DOMAIN g_relations \ DOMAIN Dictionary /\ ~ g_relations[command.r].is_base
  BY <1>1 DEF Deriving, IInv, TargetsExist, Exists, DictionaryInv, IsDictionary, StoreInv, CommandInv
<1>3. Fits(pf, command.p)
  BY <1>1 DEF StoreInv, ScanInv
<1>4. PICK rows : /\ Emit(command.r, rows)
                  /\ rows \subseteq {Joined(command, pf, AtSlot("join"))}
  BY DEF JoinRow
<1>5. \A x \in rows : Fits(x, command.r)
  BY <1>1, <1>3, <1>4, JoinedFits DEF StoreInv, IInv
<1>. QED
  BY <1>1, <1>2, <1>4, <1>5, EmitWrote DEF StoreInv

\* Besides the making and the dropping of a relation, a step writes to one relation
\* or to none; what it does to the dictionary does not matter.
NoneWritten ==
    /\ UNCHANGED g_relations
    /\ \A n \in DOMAIN g_relations \ DOMAIN Dictionary : Untouched(n)

OneWritten ==
    /\ UNCHANGED g_relations
    /\ \E t \in DOMAIN g_relations \ DOMAIN Dictionary :
           /\ Wrote(t) /\ t \in Targets
           /\ \A n \in DOMAIN g_relations \ {t} : Untouched(n)

LEMMA WriterWrites ==
    ASSUME HashInRange, IInv, DictionaryInv, StoreInv, CarryOutLine \/ DeriveRow \/ JoinRow
    PROVE OneWritten
<1>1. ASSUME NEW t \in DOMAIN g_relations \ DOMAIN Dictionary, Wrote(t), t \in Targets
      PROVE OneWritten
  <2>1. UNCHANGED g_relations
    BY DEF CarryOutLine, DeriveRow, JoinRow
  <2>2. \A n \in DOMAIN g_relations \ {t} : Untouched(n)
    BY <1>1, <2>1, WriteFrame DEF Wrote
  <2>. QED
    BY <1>1, <2>1, <2>2 DEF OneWritten
<1>2. CASE CarryOutLine
  <2>1. command.p \in Targets
    BY <1>2 DEF CarryOutLine, Targets
  <2>. QED
    BY <1>1, <1>2, <2>1, LineWrote
<1>3. CASE DeriveRow
  <2>1. command.r \in Targets
    BY <1>3 DEF DeriveRow, Targets, Makers
  <2>. QED
    BY <1>1, <1>3, <2>1, DeriveWrote
<1>4. CASE JoinRow
  <2>1. command.r \in Targets
    BY <1>4 DEF JoinRow, Targets, Makers, IInv, TargetsExist
  <2>. QED
    BY <1>1, <1>4, <2>1, JoinWrote
<1>. QED
  BY <1>2, <1>3, <1>4

LEMMA StepWrites ==
    ASSUME HashInRange, IInv, DictionaryInv, StoreInv, [Next]_vars
    PROVE \/ \E c \in Commands : BeginCreate(c) \/ Delete(c)
          \/ NoneWritten
          \/ OneWritten /\ (CarryOutLine \/ DeriveRow \/ JoinRow)
<1>1. ASSUME UNCHANGED <<storage, g_relations>> PROVE NoneWritten
  BY <1>1, StillUntouched DEF NoneWritten
<1>2. CASE Describe
  <2>1. UNCHANGED g_relations
    BY <1>2 DEF Describe
  <2>2. PICK t, row : t = Head(pending).to /\ row = Head(pending).row
    OBVIOUS
  <2>3. t \in DOMAIN g_relations /\ t \in {"catalog", "columns"} /\ AppendEffect(t)
    BY <1>2, <2>2, DescribeEffect, RowEffectBlocks DEF IInv
  <2>. QED
    BY <2>1, <2>3, WriteFrame, DictionaryFacts DEF NoneWritten
<1>3. ASSUME NEW c \in Commands, Refuse(c) \/ BeginLines(c) \/ BeginPrint(c)
      PROVE NoneWritten
  BY <1>1, <1>3 DEF Refuse, BeginLines, BeginPrint, vars
<1>4. CASE EndLines \/ EndDictionary \/ PrintRow \/ BeginSecond \/ BeginJoin \/ EndJoin \/ EndScan
  BY <1>1, <1>4 DEF EndLines, EndDictionary, PrintRow, BeginSecond, BeginJoin, EndJoin, EndScan
<1>5. ASSUME NEW w \in {"scan", "join"}, LoadBlock(w) \/ SkipSlot(w) PROVE NoneWritten
  BY <1>1, <1>5 DEF LoadBlock, SkipSlot
<1>6. CASE UNCHANGED vars
  BY <1>1, <1>6 DEF vars
<1>. QED
  BY <1>2, <1>3, <1>4, <1>5, <1>6, WriterWrites DEF Next

(***************************************************************************)
(* StoreInv holds at first and at every step                               *)
(***************************************************************************)
LEMMA InitStore == Init => StoreInv
<1>. SUFFICES ASSUME Init PROVE StoreInv
  OBVIOUS
<1>1. RelationsInv
  BY DictionaryFacts DEF Init, RelationsInv, Exists
<1>2. RowsInv
  BY DEF Init, RowsInv
<1>3. CommandInv
  BY DEF Init, CommandInv, Deriving
<1>4. ScanInv
  BY DEF Init, ScanInv, Deriving, NoScan
<1>. QED
  BY <1>1, <1>2, <1>3, <1>4 DEF StoreInv

\* The relation a command makes.
LEMMA Created ==
    ASSUME IInv, NEW c \in Commands, BeginCreate(c), Cardinality(DOMAIN g_relations) < MAX_REL
    PROVE \E name, attrs :
              /\ name = ResultName(c) /\ attrs = ResultAttrs(c) /\ IsSequence(attrs)
              /\ name \notin DOMAIN g_relations /\ ~ IsDictionary(name)
              /\ DOMAIN g_relations' = DOMAIN g_relations \union {name}
              /\ \A n \in DOMAIN g_relations : g_relations'[n] = g_relations[n]
              /\ g_relations'[name].attrs = attrs
              /\ g_relations'[name].is_base <=> c.verb = "CR"
              /\ g_relations'[name].keysize = IF c.verb = "CR" THEN c.keysize ELSE Len(attrs)
              /\ RowBlocks(name)' = {}
<1>. DEFINE hb    == Min(FreeBlocks)
            name  == ResultName(c)
            attrs == ResultAttrs(c)
<1>1. /\ c.verb \in Makers /\ Accepted(c) /\ FreeBlocks # {}
      /\ headers' = [headers EXCEPT ![hb] = EmptyHeader]
      /\ g_relations' = [n \in DOMAIN g_relations \union {name} |->
                            IF n = name
                            THEN Relation(c.verb = "CR", attrs,
                                          IF c.verb = "CR" THEN c.keysize ELSE Len(attrs), hb)
                            ELSE g_relations[n]]
  BY DEF BeginCreate
<1>2. name \notin DOMAIN g_relations /\ ~ IsDictionary(name) /\ IsSequence(attrs)
  BY <1>1, ResultAttrsAreSequence DEF Accepted, Exists, IInv
<1>3. hb \in DOMAIN headers
  BY <1>1, FreeBlockIsFree DEF IInv, BlocksInv, BlocksTyped
<1>. HIDE DEF hb, name, attrs
<1>4. /\ DOMAIN g_relations' = DOMAIN g_relations \union {name}
      /\ \A n \in DOMAIN g_relations : g_relations'[n] = g_relations[n]
      /\ g_relations'[name] = Relation(c.verb = "CR", attrs,
                                  IF c.verb = "CR" THEN c.keysize ELSE Len(attrs), hb)
  BY <1>1, <1>2
<1>5. headers'[g_relations'[name].header_block] = EmptyHeader
  BY <1>1, <1>3, <1>4 DEF Relation
<1>6. RowBlocks(name)' = {}
  <2>1. Range(EmptyHeader.data) \subseteq {0} /\ Range(EmptyHeader.overflow) \subseteq {0}
    BY DEF EmptyHeader, Range
  <2>. QED
    BY <1>5, <2>1 DEF RowBlocks, Header
<1>7. /\ g_relations'[name].attrs = attrs
      /\ g_relations'[name].is_base <=> c.verb = "CR"
      /\ g_relations'[name].keysize = IF c.verb = "CR" THEN c.keysize ELSE Len(attrs)
  <2>1. /\ g_relations'[name].attrs = attrs
        /\ g_relations'[name].is_base = (c.verb = "CR")
        /\ g_relations'[name].keysize = IF c.verb = "CR" THEN c.keysize ELSE Len(attrs)
    BY <1>4 DEF Relation
  <2>. QED
    BY <2>1, Zenon
<1>8. name = ResultName(c) /\ attrs = ResultAttrs(c)
  BY DEF name, attrs
<1>. QED
  BY <1>2, <1>4, <1>6, <1>7, <1>8

\* The only steps that change which relations there are.
LEMMA RelationsKept ==
    ASSUME [Next]_vars
    PROVE \/ UNCHANGED g_relations
          \/ \E c \in Commands : BeginCreate(c) /\ Cardinality(DOMAIN g_relations) < MAX_REL
          \/ \E c \in Commands : Delete(c)
<1>1. ASSUME NEW c \in Commands, BeginCreate(c), ~ (Cardinality(DOMAIN g_relations) < MAX_REL)
      PROVE UNCHANGED g_relations
  BY <1>1 DEF BeginCreate
<1>2. ASSUME NEW c \in Commands, Refuse(c) \/ BeginLines(c) \/ BeginPrint(c)
      PROVE UNCHANGED g_relations
  BY <1>2 DEF Refuse, BeginLines, BeginPrint, vars
<1>3. CASE EndLines \/ EndDictionary \/ PrintRow \/ BeginSecond \/ BeginJoin \/ EndJoin \/ EndScan
  BY <1>3 DEF EndLines, EndDictionary, PrintRow, BeginSecond, BeginJoin, EndJoin, EndScan
<1>4. ASSUME NEW w \in {"scan", "join"}, LoadBlock(w) \/ SkipSlot(w)
      PROVE UNCHANGED g_relations
  BY <1>4 DEF LoadBlock, SkipSlot
<1>5. CASE CarryOutLine \/ Describe \/ DeriveRow \/ JoinRow
  BY <1>5 DEF CarryOutLine, Describe, DeriveRow, JoinRow
<1>. QED
  BY <1>1, <1>2, <1>3, <1>4, <1>5 DEF Next, vars

LEMMA RelationsStep ==
    ASSUME IInv, RelationsInv, [Next]_vars
    PROVE RelationsInv'
<1>1. CASE UNCHANGED g_relations
  BY <1>1 DEF RelationsInv, Exists, AttrsOf
<1>2. ASSUME NEW c \in Commands, BeginCreate(c), Cardinality(DOMAIN g_relations) < MAX_REL
      PROVE RelationsInv'
  <2>1. PICK name, attrs :
            /\ name = ResultName(c) /\ attrs = ResultAttrs(c) /\ IsSequence(attrs)
            /\ name \notin DOMAIN g_relations /\ ~ IsDictionary(name)
            /\ DOMAIN g_relations' = DOMAIN g_relations \union {name}
            /\ \A n \in DOMAIN g_relations : g_relations'[n] = g_relations[n]
            /\ g_relations'[name].attrs = attrs
            /\ g_relations'[name].is_base <=> c.verb = "CR"
            /\ g_relations'[name].keysize = IF c.verb = "CR" THEN c.keysize ELSE Len(attrs)
    BY <1>2, Created
  <2>2. \A d \in {"catalog", "columns"} : Exists(d)' /\ g_relations'[d] = Dictionary[d]
    BY <2>1 DEF RelationsInv, Exists
  <2>3. /\ g_relations'[name].keysize \in Nat
        /\ ~ g_relations'[name].is_base => g_relations'[name].keysize = Len(AttrsOf(name)')
    <3>1. AttrsOf(name)' = attrs /\ Len(attrs) \in Nat
      BY <2>1, SequenceDomain DEF AttrsOf
    <3>2. CASE c.verb = "CR"
      BY <2>1, <3>2, StorageAssumption
    <3>3. CASE c.verb # "CR"
      BY <2>1, <3>1, <3>3
    <3>. QED
      BY <3>2, <3>3
  <2>4. \A n \in DOMAIN g_relations \ DOMAIN Dictionary :
            /\ g_relations'[n].keysize \in Nat
            /\ ~ g_relations'[n].is_base => g_relations'[n].keysize = Len(AttrsOf(n)')
    BY <2>1 DEF RelationsInv, AttrsOf
  <2>. QED
    BY <2>1, <2>2, <2>3, <2>4 DEF RelationsInv
<1>3. ASSUME NEW c \in Commands, Delete(c) PROVE RelationsInv'
  <2>1. c.p \notin {"catalog", "columns"}
    BY <1>3, DictionaryFacts DEF Delete, Accepted, IsDictionary
  <2>2. /\ DOMAIN g_relations' = DOMAIN g_relations \ {c.p}
        /\ \A n \in DOMAIN g_relations' : g_relations'[n] = g_relations[n]
    BY <1>3 DEF Delete
  <2>. QED
    BY <2>1, <2>2 DEF RelationsInv, Exists, AttrsOf
<1>. QED
  BY <1>1, <1>2, <1>3, RelationsKept

LEMMA StillSound ==
    ASSUME NEW n, Untouched(n), RowsSound(n)
    PROVE RowsSound(n)'
<1>1. Rows(n)' = Rows(n) /\ g_relations'[n] = g_relations[n]
  BY SameRows DEF Untouched
<1>2. \A row : Fits(row, n)' = Fits(row, n)
  BY <1>1 DEF Fits, AttrsOf
<1>. QED
  BY <1>1, <1>2, SameKeys DEF RowsSound

LEMMA RowsStep ==
    ASSUME HashInRange, IInv, DictionaryInv, StoreInv, [Next]_vars
    PROVE RowsInv'
<1>1. CASE NoneWritten
  BY <1>1, StillSound DEF NoneWritten, RowsInv, StoreInv
<1>2. CASE OneWritten
  <2>1. UNCHANGED g_relations
    BY <1>2 DEF OneWritten
  <2>2. PICK t \in DOMAIN g_relations \ DOMAIN Dictionary :
            Wrote(t) /\ \A n \in DOMAIN g_relations \ {t} : Untouched(n)
    BY <1>2 DEF OneWritten
  <2>3. RowsSound(t)'
    BY <2>1, <2>2 DEF Wrote, RowsSound, Fits, AttrsOf
  <2>4. \A n \in DOMAIN g_relations \ DOMAIN Dictionary : n # t => RowsSound(n)'
    BY <2>2, StillSound DEF RowsInv, StoreInv
  <2>. QED
    BY <2>1, <2>3, <2>4 DEF RowsInv
<1>3. ASSUME NEW c \in Commands, BeginCreate(c), Cardinality(DOMAIN g_relations) < MAX_REL
      PROVE RowsInv'
  <2>1. PICK name : /\ name = ResultName(c) /\ name \notin DOMAIN g_relations
                    /\ DOMAIN g_relations' = DOMAIN g_relations \union {name}
                    /\ RowBlocks(name)' = {}
    BY <1>3, Created
  <2>2. RowsSound(name)'
    <3>1. Rows(name)' = {} /\ KeysApart(name)'
      BY <2>1 DEF Rows, KeysApart
    <3>. QED
      BY <3>1 DEF RowsSound
  <2>3. \A n \in DOMAIN g_relations \ DOMAIN Dictionary : RowsSound(n)'
    BY <1>3, CreateFrame, StillSound DEF RowsInv, StoreInv
  <2>. QED
    BY <2>1, <2>2, <2>3 DEF RowsInv
<1>4. ASSUME NEW c \in Commands, BeginCreate(c), ~ (Cardinality(DOMAIN g_relations) < MAX_REL)
      PROVE RowsInv'
  <2>1. UNCHANGED g_relations
    BY <1>4 DEF BeginCreate
  <2>. QED
    BY <1>4, <2>1, CreateFrame, StillSound DEF RowsInv, StoreInv
<1>5. ASSUME NEW c \in Commands, Delete(c) PROVE RowsInv'
  <2>1. DOMAIN g_relations' = DOMAIN g_relations \ {c.p}
    BY <1>5 DEF Delete
  <2>2. ASSUME NEW n \in DOMAIN g_relations' \ DOMAIN Dictionary PROVE RowsSound(n)'
    <3>1. n # c.p /\ n \in DOMAIN g_relations \ DOMAIN Dictionary /\ n \notin {"catalog", "columns"}
      BY <2>1, DictionaryFacts
    <3>. QED
      BY <1>5, <3>1, DeleteFrame, StillSound DEF RowsInv, StoreInv
  <2>. QED
    BY <2>2 DEF RowsInv
<1>. QED
  BY <1>1, <1>2, <1>3, <1>4, <1>5, StepWrites

LEMMA TailTyped ==
    ASSUME NEW T, NEW f \in Seq(T), f # << >>
    PROVE Tail(f) \in Seq(T) /\ \A i \in DOMAIN Tail(f) : Tail(f)[i] \in T
BY HeadTailProperties, LenProperties, ElementOfSeq

\* The attributes of a relation that is there stay, and so do those of a result.
LEMMA ResultStays ==
    ASSUME NEW c, NEW r, \A n \in DOMAIN g_relations \ {r} : g_relations'[n] = g_relations[n],
           c.verb \in Derivers, Exists(c.p), c.p # r,
           c.verb \in {"UN", "DF", "NJ"} => Exists(c.q) /\ c.q # r
    PROVE ResultAttrs(c)' = ResultAttrs(c)
<1>1. AttrsOf(c.p)' = AttrsOf(c.p)
  BY DEF AttrsOf, Exists
<1>2. CASE c.verb = "NJ"
  <2>1. AttrsOf(c.q)' = AttrsOf(c.q)
    BY <1>2 DEF AttrsOf, Exists
  <2>2. Rest(c)' = Rest(c)
    BY <2>1 DEF Rest
  <2>. QED
    BY <1>1, <1>2, <2>1, <2>2 DEF ResultAttrs
<1>3. CASE c.verb # "NJ"
  BY <1>1, <1>3 DEF ResultAttrs, Derivers
<1>. QED
  BY <1>2, <1>3

LEMMA CommandStep ==
    ASSUME IInv, RelationsInv, CommandInv, [Next]_vars
    PROVE CommandInv'
\* Steps that leave the command as it is, end it or go on with it.
<1>1. ASSUME UNCHANGED <<g_relations, pc, command, lines>> PROVE CommandInv'
  BY <1>1 DEF CommandInv, Deriving, Exists, AttrsOf, ResultAttrs, Rest
<1>2. ASSUME pc' = "idle" PROVE CommandInv'
  BY <1>2 DEF CommandInv, Deriving
<1>3. ASSUME UNCHANGED <<g_relations, command>>,
             pc \in {"dictionary", "scan", "second", "join"}, pc' \in {"scan", "second", "join"},
             pc' = "second" => command.verb = "UN"
      PROVE CommandInv'
  <2>1. Deriving' => Deriving
    BY <1>3 DEF Deriving
  <2>. QED
    BY <1>3, <2>1 DEF CommandInv, Exists, AttrsOf, ResultAttrs, Rest
<1>4. ASSUME NEW c \in Commands, BeginCreate(c) PROVE CommandInv'
  <2>1. CASE ~ (Cardinality(DOMAIN g_relations) < MAX_REL)
    BY <1>1, <1>4, <2>1 DEF BeginCreate
  <2>2. CASE Cardinality(DOMAIN g_relations) < MAX_REL
    <3>1. PICK name :
              /\ name = ResultName(c) /\ name \notin DOMAIN g_relations
              /\ \A n \in DOMAIN g_relations : g_relations'[n] = g_relations[n]
              /\ g_relations'[name].attrs = ResultAttrs(c)
              /\ g_relations'[name].is_base <=> c.verb = "CR"
              /\ DOMAIN g_relations' = DOMAIN g_relations \union {name}
      BY <1>4, <2>2, Created
    <3>2. pc' = "dictionary" /\ command' = c /\ Accepted(c)
      BY <1>4, <2>2 DEF BeginCreate
    <3>3. ASSUME c.verb \in Derivers
          PROVE /\ c.r = name /\ ~ g_relations'[c.r].is_base
                /\ AttrsOf(c.r)' = ResultAttrs(c)'
                /\ Exists(c.p)' /\ c.p # c.r
                /\ c.verb \in {"UN", "DF", "NJ"} => Exists(c.q)' /\ c.q # c.r
      <4>1. c.r = name
        BY <3>1, <3>3 DEF ResultName, Derivers
      <4>2. Exists(c.p) /\ (c.verb \in {"UN", "DF", "NJ"} => Exists(c.q))
        BY <3>2, <3>3 DEF Accepted, Derivers
      <4>3. ResultAttrs(c)' = ResultAttrs(c)
        BY <3>1, <3>3, <4>2, ResultStays DEF Exists
      <4>4. ~ g_relations'[name].is_base
        BY <3>1, <3>3 DEF Derivers
      <4>. QED
        BY <3>1, <4>1, <4>2, <4>3, <4>4 DEF Exists, AttrsOf
    <3>4. Deriving' => c.verb \in Derivers
      BY <3>2 DEF Deriving
    <3>. QED
      BY <3>2, <3>3, <3>4 DEF CommandInv
  <2>. QED
    BY <2>1, <2>2
<1>5. ASSUME NEW c \in Commands, BeginLines(c) PROVE CommandInv'
  <2>1. /\ pc' = "lines" /\ command' = c /\ lines' = c.lines /\ UNCHANGED g_relations
        /\ c.verb \in {"IN", "RM", "UP"} /\ g_relations[c.p].is_base
    BY <1>5 DEF BeginLines, Accepted
  <2>2. IsSequence(c.lines) /\ \A i \in DOMAIN c.lines : IsSequence(c.lines[i])
    BY <2>1, StorageAssumption DEF IsSequence
  <2>. QED
    BY <2>1, <2>2 DEF CommandInv, Deriving
<1>6. ASSUME NEW c \in Commands, BeginPrint(c) PROVE CommandInv'
  <2>1. pc' = "scan" /\ command' = c /\ c.verb = "PR"
    BY <1>6 DEF BeginPrint
  <2>. QED
    BY <2>1 DEF CommandInv, Deriving, Derivers
<1>7. CASE CarryOutLine
  <2>1. UNCHANGED <<g_relations, pc, command>> /\ pc = "lines" /\ lines # << >>
        /\ lines' = Tail(lines)
    BY <1>7 DEF CarryOutLine
  <2>. DEFINE T == {x \in Range(lines) : IsSequence(x)}
  <2>2. lines \in Seq(T)
    <3>1. IsSequence(lines) /\ \A i \in DOMAIN lines : IsSequence(lines[i])
      BY <2>1 DEF CommandInv
    <3>2. lines \in Seq(Range(lines))
      BY <3>1 DEF IsSequence
    <3>3. Range(lines) \subseteq T
      BY <3>1 DEF Range
    <3>. QED
      BY <3>2, <3>3, SeqMonotonic
  <2>. HIDE DEF T
  <2>3. Tail(lines) \in Seq(T) /\ \A i \in DOMAIN Tail(lines) : Tail(lines)[i] \in T
    BY <2>1, <2>2, TailTyped
  <2>4. IsSequence(Tail(lines))
    <3>1. PICK k \in Nat : Tail(lines) \in [1 .. k -> T]
      BY <2>3, LenProperties, SeqDef
    <3>2. Tail(lines) = [i \in 1 .. k |-> Tail(lines)[i]]
      BY <3>1
    <3>. QED
      BY <3>2, FunctionIsSequence
  <2>5. \A i \in DOMAIN Tail(lines) : IsSequence(Tail(lines)[i])
    BY <2>3 DEF T
  <2>. QED
    BY <2>1, <2>4, <2>5 DEF CommandInv, Deriving
<1>8. CASE EndDictionary
  <2>1. UNCHANGED g_relations /\ pc = "dictionary"
    BY <1>8 DEF EndDictionary
  <2>2. CASE command.verb = "CR"
    BY <1>2, <1>8, <2>2 DEF EndDictionary, EndCommand
  <2>3. CASE command.verb # "CR"
    BY <1>3, <1>8, <2>1, <2>3 DEF EndDictionary
  <2>. QED
    BY <2>2, <2>3
<1>9. CASE EndLines \/ EndScan
  BY <1>2, <1>9 DEF EndLines, EndScan, EndCommand
<1>10. ASSUME NEW c \in Commands, Delete(c) PROVE CommandInv'
  BY <1>2, <1>10 DEF Delete
<1>11. CASE BeginSecond \/ BeginJoin \/ EndJoin
  BY <1>3, <1>11 DEF BeginSecond, BeginJoin, EndJoin
<1>12. CASE Describe \/ DeriveRow \/ JoinRow \/ PrintRow
  BY <1>1, <1>12 DEF Describe, DeriveRow, JoinRow, PrintRow
<1>13. ASSUME NEW w \in {"scan", "join"}, LoadBlock(w) \/ SkipSlot(w) PROVE CommandInv'
  BY <1>1, <1>13 DEF LoadBlock, SkipSlot
<1>14. ASSUME NEW c \in Commands, Refuse(c) PROVE CommandInv'
  BY <1>1, <1>14 DEF Refuse, vars
<1>15. CASE UNCHANGED vars
  BY <1>1, <1>15 DEF vars
<1>. QED
  BY <1>4, <1>5, <1>6, <1>7, <1>8, <1>9, <1>10, <1>11, <1>12, <1>13, <1>14, <1>15 DEF Next

\* A scan of a relation begins, or reads on in the block it has loaded.
LEMMA ScanBegins ==
    ASSUME BlocksTyped, NEW src \in DOMAIN g_relations, UNCHANGED <<storage, g_relations>>,
           Source' = src, cursor'["scan"] = ScanOf(src)
    PROVE ScanSound'
<1>1. cursor'["scan"].left = BlockList(src) /\ cursor'["scan"].slot = BLKFAC + 1
  BY DEF ScanOf
<1>2. BlockList(src) \in Seq(RowBlocks(src)) /\ RowBlocks(src)' = RowBlocks(src)
  BY BlockListRows DEF RowBlocks, Header, storage
<1>3. BLKFAC + 1 \in Nat \ {0} /\ ~ (BLKFAC + 1 <= BLKFAC)
  BY StorageAssumption
<1>. QED
  BY <1>1, <1>2, <1>3 DEF ScanSound

LEMMA ScanGoesOn ==
    ASSUME ScanSound, UNCHANGED g_relations, NEW src, Source = src, Source' = src,
           RowBlocks(src)' = RowBlocks(src),
           cursor'["scan"].left = cursor["scan"].left,
           cursor'["scan"].slot \in {cursor["scan"].slot, cursor["scan"].slot + 1},
           data_buffers'[2] = data_buffers[2]
    PROVE ScanSound'
<1>1. \A row : Fits(row, src)' = Fits(row, src)
  BY DEF Fits, AttrsOf
<1>2. /\ cursor'["scan"].slot \in Nat \ {0}
      /\ cursor'["scan"].slot <= BLKFAC => cursor["scan"].slot <= BLKFAC
  BY StorageAssumption DEF ScanSound
<1>3. cursor'["scan"].left \in Seq(RowBlocks(src)')
  BY DEF ScanSound
<1>4. cursor["scan"].slot <= BLKFAC => \A s \in Slots :
          data_buffers'[2][s] = Free \/ Fits(data_buffers'[2][s], src)
  BY DEF ScanSound
<1>. QED
  BY <1>1, <1>2, <1>3, <1>4 DEF ScanSound

LEMMA ScanLoads ==
    ASSUME BlocksTyped, RelationsInv, RowsInv, DictionaryInv, ScanSound,
           DOMAIN data_buffers = 1 .. 2, "scan" \in DOMAIN cursor,
           DOMAIN cursor["scan"] = {"left", "slot"},
           NEW src \in DOMAIN g_relations, Source = src, Source' = src, LoadBlock("scan")
    PROVE ScanSound'
<1>1. /\ UNCHANGED <<storage, g_relations>> /\ cursor["scan"].left # << >>
      /\ data_buffers'[2] = virtual_disk[Head(cursor["scan"].left)]
      /\ cursor'["scan"].left = Tail(cursor["scan"].left) /\ cursor'["scan"].slot = 1
  BY DEF LoadBlock, BufferOf
<1>2. cursor["scan"].left \in Seq(RowBlocks(src)) /\ RowBlocks(src)' = RowBlocks(src)
  BY <1>1 DEF ScanSound, RowBlocks, Header, storage
<1>3. PICK b \in RowBlocks(src) : b = Head(cursor["scan"].left)
  BY <1>1, <1>2, HeadTailProperties
<1>4. Tail(cursor["scan"].left) \in Seq(RowBlocks(src))
  BY <1>1, <1>2, HeadTailProperties
<1>5. ASSUME NEW s \in Slots, virtual_disk[b][s] # Free PROVE Fits(virtual_disk[b][s], src)
  <2>1. PICK place \in RowBlocks(src) \X Slots : place = <<b, s>>
    BY <1>3
  <2>2. RowAt(place) = virtual_disk[b][s] /\ RowAt(place) # Free
    BY <1>5, <2>1 DEF RowAt
  <2>3. virtual_disk[b][s] \in Rows(src)
    BY <2>1, <2>2 DEF Rows, Slots
  <2>. QED
    BY <2>3, AllRowsFit
<1>6. \A row : Fits(row, src)' = Fits(row, src)
  BY <1>1 DEF Fits, AttrsOf
<1>7. \A s \in Slots : data_buffers'[2][s] = Free \/ Fits(data_buffers'[2][s], src)
  BY <1>1, <1>3, <1>5
<1>. QED
  BY <1>1, <1>2, <1>4, <1>6, <1>7 DEF ScanSound

\* What the buffers and the places of the scans look like.
ScansTyped ==
    /\ DOMAIN data_buffers = 1 .. 2 /\ DOMAIN cursor = {"scan", "join"}
    /\ DOMAIN cursor["scan"] = {"left", "slot"}

LEMMA ScansStep ==
    ASSUME ScansTyped, [Next]_vars
    PROVE ScansTyped'
<1>1. ASSUME UNCHANGED <<data_buffers, cursor>> PROVE ScansTyped'
  BY <1>1 DEF ScansTyped
<1>2. ASSUME EndCommand PROVE ScansTyped'
  BY <1>2 DEF ScansTyped, EndCommand, NoScan
<1>3. ASSUME UNCHANGED data_buffers, NEW f, cursor' = [cursor EXCEPT !["join"] = f]
      PROVE ScansTyped'
  BY <1>3 DEF ScansTyped
<1>4. ASSUME UNCHANGED data_buffers, NEW n, cursor' = [cursor EXCEPT !["scan"] = ScanOf(n)]
      PROVE ScansTyped'
  BY <1>4 DEF ScansTyped, ScanOf
<1>5. ASSUME UNCHANGED data_buffers, NEW w \in {"scan", "join"}, NextSlot(w) PROVE ScansTyped'
  BY <1>5 DEF ScansTyped, NextSlot
<1>6. CASE EndDictionary
  BY <1>2, <1>4, <1>6 DEF EndDictionary
<1>7. CASE EndLines \/ EndScan
  BY <1>2, <1>7 DEF EndLines, EndScan
<1>8. CASE BeginSecond
  BY <1>4, <1>8 DEF BeginSecond
<1>9. CASE BeginJoin
  BY <1>9 DEF BeginJoin, ScansTyped
<1>10. CASE DeriveRow \/ PrintRow \/ JoinRow
  BY <1>5, <1>10 DEF DeriveRow, PrintRow, JoinRow
<1>11. CASE CarryOutLine \/ Describe \/ EndJoin
  BY <1>1, <1>11 DEF CarryOutLine, Describe, EndJoin, scans
<1>12. ASSUME NEW w \in {"scan", "join"}, LoadBlock(w) PROVE ScansTyped'
  BY <1>12 DEF LoadBlock, ScansTyped, BufferOf
<1>13. ASSUME NEW w \in {"scan", "join"}, SkipSlot(w) PROVE ScansTyped'
  BY <1>5, <1>13 DEF SkipSlot
<1>14. ASSUME NEW c \in Commands, BeginPrint(c) PROVE ScansTyped'
  BY <1>4, <1>14 DEF BeginPrint
<1>15. ASSUME NEW c \in Commands, BeginCreate(c) \/ Delete(c) \/ BeginLines(c) PROVE ScansTyped'
  BY <1>1, <1>15 DEF BeginCreate, Delete, BeginLines, scans
<1>16. ASSUME NEW c \in Commands, Refuse(c) PROVE ScansTyped'
  BY <1>1, <1>16 DEF Refuse, vars, scans
<1>17. CASE UNCHANGED vars
  BY <1>1, <1>17 DEF vars, scans
<1>. QED
  BY <1>6, <1>7, <1>8, <1>9, <1>10, <1>11, <1>12, <1>13, <1>14, <1>15, <1>16, <1>17 DEF Next

\* A command that derives a relation is at a scan after the step.
Scans == pc \in {"scan", "second", "join"} /\ command.verb \in Derivers

LEMMA ScanStep ==
    ASSUME HashInRange, IInv, DictionaryInv, StoreInv, [Next]_vars
    PROVE ScanInv'
<1>1. ScansTyped /\ ScansTyped'
  BY ScansStep DEF StoreInv, ScanInv, ScansTyped
<1>2. SUFFICES ASSUME Scans'
               PROVE ScanSound' /\ (pc' = "join" => Fits(pf, command.p)')
  BY <1>1, <1>2 DEF ScanInv, ScansTyped, Scans, Deriving
<1>3. Scans => /\ ScanSound /\ (pc = "join" => Fits(pf, command.p))
               /\ Exists(command.p) /\ command.p # command.r
               /\ command.verb \in {"UN", "DF", "NJ"} => Exists(command.q) /\ command.q # command.r
  BY DEF StoreInv, ScanInv, CommandInv, Scans, Deriving
<1>4. Scans => Source \in DOMAIN g_relations /\ Source # command.r
  BY <1>3 DEF Source, StoreInv, CommandInv, Exists, Scans
<1>5. ASSUME UNCHANGED <<g_relations, command, pf>>, pc = "join" \/ pc' # "join", Scans
      PROVE pc' = "join" => Fits(pf, command.p)'
  BY <1>3, <1>5 DEF Fits, AttrsOf
\* Steps that write no rows and stay in the scan.
<1>6. ASSUME Scans, UNCHANGED <<storage, g_relations, command>>, UNCHANGED data_buffers[2],
             pc' # "second" \/ pc = "second", pc = "second" => pc' = "second",
             cursor'["scan"].left = cursor["scan"].left,
             cursor'["scan"].slot \in {cursor["scan"].slot, cursor["scan"].slot + 1}
      PROVE ScanSound'
  <2>1. PICK src : src = Source
    OBVIOUS
  <2>2. Source' = src
    BY <1>6, <2>1 DEF Source
  <2>3. RowBlocks(src)' = RowBlocks(src)
    BY <1>6 DEF RowBlocks, Header, storage
  <2>. QED
    BY <1>3, <1>6, <2>1, <2>2, <2>3, ScanGoesOn
<1>7. ASSUME NEW c \in Commands, BeginCreate(c) \/ Delete(c) \/ BeginLines(c) \/ BeginPrint(c) \/ Refuse(c)
      PROVE FALSE
  <2>1. CASE BeginCreate(c)
    <3>1. CASE Cardinality(DOMAIN g_relations) < MAX_REL
      BY <1>2, <2>1, <3>1 DEF BeginCreate, Scans
    <3>2. CASE ~ (Cardinality(DOMAIN g_relations) < MAX_REL)
      BY <1>2, <2>1, <3>2 DEF BeginCreate, Scans
    <3>. QED
      BY <3>1, <3>2
  <2>2. CASE Delete(c)
    BY <1>2, <2>2 DEF Delete, Scans
  <2>3. CASE BeginLines(c)
    BY <1>2, <2>3 DEF BeginLines, Scans
  <2>4. CASE BeginPrint(c)
    BY <1>2, <2>4 DEF BeginPrint, Scans, Derivers
  <2>5. CASE Refuse(c)
    BY <1>2, <2>5 DEF Refuse, Scans, vars
  <2>. QED
    BY <1>7, <2>1, <2>2, <2>3, <2>4, <2>5
<1>8. ASSUME EndLines \/ EndScan \/ CarryOutLine \/ Describe \/ PrintRow PROVE FALSE
  BY <1>2, <1>8 DEF EndLines, EndScan, EndCommand, CarryOutLine, Describe, PrintRow, Scans, Derivers
<1>9. CASE EndDictionary
  <2>1. command.verb # "CR" /\ pc = "dictionary"
    BY <1>2, <1>9 DEF EndDictionary, EndCommand, Scans
  <2>2. /\ pc' = "scan" /\ UNCHANGED <<storage, g_relations, command>>
        /\ cursor' = [cursor EXCEPT !["scan"] = ScanOf(command.p)]
    BY <1>9, <2>1 DEF EndDictionary
  <2>3. command.p \in DOMAIN g_relations
    BY <1>2, <2>1, <2>2 DEF Scans, Deriving, StoreInv, CommandInv, Exists
  <2>4. PICK src \in DOMAIN g_relations : src = command.p
    BY <2>3
  <2>5. Source' = src /\ cursor'["scan"] = ScanOf(src)
    BY <1>1, <2>2, <2>4 DEF Source, ScansTyped
  <2>. QED
    BY <2>2, <2>4, <2>5, ScanBegins DEF IInv, BlocksInv
<1>10. CASE BeginSecond
  <2>1. /\ pc' = "second" /\ UNCHANGED <<storage, g_relations, command>>
        /\ cursor' = [cursor EXCEPT !["scan"] = ScanOf(command.q)]
        /\ command.verb = "UN" /\ Scans
    BY <1>10 DEF BeginSecond, Scans, Derivers
  <2>2. PICK src \in DOMAIN g_relations : src = command.q
    BY <1>3, <2>1 DEF Exists
  <2>3. Source' = src /\ cursor'["scan"] = ScanOf(src)
    BY <1>1, <2>1, <2>2 DEF Source, ScansTyped
  <2>. QED
    BY <2>1, <2>2, <2>3, ScanBegins DEF IInv, BlocksInv
<1>11. CASE BeginJoin
  <2>1. /\ pc = "scan" /\ pc' = "join" /\ UNCHANGED <<storage, g_relations, command, data_buffers>>
        /\ pf' = AtSlot("scan") /\ pf' # Free /\ ~ BlockRead("scan") /\ Scans
    BY <1>11 DEF BeginJoin, Scans, Derivers
  <2>2. /\ cursor'["scan"].left = cursor["scan"].left
        /\ cursor'["scan"].slot = cursor["scan"].slot + 1
    BY <1>1, <1>11 DEF BeginJoin, ScansTyped
  <2>3. cursor["scan"].slot \in Slots
    BY <1>3, <2>1, StorageAssumption DEF ScanSound, BlockRead, Slots
  <2>4. Fits(pf', command.p)
    BY <1>3, <2>1, <2>3 DEF ScanSound, AtSlot, BufferOf, Source, Slots
  <2>5. Fits(pf, command.p)'
    BY <2>1, <2>4 DEF Fits, AttrsOf
  <2>. QED
    BY <1>6, <2>1, <2>2, <2>5
<1>12. CASE LoadBlock("scan")
  <2>1. /\ UNCHANGED <<g_relations, command, pf, pc>> /\ pc # "join" /\ Scans
    BY <1>2, <1>12 DEF LoadBlock, Scanning, Scans
  <2>2. PICK src \in DOMAIN g_relations : src = Source
    BY <1>4, <2>1
  <2>3. Source' = src
    BY <2>1, <2>2 DEF Source
  <2>. QED
    BY <1>1, <1>3, <1>5, <1>12, <2>1, <2>2, <2>3, ScanLoads
       DEF ScansTyped, StoreInv, IInv, BlocksInv
<1>13. CASE LoadBlock("join")
  <2>1. /\ UNCHANGED <<storage, g_relations, command, pf, pc>> /\ Scans
    BY <1>2, <1>13 DEF LoadBlock, Scans
  <2>2. data_buffers'[2] = data_buffers[2] /\ cursor'["scan"] = cursor["scan"]
    BY <1>1, <1>13 DEF LoadBlock, ScansTyped, BufferOf
  <2>. QED
    BY <1>5, <1>6, <2>1, <2>2
<1>14. ASSUME NEW w \in {"scan", "join"}, SkipSlot(w)
       PROVE ScanSound' /\ (pc' = "join" => Fits(pf, command.p)')
  <2>1. /\ UNCHANGED <<storage, g_relations, command, pf, pc, data_buffers>> /\ Scans
    BY <1>2, <1>14 DEF SkipSlot, Scans
  <2>2. /\ cursor'["scan"].left = cursor["scan"].left
        /\ cursor'["scan"].slot \in {cursor["scan"].slot, cursor["scan"].slot + 1}
    BY <1>1, <1>14 DEF SkipSlot, NextSlot, ScansTyped
  <2>. QED
    BY <1>5, <1>6, <2>1, <2>2
<1>15. CASE DeriveRow \/ JoinRow
  <2>1. /\ UNCHANGED <<g_relations, command, pf, pc, data_buffers>> /\ Scans
    BY <1>2, <1>15 DEF DeriveRow, JoinRow, Scans
  <2>2. /\ cursor'["scan"].left = cursor["scan"].left
        /\ cursor'["scan"].slot \in {cursor["scan"].slot, cursor["scan"].slot + 1}
    BY <1>1, <1>15 DEF DeriveRow, JoinRow, NextSlot, ScansTyped
  <2>3. PICK t : t \in Targets /\ \A n \in DOMAIN g_relations \ {t} : Untouched(n)
    BY <1>15, WriterWrites DEF OneWritten
  <2>4. t = command.r
    BY <2>1, <2>3 DEF Scans, Targets, Derivers, Makers
  <2>5. PICK src \in DOMAIN g_relations : src = Source
    BY <1>4, <2>1
  <2>6. Source' = src /\ RowBlocks(src)' = RowBlocks(src)
    BY <1>4, <2>1, <2>3, <2>4, <2>5, SameRows DEF Source
  <2>. QED
    BY <1>3, <1>5, <2>1, <2>2, <2>5, <2>6, ScanGoesOn
<1>16. CASE EndJoin
  BY <1>2, <1>6, <1>16 DEF EndJoin, Scans, scans
<1>17. CASE UNCHANGED vars
  BY <1>2, <1>5, <1>6, <1>17 DEF vars, scans, Scans
<1>. QED
  BY <1>7, <1>8, <1>9, <1>10, <1>11, <1>12, <1>13, <1>14, <1>15, <1>16, <1>17 DEF Next

LEMMA StoreStep == HashInRange /\ IInv /\ DictionaryInv /\ StoreInv /\ [Next]_vars => StoreInv'
<1>. SUFFICES ASSUME HashInRange, IInv, DictionaryInv, StoreInv, [Next]_vars PROVE StoreInv'
  OBVIOUS
<1>1. RelationsInv' /\ CommandInv'
  BY RelationsStep, CommandStep DEF StoreInv
<1>2. RowsInv' /\ ScanInv'
  BY RowsStep, ScanStep
<1>. QED
  BY <1>1, <1>2 DEF StoreInv

(***************************************************************************)
(* Storage implements RelationStore                                        *)
(***************************************************************************)
\* What Storage keeps, seen as RelationStore's variable.
Stored ==
    [n \in DOMAIN g_relations \ DOMAIN Dictionary |->
        [keysize |-> g_relations[n].keysize, rows |-> Rows(n)]]

\* The rows of every relation have different keys, those of a derived one too.
AllKeyed ==
    \A n \in DOMAIN g_relations \ DOMAIN Dictionary : \A x, y \in Rows(n) :
        KeyOf(x, g_relations[n].keysize) = KeyOf(y, g_relations[n].keysize) => x = y

LEMMA RowsKeyed ==
    ASSUME IInv, StoreInv
    PROVE AllKeyed
<1>. SUFFICES ASSUME NEW n \in DOMAIN g_relations \ DOMAIN Dictionary,
                     NEW x \in Rows(n), NEW y \in Rows(n),
                     KeyOf(x, g_relations[n].keysize) = KeyOf(y, g_relations[n].keysize)
              PROVE x = y
  BY DEF AllKeyed
<1>1. RowsSound(n) /\ (~ g_relations[n].is_base => g_relations[n].keysize = Len(AttrsOf(n)))
  BY DEF StoreInv, RowsInv, RelationsInv
<1>2. CASE g_relations[n].is_base
  <2>1. PICK a \in RowBlocks(n) \X Slots : x = RowAt(a) /\ x # Free
    BY DEF Rows, Slots
  <2>2. PICK b \in RowBlocks(n) \X Slots : y = RowAt(b) /\ y # Free
    BY DEF Rows, Slots
  <2>3. a = b
    BY <1>1, <1>2, <2>1, <2>2 DEF RowsSound, KeysApart, KeyAt
  <2>. QED
    BY <2>1, <2>2, <2>3
<1>3. CASE ~ g_relations[n].is_base
  <2>1. ASSUME NEW row, Fits(row, n) PROVE KeyOf(row, g_relations[n].keysize) = row
    <3>1. IsSequence(row) /\ Len(row) = g_relations[n].keysize
      BY <1>1, <1>3, <2>1, FitsLength DEF IInv
    <3>. QED
      BY <3>1, SubSeqFull DEF KeyOf, IsSequence
  <2>. QED
    BY <1>1, <2>1 DEF RowsSound
<1>. QED
  BY <1>2, <1>3

LEMMA StoredFacts ==
    /\ DOMAIN Stored = DOMAIN g_relations \ DOMAIN Dictionary
    /\ \A n \in DOMAIN Stored : Stored[n] = [keysize |-> g_relations[n].keysize, rows |-> Rows(n)]
    /\ DOMAIN Stored' = DOMAIN g_relations' \ DOMAIN Dictionary
    /\ \A n \in DOMAIN Stored' :
           /\ Stored'[n] = [keysize |-> g_relations'[n].keysize, rows |-> Rows(n)']
           /\ Stored'[n].rows = Rows(n)'
    /\ Stored = [n \in DOMAIN Stored |-> Stored[n]]
    /\ Stored' = [n \in DOMAIN Stored' |-> Stored'[n]]
BY DEF Stored

LEMMA StoredKept ==
    ASSUME NEW n \in DOMAIN Stored, n \in DOMAIN Stored', Untouched(n)
    PROVE Stored'[n] = Stored[n]
<1>1. Rows(n)' = Rows(n) /\ g_relations'[n] = g_relations[n]
  BY SameRows DEF Untouched
<1>. QED
  BY <1>1, StoredFacts

LEMMA NoneImplements ==
    ASSUME NoneWritten
    PROVE UNCHANGED Stored
<1>1. DOMAIN Stored' = DOMAIN Stored
  BY StoredFacts DEF NoneWritten
<1>2. \A n \in DOMAIN Stored : Stored'[n] = Stored[n]
  BY <1>1, StoredFacts, StoredKept DEF NoneWritten
<1>. QED
  BY <1>1, <1>2 DEF Stored

LEMMA CreateImplements ==
    ASSUME IInv, NEW c \in Commands, BeginCreate(c)
    PROVE Store!Next \/ UNCHANGED Stored
<1>1. CASE ~ (Cardinality(DOMAIN g_relations) < MAX_REL)
  <2>1. NoneWritten
    BY <1>1, CreateFrame DEF BeginCreate, NoneWritten
  <2>. QED
    BY <2>1, NoneImplements
<1>2. CASE Cardinality(DOMAIN g_relations) < MAX_REL
  <2>1. PICK name :
            /\ name \notin DOMAIN g_relations /\ ~ IsDictionary(name)
            /\ DOMAIN g_relations' = DOMAIN g_relations \union {name}
            /\ RowBlocks(name)' = {}
    BY <1>2, Created
  <2>2. DOMAIN Stored' = DOMAIN Stored \union {name} /\ name \notin DOMAIN Stored
    BY <2>1, StoredFacts DEF IsDictionary
  <2>3. Stored'[name].rows = {}
    <3>1. Rows(name)' = {}
      BY <2>1 DEF Rows
    <3>. QED
      BY <2>2, <3>1, StoredFacts
  <2>4. \A m \in DOMAIN Stored : Stored'[m] = Stored[m]
    BY <2>2, StoredKept, StoredFacts, CreateFrame
  <2>5. Stored' = [m \in DOMAIN Stored \union {name} |->
                      IF m = name THEN Stored'[name] ELSE Stored[m]]
    BY <2>2, <2>4, StoredFacts
  <2>6. Store!Create(name)
    BY <2>2, <2>3, <2>5 DEF Store!Create, Stored
  <2>. QED
    BY <2>2, <2>6 DEF Store!Next, Stored
<1>. QED
  BY <1>1, <1>2

LEMMA DropImplements ==
    ASSUME IInv, NEW c \in Commands, Delete(c)
    PROVE Store!Next \/ UNCHANGED Stored
<1>1. /\ DOMAIN g_relations' = DOMAIN g_relations \ {c.p}
      /\ c.p \in DOMAIN g_relations \ DOMAIN Dictionary
  BY DEF Delete, Accepted, Exists, IsDictionary
<1>2. DOMAIN Stored' = DOMAIN Stored \ {c.p} /\ c.p \in DOMAIN Stored
  BY <1>1, StoredFacts
<1>3. \A m \in DOMAIN Stored \ {c.p} : Stored'[m] = Stored[m]
  BY <1>2, StoredKept, StoredFacts, DeleteFrame, DictionaryFacts
<1>4. Stored' = [m \in DOMAIN Stored \ {c.p} |-> Stored[m]]
  BY <1>2, <1>3, StoredFacts
<1>5. Store!Drop(c.p)
  BY <1>4 DEF Store!Drop, Stored
<1>. QED
  BY <1>2, <1>5 DEF Store!Next, Stored

\* What writing to one relation comes to: a row comes, goes or is replaced.
LEMMA WriteImplements ==
    ASSUME AllKeyed', NEW t \in DOMAIN g_relations \ DOMAIN Dictionary, UNCHANGED g_relations,
           Changes(t), \A n \in DOMAIN g_relations \ {t} : Untouched(n)
    PROVE Store!Next \/ UNCHANGED Stored
<1>1. DOMAIN Stored' = DOMAIN Stored /\ t \in DOMAIN Stored
  BY StoredFacts
<1>2. \A n \in DOMAIN Stored \ {t} : Stored'[n] = Stored[n]
  BY <1>1, StoredKept, StoredFacts
<1>3. /\ Stored[t].rows = Rows(t) /\ Stored[t].keysize = g_relations[t].keysize
      /\ Stored'[t].rows = Rows(t)' /\ Stored'[t].keysize = g_relations[t].keysize
      /\ \A rows : [Stored[t] EXCEPT !.rows = rows] =
                       [keysize |-> g_relations[t].keysize, rows |-> rows]
      /\ Stored'[t] = [keysize |-> g_relations[t].keysize, rows |-> Rows(t)']
  BY <1>1, StoredFacts
<1>4. Stored' = [Stored EXCEPT ![t].rows = Rows(t)']
  BY <1>1, <1>2, <1>3, StoredFacts
<1>5. Store!Keyed(Stored'[t])
  <2>1. \A x, y \in Rows(t)' :
            KeyOf(x, g_relations[t].keysize) = KeyOf(y, g_relations[t].keysize) => x = y
    BY DEF AllKeyed
  <2>2. \A x, k : Store!KeyOf(x, k) = KeyOf(x, k)
    BY DEF Store!KeyOf, KeyOf
  <2>3. PICK r : r = Stored'[t]
    OBVIOUS
  <2>4. Store!Keyed(r)
    BY <1>3, <2>1, <2>2, <2>3 DEF Store!Keyed
  <2>. QED
    BY <2>3, <2>4
<1>6. Free \notin Rows(t)
  BY DEF Rows
<1>7. CASE Rows(t)' = Rows(t)
  BY <1>1, <1>2, <1>3, <1>7, StoredFacts
<1>8. ASSUME Store!Add(t) \/ Store!Remove(t) \/ Store!Replace(t)
      PROVE Store!Next
  <2>1. Store!Write(t)
    BY <1>1, <1>5, <1>8 DEF Store!Write, Stored
  <2>. QED
    BY <1>1, <2>1 DEF Store!Next, Stored
<1>9. ASSUME NEW row, row # Free, row \notin Rows(t), Rows(t)' = Rows(t) \union {row}
      PROVE Store!Add(t)
  <2>1. row \in Stored'[t].rows \ Stored[t].rows
    BY <1>3, <1>9
  <2>2. Stored' = [Stored EXCEPT ![t].rows = @ \union {row}]
    BY <1>3, <1>4, <1>9
  <2>. QED
    BY <2>1, <2>2 DEF Store!Add, Stored
<1>10. ASSUME NEW old \in Rows(t), Rows(t)' = Rows(t) \ {old}
       PROVE Store!Remove(t)
  <2>1. Stored' = [Stored EXCEPT ![t].rows = @ \ {old}] /\ old \in Stored[t].rows
    BY <1>3, <1>4, <1>10
  <2>. QED
    BY <2>1 DEF Store!Remove, Stored
<1>11. ASSUME NEW old \in Rows(t), NEW other, other # Free,
              KeyOf(other, g_relations[t].keysize) = KeyOf(old, g_relations[t].keysize),
              Rows(t)' = (Rows(t) \ {old}) \union {other}
       PROVE Store!Replace(t)
  <2>1. Stored' = [Stored EXCEPT ![t].rows = (@ \ {old}) \union {other}]
    BY <1>3, <1>4, <1>11
  <2>2. old \in Stored[t].rows /\ other \in Stored'[t].rows
    BY <1>3, <1>11
  <2>3. Store!KeyOf(old, Stored[t].keysize) = Store!KeyOf(other, Stored[t].keysize)
    BY <1>3, <1>11 DEF Store!KeyOf, KeyOf
  <2>. QED
    BY <2>1, <2>2, <2>3 DEF Store!Replace, Stored
<1>12. ASSUME NEW row, Rows(t)' = (Rows(t) \union {row}) \ {Free}
       PROVE Store!Next \/ UNCHANGED Stored
  <2>1. CASE row = Free \/ row \in Rows(t)
    <3>1. Rows(t)' = Rows(t)
      BY <1>6, <1>12, <2>1
    <3>. QED
      BY <1>7, <3>1
  <2>2. CASE row # Free /\ row \notin Rows(t)
    <3>1. Rows(t)' = Rows(t) \union {row}
      BY <1>6, <1>12, <2>2
    <3>. QED
      BY <1>8, <1>9, <2>2, <3>1
  <2>. QED
    BY <2>1, <2>2
<1>13. ASSUME NEW old \in Rows(t), NEW other,
              other = Free \/ KeyOf(other, g_relations[t].keysize) = KeyOf(old, g_relations[t].keysize),
              Rows(t)' = ((Rows(t) \ {old}) \union {other}) \ {Free}
       PROVE Store!Next
  <2>1. CASE other = Free
    <3>1. Rows(t)' = Rows(t) \ {old}
      BY <1>6, <1>13, <2>1
    <3>. QED
      BY <1>8, <1>10, <3>1
  <2>2. CASE other # Free
    <3>1. Rows(t)' = (Rows(t) \ {old}) \union {other}
      BY <1>6, <1>13, <2>2
    <3>. QED
      BY <1>8, <1>11, <1>13, <2>2, <3>1
  <2>. QED
    BY <2>1, <2>2
<1>. QED
  BY <1>7, <1>12, <1>13 DEF Changes

LEMMA StepImplements ==
    ASSUME HashInRange, IInv, DictionaryInv, StoreInv, AllKeyed', [Next]_vars
    PROVE Store!Next \/ UNCHANGED Stored
<1>1. CASE OneWritten
  <2>1. UNCHANGED g_relations
    BY <1>1 DEF OneWritten
  <2>2. PICK t \in DOMAIN g_relations \ DOMAIN Dictionary :
            Wrote(t) /\ \A n \in DOMAIN g_relations \ {t} : Untouched(n)
    BY <1>1 DEF OneWritten
  <2>3. Changes(t)
    BY <2>2 DEF Wrote
  <2>. QED
    BY <2>1, <2>2, <2>3, WriteImplements
<1>. QED
  BY <1>1, StepWrites, NoneImplements, CreateImplements, DropImplements

\* However the engine of mydb.c spreads rows over buckets, overflow blocks and
\* heaps, and whatever scans it has open, what it keeps is a set of relations in
\* which rows with different keys come, go and are replaced one at a time.
THEOREM StorageImplementsRelationStore ==
    ASSUME HashInRange
    PROVE Spec => ImplementsRelationStore
<1>1. Init => StoreInv
  BY InitStore
<1>2. IInv /\ DictionaryInv /\ StoreInv /\ [Next]_vars => StoreInv'
  BY StoreStep
<1>3. IInv /\ StoreInv => AllKeyed
  BY RowsKeyed
<1>4. Init => Store!Init
  BY DEF Init, Store!Init
<1>5. IInv /\ DictionaryInv /\ StoreInv /\ AllKeyed' /\ [Next]_vars => [Store!Next]_Stored
  BY StepImplements
<1>6. Init => DictionaryInv
  BY InitDictionary
<1>7. IInv /\ DictionaryInv /\ [Next]_vars => DictionaryInv'
  BY DictionaryStep
<1>. QED
  BY <1>1, <1>2, <1>3, <1>4, <1>5, <1>6, <1>7, StorageInvariant, PTL
     DEF Spec, ImplementsRelationStore, Store!Spec, Stored

(***************************************************************************)
(* The type invariant                                                      *)
(***************************************************************************)
HeadersCounted == \A b \in Blocks : Counts(headers[b])

RelationsBounded ==
    /\ IsFiniteSet(DOMAIN g_relations) /\ Cardinality(DOMAIN g_relations) <= MAX_REL
    /\ \A n \in DOMAIN g_relations : g_relations[n].is_base \in BOOLEAN

EngineTyped ==
    /\ pc \in {"idle", "lines", "dictionary", "scan", "second", "join"}
    /\ command \in Commands \union {NoCommand}

CursorTyped ==
    /\ DOMAIN cursor = {"scan", "join"}
    /\ \A w \in {"scan", "join"} : /\ DOMAIN cursor[w] = {"left", "slot"}
                                   /\ cursor[w].slot \in 1 .. BLKFAC + 1

TypesInv == HeadersCounted /\ RelationsBounded /\ EngineTyped /\ CursorTyped

LEMMA InitTypes == Init => TypesInv
<1>. SUFFICES ASSUME Init PROVE TypesInv
  OBVIOUS
<1>1. HeadersCounted
  BY StorageAssumption DEF Init, HeadersCounted, Counts, EmptyHeader
<1>2. RelationsBounded
  <2>1. DOMAIN g_relations = {"catalog"} \union {"columns"}
    BY DEF Init, Dictionary
  <2>2. IsFiniteSet({"catalog"}) /\ Cardinality({"catalog"}) = 1
    BY FS_Singleton
  <2>3. /\ IsFiniteSet({"catalog"} \union {"columns"})
        /\ Cardinality({"catalog"} \union {"columns"}) = 2
    BY <2>2, FS_AddElement
  <2>. QED
    BY <2>1, <2>3, StorageAssumption DEF Init, RelationsBounded, Dictionary, Relation
<1>3. EngineTyped
  BY DEF Init, EngineTyped
<1>4. CursorTyped
  BY StorageAssumption DEF Init, CursorTyped, NoScan
<1>. QED
  BY <1>1, <1>2, <1>3, <1>4 DEF TypesInv

\* A header that changes is cleared, or it counts its blocks right afterwards.
LEMMA HeadersStep ==
    ASSUME HashInRange, IInv, IInv', HeadersCounted, [Next]_vars
    PROVE HeadersCounted'
<1>1. ASSUME UNCHANGED headers PROVE HeadersCounted'
  BY <1>1 DEF HeadersCounted, Counts
<1>2. ASSUME NEW c \in Commands, BeginCreate(c) PROVE HeadersCounted'
  <2>1. headers' = [headers EXCEPT ![Min(FreeBlocks)] = EmptyHeader]
    BY <1>2 DEF BeginCreate
  <2>2. Counts(EmptyHeader)
    BY StorageAssumption DEF Counts, EmptyHeader
  <2>3. \A b \in Blocks : headers'[b] = EmptyHeader \/ headers'[b] = headers[b]
    BY <2>1 DEF IInv, BlocksInv, BlocksTyped
  <2>. QED
    BY <2>2, <2>3 DEF HeadersCounted, Counts
<1>3. CASE CarryOutLine \/ Describe \/ DeriveRow \/ JoinRow
  <2>1. PICK n \in DOMAIN g_relations : AppendEffect(n)
    BY <1>3, WritersEffect
  <2>2. UNCHANGED g_relations
    BY <1>3 DEF CarryOutLine, Describe, DeriveRow, JoinRow
  <2>3. \A b \in Blocks : headers'[b] = headers[b] \/ b = HeaderBlock(n)
    BY <2>1 DEF AppendEffect, NoBlockMoves, TakesBlock, IInv, BlocksInv, BlocksTyped
  <2>4. \A kind \in Kinds : headers'[HeaderBlock(n)].num[kind] \in 0 .. Size(kind)
    <3>. SUFFICES ASSUME NEW kind \in Kinds
                  PROVE headers'[HeaderBlock(n)].num[kind] \in 0 .. Size(kind)
      OBVIOUS
    <3>1. headers'[HeaderBlock(n)].num[kind] = Cardinality(Filled(n, kind)')
      BY <2>2 DEF IInv, BlocksInv, Counted, HeaderBlock
    <3>2. IsFiniteSet(1 .. Size(kind)) /\ Cardinality(1 .. Size(kind)) = Size(kind)
      BY SizeIsNat, FS_Interval
    <3>3. Filled(n, kind)' \subseteq 1 .. Size(kind)
      BY DEF Filled
    <3>4. /\ Cardinality(Filled(n, kind)') \in Nat
          /\ Cardinality(Filled(n, kind)') <= Size(kind)
      BY <3>2, <3>3, FS_Subset, FS_CardinalityType
    <3>. QED
      BY <3>1, <3>4, SizeIsNat
  <2>5. Counts(headers'[HeaderBlock(n)])
    BY <2>4 DEF Counts, Kinds, Size
  <2>. QED
    BY <2>3, <2>5 DEF HeadersCounted, Counts
<1>4. ASSUME NEW c \in Commands, Refuse(c) \/ Delete(c) \/ BeginLines(c) \/ BeginPrint(c)
      PROVE HeadersCounted'
  BY <1>1, <1>4 DEF Refuse, Delete, BeginLines, BeginPrint, vars, storage
<1>5. CASE EndLines \/ EndDictionary \/ PrintRow \/ BeginSecond \/ BeginJoin \/ EndJoin \/ EndScan
  BY <1>1, <1>5
     DEF EndLines, EndDictionary, PrintRow, BeginSecond, BeginJoin, EndJoin, EndScan, storage
<1>6. ASSUME NEW w \in {"scan", "join"}, LoadBlock(w) \/ SkipSlot(w) PROVE HeadersCounted'
  BY <1>1, <1>6 DEF LoadBlock, SkipSlot, storage
<1>7. CASE UNCHANGED vars
  BY <1>1, <1>7 DEF vars, storage
<1>. QED
  BY <1>2, <1>3, <1>4, <1>5, <1>6, <1>7 DEF Next

LEMMA BoundStep ==
    ASSUME RelationsBounded, [Next]_vars
    PROVE RelationsBounded'
<1>. DEFINE D == DOMAIN g_relations
<1>1. CASE UNCHANGED g_relations
  BY <1>1 DEF RelationsBounded
<1>2. ASSUME NEW c \in Commands, BeginCreate(c), Cardinality(DOMAIN g_relations) < MAX_REL
      PROVE RelationsBounded'
  <2>. DEFINE name == ResultName(c)
  <2>1. /\ DOMAIN g_relations' = D \union {name}
        /\ \A n \in DOMAIN g_relations' \ {name} : n \in D /\ g_relations'[n] = g_relations[n]
        /\ g_relations'[name].is_base = (c.verb = "CR")
    BY <1>2 DEF BeginCreate, Relation
  <2>2. \A n \in DOMAIN g_relations' : g_relations'[n].is_base \in BOOLEAN
    BY <2>1 DEF RelationsBounded
  <2>. HIDE DEF name
  <2>3. /\ IsFiniteSet(D \union {name}) /\ Cardinality(D) \in Nat
        /\ Cardinality(D \union {name}) = IF name \in D THEN Cardinality(D) ELSE Cardinality(D) + 1
    BY FS_AddElement, FS_CardinalityType DEF RelationsBounded
  <2>. QED
    BY <1>2, <2>1, <2>2, <2>3, StorageAssumption DEF RelationsBounded
<1>3. ASSUME NEW c \in Commands, Delete(c) PROVE RelationsBounded'
  <2>1. /\ DOMAIN g_relations' = D \ {c.p}
        /\ \A n \in DOMAIN g_relations' : n \in D /\ g_relations'[n] = g_relations[n]
    BY <1>3 DEF Delete
  <2>2. /\ IsFiniteSet(D \ {c.p}) /\ Cardinality(D \ {c.p}) <= Cardinality(D)
        /\ Cardinality(D) \in Nat /\ Cardinality(D \ {c.p}) \in Nat
    BY FS_Subset, FS_CardinalityType DEF RelationsBounded
  <2>. QED
    BY <2>1, <2>2, StorageAssumption DEF RelationsBounded
<1>. QED
  BY <1>1, <1>2, <1>3, RelationsKept

LEMMA EngineStep ==
    ASSUME EngineTyped, [Next]_vars
    PROVE EngineTyped'
<1>1. ASSUME UNCHANGED <<pc, command>> PROVE EngineTyped'
  BY <1>1 DEF EngineTyped
<1>2. ASSUME NEW c \in Commands, BeginCreate(c) PROVE EngineTyped'
  <2>1. CASE Cardinality(DOMAIN g_relations) < MAX_REL
    BY <1>2, <2>1 DEF BeginCreate, EngineTyped
  <2>2. CASE ~ (Cardinality(DOMAIN g_relations) < MAX_REL)
    BY <1>1, <1>2, <2>2 DEF BeginCreate
  <2>. QED
    BY <2>1, <2>2
<1>3. ASSUME NEW c \in Commands, BeginLines(c) \/ BeginPrint(c) PROVE EngineTyped'
  BY <1>3 DEF BeginLines, BeginPrint, EngineTyped
<1>4. ASSUME NEW c \in Commands, Refuse(c) \/ Delete(c) PROVE EngineTyped'
  BY <1>1, <1>4 DEF Refuse, Delete, vars
<1>5. CASE CarryOutLine \/ Describe \/ DeriveRow \/ JoinRow \/ PrintRow
  BY <1>1, <1>5 DEF CarryOutLine, Describe, DeriveRow, JoinRow, PrintRow
<1>6. CASE EndLines \/ EndDictionary \/ EndScan
  BY <1>6 DEF EndLines, EndDictionary, EndScan, EndCommand, EngineTyped
<1>7. CASE BeginSecond \/ BeginJoin \/ EndJoin
  BY <1>7 DEF BeginSecond, BeginJoin, EndJoin, EngineTyped
<1>8. ASSUME NEW w \in {"scan", "join"}, LoadBlock(w) \/ SkipSlot(w) PROVE EngineTyped'
  BY <1>1, <1>8 DEF LoadBlock, SkipSlot
<1>9. CASE UNCHANGED vars
  BY <1>1, <1>9 DEF vars
<1>. QED
  BY <1>2, <1>3, <1>4, <1>5, <1>6, <1>7, <1>8, <1>9 DEF Next

\* A slot is passed only when it is one of a block that has been read.
LEMMA CursorStep ==
    ASSUME CursorTyped, [Next]_vars
    PROVE CursorTyped'
<1>. USE StorageAssumption
<1>1. ASSUME UNCHANGED cursor PROVE CursorTyped'
  BY <1>1 DEF CursorTyped
<1>2. ASSUME NEW w \in {"scan", "join"}, ~ BlockRead(w), NextSlot(w) PROVE CursorTyped'
  BY <1>2 DEF CursorTyped, BlockRead, NextSlot
<1>3. ASSUME NEW w \in {"scan", "join"}, NEW n, cursor' = [cursor EXCEPT ![w] = ScanOf(n)]
      PROVE CursorTyped'
  BY <1>3 DEF CursorTyped, ScanOf
<1>4. CASE BeginJoin
  BY <1>4 DEF CursorTyped, BeginJoin, BlockRead, ScanOf
<1>5. ASSUME NEW w \in {"scan", "join"}, LoadBlock(w) PROVE CursorTyped'
  BY <1>5 DEF CursorTyped, LoadBlock
<1>6. ASSUME NEW w \in {"scan", "join"}, SkipSlot(w) PROVE CursorTyped'
  BY <1>2, <1>6 DEF SkipSlot
<1>7. CASE PrintRow \/ DeriveRow \/ JoinRow
  BY <1>2, <1>7 DEF PrintRow, DeriveRow, JoinRow
<1>8. ASSUME EndCommand PROVE CursorTyped'
  BY <1>8 DEF CursorTyped, EndCommand, NoScan
<1>9. CASE EndLines \/ EndScan
  BY <1>8, <1>9 DEF EndLines, EndScan
<1>10. CASE EndDictionary
  BY <1>3, <1>8, <1>10 DEF EndDictionary
<1>11. CASE BeginSecond
  BY <1>3, <1>11 DEF BeginSecond
<1>12. ASSUME NEW c \in Commands, BeginPrint(c) PROVE CursorTyped'
  BY <1>3, <1>12 DEF BeginPrint
<1>13. ASSUME NEW c \in Commands, Refuse(c) \/ BeginCreate(c) \/ Delete(c) \/ BeginLines(c)
       PROVE CursorTyped'
  BY <1>1, <1>13 DEF Refuse, BeginCreate, Delete, BeginLines, vars, scans
<1>14. CASE CarryOutLine \/ Describe \/ EndJoin
  BY <1>1, <1>14 DEF CarryOutLine, Describe, EndJoin, scans
<1>15. CASE UNCHANGED vars
  BY <1>1, <1>15 DEF vars, scans
<1>. QED
  BY <1>4, <1>5, <1>6, <1>7, <1>9, <1>10, <1>11, <1>12, <1>13, <1>14, <1>15 DEF Next

\* What the invariants of the blocks, the dictionary and the store say of types.
LEMMA TypesFollow ==
    ASSUME IInv, DictionaryInv, StoreInv, TypesInv
    PROVE TypeOK
<1>1. \A b \in Blocks : /\ headers[b].data \in [1 .. BLKMAX -> Blocks]
                        /\ headers[b].overflow \in [1 .. OVBLKMAX -> Blocks]
                        /\ Counts(headers[b])
                        /\ DOMAIN virtual_disk[b] = 1 .. BLKFAC
  BY DEF IInv, BlocksInv, BlocksTyped, IsHeader, DiskTyped, TypesInv, HeadersCounted
<1>2. ASSUME NEW n \in DOMAIN g_relations
      PROVE /\ g_relations[n].header_block \in Blocks
            /\ g_relations[n].is_base \in BOOLEAN
            /\ \A row \in Rows(n) : Len(row) = Len(AttrsOf(n))
  <2>1. ASSUME NEW row \in Rows(n) PROVE Len(row) = Len(AttrsOf(n))
    <3>1. Fits(row, n)
      BY AllRowsFit DEF StoreInv
    <3>. QED
      BY <3>1, FitsLength DEF IInv
  <2>. QED
    BY <2>1 DEF IInv, BlocksInv, BlocksTyped, HeaderBlock, TypesInv, RelationsBounded
<1>3. bitmapblk \in [Blocks -> {0, 1}] /\ DOMAIN data_buffers = 1 .. 2
  BY DEF IInv, BlocksInv, BlocksTyped, StoreInv, ScanInv
<1>4. /\ Cardinality(DOMAIN g_relations) <= MAX_REL
      /\ pc \in {"idle", "lines", "dictionary", "scan", "second", "join"}
      /\ command \in Commands \union {NoCommand}
      /\ \A w \in {"scan", "join"} : cursor[w].slot \in 1 .. BLKFAC + 1
  BY DEF TypesInv, RelationsBounded, EngineTyped, CursorTyped
<1>. QED
  BY <1>1, <1>2, <1>3, <1>4 DEF TypeOK

\* Whatever the commands are, headers stay within their arrays and count no more
\* blocks than they have entries for, rows have all their fields, and g_relations
\* never holds more than MAX_REL relations.
THEOREM StorageTypeCorrect ==
    ASSUME HashInRange
    PROVE Spec => []TypeOK
<1>1. Init => IInv /\ DictionaryInv /\ StoreInv /\ TypesInv
  BY InitBlocks, InitTargets, InitDictionary, InitStore, InitTypes
     DEF IInv, Init, DiskTyped, EmptyBlock
<1>2. IInv /\ DictionaryInv /\ StoreInv /\ TypesInv /\ [Next]_vars
          => IInv' /\ DictionaryInv' /\ StoreInv' /\ TypesInv'
  <2>. SUFFICES ASSUME IInv, DictionaryInv, StoreInv, TypesInv, [Next]_vars
                PROVE IInv' /\ DictionaryInv' /\ StoreInv' /\ TypesInv'
    OBVIOUS
  <2>1. IInv'
    BY BlocksStep, TargetsStep, DiskStep DEF IInv
  <2>2. DictionaryInv' /\ StoreInv'
    BY DictionaryStep, StoreStep
  <2>3. TypesInv'
    BY <2>1, HeadersStep, BoundStep, EngineStep, CursorStep DEF TypesInv
  <2>. QED
    BY <2>1, <2>2, <2>3
<1>3. IInv /\ DictionaryInv /\ StoreInv /\ TypesInv => TypeOK
  BY TypesFollow
<1>. QED
  BY <1>1, <1>2, <1>3, PTL DEF Spec

(***************************************************************************)
(* A row that is turned down                                               *)
(***************************************************************************)
\* A row of a relation without attributes would look like a free slot.
NoneEmpty == \A c \in Commands : c.verb = "CR" => c.attrs # << >>

BaseNamed == \A n \in DOMAIN g_relations : g_relations[n].is_base => AttrsOf(n) # << >>

LEMMA InitNamed == Init => BaseNamed
<1>1. \A k, l, m : Attrs(<<k, l>>, m) # << >>
  BY DEF Attrs
<1>2. \A j, k, l, m : Attrs(<<j, k, l>>, m) # << >>
  BY DEF Attrs
<1>. QED
  BY <1>1, <1>2 DEF Init, BaseNamed, AttrsOf, Dictionary, Relation

LEMMA NamedStep ==
    ASSUME NoneEmpty, IInv, BaseNamed, [Next]_vars
    PROVE BaseNamed'
<1>1. CASE UNCHANGED g_relations
  BY <1>1 DEF BaseNamed, AttrsOf
<1>2. ASSUME NEW c \in Commands, BeginCreate(c), Cardinality(DOMAIN g_relations) < MAX_REL
      PROVE BaseNamed'
  <2>1. PICK name, attrs :
            /\ attrs = ResultAttrs(c)
            /\ DOMAIN g_relations' = DOMAIN g_relations \union {name}
            /\ \A n \in DOMAIN g_relations : g_relations'[n] = g_relations[n]
            /\ g_relations'[name].attrs = attrs
            /\ g_relations'[name].is_base <=> c.verb = "CR"
    BY <1>2, Created
  <2>2. c.verb = "CR" => attrs # << >>
    BY <2>1 DEF ResultAttrs, NoneEmpty
  <2>. QED
    BY <2>1, <2>2 DEF BaseNamed, AttrsOf
<1>3. ASSUME NEW c \in Commands, Delete(c) PROVE BaseNamed'
  BY <1>3 DEF Delete, BaseNamed, AttrsOf
<1>. QED
  BY <1>1, <1>2, <1>3, RelationsKept

LEMMA WrittenThere ==
    ASSUME IInv, UNCHANGED g_relations, NEW n \in DOMAIN g_relations, NEW row, row # Free,
           NEW kind \in BlockKinds(n), NEW i \in 1 .. Size(kind),
           HasRoom(Header(n)[kind][i]), WriteInto(Header(n)[kind][i], row)
    PROVE row \in Rows(n)'
<1>. PICK b, s : b = Header(n)[kind][i] /\ s = Min(FreeSlots(b))
  OBVIOUS
<1>1. b # 0 /\ b = Entry(n, kind, i)
  BY EntryTyped DEF HasRoom, Entry, BlockKinds, Kinds, IInv, BlocksInv
<1>2. b \in RowBlocks(n)
  BY <1>1, RowBlockEntry DEF IInv, BlocksInv
<1>3. s \in Slots
  <2>1. FreeSlots(b) # {} /\ FreeSlots(b) \subseteq Nat
    BY StorageAssumption DEF HasRoom, FreeSlots
  <2>2. s \in FreeSlots(b)
    BY <2>1, MinIsLeast
  <2>. QED
    BY <2>2 DEF FreeSlots, Slots
<1>4. UNCHANGED headers /\ virtual_disk' = [virtual_disk EXCEPT ![b][s] = row]
  BY DEF WriteInto, WriteTuple
<1>5. b \in DOMAIN virtual_disk /\ s \in DOMAIN virtual_disk[b]
  BY <1>2, <1>3, RowBlockIsEntry DEF IInv, BlocksInv, DiskTyped, Slots
<1>6. virtual_disk'[b][s] = row
  BY <1>4, <1>5
<1>7. RowBlocks(n)' = RowBlocks(n)
  BY <1>4 DEF RowBlocks, Header
<1>8. <<b, s>> \in (RowBlocks(n) \X Slots)' /\ RowAt(<<b, s>>)' = row
  BY <1>2, <1>3, <1>6, <1>7 DEF RowAt, Slots
<1>. QED
  BY <1>8 DEF Rows, Slots

LEMMA GrownOrFull ==
    ASSUME IInv, UNCHANGED g_relations, NEW n \in DOMAIN g_relations, NEW row, row # Free,
           NEW kind \in BlockKinds(n), NEW i \in 1 .. Size(kind),
           Entry(n, kind, i) = 0, Grow(n, kind, i, row)
    PROVE row \in Rows(n)' \/ MayRefuse(n)
<1>1. CASE FreeBlocks = {}
  BY <1>1 DEF FreeBlocks, MayRefuse, IInv, BlocksInv, BlocksTyped
<1>2. CASE FreeBlocks # {}
  <2>1. PICK b : AddsRow(n, b, 1, row)
    BY <1>2, GrowAdds
  <2>2. Rows(n)' = (Rows(n) \union {row}) \ {Free}
    BY <2>1, RowsAfterAdding
  <2>. QED
    BY <2>2
<1>. QED
  BY <1>1, <1>2

\* No two places of n hold the same row.
RowsApart(n) ==
    \A x, y \in RowBlocks(n) \X Slots : RowAt(x) # Free /\ RowAt(x) = RowAt(y) => x = y

LEMMA KeysThenRows ==
    ASSUME NEW n, KeysApart(n)
    PROVE RowsApart(n)
BY DEF KeysApart, RowsApart, KeyAt

LEMMA SlotsCounted == IsFiniteSet(Slots) /\ Cardinality(Slots) = BLKFAC
<1>1. BLKFAC \in Int /\ 1 \in Int /\ ~ (1 > BLKFAC)
  BY StorageAssumption
<1>2. IsFiniteSet(1 .. BLKFAC) /\ Cardinality(1 .. BLKFAC) = BLKFAC - 1 + 1
  BY <1>1, FS_Interval
<1>. QED
  BY <1>1, <1>2 DEF Slots

LEMMA RowsFinite ==
    ASSUME IInv, NEW n \in DOMAIN g_relations
    PROVE IsFiniteSet(Rows(n))
<1>. DEFINE P == RowBlocks(n) \X Slots
            g == [place \in P |-> RowAt(place)]
<1>1. IsFiniteSet(Blocks)
  <2>1. IsFiniteSet(0 .. DISKSIZE - 1)
    BY FS_Interval, StorageAssumption
  <2>. QED
    BY <2>1 DEF Blocks
<1>2. RowBlocks(n) \subseteq Blocks
  BY RowBlockIsEntry DEF IInv, BlocksInv
<1>3. IsFiniteSet(P)
  BY <1>1, <1>2, SlotsCounted, FS_Subset, FS_Product
<1>. HIDE DEF P
<1>4. g \in [P -> Range(g)]
  BY DEF Range
<1>. HIDE DEF g
<1>5. g \in Surjection(P, Range(g))
  BY <1>4, Fun_RangeProperties
<1>6. IsFiniteSet(Range(g))
  BY <1>3, <1>5, FS_Surjection
<1>7. Rows(n) \subseteq Range(g)
  BY DEF Rows, Range, Slots, g, P
<1>. QED
  BY <1>6, <1>7, FS_Subset

\* The slots of a bucket and of all overflow blocks, which are full, hold as many
\* rows of the relation.
LEMMA FullHolds ==
    ASSUME IInv, NEW n \in DOMAIN g_relations, g_relations[n].is_base, RowsApart(n),
           NEW bucket \in 1 .. BLKMAX, Header(n).data[bucket] # 0,
           ~ HasRoom(Header(n).data[bucket]),
           WithRoom(n, "overflow") = {}, ~ (Header(n).num["overflow"] < OVBLKMAX)
    PROVE Cardinality(Rows(n)) >= Capacity(n)
<1>. DEFINE I        == 0 .. OVBLKMAX
            Block(i) == IF i = 0 THEN Entry(n, "data", bucket) ELSE Entry(n, "overflow", i)
            f        == [x \in I \X Slots |-> virtual_disk[Block(x[1])][x[2]]]
            T        == Rows(n)
<1>1. /\ \A j \in 1 .. BLKMAX : Header(n).data[j] = Entry(n, "data", j)
      /\ \A j \in 1 .. OVBLKMAX : Header(n).overflow[j] = Entry(n, "overflow", j)
      /\ Header(n).overflow \in [1 .. OVBLKMAX -> Blocks]
      /\ Header(n).num["overflow"] = Cardinality(Filled(n, "overflow"))
  BY EntryTyped DEF IInv, BlocksInv, Counted, Entry, Kinds, Size
<1>2. \A i \in 1 .. OVBLKMAX : Entry(n, "overflow", i) # 0
  <2>1. Filled(n, "overflow") \subseteq 1 .. OVBLKMAX
    BY DEF Filled, Size
  <2>2. IsFiniteSet(1 .. OVBLKMAX) /\ Cardinality(1 .. OVBLKMAX) = OVBLKMAX
    BY StorageAssumption, FS_Interval
  <2>3. /\ Cardinality(Filled(n, "overflow")) <= OVBLKMAX
        /\ Cardinality(Filled(n, "overflow")) \in Nat
    BY <2>1, <2>2, FS_Subset, FS_CardinalityType
  <2>4. Cardinality(Filled(n, "overflow")) = OVBLKMAX
    BY <1>1, <2>3, StorageAssumption
  <2>5. Filled(n, "overflow") = 1 .. OVBLKMAX
    BY <2>1, <2>2, <2>4, FS_Subset
  <2>. QED
    BY <2>5 DEF Filled
<1>3. ASSUME NEW i \in I
      PROVE /\ Block(i) # 0 /\ Block(i) \in RowBlocks(n)
            /\ \A s \in Slots : virtual_disk[Block(i)][s] # Free
  <2>1. CASE i = 0
    <3>1. Block(i) # 0 /\ FreeSlots(Block(i)) = {}
      BY <1>1, <2>1 DEF HasRoom
    <3>2. Block(i) \in RowBlocks(n)
      BY <2>1, <3>1, RowBlockEntry DEF BlockKinds, Kinds, Size, IInv, BlocksInv
    <3>. QED
      BY <3>1, <3>2 DEF FreeSlots, Slots
  <2>2. CASE i # 0
    <3>1. i \in 1 .. OVBLKMAX
      BY <2>2, StorageAssumption
    <3>2. Block(i) = Entry(n, "overflow", i) /\ Block(i) # 0
      BY <1>2, <2>2, <3>1
    <3>3. i \notin WithRoom(n, "overflow")
      OBVIOUS
    <3>4. FreeSlots(Block(i)) = {}
      BY <1>1, <3>1, <3>2, <3>3 DEF WithRoom, HasRoom
    <3>5. Block(i) \in RowBlocks(n)
      BY <3>1, <3>2, RowBlockEntry DEF BlockKinds, Kinds, Size, IInv, BlocksInv
    <3>. QED
      BY <3>2, <3>4, <3>5 DEF FreeSlots, Slots
  <2>. QED
    BY <2>1, <2>2
<1>4. ASSUME NEW i \in I, NEW j \in I, Block(i) = Block(j) PROVE i = j
  <2>1. Block(i) # 0 /\ Block(j) # 0
    BY <1>3
  <2>2. ASSUME NEW k \in I, k # 0 PROVE k \in 1 .. OVBLKMAX
    BY <2>2, StorageAssumption
  <2>. QED
    BY <1>4, <2>1, <2>2 DEF IInv, BlocksInv, NoneShared, Kinds, Size
<1>. HIDE DEF Block
<1>5. f \in Injection(I \X Slots, T)
  <2>1. ASSUME NEW x \in I \X Slots
        PROVE /\ <<Block(x[1]), x[2]>> \in RowBlocks(n) \X Slots
              /\ RowAt(<<Block(x[1]), x[2]>>) = f[x] /\ f[x] # Free /\ f[x] \in T
    <3>1. /\ <<Block(x[1]), x[2]>> \in RowBlocks(n) \X Slots
          /\ RowAt(<<Block(x[1]), x[2]>>) = f[x] /\ f[x] # Free
      BY <1>3 DEF RowAt
    <3>. QED
      BY <3>1 DEF Rows, Slots
  <2>2. ASSUME NEW x \in I \X Slots, NEW y \in I \X Slots, f[x] = f[y] PROVE x = y
    <3>1. PICK u, v \in RowBlocks(n) \X Slots :
              /\ u = <<Block(x[1]), x[2]>> /\ v = <<Block(y[1]), y[2]>>
              /\ RowAt(u) = f[x] /\ RowAt(v) = f[y] /\ f[x] # Free
      BY <2>1
    <3>2. u = v
      BY <2>2, <3>1 DEF RowsApart
    <3>3. Block(x[1]) = Block(y[1]) /\ x[2] = y[2]
      BY <3>1, <3>2
    <3>. QED
      BY <1>4, <3>3
  <2>. HIDE DEF f, T
  <2>3. f \in [I \X Slots -> T]
    <3>1. DOMAIN f = I \X Slots /\ f = [x \in DOMAIN f |-> f[x]]
      BY DEF f
    <3>. QED
      BY <2>1, <3>1
  <2>4. \A x, y \in I \X Slots : f[x] = f[y] => x = y
    BY <2>2
  <2>. QED
    BY <2>3, <2>4, Fun_IsInj
<1>6. IsFiniteSet(Slots) /\ Cardinality(Slots) = BLKFAC
  BY SlotsCounted
<1>7. IsFiniteSet(T)
  BY RowsFinite
<1>. HIDE DEF f, T
<1>8. /\ IsFiniteSet(I \X Slots)
      /\ Cardinality(I \X Slots) = (OVBLKMAX + 1) * BLKFAC
  <2>1. OVBLKMAX \in Int /\ 0 \in Int /\ ~ (0 > OVBLKMAX)
    BY StorageAssumption
  <2>2. IsFiniteSet(0 .. OVBLKMAX) /\ Cardinality(0 .. OVBLKMAX) = OVBLKMAX - 0 + 1
    BY <2>1, FS_Interval
  <2>3. Cardinality(I) = OVBLKMAX + 1
    BY <2>1, <2>2
  <2>. HIDE DEF I
  <2>. QED
    BY <1>6, <2>2, <2>3, FS_Product DEF I
<1>9. Cardinality(I \X Slots) <= Cardinality(T)
  BY <1>5, <1>7, FS_Injection
<1>10. Capacity(n) = (OVBLKMAX + 1) * BLKFAC
  BY StorageAssumption DEF Capacity
<1>11. Cardinality(T) \in Nat /\ Cardinality(I \X Slots) \in Nat
  BY <1>7, <1>8, FS_CardinalityType
<1>. QED
  BY <1>8, <1>9, <1>10, <1>11 DEF T

LEMMA InsertedOrFull ==
    ASSUME HashInRange, IInv, UNCHANGED g_relations, NEW n \in DOMAIN g_relations,
           g_relations[n].is_base, RowsApart(n), NEW row, row # Free, InsertBase(n, row)
    PROVE row \in Rows(n)' \/ MayRefuse(n)
<1>. DEFINE bucket == Hash(KeyOf(row, g_relations[n].keysize)) + 1
            home   == Header(n).data[bucket]
            spill  == WithRoom(n, "overflow")
<1>1. "data" \in BlockKinds(n) /\ "overflow" \in BlockKinds(n)
  BY DEF BlockKinds, Kinds
<1>2. bucket \in 1 .. BLKMAX /\ Size("data") = BLKMAX /\ Size("overflow") = OVBLKMAX
  BY StorageAssumption DEF HashInRange, Size
<1>3. /\ Header(n)["overflow"] \in [1 .. OVBLKMAX -> Blocks]
      /\ home = Entry(n, "data", bucket) /\ home = Header(n)["data"][bucket]
      /\ Header(n).num["overflow"] = Cardinality(Filled(n, "overflow"))
  BY <1>2, EntryTyped DEF IInv, BlocksInv, Counted, Entry, Kinds
<1>. HIDE DEF bucket
<1>4. CASE home = 0 /\ Grow(n, "data", bucket, row)
  BY <1>1, <1>2, <1>3, <1>4, GrownOrFull
<1>5. CASE HasRoom(home) /\ WriteInto(home, row)
  BY <1>1, <1>2, <1>3, <1>5, WrittenThere
<1>6. CASE spill # {} /\ WriteInto(Header(n).overflow[Min(spill)], row)
  <2>1. spill \subseteq 1 .. OVBLKMAX
    BY <1>3 DEF WithRoom
  <2>2. Min(spill) \in spill
    BY <1>6, <2>1, StorageAssumption, MinIsLeast
  <2>3. PICK i \in 1 .. OVBLKMAX : i = Min(spill) /\ HasRoom(Header(n)["overflow"][i])
    BY <2>1, <2>2 DEF WithRoom
  <2>. QED
    BY <1>1, <1>2, <1>6, <2>3, WrittenThere
<1>7. CASE /\ Header(n).num["overflow"] < OVBLKMAX
           /\ Grow(n, "overflow", Min(Missing(n, "overflow")), row)
  <2>1. Missing(n, "overflow") = {i \in 1 .. OVBLKMAX : Entry(n, "overflow", i) = 0}
    BY <1>2, <1>3, EntryTyped DEF Missing, Entry, IInv, BlocksInv, Kinds
  <2>2. Missing(n, "overflow") # {}
    BY <1>2, <1>3, <1>7, <2>1, EntryLeft DEF Kinds
  <2>3. Min(Missing(n, "overflow")) \in Missing(n, "overflow")
    BY <2>1, <2>2, StorageAssumption, MinIsLeast
  <2>4. PICK i \in 1 .. OVBLKMAX : /\ i = Min(Missing(n, "overflow"))
                                   /\ Entry(n, "overflow", i) = 0
    BY <2>1, <2>3
  <2>. QED
    BY <1>1, <1>2, <1>7, <2>4, GrownOrFull
<1>8. CASE /\ home # 0 /\ ~ HasRoom(home) /\ spill = {}
           /\ ~ (Header(n).num["overflow"] < OVBLKMAX)
  BY <1>2, <1>8, FullHolds DEF MayRefuse
<1>. QED
  BY <1>4, <1>5, <1>6, <1>7, <1>8 DEF InsertBase, bucket

\* Only this action takes a line.
LEMMA NextLine ==
    ASSUME IInv, StoreInv, [Next]_vars, pc = "lines", lines # << >>, lines' = Tail(lines)
    PROVE CarryOutLine
<1>1. lines' # lines
  <2>1. IsSequence(lines)
    BY DEF StoreInv, CommandInv
  <2>2. PICK S : lines \in Seq(S)
    BY <2>1 DEF IsSequence
  <2>3. PICK l, t : l = lines /\ t = Tail(lines)
    OBVIOUS
  <2>4. Len(t) = Len(l) - 1 /\ Len(l) \in Nat
    BY <2>2, <2>3, HeadTailProperties, LenProperties
  <2>5. t # l
    BY <2>4
  <2>. QED
    BY <2>3, <2>5
<1>2. ASSUME NEW c \in Commands, Refuse(c) \/ BeginCreate(c) \/ Delete(c) \/ BeginLines(c) \/ BeginPrint(c)
      PROVE FALSE
  BY <1>2 DEF Refuse, BeginCreate, Delete, BeginLines, BeginPrint
<1>3. ASSUME NEW w \in {"scan", "join"}, LoadBlock(w) \/ SkipSlot(w) PROVE FALSE
  BY <1>1, <1>3 DEF LoadBlock, SkipSlot
<1>4. CASE EndLines \/ Describe \/ EndDictionary \/ PrintRow \/ DeriveRow
  BY <1>4 DEF EndLines, Describe, EndDictionary, PrintRow, DeriveRow
<1>5. CASE BeginSecond \/ BeginJoin \/ JoinRow \/ EndJoin \/ EndScan
  BY <1>5 DEF BeginSecond, BeginJoin, JoinRow, EndJoin, EndScan
<1>6. CASE UNCHANGED vars
  BY <1>1, <1>6 DEF vars
<1>. QED
  BY <1>2, <1>3, <1>4, <1>5, <1>6 DEF Next

\* A line of an IN that is valid and new is stored, unless every block of the disk
\* is taken or the relation already has the rows of a bucket and all its overflow
\* blocks: no header that miscounts and no slot that is overlooked loses it.
THEOREM StorageRefusedOnlyWhenFull ==
    ASSUME HashInRange, NoneEmpty
    PROVE Spec => RefusedOnlyWhenFull
<1>. DEFINE row       == Head(lines)
            NewLine   == /\ pc = "lines" /\ command.verb = "IN" /\ lines # << >>
                         /\ lines' = Tail(lines)
                         /\ Valid(command.p, row) /\ FoundLike(command.p, row) = {}
            KeptOrFull == NewLine => row \in Rows(command.p)' \/ MayRefuse(command.p)
<1>1. Init => DictionaryInv /\ StoreInv /\ BaseNamed
  BY InitDictionary, InitStore, InitNamed
<1>2. IInv /\ DictionaryInv /\ StoreInv /\ BaseNamed /\ [Next]_vars
          => DictionaryInv' /\ StoreInv' /\ BaseNamed'
  BY DictionaryStep, StoreStep, NamedStep
<1>3. IInv /\ DictionaryInv /\ StoreInv /\ BaseNamed /\ [Next]_vars => KeptOrFull
  <2>. SUFFICES ASSUME IInv, DictionaryInv, StoreInv, BaseNamed, [Next]_vars, NewLine
                PROVE row \in Rows(command.p)' \/ MayRefuse(command.p)
    OBVIOUS
  <2>1. CarryOutLine
    BY NextLine
  <2>2. PICK n \in DOMAIN g_relations \ DOMAIN Dictionary : n = command.p
    BY <2>1, LineWrote
  <2>3. g_relations[n].is_base /\ KeysApart(n)
    BY <2>2 DEF StoreInv, CommandInv, RowsInv, RowsSound
  <2>4. row # Free
    BY <2>2, <2>3 DEF BaseNamed, Valid, Free, IInv, TargetsExist
  <2>5. UNCHANGED <<g_relations, command>> /\ InsertBase(n, row)
    BY <2>1, <2>2, <2>3 DEF CarryOutLine, InsertLine, AppendTuple
  <2>6. row \in Rows(n)' \/ MayRefuse(n)
    BY <2>3, <2>4, <2>5, KeysThenRows, InsertedOrFull
  <2>. QED
    BY <2>2, <2>5, <2>6
<1>. QED
  BY <1>1, <1>2, <1>3, StorageInvariant, PTL DEF Spec, RefusedOnlyWhenFull

(***************************************************************************)
(* A relation that is made is described                                    *)
(***************************************************************************)
Dictionaries == {"catalog", "columns"}

\* What is still to be written is not there yet.
PendingNew ==
    /\ \A i, j \in DOMAIN pending :
           pending[i].to = pending[j].to /\ pending[i].row = pending[j].row => i = j
    /\ \A i \in DOMAIN pending :
           pending[i].row # Free /\ pending[i].row \notin Rows(pending[i].to)

\* A row is still to be written, has been written, or found no place.
Seen(d, row) ==
    \/ \E i \in DOMAIN pending : pending[i].to = d /\ pending[i].row = row
    \/ row \in Rows(d)
    \/ MayRefuse(d)

\* The rows that describe n, with the dictionary relation each is for.
AllSeen(n) ==
    /\ Seen("catalog", <<n, HeaderBlock(n)>>)
    /\ \A i \in DOMAIN AttrsOf(n) : Seen("columns", <<n, AttrsOf(n)[i].name, i>>)

DescribedInv ==
    /\ \A d \in Dictionaries : RowsApart(d)
    /\ PendingNew
    /\ pc = "dictionary" => Exists(ResultName(command)) /\ AllSeen(ResultName(command))

LEMMA SameRowsApart ==
    ASSUME NEW n, Untouched(n), RowsApart(n)
    PROVE RowsApart(n)'
<1>1. RowBlocks(n)' = RowBlocks(n) /\ \A x \in RowBlocks(n) \X Slots : RowAt(x)' = RowAt(x)
  BY SameRows DEF Slots
<1>. QED
  BY <1>1 DEF RowsApart, Slots

LEMMA RowsApartAfterAdding ==
    ASSUME NEW n, NEW b, NEW s, NEW row, AddsRow(n, b, s, row), RowsApart(n), row \notin Rows(n)
    PROVE RowsApart(n)'
<1>1. ASSUME NEW x \in RowBlocks(n)' \X Slots, RowAt(x)' # Free
      PROVE \/ x = <<b, s>> /\ RowAt(x)' = row
            \/ /\ x \in RowBlocks(n) \X Slots /\ RowAt(x) # Free /\ RowAt(x)' = RowAt(x)
               /\ RowAt(x) # row
  <2>1. PICK y \in RowBlocks(n) \union {b}, k \in Slots : x = <<y, k>>
    BY DEF AddsRow
  <2>2. CASE x = <<b, s>>
    BY <2>2 DEF AddsRow, RowAt
  <2>3. CASE x # <<b, s>>
    <3>1. y \in RowBlocks(n) /\ virtual_disk'[y][k] = virtual_disk[y][k]
      BY <1>1, <2>1, <2>3 DEF AddsRow, RowAt
    <3>2. x \in RowBlocks(n) \X Slots /\ RowAt(x) # Free /\ RowAt(x)' = RowAt(x)
      BY <1>1, <2>1, <3>1 DEF RowAt
    <3>3. RowAt(x) \in Rows(n)
      BY <3>2 DEF Rows, Slots
    <3>. QED
      BY <3>2, <3>3
  <2>. QED
    BY <2>2, <2>3
<1>. QED
  BY <1>1 DEF RowsApart, Slots

LEMMA InitDescribed == Init => DescribedInv
<1>. SUFFICES ASSUME Init PROVE DescribedInv
  OBVIOUS
<1>1. ASSUME NEW d \in Dictionaries PROVE RowsApart(d)
  <2>1. d \in DOMAIN g_relations /\ BlocksTyped
    BY InitBlocks, DictionaryFacts DEF BlocksInv, Init, Dictionaries
  <2>2. \A b \in RowBlocks(d), s \in Slots : virtual_disk[b][s] = Free
    BY <2>1, RowBlockIsEntry DEF Init, EmptyBlock, Slots
  <2>. QED
    BY <2>2 DEF RowsApart, RowAt
<1>2. DOMAIN pending = {} /\ pc = "idle"
  BY EmptySeq DEF Init
<1>. QED
  BY <1>1, <1>2 DEF DescribedInv, PendingNew

\* The rows that describe a relation, one by one.
LEMMA DictionaryRowsAre ==
    ASSUME NEW name, NEW attrs, IsSequence(attrs), NEW block
    PROVE \E rows :
              /\ rows = DictionaryRows(name, attrs, block)
              /\ Len(attrs) \in Nat /\ DOMAIN attrs = 1 .. Len(attrs)
              /\ DOMAIN rows = 1 .. Len(attrs) + 1
              /\ rows[1] = [to |-> "catalog", row |-> <<name, block>>]
              /\ \A i \in 1 .. Len(attrs) :
                     rows[i + 1] = [to |-> "columns", row |-> <<name, attrs[i].name, i>>]
<1>. DEFINE first == [to |-> "catalog", row |-> <<name, block>>]
            rest  == [i \in DOMAIN attrs |-> [to |-> "columns", row |-> <<name, attrs[i].name, i>>]]
            T     == {first} \union Range(rest)
            rows  == DictionaryRows(name, attrs, block)
<1>1. Len(attrs) \in Nat /\ DOMAIN attrs = 1 .. Len(attrs)
  BY SequenceDomain
<1>2. <<first>> \in Seq(T) /\ Len(<<first>>) = 1 /\ <<first>>[1] = first
  OBVIOUS
<1>3. /\ \A i \in 1 .. Len(attrs) :
             rest[i] = [to |-> "columns", row |-> <<name, attrs[i].name, i>>]
      /\ rest = [i \in 1 .. Len(attrs) |-> rest[i]]
      /\ first = [to |-> "catalog", row |-> <<name, block>>]
  BY <1>1
<1>4. rows = <<first>> \o rest
  BY DEF DictionaryRows
<1>. HIDE DEF first, rest, rows
<1>5. rest \in Seq(T) /\ Len(rest) = Len(attrs)
  <2>1. IsSequence(rest) /\ DOMAIN rest = 1 .. Len(attrs)
    BY <1>1, <1>3, FunctionIsSequence
  <2>2. Len(rest) \in Nat /\ DOMAIN rest = 1 .. Len(rest)
    BY <2>1, SequenceDomain
  <2>3. rest \in Seq(T)
    BY <2>1, SeqMonotonic DEF IsSequence
  <2>. QED
    BY <1>1, <2>1, <2>2, <2>3
<1>. HIDE DEF T
<1>6. /\ rows \in Seq(T) /\ Len(rows) = 1 + Len(attrs)
      /\ \A i \in 1 .. 1 + Len(attrs) : rows[i] = IF i <= 1 THEN <<first>>[i] ELSE rest[i - 1]
  BY <1>2, <1>4, <1>5, ConcatProperties
<1>7. DOMAIN rows = 1 .. Len(attrs) + 1
  BY <1>1, <1>6, LenProperties
<1>8. rows[1] = first
  BY <1>1, <1>2, <1>6
<1>9. ASSUME NEW i \in 1 .. Len(attrs) PROVE rows[i + 1] = rest[i]
  <2>1. i + 1 \in 1 .. 1 + Len(attrs) /\ ~ (i + 1 <= 1) /\ (i + 1) - 1 = i
    BY <1>1
  <2>. QED
    BY <1>6, <2>1
<1>. QED
  BY <1>1, <1>3, <1>7, <1>8, <1>9 DEF rows

LEMMA CreateDescribed ==
    ASSUME IInv, DictionaryInv, DescribedInv, NEW c \in Commands, BeginCreate(c)
    PROVE DescribedInv'
<1>1. \A d \in Dictionaries : Rows(d)' = Rows(d) /\ RowsApart(d)'
  BY CreateFrame, SameRows, SameRowsApart DEF IInv, TargetsExist, Dictionaries, DescribedInv
<1>2. CASE ~ (Cardinality(DOMAIN g_relations) < MAX_REL)
  <2>1. UNCHANGED <<pending, pc>> /\ pc = "idle"
    BY <1>2 DEF BeginCreate
  <2>2. \A i \in DOMAIN pending : pending[i].to \in Dictionaries
    BY DEF IInv, TargetsExist, Dictionaries
  <2>. QED
    BY <1>1, <2>1, <2>2 DEF DescribedInv, PendingNew
<1>3. CASE Cardinality(DOMAIN g_relations) < MAX_REL
  <2>. DEFINE hb    == Min(FreeBlocks)
              name  == ResultName(c)
              attrs == ResultAttrs(c)
  <2>1. /\ DOMAIN g_relations' = DOMAIN g_relations \union {name}
        /\ g_relations'[name].attrs = attrs /\ g_relations'[name].header_block = hb
        /\ pending' = DictionaryRows(name, attrs, hb) /\ pc' = "dictionary" /\ command' = c
    BY <1>3 DEF BeginCreate, Relation
  <2>2. name \notin DOMAIN g_relations /\ IsSequence(attrs)
    BY ResultAttrsAreSequence DEF BeginCreate, Accepted, Exists, IInv
  <2>3. ResultName(command)' = name
    BY <2>1 DEF ResultName
  <2>4. PICK nm, ats, h : nm = name /\ ats = attrs /\ h = hb
    OBVIOUS
  <2>. HIDE DEF hb, name, attrs
  <2>5. PICK rows :
            /\ rows = DictionaryRows(nm, ats, h)
            /\ Len(ats) \in Nat /\ DOMAIN ats = 1 .. Len(ats)
            /\ DOMAIN rows = 1 .. Len(ats) + 1
            /\ rows[1] = [to |-> "catalog", row |-> <<nm, h>>]
            /\ \A i \in 1 .. Len(ats) :
                   rows[i + 1] = [to |-> "columns", row |-> <<nm, ats[i].name, i>>]
    <3>1. IsSequence(ats)
      BY <2>2, <2>4
    <3>. QED
      BY <3>1, DictionaryRowsAre
  <2>6. pending' = rows
    BY <2>1, <2>4, <2>5
  <2>7. rows[1].to = "catalog" /\ rows[1].row = <<nm, h>>
    BY <2>5
  <2>8. ASSUME NEW j \in 1 .. Len(ats)
        PROVE /\ j + 1 \in DOMAIN rows
              /\ rows[j + 1].to = "columns" /\ rows[j + 1].row = <<nm, ats[j].name, j>>
    <3>1. rows[j + 1] = [to |-> "columns", row |-> <<nm, ats[j].name, j>>]
      BY <2>5
    <3>2. j + 1 \in DOMAIN rows
      BY <2>5
    <3>. QED
      BY <3>1, <3>2
  <2>15. ASSUME NEW i \in DOMAIN rows
         PROVE i = 1 \/ \E j \in 1 .. Len(ats) : i = j + 1
    <3>1. CASE i # 1
      <4>1. i - 1 \in 1 .. Len(ats) /\ i = (i - 1) + 1
        BY <2>5, <3>1
      <4>. QED
        BY <4>1
    <3>. QED
      BY <3>1
  <2>16. ASSUME NEW i \in DOMAIN rows
         PROVE rows[i].row # Free /\ rows[i].row[1] = nm /\ rows[i].to \in Dictionaries
    <3>1. CASE i = 1
      BY <2>7, <3>1 DEF Dictionaries, Free
    <3>2. ASSUME NEW j \in 1 .. Len(ats), i = j + 1
          PROVE rows[i].row # Free /\ rows[i].row[1] = nm /\ rows[i].to \in Dictionaries
      BY <2>8, <3>2 DEF Dictionaries, Free
    <3>. QED
      BY <2>15, <3>1, <3>2
  <2>17. ASSUME NEW i \in DOMAIN rows, NEW j \in DOMAIN rows,
                rows[i].to = rows[j].to, rows[i].row = rows[j].row
         PROVE i = j
    <3>1. ASSUME NEW m \in 1 .. Len(ats) PROVE rows[m + 1].to # rows[1].to
      BY <2>7, <2>8, <3>1
    <3>2. ASSUME NEW m \in 1 .. Len(ats), NEW o \in 1 .. Len(ats),
                 rows[m + 1].row = rows[o + 1].row
          PROVE m = o
      <4>1. <<nm, ats[m].name, m>> = <<nm, ats[o].name, o>>
        BY <2>8, <3>2
      <4>. QED
        BY <4>1
    <3>. QED
      BY <2>15, <2>17, <3>1, <3>2
  <2>9. ASSUME NEW d \in Dictionaries, NEW row \in Rows(d)' PROVE row[1] # nm
    BY <1>1, <2>2, <2>4, TrueRowsName DEF DictionaryInv, TellsTruth, Dictionaries
  <2>10. PendingNew'
    <3>1. \A i \in DOMAIN rows : rows[i].row \notin Rows(rows[i].to)'
      BY <2>9, <2>16
    <3>2. PendingNew' = (/\ \A i, j \in DOMAIN rows :
                                rows[i].to = rows[j].to /\ rows[i].row = rows[j].row => i = j
                         /\ \A i \in DOMAIN rows : /\ rows[i].row # Free
                                                   /\ rows[i].row \notin Rows(rows[i].to)')
      BY <2>6 DEF PendingNew
    <3>. QED
      BY <2>16, <2>17, <3>1, <3>2
  <2>11. HeaderBlock(nm)' = h /\ AttrsOf(nm)' = ats
    BY <2>1, <2>4 DEF HeaderBlock, AttrsOf
  <2>12. Seen("catalog", <<nm, h>>)'
    <3>1. 1 \in DOMAIN pending' /\ pending'[1].to = "catalog" /\ pending'[1].row = <<nm, h>>
      BY <2>5, <2>6, <2>7
    <3>. QED
      BY <3>1 DEF Seen
  <2>13. ASSUME NEW i \in DOMAIN ats PROVE Seen("columns", <<nm, ats[i].name, i>>)'
    <3>1. /\ i + 1 \in DOMAIN pending' /\ pending'[i + 1].to = "columns"
          /\ pending'[i + 1].row = <<nm, ats[i].name, i>>
      BY <2>5, <2>6, <2>8
    <3>. QED
      BY <3>1 DEF Seen
  <2>14. AllSeen(nm)'
    BY <2>11, <2>12, <2>13 DEF AllSeen
  <2>. QED
    BY <1>1, <2>1, <2>3, <2>4, <2>10, <2>14 DEF DescribedInv, Exists
<1>. QED
  BY <1>2, <1>3

LEMMA DeleteDescribed ==
    ASSUME IInv, DictionaryInv, DescribedInv, NEW c \in Commands, Delete(c)
    PROVE DescribedInv'
<1>1. UNCHANGED <<headers, pc, pending>> /\ pending = << >> /\ pc = "idle"
  BY DEF Delete, DictionaryInv
<1>2. ASSUME NEW d \in Dictionaries PROVE RowsApart(d)'
  <2>1. d \in DOMAIN g_relations /\ g_relations'[d] = g_relations[d]
    BY DictionaryFacts DEF Delete, Accepted, IsDictionary, IInv, TargetsExist, Dictionaries
  <2>2. RowBlocks(d)' = RowBlocks(d)
    BY <1>1, <2>1 DEF RowBlocks, Header
  <2>3. ASSUME NEW x \in RowBlocks(d) \X Slots PROVE RowAt(x)' \in {Free, RowAt(x)}
    <3>1. x[1] \in Blocks /\ x[2] \in 1 .. BLKFAC
      BY <2>1, RowBlockIsEntry DEF IInv, BlocksInv, Slots
    <3>. QED
      BY <3>1 DEF Delete, RowAt
  <2>4. RowsApart(d)
    BY DEF DescribedInv
  <2>. QED
    BY <2>2, <2>3, <2>4 DEF RowsApart, Slots
<1>3. DOMAIN pending' = {}
  BY <1>1, EmptySeq
<1>. QED
  BY <1>1, <1>2, <1>3 DEF DescribedInv, PendingNew

\* Once a relation may turn rows down it may do so until a row or a relation goes.
LEMMA RefusalStays ==
    ASSUME IInv, IInv', UNCHANGED g_relations, NEW t \in DOMAIN g_relations, AppendEffect(t),
           NEW d \in DOMAIN g_relations, Rows(d) \subseteq Rows(d)', IsFiniteSet(Rows(d)'),
           MayRefuse(d)
    PROVE MayRefuse(d)'
<1>1. CASE \A b \in Blocks : bitmapblk[b] = 1
  <2>1. UNCHANGED bitmapblk
    BY <1>1 DEF AppendEffect, NoBlockMoves, TakesBlock
  <2>. QED
    BY <1>1, <2>1 DEF MayRefuse
<1>2. CASE Cardinality(Rows(d)) >= Capacity(d)
  <2>2. Cardinality(Rows(d)) <= Cardinality(Rows(d)')
    BY FS_Subset
  <2>3. Cardinality(Rows(d)') \in Nat /\ Cardinality(Rows(d)) \in Nat
    BY FS_Subset, FS_CardinalityType
  <2>4. Capacity(d)' = Capacity(d) /\ Capacity(d) \in Nat
    BY StorageAssumption DEF Capacity
  <2>. QED
    BY <1>2, <2>2, <2>3, <2>4 DEF MayRefuse
<1>. QED
  BY <1>1, <1>2 DEF MayRefuse

LEMMA DescribeDescribed ==
    ASSUME HashInRange, IInv, IInv', DictionaryInv, StoreInv, DescribedInv, Describe
    PROVE DescribedInv'
<1>1. /\ UNCHANGED <<g_relations, pc, command>> /\ pending' = Tail(pending) /\ pending # << >>
      /\ pc = "dictionary"
  BY DEF Describe
<1>2. PICK k \in Nat : /\ DOMAIN pending = 1 .. k + 1 /\ Head(pending) = pending[1]
                       /\ DOMAIN pending' = 1 .. k
                       /\ \A i \in 1 .. k : pending'[i] = pending[i + 1]
  <2>1. PICK S : pending \in Seq(S)
    BY DEF IInv, TargetsExist, IsSequence
  <2>2. /\ Tail(pending) \in Seq(S) /\ Len(Tail(pending)) = Len(pending) - 1
        /\ \A i \in 1 .. Len(Tail(pending)) : Tail(pending)[i] = pending[i + 1]
    BY <1>1, <2>1, HeadTailProperties
  <2>3. PICK k \in Nat : k = Len(Tail(pending)) /\ DOMAIN Tail(pending) = 1 .. k
    BY <2>2, LenProperties
  <2>4. Len(pending) \in Nat /\ DOMAIN pending = 1 .. Len(pending) /\ Len(pending) = k + 1
    BY <2>1, <2>2, <2>3, LenProperties
  <2>5. Head(pending) = pending[1]
    OBVIOUS
  <2>. QED
    BY <1>1, <2>2, <2>3, <2>4, <2>5
<1>3. PICK t, row : t = pending[1].to /\ row = pending[1].row
  OBVIOUS
<1>4. /\ t \in DOMAIN g_relations /\ t \in Dictionaries
      /\ RowEffect(t, row) /\ AppendTuple(t, row)
  BY <1>2, <1>3, DescribeEffect DEF Describe, Dictionaries
<1>5. AppendEffect(t)
  BY <1>4, RowEffectBlocks DEF IInv
<1>6. row # Free /\ row \notin Rows(t) /\ RowsApart(t) /\ g_relations[t].is_base
  <2>1. 1 \in DOMAIN pending
    BY <1>2
  <2>2. g_relations[t].is_base
    BY <1>4 DEF StoreInv, RelationsInv, Dictionary, Relation, Dictionaries
  <2>. QED
    BY <1>3, <1>4, <2>1, <2>2 DEF DescribedInv, PendingNew
<1>7. UNCHANGED storage \/ \E b, s : AddsRow(t, b, s, row)
  BY <1>1, <1>4, AppendTupleInserts, InsertAdds DEF IInv, BlocksInv
<1>8. Rows(t) \subseteq Rows(t)' /\ Rows(t)' \subseteq Rows(t) \union {row} /\ RowsApart(t)'
  <2>1. CASE UNCHANGED storage
    BY <1>1, <1>6, <2>1, StillUntouched, SameRows, SameRowsApart
  <2>2. ASSUME NEW b, NEW s, AddsRow(t, b, s, row)
        PROVE /\ Rows(t) \subseteq Rows(t)' /\ Rows(t)' \subseteq Rows(t) \union {row}
              /\ RowsApart(t)'
    <3>1. Rows(t)' = (Rows(t) \union {row}) \ {Free}
      BY <2>2, RowsAfterAdding
    <3>2. Free \notin Rows(t)
      BY DEF Rows
    <3>. QED
      BY <1>6, <2>2, <3>1, <3>2, RowsApartAfterAdding
  <2>. QED
    BY <1>7, <2>1, <2>2
<1>9. ASSUME NEW d \in Dictionaries, d # t
      PROVE d \in DOMAIN g_relations /\ Rows(d)' = Rows(d) /\ RowsApart(d)'
  <2>1. d \in DOMAIN g_relations
    BY DEF IInv, TargetsExist, Dictionaries
  <2>2. Untouched(d)
    BY <1>1, <1>4, <1>5, <1>9, <2>1, WriteFrame
  <2>. QED
    BY <2>1, <2>2, SameRows, SameRowsApart DEF DescribedInv
<1>10. \A d \in Dictionaries : Rows(d) \subseteq Rows(d)' /\ d \in DOMAIN g_relations /\ RowsApart(d)'
  BY <1>4, <1>8, <1>9
<1>11. row \in Rows(t)' \/ MayRefuse(t)
  <2>1. InsertBase(t, row)
    BY <1>4, <1>6 DEF AppendTuple
  <2>. QED
    BY <1>1, <1>4, <1>6, <2>1, InsertedOrFull
<1>12. ASSUME NEW d \in Dictionaries, MayRefuse(d) PROVE MayRefuse(d)'
  <2>1. IsFiniteSet(Rows(d))
    BY <1>10, RowsFinite
  <2>2. Rows(d)' \subseteq Rows(d) \union {row}
    BY <1>8, <1>9
  <2>3. IsFiniteSet(Rows(d)')
    BY <2>1, <2>2, FS_AddElement, FS_Subset
  <2>. QED
    BY <1>1, <1>4, <1>5, <1>10, <1>12, <2>3, RefusalStays
<1>13. PendingNew'
  <2>1. ASSUME NEW i \in DOMAIN pending', NEW j \in DOMAIN pending',
               pending'[i].to = pending'[j].to, pending'[i].row = pending'[j].row
        PROVE i = j
    <3>1. /\ i \in Nat /\ j \in Nat /\ i + 1 \in DOMAIN pending /\ j + 1 \in DOMAIN pending
          /\ pending'[i] = pending[i + 1] /\ pending'[j] = pending[j + 1]
      BY <1>2
    <3>2. i + 1 = j + 1
      BY <2>1, <3>1 DEF DescribedInv, PendingNew
    <3>. QED
      BY <3>1, <3>2
  <2>2. ASSUME NEW i \in DOMAIN pending'
        PROVE \E e : /\ e = pending'[i] /\ e.row # Free /\ e.row \notin Rows(e.to)'
    <3>1. PICK e : /\ e = pending'[i] /\ i + 1 \in DOMAIN pending /\ e = pending[i + 1]
                   /\ 1 \in DOMAIN pending /\ i + 1 # 1
      BY <1>2
    <3>2. e.row # Free /\ e.row \notin Rows(e.to) /\ e.to \in Dictionaries
      BY <3>1 DEF DescribedInv, PendingNew, IInv, TargetsExist, Dictionaries
    <3>3. e.to = t => e.row # row
      BY <1>3, <3>1 DEF DescribedInv, PendingNew
    <3>4. e.row \notin Rows(e.to)'
      BY <1>8, <1>9, <3>2, <3>3
    <3>. QED
      BY <3>1, <3>2, <3>4
  <2>. QED
    BY <2>1, <2>2 DEF PendingNew
<1>14. ASSUME NEW d \in Dictionaries, NEW x, Seen(d, x) PROVE Seen(d, x)'
  <2>1. ASSUME NEW i \in DOMAIN pending, pending[i].to = d, pending[i].row = x
        PROVE Seen(d, x)'
    <3>1. CASE i = 1
      <4>1. d = t /\ x = row
        BY <1>3, <2>1, <3>1
      <4>2. x \in Rows(d)' \/ MayRefuse(d)'
        BY <1>4, <1>11, <1>12, <4>1
      <4>. QED
        BY <4>2 DEF Seen
    <3>2. CASE i # 1
      <4>1. i - 1 \in DOMAIN pending' /\ pending'[i - 1] = pending[i]
        BY <1>2, <3>2
      <4>. QED
        BY <2>1, <4>1 DEF Seen
    <3>. QED
      BY <3>1, <3>2
  <2>2. CASE x \in Rows(d)
    BY <1>10, <2>2 DEF Seen
  <2>3. CASE MayRefuse(d)
    BY <1>12, <2>3 DEF Seen
  <2>. QED
    BY <1>14, <2>1, <2>2, <2>3 DEF Seen
<1>15. PICK n : n = ResultName(command) /\ n \in DOMAIN g_relations /\ AllSeen(n)
  BY <1>1 DEF DescribedInv, Exists
<1>16. /\ ResultName(command)' = n /\ n \in DOMAIN g_relations'
       /\ HeaderBlock(n)' = HeaderBlock(n) /\ AttrsOf(n)' = AttrsOf(n)
  BY <1>1, <1>15 DEF ResultName, HeaderBlock, AttrsOf
<1>17. AllSeen(n)'
  <2>1. PICK h, ats : h = HeaderBlock(n) /\ ats = AttrsOf(n)
    OBVIOUS
  <2>2. Seen("catalog", <<n, h>>)'
    BY <1>14, <1>15, <2>1 DEF AllSeen, Dictionaries
  <2>3. \A i \in DOMAIN ats : Seen("columns", <<n, ats[i].name, i>>)'
    BY <1>14, <1>15, <2>1 DEF AllSeen, Dictionaries
  <2>. QED
    BY <1>16, <2>1, <2>2, <2>3 DEF AllSeen
<1>. QED
  BY <1>10, <1>13, <1>16, <1>17 DEF DescribedInv, Exists

\* The other steps leave the dictionary alone.
LEMMA DescribedStays ==
    ASSUME IInv, DescribedInv, UNCHANGED <<g_relations, pending>>,
           \A d \in Dictionaries : Untouched(d),
           pc' # "dictionary" \/ UNCHANGED <<storage, pc, command>>
    PROVE DescribedInv'
<1>1. \A d \in Dictionaries : Rows(d)' = Rows(d) /\ RowsApart(d)'
  BY SameRows, SameRowsApart DEF DescribedInv
<1>2. \A i \in DOMAIN pending : pending[i].to \in Dictionaries
  BY DEF IInv, TargetsExist, Dictionaries
<1>3. PendingNew'
  BY <1>1, <1>2 DEF DescribedInv, PendingNew
<1>4. ASSUME UNCHANGED <<storage, pc, command>>, pc = "dictionary"
      PROVE Exists(ResultName(command))' /\ AllSeen(ResultName(command))'
  <2>1. PICK n : n = ResultName(command) /\ n \in DOMAIN g_relations /\ AllSeen(n)
    BY <1>4 DEF DescribedInv, Exists
  <2>2. /\ ResultName(command)' = n
        /\ HeaderBlock(n)' = HeaderBlock(n) /\ AttrsOf(n)' = AttrsOf(n)
    BY <1>4, <2>1 DEF ResultName, HeaderBlock, AttrsOf
  <2>3. \A d \in Dictionaries : MayRefuse(d)' = MayRefuse(d)
    BY <1>1, <1>4 DEF MayRefuse, Capacity, storage
  <2>4. \A d \in Dictionaries : \A x : Seen(d, x) => Seen(d, x)'
    BY <1>1, <2>3 DEF Seen
  <2>5. AllSeen(n)'
    <3>1. PICK h, ats : h = HeaderBlock(n) /\ ats = AttrsOf(n)
      OBVIOUS
    <3>2. /\ Seen("catalog", <<n, h>>)'
          /\ \A i \in DOMAIN ats : Seen("columns", <<n, ats[i].name, i>>)'
      BY <2>1, <2>4, <3>1 DEF AllSeen, Dictionaries
    <3>. QED
      BY <2>2, <3>1, <3>2 DEF AllSeen
  <2>. QED
    BY <2>1, <2>2, <2>5 DEF Exists
<1>. QED
  BY <1>1, <1>3, <1>4 DEF DescribedInv

LEMMA DescribedStep ==
    ASSUME HashInRange, IInv, IInv', DictionaryInv, StoreInv, DescribedInv, [Next]_vars
    PROVE DescribedInv'
<1>1. ASSUME UNCHANGED <<storage, g_relations, pending>>,
             pc' # "dictionary" \/ UNCHANGED <<pc, command>>
      PROVE DescribedInv'
  BY <1>1, StillUntouched, DescribedStays
<1>2. CASE CarryOutLine \/ DeriveRow \/ JoinRow
  <2>1. UNCHANGED <<g_relations, pending, pc>> /\ pc # "dictionary"
    BY <1>2 DEF CarryOutLine, DeriveRow, JoinRow
  <2>2. PICK t \in DOMAIN g_relations \ DOMAIN Dictionary :
            \A n \in DOMAIN g_relations \ {t} : Untouched(n)
    BY <1>2, WriterWrites DEF OneWritten
  <2>3. \A d \in Dictionaries : Untouched(d)
    BY <2>2, DictionaryFacts DEF IInv, TargetsExist, Dictionaries
  <2>. QED
    BY <2>1, <2>3, DescribedStays
<1>3. ASSUME NEW c \in Commands, Refuse(c) \/ BeginLines(c) \/ BeginPrint(c)
      PROVE DescribedInv'
  BY <1>1, <1>3 DEF Refuse, BeginLines, BeginPrint, vars
<1>4. CASE EndLines \/ EndDictionary \/ EndScan
  BY <1>1, <1>4 DEF EndLines, EndDictionary, EndScan, EndCommand
<1>5. CASE PrintRow \/ BeginSecond \/ BeginJoin \/ EndJoin
  BY <1>1, <1>5 DEF PrintRow, BeginSecond, BeginJoin, EndJoin
<1>6. ASSUME NEW w \in {"scan", "join"}, LoadBlock(w) \/ SkipSlot(w) PROVE DescribedInv'
  BY <1>1, <1>6 DEF LoadBlock, SkipSlot
<1>7. CASE UNCHANGED vars
  BY <1>1, <1>7 DEF vars
<1>. QED
  BY <1>2, <1>3, <1>4, <1>5, <1>6, <1>7, CreateDescribed, DeleteDescribed, DescribeDescribed DEF Next

\* When the dictionary rows of a new relation have been appended, its row is in
\* catalog and a row for each of its attributes is in columns, unless the disk or
\* that dictionary relation is full: none is lost for another reason.
THEOREM StorageDescribedUnlessFull ==
    ASSUME HashInRange
    PROVE Spec => []DescribedUnlessFull
<1>1. Init => IInv /\ DictionaryInv /\ StoreInv /\ DescribedInv
  BY InitBlocks, InitTargets, InitDictionary, InitStore, InitDescribed
     DEF IInv, Init, DiskTyped, EmptyBlock
<1>2. IInv /\ DictionaryInv /\ StoreInv /\ DescribedInv /\ [Next]_vars
          => IInv' /\ DictionaryInv' /\ StoreInv' /\ DescribedInv'
  <2>. SUFFICES ASSUME IInv, DictionaryInv, StoreInv, DescribedInv, [Next]_vars
                PROVE IInv' /\ DictionaryInv' /\ StoreInv' /\ DescribedInv'
    OBVIOUS
  <2>1. IInv'
    BY BlocksStep, TargetsStep, DiskStep DEF IInv
  <2>. QED
    BY <2>1, DictionaryStep, StoreStep, DescribedStep
<1>3. DescribedInv => DescribedUnlessFull
  <2>. SUFFICES ASSUME DescribedInv, pc = "dictionary", pending = << >>
                PROVE DescribedIn(ResultName(command))
    BY DEF DescribedUnlessFull
  <2>1. DOMAIN pending = {}
    BY EmptySeq
  <2>. QED
    BY <2>1 DEF DescribedInv, AllSeen, Seen, DescribedIn, HeaderBlock
<1>. QED
  BY <1>1, <1>2, <1>3, PTL DEF Spec

(***************************************************************************)
(* Positions that are picked, blocks and places                            *)
(***************************************************************************)
LEMMA PickedApart ==
    ASSUME NEW k \in Nat, NEW s, NEW P, P \subseteq 1 .. k,
           \A i, j \in P : s[i] = s[j] => i = j,
           NEW x \in 1 .. Len(Picked(s, P)), NEW y \in 1 .. Len(Picked(s, P)),
           Picked(s, P)[x] = Picked(s, P)[y]
    PROVE x = y
<1>. DEFINE c   == Cardinality(P)
            pos == Positions(P)
<1>1. Picked(s, P) = [j \in 1 .. c |-> s[pos[j]]]
  BY PickedAt
<1>2. /\ c \in Nat /\ pos \in [1 .. c -> P]
      /\ \A i, j \in 1 .. c : i < j => pos[i] < pos[j]
  BY PositionsAscend
<1>. HIDE DEF c, pos
<1>3. Len(Picked(s, P)) = c
  <2>1. Picked(s, P) \in Seq({s[i] : i \in P})
    BY PickedFacts
  <2>2. DOMAIN Picked(s, P) = 1 .. c
    BY <1>1
  <2>. QED
    BY <1>2, <2>1, <2>2, LenProperties
<1>4. x \in 1 .. c /\ y \in 1 .. c /\ pos[x] \in P /\ pos[y] \in P
  BY <1>2, <1>3
<1>5. pos[x] = pos[y]
  BY <1>1, <1>4
<1>6. pos[x] \in Int
  <2>1. \A i \in P : i \in Int
    OBVIOUS
  <2>. QED
    BY <1>4, <2>1
<1>. QED
  BY <1>2, <1>4, <1>5, <1>6

\* A header mentions no block twice.
LEMMA UsedApart ==
    ASSUME IInv, NEW n \in DOMAIN g_relations, NEW kind \in BlockKinds(n),
           NEW x \in 1 .. Len(Used(Header(n)[kind])), NEW y \in 1 .. Len(Used(Header(n)[kind])),
           Used(Header(n)[kind])[x] = Used(Header(n)[kind])[y]
    PROVE x = y
<1>. DEFINE e == Header(n)[kind]
            P == {i \in DOMAIN e : e[i] # 0}
<1>1. kind \in Kinds
  BY DEF BlockKinds, Kinds
<1>2. e \in [1 .. Size(kind) -> Blocks] /\ \A i : e[i] = Entry(n, kind, i)
  BY <1>1, EntryTyped DEF Entry, IInv, BlocksInv
<1>3. P \subseteq 1 .. Size(kind) /\ Size(kind) \in Nat
  BY <1>1, <1>2, SizeIsNat
<1>4. Used(e) = Picked(e, P)
  BY DEF Used
<1>5. \A i, j \in P : e[i] = e[j] => i = j
  BY <1>1, <1>2, <1>3 DEF IInv, BlocksInv, NoneShared
<1>. HIDE DEF e, P
<1>. QED
  BY <1>3, <1>4, <1>5, PickedApart DEF e

\* Blocks used for data are not used for overflow.
LEMMA KindsApart ==
    ASSUME IInv, NEW n \in DOMAIN g_relations, g_relations[n].is_base,
           NEW x \in 1 .. Len(Used(Header(n)["data"])),
           NEW y \in 1 .. Len(Used(Header(n)["overflow"]))
    PROVE Used(Header(n)["data"])[x] # Used(Header(n)["overflow"])[y]
<1>1. ASSUME NEW kind \in Kinds, NEW z \in 1 .. Len(Used(Header(n)[kind]))
      PROVE \E i \in 1 .. Size(kind) :
                /\ Entry(n, kind, i) = Used(Header(n)[kind])[z]
                /\ Entry(n, kind, i) # 0
  <2>. DEFINE e == Header(n)[kind]
              P == {i \in DOMAIN e : e[i] # 0}
  <2>1. e \in [1 .. Size(kind) -> Blocks] /\ \A i : e[i] = Entry(n, kind, i)
    BY EntryTyped DEF Entry, IInv, BlocksInv
  <2>2. P \subseteq 1 .. Size(kind) /\ Size(kind) \in Nat /\ \A i \in P : e[i] # 0
    BY <2>1, SizeIsNat
  <2>3. Used(e) = Picked(e, P)
    BY DEF Used
  <2>. HIDE DEF e, P
  <2>4. Used(e)[z] \in {e[i] : i \in P}
    <3>1. Used(e) \in Seq({e[i] : i \in P})
      BY <2>2, <2>3, PickedFacts
    <3>. QED
      BY <3>1, ElementOfSeq DEF e
  <2>. QED
    BY <2>1, <2>2, <2>4 DEF e
<1>2. PICK i \in 1 .. Size("data") : /\ Entry(n, "data", i) = Used(Header(n)["data"])[x]
                                     /\ Entry(n, "data", i) # 0
  BY <1>1 DEF Kinds
<1>3. PICK j \in 1 .. Size("overflow") : Entry(n, "overflow", j) = Used(Header(n)["overflow"])[y]
  BY <1>1 DEF Kinds
<1>. QED
  BY <1>2, <1>3 DEF IInv, BlocksInv, NoneShared, Kinds

\* A search looks at every block once.
LEMMA BlockListApart ==
    ASSUME IInv, NEW n \in DOMAIN g_relations,
           NEW x \in 1 .. Len(BlockList(n)), NEW y \in 1 .. Len(BlockList(n)),
           BlockList(n)[x] = BlockList(n)[y]
    PROVE x = y
<1>. DEFINE data  == Used(Header(n)["data"])
            spill == Used(Header(n)["overflow"])
            T     == RowBlocks(n)
<1>1. data \in Seq(T)
  BY UsedEntries DEF BlockKinds, Kinds, IInv, BlocksInv
<1>2. \A i, j \in 1 .. Len(data) : data[i] = data[j] => i = j
  BY UsedApart DEF BlockKinds, Kinds
<1>3. CASE g_relations[n].is_base
  <2>1. spill \in Seq(T)
    BY <1>3, UsedEntries DEF BlockKinds, Kinds, IInv, BlocksInv
  <2>2. \A i, j \in 1 .. Len(spill) : spill[i] = spill[j] => i = j
    BY <1>3, UsedApart DEF BlockKinds, Kinds
  <2>3. \A i \in 1 .. Len(data), j \in 1 .. Len(spill) : data[i] # spill[j]
    BY <1>3, KindsApart
  <2>4. BlockList(n) = data \o spill
    BY <1>3 DEF BlockList
  <2>. HIDE DEF data, spill, T
  <2>5. PICK l : l = BlockList(n)
    OBVIOUS
  <2>6. /\ Len(l) = Len(data) + Len(spill)
        /\ Len(data) \in Nat /\ Len(spill) \in Nat
        /\ \A i \in 1 .. Len(data) + Len(spill) :
               l[i] = IF i <= Len(data) THEN data[i] ELSE spill[i - Len(data)]
    BY <1>1, <2>1, <2>4, <2>5, ConcatProperties, LenProperties
  <2>7. x \in 1 .. Len(l) /\ y \in 1 .. Len(l) /\ l[x] = l[y]
    BY <2>5
  <2>8. CASE x <= Len(data) /\ y <= Len(data)
    BY <1>2, <2>6, <2>7, <2>8
  <2>9. CASE x > Len(data) /\ y > Len(data)
    <3>1. x - Len(data) \in 1 .. Len(spill) /\ y - Len(data) \in 1 .. Len(spill)
      BY <2>6, <2>7, <2>9
    <3>2. PICK i, j \in 1 .. Len(spill) : i = x - Len(data) /\ j = y - Len(data)
      BY <3>1
    <3>3. l[x] = spill[i] /\ l[y] = spill[j]
      BY <2>6, <2>7, <2>9, <3>2
    <3>4. i = j
      BY <2>2, <2>7, <3>2, <3>3
    <3>. QED
      BY <2>6, <2>7, <3>2, <3>4
  <2>10. CASE x <= Len(data) /\ y > Len(data)
    BY <2>3, <2>6, <2>7, <2>10
  <2>11. CASE x > Len(data) /\ y <= Len(data)
    BY <2>3, <2>6, <2>7, <2>11
  <2>. QED
    BY <2>6, <2>7, <2>8, <2>9, <2>10, <2>11
<1>4. CASE ~ g_relations[n].is_base
  <2>1. BlockList(n) = data \o << >>
    BY <1>4 DEF BlockList
  <2>. HIDE DEF data, T
  <2>2. BlockList(n) = data
    BY <1>1, <2>1, ConcatEmptySeq
  <2>. QED
    BY <1>2, <2>2
<1>. QED
  BY <1>3, <1>4

\* No two numbers of Places stand for one place, which is a place of the relation.
LEMMA PlacesApart ==
    ASSUME IInv, NEW n \in DOMAIN g_relations, NEW x \in DOMAIN Places(n)
    PROVE /\ Places(n)[x] \in RowBlocks(n) \X Slots
          /\ \A y \in DOMAIN Places(n) : Places(n)[x] = Places(n)[y] => x = y
<1>. DEFINE blocks == BlockList(n)
<1>1. Places(n) = [k \in 1 .. Len(blocks) * BLKFAC |->
                      <<blocks[((k - 1) \div BLKFAC) + 1], ((k - 1) % BLKFAC) + 1>>]
  BY DEF Places
<1>2. blocks \in Seq(RowBlocks(n)) /\ Len(blocks) \in Nat
  BY BlockListRows, LenProperties DEF IInv, BlocksInv
<1>3. \A i, j \in 1 .. Len(blocks) : blocks[i] = blocks[j] => i = j
  BY BlockListApart
<1>. HIDE DEF blocks
<1>4. ASSUME NEW k \in 1 .. Len(blocks) * BLKFAC
      PROVE /\ ((k - 1) \div BLKFAC) + 1 \in 1 .. Len(blocks)
            /\ ((k - 1) % BLKFAC) + 1 \in Slots
            /\ k \in Int /\ BLKFAC \in Nat \ {0}
  <2>1. ((k - 1) \div BLKFAC) + 1 \in 1 .. Len(blocks)
    BY <1>2, SlotOfPlace
  <2>2. BLKFAC \in Nat /\ BLKFAC > 0 /\ k \in Int
    BY StorageAssumption
  <2>3. (k - 1) % BLKFAC \in 0 .. BLKFAC - 1
    BY <2>2
  <2>. QED
    BY <2>1, <2>2, <2>3 DEF Slots
<1>5. x \in 1 .. Len(blocks) * BLKFAC
  BY <1>1
<1>6. Places(n)[x] \in RowBlocks(n) \X Slots
  BY <1>1, <1>2, <1>4, <1>5, ElementOfSeq
<1>7. ASSUME NEW y \in 1 .. Len(blocks) * BLKFAC, Places(n)[x] = Places(n)[y] PROVE x = y
  <2>1. /\ blocks[((x - 1) \div BLKFAC) + 1] = blocks[((y - 1) \div BLKFAC) + 1]
        /\ ((x - 1) % BLKFAC) + 1 = ((y - 1) % BLKFAC) + 1
    BY <1>1, <1>5, <1>7
  <2>2. ((x - 1) \div BLKFAC) + 1 = ((y - 1) \div BLKFAC) + 1
    BY <1>3, <1>4, <1>5, <2>1
  <2>3. PICK a \in Int, b \in Int, B \in Int : a = x - 1 /\ b = y - 1 /\ B = BLKFAC /\ B > 0
    BY <1>4, <1>5
  <2>4. a \div B = b \div B /\ a % B = b % B
    <3>1. a \div B \in Int /\ b \div B \in Int /\ a % B \in Int /\ b % B \in Int
      BY <2>3
    <3>. QED
      BY <2>1, <2>2, <2>3, <3>1
  <2>5. a = B * (a \div B) + (a % B) /\ b = B * (b \div B) + (b % B)
    BY <2>3
  <2>6. a = b
    BY <2>4, <2>5
  <2>. QED
    BY <1>4, <1>5, <2>3, <2>6
<1>. QED
  BY <1>1, <1>6, <1>7

\* Every relation keeps its rows apart.
AllApart == \A n \in DOMAIN g_relations : RowsApart(n)

LEMMA ApartStored == ASSUME IInv, AllApart PROVE StoredOnce
<1>. SUFFICES ASSUME NEW n \in DOMAIN g_relations,
                     NEW i \in DOMAIN Places(n), NEW j \in DOMAIN Places(n),
                     RowAt(Places(n)[i]) = RowAt(Places(n)[j]),
                     RowAt(Places(n)[i]) # Free
              PROVE i = j
  BY DEF StoredOnce
<1>1. /\ Places(n)[i] \in RowBlocks(n) \X Slots /\ Places(n)[j] \in RowBlocks(n) \X Slots
      /\ Places(n)[i] = Places(n)[j] => i = j
  BY PlacesApart
<1>. QED
  BY <1>1 DEF AllApart, RowsApart
(***************************************************************************)
(* What a scan has passed                                                  *)
(***************************************************************************)
\* The scan w is going on, and the relation it reads.
Reading(w) == IF w = "scan" THEN pc \in {"scan", "second", "join"} ELSE pc = "join"

SourceOf(w) == IF w = "join" THEN command.q ELSE Source

\* The rows it has not come to yet: in its buffer, and in the blocks to be loaded.
InBuffer(w) == {data_buffers[BufferOf(w)][l] : l \in cursor[w].slot .. BLKFAC}

ToLoad(w) == {RowAt(place) : place \in Range(cursor[w].left) \X Slots}

Ahead(w) == (InBuffer(w) \union ToLoad(w)) \ {Free}

Past(w) == Rows(SourceOf(w)) \ Ahead(w)

\* The buffer holds a block of the relation, the blocks ahead are others.
InBlock(w, b) ==
    /\ b \in RowBlocks(SourceOf(w)) \ Range(cursor[w].left)
    /\ \A l \in Slots : data_buffers[BufferOf(w)][l] = virtual_disk[b][l]

LeftApart(w) ==
    \A i, j \in 1 .. Len(cursor[w].left) : cursor[w].left[i] = cursor[w].left[j] => i = j

ScanPlace(w) ==
    /\ Exists(SourceOf(w))
    /\ cursor[w].left \in Seq(RowBlocks(SourceOf(w))) /\ LeftApart(w)
    /\ cursor[w].slot \in 1 .. BLKFAC + 1
    /\ ~ BlockRead(w) => \E b : InBlock(w, b)

LEMMA SlotsAre == BLKFAC \in Nat /\ BLKFAC >= 1 /\ Slots = 1 .. BLKFAC
BY StorageAssumption DEF Slots

LEMMA LeftInBlocks ==
    ASSUME NEW w, ScanPlace(w)
    PROVE Range(cursor[w].left) \subseteq RowBlocks(SourceOf(w))
<1>. DEFINE left == cursor[w].left
            T    == RowBlocks(SourceOf(w))
<1>1. left \in Seq(T)
  BY DEF ScanPlace
<1>. HIDE DEF left, T
<1>2. Range(left) \subseteq T
  BY <1>1, RangeOfSeq
<1>. QED
  BY <1>2 DEF left, T

\* The rows of the relation, by place.
LEMMA RowsOfPlaces ==
    ASSUME NEW n
    PROVE Rows(n) = {RowAt(place) : place \in RowBlocks(n) \X Slots} \ {Free}
BY DEF Rows, Slots

LEMMA AheadInRows ==
    ASSUME NEW w, ScanPlace(w)
    PROVE Ahead(w) \subseteq Rows(SourceOf(w))
<1>. DEFINE n == SourceOf(w)
            R == {RowAt(place) : place \in RowBlocks(n) \X Slots}
<1>1. ToLoad(w) \subseteq R
  BY LeftInBlocks DEF ToLoad
<1>2. InBuffer(w) \subseteq R
  <2>1. SUFFICES ASSUME NEW l \in cursor[w].slot .. BLKFAC
                 PROVE data_buffers[BufferOf(w)][l] \in R
    BY DEF InBuffer
  <2>2. cursor[w].slot \in 1 .. BLKFAC + 1 /\ BLKFAC \in Nat
    BY SlotsAre DEF ScanPlace
  <2>3. ~ BlockRead(w) /\ l \in Slots
    BY <2>2, SlotsAre DEF BlockRead
  <2>4. PICK b : InBlock(w, b)
    BY <2>3 DEF ScanPlace
  <2>5. /\ <<b, l>> \in RowBlocks(n) \X Slots
        /\ RowAt(<<b, l>>) = data_buffers[BufferOf(w)][l]
    BY <2>3, <2>4 DEF InBlock, RowAt
  <2>. QED
    BY <2>5
<1>. HIDE DEF R
<1>3. Rows(n) = R \ {Free}
  BY RowsOfPlaces DEF R
<1>. QED
  BY <1>1, <1>2, <1>3 DEF Ahead

LEMMA NothingAhead ==
    ASSUME NEW w, ScanPlace(w), ScanOver(w)
    PROVE Ahead(w) = {} /\ Past(w) = Rows(SourceOf(w))
<1>1. cursor[w].slot .. BLKFAC = {}
  BY SlotsAre DEF ScanPlace, ScanOver, BlockRead
<1>2. Range(cursor[w].left) = {}
  BY EmptySeq DEF ScanOver, Range
<1>. QED
  BY <1>1, <1>2 DEF Ahead, Past, InBuffer, ToLoad

LEMMA ScanStarts ==
    ASSUME IInv, NEW w, NEW n \in DOMAIN g_relations, UNCHANGED <<storage, g_relations>>,
           SourceOf(w)' = n, cursor'[w] = ScanOf(n)
    PROVE ScanPlace(w)' /\ Past(w)' = {}
<1>. DEFINE left == BlockList(n)
            T    == RowBlocks(n)
<1>1. RowBlocks(n)' = T /\ Rows(n)' = Rows(n)
      /\ \A place : RowAt(place)' = RowAt(place)
  BY DEF RowBlocks, Rows, RowAt, Header, storage
<1>2. left \in Seq(T) /\ \A i, j \in 1 .. Len(left) : left[i] = left[j] => i = j
  BY BlockListRows, BlockListApart DEF IInv, BlocksInv
<1>3. cursor'[w].left = left /\ cursor'[w].slot = BLKFAC + 1
  BY DEF ScanOf
<1>4. Range(left) = T
  <2>1. \A b \in T : \E j \in 1 .. Len(left) : left[j] = b
    BY BlockListCovers DEF IInv, BlocksInv
  <2>. HIDE DEF left, T
  <2>2. Range(left) \subseteq T /\ DOMAIN left = 1 .. Len(left)
    BY <1>2, RangeOfSeq, LenProperties
  <2>. QED
    BY <2>1, <2>2 DEF Range
<1>. HIDE DEF left, T
<1>5. ScanPlace(w)'
  <2>1. Exists(n)'
    BY DEF Exists
  <2>2. BLKFAC + 1 \in 1 .. BLKFAC + 1 /\ BLKFAC + 1 > BLKFAC
    BY SlotsAre
  <2>3. BlockRead(w)'
    BY <1>3, <2>2 DEF BlockRead
  <2>4. LeftApart(w)'
    BY <1>2, <1>3 DEF LeftApart
  <2>. QED
    BY <1>1, <1>2, <1>3, <2>1, <2>2, <2>3, <2>4 DEF ScanPlace
<1>6. ToLoad(w)' = {RowAt(place) : place \in T \X Slots}
  BY <1>1, <1>3, <1>4 DEF ToLoad
<1>7. Rows(n) = {RowAt(place) : place \in T \X Slots} \ {Free}
  BY RowsOfPlaces DEF T
<1>8. Past(w)' = Rows(n) \ Ahead(w)'
  BY <1>1 DEF Past
<1>9. Rows(n) \subseteq Ahead(w)'
  BY <1>6, <1>7 DEF Ahead
<1>. QED
  BY <1>5, <1>8, <1>9

\* What lies in the blocks ahead stays there.
LEMMA LeftStays ==
    ASSUME NEW w, NEW n, SourceOf(w) = n, ScanPlace(w), Untouched(n),
           cursor'[w].left = cursor[w].left
    PROVE ToLoad(w)' = ToLoad(w)
<1>1. Range(cursor[w].left) \subseteq RowBlocks(n)
  BY LeftInBlocks
<1>2. \A place \in RowBlocks(n) \X Slots : RowAt(place)' = RowAt(place)
  BY SameRows DEF Slots
<1>3. \A place \in Range(cursor[w].left) \X Slots : RowAt(place)' = RowAt(place)
  BY <1>1, <1>2
<1>. QED
  BY <1>3 DEF ToLoad

LEMMA PlaceStays ==
    ASSUME NEW w, NEW n, SourceOf(w) = n, SourceOf(w)' = n, ScanPlace(w),
           Untouched(n), UNCHANGED g_relations,
           cursor'[w].left = cursor[w].left,
           cursor'[w].slot \in cursor[w].slot .. BLKFAC + 1,
           data_buffers'[BufferOf(w)] = data_buffers[BufferOf(w)]
    PROVE ScanPlace(w)'
<1>1. RowBlocks(n)' = RowBlocks(n)
  BY SameRows
<1>2. ASSUME NEW b, InBlock(w, b) PROVE InBlock(w, b)'
  BY <1>1, <1>2 DEF InBlock, Untouched, Slots, BufferOf
<1>3. cursor'[w].slot \in 1 .. BLKFAC + 1 /\ (BlockRead(w) => BlockRead(w)')
  BY SlotsAre DEF ScanPlace, BlockRead
<1>4. Exists(n)' /\ LeftApart(w)'
  BY DEF ScanPlace, Exists, LeftApart
<1>. QED
  BY <1>1, <1>2, <1>3, <1>4 DEF ScanPlace

LEMMA ScanStands ==
    ASSUME NEW w, NEW n, SourceOf(w) = n, SourceOf(w)' = n, ScanPlace(w),
           Untouched(n), UNCHANGED g_relations,
           cursor'[w].left = cursor[w].left, cursor'[w].slot = cursor[w].slot,
           data_buffers'[BufferOf(w)] = data_buffers[BufferOf(w)]
    PROVE ScanPlace(w)' /\ Past(w)' = Past(w)
<1>1. ScanPlace(w)'
  <2>1. cursor'[w].slot \in cursor[w].slot .. BLKFAC + 1
    BY SlotsAre DEF ScanPlace
  <2>. QED
    BY <2>1, PlaceStays
<1>2. InBuffer(w)' = InBuffer(w)
  BY DEF InBuffer, BufferOf
<1>3. ToLoad(w)' = ToLoad(w)
  BY LeftStays
<1>. QED
  BY <1>1, <1>2, <1>3, SameRows DEF Past, Ahead

LEMMA ScanMovesOn ==
    ASSUME NEW w, NEW n, SourceOf(w) = n, SourceOf(w)' = n, ScanPlace(w), ~ BlockRead(w),
           RowsApart(n), Untouched(n), UNCHANGED g_relations,
           cursor'[w].left = cursor[w].left, cursor'[w].slot = cursor[w].slot + 1,
           data_buffers'[BufferOf(w)] = data_buffers[BufferOf(w)]
    PROVE /\ ScanPlace(w)' /\ Past(w)' = Past(w) \union ({AtSlot(w)} \ {Free})
          /\ AtSlot(w) \notin Past(w) /\ AtSlot(w) \in Rows(n) \union {Free}
<1>. DEFINE l0 == cursor[w].slot
            a  == AtSlot(w)
            B  == data_buffers[BufferOf(w)]
<1>1. l0 \in Slots /\ l0 \in Int /\ l0 <= BLKFAC
  BY SlotsAre DEF ScanPlace, BlockRead
<1>2. ScanPlace(w)'
  <2>1. cursor'[w].slot \in l0 .. BLKFAC + 1
    BY <1>1, SlotsAre
  <2>. QED
    BY <2>1, PlaceStays
<1>3. PICK b : InBlock(w, b)
  BY DEF ScanPlace
<1>4. b \in RowBlocks(n) /\ b \notin Range(cursor[w].left) /\ \A l \in Slots : B[l] = RowAt(<<b, l>>)
  BY <1>3 DEF InBlock, RowAt
<1>5. a = B[l0]
  BY DEF AtSlot
<1>6. InBuffer(w) = InBuffer(w)' \union {a}
  <2>1. InBuffer(w) = {B[l] : l \in l0 .. BLKFAC}
    BY DEF InBuffer
  <2>2. InBuffer(w)' = {B[l] : l \in l0 + 1 .. BLKFAC}
    BY DEF InBuffer, BufferOf
  <2>3. l0 .. BLKFAC = (l0 + 1 .. BLKFAC) \union {l0}
    BY <1>1, SlotsAre
  <2>. HIDE DEF a, B, l0
  <2>. QED
    BY <1>5, <2>1, <2>2, <2>3
<1>7. ASSUME a # Free PROVE a \notin InBuffer(w)'
  <2>1. SUFFICES ASSUME NEW l \in l0 + 1 .. BLKFAC, B[l] = a PROVE FALSE
    BY DEF InBuffer, BufferOf
  <2>2. l \in Slots /\ l # l0
    BY <1>1, SlotsAre
  <2>3. RowAt(<<b, l>>) = RowAt(<<b, l0>>) /\ RowAt(<<b, l0>>) # Free
    BY <1>1, <1>4, <1>5, <1>7, <2>1, <2>2
  <2>4. <<b, l>> \in RowBlocks(n) \X Slots /\ <<b, l0>> \in RowBlocks(n) \X Slots
    BY <1>1, <1>4, <2>2
  <2>5. <<b, l>> = <<b, l0>>
    BY <2>3, <2>4 DEF RowsApart
  <2>. QED
    BY <2>2, <2>5
<1>8. ASSUME a # Free PROVE a \notin ToLoad(w)
  <2>1. SUFFICES ASSUME NEW place \in Range(cursor[w].left) \X Slots, RowAt(place) = a PROVE FALSE
    BY DEF ToLoad
  <2>2. place \in RowBlocks(n) \X Slots /\ place # <<b, l0>>
    BY <1>4, LeftInBlocks
  <2>3. RowAt(<<b, l0>>) = a /\ <<b, l0>> \in RowBlocks(n) \X Slots
    BY <1>1, <1>4, <1>5
  <2>. QED
    BY <1>8, <2>1, <2>2, <2>3 DEF RowsApart
<1>9. ToLoad(w)' = ToLoad(w)
  BY LeftStays
<1>10. Rows(n)' = Rows(n)
  BY SameRows
<1>11. a \in Rows(n) \union {Free}
  <2>1. a = RowAt(<<b, l0>>) /\ <<b, l0>> \in RowBlocks(n) \X Slots
    BY <1>1, <1>4, <1>5
  <2>. QED
    BY <2>1 DEF Rows, Slots
<1>. HIDE DEF a
<1>12. Past(w) = Rows(n) \ ((InBuffer(w)' \union {a} \union ToLoad(w)) \ {Free})
  BY <1>6 DEF Past, Ahead
<1>13. Past(w)' = Rows(n) \ ((InBuffer(w)' \union ToLoad(w)) \ {Free})
  BY <1>9, <1>10 DEF Past, Ahead
<1>14. Free \notin Rows(n)
  BY DEF Rows
<1>15. PICK I : I = InBuffer(w)'
  OBVIOUS
<1>16. PICK P : P = Past(w)'
  OBVIOUS
<1>17. P = Past(w) \union ({a} \ {Free}) /\ a \notin Past(w)
  BY <1>7, <1>8, <1>11, <1>12, <1>13, <1>14, <1>15, <1>16
<1>. QED
  BY <1>2, <1>11, <1>16, <1>17 DEF a

\* The head of the blocks ahead is loaded.
LEMMA ScanLoadsBlock ==
    ASSUME NEW w, NEW n, SourceOf(w) = n, SourceOf(w)' = n, ScanPlace(w),
           UNCHANGED <<storage, g_relations>>, BlockRead(w), cursor[w].left # << >>,
           cursor'[w].left = Tail(cursor[w].left), cursor'[w].slot = 1,
           data_buffers'[BufferOf(w)] = virtual_disk[Head(cursor[w].left)]
    PROVE ScanPlace(w)' /\ Past(w)' = Past(w)
<1>. DEFINE T == RowBlocks(n)
<1>1. PICK left : left = cursor[w].left
  OBVIOUS
<1>2. PICK b, rest : b = Head(left) /\ rest = Tail(left)
  OBVIOUS
<1>3. left \in Seq(T) /\ left # << >>
  BY <1>1 DEF ScanPlace
<1>. HIDE DEF T
<1>4. /\ b \in T /\ rest \in Seq(T) /\ Len(rest) = Len(left) - 1 /\ Len(left) \in Nat
      /\ \A i \in 1 .. Len(rest) : rest[i] = left[i + 1]
      /\ b = left[1] /\ DOMAIN left = 1 .. Len(left) /\ DOMAIN rest = 1 .. Len(rest)
      /\ Len(left) # 0
  <2>1. /\ b \in T /\ rest \in Seq(T) /\ Len(rest) = Len(left) - 1
        /\ \A i \in 1 .. Len(rest) : rest[i] = left[i + 1]
    BY <1>2, <1>3, HeadTailProperties
  <2>2. Len(left) \in Nat /\ DOMAIN left = 1 .. Len(left) /\ Len(left) # 0
    BY <1>3, LenProperties, EmptySeq
  <2>3. DOMAIN rest = 1 .. Len(rest)
    BY <2>1, LenProperties
  <2>. QED
    BY <1>2, <1>3, <2>1, <2>2, <2>3
<1>5. \A i, j \in 1 .. Len(left) : left[i] = left[j] => i = j
  BY <1>1 DEF ScanPlace, LeftApart
<1>6. Range(left) = {b} \union Range(rest)
  <2>1. ASSUME NEW i \in 1 .. Len(left) PROVE left[i] \in {b} \union Range(rest)
    <3>1. CASE i = 1
      BY <1>4, <3>1
    <3>2. CASE i # 1
      <4>1. i - 1 \in 1 .. Len(rest)
        BY <1>4, <3>2
      <4>2. rest[i - 1] = left[i]
        BY <1>4, <4>1
      <4>. QED
        BY <1>4, <4>1, <4>2 DEF Range
    <3>. QED
      BY <3>1, <3>2
  <2>2. ASSUME NEW i \in 1 .. Len(rest) PROVE rest[i] \in Range(left)
    <3>1. i + 1 \in 1 .. Len(left)
      BY <1>4
    <3>. QED
      BY <1>4, <3>1 DEF Range
  <2>3. b \in Range(left)
    BY <1>4 DEF Range
  <2>. QED
    BY <1>4, <2>1, <2>2, <2>3 DEF Range
<1>7. b \notin Range(rest) /\ \A i, j \in 1 .. Len(rest) : rest[i] = rest[j] => i = j
  <2>1. ASSUME NEW i \in 1 .. Len(rest) PROVE i + 1 \in 1 .. Len(left) /\ rest[i] = left[i + 1] /\ i + 1 # 1
    BY <1>4
  <2>2. 1 \in 1 .. Len(left)
    BY <1>4
  <2>3. ASSUME NEW i \in 1 .. Len(rest) PROVE rest[i] # b
    BY <1>4, <1>5, <2>1, <2>2
  <2>4. ASSUME NEW i \in 1 .. Len(rest), NEW j \in 1 .. Len(rest), rest[i] = rest[j] PROVE i = j
    <3>1. i + 1 = j + 1
      BY <1>5, <2>1, <2>4
    <3>. QED
      BY <3>1
  <2>. QED
    BY <1>4, <2>3, <2>4 DEF Range
<1>8. /\ RowBlocks(n)' = T /\ Rows(n)' = Rows(n)
      /\ \A place : RowAt(place)' = RowAt(place)
  BY DEF RowBlocks, Rows, RowAt, Header, storage, T
<1>9. cursor'[w].left = rest /\ cursor'[w].slot = 1 /\ data_buffers'[BufferOf(w)] = virtual_disk[b]
  BY <1>1, <1>2
<1>10. ScanPlace(w)'
  <2>1. InBlock(w, b)'
    BY <1>4, <1>7, <1>8, <1>9 DEF InBlock, storage, BufferOf
  <2>2. LeftApart(w)'
    BY <1>7, <1>9 DEF LeftApart
  <2>3. Exists(n)' /\ 1 \in 1 .. BLKFAC + 1
    BY SlotsAre DEF ScanPlace, Exists
  <2>. QED
    BY <1>4, <1>8, <1>9, <2>1, <2>2, <2>3 DEF ScanPlace
<1>11. InBuffer(w) = {}
  <2>1. cursor[w].slot .. BLKFAC = {}
    BY SlotsAre DEF ScanPlace, BlockRead
  <2>. QED
    BY <2>1 DEF InBuffer
<1>12. InBuffer(w)' = {RowAt(place) : place \in {b} \X Slots}
  <2>1. InBuffer(w)' = {virtual_disk[b][l] : l \in Slots}
    BY <1>9 DEF InBuffer, BufferOf, Slots
  <2>2. ASSUME NEW l \in Slots
        PROVE virtual_disk[b][l] \in {RowAt(place) : place \in {b} \X Slots}
    <3>1. RowAt(<<b, l>>) = virtual_disk[b][l] /\ <<b, l>> \in {b} \X Slots
      BY DEF RowAt
    <3>. QED
      BY <3>1
  <2>3. ASSUME NEW place \in {b} \X Slots
        PROVE RowAt(place) \in {virtual_disk[b][l] : l \in Slots}
    BY DEF RowAt
  <2>. QED
    BY <2>1, <2>2, <2>3
<1>13. ToLoad(w)' = {RowAt(place) : place \in Range(rest) \X Slots}
  BY <1>8, <1>9 DEF ToLoad
<1>14. ToLoad(w) = {RowAt(place) : place \in ({b} \union Range(rest)) \X Slots}
  BY <1>1, <1>6 DEF ToLoad
<1>15. ToLoad(w) = InBuffer(w)' \union ToLoad(w)'
  <2>1. ({b} \union Range(rest)) \X Slots = ({b} \X Slots) \union (Range(rest) \X Slots)
    OBVIOUS
  <2>. QED
    BY <1>12, <1>13, <1>14, <2>1
<1>16. Ahead(w)' = Ahead(w)
  BY <1>11, <1>15 DEF Ahead
<1>. QED
  BY <1>8, <1>10, <1>16 DEF Past

(***************************************************************************)
(* A row is added to a derived relation                                    *)
(***************************************************************************)
\* Blocks of n, no two the same and all full, hold that many rows of it.
LEMMA FullBlocksHold ==
    ASSUME IInv, NEW n \in DOMAIN g_relations, RowsApart(n),
           NEW I, IsFiniteSet(I), NEW Block, Block \in [I -> RowBlocks(n)],
           \A i, j \in I : Block[i] = Block[j] => i = j,
           \A i \in I, s \in Slots : virtual_disk[Block[i]][s] # Free
    PROVE Cardinality(Rows(n)) >= Cardinality(I) * BLKFAC
<1>. DEFINE f == [x \in I \X Slots |-> virtual_disk[Block[x[1]]][x[2]]]
            T == Rows(n)
<1>1. f \in Injection(I \X Slots, T)
  <2>1. ASSUME NEW x \in I \X Slots
        PROVE /\ <<Block[x[1]], x[2]>> \in RowBlocks(n) \X Slots
              /\ RowAt(<<Block[x[1]], x[2]>>) = f[x] /\ f[x] # Free /\ f[x] \in T
    <3>1. /\ <<Block[x[1]], x[2]>> \in RowBlocks(n) \X Slots
          /\ RowAt(<<Block[x[1]], x[2]>>) = f[x] /\ f[x] # Free
      BY DEF RowAt
    <3>. QED
      BY <3>1 DEF Rows, Slots
  <2>2. ASSUME NEW x \in I \X Slots, NEW y \in I \X Slots, f[x] = f[y] PROVE x = y
    <3>1. PICK u, v \in RowBlocks(n) \X Slots :
              /\ u = <<Block[x[1]], x[2]>> /\ v = <<Block[y[1]], y[2]>>
              /\ RowAt(u) = f[x] /\ RowAt(v) = f[y] /\ f[x] # Free
      BY <2>1
    <3>2. u = v
      BY <2>2, <3>1 DEF RowsApart
    <3>3. Block[x[1]] = Block[y[1]] /\ x[2] = y[2]
      BY <3>1, <3>2
    <3>. QED
      BY <3>3
  <2>. HIDE DEF f, T
  <2>3. f \in [I \X Slots -> T]
    <3>1. DOMAIN f = I \X Slots /\ f = [x \in DOMAIN f |-> f[x]]
      BY DEF f
    <3>. QED
      BY <2>1, <3>1
  <2>4. \A x, y \in I \X Slots : f[x] = f[y] => x = y
    BY <2>2
  <2>. QED
    BY <2>3, <2>4, Fun_IsInj
<1>2. IsFiniteSet(T)
  BY RowsFinite
<1>. HIDE DEF f, T
<1>3. IsFiniteSet(I \X Slots) /\ Cardinality(I \X Slots) = Cardinality(I) * BLKFAC
  BY SlotsCounted, FS_Product
<1>4. Cardinality(I \X Slots) <= Cardinality(T)
  BY <1>1, <1>2, FS_Injection
<1>5. Cardinality(T) \in Nat /\ Cardinality(I \X Slots) \in Nat
  BY <1>2, <1>3, FS_CardinalityType
<1>. QED
  BY <1>3, <1>4, <1>5 DEF T

\* A heap all of whose blocks are full holds as many rows as it can.
LEMMA FullHeapHolds ==
    ASSUME IInv, NEW n \in DOMAIN g_relations, ~ g_relations[n].is_base, RowsApart(n),
           WithRoom(n, "data") = {}, ~ (Header(n).num["data"] < BLKMAX)
    PROVE Cardinality(Rows(n)) >= Capacity(n)
<1>. DEFINE I     == 1 .. BLKMAX
            Block == [i \in I |-> Entry(n, "data", i)]
<1>1. /\ \A j \in I : Header(n).data[j] = Entry(n, "data", j)
      /\ DOMAIN Header(n).data = I
      /\ Header(n).num["data"] = Cardinality(Filled(n, "data"))
  BY EntryTyped DEF IInv, BlocksInv, Counted, Entry, Kinds, Size
<1>2. IsFiniteSet(I) /\ Cardinality(I) = BLKMAX /\ BLKMAX \in Nat
  BY StorageAssumption, FS_Interval
<1>3. \A i \in I : Entry(n, "data", i) # 0
  <2>1. Filled(n, "data") \subseteq I
    BY DEF Filled, Size
  <2>2. /\ Cardinality(Filled(n, "data")) <= BLKMAX
        /\ Cardinality(Filled(n, "data")) \in Nat
    BY <1>2, <2>1, FS_Subset, FS_CardinalityType
  <2>3. Cardinality(Filled(n, "data")) = BLKMAX
    BY <1>1, <1>2, <2>2
  <2>. HIDE DEF I
  <2>4. Filled(n, "data") = I
    BY <1>2, <2>1, <2>3, FS_Subset
  <2>. QED
    BY <2>4 DEF Filled
<1>4. ASSUME NEW i \in I
      PROVE Block[i] \in RowBlocks(n) /\ \A s \in Slots : virtual_disk[Block[i]][s] # Free
  <2>1. Block[i] = Entry(n, "data", i) /\ Block[i] # 0
    BY <1>3
  <2>2. Block[i] \in RowBlocks(n)
    BY <2>1, RowBlockEntry DEF BlockKinds, Kinds, Size, IInv, BlocksInv
  <2>3. FreeSlots(Block[i]) = {}
    BY <1>1, <2>1 DEF WithRoom, HasRoom
  <2>. QED
    BY <2>2, <2>3 DEF FreeSlots, Slots
<1>5. \A i, j \in I : Block[i] = Block[j] => i = j
  BY <1>3 DEF IInv, BlocksInv, NoneShared, Kinds, Size
<1>6. Block \in [I -> RowBlocks(n)]
  BY <1>4
<1>. HIDE DEF I, Block
<1>7. Cardinality(Rows(n)) >= Cardinality(I) * BLKFAC
  BY <1>2, <1>4, <1>5, <1>6, FullBlocksHold
<1>8. Capacity(n) = BLKMAX * BLKFAC
  BY StorageAssumption DEF Capacity
<1>. QED
  BY <1>2, <1>7, <1>8

LEMMA HeapedOrFull ==
    ASSUME IInv, UNCHANGED g_relations, NEW n \in DOMAIN g_relations,
           ~ g_relations[n].is_base, RowsApart(n), NEW row, row # Free, InsertHeap(n, row)
    PROVE row \in Rows(n)' \/ MayRefuse(n)
<1>. DEFINE place == WithRoom(n, "data")
<1>1. "data" \in BlockKinds(n) /\ Size("data") = BLKMAX
  BY DEF BlockKinds, Kinds, Size
<1>2. /\ Header(n)["data"] \in [1 .. BLKMAX -> Blocks]
      /\ Header(n).num["data"] = Cardinality(Filled(n, "data"))
  BY <1>1, EntryTyped DEF IInv, BlocksInv, Counted, Entry, Kinds
<1>3. CASE place # {} /\ WriteInto(Header(n).data[Min(place)], row)
  <2>1. place \subseteq 1 .. BLKMAX
    BY <1>2 DEF WithRoom
  <2>2. Min(place) \in place
    BY <1>3, <2>1, StorageAssumption, MinIsLeast
  <2>3. PICK i \in 1 .. BLKMAX : i = Min(place) /\ HasRoom(Header(n)["data"][i])
    BY <2>1, <2>2 DEF WithRoom
  <2>. QED
    BY <1>1, <1>3, <2>3, WrittenThere
<1>4. CASE /\ Header(n).num["data"] < BLKMAX
           /\ Grow(n, "data", Min(Missing(n, "data")), row)
  <2>1. Missing(n, "data") = {i \in 1 .. BLKMAX : Entry(n, "data", i) = 0}
    BY <1>1, <1>2, EntryTyped DEF Missing, Entry, IInv, BlocksInv, Kinds
  <2>2. Missing(n, "data") # {}
    BY <1>1, <1>2, <1>4, <2>1, EntryLeft DEF Kinds
  <2>3. Min(Missing(n, "data")) \in Missing(n, "data")
    BY <2>1, <2>2, StorageAssumption, MinIsLeast
  <2>4. PICK i \in 1 .. BLKMAX : i = Min(Missing(n, "data")) /\ Entry(n, "data", i) = 0
    BY <2>1, <2>3
  <2>. QED
    BY <1>1, <1>4, <2>4, GrownOrFull
<1>5. CASE place = {} /\ ~ (Header(n).num["data"] < BLKMAX)
  BY <1>5, FullHeapHolds DEF MayRefuse
<1>. QED
  BY <1>3, <1>4, <1>5 DEF InsertHeap

\* What a callback makes of a row is added once, or the relation or the disk is full.
LEMMA EmittedOnce ==
    ASSUME HashInRange, IInv, IInv', UNCHANGED g_relations,
           NEW n \in DOMAIN g_relations, ~ g_relations[n].is_base, RowsApart(n),
           NEW one, NEW made, made \subseteq {one}, one # Free, Emit(n, made \ Rows(n))
    PROVE /\ Rows(n) \subseteq Rows(n)' /\ Rows(n)' \subseteq Rows(n) \union made
          /\ made \subseteq Rows(n)' \/ MayRefuse(n)'
          /\ MayRefuse(n) => MayRefuse(n)'
          /\ RowsApart(n)'
<1>1. CASE UNCHANGED storage /\ made \subseteq Rows(n)
  <2>1. Untouched(n)
    BY <1>1, StillUntouched
  <2>2. Rows(n)' = Rows(n) /\ RowsApart(n)'
    BY <2>1, SameRows, SameRowsApart
  <2>3. MayRefuse(n)' <=> MayRefuse(n)
    BY <1>1, <2>2 DEF MayRefuse, Capacity, storage
  <2>. QED
    BY <1>1, <2>2, <2>3
<1>2. CASE one \in made /\ one \notin Rows(n) /\ AppendTuple(n, one)
  <2>1. UNCHANGED storage \/ \E b, s : AddsRow(n, b, s, one)
    BY <1>2, AppendTupleInserts, InsertAdds DEF IInv, BlocksInv
  <2>2. AppendEffect(n)
    BY <1>2, AppendTupleEffect, RowEffectBlocks DEF IInv, BlocksInv
  <2>3. /\ Rows(n) \subseteq Rows(n)' /\ Rows(n)' \subseteq Rows(n) \union {one}
        /\ RowsApart(n)'
    <3>1. CASE UNCHANGED storage
      BY <3>1, StillUntouched, SameRows, SameRowsApart
    <3>2. CASE \E b, s : AddsRow(n, b, s, one)
      <4>1. PICK b, s : AddsRow(n, b, s, one)
        BY <3>2
      <4>2. Rows(n)' = (Rows(n) \union {one}) \ {Free}
        BY <4>1, RowsAfterAdding
      <4>3. Free \notin Rows(n)
        BY DEF Rows
      <4>4. RowsApart(n)'
        BY <1>2, <4>1, RowsApartAfterAdding
      <4>. QED
        BY <4>2, <4>3, <4>4
    <3>. QED
      BY <2>1, <3>1, <3>2
  <2>4. MayRefuse(n) => MayRefuse(n)'
    <3>1. IsFiniteSet(Rows(n))
      BY RowsFinite
    <3>2. IsFiniteSet(Rows(n)')
      BY <2>3, <3>1, FS_AddElement, FS_Subset
    <3>. QED
      BY <2>2, <2>3, <3>2, RefusalStays
  <2>5. one \in Rows(n)' \/ MayRefuse(n)
    BY <1>2, HeapedOrFull DEF AppendTuple
  <2>. QED
    BY <1>2, <2>3, <2>4, <2>5
<1>. QED
  BY <1>1, <1>2 DEF Emit


(***************************************************************************)
(* Commands that derive a relation                                         *)
(***************************************************************************)
\* A command is at a point that is meant for it.
VerbsInv ==
    /\ pc = "dictionary" => command.verb \in Makers
    /\ pc = "scan" => command.verb \in Derivers \union {"PR"}

\* The names a command gives are those of attributes.
Resolved(c) ==
    /\ c.verb = "PJ" => /\ Len(c.attrs) \in 1 .. Len(AttrsOf(c.p))
                        /\ Range(c.attrs) \subseteq AttrNames(AttrsOf(c.p))
    /\ c.verb = "SL" => \A i \in DOMAIN c.conds : c.conds[i].attr \in AttrNames(AttrsOf(c.p))
    /\ c.verb \in {"UN", "DF"} => Compatible(AttrsOf(c.p), AttrsOf(c.q))
    /\ c.verb = "NJ" => \A i \in DOMAIN c.attrs :
                            Joinable(AttrsOf(c.p), AttrsOf(c.q), c.attrs[i])

ResolvedInv == Deriving => Resolved(command)

LEMMA ResolvedStays ==
    ASSUME NEW c, Resolved(c), AttrsOf(c.p)' = AttrsOf(c.p),
           c.verb \in {"UN", "DF", "NJ"} => AttrsOf(c.q)' = AttrsOf(c.q)
    PROVE Resolved(c)'
<1>1. CASE c.verb \in {"UN", "DF", "NJ"}
  BY <1>1 DEF Resolved
<1>2. CASE c.verb \notin {"UN", "DF", "NJ"}
  BY <1>2 DEF Resolved
<1>. QED
  BY <1>1, <1>2

\* A command that derives a relation goes on with it or has just begun.
LEMMA DerivingGoesOn ==
    ASSUME [Next]_vars, Deriving'
    PROVE \/ Deriving /\ UNCHANGED <<g_relations, command>>
          \/ \E c \in Commands : BeginCreate(c) /\ Cardinality(DOMAIN g_relations) < MAX_REL
<1>1. ASSUME UNCHANGED <<pc, g_relations, command>> PROVE Deriving /\ UNCHANGED <<g_relations, command>>
  BY <1>1 DEF Deriving
<1>2. ASSUME NEW c \in Commands, BeginCreate(c), ~ (Cardinality(DOMAIN g_relations) < MAX_REL)
      PROVE UNCHANGED <<pc, g_relations, command>>
  BY <1>2 DEF BeginCreate
<1>3. ASSUME NEW c \in Commands, BeginLines(c) \/ BeginPrint(c) \/ Delete(c) PROVE FALSE
  BY <1>3 DEF BeginLines, BeginPrint, Delete, Deriving, Derivers
<1>4. ASSUME NEW c \in Commands, Refuse(c) PROVE UNCHANGED <<pc, g_relations, command>>
  BY <1>4 DEF Refuse, vars
<1>5. CASE EndLines \/ EndScan
  BY <1>5 DEF EndLines, EndScan, EndCommand, Deriving
<1>6. CASE CarryOutLine \/ Describe \/ PrintRow \/ DeriveRow \/ JoinRow
  BY <1>1, <1>6 DEF CarryOutLine, Describe, PrintRow, DeriveRow, JoinRow
<1>7. CASE EndDictionary
  BY <1>7 DEF EndDictionary, EndCommand, Deriving
<1>8. CASE BeginSecond \/ BeginJoin \/ EndJoin
  BY <1>8 DEF BeginSecond, BeginJoin, EndJoin, Deriving
<1>9. ASSUME NEW w \in {"scan", "join"}, LoadBlock(w) \/ SkipSlot(w)
      PROVE UNCHANGED <<pc, g_relations, command>>
  BY <1>9 DEF LoadBlock, SkipSlot
<1>10. CASE UNCHANGED vars
  BY <1>1, <1>10 DEF vars
<1>. QED
  BY <1>1, <1>2, <1>3, <1>4, <1>5, <1>6, <1>7, <1>8, <1>9, <1>10 DEF Next

LEMMA VerbsStep ==
    ASSUME VerbsInv, TargetsExist, [Next]_vars
    PROVE VerbsInv'
<1>1. ASSUME UNCHANGED <<pc, command>> PROVE VerbsInv'
  BY <1>1 DEF VerbsInv
<1>2. ASSUME pc' \notin {"dictionary", "scan"} PROVE VerbsInv'
  BY <1>2 DEF VerbsInv
<1>3. ASSUME NEW c \in Commands, BeginCreate(c) PROVE VerbsInv'
  <2>1. CASE ~ (Cardinality(DOMAIN g_relations) < MAX_REL)
    BY <1>1, <1>3, <2>1 DEF BeginCreate
  <2>2. CASE Cardinality(DOMAIN g_relations) < MAX_REL
    BY <1>3, <2>2 DEF BeginCreate, VerbsInv
  <2>. QED
    BY <2>1, <2>2
<1>4. ASSUME NEW c \in Commands, BeginPrint(c) PROVE VerbsInv'
  BY <1>4 DEF BeginPrint, VerbsInv
<1>5. ASSUME NEW c \in Commands, Refuse(c) \/ Delete(c) PROVE VerbsInv'
  BY <1>1, <1>5 DEF Refuse, Delete, vars
<1>6. ASSUME NEW c \in Commands, BeginLines(c) PROVE VerbsInv'
  BY <1>2, <1>6 DEF BeginLines
<1>7. CASE EndLines \/ EndScan \/ BeginSecond \/ BeginJoin
  BY <1>2, <1>7 DEF EndLines, EndScan, EndCommand, BeginSecond, BeginJoin
<1>8. CASE CarryOutLine \/ Describe \/ PrintRow \/ DeriveRow \/ JoinRow
  BY <1>1, <1>8 DEF CarryOutLine, Describe, PrintRow, DeriveRow, JoinRow
<1>9. CASE EndDictionary
  BY <1>9 DEF EndDictionary, EndCommand, VerbsInv, Makers, Derivers
<1>10. CASE EndJoin
  BY <1>10 DEF EndJoin, VerbsInv, TargetsExist, Derivers
<1>11. ASSUME NEW w \in {"scan", "join"}, LoadBlock(w) \/ SkipSlot(w) PROVE VerbsInv'
  BY <1>1, <1>11 DEF LoadBlock, SkipSlot
<1>12. CASE UNCHANGED vars
  BY <1>1, <1>12 DEF vars
<1>. QED
  BY <1>3, <1>4, <1>5, <1>6, <1>7, <1>8, <1>9, <1>10, <1>11, <1>12 DEF Next

LEMMA ResolvedStep ==
    ASSUME IInv, CommandInv, ResolvedInv, [Next]_vars
    PROVE ResolvedInv'
<1>. SUFFICES ASSUME Deriving' PROVE Resolved(command)'
  BY DEF ResolvedInv
<1>1. CASE Deriving /\ UNCHANGED <<g_relations, command>>
  <2>1. PICK c : c = command
    OBVIOUS
  <2>2. Resolved(c)'
    BY <1>1, <2>1, ResolvedStays DEF ResolvedInv, AttrsOf
  <2>. QED
    BY <1>1, <2>1, <2>2
<1>2. ASSUME NEW c \in Commands, BeginCreate(c), Cardinality(DOMAIN g_relations) < MAX_REL
      PROVE Resolved(command)'
  <2>1. command' = c /\ Accepted(c)
    BY <1>2 DEF BeginCreate
  <2>2. \A n \in DOMAIN g_relations : g_relations'[n] = g_relations[n]
    BY <1>2, Created
  <2>3. c.verb \in Derivers
    BY <2>1 DEF Deriving
  <2>4. Exists(c.p) /\ (c.verb \in {"UN", "DF", "NJ"} => Exists(c.q)) /\ Resolved(c)
    BY <2>1, <2>3 DEF Accepted, Resolved, Derivers
  <2>5. Resolved(c)'
    BY <2>2, <2>4, ResolvedStays DEF Exists, AttrsOf
  <2>. QED
    BY <2>1, <2>5
<1>. QED
  BY <1>1, <1>2, DerivingGoesOn

\* The relations that a command at its scans reads and makes.
LEMMA ScannedFacts ==
    ASSUME IInv, DictionaryInv, StoreInv, Scans
    PROVE /\ Exists(command.p) /\ command.p # command.r
          /\ command.verb \in {"UN", "DF", "NJ"} => Exists(command.q) /\ command.q # command.r
          /\ command.r \in DOMAIN g_relations \ DOMAIN Dictionary
          /\ ~ g_relations[command.r].is_base
          /\ Source \in DOMAIN g_relations /\ Source # command.r
          /\ AttrsOf(command.r) = ResultAttrs(command)
<1>1. Deriving
  BY DEF Scans, Deriving
<1>2. Exists(command.r) /\ ~ IsDictionary(command.r)
  BY <1>1 DEF Deriving, IInv, TargetsExist, DictionaryInv
<1>. QED
  BY <1>1, <1>2 DEF StoreInv, CommandInv, Exists, IsDictionary, Source

\* A row that is written leaves every relation but the one that is made.
LEMMA OnlyResultWritten ==
    ASSUME HashInRange, IInv, DictionaryInv, StoreInv, DeriveRow \/ JoinRow
    PROVE /\ UNCHANGED g_relations /\ Scans
          /\ \A n \in DOMAIN g_relations \ {command.r} : Untouched(n)
<1>1. UNCHANGED g_relations
  BY DEF DeriveRow, JoinRow
<1>2. Wrote(command.r)
  BY DeriveWrote, JoinWrote
<1>3. Scans
  BY DEF DeriveRow, JoinRow, Scans, Derivers, IInv, TargetsExist
<1>4. PICK r : r = command.r
  OBVIOUS
<1>5. r \in DOMAIN g_relations /\ AppendEffect(r)
  BY <1>2, <1>3, <1>4, ScannedFacts DEF Wrote
<1>6. \A n \in DOMAIN g_relations \ {r} : Untouched(n)
  BY <1>1, <1>5, WriteFrame
<1>. QED
  BY <1>1, <1>3, <1>4, <1>6

(***************************************************************************)
(* What the rows that have been read call for                              *)
(***************************************************************************)
\* What a command other than a join makes of a row: one row or none.
Derived(row) ==
    CASE command.verb = "PJ" -> {Projected(command, row)}
      [] command.verb = "SL" -> {x \in {row} : Meets(command, x)}
      [] command.verb = "UN" -> {IF pc = "scan" THEN row ELSE Mapped(command, row)}
      [] command.verb = "DF" -> {x \in {row} : \A y \in Rows(command.q) : Mapped(command, y) # x}

\* The pairs of rows that a join has put together.
Pairs ==
    {xy \in Past("scan") \X Rows(command.q) :
        /\ Matches(command, xy[1], xy[2])
        /\ pc = "join" /\ xy[1] = pf => xy[2] \in Past("join")}

Due ==
    IF command.verb = "NJ" THEN {Joined(command, xy[1], xy[2]) : xy \in Pairs}
    ELSE (IF pc = "second" THEN Rows(command.p) ELSE {})
             \union UNION {Derived(row) : row \in Past("scan")}

\* The new relation holds nothing else, and all of it unless it may turn rows down.
HoldsDue ==
    /\ Rows(command.r) \subseteq Due
    /\ Due \subseteq Rows(command.r) \/ MayRefuse(command.r)

PlacesInv == \A w \in {"scan", "join"} : Reading(w) => ScanPlace(w)

ResultInv ==
    /\ pc = "dictionary" /\ command.verb \in Derivers => Rows(command.r) = {}
    /\ Scans => HoldsDue
    /\ pc = "join" => pf \in Past("scan")

\* A step that adds the rows of made to relation n, or is turned down.
Gains(n, made) ==
    /\ Rows(n) \subseteq Rows(n)' /\ Rows(n)' \subseteq Rows(n) \union made
    /\ made \subseteq Rows(n)' \/ MayRefuse(n)'
    /\ MayRefuse(n) => MayRefuse(n)'
    /\ RowsApart(n)'

LEMMA DerivedCases ==
    ASSUME NEW row
    PROVE /\ command.verb = "PJ" => Derived(row) = {Projected(command, row)}
          /\ command.verb = "SL" => Derived(row) = {x \in {row} : Meets(command, x)}
          /\ command.verb = "UN" => Derived(row) = {IF pc = "scan" THEN row ELSE Mapped(command, row)}
          /\ command.verb = "DF" => Derived(row) = {x \in {row} : \A y \in Rows(command.q) : Mapped(command, y) # x}
BY DEF Derived

LEMMA OutputCases ==
    ASSUME NEW row
    PROVE /\ command.verb = "PJ" => Output(command, row) = {Projected(command, row)} \ Rows(command.r)
          /\ command.verb = "SL" => Output(command, row) = {x \in {row} : Meets(command, x)}
          /\ command.verb = "UN" => Output(command, row) = {IF pc = "scan" THEN row ELSE Mapped(command, row)} \ Rows(command.r)
          /\ command.verb = "DF" => Output(command, row) = {x \in {row} : \A y \in Rows(command.q) : Mapped(command, y) # x}
BY DEF Output

LEMMA CommandGiven ==
    ASSUME TypesInv, Scans
    PROVE command \in Commands
BY DEF TypesInv, EngineTyped, Scans, Derivers, NoCommand

\* It makes at most one row, which is no free slot.
LEMMA OneDerived ==
    ASSUME IInv, DictionaryInv, StoreInv, TypesInv, ResolvedInv, Scans,
           pc \in {"scan", "second"}, command.verb \in {"PJ", "SL", "UN", "DF"},
           NEW row \in Rows(Source)
    PROVE \E one : Derived(row) \subseteq {one} /\ one # Free
<1>1. row # Free
  BY DEF Rows
<1>2. Resolved(command)
  BY DEF ResolvedInv, Deriving, Scans
<1>3. CASE command.verb = "PJ"
  <2>1. PICK c \in Commands : c = command
    BY CommandGiven
  <2>2. c.attrs \in Seq(Range(c.attrs)) /\ Len(c.attrs) >= 1
    <3>1. Len(c.attrs) \in 1 .. Len(AttrsOf(c.p))
      BY <1>2, <1>3, <2>1 DEF Resolved
    <3>. QED
      BY <1>3, <2>1, <3>1, StorageAssumption
  <2>3. DOMAIN c.attrs = 1 .. Len(c.attrs) /\ Len(c.attrs) \in Nat
    BY <2>2, LenProperties
  <2>4. DOMAIN Projected(c, row) = 1 .. Len(c.attrs)
    BY <2>3 DEF Projected
  <2>5. Projected(c, row) # Free
    BY <2>2, <2>3, <2>4, EmptySeq DEF Free
  <2>. QED
    BY <1>3, <2>1, <2>5, DerivedCases
<1>4. CASE command.verb \in {"SL", "DF"}
  <2>1. Derived(row) \subseteq {row}
    BY <1>4, DerivedCases
  <2>. QED
    BY <1>1, <2>1
<1>5. CASE command.verb = "UN" /\ pc = "scan"
  <2>1. Derived(row) \subseteq {row}
    BY <1>5, DerivedCases
  <2>. QED
    BY <1>1, <2>1
<1>6. CASE command.verb = "UN" /\ pc = "second"
  <2>1. PICK p, q : p = AttrsOf(command.p) /\ q = AttrsOf(command.q)
    OBVIOUS
  <2>2. command.p \in DOMAIN g_relations /\ command.q \in DOMAIN g_relations /\ Source = command.q
    BY <1>6, ScannedFacts DEF Exists, Source
  <2>3. IsSequence(p) /\ Len(p) = Len(q)
    BY <1>2, <1>6, <2>1, <2>2 DEF Resolved, Compatible, IInv, TargetsExist
  <2>4. Fits(row, command.q)
    BY <2>2, AllRowsFit DEF StoreInv
  <2>5. IsSequence(row) /\ Len(row) = Len(q)
    BY <2>1, <2>2, <2>4, FitsLength DEF IInv
  <2>6. Len(row) # 0
    <3>1. row \in Seq(Range(row))
      BY <2>5 DEF IsSequence
    <3>. QED
      BY <1>1, <3>1, EmptySeq DEF Free
  <2>7. DOMAIN p = 1 .. Len(p) /\ Len(p) \in Nat
    BY <2>3, SequenceDomain
  <2>8. DOMAIN Mapped(command, row) = 1 .. Len(p) /\ 1 \in 1 .. Len(p)
    BY <2>1, <2>3, <2>5, <2>6, <2>7 DEF Mapped
  <2>9. Mapped(command, row) # Free
    BY <2>8, EmptySeq DEF Free
  <2>10. Derived(row) \subseteq {Mapped(command, row)}
    BY <1>6, DerivedCases
  <2>. QED
    BY <2>9, <2>10
<1>. QED
  BY <1>3, <1>4, <1>5, <1>6

\* SL and DF append without a look at what is there, but each row is read once.
LEMMA OutputIsNew ==
    ASSUME HoldsDue, pc \in {"scan", "second"}, pc = "second" => command.verb = "UN",
           command.verb \in {"PJ", "SL", "UN", "DF"}, NEW row, row \notin Past("scan")
    PROVE Output(command, row) = Derived(row) \ Rows(command.r)
<1>1. CASE command.verb \in {"PJ", "UN"}
  BY <1>1, DerivedCases, OutputCases
<1>2. CASE command.verb \in {"SL", "DF"}
  <2>1. \A x : Derived(x) \subseteq {x}
    BY <1>2, DerivedCases
  <2>2. Due = UNION {Derived(x) : x \in Past("scan")}
    BY <1>2 DEF Due
  <2>3. Rows(command.r) \subseteq Past("scan")
    BY <2>1, <2>2 DEF HoldsDue
  <2>4. Output(command, row) = Derived(row)
    BY <1>2, DerivedCases, OutputCases
  <2>. QED
    BY <2>1, <2>3, <2>4
<1>. QED
  BY <1>1, <1>2

\* How the step that reads a row for PJ, SL, UN or DF moves the scan and the relation.
LEMMA DeriveMoves ==
    ASSUME HashInRange, IInv, IInv', DictionaryInv, StoreInv, TypesInv,
           PlacesInv, AllApart, ResolvedInv, ResultInv, DeriveRow
    PROVE /\ ScanPlace("scan")' /\ Past("scan")' = Past("scan") \union {AtSlot("scan")}
          /\ Gains(command.r, Derived(AtSlot("scan")))
<1>1. /\ UNCHANGED g_relations /\ Scans
      /\ \A n \in DOMAIN g_relations \ {command.r} : Untouched(n)
  BY OnlyResultWritten
<1>2. /\ pc \in {"scan", "second"} /\ command.verb \in {"PJ", "SL", "UN", "DF"}
      /\ ~ BlockRead("scan") /\ AtSlot("scan") # Free
      /\ Emit(command.r, Output(command, AtSlot("scan"))) /\ NextSlot("scan")
      /\ UNCHANGED <<data_buffers, pc, command>>
  BY DEF DeriveRow
<1>3. PICK n : n = Source
  OBVIOUS
<1>4. /\ n \in DOMAIN g_relations /\ Untouched(n) /\ RowsApart(n)
      /\ SourceOf("scan") = n /\ SourceOf("scan")' = n
  BY <1>1, <1>2, <1>3, ScannedFacts DEF AllApart, SourceOf, Source
<1>5. /\ cursor'["scan"].left = cursor["scan"].left
      /\ cursor'["scan"].slot = cursor["scan"].slot + 1
  BY <1>2 DEF NextSlot, TypesInv, CursorTyped
<1>6. ScanPlace("scan")
  BY <1>1 DEF PlacesInv, Reading, Scans
<1>7. /\ ScanPlace("scan")'
      /\ Past("scan")' = Past("scan") \union ({AtSlot("scan")} \ {Free})
      /\ AtSlot("scan") \notin Past("scan") /\ AtSlot("scan") \in Rows(n) \union {Free}
  BY <1>1, <1>2, <1>4, <1>5, <1>6, ScanMovesOn
<1>8. PICK row \in Rows(n) : row = AtSlot("scan")
  BY <1>2, <1>7
<1>9. PICK one : Derived(row) \subseteq {one} /\ one # Free
  BY <1>1, <1>2, <1>3, <1>8, OneDerived
<1>10. HoldsDue
  BY <1>1 DEF ResultInv
<1>11. Output(command, row) = Derived(row) \ Rows(command.r)
  BY <1>2, <1>7, <1>8, <1>10, OutputIsNew DEF StoreInv, CommandInv
<1>12. PICK r, made : r = command.r /\ made = Derived(row)
  OBVIOUS
<1>13. r \in DOMAIN g_relations /\ ~ g_relations[r].is_base /\ RowsApart(r)
  BY <1>1, <1>12, ScannedFacts DEF AllApart
<1>14. Emit(r, made \ Rows(r))
  BY <1>2, <1>8, <1>11, <1>12
<1>15. Gains(r, made)
  BY <1>1, <1>9, <1>12, <1>13, <1>14, EmittedOnce DEF Gains
<1>. QED
  BY <1>2, <1>7, <1>8, <1>12, <1>15

(***************************************************************************)
(* Joins                                                                   *)
(***************************************************************************)
\* The positions, in the second relation, of the attributes a join is over.
JoinedAt(c) == {AttrIndex(AttrsOf(c.q), c.attrs[j]) : j \in DOMAIN c.attrs}

\* What is left of the second relation's positions, in ascending order.
LEMMA RestPicks ==
    ASSUME TargetsExist, NEW c, Exists(c.q)
    PROVE /\ Len(Rest(c)) \in Nat /\ DOMAIN Rest(c) = 1 .. Len(Rest(c))
          /\ \A j \in DOMAIN Rest(c) : Rest(c)[j] \in DOMAIN AttrsOf(c.q) \ JoinedAt(c)
          /\ \A i \in DOMAIN AttrsOf(c.q) \ JoinedAt(c) : \E j \in DOMAIN Rest(c) : Rest(c)[j] = i
          /\ \A i, j \in DOMAIN Rest(c) : i < j => Rest(c)[i] < Rest(c)[j]
<1>1. PICK k \in Nat : DOMAIN AttrsOf(c.q) = 1 .. k
  BY SequenceDomain DEF TargetsExist, Exists
<1>2. PICK P : P = (1 .. k) \ JoinedAt(c)
  OBVIOUS
<1>3. PICK pos : pos = Positions(P)
  OBVIOUS
<1>4. /\ Cardinality(P) \in Nat
      /\ pos \in [1 .. Cardinality(P) -> P]
      /\ \A i \in P : \E j \in 1 .. Cardinality(P) : pos[j] = i
      /\ \A i, j \in 1 .. Cardinality(P) : i < j => pos[i] < pos[j]
  <2>1. P \subseteq 1 .. k
    BY <1>2
  <2>. QED
    BY <1>3, <2>1, PositionsAscend
<1>5. Rest(c) = [j \in 1 .. Cardinality(P) |-> pos[j]]
  <2>. DEFINE s == [i \in 1 .. k |-> i]
  <2>1. Rest(c) = Picked(s, P)
    BY <1>1, <1>2 DEF Rest, JoinedAt
  <2>2. \A i \in P : s[i] = i
    BY <1>2
  <2>. HIDE DEF s
  <2>3. Picked(s, P) = [j \in 1 .. Cardinality(P) |-> s[pos[j]]]
    BY <1>3, PickedAt
  <2>4. \A j \in 1 .. Cardinality(P) : s[pos[j]] = pos[j]
    BY <1>4, <2>2
  <2>. QED
    BY <2>1, <2>3, <2>4
<1>6. Rest(c) = pos /\ pos \in Seq(P)
  BY <1>4, <1>5, SeqDef
<1>7. Len(pos) \in Nat /\ DOMAIN pos = 1 .. Len(pos) /\ DOMAIN pos = 1 .. Cardinality(P)
  BY <1>4, <1>6, LenProperties
<1>. QED
  BY <1>1, <1>2, <1>4, <1>6, <1>7

\* A joined row: the first row, then the rest of the second one.
LEMMA JoinedIs ==
    ASSUME TargetsExist, NEW c, Exists(c.p), Exists(c.q), NEW x, Fits(x, c.p), NEW y
    PROVE /\ Len(AttrsOf(c.p)) \in Nat /\ DOMAIN AttrsOf(c.p) = 1 .. Len(AttrsOf(c.p))
          /\ IsSequence(x) /\ DOMAIN x = 1 .. Len(AttrsOf(c.p))
          /\ DOMAIN Joined(c, x, y) = 1 .. Len(AttrsOf(c.p)) + Len(Rest(c))
          /\ \A i \in 1 .. Len(AttrsOf(c.p)) : Joined(c, x, y)[i] = x[i]
          /\ \A i \in DOMAIN Rest(c) : Joined(c, x, y)[Len(AttrsOf(c.p)) + i] = y[Rest(c)[i]]
<1>. DEFINE w == [i \in DOMAIN Rest(c) |-> y[Rest(c)[i]]]
            z == Joined(c, x, y)
<1>1. PICK k \in Nat : k = Len(AttrsOf(c.p)) /\ DOMAIN AttrsOf(c.p) = 1 .. k
  BY SequenceDomain DEF TargetsExist, Exists
<1>2. IsSequence(x) /\ Len(x) = k
  BY <1>1, FitsLength DEF Exists
<1>3. DOMAIN x = 1 .. k
  BY <1>2, SequenceDomain
<1>4. PICK l \in Nat : l = Len(Rest(c)) /\ DOMAIN Rest(c) = 1 .. l
  BY RestPicks
<1>5. w = [i \in 1 .. l |-> w[i]] /\ \A i \in 1 .. l : w[i] = y[Rest(c)[i]]
  BY <1>4
<1>6. z = x \o w
  BY DEF Joined
<1>. HIDE DEF w, z
<1>7. IsSequence(w) /\ DOMAIN w = 1 .. l
  BY <1>4, <1>5, FunctionIsSequence
<1>8. Len(w) = l
  BY <1>4, <1>7, SequenceDomain
<1>9. x \in Seq(Range(x) \union Range(w)) /\ w \in Seq(Range(x) \union Range(w))
  BY <1>2, <1>7, SeqMonotonic DEF IsSequence
<1>10. /\ Len(z) = k + l /\ z \in Seq(Range(x) \union Range(w))
       /\ \A i \in 1 .. k + l : z[i] = IF i <= k THEN x[i] ELSE w[i - k]
  BY <1>2, <1>6, <1>8, <1>9, ConcatProperties
<1>11. DOMAIN z = 1 .. k + l
  BY <1>10, LenProperties
<1>12. \A i \in 1 .. k : z[i] = x[i]
  BY <1>10, <1>1, <1>4
<1>13. \A i \in 1 .. l : z[k + i] = y[Rest(c)[i]]
  <2>. SUFFICES ASSUME NEW i \in 1 .. l PROVE z[k + i] = y[Rest(c)[i]]
    OBVIOUS
  <2>1. k + i \in 1 .. k + l /\ ~ (k + i <= k) /\ (k + i) - k = i
    BY <1>1, <1>4
  <2>. QED
    BY <1>5, <1>10, <2>1
<1>14. z = Joined(c, x, y)
  BY DEF z
<1>. QED
  BY <1>1, <1>2, <1>3, <1>4, <1>11, <1>12, <1>13, <1>14

\* Rows that match are told apart by what they are joined to.
LEMMA JoinedApart ==
    ASSUME TargetsExist, NEW c, Exists(c.p), Exists(c.q),
           NEW x, NEW a, Fits(x, c.p), Fits(a, c.p), NEW y, NEW b, Fits(y, c.q), Fits(b, c.q),
           Matches(c, x, y), Matches(c, a, b), Joined(c, x, y) = Joined(c, a, b)
    PROVE x = a /\ y = b
<1>1. PICK k, l, z : k = Len(AttrsOf(c.p)) /\ l = Len(Rest(c)) /\ z = Joined(c, x, y)
  OBVIOUS
<1>2. /\ k \in Nat /\ DOMAIN AttrsOf(c.p) = 1 .. k
      /\ \A i \in 1 .. k : z[i] = x[i]
      /\ \A i \in DOMAIN Rest(c) : z[k + i] = y[Rest(c)[i]]
  <2>1. /\ Len(AttrsOf(c.p)) \in Nat /\ DOMAIN AttrsOf(c.p) = 1 .. Len(AttrsOf(c.p))
        /\ \A i \in 1 .. Len(AttrsOf(c.p)) : Joined(c, x, y)[i] = x[i]
        /\ \A i \in DOMAIN Rest(c) : Joined(c, x, y)[Len(AttrsOf(c.p)) + i] = y[Rest(c)[i]]
    BY JoinedIs
  <2>. QED
    BY <1>1, <2>1
<1>3. /\ \A i \in 1 .. k : z[i] = a[i]
      /\ \A i \in DOMAIN Rest(c) : z[k + i] = b[Rest(c)[i]]
  <2>1. z = Joined(c, a, b)
    BY <1>1
  <2>2. /\ Len(AttrsOf(c.p)) \in Nat /\ DOMAIN AttrsOf(c.p) = 1 .. Len(AttrsOf(c.p))
        /\ \A i \in 1 .. Len(AttrsOf(c.p)) : Joined(c, a, b)[i] = a[i]
        /\ \A i \in DOMAIN Rest(c) : Joined(c, a, b)[Len(AttrsOf(c.p)) + i] = b[Rest(c)[i]]
    BY JoinedIs
  <2>. QED
    BY <1>1, <2>1, <2>2
<1>4. x = a
  <2>1. x = [i \in 1 .. k |-> x[i]] /\ a = [i \in 1 .. k |-> a[i]]
    BY <1>2 DEF Fits
  <2>2. \A i \in 1 .. k : x[i] = a[i]
    BY <1>2, <1>3
  <2>. QED
    BY <2>1, <2>2
<1>5. ASSUME NEW i \in DOMAIN AttrsOf(c.q) PROVE y[i] = b[i]
  <2>1. CASE i \in JoinedAt(c)
    <3>1. PICK j \in DOMAIN c.attrs : i = AttrIndex(AttrsOf(c.q), c.attrs[j])
      BY <2>1 DEF JoinedAt
    <3>. QED
      BY <1>4, <3>1 DEF Matches
  <2>2. CASE i \notin JoinedAt(c)
    <3>1. PICK j \in DOMAIN Rest(c) : Rest(c)[j] = i
      BY <2>2, RestPicks
    <3>. QED
      BY <1>2, <1>3, <3>1
  <2>. QED
    BY <2>1, <2>2
<1>6. y = b
  <2>1. y = [i \in DOMAIN AttrsOf(c.q) |-> y[i]] /\ b = [i \in DOMAIN AttrsOf(c.q) |-> b[i]]
    BY DEF Fits
  <2>. QED
    BY <1>5, <2>1
<1>. QED
  BY <1>4, <1>6

\* What the step that reads a row of a join's second relation does.
LEMMA JoinMoves ==
    ASSUME HashInRange, IInv, IInv', DictionaryInv, StoreInv, TypesInv,
           PlacesInv, AllApart, ResultInv, JoinRow
    PROVE \E y, made :
          /\ y = AtSlot("join") /\ y \in Rows(command.q) /\ y \notin Past("join")
          /\ made = {z \in {Joined(command, pf, y)} : Matches(command, pf, y)}
          /\ ScanPlace("scan")' /\ Past("scan")' = Past("scan")
          /\ ScanPlace("join")' /\ Past("join")' = Past("join") \union {y}
          /\ Rows(command.q)' = Rows(command.q)
          /\ Gains(command.r, made)
<1>1. /\ UNCHANGED g_relations /\ Scans
      /\ \A n \in DOMAIN g_relations \ {command.r} : Untouched(n)
  BY OnlyResultWritten
<1>2. /\ pc = "join" /\ command.verb = "NJ" /\ ~ BlockRead("join") /\ AtSlot("join") # Free
      /\ Emit(command.r, IF Matches(command, pf, AtSlot("join"))
                         THEN {Joined(command, pf, AtSlot("join"))} ELSE {})
      /\ NextSlot("join") /\ UNCHANGED <<data_buffers, pc, command>>
  BY DEF JoinRow, IInv, TargetsExist
<1>3. PICK p, q : p = command.p /\ q = command.q
  OBVIOUS
<1>4. /\ p \in DOMAIN g_relations /\ Untouched(p) /\ q \in DOMAIN g_relations /\ Untouched(q)
      /\ RowsApart(q)
  BY <1>1, <1>2, <1>3, ScannedFacts DEF AllApart, Exists
<1>5. /\ SourceOf("scan") = p /\ SourceOf("scan")' = p
      /\ SourceOf("join") = q /\ SourceOf("join")' = q
  BY <1>2, <1>3 DEF SourceOf, Source
<1>6. ScanPlace("scan") /\ ScanPlace("join")
  BY <1>2 DEF PlacesInv, Reading
<1>7. /\ cursor'["scan"] = cursor["scan"]
      /\ cursor'["join"].left = cursor["join"].left
      /\ cursor'["join"].slot = cursor["join"].slot + 1
  BY <1>2 DEF NextSlot, TypesInv, CursorTyped
<1>8. ScanPlace("scan")' /\ Past("scan")' = Past("scan")
  BY <1>1, <1>2, <1>4, <1>5, <1>6, <1>7, ScanStands
<1>9. /\ ScanPlace("join")'
      /\ Past("join")' = Past("join") \union ({AtSlot("join")} \ {Free})
      /\ AtSlot("join") \notin Past("join") /\ AtSlot("join") \in Rows(q) \union {Free}
  BY <1>1, <1>2, <1>4, <1>5, <1>6, <1>7, ScanMovesOn
<1>10. PICK y \in Rows(q) : y = AtSlot("join")
  BY <1>2, <1>9
<1>11. pf \in Past("scan") /\ pf \in Rows(p) /\ pf # Free
  BY <1>2, <1>5 DEF ResultInv, Past, Rows
<1>12. Rows(q)' = Rows(q)
  BY <1>4, SameRows
<1>13. PICK z, made : /\ z = Joined(command, pf, y)
                      /\ made = {u \in {z} : Matches(command, pf, y)}
  OBVIOUS
<1>14. z # Free
  <2>1. Fits(pf, p)
    BY <1>4, <1>11, AllRowsFit DEF StoreInv
  <2>2. PICK c, k, l : c = command /\ k = Len(AttrsOf(c.p)) /\ l = Len(Rest(c))
    OBVIOUS
  <2>3. TargetsExist /\ Exists(c.p) /\ Exists(c.q) /\ Fits(pf, c.p) /\ z = Joined(c, pf, y)
    BY <1>3, <1>4, <1>13, <2>1, <2>2 DEF IInv, Exists
  <2>4. /\ k \in Nat /\ l \in Nat /\ DOMAIN pf = 1 .. k /\ DOMAIN z = 1 .. k + l
        /\ IsSequence(pf)
    BY <2>2, <2>3, JoinedIs, RestPicks
  <2>5. k # 0
    BY <1>11, <2>4, EmptySeq DEF Free, IsSequence
  <2>6. 1 \in DOMAIN z
    BY <2>4, <2>5
  <2>. QED
    BY <2>6, EmptySeq DEF Free
\* The row is new: it tells which two rows it comes from.
<1>15. Matches(command, pf, y) => z \notin Rows(command.r)
  <2>. SUFFICES ASSUME Matches(command, pf, y), z \in Rows(command.r) PROVE FALSE
    OBVIOUS
  <2>1. z \in Due
    BY <1>1 DEF ResultInv, HoldsDue
  <2>2. PICK xy \in Pairs : z = Joined(command, xy[1], xy[2])
    BY <1>2, <2>1 DEF Due
  <2>3. PICK a, b : a = xy[1] /\ b = xy[2]
    OBVIOUS
  <2>4. /\ a \in Past("scan") /\ b \in Rows(q) /\ Matches(command, a, b)
        /\ a = pf => b \in Past("join")
    BY <1>2, <1>3, <2>2, <2>3 DEF Pairs
  <2>5. Fits(pf, p) /\ Fits(a, p) /\ Fits(y, q) /\ Fits(b, q)
    <3>1. a \in Rows(p)
      BY <1>5, <2>4 DEF Past
    <3>. QED
      BY <1>4, <1>11, <2>4, <3>1, AllRowsFit DEF StoreInv
  <2>6. pf = a /\ y = b
    <3>1. PICK c : c = command
      OBVIOUS
    <3>2. /\ TargetsExist /\ Exists(c.p) /\ Exists(c.q)
          /\ Fits(pf, c.p) /\ Fits(a, c.p) /\ Fits(y, c.q) /\ Fits(b, c.q)
          /\ Matches(c, pf, y) /\ Matches(c, a, b)
      BY <1>3, <1>4, <2>4, <2>5, <3>1 DEF IInv, Exists
    <3>3. Joined(c, pf, y) = Joined(c, a, b)
      BY <1>13, <2>2, <2>3, <3>1
    <3>. QED
      BY <3>2, <3>3, JoinedApart
  <2>. QED
    BY <1>9, <1>10, <2>4, <2>6
<1>16. PICK r : r = command.r
  OBVIOUS
<1>17. r \in DOMAIN g_relations /\ ~ g_relations[r].is_base /\ RowsApart(r)
  BY <1>1, <1>16, ScannedFacts DEF AllApart
<1>18. Emit(r, made \ Rows(r))
  <2>1. (IF Matches(command, pf, y) THEN {z} ELSE {}) = made \ Rows(r)
    BY <1>13, <1>15, <1>16
  <2>. QED
    BY <1>2, <1>10, <1>13, <1>16, <2>1
<1>19. Gains(r, made)
  <2>1. made \subseteq {z}
    BY <1>13
  <2>. QED
    BY <1>1, <1>14, <1>17, <1>18, <2>1, EmittedOnce DEF Gains
<1>20. made = {u \in {Joined(command, pf, y)} : Matches(command, pf, y)}
  BY <1>13
<1>21. /\ y \in Rows(command.q) /\ y \notin Past("join")
       /\ Past("join")' = Past("join") \union {y}
       /\ Rows(command.q)' = Rows(command.q)
       /\ Gains(command.r, made)
  <2>1. command'.q = q
    BY <1>2, <1>3
  <2>2. Rows(command.q)' = Rows(command.q)
    BY <1>3, <1>12, <2>1
  <2>3. Gains(command.r, made)
    BY <1>2, <1>16, <1>19
  <2>. QED
    BY <1>2, <1>3, <1>9, <1>10, <2>2, <2>3
<1>. QED
  BY <1>8, <1>9, <1>10, <1>20, <1>21

(***************************************************************************)
(* The steps of a scan that write no row                                   *)
(***************************************************************************)
LEMMA ReadingFacts ==
    ASSUME IInv, StoreInv, AllApart, PlacesInv, NEW w \in {"scan", "join"}, Reading(w)
    PROVE \E n : /\ n = SourceOf(w) /\ n \in DOMAIN g_relations /\ RowsApart(n)
                 /\ ScanPlace(w)
<1>1. ScanPlace(w)
  BY DEF PlacesInv
<1>. QED
  BY <1>1 DEF ScanPlace, Exists, AllApart

LEMMA LoadOrSkipMoves ==
    ASSUME IInv, StoreInv, TypesInv, AllApart, PlacesInv,
           NEW v \in {"scan", "join"}, LoadBlock(v) \/ SkipSlot(v),
           NEW w \in {"scan", "join"}, Reading(w)
    PROVE ScanPlace(w)' /\ Past(w)' = Past(w)
<1>1. UNCHANGED <<storage, g_relations, pc, command>>
  BY DEF LoadBlock, SkipSlot
<1>2. PICK n \in DOMAIN g_relations : n = SourceOf(w) /\ RowsApart(n) /\ ScanPlace(w)
  BY ReadingFacts
<1>3. SourceOf(w)' = n /\ Untouched(n)
  BY <1>1, <1>2, StillUntouched DEF SourceOf, Source
<1>4. DOMAIN data_buffers = 1 .. 2 /\ DOMAIN cursor = {"scan", "join"} /\ DOMAIN cursor[w] = {"left", "slot"}
  BY DEF StoreInv, ScanInv, TypesInv, CursorTyped
<1>5. BufferOf("scan") = 2 /\ BufferOf("join") = 1
  BY DEF BufferOf
<1>6. CASE w = v /\ LoadBlock(v)
  <2>1. /\ BlockRead(w) /\ cursor[w].left # << >>
        /\ cursor'[w].left = Tail(cursor[w].left) /\ cursor'[w].slot = 1
        /\ data_buffers'[BufferOf(w)] = virtual_disk[Head(cursor[w].left)]
    BY <1>4, <1>5, <1>6 DEF LoadBlock
  <2>. QED
    BY <1>1, <1>2, <1>3, <2>1, ScanLoadsBlock
<1>7. CASE w = v /\ SkipSlot(v)
  <2>1. /\ ~ BlockRead(w) /\ AtSlot(w) = Free
        /\ cursor'[w].left = cursor[w].left /\ cursor'[w].slot = cursor[w].slot + 1
        /\ data_buffers'[BufferOf(w)] = data_buffers[BufferOf(w)]
    BY <1>4, <1>7 DEF SkipSlot, NextSlot
  <2>2. ScanPlace(w)' /\ Past(w)' = Past(w) \union ({AtSlot(w)} \ {Free})
    BY <1>1, <1>2, <1>3, <2>1, ScanMovesOn
  <2>. QED
    BY <2>1, <2>2
<1>8. CASE w # v
  <2>1. cursor'[w] = cursor[w] /\ data_buffers'[BufferOf(w)] = data_buffers[BufferOf(w)]
    BY <1>4, <1>5, <1>8 DEF LoadBlock, SkipSlot, NextSlot
  <2>2. cursor'[w].left = cursor[w].left /\ cursor'[w].slot = cursor[w].slot
    BY <2>1
  <2>. QED
    BY <1>1, <1>2, <1>3, <2>1, <2>2, ScanStands
<1>. QED
  BY <1>6, <1>7, <1>8

LEMMA PrintMoves ==
    ASSUME IInv, StoreInv, TypesInv, AllApart, PlacesInv, PrintRow
    PROVE /\ ScanPlace("scan")' /\ Past("scan")' = Past("scan") \union {AtSlot("scan")}
          /\ AtSlot("scan") \notin Past("scan")
<1>1. /\ UNCHANGED <<storage, g_relations, pc, command, data_buffers>> /\ pc = "scan"
      /\ ~ BlockRead("scan") /\ AtSlot("scan") # Free /\ NextSlot("scan")
  BY DEF PrintRow
<1>2. PICK n \in DOMAIN g_relations : n = SourceOf("scan") /\ RowsApart(n) /\ ScanPlace("scan")
  BY <1>1, ReadingFacts DEF Reading
<1>3. SourceOf("scan")' = n /\ Untouched(n)
  BY <1>1, <1>2, StillUntouched DEF SourceOf, Source
<1>4. /\ cursor'["scan"].left = cursor["scan"].left
      /\ cursor'["scan"].slot = cursor["scan"].slot + 1
  BY <1>1 DEF NextSlot, TypesInv, CursorTyped
<1>. QED
  BY <1>1, <1>2, <1>3, <1>4, ScanMovesOn

LEMMA BeginJoinMoves ==
    ASSUME IInv, DictionaryInv, StoreInv, TypesInv, AllApart, PlacesInv, BeginJoin
    PROVE /\ ScanPlace("scan")' /\ Past("scan")' = Past("scan") \union {AtSlot("scan")}
          /\ AtSlot("scan") \notin Past("scan")
          /\ ScanPlace("join")' /\ Past("join")' = {}
<1>1. /\ UNCHANGED <<storage, g_relations, command, data_buffers>>
      /\ pc = "scan" /\ pc' = "join" /\ command.verb = "NJ" /\ Scans
      /\ ~ BlockRead("scan") /\ AtSlot("scan") # Free
      /\ cursor' = [cursor EXCEPT !["scan"].slot = @ + 1, !["join"] = ScanOf(command.q)]
  BY DEF BeginJoin, Scans, Derivers
<1>2. PICK n \in DOMAIN g_relations : n = SourceOf("scan") /\ RowsApart(n) /\ ScanPlace("scan")
  BY <1>1, ReadingFacts DEF Reading
<1>3. SourceOf("scan")' = n /\ Untouched(n)
  BY <1>1, <1>2, StillUntouched DEF SourceOf, Source
<1>4. /\ cursor'["scan"].left = cursor["scan"].left
      /\ cursor'["scan"].slot = cursor["scan"].slot + 1
      /\ cursor'["join"] = ScanOf(command.q)
  BY <1>1 DEF TypesInv, CursorTyped
<1>5. PICK q \in DOMAIN g_relations : q = command.q
  BY <1>1, ScannedFacts DEF Exists
<1>6. SourceOf("join")' = q
  BY <1>1, <1>5 DEF SourceOf
<1>7. ScanPlace("join")' /\ Past("join")' = {}
  BY <1>1, <1>4, <1>5, <1>6, ScanStarts
<1>. QED
  BY <1>1, <1>2, <1>3, <1>4, <1>7, ScanMovesOn

LEMMA EndJoinMoves ==
    ASSUME IInv, StoreInv, AllApart, PlacesInv, EndJoin
    PROVE /\ ScanPlace("scan")' /\ Past("scan")' = Past("scan")
          /\ Past("join") = Rows(command.q)
<1>1. /\ UNCHANGED <<storage, g_relations, command, cursor, data_buffers>>
      /\ pc = "join" /\ pc' = "scan" /\ ScanOver("join")
  BY DEF EndJoin, scans
<1>2. PICK n \in DOMAIN g_relations : n = SourceOf("scan") /\ RowsApart(n) /\ ScanPlace("scan")
  BY <1>1, ReadingFacts DEF Reading
<1>3. SourceOf("scan")' = n /\ Untouched(n)
  BY <1>1, <1>2, StillUntouched DEF SourceOf, Source
<1>4. ScanPlace("join")
  BY <1>1 DEF PlacesInv, Reading
<1>5. Past("join") = Rows(command.q)
  BY <1>1, <1>4, NothingAhead DEF SourceOf
<1>. QED
  BY <1>1, <1>2, <1>3, <1>5, ScanStands

\* A scan begins with every row ahead of it.
LEMMA ScanBeginning ==
    ASSUME IInv, TypesInv, UNCHANGED <<storage, g_relations>>, NEW n, Exists(n),
           pc' \in {"scan", "second"}, n = IF pc' = "second" THEN command'.q ELSE command'.p,
           cursor' = [cursor EXCEPT !["scan"] = ScanOf(n)]
    PROVE ScanPlace("scan")' /\ Past("scan")' = {}
<1>1. SourceOf("scan")' = n
  BY DEF SourceOf, Source
<1>2. cursor'["scan"] = ScanOf(n)
  BY DEF TypesInv, CursorTyped
<1>. QED
  BY <1>1, <1>2, ScanStarts DEF Exists

LEMMA ApartStep ==
    ASSUME HashInRange, IInv, IInv', DictionaryInv, StoreInv, StoreInv', TypesInv, DescribedInv',
           PlacesInv, AllApart, ResolvedInv, ResultInv, [Next]_vars
    PROVE AllApart'
<1>. SUFFICES ASSUME NEW n \in DOMAIN g_relations' PROVE RowsApart(n)'
  BY DEF AllApart
<1>1. CASE n \in Dictionaries
  BY <1>1 DEF DescribedInv
<1>2. ASSUME n \in DOMAIN g_relations, Untouched(n) PROVE RowsApart(n)'
  BY <1>2, SameRowsApart DEF AllApart
<1>3. CASE DeriveRow \/ JoinRow
  <2>1. UNCHANGED g_relations /\ \A m \in DOMAIN g_relations \ {command.r} : Untouched(m)
    BY <1>3, OnlyResultWritten
  <2>2. RowsApart(command.r)'
    BY <1>3, DeriveMoves, JoinMoves DEF Gains
  <2>3. command' = command
    BY <1>3 DEF DeriveRow, JoinRow
  <2>. QED
    BY <1>2, <2>1, <2>2, <2>3
<1>4. CASE CarryOutLine /\ n \notin Dictionaries
  <2>1. UNCHANGED <<g_relations, command>> /\ pc = "lines"
    BY <1>4 DEF CarryOutLine
  <2>2. PICK t \in DOMAIN g_relations : t = command.p /\ g_relations[t].is_base /\ AppendEffect(t)
    BY <1>4, <2>1, LineWrote DEF StoreInv, CommandInv, Wrote
  <2>3. \A m \in DOMAIN g_relations \ {t} : Untouched(m)
    BY <2>1, <2>2, WriteFrame
  <2>4. CASE n = t
    <3>1. KeysApart(n)'
      BY <1>4, <2>1, <2>2, <2>4, DictionaryFacts DEF StoreInv, RowsInv, RowsSound, Dictionaries
    <3>. QED
      BY <3>1 DEF KeysApart, RowsApart, KeyAt
  <2>. QED
    BY <1>2, <2>1, <2>3, <2>4
<1>5. ASSUME NEW c \in Commands, BeginCreate(c) PROVE RowsApart(n)'
  <2>1. CASE n \in DOMAIN g_relations
    BY <1>2, <1>5, <2>1, CreateFrame
  <2>2. CASE n \notin DOMAIN g_relations
    <3>1. Cardinality(DOMAIN g_relations) < MAX_REL
      BY <1>5, <2>2 DEF BeginCreate
    <3>2. RowBlocks(n)' = {}
      BY <1>5, <2>2, <3>1, Created
    <3>. QED
      BY <3>2 DEF RowsApart
  <2>. QED
    BY <2>1, <2>2
<1>6. ASSUME NEW c \in Commands, Delete(c), n \notin Dictionaries PROVE RowsApart(n)'
  <2>1. n \in DOMAIN g_relations /\ n # c.p
    BY <1>6 DEF Delete
  <2>. QED
    BY <1>2, <1>6, <2>1, DeleteFrame DEF Dictionaries
<1>7. CASE NoneWritten /\ n \notin Dictionaries
  BY <1>2, <1>7, DictionaryFacts DEF NoneWritten, Dictionaries
<1>. QED
  BY <1>1, <1>3, <1>4, <1>5, <1>6, <1>7, StepWrites

(***************************************************************************)
(* Every step keeps the places of the scans, the result and what is        *)
(* printed                                                                 *)
(***************************************************************************)
\* The steps after which a scan goes on, by what they do to it.
LEMMA ReadingAfter ==
    ASSUME IInv, [Next]_vars, NEW w \in {"scan", "join"}, Reading(w)'
    PROVE \/ \E v \in {"scan", "join"} : (LoadBlock(v) \/ SkipSlot(v)) /\ Reading(w)
          \/ PrintRow /\ w = "scan" /\ Reading(w)
          \/ DeriveRow /\ w = "scan"
          \/ JoinRow
          \/ BeginJoin
          \/ EndJoin /\ w = "scan"
          \/ BeginSecond /\ w = "scan"
          \/ EndDictionary /\ command.verb # "CR" /\ w = "scan"
          \/ \E c \in Commands : BeginPrint(c) /\ w = "scan"
          \/ UNCHANGED vars
<1>1. pc' \in {"scan", "second", "join"} /\ (w = "join" => pc' = "join")
  BY DEF Reading
<1>2. ASSUME NEW c \in Commands, BeginCreate(c) PROVE UNCHANGED vars \/ FALSE
  <2>1. pc = "idle" /\ pc' \in {"idle", "dictionary"}
    <3>1. CASE Cardinality(DOMAIN g_relations) < MAX_REL
      BY <1>2, <3>1 DEF BeginCreate
    <3>2. CASE ~ (Cardinality(DOMAIN g_relations) < MAX_REL)
      BY <1>2, <3>2 DEF BeginCreate
    <3>. QED
      BY <3>1, <3>2
  <2>. QED
    BY <1>1, <2>1
<1>3. ASSUME NEW c \in Commands, Delete(c) \/ BeginLines(c) PROVE FALSE
  BY <1>1, <1>3 DEF Delete, BeginLines
<1>4. ASSUME NEW c \in Commands, BeginPrint(c) PROVE w = "scan"
  BY <1>1, <1>4 DEF BeginPrint
<1>5. ASSUME NEW c \in Commands, Refuse(c) PROVE UNCHANGED vars
  BY <1>5 DEF Refuse
<1>6. ASSUME CarryOutLine \/ EndLines \/ Describe \/ EndScan PROVE FALSE
  BY <1>1, <1>6 DEF CarryOutLine, EndLines, Describe, EndScan, EndCommand
<1>7. ASSUME EndDictionary PROVE command.verb # "CR" /\ w = "scan"
  BY <1>1, <1>7 DEF EndDictionary, EndCommand
<1>8. ASSUME NEW v \in {"scan", "join"}, LoadBlock(v) \/ SkipSlot(v) PROVE Reading(w)
  BY <1>1, <1>8 DEF LoadBlock, SkipSlot, Reading
<1>9. ASSUME PrintRow \/ DeriveRow \/ EndJoin \/ BeginSecond PROVE w = "scan"
  BY <1>1, <1>9 DEF PrintRow, DeriveRow, EndJoin, BeginSecond
<1>10. ASSUME PrintRow PROVE Reading(w)
  BY <1>1, <1>10 DEF PrintRow, Reading
<1>. QED
  BY <1>2, <1>3, <1>4, <1>5, <1>6, <1>7, <1>8, <1>9, <1>10 DEF Next

\* Where a scan begins.
LEMMA ScanBegun ==
    ASSUME IInv, DictionaryInv, StoreInv, TypesInv, VerbsInv,
           \/ BeginSecond
           \/ EndDictionary /\ command.verb # "CR"
           \/ \E c \in Commands : BeginPrint(c)
    PROVE ScanPlace("scan")' /\ Past("scan")' = {} /\ UNCHANGED <<storage, g_relations>>
<1>1. CASE BeginSecond
  <2>1. /\ UNCHANGED <<storage, g_relations, command>> /\ pc' = "second" /\ Scans
        /\ command.verb = "UN" /\ cursor' = [cursor EXCEPT !["scan"] = ScanOf(command.q)]
    BY <1>1 DEF BeginSecond, Scans, Derivers
  <2>2. PICK n : n = command.q
    OBVIOUS
  <2>3. Exists(n)
    BY <2>1, <2>2, ScannedFacts
  <2>. QED
    BY <2>1, <2>2, <2>3, ScanBeginning
<1>2. CASE EndDictionary /\ command.verb # "CR"
  <2>1. /\ UNCHANGED <<storage, g_relations, command>> /\ pc = "dictionary" /\ pc' = "scan"
        /\ cursor' = [cursor EXCEPT !["scan"] = ScanOf(command.p)]
    BY <1>2 DEF EndDictionary
  <2>2. PICK n : n = command.p
    OBVIOUS
  <2>3. Exists(n)
    BY <1>2, <2>1, <2>2 DEF VerbsInv, Makers, Derivers, StoreInv, CommandInv, Deriving
  <2>. QED
    BY <2>1, <2>2, <2>3, ScanBeginning
<1>3. ASSUME NEW c \in Commands, BeginPrint(c)
      PROVE ScanPlace("scan")' /\ Past("scan")' = {} /\ UNCHANGED <<storage, g_relations>>
  <2>1. /\ UNCHANGED <<storage, g_relations>> /\ pc' = "scan" /\ command' = c
        /\ cursor' = [cursor EXCEPT !["scan"] = ScanOf(c.p)] /\ Exists(c.p)
    BY <1>3 DEF BeginPrint, Accepted
  <2>2. PICK n : n = c.p
    OBVIOUS
  <2>. QED
    BY <2>1, <2>2, ScanBeginning
<1>. QED
  BY <1>1, <1>2, <1>3

LEMMA StutterMoves ==
    ASSUME IInv, StoreInv, AllApart, PlacesInv, UNCHANGED vars,
           NEW w \in {"scan", "join"}, Reading(w)
    PROVE ScanPlace(w)' /\ Past(w)' = Past(w)
<1>1. UNCHANGED <<storage, g_relations, data_buffers, cursor, pc, command>>
  BY DEF vars, scans
<1>2. PICK n \in DOMAIN g_relations : n = SourceOf(w) /\ ScanPlace(w)
  BY ReadingFacts
<1>3. SourceOf(w)' = n /\ Untouched(n)
  BY <1>1, <1>2, StillUntouched DEF SourceOf, Source
<1>. QED
  BY <1>1, <1>2, <1>3, ScanStands

LEMMA PlacesStep ==
    ASSUME HashInRange, IInv, IInv', DictionaryInv, StoreInv, TypesInv, VerbsInv,
           PlacesInv, AllApart, ResolvedInv, ResultInv, [Next]_vars
    PROVE PlacesInv'
<1>. SUFFICES ASSUME NEW w \in {"scan", "join"}, Reading(w)' PROVE ScanPlace(w)'
  BY DEF PlacesInv
<1>1. ASSUME NEW v \in {"scan", "join"}, LoadBlock(v) \/ SkipSlot(v), Reading(w) PROVE ScanPlace(w)'
  BY <1>1, LoadOrSkipMoves
<1>2. CASE PrintRow /\ w = "scan"
  BY <1>2, PrintMoves
<1>3. CASE DeriveRow /\ w = "scan"
  BY <1>3, DeriveMoves
<1>4. CASE JoinRow
  BY <1>4, JoinMoves
<1>5. CASE BeginJoin
  BY <1>5, BeginJoinMoves
<1>6. CASE EndJoin /\ w = "scan"
  BY <1>6, EndJoinMoves
<1>7. ASSUME \/ BeginSecond
             \/ EndDictionary /\ command.verb # "CR"
             \/ \E c \in Commands : BeginPrint(c)
      PROVE ScanPlace("scan")'
  BY <1>7, ScanBegun
<1>8. CASE UNCHANGED vars
  BY <1>8, StutterMoves DEF Reading, vars
<1>. QED
  BY <1>1, <1>2, <1>3, <1>4, <1>5, <1>6, <1>7, <1>8, ReadingAfter

LEMMA StillRefuses ==
    ASSUME NEW n, UNCHANGED <<storage, g_relations>>
    PROVE MayRefuse(n)' = MayRefuse(n) /\ Rows(n)' = Rows(n)
<1>1. Rows(n)' = Rows(n)
  BY StillUntouched, SameRows
<1>. QED
  BY <1>1 DEF MayRefuse, Capacity, storage

LEMMA DueStands ==
    ASSUME HoldsDue, UNCHANGED <<storage, g_relations, command>>, Due' = Due
    PROVE HoldsDue'
<1>1. PICK r : r = command.r
  OBVIOUS
<1>2. MayRefuse(r)' = MayRefuse(r) /\ Rows(r)' = Rows(r)
  BY StillRefuses
<1>. QED
  BY <1>1, <1>2 DEF HoldsDue

LEMMA DueGrows ==
    ASSUME HoldsDue, UNCHANGED command, NEW made, Gains(command.r, made), Due' = Due \union made
    PROVE HoldsDue'
<1>1. PICK r : r = command.r
  OBVIOUS
<1>2. Gains(r, made)
  BY <1>1
<1>3. /\ Rows(r)' \subseteq Due'
      /\ Due' \subseteq Rows(r)' \/ MayRefuse(r)'
  BY <1>1, <1>2 DEF HoldsDue, Gains
<1>. QED
  BY <1>1, <1>3 DEF HoldsDue

LEMMA DerivedStays ==
    ASSUME UNCHANGED <<g_relations, command, pc>>, NEW row,
           command.verb \in {"PJ", "SL", "UN", "DF"},
           command.verb = "DF" => Rows(command.q)' = Rows(command.q)
    PROVE Derived(row)' = Derived(row)
<1>1. \A x : /\ Projected(command, x)' = Projected(command, x)
             /\ Meets(command, x)' = Meets(command, x)
             /\ Mapped(command, x)' = Mapped(command, x)
  BY DEF Projected, Meets, Mapped, AttrsOf
<1>2. CASE command.verb = "PJ"
  BY <1>1, <1>2 DEF Derived
<1>3. CASE command.verb = "SL"
  BY <1>1, <1>3 DEF Derived
<1>4. CASE command.verb = "UN"
  BY <1>1, <1>4 DEF Derived
<1>5. CASE command.verb = "DF"
  BY <1>1, <1>5 DEF Derived
<1>. QED
  BY <1>2, <1>3, <1>4, <1>5

LEMMA JoiningStays ==
    ASSUME UNCHANGED <<g_relations, command>>, NEW x, NEW y
    PROVE /\ Joined(command, x, y)' = Joined(command, x, y)
          /\ Matches(command, x, y)' = Matches(command, x, y)
BY DEF Joined, Matches, Rest, AttrsOf

\* What is due after a step that reads no row.
LEMMA DueSame ==
    ASSUME UNCHANGED <<storage, g_relations, command, pc, pf>>, command.verb \in Derivers,
           Past("scan")' = Past("scan"), pc = "join" => Past("join")' = Past("join")
    PROVE Due' = Due
<1>1. \A n : Rows(n)' = Rows(n)
  BY StillRefuses
<1>2. Rows(command.q)' = Rows(command.q) /\ Rows(command.p)' = Rows(command.p)
  BY <1>1
<1>3. CASE command.verb = "NJ"
  <2>1. Pairs' = Pairs
    BY <1>2, JoiningStays DEF Pairs
  <2>2. \A x, y : Joined(command, x, y)' = Joined(command, x, y)
    BY JoiningStays
  <2>3. Due' = {Joined(command, xy[1], xy[2])' : xy \in Pairs'}
    BY <1>3 DEF Due
  <2>4. Due = {Joined(command, xy[1], xy[2]) : xy \in Pairs}
    BY <1>3 DEF Due
  <2>. QED
    BY <2>1, <2>2, <2>3, <2>4
<1>4. CASE command.verb # "NJ"
  <2>1. \A x : Derived(x)' = Derived(x)
    BY <1>2, <1>4, DerivedStays DEF Derivers
  <2>. QED
    BY <1>2, <1>4, <2>1 DEF Due
<1>. QED
  BY <1>3, <1>4

LEMMA DeriveDue ==
    ASSUME HashInRange, IInv, IInv', DictionaryInv, StoreInv, TypesInv,
           PlacesInv, AllApart, ResolvedInv, ResultInv, DeriveRow
    PROVE HoldsDue' /\ pc' # "join"
<1>1. /\ UNCHANGED g_relations /\ Scans
      /\ \A n \in DOMAIN g_relations \ {command.r} : Untouched(n)
  BY OnlyResultWritten
<1>2. /\ pc \in {"scan", "second"} /\ command.verb \in {"PJ", "SL", "UN", "DF"}
      /\ UNCHANGED <<pc, command>>
  BY DEF DeriveRow
<1>3. PICK row : row = AtSlot("scan")
  OBVIOUS
<1>4. /\ Past("scan")' = Past("scan") \union {row}
      /\ Gains(command.r, Derived(row))
  BY <1>3, DeriveMoves
<1>5. command.verb = "DF" => Rows(command.q)' = Rows(command.q)
  <2>. SUFFICES ASSUME command.verb = "DF" PROVE Rows(command.q)' = Rows(command.q)
    OBVIOUS
  <2>1. PICK q : q = command.q
    OBVIOUS
  <2>2. Untouched(q)
    BY <1>1, <2>1, ScannedFacts DEF Exists
  <2>3. Rows(q)' = Rows(q)
    BY <2>2, SameRows
  <2>. QED
    BY <1>2, <2>1, <2>3
<1>6. pc = "second" => Rows(command.p)' = Rows(command.p)
  <2>1. PICK p : p = command.p
    OBVIOUS
  <2>2. Untouched(p)
    BY <1>1, <2>1, ScannedFacts DEF Exists
  <2>3. Rows(p)' = Rows(p)
    BY <2>2, SameRows
  <2>. QED
    BY <1>2, <2>1, <2>3
<1>7. \A x : Derived(x)' = Derived(x)
  BY <1>1, <1>2, <1>5, DerivedStays
<1>8. Due' = Due \union Derived(row)
  BY <1>2, <1>4, <1>6, <1>7 DEF Due
<1>9. HoldsDue
  BY <1>1 DEF ResultInv
<1>. QED
  BY <1>2, <1>4, <1>8, <1>9, DueGrows

LEMMA JoinDue ==
    ASSUME HashInRange, IInv, IInv', DictionaryInv, StoreInv, TypesInv,
           PlacesInv, AllApart, ResultInv, JoinRow
    PROVE HoldsDue' /\ pf' \in Past("scan")'
<1>1. UNCHANGED g_relations /\ Scans
  BY OnlyResultWritten
<1>2. pc = "join" /\ command.verb = "NJ" /\ UNCHANGED <<pc, command, pf>>
  BY DEF JoinRow, IInv, TargetsExist
<1>3. PICK y, made :
          /\ y \in Rows(command.q) /\ y \notin Past("join")
          /\ made = {z \in {Joined(command, pf, y)} : Matches(command, pf, y)}
          /\ Past("scan")' = Past("scan")
          /\ Past("join")' = Past("join") \union {y}
          /\ Rows(command.q)' = Rows(command.q)
          /\ Gains(command.r, made)
  BY JoinMoves
<1>4. pf \in Past("scan") /\ HoldsDue
  BY <1>1, <1>2 DEF ResultInv
<1>5. Pairs' = Pairs \union {xy \in {<<pf, y>>} : Matches(command, pf, y)}
  <2>. DEFINE New == {xy \in {<<pf, y>>} : Matches(command, pf, y)}
  <2>1. \A a, b : Matches(command, a, b)' = Matches(command, a, b)
    BY <1>1, <1>2, JoiningStays
  <2>2. Pairs = {xy \in Past("scan") \X Rows(command.q) :
                    Matches(command, xy[1], xy[2]) /\ (xy[1] = pf => xy[2] \in Past("join"))}
    BY <1>2 DEF Pairs
  <2>3. Pairs' = {xy \in Past("scan") \X Rows(command.q) :
                     Matches(command, xy[1], xy[2])
                       /\ (xy[1] = pf => xy[2] \in Past("join") \union {y})}
    BY <1>2, <1>3, <2>1 DEF Pairs
  <2>4. ASSUME NEW a, NEW b PROVE <<a, b>> \in Pairs' <=> <<a, b>> \in Pairs \/ <<a, b>> \in New
    BY <1>3, <1>4, <2>2, <2>3
  <2>5. \A xy \in Pairs' \union Pairs \union New : \E a, b : xy = <<a, b>>
    BY <2>2, <2>3
  <2>. QED
    BY <2>4, <2>5
<1>6. Due' = Due \union made
  <2>1. \A a, b : Joined(command, a, b)' = Joined(command, a, b)
    BY <1>1, <1>2, JoiningStays
  <2>2. Due' = {Joined(command, xy[1], xy[2]) : xy \in Pairs'}
    BY <1>2, <2>1 DEF Due
  <2>3. Due = {Joined(command, xy[1], xy[2]) : xy \in Pairs}
    BY <1>2 DEF Due
  <2>4. ASSUME NEW z PROVE z \in Due' <=> z \in Due \/ z \in made
    <3>1. z \in made <=> Matches(command, pf, y) /\ z = Joined(command, pf, y)
      BY <1>3
    <3>2. z \in Due' <=> \E xy \in Pairs' : z = Joined(command, xy[1], xy[2])
      BY <2>2
    <3>3. z \in Due <=> \E xy \in Pairs : z = Joined(command, xy[1], xy[2])
      BY <2>3
    <3>4. \A xy : xy \in Pairs' <=> xy \in Pairs \/ (xy = <<pf, y>> /\ Matches(command, pf, y))
      BY <1>5
    <3>5. (\E xy \in Pairs' : z = Joined(command, xy[1], xy[2]))
            <=> \/ \E xy \in Pairs : z = Joined(command, xy[1], xy[2])
                \/ Matches(command, pf, y) /\ z = Joined(command, pf, y)
      <4>. DEFINE J(u) == Joined(command, u[1], u[2])
      <4>1. PICK new : new = <<pf, y>>
        OBVIOUS
      <4>2. J(new) = Joined(command, pf, y)
        BY <4>1
      <4>. HIDE DEF J
      <4>3. (\E xy \in Pairs' : z = J(xy))
              <=> (\E xy \in Pairs : z = J(xy)) \/ (Matches(command, pf, y) /\ z = J(new))
        BY <3>4, <4>1
      <4>. QED
        BY <4>2, <4>3 DEF J
    <3>. QED
      BY <3>1, <3>2, <3>3, <3>5
  <2>. QED
    BY <2>4
<1>. QED
  BY <1>2, <1>3, <1>4, <1>6, DueGrows

LEMMA BeginJoinDue ==
    ASSUME IInv, DictionaryInv, StoreInv, TypesInv, PlacesInv, AllApart, ResultInv, BeginJoin
    PROVE HoldsDue' /\ pf' \in Past("scan")'
<1>1. /\ UNCHANGED <<storage, g_relations, command>> /\ pf' = AtSlot("scan")
      /\ pc = "scan" /\ pc' = "join" /\ command.verb = "NJ" /\ Scans
  BY DEF BeginJoin, Scans, Derivers
<1>2. /\ Past("scan")' = Past("scan") \union {pf'} /\ pf' \notin Past("scan")
      /\ Past("join")' = {}
  BY <1>1, BeginJoinMoves
<1>3. Rows(command.q)' = Rows(command.q)
  <2>1. PICK q : q = command.q
    OBVIOUS
  <2>2. Rows(q)' = Rows(q)
    BY <1>1, StillRefuses
  <2>. QED
    BY <1>1, <2>1, <2>2
<1>4. \A a, b : /\ Matches(command, a, b)' = Matches(command, a, b)
                /\ Joined(command, a, b)' = Joined(command, a, b)
  BY <1>1, JoiningStays
<1>5. Pairs' = Pairs
  <2>1. Pairs = {xy \in Past("scan") \X Rows(command.q) : Matches(command, xy[1], xy[2])}
    BY <1>1 DEF Pairs
  <2>2. Pairs' = {xy \in (Past("scan") \union {pf'}) \X Rows(command.q) :
                     Matches(command, xy[1], xy[2]) /\ ~ (xy[1] = pf')}
    BY <1>1, <1>2, <1>3, <1>4 DEF Pairs
  <2>3. ASSUME NEW a, NEW b PROVE <<a, b>> \in Pairs' <=> <<a, b>> \in Pairs
    BY <1>2, <2>1, <2>2
  <2>4. \A xy \in Pairs' \union Pairs : \E a, b : xy = <<a, b>>
    BY <2>1, <2>2
  <2>. QED
    BY <2>3, <2>4
<1>6. Due' = Due
  <2>1. Due' = {Joined(command, xy[1], xy[2]) : xy \in Pairs'}
    BY <1>1, <1>4 DEF Due
  <2>2. Due = {Joined(command, xy[1], xy[2]) : xy \in Pairs}
    BY <1>1 DEF Due
  <2>. QED
    BY <1>5, <2>1, <2>2
<1>. QED
  BY <1>1, <1>2, <1>6, DueStands DEF ResultInv

LEMMA EndJoinDue ==
    ASSUME IInv, StoreInv, PlacesInv, AllApart, ResultInv, EndJoin
    PROVE HoldsDue' /\ pc' # "join"
<1>1. /\ UNCHANGED <<storage, g_relations, command, pf>>
      /\ pc = "join" /\ pc' = "scan" /\ command.verb = "NJ" /\ Scans
  BY DEF EndJoin, scans, Scans, Derivers, IInv, TargetsExist
<1>2. Past("scan")' = Past("scan") /\ Past("join") = Rows(command.q)
  BY EndJoinMoves
<1>3. Rows(command.q)' = Rows(command.q)
  <2>1. PICK q : q = command.q
    OBVIOUS
  <2>2. Rows(q)' = Rows(q)
    BY <1>1, StillRefuses
  <2>. QED
    BY <1>1, <2>1, <2>2
<1>4. \A a, b : /\ Matches(command, a, b)' = Matches(command, a, b)
                /\ Joined(command, a, b)' = Joined(command, a, b)
  BY <1>1, JoiningStays
<1>5. Pairs' = Pairs
  <2>1. Pairs = {xy \in Past("scan") \X Rows(command.q) : Matches(command, xy[1], xy[2])}
    BY <1>1, <1>2 DEF Pairs
  <2>2. Pairs' = {xy \in Past("scan") \X Rows(command.q) : Matches(command, xy[1], xy[2])}
    BY <1>1, <1>2, <1>3, <1>4 DEF Pairs
  <2>. QED
    BY <2>1, <2>2
<1>6. Due' = Due
  <2>1. Due' = {Joined(command, xy[1], xy[2]) : xy \in Pairs'}
    BY <1>1, <1>4 DEF Due
  <2>2. Due = {Joined(command, xy[1], xy[2]) : xy \in Pairs}
    BY <1>1 DEF Due
  <2>. QED
    BY <1>5, <2>1, <2>2
<1>. QED
  BY <1>1, <1>6, DueStands DEF ResultInv

\* UN is due the rows of its first relation when the scan of that is over.
LEMMA SecondDue ==
    ASSUME IInv, DictionaryInv, StoreInv, TypesInv, VerbsInv, PlacesInv, ResultInv, BeginSecond
    PROVE HoldsDue' /\ pc' # "join"
<1>1. /\ UNCHANGED <<storage, g_relations, command>> /\ pc = "scan" /\ pc' = "second"
      /\ command.verb = "UN" /\ ScanOver("scan") /\ Scans
  BY DEF BeginSecond, Scans, Derivers
<1>2. Past("scan")' = {}
  BY ScanBegun
<1>3. ScanPlace("scan") /\ SourceOf("scan") = command.p
  BY <1>1 DEF PlacesInv, Reading, SourceOf, Source
<1>4. Past("scan") = Rows(command.p)
  BY <1>1, <1>3, NothingAhead
<1>5. Rows(command.p)' = Rows(command.p)
  <2>1. PICK p : p = command.p
    OBVIOUS
  <2>2. Rows(p)' = Rows(p)
    BY <1>1, StillRefuses
  <2>. QED
    BY <1>1, <2>1, <2>2
<1>6. Due' = Due
  <2>1. Due' = Rows(command.p)
    BY <1>1, <1>2, <1>5 DEF Due
  <2>2. \A row : Derived(row) = {row}
    BY <1>1, DerivedCases
  <2>3. Due = UNION {{row} : row \in Rows(command.p)}
    BY <1>1, <1>4, <2>2 DEF Due
  <2>. QED
    BY <2>1, <2>3
<1>. QED
  BY <1>1, <1>6, DueStands DEF ResultInv

LEMMA FirstDue ==
    ASSUME IInv, DictionaryInv, StoreInv, TypesInv, VerbsInv, ResultInv,
           EndDictionary, command.verb # "CR"
    PROVE HoldsDue' /\ pc' # "join"
<1>1. /\ UNCHANGED <<storage, g_relations, command>> /\ pc = "dictionary" /\ pc' = "scan"
  BY DEF EndDictionary
<1>2. command.verb \in Derivers
  BY <1>1 DEF VerbsInv, Makers, Derivers
<1>3. Past("scan")' = {}
  BY ScanBegun
<1>4. PICK r : r = command.r
  OBVIOUS
<1>5. Rows(r) = {} /\ Rows(r)' = Rows(r)
  BY <1>1, <1>2, <1>4, StillRefuses DEF ResultInv
<1>6. Rows(command.r)' = {}
  BY <1>1, <1>4, <1>5
<1>7. Due' = {}
  <2>1. CASE command.verb = "NJ"
    <3>1. Pairs' = {}
      BY <1>3 DEF Pairs
    <3>. QED
      BY <1>1, <2>1, <3>1 DEF Due
  <2>2. CASE command.verb # "NJ"
    BY <1>1, <1>3, <2>2 DEF Due
  <2>. QED
    BY <2>1, <2>2
<1>. QED
  BY <1>1, <1>6, <1>7 DEF HoldsDue

LEMMA ScansDue ==
    ASSUME HashInRange, IInv, IInv', DictionaryInv, StoreInv, TypesInv, VerbsInv,
           PlacesInv, AllApart, ResolvedInv, ResultInv, [Next]_vars, Scans'
    PROVE HoldsDue' /\ (pc' = "join" => pf' \in Past("scan")')
<1>1. Reading("scan")'
  BY DEF Scans, Reading
<1>2. ASSUME NEW v \in {"scan", "join"}, LoadBlock(v) \/ SkipSlot(v), Reading("scan")
      PROVE HoldsDue' /\ (pc' = "join" => pf' \in Past("scan")')
  <2>1. UNCHANGED <<storage, g_relations, command, pc, pf>>
    BY <1>2 DEF LoadBlock, SkipSlot
  <2>2. Past("scan")' = Past("scan")
    BY <1>2, LoadOrSkipMoves
  <2>3. pc = "join" => Past("join")' = Past("join")
    BY <1>2, LoadOrSkipMoves DEF Reading
  <2>4. Scans
    BY <2>1 DEF Scans
  <2>5. Due' = Due
    BY <2>1, <2>2, <2>3, <2>4, DueSame DEF Scans
  <2>. QED
    BY <2>1, <2>2, <2>4, <2>5, DueStands DEF ResultInv
<1>3. CASE UNCHANGED vars
  <2>1. UNCHANGED <<storage, g_relations, command, pc, pf>> /\ Scans
    BY <1>3 DEF vars, scans, Scans
  <2>2. Past("scan")' = Past("scan")
    BY <1>3, <2>1, StutterMoves DEF Scans, Reading
  <2>3. pc = "join" => Past("join")' = Past("join")
    BY <1>3, StutterMoves DEF Reading
  <2>4. Due' = Due
    BY <2>1, <2>2, <2>3, DueSame DEF Scans
  <2>. QED
    BY <2>1, <2>2, <2>4, DueStands DEF ResultInv
<1>4. ASSUME PrintRow \/ \E c \in Commands : BeginPrint(c) PROVE FALSE
  BY <1>4 DEF PrintRow, BeginPrint, Scans, Derivers
<1>. QED
  BY <1>1, <1>2, <1>3, <1>4, DeriveDue, JoinDue, BeginJoinDue, EndJoinDue, SecondDue, FirstDue,
     ReadingAfter

LEMMA ResultStep ==
    ASSUME HashInRange, IInv, IInv', DictionaryInv, StoreInv, TypesInv, VerbsInv,
           PlacesInv, AllApart, ResolvedInv, ResultInv, [Next]_vars
    PROVE ResultInv'
<1>1. ASSUME pc' = "dictionary", command'.verb \in Derivers PROVE Rows(command.r)' = {}
  <2>1. Deriving'
    BY <1>1 DEF Deriving
  <2>2. CASE Deriving /\ UNCHANGED <<g_relations, command>>
    <3>1. pc = "dictionary"
      <4>1. ASSUME NEW c \in Commands, BeginCreate(c) \/ Refuse(c) \/ Delete(c) \/ BeginLines(c) \/ BeginPrint(c)
            PROVE FALSE
        BY <2>2, <4>1 DEF BeginCreate, Refuse, Delete, BeginLines, BeginPrint, Deriving
      <4>2. ASSUME EndLines \/ EndDictionary \/ EndScan \/ BeginSecond \/ BeginJoin \/ EndJoin
            PROVE FALSE
        BY <1>1, <4>2 DEF EndLines, EndDictionary, EndScan, EndCommand, BeginSecond, BeginJoin, EndJoin
      <4>3. ASSUME \/ CarryOutLine \/ Describe \/ PrintRow \/ DeriveRow \/ JoinRow
                   \/ \E w \in {"scan", "join"} : LoadBlock(w) \/ SkipSlot(w)
            PROVE UNCHANGED pc
        BY <4>3 DEF CarryOutLine, Describe, PrintRow, DeriveRow, JoinRow, LoadBlock, SkipSlot
      <4>. QED
        BY <1>1, <4>1, <4>2, <4>3 DEF Next, vars
    <3>2. PICK r : r = command.r
      OBVIOUS
    <3>3. Rows(r) = {} /\ r \in DOMAIN g_relations \ DOMAIN Dictionary
      BY <2>2, <3>1, <3>2 DEF Deriving, ResultInv, IInv, TargetsExist, DictionaryInv, Exists, IsDictionary
    <3>4. NoneWritten
      <4>1. ~ (CarryOutLine \/ DeriveRow \/ JoinRow)
        BY <3>1 DEF CarryOutLine, DeriveRow, JoinRow
      <4>2. \A c \in Commands : ~ (BeginCreate(c) \/ Delete(c))
        BY <3>1 DEF BeginCreate, Delete
      <4>. QED
        BY <4>1, <4>2, StepWrites
    <3>5. Rows(r)' = Rows(r)
      BY <3>3, <3>4, SameRows DEF NoneWritten
    <3>. QED
      BY <2>2, <3>2, <3>3, <3>5
  <2>3. ASSUME NEW c \in Commands, BeginCreate(c), Cardinality(DOMAIN g_relations) < MAX_REL
        PROVE Rows(command.r)' = {}
    <3>1. PICK name : name = ResultName(c) /\ RowBlocks(name)' = {}
      BY <2>3, Created
    <3>2. command' = c
      BY <2>3 DEF BeginCreate
    <3>3. c.r = name
      BY <1>1, <3>1, <3>2 DEF ResultName, Derivers
    <3>4. Rows(name)' = {}
      BY <3>1 DEF Rows
    <3>. QED
      BY <3>2, <3>3, <3>4
  <2>. QED
    BY <2>1, <2>2, <2>3, DerivingGoesOn
<1>2. pc' = "join" => Scans'
  <2>1. pc' = "join" => command'.verb = "NJ"
    BY DEF IInv, TargetsExist
  <2>. QED
    BY <2>1 DEF Scans, Derivers
<1>. QED
  BY <1>1, <1>2, ScansDue DEF ResultInv

(***************************************************************************)
(* What is printed                                                         *)
(***************************************************************************)
\* While a PR scans, the rows it has read are printed, and each once.
PrintInv ==
    IF pc = "scan" /\ command.verb = "PR"
    THEN /\ IsSequence(printed) /\ Range(printed) = Past("scan")
         /\ Len(printed) = Cardinality(Range(printed))
    ELSE printed = << >>

LEMMA PastFinite ==
    ASSUME IInv, StoreInv, AllApart, PlacesInv, NEW w \in {"scan", "join"}, Reading(w)
    PROVE IsFiniteSet(Past(w))
<1>1. PICK n \in DOMAIN g_relations : n = SourceOf(w)
  BY ReadingFacts
<1>2. Past(w) \subseteq Rows(n)
  BY <1>1 DEF Past
<1>3. IsFiniteSet(Rows(n))
  BY RowsFinite
<1>. QED
  BY <1>2, <1>3, FS_Subset

LEMMA AppendRange ==
    ASSUME NEW s, IsSequence(s), NEW x
    PROVE /\ IsSequence(Append(s, x)) /\ Range(Append(s, x)) = Range(s) \union {x}
          /\ Len(s) \in Nat /\ Len(Append(s, x)) = Len(s) + 1
<1>1. PICK T : T = Range(s) \union {x}
  OBVIOUS
<1>2. s \in Seq(T) /\ x \in T /\ Len(s) \in Nat /\ DOMAIN s = 1 .. Len(s)
  BY <1>1, SeqMonotonic, LenProperties DEF IsSequence
<1>3. PICK k, z : k = Len(s) /\ z = Append(s, x)
  OBVIOUS
<1>4. /\ z \in Seq(T) /\ Len(z) = k + 1 /\ k \in Nat
      /\ \A i \in 1 .. k : z[i] = s[i]
      /\ z[k + 1] = x
  BY <1>2, <1>3, AppendProperties
<1>5. DOMAIN z = 1 .. k + 1
  BY <1>4, LenProperties
<1>6. Range(z) = T
  <2>1. \A i \in 1 .. k + 1 : i \in 1 .. k \/ i = k + 1
    BY <1>4
  <2>2. \A i \in 1 .. k : i \in 1 .. k + 1
    BY <1>4
  <2>3. k + 1 \in 1 .. k + 1
    BY <1>4
  <2>4. Range(s) = {s[i] : i \in 1 .. k} /\ Range(z) = {z[i] : i \in 1 .. k + 1}
    BY <1>2, <1>3, <1>5 DEF Range
  <2>5. ASSUME NEW y PROVE y \in Range(z) <=> y \in T
    BY <1>1, <1>4, <2>1, <2>2, <2>3, <2>4
  <2>. QED
    BY <2>5
<1>. QED
  BY <1>1, <1>3, <1>4, <1>6 DEF IsSequence

LEMMA PrintStep ==
    ASSUME IInv, DictionaryInv, StoreInv, TypesInv, VerbsInv, PlacesInv, AllApart, PrintInv,
           [Next]_vars
    PROVE PrintInv'
<1>1. ASSUME UNCHANGED printed, ~ (pc = "scan" /\ command.verb = "PR"),
             ~ (pc' = "scan" /\ command'.verb = "PR")
      PROVE PrintInv'
  BY <1>1 DEF PrintInv
<1>2. ASSUME NEW c \in Commands, BeginPrint(c) PROVE PrintInv'
  <2>1. printed = << >> /\ UNCHANGED printed /\ pc' = "scan" /\ command' = c /\ c.verb = "PR"
    BY <1>2 DEF BeginPrint, PrintInv
  <2>2. Past("scan")' = {}
    BY <1>2, ScanBegun
  <2>3. /\ IsSequence(<< >>) /\ Range(<< >>) = {} /\ Len(<< >>) = 0 /\ Cardinality({}) = 0
    <3>1. DOMAIN << >> = {} /\ << >> \in Seq({}) /\ Len(<< >>) = 0
      BY EmptySeq
    <3>2. Range(<< >>) = {}
      BY <3>1 DEF Range
    <3>. QED
      BY <3>1, <3>2, FS_EmptySet DEF IsSequence
  <2>. QED
    BY <2>1, <2>2, <2>3 DEF PrintInv
<1>3. CASE PrintRow
  <2>1. /\ pc = "scan" /\ command.verb = "PR" /\ UNCHANGED <<pc, command>>
        /\ printed' = Append(printed, AtSlot("scan"))
    BY <1>3 DEF PrintRow
  <2>2. /\ IsSequence(printed) /\ Range(printed) = Past("scan")
        /\ Len(printed) = Cardinality(Range(printed))
    BY <2>1 DEF PrintInv
  <2>3. PICK x, P : x = AtSlot("scan") /\ P = Past("scan")
    OBVIOUS
  <2>4. Past("scan")' = P \union {x} /\ x \notin P
    BY <1>3, <2>3, PrintMoves
  <2>5. IsFiniteSet(P)
    BY <2>1, <2>3, PastFinite DEF Reading
  <2>6. Cardinality(P \union {x}) = Cardinality(P) + 1
    BY <2>4, <2>5, FS_AddElement
  <2>7. /\ IsSequence(printed') /\ Range(printed') = P \union {x}
        /\ Len(printed') = Len(printed) + 1
    BY <2>1, <2>2, <2>3, AppendRange
  <2>. QED
    BY <2>1, <2>2, <2>3, <2>4, <2>6, <2>7 DEF PrintInv
<1>4. ASSUME NEW v \in {"scan", "join"}, LoadBlock(v) \/ SkipSlot(v) PROVE PrintInv'
  <2>1. UNCHANGED <<pc, command, printed>>
    BY <1>4 DEF LoadBlock, SkipSlot
  <2>2. pc = "scan" => Past("scan")' = Past("scan")
    BY <1>4, LoadOrSkipMoves DEF Reading
  <2>. QED
    BY <2>1, <2>2 DEF PrintInv
<1>5. CASE UNCHANGED vars
  <2>1. UNCHANGED <<pc, command, printed>>
    BY <1>5 DEF vars, scans
  <2>2. pc = "scan" => Past("scan")' = Past("scan")
    BY <1>5, StutterMoves DEF Reading
  <2>. QED
    BY <2>1, <2>2 DEF PrintInv
<1>6. CASE EndLines \/ EndScan
  BY <1>6 DEF EndLines, EndScan, EndCommand, PrintInv
<1>7. CASE EndDictionary
  <2>1. CASE command.verb = "CR"
    BY <1>7, <2>1 DEF EndDictionary, EndCommand, PrintInv
  <2>2. CASE command.verb # "CR"
    BY <1>1, <1>7, <2>2 DEF EndDictionary, VerbsInv, Makers
  <2>. QED
    BY <2>1, <2>2
<1>8. ASSUME NEW c \in Commands, BeginCreate(c) PROVE PrintInv'
  <2>1. UNCHANGED printed /\ pc = "idle"
    BY <1>8 DEF BeginCreate, scans
  <2>2. pc' # "scan"
    <3>1. CASE Cardinality(DOMAIN g_relations) < MAX_REL
      BY <1>8, <3>1 DEF BeginCreate
    <3>2. CASE ~ (Cardinality(DOMAIN g_relations) < MAX_REL)
      BY <1>8, <3>2 DEF BeginCreate
    <3>. QED
      BY <3>1, <3>2
  <2>. QED
    BY <1>1, <2>1, <2>2
<1>9. ASSUME NEW c \in Commands, Delete(c) \/ BeginLines(c) PROVE PrintInv'
  BY <1>1, <1>9 DEF Delete, BeginLines, scans
<1>10. ASSUME NEW c \in Commands, Refuse(c) PROVE PrintInv'
  BY <1>5, <1>10 DEF Refuse
<1>11. CASE CarryOutLine \/ Describe
  BY <1>1, <1>11 DEF CarryOutLine, Describe, scans
<1>12. CASE DeriveRow \/ BeginSecond \/ BeginJoin
  BY <1>1, <1>12 DEF DeriveRow, BeginSecond, BeginJoin
<1>13. CASE JoinRow \/ EndJoin
  <2>1. pc = "join" /\ command.verb = "NJ"
    BY <1>13 DEF JoinRow, EndJoin, IInv, TargetsExist
  <2>2. UNCHANGED <<printed, command>>
    BY <1>13 DEF JoinRow, EndJoin, scans
  <2>. QED
    BY <1>1, <2>1, <2>2
<1>. QED
  BY <1>2, <1>3, <1>4, <1>5, <1>6, <1>7, <1>8, <1>9, <1>10, <1>11, <1>12, <1>13 DEF Next

(***************************************************************************)
(* The invariant                                                           *)
(***************************************************************************)
ScansInv ==
    VerbsInv /\ ResolvedInv /\ PlacesInv /\ AllApart /\ ResultInv /\ PrintInv

LEMMA InitScans == Init => ScansInv
<1>. SUFFICES ASSUME Init PROVE ScansInv
  OBVIOUS
<1>1. pc = "idle" /\ printed = << >>
  BY DEF Init
<1>2. AllApart
  <2>1. \A n \in Dictionaries : RowsApart(n)
    BY InitDescribed DEF DescribedInv
  <2>2. DOMAIN g_relations = Dictionaries
    BY DictionaryFacts DEF Init, Dictionaries
  <2>. QED
    BY <2>1, <2>2 DEF AllApart
<1>. QED
  BY <1>1, <1>2 DEF ScansInv, VerbsInv, ResolvedInv, Deriving, PlacesInv, Reading, ResultInv, Scans,
     PrintInv

\* What the scans rest on.
EngineInv == IInv /\ DictionaryInv /\ StoreInv /\ TypesInv /\ DescribedInv

LEMMA EngineStepAll == HashInRange /\ EngineInv /\ [Next]_vars => EngineInv'
<1>. SUFFICES ASSUME HashInRange, EngineInv, [Next]_vars PROVE EngineInv'
  OBVIOUS
<1>1. IInv'
  BY BlocksStep, TargetsStep, DiskStep DEF EngineInv, IInv
<1>2. DictionaryInv' /\ StoreInv'
  BY DictionaryStep, StoreStep DEF EngineInv
<1>3. TypesInv'
  BY <1>1, HeadersStep, BoundStep, EngineStep, CursorStep DEF EngineInv, TypesInv
<1>4. DescribedInv'
  BY <1>1, DescribedStep DEF EngineInv
<1>. QED
  BY <1>1, <1>2, <1>3, <1>4 DEF EngineInv

LEMMA ScansInvStep == HashInRange /\ EngineInv /\ EngineInv' /\ ScansInv /\ [Next]_vars => ScansInv'
<1>. SUFFICES ASSUME HashInRange, EngineInv, EngineInv', ScansInv, [Next]_vars PROVE ScansInv'
  OBVIOUS
<1>1. /\ IInv /\ IInv' /\ DictionaryInv /\ StoreInv /\ StoreInv' /\ TypesInv /\ DescribedInv'
      /\ VerbsInv /\ ResolvedInv /\ PlacesInv /\ AllApart /\ ResultInv /\ PrintInv
  BY DEF EngineInv, ScansInv
<1>2. VerbsInv'
  BY <1>1, VerbsStep DEF IInv
<1>3. ResolvedInv'
  BY <1>1, ResolvedStep DEF StoreInv
<1>4. PlacesInv'
  BY <1>1, PlacesStep
<1>5. AllApart'
  BY <1>1, ApartStep
<1>6. ResultInv'
  BY <1>1, ResultStep
<1>7. PrintInv'
  BY <1>1, PrintStep
<1>. QED
  BY <1>2, <1>3, <1>4, <1>5, <1>6, <1>7 DEF ScansInv

\* What the engine keeps, and with it what the scans keep, holds throughout.
LEMMA ScansAlways == ASSUME HashInRange PROVE Spec => [](EngineInv /\ ScansInv)
<1>1. Init => EngineInv /\ ScansInv
  <2>1. Init => DiskTyped
    BY DEF Init, DiskTyped, EmptyBlock
  <2>. QED
    BY <2>1, InitBlocks, InitTargets, InitDictionary, InitStore, InitTypes, InitDescribed, InitScans
       DEF EngineInv, IInv
<1>2. EngineInv /\ ScansInv /\ [Next]_vars => (EngineInv /\ ScansInv)'
  BY EngineStepAll, ScansInvStep
<1>. QED
  BY <1>1, <1>2, PTL DEF Spec

LEMMA PrintFollows ==
    ASSUME EngineInv, ScansInv
    PROVE PrintedOnce
<1>. SUFFICES ASSUME Complete, command.verb = "PR"
              PROVE /\ Range(printed) = Rows(command.p)
                    /\ Len(printed) = Cardinality(Rows(command.p))
  BY DEF PrintedOnce
<1>1. pc = "scan" /\ ScanOver("scan")
  BY DEF Complete
<1>2. ScanPlace("scan") /\ SourceOf("scan") = command.p
  BY <1>1 DEF ScansInv, PlacesInv, Reading, SourceOf, Source
<1>3. Past("scan") = Rows(command.p)
  BY <1>1, <1>2, NothingAhead
<1>. QED
  BY <1>1, <1>3 DEF ScansInv, PrintInv

\* No relation ever keeps a row twice, although SL, DF and NJ append without a look
\* at what is there (do_select, do_diff, join_with_p_tuple), and a PR that ends has
\* printed every row of its relation, and each once (do_print).
THEOREM StorageStoredOnce ==
    ASSUME HashInRange
    PROVE Spec => [](StoredOnce /\ PrintedOnce)
<1>1. EngineInv /\ ScansInv => StoredOnce /\ PrintedOnce
  BY ApartStored, PrintFollows DEF EngineInv, ScansInv
<1>. QED
  BY <1>1, ScansAlways, PTL

(***************************************************************************)
(* The relational algebra                                                  *)
(***************************************************************************)
\* A row as a function from attribute names to values.
NameRow(attrs, row) == [a \in AttrNames(attrs) |-> row[AttrIndex(attrs, a)]]

\* The attributes have different names.
NamedApart(attrs) == \A i, j \in DOMAIN attrs : attrs[i].name = attrs[j].name => i = j

LEMMA NamedIs == ASSUME NEW n PROVE Named(n) = {NameRow(AttrsOf(n), row) : row \in Rows(n)}
BY DEF Named, NameRow

\* The first attribute of a name.
LEMMA IndexFacts ==
    ASSUME NEW attrs, IsSequence(attrs), NEW a \in AttrNames(attrs)
    PROVE /\ AttrIndex(attrs, a) \in DOMAIN attrs
          /\ attrs[AttrIndex(attrs, a)].name = a
          /\ \A i \in DOMAIN attrs : attrs[i].name = a => AttrIndex(attrs, a) <= i
<1>. DEFINE hits == {i \in DOMAIN attrs : attrs[i].name = a}
<1>1. DOMAIN attrs = 1 .. Len(attrs) /\ Len(attrs) \in Nat
  BY SequenceDomain
<1>2. hits # {}
  BY DEF AttrNames
<1>3. hits \subseteq Nat
  BY <1>1
<1>4. AttrIndex(attrs, a) = Min(hits)
  BY <1>2 DEF AttrIndex
<1>5. Min(hits) \in hits /\ \A i \in hits : Min(hits) <= i
  <2>. HIDE DEF hits
  <2>. QED
    BY <1>2, <1>3, MinIsLeast
<1>. QED
  BY <1>4, <1>5

LEMMA NotAName ==
    ASSUME NEW attrs, IsSequence(attrs), NEW a, AttrIndex(attrs, a) # 0
    PROVE a \in AttrNames(attrs)
BY DEF AttrIndex, AttrNames

LEMMA IndexOf ==
    ASSUME NEW attrs, IsSequence(attrs), NEW a, NEW m \in DOMAIN attrs, attrs[m].name = a,
           \A i \in DOMAIN attrs : attrs[i].name = a => m <= i
    PROVE AttrIndex(attrs, a) = m
<1>1. a \in AttrNames(attrs)
  BY DEF AttrNames
<1>2. DOMAIN attrs = 1 .. Len(attrs) /\ Len(attrs) \in Nat
  BY SequenceDomain
<1>3. PICK k \in DOMAIN attrs : k = AttrIndex(attrs, a) /\ attrs[k].name = a /\ k <= m
  BY <1>1, IndexFacts
<1>4. m <= k
  BY <1>3
<1>. QED
  BY <1>2, <1>3, <1>4

\* Compatible relations whose first has different names have the same names.
LEMMA CompatibleNames ==
    ASSUME NEW ps, NEW qs, IsSequence(ps), IsSequence(qs), Compatible(ps, qs), NamedApart(ps)
    PROVE AttrNames(ps) = AttrNames(qs)
<1>1. PICK k \in Nat : k = Len(ps) /\ k = Len(qs) /\ DOMAIN ps = 1 .. k /\ DOMAIN qs = 1 .. k
  BY SequenceDomain DEF Compatible
<1>2. AttrNames(ps) \subseteq AttrNames(qs)
  BY NotAName DEF Compatible, AttrNames
<1>. DEFINE f == [i \in 1 .. k |-> ps[i].name]
            g == [i \in 1 .. k |-> qs[i].name]
<1>3. f \in [1 .. k -> AttrNames(ps)] /\ g \in [1 .. k -> AttrNames(qs)]
  BY <1>1 DEF AttrNames
<1>4. f \in Bijection(1 .. k, AttrNames(ps))
  <2>1. \A x, y \in 1 .. k : f[x] = f[y] => x = y
    BY <1>1 DEF NamedApart
  <2>2. \A y \in AttrNames(ps) : \E x \in 1 .. k : f[x] = y
    BY <1>1 DEF AttrNames
  <2>. HIDE DEF f
  <2>. QED
    BY <1>3, <2>1, <2>2, Fun_IsBij
<1>5. g \in Surjection(1 .. k, AttrNames(qs))
  <2>1. \A y \in AttrNames(qs) : \E x \in 1 .. k : g[x] = y
    BY <1>1 DEF AttrNames
  <2>. HIDE DEF g
  <2>. QED
    BY <1>3, <2>1, Fun_IsSurj
<1>. HIDE DEF f, g
<1>6. IsFiniteSet(1 .. k) /\ Cardinality(1 .. k) = k
  BY FS_Interval
<1>7. IsFiniteSet(AttrNames(ps)) /\ Cardinality(AttrNames(ps)) = k
  <2>1. ExistsBijection(1 .. k, AttrNames(ps))
    BY <1>4 DEF ExistsBijection
  <2>. QED
    BY <1>6, <2>1, FS_Bijection
<1>8. IsFiniteSet(AttrNames(qs)) /\ Cardinality(AttrNames(qs)) <= k
  BY <1>5, <1>6, FS_Surjection
<1>9. /\ Cardinality(AttrNames(ps)) <= Cardinality(AttrNames(qs))
      /\ Cardinality(AttrNames(ps)) = Cardinality(AttrNames(qs)) => AttrNames(ps) = AttrNames(qs)
  BY <1>2, <1>8, FS_Subset
<1>10. Cardinality(AttrNames(qs)) \in Nat
  BY <1>8, FS_CardinalityType
<1>. QED
  BY <1>1, <1>7, <1>8, <1>9, <1>10

\* A row is told by what it says of the names, when these are different.
LEMMA NamesTell ==
    ASSUME NEW attrs, IsSequence(attrs), NamedApart(attrs), NEW x, NEW y,
           x = [i \in DOMAIN attrs |-> x[i]], y = [i \in DOMAIN attrs |-> y[i]],
           NameRow(attrs, x) = NameRow(attrs, y)
    PROVE x = y
<1>1. ASSUME NEW i \in DOMAIN attrs PROVE x[i] = y[i]
  <2>1. PICK a \in AttrNames(attrs) : a = attrs[i].name
    BY DEF AttrNames
  <2>2. AttrIndex(attrs, a) = i
    BY <2>1, IndexFacts DEF NamedApart
  <2>3. NameRow(attrs, x)[a] = x[i] /\ NameRow(attrs, y)[a] = y[i]
    BY <2>2 DEF NameRow
  <2>. QED
    BY <2>3
<1>. QED
  BY <1>1

\* A row of the second relation of UN or DF, told by names, in the first one's order.
LEMMA MappedNames ==
    ASSUME NEW c, IsSequence(AttrsOf(c.p)), IsSequence(AttrsOf(c.q)),
           Compatible(AttrsOf(c.p), AttrsOf(c.q)), NamedApart(AttrsOf(c.p)), NEW y
    PROVE NameRow(AttrsOf(c.p), Mapped(c, y)) = NameRow(AttrsOf(c.q), y)
<1>1. PICK ps, qs : ps = AttrsOf(c.p) /\ qs = AttrsOf(c.q)
  OBVIOUS
<1>2. AttrNames(ps) = AttrNames(qs)
  BY <1>1, CompatibleNames
<1>3. ASSUME NEW a \in AttrNames(ps)
      PROVE Mapped(c, y)[AttrIndex(ps, a)] = y[AttrIndex(qs, a)]
  <2>1. PICK m \in DOMAIN ps : m = AttrIndex(ps, a) /\ ps[m].name = a
    BY <1>1, IndexFacts
  <2>2. Mapped(c, y)[m] = y[AttrIndex(qs, ps[m].name)]
    BY <1>1 DEF Mapped
  <2>. QED
    BY <2>1, <2>2
<1>. QED
  BY <1>1, <1>2, <1>3 DEF NameRow

LEMMA ProjectedNames ==
    ASSUME NEW c, IsSequence(AttrsOf(c.p)), IsSequence(ResultAttrs(c)), c.verb = "PJ", Resolved(c),
           NEW x
    PROVE NameRow(ResultAttrs(c), Projected(c, x))
              = [a \in Range(c.attrs) |-> NameRow(AttrsOf(c.p), x)[a]]
<1>1. PICK ps, rs : ps = AttrsOf(c.p) /\ rs = ResultAttrs(c)
  OBVIOUS
<1>2. rs = [i \in DOMAIN c.attrs |-> ps[AttrIndex(ps, c.attrs[i])]]
  BY <1>1 DEF ResultAttrs
<1>3. \A i \in DOMAIN c.attrs : c.attrs[i] \in AttrNames(ps)
  BY <1>1 DEF Resolved, Range
<1>4. DOMAIN rs = DOMAIN c.attrs /\ \A i \in DOMAIN c.attrs : rs[i].name = c.attrs[i]
  BY <1>1, <1>2, <1>3, IndexFacts
<1>5. AttrNames(rs) = Range(c.attrs)
  BY <1>4 DEF AttrNames, Range
<1>6. ASSUME NEW a \in Range(c.attrs)
      PROVE Projected(c, x)[AttrIndex(rs, a)] = NameRow(ps, x)[a]
  <2>1. PICK m \in DOMAIN rs : m = AttrIndex(rs, a) /\ rs[m].name = a
    BY <1>1, <1>5, IndexFacts
  <2>2. c.attrs[m] = a /\ a \in AttrNames(ps)
    BY <1>3, <1>4, <2>1
  <2>3. Projected(c, x)[m] = x[AttrIndex(ps, a)]
    BY <1>1, <1>4, <2>2 DEF Projected
  <2>. QED
    BY <2>1, <2>2, <2>3 DEF NameRow
<1>. QED
  BY <1>1, <1>5, <1>6 DEF NameRow

LEMMA JoinedParts ==
    ASSUME TargetsExist, NEW c, Exists(c.p), Exists(c.q), NEW x, Fits(x, c.p), NEW y
    PROVE /\ \A i \in 1 .. Len(AttrsOf(c.p)) : Joined(c, x, y)[i] = x[i]
          /\ \A i \in DOMAIN Rest(c) : Joined(c, x, y)[Len(AttrsOf(c.p)) + i] = y[Rest(c)[i]]
BY JoinedIs

\* The names and the values of a joined row.
LEMMA JoinedNames ==
    ASSUME TargetsExist, NEW c, c.verb = "NJ", Exists(c.p), Exists(c.q), Resolved(c),
           IsSequence(ResultAttrs(c)),
           NEW x, Fits(x, c.p), NEW y
    PROVE /\ AttrNames(ResultAttrs(c)) = AttrNames(AttrsOf(c.p)) \union AttrNames(AttrsOf(c.q))
          /\ \A a \in AttrNames(ResultAttrs(c)) :
                 NameRow(ResultAttrs(c), Joined(c, x, y))[a]
                     = IF a \in AttrNames(AttrsOf(c.p)) THEN NameRow(AttrsOf(c.p), x)[a]
                                                       ELSE NameRow(AttrsOf(c.q), y)[a]
<1>1. PICK ps, qs, rs, rest, k, l, z :
          /\ ps = AttrsOf(c.p) /\ qs = AttrsOf(c.q) /\ rs = ResultAttrs(c) /\ rest = Rest(c)
          /\ k = Len(ps) /\ l = Len(rest) /\ z = Joined(c, x, y)
  OBVIOUS
<1>2. IsSequence(ps) /\ IsSequence(qs) /\ IsSequence(rs)
  BY <1>1 DEF TargetsExist, Exists
<1>3. /\ k \in Nat /\ DOMAIN ps = 1 .. k
      /\ \A i \in 1 .. k : z[i] = x[i]
      /\ \A i \in DOMAIN rest : z[k + i] = y[rest[i]]
  <2>1. Len(AttrsOf(c.p)) \in Nat /\ DOMAIN AttrsOf(c.p) = 1 .. Len(AttrsOf(c.p))
    BY JoinedIs
  <2>2. /\ \A i \in 1 .. Len(AttrsOf(c.p)) : Joined(c, x, y)[i] = x[i]
        /\ \A i \in DOMAIN Rest(c) : Joined(c, x, y)[Len(AttrsOf(c.p)) + i] = y[Rest(c)[i]]
    BY JoinedParts
  <2>. QED
    BY <1>1, <2>1, <2>2
<1>4. /\ l \in Nat /\ DOMAIN rest = 1 .. l
      /\ \A j \in DOMAIN rest : rest[j] \in DOMAIN qs \ JoinedAt(c)
      /\ \A i \in DOMAIN qs \ JoinedAt(c) : \E j \in DOMAIN rest : rest[j] = i
      /\ \A i, j \in DOMAIN rest : i < j => rest[i] < rest[j]
  <2>1. /\ Len(Rest(c)) \in Nat /\ DOMAIN Rest(c) = 1 .. Len(Rest(c))
        /\ \A j \in DOMAIN Rest(c) : Rest(c)[j] \in DOMAIN AttrsOf(c.q) \ JoinedAt(c)
        /\ \A i \in DOMAIN AttrsOf(c.q) \ JoinedAt(c) : \E j \in DOMAIN Rest(c) : Rest(c)[j] = i
        /\ \A i, j \in DOMAIN Rest(c) : i < j => Rest(c)[i] < Rest(c)[j]
    BY RestPicks
  <2>. QED
    BY <1>1, <2>1
<1>5. DOMAIN qs = 1 .. Len(qs) /\ Len(qs) \in Nat
  BY <1>2, SequenceDomain
<1>6. /\ DOMAIN rs = 1 .. k + l
      /\ \A i \in 1 .. k : rs[i] = ps[i]
      /\ \A i \in 1 .. l : rs[k + i] = qs[rest[i]]
  <2>. DEFINE w == [i \in 1 .. l |-> qs[rest[i]]]
  <2>1. rs = ps \o w
    BY <1>1, <1>4 DEF ResultAttrs
  <2>2. w = [i \in 1 .. l |-> w[i]] /\ \A i \in 1 .. l : w[i] = qs[rest[i]]
    OBVIOUS
  <2>3. DOMAIN w = 1 .. l
    OBVIOUS
  <2>. HIDE DEF w
  <2>4. IsSequence(w) /\ Len(w) = l
    <3>1. IsSequence(w)
      BY <1>4, <2>2, FunctionIsSequence
    <3>. QED
      BY <1>4, <2>3, <3>1, SequenceDomain
  <2>5. ps \in Seq(Range(ps) \union Range(w)) /\ w \in Seq(Range(ps) \union Range(w))
    BY <1>2, <2>4, SeqMonotonic DEF IsSequence
  <2>6. Len(ps) = k
    BY <1>1
  <2>10. /\ Len(rs) = k + l /\ rs \in Seq(Range(ps) \union Range(w))
         /\ \A i \in 1 .. k + l : rs[i] = IF i <= k THEN ps[i] ELSE w[i - k]
    BY <2>1, <2>4, <2>5, <2>6, ConcatProperties
  <2>7. DOMAIN rs = 1 .. k + l
    BY <2>10, LenProperties
  <2>8. \A i \in 1 .. k : rs[i] = ps[i]
    BY <1>3, <1>4, <2>10
  <2>9. ASSUME NEW i \in 1 .. l PROVE rs[k + i] = qs[rest[i]]
    <3>1. k + i \in 1 .. k + l /\ ~ (k + i <= k) /\ (k + i) - k = i
      BY <1>3, <1>4
    <3>. QED
      BY <2>2, <2>10, <3>1
  <2>. QED
    BY <2>7, <2>8, <2>9
<1>7. \A m \in 1 .. k + l : m \in 1 .. k \/ \E i \in 1 .. l : m = k + i
  <2>. SUFFICES ASSUME NEW m \in 1 .. k + l, m \notin 1 .. k PROVE m - k \in 1 .. l /\ m = k + (m - k)
    OBVIOUS
  <2>. QED
    BY <1>3, <1>4
<1>8. \A i \in 1 .. k : i \in 1 .. k + l
  BY <1>3, <1>4
<1>9. \A i \in 1 .. l : k + i \in 1 .. k + l
  BY <1>3, <1>4
\* A name of the second relation is joined over, or its first position is left over.
<1>10. ASSUME NEW a \in AttrNames(qs), a \notin AttrNames(ps)
       PROVE AttrIndex(qs, a) \in DOMAIN qs \ JoinedAt(c)
  <2>1. PICK m \in DOMAIN qs : m = AttrIndex(qs, a) /\ qs[m].name = a
    BY <1>2, <1>10, IndexFacts
  <2>2. m \notin JoinedAt(c)
    <3>. SUFFICES ASSUME NEW j \in DOMAIN c.attrs, m = AttrIndex(qs, c.attrs[j]) PROVE FALSE
      BY <1>1 DEF JoinedAt
    <3>1. Joinable(ps, qs, c.attrs[j])
      BY <1>1 DEF Resolved
    <3>2. c.attrs[j] \in AttrNames(ps) /\ c.attrs[j] \in AttrNames(qs)
      BY <1>2, <3>1, NotAName DEF Joinable
    <3>3. qs[m].name = c.attrs[j]
      BY <1>2, <3>2, IndexFacts
    <3>. QED
      BY <1>10, <2>1, <3>2, <3>3
  <2>. QED
    BY <2>1, <2>2
<1>11. AttrNames(rs) = AttrNames(ps) \union AttrNames(qs)
  <2>1. ASSUME NEW a \in AttrNames(rs) PROVE a \in AttrNames(ps) \union AttrNames(qs)
    <3>1. PICK m \in 1 .. k + l : rs[m].name = a
      BY <1>6, <2>1 DEF AttrNames
    <3>2. CASE m \in 1 .. k
      BY <1>3, <1>6, <3>1, <3>2 DEF AttrNames
    <3>3. ASSUME NEW i \in 1 .. l, m = k + i PROVE a \in AttrNames(qs)
      BY <1>4, <1>6, <3>1, <3>3 DEF AttrNames
    <3>. QED
      BY <1>7, <3>2, <3>3
  <2>2. ASSUME NEW a \in AttrNames(ps) PROVE a \in AttrNames(rs)
    <3>1. PICK i \in 1 .. k : ps[i].name = a
      BY <1>3, <2>2 DEF AttrNames
    <3>. QED
      BY <1>6, <1>8, <3>1 DEF AttrNames
  <2>3. ASSUME NEW a \in AttrNames(qs), a \notin AttrNames(ps) PROVE a \in AttrNames(rs)
    <3>1. PICK i \in 1 .. l : rest[i] = AttrIndex(qs, a)
      BY <1>4, <1>10, <2>3
    <3>2. rs[k + i].name = a
      BY <1>2, <1>6, <2>3, <3>1, IndexFacts
    <3>. QED
      BY <1>6, <1>9, <3>2 DEF AttrNames
  <2>. QED
    BY <2>1, <2>2, <2>3
<1>12. ASSUME NEW a \in AttrNames(ps) PROVE z[AttrIndex(rs, a)] = x[AttrIndex(ps, a)]
  <2>1. PICK m \in 1 .. k : m = AttrIndex(ps, a) /\ ps[m].name = a
                            /\ \A i \in 1 .. k : ps[i].name = a => m <= i
    BY <1>2, <1>3, IndexFacts
  <2>2. ASSUME NEW i \in DOMAIN rs, rs[i].name = a PROVE m <= i
    <3>1. CASE i \in 1 .. k
      BY <1>6, <2>1, <2>2, <3>1
    <3>2. CASE i \notin 1 .. k
      BY <1>3, <1>4, <1>6, <3>2
    <3>. QED
      BY <3>1, <3>2
  <2>3. AttrIndex(rs, a) = m
    BY <1>2, <1>6, <1>8, <2>1, <2>2, IndexOf
  <2>. QED
    BY <1>3, <2>1, <2>3
<1>13. ASSUME NEW a \in AttrNames(qs), a \notin AttrNames(ps)
       PROVE z[AttrIndex(rs, a)] = y[AttrIndex(qs, a)]
  <2>1. PICK i \in 1 .. l : rest[i] = AttrIndex(qs, a)
    BY <1>4, <1>10, <1>13
  <2>2. rs[k + i].name = a /\ k + i \in DOMAIN rs
    BY <1>2, <1>6, <1>9, <1>13, <2>1, IndexFacts
  <2>3. ASSUME NEW m \in DOMAIN rs, rs[m].name = a PROVE k + i <= m
    <3>1. m \notin 1 .. k
      BY <1>3, <1>6, <1>13, <2>3 DEF AttrNames
    <3>2. PICK j \in 1 .. l : m = k + j
      BY <1>6, <1>7, <3>1
    <3>3. qs[rest[j]].name = a /\ rest[j] \in DOMAIN qs
      BY <1>4, <1>6, <2>3, <3>2
    <3>4. rest[i] <= rest[j]
      BY <1>2, <1>13, <2>1, <3>3, IndexFacts
    <3>5. ~ (j < i)
      <4>1. rest[i] \in Int /\ rest[j] \in Int
        BY <1>4, <1>5
      <4>. QED
        BY <1>4, <3>4, <4>1
    <3>. QED
      BY <1>3, <1>4, <3>2, <3>5
  <2>4. AttrIndex(rs, a) = k + i
    BY <1>2, <2>2, <2>3, IndexOf
  <2>. QED
    BY <1>3, <1>4, <2>1, <2>4
<1>14. ASSUME NEW a \in AttrNames(rs)
       PROVE NameRow(rs, z)[a] = IF a \in AttrNames(ps) THEN NameRow(ps, x)[a] ELSE NameRow(qs, y)[a]
  BY <1>11, <1>12, <1>13, <1>14 DEF NameRow
<1>. QED
  BY <1>1, <1>11, <1>14

(***************************************************************************)
(* What is due is what the algebra says                                    *)
(***************************************************************************)
\* The rows of set, told by names.
ByName(attrs, set) == {NameRow(attrs, row) : row \in set}

LEMMA ByNameIn ==
    ASSUME NEW attrs, NEW set, NEW row \in set
    PROVE NameRow(attrs, row) \in ByName(attrs, set)
BY DEF ByName

\* The attributes of a command's operands are sequences, and their rows have them.
LEMMA OperandFacts ==
    ASSUME EngineInv, ScansInv, Scans
    PROVE /\ IsSequence(AttrsOf(command.p)) /\ IsSequence(AttrsOf(command.r))
          /\ AttrsOf(command.r) = ResultAttrs(command) /\ Resolved(command)
          /\ Exists(command.p) /\ \A x \in Rows(command.p) : Fits(x, command.p)
          /\ command.verb \in {"UN", "DF", "NJ"} =>
                 /\ Exists(command.q) /\ IsSequence(AttrsOf(command.q))
                 /\ \A y \in Rows(command.q) : Fits(y, command.q)
<1>1. /\ IInv /\ DictionaryInv /\ StoreInv /\ TargetsExist /\ RelationsInv /\ RowsInv /\ ResolvedInv
  BY DEF EngineInv, ScansInv, IInv, StoreInv
<1>2. /\ Exists(command.p) /\ Exists(command.r) /\ AttrsOf(command.r) = ResultAttrs(command)
      /\ command.verb \in {"UN", "DF", "NJ"} => Exists(command.q)
  BY <1>1, ScannedFacts DEF Exists
<1>3. \A n : Exists(n) => IsSequence(AttrsOf(n))
  BY <1>1 DEF TargetsExist, Exists
<1>4. \A n : Exists(n) => \A x \in Rows(n) : Fits(x, n)
  BY <1>1, AllRowsFit DEF Exists
<1>5. Resolved(command)
  BY <1>1 DEF ResolvedInv, Scans, Deriving
<1>. QED
  BY <1>2, <1>3, <1>4, <1>5

\* PJ: a projected row is the row on the names it keeps.
LEMMA ProjectionDue ==
    ASSUME EngineInv, ScansInv, Scans, command.verb = "PJ", pc = "scan",
           Past("scan") = Rows(command.p)
    PROVE ByName(AttrsOf(command.r), Due) = Expected(command)
<1>1. PICK c, rs, ps : c = command /\ rs = AttrsOf(c.r) /\ ps = AttrsOf(c.p)
  OBVIOUS
<1>2. /\ IsSequence(AttrsOf(c.p)) /\ IsSequence(ResultAttrs(c)) /\ rs = ResultAttrs(c) /\ Resolved(c)
  BY <1>1, OperandFacts
<1>3. \A row : Derived(row) = {Projected(c, row)}
  BY <1>1, DerivedCases
<1>4. Due = {Projected(c, x) : x \in Rows(c.p)}
  BY <1>1, <1>3 DEF Due
<1>5. Expected(c) = {[a \in Range(c.attrs) |-> f[a]] : f \in Named(c.p)}
  BY <1>1 DEF Expected
<1>6. Named(c.p) = {NameRow(ps, x) : x \in Rows(c.p)}
  BY <1>1, NamedIs
<1>7. \A x : NameRow(rs, Projected(c, x)) = [a \in Range(c.attrs) |-> NameRow(ps, x)[a]]
  BY <1>1, <1>2, ProjectedNames
<1>8. ASSUME NEW f \in ByName(rs, Due) PROVE f \in Expected(c)
  BY <1>4, <1>5, <1>6, <1>7, <1>8 DEF ByName
<1>9. ASSUME NEW f \in Expected(c) PROVE f \in ByName(rs, Due)
  BY <1>4, <1>5, <1>6, <1>7, <1>9 DEF ByName
<1>. QED
  BY <1>1, <1>8, <1>9

\* SL: a row meets the conditions by position exactly if it meets them by name.
LEMMA SelectionDue ==
    ASSUME EngineInv, ScansInv, Scans, command.verb = "SL", pc = "scan",
           Past("scan") = Rows(command.p)
    PROVE ByName(AttrsOf(command.r), Due) = Expected(command)
<1>1. PICK c, ps : c = command /\ ps = AttrsOf(c.p)
  OBVIOUS
<1>2. AttrsOf(c.r) = ps
  BY <1>1, OperandFacts DEF ResultAttrs
<1>3. \A row : Derived(row) = {x \in {row} : Meets(c, x)}
  BY <1>1, DerivedCases
<1>4. Due = {x \in Rows(c.p) : Meets(c, x)}
  BY <1>1, <1>3 DEF Due
<1>5. Expected(c) = {f \in Named(c.p) : \A i \in DOMAIN c.conds :
                         Compare(c.conds[i].op, f[c.conds[i].attr], c.conds[i].value)}
  BY <1>1 DEF Expected
<1>6. Named(c.p) = {NameRow(ps, x) : x \in Rows(c.p)}
  BY <1>1, NamedIs
<1>7. \A i \in DOMAIN c.conds : c.conds[i].attr \in AttrNames(ps)
  BY <1>1, OperandFacts DEF Resolved
<1>8. \A x : \A i \in DOMAIN c.conds :
          NameRow(ps, x)[c.conds[i].attr] = x[AttrIndex(ps, c.conds[i].attr)]
  BY <1>7 DEF NameRow
<1>9. \A x : Meets(c, x) <=> \A i \in DOMAIN c.conds :
          Compare(c.conds[i].op, NameRow(ps, x)[c.conds[i].attr], c.conds[i].value)
  BY <1>1, <1>8 DEF Meets
<1>10. ASSUME NEW f \in ByName(ps, Due) PROVE f \in Expected(c)
  BY <1>4, <1>5, <1>6, <1>9, <1>10 DEF ByName
<1>11. ASSUME NEW f \in Expected(c) PROVE f \in ByName(ps, Due)
  BY <1>4, <1>5, <1>6, <1>9, <1>11 DEF ByName
<1>. QED
  BY <1>1, <1>2, <1>10, <1>11

\* UN: the second relation's rows come in the first one's order and keep their names.
LEMMA UnionDue ==
    ASSUME EngineInv, ScansInv, Scans, command.verb = "UN", pc = "second",
           NamedApart(AttrsOf(command.p)), Past("scan") = Rows(command.q)
    PROVE ByName(AttrsOf(command.r), Due) = Expected(command)
<1>1. PICK c, ps, qs : c = command /\ ps = AttrsOf(c.p) /\ qs = AttrsOf(c.q)
  OBVIOUS
<1>2. AttrsOf(c.r) = ps
  BY <1>1, OperandFacts DEF ResultAttrs
<1>3. \A row : Derived(row) = {Mapped(c, row)}
  BY <1>1, DerivedCases
<1>4. Due = Rows(c.p) \union {Mapped(c, y) : y \in Rows(c.q)}
  BY <1>1, <1>3 DEF Due
<1>5. Expected(c) = Named(c.p) \union Named(c.q)
  BY <1>1 DEF Expected
<1>6. /\ Named(c.p) = {NameRow(ps, x) : x \in Rows(c.p)}
      /\ Named(c.q) = {NameRow(qs, y) : y \in Rows(c.q)}
  BY <1>1, NamedIs
<1>7. \A y : NameRow(ps, Mapped(c, y)) = NameRow(qs, y)
  BY <1>1, OperandFacts, MappedNames DEF Resolved
<1>8. ASSUME NEW f \in ByName(ps, Due) PROVE f \in Expected(c)
  <2>1. PICK row \in Due : f = NameRow(ps, row)
    BY <1>8 DEF ByName
  <2>. QED
    BY <1>4, <1>5, <1>6, <1>7, <2>1
<1>9. ASSUME NEW f \in Expected(c) PROVE f \in ByName(ps, Due)
  <2>1. CASE f \in Named(c.p)
    <3>1. PICK x \in Rows(c.p) : f = NameRow(ps, x)
      BY <1>6, <2>1
    <3>. QED
      BY <1>4, <3>1, ByNameIn
  <2>2. CASE f \in Named(c.q)
    <3>1. PICK y \in Rows(c.q) : f = NameRow(qs, y)
      BY <1>6, <2>2
    <3>2. Mapped(c, y) \in Due
      BY <1>4
    <3>. QED
      BY <1>7, <3>1, <3>2, ByNameIn
  <2>. QED
    BY <1>5, <1>9, <2>1, <2>2
<1>. QED
  BY <1>1, <1>2, <1>8, <1>9

\* DF: a row of the first relation is a mapped row of the second one exactly if they
\* say the same of every name.
LEMMA DifferenceDue ==
    ASSUME EngineInv, ScansInv, Scans, command.verb = "DF", pc = "scan",
           NamedApart(AttrsOf(command.p)), Past("scan") = Rows(command.p)
    PROVE ByName(AttrsOf(command.r), Due) = Expected(command)
<1>1. PICK c, ps, qs : c = command /\ ps = AttrsOf(c.p) /\ qs = AttrsOf(c.q)
  OBVIOUS
<1>2. AttrsOf(c.r) = ps
  BY <1>1, OperandFacts DEF ResultAttrs
<1>3. \A row : Derived(row) = {x \in {row} : \A y \in Rows(c.q) : Mapped(c, y) # x}
  BY <1>1, DerivedCases
<1>4. Due = {x \in Rows(c.p) : \A y \in Rows(c.q) : Mapped(c, y) # x}
  BY <1>1, <1>3 DEF Due
<1>5. Expected(c) = Named(c.p) \ Named(c.q)
  BY <1>1 DEF Expected
<1>6. /\ Named(c.p) = {NameRow(ps, x) : x \in Rows(c.p)}
      /\ Named(c.q) = {NameRow(qs, y) : y \in Rows(c.q)}
  BY <1>1, NamedIs
<1>7. \A y : NameRow(ps, Mapped(c, y)) = NameRow(qs, y)
  BY <1>1, OperandFacts, MappedNames DEF Resolved
<1>8. ASSUME NEW x \in Rows(c.p), NEW y \in Rows(c.q)
      PROVE Mapped(c, y) = x <=> NameRow(qs, y) = NameRow(ps, x)
  <2>1. IsSequence(ps) /\ NamedApart(ps) /\ x = [i \in DOMAIN ps |-> x[i]]
    BY <1>1, OperandFacts DEF Fits
  <2>2. PICK m : m = Mapped(c, y)
    OBVIOUS
  <2>3. m = [i \in DOMAIN ps |-> m[i]]
    BY <1>1, <2>2 DEF Mapped
  <2>4. NameRow(ps, m) = NameRow(ps, x) => m = x
    BY <2>1, <2>3, NamesTell
  <2>. QED
    BY <1>7, <2>2, <2>4
<1>9. ASSUME NEW f \in ByName(ps, Due) PROVE f \in Expected(c)
  <2>1. PICK x \in Due : f = NameRow(ps, x)
    BY <1>9 DEF ByName
  <2>2. x \in Rows(c.p) /\ \A y \in Rows(c.q) : Mapped(c, y) # x
    BY <1>4, <2>1
  <2>. QED
    BY <1>5, <1>6, <1>8, <2>1, <2>2
<1>10. ASSUME NEW f \in Expected(c) PROVE f \in ByName(ps, Due)
  <2>1. PICK x \in Rows(c.p) : f = NameRow(ps, x)
    BY <1>5, <1>6, <1>10
  <2>2. \A y \in Rows(c.q) : Mapped(c, y) # x
    BY <1>5, <1>6, <1>8, <1>10, <2>1
  <2>. QED
    BY <1>4, <2>1, <2>2, ByNameIn
<1>. QED
  BY <1>1, <1>2, <1>9, <1>10

\* Two rows told by names, put together; the first one has precedence.
Both(f, g) == [a \in DOMAIN f \union DOMAIN g |-> IF a \in DOMAIN f THEN f[a] ELSE g[a]]

\* NJ: two rows match by position exactly if they agree on the names joined over.
LEMMA NaturalJoinDue ==
    ASSUME EngineInv, ScansInv, Scans, command.verb = "NJ", pc = "scan",
           Past("scan") = Rows(command.p)
    PROVE ByName(AttrsOf(command.r), Due) = Expected(command)
<1>1. PICK c, ps, qs, rs : c = command /\ ps = AttrsOf(c.p) /\ qs = AttrsOf(c.q) /\ rs = AttrsOf(c.r)
  OBVIOUS
<1>2. /\ IsSequence(ps) /\ IsSequence(qs) /\ IsSequence(rs) /\ rs = ResultAttrs(c) /\ Resolved(c)
      /\ Exists(c.p) /\ Exists(c.q) /\ \A x \in Rows(c.p) : Fits(x, c.p)
  BY <1>1, OperandFacts
<1>3. Pairs = {xy \in Rows(c.p) \X Rows(c.q) : Matches(c, xy[1], xy[2])}
  BY <1>1 DEF Pairs
<1>4. Due = {Joined(c, xy[1], xy[2]) : xy \in Pairs}
  BY <1>1 DEF Due
<1>5. Expected(c) = {Both(fg[1], fg[2]) : fg \in {z \in Named(c.p) \X Named(c.q) :
                         \A a \in Range(c.attrs) : z[1][a] = z[2][a]}}
  BY <1>1 DEF Expected, Both
<1>6. /\ Named(c.p) = {NameRow(ps, x) : x \in Rows(c.p)}
      /\ Named(c.q) = {NameRow(qs, y) : y \in Rows(c.q)}
  BY <1>1, NamedIs
<1>7. ASSUME NEW x \in Rows(c.p), NEW y \in Rows(c.q)
      PROVE NameRow(rs, Joined(c, x, y)) = Both(NameRow(ps, x), NameRow(qs, y))
  <2>1. TargetsExist
    BY DEF EngineInv, IInv
  <2>2. /\ AttrNames(rs) = AttrNames(ps) \union AttrNames(qs)
        /\ \A a \in AttrNames(rs) :
               NameRow(rs, Joined(c, x, y))[a]
                   = IF a \in AttrNames(ps) THEN NameRow(ps, x)[a] ELSE NameRow(qs, y)[a]
    <3>1. /\ AttrNames(ResultAttrs(c)) = AttrNames(AttrsOf(c.p)) \union AttrNames(AttrsOf(c.q))
          /\ \A a \in AttrNames(ResultAttrs(c)) :
                 NameRow(ResultAttrs(c), Joined(c, x, y))[a]
                     = IF a \in AttrNames(AttrsOf(c.p)) THEN NameRow(AttrsOf(c.p), x)[a]
                                                       ELSE NameRow(AttrsOf(c.q), y)[a]
      <4>1. c.verb = "NJ" /\ IsSequence(ResultAttrs(c)) /\ Fits(x, c.p)
        BY <1>1, <1>2
      <4>. QED
        BY <1>2, <2>1, <4>1, JoinedNames
    <3>. QED
      BY <1>1, <1>2, <3>1
  <2>3. DOMAIN NameRow(ps, x) = AttrNames(ps) /\ DOMAIN NameRow(qs, y) = AttrNames(qs)
    BY DEF NameRow
  <2>4. PICK h : h = NameRow(rs, Joined(c, x, y))
    OBVIOUS
  <2>5. h = [a \in AttrNames(rs) |-> h[a]]
    BY <2>4 DEF NameRow
  <2>. QED
    BY <2>2, <2>3, <2>4, <2>5 DEF Both
<1>8. ASSUME NEW a \in Range(c.attrs) PROVE a \in AttrNames(ps) /\ a \in AttrNames(qs)
  <2>1. PICK i \in DOMAIN c.attrs : a = c.attrs[i]
    BY DEF Range
  <2>2. Joinable(ps, qs, a)
    BY <1>1, <1>2, <2>1 DEF Resolved
  <2>. QED
    BY <1>2, <2>2, NotAName DEF Joinable
<1>9. ASSUME NEW x, NEW y
      PROVE Matches(c, x, y) <=> \A a \in Range(c.attrs) : NameRow(ps, x)[a] = NameRow(qs, y)[a]
  <2>1. \A a \in Range(c.attrs) : /\ NameRow(ps, x)[a] = x[AttrIndex(ps, a)]
                                  /\ NameRow(qs, y)[a] = y[AttrIndex(qs, a)]
    BY <1>8 DEF NameRow
  <2>2. Matches(c, x, y) <=> \A j \in DOMAIN c.attrs :
            x[AttrIndex(ps, c.attrs[j])] = y[AttrIndex(qs, c.attrs[j])]
    BY <1>1 DEF Matches
  <2>. QED
    BY <2>1, <2>2 DEF Range
<1>10. ASSUME NEW f \in ByName(rs, Due) PROVE f \in Expected(c)
  <2>1. PICK xy \in Pairs : f = NameRow(rs, Joined(c, xy[1], xy[2]))
    BY <1>4, <1>10 DEF ByName
  <2>2. PICK x \in Rows(c.p), y \in Rows(c.q) : x = xy[1] /\ y = xy[2] /\ Matches(c, x, y)
    BY <1>3, <2>1
  <2>3. f = Both(NameRow(ps, x), NameRow(qs, y))
    BY <1>7, <2>1, <2>2
  <2>4. PICK fg : fg = <<NameRow(ps, x), NameRow(qs, y)>>
    OBVIOUS
  <2>5. fg \in {z \in Named(c.p) \X Named(c.q) : \A a \in Range(c.attrs) : z[1][a] = z[2][a]}
    BY <1>6, <1>9, <2>2, <2>4
  <2>. QED
    BY <1>5, <2>3, <2>4, <2>5
<1>11. ASSUME NEW f \in Expected(c) PROVE f \in ByName(rs, Due)
  <2>1. PICK fg \in Named(c.p) \X Named(c.q) :
            f = Both(fg[1], fg[2]) /\ \A a \in Range(c.attrs) : fg[1][a] = fg[2][a]
    BY <1>5, <1>11
  <2>2. PICK x \in Rows(c.p), y \in Rows(c.q) : fg[1] = NameRow(ps, x) /\ fg[2] = NameRow(qs, y)
    BY <1>6, <2>1
  <2>3. Matches(c, x, y)
    BY <1>9, <2>1, <2>2
  <2>4. PICK xy \in Pairs : xy[1] = x /\ xy[2] = y
    <3>1. PICK z \in Rows(c.p) \X Rows(c.q) : z[1] = x /\ z[2] = y
      <4>1. <<x, y>> \in Rows(c.p) \X Rows(c.q)
        OBVIOUS
      <4>. QED
        BY <4>1
    <3>2. z \in Pairs
      BY <1>3, <2>3, <3>1
    <3>. QED
      BY <3>1, <3>2
  <2>5. Joined(c, x, y) \in Due
    BY <1>4, <2>4
  <2>6. NameRow(rs, Joined(c, x, y)) = f
    BY <1>7, <2>1, <2>2
  <2>. QED
    BY <2>5, <2>6, ByNameIn
<1>12. ByName(rs, Due) = Expected(c)
  BY <1>10, <1>11
<1>. QED
  BY <1>1, <1>12

\* No operand of a UN or DF has two attributes of one name.  The CR of process_commands and
\* do_natural_join do not rule that out, and map_compatible takes the first of the two.
OperandNamed ==
    pc \in {"scan", "second"} /\ command.verb \in {"UN", "DF"} => NamedApart(AttrsOf(command.p))

LEMMA ResultFollows ==
    ASSUME EngineInv, ScansInv, OperandNamed
    PROVE ResultExact
<1>. SUFFICES ASSUME Complete, command.verb # "PR"
              PROVE /\ Named(command.r) \subseteq Expected(command)
                    /\ Named(command.r) = Expected(command) \/ MayRefuse(command.r)
  BY DEF ResultExact
<1>1. pc = (IF command.verb = "UN" THEN "second" ELSE "scan") /\ ScanOver("scan")
  BY DEF Complete
<1>2. Scans
  BY <1>1 DEF Scans, ScansInv, VerbsInv, Derivers
<1>3. ScanPlace("scan")
  BY <1>1 DEF ScansInv, PlacesInv, Reading
<1>4. Past("scan") = Rows(IF command.verb = "UN" THEN command.q ELSE command.p)
  BY <1>1, <1>3, NothingAhead DEF SourceOf, Source
<1>5. HoldsDue
  BY <1>2 DEF ScansInv, ResultInv
<1>6. ByName(AttrsOf(command.r), Due) = Expected(command)
  <2>1. CASE command.verb = "PJ"
    BY <1>1, <1>2, <1>4, <2>1, ProjectionDue
  <2>2. CASE command.verb = "SL"
    BY <1>1, <1>2, <1>4, <2>2, SelectionDue
  <2>3. CASE command.verb = "UN"
    BY <1>1, <1>2, <1>4, <2>3, UnionDue DEF OperandNamed
  <2>4. CASE command.verb = "DF"
    BY <1>1, <1>2, <1>4, <2>4, DifferenceDue DEF OperandNamed
  <2>5. CASE command.verb = "NJ"
    BY <1>1, <1>2, <1>4, <2>5, NaturalJoinDue
  <2>. QED
    BY <1>2, <2>1, <2>2, <2>3, <2>4, <2>5 DEF Scans, Derivers
<1>7. Named(command.r) = ByName(AttrsOf(command.r), Rows(command.r))
  BY NamedIs DEF ByName
<1>8. Named(command.r) \subseteq Expected(command)
  BY <1>5, <1>6, <1>7 DEF HoldsDue, ByName
<1>9. Due \subseteq Rows(command.r) => Expected(command) \subseteq Named(command.r)
  BY <1>6, <1>7 DEF ByName
<1>. QED
  BY <1>5, <1>8, <1>9 DEF HoldsDue

\* When a PJ, SL, UN, DF or NJ ends its relation holds what the algebra says of its
\* operands, and all of it unless the relation or the disk is full; a PR has printed its
\* relation; no row is stored twice.  Operands of UN and DF must tell their attributes
\* apart by name (do_project, do_select, do_union, do_diff, do_natural_join, do_print).
THEOREM StorageResultsExact ==
    ASSUME HashInRange
    PROVE Spec => [](OperandNamed => ResultsExact)
<1>1. EngineInv /\ ScansInv => (OperandNamed => ResultsExact)
  BY ApartStored, PrintFollows, ResultFollows DEF EngineInv, ScansInv, ResultsExact
<1>. QED
  BY <1>1, ScansAlways, PTL
=============================================================================

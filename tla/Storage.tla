------------------------------- MODULE Storage -------------------------------
(***************************************************************************)
(* The storage engine and the relational operators of assignment06/mydb.c: *)
(* the bitmap of the simulated disk, the header block of every relation    *)
(* with its hash buckets and overflow blocks, the dictionary relations     *)
(* catalog and columns, and the commands CR DE IN RM UP PR PJ SL UN DF NJ. *)
(*                                                                         *)
(* One command runs at a time (in the server under g_db_mutex).  It takes  *)
(* one step per line it reads, per block it loads into a scan buffer and   *)
(* per slot of the buffer it looks at.                                     *)
(***************************************************************************)
EXTENDS Integers, Sequences, FiniteSetsExt

CONSTANTS
    DISKSIZE,   \* blocks of the disk
    BLKFAC,     \* slots of a block
    BLKMAX,     \* data blocks of a relation, for a base relation its buckets
    OVBLKMAX,   \* overflow blocks of a relation
    MAX_REL,    \* entries of g_relations
    Commands,   \* the commands the input may hold
    Hash(_),    \* the bucket, from 0, that the key fields of a row fall into
    Words       \* the field values that str_is_int rejects

ASSUME StorageAssumption ==
    /\ DISKSIZE \in Nat /\ DISKSIZE >= 3
    /\ BLKFAC \in Nat \ {0} /\ BLKMAX \in Nat \ {0} /\ OVBLKMAX \in Nat
    /\ MAX_REL \in Nat /\ MAX_REL >= 2
    /\ \A c \in Commands : c.verb \in {"CR", "PJ"} => c.attrs \in Seq(Range(c.attrs))
    /\ \A c \in Commands : c.verb = "CR" => c.keysize \in Nat
    /\ \A c \in Commands : c.verb \in {"IN", "RM", "UP"} =>
           /\ c.lines \in Seq(Range(c.lines))
           /\ \A i \in DOMAIN c.lines : c.lines[i] \in Seq(Range(c.lines[i]))

VARIABLES
    bitmapblk,     \* bitmapblk[b]: 1 if block b is taken
    headers,       \* headers[b]: what block b says when read as a header
    virtual_disk,  \* virtual_disk[b]: the slots of block b when read as data
    g_relations,   \* the relations in use, by name
    data_buffers,  \* the buffers that scans read blocks into
    pc, command,   \* what the engine is doing, and for which command
    lines,         \* the lines of the command that are still to be read
    pending,       \* dictionary rows still to be written
    cursor,        \* cursor[w]: the place of the scan w
    pf,            \* the row of the first relation that is being joined
    printed        \* the rows a PR has printed

storage == <<bitmapblk, headers, virtual_disk>>
scans   == <<data_buffers, cursor, pf, printed>>
vars    == <<storage, g_relations, scans, pc, command, lines, pending>>

-----------------------------------------------------------------------------
(***************************************************************************)
(* Blocks, headers and relations.  A row is a sequence of fields; the      *)
(* dictionary's rows keep only the fields the model needs.  Block 0 holds  *)
(* the bitmap, so 0 in a header means "no block".                          *)
(***************************************************************************)
Blocks == 0 .. DISKSIZE - 1

Free == << >>

EmptyBlock == [s \in 1 .. BLKFAC |-> Free]

EmptyHeader ==
    [data     |-> [i \in 1 .. BLKMAX |-> 0],
     overflow |-> [i \in 1 .. OVBLKMAX |-> 0],
     num      |-> [data |-> 0, overflow |-> 0]]

Attrs(names, domain) ==
    [i \in DOMAIN names |-> [name |-> names[i], domain |-> domain]]

Relation(base, attrs, keysize, block) ==
    [is_base |-> base, attrs |-> attrs, keysize |-> keysize, header_block |-> block]

Dictionary ==
    [n \in {"catalog", "columns"} |->
        IF n = "catalog"
        THEN Relation(TRUE, Attrs(<<"Relname", "Relptr">>, "S"), 1, 1)
        ELSE Relation(TRUE, Attrs(<<"Relname", "Attname", "Attpos">>, "S"), 2, 2)]

NoCommand == [verb |-> "none"]
NoScan    == [left |-> << >>, slot |-> BLKFAC + 1]

Init ==
    /\ bitmapblk = [b \in Blocks |-> IF b < 3 THEN 1 ELSE 0]
    /\ headers = [b \in Blocks |-> EmptyHeader]
    /\ virtual_disk = [b \in Blocks |-> EmptyBlock]
    /\ g_relations = Dictionary
    /\ data_buffers = [i \in 1 .. 2 |-> EmptyBlock]
    /\ pc = "idle"
    /\ command = NoCommand
    /\ lines = << >>
    /\ pending = << >>
    /\ cursor = [w \in {"scan", "join"} |-> NoScan]
    /\ pf = Free
    /\ printed = << >>

Exists(n) == n \in DOMAIN g_relations

IsDictionary(n) == n \in DOMAIN Dictionary

Header(n) == headers[g_relations[n].header_block]

\* The elements of s at some of its positions, in their order.
Picked(s, positions) ==
    [k \in 1 .. Cardinality(positions) |->
        s[Min({i \in positions : Cardinality({j \in positions : j <= i}) >= k})]]

Used(entries) == Picked(entries, {i \in DOMAIN entries : entries[i] # 0})

\* The blocks in which the rows of a relation are.
RowBlocks(n) ==
    (Range(Header(n).data)
        \union (IF g_relations[n].is_base THEN Range(Header(n).overflow) ELSE {})) \ {0}

\* The same blocks, in the order in which they are searched.
BlockList(n) ==
    Used(Header(n).data)
        \o (IF g_relations[n].is_base THEN Used(Header(n).overflow) ELSE << >>)

\* Every slot of a relation, in that order.
Places(n) ==
    LET blocks == BlockList(n)
    IN  [k \in 1 .. Len(blocks) * BLKFAC |->
            <<blocks[((k - 1) \div BLKFAC) + 1], ((k - 1) % BLKFAC) + 1>>]

RowAt(place) == virtual_disk[place[1]][place[2]]

Rows(n) == {RowAt(place) : place \in RowBlocks(n) \X (1 .. BLKFAC)} \ {Free}

KeyOf(row, k) == SubSeq(row, 1, k)

\* Variant of Found: only the data blocks are searched.
FoundInData(n, key) ==
    LET places == Places(n)
        hits   == {i \in DOMAIN places : /\ places[i][1] \in Range(Header(n).data)
                                        /\ RowAt(places[i]) # Free
                                        /\ KeyOf(RowAt(places[i]), Len(key)) = key}
    IN  IF hits = {} THEN {} ELSE {places[Min(hits)]}

\* Where find_base_tuple_by_key finds a key: nowhere, or in the first place.
Found(n, key) ==
    LET places == Places(n)
        hits   == {i \in DOMAIN places : /\ RowAt(places[i]) # Free
                                        /\ Len(key) = g_relations[n].keysize
                                        /\ KeyOf(RowAt(places[i]), Len(key)) = key}
    IN  IF hits = {} THEN {} ELSE {places[Min(hits)]}

\* The position of an attribute; 0 if the relation has none of that name.
AttrIndex(attrs, name) ==
    LET hits == {i \in DOMAIN attrs : attrs[i].name = name}
    IN  IF hits = {} THEN 0 ELSE Min(hits)

AttrNames(attrs) == {attrs[i].name : i \in DOMAIN attrs}

-----------------------------------------------------------------------------
(***************************************************************************)
(* Writing rows.  No caller looks at what append_tuple returns, so a row   *)
(* that finds no place is dropped without a trace.                         *)
(***************************************************************************)
\* Variant of FreeBlocks: the search ends before the last block.
FreeBlocksButLast == {b \in Blocks : bitmapblk[b] = 0 /\ b + 1 # DISKSIZE}

FreeBlocks == {b \in Blocks : bitmapblk[b] = 0}

FreeSlots(b) == {s \in 1 .. BLKFAC : virtual_disk[b][s] = Free}

WriteTuple(b, s, row) ==
    /\ virtual_disk' = [virtual_disk EXCEPT ![b][s] = row]
    /\ UNCHANGED <<bitmapblk, headers>>

\* Variant of Grow: the block stays free in the bitmap.
GrowUnmarked(n, kind, i, row) ==
    IF FreeBlocks = {} THEN UNCHANGED storage
    ELSE LET b  == Min(FreeBlocks)
             hb == g_relations[n].header_block
         IN  /\ UNCHANGED bitmapblk
             /\ headers' = [headers EXCEPT ![hb][kind][i] = b, ![hb].num[kind] = @ + 1]
             /\ virtual_disk' = [virtual_disk EXCEPT ![b] = [EmptyBlock EXCEPT ![1] = row]]

\* A fresh block, cleared, for entry i of the relation's data or overflow
\* blocks, with the row in its first slot.
Grow(n, kind, i, row) ==
    IF FreeBlocks = {} THEN UNCHANGED storage
    ELSE LET b  == Min(FreeBlocks)
             hb == g_relations[n].header_block
         IN  /\ bitmapblk' = [bitmapblk EXCEPT ![b] = 1]
             /\ headers' = [headers EXCEPT ![hb][kind][i] = b, ![hb].num[kind] = @ + 1]
             /\ virtual_disk' = [virtual_disk EXCEPT ![b] = [EmptyBlock EXCEPT ![1] = row]]

HasRoom(b) == b # 0 /\ FreeSlots(b) # {}

\* The entries of a header whose blocks have room, and those without a block.
WithRoom(n, kind) == {i \in DOMAIN Header(n)[kind] : HasRoom(Header(n)[kind][i])}
Missing(n, kind)  == {i \in DOMAIN Header(n)[kind] : Header(n)[kind][i] = 0}

WriteInto(b, row) == WriteTuple(b, Min(FreeSlots(b)), row)

\* A row of a base relation goes to its bucket, then to an overflow block with
\* room, then to a new overflow block.
InsertBase(n, row) ==
    LET bucket == Hash(KeyOf(row, g_relations[n].keysize)) + 1
        home   == Header(n).data[bucket]
        spill  == WithRoom(n, "overflow")
    IN  \/ /\ home = 0
           /\ Grow(n, "data", bucket, row)
        \/ /\ HasRoom(home)
           /\ WriteInto(home, row)
        \/ /\ home # 0 /\ ~HasRoom(home) /\ spill # {}
           /\ WriteInto(Header(n).overflow[Min(spill)], row)
        \/ /\ home # 0 /\ ~HasRoom(home) /\ spill = {}
           /\ IF Header(n).num["overflow"] < OVBLKMAX
              THEN Grow(n, "overflow", Min(Missing(n, "overflow")), row)
              ELSE UNCHANGED storage

\* A row of a derived relation goes to the first block with room, then to a
\* new one.
InsertHeap(n, row) ==
    LET place == WithRoom(n, "data")
    IN  \/ /\ place # {}
           /\ WriteInto(Header(n).data[Min(place)], row)
        \/ /\ place = {}
           /\ IF Header(n).num["data"] < BLKMAX
              THEN Grow(n, "data", Min(Missing(n, "data")), row)
              ELSE UNCHANGED storage

AppendTuple(n, row) ==
    IF g_relations[n].is_base THEN InsertBase(n, row) ELSE InsertHeap(n, row)

-----------------------------------------------------------------------------
(***************************************************************************)
(* Commands: which are carried out, and what the new relation looks like.  *)
(***************************************************************************)
Makers == {"CR", "PJ", "SL", "UN", "DF", "NJ"}

ResultName(c) == IF c.verb = "CR" THEN c.p ELSE c.r

AttrsOf(n) == g_relations[n].attrs

\* The second relation's attributes that do not take part in a join, by position.
Rest(c) ==
    LET joined    == {AttrIndex(AttrsOf(c.q), c.attrs[j]) : j \in DOMAIN c.attrs}
        positions == DOMAIN AttrsOf(c.q)
    IN  Picked([i \in positions |-> i], positions \ joined)

ResultAttrs(c) ==
    CASE c.verb = "CR" -> c.attrs
      [] c.verb = "PJ" -> [i \in DOMAIN c.attrs |->
                              AttrsOf(c.p)[AttrIndex(AttrsOf(c.p), c.attrs[i])]]
      [] c.verb = "NJ" -> AttrsOf(c.p) \o [i \in DOMAIN Rest(c) |-> AttrsOf(c.q)[Rest(c)[i]]]
      [] OTHER         -> AttrsOf(c.p)

Compatible(ps, qs) ==
    /\ Len(ps) = Len(qs)
    /\ \A i \in DOMAIN ps :
           \E j \in {AttrIndex(qs, ps[i].name)} : j # 0 /\ ps[i].domain = qs[j].domain

Joinable(ps, qs, name) ==
    \E i \in {AttrIndex(ps, name)}, j \in {AttrIndex(qs, name)} :
        i # 0 /\ j # 0 /\ ps[i].domain = qs[j].domain

Accepted(c) ==
    /\ c.verb \in Makers => ~Exists(ResultName(c)) /\ ~IsDictionary(ResultName(c))
    /\ c.verb # "CR" => Exists(c.p)
    /\ c.verb \in {"UN", "DF", "NJ"} => Exists(c.q)
    /\ c.verb \in {"DE", "IN", "RM", "UP"} => ~IsDictionary(c.p)
    /\ c.verb \in {"IN", "RM", "UP"} => g_relations[c.p].is_base
    /\ c.verb = "PJ" => /\ Len(c.attrs) \in 1 .. Len(AttrsOf(c.p))
                        /\ Range(c.attrs) \subseteq AttrNames(AttrsOf(c.p))
    /\ c.verb = "SL" => \A i \in DOMAIN c.conds :
                            c.conds[i].attr \in AttrNames(AttrsOf(c.p))
    /\ c.verb \in {"UN", "DF"} => Compatible(AttrsOf(c.p), AttrsOf(c.q))
    /\ c.verb = "NJ" => \A i \in DOMAIN c.attrs :
                            Joinable(AttrsOf(c.p), AttrsOf(c.q), c.attrs[i])

-----------------------------------------------------------------------------
(***************************************************************************)
(* A command begins: refused, without anything left to do, or with lines,  *)
(* dictionary rows or a scan ahead of it.                                  *)
(***************************************************************************)
Refuse(c) ==
    /\ pc = "idle"
    /\ ~Accepted(c) \/ (c.verb \in Makers /\ FreeBlocks = {})
    /\ UNCHANGED vars

\* Variant of DictionaryRows: the last attribute is left out.
DictionaryRowsButLast(name, attrs, block) ==
    << [to |-> "catalog", row |-> <<name, block>>] >>
        \o [i \in 1 .. Len(attrs) - 1 |-> [to |-> "columns", row |-> <<name, attrs[i].name, i>>]]

DictionaryRows(name, attrs, block) ==
    << [to |-> "catalog", row |-> <<name, block>>] >>
        \o [i \in DOMAIN attrs |-> [to |-> "columns", row |-> <<name, attrs[i].name, i>>]]

\* create_relation: a header block, then an entry of g_relations, which may be
\* missing, and then the header block is given back.
BeginCreate(c) ==
    LET name    == ResultName(c)
        attrs   == ResultAttrs(c)
        keysize == IF c.verb = "CR" THEN c.keysize ELSE Len(attrs)
        hb      == Min(FreeBlocks)
    IN  /\ pc = "idle"
        /\ c.verb \in Makers /\ Accepted(c) /\ FreeBlocks # {}
        /\ headers' = [headers EXCEPT ![hb] = EmptyHeader]
        /\ IF Cardinality(DOMAIN g_relations) < MAX_REL
           THEN /\ bitmapblk' = [bitmapblk EXCEPT ![hb] = 1]
                /\ g_relations' = [n \in DOMAIN g_relations \union {name} |->
                                      IF n = name
                                      THEN Relation(c.verb = "CR", attrs, keysize, hb)
                                      ELSE g_relations[n]]
                /\ pending' = DictionaryRows(name, attrs, hb)
                /\ pc' = "dictionary"
                /\ command' = c
           ELSE UNCHANGED <<bitmapblk, g_relations, pending, pc, command>>
        /\ UNCHANGED <<virtual_disk, lines, scans>>

\* Variant of OwnBlocks: overflow blocks are not given back.
OwnBlocksButOverflow(n) == Range(Header(n).data) \union {g_relations[n].header_block}

OwnBlocks(n) ==
    Range(Header(n).data) \union Range(Header(n).overflow) \union {g_relations[n].header_block}

\* Variant of DictionaryBlocks: the attributes of a relation stay described.
DictionaryBlocksOfCatalog == RowBlocks("catalog")

\* Where the rows that describe relations are.
DictionaryBlocks == RowBlocks("catalog") \union RowBlocks("columns")

Describes(b, s, name) ==
    /\ b \in DictionaryBlocks
    /\ virtual_disk[b][s] # Free
    /\ virtual_disk[b][s][1] = name

\* delete_relation: the blocks are free again, the dictionary forgets the name.
Delete(c) ==
    /\ pc = "idle"
    /\ c.verb = "DE" /\ Accepted(c)
    /\ bitmapblk' = [b \in Blocks |-> IF b \in OwnBlocks(c.p) \ {0} THEN 0 ELSE bitmapblk[b]]
    /\ virtual_disk' = [b \in Blocks |-> [s \in 1 .. BLKFAC |->
                           IF Describes(b, s, c.p) THEN Free ELSE virtual_disk[b][s]]]
    /\ g_relations' = [n \in DOMAIN g_relations \ {c.p} |-> g_relations[n]]
    /\ UNCHANGED <<headers, scans, pc, command, lines, pending>>

BeginLines(c) ==
    /\ pc = "idle"
    /\ c.verb \in {"IN", "RM", "UP"} /\ Accepted(c)
    /\ pc' = "lines"
    /\ command' = c
    /\ lines' = c.lines
    /\ UNCHANGED <<storage, g_relations, scans, pending>>

\* read_header at the start of a scan.
ScanOf(n) == [left |-> BlockList(n), slot |-> BLKFAC + 1]

BeginPrint(c) ==
    /\ pc = "idle"
    /\ c.verb = "PR" /\ Accepted(c)
    /\ pc' = "scan"
    /\ command' = c
    /\ cursor' = [cursor EXCEPT !["scan"] = ScanOf(c.p)]
    /\ UNCHANGED <<storage, g_relations, data_buffers, pf, printed, lines, pending>>

\* The command is over.  A scan fills its buffer before it reads from it, so
\* what the buffers hold between two commands does not matter and is forgotten.
EndCommand ==
    /\ pc' = "idle"
    /\ command' = NoCommand
    /\ data_buffers' = [i \in 1 .. 2 |-> EmptyBlock]
    /\ cursor' = [w \in {"scan", "join"} |-> NoScan]
    /\ pf' = Free
    /\ printed' = << >>

-----------------------------------------------------------------------------
(***************************************************************************)
(* Lines of IN, RM and UP.                                                 *)
(***************************************************************************)
\* validate_tuple_domains.
Valid(n, row) ==
    /\ Len(row) = Len(AttrsOf(n))
    /\ \A i \in DOMAIN row : AttrsOf(n)[i].domain = "I" => row[i] \notin Words

\* The key of a row, for a row with all its fields.
FoundLike(n, row) == Found(n, KeyOf(row, g_relations[n].keysize))

InsertLine(n, row) ==
    IF Valid(n, row) /\ FoundLike(n, row) = {} THEN AppendTuple(n, row) ELSE UNCHANGED storage

\* The line holds key fields; how many there are must agree with the key.
RemoveLine(n, key) ==
    \/ /\ Found(n, key) = {}
       /\ UNCHANGED storage
    \/ \E place \in Found(n, key) : WriteTuple(place[1], place[2], Free)

UpdateLine(n, row) ==
    \/ /\ Valid(n, row)
       /\ \E place \in FoundLike(n, row) : WriteTuple(place[1], place[2], row)
    \/ /\ Valid(n, row) => FoundLike(n, row) = {}
       /\ UNCHANGED storage

CarryOutLine ==
    /\ pc = "lines" /\ lines # << >>
    /\ \/ command.verb = "IN" /\ InsertLine(command.p, Head(lines))
       \/ command.verb = "RM" /\ RemoveLine(command.p, Head(lines))
       \/ command.verb = "UP" /\ UpdateLine(command.p, Head(lines))
    /\ lines' = Tail(lines)
    /\ UNCHANGED <<g_relations, scans, pc, command, pending>>

EndLines ==
    /\ pc = "lines" /\ lines = << >>
    /\ EndCommand
    /\ UNCHANGED <<storage, g_relations, lines, pending>>

-----------------------------------------------------------------------------
(***************************************************************************)
(* The dictionary rows of a new relation, then the scan that fills it.     *)
(***************************************************************************)
Describe ==
    /\ pc = "dictionary" /\ pending # << >>
    /\ AppendTuple(Head(pending).to, Head(pending).row)
    /\ pending' = Tail(pending)
    /\ UNCHANGED <<g_relations, scans, pc, command, lines>>

EndDictionary ==
    /\ pc = "dictionary" /\ pending = << >>
    /\ IF command.verb = "CR"
       THEN EndCommand
       ELSE /\ pc' = "scan"
            /\ cursor' = [cursor EXCEPT !["scan"] = ScanOf(command.p)]
            /\ UNCHANGED <<command, data_buffers, pf, printed>>
    /\ UNCHANGED <<storage, g_relations, lines, pending>>

-----------------------------------------------------------------------------
(***************************************************************************)
(* Scans.  scan_relation reads into data_buffers[2], the inner loop of a   *)
(* join into data_buffers[1].  data_buffers[0], which every other routine  *)
(* uses, is filled and read within one step here and is left out.          *)
(***************************************************************************)
\* Variant of BufferOf: both scans of a join read into one buffer.
BufferOfShared(w) == IF w \in {"scan", "join"} THEN 2 ELSE 1

BufferOf(w) == IF w = "scan" THEN 2 ELSE 1

Scanning == CASE pc \in {"scan", "second"} -> {"scan"}
              [] pc = "join"               -> {"join"}
              [] OTHER                     -> {}

BlockRead(w) == cursor[w].slot > BLKFAC

ScanOver(w) == BlockRead(w) /\ cursor[w].left = << >>

LoadBlock(w) ==
    /\ w \in Scanning
    /\ BlockRead(w) /\ cursor[w].left # << >>
    /\ data_buffers' = [data_buffers EXCEPT ![BufferOf(w)] = virtual_disk[Head(cursor[w].left)]]
    /\ cursor' = [cursor EXCEPT ![w] = [left |-> Tail(@.left), slot |-> 1]]
    /\ UNCHANGED <<storage, g_relations, pf, printed, pc, command, lines, pending>>

AtSlot(w) == data_buffers[BufferOf(w)][cursor[w].slot]

NextSlot(w) == cursor' = [cursor EXCEPT ![w].slot = @ + 1]

SkipSlot(w) ==
    /\ w \in Scanning /\ ~BlockRead(w)
    /\ AtSlot(w) = Free
    /\ NextSlot(w)
    /\ UNCHANGED <<storage, g_relations, data_buffers, pf, printed, pc, command, lines, pending>>

PrintRow ==
    /\ pc = "scan" /\ command.verb = "PR"
    /\ ~BlockRead("scan") /\ AtSlot("scan") # Free
    /\ printed' = Append(printed, AtSlot("scan"))
    /\ NextSlot("scan")
    /\ UNCHANGED <<storage, g_relations, data_buffers, pf, pc, command, lines, pending>>

\* eval_cmp on values given by their place in the order of their domain.
Compare(op, x, y) ==
    CASE op = "==" -> x = y
      [] op = "!=" -> x # y
      [] op = ">"  -> x > y
      [] op = ">=" -> x >= y
      [] op = "<"  -> x < y
      [] op = "<=" -> x <= y

Meets(c, row) ==
    \A i \in DOMAIN c.conds :
        Compare(c.conds[i].op, row[AttrIndex(AttrsOf(c.p), c.conds[i].attr)], c.conds[i].value)

Projected(c, row) == [i \in DOMAIN c.attrs |-> row[AttrIndex(AttrsOf(c.p), c.attrs[i])]]

\* A row of the second relation in the order of the first one's attributes.
Mapped(c, row) ==
    [i \in DOMAIN AttrsOf(c.p) |-> row[AttrIndex(AttrsOf(c.q), AttrsOf(c.p)[i].name)]]

\* What the callback of a command appends for a row: one row or none.
Output(c, row) ==
    CASE c.verb = "PJ" -> {Projected(c, row)} \ Rows(c.r)
      [] c.verb = "SL" -> {x \in {row} : Meets(c, x)}
      [] c.verb = "UN" -> {IF pc = "scan" THEN row ELSE Mapped(c, row)} \ Rows(c.r)
      [] c.verb = "DF" -> {x \in {row} : \A y \in Rows(c.q) : Mapped(c, y) # x}

Emit(n, rows) ==
    \/ rows = {} /\ UNCHANGED storage
    \/ \E row \in rows : AppendTuple(n, row)

DeriveRow ==
    /\ pc \in {"scan", "second"} /\ command.verb \in {"PJ", "SL", "UN", "DF"}
    /\ ~BlockRead("scan") /\ AtSlot("scan") # Free
    /\ Emit(command.r, Output(command, AtSlot("scan")))
    /\ NextSlot("scan")
    /\ UNCHANGED <<g_relations, data_buffers, pf, printed, pc, command, lines, pending>>

\* UN scans its second relation after its first.
BeginSecond ==
    /\ pc = "scan" /\ command.verb = "UN" /\ ScanOver("scan")
    /\ pc' = "second"
    /\ cursor' = [cursor EXCEPT !["scan"] = ScanOf(command.q)]
    /\ UNCHANGED <<storage, g_relations, data_buffers, pf, printed, command, lines, pending>>

\* join_with_p_tuple: a copy of p's row, then a scan of q for it.
BeginJoin ==
    /\ pc = "scan" /\ command.verb = "NJ"
    /\ ~BlockRead("scan") /\ AtSlot("scan") # Free
    /\ pf' = AtSlot("scan")
    /\ pc' = "join"
    /\ cursor' = [cursor EXCEPT !["scan"].slot = @ + 1, !["join"] = ScanOf(command.q)]
    /\ UNCHANGED <<storage, g_relations, data_buffers, printed, command, lines, pending>>

Matches(c, x, y) ==
    \A j \in DOMAIN c.attrs :
        x[AttrIndex(AttrsOf(c.p), c.attrs[j])] = y[AttrIndex(AttrsOf(c.q), c.attrs[j])]

Joined(c, x, y) == x \o [i \in DOMAIN Rest(c) |-> y[Rest(c)[i]]]

JoinRow ==
    /\ pc = "join"
    /\ ~BlockRead("join") /\ AtSlot("join") # Free
    /\ LET y == AtSlot("join")
       IN  Emit(command.r, IF Matches(command, pf, y) THEN {Joined(command, pf, y)} ELSE {})
    /\ NextSlot("join")
    /\ UNCHANGED <<g_relations, data_buffers, pf, printed, pc, command, lines, pending>>

EndJoin ==
    /\ pc = "join" /\ ScanOver("join")
    /\ pc' = "scan"
    /\ UNCHANGED <<storage, g_relations, scans, command, lines, pending>>

\* The last scan of a command is over.
Complete ==
    /\ pc = (IF command.verb = "UN" THEN "second" ELSE "scan")
    /\ ScanOver("scan")

EndScan ==
    /\ pc \in {"scan", "second"} /\ Complete
    /\ EndCommand
    /\ UNCHANGED <<storage, g_relations, lines, pending>>

-----------------------------------------------------------------------------
Next ==
    \/ \E c \in Commands :
           \/ Refuse(c) \/ BeginCreate(c) \/ Delete(c) \/ BeginLines(c) \/ BeginPrint(c)
    \/ CarryOutLine \/ EndLines
    \/ Describe \/ EndDictionary
    \/ \E w \in {"scan", "join"} : LoadBlock(w) \/ SkipSlot(w)
    \/ PrintRow \/ DeriveRow \/ BeginSecond
    \/ BeginJoin \/ JoinRow \/ EndJoin \/ EndScan

Spec == Init /\ [][Next]_vars

-----------------------------------------------------------------------------
(***************************************************************************)
(* Properties.                                                             *)
(***************************************************************************)
Counts(h) == h.num["data"] \in 0 .. BLKMAX /\ h.num["overflow"] \in 0 .. OVBLKMAX

\* Every variable has its type, every relation keeps rows with all its fields,
\* and there are no more relations than entries of g_relations.
TypeOK ==
    /\ bitmapblk \in [Blocks -> {0, 1}]
    /\ \A b \in Blocks : /\ headers[b].data \in [1 .. BLKMAX -> Blocks]
                         /\ headers[b].overflow \in [1 .. OVBLKMAX -> Blocks]
                         /\ Counts(headers[b])
                         /\ DOMAIN virtual_disk[b] = 1 .. BLKFAC
    /\ \A n \in DOMAIN g_relations : /\ g_relations[n].header_block \in Blocks
                                     /\ g_relations[n].is_base \in BOOLEAN
                                     /\ \A row \in Rows(n) : Len(row) = Len(AttrsOf(n))
    /\ Cardinality(DOMAIN g_relations) <= MAX_REL
    /\ DOMAIN data_buffers = 1 .. 2
    /\ pc \in {"idle", "lines", "dictionary", "scan", "second", "join"}
    /\ command \in Commands \union {NoCommand}
    /\ \A w \in {"scan", "join"} : cursor[w].slot \in 1 .. BLKFAC + 1

\* What refers to a block: a relation whose header it is, or an entry of one.
Owners(b) ==
    {<<n, "header", 0>> : n \in {m \in DOMAIN g_relations : g_relations[m].header_block = b}}
    \union
    {x \in (DOMAIN g_relations) \X {"data", "overflow"} \X (1 .. BLKMAX + OVBLKMAX) :
        /\ b # 0
        /\ x[3] \in DOMAIN Header(x[1])[x[2]]
        /\ Header(x[1])[x[2]][x[3]] = b}

\* Every block the bitmap calls taken belongs to one relation, in one place, and
\* no relation refers to a block that is free.  Only block 0, which allocate_block
\* must never hand out because 0 means "none", belongs to nobody.
BlocksOwnedOnce ==
    \A b \in Blocks : /\ (bitmapblk[b] = 1) <=> (b = 0 \/ Owners(b) # {})
                      /\ \A x, y \in Owners(b) : x = y

\* No relation keeps a row twice: IN looks for the key, PJ and UN for the row,
\* while SL, DF and NJ rely on the relations they read.
StoredOnce ==
    \A n \in DOMAIN g_relations :
        LET places == Places(n)
        IN  \A i, j \in DOMAIN places :
                RowAt(places[i]) = RowAt(places[j]) => i = j \/ RowAt(places[i]) = Free

\* The least number of rows a relation has when it may turn another one down: a
\* bucket and the overflow blocks, or all blocks of a heap.
Capacity(n) == BLKFAC * (IF g_relations[n].is_base THEN 1 + OVBLKMAX ELSE BLKMAX)

MayRefuse(n) ==
    \/ \A b \in Blocks : bitmapblk[b] = 1
    \/ Cardinality(Rows(n)) >= Capacity(n)

\* The dictionary describes what there is: no row is left of a relation that is
\* gone, and none tells of a block or an attribute the relation does not have.
DictionarySound ==
    /\ Rows("catalog") \subseteq
           {<<n, g_relations[n].header_block>> : n \in DOMAIN g_relations \ DOMAIN Dictionary}
    /\ Rows("columns") \subseteq
           UNION {{<<n, AttrsOf(n)[i].name, i>> : i \in DOMAIN AttrsOf(n)} :
                      n \in DOMAIN g_relations \ DOMAIN Dictionary}

DescribedIn(n) ==
    /\ <<n, g_relations[n].header_block>> \in Rows("catalog") \/ MayRefuse("catalog")
    /\ \A i \in DOMAIN AttrsOf(n) :
           <<n, AttrsOf(n)[i].name, i>> \in Rows("columns") \/ MayRefuse("columns")

\* A relation that has been created is described in full, unless the dictionary
\* or the disk is full.
DescribedUnlessFull ==
    pc = "dictionary" /\ pending = << >> => DescribedIn(ResultName(command))

\* The rows of a relation as functions from attribute names to values.
Named(n) ==
    {[a \in AttrNames(AttrsOf(n)) |-> row[AttrIndex(AttrsOf(n), a)]] : row \in Rows(n)}

\* The relational algebra over such rows.
Expected(c) ==
    CASE c.verb = "PJ" -> {[a \in Range(c.attrs) |-> f[a]] : f \in Named(c.p)}
      [] c.verb = "SL" -> {f \in Named(c.p) : \A i \in DOMAIN c.conds :
                               Compare(c.conds[i].op, f[c.conds[i].attr], c.conds[i].value)}
      [] c.verb = "UN" -> Named(c.p) \union Named(c.q)
      [] c.verb = "DF" -> Named(c.p) \ Named(c.q)
      [] c.verb = "NJ" -> {[a \in DOMAIN fg[1] \union DOMAIN fg[2] |->
                               IF a \in DOMAIN fg[1] THEN fg[1][a] ELSE fg[2][a]] :
                           fg \in {x \in Named(c.p) \X Named(c.q) :
                                      \A a \in Range(c.attrs) : x[1][a] = x[2][a]}}

\* When PJ, SL, UN, DF or NJ ends, its relation holds what the algebra says; rows
\* may be missing only if the relation or the disk is full.
ResultExact ==
    Complete /\ command.verb # "PR" =>
        /\ Named(command.r) \subseteq Expected(command)
        /\ Named(command.r) = Expected(command) \/ MayRefuse(command.r)

\* When a PR ends it has printed every row of the relation, and each once.
PrintedOnce ==
    Complete /\ command.verb = "PR" =>
        /\ Range(printed) = Rows(command.p)
        /\ Len(printed) = Cardinality(Rows(command.p))

\* A line of an IN that is valid and new is dropped only if the disk is full or
\* the relation has at least as many rows as a bucket with all overflow blocks.
RefusedOnlyWhenFull ==
    [][LET row == Head(lines)
       IN  /\ pc = "lines" /\ command.verb = "IN" /\ lines # << >> /\ lines' = Tail(lines)
           /\ Valid(command.p, row) /\ FoundLike(command.p, row) = {}
           => row \in Rows(command.p)' \/ MayRefuse(command.p)]_vars

Targets ==
    IF command.verb \in {"IN", "RM", "UP"} THEN {command.p}
    ELSE IF command.verb \in Makers \ {"CR"} THEN {command.r} ELSE {}

\* A command changes the rows of its own relation only: blocks are shared with no
\* other relation, and a block that is used again brings no old rows with it.
OnlyTheTarget ==
    [][\A n \in (DOMAIN g_relations \intersect DOMAIN g_relations') \ DOMAIN Dictionary :
           Rows(n)' # Rows(n) => n \in Targets]_vars

\* The relations other than the dictionary are sets of rows with unique keys,
\* which change one row at a time.
Store == INSTANCE RelationStore WITH
    store <- [n \in DOMAIN g_relations \ DOMAIN Dictionary |->
                 [keysize |-> g_relations[n].keysize, rows |-> Rows(n)]]

\* Buckets, overflow blocks, heaps and scans implement RelationStore.
ImplementsRelationStore == Store!Spec

\* What a derived relation holds and what a PR prints is what the algebra says, and
\* no row is in a relation twice (do_project to do_natural_join, do_print).
ResultsExact == StoredOnce /\ ResultExact /\ PrintedOnce
=============================================================================

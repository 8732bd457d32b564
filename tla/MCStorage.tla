----------------------------- MODULE MCStorage -----------------------------
(***************************************************************************)
(* Instances of Storage for TLC.  Field values are numbers in the order of *)
(* their domain.                                                           *)
(***************************************************************************)
EXTENDS Storage

CONSTANTS r, s, t, p, q, x, z   \* relation names

Column(name) == [name |-> name, domain |-> "I"]

CR(n, attrs, k)     == [verb |-> "CR", p |-> n, attrs |-> attrs, keysize |-> k]
DE(n)               == [verb |-> "DE", p |-> n]
IN_(n, rows)        == [verb |-> "IN", p |-> n, lines |-> rows]
RM(n, keys)         == [verb |-> "RM", p |-> n, lines |-> keys]
UP(n, rows)         == [verb |-> "UP", p |-> n, lines |-> rows]
PR(n)               == [verb |-> "PR", p |-> n]
PJ(m, n, attrs)     == [verb |-> "PJ", p |-> m, r |-> n, attrs |-> attrs]
SL(m, n, conds)     == [verb |-> "SL", p |-> m, r |-> n, conds |-> conds]
UN(m, o, n)         == [verb |-> "UN", p |-> m, q |-> o, r |-> n]
DF(m, o, n)         == [verb |-> "DF", p |-> m, q |-> o, r |-> n]
NJ(m, o, n, attrs)  == [verb |-> "NJ", p |-> m, q |-> o, r |-> n, attrs |-> attrs]

Cond(attr, op, value) == [attr |-> attr, op |-> op, value |-> value]

\* Rows of data fall into buckets by their first field, the dictionary's rows by
\* the relation they describe: all of catalog into bucket 0, of columns into 1.
MCHash(key) ==
    IF key[1] \in {0, 1, 2, 3, 4, 5, 6, 7, 8} THEN key[1] % BLKMAX ELSE Len(key) - 1

MCWords == {7}

\* A relation that grows past its bucket, shrinks and goes, one beside it, and a
\* third that g_relations has no entry left for when the two exist.
BaseCommands == {
    CR(r, <<Column("k"), Column("v")>>, 1), DE(r),
    IN_(r, << <<0, 0>>, <<2, 0>>, <<4, 0>> >>),
    IN_(r, << <<0>>, <<7, 0>>, <<6, 0>>, <<8, 0>> >>),
    RM(r, << <<0>>, <<4, 0>> >>),
    UP(r, << <<6, 1>> >>),
    CR(s, <<Column("k"), Column("l"), Column("m")>>, 1),
    IN_(s, << <<0, 0, 0>>, <<1, 0, 0>> >>),
    CR(t, <<Column("k")>>, 1) }

\* Every operator on two base relations.  The second has the columns of the first
\* in another order, or one column in common with it.
AlgebraCommands == {
    CR(p, <<Column("a"), Column("b")>>, 2),
    CR(q, <<Column("b"), Column("a")>>, 2), CR(q, <<Column("b"), Column("c")>>, 1),
    IN_(p, << <<0, 0>>, <<1, 0>>, <<0, 1>>, <<2, 0>> >>), RM(p, << <<2, 0>> >>),
    IN_(q, << <<0, 0>>, <<4, 4>>, <<2, 2>>, <<1, 1>> >>),
    PJ(p, x, <<"b">>),
    SL(p, x, <<Cond("a", ">", 0), Cond("b", "<=", 0)>>),
    UN(p, q, x), DF(p, q, x), NJ(p, q, x, <<"b">>),
    PJ(x, z, <<"a">>),
    PR(p), PR(x) }

=============================================================================

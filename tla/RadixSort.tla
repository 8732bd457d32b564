------------------------------ MODULE RadixSort ------------------------------
(***************************************************************************)
(* assignment08/RadixParallel.c: p ranks hold a block each of one array    *)
(* and sort it by one digit after the other.  In every pass they count     *)
(* their digits, learn from MPI_Exscan and MPI_Allreduce where their       *)
(* elements belong in the whole array, send each to the rank that owns     *)
(* that position (MPI_Alltoallv), and sort what they received by the same  *)
(* digit.                                                                  *)
(*                                                                         *)
(* A collective operation gives every rank the same result whatever order  *)
(* the ranks come in, and no rank gets past MPI_Allreduce before all are   *)
(* there: a pass is one step of all ranks.                                 *)
(***************************************************************************)
EXTENDS Integers, Sequences, FiniteSets, SequencesExt, FiniteSetsExt

CONSTANTS
    Base,    \* RADIX_BASE, at least 2
    Passes,  \* RADIX_PASSES
    MaxN,    \* bound on the length of the array
    MaxP     \* bound on the number of ranks

VARIABLES
    p,      \* the number of ranks
    input,  \* history: the array that rank 0 filled
    data,   \* data[r]: the block of rank r
    pass    \* the passes done

vars == <<p, input, data, pass>>

\* What a digit counts for.
Weight[k \in 0 .. Passes] == IF k = 0 THEN 1 ELSE Base * Weight[k - 1]

Values == 0 .. Weight[Passes] - 1
Ranks  == 0 .. p - 1
n_global == Len(input)

(***************************************************************************)
(* The partition                                                           *)
(***************************************************************************)

\* compute_partition: the first ranks have one element more.
Size(r) == n_global \div p + (IF r < n_global % p THEN 1 ELSE 0)

Start(r) == r * (n_global \div p) + (IF r < n_global % p THEN r ELSE n_global % p)

\* rank_starts
RankStart(r) == IF r = p THEN n_global ELSE Start(r)

\* owner_of_global_index: search[lo][hi] is what the loop returns from there on.
Owner(idx) ==
    LET search[lo \in 0 .. p] == [hi \in -1 .. p - 1 |->
            LET mid == lo + (hi - lo) \div 2
            IN  IF lo > hi THEN p - 1
                ELSE IF idx < RankStart(mid) THEN search[lo][mid - 1]
                ELSE IF idx >= RankStart(mid + 1) THEN search[mid + 1][hi]
                ELSE mid]
    IN  search[0][p - 1]

(***************************************************************************)
(* A pass                                                                  *)
(***************************************************************************)

\* extract_byte
Digit(v, k) == (v \div Weight[k]) % Base

\* local_hist
Hist(r, d) == Cardinality({i \in DOMAIN data[r] : Digit(data[r][i], pass) = d})

\* prefix_hist: MPI_Exscan leaves it undefined at rank 0, which clears it.
PrefixHist(r, d) == MapThenSumSet(LAMBDA q : Hist(q, d), 0 .. r - 1)

\* global_hist
GlobalHist(d) == MapThenSumSet(LAMBDA q : Hist(q, d), Ranks)

\* global_digit_start
DigitStart(d) == MapThenSumSet(GlobalHist, 0 .. d - 1)

\* The position in the whole array of element i of rank r.
GlobalPos(r, i) ==
    LET d == Digit(data[r][i], pass)
        seen == Cardinality({j \in 1 .. i - 1 : Digit(data[r][j], pass) = d})
    IN  DigitStart(d) + PrefixHist(r, d) + seen

\* What rank r puts into its send buffer for rank q, at the cursor of q.
SentTo(r, q) ==
    LET mine == {i \in DOMAIN data[r] : Owner(GlobalPos(r, i)) = q}
    IN  [m \in 1 .. Cardinality(mine) |->
            data[r][CHOOSE i \in mine : Cardinality({j \in mine : j <= i}) = m]]

\* recv_buf after MPI_Alltoallv: by rank of the sender.
Received(q) == FlattenSeq([m \in 1 .. p |-> SentTo(m - 1, q)])

\* Variant: elements are placed from left to right, from the end of their digit's places.
PlaceForward(s, i) ==
    LET d == Digit(s[i], pass)
    IN  Cardinality({j \in DOMAIN s : Digit(s[j], pass) < d})
        + Cardinality({j \in i .. Len(s) : Digit(s[j], pass) = d})

\* counting_sort_pass: where element i goes; from right to left, each digit's places
\* are filled from the end.
Place(s, i) ==
    LET d == Digit(s[i], pass)
    IN  Cardinality({j \in DOMAIN s : Digit(s[j], pass) < d})
        + Cardinality({j \in 1 .. i : Digit(s[j], pass) = d})

CountingSort(s) == [m \in DOMAIN s |-> s[CHOOSE i \in DOMAIN s : Place(s, i) = m]]

(***************************************************************************)
(* The specification                                                       *)
(***************************************************************************)

\* MPI_Scatterv
Scattered(a, r) == SubSeq(a, Start(r) + 1, Start(r) + Size(r))

Init ==
    /\ p \in 1 .. MaxP
    /\ input \in BoundedSeq(Values, MaxN)
    /\ data = [r \in Ranks |-> Scattered(input, r)]
    /\ pass = 0

Pass ==
    /\ pass < Passes
    /\ data' = [r \in Ranks |-> CountingSort(Received(r))]
    /\ pass' = pass + 1
    /\ UNCHANGED <<p, input>>

Next == Pass

Spec == Init /\ [][Next]_vars

(***************************************************************************)
(* What the program prints of its result                                   *)
(***************************************************************************)

\* is_local_sorted, and MPI_LAND over all ranks
SortedLocal == \A r \in Ranks : \A i \in 2 .. Len(data[r]) : ~ data[r][i - 1] > data[r][i]

\* Variant: each rank looks at its own block only.
BoundaryUnchecked(r) == TRUE

\* boundary_ok; a rank without elements sends a zero.
BoundaryOk(r) ==
    LET last(q) == IF data[q] = << >> THEN 0 ELSE data[q][Len(data[q])]
    IN  ~ (r > 0 /\ Len(data[r]) > 0 /\ last(r - 1) > data[r][1])

SortedBoundaries == \A r \in Ranks : BoundaryOk(r)

(***************************************************************************)
(* Properties                                                              *)
(***************************************************************************)
Whole == FlattenSeq([m \in 1 .. p |-> data[m - 1]])

Ascending(s) == \A i, j \in DOMAIN s : i < j => s[i] <= s[j]

\* Blocks keep their sizes in every pass: the buffers were allocated once, for the
\* first pass (RadixParallel.c:112).
BlocksKept == \A r \in Ranks : Len(data[r]) = Size(r)

\* After the last pass the array is sorted, with every value as often as before
\* (RadixParallel.c:120-208).
Sorted ==
    pass = Passes =>
        /\ Ascending(Whole)
        /\ \A v \in Range(Whole) \union Range(input) :
               Cardinality({i \in DOMAIN Whole : Whole[i] = v})
             = Cardinality({i \in DOMAIN input : input[i] = v})

\* The program prints "yes" twice if and only if the array is sorted; this is said
\* of every state, most of which are not (RadixParallel.c:325-346).
VerdictRight == (SortedLocal /\ SortedBoundaries) <=> Ascending(Whole)

\* The result is right, and so is what the program says of it.
RadixRight == BlocksKept /\ Sorted /\ VerdictRight

\* No rank is needed to see that a pass is one stable sort of the whole array
\* (RadixParallel.c:120-208, RadixSerial.c:61-68).
Lsd == INSTANCE LsdSort WITH Inputs <- BoundedSeq(Values, MaxN), whole <- Whole
ImplementsLsdSort == Lsd!Spec
=============================================================================

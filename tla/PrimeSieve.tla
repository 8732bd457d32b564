----------------------------- MODULE PrimeSieve -----------------------------
(***************************************************************************)
(* assignment07: p ranks count the primes up to n with an array of the odd *)
(* numbers from 3 on.  In a domain sieve every rank has a part of the      *)
(* array, which it goes through in pieces that fit the cache; in a         *)
(* functional sieve every rank has a whole array and some of the primes.   *)
(* MPI_sieve.c does both; domainSieve.c and funcSieve.c do one each, with  *)
(* the same code, but without a look at n first.                           *)
(*                                                                         *)
(* The ranks do not interact before the reduction at the end.              *)
(***************************************************************************)
EXTENDS Integers, FiniteSets, FiniteSetsExt

CONSTANTS
    Programs,        \* of "domain", "functional", "domainSieve", "funcSieve"
    CACHE_L1_SIZE,   \* elements in a piece
    MaxN,            \* bound on n
    MaxP             \* bound on the number of ranks

VARIABLES
    program,  \* what runs
    n,        \* its argument
    p,        \* the number of ranks
    marked,   \* marked[id]: the elements set in the array of rank id
    next,     \* next[id]: the piece or the prime that rank id takes next
    count     \* what rank 0 prints, -1 before

vars == <<program, n, p, marked, next, count>>

Ranks == 0 .. p - 1

\* Division of C, which truncates.
Half(k) == IF k < 0 THEN 0 ELSE k \div 2

elements == Half(n - 1)

IsDomain == program \in {"domain", "domainSieve"}

(***************************************************************************)
(* Block decomposition                                                     *)
(***************************************************************************)
BLOCK_LOW(id)  == (id * elements) \div p
BLOCK_SIZE(id) == BLOCK_LOW(id + 1) - BLOCK_LOW(id)
low_value(id)  == 3 + 2 * BLOCK_LOW(id)

num_blocks(id)      == (BLOCK_SIZE(id) + CACHE_L1_SIZE - 1) \div CACHE_L1_SIZE
block_start_idx(b)  == b * CACHE_L1_SIZE
block_end_idx(id, b) == Min({(b + 1) * CACHE_L1_SIZE, BLOCK_SIZE(id)}) - 1
block_low_val(id, b) == low_value(id) + 2 * block_start_idx(b)

(***************************************************************************)
(* The primes up to the root of n, which every rank finds by itself        *)
(***************************************************************************)
sqrt_n        == Max({r \in 0 .. n : r * r <= n})
sqrt_elements == Half(sqrt_n - 1)

Odd(i) == 3 + 2 * i

\* The elements that a loop from first on with steps of a prime sets.
Stepped(first, last, prime) == {j \in first .. last : (j - first) % prime = 0}

\* base_primes: what is set in it after so many turns of the loop.
BaseMarked ==
    LET set[i \in 0 .. sqrt_elements + 1] ==
            IF i = 0 THEN {}
            ELSE IF i - 1 \in set[i - 1] THEN set[i - 1]
            ELSE set[i - 1] \union Stepped(i - 1 + Odd(i - 1), sqrt_elements, Odd(i - 1))
    IN  set[sqrt_elements + 1]

BasePrimes == {Odd(i) : i \in (0 .. sqrt_elements) \ BaseMarked}

(***************************************************************************)
(* Sieving                                                                 *)
(***************************************************************************)

\* Variant: the next multiple may be even, and is rounded to its neighbour.
FirstUneven(id, b, prime) ==
    LET low == block_low_val(id, b)
    IN  IF prime * prime > low THEN (prime * prime - low_value(id)) \div 2
        ELSE IF low % prime = 0 THEN block_start_idx(b)
        ELSE (low + (prime - (low % prime)) - low_value(id)) \div 2

\* The first element of piece b that a prime strikes out.
First(id, b, prime) ==
    LET low == block_low_val(id, b)
        above == low + (prime - (low % prime))
        multiple == IF above % 2 = 0 THEN above + prime ELSE above
    IN  IF prime * prime > low THEN (prime * prime - low_value(id)) \div 2
        ELSE IF low % prime = 0 THEN block_start_idx(b)
        ELSE (multiple - low_value(id)) \div 2

SievePiece(id) ==
    /\ IsDomain
    /\ next[id] < num_blocks(id)
    /\ marked' = [marked EXCEPT ![id] = @ \union
                     UNION {Stepped(First(id, next[id], q), block_end_idx(id, next[id]), q) :
                               q \in BasePrimes}]
    /\ next' = [next EXCEPT ![id] = @ + 1]
    /\ UNCHANGED <<program, n, p, count>>

\* The primes are dealt out in turn.
Assigned(id, q) == Cardinality({r \in BasePrimes : r < q}) % p = id

\* One turn of the loop over all primes, in ascending order.
SievePrime(id) ==
    LET q == Min({r \in BasePrimes : Cardinality({s \in BasePrimes : s < r}) = next[id]})
    IN  /\ ~ IsDomain
        /\ next[id] < Cardinality(BasePrimes)
        /\ marked' = IF Assigned(id, q)
                     THEN [marked EXCEPT ![id] = @ \union
                              Stepped((q * q - 3) \div 2, elements - 1, q)]
                     ELSE marked
        /\ next' = [next EXCEPT ![id] = @ + 1]
        /\ UNCHANGED <<program, n, p, count>>

Sieved(id) == next[id] = IF IsDomain THEN num_blocks(id) ELSE Cardinality(BasePrimes)

Printed(unmarked) == unmarked + 1

\* MPI_Reduce: the sum of the counts, or the union of the arrays.
Reduce ==
    /\ count = -1
    /\ \A id \in Ranks : Sieved(id)
    /\ count' = Printed(IF IsDomain
           THEN MapThenSumSet(LAMBDA id : BLOCK_SIZE(id) - Cardinality(marked[id]), Ranks)
           ELSE elements - Cardinality(UNION {marked[id] : id \in Ranks}))
    /\ UNCHANGED <<program, n, p, marked, next>>

\* main of MPI_sieve.c
TooSmall ==
    /\ count = -1
    /\ n < 2 /\ program \in {"domain", "functional"}
    /\ count' = 0
    /\ UNCHANGED <<program, n, p, marked, next>>

Init ==
    /\ program \in Programs
    /\ n \in 0 .. MaxN
    /\ p \in 1 .. MaxP
    /\ marked = [id \in Ranks |-> {}]
    /\ next = [id \in Ranks |-> 0]
    /\ count = -1

Runs == n >= 2 \/ program \in {"domainSieve", "funcSieve"}

Next ==
    \/ Runs /\ \E id \in Ranks : SievePiece(id) \/ SievePrime(id)
    \/ Runs /\ Reduce
    \/ TooSmall

Spec == Init /\ [][Next]_vars

(***************************************************************************)
(* Properties                                                              *)
(***************************************************************************)
IsPrime(k) == k > 1 /\ \A d \in 2 .. k - 1 : k % d # 0

\* What rank 0 prints: "%lld primes are less than or equal to %lld" (MPI_sieve.c:111).
\* domainSieve.c and funcSieve.c, which do not look for n < 2, count the prime 2 then.
CountRight ==
    count # -1 =>
        count = Cardinality({k \in 2 .. n : IsPrime(k)})
                + (IF n < 2 /\ Runs THEN 1 ELSE 0)

\* A rank writes inside its own array (MPI_sieve.c:92-94, 177-179).
InsideArray ==
    \A id \in Ranks : marked[id] \subseteq 0 .. (IF IsDomain THEN BLOCK_SIZE(id) ELSE elements) - 1

\* When a piece is done, nothing more has to be struck out of it, and nothing is
\* struck out beyond it: exactly its composite numbers are, though primes came before
\* that start further on (MPI_sieve.c:64-98).
PiecesDone ==
    IsDomain => \A id \in Ranks : \A j \in 0 .. BLOCK_SIZE(id) - 1 :
        IF j < next[id] * CACHE_L1_SIZE THEN j \in marked[id] <=> ~ IsPrime(low_value(id) + 2 * j)
                                        ELSE j \notin marked[id]

\* The count is right, and every piece on the way to it.
SieveRight == CountRight /\ InsideArray /\ PiecesDone
=============================================================================

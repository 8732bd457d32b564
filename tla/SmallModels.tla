----------------------------- MODULE SmallModels -----------------------------
(***************************************************************************)
(* The smaller models, side by side.  They have nothing to do with one     *)
(* another: in every behaviour one program is chosen and runs, and the     *)
(* variables of the others keep their first values.                        *)
(***************************************************************************)
EXTENDS Integers, Sequences

CONSTANTS
    MaxLines,                           \* Chat
    MaxSeq,                             \* Ping
    N, Cap,                             \* Pipeline
    Base, Passes, MaxLength, MaxRanks,  \* RadixSort
    CACHE_L1_SIZE, MaxN, MaxP,          \* PrimeSieve
    ClientIds, Blocks, MaxBlocks        \* CommandStream

ASSUME SmallModelsAssumption ==
    /\ N \in Nat \ {0} /\ Cap \in Nat \ {0} /\ Base \in Nat \ {0} /\ Passes \in Nat
    /\ CACHE_L1_SIZE \in Nat \ {0} /\ MaxN \in Nat /\ MaxP \in Nat

VARIABLES
    program,  \* the program that runs
    (* Chat *)
    fifos, parent, child, line, pipe, termed, typed, chat_sent, merged, strays,
    (* Ping *)
    ping_pc, seq, ping_sent, received, total, least, most, time, requests, answers, timedout,
    (* Pipeline *)
    main, turn, prev, state, ends, items, hand,
    (* RadixSort *)
    radix_p, input, data, pass,
    (* PrimeSieve *)
    sieve, sieve_n, sieve_p, marked, next, count,
    (* CommandStream *)
    client_id, script, at, mode, extra, request, rest, sent, dropped, ran

chat_vars     == <<fifos, parent, child, line, pipe, termed, typed, chat_sent, merged, strays>>
ping_vars     == <<ping_pc, seq, ping_sent, received, total, least, most, time, requests,
                   answers, timedout>>
pipeline_vars == <<main, turn, prev, state, ends, items, hand>>
radix_vars    == <<radix_p, input, data, pass>>
sieve_vars    == <<sieve, sieve_n, sieve_p, marked, next, count>>
stream_vars   == <<client_id, script, at, mode, extra, request, rest, sent, dropped, ran>>

vars == <<program, chat_vars, ping_vars, pipeline_vars, radix_vars, sieve_vars, stream_vars>>

(***************************************************************************)
(* The instances                                                           *)
(***************************************************************************)
Chat == INSTANCE Chat WITH sent <- chat_sent

Ping == INSTANCE Ping WITH pc <- ping_pc, sent <- ping_sent

Pipeline == INSTANCE Pipeline WITH i <- turn

Radix == INSTANCE RadixSort WITH MaxN <- MaxLength, MaxP <- MaxRanks, p <- radix_p

Sieve == INSTANCE PrimeSieve WITH
    Programs <- {"domain", "functional", "domainSieve", "funcSieve"},
    program <- sieve, n <- sieve_n, p <- sieve_p

Stream == INSTANCE CommandStream

ASSUME StreamAssumption == \A b \in Blocks : b \in Seq(Stream!ScriptLine) /\ b # << >>

(***************************************************************************)
(* The specification                                                       *)
(***************************************************************************)
Init ==
    /\ program \in {"chat", "ping", "pipeline", "radix", "sieve", "stream"}
    /\ Chat!Init     /\ (program # "chat"   => ~ fifos)
    /\ Ping!Init
    /\ Pipeline!Init
    /\ Radix!Init    /\ (program # "radix"  => radix_p = 1 /\ input = << >>)
    /\ Sieve!Init    /\ (program # "sieve"  => sieve = "domain" /\ sieve_n = 0 /\ sieve_p = 1)
    /\ Stream!Init   /\ (program # "stream" => client_id = 1 /\ script = << >>)

RunsChat ==
    /\ program = "chat" /\ Chat!Next
    /\ UNCHANGED <<program, ping_vars, pipeline_vars, radix_vars, sieve_vars, stream_vars>>
RunsPing ==
    /\ program = "ping" /\ Ping!Next
    /\ UNCHANGED <<program, chat_vars, pipeline_vars, radix_vars, sieve_vars, stream_vars>>
RunsPipeline ==
    /\ program = "pipeline" /\ Pipeline!Next
    /\ UNCHANGED <<program, chat_vars, ping_vars, radix_vars, sieve_vars, stream_vars>>
RunsRadix ==
    /\ program = "radix" /\ Radix!Next
    /\ UNCHANGED <<program, chat_vars, ping_vars, pipeline_vars, sieve_vars, stream_vars>>
RunsSieve ==
    /\ program = "sieve" /\ Sieve!Next
    /\ UNCHANGED <<program, chat_vars, ping_vars, pipeline_vars, radix_vars, stream_vars>>
RunsStream ==
    /\ program = "stream" /\ Stream!Next
    /\ UNCHANGED <<program, chat_vars, ping_vars, pipeline_vars, radix_vars, sieve_vars>>

Next == RunsChat \/ RunsPing \/ RunsPipeline \/ RunsRadix \/ RunsSieve \/ RunsStream

Spec == Init /\ [][Next]_vars

ChatParent(s) == program = "chat" /\ Chat!ParentStep(s)
ChatChild(s)  == program = "chat" /\ Chat!ChildStep(s)
ChatSignal(s) == program = "chat" /\ Chat!Terminate(s)

PipelineMain       == program = "pipeline" /\ Pipeline!MainStep
PipelineCommand(c) == program = "pipeline" /\ Pipeline!Run(c)

\* Processes run and signals arrive; no user has to type, and no command of a pipeline
\* has to end by itself.
FairSpec ==
    /\ Spec
    /\ \A s \in {"server", "client"} :
           /\ WF_chat_vars(ChatParent(s)) /\ WF_chat_vars(ChatChild(s))
           /\ WF_chat_vars(ChatSignal(s))
    /\ WF_pipeline_vars(PipelineMain)
    /\ \A c \in 1 .. N : WF_pipeline_vars(PipelineCommand(c))

(***************************************************************************)
(* Properties: those of the instances, under their names                   *)
(***************************************************************************)

\* The two chat programs connect, and a full stop ends all four processes
\* (assignment02/client.c and server.c).
ConversationEnds == Chat!ConversationEnds

\* What ping prints when SIGINT comes, at any moment (myping.c:38-59).
StatisticsRight == Ping!StatisticsRight

\* A pipeline whose command ends is at an end (mypipen.c).
PipelineEnds == Pipeline!PipelineEnds

\* The sorted array, its blocks, and the program's word for it (RadixParallel.c).
RadixRight == Radix!RadixRight

\* Each pass of the ranks is one pass of the serial program (RadixParallel.c:120-208).
ImplementsLsdSort == Radix!ImplementsLsdSort

\* The primes are counted, and each piece is finished when it is left (MPI_sieve.c).
SieveRight == Sieve!SieveRight

\* Client, server and engine agree on the lines of a script (client.c:277-389).
ParsersAgree == Stream!ParsersAgree
=============================================================================

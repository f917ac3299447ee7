---------------------------- MODULE OneShotEngine ----------------------------
(***************************************************************************)
(* LLMEngine without in-flight batching, as qserve_benchmark.py,           *)
(* qserve_benchmark_image.py and qserve_e2e_generation.py run it: the      *)
(* scheduler is called once, with block tables long enough for the whole   *)
(* generation; every later step decodes the same batch, whose lengths are  *)
(* taken from its first sequence.                                          *)
(*                                                                         *)
(* Sequences have the numbers the engine's counter gives them, those of    *)
(* refused requests included.  The models have no sliding window.          *)
(***************************************************************************)
EXTENDS Integers, Sequences, FiniteSets

CONSTANTS
  BatchSizes, PromptLens, GenLens,   \* sizes of the job
  Images,                            \* img_per_seq * (token_per_img - 1), 0 for text
  ExtraBlocks,                       \* blocks the pool has beyond the launcher's formula
  BlockSize, WatermarkPercent,
  MaxNumSeqs, MaxNumBatchedTokens, MaxModelLen

ASSUME OneShotAssumption ==
  /\ BatchSizes \subseteq Nat \ {0} /\ PromptLens \subseteq Nat \ {0}
  /\ GenLens \subseteq Nat \ {0} /\ Images \subseteq Nat /\ ExtraBlocks \subseteq Int
  /\ BlockSize \in Nat \ {0} /\ WatermarkPercent \in Nat
  /\ MaxNumSeqs \in Nat /\ MaxNumBatchedTokens \in Nat /\ MaxModelLen \in Nat

VARIABLES
  job,        \* what was asked for, with the engine's mode: fixed
  waiting,    \* sequences the scheduler has not admitted, front first
  free,       \* free GPU blocks, as the allocator's stack
  meta,       \* seq_group_metadata_list
  table,      \* [sequence -> its block table]
  status,     \* [sequence -> SequenceStatus]
  outLen,     \* [sequence -> generated tokens]
  kv,         \* [block -> [offset -> the <<sequence, position>>s written there]]
  phase,      \* "admit" (the scheduler's loop), "run", "count", "done" or "raised"
  firstRun,   \* seq_group_metadata_list[0].is_prompt
  iter,       \* the driver's iteration count
  numTokens   \* the benchmark's token count, or the finished answers

vars == <<job, waiting, free, meta, table, status, outLen, kv, phase, firstRun,
          iter, numTokens>>

CeilDiv(a, b) == (a + b - 1) \div b
MaxOf(S)      == CHOOSE x \in S : \A y \in S : y <= x
MinOf(a, b)   == IF a <= b THEN a ELSE b
Ids           == 0 .. job.batch - 1
Garbage       == {}

-----------------------------------------------------------------------------
(* launch_qsrv.py: blocks for the tokens of every sequence, and one each.  *)
TightPool(batch, p, g)    == batch * CeilDiv(p + g, BlockSize)    \* mutant
LauncherPool(batch, p, g) == batch * (CeilDiv(p + g, BlockSize) + 1)

(* add_request drops a prompt of max_model_len tokens; its sequence's      *)
(* number is spent.  The others are queued in the order they came.         *)
Fits(lens) == {s \in DOMAIN lens : lens[s] < MaxModelLen}

InOrderOf(S) ==
  {q \in [1 .. Cardinality(S) -> S] : /\ \A s \in S : \E n \in DOMAIN q : q[n] = s
                                     /\ \A m, n \in DOMAIN q : m < n => q[m] < q[n]}

(* The pool is the launcher's or one set by hand.  The benchmarks give all *)
(* sequences one length and have their own generation length; the e2e      *)
(* driver sizes the tables for max_gen_length tokens after a prompt of     *)
(* max_context_length, which its prompts may exceed.                       *)
Init ==
  /\ \E b \in BatchSizes, p \in PromptLens, g \in GenLens, i \in Images, e \in ExtraBlocks,
       driver \in {"benchmark", "e2e"}, simple \in BOOLEAN :
       \E lens \in [0 .. b - 1 -> IF driver = "e2e" THEN PromptLens ELSE {p}] :
       \E accepted \in InOrderOf(Fits(lens)) :
         /\ driver = "e2e" => g > 1 /\ i = 0 /\ ~simple
         /\ LauncherPool(b, p, g) + e > 0
         /\ job = [driver |-> driver, batch |-> b, gen |-> g, img |-> i, prompt |-> lens,
                   accepted |-> accepted, benchmarking |-> simple, pool |-> LauncherPool(b, p, g) + e,
                   spare |-> e, initBlocks |-> CeilDiv(p + g, BlockSize)]
  /\ waiting = job.accepted
  /\ free = [n \in 1 .. job.pool |-> n - 1]
  /\ meta = <<>> /\ table = [s \in Ids |-> <<>>]
  /\ status = [s \in Ids |-> IF s \in Fits(job.prompt) THEN "WAITING" ELSE "REFUSED"]
  /\ outLen = [s \in Ids |-> 0]
  /\ kv = [b \in 0 .. job.pool - 1 |-> [o \in 0 .. BlockSize - 1 |-> Garbage]]
  /\ phase = IF waiting = <<>> THEN "run" ELSE "admit"
  /\ firstRun = TRUE /\ iter = 1 /\ numTokens = 0

-----------------------------------------------------------------------------
(* The one call of schedule().  Nothing runs and nothing is swapped out.   *)
WatermarkBlocks == (job.pool * WatermarkPercent) \div 100

(* can_allocate and allocate with init_num_blocks.                         *)
LogicalBlocks(s) == CeilDiv(job.prompt[s] + job.img, BlockSize)

(* Mutant of BlocksToAllocate: init_num_blocks is forgotten.               *)
PromptBlocks(s)     == LogicalBlocks(s)
BlocksToAllocate(s) == MaxOf({job.initBlocks, LogicalBlocks(s)})

Members       == {meta[n] : n \in DOMAIN meta}
BatchedTokens == Cardinality(UNION {{s} \X (1 .. job.prompt[s]) : s \in Members})

PromptLimit   == MinOf(MaxModelLen, MaxNumBatchedTokens)

Verdict(s) ==
  LET n == BlocksToAllocate(s)
  IN  IF job.prompt[s] > PromptLimit \/ job.pool - n < WatermarkBlocks
      THEN "ignore"
      ELSE IF \/ Len(free) - n < WatermarkBlocks
              \/ BatchedTokens + job.prompt[s] > MaxNumBatchedTokens
              \/ Len(meta) + 1 > MaxNumSeqs
      THEN "stop" ELSE "admit"

Admit ==
  LET s == Head(waiting)
      n == BlocksToAllocate(s)
  IN  /\ phase = "admit" /\ waiting # <<>> /\ Verdict(s) = "admit"
      /\ table' = [table EXCEPT ![s] = [j \in 1 .. n |-> free[Len(free) + 1 - j]]]
      /\ free' = SubSeq(free, 1, Len(free) - n)
      /\ status' = [status EXCEPT ![s] = "RUNNING"]
      /\ waiting' = Tail(waiting) /\ meta' = Append(meta, s)
      /\ UNCHANGED <<job, outLen, kv, phase, firstRun, iter, numTokens>>

Ignore ==
  LET s == Head(waiting)
  IN  /\ phase = "admit" /\ waiting # <<>> /\ Verdict(s) = "ignore"
      /\ status' = [status EXCEPT ![s] = "FINISHED_IGNORED"]
      /\ waiting' = Tail(waiting)
      /\ UNCHANGED <<job, free, meta, table, outLen, kv, phase, firstRun, iter, numTokens>>

(* init_block_tables takes the longest table: there must be one.           *)
EndSchedule ==
  /\ phase = "admit" /\ (waiting # <<>> => Verdict(Head(waiting)) = "stop")
  /\ phase' = IF meta = <<>> THEN "raised" ELSE "run"
  /\ UNCHANGED <<job, waiting, free, meta, table, status, outLen, kv, firstRun, iter, numTokens>>

-----------------------------------------------------------------------------
(* The model run over the tables of init_block_tables, padded with block 0 *)
(* to the longest of them.                                                 *)
MaxTableLen == MaxOf({Len(table[s]) : s \in Members})
Entry(s, j) == IF j <= Len(table[s]) THEN table[s][j] ELSE 0

Slot(s, pos) == <<Entry(s, (pos \div BlockSize) + 1), pos % BlockSize>>

(* _prepare_decode_no_ifb: the length of the first sequence for all, and   *)
(* without its images, which only the maximum takes in.                    *)
ContextLen == job.prompt[0] + outLen[0]

Positions(s) ==
  IF firstRun THEN 0 .. job.prompt[s] + job.img - 1 ELSE {ContextLen - 1}

Writes == UNION {{<<Slot(s, pos), <<s, pos>>>> : pos \in Positions(s)} : s \in Members}

(* What a slot holds is the set of those who wrote it in the last run that *)
(* did: if there are several, any of them may have won.                    *)
InTable(pos) == pos \div BlockSize < MaxTableLen

KvAfterRun ==
  [b \in DOMAIN kv |-> [o \in 0 .. BlockSize - 1 |->
     LET writers == {w[2] : w \in {x \in Writes : x[1] = <<b, o>> /\ InTable(x[2][2])}}
     IN  IF writers = {} THEN kv[b][o] ELSE writers]]

HasUnfinished == waiting # <<>> \/ \E s \in Members : status[s] = "RUNNING"
Profiling     == job.driver = "benchmark"

(* _prepare_decode_no_ifb looks for sequence 0 in the first group.         *)
FirstIsMissing == ~firstRun /\ Head(meta) # 0

(* InputMetadata asserts that the prompts bring img_per_seq images each;   *)
(* the benchmark's bring none.                                             *)
ImagesAreMissing == firstRun /\ job.img > 0

(* Mutant of StaleBatch: nobody notices.                                   *)
NeverStale == FALSE

StaleBatch == \E s \in Members : status[s] # "RUNNING"

NoInput == FirstIsMissing \/ ImagesAreMissing

StepRaises ==
  /\ phase = "run" /\ HasUnfinished /\ (NoInput \/ StaleBatch)
  /\ phase' = "raised"
  /\ kv' = IF NoInput THEN kv ELSE KvAfterRun
  /\ UNCHANGED <<job, waiting, free, meta, table, status, outLen, firstRun, iter, numTokens>>

ModelRun ==
  /\ phase = "run" /\ HasUnfinished /\ ~NoInput /\ ~StaleBatch
  /\ kv' = KvAfterRun /\ firstRun' = FALSE
  /\ outLen' = [s \in Ids |-> IF s \in Members THEN outLen[s] + 1 ELSE outLen[s]]
  /\ iter' = iter + 1
  /\ UNCHANGED <<job, waiting, meta, table>>

(* The drivers' loops end after that many iterations.                      *)
LastIteration == iter' = IF Profiling THEN job.gen + 1 ELSE job.gen

(* _process_model_outputs_benchmark: nothing stops.                        *)
BenchmarkStep ==
  /\ job.benchmarking /\ ModelRun
  /\ numTokens' = numTokens + Len(meta)
  /\ phase' = IF LastIteration THEN "done" ELSE "run"
  /\ UNCHANGED <<free, status>>

(* add_request makes the generation length max_tokens when profiling.      *)
OneTokenLess  == job.gen - 1      \* mutant
ProfiledLimit == job.gen

(* _check_stop ends a sequence that has become longer than max_model_len,  *)
(* whatever it was asked for.                                              *)
CappedOneEarlier == {s \in Members : job.prompt[s] + outLen'[s] >= MaxModelLen}   \* mutant
Capped           == {s \in Members : job.prompt[s] + outLen'[s] > MaxModelLen}

(* _process_model_outputs: when profiling only the lengths stop a sequence *)
(* (max_tokens of the e2e driver is beyond its max_gen_length).  Blocks go *)
(* back to the allocator, the worker's tables stay.                        *)
SampledStep ==
  /\ ~job.benchmarking /\ ModelRun
  /\ \E ended \in SUBSET Members :
       /\ Capped \subseteq ended
       /\ Profiling => ended = Capped \cup {s \in Members : outLen'[s] = ProfiledLimit}
       /\ status' = [s \in Ids |-> IF s \in ended THEN "FINISHED" ELSE status[s]]
       /\ \E order \in [1 .. Cardinality(ended) -> ended] :
            /\ {order[n] : n \in DOMAIN order} = ended
            /\ LET back[n \in 0 .. Cardinality(ended)] ==
                     IF n = 0 THEN free ELSE back[n - 1] \o table[order[n]]
               IN  free' = back[Cardinality(ended)]
       /\ numTokens' = numTokens + IF Profiling THEN Len(meta) ELSE Cardinality(ended)
  /\ phase' = IF LastIteration THEN (IF Profiling THEN "done" ELSE "count") ELSE "run"

(* The loop's condition fails; the e2e driver then asserts its count.      *)
LoopEnds ==
  /\ phase = "run" /\ ~HasUnfinished
  /\ phase' = IF Profiling THEN "done" ELSE "count"
  /\ UNCHANGED <<job, waiting, free, meta, table, status, outLen, kv, firstRun, iter, numTokens>>

(* The e2e driver counts the requests that add_request accepted.           *)
CountAnswers ==
  /\ phase = "count"
  /\ phase' = IF numTokens = Len(job.accepted) THEN "done" ELSE "raised"
  /\ UNCHANGED <<job, waiting, free, meta, table, status, outLen, kv, firstRun, iter, numTokens>>

Next ==
  \/ Admit \/ Ignore \/ EndSchedule
  \/ StepRaises \/ BenchmarkStep \/ SampledStep \/ LoopEnds \/ CountAnswers

Spec == Init /\ [][Next]_vars

-----------------------------------------------------------------------------
(* Properties                                                              *)

(* Type invariant.                                                         *)
TypeOK ==
  /\ Members \cup {waiting[n] : n \in DOMAIN waiting} \subseteq Ids
  /\ \A s \in Ids : Len(table[s]) \in {0, BlocksToAllocate(s)}
  /\ status \in [Ids -> {"REFUSED", "WAITING", "RUNNING", "FINISHED", "FINISHED_IGNORED"}]
  /\ outLen \in [Ids -> 0 .. job.gen]
  /\ phase \in {"admit", "run", "count", "done", "raised"} /\ firstRun \in BOOLEAN
  /\ iter \in 1 .. job.gen + 1 /\ numTokens \in 0 .. job.batch * job.gen

(* The launcher's pool (launch_qsrv.py:47) has room for the whole batch:   *)
(* one block per sequence covers the watermark, as long as a sequence's    *)
(* blocks are few enough, and the scheduler's limits are not in the way.   *)
FewEnoughBlocks == (CeilDiv(job.prompt[0] + job.gen, BlockSize) + 1) * WatermarkPercent <= 100
LimitsAllow ==
  /\ job.prompt[0] < MaxModelLen
  /\ job.batch <= MaxNumSeqs /\ job.batch * job.prompt[0] <= MaxNumBatchedTokens

LauncherPoolSuffices ==
  phase = "run" /\ Profiling /\ job.spare >= 0 /\ job.img = 0
    /\ FewEnoughBlocks /\ LimitsAllow => Len(meta) = job.batch

(* The steps a benchmark takes: those it was asked for or, if the engine   *)
(* samples, no more than max_model_len leaves after the prompt, and one.   *)
Steps ==
  IF job.benchmarking THEN job.gen ELSE MinOf(job.gen, MaxModelLen + 1 - job.prompt[0])

(* The benchmark's throughput: when it ends it has counted a token for     *)
(* every sequence it scheduled and every one of these steps: the tokens    *)
(* that were asked for, unless max_model_len cut the sampling short.       *)
TokensCounted == phase = "done" /\ Profiling => numTokens = Len(meta) * Steps

(* Every token's KV is where later steps look for it: the benchmark's      *)
(* tables, made once, are long enough and no decode writes over another    *)
(* token, its own or another sequence's.                                   *)
KvLen(s) == IF firstRun THEN 0 ELSE job.prompt[s] + job.img + outLen[s] - 1
KvIntact ==
  Profiling => \A s \in Members : \A pos \in 0 .. KvLen(s) - 1 :
    LET slot == Slot(s, pos) IN kv[slot[1]][slot[2]] = {<<s, pos>>}

(* The scheduler's outputs are kept from step to step, finished sequences  *)
(* with them; yet the answers an e2e job counts are those of all the       *)
(* sequences it had accepted, none of them twice.                          *)
AnswersAreReal ==
  phase = "done" /\ ~Profiling => \A s \in Ids : status[s] \in {"FINISHED", "REFUSED"}

(* The text benchmark raises only if not a single sequence could be        *)
(* scheduled, or if max_model_len ended the batch early while others still *)
(* waited: the engine then steps on, with a batch that is finished.        *)
BenchmarkNeverFails ==
  phase = "raised" /\ Profiling /\ job.img = 0 =>
    meta = <<>> \/ (Steps < job.gen /\ waiting # <<>>)
=============================================================================

# omniserve (QServe) in TLA+

TLA+ models of this repository's serving system: the paged KV-cache block
manager, the continuous-batching scheduler, the engine in its two modes, the
offline drivers and caption jobs around it, the models' forward passes below it,
and the way their weights get from a checkpoint into memory; with the TLC runs
that check them and the TLAPS proofs about them. Paths below are relative to
`src/`.

## 1. The system

omniserve serves quantized language (and vision-language) models. A driver
script submits prompts to an `LLMEngine` and calls `step()` until nothing is
left. One `step()` asks the `Scheduler` what to run, has the `Worker` run the
model on it, and hands the sampled tokens back to the sequences. KV-cache
memory is paged: the `BlockSpaceManager` maps every sequence to a table of
physical blocks. Everything runs in one Python thread. What is concurrent is
the life of many requests over a shared pool: each step interleaves them, and
`add_request` / `abort_request` come in between steps.

| component | code | state it keeps | operations | talks to |
|---|---|---|---|---|
| block manager | `qserve/core/block_manager.py`, `block.py`, `prefix.py` | two free lists, a reference count per block, a block table per sequence, the blocks of each shared prefix | `can_allocate`/`allocate`, `can_append_slot`/`append_slot`, `fork`, `can_swap_in`/`swap_in`, `can_swap_out`/`swap_out`, `free`, `reset` | called by the scheduler |
| scheduler | `qserve/core/scheduler.py`, `policy.py`, `sequence.py` | queues `waiting`, `running`, `swapped`; the status and length of each sequence | `add_seq_group`, `abort_seq_group`, `schedule` (three loops: admit, reserve, swap in), `free_finished_seq_groups` | the block manager; called by the engine |
| engine, IFB | `qserve/engine/llm_engine.py` | the requests, the scheduler | `add_request`, `abort_request`, `step` (schedule, execute, `_process_model_outputs`, `_check_stop`) | scheduler, worker |
| engine, non-IFB | same, `ifb_mode=False`; `worker/model_runner.py` | the outputs of the one call of `schedule()` | one prompt run, then decode runs on the same batch | scheduler, worker |
| worker, model runner, cache engine | `qserve/worker/*.py` | the GPU KV cache | `execute_model`, `_prepare_prompt`, `_prepare_decode_ifb`, `swap_in/out`, `copy` | the CUDA kernels |
| KV addressing | `kernels/csrc/fused_attention/*` | padding offsets, block pointers | position to block, update of the cache | |
| offline drivers | `qserve_e2e_generation.py`, `qserve_benchmark*.py`, `qserve_caption_rewrite.py`, `qserve_vila_caption.py` | lists of prompts, JSON files | submit, step until done, collect, rewrite the file | the engine |
| configuration | `qserve/config.py`, `sampling_params.py`, `engine/arg_utils.py` | limits | `_verify_args` | all |
| caption jobs | `main()` of the last two | the JSON file, its backup, the results in memory | load, skip, caption a batch, save, clean up; restart after a kill | the offline drivers' loop |
| models | `qserve/modeling/models/*`, `layers/*`, `qserve/utils/input_metadata.py` | activation buffers shared by all layers, the KV cache of each | embed, splice images, decoder layers, logits; `load_weights`, `from_linear` | kernels, weight files |
| converter, weight files | `scripts/ckpt_converter`, `qserve/utils/weight_utils.py` | checkpoint folders | pack and save each linear layer; choose and read files | the models' `load_weights` |
| launch scripts | `scripts/launch_qsrv.py` | | the size of the block pool | block manager |
| CUDA kernels, utilities, kernel-call dumps, data preparation, unit test | `kernels`, `qserve/utils`, `dump`, `data_prepare`, `unit_tests` | | numerics and I/O | |

What is hard here:

* **Accounting over long histories.** References to blocks are taken and
  dropped in seven operations, guarded by `can_*` tests that are estimates. A
  block freed too early is written by two requests; one freed too late is lost
  for ever; one freed twice raises.
* **Loops that change the queues they walk.** While slots are reserved from the
  head of `running`, victims leave from its other end, possibly the head
  itself; groups sit in a local deque in between.
* **Order.** `waiting` is never sorted: that it is in arrival order is an
  invariant of how the three queues feed one another.
* **Progress.** A preempted group starts again from nothing. A group that does
  not fit is ignored, waits, or blocks everybody behind it.
* **Failure in the middle.** A step that raises leaves the queues half walked,
  and nothing catches the exception. A caption job may be killed inside a write.
* **Several computations of one thing.** The rows of a pass, the lengths of its
  sequences, the offsets of its prompts and the blocks of its positions are each
  computed in more than one place, and a disagreement changes no shape.
* **Memory that is shared in time.** All tensors of a layer are views of two
  buffers that begin at the same cell, and every layer uses them again.
* **Boundaries.** A token that opens a block, a prompt that fills its last one,
  a recomputed group whose prompt now includes its output, image tokens.

`PROJECT.json` lists every such hazard at its line with the properties that
would catch it going wrong, or the reason why no property does.

What makes each component correct:

* block manager: a reference count is the number of tables and prefixes that
  list the block, and a block is free iff it is zero; the `can_*` tests suffice;
  nobody but the writer refers to a block that is about to be written; a prefix
  stays in its blocks for all who read it;
* scheduler: every request is in the one queue its status names; blocks follow
  the status; budgets hold; first come, first served; the latest is preempted;
* engine: a run writes and reads only KV of its own sequence; every request
  ends; a step raises nothing;
* engine towards its callers: an abstract token service, which preempts nothing
  and has no memory to run out of;
* one-shot engine: tables made once are long enough, the throughput counts what
  was generated, a batch that was kept gives no answer twice;
* drivers: every prompt gets its own answer, and the loop ends;
* caption jobs: a kill loses no saved caption, and a job that exits has them all;
* models: every kernel reads what the model means it to read; the cache is
  complete in every layer; the token is sampled from the last position;
* weights: a fused layer holds what packing the whole matrix would have given.

## 2. Modules

| module | what it is |
|---|---|
| `BlockSpaceManager` | the block manager as operators: an operation maps a state (a record) to the set of states it may leave behind |
| `BlockManagerUse` | a general client: every operation in every order the scheduler's guards allow, tokens that get their slots a step later, with forks, prefixes, a sliding window, swapping, reset |
| `MCBlockManagerUse` | its TLC instances: two or three groups of at most two sequences |
| `Scheduler` | the scheduler: queues, statuses, and `_schedule` as one action per loop iteration |
| `LLMEngine` | the engine in IFB mode on top of it: requests, aborts, model runs, finishing; the KV contents as "who wrote this block last"; the properties |
| `MCLLMEngine` | its TLC instances: two or three requests |
| `TokenService` | the abstract specification: what the engine promises its callers |
| `ServiceRefinement` | the mapping under which `LLMEngine` implements `TokenService` |
| `OfflineDriver` | the drivers' submit, step and collect loop, composed with the engine |
| `CaptionJob` | a caption job with its files, kills and restarts |
| `OneShotEngine` | the engine without in-flight batching: one schedule, one batch, the drivers of it |
| `ActivationBuffers` | sizes and views of the activation buffers, as operators |
| `ModelForward` | a pass of the model, kernel by kernel, prompt and decode |
| `WeightPacking` | `from_linear` of the quantized layers, as operators |
| `WeightLoading` | convert, save, choose the files, load: one decoder layer of each model |
| `MCOfflineDriver`, `MCOneShotEngine`, `MCModelForward`, `MCWeightLoading` | their TLC instances (`CaptionJob` needs none) |
| `BlockSpaceManagerProofs` | lemmas about the block manager's operations |
| `LLMEngineProofs` | the engine: types, queues and statuses, limits; its blocks are owned by one sequence (reference counts, copies, allocator errors, exclusive writes, no spare blocks); without swapping a step raises nothing; first come, first served; the KV stays |
| `UseProofs` | the block manager under every legal sequence of calls: errors, counts, places, rings, copy on write, prefixes |
| `ServiceProofs` | the engine implements the token service, and the driver's bookkeeping on top of it |
| `OneShotProofs` | the one-shot engine: counts, errors, answers, the launcher's pool, the KV |
| `CaptionProofs` | the caption job's invariants |
| `LoadingProofs` | loading: fused layers are what packing the whole would give, nothing else is left out, only odd sizes fail |
| `ForwardProofs` | the forward pass: views of the activation buffers fit and their rows do not overlap; every kernel reads what it should; caches are complete; logits are the last token's |

    BlockSpaceManager <- Scheduler <- LLMEngine <- ServiceRefinement <- OfflineDriver
            ^                                            | INSTANCE
      BlockManagerUse                               TokenService      CaptionJob

    ActivationBuffers <- ModelForward      WeightPacking <- WeightLoading      OneShotEngine

An arrow points to the module that is extended. `CaptionJob`,
`ModelForward`, `WeightLoading` and `OneShotEngine` stand apart: the first three
share values with the engine and no state (a caption job sees whether a batch of
prompts was answered, a pass gets a batch and its tables), and the last is the
engine's other mode, with a scheduler that runs once.

### 2.1 BlockSpaceManager

State is a record `bm` with fields `gpu`, `cpu` (free lists), `ref`
(`ref_count`), `tables` (`block_tables`, `<<>>` for a missing entry), `prefix`
(`Prefix.block_table`) and `err` (the exception raised, if any). Decisions:

* A free list is a *set*. The code pops the last element of a list, but `free`
  pushes blocks in the iteration order of a Python set of objects, so which
  block comes next is not determined by the program.
* `Allocate` takes the number `ng` of sequences of the group and the set of
  waiting ones apart, because the code does: the count of a block becomes
  `num_seqs()` and only waiting sequences get a table.
* `FreeBlocks(bm, n)` is `n[b]` calls of `BlockAllocator.free` on each `b`. If a
  block has fewer references the result is the `ValueError`, recorded in `err`.
  After an exception only `err` means anything, because no caller catches it.
* `SwapOut` frees a block once per table entry and `Free` once per table, as
  lines 318 and 328 do.
* A wrapped table (`BlockSlidingWindow > 0`) lists at position `i` the block at
  `i % block_sliding_window` of the *whole* table, prefix included (line 169).
* `SwapIn` fails for every group with a prefix. Line 261 asserts
  `prefix.allocated and prefix.computed`, and nothing in the repository sets
  `computed`. Runs that combine prefixes with swapping would stop there, so
  `Use_prefix` does not swap.

`BlockManagerUse` is the scheduler's side of it, for groups of a prompt sequence
and one fork. A decode is two actions, as in the code, and what lies between them
is the variable `pending`, the sequences whose last token has no slot:

| action | code |
|---|---|
| `AllocateGroup` | `_allocate` behind `can_allocate` |
| `AppendTokens` | `llm_engine.py:459-466`: the engine appends what a step computed |
| `ReserveSlots` | `scheduler.py:271-286`: in the next call, if `can_append_slot` holds |
| `ForkGroup` | `fork_seq`, with a token of its own for the child |
| `FreeSeq` | a finish or an abort, in any state |
| `Recompute`, `SwapOutGroup` | preemption of a group without slots for its tokens: a victim is taken before its slots are reserved |
| `SwapInGroup` | `scheduler.py:298-315`: `_swap_in` and, in the same breath, `_append_slot` for the pending tokens, which may open a block each; `can_swap_in` counts one per sequence for that |
| `ResetAll` | `reset` |

A group is not recomputed once a sequence of it has finished
(`RecomputesForks = FALSE`): `allocate` sets the count of every block to
`num_seqs()`, finished sequences included, and only the waiting one gets a table,
so that the blocks would never come back. TLC shows it if the constant is `TRUE`.
Nothing in the repository forks, so no driver gets there.

### 2.2 Scheduler

A `SequenceGroup` has one `Sequence` here (`add_request` creates one, nothing
forks), so a member of `SeqId` is the request, the group and the sequence.
`phase` says where `step()` is:

    idle --StartStep--> admit --EndAdmit--> execute          (a prompt run)
                 \         \--EndAdmit-----v
                  \--(swapped # <<>>)--> reserve --EndReserve--> swap --EndSchedule--> execute

| action | code (`scheduler.py`) |
|---|---|
| `StartStep` | 162-185: outputs and locals created; prompts are looked at only if nothing is swapped |
| `Admit`, `Ignore`, `EndAdmit` | 186-264: one head of `waiting`; `Verdict` is its guard, in the code's order |
| `ReserveSlot`, `Preempt`, `EndReserve` | 265-290: the head of `running` moves to the local deque (`reserved`) with a slot, or the last group makes room |
| `PreemptByRecompute`, `PreemptBySwap` | 416-491: chosen by `get_max_num_running_seqs() == 1` |
| `Resume`, `EndSchedule` | 291-336: swapped groups come back unless something was preempted |

`SortByPriority` is any order of the queue by non-decreasing arrival. The
queues never hold two requests of the same arrival, so it is the code's order.
Arrival times are the order of arrival (`time.monotonic()` in the drivers).
Deques are sequences without repetition; `Without(q, S)` is `q` less the groups
in `S` in the same order (`[g for g in q if ...]`). That queues have no
repetitions is itself checked and proved.

### 2.3 LLMEngine

`AddRequest` and `Abort` are enabled only between steps. `ExecuteModel` is the
rest of `step()`: every scheduled sequence gets a token (`stop`: it ends a stop
string or is a stop token; `eos`; `other`), `_check_stop` decides in the order
of its tests, finished groups are freed and leave `running`, and `kv` records
who wrote which block. `ExecuteNothing` is a step whose batch is empty: without
swaps or copies the engine returns; with them `is_empty()` is false, the worker
returns `{}`, and the `.cpu()` the engine calls on its result fails.

The worker and the kernels are modelled by what the engine's correctness needs:
a prompt run writes the positions `0 .. len-1` of its sequence and a decode run
the last one, each through the table entry `position / block_size`. Nothing is
copied on a swap, because `step()` hands the worker no blocks to swap and
`CacheEngine._swap` returns at once.

Abstracted: token values, texts, log-probabilities, detokenization, timing,
tensor layout, the padding of a batch. Bounds: `PromptLens` and `MaxTokens`
limit the requests tried, and are request parameters of the real system as
well. There is no other bound. The set of requests is finite and a request is
added once; the state spaces are finite without cutting any behaviour.

### 2.4 TokenService and ServiceRefinement

The abstract service has, per request, a stage (`new`, `refused`, `live`,
`answered`, `ignored`, `aborted`) and a number of tokens. Its steps are `Submit`,
`Refuse`, `Abort`, `Ignore` and `Serve`, which gives one token to each of a set
of live requests and ends some of them, those at the limit among them. There
are no queues or blocks. `ServiceRefinement` maps the engine's status to a
stage (waiting, running and swapped are all `live`) and its output length to the
tokens. `ImplementsService` is `Service!Spec`: no preemption loses or repeats a
token, nothing that ended is served again, no answer exceeds `max_tokens`.
`KeepsServing` is `Service!FairSpec`: as long as somebody is live, a token is
served or a request ignored.

### 2.5 OfflineDriver

`process_requests` of `qserve_e2e_generation.py`, `qserve_caption_rewrite.py` and
`qserve_vila_caption.py`, around the engine in IFB mode.

| action | code (`qserve_vila_caption.py`, `process_requests`) |
|---|---|
| `Submit` | one turn of the first loop: `key_id` is written before `add_request`, `request_key` grows only if the request is accepted |
| `Scheduling`, `StepWithOutputs`, `StepWithoutOutputs` | the engine's step, split where the engine is; finished outputs are counted and put into `finished_dict` under the prompt `key_id` gives |
| `LoopEnds`, `CountAnswers` | the loop's condition, and `assert num_test_prompts == finished` |

`BreakWhenEmpty` tells the two drivers apart that leave the loop at the first
step without outputs (`qserve_e2e_generation.py:82-83`, the rewriting job) from
`qserve_vila_caption.py`, which goes on. The run has it `FALSE`. With `TRUE`, a
step that only ignored a prompt ends the loop while requests are unfinished, and
the driver's own assertion fails; that is the assertion doing its work, and no
run restates it.

### 2.6 CaptionJob

`main()` of both caption scripts; `script` chooses between them. `pc` is where
the process is, `json` and `backup` are the files on disk (`absent`, `torn`, or
`whole` with a set of captioned keys), `results` is what the process has in
memory, `saved` remembers every caption a readable file ever held.

| action | code (`qserve_caption_rewrite.py`, `qserve_vila_caption.py`) |
|---|---|
| `StartRun`, `CopyBackup` | the start; `cp` to the backup, first truncated, then full |
| `LoadResults` | the file is read, or does not parse; the rewriting job exits if everything is there |
| `SkipBatch`, `CaptionBatch` | a batch whose keys are all there is skipped; else `process_requests`, which fails if a prompt gets no answer |
| `SaveBatch`, `SaveAll` | `open(path, 'w')` truncates, `json.dump` fills: two steps |
| `CleanUp` | `rm` of the backup |
| `Crash` | the process is killed at any point, and memory is lost |

`MaxRuns` bounds the number of starts, for TLC only: the theorems hold for any
value. What earlier runs with other batch sizes left is the choice of the
initial file. `hopeless` is the set of keys whose prompts are rejected or
ignored, fixed, because the same prompts are submitted again.

### 2.7 OneShotEngine

With `ifb_mode=False` `schedule()` is called once, with block tables of
`init_num_blocks` entries, and `step()` decodes the same batch for ever.

| action | code |
|---|---|
| `Init` | the drivers' calls of `add_request`: a prompt of `max_model_len` tokens or more is refused (`Fits`, `llm_engine.py:422-426`) and its sequence number spent |
| `Admit`, `Ignore`, `EndSchedule` | the admission loop of `_schedule` with `init_num_blocks` (`scheduler.py:186-264`, `block_manager.py:113-190`), then `init_block_tables` (`worker.py`) over padded tables |
| `StepRaises` | what stops a step: no input for sequence 0, a benchmark with images and no files, a sequence that ended and is still in the batch |
| `BenchmarkStep` | `_process_model_outputs_benchmark` |
| `SampledStep` | `_process_model_outputs`, profiling or not: `max_tokens` ends a profiled sequence, and `max_model_len` any (`Capped`, `llm_engine.py:649-653`) |
| `LoopEnds`, `CountAnswers` | the loops of `qserve_benchmark.py`, `qserve_benchmark_image.py`, `qserve_e2e_generation.py`; the e2e driver counts the requests that were accepted |

Free blocks are a stack here: nothing is allocated after anything was given back.
`KvAfterRun` records, per cache slot, the set of those who wrote it in the last
run that did: two writers in one run mean that either may have won.
`ContextLen` is that of sequence 0 for everybody, without its images, as
`_prepare_decode_no_ifb` has it; entries beyond a table are block 0, as
`init_block_tables` pads them. The minimum that both take with a sliding window
is left out, here and in `ModelForward`: these modules model runs without one.
The prompt limit is the smaller of `max_model_len` and `max_num_batched_tokens`
(`PromptLimit`), as in `Scheduler.__init__`. The launcher's pool (`launch_qsrv.py:47-49`) is
one of the pools tried.

### 2.8 ActivationBuffers and ModelForward

A pass of a Llama or VILA model: `prepare_input_tensors` (IFB), the activation
buffers, embedding, every kernel of every layer, the logits. The state is what
the kernels share: `mem` (the flat buffers), `hidden`, `attn`, the paged `kv` of
every layer. Instead of numbers a cell holds a *tag*: the tensor it belongs to,
the layer and the token. A kernel gives the next tensor's tag if all its operands
are the tensor it needs, of this layer and of one token, and garbage otherwise.
So a kernel that reads a buffer too early or too late, another row, another
layer's cache or another prompt's image produces garbage that stays garbage.

| action | code |
|---|---|
| `PreparePrompt`, `PrepareDecode` | `model_runner.py`: lengths, `cu_seqlens`, block tables, `InputMetadata` and its buffers |
| `Embed` | `embed_tokens`, or `prepare_inputs_labels_for_multimodal` (`Splice`) |
| `InputNorm`, `QkvProj`, `UpdateKvCache`, `FlashAttn`, `SingleQueryAttention`, `QuantizeAttention`, `OProj`, `AddAttention`, `PostNorm`, `GateUpProj`, `ActFn`, `DownProj`, `AddMlp` | `LlamaDecoderLayer`, `LlamaAttention`, `LlamaMLP` of `llama_w4a8_unpad.py`, `llama_w8a8_unpad.py`, `llama_w16a16_unpad.py` |
| `LmHead`, `Sample` | the final norm, `lm_head` on `cu_seqlens[1:] - 1`, the token appended |

The precisions differ in what a quantized row needs (its scale; per-channel
W4A8 also its sum) and in the buffers (W16A16 has none: every kernel allocates).
A prompt of a VLM has as many images as the job brings (`Images`), each a run of
`img_per_seq` placeholders in its input ids (`InputTokens`) that the embedding
replaces (`Splice`); `PromptRows` is what the rows should then be.
The padding-offset arithmetic of the prompt kernel is in `PaddingOffset`,
`BatchOf` and `PosOf`. There is no sliding window, with which `_prepare_decode_ifb`
(`model_runner.py:465-477`) would cap the context lengths. The VLMs cannot be loaded in W4A8 (`ModelRunner.__init__`),
so there is no such job. Kernels between two of which Python does nothing else
are still separate steps, because what one leaves in a buffer is what the next
one finds.

### 2.9 WeightPacking and WeightLoading

`Pack` is `from_linear`'s reshape and permutation of a 4-bit weight into bytes,
`PackGroups` that of the scales and zeros of groups. `WeightLoading` converts one
decoder layer (`ConvertLinear`, `SaveCheckpoint`), chooses the folder's files as
`hf_model_weights_iterator` does (`ListFiles`), and loads tensor by tensor
(`LoadTensor`, `NextFile`): the attention's and the MLP's shards at their
offsets, the dimension that is cut (`SliceDim`), vocabularies that are padded,
names that are skipped. Elements are tags again: which matrix, row and column.
The files come in any order (`glob`), the modules of a file in one of `Orders`
(two are tried), a module's tensors in any: no load depends on their order.
Mixtral is here
(`mixtral_w4a8_unpad.py`, `load_weights` and its expert shards), from
checkpoints that are packed already, because the converter has no Mixtral.

What the code does and the models therefore do: the biases of a converted model
come from a model that was never initialized; W8A8 layers cannot be made with a
bias (`Parameter` is not imported); the norms of the 4-bit models are skipped by
their `load_weights`. The properties say so where they except it.

## 3. Runs

No bound but those of the table and the requests' own limits (`PromptLens`,
`MaxTokens`, generation lengths, which the real system has as well) cuts a
behaviour: each request, sequence, file or tensor is used once.
`CHECK_DEADLOCK FALSE` is set throughout because every instance stops: its
requests, runs or tensors are finitely many, and an exception ends a process.
Block identities are symmetric; requests are where all have the same parameters.
No run with a liveness property uses symmetry; the refinement `ImplementsService`
is checked as a safety property, in a run whose symmetry permutes requests and
blocks only, which the service's own definition is symmetric under.

| run | instance | what it shows | why it is enough |
|---|---|---|---|
| `Use_fork` | two groups of up to two sequences, 5+3 blocks, forks, swaps with pending tokens, recomputation, reset; watermark 20% (one block) | no allocator error behind the `can_*` tests, the one of `can_swap_in` for the slots after it included; exact counts, device and length of tables, copy on write (`SoleWriter`) | a shared block with two and with four references, pools that are exactly full, a copy by either sequence, groups of one and two sequences that come back when a token opens a block |
| `Use_prefix` | 5 blocks, two groups share a one-block prefix and a third has none; forks, recomputation | all readers of a prefix read it in the same block, which is never on a free list and never under a token beyond the prefix (`PrefixIsShared`) | one group makes the prefix, the other finds it when the first is running or gone; the third would take a block given away |
| `Use_window` | 5 blocks, window of 2, no forks or swaps | exact counts, tables are rings | prompts shorter and longer than the window; sequences that go round more than once |
| `Engine_recompute` | three greedy requests, 5 blocks, watermark one block, token budget 6 | exclusive writes, earlier KV intact, nothing to copy, limits, order, no error, no spare blocks, the refinement | a group preempted by an older one and by itself, two preempted in one step, a block boundary met by a prompt, a first and a later token, aborts in each queue, a prompt at the model's length |
| `Engine_swap` | two of three requests with `best_of = 2`, 3+3 blocks | queues, blocks, counts and limits with preemption by swapping, until `step()` raises | swaps out and in, a swap space that runs out, a recomputed group next to a swapped one |
| `Driver` | three greedy requests on two blocks, `BreakWhenEmpty = FALSE`, fair | answers go to their prompts, the count misses the ignored ones only, the service's progress, the driver ends | rejected, ignored and preempted requests in every order of three |
| `Caption` | three keys, batches of two, three runs, fair work | saved captions stay, an exit means all are there, a first run always has a readable copy, a run ends | a full and a partial batch; a killed run, a damaged restart, a third |
| `OneShot` | one to three sequences, blocks of two, prompts of one, three and four tokens, `max_model_len` 4, generation of one to five tokens, pools of the launcher, four blocks less and two more | the launcher's pool suffices, throughput is counted right, KV intact, answers real, the text benchmark fails only without a batch, or if `max_model_len` ends it while others wait | lengths that end on and off a block boundary, prompts that differ (e2e) and that are refused, sampling that `max_model_len` cuts short with and without others waiting, pools too small for the batch and for one sequence |
| `Forward` | two sequences, two layers, no, one or two images of one or two embeddings per prompt, blocks of two, tables of four, two shapes of model, six precisions and kinds of model, up to three tokens each | views fit, every kernel reads what it should, caches complete, logits of the last row | prompts before, with and after another's decode; an MLP wider than the attention and one narrower; tables that are not in order and have block 0 inside |
| `Load` | tiles of 8 by 4, five models, three shapes (one with a width that is no tile, one with more groups than a shard has rows), files in any order, two orders of modules, a module's tensors in any, four kinds of folder | fused layers are what packing the whole would give, nothing else is left out, only odd sizes fail | two row tiles of queries and more than one column tile, shards at zero and at other offsets |

**Disagreements between the code and what it says of itself** (runs that expect
a violation; the lines are quoted in `PROJECT.json`, `findings`):

| run | what TLC finds |
|---|---|
| `Engine_ignored` | a recomputed group that outgrew the pool less the watermark becomes `FINISHED_IGNORED` in the middle of its generation, which the comment reserves for prompts beyond the length cap |
| `Caption_backup` | a kill inside the save leaves a truncated file; the next start copies it over the backup, and no readable copy is left |

Others were met while modelling. They restate an assertion or need a
configuration the drivers do not use, so that no run is spent on them:

* `swap_out` frees a block once per table entry. A wrapped sliding window lists
  a block several times with one reference, so the second free raises. `fork`
  likewise adds one to a count per entry of the parent's table, so that a block
  a wrapped table lists twice counts the child twice. With a prefix, `append_slot`
  copies a block of the prefix on write while the table lists it elsewhere as
  well. No run combines a window with swapping, forks or prefixes.
* A lone group with `best_of > 1` that swaps itself out leaves an empty batch
  whose `is_empty()` is false; the worker returns `{}` and the step fails.
  `Engine_swap` goes up to that point (`Alive` in its properties).
* Swapped groups are resumed over blocks that never received their KV, because
  `step()` hands the worker no blocks to swap. `KvIntact` is checked where
  preemption is by recomputation.
* `can_swap_in` asks for the watermark and a block per sequence on top of the
  swapped ones. A group that grew to nearly the whole pool never comes back, and
  nobody is admitted while it is swapped out.
* With images, each generated token adds an image's worth of logical blocks.
* A group of which a sequence has finished cannot be recomputed without losing
  blocks (`RecomputesForks`, section 2.1), and a prompt that wraps into its prefix
  has the counts of the prefix's blocks overwritten. No driver forks or has
  prefixes.
* A benchmark that samples and whose prompt and generation exceed `max_model_len`
  counts fewer tokens than it was asked for (`Steps`), and if part of its batch
  was not scheduled, the next step finds only finished sequences and asserts.
  `TokensCounted` and `BenchmarkNeverFails` say so.
* The e2e driver in non-IFB mode gives all sequences the length of sequence 0.
  `KvIntact` of `OneShotEngine` is therefore stated for the benchmarks, whose
  lengths are equal.
* The image benchmark brings no images and always fails at its first prompt run.

**Mutants.** For every property of a passing run there is a plausible bug of
the code (an operator next to the definition it replaces, marked as a mutant in
its comment) under which TLC finds the property violated in the same instance.

`TypeOK` of `LLMEngine`, `CaptionJob`, `BlockManagerUse` and `WeightLoading` is
proved; that of `OneShotEngine` is stated for the reader, held in a separate
check of the same instance, and is in no listed run.

### Fairness

* `FairDriverSpec` is `WF` of the driver's whole next-state relation. The driver
  is one thread: what it can do next, it does, and the engine's actions within
  it are calls it waits for. Nothing is assumed about which token is sampled or
  how requests arrive. `DriverEnds` follows from `max_tokens`. `KeepsServing` is
  the service's progress, seen through the refinement under the same assumption.
* `CaptionJob` has `WF` of `Work`, the steps of a running process. Starting it
  again and killing it are unfair: nobody has to do either.
* The safety runs have no fairness.

## 4. Proofs

The theorems about `LLMEngine` and `OfflineDriver` hold for **every** number of requests, blocks,
block size, limit, watermark and image size, under the named assumptions
`BlockAssumption`, `SchedulerAssumption` and `EngineAssumption` of the modules
(which TLC evaluates in every run), and under up to three hypotheses,
plus `ImgTokens = 0` for `NoBlocksToSpare`:

* `PrefixFree`: no request has a shared prefix. `model_runner.py:339` assumes
  the same, and no driver passes `prefix_pos`. With prefixes, `swap_out` filters
  the table with a list comprehension; its TLA+ form is `SelectSeq`, which is
  an operator with an operator as parameter, which no lemma can be stated about.
* `NoWindow`: no sliding window. A wrapped table lists a block several times,
  and `swap_out` then frees it twice, so the ownership theorems do not hold.
* `Greedy`: every request has `best_of = 1`, so that preemption is by
  recomputation. With swapping a step does raise, and a request overtakes those
  that are swapped out.

Those about `BlockManagerUse` hold for every set of groups, blocks and prompts,
every watermark, window and block size (`UseAssumption`: groups share no
sequence, prompts are not empty). They include forks with prefixes, forks with
swaps, and the window; `Legal` leaves out the combinations for which TLC finds a
miscount or an exception on instances like those of section 3:

* a window together with forks or swaps: these count table entries, `free` counts
  distinct blocks, and they disagree about a wrapped table;
* a window together with prefixes: a prompt that wraps into its prefix has the
  counts of the prefix's blocks overwritten (line 169), and a decode that does
  copies the block on write, which drops the reference of a table that goes on
  listing it;
* swaps together with prefixes: `swap_in` raises for every group that has one
  (line 261);
* recomputing a group of which a sequence has finished: `allocate` counts that one
  as a holder (lines 169, 181).

| theorem | hypotheses | says |
|---|---|---|
| `TypeCorrect` | `PrefixFree` | `Spec => []TypeOK` |
| `QueuesCorrect` | `PrefixFree` | `Spec => []QueuesMatchStatus` |
| `BatchesFit` | `PrefixFree` | `Spec => []BatchLimits` |
| `RefCountsCorrect` | `PrefixFree`, `NoWindow` | `Spec => []RefCounts` |
| `BlocksFollowStatus` | `PrefixFree`, `NoWindow` | `Spec => []BlocksMatchStatus` |
| `NothingIsCopied` | `PrefixFree`, `NoWindow` | `Spec => []NothingToCopy` |
| `AllocatorsNeverRaise` | `PrefixFree`, `NoWindow` | no `ValueError` of the allocators |
| `WritesExclusive` | `PrefixFree`, `NoWindow` | `Spec => []WritesAreExclusive` |
| `NoBlocksToSpare` | `PrefixFree`, `NoWindow`, no images | `Spec => []NoSpareBlocks` |
| `StepRaisesNothing` | all three | `Spec => []NoStepError` |
| `WaitingIsInOrder`, `FirstComeFirstServed` | `PrefixFree`, `Greedy` | `Spec => []WaitingInOrder`, `Spec => []NoOvertaking` |
| `LatestGivesWay` | `PrefixFree` | `Spec => LatestIsPreempted` |
| `KvStaysIntact` | all three | `Spec => []KvIntact` |
| `EngineImplementsService` | `PrefixFree` | `Spec => ImplementsService` |
| `DriverUsesEngine` | `PrefixFree` | `DriverSpec => Spec /\ ImplementsService` |
| `AnswersAreMatched`, `RequestsAreCounted` | `PrefixFree` | `DriverSpec => []AnswersMatchPrompts`, `DriverSpec => []EveryRequestCounted` |
| `ManagerTypeCorrect`, `CallsNeverRaise`, `CountsAreExact`, `TablesAreInPlace`, `WindowKeepsItsRing`, `WriterIsAlone`, `PrefixKeepsItsBlocks` | `Legal` | `Spec => []TypeOK`, `[]NoError`, `[]RefCounts`, `[]TablesMatchStatus`, `[]WindowIsARing`, `SoleWriter` and `[]PrefixIsShared` of `BlockManagerUse` |
| `BenchmarkCounts`, `BenchmarkRuns`, `AnswersOfAll`, `LauncherPoolFits`, `BenchmarkKvIntact` | | all five properties of the run `OneShot`, any job, pool, watermark, limits, `max_model_len` and block size (`OneShotAssumption`) |
| `JobTypeCorrect`, `CaptionsKept`, `ExitIsComplete`, `FirstRunIsSafe`, `FailsForAReason` | | `Spec => []...` of `CaptionJob`, any number of keys, batch size and runs |
| `FusedLayersAsPacked`, `NothingElseLeftOut`, `OddSizesOnlyFail`, `LoadingTypeCorrect` | | `Spec => []FusedAsPacked`, `[]OthersLoaded`, `[]OnlyOddSizesFail`, `[]TypeOK` of `WeightLoading` |
| `PassViewsFit`, `HiddenStatesCorrect`, `CachesComplete`, `SampledCorrectly` | heads divide the hidden size | `Spec => []ViewsFit`, `[]HiddenIsTheModels`, `[]CacheIsComplete`, `[]SampledFromLast` of `ModelForward`: all four properties of the run `Forward`, any model, batch, prompts, images, layers, block size and tables |
| `PassInvariant` | heads divide the hidden size | the inductive invariant behind them, `Spec => []FwdInv` |
| `ViewsFitBuffers`, `RowsAreDisjoint`, `QueriesAreHidden` | | all sizes and numbers of rows |

**TypeCorrect.** `TypeOK` is inductive. The work is in the block manager: each
operation maps a block manager to block managers (`FreeType`, `AppendSlotType`,
`AllocateType`, `SwapType`). A reference count stays natural because
`FreeBlocks` raises instead of going below zero, and the sliding window's
indices stay inside the table (`PromptTableType`, `ReusedType`).

**QueuesCorrect.** `QueuesMatchStatus` is not inductive: `reserved` is
meaningful only while slots are being reserved, `ExecuteModel` finishes the
groups in `outputs.scheduled` and must know that they run, and after an
exception nothing holds. `QueueInv` adds: the error is set iff the phase is
`raised`; outside `reserve` the local deque is empty; in `admit` and `execute`
the scheduled groups are in `running`; `running` and `reserved` have no
repetition and are disjoint (from which their concatenation is injective). Every
action preserves it by the queue lemmas (`AppendQueue`, `TailQueue`,
`FrontQueue`, `ConcatQueue`, `SortProperties`, `WithoutProperties`). TLC checked
`QueueInv` on the instances of `Engine_swap` and `Engine_recompute` first.

**Limits.** `BatchLimits` speaks of the batch handed to the model; `BatchInv`
says in every phase what the tests of lines 218-228 and 300-303 keep true: all
groups that run, at the width they may reach, are within `max_num_seqs`, and the
prompts admitted so far in this step, each once, within the token budget.
Counts are sums over queues. `Total` is written as the cardinality of the set
of `Copies` (a group and the number of one of its sequences or tokens), which
is the same number, and which the library's theorems on finite sets reason
about, where a fold would need induction.

**Ownership.** `RefCounts` alone is not inductive: that `free` may subtract a
table's blocks from the counts, that `append_slot` copies nothing and that
`swap_out` empties every count it touches follow only from *who* holds a block.
`Owned(bm)` says it: tables are injective and pairwise disjoint, a count is 1 if
a table lists the block and 0 otherwise, and a block is free iff no table does.
`OwnedFree`, `OwnedAllocate`, `OwnedAppend`, `OwnedSwapOut` and `OwnedSwapIn`
show that each operation, called behind its `can_*` test, keeps it and raises
nothing; in the two swaps the heart is that `Moved` maps a table's blocks one to
one to free blocks of the other device (`OwnedMoved`). `TablesFollow` ties the
tables to the statuses, and adds that a swapped group holds something and that
no known request has an empty prompt, without which `allocate` and
`append_slot` could be called where they index an empty table. `OwnInv` joins
both with "no allocator error" and "nothing to copy"; that the head of
`waiting` holds nothing and the head of `running` something is where `QueueInv`
comes in.

**Every legal sequence of calls** (`UseProofs`). With forks, prefixes and windows blocks are
shared and listed twice, so `Owned` gives way to `Counted(bm)`: no error; a table
lists one block at two positions iff the window maps them to the same place
(`Ring`; without a window, iff they are the same position); a block's count is the
number of its holders and of the prefixes it belongs to; it is free iff there are
none; a prefix has no blocks or all of them, on the GPU and each once
(`WholePrefixes`); and where there is a window tables are disjoint and no prefix
has blocks. Each operation keeps it behind its `can_*` test and raises
nothing: `CountedFree` and `CountedFork` (a set of holders that loses or gains
sequences, `HoldersSplit`), `CountedAllocate` (a prompt's table is a ring,
`PromptTableIsARing`), `CountedPrompted` (a prompt with a prefix takes over its
blocks, or gives it its own first ones, which then count twice: `Prompted` says
what `allocate` leaves in either case), the three branches of `append_slot` (`CountedGrows`,
`CountedReuses`, `CountedCopies`: the copy leaves the other holders one fewer),
and the swaps (`CountedMoved`: a group's blocks go one to one to free blocks of
the other device, shared ones together). That `append_slot` of a whole group
finds a block for each sequence is `CountedAppendSlots`, and that `can_swap_in`
leaves as many for the tokens that were pending is where its count of one block
per sequence is used. `UseInv` ties this to the statuses: a running or swapped
sequence has exactly the logical blocks of its tokens that have a slot (all but
the last while it is pending), which makes `len(logical) > len(table)` mean one
block and no more; a waiting group has no fork, so `allocate` is called for one
sequence; nobody is swapped if the client never swaps. `PrefixInv` adds that a
group's prompt covers the blocks of its prefix, without which the prefix would
get fewer than it is long; that prefixes nobody has get no blocks (`Unpinned`);
and `AllRead`: a table of a group with a prefix begins with the prefix's blocks,
and behind them no table lists a block of any prefix. Every operation that gives
a table a block keeps it, because the block comes from a free list or is one the
table's group has already. `PrefixKeepsItsBlocks` follows. `WriterIsAlone` needs
the case analysis of `append_slot` once more: a new block and a copy have one
holder, and a block that was neither shared nor full keeps its one; a block with
the count one that is held belongs to no prefix. TLC checked `UseInv` and
`PrefixInv` on the instances of `Use_fork`, `Use_window` and `Use_prefix`.

**Slots** (`LLMEngineProofs`). `SlotInv` counts, for every group that holds a
table: it has room for all tokens but the last, for the last as well once the
group has its slot of this step, and without images for less than a block more.
`WritesExclusive` follows with `Owned`, `NoBlocksToSpare` from the
upper bound. With images the upper bound is false in the code (each generated
token adds an image's worth of logical blocks), hence the hypothesis.

**KV** (`LLMEngineProofs`). `KvInv`: of every running sequence but those still to run
their prompt (`Pending`), each position but the last holds what that sequence
wrote there. Only `ExecuteModel` writes, and only into tables no other sequence has
(`OwnInv`), at positions inside them (`SlotInv`); a table that grows keeps its
entries; and a preempted sequence comes back only through a prompt run that
writes every position again.

**Driver** (`ServiceProofs`). Every step of `DriverSpec` is a step of the
engine or a stutter of it (`DriverUsesEngine`), so the engine's invariants hold
under the driver. `KeyInv`: the keys of the accepted requests are those below
`request_key`, `key_id` has each under its own, and what a rejected prompt wrote
lies above. `AnswerInv`: `finished` counts the requests that have their answer,
and the answers are theirs. That
the count misses nobody else needs `QueueInv`: each of the others is in exactly
one queue, and queues have no repetitions, so their lengths add up.

**One shot** (`OneShotProofs`). `JobInv`: the accepted requests are taken in the
order of their numbers (`Accepted`), the first `Taken` of them are admitted or
ignored, and a benchmark's sequence 0 is the first of the batch or the whole batch
is refused or ignored; all members of the batch have `iter - 1` tokens; a
benchmark finishes nobody before its last step, number `Steps`, and if
`max_model_len` makes that one early, all of the batch are finished after it; an e2e job's count is the number of its finished sequences, and while the loop may go
on nobody of the batch has ended. `TableInv`: tables are injective and disjoint,
and disjoint from the free stack while the loop runs; in a job the launcher's
pool is meant for, `k` admissions leave exactly `k` tables less. That the next
prompt is admitted then is arithmetic (`WatermarkCovered`, `SuitedAdmits`): one
block more per sequence pays for the watermark. `KvInv`: a run writes for each
member the positions from `Written` up (`RunWrites`), all below `Capacity`, and
positions below `Capacity` have slots of their own (`SlotFacts`), which is what
division by the block size and disjoint tables give. TLC checked `JobInv`,
`TableInv` and `KvInv` on the instance of `OneShot`, as it did `BatchInv`,
`SlotInv` and `KvInv` of the engine on those of `Engine_recompute` and
`Engine_swap`, and `KeyInv` and `AnswerInv` on that of `Driver`.

**Recomputation only** (`LLMEngineProofs`). `NoSwapInv`: nothing is swapped, in or
out, and no error was raised. `swap_out` is reached only by groups whose width is
not 1 (`WidthIsOne`), the allocators do not raise (`OwnInv`), and the remaining
errors need a swap or a copy.

**Order** (`LLMEngineProofs`). Two invariants, for two questions. Who is
preempted does not depend on the means: `ReserveInv` says that arrival times are
distinct and below the next one (`Arrivals`), and that while slots are reserved
`running` is sorted and the groups that already have a slot came before the rest
(`InReserve`), so the victim at its end is the latest of all (`VictimIsLatest`).
It holds for any `best_of`, with swapping and windows. In which order requests
are admitted does depend on it: `WaitingInOrder` needs that a preempted group,
which goes to the front of `waiting` unsorted, came before all that wait.
`OrderInv` is that nobody is swapped, that `waiting` is sorted, and that
everybody running came before everybody waiting (`RunningFirst`). Lemmas on
ascending queues (`AscendingTail`, `AscendingFront`, `AscendingAppend`,
`AscendingPush`, `AscendingSort`, `AscendingWithout`) carry both through the
loops. TLC checked `OwnInv`, `NoSwapInv`, `ReserveInv` and `OrderInv` on the
instance of `Engine_recompute`, and `OwnInv` and `ReserveInv` also on that of
`Engine_swap`.

**Refinement.** Each action of the engine maps to a step of the service or to a
stutter (`ServiceStep`). The moves between waiting, running and swapped are
stutters (`LiveMoves`); `ExecuteModel` is `Serve` of the scheduled batch
(`ServiceServes`), which needs `QueueInv` (who is scheduled runs, hence is live)
and `BelowLimit`: a live request has fewer than `max_tokens` tokens. `BelowLimit`
is inductive with it because `CheckStop` tests the length after every token.

**Caption jobs.** `JobInv` is the inductive invariant: `TypeOK`; `Memory` (what
the process holds in memory against where it is: everything before
`batch_start` is captioned, and at the end everything); `Behind` (what memory and
file hold includes `saved`, at every point where the file is or will be
readable); `Copies` (in a first run one of the two files is whole at each
place); and `GivesUpForAReason`. The history variable `saved` only makes it
possible to say "ever".

**Buffers.** `ViewsFitBuffers` asks for `sz.hidden <= sz.q`, because the buffer
is sized by the attention's and the MLP's rows and the output projection writes
rows of the hidden size. `QueriesAreHidden` gives it when the heads divide the
hidden size, which every configuration has and the code does not assert.
`RowsAreDisjoint` is what lets `ModelForward` speak of the rows of a view.

**Forward pass** (`ForwardProofs`). None of the four properties is inductive:
that the caches are complete rests on what every kernel found in the buffers of
that pass. `FwdInv` says, for each kernel, what holds when it is about to run:
`JobPart` (the job is one the constructors build, and the rows of the pass are
the positions of its sequences, in order), `ControlPart` (which kernels follow
which, and in which layer), `MemPart` (every view a kernel uses has room for
every row), `HiddenPart` (`hidden` is the layer's input up to the attention's
sum, and its middle from there on), `BufferPart` (the operands of the next
kernel, scales and sums included, are in their views, row by row), `KvPart` (of
every sequence and layer, what has been cached so far, which moves on by the
pass's tokens when the layer's cache is written) and `SampledFromLast`. A kernel
that writes a view destroys the others cut from the same buffer, so each step
shows only what the next kernel needs; `RowsAreDisjoint` makes the rows of a view
independent, and disjoint tables the sequences. TLC checked `FwdInv` on the
instance of `Forward`.

The rows are sequences flattened (`FlattenSeq`) and their ends are running sums
(`CuSeqlens`). Both are recursive functions, and a recursive function is a
`CHOOSE`: that one exists is proved by induction, which the library states with a
predicate as parameter. `LeastNatural` gets the same from its theorem on
well-founded relations, which takes sets only (`NatLessThanWellFounded`, `WFMin`),
and `Induction` follows. With it: the padding offset of a row and the division by
the longest prompt give back its sequence and its position; the images spliced
into the embeddings are the rows of `PromptRows` (`SpliceIsRows`); and
`cu_seqlens[1:] - 1` are the last rows. That tables are disjoint and long enough
(`TablesAssumption`) is what the block manager's theorems give, `WritesExclusive`
and its lemmas on tables: the pass is where they are used. `SizesAssumption` is
the one about heads.

**Weights** (`LoadingProofs`). They hold for every tile, layer, group, vocabulary,
number of experts and order of modules that `LoadingAssumption` and
`PackingAssumption` allow: sizes are positive and a file's order names the
modules. `LoadInv`
follows the tensors: what is converted is packed and the rest still to do
(`Conversion`); while files are read every tensor that is to be loaded is
`Pending` (in a file to be opened or in the open one), skipped, or `Kept`: the
cells of its slot, as wide as its layer from its offset on, hold what packing
the fused matrix would put there (`Reading`). No load undoes another, because
the slots of a fused layer do not meet (`LinearKeeps`, `OtherKeeps`), and they
leave no gap (`SlotsCover`), so a model with nothing pending is complete. That
every folder has each tensor in a file that is read is where the choice of files
comes in. The arithmetic is in `PackShift`, `ChannelShift` and `StoreShift`: the
permutations of `from_linear` stay within a tile, so a shard of whole tiles, packed alone,
is the same cells of the whole packed. `WholeTiles` of the shards gives that of
the fused layer and of every offset. What raises is traced to its cause:
`LoadShard`'s shapes differ only if the groups outnumber a shard's rows. TLC
checked `LoadInv` on the instance of `Load`.

Only model-checked: liveness (`DriverEnds`, `KeepsServing` and the end of a
caption job), which is out of the prover's reach; and the two disagreements with
the documentation, which are counterexamples.

## 5. Not modelled

* CUDA kernels: numerics. `ModelForward` has what each reads and writes. Threads,
  vector types, the layout inside a block and the cyclic cache length (always
  the whole length) are left out.
* Quantization arithmetic: an element is a tag of where it comes from.
  Pseudo-quantization in the converter, downloads and file locks are left out,
  and so is the numpy cache of `hf_model_weights_iterator`, which no caller
  selects.
* Mixtral's forward pass: it cannot be reached, since the allocation of its
  activation buffer and its MoE block raise. Its `load_weights` is modelled.
* The vision tower: an image is its embeddings. Prompt templates, tokenizers,
  image files, timing, logging, detokenization, log-probabilities.
* The sampler: a token is one of the three cases `_check_stop` tells apart
  (`Sampler` is given the model's own sampling parameters, not the requests').
  `n > 1` and beam search: the engine never forks.
* Configuration beyond the limits: `EngineArgs` selects kernels, files, dtypes.
* The kernel-call dump filter, data preparation and the unit test.
* `max_paddings` is computed by the scheduler and never tested.

`PROJECT.json` lists hazards without a property, each with the reason.

## 6. What is left

1. `BlockPool`, an abstract pool of blocks with owners, implemented by the block
   manager: `Counted` is its invariant already.
2. The dump filter and the in-block layout of the KV cache, as pure functions.

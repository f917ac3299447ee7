----------------------------- MODULE LLMEngine -----------------------------
(***************************************************************************)
(* qserve/engine/llm_engine.py in IFB (in-flight batching) mode: requests  *)
(* come in and are aborted between calls of step(); step() schedules, runs *)
(* the model on the scheduled groups and processes the sampled tokens.     *)
(*                                                                         *)
(* The worker and the model are modelled by what step() sees of them: one  *)
(* token per scheduled group, and, in the variable kv, which sequence last *)
(* wrote the KV of every GPU block.                                        *)
(***************************************************************************)
EXTENDS Scheduler

CONSTANTS
  PromptLens,     \* prompt lengths tried, in tokens
  MaxTokens,      \* sampling_params.max_tokens
  Nobody          \* kv of a block no live table lists

ASSUME EngineAssumption ==
  /\ PromptLens \subseteq Nat \ {0} /\ MaxTokens \in Nat \ {0}
  /\ Nobody \notin SeqId \cup Prefix

VARIABLE kv       \* [GpuBlock -> SeqId \cup Prefix \cup {Nobody}]

vars == <<queueVars, status, seqVars, bm, phase, loopVars, outputs, error, kv>>

Init == SchedulerInit /\ kv = [b \in GpuBlock |-> Nobody]

HasUnfinished == waiting # <<>> \/ running # <<>> \/ swapped # <<>>

-----------------------------------------------------------------------------
(* add_request.  The request's prefix, if it has one, is a prefix of its   *)
(* prompt.  A prompt as long as the model's context is turned down.        *)
AddRequest(r, n) ==
  /\ phase = "idle" /\ status[r] = "NEW"
  /\ PrefixOf[r] # NoPrefix => PrefixLen[PrefixOf[r]] * BlockSize <= n
  /\ promptLen' = [promptLen EXCEPT ![r] = n]
  /\ arrival' = [arrival EXCEPT ![r] = Cardinality({q \in SeqId : status[q] # "NEW"})]
  /\ IF n < MaxModelLen
     THEN /\ status' = [status EXCEPT ![r] = "WAITING"]
          /\ waiting' = Append(waiting, r)
     ELSE /\ status' = [status EXCEPT ![r] = "REJECTED"]
          /\ UNCHANGED waiting
  /\ UNCHANGED <<running, swapped, outLen, bm, phase, loopVars, outputs, error, kv>>

(* abort_request: the group leaves its queue and its blocks are freed.     *)
Abort(r) ==
  /\ phase = "idle" /\ status[r] \in {"WAITING", "RUNNING", "SWAPPED"}
  /\ status' = [status EXCEPT ![r] = "FINISHED_ABORTED"]
  /\ waiting' \in Without(waiting, {r})
  /\ running' \in Without(running, {r})
  /\ swapped' \in Without(swapped, {r})
  /\ bm' \in Free(bm, {r})
  /\ UNCHANGED <<seqVars, phase, loopVars, outputs, error, kv>>

-----------------------------------------------------------------------------
(* The model run.  A prompt run writes the KV of every token of the        *)
(* sequence, a decode run that of the last one, into the blocks the table  *)
(* names for their positions; `Writer` is whose KV a block should hold.    *)
ContextLen(r) == SeqLen(r) + ImgTokens
BlockAt(r, pos) == bm.tables[r][(pos \div BlockSize) + 1]
InPrefix(r, pos) ==
  PrefixOf[r] # NoPrefix /\ pos < PrefixLen[PrefixOf[r]] * BlockSize
Writer(r, pos) == IF InPrefix(r, pos) THEN PrefixOf[r] ELSE r

(* Mutant of WrittenPositions: a recomputed group runs only its prompt.    *)
PromptPositions(r) ==
  IF outputs.promptRun THEN 0 .. promptLen[r] + ImgTokens - 1 ELSE {ContextLen(r) - 1}

WrittenPositions(r) ==
  IF outputs.promptRun THEN 0 .. ContextLen(r) - 1 ELSE {ContextLen(r) - 1}

Scheduled == Range(outputs.scheduled)

Written ==
  UNION {{<<BlockAt(r, pos), Writer(r, pos)>> : pos \in WrittenPositions(r)} :
         r \in Scheduled}

(* _check_stop, on the sampled token and in the order of its tests.        *)
Tokens == {"stop", "eos", "other"}

(* Mutant of CheckStop: the token just sampled is not counted.             *)
StopsLate(r, token) ==
  IF token = "stop" THEN "FINISHED_STOPPED"
  ELSE IF SeqLen(r) > MaxModelLen \/ outLen[r] = MaxTokens THEN "FINISHED_LENGTH_CAPPED"
  ELSE IF token = "eos" THEN "FINISHED_STOPPED"
  ELSE "RUNNING"

CheckStop(r, token) ==
  IF token = "stop" THEN "FINISHED_STOPPED"
  ELSE IF SeqLen(r) + 1 > MaxModelLen \/ outLen[r] + 1 = MaxTokens
  THEN "FINISHED_LENGTH_CAPPED"
  ELSE IF token = "eos" THEN "FINISHED_STOPPED"
  ELSE "RUNNING"

(* Step 2 and 3: one token for every scheduled group; the groups that are  *)
(* finished give back their blocks and leave the running queue.            *)
ExecuteModel ==
  /\ phase = "execute" /\ outputs.scheduled # <<>>
  /\ \E token \in [Scheduled -> Tokens] :
       LET after(r) == IF r \in Scheduled THEN CheckStop(r, token[r]) ELSE status[r]
           done     == {r \in Scheduled : after(r) \in FinishedStatus}
       IN  /\ status' = [r \in SeqId |-> after(r)]
           /\ \E c \in Free(bm, done) : Apply(c, "idle")
           /\ running' \in Without(running, done)
  /\ outLen' = [r \in SeqId |-> IF r \in Scheduled THEN outLen[r] + 1 ELSE outLen[r]]
  /\ kv' = [b \in GpuBlock |->
              IF b \in bm'.gpu THEN Nobody
              ELSE IF \E w \in SeqId \cup Prefix : <<b, w>> \in Written
              THEN CHOOSE w \in SeqId \cup Prefix : <<b, w>> \in Written
              ELSE kv[b]]
  /\ outputs' = NoOutputs
  /\ UNCHANGED <<waiting, swapped, promptLen, arrival, loopVars>>

(* Nothing scheduled.  If blocks are to be swapped or copied, is_empty()   *)
(* is false, the worker is called with an empty list and returns {}, which *)
(* is not the tensor step() asks it for.                                   *)
ExecuteNothing ==
  /\ phase = "execute" /\ outputs.scheduled = <<>>
  /\ IF outputs.swapIn \/ outputs.swapOut \/ outputs.copy
     THEN Raised("NoModelOutput")
     ELSE phase' = "idle" /\ UNCHANGED <<bm, error>>
  /\ outputs' = NoOutputs
  /\ UNCHANGED <<queueVars, status, seqVars, loopVars, kv>>

Step == (Schedule /\ UNCHANGED kv) \/ ExecuteModel \/ ExecuteNothing

Next ==
  \/ \E r \in SeqId, n \in PromptLens : AddRequest(r, n)
  \/ \E r \in SeqId : Abort(r)
  \/ Step

Spec == Init /\ [][Next]_vars

-----------------------------------------------------------------------------
(* Properties                                                              *)

Phases == {"idle", "admit", "reserve", "swap", "execute", "raised"}

(* Type invariant.                                                         *)
TypeOK ==
  /\ waiting \in Seq(SeqId) /\ running \in Seq(SeqId) /\ swapped \in Seq(SeqId)
  /\ status \in [SeqId -> Statuses]
  /\ promptLen \in [SeqId -> Nat] /\ outLen \in [SeqId -> Nat]
  /\ arrival \in [SeqId -> Nat]
  /\ bm \in BlockManagers
  /\ phase \in Phases
  /\ reserved \in Seq(SeqId) /\ preempted \in BOOLEAN
  /\ outputs \in [scheduled : Seq(SeqId), ignored : Seq(SeqId), promptRun : BOOLEAN,
                  swapIn : BOOLEAN, swapOut : BOOLEAN, copy : BOOLEAN]
  /\ error \in StepErrors \cup {"none"}
  /\ kv \in [GpuBlock -> SeqId \cup Prefix \cup {Nobody}]

Alive == error = "none"

(* A group is in the queue its status names, once, and in no other: no     *)
(* preemption, ignored prompt, swap, abort or finish loses or doubles one. *)
QueuesMatchStatus ==
  Alive =>
    /\ Range(waiting) = {r \in SeqId : status[r] = "WAITING"}
    /\ Range(running) \cup Range(reserved) = {r \in SeqId : status[r] = "RUNNING"}
    /\ Range(swapped) = {r \in SeqId : status[r] = "SWAPPED"}
    /\ IsInjective(waiting) /\ IsInjective(swapped)
    /\ IsInjective(running \o reserved)

(* Blocks are held by running groups, on the GPU, and by swapped groups,   *)
(* on the CPU; whoever waits or is finished has given back every block.    *)
BlocksMatchStatus ==
  Alive => \A r \in SeqId :
    LET t == bm.tables[r]
    IN  CASE status[r] = "RUNNING" -> t # <<>> /\ Range(t) \subseteq GpuBlock
          [] status[r] = "SWAPPED" -> Range(t) \subseteq CpuBlock
          [] OTHER                 -> t = <<>>

(* Reference counts are exact and a block is free iff nobody refers to it: *)
(* whatever ends a request, its blocks come back once and only once.       *)
RefCounts == Alive => RefCountExact(bm) /\ FreeIffUnreferenced(bm)

(* When the model runs, every position it writes has a block that no other *)
(* sequence or prefix refers to (unless it is the shared prefix's own).    *)
WritesAreExclusive ==
  phase = "execute" => \A r \in Scheduled : \A pos \in WrittenPositions(r) :
    /\ pos < Len(bm.tables[r]) * BlockSize
    /\ ~InPrefix(r, pos) => /\ Holders(bm, BlockAt(r, pos)) = {r}
                            /\ Pins(bm, BlockAt(r, pos)) = {}

(* Every earlier position a decode run attends to holds the KV its own     *)
(* sequence (or its prefix) wrote there: paging never mixes up requests.   *)
KvIntact ==
  phase = "execute" /\ ~outputs.promptRun => \A r \in Scheduled :
    \A pos \in 0 .. ContextLen(r) - 2 : kv[BlockAt(r, pos)] = Writer(r, pos)

(* step() hands the worker no blocks to copy, which is sound because copy  *)
(* on write never happens: append_slot never meets a shared last block.    *)
NothingToCopy == ~outputs.copy

(* The running groups, at the width they may reach, fit max_num_seqs, and  *)
(* a batch fits the token budget: the prompt run's tokens, including those *)
(* that recomputed groups had generated, or a decode run's one per group.  *)
BatchLimits ==
  phase = "execute" =>
    /\ Total(running, [r \in SeqId |-> MaxNumRunningSeqs(r)]) <= MaxNumSeqs
    /\ (IF outputs.promptRun THEN Total(outputs.scheduled, [r \in SeqId |-> SeqLen(r)])
        ELSE Len(outputs.scheduled)) <= MaxNumBatchedTokens

(* The comment on lines 182-184: the waiting queue needs no sorting, since *)
(* preempted groups go to its front and new ones to its back.              *)
WaitingInOrder ==
  \A i, j \in DOMAIN waiting : i < j => arrival[waiting[i]] < arrival[waiting[j]]

(* A preempted group is the latest to arrive of those that run.            *)
LatestIsPreempted ==
  [][\A r, q \in SeqId :
       /\ status[r] = "RUNNING" /\ status'[r] \in {"WAITING", "SWAPPED"}
       /\ status[q] = "RUNNING"
       => arrival[q] <= arrival[r]]_vars

(* First come, first served: no request runs while an earlier one waits.   *)
NoOvertaking ==
  phase = "idle" => \A r, w \in SeqId :
    status[r] = "RUNNING" /\ status[w] = "WAITING" => arrival[r] < arrival[w]

(* step() raises nothing: no allocator runs dry behind a can_* test, and   *)
(* swapping in and out never meet in one step (scheduler.py:60-61).        *)
NoStepError == Alive

(* A request is ignored only because its prompt is longer than the model's *)
(* length cap (sequence.py:49-51), never after it was taken in and ran.    *)
OnlyLongPromptsIgnored ==
  \A r \in SeqId : status[r] = "FINISHED_IGNORED" => promptLen[r] > MaxModelLen

(* A group holds no block beyond the one of its last token: the logical    *)
(* blocks mirror the state of the KV cache (block.py:14-15).               *)
NoSpareBlocks ==
  phase = "execute" => \A r \in Scheduled :
    (Len(bm.tables[r]) - 1) * BlockSize < ContextLen(r)

=============================================================================

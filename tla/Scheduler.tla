----------------------------- MODULE Scheduler -----------------------------
(***************************************************************************)
(* qserve/core/scheduler.py: continuous batching.  Every request is one    *)
(* SequenceGroup with one Sequence (LLMEngine.add_request creates no       *)
(* more), so a member of SeqId stands for the request, its group and its   *)
(* sequence.                                                               *)
(*                                                                         *)
(* One call of _schedule is a run of the actions below: `phase` says which *)
(* of its three loops is executing and an action is one iteration.  Only   *)
(* one thread runs, so nothing else happens while phase # "idle".          *)
(***************************************************************************)
EXTENDS BlockSpaceManager

CONSTANTS
  BlockSize,            \* tokens per KV block
  MaxModelLen, MaxNumBatchedTokens, MaxNumSeqs,   \* SchedulerConfig
  BestOf,               \* [SeqId -> Nat]: sampling_params.best_of
  PrefixOf,             \* [SeqId -> Prefix \cup {NoPrefix}]
  ImgTokens             \* img_per_seq * (token_per_img - 1); 0 for text

(* SchedulerConfig._verify_args and SamplingParams._verify_args.           *)
ASSUME SchedulerAssumption ==
  /\ BlockSize \in Nat \ {0} /\ ImgTokens \in Nat
  /\ MaxModelLen \in Nat /\ MaxNumSeqs \in Nat /\ MaxNumBatchedTokens \in Nat
  /\ MaxNumBatchedTokens >= MaxModelLen /\ MaxNumBatchedTokens >= MaxNumSeqs
  /\ BestOf \in [SeqId -> Nat \ {0}]
  /\ PrefixOf \in [SeqId -> Prefix \cup {NoPrefix}]

VARIABLES
  waiting, running, swapped,  \* the three queues, front first
  status,                     \* Sequence.status ("NEW": not added yet)
  promptLen, outLen,          \* prompt and generated tokens of a sequence
  arrival,                    \* SequenceGroup.arrival_time
  bm,                         \* the block manager
  phase,                      \* where step() is
  reserved,                   \* the local deque `running` of _schedule
  preempted,                  \* `preempted` is not empty
  outputs,                    \* the SchedulerOutputs under construction
  error                       \* the exception that ended step(), or "none"

seqVars   == <<promptLen, outLen, arrival>>
queueVars == <<waiting, running, swapped>>
loopVars  == <<reserved, preempted>>

FinishedStatus ==
  {"FINISHED_STOPPED", "FINISHED_LENGTH_CAPPED", "FINISHED_ABORTED", "FINISHED_IGNORED"}
Statuses == FinishedStatus \cup {"NEW", "REJECTED", "WAITING", "RUNNING", "SWAPPED"}
StepErrors == Errors \cup {"NoSwapSpace", "SwapInAndOut", "NoModelOutput"}

NoOutputs ==
  [scheduled |-> <<>>, ignored |-> <<>>, promptRun |-> FALSE,
   swapIn |-> FALSE, swapOut |-> FALSE, copy |-> FALSE]

SchedulerInit ==
  /\ waiting = <<>> /\ running = <<>> /\ swapped = <<>>
  /\ status = [r \in SeqId |-> "NEW"]
  /\ promptLen = [r \in SeqId |-> 0] /\ outLen = [r \in SeqId |-> 0]
  /\ arrival = [r \in SeqId |-> 0]
  /\ bm = NewBlockManager
  /\ phase = "idle" /\ reserved = <<>> /\ preempted = FALSE
  /\ outputs = NoOutputs /\ error = "none"

-----------------------------------------------------------------------------
(* The sequence and its group.                                             *)
SeqLen(r) == promptLen[r] + outLen[r]

(* Mutants of LogicalBlocks: rounded down; a block too many at a boundary. *)
FullBlocks(r)      == SeqLen(r) \div BlockSize
BlocksPlusOne(r)   == (SeqLen(r) \div BlockSize) + 1

(* len(logical_token_blocks).  For a VLM every call of                     *)
(* _append_tokens_to_blocks pads for the images, also the one that appends *)
(* a single generated token.                                               *)
LogicalBlocks(r) ==
  (SeqLen(r) + ImgTokens * (1 + outLen[r]) + BlockSize - 1) \div BlockSize

IsFinished(r) == status[r] \in FinishedStatus

MaxNumRunningSeqs(r) ==
  IF BestOf[r] > 1 THEN BestOf[r] ELSE IF IsFinished(r) THEN 0 ELSE 1

(* The sum of w over the groups of a queue, none of which is there twice:  *)
(* every group r counted w[r] times.                                       *)
Copies(S, w) == UNION {{r} \X (1 .. w[r]) : r \in S}
Total(q, w)  == Cardinality(Copies(Range(q), w))

(* Mutants: groups counted instead of sequences; generated tokens that a   *)
(* recomputed group has to run again left out of the budget.               *)
NumGroups(q)       == Len(q)
NumPromptTokens(q) == Total(q, promptLen)

NumCurrSeqs(q) == Total(q, [r \in SeqId |-> MaxNumRunningSeqs(r)])
NumTokens(q)   == Total(q, [r \in SeqId |-> SeqLen(r)])

(* A queue is a sequence without repetitions: the orders of a set.         *)
Orders(S) == Bijection(1 .. Cardinality(S), S)

(* Mutant of SortByPriority: the latest first.                             *)
SortReversed(q) ==
  {p \in Orders(Range(q)) :
     \A i, j \in DOMAIN p : i < j => arrival[p[i]] >= arrival[p[j]]}

(* Policy.sort_by_priority with FCFS priorities: now - arrival_time.       *)
SortByPriority(q) ==
  {p \in Orders(Range(q)) :
     \A i, j \in DOMAIN p : i < j => arrival[p[i]] <= arrival[p[j]]}

(* q without the members of S, in the same order.                          *)
Without(q, S) ==
  {p \in Orders(Range(q) \ S) :
     \A i, j \in DOMAIN q : i < j /\ q[i] \notin S /\ q[j] \notin S =>
       \E k, l \in DOMAIN p : k < l /\ p[k] = q[i] /\ p[l] = q[j]}

Front(q) == SubSeq(q, 1, Len(q) - 1)

PromptLimit == IF MaxModelLen < MaxNumBatchedTokens THEN MaxModelLen
               ELSE MaxNumBatchedTokens

-----------------------------------------------------------------------------
(* An operation of the block manager ends in the state c; the step goes on *)
(* in phase `next` unless the operation raised.                            *)
Apply(c, next) ==
  /\ bm' = c
  /\ phase' = IF c.err = "none" THEN next ELSE "raised"
  /\ error' = c.err

Raised(e) ==
  /\ phase' = "raised" /\ error' = e
  /\ UNCHANGED bm

BeginReserve ==
  /\ phase' = "reserve"
  /\ running' \in SortByPriority(running)

(* schedule() is called.  New prompts are considered only when nothing is  *)
(* swapped out.                                                            *)
StartStep ==
  /\ phase = "idle"
  /\ waiting # <<>> \/ running # <<>> \/ swapped # <<>>
  /\ outputs' = NoOutputs /\ reserved' = <<>> /\ preempted' = FALSE
  /\ IF swapped = <<>> THEN phase' = "admit" /\ UNCHANGED running ELSE BeginReserve
  /\ UNCHANGED <<waiting, swapped, status, seqVars, bm, error>>

(* One look at the head of the waiting queue (lines 186-233).              *)
Verdict(r) ==
  LET alloc == CanAllocate(bm, LogicalBlocks(r), PrefixOf[r])
  IN  IF SeqLen(r) > PromptLimit \/ alloc = "NEVER" THEN "ignore"
      ELSE IF \/ alloc = "LATER"
              \/ NumTokens(outputs.scheduled) + SeqLen(r) > MaxNumBatchedTokens
              \/ NumCurrSeqs(running) + MaxNumRunningSeqs(r) > MaxNumSeqs
      THEN "stop"
      ELSE "admit"

Admit ==
  LET r == Head(waiting)
  IN  /\ phase = "admit" /\ waiting # <<>> /\ Verdict(r) = "admit"
      /\ \E c \in Allocate(bm, {r}, 1, LogicalBlocks(r), PrefixOf[r]) : Apply(c, "admit")
      /\ status' = [status EXCEPT ![r] = "RUNNING"]
      /\ waiting' = Tail(waiting) /\ running' = Append(running, r)
      /\ outputs' = [outputs EXCEPT !.scheduled = Append(@, r)]
      /\ UNCHANGED <<swapped, seqVars, loopVars>>

Ignore ==
  LET r == Head(waiting)
  IN  /\ phase = "admit" /\ waiting # <<>> /\ Verdict(r) = "ignore"
      /\ status' = [status EXCEPT ![r] = "FINISHED_IGNORED"]
      /\ waiting' = Tail(waiting)
      /\ outputs' = [outputs EXCEPT !.ignored = Append(@, r)]
      /\ UNCHANGED <<running, swapped, seqVars, bm, phase, loopVars, error>>

(* The loop ends.  A step that admitted or ignored anything is a prompt    *)
(* run; any other goes on to the running groups.                           *)
EndAdmit ==
  /\ phase = "admit"
  /\ waiting # <<>> => Verdict(Head(waiting)) = "stop"
  /\ IF outputs.scheduled # <<>> \/ outputs.ignored # <<>>
     THEN /\ phase' = "execute" /\ outputs' = [outputs EXCEPT !.promptRun = TRUE]
          /\ UNCHANGED running
     ELSE BeginReserve /\ UNCHANGED outputs
  /\ UNCHANGED <<waiting, swapped, status, seqVars, bm, loopVars, error>>

-----------------------------------------------------------------------------
(* Lines 267-287: a slot for every running group, in order of arrival.     *)
(* The head stays in `running` while victims are taken from its other end. *)
ReserveSlot ==
  LET r == Head(running)
  IN  /\ phase = "reserve" /\ running # <<>> /\ CanAppendSlot(bm, 1)
      /\ \E c \in AppendSlot(bm, r, LogicalBlocks(r)) : Apply(c, "reserve")
      /\ outputs' = [outputs EXCEPT !.copy = @ \/ NeedsCopy(bm, r, LogicalBlocks(r))]
      /\ running' = Tail(running) /\ reserved' = Append(reserved, r)
      /\ UNCHANGED <<waiting, swapped, status, seqVars, preempted>>

(* Mutants of PreemptByRecompute: the group goes to the back of the queue; *)
(* it goes nowhere.                                                        *)
RecomputeAtBack(r) ==
  /\ MaxNumRunningSeqs(r) = 1
  /\ \E c \in Free(bm, {r}) : Apply(c, "reserve")
  /\ status' = [status EXCEPT ![r] = "WAITING"]
  /\ waiting' = Append(waiting, r)
  /\ UNCHANGED <<swapped, outputs>>
RecomputeLosesGroup(r) ==
  /\ MaxNumRunningSeqs(r) = 1
  /\ \E c \in Free(bm, {r}) : Apply(c, "reserve")
  /\ status' = [status EXCEPT ![r] = "WAITING"]
  /\ UNCHANGED <<waiting, swapped, outputs>>

PreemptByRecompute(r) ==
  /\ MaxNumRunningSeqs(r) = 1
  /\ \E c \in Free(bm, {r}) : Apply(c, "reserve")
  /\ status' = [status EXCEPT ![r] = "WAITING"]
  /\ waiting' = <<r>> \o waiting
  /\ UNCHANGED <<swapped, outputs>>

PreemptBySwap(r) ==
  /\ MaxNumRunningSeqs(r) # 1
  /\ IF CanSwapOut(bm, {r})
     THEN /\ \E c \in SwapOut(bm, {r}, PrefixOf[r]) : Apply(c, "reserve")
          /\ status' = [status EXCEPT ![r] = "SWAPPED"]
          /\ swapped' = Append(swapped, r)
          /\ outputs' = [outputs EXCEPT !.swapOut = @ \/ bm'.cpu # bm.cpu]
     ELSE Raised("NoSwapSpace") /\ UNCHANGED <<status, swapped, outputs>>
  /\ UNCHANGED waiting

(* No free block for the head: the last of the other groups makes room,    *)
(* or the head itself when there is no other.                              *)
Preempt ==
  /\ phase = "reserve" /\ running # <<>> /\ ~CanAppendSlot(bm, 1)
  /\ LET victim == running[Len(running)]
     IN  PreemptByRecompute(victim) \/ PreemptBySwap(victim)
  /\ running' = Front(running)
  /\ preempted' = TRUE
  /\ UNCHANGED <<reserved, seqVars>>

EndReserve ==
  /\ phase = "reserve" /\ running = <<>>
  /\ running' = reserved /\ reserved' = <<>>
  /\ swapped' \in SortByPriority(swapped)
  /\ phase' = "swap"
  /\ UNCHANGED <<waiting, status, seqVars, bm, preempted, outputs, error>>

-----------------------------------------------------------------------------
(* Lines 291-335: swapped groups come back, unless a group was preempted.  *)
CanResume(r) ==
  /\ CanSwapIn(bm, {r})
  /\ NumCurrSeqs(running) + MaxNumRunningSeqs(r) <= MaxNumSeqs

Resume ==
  LET r == Head(swapped)
      n == LogicalBlocks(r)
      In == SwapIn(bm, {r}, PrefixOf[r])
  IN  /\ phase = "swap" /\ ~preempted /\ swapped # <<>> /\ CanResume(r)
      /\ \E c \in In : \E d \in IF c.err = "none" THEN AppendSlot(c, r, n) ELSE {c} :
           /\ Apply(d, "swap")
           /\ outputs' = [outputs EXCEPT !.swapIn = @ \/ d.cpu # bm.cpu,
                            !.copy = @ \/ (c.err = "none" /\ NeedsCopy(c, r, n))]
      /\ status' = [status EXCEPT ![r] = "RUNNING"]
      /\ swapped' = Tail(swapped) /\ running' = Append(running, r)
      /\ UNCHANGED <<waiting, seqVars, loopVars>>

EndSchedule ==
  /\ phase = "swap"
  /\ ~preempted /\ swapped # <<>> => ~CanResume(Head(swapped))
  /\ IF outputs.swapIn /\ outputs.swapOut
     THEN Raised("SwapInAndOut") /\ UNCHANGED outputs
     ELSE /\ phase' = "execute" /\ outputs' = [outputs EXCEPT !.scheduled = running]
          /\ UNCHANGED <<bm, error>>
  /\ UNCHANGED <<queueVars, status, seqVars, loopVars>>

Schedule ==
  \/ StartStep \/ Admit \/ Ignore \/ EndAdmit \/ ReserveSlot \/ Preempt
  \/ EndReserve \/ Resume \/ EndSchedule
=============================================================================

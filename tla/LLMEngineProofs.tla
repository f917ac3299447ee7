-------------------------- MODULE LLMEngineProofs --------------------------
(***************************************************************************)
(* Theorems about the engine in IFB mode, for any number of requests and   *)
(* blocks and any limits, as long as no request has a shared prefix: that  *)
(* is what model_runner.py:339 assumes and what every driver does.         *)
(*                                                                         *)
(* First types, queues and batches; then that every block belongs to at    *)
(* most one sequence: without prefixes, sliding window and forks no two    *)
(* tables meet and no table lists a block twice, so a reference count is 0 *)
(* or 1; that is what makes the counts exact, copy on write idle, and the  *)
(* allocators' exceptions impossible behind the can_* tests.               *)
(***************************************************************************)
EXTENDS LLMEngine, BlockSpaceManagerProofs

PrefixFree == \A r \in SeqId : PrefixOf[r] = NoPrefix

-----------------------------------------------------------------------------
(* The helpers of the scheduler.                                           *)

LEMMA DivNat ==
  ASSUME NEW x \in Nat, NEW k \in Nat \ {0}
  PROVE  x \div k \in Nat
  OBVIOUS

LEMMA LengthTypes ==
  ASSUME TypeOK, NEW r \in SeqId
  PROVE  SeqLen(r) \in Nat /\ LogicalBlocks(r) \in Nat
  <1>1. SeqLen(r) \in Nat
    BY DEF TypeOK, SeqLen
  <1>2. outLen[r] \in Nat /\ ImgTokens \in Nat /\ BlockSize \in Nat \ {0}
    BY SchedulerAssumption DEF TypeOK
  <1>3. ImgTokens * (1 + outLen[r]) \in Nat
    BY <1>2
  <1>4. SeqLen(r) + ImgTokens * (1 + outLen[r]) + BlockSize - 1 \in Nat
    BY <1>1, <1>2, <1>3
  <1>5. LogicalBlocks(r) \in Nat
    BY <1>2, <1>4, DivNat DEF LogicalBlocks
  <1> QED  BY <1>1, <1>5

(* An order of a set of requests lists each of them once.                  *)
LEMMA OrdersProperties ==
  ASSUME NEW S \in SUBSET SeqId, NEW p \in Orders(S)
  PROVE  p \in Seq(SeqId) /\ Range(p) = S /\ IsInjective(p)
  <1>1. Cardinality(S) \in Nat
    BY BlocksAreFinite, FS_Subset, FS_CardinalityType
  <1>2. p \in [1 .. Cardinality(S) -> S] /\ IsInjective(p)
        /\ \A x \in S : \E i \in 1 .. Cardinality(S) : p[i] = x
    BY DEF Orders, Bijection, Injection, Surjection
  <1>3. p \in Seq(S)
    BY <1>1, <1>2, FunctionIsSeq
  <1>4. p \in Seq(SeqId)
    BY <1>3, SeqMonotonic
  <1>5. Range(p) = S
    BY <1>2 DEF Range
  <1> QED  BY <1>2, <1>4, <1>5

LEMMA SortProperties ==
  ASSUME NEW q \in Seq(SeqId), NEW p \in SortByPriority(q)
  PROVE  p \in Seq(SeqId) /\ Range(p) = Range(q) /\ IsInjective(p)
  <1>1. Range(q) \in SUBSET SeqId
    BY RangeOfSeq
  <1> QED  BY <1>1, OrdersProperties DEF SortByPriority

LEMMA WithoutProperties ==
  ASSUME NEW q \in Seq(SeqId), NEW S, NEW p \in Without(q, S)
  PROVE  p \in Seq(SeqId) /\ Range(p) = Range(q) \ S /\ IsInjective(p)
  <1>1. Range(q) \ S \in SUBSET SeqId
    BY RangeOfSeq
  <1> QED  BY <1>1, OrdersProperties DEF Without

LEMMA FrontType ==
  ASSUME NEW q \in Seq(SeqId), q # <<>>
  PROVE  Front(q) \in Seq(SeqId) /\ q[Len(q)] \in SeqId
  <1>1. Len(q) \in Nat \ {0}
    BY EmptySeq
  <1>2. \A i \in 1 .. Len(q) : q[i] \in SeqId
    BY ElementOfSeq
  <1>3. Front(q) \in Seq(SeqId)
    BY <1>1, <1>2, SubSeqProperties DEF Front
  <1> QED  BY <1>1, <1>2, <1>3

-----------------------------------------------------------------------------
(* Type correctness, one lemma for what the actions share.                 *)

LEMMA ApplyType ==
  ASSUME NEW c \in BlockManagers, NEW next \in Phases, Apply(c, next)
  PROVE  bm' \in BlockManagers /\ phase' \in Phases /\ error' \in StepErrors \cup {"none"}
  BY DEF Apply, Phases, StepErrors, BlockManagers

LEMMA HeadType ==
  ASSUME NEW q \in Seq(SeqId), q # <<>>
  PROVE  Head(q) \in SeqId /\ Tail(q) \in Seq(SeqId)
  BY HeadTailProperties

(* Every step keeps the types.                                             *)
LEMMA TypeStep ==
  ASSUME PrefixFree, TypeOK, [Next]_vars
  PROVE  TypeOK'
  <1> USE DEF TypeOK, seqVars, queueVars, loopVars
  <1> DEFINE Outputs == [scheduled : Seq(SeqId), ignored : Seq(SeqId), promptRun : BOOLEAN,
                         swapIn : BOOLEAN, swapOut : BOOLEAN, copy : BOOLEAN]
  <1>0. NoOutputs \in Outputs
    BY EmptySeq DEF NoOutputs
  <1>1. ASSUME NEW r \in SeqId, NEW n \in PromptLens, AddRequest(r, n)
        PROVE  TypeOK'
    <2>1. n \in Nat
      BY EngineAssumption
    <2>2. Cardinality({q \in SeqId : status[q] # "NEW"}) \in Nat
      BY BlocksAreFinite, FS_Subset, FS_CardinalityType
    <2>3. promptLen' \in [SeqId -> Nat] /\ arrival' \in [SeqId -> Nat]
      BY <1>1, <2>1, <2>2 DEF AddRequest
    <2>4. waiting' \in Seq(SeqId)
      <3>1. Append(waiting, r) \in Seq(SeqId)
        BY AppendProperties
      <3> QED  BY <1>1, <3>1 DEF AddRequest
    <2>5. status' \in [SeqId -> Statuses]
      BY <1>1 DEF AddRequest, Statuses
    <2> QED  BY <1>1, <2>3, <2>4, <2>5 DEF AddRequest
  <1>2. ASSUME NEW r \in SeqId, Abort(r)
        PROVE  TypeOK'
    <2>1. waiting' \in Seq(SeqId) /\ running' \in Seq(SeqId) /\ swapped' \in Seq(SeqId)
      BY <1>2, WithoutProperties DEF Abort
    <2>2. bm' \in BlockManagers
      BY <1>2, FreeType DEF Abort
    <2>3. status' \in [SeqId -> Statuses]
      BY <1>2 DEF Abort, Statuses, FinishedStatus
    <2> QED  BY <1>2, <2>1, <2>2, <2>3 DEF Abort
  <1>3. CASE StartStep /\ UNCHANGED kv
    <2>1. running' \in Seq(SeqId) /\ phase' \in Phases
      BY <1>3, SortProperties DEF StartStep, BeginReserve, Phases
    <2>2. reserved' \in Seq(SeqId)
      BY <1>3, EmptySeq DEF StartStep
    <2> QED  BY <1>0, <1>3, <2>1, <2>2 DEF StartStep
  <1>4. CASE Admit /\ UNCHANGED kv
    <2> DEFINE r == Head(waiting)
    <2>1. r \in SeqId /\ waiting' \in Seq(SeqId)
      BY <1>4, HeadType DEF Admit
    <2>2. LogicalBlocks(r) \in Nat /\ PrefixOf[r] \in Prefix \cup {NoPrefix}
      BY <2>1, LengthTypes, SchedulerAssumption
    <2> HIDE DEF r
    <2>3. PICK c \in Allocate(bm, {r}, 1, LogicalBlocks(r), PrefixOf[r]) : Apply(c, "admit")
      BY <1>4 DEF Admit, r
    <2>4. c \in BlockManagers
      BY <2>1, <2>2, AllocateType
    <2>5. bm' \in BlockManagers /\ phase' \in Phases /\ error' \in StepErrors \cup {"none"}
      BY <2>3, <2>4, ApplyType DEF Phases
    <2>6. running' \in Seq(SeqId)
      BY <1>4, <2>1, AppendProperties DEF Admit, r
    <2>7. status' \in [SeqId -> Statuses]
      BY <1>4, <2>1 DEF Admit, r, Statuses
    <2>8. outputs' \in Outputs
      <3>1. Append(outputs.scheduled, r) \in Seq(SeqId)
        BY <2>1, AppendProperties
      <3>2. outputs' = [outputs EXCEPT !.scheduled = Append(outputs.scheduled, r)]
        BY <1>4 DEF Admit, r
      <3> QED  BY <3>1, <3>2
    <2> QED  BY <1>4, <2>1, <2>5, <2>6, <2>7, <2>8 DEF Admit
  <1>5. CASE Ignore /\ UNCHANGED kv
    <2> DEFINE r == Head(waiting)
    <2>1. r \in SeqId /\ waiting' \in Seq(SeqId)
      BY <1>5, HeadType DEF Ignore
    <2> HIDE DEF r
    <2>2. status' \in [SeqId -> Statuses]
      BY <1>5, <2>1 DEF Ignore, r, Statuses, FinishedStatus
    <2>3. outputs' \in Outputs
      <3>1. Append(outputs.ignored, r) \in Seq(SeqId)
        BY <2>1, AppendProperties
      <3>2. outputs' = [outputs EXCEPT !.ignored = Append(outputs.ignored, r)]
        BY <1>5 DEF Ignore, r
      <3> QED  BY <3>1, <3>2
    <2> QED  BY <1>5, <2>1, <2>2, <2>3 DEF Ignore
  <1>6. CASE EndAdmit /\ UNCHANGED kv
    <2>1. running' \in Seq(SeqId) /\ phase' \in Phases
      BY <1>6, SortProperties DEF EndAdmit, BeginReserve, Phases
    <2>2. outputs' \in Outputs
      BY <1>6 DEF EndAdmit
    <2> QED  BY <1>6, <2>1, <2>2 DEF EndAdmit
  <1>7. CASE ReserveSlot /\ UNCHANGED kv
    <2> DEFINE r == Head(running)
    <2>1. r \in SeqId /\ running' \in Seq(SeqId)
      BY <1>7, HeadType DEF ReserveSlot
    <2>2. LogicalBlocks(r) \in Nat
      BY <2>1, LengthTypes
    <2> HIDE DEF r
    <2>3. PICK c \in AppendSlot(bm, r, LogicalBlocks(r)) : Apply(c, "reserve")
      BY <1>7 DEF ReserveSlot, r
    <2>4. c \in BlockManagers
      BY <2>1, <2>2, AppendSlotType
    <2>5. bm' \in BlockManagers /\ phase' \in Phases /\ error' \in StepErrors \cup {"none"}
      BY <2>3, <2>4, ApplyType DEF Phases
    <2>6. reserved' \in Seq(SeqId)
      BY <1>7, <2>1, AppendProperties DEF ReserveSlot, r
    <2>7. outputs' \in Outputs
      <3>1. outputs' = [outputs EXCEPT !.copy =
                          outputs.copy \/ NeedsCopy(bm, r, LogicalBlocks(r))]
        BY <1>7 DEF ReserveSlot, r
      <3> QED  BY <3>1
    <2> QED  BY <1>7, <2>1, <2>5, <2>6, <2>7 DEF ReserveSlot
  <1>8. CASE Preempt /\ UNCHANGED kv
    <2> DEFINE r == running[Len(running)]
    <2>1. r \in SeqId /\ running' \in Seq(SeqId)
      BY <1>8, FrontType DEF Preempt
    <2> HIDE DEF r
    <2>2. CASE PreemptByRecompute(r)
      <3>1. PICK c \in Free(bm, {r}) : Apply(c, "reserve")
        BY <2>2 DEF PreemptByRecompute
      <3>2. c \in BlockManagers
        BY <2>1, <3>1, FreeType
      <3>3. bm' \in BlockManagers /\ phase' \in Phases /\ error' \in StepErrors \cup {"none"}
        BY <3>1, <3>2, ApplyType DEF Phases
      <3>4. waiting' \in Seq(SeqId)
        <4>1. <<r>> \in Seq(SeqId)
          BY <2>1
        <4> QED  BY <2>2, <4>1, ConcatProperties DEF PreemptByRecompute
      <3>5. status' \in [SeqId -> Statuses]
        BY <2>1, <2>2 DEF PreemptByRecompute, Statuses
      <3> QED  BY <1>8, <2>1, <2>2, <3>3, <3>4, <3>5 DEF Preempt, PreemptByRecompute
    <2>3. CASE PreemptBySwap(r)
      <3>1. CASE CanSwapOut(bm, {r})
        <4>1. PICK c \in SwapOut(bm, {r}, PrefixOf[r]) : Apply(c, "reserve")
          BY <2>3, <3>1 DEF PreemptBySwap
        <4>2. c \in BlockManagers
          BY <2>1, <4>1, SwapType DEF PrefixFree
        <4>3. bm' \in BlockManagers /\ phase' \in Phases /\ error' \in StepErrors \cup {"none"}
          BY <4>1, <4>2, ApplyType DEF Phases
        <4>4. swapped' \in Seq(SeqId)
          <5>1. Append(swapped, r) \in Seq(SeqId)
            BY <2>1, AppendProperties
          <5> QED  BY <2>3, <3>1, <5>1 DEF PreemptBySwap
        <4>5. status' \in [SeqId -> Statuses]
          BY <2>1, <2>3, <3>1 DEF PreemptBySwap, Statuses
        <4>6. outputs' \in Outputs
          BY <2>3, <3>1 DEF PreemptBySwap
        <4> QED  BY <1>8, <2>1, <2>3, <4>3, <4>4, <4>5, <4>6 DEF Preempt, PreemptBySwap
      <3>2. CASE ~CanSwapOut(bm, {r})
        BY <1>8, <2>1, <2>3, <3>2 DEF Preempt, PreemptBySwap, Raised, Phases, StepErrors
      <3> QED  BY <3>1, <3>2
    <2> QED  BY <1>8, <2>2, <2>3 DEF Preempt, r
  <1>9. CASE EndReserve /\ UNCHANGED kv
    <2>1. swapped' \in Seq(SeqId)
      BY <1>9, SortProperties DEF EndReserve
    <2> QED  BY <1>9, <2>1, EmptySeq DEF EndReserve, Phases
  <1>10. CASE Resume /\ UNCHANGED kv
    <2> DEFINE r == Head(swapped)
               n == LogicalBlocks(r)
    <2>1. r \in SeqId /\ swapped' \in Seq(SeqId)
      BY <1>10, HeadType DEF Resume
    <2>2. n \in Nat
      BY <2>1, LengthTypes
    <2> HIDE DEF r, n
    <2>3. PICK c \in SwapIn(bm, {r}, PrefixOf[r]) :
            \E d \in IF c.err = "none" THEN AppendSlot(c, r, n) ELSE {c} :
              /\ Apply(d, "swap")
              /\ outputs' = [outputs EXCEPT !.swapIn = @ \/ d.cpu # bm.cpu,
                               !.copy = @ \/ (c.err = "none" /\ NeedsCopy(c, r, n))]
      BY <1>10 DEF Resume, r, n
    <2>4. PICK d \in IF c.err = "none" THEN AppendSlot(c, r, n) ELSE {c} :
              /\ Apply(d, "swap")
              /\ outputs' = [outputs EXCEPT !.swapIn = @ \/ d.cpu # bm.cpu,
                               !.copy = @ \/ (c.err = "none" /\ NeedsCopy(c, r, n))]
      BY <2>3
    <2>5. c \in BlockManagers
      BY <2>1, <2>3, SwapType DEF PrefixFree
    <2>6. d \in BlockManagers
      BY <2>1, <2>2, <2>4, <2>5, AppendSlotType
    <2>7. bm' \in BlockManagers /\ phase' \in Phases /\ error' \in StepErrors \cup {"none"}
      BY <2>4, <2>6, ApplyType DEF Phases
    <2>8. outputs' \in Outputs
      BY <2>4
    <2>9. running' \in Seq(SeqId)
      BY <1>10, <2>1, AppendProperties DEF Resume, r
    <2>10. status' \in [SeqId -> Statuses]
      BY <1>10, <2>1 DEF Resume, r, Statuses
    <2> QED  BY <1>10, <2>1, <2>7, <2>8, <2>9, <2>10 DEF Resume
  <1>11. CASE EndSchedule /\ UNCHANGED kv
    <2>1. outputs' \in Outputs
      BY <1>11 DEF EndSchedule
    <2> QED  BY <1>11, <2>1 DEF EndSchedule, Raised, Phases, StepErrors
  <1>12. CASE ExecuteModel
    <2> DEFINE Owner == SeqId \cup Prefix
               after(token, r) == IF r \in Scheduled THEN CheckStop(r, token[r]) ELSE status[r]
               done(token) == {r \in Scheduled : after(token, r) \in FinishedStatus}
    <2>1. Scheduled \in SUBSET SeqId
      BY RangeOfSeq DEF Scheduled
    <2>2. PICK token \in [Scheduled -> Tokens] :
            /\ status' = [r \in SeqId |-> after(token, r)]
            /\ \E c \in Free(bm, done(token)) : Apply(c, "idle")
            /\ running' \in Without(running, done(token))
      BY <1>12 DEF ExecuteModel
    <2>3. PICK c \in Free(bm, done(token)) : Apply(c, "idle")
      BY <2>2
    <2>4. done(token) \in SUBSET SeqId
      BY <2>1
    <2>5. \A r \in SeqId : after(token, r) \in Statuses
      BY DEF CheckStop, Statuses, FinishedStatus
    <2>6. status' \in [SeqId -> Statuses]
      <3> HIDE DEF after
      <3> QED  BY <2>2, <2>5
    <2> HIDE DEF done, after
    <2>7. c \in BlockManagers
      BY <2>3, <2>4, FreeType
    <2>8. bm' \in BlockManagers /\ phase' \in Phases /\ error' \in StepErrors \cup {"none"}
      BY <2>3, <2>7, ApplyType DEF Phases
    <2>9. running' \in Seq(SeqId)
      BY <2>2, WithoutProperties
    <2>10. outLen' \in [SeqId -> Nat]
      BY <1>12 DEF ExecuteModel
    <2>11. kv' \in [GpuBlock -> Owner \cup {Nobody}]
      <3>1. \A b \in GpuBlock :
              (\E w \in Owner : <<b, w>> \in Written) =>
                (CHOOSE w \in Owner : <<b, w>> \in Written) \in Owner
        OBVIOUS
      <3> QED  BY <1>12, <3>1 DEF ExecuteModel
    <2> QED  BY <1>0, <1>12, <2>6, <2>8, <2>9, <2>10, <2>11 DEF ExecuteModel
  <1>13. CASE ExecuteNothing
    BY <1>0, <1>13 DEF ExecuteNothing, Raised, Phases, StepErrors
  <1>14. CASE UNCHANGED vars
    BY <1>14 DEF vars
  <1> QED
    BY <1>1, <1>2, <1>3, <1>4, <1>5, <1>6, <1>7, <1>8, <1>9, <1>10, <1>11, <1>12, <1>13,
       <1>14 DEF Next, Step, Schedule

LEMMA TypeInit == Init => TypeOK
  <1> SUFFICES ASSUME Init PROVE TypeOK
    OBVIOUS
  <1> USE DEF Init, SchedulerInit
  <1>1. bm \in BlockManagers
    <2>1. \A s \in SeqId : <<>> \in Seq(Block)
      BY EmptySeq
    <2> QED  BY <2>1 DEF NewBlockManager, BlockManagers
  <1>2. /\ waiting \in Seq(SeqId) /\ running \in Seq(SeqId) /\ swapped \in Seq(SeqId)
        /\ reserved \in Seq(SeqId)
    BY EmptySeq
  <1>3. outputs \in [scheduled : Seq(SeqId), ignored : Seq(SeqId), promptRun : BOOLEAN,
                     swapIn : BOOLEAN, swapOut : BOOLEAN, copy : BOOLEAN]
    BY EmptySeq DEF NoOutputs
  <1> QED  BY <1>1, <1>2, <1>3 DEF TypeOK, Statuses, Phases

(* Type correctness: whatever is added, aborted, preempted, swapped or     *)
(* finished, the queues hold requests and every table holds blocks; an     *)
(* index or a reference count that went astray would leave the types.      *)
THEOREM TypeCorrect ==
  ASSUME PrefixFree
  PROVE  Spec => []TypeOK
  <1>1. Init => TypeOK
    BY TypeInit
  <1>2. TypeOK /\ [Next]_vars => TypeOK'
    BY TypeStep
  <1> QED  BY <1>1, <1>2, PTL DEF Spec

-----------------------------------------------------------------------------
(***************************************************************************)
(* A request is in the queue its status names, once, and in no other.      *)
(* QueuesMatchStatus is not inductive: a step that raised an exception     *)
(* leaves the queues as they were in the middle of a loop, and the loops   *)
(* rely on what they have put into `reserved` and `outputs` before.        *)
(* QueueInv says so, and is what every step preserves.                     *)
(***************************************************************************)
ErrorPhase == error = "none" <=> phase # "raised"

Queues ==
  /\ Range(waiting) = {r \in SeqId : status[r] = "WAITING"}
  /\ Range(running) \cup Range(reserved) = {r \in SeqId : status[r] = "RUNNING"}
  /\ Range(swapped) = {r \in SeqId : status[r] = "SWAPPED"}
  /\ IsInjective(waiting) /\ IsInjective(swapped)
  /\ IsInjective(running) /\ IsInjective(reserved)
  /\ Range(running) \cap Range(reserved) = {}
  /\ phase # "reserve" => reserved = <<>>
  /\ phase \in {"admit", "execute"} => Range(outputs.scheduled) \subseteq Range(running)

QueueInv == ErrorPhase /\ (Alive => Queues)

-----------------------------------------------------------------------------
(* Queues: what appending, popping and dropping do to their members.       *)

LEMMA AppendQueue ==
  ASSUME NEW q \in Seq(SeqId), NEW r \in SeqId
  PROVE  /\ Append(q, r) \in Seq(SeqId)
         /\ Range(Append(q, r)) = Range(q) \cup {r}
         /\ IsInjective(q) /\ r \notin Range(q) => IsInjective(Append(q, r))
  <1> DEFINE p == Append(q, r)
  <1>1. /\ p \in Seq(SeqId) /\ Len(p) = Len(q) + 1 /\ p[Len(q) + 1] = r
        /\ \A i \in 1 .. Len(q) : p[i] = q[i]
    BY AppendProperties
  <1>2. Len(q) \in Nat /\ DOMAIN q = 1 .. Len(q) /\ DOMAIN p = 1 .. Len(q) + 1
    BY <1>1, LenProperties
  <1> HIDE DEF p
  <1>3. DOMAIN p = DOMAIN q \cup {Len(q) + 1} /\ Len(q) + 1 \notin DOMAIN q
    BY <1>2
  <1>4. Range(p) = Range(q) \cup {r}
    BY <1>1, <1>2, <1>3 DEF Range
  <1>5. ASSUME IsInjective(q), r \notin Range(q)
        PROVE  IsInjective(p)
    BY <1>1, <1>2, <1>3, <1>5 DEF Range, IsInjective
  <1> QED  BY <1>1, <1>4, <1>5 DEF p

LEMMA TailQueue ==
  ASSUME NEW q \in Seq(SeqId), q # <<>>
  PROVE  /\ Head(q) \in Range(q)
         /\ IsInjective(q) => Range(Tail(q)) = Range(q) \ {Head(q)} /\ IsInjective(Tail(q))
  <1> DEFINE p == Tail(q)
  <1>1. /\ p \in Seq(SeqId) /\ Len(p) = Len(q) - 1
        /\ \A i \in 1 .. Len(p) : p[i] = q[i + 1]
    BY HeadTailProperties
  <1>2. /\ Len(q) \in Nat \ {0} /\ DOMAIN q = 1 .. Len(q) /\ DOMAIN p = 1 .. Len(q) - 1
    BY <1>1, LenProperties, EmptySeq
  <1>3. Head(q) = q[1] /\ 1 \in DOMAIN q
    BY <1>2, HeadTailProperties
  <1> HIDE DEF p
  <1>4. Head(q) \in Range(q)
    BY <1>3 DEF Range
  <1>5. ASSUME IsInjective(q)
        PROVE  Range(p) = Range(q) \ {Head(q)}
    <2>1. \A i \in DOMAIN p : p[i] = q[i + 1] /\ i + 1 \in DOMAIN q /\ i + 1 # 1
      BY <1>1, <1>2
    <2>2. Range(p) \subseteq Range(q) \ {Head(q)}
      BY <1>3, <1>5, <2>1 DEF Range, IsInjective
    <2>3. ASSUME NEW j \in DOMAIN q, q[j] # Head(q)
          PROVE  q[j] \in Range(p)
      <3>1. j - 1 \in DOMAIN p /\ p[j - 1] = q[j]
        BY <1>1, <1>2, <1>3, <2>3
      <3> QED  BY <3>1 DEF Range
    <2> QED  BY <2>2, <2>3 DEF Range
  <1>6. ASSUME IsInjective(q)
        PROVE  IsInjective(p)
    <2> SUFFICES ASSUME NEW i \in DOMAIN p, NEW j \in DOMAIN p, p[i] = p[j]
                 PROVE  i = j
      BY DEF IsInjective
    <2>1. i + 1 \in DOMAIN q /\ j + 1 \in DOMAIN q /\ q[i + 1] = q[j + 1]
      BY <1>1, <1>2
    <2>2. i + 1 = j + 1
      BY <1>6, <2>1 DEF IsInjective
    <2> QED  BY <1>2, <2>2
  <1> QED  BY <1>4, <1>5, <1>6 DEF p

LEMMA FrontQueue ==
  ASSUME NEW q \in Seq(SeqId), q # <<>>
  PROVE  /\ q[Len(q)] \in Range(q)
         /\ IsInjective(q) => Range(Front(q)) = Range(q) \ {q[Len(q)]} /\ IsInjective(Front(q))
  <1> DEFINE p == Front(q)
  <1>1. Len(q) \in Nat \ {0} /\ DOMAIN q = 1 .. Len(q)
    BY LenProperties, EmptySeq
  <1>2. \A i \in 1 .. Len(q) : q[i] \in SeqId
    BY ElementOfSeq
  <1>3. /\ p \in Seq(SeqId) /\ Len(p) = Len(q) - 1
        /\ \A i \in 1 .. Len(q) - 1 : p[i] = q[i]
    BY <1>1, <1>2, SubSeqProperties DEF Front
  <1>4. DOMAIN p = 1 .. Len(q) - 1
    BY <1>3, LenProperties
  <1> HIDE DEF p
  <1>5. DOMAIN q = DOMAIN p \cup {Len(q)} /\ Len(q) \notin DOMAIN p
    BY <1>1, <1>4
  <1>6. q[Len(q)] \in Range(q)
    BY <1>5 DEF Range
  <1>7. ASSUME IsInjective(q)
        PROVE  Range(p) = Range(q) \ {q[Len(q)]} /\ IsInjective(p)
    BY <1>3, <1>4, <1>5, <1>7 DEF Range, IsInjective
  <1> QED  BY <1>6, <1>7 DEF p

LEMMA ConcatQueue ==
  ASSUME NEW p \in Seq(SeqId), NEW q \in Seq(SeqId)
  PROVE  /\ p \o q \in Seq(SeqId)
         /\ Range(p \o q) = Range(p) \cup Range(q)
         /\ IsInjective(p) /\ IsInjective(q) /\ Range(p) \cap Range(q) = {}
              => IsInjective(p \o q)
  <1> DEFINE u == p \o q
  <1>1. /\ u \in Seq(SeqId) /\ Len(u) = Len(p) + Len(q)
        /\ \A i \in 1 .. Len(u) : u[i] = IF i <= Len(p) THEN p[i] ELSE q[i - Len(p)]
    BY ConcatProperties
  <1>2. /\ Len(p) \in Nat /\ Len(q) \in Nat /\ DOMAIN p = 1 .. Len(p)
        /\ DOMAIN q = 1 .. Len(q) /\ DOMAIN u = 1 .. Len(p) + Len(q)
    BY <1>1, LenProperties
  <1> HIDE DEF u
  <1>3. \A i \in DOMAIN p : i \in DOMAIN u /\ u[i] = p[i]
    BY <1>1, <1>2
  <1>4. \A i \in DOMAIN q : i + Len(p) \in DOMAIN u /\ u[i + Len(p)] = q[i]
    BY <1>1, <1>2
  <1>5. \A i \in DOMAIN u : \/ i \in DOMAIN p /\ u[i] = p[i]
                            \/ i - Len(p) \in DOMAIN q /\ u[i] = q[i - Len(p)]
    BY <1>1, <1>2
  <1>6. Range(u) = Range(p) \cup Range(q)
    BY <1>3, <1>4, <1>5 DEF Range
  <1>7. ASSUME IsInjective(p), IsInjective(q), Range(p) \cap Range(q) = {}
        PROVE  IsInjective(u)
    <2> SUFFICES ASSUME NEW i \in DOMAIN u, NEW j \in DOMAIN u, u[i] = u[j]
                 PROVE  i = j
      BY DEF IsInjective
    <2>1. CASE i \in DOMAIN p /\ u[i] = p[i] /\ j \in DOMAIN p /\ u[j] = p[j]
      BY <1>7, <2>1 DEF IsInjective
    <2>2. CASE /\ i - Len(p) \in DOMAIN q /\ u[i] = q[i - Len(p)]
               /\ j - Len(p) \in DOMAIN q /\ u[j] = q[j - Len(p)]
      <3>1. i - Len(p) = j - Len(p)
        BY <1>7, <2>2 DEF IsInjective
      <3> QED  BY <1>2, <3>1
    <2>3. CASE \/ /\ i \in DOMAIN p /\ u[i] = p[i]
                  /\ j - Len(p) \in DOMAIN q /\ u[j] = q[j - Len(p)]
               \/ /\ j \in DOMAIN p /\ u[j] = p[j]
                  /\ i - Len(p) \in DOMAIN q /\ u[i] = q[i - Len(p)]
      <3>1. u[i] \in Range(p) \cap Range(q)
        BY <2>3 DEF Range
      <3> QED  BY <1>7, <3>1
    <2> QED  BY <1>5, <2>1, <2>2, <2>3
  <1> QED  BY <1>1, <1>6, <1>7 DEF u

LEMMA EmptyQueue ==
  <<>> \in Seq(SeqId) /\ Range(<<>>) = {} /\ IsInjective(<<>>)
  <1>1. DOMAIN <<>> = {}
    OBVIOUS
  <1> QED  BY <1>1, EmptySeq DEF Range, IsInjective

-----------------------------------------------------------------------------
LEMMA QueueInit == Init => QueueInv
  BY EmptyQueue DEF Init, SchedulerInit, QueueInv, ErrorPhase, Queues, NoOutputs

(* What Apply says of the error and the phase.                             *)
LEMMA ApplyErrorPhase ==
  ASSUME NEW c, NEW next, next # "raised", Apply(c, next)
  PROVE  ErrorPhase' /\ (Alive' => phase' = next)
  BY DEF Apply, ErrorPhase, Alive

(* Every step keeps QueueInv.                                              *)
LEMMA QueueStep ==
  ASSUME TypeOK, QueueInv, [Next]_vars
  PROVE  QueueInv'
  <1> USE DEF seqVars, queueVars, loopVars
  <1>0. phase # "raised" => Alive /\ Queues
    BY DEF QueueInv, ErrorPhase, Alive
  <1>q. /\ waiting \in Seq(SeqId) /\ running \in Seq(SeqId) /\ swapped \in Seq(SeqId)
        /\ reserved \in Seq(SeqId) /\ outputs.scheduled \in Seq(SeqId)
        /\ status \in [SeqId -> Statuses]
    BY DEF TypeOK
  <1>1. ASSUME NEW r \in SeqId, NEW n \in PromptLens, AddRequest(r, n)
        PROVE  QueueInv'
    <2>1. Queues /\ Alive
      BY <1>0, <1>1 DEF AddRequest
    <2>2. r \notin Range(waiting)
      BY <1>1, <2>1 DEF AddRequest, Queues
    <2>3. CASE n < MaxModelLen
      <3>1. Range(waiting') = Range(waiting) \cup {r} /\ IsInjective(waiting')
        <4>1. waiting' = Append(waiting, r)
          BY <1>1, <2>3 DEF AddRequest
        <4>2. IsInjective(waiting)
          BY <2>1 DEF Queues
        <4> QED  BY <1>q, <2>2, <4>1, <4>2, AppendQueue
      <3> QED
        BY <1>q, <1>1, <2>1, <2>3, <3>1 DEF AddRequest, Queues, QueueInv, ErrorPhase, Alive
    <2>4. CASE ~(n < MaxModelLen)
      BY <1>q, <1>1, <2>1, <2>4 DEF AddRequest, Queues, QueueInv, ErrorPhase, Alive
    <2> QED  BY <2>3, <2>4
  <1>2. ASSUME NEW r \in SeqId, Abort(r)
        PROVE  QueueInv'
    <2>1. Queues /\ Alive
      BY <1>0, <1>2 DEF Abort
    <2>2. /\ Range(waiting') = Range(waiting) \ {r} /\ IsInjective(waiting')
          /\ Range(running') = Range(running) \ {r} /\ IsInjective(running')
          /\ Range(swapped') = Range(swapped) \ {r} /\ IsInjective(swapped')
      BY <1>q, <1>2, WithoutProperties DEF Abort
    <2>3. reserved = <<>> /\ reserved' = <<>> /\ Range(reserved) = {}
      BY <1>2, <2>1, EmptyQueue DEF Abort, Queues
    <2> QED
      BY <1>q, <1>2, <2>1, <2>2, <2>3 DEF Abort, Queues, QueueInv, ErrorPhase, Alive
  <1>3. CASE StartStep /\ UNCHANGED kv
    <2>1. Queues /\ Alive
      BY <1>0, <1>3 DEF StartStep
    <2>2. reserved = <<>> /\ reserved' = <<>> /\ Range(<<>>) = {} /\ IsInjective(<<>>)
      BY <1>3, <2>1, EmptyQueue DEF StartStep, Queues
    <2>3. Range(running') = Range(running) /\ IsInjective(running')
      BY <1>q, <1>3, <2>1, SortProperties DEF StartStep, BeginReserve, Queues
    <2>4. Range(outputs'.scheduled) = {}
      BY <1>3, <2>2 DEF StartStep, NoOutputs
    <2> QED
      BY <1>3, <2>1, <2>2, <2>3, <2>4
         DEF StartStep, BeginReserve, Queues, QueueInv, ErrorPhase, Alive
  <1>4. CASE Admit /\ UNCHANGED kv
    <2> DEFINE r == Head(waiting)
    <2>1. Queues /\ Alive /\ waiting # <<>> /\ phase = "admit"
      BY <1>0, <1>4 DEF Admit
    <2>2. r \in SeqId /\ status[r] = "WAITING" /\ r \notin Range(running)
      BY <1>q, <2>1, TailQueue, HeadType DEF Queues
    <2>3. Range(waiting') = Range(waiting) \ {r} /\ IsInjective(waiting')
      BY <1>q, <1>4, <2>1, TailQueue DEF Admit, Queues
    <2> HIDE DEF r
    <2>4. Range(running') = Range(running) \cup {r} /\ IsInjective(running')
      BY <1>q, <1>4, <2>1, <2>2, AppendQueue DEF Admit, Queues, r
    <2>5. Range(outputs'.scheduled) = Range(outputs.scheduled) \cup {r}
      <3>1. outputs'.scheduled = Append(outputs.scheduled, r)
        BY <1>4 DEF Admit, r, TypeOK
      <3> QED  BY <1>q, <2>2, <3>1, AppendQueue
    <2>6. ErrorPhase' /\ (Alive' => phase' = "admit")
      BY <1>4, ApplyErrorPhase DEF Admit
    <2>7. status' = [status EXCEPT ![r] = "RUNNING"] /\ UNCHANGED <<swapped, reserved>>
      BY <1>4 DEF Admit, r
    <2>8. reserved = <<>> /\ Range(reserved) = {}
      BY <2>1, EmptyQueue DEF Queues
    <2> QED
      BY <1>q, <2>1, <2>2, <2>3, <2>4, <2>5, <2>6, <2>7, <2>8 DEF Queues, QueueInv
  <1>5. CASE Ignore /\ UNCHANGED kv
    <2> DEFINE r == Head(waiting)
    <2>1. Queues /\ Alive /\ waiting # <<>> /\ phase = "admit"
      BY <1>0, <1>5 DEF Ignore
    <2>2. r \in SeqId /\ status[r] = "WAITING"
      BY <1>q, <2>1, TailQueue, HeadType DEF Queues
    <2>3. Range(waiting') = Range(waiting) \ {r} /\ IsInjective(waiting')
      BY <1>q, <1>5, <2>1, TailQueue DEF Ignore, Queues
    <2> HIDE DEF r
    <2>4. /\ status' = [status EXCEPT ![r] = "FINISHED_IGNORED"]
          /\ UNCHANGED <<running, swapped, reserved, phase, error>>
          /\ outputs'.scheduled = outputs.scheduled
      BY <1>5 DEF Ignore, r, TypeOK
    <2> QED
      BY <1>q, <2>1, <2>2, <2>3, <2>4 DEF Queues, QueueInv, ErrorPhase, Alive
  <1>6. CASE EndAdmit /\ UNCHANGED kv
    <2>1. Queues /\ Alive /\ phase = "admit"
      BY <1>0, <1>6 DEF EndAdmit
    <2>2. CASE outputs.scheduled # <<>> \/ outputs.ignored # <<>>
      <3>1. outputs'.scheduled = outputs.scheduled
        BY <1>6, <2>2 DEF EndAdmit, TypeOK
      <3> QED
        BY <1>6, <2>1, <2>2, <3>1 DEF EndAdmit, Queues, QueueInv, ErrorPhase, Alive
    <2>3. CASE ~(outputs.scheduled # <<>> \/ outputs.ignored # <<>>)
      <3>1. Range(running') = Range(running) /\ IsInjective(running')
        BY <1>q, <1>6, <2>3, SortProperties DEF EndAdmit, BeginReserve
      <3> QED
        BY <1>6, <2>1, <2>3, <3>1
           DEF EndAdmit, BeginReserve, Queues, QueueInv, ErrorPhase, Alive
    <2> QED  BY <2>2, <2>3
  <1>7. CASE ReserveSlot /\ UNCHANGED kv
    <2> DEFINE r == Head(running)
    <2>1. Queues /\ Alive /\ running # <<>>
      BY <1>0, <1>7 DEF ReserveSlot
    <2>2. r \in SeqId /\ r \in Range(running) /\ r \notin Range(reserved)
      BY <1>q, <2>1, TailQueue, HeadType DEF Queues
    <2>3. Range(running') = Range(running) \ {r} /\ IsInjective(running')
      BY <1>q, <1>7, <2>1, TailQueue DEF ReserveSlot, Queues
    <2> HIDE DEF r
    <2>4. Range(reserved') = Range(reserved) \cup {r} /\ IsInjective(reserved')
      BY <1>q, <1>7, <2>1, <2>2, AppendQueue DEF ReserveSlot, Queues, r
    <2>5. ErrorPhase' /\ (Alive' => phase' = "reserve")
      BY <1>7, ApplyErrorPhase DEF ReserveSlot
    <2>6. UNCHANGED <<waiting, swapped, status>>
      BY <1>7 DEF ReserveSlot
    <2> QED
      BY <2>1, <2>2, <2>3, <2>4, <2>5, <2>6 DEF Queues, QueueInv
<1>8. CASE Preempt /\ UNCHANGED kv
    <2> DEFINE r == running[Len(running)]
    <2>1. Queues /\ Alive /\ running # <<>>
      BY <1>0, <1>8 DEF Preempt
    <2>2. r \in SeqId /\ r \in Range(running) /\ r \notin Range(reserved)
          /\ status[r] = "RUNNING"
      BY <1>q, <2>1, FrontQueue, FrontType DEF Queues
    <2>3. Range(running') = Range(running) \ {r} /\ IsInjective(running')
      BY <1>q, <1>8, <2>1, FrontQueue DEF Preempt, Queues
    <2> HIDE DEF r
    <2>4. UNCHANGED reserved
      BY <1>8 DEF Preempt
    <2>5. CASE PreemptByRecompute(r)
      <3>1. ErrorPhase' /\ (Alive' => phase' = "reserve")
        BY <2>5, ApplyErrorPhase DEF PreemptByRecompute
      <3>2. /\ status' = [status EXCEPT ![r] = "WAITING"] /\ UNCHANGED swapped
            /\ waiting' = <<r>> \o waiting
        BY <2>5 DEF PreemptByRecompute
      <3>3. <<r>> \in Seq(SeqId) /\ Range(<<r>>) = {r} /\ IsInjective(<<r>>)
        BY <2>2 DEF Range, IsInjective
      <3>4. r \notin Range(waiting)
        BY <2>1, <2>2 DEF Queues
      <3>5. Range(waiting') = Range(waiting) \cup {r} /\ IsInjective(waiting')
        <4>1. IsInjective(waiting) /\ Range(<<r>>) \cap Range(waiting) = {}
          BY <2>1, <3>3, <3>4 DEF Queues
        <4>2. /\ Range(<<r>> \o waiting) = Range(<<r>>) \cup Range(waiting)
              /\ IsInjective(<<r>> \o waiting)
          BY <1>q, <3>3, <4>1, ConcatQueue
        <4> QED  BY <3>2, <3>3, <4>2
      <3> QED
        BY <1>q, <2>1, <2>2, <2>3, <2>4, <3>1, <3>2, <3>5 DEF Queues, QueueInv
    <2>6. CASE PreemptBySwap(r)
      <3>1. CASE CanSwapOut(bm, {r})
        <4>1. ErrorPhase' /\ (Alive' => phase' = "reserve")
          BY <2>6, <3>1, ApplyErrorPhase DEF PreemptBySwap
        <4>2. /\ status' = [status EXCEPT ![r] = "SWAPPED"] /\ UNCHANGED waiting
              /\ swapped' = Append(swapped, r)
          BY <2>6, <3>1 DEF PreemptBySwap
        <4>3. r \notin Range(swapped)
          BY <2>1, <2>2 DEF Queues
        <4>4. Range(swapped') = Range(swapped) \cup {r} /\ IsInjective(swapped')
          BY <1>q, <2>1, <2>2, <4>2, <4>3, AppendQueue DEF Queues
        <4> QED
          BY <1>q, <2>1, <2>2, <2>3, <2>4, <4>1, <4>2, <4>4 DEF Queues, QueueInv
      <3>2. CASE ~CanSwapOut(bm, {r})
        BY <2>6, <3>2 DEF PreemptBySwap, Raised, QueueInv, ErrorPhase, Alive
      <3> QED  BY <3>1, <3>2
    <2> QED  BY <1>8, <2>5, <2>6 DEF Preempt, r
  <1>9. CASE EndReserve /\ UNCHANGED kv
    <2>1. Queues /\ Alive /\ running = <<>> /\ Range(running) = {}
      BY <1>0, <1>9, EmptyQueue DEF EndReserve
    <2>2. Range(swapped') = Range(swapped) /\ IsInjective(swapped')
      BY <1>q, <1>9, SortProperties DEF EndReserve
    <2>3. /\ running' = reserved /\ reserved' = <<>> /\ phase' = "swap"
          /\ UNCHANGED <<waiting, status, error>>
      BY <1>9 DEF EndReserve
    <2> QED
      BY <2>1, <2>2, <2>3, EmptyQueue DEF Queues, QueueInv, ErrorPhase, Alive
  <1>10. CASE Resume /\ UNCHANGED kv
    <2> DEFINE r == Head(swapped)
    <2>1. Queues /\ Alive /\ swapped # <<>> /\ phase = "swap"
      BY <1>0, <1>10 DEF Resume
    <2>2. r \in SeqId /\ status[r] = "SWAPPED" /\ r \notin Range(running)
      BY <1>q, <2>1, TailQueue, HeadType DEF Queues
    <2>3. Range(swapped') = Range(swapped) \ {r} /\ IsInjective(swapped')
      BY <1>q, <1>10, <2>1, TailQueue DEF Resume, Queues
    <2> HIDE DEF r
    <2>4. Range(running') = Range(running) \cup {r} /\ IsInjective(running')
      BY <1>q, <1>10, <2>1, <2>2, AppendQueue DEF Resume, Queues, r
    <2>5. \E d : Apply(d, "swap")
      BY <1>10 DEF Resume
    <2>6. ErrorPhase' /\ (Alive' => phase' = "swap")
      BY <2>5, ApplyErrorPhase
    <2>7. status' = [status EXCEPT ![r] = "RUNNING"] /\ UNCHANGED <<waiting, reserved>>
      BY <1>10 DEF Resume, r
    <2>8. reserved = <<>> /\ Range(reserved) = {}
      BY <2>1, EmptyQueue DEF Queues
    <2> QED
      BY <1>q, <2>1, <2>2, <2>3, <2>4, <2>6, <2>7, <2>8 DEF Queues, QueueInv
  <1>11. CASE EndSchedule /\ UNCHANGED kv
    <2>1. Queues /\ Alive /\ phase = "swap"
      BY <1>0, <1>11 DEF EndSchedule
    <2>2. CASE outputs.swapIn /\ outputs.swapOut
      BY <1>11, <2>2 DEF EndSchedule, Raised, QueueInv, ErrorPhase, Alive
    <2>3. CASE ~(outputs.swapIn /\ outputs.swapOut)
      <3>1. outputs'.scheduled = running /\ phase' = "execute"
        BY <1>11, <2>3 DEF EndSchedule, TypeOK
      <3> QED
        BY <1>11, <2>1, <2>3, <3>1 DEF EndSchedule, Queues, QueueInv, ErrorPhase, Alive
    <2> QED  BY <2>2, <2>3
  <1>12. CASE ExecuteModel
    <2> DEFINE after(token, r) == IF r \in Scheduled THEN CheckStop(r, token[r]) ELSE status[r]
               done(token) == {r \in Scheduled : after(token, r) \in FinishedStatus}
    <2>1. Queues /\ Alive /\ phase = "execute" /\ Scheduled \subseteq Range(running)
      BY <1>0, <1>12 DEF ExecuteModel, Scheduled, Queues
    <2>2. PICK token \in [Scheduled -> Tokens] :
            /\ status' = [r \in SeqId |-> after(token, r)]
            /\ \E c \in Free(bm, done(token)) : Apply(c, "idle")
            /\ running' \in Without(running, done(token))
      BY <1>12 DEF ExecuteModel
    <2>3. ErrorPhase' /\ (Alive' => phase' = "idle")
      BY <2>2, ApplyErrorPhase
    <2>4. Range(running') = Range(running) \ done(token) /\ IsInjective(running')
      BY <1>q, <2>2, WithoutProperties
    <2>5. \A r \in Scheduled : after(token, r) \in FinishedStatus \cup {"RUNNING"}
      BY DEF CheckStop, FinishedStatus
    <2>6. \A r \in SeqId \ Scheduled : after(token, r) = status[r]
      OBVIOUS
    <2>7. \A r \in Scheduled : status[r] = "RUNNING" /\ r \in SeqId
      BY <2>1 DEF Queues
    <2>8. \A r \in Scheduled : after(token, r) = "RUNNING" <=> r \notin done(token)
      BY <2>5 DEF FinishedStatus
    <2>9. done(token) \subseteq Scheduled
      OBVIOUS
    <2>10. UNCHANGED <<waiting, swapped, reserved>>
      BY <1>12 DEF ExecuteModel
    <2>11. reserved = <<>> /\ Range(reserved) = {}
      BY <2>1, EmptyQueue DEF Queues
    <2>12. \A r \in SeqId : status'[r] = after(token, r)
      BY <2>2
    <2> HIDE DEF done, after
    <2>13. \A r \in SeqId : /\ status'[r] = "WAITING" <=> status[r] = "WAITING"
                            /\ status'[r] = "SWAPPED" <=> status[r] = "SWAPPED"
      BY <2>5, <2>6, <2>7, <2>12 DEF FinishedStatus
    <2>14. Range(running') = {r \in SeqId : status'[r] = "RUNNING"}
      <3>1. \A r \in SeqId : status'[r] = "RUNNING"
                               <=> status[r] = "RUNNING" /\ r \notin done(token)
        BY <2>6, <2>7, <2>8, <2>9, <2>12
      <3>2. Range(running) = {r \in SeqId : status[r] = "RUNNING"}
        BY <2>1, <2>11 DEF Queues
      <3> QED  BY <2>4, <3>1, <3>2
    <2> QED
      BY <2>1, <2>3, <2>4, <2>10, <2>11, <2>13, <2>14 DEF Queues, QueueInv
  <1>13. CASE ExecuteNothing
    <2>1. Queues /\ Alive
      BY <1>0, <1>13 DEF ExecuteNothing
    <2>2. Range(outputs'.scheduled) = {}
      BY <1>13, EmptyQueue DEF ExecuteNothing, NoOutputs
    <2> QED
      BY <1>13, <2>1, <2>2 DEF ExecuteNothing, Raised, Queues, QueueInv, ErrorPhase, Alive
  <1>14. CASE UNCHANGED vars
    BY <1>14 DEF vars, QueueInv, ErrorPhase, Alive, Queues
  <1> QED
    BY <1>1, <1>2, <1>3, <1>4, <1>5, <1>6, <1>7, <1>8, <1>9, <1>10, <1>11, <1>12, <1>13,
       <1>14 DEF Next, Step, Schedule

(* A group is in the queue its status names, once, and in no other,        *)
(* whatever mix of arrivals, aborts, preemptions, swaps, ignored prompts   *)
(* and finishes the engine goes through.                                   *)
THEOREM QueuesCorrect ==
  ASSUME PrefixFree
  PROVE  Spec => []QueuesMatchStatus
  <1>1. Init => QueueInv
    BY QueueInit
  <1>2. TypeOK /\ QueueInv /\ [Next]_vars => QueueInv'
    BY QueueStep
  <1>3. TypeOK /\ QueueInv => QueuesMatchStatus
    BY ConcatQueue DEF TypeOK, QueueInv, Queues, QueuesMatchStatus
  <1> QED  BY <1>1, <1>2, <1>3, TypeCorrect, PTL DEF Spec

-----------------------------------------------------------------------------
(* What the tests on lines 218-228 and 300-303 keep true between them: the *)
(* groups that run fit the limit at the width they may reach, and the      *)
(* prompt batch under construction fits the token budget.                  *)
Runs    == {r \in SeqId : status[r] = "RUNNING"}
Lengths == [r \in SeqId |-> SeqLen(r)]

BatchInv ==
  Alive =>
    /\ Cardinality(Copies(Runs, BestOf)) <= MaxNumSeqs
    /\ phase # "execute" => ~outputs.promptRun
    /\ phase = "admit" \/ (phase = "execute" /\ outputs.promptRun)
         => Total(outputs.scheduled, Lengths) <= MaxNumBatchedTokens
    /\ phase \in {"admit", "execute"} => IsInjective(outputs.scheduled)

-----------------------------------------------------------------------------
(* Sums over sets of requests.                                             *)

LEMMA CopiesFinite ==
  ASSUME NEW S \in SUBSET SeqId, NEW w \in [SeqId -> Nat]
  PROVE  IsFiniteSet(Copies(S, w)) /\ Cardinality(Copies(S, w)) \in Nat
  <1> DEFINE of(r) == {r} \X (1 .. w[r])
             f     == [r \in S |-> of(r)]
             T     == {of(r) : r \in S}
  <1>1. IsFiniteSet(S)
    BY BlocksAreFinite, FS_Subset
  <1>2. f \in Surjection(S, T)
    BY DEF Surjection
  <1>3. IsFiniteSet(T)
    BY <1>1, <1>2, FS_Surjection
  <1>4. ASSUME NEW r \in S
        PROVE  IsFiniteSet(of(r))
    <2>1. w[r] \in Nat /\ w[r] \in Int /\ 1 \in Int
      OBVIOUS
    <2>2. IsFiniteSet(1 .. w[r]) /\ IsFiniteSet({r})
      BY <2>1, FS_Interval, FS_Singleton
    <2> QED  BY <2>2, FS_Product
  <1>5. IsFiniteSet(UNION T)
    BY <1>3, <1>4, FS_UNION
  <1>6. Copies(S, w) = UNION T
    BY DEF Copies
  <1> QED  BY <1>5, <1>6, FS_CardinalityType

LEMMA CopiesAdd ==
  ASSUME NEW S \in SUBSET SeqId, NEW w \in [SeqId -> Nat], NEW r \in SeqId \ S
  PROVE  Cardinality(Copies(S \cup {r}, w)) = Cardinality(Copies(S, w)) + w[r]
  <1> DEFINE one == {r} \X (1 .. w[r])
  <1>1. Copies(S \cup {r}, w) = Copies(S, w) \cup one
    BY DEF Copies
  <1>2. Copies(S, w) \cap one = {}
    BY DEF Copies
  <1>3. IsFiniteSet(one) /\ Cardinality(one) = w[r]
    <2>1. w[r] \in Nat /\ 1 \in Int /\ w[r] \in Int
      OBVIOUS
    <2>2. IsFiniteSet(1 .. w[r]) /\ Cardinality(1 .. w[r]) = w[r]
      BY <2>1, FS_Interval
    <2>3. IsFiniteSet({r}) /\ Cardinality({r}) = 1
      BY FS_Singleton
    <2>4. /\ IsFiniteSet(one)
          /\ Cardinality(one) = Cardinality({r}) * Cardinality(1 .. w[r])
      BY <2>2, <2>3, FS_Product
    <2> QED  BY <2>1, <2>2, <2>3, <2>4
  <1>4. IsFiniteSet(Copies(S, w)) /\ Cardinality(Copies(S, w)) \in Nat
    BY CopiesFinite
  <1> HIDE DEF one
  <1>5. Cardinality(Copies(S, w) \cup one)
          = Cardinality(Copies(S, w)) + Cardinality(one) - Cardinality(Copies(S, w) \cap one)
    BY <1>3, <1>4, FS_Union
  <1>6. Cardinality(Copies(S, w) \cap one) = 0
    BY <1>2, FS_EmptySet
  <1>7. Cardinality(Copies(S \cup {r}, w)) = Cardinality(Copies(S, w) \cup one)
    BY <1>1
  <1>8. w[r] \in Nat
    OBVIOUS
  <1>9. ASSUME NEW a \in Nat, NEW b \in Nat, NEW c, NEW d, NEW n, c = a + b - d, d = 0, n = c
        PROVE  n = a + b
    BY <1>9
  <1> QED  BY <1>3, <1>4, <1>5, <1>6, <1>7, <1>8, <1>9

LEMMA CopiesMonotonic ==
  ASSUME NEW T \in SUBSET SeqId, NEW S \in SUBSET T, NEW w \in [SeqId -> Nat]
  PROVE  Cardinality(Copies(S, w)) <= Cardinality(Copies(T, w))
  <1>1. Copies(S, w) \in SUBSET Copies(T, w)
    BY DEF Copies
  <1> QED  BY <1>1, CopiesFinite, FS_Subset

LEMMA CopiesAgree ==
  ASSUME NEW S \in SUBSET SeqId, NEW w, NEW v, \A r \in S : w[r] = v[r]
  PROVE  Copies(S, w) = Copies(S, v)
  BY DEF Copies

(* As many as there are requests, if each counts at least once.            *)
LEMMA CopiesCount ==
  ASSUME NEW S \in SUBSET SeqId, NEW w \in [SeqId -> Nat \ {0}]
  PROVE  Cardinality(S) <= Cardinality(Copies(S, w))
  <1> DEFINE f == [r \in S |-> <<r, 1>>]
  <1>1. \A r \in S : <<r, 1>> \in Copies(S, w)
    BY DEF Copies
  <1>2. f \in Injection(S, Copies(S, w))
    BY <1>1 DEF Injection, IsInjective
  <1>3. w \in [SeqId -> Nat]
    OBVIOUS
  <1> QED  BY <1>2, <1>3, CopiesFinite, FS_Injection

LEMMA QueueLength ==
  ASSUME NEW q \in Seq(SeqId), IsInjective(q)
  PROVE  Len(q) = Cardinality(Range(q))
  <1>1. Len(q) \in Nat /\ DOMAIN q = 1 .. Len(q) /\ q \in [1 .. Len(q) -> Range(q)]
    BY LenProperties DEF Range
  <1>2. q \in Bijection(1 .. Len(q), Range(q))
    BY <1>1 DEF Bijection, Injection, Surjection, Range
  <1>3. ExistsBijection(1 .. Len(q), Range(q))
    BY <1>2 DEF ExistsBijection
  <1> QED  BY <1>1, <1>3, FS_CountingElements

(* The width of the groups that run is their best_of.                      *)
LEMMA WidthIsBestOf ==
  ASSUME NEW r \in SeqId, status[r] \in {"RUNNING", "WAITING", "SWAPPED"}
  PROVE  MaxNumRunningSeqs(r) = BestOf[r]
  BY SchedulerAssumption DEF MaxNumRunningSeqs, IsFinished, FinishedStatus

LEMMA WidthOfQueue ==
  ASSUME NEW q \in Seq(SeqId), Range(q) \subseteq Runs
  PROVE  NumCurrSeqs(q) = Cardinality(Copies(Range(q), BestOf))
  <1> DEFINE w == [r \in SeqId |-> MaxNumRunningSeqs(r)]
  <1>1. \A r \in Range(q) : w[r] = BestOf[r]
    BY WidthIsBestOf DEF Runs
  <1>2. Range(q) \in SUBSET SeqId
    BY DEF Runs
  <1> HIDE DEF w
  <1>3. Copies(Range(q), w) = Copies(Range(q), BestOf)
    BY <1>1, <1>2, CopiesAgree
  <1> QED  BY <1>3 DEF NumCurrSeqs, Total, w

-----------------------------------------------------------------------------
LEMMA LengthsType == TypeOK => Lengths \in [SeqId -> Nat]
  BY DEF TypeOK, SeqLen, Lengths

LEMMA BatchInit == Init => BatchInv
  <1> SUFFICES ASSUME Init PROVE BatchInv
    OBVIOUS
  <1>1. Runs = {}
    BY DEF Init, SchedulerInit, Runs
  <1>2. Copies({}, BestOf) = {}
    BY DEF Copies
  <1>3. Cardinality(Copies(Runs, BestOf)) = 0
    BY <1>1, <1>2, FS_EmptySet
  <1>4. 0 <= MaxNumSeqs
    BY SchedulerAssumption
  <1> QED
    BY <1>3, <1>4 DEF Init, SchedulerInit, NoOutputs, BatchInv

(* A step that starts nothing keeps the width.                             *)
LEMMA WidthShrinks ==
  ASSUME Runs' \subseteq Runs, Cardinality(Copies(Runs, BestOf)) <= MaxNumSeqs
  PROVE  Cardinality(Copies(Runs', BestOf)) <= MaxNumSeqs
  <1>1. Runs \in SUBSET SeqId /\ Runs' \in SUBSET Runs /\ Runs' \in SUBSET SeqId
    BY DEF Runs
  <1>2. BestOf \in [SeqId -> Nat] /\ MaxNumSeqs \in Nat
    BY SchedulerAssumption
  <1>3. Cardinality(Copies(Runs', BestOf)) <= Cardinality(Copies(Runs, BestOf))
    BY <1>1, <1>2, CopiesMonotonic
  <1>4. /\ Cardinality(Copies(Runs', BestOf)) \in Nat
        /\ Cardinality(Copies(Runs, BestOf)) \in Nat
    BY <1>1, <1>2, CopiesFinite
  <1> QED  BY <1>2, <1>3, <1>4

(* A group the tests on the queue let in keeps it within the limit.        *)
LEMMA WidthGrows ==
  ASSUME TypeOK, Queues, reserved = <<>>, NEW r \in SeqId, status[r] \in {"WAITING", "SWAPPED"},
         NumCurrSeqs(running) + MaxNumRunningSeqs(r) <= MaxNumSeqs,
         status' = [status EXCEPT ![r] = "RUNNING"]
  PROVE  Cardinality(Copies(Runs', BestOf)) <= MaxNumSeqs
  <1>1. Range(running) = Runs /\ running \in Seq(SeqId)
    BY EmptyQueue DEF Queues, Runs, TypeOK
  <1>2. NumCurrSeqs(running) = Cardinality(Copies(Runs, BestOf))
    BY <1>1, WidthOfQueue
  <1>3. MaxNumRunningSeqs(r) = BestOf[r]
    BY WidthIsBestOf
  <1>4. Runs' = Runs \cup {r} /\ r \in SeqId \ Runs /\ Runs \in SUBSET SeqId
    BY DEF Runs, TypeOK
  <1>5. BestOf \in [SeqId -> Nat]
    BY SchedulerAssumption
  <1>6. Cardinality(Copies(Runs \cup {r}, BestOf))
          = Cardinality(Copies(Runs, BestOf)) + BestOf[r]
    BY <1>4, <1>5, CopiesAdd
  <1> QED  BY <1>2, <1>3, <1>4, <1>6

(* Every step keeps BatchInv.                                              *)
LEMMA BatchStep ==
  ASSUME TypeOK, QueueInv, BatchInv, [Next]_vars
  PROVE  BatchInv'
  <1> USE DEF seqVars, queueVars, loopVars
  <1> DEFINE Width == Cardinality(Copies(Runs, BestOf)) <= MaxNumSeqs
  <1>0. phase # "raised" =>
          /\ Alive /\ Queues /\ Width
          /\ phase # "execute" => ~outputs.promptRun
          /\ phase = "admit" => /\ Total(outputs.scheduled, Lengths) <= MaxNumBatchedTokens
                                /\ IsInjective(outputs.scheduled)
    BY DEF QueueInv, ErrorPhase, Alive, BatchInv
  <1>q. /\ waiting \in Seq(SeqId) /\ running \in Seq(SeqId) /\ swapped \in Seq(SeqId)
        /\ reserved \in Seq(SeqId) /\ outputs.scheduled \in Seq(SeqId)
        /\ status \in [SeqId -> Statuses]
    BY DEF TypeOK
  (* What is left to show of a step into a phase without a batch.          *)
  <1>w. ASSUME Runs' \subseteq Runs, Width, phase' \notin {"admit", "execute"},
               Alive' => ~outputs'.promptRun
        PROVE  BatchInv'
    BY <1>w, WidthShrinks DEF BatchInv
  <1>1. ASSUME NEW r \in SeqId, NEW n \in PromptLens, AddRequest(r, n)
        PROVE  BatchInv'
    <2>1. Runs' \subseteq Runs
      BY <1>1, <1>q DEF AddRequest, Runs
    <2> QED  BY <1>0, <1>1, <1>w, <2>1 DEF AddRequest
  <1>2. ASSUME NEW r \in SeqId, Abort(r)
        PROVE  BatchInv'
    <2>1. Runs' \subseteq Runs
      BY <1>2, <1>q DEF Abort, Runs
    <2> QED  BY <1>0, <1>2, <1>w, <2>1 DEF Abort
  <1>3. CASE StartStep /\ UNCHANGED kv
    <2>1. Runs' \subseteq Runs /\ Width
      BY <1>0, <1>3 DEF StartStep, Runs
    <2>2. outputs'.scheduled = <<>> /\ ~outputs'.promptRun
      BY <1>3 DEF StartStep, NoOutputs
    <2>3. CASE swapped = <<>>
      <3>1. phase' = "admit"
        BY <1>3, <2>3 DEF StartStep
      <3>2. Total(<<>>, Lengths') = 0
        <4>1. Copies(Range(<<>>), Lengths') = {}
          BY EmptyQueue DEF Copies
        <4> QED  BY <4>1, FS_EmptySet DEF Total
      <3>3. 0 <= MaxNumBatchedTokens
        BY SchedulerAssumption
      <3> QED  BY <2>1, <2>2, <3>1, <3>2, <3>3, EmptyQueue, WidthShrinks DEF BatchInv
    <2>4. CASE swapped # <<>>
      BY <1>3, <1>w, <2>1, <2>2, <2>4 DEF StartStep, BeginReserve
    <2> QED  BY <2>3, <2>4
  <1>4. CASE Admit /\ UNCHANGED kv
    <2> DEFINE r == Head(waiting)
    <2>1. /\ Queues /\ Alive /\ waiting # <<>> /\ phase = "admit" /\ Verdict(r) = "admit"
          /\ ~outputs.promptRun
      BY <1>0, <1>4 DEF Admit
    <2>2. r \in SeqId /\ status[r] = "WAITING" /\ r \notin Range(running)
      BY <1>q, <2>1, TailQueue, HeadType DEF Queues
    <2>3. /\ NumTokens(outputs.scheduled) + SeqLen(r) <= MaxNumBatchedTokens
          /\ NumCurrSeqs(running) + MaxNumRunningSeqs(r) <= MaxNumSeqs
      <3>1. /\ ~(NumTokens(outputs.scheduled) + SeqLen(r) > MaxNumBatchedTokens)
            /\ ~(NumCurrSeqs(running) + MaxNumRunningSeqs(r) > MaxNumSeqs)
        BY <2>1 DEF Verdict
      <3>2. /\ NumTokens(outputs.scheduled) \in Nat /\ SeqLen(r) \in Nat
            /\ MaxNumBatchedTokens \in Nat /\ MaxNumSeqs \in Nat
        <4>1. Range(outputs.scheduled) \in SUBSET SeqId
          BY <1>q, RangeOfSeq
        <4>2. Lengths \in [SeqId -> Nat] /\ NumTokens(outputs.scheduled) = Total(outputs.scheduled, Lengths)
          BY LengthsType DEF Lengths, NumTokens
        <4> QED  BY <2>2, <4>1, <4>2, CopiesFinite, LengthTypes, SchedulerAssumption DEF Total
      <3>3. NumCurrSeqs(running) \in Nat /\ MaxNumRunningSeqs(r) \in Nat
        <4>1. Range(running) \subseteq Runs /\ Range(running) \in SUBSET SeqId
          BY <1>q, <2>1, RangeOfSeq DEF Queues, Runs
        <4>2. BestOf \in [SeqId -> Nat]
          BY SchedulerAssumption
        <4> QED  BY <1>q, <2>2, <4>1, <4>2, WidthOfQueue, WidthIsBestOf, CopiesFinite
      <3> QED  BY <3>1, <3>2, <3>3
    <2> HIDE DEF r
    <2>4. /\ status' = [status EXCEPT ![r] = "RUNNING"] /\ UNCHANGED <<promptLen, outLen>>
          /\ outputs' = [outputs EXCEPT !.scheduled = Append(outputs.scheduled, r)]
      BY <1>4 DEF Admit, r
    <2>5. Cardinality(Copies(Runs', BestOf)) <= MaxNumSeqs
      BY <2>1, <2>2, <2>3, <2>4, WidthGrows DEF Queues
    <2>6. outputs'.scheduled = Append(outputs.scheduled, r) /\ ~outputs'.promptRun
      BY <2>1, <2>4 DEF TypeOK
    <2>7. r \notin Range(outputs.scheduled) /\ IsInjective(outputs.scheduled)
      BY <1>0, <2>1, <2>2 DEF Queues
    <2>8. /\ Range(outputs'.scheduled) = Range(outputs.scheduled) \cup {r}
          /\ IsInjective(outputs'.scheduled)
      BY <1>q, <2>2, <2>6, <2>7, AppendQueue
    <2>9. Total(outputs'.scheduled, Lengths') <= MaxNumBatchedTokens
      <3>1. Lengths' = Lengths /\ Lengths \in [SeqId -> Nat] /\ Lengths[r] = SeqLen(r)
        BY <2>2, <2>4, LengthsType DEF Lengths, SeqLen
      <3>2. Range(outputs.scheduled) \in SUBSET SeqId
        BY <1>q, RangeOfSeq
      <3>3. Cardinality(Copies(Range(outputs.scheduled) \cup {r}, Lengths))
              = Cardinality(Copies(Range(outputs.scheduled), Lengths)) + Lengths[r]
        BY <2>2, <2>7, <3>1, <3>2, CopiesAdd
      <3>4. NumTokens(outputs.scheduled) = Cardinality(Copies(Range(outputs.scheduled), Lengths))
        BY DEF NumTokens, Total, Lengths
      <3> QED  BY <2>3, <2>8, <3>1, <3>3, <3>4 DEF Total
    <2>10. Alive' => phase' = "admit"
      BY <1>4, ApplyErrorPhase DEF Admit
    <2> QED  BY <2>5, <2>6, <2>8, <2>9, <2>10 DEF BatchInv
  <1>5. CASE Ignore /\ UNCHANGED kv
    <2>1. /\ Queues /\ Alive /\ phase = "admit" /\ Width /\ ~outputs.promptRun
          /\ Total(outputs.scheduled, Lengths) <= MaxNumBatchedTokens
          /\ IsInjective(outputs.scheduled)
      BY <1>0, <1>5 DEF Ignore
    <2>2. Runs' \subseteq Runs
      BY <1>5, <1>q DEF Ignore, Runs
    <2>3. /\ outputs'.scheduled = outputs.scheduled /\ ~outputs'.promptRun
          /\ phase' = "admit" /\ Lengths' = Lengths
      BY <1>5, <2>1 DEF Ignore, TypeOK, Lengths, SeqLen
    <2> QED  BY <2>1, <2>2, <2>3, WidthShrinks DEF BatchInv
  <1>6. CASE EndAdmit /\ UNCHANGED kv
    <2>1. /\ Queues /\ Alive /\ phase = "admit" /\ Width /\ ~outputs.promptRun
          /\ Total(outputs.scheduled, Lengths) <= MaxNumBatchedTokens
          /\ IsInjective(outputs.scheduled)
      BY <1>0, <1>6 DEF EndAdmit
    <2>2. Runs' \subseteq Runs /\ Lengths' = Lengths
      BY <1>6 DEF EndAdmit, Runs, Lengths, SeqLen
    <2>3. CASE outputs.scheduled # <<>> \/ outputs.ignored # <<>>
      <3>1. outputs'.scheduled = outputs.scheduled /\ phase' = "execute"
        BY <1>6, <2>3 DEF EndAdmit, TypeOK
      <3> QED  BY <2>1, <2>2, <3>1, WidthShrinks DEF BatchInv
    <2>4. CASE ~(outputs.scheduled # <<>> \/ outputs.ignored # <<>>)
      BY <1>6, <1>w, <2>1, <2>2, <2>4 DEF EndAdmit, BeginReserve
    <2> QED  BY <2>3, <2>4
  <1>7. CASE ReserveSlot /\ UNCHANGED kv
    <2>1. Width /\ ~outputs.promptRun /\ Runs' \subseteq Runs
      BY <1>0, <1>7 DEF ReserveSlot, Runs
    <2>2. phase' \notin {"admit", "execute"}
      BY <1>7 DEF ReserveSlot, Apply
    <2>3. ~outputs'.promptRun
      BY <1>7, <2>1 DEF ReserveSlot, TypeOK
    <2> QED  BY <1>w, <2>1, <2>2, <2>3
  <1>8. CASE Preempt /\ UNCHANGED kv
    <2> DEFINE r == running[Len(running)]
    <2>1. Width /\ ~outputs.promptRun /\ running # <<>>
      BY <1>0, <1>8 DEF Preempt
    <2>2. r \in SeqId
      BY <1>q, <2>1, FrontType
    <2> HIDE DEF r
    <2>3. PreemptByRecompute(r) \/ PreemptBySwap(r)
      BY <1>8 DEF Preempt, r
    <2>4. Runs' \subseteq Runs
      BY <1>q, <2>2, <2>3 DEF PreemptByRecompute, PreemptBySwap, Runs
    <2>5. phase' \notin {"admit", "execute"}
      BY <2>3 DEF PreemptByRecompute, PreemptBySwap, Apply, Raised
    <2>6. ~outputs'.promptRun
      BY <2>1, <2>3 DEF PreemptByRecompute, PreemptBySwap, TypeOK
    <2> QED  BY <1>w, <2>1, <2>4, <2>5, <2>6
  <1>9. CASE EndReserve /\ UNCHANGED kv
    <2>1. Width /\ ~outputs'.promptRun /\ Runs' \subseteq Runs
      BY <1>0, <1>9 DEF EndReserve, Runs
    <2> QED  BY <1>9, <1>w, <2>1 DEF EndReserve
  <1>10. CASE Resume /\ UNCHANGED kv
    <2> DEFINE r == Head(swapped)
    <2>1. /\ Queues /\ Alive /\ swapped # <<>> /\ phase = "swap" /\ ~outputs.promptRun
          /\ NumCurrSeqs(running) + MaxNumRunningSeqs(r) <= MaxNumSeqs
      BY <1>0, <1>10 DEF Resume, CanResume
    <2>2. r \in SeqId /\ status[r] = "SWAPPED"
      BY <1>q, <2>1, TailQueue, HeadType DEF Queues
    <2> HIDE DEF r
    <2>3. status' = [status EXCEPT ![r] = "RUNNING"]
      BY <1>10 DEF Resume, r
    <2>4. Cardinality(Copies(Runs', BestOf)) <= MaxNumSeqs
      BY <2>1, <2>2, <2>3, WidthGrows DEF Queues
    <2>5. phase' \notin {"admit", "execute"} /\ ~outputs'.promptRun
      BY <1>10, <2>1 DEF Resume, Apply, TypeOK
    <2> QED  BY <2>4, <2>5 DEF BatchInv
  <1>11. CASE EndSchedule /\ UNCHANGED kv
    <2>1. Queues /\ Width /\ ~outputs.promptRun /\ Runs' \subseteq Runs
      BY <1>0, <1>11 DEF EndSchedule, Runs
    <2>2. CASE outputs.swapIn /\ outputs.swapOut
      BY <1>11, <1>w, <2>1, <2>2 DEF EndSchedule, Raised
    <2>3. CASE ~(outputs.swapIn /\ outputs.swapOut)
      <3>1. outputs'.scheduled = running /\ phase' = "execute" /\ ~outputs'.promptRun
        BY <1>11, <2>1, <2>3 DEF EndSchedule, TypeOK
      <3>2. IsInjective(running)
        BY <2>1 DEF Queues
      <3> QED  BY <2>1, <3>1, <3>2, WidthShrinks DEF BatchInv
    <2> QED  BY <2>2, <2>3
  <1>12. CASE ExecuteModel
    <2>1. Queues /\ Width /\ Scheduled \subseteq Range(running)
      BY <1>0, <1>12 DEF ExecuteModel, Scheduled, Queues
    <2>2. Scheduled \subseteq Runs
      BY <2>1 DEF Queues, Runs
    <2>3. PICK token \in [Scheduled -> Tokens] :
            status' = [r \in SeqId |-> IF r \in Scheduled THEN CheckStop(r, token[r])
                                       ELSE status[r]]
      BY <1>12 DEF ExecuteModel
    <2>4. Runs' \subseteq Runs
      BY <2>2, <2>3 DEF Runs
    <2>5. ~outputs'.promptRun
      BY <1>12 DEF ExecuteModel, NoOutputs
    <2>6. phase' \notin {"admit", "execute"}
      BY <1>12 DEF ExecuteModel, Apply
    <2> QED  BY <1>w, <2>1, <2>4, <2>5, <2>6
  <1>13. CASE ExecuteNothing
    <2>1. Width /\ Runs' \subseteq Runs
      BY <1>0, <1>13 DEF ExecuteNothing, Runs
    <2> QED  BY <1>13, <1>w, <2>1 DEF ExecuteNothing, Raised, NoOutputs
  <1>14. CASE UNCHANGED vars
    <2>1. Runs' = Runs /\ Lengths' = Lengths
      BY <1>14 DEF vars, Runs, Lengths, SeqLen
    <2> QED  BY <1>14, <2>1 DEF vars, BatchInv, Alive
  <1> QED
    BY <1>1, <1>2, <1>3, <1>4, <1>5, <1>6, <1>7, <1>8, <1>9, <1>10, <1>11, <1>12, <1>13,
       <1>14 DEF Next, Step, Schedule

(* The running groups, at the width they may reach, fit max_num_seqs, and  *)
(* every batch the worker is handed fits the token budget: a prompt run    *)
(* with all its tokens, a decode run with one per group.                   *)
THEOREM BatchesFit ==
  ASSUME PrefixFree
  PROVE  Spec => []BatchLimits
  <1>1. Init => QueueInv /\ BatchInv
    BY QueueInit, BatchInit
  <1>2. TypeOK /\ QueueInv /\ BatchInv /\ [Next]_vars => QueueInv' /\ BatchInv'
    BY QueueStep, BatchStep
  <1>3. TypeOK /\ QueueInv /\ BatchInv => BatchLimits
    <2> SUFFICES ASSUME TypeOK, QueueInv, BatchInv, phase = "execute"
                 PROVE  /\ NumCurrSeqs(running) <= MaxNumSeqs
                        /\ (IF outputs.promptRun THEN Total(outputs.scheduled, Lengths)
                            ELSE Len(outputs.scheduled)) <= MaxNumBatchedTokens
      BY DEF BatchLimits, NumCurrSeqs, Lengths
    <2>1. Queues /\ Alive
      BY DEF QueueInv, ErrorPhase, Alive
    <2>2. Range(running) = Runs /\ running \in Seq(SeqId) /\ Runs \in SUBSET SeqId
      BY <2>1, EmptyQueue DEF Queues, Runs, TypeOK
    <2>3. NumCurrSeqs(running) = Cardinality(Copies(Runs, BestOf))
      BY <2>2, WidthOfQueue
    <2>4. Cardinality(Copies(Runs, BestOf)) <= MaxNumSeqs
      BY <2>1 DEF BatchInv
    <2>5. outputs.promptRun => Total(outputs.scheduled, Lengths) <= MaxNumBatchedTokens
      BY <2>1 DEF BatchInv
    <2>6. Len(outputs.scheduled) <= MaxNumBatchedTokens
      <3>1. outputs.scheduled \in Seq(SeqId) /\ IsInjective(outputs.scheduled)
        BY <2>1 DEF BatchInv, TypeOK
      <3>2. Len(outputs.scheduled) = Cardinality(Range(outputs.scheduled))
        BY <3>1, QueueLength
      <3>3. Range(outputs.scheduled) \in SUBSET Runs
        BY <2>1, <2>2 DEF Queues
      <3>4. /\ IsFiniteSet(Runs) /\ Cardinality(Runs) \in Nat
            /\ Cardinality(Range(outputs.scheduled)) <= Cardinality(Runs)
            /\ Cardinality(Range(outputs.scheduled)) \in Nat
        BY <2>2, <3>3, BlocksAreFinite, FS_Subset, FS_CardinalityType
      <3>5. BestOf \in [SeqId -> Nat \ {0}] /\ BestOf \in [SeqId -> Nat]
        BY SchedulerAssumption
      <3>6. Cardinality(Runs) <= Cardinality(Copies(Runs, BestOf))
        BY <2>2, <3>5, CopiesCount
      <3>7. Cardinality(Copies(Runs, BestOf)) \in Nat
        BY <2>2, <3>5, CopiesFinite
      <3>8. MaxNumSeqs \in Nat /\ MaxNumBatchedTokens \in Nat /\ MaxNumBatchedTokens >= MaxNumSeqs
        BY SchedulerAssumption
      <3> QED  BY <2>4, <3>2, <3>4, <3>6, <3>7, <3>8
    <2> QED  BY <2>3, <2>4, <2>5, <2>6
  <1> QED  BY <1>1, <1>2, <1>3, TypeCorrect, PTL DEF Spec

-----------------------------------------------------------------------------
(* Every block belongs to at most one sequence.                            *)

NoWindow == BlockSlidingWindow = 0

Held(c, b) == \E s \in SeqId : b \in Range(c.tables[s])

Owned(c) ==
  /\ c.err = "none"
  /\ \A s \in SeqId : IsInjective(c.tables[s])
  /\ \A s, q \in SeqId : s # q => Range(c.tables[s]) \cap Range(c.tables[q]) = {}
  /\ \A b \in Block : c.ref[b] = IF Held(c, b) THEN 1 ELSE 0
  /\ \A b \in Block : b \in c.gpu \cup c.cpu <=> ~Held(c, b)
  /\ \A p \in Prefix : c.prefix[p] = <<>>

(* What the tables have to do with the statuses: BlocksMatchStatus, and    *)
(* that a swapped group holds something and nobody has an empty prompt.    *)
TablesFollow ==
  \A r \in SeqId :
    LET t == bm.tables[r]
    IN  /\ status[r] = "RUNNING" => t # <<>> /\ Range(t) \subseteq GpuBlock
        /\ status[r] = "SWAPPED" => t # <<>> /\ Range(t) \subseteq CpuBlock
        /\ status[r] \notin {"RUNNING", "SWAPPED"} => t = <<>>
        /\ status[r] # "NEW" => promptLen[r] > 0

OwnInv ==
  /\ error \notin Errors
  /\ ~outputs.copy
  /\ Alive => Owned(bm) /\ TablesFollow

-----------------------------------------------------------------------------
(* The operations of the block manager on a manager whose blocks are owned.*)

LEMMA OwnedFree ==
  ASSUME NEW c \in BlockManagers, Owned(c), NEW ss \in SUBSET SeqId, NEW d \in Free(c, ss)
  PROVE  /\ Owned(d)
         /\ d.tables = [s \in SeqId |-> IF s \in ss THEN <<>> ELSE c.tables[s]]
  <1> DEFINE of(b)  == {s \in ss : b \in Range(c.tables[s])}
             held   == [b \in Block |-> Cardinality(of(b))]
             freed  == FreeBlocks(c, held)
             back   == {b \in Block : held[b] > 0 /\ held[b] = c.ref[b]}
             tables == [s \in SeqId |-> IF s \in ss THEN <<>> ELSE c.tables[s]]
  <1>1. \A b \in Block : held[b] = IF of(b) # {} THEN 1 ELSE 0
    <2> SUFFICES ASSUME NEW b \in Block
                 PROVE  Cardinality(of(b)) = IF of(b) # {} THEN 1 ELSE 0
      OBVIOUS
    <2>1. \A s, q \in of(b) : s = q
      BY DEF Owned
    <2>2. CASE of(b) = {}
      BY <2>2, FS_EmptySet
    <2>3. CASE of(b) # {}
      <3>1. PICK s \in of(b) : TRUE
        BY <2>3
      <3>2. of(b) = {s}
        BY <2>1, <3>1
      <3> QED  BY <2>3, <3>2, FS_Singleton
    <2> QED  BY <2>2, <2>3
  <1>2. \A b \in Block : of(b) # {} => Held(c, b)
    BY DEF Held
  <1>3. \A b \in Block : c.ref[b] = IF Held(c, b) THEN 1 ELSE 0
    BY DEF Owned
  <1> HIDE DEF held
  <1>4. ~ \E b \in Block : held[b] > c.ref[b]
    BY <1>1, <1>2, <1>3
  <1>5. freed = [c EXCEPT !.ref = [b \in Block |-> c.ref[b] - held[b]],
                          !.gpu = c.gpu \cup (back \cap GpuBlock),
                          !.cpu = c.cpu \cup (back \cap CpuBlock)]
    BY <1>4 DEF FreeBlocks
  <1>6. d = [freed EXCEPT !.tables = tables]
    BY DEF Free, freed, held
  <1>7. back = {b \in Block : of(b) # {}}
    BY <1>1, <1>2, <1>3
  <1> HIDE DEF back, tables, freed
  <1>8. /\ d.tables = tables /\ d.err = c.err /\ d.prefix = c.prefix
        /\ d.ref = [b \in Block |-> c.ref[b] - held[b]]
        /\ d.gpu = c.gpu \cup (back \cap GpuBlock)
        /\ d.cpu = c.cpu \cup (back \cap CpuBlock)
    BY <1>5, <1>6 DEF BlockManagers
  <1>9. \A s \in SeqId : Range(tables[s]) = IF s \in ss THEN {} ELSE Range(c.tables[s])
    BY EmptyQueue DEF tables
  <1>10. \A b \in Block : Held(d, b) <=> Held(c, b) /\ of(b) = {}
    BY <1>8, <1>9 DEF Held, Owned
  <1>11. \A b \in Block : d.ref[b] = IF Held(d, b) THEN 1 ELSE 0
    BY <1>1, <1>2, <1>3, <1>8, <1>10
  <1>12. \A b \in Block : b \in d.gpu \cup d.cpu <=> ~Held(d, b)
    <2>1. \A b \in Block : b \in d.gpu \cup d.cpu <=> b \in c.gpu \cup c.cpu \/ b \in back
      BY <1>8 DEF Block
    <2> QED  BY <1>7, <1>10, <2>1 DEF Owned
  <1>13. \A s \in SeqId : IsInjective(d.tables[s])
    BY <1>8, EmptyQueue DEF Owned, tables
  <1>14. \A s, q \in SeqId : s # q => Range(d.tables[s]) \cap Range(d.tables[q]) = {}
    BY <1>8, <1>9 DEF Owned
  <1>15. Owned(d)
    BY <1>8, <1>11, <1>12, <1>13, <1>14 DEF Owned
  <1> QED  BY <1>8, <1>15 DEF tables

(* d is c with a table of n GPU blocks for r.                              *)
Filled(c, d, r, n) ==
  /\ Owned(d) /\ \A s \in SeqId \ {r} : d.tables[s] = c.tables[s]
  /\ d.tables[r] # <<>> /\ Range(d.tables[r]) \subseteq GpuBlock /\ Len(d.tables[r]) = n

LEMMA OwnedAllocate ==
  ASSUME NoWindow, NEW c \in BlockManagers, Owned(c),
         NEW r \in SeqId, c.tables[r] = <<>>, NEW n \in Nat \ {0},
         CanAllocate(c, n, NoPrefix) = "OK", NEW d \in Allocate(c, {r}, 1, n, NoPrefix)
  PROVE  Filled(c, d, r, n)
  <1>1. NoPrefix \notin Prefix /\ ~PrefixAllocated(c, NoPrefix)
    BY BlockAssumption DEF PrefixAllocated
  <1>2. Cardinality(c.gpu) \in Nat
    BY BlocksAreFinite, FS_Subset, FS_CardinalityType DEF BlockManagers
  <1>3. n <= Cardinality(c.gpu)
    <2>1. Cardinality(c.gpu) - n >= WatermarkBlocks
      BY <1>1 DEF CanAllocate, NoWindow
    <2> QED  BY <1>2, <2>1, WatermarkNat
  <1>4. Len(<<>>) = 0
    BY EmptySeq
  <1> DEFINE p       == NoPrefix
             ss      == {r}
             ng      == 1
             shared  == IF PrefixAllocated(c, p) THEN c.prefix[p] ELSE <<>>
             own     == IF n > Len(shared) THEN n - Len(shared) ELSE 0
             fresh   == IF BlockSlidingWindow > 0 /\ own > BlockSlidingWindow
                        THEN BlockSlidingWindow ELSE own
             table(new)  == PromptTable(shared, new, Len(shared) + own)
             ownSet(new) == {table(new)[i] : i \in Len(shared) + 1 .. Len(table(new))}
             pinning     == p # NoPrefix /\ ~PrefixAllocated(c, p)
             pinned(new) == IF pinning /\ PrefixLen[p] < n
                            THEN SubSeq(table(new), 1, PrefixLen[p]) ELSE table(new)
             pins(new, b) ==
               IF pinning
               THEN Cardinality({i \in DOMAIN pinned(new) : pinned(new)[i] = b}) ELSE 0
             After(new) ==
               [c EXCEPT
                  !.gpu    = c.gpu \ Range(new),
                  !.ref    = [b \in Block |->
                                IF b \in ownSet(new) THEN ng + pins(new, b)
                                ELSE IF b \in Range(shared) THEN c.ref[b] + ng
                                ELSE c.ref[b]],
                  !.prefix = [q \in Prefix |-> IF pinning /\ q = p THEN pinned(new)
                                               ELSE c.prefix[q]],
                  !.tables = [s \in SeqId |-> IF s \in ss THEN table(new)
                                              ELSE c.tables[s]]]
  <1>5. shared = <<>> /\ own = n /\ fresh = n /\ ~pinning
    BY <1>1, <1>4 DEF NoWindow
  <1>6. PICK new \in Popped(c.gpu, n) : d = After(new)
    <2>1. ~(fresh > Cardinality(c.gpu))
      BY <1>2, <1>3, <1>5
    <2>2. Allocate(c, {r}, 1, n, NoPrefix) = {After(new) : new \in Popped(c.gpu, fresh)}
      BY <2>1 DEF Allocate
    <2> HIDE DEF After, fresh
    <2> QED  BY <1>5, <2>2
  <1>7. new \in [1 .. n -> c.gpu] /\ IsInjective(new)
    BY <1>6 DEF Popped, Injection
  <1>8. new \in [1 .. n -> Block] /\ new \in Seq(Block) /\ Len(new) = n /\ c.gpu \subseteq Block
    BY <1>7, FunctionIsSeq DEF BlockManagers, Block
  <1>9. table(new) = new
    <2>1. <<>> \o new = new
      BY <1>8, ConcatEmptySeq
    <2>2. PromptTable(<<>>, new, n) = [i \in 1 .. n |-> new[i]]
      BY <1>8, <2>1 DEF PromptTable
    <2>3. Len(shared) + own = n
      <3> HIDE DEF shared, own
      <3> QED  BY <1>4, <1>5
    <2> QED  BY <1>5, <1>8, <2>2, <2>3
  <1>10. ownSet(new) = Range(new)
    <2>1. Len(shared) + 1 = 1 /\ DOMAIN new = 1 .. n
      BY <1>4, <1>5, <1>8
    <2> QED  BY <1>8, <1>9, <2>1 DEF Range
  <1>11. Range(new) \subseteq c.gpu /\ new # <<>>
    BY <1>4, <1>7, <1>8 DEF Range
  <1> HIDE DEF shared, own, fresh, table, ownSet, pinning, pinned
  <1>12. /\ d.gpu = c.gpu \ Range(new) /\ d.cpu = c.cpu /\ d.err = c.err
         /\ d.prefix = [q \in Prefix |-> c.prefix[q]]
         /\ \A b \in Block : d.ref[b] = IF b \in Range(new) THEN 1 ELSE c.ref[b]
         /\ \A s \in SeqId : d.tables[s] = IF s = r THEN new ELSE c.tables[s]
    BY <1>5, <1>6, <1>9, <1>10, EmptyQueue DEF After, BlockManagers
  <1>13. \A b \in Block : Held(d, b) <=> Held(c, b) \/ b \in Range(new)
    <2>1. Range(c.tables[r]) = {}
      BY EmptyQueue
    <2> QED  BY <1>12, <2>1 DEF Held
  <1>14. \A b \in Range(new) : ~Held(c, b) /\ b \notin c.cpu
    BY <1>8, <1>11, BlockAssumption DEF Owned, BlockManagers
  <1>15. \A b \in Block : b \in d.gpu \cup d.cpu <=> ~Held(d, b)
    BY <1>12, <1>13, <1>14 DEF Owned
  <1>16. \A b \in Block : d.ref[b] = IF Held(d, b) THEN 1 ELSE 0
    BY <1>12, <1>13 DEF Owned
  <1>17. \A s, q \in SeqId : s # q => Range(d.tables[s]) \cap Range(d.tables[q]) = {}
    <2>1. \A s \in SeqId : Range(c.tables[s]) \cap Range(new) = {}
      BY <1>8, <1>11, <1>14 DEF Held
    <2> QED  BY <1>12, <2>1 DEF Owned
  <1>18. \A s \in SeqId : IsInjective(d.tables[s])
    BY <1>7, <1>12 DEF Owned
  <1>19. Owned(d)
    BY <1>12, <1>15, <1>16, <1>17, <1>18 DEF Owned
  <1> QED  BY <1>8, <1>11, <1>12, <1>19 DEF BlockManagers, Filled

LEMMA LastElement ==
  ASSUME NEW t \in Seq(Block), t # <<>>
  PROVE  t[Len(t)] \in Range(t) /\ t[Len(t)] \in Block
  <1>1. Len(t) \in Nat \ {0} /\ DOMAIN t = 1 .. Len(t)
    BY LenProperties, EmptySeq
  <1> QED  BY <1>1, ElementOfSeq DEF Range

(* d is c with a block more at the end of the table of r if that had less  *)
(* than n.                                                                 *)
Grown(c, d, r, n) ==
  /\ Owned(d) /\ \A s \in SeqId \ {r} : d.tables[s] = c.tables[s]
  /\ d.tables[r] # <<>> /\ Range(d.tables[r]) \subseteq Range(c.tables[r]) \cup GpuBlock
  /\ Len(d.tables[r]) = Len(c.tables[r]) + (IF Len(c.tables[r]) < n THEN 1 ELSE 0)
  /\ \A i \in 1 .. Len(c.tables[r]) : d.tables[r][i] = c.tables[r][i]

(* Nobody shares the last block, so append_slot never copies; it takes a   *)
(* free block or none.                                                     *)
LEMMA OwnedAppend ==
  ASSUME NoWindow, NEW c \in BlockManagers, Owned(c),
         NEW r \in SeqId, c.tables[r] # <<>>, c.gpu # {}, NEW n \in Nat,
         NEW d \in AppendSlot(c, r, n)
  PROVE  ~NeedsCopy(c, r, n) /\ Grown(c, d, r, n)
  <1> DEFINE t == c.tables[r]
  <1>1. t \in Seq(Block) /\ Len(t) \in Nat /\ DOMAIN t = 1 .. Len(t)
    BY LenProperties DEF BlockManagers
  <1>2. CASE NeedsNewBlock(t, n)
    <2> DEFINE New(b) ==
          [c EXCEPT !.gpu = c.gpu \ {b}, !.ref = [c.ref EXCEPT ![b] = 1],
                    !.tables = [c.tables EXCEPT ![r] = Append(t, b)]]
    <2>1. ~NeedsCopy(c, r, n)
      BY <1>2 DEF NeedsCopy
    <2>2. AppendSlot(c, r, n) = {New(b) : b \in c.gpu}
      BY <1>2 DEF AppendSlot
    <2>3. PICK b \in c.gpu : d = New(b)
      BY <2>2
    <2>4. b \in Block /\ b \in GpuBlock /\ b \notin c.cpu /\ ~Held(c, b)
      BY BlockAssumption DEF BlockManagers, Block, Owned
    <2>5. /\ Append(t, b) # <<>> /\ Range(Append(t, b)) = Range(t) \cup {b}
          /\ IsInjective(Append(t, b)) /\ Len(Append(t, b)) = Len(t) + 1
          /\ \A i \in 1 .. Len(t) : Append(t, b)[i] = t[i]
      <3> DEFINE u == Append(t, b)
      <3>1. /\ u \in Seq(Block) /\ u # <<>> /\ Len(u) = Len(t) + 1 /\ u[Len(t) + 1] = b
            /\ \A i \in 1 .. Len(t) : u[i] = t[i]
        BY <1>1, <2>4, AppendProperties
      <3>2. DOMAIN u = 1 .. Len(t) + 1
        BY <3>1, LenProperties
      <3> HIDE DEF u
      <3>3. DOMAIN u = DOMAIN t \cup {Len(t) + 1} /\ Len(t) + 1 \notin DOMAIN t
        BY <1>1, <3>2
      <3>4. Range(u) = Range(t) \cup {b}
        BY <1>1, <3>1, <3>3 DEF Range
      <3>5. IsInjective(t) /\ b \notin Range(t)
        BY <2>4 DEF Owned, Held
      <3>6. IsInjective(u)
        <4>1. \A i \in DOMAIN t : u[i] = t[i] /\ u[i] # b
          BY <1>1, <3>1, <3>5 DEF Range
        <4> QED  BY <3>1, <3>3, <3>5, <4>1 DEF IsInjective
      <3> QED  BY <3>1, <3>4, <3>6 DEF u
    <2>6. /\ d.gpu = c.gpu \ {b} /\ d.cpu = c.cpu /\ d.err = c.err /\ d.prefix = c.prefix
          /\ \A x \in Block : d.ref[x] = IF x = b THEN 1 ELSE c.ref[x]
          /\ \A s \in SeqId : d.tables[s] = IF s = r THEN Append(t, b) ELSE c.tables[s]
      BY <2>3, <2>4 DEF BlockManagers
    <2>7. \A x \in Block : Held(d, x) <=> Held(c, x) \/ x = b
      BY <2>5, <2>6 DEF Held
    <2>8. \A x \in Block : x \in d.gpu \cup d.cpu <=> ~Held(d, x)
      BY <2>4, <2>6, <2>7 DEF Owned
    <2>9. \A x \in Block : d.ref[x] = IF Held(d, x) THEN 1 ELSE 0
      BY <2>6, <2>7 DEF Owned
    <2>10. \A s, q \in SeqId : s # q => Range(d.tables[s]) \cap Range(d.tables[q]) = {}
      BY <2>4, <2>5, <2>6 DEF Owned, Held
    <2>11. \A s \in SeqId : IsInjective(d.tables[s])
      BY <2>5, <2>6 DEF Owned
    <2>12. Owned(d)
      BY <2>6, <2>8, <2>9, <2>10, <2>11 DEF Owned
    <2>13. Len(t) < n
      BY <1>2 DEF NeedsNewBlock
    <2> QED  BY <2>1, <2>4, <2>5, <2>6, <2>12, <2>13 DEF Grown
  <1>3. CASE ~NeedsNewBlock(t, n)
    <2>1. Reused(t, n) = t
      BY <1>1, <1>3 DEF NeedsNewBlock, NoWindow, Reused
    <2>2. Held(c, t[Len(t)]) /\ t[Len(t)] \in Block
      BY <1>1, LastElement DEF Held
    <2>3. ~NeedsCopy(c, r, n)
      BY <2>1, <2>2 DEF NeedsCopy, Owned
    <2>4. d = [c EXCEPT !.tables = [c.tables EXCEPT ![r] = t]]
      BY <1>3, <2>1, <2>3 DEF AppendSlot
    <2>5. d.tables = c.tables /\ d = c
      BY <2>4 DEF BlockManagers
    <2>6. ~(Len(t) < n)
      BY <1>1, <1>3 DEF NeedsNewBlock, NoWindow
    <2> QED  BY <1>1, <2>3, <2>5, <2>6 DEF Grown
  <1> QED  BY <1>2, <1>3

LEMMA UsesOnce ==
  ASSUME NEW c \in BlockManagers, Owned(c), NEW r \in SeqId, NEW b
  PROVE  Uses(c, {r}, b) = IF b \in Range(c.tables[r]) THEN 1 ELSE 0
  <1> DEFINE t  == c.tables[r]
             at == {i \in DOMAIN t : t[i] = b}
  <1>1. Uses(c, {r}, b) = Cardinality({r} \X at)
    <2>1. {{s} \X {i \in DOMAIN c.tables[s] : c.tables[s][i] = b} : s \in {r}} = {{r} \X at}
      OBVIOUS
    <2>2. UNION {{r} \X at} = {r} \X at
      OBVIOUS
    <2> QED  BY <2>1, <2>2 DEF Uses
  <1>2. CASE b \in Range(t)
    <2>1. PICK i \in DOMAIN t : t[i] = b
      BY <1>2 DEF Range
    <2>2. at = {i}
      BY <2>1 DEF Owned, IsInjective
    <2>3. {r} \X at = {<<r, i>>}
      BY <2>2
    <2> QED  BY <1>1, <1>2, <2>3, FS_Singleton
  <1>3. CASE b \notin Range(t)
    <2>1. at = {}
      BY <1>3 DEF Range
    <2>2. {r} \X at = {}
      BY <2>1
    <2> QED  BY <1>1, <1>3, <2>2, FS_EmptySet
  <1> QED  BY <1>2, <1>3

LEMMA OwnedMoved ==
  ASSUME NEW c \in BlockManagers, Owned(c), NEW r \in SeqId, c.tables[r] # <<>>,
         NEW dev \in {c.gpu, c.cpu}, NEW m \in Injection(BlocksOf(c, {r}), dev),
         NEW d, d = Moved(c, {r}, BlocksOf(c, {r}), m)
  PROVE  /\ Owned(d)
         /\ \A s \in SeqId \ {r} : d.tables[s] = c.tables[s]
         /\ d.tables[r] # <<>> /\ Range(d.tables[r]) \subseteq dev
         /\ Len(d.tables[r]) = Len(c.tables[r])
         /\ c.gpu \ Range(m) \subseteq d.gpu
  <1> DEFINE t     == c.tables[r]
             moved == BlocksOf(c, {r})
             kept(q) == IF Range(q) \subseteq moved THEN q
                        ELSE SelectSeq(q, LAMBDA b : b \in moved)
             to(b)   == CHOOSE x \in moved : m[x] = b
             uses    == [b \in Block |-> Uses(c, {r}, b)]
             freed   == FreeBlocks(c, uses)
             ref     == [b \in Block |-> IF b \in Range(m) THEN Uses(c, {r}, to(b))
                                         ELSE freed.ref[b]]
             tables  == [s \in SeqId |->
                           IF s \in {r}
                           THEN [i \in DOMAIN kept(c.tables[s]) |->
                                   m[kept(c.tables[s])[i]]]
                           ELSE c.tables[s]]
             back    == {b \in Block : uses[b] > 0 /\ uses[b] = c.ref[b]}
             u       == [i \in DOMAIN t |-> m[t[i]]]
  <1>1. t \in Seq(Block) /\ Len(t) \in Nat \ {0} /\ DOMAIN t = 1 .. Len(t)
    BY LenProperties, EmptySeq DEF BlockManagers
  <1>2. moved = Range(t)
    BY DEF BlocksOf
  <1>3. Range(t) \subseteq Block /\ \A i \in DOMAIN t : t[i] \in Range(t)
    BY <1>1, ElementOfSeq DEF Range
  <1>4. \A b \in Block : uses[b] = IF b \in Range(t) THEN 1 ELSE 0
    BY UsesOnce
  <1>5. \A b \in Block : c.ref[b] = IF Held(c, b) THEN 1 ELSE 0
    BY DEF Owned
  <1>6. \A b \in Range(t) : Held(c, b)
    BY DEF Held
  <1>7. d = [freed EXCEPT !.gpu = freed.gpu \ Range(m), !.cpu = freed.cpu \ Range(m),
                          !.ref = ref, !.tables = tables]
    BY DEF Moved
  <1>8. tables = [s \in SeqId |-> IF s = r THEN u ELSE c.tables[s]]
    <2>1. kept(t) = t
      BY <1>2
    <2> QED  BY <2>1
  <1>9. \A b \in Range(m) : Uses(c, {r}, to(b)) = 1
    <2> SUFFICES ASSUME NEW b \in Range(m)
                 PROVE  Uses(c, {r}, to(b)) = 1
      OBVIOUS
    <2>1. \E x \in moved : m[x] = b
      BY DEF Range, Injection
    <2>2. to(b) \in moved
      BY <2>1
    <2> HIDE DEF to
    <2> QED  BY <1>2, <2>2, UsesOnce
  <1> HIDE DEF uses, tables, to
  <1>10. freed = [c EXCEPT !.ref = [b \in Block |-> c.ref[b] - uses[b]],
                           !.gpu = c.gpu \cup (back \cap GpuBlock),
                           !.cpu = c.cpu \cup (back \cap CpuBlock)]
    <2>1. ~ \E b \in Block : uses[b] > c.ref[b]
      BY <1>4, <1>5, <1>6
    <2> QED  BY <2>1 DEF FreeBlocks
  <1>11. back = Range(t)
    BY <1>3, <1>4, <1>5, <1>6
  <1> HIDE DEF freed, back
  <1>12. /\ freed.gpu = c.gpu \cup (Range(t) \cap GpuBlock)
         /\ freed.cpu = c.cpu \cup (Range(t) \cap CpuBlock)
         /\ freed.ref = [b \in Block |-> c.ref[b] - uses[b]]
         /\ freed.err = c.err /\ freed.prefix = c.prefix
         /\ freed \in BlockManagers
    <2>1. uses \in [Block -> Nat]
      <3>1. \A b \in Block : Uses(c, {r}, b) \in Nat
        BY UsesOnce
      <3> QED  BY <3>1 DEF uses
    <2>2. freed \in BlockManagers
      BY <2>1, FreeBlocksType DEF freed
    <2> QED  BY <1>10, <1>11, <2>2 DEF BlockManagers
  <1>13. /\ d.gpu = (c.gpu \cup (Range(t) \cap GpuBlock)) \ Range(m)
         /\ d.cpu = (c.cpu \cup (Range(t) \cap CpuBlock)) \ Range(m)
         /\ d.err = c.err /\ d.prefix = c.prefix
         /\ \A b \in Block : d.ref[b] = IF b \in Range(m) THEN 1 ELSE c.ref[b] - uses[b]
         /\ \A s \in SeqId : d.tables[s] = IF s = r THEN u ELSE c.tables[s]
    <2>1. /\ d.gpu = freed.gpu \ Range(m) /\ d.cpu = freed.cpu \ Range(m)
          /\ d.err = freed.err /\ d.prefix = freed.prefix
          /\ d.ref = ref /\ d.tables = tables
      <3> HIDE DEF ref
      <3> QED  BY <1>7, <1>12 DEF BlockManagers
    <2>2. \A b \in Block : d.ref[b] = IF b \in Range(m) THEN 1 ELSE freed.ref[b]
      BY <1>9, <2>1
    <2>3. \A b \in Block : freed.ref[b] = c.ref[b] - uses[b]
      BY <1>12
    <2>4. \A s \in SeqId : d.tables[s] = IF s = r THEN u ELSE c.tables[s]
      BY <1>8, <2>1
    <2> HIDE DEF ref, u
    <2> QED  BY <1>12, <2>1, <2>2, <2>3, <2>4
  <1>14. m \in [Range(t) -> dev] /\ IsInjective(m)
    BY <1>2 DEF Injection
  <1>15. Range(m) \subseteq dev /\ dev \subseteq Block /\ \A b \in Range(m) : ~Held(c, b)
    BY <1>14 DEF Range, Owned, BlockManagers, Block
  <1>16. Range(u) = Range(m)
    <2>1. \A b \in Range(m) : \E i \in DOMAIN t : m[t[i]] = b
      BY <1>14 DEF Range
    <2> QED  BY <1>3, <1>14, <2>1 DEF Range
  <1>17. IsInjective(u)
    <2>1. IsInjective(t)
      BY DEF Owned
    <2> QED  BY <1>3, <1>14, <2>1 DEF IsInjective
  <1>18. u # <<>>
    <2>1. 1 \in DOMAIN u /\ DOMAIN <<>> = {}
      BY <1>1
    <2> QED  BY <2>1
  <1>19. Len(u) = Len(t)
    <2>1. u \in [1 .. Len(t) -> Range(m)]
      BY <1>1, <1>3, <1>14 DEF Range
    <2> QED  BY <1>1, <2>1, FunctionIsSeq
  <1> HIDE DEF u
  <1>20. \A b \in Block : Held(d, b) <=> (Held(c, b) /\ b \notin Range(t)) \/ b \in Range(m)
    <2>1. \A s \in SeqId : s # r => Range(c.tables[s]) \cap Range(t) = {}
      BY DEF Owned
    <2> QED  BY <1>13, <1>16, <2>1 DEF Held
  <1>21. \A b \in Block : d.ref[b] = IF Held(d, b) THEN 1 ELSE 0
    <2> SUFFICES ASSUME NEW b \in Block
                 PROVE  d.ref[b] = IF Held(d, b) THEN 1 ELSE 0
      OBVIOUS
    <2>1. CASE b \in Range(m)
      BY <1>13, <1>20, <2>1
    <2>2. CASE b \notin Range(m) /\ b \in Range(t)
      <3>1. d.ref[b] = 0
        <4>1. d.ref[b] = c.ref[b] - uses[b]
          BY <1>13, <2>2
        <4>2. c.ref[b] = 1 /\ uses[b] = 1
          BY <1>4, <1>5, <1>6, <2>2
        <4> QED  BY <4>1, <4>2
      <3> QED  BY <1>20, <2>2, <3>1
    <2>3. CASE b \notin Range(m) /\ b \notin Range(t)
      <3>1. d.ref[b] = c.ref[b]
        <4>1. d.ref[b] = c.ref[b] - uses[b]
          BY <1>13, <2>3
        <4>2. c.ref[b] \in Nat /\ uses[b] = 0
          BY <1>4, <2>3 DEF BlockManagers
        <4> QED  BY <4>1, <4>2
      <3> QED  BY <1>5, <1>20, <2>3, <3>1
    <2> QED  BY <2>1, <2>2, <2>3
  <1>22. \A b \in Block : b \in d.gpu \cup d.cpu <=> ~Held(d, b)
    <2>1. \A b \in Block : b \in d.gpu \cup d.cpu
                             <=> (b \in c.gpu \cup c.cpu \/ b \in Range(t)) /\ b \notin Range(m)
      BY <1>13 DEF Block
    <2>2. \A b \in Block : b \in c.gpu \cup c.cpu <=> ~Held(c, b)
      BY DEF Owned
    <2> QED  BY <1>20, <2>1, <2>2
  <1>23. \A s, q \in SeqId : s # q => Range(d.tables[s]) \cap Range(d.tables[q]) = {}
    <2>1. \A s \in SeqId : Range(c.tables[s]) \cap Range(m) = {}
      BY <1>15 DEF Held
    <2> SUFFICES ASSUME NEW s \in SeqId, NEW q \in SeqId, s # q
                 PROVE  Range(d.tables[s]) \cap Range(d.tables[q]) = {}
      OBVIOUS
    <2>2. CASE s = r
      BY <1>13, <1>16, <2>1, <2>2
    <2>3. CASE q = r
      BY <1>13, <1>16, <2>1, <2>3
    <2>4. CASE s # r /\ q # r
      BY <1>13, <2>4 DEF Owned
    <2> QED  BY <2>2, <2>3, <2>4
  <1>24. \A s \in SeqId : IsInjective(d.tables[s])
    BY <1>13, <1>17 DEF Owned
  <1>25. Owned(d)
    BY <1>13, <1>21, <1>22, <1>23, <1>24 DEF Owned
  <1> QED  BY <1>13, <1>15, <1>16, <1>18, <1>25, <1>19

LEMMA OwnedSwapOut ==
  ASSUME NEW c \in BlockManagers, Owned(c), NEW r \in SeqId, c.tables[r] # <<>>,
         CanSwapOut(c, {r}), NEW d \in SwapOut(c, {r}, NoPrefix)
  PROVE  /\ Owned(d)
         /\ \A s \in SeqId \ {r} : d.tables[s] = c.tables[s]
         /\ d.tables[r] # <<>> /\ Range(d.tables[r]) \subseteq CpuBlock
         /\ Len(d.tables[r]) = Len(c.tables[r])
  <1> DEFINE moved == BlocksOf(c, {r})
  <1>1. moved \ {} = moved
    OBVIOUS
  <1>2. Cardinality(moved) \in Nat /\ Cardinality(c.cpu) \in Nat
    <2>1. IsFiniteSet(Block) /\ moved \subseteq Block /\ c.cpu \subseteq Block
      BY BlocksAreFinite, RangeOfSeq DEF BlockManagers, Block, BlocksOf
    <2> QED  BY <2>1, FS_Subset, FS_CardinalityType
  <1>3. ~(Cardinality(moved) > Cardinality(c.cpu))
    BY <1>2 DEF CanSwapOut
  <1>4. SwapOut(c, {r}, NoPrefix) = {Moved(c, {r}, moved, m) : m \in Injection(moved, c.cpu)}
    BY <1>1, <1>3 DEF SwapOut
  <1>5. PICK m \in Injection(moved, c.cpu) : d = Moved(c, {r}, moved, m)
    BY <1>4
  <1>6. /\ Owned(d)
        /\ \A s \in SeqId \ {r} : d.tables[s] = c.tables[s]
        /\ d.tables[r] # <<>> /\ Range(d.tables[r]) \subseteq c.cpu
        /\ Len(d.tables[r]) = Len(c.tables[r])
    BY <1>5, OwnedMoved
  <1> QED  BY <1>6 DEF BlockManagers

(* can_swap_in leaves a block over for the slot that append_slot may take. *)
LEMMA OwnedSwapIn ==
  ASSUME NEW c \in BlockManagers, Owned(c), NEW r \in SeqId, c.tables[r] # <<>>,
         CanSwapIn(c, {r}), NEW d \in SwapIn(c, {r}, NoPrefix)
  PROVE  /\ Owned(d)
         /\ \A s \in SeqId \ {r} : d.tables[s] = c.tables[s]
         /\ d.tables[r] # <<>> /\ Range(d.tables[r]) \subseteq GpuBlock
         /\ Len(d.tables[r]) = Len(c.tables[r]) /\ d.gpu # {}
  <1> DEFINE moved == BlocksOf(c, {r})
  <1>1. IsFiniteSet(moved) /\ IsFiniteSet(c.gpu)
        /\ Cardinality(moved) \in Nat /\ Cardinality(c.gpu) \in Nat
    <2>1. IsFiniteSet(Block) /\ moved \subseteq Block /\ c.gpu \subseteq Block
      BY BlocksAreFinite, RangeOfSeq DEF BlockManagers, Block, BlocksOf
    <2> QED  BY <2>1, FS_Subset, FS_CardinalityType
  <1>2. Cardinality(c.gpu) >= Cardinality(moved) + 1
    <2>1. Cardinality(c.gpu) - (Cardinality(moved) + 1) >= WatermarkBlocks
      BY FS_Singleton DEF CanSwapIn
    <2> QED  BY <1>1, <2>1, WatermarkNat
  <1>3. SwapIn(c, {r}, NoPrefix) = {Moved(c, {r}, moved, m) : m \in Injection(moved, c.gpu)}
    <2>1. ~(Cardinality(moved) > Cardinality(c.gpu))
      BY <1>1, <1>2
    <2> QED  BY <2>1 DEF SwapIn
  <1>4. PICK m \in Injection(moved, c.gpu) : d = Moved(c, {r}, moved, m)
    BY <1>3
  <1>5. /\ Owned(d)
        /\ \A s \in SeqId \ {r} : d.tables[s] = c.tables[s]
        /\ d.tables[r] # <<>> /\ Range(d.tables[r]) \subseteq c.gpu
        /\ Len(d.tables[r]) = Len(c.tables[r])
        /\ c.gpu \ Range(m) \subseteq d.gpu
    BY <1>4, OwnedMoved
  <1>6. c.gpu \ Range(m) # {}
    <2>1. m \in Surjection(moved, Range(m))
      BY DEF Injection, Surjection, Range
    <2>2. IsFiniteSet(Range(m)) /\ Cardinality(Range(m)) <= Cardinality(moved)
      BY <1>1, <2>1, FS_Surjection
    <2>3. Cardinality(Range(m)) \in Nat
      BY <2>2, FS_CardinalityType
    <2>4. c.gpu \subseteq Range(m) => Cardinality(c.gpu) <= Cardinality(Range(m))
      BY <2>2, FS_Subset
    <2> QED  BY <1>1, <1>2, <2>2, <2>3, <2>4
  <1> QED  BY <1>5, <1>6 DEF BlockManagers

LEMMA LogicalBlocksPositive ==
  ASSUME TypeOK, NEW r \in SeqId, promptLen[r] > 0
  PROVE  LogicalBlocks(r) \in Nat \ {0}
  <1> DEFINE x == SeqLen(r) + ImgTokens * (1 + outLen[r]) + BlockSize - 1
  <1>1. SeqLen(r) \in Nat /\ SeqLen(r) > 0
    BY DEF TypeOK, SeqLen
  <1>2. outLen[r] \in Nat /\ ImgTokens \in Nat /\ BlockSize \in Nat \ {0}
    BY SchedulerAssumption DEF TypeOK
  <1>3. ImgTokens * (1 + outLen[r]) \in Nat
    BY <1>2
  <1>4. x \in Nat /\ x >= BlockSize
    BY <1>1, <1>2, <1>3
  <1> HIDE DEF x
  <1>5. x \div BlockSize >= 1
    BY <1>2, <1>4
  <1>6. x \div BlockSize \in Nat
    BY <1>2, <1>4, DivNat
  <1> QED  BY <1>5, <1>6 DEF LogicalBlocks, x

-----------------------------------------------------------------------------
LEMMA OwnInit == Init => OwnInv
  <1> SUFFICES ASSUME Init PROVE OwnInv
    OBVIOUS
  <1> USE DEF Init, SchedulerInit, NewBlockManager
  <1>1. bm.tables = [s \in SeqId |-> <<>>] /\ bm.err = "none"
        /\ bm.prefix = [p \in Prefix |-> <<>>] /\ bm.ref = [b \in Block |-> 0]
        /\ bm.gpu = GpuBlock /\ bm.cpu = CpuBlock
    OBVIOUS
  <1>2. \A b \in Block : ~Held(bm, b)
    BY <1>1, EmptyQueue DEF Held
  <1>3. Owned(bm)
    BY <1>1, <1>2, EmptyQueue DEF Owned, Block
  <1>4. TablesFollow
    BY <1>1 DEF TablesFollow
  <1> QED  BY <1>3, <1>4 DEF OwnInv, Errors, NoOutputs

(* A status and a table change together, those of one request at a time.   *)
LEMMA FollowOne ==
  ASSUME TypeOK, TablesFollow, NEW r \in SeqId, NEW st \in Statuses, st # "NEW",
         status[r] # "NEW", promptLen' = promptLen,
         status' = [status EXCEPT ![r] = st],
         \A s \in SeqId \ {r} : bm'.tables[s] = bm.tables[s],
         st = "RUNNING" => bm'.tables[r] # <<>> /\ Range(bm'.tables[r]) \subseteq GpuBlock,
         st = "SWAPPED" => bm'.tables[r] # <<>> /\ Range(bm'.tables[r]) \subseteq CpuBlock,
         st \notin {"RUNNING", "SWAPPED"} => bm'.tables[r] = <<>>
  PROVE  TablesFollow'
  <1>1. \A s \in SeqId : status'[s] = IF s = r THEN st ELSE status[s]
    BY DEF TypeOK
  <1> SUFFICES ASSUME NEW s \in SeqId
               PROVE  LET t == bm'.tables[s]
                      IN  /\ status'[s] = "RUNNING" => t # <<>> /\ Range(t) \subseteq GpuBlock
                          /\ status'[s] = "SWAPPED" => t # <<>> /\ Range(t) \subseteq CpuBlock
                          /\ status'[s] \notin {"RUNNING", "SWAPPED"} => t = <<>>
                          /\ status'[s] # "NEW" => promptLen'[s] > 0
    BY DEF TablesFollow
  <1>2. CASE s = r
    BY <1>1, <1>2 DEF TablesFollow
  <1>3. CASE s # r
    BY <1>1, <1>3 DEF TablesFollow
  <1> QED  BY <1>2, <1>3

-----------------------------------------------------------------------------
(* What the steps that call the block manager do to the tables: one table  *)
(* changes, of a request that is or becomes RUNNING or SWAPPED, and every  *)
(* other one stays.                                                        *)

Healthy == Queues /\ Owned(bm) /\ TablesFollow

Extended(r) ==
  /\ Len(bm'.tables[r]) = Len(bm.tables[r])
                          + (IF Len(bm.tables[r]) < LogicalBlocks(r) THEN 1 ELSE 0)
  /\ bm'.tables[r] # <<>> /\ Range(bm'.tables[r]) \subseteq GpuBlock

OthersKept(r) == \A s \in SeqId \ {r} : bm'.tables[s] = bm.tables[s]

LEMMA AdmitEffect ==
  ASSUME PrefixFree, NoWindow, TypeOK, Healthy, Admit
  PROVE  LET r == Head(waiting)
         IN  /\ r \in SeqId /\ status[r] = "WAITING" /\ r \notin Range(running)
             /\ status' = [status EXCEPT ![r] = "RUNNING"]
             /\ Owned(bm') /\ error' = "none" /\ phase' = "admit" /\ OthersKept(r)
             /\ bm'.tables[r] # <<>> /\ Range(bm'.tables[r]) \subseteq GpuBlock
             /\ Len(bm'.tables[r]) = LogicalBlocks(r)
  <1> USE DEF Healthy
  <1> DEFINE r == Head(waiting)
  <1>1. waiting # <<>> /\ Verdict(r) = "admit" /\ waiting \in Seq(SeqId) /\ bm \in BlockManagers
    BY DEF Admit, TypeOK
  <1>2. r \in SeqId /\ status[r] = "WAITING" /\ r \notin Range(running)
    BY <1>1, TailQueue, HeadType DEF Queues
  <1> HIDE DEF r
  <1>3. PrefixOf[r] = NoPrefix /\ bm.tables[r] = <<>> /\ promptLen[r] > 0
    BY <1>2 DEF PrefixFree, TablesFollow
  <1>4. LogicalBlocks(r) \in Nat \ {0}
    BY <1>2, <1>3, LogicalBlocksPositive
  <1>5. CanAllocate(bm, LogicalBlocks(r), NoPrefix) = "OK"
    <2>1. CanAllocate(bm, LogicalBlocks(r), NoPrefix) \in {"NEVER", "OK", "LATER"}
      BY DEF CanAllocate
    <2>2. CanAllocate(bm, LogicalBlocks(r), NoPrefix) \notin {"NEVER", "LATER"}
      BY <1>1, <1>3 DEF Verdict
    <2> QED  BY <2>1, <2>2
  <1>6. PICK c \in Allocate(bm, {r}, 1, LogicalBlocks(r), NoPrefix) : Apply(c, "admit")
    BY <1>3 DEF Admit, r
  <1>7. Filled(bm, c, r, LogicalBlocks(r))
    <2>1. bm \in BlockManagers /\ Owned(bm) /\ bm.tables[r] = <<>>
      BY <1>1, <1>3
    <2> QED  BY <1>2, <1>4, <1>5, <1>6, <2>1, OwnedAllocate
  <1>8. bm' = c /\ error' = "none" /\ phase' = "admit"
    BY <1>6, <1>7 DEF Apply, Owned, Filled
  <1> QED  BY <1>2, <1>7, <1>8 DEF Admit, OthersKept, Filled, r

LEMMA ReserveEffect ==
  ASSUME NoWindow, TypeOK, Healthy, ReserveSlot
  PROVE  LET r == Head(running)
         IN  /\ r \in SeqId /\ status[r] = "RUNNING" /\ status' = status
             /\ Owned(bm') /\ error' = "none" /\ phase' = "reserve" /\ OthersKept(r)
             /\ Extended(r) /\ ~NeedsCopy(bm, r, LogicalBlocks(r))
             /\ \A i \in 1 .. Len(bm.tables[r]) : bm'.tables[r][i] = bm.tables[r][i]
  <1> USE DEF Healthy
  <1> DEFINE r == Head(running)
  <1>1. running # <<>> /\ running \in Seq(SeqId) /\ bm \in BlockManagers /\ CanAppendSlot(bm, 1)
    BY DEF ReserveSlot, TypeOK
  <1>2. r \in SeqId /\ status[r] = "RUNNING"
    BY <1>1, TailQueue, HeadType DEF Queues
  <1> HIDE DEF r
  <1>3. bm.tables[r] # <<>> /\ Range(bm.tables[r]) \subseteq GpuBlock
    BY <1>2 DEF TablesFollow
  <1>4. LogicalBlocks(r) \in Nat
    BY <1>2, LengthTypes
  <1>5. bm.gpu # {}
    <2>1. 1 <= Cardinality(bm.gpu)
      BY <1>1 DEF CanAppendSlot
    <2>2. Cardinality({}) = 0
      BY FS_EmptySet
    <2> QED  BY <2>1, <2>2
  <1>6. PICK c \in AppendSlot(bm, r, LogicalBlocks(r)) : Apply(c, "reserve")
    BY DEF ReserveSlot, r
  <1>7. ~NeedsCopy(bm, r, LogicalBlocks(r)) /\ Grown(bm, c, r, LogicalBlocks(r))
    BY <1>1, <1>2, <1>3, <1>4, <1>5, <1>6, OwnedAppend
  <1>8. bm' = c /\ error' = "none" /\ phase' = "reserve"
    BY <1>6, <1>7 DEF Apply, Owned, Grown
  <1> QED  BY <1>2, <1>3, <1>7, <1>8 DEF ReserveSlot, OthersKept, Extended, Grown, r

LEMMA PreemptEffect ==
  ASSUME PrefixFree, TypeOK, Healthy, Preempt
  PROVE  LET r == running[Len(running)]
         IN  /\ r \in SeqId /\ status[r] = "RUNNING"
             /\ \/ /\ status' = [status EXCEPT ![r] = "WAITING"] /\ error' = "none"
                   /\ Owned(bm') /\ OthersKept(r) /\ bm'.tables[r] = <<>>
                \/ /\ status' = [status EXCEPT ![r] = "SWAPPED"] /\ error' = "none"
                   /\ Owned(bm') /\ OthersKept(r)
                   /\ bm'.tables[r] # <<>> /\ Range(bm'.tables[r]) \subseteq CpuBlock
                   /\ Len(bm'.tables[r]) = Len(bm.tables[r])
                   /\ MaxNumRunningSeqs(r) # 1
                \/ status' = status /\ bm' = bm /\ error' = "NoSwapSpace"
  <1> USE DEF Healthy
  <1> DEFINE r == running[Len(running)]
  <1>1. running # <<>> /\ running \in Seq(SeqId) /\ bm \in BlockManagers
    BY DEF Preempt, TypeOK
  <1>2. r \in SeqId /\ status[r] = "RUNNING"
    BY <1>1, FrontQueue, FrontType DEF Queues
  <1> HIDE DEF r
  <1>3. bm.tables[r] # <<>> /\ PrefixOf[r] = NoPrefix
    BY <1>2 DEF TablesFollow, PrefixFree
  <1>4. CASE PreemptByRecompute(r)
    <2>1. PICK c \in Free(bm, {r}) : Apply(c, "reserve")
      BY <1>4 DEF PreemptByRecompute
    <2>2. Owned(c) /\ c.tables = [s \in SeqId |-> IF s \in {r} THEN <<>> ELSE bm.tables[s]]
      BY <1>1, <1>2, <2>1, OwnedFree
    <2>3. bm' = c /\ error' = "none"
      BY <2>1, <2>2 DEF Apply, Owned
    <2>4. status' = [status EXCEPT ![r] = "WAITING"]
      BY <1>4 DEF PreemptByRecompute
    <2> QED  BY <1>2, <2>2, <2>3, <2>4 DEF OthersKept, r
  <1>5. CASE PreemptBySwap(r) /\ CanSwapOut(bm, {r})
    <2>1. PICK c \in SwapOut(bm, {r}, NoPrefix) : Apply(c, "reserve")
      BY <1>3, <1>5 DEF PreemptBySwap
    <2>2. /\ Owned(c) /\ \A s \in SeqId \ {r} : c.tables[s] = bm.tables[s]
          /\ c.tables[r] # <<>> /\ Range(c.tables[r]) \subseteq CpuBlock
          /\ Len(c.tables[r]) = Len(bm.tables[r])
      BY <1>1, <1>2, <1>3, <1>5, <2>1, OwnedSwapOut
    <2>3. bm' = c /\ error' = "none"
      BY <2>1, <2>2 DEF Apply, Owned
    <2>4. status' = [status EXCEPT ![r] = "SWAPPED"] /\ MaxNumRunningSeqs(r) # 1
      BY <1>5 DEF PreemptBySwap
    <2> QED  BY <1>2, <2>2, <2>3, <2>4 DEF OthersKept, r
  <1>6. CASE PreemptBySwap(r) /\ ~CanSwapOut(bm, {r})
    BY <1>2, <1>6 DEF PreemptBySwap, Raised, r
  <1> QED  BY <1>4, <1>5, <1>6 DEF Preempt, r

LEMMA ResumeEffect ==
  ASSUME PrefixFree, NoWindow, TypeOK, Healthy, Resume
  PROVE  LET r == Head(swapped)
         IN  /\ r \in SeqId /\ status[r] = "SWAPPED"
             /\ status' = [status EXCEPT ![r] = "RUNNING"]
             /\ Owned(bm') /\ error' = "none" /\ phase' = "swap" /\ OthersKept(r)
             /\ Extended(r) /\ outputs'.copy = outputs.copy
  <1> USE DEF Healthy
  <1> DEFINE r == Head(swapped)
  <1> DEFINE n == LogicalBlocks(r)
  <1>1. /\ swapped # <<>> /\ swapped \in Seq(SeqId) /\ bm \in BlockManagers
        /\ CanSwapIn(bm, {r})
    BY DEF Resume, CanResume, TypeOK
  <1>2. r \in SeqId /\ status[r] = "SWAPPED"
    BY <1>1, TailQueue, HeadType DEF Queues
  <1>3. n \in Nat
    BY <1>2, LengthTypes
  <1> HIDE DEF r, n
  <1>4. bm.tables[r] # <<>> /\ PrefixOf[r] = NoPrefix
    BY <1>2 DEF TablesFollow, PrefixFree
  <1>5. PICK c \in SwapIn(bm, {r}, NoPrefix) :
          \E d \in IF c.err = "none" THEN AppendSlot(c, r, n) ELSE {c} :
            /\ Apply(d, "swap")
            /\ outputs' = [outputs EXCEPT !.swapIn = @ \/ d.cpu # bm.cpu,
                             !.copy = @ \/ (c.err = "none" /\ NeedsCopy(c, r, n))]
    BY <1>4 DEF Resume, r, n
  <1>6.. /\ Owned(c) /\ \A s \in SeqId \ {r} : c.tables[s] = bm.tables[s]
        /\ c.tables[r] # <<>> /\ Range(c.tables[r]) \subseteq GpuBlock /\ c.gpu # {}
        /\ Len(c.tables[r]) = Len(bm.tables[r])
    BY <1>1, <1>2, <1>4, <1>5, OwnedSwapIn
  <1>7. c \in BlockManagers
    BY <1>1, <1>2, <1>5, SwapType
  <1>8. PICK d \in AppendSlot(c, r, n) :
          /\ Apply(d, "swap")
          /\ outputs' = [outputs EXCEPT !.swapIn = @ \/ d.cpu # bm.cpu,
                           !.copy = @ \/ (c.err = "none" /\ NeedsCopy(c, r, n))]
    BY <1>5, <1>6 DEF Owned
  <1>9. ~NeedsCopy(c, r, n) /\ Grown(c, d, r, n)
    BY <1>2, <1>3, <1>6, <1>7, <1>8, OwnedAppend
  <1>10. bm' = d /\ error' = "none" /\ phase' = "swap"
    BY <1>8, <1>9 DEF Apply, Owned, Grown
  <1>11. outputs'.copy = outputs.copy
    BY <1>8, <1>9 DEF TypeOK
  <1>12. Extended(r)
    BY <1>6, <1>9, <1>10 DEF Extended, Grown, n
  <1> QED  BY <1>2, <1>6, <1>9, <1>10, <1>11, <1>12 DEF Resume, OthersKept, Grown, r

(* The scheduled groups that are finished lose their tables.               *)
LEMMA ExecuteEffect ==
  ASSUME TypeOK, Healthy, ExecuteModel
  PROVE  /\ \A r \in Scheduled : /\ r \in SeqId /\ status[r] = "RUNNING"
                                 /\ status'[r] \in FinishedStatus \cup {"RUNNING"}
         /\ \A r \in SeqId \ Scheduled : status'[r] = status[r]
         /\ \A r \in SeqId : bm'.tables[r] = IF r \in Scheduled /\ status'[r] # "RUNNING"
                                             THEN <<>> ELSE bm.tables[r]
         /\ Owned(bm') /\ error' = "none" /\ phase' = "idle"
  <1> USE DEF Healthy
  <1> DEFINE after(token, r) == IF r \in Scheduled THEN CheckStop(r, token[r]) ELSE status[r]
             done(token) == {r \in Scheduled : after(token, r) \in FinishedStatus}
  <1>1. Scheduled \subseteq Range(running) /\ bm \in BlockManagers
    BY DEF ExecuteModel, Scheduled, Queues, TypeOK
  <1>2. PICK token \in [Scheduled -> Tokens] :
          /\ status' = [r \in SeqId |-> after(token, r)]
          /\ \E c \in Free(bm, done(token)) : Apply(c, "idle")
    BY DEF ExecuteModel
  <1>3. PICK c \in Free(bm, done(token)) : Apply(c, "idle")
    BY <1>2
  <1>4. \A r \in Scheduled : r \in SeqId /\ status[r] = "RUNNING"
    BY <1>1 DEF Queues
  <1>5. /\ \A r \in SeqId : status'[r] = after(token, r)
        /\ \A r \in Scheduled : after(token, r) \in FinishedStatus \cup {"RUNNING"}
        /\ \A r \in SeqId \ Scheduled : after(token, r) = status[r]
    BY <1>2 DEF CheckStop, FinishedStatus
  <1>6. /\ done(token) \in SUBSET SeqId /\ done(token) \subseteq Scheduled
        /\ \A r \in Scheduled : r \in done(token) <=> after(token, r) # "RUNNING"
    BY <1>4, <1>5 DEF FinishedStatus
  <1> HIDE DEF done, after
  <1>7. Owned(c) /\ c.tables = [s \in SeqId |-> IF s \in done(token) THEN <<>> ELSE bm.tables[s]]
    BY <1>1, <1>3, <1>6, OwnedFree
  <1>8. bm' = c /\ error' = "none" /\ phase' = "idle"
    BY <1>3, <1>7 DEF Apply, Owned
  <1> QED  BY <1>4, <1>5, <1>6, <1>7, <1>8

LEMMA AbortEffect ==
  ASSUME TypeOK, Healthy, NEW r \in SeqId, Abort(r)
  PROVE  /\ status[r] # "NEW" /\ status' = [status EXCEPT ![r] = "FINISHED_ABORTED"]
         /\ Owned(bm') /\ OthersKept(r) /\ bm'.tables[r] = <<>>
  <1>1. PICK c \in Free(bm, {r}) : bm' = c
    BY DEF Abort
  <1>2. bm \in BlockManagers /\ Owned(bm) /\ {r} \in SUBSET SeqId
    BY DEF TypeOK, Healthy
  <1>3. Owned(c) /\ c.tables = [s \in SeqId |-> IF s \in {r} THEN <<>> ELSE bm.tables[s]]
    BY <1>1, <1>2, OwnedFree
  <1> QED  BY <1>1, <1>3 DEF Abort, OthersKept

-----------------------------------------------------------------------------
(* Every step keeps OwnInv.                                                *)
LEMMA OwnStep ==
  ASSUME PrefixFree, NoWindow, TypeOK, QueueInv, OwnInv, [Next]_vars
  PROVE  OwnInv'
  <1> USE DEF seqVars, queueVars, loopVars
  <1>0. phase # "raised" => /\ Alive /\ Queues /\ Owned(bm) /\ TablesFollow
                            /\ error \notin Errors /\ ~outputs.copy
    BY DEF QueueInv, ErrorPhase, Alive, OwnInv
  <1>q. /\ waiting \in Seq(SeqId) /\ running \in Seq(SeqId) /\ swapped \in Seq(SeqId)
        /\ outputs.scheduled \in Seq(SeqId) /\ status \in [SeqId -> Statuses]
        /\ bm \in BlockManagers
    BY DEF TypeOK
  <1>e. "none" \notin Errors /\ "NoSwapSpace" \notin Errors /\ "SwapInAndOut" \notin Errors
        /\ "NoModelOutput" \notin Errors
    BY DEF Errors
  <1>s. \A st \in FinishedStatus : st \in Statuses /\ st \notin {"NEW", "RUNNING", "SWAPPED"}
    BY DEF FinishedStatus, Statuses
  <1>1. ASSUME NEW r \in SeqId, NEW n \in PromptLens, AddRequest(r, n)
        PROVE  OwnInv'
    <2>1. Alive /\ Owned(bm) /\ TablesFollow /\ ~outputs.copy /\ error \notin Errors
      BY <1>0, <1>1 DEF AddRequest
    <2>2. n > 0 /\ n \in Nat
      BY EngineAssumption
    <2>3. promptLen' = [promptLen EXCEPT ![r] = n] /\ UNCHANGED <<bm, outputs, error>>
      BY <1>1 DEF AddRequest
    <2>4. \E st \in {"WAITING", "REJECTED"} : status' = [status EXCEPT ![r] = st]
      BY <1>1 DEF AddRequest
    <2>5. PICK st \in {"WAITING", "REJECTED"} : status' = [status EXCEPT ![r] = st]
      BY <2>4
    <2>6. status[r] = "NEW"
      BY <1>1 DEF AddRequest
    <2>7. TablesFollow'
      BY <2>1, <2>2, <2>3, <2>5, <2>6 DEF TablesFollow, TypeOK
    <2> QED  BY <2>1, <2>3, <2>7 DEF OwnInv
  <1>2. ASSUME NEW r \in SeqId, Abort(r)
        PROVE  OwnInv'
    <2>1. Alive /\ Owned(bm) /\ TablesFollow /\ ~outputs.copy /\ error \notin Errors
      BY <1>0, <1>2 DEF Abort
    <2>2. /\ status[r] # "NEW" /\ status' = [status EXCEPT ![r] = "FINISHED_ABORTED"]
          /\ Owned(bm') /\ OthersKept(r) /\ bm'.tables[r] = <<>>
      BY <1>0, <1>2, <2>1, AbortEffect DEF Abort, Healthy
    <2>3. UNCHANGED <<promptLen, outputs, error>>
      BY <1>2 DEF Abort
    <2>4. TablesFollow'
      BY <1>s, <2>1, <2>2, <2>3, FollowOne DEF FinishedStatus, OthersKept
    <2> QED  BY <2>1, <2>2, <2>3, <2>4 DEF OwnInv
  <1>3. CASE StartStep /\ UNCHANGED kv
    <2>1. Owned(bm) /\ TablesFollow /\ error \notin Errors
      BY <1>0, <1>3 DEF StartStep
    <2>2. UNCHANGED <<bm, status, promptLen, error>> /\ ~outputs'.copy
      BY <1>3 DEF StartStep, NoOutputs
    <2> QED  BY <2>1, <2>2 DEF OwnInv, TablesFollow
  <1>4. CASE Admit /\ UNCHANGED kv
    <2> DEFINE r == Head(waiting)
    <2>1. Healthy /\ TablesFollow /\ ~outputs.copy
      BY <1>0, <1>4 DEF Admit, Healthy
    <2> HIDE DEF r
    <2>2. /\ r \in SeqId /\ status[r] = "WAITING"
          /\ status' = [status EXCEPT ![r] = "RUNNING"]
          /\ Owned(bm') /\ error' = "none" /\ OthersKept(r)
          /\ bm'.tables[r] # <<>> /\ Range(bm'.tables[r]) \subseteq GpuBlock
      BY <1>4, <2>1, AdmitEffect DEF r
    <2>3. UNCHANGED promptLen /\ ~outputs'.copy
      BY <1>4, <2>1 DEF Admit, TypeOK
    <2>4. TablesFollow'
      BY <2>1, <2>2, <2>3, FollowOne DEF Statuses, OthersKept
    <2> QED  BY <1>e, <2>2, <2>3, <2>4 DEF OwnInv
  <1>5. CASE Ignore /\ UNCHANGED kv
    <2> DEFINE r == Head(waiting)
    <2>1. /\ Alive /\ Queues /\ Owned(bm) /\ TablesFollow /\ ~outputs.copy
          /\ waiting # <<>> /\ error \notin Errors
      BY <1>0, <1>5 DEF Ignore
    <2>2. r \in SeqId /\ status[r] = "WAITING"
      BY <1>q, <2>1, TailQueue, HeadType DEF Queues
    <2> HIDE DEF r
    <2>3. bm.tables[r] = <<>>
      BY <2>1, <2>2 DEF TablesFollow
    <2>4. /\ status' = [status EXCEPT ![r] = "FINISHED_IGNORED"]
          /\ UNCHANGED <<bm, promptLen, error>> /\ ~outputs'.copy
      BY <1>5, <2>1 DEF Ignore, r, TypeOK
    <2>5. TablesFollow'
      BY <1>s, <2>1, <2>2, <2>3, <2>4, FollowOne DEF FinishedStatus
    <2> QED  BY <2>1, <2>4, <2>5 DEF OwnInv
  <1>6. CASE EndAdmit /\ UNCHANGED kv
    <2>1. Owned(bm) /\ TablesFollow /\ error \notin Errors /\ ~outputs.copy
      BY <1>0, <1>6 DEF EndAdmit
    <2>2. UNCHANGED <<bm, status, promptLen, error>> /\ ~outputs'.copy
      BY <1>6, <2>1 DEF EndAdmit, TypeOK
    <2> QED  BY <2>1, <2>2 DEF OwnInv, TablesFollow
  <1>7. CASE ReserveSlot /\ UNCHANGED kv
    <2> DEFINE r == Head(running)
    <2>1. Healthy /\ TablesFollow /\ ~outputs.copy
      BY <1>0, <1>7 DEF ReserveSlot, Healthy
    <2> HIDE DEF r
    <2>2. /\ r \in SeqId /\ status[r] = "RUNNING" /\ status' = status
          /\ Owned(bm') /\ error' = "none" /\ OthersKept(r) /\ Extended(r)
          /\ ~NeedsCopy(bm, r, LogicalBlocks(r))
      BY <1>7, <2>1, ReserveEffect DEF r
    <2>3. UNCHANGED promptLen /\ status' = [status EXCEPT ![r] = "RUNNING"]
      BY <1>7, <2>2 DEF ReserveSlot, TypeOK
    <2>4. ~outputs'.copy
      <3>1. outputs' = [outputs EXCEPT !.copy =
                          outputs.copy \/ NeedsCopy(bm, r, LogicalBlocks(r))]
        BY <1>7 DEF ReserveSlot, r
      <3> QED  BY <2>1, <2>2, <3>1 DEF TypeOK
    <2>5. TablesFollow'
      BY <2>1, <2>2, <2>3, FollowOne DEF Statuses, OthersKept, Extended
    <2> QED  BY <1>e, <2>2, <2>4, <2>5 DEF OwnInv
  <1>8. CASE Preempt /\ UNCHANGED kv
    <2> DEFINE r == running[Len(running)]
    <2>1. Alive /\ Healthy /\ TablesFollow /\ ~outputs.copy /\ UNCHANGED promptLen
      BY <1>0, <1>8 DEF Preempt, Healthy
    <2>2. ~outputs'.copy
      BY <1>8, <2>1 DEF Preempt, PreemptByRecompute, PreemptBySwap, TypeOK
    <2> HIDE DEF r
    <2>3. r \in SeqId /\ status[r] = "RUNNING"
      BY <1>8, <2>1, PreemptEffect DEF r
    <2>4. CASE /\ status' = [status EXCEPT ![r] = "WAITING"] /\ error' = "none"
               /\ Owned(bm') /\ OthersKept(r) /\ bm'.tables[r] = <<>>
      <3>1. TablesFollow'
        BY <2>1, <2>3, <2>4, FollowOne DEF Statuses, OthersKept
      <3> QED  BY <1>e, <2>2, <2>4, <3>1 DEF OwnInv
    <2>5. CASE /\ status' = [status EXCEPT ![r] = "SWAPPED"] /\ error' = "none"
               /\ Owned(bm') /\ OthersKept(r)
               /\ bm'.tables[r] # <<>> /\ Range(bm'.tables[r]) \subseteq CpuBlock
      <3>1. TablesFollow'
        BY <2>1, <2>3, <2>5, FollowOne DEF Statuses, OthersKept
      <3> QED  BY <1>e, <2>2, <2>5, <3>1 DEF OwnInv
    <2>6. CASE error' = "NoSwapSpace"
      BY <1>e, <2>2, <2>6 DEF OwnInv, Alive
    <2> QED  BY <1>8, <2>1, <2>4, <2>5, <2>6, PreemptEffect DEF r
  <1>9. CASE EndReserve /\ UNCHANGED kv
    <2>1. Owned(bm) /\ TablesFollow /\ error \notin Errors /\ ~outputs.copy
      BY <1>0, <1>9 DEF EndReserve
    <2>2. UNCHANGED <<bm, status, promptLen, error, outputs>>
      BY <1>9 DEF EndReserve
    <2> QED  BY <2>1, <2>2 DEF OwnInv, TablesFollow
  <1>10. CASE Resume /\ UNCHANGED kv
    <2> DEFINE r == Head(swapped)
    <2>1. Healthy /\ TablesFollow /\ ~outputs.copy
      BY <1>0, <1>10 DEF Resume, Healthy
    <2> HIDE DEF r
    <2>2. /\ r \in SeqId /\ status[r] = "SWAPPED"
          /\ status' = [status EXCEPT ![r] = "RUNNING"]
          /\ Owned(bm') /\ error' = "none" /\ OthersKept(r) /\ Extended(r)
          /\ ~outputs'.copy
      BY <1>10, <2>1, ResumeEffect DEF r
    <2>3. UNCHANGED promptLen
      BY <1>10 DEF Resume
    <2>4. TablesFollow'
      BY <2>1, <2>2, <2>3, FollowOne DEF Statuses, OthersKept, Extended
    <2> QED  BY <1>e, <2>2, <2>4 DEF OwnInv
  <1>11. CASE EndSchedule /\ UNCHANGED kv
    <2>1. Owned(bm) /\ TablesFollow /\ error \notin Errors /\ ~outputs.copy
      BY <1>0, <1>11 DEF EndSchedule
    <2>2. UNCHANGED <<bm, status, promptLen>> /\ error' \notin Errors /\ ~outputs'.copy
      BY <1>e, <1>11, <2>1 DEF EndSchedule, Raised, TypeOK
    <2> QED  BY <2>1, <2>2 DEF OwnInv, TablesFollow
  <1>12. CASE ExecuteModel
    <2>1. Healthy /\ TablesFollow
      BY <1>0, <1>12 DEF ExecuteModel, Healthy
    <2>2. /\ \A r \in Scheduled : /\ r \in SeqId /\ status[r] = "RUNNING"
                                 /\ status'[r] \in FinishedStatus \cup {"RUNNING"}
          /\ \A r \in SeqId \ Scheduled : status'[r] = status[r]
          /\ \A r \in SeqId : bm'.tables[r] = IF r \in Scheduled /\ status'[r] # "RUNNING"
                                              THEN <<>> ELSE bm.tables[r]
          /\ Owned(bm') /\ error' = "none"
      BY <1>12, <2>1, ExecuteEffect
    <2>3. UNCHANGED promptLen /\ ~outputs'.copy
      BY <1>12 DEF ExecuteModel, NoOutputs
    <2>4. TablesFollow'
      <3>1. \A r \in Scheduled : status'[r] # "RUNNING" =>
              /\ status'[r] \notin {"NEW", "RUNNING", "SWAPPED"} /\ bm'.tables[r] = <<>>
        BY <1>s, <2>2
      <3>2. \A r \in SeqId : ~(r \in Scheduled /\ status'[r] # "RUNNING") =>
              /\ status'[r] = status[r] /\ bm'.tables[r] = bm.tables[r]
        BY <2>2
      <3> QED  BY <2>1, <2>2, <2>3, <3>1, <3>2 DEF TablesFollow
    <2> QED  BY <1>e, <2>2, <2>3, <2>4 DEF OwnInv
  <1>13. CASE ExecuteNothing
    <2>1. Owned(bm) /\ TablesFollow /\ error \notin Errors
      BY <1>0, <1>13 DEF ExecuteNothing
    <2>2. UNCHANGED <<bm, status, promptLen>> /\ error' \notin Errors /\ ~outputs'.copy
      BY <1>e, <1>13, <2>1 DEF ExecuteNothing, Raised, NoOutputs
    <2> QED  BY <2>1, <2>2 DEF OwnInv, TablesFollow
  <1>14. CASE UNCHANGED vars
    BY <1>14 DEF vars, OwnInv, Alive, TablesFollow
  <1> QED
    BY <1>1, <1>2, <1>3, <1>4, <1>5, <1>6, <1>7, <1>8, <1>9, <1>10, <1>11, <1>12, <1>13,
       <1>14 DEF Next, Step, Schedule

-----------------------------------------------------------------------------
(* What the invariant gives, for every interleaving of requests, aborts    *)
(* and engine steps and every size of the memory and of the queues.        *)

LEMMA OwnAlways ==
  ASSUME PrefixFree, NoWindow
  PROVE  Spec => []OwnInv
  <1>1. Init => QueueInv /\ OwnInv
    BY QueueInit, OwnInit
  <1>2. TypeOK /\ QueueInv /\ OwnInv /\ [Next]_vars => QueueInv' /\ OwnInv'
    BY QueueStep, OwnStep
  <1> QED  BY <1>1, <1>2, TypeCorrect, PTL DEF Spec

LEMMA OwnedCounts ==
  ASSUME NEW c, Owned(c)
  PROVE  RefCountExact(c) /\ FreeIffUnreferenced(c)
  <1>1. \A b \in Block : c.ref[b] = IF Held(c, b) THEN 1 ELSE 0
    BY DEF Owned
  <1>2. \A b \in Block : Cardinality(Pins(c, b)) = 0
    <2>1. \A b \in Block : Pins(c, b) = {}
      BY EmptyQueue DEF Pins, Owned
    <2> QED  BY <2>1, FS_EmptySet
  <1>3. \A b \in Block : Cardinality(Holders(c, b)) = IF Held(c, b) THEN 1 ELSE 0
    <2> SUFFICES ASSUME NEW b \in Block
                 PROVE  Cardinality(Holders(c, b)) = IF Held(c, b) THEN 1 ELSE 0
      OBVIOUS
    <2>1. CASE ~Held(c, b)
      <3>1. Holders(c, b) = {}
        BY <2>1 DEF Held, Holders
      <3> QED  BY <2>1, <3>1, FS_EmptySet
    <2>2. CASE Held(c, b)
      <3>1. PICK s \in SeqId : b \in Range(c.tables[s])
        BY <2>2 DEF Held
      <3>2. Holders(c, b) = {s}
        BY <3>1 DEF Holders, Owned
      <3> QED  BY <2>2, <3>2, FS_Singleton
    <2> QED  BY <2>1, <2>2
  <1>4. RefCountExact(c)
    BY <1>1, <1>2, <1>3 DEF RefCountExact
  <1>5. FreeIffUnreferenced(c)
    BY <1>1 DEF FreeIffUnreferenced, Owned
  <1> QED  BY <1>4, <1>5

(* Reference counts are exact and a block is free iff nobody refers to it: *)
(* whatever ends a request, its blocks come back once and only once.       *)
THEOREM RefCountsCorrect ==
  ASSUME PrefixFree, NoWindow
  PROVE  Spec => []RefCounts
  <1>1. OwnInv => RefCounts
    BY OwnedCounts DEF OwnInv, RefCounts
  <1> QED  BY <1>1, OwnAlways, PTL

(* Running groups hold GPU blocks, swapped groups CPU blocks, and whoever  *)
(* waits or is finished has given back every block.                        *)
THEOREM BlocksFollowStatus ==
  ASSUME PrefixFree, NoWindow
  PROVE  Spec => []BlocksMatchStatus
  <1>1. OwnInv => BlocksMatchStatus
    BY DEF OwnInv, TablesFollow, BlocksMatchStatus
  <1> QED  BY <1>1, OwnAlways, PTL

(* step() never hands the worker a block to copy, and it may say so only   *)
(* because append_slot never meets a last block that somebody shares.      *)
THEOREM NothingIsCopied ==
  ASSUME PrefixFree, NoWindow
  PROVE  Spec => []NothingToCopy
  <1>1. OwnInv => NothingToCopy
    BY DEF OwnInv, NothingToCopy
  <1> QED  BY <1>1, OwnAlways, PTL

(* The can_* tests suffice: behind them no allocator is ever out of blocks *)
(* and no block is freed twice, so neither ValueError of block_manager.py  *)
(* comes out of step() or abort_request().                                 *)
THEOREM AllocatorsNeverRaise ==
  ASSUME PrefixFree, NoWindow
  PROVE  Spec => [](error \notin Errors)
  <1>1. OwnInv => error \notin Errors
    BY DEF OwnInv
  <1> QED  BY <1>1, OwnAlways, PTL

-----------------------------------------------------------------------------
(* Room for the tokens.  A running or swapped group lacks at most the slot *)
(* of the token it sampled last; a group that has been given a slot in     *)
(* this step lacks none; and without images it has no block to spare.      *)
Slots(r) == Len(bm.tables[r]) * BlockSize

HasSlot ==
  Range(reserved) \cup (IF phase = "swap" THEN Range(running)
                        ELSE IF phase \in {"admit", "execute"} THEN Scheduled ELSE {})

SlotsFit(r) ==
  status[r] \in {"RUNNING", "SWAPPED"} =>
    /\ ContextLen(r) <= Slots(r) + 1
    /\ r \in HasSlot => ContextLen(r) <= Slots(r)
    /\ ImgTokens = 0 => Slots(r) < SeqLen(r) + BlockSize

SlotInv == Alive => \A r \in SeqId : SlotsFit(r)

-----------------------------------------------------------------------------
LEMMA DivBounds ==
  ASSUME NEW x \in Nat, NEW k \in Nat \ {0}
  PROVE  (x \div k) * k <= x /\ x < (x \div k) * k + k
  OBVIOUS

LEMMA DivRange ==
  ASSUME NEW x \in Nat, NEW k \in Nat \ {0}, NEW n \in Nat, x < n * k
  PROVE  x \div k \in Nat /\ x \div k < n
  OBVIOUS

LEMMA MonotoneTimes ==
  ASSUME NEW a \in Nat, NEW b \in Nat, NEW k \in Nat, a <= b
  PROVE  a * k <= b * k
  OBVIOUS

LEMMA SuccTimes ==
  ASSUME NEW a \in Nat, NEW k \in Nat
  PROVE  (a + 1) * k = a * k + k /\ a * k \in Nat
  OBVIOUS

LEMMA LogicalBlocksFit ==
  ASSUME TypeOK, NEW r \in SeqId
  PROVE  /\ ContextLen(r) <= LogicalBlocks(r) * BlockSize
         /\ ImgTokens = 0 => LogicalBlocks(r) * BlockSize < SeqLen(r) + BlockSize
  <1> DEFINE x == SeqLen(r) + ImgTokens * (1 + outLen[r]) + BlockSize - 1
             n == LogicalBlocks(r)
  <1>1. SeqLen(r) \in Nat /\ n \in Nat
    BY LengthTypes
  <1>2. outLen[r] \in Nat /\ ImgTokens \in Nat /\ BlockSize \in Nat \ {0}
    BY SchedulerAssumption DEF TypeOK
  <1>3. ImgTokens * (1 + outLen[r]) \in Nat /\ ImgTokens <= ImgTokens * (1 + outLen[r])
    BY <1>2
  <1>4. x \in Nat /\ ContextLen(r) + BlockSize - 1 <= x
    BY <1>1, <1>2, <1>3 DEF ContextLen
  <1>5. n = x \div BlockSize
    BY DEF LogicalBlocks
  <1>6. ImgTokens = 0 => x = SeqLen(r) + BlockSize - 1
    BY <1>1, <1>2
  <1>7. ContextLen(r) \in Nat
    BY <1>1, <1>2 DEF ContextLen
  <1> HIDE DEF x, n
  <1>8. n * BlockSize <= x /\ x < n * BlockSize + BlockSize
    BY <1>2, <1>4, <1>5, DivBounds
  <1>9. n * BlockSize \in Nat
    BY <1>1, <1>2
  <1>10. ContextLen(r) <= n * BlockSize
    BY <1>2, <1>4, <1>7, <1>8, <1>9
  <1>11. ImgTokens = 0 => n * BlockSize < SeqLen(r) + BlockSize
    BY <1>1, <1>2, <1>6, <1>8, <1>9
  <1> QED  BY <1>10, <1>11 DEF n

-----------------------------------------------------------------------------
(* How the steps change the room of one request.                           *)

LEMMA FitsKept ==
  ASSUME NEW r \in SeqId, SlotsFit(r), bm'.tables[r] = bm.tables[r], SeqLen(r)' = SeqLen(r),
         status'[r] \in {"RUNNING", "SWAPPED"} => status[r] \in {"RUNNING", "SWAPPED"},
         r \in HasSlot' => r \in HasSlot
  PROVE  SlotsFit(r)'
  BY DEF SlotsFit, Slots, ContextLen

LEMMA FitsMoved ==
  ASSUME NEW r \in SeqId, SlotsFit(r), Len(bm'.tables[r]) = Len(bm.tables[r]),
         SeqLen(r)' = SeqLen(r), status[r] = "RUNNING", r \notin HasSlot'
  PROVE  SlotsFit(r)'
  BY DEF SlotsFit, Slots, ContextLen

LEMMA FitsNew ==
  ASSUME TypeOK, NEW r \in SeqId, UNCHANGED <<promptLen, outLen>>,
         Len(bm'.tables[r]) = LogicalBlocks(r)
  PROVE  SlotsFit(r)'
  <1>1. SeqLen(r)' = SeqLen(r) /\ ContextLen(r)' = ContextLen(r) /\ ContextLen(r) \in Nat
    BY LengthTypes, SchedulerAssumption DEF SeqLen, ContextLen
  <1>2. Slots(r)' = LogicalBlocks(r) * BlockSize /\ LogicalBlocks(r) * BlockSize \in Nat
    BY LengthTypes, SchedulerAssumption DEF Slots
  <1>3. ContextLen(r) <= Slots(r)' /\ ContextLen(r) <= Slots(r)' + 1
    BY <1>1, <1>2, LogicalBlocksFit
  <1>4. ImgTokens = 0 => Slots(r)' < SeqLen(r) + BlockSize
    BY <1>2, LogicalBlocksFit
  <1> QED  BY <1>1, <1>3, <1>4 DEF SlotsFit

LEMMA FitsExtended ==
  ASSUME TypeOK, NEW r \in SeqId, UNCHANGED <<promptLen, outLen>>,
         status[r] \in {"RUNNING", "SWAPPED"}, SlotsFit(r), Extended(r)
  PROVE  SlotsFit(r)'
  <1> DEFINE k == Len(bm.tables[r])
             n == LogicalBlocks(r)
  <1>1. SeqLen(r)' = SeqLen(r) /\ ContextLen(r)' = ContextLen(r)
        /\ ContextLen(r) \in Nat /\ SeqLen(r) \in Nat
    BY LengthTypes, SchedulerAssumption DEF SeqLen, ContextLen
  <1>2. k \in Nat /\ n \in Nat /\ BlockSize \in Nat \ {0}
    BY LengthTypes, LenProperties, SchedulerAssumption DEF TypeOK, BlockManagers
  <1>3. /\ k * BlockSize \in Nat /\ n * BlockSize \in Nat
        /\ (k + 1) * BlockSize = k * BlockSize + BlockSize
    BY <1>2, SuccTimes
  <1>4. /\ ContextLen(r) <= k * BlockSize + 1
        /\ ImgTokens = 0 => k * BlockSize < SeqLen(r) + BlockSize
    BY DEF SlotsFit, Slots
  <1>5. /\ ContextLen(r) <= n * BlockSize
        /\ ImgTokens = 0 => n * BlockSize < SeqLen(r) + BlockSize
    BY LogicalBlocksFit
  <1>6. Slots(r)' = (k + (IF k < n THEN 1 ELSE 0)) * BlockSize
    BY DEF Slots, Extended
  <1> HIDE DEF k, n
  <1>7. CASE k < n
    <2>1. k + 1 \in Nat /\ k + 1 <= n
      BY <1>2, <1>7
    <2>2. (k + 1) * BlockSize <= n * BlockSize
      BY <1>2, <2>1, MonotoneTimes
    <2>3. Slots(r)' = (k + 1) * BlockSize
      BY <1>2, <1>6, <1>7
    <2>4. ContextLen(r) <= Slots(r)' /\ ContextLen(r) <= Slots(r)' + 1
      BY <1>1, <1>2, <1>3, <1>4, <2>3
    <2>5. ImgTokens = 0 => Slots(r)' < SeqLen(r) + BlockSize
      BY <1>1, <1>2, <1>3, <1>5, <2>2, <2>3
    <2> QED  BY <1>1, <2>4, <2>5 DEF SlotsFit
  <1>8. CASE ~(k < n)
    <2>1. n * BlockSize <= k * BlockSize
      BY <1>2, <1>8, MonotoneTimes
    <2>2. Slots(r)' = k * BlockSize
      BY <1>2, <1>6, <1>8
    <2>3. ContextLen(r) <= Slots(r)' /\ ContextLen(r) <= Slots(r)' + 1
      BY <1>1, <1>3, <1>5, <2>1, <2>2
    <2> QED  BY <1>1, <1>4, <2>2, <2>3 DEF SlotsFit
  <1> QED  BY <1>7, <1>8

(* The token sampled for a group takes the slot it had, or lacks one.      *)
LEMMA FitsSampled ==
  ASSUME TypeOK, NEW r \in SeqId, status[r] = "RUNNING", SlotsFit(r), r \in HasSlot,
         promptLen' = promptLen, outLen'[r] = outLen[r] + 1,
         bm'.tables[r] = bm.tables[r], r \notin HasSlot'
  PROVE  SlotsFit(r)'
  <1>1. promptLen[r] \in Nat /\ outLen[r] \in Nat /\ ImgTokens \in Nat /\ BlockSize \in Nat
    BY SchedulerAssumption DEF TypeOK
  <1>2. SeqLen(r)' = SeqLen(r) + 1 /\ ContextLen(r)' = ContextLen(r) + 1
        /\ SeqLen(r) \in Nat /\ ContextLen(r) \in Nat
    BY <1>1 DEF SeqLen, ContextLen
  <1>3. Slots(r)' = Slots(r) /\ Slots(r) \in Nat
    BY <1>1, LenProperties DEF Slots, TypeOK, BlockManagers
  <1>4. ContextLen(r) <= Slots(r) /\ (ImgTokens = 0 => Slots(r) < SeqLen(r) + BlockSize)
    BY DEF SlotsFit
  <1> QED  BY <1>1, <1>2, <1>3, <1>4 DEF SlotsFit

LEMMA SlotInit == Init => SlotInv
  BY DEF Init, SchedulerInit, SlotInv, SlotsFit

(* Every step keeps SlotInv.                                               *)
LEMMA SlotStep ==
  ASSUME PrefixFree, NoWindow, TypeOK, QueueInv, OwnInv, SlotInv, [Next]_vars
  PROVE  SlotInv'
  <1> USE DEF seqVars, queueVars, loopVars
  <1>0. phase # "raised" => Alive /\ Healthy /\ \A r \in SeqId : SlotsFit(r)
    BY DEF QueueInv, ErrorPhase, Alive, OwnInv, SlotInv, Healthy
  <1>q. /\ running \in Seq(SeqId) /\ reserved \in Seq(SeqId)
        /\ outputs.scheduled \in Seq(SeqId) /\ status \in [SeqId -> Statuses]
    BY DEF TypeOK
  (* A step that leaves tables, statuses and lengths alone.                *)
  <1>k. ASSUME phase # "raised", UNCHANGED <<bm, promptLen, outLen>>, HasSlot' \subseteq HasSlot,
               \A r \in SeqId : status'[r] \in {"RUNNING", "SWAPPED"} =>
                                status[r] \in {"RUNNING", "SWAPPED"}
        PROVE  SlotInv'
    BY <1>0, <1>k, FitsKept DEF SlotInv, SeqLen
  (* A step that changes the table of one request.                         *)
  <1>o. ASSUME phase # "raised", UNCHANGED <<promptLen, outLen>>, NEW r \in SeqId, NEW st,
               status' = [status EXCEPT ![r] = st], OthersKept(r),
               HasSlot' \subseteq HasSlot \cup {r}, SlotsFit(r)'
        PROVE  SlotInv'
    <2> SUFFICES ASSUME NEW s \in SeqId PROVE SlotsFit(s)'
      BY DEF SlotInv
    <2>1. CASE s # r
      <3>1. status'[s] = status[s] /\ bm'.tables[s] = bm.tables[s] /\ SeqLen(s)' = SeqLen(s)
        BY <1>q, <1>o, <2>1 DEF OthersKept, SeqLen
      <3> QED  BY <1>0, <1>o, <2>1, <3>1, FitsKept
    <2> QED  BY <1>o, <2>1
  <1>1. ASSUME NEW r \in SeqId, NEW n \in PromptLens, AddRequest(r, n)
        PROVE  SlotInv'
    <2>1. HasSlot' = HasSlot
      BY <1>1 DEF AddRequest, HasSlot, Scheduled
    <2> SUFFICES ASSUME NEW s \in SeqId PROVE SlotsFit(s)'
      BY DEF SlotInv
    <2>2. CASE s = r
      BY <1>q, <1>1, <2>2 DEF AddRequest, SlotsFit
    <2>3. CASE s # r
      <3>1. status'[s] = status[s] /\ bm'.tables[s] = bm.tables[s] /\ SeqLen(s)' = SeqLen(s)
        BY <1>q, <1>1, <2>3 DEF AddRequest, SeqLen, TypeOK
      <3>2. SlotsFit(s)
        BY <1>0, <1>1 DEF AddRequest
      <3> QED  BY <2>1, <3>1, <3>2, FitsKept
    <2> QED  BY <2>2, <2>3
  <1>2. ASSUME NEW r \in SeqId, Abort(r)
        PROVE  SlotInv'
    <2>1. /\ status' = [status EXCEPT ![r] = "FINISHED_ABORTED"] /\ OthersKept(r)
          /\ phase # "raised" /\ UNCHANGED <<promptLen, outLen>>
      BY <1>0, <1>2, AbortEffect DEF Abort
    <2>2. HasSlot' \subseteq HasSlot \cup {r}
      BY <1>2 DEF Abort, HasSlot, Scheduled
    <2>3. SlotsFit(r)'
      BY <1>q, <2>1 DEF SlotsFit
    <2> QED  BY <1>o, <2>1, <2>2, <2>3
  <1>3. CASE StartStep /\ UNCHANGED kv
    <2>1. HasSlot' = {}
      BY <1>3, EmptyQueue DEF StartStep, BeginReserve, HasSlot, Scheduled, NoOutputs
    <2> QED  BY <1>3, <1>k, <2>1 DEF StartStep
  <1>4. CASE Admit /\ UNCHANGED kv
    <2>0. PICK r : r = Head(waiting)
      OBVIOUS
    <2>1. Healthy /\ phase = "admit" /\ UNCHANGED <<promptLen, outLen, reserved>>
      BY <1>0, <1>4 DEF Admit
    <2>2. /\ r \in SeqId /\ status' = [status EXCEPT ![r] = "RUNNING"] /\ phase' = "admit"
          /\ OthersKept(r) /\ Len(bm'.tables[r]) = LogicalBlocks(r)
      BY <2>0, <1>4, <2>1, AdmitEffect
    <2>3. Scheduled' = Scheduled \cup {r}
      <3>1. outputs'.scheduled = Append(outputs.scheduled, r)
        BY <1>4, <2>0 DEF Admit, TypeOK
      <3> QED  BY <1>q, <2>2, <3>1, AppendQueue DEF Scheduled
    <2>4. HasSlot' \subseteq HasSlot \cup {r}
      BY <2>1, <2>2, <2>3 DEF HasSlot
    <2>5. SlotsFit(r)'
      BY <2>1, <2>2, FitsNew
    <2> QED  BY <1>o, <2>1, <2>2, <2>4, <2>5
  <1>5. CASE Ignore /\ UNCHANGED kv
    <2>0. PICK r : r = Head(waiting)
      OBVIOUS
    <2>1. /\ phase = "admit" /\ UNCHANGED <<bm, promptLen, outLen, phase, reserved>>
          /\ status' = [status EXCEPT ![r] = "FINISHED_IGNORED"]
          /\ outputs'.scheduled = outputs.scheduled
      BY <1>5, <2>0 DEF Ignore, TypeOK
    <2>2. HasSlot' \subseteq HasSlot
      BY <2>1 DEF HasSlot, Scheduled
    <2>3. \A s \in SeqId : status'[s] \in {"RUNNING", "SWAPPED"} =>
                             status[s] \in {"RUNNING", "SWAPPED"}
      BY <1>q, <2>1
    <2> QED  BY <1>k, <2>1, <2>2, <2>3
  <1>6. CASE EndAdmit /\ UNCHANGED kv
    <2>1. /\ phase = "admit" /\ phase' \in {"execute", "reserve"}
          /\ UNCHANGED <<bm, status, promptLen, outLen, reserved>>
          /\ outputs'.scheduled = outputs.scheduled
      BY <1>6 DEF EndAdmit, BeginReserve, TypeOK
    <2>2. HasSlot' \subseteq HasSlot
      BY <2>1 DEF HasSlot, Scheduled
    <2> QED  BY <1>k, <2>1, <2>2
  <1>7. CASE ReserveSlot /\ UNCHANGED kv
    <2>0. PICK r : r = Head(running)
      OBVIOUS
    <2>1. Healthy /\ phase = "reserve" /\ UNCHANGED <<promptLen, outLen>>
          /\ reserved' = Append(reserved, r)
      BY <1>0, <1>7, <2>0 DEF ReserveSlot
    <2>2. /\ r \in SeqId /\ status[r] = "RUNNING" /\ status' = status /\ phase' = "reserve"
          /\ OthersKept(r) /\ Extended(r)
      BY <2>0, <1>7, <2>1, ReserveEffect
    <2>3. HasSlot' \subseteq HasSlot \cup {r}
      BY <1>q, <2>1, <2>2, AppendQueue DEF HasSlot
    <2>4. SlotsFit(r)'
      BY <1>0, <2>1, <2>2, FitsExtended
    <2>5. status' = [status EXCEPT ![r] = status[r]]
      BY <1>q, <2>2
    <2> QED  BY <1>o, <2>1, <2>2, <2>3, <2>4, <2>5
  <1>8. CASE Preempt /\ UNCHANGED kv
    <2>0. PICK r : r = running[Len(running)]
      OBVIOUS
    <2>1. Healthy /\ Alive /\ phase = "reserve" /\ UNCHANGED <<promptLen, outLen, reserved>>
      BY <1>0, <1>8 DEF Preempt
    <2>2. phase' \notin {"swap", "admit", "execute"}
      BY <1>8 DEF Preempt, PreemptByRecompute, PreemptBySwap, Apply, Raised
    <2>3. HasSlot' = Range(reserved) /\ HasSlot = Range(reserved)
      BY <2>1, <2>2 DEF HasSlot
    <2>4. r \notin Range(reserved)
      BY <1>q, <1>8, <2>0, <2>1, FrontQueue DEF Preempt, Healthy, Queues
    <2>5. r \in SeqId /\ status[r] = "RUNNING"
      BY <2>0, <1>8, <2>1, PreemptEffect
    <2>6. CASE /\ status' = [status EXCEPT ![r] = "WAITING"] /\ OthersKept(r)
      <3>1. SlotsFit(r)'
        BY <1>q, <2>5, <2>6 DEF SlotsFit
      <3> QED  BY <1>o, <2>1, <2>3, <2>5, <2>6, <3>1
    <2>7. CASE /\ status' = [status EXCEPT ![r] = "SWAPPED"] /\ OthersKept(r)
               /\ Len(bm'.tables[r]) = Len(bm.tables[r])
      <3>1. SlotsFit(r)'
        BY <1>0, <2>1, <2>3, <2>4, <2>5, <2>7, FitsMoved DEF SeqLen
      <3> QED  BY <1>o, <2>1, <2>3, <2>5, <2>7, <3>1
    <2>8. CASE error' = "NoSwapSpace"
      BY <2>8 DEF SlotInv, Alive
    <2> QED  BY <2>0, <1>8, <2>1, <2>6, <2>7, <2>8, PreemptEffect
  <1>9. CASE EndReserve /\ UNCHANGED kv
    <2>1. HasSlot' \subseteq HasSlot
      BY <1>9, EmptyQueue DEF EndReserve, HasSlot
    <2> QED  BY <1>9, <1>k, <2>1 DEF EndReserve
  <1>10. CASE Resume /\ UNCHANGED kv
    <2>0. PICK r : r = Head(swapped)
      OBVIOUS
    <2>1. Healthy /\ phase = "swap" /\ UNCHANGED <<promptLen, outLen, reserved>>
          /\ running' = Append(running, r)
      BY <1>0, <1>10, <2>0 DEF Resume
    <2>2. /\ r \in SeqId /\ status[r] = "SWAPPED" /\ status' = [status EXCEPT ![r] = "RUNNING"]
          /\ phase' = "swap" /\ OthersKept(r) /\ Extended(r)
      BY <2>0, <1>10, <2>1, ResumeEffect
    <2>3. HasSlot' \subseteq HasSlot \cup {r}
      BY <1>q, <2>1, <2>2, AppendQueue DEF HasSlot
    <2>4. SlotsFit(r)'
      BY <1>0, <2>1, <2>2, FitsExtended
    <2> QED  BY <1>o, <2>1, <2>2, <2>3, <2>4
  <1>11. CASE EndSchedule /\ UNCHANGED kv
    <2>1. phase = "swap" /\ UNCHANGED <<bm, status, promptLen, outLen, reserved>>
      BY <1>11 DEF EndSchedule, Raised
    <2>2. phase' = "raised" \/ (phase' = "execute" /\ outputs'.scheduled = running)
      BY <1>11 DEF EndSchedule, Raised, TypeOK
    <2>3. HasSlot' \subseteq HasSlot
      BY <2>1, <2>2 DEF HasSlot, Scheduled
    <2> QED  BY <1>k, <2>1, <2>3
  <1>12. CASE ExecuteModel
    <2>1. Healthy /\ phase = "execute" /\ UNCHANGED <<promptLen, reserved>>
      BY <1>0, <1>12 DEF ExecuteModel
    <2>2. /\ \A r \in Scheduled : r \in SeqId /\ status[r] = "RUNNING"
          /\ \A r \in SeqId \ Scheduled : status'[r] = status[r]
          /\ \A r \in SeqId : bm'.tables[r] = IF r \in Scheduled /\ status'[r] # "RUNNING"
                                              THEN <<>> ELSE bm.tables[r]
          /\ \A r \in Scheduled : status'[r] \in FinishedStatus \cup {"RUNNING"}
          /\ phase' = "idle"
      BY <1>12, <2>1, ExecuteEffect
    <2>3. HasSlot' = {} /\ Scheduled \subseteq HasSlot
      BY <2>1, <2>2, EmptyQueue DEF HasSlot, Healthy, Queues
    <2>4. \A r \in SeqId : outLen'[r] = IF r \in Scheduled THEN outLen[r] + 1 ELSE outLen[r]
      BY <1>12 DEF ExecuteModel
    <2> SUFFICES ASSUME NEW r \in SeqId PROVE SlotsFit(r)'
      BY DEF SlotInv
    <2>5. SlotsFit(r)
      BY <1>0, <2>1
    <2>6. CASE r \notin Scheduled
      <3>1. SeqLen(r)' = SeqLen(r)
        BY <2>1, <2>4, <2>6 DEF SeqLen
      <3> QED  BY <2>2, <2>3, <2>5, <2>6, <3>1, FitsKept
    <2>7. CASE r \in Scheduled /\ status'[r] = "RUNNING"
      BY <2>1, <2>2, <2>3, <2>4, <2>5, <2>7, FitsSampled
    <2>8. CASE r \in Scheduled /\ status'[r] # "RUNNING"
      BY <2>2, <2>8 DEF SlotsFit, FinishedStatus
    <2> QED  BY <2>6, <2>7, <2>8
  <1>13. CASE ExecuteNothing
    <2>1. phase = "execute" /\ UNCHANGED <<bm, status, promptLen, outLen, reserved>>
          /\ phase' \in {"raised", "idle"}
      BY <1>13 DEF ExecuteNothing, Raised
    <2>2. HasSlot' \subseteq HasSlot
      BY <2>1 DEF HasSlot
    <2> QED  BY <1>k, <2>1, <2>2
  <1>14. CASE UNCHANGED vars
    <2>1. /\ UNCHANGED <<bm, status, error>> /\ HasSlot' = HasSlot
          /\ \A r \in SeqId : SeqLen(r)' = SeqLen(r)
      BY <1>14 DEF vars, HasSlot, Scheduled, SeqLen
    <2> QED  BY <2>1, FitsKept DEF SlotInv, Alive
  <1> QED
    BY <1>1, <1>2, <1>3, <1>4, <1>5, <1>6, <1>7, <1>8, <1>9, <1>10, <1>11, <1>12, <1>13,
       <1>14 DEF Next, Step, Schedule

LEMMA SlotAlways ==
  ASSUME PrefixFree, NoWindow
  PROVE  Spec => [](TypeOK /\ QueueInv /\ OwnInv /\ SlotInv)
  <1>1. Init => QueueInv /\ OwnInv /\ SlotInv
    BY QueueInit, OwnInit, SlotInit
  <1>2. TypeOK /\ QueueInv /\ OwnInv /\ SlotInv /\ [Next]_vars
          => QueueInv' /\ OwnInv' /\ SlotInv'
    BY QueueStep, OwnStep, SlotStep
  <1> QED  BY <1>1, <1>2, TypeCorrect, PTL DEF Spec

(* The block of a position that has a slot is one of the table's own.      *)
LEMMA BlockOfSlot ==
  ASSUME TypeOK, NEW r \in SeqId, NEW pos \in Nat, pos < Slots(r)
  PROVE  /\ (pos \div BlockSize) + 1 \in 1 .. Len(bm.tables[r])
         /\ BlockAt(r, pos) \in Range(bm.tables[r])
         /\ BlockAt(r, pos) \in Block
  <1>1. /\ Len(bm.tables[r]) \in Nat /\ DOMAIN bm.tables[r] = 1 .. Len(bm.tables[r])
        /\ BlockSize \in Nat \ {0}
        /\ \A i \in DOMAIN bm.tables[r] : bm.tables[r][i] \in Block
    BY LenProperties, ElementOfSeq, SchedulerAssumption DEF TypeOK, BlockManagers
  <1>2. pos \div BlockSize \in Nat /\ pos \div BlockSize < Len(bm.tables[r])
    BY <1>1, DivRange DEF Slots
  <1>3. (pos \div BlockSize) + 1 \in 1 .. Len(bm.tables[r])
    BY <1>1, <1>2
  <1> QED  BY <1>1, <1>3 DEF BlockAt, Range

(* Every position the model writes has a slot.                             *)
LEMMA WrittenFits ==
  ASSUME TypeOK, QueueInv, OwnInv, SlotInv, phase = "execute",
         NEW r \in Scheduled, NEW pos \in WrittenPositions(r)
  PROVE  /\ r \in SeqId /\ status[r] = "RUNNING"
         /\ pos \in Nat /\ pos < Slots(r)
  <1>1. Alive /\ Queues
    BY DEF QueueInv, ErrorPhase, Alive
  <1>2. r \in SeqId /\ status[r] = "RUNNING" /\ r \in HasSlot
    BY <1>1 DEF Queues, Scheduled, HasSlot
  <1>3. ContextLen(r) <= Slots(r)
    BY <1>1, <1>2 DEF SlotInv, SlotsFit
  <1>4. promptLen[r] > 0 /\ promptLen[r] \in Nat
    BY <1>1, <1>2 DEF OwnInv, TablesFollow, TypeOK
  <1>5. ContextLen(r) \in Nat \ {0}
    <2>1. outLen[r] \in Nat /\ ImgTokens \in Nat
      BY <1>2, SchedulerAssumption DEF TypeOK
    <2>2. ContextLen(r) = promptLen[r] + outLen[r] + ImgTokens
      BY DEF ContextLen, SeqLen
    <2> QED  BY <1>4, <2>1, <2>2
  <1>6. pos \in Nat /\ pos < ContextLen(r)
    BY <1>5 DEF WrittenPositions
  <1>7. Slots(r) \in Nat
    BY <1>2, LenProperties, SchedulerAssumption DEF Slots, TypeOK, BlockManagers
  <1> QED  BY <1>2, <1>3, <1>5, <1>6, <1>7

(* Every position the model writes has a block, and nobody else refers to  *)
(* that block: a slot is reserved before each run, and tables never meet.  *)
THEOREM WritesExclusive ==
  ASSUME PrefixFree, NoWindow
  PROVE  Spec => []WritesAreExclusive
  <1>1. TypeOK /\ QueueInv /\ OwnInv /\ SlotInv => WritesAreExclusive
    <2> SUFFICES ASSUME TypeOK, QueueInv, OwnInv, SlotInv, phase = "execute",
                        NEW r \in Scheduled, NEW pos \in WrittenPositions(r)
                 PROVE  /\ pos < Slots(r)
                        /\ Holders(bm, BlockAt(r, pos)) = {r}
                        /\ Pins(bm, BlockAt(r, pos)) = {}
      BY DEF WritesAreExclusive, Slots
    <2>1. Alive /\ Queues /\ Owned(bm)
      BY DEF QueueInv, ErrorPhase, Alive, OwnInv
    <2>2. r \in SeqId /\ pos \in Nat /\ pos < Slots(r)
      BY WrittenFits
    <2>3. BlockAt(r, pos) \in Range(bm.tables[r])
      BY <2>2, BlockOfSlot
    <2>4. Holders(bm, BlockAt(r, pos)) = {r}
      BY <2>1, <2>2, <2>3 DEF Holders, Owned
    <2>5. Pins(bm, BlockAt(r, pos)) = {}
      BY <2>1, EmptyQueue DEF Pins, Owned
    <2> QED  BY <2>2, <2>4, <2>5
  <1> QED  BY <1>1, SlotAlways, PTL

(* Without images a group that runs holds no block beyond the one of its   *)
(* last token: the logical blocks count what the KV cache holds.           *)
THEOREM NoBlocksToSpare ==
  ASSUME PrefixFree, NoWindow, ImgTokens = 0
  PROVE  Spec => []NoSpareBlocks
  <1>1. TypeOK /\ QueueInv /\ OwnInv /\ SlotInv => NoSpareBlocks
    <2> SUFFICES ASSUME TypeOK, QueueInv, OwnInv, SlotInv, phase = "execute",
                        NEW r \in Scheduled
                 PROVE  (Len(bm.tables[r]) - 1) * BlockSize < ContextLen(r)
      BY DEF NoSpareBlocks
    <2>1. Alive /\ Queues
      BY DEF QueueInv, ErrorPhase, Alive
    <2>2. r \in SeqId /\ status[r] = "RUNNING"
      BY <2>1 DEF Queues, Scheduled
    <2>3. Slots(r) < SeqLen(r) + BlockSize
      BY <2>1, <2>2 DEF SlotInv, SlotsFit
    <2>4. /\ Len(bm.tables[r]) \in Nat /\ BlockSize \in Nat /\ SeqLen(r) \in Nat
          /\ ContextLen(r) = SeqLen(r)
      BY <2>2, LengthTypes, LenProperties, SchedulerAssumption
         DEF ContextLen, TypeOK, BlockManagers
    <2>5. (Len(bm.tables[r]) - 1) * BlockSize = Slots(r) - BlockSize /\ Slots(r) \in Nat
      BY <2>4 DEF Slots
    <2> QED  BY <2>3, <2>4, <2>5
  <1> QED  BY <1>1, SlotAlways, PTL

-----------------------------------------------------------------------------
(***************************************************************************)
(* The engine when every request samples one sequence (best_of = 1): then  *)
(* preemption is by recomputation only.                                    *)
(*                                                                         *)
(* Nothing is ever swapped out, and no step of the engine can raise: the   *)
(* allocators do not (see above), and the three other errors all need a    *)
(* group to be swapped.                                                    *)
(*                                                                         *)
(* And first come, first served.  The waiting queue is never sorted; that  *)
(* it is in order of arrival, and that everybody who runs came before      *)
(* everybody who waits, are two halves of one invariant: a group goes back *)
(* to the front of the queue only if it is the latest of those that run.   *)
(*                                                                         *)
(* And the KV cache: every block a decode run reads holds what its own     *)
(* sequence wrote there.                                                   *)
(***************************************************************************)
Greedy == \A r \in SeqId : BestOf[r] = 1

NoSwapInv == /\ Alive /\ swapped = <<>>
             /\ ~outputs.swapIn /\ ~outputs.swapOut

-----------------------------------------------------------------------------
LEMMA NobodyInQueue ==
  ASSUME NEW q \in Seq(SeqId), Range(q) = {}
  PROVE  q = <<>>
  BY TailQueue

LEMMA WidthIsOne ==
  ASSUME Greedy, NEW r \in SeqId, status[r] = "RUNNING"
  PROVE  MaxNumRunningSeqs(r) = 1
  BY DEF Greedy, MaxNumRunningSeqs, IsFinished, FinishedStatus

LEMMA ApplyRaises ==
  ASSUME NEW c, NEW next, Apply(c, next), TypeOK', error' \notin Errors
  PROVE  error' = "none"
  <1>1. bm' = c /\ error' = c.err /\ bm' \in BlockManagers
    BY DEF Apply, TypeOK
  <1>2. bm'.err \in Errors \cup {"none"}
    BY <1>1 DEF BlockManagers
  <1> QED  BY <1>1, <1>2

(* Every step keeps NoSwapInv.                                             *)
LEMMA NoSwapStep ==
  ASSUME PrefixFree, NoWindow, Greedy, TypeOK, QueueInv, OwnInv, NoSwapInv, [Next]_vars
  PROVE  NoSwapInv'
  <1> USE DEF seqVars, queueVars, loopVars
  <1>t. TypeOK' /\ error' \notin Errors
    BY TypeStep, OwnStep DEF OwnInv
  <1>i. /\ error = "none" /\ swapped = <<>> /\ ~outputs.copy
        /\ ~outputs.swapIn /\ ~outputs.swapOut /\ Queues
    BY DEF NoSwapInv, Alive, OwnInv, QueueInv
  <1>q. running \in Seq(SeqId) /\ swapped \in Seq(SeqId)
    BY DEF TypeOK
  <1>1. ASSUME NEW r \in SeqId, NEW n \in PromptLens, AddRequest(r, n)
        PROVE  NoSwapInv'
    BY <1>i, <1>1 DEF AddRequest, NoSwapInv, Alive
  <1>2. ASSUME NEW r \in SeqId, Abort(r)
        PROVE  NoSwapInv'
    <2>1. UNCHANGED <<error, outputs>> /\ swapped' \in Without(swapped, {r})
      BY <1>2 DEF Abort
    <2>2. swapped' \in Seq(SeqId) /\ Range(swapped') = Range(swapped) \ {r}
      BY <1>q, <2>1, WithoutProperties
    <2>3. swapped' = <<>>
      BY <1>i, <2>2, EmptyQueue, NobodyInQueue
    <2> QED  BY <1>i, <2>1, <2>3 DEF NoSwapInv, Alive
  <1>3. CASE StartStep /\ UNCHANGED kv
    BY <1>i, <1>3 DEF StartStep, NoOutputs, NoSwapInv, Alive
  <1>4. CASE Admit /\ UNCHANGED kv
    <2>1. error' = "none"
      BY <1>t, <1>4, ApplyRaises DEF Admit
    <2> QED  BY <1>i, <1>4, <2>1 DEF Admit, NoSwapInv, Alive, TypeOK
  <1>5. CASE Ignore /\ UNCHANGED kv
    BY <1>i, <1>5 DEF Ignore, NoSwapInv, Alive, TypeOK
  <1>6. CASE EndAdmit /\ UNCHANGED kv
    BY <1>i, <1>6 DEF EndAdmit, NoSwapInv, Alive, TypeOK
  <1>7. CASE ReserveSlot /\ UNCHANGED kv
    <2>1. error' = "none"
      BY <1>t, <1>7, ApplyRaises DEF ReserveSlot
    <2> QED  BY <1>i, <1>7, <2>1 DEF ReserveSlot, NoSwapInv, Alive, TypeOK
  <1>8. CASE Preempt /\ UNCHANGED kv
    <2> DEFINE r == running[Len(running)]
    <2>1. r \in SeqId /\ status[r] = "RUNNING"
      BY <1>i, <1>q, <1>8, FrontQueue, FrontType DEF Preempt, Queues
    <2>2. MaxNumRunningSeqs(r) = 1
      BY <2>1, WidthIsOne
    <2>3. PreemptByRecompute(r)
      BY <1>8, <2>2 DEF Preempt, PreemptBySwap
    <2> HIDE DEF r
    <2>4. error' = "none"
      BY <1>t, <2>3, ApplyRaises DEF PreemptByRecompute
    <2> QED  BY <1>i, <2>3, <2>4 DEF PreemptByRecompute, NoSwapInv, Alive
  <1>9. CASE EndReserve /\ UNCHANGED kv
    <2>1. UNCHANGED <<error, outputs>> /\ swapped' \in SortByPriority(swapped)
      BY <1>9 DEF EndReserve
    <2>2. swapped' \in Seq(SeqId) /\ Range(swapped') = Range(swapped)
      BY <1>q, <2>1, SortProperties
    <2>3. swapped' = <<>>
      BY <1>i, <2>2, EmptyQueue, NobodyInQueue
    <2> QED  BY <1>i, <2>1, <2>3 DEF NoSwapInv, Alive
  <1>10. CASE Resume /\ UNCHANGED kv
    BY <1>i, <1>10 DEF Resume
  <1>11. CASE EndSchedule /\ UNCHANGED kv
    BY <1>i, <1>11 DEF EndSchedule, NoSwapInv, Alive, TypeOK
  <1>12. CASE ExecuteModel
    <2>1. error' = "none"
      BY <1>t, <1>12, ApplyRaises DEF ExecuteModel
    <2> QED  BY <1>i, <1>12, <2>1 DEF ExecuteModel, NoOutputs, NoSwapInv, Alive
  <1>13. CASE ExecuteNothing
    BY <1>i, <1>13 DEF ExecuteNothing, NoOutputs, NoSwapInv, Alive
  <1>14. CASE UNCHANGED vars
    BY <1>14 DEF vars, NoSwapInv, Alive
  <1> QED
    BY <1>1, <1>2, <1>3, <1>4, <1>5, <1>6, <1>7, <1>8, <1>9, <1>10, <1>11, <1>12, <1>13,
       <1>14 DEF Next, Step, Schedule

LEMMA NoSwapAlways ==
  ASSUME PrefixFree, NoWindow, Greedy
  PROVE  Spec => [](TypeOK /\ QueueInv /\ OwnInv /\ NoSwapInv)
  <1>1. Init => QueueInv /\ OwnInv /\ NoSwapInv
    <2>1. Init => NoSwapInv
      BY DEF Init, SchedulerInit, NoOutputs, NoSwapInv, Alive
    <2> QED  BY <2>1, QueueInit, OwnInit
  <1>2. TypeOK /\ QueueInv /\ OwnInv /\ NoSwapInv /\ [Next]_vars
          => QueueInv' /\ OwnInv' /\ NoSwapInv'
    BY QueueStep, OwnStep, NoSwapStep
  <1> QED  BY <1>1, <1>2, TypeCorrect, PTL DEF Spec

(* step() raises nothing while every request samples one sequence: neither *)
(* an allocator, nor a preemption without swap space, nor swaps in both    *)
(* directions, nor a model run without input.                              *)
THEOREM StepRaisesNothing ==
  ASSUME PrefixFree, NoWindow, Greedy
  PROVE  Spec => []NoStepError
  <1>1. NoSwapInv => NoStepError
    BY DEF NoSwapInv, NoStepError
  <1> QED  BY <1>1, NoSwapAlways, PTL

-----------------------------------------------------------------------------
(* Order of arrival.                                                       *)

Ascending(a, q) == \A i, j \in DOMAIN q : i < j => a[q[i]] < a[q[j]]

Known == {r \in SeqId : status[r] # "NEW"}

Arrivals ==
  /\ \A r, q \in Known : r # q => arrival[r] # arrival[q]
  /\ \A r \in Known : arrival[r] < Cardinality(Known)

RunningFirst ==
  \A r, w \in SeqId :
    status[r] = "RUNNING" /\ status[w] = "WAITING" => arrival[r] < arrival[w]

InReserve ==
  phase = "reserve" =>
    /\ Ascending(arrival, running)
    /\ \A r \in Range(reserved), q \in Range(running) : arrival[r] < arrival[q]

(* Whoever is preempted, and by whichever means.                           *)
ReserveInv == Arrivals /\ InReserve

(* While preemption is by recomputation.                                   *)
OrderInv == swapped = <<>> /\ Ascending(arrival, waiting) /\ RunningFirst

-----------------------------------------------------------------------------
(* Queues in order.                                                        *)

LEMMA AscendingTail ==
  ASSUME NEW a, NEW q \in Seq(SeqId), q # <<>>, Ascending(a, q)
  PROVE  /\ Ascending(a, Tail(q))
         /\ \A r \in Range(Tail(q)) : a[Head(q)] < a[r]
  <1> DEFINE p == Tail(q)
  <1>1. /\ p \in Seq(SeqId) /\ Len(p) = Len(q) - 1
        /\ \A i \in 1 .. Len(p) : p[i] = q[i + 1]
    BY HeadTailProperties
  <1>2. /\ Len(q) \in Nat \ {0} /\ DOMAIN q = 1 .. Len(q) /\ DOMAIN p = 1 .. Len(q) - 1
    BY <1>1, LenProperties, EmptySeq
  <1>3. Head(q) = q[1] /\ 1 \in DOMAIN q
    BY <1>2, HeadTailProperties
  <1> HIDE DEF p
  <1>4. \A i \in DOMAIN p : i + 1 \in DOMAIN q /\ 1 < i + 1 /\ p[i] = q[i + 1]
    BY <1>1, <1>2
  <1>5. \A i, j \in DOMAIN p : i < j => i + 1 < j + 1
    BY <1>2
  <1>6. Ascending(a, p)
    BY <1>4, <1>5 DEF Ascending
  <1>7. \A r \in Range(p) : a[Head(q)] < a[r]
    BY <1>3, <1>4 DEF Ascending, Range
  <1> QED  BY <1>6, <1>7 DEF p

LEMMA AscendingFront ==
  ASSUME NEW a, NEW q \in Seq(SeqId), q # <<>>, Ascending(a, q)
  PROVE  /\ Ascending(a, Front(q))
         /\ \A r \in Range(Front(q)) : a[r] < a[q[Len(q)]]
  <1> DEFINE p == Front(q)
             n == Len(q)
  <1>1. n \in Nat \ {0} /\ DOMAIN q = 1 .. n
    BY LenProperties, EmptySeq
  <1>2. \A i \in 1 .. n : q[i] \in SeqId
    BY ElementOfSeq
  <1>3. /\ p \in Seq(SeqId) /\ Len(p) = n - 1
        /\ \A i \in 1 .. n - 1 : p[i] = q[i]
    BY <1>1, <1>2, SubSeqProperties DEF Front
  <1>4. DOMAIN p = 1 .. n - 1
    BY <1>3, LenProperties
  <1> HIDE DEF p, n
  <1>5. \A i \in DOMAIN p : i \in DOMAIN q /\ i < n /\ p[i] = q[i]
    BY <1>1, <1>3, <1>4
  <1>6. n \in DOMAIN q
    BY <1>1
  <1>7. Ascending(a, p)
    BY <1>5 DEF Ascending
  <1>8. \A r \in Range(p) : a[r] < a[q[n]]
    BY <1>5, <1>6 DEF Ascending, Range
  <1> QED  BY <1>7, <1>8 DEF p, n

LEMMA AscendingAppend ==
  ASSUME NEW a, NEW q \in Seq(SeqId), NEW r \in SeqId, Ascending(a, q),
         \A s \in Range(q) : a[s] < a[r]
  PROVE  Ascending(a, Append(q, r))
  <1> DEFINE p == Append(q, r)
             n == Len(q)
  <1>1. /\ p \in Seq(SeqId) /\ Len(p) = n + 1 /\ p[n + 1] = r
        /\ \A i \in 1 .. n : p[i] = q[i]
    BY AppendProperties
  <1>2. n \in Nat /\ DOMAIN q = 1 .. n /\ DOMAIN p = 1 .. n + 1
    BY <1>1, LenProperties
  <1> HIDE DEF p, n
  <1> SUFFICES ASSUME NEW i \in DOMAIN p, NEW j \in DOMAIN p, i < j
               PROVE  a[p[i]] < a[p[j]]
    BY DEF Ascending, p
  <1>3. i \in 1 .. n
    BY <1>2
  <1>4. CASE j \in 1 .. n
    BY <1>1, <1>2, <1>3, <1>4 DEF Ascending
  <1>5. CASE j \notin 1 .. n
    <2>1. j = n + 1
      BY <1>2, <1>5
    <2>2. p[i] \in Range(q)
      BY <1>1, <1>2, <1>3 DEF Range
    <2> QED  BY <1>1, <2>1, <2>2
  <1> QED  BY <1>4, <1>5

LEMMA AscendingPush ==
  ASSUME NEW a, NEW q \in Seq(SeqId), NEW r \in SeqId, Ascending(a, q),
         \A s \in Range(q) : a[r] < a[s]
  PROVE  Ascending(a, <<r>> \o q)
  <1> DEFINE p == <<r>> \o q
             n == Len(q)
  <1>1. n \in Nat /\ DOMAIN q = 1 .. n
    BY LenProperties
  <1>2. <<r>> \in Seq(SeqId) /\ Len(<<r>>) = 1 /\ <<r>>[1] = r
    OBVIOUS
  <1>3. p \in Seq(SeqId) /\ Len(p) = 1 + n
        /\ \A i \in 1 .. 1 + n : p[i] = IF i <= 1 THEN <<r>>[i] ELSE q[i - 1]
    BY <1>2, ConcatProperties
  <1>4. DOMAIN p = 1 .. 1 + n
    BY <1>3, LenProperties
  <1> HIDE DEF p, n
  <1>5. p[1] = r /\ \A i \in 2 .. 1 + n : i - 1 \in DOMAIN q /\ p[i] = q[i - 1]
    BY <1>1, <1>2, <1>3
  <1> SUFFICES ASSUME NEW i \in DOMAIN p, NEW j \in DOMAIN p, i < j
               PROVE  a[p[i]] < a[p[j]]
    BY DEF Ascending, p
  <1>6. j \in 2 .. 1 + n /\ j - 1 \in DOMAIN q /\ p[j] = q[j - 1]
    BY <1>1, <1>4, <1>5
  <1>7. CASE i = 1
    BY <1>5, <1>6, <1>7 DEF Range
  <1>8. CASE i # 1
    <2>1. i \in 2 .. 1 + n /\ i - 1 < j - 1
      BY <1>1, <1>4, <1>8
    <2> QED  BY <1>5, <1>6, <2>1 DEF Ascending
  <1> QED  BY <1>7, <1>8

LEMMA AscendingWithout ==
  ASSUME NEW a, NEW q \in Seq(SeqId), NEW S, NEW p \in Without(q, S), Ascending(a, q)
  PROVE  Ascending(a, p)
  <1>1. IsInjective(p) /\ Range(p) = Range(q) \ S /\ p \in Seq(SeqId)
    BY WithoutProperties
  <1>2. DOMAIN q \subseteq Nat /\ DOMAIN p \subseteq Nat
    BY <1>1, LenProperties
  <1>3. \A i, j \in DOMAIN q : i < j /\ q[i] \notin S /\ q[j] \notin S =>
           \E k, l \in DOMAIN p : k < l /\ p[k] = q[i] /\ p[l] = q[j]
    BY DEF Without
  <1> SUFFICES ASSUME NEW k \in DOMAIN p, NEW l \in DOMAIN p, k < l
               PROVE  a[p[k]] < a[p[l]]
    BY DEF Ascending
  <1>4. PICK i \in DOMAIN q : p[k] = q[i] /\ q[i] \notin S
    BY <1>1 DEF Range
  <1>5. PICK j \in DOMAIN q : p[l] = q[j] /\ q[j] \notin S
    BY <1>1 DEF Range
  <1>6. CASE i < j
    BY <1>4, <1>5, <1>6 DEF Ascending
  <1>7. CASE i = j
    BY <1>1, <1>2, <1>4, <1>5, <1>7 DEF IsInjective
  <1>8. CASE j < i
    <2>1. PICK m, n \in DOMAIN p : m < n /\ p[m] = q[j] /\ p[n] = q[i]
      BY <1>3, <1>4, <1>5, <1>8
    <2>2. m = l /\ n = k
      BY <1>1, <1>4, <1>5, <2>1 DEF IsInjective
    <2> QED  BY <1>2, <2>1, <2>2
  <1> QED  BY <1>2, <1>6, <1>7, <1>8

LEMMA AscendingSort ==
  ASSUME TypeOK, Arrivals, NEW q \in Seq(SeqId), NEW p \in SortByPriority(q),
         Range(q) \subseteq Known
  PROVE  Ascending(arrival, p)
  <1>1. p \in Seq(SeqId) /\ Range(p) = Range(q) /\ IsInjective(p)
    BY SortProperties
  <1>2. \A i, j \in DOMAIN p : i < j => arrival[p[i]] <= arrival[p[j]]
    BY DEF SortByPriority
  <1>3. DOMAIN p \subseteq Nat
    BY <1>1, LenProperties
  <1> SUFFICES ASSUME NEW i \in DOMAIN p, NEW j \in DOMAIN p, i < j
               PROVE  arrival[p[i]] < arrival[p[j]]
    BY DEF Ascending
  <1>4. p[i] \in Known /\ p[j] \in Known
    BY <1>1 DEF Range
  <1>5. p[i] # p[j]
    BY <1>1, <1>3 DEF IsInjective
  <1>6. arrival[p[i]] \in Nat /\ arrival[p[j]] \in Nat
    BY <1>4 DEF Known, TypeOK
  <1>7. arrival[p[i]] # arrival[p[j]]
    BY <1>4, <1>5 DEF Arrivals
  <1> QED  BY <1>2, <1>6, <1>7

-----------------------------------------------------------------------------
(* What the steps of the invariant share.                                  *)

LEMMA ArrivalsKept ==
  ASSUME Arrivals, arrival' = arrival, \A r \in SeqId : status'[r] = "NEW" <=> status[r] = "NEW"
  PROVE  Arrivals'
  <1>1. Known' = Known
    BY DEF Known
  <1> QED  BY <1>1 DEF Arrivals

LEMMA OneRuns ==
  ASSUME TypeOK, NEW r \in SeqId, NEW st \in Statuses, st # "NEW", status[r] # "NEW",
         status' = [status EXCEPT ![r] = st]
  PROVE  /\ \A q \in SeqId : status'[q] = IF q = r THEN st ELSE status[q]
         /\ \A q \in SeqId : status'[q] = "NEW" <=> status[q] = "NEW"
  BY DEF TypeOK

LEMMA ReserveInit == Init => ReserveInv
  <1> SUFFICES ASSUME Init PROVE ReserveInv
    OBVIOUS
  <1>1. Known = {} /\ phase = "idle"
    BY DEF Init, SchedulerInit, Known
  <1> QED  BY <1>1 DEF ReserveInv, Arrivals, InReserve

(* Preempt takes the last of `running`, by swapping, by recomputation, or  *)
(* in vain; all other running groups came before it.                       *)
LEMMA VictimIsLatest ==
  ASSUME TypeOK, QueueInv, InReserve, Preempt
  PROVE  \E r \in SeqId :
           /\ r = running[Len(running)] /\ status[r] = "RUNNING"
           /\ \E st \in {"WAITING", "SWAPPED", "RUNNING"} : status' = [status EXCEPT ![r] = st]
           /\ Range(Front(running)) = Range(running) \ {r} /\ Ascending(arrival, Front(running))
           /\ \A q \in SeqId \ {r} : status[q] = "RUNNING" => arrival[q] < arrival[r]
  <1> DEFINE r == running[Len(running)]
  <1>1. phase = "reserve" /\ running # <<>>
    BY DEF Preempt
  <1>i. /\ Queues /\ running \in Seq(SeqId) /\ status \in [SeqId -> Statuses]
        /\ Ascending(arrival, running)
        /\ \A u \in Range(reserved), q \in Range(running) : arrival[u] < arrival[q]
    BY <1>1 DEF QueueInv, ErrorPhase, Alive, TypeOK, InReserve
  <1>2. /\ r \in Range(running) /\ r \in SeqId /\ status[r] = "RUNNING"
        /\ Range(Front(running)) = Range(running) \ {r}
    BY <1>i, <1>1, FrontQueue, FrontType DEF Queues
  <1>3. /\ Ascending(arrival, Front(running))
        /\ \A q \in Range(Front(running)) : arrival[q] < arrival[r]
    BY <1>i, <1>1, AscendingFront
  <1>4. PreemptByRecompute(r) \/ PreemptBySwap(r)
    BY DEF Preempt
  <1> HIDE DEF r
  <1>5. \E st \in {"WAITING", "SWAPPED", "RUNNING"} : status' = [status EXCEPT ![r] = st]
    <2>1. CASE PreemptByRecompute(r)
      BY <2>1 DEF PreemptByRecompute
    <2>2. CASE PreemptBySwap(r)
      <3>1. status = [status EXCEPT ![r] = "RUNNING"]
        BY <1>2, <1>i
      <3> QED  BY <2>2, <3>1 DEF PreemptBySwap
    <2> QED  BY <1>4, <2>1, <2>2
  <1>6. ASSUME NEW q \in SeqId \ {r}, status[q] = "RUNNING"
        PROVE  arrival[q] < arrival[r]
    <2>1. q \in Range(Front(running)) \/ q \in Range(reserved)
      BY <1>i, <1>2, <1>6 DEF Queues
    <2> QED  BY <1>i, <1>2, <1>3, <2>1
  <1> QED  BY <1>2, <1>3, <1>5, <1>6 DEF r

(* Every step keeps ReserveInv: swapping changes nothing about the order   *)
(* in which slots are given and taken.                                     *)
LEMMA ReserveStep ==
  ASSUME PrefixFree, TypeOK, QueueInv, ReserveInv, [Next]_vars
  PROVE  ReserveInv'
  <1> USE DEF seqVars, queueVars, loopVars
  <1>i. Arrivals /\ InReserve /\ (phase # "raised" => Queues)
    BY DEF QueueInv, ReserveInv, ErrorPhase, Alive
  <1>q. /\ waiting \in Seq(SeqId) /\ running \in Seq(SeqId) /\ reserved \in Seq(SeqId)
        /\ swapped \in Seq(SeqId)
        /\ status \in [SeqId -> Statuses] /\ arrival \in [SeqId -> Nat]
    BY DEF TypeOK
  <1>s. \A st \in FinishedStatus : st \in Statuses /\ st # "NEW"
    BY DEF FinishedStatus, Statuses
  <1>1. ASSUME NEW r \in SeqId, NEW n \in PromptLens, AddRequest(r, n)
        PROVE  ReserveInv'
    <2> DEFINE k == Cardinality(Known)
    <2>1. /\ status[r] = "NEW" /\ phase' = "idle"
          /\ arrival' = [arrival EXCEPT ![r] = k]
      BY <1>1 DEF AddRequest, Known
    <2>2. k \in Nat /\ IsFiniteSet(Known) /\ r \notin Known
      BY <2>1, BlocksAreFinite, FS_Subset, FS_CardinalityType DEF Known
    <2>3. \A q \in SeqId : arrival'[q] = IF q = r THEN k ELSE arrival[q]
      BY <1>q, <2>1
    <2>4. PICK st \in {"WAITING", "REJECTED"} : status' = [status EXCEPT ![r] = st]
      BY <1>1 DEF AddRequest
    <2>5. \A q \in SeqId : status'[q] = IF q = r THEN st ELSE status[q]
      BY <1>q, <2>4
    <2>6. Known' = Known \cup {r}
      BY <2>4, <2>5 DEF Known
    <2>7. Cardinality(Known') = k + 1
      BY <2>2, <2>6, FS_AddElement
    <2> HIDE DEF k
    <2>8. \A q \in Known : arrival'[q] = arrival[q] /\ arrival[q] < k /\ arrival[q] \in Nat
      BY <1>i, <1>q, <2>1, <2>3 DEF Arrivals, Known, k
    <2>9. Arrivals'
      BY <1>i, <2>2, <2>3, <2>6, <2>7, <2>8 DEF Arrivals
    <2> QED  BY <2>1, <2>9 DEF ReserveInv, InReserve
  <1>2. ASSUME NEW r \in SeqId, Abort(r)
        PROVE  ReserveInv'
    <2>1. /\ status[r] # "NEW" /\ status' = [status EXCEPT ![r] = "FINISHED_ABORTED"]
          /\ arrival' = arrival /\ phase' # "reserve"
      BY <1>2 DEF Abort, Apply
    <2>2. \A q \in SeqId : status'[q] = "NEW" <=> status[q] = "NEW"
      BY <2>1, OneRuns DEF Statuses, FinishedStatus
    <2> QED  BY <1>i, <2>1, <2>2, ArrivalsKept DEF ReserveInv, InReserve
  <1>r. ASSUME BeginReserve, UNCHANGED <<status, arrival>>, reserved' = <<>>, Queues
        PROVE  ReserveInv'
    <2>1. Range(running) \subseteq Known
      BY <1>r DEF Queues, Known
    <2>2. Ascending(arrival, running')
      BY <1>i, <1>q, <1>r, <2>1, AscendingSort DEF BeginReserve
    <2>3. Range(reserved') = {}
      BY <1>r, EmptyQueue
    <2>4. Arrivals'
      BY <1>i, <1>r, ArrivalsKept
    <2> QED  BY <1>r, <2>2, <2>3, <2>4 DEF ReserveInv, InReserve
  <1>o. ASSUME arrival' = arrival, phase' # "reserve",
               \A r \in SeqId : status'[r] = "NEW" <=> status[r] = "NEW"
        PROVE  ReserveInv'
    BY <1>i, <1>o, ArrivalsKept DEF ReserveInv, InReserve
  <1>h. ASSUME NEW q \in {waiting, swapped}, q # <<>>, NEW st \in {"RUNNING", "FINISHED_IGNORED"},
               status' = [status EXCEPT ![Head(q)] = st], arrival' = arrival,
               phase' # "reserve", Queues
        PROVE  ReserveInv'
    <2>1. Head(q) \in SeqId /\ status[Head(q)] # "NEW"
      <3>1. q \in Seq(SeqId) /\ \A r \in Range(q) : r \in SeqId /\ status[r] # "NEW"
        BY <1>q, <1>h DEF Queues
      <3>2. Head(q) \in Range(q)
        BY <1>h, <3>1, TailQueue, HeadType
      <3> QED  BY <3>1, <3>2
    <2>2. \A r \in SeqId : status'[r] = "NEW" <=> status[r] = "NEW"
      BY <1>h, <2>1, OneRuns DEF Statuses, FinishedStatus
    <2> QED  BY <1>h, <1>o, <2>2
  <1>3. CASE StartStep /\ UNCHANGED kv
    <2>1. UNCHANGED <<status, arrival>> /\ reserved' = <<>> /\ Queues
      BY <1>i, <1>3 DEF StartStep
    <2>2. BeginReserve \/ phase' = "admit"
      BY <1>3 DEF StartStep
    <2> QED  BY <1>o, <1>r, <2>1, <2>2
  <1>4. CASE Admit /\ UNCHANGED kv
    <2>1. /\ waiting # <<>> /\ arrival' = arrival /\ phase' # "reserve" /\ Queues
          /\ status' = [status EXCEPT ![Head(waiting)] = "RUNNING"]
      BY <1>i, <1>4 DEF Admit, Apply
    <2> QED  BY <1>h, <2>1
  <1>5. CASE Ignore /\ UNCHANGED kv
    <2>1. /\ waiting # <<>> /\ arrival' = arrival /\ phase' # "reserve" /\ Queues
          /\ status' = [status EXCEPT ![Head(waiting)] = "FINISHED_IGNORED"]
      BY <1>i, <1>5 DEF Ignore
    <2> QED  BY <1>h, <2>1
  <1>6. CASE EndAdmit /\ UNCHANGED kv
    <2>1. UNCHANGED <<status, arrival, reserved>> /\ reserved = <<>> /\ Queues
      BY <1>i, <1>6 DEF EndAdmit, Queues
    <2>2. BeginReserve \/ phase' = "execute"
      BY <1>6 DEF EndAdmit
    <2> QED  BY <1>o, <1>r, <2>1, <2>2
  <1>7. CASE ReserveSlot /\ UNCHANGED kv
    <2> DEFINE r == Head(running)
    <2>1. /\ phase = "reserve" /\ running # <<>> /\ arrival' = arrival
          /\ status' = status /\ Queues
          /\ running' = Tail(running) /\ reserved' = Append(reserved, r)
      BY <1>i, <1>7 DEF ReserveSlot
    <2>2. /\ r \in Range(running) /\ r \in SeqId
          /\ Range(Tail(running)) = Range(running) \ {r}
      BY <1>q, <2>1, TailQueue, HeadType DEF Queues
    <2>3. /\ Ascending(arrival, Tail(running))
          /\ \A q \in Range(Tail(running)) : arrival[r] < arrival[q]
      BY <1>i, <1>q, <2>1, AscendingTail DEF InReserve
    <2> HIDE DEF r
    <2>4. Range(reserved') = Range(reserved) \cup {r}
      BY <1>q, <2>1, <2>2, AppendQueue
    <2>5. \A u \in Range(reserved'), q \in Range(running') : arrival[u] < arrival[q]
      BY <1>i, <2>1, <2>2, <2>3, <2>4 DEF InReserve
    <2>6. InReserve'
      BY <2>1, <2>3, <2>5 DEF InReserve
    <2> QED  BY <1>i, <2>1, <2>6, ArrivalsKept DEF ReserveInv
  <1>8. CASE Preempt /\ UNCHANGED kv
    <2>1. phase = "reserve" /\ UNCHANGED <<arrival, reserved>> /\ running' = Front(running)
      BY <1>8 DEF Preempt
    <2>2. PICK r \in SeqId :
            /\ status[r] = "RUNNING"
            /\ \E st \in {"WAITING", "SWAPPED", "RUNNING"} : status' = [status EXCEPT ![r] = st]
            /\ Range(Front(running)) = Range(running) \ {r} /\ Ascending(arrival, Front(running))
      BY <1>i, <1>8, VictimIsLatest
    <2>3. \A q \in SeqId : status'[q] = "NEW" <=> status[q] = "NEW"
      BY <2>2, OneRuns DEF Statuses
    <2>4. InReserve'
      BY <1>i, <2>1, <2>2 DEF InReserve
    <2> QED  BY <1>i, <2>1, <2>3, <2>4, ArrivalsKept DEF ReserveInv
  <1>9. CASE EndReserve /\ UNCHANGED kv
    BY <1>o, <1>9 DEF EndReserve
  <1>10. CASE Resume /\ UNCHANGED kv
    <2>1. /\ swapped # <<>> /\ arrival' = arrival /\ phase' # "reserve" /\ Queues
          /\ status' = [status EXCEPT ![Head(swapped)] = "RUNNING"]
      BY <1>i, <1>10 DEF Resume, Apply
    <2> QED  BY <1>h, <2>1
  <1>11. CASE EndSchedule /\ UNCHANGED kv
    BY <1>o, <1>11 DEF EndSchedule, Raised
  <1>12. CASE ExecuteModel
    <2>1. arrival' = arrival /\ phase' # "reserve" /\ Queues
      BY <1>i, <1>12 DEF ExecuteModel, Apply
    <2>2. \A r \in Scheduled : r \in SeqId /\ status[r] # "NEW"
      BY <1>12, <2>1 DEF ExecuteModel, Scheduled, Queues
    <2>3. PICK token \in [Scheduled -> Tokens] :
            status' = [r \in SeqId |-> IF r \in Scheduled THEN CheckStop(r, token[r])
                                      ELSE status[r]]
      BY <1>12 DEF ExecuteModel
    <2>4. \A r \in SeqId : CheckStop(r, token[r]) # "NEW"
      BY DEF CheckStop
    <2>5. \A r \in SeqId : status'[r] = "NEW" <=> status[r] = "NEW"
      BY <2>2, <2>3, <2>4
    <2> QED  BY <1>o, <2>1, <2>5
  <1>13. CASE ExecuteNothing
    BY <1>o, <1>13 DEF ExecuteNothing, Raised
  <1>14. CASE UNCHANGED vars
    <2>1. UNCHANGED <<arrival, status, phase, running, reserved>>
      BY <1>14 DEF vars
    <2> QED  BY <1>i, <2>1 DEF ReserveInv, Arrivals, Known, InReserve
  <1> QED
    BY <1>1, <1>2, <1>3, <1>4, <1>5, <1>6, <1>7, <1>8, <1>9, <1>10, <1>11, <1>12, <1>13,
       <1>14 DEF Next, Step, Schedule

LEMMA ReserveAlways ==
  ASSUME PrefixFree
  PROVE  Spec => [](TypeOK /\ QueueInv /\ ReserveInv)
  <1>1. Init => QueueInv /\ ReserveInv
    BY QueueInit, ReserveInit
  <1>2. TypeOK /\ QueueInv /\ ReserveInv /\ [Next]_vars => QueueInv' /\ ReserveInv'
    BY QueueStep, ReserveStep
  <1> QED  BY <1>1, <1>2, TypeCorrect, PTL DEF Spec

(* Only Preempt takes a group out of the running ones and back to waiting  *)
(* or out to the CPU.                                                      *)
LEMMA LatestStep ==
  ASSUME TypeOK, QueueInv, ReserveInv, [Next]_vars,
         NEW r \in SeqId, NEW q \in SeqId,
         status[r] = "RUNNING", status'[r] \in {"WAITING", "SWAPPED"}, status[q] = "RUNNING"
  PROVE  arrival[q] <= arrival[r]
  <1> USE DEF seqVars, queueVars, loopVars
  <1>i. /\ InReserve /\ status \in [SeqId -> Statuses] /\ arrival \in [SeqId -> Nat]
    BY DEF ReserveInv, TypeOK
  <1>u. status' # status
    OBVIOUS
  <1>1. ASSUME NEW s \in SeqId, NEW n \in PromptLens, AddRequest(s, n)
        PROVE  arrival[q] <= arrival[r]
    <2>1. status[s] = "NEW" /\ \E st \in {"WAITING", "REJECTED"} :
                                  status' = [status EXCEPT ![s] = st]
      BY <1>1 DEF AddRequest
    <2> QED  BY <1>i, <2>1
  <1>2. ASSUME NEW s \in SeqId, Abort(s)
        PROVE  arrival[q] <= arrival[r]
    <2>1. status' = [status EXCEPT ![s] = "FINISHED_ABORTED"]
      BY <1>2 DEF Abort
    <2> QED  BY <1>i, <2>1
  <1>3. CASE Admit /\ UNCHANGED kv
    <2>1. status' = [status EXCEPT ![Head(waiting)] = "RUNNING"]
      BY <1>3 DEF Admit
    <2> QED  BY <1>i, <2>1
  <1>4. CASE Ignore /\ UNCHANGED kv
    <2>1. status' = [status EXCEPT ![Head(waiting)] = "FINISHED_IGNORED"]
      BY <1>4 DEF Ignore
    <2> QED  BY <1>i, <2>1
  <1>5. CASE Preempt /\ UNCHANGED kv
    <2>1. PICK v \in SeqId :
            /\ \E st \in {"WAITING", "SWAPPED", "RUNNING"} : status' = [status EXCEPT ![v] = st]
            /\ \A s \in SeqId \ {v} : status[s] = "RUNNING" => arrival[s] < arrival[v]
      BY <1>i, <1>5, VictimIsLatest
    <2>2. r = v
      BY <1>i, <2>1
    <2>3. q = v \/ arrival[q] < arrival[v]
      BY <2>1
    <2>4. arrival[q] \in Nat /\ arrival[v] \in Nat
      BY <1>i
    <2> QED  BY <2>2, <2>3, <2>4
  <1>6. CASE ExecuteModel
    <2>1. PICK token \in [Scheduled -> Tokens] :
            status' = [s \in SeqId |-> IF s \in Scheduled THEN CheckStop(s, token[s])
                                      ELSE status[s]]
      BY <1>6 DEF ExecuteModel
    <2>2. CheckStop(r, token[r]) \notin {"WAITING", "SWAPPED"}
      BY DEF CheckStop
    <2> QED  BY <2>1, <2>2
  <1>7. CASE Resume /\ UNCHANGED kv
    <2>1. status' = [status EXCEPT ![Head(swapped)] = "RUNNING"]
      BY <1>7 DEF Resume
    <2> QED  BY <1>i, <2>1
  <1>8. ~ (StartStep \/ EndAdmit \/ ReserveSlot \/ EndReserve \/ EndSchedule
           \/ ExecuteNothing \/ UNCHANGED vars)
    BY <1>u DEF StartStep, EndAdmit, ReserveSlot, EndReserve, EndSchedule, ExecuteNothing, vars
  <1> QED
    BY <1>1, <1>2, <1>3, <1>4, <1>5, <1>6, <1>7, <1>8 DEF Next, Step, Schedule

(* A preempted group is the latest to arrive of those that run: the older  *)
(* ones keep their blocks, however often the pool runs dry, whether groups *)
(* are swapped out or run again, and with a sliding window too.            *)
THEOREM LatestGivesWay ==
  ASSUME PrefixFree
  PROVE  Spec => LatestIsPreempted
  <1>1. TypeOK /\ QueueInv /\ ReserveInv /\ [Next]_vars
          => [\A r, q \in SeqId :
                /\ status[r] = "RUNNING" /\ status'[r] \in {"WAITING", "SWAPPED"}
                /\ status[q] = "RUNNING"
                => arrival[q] <= arrival[r]]_vars
    BY LatestStep
  <1> QED  BY <1>1, ReserveAlways, PTL DEF Spec, LatestIsPreempted

-----------------------------------------------------------------------------
(* First come, first served, while preemption is by recomputation.         *)

LEMMA OrderInit == Init => OrderInv
  <1> SUFFICES ASSUME Init PROVE OrderInv
    OBVIOUS
  <1>1. /\ waiting = <<>> /\ swapped = <<>> /\ \A r \in SeqId : status[r] = "NEW"
    BY DEF Init, SchedulerInit
  <1>2. DOMAIN <<>> = {}
    OBVIOUS
  <1> QED  BY <1>1, <1>2 DEF OrderInv, Ascending, RunningFirst

(* Every step keeps OrderInv.                                              *)
LEMMA OrderStep ==
  ASSUME PrefixFree, Greedy, TypeOK, QueueInv, ReserveInv, OrderInv, [Next]_vars
  PROVE  OrderInv'
  <1> USE DEF seqVars, queueVars, loopVars
  <1>i. /\ phase # "raised" => Queues
        /\ swapped = <<>> /\ Arrivals /\ Ascending(arrival, waiting)
        /\ RunningFirst /\ InReserve
    BY DEF QueueInv, ErrorPhase, Alive, ReserveInv, OrderInv
  <1>q. /\ swapped \in Seq(SeqId) /\ waiting \in Seq(SeqId) /\ running \in Seq(SeqId) /\ reserved \in Seq(SeqId)
        /\ status \in [SeqId -> Statuses] /\ arrival \in [SeqId -> Nat]
    BY DEF TypeOK
  <1>s. \A st \in FinishedStatus : st \in Statuses /\ st \notin {"RUNNING", "WAITING"}
    BY DEF FinishedStatus, Statuses
  <1>1. ASSUME NEW r \in SeqId, NEW n \in PromptLens, AddRequest(r, n)
        PROVE  OrderInv'
    <2> DEFINE k == Cardinality(Known)
    <2>1. /\ status[r] = "NEW" /\ arrival' = [arrival EXCEPT ![r] = k]
          /\ swapped' = swapped /\ Queues
      BY <1>i, <1>1 DEF AddRequest, Known
    <2>3. \A q \in SeqId : arrival'[q] = IF q = r THEN k ELSE arrival[q]
      BY <1>q, <2>1
    <2>4. PICK st \in {"WAITING", "REJECTED"} :
            /\ status' = [status EXCEPT ![r] = st]
            /\ waiting' = IF st = "WAITING" THEN Append(waiting, r) ELSE waiting
      BY <1>1 DEF AddRequest
    <2>5. \A q \in SeqId : status'[q] = IF q = r THEN st ELSE status[q]
      BY <1>q, <2>4
    <2> HIDE DEF k
    <2>8. \A q \in Known : arrival'[q] = arrival[q] /\ arrival[q] < k
      BY <1>i, <2>1, <2>3 DEF Arrivals, Known, k
    <2>10. Range(waiting) \subseteq Known
      BY <2>1 DEF Queues, Known
    <2>11. Ascending(arrival', waiting)
      <3>1. \A i \in DOMAIN waiting : arrival'[waiting[i]] = arrival[waiting[i]]
        BY <2>8, <2>10 DEF Range
      <3> QED  BY <1>i, <3>1 DEF Ascending
    <2>12. Ascending(arrival', Append(waiting, r))
      <3>1. \A s \in Range(waiting) : arrival'[s] < arrival'[r]
        BY <2>3, <2>8, <2>10
      <3> QED  BY <1>q, <2>11, <3>1, AscendingAppend
    <2>13. Ascending(arrival', waiting')
      BY <2>4, <2>11, <2>12
    <2>14. RunningFirst'
      <3> SUFFICES ASSUME NEW u \in SeqId, NEW w \in SeqId,
                          status'[u] = "RUNNING", status'[w] = "WAITING"
                   PROVE  arrival'[u] < arrival'[w]
        BY DEF RunningFirst
      <3>1. u # r /\ u \in Known /\ status[u] = "RUNNING"
        BY <2>4, <2>5 DEF Known
      <3>2. CASE w = r
        BY <2>3, <2>8, <3>1, <3>2
      <3>3. CASE w # r
        <4>1. status[w] = "WAITING" /\ w \in Known
          BY <2>5, <3>3 DEF Known
        <4> QED  BY <1>i, <2>8, <3>1, <4>1 DEF RunningFirst
      <3> QED  BY <3>2, <3>3
    <2> QED  BY <1>i, <2>1, <2>13, <2>14 DEF OrderInv
  <1>2. ASSUME NEW r \in SeqId, Abort(r)
        PROVE  OrderInv'
    <2>1. /\ status' = [status EXCEPT ![r] = "FINISHED_ABORTED"] /\ arrival' = arrival
          /\ waiting' \in Without(waiting, {r}) /\ swapped' \in Without(swapped, {r})
      BY <1>2 DEF Abort
    <2>2. \A q \in SeqId : status'[q] = IF q = r THEN "FINISHED_ABORTED" ELSE status[q]
      BY <1>q, <2>1
    <2>4. Ascending(arrival, waiting')
      BY <1>i, <1>q, <2>1, AscendingWithout
    <2>5. RunningFirst'
      BY <1>i, <2>1, <2>2 DEF RunningFirst
    <2>6. swapped' \in Seq(SeqId) /\ Range(swapped') = Range(swapped) \ {r}
      BY <1>q, <2>1, WithoutProperties
    <2>7. swapped' = <<>>
      BY <1>i, <2>6, EmptyQueue, NobodyInQueue
    <2> QED  BY <2>1, <2>4, <2>5, <2>7 DEF OrderInv
  <1>k. ASSUME UNCHANGED <<waiting, swapped, status, arrival>>
        PROVE  OrderInv'
    BY <1>i, <1>k DEF OrderInv, RunningFirst
  <1>3. CASE StartStep /\ UNCHANGED kv
    BY <1>k, <1>3 DEF StartStep
  <1>4. CASE Admit /\ UNCHANGED kv
    <2> DEFINE r == Head(waiting)
    <2>1. /\ waiting # <<>> /\ arrival' = arrival /\ swapped' = swapped /\ Queues
          /\ status' = [status EXCEPT ![r] = "RUNNING"] /\ waiting' = Tail(waiting)
      BY <1>i, <1>4 DEF Admit
    <2>2. /\ r \in SeqId /\ Range(Tail(waiting)) = Range(waiting) \ {r}
      BY <1>q, <2>1, TailQueue, HeadType DEF Queues
    <2>3. /\ Ascending(arrival, Tail(waiting))
          /\ \A w \in Range(Tail(waiting)) : arrival[r] < arrival[w]
      BY <1>i, <1>q, <2>1, AscendingTail
    <2> HIDE DEF r
    <2>4. \A q \in SeqId : status'[q] = IF q = r THEN "RUNNING" ELSE status[q]
      BY <1>q, <2>1
    <2>6. \A w \in SeqId : status'[w] = "WAITING" => /\ status[w] = "WAITING"
                                                     /\ w \in Range(Tail(waiting))
      BY <2>1, <2>2, <2>4 DEF Queues
    <2>7. RunningFirst'
      BY <1>i, <2>1, <2>3, <2>4, <2>6 DEF RunningFirst
    <2> QED  BY <1>i, <2>1, <2>3, <2>7 DEF OrderInv
  <1>5. CASE Ignore /\ UNCHANGED kv
    <2> DEFINE r == Head(waiting)
    <2>1. /\ waiting # <<>> /\ arrival' = arrival /\ swapped' = swapped
          /\ status' = [status EXCEPT ![r] = "FINISHED_IGNORED"] /\ waiting' = Tail(waiting)
      BY <1>5 DEF Ignore
    <2>3. Ascending(arrival, Tail(waiting))
      BY <1>i, <1>q, <2>1, AscendingTail
    <2> HIDE DEF r
    <2>4. \A q \in SeqId : status'[q] = IF q = r THEN "FINISHED_IGNORED" ELSE status[q]
      BY <1>q, <2>1
    <2>6. RunningFirst'
      BY <1>i, <2>1, <2>4 DEF RunningFirst
    <2> QED  BY <1>i, <2>1, <2>3, <2>6 DEF OrderInv
  <1>6. CASE EndAdmit /\ UNCHANGED kv
    BY <1>k, <1>6 DEF EndAdmit
  <1>7. CASE ReserveSlot /\ UNCHANGED kv
    BY <1>k, <1>7 DEF ReserveSlot
  <1>8. CASE Preempt /\ UNCHANGED kv
    <2>1. PICK r \in SeqId :
            /\ r = running[Len(running)] /\ status[r] = "RUNNING"
            /\ \A q \in SeqId \ {r} : status[q] = "RUNNING" => arrival[q] < arrival[r]
      BY <1>i, <1>8, VictimIsLatest
    <2>2. MaxNumRunningSeqs(r) = 1
      BY <2>1, WidthIsOne
    <2>3. PreemptByRecompute(r) /\ arrival' = arrival /\ Queues
      BY <1>i, <1>8, <2>1, <2>2 DEF Preempt, PreemptBySwap
    <2>4. /\ status' = [status EXCEPT ![r] = "WAITING"] /\ waiting' = <<r>> \o waiting
          /\ swapped' = swapped
      BY <2>3 DEF PreemptByRecompute
    <2>5. \A q \in SeqId : status'[q] = IF q = r THEN "WAITING" ELSE status[q]
      BY <1>q, <2>4
    <2>6. \A w \in Range(waiting) : arrival[r] < arrival[w]
      BY <1>i, <2>1, <2>3 DEF Queues, RunningFirst
    <2>7. Ascending(arrival, waiting')
      BY <1>i, <1>q, <2>4, <2>6, AscendingPush
    <2>8. RunningFirst'
      BY <1>i, <2>1, <2>3, <2>5 DEF RunningFirst
    <2> QED  BY <1>i, <2>3, <2>4, <2>7, <2>8 DEF OrderInv
  <1>9. CASE EndReserve /\ UNCHANGED kv
    <2>1. UNCHANGED <<waiting, status, arrival>> /\ swapped' \in SortByPriority(swapped)
      BY <1>9 DEF EndReserve
    <2>2. swapped' \in Seq(SeqId) /\ Range(swapped') = Range(swapped)
      BY <1>q, <2>1, SortProperties
    <2>3. swapped' = <<>>
      BY <1>i, <2>2, EmptyQueue, NobodyInQueue
    <2> QED  BY <1>i, <1>k, <2>1, <2>3
  <1>10. CASE Resume /\ UNCHANGED kv
    BY <1>i, <1>10 DEF Resume
  <1>11. CASE EndSchedule /\ UNCHANGED kv
    BY <1>k, <1>11 DEF EndSchedule
  <1>12. CASE ExecuteModel
    <2>1. UNCHANGED <<waiting, swapped, arrival>> /\ Queues
      BY <1>i, <1>12 DEF ExecuteModel
    <2>3. PICK token \in [Scheduled -> Tokens] :
            status' = [r \in SeqId |-> IF r \in Scheduled THEN CheckStop(r, token[r])
                                      ELSE status[r]]
      BY <1>12 DEF ExecuteModel
    <2>2. \A r \in Scheduled : r \in SeqId /\ status[r] = "RUNNING"
      BY <1>12, <2>1 DEF ExecuteModel, Scheduled, Queues
    <2>4. \A r \in SeqId : CheckStop(r, token[r]) \in FinishedStatus \cup {"RUNNING"}
      BY DEF CheckStop, FinishedStatus
    <2>5. \A r \in SeqId : /\ status'[r] = "WAITING" => status[r] = "WAITING"
                           /\ status'[r] = "RUNNING" => status[r] = "RUNNING"
      BY <1>s, <2>2, <2>3, <2>4
    <2>7. RunningFirst'
      BY <1>i, <2>1, <2>5 DEF RunningFirst
    <2> QED  BY <1>i, <2>1, <2>7 DEF OrderInv
  <1>13. CASE ExecuteNothing
    BY <1>k, <1>13 DEF ExecuteNothing
  <1>14. CASE UNCHANGED vars
    BY <1>k, <1>14 DEF vars
  <1> QED
    BY <1>1, <1>2, <1>3, <1>4, <1>5, <1>6, <1>7, <1>8, <1>9, <1>10, <1>11, <1>12, <1>13,
       <1>14 DEF Next, Step, Schedule

LEMMA OrderAlways ==
  ASSUME PrefixFree, Greedy
  PROVE  Spec => []OrderInv
  <1>1. TypeOK /\ QueueInv /\ ReserveInv /\ OrderInv /\ [Next]_vars => OrderInv'
    BY OrderStep
  <1> QED  BY <1>1, OrderInit, ReserveAlways, PTL DEF Spec

(* The waiting queue is in order of arrival although nothing sorts it: the *)
(* comment on scheduler.py:182-184.                                        *)
THEOREM WaitingIsInOrder ==
  ASSUME PrefixFree, Greedy
  PROVE  Spec => []WaitingInOrder
  <1>1. OrderInv => WaitingInOrder
    BY DEF OrderInv, Ascending, WaitingInOrder
  <1> QED  BY <1>1, OrderAlways, PTL

(* No request runs while an earlier one waits, whoever was preempted.      *)
THEOREM FirstComeFirstServed ==
  ASSUME PrefixFree, Greedy
  PROVE  Spec => []NoOvertaking
  <1>1. OrderInv => NoOvertaking
    BY DEF OrderInv, RunningFirst, NoOvertaking
  <1> QED  BY <1>1, OrderAlways, PTL

-----------------------------------------------------------------------------
(* Whose KV the blocks hold.  A running group has all of its KV but that   *)
(* of the token it sampled last; a group admitted in this step has none,   *)
(* and `Pending` says that it is still to run its prompt.                  *)
Pending == IF phase = "admit" \/ (phase = "execute" /\ outputs.promptRun)
           THEN Scheduled ELSE {}

OwnKv(r) == \A pos \in 0 .. ContextLen(r) - 2 : kv[BlockAt(r, pos)] = r

KvInv == Alive => \A r \in Runs \ Pending : OwnKv(r)

SameBlocks(r) ==
  \A i \in 1 .. Len(bm.tables[r]) : bm'.tables[r][i] = bm.tables[r][i]

LEMMA ContextNat ==
  ASSUME TypeOK, NEW r \in SeqId
  PROVE  ContextLen(r) \in Nat /\ Slots(r) \in Nat
  <1>1. ContextLen(r) \in Nat
    BY LengthTypes, SchedulerAssumption DEF ContextLen
  <1>2. Slots(r) \in Nat
    BY LenProperties, SchedulerAssumption DEF Slots, TypeOK, BlockManagers
  <1> QED  BY <1>1, <1>2

(* The blocks of the tokens a group has already run are in its table.      *)
LEMMA EarlierFits ==
  ASSUME TypeOK, NEW r \in SeqId, status[r] = "RUNNING", SlotsFit(r),
         NEW pos \in 0 .. ContextLen(r) - 2
  PROVE  pos \in Nat /\ pos < Slots(r)
  <1>1. ContextLen(r) <= Slots(r) + 1 /\ ContextLen(r) \in Nat /\ Slots(r) \in Nat
    BY ContextNat DEF SlotsFit
  <1> QED  BY <1>1

LEMMA KvKept ==
  ASSUME TypeOK, NEW r \in SeqId, status[r] = "RUNNING", SlotsFit(r), OwnKv(r),
         kv' = kv, SeqLen(r)' = SeqLen(r), SameBlocks(r)
  PROVE  OwnKv(r)'
  <1> SUFFICES ASSUME NEW pos \in 0 .. ContextLen(r)' - 2
               PROVE  kv'[BlockAt(r, pos)'] = r
    BY DEF OwnKv
  <1>1. pos \in 0 .. ContextLen(r) - 2
    BY DEF ContextLen
  <1>2. (pos \div BlockSize) + 1 \in 1 .. Len(bm.tables[r])
    BY <1>1, EarlierFits, BlockOfSlot
  <1>3. BlockAt(r, pos)' = BlockAt(r, pos)
    BY <1>2 DEF SameBlocks, BlockAt
  <1> QED  BY <1>1, <1>3 DEF OwnKv

(* After the model has run, every position up to the token it sampled from *)
(* holds the KV of its own group, and nobody's blocks were written by      *)
(* another.                                                                *)
LEMMA KvExecuted ==
  ASSUME PrefixFree, NoWindow, TypeOK, QueueInv, OwnInv, SlotInv, KvInv, ExecuteModel
  PROVE  KvInv'
  <1>1. Alive /\ Healthy /\ phase = "execute"
    BY DEF ExecuteModel, QueueInv, ErrorPhase, Alive, OwnInv, Healthy
  <1>2. /\ \A r \in SeqId \ Scheduled : status'[r] = status[r]
        /\ \A r \in Scheduled : r \in SeqId /\ status[r] = "RUNNING"
        /\ \A r \in SeqId : bm'.tables[r] = IF r \in Scheduled /\ status'[r] # "RUNNING"
                                            THEN <<>> ELSE bm.tables[r]
        /\ Owned(bm') /\ phase' = "idle"
    BY <1>1, ExecuteEffect
  <1> SUFFICES ASSUME NEW s \in SeqId, status'[s] = "RUNNING"
               PROVE  OwnKv(s)'
    BY DEF KvInv, Runs
  <1>3. status[s] = "RUNNING" /\ bm'.tables[s] = bm.tables[s] /\ SlotsFit(s)
    BY <1>1, <1>2 DEF SlotInv
  <1> SUFFICES ASSUME NEW pos \in 0 .. ContextLen(s)' - 2
               PROVE  kv'[BlockAt(s, pos)'] = s
    BY DEF OwnKv
  <1> DEFINE b == BlockAt(s, pos)
  <1>4. BlockAt(s, pos)' = b
    BY <1>3 DEF BlockAt
  <1>5. ContextLen(s)' = ContextLen(s) + (IF s \in Scheduled THEN 1 ELSE 0)
    <2>1. promptLen' = promptLen
          /\ outLen'[s] = IF s \in Scheduled THEN outLen[s] + 1 ELSE outLen[s]
      BY DEF ExecuteModel
    <2> QED  BY <2>1, SchedulerAssumption DEF ContextLen, SeqLen, TypeOK
  <1>6. ContextLen(s) \in Nat
    BY ContextNat
  <1>7. /\ pos \in Nat /\ pos < Slots(s)
        /\ <<b, s>> \in Written \/ kv[b] = s
    <2>1. CASE pos \in 0 .. ContextLen(s) - 2 /\ s \notin Pending
      <3>1. kv[b] = s
        BY <1>1, <1>3, <2>1 DEF KvInv, OwnKv, Runs
      <3> QED  BY <1>3, <2>1, <3>1, EarlierFits
    <2>2. CASE s \in Scheduled /\ pos \in WrittenPositions(s)
      <3>1. Writer(s, pos) = s
        BY DEF Writer, InPrefix, PrefixFree
      <3>2. <<b, s>> \in Written
        BY <2>2, <3>1 DEF Written
      <3> QED  BY <1>1, <2>2, <3>2, WrittenFits
    <2>3. s \notin Scheduled => pos \in 0 .. ContextLen(s) - 2 /\ s \notin Pending
      BY <1>5, <1>6 DEF Pending
    <2>4. s \in Scheduled /\ outputs.promptRun => pos \in WrittenPositions(s)
      BY <1>5, <1>6 DEF WrittenPositions
    <2>5. s \in Scheduled /\ ~outputs.promptRun
            => s \notin Pending
               /\ (pos \in WrittenPositions(s) \/ pos \in 0 .. ContextLen(s) - 2)
      BY <1>1, <1>5, <1>6 DEF WrittenPositions, Pending
    <2> QED  BY <2>1, <2>2, <2>3, <2>4, <2>5
  <1>8. b \in Range(bm.tables[s])
    BY <1>7, BlockOfSlot
  <1>9. b \in GpuBlock /\ b \notin bm'.gpu
    <2>1. b \in GpuBlock
      BY <1>1, <1>3, <1>8 DEF Healthy, TablesFollow
    <2>2. Held(bm', b)
      BY <1>3, <1>8 DEF Held
    <2> QED  BY <1>2, <2>1, <2>2 DEF Owned, Block
  <1>10. ASSUME NEW w, <<b, w>> \in Written
         PROVE  w = s
    <2>0. PICK r \in Scheduled :
            \E p \in WrittenPositions(r) : b = BlockAt(r, p) /\ w = Writer(r, p)
      BY <1>10 DEF Written
    <2>1. PICK p \in WrittenPositions(r) : b = BlockAt(r, p) /\ w = Writer(r, p)
      BY <2>0
    <2>2. r \in SeqId /\ p \in Nat /\ p < Slots(r)
      BY <1>1, <2>1, WrittenFits
    <2>3. b \in Range(bm.tables[r])
      BY <2>1, <2>2, BlockOfSlot
    <2>4. r = s
      BY <1>1, <1>8, <2>2, <2>3 DEF Healthy, Owned
    <2> QED  BY <2>1, <2>4 DEF Writer, InPrefix, PrefixFree
  <1> HIDE DEF b
  <1>11. kv'[b] = IF \E w \in SeqId \cup Prefix : <<b, w>> \in Written
                  THEN CHOOSE w \in SeqId \cup Prefix : <<b, w>> \in Written
                  ELSE kv[b]
    BY <1>9 DEF ExecuteModel
  <1>12. CASE \E w \in SeqId \cup Prefix : <<b, w>> \in Written
    <2> DEFINE v == CHOOSE w \in SeqId \cup Prefix : <<b, w>> \in Written
    <2>1. <<b, v>> \in Written
      BY <1>12
    <2> QED  BY <1>4, <1>10, <1>11, <1>12, <2>1
  <1>13. CASE ~\E w \in SeqId \cup Prefix : <<b, w>> \in Written
    <2>1. kv[b] = s
      BY <1>7, <1>13
    <2> QED  BY <1>4, <1>11, <1>13, <2>1
  <1> QED  BY <1>12, <1>13

(* Every step keeps KvInv.                                                 *)
LEMMA KvStep ==
  ASSUME PrefixFree, NoWindow, Greedy, TypeOK, QueueInv, OwnInv, SlotInv, NoSwapInv, KvInv,
         [Next]_vars
  PROVE  KvInv'
  <1> USE DEF seqVars, queueVars, loopVars
  <1>0. /\ Alive /\ Healthy /\ \A r \in SeqId : SlotsFit(r)
        /\ \A r \in Runs \ Pending : OwnKv(r)
    BY DEF NoSwapInv, QueueInv, ErrorPhase, OwnInv, SlotInv, Healthy, KvInv
  <1>q. outputs.scheduled \in Seq(SeqId) /\ status \in [SeqId -> Statuses]
    BY DEF TypeOK
  (* A step that writes nothing, and moves no block of a group that had    *)
  (* its KV.                                                               *)
  <1>k. ASSUME kv' = kv,
               \A s \in SeqId :
                 status'[s] = "RUNNING" /\ s \notin Pending' =>
                   /\ status[s] = "RUNNING" /\ s \notin Pending
                   /\ SeqLen(s)' = SeqLen(s) /\ SameBlocks(s)
        PROVE  KvInv'
    BY <1>0, <1>k, KvKept DEF KvInv, Runs
  <1>o. ASSUME NEW r \in SeqId, OthersKept(r)
        PROVE  \A s \in SeqId \ {r} : SameBlocks(s)
    BY <1>o DEF OthersKept, SameBlocks
  <1>1. ASSUME NEW r \in SeqId, NEW n \in PromptLens, AddRequest(r, n)
        PROVE  KvInv'
    <2>1. Pending' = Pending /\ kv' = kv /\ \A s \in SeqId : SameBlocks(s)
      BY <1>1 DEF AddRequest, Pending, Scheduled, SameBlocks
    <2>2. \A s \in SeqId : status'[s] = "RUNNING" =>
                             status[s] = "RUNNING" /\ SeqLen(s)' = SeqLen(s)
      BY <1>q, <1>1 DEF AddRequest, SeqLen, TypeOK
    <2> QED  BY <1>k, <2>1, <2>2
  <1>2. ASSUME NEW r \in SeqId, Abort(r)
        PROVE  KvInv'
    <2>1. Pending' = Pending /\ kv' = kv /\ \A s \in SeqId : SeqLen(s)' = SeqLen(s)
      BY <1>2 DEF Abort, Pending, Scheduled, SeqLen
    <2>2. status' = [status EXCEPT ![r] = "FINISHED_ABORTED"] /\ OthersKept(r)
      BY <1>0, <1>2, AbortEffect
    <2> QED  BY <1>q, <1>k, <1>o, <2>1, <2>2
  <1>3. CASE StartStep /\ UNCHANGED kv
    BY <1>3, <1>k DEF StartStep, Pending, SameBlocks, SeqLen
  <1>4. CASE Admit /\ UNCHANGED kv
    <2>0. PICK r : r = Head(waiting)
      OBVIOUS
    <2>1. /\ r \in SeqId /\ status' = [status EXCEPT ![r] = "RUNNING"] /\ OthersKept(r)
          /\ phase' = "admit" /\ phase = "admit"
      BY <2>0, <1>0, <1>4, AdmitEffect DEF Admit
    <2>2. outputs'.scheduled = Append(outputs.scheduled, r)
          /\ \A s \in SeqId : SeqLen(s)' = SeqLen(s)
      BY <2>0, <1>4 DEF Admit, TypeOK, SeqLen
    <2>3. Pending = Scheduled /\ Pending' = Scheduled \cup {r}
      BY <1>q, <2>1, <2>2, AppendQueue DEF Pending, Scheduled
    <2> QED  BY <1>q, <1>k, <1>o, <1>4, <2>1, <2>2, <2>3
  <1>5. CASE Ignore /\ UNCHANGED kv
    <2>0. PICK r : r = Head(waiting)
      OBVIOUS
    <2>1. /\ status' = [status EXCEPT ![r] = "FINISHED_IGNORED"]
          /\ outputs'.scheduled = outputs.scheduled /\ phase' = phase /\ phase = "admit"
          /\ \A s \in SeqId : SeqLen(s)' = SeqLen(s) /\ SameBlocks(s)
      BY <2>0, <1>5 DEF Ignore, TypeOK, SeqLen, SameBlocks
    <2>2. Pending' = Pending
      BY <2>1 DEF Pending, Scheduled
    <2> QED  BY <1>q, <1>k, <1>5, <2>1, <2>2
  <1>6. CASE EndAdmit /\ UNCHANGED kv
    <2>1. status' = status /\ \A s \in SeqId : SeqLen(s)' = SeqLen(s) /\ SameBlocks(s)
      BY <1>6 DEF EndAdmit, SeqLen, SameBlocks
    <2>2. CASE outputs.scheduled # <<>> \/ outputs.ignored # <<>>
      <3>1. outputs'.scheduled = outputs.scheduled /\ outputs'.promptRun /\ phase' = "execute"
            /\ phase = "admit"
        BY <1>6, <2>2 DEF EndAdmit, TypeOK
      <3>2. Pending' = Pending
        BY <3>1 DEF Pending, Scheduled
      <3> QED  BY <1>k, <1>6, <2>1, <3>2
    <2>3. CASE outputs.scheduled = <<>>
      <3>1. Pending = {}
        BY <2>3, EmptyQueue DEF Pending, Scheduled
      <3> QED  BY <1>k, <1>6, <2>1, <3>1
    <2> QED  BY <2>2, <2>3
  <1>7. CASE ReserveSlot /\ UNCHANGED kv
    <2>0. PICK r : r = Head(running)
      OBVIOUS
    <2>1. /\ r \in SeqId /\ status' = status /\ OthersKept(r) /\ SameBlocks(r)
      BY <2>0, <1>0, <1>7, ReserveEffect DEF SameBlocks
    <2>2. phase = "reserve" /\ \A s \in SeqId : SeqLen(s)' = SeqLen(s)
      BY <1>7 DEF ReserveSlot, SeqLen
    <2>3. Pending = {} /\ \A s \in SeqId : SameBlocks(s)
      BY <1>o, <2>1, <2>2 DEF Pending
    <2> QED  BY <1>k, <1>7, <2>1, <2>2, <2>3
  <1>8. CASE Preempt /\ UNCHANGED kv
    <2>0. PICK r : r = running[Len(running)]
      OBVIOUS
    <2>1. phase = "reserve" /\ \A s \in SeqId : SeqLen(s)' = SeqLen(s)
      BY <1>8 DEF Preempt, SeqLen
    <2>2. Pending = {}
      BY <2>1 DEF Pending
    <2>3. r \in SeqId /\ status[r] = "RUNNING"
      BY <2>0, <1>0, <1>8, PreemptEffect
    <2>4. MaxNumRunningSeqs(r) = 1
      BY <2>3, WidthIsOne
    <2>5. CASE status' = [status EXCEPT ![r] = "WAITING"] /\ OthersKept(r)
      BY <1>q, <1>k, <1>o, <1>8, <2>1, <2>2, <2>3, <2>5
    <2>6. CASE error' = "NoSwapSpace"
      BY <2>6 DEF KvInv, Alive
    <2> QED  BY <2>0, <1>0, <1>8, <2>4, <2>5, <2>6, PreemptEffect
  <1>9. CASE EndReserve /\ UNCHANGED kv
    BY <1>9, <1>k DEF EndReserve, Pending, SameBlocks, SeqLen
  <1>10. CASE Resume /\ UNCHANGED kv
    BY <1>10 DEF Resume, NoSwapInv
  <1>11. CASE EndSchedule /\ UNCHANGED kv
    <2>1. phase = "swap" /\ UNCHANGED <<status, bm, promptLen, outLen>>
      BY <1>11 DEF EndSchedule, Raised
    <2> QED  BY <1>11, <1>k, <2>1 DEF Pending, SameBlocks, SeqLen
  <1>12. CASE ExecuteModel
    BY <1>12, KvExecuted
  <1>13. CASE ExecuteNothing
    <2>1. Pending = {}
      BY <1>13, EmptyQueue DEF ExecuteNothing, Pending, Scheduled
    <2>2. UNCHANGED <<status, bm, promptLen, outLen, kv>>
      BY <1>13 DEF ExecuteNothing, Raised
    <2> QED  BY <1>k, <2>1, <2>2 DEF SameBlocks, SeqLen
  <1>14. CASE UNCHANGED vars
    <2>1. Pending' = Pending /\ UNCHANGED <<status, bm, promptLen, outLen, kv>>
      BY <1>14 DEF vars, Pending, Scheduled
    <2> QED  BY <1>k, <2>1 DEF SameBlocks, SeqLen
  <1> QED
    BY <1>1, <1>2, <1>3, <1>4, <1>5, <1>6, <1>7, <1>8, <1>9, <1>10, <1>11, <1>12, <1>13,
       <1>14 DEF Next, Step, Schedule

(* Paging never mixes up requests: what a decode run attends to is the KV  *)
(* its own sequence wrote, through every preemption, recomputation, reuse  *)
(* of blocks and growth of tables.                                         *)
THEOREM KvStaysIntact ==
  ASSUME PrefixFree, NoWindow, Greedy
  PROVE  Spec => []KvIntact
  <1>1. Init => KvInv
    BY DEF Init, SchedulerInit, KvInv, Runs
  <1>2. /\ TypeOK /\ QueueInv /\ OwnInv /\ SlotInv
        /\ NoSwapInv /\ KvInv /\ [Next]_vars
        => KvInv'
    BY KvStep
  <1>3. TypeOK /\ QueueInv /\ KvInv => KvIntact
    <2> SUFFICES ASSUME TypeOK, QueueInv, KvInv, phase = "execute", ~outputs.promptRun,
                        NEW r \in Scheduled, NEW pos \in 0 .. ContextLen(r) - 2
                 PROVE  kv[BlockAt(r, pos)] = Writer(r, pos)
      BY DEF KvIntact
    <2>1. Alive /\ r \in Runs /\ Pending = {}
      BY DEF QueueInv, ErrorPhase, Alive, Queues, Scheduled, Runs, Pending
    <2>2. kv[BlockAt(r, pos)] = r
      BY <2>1 DEF KvInv, OwnKv
    <2>3. PrefixOf[r] = NoPrefix
      BY <2>1 DEF PrefixFree, Runs
    <2> QED  BY <2>2, <2>3 DEF Writer, InPrefix
  <1> QED  BY <1>1, <1>2, <1>3, SlotAlways, NoSwapAlways, PTL DEF Spec
=============================================================================

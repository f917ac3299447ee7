--------------------------- MODULE ServiceProofs ---------------------------
(***************************************************************************)
(* LLMEngine implements TokenService, for any number of requests and       *)
(* blocks and any limits.  A step that serves tokens serves the members of *)
(* outputs.scheduled; that they are live is QueueInv.  That an answer is   *)
(* complete at max_tokens at the latest needs BelowLimit: a request is     *)
(* looked at after every one of its tokens, so that outLen, which          *)
(* _check_stop compares with =, cannot have jumped over the limit.         *)
(***************************************************************************)
EXTENDS OfflineDriver, LLMEngineProofs

LiveStatus == {"WAITING", "RUNNING", "SWAPPED"}

BelowLimit ==
  \A r \in SeqId : /\ outLen[r] <= MaxTokens
                   /\ status[r] \in LiveStatus \cup {"NEW"} => outLen[r] < MaxTokens

-----------------------------------------------------------------------------
(* How a change of one request's status shows in the stages.               *)

LEMMA StageMoves ==
  ASSUME TypeOK, NEW r \in SeqId, NEW s, status' = [status EXCEPT ![r] = s]
  PROVE  Stage' = [Stage EXCEPT ![r] = StageOf(s)]
  <1>1. \A q \in SeqId : status'[q] = IF q = r THEN s ELSE status[q]
    BY DEF TypeOK
  <1>2. \A q \in SeqId : StageOf(status'[q]) = IF q = r THEN StageOf(s) ELSE StageOf(status[q])
    BY <1>1
  <1>3. Stage' = [q \in SeqId |-> StageOf(status'[q])]
    BY DEF Stage
  <1>4. [Stage EXCEPT ![r] = StageOf(s)]
          = [q \in SeqId |-> IF q = r THEN StageOf(s) ELSE StageOf(status[q])]
    BY DEF Stage
  <1> QED  BY <1>2, <1>3, <1>4

LEMMA LiveStage ==
  ASSUME NEW s \in Statuses
  PROVE  /\ s \in LiveStatus <=> StageOf(s) = "live"
         /\ s \in {"FINISHED_STOPPED", "FINISHED_LENGTH_CAPPED"} => StageOf(s) = "answered"
  BY DEF StageOf, Statuses, FinishedStatus, LiveStatus

(* A request that stays live, in another queue: nothing for the caller.    *)
LEMMA LiveMoves ==
  ASSUME TypeOK, NEW r \in SeqId, status[r] \in LiveStatus, NEW s \in LiveStatus,
         status' = [status EXCEPT ![r] = s], UNCHANGED outLen
  PROVE  UNCHANGED Service!vars /\ (BelowLimit => BelowLimit')
  <1>1. Stage' = [Stage EXCEPT ![r] = StageOf(s)]
    BY StageMoves
  <1>2. StageOf(s) = "live" /\ StageOf(status[r]) = "live"
    BY LiveStage DEF TypeOK, Statuses, LiveStatus
  <1>3. [Stage EXCEPT ![r] = StageOf(s)] = Stage
    BY <1>2 DEF Stage
  <1>4. \A q \in SeqId : status'[q] = IF q = r THEN s ELSE status[q]
    BY DEF TypeOK
  <1>5. BelowLimit => BelowLimit'
    BY <1>4 DEF BelowLimit
  <1> QED  BY <1>1, <1>3, <1>5 DEF Service!vars

LEMMA NothingMoves ==
  ASSUME UNCHANGED <<status, outLen>>
  PROVE  UNCHANGED Service!vars /\ (BelowLimit => BelowLimit')
  BY DEF Service!vars, Stage, BelowLimit

-----------------------------------------------------------------------------
LEMMA ServiceInit ==
  ASSUME Init
  PROVE  Service!Init /\ BelowLimit
  <1>1. status = [r \in SeqId |-> "NEW"] /\ outLen = [r \in SeqId |-> 0]
    BY DEF Init, SchedulerInit
  <1>2. Stage = [r \in SeqId |-> "new"]
    BY <1>1 DEF Stage, StageOf
  <1>3. BelowLimit
    BY <1>1, EngineAssumption DEF BelowLimit
  <1> QED  BY <1>1, <1>2, <1>3 DEF Service!Init

(* The model run: one token for each of the scheduled requests.            *)
LEMMA ServiceServes ==
  ASSUME TypeOK, QueueInv, BelowLimit, ExecuteModel
  PROVE  Service!Next /\ BelowLimit'
  <1>1. /\ Queues
        /\ Scheduled \subseteq {r \in SeqId : status[r] = "RUNNING"}
    BY DEF QueueInv, ErrorPhase, Alive, Queues, ExecuteModel, Scheduled
  <1>2. Scheduled # {}
    <2>1. outputs.scheduled \in Seq(SeqId) /\ outputs.scheduled # <<>>
      BY DEF ExecuteModel, TypeOK
    <2> QED  BY <2>1, TailQueue DEF Scheduled
  <1> DEFINE after(token, r) == IF r \in Scheduled THEN CheckStop(r, token[r]) ELSE status[r]
  <1>3. PICK token \in [Scheduled -> Tokens] : status' = [r \in SeqId |-> after(token, r)]
    BY DEF ExecuteModel
  <1> DEFINE answered == {r \in Scheduled : status'[r] # "RUNNING"}
  <1>4. outLen' = [r \in SeqId |-> IF r \in Scheduled THEN outLen[r] + 1 ELSE outLen[r]]
    BY DEF ExecuteModel
  <1>5. ASSUME NEW r \in Scheduled
        PROVE  /\ r \in SeqId /\ status[r] = "RUNNING" /\ outLen[r] \in Nat
               /\ outLen[r] < MaxTokens /\ outLen'[r] = outLen[r] + 1
               /\ status'[r] \in {"FINISHED_STOPPED", "FINISHED_LENGTH_CAPPED", "RUNNING"}
               /\ outLen[r] + 1 = MaxTokens => status'[r] # "RUNNING"
    <2>1. r \in SeqId /\ status[r] = "RUNNING"
      BY <1>1
    <2>2. status'[r] = CheckStop(r, token[r])
      BY <1>3, <2>1
    <2>3. outLen[r] \in Nat /\ outLen[r] < MaxTokens /\ outLen'[r] = outLen[r] + 1
      BY <1>4, <2>1 DEF TypeOK, BelowLimit, LiveStatus
    <2> QED  BY <2>1, <2>2, <2>3 DEF CheckStop
  <1>6. ASSUME NEW r \in SeqId \ Scheduled
        PROVE  status'[r] = status[r] /\ outLen'[r] = outLen[r]
    BY <1>3, <1>4
  <1>7. BelowLimit'
    <2> SUFFICES ASSUME NEW r \in SeqId
                 PROVE  /\ outLen'[r] <= MaxTokens
                        /\ status'[r] \in LiveStatus \cup {"NEW"} => outLen'[r] < MaxTokens
      BY DEF BelowLimit
    <2>1. CASE r \in Scheduled
      BY <1>5, <2>1, EngineAssumption DEF LiveStatus
    <2>2. CASE r \notin Scheduled
      BY <1>6, <2>2 DEF BelowLimit
    <2> QED  BY <2>1, <2>2
  <1> HIDE DEF after
  <1>8. \A r \in SeqId : Stage[r] = StageOf(status[r]) /\ Stage'[r] = StageOf(status'[r])
    BY DEF Stage
  <1>9. Scheduled \subseteq Service!Live
    BY <1>5, <1>8, LiveStage DEF Service!Live, Statuses, LiveStatus
  <1>10. {r \in Scheduled : outLen[r] + 1 >= MaxTokens} \subseteq answered
    BY <1>5, EngineAssumption
  <1>11. Stage' = [r \in SeqId |-> IF r \in answered THEN "answered" ELSE Stage[r]]
    <2>1. ASSUME NEW r \in SeqId
          PROVE  StageOf(status'[r]) = IF r \in answered THEN "answered" ELSE Stage[r]
      <3>1. CASE r \in answered
        BY <1>5, <3>1, LiveStage DEF Statuses, FinishedStatus
      <3>2. CASE r \in Scheduled \ answered
        BY <1>5, <1>8, <3>2
      <3>3. CASE r \notin Scheduled
        BY <1>6, <1>8, <3>3
      <3> QED  BY <3>1, <3>2, <3>3
    <2> QED  BY <2>1 DEF Stage
  <1> HIDE DEF answered
  <1>12. answered \subseteq Scheduled
    BY DEF answered
  <1>13. Service!Serve(Scheduled, answered)
    BY <1>2, <1>4, <1>9, <1>10, <1>11, <1>12 DEF Service!Serve
  <1>14. Scheduled \in SUBSET SeqId /\ answered \in SUBSET SeqId
    BY <1>1, <1>12
  <1>15. Service!Progress
    BY <1>13, <1>14 DEF Service!Progress
  <1> QED  BY <1>7, <1>15 DEF Service!Next

(* Every step of the engine is one of the service's or a stutter.          *)
LEMMA ServiceStep ==
  ASSUME TypeOK, QueueInv, BelowLimit, [Next]_vars
  PROVE  [Service!Next]_(Service!vars) /\ BelowLimit'
  <1> USE DEF seqVars, queueVars, loopVars
  <1>0. /\ waiting \in Seq(SeqId) /\ running \in Seq(SeqId) /\ swapped \in Seq(SeqId)
        /\ status \in [SeqId -> Statuses] /\ outLen \in [SeqId -> Nat]
    BY DEF TypeOK
  <1>q. phase # "raised" => Queues
    BY DEF QueueInv, ErrorPhase, Alive
  <1>1. ASSUME NEW r \in SeqId, NEW n \in PromptLens, AddRequest(r, n)
        PROVE  Service!Next /\ BelowLimit'
    <2>1. status[r] = "NEW" /\ UNCHANGED outLen
      BY <1>1 DEF AddRequest
    <2>2. Stage[r] = "new"
      BY <2>1 DEF Stage, StageOf
    <2>3. CASE status' = [status EXCEPT ![r] = "WAITING"]
      <3>1. Stage' = [Stage EXCEPT ![r] = "live"]
        BY <2>3, StageMoves DEF StageOf
      <3>2. BelowLimit'
        BY <1>0, <2>1, <2>3 DEF BelowLimit, LiveStatus
      <3>3. Service!Submit(r)
        BY <2>1, <2>2, <3>1 DEF Service!Submit, Service!Move
      <3> QED  BY <3>2, <3>3 DEF Service!Next
    <2>4. CASE status' = [status EXCEPT ![r] = "REJECTED"]
      <3>1. Stage' = [Stage EXCEPT ![r] = "refused"]
        BY <2>4, StageMoves DEF StageOf
      <3>2. BelowLimit'
        BY <1>0, <2>1, <2>4 DEF BelowLimit, LiveStatus
      <3>3. Service!Refuse(r)
        BY <2>1, <2>2, <3>1 DEF Service!Refuse, Service!Move
      <3> QED  BY <3>2, <3>3 DEF Service!Next
    <2> QED  BY <1>1, <2>3, <2>4 DEF AddRequest
  <1>2. ASSUME NEW r \in SeqId, Abort(r)
        PROVE  Service!Next /\ BelowLimit'
    <2>1. status[r] \in LiveStatus /\ UNCHANGED outLen
          /\ status' = [status EXCEPT ![r] = "FINISHED_ABORTED"]
      BY <1>2 DEF Abort, LiveStatus
    <2>2. Stage[r] = "live"
      BY <1>0, <2>1, LiveStage DEF Stage
    <2>3. Stage' = [Stage EXCEPT ![r] = "aborted"]
      BY <2>1, StageMoves DEF StageOf
    <2>4. BelowLimit'
      BY <1>0, <2>1 DEF BelowLimit, LiveStatus
    <2>5. Service!Abort(r)
      BY <2>1, <2>2, <2>3 DEF Service!Abort, Service!Move
    <2> QED  BY <2>4, <2>5 DEF Service!Next
  <1>3. CASE StartStep
    BY <1>3, NothingMoves DEF StartStep
  <1>4. CASE Admit
    <2>1. /\ waiting # <<>> /\ phase = "admit"
          /\ status' = [status EXCEPT ![Head(waiting)] = "RUNNING"] /\ UNCHANGED outLen
      BY <1>4 DEF Admit
    <2>2. Head(waiting) \in SeqId /\ status[Head(waiting)] = "WAITING"
      BY <1>0, <1>q, <2>1, HeadType, TailQueue DEF Queues
    <2> QED  BY <2>1, <2>2, LiveMoves DEF LiveStatus
  <1>5. CASE Ignore
    <2>1. /\ waiting # <<>> /\ phase = "admit"
          /\ status' = [status EXCEPT ![Head(waiting)] = "FINISHED_IGNORED"]
          /\ UNCHANGED outLen
      BY <1>5 DEF Ignore
    <2>2. PICK r \in SeqId : r = Head(waiting)
      BY <1>0, <2>1, HeadType
    <2>3. status[r] = "WAITING"
      BY <1>0, <1>q, <2>1, <2>2, TailQueue DEF Queues
    <2>4. Stage[r] = "live"
      BY <1>0, <2>3, LiveStage DEF Stage, LiveStatus
    <2>5. Stage' = [Stage EXCEPT ![r] = "ignored"]
      BY <2>1, <2>2, StageMoves DEF StageOf
    <2>6. BelowLimit'
      BY <1>0, <2>1, <2>2 DEF BelowLimit, LiveStatus
    <2>7. Service!Ignore(r)
      BY <2>1, <2>4, <2>5 DEF Service!Ignore, Service!Move
    <2> QED  BY <2>6, <2>7 DEF Service!Next, Service!Progress
  <1>6. CASE EndAdmit
    BY <1>6, NothingMoves DEF EndAdmit
  <1>7. CASE ReserveSlot
    BY <1>7, NothingMoves DEF ReserveSlot
  <1>8. CASE Preempt
    <2> DEFINE victim == running[Len(running)]
    <2>1. /\ running # <<>> /\ phase = "reserve" /\ UNCHANGED outLen
          /\ PreemptByRecompute(victim) \/ PreemptBySwap(victim)
      BY <1>8 DEF Preempt
    <2>2. victim \in SeqId /\ status[victim] = "RUNNING"
      BY <1>0, <1>q, <2>1, FrontQueue DEF Queues
    <2> HIDE DEF victim
    <2>3. \/ status' = [status EXCEPT ![victim] = "WAITING"]
          \/ status' = [status EXCEPT ![victim] = "SWAPPED"]
          \/ UNCHANGED status
      BY <2>1 DEF PreemptByRecompute, PreemptBySwap
    <2> QED  BY <2>1, <2>2, <2>3, LiveMoves, NothingMoves DEF LiveStatus
  <1>9. CASE EndReserve
    BY <1>9, NothingMoves DEF EndReserve
  <1>10. CASE Resume
    <2>1. /\ swapped # <<>> /\ phase = "swap"
          /\ status' = [status EXCEPT ![Head(swapped)] = "RUNNING"] /\ UNCHANGED outLen
      BY <1>10 DEF Resume
    <2>2. Head(swapped) \in SeqId /\ status[Head(swapped)] = "SWAPPED"
      BY <1>0, <1>q, <2>1, HeadType, TailQueue DEF Queues
    <2> QED  BY <2>1, <2>2, LiveMoves DEF LiveStatus
  <1>11. CASE EndSchedule
    BY <1>11, NothingMoves DEF EndSchedule
  <1>12. CASE ExecuteModel
    BY <1>12, ServiceServes
  <1>13. CASE ExecuteNothing
    BY <1>13, NothingMoves DEF ExecuteNothing
  <1>14. CASE UNCHANGED vars
    BY <1>14, NothingMoves DEF vars
  <1> QED
    BY <1>1, <1>2, <1>3, <1>4, <1>5, <1>6, <1>7, <1>8, <1>9, <1>10, <1>11, <1>12, <1>13,
       <1>14 DEF Next, Step, Schedule

(* Queues, blocks, preemption and the phases of step() are invisible: what *)
(* callers of add_request, abort_request and step see is what TokenService *)
(* allows.  No preemption takes a token back, nothing that has ended is     *)
(* served again, and no answer grows beyond max_tokens.                    *)
THEOREM EngineImplementsService ==
  ASSUME PrefixFree
  PROVE  Spec => ImplementsService
  <1>1. Init => QueueInv /\ BelowLimit /\ Service!Init
    BY QueueInit, ServiceInit
  <1>2. TypeOK /\ QueueInv /\ BelowLimit /\ [Next]_vars
          => QueueInv' /\ BelowLimit' /\ [Service!Next]_(Service!vars)
    BY QueueStep, ServiceStep
  <1> QED  BY <1>1, <1>2, TypeCorrect, PTL DEF Spec, ImplementsService, Service!Spec

-----------------------------------------------------------------------------
(***************************************************************************)
(* The offline driver runs the engine through this service, and what it    *)
(* makes of the outputs is right: KeyInv is about key_id, whose entries    *)
(* are written before a request is accepted, AnswerInv about what has been *)
(* counted and stored.                                                     *)
(***************************************************************************)
Accepted == {r \in SeqId : status[r] \notin {"NEW", "REJECTED"}}
Answered == {r \in SeqId : status[r] \in {"FINISHED_STOPPED", "FINISHED_LENGTH_CAPPED"}}

(* The keys of the accepted requests are those below request_key, and the  *)
(* entry of key_id under such a key is never written again; what a         *)
(* rejected prompt has left there lies above.                              *)
KeyInv ==
  /\ requestKey = Cardinality(Accepted)
  /\ keyOf \in [SeqId -> Nat] /\ keyId \in [Keys -> SeqId \cup {Nobody}]
  /\ \A r \in Accepted : keyOf[r] < requestKey /\ keyId[keyOf[r]] = r

AnswerInv ==
  /\ finished = Cardinality(Answered)
  /\ answers = [r \in SeqId |-> IF r \in Answered THEN r ELSE Nobody]
  /\ \A r \in SeqId : status[r] # "FINISHED_ABORTED"

DriverInv == KeyInv /\ AnswerInv

-----------------------------------------------------------------------------
LEMMA RequestSets ==
  ASSUME NEW S \in SUBSET SeqId
  PROVE  IsFiniteSet(S) /\ Cardinality(S) \in Nat /\ Cardinality(S) <= Cardinality(SeqId)
         /\ Cardinality(SeqId) \in Nat
  BY BlocksAreFinite, FS_Subset, FS_CardinalityType

LEMMA DisjointCount ==
  ASSUME NEW S \in SUBSET SeqId, NEW T \in SUBSET SeqId, S \cap T = {}
  PROVE  Cardinality(S \cup T) = Cardinality(S) + Cardinality(T)
  <1>1. IsFiniteSet(S) /\ IsFiniteSet(T) /\ Cardinality(S) \in Nat /\ Cardinality(T) \in Nat
    BY RequestSets
  <1>2. Cardinality(S \cup T) = Cardinality(S) + Cardinality(T) - Cardinality(S \cap T)
    BY <1>1, FS_Union
  <1>3. Cardinality(S \cap T) = 0
    BY FS_EmptySet
  <1>4. ASSUME NEW a \in Nat, NEW b \in Nat, NEW d, NEW n, n = a + b - d, d = 0
        PROVE  n = a + b
    BY <1>4
  <1> QED  BY <1>1, <1>2, <1>3, <1>4

(* schedule() ends no request but the ones it ignores.                     *)
LEMMA ScheduleMoves ==
  ASSUME TypeOK, QueueInv, Schedule
  PROVE  \A r \in SeqId :
           \/ status'[r] = status[r]
           \/ status[r] \in LiveStatus /\ status'[r] \in LiveStatus \cup {"FINISHED_IGNORED"}
  <1> USE DEF LiveStatus, queueVars
  <1>0. /\ waiting \in Seq(SeqId) /\ running \in Seq(SeqId) /\ swapped \in Seq(SeqId)
        /\ status \in [SeqId -> Statuses]
        /\ phase # "raised" => Queues
    BY DEF TypeOK, QueueInv, ErrorPhase, Alive
  <1>1. CASE Admit \/ Ignore
    <2>0. PICK r : r = Head(waiting)
      OBVIOUS
    <2>1. status[r] = "WAITING" /\ status' \in {[status EXCEPT ![r] = "RUNNING"],
                                                [status EXCEPT ![r] = "FINISHED_IGNORED"]}
      BY <1>0, <1>1, <2>0, TailQueue DEF Admit, Ignore, Queues
    <2> QED  BY <1>0, <2>1
  <1>2. CASE Preempt
    <2>0. PICK r : r = running[Len(running)]
      OBVIOUS
    <2>1. status[r] = "RUNNING"
      BY <1>0, <1>2, <2>0, FrontQueue DEF Preempt, Queues
    <2>2. status' \in {status, [status EXCEPT ![r] = "WAITING"],
                       [status EXCEPT ![r] = "SWAPPED"]}
      BY <1>2, <2>0 DEF Preempt, PreemptByRecompute, PreemptBySwap
    <2> QED  BY <1>0, <2>1, <2>2
  <1>3. CASE Resume
    <2>0. PICK r : r = Head(swapped)
      OBVIOUS
    <2>1. status[r] = "SWAPPED" /\ status' = [status EXCEPT ![r] = "RUNNING"]
      BY <1>0, <1>3, <2>0, TailQueue DEF Resume, Queues
    <2> QED  BY <1>0, <2>1
  <1>4. CASE StartStep \/ EndAdmit \/ ReserveSlot \/ EndReserve \/ EndSchedule
    BY <1>4 DEF StartStep, EndAdmit, ReserveSlot, EndReserve, EndSchedule
  <1> QED  BY <1>1, <1>2, <1>3, <1>4 DEF Schedule

-----------------------------------------------------------------------------
LEMMA DriverEngine ==
  /\ DriverInit => Init
  /\ [DriverNext]_allVars => [Next]_vars
  BY DEF DriverInit, DriverNext, Submit, AllSubmitted, RunLoop, Scheduling, StepWithOutputs,
         StepWithoutOutputs, LoopEnds, CountAnswers, allVars, Next, Step

LEMMA DriverStart == DriverInit => DriverInv
  <1> SUFFICES ASSUME DriverInit PROVE DriverInv
    OBVIOUS
  <1>1. Accepted = {} /\ Answered = {} /\ \A r \in SeqId : status[r] = "NEW"
    BY DEF DriverInit, Init, SchedulerInit, Accepted, Answered
  <1>2. Cardinality({}) = 0
    BY FS_EmptySet
  <1> QED
    BY <1>1, <1>2 DEF DriverInit, DriverInv, KeyInv, AnswerInv

(* A step that accepts and answers nothing.                                *)
LEMMA DriverKept ==
  ASSUME DriverInv, Accepted' = Accepted, Answered' = Answered,
         UNCHANGED <<requestKey, keyOf, keyId, finished, answers>>,
         \A r \in SeqId : status'[r] # "FINISHED_ABORTED"
  PROVE  DriverInv'
  BY DEF DriverInv, KeyInv, AnswerInv, Keys

(* A prompt is submitted: its key is its own.                              *)
LEMMA DriverSubmits ==
  ASSUME TypeOK, DriverInv, NEW r \in SeqId, NEW n \in PromptLens, Submit(r, n)
  PROVE  DriverInv'
  <1>1. /\ status[r] = "NEW"
        /\ status' \in {[status EXCEPT ![r] = "WAITING"], [status EXCEPT ![r] = "REJECTED"]}
        /\ UNCHANGED <<finished, answers>>
        /\ keyOf' = [keyOf EXCEPT ![r] = requestKey]
        /\ keyId' = [keyId EXCEPT ![requestKey] = r]
        /\ requestKey' = IF status'[r] = "REJECTED" THEN requestKey ELSE requestKey + 1
    BY DEF Submit, AddRequest
  <1>2. \A s \in SeqId : status'[s] = IF s = r THEN status'[r] ELSE status[s]
    BY <1>1 DEF TypeOK
  <1>3. status'[r] \in {"WAITING", "REJECTED"}
    BY <1>1 DEF TypeOK
  <1>4. r \notin Accepted /\ Accepted' = IF status'[r] = "REJECTED" THEN Accepted
                                         ELSE Accepted \cup {r}
    BY <1>1, <1>2, <1>3 DEF Accepted
  <1>5. Answered' = Answered /\ \A s \in SeqId : status'[s] # "FINISHED_ABORTED"
    BY <1>1, <1>2, <1>3 DEF Answered, DriverInv, AnswerInv
  <1>6. requestKey = Cardinality(Accepted) /\ requestKey \in Keys /\ requestKey \in Nat
    <2>1. Accepted \in SUBSET SeqId
      BY DEF Accepted
    <2> QED  BY <2>1, RequestSets DEF DriverInv, KeyInv, Keys
  <1>7. requestKey' = Cardinality(Accepted')
    <2>1. Cardinality(Accepted \cup {r}) = Cardinality(Accepted) + 1
      <3>1. IsFiniteSet(Accepted)
        BY RequestSets DEF Accepted
      <3> QED  BY <1>4, <3>1, FS_AddElement
    <2> QED  BY <1>1, <1>3, <1>4, <1>6, <2>1
  <1>8. keyOf' \in [SeqId -> Nat] /\ keyId' \in [Keys' -> SeqId \cup {Nobody}]
    BY <1>1, <1>6 DEF DriverInv, KeyInv, Keys
  <1>9. ASSUME NEW s \in Accepted'
        PROVE  keyOf'[s] < requestKey' /\ keyId'[keyOf'[s]] = s
    <2>1. CASE s = r
      <3>1. requestKey' = requestKey + 1
        BY <1>1, <1>4, <1>9, <2>1
      <3>2. keyOf'[s] = requestKey /\ keyId'[requestKey] = r
        BY <1>1, <1>6, <2>1 DEF DriverInv, KeyInv
      <3> QED  BY <1>6, <2>1, <3>1, <3>2
    <2>2. CASE s # r
      <3>1. s \in Accepted /\ s \in SeqId
        BY <1>4, <1>9, <2>2 DEF Accepted
      <3>2. /\ keyOf[s] < requestKey /\ keyId[keyOf[s]] = s /\ keyOf[s] \in Nat
            /\ keyOf'[s] = keyOf[s]
        BY <1>1, <2>2, <3>1 DEF DriverInv, KeyInv
      <3>3. requestKey <= requestKey' /\ requestKey' \in Nat
        BY <1>1, <1>6
      <3>4. keyOf[s] # requestKey /\ keyOf[s] < requestKey'
        BY <1>6, <3>2, <3>3
      <3>5. keyId'[keyOf[s]] = keyId[keyOf[s]]
        BY <1>1, <3>4 DEF DriverInv, KeyInv
      <3> QED  BY <3>2, <3>4, <3>5
    <2> QED  BY <2>1, <2>2
  <1>10. KeyInv'
    BY <1>7, <1>8, <1>9 DEF KeyInv
  <1>11. AnswerInv'
    BY <1>1, <1>5 DEF DriverInv, AnswerInv
  <1> QED  BY <1>10, <1>11 DEF DriverInv

(* The groups that end are counted once, each under its own prompt.        *)
LEMMA DriverCollects ==
  ASSUME TypeOK, QueueInv, DriverInv, StepWithOutputs
  PROVE  DriverInv'
  <1> DEFINE ended == {r \in Scheduled : status'[r] \in FinishedStatus}
  <1>1. /\ UNCHANGED <<requestKey, keyOf, keyId>>
        /\ finished' = finished + Cardinality(ended)
        /\ answers' = [p \in SeqId |->
                         IF \E r \in ended : keyId[keyOf[r]] = p
                         THEN CHOOSE r \in ended : keyId[keyOf[r]] = p
                         ELSE answers[p]]
    BY DEF StepWithOutputs, Collect
  <1>2. \A r \in Scheduled : r \in SeqId /\ status[r] = "RUNNING"
    BY DEF StepWithOutputs, ExecuteModel, QueueInv, ErrorPhase, Alive, Queues, Scheduled
  <1>3. PICK token \in [Scheduled -> Tokens] :
          status' = [r \in SeqId |-> IF r \in Scheduled THEN CheckStop(r, token[r]) ELSE status[r]]
    BY DEF StepWithOutputs, ExecuteModel
  <1>4. /\ \A r \in SeqId \ Scheduled : status'[r] = status[r]
        /\ \A r \in Scheduled : status'[r] \in {"FINISHED_STOPPED", "FINISHED_LENGTH_CAPPED",
                                                "RUNNING"}
    BY <1>2, <1>3 DEF CheckStop
  <1>5. /\ ended \in SUBSET SeqId /\ ended \cap Answered = {}
        /\ Answered' = Answered \cup ended /\ ended \subseteq Accepted
    BY <1>2, <1>4 DEF Answered, Accepted, FinishedStatus
  <1>6. Accepted' = Accepted
    BY <1>2, <1>4 DEF Accepted
  <1>7. \A r \in SeqId : status'[r] # "FINISHED_ABORTED"
    BY <1>2, <1>4 DEF DriverInv, AnswerInv
  <1> HIDE DEF ended
  <1>8. finished' = Cardinality(Answered')
    <2>1. Answered \in SUBSET SeqId
      BY DEF Answered
    <2>2. Cardinality(Answered \cup ended) = Cardinality(Answered) + Cardinality(ended)
      BY <1>5, <2>1, DisjointCount
    <2> QED  BY <1>1, <1>5, <2>2 DEF DriverInv, AnswerInv
  <1>9. \A r \in ended : keyId[keyOf[r]] = r
    BY <1>5 DEF DriverInv, KeyInv
  <1>10. ASSUME NEW p \in SeqId
         PROVE  answers'[p] = IF p \in Answered' THEN p ELSE Nobody
    <2>1. CASE p \in ended
      <3>1. (CHOOSE r \in ended : keyId[keyOf[r]] = p) = p
        BY <1>9, <2>1
      <3> QED  BY <1>1, <1>5, <1>9, <2>1, <3>1
    <2>2. CASE p \notin ended
      <3>1. answers'[p] = answers[p]
        BY <1>1, <1>9, <2>2
      <3> QED  BY <1>5, <2>2, <3>1 DEF DriverInv, AnswerInv
    <2> QED  BY <2>1, <2>2
  <1>11. answers' = [r \in SeqId |-> IF r \in Answered' THEN r ELSE Nobody]
    BY <1>1, <1>10
  <1>12. KeyInv'
    BY <1>1, <1>6 DEF DriverInv, KeyInv, Keys
  <1> QED  BY <1>7, <1>8, <1>11, <1>12 DEF DriverInv, AnswerInv

LEMMA DriverStep ==
  ASSUME TypeOK, QueueInv, DriverInv, [DriverNext]_allVars
  PROVE  DriverInv'
  <1> DEFINE bookkeeping == <<requestKey, keyOf, keyId, finished, answers>>
  <1>k. ASSUME UNCHANGED bookkeeping, status' = status
        PROVE  DriverInv'
    BY <1>k, DriverKept DEF Accepted, Answered, DriverInv, AnswerInv
  <1>1. ASSUME NEW r \in SeqId, NEW n \in PromptLens, Submit(r, n)
        PROVE  DriverInv'
    BY <1>1, DriverSubmits
  <1>2. CASE Scheduling
    <2>1. UNCHANGED bookkeeping /\ Schedule
      BY <1>2 DEF Scheduling, driverVars
    <2>2. \A r \in SeqId :
            \/ status'[r] = status[r]
            \/ status[r] \in LiveStatus /\ status'[r] \in LiveStatus \cup {"FINISHED_IGNORED"}
      BY <2>1, ScheduleMoves
    <2>3. Accepted' = Accepted /\ Answered' = Answered
      BY <2>2 DEF Accepted, Answered, LiveStatus
    <2>4. \A r \in SeqId : status'[r] # "FINISHED_ABORTED"
      BY <2>2 DEF LiveStatus, DriverInv, AnswerInv
    <2> QED  BY <2>1, <2>3, <2>4, DriverKept
  <1>3. CASE StepWithOutputs
    BY <1>3, DriverCollects
  <1>4. CASE StepWithoutOutputs
    BY <1>4, <1>k DEF StepWithoutOutputs, ExecuteNothing
  <1>5. CASE AllSubmitted \/ LoopEnds \/ CountAnswers
    BY <1>5, <1>k DEF AllSubmitted, LoopEnds, CountAnswers, vars
  <1>6. CASE UNCHANGED allVars
    BY <1>6, <1>k DEF allVars, vars, driverVars
  <1> QED  BY <1>1, <1>2, <1>3, <1>4, <1>5, <1>6 DEF DriverNext, RunLoop

(* Around the engine the driver does nothing to it but submit and step: it *)
(* sees the service TokenService describes.                                *)
THEOREM DriverUsesEngine ==
  ASSUME PrefixFree
  PROVE  DriverSpec => Spec /\ ImplementsService
  <1>1. DriverSpec => Spec
    BY DriverEngine, PTL DEF DriverSpec, Spec
  <1> QED  BY <1>1, EngineImplementsService

LEMMA DriverAlways ==
  ASSUME PrefixFree
  PROVE  DriverSpec => [](TypeOK /\ QueueInv /\ DriverInv)
  <1>1. Spec => [](TypeOK /\ QueueInv)
    <2>1. Init => QueueInv
      BY QueueInit
    <2>2. TypeOK /\ QueueInv /\ [Next]_vars => QueueInv'
      BY QueueStep
    <2> QED  BY <2>1, <2>2, TypeCorrect, PTL DEF Spec
  <1>2. DriverInit => DriverInv
    BY DriverStart
  <1>3. TypeOK /\ QueueInv /\ DriverInv /\ [DriverNext]_allVars => DriverInv'
    BY DriverStep
  <1> QED  BY <1>1, <1>2, <1>3, DriverEngine, PTL DEF DriverSpec, Spec

(* A prompt gets the answer of its own request and no other, whatever was  *)
(* rejected, ignored or preempted on the way.                              *)
THEOREM AnswersAreMatched ==
  ASSUME PrefixFree
  PROVE  DriverSpec => []AnswersMatchPrompts
  <1>1. TypeOK /\ DriverInv => AnswersMatchPrompts
    <2> SUFFICES ASSUME TypeOK, DriverInv, NEW r \in SeqId
                 PROVE  answers[r] = IF StageOf(status[r]) = "answered" THEN r ELSE Nobody
      BY DEF AnswersMatchPrompts
    <2>1. StageOf(status[r]) = "answered" <=> r \in Answered
      BY DEF TypeOK, Statuses, FinishedStatus, StageOf, Answered
    <2> QED  BY <2>1 DEF DriverInv, AnswerInv
  <1> QED  BY <1>1, DriverAlways, PTL

(* Between two calls of step() every request accepted is answered, ignored *)
(* or in one of the queues, so the count the driver asserts at the end is  *)
(* short by the ignored requests exactly.                                  *)
THEOREM RequestsAreCounted ==
  ASSUME PrefixFree
  PROVE  DriverSpec => []EveryRequestCounted
  <1>1. TypeOK /\ QueueInv /\ DriverInv => EveryRequestCounted
    <2> SUFFICES ASSUME TypeOK, QueueInv, DriverInv, phase = "idle"
                 PROVE  requestKey = finished
                                     + Cardinality({r \in SeqId : status[r] = "FINISHED_IGNORED"})
                                     + Len(waiting) + Len(running) + Len(swapped)
      BY DEF EveryRequestCounted
    <2> DEFINE of(s) == {r \in SeqId : status[r] = s}
               two   == Answered \cup of("FINISHED_IGNORED")
               three == two \cup of("WAITING")
               four  == three \cup of("RUNNING")
    <2>1. Queues /\ reserved = <<>>
      BY DEF QueueInv, ErrorPhase, Alive, Queues
    <2>2. Range(running) = of("RUNNING")
      BY <2>1, EmptyQueue DEF Queues
    <2>3. /\ Len(waiting) = Cardinality(of("WAITING"))
          /\ Len(running) = Cardinality(of("RUNNING"))
          /\ Len(swapped) = Cardinality(of("SWAPPED"))
      BY <2>1, <2>2, QueueLength DEF Queues, TypeOK
    <2>4. Accepted = four \cup of("SWAPPED")
      BY DEF Accepted, Answered, DriverInv, AnswerInv, TypeOK, Statuses, FinishedStatus
    <2>5. /\ Answered \in SUBSET SeqId /\ two \in SUBSET SeqId /\ three \in SUBSET SeqId
          /\ four \in SUBSET SeqId /\ \A s \in STRING : of(s) \in SUBSET SeqId
      BY DEF Answered
    <2>6. /\ Answered \cap of("FINISHED_IGNORED") = {} /\ two \cap of("WAITING") = {}
          /\ three \cap of("RUNNING") = {} /\ four \cap of("SWAPPED") = {}
      BY DEF Answered
    <2>7. Cardinality(two) = Cardinality(Answered) + Cardinality(of("FINISHED_IGNORED"))
      BY <2>5, <2>6, DisjointCount
    <2>8. Cardinality(three) = Cardinality(two) + Cardinality(of("WAITING"))
      BY <2>5, <2>6, DisjointCount
    <2>9. Cardinality(four) = Cardinality(three) + Cardinality(of("RUNNING"))
      BY <2>5, <2>6, DisjointCount
    <2>10. Cardinality(four \cup of("SWAPPED"))
             = Cardinality(four) + Cardinality(of("SWAPPED"))
      BY <2>5, <2>6, DisjointCount
    <2>11. requestKey = Cardinality(Accepted) /\ finished = Cardinality(Answered)
      BY DEF DriverInv, KeyInv, AnswerInv
    <2> HIDE DEF two, three, four
    <2> QED  BY <2>3, <2>4, <2>7, <2>8, <2>9, <2>10, <2>11
  <1> QED  BY <1>1, DriverAlways, PTL
=============================================================================

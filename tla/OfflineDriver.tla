---------------------------- MODULE OfflineDriver ----------------------------
(***************************************************************************)
(* process_requests of the offline drivers, around the engine: all prompts *)
(* are submitted, then step() is called until nothing is left, and the     *)
(* answers are matched with the prompts.  qserve_e2e_generation.py and     *)
(* qserve_caption_rewrite.py leave their loop when a step returns nothing  *)
(* (BreakWhenEmpty); qserve_vila_caption.py goes on.                       *)
(*                                                                         *)
(* A member of SeqId is a prompt and the request made of it.  Its key in   *)
(* the engine is a number; key_id maps the keys back to the prompts.       *)
(***************************************************************************)
EXTENDS ServiceRefinement

CONSTANT BreakWhenEmpty

ASSUME DriverAssumption == BreakWhenEmpty \in BOOLEAN

VARIABLES
  mode,           \* "submit", "loop", "count", "done" or "failed"
  requestKey,     \* request_key: the key the next request gets
  keyOf,          \* [SeqId -> Nat]: seq.request_key
  keyId,          \* key_id: the prompt last submitted under a key
  finished,       \* the count of finished outputs
  answers         \* finished_dict: [SeqId -> the request whose output it got]

driverVars == <<mode, requestKey, keyOf, keyId, finished, answers>>
allVars    == <<vars, driverVars>>

Keys == 0 .. Cardinality(SeqId)

DriverInit ==
  /\ Init
  /\ mode = "submit" /\ requestKey = 0 /\ finished = 0
  /\ keyOf = [r \in SeqId |-> 0]
  /\ keyId = [k \in Keys |-> Nobody]
  /\ answers = [r \in SeqId |-> Nobody]

(* Mutant of Submit: the prompt is noted once the request is accepted,     *)
(* under the key that follows its own.                                     *)
SubmitThenNote(r, n) ==
  /\ mode = "submit"
  /\ AddRequest(r, n)
  /\ keyOf' = [keyOf EXCEPT ![r] = requestKey]
  /\ requestKey' = IF status'[r] = "REJECTED" THEN requestKey ELSE requestKey + 1
  /\ keyId' = [keyId EXCEPT ![requestKey'] = r]
  /\ UNCHANGED <<mode, finished, answers>>

(* One iteration of the first loop.  key_id is written before the request  *)
(* is accepted, the key is spent only if it is.                            *)
Submit(r, n) ==
  /\ mode = "submit"
  /\ AddRequest(r, n)
  /\ keyOf' = [keyOf EXCEPT ![r] = requestKey]
  /\ keyId' = [keyId EXCEPT ![requestKey] = r]
  /\ requestKey' = IF status'[r] = "REJECTED" THEN requestKey ELSE requestKey + 1
  /\ UNCHANGED <<mode, finished, answers>>

AllSubmitted ==
  /\ mode = "submit" /\ \A r \in SeqId : status[r] # "NEW"
  /\ mode' = "loop"
  /\ UNCHANGED <<vars, requestKey, keyOf, keyId, finished, answers>>

(* The loop calls step() while there are unfinished requests ...           *)
Looping == mode = "loop" /\ (phase = "idle" => HasUnfinished)

(* ... whose outputs are those of the scheduled groups, each with a        *)
(* "finished" flag; the count and the dictionary take the finished ones.   *)
Collect(ended) ==
  /\ finished' = finished + Cardinality(ended)
  /\ answers' = [p \in SeqId |->
                   IF \E r \in ended : keyId[keyOf[r]] = p
                   THEN CHOOSE r \in ended : keyId[keyOf[r]] = p
                   ELSE answers[p]]

StepWithOutputs ==
  /\ Looping /\ ExecuteModel
  /\ Collect({r \in Scheduled : status'[r] \in FinishedStatus})
  /\ UNCHANGED <<mode, requestKey, keyOf, keyId>>

StepWithoutOutputs ==
  /\ Looping /\ ExecuteNothing
  /\ mode' = IF BreakWhenEmpty /\ phase' = "idle" THEN "count" ELSE "loop"
  /\ UNCHANGED <<requestKey, keyOf, keyId, finished, answers>>

Scheduling == Looping /\ Schedule /\ UNCHANGED <<kv, driverVars>>

LoopEnds ==
  /\ mode = "loop" /\ phase = "idle" /\ ~HasUnfinished
  /\ mode' = "count"
  /\ UNCHANGED <<vars, requestKey, keyOf, keyId, finished, answers>>

(* assert num_test_prompts == finished                                     *)
CountAnswers ==
  /\ mode = "count"
  /\ mode' = IF requestKey = finished THEN "done" ELSE "failed"
  /\ UNCHANGED <<vars, requestKey, keyOf, keyId, finished, answers>>

RunLoop == Scheduling \/ StepWithOutputs \/ StepWithoutOutputs \/ LoopEnds

DriverNext ==
  \/ \E r \in SeqId, n \in PromptLens : Submit(r, n)
  \/ AllSubmitted \/ RunLoop \/ CountAnswers

(* The driver is one thread that only waits for the engine it calls.       *)
DriverSpec     == DriverInit /\ [][DriverNext]_allVars
FairDriverSpec == DriverSpec /\ WF_allVars(DriverNext)

-----------------------------------------------------------------------------
(* Properties                                                              *)

Ended == mode \in {"done", "failed"}

(* Whatever is turned down, ignored or preempted on the way, a prompt gets *)
(* the answer of its own request and no other, and the prompts with an     *)
(* answer are those whose request was answered: keys that rejected         *)
(* requests leave to the next one never mix two prompts up.                *)
AnswersMatchPrompts ==
  phase = "idle" => \A r \in SeqId :
    answers[r] = IF StageOf(status[r]) = "answered" THEN r ELSE Nobody

(* Every request accepted is answered, ignored or still with the engine    *)
(* between two calls of step(): the count the driver asserts at the end    *)
(* misses the ignored requests and nothing else.                           *)
EveryRequestCounted ==
  phase = "idle" =>
    requestKey = finished + Cardinality({r \in SeqId : status[r] = "FINISHED_IGNORED"})
                 + Len(waiting) + Len(running) + Len(swapped)

(* The driver ends: every prompt is submitted, every request taken in is   *)
(* answered or ignored, and the loop is left.                              *)
DriverEnds == <>Ended
=============================================================================

-------------------------- MODULE ServiceRefinement --------------------------
(***************************************************************************)
(* LLMEngine implements TokenService: queues, blocks, preemption, swapping *)
(* and the phases of step() are invisible to the caller.                   *)
(***************************************************************************)
EXTENDS LLMEngine

(* The stage a caller can tell a status by.                                *)
StageOf(s) ==
  CASE s = "NEW"      -> "new"
    [] s = "REJECTED" -> "refused"
    [] s \in {"WAITING", "RUNNING", "SWAPPED"} -> "live"
    [] s \in {"FINISHED_STOPPED", "FINISHED_LENGTH_CAPPED"} -> "answered"
    [] s = "FINISHED_IGNORED" -> "ignored"
    [] s = "FINISHED_ABORTED" -> "aborted"

Stage == [r \in SeqId |-> StageOf(status[r])]

Service == INSTANCE TokenService WITH
             Request <- SeqId, stage <- Stage, tokens <- outLen

(* Every step of the engine is one of the service's or invisible: no       *)
(* preemption loses a token, nothing finished is ever served again, and    *)
(* no answer is longer than max_tokens.                                    *)
ImplementsService == Service!Spec

(* And the engine keeps the service's promise of progress: as long as a    *)
(* request is live, step() serves a token or ignores a request.            *)
KeepsServing == Service!FairSpec
=============================================================================

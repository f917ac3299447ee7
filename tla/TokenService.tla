---------------------------- MODULE TokenService ----------------------------
(***************************************************************************)
(* What LLMEngine promises its callers, with no queue, block or batch      *)
(* policy in sight: a request that was taken in is served tokens, several  *)
(* requests at a time, until it is answered; it may be ignored or aborted  *)
(* before that, and whatever becomes of it is final.  The interface is     *)
(* that of add_request, abort_request and step (llm_engine.py).            *)
(***************************************************************************)
EXTENDS Naturals

CONSTANTS Request, MaxTokens

VARIABLES
  stage,      \* [Request -> Stages]
  tokens      \* [Request -> 0 .. MaxTokens], the tokens generated so far

vars == <<stage, tokens>>

Stages == {"new", "refused", "live", "answered", "ignored", "aborted"}
Live   == {r \in Request : stage[r] = "live"}

TypeOK == stage \in [Request -> Stages] /\ tokens \in [Request -> 0 .. MaxTokens]

Init == stage = [r \in Request |-> "new"] /\ tokens = [r \in Request |-> 0]

Move(r, from, to) ==
  stage[r] = from /\ stage' = [stage EXCEPT ![r] = to] /\ UNCHANGED tokens

Submit(r) == Move(r, "new", "live")
Refuse(r) == Move(r, "new", "refused")
Abort(r)  == Move(r, "live", "aborted")
Ignore(r) == Move(r, "live", "ignored")

(* One model run: one token for each of a batch of live requests; those    *)
(* whose answer is complete, by length at the latest, end with it.         *)
Serve(batch, answered) ==
  /\ batch \subseteq Live /\ batch # {}
  /\ answered \subseteq batch
  /\ {r \in batch : tokens[r] + 1 >= MaxTokens} \subseteq answered
  /\ stage' = [r \in Request |-> IF r \in answered THEN "answered" ELSE stage[r]]
  /\ tokens' = [r \in Request |-> IF r \in batch THEN tokens[r] + 1 ELSE tokens[r]]

Progress ==
  \/ \E batch, answered \in SUBSET Request : Serve(batch, answered)
  \/ \E r \in Request : Ignore(r)

Next ==
  \/ \E r \in Request : Submit(r) \/ Refuse(r) \/ Abort(r)
  \/ Progress

Spec     == Init /\ [][Next]_vars
FairSpec == Spec /\ WF_vars(Progress)
=============================================================================

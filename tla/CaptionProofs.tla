--------------------------- MODULE CaptionProofs ---------------------------
(***************************************************************************)
(* Theorems about a caption job, for any number of samples, any batch size *)
(* and any number of runs, each killed anywhere.                           *)
(*                                                                         *)
(* What the files hold is decided long before it is written: JobInv says   *)
(* what the process' memory must hold meanwhile (Memory), that it is never *)
(* behind the file (Behind), and where the copies of a first run are       *)
(* (Copies).                                                               *)
(***************************************************************************)
EXTENDS CaptionJob, TLAPS

InLoop == {"batch", "save", "write", "final", "rewrite"}

Memory ==
  /\ pc \in {"save", "write"} => start < NumKeys /\ Batch \subseteq results
  /\ pc \in {"batch", "save", "write"} => {k \in Key : k <= start} \subseteq results
  /\ pc \in {"final", "rewrite"} => results = Key
  /\ pc \in {"cleanup", "exited"} => json = Whole(Key)

Behind ==
  /\ json.state = "whole" => saved \subseteq json.done
  /\ json.state = "absent" => saved = {}
  /\ pc \in InLoop => saved \subseteq results

Copies ==
  script = "rewrite" /\ runs <= 1 =>
    /\ "whole" \in {json.state, backup.state}
    /\ runs = 0 => json.state = "whole" /\ pc = "down"
    /\ pc \in {"copy", "cleanup"} => json.state = "whole"
    /\ pc \in InLoop \cup {"load"} => backup.state = "whole"

JobInv == TypeOK /\ Memory /\ Behind /\ Copies /\ GivesUpForAReason

-----------------------------------------------------------------------------
LEMMA FileFacts ==
  ASSUME NEW f \in Files
  PROVE  /\ f.done \subseteq Key /\ f.state \in {"absent", "torn", "whole"}
         /\ f.state = "whole" => f = Whole(f.done)
         /\ f.state # "whole" => f.done = {}
  BY DEF Files, Absent, Torn, Whole

LEMMA WholeFacts ==
  ASSUME NEW ks \in SUBSET Key
  PROVE  Whole(ks) \in Files /\ Whole(ks).state = "whole" /\ Whole(ks).done = ks
  BY DEF Files, Whole

LEMMA OtherFiles ==
  /\ Absent \in Files /\ Absent.state = "absent" /\ Absent.done = {}
  /\ Torn \in Files /\ Torn.state = "torn" /\ Torn.done = {}
  BY DEF Files, Absent, Torn

LEMMA KeysExist == Key # {} /\ \A k \in Key : k \in Nat /\ 1 <= k /\ k <= NumKeys
  <1>1. 1 \in Key
    BY CaptionAssumption DEF Key
  <1> QED  BY <1>1, CaptionAssumption DEF Key

LEMMA JobInit == Init => JobInv
  <1> SUFFICES ASSUME Init
               PROVE  JobInv
    OBVIOUS
  <1>1. PICK ks \in SUBSET Key :
          /\ json \in IF script = "rewrite" THEN {Whole(ks)} ELSE {Whole(ks), Absent}
          /\ saved = json.done
    BY DEF Init
  <1>2. json \in Files /\ saved \subseteq Key
    BY <1>1, WholeFacts, OtherFiles
  <1>3. TypeOK
    BY <1>2, OtherFiles, CaptionAssumption DEF Init, TypeOK
  <1>4. Memory /\ GivesUpForAReason
    BY DEF Init, Memory, GivesUpForAReason
  <1>5. Behind
    BY <1>1, <1>2, WholeFacts, OtherFiles DEF Init, Behind, InLoop
  <1>6. Copies
    BY <1>1, WholeFacts DEF Init, Copies, InLoop
  <1> QED  BY <1>3, <1>4, <1>5, <1>6 DEF JobInv

(* Every step keeps JobInv.                                                *)
LEMMA JobStep ==
  ASSUME JobInv, [Next]_vars
  PROVE  JobInv'
  <1> USE CaptionAssumption DEF Goto, Idle, disk
  <1>0. /\ TypeOK /\ Memory /\ Behind /\ Copies /\ GivesUpForAReason
        /\ json \in Files /\ backup \in Files
    BY DEF JobInv, TypeOK
  <1>1. CASE StartRun
    <2>1. pc' \in {"copy", "load"} /\ (script = "rewrite" => pc' = "copy")
      BY <1>1 DEF StartRun
    <2>2. TypeOK'
      BY <1>0, <1>1, OtherFiles DEF StartRun, TypeOK
    <2>3. Memory' /\ GivesUpForAReason'
      BY <2>1 DEF Memory, GivesUpForAReason
    <2>4. Behind'
      BY <1>0, <1>1, <2>1 DEF StartRun, Behind, InLoop
    <2>5. Copies'
      BY <1>0, <1>1, <2>1 DEF StartRun, Copies, InLoop, TypeOK
    <2> QED  BY <2>2, <2>3, <2>4, <2>5 DEF JobInv
  <1>2. CASE CopyBackup
    <2>1. pc = "copy" /\ pc' = "load" /\ backup' = json /\ json' = json
      BY <1>2 DEF CopyBackup
    <2>2. TypeOK'
      BY <1>0, <1>2 DEF CopyBackup, TypeOK
    <2>3. Memory' /\ GivesUpForAReason'
      BY <2>1 DEF Memory, GivesUpForAReason
    <2>4. Behind'
      BY <1>0, <1>2, <2>1 DEF CopyBackup, Behind, InLoop
    <2>5. Copies'
      BY <1>0, <1>2, <2>1 DEF CopyBackup, Copies, InLoop
    <2> QED  BY <2>2, <2>3, <2>4, <2>5 DEF JobInv
  <1>3. CASE LoadResults
    <2>1. CASE json.state = "torn"
      <3>1. pc' = "failed" /\ UNCHANGED <<script, hopeless, disk, results, start, runs, saved>>
        BY <1>3, <2>1 DEF LoadResults
      <3> QED
        BY <1>0, <1>3, <2>1, <3>1
        DEF LoadResults, JobInv, TypeOK, Memory, Behind, Copies, GivesUpForAReason, InLoop
    <2>2. CASE json.state # "torn"
      <3>1. /\ pc = "load" /\ pc' \in {"batch", "exited"} /\ results' = json.done /\ start' = 0
            /\ pc' = "exited" => json.done = Key
            /\ UNCHANGED <<script, hopeless, disk, runs, saved>>
        BY <1>3, <2>2 DEF LoadResults
      <3>2. saved \subseteq json.done
        BY <1>0, <2>2, FileFacts DEF Behind
      <3>3. json.done = Key => json = Whole(Key)
        BY <1>0, FileFacts, KeysExist
      <3>4. {k \in Key : k <= 0} = {}
        BY KeysExist
      <3>5. TypeOK'
        BY <1>0, <3>1, FileFacts DEF TypeOK
      <3>6. Memory' /\ GivesUpForAReason'
        BY <3>1, <3>3, <3>4 DEF Memory, GivesUpForAReason
      <3>7. Behind'
        BY <1>0, <3>1, <3>2 DEF Behind
      <3>8. Copies'
        BY <1>0, <3>1 DEF Copies, InLoop
      <3> QED  BY <3>5, <3>6, <3>7, <3>8 DEF JobInv
    <2> QED  BY <2>1, <2>2
  <1>n. ASSUME NEW k \in Key, k <= start + BatchSize, start < NumKeys, start \in Nat
        PROVE  k <= start \/ k \in Batch
    BY <1>n, KeysExist DEF Batch
  <1>4. CASE SkipBatch
    <2>1. /\ pc = "batch" /\ pc' = "batch" /\ start < NumKeys /\ start' = start + BatchSize
          /\ Batch \subseteq results
          /\ UNCHANGED <<script, hopeless, disk, results, runs, saved>>
      BY <1>4 DEF SkipBatch, AlreadyCaptioned
    <2>2. TypeOK'
      BY <1>0, <2>1 DEF TypeOK
    <2>3. {k \in Key : k <= start'} \subseteq results
      BY <1>0, <1>n, <2>1 DEF Memory, TypeOK
    <2>4. Key' = Key
      BY DEF Key
    <2> QED
      BY <1>0, <2>1, <2>2, <2>3, <2>4 DEF JobInv, Memory, Behind, Copies, GivesUpForAReason, InLoop
  <1>5. CASE CaptionBatch
    <2>1. CASE Batch \cap hopeless = {}
      <3>1. /\ pc = "batch" /\ pc' = "save" /\ start < NumKeys /\ results' = results \cup Batch
            /\ UNCHANGED <<script, hopeless, disk, start, runs, saved>>
        BY <1>5, <2>1 DEF CaptionBatch
      <3>2. Batch \subseteq Key /\ Batch' = Batch
        BY <3>1 DEF Batch
      <3>3. TypeOK'
        BY <1>0, <3>1, <3>2 DEF TypeOK
      <3>4. Memory' /\ GivesUpForAReason'
        BY <1>0, <3>1, <3>2 DEF Memory, GivesUpForAReason
      <3>5. Behind' /\ Copies'
        BY <1>0, <3>1 DEF Behind, Copies, InLoop
      <3> QED  BY <3>3, <3>4, <3>5 DEF JobInv
    <2>2. CASE Batch \cap hopeless # {}
      <3>1. /\ pc = "batch" /\ pc' = "failed" /\ hopeless' # {}
            /\ UNCHANGED <<script, hopeless, disk, results, start, runs, saved>>
        BY <1>5, <2>2 DEF CaptionBatch
      <3> QED
        BY <1>0, <3>1 DEF JobInv, TypeOK, Memory, Behind, Copies, GivesUpForAReason, InLoop
    <2> QED  BY <2>1, <2>2
  <1>6. ASSUME NEW from, NEW to, OpenFile(from, to),
               <<from, to>> \in {<<"save", "write">>, <<"final", "rewrite">>}
        PROVE  JobInv'
    <2>1. /\ pc = from /\ pc' = to /\ json' = Torn
          /\ UNCHANGED <<script, hopeless, backup, results, start, runs, saved>>
      BY <1>6 DEF OpenFile
    <2>2. Batch' = Batch
      BY <2>1 DEF Batch
    <2>3. TypeOK'
      BY <1>0, <1>6, <2>1, OtherFiles DEF TypeOK
    <2>4. Memory' /\ GivesUpForAReason'
      BY <1>0, <1>6, <2>1, <2>2 DEF Memory, GivesUpForAReason
    <2>5. Behind' /\ Copies'
      BY <1>0, <1>6, <2>1, OtherFiles DEF Behind, Copies, InLoop
    <2> QED  BY <2>3, <2>4, <2>5 DEF JobInv
  <1>7. ASSUME NEW from, NEW to, DumpFile(from, to),
               \/ from = "write" /\ to = "batch" /\ start' = start + BatchSize
               \/ from = "rewrite" /\ to = "cleanup" /\ start' = start
        PROVE  JobInv'
    <2>1. /\ pc = from /\ pc' = to /\ json' = Whole(results) /\ saved' = saved \cup results
          /\ UNCHANGED <<script, hopeless, backup, results, runs>>
      BY <1>7 DEF DumpFile
    <2>2. /\ json' \in Files /\ json'.state = "whole" /\ json'.done = results
          /\ saved \subseteq results
      BY <1>0, <1>7, <2>1, WholeFacts DEF TypeOK, Behind, InLoop
    <2>3. TypeOK'
      BY <1>0, <1>7, <2>1, <2>2 DEF TypeOK, Memory
    <2>4. pc' = "batch" => {k \in Key : k <= start'} \subseteq results
      BY <1>0, <1>7, <1>n, <2>1 DEF Memory, TypeOK
    <2>5. Memory' /\ GivesUpForAReason'
      BY <1>0, <1>7, <2>1, <2>4 DEF Memory, GivesUpForAReason
    <2>6. Behind'
      BY <1>7, <2>1, <2>2 DEF Behind, InLoop
    <2>7. Copies'
      BY <1>0, <1>7, <2>1, <2>2 DEF Copies, InLoop
    <2> QED  BY <2>3, <2>5, <2>6, <2>7 DEF JobInv
  <1>8. CASE LastBatchDone
    <2>1. /\ pc = "batch" /\ pc' = "final" /\ start >= NumKeys
          /\ UNCHANGED <<script, hopeless, disk, results, start, runs, saved>>
      BY <1>8 DEF LastBatchDone
    <2>2. results = Key
      BY <1>0, <2>1, KeysExist DEF Memory, TypeOK
    <2> QED
      BY <1>0, <2>1, <2>2 DEF JobInv, TypeOK, Memory, Behind, Copies, GivesUpForAReason, InLoop
  <1>9. CASE CleanUp
    <2>1. /\ pc = "cleanup" /\ pc' = "exited"
          /\ backup' = IF script = "rewrite" THEN Absent ELSE backup
          /\ UNCHANGED <<script, hopeless, json, results, start, runs, saved>>
      BY <1>9 DEF CleanUp
    <2>2. TypeOK'
      BY <1>0, <2>1, OtherFiles DEF TypeOK
    <2> QED
      BY <1>0, <2>1, <2>2 DEF JobInv, Memory, Behind, Copies, GivesUpForAReason, InLoop
  <1>10. CASE Crash
    <2>1. /\ Running /\ pc' = "down" /\ results' = {} /\ start' = 0
          /\ UNCHANGED <<script, hopeless, disk, runs, saved>>
      BY <1>10 DEF Crash
    <2>2. TypeOK'
      BY <1>0, <2>1 DEF TypeOK
    <2>3. Memory' /\ GivesUpForAReason' /\ Behind'
      BY <1>0, <2>1 DEF Memory, GivesUpForAReason, Behind, InLoop
    <2>4. Copies'
      BY <1>0, <2>1 DEF Copies, InLoop, Running
    <2> QED  BY <2>2, <2>3, <2>4 DEF JobInv
  <1>11. CASE UNCHANGED vars
    BY <1>0, <1>11
    DEF vars, JobInv, TypeOK, Memory, Behind, Copies, GivesUpForAReason, InLoop, Batch
  <1> QED
    BY <1>1, <1>2, <1>3, <1>4, <1>5, <1>6, <1>7, <1>8, <1>9, <1>10, <1>11
    DEF Next, Work, SaveBatch, SaveAll

LEMMA JobAlways == Spec => []JobInv
  BY JobInit, JobStep, PTL DEF Spec

-----------------------------------------------------------------------------
(* Files, memory and loop index stay within their types, also where the    *)
(* last batch is shorter than the others.                                  *)
THEOREM JobTypeCorrect == Spec => []TypeOK
  BY JobAlways, PTL DEF JobInv

(* No kill, restart or change of batch size makes a readable file lose a   *)
(* caption that a readable file had.                                       *)
THEOREM CaptionsKept == Spec => []CaptionsOnlyGrow
  <1>1. JobInv => CaptionsOnlyGrow
    BY DEF JobInv, Behind, CaptionsOnlyGrow
  <1> QED  BY <1>1, JobAlways, PTL

(* Skipped batches or not, a job that ends well has captioned them all.    *)
THEOREM ExitIsComplete == Spec => []ExitMeansComplete
  <1>1. JobInv => ExitMeansComplete
    BY DEF JobInv, Memory, ExitMeansComplete
  <1> QED  BY <1>1, JobAlways, PTL

(* Wherever a first run of the rewriting job is killed, a copy of its file *)
(* can be read.                                                            *)
THEOREM FirstRunIsSafe == Spec => []FirstRunKeepsACopy
  <1>1. JobInv => FirstRunKeepsACopy
    BY DEF JobInv, Copies, FirstRunKeepsACopy
  <1> QED  BY <1>1, JobAlways, PTL

(* A run fails for one of two reasons only: a prompt without an answer, or *)
(* a file left truncated by a kill.                                        *)
THEOREM FailsForAReason == Spec => []GivesUpForAReason
  BY JobAlways, PTL DEF JobInv
=============================================================================

----------------------------- MODULE CaptionJob -----------------------------
(***************************************************************************)
(* The main() of qserve_vila_caption.py ("caption") and                    *)
(* qserve_caption_rewrite.py ("rewrite"): a job captions the samples of a  *)
(* JSON file batch by batch, saves the file after every batch and, when it *)
(* was killed, is started again and goes on from what the file holds.      *)
(*                                                                         *)
(* Of process_requests (OfflineDriver) the job sees whether every key of   *)
(* the batch got an answer: if a request was ignored its assertion fails,  *)
(* if one was rejected the look-up of its answer does.                     *)
(***************************************************************************)
EXTENDS Naturals

CONSTANTS
  NumKeys,      \* samples in the file; the keys are 1 .. NumKeys, sorted
  BatchSize,    \* args.max_num_seqs
  MaxRuns       \* how often the job is started, a bound for TLC

ASSUME CaptionAssumption ==
  NumKeys \in Nat \ {0} /\ BatchSize \in Nat \ {0} /\ MaxRuns \in Nat

VARIABLES
  script,       \* which of the two scripts it is
  hopeless,     \* the keys whose prompts are rejected or ignored
  json, backup, \* the two files on disk
  pc,           \* where the process is; "down": not running
  results,      \* the keys with a caption, in the process' memory
  start,        \* batch_start
  runs,         \* how often the job was started
  saved         \* history: the keys a complete JSON file ever had captions for

disk == <<json, backup>>
vars == <<script, hopeless, disk, pc, results, start, runs, saved>>

Key       == 1 .. NumKeys
Absent    == [state |-> "absent", done |-> {}]
Torn      == [state |-> "torn", done |-> {}]
Whole(ks) == [state |-> "whole", done |-> ks]
Files     == {Absent, Torn} \cup {Whole(ks) : ks \in SUBSET Key}

(* Earlier runs, with other batch sizes, may have captioned any keys.  The *)
(* file to rewrite exists; that of captions is made by the job.            *)
Init ==
  /\ script \in {"caption", "rewrite"} /\ hopeless \in SUBSET Key
  /\ \E ks \in SUBSET Key :
       /\ json \in IF script = "rewrite" THEN {Whole(ks)} ELSE {Whole(ks), Absent}
       /\ saved = json.done
  /\ backup = Absent
  /\ pc = "down" /\ results = {} /\ start = 0 /\ runs = 0

Goto(label) == pc' = label
Idle == UNCHANGED <<script, hopeless>>

-----------------------------------------------------------------------------
(* The job is started, the first time or once more, whatever became of its *)
(* last run.  os.system(f"cp {json_path} {json_path}.backup"), not atomic. *)
Running == pc \notin {"down", "exited", "failed"}

StartRun ==
  /\ ~Running /\ runs < MaxRuns
  /\ runs' = runs + 1 /\ results' = {} /\ start' = 0
  /\ IF script = "rewrite"
     THEN backup' = Torn /\ Goto("copy")
     ELSE UNCHANGED backup /\ Goto("load")
  /\ Idle /\ UNCHANGED <<json, saved>>

CopyBackup ==
  /\ pc = "copy"
  /\ backup' = json /\ Goto("load")
  /\ Idle /\ UNCHANGED <<json, results, start, runs, saved>>

(* Mutant of LoadResults: the file's captions are not taken over.          *)
LoadNothing ==
  /\ pc = "load" /\ json.state # "torn"
  /\ results' = {} /\ start' = 0 /\ Goto("batch")
  /\ Idle /\ UNCHANGED <<disk, runs, saved>>

(* A truncated file does not parse.  The rewriting job counts its samples  *)
(* and leaves at once when all are done; the captioning job only knows     *)
(* their number if it is given an info file.                               *)
LoadResults ==
  /\ pc = "load"
  /\ IF json.state = "torn"
     THEN Goto("failed") /\ UNCHANGED <<results, start>>
     ELSE /\ results' = json.done /\ start' = 0
          /\ \/ json.done = Key /\ Goto("exited")
             \/ (json.done = Key => script = "caption") /\ Goto("batch")
  /\ Idle /\ UNCHANGED <<disk, runs, saved>>

Batch == {k \in Key : start < k /\ k <= start + BatchSize}

(* Mutant of AlreadyCaptioned: any for all.                                *)
AnyCaptioned == Batch \cap results # {}
AlreadyCaptioned == Batch \subseteq results

(* Mutant of SkipBatch: the loop does not get to the next batch.           *)
SkipInPlace ==
  /\ pc = "batch" /\ start < NumKeys /\ AlreadyCaptioned
  /\ UNCHANGED vars

SkipBatch ==
  /\ pc = "batch" /\ start < NumKeys /\ AlreadyCaptioned
  /\ start' = start + BatchSize
  /\ Idle /\ UNCHANGED <<disk, pc, results, runs, saved>>

(* process_requests and the loop that takes its outputs over.              *)
CaptionBatch ==
  /\ pc = "batch" /\ start < NumKeys /\ ~AlreadyCaptioned
  /\ IF Batch \cap hopeless = {}
     THEN results' = results \cup Batch /\ Goto("save")
     ELSE UNCHANGED results /\ Goto("failed")
  /\ Idle /\ UNCHANGED <<disk, start, runs, saved>>

(* open(json_path, 'w') truncates the file, json.dump fills it.            *)
OpenFile(from, to) ==
  /\ pc = from
  /\ json' = Torn /\ Goto(to)
  /\ Idle /\ UNCHANGED <<backup, results, start, runs, saved>>

DumpFile(from, to) ==
  /\ pc = from
  /\ json' = Whole(results) /\ saved' = saved \cup results /\ Goto(to)
  /\ Idle /\ UNCHANGED <<backup, results, runs>>

SaveBatch ==
  \/ OpenFile("save", "write")
  \/ DumpFile("write", "batch") /\ start' = start + BatchSize

LastBatchDone ==
  /\ pc = "batch" /\ start >= NumKeys
  /\ Goto("final")
  /\ Idle /\ UNCHANGED <<disk, results, start, runs, saved>>

(* Mutant of SaveAll: the backup is removed before the last save.          *)
CleanUpFirst ==
  \/ /\ pc = "final" /\ Goto("rewrite")
     /\ backup' = Absent /\ json' = Torn
     /\ Idle /\ UNCHANGED <<results, start, runs, saved>>
  \/ DumpFile("rewrite", "cleanup") /\ UNCHANGED start

SaveAll ==
  \/ OpenFile("final", "rewrite")
  \/ DumpFile("rewrite", "cleanup") /\ UNCHANGED start

(* os.system(f"rm {json_path}.backup"), in the rewriting job.              *)
CleanUp ==
  /\ pc = "cleanup"
  /\ backup' = IF script = "rewrite" THEN Absent ELSE backup
  /\ Goto("exited")
  /\ Idle /\ UNCHANGED <<json, results, start, runs, saved>>

Work ==
  \/ CopyBackup \/ LoadResults \/ SkipBatch \/ CaptionBatch \/ SaveBatch
  \/ LastBatchDone \/ SaveAll \/ CleanUp

(* The process is killed: what it had in memory is gone.                   *)
Crash ==
  /\ Running
  /\ Goto("down") /\ results' = {} /\ start' = 0
  /\ Idle /\ UNCHANGED <<disk, runs, saved>>

Next == StartRun \/ Work \/ Crash

(* A process that runs goes on; nobody has to start or kill it.            *)
Spec == Init /\ [][Next]_vars /\ WF_vars(Work)

-----------------------------------------------------------------------------
(* Properties                                                              *)

(* Type invariant.                                                         *)
TypeOK ==
  /\ script \in {"caption", "rewrite"} /\ hopeless \subseteq Key
  /\ json \in Files /\ backup \in Files
  /\ pc \in {"down", "copy", "load", "batch", "save", "write", "final", "rewrite",
             "cleanup", "exited", "failed"}
  /\ results \subseteq Key /\ saved \subseteq Key
  /\ start \in 0 .. NumKeys + BatchSize /\ runs \in 0 .. MaxRuns

(* Kills and restarts never make a readable file go back: what a complete  *)
(* file had a caption for, every later complete file has one for.          *)
CaptionsOnlyGrow == json.state = "whole" => saved \subseteq json.done

(* A job that ends well has captioned every sample, in this run or in      *)
(* earlier ones, whatever the batch sizes were.                            *)
ExitMeansComplete == pc = "exited" => json = Whole(Key)

(* In its first run the rewriting job keeps a readable copy of its file at *)
(* every moment, wherever it is killed (the backup of lines 143-144).      *)
FirstRunKeepsACopy ==
  script = "rewrite" /\ runs <= 1 => "whole" \in {json.state, backup.state}

(* In any run: the backup is there to survive a kill.                      *)
ACopySurvives ==
  script = "rewrite" => "whole" \in {json.state, backup.state}

(* The job gives up only over a prompt that gets no answer or a file that  *)
(* an earlier run left truncated.                                          *)
GivesUpForAReason ==
  pc = "failed" => json.state = "torn" \/ hopeless # {}

(* A job that is not killed ends.                                          *)
RunEnds == Running ~> ~Running
=============================================================================

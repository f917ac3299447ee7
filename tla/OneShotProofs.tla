--------------------------- MODULE OneShotProofs ---------------------------
(***************************************************************************)
(* The engine without in-flight batching, for any sizes of the job, any    *)
(* pool and any limits.                                                    *)
(*                                                                         *)
(* The batch is scheduled once and then trusted: JobInv says what the one  *)
(* call of schedule() leaves (requests taken in the order they came, so    *)
(* that sequence 0 is the first of a benchmark's batch), that the batch    *)
(* stays in step and ends together, and what the drivers have counted at   *)
(* every step.                                                             *)
(* TableInv says that the tables share no block, and that the launcher's   *)
(* pool has blocks for all; KvInv that they keep what is written.          *)
(***************************************************************************)
EXTENDS OneShotEngine, FiniteSetTheorems, SequenceTheorems, TLAPS

(* The job: what Init chooses and no step changes.                         *)
Accepted == {job.accepted[n] : n \in 1 .. Len(job.accepted)}

Uniform ==
  /\ Len(job.accepted) = IF job.prompt[0] < MaxModelLen THEN job.batch ELSE 0
  /\ job.accepted # <<>> => job.accepted[1] = 0
  /\ \A s \in Ids : job.prompt[s] = job.prompt[0]
  /\ job.initBlocks = CeilDiv(job.prompt[0] + job.gen, BlockSize)
  /\ job.pool = LauncherPool(job.batch, job.prompt[0], job.gen) + job.spare

JobOK ==
  /\ job.driver \in {"benchmark", "e2e"} /\ job.benchmarking \in BOOLEAN
  /\ job.batch \in Nat \ {0} /\ job.gen \in Nat \ {0} /\ job.pool \in Nat \ {0}
  /\ job.img \in Nat /\ job.spare \in Int /\ job.initBlocks \in Nat
  /\ job.prompt \in [Ids -> Nat \ {0}]
  /\ job.accepted \in Seq(Ids) /\ Cardinality(Accepted) = Len(job.accepted)
  /\ \A m, n \in 1 .. Len(job.accepted) : m < n => job.accepted[m] < job.accepted[n]
  /\ Profiling => Uniform
  /\ ~Profiling => job.gen > 1 /\ job.img = 0 /\ ~job.benchmarking

(* The requests come to the scheduler in the order of their numbers: the   *)
(* first Taken of them have been admitted or ignored.                      *)
Taken    == Len(job.accepted) - Len(waiting)
Statuses == {"REFUSED", "WAITING", "RUNNING", "FINISHED", "FINISHED_IGNORED"}

InOrder ==
  /\ waiting \in Seq(Ids) /\ meta \in Seq(Ids)
  /\ Len(waiting) <= Len(job.accepted) /\ Len(meta) <= Taken
  /\ \A n \in 1 .. Len(waiting) : waiting[n] = job.accepted[Taken + n]
  /\ \A s \in Members : \E n \in 1 .. Taken : s = job.accepted[n]
  /\ status \in [Ids -> Statuses]
  /\ \A n \in Taken + 1 .. Len(job.accepted) : status[job.accepted[n]] = "WAITING"
  /\ \A s \in Ids : status[s] \in {"RUNNING", "FINISHED"} <=> s \in Members
  /\ \A s \in Ids : status[s] = "REFUSED" <=> s \notin Accepted

(* All members of the batch are in step, from its only prompt run on.      *)
InStep ==
  /\ phase \in {"admit", "run", "count", "done", "raised"} /\ firstRun \in BOOLEAN
  /\ iter \in Nat \ {0} /\ numTokens \in Nat /\ outLen \in [Ids -> Nat]
  /\ firstRun <=> iter = 1
  /\ iter > 1 => job.img = 0
  /\ \A s \in Ids : outLen[s] = IF s \in Members THEN iter - 1 ELSE 0
  /\ phase = "admit" => iter = 1 /\ \A s \in Members : status[s] = "RUNNING"
  /\ phase \in {"run", "count", "done"} => meta # <<>> \/ job.accepted = <<>>

(* A benchmark finishes nobody before its last step, and then all of them; *)
(* the first request is the first of the batch: if it is ignored, so are   *)
(* the others.                                                             *)
TooLong(s) ==
  job.prompt[s] > PromptLimit \/ job.pool - BlocksToAllocate(s) < WatermarkBlocks

Benchmark ==
  /\ numTokens = Len(meta) * (iter - 1)
  /\ phase = "run" /\ meta # <<>> =>
       \/ iter <= Steps /\ \A s \in Members : status[s] = "RUNNING"
       \/ /\ iter = Steps + 1 /\ Steps < job.gen
          /\ \A s \in Members : status[s] = "FINISHED"
  /\ phase = "done" /\ meta # <<>> => iter = Steps + 1
  /\ phase # "count"
  /\ meta # <<>> => meta[1] = 0 /\ job.accepted # <<>>
  /\ meta = <<>> /\ Taken > 0 => TooLong(0)
  /\ phase = "raised" =>
       meta = <<>> \/ job.img > 0 \/ (Steps < job.gen /\ waiting # <<>>)

Finished == {s \in Ids : status[s] = "FINISHED"}

Generation ==
  /\ numTokens = Cardinality(Finished)
  /\ phase = "done" => numTokens = Len(job.accepted)

JobInv == /\ JobOK /\ InOrder /\ InStep
          /\ Profiling => Benchmark
          /\ ~Profiling => Generation

-----------------------------------------------------------------------------
LEMMA CeilDivBounds ==
  ASSUME NEW a \in Nat, NEW b \in Nat \ {0}
  PROVE  CeilDiv(a, b) \in Nat /\ a <= CeilDiv(a, b) * b /\ (a > 0 => CeilDiv(a, b) > 0)
  <1> DEFINE x == a + b - 1
             q == x \div b
  <1>1. x \in Nat /\ q \in Nat /\ x < q * b + b /\ q * b \in Nat
    OBVIOUS
  <1>2. CeilDiv(a, b) = q
    BY DEF CeilDiv
  <1> HIDE DEF q
  <1>3. a <= q * b
    BY <1>1
  <1>4. q = 0 => q * b = 0
    BY <1>1
  <1> QED  BY <1>1, <1>2, <1>3, <1>4

LEMMA MaxOfPair ==
  ASSUME NEW a \in Int, NEW b \in Int
  PROVE  MaxOf({a, b}) = IF a <= b THEN b ELSE a
  <1> DEFINE m == IF a <= b THEN b ELSE a
  <1>1. m \in {a, b} /\ \A y \in {a, b} : y <= m
    OBVIOUS
  <1>2. \A x \in {a, b} : (\A y \in {a, b} : y <= x) => x = m
    OBVIOUS
  <1> HIDE DEF m
  <1>3. (CHOOSE x \in {a, b} : \A y \in {a, b} : y <= x) = m
    BY <1>1, <1>2
  <1> QED  BY <1>3 DEF MaxOf, m

LEMMA MaxOfOne ==
  ASSUME NEW a \in Int
  PROVE  MaxOf({a}) = a
  BY DEF MaxOf

LEMMA BlocksBounds ==
  ASSUME JobOK, NEW s \in Ids
  PROVE  /\ BlocksToAllocate(s) \in Nat \ {0}
         /\ job.initBlocks <= BlocksToAllocate(s)
  <1>1. job.prompt[s] + job.img \in Nat \ {0} /\ BlockSize \in Nat \ {0}
    BY OneShotAssumption DEF JobOK
  <1>2. LogicalBlocks(s) \in Nat \ {0}
    BY <1>1, CeilDivBounds DEF LogicalBlocks
  <1>3. job.initBlocks \in Nat
    BY DEF JobOK
  <1>4. BlocksToAllocate(s) = IF job.initBlocks <= LogicalBlocks(s) THEN LogicalBlocks(s)
                              ELSE job.initBlocks
    BY <1>2, <1>3, MaxOfPair DEF BlocksToAllocate
  <1> QED  BY <1>2, <1>3, <1>4

LEMMA MinOfNat ==
  ASSUME NEW a \in Int, NEW b \in Int
  PROVE  MinOf(a, b) \in Int /\ MinOf(a, b) <= a /\ MinOf(a, b) <= b /\ MinOf(a, b) \in {a, b}
  BY DEF MinOf

LEMMA ZeroIsAnId == JobOK => 0 \in Ids
  BY DEF JobOK, Ids

(* The steps of a benchmark, if its prompts are accepted.                  *)
LEMMA StepsFacts ==
  ASSUME JobOK, Profiling, job.accepted # <<>>
  PROVE  /\ Steps \in Nat \ {0} /\ Steps <= job.gen /\ job.gen \in Nat
         /\ job.benchmarking => Steps = job.gen
         /\ ~job.benchmarking => Steps <= MaxModelLen + 1 - job.prompt[0]
         /\ Steps < job.gen => Steps = MaxModelLen + 1 - job.prompt[0]
         /\ job.prompt[0] \in Nat /\ MaxModelLen \in Nat
  <1>1. /\ job.gen \in Nat \ {0} /\ job.prompt[0] \in Nat \ {0} /\ MaxModelLen \in Nat
    BY ZeroIsAnId, OneShotAssumption DEF JobOK
  <1>2. job.prompt[0] < MaxModelLen
    <2>1. Len(job.accepted) # 0
      BY EmptySeq DEF JobOK
    <2> QED  BY <2>1 DEF JobOK, Uniform
  <1>3. PICK m : m = MaxModelLen + 1 - job.prompt[0]
    OBVIOUS
  <1>4. m \in Nat \ {0}
    BY <1>1, <1>2, <1>3
  <1>5. Steps = IF job.benchmarking \/ job.gen <= m THEN job.gen ELSE m
    BY <1>1, <1>3, <1>4 DEF Steps, MinOf
  <1> QED  BY <1>1, <1>3, <1>4, <1>5

LEMMA SameVerdict ==
  ASSUME JobOK, Profiling, NEW s \in Ids
  PROVE  /\ job.prompt[s] = job.prompt[0] /\ BlocksToAllocate(s) = BlocksToAllocate(0)
         /\ TooLong(s) = TooLong(0)
  BY DEF JobOK, Uniform, BlocksToAllocate, LogicalBlocks, TooLong

(* No two requests have one number.                                        *)
LEMMA AcceptedFacts ==
  ASSUME JobOK
  PROVE  /\ Len(job.accepted) \in Nat /\ (job.accepted = <<>> <=> Len(job.accepted) = 0)
         /\ \A n \in 1 .. Len(job.accepted) : job.accepted[n] \in Ids
         /\ \A m, n \in 1 .. Len(job.accepted) : job.accepted[m] = job.accepted[n] => m = n
         /\ Accepted \subseteq Ids /\ Ids \subseteq Int
  <1>1. /\ job.accepted \in Seq(Ids)
        /\ \A m, n \in 1 .. Len(job.accepted) : m < n => job.accepted[m] < job.accepted[n]
    BY DEF JobOK
  <1>2. /\ Len(job.accepted) \in Nat /\ (job.accepted = <<>> <=> Len(job.accepted) = 0)
        /\ \A n \in 1 .. Len(job.accepted) : job.accepted[n] \in Ids
    BY <1>1, LenProperties, ElementOfSeq, EmptySeq
  <1>3. Ids \subseteq Int /\ \A x \in Ids : ~(x < x)
    BY DEF Ids
  <1>4. ASSUME NEW m \in 1 .. Len(job.accepted), NEW n \in 1 .. Len(job.accepted),
               job.accepted[m] = job.accepted[n]
        PROVE  m = n
    <2>1. PICK x : x = job.accepted[m] /\ x = job.accepted[n]
      BY <1>4
    <2>2. x \in Ids
      BY <1>2, <2>1, Zenon
    <2>5. ~(x < x)
      BY <1>3, <2>2, Zenon
    <2>3. ~(m < n)
      BY <1>1, <2>1, <2>5
    <2>4. ~(n < m)
      BY <1>1, <2>1, <2>5
    <2> QED  BY <1>2, <2>3, <2>4
  <1> QED  BY <1>2, <1>3, <1>4 DEF Accepted

LEMMA TakenFacts ==
  ASSUME JobOK, InOrder
  PROVE  /\ Len(waiting) \in Nat /\ Taken \in Nat /\ Taken <= Len(job.accepted)
         /\ (waiting = <<>> <=> Taken = Len(job.accepted))
  <1>1. waiting \in Seq(Ids) /\ Len(waiting) <= Len(job.accepted)
    BY DEF InOrder
  <1>2. Len(waiting) \in Nat /\ (waiting = <<>> <=> Len(waiting) = 0)
    BY <1>1, LenProperties, EmptySeq
  <1> QED  BY <1>1, <1>2, AcceptedFacts DEF Taken

(* The head of the queue is the next request.                              *)
LEMMA HeadIsNext ==
  ASSUME JobOK, InOrder, waiting # <<>>
  PROVE  /\ Taken + 1 \in 1 .. Len(job.accepted) /\ Taken \in Nat
         /\ Head(waiting) = job.accepted[Taken + 1]
         /\ Head(waiting) \in Ids \ Members /\ status[Head(waiting)] = "WAITING"
         /\ Head(waiting) \in Accepted
         /\ Tail(waiting) \in Seq(Ids) /\ Len(Tail(waiting)) = Len(waiting) - 1
         /\ Len(waiting) \in Nat \ {0} /\ Len(waiting) <= Len(job.accepted)
         /\ \A n \in 1 .. Len(Tail(waiting)) :
              Tail(waiting)[n] = job.accepted[Taken + 1 + n]
         /\ Len(job.accepted) - Len(Tail(waiting)) = Taken + 1
  <1> DEFINE k == Len(job.accepted)
             h == job.accepted[Taken + 1]
  <1>1. waiting \in Seq(Ids) /\ k \in Nat /\ Len(waiting) <= k
    BY AcceptedFacts DEF InOrder
  <1>2. /\ Len(waiting) \in Nat \ {0} /\ Head(waiting) = waiting[1]
        /\ Tail(waiting) \in Seq(Ids) /\ Len(Tail(waiting)) = Len(waiting) - 1
        /\ \A n \in 1 .. Len(Tail(waiting)) : Tail(waiting)[n] = waiting[n + 1]
    BY <1>1, HeadTailProperties, LenProperties, EmptySeq
  <1>3. \A n \in 1 .. Len(waiting) : waiting[n] = job.accepted[Taken + n]
    BY DEF InOrder
  <1>4. /\ Taken \in Nat /\ Taken + 1 \in 1 .. k /\ Taken + 1 \in Taken + 1 .. k
        /\ k - (Len(waiting) - 1) = Taken + 1
    BY <1>1, <1>2 DEF Taken
  <1>5. Head(waiting) = h
    BY <1>2, <1>3
  <1>6. h \in Ids /\ h \in Accepted
    BY <1>4, AcceptedFacts DEF Accepted
  <1>7. h \notin Members
    <2> SUFFICES ASSUME h \in Members PROVE FALSE
      OBVIOUS
    <2>1. PICK n \in 1 .. Taken : h = job.accepted[n]
      BY DEF InOrder
    <2>2. n \in 1 .. k /\ n # Taken + 1
      BY <1>1, <1>4
    <2> QED  BY <1>4, <2>1, <2>2, AcceptedFacts
  <1>8. status[h] = "WAITING"
    BY <1>4 DEF InOrder
  <1>9. ASSUME NEW n \in 1 .. Len(Tail(waiting))
        PROVE  Tail(waiting)[n] = job.accepted[Taken + 1 + n]
    <2>1. n \in Nat /\ n + 1 \in 1 .. Len(waiting) /\ Tail(waiting)[n] = waiting[n + 1]
      BY <1>2
    <2>2. waiting[n + 1] = job.accepted[Taken + (n + 1)]
      BY <1>3, <2>1
    <2>3. Taken + (n + 1) = Taken + 1 + n
      BY <1>4, <2>1
    <2> QED  BY <2>1, <2>2, <2>3
  <1> HIDE DEF h, k
  <1>10. Len(job.accepted) - Len(Tail(waiting)) = Taken + 1
    BY <1>2, <1>4 DEF k
  <1> QED  BY <1>1, <1>2, <1>4, <1>5, <1>6, <1>7, <1>8, <1>9, <1>10 DEF h, k

LEMMA MetaFacts ==
  ASSUME InOrder
  PROVE  /\ Len(meta) \in Nat /\ DOMAIN meta = 1 .. Len(meta)
         /\ Members \subseteq Ids
         /\ meta = <<>> <=> Members = {}
         /\ meta = <<>> <=> Len(meta) = 0
         /\ meta # <<>> => meta[1] \in Members /\ Head(meta) = meta[1]
  <1>1. meta \in Seq(Ids)
    BY DEF InOrder
  <1>2. /\ Len(meta) \in Nat /\ DOMAIN meta = 1 .. Len(meta)
        /\ \A n \in 1 .. Len(meta) : meta[n] \in Ids
        /\ meta = <<>> <=> Len(meta) = 0
    BY <1>1, LenProperties, ElementOfSeq, EmptySeq
  <1>3. meta # <<>> => 1 \in DOMAIN meta
    BY <1>2
  <1>4. meta # <<>> => Head(meta) = meta[1]
    BY <1>1, HeadTailProperties
  <1>5. Members \subseteq Ids
    BY <1>2 DEF Members
  <1>7. meta = <<>> <=> Members = {}
    <2>1. meta = <<>> => DOMAIN meta = {}
      BY <1>2
    <2> QED  BY <1>3, <2>1 DEF Members
  <1>6. meta # <<>> => meta[1] \in Members
    BY <1>3 DEF Members
  <1> QED  BY <1>2, <1>4, <1>5, <1>6, <1>7

LEMMA MetaAppend ==
  ASSUME InOrder, NEW s \in Ids, meta' = Append(meta, s)
  PROVE  /\ meta' \in Seq(Ids) /\ Len(meta') = Len(meta) + 1 /\ meta' # <<>>
         /\ Members' = Members \cup {s}
         /\ meta'[1] = IF meta = <<>> THEN s ELSE meta[1]
  <1>1. meta \in Seq(Ids) /\ Len(meta) \in Nat /\ DOMAIN meta = 1 .. Len(meta)
        /\ (meta = <<>> <=> Len(meta) = 0)
    BY MetaFacts DEF InOrder
  <1>2. /\ meta' \in Seq(Ids) /\ Len(meta') = Len(meta) + 1 /\ meta'[Len(meta) + 1] = s
        /\ \A n \in 1 .. Len(meta) : meta'[n] = meta[n]
    BY <1>1, AppendProperties
  <1>3. DOMAIN meta' = DOMAIN meta \cup {Len(meta) + 1} /\ meta' # <<>>
    BY <1>1, <1>2, LenProperties, EmptySeq
  <1>4. Members' = Members \cup {s}
    BY <1>1, <1>2, <1>3 DEF Members
  <1>5. meta'[1] = IF meta = <<>> THEN s ELSE meta[1]
    BY <1>1, <1>2
  <1> QED  BY <1>2, <1>3, <1>4, <1>5

(* The scheduler takes the next sequence, into the batch or out of it.     *)
LEMMA OrderTakes ==
  ASSUME JobOK, InOrder, waiting # <<>>, job' = job, waiting' = Tail(waiting),
         \/ /\ meta' = Append(meta, Head(waiting))
            /\ status' = [status EXCEPT ![Head(waiting)] = "RUNNING"]
         \/ /\ meta' = meta
            /\ status' = [status EXCEPT ![Head(waiting)] = "FINISHED_IGNORED"]
  PROVE  InOrder'
  <1>h. PICK h, k : h = Head(waiting) /\ k = Taken
    OBVIOUS
  <1>1. /\ k + 1 \in 1 .. Len(job.accepted) /\ k \in Nat /\ Len(job.accepted) \in Nat
        /\ h = job.accepted[k + 1] /\ h \in Ids /\ h \notin Members /\ h \in Accepted
        /\ status[h] = "WAITING"
        /\ waiting' \in Seq(Ids) /\ Len(waiting') = Len(waiting) - 1
        /\ \A n \in 1 .. Len(waiting') : waiting'[n] = job.accepted[k + 1 + n]
        /\ Taken' = k + 1 /\ Len(waiting) \in Nat \ {0} /\ Len(waiting) <= Len(job.accepted)
    BY <1>h, HeadIsNext, AcceptedFacts DEF Taken
  <1>2. Ids' = Ids /\ Accepted' = Accepted
    BY DEF Ids, Accepted
  <1>3. /\ meta \in Seq(Ids) /\ Len(meta) \in Nat /\ Len(meta) <= k
        /\ \A s \in Members : \E n \in 1 .. k : s = job.accepted[n]
        /\ status \in [Ids -> Statuses]
        /\ \A n \in k + 1 .. Len(job.accepted) : status[job.accepted[n]] = "WAITING"
        /\ \A s \in Ids : status[s] \in {"RUNNING", "FINISHED"} <=> s \in Members
        /\ \A s \in Ids : status[s] = "REFUSED" <=> s \notin Accepted
    BY <1>h, MetaFacts DEF InOrder
  <1>4. Len(waiting') <= Len(job.accepted)
        /\ \A n \in 1 .. Len(waiting') : waiting'[n] = job.accepted[Taken' + n]
    BY <1>1
  <1>5. \A s \in Members \cup {h} : \E n \in 1 .. Taken' : s = job.accepted[n]
    <2>1. k + 1 \in 1 .. Taken' /\ \A n \in 1 .. k : n \in 1 .. Taken'
      BY <1>1
    <2> QED  BY <1>1, <1>3, <2>1
  <1>6. ASSUME NEW n \in Taken' + 1 .. Len(job.accepted)
        PROVE  job.accepted[n] # h /\ status[job.accepted[n]] = "WAITING"
               /\ job.accepted[n] \in Ids
    <2>1. n \in k + 1 .. Len(job.accepted) /\ n \in 1 .. Len(job.accepted) /\ n # k + 1
      BY <1>1
    <2> QED  BY <1>1, <1>3, <2>1, AcceptedFacts
  <1>7. CASE meta' = Append(meta, h) /\ status' = [status EXCEPT ![h] = "RUNNING"]
    <2>1. meta' \in Seq(Ids) /\ Len(meta') = Len(meta) + 1 /\ Members' = Members \cup {h}
      BY <1>1, <1>7, MetaAppend
    <2>2. Len(meta') <= Taken'
      BY <1>1, <1>3, <2>1
    <2>3. \A s \in Ids : status'[s] = IF s = h THEN "RUNNING" ELSE status[s]
      BY <1>3, <1>7
    <2>4. status' \in [Ids -> Statuses]
      BY <1>3, <1>7 DEF Statuses
    <2>5. \A n \in Taken' + 1 .. Len(job.accepted) : status'[job.accepted[n]] = "WAITING"
      BY <1>6, <2>3
    <2>6. \A s \in Ids : status'[s] \in {"RUNNING", "FINISHED"} <=> s \in Members'
      BY <1>3, <2>1, <2>3
    <2>7. \A s \in Ids : status'[s] = "REFUSED" <=> s \notin Accepted
      BY <1>1, <1>3, <2>3
    <2> QED  BY <1>1, <1>2, <1>4, <1>5, <2>1, <2>2, <2>4, <2>5, <2>6, <2>7 DEF InOrder
  <1>8. CASE meta' = meta /\ status' = [status EXCEPT ![h] = "FINISHED_IGNORED"]
    <2>1. Members' = Members /\ Len(meta') <= Taken'
      BY <1>1, <1>3, <1>8 DEF Members
    <2>3. \A s \in Ids : status'[s] = IF s = h THEN "FINISHED_IGNORED" ELSE status[s]
      BY <1>3, <1>8
    <2>4. status' \in [Ids -> Statuses]
      BY <1>3, <1>8 DEF Statuses
    <2>5. \A n \in Taken' + 1 .. Len(job.accepted) : status'[job.accepted[n]] = "WAITING"
      BY <1>6, <2>3
    <2>6. \A s \in Ids : status'[s] \in {"RUNNING", "FINISHED"} <=> s \in Members'
      BY <1>1, <1>3, <2>1, <2>3
    <2>7. \A s \in Ids : status'[s] = "REFUSED" <=> s \notin Accepted
      BY <1>1, <1>3, <2>3
    <2> QED  BY <1>1, <1>2, <1>3, <1>4, <1>5, <1>8, <2>1, <2>4, <2>5, <2>6, <2>7 DEF InOrder
  <1> QED  BY <1>h, <1>7, <1>8

LEMMA OrderKept ==
  ASSUME InOrder, UNCHANGED <<job, waiting, meta>>,
         JobOK, status' \in [Ids -> Statuses],
         \A s \in Ids : /\ status'[s] = "WAITING" <=> status[s] = "WAITING"
                        /\ status'[s] = "REFUSED" <=> status[s] = "REFUSED"
                        /\ status'[s] \in {"RUNNING", "FINISHED"}
                             <=> status[s] \in {"RUNNING", "FINISHED"}
  PROVE  InOrder'
  <1>1. Ids' = Ids /\ Taken' = Taken /\ Members' = Members /\ Accepted' = Accepted
    BY DEF Ids, Taken, Members, Accepted
  <1>2. \A n \in Taken + 1 .. Len(job.accepted) : job.accepted[n] \in Ids
    <2>1. \A n \in Taken + 1 .. Len(job.accepted) : n \in 1 .. Len(job.accepted)
      BY TakenFacts, AcceptedFacts
    <2> QED  BY <2>1, AcceptedFacts
  <1>3. \A n \in Taken + 1 .. Len(job.accepted) : status'[job.accepted[n]] = "WAITING"
    BY <1>2 DEF InOrder
  <1>4. \A s \in Ids : status'[s] = "REFUSED" <=> s \notin Accepted
    BY DEF InOrder
  <1> QED  BY <1>1, <1>3, <1>4 DEF InOrder

LEMMA JobKept ==
  ASSUME JobOK, job' = job
  PROVE  JobOK' /\ Ids' = Ids /\ Profiling' = Profiling
  BY DEF JobOK, Ids, Profiling, Uniform, Accepted

-----------------------------------------------------------------------------
LEMMA JobInit ==
  ASSUME Init
  PROVE  JobInv
  <1>1. PICK b \in BatchSizes, p \in PromptLens, g \in GenLens, i \in Images,
             e \in ExtraBlocks, driver \in {"benchmark", "e2e"}, simple \in BOOLEAN :
          \E lens \in [0 .. b - 1 -> IF driver = "e2e" THEN PromptLens ELSE {p}] :
          \E accepted \in InOrderOf(Fits(lens)) :
            /\ driver = "e2e" => g > 1 /\ i = 0 /\ ~simple
            /\ LauncherPool(b, p, g) + e > 0
            /\ job = [driver |-> driver, batch |-> b, gen |-> g, img |-> i, prompt |-> lens,
                      accepted |-> accepted, benchmarking |-> simple,
                      pool |-> LauncherPool(b, p, g) + e, spare |-> e,
                      initBlocks |-> CeilDiv(p + g, BlockSize)]
    BY DEF Init
  <1>l. PICK lens \in [0 .. b - 1 -> IF driver = "e2e" THEN PromptLens ELSE {p}] :
          \E accepted \in InOrderOf(Fits(lens)) :
            /\ driver = "e2e" => g > 1 /\ i = 0 /\ ~simple
            /\ LauncherPool(b, p, g) + e > 0
            /\ job = [driver |-> driver, batch |-> b, gen |-> g, img |-> i, prompt |-> lens,
                      accepted |-> accepted, benchmarking |-> simple,
                      pool |-> LauncherPool(b, p, g) + e, spare |-> e,
                      initBlocks |-> CeilDiv(p + g, BlockSize)]
    BY <1>1
  <1>2. PICK accepted \in InOrderOf(Fits(lens)) :
            /\ driver = "e2e" => g > 1 /\ i = 0 /\ ~simple
            /\ LauncherPool(b, p, g) + e > 0
            /\ job = [driver |-> driver, batch |-> b, gen |-> g, img |-> i, prompt |-> lens,
                      accepted |-> accepted, benchmarking |-> simple,
                      pool |-> LauncherPool(b, p, g) + e, spare |-> e,
                      initBlocks |-> CeilDiv(p + g, BlockSize)]
    BY <1>l
  <1>3. /\ job.driver = driver /\ job.batch = b /\ job.gen = g /\ job.img = i
        /\ job.prompt = lens /\ job.accepted = accepted /\ job.benchmarking = simple /\ job.spare = e
        /\ job.pool = LauncherPool(b, p, g) + e /\ job.initBlocks = CeilDiv(p + g, BlockSize)
    BY <1>2
  <1>4. /\ b \in Nat \ {0} /\ p \in Nat \ {0} /\ g \in Nat \ {0} /\ i \in Nat /\ e \in Int
        /\ PromptLens \subseteq Nat \ {0} /\ BlockSize \in Nat \ {0}
    BY OneShotAssumption
  <1>5. CeilDiv(p + g, BlockSize) \in Nat
    <2>1. p + g \in Nat
      BY <1>4
    <2> QED  BY <1>4, <2>1, CeilDivBounds
  <1>6. LauncherPool(b, p, g) + e \in Nat \ {0}
    <2>1. LauncherPool(b, p, g) \in Int
      BY <1>4, <1>5 DEF LauncherPool
    <2> QED  BY <1>2, <1>4, <2>1
  <1>7. Ids = 0 .. b - 1 /\ 0 \in Ids /\ (Profiling <=> driver = "benchmark")
    BY <1>3, <1>4 DEF Ids, Profiling
  <1>8. lens \in [Ids -> Nat \ {0}] /\ (Profiling => \A s \in Ids : lens[s] = p)
    BY <1>4, <1>7
  <1>a. PICK fits : fits = Fits(lens)
    OBVIOUS
  <1>b. fits = {s \in Ids : lens[s] < MaxModelLen} /\ fits \subseteq Ids
    BY <1>7, <1>8, <1>a DEF Fits
  <1>c. /\ accepted \in Seq(Ids) /\ Len(accepted) = Cardinality(fits) /\ Cardinality(fits) \in Nat
        /\ \A s \in fits : \E n \in 1 .. Len(accepted) : accepted[n] = s
        /\ \A n \in 1 .. Len(accepted) : accepted[n] \in fits
        /\ \A m, n \in 1 .. Len(accepted) : m < n => accepted[m] < accepted[n]
    <2>1. IsFiniteSet(fits) /\ Cardinality(fits) \in Nat
      <3>1. b - 1 \in Int /\ 0 \in Int
        BY <1>4
      <3>2. IsFiniteSet(Ids)
        BY <1>7, <3>1, FS_Interval
      <3> QED  BY <1>b, <3>2, FS_Subset, FS_CardinalityType
    <2>2. /\ accepted \in [1 .. Cardinality(fits) -> fits]
          /\ \A s \in fits : \E n \in DOMAIN accepted : accepted[n] = s
          /\ \A m, n \in DOMAIN accepted : m < n => accepted[m] < accepted[n]
      BY <1>a DEF InOrderOf
    <2>3. accepted \in Seq(fits)
      BY <2>1, <2>2, SeqDef
    <2>4. DOMAIN accepted = 1 .. Len(accepted) /\ Len(accepted) \in Nat
          /\ DOMAIN accepted = 1 .. Cardinality(fits)
      BY <2>2, <2>3, LenProperties
    <2>5. Len(accepted) = Cardinality(fits)
      BY <2>1, <2>4
    <2>6. accepted \in Seq(Ids)
      <3>1. accepted \in [1 .. Cardinality(fits) -> Ids]
        BY <1>b, <2>2
      <3> QED  BY <2>1, <3>1, SeqDef
    <2> QED  BY <2>1, <2>2, <2>4, <2>5, <2>6
  <1>d. Accepted = fits
    BY <1>3, <1>c DEF Accepted
  <1>e. ASSUME Profiling
        PROVE  /\ Len(accepted) = IF lens[0] < MaxModelLen THEN b ELSE 0
               /\ accepted # <<>> => accepted[1] = 0
    <2>1. lens[0] = p /\ fits = IF p < MaxModelLen THEN Ids ELSE {}
      BY <1>7, <1>8, <1>b, <1>e
    <2>2. Cardinality(Ids) = b
      <3>1. b - 1 \in Int /\ 0 \in Int /\ ~(0 > b - 1) /\ b - 1 - 0 + 1 = b
        BY <1>4
      <3> QED  BY <1>7, <3>1, FS_Interval
    <2>3. Len(accepted) = IF lens[0] < MaxModelLen THEN b ELSE 0
      BY <1>c, <2>1, <2>2, FS_EmptySet
    <2>4. ASSUME accepted # <<>>
          PROVE  accepted[1] = 0
      <3>1. Len(accepted) \in Nat \ {0}
        BY <1>c, <2>4, EmptySeq
      <3>2. fits = Ids
        BY <1>c, <2>1, <3>1, FS_EmptySet
      <3>3. PICK n \in 1 .. Len(accepted) : accepted[n] = 0
        BY <1>7, <1>c, <3>2
      <3>4. 1 \in 1 .. Len(accepted) /\ accepted[1] \in Ids
        BY <1>c, <3>1, <3>2
      <3>5. accepted[1] >= 0 /\ accepted[1] \in Int
        BY <1>4, <1>7, <3>4
      <3>6. 1 < n => accepted[1] < accepted[n]
        BY <1>c, <3>4
      <3> QED  BY <3>3, <3>5, <3>6
    <2> QED  BY <2>3, <2>4
  <1>9. Profiling => Uniform
    BY <1>3, <1>7, <1>8, <1>e DEF Uniform
  <1>10. JobOK
    BY <1>2, <1>3, <1>4, <1>5, <1>6, <1>7, <1>8, <1>9, <1>c, <1>d DEF JobOK
  <1>11. /\ waiting = accepted /\ meta = <<>>
         /\ status = [s \in Ids |-> IF s \in fits THEN "WAITING" ELSE "REFUSED"]
         /\ outLen = [s \in Ids |-> 0]
         /\ phase = IF accepted = <<>> THEN "run" ELSE "admit"
         /\ firstRun = TRUE /\ iter = 1 /\ numTokens = 0
    BY <1>3, <1>a DEF Init
  <1>13. Taken = 0 /\ Members = {}
    BY <1>3, <1>11, <1>c DEF Taken, Members
  <1>14. InOrder
    <2>1. meta \in Seq(Ids) /\ Len(meta) = 0
      BY <1>11, EmptySeq
    <2>2. \A s \in Ids : status[s] = IF s \in fits THEN "WAITING" ELSE "REFUSED"
      BY <1>11
    <2>3. status \in [Ids -> Statuses]
      BY <1>11 DEF Statuses
    <2>4. \A n \in 0 + 1 .. Len(accepted) : status[accepted[n]] = "WAITING"
      BY <1>b, <1>c, <2>2
    <2>5. \A n \in 1 .. Len(waiting) : waiting[n] = accepted[0 + n]
      BY <1>11
    <2> QED  BY <1>3, <1>11, <1>13, <1>c, <1>d, <2>1, <2>2, <2>3, <2>4, <2>5 DEF InOrder
  <1>15. InStep
    BY <1>3, <1>4, <1>11, <1>13 DEF InStep
  <1>16. Len(meta) * (iter - 1) = 0 /\ (Profiling => Benchmark)
    BY <1>4, <1>3, <1>11, <1>13, EmptySeq DEF Benchmark
  <1>17. Finished = {} /\ Generation
    <2>1. Finished = {}
      BY <1>11 DEF Finished
    <2> QED  BY <1>11, <2>1, FS_EmptySet DEF Generation
  <1> QED  BY <1>10, <1>14, <1>15, <1>16, <1>17 DEF JobInv

LEMMA AdmitKeepsJob ==
  ASSUME JobInv, Admit
  PROVE  JobInv'
  <1> DEFINE s == Head(waiting)
  <1>0. JobOK /\ InOrder /\ InStep /\ (Profiling => Benchmark) /\ (~Profiling => Generation)
    BY DEF JobInv
  <1>1. /\ phase = "admit" /\ phase' = "admit" /\ waiting # <<>> /\ Verdict(s) = "admit"
        /\ status' = [status EXCEPT ![s] = "RUNNING"]
        /\ waiting' = Tail(waiting) /\ meta' = Append(meta, s)
        /\ UNCHANGED <<job, outLen, firstRun, iter, numTokens>>
    BY DEF Admit
  <1>2. JobOK' /\ Ids' = Ids /\ Profiling' = Profiling
    BY <1>0, <1>1, JobKept
  <1>3. InOrder'
    BY <1>0, <1>1, OrderTakes
  <1>4. s = job.accepted[Taken + 1] /\ s \in Ids /\ status[s] = "WAITING"
        /\ Taken \in Nat /\ job.accepted # <<>>
    BY <1>0, <1>1, HeadIsNext, AcceptedFacts
  <1>5. /\ Len(meta) \in Nat /\ Len(meta') = Len(meta) + 1 /\ meta' # <<>>
        /\ Members' = Members \cup {s} /\ meta'[1] = IF meta = <<>> THEN s ELSE meta[1]
    BY <1>0, <1>1, <1>4, MetaAppend, MetaFacts
  <1>6. status \in [Ids -> Statuses]
    BY <1>0 DEF InOrder
  <1>7. iter = 1 /\ \A q \in Members' : status'[q] = "RUNNING"
    BY <1>0, <1>1, <1>4, <1>5, <1>6, MetaFacts DEF InStep
  <1>8. InStep'
    BY <1>0, <1>1, <1>2, <1>5, <1>7 DEF InStep
  <1>9. ASSUME Profiling
        PROVE  Benchmark'
    <2>1. meta'[1] = 0
      <3>1. ~TooLong(s)
        BY <1>1 DEF Verdict, TooLong
      <3>2. ~TooLong(0)
        BY <1>0, <1>4, <1>9, <3>1, SameVerdict
      <3>3. meta = <<>> => Taken = 0
        BY <1>0, <1>4, <1>9, <3>2 DEF Benchmark
      <3>4. Taken = 0 => s = 0
        BY <1>0, <1>4, <1>9 DEF JobOK, Uniform
      <3> QED  BY <1>0, <1>5, <1>9, <3>3, <3>4 DEF Benchmark
    <2>2. numTokens' = Len(meta') * (iter' - 1)
      <3>1. numTokens = Len(meta) * (iter - 1)
        BY <1>0, <1>9 DEF Benchmark
      <3> QED  BY <1>1, <1>5, <1>7, <3>1
    <2> QED  BY <1>1, <1>4, <1>5, <2>1, <2>2 DEF Benchmark
  <1>10. Finished' = Finished
    BY <1>1, <1>2, <1>4, <1>6 DEF Finished
  <1>11. ~Profiling => Generation'
    BY <1>0, <1>1, <1>10 DEF Generation
  <1> QED  BY <1>2, <1>3, <1>8, <1>9, <1>11 DEF JobInv

LEMMA IgnoreKeepsJob ==
  ASSUME JobInv, Ignore
  PROVE  JobInv'
  <1> DEFINE s == Head(waiting)
  <1>0. JobOK /\ InOrder /\ InStep /\ (Profiling => Benchmark) /\ (~Profiling => Generation)
    BY DEF JobInv
  <1>1. /\ phase = "admit" /\ phase' = "admit" /\ waiting # <<>> /\ Verdict(s) = "ignore"
        /\ status' = [status EXCEPT ![s] = "FINISHED_IGNORED"]
        /\ waiting' = Tail(waiting) /\ meta' = meta
        /\ UNCHANGED <<job, outLen, firstRun, iter, numTokens>>
    BY DEF Ignore
  <1>2. JobOK' /\ Ids' = Ids /\ Profiling' = Profiling /\ Members' = Members
    BY <1>0, <1>1, JobKept DEF Members
  <1>3. InOrder'
    BY <1>0, <1>1, OrderTakes
  <1>4. s \in Ids /\ status[s] = "WAITING"
    BY <1>0, <1>1, HeadIsNext
  <1>5. status \in [Ids -> Statuses]
    BY <1>0 DEF InOrder
  <1>6. \A q \in Members : q \in Ids /\ status[q] = "RUNNING" /\ status'[q] = "RUNNING"
    BY <1>0, <1>1, <1>4, <1>5, MetaFacts DEF InStep
  <1>7. InStep'
    BY <1>0, <1>1, <1>2, <1>6 DEF InStep
  <1>8. ASSUME Profiling
        PROVE  Benchmark'
    <2>1. TooLong(s)
      BY <1>1 DEF Verdict, TooLong
    <2>2. TooLong(0)
      BY <1>0, <1>4, <1>8, <2>1, SameVerdict
    <2>3. TooLong(0)'
      BY <1>1, <2>2 DEF TooLong, BlocksToAllocate, LogicalBlocks, WatermarkBlocks, PromptLimit
    <2> QED  BY <1>0, <1>1, <1>2, <1>6, <1>8, <2>3 DEF Benchmark
  <1>9. Finished' = Finished
    BY <1>1, <1>2, <1>4, <1>5 DEF Finished
  <1>10. ~Profiling => Generation'
    BY <1>0, <1>1, <1>9 DEF Generation
  <1> QED  BY <1>2, <1>3, <1>7, <1>8, <1>10 DEF JobInv

(* Facts about a run of the model.                                         *)
LEMMA RunFacts ==
  ASSUME JobInv, ModelRun
  PROVE  /\ JobOK' /\ Ids' = Ids /\ Profiling' = Profiling /\ Members' = Members
         /\ iter' = iter + 1 /\ iter' # 1 /\ job.img = 0 /\ Len(meta) \in Nat
         /\ outLen' \in [Ids -> Nat]
         /\ \A s \in Ids : outLen'[s] = IF s \in Members THEN iter ELSE 0
         /\ \A s \in Members : s \in Ids /\ status[s] = "RUNNING"
         /\ meta # <<>>
  <1>0. JobOK /\ InOrder /\ InStep
    BY DEF JobInv
  <1>1. /\ phase = "run" /\ firstRun' = FALSE /\ iter' = iter + 1
        /\ ~ImagesAreMissing /\ ~StaleBatch
        /\ outLen' = [s \in Ids |-> IF s \in Members THEN outLen[s] + 1 ELSE outLen[s]]
        /\ UNCHANGED <<job, waiting, meta, table>>
    BY DEF ModelRun, NoInput
  <1>2. JobOK' /\ Ids' = Ids /\ Profiling' = Profiling /\ Members' = Members
    BY <1>0, <1>1, JobKept DEF Members
  <1>3. /\ iter \in Nat \ {0} /\ (firstRun <=> iter = 1) /\ (iter > 1 => job.img = 0)
        /\ outLen \in [Ids -> Nat]
        /\ \A s \in Ids : outLen[s] = IF s \in Members THEN iter - 1 ELSE 0
    BY <1>0 DEF InStep
  <1>4. job.img \in Nat
    BY <1>0 DEF JobOK
  <1>5. job.img = 0
    BY <1>1, <1>3, <1>4 DEF ImagesAreMissing
  <1>6. \A s \in Ids : outLen'[s] = IF s \in Members THEN iter ELSE 0
    BY <1>1, <1>3
  <1>7. outLen' \in [Ids -> Nat]
    BY <1>1, <1>3
  <1>8. \A s \in Members : s \in Ids /\ status[s] = "RUNNING"
    BY <1>0, <1>1, MetaFacts DEF StaleBatch
  <1>9. Len(meta) \in Nat /\ meta # <<>>
    <2>1. meta # <<>> \/ job.accepted = <<>>
      BY <1>0, <1>1 DEF InStep
    <2>2. job.accepted = <<>> => waiting = <<>>
      BY <1>0, TakenFacts, AcceptedFacts DEF Taken
    <2>3. waiting # <<>> \/ Members # {}
      BY DEF ModelRun, HasUnfinished
    <2> QED  BY <1>0, <2>1, <2>2, <2>3, MetaFacts
  <1> QED  BY <1>1, <1>2, <1>3, <1>5, <1>6, <1>7, <1>8, <1>9

(* A run, with the statuses `status'` and the phase it leads to.           *)
LEMMA RunInStep ==
  ASSUME JobInv, ModelRun, phase' \in {"run", "count", "done"}, numTokens' \in Nat
  PROVE  InStep'
  <1>1. /\ firstRun' = FALSE /\ meta' = meta /\ job' = job
        /\ iter \in Nat \ {0}
    BY DEF ModelRun, JobInv, InStep
  <1>2. \A s \in Ids : outLen'[s] = IF s \in Members THEN iter' - 1 ELSE 0
    <2>1. iter' - 1 = iter
      BY <1>1, RunFacts
    <2> QED  BY <2>1, RunFacts
  <1>3. iter' \in Nat \ {0} /\ firstRun' \in BOOLEAN /\ (firstRun' <=> iter' = 1)
    <2>1. iter' = iter + 1
      BY RunFacts
    <2>2. iter' \in Nat \ {0} /\ iter' # 1
      BY <1>1, <2>1
    <2> QED  BY <1>1, <2>2
  <1> QED  BY <1>1, <1>2, <1>3, RunFacts DEF InStep

(* What a benchmark counts at a step, and when it ends.                    *)
LEMMA RunBenchmark ==
  ASSUME JobInv, ModelRun, Profiling, numTokens' = numTokens + Len(meta),
         phase' = IF LastIteration THEN "done" ELSE "run",
         iter # Steps => status' = status,
         iter = Steps /\ Steps < job.gen => \A s \in Members : status'[s] = "FINISHED"
  PROVE  Benchmark'
  <1>0. JobOK /\ InOrder /\ InStep /\ Benchmark
    BY DEF JobInv
  <1>1. /\ phase = "run" /\ ~StaleBatch /\ meta' = meta /\ job' = job /\ UNCHANGED waiting
        /\ iter \in Nat \ {0} /\ job.gen \in Nat /\ iter' = iter + 1
    BY <1>0, RunFacts DEF ModelRun, JobOK, InStep
  <1>2. meta # <<>> /\ meta[1] = 0 /\ job.accepted # <<>>
    BY <1>0, RunFacts DEF Benchmark
  <1>3. iter <= Steps /\ Steps \in Nat /\ Steps <= job.gen /\ Steps' = Steps
    <2>1. meta[1] \in Members /\ status[meta[1]] = "RUNNING"
      BY <1>0, <1>1, <1>2, MetaFacts DEF StaleBatch
    <2>2. iter <= Steps
      BY <1>0, <1>1, <1>2, <2>1 DEF Benchmark
    <2> QED  BY <1>0, <1>1, <1>2, <2>2, StepsFacts DEF Steps
  <1>4. Len(meta) \in Nat /\ numTokens = Len(meta) * (iter - 1)
    BY <1>0, RunFacts DEF Benchmark
  <1>5. Len(meta) * (iter - 1) + Len(meta) = Len(meta) * iter
    BY <1>1, <1>4
  <1>6. numTokens' = Len(meta') * (iter' - 1)
    <2>1. iter' - 1 = iter
      BY <1>1
    <2> QED  BY <1>1, <1>4, <1>5, <2>1
  <1>7. phase' = IF iter' = job.gen + 1 THEN "done" ELSE "run"
    BY <1>1 DEF LastIteration
  <1>8. phase' = "done" => iter' = Steps + 1
    BY <1>1, <1>3, <1>7
  <1>9. phase' = "run" =>
          \/ iter' <= Steps /\ \A s \in Members : status'[s] = "RUNNING"
          \/ iter' = Steps + 1 /\ Steps < job.gen /\ \A s \in Members : status'[s] = "FINISHED"
    <2> SUFFICES ASSUME phase' = "run"
                 PROVE  \/ iter' <= Steps /\ \A s \in Members : status'[s] = "RUNNING"
                        \/ /\ iter' = Steps + 1 /\ Steps < job.gen
                           /\ \A s \in Members : status'[s] = "FINISHED"
      OBVIOUS
    <2>1. iter # job.gen
      BY <1>1, <1>7
    <2>2. CASE iter = Steps
      BY <1>1, <1>3, <2>1, <2>2
    <2>3. CASE iter # Steps
      <3>1. iter' <= Steps
        BY <1>1, <1>3, <2>3
      <3> QED  BY <2>3, <3>1, RunFacts
    <2> QED  BY <2>2, <2>3
  <1>10. TooLong(0)' = TooLong(0) /\ Members' = Members
    BY <1>1 DEF TooLong, BlocksToAllocate, LogicalBlocks, WatermarkBlocks, PromptLimit, Members
  <1> QED  BY <1>1, <1>2, <1>3, <1>6, <1>7, <1>8, <1>9, <1>10 DEF Benchmark

LEMMA BenchmarkKeepsJob ==
  ASSUME JobInv, BenchmarkStep
  PROVE  JobInv'
  <1>1. /\ ModelRun /\ status' = status /\ job.benchmarking
        /\ numTokens' = numTokens + Len(meta)
        /\ phase' = IF LastIteration THEN "done" ELSE "run"
    BY DEF BenchmarkStep
  <1>2. Profiling
    BY <1>1 DEF JobInv, JobOK
  <1>3. numTokens' \in Nat
    BY <1>1, RunFacts DEF JobInv, InStep
  <1>4. InOrder'
    BY <1>1, OrderKept DEF ModelRun, JobInv, InOrder
  <1>5. InStep'
    BY <1>1, <1>3, RunInStep
  <1>6. Benchmark'
    <2>1. Steps = job.gen
      BY <1>1 DEF Steps
    <2> QED  BY <1>1, <1>2, <2>1, RunBenchmark DEF JobInv, JobOK
  <1> QED  BY <1>1, <1>2, <1>4, <1>5, <1>6, RunFacts DEF JobInv

LEMMA SampledKeepsJob ==
  ASSUME JobInv, SampledStep
  PROVE  JobInv'
  <1>1. /\ ModelRun /\ ~job.benchmarking
        /\ phase' = IF LastIteration THEN (IF Profiling THEN "done" ELSE "count") ELSE "run"
    BY DEF SampledStep
  <1>2. PICK ended \in SUBSET Members :
          /\ Profiling => ended = Capped \cup {s \in Members : outLen'[s] = ProfiledLimit}
          /\ status' = [s \in Ids |-> IF s \in ended THEN "FINISHED" ELSE status[s]]
          /\ numTokens' = numTokens + IF Profiling THEN Len(meta) ELSE Cardinality(ended)
    BY DEF SampledStep
  <1>3. /\ JobOK /\ InOrder /\ InStep /\ UNCHANGED <<job, waiting, meta>>
        /\ ended \subseteq Ids /\ numTokens \in Nat
        /\ status \in [Ids -> Statuses]
    BY <1>1, RunFacts DEF JobInv, InStep, InOrder, ModelRun
  <1>4. \A s \in ended : status[s] = "RUNNING"
    BY <1>1, RunFacts
  <1>5. InOrder'
    <2>1. status' \in [Ids -> Statuses]
      BY <1>2, <1>3 DEF Statuses
    <2>2. \A s \in Ids : status'[s] = IF s \in ended THEN "FINISHED" ELSE status[s]
      BY <1>2
    <2> QED  BY <1>3, <1>4, <2>1, <2>2, OrderKept
  <1>6. IsFiniteSet(ended) /\ Cardinality(ended) \in Nat
    <2>1. IsFiniteSet(Ids)
      <3>1. job.batch - 1 \in Int /\ 0 \in Int
        BY <1>3 DEF JobOK
      <3> QED  BY <3>1, FS_Interval DEF Ids
    <2> QED  BY <1>3, <2>1, FS_Subset, FS_CardinalityType
  <1>7. numTokens' \in Nat
    BY <1>1, <1>2, <1>3, <1>6, RunFacts
  <1>8. InStep'
    BY <1>1, <1>7, RunInStep
  <1>9. ASSUME Profiling
        PROVE  Benchmark'
    <2>1. \A s \in Members : outLen'[s] = iter
      BY <1>1, RunFacts
    <2>2. /\ meta # <<>> /\ meta[1] = 0 /\ job.accepted # <<>> /\ meta[1] \in Members
          /\ phase = "run" /\ ~StaleBatch /\ Benchmark
      BY <1>1, <1>3, <1>9, RunFacts, MetaFacts DEF JobInv, Benchmark, ModelRun
    <2>3. iter <= Steps
      BY <2>2 DEF Benchmark, StaleBatch
    <2>4. /\ Steps \in Nat /\ Steps <= job.gen /\ job.gen \in Nat
          /\ Steps <= MaxModelLen + 1 - job.prompt[0]
          /\ Steps < job.gen => Steps = MaxModelLen + 1 - job.prompt[0]
          /\ job.prompt[0] \in Nat /\ MaxModelLen \in Nat /\ iter \in Nat
      BY <1>1, <1>3, <1>9, <2>2, StepsFacts DEF InStep
    <2>5. Capped = IF job.prompt[0] + iter > MaxModelLen THEN Members ELSE {}
      <3>1. \A s \in Members : job.prompt[s] = job.prompt[0]
        BY <1>1, <1>3, <1>9, RunFacts, SameVerdict
      <3> QED  BY <2>1, <3>1 DEF Capped
    <2>6. iter # Steps => ended = {}
      BY <1>2, <1>9, <2>1, <2>3, <2>4, <2>5 DEF ProfiledLimit
    <2>7. iter = Steps /\ Steps < job.gen => Members \subseteq ended
      BY <1>2, <1>9, <2>4, <2>5
    <2>8. iter # Steps => status' = status
      BY <1>2, <1>3, <2>6
    <2>9. iter = Steps /\ Steps < job.gen => \A s \in Members : status'[s] = "FINISHED"
      BY <1>1, <1>2, <2>7, RunFacts
    <2> QED  BY <1>1, <1>2, <1>9, <2>8, <2>9, RunBenchmark
  <1>10. ASSUME ~Profiling
         PROVE  Generation'
    <2>1. \A s \in Ids : status[s] # "FINISHED"
      <3>1. \A s \in Ids : status[s] \in {"RUNNING", "FINISHED"} <=> s \in Members
        BY <1>3 DEF InOrder
      <3> QED  BY <1>1, <3>1, RunFacts
    <2>2. Finished = {} /\ Finished' = ended
      BY <1>1, <1>2, <1>3, <2>1, RunFacts DEF Finished
    <2>3. numTokens = 0
      BY <1>10, <2>2, FS_EmptySet DEF JobInv, Generation
    <2>4. numTokens' = Cardinality(Finished')
      BY <1>2, <1>6, <1>10, <2>2, <2>3
    <2> QED  BY <1>1, <1>10, <2>4 DEF Generation
  <1> QED  BY <1>1, <1>5, <1>8, <1>9, <1>10, RunFacts DEF JobInv

(* The steps that only change the phase.                                   *)
LEMMA PhaseKeepsJob ==
  ASSUME JobInv, EndSchedule \/ StepRaises \/ LoopEnds \/ CountAnswers
  PROVE  JobInv'
  <1>0. JobOK /\ InOrder /\ InStep /\ (Profiling => Benchmark) /\ (~Profiling => Generation)
    BY DEF JobInv
  <1>1. UNCHANGED <<job, waiting, meta, status, outLen, firstRun, iter, numTokens>>
    BY DEF EndSchedule, StepRaises, LoopEnds, CountAnswers
  <1>2. JobOK' /\ Ids' = Ids /\ Profiling' = Profiling /\ Members' = Members
    BY <1>0, <1>1, JobKept DEF Members
  <1>3. InOrder'
    BY <1>0, <1>1, OrderKept DEF InOrder
  <1>4. /\ phase' \in {"run", "count", "done", "raised"}
        /\ phase' # "raised" => meta # <<>> \/ job.accepted = <<>>
    BY <1>0 DEF EndSchedule, StepRaises, LoopEnds, CountAnswers, InStep
  <1>5. InStep'
    BY <1>0, <1>1, <1>2, <1>4 DEF InStep
  <1>6. ASSUME Profiling
        PROVE  Benchmark'
    <2>0. Benchmark /\ (meta # <<>> => Head(meta) = 0 /\ meta[1] \in Members)
      BY <1>0, <1>6, MetaFacts DEF Benchmark
    <2>1. TooLong(0)' = TooLong(0) /\ Taken' = Taken /\ Steps' = Steps
      BY <1>1 DEF TooLong, BlocksToAllocate, LogicalBlocks, WatermarkBlocks, PromptLimit, Taken,
                  Steps
    <2>2. CASE EndSchedule
      <3>1. \/ phase' = "raised" /\ meta = <<>>
            \/ phase' = "run" /\ phase = "admit"
        BY <2>2 DEF EndSchedule
      <3>2. phase' = "run" /\ meta # <<>> =>
              iter <= Steps /\ \A s \in Members : status[s] = "RUNNING"
        BY <1>0, <1>6, <2>0, <3>1, StepsFacts DEF InStep, Benchmark
      <3> QED  BY <1>1, <1>2, <2>0, <2>1, <3>1, <3>2 DEF Benchmark
    <2>3. CASE StepRaises
      <3>1. phase = "run" /\ phase' = "raised" /\ (NoInput \/ StaleBatch)
        BY <2>3 DEF StepRaises
      <3>2. ASSUME meta # <<>>, ~(job.img > 0)
            PROVE  Steps < job.gen /\ waiting # <<>>
        <4>1. StaleBatch
          BY <2>0, <3>1, <3>2 DEF NoInput, ImagesAreMissing, FirstIsMissing
        <4>2. Steps < job.gen /\ \A s \in Members : status[s] = "FINISHED"
          BY <2>0, <3>1, <3>2, <4>1 DEF Benchmark, StaleBatch
        <4> QED  BY <2>3, <4>2 DEF StepRaises, HasUnfinished
      <3> QED  BY <1>1, <1>2, <2>0, <2>1, <3>1, <3>2 DEF Benchmark
    <2>4. CASE LoopEnds
      <3>1. phase = "run" /\ ~HasUnfinished /\ phase' = "done"
        BY <1>6, <2>4 DEF LoopEnds
      <3>2. meta # <<>> => iter = Steps + 1
        BY <2>0, <3>1 DEF HasUnfinished, Benchmark
      <3> QED  BY <1>1, <1>2, <2>0, <2>1, <3>1, <3>2 DEF Benchmark
    <2>5. CASE CountAnswers
      BY <2>0, <2>5 DEF CountAnswers, Benchmark
    <2> QED  BY <2>2, <2>3, <2>4, <2>5
  <1>7. ASSUME ~Profiling
        PROVE  Generation'
    <2>1. Finished' = Finished
      BY <1>1, <1>2 DEF Finished
    <2>2. phase' = "done" => numTokens = Len(job.accepted)
      BY <1>7 DEF EndSchedule, StepRaises, LoopEnds, CountAnswers
    <2> QED  BY <1>0, <1>1, <1>7, <2>1, <2>2 DEF Generation
  <1> QED  BY <1>2, <1>3, <1>5, <1>6, <1>7 DEF JobInv

LEMMA JobStep ==
  ASSUME JobInv, [Next]_vars
  PROVE  JobInv'
  <1>1. CASE UNCHANGED vars
    <2>1. UNCHANGED <<job, waiting, meta, status, outLen, phase, firstRun, iter, numTokens>>
      BY <1>1 DEF vars
    <2>2. /\ Ids' = Ids /\ Taken' = Taken /\ Steps' = Steps /\ Accepted' = Accepted /\ Members' = Members /\ Finished' = Finished
          /\ Profiling' = Profiling /\ TooLong(0)' = TooLong(0)
      BY <2>1 DEF Ids, Taken, Members, Finished, Profiling, TooLong, BlocksToAllocate,
                  LogicalBlocks, WatermarkBlocks, PromptLimit, Steps, Accepted
    <2>3. JobOK' = JobOK /\ InOrder' = InOrder /\ InStep' = InStep
      BY <2>1, <2>2 DEF JobOK, Uniform, InOrder, InStep
    <2>4. Benchmark' = Benchmark /\ Generation' = Generation
      BY <2>1, <2>2 DEF Benchmark, Generation
    <2> QED  BY <2>2, <2>3, <2>4 DEF JobInv
  <1> QED
    BY <1>1, AdmitKeepsJob, IgnoreKeepsJob, BenchmarkKeepsJob, SampledKeepsJob, PhaseKeepsJob
       DEF Next

LEMMA JobAlways == Spec => []JobInv
  BY JobInit, JobStep, PTL DEF Spec

(* The benchmark's throughput counts what was generated: one token for     *)
(* every sequence of the batch and every step, of as many as were asked    *)
(* for, or as max_model_len allows if the engine samples.                  *)
THEOREM BenchmarkCounts == Spec => []TokensCounted
  <1>1. JobInv => TokensCounted
    <2> SUFFICES ASSUME JobInv, phase = "done", Profiling
                 PROVE  numTokens = Len(meta) * Steps
      BY DEF TokensCounted
    <2>1. JobOK /\ InOrder /\ InStep /\ Benchmark
      BY DEF JobInv
    <2>2. numTokens = Len(meta) * (iter - 1) /\ (meta # <<>> => iter = Steps + 1)
          /\ (meta # <<>> => job.accepted # <<>>) /\ iter \in Nat
      BY <2>1 DEF Benchmark, InStep
    <2>3. CASE meta = <<>>
      <3>1. Len(meta) = 0 /\ job.gen \in Int /\ job.prompt[0] \in Int /\ MaxModelLen \in Int
        BY <2>1, <2>3, MetaFacts, ZeroIsAnId, OneShotAssumption DEF JobOK
      <3>2. Steps \in Int
        <4>1. MaxModelLen + 1 - job.prompt[0] \in Int
          BY <3>1
        <4> QED  BY <3>1, <4>1 DEF Steps, MinOf
      <3>3. 0 * (iter - 1) = 0 /\ 0 * Steps = 0
        BY <2>2, <3>2
      <3> QED  BY <2>2, <3>1, <3>3
    <2>4. CASE meta # <<>>
      <3>1. iter - 1 = Steps
        BY <2>1, <2>2, <2>4, StepsFacts
      <3> QED  BY <2>2, <3>1
    <2> QED  BY <2>3, <2>4
  <1> QED  BY <1>1, JobAlways, PTL

(* The text benchmark raises only if it could not schedule a sequence, or  *)
(* if max_model_len ended the batch while other sequences still waited.    *)
THEOREM BenchmarkRuns == Spec => []BenchmarkNeverFails
  <1>1. JobInv => BenchmarkNeverFails
    BY DEF JobInv, JobOK, Benchmark, BenchmarkNeverFails
  <1> QED  BY <1>1, JobAlways, PTL

(* A generation job that ends well has an answer for every sequence it had *)
(* accepted: the kept batch never counts one twice to make up for one it   *)
(* lacks.                                                                  *)
THEOREM AnswersOfAll == Spec => []AnswersAreReal
  <1>1. JobInv => AnswersAreReal
    <2> SUFFICES ASSUME JobInv, phase = "done", ~Profiling, NEW s \in Ids
                 PROVE  status[s] \in {"FINISHED", "REFUSED"}
      BY DEF AnswersAreReal
    <2>1. JobOK /\ InOrder /\ Cardinality(Finished) = Cardinality(Accepted)
      BY DEF JobInv, Generation, JobOK
    <2>2. IsFiniteSet(Accepted)
      <3>1. job.batch - 1 \in Int /\ 0 \in Int
        BY <2>1 DEF JobOK
      <3>2. IsFiniteSet(Ids)
        BY <3>1, FS_Interval DEF Ids
      <3> QED  BY <2>1, <3>2, AcceptedFacts, FS_Subset
    <2>3. Finished \in SUBSET Accepted
      BY <2>1 DEF Finished, InOrder
    <2>4. Finished = Accepted
      BY <2>1, <2>2, <2>3, FS_Subset
    <2> QED  BY <2>1, <2>4 DEF Finished, InOrder
  <1> QED  BY <1>1, JobAlways, PTL

-----------------------------------------------------------------------------
(* The blocks.  Tables are made once, in the loop of the scheduler, from   *)
(* the free stack: no block is in two of them, or in one of them twice.    *)
Pool == 0 .. job.pool - 1

Tables ==
  /\ DOMAIN table = Ids
  /\ \A s \in Ids \ Members : table[s] = <<>>
  /\ \A s \in Members : table[s] \in [1 .. BlocksToAllocate(s) -> Pool]
  /\ \A s, q \in Members :
       \A i \in 1 .. BlocksToAllocate(s), j \in 1 .. BlocksToAllocate(q) :
         table[s][i] = table[q][j] => s = q /\ i = j

Spare ==
  phase = "admit" =>
    /\ free \in Seq(Pool)
    /\ \A i, j \in 1 .. Len(free) : free[i] = free[j] => i = j
    /\ \A s \in Members : \A i \in 1 .. BlocksToAllocate(s), j \in 1 .. Len(free) :
         table[s][i] # free[j]

(* The jobs the launcher's pool is meant for: every sequence is admitted.  *)
Suited ==
  Profiling /\ job.spare >= 0 /\ job.img = 0 /\ FewEnoughBlocks /\ LimitsAllow

AllScheduled ==
  /\ Len(meta) = Taken
  /\ phase = "admit" => Len(free) = job.pool - Len(meta) * BlocksToAllocate(0)
  /\ phase # "admit" => Taken = job.batch

TableInv == Tables /\ Spare /\ (Suited => AllScheduled)

-----------------------------------------------------------------------------
LEMMA WatermarkNat ==
  ASSUME JobOK
  PROVE  WatermarkBlocks \in Nat
  <1>1. job.pool * WatermarkPercent \in Nat
    BY OneShotAssumption DEF JobOK
  <1> QED  BY <1>1 DEF WatermarkBlocks

LEMMA SizeKept ==
  ASSUME job' = job
  PROVE  /\ \A s \in Ids : BlocksToAllocate(s)' = BlocksToAllocate(s)
         /\ Ids' = Ids /\ Pool' = Pool /\ Suited' = Suited
  BY DEF BlocksToAllocate, LogicalBlocks, Ids, Pool, Suited, Profiling, FewEnoughBlocks,
         LimitsAllow

LEMMA CeilDivMonotone ==
  ASSUME NEW a \in Nat, NEW b \in Nat, NEW k \in Nat \ {0}, a <= b
  PROVE  CeilDiv(a, k) <= CeilDiv(b, k)
  <1> DEFINE x == a + k - 1
             p == CeilDiv(a, k)
             q == CeilDiv(b, k)
  <1>1. x \in Nat /\ p = x \div k
    BY DEF CeilDiv
  <1>2. p \in Nat /\ q \in Nat /\ b <= q * k
    BY CeilDivBounds
  <1>3. p * k <= x
    <2>1. (x \div k) * k <= x
      BY <1>1
    <2> QED  BY <1>1, <2>1
  <1> HIDE DEF p, q
  <1>4. ASSUME q < p
        PROVE  FALSE
    <2>1. q + 1 \in Nat /\ q + 1 <= p /\ p - (q + 1) \in Nat
      BY <1>2, <1>4
    <2>2. (p - (q + 1)) * k >= 0 /\ (p - (q + 1)) * k = p * k - (q + 1) * k
      BY <1>2, <2>1
    <2>3. (q + 1) * k = q * k + k /\ p * k \in Nat /\ q * k \in Nat /\ (q + 1) * k \in Nat
      BY <1>2
    <2> QED  BY <1>2, <1>3, <2>2, <2>3
  <1> QED  BY <1>2, <1>4 DEF p, q

(* The last n blocks of the stack go to the new table, from the top down.  *)
LEMMA TakeBlocks ==
  ASSUME JobOK, InOrder, Tables, Spare, Admit
  PROVE  LET s == Head(waiting)
             n == BlocksToAllocate(s)
         IN  /\ s \in Ids \ Members /\ n \in Nat \ {0} /\ n <= Len(free) /\ Len(free) \in Nat
             /\ free' \in Seq(Pool) /\ Len(free') = Len(free) - n
             /\ \A i \in 1 .. Len(free') : free'[i] = free[i] /\ i \in 1 .. Len(free)
             /\ table' = [table EXCEPT ![s] = [j \in 1 .. n |-> free[Len(free) + 1 - j]]]
             /\ \A j \in 1 .. n : /\ free[Len(free) + 1 - j] \in Pool
                                  /\ Len(free) + 1 - j \in 1 .. Len(free)
                                  /\ Len(free) + 1 - j > Len(free')
  <1> DEFINE s == Head(waiting)
             n == BlocksToAllocate(s)
             k == Len(free)
  <1>1. /\ phase = "admit" /\ waiting # <<>> /\ Verdict(s) = "admit"
        /\ table' = [table EXCEPT ![s] = [j \in 1 .. n |-> free[k + 1 - j]]]
        /\ free' = SubSeq(free, 1, k - n)
    BY DEF Admit
  <1>3. s \in Ids /\ s \notin Members
    BY <1>1, HeadIsNext
  <1>4. n \in Nat \ {0}
    BY <1>3, BlocksBounds
  <1>5. /\ free \in Seq(Pool) /\ k \in Nat /\ \A i \in 1 .. k : free[i] \in Pool
    BY <1>1, LenProperties, ElementOfSeq DEF Spare
  <1>6. ~(k - n < WatermarkBlocks)
    BY <1>1 DEF Verdict
  <1> HIDE DEF s, n, k
  <1>7. n <= k
    BY <1>4, <1>5, <1>6, WatermarkNat
  <1>8. k - n \in Nat /\ k - n <= k
    BY <1>4, <1>5, <1>7
  <1>9. /\ free' \in Seq(Pool) /\ Len(free') = k - n
        /\ \A i \in 1 .. k - n : free'[i] = free[i]
    <2>1. \A i \in 1 .. k - n : free[i] \in Pool
      BY <1>5, <1>8
    <2> QED  BY <1>1, <1>5, <1>8, <2>1, SubSeqProperties DEF k
  <1>10. \A i \in 1 .. Len(free') : free'[i] = free[i] /\ i \in 1 .. k
    BY <1>5, <1>8, <1>9
  <1>11. ASSUME NEW j \in 1 .. n
         PROVE  /\ free[k + 1 - j] \in Pool /\ k + 1 - j \in 1 .. k
                /\ k + 1 - j > Len(free')
    <2>1. k + 1 - j \in 1 .. k
      BY <1>4, <1>5, <1>7
    <2>2. k + 1 - j > k - n
      BY <1>4, <1>5, <1>7
    <2> QED  BY <1>5, <1>9, <2>1, <2>2
  <1> QED  BY <1>1, <1>3, <1>4, <1>5, <1>7, <1>9, <1>10, <1>11 DEF s, n, k

LEMMA AdmitKeepsTables ==
  ASSUME JobInv, Tables, Spare, Admit
  PROVE  Tables' /\ Spare'
  <1>0. PICK s : s = Head(waiting)
    OBVIOUS
  <1>n. PICK n : n = BlocksToAllocate(s)
    OBVIOUS
  <1>m. PICK k : k = Len(free)
    OBVIOUS
  <1>1. JobOK /\ InOrder /\ phase = "admit" /\ phase' = "admit" /\ job' = job
        /\ meta' = Append(meta, s)
    BY <1>0 DEF JobInv, Admit
  <1>2. /\ s \in Ids \ Members /\ n \in Nat \ {0} /\ n <= k /\ k \in Nat
        /\ free' \in Seq(Pool) /\ Len(free') = k - n
        /\ \A i \in 1 .. Len(free') : free'[i] = free[i] /\ i \in 1 .. k
        /\ table' = [table EXCEPT ![s] = [j \in 1 .. n |-> free[k + 1 - j]]]
        /\ \A j \in 1 .. n : /\ free[k + 1 - j] \in Pool
                             /\ k + 1 - j \in 1 .. k
                             /\ k + 1 - j > Len(free')
    BY <1>0, <1>n, <1>m, <1>1, TakeBlocks
  <1>3. /\ \A q \in Ids : BlocksToAllocate(q)' = BlocksToAllocate(q)
        /\ Ids' = Ids /\ Pool' = Pool
    BY <1>1, SizeKept
  <1>4. Members' = Members \cup {s} /\ Members \subseteq Ids /\ BlocksToAllocate(s)' = n
    BY <1>1, <1>2, <1>3, <1>n, MetaAppend, MetaFacts
  <1>5. /\ DOMAIN table = Ids
        /\ \A q \in Ids \ Members : table[q] = <<>>
        /\ \A q \in Members : table[q] \in [1 .. BlocksToAllocate(q) -> Pool]
        /\ \A r, q \in Members :
             \A i \in 1 .. BlocksToAllocate(r), j \in 1 .. BlocksToAllocate(q) :
               table[r][i] = table[q][j] => r = q /\ i = j
    BY DEF Tables
  <1>6. /\ \A i, j \in 1 .. k : free[i] = free[j] => i = j
        /\ \A q \in Members : \A i \in 1 .. BlocksToAllocate(q), j \in 1 .. k :
             table[q][i] # free[j]
    BY <1>1, <1>m DEF Spare
  <1>7. /\ \A q \in Ids : q # s => table'[q] = table[q]
        /\ \A j \in 1 .. n : table'[s][j] = free[k + 1 - j]
        /\ table'[s] \in [1 .. n -> Pool] /\ DOMAIN table' = Ids
    BY <1>2, <1>5
  <1>8. ASSUME NEW q \in Members'
        PROVE  table'[q] \in [1 .. BlocksToAllocate(q)' -> Pool]
    <2>1. CASE q = s
      BY <1>4, <1>7, <2>1
    <2>2. CASE q # s
      BY <1>3, <1>4, <1>5, <1>7, <2>2
    <2> QED  BY <2>1, <2>2
  <1>9. ASSUME NEW q \in Members, NEW i \in 1 .. BlocksToAllocate(q), NEW j \in 1 .. n
        PROVE  table'[q][i] # table'[s][j]
    <2>1. table'[q][i] = table[q][i] /\ table'[s][j] = free[k + 1 - j]
          /\ k + 1 - j \in 1 .. k
      BY <1>2, <1>4, <1>7
    <2> QED  BY <1>6, <2>1
  <1>10. ASSUME NEW i \in 1 .. n, NEW j \in 1 .. n, table'[s][i] = table'[s][j]
         PROVE  i = j
    <2>1. free[k + 1 - i] = free[k + 1 - j] /\ k + 1 - i \in 1 .. k /\ k + 1 - j \in 1 .. k
      BY <1>2, <1>7, <1>10
    <2>2. k + 1 - i = k + 1 - j
      BY <1>6, <2>1
    <2> QED  BY <1>2, <2>2
  <1>11. ASSUME NEW r \in Members', NEW q \in Members',
                NEW i \in 1 .. BlocksToAllocate(r)', NEW j \in 1 .. BlocksToAllocate(q)',
                table'[r][i] = table'[q][j]
         PROVE  r = q /\ i = j
    <2>1. CASE r = s /\ q = s
      BY <1>4, <1>10, <1>11, <2>1
    <2>2. CASE r = s /\ q # s
      BY <1>3, <1>4, <1>9, <1>11, <2>2
    <2>3. CASE r # s /\ q = s
      BY <1>3, <1>4, <1>9, <1>11, <2>3
    <2>4. CASE r # s /\ q # s
      <3>1. r \in Members /\ q \in Members /\ r \in Ids /\ q \in Ids
        BY <1>4, <2>4
      <3>2. table[r][i] = table[q][j]
        BY <1>7, <1>11, <2>4, <3>1
      <3> QED  BY <1>3, <1>5, <3>1, <3>2
    <2> QED  BY <2>1, <2>2, <2>3, <2>4
  <1>12. Tables'
    <2>1. \A q \in Ids \ Members' : table'[q] = <<>>
      BY <1>4, <1>5, <1>7
    <2> QED  BY <1>3, <1>7, <1>8, <1>11, <2>1 DEF Tables
  <1>13. \A i, j \in 1 .. Len(free') : free'[i] = free'[j] => i = j
    BY <1>2, <1>6
  <1>14. ASSUME NEW q \in Members', NEW i \in 1 .. BlocksToAllocate(q)',
                NEW j \in 1 .. Len(free')
         PROVE  table'[q][i] # free'[j]
    <2>1. free'[j] = free[j] /\ j \in 1 .. k
      BY <1>2
    <2>2. CASE q = s
      <3>1. /\ i \in 1 .. n /\ table'[s][i] = free[k + 1 - i] /\ k + 1 - i \in 1 .. k
            /\ k + 1 - i > Len(free')
        BY <1>2, <1>4, <1>7, <2>2
      <3>2. k + 1 - i # j
        BY <1>2, <3>1
      <3> QED  BY <1>6, <2>1, <2>2, <3>1, <3>2
    <2>3. CASE q # s
      BY <1>3, <1>4, <1>6, <1>7, <2>1, <2>3
    <2> QED  BY <2>2, <2>3
  <1> QED  BY <1>1, <1>2, <1>3, <1>12, <1>13, <1>14 DEF Spare

LEMMA TablesKept ==
  ASSUME Tables, UNCHANGED <<job, meta, table>>
  PROVE  Tables'
  <1>1. /\ \A s \in Ids : BlocksToAllocate(s)' = BlocksToAllocate(s)
        /\ Ids' = Ids /\ Pool' = Pool /\ Members' = Members
    BY SizeKept DEF Members
  <1>2. ASSUME NEW s \in Members PROVE BlocksToAllocate(s)' = BlocksToAllocate(s)
    BY DEF BlocksToAllocate, LogicalBlocks
  <1> QED  BY <1>1, <1>2 DEF Tables

LEMMA SpareKept ==
  ASSUME Spare, UNCHANGED <<job, meta, table, free, phase>>
  PROVE  Spare'
  <1>1. Pool' = Pool /\ Members' = Members
    BY DEF Members, Pool
  <1>2. ASSUME NEW s \in Members PROVE BlocksToAllocate(s)' = BlocksToAllocate(s)
    BY DEF BlocksToAllocate, LogicalBlocks
  <1> QED  BY <1>1, <1>2 DEF Spare

-----------------------------------------------------------------------------
(* The arithmetic of launch_qsrv.py:47.                                    *)

(* The watermark is within the one block more per sequence.                *)
LEMMA WatermarkCovered ==
  ASSUME NEW B \in Nat, NEW C \in Nat, NEW e \in Nat, NEW W \in Nat, (C + 1) * W <= 100
  PROVE  ((B * (C + 1) + e) * W) \div 100 <= B + e
  <1> DEFINE P == B * (C + 1) + e
             w == (P * W) \div 100
  <1>1. W <= 100
    <2>1. (C + 1) * W = C * W + W /\ C * W \in Nat
      OBVIOUS
    <2> QED  BY <2>1
  <1>2. P * W = B * ((C + 1) * W) + e * W
    OBVIOUS
  <1>3. (C + 1) * W \in Nat /\ 100 - (C + 1) * W \in Nat /\ 100 - W \in Nat
    BY <1>1
  <1>4. B * ((C + 1) * W) <= B * 100
    <2>1. B * (100 - (C + 1) * W) >= 0
      BY <1>3
    <2>2. B * (100 - (C + 1) * W) = B * 100 - B * ((C + 1) * W)
      BY <1>3
    <2> QED  BY <1>3, <2>1, <2>2
  <1>5. e * W <= e * 100
    <2>1. e * (100 - W) >= 0 /\ e * (100 - W) = e * 100 - e * W
      BY <1>3
    <2> QED  BY <2>1
  <1>6. P * W \in Nat
    OBVIOUS
  <1>7. P * W <= (B + e) * 100
    BY <1>2, <1>3, <1>4, <1>5
  <1> DEFINE x == P * W
  <1> HIDE DEF P, x
  <1>8. x \in Nat /\ x <= (B + e) * 100
    BY <1>6, <1>7 DEF x
  <1>9. x \div 100 <= B + e
    BY <1>8
  <1> QED  BY <1>9 DEF x, P

LEMMA LaunchedPool ==
  ASSUME JobOK, Suited
  PROVE  /\ BlocksToAllocate(0) \in Nat
         /\ job.pool = job.batch * (BlocksToAllocate(0) + 1) + job.spare
         /\ WatermarkBlocks <= job.batch + job.spare
  <1>1. /\ job.prompt[0] \in Nat \ {0} /\ job.gen \in Nat /\ BlockSize \in Nat \ {0}
        /\ job.img = 0 /\ job.batch \in Nat /\ job.spare \in Nat /\ WatermarkPercent \in Nat
    <2>1. job.prompt \in [Ids -> Nat \ {0}] /\ job.gen \in Nat /\ job.batch \in Nat /\ job.spare \in Int
      BY DEF JobOK
    <2>2. job.img = 0 /\ job.spare >= 0
      BY DEF Suited
    <2> QED  BY <2>1, <2>2, OneShotAssumption, ZeroIsAnId
  <1> DEFINE C == CeilDiv(job.prompt[0] + job.gen, BlockSize)
  <1>2. Uniform
    BY DEF JobOK, Suited
  <1>3. job.initBlocks = C /\ job.pool = job.batch * (C + 1) + job.spare
    BY <1>2 DEF Uniform, LauncherPool
  <1>4. C \in Nat /\ LogicalBlocks(0) \in Nat /\ LogicalBlocks(0) <= C
    <2>1. job.prompt[0] + job.img \in Nat /\ job.prompt[0] + job.gen \in Nat
          /\ job.prompt[0] + job.img <= job.prompt[0] + job.gen
      BY <1>1
    <2> QED  BY <1>1, <2>1, CeilDivBounds, CeilDivMonotone DEF LogicalBlocks
  <1>5. (C + 1) * WatermarkPercent <= 100
    BY DEF Suited, FewEnoughBlocks
  <1> HIDE DEF C
  <1>6. BlocksToAllocate(0) = C
    <2>1. BlocksToAllocate(0) = IF C <= LogicalBlocks(0) THEN LogicalBlocks(0) ELSE C
      BY <1>3, <1>4, MaxOfPair DEF BlocksToAllocate
    <2> QED  BY <1>4, <2>1
  <1>7. ((job.batch * (C + 1) + job.spare) * WatermarkPercent) \div 100 <= job.batch + job.spare
    BY <1>1, <1>4, <1>5, WatermarkCovered
  <1> QED  BY <1>3, <1>4, <1>6, <1>7 DEF WatermarkBlocks

(* The batch's tokens, when all of its prompts are of one length.          *)
LEMMA UniformTokens ==
  ASSUME JobInv, Profiling
  PROVE  /\ BatchedTokens \in Nat
         /\ BatchedTokens <= Taken * job.prompt[0]
  <1> DEFINE p == job.prompt[0]
  <1>1. JobOK /\ InOrder /\ Taken \in Nat /\ p \in Nat
    BY TakenFacts, ZeroIsAnId DEF JobInv, JobOK
  <1>2. Len(meta) \in Nat /\ Len(meta) <= Taken /\ Members = {meta[n] : n \in 1 .. Len(meta)}
    BY <1>1, MetaFacts DEF InOrder, Members
  <1>3. IsFiniteSet(1 .. Len(meta)) /\ Cardinality(1 .. Len(meta)) = Len(meta)
    <2>1. Len(meta) \in Int /\ 1 \in Int
      BY <1>2
    <2>2. /\ IsFiniteSet(1 .. Len(meta))
          /\ Cardinality(1 .. Len(meta)) = IF 1 > Len(meta) THEN 0 ELSE Len(meta) - 1 + 1
      BY <2>1, FS_Interval
    <2> QED  BY <1>2, <2>2
  <1>4. IsFiniteSet(Members) /\ Cardinality(Members) \in Nat /\ Cardinality(Members) <= Taken
    <2>1. IsFiniteSet(Members) /\ Cardinality(Members) <= Len(meta)
      <3>1. meta \in Surjection(1 .. Len(meta), Members)
        BY <1>1, <1>2, MetaFacts DEF Surjection, InOrder
      <3> QED  BY <1>3, <3>1, FS_Surjection
    <2>2. Cardinality(Members) \in Nat
      BY <2>1, FS_CardinalityType
    <2> QED  BY <1>1, <1>2, <2>1, <2>2
  <1>5. IsFiniteSet(1 .. p) /\ Cardinality(1 .. p) = p
    <2>1. p \in Int /\ 1 \in Int
      BY <1>1
    <2> HIDE DEF p
    <2>2. IsFiniteSet(1 .. p) /\ Cardinality(1 .. p) = IF 1 > p THEN 0 ELSE p - 1 + 1
      BY <2>1, FS_Interval
    <2>3. (IF 1 > p THEN 0 ELSE p - 1 + 1) = p
      BY <1>1
    <2> QED  BY <2>2, <2>3
  <1>6. UNION {{s} \X (1 .. job.prompt[s]) : s \in Members} = Members \X (1 .. p)
    <2>1. \A s \in Members : job.prompt[s] = p
      BY <1>1, MetaFacts, SameVerdict
    <2> QED  BY <2>1
  <1>7. BatchedTokens = Cardinality(Members) * p
    BY <1>4, <1>5, <1>6, FS_Product DEF BatchedTokens
  <1> HIDE DEF p
  <1>8. (Taken - Cardinality(Members)) * p >= 0
        /\ (Taken - Cardinality(Members)) * p = Taken * p - Cardinality(Members) * p
    BY <1>1, <1>4
  <1> QED  BY <1>1, <1>4, <1>7, <1>8 DEF p

LEMMA OneMore ==
  ASSUME NEW k \in Nat, NEW b \in Nat, NEW n \in Nat, k + 1 <= b
  PROVE  k * n + n <= b * n /\ k * n \in Nat /\ b * n \in Nat
  <1>1. b - (k + 1) \in Nat
    OBVIOUS
  <1>2. (b - (k + 1)) * n \in Nat
    BY <1>1
  <1>3. (b - (k + 1)) * n = b * n - (k + 1) * n /\ (k + 1) * n = k * n + n
    OBVIOUS
  <1> QED  BY <1>2, <1>3

(* In a suited job the scheduler turns nobody down and keeps nobody back.  *)
LEMMA SuitedAdmits ==
  ASSUME JobInv, Suited, AllScheduled, phase = "admit", waiting # <<>>
  PROVE  Verdict(Head(waiting)) = "admit"
  <1> DEFINE s == Head(waiting)
             C == BlocksToAllocate(0)
             k == Taken
             B == job.batch
             p == job.prompt[0]
  <1>1. JobOK /\ InOrder /\ Profiling
    BY DEF JobInv, Suited
  <1>2. s \in Ids /\ k \in Nat /\ k + 1 <= B
    <2>1. s \in Ids /\ k \in Nat /\ k + 1 \in 1 .. Len(job.accepted)
      BY <1>1, HeadIsNext
    <2>2. B \in Nat /\ Len(job.accepted) = B
      BY <1>1 DEF JobOK, Uniform, Suited, LimitsAllow
    <2> QED  BY <2>1, <2>2
  <1>3. BlocksToAllocate(s) = C /\ job.prompt[s] = p
    BY <1>1, <1>2, SameVerdict
  <1>4. /\ C \in Nat /\ job.pool = B * (C + 1) + job.spare
        /\ WatermarkBlocks <= B + job.spare /\ WatermarkBlocks \in Nat
    BY <1>1, LaunchedPool, WatermarkNat
  <1>5. B \in Nat /\ job.spare \in Nat /\ p \in Nat /\ Len(meta) = k
        /\ Len(free) = job.pool - k * C
    BY <1>1, ZeroIsAnId DEF JobOK, Suited, AllScheduled
  <1>6. BatchedTokens \in Nat /\ BatchedTokens <= k * p
    BY <1>1, UniformTokens
  <1>7. B <= MaxNumSeqs /\ B * p <= MaxNumBatchedTokens
        /\ MaxNumSeqs \in Nat /\ MaxNumBatchedTokens \in Nat
    BY OneShotAssumption DEF Suited, LimitsAllow
  <1> HIDE DEF s, C, k, B, p
  <1>8. k * C + C <= B * C /\ k * C \in Nat /\ B * C \in Nat /\ B * (C + 1) = B * C + B
    <2>1. B * (C + 1) = B * C + B
      BY <1>4, <1>5
    <2> QED  BY <1>2, <1>4, <1>5, <2>1, OneMore
  <1>9. PICK pool, spare, len, w : pool = job.pool /\ spare = job.spare /\ len = Len(free)
                                   /\ w = WatermarkBlocks
    OBVIOUS
  <1>10. ~(Len(free) - C < WatermarkBlocks) /\ ~(job.pool - C < WatermarkBlocks)
    <2>1. PICK a, b : a = k * C /\ b = B * C
      OBVIOUS
    <2>2. /\ a \in Nat /\ b \in Nat /\ a + C <= b /\ pool = b + B + spare
          /\ len = pool - a /\ w <= B + spare
      BY <1>4, <1>5, <1>8, <1>9, <2>1
    <2>3. C \in Nat /\ B \in Nat /\ spare \in Nat /\ w \in Nat
      BY <1>4, <1>5, <1>9
    <2>4. ~(len - C < w) /\ ~(pool - C < w)
      BY <2>2, <2>3
    <2> QED  BY <1>9, <2>4
  <1>12. k * p + p <= B * p /\ k * p \in Nat /\ B * p \in Nat
    BY <1>2, <1>5, OneMore
  <1>13. ~(BatchedTokens + p > MaxNumBatchedTokens) /\ ~(p > MaxNumBatchedTokens)
    BY <1>5, <1>6, <1>7, <1>12
  <1>15. ~(p > PromptLimit)
    <2>1. p < MaxModelLen /\ MaxModelLen \in Nat
      BY OneShotAssumption DEF Suited, LimitsAllow, p
    <2> QED  BY <1>5, <1>7, <1>13, <2>1 DEF PromptLimit, MinOf
  <1>14. ~(Len(meta) + 1 > MaxNumSeqs)
    BY <1>2, <1>5, <1>7
  <1> QED  BY <1>3, <1>10, <1>13, <1>14, <1>15 DEF Verdict, s

-----------------------------------------------------------------------------
LEMMA TableInit ==
  ASSUME Init
  PROVE  TableInv
  <1>1. JobInv
    BY JobInit
  <1>2. /\ free = [n \in 1 .. job.pool |-> n - 1] /\ meta = <<>>
        /\ table = [s \in Ids |-> <<>>] /\ waiting = job.accepted
        /\ phase = IF waiting = <<>> THEN "run" ELSE "admit"
    BY DEF Init
  <1>3. Members = {} /\ Len(meta) = 0
    BY <1>2, EmptySeq DEF Members
  <1>4. job.pool \in Nat /\ job.batch \in Nat
    BY <1>1 DEF JobInv, JobOK
  <1>5. free \in Seq(Pool) /\ Len(free) = job.pool
    <2>1. \A n \in 1 .. job.pool : n - 1 \in Pool
      BY <1>4 DEF Pool
    <2>2. free \in [1 .. job.pool -> Pool]
      BY <1>2, <2>1
    <2>3. free \in Seq(Pool)
      BY <1>4, <2>2, SeqDef
    <2>4. DOMAIN free = 1 .. Len(free) /\ Len(free) \in Nat
      BY <2>3, LenProperties
    <2> QED  BY <1>4, <2>2, <2>3, <2>4
  <1>6. \A i, j \in 1 .. Len(free) : free[i] = free[j] => i = j
    BY <1>2, <1>4, <1>5
  <1>7. Tables /\ Spare
    BY <1>2, <1>3, <1>5, <1>6 DEF Tables, Spare
  <1>8. ASSUME Suited
        PROVE  AllScheduled
    <2>1. Taken = 0 /\ phase = "admit"
      <3>1. JobOK /\ Len(job.accepted) \in Nat /\ (job.accepted = <<>> <=> Len(job.accepted) = 0)
        BY <1>1, AcceptedFacts DEF JobInv
      <3>2. Len(job.accepted) = job.batch /\ job.batch # 0
        BY <1>8, <3>1 DEF Suited, LimitsAllow, JobOK, Uniform
      <3> QED  BY <1>2, <3>1, <3>2 DEF Taken
    <2>2. Len(meta) * BlocksToAllocate(0) = 0
      BY <1>1, <1>3, <1>8, LaunchedPool DEF JobInv
    <2> QED  BY <1>2, <1>3, <1>4, <1>5, <2>1, <2>2 DEF AllScheduled
  <1> QED  BY <1>7, <1>8 DEF TableInv

LEMMA TableStep ==
  ASSUME JobInv, TableInv, [Next]_vars
  PROVE  TableInv'
  <1>0. JobOK /\ InOrder /\ InStep /\ Tables /\ Spare /\ (Suited => AllScheduled)
    BY DEF JobInv, TableInv
  (* A step after the scheduler's loop.                                    *)
  <1>k. ASSUME UNCHANGED <<job, meta, table, waiting>>, phase # "admit", phase' # "admit"
        PROVE  TableInv'
    <2>1. Tables' /\ Spare' /\ Suited' = Suited
      BY <1>0, <1>k, TablesKept, SizeKept DEF Spare
    <2>2. Taken' = Taken
      BY <1>k DEF Taken
    <2> QED  BY <1>0, <1>k, <2>1, <2>2 DEF TableInv, AllScheduled
  <1>1. CASE Admit
    <2>1. Tables' /\ Spare'
      BY <1>0, <1>1, AdmitKeepsTables
    <2>2. job' = job /\ waiting # <<>> /\ waiting' = Tail(waiting) /\ phase = "admit"
          /\ phase' = "admit" /\ meta' = Append(meta, Head(waiting))
      BY <1>1 DEF Admit
    <2>3. Suited' = Suited
      BY <2>2, SizeKept
    <2>4. ASSUME Suited
          PROVE  AllScheduled'
      <3>1. /\ Head(waiting) \in Ids /\ Taken' = Taken + 1 /\ Taken \in Nat
        BY <1>0, <2>2, HeadIsNext DEF Taken
      <3>2. Len(meta') = Len(meta) + 1
        BY <1>0, <2>2, <3>1, MetaAppend
      <3>3. Len(free') = Len(free) - BlocksToAllocate(Head(waiting))
        BY <1>0, <1>1, TakeBlocks
      <3>4. BlocksToAllocate(Head(waiting)) = BlocksToAllocate(0)
        BY <1>0, <2>4, <3>1, SameVerdict DEF Suited
      <3>5. BlocksToAllocate(0)' = BlocksToAllocate(0) /\ BlocksToAllocate(0) \in Nat
            /\ job.pool \in Nat
        BY <1>0, <2>2, <2>4, LaunchedPool DEF BlocksToAllocate, LogicalBlocks, JobOK
      <3>6. Len(meta) = Taken /\ Len(free) = job.pool - Taken * BlocksToAllocate(0)
        BY <1>0, <2>2, <2>4 DEF AllScheduled
      <3> DEFINE C == BlocksToAllocate(0)
      <3>7. (Taken + 1) * C = Taken * C + C /\ Taken * C \in Nat
        BY <3>1, <3>5
      <3> HIDE DEF C
      <3>8. Len(free') = job.pool - (Taken + 1) * C
        <4>1. Len(free') = Len(free) - C /\ Len(free) = job.pool - Taken * C
              /\ C \in Nat /\ job.pool \in Nat
          BY <3>3, <3>4, <3>5, <3>6 DEF C
        <4> QED  BY <3>7, <4>1
      <3>9. BlocksToAllocate(0)' = C /\ Len(meta') = Taken + 1
        BY <3>2, <3>5, <3>6 DEF C
      <3> QED  BY <2>2, <3>1, <3>8, <3>9 DEF AllScheduled
    <2> QED  BY <2>1, <2>3, <2>4 DEF TableInv
  <1>2. CASE Ignore
    <2>1. UNCHANGED <<job, meta, table, free, phase>> /\ phase = "admit" /\ waiting # <<>>
          /\ Verdict(Head(waiting)) = "ignore"
      BY <1>2 DEF Ignore
    <2>2. Tables' /\ Spare' /\ Suited' = Suited
      BY <1>0, <2>1, TablesKept, SpareKept, SizeKept
    <2>3. ~Suited
      BY <1>0, <2>1, SuitedAdmits
    <2> QED  BY <2>2, <2>3 DEF TableInv
  <1>3. CASE EndSchedule
    <2>1. UNCHANGED <<job, meta, table, waiting>> /\ phase = "admit" /\ phase' # "admit"
          /\ (waiting # <<>> => Verdict(Head(waiting)) = "stop")
      BY <1>3 DEF EndSchedule
    <2>2. Tables' /\ Spare' /\ Suited' = Suited
      BY <1>0, <2>1, TablesKept, SizeKept DEF Spare
    <2>3. ASSUME Suited
          PROVE  AllScheduled'
      <3>1. waiting = <<>>
        BY <1>0, <2>1, <2>3, SuitedAdmits
      <3>2. Taken = job.batch
        BY <1>0, <2>3, <3>1, TakenFacts DEF JobOK, Uniform, Suited, LimitsAllow
      <3> QED  BY <1>0, <2>1, <2>3, <3>2 DEF AllScheduled, Taken
    <2> QED  BY <2>2, <2>3 DEF TableInv
  <1>4. CASE StepRaises \/ LoopEnds \/ CountAnswers
    BY <1>4, <1>k DEF StepRaises, LoopEnds, CountAnswers
  <1>5. CASE BenchmarkStep \/ SampledStep
    BY <1>5, <1>k DEF BenchmarkStep, SampledStep, ModelRun
  <1>6. CASE UNCHANGED vars
    <2>1. UNCHANGED <<job, meta, table, free, phase, waiting>>
      BY <1>6 DEF vars
    <2>2. Tables' /\ Spare' /\ Suited' = Suited
      BY <1>0, <2>1, TablesKept, SpareKept, SizeKept
    <2>3. AllScheduled' = AllScheduled
      BY <2>1 DEF AllScheduled, Taken, BlocksToAllocate, LogicalBlocks
    <2> QED  BY <1>0, <2>2, <2>3 DEF TableInv
  <1> QED  BY <1>1, <1>2, <1>3, <1>4, <1>5, <1>6 DEF Next

LEMMA TablesAlways == Spec => [](JobInv /\ TableInv)
  <1>1. Init => TableInv
    BY TableInit
  <1>2. JobInv /\ TableInv /\ [Next]_vars => TableInv'
    BY TableStep
  <1> QED  BY <1>1, <1>2, JobAlways, PTL DEF Spec

(* The pool of launch_qsrv.py:47 holds the whole batch, for any watermark, *)
(* as long as a sequence's blocks are few enough and the limits allow it.  *)
THEOREM LauncherPoolFits == Spec => []LauncherPoolSuffices
  <1>1. JobInv /\ TableInv => LauncherPoolSuffices
    BY DEF JobInv, TableInv, LauncherPoolSuffices, AllScheduled, Suited
  <1> QED  BY <1>1, TablesAlways, PTL
-----------------------------------------------------------------------------
(* The KV cache of a benchmark.  All members have Written tokens in it, in *)
(* the slots their tables give to the positions below Capacity.            *)
Written  == IF firstRun THEN 0 ELSE job.prompt[0] + outLen[0] - 1
Capacity == BlocksToAllocate(0) * BlockSize

KvInv == DOMAIN kv = Pool /\ KvIntact

LEMMA CapacityBounds ==
  ASSUME JobOK, NEW p \in Nat, job.initBlocks = CeilDiv(p + job.gen, BlockSize)
  PROVE  p + job.gen <= Capacity /\ Capacity \in Nat
  <1>1. p + job.gen \in Nat /\ BlockSize \in Nat \ {0}
    BY OneShotAssumption DEF JobOK
  <1>2. job.initBlocks \in Nat /\ p + job.gen <= job.initBlocks * BlockSize
    BY <1>1, CeilDivBounds DEF JobOK
  <1>3. BlocksToAllocate(0) \in Nat /\ job.initBlocks <= BlocksToAllocate(0)
    BY ZeroIsAnId, BlocksBounds
  <1>4. PICK i, c : i = job.initBlocks /\ c = BlocksToAllocate(0)
    OBVIOUS
  <1>5. (c - i) * BlockSize \in Nat /\ (c - i) * BlockSize = c * BlockSize - i * BlockSize
        /\ c * BlockSize \in Nat /\ i * BlockSize \in Nat
    BY <1>1, <1>2, <1>3, <1>4
  <1>6. i * BlockSize <= c * BlockSize
    BY <1>5
  <1> QED  BY <1>1, <1>2, <1>4, <1>5, <1>6 DEF Capacity

(* A run writes the positions from Written up, for every member alike.     *)
LEMMA RunWrites ==
  ASSUME JobInv, ModelRun, Profiling
  PROVE  /\ Written \in Nat /\ Written' \in Nat /\ Written <= Written' /\ Written' <= Capacity
         /\ \A s \in Members : /\ Positions(s) = Written .. Written' - 1
                               /\ KvLen(s) = Written /\ KvLen(s)' = Written'
  <1>0. JobOK /\ InOrder /\ InStep /\ Benchmark
    BY DEF JobInv
  <1>a. meta # <<>> /\ meta[1] = 0 /\ meta[1] \in Members /\ job.accepted # <<>>
    BY <1>0, RunFacts, MetaFacts DEF Benchmark
  <1>b. phase = "run" /\ status[0] = "RUNNING"
    BY <1>a DEF ModelRun, StaleBatch
  <1>d. iter <= Steps
    BY <1>0, <1>a, <1>b DEF Benchmark
  <1>e. iter <= job.gen
    BY <1>0, <1>a, <1>d, StepsFacts DEF InStep
  <1>1. /\ phase = "run" /\ firstRun' = FALSE /\ job' = job
        /\ iter \in Nat \ {0} /\ (firstRun <=> iter = 1) /\ iter <= job.gen
        /\ \A s \in Ids : outLen[s] = IF s \in Members THEN iter - 1 ELSE 0
    BY <1>0, <1>b, <1>e DEF ModelRun, InStep
  <1>2. /\ job.img = 0 /\ \A s \in Members : s \in Ids
        /\ \A s \in Ids : outLen'[s] = IF s \in Members THEN iter ELSE 0
    BY RunFacts
  <1>3. 0 \in Members /\ 0 \in Ids
    BY <1>0, RunFacts, MetaFacts, ZeroIsAnId DEF Benchmark
  <1>p. PICK p : p = job.prompt[0]
    OBVIOUS
  <1>4. /\ p \in Nat \ {0} /\ job.gen \in Nat \ {0} /\ job.initBlocks = CeilDiv(p + job.gen, BlockSize)
        /\ \A s \in Ids : job.prompt[s] = p
    BY <1>0, <1>3, <1>p DEF JobOK, Uniform
  <1>5. /\ Written = IF firstRun THEN 0 ELSE p + (iter - 1) - 1
        /\ Written' = p + iter - 1
    BY <1>1, <1>2, <1>3, <1>p DEF Written
  <1>6. Written \in Nat /\ Written' \in Nat /\ Written <= Written' /\ Written' <= p + job.gen
    BY <1>1, <1>4, <1>5
  <1>7. p + job.gen <= Capacity
    BY <1>0, <1>4, <1>p, CapacityBounds
  <1>8. Capacity \in Nat
    BY <1>0, <1>3, BlocksBounds, OneShotAssumption DEF Capacity
  <1>9. ASSUME NEW s \in Members
        PROVE  /\ Positions(s) = Written .. Written' - 1
               /\ KvLen(s) = Written /\ KvLen(s)' = Written'
    <2>1. s \in Ids /\ job.prompt[s] = p /\ outLen[s] = iter - 1 /\ outLen'[s] = iter
          /\ outLen[0] = iter - 1
      BY <1>1, <1>2, <1>3, <1>4
    <2>2. CASE firstRun
      <3>1. Positions(s) = 0 .. p - 1
        BY <1>2, <1>4, <2>1, <2>2 DEF Positions
      <3>2. Written = 0 /\ Written' = p
        BY <1>1, <1>4, <1>5, <2>2
      <3> QED  BY <1>1, <1>2, <1>4, <2>1, <2>2, <3>1, <3>2 DEF KvLen
    <2>3. CASE ~firstRun
      <3>1. Positions(s) = {p + (iter - 1) - 1}
        <4>1. ContextLen = p + (iter - 1)
          BY <1>p, <2>1 DEF ContextLen
        <4>2. ContextLen - 1 = p + (iter - 1) - 1
          BY <1>1, <1>4, <4>1
        <4> QED  BY <2>3, <4>2 DEF Positions
      <3>2. Written = p + (iter - 1) - 1 /\ Written' - 1 = Written
        BY <1>1, <1>4, <1>5, <2>3
      <3>3. Written .. Written' - 1 = {Written}
        BY <1>6, <3>2
      <3> QED  BY <1>1, <1>2, <1>4, <1>5, <2>1, <2>3, <3>1, <3>2, <3>3 DEF KvLen
    <2> QED  BY <2>2, <2>3
  <1>10. Written' <= Capacity
    BY <1>4, <1>6, <1>7, <1>8
  <1> QED  BY <1>6, <1>9, <1>10

LEMMA DivMod ==
  ASSUME NEW a \in Nat, NEW k \in Nat \ {0}
  PROVE  a \div k \in Nat /\ a % k \in 0 .. k - 1 /\ (a \div k) * k <= a
  <1>1. a \div k \in Nat
    OBVIOUS
  <1>2. a % k \in 0 .. k - 1
    OBVIOUS
  <1>3. (a \div k) * k <= a
    BY SMTT(30)
  <1> QED  BY <1>1, <1>2, <1>3

LEMMA DivModUnique ==
  ASSUME NEW a \in Nat, NEW b \in Nat, NEW k \in Nat \ {0},
         a \div k = b \div k, a % k = b % k
  PROVE  a = b
  BY SMTT(30)

(* Every position below Capacity is in the table, in a slot of its own.    *)
LEMMA SlotFacts ==
  ASSUME JobOK, InOrder, Tables, Profiling, meta # <<>>
  PROVE  /\ \A s \in Members, a \in 0 .. Capacity - 1 :
              InTable(a) /\ Slot(s, a)[1] \in Pool /\ Slot(s, a)[2] \in 0 .. BlockSize - 1
         /\ \A s, q \in Members, a, b \in 0 .. Capacity - 1 :
              Slot(s, a) = Slot(q, b) => s = q /\ a = b
  <1>c. PICK c : c = BlocksToAllocate(0)
    OBVIOUS
  <1>1. c \in Nat \ {0} /\ BlockSize \in Nat \ {0} /\ Capacity = c * BlockSize /\ Capacity \in Nat
    BY <1>c, ZeroIsAnId, BlocksBounds, OneShotAssumption DEF Capacity
  <1>2. \A s \in Members : BlocksToAllocate(s) = c /\ table[s] \in [1 .. c -> Pool]
    BY <1>c, MetaFacts, SameVerdict DEF Tables
  <1>3. ASSUME NEW s \in Members
        PROVE  Len(table[s]) = c
    <2>1. table[s] \in Seq(Pool)
      BY <1>1, <1>2, SeqDef
    <2>2. DOMAIN table[s] = 1 .. Len(table[s]) /\ Len(table[s]) \in Nat
      BY <2>1, LenProperties
    <2>3. DOMAIN table[s] = 1 .. c
      BY <1>2
    <2> QED  BY <1>1, <2>2, <2>3
  <1>4. MaxTableLen = c
    <2>1. Members # {}
      BY MetaFacts
    <2>2. {Len(table[s]) : s \in Members} = {c}
      BY <1>3, <2>1
    <2> QED  BY <1>1, <2>2, MaxOfOne DEF MaxTableLen
  <1>5. ASSUME NEW a \in 0 .. Capacity - 1
        PROVE  /\ a \div BlockSize \in 0 .. c - 1 /\ a % BlockSize \in 0 .. BlockSize - 1
    <2>0. a \in Nat
      OBVIOUS
    <2>1. /\ a \in Nat /\ a \div BlockSize \in Nat /\ a % BlockSize \in 0 .. BlockSize - 1
          /\ (a \div BlockSize) * BlockSize <= a
      BY <1>1, <2>0, DivMod, Zenon
    <2>2. PICK d : d = a \div BlockSize
      OBVIOUS
    <2>3. d \in Nat /\ d * BlockSize \in Nat /\ d * BlockSize <= a /\ a < c * BlockSize
      BY <1>1, <2>1, <2>2
    <2>4. ASSUME c <= d
          PROVE  FALSE
      <3>1. d - c \in Nat
        BY <1>1, <2>3, <2>4
      <3>2. (d - c) * BlockSize \in Nat
        BY <1>1, <3>1
      <3>3. (d - c) * BlockSize = d * BlockSize - c * BlockSize /\ c * BlockSize \in Nat
        BY <1>1, <2>3
      <3> QED  BY <2>1, <2>3, <3>2, <3>3
    <2>5. d \in 0 .. c - 1
      BY <1>1, <2>3, <2>4
    <2> QED  BY <2>1, <2>2, <2>5
  <1>6. ASSUME NEW s \in Members, NEW a \in 0 .. Capacity - 1
        PROVE  /\ InTable(a) /\ a \div BlockSize + 1 \in 1 .. c
               /\ Slot(s, a) = <<table[s][a \div BlockSize + 1], a % BlockSize>>
               /\ Slot(s, a)[1] \in Pool /\ Slot(s, a)[2] \in 0 .. BlockSize - 1
    <2>1. /\ a \div BlockSize \in 0 .. c - 1 /\ a % BlockSize \in 0 .. BlockSize - 1
      BY <1>5
    <2>2. a \div BlockSize < c /\ a \div BlockSize + 1 \in 1 .. c /\ a \div BlockSize + 1 <= c
      BY <1>1, <2>1
    <2>3. Entry(s, a \div BlockSize + 1) = table[s][a \div BlockSize + 1]
      BY <1>3, <2>2 DEF Entry
    <2>4. table[s][a \div BlockSize + 1] \in Pool
      BY <1>2, <2>2
    <2> QED  BY <1>4, <2>1, <2>2, <2>3, <2>4 DEF InTable, Slot
  <1>7. ASSUME NEW s \in Members, NEW q \in Members, NEW a \in 0 .. Capacity - 1,
               NEW b \in 0 .. Capacity - 1, Slot(s, a) = Slot(q, b)
        PROVE  s = q /\ a = b
    <2>1. PICK i, j : i = a \div BlockSize /\ j = b \div BlockSize
      OBVIOUS
    <2>2. table[s][i + 1] = table[q][j + 1] /\ a % BlockSize = b % BlockSize
      BY <1>6, <1>7, <2>1
    <2>3. i \in 0 .. c - 1 /\ j \in 0 .. c - 1 /\ i + 1 \in 1 .. c /\ j + 1 \in 1 .. c
      BY <1>5, <1>6, <2>1
    <2>4. s = q /\ i + 1 = j + 1
      BY <1>2, <2>2, <2>3 DEF Tables
    <2>5. i = j
      BY <2>3, <2>4
    <2>6. a \in Nat /\ b \in Nat
      OBVIOUS
    <2> QED  BY <1>1, <2>1, <2>2, <2>4, <2>5, <2>6, DivModUnique
  <1> QED  BY <1>6, <1>7

(* A run that writes every member's positions from m to n puts each in its *)
(* slot, and leaves those already written alone.                           *)
LEMMA RunWritesSlots ==
  ASSUME JobOK, InOrder, Tables, KvInv, Profiling, meta # <<>>, kv' = KvAfterRun,
         NEW m \in Nat, NEW n \in Nat, n <= Capacity,
         \A s \in Members : Positions(s) = m .. n - 1 /\ KvLen(s) = m
  PROVE  \A s \in Members, pos \in 0 .. n - 1 :
           kv'[Slot(s, pos)[1]][Slot(s, pos)[2]] = {<<s, pos>>}
  <1>5. Capacity \in Nat
    BY ZeroIsAnId, BlocksBounds, OneShotAssumption DEF Capacity
  <1>6. \A a : a \in 0 .. n - 1 => a \in 0 .. Capacity - 1
    BY <1>5
  <1>7. ASSUME NEW s \in Members, NEW pos \in 0 .. n - 1
        PROVE  kv'[Slot(s, pos)[1]][Slot(s, pos)[2]] = {<<s, pos>>}
    <2> DEFINE b == Slot(s, pos)[1]
               o == Slot(s, pos)[2]
               writers == {w[2] : w \in {x \in Writes : x[1] = <<b, o>> /\ InTable(x[2][2])}}
    <2>1. b \in DOMAIN kv /\ o \in 0 .. BlockSize - 1 /\ Slot(s, pos) = <<b, o>> /\ InTable(pos)
      BY <1>6, SlotFacts DEF KvInv, Slot
    <2>2. kv'[b][o] = IF writers = {} THEN kv[b][o] ELSE writers
      BY <2>1 DEF KvAfterRun
    <2>3. \A w \in writers : w = <<s, pos>> /\ pos >= m
      <3>1. ASSUME NEW q \in Members, NEW a \in m .. n - 1, Slot(q, a) = <<b, o>>
            PROVE  q = s /\ a = pos
        <4>1. a \in 0 .. Capacity - 1 /\ pos \in 0 .. Capacity - 1
          BY <1>5, <1>6
        <4> QED  BY <2>1, <3>1, <4>1, SlotFacts
      <3>2. \A x \in Writes : \E q \in Members, a \in m .. n - 1 : x = <<Slot(q, a), <<q, a>>>>
        BY DEF Writes
      <3>3. ASSUME NEW x \in Writes, x[1] = <<b, o>>
            PROVE  x[2] = <<s, pos>> /\ pos >= m
        <4>1. PICK q \in Members : \E a \in m .. n - 1 : x = <<Slot(q, a), <<q, a>>>>
          BY <3>2
        <4>2. PICK a \in m .. n - 1 : x = <<Slot(q, a), <<q, a>>>>
          BY <4>1
        <4>3. x[1] = Slot(q, a) /\ x[2] = <<q, a>>
          BY <4>2
        <4>4. q = s /\ a = pos
          BY <3>1, <3>3, <4>3
        <4> QED  BY <4>3, <4>4
      <3> QED  BY <3>3
    <2>4. pos >= m => <<s, pos>> \in writers
      <3> SUFFICES ASSUME pos >= m PROVE <<s, pos>> \in writers
        OBVIOUS
      <3>1. pos \in Positions(s)
        OBVIOUS
      <3>2. <<Slot(s, pos), <<s, pos>>>> \in Writes
        BY <3>1 DEF Writes
      <3>3. <<Slot(s, pos), <<s, pos>>>> \in {x \in Writes : x[1] = <<b, o>> /\ InTable(x[2][2])}
        BY <2>1, <3>2
      <3> QED  BY <3>3
    <2> HIDE DEF writers
    <2>5. CASE pos >= m
      BY <2>2, <2>3, <2>4, <2>5
    <2>6. CASE ~(pos >= m)
      <3>1. writers = {}
        BY <2>3, <2>6
      <3>2. pos \in 0 .. KvLen(s) - 1
        BY <2>6
      <3> QED  BY <2>2, <3>1, <3>2 DEF KvInv, KvIntact
    <2> QED  BY <2>5, <2>6
  <1> QED  BY <1>7

LEMMA RunKeepsKv ==
  ASSUME JobInv, Tables, KvInv, ModelRun, Profiling
  PROVE  KvInv'
  <1>1. JobOK /\ InOrder /\ kv' = KvAfterRun /\ UNCHANGED <<job, meta, table>> /\ Members' = Members
    BY DEF JobInv, ModelRun, Members
  <1>2. meta # <<>> /\ Profiling' = Profiling /\ Pool' = Pool
    BY <1>1, RunFacts DEF Pool
  <1>3. DOMAIN kv' = Pool
    BY <1>1 DEF KvAfterRun, KvInv
  <1>4. PICK m, n : m = Written /\ n = Written'
    OBVIOUS
  <1>5. /\ m \in Nat /\ n \in Nat /\ n <= Capacity
        /\ \A s \in Members : Positions(s) = m .. n - 1 /\ KvLen(s) = m /\ KvLen(s)' = n
    BY <1>4, RunWrites
  <1>6. \A s \in Members, pos \in 0 .. n - 1 :
          kv'[Slot(s, pos)[1]][Slot(s, pos)[2]] = {<<s, pos>>}
    BY <1>1, <1>2, <1>5, RunWritesSlots
  <1>7. \A s \in Members, pos \in 0 .. n - 1 : Slot(s, pos)' = Slot(s, pos)
    BY <1>1 DEF Slot, Entry
  <1> QED  BY <1>1, <1>2, <1>3, <1>5, <1>6, <1>7 DEF KvInv, KvIntact

(* The run of a batch that max_model_len has ended writes once more, within *)
(* the tables, before the engine notices.                                   *)
LEMMA LastRunKeepsKv ==
  ASSUME JobInv, Tables, KvInv, StepRaises, Profiling, kv' = KvAfterRun, ~NoInput
  PROVE  KvInv'
  <1>1. /\ JobOK /\ InOrder /\ InStep /\ Benchmark /\ phase = "run" /\ StaleBatch
        /\ UNCHANGED <<job, meta, table, firstRun, outLen>>
    BY DEF JobInv, StepRaises
  <1>2. /\ Members' = Members /\ Profiling' = Profiling /\ Pool' = Pool /\ DOMAIN kv' = Pool
    BY <1>1 DEF Members, Profiling, Pool, KvAfterRun, KvInv
  <1>3. /\ meta # <<>> /\ meta[1] = 0 /\ 0 \in Members /\ 0 \in Ids /\ job.accepted # <<>>
        /\ Members \subseteq Ids
    BY <1>1, MetaFacts, ZeroIsAnId DEF Benchmark, StaleBatch
  <1>4. iter = Steps + 1 /\ Steps < job.gen /\ Steps \in Nat \ {0} /\ job.gen \in Nat
    BY <1>1, <1>3, StepsFacts DEF Benchmark, StaleBatch
  <1>5. ~firstRun /\ job.img = 0 /\ \A s \in Members : outLen[s] = Steps
    BY <1>1, <1>3, <1>4 DEF InStep
  <1>p. PICK p, m : p = job.prompt[0] /\ m = p + Steps - 1
    OBVIOUS
  <1>6. /\ p \in Nat \ {0} /\ job.initBlocks = CeilDiv(p + job.gen, BlockSize)
        /\ \A s \in Members : job.prompt[s] = p
    BY <1>1, <1>3, <1>p DEF JobOK, Uniform
  <1>7. m \in Nat /\ m + 1 \in Nat /\ m + 1 <= p + job.gen
    BY <1>4, <1>6, <1>p
  <1>8. m + 1 <= Capacity
    <2>1. p + job.gen <= Capacity /\ Capacity \in Nat
      BY <1>1, <1>4, <1>6, <1>p, CapacityBounds
    <2> QED  BY <1>4, <1>6, <1>7, <2>1
  <1>9. \A s \in Members : Positions(s) = m .. (m + 1) - 1 /\ KvLen(s) = m
    <2>0. ContextLen = p + Steps
      BY <1>3, <1>5, <1>p DEF ContextLen
    <2>1. ContextLen - 1 = m /\ m .. (m + 1) - 1 = {m}
      <3>1. m .. (m + 1) - 1 = {m}
        <4>1. m \in Nat
          BY <1>7
        <4>2. (m + 1) - 1 = m /\ m .. m = {m}
          BY <4>1
        <4> QED  BY <4>2, Zenon
      <3>2. p + Steps - 1 = m
        BY <1>p, Zenon
      <3>3. p \in Nat /\ Steps \in Nat
        BY <1>4, <1>6
      <3>4. ContextLen - 1 = m
        BY <2>0, <3>2, <3>3
      <3> QED  BY <3>1, <3>4
    <2>2. \A s \in Members : Positions(s) = {m}
      BY <1>5, <2>1 DEF Positions
    <2>3. p + 0 + Steps - 1 = m
      BY <1>4, <1>6, <1>p
    <2>4. \A s \in Members : KvLen(s) = m
      BY <1>5, <1>6, <2>3 DEF KvLen
    <2> QED  BY <2>1, <2>2, <2>4
  <1>10. \A s \in Members, pos \in 0 .. (m + 1) - 1 :
           kv'[Slot(s, pos)[1]][Slot(s, pos)[2]] = {<<s, pos>>}
    BY <1>1, <1>3, <1>7, <1>8, <1>9, RunWritesSlots
  <1>11. \A s \in Members, pos \in 0 .. m - 1 :
           /\ pos \in 0 .. (m + 1) - 1 /\ Slot(s, pos)' = Slot(s, pos)
    BY <1>1, <1>7 DEF Slot, Entry
  <1>12. \A s \in Members : KvLen(s)' = m
    BY <1>1, <1>9 DEF KvLen
  <1> QED  BY <1>1, <1>2, <1>10, <1>11, <1>12 DEF KvInv, KvIntact

LEMMA KvInit ==
  ASSUME Init
  PROVE  KvInv
  <1>1. DOMAIN kv = Pool /\ firstRun = TRUE
    BY DEF Init, Pool
  <1>2. \A s \in Members : KvLen(s) = 0
    BY <1>1 DEF KvLen
  <1> QED  BY <1>1, <1>2 DEF KvInv, KvIntact

LEMMA KvStep ==
  ASSUME JobInv, Tables, KvInv, [Next]_vars
  PROVE  KvInv'
  <1>0. JobOK /\ InOrder /\ InStep /\ (Profiling => Benchmark)
    BY DEF JobInv
  (* Before the first run is over nothing is claimed.                      *)
  <1>f. ASSUME firstRun' = TRUE, UNCHANGED <<job, kv>>
        PROVE  KvInv'
    <2>1. Pool' = Pool
      BY <1>f DEF Pool
    <2>2. \A s : KvLen(s)' = 0
      BY <1>f DEF KvLen
    <2> QED  BY <1>f, <2>1, <2>2 DEF KvInv, KvIntact
  (* What the properties read stays.                                       *)
  <1>k. ASSUME UNCHANGED <<job, meta, table, kv, firstRun, outLen>>
        PROVE  KvInv'
    <2>1. Pool' = Pool /\ Members' = Members /\ Profiling' = Profiling
      BY <1>k DEF Pool, Members, Profiling
    <2>2. \A s, pos : KvLen(s)' = KvLen(s) /\ Slot(s, pos)' = Slot(s, pos)
      BY <1>k DEF KvLen, Slot, Entry
    <2> QED  BY <1>k, <2>1, <2>2 DEF KvInv, KvIntact
  <1>1. CASE Admit
    <2>1. firstRun = TRUE
      BY <1>0, <1>1 DEF Admit, InStep
    <2> QED  BY <1>1, <1>f, <2>1 DEF Admit
  <1>2. CASE Ignore \/ EndSchedule \/ LoopEnds \/ CountAnswers
    BY <1>2, <1>k DEF Ignore, EndSchedule, LoopEnds, CountAnswers
  <1>3. CASE StepRaises
    <2>1. UNCHANGED <<job, meta, table, firstRun, outLen>> /\ phase = "run"
          /\ (NoInput \/ StaleBatch)
      BY <1>3 DEF StepRaises
    <2>2. (NoInput /\ kv' = kv) \/ (~NoInput /\ kv' = KvAfterRun)
      BY <1>3 DEF StepRaises
    <2>3. CASE Profiling
      <3>1. CASE kv' = kv
        BY <1>k, <2>1, <3>1
      <3>2. CASE ~NoInput /\ kv' = KvAfterRun
        BY <1>3, <2>3, <3>2, LastRunKeepsKv
      <3> QED  BY <2>2, <3>1, <3>2
    <2>4. CASE ~Profiling
      <3>1. ~Profiling' /\ Pool' = Pool
        BY <2>1, <2>4 DEF Profiling, Pool
      <3>2. DOMAIN kv' = DOMAIN kv
        BY <2>2 DEF KvAfterRun
      <3> QED  BY <3>1, <3>2 DEF KvInv, KvIntact
    <2> QED  BY <2>3, <2>4
  <1>4. CASE BenchmarkStep \/ SampledStep
    <2>1. ModelRun
      BY <1>4 DEF BenchmarkStep, SampledStep
    <2>2. CASE Profiling
      BY <2>1, <2>2, RunKeepsKv
    <2>3. CASE ~Profiling
      <3>1. ~Profiling' /\ Pool' = Pool
        BY <2>1, <2>3 DEF Profiling, Pool, ModelRun
      <3>2. DOMAIN kv' = DOMAIN kv
        BY <2>1 DEF KvAfterRun, ModelRun
      <3> QED  BY <3>1, <3>2 DEF KvInv, KvIntact
    <2> QED  BY <2>2, <2>3
  <1>5. CASE UNCHANGED vars
    BY <1>5, <1>k DEF vars
  <1> QED  BY <1>1, <1>2, <1>3, <1>4, <1>5 DEF Next

(* In a benchmark, for any tables, sizes and limits the code accepts, every *)
(* token's KV stays in the slot the decode kernel reads it from.            *)
THEOREM BenchmarkKvIntact == Spec => []KvIntact
  <1>1. Init => KvInv
    BY KvInit
  <1>2. JobInv /\ TableInv /\ KvInv /\ [Next]_vars => KvInv'
    BY KvStep DEF TableInv
  <1>3. KvInv => KvIntact
    BY DEF KvInv
  <1> QED  BY <1>1, <1>2, <1>3, TablesAlways, PTL DEF Spec
=============================================================================

---------------------------- MODULE WeightLoading ----------------------------
(***************************************************************************)
(* From a fake-quantized checkpoint to the parameters of the served model: *)
(* checkpoint_converter.py packs the linear layers one by one and saves    *)
(* them under the names Hugging Face gives them; hf_model_weights_iterator *)
(* reads the tensors of a folder, in the order of its files, and           *)
(* load_weights of each model copies them into its own parameters, where   *)
(* queries, keys and values are one layer, gate and up another, and the    *)
(* experts of Mixtral two.                                                 *)
(*                                                                         *)
(* One decoder layer is modelled.  A tensor is named <<module, expert,     *)
(* suffix>>, expert 0 where there are none.  Its elements are tags         *)
(* <<module, expert, i, j>>: quantized with their own scale and zero.      *)
(***************************************************************************)
EXTENDS WeightPacking, Sequences, Functions, FiniteSets

CONSTANTS
  Sizes,        \* [q, kv, inter, groupSize]; q is the hidden size too
  NumExperts,   \* of Mixtral
  VocabSize, CkptVocabSize,   \* rows of the model's embeddings, of the checkpoint's
  Orders        \* orders of the modules in a checkpoint file

(* A decoder layer's modules and the others, of all models.                *)
Modules ==
  {"q_proj", "k_proj", "v_proj", "o_proj", "gate_proj", "up_proj", "down_proj", "w1", "w2", "w3",
   "embed_tokens", "norm", "lm_head", "gate", "rotary_emb"}

ASSUME LoadingAssumption ==
  /\ Sizes \subseteq [q : Nat \ {0}, kv : Nat \ {0}, inter : Nat \ {0}, groupSize : Nat \ {0}]
  /\ {NumExperts, VocabSize, CkptVocabSize} \subseteq Nat \ {0}
  /\ \A order \in Orders : Range(order) = Modules

VARIABLES
  job,      \* [model, sz, bias (attention_bias), order]: fixed
  ckpt,     \* the checkpoint's tensors: [name -> tensor]
  todo,     \* linear layers still to be converted
  files,    \* files still to be opened
  current,  \* names of the tensors still to be read from the open file
  params,   \* state_dict(): [name -> tensor]
  phase     \* "convert", "list", "load", "loaded" or "raised"

vars == <<job, ckpt, todo, files, current, params, phase>>

Converted == {"w4a8-channel", "w4a8-group", "w8a8"}
FourBit   == {"w4a8-channel", "w4a8-group", "mixtral"}
Unset     == <<"unset">>

Attention == {"q_proj", "k_proj", "v_proj"}
Experts   == 1 .. NumExperts

(* The decoder layer's linear layers, in the checkpoint and in the model.  *)
Linears ==
  {<<m, 0>> : m \in Attention \cup {"o_proj"}} \cup
  (IF job.model = "mixtral" THEN {"w1", "w2", "w3"} \X Experts
   ELSE {<<m, 0>> : m \in {"gate_proj", "up_proj", "down_proj"}})

FusedLinears ==
  {<<"qkv_proj", 0>>, <<"o_proj", 0>>} \cup
  (IF job.model = "mixtral" THEN {"w1_w3", "w2"} \X Experts
   ELSE {<<"gate_up_proj", 0>>, <<"down_proj", 0>>})

Hidden == job.sz.q
Out(m) ==
  CASE m \in {"q_proj", "o_proj", "down_proj", "w2"} -> Hidden
    [] m \in {"k_proj", "v_proj"}                    -> job.sz.kv
    [] m \in {"gate_proj", "up_proj", "w1", "w3"}    -> job.sz.inter
    [] m = "qkv_proj"                                -> Hidden + 2 * job.sz.kv
    [] m \in {"gate_up_proj", "w1_w3"}               -> 2 * job.sz.inter
In(m) == IF m \in {"down_proj", "w2"} THEN job.sz.inter ELSE Hidden

(* MoEW4A8 is per channel, the attention of Mixtral per group.             *)
Scheme(m) ==
  CASE job.model = "w4a8-channel" -> "channel"
    [] job.model = "w4a8-group"   -> "group"
    [] job.model = "w8a8"         -> "int8"
    [] job.model = "w16a16"       -> "fp16"
    [] job.model = "mixtral"      -> IF m \in {"w1", "w2", "w3", "w1_w3"} THEN "channel" ELSE "group"

Groups(m) == In(m) \div job.sz.groupSize

(* attention_bias gives the attention's layers one.                        *)
SuffixesOf(m) ==
  SchemeSuffixes(Scheme(m)) \cup
  (IF job.bias /\ m \in Attention \cup {"qkv_proj", "o_proj"} THEN {"bias"} ELSE {})

(* What is not a linear layer of the decoder; the router is, of Mixtral.   *)
Others == {"embed_tokens", "norm", "lm_head"} \cup (IF job.model = "mixtral" THEN {"gate"} ELSE {})
Rows(m) ==
  CASE m \in {"embed_tokens", "lm_head"} -> VocabSize
    [] m = "norm" -> Hidden
    [] m = "gate" -> NumExperts

(* Two families of tensors as one.                                         *)
Joined(f, g) == [n \in DOMAIN f \cup DOMAIN g |-> IF n \in DOMAIN f THEN f[n] ELSE g[n]]

NumRows(t) == Cardinality(DOMAIN t)
NumCols(t) == Cardinality(DOMAIN t[0])

(* A linear layer's tensor as from_linear stores it.                       *)
Packed(m, e, s) ==
  Store(s, Out(m), In(m), Groups(m), Tensor(Out(m), In(m), LAMBDA i, j : <<m, e, i, j>>))

(* The converter's: the bias is not taken from the fake-quantized          *)
(* checkpoint, but from a model that was never initialized.                *)
Uninitialized == <<"uninitialized">>
FromLinear(l) ==
  [n \in {<<l[1], l[2], s>> : s \in SuffixesOf(l[1])} |->
     IF n[3] = "bias" /\ job.model \in Converted
     THEN Tensor(Out(l[1]), 1, LAMBDA i, j : Uninitialized) ELSE Packed(l[1], l[2], n[3])]

TensorsOf(layers) ==
  [n \in UNION {DOMAIN FromLinear(l) : l \in layers} |-> FromLinear(<<n[1], n[2]>>)[n]]

(* Sync layers other than gemm layers.                                     *)
OtherTensors ==
  [n \in {<<m, 0, "weight">> : m \in Others} \cup {<<"rotary_emb", 0, "inv_freq">>} |->
     Tensor(CASE n[1] \in {"embed_tokens", "lm_head"} -> CkptVocabSize
              [] n[1] = "rotary_emb" -> 1
              [] OTHER -> Rows(n[1]), 1, LAMBDA i, j : <<n[1], 0, i, j>>)]

(* state_dict() of the model as it is constructed.                         *)
LinearParams == UNION {{<<l[1], l[2], s>> : s \in SuffixesOf(l[1])} : l \in FusedLinears}
FreshParams ==
  Joined([n \in LinearParams |->
            LET t == Packed(n[1], n[2], n[3]) IN Tensor(NumRows(t), NumCols(t), LAMBDA i, j : Unset)],
         [n \in {<<m, 0, "weight">> : m \in Others} |-> Tensor(Rows(n[1]), 1, LAMBDA i, j : Unset)])

(* The layer's assertions and reshapes.                                    *)
Packs(m) ==
  /\ Scheme(m) = "group" => In(m) % job.sz.groupSize = 0
  /\ Scheme(m) \in {"channel", "group"} => WholeTiles(Out(m), In(m))

(* The files of the folder: the converter writes one; one that was         *)
(* published may hold shards, the same weights in other formats, and what  *)
(* the trainer left.                                                       *)
File(ext, modules) == [ext |-> ext, modules |-> modules]
All       == Modules
Published ==
  {{File("safetensors", All \ Attention), File("safetensors", Attention)},
   {File("safetensors", All), File("bin", All), File("optimizer.bin", {"optimizer"})},
   {File("bin", All \ {"lm_head"}), File("pt", {"lm_head"}), File("optimizer.bin", {"optimizer"})}}

(* The layers of W8A8 and of Mixtral have no bias: the former cannot be     *)
(* constructed with one (Parameter is not imported).                       *)
Init ==
  /\ job \in [model : Converted \cup {"w16a16", "mixtral"}, sz : Sizes, bias : BOOLEAN, order : Orders]
  /\ job.bias => job.model \notin {"w8a8", "mixtral"}
  /\ job.model = "mixtral" => \A l \in Linears : Packs(l[1])
  /\ IF job.model \in Converted
     THEN ckpt = [n \in {} |-> 0] /\ phase = "convert"
     ELSE ckpt = Joined(TensorsOf(Linears), OtherTensors) /\ phase = "list"
  /\ todo = IF job.model \in Converted THEN Linears ELSE {}
  /\ files = {} /\ current = {} /\ params = FreshParams

-----------------------------------------------------------------------------
(* checkpoint_converter.py                                                 *)

ConvertLinear ==
  /\ phase = "convert" /\ todo # {}
  /\ LET l == CHOOSE x \in todo : TRUE
     IN  IF Packs(l[1])
         THEN ckpt' = Joined(ckpt, FromLinear(l)) /\ todo' = todo \ {l} /\ phase' = phase
         ELSE phase' = "raised" /\ UNCHANGED <<ckpt, todo>>
  /\ UNCHANGED <<job, files, current, params>>

SaveCheckpoint ==
  /\ phase = "convert" /\ todo = {}
  /\ ckpt' = Joined(ckpt, OtherTensors) /\ phase' = "list"
  /\ UNCHANGED <<job, todo, files, current, params>>

-----------------------------------------------------------------------------
(* hf_model_weights_iterator, load_format "auto".                          *)

Names(file) ==
  {n \in DOMAIN ckpt : n[1] \in file.modules}
  \cup (IF "optimizer" \in file.modules THEN {<<"optimizer", 0, "state">>} ELSE {})

(* Mutant of Excluded: no file is.                                         *)
NoneExcluded(file) == FALSE
Excluded(file)     == file.ext = "optimizer.bin"

(* Safetensors if there are any, else all that torch can load.             *)
FilesToLoad(folder) ==
  LET safe == {f \in folder : f.ext = "safetensors"}
  IN  IF safe # {} THEN safe ELSE {f \in folder : ~Excluded(f)}

ListFiles ==
  /\ phase = "list"
  /\ \E folder \in IF job.model \in Converted THEN {{File("bin", All)}} ELSE Published :
       files' = FilesToLoad(folder)
  /\ phase' = "load"
  /\ UNCHANGED <<job, ckpt, todo, current, params>>

NextFile ==
  /\ phase = "load" /\ current = {}
  /\ \/ \E f \in files : files' = files \ {f} /\ current' = Names(f) /\ phase' = phase
     \/ files = {} /\ phase' = "loaded" /\ UNCHANGED <<files, current>>
  /\ UNCHANGED <<job, ckpt, todo, params>>

(* The modules of a file come in its order, a module's tensors in any.     *)
Place(n)     == {k \in DOMAIN job.order : job.order[k] = n[1]}
ComesNext(n) == \A x \in current : \A k \in Place(x) : \A i \in Place(n) : i <= k

-----------------------------------------------------------------------------
(* load_weights                                                            *)

Shard(fused, e, offset, size) == [layer |-> <<fused, e>>, offset |-> offset, size |-> size]

(* Mutant of Skipped: every model skips the norms.                         *)
SkipsNorms(n) == n[1] \in {"rotary_emb", "norm"} \/ (n[3] = "bias" /\ job.model = "w8a8")

Skipped(n) ==
  \/ n[1] = "rotary_emb"
  \/ n[1] = "norm" /\ job.model \in FourBit
  \/ n[3] = "bias" /\ job.model = "w8a8"

(* Mutant of AttentionShard: keys and values change places.                *)
ValuesFirst(n) ==
  CASE n[1] = "q_proj" -> Shard("qkv_proj", 0, 0, Hidden)
    [] n[1] = "k_proj" -> Shard("qkv_proj", 0, Hidden + job.sz.kv, job.sz.kv)
    [] n[1] = "v_proj" -> Shard("qkv_proj", 0, Hidden, job.sz.kv)

(* The part of a fused layer that a tensor of the checkpoint fills.        *)
AttentionShard(n) ==
  CASE n[1] = "q_proj" -> Shard("qkv_proj", 0, 0, Hidden)
    [] n[1] = "k_proj" -> Shard("qkv_proj", 0, Hidden, job.sz.kv)
    [] n[1] = "v_proj" -> Shard("qkv_proj", 0, Hidden + job.sz.kv, job.sz.kv)

GateUpShard(n) ==
  IF n[1] = "gate_proj" THEN Shard("gate_up_proj", 0, 0, job.sz.inter)
  ELSE Shard("gate_up_proj", 0, job.sz.inter, job.sz.inter)

ExpertShard(n) ==
  CASE n[1] = "w1" -> Shard("w1_w3", n[2], 0, job.sz.inter)
    [] n[1] = "w3" -> Shard("w1_w3", n[2], job.sz.inter, job.sz.inter)
    [] n[1] = "w2" -> Shard("w2", n[2], 0, Hidden)

ShardOf(n) ==
  IF n[1] \in Attention THEN AttentionShard(n)
  ELSE IF n[1] \in {"gate_proj", "up_proj"} THEN GateUpShard(n) ELSE ExpertShard(n)

(* Mutant of SliceDim: scales and zeros of groups are cut like weights.    *)
AlwaysRows(n) == 0
(* Those of the groups have the output channels in their columns.          *)
SliceDim(n) == IF n[3] \in {"s2_scales", "s2_zeros"} THEN 1 ELSE 0

Smaller(a, b)   == IF a < b THEN a ELSE b
FirstRows(t, k) == Tensor(Smaller(k, NumRows(t)), NumCols(t), LAMBDA i, j : t[i][j])

(* param.data[offset : offset + n].copy_(t), along one dimension.          *)
CopiedInto(param, dim, offset, t) ==
  Tensor(NumRows(param), NumCols(param), LAMBDA i, j :
    LET r == IF dim = 0 THEN i - offset ELSE i
        c == IF dim = 0 THEN j ELSE j - offset
    IN  IF r \in DOMAIN t /\ c \in DOMAIN t[r] THEN t[r][c] ELSE param[i][j])

(* The loaded tensor keeps its first rows, as many as the shard has; then  *)
(* both must have the same shape.                                          *)
SameShape(param, dim, shard, t) ==
  IF dim = 0
  THEN NumRows(t) = Smaller(shard.size, NumRows(param) - shard.offset) /\ NumCols(t) = NumCols(param)
  ELSE NumRows(t) = NumRows(param) /\ NumCols(t) = Smaller(shard.size, NumCols(param) - shard.offset)

LoadShard(n) ==
  LET shard  == ShardOf(n)
      target == <<shard.layer[1], shard.layer[2], n[3]>>
      part   == FirstRows(ckpt[n], shard.size)
  IN  IF target \in DOMAIN params /\ SameShape(params[target], SliceDim(n), shard, part)
      THEN params' = [params EXCEPT ![target] = CopiedInto(@, SliceDim(n), shard.offset, part)]
           /\ phase' = phase
      ELSE phase' = "raised" /\ UNCHANGED params

(* load_padded_tensor_parallel_vocab                                       *)
LoadVocab(n) ==
  /\ params' = [params EXCEPT ![n] = CopiedInto(@, 0, 0, FirstRows(ckpt[n], NumRows(@)))]
  /\ phase' = phase

(* load_tensor_parallel_weights                                            *)
LoadWhole(n) ==
  IF n \in DOMAIN params /\ NumRows(ckpt[n]) = NumRows(params[n]) /\ NumCols(ckpt[n]) = NumCols(params[n])
  THEN params' = [params EXCEPT ![n] = ckpt[n]] /\ phase' = phase
  ELSE phase' = "raised" /\ UNCHANGED params

LoadTensor ==
  /\ phase = "load"
  /\ \E n \in current :
       /\ ComesNext(n)
       /\ IF Skipped(n) THEN UNCHANGED <<params, phase>>
          ELSE IF n[1] \in Attention \cup {"gate_proj", "up_proj", "w1", "w2", "w3"} THEN LoadShard(n)
          ELSE IF n[1] \in {"embed_tokens", "lm_head"} THEN LoadVocab(n)
          ELSE LoadWhole(n)
       /\ current' = current \ {n}
  /\ UNCHANGED <<job, ckpt, todo, files>>

Next == ConvertLinear \/ SaveCheckpoint \/ ListFiles \/ LoadTensor \/ NextFile
Spec == Init /\ [][Next]_vars

-----------------------------------------------------------------------------
(* Properties                                                              *)

(* Type invariant: every parameter keeps its shape.                        *)
TypeOK ==
  /\ phase \in {"convert", "list", "load", "loaded", "raised"} /\ todo \subseteq Linears
  /\ DOMAIN params = DOMAIN FreshParams
  /\ \A n \in DOMAIN params :
       NumRows(params[n]) = NumRows(FreshParams[n]) /\ NumCols(params[n]) = NumCols(FreshParams[n])

(* The fused layer's weights, as one matrix: element i, j of it is the     *)
(* checkpoint's element of the layer whose shard row i is in.              *)
FusedElement(m, e, i, j) ==
  CASE m = "qkv_proj" /\ i < Hidden              -> <<"q_proj", e, i, j>>
    [] m = "qkv_proj" /\ i \in Hidden .. Hidden + job.sz.kv - 1 -> <<"k_proj", e, i - Hidden, j>>
    [] m = "qkv_proj" /\ i >= Hidden + job.sz.kv -> <<"v_proj", e, i - Hidden - job.sz.kv, j>>
    [] m = "gate_up_proj" -> IF i < job.sz.inter THEN <<"gate_proj", e, i, j>>
                             ELSE <<"up_proj", e, i - job.sz.inter, j>>
    [] m = "w1_w3"        -> IF i < job.sz.inter THEN <<"w1", e, i, j>>
                             ELSE <<"w3", e, i - job.sz.inter, j>>
    [] OTHER              -> <<m, e, i, j>>

(* Once a model is loaded each of its linear layers holds what from_linear *)
(* would have made of that layer's whole matrix, though its parts were     *)
(* packed one by one, tile by tile, saved under other names and copied in  *)
(* whatever order the files gave them.                                     *)
FusedAsPacked ==
  phase = "loaded" => \A n \in LinearParams :
    ~(n[3] = "bias" /\ job.model \in Converted) =>
    params[n] = Store(n[3], Out(n[1]), In(n[1]), Groups(n[1]),
                      Tensor(Out(n[1]), In(n[1]), LAMBDA i, j : FusedElement(n[1], n[2], i, j)))

(* Nothing else is left as it was constructed, but for the norms' weights  *)
(* of a 4-bit model, which are not loaded, and rows for tokens that the    *)
(* checkpoint's vocabulary does not have.                                  *)
OthersLoaded ==
  phase = "loaded" => \A m \in Others : \A i \in 0 .. Rows(m) - 1 :
    \/ params[<<m, 0, "weight">>][i][0] = <<m, 0, i, 0>>
    \/ (m = "norm" /\ job.model \in FourBit)
    \/ (m \in {"embed_tokens", "lm_head"} /\ i >= CkptVocabSize)

(* Conversion and loading fail only for widths that are not whole tiles or *)
(* groups, and for a shard with fewer output channels than there are       *)
(* groups: load_weights cuts the rows of s2_scales at the shard's size.    *)
OnlyOddSizesFail ==
  phase = "raised" =>
    \/ \E l \in Linears : ~Packs(l[1])
    \/ \E m \in Attention \cup {"gate_proj"} : Scheme(m) = "group" /\ Groups(m) > Out(m)
=============================================================================

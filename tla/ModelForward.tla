---------------------------- MODULE ModelForward ----------------------------
(***************************************************************************)
(* ModelRunner.execute_model in IFB mode and the forward passes of the     *)
(* Llama and VILA models: the batch is laid out row by row, the embeddings *)
(* of the images are spliced in, every layer runs its kernels, in order,   *)
(* over the shared activation buffers and the paged KV cache, and the      *)
(* language-model head looks at one row per sequence.                      *)
(*                                                                         *)
(* Numbers are abstracted to where they come from.  A cell holds a tag:    *)
(* the tensor it is part of, the layer, and the token of its row.  The     *)
(* result of a kernel is the tensor a Llama layer computes there if every  *)
(* operand is the tensor it should be, of this layer and of one token; if  *)
(* not, it is garbage.  A token is <<s, j, k>>: the j-th element of        *)
(* sequence s, k = 0 if it is text, else the k-th embedding of its image.  *)
(* The models have no sliding window, which would cap the context lengths. *)
(***************************************************************************)
EXTENDS ActivationBuffers, Sequences, SequencesExt, FiniteSets

CONSTANTS
  SeqIds,            \* sequences
  Prompts,           \* prompts: [before, after], texts around the images
  NumLayers,
  Sizes,             \* the models' sizes
  Images, ImagesPerSeq,  \* images a prompt has, and --img-per-seq
  TokensPerImage,    \* LLAVA_DEFAULT_TOKEN_PER_IMAGE
  BlockSize,
  Tables,            \* [SeqIds -> its GPU blocks, in table order]
  MaxGenerated       \* tokens generated per sequence, a bound for TLC

ASSUME ForwardAssumption ==
  /\ IsFiniteSet(SeqIds)
  /\ {NumLayers, TokensPerImage, BlockSize, MaxGenerated} \subseteq Nat \ {0}
  /\ Images \subseteq Nat /\ ImagesPerSeq \subseteq Nat \ {0}
  /\ \A p \in Prompts : p.before \in Nat /\ p.after \in Nat /\ p.before + p.after > 0

(* No tensor is empty, and the queries are as wide as hidden_states, which *)
(* is so if the heads divide hidden_size.                                  *)
ASSUME SizesAssumption ==
  /\ Sizes \subseteq ModelSizes
  /\ \A sz \in Sizes : sz.hidden > 0 /\ sz.inter > 0 /\ sz.hidden <= sz.q

(* What the block manager gives: no block twice, and room for all tokens   *)
(* but the last.                                                           *)
ASSUME TablesAssumption ==
  \A s \in SeqIds :
    /\ Tables[s] \in Seq(Nat)
    /\ \A t \in SeqIds : \A i \in DOMAIN Tables[s], j \in DOMAIN Tables[t] :
         Tables[s][i] = Tables[t][j] => s = t /\ i = j
    /\ \A p \in Prompts, n \in Images :
         p.before + n * TokensPerImage + p.after + MaxGenerated - 1 <= Len(Tables[s]) * BlockSize

VARIABLES
  job,       \* model and command line: [precision, vlm, imgPerSeq, images, prompt, sz]
  done,      \* [SeqIds -> tokens generated]
  batch,     \* InputMetadata
  mem,       \* [buffer -> its cells]
  hidden,    \* hidden_states, a tag per row
  attn,      \* attn_output
  kv,        \* [layer -> [block -> [offset -> tag]]]
  logits,    \* a tag per sequence of the batch
  layer, pc

vars == <<job, done, batch, mem, hidden, attn, kv, logits, layer, pc>>

Layers      == 1 .. NumLayers
Garbage     == [of |-> "garbage", layer |-> 0, token |-> <<>>]
Val(of, l, t) == [of |-> of, layer |-> l, token |-> t]
Blocks      == UNION {{Tables[s][i] : i \in DOMAIN Tables[s]} : s \in SeqIds}
CeilDiv(a, b) == (a + b - 1) \div b
NoBatch     == [prompt |-> FALSE, seqs |-> <<>>, context |-> <<>>, cuSeqlens |-> <<0>>,
                maxSeqLen |-> 0, rows |-> 0]

(* ModelRunner.__init__: the models there are.  The VLMs are not available *)
(* in W4A8.  A driver gives every prompt of a job as many images.          *)
Models ==
  {"w4a8-channel", "w4a8-group", "w8a8", "w16a16"} \X {FALSE} \cup {"w8a8", "w16a16"} \X {TRUE}

Init ==
  /\ \E m \in Models, perSeq \in ImagesPerSeq, images \in Images, sz \in Sizes,
       prompt \in [SeqIds -> Prompts] :
       /\ ~m[2] => images = 0 /\ perSeq = 1
       /\ job = [precision |-> m[1], vlm |-> m[2], imgPerSeq |-> perSeq,
                 images |-> images, prompt |-> prompt, sz |-> sz]
  /\ done = [s \in SeqIds |-> 0]
  /\ batch = NoBatch /\ mem = [b \in {} |-> <<>>]
  /\ hidden = <<>> /\ attn = <<>> /\ logits = <<>> /\ layer = 1 /\ pc = "idle"
  /\ kv = [l \in Layers |-> [b \in Blocks |-> [o \in 0 .. BlockSize - 1 |-> Garbage]]]

-----------------------------------------------------------------------------
(* Sequences and their tokens.                                             *)

PromptLen(s) == job.prompt[s].before + job.images + job.prompt[s].after
ImageExtra   == IF job.vlm THEN job.imgPerSeq * (TokensPerImage - 1) ELSE 0

(* The sequence's length as prepare_input_tensors sees it.                 *)
ContextLen(s) == PromptLen(s) + done[s] + ImageExtra

(* What a position of the sequence is: texts, then the images, then texts. *)
TokenAt(s, pos) ==
  LET before == job.prompt[s].before
      wide   == job.images * TokensPerImage
  IN  IF pos < before THEN <<s, pos, 0>>
      ELSE IF pos < before + wide
      THEN <<s, before + (pos - before) \div TokensPerImage,
             ((pos - before) % TokensPerImage) + 1>>
      ELSE <<s, pos - job.images * (TokensPerImage - 1), 0>>

IsImage(s, j) == j \in job.prompt[s].before .. job.prompt[s].before + job.images - 1

-----------------------------------------------------------------------------
(* prepare_input_tensors.                                                  *)

Running == {s \in SeqIds : done[s] > 0 /\ done[s] < MaxGenerated}
New     == {s \in SeqIds : done[s] = 0}
Orders(S) == UNION {{q \in [1 .. n -> S] : IsInjective(q)} : n \in 1 .. Cardinality(S)}

CuSeqlens(lens) ==
  LET cu[b \in 0 .. Len(lens)] == IF b = 0 THEN 0 ELSE cu[b - 1] + lens[b]
  IN  [b \in 1 .. Len(lens) + 1 |-> cu[b - 1]]

MaxIn(q) == CHOOSE x \in {q[n] : n \in DOMAIN q} : \A n \in DOMAIN q : q[n] <= x

(* The input ids of the batch, one sequence after the other.               *)
InputTokens(seqs) ==
  FlattenSeq([b \in DOMAIN seqs |-> [j \in 1 .. PromptLen(seqs[b]) |-> <<seqs[b], j - 1>>]])

PromptRows(seqs) == Len(InputTokens(seqs)) + Len(seqs) * ImageExtra

(* The buffers hold whatever was in that memory.                           *)
Allocate(rows) ==
  mem' = IF job.precision = "w16a16"
         THEN [t \in {"qkv", "outDown", "gateUp", "qHidden", "qMlp"} |->
                 [c \in 0 .. rows - 1 |-> Garbage]]
         ELSE [b \in {"act", "quant", "scale", "sum"} |->
                 [c \in 0 .. BufferSize(job.sz, rows)[b] - 1 |-> Garbage]]

(* _prepare_prompt; InputMetadata wants imgPerSeq images per prompt.       *)
PreparePrompt ==
  /\ pc = "idle"
  /\ \E seqs \in Orders(New) :
       LET lens == [b \in DOMAIN seqs |-> ContextLen(seqs[b])]
       IN  /\ batch' = [prompt |-> TRUE, seqs |-> seqs, context |-> lens,
                        cuSeqlens |-> CuSeqlens(lens), maxSeqLen |-> MaxIn(lens),
                        rows |-> PromptRows(seqs)]
           /\ Allocate(batch'.rows)
  /\ pc' = IF job.vlm /\ job.images # job.imgPerSeq THEN "raised" ELSE "embed"
  /\ UNCHANGED <<job, done, hidden, attn, kv, logits, layer>>

(* _prepare_decode_ifb.                                                    *)
PrepareDecode ==
  /\ pc = "idle"
  /\ \E seqs \in Orders(Running) :
       LET lens == [b \in DOMAIN seqs |-> ContextLen(seqs[b])]
       IN  /\ batch' = [prompt |-> FALSE, seqs |-> seqs, context |-> lens,
                        cuSeqlens |-> <<0>>, maxSeqLen |-> MaxIn(lens), rows |-> Len(seqs)]
           /\ Allocate(batch'.rows)
  /\ pc' = "embed"
  /\ UNCHANGED <<job, done, hidden, attn, kv, logits, layer>>

Rows == 0 .. batch.rows - 1

(* Block tables of the batch: as many blocks as the context needs, padded  *)
(* with block 0 to the longest.  Every layer has its own cache.            *)
Entry(b, j) ==
  IF j <= CeilDiv(batch.context[b], BlockSize) THEN Tables[batch.seqs[b]][j] ELSE 0

-----------------------------------------------------------------------------
(* Embeddings.                                                             *)

InputIds == InputTokens(batch.seqs)

(* The images in the order of the batch: the m-th is this sequence's.      *)
Image(m) ==
  LET s == batch.seqs[1 + (m - 1) \div job.images]
  IN  <<s, job.prompt[s].before + ((m - 1) % job.images)>>

(* Mutant of ImageNumber: every placeholder takes the first image.         *)
FirstImage(n)  == 1
ImageNumber(n) == Cardinality({i \in 1 .. n : IsImage(InputIds[i][1], InputIds[i][2])})

(* prepare_inputs_labels_for_multimodal: the n-th placeholder gives way to *)
(* the embeddings of the n-th image.                                       *)
Splice ==
  FlattenSeq([n \in DOMAIN InputIds |->
     LET id == InputIds[n]
     IN  IF IsImage(id[1], id[2])
         THEN [k \in 1 .. TokensPerImage |-> Image(ImageNumber(n)) \o <<k>>]
         ELSE <<id \o <<0>>>>])

Embed ==
  /\ pc = "embed"
  /\ LET tokens == IF batch.prompt THEN Splice
                   ELSE [b \in DOMAIN batch.seqs |->
                           TokenAt(batch.seqs[b], batch.context[b] - 1)]
     IN  hidden' = [r \in 0 .. Len(tokens) - 1 |-> Val("in", 1, tokens[r + 1])]
  /\ layer' = 1 /\ pc' = "inputNorm"
  /\ UNCHANGED <<job, done, batch, mem, attn, kv, logits>>

-----------------------------------------------------------------------------
(* Kernels.                                                                *)

View(v) == IF job.precision = "w16a16" THEN [in |-> v, width |-> 1] ELSE Views(job.sz)[v]

Read(v, r) ==
  LET cells == RowCells(View(v), r)
      first == mem[View(v).in][r * View(v).width]
  IN  IF \A c \in cells : mem[View(v).in][c] = first THEN first ELSE Garbage

(* Rows of tags written to views of different buffers.                     *)
Write(vs, tags) ==
  mem' = [b \in DOMAIN mem |->
            IF \E v \in vs : View(v).in = b
            THEN LET w == View(CHOOSE v \in vs : View(v).in = b).width
                 IN  [c \in DOMAIN mem[b] |->
                        IF c \div w < batch.rows THEN tags[c \div w] ELSE mem[b][c]]
            ELSE mem[b]]

(* operands: pairs of a tag and the tensor it should be of.                *)
Compute(of, operands) ==
  LET token == (CHOOSE o \in operands : TRUE)[1].token
  IN  IF \A o \in operands : o[1] = Val(o[2], layer, token)
      THEN Val(of, layer, token) ELSE Garbage

(* What comes with a quantized row: its scale and, for per-channel 4-bit   *)
(* weights, its sum.                                                       *)
WithScales(v) ==
  CASE job.precision = "w16a16"       -> {v}
    [] job.precision = "w4a8-channel" -> {v, "scale", "sum"}
    [] OTHER                          -> {v, "scale"}

Goto(from, to) == pc = from /\ pc' = to

(* A linear layer, from a quantized tensor into a view.                    *)
Linear(x, of, out, make) ==
  Write({out}, [r \in Rows |-> Compute(make, {<<Read(v, r), of>> : v \in WithScales(x)})])

(* RMSNormGeneral, RMSNorm.                                                *)
Norm(of, make) ==
  Write(WithScales("qHidden"), [r \in Rows |-> Compute(make, {<<hidden[r], of>>})])

(* residual + out_down_proj_act_buffer                                     *)
AddResidual(of, out, make) ==
  hidden' = [r \in Rows |-> Compute(make, {<<hidden[r], of>>, <<Read("outDown", r), out>>})]

InputNorm ==
  /\ Goto("inputNorm", "qkvProj") /\ Norm("in", "norm1")
  /\ UNCHANGED <<job, done, batch, hidden, attn, kv, logits, layer>>

QkvProj ==
  /\ Goto("qkvProj", IF batch.prompt THEN "updateKv" ELSE "singleQuery")
  /\ Linear("qHidden", "norm1", "qkv", "qkv")
  /\ UNCHANGED <<job, done, batch, hidden, attn, kv, logits, layer>>

(* compute_padding_offsets: of the sequence a row belongs to.              *)
SeqOfRow(r)  == CHOOSE b \in DOMAIN batch.seqs :
                  batch.cuSeqlens[b] <= r /\ r < batch.cuSeqlens[b + 1]
PaddingOffset(r) ==
  (SeqOfRow(r) - 1) * batch.maxSeqLen - batch.cuSeqlens[SeqOfRow(r)]

(* apply_bias_rope_update_kv_cache: where a row's keys and values go, and  *)
(* the position its queries and keys are rotated by.                       *)
GlobalRow(r) == r + PaddingOffset(r)
BatchOf(r)   == 1 + GlobalRow(r) \div batch.maxSeqLen
PosOf(r)     == GlobalRow(r) % batch.maxSeqLen

Slot(b, pos) == <<Entry(b, 1 + pos \div BlockSize), pos % BlockSize>>

(* Mutant of Cache: all layers share the first one's.                      *)
FirstCache == 1
Cache      == layer

(* A rotated row is worth something at its token's own position.           *)
Rotated(r) ==
  LET x == Compute("rope", {<<Read("qkv", r), "qkv">>})
  IN  IF x # Garbage /\ TokenAt(x.token[1], PosOf(r)) = x.token THEN x ELSE Garbage

UpdateKvCache ==
  /\ Goto("updateKv", "flashAttn")
  /\ Write({"qkv"}, [r \in Rows |-> Rotated(r)])
  /\ kv' = [kv EXCEPT ![Cache] = [b \in Blocks |-> [o \in 0 .. BlockSize - 1 |->
              LET here == {r \in Rows : Slot(BatchOf(r), PosOf(r)) = <<b, o>>}
              IN  IF here = {} THEN kv[Cache][b][o]
                  ELSE IF Cardinality(here) > 1 THEN Garbage
                  ELSE Rotated(CHOOSE r \in here : TRUE)]]]
  /\ UNCHANGED <<job, done, batch, hidden, attn, logits, layer>>

(* Attention of a token to its sequence's positions up to its own.         *)
Attend(query, seen) ==
  LET s   == query.token[1]
      pos == CHOOSE p \in 0 .. ContextLen(s) - 1 : TokenAt(s, p) = query.token
  IN  IF \A p \in 0 .. pos : seen[p] = Val("rope", layer, TokenAt(s, p))
      THEN Val("attn", layer, query.token) ELSE Garbage

(* flash_attn_varlen_func, causal, over the rows of each sequence.         *)
FlashAttn ==
  /\ Goto("flashAttn", "quant")
  /\ attn' = [r \in Rows |->
       IF Read("qkv", r) = Garbage THEN Garbage
       ELSE Attend(Read("qkv", r),
                   [p \in 0 .. batch.maxSeqLen - 1 |->
                      LET row == batch.cuSeqlens[SeqOfRow(r)] + p
                      IN  IF row <= r THEN Read("qkv", row) ELSE Garbage])]
  /\ UNCHANGED <<job, done, batch, mem, hidden, kv, logits, layer>>

(* single_query_attention: the row's own keys and values are rotated and   *)
(* cached, the earlier ones read from the cache.                           *)
SingleQueryAttention ==
  LET own(b)  == Compute("rope", {<<Read("qkv", b - 1), "qkv">>})
      slot(b) == Slot(b, batch.context[b] - 1)
  IN  /\ Goto("singleQuery", "quant")
      /\ kv' = [kv EXCEPT ![Cache] = [k \in Blocks |-> [o \in 0 .. BlockSize - 1 |->
                  IF \E b \in DOMAIN batch.seqs : slot(b) = <<k, o>>
                  THEN own(CHOOSE b \in DOMAIN batch.seqs : slot(b) = <<k, o>>)
                  ELSE kv[Cache][k][o]]]]
      /\ attn' = [r \in Rows |->
           IF own(r + 1) = Garbage THEN Garbage
           ELSE Attend(own(r + 1), [p \in 0 .. batch.maxSeqLen - 1 |->
                                      LET at == Slot(r + 1, p)
                                      IN  kv'[Cache][at[1]][at[2]]])]
  /\ UNCHANGED <<job, done, batch, mem, hidden, logits, layer>>

(* Mutant of QuantizeAttention: invoke_quant_wo_act_sum for all models.    *)
QuantizeWithoutSum ==
  /\ Goto("quant", "oProj")
  /\ Write(WithScales("qHidden") \ {"sum"},
           [r \in Rows |-> Compute("quant", {<<attn[r], "attn">>})])
  /\ UNCHANGED <<job, done, batch, hidden, attn, kv, logits, layer>>

QuantizeAttention ==
  /\ Goto("quant", "oProj")
  /\ Write(WithScales("qHidden"), [r \in Rows |-> Compute("quant", {<<attn[r], "attn">>})])
  /\ UNCHANGED <<job, done, batch, hidden, attn, kv, logits, layer>>

OProj ==
  /\ Goto("oProj", "addAttn") /\ Linear("qHidden", "quant", "outDown", "o")
  /\ UNCHANGED <<job, done, batch, hidden, attn, kv, logits, layer>>

AddAttention ==
  /\ Goto("addAttn", "postNorm") /\ AddResidual("in", "o", "mid")
  /\ UNCHANGED <<job, done, batch, mem, attn, kv, logits, layer>>

Attention ==
  QkvProj \/ UpdateKvCache \/ FlashAttn \/ SingleQueryAttention \/ QuantizeAttention \/ OProj

PostNorm ==
  /\ Goto("postNorm", "gateUp") /\ Norm("mid", "norm2")
  /\ UNCHANGED <<job, done, batch, hidden, attn, kv, logits, layer>>

GateUpProj ==
  /\ Goto("gateUp", "actFn") /\ Linear("qHidden", "norm2", "gateUp", "gateUp")
  /\ UNCHANGED <<job, done, batch, hidden, attn, kv, logits, layer>>

(* SiluAndMulQuant.                                                        *)
ActFn ==
  /\ Goto("actFn", "downProj")
  /\ Write(WithScales("qMlp"), [r \in Rows |-> Compute("act", {<<Read("gateUp", r), "gateUp">>})])
  /\ UNCHANGED <<job, done, batch, hidden, attn, kv, logits, layer>>

DownProj ==
  /\ Goto("downProj", "addMlp") /\ Linear("qMlp", "act", "outDown", "down")
  /\ UNCHANGED <<job, done, batch, hidden, attn, kv, logits, layer>>

Mlp == GateUpProj \/ ActFn \/ DownProj

(* The end of a layer; its output is the input of the next.                *)
AddMlp ==
  /\ pc = "addMlp" /\ pc' = IF layer = NumLayers THEN "lmHead" ELSE "inputNorm"
  /\ hidden' = [r \in Rows |->
       LET x == Compute("in", {<<hidden[r], "mid">>, <<Read("outDown", r), "down">>})
       IN  IF x = Garbage THEN x ELSE Val("in", layer + 1, x.token)]
  /\ layer' = layer + 1
  /\ UNCHANGED <<job, done, batch, mem, attn, kv, logits>>

DecoderLayer == InputNorm \/ Attention \/ AddAttention \/ PostNorm \/ Mlp \/ AddMlp

(* Mutant of LastRow: where the next sequence begins, but for the last.    *)
NextRow(b) == IF b = Len(batch.seqs) THEN batch.rows - 1 ELSE batch.cuSeqlens[b + 1]
LastRow(b) == batch.cuSeqlens[b + 1] - 1

(* The final norm, lm_head on the rows it needs, and the sampled tokens.   *)
LmHead ==
  /\ Goto("lmHead", "sample")
  /\ logits' = [b \in DOMAIN batch.seqs |->
                  IF batch.prompt THEN hidden[LastRow(b)] ELSE hidden[b - 1]]
  /\ UNCHANGED <<job, done, batch, mem, hidden, attn, kv, layer>>

(* The engine appends a token to every sequence of the batch.              *)
Sample ==
  /\ Goto("sample", "idle")
  /\ done' = [s \in SeqIds |->
                IF \E b \in DOMAIN batch.seqs : batch.seqs[b] = s THEN done[s] + 1 ELSE done[s]]
  /\ batch' = NoBatch /\ mem' = [b \in {} |-> <<>>]
  /\ hidden' = <<>> /\ attn' = <<>> /\ logits' = <<>> /\ layer' = 1
  /\ UNCHANGED <<job, kv>>

Forward == Embed \/ DecoderLayer \/ LmHead
Next    == PreparePrompt \/ PrepareDecode \/ Forward \/ Sample

Spec == Init /\ [][Next]_vars

-----------------------------------------------------------------------------
(* Properties                                                              *)

(* The rows of the pass: the positions of its sequences, one after the     *)
(* other, for a prompt; the last position of each for a decode.            *)
RowTokens ==
  IF batch.prompt
  THEN FlattenSeq([b \in DOMAIN batch.seqs |->
         [p \in 1 .. ContextLen(batch.seqs[b]) |-> TokenAt(batch.seqs[b], p - 1)]])
  ELSE [b \in DOMAIN batch.seqs |-> TokenAt(batch.seqs[b], ContextLen(batch.seqs[b]) - 1)]

(* Every view lies inside the buffer it is cut from, whichever of          *)
(* attention and MLP has the wider rows.                                   *)
ViewsFit ==
  job.precision # "w16a16" /\ pc \notin {"idle", "raised"} =>
    \A v \in DOMAIN Views(job.sz) : \A r \in Rows :
      RowCells(Views(job.sz)[v], r) \subseteq DOMAIN mem[Views(job.sz)[v].in]

(* After each of a layer's two halves there are as many rows of            *)
(* hidden_states as the buffers have, and each is what the model computes  *)
(* for the row's token: no kernel is given a buffer that a later tensor,   *)
(* another layer, another row or the pass before has left there, and no    *)
(* placeholder another prompt's image.                                     *)
HiddenIsTheModels ==
  pc \in {"inputNorm", "postNorm", "lmHead"} =>
    hidden = [r \in Rows |->
      Val(IF pc = "postNorm" THEN "mid" ELSE "in", layer, RowTokens[r + 1])]

(* Between passes every layer's cache holds the keys and values of all     *)
(* positions of all sequences that were run, but for the token just        *)
(* sampled.                                                                *)
CacheIsComplete ==
  pc = "idle" => \A s \in SeqIds, l \in Layers : done[s] >= 1 =>
    \A pos \in 0 .. ContextLen(s) - 2 :
      kv[l][Tables[s][1 + pos \div BlockSize]][pos % BlockSize]
        = Val("rope", l, TokenAt(s, pos))

(* A sequence's next token is sampled from its last position.              *)
SampledFromLast ==
  pc = "sample" => \A b \in DOMAIN batch.seqs :
    logits[b] = Val("in", NumLayers + 1,
                    TokenAt(batch.seqs[b], ContextLen(batch.seqs[b]) - 1))
=============================================================================

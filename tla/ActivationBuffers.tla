-------------------------- MODULE ActivationBuffers --------------------------
(***************************************************************************)
(* The activation buffers of qserve/utils/input_metadata.py.  A pass over  *)
(* n rows has one flat fp16 buffer and one flat int8 buffer; the tensors   *)
(* the quantized layers exchange are views that begin at their first cell, *)
(* so they lie on top of each other.                                       *)
(*                                                                         *)
(* sz is a record of sizes: q and kv, the widths of the queries and of the *)
(* keys (or values) of a token, hidden, and inter, half a gate-up row.     *)
(***************************************************************************)
EXTENDS Integers

ModelSizes == [q : Nat, kv : Nat, hidden : Nat, inter : Nat]

(* LlamaAttention.__init__: the heads are equally wide, and there may be   *)
(* fewer of keys and values.                                               *)
SizesOf(heads, kvHeads, hidden, inter) ==
  [q |-> heads * (hidden \div heads), kv |-> kvHeads * (hidden \div heads),
   hidden |-> hidden, inter |-> inter]

Larger(a, b) == IF a < b THEN b ELSE a

(* Mutant of BufferSize: the MLP's rows are forgotten.                     *)
AttentionOnly(sz, n) == [act |-> n * (sz.q + 2 * sz.kv), quant |-> n * sz.hidden,
                         scale |-> n, sum |-> n]

(* __allocate_activation_buffer_llama: cells of each buffer, for n rows.   *)
BufferSize(sz, n) ==
  [act   |-> n * Larger(sz.q + 2 * sz.kv, 2 * sz.inter),
   quant |-> n * Larger(sz.hidden, sz.inter),
   scale |-> n,
   sum   |-> n]

(* The views: the buffer each lies in and the width of its rows.           *)
Views(sz) ==
  [qkv     |-> [in |-> "act",   width |-> sz.q + 2 * sz.kv],
   outDown |-> [in |-> "act",   width |-> sz.hidden],
   gateUp  |-> [in |-> "act",   width |-> 2 * sz.inter],
   qHidden |-> [in |-> "quant", width |-> sz.hidden],
   qMlp    |-> [in |-> "quant", width |-> sz.inter],
   scale   |-> [in |-> "scale", width |-> 1],
   sum     |-> [in |-> "sum",   width |-> 1]]

(* Row r of a view, counted from 0.                                        *)
RowCells(view, r) == r * view.width .. (r + 1) * view.width - 1
=============================================================================

--------------------------- MODULE MCWeightLoading ---------------------------
(* TLC instance of WeightLoading: tiles of 8 by 4.                         *)
EXTENDS WeightLoading

(* Grouped queries; one group per input channel, more than a shard's rows; *)
(* a key-value width that is no whole tile.                                *)
MCSizes == {[q |-> 16, kv |-> 8, inter |-> 8, groupSize |-> 4],
            [q |-> 16, kv |-> 8, inter |-> 8, groupSize |-> 1],
            [q |-> 16, kv |-> 4, inter |-> 8, groupSize |-> 4]}

(* state_dict()'s order and the alphabetical one.                          *)
StateDictOrder ==
  <<"embed_tokens", "q_proj", "k_proj", "v_proj", "o_proj", "rotary_emb", "gate", "w1", "w2", "w3",
    "gate_proj", "up_proj", "down_proj", "norm", "lm_head">>
SortedOrder ==
  <<"lm_head", "embed_tokens", "gate", "w1", "w2", "w3", "norm", "down_proj", "gate_proj", "up_proj",
    "k_proj", "o_proj", "q_proj", "rotary_emb", "v_proj">>
MCOrders == {StateDictOrder, SortedOrder}
=============================================================================

---------------------------- MODULE WeightPacking ----------------------------
(***************************************************************************)
(* How the weights of a linear layer are stored: from_linear of the        *)
(* quantized layers (w4a8_linear.py, w8a8_linear.py, w4a8_moe_linear.py)   *)
(* packs two 4-bit weights into a byte and orders rows and columns for the *)
(* tensor cores, tile by tile.                                             *)
(*                                                                         *)
(* A tensor is a function of rows to functions of columns, both counted    *)
(* from 0; a vector is a tensor of one column.  A layer's weights w are a  *)
(* tensor too, of output channels to input channels, or to groups.         *)
(***************************************************************************)
EXTENDS Integers

CONSTANTS
  RowFine,            \* 8: consecutive output channels of a tile
  ColMid, ColFine     \* 4 and 4: consecutive runs of input channels, their length

ASSUME PackingAssumption == {RowFine, ColMid, ColFine} \subseteq Nat \ {0}

(* 32 output channels by 32 input channels.                                *)
RowTile == 4 * RowFine
ColTile == 2 * ColMid * ColFine

Tensor(rows, cols, elt(_, _)) == [i \in 0 .. rows - 1 |-> [j \in 0 .. cols - 1 |-> elt(i, j)]]

(* from_linear's reshape raises if they are not.                           *)
WholeTiles(out, in) == out % RowTile = 0 /\ in % ColTile = 0

(* Repack the weight: reshape to                                           *)
(*   (out / tile, 2, 2, RowFine, in / tile, 2, ColMid, ColFine),           *)
(* permute to (0, 4, 3, 6, 5, 2, 7, 1), join the last axis into a byte.    *)
Pack(out, in, w) ==
  LET tiles == in \div ColTile
      byte(n) ==
        LET f == n % ColFine
            b == (n \div ColFine) % 2
            d == (n \div (2 * ColFine)) % 2
            e == (n \div (4 * ColFine)) % ColMid
            c == (n \div (4 * ColFine * ColMid)) % RowFine
            k == (n \div (4 * ColFine * ColMid * RowFine)) % tiles
            m == n \div (4 * ColFine * ColMid * RowFine * tiles)
            row(a) == ((m * 2 + a) * 2 + b) * RowFine + c
            col    == ((k * 2 + d) * ColMid + e) * ColFine + f
        IN  <<w[row(0)][col], w[row(1)][col]>>
  IN  Tensor(out, in \div 2, LAMBDA i, j : byte(i * (in \div 2) + j))

(* Pack the scales, the zeros: groups by channels, and the channels of a   *)
(* tile in the order 0, 8, 16, 24, 1, 9, ...                               *)
PackGroups(out, groups, w) ==
  LET channel(j) == (j \div RowTile) * RowTile + (j % 4) * RowFine + (j % RowTile) \div 4
  IN  Tensor(groups, out, LAMBDA g, j : w[channel(j)][g])

Vector(out, w) == Tensor(out, 1, LAMBDA i, j : w[i][j])

(* The tensors of a layer.                                                 *)
SchemeSuffixes(scheme) ==
  CASE scheme = "channel" -> {"qweight", "s1_scales", "s1_szeros"}
    [] scheme = "group"   -> {"qweight", "s1_scales", "s2_scales", "s2_zeros"}
    [] scheme = "int8"    -> {"weight", "dequant_scale"}
    [] scheme = "fp16"    -> {"weight"}

Store(suffix, out, in, groups, w) ==
  CASE suffix = "qweight"                   -> Pack(out, in, w)
    [] suffix = "weight"                    -> w
    [] suffix \in {"s2_scales", "s2_zeros"} -> PackGroups(out, groups, w)
    [] OTHER                                -> Vector(out, w)
=============================================================================

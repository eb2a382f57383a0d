---------------------------- MODULE Quantization ----------------------------
(***************************************************************************)
(* The INT4 methods of QuantizationEngine,                                 *)
(* src/src/vllm_rocm/quantization.py: groups of weights of one row that    *)
(* share a scale.  Arithmetic is exact: a scale is absmax / 7, so absmax   *)
(* stands for it and is compared with seven times the weights.  The scales *)
(* parameter of AWQ is left at None.                                       *)
(***************************************************************************)
EXTENDS Integers, FiniteSetsExt

CONSTANTS
  Layer,
  Columns,        \* of a row of each layer
  GroupSize,      \* config.group_size
  WeightValues,
  NaNCodes        \* what a NaN may become as an int8

ASSUME GroupAssumption == GroupSize \in Nat \ {0} /\ Columns \in Nat
ASSUME CodeAssumption == WeightValues \subseteq Int /\ NaNCodes \subseteq Int

VARIABLES
  weight,         \* the grouped columns of each quantized layer, else <<>>
  codes,          \* the quantized values its caller was given
  returned,       \* the scales AWQ returned with them, <<>> with GPTQ
  stored,         \* self.scales["gptq"]
  latest          \* the layer these scales are of, in a set

quantVars == <<weight, codes, returned, stored, latest>>

Groups == Columns \div GroupSize
Grouped == 1 .. Groups * GroupSize         \* the columns beyond are dropped
GroupOf(c) == (c - 1) \div GroupSize + 1

QuantInit ==
  /\ weight = [l \in Layer |-> <<>>] /\ codes = [l \in Layer |-> <<>>]
  /\ returned = [l \in Layer |-> <<>>]
  /\ stored = <<>> /\ latest = {}

Magnitude(x) == IF x < 0 THEN -x ELSE x

Scales(w) == [g \in 1 .. Groups |-> Max({Magnitude(w[c]) : c \in {d \in Grouped : GroupOf(d) = g}})]

(* Mutant: the fraction is cut off. *)
Truncated(n, d) == n \div d

(* torch.round(n / d) for d > 0: a half goes to the even neighbour. *)
Round(n, d) ==
  LET q == n \div d
      r == 2 * (n % d)
  IN  IF r > d \/ (r = d /\ q % 2 = 1) THEN q + 1 ELSE q

(* The code of a weight, clamped; in a group of zeros 0 / 0 is NaN. *)
Code(w, c, nan) ==
  LET scale == Scales(w)[GroupOf(c)]
  IN  IF scale = 0 THEN nan ELSE Max({-8, Min({7, Round(7 * w[c], scale)})})

Quantize(l, w) ==
  /\ weight' = [weight EXCEPT ![l] = w]
  /\ \E nan \in [Grouped -> NaNCodes] :
       codes' = [codes EXCEPT ![l] = [c \in Grouped |-> Code(w, c, nan[c])]]

QuantizeAWQ(l, w) ==
  /\ Quantize(l, w)
  /\ returned' = [returned EXCEPT ![l] = Scales(w)]
  /\ latest' = latest \ {l}
  /\ UNCHANGED stored

(* GPTQ returns no scales: those of every layer go to the same key. *)
QuantizeGPTQ(l, w) ==
  /\ Quantize(l, w)
  /\ returned' = [returned EXCEPT ![l] = <<>>]
  /\ stored' = Scales(w) /\ latest' = {l}

QuantNext ==
  \E l \in Layer, w \in [Grouped -> WeightValues] :
    weight[l] = <<>> /\ (QuantizeAWQ(l, w) \/ QuantizeGPTQ(l, w))

(* Seven times what dequant_int4 gives with the scales at hand for l. *)
Dequantized(l, c) ==
  codes[l][c] * (IF returned[l] # <<>> THEN returned[l] ELSE stored)[GroupOf(c)]

QuantSpec == QuantInit /\ [][QuantNext]_quantVars

----------------------------------------------------------------------------
(* With the scales of its own layer, a weight comes back within half a     *)
(* step, a step being its group's scale: rounding and clamping to -8 .. 7  *)
(* lose no more, and a group of zeros comes back as zeros.  Of the layers  *)
(* done with GPTQ the latest alone still has its scales.                   *)
HalfStep ==
  \A l \in Layer, c \in Grouped :
    returned[l] # <<>> \/ l \in latest =>
      2 * Magnitude(7 * weight[l][c] - Dequantized(l, c)) <= Scales(weight[l])[GroupOf(c)]

=============================================================================

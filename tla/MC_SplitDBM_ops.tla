--------------------------- MODULE MC_SplitDBM_ops ---------------------------
(***************************************************************************)
(* The two-variable checks of SplitDBMMachine, each with its own inputs,   *)
(* chosen once in the initial state:                                       *)
(*   "csts":  every constraint kind of operator+=: disequations that cut   *)
(*            either end of an interval or empty it, an equality, a strict *)
(*            and a plain relation, so that a trimmed bound is carried     *)
(*            over a relation;                                             *)
(*   "apply": apply with y + k, y - k, k * y for k = 2 and k = -1, and     *)
(*            y + z, y - z, x among the operands or not, on bounded,      *)
(*            half-bounded and related variables; and rename;             *)
(*   "deep":  four operations, enough for both values to bind both        *)
(*            variables before they are joined;                            *)
(*   "ovf":   a weight type Wt of -2..1, and inputs whose constants,      *)
(*            coefficients, interval bounds and trimmed bounds do not      *)
(*            convert to it, or convert only at its ends.                  *)
(* Wt is 127 wide outside "ovf": no conversion there fails.               *)
(***************************************************************************)
EXTENDS Integers

VARIABLES mode, reg, conc, steps

Inf == 1000
NoVar == -1

Cst(pos, neg, k, kind) == [pos |-> pos, cp |-> 1, neg |-> neg, cn |-> 1, k |-> k, kind |-> kind]

\* x1 # 1, x2 # 1, x1 = x2, x2 < x1, x1 - x2 <= 0, and the constant 0 # 0
CstsCsts == {Cst(1, NoVar, 1, "neq"), Cst(2, NoVar, 1, "neq"), Cst(1, 2, 0, "eq"),
             Cst(2, 1, 0, "lt"), Cst(1, 2, 0, "leq"), Cst(NoVar, NoVar, 0, "neq")}

CstsRun == INSTANCE SplitDBMMachine
    WITH Vars <- {1, 2}, MaxVert <- 3, WtMax <- 127, Itvs <- {<<0, 0>>, <<0, 1>>, <<1, 2>>},
         Offsets <- {1}, ConstOps <- {"add"}, VarOps <- {}, Renames <- {},
         Csts <- CstsCsts, Window <- 0..2, MaxSteps <- 4

\* x1 - x2 <= 0; rename x1 to x2 and x2 to x1, where the target is unbound
ApplyRun == INSTANCE SplitDBMMachine
    WITH Vars <- {1, 2}, MaxVert <- 3, WtMax <- 127, Itvs <- {<<0, 1>>, <<1, 2>>, <<0, Inf>>},
         Offsets <- {2, -1}, ConstOps <- {"add", "sub", "mul"}, VarOps <- {"add", "sub"},
         Renames <- {<<<<1>>, <<2>>>>, <<<<2>>, <<1>>>>},
         Csts <- {Cst(1, 2, 0, "leq")},
         Window <- -1..3, MaxSteps <- 3

\* x1 - x2 <= 0 and x1 >= 1
DeepRun == INSTANCE SplitDBMMachine
    WITH Vars <- {1, 2}, MaxVert <- 3, WtMax <- 127, Itvs <- {<<0, 0>>, <<1, 2>>},
         Offsets <- {1}, ConstOps <- {"add"}, VarOps <- {}, Renames <- {},
         Csts <- {Cst(1, 2, 0, "leq"), Cst(NoVar, 1, -1, "leq")},
         Window <- 0..2, MaxSteps <- 4

\* Wt is -2..1. set with [1, 1], a lower bound and an upper bound that do
\* not convert, and an upper bound at the bottom of Wt; x1 >= x2 + 1, so
\* that x1 >= 2 and x1 # 2 trims to a lower bound whose negation does not
\* convert; x1 # -2 under x1 <= -2, whose trimmed bound does not convert;
\* x1 <= 2, whose constant minus 1 does not convert; y + 2 and 2 * y,
\* whose constant and coefficient do not convert, and y + z
OvfRun == INSTANCE SplitDBMMachine
    WITH Vars <- {1, 2}, MaxVert <- 3, WtMax <- 1,
         Itvs <- {<<1, 1>>, <<-3, 1>>, <<0, 2>>, <<-Inf, -2>>},
         Offsets <- {2}, ConstOps <- {"add", "mul"}, VarOps <- {"add"}, Renames <- {},
         Csts <- {Cst(2, 1, -1, "leq"), Cst(1, NoVar, 2, "neq"), Cst(1, NoVar, -2, "neq"),
                  Cst(1, NoVar, 2, "leq")},
         Window <- -3..3, MaxSteps <- 3

OpsInit == \/ mode = "csts" /\ CstsRun!Init
           \/ mode = "apply" /\ ApplyRun!Init
           \/ mode = "deep" /\ DeepRun!Init
           \/ mode = "ovf" /\ OvfRun!Init

OpsNext == /\ UNCHANGED mode
           /\ CASE mode = "csts"  -> CstsRun!Next
                 [] mode = "apply" -> ApplyRun!Next
                 [] mode = "deep"  -> DeepRun!Next
                 [] mode = "ovf"   -> OvfRun!Next

OpsSpec == OpsInit /\ [][OpsNext]_<<mode, reg, conc, steps>>

\* Transfer soundness (SplitDBMMachine's Sound) of set, apply, +=, forget,
\* rename and the lattice operations under the inputs of the first
\* three modes.
Sound == CASE mode = "csts"  -> CstsRun!Sound
           [] mode = "apply" -> ApplyRun!Sound
           [] mode = "deep"  -> DeepRun!Sound
           [] mode = "ovf"   -> TRUE

\* The split normal form (SplitDBMMachine's NormalForm) after every
\* operation but widen; "deep" is left to Sound and JoinUpperBound.
NormalForm == CASE mode = "csts"  -> CstsRun!NormalForm
                [] mode = "apply" -> ApplyRun!NormalForm
                [] mode = "deep"  -> TRUE
                [] mode = "ovf"   -> OvfRun!NormalForm

\* operator<= finds the join (operator|) of the two values above each of
\* them, once each value may bind both variables.
JoinUpperBound == mode = "deep" => DeepRun!JoinUpperBound

\* Overflow is conservative: where convert_NtoW fails, set, assign,
\* add_univar_disequation, diffcsts_of_assign and diffcsts_of_lin_leq
\* (for the constant) abandon a derivation and keep every concrete point,
\* through later operations and joins as well.
OverflowSound == mode = "ovf" => OvfRun!Sound
=============================================================================

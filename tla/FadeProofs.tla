----------------------------- MODULE FadeProofs -----------------------------
(***************************************************************************)
(* Machine-checked proofs about Fade, for every set of images: the numbers *)
(* a fade passes through, that they leave [0, 1] by a rounding error at    *)
(* most, and that what is drawn is the last image set.                     *)
(***************************************************************************)
EXTENDS Fade, TLAPS

USE NameAssumption

(* The opacities of a fade-in and of a fade-out, tick by tick.             *)
Ins  == {0, 13421773, 26843546, 40265320, 53687092, 67108864, 80530640,
         93952416, 107374192, 120795968, 134217744}
Outs == {134217728, 120795952, 107374176, 93952400, 80530624, 67108852,
         53687080, 40265308, 26843536, 13421763, -10}

OnPath(l) ==
  \/ dt[l] = 0 /\ t[l] = 0
  \/ dt[l] = Tenth /\ t[l] \in Ins
  \/ dt[l] = -Tenth /\ t[l] \in Outs

(* The inductive invariant.                                                *)
FInv ==
  /\ visible   \in [Layers -> BOOLEAN]
  /\ lastimage \in [Layers -> Names \cup {NoImage}]
  /\ image     \in [Layers -> Names \cup {NoImage}]
  /\ t         \in [Layers -> Int]
  /\ dt        \in [Layers -> {-Tenth, 0, Tenth}]
  /\ \A l \in Layers : OnPath(l)
  /\ DrawsLastImage

-----------------------------------------------------------------------------
(* The paths are closed under a step, and their numbers single-precision.  *)
LEMMA InsStep == \A n \in Ins : n < One => RoundSingle(n + Tenth) \in Ins
BY SMT DEF Ins, RoundSingle, RoundTo, Abs, One, Tenth

(* A tenth off an opacity on the way down, rounded, is the next one on it.   *)
LEMMA OutsStep == \A n \in Outs : n > 0 => RoundSingle(n + (-Tenth)) \in Outs
BY SMT DEF Outs, RoundSingle, RoundTo, Abs, One, Tenth

(* Every opacity that a fade passes through is a single, near [0, 1].        *)
LEMMA PathsSingle == \A n \in Ins \cup Outs : Single(n) /\ n >= -16 /\ n <= One + 16
<1>1. \A n \in Ins : RoundSingle(n) = n
  BY SMT DEF Ins, RoundSingle, RoundTo, Abs, One
<1>2. \A n \in Outs : RoundSingle(n) = n
  BY SMT DEF Outs, RoundSingle, RoundTo, Abs, One
<1>3. \A n \in Ins \cup Outs : n >= -16 /\ n <= One + 16
  BY SMT DEF Ins, Outs, One
<1> QED
  BY <1>1, <1>2, <1>3, SMT DEF Single

(* Where a fade that has not ended goes in one step.                       *)
LEMMA StepOnPath ==
  ASSUME NEW l \in Layers, OnPath(l)
  PROVE  /\ dt[l] = 0 => Stepped(l) = 0
         /\ dt[l] = Tenth => Stepped(l) \in Ins
         /\ dt[l] = -Tenth => Stepped(l) \in Outs
<1>1. Tenth > 0 /\ Tenth \in Int
  BY SMT DEF Tenth
<1>2. CASE dt[l] = 0
  BY <1>1, <1>2, SMT DEF OnPath, Stepped, Fading
<1>3. CASE dt[l] = Tenth /\ t[l] \in Ins
  BY <1>1, <1>3, InsStep, SMT DEF Stepped, Fading
<1>4. CASE dt[l] = -Tenth /\ t[l] \in Outs
  BY <1>1, <1>4, OutsStep, SMT DEF Stepped, Fading
<1> QED
  BY <1>2, <1>3, <1>4, SMT DEF OnPath

-----------------------------------------------------------------------------
(* It holds at first, and every step preserves it.                         *)
LEMMA InitFInv == Init => FInv
<1> SUFFICES ASSUME Init PROVE FInv
  OBVIOUS
<1>1. \A l \in Layers : OnPath(l)
  BY SMT DEF Init, OnPath
<1>2. DrawsLastImage
  BY SMT DEF Init, DrawsLastImage
<1> QED
  BY <1>1, <1>2, SMT DEF Init, FInv

(* Opacities are integers, in units of 2^-27.                                *)
LEMMA EndsInInt == \A n \in Ins \cup Outs : n \in Int
BY SMT DEF Ins, Outs

(* Every drawing and every change of a layer keeps the opacities on their paths. *)
LEMMA StepFInv == FInv /\ [Next]_vars => FInv'
<1> SUFFICES ASSUME FInv, [Next]_vars PROVE FInv'
  OBVIOUS
<1>t. Tenth \in Int /\ Tenth > 0 /\ One \in Int
  BY SMT DEF Tenth, One
<1>1. CASE Tick
  <2>1. \A l \in Layers : OnPath(l)'
    <3> SUFFICES ASSUME NEW l \in Layers PROVE OnPath(l)'
      OBVIOUS
    <3>1. OnPath(l) /\ dt'[l] = dt[l] /\ (t'[l] = t[l] \/ t'[l] = Stepped(l))
      BY <1>1, SMT DEF Tick, FInv
    <3> QED
      BY <3>1, StepOnPath, SMT DEF OnPath
  <2>2. t' \in [Layers -> Int]
    <3>1. ASSUME NEW l \in Layers PROVE t'[l] \in Int
      <4>1. t'[l] = 0 \/ t'[l] \in Ins \/ t'[l] \in Outs
        BY <2>1, Zenon DEF OnPath
      <4> QED
        BY <4>1, EndsInInt, SMT
    <3> QED
      BY <1>1, <3>1, SMT DEF Tick
  <2>3. DrawsLastImage'
    BY <1>1, SMT DEF Tick, FInv, DrawsLastImage
  <2>4. visible' \in [Layers -> BOOLEAN]
    BY <1>1, Zenon DEF Tick, FInv
  <2>5. UNCHANGED <<lastimage, image, dt>>
    BY <1>1 DEF Tick
  <2> QED
    BY <2>1, <2>2, <2>3, <2>4, <2>5, SMT DEF FInv
<1>2. ASSUME NEW l \in Layers, SetNothing(l)
      PROVE  FInv'
  <2>1. \A k \in Layers : OnPath(k)'
    BY <1>2, <1>t, SMT DEF SetNothing, FInv, OnPath, Outs, One
  <2>2. DrawsLastImage'
    BY <1>2, SMT DEF SetNothing, FInv, DrawsLastImage
  <2> QED
    BY <1>2, <1>t, <2>1, <2>2, SMT DEF SetNothing, FInv
<1>3. ASSUME NEW l \in Layers, NEW name \in Names, SetImage(l, name)
      PROVE  FInv'
  <2>1. \A k \in Layers : OnPath(k)'
    BY <1>3, <1>t, SMT DEF SetImage, FInv, OnPath, Ins
  <2>2. DrawsLastImage'
    BY <1>3, SMT DEF SetImage, FInv, DrawsLastImage
  <2> QED
    BY <1>3, <1>t, <2>1, <2>2, SMT DEF SetImage, FInv
<1>4. CASE UNCHANGED vars
  BY <1>4, SMT DEF vars, FInv, DrawsLastImage, OnPath
<1> QED
  BY <1>1, <1>2, <1>3, <1>4, Zenon DEF Next

(* The inductive invariant holds in every behaviour.                       *)
THEOREM FadeInvariance == Spec => []FInv
<1> QED
  BY InitFInv, StepFInv, PTL DEF Spec

-----------------------------------------------------------------------------
(* Opacities are single-precision numbers and every field keeps its type   *)
(* (StaticImage.ApplyImage).                                               *)
THEOREM FadeTypeCorrect == Spec => []TypeOK
<1>1. FInv => TypeOK
  BY PathsSingle, SMT DEF FInv, TypeOK, OnPath, Single, RoundSingle, RoundTo, Abs
<1> QED
  BY <1>1, FadeInvariance, PTL

(* The opacity leaves [0, 1] by a rounding error at most, whatever scripts *)
(* set and however long the timer ticks (StaticImage.cs:100-103).          *)
THEOREM OpacityAlwaysInRange == Spec => []OpacityInRange
<1>1. FInv => OpacityInRange
  <2> SUFFICES ASSUME FInv, NEW l \in Layers PROVE t[l] >= -16 /\ t[l] <= One + 16
    BY DEF OpacityInRange
  <2>1. OnPath(l)
    BY DEF FInv
  <2>2. 0 >= -16 /\ 0 <= One + 16
    BY SMT DEF One
  <2> QED
    BY <2>1, <2>2, PathsSingle, SMT DEF OnPath
<1> QED
  BY <1>1, FadeInvariance, PTL

(* What is drawn is the last image set (StaticImage.Image).                *)
THEOREM DrawsLastImageAlways == Spec => []DrawsLastImage
<1>1. FInv => DrawsLastImage
  BY DEF FInv
<1> QED
  BY <1>1, FadeInvariance, PTL

(* All that is said of the layers above, together (StaticImage.cs).        *)
THEOREM LayersConsistentAlways == Spec => []LayersConsistent
<1>1. TypeOK /\ OpacityInRange /\ DrawsLastImage => LayersConsistent
  BY DEF LayersConsistent
<1> QED
  BY <1>1, FadeTypeCorrect, OpacityAlwaysInRange, DrawsLastImageAlways, PTL
=============================================================================

-------------------------------- MODULE Fade --------------------------------
(***************************************************************************)
(* EmeraldDream/StaticImage.cs: the background and the overlay of the      *)
(* scene, which scripts set to an image or to "nothing" (Story.SetImage,   *)
(* SetOverlay), and which fade in and out by a tenth on every tick of the  *)
(* timer that draws them (Scene.cs:27).                                    *)
(*                                                                         *)
(* Opacities are single-precision numbers.  0.1f is 13421773 * 2^-27 and   *)
(* every sum of such numbers below 2 is a multiple of 2^-27 too, so an     *)
(* opacity is an integer here, and RoundSingle is the rounding of a sum.   *)
(*                                                                         *)
(* The property Transition has no assignment in the program: it is always  *)
(* FadeIn.                                                                 *)
(***************************************************************************)
EXTENDS Integers

CONSTANTS
  Names,     \* the images scripts name
  imagelib,  \* those of them that were loaded
  NoImage    \* a null name

ASSUME NameAssumption == imagelib \subseteq Names /\ NoImage \notin Names

(* Drawn in this order: staticImage, staticOverlay (Story.cs:102).         *)
Layers == 1 .. 2

One   == 134217728     \* 1.0f in units of 2^-27
Tenth == 13421773      \* 0.1f

VARIABLES
  visible,     \* Layer.Visible
  lastimage,   \* the last image set
  image,       \* what the draw function has captured: value,
  t,           \* opacity
  dt           \* and its change per tick; 0 before the first

vars == <<visible, lastimage, image, t, dt>>

-----------------------------------------------------------------------------
Abs(n) == IF n < 0 THEN -n ELSE n

(* To the nearest multiple of u, to the even one on a tie.                 *)
RoundTo(n, u) ==
  LET q    == n \div u
      rest == 2 * (n % u)
  IN  IF rest > u \/ (rest = u /\ q % 2 = 1) THEN u * (q + 1) ELSE u * q

(* To the nearest single-precision number, which has 24 bits.              *)
RoundSingle(n) ==
  IF Abs(n) < 16777216 THEN n
  ELSE IF Abs(n) < 33554432 THEN RoundTo(n, 2)
  ELSE IF Abs(n) < 67108864 THEN RoundTo(n, 4)
  ELSE IF Abs(n) < One      THEN RoundTo(n, 8)
  ELSE RoundTo(n, 16)

Fading(l) == (dt[l] > 0 /\ t[l] < One) \/ (dt[l] < 0 /\ t[l] > 0)

Stepped(l) == IF Fading(l) THEN RoundSingle(t[l] + dt[l]) ELSE t[l]

-----------------------------------------------------------------------------
(* Mutant: the last image is shown again to fade out.                      *)
MutSetNothing(l) ==
  /\ image' = [image EXCEPT ![l] = lastimage[l]]
  /\ t' = [t EXCEPT ![l] = One]
  /\ dt' = [dt EXCEPT ![l] = -Tenth]
  /\ visible' = [visible EXCEPT ![l] = TRUE]
  /\ UNCHANGED lastimage

(* StaticImage.Image := null, fading out whatever was set last.            *)
SetNothing(l) ==
  /\ image' = [image EXCEPT ![l] = lastimage[l]]
  /\ t' = [t EXCEPT ![l] = One]
  /\ dt' = [dt EXCEPT ![l] = -Tenth]
  /\ UNCHANGED <<visible, lastimage>>

(* StaticImage.Image := name, fading in.                                   *)
SetImage(l, name) ==
  /\ image' = [image EXCEPT ![l] = name]
  /\ lastimage' = [lastimage EXCEPT ![l] = name]
  /\ t' = [t EXCEPT ![l] = 0]
  /\ dt' = [dt EXCEPT ![l] = Tenth]
  /\ visible' = [visible EXCEPT ![l] = TRUE]

(* imagelib[value] throws out of the tick for an image that is not there:  *)
(* the layer itself and all layers above it are not drawn.                 *)
Blocked(l) == \E k \in 1 .. l : visible[k] /\ image[k] \notin imagelib

(* Mutant: only the topmost layer is drawn, as keys are handed out.        *)
MutDrawn(l) == visible[l] /\ ~Blocked(l) /\ \A k \in Layers : k > l => ~visible[k]

Drawn(l) == visible[l] /\ ~Blocked(l)

Tick ==
  /\ t' = [l \in Layers |-> IF Drawn(l) THEN Stepped(l) ELSE t[l]]
  /\ visible' = [l \in Layers |->
       visible[l] /\ ~(Drawn(l) /\ dt[l] < 0 /\ t'[l] = 0)]
  /\ UNCHANGED <<lastimage, image, dt>>

Init ==
  /\ visible   = [l \in Layers |-> FALSE]
  /\ lastimage = [l \in Layers |-> NoImage]
  /\ image     = [l \in Layers |-> NoImage]
  /\ t         = [l \in Layers |-> 0]
  /\ dt        = [l \in Layers |-> 0]

Next ==
  \/ Tick
  \/ \E l \in Layers : SetNothing(l) \/ \E name \in Names : SetImage(l, name)

Spec == Init /\ [][Next]_vars

(* The timer ticks; scripts may stop to set images, or never stop.         *)
FairSpec == Spec /\ WF_vars(Tick)

-----------------------------------------------------------------------------
Single(n) == RoundSingle(n) = n

TypeOK ==
  /\ visible   \in [Layers -> BOOLEAN]
  /\ lastimage \in [Layers -> Names \cup {NoImage}]
  /\ image     \in [Layers -> Names \cup {NoImage}]
  /\ t         \in [Layers -> Int]
  /\ dt        \in [Layers -> {-Tenth, 0, Tenth}]
  /\ \A l \in Layers : Single(t[l])

(* The opacity given to the colour matrix leaves [0, 1] by rounding only,  *)
(* though ten tenths do not make one and nothing clips the sum.            *)
OpacityInRange == \A l \in Layers : t[l] >= -16 /\ t[l] <= One + 16

(* A layer that is drawn has an image, the last one set: a fade-out takes  *)
(* its image from another field than a fade-in, and replaces the draw      *)
(* function even when nothing was ever set.                                *)
DrawsLastImage ==
  \A l \in Layers : visible[l] => image[l] = lastimage[l] /\ image[l] # NoImage

(* The layers, whatever is set while they fade.                            *)
LayersConsistent == TypeOK /\ OpacityInRange /\ DrawsLastImage

(* The first tick of a fade is still to come.                              *)
Restarted(l) == t[l] = IF dt[l] < 0 THEN One ELSE 0

(* Every fade comes to its end, unless scripts restart it for ever or an   *)
(* image of this layer or of one below it is missing.                      *)
FadeSettles ==
  \A l \in Layers :
    visible[l] ~> (Blocked(l) \/ ~Fading(l) \/ []<>Restarted(l))

(* "if (dt < 0 && t == 0) Hide()" (StaticImage.cs:104): what has faded out *)
(* is hidden.                                                              *)
FadeOutHides ==
  \A l \in Layers :
    (visible[l] /\ dt[l] < 0)
      ~> (Blocked(l) \/ ~visible[l] \/ dt[l] > 0 \/ []<>Restarted(l))
=============================================================================

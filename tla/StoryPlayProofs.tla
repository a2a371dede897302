-------------------------- MODULE StoryPlayProofs --------------------------
(***************************************************************************)
(* Machine-checked proofs about the scripts and the game they run in.      *)
(*                                                                         *)
(* First of ScriptRuntime, for all scripts: the types, that never two      *)
(* dialogs are open, that Enter always finds a choice and, for scripts in  *)
(* which every say is followed by something, that the narration on the     *)
(* screen carries its own continuation and the story follows its script    *)
(* (the refinement of StoryLine).                                          *)
(*                                                                         *)
(* Then of StoryPlay, for every map and every set of scripts that say      *)
(* something before they set the character: the game as a whole keeps what *)
(* its two halves keep, and the character the keys move is where the       *)
(* camera looks, though scripts run while it walks.                        *)
(***************************************************************************)
EXTENDS StoryPlay, TileMapProofs, SequenceTheorems, FiniteSetTheorems

USE PcAssumption, CodeAssumption, MenuAssumption, BoxAssumption

(* The selection never leaves the part of the list the keys can reach.     *)
SelectionInv ==
  menuVisible => /\ Code[shown].op = "menu"
                 /\ menuitemlist = Code[shown].texts
                 /\ menuitems = Code[shown].names
                 /\ menuOnClose = Code[shown].target
                 /\ selectedindex \in 0 .. ItemCount - 1

(* TypedIsPrefix, also while the narration is closed.                      *)
PrefixInv ==
  /\ narrVisible => lines # << >>
  /\ lines # << >> => /\ Len(line) <= Len(lines[currentline])
                      /\ \A k \in 1 .. Len(line) : line[k] = lines[currentline][k]

RInv == ScriptTypeOK /\ OneDialog /\ SelectionInv /\ PrefixInv

-----------------------------------------------------------------------------
(* Growing keeps a box a box.                                              *)
LEMMA GrowBox ==
  ASSUME NEW b \in Boxes
  PROVE  Grow(b) \in Boxes
<1>1. w0 \div 10 \in Int /\ h0 \div 10 \in Int /\ w0 \div 5 \in Int /\ h0 \div 5 \in Int
  OBVIOUS
<1>2. b.x \in Int /\ b.y \in Int /\ b.w \in Int /\ b.h \in Int
  BY DEF Boxes
<1>3. DownTo(b.x, x0, w0 \div 10) \in Int /\ DownTo(b.y, y0, h0 \div 10) \in Int
  BY <1>1, <1>2 DEF DownTo
<1>4. UpTo(b.w, w0, w0 \div 5) \in Int /\ UpTo(b.h, h0, h0 \div 5) \in Int
  BY <1>1, <1>2 DEF UpTo
<1> QED
  BY <1>3, <1>4 DEF Grow, Boxes

(* Both sizes of the dialog are boxes of the screen.                         *)
LEMMA SmallBoxIsBox == SmallBox \in Boxes /\ FullBox \in Boxes
<1>1. w0 \div 2 \in Int /\ h0 \div 2 \in Int
  OBVIOUS
<1> QED
  BY <1>1 DEF SmallBox, FullBox, Boxes

(* The game begins with no dialog and the script at its first call.          *)
LEMMA InitRInv == ScriptInit => RInv
<1> SUFFICES ASSUME ScriptInit PROVE RInv
  OBVIOUS
<1>1. ScriptTypeOK
  <2>1. narrBox \in Boxes /\ menuBox \in Boxes
    BY SmallBoxIsBox DEF ScriptInit
  <2>2. pc \in Pcs \cup {Idle} /\ narrOnClose \in Pcs \cup {Idle} /\ shown \in Pcs
    BY DEF ScriptInit
  <2>3. lines \in Seq(Seq(Letters)) /\ line \in Seq(Letters)
    BY DEF ScriptInit
  <2>4. /\ narrVisible \in BOOLEAN /\ menuVisible \in BOOLEAN
        /\ narrating \in BOOLEAN /\ complete \in BOOLEAN
        /\ control \in Nat /\ map \in BOOLEAN /\ made \in BOOLEAN /\ player \in BOOLEAN
        /\ refused \in BOOLEAN /\ exited \in BOOLEAN
    BY Zenon DEF ScriptInit
  <2>5. /\ control \in Nat /\ missing \subseteq ImageLayers
        /\ lines # << >> => currentline \in 1 .. Len(lines)
    BY DEF ScriptInit
  <2> QED
    BY Zenon, <2>1, <2>2, <2>3, <2>4, <2>5 DEF ScriptTypeOK
<1>2. OneDialog /\ SelectionInv
  BY DEF ScriptInit, OneDialog, SelectionInv
<1>3. PrefixInv
  BY DEF ScriptInit, PrefixInv
<1> QED
  BY <1>1, <1>2, <1>3 DEF RInv

-----------------------------------------------------------------------------
(* The emitted methods.                                                    *)
LEMMA SayRInv ==
  ASSUME RInv, pc \in Pcs, Code[pc].op = "say", Say(Code[pc])
  PROVE  RInv'
<1> DEFINE i == Code[pc]
<1>1. ~narrVisible /\ ~menuVisible
  BY DEF RInv, OneDialog
<1>2. i.lines \in Seq(Seq(Letters)) /\ i.lines # << >> /\ i.next \in Pcs \cup {Idle}
  BY CodeAssumption
<1>3. ScriptTypeOK'
  <2>1. lines' \in Seq(Seq(Letters)) /\ lines' # << >> /\ line' \in Seq(Letters)
    BY <1>2 DEF Say, SetNarration
  <2>2. currentline' \in 1 .. Len(lines')
    <3>1. Len(lines') \in Nat /\ Len(lines') # 0
      BY <2>1, EmptySeq, LenProperties
    <3> QED
      BY <3>1 DEF Say, SetNarration
  <2>3. /\ narrVisible' \in BOOLEAN /\ menuVisible' \in BOOLEAN
        /\ narrating' \in BOOLEAN /\ complete' \in BOOLEAN
        /\ map' \in BOOLEAN /\ made' \in BOOLEAN /\ player' \in BOOLEAN
        /\ refused' \in BOOLEAN /\ exited' \in BOOLEAN
    BY Zenon DEF Say, SetNarration, RInv, ScriptTypeOK, menuVars, storyVars
  <2>4. narrBox' \in Boxes /\ menuBox' \in Boxes
    BY SmallBoxIsBox DEF Say, RInv, ScriptTypeOK, menuVars
  <2>5. pc' \in Pcs \cup {Idle} /\ narrOnClose' \in Pcs \cup {Idle} /\ shown' \in Pcs
    BY <1>2 DEF Say, RInv, ScriptTypeOK
  <2>6. control' \in Nat /\ missing' \subseteq ImageLayers
    BY DEF Say, storyVars, RInv, ScriptTypeOK
  <2> QED
    BY Zenon, <2>1, <2>2, <2>3, <2>4, <2>5, <2>6 DEF ScriptTypeOK
<1>4. OneDialog' /\ SelectionInv'
  BY <1>1 DEF Say, menuVars, OneDialog, SelectionInv
<1>5. PrefixInv'
  <2>1. lines' = i.lines /\ line' = << >> /\ currentline' = 1
    BY DEF Say, SetNarration
  <2>2. Len(line') = 0 /\ Len(lines'[currentline']) \in Nat
    <3>1. currentline' \in 1 .. Len(lines')
      BY <1>2, <1>3, <2>1 DEF ScriptTypeOK
    <3>2. lines'[currentline'] \in Seq(Letters)
      BY <1>2, <2>1, <3>1
    <3> QED
      BY <2>1, <3>2, LenProperties
  <2> QED
    BY <1>2, <2>1, <2>2 DEF PrefixInv
<1> QED
  BY <1>3, <1>4, <1>5 DEF RInv

(* menu() shows the menu with an item of it selected.                        *)
LEMMA MenuRInv ==
  ASSUME RInv, pc \in Pcs, Code[pc].op = "menu", Menu(Code[pc])
  PROVE  RInv'
<1>1. ~narrVisible /\ ~menuVisible
  BY DEF RInv, OneDialog
<1>2. ScriptTypeOK'
  <2>1. narrBox' \in Boxes /\ menuBox' \in Boxes
    BY SmallBoxIsBox DEF Menu, RInv, ScriptTypeOK, narrVars
  <2>2. menuVisible' \in BOOLEAN
    BY Zenon DEF Menu
  <2>3. pc' \in Pcs \cup {Idle} /\ shown' \in Pcs
    BY DEF Menu
  <2> QED
    BY <2>1, <2>2, <2>3 DEF Menu, RInv, ScriptTypeOK, narrVars, storyVars
<1>3. SelectionInv'
  <2>1. Cardinality(DOMAIN Code[pc].names) \in 1 .. Len(Code[pc].texts)
    BY MenuAssumption
  <2>2. Code[pc].texts # << >>
    <3>1. SUFFICES ASSUME Code[pc].texts = << >> PROVE FALSE
      OBVIOUS
    <3> QED
      BY <2>1, <3>1
  <2>3. selectedindex' = 0
    BY <2>2 DEF Menu
  <2>4. /\ Code[shown'].op = "menu" /\ menuitemlist' = Code[shown'].texts
        /\ menuitems' = Code[shown'].names /\ menuOnClose' = Code[shown'].target
    BY DEF Menu
  <2>5. shown' = pc
    BY DEF Menu
  <2>6. ItemCount' \in 1 .. Len(Code[pc].texts)
    BY <2>1, <2>4, <2>5 DEF ItemCount
  <2>7. Len(Code[pc].texts) \in Nat
    BY MenuAssumption, LenProperties
  <2>8. selectedindex' \in 0 .. ItemCount' - 1
    <3>1. \A k, n : n \in Nat /\ k \in 1 .. n => 0 \in 0 .. k - 1
      OBVIOUS
    <3> QED
      BY <2>3, <2>6, <2>7, <3>1
  <2> QED
    BY <2>4, <2>8 DEF SelectionInv
<1>4. OneDialog'
  BY <1>1 DEF Menu, OneDialog, narrVars
<1>5. PrefixInv'
  BY DEF Menu, RInv, PrefixInv, narrVars
<1> QED
  BY <1>2, <1>3, <1>4, <1>5 DEF RInv

(* A handler is never taken off that is not there.                         *)
LEMMA DetachedNat ==
  ASSUME RInv
  PROVE  Detached \in Nat
BY DEF Detached, RInv, ScriptTypeOK

(* Calls that show no dialog leave the dialogs alone.                        *)
LEMMA OtherRInv ==
  ASSUME RInv, pc \in Pcs,
         \/ Code[pc].op = "call" /\ Call(Code[pc])
         \/ Code[pc].op \in Sets /\ Set(Code[pc])
         \/ Noop
         \/ Exitgame
  PROVE  RInv'
<1>1. ~narrVisible /\ ~menuVisible
  BY DEF RInv, OneDialog
<1>2. UNCHANGED <<narrVars, menuVars, shown>>
  BY DEF Call, Set, Noop, Exitgame
<1>3. pc' \in Pcs \cup {Idle}
  BY CodeAssumption DEF Call, Set, ChangeMap, ChangeCharacter, CreateObjectInstance, SetImage, Noop,
                        Exitgame
<1>4. control' \in Nat
  BY DetachedNat DEF Call, Set, ChangeMap, ChangeCharacter, CreateObjectInstance, SetImage, Noop,
                     Exitgame, storyVars, RInv, ScriptTypeOK
<1>5. /\ map' \in BOOLEAN /\ made' \in BOOLEAN /\ player' \in BOOLEAN
      /\ refused' \in BOOLEAN /\ exited' \in BOOLEAN
  BY Zenon DEF Call, Set, ChangeMap, ChangeCharacter, CreateObjectInstance, SetImage, Noop,
               Exitgame, storyVars, RInv, ScriptTypeOK
<1>6. missing' \subseteq ImageLayers
  <2>1. missing' \in {missing, missing \ {Code[pc].layer}}
        \/ (Code[pc].op = "image" /\ missing' = missing \cup {Code[pc].layer})
    BY DEF Call, Set, ChangeMap, ChangeCharacter, CreateObjectInstance, SetImage, Noop,
           Exitgame, storyVars
  <2>2. Code[pc].op = "image" => Code[pc].layer \in ImageLayers
    BY CodeAssumption
  <2> QED
    BY <2>1, <2>2 DEF RInv, ScriptTypeOK
<1>7. ScriptTypeOK'
  BY <1>2, <1>3, <1>4, <1>5, <1>6 DEF RInv, ScriptTypeOK, narrVars, menuVars
<1>8. OneDialog' /\ SelectionInv' /\ PrefixInv'
  BY <1>1, <1>2 DEF narrVars, menuVars, OneDialog, SelectionInv, RInv, PrefixInv
<1> QED
  BY <1>7, <1>8 DEF RInv

(* Every call of the script keeps the dialogs in order.                      *)
LEMMA ExecuteRInv ==
  ASSUME RInv, Execute
  PROVE  RInv'
<1>1. pc \in Pcs
  BY DEF Execute, RInv, ScriptTypeOK
<1> QED
  BY <1>1, SayRInv, MenuRInv, OtherRInv DEF Execute

-----------------------------------------------------------------------------
(* A tick types a letter and lets boxes grow.                              *)
LEMMA TickRInv ==
  ASSUME RInv, Tick
  PROVE  RInv'
<1>1. /\ UNCHANGED <<narrVisible, narrOnClose, lines, currentline>>
      /\ UNCHANGED <<menuVisible, menuOnClose, menuitemlist, menuitems, selectedindex>>
      /\ UNCHANGED <<pc, storyVars, exited, shown>>
  BY DEF Tick, NarrationTick, MenuTick, narrVars, menuVars
<1>2. narrBox' \in Boxes /\ menuBox' \in Boxes
  BY GrowBox DEF Tick, NarrationTick, MenuTick, narrVars, menuVars, RInv, ScriptTypeOK
<1>3. /\ line' \in Seq(Letters) /\ PrefixInv'
      /\ narrating' \in BOOLEAN /\ complete' \in BOOLEAN
  <2>1. CASE UNCHANGED <<line, narrating, complete>>
    BY <1>1, <2>1 DEF RInv, ScriptTypeOK, PrefixInv
  <2>2. CASE TypeLetter /\ ~complete /\ (lines = << >> \/ lines[Len(lines)] = line)
    <3>1. narrating' = FALSE /\ complete' = TRUE /\ line' = line
      BY <2>2 DEF TypeLetter
    <3>2. line' \in Seq(Letters) /\ PrefixInv'
      BY <1>1, <3>1 DEF RInv, ScriptTypeOK, PrefixInv
    <3> QED
      BY Zenon, <3>1, <3>2
  <2>3. CASE TypeLetter /\ ~complete /\ ~(lines = << >> \/ lines[Len(lines)] = line)
    <3>1. /\ complete' = complete
          /\ narrating' = (lines[currentline] # line)
          /\ line' = IF lines[currentline] # line
                     THEN SubSeq(lines[currentline], 1, Len(line) + 1) ELSE line
      BY <2>3 DEF TypeLetter
    <3>2. narrating' \in BOOLEAN /\ complete' \in BOOLEAN
      BY Zenon, <3>1 DEF RInv, ScriptTypeOK
    <3>3. lines[currentline] \in Seq(Letters) /\ line \in Seq(Letters)
      BY <2>3 DEF RInv, ScriptTypeOK
    <3>4. CASE lines[currentline] = line
      BY <1>1, <3>1, <3>2, <3>4 DEF RInv, ScriptTypeOK, PrefixInv
    <3>5. CASE lines[currentline] # line
      <4> DEFINE l == lines[currentline]
                 n == Len(line) + 1
      <4>1. l \in Seq(Letters) /\ line \in Seq(Letters) /\ l # line
        BY <3>3, <3>5
      <4>2. Len(line) <= Len(l) /\ \A k \in 1 .. Len(line) : line[k] = l[k]
        BY <2>3 DEF RInv, PrefixInv
      <4>3. line' = SubSeq(l, 1, n)
        BY <3>1, <3>5
      <4>4. lines' = lines /\ currentline' = currentline /\ narrVisible' = narrVisible
        BY <1>1
      <4> HIDE DEF l
      <4>5. Len(line) # Len(l)
        BY <4>1, <4>2, SeqEqual
      <4>6. n \in 1 .. Len(l)
        BY <4>1, <4>2, <4>5, LenProperties
      <4>7. /\ line' \in Seq(Letters) /\ Len(line') = n
            /\ \A k \in 1 .. n : line'[k] = l[k]
        <5>1. n \in Int /\ \A k \in 1 .. n : l[k] \in Letters
          BY <4>1, <4>6, ElementOfSeq, LenProperties
        <5>2. /\ SubSeq(l, 1, n) \in Seq(Letters)
              /\ Len(SubSeq(l, 1, n)) = IF 1 <= n THEN n - 1 + 1 ELSE 0
              /\ \A k \in 1 .. n - 1 + 1 : SubSeq(l, 1, n)[k] = l[1 + k - 1]
          BY <5>1, SubSeqProperties
        <5> QED
          BY <4>1, <4>3, <4>6, <5>1, <5>2, LenProperties
      <4>8. Len(line') <= Len(l) /\ \A k \in 1 .. Len(line') : line'[k] = l[k]
        BY <4>1, <4>6, <4>7, LenProperties
      <4>9. PrefixInv'
        BY <4>4, <4>8 DEF RInv, PrefixInv, l
      <4> QED
        BY <3>2, <4>7, <4>9
    <3> QED
      BY <3>4, <3>5
  <2> QED
    BY <2>1, <2>2, <2>3 DEF Tick, NarrationTick, narrVars, TypeLetter
<1>4. ScriptTypeOK'
  BY <1>1, <1>2, <1>3 DEF RInv, ScriptTypeOK, storyVars
<1>5. OneDialog' /\ SelectionInv'
  BY <1>1 DEF RInv, OneDialog, SelectionInv, ItemCount
<1> QED
  BY <1>3, <1>4, <1>5 DEF RInv

-----------------------------------------------------------------------------
(* Keys: a narration goes on or closes, a menu moves its selection or      *)
(* closes, the player uses an object.                                      *)
LEMMA NarrationKeyRInv ==
  ASSUME RInv, narrVisible, ~menuVisible, pc = Idle, NarrationKey, UNCHANGED menuVars,
         UNCHANGED <<storyVars, exited, shown>>
  PROVE  RInv'
<1>1. CASE narrating
  BY <1>1 DEF NarrationKey, RInv, ScriptTypeOK, OneDialog, SelectionInv, PrefixInv, ItemCount,
              narrVars, menuVars, storyVars
<1>2. CASE ~narrating /\ (complete \/ currentline + 1 > Len(lines))
  <2>1. /\ narrVisible' = FALSE /\ pc' = narrOnClose
        /\ UNCHANGED <<narrBox, narrOnClose, lines, currentline, line, narrating, complete>>
    BY <1>2 DEF NarrationKey
  <2>2. narrVisible' \in BOOLEAN
    BY Zenon, <2>1
  <2>3. ScriptTypeOK'
    BY <2>1, <2>2 DEF RInv, ScriptTypeOK, menuVars, storyVars
  <2>4. OneDialog' /\ SelectionInv' /\ PrefixInv'
    BY <2>1 DEF RInv, OneDialog, SelectionInv, PrefixInv, ItemCount, menuVars
  <2> QED
    BY <2>3, <2>4 DEF RInv
<1>3. CASE ~narrating /\ ~(complete \/ currentline + 1 > Len(lines))
  <2>1. /\ currentline' = currentline + 1 /\ line' = << >>
        /\ UNCHANGED <<pc, narrVisible, narrBox, narrOnClose, lines, narrating, complete>>
    BY <1>3 DEF NarrationKey
  <2>2. lines # << >> /\ Len(lines) \in Nat
    BY LenProperties DEF RInv, PrefixInv, ScriptTypeOK
  <2>3. currentline' \in 1 .. Len(lines)
    BY <1>3, <2>1, <2>2 DEF RInv, ScriptTypeOK
  <2>4. line' \in Seq(Letters)
    BY <2>1
  <2>5. ScriptTypeOK'
    BY <2>1, <2>3, <2>4 DEF RInv, ScriptTypeOK, menuVars, storyVars
  <2>6. lines[currentline'] \in Seq(Letters)
    BY <2>3 DEF RInv, ScriptTypeOK
  <2>7. PrefixInv'
    BY <2>1, <2>2, <2>6, LenProperties DEF PrefixInv
  <2>8. OneDialog' /\ SelectionInv'
    BY <2>1 DEF RInv, OneDialog, SelectionInv, ItemCount, menuVars
  <2> QED
    BY <2>5, <2>7, <2>8 DEF RInv
<1> QED
  BY <1>1, <1>2, <1>3

(* What is selected has a text, a name and a method.                       *)
LEMMA SelectedFacts ==
  ASSUME RInv, menuVisible
  PROVE  /\ selectedindex + 1 \in 1 .. Len(menuitemlist)
         /\ menuitemlist[selectedindex + 1] \in DOMAIN menuitems
         /\ SelectedItem \in DOMAIN menuOnClose
         /\ menuOnClose[SelectedItem] \in Pcs
         /\ ItemCount \in Nat \ {0}
         /\ selectedindex \in 0 .. ItemCount - 1
<1>1. /\ Code[shown].op = "menu" /\ shown \in Pcs
      /\ menuitemlist = Code[shown].texts /\ menuitems = Code[shown].names
      /\ menuOnClose = Code[shown].target /\ selectedindex \in 0 .. ItemCount - 1
  BY DEF RInv, SelectionInv, ScriptTypeOK
<1>2. /\ menuitemlist \in Seq(DOMAIN menuitems)
      /\ \A t \in DOMAIN menuitems : menuitems[t] \in DOMAIN menuOnClose
      /\ \A n \in DOMAIN menuOnClose : menuOnClose[n] \in Pcs
      /\ ItemCount \in 1 .. Len(menuitemlist)
  BY <1>1, MenuAssumption DEF ItemCount
<1>3. Len(menuitemlist) \in Nat
  BY <1>2, LenProperties
<1>4. selectedindex + 1 \in 1 .. Len(menuitemlist) /\ ItemCount \in Nat \ {0}
  BY <1>1, <1>2, <1>3
<1>5. menuitemlist[selectedindex + 1] \in DOMAIN menuitems
  BY <1>2, <1>4, ElementOfSeq
<1> QED
  BY <1>1, <1>2, <1>4, <1>5 DEF SelectedItem

(* A key moves the selection within the menu, or ends it.                    *)
LEMMA MenuKeyRInv ==
  ASSUME RInv, menuVisible, pc = Idle, NEW key, MenuKey(key), UNCHANGED narrVars,
         UNCHANGED <<storyVars, exited, shown>>
  PROVE  RInv'
<1>1. selectedindex # -1
  BY SelectedFacts
<1>2. CASE key = "Enter"
  <2>1. /\ menuVisible' = FALSE /\ pc' = menuOnClose[SelectedItem]
        /\ UNCHANGED <<menuBox, menuOnClose, menuitemlist, menuitems, selectedindex>>
    BY <1>1, <1>2 DEF MenuKey
  <2>2. menuVisible' \in BOOLEAN
    BY Zenon, <2>1
  <2>3. ScriptTypeOK'
    BY <2>1, <2>2, SelectedFacts DEF RInv, ScriptTypeOK, narrVars, storyVars
  <2>4. OneDialog' /\ SelectionInv' /\ PrefixInv'
    BY <2>1 DEF RInv, OneDialog, SelectionInv, PrefixInv, narrVars
  <2> QED
    BY <2>3, <2>4 DEF RInv
<1>3. CASE key # "Enter"
  <2>1. /\ MoveSelection(key)
        /\ UNCHANGED <<pc, menuVisible, menuBox, menuOnClose, menuitemlist, menuitems>>
    BY <1>1, <1>3 DEF MenuKey
  <2>2. selectedindex' \in 0 .. ItemCount - 1
    <3>1. ItemCount \in Nat \ {0} /\ selectedindex \in 0 .. ItemCount - 1
      BY SelectedFacts
    <3>2. \A a, n : a \in Nat /\ n \in Nat \ {0} => a % n \in 0 .. n - 1
      BY SMT
    <3>3. selectedindex # 0 => (selectedindex - 1) % ItemCount \in 0 .. ItemCount - 1
      BY <3>1, <3>2
    <3>4. (selectedindex + 1) % ItemCount \in 0 .. ItemCount - 1
      BY <3>1, <3>2
    <3> QED
      BY <2>1, <3>1, <3>3, <3>4 DEF MoveSelection
  <2>3. ScriptTypeOK'
    BY <2>1 DEF RInv, ScriptTypeOK, narrVars, storyVars
  <2>4. OneDialog' /\ SelectionInv' /\ PrefixInv'
    BY <2>1, <2>2 DEF RInv, OneDialog, SelectionInv, PrefixInv, ItemCount, narrVars
  <2> QED
    BY <2>3, <2>4 DEF RInv
<1> QED
  BY <1>2, <1>3

(* A key pressed in any dialog keeps the dialogs in order.                   *)
LEMMA KeyRInv ==
  ASSUME RInv, NEW key \in Keys, OnKeyDown(key)
  PROVE  RInv'
<1>1. pc = Idle /\ UNCHANGED <<storyVars, exited, shown>>
  BY DEF OnKeyDown, Ready
<1>2. CASE menuVisible
  BY <1>1, <1>2, MenuKeyRInv DEF OnKeyDown
<1>3. CASE ~menuVisible /\ narrVisible
  BY <1>1, <1>3, NarrationKeyRInv DEF OnKeyDown
<1>4. CASE ~menuVisible /\ ~narrVisible
  <2>1. pc' \in Pcs \cup {Idle} /\ UNCHANGED <<narrVars, menuVars>>
    BY <1>4, PcAssumption DEF OnKeyDown, InteractWithObjectAhead
  <2>2. ScriptTypeOK'
    BY <1>1, <2>1 DEF RInv, ScriptTypeOK, narrVars, menuVars, storyVars
  <2>3. OneDialog' /\ SelectionInv' /\ PrefixInv'
    BY <1>4, <2>1 DEF RInv, OneDialog, SelectionInv, PrefixInv, narrVars, menuVars
  <2> QED
    BY <2>2, <2>3 DEF RInv
<1> QED
  BY <1>2, <1>3, <1>4

(* What changes nothing keeps the invariant.                                 *)
LEMMA StutterRInv ==
  ASSUME RInv, UNCHANGED scriptVars
  PROVE  RInv'
BY DEF RInv, ScriptTypeOK, OneDialog, SelectionInv, PrefixInv, ItemCount, scriptVars, narrVars, menuVars,
       storyVars

(* The dialogs are in order in every behaviour: the invariant of the script runtime. *)
THEOREM RuntimeInvariance == ScriptSpec => []RInv
<1>1. RInv /\ [ScriptNext]_scriptVars => RInv'
  BY ExecuteRInv, TickRInv, KeyRInv, StutterRInv DEF ScriptNext
<1> QED
  BY <1>1, InitRInv, PTL DEF ScriptSpec

(* Types, and the index of the current line within the narration           *)
(* (NarrationDialog.cs).                                                   *)
THEOREM RuntimeTypeCorrect == ScriptSpec => []ScriptTypeOK
<1>1. RInv => ScriptTypeOK
  BY DEF RInv
<1> QED
  BY <1>1, RuntimeInvariance, PTL

(* Never two dialogs, and none while a script runs (Dialog.Open and Close, *)
(* called by whatever the scripts do).                                     *)
THEOREM OneDialogAlways == ScriptSpec => []OneDialog
<1>1. RInv => OneDialog
  BY DEF RInv
<1> QED
  BY <1>1, RuntimeInvariance, PTL

(* Enter in an open menu always finds a text, its name and its action      *)
(* (MenuDialog.SelectedItem and the emitted choiceToActionMap).            *)
THEOREM MenuSelectableAlways == ScriptSpec => []MenuSelectable
<1>1. RInv => MenuSelectable
  BY SelectedFacts DEF MenuSelectable
<1> QED
  BY <1>1, RuntimeInvariance, PTL

(* NarrationDialog's Substring never runs past the end of its line.        *)
THEOREM TypedIsPrefixAlways == ScriptSpec => []TypedIsPrefix
<1>1. RInv => TypedIsPrefix
  BY DEF RInv, PrefixInv, TypedIsPrefix, Begins
<1> QED
  BY <1>1, RuntimeInvariance, PTL

-----------------------------------------------------------------------------
(* The refinement of StoryLine, for scripts whose says all continue.       *)
LEMMA ScreenInit == ScriptInit => ScreenIsShown
BY DEF ScriptInit, ScreenIsShown

(* Every step leaves the screen as the script last set it.                   *)
LEMMA ScreenStep ==
  ASSUME EverySayContinues, RInv, ScreenIsShown, [ScriptNext]_scriptVars
  PROVE  ScreenIsShown'
<1>1. CASE Execute
  <2>1. pc \in Pcs /\ ~narrVisible /\ ~menuVisible
    BY <1>1 DEF Execute, RInv, OneDialog, ScriptTypeOK
  <2>2. CASE Code[pc].op = "say" /\ Say(Code[pc])
    BY <2>1, <2>2 DEF Say, SetNarration, menuVars, ScreenIsShown, EverySayContinues
  <2>3. CASE Code[pc].op = "menu" /\ Menu(Code[pc])
    BY <2>1, <2>3 DEF Menu, narrVars, ScreenIsShown
  <2>4. CASE Call(Code[pc]) \/ Set(Code[pc]) \/ Noop \/ Exitgame
    BY <2>1, <2>4 DEF Call, Set, Noop, Exitgame, narrVars, menuVars, ScreenIsShown
  <2> QED
    BY <1>1, <2>2, <2>3, <2>4 DEF Execute
<1>2. CASE Tick
  BY <1>2 DEF Tick, NarrationTick, MenuTick, narrVars, menuVars, ScreenIsShown
<1>3. ASSUME NEW key \in Keys, OnKeyDown(key) PROVE ScreenIsShown'
  BY <1>3 DEF OnKeyDown, MenuKey, NarrationKey, InteractWithObjectAhead, narrVars, menuVars,
              ScreenIsShown
<1>4. CASE UNCHANGED scriptVars
  BY <1>4 DEF scriptVars, narrVars, menuVars, ScreenIsShown
<1> QED
  BY <1>1, <1>2, <1>3, <1>4 DEF ScriptNext

(* Every step of the runtime is a line of the story, or none.                *)
LEMMA StoryStep ==
  ASSUME EverySayContinues, RInv, ScreenIsShown, [ScriptNext]_scriptVars
  PROVE  [Line!StoryNext]_StoryAt
<1>1. CASE Execute
  <2>1. pc \in Pcs /\ StoryAt = pc /\ pc # Idle /\ ~narrVisible /\ ~menuVisible
    BY <1>1 DEF Execute, RInv, OneDialog, ScriptTypeOK, StoryAt
  <2>2. CASE Code[pc].op = "say" /\ Say(Code[pc])
    BY <2>1, <2>2 DEF Say, StoryAt
  <2>3. CASE Code[pc].op = "menu" /\ Menu(Code[pc])
    BY <2>1, <2>3 DEF Menu, StoryAt
  <2>4. CASE Code[pc].op = "call" /\ Call(Code[pc])
    <3>1. StoryAt' = Code[pc].next
      BY <2>1, <2>4, CodeAssumption DEF Call, StoryAt, narrVars, menuVars
    <3>2. Line!Successors(pc) = {Code[pc].next}
      BY <2>4 DEF Line!Successors
    <3> QED
      BY <2>1, <3>1, <3>2 DEF Line!StoryNext, Line!Follow
  <2>5. CASE Code[pc].op = "image" /\ Set(Code[pc])
    <3>1. StoryAt' = Code[pc].next
      BY <2>1, <2>5, CodeAssumption DEF Set, SetImage, StoryAt, narrVars, menuVars
    <3>2. Line!Successors(pc) = {Code[pc].next}
      BY <2>5 DEF Line!Successors
    <3> QED
      BY <2>1, <3>1, <3>2 DEF Line!StoryNext, Line!Follow
  <2>6. CASE Code[pc].op \in Sets \ {"image"} /\ Set(Code[pc])
    <3>1. StoryAt' \in {Code[pc].next, Idle}
      BY <2>1, <2>6, CodeAssumption
         DEF Set, ChangeMap, ChangeCharacter, CreateObjectInstance, SetImage, StoryAt, narrVars,
             menuVars
    <3>2. Line!Successors(pc) = {Code[pc].next, Idle}
      BY <2>6 DEF Line!Successors, Sets
    <3> QED
      BY <2>1, <3>1, <3>2 DEF Line!StoryNext, Line!Follow
  <2>7. CASE \/ Code[pc].op = "noop" /\ Noop
             \/ Code[pc].op = "exit" /\ Exitgame
    <3>1. StoryAt' = Idle
      BY <2>1, <2>7 DEF Noop, Exitgame, StoryAt, narrVars, menuVars
    <3>2. Line!Successors(pc) = {Idle}
      BY <2>7 DEF Line!Successors
    <3> QED
      BY <2>1, <3>1, <3>2 DEF Line!StoryNext, Line!Follow
  <2> QED
    BY <1>1, <2>2, <2>3, <2>4, <2>5, <2>6, <2>7 DEF Execute, Sets
<1>2. CASE Tick
  BY <1>2 DEF Tick, NarrationTick, MenuTick, narrVars, menuVars, StoryAt
<1>3. ASSUME NEW key \in Keys, OnKeyDown(key) PROVE [Line!StoryNext]_StoryAt
  <2>1. pc = Idle /\ shown' = shown /\ shown \in Pcs /\ shown # Idle
    BY <1>3, PcAssumption DEF OnKeyDown, Ready, RInv, ScriptTypeOK
  <2>2. CASE menuVisible
    <3>1. MenuKey(key) /\ UNCHANGED narrVars /\ ~narrVisible /\ StoryAt = shown
      BY <1>3, <2>1, <2>2 DEF OnKeyDown, RInv, OneDialog, StoryAt
    <3>2. CASE pc' = pc /\ menuVisible' = menuVisible
      BY <2>1, <3>1, <3>2 DEF StoryAt, narrVars
    <3>3. CASE menuVisible' = FALSE /\ pc' = menuOnClose[SelectedItem]
      <4>1. SelectedItem \in DOMAIN menuOnClose /\ menuOnClose[SelectedItem] \in Pcs
        BY <2>2, SelectedFacts
      <4>2. StoryAt' = menuOnClose[SelectedItem]
        BY <3>3, <4>1, PcAssumption DEF StoryAt
      <4>3. Code[shown].op = "menu" /\ menuOnClose = Code[shown].target
        BY <2>2 DEF ScreenIsShown
      <4>4. StoryAt' \in Line!Successors(shown)
        BY <4>1, <4>2, <4>3 DEF Line!Successors
      <4> QED
        BY <2>1, <3>1, <4>4 DEF Line!StoryNext, Line!Follow
    <3> QED
      BY <3>1, <3>2, <3>3 DEF MenuKey, menuVars
  <2>3. CASE ~menuVisible /\ narrVisible
    <3>1. NarrationKey /\ UNCHANGED menuVars /\ StoryAt = shown
      BY <1>3, <2>1, <2>3 DEF OnKeyDown, StoryAt
    <3>2. CASE pc' = pc /\ narrVisible' = narrVisible
      BY <2>1, <3>1, <3>2 DEF StoryAt, menuVars
    <3>3. CASE narrVisible' = FALSE /\ pc' = narrOnClose
      <4>1. Code[shown].op = "say" /\ narrOnClose = Code[shown].next
        BY <2>3 DEF ScreenIsShown
      <4>2. narrOnClose # Idle
        BY <2>1, <4>1 DEF EverySayContinues
      <4>3. StoryAt' = Code[shown].next
        BY <3>3, <4>1, <4>2 DEF StoryAt
      <4>4. StoryAt' \in Line!Successors(shown)
        BY <4>1, <4>3 DEF Line!Successors
      <4> QED
        BY <2>1, <3>1, <4>4 DEF Line!StoryNext, Line!Follow
    <3> QED
      BY <3>1, <3>2, <3>3 DEF NarrationKey, narrVars
  <2>4. CASE ~menuVisible /\ ~narrVisible
    <3>1. pc' \in Uses \cup {Idle} /\ UNCHANGED <<narrVars, menuVars>>
      BY <1>3, <2>4 DEF OnKeyDown, InteractWithObjectAhead
    <3>2. StoryAt = Idle /\ StoryAt' = pc'
      BY <2>1, <2>4, <3>1 DEF StoryAt, narrVars, menuVars
    <3> QED
      BY <3>1, <3>2 DEF Line!StoryNext, Line!Use
  <2> QED
    BY <2>2, <2>3, <2>4
<1>4. CASE UNCHANGED scriptVars
  BY <1>4 DEF scriptVars, narrVars, menuVars, StoryAt
<1> QED
  BY <1>1, <1>2, <1>3, <1>4 DEF ScriptNext

(* A narration on the screen carries its own text and its own continuation *)
(* (the emitted SetNarration, SetDoOnceOnClose and Open of one say).       *)
THEOREM ScreenIsShownAlways ==
  ASSUME EverySayContinues
  PROVE  ScriptSpec => []ScreenIsShown
<1>1. RInv /\ ScreenIsShown /\ [ScriptNext]_scriptVars => ScreenIsShown'
  BY ScreenStep
<1> QED
  BY <1>1, ScreenInit, RuntimeInvariance, PTL DEF ScriptSpec

(* All that is said of the dialogs above, together (NarrationDialog.cs,    *)
(* MenuDialog.cs, Dialog.cs), for every script whose says continue.        *)
THEOREM DialogsConsistentAlways ==
  ASSUME EverySayContinues
  PROVE  ScriptSpec => []DialogsConsistent
<1>1. ScriptTypeOK /\ OneDialog /\ ScreenIsShown /\ MenuSelectable /\ TypedIsPrefix => DialogsConsistent
  BY DEF DialogsConsistent
<1> QED
  BY <1>1, RuntimeTypeCorrect, OneDialogAlways, ScreenIsShownAlways, MenuSelectableAlways,
     TypedIsPrefixAlways, PTL

(* Over an image that was not loaded (StaticImage.cs:92) an open narration *)
(* is never begun and takes no key: the exception TypingEnds makes is not  *)
(* an accident of some scripts.                                            *)
THEOREM StuckOverMissingAlways == ScriptSpec => []StuckOverMissing
<1>1. ScriptInit => StuckOverMissing
  BY DEF ScriptInit, StuckOverMissing
<1>2. RInv /\ StuckOverMissing /\ [ScriptNext]_scriptVars => StuckOverMissing'
  <2> SUFFICES ASSUME RInv, StuckOverMissing, [ScriptNext]_scriptVars PROVE StuckOverMissing'
    OBVIOUS
  <2>1. CASE Execute
    <3>1. ~narrVisible
      BY <2>1 DEF Execute, RInv, OneDialog
    <3>2. CASE Say(Code[pc])
      BY <3>2 DEF Say, SetNarration, StuckOverMissing
    <3>3. CASE UNCHANGED narrVars
      BY <3>1, <3>3 DEF narrVars, StuckOverMissing
    <3> QED
      BY <2>1, <3>2, <3>3 DEF Execute, Menu, Call, Set, Noop, Exitgame
  <2>2. CASE Tick
    BY <2>2 DEF Tick, narrVars, storyVars, StuckOverMissing
  <2>3. ASSUME NEW key \in Keys, OnKeyDown(key) PROVE StuckOverMissing'
    <3>1. missing' = missing
      BY <2>3 DEF OnKeyDown, storyVars
    <3>2. UNCHANGED narrVars \/ (narrVisible /\ NarrationKey)
      BY <2>3 DEF OnKeyDown, InteractWithObjectAhead
    <3>3. narrating /\ NarrationKey => UNCHANGED narrVars
      BY DEF NarrationKey
    <3>4. UNCHANGED narrVars \/ missing' = {}
      BY <3>1, <3>2, <3>3 DEF StuckOverMissing
    <3> QED
      BY <3>1, <3>4 DEF narrVars, StuckOverMissing
  <2>4. CASE UNCHANGED scriptVars
    BY <2>4 DEF scriptVars, narrVars, storyVars, StuckOverMissing
  <2> QED
    BY <2>1, <2>2, <2>3, <2>4 DEF ScriptNext
<1> QED
  BY <1>1, <1>2, RuntimeInvariance, PTL DEF ScriptSpec

(* The handlers are attached once from the first map on, unless the last   *)
(* map or character could not be set (Story.ChangeMap, ChangeCharacter).   *)
THEOREM InControlAlways == ScriptSpec => []InControl
<1>1. ScriptInit => InControl
  BY DEF ScriptInit, InControl
<1>2. RInv /\ InControl /\ [ScriptNext]_scriptVars => InControl'
  <2> SUFFICES ASSUME RInv, InControl, [ScriptNext]_scriptVars PROVE InControl'
    OBVIOUS
  <2>1. CASE UNCHANGED storyVars
    BY <2>1 DEF storyVars, InControl
  <2>2. CASE Set(Code[pc])
    <3>1. Detached = 0
      BY DEF Detached, InControl
    <3>2. CASE ChangeMap(Code[pc])
      <4>1. control' = IF Code[pc].known THEN 1 ELSE 0
        BY <3>1, <3>2 DEF ChangeMap
      <4>2. refused' = ~Code[pc].known /\ map' = (map \/ Code[pc].known)
        BY <3>2 DEF ChangeMap
      <4> QED
        BY Zenon, <4>1, <4>2 DEF InControl
    <3>3. CASE ChangeCharacter(Code[pc])
      <4>1. control' = IF made /\ map THEN 1 ELSE 0
        BY <3>1, <3>3 DEF ChangeCharacter
      <4>2. refused' = ~(made /\ map) /\ map' = map
        BY <3>3 DEF ChangeCharacter
      <4> QED
        BY Zenon, <4>1, <4>2 DEF InControl
    <3>4. CASE CreateObjectInstance(Code[pc]) \/ SetImage(Code[pc])
      BY <3>4 DEF CreateObjectInstance, SetImage, InControl
    <3> QED
      BY <2>2, <3>2, <3>3, <3>4 DEF Set
  <2>3. Set(Code[pc]) \/ UNCHANGED storyVars
    BY DEF ScriptNext, Execute, Say, Menu, Call, Noop, Exitgame, Tick, OnKeyDown, scriptVars
  <2> QED
    BY <2>1, <2>2, <2>3
<1> QED
  BY <1>1, <1>2, RuntimeInvariance, PTL DEF ScriptSpec

(* The story follows its scripts: callbacks, keys and ticks in whatever    *)
(* order take it from an instruction to a successor of that instruction    *)
(* (Script.CompileInstructions, Dialog.Close, Scene.OnKeyDown).            *)
THEOREM RuntimeRefines ==
  ASSUME EverySayContinues
  PROVE  ScriptSpec => FollowsScript
<1>1. ScriptInit => Line!StoryInit
  BY PcAssumption DEF ScriptInit, Line!StoryInit, StoryAt
<1>2. RInv /\ ScreenIsShown /\ [ScriptNext]_scriptVars => [Line!StoryNext]_StoryAt
  BY StoryStep
<1> QED
  BY <1>1, <1>2, RuntimeInvariance, ScreenIsShownAlways, PTL DEF ScriptSpec, FollowsScript, Line!StorySpec

-----------------------------------------------------------------------------
(* No line is cut short, in scripts whose last lines stand apart.          *)

(* A complete narration is at its last line, typed; one that waits for a   *)
(* key has its line typed or not begun.                                    *)
LineInv ==
  narrVisible =>
    /\ lines # << >>
    /\ \A k \in 1 .. Len(lines) - 1 : ~Begins(lines[Len(lines)], lines[k])
    /\ complete => currentline = Len(lines) /\ line = lines[currentline]
    /\ ~complete /\ ~narrating => line = << >> \/ line = lines[currentline]

(* What is typed so far is the last line only when the last line is typed. *)
LEMMA LastLineTyped ==
  ASSUME RInv, LineInv, narrVisible, lines[Len(lines)] = line
  PROVE  currentline = Len(lines)
<1>1. lines \in Seq(Seq(Letters)) /\ lines # << >> /\ currentline \in 1 .. Len(lines)
  BY DEF RInv, PrefixInv, ScriptTypeOK
<1>2. Begins(line, lines[currentline])
  BY <1>1 DEF RInv, PrefixInv, Begins
<1>3. currentline \notin 1 .. Len(lines) - 1
  BY <1>2 DEF LineInv
<1> QED
  BY <1>1, <1>3

(* A tick types a letter of the line, or finds it typed.                   *)
LEMMA LineTick ==
  ASSUME RInv, LineInv, NarrationTick, narrVisible
  PROVE  LineInv'
<1>1. UNCHANGED <<narrVisible, lines, currentline>>
  BY DEF NarrationTick
<1>2. CASE narrBox # FullBox \/ complete
  <2>1. UNCHANGED <<line, narrating, complete>>
    BY <1>2 DEF NarrationTick, TypeLetter
  <2> QED
    BY <1>1, <2>1 DEF LineInv, Begins
<1>3. CASE narrBox = FullBox /\ ~complete /\ lines[Len(lines)] = line
  <2>1. complete' /\ ~narrating' /\ UNCHANGED line
    BY <1>3 DEF NarrationTick, TypeLetter
  <2>2. currentline = Len(lines)
    BY <1>3, LastLineTyped
  <2> QED
    BY <1>1, <1>3, <2>1, <2>2 DEF LineInv, Begins
<1>4. CASE narrBox = FullBox /\ ~complete /\ lines[Len(lines)] # line
  <2>1. /\ ~complete'
        /\ narrating' = (lines[currentline] # line)
        /\ lines[currentline] = line => line' = line
    BY <1>4 DEF NarrationTick, TypeLetter, LineInv
  <2> QED
    BY <1>1, <2>1 DEF LineInv, Begins
<1> QED
  BY <1>2, <1>3, <1>4

(* The narration is opened with its first line not begun, typed by ticks   *)
(* and turned by keys.                                                     *)
LEMMA LineStep ==
  ASSUME LastLineApart, RInv, LineInv, [ScriptNext]_scriptVars
  PROVE  LineInv'
<1>1. CASE Execute
  <2>1. pc \in Pcs /\ ~narrVisible
    BY <1>1 DEF Execute, RInv, OneDialog, ScriptTypeOK
  <2>2. CASE Code[pc].op = "say" /\ Say(Code[pc])
    <3>1. lines' = Code[pc].lines /\ ~complete' /\ narrating'
      BY <2>2 DEF Say, SetNarration
    <3>2. \A k \in 1 .. Len(Code[pc].lines) - 1 :
            ~Begins(Code[pc].lines[Len(Code[pc].lines)], Code[pc].lines[k])
      BY <2>1, <2>2 DEF LastLineApart
    <3>3. Code[pc].lines # << >>
      BY <2>1, <2>2
    <3> QED
      BY <3>1, <3>2, <3>3 DEF LineInv, Begins
  <2>3. CASE UNCHANGED narrVars
    BY <2>1, <2>3 DEF narrVars, LineInv
  <2> QED
    BY <1>1, <2>2, <2>3 DEF Execute, Menu, Call, Set, Noop, Exitgame
<1>2. CASE Tick
  BY <1>2, LineTick DEF Tick, NarrationTick, narrVars, LineInv
<1>3. ASSUME NEW key \in Keys, OnKeyDown(key) PROVE LineInv'
  <2>1. CASE UNCHANGED narrVars
    BY <2>1 DEF narrVars, LineInv, Begins
  <2>2. CASE NarrationKey /\ narrVisible
    <3>1. CASE ~narrVisible'
      BY <3>1 DEF LineInv
    <3>2. CASE narrVisible' /\ currentline' # currentline
      <4>1. /\ ~complete' /\ line' = << >>
            /\ UNCHANGED <<narrVisible, lines>>
        BY <2>2, <3>2 DEF NarrationKey, narrVars
      <4> QED
        BY <2>2, <4>1 DEF LineInv, Begins
    <3>3. CASE narrVisible' /\ currentline' = currentline
      <4>1. lines # << >> /\ currentline \in Int
        BY <2>2 DEF RInv, PrefixInv, ScriptTypeOK
      <4>2. UNCHANGED narrVars
        BY <2>2, <3>3, <4>1 DEF NarrationKey, narrVars
      <4> QED
        BY <2>1, <4>2
    <3> QED
      BY <3>1, <3>2, <3>3
  <2> QED
    BY <1>3, <2>1, <2>2 DEF OnKeyDown, InteractWithObjectAhead
<1>4. CASE UNCHANGED scriptVars
  BY <1>4 DEF scriptVars, narrVars, LineInv, Begins
<1> QED
  BY <1>1, <1>2, <1>3, <1>4 DEF ScriptNext

(* A key leaves a line that is typed or not begun, and closes on the last. *)
LEMMA LineLeftWhole ==
  ASSUME RInv, LineInv, [ScriptNext]_scriptVars, LineLeft
  PROVE  /\ line = lines[currentline] \/ line = << >>
         /\ ~narrVisible' => currentline = Len(lines)
<1>1. /\ lines \in Seq(Seq(Letters)) /\ lines # << >> /\ currentline \in 1 .. Len(lines)
      /\ narrVisible /\ pc = Idle
  BY DEF RInv, PrefixInv, ScriptTypeOK, OneDialog, LineLeft
<1>2. ~Execute /\ ~Tick /\ ~UNCHANGED narrVars
  BY <1>1 DEF Execute, Tick, NarrationTick, LineLeft, narrVars
<1>3. PICK key \in Keys : OnKeyDown(key)
  BY <1>2 DEF ScriptNext, scriptVars
<1>4. NarrationKey
  BY <1>2, <1>3 DEF OnKeyDown, InteractWithObjectAhead
<1>5. ~narrating
  BY <1>2, <1>4 DEF NarrationKey
<1>6. line = lines[currentline] \/ line = << >>
  BY <1>1, <1>5 DEF LineInv
<1>7. ASSUME ~narrVisible' PROVE currentline = Len(lines)
  <2>1. complete \/ currentline + 1 > Len(lines)
    BY <1>1, <1>4, <1>5, <1>7 DEF NarrationKey
  <2> QED
    BY <1>1, <2>1 DEF LineInv
<1> QED
  BY <1>6, <1>7

(* The reader sees every line to its end or skips it before it begins, and *)
(* the narration closes on its last: the typing of NarrationDialog.cs      *)
(* compares texts, its key handler counts lines.                           *)
THEOREM NoLineIsCutShort ==
  ASSUME LastLineApart
  PROVE  ScriptSpec => NoLineCutShort
<1>1. ScriptInit => LineInv
  BY DEF ScriptInit, LineInv
<1>2. RInv /\ LineInv /\ [ScriptNext]_scriptVars => LineInv'
  BY LineStep
<1>3. RInv /\ LineInv /\ [ScriptNext]_scriptVars =>
        [LineLeft => /\ line = lines[currentline] \/ line = << >>
                     /\ ~narrVisible' => currentline = Len(lines)]_scriptVars
  BY LineLeftWhole
<1> QED
  BY <1>1, <1>2, <1>3, RuntimeInvariance, PTL DEF ScriptSpec, NoLineCutShort

-----------------------------------------------------------------------------
(* The whole game.                                                         *)

(* Where the character is, with what the proofs of TileMap know of it.     *)
Where ==
  IF chr = NoObject THEN NobodyYet ELSE chr = Player /\ map /\ IInv /\ CornerKept

PInv == RInv /\ Where /\ Overtaken

-----------------------------------------------------------------------------
(* The game runs its scripts as ScriptRuntime does.                        *)
LEMMA PlayStepIsScript == [PlayNext]_playVars => [ScriptNext]_scriptVars
BY DEF PlayNext, playVars, Act, Draw, Press, Steer, ScriptNext

(* Whatever is played, the scripts and dialogs behave as in ScriptRuntime, *)
(* and what is proved of them there holds (Story.cs with Script.cs).       *)
THEOREM PlayIsScript == PlaySpec => ScriptSpec
<1>1. PlayInit => ScriptInit
  BY DEF PlayInit
<1> QED
  BY <1>1, PlayStepIsScript, PTL DEF PlaySpec, ScriptSpec

(* One step of the scripts keeps their invariant.                          *)
LEMMA ScriptStepRInv ==
  ASSUME RInv, [ScriptNext]_scriptVars
  PROVE  RInv'
BY ExecuteRInv, TickRInv, KeyRInv, StutterRInv DEF ScriptNext

-----------------------------------------------------------------------------
(* Before there is a character.                                            *)

(* A map with nobody on it that walks is drawn as it is.                   *)
LEMMA NobodyDrawn ==
  ASSUME NobodyYet, DrawMap
  PROVE  NobodyYet'
<1>1. Arriving = {} /\ Advancing = {}
  BY DEF NobodyYet, Arriving, Advancing
<1>2. /\ objectToDir' = [o \in Objects |-> NoDir]
      /\ objectToSub' = [o \in Objects |-> 0]
  BY <1>1 DEF DrawMap, DrawCharacters, NobodyYet
<1>3. characterLevel' = [c \in Cells |-> characterLevel[c]]
  BY <1>1 DEF DrawMap, DrawCharacters
<1>4. characterLevel' = characterLevel
  BY <1>3 DEF NobodyYet
<1>5. /\ UNCHANGED <<floorPassable, CheckPassable, direction, camx, camy>>
      /\ x' = 0 /\ y' = 0 /\ subx' = 0 /\ suby' = 0 /\ subdir' = NoDir
  BY DirFacts DEF DrawMap, AnalyseMap, NobodyYet
<1> QED
  BY <1>2, <1>4, <1>5 DEF NobodyYet, Cells, Objects

(* The first character is set on the cell in the corner.                   *)
LEMMA FirstCharacter ==
  ASSUME NobodyYet, SetCharacter, direction' \in {direction, "Up"},
         UNCHANGED <<floorPassable, walkVars, camVars, CheckPassable>>
  PROVE  IInv' /\ CornerKept'
<1>1. Camera = <<0, 0>> /\ Camera \in Cells /\ Camera' = Camera
  BY SizeAssumption DEF NobodyYet, Camera, Cells, camVars
<1>2. /\ characterLevel' = [characterLevel EXCEPT ![Camera] = Player]
      /\ characterLevel \in [Cells -> Npcs \cup {NoObject}]
  BY DEF SetCharacter, NobodyYet
<1>3. \A c \in Cells : characterLevel'[c] = Player <=> c = Camera
  BY <1>1, <1>2, ObjectAssumption DEF Objects
<1>4. /\ objectToDir' = [o \in Objects |-> NoDir] /\ objectToSub' = [o \in Objects |-> 0]
      /\ UNCHANGED <<floorPassable, camx, camy, x, y, subdir, subx, suby, CheckPassable>>
  BY DEF NobodyYet, walkVars, camVars
<1>5. Standing' /\ objectToDir'[Player] = NoDir /\ objectToSub'[Player] = 0
  BY <1>4 DEF Standing, Objects
<1>6. TypeOK'
  <2>1. characterLevel' \in [Cells' -> Objects \cup {NoObject}]
    BY <1>2 DEF Cells, Objects
  <2>2. objectToDir' \in [Objects -> Dir \cup {NoDir}]
    BY <1>4
  <2>3. objectToSub' \in [Objects -> 0 .. Steps - 1]
    BY <1>4, StepsAssumption
  <2>4. direction' \in Dir
    BY DEF NobodyYet, Dir
  <2>5. /\ subdir' \in Dir \cup {NoDir}
        /\ subx' \in -Steps .. Steps /\ suby' \in -Steps .. Steps
        /\ x' \in Int /\ y' \in Int
    BY <1>4, StepsAssumption DEF NobodyYet
  <2>6. floorPassable' \in [Cells' -> BOOLEAN] /\ CheckPassable' \in BOOLEAN
    BY Zenon, <1>4 DEF NobodyYet, Cells
  <2>7. Camera' \in Cells'
    BY <1>1 DEF Cells
  <2> QED
    BY Zenon, <2>1, <2>2, <2>3, <2>4, <2>5, <2>6, <2>7 DEF TypeOK
<1>7. NpcsStand'
  BY <1>4 DEF NpcsStand, Objects
<1>8. CameraLeads'
  <2>1. PlayerAt' = Camera
    <3>1. PlayerAt' = Behind(Camera', objectToDir'[Player])
      BY DEF PlayerAt, Behind, DX, DY
    <3> QED
      BY <1>1, <1>5, <3>1, BehindNoDir
  <2> QED
    BY <1>1, <1>3, <1>5, <2>1 DEF CameraLeads, Cells
<1>9. Lockstep'
  BY <1>4 DEF NobodyYet, Lockstep
<1>10. ViewCentred'
  <2>1. x' = 0 /\ y' = 0 /\ camx' = 0 /\ camy' = 0
    BY <1>4 DEF NobodyYet
  <2>2. (w > ViewW => Centred(0, ViewW, w) = 0) /\ (h > ViewH => Centred(0, ViewH, h) = 0)
    BY ViewAssumption, SizeAssumption DEF Centred
  <2> QED
    BY <2>1, <2>2 DEF ViewCentred
<1>11. CornerKept'
  BY <1>5 DEF CornerKept
<1> QED
  BY <1>6, <1>7, <1>8, <1>9, <1>10, <1>11 DEF IInv

(* A character that stands and is set again stays where it is.             *)
LEMMA SameCharacter ==
  ASSUME IInv, CornerKept, Standing, SetCharacter, direction' \in {direction, "Up"},
         UNCHANGED <<floorPassable, walkVars, camVars, CheckPassable>>
  PROVE  IInv' /\ CornerKept'
<1>1. Camera \in Cells /\ PlayerAt = Camera
  BY BehindNoDir DEF IInv, TypeOK, PlayerAt, Standing
<1>2. characterLevel' = characterLevel
  BY <1>1 DEF SetCharacter, IInv, TypeOK, CameraLeads
<1>3. direction' \in Dir
  BY DEF IInv, TypeOK, Dir
<1>4. UNCHANGED <<floorPassable, characterLevel, walkVars, camVars, CheckPassable>>
  BY <1>2
<1>5. TypeOK'
  BY <1>3, <1>4 DEF IInv, walkVars, camVars, TypeOK, Camera
<1>6. NpcsStand' /\ CameraLeads' /\ Lockstep' /\ ViewCentred' /\ CornerKept'
  BY <1>4 DEF IInv, walkVars, camVars, Camera, NpcsStand, CameraLeads, Lockstep,
              ViewCentred, Standing, PlayerAt, FloorIsPassable, CornerKept
<1> QED
  BY <1>5, <1>6 DEF IInv

-----------------------------------------------------------------------------
(* The character and the map, step by step.                                *)

(* Nobody sets the character while it walks: only a hasty script can run   *)
(* then.                                                                   *)
LEMMA StandsWhenSet ==
  ASSUME RInv, Overtaken, Execute, Code[pc].op = "setobject", chr # NoObject
  PROVE  Standing
<1>1. pc # Idle
  BY DEF Execute
<1>2. pc \notin Hasty
  BY HastyAssumption
<1> QED
  BY <1>1, <1>2 DEF Overtaken

(* What leaves map and character alone, leaves the character in its place. *)
LEMMA StutterWhere ==
  ASSUME Where, UNCHANGED mapVars, map => map'
  PROVE  Where'
<1>1. UNCHANGED vars /\ chr' = chr
  BY DEF mapVars
<1>2. CASE chr = NoObject
  BY <1>1, <1>2 DEF Where, NobodyYet, vars, walkVars, camVars, Cells
<1>3. CASE chr # NoObject
  <2>1. IInv'
    BY <1>1, <1>3, StutterIInv DEF Where
  <2>2. CornerKept'
    BY <1>1, <1>3 DEF Where, vars, walkVars, camVars, CornerKept, Standing, PlayerAt, Camera
  <2> QED
    BY <1>1, <1>3, <2>1, <2>2 DEF Where
<1> QED
  BY <1>2, <1>3

(* No method takes the map away.                                           *)
LEMMA MapStays ==
  ASSUME RInv, [ScriptNext]_scriptVars, map
  PROVE  map'
<1>1. CASE Execute
  BY <1>1 DEF Execute, Say, Menu, Call, Set, ChangeMap, ChangeCharacter, CreateObjectInstance, SetImage,
              Noop, Exitgame, storyVars
<1>2. CASE Tick
  BY <1>2 DEF Tick, storyVars
<1>3. CASE \E key \in Keys : OnKeyDown(key)
  BY <1>3 DEF OnKeyDown, storyVars
<1>4. CASE UNCHANGED scriptVars
  BY <1>4 DEF scriptVars, storyVars
<1> QED
  BY <1>1, <1>2, <1>3, <1>4 DEF ScriptNext

(* A method of a script.                                                   *)
LEMMA ActWhere ==
  ASSUME RInv, Where, Overtaken, Act
  PROVE  Where'
<1>1. map => map'
  BY MapStays DEF Act, ScriptNext
<1>2. CASE Code[pc].op = "setobject" /\ made /\ map
  <2>1. /\ SetCharacter /\ chr' = Player /\ direction' \in {direction, "Up"}
        /\ UNCHANGED <<floorPassable, walkVars, camVars, CheckPassable>>
    BY <1>2 DEF Act
  <2>2. CASE chr = NoObject
    BY <1>1, <1>2, <2>1, <2>2, FirstCharacter, ObjectAssumption DEF Where, Objects
  <2>3. CASE chr # NoObject
    <3>1. Standing
      BY <1>2, <2>3, StandsWhenSet DEF Act
    <3> QED
      BY <1>1, <1>2, <2>1, <2>3, <3>1, SameCharacter, ObjectAssumption DEF Where, Objects
  <2> QED
    BY <2>2, <2>3
<1>3. CASE ~(Code[pc].op = "setobject" /\ made /\ map)
  <2>1. UNCHANGED mapVars
    BY <1>3 DEF Act
  <2> QED
    BY <1>1, <2>1, StutterWhere
<1> QED
  BY <1>2, <1>3

(* A tick of the scene.                                                    *)
LEMMA DrawWhere ==
  ASSUME Where, Draw
  PROVE  Where'
<1>1. map' = map
  BY DEF Draw, Tick, storyVars
<1>2. CASE ~map
  BY <1>1, <1>2, StutterWhere DEF Draw
<1>3. CASE map
  <2>1. DrawMap /\ chr' = chr
    BY <1>3 DEF Draw
  <2>2. CASE chr = NoObject
    BY <2>1, <2>2, NobodyDrawn DEF Where
  <2>3. CASE chr # NoObject
    BY <1>1, <2>1, <2>3, DrawMapIInv, DrawMapCornerKept DEF Where
  <2> QED
    BY <2>2, <2>3
<1> QED
  BY <1>2, <1>3

(* A direction key.                                                        *)
LEMMA SteerWhere ==
  ASSUME Where, NEW d \in Dir, Steer(d)
  PROVE  Where'
<1>1. map' = map /\ chr' = chr
  BY DEF Steer, scriptVars, storyVars
<1>2. CASE chr = NoObject
  <2>1. /\ CheckPassable' = TRUE
        /\ UNCHANGED <<floorPassable, characterLevel, walkVars, camVars, direction>>
    BY <1>2 DEF Steer
  <2>2. CheckPassable' \in BOOLEAN
    BY Zenon, <2>1
  <2> QED
    BY <1>1, <1>2, <2>1, <2>2 DEF Where, NobodyYet, walkVars, camVars, Cells
<1>3. CASE chr # NoObject
  <2>1. Move(d)
    BY <1>3 DEF Steer
  <2> QED
    BY <1>1, <1>3, <2>1, MoveIInv, MoveCornerKept DEF Where
<1> QED
  BY <1>2, <1>3

(* Every step of the game keeps the character in its place.                *)
LEMMA WhereStep ==
  ASSUME RInv, Where, Overtaken, [PlayNext]_playVars
  PROVE  Where'
<1>1. CASE UNCHANGED mapVars
  <2>1. map => map'
    BY PlayStepIsScript, MapStays
  <2> QED
    BY <1>1, <2>1, StutterWhere
<1>2. CASE Act
  BY <1>2, ActWhere
<1>3. CASE Draw
  BY <1>3, DrawWhere
<1>4. ASSUME NEW d \in Dir, Steer(d) PROVE Where'
  BY <1>4, SteerWhere
<1> QED
  BY <1>1, <1>2, <1>3, <1>4 DEF PlayNext, playVars, Press

-----------------------------------------------------------------------------
(* A script is never done before the walk it overtakes.                    *)

(* One tick of a walk is one step, until it ends.                          *)
LEMMA WalkTick ==
  ASSUME IInv, DrawMap, ~Standing'
  PROVE  /\ ~Standing
         /\ objectToSub'[Player] = objectToSub[Player] + 1
         /\ objectToSub[Player] \in 0 .. Steps - 1
<1>1. Player \in Objects
  BY DEF Objects
<1>2. objectToDir'[Player] = objectToDir[Player] /\ Player \notin Arriving
  BY <1>1 DEF DrawMap, DrawCharacters, Standing
<1>3. ~Standing /\ objectToSub'[Player] = objectToSub[Player] + 1
  BY <1>1, <1>2, AdvancingFacts DEF Standing, DrawMap, DrawCharacters
<1> QED
  BY <1>1, <1>3 DEF IInv, TypeOK

(* A box opens by a fifth of its width a tick.                             *)
LEMMA StillOpening ==
  ASSUME NEW b \in Boxes, NEW s \in 0 .. Steps - 1, b.w <= 65 + s * (w0 \div 5)
  PROVE  b # FullBox /\ Grow(b).w <= 65 + (s + 1) * (w0 \div 5)
<1> DEFINE fifth == w0 \div 5
<1>1. fifth \in Nat /\ w0 \in Nat /\ b.w \in Int /\ Steps \in Nat /\ s \in Nat
  BY BoxAssumption, StepsAssumption DEF Boxes
<1>2. 65 + (Steps - 1) * fifth < w0
  BY OutlastsAssumption
<1>3. Grow(b).w = UpTo(b.w, w0, fifth)
  BY DEF Grow
<1>4. FullBox.w = w0
  BY DEF FullBox
<1>5. b.w <= 65 + s * fifth
  OBVIOUS
<1> HIDE DEF fifth
<1>6. \A p, q \in Nat : p * q \in Nat
  OBVIOUS
<1>7. (Steps - 1 - s) * fifth \in Nat
  BY <1>1, <1>6
<1>8. (Steps - 1 - s) * fifth = (Steps - 1) * fifth - s * fifth
  BY <1>1
<1>9. (s + 1) * fifth = s * fifth + fifth /\ s * fifth \in Nat
  BY <1>1, <1>6
<1>10. (Steps - 1) * fifth \in Int
  BY <1>1
<1>11. b.w < w0
  <2>1. PICK p \in Nat : p = s * fifth
    BY <1>9
  <2>2. PICK q \in Int : q = (Steps - 1) * fifth
    BY <1>10
  <2>3. q - p \in Nat /\ 65 + q < w0 /\ b.w <= 65 + p
    BY <1>2, <1>5, <1>7, <1>8, <2>1, <2>2
  <2> QED BY <1>1, <2>3
<1>12. UpTo(b.w, w0, fifth) <= b.w + fifth
  BY <1>1, <1>11 DEF UpTo
<1>13. UpTo(b.w, w0, fifth) \in Int
  BY <1>1 DEF UpTo
<1>14. UpTo(b.w, w0, fifth) <= 65 + (s + 1) * fifth
  BY <1>1, <1>5, <1>9, <1>12, <1>13
<1> QED
  BY <1>3, <1>4, <1>11, <1>14, <1>1 DEF fifth

(* A method called during a walk is hasty, and so is what it leads to.     *)
LEMMA ActOvertaken ==
  ASSUME RInv, Where, Overtaken, Act
  PROVE  Overtaken'
<1> SUFFICES ASSUME chr' # NoObject, ~Standing'
             PROVE  /\ pc' \in Hasty \cup {Idle}
                    /\ menuVisible' => \A n \in DOMAIN menuOnClose' : menuOnClose'[n] \in Hasty
                    /\ narrVisible' => /\ narrating'
                                       /\ narrBox'.w <= 65 + objectToSub'[Player] * (w0 \div 5)
  BY DEF Overtaken
<1>1. UNCHANGED mapVars
  <2> SUFFICES ASSUME Code[pc].op = "setobject", made, map PROVE FALSE
    BY DEF Act
  <2>1. Standing
    BY StandsWhenSet DEF Act, Where, NobodyYet, Standing, Objects
  <2>2. objectToDir' = objectToDir
    BY DEF Act, walkVars
  <2> QED
    BY <2>1, <2>2 DEF Standing
<1>2. chr # NoObject /\ ~Standing /\ objectToSub' = objectToSub
  BY <1>1 DEF mapVars, vars, walkVars, Standing
<1>3. pc \in Hasty /\ ~narrVisible /\ ~menuVisible
  BY <1>2 DEF Overtaken, Act, Execute, RInv, OneDialog
<1>4. CASE Say(Code[pc])
  <2>1. objectToSub[Player] \in Nat
    BY <1>2 DEF Where, IInv, TypeOK, Objects
  <2>2. objectToSub[Player] * (w0 \div 5) \in Nat
    <3>1. \A p, q \in Nat : p * q \in Nat
      OBVIOUS
    <3> QED
      BY <2>1, <3>1, BoxAssumption
  <2>3. narrBox'.w = 65
    BY <1>4 DEF Say, SmallBox
  <2> QED
    BY <1>2, <1>3, <1>4, <2>2, <2>3 DEF Say, SetNarration, menuVars
<1>5. CASE Code[pc].op = "menu" /\ Menu(Code[pc])
  BY <1>3, <1>5, HastyAssumption DEF Menu, narrVars
<1>6. CASE \/ Code[pc].op = "call" /\ Call(Code[pc])
           \/ Code[pc].op \in Sets /\ Set(Code[pc])
  <2>1. Code[pc].op # "setobject" /\ Code[pc].op \in {"call", "make", "setmap", "image"}
    BY <1>3, <1>6, HastyAssumption DEF Sets
  <2>2. Code[pc].next \in Hasty \cup {Idle}
    BY <1>3, <2>1, HastyAssumption
  <2>3. pc' \in {Code[pc].next, Idle} /\ UNCHANGED <<narrVars, menuVars>>
    BY <1>6 DEF Call, Set, ChangeMap, ChangeCharacter, CreateObjectInstance, SetImage
  <2> QED
    BY <1>3, <2>2, <2>3 DEF narrVars, menuVars
<1>7. CASE Noop \/ Exitgame
  BY <1>3, <1>7 DEF Noop, Exitgame, narrVars, menuVars
<1> QED
  BY <1>4, <1>5, <1>6, <1>7 DEF Act, Execute

(* A width that is within the bound of k steps is within that of one more. *)
LEMMA StillWithin ==
  ASSUME NEW k \in Nat, NEW b \in Nat, NEW wide \in Int, wide <= 65 + k * b
  PROVE  wide <= 65 + (k + 1) * b
<1>1. k * b \in Nat /\ (k + 1) * b = k * b + b
  OBVIOUS
<1> QED
  BY <1>1

(* A tick takes the walk a step on and the box no further.                 *)
LEMMA DrawOvertaken ==
  ASSUME RInv, Where, Overtaken, Draw
  PROVE  Overtaken'
<1> SUFFICES ASSUME chr' # NoObject, ~Standing'
             PROVE  /\ pc' \in Hasty \cup {Idle}
                    /\ menuVisible' => \A n \in DOMAIN menuOnClose' : menuOnClose'[n] \in Hasty
                    /\ narrVisible' => /\ narrating'
                                       /\ narrBox'.w <= 65 + objectToSub'[Player] * (w0 \div 5)
  BY DEF Overtaken
<1>1. chr = chr'
  BY DEF Draw, mapVars
<1>2. map /\ IInv /\ DrawMap
  BY <1>1 DEF Where, Draw
<1>3. /\ ~Standing /\ objectToSub'[Player] = objectToSub[Player] + 1
      /\ objectToSub[Player] \in 0 .. Steps - 1
  BY <1>2, WalkTick
<1>4. /\ pc' = pc /\ pc \in Hasty \cup {Idle}
      /\ UNCHANGED <<menuVisible, menuOnClose, narrVisible>>
  BY <1>1, <1>3 DEF Overtaken, Draw, Tick, NarrationTick, MenuTick, narrVars, menuVars
<1>5. ASSUME narrVisible
      PROVE  narrating' /\ narrBox'.w <= 65 + objectToSub'[Player] * (w0 \div 5)
  <2>1. narrating /\ narrBox.w <= 65 + objectToSub[Player] * (w0 \div 5) /\ narrBox \in Boxes
    BY <1>1, <1>3, <1>5 DEF Overtaken, RInv, ScriptTypeOK
  <2>2. narrBox # FullBox /\ Grow(narrBox).w <= 65 + (objectToSub[Player] + 1) * (w0 \div 5)
    BY <1>3, <2>1, StillOpening
  <2>3. CASE missing = {}
    <3>1. narrating' = narrating /\ narrBox' = Grow(narrBox)
      BY <1>5, <2>2, <2>3 DEF Draw, Tick, NarrationTick
    <3> QED
      BY <1>3, <2>1, <2>2, <3>1
  <2>4. CASE missing # {}
    <3>1. narrating' = narrating /\ narrBox' = narrBox
      BY <2>4 DEF Draw, Tick, narrVars
    <3>2. w0 \div 5 \in Nat /\ objectToSub[Player] \in Nat
      BY <1>3, BoxAssumption, StepsAssumption
    <3>3. narrBox.w \in Int
      BY <2>1 DEF Boxes
    <3>4. narrBox.w <= 65 + (objectToSub[Player] + 1) * (w0 \div 5)
      BY <2>1, <3>2, <3>3, StillWithin
    <3> QED
      BY <1>3, <2>1, <3>1, <3>4
  <2> QED
    BY <2>3, <2>4
<1> QED
  BY <1>1, <1>3, <1>4, <1>5 DEF Overtaken

(* A key leads from a menu to a hasty instruction, and a narration that is *)
(* still being typed does not take it.                                     *)
LEMMA PressOvertaken ==
  ASSUME RInv, Where, Overtaken, NEW key \in Keys, Press(key)
  PROVE  Overtaken'
<1> SUFFICES ASSUME chr' # NoObject, ~Standing'
             PROVE  /\ pc' \in Hasty \cup {Idle}
                    /\ menuVisible' => \A n \in DOMAIN menuOnClose' : menuOnClose'[n] \in Hasty
                    /\ narrVisible' => /\ narrating'
                                       /\ narrBox'.w <= 65 + objectToSub'[Player] * (w0 \div 5)
  BY DEF Overtaken
<1>1. chr # NoObject /\ ~Standing /\ objectToSub' = objectToSub
  BY DEF Press, mapVars, vars, walkVars, Standing
<1>2. /\ pc = Idle /\ OnKeyDown(key)
      /\ menuVisible => \A n \in DOMAIN menuOnClose : menuOnClose[n] \in Hasty
      /\ narrVisible => narrating /\ narrBox.w <= 65 + objectToSub[Player] * (w0 \div 5)
  BY <1>1 DEF Press, OnKeyDown, Ready, Overtaken
<1>3. CASE menuVisible
  <2>1. MenuKey(key) /\ UNCHANGED narrVars
    BY <1>2, <1>3 DEF OnKeyDown
  <2>2. SelectedItem \in DOMAIN menuOnClose
    BY <1>3, SelectedFacts
  <2>3. pc' \in Hasty \cup {Idle} /\ menuOnClose' = menuOnClose
    BY <1>2, <1>3, <2>1, <2>2 DEF MenuKey, menuVars
  <2> QED
    BY <1>1, <1>2, <1>3, <2>1, <2>3 DEF narrVars
<1>4. CASE ~menuVisible /\ narrVisible
  <2>1. NarrationKey /\ UNCHANGED menuVars
    BY <1>2, <1>4 DEF OnKeyDown
  <2>2. pc' = pc /\ narrating' = narrating /\ narrBox' = narrBox /\ ~menuVisible'
    BY <1>2, <1>4, <2>1 DEF NarrationKey, narrVars, menuVars
  <2> QED
    BY <1>1, <1>2, <1>4, <2>2
<1>5. CASE ~menuVisible /\ ~narrVisible
  <2>1. pc' \in Uses \cup {Idle} /\ UNCHANGED <<narrVars, menuVars>>
    BY <1>2, <1>5 DEF OnKeyDown, InteractWithObjectAhead
  <2> QED
    BY <1>5, <2>1, HastyAssumption DEF narrVars, menuVars
<1> QED
  BY <1>3, <1>4, <1>5

(* Every step of the game keeps the scripts behind the walk.               *)
LEMMA OvertakenStep ==
  ASSUME RInv, Where, Overtaken, [PlayNext]_playVars
  PROVE  Overtaken'
<1>1. ASSUME NEW d \in Dir, Steer(d) PROVE Overtaken'
  BY <1>1 DEF Steer, Ready, NoDialog, scriptVars, narrVars, menuVars, Overtaken
<1>2. CASE UNCHANGED playVars
  BY <1>2 DEF playVars, mapVars, vars, walkVars, scriptVars, narrVars, menuVars, Overtaken, Standing
<1> QED
  BY <1>1, <1>2, ActOvertaken, DrawOvertaken, PressOvertaken DEF PlayNext

-----------------------------------------------------------------------------
(* The game as a whole keeps its invariant.                                *)
THEOREM PlayInvariance == PlaySpec => []PInv
<1>1. PlayInit => PInv
  <2> SUFFICES ASSUME PlayInit PROVE PInv
    OBVIOUS
  <2>1. RInv
    BY InitRInv DEF PlayInit
  <2>2. CheckPassable \in BOOLEAN
    BY Zenon DEF PlayInit
  <2>3. Where /\ Overtaken
    BY <2>2 DEF PlayInit, Where, NobodyYet, Overtaken, Dir
  <2> QED
    BY <2>1, <2>3 DEF PInv
<1>2. PInv /\ [PlayNext]_playVars => PInv'
  BY PlayStepIsScript, ScriptStepRInv, WhereStep, OvertakenStep DEF PInv
<1> QED
  BY <1>1, <1>2, PTL DEF PlaySpec

(* The character the keys move is on the map once, under the camera or     *)
(* walking to it, and the keys reach the story once, whatever scripts the  *)
(* player starts while walking (Story.ChangeCharacter, Story.ChangeMap,    *)
(* PlayScene.Move, Scene's tick).                                          *)
THEOREM InPlayAlways == PlaySpec => []InPlay
<1>1. PInv => Followed
  <2> SUFFICES ASSUME PInv PROVE Followed
    OBVIOUS
  <2>1. CASE chr = NoObject
    BY <2>1 DEF PInv, Where, Followed
  <2>2. CASE chr # NoObject
    <3>1. IInv /\ CornerKept
      BY <2>2 DEF PInv, Where
    <3>2. PlayerOnScreen
      BY <3>1, Seen
    <3> QED
      BY <2>2, <3>1, <3>2 DEF Followed, WalkConsistent, IInv
  <2> QED
    BY <2>1, <2>2
<1>2. Followed /\ InControl => InPlay
  BY DEF InPlay
<1> QED
  BY <1>1, <1>2, PlayInvariance, PlayIsScript, InControlAlways, PTL
=============================================================================

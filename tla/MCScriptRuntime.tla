-------------------------- MODULE MCScriptRuntime ---------------------------
(***************************************************************************)
(* Scripts for TLC, cut down from EmeraldDream/res/main.script and         *)
(* res/maps/firstmap/objects.list: a title menu with three branches, a     *)
(* story that goes round and can set up map and player, an object that     *)
(* speaks, shows a picture that is not there, asks, and takes the picture  *)
(* away only with one of the answers, the other of which sets the player   *)
(* anew; and a door that asks at once and leads to a map that is not there.*)
(***************************************************************************)
EXTENDS ScriptRuntime, TLC

SayThen(text, n)  == [op |-> "say", lines |-> text, next |-> n]
CallThen(o, n)    == [op |-> o, next |-> n]
SetThen(o, k, n)  == [op |-> o, known |-> k, next |-> n]
ShowThen(l, i, n) == [op |-> "image", layer |-> l, to |-> i, next |-> n]
Nothing(n)        == [op |-> "noop", next |-> n]
Ask(t, nm, tg, n) == [op |-> "menu", texts |-> t, names |-> nm, target |-> tg, next |-> n]

TitleMenu ==
  Ask(<<"New", "Load", "Exit">>,
      [t \in {"New", "Load", "Exit"} |->
         CASE t = "New" -> "a" [] t = "Load" -> "b" [] OTHER -> "c"],
      [n \in {"a", "b", "c"} |->
         CASE n = "a" -> "a_new" [] n = "b" -> "b_load" [] OTHER -> "c_exit"],
      "meow")

Favourite ==
  Ask(<<"Haruhi", "Hinagiku">>,
      [t \in {"Haruhi", "Hinagiku"} |-> IF t = "Haruhi" THEN "a" ELSE "b"],
      [n \in {"a", "b"} |-> IF n = "a" THEN "box_a" ELSE "box_b"],
      "box_end")

Leave ==
  Ask(<<"Stay", "Go">>,
      [t \in {"Stay", "Go"} |-> IF t = "Stay" THEN "a" ELSE "b"],
      [n \in {"a", "b"} |-> IF n = "a" THEN "stay" ELSE "go"],
      Idle)

(* Every say is followed by an instruction that runs.                      *)
Tale ==
     "start"    :> ShowThen("image", "loaded", "title")
  @@ "title"    :> TitleMenu
  @@ "meow"     :> SayThen(<< <<"m">> >>, "quiet")
  @@ "quiet"    :> Nothing(Idle)
  @@ "a_new"    :> CallThen("call", "first")              \* goto
  @@ "b_load"   :> CallThen("call", "load")
  @@ "c_exit"   :> [op |-> "exit", next |-> Idle]
  @@ "load"     :> SayThen(<< <<"n", "o">> >>, "again")
  @@ "again"    :> CallThen("call", "title")
  @@ "first"    :> SayThen(<< <<"s", "u">>, <<"i">>, <<"t", "h">> >>, "place")
  @@ "place"    :> SetThen("setmap", TRUE, "hero")
  @@ "hero"     :> SetThen("make", TRUE, "enter")
  @@ "enter"    :> CallThen("setobject", "more")
  @@ "more"     :> SayThen(<< <<"y">>, << >>, <<"z">> >>, "rest")
  @@ "rest"     :> Nothing(Idle)
  @@ "box"      :> SayThen(<< <<"o", "k">> >>, "blank")
  @@ "blank"    :> ShowThen("overlay", "missing", "ask")
  @@ "ask"      :> Favourite
  @@ "box_a"    :> ShowThen("overlay", "loaded", "laugh")
  @@ "laugh"    :> SayThen(<< <<"l">> >>, "box_back")
  @@ "box_b"    :> CallThen("setobject", "box_back")
  @@ "box_back" :> CallThen("call", "box_end")            \* the return instruction
  @@ "box_end"  :> ShowThen("overlay", "nothing", Idle)
  @@ "door"     :> Leave
  @@ "stay"     :> SayThen(<< <<"o">> >>, "rest")
  @@ "go"       :> SetThen("setmap", FALSE, "rest")

(* As shipped: the object's last say is the end of its script, and the     *)
(* label loadgame is followed by a comment.                                *)
Shipped ==
     "box_end"  :> SayThen(<< <<"y", "o">> >>, Idle)
  @@ "load"     :> Nothing("notyet")                      \* // loadgame
  @@ "notyet"   :> SayThen(<< <<"n", "o">> >>, "quiet")
  @@ Tale

MCLetters == UNION {UNION {{t[k] : k \in DOMAIN t} :
                             t \in {Code[p].lines[i] : i \in DOMAIN Code[p].lines}} :
                    p \in {q \in DOMAIN Code : Code[q].op = "say"}}

TalePcs    == DOMAIN Tale
ShippedPcs == DOMAIN Shipped
=============================================================================

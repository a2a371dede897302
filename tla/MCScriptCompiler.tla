-------------------------- MODULE MCScriptCompiler --------------------------
(***************************************************************************)
(* Scripts for TLC: all short ones, right or wrong, and longer ones built  *)
(* around a menu of two choices.                                           *)
(***************************************************************************)
EXTENDS ScriptCompiler

CONSTANT MaxLines   \* of the scripts that may be anything

L(kind)    == [kind |-> kind, arg |-> ""]
N(kind, a) == [kind |-> kind, arg |-> a]

Alphabet ==
  {L("say"), L("set"), L("noop"), L("end"), L("choicetitle"), L("bad"),
   N("choice", "a"), N("for", "a"), N("label", "l"), N("goto", "l"),
   N("start", "main"), N("goto", "main")}

Inner ==
  <<N("choice", "a"), N("for", "a"), L("say"), L("end")>>

Blocks ==
  {<<L("say")>>, <<L("say"), L("say"), L("set")>>, <<N("label", "k")>>,
   <<N("goto", "l")>>, <<L("exitgame")>>, <<L("noop")>>, << >>,
   Inner, <<L("set")>> \o Inner, <<L("set")>> \o Inner \o <<L("say")>>,
   <<L("set"), L("set")>> \o Inner}

MenuScript(title, x, y) ==
  title \o <<N("choice", "a"), N("choice", "b"), N("for", "a")>> \o x
        \o <<L("end"), N("for", "b")>> \o y \o <<L("end")>>

Around ==
  {before \o MenuScript(title, x, y) \o after :
     before \in {<<N("label", "l"), L("set")>>, <<L("say"), N("start", "main")>>},
     title  \in {<< >>, <<L("choicetitle")>>},
     x \in Blocks, y \in Blocks,
     after \in {<< >>, <<L("say")>>, <<N("label", "l"), L("set"), N("goto", "l")>>,
                <<L("say"), L("noop"), L("end")>>}}

MCScripts == BoundedSeq(Alphabet, MaxLines) \cup Around

MCNames == {"", "a", "b", "k", "l", "main"}
=============================================================================

----------------------------- MODULE MCLuaCalls -----------------------------
EXTENDS LuaCalls

CONSTANTS A, B

Pcall(f) == <<"pcall", f>>
Xpcall(h) == <<"xpcall", <<"lua">>, h>>
Lua == <<"lua">>
Yield == <<"yield">>

\* Errors and their handlers in one thread; yields across protected calls; two
\* coroutines that resume each other; a wrapped one whose errors go on.
SomePrograms ==
  {{Lua, Pcall(Lua), Xpcall(Lua)}, {Lua, Xpcall(<<"nil">>), Pcall(Lua)},
   {Lua, Yield, Pcall(Yield), <<"resume", A>>}, {Xpcall(Yield), <<"resume", A>>, Pcall(<<"resume", A>>), Yield},
   {Yield, <<"resume", A>>, <<"resume", B>>}, {Yield, <<"wrap", A>>, <<"resume", B>>, Pcall(Lua)}}
=============================================================================

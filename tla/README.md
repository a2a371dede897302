# A verification project for Emerald Dream

Emerald Dream is a small engine for tile-map role-playing games in C# (Windows Forms):
`EmeraldLibrary` draws and scrolls maps, `EmeraldDream` runs scripts that open dialogs,
change maps and images, and `MapMaker` edits maps. The repository also carries the
sources of Lua 5.1.3 (`lua/src`), which it builds into a DLL for scripts; that is its
largest part by far. This directory holds TLA+ models of both, the TLC configurations
that check them on small instances, and TLAPS proofs of their main properties for every
instance.

All paths below are relative to `src/`; `Map.cs:312` is a line of
`EmeraldLibrary/Map.cs` and `lgc.c:525` one of `lua/src/lgc.c`. PROJECT.json maps every
definition to the lines it models.

## 1. Inventory

### The game

Everything runs on one UI thread. There are three sources of events: the scene's timer
(`Scene.cs:17`, 30 Hz: draw the map, then the visible layers, and all animation advances
inside drawing), key events of the window (`Scene.OnKeyDown`), and the 60 Hz timer of
`DXKeyboard`, which polls the keyboard and produces the key events that walk
(`Scene.OnDXKeyDown`). A handler runs to its end, so the hard part is not data races but
the ORDER of ticks and keys, state spread over several fields that are advanced in
different places, and callbacks run in the middle of other operations.

| Component | State | Operations | What makes it correct |
|---|---|---|---|
| Map (`Map.cs`) | floors, characters, camera cell, view corner, scroll offset and direction, per-object walking direction and offset | `CameraX/Y` setters, `MoveCamera`, `MoveCharacter`, `AnalyseMap`, `DrawMap`, `Set*` | the camera and the player stay together, scroll and walk end together, the view is centred and nothing jumps, no object is overwritten, a walk ends |
| PlayScene (`PlayScene.cs`) | the character | `Move`, `ChangeCharacter` (`Rotate` has no caller) | a walk in progress is not disturbed by keys |
| Scene and layers (`Scene.cs`, `Layer.cs`, `InteractiveLayer.cs`) | list of layers, map, timer | tick, `On*` dispatch, `AddLayer`, `ChangeMap`, `Start`/`Stop` | a key reaches exactly one receiver, the topmost visible one |
| Dialog, MenuDialog (`Dialog.cs`) | visible, animated box, `doOnceOnClose`; item list, dictionary, selection | `Open`, `Close`, `SetDoOnceOnClose`, `AddMenuItem`, `ClearMenuItems`, keys | one dialog at a time, a callback belongs to the dialog that is shown, Enter always finds a choice |
| NarrationDialog (`NarrationDialog.cs`) | lines, current line, typed text, `narrating`, `complete` | `SetNarration`, typing, keys | typing ends, the reader is not cut off, `Substring` stays in range |
| Script at work (`Script.cs:361-506`) | the chain of emitted methods and stored callbacks | say, set, make, menu, label, goto, exitgame | the story follows the script |
| Script reader and compiler (`Script.cs:126-350`) | the instruction read ahead, procedures, labels | read, consume says and menus, emit | the emitted graph is the script's |
| Story (`Story.cs:19-389`) | maps, objects, images, player, attached handlers | load, `ChangeMap`, `ChangeCharacter`, `SetImage`, `InteractWithObjectAhead` | control is attached exactly when there is something to control |
| StaticImage (`StaticImage.cs`) | visible, captured opacity and step, last image | `Image` setter, draw | a fade ends, shown or hidden |
| GameControl, GameWindow | scene, frame counter | scene setter, `Draw`, forwarding of events | one running timer |
| DXKeyboard | polled keys | `Poll` | |
| TileBank, ObjectsAssembly, CodeLoader | tiles by index and name; generated C# | load, compile (start-up only) | |
| MapMaker | registry of tool windows and open maps, selected floor | open/close windows, paint floors | a window is registered while it is open |
| `LuaDll.cs` | two imports of the Lua DLL, which nothing calls | | |

How they interact: a key goes Window -> GameControl -> Scene -> topmost visible dialog,
or else Story's handler. A dialog's `Close` calls the stored callback, an emitted script
method; each such method does one thing (open a dialog with a new callback, change map,
character or image) and calls the next one. `Story` hands `Map` to the scene;
`PlayScene.Move` writes the map, the tick animates it.

### Lua

One C thread runs everything; what is hard here is the number of ways in which one
operation can happen inside another. Any allocation may run a step of the collector, any
operation on a value may call a metamethod, any call may fail and jump out of the C
functions in between (`longjmp`), or be cut by a yield.

| Component | State | Operations | What makes it correct |
|---|---|---|---|
| Tables (`ltable.c`) | array part, nodes in chains, `lastfree` | get, set, `newkey`, `rehash`, `next`, `getn` | chains hold their keys, a rebuild makes room, a walk is not disturbed |
| Collector (`lgc.c`, with `lfunc.c`, `lstring.c`, `lstate.c`) | colours, phase, lists `gray`, `grayagain`, `weak`, `tmudata`, open upvalues, the string table | `singlestep`, `fullgc`, barriers, `lua_close` | nothing in reach is freed, what is out of reach is, finalizers run once and before weak values are seen again |
| Lexer (`llex.c`, `lzio.c`) | the current character, the buffer, the line | `luaX_next` | the tokens and lines of the text, however it is cut into pieces |
| Parser and code generator (`lparser.c`, `lcode.c`) | function states, blocks, active variables, upvalues, jump lists, free register | one function for each production and each form of expression | the code does what the text means; registers are released in order |
| Virtual machine (`lvm.c`, `ltm.c`) | stack, CallInfos, open upvalues | an instruction at a time | its own assertions; the result |
| Verifier, precompiled chunks (`ldebug.c`, `ldump.c`, `lundump.c`) | | `luaG_checkcode`, dump, undump | what is compiled passes; what is dumped comes back |
| Calls, errors, coroutines (`ldo.c`, `lapi.c`) | per thread `ci`, `nCcalls`, `baseCcalls`, `errfunc`, `status` | call, pcall, throw, resume, yield | counts agree with the C stack after every way out; limits hold; coroutines behave as coroutines |
| Libraries (`ltablib.c`, `lstrlib.c`, `lauxlib.c`) | a sort in progress, captures, the free list, a buffer | sort, match, gmatch, gsub, ref, unref, buffers | order, the right match, one holder to a reference, the text added |
| The other libraries, `lua`, `luac` | files, the process | wrappers of the C library | not modelled |

The parts meet at the C stack and in the heap: the parser fills a prototype which the
machine runs and the dumper writes; the machine calls through `ldo.c`, which also runs C
functions, coroutines and error handlers; every table, closure and string is the
collector's. The models meet at the same places: `LuaParser`, `LuaCode`, `LuaVM`,
`LuaVerify` and `LuaChunk` work on one prototype; `LuaTable` has the collector's two
ways of touching a table as actions; `LuaCalls` leaves out values to have every order of
calls, errors and yields, `LuaVM` has the values and no coroutines.

The hazards of this code are listed in PROJECT.json, each at its line, with the
properties that would catch them.

## 2. Plan

Modules, in the order in which they were written:

1. `TileMap` with `GridWalk` (abstract): the walk and the camera. Proved.
2. `ScriptRuntime` with `StoryLine` (abstract): dialogs and scripts. Proved.
3. `Fade`: StaticImage with exact opacities. Proved.
4. `ScriptText`, `ScriptReader`, `ScriptCompiler`: from the lines of a file to the graph
   of methods, against a reading of the whole text. Proved, reader and compiler.
5. `LuaTable` with `LuaMap` (abstract): the tables. Proved, with the refinement.
6. `LuaGC`: the collector under a program. Its safety is proved.
7. `LuaCode`, `LuaParser`, `LuaVM`, `LuaVerify`, `LuaChunk` with `LuaRef` (what a
   program means): from the tokens of a program to its result. Model-checked.
8. `LuaCalls` with `LuaCoroutines` (abstract): calls, errors and coroutines. Proved,
   with the refinement.
9. `LuaSort`, `LuaPattern`, `LuaGsub`, `LuaRefs`, `LuaBuffer`, `LuaLex`: parts of the library
   and the lexer. Proved, all but `LuaPattern`, which is model-checked.
10. `StoryPlay`: `TileMap` and `ScriptRuntime` composed, as the story plays them: scripts
   that run in the middle of a walk. Proved.

Open: several maps and characters in `StoryPlay`; the windows of the map editor;
`string.format` and the remaining table functions.

## 3. The models

### TileMap: the walk and the camera

State: `floorPassable` (a floor may block), `characterLevel`, `objectToDir` and
`objectToSub` (the dictionaries of walking objects), the camera `camx, camy`, the view
corner `x, y`, the scroll `subdir, subx, suby`, `CheckPassable`, and the character's
`direction`. Offsets are counted in draw steps of `moveamount` pixels (every offset in
the code is a multiple of it); `Steps` is `TileSize / moveamount`, 4 as shipped. Views
are counted in tiles of 32 pixels, as the code does.

| Action / operator | Code |
|---|---|
| `Move(d)` | `PlayScene.Move`: `MoveCharacter` on the camera cell (`CanWalk`) and, if it starts a walk, `MoveCamera` |
| `StartScroll`, `Clamp`, `Corner`, `ViewCorner`, `AtEdge` | `MoveCamera` and the two setters: clamping, early returns, the corrections at the edges, the cancelled scroll |
| `DrawMap` = `AnalyseMap` + `DrawCharacters` | one tick: the scroll is worked off by a step; the walking objects among the cells drawn (`Drawn`) advance, and arrive |

`FloorIsPassable` keeps the code's name although in the code, too, it is true of a floor
that blocks. `DrawCharacters` computes the outcome of the scan at once; `Scan` is the
literal loop with its two writes per object, and `ScanAgrees` says in every reachable
state that both give the same result.

Two simplifications, both checked against the code: only the object on the camera cell
is ever told to move (`MoveCharacter` has one caller), and the player is set on the map
before the first walk. What scripts do to the map before that and during walks is in
`StoryPlay`.

Properties. `CameraLeads`: the camera cell is where the player stands, or the next cell
of its walk, still free. `Lockstep`: scroll and walk, two counters in two places, always
add up to one tile, and without a scroll no offset is left (an offset left over would
turn every later camera assignment into a no-op). `ViewCentred`: the view is centred as
far as the edges allow. `PlayerOnScreen`: in steps on the screen, the player is whole
inside the view. The run checks these four with the types as `WalkConsistent`. `NoJump`:
neither the player on the screen nor the view ever moves by more than a step. `NpcsUndisturbed`: no
other object is moved or lost. `IsGridWalk`: the map implements `GridWalk`, where a
player chooses a free neighbouring cell and arrives there later. `WalkCompletes`: it
does arrive.

### ScriptRuntime: dialogs and scripts

Scripts are a constant: `Code[p]` is the instruction for which method `p` was emitted,
with the method that follows it (`Idle` where `ThereIsANextInstruction` is false). The
chain of calls of emitted methods is the program counter `pc`; keys and ticks wait until
it is `Idle`, as they do on the one thread. Texts are sequences of letters, since the
narration compares and cuts them.

| Action / operator | Code |
|---|---|
| `Execute`: `Say`, `Menu`, `Call`, `Set`, `Noop`, `Exitgame` | the methods that `CompileInstructions` emits, one disjunct per kind |
| `Set`: `ChangeMap`, `ChangeCharacter`, `CreateObjectInstance` | the story's part of `set` and `make`; an unknown name throws out of the whole chain of calls, with the handlers detached and, for a character without a map, `player` assigned |
| `Set`: `SetImage` | `set image` and `set overlay`: any name is taken; `missing` are the layers whose last name was not loaded |
| `Tick`: `NarrationTick`, `MenuTick` | the drawing of visible dialogs: the box grows (`Grow`), the text is typed when it is full (`TypeLetter`); with a layer in `missing`, which is drawn first, the tick ends in an exception before that |
| `OnKeyDown`: `MenuKey`, `NarrationKey`, `InteractWithObjectAhead` | the scene's search for the topmost visible layer (the menu was added last), else the story's handler |

The close callback of a narration is `narrOnClose`, a method or `Idle`; `Say` sets it
only if there is a next instruction and `Close` leaves it set, both as in the code. The
callback of a menu looks up `SelectedItem` in the map of choices that was built with it.
`control` counts how often the story's handlers are attached to the scene's events.
Two variables are auxiliary: `shown`, the method that opened the last dialog, and
`refused`, whether the last change of map or character failed. The operators carry
`Script` in their names (`ScriptInit`, `ScriptNext`, ...) so that the module can be
extended together with `TileMap`.

Properties. `OneDialog`: never two dialogs, none while a script runs. `ScreenIsShown`:
lines, items and continuation all belong to the instruction that opened the dialog.
`MenuSelectable`: selection, list, dictionary and action map agree. `TypedIsPrefix`: the
typed text is a prefix of the current line; these four with the types are
`DialogsConsistent`. `NoLineCutShort`: a narration leaves a line typed to its end or not
begun, and closes from its last line only. `FollowsScript`: the whole implements
`StoryLine`, where a story moves along its script and knows no dialogs, keys or ticks.
`TypingEnds`: a line is typed to its end without a key, except over a missing image:
then every tick throws before it draws the narration (`StaticImage.cs:92`, the order of
the layers is `Story.cs:102-105`), which stays empty and, since it counts as being typed,
takes no key until the image is another (`StuckOverMissing`). A `set image nothing` is no
help: it fades out by drawing the last name. `InControl`: the handlers are
attached once from the first map on, except after a change that was refused.

### StoryPlay: the game as it is played

`StoryPlay` extends both modules above and adds `chr`, the character of the scene. Its
constants are `UseOf`, the script of each object, and `Hasty`, the instructions that a
script can reach before its first narration.

| Action | Code |
|---|---|
| `Act` | a method of a script (`Execute`), with what `ChangeCharacter` does to the map and the scene |
| `Draw` | one tick of the scene: the map, then the dialogs |
| `Press` | a key of the window: the topmost dialog, else `InteractWithObjectAhead`, which looks one cell ahead of the camera |
| `Steer` | a polled direction key: `PlayScene.Move` if no dialog is open; without a character it throws after its first assignment and `DXKeyboard.Poll` catches it |

A walk goes on while a dialog is open, and nothing in the code keeps a script from
setting the character in the middle of a walk: it would be put on the goal cell, so that
it stood on two, and the next key would move the second of them. That this does not
happen is `InPlay`: `InControl`, and while there is a character all of `WalkConsistent`.
The reason is only timing. The player starts a script with Enter during a walk; the
script can set the character after a narration at the earliest; the narration takes keys
when its box has opened and its first letters are typed; and the box takes more ticks to
open than are left of the walk. Two assumptions say so. `OutlastsAssumption`: a box that
starts 65 wide and grows by a fifth of its full width each tick is not full after all
the ticks of a walk but one (`65 + (Steps - 1) * (w0 \div 5) < w0`, in the program
509 < 740). `HastyAssumption`: no script sets the character before it has said
something. The second is a convention of the shipped scripts and not enforced: with a
menu before it instead (a menu takes keys at once), `set object` in the middle of a
walk is reached, and `InPlay` fails.

There is one map and one character; a script may make and set them any number of times,
and a name that is not known is refused.

### Fade: background and overlay

State, for the two layers 1 (`staticImage`) and 2 (`staticOverlay`), in the order they
are drawn: `visible`, `lastimage`, and what the draw function has captured: `image`, the
opacity `t` and its step `dt`. 0.1f is 13421773 * 2^-27, so opacities are integers in
units of 2^-27, and `RoundSingle` rounds a sum to the 24 bits of a single. Nothing
assigns the property `Transition`, so its other value is left out.

| Action / operator | Code |
|---|---|
| `SetNothing`, `SetImage` | the setter `StaticImage.Image`, called by `Story.SetImage` and `SetOverlay` |
| `Tick` (`Drawn`, `Stepped`, `Blocked`) | the draw function of every visible layer; an image that was not loaded throws out of the tick, so its layer and those above it are not drawn |

Properties. `OpacityInRange`: the opacity leaves [0, 1] by a rounding error only, though
nothing clips the sum. `DrawsLastImage`: a visible layer draws the image set last, also
while it fades out, when that image comes from another field; with the types,
`LayersConsistent`. `FadeSettles`: a fade comes to its end unless it is restarted for
ever or a missing image blocks it. What that image does to the dialogs above is part of
`ScriptRuntime`.

### ScriptText, ScriptReader and ScriptCompiler: from file to methods

A script is a sequence of lines, of which the keyword and one name are kept; a text is
known by its line. `ScriptText` reads it as its author does: the depth of a line is the
number of "for" less the number of "end" before it, and from that follow the block a
line is in (`Opener`), the line that follows an instruction (`Follows`), and which
scripts are `WellFormed`. None of this is in the code, which reads line by line:

| Definition | Code |
|---|---|
| `Next` | one `GetNextInstruction` and what is done with the line until the next one |
| `stack` | the calls in progress: `ForeachInstruction` at its first or a later instruction, the two consumers |
| `Added`, `Left`, `ShouldStop` | `ForeachInstruction` for the script and for a block |
| `ConsumeSay`, `ConsumeMenu`, `PutBack` | the consumers, which put back the line read too far |
| `Throw`, `Throws` | the dereferences of null at the end of the file, lines that cannot be read |
| `Methods`, `NameInstruction`, `Calls`, `Main` | the emitted methods with the names they have and call |
| `CompileThrows`, `Compiles` | unknown labels; names that are not unique or not there |

Properties. `NothingLost`: each line read is in exactly one place, in order.
`BlocksAsWritten`: each instruction of a well-formed script is in the block it was
written in. `ObjectScriptEnds`: an object's script ends at its blank line and nothing of
the next object is read. Together: `ReadAsWritten`. `SupportedCompiles`: scripts within
the limits named in `Supported` are read and compile; the limits are what checking the
property taught: no menu in a menu (their blocks may get the same names), no menu at the
very end (a titled one dereferences null, any other returns to a method that is not
there), gotos only backwards. `FlowAsWritten`: in whatever compiles, menus in menus too,
the methods call each other in the order the text says. `ReadingEnds`: any file is read
to its end or refused.

`ScriptRuntime` starts from such a graph: `Calls` and `GoesOn` of `ScriptCompiler` are
its `Code[p].next`.

### LuaTable: tables

A table is a record of the array part, the nodes with `next` as a place, `lastfree` and
whether the node part is the shared dummy; keys are hashed by a constant function, so
that every collision can be had. Actions: `Assign` (`luaH_set`, `newkey`, `rehash` with
`computesizes`, `numusearray`, `numusehash` and `resize`), `SetList`'s preset size, the
collector clearing an entry or killing its key, and a walk with `luaH_next`.

`Chains`: every key is found from its main position, and a chain begins there (Brent's
invariant). `Rebuilds`: a rebuild has room for the key that asked for it, and its array
is more than half full, and the largest such. `Answers`: `luaH_getn` answers a border,
`next` finds the key it is handed though it was cleared or killed. `IsMap`: the table
implements `LuaMap`, a function with a walk that hands out each lasting key once.

### LuaGC: the collector

The heap is objects with one or two fields each, enough for every kind of edge: a table
(key, value, mode), a udata (environment), a closure and its upvalue, a thread with a
stack, a string. The program's actions are those that store, load, create, close an
upvalue, find a string or set a metatable, each with the barrier its C function has; the
collector's are the phases of `singlestep`, `luaC_fullgc`, `GCTM` and `lua_close`. The
lists through `gclist` are sets, since their order is not relied on; the sweep takes one
object at a time. A thread refers to its stack and to the coroutine it has resumed
(`Resumed`): in the code that one is the argument of coroutine.resume, in the frame that
waits for it. The model first left this out, and two coroutines did not show it; the
proof of `NoDangling` failed on a chain of three, where only the first and the last would
be roots. The third world with upvalues has such a chain since. `NoDangling`, `Marking` (the tri-colour invariant of black and white,
one list to an object, no barrier in a phase that asserts it away), `NothingTaken`,
`GoneFromValues` and `FinalizedFirst` are explained at their definitions. `GarbageFreed`:
what the program cannot reach does not stay so for ever, it is freed or comes back (a
string that is written again). Strings that a weak table in reach holds are not `Garbage`:
they "behave as values, so are never removed" (`lgc.c:331`) and live as long as their
entry. `NothingTaken` excepts the moment at which the program can reach a udata
that still waits for its finalizer: it is black from the cycle before, so what only it
refers to is marked after the udata without a mark were collected, and a udata among
that is taken from weak tables as if it were lost (lgc.c:534-541); the proof taught this
too. Two of them end where lua_close begins (see Findings), and `FinalizedFirst`
excepts udata that are made by the finalizers that lua_close calls: it separates the
udata to finalize once (`lstate.c:203`).

### LuaCode, LuaParser, LuaVM, LuaVerify, LuaChunk: from a program to its result

`LuaCode` is lcode.c: each function a function from function state and expression to the
same. Jump lists are sets of the places whose jumps they chain. `LuaParser` is lparser.c
on a sequence of tokens, one operator to a production. `LuaVM` is a state machine:
`VMNext` fetches an instruction or performs the call, return or error the last one asked
for; where the C code calls luaV_execute again (a metamethod), the frame remembers what
follows. `LuaVerify` is luaG_checkcode, `LuaChunk` the dump and its reader, over a
stream of bytes, counts and strings.

`LuaRef` has nothing of the code: it is the meaning of a program as a recursion over its
tree with one cell for each variable. `ResultAsWritten` says that compiling and running
gives that meaning, results and errors, whatever was shared between closures on the way;
`AssertionsHold` that the `lua_assert`s of the parser and the generator that are modelled,
each as a `Check`, and those of the machine before each instruction (`VMAsserts`) hold;
`Verified` that the compiler's code passes the verifier; `DumpsBack` that a dumped chunk
is read back, whole or stripped, and refused when cut between any two blocks that are
read at once. LuaVM's numbers are small integers and its stack does not grow.

Some assertions hold by the form of the model and are not in it: the name of an upvalue
(`lparser.c:189`), the number of variables after removevars (`lparser.c:304`), that the
function of a frame is a Lua function with the base the machine holds (`lvm.c:379`, `399`,
`645`). Those on single instructions (`lvm.c:607`, `646`, `731`) are left to `Verified`
where luaG_checkcode has them, else left out. Of the compiler, division (which is
generated like the other operators, and not folded by 0), the limits on sizes and the size hints of
NEWTABLE are left out.

The operands of `and` and `or` leave out the constant `false`: luaK_goiftrue makes a
jump of it and forgets its value, so that `((nil and nil) or false) and true` is nil and
not false.

### LuaCalls: calls, errors, coroutines

The state is the C stack, as the sequence of activations of `luaD_call`, `luaV_execute`,
`luaD_pcall`, `lua_resume` and the error handler, each for a thread, and for each thread
what `lua_State` holds of it. A Lua function does any of the operations of its program
set next, so that every order of calls, tail calls, errors, handlers, yields and resumes
occurs up to the limits. A throw drops the activations up to the protecting one and
restores what that one saved, as `longjmp` and `luaD_pcall` do. `Accounts`: `nCcalls`
and `baseCcalls` agree with the C stack, every Lua frame has the luaV_execute that will
return from it, and a suspended coroutine holds Lua frames only. `Bounded`: the C stack
and the CallInfo array stay within their limits and the spare that error handling gets.
`IsCoroutines`: what coroutine.status tells is a behaviour of `LuaCoroutines`, where one
thread runs and control passes by resume, yield and end. A coroutine that was never
started and is resumed at the limit of C calls dies without having run (`Lose`), as in
the code.

### The library: LuaSort, LuaPattern, LuaGsub, LuaRefs, LuaBuffer, LuaLex

`LuaSort` is auxsort with its recursion as a stack of segments; one step is one
comparison. The program's comparison may answer anything. `Sorts`: with an order, the
array is sorted, nothing is lost and "invalid order function" is not raised; with any
answers no item is read but the segment's and those beside it, and every recursion is
into less than half. With contradictory answers the sort need not end (the test for an
invalid order comes after the comparison that reads beyond the segment), and it may
exchange an item with the nil behind the array; nothing is claimed of that.

`LuaPattern` is `match` with its backtracking written as recursion. `MatchesFirst`
compares it with the set of all ways in which a pattern can match, in the order the
manual gives them (greedy, lazy, first). Classes are sets of characters. `LuaGsub` are the
loops around it: find, and gmatch and gsub as steps over a subject, where what match
answers is a parameter, `Matched` (in the run it is `LuaPattern`'s `MatchAt`).
`Substitutes` says that the matches of gmatch do not overlap, with an empty one at each
place at most, and that gsub keeps or replaces every place of the subject once and replaces
just what gmatch lists. The replacement is one that uses every capture, so that a capture
left open is an error (`Raises`); a replacement string without `%1` would not push it.

`LuaRefs` are luaL_ref and luaL_unref with the free list inside the table; `LuaBuffer`
is luaL_Buffer with the levels on the Lua stack. `RefsKept` and `Buffered` are explained
there.

`LuaLex` reads tokens from a stream that comes in pieces and has the writer of `%q` beside
it. A step is one turn of a loop of the lexer: `pc` says which loop (llex's own, the digits,
letters and points of a numeral, a name, skip_sep, the body of a long string or comment, a
string, the digits of an escape, the rest of a line), and what the C code keeps in
parameters and locals, the delimiter, the level of a bracket, a count and a code, are
fields. The place in the text stands for the reader's pieces and their count of unread
characters. `ReadsBack` holds between any two steps, also after an error.

## 4. Runs

| Run | Shows | Bounds |
|---|---|---|
| `tile_scroll` | all properties of the map: safety, the refinement, the literal scan, and that every walk ends | 4x4 map, 3x2 view, 2 steps to a tile, one other object anywhere, at most one blocking floor anywhere |
| `story_tale` | the game: dialogs, scripts and walk together; the refinement of the story, and that typing ends unless an image below is missing | 3x3 map, 2x2 view, 4 steps to a tile as shipped, a box and a door with scripts, one wall; 24 methods: a menu of three branches, narrations of one to three lines (one of them empty), a cycle of the story, make and set of map and character, one refused map, an image that is loaded and one that is not, before and behind a menu, `exitgame`, two objects' scripts with menus; the dialogs' shipped size |
| `script_doonce` | a counterexample, see below | the shipped shapes: an object's script that ends with a say |
| `fade` | safety of both layers, and that fades settle | two layers, three images of which one is missing; opacities are exact |
| `fade_hides` | a counterexample, see below | the same |
| `compiler_scripts` | reading, compiling and the flow of the result | all scripts of up to 4 lines over 12 different lines, right or wrong, and some 1,900 longer ones around a menu of two choices with every kind of block |
| `lua_table` | tables and their walks | integer keys 1, 2 and 4, one key hashed modulo a power of two that the collector may kill, one hashed otherwise; one value; preset arrays of up to one item |
| `lua_gc` | the collector against the program | eight worlds: two tables; a table and a shared string; a weak table and a udata with a finalizer; a weak table and a string; a udata with its environment; a closure and its upvalue with a second coroutine; the same in a chain of three coroutines; two udata at lua_close. One cell each, two stack slots |
| `lua_gc_closing` | a counterexample, see below | the world of lua_close |
| `lua_compile` | programs from text to result | families of programs: `and`/`or`/`not`/comparisons nested three deep in every use; two operators over variables or constants; two targets assigned from up to three values; closures in each kind of loop left by break, return, condition or end; nil and varargs; calls of every form in every place; one metamethod on each operation; errors, pcall and xpcall. The limits of the code are lowered: 2 constants for an operand, 2 items a SETLIST |
| `lua_calls` | calls, errors, coroutines | two coroutines, six sets of what a function may do, CallInfo arrays of 2 to 5 (and twice that in an error), 4 calls through C and one spare |
| `lua_lib` | the library and the lexer | arrays of up to 6 items over 3 keys, 5 with arbitrary answers; subjects of up to 3 of two characters against all patterns of three parts and longer ones around captures; 4 references; buffers of 2 characters, 3 levels, 8 characters; strings of 3 to quote, programs of two tokens, any texts of 4 characters, in pieces of 1, 2 or all |

Why the bounds are enough. On one axis the setters distinguish a camera whose corner is
before, at, inside, at the far end of or past the map; 4 cells against views of 3 and 2
reach all of them from both directions, with both roundings of `view / 2`. Two steps to
a tile separate "started", "half way" and "arrived". One wall and one object anywhere
reach every combination the passability test distinguishes, since a step looks at one
cell. The scripts hold every kind of instruction and every order in which one dialog
follows another: narration to narration, to menu and to nothing, and menu to narration,
to menu and to exit. The dialog box and the tile have their shipped sizes, on which it
depends who is first, the walk or the narration; on 3x3 cells every key of a walk can be
pressed in front of the box, at the door and at a wall, and the scripts of both set the
map or the character while the walk lasts or after it. Fades need no bound, since a
fade passes few values. Short scripts of any lines reach every exception of the reader
and every pair of a consumer and the line that ends it; the longer ones have menus in
menus, gotos into and out of blocks, empty blocks, and each way in which a script can go
on after a menu or end with it, for the main script and for an object's.

Five keys and a node part of up to 8 places have every collision (free main position,
taken by its own, taken by a foreigner), and growth from array to nodes and back. In the
collector every barrier needs a black object, a white one and a root besides; the worlds
give each kind of edge both ends and a third object to hide behind, and what cannot
interact (a string has no references) is not put in one world. A test of three operands
has every combination of a jump list that is joined, negated and patched; RK operands,
SETLIST flushes and calls to the last register meet their limits because the limits are
low. Two coroutines and the main thread are enough for a chain of resumes with a middle;
six patterns of operations keep the product of stacks finite in reach of the limits.
Arrays of 6 have partitions with every position of the pivot and a recursion into a
recursion; patterns of three parts have every pair of neighbours with something behind
them to fail. The proofs lift the safety results of the game, of the reader and of most of
the parts of Lua (section 5) from these instances to all.

Walls and places of objects are the parameters of `MCTileMap!MCInit`, a subset of `Init`
that leaves out maps which differ only by more walls; `MCStoryPlay!MCPlayInit` has one
placing.

`MCLuaGC!MCNext` restricts `Next` in each world, beside the objects that may be made:
lua_close is called in that of two udata only, modes and keys of tables are set in the two
with a weak table, and a full collection in mid-cycle is made in that of a shared string. The
first slot of a stack never holds the registry, the main thread or, on the main thread, the
coroutine `co`, the second only what `Second` names. In the worlds with a weak table the
registry holds nothing, the table stands in the second slot only and its entry is one of
those listed, and the udata does not have it for environment; with two tables, a udata and
its environment, or upvalues the registry holds only `t1`, `u1` or `c1`, and the environment
is empty. In the worlds with upvalues the first slots hold the closure or nothing (`co`
itself may hold `co` in the smaller one) and the upvalue is open at the places named;
with three coroutines only a chain in the order main, `co`, `co2` runs, the first slot of
`co` is empty, the upvalue does not hold the closure and the white is flipped while `co2`
runs. The theorems about `LuaGC` are about `Next` itself. `CHECK_DEADLOCK FALSE` is set where the
system ends: scripts (`exitgame`), the compiler, lua_close, and the library's calls.

Fairness: `WF(DrawMap)`, `WF(Draw)` and `WF(Tick)` (also of `Fade`), since the scene's timer runs as
long as the window is open (`Scene.cs:38`; `Stop` is called only when the scene is
replaced, which the game never does), and `WF(Execute)`, `WF(Act)` and the reader's `WF(Next)`,
since a called method runs to its end. No fairness is assumed of keys or of the commands
of scripts. For `GarbageFreed` the collector takes infinitely many steps: every
allocation beyond the threshold calls `luaC_step` (`luaC_checkGC`), and a program that
allocates no more needs no memory freed. An image that is missing takes nothing of the
fairness of `Tick`: the timer goes on, the tick ends in its exception.

### Findings

* `script_doonce`: `Dialog.Close` does not clear `doOnceOnClose` (the line that would is
  commented out, `Dialog.cs:180`), against its name. A say that ends its script sets no
  callback, so closing it runs the callback of an earlier say.
  `res/maps/firstmap/objects.list` has such says.
* `fade_hides`: `StaticImage` hides a layer when its opacity is 0
  (`StaticImage.cs:104`). Ten steps of -0.1f from 1 pass 0 and end below it, so a layer
  that has faded out stays visible, and the next `set image nothing` shows the old image
  in full once more.
* `lua_gc_closing`: lua_close does not finish the cycle it interrupts. A finalizer it
  calls turns its udata white (`lgc.c:457`) while black objects refer to it and marking
  goes on, which the barriers exist to prevent (`lgc.c:667-669`).

Other places where the code and its comments differ were met while modelling and have no
run: a blank line or comment in a script becomes an empty method at which the script
stops (`Script.cs:300`, against `Script.cs:15`), which hides the say after `loadgame:`
in `res/main.script`; the `end` of an empty for-block does not end it (`Script.cs:137`,
against `Script.cs:30`); lua_close calls no finalizer of a udata that a finalizer made
(`lstate.c:203`, against `lstate.c:195`); a udata that waits for its finalizer is black
in the finalize phase, where a barrier asserts that none fires (`lgc.c:665`). The
properties above except these cases where they say so.

## 5. Proofs

`TileMapProofs` proves, for every size of map, view (at least 2x2) and tile and every
set of objects, that `Spec` implies `[]TypeOK`, `[]CameraLeads`, `[]Lockstep`,
`[]ViewCentred`, `[]PlayerOnScreen` (together `[]WalkConsistent`, which the run checks),
`NpcsUndisturbed`, `NoJump`, `ScanAgrees` and the refinement `IsGridWalk`. None of them is inductive alone: `Lockstep` needs
`CameraLeads` (the walk that runs with the scroll) and `ViewCentred` (when the setter
cancels the scroll), and `CameraLeads` needs `Lockstep` (with an offset left over the
setter would not move the camera that the walk follows) and `ViewCentred` (the walking
player must be among the cells drawn). The inductive invariant `IInv` is their
conjunction with `NpcsStand`. The argument: a walk can start only at rest
(`CanWalkFacts`), where the setters take none of their early returns
(`StartScrollFacts`) and compute the centred corner (`CornerFacts`); the player is
always among the cells drawn (`PlayerDrawn`), nobody else advances (`AdvancingFacts`),
and the grid changes by the player's move only (`LevelFacts`). `PlayerOnScreen` needs one
thing more, `CornerKept`: under a player who walks while the map stands still, the
corner of the view is also the one that belongs to the cell being left (`ScrollStopped`);
then the player is between two places that are both on the screen (`Between`). `NoJump`
follows from `IInv`: what the corner gains when a key is pressed the offset takes back
(`KeyScroll`, with `InnerFacts` away from the edges and `EdgeFacts` at them), and a tick
moves the scroll and the player one step in the same direction, or one of them
(`TickScroll`, `TickPlace`). `ScanAgreesAlways` is about the loops: a visit of a cell
with nobody walking in it changes nothing (`VisitNobody`), so a row is what the visit of
the player makes of it (`RowScanned`), if the player is in it, and all rows together
(`ScanIs`) are the one update of `DrawCharacters`; a player who arrives in a cell still
to be scanned stands there and is not moved again.

`StoryPlayProofs` proves of `ScriptRuntime`, for all scripts, `[]ScriptTypeOK`, `[]OneDialog`,
`[]MenuSelectable` and `[]TypedIsPrefix` through the invariant `RInv`, which says in
addition that the menu on the screen is the one of the instruction that opened it, that
the index stays below the number of distinct texts, and that the prefix property also
holds of a closed narration. With the hypothesis `EverySayContinues` it proves
`[]ScreenIsShown`, so `[]DialogsConsistent`, and the refinement `FollowsScript`. The
hypothesis is not an idle one: the shipped object scripts do not satisfy it, and
`script_doonce` shows what happens then. `[]InControl` is inductive by itself. `[]StuckOverMissing` rests on `OneDialog`: an image
is set only while no narration is open, and a say begins with nothing typed.
`NoLineIsCutShort` states `NoLineCutShort` under the hypothesis `LastLineApart`: the
narration takes a typed text for its end by comparing it with the last line alone, so of
"Not now" followed by "No" it would show "No" and close at the next key (no last line of the shipped narrations begins an
earlier one).
The invariant is `LineInv`: a complete narration stands on its last line
(`LastLineTyped`, from `TypedIsPrefix` and the hypothesis), and one that waits for a key
has its line typed or not begun.

The same module proves of the composition that it behaves as `ScriptRuntime`
(`PlayIsScript`), so all of the above holds of it, and `[]InPlay`. The invariant has
three parts: `RInv`; `Where`, which is `IInv` and `CornerKept` once there is a character;
and `Overtaken`, the argument on timing: while the player walks, a script is still among
the hasty instructions, a menu leads to such only, and an open narration is still
growing, its box no wider than 65 and a fifth of `w0` for each step walked. Each tick
adds one to both counts (`WalkTick`, `StillOpening`), so with `OutlastsAssumption` the
walk is over before the box is full and a key can close it; a set of the character then
finds the player at rest (`StandsWhenSet`), where it changes nothing (`SameCharacter`) or
starts everything (`FirstCharacter`).

`ScriptProofs` proves `[]ReadAsWritten` for every file of any length. The invariant
has two halves. The first holds of any file: each line has one place (`Assigned`: not
read yet, open as the line that a loop or a consumer was called for, in a list, taken
over by a say or a menu, the head of a block, or nowhere if it ended something), loops
and consumers are nested in the order of the lines they were called for (`Nested`), and
what each has comes before the call above it (`Ordered`); a step moves one line from one
place to another, and at the end nothing is open, which is `NothingLost`. The second half
is about files whose text is well formed, and ties the reader's stack, which is made by
counting choices and looking one line ahead, to the author's blocks, which are found by
counting "for" and "end" from the start of the file: the next line is as deep as the
innermost loop reads (`Levels`), what may come next is what the text allows there
(`Expected`), and the blocks of an open menu are different ones of those that answer it
(`OpenMenu`). A menu has as many lines as blocks it may read, and a well-formed text has
no more blocks for it than choices, so a menu is not given another's block (`NoMore`),
and an "end" closes the block that the text says (`Closes`). From this `BlocksAsWritten`
and `ObjectScriptEnds` follow (`InBlock`, `EndsThere`).

Of the compiler it proves `[]SupportedCompiles` and `[]FlowAsWritten`, for scripts and
nestings of any size. `ReadAsWritten` says too little for that: it says where a line is
and not how deep, nor what the lines of a menu are. `CompilerInv` adds what the reader
keeps besides (`Prepared`): an instruction in a list is at the depth of its block with
nothing less deep before it (`Sound`), the lines that a say or a menu takes over are a run
(`Parts`) and begin with its own (`Lined`), a block answers its menu and the menu is in a
list or open (`Heads`), every other instruction is in a list (`Plains`), choices come in
pairs (`Paired`). A script that was read with all of this is `Ready`, and the rest is about
its lists only.
Names: an index, and in a block the menu's index and the block's number
(`NameIs`). They differ if all menus with blocks are in the script's list
(`Flat`, `NamesDiffer`), as in a supported script they are. There the last of some
labels in a row has a next instruction (`AfterLabel`), so a goto finds one that is
registered (`RegisteredIs`), and a block that ends has where to return to (`ReturnIs`). Flow: where
the text goes on is the first line behind that is not deeper than any line passed
(`Later`). For an instruction with another behind it in its list that is the other one
(`FollowsNext`), since nothing but blocks and their ends is at a menu's depth between it
and its blocks (`Between`, by induction along the blocks). For the last of a block
it is what follows the block (`FollowsLast`), and that is what the return leads
to (`ReturnsLead`), by induction over the depth: a return goes to the menu's next
instruction or to the return of the menu's own block (`AfterNext`, `AfterLast`). That
there always is one is no matter of the text: a block that has nothing to return to calls
a method that is not there, and the script would not compile.

`FadeProofs` proves `[]TypeOK`, `[]OpacityInRange` and `[]DrawsLastImage`, together
`[]LayersConsistent`, for all sets of images. The invariant `FInv` lists the values that
a fade passes (`Ins`, `Outs`), and two lemmas say that a rounded step stays on the list;
the range of the opacity is not inductive without it, since a step from any other number
near 1 could leave it.

`LuaLibProofs` proves `[]RefsKept` for any number of references. `RefsKept` does not
say that following the numbers from t[0] meets every free place once and ends in nil;
without it a reference taken off the list might be one that somebody holds. The
invariant `IInv` says it by naming the list: a function f from 1..m onto the free
places, one to one, each place holding the next and t[0] the last. luaL_unref extends f
by one, luaL_ref cuts it or, when it is empty, knows that the table has no hole, so that
its length, which may be any border, is the only one (`OneBorder`).

It also proves `[]Sorts` for arrays of every length and any integer keys. The
comment in auxsort's loop (`a[l..i] <= P <= a[j..u]`, ltablib.c:223) is the heart of the
invariant `Inv` but says nothing of what lies outside the segment. `Order` does: two
items that are not yet in order are within one segment, the one sorted now or one left
to a caller, and the segments do not overlap. So an exchange within the segment
disturbs nothing else (`Outside`, `SwapOrder`), a partition may be sorted as two
segments (`HalvesOrder`), and when no segment is left there is nothing out of order.
`Frame` holds whatever the comparison answers: every segment lies in the array, and the
one sorted now has less than half of the one that called for it (`HalvesFrame`,
`EndFrame`), which bounds the C stack. `Up` and `Down` also say where the pivot stops
each search; without an order only the raised error does, one place outside.

And it proves that a buffer gives back what was added, `Buffered`, for every size of the
array in the C stack and every limit of strings on the Lua stack. What `Buffered` lacks
to be inductive are types, for the hard part is `FlattenSeq`: that it is a
string at all, that a string appended comes behind the others (`FlattenAppend`), and that
the strings may be joined in two parts (`FlattenSplit`), which is what adjuststack does;
each is an induction over the strings. adjuststack's loop ends (`ToGetIs`), at a place
which leaves less than the limit.

And it proves `[]Substitutes` for every subject and pattern, whatever match makes of
them. That gsub finds what gmatch lists is true though each goes its own way: gmatch
looks from where its last match ended, gsub tries every place it comes to. Neither list
says so; `FoundInv` says of each match of gmatch that it is the first from the end of the
one before it (one place further, if that was empty), and `MadeInv` that the matches gsub
has made are the first n of them and that there is none between the last and where gsub
stands (`NoHits`). So where gsub finds a match it is the next one (`NextFound`), where it
ends there is none left (`NoneLeft`), and it cannot run out of its n before (`FoundFew`).
The pieces follow one another from the first place (`Follows`, `Ordered`).

And it proves `[]ReadsBack` for strings and texts over any characters in pieces of any
size. The half about lines and the stream is inductive once it says where the lexer
stands (`Fits`): the current character is the one before the next (`Streams`), and where it
is a break, a break begins there (`Lined`), so that the second of a pair is never met
alone, not even between two pieces. inclinenumber keeps this (`IncFits`), and everything
else of a plain character or without reading (`ReadGoes`, `StillGoes`). The other half is
the way of the lexer through what %q wrote (`Reading`): it is at the opening quote, behind
k characters with just these saved, within the three digits of a NUL, or at the end with
the one token. Where the part of a character stands in the text is an induction over
`FlattenSeq` (`PartAt`); no part begins with a break, which is why an escaped break is
never read together with what follows it (`BreakTaken`). That the pairs of tokens of the
run are read as they were written is left to TLC, and so is what the lexer makes of other
texts.

`LuaGCProofs` proves, for every finite heap, any stacks, any coroutines and any
interleaving of the program with the collector's steps, `[]NoDangling`, `[]Marking`,
`NothingTaken`, `GoneFromValues` and `FinalizedFirst`. `NoDangling` is far from
inductive: that an object about to be freed is out of reach was decided by the colours,
many steps before. The invariant `IInv` speaks of `Live`, the objects that are not dead
by their colour, and never of reachability. `Stays(Live)`: what is live refers to nothing
dead. `RootsLive`: neither are the roots and the udata to be finalized. `ToSweep`: what is
not of the current white is still ahead of the sweep. `Lists`: while marking, the books of
the three lists (`Books`) and the tri-colour invariant (`Tri`). `Made` and `Fresh`: what
exists is complete, what is made is empty.

The heart is `atomic`, which turns reachability into colour at once. `Done(m, P)` says
that what is marked and neither listed nor in P has passed its mark on. Each of the four
rounds of marking in it makes this true of fewer exceptions: with the open upvalues
remarked (`AtomicOne`), with the weak tables and the running thread (`AtomicTwo`), with
what was written to since (`AtomicThree`), and with the udata to be finalized
(`AtomicFour`), when nothing is excepted any more. That the chain of coroutines is marked
follows from its first (`RootsFollow`). So the marked objects are closed under
references, strong ones and, once cleartable is through, weak ones, and after the flip of
the white the others are dead (`AtomicKeeps`). All other steps keep the invariant because
the colours say enough: a load brings up what is live (`InReachLive`), a new object has
the current white (`GrowStep`), a string or upvalue found dead is made so (`NewString`,
`NewClosure`), a store into a black object meets its barrier (`WriteStep`, `BarrierStep`).
That live objects include those in reach is then an instance of what reachability means
(`ReachLeast`, `ReachLive`). `GoneFirst` looks at how a weak table came through the four
rounds (last clause of `AtomicFour`). `CalledBeforeFreed` holds in lua_close too, where
`IInv` does not; its invariant `FInv` has only that marking turns nothing white (`Pales`)
and the finalizers' books.

`propagateall` and `Reach` are recursive functions. Their values are obtained by
induction in the form of sets: a set of numbers with 0 and all successors has all numbers
(`NatSetInduction`, from the library's theorem on minima), so the functions exist
(`StepsExist`, `GrowExists`), and the marking ends since with each step less is left to do
(`PropagateOneKeeps`).

`LuaTableProofs` proves, for any set of keys, any hash function, arrays and hash parts of
any size, `[]Chains`, `[]Rebuilds`, `[]Answers` and the refinement `IsMap`. `Chains`
speaks of entries with a value and is not inductive: a key without one may get one again,
a dead key keeps its place in its chain, and a walk may stand at either. The invariant
`IInv` speaks of every place that was ever taken (`Taken`). `Links`: links lead to taken
places, at most one to each, and no set of places is closed against leaving it
(`Acyclic`), so that a chain meets no place twice and ends in as many steps as there are
places (`ChainEnds`). `Mains`: a place is in every set that has its main position and what
follows (`Leads`), and a taken main position belongs to itself. `Keys`: no hash key
belongs in the array and a live key is in one place only. `Room`: what is not below
`lastfree` is taken, so that getfreepos, which never looks back, has missed nothing.
`Ahead`: a key that was killed may be assigned again and then stands in its chain twice;
the live entry comes first, since newkey links it in directly after the main position, and
that is why findindex, which takes dead keys too, stops at the right one. `Walked`: what a
walk has handed out is not ahead of it, what is due is.

The heart of the structure is `newkey`: the main position without a value is taken over
(`NewKeyAtHome`), a free place is linked in behind it (`NewKeyBehind`), or the entry that
stands there is moved to the free place and its predecessor linked to that
(`NewKeyMoves`); whatever main position is followed, the places met stay the same but for
the new one. resize is followed as the sequence of its insertions (`Sets`), of which
each finds room because those with a value fit the new parts; that they do is a count:
`numusearray` and `numusehash` count what there is, `computesizes` finds the largest dense
size (`ComputeSizesIs`) and says how many go to the array. For the refinement, an
assignment without room does to the map what one with room does (`Assigned`), and `next`
counts upwards through the places (`FindIndexIs`), which no assignment to an existing key
and no collection moves (`SameShape`). luaH_getn's two searches are recursive functions on
pairs of numbers; they exist because a measure goes down (`LoopExists`), for the doubling
because a table has a last integer key (`IntsBounded`), and binary search keeps a key with
a value on its left and one without on its right (`BetweenIs`).

`LuaCallsProofs` proves, for any coroutines, any programs and any limits, `[]Accounts`,
`[]Bounded` and the refinement `IsCoroutines`. `Accounts` compares counters and frames
with the C stack at one moment and is not inductive: what a throw, a return or a yield
leaves depends on what was saved further down. The invariant `Fits` says that there is a
number of frames `lv[i]` with which each activation was called, and relates to it all that
the code saves and counts (`Good`). `Stacked`: the host's call is undermost, an activation
calls only what the code calls from there (`Nested`), and a thread lies in one piece on
the C stack. `Levels`: the frames from `lv[i]` up to `Top` are the Lua functions of
activation i, if it is a luaV_execute, and those above are of C, up to where the next
activation begins. `Saved`: what luaD_pcall will restore is what there was when it was
called. `Counted`: a thread's `nCcalls` is the number of calls and resumes below its
innermost activation, those of other threads too, and `baseCcalls` that number at its
resume. `Awake`, `Rests`: a thread on the C stack runs or has just yielded, and one that is
not there is fresh, dead, or suspended in Lua functions. `Limits`: an error is under way
only where something was called, at a depth that its kind allows.

A step changes the innermost thread and, at most, the last activation, or it cuts the C
stack. Five lemmas carry `Good` over such a change: something is called (`PushKeeps`), the
calls above return or are thrown away (`CutKeeps`), a coroutine is resumed
(`ResumeKeeps`), left (`LeaveKeeps`) or yields (`YieldKeeps`). The operators which the
actions are built from each have a lemma (`GrowHolds`, `PCallHolds`, `ThrowHolds`, ...),
and each action one (`CallCFares`, `FailFares`, ...), which says that the states fit and
that what a program sees of the coroutines takes one step of `LuaCoroutines` or none
(`MayTurn` of the two `View`s). `Accounts` and the refinement follow from `Fits`: the C
stack is cut where a thread begins (`DepthSplit`) and the frames of a thread are counted
activation by activation (`FramesUpTo`).

`LuaLibProofs` proves of the abstraction itself that one thread runs at any time and that
whoever runs has a waiting thread of its own to go back to (`[]OneRuns`, for any set of
threads).

The assumptions are those on the constants (`SizeAssumption` ... in `TileMap`,
`PcAssumption` ... in `ScriptRuntime`, `UseAssumption`, `HastyAssumption` and
`OutlastsAssumption` in `StoryPlay`, `NameAssumption` in `Fade`, `MaxRefAssumption` in
`LuaRefs`, `SortAssumption` in `LuaSort`, `BufferAssumption` in `LuaBuffer`, which says
that the array has room and the limit is above one (lauxlib.c has 10), `MatchAssumption` in
`LuaGsub`, which says that a match ends where it begins or behind that, `ObjAssumption` and `KindAssumption` in `LuaGC`,
which say that an object is of one kind and that memory is finite, `KeysAssumption` in
`LuaTable`, which says that other keys are not numbers, that nil is no key and no value and
that NULL is no place, `CallsAssumption` in `LuaCalls`, which says that the main thread is no
coroutine, that an array of CallInfos has room for the host's call and begins within
its limit, and which functions a program may call, `ScriptAssumption` in `ScriptReader`,
which says that a file is a sequence of lines); `MenuAssumption` says that a menu has a
choice and a for-block for each.

Model-checked only: all of Lua but the tables, the collector, the calls and coroutines, the
references, the buffers, the sort, gmatch and gsub and the lexer, and the
liveness properties `WalkCompletes`, `TypingEnds` (but for `StuckOverMissing`), `FadeSettles`, `ReadingEnds` and
`GarbageFreed`, which are out of the prover's reach. Lua's parser, machine and matcher
are written with recursive operators, of which it proves nothing.

## 6. Not modelled

Of the game: painting, fonts and images; mouse events (no layer of the game listens to
them); start-up loading; the recognition of keywords by their first letters and the
quoting of texts in emitted code; more than one map or character in one story; the
polling of the keyboard itself (`DXKeyboard`, `GameControl`: any direction may come at
any moment; the codes of keys held together are combined with `|=`, though they are no
flags, so that Up with Left is Right, but what comes out is again one direction or
none); and the editor. The shipped data has a case of a missing image (`res/maps/firstmap/objects.list`
names `hinagiku2.png`), which is `Blocked` in `Fade` and `missing` in
`ScriptRuntime`; `FadeSettles` and `TypingEnds` name it as their exception.

Of Lua: the C library behind `io`, `os`, `math` and `package`, the command lines of
`lua` and `luac`, and the printing of code; hooks and the debug library; memory errors;
the pacing of the collector and the shrinking of stacks and buffers; numbers as floating
point; string.format but for `%q`; the messages of errors. The game builds Lua beside
itself and declares two of its functions, which nothing calls.

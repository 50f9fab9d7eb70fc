# TLA+ models of Ruzta

Ruzta is the GDScript implementation of Godot, carried over to a GDExtension
(`src/`, C++). This directory holds TLA+ modules of two kinds. Some are of parts
whose correctness depends on order: the script cache with its recursive, cyclic
loads, coroutines, the language server, the inline cache of the virtual machine.
The others follow a script from its text to what it does: tokenizer, parser,
exported tokens, analyzer, compiler, byte code generator and virtual machine. TLC checks
them on small instances; TLAPS proves the parser registry, the script loader on any
number of threads (that full scripts are ready, on one), the coroutines and the language server for any number of scripts, states and clients,
and the virtual machine for any code that has what the machine takes for granted. Paths below are relative to
`src/src/` of the repository, except in PROJECT.json.

## 1. Inventory

| Component | State | Operations | How it interacts | What makes it correct |
|---|---|---|---|---|
| Parser registry (`ruzta_cache.cpp`) | `parser_map`, `abandoned_parser_map`, `parser_inverse_dependencies`; per `RuztaParserRef`: path, status, `abandoned`, `depended_parsers` of its parser | `get_parser`, `remove_parser`, `remove_script`, `RuztaParserRef::clear`, destructor | reference counting: tables hold plain pointers, parsers hold each other by `Ref` | an entry is a live, not abandoned reference; nothing handed out depends on a parser that was thrown away |
| Script cache and loader (`ruzta_cache.cpp`, `Ruzta::_reload`, `RuztaCompiler::compile`) | shallow, full and static scripts, `dependencies`; per script `valid`, `reloading`, source | `get_shallow_script`, `get_full_script`, `finish_compiling`, `move_script`, `remove_script`, `_reload` | call chain cache → reload → analyzer → cache; compile → `finish_compiling` → `get_full_script` of every dependency; one recursive mutex, which `_reload` does not take | recursion ends on every cycle; one object per path; a full script is ready |
| Analyzer (`ruzta_analyzer.cpp`) | base types, resolving marks, per parser; types and constants of the nodes of the tree | the stages inheritance, interface, body; `resolve_*`, `reduce_*` | asks the registry for other parsers in the middle of a stage; the compiler reads the types | cyclic inheritance is found; a stage is not re-entered; what is accepted with all types known does not fail, what would have run is not refused |
| Parser, tokenizers | token position, contexts, indentation stack | `parse`, `scan` | pure input to tree | tree matches the grammar |
| Compiler, byte code generator | stack slots, temporaries, jumps to patch, `has_static_data` | `_compile_class`, `_parse_*`, `write_*` | replaces functions a call may still run | temporaries are released, jumps patched, old lambdas mapped |
| VM and coroutines (`ruzta_vm.cpp`, `ruzta_function.cpp`) | C++ stack, `RuztaFunctionState` objects, `pending_func_states` of script and instance | `call`, `OPCODE_AWAIT`, `resume`, `_signal_callback`, `cancel_pending_functions` | engine signals call back; reload and `~RuztaInstance` cancel | no call on a destroyed stack, one continuation, no lost wake-up |
| Call stack (`ruzta.h`) | `_call_stack`, `_call_stack_size` per thread | `enter_function`, `exit_function` | called by every `call` | matches the calls that run |
| Ruzta objects (`ruzta.cpp`) | members, subclasses, dependencies, instances | `clear`, `get_must_clear_dependencies`, `set_path`, `~Ruzta` | destructors call `remove_script` | only what nobody needs is cleared |
| Life cycle | `finishing`, `cleared`, script list | `_init`, `_finish`, `RuztaCache::clear` | destructors run after the tables are gone | cycles of scripts are broken at exit |
| Lambda, rpc, utility callables | function pointer, captures, `func_ptrs_to_update` | `call`, replacement on reload | reload rewrites the pointers | a callable never calls a deleted function |
| Language server | peers with buffers and queues, open documents, parsed files | poll, `handle_data`, request handlers | sockets; editor thread | framing, one answer per request |
| `RuztaScriptServer` | global classes and their inheriters | add, remove, queries | analyzer reads it | tables agree |
| Editor support, docs, warnings, test runner, variant tables | – | text and data | – | – |

What is hard in this code: call chains that come back to a component in the
middle of an operation (cycles of scripts); objects whose lifetime is decided by
reference counts while tables hold plain pointers; a mutex that only some of the
paths take; signals that fire after what they would resume is gone; several
things done for one request where one fails. `PROJECT.json` lists each as a
hazard at its line, with the property for it or the reason there is none yet.

## 2. Modules

**`RuztaParserRegistry`** is the contract of the registry. Its variable `reg`
has one field per HashMap plus the references themselves; `pins` are the
references held by running C++ functions. Every operation may be called by
anyone at any time, which is more than the program does, and each step ends with
`Settle`: what neither a pin nor the `depended_parsers` of a survivor holds is
destroyed, and destructors erase entries as the code does. `remove_parser` is
recursive in the code; it erases a path's dependents before it visits them, so
it visits exactly the closure `Dependents`.

**`RuztaCache`** extends it with the loader. Each thread has an explicit stack of
activations (`raise` = `raise_status` or the analysis of the local parser in
`_reload`, `reload`, `finish`, `full`, `query`); one action is what the
activation on top does up to its next call. A file is the script it extends, the
scripts its body uses, and whether it has errors. `stage` is what an analysis
leaves in a parser: status, result, the text it parsed, the base class.
`get_shallow_script` runs within a step of its caller (`GetShallowScript`), for
it calls nothing that comes back. `_reload` takes the mutex several times for a moment and not in
between, so each of these is a step: the test of the `reloading` flag and its setting,
`get_cached_script` (`ReloadLook`), the store that relies on its answer (`ReloadAnnounce`),
`has_parser`, `get_parser`, the comparison of the texts, `remove_parser`. What a stage finds wrong is
kept in its activation (`err`) and becomes the result of the parser when the stage ends. The recursive mutex is not a variable: a
thread owns it while an activation that locks it is on its stack (`MayLock`).
`Spec`, the registry's specification, is a PROPERTY of its runs: every step of
the loader is a registry step or leaves the registry alone. Nothing is
substituted: `reg` is the same variable, and `pins` is set to what the
activations hold.

**`RuztaFunctionState`** is the C++ stack of one thread (calls, and emissions of
signals that resume calls), the function states, the connections of signals to
them, and the debugger's call stack. What a script does next is free: call,
await a signal, await what a call returned, drop it, emit, return. States whose
callables, callers and successors are gone are destroyed by `Settle`.

**`RuztaOperatorCache`** is `OPCODE_OPERATOR` on several threads that share one
instruction: an action for each read or write of its inline cache, which the
first run fills under a mutex and later runs read without it.

### The language server

**`RuztaLspChannel`** is what a client is promised: its messages are served one
at a time in the order sent, each request is answered once, and what it hears are
whole messages in order. **`RuztaWorkspace`** has the two tables of parsers, which
hold plain pointers, and the handlers that use them; `heap` is a function whose domain
are the parsers that exist, to which `memnew` adds a free address. **`RuztaLanguageProtocol`** has
the peers: `Arrive` and `ClientReads` are the network, and a poll is a series of
steps (`visit`, `header`, `content`, `send`), one for each `get_partial_data` or
`put_partial_data`. **`RuztaLanguageServer`** adds `start`, `stop`, the settings, and
the thread or the frames that poll. `Channel` in it instantiates
`RuztaLspChannel` with a refinement mapping: the inbox of a client is what of its
bytes is not yet handled, the outbox its queue, what is heard the units the
socket took. Any client's editor events, disconnects and changes of settings
come at any time.

### From text to result

**`RuztaTokenizer`** scans a text whose elements are words, numbers, symbols,
blanks, comments and line ends, with the indentation stack and the multiline
mode that the parser pushes and pops. **`RuztaTokenizerBuffer`** exports the tokens
and reads them back. **`RuztaParser`** is the recursive descent with its table of
precedences, its multiline and lambda contexts and its recovery; a parser is a
record `p` that each operator takes and gives back with a node, `[p, n]`. Annotations
wait on a stack in `p` for the member or statement they are before, and are refused
when it cannot have them.
**`RuztaAnalyzer`** goes over the tree the same way and gives each node its type
(`of`), its constant value if it has one, and the conversions assignments take; a
type is known for sure, merely found, or uncertain, as `type_source` says.
**`RuztaCompiler`** goes over the tree and calls **`RuztaByteCodegen`**, whose
operators are the `write_*` methods of the generator: a generator is a record `g`
with the code, the slots of locals, the pools of temporaries, and the stacks of
jumps to patch. **`RuztaVM`** is `RuztaFunction::call`, an action for each kind of
instruction, on the values of **`RuztaVariant`**. **`RuztaScriptRun`** is the
specification: a case is written, parsed, exported, analyzed, and then refused or
compiled and run. The stages are its constants; `MCScriptRun` gives them the operators of the other modules.

Members and static variables go the whole way too. The analyzer resolves one when it is
first needed (`resolve_class_member`) and finds initializers that need each other; the
compiler makes an address of mode MEMBER of a name where no local hides it, calls the
setter or getter unless it is compiling that very accessor, and puts initializers into
`_init` and the static initializer; `InstanceGet` and `InstanceSet` of the machine are
`RuztaInstance::get` and `set`, for access by name. `Load` gives static variables their defaults and the
members their places; `Begin` calls what the script has of `todo`, one after the other: the static
initializer, the two parts of making an instance, and the function the case asks for. Its `CodeSound`
names what the machine takes for granted of code, each conjunct for one thing `RuztaFunction::call`
does not test.

**`RuztaDisassembler`** lays the instructions out in words as the generator appends them,
and reads them back as `RuztaFunction::disassemble` does, which knows the size and the
layout of each instruction by itself. It is applied to every function that the run
compiles, and to code of one instruction of each other kind (`OtherCode`), among them
those of native methods and typed containers that no script of the model yields.

**`RuztaTreePrinter`** is `RuztaParser::TreePrinter`, line by line, without the indentation
and the words between. **`RuztaPrintedTrees`** is what its reader knows: the names, numbers,
operators and blocks of a script in their order (`SaidBy`), and that an expression in
brackets is one operand (`AllShownRight`).

Lambdas go the whole way. The parser keeps the function it is in (`current_function`), from
which a lambda has whether it is static. The analyzer looks at the signature of a lambda where it is
written and at its body at the end of the statement around it (`resolve_pending_lambda_bodies`),
adds what it names from outside to its captures and to those of the lambdas between
(`Captured`), and marks it and all around it when it needs the instance
(`mark_lambda_use_self`). The compiler makes a function of it (`FunctionOf`) whose first
parameters are the captures; `CreateLambda` makes a value of function and captures, and
`CallLambda` calls the one with the other, with the instance if the lambda has it. In a build with
`DEBUG_ENABLED` the guard of `RuztaLambdaSelfCallable::call` (`ruzta_lambda_callable.cpp:219`) refuses a lambda
that has its instance (`RefuseLambda`, finding 6); without it there is no guard. Both go on from
every such call.

Loops have the instructions their types give them: `BeginRange` and `IterateRange`,
`BeginCount` and `GoOnCounting` over an integer, a float or a vector, `BeginElements` and
`NextElement` over an array or a dictionary, `Iterate` over what is known only when it runs.

Three modules are references and model no code: **`RuztaTreeNodes`** has the nodes of a tree. **`RuztaScriptTrees`** writes a tree
down in several layouts; **`RuztaScriptMeaning`** says what a script does from its
tree, without slots, temporaries or jumps. **`RuztaScripts`** has the scripts.

`MCRegistry`, `MCCache`, `MCFunctionState`, `MCLanguageServer` and `MCScriptRun`
hold what TLC needs. The proofs are in `RuztaParserRegistryProofs`, `RuztaCacheProofs`,
`RuztaCacheScriptsProofs`, `RuztaFunctionStateProofs`, `RuztaLanguageServerProofs` (which begins with lemmas
about the tables of parsers), `RuztaLspChannelProofs`, which uses that, `RuztaOperatorCacheProofs`, and
`RuztaScriptRunProofs`, about the machine.

| In the model | In the code |
|---|---|
| `Get`, `GetMissing`, `Depend` | `RuztaCache::get_parser`, `RuztaParser::get_depended_parser_for` |
| `Remove`, `RemoveScript` | `remove_parser`, parser part of `remove_script` |
| `NewLocal`, `Hold`, `Release` | the parser local to `_reload`; `Ref` copies and ends of scope |
| `RaiseStage` … `RaiseReturn` | `raise_status` and the analyzer's requests for other scripts |
| `ReloadBusy` … `ReloadReturn` | `_reload`, with `RuztaCompiler::compile` in `ReloadCompile` |
| `FinishMark` … `FinishReturn` | `finish_compiling` |
| `FullCached`, `FullReload`, `FullReturn` | `get_full_script` |
| `Load`, `HotReload`, `QueryParser`, `RemoveCached`, `MoveCached`, `EditFile` | `_load`, `_reload_scripts`, editor queries, `remove_script`, `set_path`/`move_script`, the file system |
| `Await`, `Return`, `ReturnResumed`, `ResumeDone` | `OPCODE_AWAIT` and the end of `RuztaFunction::call` |
| `ResumeNext`, `ResumeByHand` | `_signal_callback`, the bound method `resume` |
| `cancel_pending_functions`, `FreeInstance` | the same; `~RuztaInstance` |
| `PollBegins`, `PollStep` | `RuztaLanguageProtocol::poll`, `handle_data`, `send_data` |
| `Frame`, `SettingsChange`, `ExitTree`, `Joined`, `ThreadPolls` | `_notification`, `start`, `stop`, `thread_main` |
| `parse`, `parse_binary`, `parse_code_string` | `RuztaParser::parse`, `parse_binary`, `RuztaTokenizerBuffer::parse_code_string` |
| `analyze`, `reduce_…`, `resolve_…` | the operators of `RuztaAnalyzer` are named like its methods |
| `IsWritten` … `IsCompiled`, `Load`, `Begin` | `Ruzta::reload`, `RuztaCompiler::compile`, `_static_default_init`, `_create_instance`, `callp` |
| `Operate`, `Iterate`, `CallSelf`, … | the `OPCODE_` cases of `RuztaFunction::call` |
| `InstanceGet`, `InstanceSet` | `RuztaInstance::get` and `set` |
| `Captured`, `mark_lambda_use_self`, `ParseLambda`, `write_lambda` | `reduce_identifier`, the methods of these names, the LAMBDA case of `_parse_expression` |
| `CreateLambda`, `CallLambda`, `RefuseLambda` | `OPCODE_CREATE_LAMBDA`, `OPCODE_CREATE_SELF_LAMBDA`, `RuztaLambdaCallable::call`, `RuztaLambdaSelfCallable::call` |
| `print_…` | the methods of `RuztaParser::TreePrinter` |
| `Words`, `Flat`; `ShowOperator` … `ShowOther` | `append_…` and its uses in `write_…`; the cases of `disassemble` |

Operators whose names contain `If` and whose comment begins with "Mistake" or "A
slip" are plausible errors. Nothing uses them; put in the place of the operator
that follows they make the property that guards it fail.

## 3. Runs

| Run | Instance | States | Shows |
|---|---|---|---|
| `registry` | 2 paths, 3 references, symmetric | 45 k | the registry invariants under any use |
| `cache_seq` | 1 thread, 2 paths, 4 kinds of file (each path may extend the other or itself, use both, or not parse), 3 requests or edits, fairness | 203 k | stages, base classes, null entries, one object per path; every request ends; healthy scripts are ready |
| `cache_threads` | 2 threads, 2 scripts that use each other, 3 requests or edits, fairness | 180 k | refinement under interleaving; every request ends, no deadlock |
| `cache_full` | 1 thread, files with errors in their bodies | – | finding 1 |
| `cache_in_use` | 2 threads | – | finding 2 |
| `function_state` | 3 states, 1 signal, 1 instance and static calls, nesting 3 | 124 k | coroutine invariants |
| `call_stack` | limit 2, nesting 3 | – | finding 3 |
| `language_server` | 2 clients, 2 connections, 2 messages, 4 events from outside | 158 k | the channel is refined, every request answered, parsers in use alive, a started server polled |
| `operator_cache` | 2 threads, 3 signatures | – | finding 5 |
| `script_run` | 2 700 cases: 1 400 texts to parse, the others scripts to run, most of them for their types; call depth 4 | 42 k | trees, printed trees, exported tokens, types, byte code, its listing, results, frames, members behind setters, the instance where it is named |
| `elif_in_loop` | 3 scripts | – | finding 4 |
| `self_lambda` | the scripts with lambdas that use `self` | – | finding 6 |

Bounds, and why they are enough. Two paths give every shape of cycle that the
code treats differently: a script on itself, mutual use, mutual extends, extends
one way and use the other. Three references are an abandoned parser, its
successor and a holder of one of them. `RefIds` and `Objs` in the cache runs are
chosen so that no step ever waits for a free identity: deadlock checking is on,
and a run with fewer references does deadlock (five are too few for
`cache_seq`). `MaxEvents` bounds requests and file changes together: load, change
a file, load again is three. When it is reached and all threads are idle,
`Finished` stutters. The violation runs stop at their counterexample. Three function states are a caller,
what it awaits, and what that becomes when it awaits again; `MaxFrames` bounds
how deep scripts nest calls and emissions, not what an emission resumes. Three requests
are enough for a load through a cycle, an edit before, during or after it, and a move or removal; longer
histories, which mix texts of several edits, are left to the proof of `HealthyScriptsReady`. With
one thread `cache_threads` would be a smaller `cache_seq`; its second thread is what the
windows between the locks of a reload need.

A message of the language server has one to three units of header and one or two
of content, so it is cut at every place that the code treats differently: within
the header, at its end, within the content, at its end, and it may fill or
overflow the buffer of two units. A response has two units, of which a socket
takes some. Four events are two connections with a message each, or a change of
settings between them; two messages are what it takes for one to be behind
another. The heap has no bound.

`script_run` has each case as an initial state and little branching after it: its
states are the steps of its machine. The scripts are chosen by the parts of the
compiler that could be mixed up (`RuztaScripts`): every pair of operators, every
statement within every other, temporaries within temporaries, loops left in each
way, set chains over copied and shared values, each pattern, each run-time error.
The typed ones (`SureScripts`, `UnsureScripts`) put each kind of value into each
kind of typed place: declared with a type, inferred, assigned, passed, returned,
gone through in a loop. `SureScripts` state or infer the type of everything, so
`WellTyped` holds of them; in the others types are found or unknown, and only what
cannot be otherwise is refused (`RefusedWouldFail`).
The scripts with members write, copy and change parts of them with each kind of accessor,
inline or named, static or not, from inside and outside of the accessors, by name and
through `self`. `SettersGuard` is about each step of the machine: a variable with a setter
changes only while the call on top is its setter or the function that initializes it.
The scripts with lambdas change what is captured before, after and inside of calls, keep
lambdas from each turn of a loop, nest them, pass them on, give them defaults and types, and
call them with too few, too many or wrong arguments. In the others the instance is named in a lambda,
in one within it, or in neither, in functions with and without it: `InstanceThere` says that a
call without the instance never comes to a use of it.
`CodeSound` is checked of every function that is compiled, lambdas, accessors and initializers
included: its slots, jumps and default arguments are there, no temporary is left, a place
behind a setter is written by that setter or the initializer only, and what may run without the instance
does not ask for it. `TypedOperands` is checked of every instruction that is executed, and says also that
a reference leads to contents of its value's type. These two are what the proofs about the machine
start from.
Six fragments are broken off at every token. `MAX_CALL_DEPTH` (2048 in
`ruzta_function.h`) is 4 so that `Recursion` exceeds it.

Fairness. `CacheSpec` says that while calls are under way some thread goes on (`CallsGoOn`); it is the
weak fairness of all threads' `Step` together, without `ENABLED`, for speed, and leaves to the check for
deadlocks that one of them can. Nothing makes a request arrive, and no fairness between threads or
of the mutex is assumed: there are at most `MaxEvents` requests, so a thread that waits gets its turn
when the others are done. What could go wrong is a chain of calls that never ends, or threads
that wait for each other. Only the cache mutex is ever waited for, for an object that is `reloading` is passed
over, and `RequestsEnd` with two threads shows that this is enough.
The language server's `Fairness`: frames are drawn and the thread runs
(`Schedule`), what is sent arrives and clients read it (`Transport`), and a poll
that can go on goes on, whichever of the two runs it. The last is written without
`ENABLED` (`WeakFairnessOfPolling`), for speed. Clients owe nothing: they may
close, and settings may change. Without `ClientReads` `send_data` never returns,
which is how the code is written; it is listed as a hazard. In `script_run` a
call that has begun goes on (`Step`), and no more is needed for `Terminates`.

### Findings

1. `FullScriptsReady`. `README.md:116` says full scripts "have been analyzed and
   compiled and are ready to use". `finish_compiling` (`ruzta_cache.cpp:407`)
   puts a script into the full cache before its dependencies are compiled and
   leaves it there when one of them fails: later loads get it without an error,
   its static initializers never run.
2. `NeverClearedInUse`. `ruzta_cache.cpp:250` says a parser in use in the chain
   of calls cannot be cleared; `remove_script` clears parsers that another
   thread's `_reload`, which does not hold the mutex, is analysing.
3. `NoUnderflow`. A call beyond the call stack limit is not pushed
   (`ruzta.h:726-737`) but its exit pops a level (`ruzta_vm.cpp:3970`), until a
   caller finds the "Stack Underflow (Engine Bug)" of `ruzta.h:763`.

4. `FreshOnEachIteration`. `ruzta_compiler.cpp` says that in a loop "the variable
   must be assigned to null on each iteration"; the suite of an `elif` is not marked
   as being in the loop around it (`ruzta_parser.cpp:2364`), so a variable without an
   initializer keeps the value it had an iteration ago.
5. `OptimizedPathMatches`. `ruzta_vm.cpp:803` takes the optimized path when the
   signature matches; another thread may have stored the signature and not yet
   the return type and the evaluator.
6. `SelfLambdasRun`. `tests/scripts/runtime/features/lambda_use_self.out` expects lambdas that use
   `self` to run and print. In a build with `DEBUG_ENABLED` the guard at
   `ruzta_lambda_callable.cpp:219` lacks a negation and refuses each of them with "Trying to call a
   lambda with an invalid instance.", because its object has an instance. `RuztaScriptMeaning` calls them as
   the tests expect; `ResultRight` compares every run in which none was refused.

Four fields of listings are taken from a wrong word, which no document denies: the
type of a cast to a built-in type (`ruzta_disassembler.cpp:492` shows the type whose
number is the source's address), the type of a constructor that is not validated (518,
one word past the instruction), the base of a validated built-in method (892, its first
argument), the target of a call of the base class (974, the word after it). `Misread`
names them, and `ListingTrue` holds of everything else that is shown.

The tree printer puts brackets around operators "for disambiguation", but none around casts,
`is`, ternaries and awaits: `(await x).y` and `await x.y` print alike, and so do `(a as T).b`
and `a as T.b`. It shows neither guards nor return types nor the types of constants and loop
variables, and never an enum without a name, whose values it skips ("Will be printed by
enum"). `PrintTellsTree` holds of what is left.

A static variable's initializer may name `self`: `parse_self` and the compiler look at the function
they are in, and there is none. No script does.

## 4. Proofs

The safety properties of six components are theorems for every value of the
constants; `PROJECT.json` lists each theorem with its property.

### Parser registry

`RuztaParserRegistryProofs` proves for every set of scripts and references, from
the one assumption that `Nil` is neither, that the registry keeps its types
(`TypeCorrect`) and `RegisteredIffNotAbandoned`, `FreshDependencies`,
`DependentsRecorded`, `NoDanglingDependency`.

The invariants are not inductive alone. A parser stays fresh when a dependency
is removed only because its path is on record as a dependent of the dependency's
path (`DepsRecorded`), because the reference to abandon is found under that path
(`Keyed`), and because a dependency is a cached reference, never the parser
local to a reload (`DepsAreRefs`). `Sound` is their conjunction with types and
the placement of live references; `IInv` adds the type of `pins`. The argument:

1. `DependentsClosed` and `SurvivorsClosed`: what `remove_parser` visits is closed
   under the recorded dependents; what survives a step is closed under
   `depended_parsers`. Both are unions or intersections of sets closed in that
   way, so no induction is needed.
2. One lemma per operation on a value of the registry (`SoundNoted`,
   `SoundInstantiated`, `SoundWithDependency`, `SoundRemoveParser`,
   `SoundCleared`, `SoundCollected`, …): it preserves `Sound`.
3. `SoundSettle`, then `NextIInv`, one step per action.

### Script loader

`RuztaCacheProofs` proves, for any number of threads, scripts, references, objects and
any files, that the loader implements the registry (`ImplementsRegistry`: `CacheSafety =>
Spec`, the refinement the runs check, so that the theorems above hold of the loader as
well, `LoaderNeverStale`), and `CacheTypeOK`, `NoStageReentered` and `NoInheritanceLoop`. It assumes what
`ContentAssumption` and `RegistryAssumption` say: what a file may contain, and that `Nil` and `Null`
are no objects, paths or references.

`CacheIInv` is `Core` with the types of the remaining tables. `Core` is `Sound` of the
registry and

- `pins = Pinned(stack)`: the registry's pins are the references in the frames of all threads;
- `StagesSound`: what is parsed has a tree; the base class of a live parser is among its
  `depended_parsers`, and no set of parsers has all its base classes within (`Rooted`, which is
  `NoInheritanceLoop` without the restriction to live parsers). `BaseFound` shows that setting a base
  keeps this when the chain of the base does not come back to the parser's path: the
  analyzer's test is by path, and two references of one path may be alive, one of them
  abandoned;
- `ScriptsSound`: an object has both path and source or neither, and those in the tables have;
- `StacksSound`: every frame is sound (`FrameSound`: its reference is live; a stage that visits
  another script has it among its dependencies, and its status is at least
  `INHERITANCE_SOLVED`), and frames nest: what lies above a stage is a `raise` to
  `INHERITANCE_SOLVED`, which does nothing in a parser that is at that stage already. This is
  `NoStageReentered`, and inductive only together with the statuses.

A step changes the tables and ends with destructors. `Committed` shows that these leave
whatever was sound sound, because all that a frame, a base class or a table refers to
survives. There is one lemma on what the values of the registry keep for the
others (`NotedKeeps`, `GetParserKeeps`, `DependencyKeeps`, `RemoveKeeps`, `ClearedStages`), one on
each change of a stack (`BecomeSound`, `PushSound`, `ReturnSound`, `DeprivedStack`), and one on each action, which also
names the registry's operation it is (`RaiseVisitSound`: `Depend`, `GetMissing` or nothing;
`RemoveCachedSound`: `RemoveScript`; …).

`RuztaCacheScriptsProofs` uses this for the two tables of scripts.

- `OneObject` (`OneObjectPerPath`, an action property): no step leaves a shallow object next to a full
  one of the same path, with exceptions that the property names. A move onto a path in use does
  (`move_script` erases no entry of the new path that the old path has none for), and a move of two such
  objects takes them on. With more than one thread the store of a reload may: `_reload` asks
  `get_cached_script` and stores its object in another locked section (`ruzta.cpp:981-984`), in between
  another thread can make the path full, and the store is unconditional. Every other step
  leaves the tables alone, enters a shallow object for a path that has none, or fills the full entry and
  erases the shallow one (`StepMoves`, `TablesMoved`). That the store is harmless on one thread is not
  in any one step: `AnnounceSound` says that a reload about to store is on top of the stack and that the path
  has no object, from the answer to the store. The property says *object*: a null in
  the full table and a shallow object of the same path can be there together, with two
  threads and four events. Hot reload then announces its object because `get_cached_script`
  yields null, and the next `finish_compiling` ends it.
- `NeverNull` (`FullNeverNull`): `finish_compiling` finds its script, if scripts are removed and
  moved only while no request runs (`RemovesAlone`). `EntriesSound` is inductive: a script in
  reload has an entry from the check of its parser on, and so has the path of a running
  `finish_compiling`; nothing but a removal or a move takes an entry away. The hypothesis is needed,
  see section 5. For one thread it always holds (`NeverNullAlone`), because a
  thread removes only between its requests.
- `ReadyAlone` (`HealthyScriptsReady`), for one thread: full scripts are ready
  to use whenever no request runs, for any number of scripts that use and extend each other and any history of
  loads, hot reloads, parser queries, moves, removals and edits, as long as the texts in play were in order
  (`Healthy`), no script in use was removed or replaced (`kept`), and no path had two objects (a move can
  put them there, and a reload of the one then makes it full in place of the other). It is not claimed for several threads:
  there a reload may be overtaken between its locks, and a removal during a hot reload makes the
  reload fail (finding 2) with nothing left to repeat it.

  *In play* are not only the files (`Texts`): a script keeps the text it was read with, a
  parser the text it parsed, and an edit in between makes the loader work on a mixture. Two
  versions of two files, without a cycle each, can have one together, and then a base class
  is refused although every file is in order; a moved script brings its text to another path.
  Without the older versions in `Healthy` the property is false of histories with several edits.

  The property is about the end of requests; what is inductive is about their middle
  (`HealthyIInv`). A full script is ready or being reloaded (`AllSettled`), because
  `finish_compiling` makes it full before it is compiled; a script that is being reloaded is the
  `obj` of one activation on the stack (`WorkedOn`, `Linked`), so none is when the stack is
  empty; what an activation needs to succeed is there (`FrameRight`): every stage so far was
  without errors, and the next activation is at work for the one below (`Link`). An error could come
  only from a text, which `Healthy` excludes, from a missing script, which `Shelved` excludes,
  or from a base class that leads back to the script: `NoWayBack` follows the recorded base
  classes, each of which is what the text of its parser extends (`StagesRight`), and arrives at a set of
  paths of which each extends another one of the set. There is one lemma for each
  action. Two activations are never at work on the same object (`Apart`), because
  work begins only where the reloading flag is not set, and a step never takes from those below what
  they need (`Milder`, `Calmer`: no flag of an object in work goes, no settled object becomes
  unsettled, no stage goes back).

### Coroutines

`RuztaFunctionStateProofs` proves `TypeOK`, `RunsOnOwnStack`, `OneContinuation`,
`NoLostWakeup` and, for runs that never have more calls than the limit, `CallStackMatches`,
for any number of states, signals, instances and nested calls. It assumes that
states are no signals, that `Nil` is neither a state nor an instance, and that the
bounds are numbers (`StateAssumption`).

The invariant is `IInv`: `Sound`, of the states, connections, instances and frames, and
`Levels`, of the debugger's stack. The properties alone are not inductive. `Sound` says
besides that no two frames have the same state and none of these is still in its
script's list (`OwnState`, `Held`), that the states of a coroutine share the first
one, which is still there (`KeepsFirst`), that only one of them has yet to run
(`OnePlace`), that one which can run has its stack (`Ready`), that nobody connects to a
signal being emitted for the last time (`Emitted`), that a state a caller was just given is
connected if it can run (`Given`), and that whoever awaits a coroutine has one to wake it
(`Woken`). Each operation is what it does followed by `Settle`, the destructors.
`SoundSettled` shows that these remove only what `Sound` does not speak of; `KeptUnion`
and `KeptFacts` say what is kept, without induction, because it is a union of sets that support
themselves. There is one lemma for each kind of change
(`SoundPushed`, `SoundResumed`, `SoundAwaited`, …), one for each action (`AwaitStep`, …), and
`NextSoundStep`.

`StackOfCalls` has a hypothesis about the run, that there are never more calls than
`MaxCallStack`; without it the statement is false, which is finding 3. `LevelsKept` and
`AllEnteredKept` show that then each call of the C++ stack has its level.

### The operator cache

`RuztaOperatorCacheProofs` is about any number of threads and signatures, of which none is called
`Nobody`. Its `IInv` says what the mutex of `OPCODE_OPERATOR` protects: one thread stores at a time
(`Storing`), and an instruction that nobody is storing into has the type and the
evaluator of its signature (`Whole`). From it follow that an instruction that has a
signature keeps it, although several threads may have found it without one
(`NeverRefilled`), and that finding 5 has one cause only: `OptimizedPathMatches` holds in every
run in which no thread takes the optimized path between the first and the last word of a store
(`RightUnlessTorn`), and so for one thread (`RightAlone`). `EntersWhole` restricts
only when a thread enters the path; the store that filled the instruction is complete then, and `Stays` shows
that no later step changes what it wrote.

### Language server

`RuztaLanguageServerProofs` proves `TypeOK`, `ParsersAlive`, `LastGoodScript`,
`StartedIsPolled` and `QuietWhenStopped`, for any set of scripts, clients, connections and
messages. It assumes that messages are made from `Template`, that files have one of the
texts, and that limits are positive (`WorkspaceAssumption`, `ProtocolAssumption`).

`IInv` is the conjunction of `Sound(ws)`, of the tables of the workspace, and of what each
part of the server keeps: `PeersSound` (buffers within their size, no more arrived than was
sent, a response taken in part), `ClientsSound` (identities below the next one, the client the
poll is at is one of the table), and `Polled` and `Closed`, which relate `started`, `use_thread`,
`thread_running`, the thread and the notifications within `start` and `stop` as well.
The lemmas about `Sound` come first in the module:

1. `Sound` says more than the two invariants: what a table has for a path is alive and a
   parser of that path, so that no parser is in the tables twice for two paths; a script is good and its path
   has a result; a result that is good is the script.
2. `Fresh` and `Allocates`: `memnew` yields an address that is not in use (of one number more than
   there are parsers one is free).
3. `Parses` and `Removes`: `parse_script` and `remove_parser` delete only what neither
   table names afterwards. That all parsers are in a table is not true, and so a heap of fixed size would run
   out: a faulty text that replaces a faulty one, with no good one before, frees
   nothing (`ruzta_workspace.cpp:459` frees only if there is a script and the two differ).
4. `Sweeps`: the loop of a request over all scripts keeps `Sound`, and parses nothing again whose
   result is there, so that the parser a `references` request took before the loop is still there after it.

The loop of 4 is a recursive function of the number of paths done. The library's
induction theorem has an operator as its parameter and cannot be used; `Steps`
derives from the library's facts what is needed, for a set of numbers.

### The channel of a client

`RuztaLspChannelProofs` proves that the server implements `RuztaLspChannel`
(`ServesChannel`): `Spec => ChannelSpec` under `ContentsFit`, which says that every message a
client may send has a content of at least one unit and at most the buffer. It is needed,
for the code does not serve others as they are: an empty content is answered with
nothing (`process_message` passes on an empty result) and one beyond the buffer is cut in two. Headers may have any length: one
that does not fit gets its client dropped, which the promise allows. The run's messages satisfy
`ContentsFit`.

`CInv`, inductive with `IInv`, says of each client what the two sides of its connection rely on:

1. `Framed`: buffered and unread units together are a `Stream`, whole messages one after the other
   that may begin in the middle of one, and the place `handle_data` keeps (`has_header`,
   `content_length`, what is in `req_buf`) is the place in the first of them. So `Lengths` is never
   wrong, `Whole` always holds, and the message handled is the head of the inbox (`HeaderFramed`,
   `BufferedFramed`, `MessageFramed`); a message sent goes to the end (`SentFramed`).
2. `Told`: the units the socket took are in order, and `res_sent` is how many of the
   head of the queue are among them. So a write either leaves queue and hearing as they
   were or moves the head of the queue to the end of what is heard (`PutTold`).
3. `PlaceOK`: a poll at `header`, `content` or `send` finds the client as that stage needs it,
   although requests of the editor, arrivals and closes come between any two steps.
4. An identity not yet given out has empty buffers, which makes `Open` a step of the channel.

Each step then is a step of the channel or leaves it alone: a last unit handled is `Serve`, a
completed response `Deliver`, a request of the editor `Push`, `Disconnects` is `Drop`. `Messages` and
`Heard` are about sequences of any length: the lemmas before `Framed` prove by induction what they
do to a concatenation (`MessagesConcat`, `UnitsStream`, `FirstHalf`, `SecondHalf`).

### The virtual machine

`RuztaScriptRunProofs` is about any scripts, any stages and any `MAX_CALL_DEPTH` that is at least 1
(`DepthAssumption`). The machine tests little of its code, so what is proved of it has a
hypothesis about the code: `SoundWhenCompiled`, that `CodeSound` holds when a script has just been compiled.
It is a fact about the generator, which the run checks for 1 300 scripts; it is
not one about all scripts, for a static initializer that names `self` breaks it (section 3, at the end). From it:

- `FramesRight` (`FramesOK`): no jump, default argument, turn of a loop, call, return or error, at any depth,
  leaves the code of its function or the slots it has. A return looks at the caller's instruction once more
  (`Returned`), so the caller must still be at a call that another instruction follows.
- `InstanceKept` (`InstanceThere`): nothing asks for an instance where there is none.
- `SettersKept` (`SettersGuard`, an action property): only its setter and the initializer change a
  variable that has a setter.

`IInv(alone)` is the invariant. Its `StackRight` says that every frame is at an instruction of its function
with a value in each slot and a `defarg` among the function's defaults (`FrameRight`), that every caller is at an
instruction that others follow (`Follows`), and that calls are within the depth. None of it is inductive without
the others: a return needs `Follows`, the jump to a default argument needs `defarg`, and the depth is tested
in `Calls` alone. `PlacesThere` gives each variable its place. With `alone` it also says that a frame
without the instance runs a function that needs none, and `HeapRight` that this is so of the
lambdas on the heap, from which such frames come: a lambda may be kept in an array, a member or a
dictionary and called long after by someone else.

1. `TopReplaced`, `Pushed`, `Popped`: what a change of the stack keeps; `ElsewhereRight`, `OnwardsRight`, `PutRight`,
   `NewFrameRight`: what a change of a frame keeps.
2. One lemma for each way an instruction ends (`Next1Keeps`, `SetsKeeps`, `GoToKeeps`, `ExitKeeps`, `ErrorKeeps`,
   `GivesKeeps`, `CallsKeeps`, `TurnKeeps`, `LeaveLoopKeeps`), and from them `ExecuteKeeps`, one step per action.
3. `HeapAppended`, `HeapChanged` and a lemma for each operation on values that changes the heap
   (`SetKeyedRight`, `CallMethodRight`, `ConstructRight`, …), and from them `ExecuteHeap`: only `CreateLambda` adds a
   lambda, and what it makes without the instance needs none, by `CodeSound`.
4. `ExecuteData`: an instruction changes at most one variable, and it is the target of an instruction that puts a
   value (`PutsMember`), the static variable it names (`PutsStatic`), or one without a setter, by name
   (`SetsPlain`). `OnePlaceGuarded` makes `SettersGuard` of that: two variables never share a place.

`InstanceKept` has `TypedOperands` as a second hypothesis, for the step that calls a lambda: the value called must
refer to a lambda on the heap (`LambdaAlone`). To prove that as well one would have to know of each
loop that its counter is a place of its container when the next element is taken, at each instruction and
for each slot, which is what the types of the compiler promise and the machine's state does not hold.

### Only model-checked

- Liveness: `EveryRequestAnswered`, `RequestsEnd`, `Terminates`. Liveness under fairness
  and `ENABLED` are out of the prover's reach.
- `CodeSound`, which the theorems about the machine assume when a script has been compiled, and `ListingTrue`: they
  say of the generator and the disassembler what these yield for every tree. That is induction over trees and
  over the list of instructions, by recursive operators, for which the prover has no SMT backend.
- `TreeOfSource`, `PrintTellsTree`, `BinaryLikeText`, `LayoutBalanced` for the same reason: parser, tokenizers and
  printer are recursive operators, and the machine's specification has them as constants.
- `TypedOperands`, `ResultRight`, `WellTyped`, `RefusedWouldFail`: they relate each step of the machine to the
  types the analyzer gave the tree, or the whole run to the reference evaluator. An invariant for them would have
  to say of each instruction what every slot holds when it is reached, that is, to redo the analysis on byte code.

## 5. What is left out

- `_reload`: the refusal when instances exist, `p_keep_state`, tool scripts and
  disabled scripting; static initializers always succeed. Binary `.rzc` files go
  the way of text. The order of dependencies within a HashSet is free.
- A stage asks for parsers and raises them to `INHERITANCE_SOLVED`; interfaces and
  members of other files that the analyzer resolves in place, without touching
  their status, are not visible.
- A stage whose parser is cleared by another thread goes on in deleted memory in
  the code; the model ends it (`Deprived`) and reports it as finding 2.
- `~Ruzta` clears dependencies and removes their scripts from the cache. The
  model has `RemoveCached` of any path at any time a thread is idle instead.
  `kept` are objects the game still holds after their removal or replacement; reloading one of
  those may mark another object of its path as full, so `HealthyScriptsReady`
  assumes there is none.
- A destructor is one step with what releases the reference. In the code `~RuztaParserRef`
  clears the parser before it takes the mutex to erase the entry (`ruzta_cache.cpp:139-146`), and
  `get_parser` on another thread may meet a reference in between, for which it has an error path
  (217-221). On one thread the two are the same; with several the model has fewer interleavings there. The
  theorems for several threads hold of the model with that step. Likewise `set_path` changes the path member
  in the same step as the locked `move_script`.
- In a build with `DEBUG_ENABLED` `self.n` in `n`'s own getter or setter does not compile
  (`ruzta_compiler.cpp:835`, `1023`); the run has such scripts, and they end there. Builds without it are not
  modelled in this point.
- With two threads `FullNeverNull` fails when a hot reload races `remove_script`;
  it is listed as a hazard, and checked with one thread. `NeverNull` shows that
  a removal or a move during a request is the only cause.
- Function states: one thread; emitters of signals outlive the run; scripts do
  not await the result of `resume`; a reload or the end of an instance does not
  happen under a running call of it.
- Language server: `didOpen`, `didChange` and `didSave` are one way to give a path a
  text; the reload after a save is the cache's. A message with malformed JSON is
  an error response. A connection too many is closed at once. Editor requests go
  to `latest_client_id`. `thread_running` is a plain `bool` in the code; the
  model reads and writes it atomically.
- Tokenizer: the characters of a number, a string or a word are one symbol. A text
  that only the text tokenizer refuses (indentation between two levels) is
  accepted after export, so `BinaryLikeText` speaks of texts that parse.
- Parser: no annotations about warnings, `super`, `yield`, completion, extents or
  warnings; annotations are kept or refused, what they do to a member is the
  analyzer's and left out. One that is left at the end of the body of a class or
  a block stays on the stack and goes to the next member outside, as in
  `parse_class_body` and `parse_suite`, which do not clear it. A `/` or `%`
  printed after a node path reads back as more of the path; the scripts keep
  the two apart. A dictionary that mixes `:` and `=`
  (`ruzta_parser.cpp:3307`, `3325`) is kept out.
- Analyzer: types are the built-in ones and the class of the script; no typed
  arrays, constant arrays, named enums, signals, native or outer classes,
  or warnings. The typed scripts leave out what is refused although it
  would run, on purpose or because the code says it is unfinished: `:=` from a
  value of unknown type, a second assignment to a constant, the result of a void
  function, `is` tests that cannot be true, a ternary of two types that do not
  fit (its node keeps the built-in type of neither branch cleared). They also
  leave out methods called on a variable whose type is only found: the result is
  taken for certain although the variable may have changed (a hazard).
- Members: no inherited ones, no notifications, no property lists. The scripts leave out
  what two readings of the language could differ on: an operand that is a member next
  to a call that changes it; getters with effects within a chain of parts that is set;
  a value assigned to a part of what computing the value replaces; a use of a member
  before the block's own variable of that name (a hazard); `self` in static initializers;
  a named setter whose parameter states the variable's type. An inferred member has an
  initializer without names of other scripts.
- Lambdas: none as the default of a function's parameter, captures are never freed
  objects, a reload under a lambda (`ruzta_compiler.cpp:3213-3392`) and the callables of remote
  and utility functions are not modelled. A parameter or local of a lambda does not
  have the name of a member.
- Tree printer: `super`; the paths of `preload`, which the analyzer finds; how the words between are written.
- Compiler and machine: no globals, awaits, varargs of scripts. The temporaries
  of an `if` live longer than the comment at `pop_temporary` asks
  (`ruzta_byte_codegen.cpp:137`); what a temporary can hold is decided by its
  first user (`:126`); neither shows in a result.
- Values: integers of any size, two-component vectors for all structs,
  floats with whole values, no strings. The validated getter of a dictionary never reports a missing
  key, which the model keeps.
- `RuztaCache::clear`, static scripts, and every component marked
  `not_modelled` in `PROJECT.json`, each with its reason.

## 6. What could follow

1. Inner and base classes, typed containers, lambdas across a reload.
2. The end of the program: `_finish`, `RuztaCache::clear`, late destructors.
3. `get_must_clear_dependencies` and `clear` as a graph algorithm against a
   definition of what nobody else needs.
4. A registry on several threads whose destructors are two steps, with the error path of `get_parser`;
   what a full script needs to be ready there.
5. Proofs: types of slots at each instruction, from which `TypedOperands`
   would follow for code that respects them.

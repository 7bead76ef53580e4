# A formal model of cactus-shell

cactus-shell turns a line of English into tool calls with a local model (Needle 3)
and runs them. This directory holds TLA+ models of the program, their TLC
configurations, and proofs checked by TLAPS. `PROJECT.json` maps every definition
to the lines it models. Paths below are relative to the repository.

## 1. The system

| Component | State | Operations | Modelled by |
| --- | --- | --- | --- |
| Shell (`src/shell.cpp`) | `mCatalog`, `mCatalogReady`, `mClient`, `mModelReady`, the process's directory | choose the model, read a line, builtins, request, run call, confirm, cd, ensure catalog, ensure model | `CactusShell` |
| Standard input and output (`shell.cpp`, `command.cpp`) | the two stdio buffers, the child's copies of them, the input's position | write, flush, read, fork, leave by `_exit` | `Console` |
| Running programs (`execute`, `src/command.cpp`) | pipe ends, child process | fork, exec, report, wait | `Execute`, `ProgramRun` |
| Needle client (`src/needle.cpp`) | `mSystemPrompt`, `mLoaded`, `mBuffer`; the process-wide `gConfiguredPrefix` and engine | construct, move, load, unload, reset, configure, ask, parse reply | `NeedleClient`, `IndependentTurns` |
| Catalog (`src/tools.cpp`) | `mSpecs`, `mSchemaJson` | parse, find, render schema | `ToolCatalog` |
| Catalog discovery (`src/tools.cpp`) | files on disk | candidates, discover, load | `CactusShell` |
| Argv builder (`command_from_tool_call`) | the `Command` being built | one step per parameter | `ToolCall` |
| `render` (`src/command.cpp`), `tokenize` (`src/tokenize.cpp`), `trim` | the line, the words | one step per branch | `CommandLine` |
| `JsonBuilder` (`src/json_util.cpp`) and its caller `render_catalog` | `mBuilder`, `mDepth`, `mPendingComma` | begin, end, key, value, field, str, clear | `JsonBuilder`, `CatalogSchema` |
| The `json_` readers (`src/json_util.cpp`) | none | read a member as a type | `JsonValue` |
| `describe` functions, `main`, build files, tests, shipped catalog | none | | not modelled: constant texts, one call, data |

How they interact: the shell reads lines from one stream, which is also the one
its confirmations are answered on. A request makes sure of a catalog (read from
the first config file that exists), then of a model (through `mClient`), then asks
the model with the catalog's schema. Each call of the reply goes through
`command_from_tool_call`, against the catalog that made the schema, and then
through a confirmation, and is run in process (cd) or by `execute`, which forks.
All calls are synchronous and on one thread; what is concurrent is the child and
its program, the kernel, whoever edits the config files, and the user. The engine
is shared by all clients of a process without their knowing of each other.

What is hard to test, and what the properties aim at (all with their lines under
`hazards` in `PROJECT.json`): the interleavings of parent and child around the
report pipe, and the closes on every failure path; a cached engine configuration
that other clients and failed calls invalidate; replies cut short by the buffer;
a session catalog that outlives the directory and the file it came from; replies
of several calls that fail half-way; confirmations at the end of input and among
lines typed ahead; config files that come and go between failures; the agreement
between what the model is told and what the builder accepts; the one input and
the one output that the shell shares with the programs it starts, with every fork
copying the buffers before them; the agreement between the line a user confirms
and the words that run; and a JSON writer that remembers only a depth and a flag.

## 2. Modules

**`ProgramRun`** is what `execute()` promises (`command.h:43-45`): a program is
requested, runs or is refused, and a result comes back. There is no pipe and no
process in it. It stays in "called" until a program starts or the call fails.

**`Execute`** is `execute()` itself. `pc` is the parent's next system call and
`child` what the child does next; each system call is an action, and each error
branch another. `report` and `ends` say which ends of the pipe parent and child
hold, `cloexec` which are marked, `data` whether an errno is in the pipe; `read`
is enabled when there is data or no writer is left. The child may be killed at any
point. Two constants choose the environment: `Interruptible`, whether a signal
handler may interrupt `read` and `waitpid` (the shell installs none, but retries
`waitpid` on EINTR), and `SigchldIgnored`, whether the shell
inherited SIGCHLD as ignored. `Promise` is the refinement of `ProgramRun`.

**`IndependentTurns`** is what `needle.h:42-49` promises: each ask is answered
from the asker's own facts and the tools it passed, as by an engine of its own.

**`NeedleClient`** has the engine (`model`, `prefix`, `conversation`), the record
`gConfiguredPrefix`, and any number of clients with their members. An operation is
one step, since the engine is single-threaded and no call comes back into the
clients. The engine is not in the repository: `needle_init` sets the prefix or
fails and leaves an unknown one, `needle_load` replaces the text model and forgets
the prefix, or is given a speech model and touches neither, or fails and may have
dropped the model; a completion adds a turn. `made` is what the engine said,
whatever the client passed on of it.

**`ToolCatalog`** reads a config document entry by entry. A JSON value is a record
of its type and content; `First` is the reader's "return at the first error".
`ToolSchema` is what the model is told. **`JsonValue`** has the `json_` readers that
it and `NeedleClient` use: what they make of a member that is missing, null or of
another type. **`ToolCall`** extends it with one call and
the loop over the parameters, one action per kind; an entry of argv remembers which
parameter put it there, so that the properties can speak of order and number.

**`CactusShell`** is the shell. `pc` names the point of `run`, `handle_request` and
`run_call` that comes next. It uses `ProgramRun` (instance `Execution`) where the
code calls `execute` and `IndependentTurns` (instance `Client`) where it calls
`mClient.ask`; that the detailed modules implement these two is checked and proved
separately. `ran` records the commands started for the current request and how
each did, `yeses` the confirmations given. Typed lines are records of what
`handle_builtin` tells apart. `files` is what lies at each place a config file is
looked for, and `Edit` changes it at any time. `command_from_tool_call` is the guard
`Buildable`, with `ToolCall` for its inside. `from_args` chooses the model among the
argument, the environment and the default.

**`CommandLine`** has `render` and `tokenize` over characters, with one action for each
branch of their loops. A behaviour starts from a command, which is rendered and the
line read back, or from a typed line, which goes through `trim` and the cd of
`handle_builtin` first. The characters are a constant (`Characters`), and those with a meaning are among them. `Read` is the
definition they are compared with: a reader with five modes that takes one character
after the other.

**`JsonBuilder`** has the writer's three members over tokens, and `nesting`, which is not
in the code: what its caller has open. The guards `MayAddValue`, `MayAddKey` and
`MayEnd` are what a caller has to keep to, since the code does not check it. `str` is
the set of what `str()` may return: an error if something is open, and otherwise the
text, or `ParseFailed` when simdjson's `view()` fails. `Parsed` is a reader of JSON.
**`CatalogSchema`** adds the callers: `render_catalog`, whose calls for a catalog are a
script, at whose end `result` is what `str()` returned and `Schema` what the model is
shown; and any other caller, bound to none. A call of the script that the guards do not
allow violates `SchemaIsWhole` (`MayCall`), a close of the wrong kind included.

**`Console`** is the order in which shell and programs write and read. A text of the
shell is a record with its kind and number; `buffer` holds those not written out
yet, `screen` what came out of shell and programs. A character of the input is its
number; `ahead` holds those `getline` has in its buffer. `fork` copies both buffers to
`copy`, which `execvp` and `_exit` drop. What a line means and whether a command is
risky are choices; `CactusShell` makes them. Lines run on between characters as they
please, so a program can take the tail of a line whose head the shell has read ahead.

`MCExecute`, `MCNeedleClient`, `MCToolCall`, `MCCactusShell`, `MCCommandLine` and
`MCCatalogSchema` give TLC its constants. Operators named `Mut...` are plausible bugs; they stand before the
definitions they would replace, are used by none, and `PROJECT.json` says which
property each would break.

## 3. Runs

| Run | What it asks | States |
| --- | --- | --- |
| `execute` | No interruptions, SIGCHLD at its default. The promise of `ProgramRun` with its liveness; the program never holds the pipe; a failed exec is told from a program that exits 127; an error means that nothing ran; a 0 is a success. | 113 |
| `execute_signals` | With interruptions, and SIGCHLD ignored. No descriptor and no child outlives a call, the call returns, and the proofs' invariant holds. | 169 |
| `execute_sigchld` | Violation, see section 6. | |
| `needle_client` | Two clients: the record is sound, replies are the asker's own, whole, and all or nothing; refinement of `IndependentTurns`. | 22 650 (with symmetry) |
| `shell` | Sessions of three lines and one edit of a config file: confirmations, order and stopping, commands as offered, readiness, the first file that exists wins, the prompt comes back, and the proofs' invariant. | 703 214 |
| `shell_cd_catalog`, `shell_cd_tab` | Violations, see section 6. | |
| `tool_call` | Configs and calls: accepted exactly when good, argv built exactly from the calls that fit the schema (integers beyond int64 apart, see section 6), one entry per value in order. | 99 582 |
| `command_line` | What `render` shows is what a shell would read as the command, and `tokenize` reads as a shell does; trimming before that is harmless. | 291 996 |
| `command_line_zero` | Violation, see section 6. | |
| `json` | Depth and flag are those of the nesting, the text is JSON if `str()` hands it out, each call of `render_catalog` is one a caller may make, and the catalog's schema is whole unless `view()` failed. | 31 232 |
| `console` | Output comes out once, in order and in time, commands are announced before they act, input is read once. | 1.26 million |

Bounds, and why they are enough:

- `Execute` has no bound: one call after another, for ever. The exit codes have
  success, failure, 127 (as a failed exec) and 137 (as a killed program), the
  signals include SIGPIPE and SIGKILL.
- `NeedleClient` is finite as it is. Two clients, two facts, two schemas and two
  models are what it takes for one client to change the engine under another. With
  `Capacity = 4`, replies of 2 to 5 characters leave room, just leave none, fill the
  buffer and overflow it. The real 65536 is covered by the proofs.
- `shell`: `MaxLines = 3` is a request and two confirmations, or a request, an
  edit or a cd, and another request. Replies have up to two calls: two risky ones,
  a cd before a program, one that cannot be built before one that can. Two
  catalogs give the same tool another program and another risk. The argument is left
  out, the environment names a model that differs from the default.
- `tool_call`: an entry with any two fields wrong, two entries, a parameter with
  each combination of good, missing, empty and ill-typed fields, and each pair of
  parameter kinds against each pair of ten argument values. `Int64Max = 7` stands
  for 2^63-1, with arguments one beyond it and at the lowest integer.

- `command_line`: one argument of up to four characters, or two of up to two, of
  every character some rule mentions (letter, blank, newline, carriage return, both
  quotes, backslash, zero); cd with up to six characters after it. Four is a character
  between quotes with an escape before it; six, after cd, is two words with quotes.
- `json`: any calls up to twelve tokens (`MaxFree`), enough for a third member on one
  level and for three levels with a second member; catalogs of no tool, one tool with
  two parameters, or two tools, whose calls are not bounded.
- `console`: seven texts of the shell (`MaxWritten`; `Full` stands for a session that
  goes on) are the greeting, a prompt, an echo, a confirmation, a failure, the next
  prompt and another echo; four characters (`MaxInput`) are a line, an answer, one
  read ahead and one for the program. Terminal or file is chosen at the start.

Deadlock is checked in every run: a state without a step would be an error, and
the ends of the shell, of the builders and of a command line are explicit steps
(`Terminated`, `Returned`).

## 4. Fairness

`Execute` assumes weak fairness of the parent's and of the child's own steps: the
scheduler runs both. Nothing makes a signal come or a program end, so `CallReturns` allows waiting in
`waitpid` while the program runs. `CactusShell` assumes weak fairness of the
shell's own steps, `execute`'s included, which `Execute` justifies; the user need
never type and the program need never end, so `AlwaysComesBack` stops at the prompt,
at a confirmation, or at a running program. The other modules have
no liveness property and no fairness.

## 5. Proofs

The proofs hold for every value of the constants that the named assumptions
admit: any exit codes and signals, any number of clients, any buffer size, any
catalog, config files and calls of any size, replies of any length, any number of lines and edits, command lines, words and JSON
texts of any length and depth, consoles with any number of texts and characters.
Every invariant of every passing run is a theorem, and so are the action property
`NothingSkipped`, the refinement of `IndependentTurns`, and the safety part of that of
`ProgramRun`.

The assumptions only say what kind of thing a constant is:

| Assumption | What it says, and why the code may rely on it |
| --- | --- |
| `ExecuteAssumption`, `ShellAssumption`, `ConsoleAssumption` | bounds are natural numbers, the special values are where they belong |
| `NeedleAssumption` | a buffer has room for something (65536 in the code), and a reply is a text with a length that simdjson makes a JSON value or garbage of (`IsReply`): a member is of some JSON type or missing |
| `DocumentsAreJson`, `CallsAreJson` | the same of config files and of the arguments of calls, as far down as the code reads them; no member need be there or be of the type asked for |
| `CommandLineAssumption` | words and lines are of characters, of which those with a meaning to `render` and `tokenize` are some; a command has a program |
| `SchemaAssumption` | a catalog is a list of specs, each with any number of triggers and parameters; the bound on other callers' texts is a natural number |

**`ExecuteProofs`.** The properties are not inductive: that the read ends needs to
be known from who holds which end at each point. `IInv` fixes the descriptors from the
two program counters (`ParentEnds`, `ChildEnds`), which pairs of counters can occur
(`Together`), what has happened (`History`), what the parent may have read
(`Reported`), that an unread report of a child that lived to send it is still in
the pipe (`Delivered`), and what was returned (`Returned`). From it follow
`TypeOK`, `ReturnsClean`, `ProgramHoldsNoPipe` and `ZeroMeansSuccess` in every environment;
`FailureIsReported` where nothing interrupts the read and SIGCHLD is not
ignored, `ErrorMeansNothingRan` where it is not ignored; and, under the same two
conditions, that each step is a step of `ProgramRun` or invisible to it
(`ImplementsPromise`, its safety part).

**`NeedleProofs`.** `MirrorSound` is inductive with `TypeOK`. It makes a
successful `configure` leave the engine set up as asked (`Configured`), from which
follow `OwnAnswers` and the refinement of `IndependentTurns`. `WholeReplies` needs
that a buffer has size 0 or `Capacity`, a moved-from client included.
`AllOrNothing` is a lemma on `ReadCalls`: a reply in which no call is unreadable has
a call for every item, in the same place.

**`ShellProofs`.** `TypeOK` is inductive. For the rest, `IInv` says what a reply is at
each point: what ran, what is about to run and what is left are the model's calls
in order (`Progress`); the pending command is what the catalog in force, the one
the question was asked with, has under its name (`Offer`); a risky command about
to start has a spare yes (`Consent`); and the flags tell the truth (`Readiness`). From
it follow `RiskyNeedsOwnYes` (counting with the cardinality of finite sets),
`StopsAtFirstFailure`, `RanAsOffered`, `NeverAsksUnloaded` and `CatalogBeforeModel`.
`FirstFoundWins` proves the action property `NothingSkipped` from the step that loads
a catalog.

**`ToolCallProofs`.** About the reader, the lemmas show that `First` is ok exactly when
nothing it looks at has an error (of indices with an error one is the least), so that
`read_spec` is ok exactly for a good entry, and then returns `ToolSpec` of its fields.
The invariant `Catalog` says that the specs so far are those of the document's first
entries, all good, and that a rejected entry is the one after them and is not good:
`FirstBadEntryRejects` and `SpecsAreSound` follow. About the builder, `Building` says
that the parameters passed fit what was given, that `args` is what they give
(`Written`: one value for each value given, in the order of the parameters, each
behind its flag), and that a builder that failed had a call which no spec fits.
`OneEntryPerValue` is the last of these at the end; `SchemaAndArgvAgree` compares
"fits the spec" with "fits the schema rendered from it, and has no integer beyond int64"
(`Suits`): `HasType` takes any integer for the schema's "integer", and the case in which
the two differ is named in the property. The proof needed
`ValuesGiven` to be an IF: it was a CASE with guards that overlap, of which TLA+
leaves open which one counts, and TLC takes the first.

**`FoldProofs`.** What the models fold over a text or a list is computed step by step,
for any operator and any length: it is the last of a run of intermediate results, and
an element more is a step more. It is proved from the
definition of the fold, with induction taken from the least number of a set rather
than from an induction theorem. The next three modules use it with an operator of their own.

**`CommandLineProofs`.** `TypeCorrect` has the bounds of `i` and `pos`: after each step
they are within their text or one past it. That no branch looks ahead at what is not
there is part of `ReadsAsAShell`, whose reader never looks ahead. For `ReadsAsAShell` the invariant `Follows` says
that when `tokenize` is at `i`, the one-character reader that has read what is before
`i` stands where `tokenize` does (`Stands`): in the same mode, with the same word, or one character
behind, at a backslash between quotes that means itself. For `ShownIsRun`, `Writes` says
that what `render` has written so far reads as the words it has finished and the part
of the word it is at; at the end this is the command, and `Follows` carries it over to
`tokenize`. For `TrimIsHarmless` the lemmas show that blanks before a text or behind it
change nothing that is read from it, unless an escape waits for them, and that words
read earlier do not matter to the reader (`ReadShifted`), so that cutting off the cd
takes off a word and nothing else.

**`JsonProofs`.** `TypeOK` and `TracksNesting` need to know that every level which has
another one inside has a member and no key that waits (`Enclosing`): that is what
`end_object` and `end_array` rely on when they set the flag without looking.
`NothingOpenHandedOut` says that `str()` gives out no text with something open.
`WritesJson` needs where the reader of JSON stands after what was written (`Reads`):
in the levels that are open, at what may follow there. It is an implication: a text
that is JSON may still not be handed out. For `SchemaIsWhole`, `Place` is where the
caller is (what is open, and whether a key waits), and `Leads` says that calls can be
made one after the other from one place and end in another. `Leaves` has the calls
still to be made lead from where the caller is to nothing open. It holds at the start
because the calls for a parameter, for the triggers and for a tool lead back to where
they began, in any number, and each step keeps it by making the first of them. So no
call is out of place, and a script cannot stop before its end on the guard of a call.

**`ConsoleProofs`.** That commands are announced first needs to know where the echo of
the current one is: on the screen or in the buffer from the moment it is to be
confirmed or run, and on the screen once the user said yes, because the question was
flushed; that a command not yet run has no output; and that a terminal leaves nothing in
the buffer (`IInv`). `NothingHeldBack` is one of its parts. `EachReadOnce` is inductive
with types (`InputInv`); the work is in `Lengthens`, that adding the next numbers to a
growing sequence keeps it growing and adds nothing else. `OnceInOrder` is inductive with `IInv`:
a flush moves the buffer behind what the screen has of the shell, a program's output
is not the shell's, and a fork's copy is dropped.

Only model-checked: the liveness properties (`CallReturns`, `AlwaysComesBack` and the
fairness part of `ImplementsProgramRun`), and the absence of deadlock: fairness and
enabledness are beyond this prover. The four violations are counterexamples, for
which TLC is the tool.

## 6. Where the code differs from what is said of it

- **A later cd picks up no catalog** (`shell_cd_catalog`). `README.md:60-61` says
  that `cd`-ing into a directory picks up its catalog; `ensure_catalog` keeps the first
  one loaded (`shell.cpp:209-210`), so this is so only before the first request.
- **A cd with a tab reaches the model** (`shell_cd_tab`). `README.md:117` says that cd
  never does; `handle_builtin` wants "cd" or "cd" and a blank (`shell.cpp:87`).
- **"could not create a process" after the program ran** (`execute_sigchld`). Started
  with SIGCHLD ignored, the shell finds its child gone; `waitpid` fails with ECHILD and
  `execute` returns `ForkFailed` (`command.cpp:208-210`, text at `command.cpp:44-45`).
- **A confirmed argument is cut short** (`command_line_zero`). A JSON string may hold a
  zero character, which `render` writes as it is; `execvp` takes the argument to end there
  (`command.cpp:171`). `README.md:21-22` has the confirmation answer for the argument
  values, and `command.h:34-35` says that each value becomes one argv entry.

Seen while modelling, and without a run of their own:

- The schema says "integer" (`tools.cpp:288-289`) and sets no bounds; the builder reads an
  int64 (`command.cpp:104-106`). A call with a larger integer fits the schema and is
  refused, although `tools.h:90-91` says that schema and argv cannot drift apart.
  `SchemaAndArgvAgree` leaves such calls to the builder (`BeyondInt64`), which refuses them.
- When simdjson's `view()` fails (`json_util.cpp:132-135`), `render_catalog` quietly gives the
  model a catalog without tools (`tools.cpp:352`), while the shell goes on as if it had
  offered them all. `SchemaIsWhole` allows "[]" in this case and in no other.
- `command.h:40` says that `render` gives a single line; a newline in an argument is put
  between quotes as it is (`command.cpp:152`), so the echo takes two lines.
- A carriage return makes no word need quotes (`command.cpp:25`), though `tokenize` takes
  it for a blank: `ShownIsRun` leaves such commands out, and those with a zero.
- A cd that ends in an escaped blank is trimmed before it is tokenized (`shell.cpp:65,
  88`), and is told that it ends with a dangling backslash (`tokenize.cpp:13`), which it
  does not. `TrimIsHarmless` leaves these lines out.

## 7. Not modelled, and the plan

Left out for good: texts and their wording, `main`, the build, the
engine's inside, simdjson (escaping inside a string included), `json_int`,
`json_object` and `json_double`, of which only the last is used, for a confidence nothing
acts on; and the file system between `is_regular_file` and
`open` (a file that vanishes there is reported as one that is broken).

A relative model path is resolved by the first request, after any cd
(`shell.cpp:233`). No text says what it is relative to, so there is nothing to check
it against; `CactusShell` lets loading the model succeed or fail either way.

Next: that `ToolCatalog`'s schema and `CatalogSchema`'s calls are of the same specs. Both
translate `render_catalog`, one as data and the other as calls.

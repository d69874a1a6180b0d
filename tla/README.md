# A verification project for shale

shale (`src/`) is a sandboxed shell: a POSIX-like interpreter whose commands are
WASM modules or Go handlers, which see nothing but a virtual filesystem. This
directory holds TLA+ models of the parts that carry its guarantees, TLC
configurations that check them on small instances, and TLAPS proofs for all
instances. `PROJECT.json` is the machine-readable index: every
definition with the lines it models, the runs, the mutants, the hazards, the
theorems.

Run a configuration with `tlc -workers 2 -config X.cfg M`, check proofs with
`tlapm M.tla`.

## 1. The system

| Component | State it keeps | Operations | Interacts with |
|---|---|---|---|
| `vfs.Memory` (`vfs/memory.go`) | a flat map name -> node; per node: kind, metadata, bytes, open-handle count, linked flag; the bytes in use; per handle: flags, position, directory snapshot | Open, Mkdir, Remove, Rename, Stat, Chmod, Chtimes; on a handle Read, ReadAt, Write, WriteAt, Seek, Truncate, ReadDir, Chtimes, Close | a mutex makes each call atomic; called by all commands at once |
| `fsys.Namespace` (`internal/fsys/namespace.go`) | the root filesystem and the mounts, fixed at creation | routes a name to its filesystem, refuses writes to read-only mounts and changes to mount points, the null device | no lock; several filesystem calls per call |
| `fsys.WASI` (`internal/fsys/wasi.go`) | per open file: name, flags, owner, closed | the WASI calls of a guest, `errno` translation | look-then-act sequences over Namespace |
| custom command filesystem (`command.go`) | none | name checks, Remove | Namespace |
| session (`shale.go`) | the gate channel, `closed`, the runtime, the module cache, variables and cwd | New, Run, ReadFile, Close; per Run a bounded capture | callers on several goroutines; contexts and timers |
| pipelines (`internal/shell/shell.go`) | per `|`: an `io.Pipe`, a goroutine, an `AfterFunc`; the shared step budget | pipeline, pipelineFlow, step | commands on both sides, the context |
| interpreter (`internal/shell/shell.go`) | per shell: variables, functions, cwd, `$?`, the status of the last substitution, arguments, depth; per Run: steps, context | lists, `&&` and `||`, conditions, loops, functions, subshells, substitutions, nested shells, redirections, assignments, builtins | pipelines, session, xargs |
| xargs (`internal/shell/shell.go`) | options, items left, combined status | read and split the input, run batches | interpreter |
| embedded commands (`internal/wasm`), `vfs.Directory`, CLI, examples | none of their own | | |

**What is hard here.** A session is used by several goroutines and each call can be
cancelled at any moment, in a `select` too. The commands of a pipeline share
pipes, an output budget, a step budget, a lazily compiled module and the
filesystem. Pipes are closed by three parties: the reader, the writer, and the
end of the context. The filesystem keeps removed files alive for open handles
and charges their bytes exactly once. The namespace has no lock, so every
look-then-act sequence may be interrupted. Offsets and sizes are `int64` that a
guest chooses.

**What makes each part correct.**

- Memory: the byte budget and the reference counts are exact; the map is a tree;
  a rename moves a subtree whole; a refused call changes nothing; a handle keeps
  the contents of its node whatever happens to the name; paging delivers a
  snapshot exactly.
- Namespace and WASI: read-only means unchanged; a mount stays reachable; no
  file stays open with no owner; the times of a file are set on that file.
- Session: calls are serialised; a closed session runs nothing and reads nothing, and
  a failure to close it is reported once; truncation of output, of a script or of a file
  is never reported as success; a result tells of its own script; a Run does not wait
  beyond its timeout, and every call returns if the backends it calls do.
- Interpreter: what a construct borrows (depth, arguments, files, variables of
  a prefix) is given back on every way out; every failure and every exit arrives
  where it belongs; `$?` is that of the last statement; every script ends.
- xargs: the items are those the quoting rules define; each reaches one command
  line; the status tells the worst that happened.
- Pipelines: a truncated stream never looks complete; no command outlives its
  pipeline; failures surface; nobody waits for a dead neighbour.

`PROJECT.json` lists the hazards behind these, each at its line.

## 2. The modules

| Module | Models | Kind |
|---|---|---|
| `Paths` | `path.Dir`, prefix tests, rebasing | operators |
| `FileStore` | what a `vfs.WriteFS` promises its callers | abstract specification |
| `Memory` | `vfs/memory.go`, all of it | component, implements `FileStore` |
| `Session` | `shale.go`: gate, Run, ReadFile, Close, capture, module cache | component |
| `Pipeline` | `shell.go`: pipeline, pipelineFlow, step; `io.Pipe` and `context.AfterFunc` as external | component |
| `Interp` | `shell.go`: Run, list, stmtWithPipe, command, assign, call, invoke, redirect, substitution | component |
| `InterpErrors` | `Interp` with a history variable, for what `command.go` says of errors | claim of a document |
| `Xargs` | `shell.go`: xargs, xargsSplit | component, and a reference definition of the items |
| `Namespace` | `namespace.go`, `wasi.go`, `commandFS.Remove`, over two instances of `Memory` | composition |
| `MCMemory`, `MCNamespace`, `MCXargs` | values, views and symmetries for TLC | |
| `MemoryProofs`, `MemoryTreeProofs`, `MemoryQuotaProofs`, `MemoryStoreProofs` | theorems about `Memory`, and that it implements `FileStore` | proofs |
| `SessionProofs`, `PipelineProofs`, `NamespaceProofs`, `InterpProofs` | theorems about these components | proofs |

### Memory

A path is a sequence of names; `BadPath` stands for whatever `fs.ValidPath`
rejects. `nodes` is the map `m.nodes`; the other variables are the fields of
`node` (`isDir`, `meta`, `data`, `refs`, `linked`), of `Memory` (`used`) and of
`memoryFile` (`file`). `ret` is the answer of the last call. One action per method,
atomic as the mutex makes it. Errors are the error values of the code
(`ErrNotExist`, `ENOTEMPTY`, `ENOSPC`...), without the `PathError` around them.
Integers are `-MaxInt-1..MaxInt`: arithmetic on offsets wraps in that width
as `int64` does.

Bytes are members of a small set with a distinguished zero (for holes). Inode
numbers, directory sizes and directory timestamps carry no decision and are left out.

### FileStore

The abstract specification that `Memory` implements (`Abstract` in `Memory` is the
mapping, `ImplementsFileStore` the claim). It has a tree of names, files that live as
long as a name or a handle leads to them, handles, contents and a budget; it has
no reference counts, no `linked` flag, no byte counter, no positions and no error
values. Whether a file is in use is a look at all names and handles, and the budget a count of the
bytes stored. A call is refused and changes nothing, or takes effect at once. There
is one exception, which the abstract `Create` spells out: `O_CREATE|O_TRUNC` without
write access makes the file and is then refused (`memory.go:96-107`).

### Session

A client is a goroutine that makes one call after another. The entry of a call
goes through `lock`: a check of the context, the `select` over the gate and
`ctx.Done()`, the recheck after it, the check of `closed`; these are separate steps, and the
context may end between any two. Waiting senders on the channel are a FIFO
queue, as the Go runtime keeps them. Inside Run, each stage of the script
compiles its module on demand, runs, writes output, exits; the capture is the
shared counter with its cancellation of the context. The end of Run decides
which error is reported; this decision is translated branch by branch. `Shell.Exited`
is one variable of the session, which Run resets, a script sets and Run reads at the
end. Close sets the flag and then closes the runtime, which may fail: the runtime is
then `broken`, and a later Close returns nil without another attempt. ReadFile looks at
the flag and is then in the filesystem (`reading`) until `ReadAll` returns: with the
file or as much as the bound admits, or with an error and what was read before it.
The module in the cache is coreutils, which New has compiled, or another one.
`told`, `lost`, `cut`, `quit` and `want` are ghosts. When a call has returned, the
model keeps of its result the error alone.

### Pipeline

`N` commands joined by `|` nest to the left: level `k` joins the first `k`
commands with command `k+1`. A level starts its left side on a goroutine, runs
its right side, closes the read end, waits, and combines the two outcomes. A
command reads, writes chunks, fails in its own way (`OwnErr`), or ends; after a
failed read or write it reads and writes no more. The status of a command that does
not fail says which command it was. The end of
the context runs the `AfterFunc` of every level, which closes both ends of the
pipe in two steps. Every command takes a step from the shared budget, and the
command that finds it spent fails.

### Namespace

Two instances of `Memory`, root and data, are composed; data is mounted at
depth two, so that there is a directory above the mount point that a rename
could take away. Commands (`Proc`) call concurrently; a WASI call is as many
steps as it makes filesystem calls, with what the first one
answered carried to the next. Guest names may be relative, hold `.`, `..`, a trailing
slash or a NUL, and go through `Clean` and `Resolve` before they are routed.

### Interp

`stack` holds the Go calls in progress (list, statement, binary, if, for, while,
function, subshell, substitution, nested shell, Run), `shells` the `Shell` structs they
work on, innermost last, and `ret` what a call has just returned to the one below it. A
statement goes through the stages of `stmtWithPipe` and `call`: arguments, redirections,
assignments one by one, the command, and then the deferred functions in
their order. The script is no parameter: wherever the syntax tree decides, every possibility is a
step, so one run covers all scripts of the language within its bounds. An expansion is
what it can do to the interpreter (fail, assign, take a step for a glob, run a
substitution), as often as `MaxParts` allows. A nested pipeline is one step whose
outcomes are those `Pipeline` allows. Status 1 stands for every nonzero one. `raised`
and `quit` are ghosts: the failure being passed up, and the exit the session's own
shell has executed. `InterpErrors` adds the history variable `broke`: a command of the
script has returned an error.

### Xargs

The input is a sequence of characters of the classes the code tells apart (letters,
blank, newline, the two quotes, backslash, NUL). `Options` is the outcome of option parsing.
`xargsSplit` is modelled one iteration of its loop per step; the reference definition
(`Reference`, `Malformed`) says independently which items an input has. Batches are
then run one by one with every status a command can return.

## 3. The runs

All runs are exhaustive on their instance.

| Run | Instance | What it shows |
|---|---|---|
| `memory_quota` | 2 names at the top, 5 nodes, 2 handles, 2 bytes, all offsets of the width | types; `RefsExact`; `Quota`: `used` is the bytes of nodes that are linked or open, within the limit; `PositionsInRange`; `ImplementsFileStore` |
| `memory_names` | 2 names, depth 3, 5 nodes, 1 handle, pages of 0, 1 and 2 | `TreeShape`, `NamesExact`, `NoSubtreeLost`, `AtomicMove`; `PagingExact`: the pages of a handle are its snapshot, once and in order; `ListsOwnNode`: the snapshot is of the handle's directory even when its name has been given away |
| `session` | 2 clients, 2 stages, 1 byte of output and writes of 1 and 2, file limits and sizes up to the largest integer, a read failing after any byte, fairness | `GateExact`, `RuntimeOutlivesCommands`; `CloseIsFinal`: after a Close nothing runs or reads, and an error of the runtime is returned exactly once; `OutputExact`, `NoSuccessWhenCut`, `ReadFileWhole`, `CompiledOnce`; `WaitsEnd`: a Run leaves the queue by its timeout even behind a call that is blocked for ever; `CallsReturn`: if backends and handlers return, so does every call |
| `pipeline` | 3 commands, 5 steps, writes of 2 read in pieces, fairness | `CleanEOF`, `NoOrphans`, `FailuresSurface`, `TornIsReported`, `CancelReturns`, `NoneBlockedByTheDead` |
| `pipeline_errors` | 3 commands | a disagreement, section 6 |
| `interp` | 3 steps, nesting of 3, 1 expansion and 1 file per statement | types; `CallsBalanced`, `FilesClosed`, `FailureSurfaces`, `ExitTold` |
| `interp_words` | 2 steps, nesting of 2, 2 expansions or assignments per statement, 2 variables, fairness | `PrefixRestored`, `StatusTold`, `ScriptEnds` |
| `interp_errors` | 2 steps, nesting of 2 | a disagreement, section 6 |
| `xargs` | all inputs of up to 5 characters under every option | `SplitExact`, `BatchesExact` |
| `namespace_tree` | 2 commands that create, remove, rename, open | `MountPointsStand`, `NoFileLeaked` |
| `namespace_calls` | 1 command, every call, names of every kind, read-only mount, 2 stamps, 2 permissions | `ReadOnlyKept`, `TimesFollowFile` |
| `namespace_diropen` | 2 commands, a file and a directory | a disagreement, section 6 |

**Bounds and why they suffice.** Quota errors are about one write, one truncation or one
node against one budget: two handles on the same or different nodes, a budget of
two bytes and a width whose largest number is the budget give every relation
between position, length, limit and overflow. Depth three gives a rename of
a directory with a child and a grandchild, next to a sibling. `Rename` has one
bound of the model, `RenameInBounds`: it is not called where the moved subtree
would leave the set of paths (the theorems hold for any prefix-closed set of
paths, the infinite one included). Two clients are one inside and one that waits, gives up, or has the gate handed to it with a
context that has ended meanwhile; for longer queues there are the theorems about `Session`, which
hold for any number of clients (the safety properties were also checked with three). Three commands are the least that have a
pipeline inside a pipeline and a command with neighbours on both sides. Their
five statements take five steps, so that a further statement of any of them
exhausts the budget for the others. A written buffer of two bytes can be read
in two pieces, with a failure between them. In the interpreter three steps are a statement
within a statement within a statement: a redirected function call whose body is a subshell
that exits, or a loop whose body fails; `MaxDepth` and `MaxFuncs` of 1 put the limits
within reach. Two assignments over two variables are the same one twice, or two, with a
substitution or `${x:=v}` between them; two steps leave the command
of such a statement one step of its own. Five characters are a quoted item with an
escape in it and its neighbour. In the namespace every call is on at most
two names, and two commands give every interruption of one call by others, as a
third could do only what the second can do in sequence. `namespace_calls` has room
for two files beside the directories of the session: one that is open without a
name, and one that has taken the name.

**Views and symmetry.** Node identities are irrelevant to the code; the views
of `MCMemory` and `MCNamespace` replace a node by what it holds and where it
is named or open. Handles and the commands of a namespace are symmetric; no liveness
property is checked with them.

**Fairness.** `Session!Fairness`: a goroutine that can run does; the timer of Run
fires; compilation and the closing of the runtime end. The gate is handed over in FIFO
order by the Go runtime. Nothing is assumed of commands, handlers and filesystem operations: the
repository's `README.md:245-246` says "A blocking backend operation cannot necessarily be
interrupted by a context deadline", and such an operation keeps the gate. `WaitsEnd` holds under
that fairness. That every call returns does not, and `CallsReturn` is an implication: its
hypothesis `BackendsReturn` says that a filesystem operation returns (ReadFile has no
context to end it) and that a command and the script around it end once the context has
ended (the runtime is built with `WithCloseOnContextDone`, and `command.go:15` tells
handlers to respect their context). A command that is not cancelled may still run forever, and
its Run ends by the timeout. So a Run ends by its timeout at the latest only where its
backends do not block. `Pipeline!Fairness`: goroutines are scheduled; a command
that can take a step does, and stops after a failed read or write; nothing is
assumed about the context, nor that a command ever ends by itself. `Interp!FairSpec`:
the goroutine that interprets the script is scheduled, and a single command of it ends,
which is again an assumption on handlers and backends; that loops and recursion
end is not assumed but due to the step budget.

**Deadlock** is checked in every run. A pipeline that has returned stutters by
its action `Terminated`; everywhere else a caller can call again.

**Mutants.** For every property of a passing run `PROJECT.json` names a definition
and a plausible error in it (a dropped guard, a missing release, an off-by-one)
under which TLC finds the property violated. They are the operators marked
"Seeded fault" in the modules, used by no specification.

## 4. The theorems

They hold for every value of the constants that satisfies the named ASSUMEs of
the component's module.

| Theorem | Statement |
|---|---|
| `MemoryProofs!TypeCorrect`, `RefsCorrect` | `Spec => []TypeOK` (no reference count is ever negative), `Spec => []RefsExact` |
| `MemoryTreeProofs!TreeCorrect`, `NamesCorrect` | `Spec => []TreeShape`, `Spec => []NamesExact` |
| `MemoryTreeProofs!NoSubtreeLostCorrect`, `AtomicMoveCorrect` | the two action properties |
| `MemoryQuotaProofs!QuotaCorrect`, `PositionsCorrect` | `Spec => []Quota`, `Spec => []PositionsInRange` |
| `MemoryStoreProofs!PagingCorrect`, `ListsOwnNodeCorrect` | `Spec => []PagingExact`, and the action property `ListsOwnNode` |
| `MemoryStoreProofs!RefinementCorrect` | `Spec => ImplementsFileStore` |
| `SessionProofs!GateCorrect`, `RuntimeCorrect`, `CloseCorrect` | `[]GateExact`, `[]RuntimeOutlivesCommands`, `[]CloseIsFinal` |
| `SessionProofs!OutputCorrect`, `CutCorrect`, `ReadFileCorrect`, `CompiledCorrect` | `[]OutputExact`, `[]NoSuccessWhenCut`, `[]ReadFileWhole`, `[]CompiledOnce` |
| `SessionProofs!ExitedCorrect` | `[]ExitedIsOwn`: `Result.Exited` is about the call's own script (no run repeats this one) |
| `PipelineProofs!CleanEOFCorrect`, `NoOrphansCorrect`, `FailuresCorrect`, `TornCorrect` | `[]CleanEOF`, `[]NoOrphans`, `[]FailuresSurface`, `[]TornIsReported` |
| `NamespaceProofs!MountPointsCorrect`, `NoFileLeakedCorrect` | `[]MountPointsStand`, `[]NoFileLeaked` |
| `NamespaceProofs!ReadOnlyCorrect`, `TimesCorrect` | the action properties `ReadOnlyKept` and `TimesFollowFile` |
| `InterpProofs!InterpInvariant`, `InterpTypes` | `[]InterpInv`, the inductive invariant, and `[]TypeOK` |
| `InterpProofs!CallsStayBalanced`, `FilesAreClosed` | `[]CallsBalanced`, `[]FilesClosed` |
| `InterpProofs!FailuresSurface`, `ExitIsTold` | `[]FailureSurfaces`, `[]ExitTold` |
| `InterpProofs!PrefixIsRestored`, `StatusIsTold` | the action properties `PrefixRestored` and `StatusTold` |

### Memory

For every set of names, paths, nodes, handles, bytes, flags and arguments, every
limit and every width of integers. The set of paths is closed under `Dir`
(`PathAssumption`), handles are finite and the limit fits the width
(`StoreAssumption`), arguments are of the types the Go signatures give them
(`ArgumentAssumption`). The argument is in four layers, each an inductive invariant
that contains the one before.

1. `TypeInv` adds to `TypeOK` that reference counts are the cardinality of the
   handles open on a node (`RefsExact`) and that the map is finite. A type
   alone is not inductive: `Close` decrements a count, and only `RefsExact` says
   it is positive then.
2. `TreeInv` adds that every proper ancestor of a name is a directory (`Ancestors`)
   and that names and linked nodes correspond one to one (`NamesExact`).
   `TreeShape` asks it of the parent only, which no rename of a whole subtree
   preserves by itself: the parent of a moved name is the moved parent, and to
   see that nothing is overwritten by the move one needs that nothing lies under a
   missing name, at any depth.
3. `QuotaInv` adds `Quota`, `PositionsInRange` and that the set of charged nodes is
   finite. The budget is a sum over that set; lemmas say what the sum does when a
   node's bytes change, when a node joins and when it leaves. `NamesExact` is
   needed because `Remove` and `Rename` release a node's bytes: with an alias they
   would be released twice. `PositionsInRange` and the limit together keep the
   `int64` sums of `Write` and `Seek` from wrapping, which is in turn what keeps
   `Quota`.
4. `StoreInv` adds `HandleInv`: what a handle has handed out (`seen`) is the set of
   entries whose rank is below its position. A page is an interval of
   ranks, so the next one neither repeats nor skips an entry.

The refinement is proved action by action from `StoreInv`: a call that fails maps to a
refusal or a stutter, and one that succeeds to the abstract action of its
kind. Each layer discharges part of it. `RefsExact` and `NamesExact` make "not linked and no
references left" the abstract "no name and no handle leads to it"; `TreeInv` makes
the abstract tree a tree after a rename; `Quota` turns the comparison with the
byte counter into a count of stored bytes.

### Session

For any finite set of clients, any stages, every output budget, write size, file limit
and file size (`SessionAssumption`). `SessionInv` has five parts: the types; `CallInv`,
what a call has done at each of its points (before the script nothing, then an exact
capture and a dead context if it was cut, in the end an error that
accounts for both and an `Exited` that is its script's); `GateInv`, which adds to `GateExact` that the queue holds
only waiting calls and none twice, or else an unlock could hand the token to a call
that is not waiting; `LifeInv`, that between the flag `closed` and the end of the runtime the
closing call is inside the gate, which is why a second Close that finds the flag
set finds the runtime closed, or broken and its error returned; that the call which closes
is the first to meet an open runtime, so that the error is returned once; and that
from the end of a script to its result `Exited` of the session is what the script did; `CompileInv`, that the mutex is held exactly by a
command that compiles, while there is no module.

### Pipeline

For every number of commands `N >= 2`, every step budget and chunk size
(`PipelineAssumption`). `PipelineInv` adds to the properties that levels begin from the
outside in (`OrderInv`), that what a level knows of a side is what the side
returned (`OutcomeInv`, `SidesInv`), what a verdict says about the two
sides (`VerdictInv`), and how a pipe can have come to its end (`PipeInv`).
`FailuresSurface` speaks of the whole pipeline; `HiddenInv` is the same statement for every
level, and the verdict of a level follows from that of the level inside it.
`TornIsReported` needs that a pipe is torn only while the outermost level has not
looked at the context yet (`TornInv`).

### Namespace

For any commands, trees, mount depth, flags and arguments. `NameAssumption`: the
names handed in resolve to paths of the model, and flags are records of Booleans.
`TreeAssumption`: New has made the directories that lead to the mount, and no node
has two names at first. `NamespaceInv` has `CheckedInv`, what an earlier step of a call
has checked for a later one; `NoFileLeaked` itself; `MountInv`, that the names that lead
to the mount stand for the nodes they stood for at first and that no other name
leads there; and `ReadOnlyInv`. A rename moves whole subtrees, so the names that
lead to the mount stay only because nothing that is above the mount may be moved
or replaced: `Under` is transitive, and `writable` refuses everything above.
`ReadOnlyInv` says that a read-only filesystem is as it was mounted, and that no open file
on it may write. It needs two facts that the property does not mention: that each file open
there has a name, since closing a file without one frees its bytes, and that
a call about to hand over a file has no mutating flag. For the interleavings it is enough that a
step changes only the call and the file of the command that takes it
(`ActorStep`). The proof uses of each filesystem call only which files it opens or
closes and what it changes, so it does not rest on the theorems about `Memory`.

### Interp

For any variables, values and directories, every budget of steps and every limit on
depth, functions, nesting, expansions, files and scripts (`InterpAssumption`: `PWD` is
a variable, the home directory is a directory and a directory is a value; the limits are
natural numbers). Since `Interp` has no script as a parameter, the theorems are about all
scripts.

`CallsBalanced` speaks of the innermost shell only, and is not inductive: when a
subshell ends, the shell below it becomes the innermost, and nothing was said about it.
`InterpInv` therefore speaks of the whole stack. `StackInv` is its first half:

- `ShapeInv` says which call can have made which, and at which stage of it
  (`MadeBy`). It decides what a return can come back to; without it a
  statement could return to a frame that has no step for it.
- `CallsInv` says of every shell in use that its depth and arguments are those of the
  calls up to the one that works on the next shell, and that a function keeps the
  arguments of its caller. `CallsBalanced` is the instance for the last shell.
- `StmtInv` says what a statement holds at each stage: no open file before its
  redirections, the values to restore only while it has a prefix,
  and, while the prefix is being assigned, that a variable not assigned yet is as it was at the
  start. The last one is what makes the value saved at the first assignment of a variable the
  original one, even with substitutions and `${x:=v}` in between: `PrefixRestored`
  follows from it.
- `TypeOK` and `FilesClosed`, the latter a cardinality over pairs of a frame and a file.

`ResultInv` is about what is being passed up. `RetInv` says that the failure on its way
up is the one that was raised, `FlowInv` that `$?` has been
recorded wherever another statement can follow (which is `StatusTold`), `ExitInv` that an exit of the
session's own shell is on its way up, or a failure to close has taken its place.

The proof has one lemma per action (`CommandKeeps`, `FinishKeeps`, ...). Most actions change the top frame, push
frames above it or pop it and leave the rest alone; `LocalStep`, `EnterStep` and `LeaveStep`
say once what such a step keeps of `StackInv`, and an action's lemma shows
that it is such a step. `FilesMove` does the same for the count of
open files. `InterpInv` was checked with TLC on the instances of the two runs before it
was proved.

### What is only model-checked

- Liveness: `CallsReturn`, `WaitsEnd`, `CancelReturns`, `NoneBlockedByTheDead`, `ScriptEnds`. Fairness and
  ENABLED are outside the prover.
- What xargs computes (`SplitExact`, `BatchesExact`): an induction over its input.
- `ErrorAborts`, `DirectoryOpenKeepsFiles` and `HandlerErrorAborts` are violated (section 6).

## 5. Not modelled

- Parsing and expansion: done by `mvdan.cc/sh`; text processing. `Interp` has what
  they do to the interpreter.
- In `Interp`: the streams a redirection rearranges, the text of words and values,
  `PATH` lookup (a command is found or not), and the inside of nested pipelines.
- `internal/wasm` (a read-only table), `vfs.Directory` (direct calls of `os.Root`),
  the CLI and the examples: no state of their own.
- In `Namespace`: symbolic links and `O_NOFOLLOW` (`Memory` has none), more than one
  mount, the values Stat reports, Sync (a check that the file is open).
- In `Session`: what a script computes; a script is stages that compile, write,
  exit or fail. The validation of options in New, which keeps no state when it fails.

## 6. Disagreements met

1. `command.go:13-14`: "Return a nonzero exit code and nil error for an ordinary
   command failure; an error aborts the script." In `a | b | c`, when `a`
   returns an error and `b` then stops because `c` has closed its input, the inner
   pipeline returns the right side's `ErrClosedPipe` (`shell.go:774-776`) and drops the
   error of `a`; the outer one ignores `ErrClosedPipe` from its left side
   (`shell.go:777`). The script goes on. `pipeline_errors` violates `ErrorAborts`;
   `FailuresSurface`, which passes, says that this is the only way a pipeline loses one.
2. `wasi.go:26-27`: "O_DIRECTORY|O_TRUNC must never truncate a regular file and only
   then discover that it is not a directory." The validation is a Stat and the open
   a later call. A concurrent stage can remove the directory, or rename it away, and rename a file to
   its name in between. `namespace_diropen` violates `DirectoryOpenKeepsFiles`.
3. `command.go:13-14` again. The word of a redirection may hold a command substitution;
   the error of its command comes back as the error of `redirect`, and `stmtWithPipe`
   prints every such error that is neither a limit nor the end of the context and returns
   status 1 without an error (`shell.go:209-214`). After `> $(cmd)`, where the handler of
   `cmd` returned an error, the script goes on and Run returns nil. `interp_errors` violates
   `HandlerErrorAborts`; `FailureSurfaces`, which passes, says that outside redirections
   no construct of the interpreter loses an error.

Four more oddities contradict no document, and the properties name them as exceptions:

- When redirections fail, the statement is not negated by `!`, and `$?` keeps the
  status of an earlier statement for the right side of `||` (`shell.go:213`,
  `StatusTold`).
- When `runtime.Close` fails, the session is closed all the same: the error is
  returned once, and each later Close returns nil without another attempt
  (`shale.go:203-207`, `CloseIsFinal`).
- `xargs -I R -n 2` substitutes nothing where a batch holds two items, and so drops
  them (`shell.go:660`, `BatchesExact`).
- `Namespace.Remove` looks at the kind of a name and then removes by name; a file or an
  empty directory that another stage puts there in between is removed whatever its
  kind (`namespace.go:196-206`).

## 7. Plan

Done, in this order: Memory with its proofs, Session, Pipeline, Namespace, Interp,
Xargs, FileStore with the refinement by Memory; then the proofs about Session, Pipeline
and Namespace, the proof of the refinement, and the proofs about Interp. Every safety
invariant and action property of the passing runs is a theorem, except the two about xargs.

What could come next: symbolic links, for which `Memory` would have to be joined by a
model of `vfs.Directory`, and more than one mount in `Namespace`.

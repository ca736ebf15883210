# Ern-OS: a verification development

Ern-OS is a small operating system in the Ernos language: a kernel with accounts,
files, services and a diary, a shell and a glass desktop above it, and one disk
layer below it through which everything that is kept passes. It is compiled to C by
`toolchain/epc_bootstrap.c`, which also carries the runtime: host calls, threads,
channels, the garbage collector and the scheduler of async functions. This directory
holds TLA+ specifications of the parts whose correctness depends on interleavings,
crashes, refusals and time limits, of the compiler from source text to generated C, the
TLC configurations that check them, and proofs for TLAPS.

## The parts of the system

| Part | State | Operations | What is hard | What makes it correct |
|---|---|---|---|---|
| disk layer, `system/hal/the_disk.ep` | the host's files under `disk/`, staging names `<path>.ern-new` | read, write, append, exists, is_folder, make, remove, rename | every operation is several host calls; each may be refused, the system may stop between any two | a completed file changes only as a whole; a stage never replaces a file it does not belong to; a refusal changes nothing |
| files, `kernel/virtual_files.ep`, `kernel/sessions.ep` | the tree on the disk, the folder a session stands in, its permissions | look, read, write, make, remove, move, go | names resolved against a folder that may be gone; permissions checked in one place and used in another | nobody changes what is not theirs; the tree stays a tree |
| accounts, `kernel/user_accounts.ep` | one record per person, a home folder | create, verify, migrate, delete | a record and a folder made in two steps, with crashes between; records that are rewritten at login | who has an account can log in with the secret they chose, and only they |
| diary, `kernel/system_log.ep` | one file that grows | append | appends cut by a crash | what was written stays in front |
| services, `kernel/services.ep`, `kernel/messages.ep` | a table of services, a board of named channels, heartbeat threads | start, ask, stop | late replies, a thread that outlives its record, full channels | one heartbeat beats for ever; nothing blocks; counts do not go back |
| rebuilding, `kernel/rebuilding.ep` | the running program, a fresh one, the previous one | copy, compile, check, swap, tidy | two renames with a crash or a refusal between them | there is always a program to start |
| commands, `shell/understand_command.ep`, `shell/do_command.ep`, `shell/the_shell.ep` | the session | understand a sentence, perform it, log in | several rules look at the same words, some before padding is taken away; refusals must be told as what they are | padding changes nothing, and what was named is found under its name; three tries for a login |
| terminal, `hal/the_terminal.ep` | the transcript and whose desktop is drawn, the request to end | ask, ask for a secret, say, react to a signal | the window closes or the input ends while any question is open | an answer nobody gave is not taken for one; one person's lines are not shown to the next |
| apps, `apps/*.ep` | the lines of a note, a count of unsaved changes | edit, list, browse | a request to end in the middle of an edit, refused saves, one counter for the warning | nobody loses lines unwarned; a closed window ends every app |
| desktops, `desktop/*.ep` | the session that is drawn, windows, the line being typed | log in, run a session, draw, read a line | loops inside loops that all have to end when the window is closed | every loop unwinds to `main`, from any question |
| channels, `toolchain/epc_bootstrap.c` | a ring, a mutex, two condition variables | send, receive, try, select | lost or spurious wake-ups, wrap-around | a first-in-first-out queue that loses no wake-up |
| stopping the world, `toolchain/epc_bootstrap.c` | flag, counter, switch of the collector | register, park, stop the world, resume | threads at every stage of a channel call or a select while another collects | no program thread runs during a collection that began with all of them parked; every stop ends |
| heap, `toolchain/epc_bootstrap.c` | registered objects with a generation, the remembered set, counters and thresholds, a shadow stack of roots per thread | register, store with its barrier, push and pop roots, minor and major collection, explicit free | a store before its barrier while another thread collects; addresses used again; values in registers, in half-built structs and in suspended tasks | nothing is freed that a collection can know of, nothing freed is pointed to |
| scheduler, `toolchain/epc_bootstrap.c` | run queue, timers, sockets waited for, futures with one waiter, a task group | spawn, await, sleep, wait for a socket, group, timeout, cancel, the loops that drive it | loops nested in the steps of tasks; timeouts beside late results; cancelled tasks somebody waits for | a task is in one place at a time and is stepped by one frame; every loop ends |
| compiler, `toolchain/epc_bootstrap.c` | files being loaded, the program, the variables' states, the numbers of generated names | load, parse, check, fold, analyse, generate, call clang | precedence, layout, circles of imports; two walks that must agree; C's own precedences | the generated program does what was written; what is refused is wrong, what is accepted is safe |
| bare metal, `baremetal/` | a position in an arena of 1 MiB | allocate, reset | unsigned arithmetic at the end of the arena | blocks lie in the arena and do not overlap |

Calls go downwards: shells and apps call the kernel, the kernel calls the disk layer
and the terminal, and those call the host through the runtime. Only the heartbeat
threads run beside the main thread; they share channels with it and nothing else.
The collector of the runtime runs on whichever thread crosses its threshold.

The compiler is a program of its own: `kernel/rebuilding.ep` runs it on the host. The
running system calls no async function, but the runtime every program is linked with
carries the scheduler.

`PROJECT.json` lists every part with its status. The libraries under `stdlib/` and the
networking and hashing of the runtime are not used by the running system and are left
out.

## The modules

* **DiskTypes** is the vocabulary of the disk: texts as sequences of pieces, what may
  live at a place, the requests and the answers.
* **Store** is what the disk promises: one request, one answer, one effect. It names
  the design's one weakness as `limbo`: a text written to a path where no file lives
  may be left over whole or cut, and come up later if the path is still empty.
* **Disk** is `the_disk.ep` on the calls of the host. `at` says which host call a
  request has reached: `recover` (`disk_recover`), `act`, and for a write `install`
  and `clean`. Every host call may be refused; `Crash` may come between any two, and
  in the middle of a write. `KeepsPromise` is the refinement of `Store` with
  `store <- Visible` and `limbo <- Limbo`.
* **DiskProofs** proves the invariants, the action property and the refinement.
* **Fifo** and **Channel**: the abstract queue, and the ring of the runtime with its
  two condition variables, where a step is what happens while the mutex is held.
  **ChannelProofs** proves the refinement and that no wake-up is lost.
* **Services**: the main thread with `service_start`, `service_ask`, `service_stop`
  and `board_ask`, and every heartbeat thread it spawns. A channel is a bounded
  queue here, which module Channel justifies. **ServicesProofs** proves its invariants.
* **GcWorld**: stopping the world under `ep_gc_mutex`, the blocking region of
  `channel_select` and the switch `ep_gc_enabled` around channel calls. `at[t]` is the
  place of a thread between two safepoints. `sweeping` tells a collection that began with
  no thread running ("quiet") from one begun after 40 rounds beside one ("hasty"). **GcThreads** declares the threads the
  collector knows, which GcWorld and Heap share.
* **Accounts**: first boot, `create_account`, `login_flow` with `verify_login` and its
  migration, `delete_account` and the people commands, one action per disk call. The
  disk is not modelled again: it is an instance of `Store`, which DiskProofs shows
  the disk layer to implement. `at` names the disk call whose answer is awaited,
  `given` remembers which passwords may open an account. **AccountsProofs** proves its
  properties from the promise of Store alone.
* **Files**: `virtual_files.ep` with the fence of `session_may_write`, on the host's
  tree. A command is one step, in which every disk call is preceded by its recovery
  and may be refused; a write may also be stopped half way. A name is a sequence of
  pieces, so that "starts with" (home folders) and "ends with `.ern-new`" (stages) mean
  what they mean in the code. `saved` remembers what people were told is there.
* **Rebuilding**: "rebuild the system" and "rebuild the toolchain", one action per
  program run on the host, each of which may succeed, fail half way or be cut by
  `Stop`. A build is the round it was made in and whether it is any good;
  `installed` is the history of the systems put in place.
* **RebuildingProofs** proves the properties of Rebuilding for any number of rounds, and
  that of Loading for any projects.
* **Sentences**: `understand_command` with all its rules, on sentences as sequences of
  words. Its only state is the sentence being typed, which `Understand` turns into a
  command. `Picked`, the selection of words all its rules share, is a recursive function.
* **Notes**: the editor of `notes.ep`. `lines` is what the person sees, `note` what the
  disk holds, `unsaved` the count of the code (0, 1, or 2 after the warning); `kept`,
  `warned` and `dropped` remember what the person was shown, told and did. The host may refuse
  to read a note; the editor then opens without lines, and `misread` remembers it.
* **Conversation**: from `main` through the three faces, `login_flow`, the session and the
  apps, one action per question and answer. `at` is the question that is open; what the
  code keeps on its stack (which loop asked) follows from it. `closing` and `ended` may
  become true at any question and are noticed at the next (`Silent`, `Hears`).
  `captured`, `shown` and `painter` are the transcript and the session that is drawn,
  abstracted to whose they are. A first boot is taken to reach its end here; module
  Accounts is about those that do not.
* **BootHeap**: `ern_allocate` and `ern_heap_reset` of the bare machine, in arithmetic
  that wraps around at `Modulus`.
* **Heap**: objects are addresses, so a freed one may come back. A value is in a variable
  whose address is on a shadow stack (`shadow`), in a register or on a C stack only
  (`temps`), in an object (`refs`), in the buffer of a channel (`inflight`), in a struct or
  enum value that is still being filled (`building`) or in the block of a task (`frame`). Structs and
  enum values are a bare block first (`StartBlock`, `Fill` once per field) and registered
  when they are full (`RegisterBlock`); lists, strings and futures are registered empty
  (`Create`). A store and its barrier are two steps (`Write`, `Barrier`, with `storing`
  between them), and any thread may store any value it has at hand. A future gets its
  value without a barrier (`Complete`). A task is in the run queue or among the timers
  (`queued`), or it is stepped or suspended (`Dequeue`, `Load`, `Keep`, `Wake`, `Finish`):
  then its block stays and is scanned by nobody. Enum values with a payload ("variant") are registered
  without their fields, so marking does not go through them.
  `Collect` is `AfterMinor`, then `AfterMajor` when what is left is still too much;
  `Marked` is the least set closed under what `ep_gc_mark_object` follows. `Unseen` and
  `UnseenByMinor` name the places no collection, or no minor one, looks at; a collection
  that takes something from there sets the history `lost`. The code has these places and
  a program can lose what it keeps in them. What the properties say is that nothing else
  is lost, up to the first such loss.
  A collection is one step. GcWorld shows that a collection which begins with every other
  thread parked or waiting runs alone; one that begins after 40 rounds beside a running
  thread does not, and Heap does not describe it.
* **MemoryProofs** proves the properties of Heap, GcWorld and BootHeap for any sizes and
  limits.
* **Tasks**: `stack` is the C stack: the main program at the bottom, and on top of
  whoever drives the scheduler the task it steps. `task`, `fut`, `queue`, `timers`,
  `armed` and `group` are the structures of the code; what a program does in its
  functions is free (`Body`). A freed address of a task is used again. What a
  cancellation takes along (`Fallen`) is the least set closed under "is a child of and still
  queued or timed", the recursion of `ep_cancel_task`. A second wait on a socket takes the
  place of the first and is counted as a source of its own (`WaitReadable`); closing one
  leaves its source counted (`Close`). A loop whose sources are more than the sockets armed
  waits for ever (`WaitsForEver`). **TasksProofs** proves its properties.
* **Syntax** is the trees; **Lexer** makes layout tokens and words of lines
  (`tokenize_source`), **Parser** the tree of a file (`parse_program` down to
  `parse_primary`), **Checker** the errors of names, moves and types (`check_program`),
  **Folding** the constants (`optimize_program`), on `Width` bits, **Types** what
  generation infers of a variable or a result, **Safety** the states of variables that
  are borrowed or sent away (`analyze_safety`), **Generating** the C of a program with
  its numbered spawns and awaits (`generate_c`).
* **Loading** is `parse_all_modules` and the paths it goes along: `AlreadyParsed`,
  `ReadModule`, `ImportNext` and `ModuleDone` work on the calls in `frames` (the file each
  one reads, the import it is at, the functions it has collected). What lexing and parsing
  make of a file is the constant operator `ReadFile`, so that nothing is known of it but
  that its imports and its functions are lists. `trees` keeps what was read at each path;
  no action depends on it, `LoadedOnce` does. `PassOn` stands for what main does afterwards.
* **Compiling** puts the compiler together: its `Read`, the lexer and the parser on the
  lines of a file, is given to Loading as `ReadFile` by the configuration; after loading
  come `Check`, `Optimize`, `Generate`, `WriteC` and `Clang`, each of which may end the run
  with a `result` and leaves alone what Loading keeps, but for the program. One behaviour
  is one call of the compiler on one project.
* **MCMemory** is the memory of a program: Heap or BootHeap, as the target of the
  compiler says. **MCPerson** is what a person does at the system: Conversation,
  Sentences, Notes and Files, of which a behaviour follows one. Neither adds a step to
  the modules it puts side by side; they hand each other values (a command, a path, a
  note), and each is checked with all of those. **PersonProofs** proves the properties of
  Conversation, Notes, Files and Sentences.
* **MCCompiling** holds the projects the compiler is run on, a printer that writes trees
  as lines, the meaning of a tree, and the meaning of generated C with C's precedences.

In Compiling a word is a token and C is a tree whose brackets are explicit: characters are
not modelled, the order of tokens and the place of every bracket are.

`MC*` modules carry the small instances. Operators marked as mutants are slips that
the code could have had; each property is shown to notice one of them.

How the modules depend on each other:

    DiskTypes <- Store <- Accounts <- MCAccounts, AccountsProofs
    DiskTypes <- Disk (refines Store) <- MCDisk, DiskProofs
    Fifo <- Channel (refines Fifo) <- MCChannel, ChannelProofs
    Services (channels as bounded queues) <- ServicesProofs
    GcThreads <- GcWorld, Heap;  GcWorld <- MCGcWorld;  Heap <- MCHeap
    MCHeap, BootHeap <- MCMemory
    Heap, GcWorld, BootHeap <- MemoryProofs
    Rebuilding <- MCRebuilding;  Rebuilding, Loading <- RebuildingProofs
    Files <- MCFiles
    Conversation, Sentences, Notes, MCFiles <- MCPerson
    Conversation, Notes, Files, Sentences <- PersonProofs
    Tasks <- MCTasks, TasksProofs
    Syntax, Lexer <- Parser;  Syntax <- Loading, Checker, Folding, Types
    Types <- Safety, Generating
    Loading, Parser, Checker, Folding, Safety, Generating <- Compiling <- MCCompiling

## The runs

| Run | What it asks | Bounds, and why they are enough |
|---|---|---|
| `disk` | Do stages hold what the code relies on, do completed files change only as wholes, does the layer implement `Store`? | Two paths, each with its staging place, which is enough for a rename from one path to the other; two texts, one the beginning of the other, so that a cut text can be told from a whole one. `MaxLength = 2` only stops appends from growing a file further. |
| `disk_short_writes` | What if the host keeps a part of a text it accepted? | The same. Violated: see the findings. |
| `services` | Late replies, restarts over a living thread, full channels | `Capacity = 2` for 1024, so that channels fill up; two starts, so that an old thread and a new one run together; five requests, more than two channels of two places hold. |
| `channel` | Is the ring a queue, is no wake-up lost? | Two senders, two receivers: a woken thread can be overtaken by another of its kind. Two slots and four sends: the ring wraps around twice. |
| `gc_world` | Does a quiet collection stay alone, does every stop end? | Three threads: one collects, one waits in a channel call, one can wake it. A collection that begins after 40 rounds although a thread still runs is a step of the model, and what it may meet is left out of `QuietWorld`. |
| `accounts` | Do only given passwords open an account, is nobody locked out, does an administrator stay? | Two names (an administrator and another) and two passwords (the right one and a wrong one). They are interchangeable, so their permutations are a symmetry; no property under it is a liveness property. The disk starts empty or with a record of the old scheme. |
| `rebuilding` | Are only checked builds in place, is the last system kept, does a rebuild install what it built? | `MaxRounds = 4`: a rebuild, one that leaves something behind, one of the compiler and one more. The proof does without the bound. |
| `memory` | Does everything survive that is kept where collections look, does nothing point to freed memory, is the remembered set complete when a minor collection needs it? On the bare machine, do blocks stay apart? | Three scenarios, of which a behaviour follows one: two threads with a channel, one thread with a task and futures, the bare machine. Three objects: one thread stores while the other collects, and a chain root, old, young exists. `MaxRoots = 1`, so that roots above the limit come up; a nursery of 2 and a threshold of 3, so that minor and major collections alternate. `FewPlaces` bounds the references in variables, registers, half-built structs, channels, tasks and objects to `MaxHeld = 4`, and stops behind the first loss, after which the properties say nothing. Objects and threads are symmetric. An arena of four units, with every size around a boundary in it, none above the arena's. The proofs do without the bounds. |
| `heap_variants` | The same, with enum values | One thread, three objects. Violated: see the findings. |
| `tasks` | Is a task in one place, is everybody woken whose future is completed, does every loop end? | Three tasks, two futures and a socket: two tasks await one future while a third is cancelled or times out. Sleeps of 0 and 1 on a clock up to 1 give timers of equal and of different moments; `MaxDepth = 3` lets a loop run inside a step inside a loop. The socket may be waited for twice or closed while it is waited for. A result is 0 or 9, which stands for the failure a group stops at. |
| `compiler` | Is a program read as it was written, refused when it is wrong, generated as it is meant, numbered alike by both walks, loaded once? | About six thousand projects in ten families of MCCompiling: all expressions of two operators in every shape; loops with every step; kinds of values; structs, enums, methods, externals; moves and borrows by three statements in a row and around if, while and for-each; threads and awaits; a wrong statement planted in every place; lines at every depth; imports in circles, with names and without files; freestanding programs. `Width = 5` for 64 bits, so that folding wraps around; a meaning runs `Fuel = 12` turns before it counts as endless. |
| `person` | Is a screen shown to its person only, does a closed window end everything, is silence no answer? Does padding change a sentence, are names found? Does the editor lose lines unwarned? Does what was saved stay, do members change only their home? | Three people (an administrator, somebody who is added and removed, somebody else) and the three faces. Sentences of four words out of thirteen, one for every sort of word a rule looks for: a verb, padding before or behind it, and a name of two words or a word that places it. Notes of up to three lines, enough to remove one from between others; two words and a blank line; any read may be refused. In Files a member and an administrator whose name begins with the member's; a home, two names in it of which one is the stage of the other, and one name inside each, as folders move with what they hold; `MaxThings = 6` counts the three home folders. |

Deadlock is not checked in seven passing runs and in `heap_variants`. In `services` and
`channel` the bounds on requests and sends end the behaviours; in `gc_world` every
thread may wait for a message that nobody sends; in `memory` garbage may
fill all three addresses before a collection is due; in `person` sentences end at their
bound and the note editor is left; a call of the compiler ends; in `rebuilding` a stop
between the two moves of the swap leaves nothing to boot, which the code accepts (a person
has to rename `.previous`) and `TheLastSystemIsKept` says is possible. In `tasks` it is
checked: a scheduler with nothing to run says so and ends the process.

### Fairness

Four runs check liveness.

* `services`, `StopIsObeyed`: the main thread does not stay in a send that has room nor
  in a wait of `board_ask`, which ends after 2000 ms; a heartbeat thread takes an order
  that is there and does not stay in a send that has room. Each is weak fairness of
  one action and asks no more than that the host schedules its threads. Nothing is
  asked of `Beat`, of the person, or of which of `Hear` and `GiveUp` wins.
* `gc_world`, `StopEnds`: a thread that stops the world counts at most 40 rounds of a
  timed wait and then collects, and a collection ends. No fairness is asked of the
  threads that are waited for.
* `tasks`, `DrivesEnd`: weak fairness of one disjunction, the steps of the one thread
  that runs the scheduler: a loop takes its next turn, a step that has nothing else to do
  returns, the event loop comes back from its wait. It rests on functions that end and
  sockets that become ready; which socket, which task and what a program does stays free.
* `person`, `CloseEnds`: weak fairness of answering while the window is closing, and only
  then: `glass_read_line` and the question for a secret come back at once when the window
  was closed, so that whoever asked goes on. Nobody is expected to answer otherwise.

## What is proved

`DiskProofs`, for every set of paths and texts and every injective staging map that
moves each path (`PlacesAssumption`), and any texts (`TextsAssumption` only says that they are
sequences of pieces):

* `DiskTypeCorrect`: the type invariant.
* `StagingDisciplineHolds`: while the host keeps whole texts (`~ShortWrites`), the
  staging place holds the whole new text between staging and install, and nothing
  worth keeping when it is cleaned up. The inductive invariant `DiskInv` is the type
  invariant, with `Busy` (there is a request while one is served), `RightStep` (an open
  request is at a step its operation has) and `StagingDiscipline` itself.
* `OldOrNewHolds`, when no staging place is itself a path (`StagesAreHidden`): a completed file changes only by a request that asked for it, to the
  text it asked for. It follows from the invariant, one step per action.
* `DiskImplementsStore`, under the same two conditions: every initial state of Disk is one of Store under
  `Visible` and `Limbo`, and every step is a step of Store or a stutter. `Recover*` and
  `StageText` stutter or move a text into limbo, `Install` is where a write takes place.

`RebuildingProofs`, for any number of rounds (`MaxRoundsAssumption`): `TypeCorrect`,
`CheckedBuildsOnly`, `LastSystemKept`, `PutsInPlaceItsOwn`. None of these properties is
inductive: a swap installs whatever is called `rebuilt_ern_os`, so that the invariant has
to carry what is there at each step. `IInv` adds `FreshInStep` (after the compile step
the fresh program is of this round, and after the check it is sound), `BakedInStep` (the
same for the compiler), `SwapInStep` (where the old system is between the two
moves) and `HistoryIsSound`.

`RebuildingProofs`, of Loading, for any projects, files, imports and aliases
(`TreesAssumption` says that the parser's lists are sequences and that functions have
names): `LoadedOnceTheorem`. `AsRead` says that `trees` is what the files say. What is
loaded in the end follows from where each import stands in between, which `LoadInv` says.
`Calls`: the calls are a chain of imports, each with a file of its own that it has read,
but for the innermost. `InOrder`: no path is noted twice, and each but the first was
imported by one before it. `Followed`: an import that was read is `Pending` (its file has
not come to it), loaded, or the call that is about to read; as the first call ends
nothing is pending, so that everything is loaded. `AskedFor`: whatever is loaded some
import asked for that is pending no more. So the file of an import no other import names
cannot have been loaded before its call begins, and `Brought` follows the names it
brings, from one call to the next, up to the program. The steps of the compiler are these
steps: `Next` of Compiling is `LoadNext` with `code` unchanged, or an action that has the
shape of `PassOn`.

`MemoryProofs`, of Heap, for any sets of addresses (a finite one), threads, tasks and channels and any
limits (`HeapAssumption`):

* `HeapIsInvariant`: `HeapInv` is inductive. Its part `Kept` says that, as long as nothing
  was lost and when a program allocates no enum values with a payload, three things hold
  together, none of which does alone: `NoDangling`; what threads, channels and tasks hold
  is registered; and `OldToYoungIsRemembered`. A minor collection
  frees young objects without a look into old ones, which is right only because the
  remembered set is complete, and a store breaks that until its
  barrier. A collection that comes between them, in another thread, finds the value in the
  storing thread's registers only (`StoresAreHeld`): a major one looks there, a minor one
  does not, and then either the value was found on another way or the collection has
  lost it. `RememberedIsYoung` and `CountsAreExact` make the thresholds and
  the sweep right; `LeavesHoldNothing` says that what holds something is traced, or is an
  enum value.
* `NothingInUseFreed` and `RememberedSetIsRight` follow for programs without such enum values
  (`"variant" \notin Kinds`; with them `NothingInUseIsFreed` is false, as `heap_variants` shows),
  `HeapTypesAndCounts` and `CollectorSparesItsOwn` for all programs. The argument of
  a collection is in three lemmas: what somebody holds is a root or unseen (`RootsOrUnseen`),
  what is left without a loss is closed under reference (`CollectionLeavesClosed`), and the registers
  of the collecting thread are spared (`CollectionSparesItsOwn`).

`ServicesProofs`, for any finite set of threads and any bounds (`BoundsAssumption`):
`OneBeatsForEver`, `LeftoversWereMissed`, `RoomForSends`. The properties are not inductive
alone: the invariant adds `SpeaksToTheBoard` (who asks or stops a service has its record say
that it runs, and its thread is on the board), `CountsInStep` (what was missed or is awaited
was sent, what is being answered was asked) and `GoodbyeIsComing` (while a goodbye is
awaited, the thread on the board is gone or has its order to stop).

`ChannelProofs`, for any capacity, any values and any finite sets of senders and receivers:
`ChannelImplementsFifo` (the invariant `RingInStep` ties head, tail and size together) and
`NoWakeUpIsLost`. The latter counts: while a receiver sleeps there are no more values than receivers
awake at the mutex to take them, and the same of senders and free slots.

`MemoryProofs`, of GcWorld, for any finite set of threads: `WorldTypesHold`,
`ParkedExactly` and `QuietStaysQuiet`, with `SweeperHoldsTheMutex` (who sweeps collects,
under the mutex).

`PersonProofs`, of Notes, for any words and any number of lines, and for hosts that refuse
any read: `NothingLostUnwarned`, `ScreenIsDisk` and `NothingElseIsTaken`, that a
save takes no line but those the person took out. The one exception stands in the
properties: after a read that was refused (`misread`), until the next save, the screen is
empty although the note is not, and that save replaces the whole note. The invariant `EditorKnows` says what
each count means: at 0 the lines are those kept, at 2 there was a warning, and the words
of the note are on the screen or dropped. `Appending`, `Replacing` and `TakingOut` say
what the three changes leave of a sequence.

`PersonProofs`, of Conversation, for any names and any of the three faces: `ScreensAreTheirs`
and `SilenceAnswersNothing`. `ScreenIsTheirs` is not inductive, as what is captured in one
question is drawn in another; `AskedForWhom` says of every question whose name and session
there are, whose desktop is drawn and whose lines the transcript may hold, and
`OnlyWindowsClose` that only the glass asks to be left.

`PersonProofs`, of Files, for any people and any places that are not empty paths of
names and have the folders above them among the paths (`PlacesAssumption`):

* `FileInvHolds`: the type invariant with `FoldersAbove`: above everything that is there
  are folders. The type invariant says so of parents only, which no `Moved` keeps by itself:
  a folder moves with all below it, and what is below the place it moves to has to be
  empty. `NothingBelow`, `WithoutKeeps`, `PutKeeps` and `MovedKeeps` are the lemmas
  about the host's calls, `Recovering` says what a recovery can have changed.
* `MembersStayHome` (`MembersChangeTheirHome`): what a member may write to, its stage and all
  below them are not abroad (`OwnThings`), so that only the recovery of something else
  remains.
* `ToldStays` (`SavedThingsStay`): the hard case is a move onto a name that is taken. It
  happens only when `disk_exists` called the name free as it could not clear the stage
  beside it, and that stage was there before the command, or came up out of one that was
  (`BesideBefore`).

`PersonProofs`, of Sentences, for any vocabulary and sentences of any length:

* `PaddingTheorem` (`PaddingIsPadding`): the rules select words, and look for a word and for
  what stands behind or before it. What padding there is falls away in each of these parts
  by itself, as the words a rule looks for are not padding (`VerbsAreTheirOwn`): the head of a
  sentence, the words between two of its words, and the text behind "saying" are, without
  padding, those of the sentence without padding (`HeadAndText`, `HeadKept`,
  `PartsAtSaying`).
* `NamesTheorem` (`NamesAreReached`): a name of any length without words of a meaning of
  their own is the target of each of nine ways to use it, one lemma for each (`MadeAsCalled`
  to `WrittenAsCalled`), from `NameAfter` and `NameAtLast`, which say what a name leaves of
  the words around it.

Both rest on `Picked`, which goes through a sequence and leaves out the words of a set
(padding, articles). What it gives for two sequences in a row, and which words it keeps, are proved
by a least place where it would not be so (`WFMin` on the naturals), as the prover has no
induction over an operator.

`TasksProofs`, for any tasks, any finite set of sockets, any delays and any bounds on
futures, on the clock and on the depth (`TasksAssumption`; `NoneAssumption` keeps a freed
address apart from a task): `TasksAreTyped`, `EachTaskInOnePlace`, `CompletionWakes`,
`LostOnlyToOthers`: a task is lost only to somebody who took its place, as the waiter of a
future or at a socket, or to a socket that was closed. `InOnePlace` counts places and is not inductive, as a count does not
say which. The invariant `TaskInv` gives every task a home (the queue, a timer, a
socket, the stack, the place of the waiter of a future, or none): each structure holds
exactly those it is home to and each of them once; who has a home was not freed, and the
future it will complete was made. Every action moves one task, or the fallen ones
together, from one home to another.

`AccountsProofs`, for any names and passwords (hashes are locks that open to their own
password), on any disk that keeps the promise of Store: `AccountsAreTyped`, `OnlyGivenEnter`,
`NobodyLockedOut`, `AnAdministratorIsLeft`. The invariant `AccountInv` has four parts.
`Covered`: every text at a record, also one in limbo that may still come up, is
the record, whole or cut behind its lock, of a password and a role that are given. `Mind`:
with whom the thread deals, and which password and role it has, at each step. `Asked`: the
request that is open is the one its step sends. `Remembered`: what the thread concluded from
the last answer is still so, such as that the record it has written is whole with nothing in
limbo beside it, which the roll-back and the migration rest on.

`MemoryProofs`, of BootHeap, for arenas of any number of units and any width, for sizes up to the
arena's (`Sizes \subseteq 0 .. HeapBytes`): `BlocksStayApart`, and `RoomIsUsed`, that no
size is refused which the rest of the arena holds. The invariant: the position is a
multiple of 16 inside the arena, and every block ends before it.

`StagesAreHidden` is the assumption the layers above have to keep. Accounts keeps it, as a
name has no dot in it; Files does not, as people can type `.ern-new`, and is
therefore modelled on the host's tree instead of on Store.

Model-checked only: all liveness (`StopIsObeyed`, `StopEnds`, `DrivesEnd`, `CloseEnds`), as
fairness and enabledness are not for the prover; and the compiler behind loading
(`ReadAsWritten`, `NoStatementIsUnchecked`, `MeansWhatItSays`, `AcceptedIsSafe`,
`NumberedAlike`), whose functions are recursive over trees, so that what they compute for
every input needs an induction over data.

## Where the code and its words part

Two runs show a sentence of the repository that the code does not keep:

* `ep_write_file` does not look at what `fputs` and `fclose` say, so a full disk installs a
  cut text as a completed file (`disk_short_writes`).
* An enum value with a payload is registered without its number of fields, so the payload
  is freed while the value is alive (`heap_variants`).

Formulas that state what one would expect and do not hold stand in the modules with a
comment that says so; no run checks them:

* `StoppedMeansGone` (Services): `service_stop` says that a service stopped when its
  goodbye never came.
* `SwitchComesBack` (GcWorld): two overlapping channel calls restore the collector's switch
  in the wrong order and leave it off.
* `FirstBootMakesAnAdministrator` (Accounts): a first boot that ends between the users
  folder and the first account leaves a login nobody can pass.
* `MembersKeepOut` (Files): looking at somebody else's note recovers its stage, which may
  be a thing its owner saved under that name.
* `NobodyIsLeftBehind` (Tasks): a cancelled task's future is completed without a look at
  who awaits it. `NewTasksAreChildless` (Tasks): a freed task stays the parent of those it
  started, and its address is used again.
* `RefusalsAreSeen` (Conversation): the glass desktop starts the transcript over before it
  draws the next frame (`glass_desktop.ep:271`), so that "I do not know anyone called ..."
  and "Three wrong passwords" are never seen, where `the_terminal.ep:12` says of said words
  that they "land in the right place".
* `PaddingNeverMatters` (Sentences): `go` looks for "to" right behind itself only
  (`understand_command.ep:308`), so that in "go please to letters" the "to" becomes a part
  of the name; line 28 calls padding words that do not change what is asked for.
* `EmptyMeansNoNote` (Notes): a refused read gives "" as a missing note does
  (`virtual_files.ep:77`), and the next save replaces the note that is there (`misread` in the other properties).
* `NothingInUseIsFreed` and `RememberedAsNeeded` (Heap) without their `lost`: a minor
  collection does not look at the C stacks of other threads (`epc_bootstrap.c:1595`), no
  collection looks at the variables of suspended tasks, at structs that are still being filled
  or at variables above `EP_GC_MAX_ROOTS`, and a future that is old gets its
  value without a barrier. What is kept there only is freed.
* `DrivesEnd` (Tasks) without its last exception: a socket that is waited for twice, or
  closed while it is waited for, leaves a source on the count that nothing takes off
  (`epc_bootstrap.c:404`), and the loop waits for ever.
* `BlocksAreInTheArena` (BootHeap): a size above the arena's makes the difference that is
  compared wrap around (`freestanding.c:53`) and is handed out. It fails with such a size
  in `Sizes`.

In the compiler, where the properties name each as an exception:

* `MeansWhatItSays`: a comparison of numbers is printed without brackets
  (`epc_bootstrap.c:15983`), and `continue` in a for-each jumps over the step of the index
  (15533).
* `AcceptedIsSafe`: a statement that is an expression is not looked at for moved variables,
  for-each and match are not entered, and a loop's body is walked once (17430).
* `NumberedAlike`: spawns in for-each, match and methods are numbered by one walk and
  not by the other (16691), a spawn of a function whose name means something in C
  calls the name unchanged (18134), and awaits in a block, in another await or
  in a list are computed under one number and read under another (12554).
* `NoStatementIsUnchecked`: a path is compared as it is spelled (5778), so that a file under
  two spellings is loaded twice and refused for its functions.
* `LoadedOnce`: an import with a name brings nothing under that name when the file was
  imported before (5892).

Met on the way, and part of the models rather than exceptions of a property: at the end
of the typed input the two text faces ask for a name again and again; the goodbye of a
desktop is filed in a transcript nobody draws any more; a
stage that was cut is promoted when no file was there before, where
`docs/how_ern_os_works.md:167` promises a complete one (`limbo` in Store says so, and a
record cut that way has no role, see `NobodyEntersUngiven`); the diary notes of
`rebuilding.ep` at lines 20, 32, 45 and 62 stand after a return and are never written,
where `docs/the_command_language.md:84` says that they are; `account_exists` and `vf_move`
take a name for free when a stale stage beside it cannot be cleared (`WritesOver` in
Accounts, `StagesBeside` in Files); in `epc_bootstrap.c` the token of `Float` and the one
of "]" share a number (6847, 7392), `%` of floats becomes `+` (15861), only the first
implementation of a method's name is generated (18202), a function
with the name of one of the runtime's is not generated (18228), the results of functions
are inferred in three rounds (13972), a call of something that is no name
prints an error without counting it (10128), and circles of imports through ".." grow
their paths without end.

## What is not modelled

Layout, colours, wording and drawing, and the tour of the first day; the contents of the
diary beyond appending; digests of passwords (a lock opens with the password it was made of
and no other); letters and capitals (words are values); where a session stands, which only
says which path a command is about; networking, hashing and the libraries, which the system
does not call; starting the bare machine and its letters on a port. Of the runtime, the bytes of an
object are left out; the registry of 1024 channels is `ScannedChans` in Heap, a constant. Of the compiler, characters (words are
tokens), floats beyond their kind, debug lines, the text of the runtime it writes in front
of a program and what clang makes of the result (it may fail or not) are left out. An
overflow of signed numbers is undefined in C; Folding and both
meanings in MCCompiling wrap around, which is one of the outcomes a build can have.

## Plan

1. **PathNames**: `vf_resolve` and `vf_parent` against a reference definition over bounded
   paths; sessions that stand in a folder which is moved or removed.
2. **Folding** with a recursive function instead of recursive operators, so that it can be
   proved that folding keeps the meaning of an expression.

# Verification of PokemonStadiumRecomp

PokemonStadiumRecomp runs a Nintendo 64 game recompiled to C: the game's threads run on a
cooperative runtime, the audio microcode is recompiled C++, and around them a Windows/SDL
runner supplies input, audio and a renderer. A debug server, an emulator oracle ("Ares") and
a post-mortem writer observe the run. This directory models the parts of that program whose
correctness depends on the order in which things happen. Paths below are relative to the
repository's root.

Every module is written from the source. The runtime (`ultramodern`, `librecomp`), the game
and Windows are not in this repository; where they are needed they are modelled from how this
code uses them, and `PROJECT.json` marks those definitions `external`.

## 1. Inventory

| Part | State | Operations | Interacts with | What makes it hard |
|---|---|---|---|---|
| Ares worker (`src/main/ares_worker.cpp`, `include/ares_worker.h`) | `g_queue`, `g_mutex`, `g_cv`, `g_running`, `g_thread` | `start`, `shutdown`, `post_job`, `dispatch`, `worker_main` | debug server (every `ares_*` command dispatches) | condition variable, a flag written outside its mutex, jobs that refer to their caller's stack |
| Debug server (`src/main/debug_server.cpp`) | override atomics, history ring, socket, `s_running` | `handle_command` (about 60 commands), `server_loop`, `start`, `shutdown` | input, post-mortem, worker, rings | a second thread that changes what the game reads, with single atomics |
| Controller input (`src/main/main.cpp:281-510`) | `g_pad`, `s_last_buttons` | `poll_inputs`, `get_n64_input` | debug server's atomics, SDL | four loads against four stores |
| Post-mortem (`src/main/post_mortem.cpp`, `main.cpp:540-659`) | `g_dump_mutex`, two report files, `last_error.log` | `psr_post_mortem_dump`, `psr_crash_filter`, atexit handler, `dump_threads` | every thread: it suspends them | crash at any point, suspended lock holders, two walks at once |
| Replaced busy-waits (`extras.c:2205-2323`, `game.toml`) | thread priority, `D_800846C0.queue` | `func_8000771C`, `pkmnstadium_petit_cup_yield` | the runtime's scheduler, the audio scheduler thread | cooperative scheduling: a wait that keeps its priority deadlocks the game |
| Audio microcode (`rsp/aspMain.cpp`, `src/main/rsp_aspmain_hook.cpp`) | registers and DMEM that outlive a task | `aspmain_pre_task`, `aspMain` | the runtime's RSP thread, the game's command lists | chunk boundaries, four counters, state inherited from the last task; voices that share DMEM and keep their own state in DRAM between tasks |
| ROM selection (`main.cpp:785-910`) | `rom.cfg` | argv, saved path, legacy path, picker loop | file system, user | stops between two steps, a saved path that no longer validates |
| Audio output (`main.cpp:89-214`) | carried-over frames, converter, volume | `queue_samples`, `get_frames_remaining`, `set_frequency` | SDL's queue, debug server's volume and fast-forward | integer ratios, early returns that skip an update |
| Turbo (`main.cpp:254-279, 686-705`) | `g_fast_forward`, `s_turbo_persistent` | TAB, `PSR_TURBO`, TCP `fast_forward` | audio output, debug server | three writers of one flag |
| Voices and pool (`extras.c:1880-2037`) | voices and banks in the game's memory | `audio_stop_voices`, `pool_pop_silence_voices` | the game's pools and synth | a voice that outlives the bank it reads |
| Diagnostic rings (`extras.c:236-946, 1206-1281, 2172-2193`) | rings and sequence numbers | one writer hook and one reader each | game threads write, server and post-mortem read | index published before the slot, `seq++` on a shared word |
| Shadow stacks (`extras.c:275-295, 950-960, 1013-1019, 1118-1141, 1287-1424, 1529-1599`) | per-thread stacks of 8 or 16 | enter and exit hooks, address resolver | hooks in `game.toml` | depth past the end, fallbacks to slot 0 |
| Renderer context (`src/main/rt64_render_context.cpp`) | RT64's application | forwards every call | RT64 | none of its own |
| Boot (`main.cpp:646-983`, `register_overlays.cpp`) | callbacks | a straight line | everything | a 100 ms delay in place of a handshake |
| Tools (`tools/`, `ghidra/`) | none | offline scripts, TCP clients | debug server | sequential |

What makes each modelled part correct:

* worker: a job runs exactly once, in posting order, while its caller waits; calls return; `shutdown` returns.
* input: what the override holds reaches the game; disarming leaves nothing behind; a dump of the
  history is the latest events in order and replays to the same override.
* post-mortem: reports are whole, the two files match unless the second could not be opened, nobody stays suspended, a dump finishes.
* waits: they end, with the priority restored, and while they last everybody else comes first.
* microcode: every command of a list is dispatched once, in order, and nothing else is; what a list
  leaves in the output is the mix of its voices, as if each were alone and never cut into tasks, and
  a command that ends a list early harms no voice before it and no later list.
* voices: none is pulled from a bank the pool has freed, none is stopped whose bank stays.
* hooks: the exit of a bracketed call sees that call's arguments; an address of the ambiguous
  fragment bucket resolves into the variant that is walked.

## 2. Modules

| Module | Models | State and actions in the code |
|---|---|---|
| `JobExecutor` | the promise of `dispatch` (`ares_worker.h:20-22`) | abstract: pending callers, one served at a time |
| `AresWorker` | `ares_worker.cpp`, `dispatch` | a job is named by the thread that posted it. `Start`/`Shutdown*` are the statements of the lifecycle; `Post`, `PostNotify`, `Return` those of a caller; `Worker*` the lines 33-39 of `worker_main`. The predicate, the block and the second read of `g_running` are separate steps, for `shutdown()` writes the flag without the mutex |
| `DebugControls` | input commands, history ring, `get_n64_input` | `Receive`/`Store`/`Record` are a command, one atomic store at a time; `Poll*` the four loads and the merge; `Dump` and `Replay` are functions of the state, so they are judged at every moment |
| `CoopWait` | both waits on an external scheduler | `Enter*`, `Predicate`, `Leave*`, `Yield*`, `RestoreHooked`: the code between two calls of the scheduler is one step, since only the current thread runs it. `Predicate` reads both things that `func_80001C90` does (`extras.c:2235-2237`), `D_80083CA0.unk_AA0` and `queue.validCount`; the game's writes of the first are `Gate` |
| `PostMortem` | dumps and their callers | one program counter per thread; `Fault`, `Exit`, `DumpCommand`, `DumpThreads`, `Quit` start something, `Lock` ... `End` are the dump. A file is the set of the dumps whose text is in it; the heap is its lock. Either `fopen` may fail: `Open` then ends the dump, `History` says nothing and leaves the history that was there (`missed` remembers that) |
| `AspPump` | hook, pump, dispatch loop | the labels `L_1064`, `L_1120`, `L_10C8`, `L_10EC` of the recompiled code, counted in commands (8 bytes) |
| `AspHandlers` | the handlers of `aspMain.cpp` | `asp` is the machine: DMEM, the predictors, the scratch at r24, and the blocks of DRAM a voice's state is stored to. A handler is a function of the machine and a command, named after the label the jump table sends it to, with an operator per inner label, so that whole lists can be reasoned about; `Handler` is the dispatch of one command, the entries 14 (`L_12B0`, in the middle of SETVOL), `0x1BB4` (in the middle of ENVMIXER) and `0x1000` or unknown (the task ends) included. `StartList`, `Pull`, `Aside`, `FinishList` are the game's synthesizer, which writes the lists and, in `wanted`, what they should sound like; `harm` and `lost` tell which voices some of a list's commands never reached |
| `BankVoices` | `pkmnstadium_audio_stop_voices`, `pkmnstadium_pool_pop_silence_voices`, the layout registered in `main.cpp` | `AudioStopVoices` and `PopState` are the hooked functions with their hooks; the rest is the game: its pool (a low head and a stack of saved ones), its sequencer and the synthesizer's voice lists |
| `HookedCalls` | the entry and exit hooks of `extras.c`, `pkmnstadium_memmap_get_exit` | `Enter`, `LoaderExit`, `MemmapExit` are the hooks, on a shadow stack per thread and function; `calls` is the real call stack, which the code does not have. `LoadVariant`, `StartWalk` and their opposites are the game |
| `*Proofs` | theorems of the module they extend | |
| `MC*` | values of the constants for TLC | |

Definitions with a plausible bug stand right before the one they resemble (`PostAtFront` before
`Post`). Nothing uses them; substituting one for its neighbour must break a property, and
`PROJECT.json` says which.

## 3. Runs

| Run | Configuration | Bounds, and why they are enough | Shows |
|---|---|---|---|
| `ares_worker` | `MCAresWorker.cfg` | 3 callers: one job running, one queued and one more pushed behind it | types; `CaptureIsLive`, `NoneForgotten`, `NeverPopsEmpty`; `ImplementsExecutor`; `EveryCallReturns` |
| `ares_shutdown` | `MCAresShutdown.cfg` | same | **violated**: `shutdown()` may never return, with nobody posting any more |
| `debug_controls` | `MCDebugControls.cfg` | 2 buttons, a stick axis centred or not, a ring of 2 slots, 3 commands: the ring wraps, and a command can meet every point of a poll | `DisarmedIsNeutral`, `PollIsCurrent`, `HeldReachesGame`, `DumpIsLatest`, `DumpReplays` |
| `debug_history` | `MCDebugHistory.cfg` | same | **violated**: a dump may lack the event that caused a crash |
| `coop_wait` | `MCCoopWait.cfg` | the game thread (10), the audio scheduler (3), one thread above both and one between; 2 tasks, so one can be done while one is with the host | `PriorityIsBack`, `GivesWayOnlyInWaits`, `ComesLastInWaits`, `WaitEnds` |
| `post_mortem` | `MCPostMortem.cfg` | 3 threads: the one that exits, the server, any other. Two dumps and the unlocked walk meet | whole and matching files, either of which may fail to open, everyone resumed, who may suspend the writer |
| `dump_finishes` | `MCDumpFinishes.cfg` | same | **violated**: a dump can hang |
| `asp_pump` | `MCAspPump.cfg` | chunks of 3, lists of 0 to 7 (none, part of a chunk, a whole one, two and a rest), 3 tasks with and without flag and address; `MaxOffset` ends the walk past a chunk that only a SPNOOP causes | order, completeness, pump within the list, tasks end |
| `asp_handlers` | `MCAspHandlers.cfg` | 2 voices of different lengths, loops and pitches, vectors of 4 samples, buffers of 3 vectors (a frame and a half), 5 phases to the sample, 3 tasks: a voice decodes nothing in some task, ends on a frame's end and in the middle of a task, loops with and without a first part, is faded, is restarted, and the other voice is pulled before or after it. In the second list, before, between or behind the voices, there may be half a SETVOL, an entry that ends the list or one that leads astray, so that there is a list before the accident, the one it happens in and one after it (`AsideTasks`) | `OutputIsTheMix`, and where each voice's decoder, resampler and volumes are between tasks |
| `bank_voices` | `MCBankVoices.cfg` | a pool of 3 cells, 3 allocations of any size, 2 marks, 1 high-level voice, 2 synthesizer voices of which one is no source of the auxiliary bus: banks stack up, one is popped under another's note and its cells are allocated again | `PlayingBanksAreLive`, `KeepsOthersPlaying` |
| `hooked_calls` | `MCHookedCalls.cfg` | 2 threads, a shadow stack of 1 slot and calls 3 deep on the walker's thread, 1 on the other; 2 variants of 2 and 1 bytes in 2 neighbouring buffers and offsets up to 2, so that an offset can be too large for the one and fall into the other. `ArgSymmetry`: arguments are only compared | `ExitSeesOwnCall`, `WalkedVariantWhenGameFails` |
| `walked_variant` | `MCWalkedVariant.cfg` | same | **violated**: the walked variant is not always the active one |

`CHECK_DEADLOCK FALSE` is set where the system may stop: callers idle after a shutdown, all
threads blocked with no interrupt to come, the process ended (also by an unknown synthetic address,
on which librecomp aborts), the last task done.

### Fairness

* `AresWorker`: the operating system runs every thread that can run. Nobody has to call
  `dispatch`, `shutdown` or a second `start`; no spurious wake-up is owed. `main()` does start the worker.
* `CoopWait`: the host finishes the tasks it was given; the current thread runs on; other game
  threads handle their messages and block. No interrupt has to come, and the game need not submit.
* `PostMortem` (`dump_finishes` only): threads that are not suspended run, and a mutex that is
  free again and again is acquired in the end (strong fairness of `Lock`). `GetThreadContext`
  need not fail. Without these assumptions the counterexample would say nothing.
* `AspPump`: the RSP thread runs a task it has begun.

### What the violated runs found

1. `ares_worker.cpp:53-55`. The worker finds the queue empty and `g_running` true; `shutdown()`
   stores false and notifies; only then does the worker block. `join()` waits for a thread that
   nobody will wake. (`ShutdownReturns` does not hold `shutdown()` to return while threads go on
   posting, so that the counterexample is this one and not a queue that never drains.) Taking `g_mutex` around the store would close the gap. (`main()` does not
   call `shutdown()` today; the header documents it as part of the lifecycle.)
2. `debug_server.cpp:313-316`. The override changes before the event is recorded, so the input a
   crash is due to can be missing from the history that is to reproduce it.
3. `post_mortem.cpp:291`. The walk suspends a thread that may hold the heap's lock and then
   allocates; and `dump_threads`, which does not take `g_dump_mutex`, may do the same to the thread
   that dumps.
4. `extras.c:1404-1406`. With two variants of the bucket resident, `gFragments[id]` names the one
   registered last. Walking the other, an address resolves into the one that is not walked, for
   the game's answer is trusted when it is inside any resident variant. The comment of the hook
   (`game.toml:3184-3189`) says that the variant that contains the walker's command pointer decides.
   `hooked_calls` shows that it does whenever the game's answer is in no resident variant.

## 4. Proofs

TLAPS proves, for every value of the constants that meets the module's assumption:

| Module | Theorems | Inductive invariant |
|---|---|---|
| `AresWorkerProofs` | `TypeCorrect`, `CapturesStayLive`, `NobodyForgotten`, `FrontIsThere`, and `Refinement`: `AresWorker` implements `JobExecutor` | the properties themselves, with the shape of a step: who holds the mutex at which line of `worker_main`, when the worker's local holds a job, and what the lifecycle implies about the worker |
| `CoopWaitProofs` | `TypeCorrect`, `PriorityComesBack`, `GivesWay`, `ComesLast` | what the locals mean: `saved_pri` is the created priority while it is lowered, so that in a wait the game thread's is below everybody's whenever the scheduler chooses, and it is never blocked there; outside the waits the current thread is a highest one; and every DONE that `outstanding` counts is on its way, so that `TakeDone` never counts below 0 |
| `AspPumpProofs` | `TypeCorrect`, `ListsRunInOrder`, `ListsRunToTheEnd`, `PumpKeepsToTheList` | `Counts`: `r28` and `r27` are the address and length of what has not been dispatched; `Resident`: the slots from `r29` on hold what `r28` points at. Order alone is not inductive, since it says nothing about the slots to come |
| `BankVoicesProofs` | `TypeCorrect`, `BanksStayLive`, `OthersKeepPlaying` | `Marks`: the saved states are a stack of marks below the pool's head; `FeedsLive`: the bank a high-level voice plays from is live too, since a note may start at any time; `Unset`: a hook that finds no synthesizer or no voice array has nothing to stop |
| `PostMortemProofs` | `TypeCorrect`, `ReportsAreWhole`, `FilesMatch`, `NobodyLeftSuspended`, `OneReportWalks` | `Locking`: the holder of `g_dump_mutex` is the one thread between `Lock` and `Unlock`; `Files`: what the two files hold, by how far it has come and whether the history could be opened; `Counts`: a suspend count is the number of walks that have the thread in hand, which a yes or no would not carry past two walks that meet |
| `DebugControlsProofs` | `TypeCorrect`, `DisarmedStaysNeutral`, `PollsAreCurrent`, `HeldInputReachesGame`, `DumpsAreLatest`, `DumpsReplay` | `Ring`: slot by slot, which event the ring holds, from which a dump in order follows; `History`: what has been sent explains the override before the command in progress, and `From` ties that to the override as it is by how many of the command's stores are done (a dump between commands replays, one in the middle of a command does not); `Seen`: what a poll has read was in effect since it began |
| `HookedCallsProofs` | `TypeCorrect`, `ExitsSeeOwnCall`, `WalkedVariantFound` | `Stored`: the call with k calls of its function around it has its argument in slot k, when there is a slot k; that the innermost reads right says nothing of the calls around it. `Alone`: `Memmap_GetFragmentVaddr` calls nothing and nothing runs beside it, so its stack is one deep. `Walking` and `Apart`: the walker stands in the variant of its innermost walk, and no two variants share a buffer, without which an address would not tell which variant it is in |
| `AspHandlersProofs` | `ListsKeepTheirPlace`, and from it `ShapesKept`, `EveryListSounds`, `DecoderStays`, `ResamplerStays`, `VolumesStay` | `IInv`: the list is in two parts, what will be dispatched and what will not. Running the first (`Run`) leads to a machine that is as it ought to be (`Left`): the blocks of each voice that lost no command are where it goes on, loops and books are untouched, and, when no list has been harmed, the buses hold the sum so far of the voices pulled or, for a finished list, the output block is `wanted`. See below |

The properties of `AspHandlers` speak of the time between two lists, and nothing of the kind holds
in the middle of one: what a voice is made of is then spread over the rest of the list, buffers and
scratch that the next voice overwrites, and DRAM. Hence an invariant about the end of the list. A
handler takes one command off and leaves the end where it was (`HandlerIInv`); the synthesizer's actions
append commands, and what is left to show is what each group of them does when it is run from a
machine that is as it ought to be (`AsideIInv` and `Arrived` have what is to be shown of the commands
that are no voice's: before half a SETVOL and after it every block is the same, behind an
unknown command the second part only grows, and that part is dropped with it):

* `StartRun`: the buses are silent.
* `PullIs`: a voice is added to the buses and its blocks move on, the other voices' blocks stay. It
  is put together from `DecodeIs` (one or two passes of ADPCM and, after a loop, the DMEMMOVE leave
  the voice's samples in a row), `ResampleIs` (they become the samples heard, wherever the output
  went first) and `EnvelopeIs` (SETVOL and ENVMIXER leave the ramp in the block and the voice in the
  four buses).
* `FinishRun`: wet is mixed into dry, the channels are interleaved and saved.

A voice that lost commands to a list that ended early is not where the synthesizer has it, and its
next commands run on whatever its blocks hold. All that is claimed of that, and all that is needed of
it, is that blocks keep their shapes and that the other voices' blocks and the commands behind it get
what they would have got (`DecodeStill`, `ResampleStill`, `EnvelopeStill`, `PullStill`). A restart puts
it in order again.

The decoder works on vectors, with each predictor expanded to a vector of weights; the reference is a
recurrence of one sample after the other. That they agree (`PredictedIs`) is a superposition: what
follows two samples and residuals is the sum of what follows each alone (`FollowsIs`). The resampler's
windows are `SourceWindow`s because the position kept is that of the next sample out, and volumes
follow a closed form because stopping at the target commutes with adding a rate (`TowardAgain`).

Each invariant is established from `Init` and by every action (one step each), and the theorems
follow from it. The assumptions are `ThreadAssumption` (the worker is none of the callers),
`SchedulerAssumption` (distinct priorities, the game above the audio scheduler, everybody above
the wait's priority, as the comments at `extras.c:2229-2257` say), `PumpAssumption` (a chunk is not
empty), `VoicesAssumption` (the pool has cells, and no bank is numbered like a cleared pointer),
`ProcessAssumption` (the event loop's and the debug server's threads are threads),
`ControlsAssumption` (the ring has a slot, and the centre is a stick position),
`HandlerAssumption` (there are lanes, phases, more than one vector to a buffer and fewer taps than
lanes; filter, predictors, frames, pitches and ramps are numbers, and a loop starts inside its voice,
after the first frame), `AsideAssumption` (a command of no voice is one of the three kinds), `LayoutAssumption` (what this repository cannot show of the game's
synthesizer: that the frames it decodes of a voice for one list, `Most`, fit where they are decoded
from and to and pass the loop once, and that a list moves on by the taps but one at least, so that the resampler
does not need what its own output overwrote) and
`CallsAssumption` (every shadow stack has a slot, buffers follow each other and a variant fits in
one, and `process_geo_layout` is not one of the hooked functions).

A replay is a fold over a sequence, and a buffer's vectors, a voice's samples and the sum over a
filter's taps are folds too; the library's induction theorems cannot be used. What
`DebugControlsProofs` and `AspHandlersProofs` need of folds they prove from the well-foundedness of the
numbers, by induction over a set (`SetInduction`, `UpInduction`): that the recursion has a solution, and
its value on one element more.

Only model-checked: liveness (`EveryCallReturns`, `WaitEnds`, `TaskEnds`), which is beyond the
prover. Every invariant and action property of a passing run is stated by a theorem; the refinement of `JobExecutor` is too. `IInv` of
`AspHandlersProofs` quantifies over machines and so is not itself run; the five invariants of
`asp_handlers` that follow from it are.

## 5. Abstractions to keep in mind

* Memory is sequentially consistent: the atomics of this code use the default order. A
  block under a mutex that touches nothing shared outside it is one step.
* `CoopWait`: `unk_AA0` may change at every step of the game, on any of its threads but the audio
  scheduler's, with one restriction: it asks for a DONE only while a submitted task's has not been
  taken (`Gate`). Without it the wait would be for something that nobody sends, and end on no machine.
  Nobody in this repository promises how often a message is delivered, so nothing is stated about that.
  Changing one's own priority does not switch threads by itself; the next call of
  the scheduler does, as the comments at `extras.c:2254-2257` and `2317-2318` have it.
* `AspPump`: lists are whole commands; alignment of DMA addresses and the DSP work of the handlers
  are left out. Order and completeness are stated for lists without opcode 0 (SPNOOP), which the
  jump table sends straight to `L_10EC` and which is not counted off `r30`. A task without a list
  and without flag 2 runs on whatever the last task left; the properties say nothing of it.
* `PostMortem`: `HistoryMatchesReport` excepts a dump whose own history file did not open
  (`debug_server.cpp:136-137`): the history of an earlier dump then lies beside its report, in the code as
  in the model, until a dump that opens both. A thread that dumps does not fault again (locking `g_dump_mutex` twice would be
  undefined), and a dump that the end of the process cuts short may leave a truncated file.
  `SuspendThread` fails in the report's walk only; `dump_threads`, which ignores its result, skips
  a thread where `OpenThread` fails.
* `AresWorker`: `start()` and `shutdown()` are called by one owner, `main()`, as the lifecycle in
  its header has it.
* `DebugControls` models controller 0, the only one `get_n64_input` answers for. Its buttons and
  sticks are those the commands accept; `set_stick`'s missing range check has no counterpart.
* `AspHandlers`: sizes are constants (the code has vectors of 8, buffers of 23 of them, 4 taps,
  0x10000 phases). Samples do not saturate and a 32-bit rate or volume is one number (`Half` splits it
  for `L_12B0`), so rounding and clipping are not judged. The filter and the predictors are data. What
  the synthesizer may ask for is bounded by `LayoutAssumption`, which TLC evaluates on the instance. The
  list is dispatched one command a step; how it gets into DMEM is `AspPump`'s subject, and so is SPNOOP.
  `SETVOL`'s scratch at `r24+0x50` overlaps the task's own `data_ptr`, which is read only before the list
  starts. POLEF (`aspMain.cpp:1805-2155`) follows a `goto` and has no label, and the image code from 3307
  on is dead or belongs to another ucode.
* Commands of no voice (`Asides`). `aspMain.us.1.0.toml:41-47` and the comments at `aspMain.cpp:4084-4096`
  and `4139-4145` say that lists hold opcode 14 and entries the analysis did not know, not where in the
  list they are: here they are before, between or behind the voices, at most one to a list, in the lists
  `AsideTasks` names; the proofs take any such commands and lists. Opcode 14 goes to `0x12B0`, always. Entries
  7 and 8 are 0 at first; SETLOOP stores an address over them, whose halves then are what the dispatch
  jumps to. `0x1000` stands for 0 and for every target the `switch` does not have, after which
  the rest of the list is not dispatched. `0x1BB4` goes on in the middle of ENVMIXER's loop with addresses,
  vectors and a length of transfer that earlier commands left in the registers: what it does to the
  buffers, to r24 and to one block of DRAM is any value of the right shape, so nothing but shapes is stated
  from then on. The other labels of the `switch` that an address could hit by chance are not modelled.
* Clicks between audio chunks (`ISSUES.md:12-16, 158-185`). `AspPump` covers hypothesis 1 of the issue, an
  off-by-one at the boundary of a chunk, and has none; `AspHandlers` has no seam where lists meet, for
  what it models. The issue stays open: a click from saturation, rounding or the halves of a 32-bit
  volume is below this abstraction, and hypothesis 2, a voice that the game starts on a decoder state
  nobody has initialised, is a fault of the writer of the lists, which starts every voice with INIT here. A
  list cut short is heard too: `OutputIsTheMix` is silent about that list and about later ones until
  the voices that lost commands have been restarted.
* `BankVoices`: the game starts no note between its own stop of the music and the pop, other than
  from a sequence it loads again, and pops otherwise only what no high-level voice plays from; a
  start takes effect at once, although the game's synthesizer may queue it until the next frame.
  Banks are on the low side of the pool, the only one the hook looks at. A pop with a tag takes
  the newest mark: the hook does not look at the tag.
* `HookedCalls`: the exit hooks sit on the only return of their function. Only the walker's thread
  calls `Memmap_GetFragmentVaddr` in the run (`Lookers`). Unloading leaves `gFragments[id]` as it was,
  which is the worse case for the hook, and no variant is unloaded while it is walked.

## 6. Not modelled, and the plan

* ROM selection (`main.cpp:785-910`) runs once, before anything runs beside it. Two hazards are listed:
  `rom.cfg` is truncated and rewritten in place, and `cli_override` outlives a rejected command-line
  path, so that the ROM picked instead is not remembered although the README says that it is.
* Audio output and turbo: three functions around SDL's queue, whose drain is SDL's. Their hazards
  (a shift by `skip_factor` beyond 31, carried-over frames that are stale after a mute, three writers
  of one flag) are arithmetic at a limit or single stores.
* Diagnostic rings: nothing reads them but reports. A reader may see a torn or older entry, which
  their own comments accept (`extras.c:538-541`, `2179-2181`).
* The renderer adapter, the socket I/O and read-only commands of the debug server, the offline
  tools, boot and the recompiler's configuration are sequential, pure or generated, or forward to
  code that is not here; `PROJECT.json` lists them with the reason.

# kgba in TLA+

kgba runs a Game Boy Advance program on an ARM CPU under KVM. The guest's code
runs natively; everything else of the machine, i.e. display, sound, timers, DMA
and the interrupt lines, is simulated by host threads that share memory with
the guest. The hard part of the program is that sharing: most of the I/O page
is written by two host threads and read by a guest without a lock. These
modules model that core, TLC checks them on small instances, and TLAPS proves
the main safety properties for every value of the constants.

## The system

Threads:

| thread | code | what it does |
| --- | --- | --- |
| KVM thread (vCPU) | `kvm/mod.rs` `run`, `handle_mmio` | runs the guest; a write to the I/O page leaves the guest and is served here, while the guest stands still |
| vcount clock | `main.rs` `run_vcount_clock` | one turn per scanline: VCOUNT and status bits, drawing, HBLANK request, wait for the guest, publication of the frame |
| audio clock | `main.rs` `run_audio_clock` | advances the timers, and for each overflow of timer 0 to 3 runs the sound DMA and mixes a sample |
| SDL main loop | `main.rs`, `platform/sdl.rs` | polls the keys, presents frames |
| SDL audio callback | `platform/sdl.rs` | takes samples out of the PCM queue |

Shared memory: the I/O page (no lock); the fast-HBLANK page and the shadow I/O
page, shared between vcount clock and guest (no lock); timers, audio state, BG
offsets of the raster lines and frame buffers (a mutex each); the level of the
IRQ line and a few counters (atomics).

Inventory: each component with its state, its operations, what is hard about
it, and what makes it correct.

| component | state | operations | hard | correct when |
| --- | --- | --- | --- | --- |
| HBLANK handshake | requested and completed numbers, shadow page, the FAST_HBLANK words, IF, IE, IME, DISPSTAT, the line's level | enter_hblank, prepare, wait, finish (twice: by shared memory and by MMIO), BIOS fast path, MMIO writes of IF and the others | three unsynchronised parties, 64 bit numbers in halves, a deadline and late answers, lost and resurrected IF bits | completions do not run ahead or go back, offsets belong to the right request, the clock never hangs, a missed deadline heals |
| scanline clock | VCOUNT, status | the loop | order of its steps | as above |
| frame buffers | work, completed and spare buffer, number | render_scanline, publish_completed_frame, latest_frame_snapshot, the present closure | reference counted snapshots, a publication in the middle of a presentation | no buffer with two roles, bounded memory, frames presented whole, newest first and once |
| timers | reload, counter, control, leftover cycles, and the page's halfwords | write_register, advance | one halfword of the page with two meanings and two writers; batches of cycles | no tick lost or doubled, cascade exact, reload value kept |
| direct sound | two FIFOs, PCM queue, source, start and end of each channel | overflow, burst, mix, callback, register writes | a burst that gives up the lock between bytes; restart in the middle of it | bytes in order from the right buffer, stereo sides never swapped, FIFO never dropped or starved by the DMA |
| BIOS services | the guest's registers, SPSR, wait flags | swi 4, 5, 6, IRQ entry | boundary values; interrupts between any two instructions | exact quotient, no lost flag, mask restored, waits end |
| BG raster | offsets per line, active flags, the copy for whole frames | set_vcount, enter and finish of HBLANK, render_scanline | off-by-one lines, stale flags and offsets, two renderers | a served line is drawn with its own HBLANK's offsets, and both renderers draw the same frame |
| PPU renderer | registers, VRAM, OAM, palette | the pixel of a line or of a frame | layer order, windows, blending limits | each pixel shows what is in front, within the range of colours |
| immediate DMA | a channel's registers, memory | run_immediate_dma_if_enabled, run_dma, in two back ends | a count of zero, address modes, disabling | the block, the whole block and nothing but the block |
| interrupt line | a flag and an ioctl; IF, IE, IME, DISPSTAT | update_interrupt_line, set, pulse, set_vcount, enter_hblank, mirror_io_write | swap and ioctl, read and write are apart | a waiting program is interrupted, one VBLANK per frame |
| software runner | registers, state, memory, VCOUNT reads | decode and execute, run_until_frame | flags kept in the link register, register lists | the same results as a machine with flags |
| lifecycle | stop flag, threads, descriptors, window, audio device | creation, start, stop, errors, drops | nothing is joined, the KVM thread owns what others use | nothing freed is used, the process ends |
| KVM plumbing, SDL binding | descriptors, mappings, device | ioctl, mmap, FFI, key map | what outlives its owner | as lifecycle; the wrappers are I/O and not modelled |
| tracing, counters, build scripts, command line | none | output, assembling, parsing | none a model shows | not modelled |

## Modules

| module | models |
| --- | --- |
| `HblankSync` | the vcount clock's handshake with the guest, and the MMIO writes that race with it |
| `FrameMailbox`, `FrameBuffers` | what presentation promises, and the buffers that implement it |
| `Timers` | the timers and both threads that touch them |
| `AudioPath` | sound DMA, FIFOs and the PCM queue, with three threads |
| `BiosDiv` | the division service, instruction group by instruction group |
| `IntrWait` | the interrupt wait services among interrupts |
| `Ppu` | the picture that registers and video memories stand for, as operators |
| `BgRaster` | the offsets of the lines, and both renderers on them (extends `Ppu`) |
| `InterruptLine` | IF, DISPSTAT, the line's flag and its ioctl, one access at a time |
| `ImmediateDma` | the transfers that both back ends run, as operators |
| `SoftRunner` | the software runner beside a reference machine (extends `ImmediateDma`) |
| `Lifecycle` | threads, resources and the stop flag from start to end |
| `*Proofs` | theorems about the module of that name; `BiosProofs` about `BiosDiv` and `IntrWait` |
| `MC*` | small instances |

One action is one access to state that another thread may touch, or one
section under a mutex; private steps are merged into the next shared one.

**HblankSync.** `host` is the vcount thread: its `pc` walks through
`set_vcount`, `request_interrupt`, `hblank_irq_pending`, `enter_hblank`,
`prepare_fast_hblank`, `wait_for_hblank_complete` and
`finish_fast_hblank_from_shared`. `guest` is the vCPU: `irq_handler` with its
slow and its fast path, the cartridge's handler (external: it may acknowledge
any flags and computes the BG offset from the VCOUNT it reads), and while an
MMIO exit is served, the KVM thread. `fast` is the FAST_HBLANK page; request and
completion numbers are two halves there, and each half is an access. A BG
offset is only known by the request its VCOUNT belongs to. IF is read and
written in two steps by every party, as in the code. Abstractions: the
DISPSTAT read-modify-write and `update_interrupt_line` are one step each;
`finish_*` writes IF and IME in one step; only the flags VBLANK and HBLANK
exist; the fields of the FAST_HBLANK page are copied in one step, their dirty
flags (always set together by the BIOS) are one.

**FrameBuffers** is the three buffers of `FrameBuffers`, `Arc` counts as
"somebody holds it", the clock thread's three steps per line, and the present
closure's three steps. `ChangeNeeds` lets the guest switch between line and
frame rendering at any moment. A line of pixels is the number of the frame it
was drawn for. `FrameMailbox` is the abstract specification: a mailbox with the
latest frame, out of which a presenter takes it with its number, never twice.

**Timers** has the tick-by-tick loop of `add_ticks` as a recursive function,
the leftover cycles, the cascade, and the page's halfword, which the audio clock
overwrites with the counter (`Mirrors`) while the KVM thread takes the reload
value out of it (`ReadLow`, `WriteLow`).

**AudioPath** keeps bytes by their origin: channel, run of the channel, address.
The burst is byte by byte since `push_fifo_byte` takes the lock for each. Which
FIFO a channel feeds (its destination register) is a constant of the instance.
Samples are only `left` or `right`; volume and mixing arithmetic are left out.

**BiosDiv** has one action per turn of a loop. Words are `0..2*Half-1`; shifts
and complements are modulo the word.

**IntrWait** has each instruction that reads or writes something an interrupt
handler could see. The guest's handler is external: it acknowledges some pending
interrupts, flags them, and may call the BIOS, which overwrites SPSR. Its names
begin with `Wait` where `BiosDiv` has the same, so that one module can extend both.

**Ppu** has no state. A register is the record it decodes to, a layer mask a set,
memories are looked up by what they hold, so that no address of a tile is
computed but every flip, wrap, palette bank, mosaic block, window edge, affine
step and blend is.

**BgRaster** has the vcount clock's steps around a line (choice of the renderer,
`set_vcount`, drawing, `enter_hblank`, answer or missed deadline, publication),
the handler that ends late through the MMIO exit, and the guest's writes of
offsets. How a request is answered is `HblankSync`'s; here it is, or is not, or
is by a handler that started for an earlier one. `served` is a history: what the
handler of a line's own HBLANK gave it. Its types are those of the offsets
(`OffsetTypes`) and of the pictures (`PictureTypes`).

**InterruptLine** takes apart what `HblankSync` merges: DISPSTAT is read and
written in two steps by both threads, `InterruptLine::set` swaps and then calls
the ioctl, `pulse` stores, lowers and raises. `call` says where each thread is in
these functions. Only `update_interrupt_line`'s look at its three registers is one
step. A write's mask is the set of bits it reaches, its raw store and its
correction are two steps, as in `mirror_io_write`. Of the page of the HBLANK map
`shadow` is IME, copied with the request and written back by whichever path
completes it. A handler acknowledges the flag it serves; one that leaves VBLANK in
the page, to be acknowledged with HBLANK, is `HblankSync`'s.

**ImmediateDma** moves unit by unit, both halves of a word in the code's order;
`BlockMoved` says of the whole block what is to be where. Widths are those of the
instance.

**SoftRunner** executes one instruction at a time on two machines: the runner,
whose CMP leaves Z and C in the link register and whose PUSH, POP, LDMIA and
STMIA are the code's loops, and a reference with block transfers said as sets and
with flags (`flags`). `Departs` lists where the runner does something else than Thumb and
the comparison starts afresh. Both machines share what no property is about:
branches count from the next instruction, POP of PC may leave Thumb state.
`Decoded` says what fields the decoding leaves in an instruction, `Machines` how a
program's beginning is executed, from the ROM's start or, in Thumb state, from
`ThumbEntry`. Accesses are aligned (`Aligned`), and so are the
addresses a transfer is given (`MovesHalfwords`): the programs make no others.

**Lifecycle** has each place of the main thread in which it can fail, wait or
leave, for all eight combinations of `--software`, `--headless` and
`--duration-ms`; the three threads between their looks at the stop flag; SDL's
audio callback; and `held`, the set of resources that exist, with the order in
which they are acquired and dropped (fields of `KvmGba` in the order of their
declaration, locals of `run_kvm` in the reverse). A callback may start until
`SDL_CloseAudioDevice` is called (`CloseDevice`), which waits for it.

## Runs

| run | question | bounds |
| --- | --- | --- |
| `hblank_requests` | can an answer be credited to a much later request? | 1 visible line of 3, i.e. two lines that may request per frame; 3 requests; halves of 2 values, so a number crosses from the low to the high half twice |
| `hblank_exits` | can the two completion paths overtake each other? | the same geometry, 2 requests, with writes to FAST_EXIT_ADDR |
| `hblank_liveness` | does the clock go on, does a missed deadline heal? | 1 request, which misses its deadline or not |
| `frame_buffers` | do presenters and the clock ever share a buffer? | 3 frames of 2 lines, 1 presenter, 4 places to allocate |
| `timers` | are ticks exact through every batch and write? | 2 timers of 4 values, periods 1 and 3, batches of 1 and 5 cycles, 3 writes |
| `audio_path` | do bytes and samples stay in order? | both channels on one FIFO of 5, bursts of 4, PCM queue of 2, 3 overflows, 4 writes |
| `bios_div` | is every quotient right? | all pairs of 5 bit words |
| `intr_wait` | is a flag lost or a wait endless? | 2 interrupts, no bound |
| `scanlines` | is each line drawn with the right offsets, each pixel with the right layer? | 2 lines of 4, 3 by 2 pixels, tiles of 2 by 2, offsets 0 and 5, one register written by handlers, nine settings of the display registers, 5 objects |
| `interrupt_line` | do interrupts arrive however the accesses interleave? | 1 visible line of 3, writes of IE, IME and DISPSTAT (whole, and its upper byte), no bound |
| `software_runner` | does the runner compute what a machine with flags computes, and a transfer move its block? | halfwords of 8 bits, 2 low registers, DMA channels 0 and 3 with largest counts 2 and 4, nine prologues, at most 10 instructions |
| `lifecycle` | is anything used after it was freed, and does the process end? | all options, no bound |

Why these bounds suffice: a stale answer in HblankSync needs one request that
misses its deadline, the next to be answered by the late handler, and one more
to see that it stops there; three requests do. Two frame publications under one
snapshot use up old, spare and fresh buffers; three add the return. A batch of
5 wraps a timer of 4 values more than once. Two channels on one FIFO bring the
longest interleaving of bursts (kgba allows it: the destination is the guest's
choice), while the second FIFO alone adds no interaction. Division by shifting
has no behaviour that 5 bits lack: the sign bit, the least number, no, one and
many shifts. `MaxSeq`, `MaxFrames`, `MaxCycles`, `MaxWrites` and `MaxOverflows`
bound counters that the code lets grow; reaching them stops the issue of
requests, frames, cycles, writes or overflows.

In `scanlines` the frame needs a visible line after the first, a line of VBLANK
and the last line, whose HBLANK belongs to line 0: four. Two values of an offset
tell an old one from a new one. The displays are chosen so that each branch of
the renderers decides some pixel: both windows, all four effects, mosaic, affine
and hidden objects, all modes. In `interrupt_line` three lines have one that is
drawn, one that begins VBLANK and one that ends it; a second drawn line only
repeats the first. In `software_runner` a prologue brings the machine to where a
hazard is near (a comparison in a called function, the last read of VCOUNT, a
channel about to start) and every sequence of at least three instructions
follows (four, where the transfer has not been started yet); `MaxInstructions` is the code's limit made small, `MaxUnits` bounds the
count a program writes and `MinInstructions` is the hundred instructions without
which no frame is ready.

Timers and AudioPath stop at their bounds, a run of SoftRunner ends with a frame,
an error or the limit, and Lifecycle ends with the process: those four cfgs do
not check deadlock, the others do.

What the runs show:

- `StaleByAtMostOne`: a handler that starts late copies the fields of its own
  request, but the host may have replaced the request number meanwhile, so the
  answer can be credited to the next request; never to a later one, since a
  missed deadline leaves IF HBLANK set and `run_vcount_clock` requests nothing
  while it is set. The mutant that drops the flag at the deadline breaks it.
- `SeqOrder`, `CompletedMonotone`: torn reads and writes of the two halves never
  yield a number that was not yet requested, or go back.
- `ClockTicks`: under nothing but the host's fairness the clock goes on.
  `FlagRecovers`: the flag of a missed deadline is cleared by the slow path,
  given a guest that runs, enables both interrupts and acknowledges all it sees.
- `Exclusive`, `Snapshots`, `BoundedBuffers`, `ImplementsMailbox`,
  `EveryFrameSeen`: presentation is a mailbox. That a published frame may mix
  lines of two frames when the renderer changes in its middle is what the code
  does, and the mailbox does not forbid it.
- `CounterExact`, `NoCycleLost`, `CascadeExact`: the counter against a closed
  formula of the ticks since the last write. `ReloadKept` holds for a timer whose
  counter is not mirrored when the reload value is written; for a running timer
  the audio clock may replace the value in the page before it is read back, and
  the property says so by leaving it out.
- `RefillFits`, `FromBuffer`, `InOrder`: hold unless the guest writes the FIFO
  itself between length check and burst, or restarts the channel during a burst;
  the history variables `cpu` and `raced` name exactly those cases. `PcmAligned`:
  dropping single samples keeps left and right apart because samples are always
  queued in pairs and the capacity is even. `NeverStarves`: the refill comes
  before the sample.
- `DivCorrect`, `Terminates`; `NoFlagLost`, `WaitsForNew`, `MaskRestored`,
  `WaitReturns`: the BIOS services.

- `ServedLinesShown`: a line is drawn with the offsets its own HBLANK's handler
  wrote, whatever became of other lines' HBLANKs. A line that was not served keeps
  older offsets, since an active flag is never reset: the code does so, and the
  property asks nothing of such a line.
- `FrameAgreesWithLines`: in VBLANK a whole frame drawn from the copy is the
  frame drawn line by line, when all lines were served and the line renderer
  supports what is shown. `needs_scanline_renderer` does not ask whether it does,
  so with windows, effects or objects the pictures differ.
- `FrameShowsFront`: object over object, object over background, background over
  background, by priority and number, said without a drawing order; and blending
  stays within five bits a channel.
- `InterruptsArrive`: after two threads' ioctls were reordered the line may be low
  with a flag pending, or high with none, and `asserted` agrees with neither; the
  `pulse` of the next VBLANK sets both right. The mutant that pulses by `set(true)`
  leaves a waiting program asleep for ever.
- `VblankOncePerFrame`: status bits that the guest writes are put back before
  `set_vcount` looks for VBLANK's rising bit. The property leaves out frames in
  which a write of DISPSTAT is served just while the clock changes the register:
  then one of the two updates is lost, an enable bit or a status bit, and
  VBLANK may be requested twice or not at all.
- `SameAsThumb`: comparison, conditional branches and register lists, from a
  comparison up to the next instruction that would set flags. What it leaves out is
  `Departs`: reading the link register after a comparison, conditions other than
  four, a shift right by 32, a base register in its own list, PC as an operand,
  and a block stored to the I/O page, where a word may start a transfer before the
  next is stored.
- `DmaMovesBlock`: every count, the zero of either kind of channel included, every
  step and unit, where source and destination do not overlap.
- `NothingFreedInUse`: guest memory outlives the KVM thread, and the audio state
  the device, on every way out. The exception it names is `vm_fd`: the KVM thread
  closes it when it ends, and a clock that has not yet seen the stop flag may still
  call an ioctl on the number.
- `RunEnds`: with a duration or headless kgba exits by itself, else when the user
  quits, even if KVM_RUN never returns, for no thread is joined. After an error of
  the KVM thread the clocks end, but the window stays until the user quits. A
  presentation error in the loop with a duration returns without setting stop;
  the end of the process ends the threads.

Each property has a mutant of the code, in the module just before the definition
it replaces, that breaks it.

## Fairness

- `HostFairSpec`: the vcount thread is a running thread and time passes. Nothing
  is asked of the guest, which runs a cartridge's code.
- `ResponsiveGuest`, a premise of `FlagRecovers` only: the vCPU executes its
  handlers (weak), and an IRQ line that is high again and again while the main
  program runs is taken (strong: the line is sampled between instructions, so
  with each MMIO exit's return too).
- `FrameBuffers`: each presenter's loop comes round (`run_frame_loop` sleeps a
  bounded time).
- `BiosDiv`: the guest executes its next instruction.
- `IntrWait`: so does it here; the clock raises VBLANK again and again
  (`run_vcount_clock`), and the guest's handler serves it when it is not masked.
- `InterruptLine`: both threads run on, within `InterruptLine`'s functions too; the
  vCPU runs its handlers (weak) and takes an interrupt whose line is high again
  and again (strong: the ioctl that raises it makes KVM look). The program
  need not write anything.
- `Lifecycle`: threads are scheduled, callbacks and short waits end and time
  passes. That KVM_RUN returns, that the user quits and that SDL calls back is not
  assumed.
- `BgRaster` and `SoftRunner` have safety properties only and no fairness.

## Proofs

TLAPS checks every leaf; nothing is assumed but the named `ASSUME`s on the
constants, which TLC evaluates in every run, and `WordAligned` below.

Each `*Proofs` module has the same shape: a strengthening `IInv` of the
properties, lemmas about the operators, one lemma or step per action that
preserves `IInv`, and the theorems read off it by temporal logic. The added
invariants were checked by TLC on the instances of the runs before they were proved.

**HblankSyncProofs** (`TypeCorrect`, `CompletionNeverAhead`, `CompletionsNeverGoBack`,
`AnswersAreFresh`), for every geometry, width of the halves and repertoire of
writes, from `LinesAssumption`, `SeqAssumption` and `GuestAssumption`. The first two
rest on the types and `SeqOrder`, which is stated so that it is inductive with the
types alone (`OrderInv`): besides the bound on completions it says that the latched
number is the requested one, which number the vcount thread holds while it is in a
request, and that the number an exit is about to store is not ahead of the latch.
The other two need `FreshInv`. A handler can end, or an exit store its number, after
the clock has gone on to the next request; why not two requests later? Since a
request is made only when HBLANK is not set in IF, and a guest that is still in its
handler, or in its exit, has neither acknowledged it since nor completed anything
(`Blocked`, `Unanswered`): one request may overtake the handler, and then waits
until its deadline. `LateHandler` and `ExitNewest` say so of the two ways to
complete, `ShadowTag` and `CopiedFresh` follow the offset through the shadow page
and the FAST_HBLANK page.

**FrameBuffersProofs** (`TypeCorrect`, `BuffersExclusive`, `SnapshotsConsistent`,
`BuffersBounded`, `BuffersImplementMailbox`), for any number of presenters,
buffers, lines and frames. `IInv` adds to the properties that an issued frame
number is within bounds while a frame is drawn (`Bounded`), and that while the
spare buffer is in reserve no presenter holds anything older than the completed
one (`SpareUnused`): that is why the spare does not raise the number of buffers
alive. `BuffersBounded` is then a counting argument on finite sets. The refinement
maps the mailbox's newest frame to the completed buffer and each presenter's hand
to its snapshot; publication is `Publish`, a snapshot is `Show`, everything else a
stutter, because the next work buffer is never one that somebody holds
(`NextWorkFree`). That there always is such a buffer is a counting argument too,
and part of `TypeCorrect`.

**TimersProofs** (`ReloadValueKept`, `TypeCorrect`, `CountersExact`, `NoCyclesLost`,
`CascadesExact`), for any number of timers, counter width, prescalers and writes.
For the first, `OnItsWay` follows the value a guest wrote to a timer that is off:
first in the page, where `advance` does not mirror because the timer is off, then in
the KVM thread's hands, then in the timer; what the timers count does not matter to
it, and that proof never expands `Steps`.
The other four are about just that. `add_ticks` is a loop, here a recursive function.
`Recursion` shows that such a function exists, by induction over the natural numbers;
the induction is a statement about sets of numbers (`Induction`, from the least
number that is not in the set), for the library's, about operators, cannot be
instantiated. `CountingGoesOn` is the arithmetic: counting `a` ticks and then `b` by
the closed formula is counting `a + b`; `AddTicksExact` then follows by induction
over the ticks, `StepsExist` says that the cascade from timer to timer is defined,
and `DivisionCarries` that leftover cycles are carried so that none is lost. The
invariant `Exact` is the three properties, timer by timer (`ExactTimer`); no
strengthening but the types is needed once the operators are understood.

**AudioPathProofs** (`TypeCorrect`, `SidesKept`, `RefillHasRoom`, `FedNeverStarves`,
`FromItsBuffer`, `InBufferOrder`), for every burst, FIFO size and even PCM capacity
(`AudioAssumption`). `PcmAligned` is not inductive alone: when a full queue drops its
oldest sample for each of a new pair, the sides stay in turn only since the queue's
length is even (`EvenPcm`); the two lemmas `PushPair` and `TakeSamples` say so of
sequences. `RefillFits` needs that from the length check to the last byte there is
room for the rest of the burst unless the guest wrote that FIFO meanwhile (`Room`).
`NeverStarves` needs `FedInv`: a FIFO that is fed has a byte, or a channel that
serves it is still ahead of the loop over the channels.
`FromBuffer` and `InOrder` rest on `BufferInv`, which says where each byte of a queue
comes from (`Brought`), that neighbours of one run follow each other in the buffer or
over its end (`Linked`), and that the youngest is just before where its channel goes
on (`Youngest`). The last two theorems assume `WordAligned`: buffers begin, and the
memory they lie in ends, on words. The code masks no address; sound DMA moves words,
and RAM ends on one, so that is what a program gives it. The assumption is needed:
`run_fifo_dma_for_timer` looks for the buffer's end after whole words only, and of
an unaligned buffer reads the bytes beyond it.

**BiosProofs** is about both services. `DivTypeCorrect` and `DivisionCorrect` hold for
words of every size from two bits up, i.e. for the 32 bits of the guest too. The invariant of both loops is
N = r2 * D + r0 over the magnitudes of the arguments, with the divisor and r12
doubled in step and halved in step. Powers of two, which the loops need to halve
exactly, are the least set with one that is closed under doubling. The last step
is that quotient and remainder are unique, and the signs are then case by case.

`WaitTypeCorrect`, `FlagsKept`, `ReturnsWithNewFlag` and `CallersMaskRestored` hold for
any set of interrupts. Added to the properties:
interrupts are masked outside the poll loop (`Masked`), hence nothing was handled
before it (`NothingYet`), hence with old flags discarded a flag that is waited for
is new (`FlagsAreNew`); and the caller's mask is in the pushed SPSR until it is
back in SPSR (`Pushed`).

**InterruptLineProofs** (`OneVblank`), for every geometry and repertoire of writes.
The property has a premise kept as history: no guest update of DISPSTAT overlapped
one of the clock's in this frame. From it follows that what a thread has read and not yet
written back is still in the register (`Undisturbed`), or, while the guest's store
and its correction are apart, that the value read before stands for it (`Settled`).
Then the VBLANK bit rises exactly once (`StatusRight`), with the enables that the guest
set (`EnablesRight`), and requests are counted against the clock's place (`Counted`).

**BgRasterProofs** (`OffsetsTyped`, `LinesShowTheirOffsets`, `WholeFrameHasServed`,
`RenderersAgree`, `TypeCorrect`, `FramesShowFront`), for every screen, frame geometry, range of offsets and handler. What a line was served is
in the raster under an active flag, and stays there (`ServedInRaster`), since a
completion for another line, and `set_vcount` with a flag active, leave it alone;
the clock knows of the flag before it begins the line (`NeedsServed`), for a line is
served by the answer to the request of the line before, for which the clock waits
(`Requested`). The copy that a whole
frame is drawn from has it all throughout VBLANK (`ServedInWhole`), although a late
completion may write the raster then.

`RenderersAgree` is `FrameAgreesWithLines`. A second invariant, `PictureInv`, says what
the pictures hold: a line that was drawn with every handler's offset served shows the
background layers at those offsets (`LinesDrawn`), VBLANK publishes those lines
(`FramePublished`), and an offset that no handler writes is zero in the registers and
in every line (`OthersZero`), so that it does not matter that only one of the renderers
takes it from the raster. For both renderers the offset that a background has at a line
is then the same (`Resolved`), and where the line renderer supports the display there
is nothing else to be drawn (`NoObjects`, no window, no effect), so that the layers at
each pixel are the same. The theorem assumes that the handler writes some offset: with
none the property's premise would hold of a frame that the line renderer did not draw.

`TypeCorrect` (`TypeOK`) and `FramesShowFront` (`FrameShowsFront`) are about everything
that `Ppu` draws, and rest on lemmas about its operators. `Sorted` gives every element
of a set the place that is its rank, since as many ranks are taken as there are elements
(`RanksTaken`), so that the first background and the last object are in front of the
others (`BgOrder`, `ObjectOrder`). Every cell, pixel and bitmap index that is computed
lies in the memory it is looked up in (`ScreenBlockTyped`, `CellTyped`, `PixelIndex`),
every palette index has eight bits (`ColorIndexTyped`, `ObjPixelTyped`), and no blend
carries a channel beyond its five (`BlendsTyped`). They assume of the memories and
registers no more than their widths (`MemoryAssumption`, `DisplayAssumption`): palettes
of 256 colours, banks and 16-colour pixels of four bits, priorities of two, bitmaps
that cover the screen. The code gets these by masks and by the memories' sizes.

**SoftRunnerProofs** (`RunsAsThumb`, `TransfersMoveBlocks`, `Invariance`), for every
width of a halfword from eight bits, every layout of the memories and content of the
ROM, any channels, low registers, decoded instructions, prologues and limits, from
`DmaAssumption` and `RunnerAssumption`.
`IInv` says that both machines are machines, that the reference is the runner
but for its link register (`Alike`), that not even this differs as long as the link
register counts as seen, and that where the flags do, Z and C in the runner's link
register are the reference's. `SameAsThumb` alone is not inductive: memory and registers
that agree say nothing of the step after, unless both have their types and differ
nowhere else.

Three arguments carry it. First, everything that is not about the link register
commutes with a change of it (`PlainLr`, `ArmLr`, `BlockLr`, `StepLr`), stores that start a
transfer included. Second, the loops over a register list do what `StoreBlock` and
`LoadBlock` say: after the registers below r, memory or registers are written for just
those (`StoreLoop`, `LoadLoop`), by induction as in `TimersProofs`; a register's slot
is its rank's (`RankFacts`), and no two registers have the same, since a block is shorter
than the address space (`SlotFacts`). Third, the word that a comparison
leaves in the link register has exactly the two bits that `Z` and `C` look at
(`SetCmpFlags`).

Of a transfer `RunDmaUnits` says what memory is after u units: a cell that no unit so far
went to is as before, another has what the last of them came with, read from the memory
before as no source is a target. `Immediate` adds the control register and finds
`BlockMoved` in it, and that is part of the type of a machine (`Transfers`): what a step
moved, it moved right. Addresses wrap at the end of the address space; `PlusPlus`,
`PlusWithin` and `PlusDiffers` are the arithmetic of that. That there are powers
of two to compute with is not given, for the provers know none: `Doubles` has
2 ^ (n + 1) = 2 * 2 ^ n from the subsets of a set of n + 1 elements.

Only model-checked:

- liveness (`ClockTicks`, `FlagRecovers`, `EveryFrameSeen`, `Terminates`, `WaitReturns`,
  `InterruptsArrive`, `RunEnds`): fairness and ENABLED are beyond the prover;
- `NothingFreedInUse` of `Lifecycle`, which has no constants and finitely many
  states: TLC's run visits them all, and a proof would add nothing.

## Not modelled

- Tracing and performance counters: output for developers that nothing reads back.
- Build scripts and command line: the BIOS image is assembled and arguments are
  parsed before there is any state; `Lifecycle` starts from the options.
- KVM's page tables, ioctl and mmap wrappers, SDL's foreign functions: I/O that is
  called once or wraps one call. The key map is a table without state.
- The bus's routing of display registers in the software runner: no instruction
  it knows reads them, and `Ppu` has what they do to the picture.
- The debug switches of `run_vcount_clock`, which only change how long it waits.
- Panics (an index out of range, a lock another thread poisoned). A panic of the
  KVM thread drops the machine and ends the thread without setting stop, so that the
  clocks go on until the main thread returns.

Parts of a hazard that its properties leave out (each hazard's note says so): the
lines of two frames in one, after a change of renderer; the reload of a running
timer; the guest's own push between the length check and a burst, and its restart
of the DMA during one; the line that a late MMIO exit damages; a link register
read after a comparison; the window's loop after an error of the KVM thread. There the
modules do what the code does, and a history variable or a named premise (`raced`,
`cpu`, `Departs`) keeps the property to the rest.

Hazards without a property, since neither document nor test says what is right and
the modules do as the code does: a timer that drives no FIFO still queues
samples of silence; `needs_scanline_renderer` chooses the line renderer for
displays it does not support; an object whose Y is 128 to 159 is drawn above the
screen instead of on its lower lines; the runner's branches count from the next
instruction; its shift right by 32 depends on the build.

## Plan

Done, in this order: `HblankSync`, `FrameBuffers`, `Timers`, `AudioPath`,
`BiosDiv`, `IntrWait`, `Ppu` and `BgRaster`, `InterruptLine`, `ImmediateDma` and
`SoftRunner`, `Lifecycle`; then the proofs of every safety property but
`NothingFreedInUse`. What the plan has left is what the prover cannot do: the
liveness properties stay with TLC.

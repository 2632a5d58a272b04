----------------------------- MODULE AudioPath -----------------------------
(***************************************************************************)
(* The direct sound path of kgba: a timer overflow first lets the sound    *)
(* DMA refill a FIFO that runs low, then takes one byte from each FIFO of  *)
(* that timer and queues a stereo pair of PCM samples; the audio callback  *)
(* takes samples out.  The queues and the DMA's own registers are under a  *)
(* mutex which the burst of a refill drops and takes again for every byte; *)
(* the I/O page is under none.  Three threads meet here: the audio clock,  *)
(* the KVM thread serving the guest's writes, and the audio callback.      *)
(***************************************************************************)
EXTENDS Integers, Sequences

CONSTANTS
  Fifos,          \* FIFO A and FIFO B
  Destination,    \* the FIFO each of the DMA channels 1 and 2 is set up for
  FifoCapacity,   \* bytes in a FIFO (32)
  Threshold,      \* a FIFO of at most so many bytes is refilled (16)
  WordSize,       \* bytes of a word (4)
  BurstWords,     \* words of a refill (4)
  PcmCapacity,    \* samples in the PCM queue (16384)
  Callbacks,      \* the numbers of samples a callback may ask for
  Timers,         \* 0 and 1 may drive a FIFO, the others cannot
  Sources,        \* the source addresses the guest writes
  RamEnd,         \* the end of the memory a DMA wraps in; above it is ROM
  MaxWrites,      \* bound: the writes of the guest
  MaxOverflows    \* bound: the timer overflows

Channels == {1, 2}
Burst == BurstWords * WordSize

ASSUME AudioAssumption ==
  /\ Destination \in [Channels -> Fifos]
  /\ Threshold \in Nat /\ WordSize \in Nat \ {0} /\ BurstWords \in Nat \ {0}
  /\ FifoCapacity \in Nat /\ Threshold + Burst <= FifoCapacity
  /\ PcmCapacity \in Nat \ {0} /\ PcmCapacity % 2 = 0
  /\ \A n \in Callbacks : n \in Nat /\ n % 2 = 0
  /\ Timers \subseteq Nat /\ {0, 1} \subseteq Timers
  /\ Sources \subseteq Nat \ {0}
  /\ RamEnd \in Nat /\ MaxWrites \in Nat /\ MaxOverflows \in Nat

VARIABLES
  regs,      \* the I/O page: sad and on of each channel, timerOf each FIFO
  fifo,      \* AudioState: fifo_a and fifo_b; a byte is known by its origin
  pcm,       \* AudioState: pcm, each sample known by its side
  dma,       \* AudioState: fifo_dma_source, _start, _end of each channel
  audio,     \* the audio clock thread in on_timer_overflow
  kvm,       \* the KVM thread in mirror_io_write and what follows it
  writes,    \* how many writes the guest has made
  overflows, \* how many overflows there were
  run,       \* history: how often each channel was started
  raced,     \* history: channels whose last start may have been overtaken
  cpu,       \* history: FIFOs the guest wrote since their length was read
  fed        \* history: FIFOs the DMA serves throughout this overflow

vars == <<regs, fifo, pcm, dma, audio, kvm, writes, overflows, run, raced, cpu,
          fed>>
history == <<run, raced, cpu, fed>>

AudioIdle == [pc |-> "idle", timer |-> 0, channel |-> 1, source |-> 0,
              start |-> 0, end |-> 0, left |-> 0]
KvmIdle == [pc |-> "idle", channel |-> 1, fifo |-> CHOOSE f \in Fifos : TRUE,
            reset |-> {}, left |-> 0]

Init ==
  /\ regs = [sad |-> [c \in Channels |-> 0], on |-> [c \in Channels |-> FALSE],
             timerOf |-> [f \in Fifos |-> 0]]
  /\ fifo = [f \in Fifos |-> <<>>]
  /\ pcm = <<>>
  /\ dma = [c \in Channels |-> [source |-> 0, start |-> 0, end |-> 0]]
  /\ audio = AudioIdle
  /\ kvm = KvmIdle
  /\ writes = 0 /\ overflows = 0
  /\ run = [c \in Channels |-> 0]
  /\ raced = {} /\ cpu = {} /\ fed = {}

\* Mutant: the oldest byte stays when the FIFO is full.
PushUnchecked(queue, byte) == Append(queue, byte)

\* push_fifo_byte: a full FIFO loses its oldest byte.
PushByte(queue, byte) ==
  Append(IF Len(queue) >= FifoCapacity THEN Tail(queue) ELSE queue, byte)

\* Mutant: the PCM queue holds one sample more, an odd number.
PushSampleOneMore(queue, side) ==
  Append(IF Len(queue) > PcmCapacity THEN Tail(queue) ELSE queue, side)

\* push_pcm_sample: a full PCM queue loses its oldest sample.
PushSample(queue, side) ==
  Append(IF Len(queue) >= PcmCapacity THEN Tail(queue) ELSE queue, side)

-----------------------------------------------------------------------------
(* The audio clock thread: on_timer_overflow.                              *)

Overflow(timer) ==
  /\ audio.pc = "idle"
  /\ overflows < MaxOverflows
  /\ overflows' = overflows + 1
  /\ audio' = [AudioIdle EXCEPT !.pc = "control", !.timer = timer]
  /\ fed' = {f \in Fifos : regs.timerOf[f] = timer
                          /\ \E c \in Channels : regs.on[c] /\ Destination[c] = f}
  /\ UNCHANGED <<regs, fifo, pcm, dma, kvm, writes, run, raced, cpu>>

\* Mutant: the second channel has no turn.
AfterFirstChannel == [audio EXCEPT !.pc = "mix"]

\* The loop over the channels goes on to the next, or ends.
AfterChannel ==
  IF audio.channel = 1 THEN [audio EXCEPT !.pc = "control", !.channel = 2]
  ELSE [audio EXCEPT !.pc = "mix"]

\* The channel's control and its FIFO's timer are read from the page.
CheckControl ==
  LET c == audio.channel IN
  /\ audio.pc = "control"
  /\ audio' = IF regs.on[c] /\ regs.timerOf[Destination[c]] = audio.timer
              THEN [audio EXCEPT !.pc = "length"] ELSE AfterChannel
  /\ UNCHANGED <<regs, fifo, pcm, dma, kvm, writes, overflows, history>>

\* Mutant: a FIFO one byte longer is refilled.
NeedsRefillLate(length) == length <= Threshold + 1

NeedsRefill(length) == length <= Threshold

\* The FIFO's length is read under the lock, which is dropped again.
CheckLength ==
  LET f == Destination[audio.channel] IN
  /\ audio.pc = "length"
  /\ audio' = IF NeedsRefill(Len(fifo[f])) THEN [audio EXCEPT !.pc = "load"]
              ELSE AfterChannel
  /\ cpu' = cpu \ {f}
  /\ UNCHANGED <<regs, fifo, pcm, dma, kvm, writes, overflows, run, raced, fed>>

\* The DMA's registers are copied under the lock; a source of zero, which a
\* disabled channel leaves, is first read again from the page.
LoadSource ==
  LET c == audio.channel
      source == IF dma[c].source = 0 THEN regs.sad[c] ELSE dma[c].source
  IN
  /\ audio.pc = "load"
  /\ dma' = [dma EXCEPT ![c].source = source]
  /\ audio' = [audio EXCEPT !.pc = "push", !.source = source, !.left = Burst,
                            !.start = dma[c].start, !.end = dma[c].end]
  /\ raced' = IF dma[c].source = 0 THEN raced \cup {c} ELSE raced
  /\ UNCHANGED <<regs, fifo, pcm, kvm, writes, overflows, run, cpu, fed>>

\* Mutant: the source is wrapped only beyond the end.
WrappedLate(source) ==
  IF audio.end > audio.start /\ source > audio.end THEN audio.start ELSE source

\* At a word's begin, a source that has reached the end goes back to the start.
Wrapped(source) ==
  IF audio.end > audio.start /\ source >= audio.end THEN audio.start ELSE source

\* One byte of the burst, with the lock taken for this byte only.
PushBurstByte ==
  LET c == audio.channel
      f == Destination[c]
      source == IF audio.left % WordSize = 0 THEN Wrapped(audio.source)
                ELSE audio.source
  IN
  /\ audio.pc = "push"
  /\ fifo' = [fifo EXCEPT ![f] =
                PushByte(@, [channel |-> c, run |-> run[c], addr |-> source])]
  /\ audio' = [audio EXCEPT !.source = source + 1, !.left = @ - 1,
                            !.pc = IF audio.left = 1 THEN "store" ELSE "push"]
  /\ UNCHANGED <<regs, pcm, dma, kvm, writes, overflows, history>>

\* Mutant: the source goes back to where the burst began.
StoreSourceAgain ==
  /\ audio.pc = "store"
  /\ dma' = [dma EXCEPT ![audio.channel].source = audio.source - Burst]
  /\ audio' = AfterChannel
  /\ UNCHANGED <<regs, fifo, pcm, kvm, writes, overflows, history>>

\* The lock is taken again and the source stored, whatever happened to it.
StoreSource ==
  /\ audio.pc = "store"
  /\ dma' = [dma EXCEPT ![audio.channel].source = audio.source]
  /\ audio' = AfterChannel
  /\ UNCHANGED <<regs, fifo, pcm, kvm, writes, overflows, history>>

\* One byte leaves every FIFO of this timer (an empty one gives silence) and a
\* pair of samples is queued, whichever timer it was; all under the lock.
Mix ==
  /\ audio.pc = "mix"
  /\ fifo' = [f \in Fifos |->
                IF regs.timerOf[f] = audio.timer /\ fifo[f] # <<>>
                THEN Tail(fifo[f]) ELSE fifo[f]]
  /\ pcm' = PushSample(PushSample(pcm, "left"), "right")
  /\ audio' = AudioIdle
  /\ fed' = {}
  /\ UNCHANGED <<regs, dma, kvm, writes, overflows, run, raced, cpu>>

\* fill_audio_samples: the callback takes what there is, silence for the rest.
Callback(samples) ==
  /\ pcm # <<>>
  /\ pcm' = SubSeq(pcm, samples + 1, Len(pcm))
  /\ UNCHANGED <<regs, fifo, dma, audio, kvm, writes, overflows, history>>

AudioStep ==
  \/ \E timer \in Timers : Overflow(timer)
  \/ CheckControl \/ CheckLength \/ LoadSource \/ PushBurstByte \/ StoreSource
  \/ Mix

-----------------------------------------------------------------------------
(* The KVM thread: each write goes to the page first.                      *)

GuestWrites ==
  /\ kvm.pc = "idle"
  /\ writes < MaxWrites
  /\ writes' = writes + 1
  /\ UNCHANGED <<fifo, pcm, dma, audio, overflows, run, raced, cpu>>

\* A source address: nothing more happens.
WriteSource(c, source) ==
  /\ GuestWrites
  /\ regs' = [regs EXCEPT !.sad[c] = source]
  /\ UNCHANGED <<kvm, fed>>

\* A channel's control: on is enabled, with the special timing and for words.
WriteControl(c, on) ==
  /\ GuestWrites
  /\ regs' = [regs EXCEPT !.on[c] = on]
  /\ kvm' = [KvmIdle EXCEPT !.pc = "update", !.channel = c]
  /\ fed' = IF on THEN fed ELSE fed \ {Destination[c]}

\* SOUNDCNT_H: which timer drives a FIFO, and which FIFOs to clear.
WriteSoundControl(timerOf, reset) ==
  /\ GuestWrites
  /\ regs' = [regs EXCEPT !.timerOf = timerOf]
  /\ kvm' = [KvmIdle EXCEPT !.pc = "reset", !.reset = reset]
  /\ fed' = {f \in fed : timerOf[f] = regs.timerOf[f]}

\* A word for a FIFO.
WriteFifo(f) ==
  /\ GuestWrites
  /\ kvm' = [KvmIdle EXCEPT !.pc = "fifo", !.fifo = f, !.left = WordSize]
  /\ UNCHANGED <<regs, fed>>

\* handle_audio_io_write: the FIFOs are cleared under the lock ...
ResetFifos ==
  /\ kvm.pc = "reset"
  /\ fifo' = [f \in Fifos |-> IF f \in kvm.reset THEN <<>> ELSE fifo[f]]
  /\ kvm' = KvmIdle
  /\ fed' = fed \ kvm.reset
  /\ UNCHANGED <<regs, pcm, dma, audio, writes, overflows, run, raced, cpu>>

\* ... or the bytes pushed, the lock taken for each.
PushGuestByte ==
  /\ kvm.pc = "fifo"
  /\ fifo' = [fifo EXCEPT ![kvm.fifo] =
                PushByte(@, [channel |-> 0, run |-> 0, addr |-> 0])]
  /\ kvm' = IF kvm.left = 1 THEN KvmIdle ELSE [kvm EXCEPT !.left = @ - 1]
  /\ cpu' = cpu \cup {kvm.fifo}
  /\ UNCHANGED <<regs, pcm, dma, audio, writes, overflows, run, raced, fed>>

\* infer_fifo_dma_end: two channels set up in ascending order are taken for two
\* adjacent buffers of one length; else the memory's end, and none for ROM.
InferEnd(c, source) ==
  IF regs.sad[2] > regs.sad[1]
  THEN IF c = 1 THEN regs.sad[2] ELSE source + (regs.sad[2] - regs.sad[1])
  ELSE IF source \in 1..(RamEnd - 1) THEN RamEnd ELSE 0

Bursting(c) == audio.channel = c /\ audio.pc \in {"push", "store"}

\* update_fifo_dma_source_for_control_write: a channel turned off forgets its
\* source, a channel that is on starts from the page's.
UpdateSource ==
  LET c == kvm.channel
      source == regs.sad[c]
  IN
  /\ kvm.pc = "update"
  /\ dma' = [dma EXCEPT ![c] =
               IF regs.on[c]
               THEN [source |-> source, start |-> source,
                     end |-> InferEnd(c, source)]
               ELSE [@ EXCEPT !.source = 0]]
  /\ run' = IF regs.on[c] THEN [run EXCEPT ![c] = @ + 1] ELSE run
  /\ raced' = IF Bursting(c) THEN raced \cup {c}
              ELSE IF regs.on[c] THEN raced \ {c} ELSE raced
  /\ kvm' = KvmIdle
  /\ UNCHANGED <<regs, fifo, pcm, audio, writes, overflows, cpu, fed>>

KvmStep ==
  \/ \E c \in Channels, source \in Sources : WriteSource(c, source)
  \/ \E c \in Channels, on \in BOOLEAN : WriteControl(c, on)
  \/ \E timerOf \in [Fifos -> {0, 1}], reset \in SUBSET Fifos :
       WriteSoundControl(timerOf, reset)
  \/ \E f \in Fifos : WriteFifo(f)
  \/ ResetFifos \/ PushGuestByte \/ UpdateSource

Next == AudioStep \/ KvmStep \/ \E samples \in Callbacks : Callback(samples)

Spec == Init /\ [][Next]_vars

-----------------------------------------------------------------------------

\* The types of the variables; no queue exceeds its capacity.
TypeOK ==
  /\ regs \in [sad: [Channels -> Sources \cup {0}], on: [Channels -> BOOLEAN],
               timerOf: [Fifos -> {0, 1}]]
  /\ \A f \in Fifos : Len(fifo[f]) <= FifoCapacity
  /\ Len(pcm) <= PcmCapacity
  /\ dma \in [Channels -> [source: Nat, start: Nat, end: Nat]]
  /\ audio.pc \in {"idle", "control", "length", "load", "push", "store", "mix"}
  /\ audio.timer \in Timers /\ audio.channel \in Channels
  /\ audio.left \in 0..Burst
  /\ kvm.pc \in {"idle", "update", "reset", "fifo"}
  /\ kvm.left \in 0..WordSize
  /\ run \in [Channels -> Nat]
  /\ raced \subseteq Channels /\ cpu \subseteq Fifos /\ fed \subseteq Fifos

\* A refill never makes a FIFO drop a byte, although run_fifo_dma_for_timer
\* reads the length, lets go of the lock and pushes later: only bytes that the
\* guest writes itself in between can take the room.
RefillFits ==
  LET f == Destination[audio.channel] IN
  audio.pc = "push" /\ f \notin cpu =>
    Len(fifo[f]) + audio.left <= FifoCapacity

\* The sample at the head of the PCM queue is always a left one and the sides
\* alternate, whatever the queue dropped and the callback took: the channels
\* are never swapped (push_pcm_sample drops single samples).
PcmAligned ==
  \A i \in 1..Len(pcm) : pcm[i] = IF i % 2 = 1 THEN "left" ELSE "right"

\* The bytes of the DMA's current run.
Current(byte) ==
  /\ byte.channel \in Channels
  /\ byte.run > 0 /\ byte.run = run[byte.channel]
  /\ byte.channel \notin raced

\* A byte that a channel brings after its start comes from the buffer it was
\* started on, as long as no burst was under way when it was started and none
\* read the source again before.
FromBuffer ==
  \A f \in Fifos : \A i \in 1..Len(fifo[f]) :
    LET b == fifo[f][i]
        d == dma[b.channel]
    IN  Current(b) => b.addr >= d.start /\ (d.end > d.start => b.addr < d.end)

\* Those bytes come in the order of the buffer, none left out and none twice,
\* from the end to the start again, from one burst to the next.
InOrder ==
  \A f \in Fifos : \A i \in 1..(Len(fifo[f]) - 1) :
    LET b == fifo[f][i]
        next == fifo[f][i + 1]
        d == dma[b.channel]
    IN  Current(b) /\ next.channel = b.channel /\ next.run = b.run =>
          \/ next.addr = b.addr + 1
          \/ b.addr + 1 = d.end /\ next.addr = d.start

\* A FIFO whose DMA is on throughout an overflow of its timer, and which the
\* guest does not clear, has a byte for the sample: the refill comes first.
NeverStarves ==
  audio.pc = "mix" => \A f \in fed : fifo[f] # <<>>
=============================================================================

-------------------------- MODULE AudioPathProofs --------------------------
(***************************************************************************)
(* The direct sound path for every capacity, burst, FIFO and repertoire of *)
(* writes: queue bounds, stereo order, the room for a refill and bytes for *)
(* every sample; and for word addresses, that the bytes of a run come from *)
(* the channel's buffer, in its order.                                     *)
(***************************************************************************)
EXTENDS AudioPath, SequenceTheorems, TLAPS

Sides == {"left", "right"}
Bytes == [channel: 0..2, run: Nat, addr: Nat]

AudioPcs == {"idle", "control", "length", "load", "push", "store", "mix"}
KvmPcs == {"idle", "update", "reset", "fifo"}

AudioStates ==
  [pc: AudioPcs, timer: Timers, channel: Channels, source: Nat, start: Nat,
   end: Nat, left: 0..Burst]
KvmStates ==
  [pc: KvmPcs, channel: Channels, fifo: Fifos, reset: SUBSET Fifos,
   left: 0..WordSize]

\* The whole types of what TypeOK bounds.
Typed ==
  /\ fifo \in [Fifos -> Seq(Bytes)]
  /\ pcm \in Seq(Sides)
  /\ audio \in AudioStates
  /\ kvm \in KvmStates

\* Samples come and go in pairs.
EvenPcm == Len(pcm) % 2 = 0

\* From the check of the length to the burst, and in it, there is room; a burst
\* that goes on has bytes left.
Room ==
  LET f == Destination[audio.channel] IN
  /\ audio.pc = "load" /\ f \notin cpu => Len(fifo[f]) <= Threshold
  /\ audio.pc = "push" => audio.left > 0

\* A word being written has bytes left.
WordLeft == kvm.pc = "fifo" => kvm.left > 0

IInv == TypeOK /\ Typed /\ EvenPcm /\ PcmAligned /\ Room /\ WordLeft /\ RefillFits

-----------------------------------------------------------------------------
(* Lemmas about the queues.                                                *)

LEMMA Constants ==
  /\ Threshold \in Nat /\ WordSize \in Nat /\ WordSize > 0
  /\ Burst \in Nat /\ Burst > 0
  /\ FifoCapacity \in Nat /\ Threshold + Burst <= FifoCapacity
  /\ PcmCapacity \in Nat /\ PcmCapacity > 0 /\ PcmCapacity % 2 = 0
  /\ Destination \in [Channels -> Fifos]
  /\ Sources \subseteq Nat
<1>1. BurstWords \in Nat /\ BurstWords > 0 /\ WordSize \in Nat /\ WordSize > 0
  BY AudioAssumption
<1>2. BurstWords * WordSize \in Nat /\ BurstWords * WordSize > 0
  BY <1>1
<1> QED
  BY <1>1, <1>2, AudioAssumption DEF Burst

\* A push keeps a queue a queue, within its bound, and makes it longer only if it
\* is not full.
LEMMA PushByteFacts ==
  ASSUME NEW queue \in Seq(Bytes), NEW byte \in Bytes,
         Len(queue) <= FifoCapacity
  PROVE  /\ PushByte(queue, byte) \in Seq(Bytes)
         /\ Len(PushByte(queue, byte)) <= FifoCapacity
         /\ Len(PushByte(queue, byte)) <= Len(queue) + 1
<1>1. CASE Len(queue) >= FifoCapacity
  <2>1. queue # <<>>
    BY <1>1, Constants
  <2>2. Tail(queue) \in Seq(Bytes) /\ Len(Tail(queue)) = Len(queue) - 1
    BY <2>1
  <2> QED
    BY <1>1, <2>2, Constants DEF PushByte
<1>2. CASE ~(Len(queue) >= FifoCapacity)
  BY <1>2, Constants DEF PushByte
<1> QED
  BY <1>1, <1>2

Aligned(queue) ==
  \A i \in 1..Len(queue) : queue[i] = IF i % 2 = 1 THEN "left" ELSE "right"

\* What a push makes of a queue that is not full, and of a full one.
Pushed(queue, side, result) ==
  /\ Len(queue) < PcmCapacity =>
       /\ result \in Seq(Sides) /\ Len(result) = Len(queue) + 1
       /\ \A i \in 1..Len(queue) : result[i] = queue[i]
       /\ result[Len(queue) + 1] = side
  /\ Len(queue) = PcmCapacity =>
       /\ result \in Seq(Sides) /\ Len(result) = Len(queue)
       /\ \A i \in 1..(Len(queue) - 1) : result[i] = queue[i + 1]
       /\ result[Len(queue)] = side

LEMMA PushSampleFacts ==
  ASSUME NEW queue \in Seq(Sides), NEW side \in Sides
  PROVE  Pushed(queue, side, PushSample(queue, side))
<1>1. PcmCapacity \in Nat /\ PcmCapacity > 0 /\ Len(queue) \in Nat
  BY Constants
<1>2. PICK result : result = PushSample(queue, side)
  OBVIOUS
<1>3. CASE Len(queue) < PcmCapacity
  <2>1. result = Append(queue, side)
    BY <1>1, <1>2, <1>3 DEF PushSample
  <2>2. /\ result \in Seq(Sides) /\ Len(result) = Len(queue) + 1
        /\ \A i \in 1..Len(queue) : result[i] = queue[i]
        /\ result[Len(queue) + 1] = side
    BY <2>1, AppendProperties
  <2> QED
    BY <1>1, <1>2, <1>3, <2>2 DEF Pushed
<1>4. CASE Len(queue) = PcmCapacity
  <2>1. result = Append(Tail(queue), side)
    BY <1>1, <1>2, <1>4 DEF PushSample
  <2>2. queue # <<>>
    BY <1>1, <1>4
  <2>3. PICK tail : tail = Tail(queue)
    OBVIOUS
  <2>4. /\ tail \in Seq(Sides) /\ Len(tail) = Len(queue) - 1
        /\ \A i \in 1..Len(tail) : tail[i] = queue[i + 1]
    BY <2>2, <2>3, HeadTailProperties
  <2>5. /\ result \in Seq(Sides) /\ Len(result) = Len(tail) + 1
        /\ \A i \in 1..Len(tail) : result[i] = tail[i]
        /\ result[Len(tail) + 1] = side
    BY <2>1, <2>3, <2>4, AppendProperties
  <2>6. Len(result) = Len(queue) /\ result[Len(queue)] = side
    BY <1>1, <2>4, <2>5
  <2>7. \A i \in 1..(Len(queue) - 1) : result[i] = queue[i + 1]
    BY <2>4, <2>5
  <2> QED
    BY <1>1, <1>2, <1>4, <2>5, <2>6, <2>7 DEF Pushed
<1>5. CASE Len(queue) > PcmCapacity
  BY <1>1, <1>5 DEF Pushed
<1> QED
  BY <1>1, <1>3, <1>4, <1>5

\* A pair pushed on an aligned queue of pairs leaves it one, although a full
\* queue drops single samples.
LEMMA PushPair ==
  ASSUME NEW queue \in Seq(Sides), Len(queue) <= PcmCapacity,
         Len(queue) % 2 = 0, Aligned(queue),
         NEW result, result = PushSample(PushSample(queue, "left"), "right")
  PROVE  /\ result \in Seq(Sides) /\ Len(result) <= PcmCapacity
         /\ Len(result) % 2 = 0 /\ Aligned(result)
<1> DEFINE n == Len(queue)
<1>1. /\ n \in Nat /\ PcmCapacity \in Nat
      /\ PcmCapacity > 0 /\ PcmCapacity % 2 = 0
  BY Constants
<1>2. PICK first : first = PushSample(queue, "left")
  OBVIOUS
<1>3. result = PushSample(first, "right")
  BY <1>2
<1>4. "left" \in Sides /\ "right" \in Sides
  BY DEF Sides
<1>5. Pushed(queue, "left", first)
  BY <1>2, <1>4, PushSampleFacts, Zenon
<1>6. first \in Seq(Sides) => Pushed(first, "right", result)
  BY <1>3, <1>4, PushSampleFacts, Zenon
<1>7. CASE n < PcmCapacity
  <2>1. n + 1 < PcmCapacity
    BY <1>1, <1>7
  <2>2. /\ first \in Seq(Sides) /\ Len(first) = n + 1
        /\ \A i \in 1..n : first[i] = queue[i]
        /\ first[n + 1] = "left"
    BY <1>5, <1>7 DEF Pushed
  <2>3. /\ result \in Seq(Sides) /\ Len(result) = n + 2
        /\ \A i \in 1..(n + 1) : result[i] = first[i]
        /\ result[n + 2] = "right"
    <3>1. /\ Len(first) < PcmCapacity /\ Pushed(first, "right", result)
      BY <1>6, <2>1, <2>2
    <3>2. Len(first) + 1 = n + 2
      BY <1>1, <2>2
    <3> QED
      BY <2>2, <3>1, <3>2 DEF Pushed
  <2>4. \A i \in 1..n : result[i] = queue[i]
    BY <1>1, <2>2, <2>3
  <2>5. result[n + 1] = "left" /\ (n + 1) % 2 = 1 /\ (n + 2) % 2 = 0
    <3>1. result[n + 1] = first[n + 1]
      BY <1>1, <2>3
    <3>2. n % 2 = 0 /\ n \in Nat
      BY <1>1
    <3> HIDE DEF n
    <3>3. (n + 1) % 2 = 1 /\ (n + 2) % 2 = 0
      BY <3>2
    <3> QED
      BY <2>2, <3>1, <3>3
  <2>6. Aligned(result)
    <3>1. ASSUME NEW i \in 1..(n + 2)
          PROVE  result[i] = IF i % 2 = 1 THEN "left" ELSE "right"
      <4>1. CASE i \in 1..n
        BY <2>4, <4>1 DEF Aligned
      <4>2. CASE i = n + 1
        BY <2>5, <4>2
      <4>3. CASE i = n + 2
        BY <2>3, <2>5, <4>3
      <4> QED
        BY <1>1, <4>1, <4>2, <4>3
    <3> QED
      BY <2>3, <3>1 DEF Aligned
  <2> QED
    BY <1>1, <2>1, <2>3, <2>5, <2>6
<1>8. CASE n = PcmCapacity
  <2>1. n >= 2
    BY <1>1, <1>8
  <2>2. /\ first \in Seq(Sides) /\ Len(first) = n
        /\ \A i \in 1..(n - 1) : first[i] = queue[i + 1]
        /\ first[n] = "left"
    BY <1>5, <1>8 DEF Pushed
  <2>3. /\ result \in Seq(Sides) /\ Len(result) = n
        /\ \A i \in 1..(n - 1) : result[i] = first[i + 1]
        /\ result[n] = "right"
    BY <1>6, <1>8, <2>2 DEF Pushed
  <2>4. \A i \in 1..(n - 2) : result[i] = queue[i + 2]
    BY <2>1, <2>2, <2>3
  <2>5. result[n - 1] = "left"
    BY <2>1, <2>2, <2>3
  <2>6. \A i \in 1..(n - 2) : (i + 2) % 2 = i % 2 /\ i + 2 \in 1..n
    BY <1>1
  <2>7. (n - 1) % 2 = 1 /\ n % 2 = 0
    BY <1>1, <2>1
  <2>8. \A i \in 1..n : i \in 1..(n - 2) \/ i = n - 1 \/ i = n
    BY <1>1
  <2>9. Aligned(result)
    <3>1. ASSUME NEW i \in 1..n
          PROVE  result[i] = IF i % 2 = 1 THEN "left" ELSE "right"
      <4>1. CASE i \in 1..(n - 2)
        BY <2>4, <2>6, <4>1 DEF Aligned
      <4>2. CASE i = n - 1
        BY <2>5, <2>7, <4>2
      <4>3. CASE i = n
        BY <2>3, <2>7, <4>3
      <4> QED
        BY <2>8, <4>1, <4>2, <4>3
    <3> QED
      BY <2>3, <3>1 DEF Aligned
  <2> QED
    BY <1>1, <1>8, <2>3, <2>9
<1>9. n < PcmCapacity \/ n = PcmCapacity
  BY <1>1
<1> QED
  BY <1>7, <1>8, <1>9

LEMMA Parity ==
  ASSUME NEW a \in Nat, NEW b \in Nat, b % 2 = 0
  PROVE  /\ a % 2 = 0 /\ b <= a => (a - b) % 2 = 0
         /\ (a + b) % 2 = a % 2
  OBVIOUS

\* Taking an even number of samples from the head keeps the rest aligned.
LEMMA TakeSamples ==
  ASSUME NEW queue \in Seq(Sides), Len(queue) <= PcmCapacity,
         Len(queue) % 2 = 0, Aligned(queue),
         NEW samples \in Nat, samples % 2 = 0,
         NEW rest, rest = SubSeq(queue, samples + 1, Len(queue))
  PROVE  /\ rest \in Seq(Sides) /\ Len(rest) <= PcmCapacity
         /\ Len(rest) % 2 = 0 /\ Aligned(rest)
<1> DEFINE n == Len(queue)
<1>1. n \in Nat /\ PcmCapacity \in Nat
  BY Constants
<1>2. /\ rest \in Seq(Sides)
      /\ Len(rest) = IF samples + 1 <= n THEN n - (samples + 1) + 1 ELSE 0
      /\ \A i \in 1..(n - (samples + 1) + 1) : rest[i] = queue[samples + 1 + i - 1]
  <2>1. \A i \in (samples + 1)..n : queue[i] \in Sides
    OBVIOUS
  <2>2. samples + 1 \in Int /\ n \in Int
    BY <1>1
  <2> HIDE DEF n, Sides
  <2> QED
    BY <2>1, <2>2, SubSeqProperties DEF n
<1>3. CASE samples >= n
  <2>1. Len(rest) = 0
    BY <1>1, <1>2, <1>3
  <2>2. 0 % 2 = 0 /\ Len(rest) <= PcmCapacity
    BY <1>1, <2>1, Constants
  <2>3. Aligned(rest)
    BY <2>1 DEF Aligned
  <2> QED
    BY <1>2, <2>1, <2>2, <2>3
<1>4. CASE samples < n
  <2>1. Len(rest) = n - samples
    BY <1>1, <1>2, <1>4
  <2>2. Len(rest) % 2 = 0
    <3>1. n % 2 = 0 /\ samples <= n
      BY <1>1, <1>4
    <3> HIDE DEF n
    <3>2. (n - samples) % 2 = 0
      BY <1>1, <3>1, Parity
    <3> QED
      BY <2>1, <3>2
  <2>3. ASSUME NEW i \in 1..Len(rest)
        PROVE  rest[i] = IF i % 2 = 1 THEN "left" ELSE "right"
    <3>1. i + samples \in 1..n /\ samples + 1 + i - 1 = i + samples
      BY <1>1, <1>4, <2>1
    <3>2. i \in 1..(n - (samples + 1) + 1)
      BY <1>1, <1>4, <2>1
    <3>3. rest[i] = queue[i + samples]
      BY <1>2, <3>1, <3>2
    <3>4. (i + samples) % 2 = i % 2
      BY Parity
    <3> QED
      BY <3>1, <3>3, <3>4 DEF Aligned
  <2>4. Len(rest) <= PcmCapacity
    BY <1>1, <1>4, <2>1
  <2> QED
    BY <1>2, <2>2, <2>3, <2>4 DEF Aligned
<1>5. samples >= n \/ samples < n
  BY <1>1
<1> QED
  BY <1>3, <1>4, <1>5
-----------------------------------------------------------------------------
(* The invariant.                                                          *)

\* The part of the invariant about the PCM queue.
PcmInv == pcm \in Seq(Sides) /\ Len(pcm) <= PcmCapacity /\ EvenPcm /\ PcmAligned

\* The part about registers, threads and FIFOs.
FifoInv ==
  /\ regs \in [sad: [Channels -> Sources \cup {0}], on: [Channels -> BOOLEAN],
               timerOf: [Fifos -> {0, 1}]]
  /\ fifo \in [Fifos -> Seq(Bytes)]
  /\ \A f \in Fifos : Len(fifo[f]) <= FifoCapacity
  /\ dma \in [Channels -> [source: Nat, start: Nat, end: Nat]]
  /\ audio \in AudioStates
  /\ kvm \in KvmStates
  /\ run \in [Channels -> Nat]
  /\ raced \subseteq Channels /\ cpu \subseteq Fifos /\ fed \subseteq Fifos
  /\ Room /\ WordLeft /\ RefillFits

LEMMA Split == IInv <=> PcmInv /\ FifoInv
  BY DEF IInv, PcmInv, FifoInv, TypeOK, Typed, AudioStates, KvmStates, AudioPcs,
         KvmPcs

LEMMA Initially == Init => IInv
<1> SUFFICES ASSUME Init PROVE PcmInv /\ FifoInv
  BY Split
<1>1. Fifos # {} /\ 0 \in Timers
  BY Constants, AudioAssumption DEF Channels
<1>2. (CHOOSE f \in Fifos : TRUE) \in Fifos
  BY <1>1
<1>3. PcmInv
  BY Constants DEF Init, PcmInv, EvenPcm, PcmAligned
<1> QED
  BY <1>1, <1>2, <1>3, Constants
     DEF Init, FifoInv, AudioIdle, KvmIdle, AudioStates, KvmStates, AudioPcs,
         KvmPcs, Channels, Room, WordLeft, RefillFits

\* Only Mix and the callback touch the PCM queue.
LEMMA PcmKept ==
  ASSUME PcmInv, [Next]_vars
  PROVE  PcmInv'
<1>1. CASE Mix
  <2>1. pcm' = PushSample(PushSample(pcm, "left"), "right")
    BY <1>1 DEF Mix
  <2>2. Aligned(pcm)
    BY DEF PcmInv, PcmAligned, Aligned
  <2>3. /\ pcm' \in Seq(Sides) /\ Len(pcm') <= PcmCapacity
        /\ Len(pcm') % 2 = 0 /\ Aligned(pcm')
    BY <2>1, <2>2, PushPair DEF PcmInv, EvenPcm
  <2> QED
    BY <2>3 DEF PcmInv, EvenPcm, PcmAligned, Aligned
<1>2. ASSUME NEW samples \in Callbacks, Callback(samples) PROVE PcmInv'
  <2>1. pcm' = SubSeq(pcm, samples + 1, Len(pcm))
    BY <1>2 DEF Callback
  <2>2. samples \in Nat /\ samples % 2 = 0
    BY AudioAssumption
  <2>3. Aligned(pcm)
    BY DEF PcmInv, PcmAligned, Aligned
  <2>4. /\ pcm' \in Seq(Sides) /\ Len(pcm') <= PcmCapacity
        /\ Len(pcm') % 2 = 0 /\ Aligned(pcm')
    BY <2>1, <2>2, <2>3, TakeSamples DEF PcmInv, EvenPcm
  <2> QED
    BY <2>4 DEF PcmInv, EvenPcm, PcmAligned, Aligned
<1>3. CASE UNCHANGED pcm
  BY <1>3 DEF PcmInv, EvenPcm, PcmAligned
<1>4. CASE KvmStep
  <2>1. UNCHANGED pcm
    BY <1>4 DEF KvmStep, GuestWrites, WriteSource, WriteControl,
                WriteSoundControl, WriteFifo, ResetFifos, PushGuestByte,
                UpdateSource
  <2> QED
    BY <1>3, <2>1
<1>5. CASE AudioStep /\ ~Mix
  <2>1. UNCHANGED pcm
    BY <1>5 DEF AudioStep, Overflow, CheckControl, CheckLength, LoadSource,
                PushBurstByte, StoreSource
  <2> QED
    BY <1>3, <2>1
<1>6. CASE UNCHANGED vars
  BY <1>3, <1>6 DEF vars
<1> QED
  BY <1>1, <1>2, <1>4, <1>5, <1>6 DEF Next

LEMMA ChannelsFacts ==
  /\ Channels = {1, 2}
  /\ \A c \in Channels : Destination[c] \in Fifos
  BY Constants DEF Channels

LEMMA AfterChannelFacts ==
  ASSUME FifoInv
  PROVE  /\ AfterChannel \in AudioStates
         /\ AfterChannel.pc \in {"control", "mix"}
  BY ChannelsFacts DEF FifoInv, AfterChannel, AudioStates, AudioPcs

LEMMA States ==
  ASSUME FifoInv
  PROVE  /\ audio.pc \in AudioPcs /\ audio.timer \in Timers
         /\ audio.channel \in Channels /\ audio.source \in Nat
         /\ audio.start \in Nat /\ audio.end \in Nat /\ audio.left \in 0..Burst
         /\ Burst \in Nat /\ audio.left \in Nat
         /\ audio = [pc |-> audio.pc, timer |-> audio.timer,
                     channel |-> audio.channel, source |-> audio.source,
                     start |-> audio.start, end |-> audio.end,
                     left |-> audio.left]
         /\ Destination[audio.channel] \in Fifos
         /\ \A f \in Fifos : fifo[f] \in Seq(Bytes) /\ Len(fifo[f]) \in Nat
<1>1. audio \in AudioStates /\ fifo \in [Fifos -> Seq(Bytes)]
  BY DEF FifoInv
<1>2. Burst \in Nat
  BY Constants
<1> QED
  BY <1>1, <1>2, ChannelsFacts DEF AudioStates

LEMMA AudioKeeps ==
  ASSUME FifoInv, AudioStep
  PROVE  FifoInv'
<1>1. ASSUME NEW timer \in Timers, Overflow(timer) PROVE FifoInv'
  <2>1. audio' \in AudioStates /\ audio'.pc = "control"
    <3>1. audio' = [pc |-> "control", timer |-> timer, channel |-> 1,
                    source |-> 0, start |-> 0, end |-> 0, left |-> 0]
      BY <1>1 DEF Overflow, AudioIdle
    <3>2. 0 \in 0..Burst
      BY Constants
    <3> QED
      BY <3>1, <3>2, ChannelsFacts DEF AudioStates, AudioPcs
  <2>2. fed' \subseteq Fifos
    BY <1>1 DEF Overflow
  <2> QED
    BY <1>1, <2>1, <2>2 DEF Overflow, FifoInv, Room, WordLeft, RefillFits
<1>2. CASE CheckControl
  <2>1. /\ audio' \in AudioStates
        /\ audio'.pc \notin {"load", "push"}
    BY <1>2, AfterChannelFacts
       DEF CheckControl, FifoInv, AudioStates, AudioPcs
  <2> QED
    BY <1>2, <2>1
       DEF CheckControl, history, FifoInv, Room, WordLeft, RefillFits
<1>3. CASE CheckLength
  <2>1. audio' \in AudioStates
    BY <1>3, AfterChannelFacts
       DEF CheckLength, FifoInv, AudioStates, AudioPcs
  <2>2. /\ audio'.pc # "push"
        /\ audio'.pc = "load" =>
             /\ audio'.channel = audio.channel
             /\ Len(fifo[Destination[audio.channel]]) <= Threshold
    BY <1>3, AfterChannelFacts
       DEF CheckLength, NeedsRefill, FifoInv, AudioStates, AudioPcs
  <2>3. fifo' = fifo
    BY <1>3 DEF CheckLength
  <2> QED
    BY <1>3, <2>1, <2>2, <2>3
       DEF CheckLength, FifoInv, Room, WordLeft, RefillFits
<1>4. CASE LoadSource
  <2> DEFINE c == audio.channel
             source == IF dma[c].source = 0 THEN regs.sad[c] ELSE dma[c].source
  <2>1. c \in Channels /\ source \in Nat
    BY States, Constants DEF FifoInv
  <2>2. /\ dma' = [dma EXCEPT ![c].source = source]
        /\ audio' = [audio EXCEPT !.pc = "push", !.source = source,
                       !.left = Burst, !.start = dma[c].start, !.end = dma[c].end]
        /\ fifo' = fifo /\ cpu' = cpu
    BY <1>4 DEF LoadSource, history
  <2>3. dma' \in [Channels -> [source: Nat, start: Nat, end: Nat]]
    <3>1. dma \in [Channels -> [source: Nat, start: Nat, end: Nat]]
      BY DEF FifoInv
    <3> HIDE DEF source
    <3> QED
      BY <2>1, <2>2, <3>1
  <2>4. /\ audio' \in AudioStates
        /\ audio'.pc = "push" /\ audio'.channel = c /\ audio'.left = Burst
    <3>1. dma[c].start \in Nat /\ dma[c].end \in Nat
      BY <2>1 DEF FifoInv
    <3> QED
      <4>1. audio' = [pc |-> "push", timer |-> audio.timer,
                      channel |-> c, source |-> source,
                      start |-> dma[c].start, end |-> dma[c].end,
                      left |-> Burst]
        BY <2>2, States
      <4>2. Burst \in 0..Burst
        BY Constants
      <4> QED
        BY <2>1, <3>1, <4>1, <4>2, States DEF AudioStates, AudioPcs
  <2>5. RefillFits' /\ Room'
    <3>1. Destination[c] \notin cpu => Len(fifo[Destination[c]]) <= Threshold
      BY <1>4 DEF LoadSource, FifoInv, Room
    <3>2. Len(fifo[Destination[c]]) \in Nat
      BY States
    <3> QED
      BY <2>2, <2>4, <3>1, <3>2, Constants DEF Room, RefillFits
  <2>6. raced' \subseteq Channels
    BY <1>4, <2>1 DEF LoadSource, FifoInv
  <2> QED
    BY <1>4, <2>2, <2>3, <2>4, <2>5, <2>6 DEF LoadSource, FifoInv, WordLeft
<1>5. CASE PushBurstByte
  <2> DEFINE c == audio.channel
             f == Destination[c]
             source == IF audio.left % WordSize = 0 THEN Wrapped(audio.source)
                       ELSE audio.source
             byte == [channel |-> c, run |-> run[c], addr |-> source]
  <2>1. /\ c \in Channels /\ f \in Fifos /\ source \in Nat
        /\ audio.pc = "push" /\ audio.left \in 1..Burst
    <3>1. audio.pc = "push" /\ audio.left > 0
      BY <1>5 DEF PushBurstByte, FifoInv, Room
    <3> QED
      BY <3>1, States DEF Wrapped
  <2>2. byte \in Bytes
    BY <2>1, ChannelsFacts DEF FifoInv, Bytes
  <2>3. /\ fifo' = [fifo EXCEPT ![f] = PushByte(@, byte)]
        /\ audio' = [audio EXCEPT !.source = source + 1, !.left = @ - 1,
                       !.pc = IF audio.left = 1 THEN "store" ELSE "push"]
    BY <1>5 DEF PushBurstByte
  <2>4. PICK pushed : pushed = PushByte(fifo[f], byte)
    OBVIOUS
  <2>5. /\ pushed \in Seq(Bytes) /\ Len(pushed) <= FifoCapacity
        /\ Len(pushed) <= Len(fifo[f]) + 1
    BY <2>1, <2>2, <2>4, PushByteFacts DEF FifoInv
  <2>6. fifo' = [fifo EXCEPT ![f] = pushed]
    BY <2>3, <2>4
  <2>7. /\ fifo' \in [Fifos -> Seq(Bytes)]
        /\ \A g \in Fifos : Len(fifo'[g]) <= FifoCapacity
        /\ fifo'[f] = pushed
    BY <2>1, <2>5, <2>6 DEF FifoInv
  <2>8. /\ audio' \in AudioStates
        /\ audio'.channel = c /\ audio'.left = audio.left - 1
        /\ audio'.pc = "push" => audio.left > 1
        /\ audio'.pc # "load"
    <3>1. audio' = [pc |-> IF audio.left = 1 THEN "store" ELSE "push",
                    timer |-> audio.timer, channel |-> c,
                    source |-> source + 1, start |-> audio.start,
                    end |-> audio.end, left |-> audio.left - 1]
      BY <2>3, States
    <3>2. audio.left - 1 \in 0..Burst /\ audio.left \in Nat /\ source + 1 \in Nat
      BY <2>1, States
    <3> HIDE DEF source
    <3> QED
      BY <2>1, <3>1, <3>2, States DEF AudioStates, AudioPcs
  <2>9. f \notin cpu => Len(fifo[f]) + audio.left <= FifoCapacity
    BY <2>1 DEF FifoInv, RefillFits
  <2>10. RefillFits' /\ Room'
    <3>1. Len(fifo[f]) \in Nat /\ Len(pushed) \in Nat /\ audio.left \in Nat
      BY <2>1, <2>5, States
    <3>2. cpu' = cpu
      BY <1>5 DEF PushBurstByte, history
    <3>3. f \notin cpu => Len(pushed) + (audio.left - 1) <= FifoCapacity
      BY <2>5, <2>9, <3>1, Constants
    <3> QED
      BY <2>7, <2>8, <3>1, <3>2, <3>3 DEF Room, RefillFits
  <2> QED
    BY <1>5, <2>7, <2>8, <2>10 DEF PushBurstByte, history, FifoInv, WordLeft
<1>6. CASE StoreSource
  <2>1. dma' \in [Channels -> [source: Nat, start: Nat, end: Nat]]
    <3>1. dma \in [Channels -> [source: Nat, start: Nat, end: Nat]]
      BY DEF FifoInv
    <3>2. dma' = [dma EXCEPT ![audio.channel].source = audio.source]
      BY <1>6 DEF StoreSource
    <3> QED
      BY <3>1, <3>2, States
  <2>2. /\ audio' \in AudioStates
        /\ audio'.pc \notin {"load", "push"}
    BY <1>6, AfterChannelFacts DEF StoreSource
  <2> QED
    BY <1>6, <2>1, <2>2
       DEF StoreSource, history, FifoInv, Room, WordLeft, RefillFits
<1>7. CASE Mix
  <2>1. /\ fifo' \in [Fifos -> Seq(Bytes)]
        /\ \A f \in Fifos : Len(fifo'[f]) <= FifoCapacity
    <3>1. ASSUME NEW f \in Fifos
          PROVE  fifo'[f] \in Seq(Bytes) /\ Len(fifo'[f]) <= FifoCapacity
      <4>1. fifo[f] \in Seq(Bytes) /\ Len(fifo[f]) <= FifoCapacity
        BY DEF FifoInv
      <4>2. \/ fifo'[f] = fifo[f]
            \/ fifo[f] # <<>> /\ fifo'[f] = Tail(fifo[f])
        BY <1>7 DEF Mix
      <4>3. CASE fifo[f] # <<>> /\ fifo'[f] = Tail(fifo[f])
        <5>1. /\ fifo'[f] \in Seq(Bytes) /\ Len(fifo'[f]) = Len(fifo[f]) - 1
          BY <4>1, <4>3, HeadTailProperties
        <5> QED
          BY <4>1, <5>1, Constants
      <4> QED
        BY <4>1, <4>2, <4>3
    <3>2. fifo' = [f \in Fifos |-> fifo'[f]]
      BY <1>7 DEF Mix
    <3> QED
      BY <3>1, <3>2
  <2>2. audio' \in AudioStates /\ audio'.pc = "idle"
    <3>1. 0 \in Timers /\ 0 \in 0..Burst
      BY AudioAssumption, Constants
    <3> QED
      BY <1>7, <3>1, ChannelsFacts DEF Mix, AudioIdle, AudioStates, AudioPcs
  <2>3. UNCHANGED <<regs, dma, kvm, run, raced, cpu>> /\ fed' = {}
    BY <1>7 DEF Mix
  <2> QED
    BY <2>1, <2>2, <2>3 DEF FifoInv, Room, WordLeft, RefillFits
<1> QED
  BY <1>1, <1>2, <1>3, <1>4, <1>5, <1>6, <1>7 DEF AudioStep

\* A guest's register write, before anything is made of it.
LEMMA RegisterWrites ==
  ASSUME FifoInv,
         NEW next \in KvmStates, next.pc = "fifo" => next.left > 0,
         UNCHANGED <<fifo, dma, audio, run, raced, cpu>>, kvm' = next,
         regs' \in [sad: [Channels -> Sources \cup {0}],
                    on: [Channels -> BOOLEAN], timerOf: [Fifos -> {0, 1}]],
         fed' \subseteq Fifos
  PROVE  FifoInv'
  BY DEF FifoInv, Room, WordLeft, RefillFits

LEMMA KvmKeeps ==
  ASSUME FifoInv, KvmStep
  PROVE  FifoInv'
<1>1. /\ regs \in [sad: [Channels -> Sources \cup {0}],
                   on: [Channels -> BOOLEAN], timerOf: [Fifos -> {0, 1}]]
      /\ kvm \in KvmStates /\ KvmIdle \in KvmStates /\ KvmIdle.pc = "idle"
      /\ fed \subseteq Fifos
  <2>1. (CHOOSE f \in Fifos : TRUE) \in Fifos
    BY ChannelsFacts
  <2>2. 0 \in 0..WordSize
    BY Constants
  <2> QED
    BY <2>1, <2>2, ChannelsFacts DEF FifoInv, KvmIdle, KvmStates, KvmPcs
<1>2. ASSUME NEW c \in Channels, NEW source \in Sources, WriteSource(c, source)
      PROVE  FifoInv'
  <2>1. regs' \in [sad: [Channels -> Sources \cup {0}],
                   on: [Channels -> BOOLEAN], timerOf: [Fifos -> {0, 1}]]
    BY <1>1, <1>2 DEF WriteSource
  <2> QED
    <3>1. UNCHANGED <<fifo, dma, audio, run, raced, cpu>> /\ fed' = fed /\ kvm' = kvm
      BY <1>2 DEF WriteSource, GuestWrites
    <3>2. kvm.pc = "fifo" => kvm.left > 0
      BY DEF FifoInv, WordLeft
    <3> QED
      BY <1>1, <2>1, <3>1, <3>2, RegisterWrites
<1>3. ASSUME NEW c \in Channels, NEW on \in BOOLEAN, WriteControl(c, on)
      PROVE  FifoInv'
  <2>1. regs' \in [sad: [Channels -> Sources \cup {0}],
                   on: [Channels -> BOOLEAN], timerOf: [Fifos -> {0, 1}]]
    BY <1>1, <1>3 DEF WriteControl
  <2>2. kvm' \in KvmStates /\ kvm'.pc = "update"
    BY <1>1, <1>3 DEF WriteControl, KvmStates, KvmPcs
  <2>3. fed' \subseteq Fifos
    BY <1>1, <1>3 DEF WriteControl
  <2> QED
    BY <1>3, <2>1, <2>2, <2>3, RegisterWrites DEF WriteControl, GuestWrites
<1>4. ASSUME NEW timerOf \in [Fifos -> {0, 1}], NEW reset \in SUBSET Fifos,
             WriteSoundControl(timerOf, reset)
      PROVE  FifoInv'
  <2>1. regs' \in [sad: [Channels -> Sources \cup {0}],
                   on: [Channels -> BOOLEAN], timerOf: [Fifos -> {0, 1}]]
    BY <1>1, <1>4 DEF WriteSoundControl
  <2>2. kvm' \in KvmStates /\ kvm'.pc = "reset"
    BY <1>1, <1>4 DEF WriteSoundControl, KvmStates, KvmPcs
  <2>3. fed' \subseteq Fifos
    BY <1>1, <1>4 DEF WriteSoundControl
  <2> QED
    BY <1>4, <2>1, <2>2, <2>3, RegisterWrites
       DEF WriteSoundControl, GuestWrites
<1>5. ASSUME NEW f \in Fifos, WriteFifo(f) PROVE FifoInv'
  <2>1. WordSize \in 0..WordSize /\ WordSize > 0
    BY Constants
  <2>2. kvm' \in KvmStates /\ kvm'.left > 0
    BY <1>1, <1>5, <2>1 DEF WriteFifo, KvmStates, KvmPcs
  <2> QED
    BY <1>1, <1>5, <2>2, RegisterWrites DEF WriteFifo, GuestWrites
<1>6. CASE ResetFifos
  <2>1. fifo' = [f \in Fifos |-> IF f \in kvm.reset THEN <<>> ELSE fifo[f]]
    BY <1>6 DEF ResetFifos
  <2>2. /\ fifo' \in [Fifos -> Seq(Bytes)]
        /\ \A f \in Fifos : Len(fifo'[f]) <= FifoCapacity
        /\ \A f \in Fifos : Len(fifo'[f]) <= Len(fifo[f])
    <3>1. ASSUME NEW f \in Fifos
          PROVE  /\ fifo'[f] \in Seq(Bytes) /\ Len(fifo'[f]) <= FifoCapacity
                 /\ Len(fifo'[f]) <= Len(fifo[f])
      <4>1. /\ fifo[f] \in Seq(Bytes) /\ Len(fifo[f]) \in Nat
            /\ Len(fifo[f]) <= FifoCapacity
        BY States DEF FifoInv
      <4>2. <<>> \in Seq(Bytes) /\ Len(<<>>) = 0
        OBVIOUS
      <4> QED
        BY <2>1, <4>1, <4>2, Constants
    <3> QED
      BY <2>1, <3>1
  <2>3. /\ kvm' = KvmIdle /\ fed' \subseteq Fifos
        /\ UNCHANGED <<regs, dma, audio, run, raced, cpu>>
    BY <1>1, <1>6 DEF ResetFifos
  <2>4. RefillFits' /\ Room'
    <3> DEFINE f == Destination[audio.channel]
    <3>1. /\ f \in Fifos /\ Len(fifo'[f]) \in Nat /\ Len(fifo[f]) \in Nat
          /\ Len(fifo'[f]) <= Len(fifo[f]) /\ audio.left \in Nat
      <4>1. f \in Fifos /\ audio.left \in Nat /\ Len(fifo[f]) \in Nat
        BY States
      <4>2. fifo'[f] \in Seq(Bytes) /\ Len(fifo'[f]) <= Len(fifo[f])
        BY <2>2, <4>1
      <4> QED
        BY <4>1, <4>2
    <3>2. /\ audio.pc = "push" /\ f \notin cpu =>
               Len(fifo[f]) + audio.left <= FifoCapacity
          /\ audio.pc = "load" /\ f \notin cpu => Len(fifo[f]) <= Threshold
          /\ audio.pc = "push" => audio.left > 0
      BY DEF FifoInv, Room, RefillFits
    <3>3. /\ audio.pc = "push" /\ f \notin cpu =>
               Len(fifo'[f]) + audio.left <= FifoCapacity
          /\ audio.pc = "load" /\ f \notin cpu => Len(fifo'[f]) <= Threshold
      BY <3>1, <3>2, Constants
    <3> QED
      BY <2>3, <3>2, <3>3 DEF Room, RefillFits
  <2> QED
    BY <1>1, <2>2, <2>3, <2>4 DEF FifoInv, WordLeft
<1>7. CASE PushGuestByte
  <2> DEFINE f == kvm.fifo
             byte == [channel |-> 0, run |-> 0, addr |-> 0]
  <2>1. f \in Fifos /\ byte \in Bytes
    BY <1>1 DEF KvmStates, Bytes
  <2>2. PICK pushed : pushed = PushByte(fifo[f], byte)
    OBVIOUS
  <2>3. pushed \in Seq(Bytes) /\ Len(pushed) <= FifoCapacity
    BY <2>1, <2>2, PushByteFacts DEF FifoInv
  <2>4. fifo' = [fifo EXCEPT ![f] = pushed] /\ cpu' = cpu \cup {f}
    BY <1>7, <2>2 DEF PushGuestByte
  <2>5. /\ fifo' \in [Fifos -> Seq(Bytes)]
        /\ \A g \in Fifos : Len(fifo'[g]) <= FifoCapacity
        /\ \A g \in Fifos \ {f} : fifo'[g] = fifo[g]
    BY <2>1, <2>3, <2>4 DEF FifoInv
  <2>6. kvm' \in KvmStates /\ (kvm'.pc = "fifo" => kvm'.left > 0)
    <3>1. CASE kvm.left = 1
      BY <1>1, <1>7, <3>1 DEF PushGuestByte
    <3>2. CASE kvm.left # 1
      <4>1. kvm.left \in 0..WordSize /\ kvm.left > 0 /\ WordSize \in Nat
        BY <1>1, <1>7, Constants DEF PushGuestByte, KvmStates, FifoInv, WordLeft
      <4>2. kvm' = [kvm EXCEPT !.left = @ - 1]
        BY <1>7, <3>2 DEF PushGuestByte
      <4>3. kvm.left - 1 \in 0..WordSize /\ kvm.left - 1 > 0
        BY <3>2, <4>1
      <4> QED
        BY <1>1, <4>2, <4>3 DEF KvmStates
    <3> QED
      BY <3>1, <3>2
  <2>7. RefillFits' /\ Room'
    BY <1>7, <2>4, <2>5, States DEF PushGuestByte, FifoInv, Room, RefillFits
  <2>8. cpu' \subseteq Fifos
    BY <2>1, <2>4 DEF FifoInv
  <2> QED
    BY <1>7, <2>5, <2>6, <2>7, <2>8 DEF PushGuestByte, FifoInv, WordLeft
<1>8. CASE UpdateSource
  <2> DEFINE c == kvm.channel
             source == regs.sad[c]
  <2>1. c \in Channels /\ source \in Nat
    <3>1. c \in Channels
      BY <1>1 DEF KvmStates
    <3>2. regs.sad \in [Channels -> Sources \cup {0}]
      BY <1>1
    <3>3. source \in Sources \cup {0}
      BY <3>1, <3>2
    <3> HIDE DEF source
    <3> QED
      BY <3>1, <3>3, Constants
  <2>2. InferEnd(c, source) \in Nat
    <3>1. regs.sad[1] \in Nat /\ regs.sad[2] \in Nat /\ RamEnd \in Nat
      <4>1. regs.sad \in [Channels -> Sources \cup {0}]
        BY <1>1
      <4> QED
        BY <4>1, ChannelsFacts, Constants, AudioAssumption
    <3> QED
      BY <2>1, <3>1 DEF InferEnd
  <2>3. dma' \in [Channels -> [source: Nat, start: Nat, end: Nat]]
    <3>1. CASE regs.on[c]
      <4>1. dma' = [dma EXCEPT ![c] = [source |-> source, start |-> source,
                                       end |-> InferEnd(c, source)]]
        BY <1>8, <3>1 DEF UpdateSource
      <4> QED
        BY <2>1, <2>2, <4>1 DEF FifoInv
    <3>2. CASE ~regs.on[c]
      <4>1. dma' = [dma EXCEPT ![c] = [@ EXCEPT !.source = 0]]
        BY <1>8, <3>2 DEF UpdateSource
      <4> QED
        BY <2>1, <4>1 DEF FifoInv
    <3> QED
      BY <3>1, <3>2
  <2>4. run' \in [Channels -> Nat]
    BY <1>8, <2>1 DEF UpdateSource, FifoInv
  <2>5. raced' \subseteq Channels
    BY <1>8, <2>1 DEF UpdateSource, FifoInv
  <2> QED
    BY <1>1, <1>8, <2>3, <2>4, <2>5
       DEF UpdateSource, FifoInv, Room, WordLeft, RefillFits
<1> QED
  BY <1>2, <1>3, <1>4, <1>5, <1>6, <1>7, <1>8 DEF KvmStep

LEMMA Inductive == IInv /\ [Next]_vars => IInv'
<1> SUFFICES ASSUME PcmInv, FifoInv, [Next]_vars PROVE PcmInv' /\ FifoInv'
  <2>1. IInv' <=> PcmInv' /\ FifoInv'
    BY Split, PTL
  <2> QED
    BY <2>1, Split
<1>1. PcmInv'
  BY PcmKept
<1>2. ASSUME NEW samples \in Callbacks, Callback(samples) PROVE FifoInv'
  BY <1>2 DEF Callback, history, FifoInv, Room, WordLeft, RefillFits
<1>3. CASE UNCHANGED vars
  BY <1>1, <1>3 DEF vars, FifoInv, Room, WordLeft, RefillFits
<1>4. CASE AudioStep
  BY <1>1, <1>4, AudioKeeps
<1>5. CASE KvmStep
  BY <1>1, <1>5, KvmKeeps
<1> QED
  BY <1>1, <1>2, <1>3, <1>4, <1>5 DEF Next

THEOREM Invariance == Spec => []IInv
  BY Initially, Inductive, PTL DEF Spec

-----------------------------------------------------------------------------

\* The variables keep their types, and no queue exceeds its capacity.
THEOREM TypeCorrect == Spec => []TypeOK
<1>1. IInv => TypeOK
  BY DEF IInv
<1> QED
  BY <1>1, Invariance, PTL

\* However full the PCM queue, whatever the callback takes: left and right are
\* never swapped (push_pcm_sample, fill_audio_samples).
THEOREM SidesKept == Spec => []PcmAligned
<1>1. IInv => PcmAligned
  BY DEF IInv
<1> QED
  BY <1>1, Invariance, PTL

\* A refill has room for every byte of its burst, unless the guest writes the
\* FIFO itself meanwhile (run_fifo_dma_for_timer).
THEOREM RefillHasRoom == Spec => []RefillFits
<1>1. IInv => RefillFits
  BY DEF IInv
<1> QED
  BY <1>1, Invariance, PTL
-----------------------------------------------------------------------------
(* A FIFO that the DMA serves has a byte when the sample is taken.         *)

\* The loop over the channels has still to look at the channel.
Ahead(c) ==
  \/ audio.pc \in {"control", "length", "load", "push"} /\ audio.channel <= c
  \/ audio.pc = "store" /\ audio.channel < c

\* The FIFO has a byte, or the channel that will bring one is still to come.
Served(f) ==
  /\ audio.pc # "idle" /\ regs.timerOf[f] = audio.timer
  /\ \E c \in Channels :
       regs.on[c] /\ Destination[c] = f /\ (fifo[f] # <<>> \/ Ahead(c))

FedInv == \A f \in fed : Served(f)

\* A step that turns no channel of these FIFOs off, empties none of them, and passes
\* a channel only with its FIFO filled.
LEMMA StillServed ==
  ASSUME FedInv, fed' \subseteq fed,
         \A f \in fed' :
           /\ audio'.pc # "idle" /\ audio'.timer = audio.timer
           /\ regs'.timerOf[f] = regs.timerOf[f]
           /\ \A c \in Channels : Destination[c] = f /\ regs.on[c] => regs'.on[c]
           /\ fifo[f] # <<>> => fifo'[f] # <<>>
           /\ \A c \in Channels : Destination[c] = f /\ regs.on[c] /\ Ahead(c) =>
                fifo'[f] # <<>> \/ Ahead(c)'
  PROVE  FedInv'
<1> SUFFICES ASSUME NEW f \in fed' PROVE Served(f)'
  BY DEF FedInv
<1>1. f \in fed /\ Served(f)
  BY DEF FedInv
<1>2. PICK c \in Channels :
        regs.on[c] /\ Destination[c] = f /\ (fifo[f] # <<>> \/ Ahead(c))
  BY <1>1 DEF Served
<1>3. regs'.on[c] /\ Destination[c] = f /\ (fifo'[f] # <<>> \/ Ahead(c)')
  BY <1>2
<1>4. audio'.pc # "idle" /\ regs'.timerOf[f] = audio'.timer
  BY <1>1 DEF Served
<1> QED  BY <1>3, <1>4 DEF Served

\* A step of the audio clock that leaves the registers alone.
LEMMA AudioServes ==
  ASSUME FedInv, UNCHANGED <<regs, fed>>, audio'.pc # "idle", audio'.timer = audio.timer,
         \A f \in fed :
           /\ fifo[f] # <<>> => fifo'[f] # <<>>
           /\ \A c \in Channels : Destination[c] = f /\ regs.on[c] /\ Ahead(c) =>
                fifo'[f] # <<>> \/ Ahead(c)'
  PROVE  FedInv'
BY StillServed

\* No queue is empty after a push.
LEMMA PushedNotEmpty ==
  ASSUME NEW queue \in Seq(Bytes), NEW byte \in Bytes, Len(queue) <= FifoCapacity
  PROVE  PushByte(queue, byte) # <<>>
<1>1. ASSUME NEW q \in Seq(Bytes) PROVE Append(q, byte) # <<>>
  BY AppendProperties
<1>2. CASE Len(queue) >= FifoCapacity
  <2>1. Tail(queue) \in Seq(Bytes)
    BY <1>2, Constants
  <2> QED  BY <1>1, <1>2, <2>1 DEF PushByte
<1>3. CASE ~(Len(queue) >= FifoCapacity)
  BY <1>1, <1>3 DEF PushByte
<1> QED  BY <1>2, <1>3

\* What a burst pushes is a byte.
LEMMA PushedIsByte ==
  ASSUME FifoInv, PushBurstByte
  PROVE  \E byte \in Bytes :
           fifo' = [fifo EXCEPT ![Destination[audio.channel]] = PushByte(@, byte)]
<1> DEFINE c == audio.channel
           source == IF audio.left % WordSize = 0 THEN Wrapped(audio.source)
                     ELSE audio.source
<1>1. c \in Channels /\ source \in Nat /\ run[c] \in Nat
  BY DEF FifoInv, AudioStates, Wrapped
<1>2. [channel |-> c, run |-> run[c], addr |-> source] \in Bytes
  BY <1>1, ChannelsFacts DEF Bytes
<1> QED  BY <1>2 DEF PushBurstByte

LEMMA AudioFeeds ==
  ASSUME FifoInv, FedInv, AudioStep
  PROVE  FedInv'
<1> DEFINE n == audio.channel
<1>1. /\ n \in {1, 2} /\ audio.pc \in AudioPcs
      /\ \A c \in Channels : c \in {1, 2} /\ Destination[c] \in Fifos
      /\ fed \subseteq Fifos
  BY ChannelsFacts DEF FifoInv, AudioStates
<1>2. /\ AfterChannel.pc = IF n = 1 THEN "control" ELSE "mix"
      /\ AfterChannel.channel = IF n = 1 THEN 2 ELSE n
      /\ AfterChannel.timer = audio.timer
  BY DEF AfterChannel, FifoInv, AudioStates
<1>3. \A c \in {1, 2} : n < c /\ audio' = AfterChannel => Ahead(c)'
  BY <1>1, <1>2 DEF Ahead
<1>4. ASSUME NEW timer \in Timers, Overflow(timer) PROVE FedInv'
  <2>1. /\ audio'.pc = "control" /\ audio'.timer = timer /\ audio'.channel = 1
        /\ UNCHANGED <<regs, fifo>>
    BY <1>4 DEF Overflow, AudioIdle
  <2>2. \A c \in Channels : Ahead(c)'
    BY <1>1, <2>1 DEF Ahead
  <2>3. fed' = {f \in Fifos : regs.timerOf[f] = timer
                            /\ \E c \in Channels : regs.on[c] /\ Destination[c] = f}
    BY <1>4 DEF Overflow
  <2> QED  BY <2>1, <2>2, <2>3 DEF FedInv, Served
<1>5. CASE CheckControl
  <2>1. /\ audio.pc = "control" /\ UNCHANGED <<regs, fifo, fed>>
        /\ audio' = IF regs.on[n] /\ regs.timerOf[Destination[n]] = audio.timer
                    THEN [audio EXCEPT !.pc = "length"] ELSE AfterChannel
    BY <1>5 DEF CheckControl, history
  <2>2. CASE regs.on[n] /\ regs.timerOf[Destination[n]] = audio.timer
    <3>1. audio'.pc = "length" /\ audio'.channel = n /\ audio'.timer = audio.timer
      BY <2>1, <2>2 DEF FifoInv, AudioStates
    <3>2. \A c \in Channels : Ahead(c) => Ahead(c)'
      BY <2>1, <3>1 DEF Ahead
    <3> QED  BY <2>1, <3>1, <3>2, AudioServes
  <2>3. CASE ~(regs.on[n] /\ regs.timerOf[Destination[n]] = audio.timer)
    <3>1. audio' = AfterChannel
      BY <2>1, <2>3
    <3>2. ASSUME NEW f \in fed, NEW c \in Channels, Destination[c] = f, regs.on[c], Ahead(c)
          PROVE  Ahead(c)'
      <4>1. regs.timerOf[f] = audio.timer /\ n <= c
        BY <2>1, <3>2 DEF FedInv, Served, Ahead
      <4>2. n < c
        BY <1>1, <2>3, <3>2, <4>1
      <4> QED  BY <1>1, <1>3, <3>1, <4>2
    <3> QED  BY <1>2, <2>1, <3>1, <3>2, AudioServes
  <2> QED  BY <2>2, <2>3
<1>6. CASE CheckLength
  <2>1. /\ audio.pc = "length" /\ UNCHANGED <<regs, fifo, fed>>
        /\ audio' = IF NeedsRefill(Len(fifo[Destination[n]]))
                    THEN [audio EXCEPT !.pc = "load"] ELSE AfterChannel
    BY <1>6 DEF CheckLength
  <2>2. CASE NeedsRefill(Len(fifo[Destination[n]]))
    <3>1. audio'.pc = "load" /\ audio'.channel = n /\ audio'.timer = audio.timer
      BY <2>1, <2>2 DEF FifoInv, AudioStates
    <3>2. \A c \in Channels : Ahead(c) => Ahead(c)'
      BY <2>1, <3>1 DEF Ahead
    <3> QED  BY <2>1, <3>1, <3>2, AudioServes
  <2>3. CASE ~NeedsRefill(Len(fifo[Destination[n]]))
    <3>1. audio' = AfterChannel
      BY <2>1, <2>3
    <3>2. fifo[Destination[n]] # <<>>
      BY <2>3, Constants DEF NeedsRefill
    <3>3. ASSUME NEW f \in fed, NEW c \in Channels, Destination[c] = f, Ahead(c)
          PROVE  fifo[f] # <<>> \/ Ahead(c)'
      <4>1. n = c \/ n < c
        BY <1>1, <2>1, <3>3 DEF Ahead
      <4> QED  BY <1>1, <1>3, <3>1, <3>2, <3>3, <4>1
    <3> QED  BY <1>2, <2>1, <3>1, <3>3, AudioServes
  <2> QED  BY <2>2, <2>3
<1>7. CASE LoadSource
  <2>1. audio.pc = "load" /\ UNCHANGED <<regs, fifo, fed>>
        /\ audio'.pc = "push" /\ audio'.channel = n /\ audio'.timer = audio.timer
    BY <1>7 DEF LoadSource, FifoInv, AudioStates
  <2>2. \A c \in Channels : Ahead(c) => Ahead(c)'
    BY <2>1 DEF Ahead
  <2> QED  BY <2>1, <2>2, AudioServes
<1>8. CASE PushBurstByte
  <2>1. PICK byte \in Bytes :
          fifo' = [fifo EXCEPT ![Destination[n]] = PushByte(@, byte)]
    BY <1>8, PushedIsByte
  <2>2. /\ audio.pc = "push" /\ UNCHANGED <<regs, fed>>
        /\ audio'.pc \in {"push", "store"} /\ audio'.channel = n
        /\ audio'.timer = audio.timer
    BY <1>8 DEF PushBurstByte, history, FifoInv, AudioStates
  <2>3. fifo'[Destination[n]] # <<>>
    <3>1. Destination[n] \in Fifos /\ fifo[Destination[n]] \in Seq(Bytes)
          /\ Len(fifo[Destination[n]]) <= FifoCapacity
      BY <1>1, ChannelsFacts DEF FifoInv
    <3>2. fifo'[Destination[n]] = PushByte(fifo[Destination[n]], byte)
      BY <2>1, <3>1 DEF FifoInv
    <3> QED  BY <3>1, <3>2, PushedNotEmpty
  <2>4. \A f \in Fifos : f # Destination[n] => fifo'[f] = fifo[f]
    BY <2>1 DEF FifoInv
  <2>5. ASSUME NEW f \in fed, NEW c \in Channels, Destination[c] = f, Ahead(c)
        PROVE  fifo'[f] # <<>> \/ Ahead(c)'
    <3>1. n = c \/ n < c
      BY <1>1, <2>2, <2>5 DEF Ahead
    <3>2. n < c => Ahead(c)'
      BY <1>1, <2>2 DEF Ahead
    <3> QED  BY <2>3, <2>5, <3>1, <3>2
  <2> QED  BY <1>1, <2>2, <2>3, <2>4, <2>5, AudioServes
<1>9. CASE StoreSource
  <2>1. audio.pc = "store" /\ UNCHANGED <<regs, fifo, fed>> /\ audio' = AfterChannel
    BY <1>9 DEF StoreSource, history
  <2>2. \A c \in Channels : Ahead(c) => Ahead(c)'
    BY <1>1, <1>3, <2>1 DEF Ahead
  <2> QED  BY <1>2, <2>1, <2>2, AudioServes
<1>10. CASE Mix
  BY <1>10 DEF Mix, FedInv
<1> QED
  BY <1>4, <1>5, <1>6, <1>7, <1>8, <1>9, <1>10 DEF AudioStep

LEMMA KvmFeeds ==
  ASSUME FifoInv, FedInv, KvmStep
  PROVE  FedInv'
<1>1. /\ fed \subseteq Fifos /\ \A f \in fed : audio.pc # "idle"
      /\ regs \in [sad: [Channels -> Sources \cup {0}],
                   on: [Channels -> BOOLEAN], timerOf: [Fifos -> {0, 1}]]
  BY DEF FifoInv, FedInv, Served
<1>2. ASSUME UNCHANGED audio, fed' \subseteq fed,
             \A f \in fed' :
               /\ regs'.timerOf[f] = regs.timerOf[f]
               /\ \A c \in Channels : Destination[c] = f /\ regs.on[c] => regs'.on[c]
               /\ fifo[f] # <<>> => fifo'[f] # <<>>
      PROVE  FedInv'
  BY <1>1, <1>2, StillServed DEF Ahead
<1>3. ASSUME NEW c \in Channels, NEW source \in Sources, WriteSource(c, source)
      PROVE  FedInv'
  <2>1. regs' = [regs EXCEPT !.sad[c] = source] /\ UNCHANGED <<audio, fed, fifo>>
    BY <1>3 DEF WriteSource, GuestWrites
  <2>2. regs'.timerOf = regs.timerOf /\ regs'.on = regs.on
    BY <1>1, <2>1
  <2> QED  BY <1>2, <2>1, <2>2
<1>4. ASSUME NEW c \in Channels, NEW on \in BOOLEAN, WriteControl(c, on)
      PROVE  FedInv'
  <2>1. /\ regs' = [regs EXCEPT !.on[c] = on] /\ UNCHANGED <<audio, fifo>>
        /\ fed' = IF on THEN fed ELSE fed \ {Destination[c]}
    BY <1>4 DEF WriteControl, GuestWrites
  <2>2. regs'.timerOf = regs.timerOf /\ regs'.on = [regs.on EXCEPT ![c] = on]
    BY <1>1, <2>1
  <2>3. fed' \subseteq fed /\ (~on => Destination[c] \notin fed')
    BY <2>1
  <2>4. ASSUME NEW f \in fed', NEW d \in Channels, Destination[d] = f, regs.on[d]
        PROVE  regs'.on[d]
    <3>1. CASE d = c
      <4>1. on
        BY <2>3, <2>4, <3>1
      <4> QED  BY <1>1, <2>2, <3>1, <4>1
    <3>2. CASE d # c
      BY <1>1, <2>2, <2>4, <3>2
    <3> QED  BY <3>1, <3>2
  <2> QED  BY <1>2, <2>1, <2>2, <2>3, <2>4
<1>5. ASSUME NEW timerOf \in [Fifos -> {0, 1}], NEW reset \in SUBSET Fifos,
             WriteSoundControl(timerOf, reset)
      PROVE  FedInv'
  <2>1. /\ regs' = [regs EXCEPT !.timerOf = timerOf] /\ UNCHANGED <<audio, fifo>>
        /\ fed' = {f \in fed : timerOf[f] = regs.timerOf[f]}
    BY <1>5 DEF WriteSoundControl, GuestWrites
  <2>2. regs'.timerOf = timerOf /\ regs'.on = regs.on
    BY <1>1, <2>1
  <2> QED  BY <1>2, <2>1, <2>2
<1>6. ASSUME NEW f \in Fifos, WriteFifo(f) PROVE FedInv'
  <2>1. UNCHANGED <<regs, audio, fifo, fed>>
    BY <1>6 DEF WriteFifo, GuestWrites
  <2> QED  BY <1>2, <2>1
<1>7. CASE ResetFifos
  <2>1. /\ UNCHANGED <<regs, audio>> /\ fed' = fed \ kvm.reset
        /\ fifo' = [f \in Fifos |-> IF f \in kvm.reset THEN <<>> ELSE fifo[f]]
    BY <1>7 DEF ResetFifos
  <2> QED  BY <1>1, <1>2, <2>1
<1>8. CASE PushGuestByte
  <2> DEFINE byte == [channel |-> 0, run |-> 0, addr |-> 0]
  <2>1. /\ UNCHANGED <<regs, audio, fed>>
        /\ fifo' = [fifo EXCEPT ![kvm.fifo] = PushByte(@, byte)]
    BY <1>8 DEF PushGuestByte
  <2>2. byte \in Bytes /\ kvm.fifo \in Fifos
    BY DEF Bytes, FifoInv, KvmStates
  <2> HIDE DEF byte
  <2>3. fifo'[kvm.fifo] # <<>>
    BY <2>1, <2>2, PushedNotEmpty DEF FifoInv
  <2>4. \A f \in Fifos : f # kvm.fifo => fifo'[f] = fifo[f]
    BY <2>1 DEF FifoInv
  <2> QED  BY <1>1, <1>2, <2>1, <2>3, <2>4
<1>9. CASE UpdateSource
  <2>1. UNCHANGED <<regs, audio, fifo, fed>>
    BY <1>9 DEF UpdateSource
  <2> QED  BY <1>2, <2>1
<1> QED
  BY <1>3, <1>4, <1>5, <1>6, <1>7, <1>8, <1>9 DEF KvmStep

\* A FIFO whose DMA is on throughout an overflow of its timer, and which the guest
\* does not clear, has a byte for the sample, whichever channel serves it, in
\* whatever order the guest's writes come (on_timer_overflow).
THEOREM FedNeverStarves == Spec => []NeverStarves
<1>1. Init => FedInv
  BY DEF Init, FedInv
<1>2. FifoInv /\ FedInv /\ [Next]_vars => FedInv'
  <2> SUFFICES ASSUME FifoInv, FedInv, [Next]_vars PROVE FedInv'
    OBVIOUS
  <2>1. CASE UNCHANGED vars
    BY <2>1 DEF vars, FedInv, Served, Ahead
  <2>2. ASSUME NEW samples \in Callbacks, Callback(samples) PROVE FedInv'
    BY <2>2 DEF Callback, history, FedInv, Served, Ahead
  <2> QED  BY <2>1, <2>2, AudioFeeds, KvmFeeds DEF Next
<1>3. IInv => FifoInv
  BY Split
<1>4. FedInv => NeverStarves
  BY DEF FedInv, Served, Ahead, NeverStarves
<1> QED  BY <1>1, <1>2, <1>3, <1>4, Invariance, PTL DEF Spec
-----------------------------------------------------------------------------
(* Whole words.                                                            *)

Whole(n) == n % WordSize = 0

\* The buffers begin and end on words: the guest's addresses, and the end of the
\* memory they lie in.
WordAligned == Whole(RamEnd) /\ \A source \in Sources : Whole(source)

LEMMA Quotient ==
  ASSUME NEW n \in Nat
  PROVE  \E k \in Nat : n = k * WordSize + (n % WordSize) /\ n % WordSize \in 0..(WordSize - 1)
<1>1. /\ n = (n \div WordSize) * WordSize + (n % WordSize)
      /\ n % WordSize \in 0..(WordSize - 1) /\ n \div WordSize \in Nat
  BY Constants
<1> QED  BY <1>1

LEMMA Remainder ==
  ASSUME NEW k \in Nat, NEW r \in 0..(WordSize - 1)
  PROVE  (k * WordSize + r) % WordSize = r
BY Constants

\* Whole numbers of bytes are multiples of a word's.
LEMMA Multiple ==
  ASSUME NEW n \in Nat
  PROVE  Whole(n) <=> \E k \in Nat : n = k * WordSize
<1>1. ASSUME Whole(n) PROVE \E k \in Nat : n = k * WordSize
  <2>1. PICK k \in Nat : n = k * WordSize + (n % WordSize)
    BY Quotient
  <2>2. k * WordSize \in Nat
    BY Constants
  <2> QED  BY <1>1, <2>1, <2>2 DEF Whole
<1>2. ASSUME NEW k \in Nat, n = k * WordSize PROVE Whole(n)
  <2>1. (k * WordSize + 0) % WordSize = 0
    BY Constants, Remainder
  <2>2. k * WordSize + 0 = n
    BY <1>2
  <2> QED  BY <2>1, <2>2 DEF Whole
<1> QED  BY <1>1, <1>2

LEMMA WholeSums ==
  ASSUME NEW a \in Nat, NEW b \in Nat, Whole(b)
  PROVE  /\ Whole(a) => Whole(a + b)
         /\ Whole(a + b) => Whole(a)
         /\ Whole(a) /\ a < b => a + WordSize <= b /\ Whole(b - a)
<1>1. PICK k \in Nat : b = k * WordSize
  BY Multiple
<1>2. ASSUME Whole(a) PROVE Whole(a + b)
  <2>1. PICK j \in Nat : a = j * WordSize
    BY <1>2, Multiple
  <2>2. a + b = (j + k) * WordSize /\ j + k \in Nat /\ a + b \in Nat
    BY <1>1, <2>1, Constants
  <2> QED  BY <2>2, Multiple
<1>3. ASSUME Whole(a + b) PROVE Whole(a)
  <2>1. PICK j \in Nat : a + b = j * WordSize
    BY <1>3, Multiple
  <2>2. j >= k
    <3> SUFFICES ASSUME j < k PROVE FALSE
      OBVIOUS
    <3>1. j * WordSize < k * WordSize
      BY Constants
    <3> QED  BY <1>1, <2>1, <3>1, Constants
  <2>3. a = (j - k) * WordSize /\ j - k \in Nat
    BY <1>1, <2>1, <2>2, Constants
  <2> QED  BY <2>3, Multiple
<1>4. ASSUME Whole(a), a < b PROVE a + WordSize <= b /\ Whole(b - a)
  <2>1. PICK j \in Nat : a = j * WordSize
    BY <1>4, Multiple
  <2>2. j < k
    <3> SUFFICES ASSUME j >= k PROVE FALSE
      OBVIOUS
    <3>1. j * WordSize >= k * WordSize
      BY Constants
    <3> QED  BY <1>1, <1>4, <2>1, <3>1, Constants
  <2>3. PICK d \in Nat : k = j + 1 + d
    <3>1. k - j - 1 \in Nat /\ k = j + 1 + (k - j - 1)
      BY <2>2
    <3> QED  BY <3>1
  <2>4. b = a + WordSize + d * WordSize /\ d * WordSize \in Nat
    BY <1>1, <2>1, <2>3, Constants
  <2>5. b - a = (d + 1) * WordSize /\ d + 1 \in Nat /\ b - a \in Nat
    BY <2>4, Constants
  <2>6. a + WordSize <= b
    BY <2>4, Constants
  <2> QED  BY <2>5, <2>6, Multiple
<1> QED  BY <1>2, <1>3, <1>4

\* What is left of a word after a byte of it.
LEMMA WordCountsDown ==
  ASSUME NEW left \in Nat, left > 0
  PROVE  /\ Whole(left) => (left - 1) % WordSize = WordSize - 1
         /\ ~Whole(left) => (left - 1) % WordSize = (left % WordSize) - 1
         /\ left % WordSize \in 0..(WordSize - 1)
<1>1. PICK k \in Nat : /\ left = k * WordSize + (left % WordSize)
                       /\ left % WordSize \in 0..(WordSize - 1)
  BY Quotient
<1>2. ASSUME Whole(left) PROVE (left - 1) % WordSize = WordSize - 1
  <2>1. left = k * WordSize
    <3>1. k * WordSize \in Nat
      BY Constants
    <3> QED  BY <1>1, <1>2, <3>1 DEF Whole
  <2>2. k > 0
    BY <2>1, Constants
  <2>3. left - 1 = (k - 1) * WordSize + (WordSize - 1) /\ k - 1 \in Nat
    BY <2>1, <2>2, Constants
  <2>4. WordSize - 1 \in 0..(WordSize - 1)
    BY Constants
  <2> QED  BY <2>3, <2>4, Remainder
<1>3. ASSUME ~Whole(left) PROVE (left - 1) % WordSize = (left % WordSize) - 1
  <2>1. (left % WordSize) - 1 \in 0..(WordSize - 1)
    BY <1>1, <1>3, Constants DEF Whole
  <2>2. left - 1 = k * WordSize + ((left % WordSize) - 1)
    <3>1. k * WordSize \in Nat
      BY Constants
    <3> QED  BY <1>1, <3>1
  <2> QED  BY <2>1, <2>2, Remainder
<1> QED  BY <1>1, <1>2, <1>3

LEMMA WholeBurst == Whole(Burst) /\ Whole(0) /\ Burst \in Nat
<1>1. BurstWords \in Nat /\ Burst = BurstWords * WordSize
  BY AudioAssumption DEF Burst
<1>2. 0 \in Nat /\ 0 = 0 * WordSize
  BY Constants
<1> QED  BY <1>1, <1>2, Constants, Multiple
-----------------------------------------------------------------------------
(* What a channel brings comes from its buffer, in order.                  *)

\* Every address a burst starts or ends at is a word's; within a word as many bytes
\* are left as its address has to go.
WordsWhole ==
  /\ \A c \in Channels :
       Whole(dma[c].source) /\ Whole(dma[c].start) /\ Whole(dma[c].end)
  /\ audio.pc \in {"push", "store"} =>
       Whole(audio.source + audio.left) /\ Whole(audio.start) /\ Whole(audio.end)
  /\ audio.pc = "store" => audio.left = 0

\* From an address of the channel's buffer there are so many bytes to its end.
UpTo(c, addr, bytes) ==
  addr >= dma[c].start /\ (dma[c].end > dma[c].start => addr + bytes <= dma[c].end)

\* A channel that was not overtaken stays within its buffer.
Tracked ==
  \A c \in Channels \ raced :
    /\ dma[c].source # 0 => UpTo(c, dma[c].source, 0)
    /\ Bursting(c) => /\ audio.start = dma[c].start /\ audio.end = dma[c].end
                      /\ UpTo(c, audio.source, audio.left % WordSize)

\* Where the channel goes on.
Now(c) == IF Bursting(c) THEN audio.source ELSE dma[c].source

\* A byte of a FIFO: its channel is the FIFO's, its run not one to come, and if it
\* is of the current one it comes from the buffer.
Brought(byte, f) ==
  byte.channel \in Channels =>
    /\ Destination[byte.channel] = f /\ byte.run <= run[byte.channel]
    /\ Current(byte) =>
         /\ byte.addr >= dma[byte.channel].start
         /\ dma[byte.channel].end > dma[byte.channel].start =>
              byte.addr < dma[byte.channel].end

\* A byte and the one behind it.
Linked(byte, next) ==
  Current(byte) /\ next.channel = byte.channel /\ next.run = byte.run =>
    \/ next.addr = byte.addr + 1
    \/ byte.addr + 1 = dma[byte.channel].end /\ next.addr = dma[byte.channel].start

\* The youngest byte is the last that its channel brought.
Youngest(byte) ==
  Current(byte) /\ (Bursting(byte.channel) \/ dma[byte.channel].source # 0) =>
    byte.addr + 1 = Now(byte.channel)

QueueInv(f) ==
  /\ \A i \in 1..Len(fifo[f]) : Brought(fifo[f][i], f)
  /\ \A i \in 1..(Len(fifo[f]) - 1) : Linked(fifo[f][i], fifo[f][i + 1])
  /\ fifo[f] # <<>> => Youngest(fifo[f][Len(fifo[f])])

BufferInv == WordsWhole /\ Tracked /\ \A f \in Fifos : QueueInv(f)

\* A queue after a push: the bytes it had, the oldest perhaps lost, and one behind
\* the youngest.
Follows(queue, byte, result) ==
  /\ result \in Seq(Bytes) /\ Len(result) > 0 /\ result[Len(result)] = byte
  /\ \E lost \in {0, 1} :
       /\ Len(result) = Len(queue) - lost + 1
       /\ \A i \in 1..(Len(result) - 1) :
            i + lost \in 1..Len(queue) /\ result[i] = queue[i + lost]

LEMMA PushElements ==
  ASSUME NEW queue \in Seq(Bytes), NEW byte \in Bytes,
         NEW result, result = PushByte(queue, byte), Len(queue) <= FifoCapacity
  PROVE  Follows(queue, byte, result)
<1>1. ASSUME NEW q \in Seq(Bytes), result = Append(q, byte)
      PROVE  /\ result \in Seq(Bytes) /\ Len(result) = Len(q) + 1
             /\ result[Len(result)] = byte
             /\ \A i \in 1..Len(q) : result[i] = q[i]
  BY <1>1, AppendProperties
<1>2. CASE Len(queue) >= FifoCapacity
  <2>1. queue # <<>>
    BY <1>2, Constants
  <2>2. PICK tail : tail = Tail(queue)
    OBVIOUS
  <2>3. /\ tail \in Seq(Bytes) /\ Len(tail) = Len(queue) - 1
        /\ \A i \in 1..Len(tail) : tail[i] = queue[i + 1]
    BY <2>1, <2>2, HeadTailProperties
  <2>4. result = Append(tail, byte)
    BY <1>2, <2>2 DEF PushByte
  <2>5. /\ result \in Seq(Bytes) /\ Len(result) = Len(tail) + 1
        /\ result[Len(result)] = byte
        /\ \A i \in 1..Len(tail) : result[i] = tail[i]
    BY <1>1, <2>3, <2>4
  <2>6. \A i \in 1..(Len(result) - 1) :
          i + 1 \in 1..Len(queue) /\ result[i] = queue[i + 1]
    BY <2>3, <2>5
  <2> QED  BY <2>3, <2>5, <2>6 DEF Follows
<1>3. CASE ~(Len(queue) >= FifoCapacity)
  <2>1. result = Append(queue, byte)
    BY <1>3 DEF PushByte
  <2>2. /\ result \in Seq(Bytes) /\ Len(result) = Len(queue) + 1
        /\ result[Len(result)] = byte
        /\ \A i \in 1..Len(queue) : result[i] = queue[i]
    BY <1>1, <2>1
  <2>3. \A i \in 1..(Len(result) - 1) :
          i + 0 \in 1..Len(queue) /\ result[i] = queue[i + 0]
    BY <2>2
  <2> QED  BY <2>2, <2>3 DEF Follows
<1> QED  BY <1>2, <1>3

\* Nothing changes for the bytes of a queue.
LEMMA QueueStays ==
  ASSUME FifoInv, NEW f \in Fifos, QueueInv(f), fifo'[f] = fifo[f],
         \A byte \in Bytes :
           Brought(byte, f) =>
             /\ Brought(byte, f)'
             /\ \A next \in Bytes : Linked(byte, next) => Linked(byte, next)'
             /\ Youngest(byte) => Youngest(byte)'
  PROVE  QueueInv(f)'
<1>1. fifo[f] \in Seq(Bytes)
  BY DEF FifoInv
<1>2. PICK queue \in Seq(Bytes) : queue = fifo[f] /\ queue = fifo'[f]
  BY <1>1
<1>3. \A i \in 1..Len(queue) : queue[i] \in Bytes
  OBVIOUS
<1>4. \A i \in 1..Len(queue) : Brought(queue[i], f)
  BY <1>2 DEF QueueInv
<1>5. \A i \in 1..Len(queue) : Brought(queue[i], f)'
  BY <1>3, <1>4
<1>6. \A i \in 1..(Len(queue) - 1) : Linked(queue[i], queue[i + 1])'
  <2> SUFFICES ASSUME NEW i \in 1..(Len(queue) - 1) PROVE Linked(queue[i], queue[i + 1])'
    OBVIOUS
  <2>1. i \in 1..Len(queue) /\ i + 1 \in 1..Len(queue)
    BY <1>2
  <2>2. Linked(queue[i], queue[i + 1])
    BY <1>2 DEF QueueInv
  <2> QED  BY <1>3, <1>4, <2>1, <2>2
<1>7. queue # <<>> => Youngest(queue[Len(queue)])'
  <2> SUFFICES ASSUME queue # <<>> PROVE Youngest(queue[Len(queue)])'
    OBVIOUS
  <2>1. Len(queue) \in 1..Len(queue)
    OBVIOUS
  <2>2. Youngest(queue[Len(queue)])
    BY <1>2 DEF QueueInv
  <2> QED  BY <1>3, <1>4, <2>1, <2>2
<1> QED  BY <1>2, <1>5, <1>6, <1>7 DEF QueueInv

\* What the invariant says of bytes depends on the DMA's registers, on what the burst
\* under way has left, and on the history.
LEMMA BytesStay ==
  ASSUME FifoInv, UNCHANGED <<run, raced, dma>>,
         \A c \in Channels : (Bursting(c)' <=> Bursting(c)) /\ Now(c)' = Now(c)
  PROVE  /\ \A byte \in Bytes, f \in Fifos : Brought(byte, f) => Brought(byte, f)'
         /\ \A byte, next \in Bytes : Linked(byte, next) => Linked(byte, next)'
         /\ \A byte \in Bytes : Youngest(byte) => Youngest(byte)'
BY DEF Brought, Linked, Youngest, Current

LEMMA BufferInitially == Init => BufferInv
<1> SUFFICES ASSUME Init PROVE BufferInv
  OBVIOUS
<1>1. audio.pc = "idle" /\ \A f \in Fifos : fifo[f] = <<>>
  BY DEF Init, AudioIdle
<1>2. \A c \in Channels : dma[c].source = 0 /\ dma[c].start = 0 /\ dma[c].end = 0
  BY DEF Init
<1>3. WordsWhole /\ Tracked
  BY <1>1, <1>2, WholeBurst DEF WordsWhole, Tracked, Bursting
<1>4. ASSUME NEW f \in Fifos PROVE QueueInv(f)
  <2>1. fifo[f] = <<>> /\ Len(<<>>) = 0 /\ 1..0 = {} /\ 1..(0 - 1) = {}
    BY <1>1
  <2> QED  BY <2>1 DEF QueueInv
<1> QED  BY <1>3, <1>4 DEF BufferInv

\* A byte less, or none left.
LEMMA QueueShrinks ==
  ASSUME FifoInv, NEW f \in Fifos, QueueInv(f), UNCHANGED <<run, raced, dma>>,
         \A c \in Channels : (Bursting(c)' <=> Bursting(c)) /\ Now(c)' = Now(c),
         fifo'[f] = <<>> \/ fifo'[f] = fifo[f]
           \/ (fifo[f] # <<>> /\ fifo'[f] = Tail(fifo[f]))
  PROVE  QueueInv(f)'
<1>1. CASE fifo'[f] = <<>>
  BY <1>1 DEF QueueInv
<1>2. CASE fifo'[f] = fifo[f]
  BY <1>2, BytesStay, QueueStays
<1>3. CASE fifo[f] # <<>> /\ fifo'[f] = Tail(fifo[f])
  <2>1. PICK queue \in Seq(Bytes) : queue = fifo[f]
    BY DEF FifoInv
  <2>2. PICK tail : tail = fifo'[f]
    OBVIOUS
  <2>3. /\ tail \in Seq(Bytes) /\ Len(tail) = Len(queue) - 1
        /\ \A i \in 1..Len(tail) : tail[i] = queue[i + 1]
    BY <1>3, <2>1, <2>2, HeadTailProperties
  <2>4. \A i \in 1..Len(queue) : queue[i] \in Bytes /\ Brought(queue[i], f)
    BY <2>1 DEF QueueInv
  <2>5. \A i \in 1..Len(tail) : Brought(tail[i], f)'
    BY <2>3, <2>4, BytesStay
  <2>6. ASSUME NEW i \in 1..(Len(tail) - 1) PROVE Linked(tail[i], tail[i + 1])'
    <3>1. /\ i \in 1..Len(tail) /\ i + 1 \in 1..Len(tail)
          /\ i + 1 \in 1..(Len(queue) - 1) /\ i + 1 \in 1..Len(queue)
          /\ i + 1 + 1 \in 1..Len(queue)
      <4>1. Len(tail) \in Nat /\ Len(queue) = Len(tail) + 1 /\ i \in Nat /\ i >= 1
            /\ i <= Len(tail) - 1
        BY <2>3
      <4> QED  BY <4>1
    <3>2. tail[i] = queue[i + 1] /\ tail[i + 1] = queue[i + 1 + 1]
      BY <2>3, <3>1
    <3>3. Linked(queue[i + 1], queue[i + 1 + 1])
      BY <2>1, <3>1 DEF QueueInv
    <3> QED  BY <2>4, <3>1, <3>2, <3>3, BytesStay
  <2>7. ASSUME tail # <<>> PROVE Youngest(tail[Len(tail)])'
    <3>1. /\ tail[Len(tail)] = queue[Len(queue)] /\ Len(queue) \in 1..Len(queue)
          /\ queue # <<>>
      BY <2>3, <2>7
    <3>2. Youngest(queue[Len(queue)])
      BY <2>1, <3>1 DEF QueueInv
    <3> QED  BY <2>4, <3>1, <3>2, BytesStay
  <2> QED  BY <2>2, <2>5, <2>6, <2>7 DEF QueueInv
<1> QED  BY <1>1, <1>2, <1>3

\* A byte more, which follows the youngest.
LEMMA QueueGrows ==
  ASSUME FifoInv, NEW f \in Fifos, QueueInv(f), UNCHANGED <<run, raced, dma>>,
         NEW byte \in Bytes, fifo'[f] = PushByte(fifo[f], byte),
         Brought(byte, f), Youngest(byte)',
         fifo[f] # <<>> => Linked(fifo[f][Len(fifo[f])], byte)
  PROVE  QueueInv(f)'
<1>1. PICK queue \in Seq(Bytes) : queue = fifo[f] /\ Len(queue) <= FifoCapacity
  BY DEF FifoInv
<1>2. PICK result : result = fifo'[f]
  OBVIOUS
<1>3. result = PushByte(queue, byte)
  BY <1>1, <1>2
<1>4. /\ result \in Seq(Bytes) /\ Len(result) > 0 /\ result[Len(result)] = byte
      /\ \E lost \in {0, 1} :
           /\ Len(result) = Len(queue) - lost + 1
           /\ \A i \in 1..(Len(result) - 1) :
                i + lost \in 1..Len(queue) /\ result[i] = queue[i + lost]
  <2>1. Follows(queue, byte, result)
    BY <1>1, <1>3, PushElements
  <2> QED  BY <2>1 DEF Follows
<1>5. PICK lost \in {0, 1} :
           /\ Len(result) = Len(queue) - lost + 1
           /\ \A i \in 1..(Len(result) - 1) :
                i + lost \in 1..Len(queue) /\ result[i] = queue[i + lost]
  BY <1>4
<1>6. /\ \A i \in 1..Len(queue) : Brought(queue[i], f)
      /\ \A i \in 1..(Len(queue) - 1) : Linked(queue[i], queue[i + 1])
      /\ queue # <<>> => Linked(queue[Len(queue)], byte)
  BY <1>1 DEF QueueInv
<1>7. /\ \A b \in Bytes : Brought(b, f) => Brought(b, f)'
      /\ \A b, next \in Bytes : Linked(b, next) => Linked(b, next)'
  BY DEF Brought, Linked, Current
<1>8. ASSUME NEW i \in 1..Len(result) PROVE Brought(result[i], f)'
  <2>1. CASE i = Len(result)
    BY <1>4, <1>7, <2>1
  <2>2. CASE i # Len(result)
    <3>1. i \in 1..(Len(result) - 1)
      BY <1>4, <2>2
    <3>2. i + lost \in 1..Len(queue) /\ result[i] = queue[i + lost]
      BY <1>5, <3>1
    <3>3. queue[i + lost] \in Bytes /\ Brought(queue[i + lost], f)
      BY <1>6, <3>2
    <3> QED  BY <1>7, <3>2, <3>3
  <2> QED  BY <2>1, <2>2
<1>9. ASSUME NEW i \in 1..(Len(result) - 1) PROVE Linked(result[i], result[i + 1])'
  <2>1. /\ i + lost \in 1..Len(queue) /\ result[i] = queue[i + lost]
        /\ queue[i + lost] \in Bytes
    BY <1>5
  <2>2. CASE i = Len(result) - 1
    <3>1. i + lost = Len(queue) /\ queue # <<>> /\ result[i + 1] = byte
      BY <1>4, <1>5, <2>1, <2>2
    <3> QED  BY <1>6, <1>7, <2>1, <3>1
  <2>3. CASE i # Len(result) - 1
    <3>1. i + 1 \in 1..(Len(result) - 1)
      BY <1>4, <2>3
    <3>2. /\ i + 1 + lost \in 1..Len(queue) /\ result[i + 1] = queue[i + 1 + lost]
          /\ i + 1 + lost = i + lost + 1
      BY <1>5, <3>1
    <3>3. i + lost \in 1..(Len(queue) - 1)
      BY <2>1, <3>2
    <3>4. Linked(queue[i + lost], queue[i + lost + 1]) /\ queue[i + lost + 1] \in Bytes
      BY <1>6, <3>2, <3>3
    <3> QED  BY <1>7, <2>1, <3>2, <3>4
  <2> QED  BY <2>2, <2>3
<1> QED  BY <1>2, <1>4, <1>8, <1>9 DEF QueueInv

\* A queue that a step shortens or leaves alone.
Shorter(f) ==
  \/ fifo'[f] = <<>> \/ fifo'[f] = fifo[f]
  \/ fifo[f] # <<>> /\ fifo'[f] = Tail(fifo[f])

\* A step outside the bursts.
LEMMA OutsideBursts ==
  ASSUME FifoInv, BufferInv, UNCHANGED <<run, raced, dma>>,
         audio.pc \notin {"push", "store"}, audio'.pc \notin {"push", "store"},
         \A f \in Fifos : Shorter(f)
  PROVE  BufferInv'
<1>1. \A c \in Channels : ~Bursting(c) /\ ~Bursting(c)' /\ Now(c)' = Now(c)
  BY DEF Bursting, Now
<1>2. WordsWhole' /\ Tracked'
  BY <1>1 DEF BufferInv, WordsWhole, Tracked, UpTo
<1>3. ASSUME NEW f \in Fifos PROVE QueueInv(f)'
  BY <1>1, QueueShrinks DEF BufferInv, Shorter
<1> QED  BY <1>2, <1>3 DEF BufferInv

\* A step that leaves the clock, the DMA and the history alone.
LEMMA QueuesOnly ==
  ASSUME FifoInv, BufferInv, UNCHANGED <<run, raced, dma, audio>>,
         \A f \in Fifos : QueueInv(f)' \/ Shorter(f)
  PROVE  BufferInv'
<1>1. \A c \in Channels : (Bursting(c)' <=> Bursting(c)) /\ Now(c)' = Now(c)
  BY DEF Bursting, Now
<1>2. WordsWhole'
  BY DEF BufferInv, WordsWhole
<1>3. Tracked'
  BY DEF BufferInv, Tracked, UpTo, Bursting
<1>4. ASSUME NEW f \in Fifos PROVE QueueInv(f)'
  BY <1>1, QueueShrinks DEF BufferInv, Shorter
<1> QED  BY <1>2, <1>3, <1>4 DEF BufferInv

LEMMA GuestAddresses ==
  ASSUME WordAligned, FifoInv
  PROVE  \A c \in Channels : regs.sad[c] \in Nat /\ Whole(regs.sad[c])
<1> SUFFICES ASSUME NEW c \in Channels PROVE regs.sad[c] \in Nat /\ Whole(regs.sad[c])
  OBVIOUS
<1>1. regs.sad[c] \in Sources \/ regs.sad[c] = 0
  BY DEF FifoInv
<1>2. CASE regs.sad[c] \in Sources
  BY <1>2, Constants DEF WordAligned
<1>3. CASE regs.sad[c] = 0
  BY <1>3, WholeBurst
<1> QED  BY <1>1, <1>2, <1>3

LEMMA LoadBrings ==
  ASSUME WordAligned, FifoInv, BufferInv, LoadSource
  PROVE  BufferInv'
<1> DEFINE c == audio.channel
           source == IF dma[c].source = 0 THEN regs.sad[c] ELSE dma[c].source
<1>1. /\ audio.pc = "load" /\ c \in Channels
      /\ dma \in [Channels -> [source: Nat, start: Nat, end: Nat]]
      /\ audio \in AudioStates
  BY DEF LoadSource, FifoInv, AudioStates
<1>2. /\ fifo' = fifo /\ run' = run
      /\ raced' = IF dma[c].source = 0 THEN raced \cup {c} ELSE raced
      /\ dma' = [dma EXCEPT ![c].source = source]
      /\ audio' = [audio EXCEPT !.pc = "push", !.source = source, !.left = Burst,
                                !.start = dma[c].start, !.end = dma[c].end]
  BY DEF LoadSource
<1>3. source \in Nat /\ Whole(source)
  <2>1. dma[c].source \in Nat /\ Whole(dma[c].source)
    BY <1>1 DEF BufferInv, WordsWhole
  <2> QED  BY <1>1, <2>1, GuestAddresses
<1> HIDE DEF source
<1>4. /\ \A d \in Channels : dma'[d].start = dma[d].start /\ dma'[d].end = dma[d].end
      /\ \A d \in Channels \ {c} : dma'[d].source = dma[d].source
      /\ dma'[c].source = source
  BY <1>1, <1>2
<1>5. /\ audio'.pc = "push" /\ audio'.channel = c /\ audio'.source = source
      /\ audio'.left = Burst /\ audio'.start = dma[c].start /\ audio'.end = dma[c].end
  BY <1>1, <1>2 DEF AudioStates
<1>6. /\ \A d \in Channels : ~Bursting(d) /\ Now(d) = dma[d].source
      /\ \A d \in Channels : Bursting(d)' <=> d = c
      /\ \A d \in Channels : Now(d)' = dma'[d].source
  BY <1>1, <1>4, <1>5 DEF Bursting, Now
<1>7. c \notin raced' => source = dma[c].source /\ dma[c].source # 0
  BY <1>2 DEF source
<1>8. raced \subseteq raced'
  BY <1>2
<1>9. WordsWhole'
  <2>1. Whole(source + Burst)
    BY <1>3, WholeBurst, WholeSums
  <2>2. \A d \in Channels : Whole(dma[d].source) /\ Whole(dma[d].start) /\ Whole(dma[d].end)
    BY DEF BufferInv, WordsWhole
  <2>3. \A d \in Channels :
          Whole(dma'[d].source) /\ Whole(dma'[d].start) /\ Whole(dma'[d].end)
    BY <1>3, <1>4, <2>2
  <2> QED  BY <1>1, <1>5, <2>1, <2>2, <2>3 DEF WordsWhole, Whole
<1>10. Tracked'
  <2> SUFFICES ASSUME NEW d \in Channels, d \notin raced'
               PROVE  /\ dma'[d].source # 0 => UpTo(d, dma[d].source, 0)'
                      /\ Bursting(d)' => /\ audio'.start = dma'[d].start
                                        /\ audio'.end = dma'[d].end
                                        /\ UpTo(d, audio.source, audio.left % WordSize)'
    BY DEF Tracked
  <2>1. dma[d].source # 0 => UpTo(d, dma[d].source, 0)
    BY <1>8 DEF BufferInv, Tracked
  <2>2. CASE d = c
    <3>1. audio'.left % WordSize = 0
      BY <1>5, WholeBurst DEF Whole
    <3>2. UpTo(d, dma[d].source, 0)
      BY <1>7, <2>1, <2>2
    <3>3. dma'[d].source = dma[d].source /\ audio'.source = dma[d].source
      BY <1>4, <1>5, <1>7, <2>2
    <3> QED  BY <1>4, <1>5, <2>2, <3>1, <3>2, <3>3 DEF UpTo
  <2>3. CASE d # c
    BY <1>4, <1>6, <2>1, <2>3 DEF UpTo
  <2> QED  BY <2>2, <2>3
<1>11. ASSUME NEW f \in Fifos PROVE QueueInv(f)'
  <2>1. \A byte : Current(byte)' => Current(byte) /\ byte.channel \in Channels
                                  /\ byte.channel \notin raced'
    BY <1>2, <1>8 DEF Current
  <2>2. ASSUME NEW byte \in Bytes, Brought(byte, f) PROVE Brought(byte, f)'
    BY <1>2, <1>4, <2>1, <2>2 DEF Brought
  <2>3. ASSUME NEW byte \in Bytes, NEW next \in Bytes, Linked(byte, next)
        PROVE  Linked(byte, next)'
    BY <1>4, <2>1, <2>3 DEF Linked
  <2>4. ASSUME NEW byte \in Bytes, Youngest(byte) PROVE Youngest(byte)'
    <3> SUFFICES ASSUME Current(byte)',
                        Bursting(byte.channel)' \/ dma'[byte.channel].source # 0
                 PROVE  byte.addr + 1 = Now(byte.channel)'
      BY DEF Youngest
    <3>1. /\ Current(byte) /\ byte.channel \in Channels /\ byte.channel \notin raced'
      BY <2>1
    <3>2. dma[byte.channel].source # 0 /\ dma'[byte.channel].source = dma[byte.channel].source
      BY <1>4, <1>6, <1>7, <3>1
    <3>3. byte.addr + 1 = Now(byte.channel)
      BY <2>4, <3>1, <3>2 DEF Youngest
    <3> QED  BY <1>6, <3>1, <3>2, <3>3
  <2> QED  BY <1>2, <2>2, <2>3, <2>4, QueueStays DEF BufferInv
<1> QED  BY <1>9, <1>10, <1>11 DEF BufferInv

LEMMA StoreBrings ==
  ASSUME FifoInv, BufferInv, StoreSource
  PROVE  BufferInv'
<1> DEFINE c == audio.channel
<1>1. /\ audio.pc = "store" /\ c \in Channels
      /\ dma \in [Channels -> [source: Nat, start: Nat, end: Nat]]
      /\ audio.source \in Nat /\ audio.left = 0
  BY DEF StoreSource, FifoInv, AudioStates, BufferInv, WordsWhole
<1>2. /\ fifo' = fifo /\ run' = run /\ raced' = raced
      /\ dma' = [dma EXCEPT ![c].source = audio.source]
      /\ audio' = AfterChannel
  BY DEF StoreSource, history
<1>3. /\ \A d \in Channels : dma'[d].start = dma[d].start /\ dma'[d].end = dma[d].end
      /\ \A d \in Channels \ {c} : dma'[d].source = dma[d].source
      /\ dma'[c].source = audio.source
  BY <1>1, <1>2
<1>4. audio'.pc \notin {"push", "store"}
  BY <1>2, AfterChannelFacts
<1>5. /\ \A d \in Channels : Bursting(d) <=> d = c
      /\ \A d \in Channels : ~Bursting(d)' /\ Now(d)' = Now(d)
  BY <1>1, <1>3, <1>4 DEF Bursting, Now
<1>6. WordsWhole'
  <2>1. audio.source + 0 = audio.source
    BY <1>1
  <2>2. Whole(audio.source)
    BY <1>1, <2>1 DEF BufferInv, WordsWhole
  <2>3. \A d \in Channels : Whole(dma[d].source) /\ Whole(dma[d].start) /\ Whole(dma[d].end)
    BY DEF BufferInv, WordsWhole
  <2>4. \A d \in Channels :
          Whole(dma'[d].source) /\ Whole(dma'[d].start) /\ Whole(dma'[d].end)
    BY <1>3, <2>2, <2>3
  <2> QED  BY <1>4, <2>4 DEF WordsWhole, Whole
<1>7. Tracked'
  <2> SUFFICES ASSUME NEW d \in Channels, d \notin raced
               PROVE  dma'[d].source # 0 => UpTo(d, dma[d].source, 0)'
    BY <1>2, <1>5 DEF Tracked
  <2>1. CASE d = c
    <3>1. audio.left % WordSize = 0
      BY <1>1, WholeBurst DEF Whole
    <3>2. UpTo(d, audio.source, 0)
      BY <1>5, <2>1, <3>1 DEF BufferInv, Tracked
    <3> QED  BY <1>3, <2>1, <3>2 DEF UpTo
  <2>2. CASE d # c
    <3>1. dma[d].source # 0 => UpTo(d, dma[d].source, 0)
      BY DEF BufferInv, Tracked
    <3> QED  BY <1>3, <2>2, <3>1 DEF UpTo
  <2> QED  BY <2>1, <2>2
<1>8. ASSUME NEW f \in Fifos PROVE QueueInv(f)'
  <2>1. \A byte : (Current(byte)' <=> Current(byte)) /\ (Current(byte) => byte.channel \in Channels)
    BY <1>2 DEF Current
  <2>2. ASSUME NEW byte \in Bytes, Brought(byte, f) PROVE Brought(byte, f)'
    BY <1>2, <1>3, <2>1, <2>2 DEF Brought
  <2>3. ASSUME NEW byte \in Bytes, NEW next \in Bytes, Linked(byte, next)
        PROVE  Linked(byte, next)'
    BY <1>3, <2>1, <2>3 DEF Linked
  <2>4. ASSUME NEW byte \in Bytes, Youngest(byte) PROVE Youngest(byte)'
    BY <1>3, <1>5, <2>1, <2>4 DEF Youngest
  <2> QED  BY <1>2, <2>2, <2>3, <2>4, QueueStays DEF BufferInv
<1> QED  BY <1>6, <1>7, <1>8 DEF BufferInv

\* The burst's byte is of the buffer, and so is the rest of its word.
LEMMA PushedFromBuffer ==
  ASSUME FifoInv, BufferInv, PushBurstByte,
         NEW source, source = IF audio.left % WordSize = 0 THEN Wrapped(audio.source)
                              ELSE audio.source,
         NEW c, c = audio.channel
  PROVE  /\ source \in Nat /\ Whole(source + audio.left)
         /\ c \notin raced =>
              /\ UpTo(c, source + 1, (audio.left - 1) % WordSize)
              /\ source >= dma[c].start
              /\ dma[c].end > dma[c].start => source < dma[c].end
              /\ \/ source = audio.source
                 \/ audio.source = dma[c].end /\ source = dma[c].start
<1>1. /\ audio.pc = "push" /\ c \in Channels /\ audio.left \in Nat /\ audio.left > 0
      /\ audio.source \in Nat /\ audio.start \in Nat /\ audio.end \in Nat
      /\ dma[c].start \in Nat /\ dma[c].end \in Nat
  <2>1. audio.pc = "push" /\ c \in Channels /\ audio.left > 0
    BY DEF PushBurstByte, FifoInv, AudioStates, Room
  <2> QED  BY <2>1, States DEF FifoInv
<1>2. /\ Whole(audio.source + audio.left) /\ Whole(audio.start) /\ Whole(audio.end)
      /\ Whole(dma[c].end)
  BY <1>1 DEF BufferInv, WordsWhole
<1>3. ASSUME c \notin raced
      PROVE  /\ audio.start = dma[c].start /\ audio.end = dma[c].end
             /\ audio.source >= dma[c].start
             /\ dma[c].end > dma[c].start =>
                  audio.source + (audio.left % WordSize) <= dma[c].end
  BY <1>1, <1>3 DEF BufferInv, Tracked, UpTo, Bursting
<1>4. /\ Whole(audio.left) => (audio.left - 1) % WordSize = WordSize - 1
      /\ ~Whole(audio.left) => (audio.left - 1) % WordSize = (audio.left % WordSize) - 1
      /\ audio.left % WordSize \in 0..(WordSize - 1) /\ WordSize \in Nat /\ WordSize > 0
  BY <1>1, WordCountsDown, Constants
<1>5. CASE ~Whole(audio.left)
  <2>1. source = audio.source
    BY <1>5 DEF Whole
  <2>2. audio.left % WordSize > 0
    BY <1>4, <1>5 DEF Whole
  <2>3. PICK rest \in Nat : rest = audio.left % WordSize
    BY <1>4
  <2>4. (audio.left - 1) % WordSize = rest - 1 /\ rest > 0
    BY <1>4, <1>5, <2>2, <2>3
  <2>5. ASSUME c \notin raced
        PROVE  /\ UpTo(c, source + 1, rest - 1)
               /\ source >= dma[c].start
               /\ dma[c].end > dma[c].start => source < dma[c].end
    <3>1. /\ source >= dma[c].start
          /\ dma[c].end > dma[c].start => source + rest <= dma[c].end
      BY <1>3, <2>1, <2>3, <2>5
    <3> QED  BY <1>1, <2>1, <2>4, <3>1 DEF UpTo
  <2> QED  BY <1>1, <1>2, <2>1, <2>4, <2>5
<1>6. CASE Whole(audio.left)
  <2>1. source = Wrapped(audio.source)
    BY <1>6 DEF Whole
  <2>2. Whole(audio.source)
    BY <1>1, <1>2, <1>6, WholeSums
  <2>3. source \in Nat /\ Whole(source)
    BY <1>1, <1>2, <2>1, <2>2 DEF Wrapped
  <2>4. Whole(source + audio.left)
    BY <1>1, <1>6, <2>3, WholeSums
  <2>5. ASSUME c \notin raced
        PROVE  /\ UpTo(c, source + 1, WordSize - 1)
               /\ source >= dma[c].start
               /\ dma[c].end > dma[c].start => source < dma[c].end
               /\ \/ source = audio.source
                  \/ audio.source = dma[c].end /\ source = dma[c].start
    <3>1. /\ audio.start = dma[c].start /\ audio.end = dma[c].end
          /\ audio.source >= dma[c].start
      BY <1>3, <2>5
    <3>2. dma[c].end > dma[c].start => audio.source <= dma[c].end
      <4>1. audio.left % WordSize = 0
        BY <1>6 DEF Whole
      <4> QED  BY <1>1, <1>3, <2>5, <4>1
    <3>3. source = IF dma[c].end > dma[c].start /\ audio.source >= dma[c].end
                   THEN dma[c].start ELSE audio.source
      BY <2>1, <3>1 DEF Wrapped
    <3>4. /\ source >= dma[c].start
          /\ dma[c].end > dma[c].start => source < dma[c].end
          /\ source = audio.source
               \/ (audio.source = dma[c].end /\ source = dma[c].start)
      BY <1>1, <3>1, <3>2, <3>3
    <3>5. dma[c].end > dma[c].start => source + WordSize <= dma[c].end
      BY <1>1, <1>2, <2>3, <3>4, WholeSums
    <3>6. UpTo(c, source + 1, WordSize - 1)
      BY <1>1, <1>4, <2>3, <3>4, <3>5 DEF UpTo
    <3> QED  BY <3>4, <3>6
  <2> QED  BY <1>4, <1>6, <2>3, <2>4, <2>5
<1> QED  BY <1>5, <1>6

LEMMA PushBrings ==
  ASSUME FifoInv, BufferInv, PushBurstByte
  PROVE  BufferInv'
<1>c. PICK c : c = audio.channel
  OBVIOUS
<1>f. PICK f : f = Destination[c]
  OBVIOUS
<1>1. PICK source : source = IF audio.left % WordSize = 0 THEN Wrapped(audio.source)
                             ELSE audio.source
  OBVIOUS
<1>2. PICK byte : byte = [channel |-> c, run |-> run[c], addr |-> source]
  OBVIOUS
<1>3. /\ fifo' = [fifo EXCEPT ![f] = PushByte(@, byte)]
      /\ audio' = [audio EXCEPT !.source = source + 1, !.left = @ - 1,
                                !.pc = IF audio.left = 1 THEN "store" ELSE "push"]
      /\ UNCHANGED <<dma, run, raced>> /\ audio.pc = "push"
  BY <1>c, <1>f, <1>1, <1>2 DEF PushBurstByte, history
<1>4. /\ c \in Channels /\ f \in Fifos /\ audio.left \in Nat /\ audio.left > 0
      /\ fifo \in [Fifos -> Seq(Bytes)] /\ audio \in AudioStates /\ run[c] \in Nat
      /\ dma \in [Channels -> [source: Nat, start: Nat, end: Nat]]
  <2>1. audio.left > 0 /\ audio \in AudioStates
    BY <1>3 DEF FifoInv, Room
  <2> QED  BY <1>c, <1>f, <2>1, States DEF FifoInv
<1>5. /\ source \in Nat /\ Whole(source + audio.left)
      /\ c \notin raced =>
           /\ UpTo(c, source + 1, (audio.left - 1) % WordSize)
           /\ source >= dma[c].start
           /\ dma[c].end > dma[c].start => source < dma[c].end
           /\ \/ source = audio.source
              \/ audio.source = dma[c].end /\ source = dma[c].start
  BY <1>c, <1>1, PushedFromBuffer
<1>6. byte \in Bytes /\ byte.channel = c /\ byte.run = run[c] /\ byte.addr = source
  BY <1>2, <1>4, <1>5, ChannelsFacts DEF Bytes
<1>7. /\ audio'.pc = IF audio.left = 1 THEN "store" ELSE "push"
      /\ audio'.channel = c /\ audio'.source = source + 1
      /\ audio'.left = audio.left - 1
      /\ audio'.start = audio.start /\ audio'.end = audio.end
  BY <1>c, <1>3, <1>4 DEF AudioStates
<1>8. /\ \A d \in Channels : (Bursting(d) <=> d = c) /\ (Bursting(d)' <=> d = c)
      /\ Now(c) = audio.source /\ Now(c)' = source + 1
      /\ \A d \in Channels \ {c} : Now(d)' = Now(d)
  BY <1>c, <1>3, <1>4, <1>7 DEF Bursting, Now
<1>9. WordsWhole'
  <2>1. source + 1 + (audio.left - 1) = source + audio.left
    <3>1. source \in Nat /\ audio.left \in Nat
      BY <1>4, <1>5
    <3> QED  BY <3>1
  <2>2. Whole(audio'.source + audio'.left)
    BY <1>5, <1>7, <2>1
  <2>3. /\ Whole(audio.start) /\ Whole(audio.end)
        /\ \A d \in Channels :
             Whole(dma[d].source) /\ Whole(dma[d].start) /\ Whole(dma[d].end)
    BY <1>3 DEF BufferInv, WordsWhole
  <2>4. audio'.pc = "store" => audio'.left = 0
    BY <1>4, <1>7
  <2> QED  BY <1>3, <1>7, <2>2, <2>3, <2>4 DEF WordsWhole, Whole
<1>10. Tracked'
  <2> SUFFICES ASSUME NEW d \in Channels, d \notin raced
               PROVE  /\ dma[d].source # 0 => UpTo(d, dma[d].source, 0)
                      /\ d = c => /\ audio.start = dma[d].start
                                  /\ audio.end = dma[d].end
                                  /\ UpTo(d, source + 1, (audio.left - 1) % WordSize)
    BY <1>3, <1>7, <1>8 DEF Tracked, UpTo
  <2> QED  BY <1>5, <1>8 DEF BufferInv, Tracked
<1>11. QueueInv(f)'
  <2>1. fifo'[f] = PushByte(fifo[f], byte)
    BY <1>3, <1>4
  <2>2. Brought(byte, f)
    BY <1>f, <1>4, <1>5, <1>6 DEF Brought, Current
  <2>3. Youngest(byte)'
    <3>1. Now(byte.channel)' = source + 1 /\ byte.addr + 1 = source + 1
      BY <1>6, <1>8
    <3> QED  BY <3>1 DEF Youngest
  <2>4. ASSUME fifo[f] # <<>> PROVE Linked(fifo[f][Len(fifo[f])], byte)
    <3>1. PICK last : last = fifo[f][Len(fifo[f])]
      OBVIOUS
    <3>2. Youngest(last)
      BY <1>4, <2>4, <3>1 DEF BufferInv, QueueInv
    <3>3. ASSUME Current(last), byte.channel = last.channel
          PROVE  \/ byte.addr = last.addr + 1
                 \/ /\ last.addr + 1 = dma[last.channel].end
                    /\ byte.addr = dma[last.channel].start
      <4>1. last.channel = c /\ c \notin raced
        BY <1>6, <3>3 DEF Current
      <4>2. last.addr + 1 = audio.source
        BY <1>4, <1>8, <3>2, <3>3, <4>1 DEF Youngest
      <4> QED  BY <1>5, <1>6, <4>1, <4>2
    <3> QED  BY <3>1, <3>3 DEF Linked
  <2> QED  BY <1>3, <1>4, <1>6, <2>1, <2>2, <2>3, <2>4, QueueGrows DEF BufferInv
<1>12. ASSUME NEW g \in Fifos, g # f PROVE QueueInv(g)'
  <2>1. fifo'[g] = fifo[g]
    BY <1>3, <1>4, <1>12
  <2>2. \A b : (Current(b)' <=> Current(b)) /\ (Current(b) => b.channel \in Channels)
    BY <1>3 DEF Current
  <2>3. ASSUME NEW b \in Bytes, Brought(b, g) PROVE Brought(b, g)'
    BY <1>3, <2>2, <2>3 DEF Brought
  <2>4. ASSUME NEW b \in Bytes, NEW next \in Bytes, Linked(b, next)
        PROVE  Linked(b, next)'
    BY <1>3, <2>2, <2>4 DEF Linked
  <2>5. ASSUME NEW b \in Bytes, Brought(b, g), Youngest(b) PROVE Youngest(b)'
    <3>1. Current(b) => b.channel \in Channels \ {c}
      BY <1>f, <1>12, <2>2, <2>5 DEF Brought
    <3> QED  BY <1>3, <1>8, <2>2, <2>5, <3>1 DEF Youngest
  <2> QED  BY <2>1, <2>3, <2>4, <2>5, QueueStays DEF BufferInv
<1>13. \A g \in Fifos : QueueInv(g)'
  BY <1>11, <1>12
<1> QED  BY <1>9, <1>10, <1>13 DEF BufferInv

LEMMA AudioBrings ==
  ASSUME WordAligned, FifoInv, BufferInv, AudioStep
  PROVE  BufferInv'
<1>1. ASSUME NEW timer \in Timers, Overflow(timer) PROVE BufferInv'
  BY <1>1, OutsideBursts DEF Overflow, AudioIdle, Shorter
<1>2. CASE CheckControl
  <2>1. audio.pc = "control" /\ audio'.pc \in {"length", "control", "mix"}
    BY <1>2, AfterChannelFacts DEF CheckControl, FifoInv, AudioStates
  <2> QED  BY <1>2, <2>1, OutsideBursts DEF CheckControl, history, Shorter
<1>3. CASE CheckLength
  <2>1. audio.pc = "length" /\ audio'.pc \in {"load", "control", "mix"}
    BY <1>3, AfterChannelFacts DEF CheckLength, FifoInv, AudioStates
  <2> QED  BY <1>3, <2>1, OutsideBursts DEF CheckLength, Shorter
<1>4. CASE Mix
  <2>1. audio.pc = "mix" /\ audio'.pc = "idle" /\ UNCHANGED <<run, raced, dma>>
    BY <1>4 DEF Mix, AudioIdle
  <2>2. \A f \in Fifos : Shorter(f)
    BY <1>4 DEF Mix, Shorter
  <2> QED  BY <2>1, <2>2, OutsideBursts
<1> QED
  BY <1>1, <1>2, <1>3, <1>4, LoadBrings, PushBrings, StoreBrings DEF AudioStep

LEMMA InferredEnd ==
  ASSUME WordAligned, FifoInv, NEW c \in Channels, NEW end,
         end = InferEnd(c, regs.sad[c])
  PROVE  end \in Nat /\ Whole(end)
<1>1. PICK a \in Nat : a = regs.sad[1] /\ Whole(a)
  BY GuestAddresses DEF Channels
<1>2. PICK b \in Nat : b = regs.sad[2] /\ Whole(b)
  BY GuestAddresses DEF Channels
<1>3. CASE b > a
  <2>1. CASE c = 1
    BY <1>1, <1>2, <1>3, <2>1 DEF InferEnd
  <2>2. CASE c = 2
    <3>1. end = b + (b - a) /\ b - a \in Nat
      BY <1>1, <1>2, <1>3, <2>2 DEF InferEnd
    <3>2. Whole(b - a)
      <4>1. a < b /\ Whole(a) /\ Whole(b)
        BY <1>1, <1>2, <1>3
      <4>2. Whole(a) /\ a < b => a + WordSize <= b /\ Whole(b - a)
        BY <4>1, WholeSums
      <4> QED  BY <4>1, <4>2
    <3>3. PICK d \in Nat : d = b - a
      BY <3>1
    <3>4. Whole(b + d) /\ b + d \in Nat
      <4>1. Whole(d)
        BY <3>2, <3>3
      <4>2. Whole(b)
        BY <1>2
      <4>3. Whole(b + d)
        BY <4>1, <4>2, WholeSums
      <4> QED  BY <4>3
    <3> QED  BY <3>1, <3>3, <3>4
  <2> QED  BY <2>1, <2>2 DEF Channels
<1>4. CASE ~(b > a)
  <2>1. end = RamEnd \/ end = 0
    BY <1>1, <1>2, <1>4 DEF InferEnd
  <2>2. RamEnd \in Nat
    BY AudioAssumption
  <2> QED  BY <2>1, <2>2, WholeBurst DEF WordAligned
<1> QED  BY <1>3, <1>4

LEMMA UpdateBrings ==
  ASSUME WordAligned, FifoInv, BufferInv, UpdateSource
  PROVE  BufferInv'
<1>c. PICK c : c = kvm.channel
  OBVIOUS
<1>1. /\ c \in Channels /\ regs.sad[c] \in Nat /\ Whole(regs.sad[c])
      /\ dma \in [Channels -> [source: Nat, start: Nat, end: Nat]]
      /\ run \in [Channels -> Nat]
  BY <1>c, GuestAddresses DEF FifoInv, KvmStates
<1>2. UNCHANGED <<fifo, audio>>
  BY DEF UpdateSource
<1>3. /\ \A d \in Channels : Bursting(d)' <=> Bursting(d)
      /\ raced' = IF Bursting(c) THEN raced \cup {c}
                  ELSE IF regs.on[c] THEN raced \ {c} ELSE raced
  BY <1>c, <1>2 DEF UpdateSource, Bursting
<1>4. /\ \A d \in Channels \ {c} : dma'[d] = dma[d] /\ run'[d] = run[d]
                                   /\ Now(d)' = Now(d) /\ (d \in raced' <=> d \in raced)
  <2>1. \A d \in Channels \ {c} : dma'[d] = dma[d] /\ run'[d] = run[d]
    BY <1>c, <1>1 DEF UpdateSource
  <2> QED  BY <1>2, <1>3, <2>1 DEF Now
<1>5. PICK end : end = InferEnd(c, regs.sad[c])
  OBVIOUS
<1>6. end \in Nat /\ Whole(end)
  BY <1>1, <1>5, InferredEnd
<1>7. CASE regs.on[c]
  <2>1. /\ dma' = [dma EXCEPT ![c] = [source |-> regs.sad[c], start |-> regs.sad[c],
                                      end |-> end]]
        /\ run' = [run EXCEPT ![c] = @ + 1]
    BY <1>c, <1>5, <1>7 DEF UpdateSource
  <2>2. /\ dma'[c].source = regs.sad[c] /\ dma'[c].start = regs.sad[c]
        /\ dma'[c].end = end /\ run'[c] = run[c] + 1 /\ run[c] \in Nat
    BY <1>1, <2>1
  <2>3. \A d \in Channels : run[d] \in Nat /\ run[d] <= run'[d]
    BY <1>1, <1>4, <2>2
  <2>4. c \notin raced' => ~Bursting(c)'
    BY <1>1, <1>3
  <2>5. WordsWhole'
    <3>1. /\ \A d \in Channels :
               Whole(dma[d].source) /\ Whole(dma[d].start) /\ Whole(dma[d].end)
          /\ audio.pc \in {"push", "store"} =>
               Whole(audio.source + audio.left) /\ Whole(audio.start) /\ Whole(audio.end)
          /\ audio.pc = "store" => audio.left = 0
      BY DEF BufferInv, WordsWhole
    <3>2. ASSUME NEW d \in Channels
          PROVE  Whole(dma'[d].source) /\ Whole(dma'[d].start) /\ Whole(dma'[d].end)
      <4>1. CASE d = c
        BY <1>1, <1>6, <2>2, <4>1
      <4>2. CASE d # c
        BY <1>4, <3>1, <4>2
      <4> QED  BY <4>1, <4>2
    <3> QED  BY <1>2, <3>1, <3>2 DEF WordsWhole, Whole
  <2>6. Tracked'
    <3> SUFFICES ASSUME NEW d \in Channels, d \notin raced'
                 PROVE  /\ dma'[d].source # 0 => UpTo(d, dma[d].source, 0)'
                        /\ Bursting(d)' => /\ audio'.start = dma'[d].start
                                          /\ audio'.end = dma'[d].end
                                          /\ UpTo(d, audio.source, audio.left % WordSize)'
      BY DEF Tracked
    <3>1. CASE d = c
      <4>1. ~Bursting(d)'
        BY <2>4, <3>1
      <4>2. UpTo(d, dma[d].source, 0)'
        BY <1>1, <1>6, <2>2, <3>1 DEF UpTo
      <4> QED  BY <4>1, <4>2
    <3>2. CASE d # c
      <4>1. /\ dma[d].source # 0 => UpTo(d, dma[d].source, 0)
            /\ Bursting(d) => /\ audio.start = dma[d].start /\ audio.end = dma[d].end
                              /\ UpTo(d, audio.source, audio.left % WordSize)
        BY <1>4, <3>2 DEF BufferInv, Tracked
      <4> QED  BY <1>2, <1>3, <1>4, <3>2, <4>1 DEF UpTo
    <3> QED  BY <3>1, <3>2
  <2>7. ASSUME NEW f \in Fifos PROVE QueueInv(f)'
    <3>1. ASSUME NEW byte \in Bytes, Brought(byte, f)
          PROVE  /\ byte.channel \in Channels => byte.run <= run'[byte.channel]
                 /\ Current(byte)' => Current(byte) /\ byte.channel \in Channels \ {c}
      <4>1. byte.run \in Nat /\ (byte.channel \in Channels => byte.run <= run[byte.channel])
        BY <3>1 DEF Bytes, Brought
      <4>2. byte.channel \in Channels => byte.run <= run'[byte.channel]
        BY <2>3, <4>1, <1>1, <1>4, <2>2
      <4>3. Current(byte)' => byte.channel # c
        BY <2>2, <4>1 DEF Current
      <4> QED  BY <1>4, <4>2, <4>3 DEF Current
    <3>2. ASSUME NEW byte \in Bytes, Brought(byte, f) PROVE Brought(byte, f)'
      BY <1>4, <3>1, <3>2 DEF Brought
    <3>3. ASSUME NEW byte \in Bytes, Brought(byte, f),
                 NEW next \in Bytes, Linked(byte, next)
          PROVE  Linked(byte, next)'
      BY <1>4, <3>1, <3>3 DEF Linked
    <3>4. ASSUME NEW byte \in Bytes, Brought(byte, f), Youngest(byte)
          PROVE  Youngest(byte)'
      BY <1>3, <1>4, <3>1, <3>4 DEF Youngest
    <3> QED  BY <1>2, <3>2, <3>3, <3>4, QueueStays DEF BufferInv
  <2> QED  BY <2>5, <2>6, <2>7 DEF BufferInv
<1>8. CASE ~regs.on[c]
  <2>1. dma' = [dma EXCEPT ![c] = [@ EXCEPT !.source = 0]] /\ run' = run
    BY <1>c, <1>8 DEF UpdateSource
  <2>2. dma'[c].source = 0 /\ dma'[c].start = dma[c].start /\ dma'[c].end = dma[c].end
    BY <1>1, <2>1
  <2>3. raced \subseteq raced' /\ (c \notin raced' => ~Bursting(c)')
    BY <1>1, <1>3, <1>8
  <2>4. WordsWhole'
    <3>1. /\ \A d \in Channels :
               Whole(dma[d].source) /\ Whole(dma[d].start) /\ Whole(dma[d].end)
          /\ audio.pc \in {"push", "store"} =>
               Whole(audio.source + audio.left) /\ Whole(audio.start) /\ Whole(audio.end)
          /\ audio.pc = "store" => audio.left = 0
      BY DEF BufferInv, WordsWhole
    <3>2. ASSUME NEW d \in Channels
          PROVE  Whole(dma'[d].source) /\ Whole(dma'[d].start) /\ Whole(dma'[d].end)
      <4>1. CASE d = c
        BY <2>2, <3>1, <4>1, WholeBurst
      <4>2. CASE d # c
        BY <1>4, <3>1, <4>2
      <4> QED  BY <4>1, <4>2
    <3> QED  BY <1>2, <3>1, <3>2 DEF WordsWhole, Whole
  <2>5. Tracked'
    <3> SUFFICES ASSUME NEW d \in Channels, d \notin raced'
                 PROVE  /\ dma'[d].source # 0 => UpTo(d, dma[d].source, 0)'
                        /\ Bursting(d)' => /\ audio'.start = dma'[d].start
                                          /\ audio'.end = dma'[d].end
                                          /\ UpTo(d, audio.source, audio.left % WordSize)'
      BY DEF Tracked
    <3>1. CASE d = c
      BY <2>2, <2>3, <3>1
    <3>2. CASE d # c
      <4>1. /\ dma[d].source # 0 => UpTo(d, dma[d].source, 0)
            /\ Bursting(d) => /\ audio.start = dma[d].start /\ audio.end = dma[d].end
                              /\ UpTo(d, audio.source, audio.left % WordSize)
        BY <1>4, <3>2 DEF BufferInv, Tracked
      <4> QED  BY <1>2, <1>3, <1>4, <3>2, <4>1 DEF UpTo
    <3> QED  BY <3>1, <3>2
  <2>6. ASSUME NEW f \in Fifos PROVE QueueInv(f)'
    <3>1. \A byte : Current(byte)' => Current(byte) /\ byte.channel \in Channels
                                    /\ byte.channel \notin raced'
      BY <2>1, <2>3 DEF Current
    <3>2. \A d \in Channels : dma'[d].start = dma[d].start /\ dma'[d].end = dma[d].end
      BY <1>4, <2>2
    <3>3. ASSUME NEW byte \in Bytes, Brought(byte, f) PROVE Brought(byte, f)'
      BY <2>1, <3>1, <3>2, <3>3 DEF Brought
    <3>4. ASSUME NEW byte \in Bytes, NEW next \in Bytes, Linked(byte, next)
          PROVE  Linked(byte, next)'
      BY <3>1, <3>2, <3>4 DEF Linked
    <3>5. ASSUME NEW byte \in Bytes, Youngest(byte) PROVE Youngest(byte)'
      <4> SUFFICES ASSUME Current(byte)',
                          Bursting(byte.channel)' \/ dma'[byte.channel].source # 0
                   PROVE  byte.addr + 1 = Now(byte.channel)'
        BY DEF Youngest
      <4>1. /\ Current(byte) /\ byte.channel \in Channels \ {c}
        BY <2>2, <2>3, <3>1
      <4> QED  BY <1>3, <1>4, <3>5, <4>1 DEF Youngest
    <3> QED  BY <1>2, <3>3, <3>4, <3>5, QueueStays DEF BufferInv
  <2> QED  BY <2>4, <2>5, <2>6 DEF BufferInv
<1> QED  BY <1>7, <1>8

LEMMA KvmBrings ==
  ASSUME WordAligned, FifoInv, BufferInv, KvmStep
  PROVE  BufferInv'
<1>1. ASSUME UNCHANGED <<run, raced, dma, audio, fifo>> PROVE BufferInv'
  BY <1>1, QueuesOnly DEF Shorter
<1>2. ASSUME NEW c \in Channels, NEW source \in Sources, WriteSource(c, source)
      PROVE  BufferInv'
  BY <1>1, <1>2 DEF WriteSource, GuestWrites
<1>3. ASSUME NEW c \in Channels, NEW on \in BOOLEAN, WriteControl(c, on)
      PROVE  BufferInv'
  BY <1>1, <1>3 DEF WriteControl, GuestWrites
<1>4. ASSUME NEW timerOf \in [Fifos -> {0, 1}], NEW reset \in SUBSET Fifos,
             WriteSoundControl(timerOf, reset)
      PROVE  BufferInv'
  BY <1>1, <1>4 DEF WriteSoundControl, GuestWrites
<1>5. ASSUME NEW f \in Fifos, WriteFifo(f) PROVE BufferInv'
  BY <1>1, <1>5 DEF WriteFifo, GuestWrites
<1>6. CASE ResetFifos
  <2>1. UNCHANGED <<run, raced, dma, audio>> /\ \A f \in Fifos : Shorter(f)
    BY <1>6 DEF ResetFifos, Shorter
  <2> QED  BY <2>1, QueuesOnly
<1>7. CASE PushGuestByte
  <2>1. PICK byte : byte = [channel |-> 0, run |-> 0, addr |-> 0]
    OBVIOUS
  <2>2. byte \in Bytes /\ byte.channel = 0 /\ 0 \notin Channels
    BY <2>1 DEF Bytes, Channels
  <2>3. /\ UNCHANGED <<run, raced, dma, audio>> /\ kvm.fifo \in Fifos
        /\ fifo' = [fifo EXCEPT ![kvm.fifo] = PushByte(@, byte)]
        /\ fifo \in [Fifos -> Seq(Bytes)]
    BY <1>7, <2>1 DEF PushGuestByte, FifoInv, KvmStates
  <2>4. ASSUME NEW f \in Fifos PROVE QueueInv(f)' \/ Shorter(f)
    <3>1. CASE f # kvm.fifo
      BY <2>3, <3>1 DEF Shorter
    <3>2. CASE f = kvm.fifo
      <4>1. fifo'[f] = PushByte(fifo[f], byte)
        BY <2>3, <3>2
      <4>2. Brought(byte, f) /\ Youngest(byte)'
        BY <2>2 DEF Brought, Youngest, Current
      <4>3. Linked(fifo[f][Len(fifo[f])], byte)
        BY <2>2 DEF Linked, Current
      <4> QED  BY <2>2, <2>3, <4>1, <4>2, <4>3, QueueGrows DEF BufferInv
    <3> QED  BY <3>1, <3>2
  <2> QED  BY <2>3, <2>4, QueuesOnly
<1> QED
  BY <1>2, <1>3, <1>4, <1>5, <1>6, <1>7, UpdateBrings DEF KvmStep

LEMMA BufferKept == WordAligned /\ FifoInv /\ BufferInv /\ [Next]_vars => BufferInv'
<1> SUFFICES ASSUME WordAligned, FifoInv, BufferInv, [Next]_vars PROVE BufferInv'
  OBVIOUS
<1>1. ASSUME UNCHANGED <<run, raced, dma, audio, fifo>> PROVE BufferInv'
  BY <1>1, QueuesOnly DEF Shorter
<1>2. CASE UNCHANGED vars
  BY <1>1, <1>2 DEF vars
<1>3. ASSUME NEW samples \in Callbacks, Callback(samples) PROVE BufferInv'
  BY <1>1, <1>3 DEF Callback, history
<1> QED  BY <1>2, <1>3, AudioBrings, KvmBrings DEF Next

\* Buffers of whole words: a byte that a channel brings after its start comes from the
\* buffer it was started on, as long as no burst was under way when it was started
\* and none read the source again before, however the burst's bytes and the guest's
\* writes interleave (run_fifo_dma_for_timer).
THEOREM FromItsBuffer == ASSUME WordAligned PROVE Spec => []FromBuffer
<1>1. BufferInv => FromBuffer
  <2> SUFFICES ASSUME BufferInv, NEW f \in Fifos, NEW i \in 1..Len(fifo[f]),
                      Current(fifo[f][i])
               PROVE  LET b == fifo[f][i]
                          d == dma[b.channel]
                      IN  b.addr >= d.start /\ (d.end > d.start => b.addr < d.end)
    BY DEF FromBuffer
  <2>1. Brought(fifo[f][i], f) /\ fifo[f][i].channel \in Channels
    BY DEF BufferInv, QueueInv, Current
  <2> QED  BY <2>1 DEF Brought
<1>2. IInv => FifoInv
  BY Split
<1>3. Init => BufferInv
  BY BufferInitially
<1>4. FifoInv /\ BufferInv /\ [Next]_vars => BufferInv'
  BY BufferKept
<1> QED  BY <1>1, <1>2, <1>3, <1>4, Invariance, PTL DEF Spec

\* Those bytes come in the order of the buffer, none left out and none twice, from its
\* end to its start again, from one burst to the next.
THEOREM InBufferOrder == ASSUME WordAligned PROVE Spec => []InOrder
<1>1. BufferInv => InOrder
  BY DEF BufferInv, QueueInv, Linked, InOrder
<1>2. IInv => FifoInv
  BY Split
<1>3. Init => BufferInv
  BY BufferInitially
<1>4. FifoInv /\ BufferInv /\ [Next]_vars => BufferInv'
  BY BufferKept
<1> QED  BY <1>1, <1>2, <1>3, <1>4, Invariance, PTL DEF Spec
=============================================================================

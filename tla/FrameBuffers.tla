---------------------------- MODULE FrameBuffers ----------------------------
(***************************************************************************)
(* The frame buffers of kgba's shared memory: the vcount clock thread draws *)
(* scanlines into the work buffer and publishes it at line 160; presenters *)
(* take a reference-counted snapshot of the completed buffer and read it   *)
(* without the lock.  Publishing reuses the old completed buffer if nobody *)
(* holds it, else the spare one, else it allocates.                        *)
(*                                                                         *)
(* Pixels are abstracted to the number of the frame a line was drawn for.  *)
(* Each step that holds the frame_buffers mutex is one action; the atomic  *)
(* completed_frame_seq is stored under it, so it and seq are one variable. *)
(***************************************************************************)
EXTENDS Integers, FiniteSets

CONSTANTS
  Presenters,   \* threads that present (one in kgba)
  Buffers,      \* where a frame may be allocated
  NoBuffer,     \* None
  Height,       \* visible lines (160)
  TotalLines,   \* lines of a frame (228)
  MaxFrames     \* bound: frames that are published

ASSUME BuffersAssumption == NoBuffer \notin Buffers
ASSUME LinesAssumption ==
  /\ Height \in Nat \ {0}
  /\ TotalLines \in Nat
  /\ Height < TotalLines
ASSUME FramesAssumption == MaxFrames \in Nat
ASSUME PresentersAssumption == IsFiniteSet(Presenters) /\ Presenters # {}

VARIABLES
  work, completed, spare, seq,  \* FrameBuffers
  pixels,     \* the lines in each buffer
  vcount,     \* the vcount thread's line ...
  needs,      \* ... what needs_scanline_renderer answers now ...
  latched,    \* ... and what it answered at the top of this line
  pc,         \* the vcount thread's place in its loop
  held,       \* the buffer each presenter's snapshot refers to
  taken,      \* the number of that snapshot
  last,       \* last_presented_seq, -1 for None
  phase,      \* each presenter's place in its loop
  shown       \* the pixels each presenter copied to its window last

bufferVars == <<work, completed, spare, seq, pixels>>
clockVars == <<vcount, latched, pc>>
presenterVars == <<held, taken, last, phase, shown>>
vars == <<bufferVars, clockVars, needs, presenterVars>>

Lines == 0..(Height - 1)
Picture == [Lines -> 0..MaxFrames]
Blank == [y \in Lines |-> 0]

\* Buffers somebody still refers to.
Live == ({work, completed, spare} \cup {held[p] : p \in Presenters}) \ {NoBuffer}

Init ==
  /\ work \in Buffers /\ completed \in Buffers /\ spare \in Buffers
  /\ work # completed /\ work # spare /\ completed # spare
  /\ seq = 0
  /\ pixels = [b \in Buffers |-> Blank]
  /\ vcount = 0 /\ latched = FALSE /\ pc = "top"
  /\ needs \in BOOLEAN
  /\ held = [p \in Presenters |-> NoBuffer]
  /\ taken = [p \in Presenters |-> -1]
  /\ last = [p \in Presenters |-> -1]
  /\ phase = [p \in Presenters |-> "idle"]
  /\ shown = [p \in Presenters |-> Blank]

\* The guest's registers decide, at any moment, who renders.
ChangeNeeds ==
  /\ needs' = ~needs
  /\ UNCHANGED <<bufferVars, clockVars, presenterVars>>

\* run_vcount_clock asks once a line; MaxFrames bounds the frames.
LatchNeeds ==
  /\ pc = "top"
  /\ seq < MaxFrames
  /\ latched' = needs
  /\ pc' = "draw"
  /\ UNCHANGED <<bufferVars, vcount, needs, presenterVars>>

\* render_scanline: one line of the work buffer.
RenderScanline ==
  /\ pc = "draw"
  /\ pixels' = IF vcount < Height /\ latched
               THEN [pixels EXCEPT ![work][vcount] = seq + 1]
               ELSE pixels
  /\ pc' = "advance"
  /\ UNCHANGED <<work, completed, spare, seq, vcount, latched, needs,
                 presenterVars>>

\* publish_completed_frame: Arc::try_unwrap succeeds if no snapshot is left.
Unshared == \A p \in Presenters : held[p] # completed

\* Mutant: the old completed buffer is drawn into even under a snapshot.
NextWorkShared == {completed}

NextWork ==
  IF Unshared THEN {completed}
  ELSE IF spare # NoBuffer THEN {spare}
  ELSE Buffers \ Live

\* Mutant: a shared frame is always replaced by a new buffer, the spare kept.
PublishAllocating ==
  /\ \E buffer \in IF Unshared THEN {completed} ELSE Buffers \ Live :
       /\ work' = buffer
       /\ pixels' = IF buffer \in Live THEN pixels
                    ELSE [pixels EXCEPT ![buffer] = Blank]
  /\ completed' = work
  /\ seq' = seq + 1
  /\ UNCHANGED spare

PublishCompletedFrame ==
  /\ \E buffer \in NextWork :
       /\ work' = buffer
       /\ pixels' = IF buffer \in Live THEN pixels
                    ELSE [pixels EXCEPT ![buffer] = Blank]
  /\ completed' = work
  /\ spare' = IF Unshared THEN spare ELSE NoBuffer
  /\ seq' = seq + 1

\* Mutant: the line wraps one too late.
AdvanceLineLate ==
  /\ pc = "advance"
  /\ vcount' = IF vcount + 1 > TotalLines THEN 0 ELSE vcount + 1
  /\ IF vcount + 1 = Height /\ latched
     THEN PublishCompletedFrame
     ELSE UNCHANGED bufferVars
  /\ pc' = "top"
  /\ UNCHANGED <<latched, needs, presenterVars>>

AdvanceLine ==
  /\ pc = "advance"
  /\ vcount' = IF vcount + 1 >= TotalLines THEN 0 ELSE vcount + 1
  /\ IF vcount + 1 = Height /\ latched
     THEN PublishCompletedFrame
     ELSE UNCHANGED bufferVars
  /\ pc' = "top"
  /\ UNCHANGED <<latched, needs, presenterVars>>

\* The present closure: if the scanline renderer is in use, compare the newest
\* number with the last one presented.  (If not, render_frame draws a private
\* frame and nothing here changes.)
CompareSeq(p) ==
  /\ phase[p] = "idle"
  /\ needs
  /\ last[p] # seq
  /\ phase' = [phase EXCEPT ![p] = "changed"]
  /\ UNCHANGED <<bufferVars, clockVars, needs, held, taken, last, shown>>

\* latest_frame_snapshot clones the Arc and copies the number.
LatestFrameSnapshot(p) ==
  /\ phase[p] = "changed"
  /\ held' = [held EXCEPT ![p] = completed]
  /\ taken' = [taken EXCEPT ![p] = seq]
  /\ phase' = [phase EXCEPT ![p] = "present"]
  /\ UNCHANGED <<bufferVars, clockVars, needs, last, shown>>

\* Mutant: the newest number is noted, not the snapshot's.
PresentNewest(p) ==
  /\ phase[p] = "present"
  /\ shown' = [shown EXCEPT ![p] = pixels[held[p]]]
  /\ last' = [last EXCEPT ![p] = seq]
  /\ held' = [held EXCEPT ![p] = NoBuffer]
  /\ phase' = [phase EXCEPT ![p] = "idle"]
  /\ UNCHANGED <<bufferVars, clockVars, needs, taken>>

\* present_timed copies the pixels out; then the number is noted and the Arc
\* dropped.
Present(p) ==
  /\ phase[p] = "present"
  /\ shown' = [shown EXCEPT ![p] = pixels[held[p]]]
  /\ last' = [last EXCEPT ![p] = taken[p]]
  /\ held' = [held EXCEPT ![p] = NoBuffer]
  /\ phase' = [phase EXCEPT ![p] = "idle"]
  /\ UNCHANGED <<bufferVars, clockVars, needs, taken>>

ClockStep == LatchNeeds \/ RenderScanline \/ AdvanceLine

PresenterStep(p) == CompareSeq(p) \/ LatestFrameSnapshot(p) \/ Present(p)

Next == ChangeNeeds \/ ClockStep \/ \E p \in Presenters : PresenterStep(p)

Spec == Init /\ [][Next]_vars

\* Each presenter's loop comes round every frame interval.
FairSpec == Spec /\ \A p \in Presenters : WF_vars(PresenterStep(p))

-----------------------------------------------------------------------------
(* Properties.                                                             *)

\* Every variable keeps its type; completed is always there (the code expects
\* it), spare and snapshots may be missing.
TypeOK ==
  /\ work \in Buffers /\ completed \in Buffers
  /\ spare \in Buffers \cup {NoBuffer}
  /\ seq \in 0..MaxFrames
  /\ pixels \in [Buffers -> Picture]
  /\ vcount \in 0..(TotalLines - 1)
  /\ needs \in BOOLEAN /\ latched \in BOOLEAN
  /\ pc \in {"top", "draw", "advance"}
  /\ held \in [Presenters -> Buffers \cup {NoBuffer}]
  /\ taken \in [Presenters -> Nat \cup {-1}]
  /\ last \in [Presenters -> Nat \cup {-1}]
  /\ phase \in [Presenters -> {"idle", "changed", "present"}]
  /\ shown \in [Presenters -> Picture]

\* No buffer has two roles: what the clock thread draws into is neither the
\* completed frame nor the spare one nor under anybody's snapshot, however
\* publishing and dropping snapshots interleave.
Exclusive ==
  /\ work # completed /\ spare # work /\ spare # completed
  /\ \A p \in Presenters :
       held[p] # work /\ (held[p] # NoBuffer => held[p] # spare)

\* A snapshot is held exactly while its presenter presents, and the number it
\* carries is at most the newest.
Snapshots ==
  \A p \in Presenters :
    /\ held[p] = NoBuffer <=> phase[p] # "present"
    /\ last[p] <= taken[p] /\ taken[p] <= seq
    /\ phase[p] # "present" => last[p] = taken[p]
    /\ phase[p] = "changed" => last[p] < seq

\* Memory stays bounded although the spare is never replenished and every
\* publication under a snapshot allocates: one buffer per presenter and two
\* more at most are alive.
BoundedBuffers == Cardinality(Live) <= Cardinality(Presenters) + 2

\* The buffers implement the mailbox: a presenter takes the latest frame whole,
\* with its own number, never twice, and it does not change while held.
Mailbox == INSTANCE FrameMailbox WITH
  Pixels <- Picture,
  latest <- [seq |-> seq, pixels |-> pixels[completed]],
  screen <- [p \in Presenters |->
               [seq |-> taken[p],
                pixels |-> IF held[p] = NoBuffer THEN shown[p]
                           ELSE pixels[held[p]]]]
ImplementsMailbox == Mailbox!MailboxSpec

\* If the scanline renderer stays in use, each published frame is presented or
\* overtaken by a newer one: none is taken for already presented.
EveryFrameSeen ==
  <>[]needs =>
    \A p \in Presenters : \A n \in 0..MaxFrames : seq >= n ~> taken[p] >= n
=============================================================================

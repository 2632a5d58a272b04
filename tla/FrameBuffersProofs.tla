------------------------- MODULE FrameBuffersProofs -------------------------
(***************************************************************************)
(* For any number of presenters, lines, buffers and frames: no buffer of   *)
(* FrameBuffers has two roles, snapshots carry their own number, and the   *)
(* buffers implement FrameMailbox.                                         *)
(***************************************************************************)
EXTENDS FrameBuffers, FiniteSetTheorems, TLAPS

\* The inductive invariant.  The bound on frames is needed where a line is drawn
\* with the next frame's number; the last part says that the spare buffer goes
\* the first time a snapshot outlives its frame.
Bounded == pc # "top" => seq < MaxFrames
SpareUnused ==
  spare # NoBuffer => \A p \in Presenters : held[p] \in {NoBuffer, completed}
IInv == TypeOK /\ Exclusive /\ Snapshots /\ Bounded /\ SpareUnused

\* Initially the three buffers differ and nobody holds a snapshot.
LEMMA InitIInv == Init => IInv
<1> SUFFICES ASSUME Init PROVE IInv
  OBVIOUS
<1>1. Blank \in Picture
  BY FramesAssumption DEF Blank, Picture
<1>2. TypeOK
  <2>1. /\ pixels \in [Buffers -> Picture] /\ shown \in [Presenters -> Picture]
        /\ held \in [Presenters -> Buffers \cup {NoBuffer}]
        /\ phase \in [Presenters -> {"idle", "changed", "present"}]
    BY <1>1 DEF Init
  <2>2. /\ taken \in [Presenters -> Nat \cup {-1}]
        /\ last \in [Presenters -> Nat \cup {-1}]
    BY DEF Init
  <2>3. seq \in 0..MaxFrames /\ vcount \in 0..(TotalLines - 1)
    BY LinesAssumption, FramesAssumption DEF Init
  <2> QED  BY <2>1, <2>2, <2>3 DEF Init, TypeOK
<1>3. Exclusive /\ Snapshots /\ Bounded /\ SpareUnused
  BY BuffersAssumption DEF Init, Exclusive, Snapshots, Bounded, SpareUnused
<1> QED  BY <1>2, <1>3 DEF IInv

\* Drawing changes only lines of the work buffer, and keeps pictures pictures.
LEMMA DrawKeepsType ==
  ASSUME TypeOK, Bounded, RenderScanline
  PROVE  pixels' \in [Buffers -> Picture]
<1>1. CASE vcount < Height /\ latched
  <2>1. vcount \in Lines /\ seq + 1 \in 0..MaxFrames
    BY <1>1, LinesAssumption, FramesAssumption
    DEF TypeOK, Bounded, RenderScanline, Lines
  <2>2. pixels[work] \in Picture
    BY DEF TypeOK
  <2>3. [pixels[work] EXCEPT ![vcount] = seq + 1] \in Picture
    BY <2>1, <2>2 DEF Picture
  <2>4. pixels' = [pixels EXCEPT ![work] = [pixels[work] EXCEPT ![vcount] = seq + 1]]
    BY <1>1 DEF RenderScanline
  <2> QED  BY <2>3, <2>4 DEF TypeOK
<1>2. CASE ~(vcount < Height /\ latched)
  BY <1>2 DEF TypeOK, RenderScanline
<1> QED  BY <1>1, <1>2

\* The next work buffer is a buffer, nobody's, and not the one just published.
LEMMA NextWorkFree ==
  ASSUME TypeOK, Exclusive, NEW buffer \in NextWork
  PROVE  /\ buffer \in Buffers /\ buffer # work
         /\ \A p \in Presenters : held[p] # buffer
         /\ ~Unshared => buffer # completed
         /\ spare = buffer => ~Unshared
  BY BuffersAssumption DEF NextWork, Unshared, Live, TypeOK, Exclusive

\* Publishing keeps the roles of the buffers apart.
LEMMA PublishKeeps ==
  ASSUME IInv, AdvanceLine, vcount + 1 = Height /\ latched
  PROVE  IInv'
<1> USE DEF AdvanceLine, presenterVars
<1>1. PICK buffer \in NextWork :
        /\ work' = buffer
        /\ pixels' = IF buffer \in Live THEN pixels
                     ELSE [pixels EXCEPT ![buffer] = Blank]
  BY DEF PublishCompletedFrame
<1>2. /\ completed' = work
      /\ spare' = IF Unshared THEN spare ELSE NoBuffer
      /\ seq' = seq + 1
  BY DEF PublishCompletedFrame
<1>3. /\ buffer \in Buffers /\ buffer # work
      /\ \A p \in Presenters : held[p] # buffer
      /\ ~Unshared => buffer # completed
      /\ spare = buffer => ~Unshared
  BY NextWorkFree DEF IInv
<1>4. seq < MaxFrames
  BY DEF IInv, Bounded
<1>5. TypeOK'
  <2>1. Blank \in Picture
    BY FramesAssumption DEF Blank, Picture
  <2>2. pixels' \in [Buffers -> Picture]
    BY <1>1, <2>1 DEF IInv, TypeOK
  <2>3. seq' \in 0..MaxFrames
    BY <1>2, <1>4, FramesAssumption DEF IInv, TypeOK
  <2>4. vcount' \in 0..(TotalLines - 1)
    BY LinesAssumption DEF IInv, TypeOK
  <2> QED  BY <1>1, <1>2, <1>3, <2>2, <2>3, <2>4 DEF IInv, TypeOK
<1>6. Exclusive'
  BY <1>1, <1>2, <1>3, BuffersAssumption DEF IInv, TypeOK, Exclusive, Unshared
<1>7. Snapshots'
  BY <1>2, FramesAssumption DEF IInv, TypeOK, Snapshots
<1>8. Bounded' /\ SpareUnused'
  BY <1>2 DEF IInv, TypeOK, Bounded, SpareUnused, Unshared
<1> QED  BY <1>5, <1>6, <1>7, <1>8 DEF IInv

\* Every step preserves the invariant.
LEMMA NextIInv ==
  ASSUME IInv, [Next]_vars
  PROVE  IInv'
<1> USE DEF IInv
<1>1. CASE ChangeNeeds
  BY <1>1 DEF ChangeNeeds, bufferVars, clockVars, presenterVars, TypeOK,
     Exclusive, Snapshots, Bounded, SpareUnused
<1>2. CASE LatchNeeds
  BY <1>2 DEF LatchNeeds, bufferVars, presenterVars, TypeOK, Exclusive,
     Snapshots, Bounded, SpareUnused
<1>3. CASE RenderScanline
  <2>1. TypeOK'
    BY <1>3, DrawKeepsType DEF RenderScanline, presenterVars, TypeOK
  <2> QED
    BY <1>3, <2>1 DEF RenderScanline, presenterVars, Exclusive, Snapshots,
       Bounded, SpareUnused
<1>4. CASE AdvanceLine
  <2>1. CASE vcount + 1 = Height /\ latched
    BY <1>4, <2>1, PublishKeeps
  <2>2. CASE ~(vcount + 1 = Height /\ latched)
    <3>1. vcount' \in 0..(TotalLines - 1)
      BY <1>4, LinesAssumption DEF AdvanceLine, TypeOK
    <3> QED
      BY <1>4, <2>2, <3>1 DEF AdvanceLine, bufferVars, presenterVars, TypeOK,
         Exclusive, Snapshots, Bounded, SpareUnused
  <2> QED  BY <2>1, <2>2
<1>5. ASSUME NEW p \in Presenters, CompareSeq(p)
      PROVE  IInv'
  BY <1>5 DEF CompareSeq, bufferVars, clockVars, TypeOK, Exclusive, Snapshots,
     Bounded, SpareUnused
<1>6. ASSUME NEW p \in Presenters, LatestFrameSnapshot(p)
      PROVE  IInv'
  BY <1>6, BuffersAssumption
  DEF LatestFrameSnapshot, bufferVars, clockVars, TypeOK, Exclusive, Snapshots,
      Bounded, SpareUnused
<1>7. ASSUME NEW p \in Presenters, Present(p)
      PROVE  IInv'
  <2>1. held[p] \in Buffers
    BY <1>7 DEF Present, TypeOK, Snapshots
  <2>2. shown' \in [Presenters -> Picture]
    BY <1>7, <2>1 DEF Present, TypeOK
  <2>3. TypeOK'
    BY <1>7, <2>2 DEF Present, bufferVars, clockVars, TypeOK
  <2>4. Exclusive' /\ Snapshots' /\ Bounded' /\ SpareUnused'
    BY <1>7, BuffersAssumption
    DEF Present, bufferVars, clockVars, TypeOK, Exclusive, Snapshots, Bounded,
        SpareUnused
  <2> QED  BY <2>3, <2>4
<1>8. CASE UNCHANGED vars
  BY <1>8 DEF vars, bufferVars, clockVars, presenterVars, TypeOK, Exclusive,
     Snapshots, Bounded, SpareUnused
<1> QED
  BY <1>1, <1>2, <1>3, <1>4, <1>5, <1>6, <1>7, <1>8
  DEF Next, ClockStep, PresenterStep

\* Every reachable state satisfies the inductive invariant.
THEOREM Invariance == Spec => []IInv
  BY InitIInv, NextIInv, PTL DEF Spec

\* The three buffers, the frame numbers and what presenters hold keep their types:
\* publish_completed_frame finds a buffer to work in whatever the snapshots hold.
THEOREM TypeCorrect == Spec => []TypeOK
  BY Invariance, PTL DEF IInv

\* publish_completed_frame never hands the clock thread a buffer that a
\* snapshot, the completed frame or the spare refers to.
THEOREM BuffersExclusive == Spec => []Exclusive
  BY Invariance, PTL DEF IInv

\* A presenter holds a snapshot exactly while it presents, with a number that is
\* never ahead of completed_frame_seq.
THEOREM SnapshotsConsistent == Spec => []Snapshots
  BY Invariance, PTL DEF IInv

-----------------------------------------------------------------------------
(* Memory is bounded.                                                      *)

Held == {held[p] : p \in Presenters}

\* The snapshots refer to no more buffers than there are presenters.
LEMMA HeldFinite ==
  ASSUME TypeOK
  PROVE  IsFiniteSet(Held) /\ Cardinality(Held) <= Cardinality(Presenters)
<1>1. held \in Surjection(Presenters, Held)
  BY DEF Surjection, Held, TypeOK
<1> QED  BY <1>1, FS_Surjection, PresentersAssumption

\* One more element makes a finite set at most one larger.
LEMMA AddOne ==
  ASSUME NEW S, NEW x, IsFiniteSet(S)
  PROVE  /\ IsFiniteSet(S \cup {x})
         /\ Cardinality(S) \in Nat /\ Cardinality(S \cup {x}) \in Nat
         /\ Cardinality(S \cup {x}) <= Cardinality(S) + 1
<1>1. /\ IsFiniteSet(S \cup {x})
      /\ Cardinality(S \cup {x}) =
           IF x \in S THEN Cardinality(S) ELSE Cardinality(S) + 1
  BY FS_AddElement
<1>2. Cardinality(S) \in Nat /\ Cardinality(S \cup {x}) \in Nat
  BY <1>1, FS_CardinalityType
<1> QED  BY <1>1, <1>2

\* The buffers in use fit in one per presenter and two more.
LEMMA LiveBounded ==
  ASSUME IInv
  PROVE  BoundedBuffers
<1> DEFINE n == Cardinality(Presenters)
<1>1. n \in Nat /\ n >= 1
  <2>1. n \in Nat /\ n # 0
    BY PresentersAssumption, FS_CardinalityType, FS_EmptySet
  <2> QED  BY <2>1
<1>2. CASE spare = NoBuffer
  <2> DEFINE S == Held \cup {work}
             T == S \cup {completed}
  <2>1. IsFiniteSet(Held) /\ Cardinality(Held) <= n
    BY HeldFinite DEF IInv
  <2>2. /\ IsFiniteSet(S) /\ Cardinality(S) <= Cardinality(Held) + 1
        /\ Cardinality(Held) \in Nat /\ Cardinality(S) \in Nat
    BY <2>1, AddOne
  <2>3. /\ IsFiniteSet(T) /\ Cardinality(T) <= Cardinality(S) + 1
        /\ Cardinality(T) \in Nat
    BY <2>2, AddOne
  <2>4. Live \in SUBSET T
    BY <1>2 DEF Live, Held
  <2>5. Cardinality(Live) <= Cardinality(T) /\ Cardinality(Live) \in Nat
    BY <2>3, <2>4, FS_Subset, FS_CardinalityType
  <2>6. Cardinality(Live) <= n + 2
    BY <1>1, <2>1, <2>2, <2>3, <2>5
  <2> QED  BY <2>6 DEF BoundedBuffers
<1>3. CASE spare # NoBuffer
  <2> DEFINE S == {work} \cup {completed}
             T == S \cup {spare}
  <2>1. IsFiniteSet({work}) /\ Cardinality({work}) = 1
    BY FS_Singleton
  <2>2. IsFiniteSet(S) /\ Cardinality(S) <= 2 /\ Cardinality(S) \in Nat
    <3>1. /\ IsFiniteSet(S) /\ Cardinality(S) \in Nat
          /\ Cardinality(S) <= Cardinality({work}) + 1
      BY <2>1, AddOne
    <3> HIDE DEF S
    <3> QED  BY <2>1, <3>1
  <2>3. IsFiniteSet(T) /\ Cardinality(T) <= 3 /\ Cardinality(T) \in Nat
    BY <2>2, AddOne
  <2>4. Live \in SUBSET T
    BY <1>3 DEF Live, IInv, SpareUnused
  <2>5. Cardinality(Live) <= Cardinality(T) /\ Cardinality(Live) \in Nat
    BY <2>3, <2>4, FS_Subset, FS_CardinalityType
  <2>6. Cardinality(Live) <= n + 2
    BY <1>1, <2>3, <2>5
  <2> QED  BY <2>6 DEF BoundedBuffers
<1> QED  BY <1>2, <1>3

\* However many frames are published under snapshots, and although the spare is
\* never replenished, no more than one buffer per presenter and two are alive.
THEOREM BuffersBounded == Spec => []BoundedBuffers
  BY Invariance, LiveBounded, PTL

-----------------------------------------------------------------------------
(* The buffers implement the mailbox.                                      *)

LatestBar == [seq |-> seq, pixels |-> pixels[completed]]
ScreenBar ==
  [p \in Presenters |->
     [seq |-> taken[p],
      pixels |-> IF held[p] = NoBuffer THEN shown[p] ELSE pixels[held[p]]]]

\* The initial buffers are a mailbox with a blank picture.
LEMMA InitRefines ==
  ASSUME Init
  PROVE  Mailbox!MailboxInit
<1>1. Blank \in Picture
  BY FramesAssumption DEF Blank, Picture
<1>2. LatestBar = [seq |-> 0, pixels |-> Blank]
  BY DEF Init, LatestBar
<1>3. ScreenBar = [p \in Presenters |-> [seq |-> -1, pixels |-> Blank]]
  BY DEF Init, ScreenBar
<1> QED  BY <1>1, <1>2, <1>3 DEF Mailbox!MailboxInit, LatestBar, ScreenBar

\* A step that leaves numbers and the pixels of the completed and held buffers
\* alone is a stutter of the mailbox.
LEMMA StutterRefines ==
  ASSUME LatestBar' = LatestBar, ScreenBar' = ScreenBar
  PROVE  UNCHANGED Mailbox!mailboxVars
  BY DEF Mailbox!mailboxVars, LatestBar, ScreenBar

\* Publishing is the mailbox's Publish: no presenter sees its picture change.
LEMMA PublishRefines ==
  ASSUME IInv, AdvanceLine, vcount + 1 = Height /\ latched
  PROVE  Mailbox!Publish
<1>1. PICK buffer \in NextWork :
        /\ work' = buffer
        /\ pixels' = IF buffer \in Live THEN pixels
                     ELSE [pixels EXCEPT ![buffer] = Blank]
  BY DEF AdvanceLine, PublishCompletedFrame
<1>2. completed' = work /\ seq' = seq + 1
  BY DEF AdvanceLine, PublishCompletedFrame
<1>3. /\ buffer \in Buffers /\ buffer # work
      /\ \A p \in Presenters : held[p] # buffer
  BY NextWorkFree DEF IInv
<1>4. pixels'[work] = pixels[work] /\ pixels[work] \in Picture
  BY <1>1, <1>3 DEF IInv, TypeOK
<1>5. LatestBar' = [seq |-> LatestBar.seq + 1, pixels |-> pixels[work]]
  BY <1>2, <1>4 DEF LatestBar
<1>6. ScreenBar' = ScreenBar
  <2>1. \A p \in Presenters : held[p] # NoBuffer => pixels'[held[p]] = pixels[held[p]]
    BY <1>1, <1>3 DEF IInv, TypeOK
  <2> QED  BY <2>1 DEF ScreenBar, AdvanceLine, presenterVars
<1> QED  BY <1>4, <1>5, <1>6 DEF Mailbox!Publish, LatestBar, ScreenBar

\* Taking a snapshot is the mailbox's Show.
LEMMA SnapshotRefines ==
  ASSUME IInv, NEW p \in Presenters, LatestFrameSnapshot(p)
  PROVE  Mailbox!Show(p)
<1>1. LatestBar' = LatestBar
  BY DEF LatestFrameSnapshot, bufferVars, LatestBar
<1>2. taken[p] < seq
  BY DEF LatestFrameSnapshot, IInv, TypeOK, Snapshots
<1>3. ScreenBar' = [ScreenBar EXCEPT ![p] = LatestBar]
  BY BuffersAssumption
  DEF LatestFrameSnapshot, bufferVars, LatestBar, ScreenBar, IInv, TypeOK
<1>4. ScreenBar[p].seq < LatestBar.seq
  BY <1>2 DEF ScreenBar, LatestBar
<1> QED  BY <1>1, <1>3, <1>4 DEF Mailbox!Show, LatestBar, ScreenBar

\* Every step of the buffers is a step of the mailbox or changes nothing of it.
LEMMA NextRefines ==
  ASSUME IInv, [Next]_vars
  PROVE  [Mailbox!MailboxNext]_(Mailbox!mailboxVars)
<1>1. CASE ChangeNeeds \/ LatchNeeds \/ UNCHANGED vars
  BY <1>1, StutterRefines
  DEF ChangeNeeds, LatchNeeds, vars, bufferVars, presenterVars, LatestBar,
      ScreenBar
<1>2. CASE RenderScanline
  <2>1. \A b \in Buffers : b # work => pixels'[b] = pixels[b]
    BY <1>2 DEF RenderScanline, IInv, TypeOK
  <2>2. LatestBar' = LatestBar
    BY <1>2, <2>1 DEF RenderScanline, LatestBar, IInv, TypeOK, Exclusive
  <2>3. ScreenBar' = ScreenBar
    BY <1>2, <2>1
    DEF RenderScanline, presenterVars, ScreenBar, IInv, TypeOK, Exclusive
  <2> QED  BY <2>2, <2>3, StutterRefines
<1>3. CASE AdvanceLine
  <2>1. CASE vcount + 1 = Height /\ latched
    BY <1>3, <2>1, PublishRefines DEF Mailbox!MailboxNext
  <2>2. CASE ~(vcount + 1 = Height /\ latched)
    BY <1>3, <2>2, StutterRefines
    DEF AdvanceLine, bufferVars, presenterVars, LatestBar, ScreenBar
  <2> QED  BY <2>1, <2>2
<1>4. ASSUME NEW p \in Presenters, CompareSeq(p)
      PROVE  UNCHANGED Mailbox!mailboxVars
  BY <1>4, StutterRefines DEF CompareSeq, bufferVars, LatestBar, ScreenBar
<1>5. ASSUME NEW p \in Presenters, LatestFrameSnapshot(p)
      PROVE  Mailbox!MailboxNext
  BY <1>5, SnapshotRefines DEF Mailbox!MailboxNext
<1>6. ASSUME NEW p \in Presenters, Present(p)
      PROVE  UNCHANGED Mailbox!mailboxVars
  <2>1. LatestBar' = LatestBar
    BY <1>6 DEF Present, bufferVars, LatestBar
  <2>2. ScreenBar' = ScreenBar
    BY <1>6 DEF Present, bufferVars, ScreenBar, IInv, TypeOK, Snapshots
  <2> QED  BY <2>1, <2>2, StutterRefines
<1> QED
  BY <1>1, <1>2, <1>3, <1>4, <1>5, <1>6 DEF Next, ClockStep, PresenterStep

\* kgba's buffers implement the mailbox: a presenter gets the latest frame whole,
\* with its own number, never twice, and unchanged while it holds it.
THEOREM BuffersImplementMailbox == Spec => ImplementsMailbox
<1>1. Init => Mailbox!MailboxInit
  BY InitRefines
<1>2. IInv /\ [Next]_vars => [Mailbox!MailboxNext]_(Mailbox!mailboxVars)
  BY NextRefines
<1> QED
  BY <1>1, <1>2, Invariance, PTL
  DEF Spec, ImplementsMailbox, Mailbox!MailboxSpec
=============================================================================

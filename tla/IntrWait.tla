------------------------------ MODULE IntrWait ------------------------------
(***************************************************************************)
(* The BIOS services that wait for an interrupt (swi 4 and 5), with the    *)
(* interrupts that arrive meanwhile.  There is one processor; what can     *)
(* come between two instructions is an interrupt, whose handler is the     *)
(* guest's own: it acknowledges interrupts, sets their bits in the wait    *)
(* flags, and may call the BIOS itself.  Names that BiosDiv has too begin  *)
(* with Wait here, since BiosProofs is about both.                         *)
(***************************************************************************)
EXTENDS FiniteSets

CONSTANTS
  Interrupts,   \* the bits of IF the guest uses
  Vblank        \* the interrupt swi 5 waits for

ASSUME InterruptsAssumption == IsFiniteSet(Interrupts) /\ Vblank \in Interrupts

VARIABLES
  place,     \* where the processor is, but for interrupt handlers
  masked,    \* the I bit of CPSR: no interrupt is taken
  spsr,      \* the I bit of the supervisor mode's SPSR
  saved,     \* the SPSR that the service has pushed
  wanted,    \* r1: the interrupts waited for
  read,      \* r3: the wait flags as they were read
  flags,     \* the wait flags in memory
  pending,   \* interrupts raised and not acknowledged
  discard,   \* history: the service was told to discard old flags
  since,     \* history: interrupts handled since the service was called
  caller     \* history: the I bit the program had when it called

waitVars ==
  <<place, masked, spsr, saved, wanted, read, flags, pending, discard, since, caller>>

WaitInit ==
  /\ place = "program"
  /\ masked \in BOOLEAN /\ spsr = FALSE /\ saved = FALSE
  /\ wanted = {} /\ read = {} /\ flags = {} /\ pending = {}
  /\ discard = FALSE /\ since = {} /\ caller = masked

Raise(i) ==
  /\ i \notin pending
  /\ pending' = pending \cup {i}
  /\ UNCHANGED <<place, masked, spsr, saved, wanted, read, flags, discard, since,
                 caller>>

\* irq_handler and the guest's handler: some of the pending interrupts are
\* acknowledged and flagged; a call of the BIOS in it overwrites SPSR.
Handle(acked) ==
  /\ ~masked
  /\ acked # {} /\ acked \subseteq pending
  /\ pending' = pending \ acked
  /\ flags' = flags \cup acked
  /\ since' = since \cup acked
  /\ spsr' \in BOOLEAN
  /\ UNCHANGED <<place, masked, saved, wanted, read, discard, caller>>

\* The program masks or unmasks interrupts, or clears flags itself.
Program ==
  /\ place = "program"
  /\ \/ masked' = ~masked /\ UNCHANGED flags
     \/ flags' \in SUBSET flags /\ UNCHANGED masked
  /\ UNCHANGED <<place, spsr, saved, wanted, read, pending, discard, since, caller>>

\* Mutant: interrupts are taken while the flags are cleared.
WaitCallUnmasked(old, mask) ==
  /\ place = "program"
  /\ place' = IF old THEN "enable" ELSE "read"
  /\ spsr' = masked /\ saved' = masked /\ caller' = masked
  /\ wanted' = mask /\ discard' = ~old
  /\ since' = {}
  /\ UNCHANGED <<masked, read, flags, pending>>

\* The call: the processor masks interrupts and keeps CPSR in SPSR, the service
\* pushes it; r0 says whether old flags count, r1 what to wait for.
WaitCall(old, mask) ==
  /\ place = "program"
  /\ place' = IF old THEN "enable" ELSE "read"
  /\ masked' = TRUE
  /\ spsr' = masked /\ saved' = masked /\ caller' = masked
  /\ wanted' = mask /\ discard' = ~old
  /\ since' = {}
  /\ UNCHANGED <<read, flags, pending>>

\* Old flags are cleared: a load, a bit clear and a store.
ReadFlags ==
  /\ place = "read"
  /\ place' = "write"
  /\ read' = flags
  /\ UNCHANGED <<masked, spsr, saved, wanted, flags, pending, discard, since,
                 caller>>

\* Mutant: the old flags are left as they are.
WriteFlagsBack ==
  /\ place = "write"
  /\ place' = "enable"
  /\ flags' = read
  /\ UNCHANGED <<masked, spsr, saved, wanted, read, pending, discard, since,
                 caller>>

WriteFlags ==
  /\ place = "write"
  /\ place' = "enable"
  /\ flags' = read \ wanted
  /\ UNCHANGED <<masked, spsr, saved, wanted, read, pending, discard, since,
                 caller>>

\* Mutant: interrupts stay masked in the loop.
EnableNot ==
  /\ place = "enable"
  /\ place' = "poll"
  /\ UNCHANGED <<masked, spsr, saved, wanted, read, flags, pending, discard,
                 since, caller>>

\* intr_wait_loop: interrupts on.
Enable ==
  /\ place = "enable"
  /\ place' = "poll"
  /\ masked' = FALSE
  /\ UNCHANGED <<spsr, saved, wanted, read, flags, pending, discard, since,
                 caller>>

\* intr_wait_poll: the flags are read until one of those wanted is set.
Poll ==
  /\ place = "poll"
  /\ flags \cap wanted # {}
  /\ place' = "leave"
  /\ UNCHANGED <<masked, spsr, saved, wanted, read, flags, pending, discard,
                 since, caller>>

\* Interrupts off, and SPSR popped.
Leave ==
  /\ place = "leave"
  /\ place' = "restore"
  /\ masked' = TRUE
  /\ UNCHANGED <<spsr, saved, wanted, read, flags, pending, discard, since,
                 caller>>

\* Mutant: SPSR is not put back.
RestoreNot ==
  /\ place = "restore"
  /\ place' = "return"
  /\ UNCHANGED <<masked, spsr, saved, wanted, read, flags, pending, discard,
                 since, caller>>

Restore ==
  /\ place = "restore"
  /\ place' = "return"
  /\ spsr' = saved
  /\ UNCHANGED <<masked, saved, wanted, read, flags, pending, discard, since,
                 caller>>

\* movs pc, lr: CPSR is SPSR again.
WaitReturn ==
  /\ place = "return"
  /\ place' = "back"
  /\ masked' = spsr
  /\ UNCHANGED <<spsr, saved, wanted, read, flags, pending, discard, since,
                 caller>>

\* The program goes on.
GoOn ==
  /\ place = "back"
  /\ place' = "program"
  /\ UNCHANGED <<masked, spsr, saved, wanted, read, flags, pending, discard,
                 since, caller>>

WaitService ==
  ReadFlags \/ WriteFlags \/ Enable \/ Poll \/ Leave \/ Restore \/ WaitReturn \/ GoOn

\* swi 4 waits for what r1 says, swi 5 for the VBLANK interrupt, anew.
IntrWaitCall == \E old \in BOOLEAN, mask \in SUBSET Interrupts : WaitCall(old, mask)
VBlankIntrWaitCall == WaitCall(FALSE, {Vblank})

WaitNext ==
  \/ \E i \in Interrupts : Raise(i)
  \/ \E acked \in SUBSET Interrupts : Handle(acked)
  \/ Program \/ IntrWaitCall \/ VBlankIntrWaitCall \/ WaitService

WaitSpec == WaitInit /\ [][WaitNext]_waitVars

\* The processor runs, the clock raises VBLANK again and again, and the guest's
\* handler serves it in the end when it is pending and not masked.
FairWaitSpec ==
  /\ WaitSpec
  /\ WF_waitVars(WaitService)
  /\ WF_waitVars(Raise(Vblank))
  /\ WF_waitVars(\E acked \in SUBSET Interrupts : Vblank \in acked /\ Handle(acked))

-----------------------------------------------------------------------------

\* The types of the variables.
WaitTypeOK ==
  /\ place \in {"program", "read", "write", "enable", "poll", "leave", "restore",
             "return", "back"}
  /\ masked \in BOOLEAN /\ spsr \in BOOLEAN /\ saved \in BOOLEAN
  /\ wanted \subseteq Interrupts /\ read \subseteq Interrupts
  /\ flags \subseteq Interrupts /\ pending \subseteq Interrupts
  /\ discard \in BOOLEAN /\ since \subseteq Interrupts /\ caller \in BOOLEAN

InService == place \notin {"program", "back"}

\* While the service clears old flags, polls and leaves, the flag of no
\* interrupt handled meanwhile is lost: the load and the store that clear old
\* ones are never apart for a handler.
NoFlagLost == InService => since \subseteq flags

\* The service returns only when one of the interrupts waited for is flagged,
\* and, told to discard old flags, only when one was handled after the call.
WaitsForNew ==
  place \in {"leave", "restore", "return"} =>
    /\ flags \cap wanted # {}
    /\ discard => since \cap wanted # {}

\* The program goes on with interrupts masked as it had them, although a handler
\* that runs inside the service may call the BIOS, which overwrites SPSR.
MaskRestored == place = "back" => masked = caller

\* A program that waits for VBLANK goes on: no flag set between the check and
\* the wait is missed, and interrupts are on while it waits.
WaitReturns == (InService /\ Vblank \in wanted) ~> (place = "program")
=============================================================================

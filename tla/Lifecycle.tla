----------------------------- MODULE Lifecycle -----------------------------
(***************************************************************************)
(* How kgba starts and ends (main.rs): the KVM machine is created part by  *)
(* part, three threads are started that nobody joins, SDL calls back on a  *)
(* thread of its own, and the main thread returns, which ends the process. *)
(* Threads are told to stop by a flag, which the KVM thread sets as well   *)
(* when it fails.  What the threads do in between is in other modules;     *)
(* here only which resources they use is left of it.  No thread panics.    *)
(***************************************************************************)
EXTENDS Sequences, FiniteSets, SequencesExt

VARIABLES
  options,    \* --software, --headless, --duration-ms
  main,       \* where the main thread is
  threads,    \* where the KVM, VCOUNT and PCM threads are
  held,       \* resources that exist
  stop,       \* the AtomicBool
  elapsed,    \* the duration is over (without one: 500 ms)
  quit,       \* an SDL_QUIT is in the event queue
  callback,   \* audio_callback is running
  failed      \* machine.run returned an error

vars == <<options, main, threads, held, stop, elapsed, quit, callback, failed>>

\* KvmGba::new acquires them in this order; the mappings of the slots are one.
MachineParts == <<"kvm_fd", "vm_fd", "slots", "vcpu_fd", "run">>

\* Mutant: MemoryRegion's drop unmaps.
KvmDropsSlots == <<"kvm_fd", "vm_fd", "vcpu_fd", "run", "slots">>

\* The fields of KvmGba in the order of their declaration; slots stay mapped.
KvmDrops == <<"kvm_fd", "vm_fd", "vcpu_fd", "run">>

\* Locals of run_kvm in reverse order: _audio (its device, its state), video.
MainDrops == <<"device", "audio_state", "video">>

FirstHeld(order) == Head(SelectSeq(order, LAMBDA r : r \in held))
HasHeld(order) == ToSet(order) \cap held # {}

At(thread, place) == threads[thread] = place
Move(thread, place) == threads' = [threads EXCEPT ![thread] = place]
Go(place) == main' = place

-----------------------------------------------------------------------------
(* The main thread.                                                        *)

Init ==
  /\ options \in [software : BOOLEAN, headless : BOOLEAN, timed : BOOLEAN]
  /\ main = IF options.software THEN "run_until_frame" ELSE "create"
  /\ threads = [t \in {"kvm", "vcount", "pcm"} |-> "none"]
  /\ held = {} /\ stop = FALSE /\ failed = FALSE
  /\ elapsed = FALSE /\ quit = FALSE /\ callback = FALSE

\* KvmGba::new: each part may fail, and the setup of the vCPU after the last; what
\* there is is dropped then.
Create ==
  /\ main = "create"
  /\ \/ /\ ToSet(MachineParts) \ held # {}
        /\ held' = held \cup {Head(SelectSeq(MachineParts, LAMBDA r : r \notin held))}
        /\ Go("create")
     \/ ToSet(MachineParts) \subseteq held /\ Go("spawn") /\ UNCHANGED held
     \/ held' = held \cap {"slots"} /\ Go("drop")
  /\ UNCHANGED <<options, threads, stop, elapsed, quit, callback, failed>>

\* run_kvm starts one thread after the other.
Spawn ==
  /\ main = "spawn"
  /\ \E t \in {"kvm", "vcount", "pcm"} :
       /\ t = Head(SelectSeq(<<"kvm", "vcount", "pcm">>, LAMBDA u : At(u, "none")))
       /\ Move(t, "check")
       /\ Go(IF t # "pcm" THEN "spawn"
             ELSE IF options.headless THEN "script" ELSE "open_video")
  /\ UNCHANGED <<options, held, stop, elapsed, quit, callback, failed>>

\* run_headless_input_script, then the report of the last frame.
Headless ==
  /\ \/ main = "script" /\ elapsed /\ Go("report")
     \/ main = "report" /\ Go("stop")
  /\ UNCHANGED <<options, threads, held, stop, elapsed, quit, callback, failed>>

\* run_software: run_until_frame has a limit, and may end with an error.
Software ==
  /\ main = "run_until_frame"
  /\ \/ Go(IF options.headless THEN "drop" ELSE "open_video")
     \/ Go("drop")
  /\ UNCHANGED <<options, threads, held, stop, elapsed, quit, callback, failed>>

\* Video::new.
OpenVideo ==
  /\ main = "open_video"
  /\ \/ held' = held \cup {"video"} /\ Go(IF options.software THEN "present" ELSE "init_audio")
     \/ Go("drop") /\ UNCHANGED held
  /\ UNCHANGED <<options, threads, stop, elapsed, quit, callback, failed>>

\* Audio::new: SDL_Init, the state, the device, which frees the state if it fails.
OpenAudio ==
  /\ \/ main = "init_audio" /\ held' = held \cup {"audio_state"} /\ Go("open_audio")
     \/ main = "init_audio" /\ Go("drop") /\ UNCHANGED held
     \/ main = "open_audio" /\ held' = held \cup {"device"} /\ Go("loop")
     \/ main = "open_audio" /\ held' = held \ {"audio_state"} /\ Go("drop")
  /\ UNCHANGED <<options, threads, stop, elapsed, quit, callback, failed>>

\* One round of the loop with a duration, which drops the events it polls; of
\* run_frame_loop; of run_until_quit, which polls only after 500 ms; and the sleep
\* of run_software.
Loop ==
  /\ \/ /\ main = "loop" /\ options.timed
        /\ Go(IF elapsed THEN "stop" ELSE "present")
        /\ quit' = (quit /\ elapsed)
     \/ /\ main = "loop" /\ ~options.timed
        /\ Go(IF quit THEN "stop" ELSE "present")
        /\ quit' = FALSE
     \/ /\ main = "until_quit"
        /\ Go(IF elapsed /\ quit THEN "drop" ELSE "present")
        /\ quit' = (quit /\ ~elapsed)
     \/ main = "sleep" /\ elapsed /\ Go("drop") /\ UNCHANGED quit
  /\ UNCHANGED <<options, threads, held, stop, elapsed, callback, failed>>

\* present_timed; an error leaves the loop with a duration without setting stop.
Present ==
  /\ main = "present"
  /\ \/ Go(CASE ~options.software -> "loop" [] options.timed -> "sleep" [] OTHER -> "until_quit")
     \/ Go(IF options.software \/ options.timed THEN "drop" ELSE "stop")
  /\ UNCHANGED <<options, threads, held, stop, elapsed, quit, callback, failed>>

StoreStop ==
  /\ main = "stop"
  /\ stop' = TRUE /\ Go("drop")
  /\ UNCHANGED <<options, threads, held, elapsed, quit, callback, failed>>

\* Returning drops the locals, the device first: SDL_CloseAudioDevice starts no
\* callback any more and waits for the one that runs.
CloseDevice ==
  /\ \/ main = "drop" /\ HasHeld(MainDrops) /\ FirstHeld(MainDrops) = "device" /\ Go("closing") /\ UNCHANGED held
     \/ main = "closing" /\ ~callback /\ held' = held \ {"device"} /\ Go("drop")
  /\ UNCHANGED <<options, threads, stop, elapsed, quit, callback, failed>>

Drop ==
  /\ main = "drop" /\ HasHeld(MainDrops) /\ FirstHeld(MainDrops) # "device"
  /\ held' = held \ {FirstHeld(MainDrops)}
  /\ UNCHANGED <<options, main, threads, stop, elapsed, quit, callback, failed>>

\* The end of main ends the process and its threads, wherever they are.
Exit ==
  /\ main = "drop" /\ ~HasHeld(MainDrops)
  /\ Go("exited")
  /\ threads' = [t \in DOMAIN threads |-> "ended"]
  /\ held' = {} /\ callback' = FALSE
  /\ UNCHANGED <<options, stop, elapsed, quit, failed>>

Main ==
  \/ Create \/ Spawn \/ Headless \/ Software \/ OpenVideo \/ OpenAudio \/ Loop
  \/ Present \/ StoreStop \/ CloseDevice \/ Drop \/ Exit

-----------------------------------------------------------------------------
(* The other threads.                                                      *)

\* KvmGba::run looks at the flag before each KVM_RUN.
KvmCheck ==
  /\ At("kvm", "check")
  /\ Move("kvm", IF stop THEN "drop" ELSE "kvm_run")
  /\ UNCHANGED <<options, main, held, stop, elapsed, quit, callback, failed>>

\* KVM_RUN returns: nothing makes it.
KvmReturns ==
  /\ At("kvm", "kvm_run") /\ Move("kvm", "exit")
  /\ UNCHANGED <<options, main, held, stop, elapsed, quit, callback, failed>>

\* The exit is handled (MMIO, a BIOS write, an exit that is ignored) or an error.
KvmExit ==
  /\ At("kvm", "exit")
  /\ \/ Move("kvm", "check") /\ UNCHANGED failed
     \/ Move("kvm", "drop") /\ failed' = TRUE
  /\ UNCHANGED <<options, main, held, stop, elapsed, quit, callback>>

\* machine.run owns the machine: its fields are dropped before it has returned.
KvmDrop ==
  /\ At("kvm", "drop")
  /\ IF HasHeld(KvmDrops)
     THEN held' = held \ {FirstHeld(KvmDrops)} /\ UNCHANGED threads
     ELSE Move("kvm", IF failed THEN "report" ELSE "ended") /\ UNCHANGED held
  /\ UNCHANGED <<options, main, stop, elapsed, quit, callback, failed>>

\* Mutant: the error is only printed.
KvmReportOnly ==
  /\ At("kvm", "report") /\ Move("kvm", "ended")
  /\ UNCHANGED <<options, main, held, stop, elapsed, quit, callback, failed>>

\* The error is printed and kvm_error_stop set.
KvmReport ==
  /\ At("kvm", "report") /\ Move("kvm", "ended")
  /\ stop' = TRUE
  /\ UNCHANGED <<options, main, held, elapsed, quit, callback, failed>>

\* run_vcount_clock: the line, the wait for HBLANK, HBLANK and the wait for the
\* next line, which is short; the waits end early when the flag is set.
VcountClock ==
  /\ \/ At("vcount", "check") /\ Move("vcount", IF stop THEN "ended" ELSE "line")
     \/ At("vcount", "line") /\ Move("vcount", "hdraw")
     \/ At("vcount", "hdraw") /\ Move("vcount", IF stop THEN "ended" ELSE "hblank")
     \/ At("vcount", "hblank") /\ Move("vcount", "check")
  /\ UNCHANGED <<options, main, held, stop, elapsed, quit, callback, failed>>

\* run_audio_clock.
AudioClock ==
  /\ \/ At("pcm", "check") /\ Move("pcm", IF stop THEN "ended" ELSE "tick")
     \/ At("pcm", "tick") /\ Move("pcm", "check")
  /\ UNCHANGED <<options, main, held, stop, elapsed, quit, callback, failed>>

-----------------------------------------------------------------------------
(* SDL, the user and time.                                                 *)

\* SDL calls audio_callback while the device is open and not being closed.
CallbackStarts ==
  /\ "device" \in held /\ main # "closing" /\ ~callback
  /\ callback' = TRUE
  /\ UNCHANGED <<options, main, threads, held, stop, elapsed, quit, failed>>
CallbackEnds ==
  /\ callback /\ callback' = FALSE
  /\ UNCHANGED <<options, main, threads, held, stop, elapsed, quit, failed>>

Quit ==
  /\ "video" \in held /\ ~quit /\ quit' = TRUE
  /\ UNCHANGED <<options, main, threads, held, stop, elapsed, callback, failed>>

\* Time runs from the script or the first round of a loop on.
Elapse ==
  /\ main \in {"script", "loop", "present", "sleep", "until_quit"}
  /\ ~elapsed /\ elapsed' = TRUE
  /\ UNCHANGED <<options, main, threads, held, stop, quit, callback, failed>>

Next ==
  \/ Main
  \/ KvmCheck \/ KvmReturns \/ KvmExit \/ KvmDrop \/ KvmReport
  \/ VcountClock \/ AudioClock
  \/ CallbackStarts \/ CallbackEnds \/ Quit \/ Elapse

\* Threads are scheduled and time passes; KVM_RUN need not return, nor the user quit.
Fairness ==
  /\ WF_vars(Main)
  /\ WF_vars(KvmCheck) /\ WF_vars(KvmExit) /\ WF_vars(KvmDrop) /\ WF_vars(KvmReport)
  /\ WF_vars(VcountClock) /\ WF_vars(AudioClock)
  /\ WF_vars(CallbackEnds) /\ WF_vars(Elapse)

Spec == Init /\ [][Next]_vars /\ Fairness

-----------------------------------------------------------------------------
(* Properties.                                                             *)

\* What is being used: by main the views of the slots and the window, by the KVM
\* thread the vCPU, by all who raise interrupts the raw vm_fd of the InterruptLine.
InUse ==
  UNION {IF main \in {"report", "loop", "present"} /\ ~options.software THEN {"slots"} ELSE {},
         IF main = "present" THEN {"video"} ELSE {},
         IF callback THEN {"audio_state", "slots"} ELSE {},
         IF At("kvm", "kvm_run") THEN {"vcpu_fd", "run", "slots"} ELSE {},
         IF At("kvm", "exit") THEN {"vcpu_fd", "run", "slots", "vm_fd"} ELSE {},
         IF threads["vcount"] \in {"line", "hblank"} THEN {"slots", "vm_fd"} ELSE {},
         IF At("pcm", "tick") THEN {"slots", "vm_fd"} ELSE {}}

\* No thread uses what another has freed: neither the views of guest memory after the
\* KVM thread has ended ("Shared VRAM/IO views can outlive the KVM thread",
\* kvm/memory.rs:154) nor the audio state after the window's loop, whichever way main
\* leaves it.  The one exception is the descriptor of the VM, which a clock may use
\* after the KVM thread has closed it (KvmGba's fields, InterruptLine.vm_fd).
NothingFreedInUse ==
  \A r \in InUse :
    r \in held \/ (r = "vm_fd" /\ threads["kvm"] \in {"drop", "report", "ended"})

\* With a duration or without a window the process exits by itself, and otherwise
\* when the user quits, even if KVM_RUN never returns; and an error of the KVM thread
\* ends the clocks (run_kvm, run_software, stop).
RunEnds ==
  /\ (options.headless \/ options.timed) ~> (main = "exited")
  /\ (quit /\ ~options.timed) ~> (main = "exited")
  /\ failed ~> (At("vcount", "ended") /\ At("pcm", "ended"))
=============================================================================

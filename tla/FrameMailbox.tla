---------------------------- MODULE FrameMailbox ----------------------------
(***************************************************************************)
(* What the frame buffers of kgba promise to whoever presents frames: one  *)
(* producer replaces the latest frame, and a presenter that looks takes    *)
(* the latest frame whole, never twice, and keeps it unchanged until it    *)
(* takes a newer one.  No buffers, no reuse, no lock.                      *)
(***************************************************************************)
EXTENDS Integers

CONSTANTS
  Presenters,   \* who shows frames (one thread in kgba)
  Pixels        \* the pictures a frame may hold

VARIABLES
  latest,       \* the newest frame: its number and its pixels
  screen        \* what each presenter took last

mailboxVars == <<latest, screen>>

\* Before its first frame a presenter shows the initial picture as number -1.
MailboxInit ==
  \E pixels \in Pixels :
    /\ latest = [seq |-> 0, pixels |-> pixels]
    /\ screen = [p \in Presenters |-> [seq |-> -1, pixels |-> pixels]]

Publish ==
  /\ \E pixels \in Pixels : latest' = [seq |-> latest.seq + 1, pixels |-> pixels]
  /\ UNCHANGED screen

Show(p) ==
  /\ screen[p].seq < latest.seq
  /\ screen' = [screen EXCEPT ![p] = latest]
  /\ UNCHANGED latest

MailboxNext == Publish \/ \E p \in Presenters : Show(p)

MailboxSpec == MailboxInit /\ [][MailboxNext]_mailboxVars
=============================================================================

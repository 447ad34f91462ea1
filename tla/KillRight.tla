----------------------------- MODULE KillRight -----------------------------
(***************************************************************************)
(* What the shared claim promises, without a lock, a claim state or a      *)
(* retry: of all the parties that may kill the child's process group, at   *)
(* most one kill ever lands, and a reader's never lands after the session  *)
(* has recorded the child's reap.                                          *)
(***************************************************************************)
EXTENDS Sequences

CONSTANTS Session, Reader

VARIABLES
    landed,   \* who issued each kill the kernel accepted, in order
    reaped    \* whether the session has recorded the reap

vars == <<landed, reaped>>

TypeOK == /\ landed \in Seq({Session, Reader})
          /\ reaped \in BOOLEAN

Init == landed = <<>> /\ reaped = FALSE

Kill(who) == /\ landed = <<>>
             /\ who = Reader => ~reaped
             /\ landed' = <<who>>
             /\ UNCHANGED reaped

RecordReap == /\ ~reaped
              /\ reaped' = TRUE
              /\ UNCHANGED landed

Next == RecordReap \/ \E who \in {Session, Reader} : Kill(who)

Spec == Init /\ [][Next]_vars
=============================================================================

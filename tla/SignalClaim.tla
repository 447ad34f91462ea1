---------------------------- MODULE SignalClaim ----------------------------
(***************************************************************************)
(* The transition rules of `ClaimState` (src/command/signal.rs): how much  *)
(* of the right to kill a child's process group is left, and what each     *)
(* use of it leaves.                                                       *)
(***************************************************************************)
CONSTANTS Session, Reader    \* the two Signaller variants

Signallers  == {Session, Reader}
ClaimStates == {"Unsignalled", "Signalled", "Reaped", "Sealed"}

\* Faulty variants: a reader may still signal after the reap; a reader may not
\* signal at all; the reap spends the session's last kill.
MaySignalAfterReap(state, who) == state \in {"Unsignalled", "Reaped"}
MaySignalSessionOnly(state, who) == who = Session /\ state \in {"Unsignalled", "Reaped"}
ClaimSealedByReap(state) == "Sealed"

\* The cases in which next_state answers Some(_).
MaySignal(state, who) ==
    \/ state = "Unsignalled"
    \/ state = "Reaped" /\ who = Session

\* What next_state answers when it answers Some(_).
NextClaim(state) == IF state = "Unsignalled" THEN "Signalled" ELSE "Sealed"

\* What mark_reaped leaves of the claim.
ClaimAfterReap(state) == IF state = "Unsignalled" THEN "Reaped" ELSE "Sealed"
=============================================================================

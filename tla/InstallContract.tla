-------------------------- MODULE InstallContract ---------------------------
(***************************************************************************)
(* What an install promises the client that asks for it, with no network,  *)
(* no threads and no writer in it: it ends installed only with the whole   *)
(* artifact in the slot, and from then on nothing touches the slot until   *)
(* the next install.  After a failure the slot is not to be relied on: the *)
(* last write may still be under way.                                      *)
(***************************************************************************)
EXTENDS Integers

VARIABLES
  slot,    \* the cells of the slot
  wanted,  \* the artifact to be installed: what each of its cells holds,
  size,    \* and how many there are
  state    \* "idle", "installing", "installed", "failed"

installVars == <<slot, wanted, size, state>>

Whole == \A i \in 0..(size - 1) : slot[i] = wanted

InstallInit == state = "idle"

\* It may fail at once.
Start == state # "installing" /\ state' \in {"installing", "failed"}

Work ==
  /\ state \in {"installing", "failed"}
  /\ UNCHANGED <<wanted, size, state>>

Succeed ==
  /\ state = "installing"
  /\ Whole
  /\ state' = "installed"
  /\ UNCHANGED <<slot, wanted, size>>

Fail ==
  /\ state = "installing"
  /\ state' = "failed"
  /\ UNCHANGED <<wanted, size>>

\* A restart ends any write.
Restart == state' = "idle" /\ UNCHANGED slot

InstallNext == Start \/ Work \/ Succeed \/ Fail \/ Restart

InstallSpec == InstallInit /\ [][InstallNext]_installVars
=============================================================================

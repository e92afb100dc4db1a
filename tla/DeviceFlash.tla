---------------------------- MODULE DeviceFlash ----------------------------
(***************************************************************************)
(* What survives a reset of the device: the two image slots with their     *)
(* MCUboot trailers, and the application-state partition in which the      *)
(* hawkBit client keeps its pair of action ids (struct                     *)
(* hawkbit_device_acid).  The flash driver, the mcuboot.h calls and the    *)
(* boot loader itself are outside the repository: they are modelled here   *)
(* by what src/lib/hawkbit.c relies on when it calls them.                 *)
(*                                                                         *)
(* The image that action a deploys is called a.  An operation on flash     *)
(* that reports an error may have done part of its work.                   *)
(***************************************************************************)
CONSTANTS
  Actions,  \* the hawkBit action ids of the deployments
  Factory,  \* the image the device was programmed with
  Junk,     \* slot content no boot loader accepts: erased, partial, corrupt
  Erased    \* an erased id word, 0xFFFFFFFF (compared with -1 in the code)

ASSUME FlashAssumption ==
  /\ Factory \notin Actions
  /\ Junk \notin Actions \cup {Factory}
  /\ Erased \notin Actions

VARIABLES
  slot0,     \* the running image
  slot1,     \* the content of the second slot
  image_ok,  \* slot 0: "unset" as programmed, "trial" after a test swap,
             \* "confirmed" once its image_ok flag is written
  upgrade,   \* slot 1's trailer requests a test swap at the next reset
  acid       \* the pair of action ids on flash

flashVars == <<slot0, slot1, image_ok, upgrade, acid>>

Image == Actions \cup {Factory}
AcidWord == Actions \cup {Erased}
Acid == [current : AcidWord, update : AcidWord]
BlankAcid == [current |-> Erased, update |-> Erased]

FlashTypeOK ==
  /\ slot0 \in Image \cup {Junk}
  /\ slot1 \in Image \cup {Junk}
  /\ image_ok \in {"unset", "trial", "confirmed"}
  /\ upgrade \in BOOLEAN
  /\ acid \in Acid

FlashInit ==
  /\ slot0 = Factory
  /\ slot1 = Junk
  /\ image_ok = "unset"
  /\ upgrade = FALSE
  /\ acid = BlankAcid

\* boot_write_img_confirmed.
WriteConfirmed(ok) ==
  /\ image_ok' = IF ok THEN "confirmed" ELSE image_ok
  /\ UNCHANGED <<slot0, slot1, upgrade, acid>>

\* Erase of slot 1, whose last bytes are the trailer; a failed erase may
\* have destroyed the image and left the trailer.
EraseSlot1(ok) ==
  /\ slot1' \in IF ok THEN {Junk} ELSE {slot1, Junk}
  /\ upgrade' = (upgrade /\ ~ok)
  /\ UNCHANGED <<slot0, image_ok, acid>>

\* The content that a download leaves in slot 1.
FillSlot1(content) ==
  /\ slot1' = content
  /\ UNCHANGED <<slot0, image_ok, upgrade, acid>>

\* boot_request_upgrade(false).
RequestUpgrade(ok) ==
  /\ upgrade' = (upgrade \/ ok)
  /\ UNCHANGED <<slot0, slot1, image_ok, acid>>

\* Erase of the application-state partition, both ids with it.
EraseAcid(ok) ==
  /\ acid' \in IF ok THEN {BlankAcid} ELSE {acid, BlankAcid}
  /\ UNCHANGED <<slot0, slot1, image_ok, upgrade>>

\* Write of both ids, word after word, to the erased partition.
WriteAcid(new, ok) ==
  /\ acid' \in IF ok THEN {new} ELSE {acid, [acid EXCEPT !.current = new.current]}
  /\ UNCHANGED <<slot0, slot1, image_ok, upgrade>>

-----------------------------------------------------------------------------
\* The boot loader at a reset: it swaps the slots for a test when that was
\* requested and the image in slot 1 verifies, and otherwise swaps back an
\* image that was on trial and never confirmed.

TestSwap ==
  /\ upgrade
  /\ slot1 # Junk
  /\ slot0' = slot1
  /\ slot1' = slot0
  /\ image_ok' = "trial"
  /\ upgrade' = FALSE

RejectUpgrade ==
  /\ upgrade
  /\ slot1 = Junk
  /\ upgrade' = FALSE
  /\ UNCHANGED <<slot0, slot1, image_ok>>

Revert ==
  /\ ~upgrade
  /\ image_ok = "trial"
  /\ slot0' = slot1
  /\ slot1' = slot0
  /\ image_ok' = "confirmed"
  /\ UNCHANGED upgrade

PlainBoot ==
  /\ ~upgrade
  /\ image_ok # "trial"
  /\ UNCHANGED <<slot0, slot1, image_ok, upgrade>>

BootLoader ==
  /\ TestSwap \/ RejectUpgrade \/ Revert \/ PlainBoot
  /\ UNCHANGED acid
=============================================================================

------------------------- MODULE HawkbitFaultProofs -------------------------
(***************************************************************************)
(* Proofs about Hawkbit that depend on what can go wrong.  Each property   *)
(* is proved under the weakest assumption on the faults and on the number  *)
(* of actions the server has open, and on whether there are deployments    *)
(* that the JSON parser has no room for: where a theorem of this module    *)
(* excludes a combination of these, TLC finds the property violated.       *)
(***************************************************************************)
EXTENDS HawkbitProofs

\* A final feedback is sent for json_acid, from the step for its status.
LEMMA FinalIsReported ==
  ASSUME BaseInv, [Next]_vars, NEW a \in Actions, NEW status \in {"succeeded", "failed"},
         server[a] # status, server'[a] = status
  PROVE  /\ a = json_acid
         /\ server[a] = "open"
         /\ pc = IF status = "succeeded" THEN "success" ELSE "failure"
<1>1. PICK ok \in BOOLEAN : ReportSuccess(ok) \/ ReportFailure(ok)
  BY OnlyReportsClose
<1>2. server \in [Actions -> Status]
  BY DEF BaseInv, TypeOK
<1>3. CASE ReportSuccess(ok)
  BY <1>2, <1>3, FeedbackEffect DEF ReportSuccess
<1>4. CASE ReportFailure(ok)
  BY <1>2, <1>4, FeedbackEffect DEF ReportFailure
<1> QED
  BY <1>1, <1>3, <1>4

\* Without lost requests a final feedback closes its action.
LEMMA FinalIsDelivered ==
  ASSUME "net" \notin Faults, server \in [Actions -> Status],
         NEW status \in {"succeeded", "failed"}, NEW ok \in BOOLEAN, Feedback(status, ok)
  PROVE  \A a \in Actions : server'[a] = "open" => server[a] = "open" /\ a # json_acid
BY DEF Feedback, Status

-----------------------------------------------------------------------------
(* The id that is reported and the link that was followed.                 *)

\* The steps between the parse of a document and the report on it.
ReportPc == {"acid_check", "success", "failure"} \cup InstallPc

\* The document of a deployment can be parsed.
Readable == "json" \notin Faults /\ Unparsable = {}

\* Then json_acid follows the link.
LinkInv == pc \in ReportPc => json_acid = deployment_base

\* The link that is followed is one of an open action until the report.
OfferInv ==
  pc \in ReportPc => deployment_base \in Actions /\ server[deployment_base] = "open"

\* When every feedback arrives, an id left over from an earlier poll is closed.
LeftOverInv ==
  /\ pc \in InitPc => json_acid = NoAcid
  /\ \A a \in Actions : json_acid = a /\ server[a] = "open" =>
       deployment_base = a /\ pc \notin {"idle", "dep_query"}

LEMMA LinkStep ==
  ASSUME Readable
  PROVE  BaseInv /\ LinkInv /\ [Next]_vars => LinkInv'
<1> SUFFICES ASSUME BaseInv, LinkInv, [Next]_vars PROVE LinkInv'
  OBVIOUS
<1> USE FlashAssumption, HawkbitAssumption
    DEF LinkInv, Readable, BaseInv, TypeOK, ReportPc, InitPc, InstallPc, UpdatePc, flashVars,
        localVars, Result
<1>1. CASE InitConfirmed
  BY <1>1 DEF InitConfirmed
<1>2. CASE InitConfirm
  BY <1>2 DEF InitConfirm, WriteConfirmed
<1>3. CASE InitEraseBank
  BY <1>3 DEF InitEraseBank, EraseSlot1
<1>4. CASE InitAcidErase
  BY <1>4 DEF InitAcidErase, AcidUpdateErase, EraseAcid
<1>5. CASE InitAcidWrite
  BY <1>5 DEF InitAcidWrite, AcidUpdateWrite, WriteAcid
<1>6. CASE PollOffered
  BY <1>6 DEF PollOffered
<1>7. CASE PollNothing
  BY <1>7 DEF PollNothing, PollReturn
<1>8. CASE PollFails
  BY <1>8 DEF PollFails, PollReturn
<1>9. CASE DeploymentQueryFails
  BY <1>9 DEF DeploymentQueryFails, PollReturn
<1>10. CASE DeploymentMalformed
  BY <1>10 DEF DeploymentMalformed
<1>11. CASE DeploymentParsed
  BY <1>11 DEF DeploymentParsed
<1>12. CASE AcidCheck
  BY <1>12 DEF AcidCheck
<1>13. ASSUME NEW ok \in BOOLEAN, ReportSuccess(ok) PROVE LinkInv'
  BY <1>13, FeedbackEffect DEF ReportSuccess, PollReturn
<1>14. ASSUME NEW ok \in BOOLEAN, ReportFailure(ok) PROVE LinkInv'
  BY <1>14, FeedbackEffect DEF ReportFailure, PollReturn
<1>15. ASSUME NEW ok \in BOOLEAN, ReportProceeding(ok) PROVE LinkInv'
  BY <1>15, FeedbackEffect DEF ReportProceeding, PollReturn
<1>16. CASE InstallRefused
  BY <1>16 DEF InstallRefused
<1>17. CASE InstallErase
  BY <1>17 DEF InstallErase, EraseSlot1
<1>18. CASE InstallFails
  BY <1>18 DEF InstallFails, FillSlot1
<1>19. CASE InstallSucceeds
  BY <1>19 DEF InstallSucceeds, FillSlot1
<1>20. CASE TriggerUpgrade
  BY <1>20 DEF TriggerUpgrade, RequestUpgrade
<1>21. CASE UpdateAcidErase
  BY <1>21 DEF UpdateAcidErase, AcidUpdateErase, EraseAcid
<1>22. CASE UpdateAcidWrite
  BY <1>22 DEF UpdateAcidWrite, AcidUpdateWrite, WriteAcid
<1>23. CASE Reset
  BY <1>23 DEF Reset, BootLoader, TestSwap, RejectUpgrade, Revert, PlainBoot
<1>24. CASE Assign
  BY <1>24 DEF Assign
<1>25. CASE UNCHANGED vars
  BY <1>25 DEF vars
<1> QED
  BY <1>1, <1>2, <1>3, <1>4, <1>5, <1>6, <1>7, <1>8, <1>9, <1>10, <1>11, <1>12, <1>13,
     <1>14, <1>15, <1>16, <1>17, <1>18, <1>19, <1>20, <1>21, <1>22, <1>23, <1>24, <1>25
  DEF Next, InitFlash, Poll, SysReboot, SpontaneousReset

LEMMA OfferStep == BaseInv /\ OfferInv /\ [Next]_vars => OfferInv'
<1> SUFFICES ASSUME BaseInv, OfferInv, [Next]_vars PROVE OfferInv'
  OBVIOUS
<1> USE FlashAssumption, HawkbitAssumption
    DEF OfferInv, WorkInv, Status, BaseInv, TypeOK, ReportPc, InitPc, InstallPc, UpdatePc,
        flashVars, localVars, Result
<1>1. CASE InitConfirmed
  BY <1>1 DEF InitConfirmed
<1>2. CASE InitConfirm
  BY <1>2 DEF InitConfirm, WriteConfirmed
<1>3. CASE InitEraseBank
  BY <1>3 DEF InitEraseBank, EraseSlot1
<1>4. CASE InitAcidErase
  BY <1>4 DEF InitAcidErase, AcidUpdateErase, EraseAcid
<1>5. CASE InitAcidWrite
  BY <1>5 DEF InitAcidWrite, AcidUpdateWrite, WriteAcid
<1>6. CASE PollOffered
  BY <1>6 DEF PollOffered
<1>7. CASE PollNothing
  BY <1>7 DEF PollNothing, PollReturn
<1>8. CASE PollFails
  BY <1>8 DEF PollFails, PollReturn
<1>9. CASE DeploymentQueryFails
  BY <1>9 DEF DeploymentQueryFails, PollReturn
<1>10. CASE DeploymentMalformed
  BY <1>10 DEF DeploymentMalformed
<1>11. CASE DeploymentParsed
  BY <1>11 DEF DeploymentParsed
<1>12. CASE AcidCheck
  BY <1>12 DEF AcidCheck
<1>13. ASSUME NEW ok \in BOOLEAN, ReportSuccess(ok) PROVE OfferInv'
  BY <1>13, FeedbackEffect DEF ReportSuccess, PollReturn
<1>14. ASSUME NEW ok \in BOOLEAN, ReportFailure(ok) PROVE OfferInv'
  BY <1>14, FeedbackEffect DEF ReportFailure, PollReturn
<1>15. ASSUME NEW ok \in BOOLEAN, ReportProceeding(ok) PROVE OfferInv'
  BY <1>15, FeedbackEffect DEF ReportProceeding, PollReturn
<1>16. CASE InstallRefused
  BY <1>16 DEF InstallRefused
<1>17. CASE InstallErase
  BY <1>17 DEF InstallErase, EraseSlot1
<1>18. CASE InstallFails
  BY <1>18 DEF InstallFails, FillSlot1
<1>19. CASE InstallSucceeds
  BY <1>19 DEF InstallSucceeds, FillSlot1
<1>20. CASE TriggerUpgrade
  BY <1>20 DEF TriggerUpgrade, RequestUpgrade
<1>21. CASE UpdateAcidErase
  BY <1>21 DEF UpdateAcidErase, AcidUpdateErase, EraseAcid
<1>22. CASE UpdateAcidWrite
  BY <1>22 DEF UpdateAcidWrite, AcidUpdateWrite, WriteAcid
<1>23. CASE Reset
  BY <1>23 DEF Reset, BootLoader, TestSwap, RejectUpgrade, Revert, PlainBoot
<1>24. CASE Assign
  BY <1>24 DEF Assign
<1>25. CASE UNCHANGED vars
  BY <1>25 DEF vars
<1> QED
  BY <1>1, <1>2, <1>3, <1>4, <1>5, <1>6, <1>7, <1>8, <1>9, <1>10, <1>11, <1>12, <1>13,
     <1>14, <1>15, <1>16, <1>17, <1>18, <1>19, <1>20, <1>21, <1>22, <1>23, <1>24, <1>25
  DEF Next, InitFlash, Poll, SysReboot, SpontaneousReset

LEMMA LeftOverStep ==
  ASSUME "net" \notin Faults
  PROVE  BaseInv /\ AssignedInv /\ LeftOverInv /\ [Next]_vars => LeftOverInv'
<1> SUFFICES ASSUME BaseInv, AssignedInv, LeftOverInv, [Next]_vars PROVE LeftOverInv'
  OBVIOUS
<1> USE FlashAssumption, HawkbitAssumption
    DEF LeftOverInv, AssignedInv, WorkInv, PollPc, Status, BaseInv, TypeOK, ReportPc,
        InitPc, InstallPc, UpdatePc, flashVars, localVars, Result
<1>1. CASE InitConfirmed
  BY <1>1 DEF InitConfirmed
<1>2. CASE InitConfirm
  BY <1>2 DEF InitConfirm, WriteConfirmed
<1>3. CASE InitEraseBank
  BY <1>3 DEF InitEraseBank, EraseSlot1
<1>4. CASE InitAcidErase
  BY <1>4 DEF InitAcidErase, AcidUpdateErase, EraseAcid
<1>5. CASE InitAcidWrite
  BY <1>5 DEF InitAcidWrite, AcidUpdateWrite, WriteAcid
<1>6. CASE PollOffered
  BY <1>6 DEF PollOffered
<1>7. CASE PollNothing
  BY <1>7 DEF PollNothing, PollReturn
<1>8. CASE PollFails
  BY <1>8 DEF PollFails, PollReturn
<1>9. CASE DeploymentQueryFails
  BY <1>9 DEF DeploymentQueryFails, PollReturn
<1>10. CASE DeploymentMalformed
  BY <1>10 DEF DeploymentMalformed
<1>11. CASE DeploymentParsed
  BY <1>11 DEF DeploymentParsed
<1>12. CASE AcidCheck
  BY <1>12 DEF AcidCheck
<1>13. ASSUME NEW ok \in BOOLEAN, ReportSuccess(ok) PROVE LeftOverInv'
  BY <1>13, FeedbackEffect, FinalIsDelivered DEF ReportSuccess, PollReturn
<1>14. ASSUME NEW ok \in BOOLEAN, ReportFailure(ok) PROVE LeftOverInv'
  BY <1>14, FeedbackEffect, FinalIsDelivered DEF ReportFailure, PollReturn
<1>15. ASSUME NEW ok \in BOOLEAN, ReportProceeding(ok) PROVE LeftOverInv'
  <2>1. ok /\ UNCHANGED localVars /\ pc' = "erase_slot1"
    BY <1>15 DEF ReportProceeding, Feedback
  <2>2. \A a \in Actions : server'[a] = server[a]
    BY <1>15, FeedbackEffect DEF ReportProceeding
  <2> QED
    BY <2>1, <2>2
<1>16. CASE InstallRefused
  BY <1>16 DEF InstallRefused
<1>17. CASE InstallErase
  BY <1>17 DEF InstallErase, EraseSlot1
<1>18. CASE InstallFails
  BY <1>18 DEF InstallFails, FillSlot1
<1>19. CASE InstallSucceeds
  BY <1>19 DEF InstallSucceeds, FillSlot1
<1>20. CASE TriggerUpgrade
  BY <1>20 DEF TriggerUpgrade, RequestUpgrade
<1>21. CASE UpdateAcidErase
  BY <1>21 DEF UpdateAcidErase, AcidUpdateErase, EraseAcid
<1>22. CASE UpdateAcidWrite
  BY <1>22 DEF UpdateAcidWrite, AcidUpdateWrite, WriteAcid
<1>23. CASE Reset
  BY <1>23 DEF Reset, BootLoader, TestSwap, RejectUpgrade, Revert, PlainBoot
<1>24. CASE Assign
  BY <1>24 DEF Assign
<1>25. CASE UNCHANGED vars
  BY <1>25 DEF vars
<1> QED
  BY <1>1, <1>2, <1>3, <1>4, <1>5, <1>6, <1>7, <1>8, <1>9, <1>10, <1>11, <1>12, <1>13,
     <1>14, <1>15, <1>16, <1>17, <1>18, <1>19, <1>20, <1>21, <1>22, <1>23, <1>24, <1>25
  DEF Next, InitFlash, Poll, SysReboot, SpontaneousReset


\* A final feedback names the action whose resource the client was reading,
\* whatever else goes wrong: it takes overlapping actions, a document that
\* cannot be parsed and a lost answer together to send it for another one.
THEOREM FeedbackNamesOffer ==
  ASSUME ~Overlap \/ Readable \/ "net" \notin Faults
  PROVE  Spec => FeedbackForOffered
<1> DEFINE NamesOffer ==
      \A a \in Actions : server[a] = "open" /\ server'[a] \in {"succeeded", "failed"}
        => a = deployment_base
<1>1. Init => BaseInv /\ AssignedInv /\ OneOpenInv /\ LinkInv /\ OfferInv /\ LeftOverInv
  BY BaseInit, IInit, HawkbitAssumption
  DEF Init, IInv, LinkInv, OfferInv, LeftOverInv, ReportPc, InstallPc, UpdatePc
<1>2. ASSUME BaseInv, [Next]_vars, NEW a \in Actions,
             server[a] = "open", server'[a] \in {"succeeded", "failed"}
      PROVE  a = json_acid /\ pc \in {"success", "failure"}
  BY <1>2, FinalIsReported
<1>3. CASE ~Overlap
  <2>1. BaseInv /\ OneOpenInv /\ OfferInv /\ [Next]_vars => [NamesOffer]_vars
    BY <1>2 DEF OneOpenInv, OfferInv, ReportPc
  <2> QED
    BY <1>1, <1>3, <2>1, BaseStep, OneOpenStep, OfferStep, PTL DEF Spec, FeedbackForOffered
<1>4. CASE Readable
  <2>1. BaseInv /\ LinkInv /\ [Next]_vars => [NamesOffer]_vars
    BY <1>2 DEF LinkInv, ReportPc
  <2> QED
    BY <1>1, <1>4, <2>1, BaseStep, LinkStep, PTL DEF Spec, FeedbackForOffered
<1>5. CASE "net" \notin Faults
  <2>1. BaseInv /\ LeftOverInv /\ [Next]_vars => [NamesOffer]_vars
    BY <1>2 DEF LeftOverInv
  <2> QED
    BY <1>1, <1>5, <2>1, BaseStep, AssignedStep, LeftOverStep, PTL
    DEF Spec, FeedbackForOffered
<1> QED
  BY <1>3, <1>4, <1>5

-----------------------------------------------------------------------------
(* Success, and the contract of over-the-air update.                       *)

\* Flash works and no reset comes out of turn.
FlashAndPowerHold == {"flash", "reset"} \cap Faults = {}

\* Slot 0 runs the image of the action an id names, the factory's if it is erased.
Runs(word) == slot0 = IF word = Erased THEN Factory ELSE word

\* Which id names the running image, at every step of an update and of the boot
\* after it; once it is confirmed and the ids are rewritten, the CURRENT id does.
BootedInv ==
  /\ pc # "halted"
  /\ pc = "init_flash" => Runs(IF image_ok = "confirmed" THEN acid.current ELSE acid.update)
  /\ pc \in {"erase_bank", "init_acid"} => Runs(acid.update)
  /\ pc = "init_acid_write" =>
       Runs(device_acid.current) /\ device_acid.current = device_acid.update
  /\ pc = "update_acid_write" => Runs(device_acid.current)
  /\ pc \notin InitPc \cup {"update_acid_write"} => Runs(acid.current)
  /\ acid.update = Erased => acid.current = Erased
  /\ device_acid.update = Erased => device_acid.current = Erased
  /\ pc = "success" => acid.current = json_acid

\* An upgrade that is requested is the one whose action is, or is about to
\* become, the UPDATE id.
PendingInv ==
  /\ upgrade => pc \in {"update_acid", "update_acid_write", "sys_reboot"}
  /\ pc \in {"request_upgrade", "update_acid", "update_acid_write"} =>
       slot1 \in {json_acid, Junk}
  /\ pc = "update_acid_write" => device_acid.update = json_acid
  /\ upgrade /\ pc = "sys_reboot" => slot1 \in {acid.update, Junk} /\ acid.update # Erased

LEMMA BootedStep ==
  ASSUME FlashAndPowerHold
  PROVE  BaseInv /\ BootedInv /\ PendingInv /\ [Next]_vars => BootedInv'
<1> SUFFICES ASSUME BaseInv, BootedInv, PendingInv, [Next]_vars PROVE BootedInv'
  OBVIOUS
<1> USE FlashAssumption, HawkbitAssumption
    DEF BootedInv, PendingInv, Runs, BaseInv, TypeOK, FlashTypeOK, BootInv, WorkInv, Image,
        Acid, AcidWord, BlankAcid, InitPc, InstallPc, UpdatePc, Acids, flashVars, localVars,
        Result, FlashAndPowerHold
<1>1. CASE InitConfirmed
  BY <1>1 DEF InitConfirmed
<1>2. CASE InitConfirm
  BY <1>2 DEF InitConfirm, WriteConfirmed
<1>3. CASE InitEraseBank
  BY <1>3 DEF InitEraseBank, EraseSlot1
<1>4. CASE InitAcidErase
  <2>1. /\ pc = "init_acid" /\ pc' = "init_acid_write"
        /\ device_acid' = [acid EXCEPT !.current = acid.update]
        /\ acid' = BlankAcid /\ UNCHANGED <<slot0, image_ok>>
    BY <1>4 DEF InitAcidErase, AcidUpdateErase, EraseAcid
  <2>2. device_acid'.current = acid.update /\ device_acid'.update = acid.update
    BY <2>1
  <2>3. acid'.update = Erased /\ acid'.current = Erased
    BY <2>1
  <2> QED
    BY <2>1, <2>2, <2>3
<1>5. CASE InitAcidWrite
  <2>1. /\ pc = "init_acid_write" /\ pc' = "idle"
        /\ acid' = device_acid /\ device_acid' = BlankAcid /\ UNCHANGED slot0
    BY <1>5 DEF InitAcidWrite, AcidUpdateWrite, WriteAcid
  <2>2. acid'.current = device_acid.current /\ acid'.update = device_acid.update
    BY <2>1
  <2>3. device_acid'.update = Erased /\ device_acid'.current = Erased
    BY <2>1
  <2> QED
    BY <2>1, <2>2, <2>3
<1>6. CASE PollOffered
  BY <1>6 DEF PollOffered
<1>7. CASE PollNothing
  BY <1>7 DEF PollNothing, PollReturn
<1>8. CASE PollFails
  BY <1>8 DEF PollFails, PollReturn
<1>9. CASE DeploymentQueryFails
  BY <1>9 DEF DeploymentQueryFails, PollReturn
<1>10. CASE DeploymentMalformed
  BY <1>10 DEF DeploymentMalformed
<1>11. CASE DeploymentParsed
  BY <1>11 DEF DeploymentParsed
<1>12. CASE AcidCheck
  BY <1>12 DEF AcidCheck
<1>13. ASSUME NEW ok \in BOOLEAN, ReportSuccess(ok) PROVE BootedInv'
  BY <1>13, FeedbackEffect DEF ReportSuccess, PollReturn
<1>14. ASSUME NEW ok \in BOOLEAN, ReportFailure(ok) PROVE BootedInv'
  BY <1>14, FeedbackEffect DEF ReportFailure, PollReturn
<1>15. ASSUME NEW ok \in BOOLEAN, ReportProceeding(ok) PROVE BootedInv'
  BY <1>15, FeedbackEffect DEF ReportProceeding, PollReturn
<1>16. CASE InstallRefused
  BY <1>16 DEF InstallRefused
<1>17. CASE InstallErase
  BY <1>17 DEF InstallErase, EraseSlot1
<1>18. CASE InstallFails
  BY <1>18 DEF InstallFails, FillSlot1
<1>19. CASE InstallSucceeds
  BY <1>19 DEF InstallSucceeds, FillSlot1
<1>20. CASE TriggerUpgrade
  BY <1>20 DEF TriggerUpgrade, RequestUpgrade
<1>21. CASE UpdateAcidErase
  <2>1. /\ pc = "update_acid" /\ pc' = "update_acid_write"
        /\ device_acid' = [acid EXCEPT !.update = json_acid]
        /\ acid' = BlankAcid /\ UNCHANGED slot0
    BY <1>21 DEF UpdateAcidErase, AcidUpdateErase, EraseAcid
  <2>2. device_acid'.current = acid.current /\ device_acid'.update = json_acid
    BY <2>1
  <2>3. acid'.update = Erased /\ acid'.current = Erased /\ json_acid # Erased
    BY <2>1
  <2> QED
    BY <2>1, <2>2, <2>3
<1>22. CASE UpdateAcidWrite
  <2>1. /\ pc = "update_acid_write" /\ pc' = "sys_reboot"
        /\ acid' = device_acid /\ device_acid' = BlankAcid /\ UNCHANGED slot0
    BY <1>22 DEF UpdateAcidWrite, AcidUpdateWrite, WriteAcid
  <2>2. acid'.current = device_acid.current /\ acid'.update = device_acid.update
    BY <2>1
  <2>3. device_acid'.update = Erased /\ device_acid'.current = Erased
    BY <2>1
  <2> QED
    BY <2>1, <2>2, <2>3
<1>23. CASE SysReboot
  <2>1. /\ pc = "sys_reboot" /\ pc' = "init_flash"
        /\ device_acid' = BlankAcid /\ acid' = acid /\ BootLoader
    BY <1>23 DEF SysReboot, Reset, BootLoader
  <2>2. device_acid'.update = Erased /\ device_acid'.current = Erased
    BY <2>1
  <2>3. image_ok = "confirmed" /\ Runs(acid.current)
    BY <2>1
  <2>4. CASE TestSwap
    <3>1. slot0' = acid.update /\ acid.update # Erased /\ image_ok' = "trial"
      BY <2>1, <2>4 DEF TestSwap
    <3> QED
      BY <2>1, <2>2, <3>1
  <2>5. CASE RejectUpgrade \/ PlainBoot
    <3>1. UNCHANGED <<slot0, image_ok>>
      BY <2>5 DEF RejectUpgrade, PlainBoot
    <3> QED
      BY <2>1, <2>2, <2>3, <3>1
  <2>6. CASE Revert
    BY <2>3, <2>6 DEF Revert
  <2> QED
    BY <2>1, <2>4, <2>5, <2>6 DEF BootLoader
<1>24. CASE Assign
  BY <1>24 DEF Assign
<1>25. CASE UNCHANGED vars
  BY <1>25 DEF vars
<1> QED
  BY <1>1, <1>2, <1>3, <1>4, <1>5, <1>6, <1>7, <1>8, <1>9, <1>10, <1>11, <1>12, <1>13, <1>14,
     <1>15, <1>16, <1>17, <1>18, <1>19, <1>20, <1>21, <1>22, <1>23, <1>24, <1>25
  DEF Next, InitFlash, Poll, SpontaneousReset

LEMMA PendingStep ==
  ASSUME FlashAndPowerHold
  PROVE  BaseInv /\ PendingInv /\ [Next]_vars => PendingInv'
<1> SUFFICES ASSUME BaseInv, PendingInv, [Next]_vars PROVE PendingInv'
  OBVIOUS
<1> USE FlashAssumption, HawkbitAssumption
    DEF PendingInv, BaseInv, TypeOK, FlashTypeOK, BootInv, WorkInv, Image, Acid, AcidWord,
        BlankAcid, InitPc, InstallPc, UpdatePc, Acids, flashVars, localVars, Result,
        FlashAndPowerHold
<1>1. CASE InitConfirmed
  BY <1>1 DEF InitConfirmed
<1>2. CASE InitConfirm
  BY <1>2 DEF InitConfirm, WriteConfirmed
<1>3. CASE InitEraseBank
  BY <1>3 DEF InitEraseBank, EraseSlot1
<1>4. CASE InitAcidErase
  BY <1>4 DEF InitAcidErase, AcidUpdateErase, EraseAcid
<1>5. CASE InitAcidWrite
  BY <1>5 DEF InitAcidWrite, AcidUpdateWrite, WriteAcid
<1>6. CASE PollOffered
  BY <1>6 DEF PollOffered
<1>7. CASE PollNothing
  BY <1>7 DEF PollNothing, PollReturn
<1>8. CASE PollFails
  BY <1>8 DEF PollFails, PollReturn
<1>9. CASE DeploymentQueryFails
  BY <1>9 DEF DeploymentQueryFails, PollReturn
<1>10. CASE DeploymentMalformed
  BY <1>10 DEF DeploymentMalformed
<1>11. CASE DeploymentParsed
  BY <1>11 DEF DeploymentParsed
<1>12. CASE AcidCheck
  BY <1>12 DEF AcidCheck
<1>13. ASSUME NEW ok \in BOOLEAN, ReportSuccess(ok) PROVE PendingInv'
  BY <1>13, FeedbackEffect DEF ReportSuccess, PollReturn
<1>14. ASSUME NEW ok \in BOOLEAN, ReportFailure(ok) PROVE PendingInv'
  BY <1>14, FeedbackEffect DEF ReportFailure, PollReturn
<1>15. ASSUME NEW ok \in BOOLEAN, ReportProceeding(ok) PROVE PendingInv'
  BY <1>15, FeedbackEffect DEF ReportProceeding, PollReturn
<1>16. CASE InstallRefused
  BY <1>16 DEF InstallRefused
<1>17. CASE InstallErase
  BY <1>17 DEF InstallErase, EraseSlot1
<1>18. CASE InstallFails
  BY <1>18 DEF InstallFails, FillSlot1
<1>19. CASE InstallSucceeds
  BY <1>19 DEF InstallSucceeds, FillSlot1
<1>20. CASE TriggerUpgrade
  BY <1>20 DEF TriggerUpgrade, RequestUpgrade
<1>21. CASE UpdateAcidErase
  BY <1>21 DEF UpdateAcidErase, AcidUpdateErase, EraseAcid
<1>22. CASE UpdateAcidWrite
  BY <1>22 DEF UpdateAcidWrite, AcidUpdateWrite, WriteAcid
<1>23. CASE Reset
  BY <1>23 DEF Reset, BootLoader, TestSwap, RejectUpgrade, Revert, PlainBoot
<1>24. CASE Assign
  BY <1>24 DEF Assign
<1>25. CASE UNCHANGED vars
  BY <1>25 DEF vars
<1> QED
  BY <1>1, <1>2, <1>3, <1>4, <1>5, <1>6, <1>7, <1>8, <1>9, <1>10, <1>11, <1>12, <1>13, <1>14,
     <1>15, <1>16, <1>17, <1>18, <1>19, <1>20, <1>21, <1>22, <1>23, <1>24, <1>25
  DEF Next, InitFlash, Poll, SysReboot, SpontaneousReset

LEMMA BootedContractInv ==
  BaseInv /\ AssignedInv /\ BootedInv /\ PendingInv => ContractInv
<1> SUFFICES ASSUME BaseInv, AssignedInv, BootedInv, PendingInv PROVE TruthInv
  BY DEF ContractInv
<1>1. ASSUME upgrade PROVE slot1 # Factory
  BY <1>1, FlashAssumption, HawkbitAssumption
  DEF PendingInv, BaseInv, TypeOK, FlashTypeOK, WorkInv, Acid, AcidWord, InstallPc, UpdatePc
<1>2. ASSUME pc = "success", NEW a \in Actions, a = json_acid PROVE slot0 = a
  BY <1>2, FlashAssumption DEF BootedInv, Runs, InitPc
<1> QED
  BY <1>1, <1>2 DEF TruthInv

\* The two ways to ContractInv: one action open at a time under any faults, or
\* any number of them while flash and power hold.
LEMMA ContractInvariant ==
  ASSUME ~Overlap \/ FlashAndPowerHold
  PROVE  Spec => []ContractInv
<1>1. CASE ~Overlap
  BY <1>1, IInit, IStep, OneOpenContractInv, PTL DEF Spec
<1>2. CASE FlashAndPowerHold
  <2>1. Init => AssignedInv /\ BootedInv /\ PendingInv
    BY IInit, FlashAssumption
    DEF IInv, Init, FlashInit, BlankAcid, BootedInv, PendingInv, Runs, InitPc
  <2> QED
    BY <1>2, <2>1, BaseInit, BaseStep, AssignedStep, BootedStep, PendingStep,
       BootedContractInv, PTL
    DEF Spec
<1> QED
  BY <1>1, <1>2

\* An action is closed as successful only while the device runs its image for
\* good, whatever the network, the documents, the images and the boot loader do,
\* for every number of actions.  Flash errors and resets are allowed too as long
\* as the server has one action open at a time.
THEOREM SuccessIsTruthful ==
  ASSUME ~Overlap \/ FlashAndPowerHold
  PROVE  Spec => SuccessTruthful
<1>1. ContractInv /\ [Next]_vars =>
        [\A a \in Actions : server[a] # "succeeded" /\ server'[a] = "succeeded"
            => slot0 = a /\ image_ok = "confirmed"]_vars
  BY SuccessStep
<1> QED
  BY ContractInvariant, <1>1, PTL DEF Spec, SuccessTruthful

\* Under the same assumption the client implements the contract of over-the-air
\* update: one image on trial at a time and only a deployed one, its predecessor
\* kept until it is confirmed, no success without it.
THEOREM ClientImplementsContract ==
  ASSUME ~Overlap \/ FlashAndPowerHold
  PROVE  Spec => ImplementsContract
BY ContractInvariant, ContractInit, ContractStep, PTL
DEF Spec, ImplementsContract, Contract!ContractSpec

-----------------------------------------------------------------------------
(* Installs that are not repeated, and failures.                           *)

\* No reset comes out of turn, and when writing the ids fails the report of it
\* arrives.
IdsOrReports == "reset" \notin Faults /\ ("net" \notin Faults \/ "flash" \notin Faults)

\* Until it is closed, the action whose upgrade was requested last is the UPDATE
\* id, or is about to be, or is about to be reported.  What is installed is not
\* that action.
RememberedInv ==
  /\ \A a \in Actions : last_flashed = a => server[a] # "unassigned"
  /\ \A a \in Actions : last_flashed = a /\ server[a] = "open" =>
       \/ pc = "halted"
       \/ pc = "update_acid"
       \/ pc = "failure" /\ json_acid = a /\ "net" \notin Faults
       \/ pc \in {"init_acid_write", "update_acid_write"} /\ device_acid.update = a
       \/ pc \notin {"init_acid_write", "update_acid_write"} /\ acid.update = a
  /\ pc = "update_acid" => last_flashed = json_acid
  /\ pc = "update_acid_write" =>
       last_flashed = json_acid /\ device_acid.update = json_acid
  /\ pc \in {"proceeding", "erase_slot1", "download", "request_upgrade"} =>
       json_acid # acid.update

LEMMA RememberedStep ==
  ASSUME IdsOrReports
  PROVE  BaseInv /\ RememberedInv /\ [Next]_vars => RememberedInv'
<1> SUFFICES ASSUME BaseInv, RememberedInv, [Next]_vars PROVE RememberedInv'
  OBVIOUS
<1>0. InitAcidErase =>
        \E ok \in Result("flash") :
          /\ EraseAcid(ok)
          /\ device_acid' = IF ok THEN [acid EXCEPT !.current = acid.update] ELSE BlankAcid
          /\ pc' = IF ok THEN "init_acid_write" ELSE "halted"
          /\ UNCHANGED <<json_acid, server, last_flashed>>
  BY DEF InitAcidErase, AcidUpdateErase
<1> USE FlashAssumption, HawkbitAssumption
    DEF RememberedInv, IdsOrReports, BaseInv, TypeOK, FlashTypeOK, BootInv, WorkInv, Status,
        Acid, AcidWord, BlankAcid, InitPc, InstallPc, UpdatePc, flashVars, localVars, Result
<1>1. CASE InitConfirmed
  BY <1>1 DEF InitConfirmed
<1>2. CASE InitConfirm
  BY <1>2 DEF InitConfirm, WriteConfirmed
<1>3. CASE InitEraseBank
  BY <1>3 DEF InitEraseBank, EraseSlot1
<1>4. CASE InitAcidErase
  <2>1. PICK ok \in Result("flash") :
          /\ EraseAcid(ok)
          /\ device_acid' = IF ok THEN [acid EXCEPT !.current = acid.update] ELSE BlankAcid
          /\ pc' = IF ok THEN "init_acid_write" ELSE "halted"
          /\ UNCHANGED <<json_acid, server, last_flashed>>
    BY <1>0, <1>4
  <2>2. [acid EXCEPT !.current = acid.update].update = acid.update
    OBVIOUS
  <2>3. pc = "init_acid"
    BY <1>4 DEF InitAcidErase
  <2> QED
    BY <2>1, <2>2, <2>3
<1>5. CASE InitAcidWrite
  <2>1. PICK ok \in Result("flash") :
          /\ ok => acid' = device_acid
          /\ pc' = IF ok THEN "idle" ELSE "halted"
          /\ UNCHANGED <<json_acid, server, last_flashed>>
    BY <1>5 DEF InitAcidWrite, AcidUpdateWrite, WriteAcid
  <2>2. pc = "init_acid_write"
    BY <1>5 DEF InitAcidWrite
  <2> QED
    BY <2>1, <2>2
<1>6. CASE PollOffered
  BY <1>6 DEF PollOffered
<1>7. CASE PollNothing
  BY <1>7 DEF PollNothing, PollReturn
<1>8. CASE PollFails
  BY <1>8 DEF PollFails, PollReturn
<1>9. CASE DeploymentQueryFails
  BY <1>9 DEF DeploymentQueryFails, PollReturn
<1>10. CASE DeploymentMalformed
  BY <1>10 DEF DeploymentMalformed
<1>11. CASE DeploymentParsed
  BY <1>11 DEF DeploymentParsed
<1>12. CASE AcidCheck
  BY <1>12 DEF AcidCheck
<1>13. ASSUME NEW ok \in BOOLEAN, ReportSuccess(ok) PROVE RememberedInv'
  BY <1>13, FeedbackEffect DEF ReportSuccess, PollReturn
<1>14. ASSUME NEW ok \in BOOLEAN, ReportFailure(ok) PROVE RememberedInv'
  BY <1>14, FeedbackEffect, FinalIsDelivered DEF ReportFailure, PollReturn
<1>15. ASSUME NEW ok \in BOOLEAN, ReportProceeding(ok) PROVE RememberedInv'
  BY <1>15, FeedbackEffect DEF ReportProceeding, PollReturn
<1>16. CASE InstallRefused
  BY <1>16 DEF InstallRefused
<1>17. CASE InstallErase
  BY <1>17 DEF InstallErase, EraseSlot1
<1>18. CASE InstallFails
  BY <1>18 DEF InstallFails, FillSlot1
<1>19. CASE InstallSucceeds
  BY <1>19 DEF InstallSucceeds, FillSlot1
<1>20. CASE TriggerUpgrade
  BY <1>20 DEF TriggerUpgrade, RequestUpgrade
<1>21. CASE UpdateAcidErase
  <2>1. PICK ok \in Result("flash") :
          /\ EraseAcid(ok)
          /\ device_acid' = IF ok THEN [acid EXCEPT !.update = json_acid] ELSE BlankAcid
          /\ pc' = IF ok THEN "update_acid_write" ELSE "failure"
          /\ UNCHANGED <<json_acid, server, last_flashed>>
    BY <1>21 DEF UpdateAcidErase, AcidUpdateErase
  <2>2. [acid EXCEPT !.update = json_acid].update = json_acid
    OBVIOUS
  <2>3. pc = "update_acid" /\ last_flashed = json_acid
    BY <1>21 DEF UpdateAcidErase
  <2>4. ~ok => "net" \notin Faults
    BY <2>1
  <2> QED
    BY <2>1, <2>2, <2>3, <2>4
<1>22. CASE UpdateAcidWrite
  BY <1>22 DEF UpdateAcidWrite, AcidUpdateWrite, WriteAcid
<1>23. CASE SysReboot
  BY <1>23 DEF SysReboot, Reset, BootLoader, TestSwap, RejectUpgrade, Revert, PlainBoot
<1>24. CASE Assign
  BY <1>24 DEF Assign
<1>25. CASE UNCHANGED vars
  BY <1>25 DEF vars
<1> QED
  BY <1>1, <1>2, <1>3, <1>4, <1>5, <1>6, <1>7, <1>8, <1>9, <1>10, <1>11, <1>12, <1>13,
     <1>14, <1>15, <1>16, <1>17, <1>18, <1>19, <1>20, <1>21, <1>22, <1>23, <1>24, <1>25
  DEF Next, InitFlash, Poll, SpontaneousReset

\* The action whose upgrade was requested last is not downloaded again, however
\* the boot loader decides; images and documents may be bad, requests may be
\* lost or flash may fail, but not both.
THEOREM LastInstallIsNotRepeated ==
  ASSUME IdsOrReports
  PROVE  Spec => NotFlashedTwiceInARow
<1>1. Init => BaseInv /\ RememberedInv
  BY BaseInit, HawkbitAssumption DEF Init, RememberedInv
<1>2. BaseInv /\ RememberedInv /\ [Next]_vars =>
        [pc = "proceeding" /\ pc' = "erase_slot1" => json_acid # last_flashed]_vars
  <2> SUFFICES ASSUME BaseInv, RememberedInv, pc = "proceeding", json_acid = last_flashed
               PROVE  FALSE
    OBVIOUS
  <2>1. json_acid \in Actions /\ server[json_acid] = "open"
    BY DEF BaseInv, WorkInv, InstallPc
  <2> QED
    BY <2>1 DEF RememberedInv
<1> QED
  BY <1>1, <1>2, BaseStep, RememberedStep, PTL DEF Spec, NotFlashedTwiceInARow

\* When actions do not overlap either, an upgrade is requested only after the
\* action of the one before was closed, so each is upgraded once at most: the
\* safety half of EveryActionCloses.
THEOREM UpgradesAwaitReports ==
  ASSUME IdsOrReports, ~Overlap
  PROVE  Spec => UpgradeAwaitsReport
<1>1. Init => BaseInv /\ OneOpenInv /\ RememberedInv
  BY BaseInit, IInit, HawkbitAssumption DEF IInv, Init, RememberedInv
<1>2. BaseInv /\ OneOpenInv /\ RememberedInv /\ [Next]_vars =>
        [pc = "request_upgrade" /\ pc' = "update_acid" =>
           /\ server[json_acid] = "open"
           /\ last_flashed \in Actions =>
                server[last_flashed] \in {"succeeded", "failed"}]_vars
  <2> SUFFICES ASSUME BaseInv, OneOpenInv, RememberedInv, pc = "request_upgrade"
               PROVE  /\ server[json_acid] = "open"
                      /\ last_flashed \in Actions =>
                           server[last_flashed] \in {"succeeded", "failed"}
    OBVIOUS
  <2>1. json_acid \in Actions /\ server[json_acid] = "open"
    BY DEF BaseInv, WorkInv, InstallPc, UpdatePc
  <2>2. ASSUME last_flashed \in Actions, server[last_flashed] = "open" PROVE FALSE
    <3>1. acid.update = last_flashed /\ json_acid # acid.update
      BY <2>1, <2>2 DEF RememberedInv
    <3> QED
      BY <2>1, <2>2, <3>1 DEF OneOpenInv
  <2>3. last_flashed \in Actions => server[last_flashed] # "unassigned"
    BY DEF RememberedInv
  <2>4. server \in [Actions -> Status]
    BY DEF BaseInv, TypeOK
  <2> QED
    BY <2>1, <2>2, <2>3, <2>4 DEF Status
<1> QED
  BY <1>1, <1>2, BaseStep, OneOpenStep, RememberedStep, PTL DEF Spec, UpgradeAwaitsReport

\* No document is damaged and no reset comes out of turn.  If flash may fail then
\* every feedback arrives and one action is open at a time; if there are
\* deployments that cannot be parsed, one of the two.
NothingForgotten ==
  /\ {"json", "reset"} \cap Faults = {}
  /\ "flash" \in Faults => ~Overlap /\ "net" \notin Faults
  /\ Unparsable # {} => ~Overlap \/ "net" \notin Faults

\* No refused deployment is installed.
FitInv ==
  /\ pc \in InstallPc \cup {"acid_check"} => json_acid \notin Refused
  /\ {slot0, slot1} \cap Refused = {}

\* What is downloaded, or given up and still open, does not run, and only what
\* was downloaded is swapped in.
RefusedInv ==
  /\ pc \in InstallPc => slot0 # json_acid
  /\ pc = "failure" => \A a \in Actions : json_acid = a /\ server[a] = "open" => slot0 # a
  /\ pc \in {"download", "request_upgrade"} => ~upgrade
  /\ pc \in {"request_upgrade", "update_acid", "update_acid_write"} =>
       slot1 \in {json_acid, Junk}

\* The running image of an open action has its id where the next step looks for it ...
Named(a) ==
  \/ pc = "halted"
  \/ pc = "init_flash" /\ image_ok # "confirmed" /\ acid.update = a
  \/ pc = "init_flash" /\ image_ok = "confirmed" /\ acid.current = a
  \/ pc \in {"erase_bank", "init_acid"} /\ acid.update = a
  \/ pc \in {"init_acid_write", "update_acid_write"} /\ device_acid.current = a
  \/ pc \notin InitPc \cup {"update_acid_write"} /\ acid.current = a

\* ... and so has the image that is swapped in next, or its action is about to
\* be closed.
Swaps(a) ==
  \/ pc = "update_acid" /\ json_acid = a
  \/ pc = "update_acid_write" /\ device_acid.update = a
  \/ pc = "sys_reboot" /\ acid.update = a
  \/ pc = "failure" /\ json_acid = a /\ "flash" \in Faults

KnownInv ==
  \A a \in Actions : server[a] = "open" =>
    /\ slot0 = a => Named(a)
    /\ upgrade /\ slot1 = a => Swaps(a)

KInv ==
  /\ AssignedInv
  /\ ~Overlap => OneOpenInv
  /\ "net" \notin Faults => LeftOverInv
  /\ FitInv
  /\ RefusedInv
  /\ KnownInv

LEMMA FitStep == BaseInv /\ FitInv /\ [Next]_vars => FitInv'
<1> SUFFICES ASSUME BaseInv, FitInv, [Next]_vars PROVE FitInv'
  OBVIOUS
<1> USE FlashAssumption, HawkbitAssumption
    DEF FitInv, Refused, BaseInv, TypeOK, FlashTypeOK, BootInv, WorkInv, Status, Image, Acid,
        AcidWord, BlankAcid, InitPc, InstallPc, UpdatePc, flashVars, localVars, Result
<1>1. CASE InitConfirmed
  BY <1>1 DEF InitConfirmed
<1>2. CASE InitConfirm
  BY <1>2 DEF InitConfirm, WriteConfirmed
<1>3. CASE InitEraseBank
  BY <1>3 DEF InitEraseBank, EraseSlot1
<1>4. CASE InitAcidErase
  BY <1>4 DEF InitAcidErase, AcidUpdateErase, EraseAcid
<1>5. CASE InitAcidWrite
  BY <1>5 DEF InitAcidWrite, AcidUpdateWrite, WriteAcid
<1>6. CASE PollOffered
  BY <1>6 DEF PollOffered
<1>7. CASE PollNothing
  BY <1>7 DEF PollNothing, PollReturn
<1>8. CASE PollFails
  BY <1>8 DEF PollFails, PollReturn
<1>9. CASE DeploymentQueryFails
  BY <1>9 DEF DeploymentQueryFails, PollReturn
<1>10. CASE DeploymentMalformed
  BY <1>10 DEF DeploymentMalformed
<1>11. CASE DeploymentParsed
  BY <1>11 DEF DeploymentParsed
<1>12. CASE AcidCheck
  BY <1>12 DEF AcidCheck
<1>13. ASSUME NEW ok \in BOOLEAN, ReportSuccess(ok) PROVE FitInv'
  BY <1>13, FeedbackEffect DEF ReportSuccess, PollReturn
<1>14. ASSUME NEW ok \in BOOLEAN, ReportFailure(ok) PROVE FitInv'
  BY <1>14, FeedbackEffect DEF ReportFailure, PollReturn
<1>15. ASSUME NEW ok \in BOOLEAN, ReportProceeding(ok) PROVE FitInv'
  BY <1>15, FeedbackEffect DEF ReportProceeding, PollReturn
<1>16. CASE InstallRefused
  BY <1>16 DEF InstallRefused
<1>17. CASE InstallErase
  BY <1>17 DEF InstallErase, EraseSlot1
<1>18. CASE InstallFails
  BY <1>18 DEF InstallFails, FillSlot1
<1>19. CASE InstallSucceeds
  BY <1>19 DEF InstallSucceeds, FillSlot1
<1>20. CASE TriggerUpgrade
  BY <1>20 DEF TriggerUpgrade, RequestUpgrade
<1>21. CASE UpdateAcidErase
  BY <1>21 DEF UpdateAcidErase, AcidUpdateErase, EraseAcid
<1>22. CASE UpdateAcidWrite
  BY <1>22 DEF UpdateAcidWrite, AcidUpdateWrite, WriteAcid
<1>23. CASE Reset
  BY <1>23 DEF Reset, BootLoader, TestSwap, RejectUpgrade, Revert, PlainBoot
<1>24. CASE Assign
  BY <1>24 DEF Assign
<1>25. CASE UNCHANGED vars
  BY <1>25 DEF vars
<1> QED
  BY <1>1, <1>2, <1>3, <1>4, <1>5, <1>6, <1>7, <1>8, <1>9, <1>10, <1>11, <1>12, <1>13,
     <1>14, <1>15, <1>16, <1>17, <1>18, <1>19, <1>20, <1>21, <1>22, <1>23, <1>24, <1>25
  DEF Next, InitFlash, Poll, SysReboot, SpontaneousReset

LEMMA RefusedStep ==
  ASSUME NothingForgotten
  PROVE  BaseInv /\ KInv /\ [Next]_vars => RefusedInv'
<1> SUFFICES ASSUME BaseInv, KInv, [Next]_vars PROVE RefusedInv'
  OBVIOUS
<1> USE FlashAssumption, HawkbitAssumption
    DEF KInv, NothingForgotten, FitInv, RefusedInv, KnownInv, Named, Swaps, BaseInv, TypeOK,
        FlashTypeOK, BootInv, WorkInv, Status, Image, Acid, AcidWord, BlankAcid, InitPc,
        InstallPc, UpdatePc, flashVars, localVars, Result
<1>1. CASE InitConfirmed
  BY <1>1 DEF InitConfirmed
<1>2. CASE InitConfirm
  BY <1>2 DEF InitConfirm, WriteConfirmed
<1>3. CASE InitEraseBank
  BY <1>3 DEF InitEraseBank, EraseSlot1
<1>4. CASE InitAcidErase
  BY <1>4 DEF InitAcidErase, AcidUpdateErase, EraseAcid
<1>5. CASE InitAcidWrite
  BY <1>5 DEF InitAcidWrite, AcidUpdateWrite, WriteAcid
<1>6. CASE PollOffered
  BY <1>6 DEF PollOffered
<1>7. CASE PollNothing
  BY <1>7 DEF PollNothing, PollReturn
<1>8. CASE PollFails
  BY <1>8 DEF PollFails, PollReturn
<1>9. CASE DeploymentQueryFails
  BY <1>9 DEF DeploymentQueryFails, PollReturn
<1>10. CASE DeploymentMalformed
  <2> SUFFICES ASSUME NEW a \in Actions, json_acid' = a, server[a] = "open" PROVE slot0 # a
    BY <1>10 DEF DeploymentMalformed
  <2>1. /\ pc = "dep_query" /\ deployment_base \in Actions /\ server[deployment_base] = "open"
        /\ \/ deployment_base \in Unfit /\ a = deployment_base
           \/ deployment_base \in Unparsable /\ a = json_acid
    BY <1>10 DEF DeploymentMalformed
  <2>2. a \in Refused
    <3>1. CASE "net" \notin Faults
      BY <2>1, <3>1 DEF LeftOverInv, Refused
    <3>2. CASE ~Overlap
      BY <2>1, <3>2 DEF OneOpenInv, Refused
    <3> QED
      BY <2>1, <3>1, <3>2 DEF Refused
  <2> QED
    BY <2>2
<1>11. CASE DeploymentParsed
  BY <1>11 DEF DeploymentParsed
<1>12. CASE AcidCheck
  BY <1>12 DEF AcidCheck
<1>13. ASSUME NEW ok \in BOOLEAN, ReportSuccess(ok) PROVE RefusedInv'
  BY <1>13, FeedbackEffect DEF ReportSuccess, PollReturn
<1>14. ASSUME NEW ok \in BOOLEAN, ReportFailure(ok) PROVE RefusedInv'
  BY <1>14, FeedbackEffect DEF ReportFailure, PollReturn
<1>15. ASSUME NEW ok \in BOOLEAN, ReportProceeding(ok) PROVE RefusedInv'
  BY <1>15, FeedbackEffect DEF ReportProceeding, PollReturn
<1>16. CASE InstallRefused
  BY <1>16 DEF InstallRefused
<1>17. CASE InstallErase
  BY <1>17 DEF InstallErase, EraseSlot1
<1>18. CASE InstallFails
  BY <1>18 DEF InstallFails, FillSlot1
<1>19. CASE InstallSucceeds
  BY <1>19 DEF InstallSucceeds, FillSlot1
<1>20. CASE TriggerUpgrade
  BY <1>20 DEF TriggerUpgrade, RequestUpgrade
<1>21. CASE UpdateAcidErase
  BY <1>21 DEF UpdateAcidErase, AcidUpdateErase, EraseAcid
<1>22. CASE UpdateAcidWrite
  BY <1>22 DEF UpdateAcidWrite, AcidUpdateWrite, WriteAcid
<1>23. CASE SysReboot
  BY <1>23 DEF SysReboot, Reset, BootLoader, TestSwap, RejectUpgrade, Revert, PlainBoot
<1>24. CASE Assign
  BY <1>24 DEF Assign, AssignedInv
<1>25. CASE UNCHANGED vars
  BY <1>25 DEF vars
<1> QED
  BY <1>1, <1>2, <1>3, <1>4, <1>5, <1>6, <1>7, <1>8, <1>9, <1>10, <1>11, <1>12, <1>13,
     <1>14, <1>15, <1>16, <1>17, <1>18, <1>19, <1>20, <1>21, <1>22, <1>23, <1>24, <1>25
  DEF Next, InitFlash, Poll, SpontaneousReset

LEMMA KnownStep ==
  ASSUME NothingForgotten
  PROVE  BaseInv /\ KInv /\ [Next]_vars => KnownInv'
<1> SUFFICES ASSUME BaseInv, KInv, [Next]_vars PROVE KnownInv'
  OBVIOUS
<1> USE FlashAssumption, HawkbitAssumption
    DEF KInv, NothingForgotten, FitInv, RefusedInv, KnownInv, Named, Swaps, AssignedInv,
        OneOpenInv, BaseInv, TypeOK, FlashTypeOK, BootInv, WorkInv, Status, Image, Acid,
        AcidWord, BlankAcid, InitPc, InstallPc, UpdatePc, flashVars, localVars, Result
<1>1. CASE InitConfirmed
  BY <1>1 DEF InitConfirmed
<1>2. CASE InitConfirm
  BY <1>2 DEF InitConfirm, WriteConfirmed
<1>3. CASE InitEraseBank
  BY <1>3 DEF InitEraseBank, EraseSlot1
<1>4. CASE InitAcidErase
  BY <1>4 DEF InitAcidErase, AcidUpdateErase, EraseAcid
<1>5. CASE InitAcidWrite
  BY <1>5 DEF InitAcidWrite, AcidUpdateWrite, WriteAcid
<1>6. CASE PollOffered
  BY <1>6 DEF PollOffered
<1>7. CASE PollNothing
  BY <1>7 DEF PollNothing, PollReturn
<1>8. CASE PollFails
  BY <1>8 DEF PollFails, PollReturn
<1>9. CASE DeploymentQueryFails
  BY <1>9 DEF DeploymentQueryFails, PollReturn
<1>10. CASE DeploymentMalformed
  BY <1>10 DEF DeploymentMalformed
<1>11. CASE DeploymentParsed
  BY <1>11 DEF DeploymentParsed
<1>12. CASE AcidCheck
  BY <1>12 DEF AcidCheck
<1>13. ASSUME NEW ok \in BOOLEAN, ReportSuccess(ok) PROVE KnownInv'
  BY <1>13, FeedbackEffect DEF ReportSuccess, PollReturn
<1>14. ASSUME NEW ok \in BOOLEAN, ReportFailure(ok) PROVE KnownInv'
  BY <1>14, FeedbackEffect, FinalIsDelivered DEF ReportFailure, PollReturn
<1>15. ASSUME NEW ok \in BOOLEAN, ReportProceeding(ok) PROVE KnownInv'
  BY <1>15, FeedbackEffect DEF ReportProceeding, PollReturn
<1>16. CASE InstallRefused
  BY <1>16 DEF InstallRefused
<1>17. CASE InstallErase
  BY <1>17 DEF InstallErase, EraseSlot1
<1>18. CASE InstallFails
  BY <1>18 DEF InstallFails, FillSlot1
<1>19. CASE InstallSucceeds
  BY <1>19 DEF InstallSucceeds, FillSlot1
<1>20. CASE TriggerUpgrade
  BY <1>20 DEF TriggerUpgrade, RequestUpgrade
<1>21. CASE UpdateAcidErase
  <2>1. PICK ok \in Result("flash") :
          /\ device_acid' = IF ok THEN [acid EXCEPT !.update = json_acid] ELSE BlankAcid
          /\ pc' = IF ok THEN "update_acid_write" ELSE "failure"
          /\ UNCHANGED <<slot0, slot1, upgrade, json_acid, server>>
    BY <1>21 DEF UpdateAcidErase, AcidUpdateErase, EraseAcid
  <2>2. pc = "update_acid" /\ server[json_acid] = "open" /\ json_acid \in Actions
    BY <1>21 DEF UpdateAcidErase
  <2>3. CASE ok
    <3>1. device_acid'.current = acid.current /\ device_acid'.update = json_acid
      BY <2>1, <2>3
    <3> QED
      BY <2>1, <2>2, <2>3, <3>1
  <2>4. CASE ~ok
    <3>1. "flash" \in Faults
      BY <2>1, <2>4
    <3>2. \A a \in Actions : server[a] = "open" => a = json_acid
      BY <2>2, <3>1
    <3> QED
      BY <2>1, <2>2, <2>4, <3>1, <3>2
  <2> QED
    BY <2>3, <2>4
<1>22. CASE UpdateAcidWrite
  BY <1>22 DEF UpdateAcidWrite, AcidUpdateWrite, WriteAcid
<1>23. CASE SysReboot
  BY <1>23 DEF SysReboot, Reset, BootLoader, TestSwap, RejectUpgrade, Revert, PlainBoot
<1>24. CASE Assign
  BY <1>24 DEF Assign
<1>25. CASE UNCHANGED vars
  BY <1>25 DEF vars
<1> QED
  BY <1>1, <1>2, <1>3, <1>4, <1>5, <1>6, <1>7, <1>8, <1>9, <1>10, <1>11, <1>12, <1>13,
     <1>14, <1>15, <1>16, <1>17, <1>18, <1>19, <1>20, <1>21, <1>22, <1>23, <1>24, <1>25
  DEF Next, InitFlash, Poll, SpontaneousReset

LEMMA KStep ==
  ASSUME NothingForgotten
  PROVE  BaseInv /\ KInv /\ [Next]_vars => KInv'
BY AssignedStep, OneOpenStep, LeftOverStep, FitStep, RefusedStep, KnownStep DEF KInv

\* An action is closed as failed only while the device does not run its image:
\* requests, downloads and images may fail, for any number of open actions, and
\* flash too if actions do not overlap and no request is lost.  A deployment that
\* cannot be parsed does no harm unless actions overlap and requests are lost.
THEOREM FailureIsTruthful ==
  ASSUME NothingForgotten
  PROVE  Spec => FailureTruthful
<1>1. Init => BaseInv /\ KInv
  BY BaseInit, IInit, FlashAssumption, HawkbitAssumption
  DEF Init, FlashInit, IInv, KInv, LeftOverInv, FitInv, Refused, RefusedInv, KnownInv,
      InstallPc, UpdatePc
<1>2. BaseInv /\ KInv /\ [Next]_vars =>
        [\A a \in Actions : server[a] # "failed" /\ server'[a] = "failed"
            => slot0 # a]_vars
  BY FinalIsReported DEF KInv, RefusedInv
<1> QED
  BY <1>1, <1>2, BaseStep, KStep, PTL DEF Spec, FailureTruthful
=============================================================================

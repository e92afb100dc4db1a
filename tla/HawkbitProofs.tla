--------------------------- MODULE HawkbitProofs ---------------------------
(* Proofs about Hawkbit, for every set of actions and every set of faults. *)
EXTENDS Hawkbit, TLAPS

\* A feedback closes the action it names, if that is open, or changes nothing.
LEMMA FeedbackEffect ==
  ASSUME server \in [Actions -> Status], NEW ok, NEW status, Feedback(status, ok)
  PROVE  /\ UNCHANGED <<flashVars, last_flashed>>
         /\ server' \in [Actions -> Status]
         /\ \A a \in Actions :
              \/ server'[a] = server[a]
              \/ /\ a = json_acid
                 /\ server[a] = "open"
                 /\ status \in {"succeeded", "failed"}
                 /\ server'[a] = status
<1>1. UNCHANGED <<flashVars, last_flashed>>
  BY DEF Feedback
<1>2. PICK reached \in BOOLEAN :
         server' = [a \in Actions |->
                      IF /\ reached /\ a = json_acid /\ server[a] = "open"
                         /\ status \in {"succeeded", "failed"}
                      THEN status ELSE server[a]]
  BY DEF Feedback
<1>3. ASSUME NEW a \in Actions
      PROVE  \/ server'[a] = server[a]
             \/ a = json_acid /\ server[a] = "open" /\ status \in {"succeeded", "failed"}
                  /\ server'[a] = status
  BY <1>2
<1>4. server' \in [Actions -> Status]
  BY <1>2 DEF Status
<1> QED
  BY <1>1, <1>3, <1>4

LEMMA BaseInit == Init => BaseInv
<1> SUFFICES ASSUME Init PROVE BaseInv
  OBVIOUS
<1>1. server \in [Actions -> Status]
  BY DEF Init, Status
<1>2. acid \in Acid /\ device_acid \in Acid
  BY DEF Init, FlashInit, Acid, AcidWord, BlankAcid
<1>3. failures \in 0..MaxServerFail
  BY HawkbitAssumption DEF Init
<1>4. TypeOK
  BY <1>1, <1>2, <1>3
  DEF Init, FlashInit, TypeOK, FlashTypeOK, Image, InitPc, Acids
<1>5. BootInv
  BY DEF Init, FlashInit, BootInv, Image
<1>6. WorkInv
  BY HawkbitAssumption DEF Init, WorkInv, InstallPc, UpdatePc
<1> QED
  BY <1>4, <1>5, <1>6 DEF BaseInv

LEMMA BaseStep == BaseInv /\ [Next]_vars => BaseInv'
<1> SUFFICES ASSUME BaseInv, [Next]_vars PROVE BaseInv'
  OBVIOUS
<1> USE FlashAssumption, HawkbitAssumption
    DEF BaseInv, TypeOK, FlashTypeOK, BootInv, WorkInv, Image, Acid, AcidWord, BlankAcid,
        InitPc, PollPc, UpdatePc, InstallPc, Status, Acids, flashVars, localVars, Result
<1>1. CASE InitConfirmed BY <1>1 DEF InitConfirmed
<1>2. CASE InitConfirm BY <1>2 DEF InitConfirm, WriteConfirmed
<1>3. CASE InitEraseBank BY <1>3 DEF InitEraseBank, EraseSlot1
<1>4. CASE InitAcidErase BY <1>4 DEF InitAcidErase, AcidUpdateErase, EraseAcid
<1>5. CASE InitAcidWrite BY <1>5 DEF InitAcidWrite, AcidUpdateWrite, WriteAcid
<1>6. CASE PollOffered BY <1>6 DEF PollOffered
<1>7. CASE PollNothing BY <1>7 DEF PollNothing, PollReturn
<1>8. CASE PollFails BY <1>8 DEF PollFails, PollReturn
<1>9. CASE DeploymentQueryFails BY <1>9 DEF DeploymentQueryFails, PollReturn
<1>10. CASE DeploymentMalformed BY <1>10 DEF DeploymentMalformed
<1>11. CASE DeploymentParsed BY <1>11 DEF DeploymentParsed
<1>12. CASE AcidCheck BY <1>12 DEF AcidCheck
<1>13. ASSUME NEW ok \in BOOLEAN, ReportSuccess(ok) PROVE BaseInv'
  BY <1>13, FeedbackEffect DEF ReportSuccess, PollReturn
<1>14. ASSUME NEW ok \in BOOLEAN, ReportFailure(ok) PROVE BaseInv'
  BY <1>14, FeedbackEffect DEF ReportFailure, PollReturn
<1>15. ASSUME NEW ok \in BOOLEAN, ReportProceeding(ok) PROVE BaseInv'
  BY <1>15, FeedbackEffect DEF ReportProceeding, PollReturn
<1>16. CASE InstallErase BY <1>16 DEF InstallErase, EraseSlot1
<1>17. CASE InstallFails BY <1>17 DEF InstallFails, FillSlot1
<1>18. CASE InstallSucceeds BY <1>18 DEF InstallSucceeds, FillSlot1
<1>19. CASE TriggerUpgrade BY <1>19 DEF TriggerUpgrade, RequestUpgrade
<1>20. CASE UpdateAcidErase BY <1>20 DEF UpdateAcidErase, AcidUpdateErase, EraseAcid
<1>21. CASE UpdateAcidWrite BY <1>21 DEF UpdateAcidWrite, AcidUpdateWrite, WriteAcid
<1>22. CASE Reset
  <2>1. failures' = 0 /\ 0 < MaxServerFail /\ failures' \in 0..MaxServerFail
    BY <1>22 DEF Reset
  <2>2. /\ device_acid' \in Acid /\ acid' = acid
        /\ pc' = "init_flash" /\ json_acid' = NoAcid /\ deployment_base' = NoAcid
        /\ UNCHANGED <<server, last_flashed>>
    BY <1>22 DEF Reset, BootLoader
  <2>3. CASE TestSwap
    <3>1. slot0' \in Image /\ slot1' \in Image /\ image_ok' = "trial" /\ upgrade' = FALSE
      BY <2>3 DEF TestSwap
    <3> QED BY <2>1, <2>2, <3>1
  <2>4. CASE RejectUpgrade
    <3>1. UNCHANGED <<slot0, slot1, image_ok>> /\ upgrade' = FALSE
      BY <2>4 DEF RejectUpgrade
    <3> QED BY <2>1, <2>2, <3>1
  <2>5. CASE Revert BY <1>22, <2>1, <2>5 DEF Reset, BootLoader, Revert
  <2>6. CASE PlainBoot BY <1>22, <2>1, <2>6 DEF Reset, BootLoader, PlainBoot
  <2> QED BY <1>22, <2>3, <2>4, <2>5, <2>6 DEF Reset, BootLoader
<1>23. CASE Assign BY <1>23 DEF Assign
<1>24. CASE UNCHANGED vars BY <1>24 DEF vars
<1>25. CASE InstallRefused BY <1>25 DEF InstallRefused
<1> QED
  BY <1>1, <1>2, <1>3, <1>4, <1>5, <1>6, <1>7, <1>8, <1>9, <1>10, <1>11, <1>12, <1>13, <1>14,
     <1>15, <1>16, <1>17, <1>18, <1>19, <1>20, <1>21, <1>22, <1>23, <1>24, <1>25
  DEF Next, InitFlash, Poll, SysReboot, SpontaneousReset

\* The variables stay within their types: the ids on flash are never garbage,
\* and the failure counter never passes its limit.
THEOREM TypeCorrect == Spec => []TypeOK
<1>1. BaseInv => TypeOK
  BY DEF BaseInv
<1> QED
  BY BaseInit, BaseStep, <1>1, PTL DEF Spec

\* Slot 0 holds a whole image in every state, whatever faults happen and even
\* when the server has several actions open (Overlap).
THEOREM AlwaysBootable == Spec => []SlotZeroBootable
<1>1. BaseInv => SlotZeroBootable
  BY DEF BaseInv, BootInv, SlotZeroBootable
<1> QED
  BY BaseInit, BaseStep, <1>1, PTL DEF Spec

\* The part of the inductive invariant that needs no assumption: the image on
\* trial keeps its fallback until it is confirmed, a boot starts without a request
\* pending, and the action in hand is open from its parse to the reboot.
THEOREM WorkerInvariant == Spec => []BaseInv
BY BaseInit, BaseStep, PTL DEF Spec

-----------------------------------------------------------------------------
(* What ids, images and open actions say of one another.                   *)

LEMMA IInit == Init => IInv
<1> SUFFICES ASSUME Init PROVE IInv
  OBVIOUS
<1>1. BaseInv
  BY BaseInit
<1>2. AssignedInv
  BY FlashAssumption, HawkbitAssumption DEF Init, FlashInit, BlankAcid, AssignedInv
<1>3. OneOpenInv /\ AcidInv /\ PcInv
  BY DEF Init, FlashInit, OneOpenInv, AcidInv, PcInv, InstallPc, UpdatePc
<1> QED
  BY <1>1, <1>2, <1>3 DEF IInv

LEMMA AssignedStep == BaseInv /\ AssignedInv /\ [Next]_vars => AssignedInv'
<1> SUFFICES ASSUME BaseInv, AssignedInv, [Next]_vars,
                    NEW a \in Actions, server'[a] = "unassigned"
             PROVE  /\ a \notin {slot0', slot1', json_acid', deployment_base'}
                    /\ a \notin {acid'.current, acid'.update}
                    /\ a \notin {device_acid'.current, device_acid'.update}
  BY DEF AssignedInv
<1> USE FlashAssumption, HawkbitAssumption
    DEF BaseInv, TypeOK, FlashTypeOK, WorkInv, AssignedInv, Acid, BlankAcid, InstallPc,
        UpdatePc, Status, flashVars, localVars, Result
<1>1. CASE InitConfirmed BY <1>1 DEF InitConfirmed
<1>2. CASE InitConfirm BY <1>2 DEF InitConfirm, WriteConfirmed
<1>3. CASE InitEraseBank BY <1>3 DEF InitEraseBank, EraseSlot1
<1>4. CASE InitAcidErase BY <1>4 DEF InitAcidErase, AcidUpdateErase, EraseAcid
<1>5. CASE InitAcidWrite BY <1>5 DEF InitAcidWrite, AcidUpdateWrite, WriteAcid
<1>6. CASE PollOffered BY <1>6 DEF PollOffered
<1>7. CASE PollNothing BY <1>7 DEF PollNothing, PollReturn
<1>8. CASE PollFails BY <1>8 DEF PollFails, PollReturn
<1>9. CASE DeploymentQueryFails BY <1>9 DEF DeploymentQueryFails, PollReturn
<1>10. CASE DeploymentMalformed BY <1>10 DEF DeploymentMalformed
<1>11. CASE DeploymentParsed BY <1>11 DEF DeploymentParsed
<1>12. CASE AcidCheck BY <1>12 DEF AcidCheck
<1>13. ASSUME NEW ok \in BOOLEAN, ReportSuccess(ok)
        PROVE  /\ a \notin {slot0', slot1', json_acid', deployment_base'}
               /\ a \notin {acid'.current, acid'.update}
               /\ a \notin {device_acid'.current, device_acid'.update}
  BY <1>13, FeedbackEffect DEF ReportSuccess, PollReturn
<1>14. ASSUME NEW ok \in BOOLEAN, ReportFailure(ok)
        PROVE  /\ a \notin {slot0', slot1', json_acid', deployment_base'}
               /\ a \notin {acid'.current, acid'.update}
               /\ a \notin {device_acid'.current, device_acid'.update}
  BY <1>14, FeedbackEffect DEF ReportFailure, PollReturn
<1>15. ASSUME NEW ok \in BOOLEAN, ReportProceeding(ok)
        PROVE  /\ a \notin {slot0', slot1', json_acid', deployment_base'}
               /\ a \notin {acid'.current, acid'.update}
               /\ a \notin {device_acid'.current, device_acid'.update}
  BY <1>15, FeedbackEffect DEF ReportProceeding, PollReturn
<1>16. CASE InstallErase BY <1>16 DEF InstallErase, EraseSlot1
<1>17. CASE InstallFails BY <1>17 DEF InstallFails, FillSlot1
<1>18. CASE InstallSucceeds BY <1>18 DEF InstallSucceeds, FillSlot1
<1>19. CASE TriggerUpgrade BY <1>19 DEF TriggerUpgrade, RequestUpgrade
<1>20. CASE UpdateAcidErase BY <1>20 DEF UpdateAcidErase, AcidUpdateErase, EraseAcid
<1>21. CASE UpdateAcidWrite BY <1>21 DEF UpdateAcidWrite, AcidUpdateWrite, WriteAcid
<1>22. CASE Reset BY <1>22 DEF Reset, BootLoader, TestSwap, RejectUpgrade, Revert, PlainBoot
<1>23. CASE Assign BY <1>23 DEF Assign
<1>24. CASE UNCHANGED vars BY <1>24 DEF vars
<1>25. CASE InstallRefused BY <1>25 DEF InstallRefused
<1> QED
  BY <1>1, <1>2, <1>3, <1>4, <1>5, <1>6, <1>7, <1>8, <1>9, <1>10, <1>11, <1>12,
     <1>13, <1>14, <1>15, <1>16, <1>17, <1>18, <1>19, <1>20, <1>21, <1>22, <1>23, <1>24,
     <1>25
  DEF Next, InitFlash, Poll, SysReboot, SpontaneousReset

\* Only what the server deployed gets on the device, whatever fails and however
\* actions overlap: no image in a slot and no id in memory or on flash is of an
\* action the server did not open.
THEOREM OnlyDeployedRuns == Spec => []AssignedInv
<1>1. Init => AssignedInv
  BY IInit DEF IInv
<1> QED
  BY <1>1, BaseInit, BaseStep, AssignedStep, PTL DEF Spec

LEMMA OneOpenStep ==
  ASSUME ~Overlap
  PROVE  BaseInv /\ OneOpenInv /\ [Next]_vars => OneOpenInv'
<1> SUFFICES ASSUME BaseInv, OneOpenInv, [Next]_vars PROVE OneOpenInv'
  OBVIOUS
<1> USE DEF BaseInv, TypeOK, OneOpenInv
<1>1. CASE UNCHANGED server BY <1>1
<1>2. ASSUME NEW ok, NEW status, Feedback(status, ok) PROVE OneOpenInv'
  BY <1>2, FeedbackEffect
<1>3. CASE Assign BY <1>3 DEF Assign
<1> QED
  BY <1>1, <1>2, <1>3
  DEF Next, InitFlash, Poll, SysReboot, SpontaneousReset, ReportSuccess, ReportFailure,
      ReportProceeding, InitConfirmed, InitConfirm, InitEraseBank, InitAcidErase,
      InitAcidWrite, AcidUpdateErase, AcidUpdateWrite, PollOffered, PollNothing, PollFails,
      DeploymentQueryFails, DeploymentMalformed, DeploymentParsed, AcidCheck,
      InstallRefused, InstallErase, InstallFails, InstallSucceeds, TriggerUpgrade,
      UpdateAcidErase, UpdateAcidWrite, Reset, vars

LEMMA AcidStep == IInv /\ [Next]_vars => AcidInv'
<1> SUFFICES ASSUME IInv, [Next]_vars, NEW a \in Actions, server'[a] = "open"
             PROVE  /\ acid'.current = a => slot0' = a /\ image_ok' = "confirmed" /\ ~upgrade'
                    /\ acid'.update = a =>
                         /\ upgrade' => slot1' \in {a, Junk}
                         /\ image_ok' = "trial" \/ pc' \in {"erase_bank", "init_acid"} => slot0' = a
  BY DEF AcidInv
<1> USE FlashAssumption, HawkbitAssumption
    DEF IInv, BaseInv, TypeOK, FlashTypeOK, BootInv, WorkInv, AssignedInv, OneOpenInv,
        AcidInv, PcInv, Acid, BlankAcid, InitPc, InstallPc, UpdatePc, Status, flashVars,
        localVars, Result
<1>1. CASE InitConfirmed BY <1>1 DEF InitConfirmed
<1>2. CASE InitConfirm BY <1>2 DEF InitConfirm, WriteConfirmed
<1>3. CASE InitEraseBank BY <1>3 DEF InitEraseBank, EraseSlot1
<1>4. CASE InitAcidErase BY <1>4 DEF InitAcidErase, AcidUpdateErase, EraseAcid
<1>5. CASE InitAcidWrite BY <1>5 DEF InitAcidWrite, AcidUpdateWrite, WriteAcid
<1>6. CASE PollOffered BY <1>6 DEF PollOffered
<1>7. CASE PollNothing BY <1>7 DEF PollNothing, PollReturn
<1>8. CASE PollFails BY <1>8 DEF PollFails, PollReturn
<1>9. CASE DeploymentQueryFails BY <1>9 DEF DeploymentQueryFails, PollReturn
<1>10. CASE DeploymentMalformed BY <1>10 DEF DeploymentMalformed
<1>11. CASE DeploymentParsed BY <1>11 DEF DeploymentParsed
<1>12. CASE AcidCheck BY <1>12 DEF AcidCheck
<1>13. ASSUME NEW ok \in BOOLEAN, ReportSuccess(ok)
        PROVE  /\ acid'.current = a => slot0' = a /\ image_ok' = "confirmed" /\ ~upgrade'
               /\ acid'.update = a =>
                    /\ upgrade' => slot1' \in {a, Junk}
                    /\ image_ok' = "trial" \/ pc' \in {"erase_bank", "init_acid"} => slot0' = a
  BY <1>13, FeedbackEffect DEF ReportSuccess, PollReturn
<1>14. ASSUME NEW ok \in BOOLEAN, ReportFailure(ok)
        PROVE  /\ acid'.current = a => slot0' = a /\ image_ok' = "confirmed" /\ ~upgrade'
               /\ acid'.update = a =>
                    /\ upgrade' => slot1' \in {a, Junk}
                    /\ image_ok' = "trial" \/ pc' \in {"erase_bank", "init_acid"} => slot0' = a
  BY <1>14, FeedbackEffect DEF ReportFailure, PollReturn
<1>15. ASSUME NEW ok \in BOOLEAN, ReportProceeding(ok)
        PROVE  /\ acid'.current = a => slot0' = a /\ image_ok' = "confirmed" /\ ~upgrade'
               /\ acid'.update = a =>
                    /\ upgrade' => slot1' \in {a, Junk}
                    /\ image_ok' = "trial" \/ pc' \in {"erase_bank", "init_acid"} => slot0' = a
  BY <1>15, FeedbackEffect DEF ReportProceeding, PollReturn
<1>16. CASE InstallErase BY <1>16 DEF InstallErase, EraseSlot1
<1>17. CASE InstallFails BY <1>17 DEF InstallFails, FillSlot1
<1>18. CASE InstallSucceeds BY <1>18 DEF InstallSucceeds, FillSlot1
<1>19. CASE TriggerUpgrade BY <1>19 DEF TriggerUpgrade, RequestUpgrade
<1>20. CASE UpdateAcidErase BY <1>20 DEF UpdateAcidErase, AcidUpdateErase, EraseAcid
<1>21. CASE UpdateAcidWrite BY <1>21 DEF UpdateAcidWrite, AcidUpdateWrite, WriteAcid
<1>22. CASE Reset BY <1>22 DEF Reset, BootLoader, TestSwap, RejectUpgrade, Revert, PlainBoot
<1>23. CASE Assign BY <1>23 DEF Assign
<1>24. CASE UNCHANGED vars BY <1>24 DEF vars
<1>25. CASE InstallRefused BY <1>25 DEF InstallRefused
<1> QED
  BY <1>1, <1>2, <1>3, <1>4, <1>5, <1>6, <1>7, <1>8, <1>9, <1>10, <1>11, <1>12,
     <1>13, <1>14, <1>15, <1>16, <1>17, <1>18, <1>19, <1>20, <1>21, <1>22, <1>23, <1>24,
     <1>25
  DEF Next, InitFlash, Poll, SysReboot, SpontaneousReset

LEMMA PcStep == IInv /\ [Next]_vars => PcInv'
<1> SUFFICES ASSUME IInv, [Next]_vars PROVE PcInv'
  OBVIOUS
<1> USE FlashAssumption, HawkbitAssumption
    DEF IInv, BaseInv, TypeOK, FlashTypeOK, BootInv, WorkInv, AssignedInv, OneOpenInv,
        AcidInv, PcInv, Acid, BlankAcid, InitPc, InstallPc, UpdatePc, Status, flashVars,
        localVars, Result
<1>1. CASE InitConfirmed BY <1>1 DEF InitConfirmed
<1>2. CASE InitConfirm BY <1>2 DEF InitConfirm, WriteConfirmed
<1>3. CASE InitEraseBank BY <1>3 DEF InitEraseBank, EraseSlot1
<1>4. CASE InitAcidErase BY <1>4 DEF InitAcidErase, AcidUpdateErase, EraseAcid
<1>5. CASE InitAcidWrite BY <1>5 DEF InitAcidWrite, AcidUpdateWrite, WriteAcid
<1>6. CASE PollOffered BY <1>6 DEF PollOffered
<1>7. CASE PollNothing BY <1>7 DEF PollNothing, PollReturn
<1>8. CASE PollFails BY <1>8 DEF PollFails, PollReturn
<1>9. CASE DeploymentQueryFails BY <1>9 DEF DeploymentQueryFails, PollReturn
<1>10. CASE DeploymentMalformed BY <1>10 DEF DeploymentMalformed
<1>11. CASE DeploymentParsed BY <1>11 DEF DeploymentParsed
<1>12. CASE AcidCheck BY <1>12 DEF AcidCheck
<1>13. ASSUME NEW ok \in BOOLEAN, ReportSuccess(ok) PROVE PcInv'
  BY <1>13, FeedbackEffect DEF ReportSuccess, PollReturn
<1>14. ASSUME NEW ok \in BOOLEAN, ReportFailure(ok) PROVE PcInv'
  BY <1>14, FeedbackEffect DEF ReportFailure, PollReturn
<1>15. ASSUME NEW ok \in BOOLEAN, ReportProceeding(ok) PROVE PcInv'
  BY <1>15, FeedbackEffect DEF ReportProceeding, PollReturn
<1>16. CASE InstallErase BY <1>16 DEF InstallErase, EraseSlot1
<1>17. CASE InstallFails BY <1>17 DEF InstallFails, FillSlot1
<1>18. CASE InstallSucceeds BY <1>18 DEF InstallSucceeds, FillSlot1
<1>19. CASE TriggerUpgrade BY <1>19 DEF TriggerUpgrade, RequestUpgrade
<1>20. CASE UpdateAcidErase BY <1>20 DEF UpdateAcidErase, AcidUpdateErase, EraseAcid
<1>21. CASE UpdateAcidWrite BY <1>21 DEF UpdateAcidWrite, AcidUpdateWrite, WriteAcid
<1>22. CASE Reset BY <1>22 DEF Reset, BootLoader, TestSwap, RejectUpgrade, Revert, PlainBoot
<1>23. CASE Assign BY <1>23 DEF Assign
<1>24. CASE UNCHANGED vars BY <1>24 DEF vars
<1>25. CASE InstallRefused BY <1>25 DEF InstallRefused
<1> QED
  BY <1>1, <1>2, <1>3, <1>4, <1>5, <1>6, <1>7, <1>8, <1>9, <1>10, <1>11, <1>12,
     <1>13, <1>14, <1>15, <1>16, <1>17, <1>18, <1>19, <1>20, <1>21, <1>22, <1>23, <1>24,
     <1>25
  DEF Next, InitFlash, Poll, SysReboot, SpontaneousReset

LEMMA IStep ==
  ASSUME ~Overlap
  PROVE  IInv /\ [Next]_vars => IInv'
BY BaseStep, AssignedStep, OneOpenStep, AcidStep, PcStep DEF IInv

\* Only a delivered feedback closes an action.
LEMMA OnlyReportsClose ==
  ASSUME BaseInv, [Next]_vars, NEW a \in Actions,
         server[a] # server'[a], server'[a] # "open"
  PROVE  \E ok \in BOOLEAN : ReportSuccess(ok) \/ ReportFailure(ok)
<1>1. ~UNCHANGED server
  OBVIOUS
<1>2. ~Assign
  BY DEF Assign, BaseInv, TypeOK
<1>3. ASSUME NEW ok \in BOOLEAN, ReportProceeding(ok) PROVE FALSE
  BY <1>3, FeedbackEffect DEF ReportProceeding, BaseInv, TypeOK
<1> QED
  BY <1>1, <1>2, <1>3
  DEF Next, InitFlash, Poll, SysReboot, SpontaneousReset, InitConfirmed, InitConfirm,
      InitEraseBank, InitAcidErase, InitAcidWrite, AcidUpdateErase, AcidUpdateWrite,
      PollOffered, PollNothing, PollFails, DeploymentQueryFails, DeploymentMalformed,
      DeploymentParsed, AcidCheck, InstallRefused, InstallErase, InstallFails,
      InstallSucceeds, TriggerUpgrade, UpdateAcidErase, UpdateAcidWrite, Reset, vars

\* What a report of success and the boot loader rest on: an open action about
\* to be closed as successful runs, and a swap never installs the factory's image.
TruthInv ==
  /\ upgrade => slot1 # Factory
  /\ pc = "success" =>
       \A a \in Actions : a = json_acid /\ server[a] = "open" => slot0 = a

ContractInv == BaseInv /\ AssignedInv /\ TruthInv

LEMMA OneOpenContractInv == IInv => ContractInv
BY DEF IInv, ContractInv, TruthInv, PcInv, AcidInv

LEMMA SuccessStep ==
  ASSUME ContractInv, [Next]_vars, NEW a \in Actions,
         server[a] # "succeeded", server'[a] = "succeeded"
  PROVE  /\ a = json_acid
         /\ server[a] = "open"
         /\ slot0 = a
         /\ image_ok = "confirmed"
<1>1. PICK ok \in BOOLEAN : ReportSuccess(ok) \/ ReportFailure(ok)
  BY OnlyReportsClose DEF ContractInv
<1>2. server \in [Actions -> Status]
  BY DEF ContractInv, BaseInv, TypeOK
<1>3. ASSUME ReportFailure(ok) PROVE FALSE
  <2>1. Feedback("failed", ok)
    BY <1>3 DEF ReportFailure
  <2> QED
    BY <1>2, <2>1, FeedbackEffect
<1>4. pc = "success" /\ Feedback("succeeded", ok)
  BY <1>1, <1>3 DEF ReportSuccess
<1>5. a = json_acid /\ server[a] = "open"
  BY <1>2, <1>4, FeedbackEffect
<1> QED
  BY <1>4, <1>5 DEF ContractInv, BaseInv, BootInv, TypeOK, FlashTypeOK, TruthInv, InitPc

\* What the ids, the images and the server's actions say of one another at
\* every point where a reset or a fault of any kind can hit, when the server
\* has one action open at a time.
THEOREM ClientInvariant ==
  ASSUME ~Overlap
  PROVE  Spec => []IInv
BY IInit, IStep, PTL DEF Spec

-----------------------------------------------------------------------------
(* The client implements OtaContract.                                      *)

fallback == IF image_ok = "trial" THEN slot1 ELSE Junk

LEMMA ContractInit == Init => Contract!ContractInit
BY DEF Init, FlashInit, Contract!ContractInit

\* A step that leaves slot 0, the trial and the server alone is a stutter.
LEMMA ContractStutter ==
  ASSUME UNCHANGED <<slot0, server>>, fallback' = fallback
  PROVE  UNCHANGED Contract!contractVars
BY DEF Contract!contractVars, fallback

\* A feedback is one outcome of the contract, or none.
LEMMA ContractFeedback ==
  ASSUME ContractInv, [Next]_vars, NEW ok \in BOOLEAN, NEW status, Feedback(status, ok)
  PROVE  [Contract!ContractNext]_Contract!contractVars
<1>1. server \in [Actions -> Status] /\ server' \in [Actions -> Status]
  BY FeedbackEffect DEF ContractInv, BaseInv, TypeOK
<1>2. UNCHANGED <<slot0, slot1, image_ok>> /\ fallback' = fallback
  BY <1>1, FeedbackEffect DEF flashVars, fallback
<1>3. CASE server' = server
  BY <1>2, <1>3, ContractStutter
<1>4. CASE server' # server
  <2>1. PICK a \in Actions : server'[a] # server[a]
    BY <1>1, <1>4
  <2>2. /\ a = json_acid
        /\ server[a] = "open"
        /\ server'[a] = status
        /\ status \in {"succeeded", "failed"}
    BY <1>1, <2>1, FeedbackEffect
  <2>3. server' = [server EXCEPT ![a] = status]
    BY <1>1, <2>2, FeedbackEffect
  <2>4. CASE status = "failed"
    <3>1. Contract!Fail(a)
      BY <1>2, <2>2, <2>3, <2>4 DEF Contract!Fail, fallback
    <3> QED
      BY <3>1 DEF Contract!ContractNext
  <2>5. CASE status = "succeeded"
    <3>1. slot0 = a /\ image_ok = "confirmed"
      BY <2>2, <2>5, SuccessStep
    <3>2. Contract!Succeed(a)
      BY <1>2, <2>2, <2>3, <2>5, <3>1 DEF Contract!Succeed, fallback
    <3> QED
      BY <3>2 DEF Contract!ContractNext
  <2> QED
    BY <2>2, <2>4, <2>5
<1> QED
  BY <1>3, <1>4

\* The boot loader starts a trial, ends one, or changes nothing.
LEMMA ContractBoot ==
  ASSUME ContractInv, Reset
  PROVE  [Contract!ContractNext]_Contract!contractVars
<1> USE FlashAssumption
    DEF ContractInv, BaseInv, TypeOK, FlashTypeOK, BootInv, Image, Reset, BootLoader
<1>1. CASE TestSwap
  <2>1. slot0' = slot1 /\ slot1' = slot0 /\ image_ok' = "trial" /\ slot1 # Junk
    BY <1>1 DEF TestSwap
  <2>2. image_ok = "confirmed"
    BY <1>1 DEF TestSwap, InitPc
  <2>3. CASE slot1 \in Actions
    <3>1. server[slot1] # "unassigned"
      BY <2>3 DEF AssignedInv
    <3>2. Contract!Trial(slot1)
      BY <2>1, <2>2, <3>1 DEF Contract!Trial
    <3> QED
      BY <2>3, <3>2 DEF Contract!ContractNext
  <2>4. slot1 # Factory
    BY <1>1 DEF TestSwap, TruthInv
  <2> QED
    BY <2>1, <2>3, <2>4
<1>2. CASE RejectUpgrade
  BY <1>2, ContractStutter DEF RejectUpgrade, fallback
<1>3. CASE Revert
  <2>1. Contract!GoBack
    BY <1>3 DEF Revert, Contract!GoBack
  <2> QED
    BY <2>1 DEF Contract!ContractNext
<1>4. CASE PlainBoot
  BY <1>4, ContractStutter DEF PlainBoot, fallback
<1> QED
  BY <1>1, <1>2, <1>3, <1>4

LEMMA ContractConfirm ==
  ASSUME ContractInv, InitConfirm
  PROVE  [Contract!ContractNext]_Contract!contractVars
<1> USE DEF InitConfirm, WriteConfirmed, fallback
<1>1. CASE image_ok = "trial" /\ image_ok' = "confirmed"
  <2>1. slot1 # Junk
    BY <1>1, FlashAssumption DEF ContractInv, BaseInv, BootInv, Image
  <2>2. Contract!Confirm
    BY <1>1, <2>1 DEF Contract!Confirm
  <2> QED
    BY <2>2 DEF Contract!ContractNext
<1>2. CASE image_ok' = image_ok \/ image_ok # "trial"
  BY <1>2, ContractStutter
<1> QED
  BY <1>1, <1>2

LEMMA ContractAssign ==
  ASSUME ContractInv, Assign
  PROVE  [Contract!ContractNext]_Contract!contractVars
<1>1. PICK a \in Actions :
        server[a] = "unassigned" /\ server' = [server EXCEPT ![a] = "open"]
  BY DEF Assign
<1>2. Contract!Deploy(a)
  BY <1>1 DEF Assign, flashVars, Contract!Deploy
<1> QED
  BY <1>2 DEF Contract!ContractNext

LEMMA ContractStep ==
  ContractInv /\ [Next]_vars => [Contract!ContractNext]_Contract!contractVars
<1> SUFFICES ASSUME ContractInv, [Next]_vars
             PROVE  [Contract!ContractNext]_Contract!contractVars
  OBVIOUS
<1>1. CASE InitConfirm BY <1>1, ContractConfirm
<1>2. CASE Reset BY <1>2, ContractBoot
<1>3. CASE Assign BY <1>3, ContractAssign
<1>4. ASSUME NEW ok \in BOOLEAN, NEW status, Feedback(status, ok)
      PROVE  [Contract!ContractNext]_Contract!contractVars
  BY <1>4, ContractFeedback
<1>5. CASE InitConfirmed \/ PollOffered \/ PollNothing \/ PollFails \/ DeploymentQueryFails
           \/ DeploymentMalformed \/ DeploymentParsed \/ AcidCheck \/ InstallRefused
  <2>1. UNCHANGED <<flashVars, server>>
    BY <1>5 DEF InitConfirmed, PollOffered, PollNothing, PollFails, DeploymentQueryFails,
      DeploymentMalformed, DeploymentParsed, AcidCheck, InstallRefused
  <2> QED
    BY <2>1, ContractStutter DEF flashVars, fallback
<1>6. CASE InitEraseBank \/ InitAcidErase \/ InitAcidWrite \/ InstallErase \/ InstallFails
           \/ InstallSucceeds \/ TriggerUpgrade \/ UpdateAcidErase \/ UpdateAcidWrite
  <2>1. UNCHANGED <<slot0, image_ok, server>>
    BY <1>6
    DEF InitEraseBank, InitAcidErase, InitAcidWrite, InstallErase, InstallFails,
        InstallSucceeds, TriggerUpgrade, UpdateAcidErase, UpdateAcidWrite, AcidUpdateErase,
        AcidUpdateWrite, EraseSlot1, FillSlot1, RequestUpgrade, EraseAcid, WriteAcid,
        localVars
  <2>2. image_ok = "confirmed"
    BY <1>6 DEF ContractInv, BaseInv, BootInv, TypeOK, FlashTypeOK, InitEraseBank, InitAcidErase,
      InitAcidWrite, InstallErase, InstallFails, InstallSucceeds, TriggerUpgrade,
      UpdateAcidErase,
      UpdateAcidWrite, AcidUpdateErase, AcidUpdateWrite
  <2> QED
    BY <2>1, <2>2, ContractStutter DEF fallback
<1>7. CASE UNCHANGED vars
  BY <1>7, ContractStutter DEF vars, flashVars, fallback
<1> QED
  BY <1>1, <1>2, <1>3, <1>4, <1>5, <1>6, <1>7
  DEF Next, InitFlash, Poll, SysReboot, SpontaneousReset, ReportSuccess, ReportFailure,
      ReportProceeding
=============================================================================

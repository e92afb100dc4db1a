------------------------------ MODULE Hawkbit ------------------------------
(***************************************************************************)
(* The OTA worker of src/lib/hawkbit.c over the flash of DeviceFlash: what *)
(* hawkbit_start does to flash at boot, one run of hawkbit_work_fn after   *)
(* another with every step of hawkbit_ddi_poll that changes or reads       *)
(* state, and the resets that may fall between any two of those steps.     *)
(* hawkbit_install_update is one step here, with the outcomes that module  *)
(* Download derives from its callback, timeouts and size checks.           *)
(*                                                                         *)
(* The hawkBit server is external: it opens actions, offers an open action *)
(* in its base resource, and closes an action on a feedback.               *)
(***************************************************************************)
EXTENDS DeviceFlash, Naturals

CONSTANTS
  NoAcid,         \* json_acid before any deployment was parsed (the zero of
                  \* a static), and an empty deployment_base
  MaxServerFail,  \* HAWKBIT_MAX_SERVER_FAIL
  Overlap,        \* may the server open an action while another is open?
  Unfit,          \* the actions whose deployment hawkbit_parse_deployment
                  \* refuses after it has read the id: no chunk or artifact,
                  \* a part other than "os", an artifact too big or no link
  Unparsable,     \* the actions whose deployment json_obj_parse refuses before
                  \* that: several chunks, or artifacts in a chunk, where the
                  \* descriptors have room for one
  Faults          \* what may go wrong:
                  \*   "net"    requests or their answers are lost, downloads fail
                  \*   "json"   the server answers what the client cannot parse
                  \*   "image"  an artifact is one the boot loader rejects
                  \*   "flash"  flash operations report errors
                  \*   "reset"  resets (power, Bluetooth disconnect, crash)

ASSUME HawkbitAssumption ==
  /\ NoAcid \notin Actions
  /\ MaxServerFail \in Nat \ {0}
  /\ Overlap \in BOOLEAN
  /\ Unfit \subseteq Actions
  /\ Unparsable \subseteq Actions \ Unfit
  /\ Faults \subseteq {"net", "json", "image", "flash", "reset"}

VARIABLES
  pc,               \* where the main thread is
  json_acid,        \* static s32_t json_acid of hawkbit_ddi_poll
  failures,         \* hb_context.failures
  deployment_base,  \* the action of the link found in the base resource
  device_acid,      \* the copy held by hawkbit_device_acid_update
  server,           \* the server's view of each action
  last_flashed      \* history: the action whose upgrade was requested last

localVars == <<json_acid, failures, deployment_base, device_acid>>
vars == <<flashVars, pc, localVars, server, last_flashed>>

InitPc == {"init_flash", "erase_bank", "init_acid", "init_acid_write", "halted"}
UpdatePc == {"request_upgrade", "update_acid", "update_acid_write", "sys_reboot"}
PollPc == {"idle", "dep_query", "acid_check", "success", "failure",
           "proceeding", "erase_slot1", "download"}
Status == {"unassigned", "open", "succeeded", "failed"}
Acids == Actions \cup {NoAcid}

TypeOK ==
  /\ FlashTypeOK
  /\ pc \in InitPc \cup PollPc \cup UpdatePc
  /\ json_acid \in Acids
  /\ failures \in 0..MaxServerFail
  /\ deployment_base \in Acids
  /\ device_acid \in Acid
  /\ server \in [Actions -> Status]
  /\ last_flashed \in Acids

Init ==
  /\ FlashInit
  /\ pc = "init_flash"
  /\ json_acid = NoAcid
  /\ failures = 0
  /\ deployment_base = NoAcid
  /\ device_acid = BlankAcid
  /\ server = [a \in Actions |-> "unassigned"]
  /\ last_flashed = NoAcid

\* The results an operation may have under the faults allowed.
Result(fault) == IF fault \in Faults THEN BOOLEAN ELSE {TRUE}

-----------------------------------------------------------------------------
(* hawkbit_device_acid_update: read both ids, replace one, erase, write.   *)

AcidUpdateErase(new, next, failed) ==
  \E ok \in Result("flash") :
    /\ EraseAcid(ok)
    /\ device_acid' = IF ok THEN new ELSE BlankAcid
    /\ pc' = IF ok THEN next ELSE failed
    /\ UNCHANGED <<json_acid, failures, deployment_base, server, last_flashed>>

AcidUpdateWrite(next, failed) ==
  \E ok \in Result("flash") :
    /\ WriteAcid(device_acid, ok)
    /\ device_acid' = BlankAcid
    /\ pc' = IF ok THEN next ELSE failed
    /\ UNCHANGED <<json_acid, failures, deployment_base, server, last_flashed>>

-----------------------------------------------------------------------------
(* hawkbit_init_flash.  When it fails, hawkbit_start and main return.      *)

\* Mutant: an image on trial passes for a confirmed one.
InitTrialIsConfirmed ==
  /\ pc = "init_flash"
  /\ image_ok # "unset"
  /\ pc' = "idle"
  /\ UNCHANGED <<flashVars, localVars, server, last_flashed>>

InitConfirmed ==
  /\ pc = "init_flash"
  /\ image_ok = "confirmed"
  /\ pc' = "idle"
  /\ UNCHANGED <<flashVars, localVars, server, last_flashed>>

\* Mutant: the result of boot_write_img_confirmed is not looked at.
InitConfirmUnchecked ==
  /\ pc = "init_flash"
  /\ image_ok # "confirmed"
  /\ \E ok \in Result("flash") : WriteConfirmed(ok)
  /\ pc' = "erase_bank"
  /\ UNCHANGED <<localVars, server, last_flashed>>

InitConfirm ==
  /\ pc = "init_flash"
  /\ image_ok # "confirmed"
  /\ \E ok \in Result("flash") :
       /\ WriteConfirmed(ok)
       /\ pc' = IF ok THEN "erase_bank" ELSE "halted"
  /\ UNCHANGED <<localVars, server, last_flashed>>

\* Mutant: the ids are left as they are.
InitEraseBankOnly ==
  /\ pc = "erase_bank"
  /\ \E ok \in Result("flash") : EraseSlot1(ok) /\ pc' = IF ok THEN "idle" ELSE "halted"
  /\ UNCHANGED <<localVars, server, last_flashed>>

InitEraseBank ==
  /\ pc = "erase_bank"
  /\ \E ok \in Result("flash") :
       /\ EraseSlot1(ok)
       /\ pc' = CASE ~ok -> "halted"
                  [] ok /\ acid.update # Erased -> "init_acid"
                  [] ok /\ acid.update = Erased -> "idle"
  /\ UNCHANGED <<localVars, server, last_flashed>>

InitAcidErase ==
  /\ pc = "init_acid"
  /\ AcidUpdateErase([acid EXCEPT !.current = acid.update], "init_acid_write", "halted")

InitAcidWrite ==
  /\ pc = "init_acid_write"
  /\ AcidUpdateWrite("idle", "halted")

InitFlash == InitConfirmed \/ InitConfirm \/ InitEraseBank \/ InitAcidErase \/ InitAcidWrite

-----------------------------------------------------------------------------
(* hawkbit_ddi_poll.                                                       *)

\* Mutant: the work is rescheduled whatever the counter says.
PollReturnForEver(ok) ==
  /\ failures' = IF ok THEN 0 ELSE failures + 1
  /\ pc' = "idle"
  /\ deployment_base' = NoAcid
  /\ UNCHANGED <<device_acid, json_acid>>

\* hawkbit_work_fn after hawkbit_ddi_poll returned: the failure counter, and
\* the reboot when it reaches its limit.
PollReturn(ok) ==
  /\ failures' = IF ok THEN 0 ELSE failures + 1
  /\ pc' = IF failures' = MaxServerFail THEN "sys_reboot" ELSE "idle"
  /\ deployment_base' = NoAcid
  /\ UNCHANGED <<device_acid, json_acid>>

\* The base resource links to a deployment of an open action ...
PollOffered ==
  /\ pc = "idle"
  /\ \E a \in Actions :
       /\ server[a] = "open"
       /\ deployment_base' = a
  /\ pc' = "dep_query"
  /\ UNCHANGED <<flashVars, json_acid, failures, device_acid, server, last_flashed>>

\* ... or to none, which is not an error ...
PollNothing ==
  /\ pc = "idle"
  /\ \A a \in Actions : server[a] # "open"
  /\ PollReturn(TRUE)
  /\ UNCHANGED <<flashVars, server, last_flashed>>

\* ... or cannot be had or parsed.
PollFails ==
  /\ pc = "idle"
  /\ {"net", "json"} \cap Faults # {}
  /\ PollReturn(FALSE)
  /\ UNCHANGED <<flashVars, server, last_flashed>>

DeploymentQueryFails ==
  /\ pc = "dep_query"
  /\ "net" \in Faults
  /\ PollReturn(FALSE)
  /\ UNCHANGED <<flashVars, server, last_flashed>>

Refused == Unfit \cup Unparsable

\* hawkbit_parse_deployment fails on an unfit deployment, after json_acid was
\* assigned; json_obj_parse fails before that and leaves the id of an earlier
\* poll; a document damaged on its way may fail in either.
DeploymentMalformed ==
  /\ pc = "dep_query"
  /\ \/ deployment_base \in Unfit /\ json_acid' = deployment_base
     \/ deployment_base \in Unparsable /\ UNCHANGED json_acid
     \/ "json" \in Faults /\ json_acid' \in {json_acid, deployment_base}
  /\ pc' = "failure"
  /\ UNCHANGED <<flashVars, failures, deployment_base, device_acid, server, last_flashed>>

\* Mutant: the static id is filled in once.
DeploymentParsedOnce ==
  /\ pc = "dep_query"
  /\ deployment_base \notin Refused
  /\ json_acid' = IF json_acid = NoAcid THEN deployment_base ELSE json_acid
  /\ pc' = "acid_check"
  /\ UNCHANGED <<flashVars, failures, deployment_base, device_acid, server, last_flashed>>

DeploymentParsed ==
  /\ pc = "dep_query"
  /\ deployment_base \notin Refused
  /\ json_acid' = deployment_base
  /\ pc' = "acid_check"
  /\ UNCHANGED <<flashVars, failures, deployment_base, device_acid, server, last_flashed>>

\* Mutant: no check for an install that was already tried.
AcidCheckCurrentOnly ==
  /\ pc = "acid_check"
  /\ pc' = IF acid.current = json_acid THEN "success" ELSE "proceeding"
  /\ UNCHANGED <<flashVars, localVars, server, last_flashed>>

AcidCheck ==
  /\ pc = "acid_check"
  /\ pc' = CASE acid.current = json_acid -> "success"
             [] acid.current # json_acid /\ acid.update = json_acid -> "failure"
             [] OTHER -> "proceeding"
  /\ UNCHANGED <<flashVars, localVars, server, last_flashed>>

\* hawkbit_report_dep_fbk: the server closes an open action on a final
\* status.  The request or the answer to it may be lost.
Feedback(status, ok) ==
  /\ "net" \notin Faults => ok
  /\ \E reached \in BOOLEAN :
       /\ ok => reached
       /\ server' = [a \in Actions |->
                       IF /\ reached /\ a = json_acid /\ server[a] = "open"
                          /\ status \in {"succeeded", "failed"}
                       THEN status ELSE server[a]]
  /\ UNCHANGED <<flashVars, last_flashed>>

ReportSuccess(ok) ==
  /\ pc = "success"
  /\ Feedback("succeeded", ok)
  /\ PollReturn(ok)

ReportFailure(ok) ==
  /\ pc = "failure"
  /\ Feedback("failed", ok)
  /\ PollReturn(FALSE)

ReportProceeding(ok) ==
  /\ pc = "proceeding"
  /\ Feedback("proceeding", ok)
  /\ IF ok THEN pc' = "erase_slot1" /\ UNCHANGED localVars
           ELSE PollReturn(FALSE)

\* hawkbit_install_update before the download starts.
InstallErase ==
  /\ pc = "erase_slot1"
  /\ \E ok \in Result("flash") :
       /\ EraseSlot1(ok)
       /\ pc' = IF ok THEN "download" ELSE "failure"
  /\ UNCHANGED <<localVars, server, last_flashed>>

\* A deployment whose artifact has size 0 is refused before slot 1 is touched.
InstallRefused ==
  /\ pc = "erase_slot1"
  /\ "json" \in Faults
  /\ pc' = "failure"
  /\ UNCHANGED <<flashVars, localVars, server, last_flashed>>

\* The rest of hawkbit_install_update.  A download that fails may have stored
\* the whole image, when only the size in the deployment is wrong.
InstallFails ==
  /\ pc = "download"
  /\ {"net", "json", "flash"} \cap Faults # {}
  /\ \E content \in {Junk, json_acid} : FillSlot1(content)
  /\ pc' = "failure"
  /\ UNCHANGED <<localVars, server, last_flashed>>

InstallSucceeds ==
  /\ pc = "download"
  /\ \E good \in Result("image") : FillSlot1(IF good THEN json_acid ELSE Junk)
  /\ pc' = "request_upgrade"
  /\ UNCHANGED <<localVars, server, last_flashed>>

\* The result of boot_request_upgrade is not looked at.
TriggerUpgrade ==
  /\ pc = "request_upgrade"
  /\ \E ok \in Result("flash") : RequestUpgrade(ok)
  /\ last_flashed' = json_acid
  /\ pc' = "update_acid"
  /\ UNCHANGED <<localVars, server>>

\* Mutant: the CURRENT id instead of the UPDATE id.
UpdateCurrentAcidErase ==
  /\ pc = "update_acid"
  /\ AcidUpdateErase([acid EXCEPT !.current = json_acid], "update_acid_write", "failure")

UpdateAcidErase ==
  /\ pc = "update_acid"
  /\ AcidUpdateErase([acid EXCEPT !.update = json_acid], "update_acid_write", "failure")

UpdateAcidWrite ==
  /\ pc = "update_acid_write"
  /\ AcidUpdateWrite("sys_reboot", "failure")

Poll ==
  \/ PollOffered \/ PollNothing \/ PollFails
  \/ DeploymentQueryFails \/ DeploymentMalformed \/ DeploymentParsed \/ AcidCheck
  \/ \E ok \in BOOLEAN : ReportSuccess(ok) \/ ReportFailure(ok) \/ ReportProceeding(ok)
  \/ InstallRefused \/ InstallErase \/ InstallFails \/ InstallSucceeds
  \/ TriggerUpgrade \/ UpdateAcidErase \/ UpdateAcidWrite

-----------------------------------------------------------------------------
(* Resets, and the server.                                                 *)

\* The boot loader runs and all memory starts over.
Reset ==
  /\ BootLoader
  /\ pc' = "init_flash"
  /\ json_acid' = NoAcid
  /\ failures' = 0
  /\ deployment_base' = NoAcid
  /\ device_acid' = BlankAcid
  /\ UNCHANGED <<server, last_flashed>>

SysReboot == pc = "sys_reboot" /\ Reset

\* bluetooth.c reboots from the disconnected callback, whatever the main
\* thread is doing; a power cut does the same.
SpontaneousReset == "reset" \in Faults /\ Reset

Assign ==
  /\ \E a \in Actions :
       /\ server[a] = "unassigned"
       /\ Overlap \/ \A b \in Actions : server[b] # "open"
       /\ server' = [server EXCEPT ![a] = "open"]
  /\ UNCHANGED <<flashVars, pc, localVars, last_flashed>>

Next == InitFlash \/ Poll \/ SysReboot \/ SpontaneousReset \/ Assign

Spec == Init /\ [][Next]_vars

\* The worker is rescheduled after every run and the handlers return.  A
\* server that has an open action offers it again and again, and neither its
\* answers nor the feedbacks the client sends on an action are lost every time.
FairSpec ==
  /\ Spec
  /\ WF_vars(InitFlash)
  /\ WF_vars(Poll)
  /\ WF_vars(SysReboot)
  /\ SF_vars(PollOffered)
  /\ SF_vars(DeploymentParsed \/ (deployment_base \in Refused /\ DeploymentMalformed))
  /\ \A a \in Actions :
       /\ SF_vars(json_acid = a /\ ReportProceeding(TRUE))
       /\ SF_vars(json_acid = a /\ ReportSuccess(TRUE))
       /\ SF_vars(json_acid = a /\ ReportFailure(TRUE))

-----------------------------------------------------------------------------
(* Properties.                                                             *)

\* The device boots an image at every reset, whatever failed and whenever
\* it was reset: hawkbit_init_flash confirms the running image before it
\* erases the other slot, and hawkbit_install_update writes the other slot
\* only when the running image needs no fallback any more.
SlotZeroBootable == slot0 \in Image

\* An action is closed as successful only while the device runs its image
\* for good.  The client goes by the CURRENT id on flash, never by the image
\* itself, so this rests on the order of the flash writes across resets.
SuccessTruthful ==
  [][\A a \in Actions : server[a] # "succeeded" /\ server'[a] = "succeeded"
        => slot0 = a /\ image_ok = "confirmed"]_vars

\* An action is closed as failed only while the device does not run its image.
FailureTruthful ==
  [][\A a \in Actions : server[a] # "failed" /\ server'[a] = "failed"
        => slot0 # a]_vars

\* A final feedback names the action whose resource the client was reading:
\* the id that is reported and the link that is followed are separate state.
FeedbackForOffered ==
  [][\A a \in Actions : server[a] = "open" /\ server'[a] \in {"succeeded", "failed"}
        => a = deployment_base]_vars

\* The client does not download the deployment it flashed last a second time:
\* the UPDATE id on flash is compared for that (line 1212).  It holds one id, so
\* an action flashed before the last one may be flashed again if it is still open.
NotFlashedTwiceInARow ==
  [][pc = "proceeding" /\ pc' = "erase_slot1" => json_acid # last_flashed]_vars

\* An upgrade is requested only after the action of the upgrade before it was
\* closed.  A closed action does not open again: each is upgraded once at most.
UpgradeAwaitsReport ==
  [][pc = "request_upgrade" /\ pc' = "update_acid" =>
       /\ server[json_acid] = "open"
       /\ last_flashed \in Actions => server[last_flashed] \in {"succeeded", "failed"}]_vars

\* Resets, image swaps, retries and lost answers added up, the client keeps
\* the contract of over-the-air update.
Contract ==
  INSTANCE OtaContract WITH
    running <- slot0,
    fallback <- IF image_ok = "trial" THEN slot1 ELSE Junk,
    outcome <- server,
    NoImage <- Junk
ImplementsContract == Contract!ContractSpec

\* Action a does not stay open for ever while the server offers no other.
Closes(a) == []<>(server[a] # "open" \/ deployment_base \notin {a, NoAcid})

\* Lost answers, unfit deployments, failed downloads and images that do not
\* boot all end in a final feedback.  A deployment that json_obj_parse refuses is
\* never closed, as its id is never read.
EveryActionCloses == \A a \in Actions \ Unparsable : Closes(a)

-----------------------------------------------------------------------------
(* The inductive invariant behind SlotZeroBootable (its first three parts)  *)
(* and behind SuccessTruthful and ImplementsContract (all of it).          *)

\* Until the running image is confirmed nothing but init_flash runs, so its
\* fallback in slot 1 stays whole; and a boot starts with no request pending.
BootInv ==
  /\ slot0 \in Image
  /\ image_ok = "trial" => slot1 \in Image
  /\ image_ok # "confirmed" => pc \in {"init_flash", "halted"}
  /\ image_ok = "unset" => acid = BlankAcid
  /\ pc \in InitPc => ~upgrade

\* From the parse of a deployment to the reboot, its action stays open; and
\* the counter, compared with its limit by ==, never steps over it.
InstallPc == {"proceeding", "erase_slot1", "download"} \cup (UpdatePc \ {"sys_reboot"})
WorkInv ==
  /\ pc # "sys_reboot" => failures < MaxServerFail
  /\ pc = "dep_query" => deployment_base \in Actions /\ server[deployment_base] = "open"
  /\ pc \in InstallPc \cup {"acid_check"} =>
       json_acid \in Actions /\ server[json_acid] = "open"

\* Ids and images come only from actions the server opened.
AssignedInv ==
  \A a \in Actions : server[a] = "unassigned" =>
    /\ a \notin {slot0, slot1, json_acid, deployment_base}
    /\ a \notin {acid.current, acid.update, device_acid.current, device_acid.update}

\* The server has one action open at a time.
OneOpenInv == \A a, b \in Actions : server[a] = "open" /\ server[b] = "open" => a = b

\* What the ids say of the action that is open.
AcidInv ==
  \A a \in Actions : server[a] = "open" =>
    /\ acid.current = a => slot0 = a /\ image_ok = "confirmed" /\ ~upgrade
    /\ acid.update = a =>
         /\ upgrade => slot1 \in {a, Junk}
         /\ image_ok = "trial" \/ pc \in {"erase_bank", "init_acid"} => slot0 = a

\* What each step that reports or writes ids may rely on.
PcInv ==
  /\ pc = "success" => acid.current = json_acid
  /\ pc \in InstallPc => acid.current # json_acid
  /\ pc \in UpdatePc \ {"sys_reboot"} => slot1 \in {json_acid, Junk}
  /\ upgrade => slot1 # Factory
  /\ pc = "init_acid_write" =>
       /\ acid = BlankAcid
       /\ \A a \in Actions :
            server[a] = "open" /\ a \in {device_acid.current, device_acid.update} => slot0 = a
  /\ pc = "update_acid_write" =>
       /\ acid = BlankAcid
       /\ device_acid.current # json_acid
       /\ device_acid.update = json_acid

BaseInv == TypeOK /\ BootInv /\ WorkInv
IInv == BaseInv /\ AssignedInv /\ OneOpenInv /\ AcidInv /\ PcInv
=============================================================================

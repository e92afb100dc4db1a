------------------------------ MODULE Download ------------------------------
(***************************************************************************)
(* hawkbit_install_update of src/lib/hawkbit.c and the HTTP body callback  *)
(* install_update_cb it registers.  The first runs on the main thread and  *)
(* waits on a semaphore; the second runs on the network RX thread, which   *)
(* may block in a flash operation and let the main thread go on.           *)
(*                                                                         *)
(* Data is counted in units.  A cell of slot 1 that holds the unit the     *)
(* body of attempt n has at that place is n; one that holds anything else  *)
(* is Junk.  The HTTP client, the flash and the buffered image writer      *)
(* (flash_img) are external.                                               *)
(***************************************************************************)
EXTENDS Naturals

CONSTANTS
  Bank,         \* FLASH_BANK_SIZE, in units
  BufSize,      \* the image writer's buffer
  MaxChunk,     \* the most one callback delivers (TCP_RECV_BUFFER_SIZE)
  EraseBlock,   \* FLASH_ERASE_BLOCK_SIZE
  Sizes,        \* sizes the server gives to artifacts and responses
  Progressive,  \* CONFIG_FOTA_ERASE_PROGRESSIVELY
  MaxAttempts,  \* bound: downloads begun
  Faults,       \* of "http" (error responses, sizes that disagree), "flash", "reset"
  Junk, Erased  \* cells that hold no unit of any body

ASSUME DownloadAssumption ==
  /\ Bank \in Nat /\ BufSize \in Nat \ {0} /\ MaxChunk \in Nat /\ EraseBlock \in Nat \ {0}
  /\ Sizes \subseteq 1..Bank
  /\ Progressive \in BOOLEAN
  /\ MaxAttempts \in Nat
  /\ Faults \subseteq {"http", "flash", "reset"}
  /\ Junk \notin Nat /\ Erased \notin Nat /\ Junk # Erased

VARIABLES
  slot1,        \* the cells of slot 1
  attempt,      \* history: downloads begun
  tries,        \* history: downloads begun since the last boot
  pc, result,   \* the main thread in hawkbit_install_update, and its result
  file_size, last_downloaded_size,  \* its parameter and its local
  dl,           \* hbc->dl
  sem,          \* hbc->sem
  last_offset,  \* hbc->last_offset, from the start of slot 1
  response,     \* what the server answers to the request
  conn,         \* the HTTP context is connected
  received,     \* units of the body handed to the callback
  rx, chunk,    \* the RX thread, and what its callback has in hand of a chunk
  writer,       \* dfu_ctx: bytes written and bytes buffered
  dropped,      \* history: units of the body that never reached the writer
  seen          \* history: bytes written when the main thread last began to wait

mainVars == <<pc, result, file_size, last_downloaded_size>>
netVars == <<response, conn, received, rx, chunk>>
writeVars == <<slot1, writer, dropped>>
vars == <<slot1, attempt, tries, mainVars, dl, sem, last_offset, netVars, writer, dropped, seen>>

Cells == 0..(Bank - 1)
Cell == Nat \cup {Junk, Erased}

Downloads == [http_content_size : Sizes \cup {0}, downloaded_size : Nat,
              download_status : {"none", "final", "error"}]
Writers == [bytes_written : Nat, buf_bytes : 0..BufSize]
Responses == [ok : BOOLEAN, content_length : Sizes \cup {0}]
Chunks == [len : 0..MaxChunk, final : BOOLEAN]

NoDownload == [http_content_size |-> 0, downloaded_size |-> 0, download_status |-> "none"]
NoBytes == [bytes_written |-> 0, buf_bytes |-> 0]
NoResponse == [ok |-> FALSE, content_length |-> 0]
NoChunk == [len |-> 0, final |-> FALSE]

TypeOK ==
  /\ slot1 \in [Cells -> Cell]
  /\ attempt \in 0..MaxAttempts
  /\ tries \in Nat
  /\ pc \in {"idle", "request", "wait", "release", "check_status", "check_content",
             "check_file", "done"}
  /\ result \in {"none", "ok", "fail"}
  /\ file_size \in Sizes \cup {0}
  /\ last_downloaded_size \in Nat
  /\ dl \in Downloads
  /\ sem \in {0, 1}
  /\ last_offset \in Nat
  /\ response \in Responses
  /\ conn \in BOOLEAN
  /\ received \in Nat
  /\ rx \in {"ready", "callback", "writing", "dead"}
  /\ chunk \in Chunks
  /\ writer \in Writers
  /\ dropped \in Nat
  /\ seen \in Nat

Init ==
  /\ slot1 \in {[i \in Cells |-> Erased], [i \in Cells |-> Junk]}
  /\ attempt = 0 /\ tries = 0
  /\ pc = "idle" /\ result = "none" /\ file_size = 0 /\ last_downloaded_size = 0
  /\ dl = NoDownload /\ sem = 0 /\ last_offset = 0
  /\ response = NoResponse /\ conn = FALSE /\ received = 0
  /\ rx = "ready" /\ chunk = NoChunk
  /\ writer = NoBytes /\ dropped = 0 /\ seen = 0

Result(fault) == IF fault \in Faults THEN BOOLEAN ELSE {TRUE}

-----------------------------------------------------------------------------
(* The main thread.                                                        *)

Return(r) == pc' = "done" /\ result' = r

\* Mutant: "TODO is this really needed?"  The semaphore is left as it is.
ResetAllButSem ==
  /\ dl' = NoDownload
  /\ writer' = NoBytes
  /\ last_downloaded_size' = 0
  /\ dropped' = 0
  /\ seen' = 0
  /\ UNCHANGED sem

\* The state of the download, the semaphore and the writer start over.
ResetDownload ==
  /\ dl' = NoDownload
  /\ writer' = NoBytes
  /\ last_downloaded_size' = 0
  /\ dropped' = 0
  /\ seen' = 0
  /\ sem' = 0

\* Slot 1 is erased now, or sector by sector as data comes in.  The work item
\* that calls again had answers from the network since the last attempt, so
\* the RX thread has left that attempt's callback.
Begin(size) ==
  /\ pc \in {"idle", "done"}
  /\ rx = "ready"
  /\ attempt < MaxAttempts
  /\ attempt' = attempt + 1
  /\ tries' = tries + 1
  /\ file_size' = size
  /\ \E ok \in Result("flash") :
       /\ slot1' \in IF Progressive THEN {slot1}
                     ELSE IF ok THEN {[i \in Cells |-> Erased]}
                     ELSE {slot1, [i \in Cells |-> Junk]}
       /\ IF ok THEN pc' = "request" /\ result' = "none" /\ ResetDownload
                ELSE Return("fail") /\ UNCHANGED <<last_downloaded_size, dl, sem, writer, dropped, seen>>
  /\ UNCHANGED <<last_offset, netVars>>

\* http_client_init and http_client_send_get_req; what the server will answer
\* is settled here.  A Content-Length that is missing reads as 0.
Lengths == IF "http" \in Faults THEN Sizes \cup {0} ELSE {file_size}
Connect ==
  /\ \E ok \in Result("http"), length \in Lengths :
       response' = [ok |-> ok, content_length |-> length]
  /\ conn' = TRUE
  /\ received' = 0
  /\ pc' = "wait"
  /\ UNCHANGED <<result, rx, chunk>>

Request ==
  /\ pc = "request"
  /\ \/ Connect
     \/ "http" \in Faults /\ Return("fail") /\ UNCHANGED netVars
  /\ UNCHANGED <<attempt, tries, file_size, last_downloaded_size, dl, sem, last_offset, writeVars, seen>>

Take ==
  /\ pc = "wait"
  /\ sem = 1
  /\ sem' = 0
  /\ pc' = "release"
  /\ UNCHANGED <<attempt, tries, result, file_size, last_downloaded_size, dl, last_offset, netVars,
                 writeVars, seen>>

\* Mutant: the size of the last period is not remembered.
TimeOutForgets ==
  /\ pc = "wait"
  /\ sem = 0
  /\ IF last_downloaded_size = dl.downloaded_size
       THEN pc' = "release" /\ UNCHANGED seen
       ELSE seen' = writer.bytes_written /\ UNCHANGED pc
  /\ UNCHANGED <<attempt, tries, result, file_size, last_downloaded_size, dl, sem, last_offset, netVars,
                 writeVars>>

\* Mutant: the first timeout ends the wait.
TimeOutOnce ==
  /\ pc = "wait"
  /\ sem = 0
  /\ pc' = "release"
  /\ UNCHANGED <<attempt, tries, result, file_size, last_downloaded_size, dl, sem, last_offset, netVars,
                 writeVars, seen>>

\* HAWKBIT_DOWNLOAD_TIMEOUT passed.
TimeOut ==
  /\ pc = "wait"
  /\ sem = 0
  /\ IF last_downloaded_size = dl.downloaded_size
       THEN pc' = "release" /\ UNCHANGED <<last_downloaded_size, seen>>
       ELSE /\ last_downloaded_size' = dl.downloaded_size
            /\ seen' = writer.bytes_written
            /\ UNCHANGED pc
  /\ UNCHANGED <<attempt, tries, result, file_size, dl, sem, last_offset, netVars, writeVars>>

\* http_release: no callback begins any more; one that is running goes on.
Release ==
  /\ pc = "release"
  /\ conn' = FALSE
  /\ pc' = "check_status"
  /\ UNCHANGED <<attempt, tries, result, file_size, last_downloaded_size, dl, sem, last_offset,
                 response, received, rx, chunk, writeVars, seen>>

Check(here, good, next) ==
  /\ pc = here
  /\ IF good THEN next ELSE Return("fail")
  /\ UNCHANGED <<attempt, tries, file_size, last_downloaded_size, dl, sem, last_offset, netVars,
                 writeVars, seen>>

CheckStatus ==
  Check("check_status", dl.download_status # "error", pc' = "check_content" /\ UNCHANGED result)

\* Mutant: the number of bytes received is compared, not of those written.
CheckContentReceived ==
  Check("check_content", received = dl.http_content_size,
        pc' = "check_file" /\ UNCHANGED result)

CheckContent ==
  Check("check_content", dl.downloaded_size = dl.http_content_size,
        pc' = "check_file" /\ UNCHANGED result)

\* Mutant: the size in the deployment is not compared.
CheckNoFile == Check("check_file", TRUE, Return("ok"))

CheckFile == Check("check_file", dl.downloaded_size = file_size, Return("ok"))

Main ==
  \/ \E size \in Sizes : Begin(size)
  \/ Request \/ Take \/ TimeOut \/ Release \/ CheckStatus \/ CheckContent \/ CheckFile

-----------------------------------------------------------------------------
(* The RX thread: install_update_cb, from the callback to its return.      *)

\* The label error.
Fail(n) ==
  /\ dl' = [dl EXCEPT !.download_status = "error"]
  /\ sem' = 1
  /\ rx' = "ready"
  /\ chunk' = NoChunk
  /\ dropped' = dropped + n

\* The next part of the body.  A response that is not 200 is an error.  (Bound:
\* without a Content-Length a body has at most Bank units.)
BodyLength == IF response.content_length = 0 THEN Bank ELSE response.content_length
Receive(n) ==
  /\ rx = "ready"
  /\ conn
  /\ n \in 1..MaxChunk
  /\ received + n <= BodyLength
  /\ received' = received + n
  /\ IF response.ok
       THEN /\ dl' = IF dl.http_content_size = 0
                       THEN [dl EXCEPT !.http_content_size = response.content_length] ELSE dl
            /\ chunk' = [len |-> n, final |-> received' = response.content_length]
            /\ rx' = "callback"
            /\ UNCHANGED <<sem, dropped>>
       ELSE Fail(n)
  /\ UNCHANGED <<attempt, tries, mainVars, last_offset, response, conn, slot1, writer, seen>>

\* Mutants: only the sector of the next byte, and a sector too many.
SectorOfNextByte == Progressive /\ last_offset < writer.bytes_written
SectorAfterNext == Progressive /\ last_offset < writer.bytes_written + 2 * EraseBlock

SectorNeeded == Progressive /\ last_offset < writer.bytes_written + EraseBlock

\* One round of the loop that erases the sectors to be written next.
EraseAt(ok) ==
  /\ slot1' = [i \in Cells |->
                 IF i \in last_offset..(last_offset + EraseBlock - 1)
                 THEN IF ok THEN Erased ELSE Junk ELSE slot1[i]]
  /\ IF ok THEN last_offset' = last_offset + EraseBlock /\ UNCHANGED <<dl, sem, rx, chunk, dropped>>
           ELSE Fail(chunk.len) /\ UNCHANGED last_offset

EraseSector ==
  /\ rx = "callback"
  /\ SectorNeeded
  /\ \E ok \in Result("flash") : EraseAt(ok)
  /\ UNCHANGED <<attempt, tries, mainVars, response, conn, received, writer, seen>>

\* flash_img_buffered_write fills its buffer from the chunk and writes it out
\* while more data follows, and at the end the rest too.  A cell gets the right
\* unit if the write succeeds, it was erased, and no unit before it is missing.
Total == writer.buf_bytes + chunk.len
Block == IF Total > BufSize THEN BufSize ELSE Total
Program(ok) ==
  slot1' = [i \in Cells |->
              IF i \in writer.bytes_written..(writer.bytes_written + Block - 1)
              THEN IF ok /\ slot1[i] = Erased /\ dropped = 0 THEN attempt ELSE Junk
              ELSE slot1[i]]

\* Mutant: nothing is written before the end.
MoreAtEnd == chunk.final /\ Total > 0

More == Total > BufSize \/ (chunk.final /\ Total > 0)

\* The sectors are looked at before the first block of a chunk only.
MayWrite == rx = "writing" \/ (rx = "callback" /\ ~SectorNeeded)

\* One block is written.  When that fails it stays in the buffer and the rest
\* of the chunk is gone.
WriteBlock ==
  /\ MayWrite
  /\ More
  /\ \E ok \in Result("flash") :
       /\ Program(ok)
       /\ IF ok THEN /\ writer' = [bytes_written |-> writer.bytes_written + Block, buf_bytes |-> 0]
                     /\ chunk' = [chunk EXCEPT !.len = Total - Block]
                     /\ rx' = "writing"
                     /\ UNCHANGED <<dl, sem, dropped>>
                ELSE /\ writer' = [writer EXCEPT !.buf_bytes = Block]
                     /\ Fail(Total - Block)
  /\ UNCHANGED <<attempt, tries, mainVars, last_offset, response, conn, received, seen>>

\* The rest stays in the buffer, and only now the size in dl changes.  The
\* percentage that is computed next divides by the Content-Length.
Written ==
  /\ MayWrite
  /\ ~More
  /\ writer' = [writer EXCEPT !.buf_bytes = Total]
  /\ dl' = [dl EXCEPT !.downloaded_size = writer.bytes_written,
                      !.download_status = IF chunk.final THEN "final" ELSE @]
  /\ sem' = IF chunk.final THEN 1 ELSE sem
  /\ rx' = IF dl.http_content_size = 0 THEN "dead" ELSE "ready"
  /\ chunk' = NoChunk
  /\ UNCHANGED <<slot1, attempt, tries, mainVars, last_offset, response, conn, received, dropped, seen>>

Callback == EraseSector \/ WriteBlock \/ Written
Rx == (\E n \in 1..MaxChunk : Receive(n)) \/ Callback

-----------------------------------------------------------------------------
\* A reset clears everything but flash.  It also ends a fault of the RX
\* thread: the division by a Content-Length of 0.
Reboot ==
  /\ "reset" \in Faults \/ rx = "dead"
  /\ tries' = 0
  /\ pc' = "idle" /\ result' = "none" /\ file_size' = 0 /\ last_downloaded_size' = 0
  /\ dl' = NoDownload /\ sem' = 0 /\ last_offset' = 0
  /\ response' = NoResponse /\ conn' = FALSE /\ received' = 0
  /\ rx' = "ready" /\ chunk' = NoChunk
  /\ writer' = NoBytes /\ dropped' = 0 /\ seen' = 0
  /\ UNCHANGED <<slot1, attempt>>

Next == Main \/ Rx \/ Reboot

Spec == Init /\ [][Next]_vars

\* The main thread runs, its timeouts expire, and a callback returns.  The
\* server owes nothing: it may stop sending at any time.
FairSpec ==
  /\ Spec
  /\ WF_vars(Request) /\ WF_vars(Take) /\ WF_vars(TimeOut) /\ WF_vars(Release)
  /\ WF_vars(CheckStatus) /\ WF_vars(CheckContent) /\ WF_vars(CheckFile)
  /\ WF_vars(Callback)

-----------------------------------------------------------------------------
(* Properties.                                                             *)

Stored == \A i \in 0..(file_size - 1) : slot1[i] = attempt

\* hawkbit_install_update returns 0 only when slot 1 holds the whole artifact,
\* in order: although a later final chunk overwrites the status of an error,
\* a timeout may race the last write, and callbacks go on after an error.
OkMeansStored == result = "ok" => Stored

\* The same where CONFIG_FOTA_ERASE_PROGRESSIVELY asks for it only of the
\* first download since boot: last_offset is reset in hawkbit_start alone.
FirstOkMeansStored == result = "ok" /\ (Progressive => tries = 1) => Stored

\* Both threads added up, the client gets the install it asks for: success is
\* announced once the slot holds the artifact, and no callback that outlived
\* the wait touches the slot after that.  (Without progressive erase.)
InstallState ==
  CASE pc = "idle" -> "idle"
    [] pc = "done" -> IF result = "ok" THEN "installed" ELSE "failed"
    [] OTHER -> "installing"
Install ==
  INSTANCE InstallContract WITH
    slot <- slot1, wanted <- attempt, size <- file_size, state <- InstallState
ImplementsInstall == Install!InstallSpec

\* The wait ends by the semaphore only for a callback of this very download:
\* a callback that outlived the last wait may have left the semaphore given.
WokenForReason == [][pc = "wait" /\ pc' = "release" /\ sem = 1 => dl.download_status # "none"]_vars

GivenUp == pc = "wait" /\ pc' = "release" /\ sem = 0

\* A download is given up for want of activity only: no block was written since
\* the wait began.
NotGivenUpWhileWriting == [][GivenUp => writer.bytes_written = seen]_vars

\* A download whose blocks were written since the wait began, by callbacks that
\* have returned, is not given up.
NotGivenUpAfterWriting == [][GivenUp /\ rx # "writing" => writer.bytes_written = seen]_vars

\* Progressive erase goes past slot 1 by one sector at most: the loop of
\* install_update_cb erases one ahead of what was written, and does not look at
\* the end of the slot.
EraseNearSlot == last_offset <= Bank + EraseBlock

\* Whatever the server does, hawkbit_install_update returns.
DownloadEnds == pc = "wait" ~> pc \in {"done", "idle"}

-----------------------------------------------------------------------------
(* The inductive invariant behind OkMeansStored and FirstOkMeansStored.    *)

Waiting == {"wait", "release", "check_status", "check_content", "check_file"}
Loaded == pc \in Waiting \/ result = "ok"
InCallback == rx \in {"callback", "writing"}
InHand == IF InCallback THEN chunk.len ELSE 0
MoreToCome == response.content_length = 0 \/ received # response.content_length

\* Every unit received is written, buffered, dropped, or in the callback's hand.
CountInv ==
  /\ Loaded => writer.bytes_written + writer.buf_bytes + dropped + InHand = received
  /\ dl.downloaded_size <= writer.bytes_written
  /\ Loaded => received <= BodyLength
  /\ Loaded => dl.http_content_size \in {0, response.content_length}
  /\ Loaded /\ InCallback =>
       /\ dl.http_content_size = response.content_length
       /\ chunk.final = (received = response.content_length)
  /\ rx = "callback" => chunk.len > 0
  /\ rx = "writing" => dl.downloaded_size < writer.bytes_written

\* A download in which a unit was dropped does not get past the checks.
EndInv ==
  /\ conn => pc \in {"wait", "release"}
  /\ pc = "request" => rx = "ready" /\ writer = NoBytes /\ dropped = 0 /\ dl = NoDownload
  /\ Loaded /\ response.content_length = 0 =>
       /\ rx # "dead" => dl.downloaded_size = 0
       /\ dropped # 0 => dl.download_status = "error"
       /\ dropped # 0 /\ (InCallback \/ dl.downloaded_size # 0) =>
            pc \in {"wait", "release", "check_status"}
  /\ pc = "check_file" /\ response.content_length # 0 => ~InCallback
  /\ (pc = "check_file" \/ result = "ok") /\ dl.downloaded_size # 0 =>
       dropped = 0 /\ ~InCallback
  /\ result = "ok" => pc = "done" /\ dl.downloaded_size = file_size
  /\ pc # "idle" => file_size # 0

\* Up to the first unit dropped the written cells hold the body; the cells the
\* writer comes to next are erased, unless an earlier download of this boot
\* had the sectors erased progressively.
Fresh == ~Progressive \/ tries = 1
ErasedAhead ==
  \A i \in Cells : i >= writer.bytes_written /\ (Progressive => i < last_offset) => slot1[i] = Erased
CellInv ==
  /\ Fresh /\ dropped = 0 /\ (Loaded \/ pc = "request") =>
       /\ \A i \in Cells : i < writer.bytes_written => slot1[i] = attempt
       /\ pc = "request" \/ InCallback \/ MoreToCome => ErasedAhead
       /\ Progressive =>
            writer.bytes_written + (IF rx = "writing" THEN Total ELSE 0) <= last_offset
  /\ tries = 0 => pc = "idle" /\ last_offset = 0 /\ rx = "ready"

DInv == TypeOK /\ CountInv /\ EndInv /\ CellInv
=============================================================================

--------------------------- MODULE DownloadProofs ---------------------------
(* Proofs about Download, for every bank, buffer, chunk and block size.    *)
EXTENDS Download, TLAPS

\* What the writer and one callback may write before the next sectors are
\* erased fits in the sector erased ahead; the code relies on it unchecked.
SectorAhead == Progressive => BufSize + MaxChunk <= EraseBlock

LEMMA NothingTypes ==
  /\ NoDownload \in Downloads
  /\ NoBytes \in Writers
  /\ NoResponse \in Responses
  /\ NoChunk \in Chunks
BY DownloadAssumption
DEF NoDownload, Downloads, NoBytes, Writers, NoResponse, Responses, NoChunk, Chunks

LEMMA TypeInit == Init => TypeOK
<1> SUFFICES ASSUME Init PROVE TypeOK
  OBVIOUS
<1>1. slot1 \in [Cells -> Cell]
  BY DEF Init, Cell
<1>2. /\ attempt = 0 /\ tries = 0 /\ sem = 0 /\ last_offset = 0
      /\ pc = "idle" /\ result = "none" /\ file_size = 0 /\ last_downloaded_size = 0
      /\ dl \in Downloads /\ response \in Responses /\ conn = FALSE /\ received = 0
      /\ rx = "ready" /\ chunk \in Chunks /\ writer \in Writers /\ dropped = 0 /\ seen = 0
  BY NothingTypes DEF Init
<1>3. attempt \in 0..MaxAttempts
  BY <1>2, DownloadAssumption
<1> QED
  BY <1>1, <1>2, <1>3 DEF TypeOK

\* The block that is written next: it fits the buffer and leaves no more than
\* the chunk.
LEMMA BlockFits ==
  ASSUME TypeOK, More
  PROVE  /\ Total \in 1..(BufSize + MaxChunk)
         /\ Block \in 1..BufSize
         /\ Total - Block \in 0..chunk.len
         /\ Block <= Total
BY DownloadAssumption DEF TypeOK, More, Total, Block, Writers, Chunks

\* What writing a block does: to the cells it does not reach, and when flash takes
\* it (BlockGood) and when flash does not (BlockBad).
Kept ==
  \A i \in Cells :
    i < writer.bytes_written \/ i >= writer.bytes_written + Block => slot1'[i] = slot1[i]
BlockGood ==
  /\ Kept
  /\ dropped = 0 =>
       \A i \in Cells :
         i >= writer.bytes_written /\ i < writer.bytes_written + Block /\ slot1[i] = Erased
           => slot1'[i] = attempt
  /\ writer'.bytes_written = writer.bytes_written + Block /\ writer'.buf_bytes = 0
  /\ chunk'.len = Total - Block /\ chunk'.final = chunk.final
  /\ rx' = "writing"
  /\ UNCHANGED <<dl, sem, dropped>>
BlockBad ==
  /\ Kept
  /\ writer'.bytes_written = writer.bytes_written /\ writer'.buf_bytes = Block
  /\ dl'.downloaded_size = dl.downloaded_size
  /\ dl'.http_content_size = dl.http_content_size
  /\ dl'.download_status = "error"
  /\ sem' = 1
  /\ rx' = "ready"
  /\ dropped' = dropped + (Total - Block)

BlockWritten ==
  /\ MayWrite /\ More /\ InCallback
  /\ BlockGood \/ BlockBad
  /\ UNCHANGED <<attempt, tries, mainVars, last_offset, response, conn, received, seen>>
  /\ Total \in 1..(BufSize + MaxChunk) /\ Block \in 1..BufSize
  /\ Total - Block \in 0..chunk.len /\ Block <= Total

LEMMA WriteBlockEffect == TypeOK /\ WriteBlock => BlockWritten
<1> SUFFICES ASSUME TypeOK, WriteBlock PROVE BlockWritten
  OBVIOUS
<1>1. MayWrite /\ More /\ InCallback
  BY DEF WriteBlock, MayWrite, InCallback
<1>2. PICK ok \in BOOLEAN :
        /\ Program(ok)
        /\ IF ok THEN /\ writer' = [bytes_written |-> writer.bytes_written + Block,
                                     buf_bytes |-> 0]
                      /\ chunk' = [chunk EXCEPT !.len = Total - Block]
                      /\ rx' = "writing"
                      /\ UNCHANGED <<dl, sem, dropped>>
                 ELSE /\ writer' = [writer EXCEPT !.buf_bytes = Block]
                      /\ Fail(Total - Block)
  BY DEF WriteBlock, Result
<1>3. chunk \in Chunks /\ writer \in Writers /\ dl \in Downloads
  BY DEF TypeOK
<1> DEFINE bw == writer.bytes_written
<1>4. Block \in Nat /\ bw \in Nat
  BY <1>3, BlockFits DEF WriteBlock, Writers
<1>5. Kept
  BY <1>2, <1>4 DEF Program, Cells, Kept
<1>6. ASSUME ok = TRUE PROVE BlockGood
  <2>1. ASSUME dropped = 0, NEW i \in Cells, i >= bw, i < bw + Block, slot1[i] = Erased
        PROVE  slot1'[i] = attempt
    <3>1. i \in bw..(bw + Block - 1)
      BY <1>4, <2>1 DEF Cells
    <3>2. slot1'[i] = IF ok /\ slot1[i] = Erased /\ dropped = 0 THEN attempt ELSE Junk
      BY <1>2, <3>1 DEF Program
    <3> QED
      BY <1>6, <2>1, <3>2
  <2>2. /\ writer' = [bytes_written |-> writer.bytes_written + Block, buf_bytes |-> 0]
        /\ chunk' = [chunk EXCEPT !.len = Total - Block]
        /\ rx' = "writing"
        /\ UNCHANGED <<dl, sem, dropped>>
    BY <1>2, <1>6
  <2>3. chunk'.len = Total - Block /\ chunk'.final = chunk.final
    BY <1>3, <2>2 DEF Chunks
  <2> QED
    BY <1>5, <2>1, <2>2, <2>3 DEF BlockGood
<1>7. ASSUME ok = FALSE PROVE BlockBad
  <2>1. /\ writer' = [writer EXCEPT !.buf_bytes = Block]
        /\ Fail(Total - Block)
    BY <1>2, <1>7
  <2>2. writer'.bytes_written = writer.bytes_written /\ writer'.buf_bytes = Block
    BY <1>3, <2>1 DEF Writers
  <2>3. /\ dl'.downloaded_size = dl.downloaded_size
        /\ dl'.http_content_size = dl.http_content_size
        /\ dl'.download_status = "error"
    BY <1>3, <2>1 DEF Fail, Downloads
  <2> QED
    BY <1>5, <2>1, <2>2, <2>3 DEF BlockBad, Fail
<1>8. UNCHANGED <<attempt, tries, mainVars, last_offset, response, conn, received, seen>>
  BY DEF WriteBlock
<1> QED
  BY <1>1, <1>6, <1>7, <1>8, BlockFits DEF BlockWritten

LEMMA LengthIsNat == TypeOK => response.content_length \in Nat
<1>1. TypeOK => response.content_length \in Sizes \cup {0}
  BY DEF TypeOK, Responses
<1>2. \A s \in Sizes \cup {0} : s \in Nat
  BY DownloadAssumption
<1> QED
  BY <1>1, <1>2

LEMMA TypeStep == TypeOK /\ [Next]_vars => TypeOK'
<1> SUFFICES ASSUME TypeOK, [Next]_vars PROVE TypeOK'
  OBVIOUS
<1>0. WriteBlock => BlockWritten
  BY WriteBlockEffect
<1> USE DownloadAssumption DEF TypeOK, mainVars, netVars, writeVars, Result
<1>1. ASSUME NEW size \in Sizes, Begin(size) PROVE TypeOK'
  BY <1>1, NothingTypes DEF Begin, ResetDownload, Return, Cell
<1>2. CASE Request
  <2>1. CASE Connect
    <3>1. Lengths \subseteq Sizes \cup {0}
      BY DEF Lengths
    <3>2. PICK ok \in BOOLEAN, length \in Sizes \cup {0} :
            response' = [ok |-> ok, content_length |-> length]
      BY <2>1, <3>1 DEF Connect
    <3>3. response' \in Responses
      BY <3>2 DEF Responses
    <3> QED
      BY <1>2, <2>1, <3>3 DEF Request, Connect
  <2>2. CASE Return("fail") /\ UNCHANGED netVars
    BY <1>2, <2>2 DEF Request, Return
  <2> QED
    BY <1>2, <2>1, <2>2 DEF Request
<1>3. CASE Take BY <1>3 DEF Take
<1>4. CASE TimeOut BY <1>4 DEF TimeOut, Downloads, Writers
<1>5. CASE Release BY <1>5 DEF Release
<1>6. CASE CheckStatus BY <1>6 DEF CheckStatus, Check, Return
<1>7. CASE CheckContent BY <1>7 DEF CheckContent, Check, Return
<1>8. CASE CheckFile BY <1>8 DEF CheckFile, Check, Return
<1>9. ASSUME NEW n \in 1..MaxChunk, Receive(n) PROVE TypeOK'
  <2>1. received' \in Nat /\ UNCHANGED <<response, conn, slot1, writer, seen>>
    BY <1>9 DEF Receive
  <2>2. CASE response.ok
    <3>1. dl' \in Downloads
      BY <1>9, <2>2 DEF Receive, Downloads, Responses
    <3>2. /\ chunk' = [len |-> n, final |-> received' = response.content_length]
          /\ rx' = "callback" /\ UNCHANGED <<sem, dropped>>
      BY <1>9, <2>2 DEF Receive
    <3>3. n \in 0..MaxChunk /\ (received' = response.content_length) \in BOOLEAN
      OBVIOUS
    <3>4. chunk' \in Chunks
      BY <3>2, <3>3, Zenon DEF Chunks
    <3> QED
      BY <1>9, <2>1, <3>1, <3>2, <3>4 DEF Receive
  <2>3. CASE ~response.ok
    <3>1. Fail(n)
      BY <1>9, <2>3 DEF Receive
    <3>2. dl' \in Downloads /\ chunk' \in Chunks /\ dropped' \in Nat /\ rx' = "ready" /\ sem' = 1
      BY <3>1, NothingTypes DEF Fail, Downloads
    <3> QED
      BY <1>9, <2>1, <3>2 DEF Receive
  <2> QED
    BY <2>2, <2>3
<1>10. CASE EraseSector
  BY <1>10, NothingTypes DEF EraseSector, EraseAt, Fail, Cell, Downloads, Chunks
<1>11. CASE WriteBlock
  <2>1. PICK ok \in BOOLEAN :
          /\ Program(ok)
          /\ IF ok THEN /\ writer' = [bytes_written |-> writer.bytes_written + Block,
                                       buf_bytes |-> 0]
                        /\ chunk' = [chunk EXCEPT !.len = Total - Block]
                        /\ rx' = "writing"
                        /\ UNCHANGED <<dl, sem, dropped>>
                   ELSE /\ writer' = [writer EXCEPT !.buf_bytes = Block]
                        /\ Fail(Total - Block)
    BY <1>11 DEF WriteBlock
  <2>2. Block \in 1..BufSize /\ Total - Block \in 0..chunk.len
    BY <1>0, <1>11 DEF BlockWritten
  <2>3. slot1' \in [Cells -> Cell]
    BY <2>1 DEF Program, Cell
  <2>4. writer' \in Writers /\ dropped' \in Nat
    BY <2>1, <2>2 DEF Writers, Fail, Chunks
  <2>5. dl' \in Downloads /\ chunk' \in Chunks
    BY <2>1, <2>2, NothingTypes DEF Fail, Downloads, Chunks
  <2> QED
    BY <1>11, <2>1, <2>3, <2>4, <2>5 DEF WriteBlock, Fail
<1>12. CASE Written
  <2>1. Total \in 0..BufSize
    BY <1>12 DEF Written, More, Total, Writers, Chunks
  <2>2. writer' \in Writers /\ dl' \in Downloads
    BY <1>12, <2>1 DEF Written, Writers, Downloads
  <2> QED
    BY <1>12, <2>2, NothingTypes DEF Written
<1>13. CASE Reboot
  <2>1. /\ tries' = 0 /\ pc' = "idle" /\ result' = "none" /\ file_size' = 0
        /\ last_downloaded_size' = 0 /\ sem' = 0 /\ last_offset' = 0 /\ conn' = FALSE
        /\ received' = 0 /\ rx' = "ready" /\ dropped' = 0 /\ seen' = 0
        /\ UNCHANGED <<slot1, attempt>>
    BY <1>13 DEF Reboot
  <2>2. /\ dl' \in Downloads /\ response' \in Responses
        /\ chunk' \in Chunks /\ writer' \in Writers
    BY <1>13, NothingTypes DEF Reboot
  <2> QED
    BY <2>1, <2>2
<1>14. CASE UNCHANGED vars BY <1>14 DEF vars
<1> QED
  BY <1>1, <1>2, <1>3, <1>4, <1>5, <1>6, <1>7, <1>8, <1>9, <1>10, <1>11, <1>12, <1>13, <1>14
  DEF Next, Main, Rx, Callback

LEMMA CountStep == TypeOK /\ CountInv /\ EndInv /\ [Next]_vars => CountInv'
<1> SUFFICES ASSUME TypeOK, CountInv, EndInv, [Next]_vars PROVE CountInv'
  OBVIOUS
<1>0. WriteBlock => BlockWritten
  BY WriteBlockEffect
<1> USE DownloadAssumption
    DEF TypeOK, CountInv, EndInv, Loaded, Waiting, InCallback, InHand, BodyLength,
        Downloads, Writers, Responses, Chunks, NoDownload, NoBytes, NoResponse, NoChunk,
        mainVars, netVars, writeVars, Result
<1>1. ASSUME NEW size \in Sizes, Begin(size) PROVE CountInv'
  BY <1>1 DEF Begin, ResetDownload, Return
<1>2. CASE Request
  <2>1. CASE Connect
    <3>1. /\ received' = 0 /\ conn' = TRUE /\ pc' = "wait" /\ result' = result
          /\ response'.content_length \in Nat
          /\ UNCHANGED <<file_size, dl, writer, dropped, rx, chunk>>
      BY <1>2, <2>1 DEF Request, Connect, Lengths
    <3>2. rx = "ready" /\ writer = NoBytes /\ dropped = 0 /\ dl = NoDownload
      BY <1>2 DEF Request
    <3> QED
      BY <3>1, <3>2
  <2>2. CASE Return("fail") /\ UNCHANGED netVars
    BY <1>2, <2>2 DEF Request, Return
  <2> QED
    BY <1>2, <2>1, <2>2 DEF Request
<1>3. CASE Take
  BY <1>3 DEF Take
<1>4. CASE TimeOut
  BY <1>4 DEF TimeOut
<1>5. CASE Release
  BY <1>5 DEF Release
<1>6. CASE CheckStatus
  BY <1>6 DEF CheckStatus, Check, Return
<1>7. CASE CheckContent
  BY <1>7 DEF CheckContent, Check, Return
<1>8. CASE CheckFile
  BY <1>8 DEF CheckFile, Check, Return
<1>9. ASSUME NEW n \in 1..MaxChunk, Receive(n) PROVE CountInv'
  BY <1>9 DEF Receive, Fail
<1>10. CASE EraseSector
  BY <1>10 DEF EraseSector, EraseAt, Fail
<1>11. CASE WriteBlock
  <2>1. /\ More /\ InCallback
        /\ BlockGood \/ BlockBad
        /\ UNCHANGED <<pc, result, response, received>>
    BY <1>0, <1>11 DEF BlockWritten
  <2>2. Block \in 1..BufSize /\ Total - Block \in 0..chunk.len /\ Block <= Total
    BY <1>0, <1>11 DEF BlockWritten
  <2>3. CASE BlockGood
    BY <2>1, <2>2, <2>3 DEF BlockGood, Total
  <2>4. CASE BlockBad
    BY <2>1, <2>2, <2>4 DEF BlockBad, Total
  <2> QED
    BY <2>1, <2>3, <2>4
<1>12. CASE Written
  <2>1. /\ InCallback /\ rx' \in {"ready", "dead"}
        /\ writer'.bytes_written = writer.bytes_written /\ writer'.buf_bytes = Total
        /\ dl'.downloaded_size = writer.bytes_written
        /\ dl'.http_content_size = dl.http_content_size
        /\ UNCHANGED <<pc, result, response, received, dropped>>
    BY <1>12 DEF Written, MayWrite
  <2> QED
    BY <2>1 DEF Total
<1>13. CASE Reboot
  BY <1>13 DEF Reboot
<1>14. CASE UNCHANGED vars
  BY <1>14 DEF vars
<1> QED
  BY <1>1, <1>2, <1>3, <1>4, <1>5, <1>6, <1>7, <1>8, <1>9, <1>10, <1>11, <1>12, <1>13, <1>14
  DEF Next, Main, Rx, Callback

LEMMA EndStep == TypeOK /\ CountInv /\ EndInv /\ [Next]_vars => EndInv'
<1> SUFFICES ASSUME TypeOK, CountInv, EndInv, [Next]_vars PROVE EndInv'
  OBVIOUS
<1>0. WriteBlock => BlockWritten
  BY WriteBlockEffect
<1> USE DownloadAssumption
    DEF TypeOK, CountInv, EndInv, Loaded, Waiting, InCallback, InHand, BodyLength,
        Downloads, Writers, Responses, Chunks, NoDownload, NoBytes, NoResponse, NoChunk,
        mainVars, netVars, writeVars, Result
<1>1. ASSUME NEW size \in Sizes, Begin(size) PROVE EndInv'
  BY <1>1 DEF Begin, ResetDownload, Return
<1>2. CASE Request
  <2>1. CASE Connect
    <3>1. /\ received' = 0 /\ conn' = TRUE /\ pc' = "wait" /\ result' = result
          /\ response'.content_length \in Nat
          /\ UNCHANGED <<file_size, dl, writer, dropped, rx, chunk>>
      BY <1>2, <2>1 DEF Request, Connect, Lengths
    <3>2. /\ rx = "ready" /\ dropped = 0 /\ dl.downloaded_size = 0
          /\ result # "ok" /\ file_size # 0
      BY <1>2 DEF Request
    <3> QED
      BY <3>1, <3>2
  <2>2. CASE Return("fail") /\ UNCHANGED netVars
    BY <1>2, <2>2 DEF Request, Return
  <2> QED
    BY <1>2, <2>1, <2>2 DEF Request
<1>3. CASE Take
  BY <1>3 DEF Take
<1>4. CASE TimeOut
  BY <1>4 DEF TimeOut
<1>5. CASE Release
  BY <1>5 DEF Release
<1>6. CASE CheckStatus
  BY <1>6 DEF CheckStatus, Check, Return
<1>7. CASE CheckContent
  BY <1>7 DEF CheckContent, Check, Return
<1>8. CASE CheckFile
  BY <1>8 DEF CheckFile, Check, Return
<1>9. ASSUME NEW n \in 1..MaxChunk, Receive(n) PROVE EndInv'
  <2>1. /\ conn /\ rx = "ready" /\ n > 0 /\ pc \in {"wait", "release"} /\ result # "ok"
        /\ UNCHANGED <<pc, result, file_size, response, conn, writer>>
    BY <1>9 DEF Receive
  <2>2. CASE response.ok
    <3>1. /\ rx' = "callback" /\ dropped' = dropped
          /\ dl'.downloaded_size = dl.downloaded_size
          /\ dl'.download_status = dl.download_status
      BY <1>9, <2>2 DEF Receive
    <3>2. response.content_length = 0 => dl.downloaded_size = 0
      BY <2>1
    <3> QED
      BY <2>1, <3>1, <3>2
  <2>3. CASE ~response.ok
    <3>1. /\ rx' = "ready" /\ dl'.download_status = "error"
          /\ dl'.downloaded_size = dl.downloaded_size
      BY <1>9, <2>3 DEF Receive, Fail
    <3> QED
      BY <2>1, <3>1
  <2> QED
    BY <2>2, <2>3
<1>10. CASE EraseSector
  BY <1>10 DEF EraseSector, EraseAt, Fail
<1>11. CASE WriteBlock
  <2>1. /\ More /\ InCallback
        /\ BlockGood \/ BlockBad
        /\ UNCHANGED <<pc, result, file_size, conn, response, received>>
    BY <1>0, <1>11 DEF BlockWritten
  <2>2. result # "ok" /\ pc # "request"
    BY <2>1
  <2>3. CASE BlockGood
    BY <2>1, <2>2, <2>3 DEF BlockGood
  <2>4. CASE BlockBad
    BY <2>1, <2>2, <2>4 DEF BlockBad
  <2> QED
    BY <2>1, <2>3, <2>4
<1>12. CASE Written
  <2>1. /\ InCallback /\ rx' = IF dl.http_content_size = 0 THEN "dead" ELSE "ready"
        /\ dl'.downloaded_size \in Nat
        /\ dl'.download_status = IF chunk.final THEN "final" ELSE dl.download_status
        /\ UNCHANGED <<pc, result, file_size, conn, response, received, dropped>>
    BY <1>12 DEF Written, MayWrite
  <2>2. result # "ok" /\ pc # "request"
    BY <2>1
  <2>3. CASE Loaded /\ response.content_length = 0
    <3>1. received # 0 /\ ~chunk.final /\ dl.http_content_size = 0
      BY <2>1, <2>3
    <3> QED
      BY <2>1, <2>2, <2>3, <3>1
  <2>4. CASE ~(Loaded /\ response.content_length = 0)
    BY <2>1, <2>2, <2>4
  <2> QED
    BY <2>3, <2>4
<1>13. CASE Reboot
  BY <1>13 DEF Reboot
<1>14. CASE UNCHANGED vars
  BY <1>14 DEF vars
<1> QED
  BY <1>1, <1>2, <1>3, <1>4, <1>5, <1>6, <1>7, <1>8, <1>9, <1>10, <1>11, <1>12, <1>13, <1>14
  DEF Next, Main, Rx, Callback

LEMMA CellStep ==
  ASSUME SectorAhead
  PROVE  DInv /\ [Next]_vars => CellInv'
<1> SUFFICES ASSUME DInv, [Next]_vars PROVE CellInv'
  OBVIOUS
<1>0. WriteBlock => BlockWritten
  BY WriteBlockEffect DEF DInv
<1> USE DownloadAssumption, SectorAhead
    DEF SectorAhead, DInv, TypeOK, CountInv, EndInv, CellInv, Fresh, ErasedAhead,
        MoreToCome, Loaded, Waiting, InCallback, InHand, Downloads, Writers, Responses,
        Chunks, NoBytes, Total, mainVars, netVars, writeVars, Result
<1>1. ASSUME NEW size \in Sizes, Begin(size) PROVE CellInv'
  <2>1. tries' = tries + 1 /\ attempt' = attempt + 1 /\ rx' = "ready" /\ last_offset' = last_offset
    BY <1>1 DEF Begin
  <2>2. CASE pc' = "request" /\ result' = "none" /\ ResetDownload
    <3>1. writer'.bytes_written = 0
      BY <2>2 DEF ResetDownload
    <3>2. CASE Progressive
      BY <2>1, <2>2, <3>1, <3>2 DEF Cells
    <3>3. CASE ~Progressive
      <4>1. slot1' = [i \in Cells |-> Erased]
        BY <1>1, <2>2, <3>3 DEF Begin, Return
      <4> QED
        BY <2>1, <2>2, <3>1, <3>3, <4>1 DEF Cells
    <3> QED
      BY <3>2, <3>3
  <2>3. CASE Return("fail")
    BY <2>1, <2>3 DEF Return
  <2> QED
    BY <1>1, <2>2, <2>3 DEF Begin
<1>2. CASE Request
  BY <1>2 DEF Request, Connect, Return
<1>3. CASE Take
  BY <1>3 DEF Take
<1>4. CASE TimeOut
  BY <1>4 DEF TimeOut
<1>5. CASE Release
  BY <1>5 DEF Release
<1>6. CASE CheckStatus
  BY <1>6 DEF CheckStatus, Check, Return
<1>7. CASE CheckContent
  BY <1>7 DEF CheckContent, Check, Return
<1>8. CASE CheckFile
  BY <1>8 DEF CheckFile, Check, Return
<1>9. ASSUME NEW n \in 1..MaxChunk, Receive(n) PROVE CellInv'
  <2>1. /\ conn /\ rx = "ready" /\ pc \in {"wait", "release"} /\ result # "ok" /\ rx' # "writing"
        /\ dropped' = 0 => dropped = 0 /\ rx' = "callback"
        /\ UNCHANGED <<slot1, attempt, tries, pc, result, response, last_offset, writer>>
    BY <1>9 DEF Receive, Fail
  <2>2. /\ received' = received + n
        /\ response.content_length = 0 \/ received + n <= response.content_length
    BY <1>9 DEF Receive, BodyLength
  <2>3. MoreToCome
    BY <2>2, LengthIsNat
  <2> QED
    BY <2>1, <2>3
<1> HIDE DEF Total
<1>10. CASE EraseSector
  <2>1. PICK ok \in BOOLEAN : EraseAt(ok)
    BY <1>10 DEF EraseSector
  <2>2. /\ rx = "callback" /\ Progressive
        /\ UNCHANGED <<attempt, tries, pc, result, response, received, writer>>
    BY <1>10 DEF EraseSector, SectorNeeded
  <2>3. CASE ~ok /\ Loaded
    <3>1. dropped' # 0
      BY <2>1, <2>2, <2>3 DEF EraseAt, Fail
    <3> QED
      BY <2>1, <2>2, <2>3, <3>1 DEF EraseAt, Fail
  <2>4. CASE ok /\ Fresh /\ dropped = 0 /\ Loaded
    <3>1. ErasedAhead /\ writer.bytes_written <= last_offset
      BY <2>2, <2>4
    <3>2. last_offset' = last_offset + EraseBlock /\ dropped' = 0 /\ rx' = rx
      BY <2>1, <2>4 DEF EraseAt
    <3>3. ASSUME NEW i \in Cells, i < writer.bytes_written PROVE slot1'[i] = attempt
      BY <2>1, <2>2, <2>4, <3>1, <3>3 DEF Cells, EraseAt
    <3>4. ASSUME NEW i \in Cells, i >= writer.bytes_written, i < last_offset'
          PROVE  slot1'[i] = Erased
      BY <2>1, <2>2, <2>4, <3>1, <3>2, <3>4 DEF Cells, EraseAt
    <3> QED
      BY <2>2, <2>4, <3>1, <3>2, <3>3, <3>4
  <2>5. CASE ~(Fresh /\ dropped = 0 /\ Loaded)
    BY <2>1, <2>2, <2>5 DEF EraseAt, Fail
  <2> QED
    BY <2>3, <2>4, <2>5
<1>11. CASE WriteBlock
  <2>1. /\ MayWrite /\ More /\ InCallback
        /\ BlockGood \/ BlockBad
        /\ UNCHANGED <<attempt, tries, pc, result, response, received, last_offset>>
    BY <1>0, <1>11 DEF BlockWritten
  <2>2. /\ Total \in 1..(BufSize + MaxChunk) /\ Block \in 1..BufSize
        /\ Total - Block \in 0..chunk.len
    BY <1>0, <1>11 DEF BlockWritten
  <2>3. CASE Fresh /\ dropped = 0 /\ Loaded /\ BlockGood
    <3>1. ErasedAhead
      BY <2>1, <2>3
    <3>2. writer'.bytes_written = writer.bytes_written + Block /\ Total' = Total - Block
      BY <2>2, <2>3 DEF BlockGood, Total
    <3>3. Progressive => writer.bytes_written + Total <= last_offset
      BY <2>1, <2>2, <2>3 DEF MayWrite, SectorNeeded
    <3>4. Progressive => writer'.bytes_written + Total' <= last_offset
      BY <2>2, <3>2, <3>3
    <3>5. ASSUME NEW i \in Cells, i < writer'.bytes_written PROVE slot1'[i] = attempt
      <4>1. CASE i < writer.bytes_written
        BY <2>3, <4>1 DEF Cells, BlockGood, Kept
      <4>2. CASE i >= writer.bytes_written
        <5>1. slot1[i] = Erased
          BY <2>2, <3>1, <3>2, <3>3, <3>5, <4>2 DEF Cells
        <5> QED
          BY <2>2, <2>3, <3>2, <3>5, <4>2, <5>1 DEF Cells, BlockGood
      <4> QED
        BY <4>1, <4>2 DEF Cells
    <3>6. ASSUME NEW i \in Cells, i >= writer'.bytes_written, Progressive => i < last_offset
          PROVE  slot1'[i] = Erased
      BY <2>2, <2>3, <3>1, <3>2, <3>6 DEF Cells, BlockGood, Kept
    <3> QED
      BY <2>1, <2>3, <3>4, <3>5, <3>6 DEF BlockGood
  <2>4. CASE Fresh /\ dropped' = 0 /\ Loaded /\ BlockBad
    <3>1. dropped = 0 /\ Total = Block
      BY <2>2, <2>4 DEF BlockBad
    <3>2. chunk.final /\ received # 0
      BY <2>1, <2>2, <2>4, <3>1 DEF More, Block
    <3>3. received = response.content_length
      BY <2>1, <2>4, <3>2
    <3>4. ~MoreToCome'
      BY <2>1, <3>2, <3>3
    <3>5. Progressive => writer.bytes_written <= last_offset
      BY <2>2, <2>4, <3>1
    <3>6. ASSUME NEW i \in Cells, i < writer.bytes_written PROVE slot1'[i] = attempt
      BY <2>4, <3>1, <3>6 DEF Cells, BlockBad, Kept
    <3> QED
      BY <2>1, <2>4, <3>4, <3>5, <3>6 DEF BlockBad
  <2>5. CASE ~(Fresh /\ dropped' = 0 /\ Loaded)
    BY <2>1, <2>5 DEF BlockGood, BlockBad
  <2> QED
    BY <2>1, <2>3, <2>4, <2>5 DEF BlockGood
<1>12. CASE Written
  <2>1. /\ InCallback /\ rx' \in {"ready", "dead"}
        /\ writer'.bytes_written = writer.bytes_written
        /\ UNCHANGED <<slot1, attempt, tries, pc, result, response, received, last_offset, dropped>>
    BY <1>12 DEF Written, MayWrite
  <2>2. Total \in Nat
    BY DEF Total
  <2> QED
    BY <2>1, <2>2
<1>13. CASE Reboot
  BY <1>13 DEF Reboot
<1>14. CASE UNCHANGED vars
  BY <1>14 DEF vars, Total
<1> QED
  BY <1>1, <1>2, <1>3, <1>4, <1>5, <1>6, <1>7, <1>8, <1>9, <1>10, <1>11, <1>12, <1>13, <1>14
  DEF Next, Main, Rx, Callback

\* The part of the invariant that needs nothing of the sectors.
LoadInv == TypeOK /\ CountInv /\ EndInv

LEMMA DInit == Init => DInv
<1> SUFFICES ASSUME Init PROVE DInv
  OBVIOUS
<1>1. TypeOK
  BY TypeInit
<1>2. /\ pc = "idle" /\ result = "none" /\ rx = "ready" /\ conn = FALSE /\ last_offset = 0
      /\ dl.downloaded_size = 0 /\ writer.bytes_written = 0
  BY DEF Init, NoDownload, NoBytes
<1> QED
  BY <1>1, <1>2 DEF DInv, CountInv, EndInv, CellInv, Loaded, Waiting

LEMMA DStep ==
  ASSUME SectorAhead
  PROVE  DInv /\ [Next]_vars => DInv'
BY TypeStep, CountStep, EndStep, CellStep DEF DInv

LEMMA LoadInit == Init => LoadInv
BY DInit DEF DInv, LoadInv

LEMMA LoadStep == LoadInv /\ [Next]_vars => LoadInv'
BY TypeStep, CountStep, EndStep DEF LoadInv

LEMMA DMeans == DInv => FirstOkMeansStored
<1> SUFFICES ASSUME DInv, result = "ok", Progressive => tries = 1
             PROVE  \A i \in 0..(file_size - 1) : slot1[i] = attempt
  BY DEF FirstOkMeansStored, Stored
<1>1. pc = "done" /\ dl.downloaded_size = file_size /\ file_size # 0 /\ dropped = 0
  BY DEF DInv, EndInv
<1>2. file_size \in 1..Bank /\ file_size <= writer.bytes_written
  BY <1>1, DownloadAssumption DEF DInv, TypeOK, CountInv
<1>3. \A i \in Cells : i < writer.bytes_written => slot1[i] = attempt
  BY <1>1 DEF DInv, CellInv, Fresh, Loaded
<1>4. writer.bytes_written \in Nat
  BY DEF DInv, TypeOK, Writers
<1> QED
  BY <1>2, <1>3, <1>4, DownloadAssumption DEF Cells

\* The state of a download stays within its types, whatever the sizes.
THEOREM DownloadTypeCorrect == Spec => []TypeOK
BY TypeInit, TypeStep, PTL DEF Spec

\* hawkbit_install_update succeeds only when slot 1 holds the whole artifact,
\* for every size of bank, buffer, chunk and sector, every interleaving of the
\* callback with the waiting thread, and every mix of HTTP and flash errors and
\* resets.  With progressive erase this is true of the first download since
\* boot, and needs a sector larger than the buffers.
THEOREM FirstInstallIsWhole ==
  ASSUME SectorAhead
  PROVE  Spec => []FirstOkMeansStored
BY DInit, DStep, DMeans, PTL DEF Spec

\* When slot 1 is erased before the download, it is true of every download.
THEOREM InstallIsWhole ==
  ASSUME ~Progressive
  PROVE  Spec => []OkMeansStored
<1>1. SectorAhead
  BY DEF SectorAhead
<1>2. DInv => OkMeansStored
  BY DMeans DEF FirstOkMeansStored, OkMeansStored
<1> QED
  BY <1>1, <1>2, DInit, DStep, PTL DEF Spec

\* The inductive invariant: where every received unit is, and what the cells
\* hold up to the first unit that was dropped.
THEOREM DownloadInvariant ==
  ASSUME SectorAhead
  PROVE  Spec => []DInv
BY DInit, DStep, PTL DEF Spec

-----------------------------------------------------------------------------
(* Download implements InstallContract.                                    *)

\* No callback is under way before the first download since boot.
IdleInv == pc = "idle" => rx = "ready"

LEMMA IdleStep == LoadInv /\ IdleInv /\ [Next]_vars => IdleInv'
<1> SUFFICES ASSUME LoadInv, IdleInv, [Next]_vars, pc' = "idle" PROVE rx' = "ready"
  BY DEF IdleInv
<1>1. CASE Main
  BY <1>1 DEF Main, Begin, Request, Connect, Return, Take, TimeOut, Release, CheckStatus,
              CheckContent, CheckFile, Check, IdleInv, mainVars, netVars
<1>2. CASE Rx
  <2>1. UNCHANGED pc /\ (conn \/ InCallback)
    BY <1>2 DEF Rx, Receive, Callback, EraseSector, WriteBlock, Written, MayWrite, InCallback,
                mainVars
  <2> QED
    BY <2>1 DEF IdleInv, InCallback, LoadInv, EndInv
<1>3. CASE Reboot
  BY <1>3 DEF Reboot
<1>4. CASE UNCHANGED vars
  BY <1>4 DEF vars, mainVars, netVars, IdleInv
<1> QED
  BY <1>1, <1>2, <1>3, <1>4 DEF Next

\* A step of the client's thread, with the image in the slot left as it is.
LEMMA InstallMainStep ==
  ASSUME DInv, DInv', DInv' => OkMeansStored', Main
  PROVE  [Install!InstallNext]_(Install!installVars)
<1> USE DEF InstallState, Return, mainVars, netVars, writeVars
<1>1. ASSUME NEW size \in Sizes, Begin(size) PROVE Install!Start
  BY <1>1 DEF Begin, Install!Start
<1>2. CASE Request
  BY <1>2 DEF Request, Connect, Install!Fail, Install!InstallNext, Install!installVars
<1>3. CASE Take \/ TimeOut \/ Release
  BY <1>3 DEF Take, TimeOut, Release, Install!installVars
<1>4. CASE CheckStatus \/ CheckContent
  BY <1>4 DEF CheckStatus, CheckContent, Check, Install!Fail, Install!InstallNext,
              Install!installVars
<1>5. CASE CheckFile
  <2>1. /\ pc = "check_file" /\ pc' = "done" /\ result' \in {"ok", "fail"}
        /\ UNCHANGED <<slot1, attempt, file_size>>
    BY <1>5 DEF CheckFile, Check
  <2>2. CASE result' = "ok"
    <3>1. Install!Whole
      BY <2>1, <2>2 DEF OkMeansStored, Stored, Install!Whole
    <3> QED
      BY <2>1, <2>2, <3>1 DEF Install!Succeed, Install!InstallNext
  <2>3. CASE result' = "fail"
    BY <2>1, <2>3 DEF Install!Fail, Install!InstallNext
  <2> QED
    BY <2>1, <2>2, <2>3
<1> QED
  BY <1>1, <1>2, <1>3, <1>4, <1>5 DEF Main, Install!InstallNext

LEMMA InstallStep ==
  ASSUME DInv, DInv', DInv' => OkMeansStored', IdleInv, [Next]_vars
  PROVE  [Install!InstallNext]_(Install!installVars)
<1>1. CASE Main
  BY <1>1, InstallMainStep
<1>2. CASE \E n \in 1..MaxChunk : Receive(n)
  BY <1>2 DEF Receive, mainVars, InstallState, Install!installVars
<1>3. CASE Callback
  <2>1. InCallback /\ UNCHANGED <<attempt, file_size, pc, result>>
    BY <1>3 DEF Callback, EraseSector, WriteBlock, Written, MayWrite, InCallback, mainVars
  <2>2. InstallState \in {"installing", "failed"} /\ UNCHANGED InstallState
    BY <2>1 DEF InstallState, IdleInv, InCallback, DInv, EndInv
  <2> QED
    BY <2>1, <2>2 DEF Install!Work, Install!InstallNext
<1>4. CASE Reboot
  BY <1>4 DEF Reboot, InstallState, Install!Restart, Install!InstallNext
<1>5. CASE UNCHANGED vars
  BY <1>5 DEF vars, mainVars, InstallState, Install!installVars
<1> QED
  BY <1>1, <1>2, <1>3, <1>4, <1>5 DEF Next, Rx

\* Slot 1 erased before the download, the two threads together are an install
\* as the client understands it: it ends well only with the whole artifact in
\* the slot, and no callback that outlived the wait touches the slot after.
THEOREM InstallIsKept ==
  ASSUME ~Progressive
  PROVE  Spec => ImplementsInstall
<1>1. SectorAhead
  BY DEF SectorAhead
<1>2. DInv => OkMeansStored
  BY DMeans DEF FirstOkMeansStored, OkMeansStored
<1>3. Init => DInv /\ IdleInv /\ Install!InstallInit
  BY DInit DEF Init, IdleInv, Install!InstallInit, InstallState
<1>4. DInv /\ [Next]_vars => DInv'
  BY <1>1, DStep
<1>5. DInv /\ DInv' /\ OkMeansStored' /\ IdleInv /\ [Next]_vars
        => [Install!InstallNext]_(Install!installVars)
  BY InstallStep
<1>6. DInv => LoadInv
  BY DEF DInv, LoadInv
<1> QED
  BY <1>2, <1>3, <1>4, <1>5, <1>6, IdleStep, PTL
  DEF Spec, ImplementsInstall, Install!InstallSpec

-----------------------------------------------------------------------------
(* Progressive erase.                                                      *)

\* What a callback has in hand is still to be written within the slot, and the
\* sectors that are erased are whole ones.
HandInv == rx = "callback" => chunk.len > 0 /\ writer.bytes_written + chunk.len <= Bank
SectorInv ==
  /\ last_offset <= Bank + EraseBlock
  /\ \E n \in Nat : last_offset = n * EraseBlock

LEMMA NextSector ==
  ASSUME NEW m \in Nat, NEW n \in Nat, NEW size \in Nat, m * size < n * size
  PROVE  (m + 1) * size <= n * size
<1>1. m < n
  <2> SUFFICES ASSUME m >= n PROVE FALSE
    OBVIOUS
  <2>1. PICK d \in Nat : m = n + d
    <3>1. m - n \in Nat /\ m = n + (m - n)
      OBVIOUS
    <3> QED
      BY <3>1
  <2>2. m * size = n * size + d * size /\ d * size >= 0
    BY <2>1
  <2>3. n * size \in Nat /\ d * size \in Nat
    BY <2>1
  <2> QED
    BY <2>2, <2>3
<1>2. PICK d \in Nat : n = m + 1 + d
  <2>1. n - m - 1 \in Nat /\ n = m + 1 + (n - m - 1)
    BY <1>1
  <2> QED
    BY <2>1
<1>3. n * size = (m + 1) * size + d * size /\ d * size >= 0
  BY <1>2
<1>4. (m + 1) * size \in Nat /\ d * size \in Nat
  BY <1>2
<1> QED
  BY <1>3, <1>4

LEMMA HandStep == LoadInv /\ HandInv /\ [Next]_vars => HandInv'
<1> SUFFICES ASSUME LoadInv, HandInv, [Next]_vars, rx' = "callback"
             PROVE  chunk'.len > 0 /\ writer'.bytes_written + chunk'.len <= Bank
  BY DEF HandInv
<1>1. CASE UNCHANGED <<rx, chunk, writer>>
  BY <1>1 DEF HandInv
<1>2. ASSUME NEW n \in 1..MaxChunk, Receive(n)
      PROVE  chunk'.len > 0 /\ writer'.bytes_written + chunk'.len <= Bank
  <2>1. /\ conn /\ rx = "ready" /\ chunk'.len = n /\ writer' = writer
        /\ received + n <= BodyLength
    BY <1>2 DEF Receive, Fail
  <2>2. writer.bytes_written + writer.buf_bytes + dropped = received
    BY <2>1 DEF LoadInv, EndInv, CountInv, Loaded, Waiting, InHand, InCallback, TypeOK,
                Writers
  <2>3. /\ writer.bytes_written \in Nat /\ writer.buf_bytes \in Nat
        /\ dropped \in Nat /\ received \in Nat
    BY DEF LoadInv, TypeOK, Writers
  <2>4. BodyLength <= Bank /\ BodyLength \in Nat
    BY LengthIsNat, DownloadAssumption DEF LoadInv, TypeOK, Responses, BodyLength
  <2> QED
    BY <2>1, <2>2, <2>3, <2>4, DownloadAssumption
<1>3. CASE EraseSector
  BY <1>3 DEF EraseSector, EraseAt, Fail, HandInv
<1> QED
  BY <1>1, <1>2, <1>3
  DEF Next, Main, Begin, ResetDownload, Request, Connect, Take, TimeOut, Release,
      CheckStatus, CheckContent, CheckFile, Check, Rx, Callback, WriteBlock, Fail, Written,
      Reboot, netVars, writeVars, vars

LEMMA SectorStep ==
  ASSUME \E n \in Nat : Bank = n * EraseBlock
  PROVE  LoadInv /\ HandInv /\ SectorInv /\ [Next]_vars => SectorInv'
<1> SUFFICES ASSUME LoadInv, HandInv, SectorInv, [Next]_vars PROVE SectorInv'
  OBVIOUS
<1>1. CASE EraseSector /\ last_offset' # last_offset
  <2>1. PICK m \in Nat, n \in Nat : last_offset = m * EraseBlock /\ Bank = n * EraseBlock
    BY DEF SectorInv
  <2>2. /\ rx = "callback" /\ last_offset < writer.bytes_written + EraseBlock
        /\ last_offset' = last_offset + EraseBlock
    BY <1>1 DEF EraseSector, EraseAt, SectorNeeded
  <2>3. writer.bytes_written \in Nat /\ chunk.len \in Nat /\ last_offset \in Nat
    BY DEF LoadInv, TypeOK, Chunks, Writers
  <2>4. writer.bytes_written < Bank
    BY <2>2, <2>3, DownloadAssumption DEF HandInv
  <2>5. last_offset < (n + 1) * EraseBlock
    BY <2>1, <2>2, <2>3, <2>4, DownloadAssumption
  <2>6. (m + 1) * EraseBlock <= (n + 1) * EraseBlock
    BY <2>1, <2>5, NextSector, DownloadAssumption
  <2>7. last_offset' = (m + 1) * EraseBlock /\ Bank + EraseBlock = (n + 1) * EraseBlock
    BY <2>1, <2>2, DownloadAssumption
  <2> QED
    BY <2>6, <2>7 DEF SectorInv
<1>2. CASE last_offset' = last_offset
  BY <1>2 DEF SectorInv
<1>3. CASE Reboot
  <2>1. last_offset' = 0 * EraseBlock /\ last_offset' = 0
    BY <1>3, DownloadAssumption DEF Reboot
  <2> QED
    BY <2>1, DownloadAssumption DEF SectorInv
<1>4. EraseSector \/ Reboot \/ last_offset' = last_offset
  BY DEF Next, Main, Rx, Callback, Begin, Request, Take, TimeOut, Release, CheckStatus,
         CheckContent, CheckFile, Check, Receive, WriteBlock, Written, vars
<1> QED
  BY <1>1, <1>2, <1>3, <1>4

\* Progressive erase goes past a slot of whole sectors by one sector at most,
\* for every size of slot, sectors, buffer, chunks and artifacts, whatever fails.
\* (By the bound of Receive a body without a length counts as one of Bank units.)
THEOREM ErasesNearSlot ==
  ASSUME \E n \in Nat : Bank = n * EraseBlock
  PROVE  Spec => []EraseNearSlot
<1>1. Init => LoadInv /\ HandInv /\ SectorInv
  <2> SUFFICES ASSUME Init PROVE HandInv /\ SectorInv
    BY LoadInit
  <2>1. last_offset = 0 * EraseBlock /\ last_offset = 0
    BY DownloadAssumption DEF Init
  <2> QED
    BY <2>1, DownloadAssumption DEF Init, HandInv, SectorInv
<1>2. SectorInv => EraseNearSlot
  BY DEF SectorInv, EraseNearSlot
<1> QED
  BY <1>1, <1>2, LoadStep, HandStep, SectorStep, PTL DEF Spec

-----------------------------------------------------------------------------
(* How the wait of the main thread ends.                                   *)

\* A semaphore that is given speaks of this download.  What was written since the
\* last period shows in the size the period is compared by, once the callback
\* that wrote it has returned.
WaitInv ==
  /\ pc \in {"request", "wait"} /\ sem = 1 => dl.download_status # "none"
  /\ pc \in {"request", "wait"} /\ sem = 0 /\ rx # "writing" =>
       dl.downloaded_size = writer.bytes_written
  /\ last_downloaded_size <= dl.downloaded_size
  /\ last_downloaded_size <= seen /\ seen <= writer.bytes_written

LEMMA WaitStep == LoadInv /\ WaitInv /\ [Next]_vars => WaitInv'
<1> SUFFICES ASSUME LoadInv, WaitInv, [Next]_vars PROVE WaitInv'
  OBVIOUS
<1>0. WriteBlock => BlockWritten
  BY WriteBlockEffect DEF LoadInv
<1> USE DownloadAssumption
    DEF LoadInv, TypeOK, CountInv, WaitInv, Downloads, Writers, Chunks, NoDownload, NoBytes,
        mainVars, netVars, writeVars, Result
<1>1. ASSUME NEW size \in Sizes, Begin(size) PROVE WaitInv'
  BY <1>1 DEF Begin, ResetDownload, Return
<1>2. CASE Request
  BY <1>2 DEF Request, Connect, Return
<1>3. CASE Take \/ TimeOut \/ Release
  BY <1>3 DEF Take, TimeOut, Release
<1>4. CASE CheckStatus \/ CheckContent \/ CheckFile
  BY <1>4 DEF CheckStatus, CheckContent, CheckFile, Check, Return
<1>5. ASSUME NEW n \in 1..MaxChunk, Receive(n) PROVE WaitInv'
  BY <1>5 DEF Receive, Fail
<1>6. CASE EraseSector
  BY <1>6 DEF EraseSector, EraseAt, Fail
<1>7. CASE WriteBlock
  <2>1. /\ More
        /\ BlockGood \/ BlockBad
        /\ UNCHANGED <<pc, last_downloaded_size, seen>>
    BY <1>0, <1>7 DEF BlockWritten
  <2>2. Block \in Nat
    BY <1>0, <1>7 DEF BlockWritten
  <2>3. CASE BlockGood
    BY <2>1, <2>2, <2>3 DEF BlockGood
  <2>4. CASE BlockBad
    BY <2>1, <2>2, <2>4 DEF BlockBad
  <2> QED
    BY <2>1, <2>3, <2>4
<1>8. CASE Written
  <2>1. /\ writer'.bytes_written = writer.bytes_written
        /\ dl'.downloaded_size = writer.bytes_written
        /\ chunk.final => dl'.download_status # "none"
        /\ ~chunk.final => dl'.download_status = dl.download_status /\ sem' = sem
        /\ UNCHANGED <<pc, last_downloaded_size, seen>>
    BY <1>8 DEF Written
  <2> QED
    BY <2>1
<1>9. CASE Reboot
  BY <1>9 DEF Reboot
<1>10. CASE UNCHANGED vars
  BY <1>10 DEF vars
<1> QED
  BY <1>1, <1>2, <1>3, <1>4, <1>5, <1>6, <1>7, <1>8, <1>9, <1>10
  DEF Next, Main, Rx, Callback

LEMMA WaitInit == Init => WaitInv
BY DEF Init, WaitInv, NoDownload, NoBytes

\* No semaphore left over from an earlier download ends the wait of this one.
THEOREM WaitEndsForReason == Spec => WokenForReason
<1>1. WaitInv /\ [Next]_vars =>
        [pc = "wait" /\ pc' = "release" /\ sem = 1 => dl.download_status # "none"]_vars
  BY DEF WaitInv
<1> QED
  BY <1>1, LoadInit, LoadStep, WaitInit, WaitStep, PTL DEF Spec, WokenForReason

\* However the periods of the wait fall between the writes, a download whose
\* blocks were written since the last period is waited for, unless the callback
\* that wrote them is still in flash_img_buffered_write.
THEOREM WritingIsWaitedFor == Spec => NotGivenUpAfterWriting
<1>1. LoadInv /\ WaitInv /\ [Next]_vars =>
        [GivenUp /\ rx # "writing" => writer.bytes_written = seen]_vars
  <2> SUFFICES ASSUME LoadInv, WaitInv, [Next]_vars, GivenUp, rx # "writing"
               PROVE  writer.bytes_written = seen
    OBVIOUS
  <2>1. TimeOut
    BY DEF GivenUp, Next, Main, Begin, Request, Connect, Take, Release, CheckStatus,
           CheckContent, CheckFile, Check, Return, Rx, Receive, Callback, EraseSector,
           WriteBlock, Written, Reboot, mainVars, vars
  <2>2. last_downloaded_size = dl.downloaded_size
    BY <2>1 DEF TimeOut, GivenUp
  <2> QED
    BY <2>2 DEF GivenUp, WaitInv, LoadInv, TypeOK, Downloads, Writers
<1> QED
  BY <1>1, LoadInit, LoadStep, WaitInit, WaitStep, PTL DEF Spec, NotGivenUpAfterWriting

\* The wait is bounded, for every size of the body and every order of writes
\* and timeouts: while it lasts the response stays the same, and each timeout
\* that lets it go on has seen more of that body written than the one before.
\* (A callback that faulted, its body being without a length, ends in a reset.)
THEOREM WaitIsBounded ==
  Spec => [][pc = "wait" /\ pc' = "wait" =>
               /\ response' = response
               /\ last_downloaded_size <= last_downloaded_size'
               /\ TimeOut /\ rx # "dead" =>
                    /\ last_downloaded_size < last_downloaded_size'
                    /\ last_downloaded_size' <= response.content_length]_vars
<1> DEFINE Bounded ==
      /\ response' = response
      /\ last_downloaded_size <= last_downloaded_size'
      /\ TimeOut /\ rx # "dead" =>
           /\ last_downloaded_size < last_downloaded_size'
           /\ last_downloaded_size' <= response.content_length
<1>1. LoadInv /\ WaitInv /\ [Next]_vars => [pc = "wait" /\ pc' = "wait" => Bounded]_vars
  <2> SUFFICES ASSUME LoadInv, WaitInv, Next, pc = "wait", pc' = "wait" PROVE Bounded
    OBVIOUS
  <2>1. last_downloaded_size \in Nat /\ dl.downloaded_size \in Nat
    BY DEF LoadInv, TypeOK, Downloads
  <2>2. CASE TimeOut
    <3>1. /\ last_downloaded_size # dl.downloaded_size
          /\ last_downloaded_size' = dl.downloaded_size
          /\ response' = response
      BY <2>2 DEF TimeOut, netVars
    <3>2. last_downloaded_size < dl.downloaded_size
      BY <2>1, <3>1 DEF WaitInv
    <3>3. ASSUME rx # "dead" PROVE dl.downloaded_size <= response.content_length
      <4>1. response.content_length # 0
        BY <2>1, <3>2, <3>3 DEF LoadInv, EndInv, Loaded, Waiting
      <4>2. received <= response.content_length
        BY <4>1 DEF LoadInv, CountInv, Loaded, Waiting, BodyLength
      <4>3. /\ dl.downloaded_size <= writer.bytes_written
            /\ writer.bytes_written + writer.buf_bytes + dropped + InHand = received
        BY DEF LoadInv, CountInv, Loaded, Waiting
      <4>4. /\ writer.bytes_written \in Nat /\ writer.buf_bytes \in Nat /\ dropped \in Nat
            /\ InHand \in Nat /\ received \in Nat /\ response.content_length \in Nat
        BY LengthIsNat, DownloadAssumption
        DEF LoadInv, TypeOK, Writers, Chunks, InHand
      <4> QED
        BY <2>1, <4>2, <4>3, <4>4
    <3> QED
      BY <2>1, <3>1, <3>2, <3>3
  <2>3. CASE Rx
    BY <2>1, <2>3 DEF Rx, Receive, Callback, EraseSector, WriteBlock, Written, mainVars,
                      TimeOut, netVars
  <2>4. CASE Main /\ ~TimeOut
    BY <2>4 DEF Main, Begin, Request, Take, Release, CheckStatus, CheckContent, CheckFile,
                Check, Return
  <2>5. CASE Reboot
    BY <2>5 DEF Reboot
  <2> QED
    BY <2>2, <2>3, <2>4, <2>5 DEF Next
<1> QED
  BY <1>1, LoadInit, LoadStep, WaitInit, WaitStep, PTL DEF Spec
=============================================================================

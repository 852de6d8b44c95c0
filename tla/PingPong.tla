------------------------------ MODULE PingPong ------------------------------
(***************************************************************************)
(* The double-buffered file download of simibox_download.cpp.  The net     *)
(* task (download_file_standalone, called by the file loop of              *)
(* download_simi_folder) fills one PSRAM half from HTTP while the SD       *)
(* writer task (sd_writer_task, other core) drains the other half to the   *)
(* .part file.  They share s_buf, the fields of s_sd_job and two binary    *)
(* semaphores; nothing else orders them.                                   *)
(*                                                                         *)
(* Data: byte i of the response body is the number i and 0 is any byte     *)
(* that does not belong to this response, so a reordered, repeated, lost   *)
(* or stale byte is visible in the file.  Sizes are small constants in     *)
(* place of 1.5 MB halves, the 32 KB bounce buffer and the 16 KB stdio     *)
(* buffer.  s_sd_job.done is written and never read, and is left out.      *)
(***************************************************************************)
EXTENDS Integers, Sequences

CONSTANTS MaxBody,   \* longest response body the server sends
          Halves,    \* sizes tried for a half buffer (try_halves)
          Bounce,    \* sizeof(dram_bounce)
          MaxCalls   \* bound: calls of download_file_standalone per folder

ASSUME MaxBodyAssumption  == MaxBody \in Nat
ASSUME HalvesAssumption   == Halves \subseteq Nat \ {0} /\ Halves # {}
ASSUME BounceAssumption   == Bounce \in Nat \ {0}
ASSUME MaxCallsAssumption == MaxCalls \in Nat \ {0}

VARIABLES
    \* net task: control, the response, and the locals of the download loop
    pc, calls, body, clen,
    total, buf_filled, cur, sd_write_pending, net_error, sd_error, result,
    \* ping-pong halves (capacity 0: not allocated)
    s_buf_capacity, s_buf,
    \* s_sd_job
    job_file, job_data, job_len, job_sd_error, job_stop,
    sems, sem_job_ready, sem_job_done, s_sd_task_handle,
    \* SD writer task
    wpc, data, remaining, offset, error, dram_bounce, written,
    \* the stream of the .part file (f: the call that opened it, 0 when closed),
    \* the bytes it accepted, and the file renamed into place
    f, file, published

callVars   == <<calls, body, clen>>
loopVars   == <<total, buf_filled, cur, sd_write_pending, net_error, sd_error>>
bufVars    == <<s_buf_capacity, s_buf>>
jobVars    == <<job_file, job_data, job_len, job_sd_error, job_stop>>
semVars    == <<sems, sem_job_ready, sem_job_done, s_sd_task_handle>>
writerVars == <<wpc, data, remaining, offset, error, dram_bounce, written>>
fileVars   == <<f, file, published>>
vars == <<pc, result, callVars, loopVars, bufVars, jobVars, semVars,
          writerVars, fileVars>>

DlResult == {"OK", "SD_FAILED", "NET_FAILED", "OTHER_FAILED"}

Junk(n) == [i \in 1..n |-> 0]

Init ==
    /\ pc = "idle" /\ calls = 0 /\ body = 0 /\ clen = 0
    /\ total = 0 /\ buf_filled = 0 /\ cur = 0
    /\ sd_write_pending = FALSE /\ net_error = FALSE /\ sd_error = FALSE
    /\ result = "none"
    /\ s_buf_capacity = 0 /\ s_buf = [c \in {0, 1} |-> Junk(0)]
    /\ job_file = 0 /\ job_data = 0 /\ job_len = 0
    /\ job_sd_error = FALSE /\ job_stop = FALSE
    /\ sems = FALSE /\ sem_job_ready = 0 /\ sem_job_done = 0
    /\ s_sd_task_handle = FALSE
    /\ wpc = "none" /\ data = 0 /\ remaining = 0 /\ offset = 0
    /\ error = FALSE /\ dram_bounce = Junk(Bounce) /\ written = 0
    /\ f = 0 /\ file = <<>> /\ published = <<>>

-----------------------------------------------------------------------------
(* Net task: setup of a call *)

\* The file loop starts a call: the first file, the next file after OK, or the
\* same file again after SD_FAILED (its .part removed).  Bytes left in the
\* halves and the bounce buffer belong to an earlier response: relabelled 0.
CallDownload ==
    /\ pc = "idle" /\ calls < MaxCalls
    /\ result \in {"none", "OK", "SD_FAILED"}
    /\ calls' = calls + 1
    /\ body' \in 0..MaxBody
    /\ clen' \in {0, body'}
    /\ result' = "none"
    /\ file' = <<>> /\ published' = <<>>
    /\ s_buf' = [c \in {0, 1} |-> Junk(s_buf_capacity)]
    /\ dram_bounce' = Junk(Bounce)
    /\ pc' = "http"
    /\ UNCHANGED <<loopVars, s_buf_capacity, jobVars, semVars, wpc, data,
                   remaining, offset, error, written, f>>

\* Leave the call with outcome r.
Return(r) == pc' = "idle" /\ result' = r

\* Both attempts to open the connection failed, or the status is not 200.
HttpSetupFails ==
    /\ pc = "http"
    /\ Return("NET_FAILED")
    /\ UNCHANGED <<callVars, loopVars, bufVars, jobVars, semVars, writerVars,
                   fileVars>>

HttpSetupOk ==
    /\ pc = "http"
    /\ pc' = "buffers"
    /\ UNCHANGED <<result, callVars, loopVars, bufVars, jobVars, semVars,
                   writerVars, fileVars>>

\* ensure_pingpong_buffers: keep the halves of an earlier call, or allocate
\* both with one of the sizes tried; when no size fits neither is kept.
EnsureBuffers ==
    /\ pc = "buffers"
    /\ \/ /\ s_buf_capacity > 0
          /\ pc' = "fopen"
          /\ UNCHANGED <<result, bufVars>>
       \/ /\ s_buf_capacity = 0
          /\ s_buf_capacity' \in Halves
          /\ s_buf' = [c \in {0, 1} |-> Junk(s_buf_capacity')]
          /\ pc' = "fopen"
          /\ UNCHANGED result
       \/ /\ s_buf_capacity = 0
          /\ Return("OTHER_FAILED")
          /\ UNCHANGED bufVars
    /\ UNCHANGED <<callVars, loopVars, jobVars, semVars, writerVars, fileVars>>

OpenFile ==
    /\ pc = "fopen"
    /\ \/ /\ f' = calls /\ file' = <<>>
          /\ pc' = "start"
          /\ UNCHANGED result
       \/ /\ Return("SD_FAILED")
          /\ UNCHANGED <<f, file>>
    /\ UNCHANGED <<callVars, loopVars, bufVars, jobVars, semVars, writerVars,
                   published>>

\* The locals of the download loop start afresh in every call.
ResetLoop ==
    /\ total' = 0 /\ buf_filled' = 0 /\ cur' = 0
    /\ sd_write_pending' = FALSE /\ net_error' = FALSE /\ sd_error' = FALSE

\* Use the writer of an earlier call, or create semaphores and task.  A
\* failure may leave the semaphores behind; no call follows it.
StartWriter ==
    /\ pc = "start"
    /\ \/ /\ s_sd_task_handle
          /\ job_file' = f /\ pc' = "read" /\ ResetLoop
          /\ UNCHANGED <<result, job_data, job_len, job_sd_error, job_stop,
                         semVars, wpc, f>>
       \/ /\ ~s_sd_task_handle
          /\ sems' = TRUE /\ sem_job_ready' = 0 /\ sem_job_done' = 0
          /\ s_sd_task_handle' = TRUE /\ wpc' = "wait"
          /\ job_stop' = FALSE /\ job_sd_error' = FALSE
          /\ job_file' = f /\ pc' = "read" /\ ResetLoop
          /\ UNCHANGED <<result, job_data, job_len, f>>
       \/ /\ ~s_sd_task_handle
          /\ sems' \in BOOLEAN
          /\ job_stop' = FALSE /\ job_sd_error' = FALSE
          /\ f' = 0
          /\ Return("OTHER_FAILED")
          /\ UNCHANGED <<loopVars, job_file, job_data, job_len, sem_job_ready,
                         sem_job_done, s_sd_task_handle, wpc>>
    /\ UNCHANGED <<callVars, bufVars, data, remaining, offset, error,
                   dram_bounce, written, file, published>>

-----------------------------------------------------------------------------
(* Net task: the download loop *)

\* Free space in the half being filled: the most one read may deliver.
MutRoomWholeHalf == s_buf_capacity
Room == s_buf_capacity - buf_filled

\* esp_http_client_read delivers n bytes into s_buf[cur].
ReadBytes(n) ==
    /\ pc = "read"
    /\ n <= Room /\ total + n <= body
    /\ s_buf' = [s_buf EXCEPT ![cur] =
                   [i \in 1..s_buf_capacity |->
                      IF i > buf_filled /\ i <= buf_filled + n
                      THEN total + (i - buf_filled) ELSE s_buf[cur][i]]]
    /\ buf_filled' = buf_filled + n
    /\ total' = total + n
    /\ pc' = IF buf_filled + n < s_buf_capacity THEN "read" ELSE "filled"
    /\ UNCHANGED <<result, callVars, cur, sd_write_pending, net_error,
                   sd_error, s_buf_capacity, jobVars, semVars, writerVars,
                   fileVars>>

\* It returns 0: the end of the body, or the server closed early.
ReadEof ==
    /\ pc = "read"
    /\ pc' = "filled"
    /\ UNCHANGED <<result, callVars, loopVars, bufVars, jobVars, semVars,
                   writerVars, fileVars>>

\* It returns a negative value: error or timeout.
ReadError ==
    /\ pc = "read"
    /\ net_error' = TRUE
    /\ pc' = "filled"
    /\ UNCHANGED <<result, callVars, total, buf_filled, cur, sd_write_pending,
                   sd_error, bufVars, jobVars, semVars, writerVars, fileVars>>

Nothing == net_error \/ buf_filled = 0

\* A network error or an empty cycle leaves the loop; the writer may be busy.
MutLeaveWithoutWait ==
    /\ pc = "filled" /\ Nothing
    /\ pc' = "close"
    /\ UNCHANGED <<result, callVars, loopVars, bufVars, jobVars, semVars,
                   writerVars, fileVars>>
LeaveLoop ==
    /\ pc = "filled" /\ Nothing
    /\ pc' = "final"
    /\ UNCHANGED <<result, callVars, loopVars, bufVars, jobVars, semVars,
                   writerVars, fileVars>>

\* Wait for the previous SD write before handing over the next half.
AwaitPrevious ==
    /\ pc = "filled" /\ ~Nothing /\ sd_write_pending
    /\ sem_job_done = 1
    /\ sem_job_done' = 0
    /\ sd_write_pending' = FALSE
    /\ sd_error' = job_sd_error
    /\ pc' = IF job_sd_error THEN "final" ELSE "filled"
    /\ UNCHANGED <<result, callVars, total, buf_filled, cur, net_error,
                   bufVars, jobVars, sems, sem_job_ready, s_sd_task_handle,
                   writerVars, fileVars>>

\* The half just filled may be handed over: no write is outstanding.
MutHandOverAnyTime == ~Nothing
MayHandOver == ~Nothing /\ ~sd_write_pending

\* Fill in the job ...
Kick ==
    /\ pc = "filled" /\ MayHandOver
    /\ job_data' = cur
    /\ job_len' = buf_filled
    /\ job_sd_error' = FALSE
    /\ sd_write_pending' = TRUE
    /\ pc' = "signal"
    /\ UNCHANGED <<result, callVars, total, buf_filled, cur, net_error,
                   sd_error, bufVars, job_file, job_stop, semVars, writerVars,
                   fileVars>>

\* The half the net task fills next.
MutSameBuffer(c) == c
Other(c) == 1 - c

\* ... wake the writer, swap halves, and go on unless this one was short.
Signal ==
    /\ pc = "signal"
    /\ sem_job_ready' = 1
    /\ cur' = Other(cur)
    /\ buf_filled' = 0
    /\ pc' = IF buf_filled < s_buf_capacity THEN "final" ELSE "read"
    /\ UNCHANGED <<result, callVars, total, sd_write_pending, net_error,
                   sd_error, bufVars, jobVars, sems, sem_job_done,
                   s_sd_task_handle, writerVars, fileVars>>

-----------------------------------------------------------------------------
(* Net task: the end of a call *)

\* Wait for the last SD write, if one is outstanding, and take its verdict.
MutFinalWaitDropsError ==
    /\ pc = "final" /\ sd_write_pending
    /\ sem_job_done = 1
    /\ sem_job_done' = 0
    /\ sd_write_pending' = FALSE
    /\ pc' = "close"
    /\ UNCHANGED <<result, callVars, total, buf_filled, cur, net_error,
                   sd_error, bufVars, jobVars, sems, sem_job_ready,
                   s_sd_task_handle, writerVars, fileVars>>
FinalWait ==
    /\ pc = "final" /\ sd_write_pending
    /\ sem_job_done = 1
    /\ sem_job_done' = 0
    /\ sd_write_pending' = FALSE
    /\ sd_error' = (sd_error \/ job_sd_error)
    /\ pc' = "close"
    /\ UNCHANGED <<result, callVars, total, buf_filled, cur, net_error,
                   bufVars, jobVars, sems, sem_job_ready, s_sd_task_handle,
                   writerVars, fileVars>>

FinalNoWait ==
    /\ pc = "final" /\ ~sd_write_pending
    /\ pc' = "close"
    /\ UNCHANGED <<result, callVars, loopVars, bufVars, jobVars, semVars,
                   writerVars, fileVars>>

\* SD error: close, keep the .part.  Otherwise a network error: close, unlink.
CloseFailed ==
    /\ pc = "close" /\ (sd_error \/ net_error)
    /\ f' = 0
    /\ Return(IF sd_error THEN "SD_FAILED" ELSE "NET_FAILED")
    /\ UNCHANGED <<callVars, loopVars, bufVars, jobVars, semVars, writerVars,
                   file, published>>

\* fflush, fsync, fclose: none of the three results is looked at.
FlushAndClose ==
    /\ pc = "close" /\ ~sd_error /\ ~net_error
    /\ f' = 0
    /\ pc' = "check"
    /\ UNCHANGED <<result, callVars, loopVars, bufVars, jobVars, semVars,
                   writerVars, file, published>>

\* The length test after the close.
MutWrongLengthNever == total = 0
WrongLength == (clen > 0 /\ total # clen) \/ total = 0

RejectLength ==
    /\ pc = "check" /\ WrongLength
    /\ Return("OTHER_FAILED")
    /\ UNCHANGED <<callVars, loopVars, bufVars, jobVars, semVars, writerVars,
                   fileVars>>

\* The .part file becomes the file.  On the card it keeps what the stream
\* accepted, short of any tail that an unnoticed failure of fflush, fsync or
\* fclose dropped: stdio data, sectors, or the size in the directory entry.
Rename(kept) ==
    /\ pc = "check" /\ ~WrongLength
    /\ published' = SubSeq(file, 1, kept)
    /\ Return("OK")
    /\ UNCHANGED <<callVars, loopVars, bufVars, jobVars, semVars, writerVars,
                   f, file>>

RenameFails ==
    /\ pc = "check" /\ ~WrongLength
    /\ Return("SD_FAILED")
    /\ UNCHANGED <<callVars, loopVars, bufVars, jobVars, semVars, writerVars,
                   fileVars>>

-----------------------------------------------------------------------------
(* Net task: stop_sd_writer_task and free_pingpong_buffers, once the file   *)
(* loop has ended (the list is never empty: it names manifest.json)         *)

MutStopWithoutGive ==
    /\ pc = "idle" /\ calls > 0
    /\ job_stop' = s_sd_task_handle
    /\ pc' = "stopping"
    /\ UNCHANGED <<result, callVars, loopVars, bufVars, job_file, job_data,
                   job_len, job_sd_error, semVars, writerVars, fileVars>>
StopWriter ==
    /\ pc = "idle" /\ calls > 0
    /\ IF s_sd_task_handle
         THEN /\ job_stop' = TRUE
              /\ sem_job_ready' = 1
              /\ pc' = "stopping"
         ELSE /\ pc' = "delete"
              /\ UNCHANGED <<job_stop, sem_job_ready>>
    /\ UNCHANGED <<result, callVars, loopVars, bufVars, job_file, job_data,
                   job_len, job_sd_error, sems, sem_job_done,
                   s_sd_task_handle, writerVars, fileVars>>

\* vTaskDelay(100 ms).  Timing assumption: it outlasts the wake-up of a
\* writer blocked on sem_job_ready and its test of job->stop.  It does not
\* wait for a write in progress.
StopDelay ==
    /\ pc = "stopping"
    /\ wpc \notin {"wait", "load"}
    /\ s_sd_task_handle' = FALSE
    /\ pc' = "delete"
    /\ UNCHANGED <<result, callVars, loopVars, bufVars, jobVars, sems,
                   sem_job_ready, sem_job_done, writerVars, fileVars>>

DeleteAndFree ==
    /\ pc = "delete"
    /\ sems' = FALSE /\ sem_job_ready' = 0 /\ sem_job_done' = 0
    /\ s_buf_capacity' = 0
    /\ s_buf' = [c \in {0, 1} |-> Junk(0)]
    /\ pc' = "stopped"
    /\ UNCHANGED <<result, callVars, loopVars, jobVars, s_sd_task_handle,
                   writerVars, fileVars>>

-----------------------------------------------------------------------------
(* SD writer task *)

TakeJob ==
    /\ wpc = "wait"
    /\ sem_job_ready = 1
    /\ sem_job_ready' = 0
    /\ wpc' = "load"
    /\ UNCHANGED <<pc, result, callVars, loopVars, bufVars, jobVars, sems,
                   sem_job_done, s_sd_task_handle, data, remaining, offset,
                   error, dram_bounce, written, fileVars>>

\* Exit when told to stop, else copy the job into locals.
LoadJob ==
    /\ wpc = "load"
    /\ IF job_stop
         THEN /\ wpc' = "gone"
              /\ UNCHANGED <<data, remaining, offset, error, written>>
         ELSE /\ wpc' = "chunk"
              /\ data' = job_data /\ remaining' = job_len
              /\ offset' = 0 /\ error' = FALSE /\ written' = 0
    /\ UNCHANGED <<pc, result, callVars, loopVars, bufVars, jobVars, semVars,
                   dram_bounce, fileVars>>

Chunk == IF remaining - offset > Bounce THEN Bounce ELSE remaining - offset

\* memcpy from the PSRAM half into the DRAM bounce buffer.
CopyChunk ==
    /\ wpc = "chunk" /\ ~error /\ offset < remaining
    /\ dram_bounce' = [i \in 1..Bounce |->
                         IF i <= Chunk THEN s_buf[data][offset + i]
                                       ELSE dram_bounce[i]]
    /\ written' = 0
    /\ wpc' = "write"
    /\ UNCHANGED <<pc, result, callVars, loopVars, bufVars, jobVars, semVars,
                   data, remaining, offset, error, fileVars>>

\* The stream accepts w bytes starting at dram_bounce + from.
Accept(from, w) == file' = file \o [i \in 1..w |-> dram_bounce[from + i]]

\* fwrite of the chunk; a short count is retried once.
WriteChunk(w) ==
    /\ wpc = "write"
    /\ w <= Chunk
    /\ Accept(0, w)
    /\ written' = w
    /\ IF w = Chunk THEN wpc' = "chunk" /\ offset' = offset + Chunk
                    ELSE wpc' = "retry" /\ UNCHANGED offset
    /\ UNCHANGED <<pc, result, callVars, loopVars, bufVars, jobVars, semVars,
                   data, remaining, error, dram_bounce, f, published>>

\* Second fwrite, of the rest of the chunk; a short count ends the job.
MutRetryFromStart(w) ==
    /\ wpc = "retry"
    /\ written + w <= Chunk
    /\ Accept(0, w)
    /\ wpc' = "chunk"
    /\ IF written + w = Chunk THEN offset' = offset + Chunk /\ UNCHANGED error
                              ELSE error' = TRUE /\ UNCHANGED offset
    /\ UNCHANGED <<pc, result, callVars, loopVars, bufVars, jobVars, semVars,
                   data, remaining, dram_bounce, written, f, published>>
RetryChunk(w) ==
    /\ wpc = "retry"
    /\ written + w <= Chunk
    /\ Accept(written, w)
    /\ wpc' = "chunk"
    /\ IF written + w = Chunk THEN offset' = offset + Chunk /\ UNCHANGED error
                              ELSE error' = TRUE /\ UNCHANGED offset
    /\ UNCHANGED <<pc, result, callVars, loopVars, bufVars, jobVars, semVars,
                   data, remaining, dram_bounce, written, f, published>>

\* All chunks written or the job failed: publish the verdict ...
MutErrorSkipsGive ==
    /\ wpc = "chunk" /\ (error \/ offset >= remaining)
    /\ job_sd_error' = error
    /\ wpc' = IF error THEN "wait" ELSE "give"
    /\ UNCHANGED <<pc, result, callVars, loopVars, bufVars, job_file, job_data,
                   job_len, job_stop, semVars, data, remaining, offset, error,
                   dram_bounce, written, fileVars>>
Report ==
    /\ wpc = "chunk" /\ (error \/ offset >= remaining)
    /\ job_sd_error' = error
    /\ wpc' = "give"
    /\ UNCHANGED <<pc, result, callVars, loopVars, bufVars, job_file, job_data,
                   job_len, job_stop, semVars, data, remaining, offset, error,
                   dram_bounce, written, fileVars>>

\* ... and signal it.
GiveDone ==
    /\ wpc = "give"
    /\ sem_job_done' = 1
    /\ wpc' = "wait"
    /\ UNCHANGED <<pc, result, callVars, loopVars, bufVars, jobVars, sems,
                   sem_job_ready, s_sd_task_handle, data, remaining, offset,
                   error, dram_bounce, written, fileVars>>

-----------------------------------------------------------------------------
NetTask ==
    \/ CallDownload \/ HttpSetupFails \/ HttpSetupOk \/ EnsureBuffers
    \/ OpenFile \/ StartWriter
    \/ \E n \in 1..MaxBody : ReadBytes(n)
    \/ ReadEof \/ ReadError \/ LeaveLoop \/ AwaitPrevious \/ Kick \/ Signal
    \/ FinalWait \/ FinalNoWait \/ CloseFailed \/ FlushAndClose
    \/ RejectLength \/ RenameFails
    \/ \E kept \in 0..Len(file) : Rename(kept)
    \/ StopWriter \/ StopDelay \/ DeleteAndFree

WriterTask ==
    \/ TakeJob \/ LoadJob \/ CopyChunk
    \/ \E w \in 0..Bounce : WriteChunk(w) \/ RetryChunk(w)
    \/ Report \/ GiveDone

\* download_simi_folder goes on without the writer.
Terminated == pc = "stopped" /\ wpc \in {"none", "gone"} /\ UNCHANGED vars

Next == NetTask \/ WriterTask \/ Terminated

Spec == Init /\ [][Next]_vars

\* Both tasks are scheduled: they run on different cores, a read returns
\* within the client's timeout and an fwrite within the driver's.
FairSpec == Spec /\ WF_vars(NetTask) /\ WF_vars(WriterTask)

-----------------------------------------------------------------------------
(* Properties *)

WriterBusy == wpc \in {"load", "chunk", "write", "retry", "give"}

NetType ==
    /\ pc \in {"idle", "http", "buffers", "fopen", "start", "read", "filled",
               "signal", "final", "close", "check", "stopping", "delete",
               "stopped"}
    /\ calls \in 0..MaxCalls /\ body \in 0..MaxBody /\ clen \in 0..MaxBody
    /\ total \in 0..MaxBody /\ cur \in {0, 1}
    /\ buf_filled \in 0..total
    /\ sd_write_pending \in BOOLEAN /\ net_error \in BOOLEAN
    /\ sd_error \in BOOLEAN /\ result \in DlResult \cup {"none"}

BufType ==
    /\ s_buf_capacity \in Nat
    /\ s_buf \in [{0, 1} -> [1..s_buf_capacity -> 0..MaxBody]]
    /\ pc \in {"read", "filled", "signal"} => buf_filled <= s_buf_capacity

JobType ==
    /\ job_file \in 0..MaxCalls /\ job_data \in {0, 1}
    /\ job_len \in 0..MaxBody
    /\ job_sd_error \in BOOLEAN /\ job_stop \in BOOLEAN
    /\ sems \in BOOLEAN /\ s_sd_task_handle \in BOOLEAN
    /\ sem_job_ready \in {0, 1} /\ sem_job_done \in {0, 1}

WriterType ==
    /\ wpc \in {"none", "wait", "load", "chunk", "write", "retry", "give",
                "gone"}
    /\ data \in {0, 1} /\ remaining \in 0..MaxBody /\ offset \in 0..MaxBody
    /\ error \in BOOLEAN /\ written \in 0..Bounce
    /\ dram_bounce \in [1..Bounce -> 0..MaxBody]

FileType ==
    /\ f \in 0..MaxCalls
    /\ file \in Seq(0..MaxBody) /\ published \in Seq(0..MaxBody)

\* Every variable stays in its range: a read never fills a half beyond its
\* capacity and the semaphores stay binary.
TypeOK == NetType /\ BufType /\ JobType /\ WriterType /\ FileType

\* The net task never fills the half the writer is draining
\* (s_buf[cur] against job->data, between the two semaphores).
BufferExclusion ==
    (wpc \in {"chunk", "write", "retry"} /\ pc = "read") => data # cur

\* What the stream has accepted is at every moment the body in order from its
\* first byte: nothing lost, repeated, swapped or stale, across chunk
\* boundaries, short fwrites, retries and buffer swaps.
InOrder == \A i \in 1..Len(file) : file[i] = i

\* A call that returned OK had every byte it read accepted by the stream, and
\* read all of them when the server announced a length (the sd_error flag of
\* the last job cannot be missed).
OkMeansAllAccepted ==
    result = "OK" => /\ Len(file) = total
                     /\ total > 0
                     /\ clen > 0 => total = body

\* No signal is lost: a binary semaphore is never given when it is full
\* (a lost give would leave the other task in a portMAX_DELAY take), and
\* between calls neither semaphore holds a signal for the next one.
NoLostGive ==
    /\ pc = "signal" => sem_job_ready = 0
    /\ wpc = "give" => sem_job_done = 0
    /\ pc \in {"idle", "read"} /\ ~sd_write_pending =>
          sem_job_ready = 0 /\ sem_job_done = 0

\* The writer only writes to the stream of the call in progress, and that
\* stream is open.
WriterFileOpen ==
    wpc \in {"write", "retry"} => f # 0 /\ job_file = f /\ f = calls

\* The semaphores are deleted and the halves freed only when no writer task
\* can still use them.
NoUseAfterFree ==
    /\ pc = "stopped" => wpc \in {"none", "gone"}
    /\ WriterBusy \/ wpc = "wait" => sems /\ s_buf_capacity > 0

-----------------------------------------------------------------------------
(* The inductive invariant behind the safety properties *)

Loop   == {"read", "filled", "signal", "final"}
Ending == {"stopping", "delete", "stopped"}

\* Where each task can be: the task handle, the semaphores, the halves, the
\* stream and the flags of the loop as functions of the two program counters.
Control ==
    /\ wpc \notin {"none", "gone"} => s_sd_task_handle
    /\ s_sd_task_handle => wpc # "none" /\ sems /\ s_buf_capacity > 0
    /\ wpc = "gone" => pc \in Ending
    /\ pc \in {"delete", "stopped"} => wpc \in {"none", "gone"}
                                      /\ ~s_sd_task_handle
    /\ pc \in {"fopen", "start"} => s_buf_capacity > 0
    /\ pc \in Loop \cup {"close", "check"} => s_sd_task_handle
    /\ job_stop => pc \in Ending
    /\ pc = "stopping" => job_stop /\ s_sd_task_handle
    /\ pc # "idle" => calls > 0
    /\ pc \in Loop \cup {"start", "close"} => f = calls
    /\ pc \in Loop \cup {"close"} => job_file = f
    /\ pc \notin Loop => ~sd_write_pending
    /\ pc = "signal" => sd_write_pending /\ buf_filled > 0
    /\ sd_error => ~(pc \in {"read", "filled", "signal", "check"})
                   /\ ~sd_write_pending
    /\ net_error => ~(pc \in {"read", "signal", "check"})
    /\ result # "none" => pc \in Ending \cup {"idle"}

\* A write has been signalled and its completion not yet taken.
Outstanding == sd_write_pending /\ pc # "signal"

\* The hand-off is a token that is in exactly one place: with the net task,
\* in sem_job_ready, with the writer, or in sem_job_done.
Handshake ==
    /\ ~Outstanding /\ pc \notin Ending =>
          sem_job_ready = 0 /\ sem_job_done = 0 /\ wpc \in {"none", "wait"}
    /\ Outstanding =>
          \/ sem_job_ready = 1 /\ sem_job_done = 0 /\ wpc = "wait"
          \/ sem_job_ready = 0 /\ sem_job_done = 0 /\ WriterBusy
          \/ sem_job_ready = 0 /\ sem_job_done = 1 /\ wpc = "wait"
    /\ pc = "stopping" =>
          /\ sem_job_done = 0
          /\ \/ sem_job_ready = 1 /\ wpc = "wait"
             \/ sem_job_ready = 0 /\ wpc \in {"load", "gone"}

\* The bytes already handed to the writer: all those read but the ones still
\* in the half being filled.
Handed == total - buf_filled

\* What the halves and the bounce buffer hold.
Buffers ==
    /\ pc \in Loop => \A i \in 1..buf_filled : s_buf[cur][i] = Handed + i
    /\ pc = "signal" => job_data = cur /\ job_len = buf_filled
    /\ Outstanding =>
          /\ job_data = 1 - cur
          /\ job_len > 0 /\ job_len <= s_buf_capacity /\ job_len <= Handed
          /\ \A i \in 1..job_len : s_buf[job_data][i] = (Handed - job_len) + i
    /\ wpc \in {"chunk", "write", "retry", "give"} =>
          data = job_data /\ remaining = job_len /\ offset <= remaining
    /\ wpc \in {"write", "retry"} =>
          /\ ~error /\ offset < remaining
          /\ \A i \in 1..Chunk :
                dram_bounce[i] = (Handed - remaining) + offset + i
    /\ wpc = "retry" => written < Chunk

\* How far the stream is, in terms of what was handed over.
Progress ==
    /\ pc \in {"http", "buffers", "fopen", "start"} => file = <<>>
    /\ Outstanding /\ (sem_job_ready = 1 \/ wpc = "load") =>
          Len(file) = Handed - job_len
    /\ wpc = "chunk" /\ ~error => Len(file) = (Handed - remaining) + offset
    /\ wpc = "write" => Len(file) = (Handed - remaining) + offset
    /\ wpc = "retry" => Len(file) = (Handed - remaining) + offset + written
    /\ wpc = "give" => job_sd_error = error /\ (error \/ Len(file) = Handed)
    /\ sem_job_done = 1 => job_sd_error \/ Len(file) = Handed
    /\ pc \in Loop \cup {"close", "check"} /\ ~Outstanding =>
          sd_error \/ Len(file) = Handed
    /\ pc \in {"final", "close", "check"} =>
          buf_filled = 0 \/ net_error \/ sd_error

Accounting ==
    /\ clen \in {0, body}
    /\ pc \in Loop \cup {"close", "check"} => total <= body

IInv == /\ TypeOK /\ Control /\ Handshake /\ Buffers /\ Progress
        /\ Accounting /\ InOrder /\ OkMeansAllAccepted

-----------------------------------------------------------------------------
\* With FairSpec: every call of download_file_standalone returns: the net task
\* never waits on sem_job_done for a signal that does not come.
EveryCallReturns == pc = "http" ~> pc = "idle"

\* With FairSpec: the file loop ends, stop_sd_writer_task finds its writer and
\* the writer leaves its wait on sem_job_ready and exits.
Shutdown == <>(pc = "stopped" /\ wpc \in {"none", "gone"})

\* Each call keeps the contract of FileFetch: the observable state is the
\* stream's contents, the file in place and the outcome.
FF == INSTANCE FileFetch WITH
        active    <- pc \notin Ending \cup {"idle"},
        stored    <- file,
        outcome   <- result
Contract == FF!Spec

\* A call that returned OK left on the card everything the stream accepted:
\* "A data-CRC error at high SPI clock ... surfaces as SD_FAILED"
\* (simibox_download.cpp:1257).  Violated: the final flush is unchecked.
OkMeansOnCard == result = "OK" => published = file
=============================================================================

--------------------------- MODULE PingPongProofs ---------------------------
(***************************************************************************)
(* Proofs that the safety properties of PingPong hold for every body       *)
(* length, every buffer size and every number of calls.                    *)
(*                                                                         *)
(* None of the properties is inductive.  IInv adds what they rest on: the  *)
(* hand-off token is in exactly one place (Handshake), which half holds    *)
(* which bytes (Buffers), and how far the stream is in terms of the bytes  *)
(* handed over (Progress).  One lemma per action shows that the action     *)
(* preserves IInv.                                                         *)
(***************************************************************************)
EXTENDS PingPong, SequenceTheorems, TLAPS

USE MaxBodyAssumption, HalvesAssumption, BounceAssumption,
    MaxCallsAssumption
    DEF callVars, loopVars, bufVars, jobVars, semVars, writerVars, fileVars,
        TypeOK, NetType, BufType, JobType, WriterType, FileType, DlResult,
        Loop, Ending

-----------------------------------------------------------------------------
(* Lemmas about the operators *)

\* A buffer of unknown bytes has the type of a half.
LEMMA JunkType == \A n \in Nat : Junk(n) \in [1..n -> 0..MaxBody]
  BY DEF Junk

\* Every size ensure_pingpong_buffers tries is positive.
LEMMA HalfPositive == \A h \in Halves : h \in Nat /\ h > 0
  OBVIOUS

\* A writer inside a job holds the hand-off token: the net task has a write
\* outstanding and neither semaphore carries a signal.
LEMMA WriterOutstanding ==
  ASSUME IInv, wpc \in {"chunk", "write", "retry", "give"}
  PROVE  Outstanding /\ sem_job_ready = 0 /\ sem_job_done = 0
  BY DEF IInv, Control, Handshake, Outstanding

\* A chunk is not empty, fits the bounce buffer and stays inside the job.
LEMMA ChunkBounds ==
  ASSUME IInv, wpc \in {"chunk", "write", "retry"}, offset < remaining
  PROVE  Chunk \in 1..Bounce /\ offset + Chunk <= remaining
  BY DEF IInv, Buffers, Chunk

\* fwrite appends w bytes of the bounce buffer to the stream.
LEMMA AcceptAppends ==
  ASSUME file \in Seq(0..MaxBody), dram_bounce \in [1..Bounce -> 0..MaxBody],
         NEW from \in Nat, NEW w \in Nat, from + w <= Bounce, Accept(from, w)
  PROVE  /\ file' \in Seq(0..MaxBody)
         /\ Len(file') = Len(file) + w
         /\ \A i \in 1..Len(file) : file'[i] = file[i]
         /\ \A i \in 1..w : file'[Len(file) + i] = dram_bounce[from + i]
<1> DEFINE t == [i \in 1..w |-> dram_bounce[from + i]]
<1>1. t \in [1..w -> 0..MaxBody]
  OBVIOUS
<1>2. t \in Seq(0..MaxBody) /\ Len(t) = w
  BY <1>1
<1>3. \A i \in 1..w : t[i] = dram_bounce[from + i]
  OBVIOUS
<1>4. file' = file \o t
  BY DEF Accept
<1> HIDE DEF t
<1>5. file \o t \in Seq(0..MaxBody) /\ Len(file \o t) = Len(file) + Len(t)
  BY <1>2, ConcatProperties
<1>6. \A i \in 1..(Len(file) + Len(t)) :
         (file \o t)[i] = IF i <= Len(file) THEN file[i] ELSE t[i - Len(file)]
  BY <1>2, ConcatProperties
<1>7. \A i \in 1..Len(file) : (file \o t)[i] = file[i]
  BY <1>2, <1>6
<1>8. \A i \in 1..w : (file \o t)[Len(file) + i] = t[i]
  BY <1>2, <1>6
<1> QED
  BY <1>2, <1>3, <1>4, <1>5, <1>7, <1>8



\* If those bytes continue the stream, it stays in order.
LEMMA AcceptInOrder ==
  ASSUME IInv, NEW from \in Nat, NEW w \in Nat, from + w <= Bounce,
         Accept(from, w),
         \A i \in 1..w : dram_bounce[from + i] = Len(file) + i
  PROVE  file' \in Seq(0..MaxBody) /\ Len(file') = Len(file) + w /\ InOrder'
<1>1. file \in Seq(0..MaxBody) /\ dram_bounce \in [1..Bounce -> 0..MaxBody]
  BY DEF IInv
<1>2. /\ file' \in Seq(0..MaxBody)
      /\ Len(file') = Len(file) + w
      /\ \A i \in 1..Len(file) : file'[i] = file[i]
      /\ \A i \in 1..w : file'[Len(file) + i] = dram_bounce[from + i]
  BY <1>1, AcceptAppends
<1>3. Len(file) \in Nat
  BY <1>1
<1>4. ASSUME NEW i \in 1..Len(file') PROVE file'[i] = i
  <2>1. CASE i <= Len(file)
    <3>1. i \in 1..Len(file)
      BY <1>2, <1>3, <2>1
    <3> QED BY <1>2, <3>1 DEF IInv, InOrder
  <2>2. CASE i > Len(file)
    <3>1. i - Len(file) \in 1..w /\ Len(file) + (i - Len(file)) = i
      BY <1>2, <1>3, <2>2
    <3> QED BY <1>2, <3>1
  <2> QED BY <1>3, <2>1, <2>2
<1> QED BY <1>2, <1>4 DEF InOrder

-----------------------------------------------------------------------------
(* Every action preserves the invariant *)

\* CallDownload: a new call starts with an empty stream and no write outstanding.
LEMMA CallDownloadStep ==
  ASSUME IInv, CallDownload
  PROVE  IInv'
<1>1. TypeOK'
  BY DEF CallDownload, Junk, IInv
<1>2. Control' /\ Handshake' /\ Accounting' /\ InOrder' /\ OkMeansAllAccepted'
  BY DEF CallDownload, Control, Handshake, Accounting, InOrder,
         OkMeansAllAccepted, Junk, WriterBusy, Outstanding, IInv
<1>3. Buffers'
  BY DEF CallDownload, Buffers, Control, Handshake, Junk, Chunk, Outstanding,
         Handed, WriterBusy, IInv
<1>4. Progress'
  BY DEF CallDownload, Progress, Control, Handshake, Junk, Outstanding,
         Handed, WriterBusy, IInv
<1> QED BY <1>1, <1>2, <1>3, <1>4 DEF IInv

\* HttpSetupFails: a call that finds no connection has touched neither task nor file.
LEMMA HttpSetupFailsStep ==
  ASSUME IInv, HttpSetupFails
  PROVE  IInv'
<1>1. TypeOK'
  BY DEF HttpSetupFails, Return, IInv
<1>2. Control' /\ Handshake' /\ Buffers' /\ Progress' /\ Accounting'
      /\ InOrder' /\ OkMeansAllAccepted'
  BY DEF HttpSetupFails, Control, Handshake, Buffers, Progress, Accounting,
         InOrder, OkMeansAllAccepted, Return, WriterBusy, Outstanding, Chunk,
         Handed, IInv
<1> QED BY <1>1, <1>2 DEF IInv

\* HttpSetupOk: only the control point moves.
LEMMA HttpSetupOkStep ==
  ASSUME IInv, HttpSetupOk
  PROVE  IInv'
<1>1. TypeOK'
  BY DEF HttpSetupOk, IInv
<1>2. Control' /\ Handshake' /\ Buffers' /\ Progress' /\ Accounting'
      /\ InOrder' /\ OkMeansAllAccepted'
  BY DEF HttpSetupOk, Control, Handshake, Buffers, Progress, Accounting,
         InOrder, OkMeansAllAccepted, WriterBusy, Outstanding, Chunk, Handed,
         IInv
<1> QED BY <1>1, <1>2 DEF IInv

\* EnsureBuffers: new halves have the chosen capacity and hold no byte of the body.
LEMMA EnsureBuffersStep ==
  ASSUME IInv, EnsureBuffers
  PROVE  IInv'
<1>1. NetType' /\ JobType' /\ WriterType' /\ FileType'
  <2>1. NetType'
    BY DEF EnsureBuffers, Return, IInv
  <2>2. JobType'
    BY DEF EnsureBuffers, Return, IInv
  <2>3. WriterType'
    BY DEF EnsureBuffers, Return, IInv
  <2>4. FileType'
    BY DEF EnsureBuffers, Return, IInv
  <2> QED BY <2>1, <2>2, <2>3, <2>4
<1>2. Handshake'
  BY DEF EnsureBuffers, Handshake, Junk, Return, WriterBusy, Outstanding,
         IInv
<1>3. Progress'
  BY DEF EnsureBuffers, Progress, Junk, Return, Outstanding, Handed, IInv
<1>4. Accounting'
  BY DEF EnsureBuffers, Accounting, Junk, Return, IInv
<1>5. InOrder'
  BY DEF EnsureBuffers, InOrder, Junk, Return, IInv
<1>6. OkMeansAllAccepted'
  BY DEF EnsureBuffers, OkMeansAllAccepted, Junk, Return, IInv
<1>7. Buffers'
  BY DEF EnsureBuffers, Buffers, Control, Handshake, Junk, Return, Chunk,
         Outstanding, Handed, WriterBusy, IInv
<1>8. BufType'
  <2>0. pc' \notin {"read", "filled", "signal"}
    BY DEF EnsureBuffers, Return
  <2>1. CASE s_buf_capacity' \in Halves
        /\ s_buf' = [c \in {0, 1} |-> Junk(s_buf_capacity')]
    <3>1. s_buf_capacity' \in Nat
          /\ Junk(s_buf_capacity') \in [1..s_buf_capacity' -> 0..MaxBody]
      BY <2>1, HalfPositive, JunkType
    <3>2. s_buf' \in [{0, 1} -> [1..s_buf_capacity' -> 0..MaxBody]]
      BY <2>1, <3>1
    <3> QED BY <2>0, <3>1, <3>2
  <2>2. CASE UNCHANGED bufVars
    BY <2>0, <2>2 DEF IInv
  <2> QED BY <2>1, <2>2 DEF EnsureBuffers
<1>9. Control'
  BY HalfPositive DEF EnsureBuffers, Return, Control, IInv
<1> QED BY <1>1, <1>2, <1>3, <1>4, <1>5, <1>6, <1>7, <1>8, <1>9 DEF IInv

\* OpenFile: the .part stream belongs to this call and is empty.
LEMMA OpenFileStep ==
  ASSUME IInv, OpenFile
  PROVE  IInv'
<1>1. NetType'
  BY DEF OpenFile, Return, IInv
<1>2. BufType'
  BY DEF OpenFile, Return, IInv
<1>3. JobType'
  BY DEF OpenFile, Return, IInv
<1>4. WriterType'
  BY DEF OpenFile, Return, IInv
<1>5. FileType'
  BY DEF OpenFile, Control, Handshake, Buffers, Progress, Accounting, Return,
         WriterBusy, Outstanding, Chunk, Handed, IInv
<1>6. Control' /\ Handshake' /\ Buffers' /\ Progress' /\ Accounting' /\ InOrder'
  BY DEF OpenFile, Control, Handshake, Buffers, Progress, Accounting,
         InOrder, Return, WriterBusy, Outstanding, Chunk, Handed, IInv
<1>7. OkMeansAllAccepted'
  BY DEF OpenFile, OkMeansAllAccepted, Control, Return, IInv
<1> QED BY <1>1, <1>2, <1>3, <1>4, <1>5, <1>6, <1>7 DEF IInv

\* StartWriter: a writer, new or kept, waits with both semaphores empty.
LEMMA StartWriterStep ==
  ASSUME IInv, StartWriter
  PROVE  IInv'
<1>1. BufType'
  BY DEF StartWriter, Return, ResetLoop, IInv
<1>2. JobType'
  BY DEF StartWriter, Return, ResetLoop, IInv
<1>3. WriterType'
  BY DEF StartWriter, Return, ResetLoop, IInv
<1>4. FileType'
  BY DEF StartWriter, Return, ResetLoop, IInv
<1>5. Control' /\ Accounting' /\ InOrder'
  BY DEF StartWriter, Control, Accounting, InOrder, Return, ResetLoop, IInv
<1>6. Handshake'
  BY DEF StartWriter, Handshake, Control, Return, ResetLoop, WriterBusy,
         Outstanding, IInv
<1>7. OkMeansAllAccepted'
  BY DEF StartWriter, OkMeansAllAccepted, Control, Return, ResetLoop, IInv
<1>8. Buffers'
  BY DEF StartWriter, Buffers, Control, Handshake, Return, ResetLoop, Chunk,
         Outstanding, Handed, WriterBusy, IInv
<1>9. Progress'
  BY DEF StartWriter, Progress, Control, Handshake, Return, ResetLoop,
         Outstanding, Handed, WriterBusy, IInv
<1>10. NetType'
  <2>0. UNCHANGED callVars
    BY DEF StartWriter
  <2>1. CASE pc' = "read" /\ ResetLoop /\ UNCHANGED result
    <3>1. total' = 0 /\ buf_filled' \in 0..total' /\ total' \in 0..MaxBody
          /\ cur' \in {0, 1}
      BY <2>1 DEF ResetLoop
    <3>2. sd_write_pending' \in BOOLEAN /\ net_error' \in BOOLEAN
          /\ sd_error' \in BOOLEAN
      BY <2>1 DEF ResetLoop
    <3> QED BY <2>0, <2>1, <3>1, <3>2 DEF IInv
  <2>2. CASE pc' = "idle" /\ result' = "OTHER_FAILED" /\ UNCHANGED loopVars
    BY <2>0, <2>2 DEF DlResult, IInv
  <2> QED BY <2>1, <2>2 DEF StartWriter, Return
<1> QED BY <1>1, <1>2, <1>3, <1>4, <1>5, <1>6, <1>7, <1>8, <1>9, <1>10 DEF IInv

\* ReadBytes: the bytes read extend the half being filled, never past its capacity.
LEMMA ReadBytesStep ==
  ASSUME IInv, NEW n \in 1..MaxBody, ReadBytes(n)
  PROVE  IInv'
<1>1. NetType' /\ JobType' /\ WriterType' /\ FileType'
  BY DEF ReadBytes, Room, IInv
<1>2. Control' /\ Handshake' /\ Buffers' /\ Accounting' /\ InOrder'
  BY DEF ReadBytes, Control, Handshake, Buffers, Accounting, InOrder, Room,
         WriterBusy, Outstanding, Chunk, Handed, IInv
<1>3. OkMeansAllAccepted'
  BY DEF ReadBytes, OkMeansAllAccepted, Control, Room, IInv
<1>4. BufType'
  <2>1. \A i \in 1..s_buf_capacity :
          i > buf_filled /\ i <= buf_filled + n =>
             total + (i - buf_filled) \in 0..MaxBody
    BY DEF ReadBytes, IInv
  <2>2. [i \in 1..s_buf_capacity |->
           IF i > buf_filled /\ i <= buf_filled + n
           THEN total + (i - buf_filled) ELSE s_buf[cur][i]]
             \in [1..s_buf_capacity -> 0..MaxBody]
    BY <2>1 DEF IInv
  <2>3. s_buf' \in [{0, 1} -> [1..s_buf_capacity -> 0..MaxBody]]
    BY <2>2 DEF ReadBytes, IInv
  <2> QED BY <2>3 DEF ReadBytes, Room, IInv
<1>5. Progress'
  <2>1. Handed' = Handed /\ Outstanding' = Outstanding
    BY DEF ReadBytes, Handed, Outstanding, IInv
  <2> QED BY <2>1 DEF ReadBytes, Progress, Control, IInv
<1> QED BY <1>1, <1>2, <1>3, <1>4, <1>5 DEF IInv

\* ReadEof: only the control point moves.
LEMMA ReadEofStep ==
  ASSUME IInv, ReadEof
  PROVE  IInv'
<1>1. TypeOK'
  BY DEF ReadEof, IInv
<1>2. Control' /\ Handshake' /\ Buffers' /\ Progress' /\ Accounting'
      /\ InOrder' /\ OkMeansAllAccepted'
  BY DEF ReadEof, Control, Handshake, Buffers, Progress, Accounting, InOrder,
         OkMeansAllAccepted, WriterBusy, Outstanding, Chunk, Handed, IInv
<1> QED BY <1>1, <1>2 DEF IInv

\* ReadError: the error ends the loop; what was handed over stays accounted for.
LEMMA ReadErrorStep ==
  ASSUME IInv, ReadError
  PROVE  IInv'
<1>1. TypeOK'
  BY DEF ReadError, IInv
<1>2. Control' /\ Handshake' /\ Buffers' /\ Progress' /\ Accounting'
      /\ InOrder' /\ OkMeansAllAccepted'
  BY DEF ReadError, Control, Handshake, Buffers, Progress, Accounting,
         InOrder, OkMeansAllAccepted, WriterBusy, Outstanding, Chunk, Handed,
         IInv
<1> QED BY <1>1, <1>2 DEF IInv

\* LeaveLoop: nothing is left in the half, or the call has failed.
LEMMA LeaveLoopStep ==
  ASSUME IInv, LeaveLoop
  PROVE  IInv'
<1>1. TypeOK'
  BY DEF LeaveLoop, Nothing, IInv
<1>2. Control' /\ Handshake' /\ Buffers' /\ Progress' /\ Accounting'
      /\ InOrder' /\ OkMeansAllAccepted'
  BY DEF LeaveLoop, Control, Handshake, Buffers, Progress, Accounting,
         InOrder, OkMeansAllAccepted, Nothing, WriterBusy, Outstanding,
         Chunk, Handed, IInv
<1> QED BY <1>1, <1>2 DEF IInv

\* AwaitPrevious: the completion token returns to the net task with its verdict.
LEMMA AwaitPreviousStep ==
  ASSUME IInv, AwaitPrevious
  PROVE  IInv'
<1>1. NetType'
  BY DEF AwaitPrevious, Nothing, IInv
<1>2. BufType'
  BY DEF AwaitPrevious, Nothing, IInv
<1>3. JobType'
  BY DEF AwaitPrevious, Nothing, IInv
<1>4. WriterType'
  BY DEF AwaitPrevious, Nothing, IInv
<1>5. FileType'
  BY DEF AwaitPrevious, Nothing, IInv
<1>6. Control' /\ Handshake' /\ Buffers' /\ Progress' /\ Accounting'
      /\ InOrder' /\ OkMeansAllAccepted'
  BY DEF AwaitPrevious, Control, Handshake, Buffers, Progress, Accounting,
         InOrder, OkMeansAllAccepted, Nothing, WriterBusy, Outstanding,
         Chunk, Handed, IInv
<1> QED BY <1>1, <1>2, <1>3, <1>4, <1>5, <1>6 DEF IInv

\* Kick: the job describes the half just filled.
LEMMA KickStep ==
  ASSUME IInv, Kick
  PROVE  IInv'
<1>1. NetType' /\ BufType' /\ WriterType' /\ FileType'
  BY DEF Kick, MayHandOver, Nothing, IInv
<1>2. Control' /\ Handshake' /\ Accounting' /\ InOrder' /\ OkMeansAllAccepted'
  BY DEF Kick, Control, Handshake, Accounting, InOrder, OkMeansAllAccepted,
         MayHandOver, WriterBusy, Outstanding, Nothing, IInv
<1>3. Buffers'
  BY DEF Kick, Buffers, Control, Handshake, MayHandOver, Chunk, Outstanding,
         Handed, WriterBusy, Nothing, IInv
<1>4. Progress'
  BY DEF Kick, Progress, Control, Handshake, MayHandOver, Outstanding,
         Handed, WriterBusy, Nothing, IInv
<1>5. JobType'
  <2>1. buf_filled \in 0..MaxBody
    BY DEF IInv
  <2>2. /\ job_len' = buf_filled /\ job_data' = cur /\ job_sd_error' = FALSE
        /\ UNCHANGED <<job_file, job_stop, semVars>>
    BY DEF Kick
  <2> QED BY <2>1, <2>2 DEF IInv
<1> QED BY <1>1, <1>2, <1>3, <1>4, <1>5 DEF IInv

\* Signal: the token goes to sem_job_ready and the halves are swapped.
LEMMA SignalStep ==
  ASSUME IInv, Signal
  PROVE  IInv'
<1>1. TypeOK'
  BY DEF Signal, Other, IInv
<1>2. Control' /\ Accounting' /\ InOrder' /\ OkMeansAllAccepted'
  BY DEF Signal, Control, Accounting, InOrder, OkMeansAllAccepted, Other,
         IInv
<1>3. Handshake'
  BY DEF Signal, Handshake, Control, Other, WriterBusy, Outstanding, IInv
<1>4. Buffers'
  BY DEF Signal, Buffers, Control, Handshake, Other, Chunk, Outstanding,
         Handed, WriterBusy, IInv
<1>5. Progress'
  BY DEF Signal, Progress, Control, Handshake, Buffers, Other, Outstanding,
         Handed, WriterBusy, Chunk, IInv
<1> QED BY <1>1, <1>2, <1>3, <1>4, <1>5 DEF IInv

\* FinalWait: the last verdict is taken before the stream is closed.
LEMMA FinalWaitStep ==
  ASSUME IInv, FinalWait
  PROVE  IInv'
<1>1. NetType'
  BY DEF FinalWait, IInv
<1>2. BufType'
  BY DEF FinalWait, IInv
<1>3. JobType'
  BY DEF FinalWait, IInv
<1>4. WriterType'
  BY DEF FinalWait, IInv
<1>5. FileType'
  BY DEF FinalWait, IInv
<1>6. Control' /\ Handshake' /\ Buffers' /\ Progress' /\ Accounting'
      /\ InOrder' /\ OkMeansAllAccepted'
  BY DEF FinalWait, Control, Handshake, Buffers, Progress, Accounting,
         InOrder, OkMeansAllAccepted, WriterBusy, Outstanding, Chunk, Handed,
         IInv
<1> QED BY <1>1, <1>2, <1>3, <1>4, <1>5, <1>6 DEF IInv

\* FinalNoWait: no write is outstanding when the stream is closed.
LEMMA FinalNoWaitStep ==
  ASSUME IInv, FinalNoWait
  PROVE  IInv'
<1>1. TypeOK'
  BY DEF FinalNoWait, IInv
<1>2. Control' /\ Handshake' /\ Buffers' /\ Progress' /\ Accounting'
      /\ InOrder' /\ OkMeansAllAccepted'
  BY DEF FinalNoWait, Control, Handshake, Buffers, Progress, Accounting,
         InOrder, OkMeansAllAccepted, WriterBusy, Outstanding, Chunk, Handed,
         IInv
<1> QED BY <1>1, <1>2 DEF IInv

\* CloseFailed: the stream is closed with the writer waiting.
LEMMA CloseFailedStep ==
  ASSUME IInv, CloseFailed
  PROVE  IInv'
<1>1. TypeOK'
  BY DEF CloseFailed, Return, IInv
<1>2. Control' /\ Handshake' /\ Buffers' /\ Progress' /\ Accounting'
      /\ InOrder' /\ OkMeansAllAccepted'
  BY DEF CloseFailed, Control, Handshake, Buffers, Progress, Accounting,
         InOrder, OkMeansAllAccepted, Return, WriterBusy, Outstanding, Chunk,
         Handed, IInv
<1> QED BY <1>1, <1>2 DEF IInv

\* FlushAndClose: the stream is closed with everything read accepted.
LEMMA FlushAndCloseStep ==
  ASSUME IInv, FlushAndClose
  PROVE  IInv'
<1>1. TypeOK'
  BY DEF FlushAndClose, IInv
<1>2. Control' /\ Handshake' /\ Buffers' /\ Progress' /\ Accounting'
      /\ InOrder' /\ OkMeansAllAccepted'
  BY DEF FlushAndClose, Control, Handshake, Buffers, Progress, Accounting,
         InOrder, OkMeansAllAccepted, WriterBusy, Outstanding, Chunk, Handed,
         IInv
<1> QED BY <1>1, <1>2 DEF IInv

\* RejectLength: a call with the wrong length does not return OK.
LEMMA RejectLengthStep ==
  ASSUME IInv, RejectLength
  PROVE  IInv'
<1>1. TypeOK'
  BY DEF RejectLength, Return, WrongLength, IInv
<1>2. Control' /\ Handshake' /\ Buffers' /\ Progress' /\ Accounting'
      /\ InOrder' /\ OkMeansAllAccepted'
  BY DEF RejectLength, Control, Handshake, Buffers, Progress, Accounting,
         InOrder, OkMeansAllAccepted, Return, WrongLength, WriterBusy,
         Outstanding, Chunk, Handed, IInv
<1> QED BY <1>1, <1>2 DEF IInv

\* Rename: the file put in place is a prefix of an ordered stream.
LEMMA RenameStep ==
  ASSUME IInv, NEW kept \in 0..Len(file), Rename(kept)
  PROVE  IInv'
<1>1. NetType'
  BY DEF Rename, Return, WrongLength, IInv
<1>2. BufType'
  BY DEF Rename, Return, WrongLength, IInv
<1>3. JobType'
  BY DEF Rename, Return, WrongLength, IInv
<1>4. WriterType'
  BY DEF Rename, Return, WrongLength, IInv
<1>5. FileType'
  BY DEF Rename, Return, WrongLength, IInv
<1>6. Control' /\ Handshake' /\ Buffers' /\ Progress' /\ Accounting' /\ InOrder'
  BY DEF Rename, Control, Handshake, Buffers, Progress, Accounting, InOrder,
         Return, WrongLength, WriterBusy, Outstanding, Chunk, Handed, IInv
<1>7. OkMeansAllAccepted'
  BY DEF Rename, OkMeansAllAccepted, Control, Handshake, Buffers, Progress,
         Accounting, Return, WrongLength, WriterBusy, Outstanding, Chunk,
         Handed, IInv
<1> QED BY <1>1, <1>2, <1>3, <1>4, <1>5, <1>6, <1>7 DEF IInv

\* RenameFails: a call that cannot rename does not return OK.
LEMMA RenameFailsStep ==
  ASSUME IInv, RenameFails
  PROVE  IInv'
<1>1. TypeOK'
  BY DEF RenameFails, Return, WrongLength, IInv
<1>2. Control' /\ Handshake' /\ Buffers' /\ Progress' /\ Accounting'
      /\ InOrder' /\ OkMeansAllAccepted'
  BY DEF RenameFails, Control, Handshake, Buffers, Progress, Accounting,
         InOrder, OkMeansAllAccepted, Return, WrongLength, WriterBusy,
         Outstanding, Chunk, Handed, IInv
<1> QED BY <1>1, <1>2 DEF IInv

\* StopWriter: the stop flag and its signal find the writer waiting.
LEMMA StopWriterStep ==
  ASSUME IInv, StopWriter
  PROVE  IInv'
<1>1. NetType'
  BY DEF StopWriter, IInv
<1>2. BufType'
  BY DEF StopWriter, IInv
<1>3. JobType'
  BY DEF StopWriter, IInv
<1>4. WriterType'
  BY DEF StopWriter, IInv
<1>5. FileType'
  BY DEF StopWriter, IInv
<1>6. Control' /\ Buffers' /\ Accounting' /\ InOrder' /\ OkMeansAllAccepted'
  BY DEF StopWriter, Control, Buffers, Accounting, InOrder,
         OkMeansAllAccepted, Chunk, Outstanding, Handed, IInv
<1>7. Handshake'
  BY DEF StopWriter, Handshake, Control, WriterBusy, Outstanding, IInv
<1>8. Progress'
  BY DEF StopWriter, Progress, Control, Outstanding, Handed, IInv
<1> QED BY <1>1, <1>2, <1>3, <1>4, <1>5, <1>6, <1>7, <1>8 DEF IInv

\* StopDelay: after the delay the writer has left (the timing assumption).
LEMMA StopDelayStep ==
  ASSUME IInv, StopDelay
  PROVE  IInv'
<1>1. NetType'
  BY DEF StopDelay, IInv
<1>2. BufType'
  BY DEF StopDelay, IInv
<1>3. JobType'
  BY DEF StopDelay, IInv
<1>4. WriterType'
  BY DEF StopDelay, IInv
<1>5. FileType'
  BY DEF StopDelay, IInv
<1>6. Handshake' /\ Buffers' /\ Progress' /\ Accounting' /\ InOrder'
      /\ OkMeansAllAccepted'
  BY DEF StopDelay, Handshake, Buffers, Progress, Accounting, InOrder,
         OkMeansAllAccepted, WriterBusy, Outstanding, Chunk, Handed, IInv
<1>7. Control'
  BY DEF StopDelay, Control, Handshake, WriterBusy, Outstanding, IInv
<1> QED BY <1>1, <1>2, <1>3, <1>4, <1>5, <1>6, <1>7 DEF IInv

\* DeleteAndFree: semaphores and halves go when no writer is left.
LEMMA DeleteAndFreeStep ==
  ASSUME IInv, DeleteAndFree
  PROVE  IInv'
<1>1. NetType'
  BY DEF DeleteAndFree, Junk, IInv
<1>2. BufType'
  BY DEF DeleteAndFree, Junk, IInv
<1>3. JobType'
  BY DEF DeleteAndFree, Junk, IInv
<1>4. WriterType'
  BY DEF DeleteAndFree, Junk, IInv
<1>5. FileType'
  BY DEF DeleteAndFree, Junk, IInv
<1>6. Control' /\ Progress' /\ Accounting' /\ InOrder' /\ OkMeansAllAccepted'
  BY DEF DeleteAndFree, Control, Progress, Accounting, InOrder,
         OkMeansAllAccepted, Junk, Outstanding, Handed, IInv
<1>7. Handshake'
  BY DEF DeleteAndFree, Handshake, Control, Junk, WriterBusy, Outstanding,
         IInv
<1>8. Buffers'
  BY DEF DeleteAndFree, Buffers, Control, Junk, Chunk, Outstanding, Handed,
         IInv
<1> QED BY <1>1, <1>2, <1>3, <1>4, <1>5, <1>6, <1>7, <1>8 DEF IInv

\* TakeJob: the token moves from sem_job_ready to the writer.
LEMMA TakeJobStep ==
  ASSUME IInv, TakeJob
  PROVE  IInv'
<1>1. TypeOK'
  BY DEF TakeJob, IInv
<1>2. Control' /\ Handshake' /\ Buffers' /\ Progress' /\ Accounting'
      /\ InOrder' /\ OkMeansAllAccepted'
  BY DEF TakeJob, Control, Handshake, Buffers, Progress, Accounting, InOrder,
         OkMeansAllAccepted, WriterBusy, Outstanding, Chunk, Handed, IInv
<1> QED BY <1>1, <1>2 DEF IInv

\* LoadJob: the locals of the writer describe the job.
LEMMA LoadJobStep ==
  ASSUME IInv, LoadJob
  PROVE  IInv'
<1>1. NetType' /\ BufType' /\ JobType' /\ FileType'
  BY DEF LoadJob, IInv
<1>2. Control' /\ Buffers' /\ Accounting' /\ InOrder' /\ OkMeansAllAccepted'
  BY DEF LoadJob, Control, Buffers, Accounting, InOrder, OkMeansAllAccepted,
         Chunk, Outstanding, Handed, IInv
<1>3. Handshake'
  BY DEF LoadJob, Handshake, Control, WriterBusy, Outstanding, IInv
<1>4. Progress'
  BY DEF LoadJob, Progress, Control, Handshake, Outstanding, Handed,
         WriterBusy, IInv
<1>5. WriterType'
  <2>1. CASE job_stop
    BY <2>1 DEF LoadJob, IInv
  <2>2. CASE ~job_stop
    <3>1. /\ wpc' = "chunk" /\ data' = job_data /\ remaining' = job_len
          /\ error' = FALSE /\ UNCHANGED dram_bounce
      BY <2>2 DEF LoadJob
    <3>2. offset' \in 0..MaxBody /\ written' \in 0..Bounce
      BY <2>2 DEF LoadJob
    <3>3. data' \in {0, 1} /\ remaining' \in 0..MaxBody
      BY <3>1 DEF IInv
    <3> QED BY <3>1, <3>2, <3>3 DEF IInv
  <2> QED BY <2>1, <2>2
<1> QED BY <1>1, <1>2, <1>3, <1>4, <1>5 DEF IInv

\* CopyChunk: the bounce buffer holds the next bytes of the body.
LEMMA CopyChunkStep ==
  ASSUME IInv, CopyChunk
  PROVE  IInv'
<1>1. NetType' /\ BufType' /\ JobType' /\ FileType'
  BY DEF CopyChunk, Chunk, IInv
<1>2. Control' /\ Handshake' /\ Progress' /\ Accounting' /\ InOrder'
      /\ OkMeansAllAccepted'
  BY DEF CopyChunk, Control, Handshake, Progress, Accounting, InOrder,
         OkMeansAllAccepted, Chunk, WriterBusy, Outstanding, Handed, IInv
<1>3. Buffers'
  BY DEF CopyChunk, Buffers, Control, Handshake, Chunk, Outstanding, Handed,
         WriterBusy, IInv
<1>4. WriterType'
  <2>1. wpc = "chunk" /\ offset < remaining
    BY DEF CopyChunk
  <2>2. Outstanding /\ Chunk \in 1..Bounce /\ offset + Chunk <= remaining
    BY <2>1, WriterOutstanding, ChunkBounds
  <2>3. remaining <= s_buf_capacity
    BY <2>1, <2>2 DEF IInv, Buffers
  <2>4. /\ s_buf[data] \in [1..s_buf_capacity -> 0..MaxBody]
        /\ dram_bounce \in [1..Bounce -> 0..MaxBody]
    BY DEF IInv
  <2>8. offset \in Nat /\ remaining \in Nat /\ s_buf_capacity \in Nat
    BY DEF IInv
  <2>5. \A i \in 1..Chunk : offset + i \in 1..s_buf_capacity
    BY <2>2, <2>3, <2>8
  <2>9. \A i \in 1..Chunk : s_buf[data][offset + i] \in 0..MaxBody
    BY <2>4, <2>5
  <2>6. \A i \in 1..Bounce :
          (IF i <= Chunk THEN s_buf[data][offset + i] ELSE dram_bounce[i])
             \in 0..MaxBody
    BY <2>2, <2>4, <2>9
  <2>7. dram_bounce' \in [1..Bounce -> 0..MaxBody]
    BY <2>6 DEF CopyChunk
  <2> QED BY <2>7 DEF CopyChunk, IInv
<1> QED BY <1>1, <1>2, <1>3, <1>4 DEF IInv

\* WriteChunk: the bytes accepted continue the stream, all of the chunk or not.
LEMMA WriteChunkStep ==
  ASSUME IInv, NEW w \in 0..Bounce, WriteChunk(w)
  PROVE  IInv'
<1>1. NetType' /\ BufType' /\ JobType' /\ WriterType'
  BY DEF WriteChunk, Chunk, Accept, IInv
<1>2. Control'
  BY DEF WriteChunk, Control, Chunk, Accept, IInv
<1>3. Handshake'
  BY DEF WriteChunk, Handshake, Chunk, Accept, WriterBusy, Outstanding, IInv
<1>4. Buffers'
  BY DEF WriteChunk, Buffers, Chunk, Accept, Outstanding, Handed, IInv
<1>5. Accounting'
  BY DEF WriteChunk, Accounting, Chunk, Accept, IInv
<1>6. OkMeansAllAccepted'
  BY DEF WriteChunk, OkMeansAllAccepted, Control, Handshake, Chunk, Accept,
         WriterBusy, Outstanding, IInv
<1>7. FileType' /\ Progress' /\ InOrder'
  <2>1. wpc = "write" /\ offset < remaining /\ w <= Chunk
    BY DEF WriteChunk, IInv, Buffers
  <2>2. Outstanding /\ sem_job_ready = 0 /\ sem_job_done = 0
        /\ Chunk \in 1..Bounce /\ offset + Chunk <= remaining
    BY <2>1, WriterOutstanding, ChunkBounds
  <2>3. Len(file) = (Handed - remaining) + offset
    BY <2>1 DEF IInv, Progress
  <2>4. \A i \in 1..Chunk : dram_bounce[i] = (Handed - remaining) + offset + i
    BY <2>1 DEF IInv, Buffers
  <2>5. \A i \in 1..w : dram_bounce[0 + i] = Len(file) + i
    BY <2>1, <2>2, <2>3, <2>4
  <2>6. w \in Nat /\ 0 \in Nat /\ 0 + w <= Bounce /\ Accept(0, w)
    BY DEF WriteChunk
  <2>7. file' \in Seq(0..MaxBody) /\ Len(file') = Len(file) + w /\ InOrder'
    BY <2>5, <2>6, AcceptInOrder
  <2>8. Progress'
    <3>1. Outstanding' /\ Handed' = Handed
          /\ UNCHANGED <<pc, remaining, sem_job_ready, sem_job_done,
                buf_filled, net_error, sd_error>>
      BY <2>2 DEF WriteChunk, Handed, Outstanding
    <3>2. pc \in Loop
      BY <2>2 DEF Outstanding, IInv, Control
    <3>3. pc = "final" => buf_filled = 0 \/ net_error \/ sd_error
      BY DEF IInv, Progress
    <3>4. \/ wpc' = "chunk" /\ w = Chunk /\ offset' = offset + w
          \/ wpc' = "retry" /\ offset' = offset /\ written' = w
      BY DEF WriteChunk
    <3>5. offset \in Int /\ remaining \in Int /\ Handed \in Int
      BY DEF IInv, Handed
    <3>6. /\ wpc' = "chunk" => Len(file') = (Handed' - remaining') + offset'
          /\ wpc' = "retry" => Len(file') =
                  (Handed' - remaining') + offset' + written'
      BY <2>3, <2>7, <3>1, <3>4, <3>5
    <3> QED BY <2>2, <3>1, <3>2, <3>3, <3>4, <3>6 DEF Progress
  <2> QED BY <2>7, <2>8 DEF WriteChunk, IInv
<1> QED BY <1>1, <1>2, <1>3, <1>4, <1>5, <1>6, <1>7 DEF IInv

\* RetryChunk: the second fwrite continues where the first one stopped.
LEMMA RetryChunkStep ==
  ASSUME IInv, NEW w \in 0..Bounce, RetryChunk(w)
  PROVE  IInv'
<1>1. NetType' /\ BufType' /\ JobType'
  BY DEF RetryChunk, Chunk, Accept, IInv
<1>2. Control' /\ Handshake' /\ Buffers' /\ Accounting'
  BY DEF RetryChunk, Control, Handshake, Buffers, Accounting, Chunk, Accept,
         WriterBusy, Outstanding, Handed, IInv
<1>3. OkMeansAllAccepted'
  BY DEF RetryChunk, OkMeansAllAccepted, Control, Handshake, Chunk, Accept,
         WriterBusy, Outstanding, IInv
<1>4. FileType' /\ Progress' /\ InOrder'
  <2>1. wpc = "retry" /\ offset < remaining /\ written \in Nat
        /\ written + w <= Chunk
    BY DEF RetryChunk, IInv, Buffers
  <2>2. Outstanding /\ sem_job_ready = 0 /\ sem_job_done = 0
        /\ Chunk \in 1..Bounce /\ offset + Chunk <= remaining
    BY <2>1, WriterOutstanding, ChunkBounds
  <2>3. Len(file) = (Handed - remaining) + offset + written
    BY <2>1 DEF IInv, Progress
  <2>4. \A i \in 1..Chunk : dram_bounce[i] = (Handed - remaining) + offset + i
    BY <2>1 DEF IInv, Buffers
  <2>a. offset \in Int /\ remaining \in Int /\ Handed \in Int
      BY DEF IInv, Handed
  <2>5. \A i \in 1..w : dram_bounce[written + i] = Len(file) + i
    BY <2>1, <2>2, <2>3, <2>4, <2>a
  <2>6. w \in Nat /\ written + w <= Bounce /\ Accept(written, w)
    BY <2>1, <2>2 DEF RetryChunk
  <2>7. file' \in Seq(0..MaxBody) /\ Len(file') = Len(file) + w /\ InOrder'
    BY <2>1, <2>5, <2>6, AcceptInOrder
  <2>8. Progress'
    <3>1. Outstanding' /\ Handed' = Handed
          /\ UNCHANGED <<pc, remaining, sem_job_ready, sem_job_done,
                buf_filled, net_error, sd_error>>
      BY <2>2 DEF RetryChunk, Handed, Outstanding
    <3>2. pc \in Loop
      BY <2>2 DEF Outstanding, IInv, Control
    <3>3. pc = "final" => buf_filled = 0 \/ net_error \/ sd_error
      BY DEF IInv, Progress
    <3>4. wpc' = "chunk" /\ (~error' => offset' = offset + Chunk
          /\ written + w = Chunk)
      <4>1. CASE written + w = Chunk
        BY <4>1 DEF RetryChunk
      <4>2. CASE written + w # Chunk
        BY <4>2 DEF RetryChunk
      <4> QED BY <4>1, <4>2
    <3>6. ~error' => Len(file') = (Handed' - remaining') + offset'
      BY <2>1, <2>2, <2>3, <2>7, <3>1, <3>4, <2>a
    <3> QED BY <2>2, <3>1, <3>2, <3>3, <3>4, <3>6 DEF Progress
  <2> QED BY <2>7, <2>8 DEF RetryChunk, IInv
<1>5. WriterType'
  <2>1. Chunk \in 1..Bounce /\ offset + Chunk <= remaining
    BY ChunkBounds DEF RetryChunk, IInv, Buffers
  <2>2. CASE written + w = Chunk
    BY <2>1, <2>2 DEF RetryChunk, IInv
  <2>3. CASE written + w # Chunk
    BY <2>3 DEF RetryChunk, IInv
  <2> QED BY <2>2, <2>3
<1> QED BY <1>1, <1>2, <1>3, <1>4, <1>5 DEF IInv

\* Report: a job without error has put all that was handed over in the stream.
LEMMA ReportStep ==
  ASSUME IInv, Report
  PROVE  IInv'
<1>1. TypeOK'
  BY DEF Report, IInv
<1>2. Control' /\ Handshake' /\ Buffers' /\ Accounting' /\ InOrder'
      /\ OkMeansAllAccepted'
  BY DEF Report, Control, Handshake, Buffers, Accounting, InOrder,
         OkMeansAllAccepted, WriterBusy, Outstanding, Chunk, Handed, IInv
<1>3. Progress'
  <2>1. Outstanding /\ sem_job_ready = 0 /\ sem_job_done = 0
    BY WriterOutstanding DEF Report
  <2>2. Handed' = Handed /\ Outstanding' = Outstanding
    BY DEF Report, Handed, Outstanding
  <2>3. error \/ Len(file) = Handed
    <3>1. CASE error BY <3>1
    <3>2. CASE ~error 
       <4>1. offset = remaining BY <3>2 DEF Report, IInv, Buffers
       <4>2. Len(file) = (Handed - remaining) + offset
         BY <3>2 DEF Report, IInv, Progress
       <4> QED BY <4>1, <4>2 DEF Handed, IInv
    <3> QED BY <3>1, <3>2
  <2>4. (job_sd_error = error)'
    BY DEF Report
  <2>5. CASE error
    BY <2>1, <2>2, <2>4, <2>5 DEF Report, Progress, Control, Outstanding, IInv
  <2>6. CASE ~error
   
      BY <2>1, <2>2, <2>3, <2>4, <2>6 DEF Report, Progress, Control, Outstanding, IInv
  <2> QED BY <2>5, <2>6
<1> QED BY <1>1, <1>2, <1>3 DEF IInv

\* GiveDone: the token moves from the writer to sem_job_done.
LEMMA GiveDoneStep ==
  ASSUME IInv, GiveDone
  PROVE  IInv'
<1>1. TypeOK'
  BY DEF GiveDone, IInv
<1>2. Control' /\ Handshake' /\ Buffers' /\ Progress' /\ Accounting'
      /\ InOrder' /\ OkMeansAllAccepted'
  BY DEF GiveDone, Control, Handshake, Buffers, Progress, Accounting,
         InOrder, OkMeansAllAccepted, WriterBusy, Outstanding, Chunk, Handed,
         IInv
<1> QED BY <1>1, <1>2 DEF IInv

-----------------------------------------------------------------------------
(* The theorems *)

\* The invariant holds initially.
LEMMA InitIInv == Init => IInv
<1> SUFFICES ASSUME Init PROVE IInv
  OBVIOUS
<1>1. TypeOK
  <2>1. s_buf \in [{0, 1} -> [1..s_buf_capacity -> 0..MaxBody]]
    BY JunkType DEF Init
  <2>2. dram_bounce \in [1..Bounce -> 0..MaxBody]
    BY JunkType DEF Init
  <2>3. NetType /\ JobType
    BY DEF Init
  <2>4. BufType
    BY <2>1 DEF Init
  <2>5. WriterType
    BY <2>2 DEF Init
  <2>6. FileType
    BY DEF Init
  <2> QED BY <2>3, <2>4, <2>5, <2>6
<1>2. Control /\ Handshake
  BY DEF Init, Control, Handshake, Outstanding, WriterBusy
<1>3. Buffers /\ Progress /\ Accounting /\ InOrder /\ OkMeansAllAccepted
  BY DEF Init, Buffers, Progress, Accounting, InOrder, OkMeansAllAccepted,
         Outstanding, Handed
<1> QED BY <1>1, <1>2, <1>3 DEF IInv

\* Every step preserves it.
LEMMA NextIInv == IInv /\ [Next]_vars => IInv'
<1> SUFFICES ASSUME IInv, [Next]_vars PROVE IInv'
  OBVIOUS
<1>1. CASE NetTask
  BY <1>1, CallDownloadStep, HttpSetupFailsStep, HttpSetupOkStep,
     EnsureBuffersStep, OpenFileStep, StartWriterStep, ReadBytesStep,
     ReadEofStep, ReadErrorStep, LeaveLoopStep, AwaitPreviousStep, KickStep,
     SignalStep, FinalWaitStep, FinalNoWaitStep, CloseFailedStep,
     FlushAndCloseStep, RejectLengthStep, RenameStep, RenameFailsStep,
     StopWriterStep, StopDelayStep, DeleteAndFreeStep
     DEF NetTask
<1>2. CASE WriterTask
  BY <1>2, TakeJobStep, LoadJobStep, CopyChunkStep, WriteChunkStep,
     RetryChunkStep, ReportStep, GiveDoneStep
     DEF WriterTask
<1>3. CASE UNCHANGED vars
  BY <1>3 DEF vars, IInv, Control, Handshake, Buffers, Progress, Accounting,
              InOrder, OkMeansAllAccepted, Outstanding, WriterBusy, Handed,
              Chunk
<1> QED BY <1>1, <1>2, <1>3 DEF Next, Terminated

\* IInv is an invariant of the specification.
LEMMA Invariance == Spec => []IInv
<1>1. Init => IInv
  BY InitIInv
<1>2. IInv /\ [Next]_vars => IInv'
  BY NextIInv
<1> QED BY <1>1, <1>2, PTL DEF Spec

\* Every variable keeps its type, whatever the sizes: in particular a read
\* never runs past the end of a half and a chunk never past the bounce buffer.
THEOREM TypeCorrect == Spec => []TypeOK
<1>1. IInv => TypeOK
  BY DEF IInv
<1> QED BY <1>1, Invariance, PTL

\* The net task and the writer never work on the same half: s_buf[cur] is not
\* read into while sd_writer_task drains it.
THEOREM HalvesDisjoint == Spec => []BufferExclusion
<1>1. IInv => BufferExclusion
  <2> SUFFICES ASSUME IInv, wpc \in {"chunk", "write", "retry"}, pc = "read"
               PROVE  data # cur
    BY DEF BufferExclusion
  <2>1. Outstanding
    BY WriterOutstanding
  <2> QED BY <2>1 DEF IInv, Buffers
<1> QED BY <1>1, Invariance, PTL

\* The stream of the .part file is always the body in order from its first
\* byte, across swaps, chunks, short writes and retries.
THEOREM StreamInOrder == Spec => []InOrder
<1>1. IInv => InOrder
  BY DEF IInv
<1> QED BY <1>1, Invariance, PTL

\* download_file_standalone returns OK only when the stream accepted all that
\* was read, and all that was announced was read.
THEOREM OkIsComplete == Spec => []OkMeansAllAccepted
<1>1. IInv => OkMeansAllAccepted
  BY DEF IInv
<1> QED BY <1>1, Invariance, PTL

\* No xSemaphoreGive meets a full semaphore, and none is left over for the
\* next call.
THEOREM NoSignalLost == Spec => []NoLostGive
<1>1. IInv => NoLostGive
  BY DEF IInv, NoLostGive, Handshake, Control, Outstanding, WriterBusy
<1> QED BY <1>1, Invariance, PTL

\* sd_writer_task writes only to the open stream of the call in progress.
THEOREM StreamOpen == Spec => []WriterFileOpen
<1>1. IInv => WriterFileOpen
  <2> SUFFICES ASSUME IInv, wpc \in {"write", "retry"}
               PROVE  f # 0 /\ job_file = f /\ f = calls
    BY DEF WriterFileOpen
  <2>1. pc \in Loop
    BY WriterOutstanding DEF IInv, Control, Outstanding
  <2> QED BY <2>1 DEF IInv, Control
<1> QED BY <1>1, Invariance, PTL

\* stop_sd_writer_task and free_pingpong_buffers never pull the semaphores or
\* the halves from under a living writer.
THEOREM FreedAfterExit == Spec => []NoUseAfterFree
<1>1. IInv => NoUseAfterFree
  BY DEF IInv, NoUseAfterFree, Control, WriterBusy
<1> QED BY <1>1, Invariance, PTL

-----------------------------------------------------------------------------
(* The protocol implements FileFetch *)

\* An in-order stream is a prefix of the body.
LEMMA InOrderIsPrefix ==
  ASSUME NEW s \in Seq(0..MaxBody), \A i \in 1..Len(s) : s[i] = i
  PROVE  s = FF!Prefix(Len(s))
<1>1. s = [i \in 1..Len(s) |-> s[i]]
  OBVIOUS
<1> QED BY <1>1 DEF FF!Prefix

\* A chunk never takes the stream past the end of the body.
LEMMA WithinBody ==
  ASSUME IInv, NEW w \in Nat,
         \/ wpc = "write" /\ w <= Chunk
         \/ wpc = "retry" /\ written + w <= Chunk
  PROVE  Len(file) + w <= body
<1>1. Outstanding
  BY WriterOutstanding
<1>2. Handed <= body /\ Handed \in Int /\ body \in Int
  BY <1>1 DEF IInv, Accounting, Control, Outstanding, Handed
<1>3. offset < remaining /\ offset \in Int /\ remaining \in Int
      /\ written \in Int
  BY DEF IInv, Buffers
<1>4. Chunk \in 1..Bounce /\ offset + Chunk <= remaining
  BY <1>3, ChunkBounds
<1>5. /\ wpc = "write" => Len(file) = (Handed - remaining) + offset
      /\ wpc = "retry" => Len(file) = (Handed - remaining) + offset + written
  BY DEF IInv, Progress
<1> QED BY <1>2, <1>3, <1>4, <1>5

\* A write of the writer stores more of the body, or nothing.
LEMMA WriteRefines ==
  ASSUME IInv, IInv', NEW w \in 0..Bounce, WriteChunk(w) \/ RetryChunk(w)
  PROVE  FF!Store \/ UNCHANGED FF!vars
<1>1. /\ UNCHANGED <<pc, body, clen, published, result>>
      /\ w \in Nat
      /\ \/ wpc = "write" /\ w <= Chunk
         \/ wpc = "retry" /\ written + w <= Chunk
  BY DEF WriteChunk, RetryChunk
<1>2. Len(file) + w <= body
  BY <1>1, WithinBody
<1>3. /\ file \in Seq(0..MaxBody) /\ dram_bounce \in [1..Bounce -> 0..MaxBody]
      /\ written \in Nat /\ body \in Nat
  <2>1. file \in Seq(0..MaxBody) /\ dram_bounce \in [1..Bounce -> 0..MaxBody]
    BY DEF IInv
  <2>2. written \in Nat /\ body \in Nat
    BY DEF IInv
  <2> QED BY <2>1, <2>2
<1>4. offset < remaining /\ wpc \in {"chunk", "write", "retry"}
  BY <1>1 DEF IInv, Buffers
<1>5. Chunk \in 1..Bounce
  BY <1>4, ChunkBounds
<1>6. Len(file') = Len(file) + w
  <2>1. CASE WriteChunk(w)
    <3>1. Accept(0, w) /\ 0 \in Nat /\ 0 + w <= Bounce
      BY <2>1 DEF WriteChunk
    <3> QED BY <1>1, <1>3, <3>1, AcceptAppends
  <2>2. CASE RetryChunk(w)
    <3>1. Accept(written, w) /\ written + w <= Bounce
      BY <1>3, <1>5, <2>2 DEF RetryChunk
    <3> QED BY <1>1, <1>3, <3>1, AcceptAppends
  <2> QED BY <2>1, <2>2
<1>7. file' \in Seq(0..MaxBody) /\ \A i \in 1..Len(file') : file'[i] = i
  BY DEF IInv, InOrder
<1>8. file' = FF!Prefix(Len(file'))
  BY <1>7, InOrderIsPrefix
<1>9. pc \notin Ending \cup {"idle"}
  BY <1>1, WriterOutstanding DEF IInv, Control, Outstanding
<1>10. CASE w = 0
  <2>1. file \in Seq(0..MaxBody) /\ \A i \in 1..Len(file) : file[i] = i
    BY DEF IInv, InOrder
  <2>2. file = FF!Prefix(Len(file))
    BY <2>1, InOrderIsPrefix
  <2>3. file' = file
    BY <1>3, <1>6, <1>8, <1>10, <2>2
  <2> QED BY <1>1, <2>3 DEF FF!vars
<1>11. CASE w > 0
  <2>1. Len(file') \in (Len(file) + 1)..body
    BY <1>1, <1>2, <1>3, <1>6, <1>11
  <2> QED BY <1>1, <1>8, <1>9, <2>1 DEF FF!Store
<1> QED BY <1>1, <1>10, <1>11

\* OK is returned as FileFetch allows it.
LEMMA RenameRefines ==
  ASSUME IInv, IInv', NEW kept \in 0..Len(file), Rename(kept)
  PROVE  FF!Succeed
<1>1. file \in Seq(0..MaxBody) /\ Len(file) \in Nat
  BY DEF IInv
<1>2. /\ pc = "check" /\ pc' = "idle" /\ result' = "OK"
      /\ published' = SubSeq(file, 1, kept)
      /\ UNCHANGED <<body, clen, file, total>>
  BY DEF Rename, Return
<1>3. Len(file) = total /\ total > 0 /\ (clen > 0 => total = clen)
  <2>1. Len(file') = total' /\ total' > 0
    BY <1>2 DEF IInv, OkMeansAllAccepted
  <2> QED BY <1>2, <2>1 DEF Rename, WrongLength
<1>4. published' = FF!Prefix(kept)
  <2>1. \A i \in 1..Len(file) : file[i] = i
    BY DEF IInv, InOrder
  <2>2. kept \in Nat /\ kept <= Len(file)
    BY <1>1
  <2>3. SubSeq(file, 1, kept) = [i \in 1..kept |-> file[i]]
    BY <1>1, <2>2
  <2> QED BY <1>1, <1>2, <2>1, <2>2, <2>3 DEF FF!Prefix
<1> QED BY <1>1, <1>2, <1>3, <1>4 DEF FF!Succeed

\* Every step of the protocol is a step of FileFetch or leaves its state alone.
LEMMA StepRefines == IInv /\ IInv' /\ [Next]_vars => [FF!Next]_(FF!vars)
<1> SUFFICES ASSUME IInv, IInv', [Next]_vars PROVE [FF!Next]_(FF!vars)
  OBVIOUS
<1> USE DEF FF!Next
<1>1. CASE CallDownload
  BY <1>1 DEF CallDownload, FF!Begin
<1>2. CASE HttpSetupFails \/ CloseFailed \/ RejectLength \/ RenameFails
  BY <1>2 DEF HttpSetupFails, CloseFailed, RejectLength, RenameFails, Return,
              FF!Fail, FF!DlResult
<1>3. CASE EnsureBuffers
  BY <1>3 DEF EnsureBuffers, Return, FF!Fail, FF!DlResult, FF!vars
<1>4. CASE OpenFile
  <2>1. file = <<>>
    BY <1>4 DEF OpenFile, IInv, Progress
  <2> QED BY <1>4, <2>1 DEF OpenFile, Return, FF!Fail, FF!DlResult, FF!vars
<1>5. CASE StartWriter
  BY <1>5 DEF StartWriter, Return, FF!Fail, FF!DlResult, FF!vars
<1>6. CASE \E kept \in 0..Len(file) : Rename(kept)
  BY <1>6, RenameRefines
<1>7. CASE \E w \in 0..Bounce : WriteChunk(w) \/ RetryChunk(w)
  BY <1>7, WriteRefines
<1>8. CASE \E n \in 1..MaxBody : ReadBytes(n)
  BY <1>8 DEF ReadBytes, FF!vars
<1>9. CASE \/ HttpSetupOk \/ ReadEof \/ ReadError \/ LeaveLoop
           \/ AwaitPrevious \/ Kick \/ Signal \/ FinalWait \/ FinalNoWait
           \/ FlushAndClose
  BY <1>9 DEF HttpSetupOk, ReadEof, ReadError, LeaveLoop, AwaitPrevious, Kick,
              Signal, FinalWait, FinalNoWait, FlushAndClose, FF!vars
<1>10. CASE \/ StopWriter \/ StopDelay \/ DeleteAndFree \/ TakeJob \/ LoadJob
            \/ CopyChunk \/ Report \/ GiveDone
  BY <1>10 DEF StopWriter, StopDelay, DeleteAndFree, TakeJob, LoadJob,
               CopyChunk, Report, GiveDone, FF!vars
<1>11. CASE UNCHANGED vars
  BY <1>11 DEF vars, FF!vars
<1> QED BY <1>1, <1>2, <1>3, <1>4, <1>5, <1>6, <1>7, <1>8, <1>9, <1>10, <1>11
        DEF Next, NetTask, WriterTask, Terminated

\* Refinement: whatever the interleaving of the two tasks, a caller of
\* download_file_standalone sees the sequential contract FileFetch.
THEOREM ImplementsFileFetch == Spec => Contract
<1>1. Init => FF!Init
  BY DEF Init, FF!Init
<1>2. IInv /\ IInv' /\ [Next]_vars => [FF!Next]_(FF!vars)
  BY StepRefines
<1> QED BY <1>1, <1>2, Invariance, PTL DEF Spec, Contract, FF!Spec

=============================================================================

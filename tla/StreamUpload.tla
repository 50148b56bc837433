---------------------------- MODULE StreamUpload ----------------------------
(***************************************************************************)
(* infra/aws/s3.py, AWSStreamUpload: the caller's thread pushes gzipped    *)
(* lines into a pipe, a daemon thread hands the other end to boto3's       *)
(* upload_fileobj, close() writes the trailer, sends EOF and joins.        *)
(*                                                                         *)
(* Bytes are counted in units: one per line and one for the gzip trailer.  *)
(* A unit is held (by the compressor and the buffered writer), then in the *)
(* kernel pipe, then sent (consumed by boto3).  When the compressor emits  *)
(* is its own business, so how much stays held is nondeterministic up to   *)
(* HeldMax.                                                                *)
(***************************************************************************)
EXTENDS Naturals

CONSTANTS
  Closers,       \* calls of close()
  Overlap,       \* may a close() start before another has returned?
  MaxLines,      \* bound: lines written
  HeldMax,       \* units the buffers hold before a write must reach the pipe
  PipeMax        \* units the kernel pipe holds

ASSUME StreamAssumption ==
  /\ Overlap \in BOOLEAN
  /\ MaxLines \in Nat /\ HeldMax \in Nat
  /\ PipeMax \in Nat \ {0}

VARIABLES
  lines,         \* lines given to write_line
  held, pipe, sent,
  readerOpen,    \* self._reader
  eof,           \* self._writer is closed
  thread,        \* background thread: reading, ending (in finally), done
  error,         \* self._error is set
  stored,        \* units of the object S3 completed (0: none)
  closed,        \* self._closed
  wpc, wraised,  \* write_line: where it is, what it raised
  cpc, craised   \* close: where each call is, what it raised

buffers == <<held, pipe, sent>>
upload == <<readerOpen, thread, error, stored>>
writer == <<lines, wpc, wraised>>
closing == <<cpc, craised>>
vars == <<buffers, upload, eof, closed, writer, closing>>

Raised == {"none", "closed", "upload", "pipe"}
InClose == {"lock", "trailer", "eof", "join"}
\* close() holds self._close_lock
Locked == {"trailer", "eof"}

TypeOK ==
  /\ lines \in 0..MaxLines
  /\ held \in 0..(MaxLines + 1) /\ pipe \in 0..PipeMax /\ sent \in 0..(MaxLines + 1)
  /\ stored \in 0..(MaxLines + 1)
  /\ readerOpen \in BOOLEAN /\ eof \in BOOLEAN /\ error \in BOOLEAN /\ closed \in BOOLEAN
  /\ thread \in {"reading", "ending", "done"}
  /\ wpc \in {"idle", "flush", "raised"} /\ wraised \in Raised
  /\ cpc \in [Closers -> InClose \cup {"out", "key", "raised"}]
  /\ craised \in [Closers -> Raised]

Init ==
  /\ lines = 0 /\ held = 0 /\ pipe = 0 /\ sent = 0 /\ stored = 0
  /\ readerOpen = TRUE /\ eof = FALSE /\ thread = "reading" /\ error = FALSE
  /\ closed = FALSE
  /\ wpc = "idle" /\ wraised = "none"
  /\ cpc = [c \in Closers |-> "out"] /\ craised = [c \in Closers |-> "none"]

NobodyCloses == \A c \in Closers : cpc[c] \notin InClose
LockFree == \A c \in Closers : cpc[c] \notin Locked

(* Mutant of Push: no backpressure. *)
MutPushNeverBlocks ==
  /\ held > 0 /\ readerOpen
  /\ held' = held - 1 /\ pipe' = pipe + 1 /\ UNCHANGED sent

(* One unit goes from the buffers into the pipe; with no room the write    *)
(* blocks.                                                                 *)
Push ==
  /\ held > 0 /\ readerOpen /\ pipe < PipeMax
  /\ held' = held - 1 /\ pipe' = pipe + 1 /\ UNCHANGED sent

(* A write meets a pipe nobody will read: EPIPE, also when it was blocked. *)
Broken == held > 0 /\ ~ readerOpen

(* The error the background thread recorded, else the bare pipe error. *)
Reason == IF error THEN "upload" ELSE "pipe"

-----------------------------------------------------------------------------
(* write_line; the stream has one writer, which is not in close() meanwhile. *)

WriteRefused ==
  /\ wpc = "idle" /\ NobodyCloses /\ (closed \/ error)
  /\ wpc' = "raised" /\ wraised' = IF closed THEN "closed" ELSE "upload"
  /\ UNCHANGED <<lines, buffers, upload, eof, closed, closing>>

WriteLine ==
  /\ wpc = "idle" /\ NobodyCloses /\ ~ closed /\ ~ error
  /\ lines < MaxLines
  /\ lines' = lines + 1 /\ held' = held + 1 /\ wpc' = "flush"
  /\ UNCHANGED <<pipe, sent, upload, eof, closed, wraised, closing>>

WriteFlush ==
  /\ wpc = "flush" /\ Push
  /\ UNCHANGED <<upload, eof, closed, writer, closing>>

WriteReturns ==
  /\ wpc = "flush" /\ held <= HeldMax
  /\ wpc' = "idle"
  /\ UNCHANGED <<lines, wraised, buffers, upload, eof, closed, closing>>

WriteBroken ==
  /\ wpc = "flush" /\ Broken
  /\ wpc' = "raised" /\ wraised' = Reason
  /\ UNCHANGED <<lines, buffers, upload, eof, closed, closing>>

-----------------------------------------------------------------------------
(* close                                                                   *)

CloseCall(c) ==
  /\ cpc[c] = "out" /\ wpc # "flush" /\ (Overlap \/ NobodyCloses)
  /\ cpc' = [cpc EXCEPT ![c] = "lock"]
  /\ UNCHANGED <<craised, buffers, upload, eof, closed, writer>>

Answer(c) ==
  IF error
  THEN cpc' = [cpc EXCEPT ![c] = "raised"] /\ craised' = [craised EXCEPT ![c] = "upload"]
  ELSE cpc' = [cpc EXCEPT ![c] = "key"] /\ UNCHANGED craised

(* Mutant of CloseAgain: the error is not looked at. *)
MutAgainIsFine(c) ==
  /\ cpc[c] = "lock" /\ LockFree /\ closed
  /\ cpc' = [cpc EXCEPT ![c] = "key"]
  /\ UNCHANGED <<craised, buffers, upload, eof, closed, writer>>

(* A stream that is closed already answers from self._error alone. *)
CloseAgain(c) ==
  /\ cpc[c] = "lock" /\ LockFree /\ closed
  /\ Answer(c)
  /\ UNCHANGED <<buffers, upload, eof, closed, writer>>

(* Take the lock, mark the stream closed, start on the gzip trailer. *)
CloseFirst(c) ==
  /\ cpc[c] = "lock" /\ LockFree /\ ~ closed
  /\ closed' = TRUE /\ held' = held + 1
  /\ cpc' = [cpc EXCEPT ![c] = "trailer"]
  /\ UNCHANGED <<pipe, sent, craised, upload, eof, writer>>

CloseFlush(c) ==
  /\ cpc[c] \in Locked /\ Push
  /\ UNCHANGED <<upload, eof, closed, writer, closing>>

TrailerWritten(c) ==
  /\ cpc[c] = "trailer" /\ held <= HeldMax
  /\ cpc' = [cpc EXCEPT ![c] = "eof"]
  /\ UNCHANGED <<craised, buffers, upload, eof, closed, writer>>

(* gz.close() raises: the writer is closed all the same, nothing is joined. *)
TrailerBroken(c) ==
  /\ cpc[c] = "trailer" /\ Broken
  /\ eof' = TRUE /\ held' = 0
  /\ cpc' = [cpc EXCEPT ![c] = "raised"] /\ craised' = [craised EXCEPT ![c] = Reason]
  /\ UNCHANGED <<pipe, sent, upload, closed, writer>>

(* Mutant of SendEof: the writer is left open. *)
MutNoEof(c) ==
  /\ cpc[c] = "eof" /\ held = 0
  /\ cpc' = [cpc EXCEPT ![c] = "join"]
  /\ UNCHANGED <<craised, buffers, eof, upload, closed, writer>>

(* self._writer.close(): the buffer is flushed, EOF is sent, an OSError is *)
(* swallowed.                                                              *)
SendEof(c) ==
  /\ cpc[c] = "eof" /\ (held = 0 \/ ~ readerOpen)
  /\ eof' = TRUE /\ held' = 0
  /\ cpc' = [cpc EXCEPT ![c] = "join"]
  /\ UNCHANGED <<pipe, sent, craised, upload, closed, writer>>

(* Mutant of Joined: the error is read without joining the thread. *)
MutNoJoin(c) ==
  /\ cpc[c] = "join"
  /\ Answer(c)
  /\ UNCHANGED <<buffers, upload, eof, closed, writer>>

Joined(c) ==
  /\ cpc[c] = "join" /\ thread = "done"
  /\ Answer(c)
  /\ UNCHANGED <<buffers, upload, eof, closed, writer>>

-----------------------------------------------------------------------------
(* _run_upload; upload_fileobj and S3 themselves are boto3's.              *)

Read ==
  /\ thread = "reading" /\ pipe > 0
  /\ pipe' = pipe - 1 /\ sent' = sent + 1
  /\ UNCHANGED <<held, upload, eof, closed, writer, closing>>

UploadStored ==
  /\ thread = "reading" /\ pipe = 0 /\ eof
  /\ stored' = sent /\ thread' = "ending"
  /\ UNCHANGED <<readerOpen, error, buffers, eof, closed, writer, closing>>

(* Mutant of UploadRaises: the exception is not recorded. *)
MutErrorLost ==
  /\ thread = "reading"
  /\ thread' = "ending"
  /\ UNCHANGED <<error, readerOpen, stored, buffers, eof, closed, writer, closing>>

UploadRaises ==
  /\ thread = "reading"
  /\ error' = TRUE /\ thread' = "ending"
  /\ UNCHANGED <<readerOpen, stored, buffers, eof, closed, writer, closing>>

(* Mutant of CloseReader: the thread ends without closing its end. *)
MutReaderLeftOpen ==
  /\ thread = "ending"
  /\ thread' = "done"
  /\ UNCHANGED <<readerOpen, error, stored, buffers, eof, closed, writer, closing>>

(* finally: the reader is closed, whatever is in the pipe is gone. *)
CloseReader ==
  /\ thread = "ending"
  /\ readerOpen' = FALSE /\ pipe' = 0 /\ thread' = "done"
  /\ UNCHANGED <<held, sent, error, stored, eof, closed, writer, closing>>

-----------------------------------------------------------------------------

WriterStep == WriteFlush \/ WriteReturns \/ WriteBroken

CloserStep(c) ==
  \/ CloseAgain(c) \/ CloseFirst(c) \/ CloseFlush(c) \/ TrailerWritten(c)
  \/ TrailerBroken(c) \/ SendEof(c) \/ Joined(c)

(* What the thread does as long as it is scheduled and boto3 and S3 answer. *)
ThreadRuns == Read \/ UploadStored \/ CloseReader

ThreadStep == ThreadRuns \/ UploadRaises

Next ==
  \/ WriteLine \/ WriteRefused \/ WriterStep
  \/ \E c \in Closers : CloseCall(c) \/ CloserStep(c)
  \/ ThreadStep

Spec == Init /\ [][Next]_vars

(* Threads are scheduled, and an upload that has something to read, or its *)
(* EOF, goes on.  It never has to fail: one that waits on an empty pipe    *)
(* without EOF waits for ever, and so does whoever joins it.  Nobody has   *)
(* to write another line or to call close().                               *)
FairSpec ==
  /\ Spec
  /\ WF_vars(WriterStep) /\ WF_vars(ThreadRuns)
  /\ \A c \in Closers : WF_vars(CloserStep(c))

-----------------------------------------------------------------------------

(* infra/interface.py: "Callers treat a returned key as proof that the     *)
(* object is complete": it holds every line and the gzip trailer.          *)
KeyMeansComplete ==
  \A c \in Closers : cpc[c] = "key" => stored = lines + 1

(* What write_line and close raise is the upload's own error, never the    *)
(* broken pipe it causes: the error is recorded before the reader closes.  *)
UploadErrorSurfaces ==
  wraised # "pipe" /\ \A c \in Closers : craised[c] # "pipe"

(* A write blocked on a full pipe is released, with an error if the upload *)
(* has died.                                                               *)
WriteEnds == wpc = "flush" ~> wpc # "flush"

(* Every close() answers: its EOF always reaches the thread it joins. *)
CloseAnswers ==
  \A c \in Closers : cpc[c] = "lock" ~> cpc[c] \in {"key", "raised"}

Contract == INSTANCE InfraStream WITH
  Callers <- Closers,
  taken <- lines,
  whole <- stored = lines + 1,
  answer <- [c \in Closers |->
               CASE cpc[c] = "key" -> "key"
                 [] cpc[c] = "raised" -> "error"
                 [] OTHER -> "none"]

(* Seen through its public calls the upload behaves as the contract says. *)
KeepsContract == Contract!Spec
=============================================================================

------------------------- MODULE StreamUploadProofs -------------------------
(***************************************************************************)
(* Theorems about StreamUpload, for any number of lines, any buffering,    *)
(* any pipe capacity and any set of close() calls.                         *)
(***************************************************************************)
EXTENDS StreamUpload, TLAPS

Trailer == IF closed THEN 1 ELSE 0

Typed ==
  /\ lines \in 0..MaxLines
  /\ held \in Nat /\ pipe \in 0..PipeMax /\ sent \in Nat /\ stored \in Nat
  /\ readerOpen \in BOOLEAN /\ eof \in BOOLEAN /\ error \in BOOLEAN /\ closed \in BOOLEAN
  /\ thread \in {"reading", "ending", "done"}
  /\ wpc \in {"idle", "flush", "raised"} /\ wraised \in Raised
  /\ cpc \in [Closers -> InClose \cup {"out", "key", "raised"}]
  /\ craised \in [Closers -> Raised]

(* No unit is invented, and while the thread reads none is lost. *)
Accounted ==
  /\ held + pipe + sent <= lines + Trailer
  /\ thread = "reading" => held + pipe + sent = lines + Trailer

(* The writer's end closes last, with nothing left behind it. *)
EofLast == eof => held = 0 /\ closed

(* What the thread leaves behind: the whole object or a recorded error. *)
Outcome ==
  /\ readerOpen <=> thread # "done"
  /\ thread = "reading" => ~ error /\ stored = 0
  /\ thread # "reading" /\ ~ error => stored = lines + 1 /\ eof
  /\ error => stored = 0

IInv ==
  /\ Typed /\ Accounted /\ EofLast /\ Outcome
  /\ \A c \in Closers : cpc[c] \in {"trailer", "eof", "join"} => closed
  /\ UploadErrorSurfaces

LEMMA InitIInv == Init => IInv
<1> SUFFICES ASSUME Init PROVE IInv
  OBVIOUS
<1>1. 0 \in 0..MaxLines /\ 0 \in 0..PipeMax /\ 0 \in Nat
  BY StreamAssumption
<1>2. Typed
  BY <1>1 DEF Init, Typed, InClose, Raised
<1>3. QED
  BY <1>2 DEF Init, IInv, Accounted, Trailer, EofLast, Outcome, UploadErrorSurfaces

LEMMA WriterIInv ==
  ASSUME IInv, WriteLine \/ WriteRefused \/ WriterStep
  PROVE  IInv'
<1> USE StreamAssumption DEF IInv, Typed, Raised, InClose
<1>1. CASE WriteLine
  BY <1>1 DEF WriteLine, Accounted, Trailer, EofLast, Outcome, UploadErrorSurfaces,
              upload, closing
<1>2. CASE WriteRefused
  BY <1>2 DEF WriteRefused, Accounted, Trailer, EofLast, Outcome, UploadErrorSurfaces,
              buffers, upload, closing
<1>3. CASE WriteFlush
  BY <1>3 DEF WriteFlush, Push, Accounted, Trailer, EofLast, Outcome, UploadErrorSurfaces,
              upload, writer, closing
<1>4. CASE WriteReturns
  BY <1>4 DEF WriteReturns, Accounted, Trailer, EofLast, Outcome, UploadErrorSurfaces,
              buffers, upload, closing
<1>5. CASE WriteBroken
  <2>1. error
    BY <1>5 DEF WriteBroken, Broken, Outcome, EofLast
  <2>2. QED
    BY <1>5, <2>1 DEF WriteBroken, Reason, Accounted, Trailer, EofLast, Outcome,
                      UploadErrorSurfaces, buffers, upload, closing
<1>6. QED
  BY <1>1, <1>2, <1>3, <1>4, <1>5 DEF WriterStep

LEMMA AnswerKeeps ==
  ASSUME IInv, NEW c \in Closers, Answer(c), UNCHANGED <<buffers, upload, eof, closed, writer>>
  PROVE  IInv'
<1>1. /\ cpc' \in [Closers -> InClose \cup {"out", "key", "raised"}]
      /\ craised' \in [Closers -> Raised]
      /\ \A d \in Closers : craised'[d] # "pipe"
      /\ \A d \in Closers : cpc'[d] \in {"trailer", "eof", "join"} => closed'
  BY DEF IInv, Typed, Answer, Raised, UploadErrorSurfaces
<1>2. QED
  BY <1>1 DEF IInv, Typed, Accounted, Trailer, EofLast, Outcome, UploadErrorSurfaces,
              buffers, upload, writer

LEMMA CloserIInv ==
  ASSUME IInv, NEW c \in Closers, CloseCall(c) \/ CloserStep(c)
  PROVE  IInv'
<1> USE StreamAssumption DEF IInv, Typed, Raised, InClose
<1>1. CASE CloseCall(c)
  BY <1>1 DEF CloseCall, Accounted, Trailer, EofLast, Outcome, UploadErrorSurfaces,
              buffers, upload, writer
<1>2. CASE CloseAgain(c)
  BY <1>2, AnswerKeeps DEF CloseAgain
<1>3. CASE CloseFirst(c)
  <2>1. \A d \in Closers : cpc'[d] \in {"trailer", "eof", "join"} => closed'
    BY <1>3 DEF CloseFirst
  <2>2. Accounted' /\ EofLast' /\ Outcome'
    BY <1>3 DEF CloseFirst, Accounted, Trailer, EofLast, Outcome, upload, writer
  <2>3. Typed' /\ UploadErrorSurfaces'
    BY <1>3 DEF CloseFirst, UploadErrorSurfaces, upload, writer
  <2>4. QED
    BY <2>1, <2>2, <2>3
<1>4. CASE CloseFlush(c)
  BY <1>4 DEF CloseFlush, Push, Accounted, Trailer, EofLast, Outcome, UploadErrorSurfaces,
              upload, writer, closing
<1>5. CASE TrailerWritten(c)
  BY <1>5 DEF TrailerWritten, Accounted, Trailer, EofLast, Outcome, UploadErrorSurfaces,
              buffers, upload, writer
<1>6. CASE TrailerBroken(c)
  <2>1. error /\ closed /\ thread = "done"
    BY <1>6 DEF TrailerBroken, Broken, Outcome, EofLast
  <2>2. \A d \in Closers : craised'[d] # "pipe"
    BY <1>6, <2>1 DEF TrailerBroken, Reason, UploadErrorSurfaces
  <2>3. Typed'
    BY <1>6, <2>1 DEF TrailerBroken, Reason, upload, writer
  <2>4. QED
    BY <1>6, <2>1, <2>2, <2>3 DEF TrailerBroken, Accounted, Trailer, EofLast, Outcome,
                                  UploadErrorSurfaces, upload, writer
<1>7. CASE SendEof(c)
  <2>1. closed /\ (held = 0 \/ thread = "done")
    BY <1>7 DEF SendEof, Outcome
  <2>2. Typed'
    BY <1>7 DEF SendEof, upload, writer
  <2>3. QED
    BY <1>7, <2>1, <2>2 DEF SendEof, Accounted, Trailer, EofLast, Outcome,
                            UploadErrorSurfaces, upload, writer
<1>8. CASE Joined(c)
  BY <1>8, AnswerKeeps DEF Joined
<1>9. QED
  BY <1>1, <1>2, <1>3, <1>4, <1>5, <1>6, <1>7, <1>8 DEF CloserStep

LEMMA ThreadIInv ==
  ASSUME IInv, ThreadStep
  PROVE  IInv'
<1> USE StreamAssumption DEF IInv, Typed, Raised, InClose
<1>1. CASE Read
  BY <1>1 DEF Read, Accounted, Trailer, EofLast, Outcome, UploadErrorSurfaces,
              upload, writer, closing
<1>2. CASE UploadStored
  BY <1>2 DEF UploadStored, Accounted, Trailer, EofLast, Outcome, UploadErrorSurfaces,
              buffers, writer, closing
<1>3. CASE UploadRaises
  BY <1>3 DEF UploadRaises, Accounted, Trailer, EofLast, Outcome, UploadErrorSurfaces,
              buffers, writer, closing
<1>4. CASE CloseReader
  <2>1. 0 \in 0..PipeMax
    OBVIOUS
  <2>2. Typed' /\ UploadErrorSurfaces'
    BY <1>4, <2>1 DEF CloseReader, UploadErrorSurfaces, writer, closing
  <2>3. Accounted' /\ EofLast' /\ Outcome'
    BY <1>4 DEF CloseReader, Accounted, Trailer, EofLast, Outcome, writer
  <2>4. QED
    BY <1>4, <2>2, <2>3 DEF CloseReader, closing
<1>5. QED
  BY <1>1, <1>2, <1>3, <1>4 DEF ThreadStep, ThreadRuns

LEMMA NextIInv == IInv /\ [Next]_vars => IInv'
<1> SUFFICES ASSUME IInv, [Next]_vars PROVE IInv'
  OBVIOUS
<1>1. CASE UNCHANGED vars
  BY <1>1 DEF vars, buffers, upload, writer, closing, IInv, Typed, Accounted, Trailer,
              EofLast, Outcome, UploadErrorSurfaces
<1>2. CASE Next
  BY <1>2, WriterIInv, CloserIInv, ThreadIInv DEF Next
<1>3. QED
  BY <1>1, <1>2

(* The counts stay within what was written: the type invariant needs the   *)
(* accounting of units, so it follows from IInv and not on its own.        *)
THEOREM StreamTypeCorrect == Spec => []TypeOK
<1>1. ASSUME IInv PROVE TypeOK
  <2>1. lines \in 0..MaxLines /\ Trailer \in 0..1
    BY <1>1 DEF IInv, Typed, Trailer
  <2>2. held + pipe + sent <= MaxLines + 1
    BY <1>1, <2>1, StreamAssumption DEF IInv, Typed, Accounted
  <2>3. /\ held \in 0..(MaxLines + 1) /\ sent \in 0..(MaxLines + 1)
    BY <1>1, <2>2, StreamAssumption DEF IInv, Typed
  <2>4. stored \in 0..(MaxLines + 1)
    BY <1>1, <2>1, StreamAssumption DEF IInv, Typed, Outcome
  <2>5. QED
    BY <1>1, <2>3, <2>4 DEF IInv, Typed, TypeOK
<1>2. QED
  BY <1>1, InitIInv, NextIInv, PTL DEF Spec

(* The error recorded by the thread always reaches the caller: no bare     *)
(* broken pipe is ever raised in its place.                                *)
THEOREM ErrorsSurface == Spec => []UploadErrorSurfaces
<1>1. IInv => UploadErrorSurfaces
  BY DEF IInv
<1>2. QED
  BY <1>1, InitIInv, NextIInv, PTL DEF Spec

-----------------------------------------------------------------------------
(* From here on one close() returns before the next begins.                *)

OneCloser == \A c, d \in Closers : cpc[c] \in InClose /\ cpc[d] \in InClose => c = d

(* A closed stream is being finished by somebody or its thread has ended. *)
ClosedEnds == closed => thread = "done" \/ \E c \in Closers : cpc[c] \in {"trailer", "eof", "join"}

KeyEnds == \A c \in Closers : cpc[c] = "key" => thread = "done" /\ ~ error

KeyInv == OneCloser /\ ClosedEnds /\ KeyEnds

LEMMA InitKeyInv == Init => KeyInv
BY DEF Init, KeyInv, OneCloser, ClosedEnds, KeyEnds, InClose

LEMMA NextKeyInv ==
  ASSUME ~ Overlap, IInv, KeyInv, [Next]_vars
  PROVE  KeyInv'
<1> USE DEF KeyInv
<1>1. CASE UNCHANGED vars
  BY <1>1 DEF vars, upload, closing, OneCloser, ClosedEnds, KeyEnds
<1>2. CASE WriteLine \/ WriteRefused \/ WriterStep
  BY <1>2 DEF WriteLine, WriteRefused, WriterStep, WriteFlush, WriteReturns, WriteBroken,
              upload, closing, OneCloser, ClosedEnds, KeyEnds
<1>3. CASE ThreadStep
  BY <1>3 DEF ThreadStep, ThreadRuns, Read, UploadStored, UploadRaises, CloseReader, upload, closing,
              OneCloser, ClosedEnds, KeyEnds
<1>4. ASSUME NEW c \in Closers, CloseCall(c) PROVE KeyInv'
  <2>1. \A d \in Closers : cpc[d] \notin InClose
    BY <1>4 DEF CloseCall, NobodyCloses
  <2>2. \A d \in Closers : d # c => cpc'[d] = cpc[d]
    BY <1>4 DEF CloseCall, IInv, Typed
  <2>3. cpc'[c] = "lock"
    BY <1>4 DEF CloseCall, IInv, Typed
  <2>4. QED
    BY <1>4, <2>1, <2>2, <2>3 DEF CloseCall, upload, OneCloser, ClosedEnds, KeyEnds, InClose
<1>5. ASSUME NEW c \in Closers, CloserStep(c) PROVE KeyInv'
  <2>1. cpc[c] \in InClose
    BY <1>5 DEF CloserStep, CloseAgain, CloseFirst, CloseFlush, TrailerWritten, TrailerBroken,
                SendEof, Joined, InClose, Locked
  <2>2. \A d \in Closers : d # c => cpc[d] \notin InClose /\ cpc'[d] = cpc[d]
    BY <1>5, <2>1 DEF CloserStep, CloseAgain, CloseFirst, CloseFlush, TrailerWritten,
                      TrailerBroken, SendEof, Joined, Answer, OneCloser, IInv, Typed, closing
  <2>3. OneCloser'
    BY <2>2 DEF OneCloser
  <2>4. ClosedEnds' /\ (cpc'[c] = "key" => thread' = "done" /\ ~ error')
    <3>1. CASE CloseAgain(c)
      <4>1. thread = "done"
        BY <3>1, <2>2 DEF CloseAgain, ClosedEnds, InClose
      <4>2. QED
        BY <3>1, <4>1 DEF CloseAgain, Answer, ClosedEnds, upload, IInv, Typed
    <3>2. CASE CloseFirst(c)
      BY <3>2 DEF CloseFirst, ClosedEnds, upload, IInv, Typed
    <3>3. CASE CloseFlush(c)
      BY <3>3 DEF CloseFlush, Locked, ClosedEnds, upload, closing
    <3>4. CASE TrailerWritten(c)
      BY <3>4 DEF TrailerWritten, ClosedEnds, upload, IInv, Typed
    <3>5. CASE TrailerBroken(c)
      BY <3>5 DEF TrailerBroken, Broken, ClosedEnds, upload, IInv, Typed, Outcome
    <3>6. CASE SendEof(c)
      BY <3>6 DEF SendEof, ClosedEnds, upload, IInv, Typed
    <3>7. CASE Joined(c)
      BY <3>7 DEF Joined, Answer, ClosedEnds, upload, IInv, Typed
    <3>8. QED
      BY <1>5, <3>1, <3>2, <3>3, <3>4, <3>5, <3>6, <3>7 DEF CloserStep
  <2>5. thread' = thread /\ error' = error
    BY <1>5 DEF CloserStep, CloseAgain, CloseFirst, CloseFlush, TrailerWritten, TrailerBroken,
                SendEof, Joined, upload
  <2>6. QED
    BY <2>2, <2>3, <2>4, <2>5 DEF KeyEnds
<1>6. QED
  BY <1>1, <1>2, <1>3, <1>4, <1>5 DEF Next

LEMMA KeyMeansWhole ==
  ASSUME IInv, KeyInv
  PROVE  KeyMeansComplete
BY DEF IInv, Outcome, KeyInv, KeyEnds, KeyMeansComplete

(* A returned key is proof of a complete object (infra/interface.py), as   *)
(* long as close() calls do not overlap.                                   *)
THEOREM KeyIsProof ==
  ASSUME ~ Overlap
  PROVE  Spec => []KeyMeansComplete
<1>1. KeyInv /\ IInv /\ [Next]_vars => KeyInv'
  BY NextKeyInv
<1>2. IInv /\ KeyInv => KeyMeansComplete
  BY KeyMeansWhole
<1>3. QED
  BY <1>1, <1>2, InitIInv, NextIInv, InitKeyInv, PTL DEF Spec

-----------------------------------------------------------------------------
(* Refinement of InfraStream.                                              *)

Shown(p) ==
  CASE p = "key" -> "key"
    [] p = "raised" -> "error"
    [] OTHER -> "none"

LEMMA SameAnswers ==
  ASSUME IInv, NEW c \in Closers, NEW p \in InClose \cup {"out", "key", "raised"},
         cpc' = [cpc EXCEPT ![c] = p], cpc[c] \in InClose \cup {"out"}
  PROVE  [d \in Closers |-> Shown(cpc[d])]' =
         [[d \in Closers |-> Shown(cpc[d])] EXCEPT ![c] = Shown(p)]
BY DEF IInv, Typed

LEMMA CloserImplements ==
  ASSUME ~ Overlap, IInv, KeyInv, NEW c \in Closers, CloserStep(c), KeyMeansComplete'
  PROVE  [Contract!Next]_(Contract!vars)
<1> DEFINE ans == [d \in Closers |-> Shown(cpc[d])]
<1>1. lines' = lines /\ stored' = stored
  BY DEF CloserStep, CloseAgain, CloseFirst, CloseFlush, TrailerWritten, TrailerBroken, SendEof,
         Joined, upload, writer
<1>2. cpc[c] \in InClose
  BY DEF CloserStep, CloseAgain, CloseFirst, CloseFlush, TrailerWritten, TrailerBroken,
         SendEof, Joined, InClose, Locked
<1>3. ans[c] = "none"
  BY <1>2 DEF Shown, InClose
<1>4. CASE cpc' = cpc
  BY <1>1, <1>4 DEF Contract!vars
<1>5. CASE cpc' = [cpc EXCEPT ![c] = "key"]
  <2>1. ans' = [ans EXCEPT ![c] = "key"]
    BY <1>2, <1>5, SameAnswers DEF Shown
  <2>2. stored = lines + 1
    <3>1. cpc'[c] = "key"
      BY <1>5 DEF IInv, Typed
    <3>2. QED
      BY <1>1, <3>1 DEF KeyMeansComplete
  <2>3. Contract!ReturnKey(c)
    BY <1>1, <1>3, <2>1, <2>2 DEF Contract!ReturnKey, Shown
  <2>4. QED
    BY <2>3 DEF Contract!Next
<1>6. CASE cpc' = [cpc EXCEPT ![c] = "raised"]
  <2>1. ans' = [ans EXCEPT ![c] = "error"]
    BY <1>2, <1>6, SameAnswers DEF Shown
  <2>2. Contract!Raise(c)
    BY <1>1, <1>3, <2>1 DEF Contract!Raise, Shown
  <2>3. QED
    BY <2>2 DEF Contract!Next
<1>7. ASSUME NEW p \in InClose, cpc' = [cpc EXCEPT ![c] = p]
      PROVE  [Contract!Next]_(Contract!vars)
  <2>1. \A d \in Closers : Shown(cpc'[d]) = Shown(cpc[d])
    BY <1>2, <1>7 DEF IInv, Typed, Shown, InClose
  <2>2. QED
    BY <1>1, <2>1 DEF Contract!vars, Shown
<1>8. \/ cpc' = cpc
      \/ cpc' = [cpc EXCEPT ![c] = "key"] \/ cpc' = [cpc EXCEPT ![c] = "raised"]
      \/ \E p \in InClose : cpc' = [cpc EXCEPT ![c] = p]
  BY DEF CloserStep, CloseAgain, CloseFirst, CloseFlush, TrailerWritten, TrailerBroken, SendEof,
         Joined, Answer, closing, InClose
<1>9. QED
  BY <1>4, <1>5, <1>6, <1>7, <1>8

(* With close() calls one after the other, every step of the pipe, the     *)
(* thread and the lock is a step of the contract or invisible to it.       *)
THEOREM StreamKeepsContract ==
  ASSUME ~ Overlap
  PROVE  Spec => KeepsContract
<1>1. Init => Contract!Init
  BY DEF Init, Contract!Init
<1>2. ASSUME IInv, IInv', KeyInv, KeyInv', [Next]_vars
      PROVE  [Contract!Next]_(Contract!vars)
  <2>1. CASE UNCHANGED vars
    BY <2>1 DEF vars, writer, upload, closing, Contract!vars
  <2>2. CASE WriteLine
    <3>1. stored = 0 /\ stored' = 0
      BY <1>2, <2>2 DEF WriteLine, IInv, Outcome, EofLast, upload
    <3>2. Contract!Take
      BY <1>2, <2>2, <3>1 DEF WriteLine, Contract!Take, closing, IInv, Typed
    <3>3. QED
      BY <3>2 DEF Contract!Next
  <2>3. CASE WriteRefused \/ WriterStep
    BY <2>3 DEF WriteRefused, WriterStep, WriteFlush, WriteReturns, WriteBroken, upload, closing,
                writer, Contract!vars
  <2>4. CASE UploadStored
    <3>1. stored = 0 /\ stored' = lines' + 1 /\ lines' = lines
      BY <1>2, <2>4 DEF UploadStored, IInv, Outcome, writer
    <3>2. Contract!Store
      BY <1>2, <2>4, <3>1 DEF UploadStored, Contract!Store, closing, IInv, Typed
    <3>3. QED
      BY <3>2 DEF Contract!Next
  <2>5. CASE Read \/ UploadRaises \/ CloseReader
    BY <2>5 DEF Read, UploadRaises, CloseReader, upload, closing, writer, Contract!vars
  <2>6. ASSUME NEW c \in Closers, CloseCall(c) PROVE [Contract!Next]_(Contract!vars)
    <3>1. \A d \in Closers : Shown(cpc'[d]) = Shown(cpc[d])
      BY <1>2, <2>6 DEF CloseCall, IInv, Typed, Shown
    <3>2. QED
      BY <2>6, <3>1 DEF CloseCall, upload, writer, Contract!vars, Shown
  <2>7. ASSUME NEW c \in Closers, CloserStep(c) PROVE [Contract!Next]_(Contract!vars)
    BY <1>2, <2>7, KeyMeansWhole, CloserImplements DEF KeyMeansComplete, KeyInv, KeyEnds, IInv, Outcome
  <2>8. QED
    BY <1>2, <2>1, <2>2, <2>3, <2>4, <2>5, <2>6, <2>7 DEF Next, ThreadStep, ThreadRuns
<1>3. KeyInv /\ IInv /\ [Next]_vars => KeyInv'
  BY NextKeyInv
<1>4. QED
  BY <1>1, <1>2, <1>3, InitIInv, NextIInv, InitKeyInv, PTL
     DEF Spec, KeepsContract, Contract!Spec

-----------------------------------------------------------------------------
(* Why calls end: there is always somebody to move, and only so many moves. *)

(* The guards of the steps of the writer, the closers and the thread, but  *)
(* for UploadRaises: the upload need not fail for anybody to go on.        *)
CanMove ==
  \/ wpc = "flush" /\ (held <= HeldMax \/ Broken)
  \/ /\ wpc = "flush" \/ ~ LockFree
     /\ held > 0 /\ readerOpen /\ pipe < PipeMax
  \/ \E c \in Closers :
       \/ cpc[c] = "lock" /\ LockFree
       \/ cpc[c] = "trailer" /\ (held <= HeldMax \/ Broken)
       \/ cpc[c] = "eof" /\ (held = 0 \/ ~ readerOpen)
       \/ cpc[c] = "join" /\ thread = "done"
  \/ thread = "reading" /\ (pipe > 0 \/ eof)
  \/ thread = "ending"

NobodyHangs == wpc = "flush" \/ ~ NobodyCloses => CanMove

(* A close() that joins the thread has sent it EOF. *)
JoinersSentEof == \A c \in Closers : cpc[c] = "join" => eof

LEMMA NextSendsEof ==
  ASSUME IInv, JoinersSentEof, [Next]_vars
  PROVE  JoinersSentEof'
<1>1. CASE UNCHANGED vars
  BY <1>1 DEF vars, closing, JoinersSentEof
<1>2. CASE WriteLine \/ WriteRefused \/ WriterStep \/ ThreadStep
  BY <1>2 DEF WriteLine, WriteRefused, WriterStep, WriteFlush, WriteReturns, WriteBroken,
              ThreadStep, ThreadRuns, Read, UploadStored, UploadRaises, CloseReader, closing, JoinersSentEof
<1>3. ASSUME NEW c \in Closers, CloseCall(c) \/ CloserStep(c) PROVE JoinersSentEof'
  BY <1>3 DEF CloseCall, CloserStep, CloseAgain, CloseFirst, CloseFlush, TrailerWritten,
              TrailerBroken, SendEof, Joined, Answer, closing, JoinersSentEof, IInv, Typed
<1>4. QED
  BY <1>1, <1>2, <1>3 DEF Next

(* A full pipe is read, or was closed by the thread that read it. *)
LEMMA PipeMoves ==
  ASSUME IInv, wpc = "flush" \/ ~ LockFree, held > 0
  PROVE  CanMove \/ ~ readerOpen
<1>1. CASE readerOpen /\ pipe < PipeMax
  BY <1>1 DEF CanMove
<1>2. CASE readerOpen /\ ~ pipe < PipeMax
  <2>1. pipe > 0
    BY <1>2, StreamAssumption DEF IInv, Typed
  <2>2. thread \in {"reading", "ending"}
    BY <1>2 DEF IInv, Typed, Outcome
  <2>3. QED
    BY <2>1, <2>2 DEF CanMove
<1>3. QED
  BY <1>1, <1>2

(* Whoever writes or closes, and whatever the pipe and the buffers hold,   *)
(* some thread can go on: no write waits on a full pipe nobody reads, no   *)
(* close() on a lock nobody leaves or a thread nobody ends.                *)
THEOREM NobodyWaitsForEver == Spec => []NobodyHangs
<1>1. Init => JoinersSentEof
  BY DEF Init, JoinersSentEof
<1>2. ASSUME IInv, JoinersSentEof PROVE NobodyHangs
  <2>1. held \in Nat /\ HeldMax \in Nat
    BY <1>2, StreamAssumption DEF IInv, Typed
  <2>2. CASE wpc = "flush"
    <3>1. CASE held <= HeldMax
      BY <2>2, <3>1 DEF CanMove, NobodyHangs
    <3>2. CASE ~ held <= HeldMax
      <4>1. held > 0
        BY <2>1, <3>2
      <4>2. QED
        BY <1>2, <2>2, <4>1, PipeMoves DEF CanMove, Broken, NobodyHangs
    <3>3. QED
      BY <3>1, <3>2
  <2>3. ASSUME NEW c \in Closers, cpc[c] \in Locked PROVE CanMove
    <3>1. ~ LockFree
      BY <2>3 DEF LockFree
    <3>2. CASE held = 0
      BY <2>1, <2>3, <3>2 DEF Locked, CanMove
    <3>3. CASE held # 0
      <4>1. held > 0
        BY <2>1, <3>3
      <4>2. QED
        BY <1>2, <2>3, <3>1, <4>1, PipeMoves DEF CanMove, Broken, Locked
    <3>4. QED
      BY <3>2, <3>3
  <2>4. ASSUME NEW c \in Closers, cpc[c] = "lock" PROVE CanMove
    BY <2>3, <2>4 DEF CanMove, LockFree
  <2>5. ASSUME NEW c \in Closers, cpc[c] = "join" PROVE CanMove
    <3>1. eof
      BY <1>2, <2>5 DEF JoinersSentEof
    <3>2. thread \in {"reading", "ending", "done"}
      BY <1>2 DEF IInv, Typed
    <3>3. QED
      BY <2>5, <3>1, <3>2 DEF CanMove
  <2>6. QED
    BY <2>2, <2>3, <2>4, <2>5 DEF NobodyHangs, NobodyCloses, InClose, Locked
<1>3. JoinersSentEof /\ IInv /\ [Next]_vars => JoinersSentEof'
  BY NextSendsEof
<1>4. QED
  BY <1>1, <1>2, <1>3, InitIInv, NextIInv, PTL DEF Spec

(* What is ahead of a close(), and of the thread. *)
Ahead == [lock |-> 4, trailer |-> 3, eof |-> 2, join |-> 1, out |-> 0, key |-> 0, raised |-> 0]
Reads == [reading |-> 2, ending |-> 1, done |-> 0]

(* What a step of the upload uses up: a part of a close(), a write_line,   *)
(* a part of the thread, or the distance of the units to S3.               *)
UsesUp ==
  \/ \E c \in Closers : Ahead[cpc'[c]] < Ahead[cpc[c]] /\ \A d \in Closers \ {c} : cpc'[d] = cpc[d]
  \/ cpc' = cpc /\ wpc = "flush" /\ wpc' # "flush"
  \/ UNCHANGED <<cpc, wpc>> /\ Reads[thread'] < Reads[thread]
  \/ UNCHANGED <<cpc, wpc, thread>> /\ 2 * held' + pipe' < 2 * held + pipe

Called ==
  \/ wpc = "idle" /\ wpc' # "idle"
  \/ \E c \in Closers : cpc[c] = "out" /\ cpc'[c] # "out"

CallsRunOut == [][Called \/ UsesUp]_vars

(* Between two calls of its user the upload has only so many steps to      *)
(* take.  With NobodyWaitsForEver this is the safety half of WriteEnds and *)
(* CloseAnswers: scheduling alone is left to fairness.                     *)
THEOREM CallsEnd == Spec => CallsRunOut
<1>1. ASSUME IInv, Push
      PROVE  2 * held' + pipe' < 2 * held + pipe
  BY <1>1 DEF Push, IInv, Typed
<1>2. ASSUME IInv, [Next]_vars PROVE [Called \/ UsesUp]_vars
  <2>1. CASE UNCHANGED vars
    BY <2>1
  <2>2. CASE WriteLine \/ WriteRefused
    BY <2>2 DEF WriteLine, WriteRefused, Called
  <2>3. CASE WriteReturns \/ WriteBroken
    BY <2>3 DEF WriteReturns, WriteBroken, closing, UsesUp
  <2>4. CASE WriteFlush
    BY <1>1, <1>2, <2>4 DEF WriteFlush, upload, writer, closing, UsesUp
  <2>5. ASSUME NEW c \in Closers, CloseCall(c) PROVE Called
    BY <1>2, <2>5 DEF CloseCall, Called, IInv, Typed
  <2>6. ASSUME NEW c \in Closers, CloserStep(c) PROVE UsesUp
    <3>1. CASE CloseFlush(c)
      BY <1>1, <1>2, <3>1 DEF CloseFlush, upload, writer, closing, UsesUp
    <3>2. ASSUME NEW p \in {"lock", "trailer", "eof", "join"},
                 NEW q \in {"trailer", "eof", "join", "key", "raised"},
                 cpc[c] = p, cpc' = [cpc EXCEPT ![c] = q], Ahead[q] < Ahead[p]
          PROVE  UsesUp
      BY <1>2, <3>2 DEF UsesUp, IInv, Typed
    <3>3. CASE CloseAgain(c) \/ Joined(c)
      BY <3>2, <3>3 DEF CloseAgain, Joined, Answer, Ahead
    <3>4. CASE CloseFirst(c) \/ TrailerWritten(c) \/ TrailerBroken(c) \/ SendEof(c)
      BY <3>2, <3>4 DEF CloseFirst, TrailerWritten, TrailerBroken, SendEof, Ahead
    <3>5. QED
      BY <2>6, <3>1, <3>3, <3>4 DEF CloserStep
  <2>7. CASE Read
    BY <1>2, <2>7 DEF Read, upload, writer, closing, UsesUp, IInv, Typed
  <2>8. CASE UploadStored \/ UploadRaises \/ CloseReader
    BY <2>8 DEF UploadStored, UploadRaises, CloseReader, writer, closing, UsesUp, Reads
  <2>9. QED
    BY <1>2, <2>1, <2>2, <2>3, <2>4, <2>5, <2>6, <2>7, <2>8 DEF Next, WriterStep, ThreadStep, ThreadRuns
<1>3. QED
  BY <1>2, InitIInv, NextIInv, PTL DEF Spec, CallsRunOut
=============================================================================

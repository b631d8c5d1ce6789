---------------------------- MODULE StdinReader ----------------------------
(***************************************************************************)
(* open_read_and_close (tools/fapi/tss2_template.c), the input routine of *)
(* the FAPI tools.  For "-" it reads standard input 1024 bytes at a time  *)
(* into a buffer it grows by 1024 bytes after every full read; for a path *)
(* it fstats the file and reads st_size bytes in one call.                *)
(*                                                                         *)
(* Standard input is a regular file, or a pipe another process writes in  *)
(* pieces and closes; it may be in non-blocking mode (O_NONBLOCK set by    *)
(* whoever created it), where a read of an empty open pipe returns -1.    *)
(* The reader and the writer interleave.  Bytes are counted, and a read   *)
(* is recorded as a segment: the buffer offset it wrote to, the stream     *)
(* position it took the bytes from, and how many.                         *)
(***************************************************************************)
EXTENDS Naturals, Sequences, FiniteSets

CONSTANTS
    Sources,      \* subset of {"stdin_file", "stdin_pipe", "path"}
    WriteSizes,   \* the sizes of the writer's writes on the pipe
    FileSizes,    \* the sizes of a regular file on stdin or at the path
    MaxInput,     \* a bound on the bytes the writer writes
    NonBlocking,  \* stdin may be in non-blocking mode
    MaxBuffer,    \* the largest buffer realloc can provide
    SizeBits      \* the width of size_t

\* The chunk the code reads and grows by.
Chunk == 1024
SizeMax == 2^SizeBits - 1
\* read() returns ssize_t -1, stored in a size_t.
ReadError == SizeMax

VARIABLES
    source,    \* where the input comes from
    written,   \* bytes in the stream so far
    closed,    \* the writer has closed the pipe (a file is complete)
    taken,     \* stream bytes read out so far
    pc,
    consumed,  \* data_consumed
    bufSize,   \* buffer_size; the allocation is buffer_size + 1 bytes
    dataRead,  \* data_read
    segs,      \* the reads, as [at, from, len] records
    size,      \* *size
    ret        \* the return value, once pc is "done" or "error"

vars == <<source, written, closed, taken, pc, consumed, bufSize, dataRead,
          segs, size, ret>>

Init ==
    /\ source \in Sources
    /\ IF source = "stdin_pipe"
       THEN written = 0 /\ closed = FALSE
       ELSE written \in FileSizes /\ closed = TRUE
    /\ taken = 0
    /\ pc = "start"
    /\ consumed = 0
    /\ bufSize = 0
    /\ dataRead = 0
    /\ segs = <<>>
    /\ size = 0
    /\ ret = 0

Fail == pc' = "error" /\ ret' = 1

-----------------------------------------------------------------------------
(* The other end of the pipe: a process that writes and finally closes. *)

WriterWrite ==
    /\ source = "stdin_pipe"
    /\ ~closed
    /\ \E n \in WriteSizes : written + n <= MaxInput /\ written' = written + n
    /\ UNCHANGED <<source, closed, taken, pc, consumed, bufSize, dataRead,
                   segs, size, ret>>

WriterClose ==
    /\ source = "stdin_pipe"
    /\ ~closed
    /\ closed' = TRUE
    /\ UNCHANGED <<source, written, taken, pc, consumed, bufSize, dataRead,
                   segs, size, ret>>

-----------------------------------------------------------------------------
(* Standard input. *)

\* malloc(buffer_size + 1) with buffer_size = 1024.
MallocStdin ==
    /\ pc = "start"
    /\ source # "path"
    /\ \/ bufSize' = Chunk /\ pc' = "read" /\ UNCHANGED ret
       \/ Fail /\ UNCHANGED bufSize
    /\ UNCHANGED <<source, written, closed, taken, consumed, dataRead, segs, size>>

\* What read(STDIN_FILENO, *input + data_consumed, 1024) can return: what
\* the stream holds, up to 1024 bytes; 0 at its end; -1 on an empty open
\* pipe in non-blocking mode.  On an empty open pipe in blocking mode the
\* call waits for the writer: there is no result yet.
ReadResults ==
    LET avail == written - taken
    IN  IF avail > 0 THEN {IF avail < Chunk THEN avail ELSE Chunk}
        ELSE IF closed THEN {0}
        ELSE IF NonBlocking THEN {ReadError}
        ELSE {}

\* A read of r bytes to buffer offset at, recorded as a segment.
ReadInto(at, r) ==
    /\ dataRead' = r
    /\ IF r \in 1..Chunk
       THEN /\ segs' = Append(segs, [at |-> at, from |-> taken, len |-> r])
            /\ taken' = taken + r
       ELSE UNCHANGED <<segs, taken>>
    /\ pc' = IF r = 0 THEN "term" ELSE "body"

\* A plausible slip: every read goes to the start of the buffer.
ReadStdinAtStart ==
    /\ pc = "read"
    /\ \E r \in ReadResults : ReadInto(0, r)
    /\ UNCHANGED <<source, written, closed, consumed, bufSize, size, ret>>

\* data_read = read(STDIN_FILENO, *input + data_consumed, 1024); a zero
\* result leaves the loop.
ReadStdin ==
    /\ pc = "read"
    /\ \E r \in ReadResults : ReadInto(consumed, r)
    /\ UNCHANGED <<source, written, closed, consumed, bufSize, size, ret>>

\* A plausible slip: the buffer is reallocated without growing it.
LoopBodyNoGrow ==
    /\ pc = "body"
    /\ consumed' = (consumed + dataRead) % (SizeMax + 1)
    /\ IF dataRead < Chunk
       THEN pc' = "term" /\ UNCHANGED <<bufSize, ret>>
       ELSE \/ pc' = "read" /\ UNCHANGED <<bufSize, ret>>
            \/ Fail /\ UNCHANGED bufSize
    /\ UNCHANGED <<source, written, closed, taken, dataRead, segs, size>>

\* A plausible slip: the buffer grows by less than the chunk read.
LoopBodyGrowBy1000 ==
    /\ pc = "body"
    /\ consumed' = (consumed + dataRead) % (SizeMax + 1)
    /\ IF dataRead < Chunk
       THEN pc' = "term" /\ UNCHANGED <<bufSize, ret>>
       ELSE \/ bufSize + 1000 <= MaxBuffer /\ bufSize' = bufSize + 1000
               /\ pc' = "read" /\ UNCHANGED ret
            \/ Fail /\ UNCHANGED bufSize
    /\ UNCHANGED <<source, written, closed, taken, dataRead, segs, size>>

\* data_consumed += data_read (modulo 2^SizeBits: -1 wraps); a read short
\* of 1024 is taken for the end of input; otherwise the buffer grows by
\* 1024 and realloc may fail.
LoopBody ==
    /\ pc = "body"
    /\ consumed' = (consumed + dataRead) % (SizeMax + 1)
    /\ IF dataRead < Chunk
       THEN pc' = "term" /\ UNCHANGED <<bufSize, ret>>
       ELSE \/ bufSize + Chunk <= MaxBuffer /\ bufSize' = bufSize + Chunk
               /\ pc' = "read" /\ UNCHANGED ret
            \/ Fail /\ UNCHANGED bufSize
    /\ UNCHANGED <<source, written, closed, taken, dataRead, segs, size>>

\* *size = data_consumed; (*input)[data_consumed] = 0; return 0.
Terminate ==
    /\ pc = "term"
    /\ size' = consumed
    /\ pc' = "done"
    /\ ret' = 0
    /\ UNCHANGED <<source, written, closed, taken, consumed, bufSize, dataRead, segs>>

-----------------------------------------------------------------------------
(* A path: open, fstat, *size = st_size, malloc(st_size + 1), one read of *)
(* st_size bytes, close.  Each call may fail, and every failure returns 1 *)
(* after the cleanup of what came before.  Nothing else runs between the  *)
(* calls, so they are one step.                                           *)
ReadPath ==
    /\ pc = "start"
    /\ source = "path"
    /\ \/ /\ size' = written
          /\ bufSize' = written
          /\ segs' = <<[at |-> 0, from |-> 0, len |-> written]>>
          /\ taken' = written
          /\ consumed' = written
          /\ pc' = "done"
          /\ ret' = 0
       \/ Fail /\ UNCHANGED <<size, bufSize, segs, taken, consumed>>
    /\ UNCHANGED <<source, written, closed, dataRead>>

-----------------------------------------------------------------------------
Reader ==
    \/ MallocStdin
    \/ ReadStdin
    \/ LoopBody
    \/ Terminate
    \/ ReadPath

Next == Reader \/ WriterWrite \/ WriterClose

\* The reader runs whenever it can; the writer is another process that may
\* stop at any point, so it has no fairness.
Spec == Init /\ [][Next]_vars /\ WF_vars(Reader)

-----------------------------------------------------------------------------
TypeOK ==
    /\ source \in Sources
    /\ taken \in 0..written
    /\ consumed \in 0..SizeMax
    /\ bufSize \in {Chunk * k : k \in 0..(MaxBuffer \div Chunk)} \cup FileSizes
    /\ dataRead \in 0..Chunk \cup {ReadError}
    /\ ret \in {0, 1}

\* Memory safety of the stdin loop: every read() is handed a destination
\* range, *input + data_consumed for 1024 bytes, inside the buffer of
\* buffer_size + 1 bytes, and the terminating zero at *input[data_consumed]
\* lands inside it too.
ReadWithinBuffer ==
    /\ pc = "read" => consumed + Chunk <= bufSize + 1
    /\ pc = "term" => consumed <= bufSize

\* The buffer holds the stream from its start: the segments lie end to end
\* from offset 0, each at the offset equal to the stream position it was
\* read from, and they add up to n bytes.
Tiles(s, n) ==
    /\ \A i \in 1..Len(s) : s[i].at = s[i].from
    /\ \A i \in 1..Len(s) : s[i].at = IF i = 1 THEN 0 ELSE s[i - 1].at + s[i - 1].len
    /\ n = IF s = <<>> THEN 0 ELSE s[Len(s)].at + s[Len(s)].len

\* The refinement mapping: what the caller gets back.
Result ==
    CASE pc = "done" -> IF Tiles(segs, size) THEN <<"ok", size>> ELSE <<"garbled">>
      [] pc = "error" -> <<"error">>
      [] OTHER -> <<"none">>

\* Here the routine is what runs: it has been called from the start.
Abstract == INSTANCE ReadInput WITH result <- Result, called <- TRUE

\* open_read_and_close implements ReadInput: it returns the whole input
\* in order and only after the input has ended, or fails; and once the
\* input has ended it returns.
ReadInputSpec == Abstract!Spec
====

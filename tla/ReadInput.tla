----------------------------- MODULE ReadInput -----------------------------
(***************************************************************************)
(* What open_read_and_close (tools/fapi/tss2_template.c) promises its     *)
(* callers, tss2_encrypt, tss2_pcrextend and the other FAPI tools: it      *)
(* returns 0 with *input holding every byte of its source up to the end,  *)
(* in order, and *size their number; or it returns 1.                     *)
(*                                                                         *)
(* The source is a byte stream.  A regular file or a path is complete     *)
(* from the start; a pipe is written by another process, in pieces, until *)
(* that process closes it.  Bytes are named by their position in the      *)
(* stream, so a result is correct exactly when it is the number of bytes  *)
(* written when the stream ended.  The routine is called at most once,   *)
(* and may never be: a caller that fails earlier does not read at all.   *)
(***************************************************************************)
EXTENDS Naturals

CONSTANTS
    WriteSizes,   \* the sizes of the writes of the process on the pipe
    FileSizes,    \* the sizes of complete sources
    MaxInput      \* a bound on the bytes the writer writes

VARIABLES
    written,  \* bytes in the stream so far
    closed,   \* the stream has ended
    result,   \* <<"none">>, <<"error">>, or <<"ok", n>>: n bytes returned
    called    \* the caller has called the routine

vars == <<written, closed, result, called>>

Init ==
    /\ \/ written = 0 /\ closed = FALSE
       \/ written \in FileSizes /\ closed = TRUE
    /\ result = <<"none">>
    /\ called \in BOOLEAN

\* The other process writes to the pipe, or closes it.
Write ==
    /\ ~closed
    /\ \E n \in WriteSizes : written + n <= MaxInput /\ written' = written + n
    /\ UNCHANGED <<closed, result, called>>
Close ==
    /\ ~closed
    /\ closed' = TRUE
    /\ UNCHANGED <<written, result, called>>

\* The caller calls the routine.
Call ==
    /\ ~called
    /\ called' = TRUE
    /\ UNCHANGED <<written, closed, result>>

\* The call returns the whole stream, once it has ended.
Return ==
    /\ called
    /\ result = <<"none">>
    /\ closed
    /\ result' = <<"ok", written>>
    /\ UNCHANGED <<written, closed, called>>

\* The call fails.
Fail ==
    /\ called
    /\ result = <<"none">>
    /\ result' = <<"error">>
    /\ UNCHANGED <<written, closed, called>>

Next == Write \/ Close \/ Call \/ Return \/ Fail

\* Once the stream has ended a call does not wait forever.
Spec == Init /\ [][Next]_vars /\ WF_vars(Return)
====

-------------------------------- MODULE Send --------------------------------
(***************************************************************************)
(* tpm2_send (tools/tpm2_send.c): read a TPM command from a file or stdin *)
(* in two freads (the 10-byte header, then the body the header's size     *)
(* announces), check the sizes, transmit it through the TCTI, receive the *)
(* response and write it out.                                              *)
(*                                                                         *)
(* Bytes are not named one by one: a command buffer is its size and the   *)
(* number of its leading bytes that came from the input; the bytes after  *)
(* those are what malloc or the stack held.  A header fread that hits end *)
(* of file leaves the header buffer partly uninitialized, so its size     *)
(* field is any value the leftover stack bytes make.                      *)
(***************************************************************************)
EXTENDS Naturals

CONSTANTS
    FileLens,      \* lengths of the input
    SizeFields,    \* size fields of the input's header
    GarbageSizes,  \* size fields an uninitialized header buffer can hold
    MaxSize,       \* TPM2_MAX_SIZE
    InputArgs,     \* numbers of input paths given on the command line
    CloseMayFail   \* the fclose that flushes the output may fail

\* TPM2_COMMAND_HEADER_SIZE: tag (2), size (4), command code (4).
HeaderSize == 10

VARIABLES
    outArg,    \* -o given: the output is a file rather than stdout
    inArgs,    \* the number of input paths given
    fileLen,   \* the input's length
    sizeField, \* the size field the input's header holds
    cmdSize,   \* command_size, the header's size field as read
    valid,     \* leading bytes of the command buffer read from the input
    extent,    \* bytes written into the command buffer malloc(command_size)
    sent,      \* what Tss2_Tcti_Transmit was given: [size, valid], or none
    response,  \* the response in the output: "none", "buffered", "flushed", "lost"
    pc,
    rc

vars == <<outArg, inArgs, fileLen, sizeField, cmdSize, valid, extent, sent,
          response, pc, rc>>

NoCmd == [size |-> 0, valid |-> 0]

Init ==
    /\ outArg \in BOOLEAN
    /\ inArgs \in InputArgs
    /\ fileLen \in FileLens
    /\ sizeField \in SizeFields
    /\ cmdSize = 0
    /\ valid = 0
    /\ extent = 0
    /\ sent = NoCmd
    /\ response = "none"
    /\ pc = "options"
    /\ rc = "none"

\* onrun leaves through out_files, which closes the input and the output.
Exit(r) == pc' = "close" /\ rc' = r

\* tpm2_command_header_get_size(header, false): the size less the header,
\* in UINT32.  For a size below 10 it wraps to 2^32 - 10 + size, which
\* TLC's integers do not hold; only its comparison with the size is used.
DataSize(size) == size - HeaderSize
\* command_size < data_size: true exactly when the subtraction wrapped.
DataExceedsCommand(size) == size < HeaderSize

-----------------------------------------------------------------------------
\* on_option for -o: fopen(path, "wb"), whose failure fails the options;
\* on_args: more than one path fails, one path is opened with fopen(...,
\* "rb"), which may fail; without one the input is stdin.
Options ==
    /\ pc = "options"
    /\ \/ /\ outArg \/ inArgs = 1
          /\ pc' = "done" /\ rc' = "option_error"
       \/ /\ inArgs > 1
          /\ pc' = "done" /\ rc' = "option_error"
       \/ /\ inArgs <= 1
          /\ pc' = "header" /\ UNCHANGED rc
    /\ UNCHANGED <<outArg, inArgs, fileLen, sizeField, cmdSize, valid, extent,
                   sent, response>>

\* A plausible slip: the command_size < data_size test left out.
ReadHeaderNoWrapCheck ==
    /\ pc = "header"
    /\ \/ Exit("general_error") /\ UNCHANGED <<cmdSize, valid, extent>>
       \/ \E size \in IF fileLen >= HeaderSize THEN {sizeField}
                      ELSE {sizeField} \cup GarbageSizes :
             /\ cmdSize' = size
             /\ IF size > MaxSize
                THEN Exit("general_error") /\ UNCHANGED <<valid, extent>>
                ELSE /\ valid' = IF fileLen >= HeaderSize THEN HeaderSize ELSE fileLen
                     /\ extent' = HeaderSize
                     /\ pc' = "body" /\ UNCHANGED rc
    /\ UNCHANGED <<outArg, inArgs, fileLen, sizeField, sent, response>>

\* fread(buffer, 10, 1, f): ret != 1 is an error only if ferror is set.
\* At end of file the buffer's size field is the input's if the input
\* holds it, and any value otherwise.  Then the two size checks, the
\* malloc of command_size, each returning false, and the memcpy of the
\* 10 header bytes into it.
ReadHeader ==
    /\ pc = "header"
    /\ \/ Exit("general_error") /\ UNCHANGED <<cmdSize, valid, extent>>
       \/ \E size \in IF fileLen >= HeaderSize THEN {sizeField}
                      ELSE {sizeField} \cup GarbageSizes :
             /\ cmdSize' = size
             /\ IF size > MaxSize \/ DataExceedsCommand(size)
                THEN Exit("general_error") /\ UNCHANGED <<valid, extent>>
                ELSE \/ /\ valid' = IF fileLen >= HeaderSize THEN HeaderSize ELSE fileLen
                        /\ extent' = HeaderSize
                        /\ pc' = "body" /\ UNCHANGED rc
                     \/ Exit("general_error") /\ UNCHANGED <<valid, extent>>
    /\ UNCHANGED <<outArg, inArgs, fileLen, sizeField, sent, response>>

\* A plausible slip: the body counted as data_size bytes, read or not.
ReadBodyCountsRequested ==
    /\ pc = "body"
    /\ LET left == IF fileLen >= HeaderSize THEN fileLen - HeaderSize ELSE 0
           got  == IF left < DataSize(cmdSize) THEN left ELSE DataSize(cmdSize)
       IN /\ extent' = extent + got
          /\ \/ valid' = valid + DataSize(cmdSize) /\ pc' = "transmit" /\ UNCHANGED rc
             \/ Exit("general_error") /\ UNCHANGED valid
    /\ UNCHANGED <<outArg, inArgs, fileLen, sizeField, cmdSize, sent, response>>

\* fread(command->data, data_size, 1, f): it stores what the input had
\* left, up to data_size; a short read that is not an I/O error is
\* accepted.
ReadBody ==
    /\ pc = "body"
    /\ LET left == IF fileLen >= HeaderSize THEN fileLen - HeaderSize ELSE 0
           got  == IF left < DataSize(cmdSize) THEN left ELSE DataSize(cmdSize)
       IN /\ extent' = extent + got
          /\ \/ valid' = valid + got /\ pc' = "transmit" /\ UNCHANGED rc
             \/ Exit("general_error") /\ UNCHANGED valid
    /\ UNCHANGED <<outArg, inArgs, fileLen, sizeField, cmdSize, sent, response>>

\* Esys_GetTcti, then Tss2_Tcti_Transmit of size bytes of the buffer.
Transmit ==
    /\ pc = "transmit"
    /\ \/ Exit("from_tpm") /\ UNCHANGED sent
       \/ /\ sent' = [size |-> cmdSize, valid |-> valid]
          /\ \/ pc' = "receive" /\ UNCHANGED rc
             \/ Exit("general_error")
    /\ UNCHANGED <<outArg, inArgs, fileLen, sizeField, cmdSize, valid, extent,
                   response>>

\* A plausible slip: a failed write_response_to_file still reported as
\* success.
ReceiveAndWriteIgnoringWrite ==
    /\ pc = "receive"
    /\ \/ Exit("from_tpm") /\ UNCHANGED response
       \/ response' = "buffered" /\ Exit("success")
       \/ Exit("success") /\ UNCHANGED response
    /\ UNCHANGED <<outArg, inArgs, fileLen, sizeField, cmdSize, valid, extent, sent>>

\* Tss2_Tcti_Receive, then write_response_to_file (fwrite into the
\* output's stdio buffer); a failed write leaves rc at general_error.
ReceiveAndWrite ==
    /\ pc = "receive"
    /\ \/ Exit("from_tpm") /\ UNCHANGED response
       \/ response' = "buffered" /\ Exit("success")
       \/ Exit("general_error") /\ UNCHANGED response
    /\ UNCHANGED <<outArg, inArgs, fileLen, sizeField, cmdSize, valid, extent, sent>>

\* out: free(command); out_files: close_file of the input and the output.
\* Its test (f != stdin || f != stdout) always holds, so stdin and stdout
\* are closed too; the fclose that flushes the response is not checked.
CloseFiles ==
    /\ pc = "close"
    /\ IF response = "buffered"
       THEN response' \in IF CloseMayFail THEN {"flushed", "lost"} ELSE {"flushed"}
       ELSE UNCHANGED response
    /\ pc' = "done"
    /\ UNCHANGED <<outArg, inArgs, fileLen, sizeField, cmdSize, valid, extent,
                   sent, rc>>

Next == Options \/ ReadHeader \/ ReadBody \/ Transmit \/ ReceiveAndWrite \/ CloseFiles

Spec == Init /\ [][Next]_vars

-----------------------------------------------------------------------------
TypeOK ==
    /\ cmdSize \in {0} \cup SizeFields \cup GarbageSizes
    /\ valid \in 0..extent
    /\ response \in {"none", "buffered", "flushed", "lost"}
    /\ pc \in {"options", "header", "body", "transmit", "receive", "close", "done"}
    /\ rc \in {"none", "success", "general_error", "option_error", "from_tpm"}

\* The command buffer is never overrun: the header memcpy and the body
\* fread store no more than the command_size bytes malloc gave, whatever
\* size field the header holds, uninitialized or wrapping data_size.
BufferWritesFit == extent <= cmdSize

\* tpm2_send reports success only with the TPM's response in the output:
\* when the tool has finished with tool_rc_success, a command was
\* transmitted and its response written and flushed.
SuccessMeansResponseWritten ==
    pc = "done" /\ rc = "success" => sent # NoCmd /\ response = "flushed"

\* What the code's comment says the tool does, "reads a TPM command buffer
\* ... then dumps it out to a tabd TCTI": every byte of a transmitted
\* command is a byte of the input, none of it left over in the buffers.
TransmitsCommandFile ==
    sent # NoCmd => sent.valid = sent.size
====

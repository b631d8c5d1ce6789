------------------------------ MODULE FapiTool ------------------------------
(***************************************************************************)
(* A FAPI tool process (tools/fapi/tss2_template.c main and the           *)
(* tss2_tool_onrun of tss2_encrypt, tss2_nvwrite, tss2_pcrextend and      *)
(* tss2_setappdata): the FAPI context and callbacks, option handling, the *)
(* tool's checks, its input read by open_read_and_close (StdinReader,     *)
(* with the process writing the pipe running alongside), the one FAPI     *)
(* call, for tss2_encrypt the output written by open_write_and_close, and *)
(* Fapi_Finalize.                                                          *)
(*                                                                         *)
(* An invocation is the tool and the set of options given: "key" (the     *)
(* required path: --keyPath, --nvPath, --pcr or --path), "in" (--plainText,*)
(* --data or --appData; "-" when the reader's source is standard input),  *)
(* "out" (--cipherText), "force", "log" and "log_stdin" (--logData with a *)
(* path or "-"), "version", "bad" (an unknown option) and the four forms  *)
(* of -h: "help" (the last word), "help_man" (-h man), "help_noman" (-h   *)
(* no-man) and "help_other" (-h followed by another word).               *)
(***************************************************************************)
EXTENDS Naturals

CONSTANTS
    Sources, WriteSizes, FileSizes, MaxInput, NonBlocking, MaxBuffer, SizeBits,
    Invocations,  \* records [tool, args]
    ManOutcomes   \* what the forked child of execute_man can do

VARIABLES
    source, written, closed, taken, rPc, consumed, bufSize, dataRead, segs,
    size, rRet,   \* open_read_and_close and the pipe's writer
    tool, args,   \* the invocation
    tPc,
    ret,          \* the exit status
    fctx,         \* the FAPI context: "none", "open", "final"
    called,       \* open_read_and_close has been called for the input
    data,         \* what it returned, as ReadInput's result
    fapiArg,      \* the data the FAPI call was given
    outFile,      \* the --cipherText file
    child,        \* the child execute_man forks: "none", "forked", "exited"
    childStatus,  \* its exit status
    shown         \* the help shown on the terminal: "man", "usage"

R == INSTANCE StdinReader WITH pc <- rPc, ret <- rRet

readerVars == <<source, written, closed, taken, rPc, consumed, bufSize,
                dataRead, segs, size, rRet>>
helpVars == <<child, childStatus, shown>>
toolVars == <<tool, args, tPc, ret, fctx, called, data, fapiArg, outFile, helpVars>>
vars == <<readerVars, toolVars>>

NoArg == <<"none">>
OldFile == <<"old">>
NoFile == <<"nofile">>
\* What Fapi_Encrypt returns for a plaintext.
Cipher(plain) == <<"cipher", plain>>

Init ==
    /\ R!Init
    /\ \E inv \in Invocations : tool = inv.tool /\ args = inv.args
    /\ tPc = "init"
    /\ ret = 1
    /\ fctx = "none"
    /\ called = FALSE
    /\ data = NoArg
    /\ fapiArg = NoArg
    /\ outFile \in {NoFile, OldFile}
    /\ child = "none"
    /\ childStatus = 0
    /\ shown = {}

StdinIn == source # "path"
Exit(r) == ret' = r /\ tPc' = "finalize"

-----------------------------------------------------------------------------
HelpArgs == {"help", "help_man", "help_noman", "help_other"}
HelpAsked == args \cap HelpArgs # {}

\* tss2_handle_options: -h goes on to the help (below); -v prints the
\* version, unless Fapi_GetInfo fails; an unknown option, a failed
\* allocation or a rejected value is an error.
OptionCodes ==
    IF HelpAsked THEN {"help", "err"}
    ELSE IF "version" \in args THEN {"stop", "err"}
    ELSE IF "bad" \in args THEN {"err"}
    ELSE {"continue", "err"}

\* main up to tss2_tool_onrun: ctx_init (Fapi_Initialize), then
\* Fapi_SetAuthCB and Fapi_SetBranchCB, then the options; every exit
\* after ctx_init calls Fapi_Finalize.
Start ==
    /\ tPc = "init"
    /\ \/ tPc' = "exit" /\ UNCHANGED <<ret, fctx>>
       \/ fctx' = "final" /\ tPc' = "exit" /\ UNCHANGED ret
       \/ \E code \in OptionCodes :
             IF code \in {"continue", "help"}
             THEN /\ fctx' = "open" /\ UNCHANGED ret
                  /\ tPc' = IF code = "help" THEN "help" ELSE "onrun"
             ELSE /\ fctx' = "final" /\ tPc' = "exit"
                  /\ ret' = IF code = "stop" THEN 0 ELSE 1
    /\ UNCHANGED <<readerVars, tool, args, called, data, fapiArg, outFile, helpVars>>

-----------------------------------------------------------------------------
(* The help of -h: tss2_handle_options and execute_man.                   *)

Usage == {"usage"}

\* The out: label: with the manpager, the usage is printed only when
\* execute_man returned false.
ShowUsageUnless(manResult) == IF manResult THEN shown ELSE shown \cup Usage

\* case 'h': a word after -h other than "man" or "no-man" clears
\* show_help and is an error; "no-man" prints the usage; otherwise
\* execute_man runs, its errors shown only for "-h man".
HandleHelp ==
    /\ tPc = "help"
    /\ \/ "help_other" \in args /\ Exit(1) /\ UNCHANGED shown
       \/ "help_noman" \in args /\ shown' = ShowUsageUnless(FALSE) /\ Exit(0)
       \/ args \cap {"help", "help_man"} # {} /\ tPc' = "man" /\ UNCHANGED <<ret, shown>>
    /\ UNCHANGED <<readerVars, tool, args, fctx, called, data, fapiArg, outFile,
                   child, childStatus>>

\* execute_man: fork; a failed fork returns false.
ExecuteMan ==
    /\ tPc = "man"
    /\ \/ shown' = ShowUsageUnless(FALSE) /\ Exit(0) /\ UNCHANGED child
       \/ child' = "forked" /\ tPc' = "wait" /\ UNCHANGED <<ret, shown>>
    /\ UNCHANGED <<readerVars, tool, args, fctx, called, data, fapiArg, outFile,
                   childStatus>>

\* The child: without "-h man" it opens /dev/null for its stderr, and a
\* failed open returns false from execute_man in the child, which then
\* prints the usage and leaves main with 0; otherwise execlp("man"),
\* which shows the page and exits 0, or finds none and exits 1, or
\* fails and falls through to "return true": the child leaves main
\* with 0 having shown nothing.
ManChild ==
    /\ child = "forked"
    /\ \E o \in ManOutcomes :
          /\ o = "devnull_fail" => "help_man" \notin args
          /\ shown' = CASE o = "devnull_fail" -> shown \cup Usage
                         [] o = "man_ok"       -> shown \cup {"man"}
                         [] OTHER              -> shown
          /\ childStatus' = IF o = "man_fail" THEN 1 ELSE 0
    /\ child' = "exited"
    /\ UNCHANGED <<readerVars, tool, args, tPc, ret, fctx, called, data, fapiArg,
                   outFile>>

\* A plausible slip: the parent takes any exit of the child as success.
WaitManIgnoringStatus ==
    /\ tPc = "wait"
    /\ \/ child = "exited" /\ shown' = ShowUsageUnless(TRUE)
       \/ shown' = ShowUsageUnless(FALSE)
    /\ Exit(0)
    /\ UNCHANGED <<readerVars, tool, args, fctx, called, data, fapiArg, outFile,
                   child, childStatus>>

\* The parent: waitpid for the child, then execute_man returns whether it
\* exited 0; a failed waitpid returns false at once.
WaitMan ==
    /\ tPc = "wait"
    /\ \/ child = "exited" /\ shown' = ShowUsageUnless(childStatus = 0)
       \/ shown' = ShowUsageUnless(FALSE)
    /\ Exit(0)
    /\ UNCHANGED <<readerVars, tool, args, fctx, called, data, fapiArg, outFile,
                   child, childStatus>>

\* The options each tss2_tool_onrun requires; without them it returns -1
\* and main prints the usage and exits 1.
Required ==
    CASE tool = "encrypt"    -> {"key", "in", "out"}
      [] tool = "nvwrite"    -> {"key", "in"}
      [] tool = "pcrextend"  -> {"key", "in"}
      [] tool = "setappdata" -> {"key"}

\* tss2_pcrextend: only one of --data and --logData may be "-".
StdinTwice == tool = "pcrextend" /\ StdinIn /\ "log_stdin" \in args

CheckOptions ==
    /\ tPc = "onrun"
    /\ IF ~(Required \subseteq args) \/ StdinTwice
       THEN Exit(1) /\ UNCHANGED called
       ELSE IF "in" \in args
       THEN tPc' = "read" /\ called' = TRUE /\ UNCHANGED ret
       ELSE tPc' = "fapi" /\ UNCHANGED <<ret, called>>
    /\ UNCHANGED <<readerVars, tool, args, fctx, data, fapiArg, outFile, helpVars>>

\* A step of open_read_and_close while the tool waits for it.
Read ==
    /\ tPc = "read"
    /\ R!Reader
    /\ UNCHANGED toolVars

\* The process writing the pipe runs on its own.
Writer ==
    /\ R!WriterWrite \/ R!WriterClose
    /\ UNCHANGED toolVars

\* A plausible slip: the return of open_read_and_close not checked.
AfterReadIgnoringError ==
    /\ tPc = "read"
    /\ rPc \in {"done", "error"}
    /\ data' = R!Result
    /\ tPc' = "fapi"
    /\ UNCHANGED <<readerVars, tool, args, ret, fctx, called, fapiArg, outFile, helpVars>>

\* open_read_and_close has returned: a failure ends the tool with 1 (a
\* -1 and the usage from tss2_pcrextend); then --logData, read from its
\* path in one step, for tss2_pcrextend.
AfterRead ==
    /\ tPc = "read"
    /\ rPc \in {"done", "error"}
    /\ data' = R!Result
    /\ IF rPc = "error"
       THEN Exit(1)
       ELSE IF tool = "pcrextend" /\ args \cap {"log", "log_stdin"} # {}
       THEN \/ tPc' = "fapi" /\ UNCHANGED ret
            \/ Exit(1)
       ELSE tPc' = "fapi" /\ UNCHANGED ret
    /\ UNCHANGED <<readerVars, tool, args, fctx, called, fapiArg, outFile, helpVars>>

\* The data the tool hands to FAPI: what open_read_and_close returned, or
\* for tss2_setappdata without --appData, NULL and size 0.
NoData == <<"ok", 0>>
FapiInput == IF "in" \in args THEN data ELSE NoData

\* Fapi_Encrypt, Fapi_NvWrite, Fapi_PcrExtend or Fapi_SetAppData: a
\* failure returns 1; tss2_encrypt goes on to write the ciphertext, the
\* others return 0.
FapiCall ==
    /\ tPc = "fapi"
    /\ fapiArg' = FapiInput
    /\ \/ Exit(1)
       \/ IF tool = "encrypt" THEN tPc' = "write" /\ UNCHANGED ret ELSE Exit(0)
    /\ UNCHANGED <<readerVars, tool, args, fctx, called, data, outFile, helpVars>>

\* open_write_and_close(cipherText, overwrite, ...) for a path: open with
\* O_CREAT|O_WRONLY|O_TRUNC, and O_EXCL unless --force, so an existing
\* file without --force fails with EEXIST; any open may fail.  An opened
\* file is empty; a write of -1 leaves it so, a short write unlinks it,
\* and close may fail after a whole write.
WriteOutput ==
    /\ tPc = "write"
    /\ \/ Exit(1) /\ UNCHANGED outFile
       \/ /\ outFile = NoFile \/ "force" \in args
          /\ \/ outFile' = <<"empty">> /\ Exit(1)
             \/ outFile' = NoFile /\ Exit(1)
             \/ outFile' = Cipher(fapiArg) /\ (Exit(0) \/ Exit(1))
    /\ UNCHANGED <<readerVars, tool, args, fctx, called, data, fapiArg, helpVars>>

\* Fapi_Finalize after tss2_tool_onrun; a return below 0 has become 1.
Finalize ==
    /\ tPc = "finalize"
    /\ fctx' = "final"
    /\ tPc' = "exit"
    /\ UNCHANGED <<readerVars, tool, args, ret, called, data, fapiArg, outFile, helpVars>>

Next ==
    \/ Start
    \/ HandleHelp
    \/ ExecuteMan
    \/ ManChild
    \/ WaitMan
    \/ CheckOptions
    \/ Read
    \/ Writer
    \/ AfterRead
    \/ FapiCall
    \/ WriteOutput
    \/ Finalize

\* The tool, its man child and open_read_and_close run whenever they can;
\* the process on the pipe may stop at any point.
Spec == Init /\ [][Next]_vars /\ WF_vars(Start \/ HandleHelp \/ ExecuteMan \/ ManChild \/ WaitMan
                                         \/ CheckOptions \/ Read \/ AfterRead
                                         \/ FapiCall \/ WriteOutput \/ Finalize)

-----------------------------------------------------------------------------
TypeOK ==
    /\ R!TypeOK
    /\ tPc \in {"init", "help", "man", "wait", "onrun", "read", "fapi", "write",
                "finalize", "exit"}
    /\ child \in {"none", "forked", "exited"}
    /\ childStatus \in {0, 1}
    /\ shown \subseteq {"man", "usage"}
    /\ ret \in {0, 1}
    /\ fctx \in {"none", "open", "final"}
    /\ called \in BOOLEAN
    /\ outFile \in {NoFile, OldFile, <<"empty">>} \/ outFile[1] = "cipher"

ReadWithinBuffer == R!ReadWithinBuffer

\* open_read_and_close, as the FAPI tools call it, implements ReadInput:
\* called once the tool's checks have passed, or never, it returns the
\* whole input once the input has ended, or fails.
Abstract == INSTANCE ReadInput WITH result <- R!Result, called <- called
ReadInputSpec == Abstract!Spec

\* A FAPI tool that exits 0 did its work: unless -h or -v was asked for,
\* it closed its FAPI context, handed FAPI the whole of its input (all
\* the bytes written before the input ended), and tss2_encrypt left the
\* ciphertext of exactly that input in the --cipherText file.
SuccessMeansOutput ==
    tPc = "exit" /\ ret = 0 /\ ~HelpAsked /\ "version" \notin args =>
        /\ fctx = "final"
        /\ fapiArg = IF "in" \in args THEN <<"ok", written>> ELSE NoData
        /\ closed \/ "in" \notin args
        /\ tool = "encrypt" => outFile = Cipher(fapiArg)

\* -h, -h man and -h no-man show help: the comment at the out: label of
\* tss2_handle_options says a manpager that succeeds shows the page and
\* one that fails, or no manpager, shows the short usage.  A FAPI tool
\* asked for help that exits 0 has, by itself or by the child execute_man
\* forked, shown the man page or the usage.
HelpShown ==
    tPc = "exit" /\ ret = 0 /\ HelpAsked => shown # {}
====

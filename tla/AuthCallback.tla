---------------------------- MODULE AuthCallback ----------------------------
(***************************************************************************)
(* auth_callback (tools/fapi/tss2_template.c), which FAPI calls for the   *)
(* password of an object: free the previous password, save the terminal  *)
(* mode and turn echo off, install signal_termio_restore for SIGTERM and *)
(* SIGINT, read a line with getline, restore the terminal and the default *)
(* handlers, and hand FAPI the line with its last character cut.          *)
(*                                                                         *)
(* A signal may arrive once, at any point: with the default action it    *)
(* ends the process; with the handler installed it restores the terminal  *)
(* and interrupts getline (sigaction without SA_RESTART).                 *)
(***************************************************************************)
EXTENDS Naturals, Sequences, StdinTokens, SequencesExt

CONSTANTS
    Inputs,   \* what standard input holds
    Signals   \* a SIGINT or SIGTERM may arrive

VARIABLES
    input, pos,  \* standard input and the next token stdio reads
    echo,        \* the terminal echoes (and is canonical)
    handler,     \* the SIGINT/SIGTERM action: "dfl" or "restore"
    password,    \* the global password buffer, or NoPw
    line,        \* what getline read, or NoLine for -1
    auth,        \* what *auth was set to, or the failure returned
    signalled,   \* the signal has arrived
    pc

vars == <<input, pos, echo, handler, password, line, auth, signalled, pc>>

NoPw == <<"null">>
NoLine == <<"eof">>
Failed == <<"failed">>
NoAuth == <<"none">>

Init ==
    /\ input \in Inputs
    /\ pos = 1
    /\ echo = TRUE
    /\ handler = "dfl"
    /\ password = NoPw
    /\ line = NoLine
    /\ auth = NoAuth
    /\ signalled = FALSE
    /\ pc = "start"

\* free(password); tcgetattr(old); new = old without ICANON and ECHO; the
\* prompt; tcsetattr(new).
EchoOff ==
    /\ pc = "start"
    /\ password' = NoPw
    /\ echo' = FALSE
    /\ pc' = "handlers"
    /\ UNCHANGED <<input, pos, handler, line, auth, signalled>>

\* sigaction(SIGTERM) and sigaction(SIGINT) with signal_termio_restore.
InstallHandlers ==
    /\ pc = "handlers"
    /\ handler' = "restore"
    /\ pc' = "getline"
    /\ UNCHANGED <<input, pos, echo, password, line, auth, signalled>>

\* getline(&password, &input_size, stdin): -1 at end of input, otherwise
\* the line up to and including its newline, or to the end of input.
Getline ==
    /\ pc = "getline"
    /\ IF pos > Len(input)
       THEN line' = NoLine /\ UNCHANGED <<pos, password>>
       ELSE /\ line' = LineFrom(input, pos)
            /\ password' = line'
            /\ pos' = pos + Len(line')
    /\ pc' = "restore"
    /\ UNCHANGED <<input, echo, handler, auth, signalled>>

\* tcsetattr(old); SIG_DFL for both signals; on -1 free the password and
\* return TSS2_TCTI_RC_GENERAL_FAILURE; otherwise password[getline_ret - 1]
\* = '\0' and *auth is the password (FAPI 3) or a strdup of it.
Restore ==
    /\ pc = "restore"
    /\ echo' = TRUE
    /\ handler' = "dfl"
    /\ IF line = NoLine
       THEN password' = NoPw /\ auth' = Failed
       ELSE password' = Front(password) /\ auth' = <<"auth", Front(password)>>
    /\ pc' = "returned"
    /\ UNCHANGED <<input, pos, line, signalled>>

\* A SIGINT or SIGTERM: the default action ends the process;
\* signal_termio_restore does tcsetattr(old), and a getline it interrupts
\* returns -1.
Interrupt ==
    /\ Signals
    /\ ~signalled
    /\ pc \in {"start", "handlers", "getline", "restore"}
    /\ signalled' = TRUE
    /\ IF handler = "dfl"
       THEN pc' = "killed" /\ UNCHANGED <<echo, line>>
       ELSE /\ echo' = TRUE
            /\ IF pc = "getline"
               THEN line' = NoLine /\ pc' = "restore"
               ELSE UNCHANGED <<line, pc>>
    /\ UNCHANGED <<input, pos, handler, password, auth>>

Next == EchoOff \/ InstallHandlers \/ Getline \/ Restore \/ Interrupt

Spec == Init /\ [][Next]_vars

-----------------------------------------------------------------------------
\* The line as the user typed it: what getline read, without its newline.
Typed(l) == IF l # <<>> /\ Last(l) = NL THEN Front(l) ELSE l

\* FAPI gets the password the user typed: when auth_callback returns
\* success, *auth is the line getline read, without its newline and
\* nothing else cut.
PasswordAsTyped ==
    pc = "returned" /\ auth # Failed => auth = <<"auth", Typed(line)>>

\* The user's terminal is left as it was: when the process ends in the
\* callback, or the callback returns, echo is back on.
TerminalRestored ==
    pc \in {"returned", "killed"} => echo
====

------------------------------ MODULE Prompts ------------------------------
(***************************************************************************)
(* The two prompts of a FAPI tool (tools/fapi/tss2_template.c), which     *)
(* FAPI calls one after the other during a command, in the order its     *)
(* policy and object need: branch_callback (BranchCallback) and           *)
(* auth_callback (AuthCallback).  Both read the one standard input        *)
(* through stdio, so where one stops reading is where the next starts.   *)
(* ask_for_password, which prompts twice through auth_callback and        *)
(* compares the two answers, is the third dialogue, "ask".                *)
(***************************************************************************)
EXTENDS Naturals, Sequences, StdinTokens

CONSTANTS
    NumBranches, Initial,   \* of each branch prompt
    Inputs, Signals,
    Dialogues               \* the prompts FAPI makes, in order

VARIABLES
    input, pos,                     \* shared standard input
    selected, typed, bPc,           \* branch_callback
    echo, handler, password, line, auth, signalled, aPc,  \* auth_callback
    askPc, first, asked,            \* ask_for_password
    firstLine, secondLine,          \* the lines its two prompts read
    todo                            \* the prompts still to come

B == INSTANCE BranchCallback WITH pc <- bPc
A == INSTANCE AuthCallback WITH pc <- aPc

bVars == <<selected, typed, bPc>>
aVars == <<echo, handler, password, line, auth, signalled, aPc>>
askVars == <<askPc, first, asked, firstLine, secondLine>>
vars == <<input, pos, bVars, aVars, askVars, todo>>

NoPassword == <<"NULL">>

Init ==
    /\ input \in Inputs
    /\ pos = 1
    /\ selected = 0 /\ typed = 0 /\ bPc = "idle"
    /\ echo = TRUE /\ handler = "dfl" /\ password = A!NoPw /\ line = A!NoLine
    /\ auth = A!NoAuth /\ signalled = FALSE /\ aPc = "idle"
    /\ askPc = "idle" /\ first = NoPassword /\ asked = NoPassword
    /\ firstLine = A!NoLine /\ secondLine = A!NoLine
    /\ todo \in Dialogues

\* No callback is running and the process has not been killed.
Idle == /\ bPc \in {"idle", "returned"} /\ aPc \in {"idle", "returned"}
        /\ askPc \in {"idle", "done"}

\* FAPI calls branch_callback, with *selectedBranch whatever it holds.
CallBranch ==
    /\ Idle
    /\ todo # <<>> /\ Head(todo) = "branch"
    /\ todo' = Tail(todo)
    /\ bPc' = "prompt" /\ typed' = 0 /\ selected' \in Initial
    /\ UNCHANGED <<input, pos, aVars, askVars>>

\* FAPI calls auth_callback.
CallAuth ==
    /\ Idle
    /\ todo # <<>> /\ Head(todo) = "auth"
    /\ todo' = Tail(todo)
    /\ aPc' = "start" /\ auth' = A!NoAuth
    /\ UNCHANGED <<input, pos, bVars, echo, handler, password, line, signalled,
                   askVars>>

\* A call of auth_callback(NULL, description, &pw, NULL).
StartAuth == aPc' = "start" /\ auth' = A!NoAuth

\* ask_for_password: auth_callback for "Password".
AskPassword ==
    /\ Idle
    /\ todo # <<>> /\ Head(todo) = "ask"
    /\ todo' = Tail(todo)
    /\ StartAuth /\ askPc' = "first"
    /\ firstLine' = A!NoLine /\ secondLine' = A!NoLine
    /\ UNCHANGED <<input, pos, bVars, echo, handler, password, line, signalled,
                   first, asked>>

\* Its first call has returned: a failure returns NULL; otherwise the
\* password is strdup'ed (FAPI 3, where NULL on OOM) and auth_callback is
\* called for "Retype password".
AskRetype ==
    /\ askPc = "first" /\ aPc = "returned"
    /\ IF auth = A!Failed
       THEN askPc' = "done" /\ UNCHANGED <<first, firstLine, aVars>>
       ELSE \/ askPc' = "done" /\ UNCHANGED <<first, firstLine, aVars>>
            \/ /\ first' = auth[2] /\ firstLine' = line
               /\ StartAuth /\ askPc' = "second"
               /\ UNCHANGED <<echo, handler, password, line, signalled>>
    /\ UNCHANGED <<input, pos, bVars, asked, secondLine, todo>>

\* Its second call has returned: a failure, or a password that differs
\* from the first (strcmp), returns NULL after freeing the copy; equal
\* ones return the copy.
AskCompare ==
    /\ askPc = "second" /\ aPc = "returned"
    /\ asked' = IF auth # A!Failed /\ auth[2] = first THEN first ELSE NoPassword
    /\ askPc' = "done"
    /\ secondLine' = line
    /\ UNCHANGED <<input, pos, bVars, aVars, first, firstLine, todo>>

BranchDoes(Act) == Act /\ UNCHANGED <<aVars, askVars, todo>>
AuthDoes(Act) == Act /\ UNCHANGED <<bVars, askVars, todo>>

Next ==
    \/ CallBranch
    \/ CallAuth
    \/ AskPassword
    \/ AskRetype
    \/ AskCompare
    \/ BranchDoes(B!Scanf)
    \/ BranchDoes(B!Drain)
    \/ BranchDoes(B!Check)
    \/ AuthDoes(A!EchoOff)
    \/ AuthDoes(A!InstallHandlers)
    \/ AuthDoes(A!Getline)
    \/ AuthDoes(A!Restore)
    \/ AuthDoes(A!Interrupt)

Spec == Init /\ [][Next]_vars

-----------------------------------------------------------------------------
\* What FAPI receives from a prompt is what the user typed for it: when
\* branch_callback returns, *selectedBranch is the index, from 0, of the
\* branch printed with the number on the line it read; when auth_callback
\* returns success, *auth is the line it read without its newline; and
\* ask_for_password returns a password exactly when the two lines it read
\* were the same password typed, and then that password.
AskedAsTyped ==
    askPc = "done" /\ firstLine # A!NoLine =>
        IF secondLine # A!NoLine /\ A!Typed(secondLine) = A!Typed(firstLine)
        THEN asked = A!Typed(firstLine)
        ELSE asked = NoPassword

TerminalRestored == A!TerminalRestored
====

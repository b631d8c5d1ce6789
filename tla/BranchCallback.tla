--------------------------- MODULE BranchCallback ---------------------------
(***************************************************************************)
(* branch_callback (tools/fapi/tss2_template.c), which FAPI calls to have *)
(* the user pick one of numBranches policy branches.  It prints them      *)
(* numbered from 1, then loops: scanf("%zu") into *selectedBranch, drain  *)
(* the rest of the line with getchar, and accept a number in              *)
(* 1..numBranches; EOF at the scanf returns at once.  FAPI reads          *)
(* *selectedBranch as an index into the branch names, from 0.             *)
(*                                                                         *)
(* Standard input is a sequence of tokens: a number, junk (a character    *)
(* that is neither white space nor a digit) and a newline.                *)
(***************************************************************************)
EXTENDS Naturals, Sequences, StdinTokens

CONSTANTS
    NumBranches,   \* numBranches
    Inputs,        \* what standard input holds
    Initial        \* the values *selectedBranch may hold when FAPI calls

VARIABLES
    input,     \* standard input
    pos,       \* the next token getchar or scanf sees
    selected,  \* *selectedBranch
    typed,     \* the number the last scanf converted, or 0 if it converted none
    pc

vars == <<input, pos, selected, typed, pc>>

Init ==
    /\ input \in Inputs
    /\ pos = 1
    /\ selected \in Initial
    /\ typed = 0
    /\ pc = "prompt"

\* The first token at or after p that is not white space, or Len + 1.
RECURSIVE NextNonSpace(_, _)
NextNonSpace(s, p) ==
    IF p <= Len(s) /\ s[p] = NL THEN NextNonSpace(s, p + 1) ELSE p

\* scanf("%zu", selectedBranch): white space is skipped; at end of input
\* it returns EOF and the callback returns TSS2_RC_SUCCESS; a number is
\* converted and stored; anything else converts nothing, is left unread,
\* and leaves *selectedBranch as it was.
Scanf ==
    /\ pc = "prompt"
    /\ LET p == NextNonSpace(input, pos) IN
       IF p > Len(input)
       THEN pos' = p /\ pc' = "returned" /\ UNCHANGED <<selected, typed>>
       ELSE IF input[p] = Junk
       THEN pos' = p /\ typed' = 0 /\ pc' = "drain" /\ UNCHANGED selected
       ELSE /\ pos' = p + 1
            /\ selected' = input[p][2]
            /\ typed' = input[p][2]
            /\ pc' = "drain"
    /\ UNCHANGED input

\* while (getchar () != '\n'): at end of input getchar returns EOF for
\* ever, and the loop spins.
Drain ==
    /\ pc = "drain"
    /\ LET p == NextNewline(input, pos) IN
       IF p > Len(input)
       THEN pos' = p /\ pc' = "spin"
       ELSE pos' = p + 1 /\ pc' = "check"
    /\ UNCHANGED <<input, selected, typed>>

\* A number outside 1..numBranches is refused and the prompt repeated;
\* one inside it is returned as it is (numBranches-- changes only the
\* callback's copy of the count).
Check ==
    /\ pc = "check"
    /\ pc' = IF selected > NumBranches \/ selected < 1 THEN "prompt" ELSE "returned"
    /\ UNCHANGED <<input, pos, selected, typed>>

Next == Scanf \/ Drain \/ Check

Spec == Init /\ [][Next]_vars /\ WF_vars(Next)

-----------------------------------------------------------------------------
\* The choice the user made is the branch FAPI takes: when the callback
\* returns, *selectedBranch is the index, from 0, of the branch printed
\* with the number the user typed.
SelectedBranchIsChoice ==
    pc = "returned" => typed \in 1..NumBranches /\ selected = typed - 1

\* The prompt ends: branch_callback returns to FAPI whatever standard
\* input holds.
BranchCallbackReturns == <>(pc = "returned")
====

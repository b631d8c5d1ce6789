----------------------------- MODULE MC_Prompts -----------------------------
(***************************************************************************)
(* Inputs for checking Prompts: a branch prompt and then a password       *)
(* prompt, a password prompt alone, or ask_for_password, answered by     *)
(* lines that end with a newline or with the end of input.               *)
(***************************************************************************)
EXTENDS Prompts

\* A password prompt alone.
MCAuthOnly == {<<"auth">>}
\* ask_for_password alone.
MCAskOnly == {<<"ask">>}
MCDialogues == {<<"branch", "auth">>, <<"auth">>, <<"ask">>}
MCInputs ==
    { <<Num(1), NL, Num(3), Junk, NL>>,
      <<Num(2), NL, Num(3), Junk>>,
      <<Num(3), Junk, NL>>,
      <<Num(3), Junk>>,
      <<Num(3), Junk, NL, Num(3), Junk, NL>>,
      <<Num(3), Junk, NL, Num(3), Junk>> }
====

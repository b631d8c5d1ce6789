---------------------------- MODULE StdinTokens ----------------------------
(***************************************************************************)
(* Standard input as the FAPI prompt callbacks (tools/fapi/tss2_template.c)*)
(* read it through stdio: a sequence of tokens, each a number, junk (a    *)
(* character that is neither white space nor a digit) or a newline.       *)
(* scanf, getchar and getline all take from the same position.            *)
(***************************************************************************)
EXTENDS Naturals, Sequences

NL == <<"nl">>
Junk == <<"junk">>
Num(k) == <<"num", k>>

\* The first "nl" at or after p, or Len + 1.
RECURSIVE NextNewline(_, _)
NextNewline(s, p) ==
    IF p <= Len(s) /\ s[p] # NL THEN NextNewline(s, p + 1) ELSE p

\* What getline reads from p: up to and including the next newline, or to
\* the end of input.
LineFrom(s, p) ==
    LET e == NextNewline(s, p) IN SubSeq(s, p, IF e > Len(s) THEN Len(s) ELSE e)
====

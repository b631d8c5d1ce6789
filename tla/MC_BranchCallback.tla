-------------------------- MODULE MC_BranchCallback --------------------------
(***************************************************************************)
(* Two branches.  The user types 1, or 5 (refused) and then 2.  Further   *)
(* inputs: junk, 2 with no newline after it, and nothing.  FAPI's         *)
(* variable holds 0 or 1 when it calls.                                   *)
(***************************************************************************)
EXTENDS BranchCallback

MCInputsTyped == { <<Num(1), NL>>, <<Num(5), NL, Num(2), NL>> }
MCInputs == { <<Num(1), NL>>, <<Junk, NL>>, <<Num(5), NL, Num(2), NL>>,
              <<Num(2)>>, <<>> }
MCInitial == {0, 1}
====

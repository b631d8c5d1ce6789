---------------------------- MODULE MC_FapiTool ----------------------------
(***************************************************************************)
(* Inputs for checking FapiTool: the reader's inputs of MC_StdinReader,   *)
(* and invocations of the four tools with and without their required      *)
(* options, --force, --logData from a path or "-", the four forms of -h,  *)
(* -v and an unknown option.                                               *)
(***************************************************************************)
EXTENDS FapiTool

MCAllSources == {"stdin_file", "stdin_pipe", "path"}
MCFileSizes == {0, 1000, 1024, 2100}
MCWholeChunks == {1024}
MCMaxInput == 3 * 1024 + 300
MCMaxBuffer == 5 * 1024
\* size_t has 64 bits; 16 are enough for -1 to wrap the same way.
MCSizeBits == 16
\* man installed: its child shows the page, finds none, or cannot open
\* /dev/null.
MCManInstalled == {"devnull_fail", "man_ok", "man_fail"}
\* man not installed either: execlp fails.
MCManOutcomes == MCManInstalled \cup {"exec_fail"}

Inv(t, a) == [tool |-> t, args |-> a]
MCInvocations ==
    { Inv("encrypt", {"key", "in", "out"}),
      Inv("encrypt", {"key", "in", "out", "force"}),
      Inv("encrypt", {"key", "in"}),
      Inv("nvwrite", {"key", "in"}),
      Inv("pcrextend", {"key", "in", "log"}),
      Inv("pcrextend", {"key", "in", "log_stdin"}),
      Inv("setappdata", {"key"}),
      Inv("setappdata", {"key", "in"}),
      Inv("encrypt", {"help"}),
      Inv("nvwrite", {"help_man"}),
      Inv("pcrextend", {"help_noman"}),
      Inv("setappdata", {"help_other", "key"}),
      Inv("nvwrite", {"version"}),
      Inv("setappdata", {"bad", "key"}) }
====

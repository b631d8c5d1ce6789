--------------------------- MODULE MC_StdinReader ---------------------------
(***************************************************************************)
(* Inputs for checking StdinReader.  Files of 0, 1000, 1024 and 2100      *)
(* bytes: empty, one short read, exactly one chunk (a full read and then  *)
(* a read of 0), and a full read followed by a short one.  A writer on a  *)
(* pipe that writes whole chunks, or also pieces of 300 bytes.            *)
(***************************************************************************)
EXTENDS StdinReader

MCAllSources == {"stdin_file", "stdin_pipe", "path"}
MCPipe == {"stdin_pipe"}
MCFileSizes == {0, 1000, 1024, 2100}
MCWholeChunks == {Chunk}
MCPieces == {Chunk, 300}
MCMaxInput == 3 * Chunk + 300
MCMaxBuffer == 5 * Chunk
\* size_t has 64 bits; 16 are enough for -1 to wrap the same way.
MCSizeBits == 16
====

--------------------------- MODULE MCExecMonitor ---------------------------
(* A small instance of ExecMonitor: two digests; the first is carried by a   *)
(* program and by a copy of it under another path, the second by a shared    *)
(* library; a script and an excluded program are never checked.              *)
EXTENDS ExecMonitor

CONSTANTS h1, h2

File(path, hash, elf, so, excluded) ==
    [path |-> path, hash |-> hash, elf |-> elf, so |-> so,
     excluded |-> excluded]

MCHashes == {h1, h2}

MCFiles ==
    { File("prog",   h1, TRUE,  FALSE, FALSE),
      File("copy",   h1, TRUE,  FALSE, FALSE),
      File("lib",    h2, TRUE,  TRUE,  FALSE),
      File("script", h2, FALSE, FALSE, FALSE),
      File("snap",   h2, TRUE,  FALSE, TRUE) }

\* Fewer files for the liveness runs: the program and the library.
MCFewFiles ==
    { File("prog", h1, TRUE, FALSE, FALSE),
      File("lib",  h2, TRUE, TRUE,  FALSE) }
=============================================================================

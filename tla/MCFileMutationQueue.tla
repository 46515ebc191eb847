------------------------ MODULE MCFileMutationQueue ------------------------
(* FileMutationQueue for TLC: one file, reached through its real path and   *)
(* through a link.                                                          *)
EXTENDS FileMutationQueue

CONSTANTS realPath, linkPath, theFile

BothPaths == {realPath, linkPath}
OneFile == {theFile}
RealPath == [f \in Files |-> realPath]
Leads == [p \in Paths |-> theFile]

=============================================================================

------------------------------- MODULE MCPipe -------------------------------
(* Instances of Pipe for TLC. *)
EXTENDS Pipe

\* PipeFile::read and ::write do not look at the open flags
AllUses == Ops \X Ends
=============================================================================

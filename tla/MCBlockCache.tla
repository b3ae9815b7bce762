---------------------------- MODULE MCBlockCache ----------------------------
(* Instances of BlockCache for TLC. *)
EXTENDS BlockCache, TLC

\* ranges inside a sector, across sectors and across frames
Calls == {[op |-> "read",  start |-> 3, len |-> 6, byte |-> 0],
          [op |-> "read",  start |-> 9, len |-> 0, byte |-> 0],
          [op |-> "write", start |-> 1, len |-> 2, byte |-> 1],
          [op |-> "write", start |-> 3, len |-> 6, byte |-> 1],
          [op |-> "write", start |-> 8, len |-> 1, byte |-> 1]}

\* a device of whole frames whose driver may crash twice and refuse once, and
\* devices of both drivers that end inside the last frame
Disks == {[driver |-> "virtio_blk", capacity |-> 6, crashes |-> 2, refusals |-> 1],
          [driver |-> "virtio_blk", capacity |-> 5, crashes |-> 0, refusals |-> 0],
          [driver |-> "mem_block",  capacity |-> 5, crashes |-> 1, refusals |-> 0]}

TaskSymmetry == Permutations(Tasks)
=============================================================================

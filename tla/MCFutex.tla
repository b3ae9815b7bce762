------------------------------ MODULE MCFutex ------------------------------
(* Instances of Futex for TLC. *)
EXTENDS Futex, TLC

CONSTANTS a1, a2, b1, b2

OneBit == {{b1}, {b2}}
Forward == {<<a1, a2>>}

ThreadSymmetry == Permutations(Threads)
=============================================================================

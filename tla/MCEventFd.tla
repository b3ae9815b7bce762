----------------------------- MODULE MCEventFd -----------------------------
(* Instances of EventFd for TLC. *)
EXTENDS EventFd, TLC

AllModes == SUBSET {"EFD_SEMAPHORE", "EFD_NONBLOCK"}

TaskSymmetry == Permutations(Tasks)
=============================================================================

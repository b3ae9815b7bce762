---------------------------- MODULE BlockDrivers ----------------------------
(***************************************************************************)
(* The block drivers and the shadow in front of them.  A driver runs in a  *)
(* domain of its own: a panic inside it comes back to the caller as        *)
(* DOMAINCRASH.  The shadow (drivers/shadow_blk) restarts the driver and   *)
(* repeats a READ once; a write is passed on and not repeated.             *)
(*                                                                         *)
(* Drivers: virtio_blk, whose device may refuse a request, and mem_block,  *)
(* which clips every request to its region and says nothing.               *)
(***************************************************************************)
EXTENDS Naturals, Sequences

CONSTANTS
  Bytes,
  SECTOR,    \* bytes of a block, 512 in the code
  Machines   \* records [driver, capacity, crashes, refusals]

ASSUME DriverAssumption ==
  /\ SECTOR \in Nat \ {0} /\ Bytes # {}
  /\ \A m \in Machines : /\ m.driver \in {"virtio_blk", "mem_block"}
                         /\ m.capacity \in Nat \ {0}
                         /\ m.crashes \in Nat /\ m.refusals \in Nat

VARIABLES
  machine,   \* the driver, the blocks of the device, the faults it may have (never changes)
  blocks,    \* contents of the device
  left       \* faults that may still happen

Block == [0 .. SECTOR - 1 -> Bytes]
Blank == [x \in 0 .. SECTOR - 1 |-> CHOOSE b \in Bytes : TRUE]
Device == 0 .. machine.capacity - 1

DriverInit ==
  /\ machine \in Machines
  /\ blocks = [b \in Device |-> Blank]
  /\ left = [crashes |-> machine.crashes, refusals |-> machine.refusals]

\* what a driver may return: an error, what it got and the faults left over
Answer(e, x, l) == [err |-> e, got |-> x, left |-> l]

-----------------------------------------------------------------------------
(* mem_block: requests are cut at the end of the region; the rest of the   *)
(* caller's uninitialised buffer stays as it was                           *)

image_read(b, l) ==
  {Answer("none", x, l) : x \in IF b \in Device THEN {blocks[b]} ELSE Block}

image_write(disk, b, x, l) ==
  {Answer("none", IF b \in Device THEN [disk EXCEPT ![b] = x] ELSE disk, l)}

-----------------------------------------------------------------------------
(* virtio_blk *)

Refused(x, l) ==
  IF l.refusals > 0 THEN {Answer("EIO", x, [l EXCEPT !.refusals = @ - 1])} ELSE {}

virtio_read(b, l) ==
  IF b \in Device THEN {Answer("none", blocks[b], l)} \cup Refused(Blank, l)
                  ELSE {Answer("EIO", Blank, l)}

virtio_write(disk, b, x, l) ==
  IF b \in Device
  THEN {Answer("none", [disk EXCEPT ![b] = x], l)} \cup Refused(disk, l)
  ELSE {Answer("EIO", disk, l)}

-----------------------------------------------------------------------------
(* The border of the driver's domain: the driver may panic in any call, a  *)
(* write then having reached the device or not                             *)

Crashed(got, l) ==
  IF l.crashes > 0
  THEN {Answer("DOMAINCRASH", x, [l EXCEPT !.crashes = @ - 1]) : x \in got} ELSE {}

driver_read(b, l) ==
  Crashed({Blank}, l) \cup IF machine.driver = "virtio_blk"
                           THEN virtio_read(b, l) ELSE image_read(b, l)

driver_write(disk, b, x, l) ==
  LET done == IF machine.driver = "virtio_blk"
              THEN virtio_write(disk, b, x, l) ELSE image_write(disk, b, x, l)
  IN done \cup Crashed({disk} \cup {a.got : a \in done}, l)

-----------------------------------------------------------------------------
(* The shadow *)

\* mutant: a crash is reported without a second try
read_block_NoRetry(b, l) == driver_read(b, l)

\* checkout_shared_data, then one more try with a new buffer
read_block(b, l) ==
  UNION {IF a.err = "DOMAINCRASH" THEN driver_read(b, a.left) ELSE {a}
           : a \in driver_read(b, l)}

write_block(disk, b, x, l) == driver_write(disk, b, x, l)
=============================================================================

-------------------------------- MODULE Vault --------------------------------
(***************************************************************************)
(* What the archiver promises about deletion, with none of its machinery.  *)
(* Each shot has a copy on the device and a copy in the vault.  The two    *)
(* change freely, with one exception: a shot is released, its device copy  *)
(* given up, only while the vault has the same copy, and from then on that *)
(* copy stays.  Bit rot alone may take it (TORN); nothing replaces it and  *)
(* the shot does not come back.                                            *)
(***************************************************************************)
CONSTANTS
  Key,    \* shots
  Copy,   \* contents of a copy
  NONE,   \* no copy
  TORN    \* a copy that has rotted

VARIABLES
  device,     \* the device's copy of each shot
  vault,      \* the archive's copy of each shot
  released    \* shots given up on the device

vars == <<device, vault, released>>

Init ==
  /\ device = [k \in Key |-> NONE]
  /\ vault = [k \in Key |-> NONE]
  /\ released = {}

\* Shots come and go, are archived, archived again, damaged.
GoOn ==
  /\ device' \in [Key -> Copy] /\ vault' \in [Key -> Copy]
  /\ \A k \in released : device'[k] = NONE /\ vault'[k] \in {vault[k], TORN}
  /\ UNCHANGED released

Release(k) ==
  /\ device[k] # NONE /\ vault[k] = device[k]
  /\ device' = [device EXCEPT ![k] = NONE]
  /\ released' = released \cup {k}
  /\ UNCHANGED vault

Next == GoOn \/ \E k \in Key : Release(k)

Spec == Init /\ [][Next]_vars

=============================================================================

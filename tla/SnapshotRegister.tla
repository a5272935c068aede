-------------------------- MODULE SnapshotRegister --------------------------
(***************************************************************************)
(* What ReloadableMmdb promises the reactor shards: a register that holds  *)
(* the current snapshot of the database.  It is filled once open() has     *)
(* succeeded, then only ever replaced by a newer snapshot, and emptied by  *)
(* close() when nobody reads any more.  A reader keeps the snapshot it     *)
(* began with until it is done, whatever is published meanwhile.  Files,   *)
(* events, threads and failures do not appear here: that the code has them *)
(* and still keeps this promise is what the refinement in MmdbReload says. *)
(***************************************************************************)
EXTENDS Naturals

CONSTANTS Readers

VARIABLES
  phase,      \* "new", "open" or "closed"
  value,      \* the current snapshot: the versions its bytes come from
  reading,    \* the readers that are in the middle of a frame
  snapshot,   \* the snapshot each of them began with
  consulted   \* the snapshots each of them has looked into

rvars == <<phase, value, reading, snapshot, consulted>>

Init ==
  /\ phase = "new" /\ value = {}
  /\ reading = {}
  /\ snapshot = [r \in Readers |-> {}]
  /\ consulted = [r \in Readers |-> {}]

NotOlder(old, new) ==
  new # {} /\ \A v \in old : \E w \in new : v <= w

Publish ==
  /\ phase # "closed" /\ phase' = "open"
  /\ NotOlder(value, value')
  /\ UNCHANGED <<reading, snapshot, consulted>>

Begin(r) ==
  /\ phase = "open" /\ r \notin reading
  /\ reading' = reading \cup {r}
  /\ snapshot' = [snapshot EXCEPT ![r] = value]
  /\ consulted' = [consulted EXCEPT ![r] = {}]
  /\ UNCHANGED <<phase, value>>

Consult(r) ==
  /\ r \in reading
  /\ consulted' = [consulted EXCEPT ![r] = {snapshot[r]}]
  /\ UNCHANGED <<phase, value, reading, snapshot>>

End(r) ==
  /\ r \in reading
  /\ reading' = reading \ {r}
  /\ snapshot' = [snapshot EXCEPT ![r] = {}]
  /\ consulted' = [consulted EXCEPT ![r] = {}]
  /\ UNCHANGED <<phase, value>>

Close ==
  /\ phase = "open" /\ reading = {}
  /\ phase' = "closed" /\ value' = {}
  /\ UNCHANGED <<reading, snapshot, consulted>>

Next ==
  \/ Publish \/ Close
  \/ \E r \in Readers : Begin(r) \/ Consult(r) \/ End(r)

Spec == Init /\ [][Next]_rvars
=============================================================================

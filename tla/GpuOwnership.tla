---------------------------- MODULE GpuOwnership ----------------------------
(***************************************************************************)
(* What the arbiter promises about the GPU, without saying how: one holder *)
(* at a time (a model or the voice lane), which changes hands only through *)
(* an empty GPU, and which nobody can take away while a job leases it or a *)
(* pin keeps it.                                                           *)
(***************************************************************************)
CONSTANTS Backends, VoiceLane, None

VARIABLES
  holder, \* who holds the GPU
  leased, \* a job is using the model that holds it
  pinned  \* a pin keeps the model that holds it

vars == <<holder, leased, pinned>>

Init == holder = None /\ leased = FALSE /\ pinned = FALSE

Free == ~leased /\ ~pinned

\* A pin may have waited for its model.
Seat(h) ==
  /\ holder = None /\ Free
  /\ holder' = h
  /\ pinned' \in {FALSE, (h \in Backends)}
  /\ UNCHANGED leased

Vacate ==
  /\ holder # None /\ Free
  /\ holder' = None
  /\ UNCHANGED <<leased, pinned>>

Lease ==
  /\ holder \in Backends
  /\ leased' = TRUE
  /\ UNCHANGED <<holder, pinned>>

EndLease == leased' = FALSE /\ UNCHANGED <<holder, pinned>>

PinResident ==
  /\ holder \in Backends
  /\ pinned' = TRUE
  /\ UNCHANGED <<holder, leased>>

DropPin == pinned' = FALSE /\ UNCHANGED <<holder, leased>>

\* Process exit: every claim is dropped, then the models are unloaded.
Terminate ==
  /\ leased' = FALSE /\ pinned' = FALSE
  /\ holder' = IF holder = VoiceLane THEN None ELSE holder

Next ==
  \/ \E h \in Backends \cup {VoiceLane} : Seat(h)
  \/ Vacate \/ Lease \/ EndLease \/ PinResident \/ DropPin \/ Terminate

Spec == Init /\ [][Next]_vars
=============================================================================

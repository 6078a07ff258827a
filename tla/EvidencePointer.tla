------------------------- MODULE EvidencePointer -------------------------
(***************************************************************************)
(* What the catalog promises the readers of one source: there is at most   *)
(* one active snapshot, it is always an accepted one, it moves only by     *)
(* the first promotion of new content or by an operator's selection, and   *)
(* a report attestation covers the snapshot that is active now.            *)
(* Checks, failures, retries, crashes and locks do not exist here.         *)
(* Abstracts app/catalog/imports/pipeline.py and refresh.py.               *)
(***************************************************************************)
CONSTANTS Content,   \* snapshot contents; a snapshot is named by its hash
          None       \* SQL NULL

VARIABLES accepted,  \* snapshots that were promoted at some time
          active,    \* the snapshot readers are shown, or None
          attested   \* an operator attested `active` for the latest report

vars == <<accepted, active, attested>>

Init == accepted = {} /\ active = None /\ attested = FALSE

(* New content becomes evidence and the active pointer, in one step.       *)
Promote(c) ==
  /\ c \notin accepted
  /\ accepted' = accepted \cup {c}
  /\ active' = c
  /\ attested' = FALSE

(* An operator reverses to retained evidence.                              *)
Select(c) ==
  /\ c \in accepted \ {active}
  /\ active' = c
  /\ attested' = FALSE
  /\ UNCHANGED accepted

(* An operator attests the active snapshot.                                *)
Attest ==
  /\ active # None
  /\ attested' = TRUE
  /\ UNCHANGED <<accepted, active>>

Next == \/ \E c \in Content : Promote(c) \/ Select(c)
        \/ Attest

Spec == Init /\ [][Next]_vars
=============================================================================

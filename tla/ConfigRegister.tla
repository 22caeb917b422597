-------------------------- MODULE ConfigRegister --------------------------
(***************************************************************************)
(* What the manager promises of the configuration: a register with one     *)
(* live value and a kept one, from which a restart continues.  A handler   *)
(* prepares the next value; it is written, if it is valid, while nothing   *)
(* is known of the kept one, and then becomes the live value at once, or   *)
(* is given up, before the write or, late, after it.                       *)
(*                                                                         *)
(* A start does not take the kept value as it stands: it takes Taken of    *)
(* it, and may rewrite the kept value, but only so that every later start  *)
(* would take the same.                                                    *)
(*                                                                         *)
(* The register knows nothing of the order of validation, kernel, file and *)
(* database, of maps and slices, or of what is read without the lock.      *)
(***************************************************************************)
CONSTANTS
  Values,   \* what a handler may prepare
  Valid,    \* what may be written and become live
  Taken(_), \* what a start makes of a kept value
  Torn,     \* a kept value that cannot be loaded
  None

VARIABLES
  live,     \* the value that the last handler left; None while stopped
  next,     \* the value that a handler prepares, or None
  kept,     \* the value on disk; None when nothing is promised of it
  late      \* a handler was given up after its value had been written

registerVars == <<live, next, kept, late>>

(* The disk holds the live value, unless something has come between.       *)
InStep == late \/ kept \in {live, None}

RegisterInit ==
  /\ live = None
  /\ next = None
  /\ kept \in Values
  /\ late = FALSE

Begin ==
  /\ live # None /\ next = None
  /\ InStep
  /\ next' \in Values
  /\ UNCHANGED <<live, kept, late>>

(* An import prepares its value in several steps.                          *)
Revise ==
  /\ live # None /\ next # None
  /\ InStep
  /\ next' \in Values
  /\ UNCHANGED <<live, kept, late>>

(* A write that begins or fails, the operator.                             *)
Disturb ==
  /\ kept' = None
  /\ late' = FALSE
  /\ UNCHANGED <<live, next>>

Write ==
  /\ next \in Valid
  /\ kept = None
  /\ kept' = next
  /\ UNCHANGED <<live, next, late>>

Commit ==
  /\ next \in Valid
  /\ kept \in {next, None} /\ ~late
  /\ live' = next
  /\ next' = None
  /\ UNCHANGED <<kept, late>>

(* The database fails after the write: the value that is going to be       *)
(* given up stays on disk, for the next start to take.                     *)
FailLate ==
  /\ next \in Valid
  /\ kept = next
  /\ late' = TRUE
  /\ UNCHANGED <<live, next, kept>>

Abort ==
  /\ live # None /\ next # None
  /\ InStep
  /\ next' = None
  /\ UNCHANGED <<live, kept, late>>

(* The exception: an import that gives up half-way leaves what it has      *)
(* prepared, which is valid, but is not written.                           *)
Leak ==
  /\ live # None
  /\ next \in Valid
  /\ live' = next
  /\ next' = None
  /\ kept' = None
  /\ late' = FALSE

(* A death loses what is being prepared, and nothing that was kept.        *)
Die ==
  /\ live' = None
  /\ next' = None
  /\ late' = FALSE
  /\ \/ kept' = kept
     \/ kept = None /\ kept' \in Values \cup {Torn}

(* A start takes what was kept, and whatever it leaves on disk is taken    *)
(* for the same by the next one.                                           *)
Load ==
  /\ live = None /\ next = None
  /\ next' \in Valid
  /\ kept # None => next' = Taken(kept)
  /\ \/ kept' = None
     \/ kept' \in Values /\ next' = Taken(kept')
  /\ UNCHANGED <<live, late>>

(* A start that Taken makes invalid ends at once.                          *)
Refuse ==
  /\ live = None /\ next = None
  /\ kept' \in Values /\ Taken(kept') \notin Valid
  /\ kept # None => Taken(kept') = Taken(kept)
  /\ UNCHANGED <<live, next, late>>

RegisterNext ==
  \/ Begin \/ Revise \/ Disturb \/ Write \/ Commit \/ FailLate \/ Abort \/ Leak
  \/ Die \/ Load \/ Refuse

RegisterSpec == RegisterInit /\ [][RegisterNext]_registerVars

============================================================================

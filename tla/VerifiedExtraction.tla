------------------------- MODULE VerifiedExtraction -------------------------
(***************************************************************************)
(* What the extraction of a pinned archive promises to the build: nothing  *)
(* is written for an archive that is not the pinned one; what is there     *)
(* already is left alone; a file that is written whole has its pinned      *)
(* content, unless its bytes changed in a way that no check can see; and   *)
(* success means that every pinned file is there, or the directory that    *)
(* its entry says it is.  ModuleArchive implements this specification.     *)
(***************************************************************************)
CONSTANTS
  Pinned,    \* per name of the pinned archive, its content, in a set
  Alike,     \* per name, the contents that its checksum cannot tell from it
  Contents,  \* all contents
  Absent, Torn, Directory

VARIABLES
  state,     \* open, verified, done or failed
  files,     \* per name, what is in the destination
  changed,   \* the names whose bytes changed after they were verified
  unchecked  \* the names without a checksum of their own

xvars == <<state, files, changed, unchecked>>

Admitted(n) ==
  Pinned[n] \cup (IF n \notin changed THEN {} ELSE IF n \in unchecked THEN Contents ELSE Alike[n])

Alter ==
  /\ changed \subseteq changed'
  /\ UNCHANGED <<state, files, unchecked>>

Verify ==
  /\ state = "open"
  /\ state' = "verified"
  /\ UNCHANGED <<files, changed, unchecked>>

Abandon ==
  /\ state \in {"open", "verified"}
  /\ state' = "failed"
  /\ UNCHANGED <<files, changed, unchecked>>

Enter(n, c) ==
  /\ state = "verified"
  /\ files[n] = Absent
  /\ files' = [files EXCEPT ![n] = c]
  /\ UNCHANGED <<state, changed, unchecked>>

\* A write that does not come to its end leaves a torn file, and fails.
Tear(n) ==
  /\ state = "verified"
  /\ files[n] = Absent
  /\ files' = [files EXCEPT ![n] = Torn]
  /\ state' = "failed"
  /\ UNCHANGED <<changed, unchecked>>

Succeed ==
  /\ state = "verified"
  /\ \A n \in DOMAIN Pinned : files[n] \in Admitted(n) \cup {Directory}
  /\ state' = "done"
  /\ UNCHANGED <<files, changed, unchecked>>

XInit == state = "open" /\ changed = {}

XNext ==
  \/ Alter \/ Verify \/ Abandon \/ Succeed
  \/ \E n \in DOMAIN Pinned : Tear(n) \/ \E c \in Admitted(n) \cup {Directory} : Enter(n, c)

XSpec == XInit /\ [][XNext]_xvars

=============================================================================

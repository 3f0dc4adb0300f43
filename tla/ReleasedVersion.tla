--------------------------- MODULE ReleasedVersion ---------------------------
(***************************************************************************)
(* What a version number promises to those who deploy it: its images, its  *)
(* source tag and its release are published once and all come from one     *)
(* build; each appears after what it vouches for; nothing that was         *)
(* published changes; and bytes that are not those of the build are the    *)
(* end of the version: nothing is published after them.                    *)
(* Release implements this specification.                                  *)
(***************************************************************************)
CONSTANTS
  Builds,  \* the workflow runs that may build the version
  Items,   \* what is published of it
  Needs,   \* per item, the items that must be there before
  None

VARIABLES
  origin,     \* the build that the version comes from
  published,  \* the items that are there
  spoiled     \* whether one of them has other bytes than its build

vvars == <<origin, published, spoiled>>

VInit == origin = None /\ published = {} /\ spoiled = FALSE

Publish(b, x, bad) ==
  /\ ~spoiled
  /\ origin \in {None, b}
  /\ x \notin published
  /\ Needs[x] \subseteq published
  /\ origin' = b
  /\ published' = published \cup {x}
  /\ spoiled' = bad

VNext == \E b \in Builds, x \in Items, bad \in BOOLEAN : Publish(b, x, bad)

VSpec == VInit /\ [][VNext]_vvars

=============================================================================

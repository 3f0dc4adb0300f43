--------------------------- MODULE MCModuleArchive ---------------------------
(* ModuleArchive for TLC: the pinned archive of two files and the ways in    *)
(* which a zip may differ from it.                                           *)
EXTENDS ModuleArchive, TLC

CONSTANTS c1, c2, bad, twin, e1, e2

\* "twin" is another content than c1 with the same CRC-32.
MCCrc == c1 :> 1 @@ twin :> 1 @@ c2 :> 2 @@ bad :> 3
MCExpected == <<<<1, c1>>, <<3, c2>>>>

Zip(ids, n1, n2, d1, d2) ==
  [ids |-> ids, name |-> e1 :> n1 @@ e2 :> n2, mode |-> e1 :> "file" @@ e2 :> "file",
   checked |-> {e1, e2}, crc |-> e1 :> MCCrc[d1] @@ e2 :> MCCrc[d2], data |-> e1 :> d1 @@ e2 :> d2]

Good == Zip({e1, e2}, 3, 1, c2, c1)
MCZips ==
  {Good, Zip({e1, e2}, 1, 3, c2, c1), Zip({e1, e2}, 1, 3, c1, bad), Zip({e1, e2}, 1, 3, twin, c2),
   Zip({e1}, 1, 3, c1, c2), Zip({e1, e2}, 1, 1, c1, c1), Zip({e1, e2}, 1, 2, c1, c2)}
  \cup {[Good EXCEPT !.mode[e1] = m] : m \in {"dir", "symlink"}}
  \cup {[Good EXCEPT !.crc[e2] = MCCrc[bad]], [Good EXCEPT !.checked = {e1}]}

Empty == [n \in Names |-> Absent]
MCTrees == {Empty, [Empty EXCEPT ![3] = bad], [Empty EXCEPT ![3] = Directory]}
=============================================================================

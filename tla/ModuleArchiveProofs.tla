------------------------- MODULE ModuleArchiveProofs -------------------------
(***************************************************************************)
(* ModuleArchive for every archive, pinned listing and destination.  The   *)
(* inductive invariant says what the pass has read: names in strictly      *)
(* growing order, each entry listed under its name, and listed with the    *)
(* content it still has unless its bytes changed since.                    *)
(***************************************************************************)
EXTENDS ModuleArchive, TLAPS

\* The entries that the first pass has listed.
Listed == IF pc = "hash" THEN zip.ids \ todo ELSE zip.ids

Covered ==
  /\ \A e \in Listed : \E i \in DOMAIN total : total[i][1] = Name(e)
  /\ \A i \in DOMAIN total : \E e \in Listed : total[i][1] = Name(e)

\* What is listed for an entry is what the file has, or had before a change.
Faithful ==
  \A i \in DOMAIN total, e \in Listed :
    total[i][1] = Name(e) =>
      /\ e \in zip.checked => Crc[total[i][2]] = zip.crc[e]
      /\ e \in touched \/ total[i][2] = data[e]

Distinct == \A e, f \in Listed : Name(e) = Name(f) => e = f

Ordered ==
  /\ \A e \in Listed : Name(e) <= previous
  /\ \A i \in DOMAIN total : total[i][1] <= previous
  /\ \A e \in todo : previous <= Name(e)

\* An entry that was extracted, against the listing.
Extracted ==
  \A e \in zip.ids \ todo :
    \/ zip.mode[e] = "dir" /\ tree[Name(e)] = Directory
    \/ /\ tree[Name(e)] \in Contents
       /\ e \in zip.checked => Crc[tree[Name(e)]] = zip.crc[e]
       /\ \A i \in DOMAIN Expected :
            Expected[i][1] = Name(e) => e \in touched \/ tree[Name(e)] = Expected[i][2]

IInv ==
  /\ TypeOK
  /\ pc = "open" => total = <<>> /\ previous = 0
  /\ pc \in {"open", "hash"} => tree = before
  /\ pc \in {"hash", "extract"} => Covered /\ Faithful /\ Distinct
  /\ pc = "hash" => Ordered
  /\ pc = "extract" => total = Expected /\ Extracted
  /\ WrittenAfterAll
  /\ ExtractedIsPinned

-----------------------------------------------------------------------------
LEMMA InitInv == Init => IInv
<1> SUFFICES ASSUME Init PROVE IInv
  OBVIOUS
<1>1. TypeOK
  <2>1. zip.data \in [Entries -> Contents]
    BY ModuleArchiveAssumption DEF Init
  <2>2. tree \in [Names -> InTree]
    BY ModuleArchiveAssumption DEF Init
  <2>3. total \in Listing
    BY SMT DEF Init, Listing
  <2> QED
    BY <2>1, <2>2, <2>3, SMT DEF Init, TypeOK
<1> QED
  BY <1>1 DEF Init, IInv, WrittenAfterAll, ExtractedIsPinned

\* Names of entries are numbers, and the entries of a zip are entries.
LEMMA NamesOfZip ==
  ASSUME TypeOK
  PROVE  /\ zip.ids \subseteq Entries
         /\ \A e \in zip.ids : Name(e) \in Names /\ Name(e) \in Nat /\ data[e] \in Contents
         /\ todo \subseteq zip.ids
BY ModuleArchiveAssumption DEF TypeOK, Name

LEMMA ListingOfPairs ==
  ASSUME TypeOK, NEW i \in DOMAIN total
  PROVE  total[i][1] \in Nat /\ total[i][2] \in Contents
<1>1. total[i] \in Names \X Contents
  BY SMT DEF TypeOK, Listing
<1> QED
  BY <1>1, ModuleArchiveAssumption

\* Bytes that change make the entry touched, or come before it is listed.
LEMMA ChangeInv ==
  ASSUME IInv, NEW e \in Entries, NEW c \in Contents, Change(e, c)
  PROVE  IInv'
<1> USE DEF Change
<1>1. TypeOK'
  BY SMT DEF IInv, TypeOK
<1>2. touched \subseteq touched' /\ \A f \in zip.ids : f # e => data'[f] = data[f]
  BY SMT DEF IInv, TypeOK
<1>3. Listed' = Listed /\ \A f : Name(f)' = Name(f)
  BY DEF Listed, Name
<1>4. Covered => Covered'
  BY <1>3 DEF Covered
<1>5. Distinct => Distinct'
  BY <1>3 DEF Distinct
<1>6. ASSUME pc \in {"hash", "extract"}, Faithful PROVE Faithful'
  <2>1. e \in Listed => e \in touched'
    BY <1>6 DEF Listed
  <2> SUFFICES ASSUME NEW i \in DOMAIN total, NEW f \in Listed, total[i][1] = Name(f)
               PROVE  /\ f \in zip.checked => Crc[total[i][2]] = zip.crc[f]
                      /\ f \in touched' \/ total[i][2] = data'[f]
    BY <1>3 DEF Faithful
  <2>2. f \in zip.ids
    BY DEF Listed
  <2> QED
    BY <1>2, <1>6, <2>1, <2>2 DEF Faithful
<1>7. Ordered => Ordered'
  BY <1>3 DEF Ordered
<1>8. Extracted => Extracted'
  BY <1>2, <1>3 DEF Extracted
<1>9. WrittenAfterAll'
  BY <1>3 DEF IInv, WrittenAfterAll
<1>10. ExtractedIsPinned'
  BY <1>2, <1>3 DEF IInv, ExtractedIsPinned
<1> QED
  BY <1>1, <1>4, <1>5, <1>6, <1>7, <1>8, <1>9, <1>10 DEF IInv

LEMMA OpenInv ==
  ASSUME IInv, OpenReader
  PROVE  IInv'
<1> USE DEF OpenReader
<1>1. TypeOK'
  BY SMT DEF IInv, TypeOK
<1>2. Listed' = {} /\ DOMAIN total' = {}
  BY SMT DEF Listed, IInv
<1>3. Covered' /\ Faithful' /\ Distinct'
  BY <1>2 DEF Covered, Faithful, Distinct
<1>4. Ordered'
  <2>1. previous' = 0 /\ todo' = zip.ids /\ \A f : Name(f)' = Name(f)
    BY DEF IInv, Name
  <2>2. \A f \in zip.ids : 0 <= Name(f)
    BY SMT, NamesOfZip DEF IInv
  <2> QED
    BY <1>2, <2>1, <2>2 DEF Ordered
<1> QED
  BY <1>1, <1>3, <1>4 DEF IInv, WrittenAfterAll, ExtractedIsPinned, Name

\* What is written in a failure that writes nothing.
LEMMA StopInv ==
  ASSUME IInv, Stop,
         UNCHANGED <<zip, data, todo, previous, total, tree, before, touched>>
  PROVE  IInv'
<1>1. TypeOK'
  BY SMT DEF IInv, TypeOK, Stop
<1> QED
  BY <1>1 DEF IInv, Stop, WrittenAfterAll, ExtractedIsPinned, Name

\* The next entry has a greater name than any before it.
LEMMA HashInv ==
  ASSUME IInv, NEW e \in Entries, Hash(e)
  PROVE  IInv'
<1> DEFINE p == <<Name(e), data[e]>>
<1> USE DEF Hash
<1>1. e \in zip.ids /\ p \in Names \X Contents
  BY NamesOfZip DEF IInv, Turn
<1>2. TypeOK'
  BY <1>1, SMT DEF IInv, TypeOK, Listing
<1>3. Listed' = Listed \cup {e} /\ e \notin Listed /\ Listed \subseteq zip.ids
  BY <1>1 DEF Listed, Turn
<1>4. /\ DOMAIN total' = DOMAIN total \cup {Len(total) + 1}
      /\ total'[Len(total) + 1] = p
      /\ \A i \in DOMAIN total : total'[i] = total[i] /\ i # Len(total) + 1
  <2>1. total \in Seq(Names \X Contents)
    BY DEF IInv, TypeOK, Listing
  <2> QED
    BY <1>1, <2>1, SMT
<1>5. \A f : Name(f)' = Name(f)
  BY DEF Name
<1>6. /\ Covered /\ Faithful /\ Distinct /\ Ordered
  BY DEF IInv
<1>7. /\ \A f \in Listed : Name(f) < Name(e)
      /\ \A i \in DOMAIN total : total[i][1] < Name(e)
  <2>1. previous < Name(e) /\ Name(e) \in Nat /\ previous \in Nat
    BY <1>1, <1>6, SMT, NamesOfZip, ModuleArchiveAssumption DEF Ordered, Turn, Acceptable, IInv, TypeOK
  <2>2. ASSUME NEW f \in Listed PROVE Name(f) < Name(e)
    BY <1>3, <1>6, <2>1, SMT, NamesOfZip DEF Ordered, IInv
  <2>3. ASSUME NEW i \in DOMAIN total PROVE total[i][1] < Name(e)
    <3>1. total[i][1] \in Nat /\ total[i][1] <= previous
      BY <1>6, ListingOfPairs DEF Ordered, IInv
    <3> QED
      BY <2>1, <3>1, SMT
  <2> QED
    BY <2>2, <2>3
<1>8. Name(e) \in Nat /\ \A i \in DOMAIN total : total[i][1] \in Nat
  BY <1>1, NamesOfZip, ListingOfPairs DEF IInv
<1>9. Covered'
  BY <1>3, <1>4, <1>5, <1>6 DEF Covered
<1>10. Distinct'
  <2>1. \A f \in Listed : Name(f) # Name(e)
    BY <1>3, <1>7, <1>8, SMT, NamesOfZip DEF IInv
  <2> QED
    BY <1>3, <1>5, <1>6, <2>1 DEF Distinct
<1>11. Faithful'
  <2> SUFFICES ASSUME NEW i \in DOMAIN total', NEW f \in Listed', total'[i][1] = Name(f)
               PROVE  /\ f \in zip.checked => Crc[total'[i][2]] = zip.crc[f]
                      /\ f \in touched \/ total'[i][2] = data[f]
    BY <1>5 DEF Faithful
  <2>1. CASE i \in DOMAIN total /\ f \in Listed
    BY <1>4, <1>6, <2>1 DEF Faithful
  <2>2. CASE i \in DOMAIN total /\ f = e
    BY <1>4, <1>7, <1>8, <2>2, SMT
  <2>3. CASE i = Len(total) + 1 /\ f \in Listed
    <3>1. Name(f) < Name(e) /\ Name(f) \in Nat /\ Name(f) = Name(e)
      BY <1>3, <1>4, <1>7, <2>3, NamesOfZip DEF IInv
    <3> QED
      BY <1>8, <3>1, SMT
  <2>4. CASE i = Len(total) + 1 /\ f = e
    BY <1>4, <2>4 DEF Intact
  <2> QED
    BY <1>3, <1>4, <2>1, <2>2, <2>3, <2>4
<1>12. Ordered'
  <2>1. \A f \in todo' : Name(e) <= Name(f)
    BY DEF Turn
  <2>2. \A f \in Listed' : Name(f) <= Name(e)
    BY <1>3, <1>7, <1>8, SMT, NamesOfZip DEF IInv
  <2>3. \A i \in DOMAIN total' : total'[i][1] <= Name(e)
    BY <1>4, <1>7, <1>8, SMT
  <2> QED
    BY <1>5, <2>1, <2>2, <2>3 DEF Ordered
<1>13. WrittenAfterAll' /\ ExtractedIsPinned'
  BY DEF IInv, WrittenAfterAll, ExtractedIsPinned
<1> QED
  BY <1>2, <1>9, <1>10, <1>11, <1>12, <1>13 DEF IInv

\* The whole listing is the pinned one: every entry is listed.
LEMMA CompareInv ==
  ASSUME IInv, Compare
  PROVE  IInv'
<1>1. CASE total = Expected
  <2> USE DEF Compare, Stop
  <2>1. TypeOK'
    BY <1>1, SMT DEF IInv, TypeOK
  <2>2. Listed' = Listed /\ \A f : Name(f)' = Name(f)
    BY <1>1 DEF Listed, Name
  <2>3. Covered' /\ Faithful' /\ Distinct'
    BY <1>1, <2>2 DEF IInv, Covered, Faithful, Distinct
  <2>4. Extracted'
    BY <1>1 DEF Extracted
  <2> QED
    BY <1>1, <2>1, <2>3, <2>4 DEF IInv, WrittenAfterAll, ExtractedIsPinned
<1>2. CASE total # Expected
  BY <1>2, StopInv DEF Compare
<1> QED
  BY <1>1, <1>2

\* While entries are extracted, all that was listed is the pinned archive.
LEMMA AllListed ==
  ASSUME IInv, pc = "extract"
  PROVE  /\ \A e \in zip.ids : \E i \in DOMAIN Expected : Expected[i][1] = Name(e)
         /\ \A i \in DOMAIN Expected : \E e \in zip.ids : Expected[i][1] = Name(e)
         /\ \A e, f \in zip.ids : Name(e) = Name(f) => e = f
         /\ \A i \in DOMAIN Expected, e \in zip.ids :
              Expected[i][1] = Name(e) =>
                /\ e \in zip.checked => Crc[Expected[i][2]] = zip.crc[e]
                /\ e \in touched \/ Expected[i][2] = data[e]
<1>1. total = Expected /\ Listed = zip.ids
  BY DEF IInv, Listed
<1> QED
  BY <1>1 DEF IInv, Covered, Faithful, Distinct

\* Something appears in the destination under the name of entry e.
LEMMA WriteInv ==
  ASSUME IInv, pc = "extract", NEW e \in zip.ids,
         UNCHANGED <<zip, data, previous, total, before, touched>>,
         \A n \in Names : n # Name(e) => tree'[n] = tree[n]
  PROVE  /\ (Covered' /\ Faithful' /\ Distinct') \/ pc' # "extract"
         /\ WrittenAfterAll'
         /\ \A f \in zip.ids : f # e => tree'[Name(f)] = tree[Name(f)]
<1>1. WrittenAfterAll'
  BY AllListed DEF WrittenAfterAll, Name, IInv
<1>2. \A f \in zip.ids : f # e => tree'[Name(f)] = tree[Name(f)]
  BY AllListed, NamesOfZip DEF IInv
<1>3. ASSUME pc' = "extract" PROVE Covered' /\ Faithful' /\ Distinct'
  <2>1. Listed' = Listed /\ \A f : Name(f)' = Name(f)
    BY <1>3 DEF Listed, Name
  <2> QED
    BY <2>1 DEF IInv, Covered, Faithful, Distinct
<1> QED
  BY <1>1, <1>2, <1>3

LEMMA DirectoryInv ==
  ASSUME IInv, NEW e \in Entries, ExtractDirectory(e)
  PROVE  IInv'
<1> USE DEF ExtractDirectory
<1>1. e \in zip.ids /\ Name(e) \in Names
  BY NamesOfZip DEF IInv, Turn
<1>2. TypeOK'
  <2>1. tree' \in [Names -> InTree]
    BY DEF IInv, TypeOK, InTree
  <2> QED
    BY <2>1, SMT DEF IInv, TypeOK
<1>3. tree'[Name(e)] = Directory /\ \A n \in Names : n # Name(e) => tree'[n] = tree[n]
  BY <1>1, SMT DEF IInv, TypeOK
<1>4. /\ Covered' /\ Faithful' /\ Distinct'
      /\ WrittenAfterAll'
      /\ \A f \in zip.ids : f # e => tree'[Name(f)] = tree[Name(f)]
  BY <1>1, <1>3, WriteInv
<1>5. \A f : Name(f)' = Name(f)
  BY DEF Name
<1>6. Extracted'
  <2> SUFFICES ASSUME NEW f \in zip.ids, f \notin todo \/ f = e
               PROVE  \/ zip.mode[f] = "dir" /\ tree'[Name(f)] = Directory
                      \/ /\ tree'[Name(f)] \in Contents
                         /\ f \in zip.checked => Crc[tree'[Name(f)]] = zip.crc[f]
                         /\ \A i \in DOMAIN Expected :
                              Expected[i][1] = Name(f) => f \in touched \/ tree'[Name(f)] = Expected[i][2]
    BY <1>5 DEF Extracted
  <2>1. CASE f = e
    BY <1>3, <2>1
  <2>2. CASE f # e
    BY <1>4, <2>2 DEF IInv, Extracted
  <2> QED
    BY <2>1, <2>2
<1> QED
  BY <1>2, <1>4, <1>6 DEF IInv, ExtractedIsPinned

LEMMA FileInv ==
  ASSUME IInv, NEW e \in Entries, ExtractFile(e)
  PROVE  IInv'
<1> USE DEF ExtractFile
<1>1. e \in zip.ids /\ Name(e) \in Names /\ data[e] \in Contents
  BY NamesOfZip DEF IInv, Turn
<1>2. TypeOK'
  BY <1>1, SMT DEF IInv, TypeOK, InTree
<1>3. tree'[Name(e)] = data[e] /\ \A n \in Names : n # Name(e) => tree'[n] = tree[n]
  BY <1>1, SMT DEF IInv, TypeOK
<1>4. /\ Covered' /\ Faithful' /\ Distinct'
      /\ WrittenAfterAll'
      /\ \A f \in zip.ids : f # e => tree'[Name(f)] = tree[Name(f)]
  BY <1>1, <1>3, WriteInv
<1>5. \A f : Name(f)' = Name(f)
  BY DEF Name
<1>6. Extracted'
  <2> SUFFICES ASSUME NEW f \in zip.ids, f \notin todo \/ f = e
               PROVE  \/ zip.mode[f] = "dir" /\ tree'[Name(f)] = Directory
                      \/ /\ tree'[Name(f)] \in Contents
                         /\ f \in zip.checked => Crc[tree'[Name(f)]] = zip.crc[f]
                         /\ \A i \in DOMAIN Expected :
                              Expected[i][1] = Name(f) => f \in touched \/ tree'[Name(f)] = Expected[i][2]
    BY <1>5 DEF Extracted
  <2>1. CASE f = e
    BY <1>1, <1>3, <2>1, AllListed DEF Intact
  <2>2. CASE f # e
    BY <1>4, <2>2 DEF IInv, Extracted
  <2> QED
    BY <2>1, <2>2
<1> QED
  BY <1>2, <1>4, <1>6 DEF IInv, ExtractedIsPinned

LEMMA TearsInv ==
  ASSUME IInv, NEW e \in Entries, ExtractTears(e)
  PROVE  IInv'
<1> USE DEF ExtractTears, Stop
<1>1. e \in zip.ids /\ Name(e) \in Names
  BY NamesOfZip DEF IInv, Turn
<1>2. TypeOK'
  <2>1. tree' \in [Names -> InTree]
    BY DEF IInv, TypeOK, InTree
  <2> QED
    BY <2>1, SMT DEF IInv, TypeOK
<1>3. \A n \in Names : n # Name(e) => tree'[n] = tree[n]
  BY <1>1, SMT DEF IInv, TypeOK
<1>4. WrittenAfterAll'
  BY <1>1, <1>3, WriteInv
<1> QED
  BY <1>2, <1>4 DEF IInv, ExtractedIsPinned

\* All entries are extracted, and they are all that is pinned.
LEMMA FinishInv ==
  ASSUME IInv, Finish
  PROVE  IInv'
<1> USE DEF Finish
<1>1. TypeOK'
  BY SMT DEF IInv, TypeOK
<1>2. WrittenAfterAll'
  BY DEF IInv, WrittenAfterAll, Name
<1>3. ExtractedIsPinned'
  <2> SUFFICES ASSUME NEW i \in DOMAIN Expected
               PROVE  \E e \in zip.ids :
                        /\ Name(e) = Expected[i][1]
                        /\ \/ tree[Expected[i][1]] = Expected[i][2]
                           \/ /\ e \in touched /\ tree[Expected[i][1]] \in Contents
                              /\ e \in zip.checked => Crc[tree[Expected[i][1]]] = Crc[Expected[i][2]]
                           \/ zip.mode[e] = "dir" /\ tree[Expected[i][1]] = Directory
    BY DEF ExtractedIsPinned, Name
  <2>1. PICK e \in zip.ids : Expected[i][1] = Name(e)
    BY AllListed
  <2>2. e \in zip.checked => Crc[Expected[i][2]] = zip.crc[e]
    BY <2>1, AllListed
  <2> QED
    BY <2>1, <2>2 DEF IInv, Extracted
<1> QED
  BY <1>1, <1>2, <1>3 DEF IInv

LEMMA StutterInv == IInv /\ UNCHANGED vars => IInv'
BY DEF vars, IInv, TypeOK, Covered, Faithful, Distinct, Ordered, Extracted, Listed, Name,
       WrittenAfterAll, ExtractedIsPinned

LEMMA NextInv == IInv /\ [Next]_vars => IInv'
<1> SUFFICES ASSUME IInv, [Next]_vars PROVE IInv'
  OBVIOUS
<1>1. CASE OpenReader
  BY <1>1, OpenInv
<1>2. CASE IoFails
  BY <1>2, StopInv DEF IoFails
<1>3. CASE Compare
  BY <1>3, CompareInv
<1>4. CASE Finish
  BY <1>4, FinishInv
<1>5. ASSUME NEW e \in Entries, Hash(e) PROVE IInv'
  BY <1>5, HashInv
<1>6. ASSUME NEW e \in Entries, HashRefuses(e) PROVE IInv'
  BY <1>6, StopInv DEF HashRefuses
<1>7. ASSUME NEW e \in Entries, ExtractDirectory(e) PROVE IInv'
  BY <1>7, DirectoryInv
<1>8. ASSUME NEW e \in Entries, ExtractFile(e) PROVE IInv'
  BY <1>8, FileInv
<1>9. ASSUME NEW e \in Entries, ExtractTears(e) PROVE IInv'
  BY <1>9, TearsInv
<1>10. ASSUME NEW e \in Entries, NEW c \in Contents, Change(e, c) PROVE IInv'
  BY <1>10, ChangeInv
<1>11. CASE UNCHANGED vars
  BY <1>11, StutterInv
<1> QED
  BY <1>1, <1>2, <1>3, <1>4, <1>5, <1>6, <1>7, <1>8, <1>9, <1>10, <1>11 DEF Next

-----------------------------------------------------------------------------
(***************************************************************************)
(* The inductive invariant of the two passes holds in every run.           *)
(***************************************************************************)
THEOREM Invariance == Spec => []IInv
BY InitInv, NextInv, PTL DEF Spec

(***************************************************************************)
(* The locals of extract and its files keep their types, for any zip.      *)
(***************************************************************************)
THEOREM TypeCorrect == Spec => []TypeOK
<1>1. IInv => TypeOK
  BY DEF IInv
<1> QED
  BY <1>1, Invariance, PTL

(***************************************************************************)
(* Nothing is written before the whole archive was found to be pinned.     *)
(***************************************************************************)
THEOREM WrittenAfterAllAlways == Spec => []WrittenAfterAll
<1>1. IInv => WrittenAfterAll
  BY DEF IInv
<1> QED
  BY <1>1, Invariance, PTL

(***************************************************************************)
(* What an extraction that succeeded left behind is the pinned archive, as *)
(* far as the sum and the CRC-32 of the entries that have one can tell.    *)
(***************************************************************************)
THEOREM ExtractedIsPinnedAlways == Spec => []ExtractedIsPinned
<1>1. IInv => ExtractedIsPinned
  BY DEF IInv
<1> QED
  BY <1>1, Invariance, PTL

(***************************************************************************)
(* No step writes over what is in the destination.                         *)
(***************************************************************************)
THEOREM NothingOverwrittenAlways == Spec => NothingOverwritten
<1> DEFINE A == \A n \in Names : tree[n] # Absent => tree'[n] = tree[n]
<1>1. ASSUME IInv, [Next]_vars PROVE A
  <2> SUFFICES ASSUME NEW n \in Names, tree[n] # Absent PROVE tree'[n] = tree[n]
    OBVIOUS
  <2>1. tree \in [Names -> InTree]
    BY <1>1 DEF IInv, TypeOK
  <2>2. ASSUME NEW e \in Entries, ExtractDirectory(e) PROVE tree'[n] = tree[n]
    BY <2>1, <2>2, SMT DEF ExtractDirectory
  <2>3. ASSUME NEW e \in Entries, ExtractFile(e) PROVE tree'[n] = tree[n]
    BY <2>1, <2>3, SMT DEF ExtractFile, Creates
  <2>4. ASSUME NEW e \in Entries, ExtractTears(e) PROVE tree'[n] = tree[n]
    BY <2>1, <2>4, SMT DEF ExtractTears, Creates
  <2> QED
    BY <1>1, <2>2, <2>3, <2>4
       DEF Next, vars, OpenReader, IoFails, Compare, Finish, Hash, HashRefuses, Change
<1>2. IInv /\ [Next]_vars => [A]_vars
  BY <1>1
<1>3. Spec => [][A]_vars
  BY <1>2, Invariance, PTL DEF Spec
<1> QED
  BY <1>3 DEF NothingOverwritten

-----------------------------------------------------------------------------
\* What may be read for an entry, once the archive is verified, is admitted for it.
LEMMA ReadIsAdmitted ==
  ASSUME IInv, pc = "extract", NEW e \in zip.ids, NEW c \in Contents,
         e \in zip.checked => Crc[c] = zip.crc[e],
         \A i \in DOMAIN Expected : Expected[i][1] = Name(e) => e \in touched \/ c = Expected[i][2]
  PROVE  Name(e) \in PinnedNames /\ c \in Promise!Admitted(Name(e))
<1>1. PICK i \in DOMAIN Expected : Expected[i][1] = Name(e)
  BY AllListed
<1>2. Name(e) \in PinnedNames /\ Expected[i][2] \in PinnedContents(Name(e))
  BY <1>1 DEF PinnedNames, PinnedContents
<1>3. CASE c = Expected[i][2]
  BY <1>2, <1>3 DEF Promise!Admitted
<1>4. CASE e \in touched /\ e \notin zip.checked
  BY <1>2, <1>4 DEF Promise!Admitted
<1>5. CASE e \in touched /\ e \in zip.checked
  <2>1. Crc[Expected[i][2]] = Crc[c]
    BY <1>1, <1>5, AllListed
  <2> QED
    BY <1>2, <1>5, <2>1 DEF Promise!Admitted
<1> QED
  BY <1>1, <1>3, <1>4, <1>5

(***************************************************************************)
(* Every step of extract is a step of VerifiedExtraction, or a stutter.    *)
(***************************************************************************)
THEOREM Refinement == Spec => ImplementsExtraction
<1> DEFINE state == IF pc \in {"open", "hash"} THEN "open"
                    ELSE IF pc = "extract" THEN "verified" ELSE pc
<1>1. Init => Promise!XInit
  BY DEF Init, Promise!XInit
<1>2. ASSUME IInv, [Next]_vars PROVE [Promise!XNext]_(Promise!xvars)
  <2> USE DEF Promise!xvars
  <2>1. CASE OpenReader \/ UNCHANGED vars
    BY <2>1 DEF OpenReader, vars, Name
  <2>2. CASE IoFails
    BY <2>2 DEF IoFails, Stop, Promise!XNext, Promise!Abandon, Name
  <2>3. CASE Compare
    BY <2>3 DEF Compare, Stop, Promise!XNext, Promise!Abandon, Promise!Verify, Name
  <2>4. ASSUME NEW e \in Entries, Hash(e) PROVE UNCHANGED Promise!xvars
    BY <2>4 DEF Hash, Name
  <2>a. ASSUME NEW e \in Entries, NEW c \in Contents, Change(e, c) PROVE Promise!Alter
    BY <2>a DEF Change, Name, Promise!Alter
  <2>5. ASSUME NEW e \in Entries, HashRefuses(e) PROVE Promise!XNext
    BY <2>5 DEF HashRefuses, Stop, Promise!XNext, Promise!Abandon, Name
  <2>6. ASSUME NEW e \in zip.ids, pc = "extract"
        PROVE  Name(e) \in PinnedNames
    BY <1>2, <2>6, AllListed DEF PinnedNames
  <2>7. ASSUME NEW e \in Entries, ExtractDirectory(e)
        PROVE  Promise!XNext \/ UNCHANGED Promise!xvars
    <3>1. e \in zip.ids /\ pc = "extract" /\ pc' = "extract"
      BY <1>2, <2>7, NamesOfZip DEF ExtractDirectory, Turn, IInv
    <3>2. CASE tree[Name(e)] = Absent
      <4>1. Promise!Enter(Name(e), Directory)
        BY <2>7, <3>1, <3>2 DEF Promise!Enter, ExtractDirectory, Name
      <4> QED
        BY <2>6, <3>1, <4>1 DEF Promise!XNext, Promise!Admitted
    <3>3. CASE tree[Name(e)] = Directory
      <4>1. tree' = tree
        BY <1>2, <2>7, <3>3, SMT DEF ExtractDirectory, IInv, TypeOK
      <4> QED
        BY <2>7, <3>1, <4>1 DEF ExtractDirectory, Name
    <3> QED
      BY <2>7, <3>2, <3>3 DEF ExtractDirectory
  <2>8. ASSUME NEW e \in Entries, ExtractFile(e) PROVE Promise!XNext
    <3>1. e \in zip.ids /\ pc = "extract" /\ pc' = "extract" /\ data[e] \in Contents
      BY <1>2, <2>8, NamesOfZip DEF ExtractFile, Turn, IInv
    <3>2. data[e] \in Promise!Admitted(Name(e))
      BY <1>2, <2>8, <3>1, AllListed, ReadIsAdmitted DEF ExtractFile, Intact
    <3>3. Promise!Enter(Name(e), data[e])
      BY <2>8, <3>1 DEF Promise!Enter, ExtractFile, Creates, Name
    <3> QED
      BY <2>6, <3>1, <3>2, <3>3 DEF Promise!XNext
  <2>9. ASSUME NEW e \in Entries, ExtractTears(e) PROVE Promise!XNext
    <3>1. e \in zip.ids /\ pc = "extract"
      BY <1>2, <2>9, NamesOfZip DEF ExtractTears, Turn, IInv
    <3>2. Promise!Tear(Name(e))
      BY <2>9 DEF Promise!Tear, ExtractTears, Creates, Stop, Name
    <3> QED
      BY <2>6, <3>1, <3>2 DEF Promise!XNext
  <2>10. ASSUME Finish PROVE Promise!XNext
    <3>1. ASSUME NEW n \in PinnedNames PROVE tree[n] \in Promise!Admitted(n) \cup {Directory}
      <4>1. PICK i \in DOMAIN Expected : n = Expected[i][1]
        BY <3>1 DEF PinnedNames
      <4>2. PICK e \in zip.ids : n = Name(e)
        BY <1>2, <2>10, <4>1, AllListed DEF Finish
      <4>3. e \in zip.ids \ todo
        BY <2>10 DEF Finish
      <4>4. CASE tree[n] = Directory
        BY <4>4
      <4>5. CASE /\ tree[n] \in Contents
                 /\ e \in zip.checked => Crc[tree[n]] = zip.crc[e]
                 /\ \A j \in DOMAIN Expected :
                      Expected[j][1] = n => e \in touched \/ tree[n] = Expected[j][2]
        <5>1. tree[n] \in Promise!Admitted(Name(e))
          BY <1>2, <2>10, <4>2, <4>5, ReadIsAdmitted DEF Finish
        <5> QED
          BY <4>2, <5>1
      <4> QED
        BY <1>2, <2>10, <4>2, <4>3, <4>4, <4>5 DEF Finish, IInv, Extracted
    <3>2. Promise!Succeed
      BY <2>10, <3>1 DEF Finish, Promise!Succeed, Name
    <3> QED
      BY <3>2 DEF Promise!XNext
  <2> QED
    BY <1>2, <2>1, <2>2, <2>3, <2>4, <2>a, <2>5, <2>7, <2>8, <2>9, <2>10 DEF Next, Promise!XNext
<1> QED
  BY <1>1, <1>2, Invariance, PTL DEF Spec, ImplementsExtraction, Promise!XSpec

=============================================================================

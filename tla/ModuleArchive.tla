---------------------------- MODULE ModuleArchive ----------------------------
(***************************************************************************)
(* integration/modulearchive/main.go: extract.  A first pass over the      *)
(* entries of a module zip compares names and contents with the pinned h1  *)
(* sum; a second pass over the same open file extracts them.  The          *)
(* directory of the zip is read once, its data twice, and bytes may change *)
(* in place at any time: the second pass has only the CRC-32 of the        *)
(* directory to tell by, and archive/zip leaves an entry unchecked whose   *)
(* field is 0 and which has no data descriptor.  The h1 sum covers neither *)
(* that field nor the modes of entries.                                    *)
(***************************************************************************)
EXTENDS Integers, Sequences

CONSTANTS
  Contents,    \* contents of files
  Crc,         \* their CRC-32
  Names,       \* names of entries, as numbers in the order of sort.Slice; 0 is ""
  WellFormed,  \* those with the prefix, without a newline, and with a local path
  Expected,    \* the listing of contents and names behind the pinned sum
  Entries,     \* what identifies an entry of a zip
  Zips,        \* the zips that may lie in the module cache
  Trees,       \* what may lie in the destination before
  Absent, Torn, Directory

Mode == {"file", "dir", "symlink"}
InTree == Contents \cup {Absent, Torn, Directory}
Listing == Seq(Names \X Contents)

ASSUME ModuleArchiveAssumption ==
  /\ DOMAIN Crc = Contents
  /\ Names \subseteq Nat \ {0}
  /\ WellFormed \subseteq Names
  /\ Expected \in Listing
  /\ \A z \in Zips :
       /\ z.ids \subseteq Entries
       /\ z.name \in [Entries -> Names]
       /\ z.mode \in [Entries -> Mode]
       /\ DOMAIN z.crc = Entries
       /\ z.checked \subseteq Entries
       /\ z.data \in [Entries -> Contents]
  /\ Trees \subseteq [Names -> InTree]
  /\ {Absent, Torn, Directory} \cap Contents = {}
  /\ Absent # Torn /\ Torn # Directory /\ Directory # Absent

VARIABLES
  zip,       \* the directory of the zip, in memory once it is open
  data,      \* the contents in the file, per entry
  pc,        \* open, hash, extract, done or failed
  todo,      \* the entries that the pass has not come to
  previous,  \* the name before
  total,     \* the listing that is hashed
  tree,      \* the destination
  before,    \* history: the destination as it was found
  touched    \* history: the entries whose bytes changed after they were hashed

vars == <<zip, data, pc, todo, previous, total, tree, before, touched>>

-----------------------------------------------------------------------------
Name(e) == zip.name[e]

\* The entry whose turn it is: both passes go in the order of names.
Turn(e) == e \in todo /\ \A f \in todo : Name(e) <= Name(f)

Acceptable(e) ==
  /\ Name(e) # previous
  /\ Name(e) \in WellFormed
  /\ zip.mode[e] # "symlink"

\* Mutant: the error of the reader at the end of an entry is dropped.
IntactAlways(e) == TRUE

\* io.Copy reads to the end of the entry, where its CRC-32 is compared if there is
\* one to compare with.  A change of length is always seen: a read that fails.
Intact(e) == e \in zip.checked => Crc[data[e]] = zip.crc[e]

Stop == pc' = "failed"

-----------------------------------------------------------------------------
Init ==
  /\ zip \in Zips
  /\ data = zip.data
  /\ pc = "open"
  /\ todo = {}
  /\ previous = 0
  /\ total = <<>>
  /\ tree \in Trees
  /\ before = tree
  /\ touched = {}

\* Bytes of an entry change in the open file.
Change(e, c) ==
  /\ e \in zip.ids
  /\ data' = [data EXCEPT ![e] = c]
  /\ touched' = IF pc = "extract" \/ (pc = "hash" /\ e \notin todo)
                THEN touched \cup {e} ELSE touched
  /\ UNCHANGED <<zip, pc, todo, previous, total, tree, before>>

OpenReader ==
  /\ pc = "open"
  /\ pc' = "hash"
  /\ todo' = zip.ids
  /\ UNCHANGED <<zip, data, previous, total, tree, before, touched>>

\* Opening, reading, making a directory and closing may fail in any step.
IoFails ==
  /\ pc \in {"open", "hash", "extract"}
  /\ Stop
  /\ UNCHANGED <<zip, data, todo, previous, total, tree, before, touched>>

Hash(e) ==
  /\ pc = "hash"
  /\ Turn(e)
  /\ Acceptable(e)
  /\ Intact(e)
  /\ todo' = todo \ {e}
  /\ previous' = Name(e)
  /\ total' = Append(total, <<Name(e), data[e]>>)
  /\ UNCHANGED <<zip, data, pc, tree, before, touched>>

HashRefuses(e) ==
  /\ pc = "hash"
  /\ Turn(e)
  /\ ~Acceptable(e) \/ ~Intact(e)
  /\ Stop
  /\ UNCHANGED <<zip, data, todo, previous, total, tree, before, touched>>

\* Mutant: the sum is not compared with the pinned one.
CompareNothing ==
  /\ pc = "hash"
  /\ todo = {}
  /\ pc' = "extract"
  /\ todo' = zip.ids
  /\ UNCHANGED <<zip, data, previous, total, tree, before, touched>>

Compare ==
  /\ pc = "hash"
  /\ todo = {}
  /\ IF total = Expected THEN pc' = "extract" /\ todo' = zip.ids
     ELSE Stop /\ UNCHANGED todo
  /\ UNCHANGED <<zip, data, previous, total, tree, before, touched>>

\* os.MkdirAll, for which a directory that is there is as good.
ExtractDirectory(e) ==
  /\ pc = "extract"
  /\ Turn(e)
  /\ zip.mode[e] = "dir"
  /\ tree[Name(e)] \in {Absent, Directory}
  /\ tree' = [tree EXCEPT ![Name(e)] = Directory]
  /\ todo' = todo \ {e}
  /\ UNCHANGED <<zip, data, pc, previous, total, before, touched>>

\* Mutant: a file that is there is written over.
CreatesAny(e) == tree[Name(e)] # Directory

\* os.OpenFile with O_CREATE and O_EXCL.
Creates(e) == tree[Name(e)] = Absent

ExtractFile(e) ==
  /\ pc = "extract"
  /\ Turn(e)
  /\ zip.mode[e] # "dir"
  /\ Creates(e)
  /\ Intact(e)
  /\ tree' = [tree EXCEPT ![Name(e)] = data[e]]
  /\ todo' = todo \ {e}
  /\ UNCHANGED <<zip, data, pc, previous, total, before, touched>>

\* Mutant: the error of the copy is lost, and the next entry follows.
ExtractTearsOn(e) ==
  /\ pc = "extract"
  /\ Turn(e)
  /\ zip.mode[e] # "dir"
  /\ Creates(e)
  /\ tree' = [tree EXCEPT ![Name(e)] = Torn]
  /\ todo' = todo \ {e}
  /\ UNCHANGED <<zip, data, pc, previous, total, before, touched>>

\* The file is made, and its content cannot be read or written whole.
ExtractTears(e) ==
  /\ pc = "extract"
  /\ Turn(e)
  /\ zip.mode[e] # "dir"
  /\ Creates(e)
  /\ tree' = [tree EXCEPT ![Name(e)] = Torn]
  /\ Stop
  /\ UNCHANGED <<zip, data, todo, previous, total, before, touched>>

Finish ==
  /\ pc = "extract"
  /\ todo = {}
  /\ pc' = "done"
  /\ UNCHANGED <<zip, data, todo, previous, total, tree, before, touched>>

Next ==
  \/ OpenReader \/ IoFails \/ Compare \/ Finish
  \/ \E e \in Entries :
       \/ Hash(e) \/ HashRefuses(e)
       \/ ExtractDirectory(e) \/ ExtractFile(e) \/ ExtractTears(e)
       \/ \E c \in Contents : Change(e, c)

Spec == Init /\ [][Next]_vars

-----------------------------------------------------------------------------
\* Types of the locals of extract and of the files that it reads and writes.
TypeOK ==
  /\ zip \in Zips
  /\ data \in [Entries -> Contents]
  /\ pc \in {"open", "hash", "extract", "done", "failed"}
  /\ todo \subseteq zip.ids
  /\ previous \in Names \cup {0}
  /\ total \in Listing
  /\ tree \in [Names -> InTree] /\ before \in [Names -> InTree]
  /\ touched \subseteq zip.ids

(***************************************************************************)
(* "Extract only after all bytes match the independently pinned module     *)
(* checksum": as soon as anything is written, every entry has been read,   *)
(* and under its name and content it is one of the pinned listing.         *)
(***************************************************************************)
WrittenAfterAll ==
  tree # before =>
    /\ \A e \in zip.ids : \E i \in DOMAIN Expected : Expected[i][1] = Name(e)
    /\ \A i \in DOMAIN Expected : \E e \in zip.ids : Expected[i][1] = Name(e)
    /\ \A e \in zip.ids, f \in zip.ids : Name(e) = Name(f) => e = f
    /\ total = Expected

(***************************************************************************)
(* After success every pinned file is there with its pinned content.  The  *)
(* exceptions are those the checks cannot see: bytes that changed after    *)
(* they were hashed, in an entry that has no CRC-32 or to a content with   *)
(* the same one, and an entry whose mode makes a directory of it.          *)
(***************************************************************************)
ExtractedIsPinned ==
  pc = "done" =>
    \A i \in DOMAIN Expected :
      LET n == Expected[i][1]
          c == Expected[i][2]
      IN  \E e \in zip.ids :
            /\ Name(e) = n
            /\ \/ tree[n] = c
               \/ /\ e \in touched /\ tree[n] \in Contents
                  /\ e \in zip.checked => Crc[tree[n]] = Crc[c]
               \/ zip.mode[e] = "dir" /\ tree[n] = Directory

(***************************************************************************)
(* Whatever lay in the destination stays as it was, and no file that was   *)
(* extracted is written a second time.                                     *)
(***************************************************************************)
NothingOverwritten ==
  [][\A n \in Names : tree[n] # Absent => tree'[n] = tree[n]]_vars

(***************************************************************************)
(* The two passes implement VerifiedExtraction, where only an entry whose  *)
(* bytes changed after it was hashed may be extracted with a content that  *)
(* is not pinned, and only one that its CRC-32, if any, cannot tell.       *)
(***************************************************************************)
PinnedNames == {Expected[i][1] : i \in DOMAIN Expected}
PinnedContents(n) == {Expected[i][2] : i \in {j \in DOMAIN Expected : Expected[j][1] = n}}

Promise == INSTANCE VerifiedExtraction WITH
  Pinned <- [n \in PinnedNames |-> PinnedContents(n)],
  Alike <- [n \in PinnedNames |-> {c \in Contents : \E p \in PinnedContents(n) : Crc[p] = Crc[c]}],
  state <- IF pc \in {"open", "hash"} THEN "open"
           ELSE IF pc = "extract" THEN "verified" ELSE pc,
  files <- tree,
  changed <- {Name(e) : e \in touched},
  unchecked <- {Name(e) : e \in zip.ids \ zip.checked}

ImplementsExtraction == Promise!XSpec

=============================================================================

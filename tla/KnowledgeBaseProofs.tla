---- MODULE KnowledgeBaseProofs ----
(* For any directories, files and texts: what a load of the knowledge base has *)
(* when somebody edits documents meanwhile.                                    *)
EXTENDS KnowledgeBase, TLAPS

Folders == Directories \cup {Base}

Typed ==
    /\ tree \subseteq Paths /\ IsTree(tree)
    /\ text \in [Files -> Texts]
    /\ step \in Steps
    /\ pending \subseteq Folders /\ listed \subseteq Supported
    /\ touched \subseteq Paths

\* Since the load began no directory came or went.
FoldersKept == touched \cap Folders = {} /\ Base \in tree

\* The load has all it will need of the directories in read: their documents are
\* listed, their directories read or about to be.
Explored(read) ==
    /\ Base \in read \cup pending
    /\ \A p \in tree \ {Base} : Parent[p] \in read =>
         /\ p \in Directories => p \in read \cup pending
         /\ p \in Supported \ touched => p \in listed

\* As long as directories are read, what is still to be read is there, and no
\* document has been passed over.
Exploring ==
    step = "listing" /\ FoldersKept =>
        pending \subseteq tree /\ \E read \in SUBSET Folders : Explored(read)

\* Once they are read, each document is listed or has been read as it is.
Remaining ==
    step \in {"reading", "loaded"} /\ FoldersKept =>
        \A f \in (Supported \cap tree) \ touched : f \in listed \/ <<f, text[f]>> \in context

\* A directory is missing only if directories came or went, or there is no base.
MissingIsDisturbed == step = "missing" => ~FoldersKept

LoadedIsEmpty == step = "loaded" => listed = {}

IInv == Typed /\ Exploring /\ Remaining /\ MissingIsDisturbed /\ LoadedIsEmpty

-----------------------------------------------------------------------------
(* What a directory tree is.                                                   *)

\* When every directory a reader still had to read has been read, it has read each
\* directory there is: the ones it passed over would have no way up to the base.
LEMMA AllRead ==
    ASSUME NEW paths, paths \subseteq Paths, IsTree(paths), NEW read, Base \in read,
           \A p \in (paths \ {Base}) \cap Directories : Parent[p] \in read => p \in read
    PROVE  paths \cap Folders \subseteq read
<1> DEFINE D == (paths \cap Directories) \ read
<1>1. CASE D = {}
  BY <1>1 DEF Folders
<1>2. CASE D # {}
  <2>1. PICK d \in D : Parent[d] \notin D
    <3>1. D \in SUBSET Directories
      OBVIOUS
    <3> QED BY <1>2, <3>1, KnowledgeAssumption
  <2>2. d \in paths \ {Base} /\ d \in Directories
    BY <2>1, KnowledgeAssumption
  <2>3. Parent[d] \in paths /\ Parent[d] \in Directories \cup {Base}
    BY <2>2, KnowledgeAssumption DEF IsTree
  <2>4. Parent[d] \in read
    BY <2>1, <2>3
  <2> QED BY <2>1, <2>2, <2>4
<1> QED BY <1>1, <1>2

\* A path that is made where its directory is, and one removed that holds nothing,
\* leave a tree.
LEMMA TreeKept ==
    ASSUME Typed, NEW p \in Paths
    PROVE  /\ (p # Base => Parent[p] \in tree)
                => tree \cup {p} \subseteq Paths /\ IsTree(tree \cup {p})
           /\ Entries(p) = {} => tree \ {p} \subseteq Paths /\ IsTree(tree \ {p})
BY DEF Typed, IsTree, Entries

\* A directory that comes or goes while a load runs is noticed by FoldersKept, and
\* what was noticed stays so.
LEMMA KeptBefore ==
    ASSUME Typed, NEW p \in Paths, Touch(p), step # "idle", FoldersKept',
           tree' = tree \cup {p} \/ tree' = tree \ {p}
    PROVE  FoldersKept /\ p \in Files
BY KnowledgeAssumption DEF Typed, Touch, FoldersKept, Folders, Paths

-----------------------------------------------------------------------------

LEMMA InitIInv == Init => IInv
BY DEF Init, IInv, Typed, Steps, Exploring, Remaining, MissingIsDisturbed, LoadedIsEmpty

\* The load: each of its steps, with the tree as it is then.
LEMMA LoadContextKeeps ==
    ASSUME IInv, LoadContext PROVE IInv'
<1> USE DEF IInv, LoadContext
<1>1. Typed'
  BY DEF Typed, Steps, Folders
<1>2. Exploring'
  <2> SUFFICES ASSUME FoldersKept'
               PROVE  pending' \subseteq tree' /\ \E read \in SUBSET Folders : Explored(read)'
    BY DEF Exploring
  <2>1. Explored({})'
    BY DEF Explored
  <2> QED BY <2>1 DEF FoldersKept
<1> QED BY <1>1, <1>2 DEF Remaining, MissingIsDisturbed, LoadedIsEmpty

LEMMA ReadDirectoryKeeps ==
    ASSUME IInv, NEW d \in Folders, ReadDirectory(d) PROVE IInv'
<1>1. Typed'
  BY DEF IInv, Typed, ReadDirectory, Steps, Folders
<1>2. /\ step = "listing"
      /\ tree' = tree /\ text' = text /\ touched' = touched /\ context' = context
      /\ step' \in {"listing", "reading"}
      /\ step' = "reading" => pending' = {}
  BY DEF ReadDirectory
<1>3. ASSUME FoldersKept'
      PROVE  pending' \subseteq tree /\ \E read \in SUBSET Folders : Explored(read)'
  <2>1. PICK read \in SUBSET Folders : Explored(read)
    BY <1>2, <1>3 DEF IInv, Exploring, FoldersKept
  <2>2. pending' \subseteq tree
    BY <1>2, <1>3 DEF IInv, Exploring, FoldersKept, ReadDirectory, Entries
  <2>3. Explored(read \cup {d})'
    BY <1>2, <2>1 DEF Explored, ReadDirectory, Entries
  <2>4. read \cup {d} \in SUBSET Folders
    OBVIOUS
  <2> QED BY <2>2, <2>3, <2>4
<1>4. Exploring'
  BY <1>2, <1>3 DEF Exploring
<1>5. Remaining'
  <2> SUFFICES ASSUME step' = "reading", FoldersKept', NEW f \in (Supported \cap tree) \ touched
               PROVE  f \in listed'
    BY <1>2 DEF Remaining
  <2>1. PICK read \in SUBSET Folders : Explored(read)'
    BY <1>3
  <2>2. Base \in read
    BY <1>2, <2>1 DEF Explored
  <2>3. \A p \in (tree \ {Base}) \cap Directories : Parent[p] \in read => p \in read
    BY <1>2, <2>1 DEF Explored
  <2>4. tree \subseteq Paths /\ IsTree(tree)
    BY DEF IInv, Typed
  <2>5. tree \cap Folders \subseteq read
    BY <2>2, <2>3, <2>4, AllRead
  <2>6. f \in tree \ {Base} /\ Parent[f] \in Folders
    BY KnowledgeAssumption DEF Folders
  <2>7. Parent[f] \in read
    BY <2>4, <2>5, <2>6 DEF IsTree
  <2> QED BY <1>2, <2>1, <2>6, <2>7 DEF Explored
<1> QED BY <1>1, <1>2, <1>4, <1>5 DEF IInv, MissingIsDisturbed, LoadedIsEmpty

LEMMA DirectoryMissingKeeps ==
    ASSUME IInv, NEW d \in Folders, DirectoryMissing(d) PROVE IInv'
<1> USE DEF IInv, DirectoryMissing
<1>1. Typed'
  BY DEF Typed, Steps
<1>2. ~FoldersKept'
  BY DEF Exploring, FoldersKept
<1> QED BY <1>1, <1>2 DEF Exploring, Remaining, MissingIsDisturbed, LoadedIsEmpty

LEMMA ReadDocumentKeeps ==
    ASSUME IInv, NEW f \in Files, ReadDocument(f) PROVE IInv'
<1> USE DEF IInv, ReadDocument
<1>1. Typed'
  BY DEF Typed
<1>2. Remaining'
  BY DEF Remaining, FoldersKept
<1> QED BY <1>1, <1>2 DEF Exploring, MissingIsDisturbed, LoadedIsEmpty

LEMMA LoadEndsKeeps ==
    ASSUME IInv, LoadFails \/ Loaded PROVE IInv'
<1> USE DEF IInv, LoadFails, Loaded
<1>1. Typed'
  BY DEF Typed, Steps
<1>2. Remaining'
  BY DEF Remaining, FoldersKept
<1> QED BY <1>1, <1>2 DEF Exploring, MissingIsDisturbed, LoadedIsEmpty

-----------------------------------------------------------------------------
(* The editor.                                                                 *)

\* What an edit of the tree at p, with text changed at p at most, leaves of the
\* load's own part of the invariant.
LEMMA EditKeeps ==
    ASSUME IInv, NEW p \in Paths, Touch(p), Typed',
           tree' = tree \cup {p} \/ tree' = tree \ {p},
           \A f \in Files \ {p} : text'[f] = text[f]
    PROVE  IInv'
<1>1. UNCHANGED <<step, pending, listed, context>>
  BY DEF Touch
<1>2. ASSUME step # "idle", FoldersKept'
      PROVE  /\ FoldersKept /\ p \in Files
             /\ p \notin Directories \cup {Base}
             /\ touched' = touched \cup {p}
  BY <1>2, KeptBefore, KnowledgeAssumption DEF IInv, Touch
<1>3. Exploring'
  <2> SUFFICES ASSUME step' = "listing", FoldersKept'
               PROVE  pending' \subseteq tree' /\ \E read \in SUBSET Folders : Explored(read)'
    BY DEF Exploring
  <2>1. PICK read \in SUBSET Folders : Explored(read)
    BY <1>1, <1>2 DEF IInv, Exploring
  <2>2. pending' \subseteq tree'
    BY <1>1, <1>2 DEF IInv, Exploring, Typed, Folders
  <2>3. Explored(read)'
    BY <1>1, <1>2, <2>1 DEF Explored
  <2> QED BY <2>2, <2>3
<1>4. Remaining'
  <2> SUFFICES ASSUME step' \in {"reading", "loaded"}, FoldersKept',
                      NEW f \in (Supported \cap tree') \ touched'
               PROVE  f \in listed' \/ <<f, text'[f]>> \in context'
    BY DEF Remaining
  <2>1. f \in (Supported \cap tree) \ touched /\ f # p
    BY <1>1, <1>2
  <2>2. text'[f] = text[f]
    BY <2>1, KnowledgeAssumption
  <2> QED BY <1>1, <1>2, <2>1, <2>2 DEF IInv, Remaining
<1>5. MissingIsDisturbed'
  BY <1>1, <1>2 DEF IInv, MissingIsDisturbed
<1> QED BY <1>1, <1>3, <1>4, <1>5 DEF IInv, LoadedIsEmpty

LEMMA WriteKeeps ==
    ASSUME IInv, NEW f \in Files, NEW t \in Texts, Write(f, t) PROVE IInv'
<1>1. f \in Paths /\ tree' = tree \cup {f} /\ Touch(f)
  BY DEF Write, Paths
<1>2. tree' \subseteq Paths /\ IsTree(tree')
  BY <1>1, TreeKept DEF IInv, Write
<1>3. Typed'
  BY <1>1, <1>2 DEF IInv, Typed, Write, Touch, IsTree
<1>4. \A g \in Files \ {f} : text'[g] = text[g]
  BY DEF IInv, Typed, Write
<1> QED BY <1>1, <1>3, <1>4, EditKeeps

LEMMA MakeDirectoryKeeps ==
    ASSUME IInv, NEW d \in Folders, MakeDirectory(d) PROVE IInv'
<1>1. d \in Paths /\ tree' = tree \cup {d} /\ Touch(d) /\ text' = text
  BY DEF MakeDirectory, Paths, Folders
<1>2. tree' \subseteq Paths /\ IsTree(tree')
  BY <1>1, TreeKept DEF IInv, MakeDirectory
<1>3. Typed'
  BY <1>1, <1>2 DEF IInv, Typed, Touch, IsTree
<1> QED BY <1>1, <1>3, EditKeeps

LEMMA RemoveKeeps ==
    ASSUME IInv, NEW p \in Paths, Remove(p) PROVE IInv'
<1>1. tree' = tree \ {p} /\ Touch(p) /\ text' = text
  BY DEF Remove
<1>2. tree' \subseteq Paths /\ IsTree(tree')
  BY <1>1, TreeKept DEF IInv, Remove
<1>3. Typed'
  BY <1>1, <1>2 DEF IInv, Typed, Touch, IsTree
<1> QED BY <1>1, <1>3, EditKeeps

-----------------------------------------------------------------------------

LEMMA NextIInv == IInv /\ [Next]_vars => IInv'
<1> SUFFICES ASSUME IInv, [Next]_vars PROVE IInv'
  OBVIOUS
<1>1. CASE UNCHANGED vars
  BY <1>1 DEF vars, IInv, Typed, IsTree, Exploring, Explored, Remaining, FoldersKept,
              MissingIsDisturbed, LoadedIsEmpty
<1>2. CASE LoadContext
  BY <1>2, LoadContextKeeps
<1>3. CASE LoadFails \/ Loaded
  BY <1>3, LoadEndsKeeps
<1>4. CASE \E d \in Folders : ReadDirectory(d) \/ DirectoryMissing(d) \/ MakeDirectory(d)
  BY <1>4, ReadDirectoryKeeps, DirectoryMissingKeeps, MakeDirectoryKeeps
<1>5. CASE \E f \in Files : ReadDocument(f) \/ \E t \in Texts : Write(f, t)
  BY <1>5, ReadDocumentKeeps, WriteKeeps
<1>6. CASE \E p \in Paths : Remove(p)
  BY <1>6, RemoveKeeps
<1> QED BY <1>1, <1>2, <1>3, <1>4, <1>5, <1>6 DEF Next, Folders

\* Every reachable state: as long as no directory comes or goes, the directories
\* still to be read are there and lead to every document nobody touched
\* (knowledge-base-service.ts:22-42,64-83).
THEOREM LoadLeadsOn == Spec => []IInv
BY InitIInv, NextIInv, PTL DEF Spec

LEMMA IInvUntouched == IInv => UntouchedIsUsed
<1> SUFFICES ASSUME IInv, step \in {"loaded", "missing"}, FoldersKept,
                    NEW f \in (Supported \cap tree) \ touched
             PROVE  <<f, text[f]>> \in context
  BY DEF UntouchedIsUsed, FoldersKept, Folders
<1>1. step = "loaded" /\ listed = {}
  BY DEF IInv, MissingIsDisturbed, LoadedIsEmpty
<1> QED BY <1>1 DEF IInv, Remaining

\* However many directories, files and edits: a load that ends well, while the
\* directories stayed, has every document nobody touched, as it is
\* (knowledge-base-service.ts:22-42,64-83).
THEOREM UntouchedAreUsed == Spec => []UntouchedIsUsed
BY LoadLeadsOn, IInvUntouched, PTL
====

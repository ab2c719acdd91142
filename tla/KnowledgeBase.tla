---- MODULE KnowledgeBase ----
(* knowledge-base-service.ts: the documents are read anew for every reply,     *)
(* directory by directory and file by file, while somebody may edit them.      *)
CONSTANTS Base,          \* knowledge-base/
          Directories,   \* below it
          Files,
          Supported,     \* the .md and .txt among them
          Parent,        \* the directory of a file or directory: from each the
                         \* way up ends in Base
          Texts

ASSUME KnowledgeAssumption ==
    /\ Base \notin Directories /\ (Directories \cup {Base}) \cap Files = {}
    /\ Supported \subseteq Files
    /\ Parent \in [Directories \cup Files -> Directories \cup {Base}]
    /\ \A D \in SUBSET Directories : D # {} => \E d \in D : Parent[d] \notin D

VARIABLES tree,      \* the files and directories there are
          text,      \* what the files say
          step,      \* where loadContext is
          pending,   \* the directories it is about to read
          listed,    \* the documents it is about to read
          context,   \* <<document, text>> read so far
          touched    \* what has been made, removed or written since it began

vars == <<tree, text, step, pending, listed, context, touched>>

Paths == {Base} \cup Directories \cup Files

\* Nothing lies in a directory that is not there.
IsTree(paths) == \A p \in paths \ {Base} : Parent[p] \in paths

Steps == {"idle", "listing", "reading", "loaded", "missing", "failed"}

Init ==
    /\ tree \in {paths \in SUBSET Paths : IsTree(paths)}
    /\ text \in [Files -> Texts]
    /\ step = "idle"
    /\ pending = {}
    /\ listed = {}
    /\ context = {}
    /\ touched = {}

Entries(d) == {p \in tree \ {Base} : Parent[p] = d}

-----------------------------------------------------------------------------

LoadContext ==
    /\ step = "idle"
    /\ step' = "listing"
    /\ pending' = {Base}
    /\ UNCHANGED <<tree, text, listed, context, touched>>

\* Mutant of ReadDirectory: directories in a directory are passed over.
ReadDirectoryFlat(d) ==
    /\ step = "listing"
    /\ d \in pending \cap tree
    /\ pending' = pending \ {d}
    /\ listed' = listed \cup (Entries(d) \cap Supported)
    /\ step' = IF pending' = {} THEN "reading" ELSE "listing"
    /\ UNCHANGED <<tree, text, context, touched>>

\* listFilesRecursively: what readdir says is a directory is read in turn, at the
\* same time as the others.
ReadDirectory(d) ==
    /\ step = "listing"
    /\ d \in pending \cap tree
    /\ pending' = (pending \ {d}) \cup (Entries(d) \cap Directories)
    /\ listed' = listed \cup (Entries(d) \cap Supported)
    /\ step' = IF pending' = {} THEN "reading" ELSE "listing"
    /\ UNCHANGED <<tree, text, context, touched>>

\* ENOENT for whichever directory: the list is empty, and the context with it.
DirectoryMissing(d) ==
    /\ step = "listing"
    /\ d \in pending \ tree
    /\ step' = "missing"
    /\ UNCHANGED <<tree, text, pending, listed, context, touched>>

ReadDocument(f) ==
    /\ step = "reading"
    /\ f \in listed \cap tree
    /\ context' = context \cup {<<f, text[f]>>}
    /\ listed' = listed \ {f}
    /\ UNCHANGED <<tree, text, step, pending, touched>>

\* A document that is gone again, or any other error.
LoadFails ==
    /\ step \in {"listing", "reading"}
    /\ step' = "failed"
    /\ UNCHANGED <<tree, text, pending, listed, context, touched>>

Loaded ==
    /\ step = "reading"
    /\ listed = {}
    /\ step' = "loaded"
    /\ UNCHANGED <<tree, text, pending, listed, context, touched>>

-----------------------------------------------------------------------------
(* The editor.                                                                 *)

Touch(p) ==
    /\ touched' = IF step = "idle" THEN {} ELSE touched \cup {p}
    /\ UNCHANGED <<step, pending, listed, context>>

Write(f, t) ==
    /\ Parent[f] \in tree
    /\ tree' = tree \cup {f}
    /\ text' = [text EXCEPT ![f] = t]
    /\ Touch(f)

MakeDirectory(d) ==
    /\ d \notin tree
    /\ d # Base => Parent[d] \in tree
    /\ tree' = tree \cup {d}
    /\ Touch(d)
    /\ UNCHANGED text

\* A file, or a directory that is empty.
Remove(p) ==
    /\ p \in tree
    /\ Entries(p) = {}
    /\ tree' = tree \ {p}
    /\ Touch(p)
    /\ UNCHANGED text

Next ==
    \/ LoadContext \/ LoadFails \/ Loaded
    \/ \E d \in Directories \cup {Base} :
         ReadDirectory(d) \/ DirectoryMissing(d) \/ MakeDirectory(d)
    \/ \E f \in Files : ReadDocument(f) \/ \E t \in Texts : Write(f, t)
    \/ \E p \in Paths : Remove(p)

Spec == Init /\ [][Next]_vars

-----------------------------------------------------------------------------

\* Editing one document does not take another from the reply: a load that ends
\* well, while the directories stayed as they were, has each document that nobody
\* touched, as it is (knowledge-base-service.ts:22-42,64-83).
UntouchedIsUsed ==
    /\ step \in {"loaded", "missing"}
    /\ touched \cap (Directories \cup {Base}) = {}
    /\ Base \in tree
    => \A f \in (Supported \cap tree) \ touched : <<f, text[f]>> \in context
====

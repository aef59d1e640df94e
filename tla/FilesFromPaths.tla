--------------------------- MODULE FilesFromPaths ---------------------------
(***************************************************************************)
(* What of an upload is sent, and under which names                        *)
(* (src/storacha/filesFromPath.ts, called with one path and no options).   *)
(* Directories are walked, hidden entries are left out with all that is    *)
(* below them, and the names get rid of the directories that all the files *)
(* found have in common, which are worked out as the files are found.      *)
(*                                                                         *)
(* A path is the sequence of its parts.  Cutting the length of the common  *)
(* directories and of their separators off a path drops those parts.  The  *)
(* disk answers in any order; the walk visits entries in any order that    *)
(* has a directory before what is in it, of which the program's is one.    *)
(* The files found are then sorted by name; a set stands for that.         *)
(***************************************************************************)
EXTENDS Naturals, Sequences, SequencesExt

CONSTANTS
    Parts,    \* names of files and directories
    Roots,    \* paths the service may be called with
    Below,    \* paths of files, from a root; <<>> when the root is a file
    IsHidden(_)

ASSUME FilesConstantsOK ==
    /\ \A r \in Roots : r \in Seq(Parts) /\ r # <<>>
    /\ \A b \in Below : b \in Seq(Parts)

VARIABLES
    root,        \* the path of the call
    files,       \* the files there are
    pc,
    entries,     \* what is still to be visited
    found,       \* the files yielded so far
    commonParts  \* the directories they have in common

vars == <<root, files, pc, entries, found, commonParts>>

\* No file is a directory.
IsDisk(fs) == \A f, g \in fs : ~IsStrictPrefix(f, g)

Init ==
    /\ root \in Roots
    /\ \E below \in SUBSET Below :
          IsDisk(below) /\ below # {} /\ files = {root \o b : b \in below}
    /\ pc = "stat"
    /\ entries = {}
    /\ found = {}
    /\ commonParts = <<>>

\* readdir
EntriesOf(dir) ==
    {SubSeq(f, 1, Len(dir) + 1) : f \in {g \in files : IsStrictPrefix(dir, g)}}

Hidden(path) == IsHidden(Last(path))

\* A plausible bug: the part that differs is kept.
CutAfter(parts, name) ==
    LET differ == {i \in DOMAIN parts : i \notin DOMAIN name \/ parts[i] # name[i]}
    IN  IF differ = {} THEN parts
        ELSE SubSeq(parts, 1, CHOOSE i \in differ : \A j \in differ : i <= j)

\* The common parts end before the first one that the name does not have there.
Cut(parts, name) ==
    LET differ == {i \in DOMAIN parts : i \notin DOMAIN name \/ parts[i] # name[i]}
    IN  IF differ = {} THEN parts
        ELSE SubSeq(parts, 1, (CHOOSE i \in differ : \A j \in differ : i <= j) - 1)

\* A plausible bug: the parts of the first file include its own name.
YieldWhole(f) ==
    /\ found' = found \cup {f}
    /\ commonParts' = IF found = {} THEN f ELSE Cut(commonParts, f)

Yield(f) ==
    /\ found' = found \cup {f}
    /\ commonParts' = IF found = {} THEN Front(f) ELSE Cut(commonParts, f)

\* filesFromPath: the root is hidden, a file or a directory.
Stat ==
    /\ pc = "stat"
    /\ pc' = "walk"
    /\ \/ Hidden(root) /\ UNCHANGED <<entries, found, commonParts>>
       \/ ~Hidden(root) /\ root \in files /\ Yield(root) /\ UNCHANGED entries
       \/ /\ ~Hidden(root) /\ root \notin files
          /\ entries' = EntriesOf(root)
          /\ UNCHANGED <<found, commonParts>>
    /\ UNCHANGED <<root, files>>

\* A plausible bug: hidden directories are looked into.
SkipFilesOnly(e) ==
    /\ e \in entries
    /\ Hidden(e)
    /\ entries' = (entries \ {e}) \cup EntriesOf(e)
    /\ UNCHANGED <<root, files, pc, found, commonParts>>

\* filesFromDir: one entry.
Skip(e) ==
    /\ e \in entries
    /\ Hidden(e)
    /\ entries' = entries \ {e}
    /\ UNCHANGED <<root, files, pc, found, commonParts>>

YieldFile(e) ==
    /\ e \in entries
    /\ ~Hidden(e)
    /\ e \in files
    /\ Yield(e)
    /\ entries' = entries \ {e}
    /\ UNCHANGED <<root, files, pc>>

EnterDirectory(e) ==
    /\ e \in entries
    /\ ~Hidden(e)
    /\ e \notin files
    /\ entries' = (entries \ {e}) \cup EntriesOf(e)
    /\ UNCHANGED <<root, files, pc, found, commonParts>>

Return ==
    /\ pc = "walk"
    /\ entries = {}
    /\ pc' = "done"
    /\ UNCHANGED <<root, files, entries, found, commonParts>>

\* A stat or readdir rejects, and with it the whole call.
Reject ==
    /\ pc \in {"stat", "walk"}
    /\ pc' = "rejected"
    /\ UNCHANGED <<root, files, entries, found, commonParts>>

\* The name under which a file is sent.
Name(f) == SubSeq(f, Len(commonParts) + 1, Len(f))

Next ==
    \/ Stat
    \/ pc = "walk" /\ \E e \in entries : Skip(e) \/ YieldFile(e) \/ EnterDirectory(e)
    \/ Return \/ Reject

Spec == Init /\ [][Next]_vars

-----------------------------------------------------------------------------
(* Properties                                                              *)

\* What is sent is exactly the files none of whose parts, from the root on, is
\* hidden, whatever the order in which directories are read.
SendsVisibleFiles ==
    pc = "done" =>
        found = {f \in files : \A i \in Len(root) .. Len(f) : ~IsHidden(f[i])}

\* Each file has a name of its own, which is not empty.
NamesTellFilesApart ==
    pc = "done" =>
        \A f, g \in found : Name(f) # <<>> /\ (Name(f) = Name(g) => f = g)

\* The parts worked out file by file are the longest directory that all the
\* files found so far are in.
CommonPartsAreLongest ==
    found # {} => commonParts = LongestCommonPrefix({Front(f) : f \in found})
=============================================================================

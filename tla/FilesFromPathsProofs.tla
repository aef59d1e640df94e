------------------------ MODULE FilesFromPathsProofs ------------------------
(***************************************************************************)
(* The walk over any tree and in any order: what is sent, and under which  *)
(* names.                                                                  *)
(***************************************************************************)
EXTENDS FilesFromPaths, SequenceTheorems, FiniteSetTheorems, WellFoundedInduction, TLAPS

\* Prefixes, part by part.
Under(p, q) == Len(p) <= Len(q) /\ \A i \in 1 .. Len(p) : p[i] = q[i]

LEMMA SamePath ==
    ASSUME NEW p \in Seq(Parts), NEW q \in Seq(Parts), Under(p, q), Len(q) <= Len(p)
    PROVE  p = q
<1>1. Len(p) = Len(q) /\ \A i \in 1 .. Len(p) : p[i] = q[i]
  BY DEF Under
<1> QED
  BY <1>1, SeqEqual

\* The first parts of a path.
LEMMA FirstParts ==
    ASSUME NEW q \in Seq(Parts), NEW n \in 0 .. Len(q)
    PROVE  /\ SubSeq(q, 1, n) \in Seq(Parts)
           /\ Len(SubSeq(q, 1, n)) = n
           /\ \A i \in 1 .. n : SubSeq(q, 1, n)[i] = q[i]
           /\ Under(SubSeq(q, 1, n), q)
<1>1. n \in Int /\ 1 \in Int /\ \A i \in 1 .. n : q[i] \in Parts
  OBVIOUS
<1>2. /\ SubSeq(q, 1, n) \in Seq(Parts)
      /\ Len(SubSeq(q, 1, n)) = IF 1 <= n THEN n - 1 + 1 ELSE 0
      /\ \A i \in 1 .. n - 1 + 1 : SubSeq(q, 1, n)[i] = q[1 + i - 1]
  BY <1>1, SubSeqProperties
<1>3. Len(SubSeq(q, 1, n)) = n /\ \A i \in 1 .. n : SubSeq(q, 1, n)[i] = q[i]
  BY <1>2
<1> QED
  BY <1>2, <1>3 DEF Under

LEMMA PrefixesAreUnder ==
    ASSUME NEW p \in Seq(Parts), NEW q \in Seq(Parts)
    PROVE  IsPrefix(p, q) <=> Under(p, q)
<1>1. Len(p) <= Len(q) => Len(p) \in 0 .. Len(q)
  OBVIOUS
<1>2. SubSeq(p, 1, Len(p)) = p
  BY SubSeqFull
<1>3. ASSUME Len(p) <= Len(q), p = SubSeq(q, 1, Len(p)) PROVE Under(p, q)
  BY <1>1, <1>3, FirstParts
<1>4. ASSUME Under(p, q) PROVE p = SubSeq(q, 1, Len(p))
  <2>1. Len(p) <= Len(q)
    BY <1>4 DEF Under
  <2>2. /\ SubSeq(q, 1, Len(p)) \in Seq(Parts)
        /\ Len(SubSeq(q, 1, Len(p))) = Len(p)
        /\ \A i \in 1 .. Len(p) : SubSeq(q, 1, Len(p))[i] = q[i]
    BY <1>1, <2>1, FirstParts
  <2>3. Under(p, SubSeq(q, 1, Len(p))) /\ Len(SubSeq(q, 1, Len(p))) <= Len(p)
    BY <1>4, <2>2 DEF Under
  <2> QED
    BY <2>2, <2>3, SamePath
<1>5. Under(p, q) => Len(p) <= Len(q)
  BY DEF Under
<1> QED
  BY <1>2, <1>3, <1>4, <1>5 DEF IsPrefix

\* A set of indices that is not empty has a least one.
LEMMA LeastIndex ==
    ASSUME NEW I \in SUBSET Nat, I # {}
    PROVE  \E i \in I : \A j \in I : i <= j
<1> DEFINE T == {0 .. i : i \in I}
<1>1. T \subseteq FiniteSubsetsOf(Nat) /\ T # {}
  <2>1. ASSUME NEW i \in I PROVE IsFiniteSet(0 .. i) /\ (0 .. i) \in SUBSET Nat
    BY <2>1, FS_Interval
  <2> QED
    BY <2>1 DEF FiniteSubsetsOf
<1>2. \E t \in T : \A u \in T : ~ (<<u, t>> \in StrictSubsetOrdering(Nat))
  BY <1>1, FS_StrictSubsetOrderingWellFounded, WFMin
<1>3. PICK i \in I : \A u \in T : ~ (<<u, 0 .. i>> \in StrictSubsetOrdering(Nat))
  BY <1>2
<1>4. ASSUME NEW j \in I PROVE i <= j
  <2>1. ~ (<<0 .. j, 0 .. i>> \in StrictSubsetOrdering(Nat))
    BY <1>3
  <2>2. ~ (0 .. j \subseteq 0 .. i /\ 0 .. j # 0 .. i)
    BY <2>1 DEF StrictSubsetOrdering
  <2>3. j < i => 0 .. j \subseteq 0 .. i /\ i \notin 0 .. j /\ i \in 0 .. i
    OBVIOUS
  <2> QED
    BY <2>2, <2>3
<1> QED
  BY <1>4

\* One more file makes the common parts the longest that it shares with them.
LEMMA CutsToCommon ==
    ASSUME NEW parts \in Seq(Parts), NEW name \in Seq(Parts)
    PROVE  /\ Cut(parts, name) \in Seq(Parts)
           /\ Under(Cut(parts, name), parts)
           /\ Under(Cut(parts, name), name)
           /\ \A p \in Seq(Parts) :
                 Under(p, parts) /\ Under(p, name) => Under(p, Cut(parts, name))
<1> DEFINE differ == {i \in DOMAIN parts : i \notin DOMAIN name \/ parts[i] # name[i]}
           least == CHOOSE i \in differ : \A j \in differ : i <= j
<1>1. DOMAIN parts = 1 .. Len(parts) /\ DOMAIN name = 1 .. Len(name)
      /\ Len(parts) \in Nat /\ Len(name) \in Nat
  OBVIOUS
<1>2. CASE differ = {}
  <2>1. Cut(parts, name) = parts
    BY <1>2 DEF Cut
  <2>2. Len(parts) <= Len(name) /\ \A i \in 1 .. Len(parts) : parts[i] = name[i]
    <3>1. \A i \in 1 .. Len(parts) : i \in 1 .. Len(name) /\ parts[i] = name[i]
      BY <1>1, <1>2
    <3>2. Len(parts) # 0 => Len(parts) \in 1 .. Len(parts)
      BY <1>1
    <3> QED
      BY <1>1, <3>1, <3>2
  <2> QED
    BY <1>1, <2>1, <2>2 DEF Under
<1>3. CASE differ # {}
  <2>1. differ \in SUBSET Nat
    BY <1>1
  <2>2. least \in differ /\ \A j \in differ : least <= j
    BY <1>3, <2>1, LeastIndex
  <2> HIDE DEF least
  <2>3. least - 1 \in 0 .. Len(parts) /\ least \in 1 .. Len(parts)
    BY <1>1, <2>2
  <2>4. Cut(parts, name) = SubSeq(parts, 1, least - 1)
    BY <1>3 DEF Cut, least
  <2>5. \A i \in 1 .. least - 1 : i \in 1 .. Len(name) /\ parts[i] = name[i]
    BY <1>1, <2>2, <2>3
  <2>6. least - 1 <= Len(name)
    BY <1>1, <2>3, <2>5
  <2> DEFINE c == SubSeq(parts, 1, least - 1)
  <2>7. c \in Seq(Parts) /\ Len(c) = least - 1 /\ Under(c, parts)
        /\ \A i \in 1 .. least - 1 : c[i] = parts[i]
    BY <2>3, FirstParts
  <2> HIDE DEF c
  <2>8. Under(c, name)
    BY <2>5, <2>6, <2>7 DEF Under
  <2>9. ASSUME NEW p \in Seq(Parts), Under(p, parts), Under(p, name) PROVE Under(p, c)
    <3>1. Len(p) \in Nat /\ Len(p) <= Len(parts) /\ Len(p) <= Len(name)
          /\ \A i \in 1 .. Len(p) : parts[i] = name[i] /\ p[i] = parts[i]
      BY <2>9 DEF Under
    <3>2. least \notin 1 .. Len(p)
      BY <1>1, <2>2, <3>1
    <3>3. Len(p) <= least - 1
      BY <2>3, <3>1, <3>2
    <3> QED
      BY <2>3, <2>7, <3>1, <3>3 DEF Under
  <2> QED
    BY <2>4, <2>7, <2>8, <2>9 DEF c
<1> QED
  BY <1>2, <1>3

-----------------------------------------------------------------------------
(* The invariant of the walk                                               *)

Typed ==
    /\ root \in Seq(Parts) /\ root # <<>>
    /\ files \subseteq Seq(Parts)
    /\ pc \in {"stat", "walk", "done", "rejected"}
    /\ entries \subseteq Seq(Parts)
    /\ found \subseteq files
    /\ commonParts \in Seq(Parts)

\* The files are below the root, and none is a directory of another.
Tree ==
    /\ \A f \in files : Under(root, f)
    /\ \A f, g \in files : Under(f, g) => f = g

\* An entry that is to be visited is on the way to a file and was come to
\* through directories that are not hidden ...
Pending ==
    \A e \in entries :
        /\ Len(root) < Len(e)
        /\ \E f \in files : Under(e, f)
        /\ \A i \in Len(root) .. Len(e) - 1 : ~IsHidden(e[i])

Visible(f) == \A i \in Len(root) .. Len(f) : ~IsHidden(f[i])

\* ... every file that is to be sent has been found or is behind one of them ...
Reached ==
    /\ \A f \in found : Visible(f)
    /\ pc \in {"walk", "done"} =>
          \A f \in files : Visible(f) => f \in found \/ \E e \in entries : Under(e, f)
    /\ pc = "stat" => entries = {} /\ found = {}
    /\ pc = "done" => entries = {}

\* ... and the common parts are the longest directory of those found.
Shared(p) == \A f \in found : Under(p, f) /\ Len(p) < Len(f)

Common ==
    found # {} =>
        /\ Shared(commonParts)
        /\ \A p \in Seq(Parts) : Shared(p) => Under(p, commonParts)

WalkInv == Typed /\ Tree /\ Pending /\ Reached /\ Common

LEMMA WalkInit == Init => WalkInv
<1> SUFFICES ASSUME Init PROVE WalkInv
  OBVIOUS
<1>1. PICK below \in SUBSET Below :
        IsDisk(below) /\ below # {} /\ files = {root \o b : b \in below}
  BY DEF Init
<1>2. root \in Seq(Parts) /\ root # <<>> /\ \A b \in below : b \in Seq(Parts)
  BY FilesConstantsOK DEF Init
<1>3. \A b \in below : /\ root \o b \in Seq(Parts)
                       /\ Len(root \o b) = Len(root) + Len(b)
                       /\ \A i \in 1 .. Len(root) + Len(b) :
                            (root \o b)[i] = IF i <= Len(root) THEN root[i] ELSE b[i - Len(root)]
  BY <1>2, ConcatProperties
<1>4. Typed
  BY <1>1, <1>2, <1>3, EmptySeq DEF Typed, Init
<1>5. \A f \in files : Under(root, f)
  BY <1>1, <1>2, <1>3 DEF Under
<1>6. ASSUME NEW f \in files, NEW g \in files, Under(f, g) PROVE f = g
  <2>1. PICK a \in below, b \in below : f = root \o a /\ g = root \o b
    BY <1>1
  <2>2. /\ Len(a) \in Nat /\ Len(b) \in Nat /\ Len(root) \in Nat
        /\ Len(f) = Len(root) + Len(a) /\ Len(g) = Len(root) + Len(b)
        /\ \A i \in 1 .. Len(a) : f[i + Len(root)] = a[i]
        /\ \A i \in 1 .. Len(b) : g[i + Len(root)] = b[i]
    BY <1>2, <1>3, <2>1
  <2>3. Len(f) <= Len(g) /\ \A i \in 1 .. Len(f) : f[i] = g[i]
    BY <1>6 DEF Under
  <2>4. Len(a) <= Len(b)
    BY <2>2, <2>3
  <2>5. ASSUME NEW i \in 1 .. Len(a) PROVE a[i] = b[i]
    BY <2>2, <2>3, <2>4
  <2>6. IsPrefix(a, b)
    BY <1>2, <2>4, <2>5, PrefixesAreUnder DEF Under
  <2>7. a = b
    BY <1>1, <2>6 DEF IsDisk, IsStrictPrefix
  <2> QED
    BY <2>1, <2>7
<1>7. Pending /\ Reached /\ Common
  BY DEF Init, Pending, Reached, Common
<1> QED
  BY <1>4, <1>5, <1>6, <1>7 DEF WalkInv, Tree

\* What is in a directory is on the way to the files below it, and leads to
\* all of them.
LEMMA EntriesLeadOn ==
    ASSUME Typed, NEW dir \in Seq(Parts)
    PROVE  /\ \A e \in EntriesOf(dir) :
                 /\ e \in Seq(Parts) /\ Len(e) = Len(dir) + 1
                 /\ Under(dir, e)
                 /\ \E f \in files : Under(e, f)
           /\ \A f \in files : Under(dir, f) /\ f # dir =>
                 \E e \in EntriesOf(dir) : Under(e, f)
<1>1. ASSUME NEW f \in files, Under(dir, f), f # dir
      PROVE  LET e == SubSeq(f, 1, Len(dir) + 1)
             IN  e \in Seq(Parts) /\ Len(e) = Len(dir) + 1 /\ Under(dir, e) /\ Under(e, f)
  <2>1. f \in Seq(Parts)
    BY DEF Typed
  <2>2. Len(dir) + 1 \in 0 .. Len(f)
    <3>1. ~ (Len(f) <= Len(dir))
      BY <1>1, <2>1, SamePath
    <3> QED
      BY <2>1, <3>1
  <2> DEFINE e == SubSeq(f, 1, Len(dir) + 1)
  <2>3. /\ e \in Seq(Parts) /\ Len(e) = Len(dir) + 1 /\ Under(e, f)
        /\ \A i \in 1 .. Len(dir) + 1 : e[i] = f[i]
    BY <2>1, <2>2, FirstParts
  <2> HIDE DEF e
  <2>4. Under(dir, e)
    BY <1>1, <2>3 DEF Under
  <2> QED
    BY <2>3, <2>4 DEF e
<1>2. \A f \in files : IsStrictPrefix(dir, f) <=> Under(dir, f) /\ f # dir
  BY PrefixesAreUnder DEF Typed, IsStrictPrefix
<1> QED
  BY <1>1, <1>2 DEF EntriesOf

\* The directories of a file are shared by it, and a file of no other file.
LEMMA YieldStep ==
    ASSUME WalkInv, NEW f \in files, Yield(f), UNCHANGED files
    PROVE  found' = found \cup {f} /\ commonParts' \in Seq(Parts) /\ Common'
<1>1. f \in Seq(Parts) /\ f # <<>> /\ Len(f) \in Nat \ {0} /\ found \subseteq Seq(Parts)
      /\ commonParts \in Seq(Parts)
  BY EmptySeq DEF WalkInv, Typed, Tree, Under
<1>2. found' = found \cup {f}
  BY DEF Yield
<1>3. CASE found = {}
  <2>1. commonParts' = SubSeq(f, 1, Len(f) - 1)
    BY <1>3 DEF Yield, Front
  <2>2. /\ commonParts' \in Seq(Parts) /\ Len(commonParts') = Len(f) - 1 /\ Under(commonParts', f)
        /\ \A i \in 1 .. Len(f) - 1 : commonParts'[i] = f[i]
    <3>1. Len(f) - 1 \in 0 .. Len(f)
      BY <1>1
    <3> DEFINE n == Len(f) - 1
    <3> HIDE DEF n
    <3>2. /\ SubSeq(f, 1, n) \in Seq(Parts) /\ Len(SubSeq(f, 1, n)) = n /\ Under(SubSeq(f, 1, n), f)
          /\ \A i \in 1 .. n : SubSeq(f, 1, n)[i] = f[i]
      BY <1>1, <3>1, FirstParts DEF n
    <3> QED
      BY <2>1, <3>2 DEF n
  <2>3. \A p \in Seq(Parts) : Under(p, f) /\ Len(p) < Len(f) => Under(p, commonParts')
    BY <1>1, <2>2 DEF Under
  <2> QED
    BY <1>1, <1>2, <1>3, <2>2, <2>3 DEF Common, Shared
<1>4. CASE found # {}
  <2>1. commonParts' = Cut(commonParts, f)
    BY <1>4 DEF Yield
  <2> DEFINE c == Cut(commonParts, f)
  <2>2. /\ c \in Seq(Parts) /\ Under(c, commonParts) /\ Under(c, f)
        /\ \A p \in Seq(Parts) : Under(p, commonParts) /\ Under(p, f) => Under(p, c)
    BY <1>1, CutsToCommon
  <2> HIDE DEF c
  <2>3. Shared(commonParts) /\ \A p \in Seq(Parts) : Shared(p) => Under(p, commonParts)
    BY <1>4 DEF WalkInv, Common
  <2>4. ASSUME NEW g \in found PROVE Under(c, g) /\ Len(c) < Len(g)
    <3>1. Under(commonParts, g) /\ Len(commonParts) < Len(g)
      BY <2>3 DEF Shared
    <3> QED
      BY <1>1, <2>2, <3>1 DEF Under
  <2>5. Len(c) < Len(f)
    <3>1. SUFFICES ASSUME ~ (Len(c) < Len(f)) PROVE FALSE
      OBVIOUS
    <3>2. c = f
      BY <1>1, <2>2, <3>1, SamePath
    <3>3. PICK g \in found : TRUE
      BY <1>4
    <3>4. Under(f, g) /\ Len(f) < Len(g) /\ g \in files
      BY <2>4, <3>2 DEF WalkInv, Typed
    <3>5. f = g
      BY <3>4 DEF WalkInv, Tree
    <3> QED
      BY <1>1, <3>4, <3>5
  <2>6. ASSUME NEW p \in Seq(Parts), \A g \in found \cup {f} : Under(p, g) /\ Len(p) < Len(g)
        PROVE  Under(p, c)
    BY <2>2, <2>3, <2>6 DEF Shared
  <2> QED
    BY <1>2, <2>1, <2>2, <2>4, <2>5, <2>6 DEF c, Common, Shared
<1> QED
  BY <1>2, <1>3, <1>4

LEMMA StatStep == ASSUME WalkInv, Stat PROVE WalkInv'
<1>1. UNCHANGED <<root, files>> /\ pc = "stat" /\ pc' = "walk" /\ entries = {} /\ found = {}
      /\ root \in Seq(Parts) /\ root # <<>> /\ Len(root) \in Nat \ {0}
      /\ \A f \in files : Under(root, f) /\ f \in Seq(Parts) /\ root[Len(root)] = f[Len(root)]
  <2>1. root \in Seq(Parts) /\ root # <<>> /\ Len(root) \in Nat \ {0}
    BY EmptySeq DEF WalkInv, Typed
  <2>2. Len(root) \in 1 .. Len(root)
    BY <2>1
  <2> QED
    BY <2>1, <2>2 DEF WalkInv, Typed, Tree, Reached, Stat, Under
<1>2. CASE Hidden(root) /\ UNCHANGED <<entries, found, commonParts>>
  <2>1. ASSUME NEW f \in files PROVE ~Visible(f)
    <3>1. Len(root) \in Len(root) .. Len(f) /\ IsHidden(f[Len(root)])
      BY <1>1, <1>2 DEF Hidden, Last, Under
    <3> QED
      BY <3>1 DEF Visible
  <2>2. Reached'
    BY <1>1, <1>2, <2>1 DEF Reached, Visible
  <2> QED
    BY <1>1, <1>2, <2>2 DEF WalkInv, Typed, Tree, Pending, Common
<1>3. CASE ~Hidden(root) /\ root \in files /\ Yield(root) /\ UNCHANGED entries
  <2>1. found' = {root} /\ commonParts' \in Seq(Parts) /\ Common'
    BY <1>1, <1>3, YieldStep
  <2>2. \A f \in files : f = root
    BY <1>1, <1>3 DEF WalkInv, Tree
  <2>3. Visible(root)
    BY <1>1, <1>3 DEF Visible, Hidden, Last
  <2>4. Reached'
    BY <1>1, <2>1, <2>2, <2>3 DEF Reached, Visible
  <2> QED
    BY <1>1, <1>3, <2>1, <2>4 DEF WalkInv, Typed, Tree, Pending
<1>4. CASE /\ ~Hidden(root) /\ root \notin files
           /\ entries' = EntriesOf(root) /\ UNCHANGED <<found, commonParts>>
  <2>1. /\ \A e \in entries' : /\ e \in Seq(Parts) /\ Len(e) = Len(root) + 1
                               /\ Under(root, e) /\ \E f \in files : Under(e, f)
        /\ \A f \in files : \E e \in entries' : Under(e, f)
    BY <1>1, <1>4, EntriesLeadOn DEF WalkInv
  <2>2. \A e \in entries' : e[Len(root)] = root[Len(root)]
    BY <1>1, <2>1 DEF Under
  <2>3. Pending'
    BY <1>1, <1>4, <2>1, <2>2 DEF Pending, Hidden, Last
  <2>4. Reached'
    BY <1>1, <1>4, <2>1 DEF Reached
  <2> QED
    BY <1>1, <1>4, <2>1, <2>3, <2>4 DEF WalkInv, Typed, Tree, Common
<1> QED
  BY <1>2, <1>3, <1>4 DEF Stat

\* A file behind an entry is behind what the entry is replaced with, unless
\* the entry is hidden or the file itself.
LEMMA EntryStep ==
    ASSUME WalkInv, pc = "walk", NEW e \in entries, Skip(e) \/ YieldFile(e) \/ EnterDirectory(e)
    PROVE  WalkInv'
<1>1. UNCHANGED <<root, files, pc>> /\ e \in Seq(Parts) /\ root \in Seq(Parts)
      /\ Len(root) < Len(e) /\ Len(root) \in Nat \ {0} /\ Len(e) \in Nat \ {0}
      /\ \A i \in Len(root) .. Len(e) - 1 : ~IsHidden(e[i])
      /\ \A f \in files : Under(e, f) => e[Len(e)] = f[Len(e)]
  <2>1. e \in Seq(Parts) /\ root \in Seq(Parts) /\ root # <<>> /\ Len(root) < Len(e)
        /\ \A i \in Len(root) .. Len(e) - 1 : ~IsHidden(e[i])
    BY DEF WalkInv, Typed, Pending
  <2>2. Len(root) \in Nat \ {0} /\ Len(e) \in Nat \ {0} /\ Len(e) \in 1 .. Len(e)
    BY <2>1, EmptySeq
  <2> QED
    BY <2>1, <2>2 DEF Under, Skip, YieldFile, EnterDirectory
<1>2. CASE Skip(e)
  <2>1. ASSUME NEW f \in files, Under(e, f) PROVE ~Visible(f)
    <3>1. IsHidden(f[Len(e)]) /\ Len(e) \in Len(root) .. Len(f)
      BY <1>1, <1>2, <2>1 DEF Skip, Hidden, Last, Under, WalkInv, Typed
    <3> QED
      BY <3>1 DEF Visible
  <2>2. entries' = entries \ {e} /\ UNCHANGED <<found, commonParts>>
    BY <1>2 DEF Skip
  <2>3. Reached'
    BY <1>1, <2>1, <2>2 DEF WalkInv, Reached, Visible
  <2> QED
    BY <1>1, <2>2, <2>3 DEF WalkInv, Typed, Tree, Pending, Common, Shared
<1>3. CASE YieldFile(e)
  <2>1. e \in files /\ ~IsHidden(e[Len(e)]) /\ entries' = entries \ {e}
    BY <1>3 DEF YieldFile, Hidden, Last
  <2>2. found' = found \cup {e} /\ commonParts' \in Seq(Parts) /\ Common'
    BY <1>1, <1>3, <2>1, YieldStep DEF YieldFile
  <2>3. Visible(e)
    BY <1>1, <2>1 DEF Visible
  <2>4. \A f \in files : Under(e, f) => f = e
    BY <2>1 DEF WalkInv, Tree
  <2>5. Reached'
    BY <1>1, <2>1, <2>2, <2>3, <2>4 DEF WalkInv, Reached, Visible
  <2> QED
    BY <1>1, <2>1, <2>2, <2>5 DEF WalkInv, Typed, Tree, Pending
<1>4. CASE EnterDirectory(e)
  <2>1. ~IsHidden(e[Len(e)]) /\ e \notin files /\ UNCHANGED <<found, commonParts>>
        /\ entries' = (entries \ {e}) \cup EntriesOf(e)
    BY <1>4 DEF EnterDirectory, Hidden, Last
  <2>2. /\ \A d \in EntriesOf(e) : /\ d \in Seq(Parts) /\ Len(d) = Len(e) + 1
                                  /\ Under(e, d) /\ \E f \in files : Under(d, f)
        /\ \A f \in files : Under(e, f) => \E d \in EntriesOf(e) : Under(d, f)
    BY <1>1, <2>1, EntriesLeadOn DEF WalkInv
  <2>3. ASSUME NEW d \in EntriesOf(e), NEW i \in Len(root) .. Len(d) - 1
        PROVE  ~IsHidden(d[i])
    <3>1. i \in 1 .. Len(e) /\ i \in Len(root) .. Len(e) /\ d[i] = e[i]
      BY <1>1, <2>2 DEF Under
    <3> QED
      BY <1>1, <2>1, <3>1
  <2>4. Pending'
    BY <1>1, <2>1, <2>2, <2>3 DEF WalkInv, Pending
  <2>5. Reached'
    BY <1>1, <2>1, <2>2 DEF WalkInv, Reached, Visible
  <2>6. Typed' /\ Tree' /\ Common'
    BY <1>1, <2>1, <2>2 DEF WalkInv, Typed, Tree, Common, Shared
  <2> QED
    BY <2>4, <2>5, <2>6 DEF WalkInv
<1> QED
  BY <1>2, <1>3, <1>4

LEMMA WalkNext == WalkInv /\ [Next]_vars => WalkInv'
<1> SUFFICES ASSUME WalkInv, [Next]_vars PROVE WalkInv'
  OBVIOUS
<1>1. CASE Stat
  BY <1>1, StatStep
<1>2. CASE pc = "walk" /\ \E e \in entries : Skip(e) \/ YieldFile(e) \/ EnterDirectory(e)
  BY <1>2, EntryStep
<1>3. CASE Return \/ Reject \/ UNCHANGED vars
  BY <1>3 DEF Return, Reject, vars, WalkInv, Typed, Tree, Pending, Reached, Visible, Common, Shared
<1> QED
  BY <1>1, <1>2, <1>3 DEF Next

LEMMA WalkInvariant == Spec => []WalkInv
BY WalkInit, WalkNext, PTL DEF Spec

-----------------------------------------------------------------------------

\* Whatever the tree and the order in which its directories are read, the files
\* sent are those none of whose parts is hidden.
THEOREM VisibleFilesAreSent == Spec => []SendsVisibleFiles
<1>1. ASSUME WalkInv PROVE SendsVisibleFiles
  BY <1>1 DEF WalkInv, Typed, Reached, Visible, SendsVisibleFiles
<1> QED
  BY <1>1, WalkInvariant, PTL

\* The names under which the files of a tree are sent differ and are not empty.
THEOREM FilesHaveNames == Spec => []NamesTellFilesApart
<1>1. ASSUME WalkInv, NEW f \in found
      PROVE  LET c == Len(commonParts)
             IN  /\ f \in Seq(Parts) /\ c \in Nat /\ c < Len(f)
                 /\ \A i \in 1 .. c : f[i] = commonParts[i]
                 /\ Len(Name(f)) = Len(f) - c
                 /\ \A i \in 1 .. Len(f) - c : Name(f)[i] = f[c + i]
  <2> DEFINE c == Len(commonParts)
  <2>1. /\ f \in Seq(Parts) /\ c \in Nat /\ c < Len(f)
        /\ \A i \in 1 .. c : f[i] = commonParts[i]
    BY <1>1 DEF WalkInv, Typed, Common, Shared, Under
  <2> HIDE DEF c
  <2>2. c + 1 \in Int /\ Len(f) \in Int /\ \A i \in c + 1 .. Len(f) : f[i] \in Parts
    BY <2>1
  <2>3. /\ Len(SubSeq(f, c + 1, Len(f))) = IF c + 1 <= Len(f) THEN Len(f) - (c + 1) + 1 ELSE 0
        /\ \A i \in 1 .. Len(f) - (c + 1) + 1 : SubSeq(f, c + 1, Len(f))[i] = f[c + 1 + i - 1]
    BY <2>2, SubSeqProperties
  <2>4. /\ Len(SubSeq(f, c + 1, Len(f))) = Len(f) - c
        /\ \A i \in 1 .. Len(f) - c : SubSeq(f, c + 1, Len(f))[i] = f[c + i]
    BY <2>1, <2>3
  <2> QED
    BY <2>1, <2>4 DEF Name, c
<1>2. ASSUME WalkInv, NEW f \in found PROVE Name(f) # <<>>
  BY <1>1, <1>2
<1>3. ASSUME WalkInv, NEW f \in found, NEW g \in found, Name(f) = Name(g) PROVE f = g
  <2> DEFINE c == Len(commonParts)
  <2>1. /\ f \in Seq(Parts) /\ g \in Seq(Parts) /\ c \in Nat /\ c < Len(f) /\ Len(f) = Len(g)
        /\ \A i \in 1 .. c : f[i] = g[i]
        /\ \A i \in 1 .. Len(f) - c : f[c + i] = g[c + i]
    <3> DEFINE Parted(h) ==
                 /\ h \in Seq(Parts) /\ c \in Nat /\ c < Len(h)
                 /\ \A i \in 1 .. c : h[i] = commonParts[i]
                 /\ Len(Name(h)) = Len(h) - c
                 /\ \A i \in 1 .. Len(h) - c : Name(h)[i] = h[c + i]
    <3>1. Parted(f) /\ Parted(g)
      BY <1>1, <1>3
    <3>2. Len(f) = Len(g) /\ Name(f) = Name(g)
      BY <1>3, <3>1
    <3> QED
      BY <3>1, <3>2
  <2> HIDE DEF c
  <2>2. ASSUME NEW i \in 1 .. Len(f) PROVE f[i] = g[i]
    <3>1. CASE i <= c
      BY <2>1, <3>1
    <3>2. CASE i > c
      <4>1. i - c \in 1 .. Len(f) - c /\ c + (i - c) = i
        BY <2>1, <3>2
      <4> QED
        BY <2>1, <4>1
    <3> QED
      BY <2>1, <3>1, <3>2
  <2>3. Under(f, g)
    BY <2>1, <2>2 DEF Under
  <2> QED
    BY <2>1, <2>3, SamePath
<1>4. WalkInv => NamesTellFilesApart
  BY <1>2, <1>3 DEF NamesTellFilesApart
<1> QED
  BY <1>4, WalkInvariant, PTL

\* What is worked out file by file is the longest prefix that the directories
\* of all the files found have in common.
THEOREM CommonPartsAreTheLongest == Spec => []CommonPartsAreLongest
<1>1. ASSUME WalkInv, found # {}
      PROVE  commonParts = LongestCommonPrefix({Front(f) : f \in found})
  <2> DEFINE S == {Front(f) : f \in found}
             C == CommonPrefixes(S)
  <2>1. ASSUME NEW f \in found
        PROVE  /\ f \in Seq(Parts) /\ Front(f) \in Seq(Parts)
               /\ \A p \in Seq(Parts) : Under(p, Front(f)) <=> Under(p, f) /\ Len(p) < Len(f)
    <3>1. f \in Seq(Parts) /\ Len(f) \in Nat \ {0}
      BY <1>1 DEF WalkInv, Typed, Common, Shared
    <3> DEFINE n == Len(f) - 1
    <3>2. n \in 0 .. Len(f)
      BY <3>1
    <3> HIDE DEF n
    <3>3. /\ SubSeq(f, 1, n) \in Seq(Parts) /\ Len(SubSeq(f, 1, n)) = n
          /\ \A i \in 1 .. n : SubSeq(f, 1, n)[i] = f[i]
      BY <3>1, <3>2, FirstParts
    <3>4. Front(f) \in Seq(Parts) /\ Len(Front(f)) = Len(f) - 1
          /\ \A i \in 1 .. Len(f) - 1 : Front(f)[i] = f[i]
      BY <3>3 DEF Front, n
    <3> QED
      BY <3>1, <3>4 DEF Under
  <2>2. S \subseteq Seq(Parts) /\ S # {}
    BY <1>1, <2>1
  <2>3. \A q \in S : Prefixes(q) = {p \in Seq(Parts) : Under(p, q)}
    <3>1. ASSUME NEW q \in Seq(Parts) PROVE Prefixes(q) = {p \in Seq(Parts) : Under(p, q)}
      <4>1. ASSUME NEW n \in 0 .. Len(q)
            PROVE  SubSeq(q, 1, n) \in Seq(Parts) /\ Under(SubSeq(q, 1, n), q)
        BY FirstParts
      <4>2. ASSUME NEW p \in Seq(Parts), Under(p, q)
            PROVE  \E n \in 0 .. Len(q) : p = SubSeq(q, 1, n)
        <5>1. IsPrefix(p, q)
          BY <4>2, PrefixesAreUnder
        <5>2. SubSeq(p, 1, Len(p)) = p
          BY SubSeqFull
        <5>3. Len(p) \in 0 .. Len(q) /\ p = SubSeq(q, 1, Len(p))
          BY <5>1, <5>2 DEF IsPrefix
        <5> QED
          BY <5>3
      <4> QED
        BY <4>1, <4>2 DEF Prefixes
    <3> QED
      BY <2>2, <3>1
  <2>4. C = {p \in Seq(Parts) : \A q \in S : Under(p, q)}
    <3>1. \A p \in Seq(Parts), q \in S : IsPrefix(p, q) <=> Under(p, q)
      BY <2>2, PrefixesAreUnder
    <3>2. UNION {Prefixes(q) : q \in S} = {p \in Seq(Parts) : \E q \in S : Under(p, q)}
      BY <2>3
    <3> QED
      BY <2>2, <3>1, <3>2 DEF CommonPrefixes
  <2>5. C = {p \in Seq(Parts) : Shared(p)}
    BY <2>1, <2>4 DEF Shared
  <2>6. /\ commonParts \in C
        /\ \A p \in C : p \in Seq(Parts) /\ Under(p, commonParts)
    BY <1>1, <2>5 DEF WalkInv, Typed, Common
  <2>7. commonParts \in Seq(Parts) /\ \A p \in C : Len(p) <= Len(commonParts)
    BY <2>6 DEF Under
  <2>8. \A p \in C : (\A o \in C : Len(o) <= Len(p)) => p = commonParts
    BY <2>6, <2>7, SamePath
  <2> HIDE DEF C
  <2>9. commonParts = CHOOSE p \in C : \A o \in C : Len(o) <= Len(p)
    BY <2>6, <2>7, <2>8
  <2> QED
    BY <2>9 DEF LongestCommonPrefix, C
<1>2. WalkInv => CommonPartsAreLongest
  BY <1>1 DEF CommonPartsAreLongest
<1> QED
  BY <1>2, WalkInvariant, PTL
=============================================================================

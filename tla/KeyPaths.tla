------------------------------ MODULE KeyPaths ------------------------------
(***************************************************************************)
(* The mirror layout of internal/store/keypath.go: which names are keys,   *)
(* and where the file and the sidecar of a key are.  A name is a sequence  *)
(* of bytes; a path is the sequence of its components, from the root of    *)
(* the store or of the metadata tree.                                      *)
(***************************************************************************)
EXTENDS Naturals, Sequences, FiniteSets, SequencesExt

CONSTANTS
  Slash, Dot,      \* the bytes "/" and "."
  Banned,          \* the bytes no key may contain: NUL, what is not UTF-8
  Json, DirMarker, \* the endings ".json" and ".dirmarker", a number each
  Bucket,          \* the name of the bucket
  MaxKeyLength

ASSUME KeyPathsType ==
  /\ {Slash, Dot, Json, DirMarker} \cup Banned \subseteq Nat
  /\ Bucket \in Seq(Nat) /\ MaxKeyLength \in Nat

\* strings.Split at the slashes.
Segments(name) ==
  LET cuts   == {0, Len(name) + 1} \cup {n \in DOMAIN name : name[n] = Slash}
      cut(i) == CHOOSE c \in cuts : Cardinality({d \in cuts : d < c}) = i
  IN [i \in 1 .. Cardinality(cuts) - 1 |-> SubSeq(name, cut(i - 1) + 1, cut(i) - 1)]

\* Mutant: dot segments are left to filepath.Join.
ValidateKey_Dots(name) ==
  LET segs == Segments(name) IN
    /\ name # <<>> /\ Len(name) <= MaxKeyLength
    /\ \A n \in DOMAIN name : name[n] \notin Banned
    /\ \A i \in DOMAIN segs : segs[i] # <<>> \/ (i = Len(segs) /\ i > 1)

\* A key has no empty segment, except for one trailing slash, and no dot segment.
ValidateKey(name) ==
  LET segs == Segments(name) IN
    /\ name # <<>> /\ Len(name) <= MaxKeyLength
    /\ \A n \in DOMAIN name : name[n] \notin Banned
    /\ \A i \in DOMAIN segs :
         /\ segs[i] # <<>> \/ (i = Len(segs) /\ i > 1)
         /\ segs[i] \notin {<<Dot>>, <<Dot, Dot>>}

IsDirMarker(key) == key # <<>> /\ Last(key) = Slash

Base == <<Bucket>>

\* filepath.Join cleans what it joins.
Join(base, segs) ==
  LET path[i \in 0 .. Len(segs)] ==
        CASE i = 0 -> base
          [] i > 0 /\ segs[i] \in {<<>>, <<Dot>>} -> path[i - 1]
          [] i > 0 /\ segs[i] = <<Dot, Dot>> ->
               SubSeq(path[i - 1], 1, Len(path[i - 1]) - 1)
          [] OTHER -> Append(path[i - 1], segs[i])
  IN path[Len(segs)]

WithinDir(dir, path) == IsStrictPrefix(dir, path)

\* The error of a name that is no key, or whose file would be elsewhere.
NoPath == <<>>

KeyToPath(key) ==
  LET path == Join(Base, Segments(key)) IN
    IF ValidateKey(key) /\ WithinDir(Base, path) THEN path ELSE NoPath

\* PathToKey: the components below the bucket, joined by slashes.
PathToKey(path) ==
  LET first == Len(Base) + 1
      name[n \in first .. Len(path)] ==
        IF n = first THEN path[n] ELSE name[n - 1] \o <<Slash>> \o path[n]
  IN name[Len(path)]

\* metaPath: the sidecar, in a tree of its own.
MetaPath(key) ==
  LET path == KeyToPath(key)
      suffix == IF IsDirMarker(key) THEN <<DirMarker, Json>> ELSE <<Json>>
  IN Append(Front(path), Last(path) \o suffix)
=============================================================================

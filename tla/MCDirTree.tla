------------------------------ MODULE MCDirTree ------------------------------
(***************************************************************************)
(* Small instances of DirTree.  Names are numbers; a workload is a mix of  *)
(* requests that meet in the same directories.                             *)
(***************************************************************************)
EXTENDS DirTree

CONSTANTS p1, p2, p3

ThreeProcs == {p1, p2, p3}
Symmetry == Permutations(ThreeProcs)

Obj(path)  == [path |-> path, marker |-> FALSE]
Mark(path) == [path |-> path, marker |-> TRUE]

a == <<1>>     \* an object above another
ax == <<1, 1>>
bx == <<2, 1>> \* two objects of a directory
by == <<2, 2>>
bcx == <<2, 3, 1>> \* and one a level deeper
c == <<3>>     \* a marker, with an object below it
cx == <<3, 1>>

MCKeys == {Obj(a), Mark(a), Obj(ax), Obj(bx), Obj(by), Obj(bcx), Mark(c), Obj(cx)}

Torn(k) == [op |-> "PUT", key |-> k, whole |-> FALSE]
Ask(op, k) == [op |-> op, key |-> k, whole |-> TRUE]
List == Ask("LIST", Obj(a))
RmBucket == Ask("RMBUCKET", Obj(a))
Create == Ask("CREATE", Obj(a))

Mix(exists, seed, mix) == [bucket |-> exists, stored |-> seed, asked |-> mix]

\* Keys that cannot exist together, the lower one written both ways; a body
\* that does not arrive, for a key that needs no directory.
Conflicting(seed) ==
  Mix(TRUE, seed, {Ask("PUT", Obj(a)), Ask("DELETE", Obj(a)),
                   Ask("PUT", Mark(a)), Torn(Obj(a)),
                   Ask("PUT", Obj(ax)), Ask("COMPLETE", Obj(ax)), List})

\* Objects that share directories come and go.
Sharing(seed) ==
  Mix(TRUE, seed, {Ask("PUT", Obj(bx)), Ask("DELETE", Obj(bx)),
                   Ask("PUT", Obj(bcx)), Ask("DELETE", Obj(bcx)),
                   Ask("DELETE", Obj(by)), List})

\* A marker and an object below it.
Marking(seed) ==
  Mix(TRUE, seed, {Ask("PUT", Mark(c)), Ask("DELETE", Mark(c)),
                   Ask("PUT", Obj(cx)), List})

\* A bucket that comes and goes under its objects.
Emptying(exists, seed) ==
  Mix(exists, seed, {Create, RmBucket, Ask("PUT", Obj(bx)),
                     Ask("DELETE", Obj(bx)), List})

Peaceful == {Conflicting({}), Conflicting({Obj(a)}), Conflicting({Obj(ax)}),
             Sharing({Obj(bcx)}), Sharing({Obj(bx), Obj(by)}),
             Marking({}), Marking({Mark(c), Obj(cx)}),
             Emptying(FALSE, {}), Emptying(TRUE, {Obj(bx)})}

\* A DELETE below an object.
DeletesBelow == {Mix(TRUE, {Obj(a)}, {Ask("DELETE", Obj(ax)), Ask("PUT", Obj(a)),
                                      Ask("PUT", Obj(ax))})}
=============================================================================

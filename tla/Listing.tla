------------------------------- MODULE Listing -------------------------------
(***************************************************************************)
(* Paging through a bucket: ListObjects of internal/store/list.go behind   *)
(* the V1 and V2 handlers of s3api/list.go, and a client that asks for one *)
(* page after another while others put and delete objects.                 *)
(*                                                                         *)
(* A page collects the matching keys, rolls them up by the delimiter,      *)
(* sorts, skips what earlier pages had and cuts; then it looks at each     *)
(* object again.  Nothing is kept between pages but the cursor the client  *)
(* sends back.  The walk over directories is DirTree's; here it finds what *)
(* is there in one step, and makes keys of it again (KeyPaths).            *)
(***************************************************************************)
EXTENDS FiniteSets, KeyPaths, Lexicographic

CONSTANTS
  Names,      \* what clients ask to be stored, keys or not
  Limit,      \* MaxKeysLimit
  Queries,    \* [version, prefix, delimiter, after, max]: what clients ask
  MaxChanges  \* bound on puts and deletes

Query == [version : {1, 2},
          prefix : Seq(Nat), delimiter : Seq(Nat),
          after : Seq(Nat),   \* start-after, or the first marker of V1
          max : Nat]          \* max-keys

ASSUME NamesType   == Names \subseteq Seq(Nat) /\ IsFiniteSet(Names)
\* An object named like a sidecar or a marker, as "a.dirmarker", can share a path
\* of the metadata tree with another key; such names are left out.
ASSUME NamesPlain  == \A name \in Names : \A n \in DOMAIN name : name[n] \notin {Json, DirMarker}
ASSUME LimitType   == Limit \in Nat \ {0}
ASSUME QueriesType == Queries \subseteq Query
ASSUME ChangesType == MaxChanges \in Nat

VARIABLES
  keys,    \* the keys of the bucket
  query,
  cursor,  \* what the next request resumes from: nothing, a token or a marker
  status,  \* of the client: "paging", "end" or "stuck" without a cursor
  got,     \* the rows it received, in order
  changes,
  always,  \* history: keys there ever since the first request
  ever     \* history: keys there at some time since

vars == <<keys, query, cursor, status, got, changes, always, ever>>

\* A key, or the prefix that stands for all keys that share it.
Row(name, rolled) == [name |-> name, rolled |-> rolled]

\* Where a listing goes on: nowhere yet, behind the name in a token, or behind
\* a marker, which is a name itself.
Cursor(kind, name) == [kind |-> kind, name |-> name]
Start == Cursor("start", <<>>)

-----------------------------------------------------------------------------

\* Keys that can be in one directory tree: none is a directory of another.
Compatible(ks) == \A j, k \in ks : ~IsPrefix(Append(j, Slash), k)

\* The directories above a file, each with the marker it has if it is a key.
DirsOf(k) ==
  LET path  == KeyToPath(k)
      last  == Len(path) - (IF IsDirMarker(k) THEN 0 ELSE 1)
      Of(n) == Append(PathToKey(SubSeq(path, 1, n)), Slash)
  IN {[marker |-> Of(n), meta |-> MetaPath(Of(n))] : n \in Len(Base) + 1 .. last}

\* Each key with its file, its sidecar and the key a walk makes of the file.
Places ==
  {[key |-> k, path |-> KeyToPath(k), meta |-> MetaPath(k),
    found |-> PathToKey(KeyToPath(k)), dirs |-> DirsOf(k)] :
     k \in {n \in Names : KeyToPath(n) # NoPath}}

\* What can be stored at all.
Keys == {f.key : f \in Places}

Stored == {f \in Places : f.key \in keys}

\* A directory is a key when the marker's sidecar is there.
HasMarker(dir) == \E f \in Places : f.key \in keys /\ f.meta = dir.meta

\* What WalkDir finds under the bucket, as keys.
Walked ==
  {f.found : f \in {g \in Stored : ~IsDirMarker(g.key)}} \cup
  {dir.marker : dir \in {d \in UNION {f.dirs : f \in Stored} : HasMarker(d)}}

\* collectKeys starts at the deepest directory the prefix names, if that is
\* below the bucket; no such directory, no keys.
StartDir(prefix) == SubSeq(prefix, 1, SelectLastInSeq(prefix, LAMBDA c : c = Slash))

\* Mutant: the directory named by the prefix is walked, the rest of it ignored.
CollectKeys_WholeDir(prefix) ==
  {k \in Walked : IsPrefix(StartDir(prefix), k)}

CollectKeys(prefix) ==
  LET dir == StartDir(prefix)
      start == IF dir = <<Slash>> THEN <<>> ELSE dir
  IN {k \in Walked : IsPrefix(start, k) /\ IsPrefix(prefix, k)}

\* Where the delimiter occurs in a key behind the prefix.
Cuts(key, q) ==
  {n \in (Len(q.prefix) + 1) .. Len(key) :
     IsPrefix(q.delimiter, SubSeq(key, n, Len(key)))}

\* groupByDelimiter, for one key.
RowOf(key, q) ==
  IF q.delimiter = <<>> \/ Cuts(key, q) = {} THEN Row(key, FALSE)
  ELSE LET n == CHOOSE m \in Cuts(key, q) : \A o \in Cuts(key, q) : m <= o
       IN Row(SubSeq(key, 1, n + Len(q.delimiter) - 1), TRUE)

\* Mutant: the walk's order, in which what is in a directory comes before
\* names that begin like the directory's.
Before_Walk(r, s) ==
  LET Components(name) == [n \in DOMAIN name |-> IF name[n] = Slash THEN 0 ELSE name[n]]
  IN Precedes(Components(r.name), Components(s.name))

Before(r, s) == Precedes(r.name, s.name)

PageSize(max) == IF max = 0 \/ max > Limit THEN Limit ELSE max

\* encodeToken wraps a name in base64, decodeToken takes it out again.
Token(name) == Cursor("token", name)
Marker(name) == Cursor("marker", name)

\* The token of a request counts, its start-after only without one; the marker
\* of a V1 request takes the place of both.
After(q, c) == IF c = Start THEN q.after ELSE c.name

Beyond(name, after) == after = <<>> \/ Precedes(after, name)

\* The rows still to send.
Remaining(q, c) ==
  {r \in {RowOf(k, q) : k \in CollectKeys(q.prefix)} : Beyond(r.name, After(q, c))}

\* How many of the rows come before r.
Rank(rows, r) == Cardinality({s \in rows : Before(s, r)})

\* sort.Slice: the rows in the order of their names.
Sorted(rows) ==
  [n \in 1 .. Cardinality(rows) |-> CHOOSE r \in rows : Rank(rows, r) = n - 1]

\* The first of them, as many as a page takes.
Cut(rows, size) == {r \in rows : Rank(rows, r) < size}

LastRow(rows) == CHOOSE r \in rows : \A s \in rows : ~Before(r, s)

\* Mutant: the cursor is the first name left out.
CutAt_Next(rows, size) ==
  (CHOOSE r \in rows \ Cut(rows, size) :
     \A s \in rows \ Cut(rows, size) : ~Before(s, r)).name

\* The name a truncated page is continued behind.
CutAt(rows, size) == LastRow(Cut(rows, size)).name

\* Mutant: V1 hands out a token like V2.
NextCursor_AlwaysToken(q, rows, page) == Token(CutAt(rows, PageSize(q.max)))

\* Mutant: V2 has no token for a page of common prefixes, as V1.
NextCursor_NeedsObject(q, rows, page) ==
  IF \A r \in page : r.rolled THEN Start
  ELSE IF q.version = 2 THEN Token(LastRow(page).name) ELSE Marker(LastRow(page).name)

\* V2 hands out a token for the last name of the page it cut; V1 the last name
\* it sends, if there is an object among them.
NextCursor(q, rows, page) ==
  IF q.version = 2 THEN Token(CutAt(rows, PageSize(q.max)))
  ELSE IF \E r \in page : ~r.rolled THEN Marker(LastRow(page).name) ELSE Start

-----------------------------------------------------------------------------

Init ==
  /\ keys \in {ks \in SUBSET Keys : Compatible(ks)}
  /\ query \in Queries
  /\ cursor = Start /\ status = "paging" /\ got = <<>>
  /\ changes = 0
  /\ always = keys /\ ever = keys

\* One request: ListObjects, and infoForListing for each object of the page,
\* those in `gone' having been deleted since they were collected.
Page ==
  LET rows == Remaining(query, cursor)
      cut == Cut(rows, PageSize(query.max))
      truncated == cut # rows
  IN /\ status = "paging"
     /\ \E gone \in SUBSET {r.name : r \in {s \in cut : ~s.rolled}} :
          LET page == {r \in cut : r.rolled \/ r.name \notin gone}
              next == IF truncated THEN NextCursor(query, rows, page) ELSE Start
          IN /\ changes + Cardinality(gone) <= MaxChanges
             /\ changes' = changes + Cardinality(gone)
             /\ keys' = keys \ gone /\ always' = always \ gone
             /\ got' = got \o Sorted(page)
             /\ cursor' = next
             /\ status' = IF ~truncated THEN "end"
                          ELSE IF next = Start THEN "stuck" ELSE "paging"
     /\ UNCHANGED <<query, ever>>

\* Somebody stores an object: a name that is no key is refused.
Put(k) ==
  /\ changes < MaxChanges /\ k \in Keys \ keys /\ Compatible(keys \cup {k})
  /\ keys' = keys \cup {k} /\ ever' = ever \cup {k}
  /\ changes' = changes + 1
  /\ UNCHANGED <<query, cursor, status, got, always>>

Delete(k) ==
  /\ changes < MaxChanges /\ k \in keys
  /\ keys' = keys \ {k} /\ always' = always \ {k}
  /\ changes' = changes + 1
  /\ UNCHANGED <<query, cursor, status, got, ever>>

\* The client has its listing, or no way to go on with it.
Rest == status # "paging" /\ UNCHANGED vars

Next ==
  \/ Page
  \/ \E k \in Names : Put(k) \/ Delete(k)
  \/ Rest

Spec == Init /\ [][Next]_vars

\* A client with a cursor asks for the next page.
FairSpec == Spec /\ WF_vars(Page)

-----------------------------------------------------------------------------
(***************************************************************************)
(* Properties                                                              *)
(***************************************************************************)

\* Every variable has its type; V1 resumes from a name, V2 from a token.
TypeOK ==
  /\ keys \subseteq Names /\ always \subseteq keys /\ ever \subseteq Names
  /\ query \in Queries
  /\ cursor \in [kind : {"start", "marker", "token"}, name : Seq(Nat)]
  /\ cursor.kind # (IF query.version = 2 THEN "marker" ELSE "token")
  /\ status \in {"paging", "end", "stuck"}
  /\ got \in Seq([name : Seq(Nat), rolled : BOOLEAN])
  /\ changes \in 0 .. MaxChanges

\* Over all pages no row comes twice and all come in the order of their names,
\* however the bucket changed between them (list.go: "S3 orders the merged
\* stream of objects and common prefixes by name").
NoRowTwice ==
  \A m, n \in DOMAIN got : m < n => Precedes(got[m].name, got[n].name)

\* What was in the bucket all the time is in one of the pages, as itself or
\* rolled up, if its row lies behind the point the client started from.
NothingSkipped ==
  status = "end" =>
    \A k \in always :
      IsPrefix(query.prefix, k) /\ Beyond(RowOf(k, query).name, query.after)
        => \E n \in DOMAIN got : got[n] = RowOf(k, query)

\* Every row stands for a key that was there, and nothing outside the prefix.
NothingInvented ==
  \A n \in DOMAIN got :
    /\ IsPrefix(query.prefix, got[n].name)
    /\ \E k \in ever : RowOf(k, query) = got[n]

\* Keys that are in the bucket together have a file and a sidecar each: names are
\* joined and cleaned, but no two spellings of one path are both keys
\* (ValidateKey), and of the names in NamesPlain a marker's sidecar is not that of
\* an object beside it (metaPath).
OwnFiles ==
  \A f, g \in Stored : f # g => f.path # g.path /\ f.meta # g.meta

\* A V2 client reaches the last page: a truncated page always has a token that
\* leads on.
PagingEnds == query.version = 2 => <>(status = "end")
=============================================================================

# locals3: specifications, model checks and proofs

locals3 is an S3 server that keeps each object as a plain file at
`<root>/<bucket>/<key>`, with its metadata beside it under `<root>/.locals3`.
This directory holds TLA+ modules of its core, the TLC configurations that check
them, and TLAPS proofs about all of it. Everything is translated from the
code in `src/`; where a doc comment and the code disagree, the modules follow
the code and a run shows the disagreement.

## 1. The system

| part | source | state | operations |
|---|---|---|---|
| keyed lock | `store/lock.go` | map from name to a counted `RWMutex` | `Lock`, `RLock` and the unlock each returns |
| object store | `store/fs.go`, `meta.go`, `copy.go` | object files, sidecars `<key>.json`, their `.tmp`, staged bodies in `.locals3/tmp` | put, get, head, delete, copy, set checksum; caching of digests and content types |
| multipart uploads | `store/multipart.go` | a directory per upload: manifest and parts | create, upload part, list parts, complete, abort |
| directory tree | `store/fs.go`, `keypath.go` | directories of buckets and keys | create/delete bucket, `checkConflicts`, `MkdirAll`, rename, pruning |
| listing | `store/list.go`, `s3api/list.go` | none; the client keeps the cursor | walk, group, sort, cut, resolve; V1 markers and V2 tokens |
| request bodies | `s3api/chunked.go`, `checksum.go` | position in a framed stream, running digests | read, verify |
| ranges, preconditions | `s3api/rangehdr.go` | none; the client keeps the validators | `parseRange`; `If-Match` and friends |
| handlers | `s3api/object.go`, `copy.go`, `multipart.go`, `bucket.go`, `delete.go` | none | sequences of store calls for a request |
| router, errors, XML, signatures, server | the rest | none | dispatch, texts, expiry of presigned URLs |

Every request runs in a goroutine of its own. The goroutines meet in

- the keyed lock: one name per bucket and key, exclusive for writers, shared for
  GET and HEAD. A handler takes it several times in a row (HEAD, then GET; HEAD of
  the source, then PUT of the target; PUT, then DELETE to roll back; PUT, then the
  trailing checksum) and holds nothing in between;
- the files: a listing reads and **writes** sidecars without any lock; parts of an
  upload are staged, listed and removed under none; directories are shared by keys
  whose locks differ;
- people and programs that edit the tree by hand, which the README of the program
  promises to serve, and a process that may stop at any point.

What is hard: an object is two files that change one after the other; a sidecar is
a cache that must notice it is stale from size and mtime alone; checks and the
acts they guard lie several calls apart; clean-up (pruning, rollback, `RemoveAll`)
runs beside those who still need what is cleaned. `PROJECT.json` lists these
hazards at their lines, with the properties that watch over them or a note on why
none does.

## 2. The modules

```
KeyedLock        implements  NamedLocks      (proved, model-checked)
ObjectStore      takes its locks as NamedLocks has them
ObjectStore      implements  AtomicObjects   (proved, model-checked)
ObjectHandlers   makes its store calls as AtomicObjects has them
```

Two abstract specifications hold the levels together. `NamedLocks` is the lock:
`held[n][p]`, with `Grant` and `Drop`; `ObjectStore`, `Multipart` and `DirTree` use it
for the object lock. `AtomicObjects` is the store as handlers see it: `object[k]` is
one version with its metadata, a call takes effect in one step between its beginning
and its `Return`, and what it answers is what was there in that step. Only an error says
nothing: a call that fails has changed nothing (`Refuse`) or has written the object and
failed at its `stat` or its sidecar (`FailLate`, `fs.go:211-220`).

| module | models | one action per |
|---|---|---|
| `KeyedLock` | `lock.go` over an `RWMutex` in which an announced writer parks later readers | section under the map's mutex, mutex operation |
| `ObjectStore` | the two files of an object under all its requests | file-system call, lock operation, step of a handler |
| `AtomicObjects` | what the store promises of an object | store call: its effect, its return |
| `ObjectHandlers` | dispatch, the object handlers, bulk delete, preconditions, and clients that keep validators | store call, step of a handler between two |
| `RangeHeader` | `parseRange`, `GetObjectRange` | (operators) |
| `Multipart` | uploads, and the objects they become | file-system call, lock operation |
| `DirTree` | the directories of one bucket | file-system call; one per component in `checkConflicts`, `MkdirAll` and pruning; one per visited entry of a walk |
| `Listing`, `Lexicographic` | paging through a bucket that changes | page |
| `KeyPaths` | which names are keys, and their paths | (operators) |
| `RequestBody` | an upload's body: framing, faults, digests | `Read` of the chunked reader |
| `KeyedLockProofs`, `ObjectStoreProofs`, `AtomicProofs`, `HandlerProofs`, `MultipartProofs`, `DirTreeProofs`, `ListingProofs`, `RequestBodyProofs` | proofs | |
| `MC*` | instances for TLC | |

**KeyedLock.** `m` is the map, `refs` the counts, `mutex` the `RWMutex` of each entry.
`Acquire`, `Release` are the two sections under `KeyedLock.mu`; between them a
goroutine holds a pointer to an entry that others may see deleted from the map.
Entries are names drawn from a finite set, reused when nobody refers to them, as
the garbage collector does.

**ObjectStore.** `file[k]` is the object, `side[k]` its sidecar and `scratch[k]`
the fixed `.json.tmp` through which every sidecar is written. A body stands for its
MD5, content type and user metadata together are one value. `writeSidecar` is
three actions: `Truncate`, `Write`, `Publish`. As listings do not lock, two of
them may have the scratch file open at once; `fd` says where the file a goroutine
opened is linked by now (it may have become the sidecar, or be gone), and `Overlay`
leaves the text garbled where two writes land on each other. A garbled or empty
sidecar is the zero sidecar for `readSidecar` (`Parse`), and `Reconcile` drops the
digest, and only it, when size or mtime differ. A handler's sequence of store calls
is in `Continue`. A GET has its Content-Length from HeadObject (`object.go:127`) and sends
no more of the file that GetObject opens (`Sent`). `EditFile` is an edit by hand: a file is
replaced, or written in place under those who have it open to copy or to send it
(`WriteInPlace`), whose clients may be sent some of both contents. `Crash` is a restart:
goroutines and locks go, the disk stays. `Answer` reads off a goroutine's state what its store call
has decided to return: a HEAD once it has its `ObjectInfo`, although it may still have
the sidecar to write; a write once the file is linked or gone. With `file` for `object`
it is the refinement mapping of `ImplementsAtomicObjects`.

**ObjectHandlers.** `Arrive` is a request at `ServeHTTP`, `Route` its dispatch up to the
handler or the refusal. `Takes` is a store call taking effect, by the actions of
`AtomicObjects`; the `...Returns` actions are what the handlers do between calls. A GET
is two calls: `info` is what HEAD told, and the headers come from it, whatever the
second call opens, also when that is nothing and the answer NoSuchKey. `clock` is finer than the seconds of `Last-Modified` (`Second`).
Clients keep `[key, version]` of what they were sent and put its ETag and date into
conditional headers, one or several (`Conditions`). `seen`, `since` and `wrote` are
history: the versions a key had during a request or between its two calls, and whether
the request has written.

**Multipart.** An upload is `exists`, `manifest` and `part`; `RemoveAll` is a scan,
one removal per entry read, and the removal of the directory, which fails when
something came in since. `CompleteMultipartUpload` lists and digests the parts
without a lock, the size and the digest of a part in two calls (`List`, `PartInfo`,
`DigestPart`, `Validate`), then takes the object's and opens each part again by name
(`Copy`). What follows the rename (`StatObject`, `Describe`, the removal) may fail: a
listing of the key that writes the shared `.json.tmp` meanwhile may rename it first, or
leave its own text or a mixture. `WriteSidecar` has all that may come of this, so that no
listing of its own is needed in the module. A PUT of the object takes the lock, waits for
its client's body, and writes object and sidecar in one step; a DELETE is one step.

**DirTree.** `tree[path]` is nothing, a directory or a file; `side` the set of keys
with a sidecar, which is what makes a directory a marker. The history variable
`content` has the keys that were put and not deleted by a DELETE of their own.

**Listing.** A page is one action: collect, group, sort, skip, cut, resolve; objects
may vanish between being collected and resolved. The sort puts a row behind as many as
come before it (`Rank`), and the cut keeps the rows of the lowest ranks. Names are
sequences of numbers, so that "." < "/" < letters, the case in which the walk's order and
the order of names differ. Keys are stored by name and found as the walk finds them: each stored key has a
path and a sidecar path by `KeyPaths` (`Places`), the files are made keys again by
`PathToKey`, and a directory is a key when the marker's sidecar is there (`HasMarker`).
The walk's taking time is `DirTree`'s part.

**RequestBody.** The client's stream is built symbol by symbol by `Frame`, since the
properties are about framing; then it is cut anywhere, or any one byte of it reads as
another out of `Noise`. `fault` says which it was: a byte of the payload (`"damage"`), of a
size line (`"size"`), or other framing, the separators, the trailer and the blank line
(`"framing"`). A size line has the hex digits of the size, any number of them (`Hex` is
`strconv.ParseInt` without its bound of 63 bits), and perhaps an extension; `ChunkSize` cuts
the line at a semicolon and trims it. `TrailerAt` reads lines up to a blank one, skips those
without a colon and keeps the last of the trailer's name. The reader's pieces are as long as
it pleases, up to `MaxRead`. What a byte of the payload looks like is free: line ends and
digits are among them.

## 3. The runs

| run | instance | shows |
|---|---|---|
| `keyedlock` | 3 goroutines, 2 names, 3 entries | the type, `MapIsInFlight`, refinement of `NamedLocks`, every lock is granted |
| `objects_locked` | 2 goroutines, 2 keys, 2 bodies, 7 requests of which 3 come, 1 edit | refinement of `AtomicObjects`, `InfoCoherent`, `QuietKeyCoherent`, every request ends that no client keeps waiting |
| `objects_hostile` | 2 goroutines, 1 key, 3 of 5 requests, 1 edit, 1 crash | `CachedDigestCorrect`, `ServedWhole` |
| `handlers` | 2 clients, a key and a bad name, 3 contents, 24 requests of which 3 come, 3 ticks to the second | what GET serves, 304 and 412, bulk delete, what replies say of writes |
| `multipart` | 2 goroutines, 2 keys, 2 ids, 2 parts, 3 requests, 1 crash | six properties of uploads and progress; 580,000 states, the longest run |
| `tree` | 3 goroutines, 8 keys in 9 mixes, 3 requests | `DeleteOnlyOwn`, `NoStrayDirs`, `ListIsHonest` |
| `listing` | 5 keys and 5 names that are none, 24 queries, pages of 1 or 2, 2 changes | order, completeness, honesty and end of paging; `OwnFiles` |
| `bodies` | 7 chunkings, sizes of one to three digits, every assertion, every cut, and each byte read as each of six others | what is stored, what is noticed, ranges |
| `list_race`, `rollback`, `multipart_late`, `tree_delete` | the fewest requests | the four disagreements below |

Three requests suffice for the interesting cases because the state they leave is
small: two that race, and one that sees or disturbs what they left. Two goroutines
are enough where at most two ever hold or wait for the same file; three are used for
the lock (a third that comes while an entry is dropped) and the tree (a listing
beside a PUT and a DELETE). Two bodies of one length and one of another tell an edit
that changes the size from one that changes only the mtime. In `handlers`, three
requests are a GET that fills the client's copy, a write by the other client and the
conditional request that the copy is for; two writes and a GET put a version between the
two store calls. In `bodies`, the six are digits that make a size another or none, the two
bytes of a line end, the semicolon, and one that means nothing. In `tree`, four requests
hold as well; three keep the run short. Runs end at their bounds in `Rest`, an
explicit stutter, so that deadlock is checked everywhere: a state in which a request
waits for ever is an error. Only `handlers` has none: it stops at its bounds, and takes no
locks.

### Where the code differs from what it says

- `list_race`: "Safe for concurrent use" (`fs.go:31`). A listing resolves objects
  without their lock and writes sidecars (`list.go:195`, `meta.go:180`): beside a
  PUT of the same key it can replace or garble the sidecar that PUT stored, and
  the object's declared metadata is lost for good. The digest is safe:
  `CachedDigestCorrect` holds, and is proved, with the same listings.
- `rollback`: "a rolled-back write on mismatch" (program README, 115-116). The
  rejected PUT has replaced the object by then and is undone with a DELETE
  (`object.go:86`): the previous version is gone.
- `multipart_late`: a part uploaded again while its upload is completed is assembled
  under the digest of the part it replaced (`multipart.go:263`, `328`).
- `tree_delete`: `DELETE a/x` while `a` is an object removes `a`: pruning removes
  files too (`fs.go:415`). `DELETE a/` over an object `a` does the same
  (`fs.go:324`).

Four more have no run of their own. The models have them, and properties of the passing
runs name them as exceptions:

- "A concurrent reader never sees a partial object" (program README, 142-143). It is true
  of the file, and `TypeOK` of `ObjectStore` says so; but a GET beside a PUT of a longer
  body has the Content-Length of the old one and the beginning of the new (`object.go:127`,
  `145`). `ServedWhole` and `ServedFromOneVersion` say when.
- "V1 resumes from ... the last name in the page, which for a rolled-up page is the common
  prefix" (`s3api/list.go:88-89`). The branch asks for an object on the page, so a truncated page
  of common prefixes only has no NextMarker: such clients of `Listing` end `"stuck"`, and
  `PagingEnds` is for V2.
- "... a corrupted upload fails here exactly as it would" (`checksum.go:16-17`). A byte of a size line that reads as `0`
  makes its chunk the last; if a line end follows soon, its own or one the data begins with,
  the trailers end there (`chunked.go:138`), no digest is found, none is compared
  (`checksum.go:144`), and a part of the object, or nothing, is accepted under a trailing
  checksum. TLC shows it when the exception is dropped from `DamageIsNoticed`.
- "Listing while the tree is churning must not fail or panic" (`concurrency_test.go:154`). It does
  not for the keys of that test. A directory that an object takes the place of while the
  walk is about to read it, or the other way round, ends the listing with an error
  (`store/list.go:113`); `ListIsHonest` is of listings that succeed.

### Hypotheses of the passing runs

Each leaves out one thing that is known to break the property, and names it:

- `objects_hostile`, and the proof of `DigestsTrusted`: no metadata-only copy of an
  object onto itself beside others (it writes a digest read before its lock,
  `copy.go:53`), no edit in the instant between a writer's look at the bytes and its
  `stat` (`EditsMidWrite`), and a clock that moves between writes (`ClockSteps`).
- `objects_locked` (`Crowded` is off, `Orderly`): listings and copies of an object onto
  itself come alone, as they write a sidecar without the lock or with a digest from
  before it (`list_race` shows why); after an edit by hand all requests come one at a
  time, as readers share one scratch file under a shared lock (`fs.go:304`,
  `meta.go:102`) and two of them may garble the sidecar they both refresh.
  `ImplementsAtomicObjects` holds up to the first edit or crash.
- `handlers`: no hypothesis on clients or the clock, which may stand still between two
  writes, but weaker claims. `ServedFromOneVersion` asks that bytes and
  headers agree only if nobody wrote between the two store calls; without that it fails
  (`object.go:102`, `145`). `RepliesTellEffects` leaves open what the internal error of a PUT
  means, as the object may be replaced by then (`fs.go:211-220`). Between `DELETE` and a
  digest's rollback nothing is claimed, which `rollback` is about. Errors of the disk in
  calls other than PUT are left out: a DELETE of a valid key does not fail.
- `multipart`: a client does not upload a part of an upload it is completing
  (`Orderly`); `multipart_late` lifts it.
- `tree`: no DELETE of a key below or as a marker over an object, and bodies fail to
  arrive only for keys without directories (a failed PUT leaves those it made). The proofs
  also ask that no markers are made where a bucket may be removed, which holds of the mixes
  of the run.
- `listing`: no names that end as sidecars or markers do (`NamesPlain`): an object
  `a.dirmarker` has the sidecar of the marker `a/`, and `a.json/x` needs a directory
  where the sidecar of `a` is. `PagingEnds` is for V2. A truncated V1 page of common prefixes only
  names no marker and the client is `"stuck"`.
- `bodies`: `CutIsNoticed` is for sizes without leading zeros ("05" cut after the
  "0" is a last chunk); it and `NoFramingStored` are for size lines that arrive as they were
  sent, since one that is damaged to another number makes payload of framing;
  `DamageIsNoticed` has no such exception for digests in headers, and for one in a trailer
  only if the trailer was not read. `RangesServeTheUpload` is for objects that are not empty.

### Fairness

Go's scheduler runs every goroutine that can run: `WF` on the steps of a goroutine
that has a request. Steps that wait for a client are left out (`AwaitsClient`): sending the
body of a PUT, which the server copies while it holds the lock of the key (`fs.go:143`,
`194`), or of a part, and reading the answer. `main.go` sets a limit on the header of a
request and none on its body. So `EveryRequestEnds` says that a request is answered unless
a client keeps it waiting for ever (`Stalled`), its own or one whose PUT holds the lock.

A lock is granted in the end to whoever waits. In `KeyedLock` this is a consequence
(`EveryLockIsGranted`) of weak fairness on the steps inside the lock and strong fairness on
`Announce`, the writers' own mutex inside `RWMutex`: `sync.Mutex` hands itself to a waiter
that has starved for a millisecond, so nobody waits for it for ever while others take it in
turn. An announced writer keeps later readers out, and an unlocking one lets the parked
readers in. The modules above, which see only `NamedLocks`, assume it as `SF` on taking the
lock. Nothing is assumed of edits or crashes, and of clients only in `Listing`, that they go
on asking for pages.

## 4. The proofs

tlapm checks them for all values of the constants.

**KeyedLockProofs.** `Inv` joins four things: the type; `Bound`, that a goroutine inside
a lock call uses the very entry its name has in the map, and no entry serves two
names; `MapIsInFlight`, that an entry's count is the number of those goroutines; and
`Inside`, that the entry's `RWMutex` agrees with where they are. `MapIsInFlight`
alone is not inductive: `Release` deletes an entry when its count falls to zero, and
that nobody still points at it follows only with `Bound`. From `Inv`: `TypeCorrect`,
`MapBounded` (`MapIsInFlight`), `MutualExclusion`, and `KeyedLockRefines`: every step
is a `Grant`, a `Drop` or a stutter of `NamedLocks`. The assumptions on the constants
are that goroutines are finitely many (`FiniteProcs`; counting uses the cardinality
theorems of `FiniteSetTheorems`) and that `Nil` is neither entry nor goroutine.

**ObjectStoreProofs.** `TypeCorrect` needs to know what a goroutine has at hand at
each place (`Busy`): a body while it stages, a staged body just before it renames.
`DigestsTrusted` is `CachedDigestCorrect` under the named `Assumptions` (`FineClock`,
`QuietEdits`, `NoSelfCopy`; the hypotheses above). `CachedDigestCorrect` speaks of
the sidecar in place and not of those about to be written, so `DInv` extends it to
all that may become one: every sidecar on disk, the scratch files included
(`SideInv`), and every sidecar a goroutine is about to write (`PendInv`) is `Honest`:
if the file at its key has its mtime, its digest is that of the file's bytes. What
makes this inductive is time: no two files, linked or staged, share an mtime
(`TimeInv`) and the mtime in a sidecar is no other file's (`Fresh`), so a sidecar
honest about an older file is never believed of a newer one. Between a PUT's rename
and its `stat` the file is its own (`OwnBytes`), which takes the lock (`LockInv`). The
theorem covers listings, which take no lock, and crashes at any point.

**AtomicProofs.** `AtomicObjectsImplemented` is `ImplementsAtomicObjects` under `Careful`:
no request is a listing or a copy of an object onto itself. It assumes nothing of the
clock: as long as nobody edits, the mtime and size in a sidecar need not tell
versions apart, since the lock does. The invariant `AInv` joins the type (`TInv`), who
holds which lock where (`LockInv`, `Where`), and, while nothing was edited and nothing
crashed (`Untouched`), `Truth`. Its heart is `SidesTrue`: unless a PUT has linked its file
and not yet its sidecar (`Settling`), the sidecar of an object says all that was declared
with the file (`Known`), or nothing was declared and it says nothing wrong (`Guess`). Around
it, `ResOk` and `Sees` have what a call knows of its file, and `Scratch` what is in the
scratch file while somebody writes it: a writer finds its own text there, as it is alone;
readers, who are not, write only where nothing was declared, and whatever of theirs is
published is a `Guess` again. Without `Scratch` a HEAD could publish what another had half
written. The steps then split three ways: those that decide an answer (the rename, the
unlink, a reader's last look) are steps of `AtomicObjects`, `Unlock` is `Return`, and the
others leave `file` and `Answer` alone.

The second half of the module is about answers. `GetServesWhole` is `ServedWhole` of every
behaviour, without any hypothesis: listings, self-copies, edits and crashes may come at any
time. `SInv` adds to the type that the history of a request holds what its object is now
(`Follows`; whoever links, unlinks or edits a file tells every request at work on it) and
which calls a GET makes and what it knows in each (`Getting`): that its Content-Length is of
a version in the history (`Measured`), and then of its body that it is one of them whole
(`Whole`), or that there were two that differ (`Torn`). A body is cut only if the version
opened is longer than the one measured, and torn only by an edit; both make it two.

Under `Careful`, as long as nothing is edited and nothing crashes
(`Untouched`), `HeadCoherent` is `InfoCoherent` and `QuietCoherent` is `QuietKeyCoherent`.
What HeadObject answers is true of the file it looked at by `AInv`, and that file is in
the request's history by `SInv`; `Heading` carries it from there to the answer.
`QuietKeyCoherent` needs one more fact, `GoneBare`: where no object is and no DeleteObject
on its way, there is no sidecar, as who writes one holds a lock under which the object
exists. TLC checks both properties with listings, self-copies and edits too, one at a time.

**HandlerProofs.** All six properties of `ObjectHandlers`, for any clients, keys, contents,
requests and headers; `AtomicObjects` is all that is used of the store. `HInv` says of
each client separately what is true at its place (`Honest`), and the proof has two halves: a
step of its own, and a step of another. Another can change only `object`, and with it adds
to the histories `seen` and `since`, which only grow while the request lasts. So what HEAD
found, the object was (`Follows`, `Knows`), and what GET opens later it was since. `Judged`
says that the preconditions are judged by such a version: without it `OwnValidatorsHold` is
not inductive, as by the time of the answer the object may have changed again. `Telling` is
a bulk delete half done: `told` is right of the names up to where it is, `left` being the
rest of the list in order. `Wrote` has who may have written where; a refusal is nowhere
among them but a PUT that failed late. `Effected` has what a call that was done leaves in the
history: the body of a PUT, an absence after a DELETE. The two give `RepliesAreTrue`. The assumptions on the constants are typings, that no digest reads `*`, that
requests for no key are those on a bucket, and that sentinels are no values. TLC checked
`HInv` itself on the instance of `handlers`.

**MultipartProofs.** `MultipartTypes`, and two theorems that hold of every behaviour, late
parts and crashes included. The lock is the object's and not the upload's, so that one
Complete succeeds (`CompletesOnce`) is no matter of mutual exclusion alone. `IdInv`: an id
is known to clients when its Create has answered and not before, and two Completes of an
upload that have loaded its manifest are for one key; with `LockInv` they are never both in
the lock section (`Alone`). `GoneInv`: who succeeded has removed the directory with all that
was in it (`Gone`), and nothing known comes back, since the rename of a part needs the
directory (`UploadStep`). A later Complete that had listed the parts before gets the lock
after the removal, has copied nothing (`Taken`), and finds its first part gone; this needs
that the list of a Complete is never empty (`Place`). `EndedStaysGone` is `EndedIsGone` from
the same invariant.

The last three have the hypothesis `~LateParts`, and `MCMultipartLate` shows that
`ETagMatchesBytes` fails without it. The parts of an upload being completed then only go:
what can be opened under the lock is what was listed without it (`StagedInv`), so what was
copied is the beginning of the client's list (`CopiedInv`), which gives `SuccessIsAsListed`;
that the numbers ascend over the whole list, the code having compared neighbours, is
`InOrder`. `FailuresAreAllOrNothing` says that a Complete answered with an error has left the
object alone or put there all that was listed: who has renamed had copied the whole list
(`Replaced`), whatever fails behind. `MultipartETagTrue` adds that the mtime of a rename is
newer than any sidecar (`ClockInv`), and that what a listing may leave is the object's own
digest or none: for this the object is still the one just renamed while its sidecar is
written (`ObjectInv`, by the lock).

**DirTreeProofs.** `DirTreeTypes` has no hypothesis; its point is `Hung`, that nothing is
ever cut off from the bucket. Goroutines with different keys share no lock, so the proof
goes by what one call can do to the tree (`Change`): it makes a directory in a directory,
puts a file in one, or takes a file or an empty directory. `OnlyOwnDeleteTakes` is
`DeleteOnlyOwn` under `OwnDeletes`: no DELETE is for a key below an object or a marker of
the workload, nor for the marker of a name that is an object's. `MCDirTreeDelete` shows that
it fails without (finding above). `DeleteOnlyOwn` says nothing of requests half done: a marker's
directory is there before its sidecar makes a marker of it, and a DELETE removes by name
what `os.Stat` showed it one call before. `Holds` has both, and lasts because the others
that could take that path are shut out by its key's lock (`LockInv`) or by `OwnDeletes`
(`Lasting`). What a workload stores at start is assumed to fit together (`StoredFit`).

`NothingLeftBehind` is `NoStrayDirs`, which speaks of the end only. While requests are under
way, an empty directory is a marker (`Kept`) or somebody's charge (`Charged`): of the PUT
that made it and will fill it, or of the DELETE that emptied it and comes by next. The
hypotheses are what the code needs: a body that does not arrive after `MkdirAll` leaves
directories (`TornShallow`, `fs.go:178`), and DeleteBucket takes away the sidecars of
whatever bucket is there by then, so that a marker of the next one becomes a stray directory
(`MarkersStay`, `fs.go:82`).

`ListingsAreHonest` is `ListIsHonest`, of a walk that looks at one directory at a time
and takes no lock. That it invents nothing needs no hypothesis (`ListingsInventNothing`): a
sidecar outlives its marker only in the hands of the marker's DELETE (`Drawn`). That it misses nothing is
`Reached`: of each key that was there all the time, the walk has the key itself or has
yet to come to a directory above it. This lasts as directories above what stands, stand
(`Deep`), which is where `OwnDeletes` comes in, and markers have their sidecars (`Sided`, by
`MarkersStay`). The workloads of `MCDirTree` satisfy all three.

**ListingProofs.** First the operators. `Precedes` is a strict total order of all names,
so rows can be ranked in it: in a finite set each number below its size is the rank of
just one row (`RankedPlaces`), which makes of `Sorted` a sequence in order (`SortedIs`) and of
`Cut` the first of them (`CutIs`). A key and its file are two forms of one thing: splitting
a valid key at its slashes and joining it again gives it back (`JoinIs`, `KeyToPathIs`,
`KeyComesBack`). Sidecars are apart because of their endings, which `NamesPlain` keeps out of names
(`OneSidecar`). Hence `KeysHaveOwnFiles`, and `WalkFindsKeys`: what the walk makes of
files, directories and sidecars are the keys stored, no more and no fewer. The library's
induction takes an operator and cannot be used; a least counterexample (`LeastNumber`) does
the same wherever it would be needed.

Then the pages. `LInv` has two parts beside the three properties: everything sent lies
up to the cursor (`Sent`), and each key that was there all the time was sent, as itself or
rolled up, or lies behind the cursor (`Ahead`). A page sorts and cuts what lies behind. For
V2 its cursor is the last name cut, also when that object has vanished by then; for V1 the
last name sent, and what was cut behind it has vanished. What is put or deleted between two
pages changes neither part, as the cursor is a name and not a position. Assumed is that names are finitely
many, plain, and that pages have at least one row. TLC checked `LInv` as well.

**RequestBodyProofs.** All six properties of `RequestBody`, for bodies of any number of
chunks of any length, any digits that say so, any pieces, and a connection that breaks or
damages any one byte. `UploadsType` has what clients send; `Symbols` has that the bytes
CR, LF and semicolon are no hex digits, that neither an extension nor a trailer holds a
line end, and that the trailer's name holds no colon. Nothing is assumed of the object's own
bytes, nor of what a damaged byte reads as.

First the stream. `Hex` and `FlattenSeq` are recursive, and a least number (`LeastNumber`,
`UpTo`) stands in for induction once more: `HexIs` gives the steps of the one, `FlattenIs`
and `FlattenStep` those of the other, and `FlattenPlaces` where the bytes of each part come
to lie. From these, `FrameIs`, `ChunkAt`, `LineAt` and `HeldIs` say where in the stream each
size line, each chunk, each separator and the trailer are, and `Apart` that a damaged byte
of the payload is none of the framing. Then the reader: the line that starts where a chunk was left ends
at the first LF behind it, which is the size line's (`LineLengthIs`, `TrimIs`, `LineRead`),
and its digits say the length of the chunk to come, or zero behind the last (`SizeRead`,
`SeparatorRead`, `TrailerRead`).

`BInv` joins the type, what arrived (`Arrived`), and that what is decoded is the beginning of
the object (`Decoded`). `NoFramingStored` alone is not inductive: nothing in it says that
the next bytes of the stream are the next of the object. `Track(n)` does: of the first `n`
chunks all is decoded but `remain` bytes, and the stream is read up to as many bytes before
the end of the n-th. A cut may fall into the digits of a size and leave a shorter number;
then there is nothing behind it, and the reader is `Lost`: it will fail at the end of the
stream, whatever number it has. A zero is the one number that needs care, as it ends the
body: digits that are cut to zero had a leading zero (`HexPositive`), which is the
hypothesis `~Padded` of `CutIsNoticed` and nothing else. `Ended` and `Judged` carry what was
complete and what was compared to the answer. A damaged separator is missed by `expectCRLF`
and fails the body; a damaged trailer or blank line comes after the object is complete.

A damaged size line leads the reader astray, and `Track` says nothing of it. `AnyInv` is the
invariant of all bodies: the type, that what is decoded are symbols and not more than was
read, what was compared, and `BInv` unless a size line was damaged. A digest in a header is
compared whatever the reader did, and so is one in a trailer that was read, as no trailer
other than the client's own matches; `DamageNoticed` needs no more than that where `BInv`
does not hold. TLC checked `AnyInv` on the instance of `bodies`.

`RangesServeUploads` is about the operators of `RangeHeader`: for each form of a header,
what `parseRange` grants is an interval inside the object, and just the positions asked for
(`RangeIs`); the digits in a header are bounded by `MaxOffset`, which is any number.

All of it is proved for any number of goroutines, keys, uploads, contents and requests, and
every safety property of a passing run is a theorem. Left to TLC: all liveness (`PagingEnds`
included), which the prover does not do; and listings, self-copies and edits in
`objects_locked`, which are no part of `Careful`.

## 5. Not modelled

- Errors and XML, `ValidateBucketName`, virtual-host addressing, the parsing of dates,
  `parseCopySource`, `ListMultipartUploads`, the server: mappings without state, or reads.
- Requests the program answers otherwise than S3, without a claim of its own to compare
  with: `DELETE` of a key with `?tagging` deletes the object (`object.go:43`).
- Torn writes of one `os.WriteFile`, lost `fsync`s and errors of the disk other than
  a body that does not arrive.
- In `ObjectHandlers`: multipart and copy, which `Multipart` and `ObjectStore` have with
  their handlers; buckets that come and go, which `DirTree` has.

## 6. Plan

`DirTree`: the bucket's life (no object is lost to a DeleteBucket that was answered before
it was put), and sidecars named byte by byte over `KeyPaths`.

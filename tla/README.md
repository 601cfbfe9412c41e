# A TLA+ verification of pageup

Pageup publishes HTML pages, small HTML sites and files at unguessable URLs. A
command-line client signs every request with an Ed25519 key; one server process
keeps pages, files and the authorized keys in a data directory. These modules
model the server, the archives that sites travel in and the commands that change
something, TLC checks them on small instances, and TLAPS proves what matters
most about them for instances of any size.

File and line references are to the repository (`internal/server/files.go` is
written `files.go`, and so on).

## 1. The system

| Component | State | Operations |
| --- | --- | --- |
| Hosted files (`files.go`, `storage.go`) | per file a metadata object `files/<id>.json` and one blob per revision `files/<id>.<nonce>.blob`; the mutex `server.files` | POST, PUT, DELETE `/api/files/`, GET `/f/` |
| Pages and sites (`pages.go`, `handleUpload`, `handleUpdate`, `handlePage` in `server.go`) | per page a content object `.html` or `.site.zip` and a metadata object `.json`; the mutex `server.pages` | POST, PUT `/api/pages`, GET `/<id>` |
| Request authentication (`authorizeHash`, `useNonce` in `server.go`) | the table `nonces.used`, in memory only, behind a mutex | every signed request |
| Authorized keys (`keystore.go`, `handleKeys`, `handleKey`, `handleWhoAmI`) | a map in memory behind a RWMutex, and `keys.json` | load or bootstrap, add, remove, list, look up |
| Object writes (`writeImmutable`, `writeAtomicStream`, `filesystemObjectStore`) | files | exclusive create, replace by rename, delete, open |
| Server lifecycle (`cmd/pageup-server`) | the process and its limits | start, serve, stop on a signal |
| Site archives (`sitebundle`) | none; it reads a directory that others may change | `Pack` on the client, `Parse` on the server |
| Page routing (`handlePage`, `pageURL`, `redirectWithSlash`) | the stored page | GET `/<id>`, `/<id>/...` |
| Client and command line (`client`, `cmd/pageup`) | what a command has read, sent and printed | `upload`, `file`, `update`, `delete`; one signed request each, or one per file |
| Client configuration (`client/config.go`) | the configuration file with the private key | `init`, and loading it |
| Skill installation (`pageskill`) | two files and their directory | `Install` |
| Downloads and static answers (`downloads.go`) | none | GET |

How they interact. Every handler that changes something first passes
`authorizeHash`, which looks up the key, verifies the signature and uses the
nonce. The nonce then names what the request makes: it is the id of a new page
or file, and the key of the blob of a revision. The client chooses it; the server
only compares it with the nonces that the same key used in the last ten minutes
(server.go:510-518), so requests of different keys may share one, and one may
be the id of a file that is there. Pages are changed, and read,
under one mutex from beginning to end. Hosted files are not: only the re-read and
the rewrite of the metadata are under a mutex; uploads, the deletion of blobs
and GETs run beside each other. All state but the nonces (and the mutexes)
is on disk, so a crash keeps it, half-made changes included.

What is hard about it, and what makes it correct:

* **Hosted files**: an update decides from metadata it read before its body
  arrived; uploads, blob deletions and GETs interleave; each of several accesses
  may fail; the process may die between two of them; nonces need not differ. Correct
  means: a file that has metadata has its content; no update is lost; a deleted file stays deleted;
  no upload is left behind; a GET serves one revision, and misses a file only
  for a reason; every handler and GET ends; and, in sum, each request takes
  effect in one step or not at all.
* **Pages**: a change is up to four object accesses that must look like one:
  undone after a failure, invisible to GETs. Correct means: one whole content, one
  owner, changes by the owner or an admin only, a failed request changes
  nothing, and a page that exists stays.
* **Authentication**: a window of clock times, a table with eviction, and handlers
  that read the clock before they take the lock, and may take any time over it.
  Correct means: a signed request is accepted once, and never refused because of a
  forged copy. The first is not quite so; what holds is in section 3.
* **Archives and routing**: a directory is walked, then read, and may change in
  between; `Pack` and `Parse` check the same limits twice, on signed and unsigned
  numbers; a site is parsed anew, with the limit of today, for every GET; a page may
  turn from a site into HTML between a redirect and what follows it. Correct means:
  no archive is beyond the limits, what is packed is accepted, every file of a site
  can be reached with its links intact, and redirects end.
* **Commands**: files change between the look that decides what they are, the hash
  and the transfer; answers are lost; a request may be carried out after its
  command has given up; the server stops with requests in flight; two commands
  write the same configuration or skill. Correct means: what was made is reported
  and what is reported is true, nothing is stored that was not signed, no key
  is lost by accident, an installed skill is whole, and every command ends.
* **Keys**: memory is changed before the file, under a lock that readers share.
  Correct means: there is always an admin, on disk; memory and file agree; nobody
  acts on a key that is not saved; no restart brings a key back.

## 2. Modules

| Module | What it is |
| --- | --- |
| `FileService` | what the hosted files promise: files change in one step per request |
| `HostedFiles` | the handlers and GETs of `files.go`, one action per object access; implements `FileService` |
| `HostedFilesProofs`, `FileServiceProofs` | its theorems; the refinement, and what rests on the same invariant |
| `RequestAuth`, `RequestAuthProofs` | `authorizeHash` and `useNonce`; theorems |
| `KeyRegistry` | what the authorized keys promise: a registry that outlives crashes and always has an admin |
| `KeyStore`, `KeyStoreProofs` | `keystore.go` and its handlers; implements `KeyRegistry`; theorems |
| `PageService` | what pages promise: a page and its metadata change together, in one step per request, and a crash, or a write that fails after its effect, leaves at most one page half-made |
| `Pages` | `createPage`, `updatePage` and the read of `handlePage`, one action per object access; implements `PageService` |
| `PagesProofs`, `PageServiceProofs` | its theorems; the refinement |
| `SiteBundle` | `Pack` and `Parse` of `sitebundle.go` |
| `Sites` | `SiteBundle` with the server that publishes archives and the visits that read them |
| `SitesProofs` | theorems about `SiteBundle` and `Sites`, and the lemmas on sums that they need |
| `Device` | what commands keep on the device: the configuration (`SaveConfig`) and the skill (`Install`) |
| `Commands` | `Device` with the commands that publish, the network, and the life of the server |
| `CommandsProofs` | theorems about `Commands` and `Device` |
| `MCHostedFiles`, `MCRequestAuth`, `MCKeyStore`, `MCPages`, `MCSites`, `MCCommands` | the instances that TLC checks |

How state and actions correspond to the code:

* **HostedFiles.** `meta` and `blobs` are the objects on disk; a metadata object is
  `Missing`, `Torn` (created by `writeImmutable`, not yet written) or a record.
  Name, content and owner are members of small sets; the content stands for
  the bytes, their size, type and SHA-256. `lock` is `server.files`, `pc` the place
  in a handler. `call` has the nonce of a request: a create takes the id of its file
  from it, every revision the key of its blob, and nothing says that nonces differ.
  A create goes `upload` (`spoolUpload`, `storeFileBlob`), `create`, `fill`, `seal`
  (`writeImmutable`: open exclusively, write, sync and close), `reply`; `discard` is
  the deferred removal of metadata that could not be written (server.go:552-559),
  which may fail too. An update goes `check` (the first read), `upload`, `lock`,
  `locked` (the second read, under the lock), `commit` (the rename that replaces the
  metadata), `cleanup` (delete the replaced blob), `reply`. A delete goes `lock`,
  `locked`, `remove`, `cleanup`, `reply`. `CheckAgain` releases the lock when it
  refuses, `Commit` and `Remove` in the same step as their one access, since
  nothing comes between. `undo` deletes the blob of a request that is refused or
  fails after its upload. `applied` is a history variable. A GET goes `idle`
  (first read, redirect), `open`, `again` (second read), `reopen`.
* **Pages.** `content[p]` has an object per kind. `Begin` takes the lock, reads the
  page and decides (`Verdict` is the checks of `createPage` and `updatePage`);
  the further actions are the accesses in the order of the code; `Unmake`,
  `Unwrite` and `Restore` are its undo steps. `late` is the request one of whose
  writes reported an error after its effect was visible (`LateFault`).
  In `PageService` a page is its content and metadata, and `calm` says that at most
  one access has failed, be it after its effect: until then the service promises all
  it says, afterwards nothing. `Make` is the one step of a request, `FailLate` that
  of a request whose write failed late, which leaves its page in one of the two ways
  of `SlipsThrough`; `HalfMade` is what a crash leaves.
  `Service` in `Pages` maps a request that has made all its accesses but not
  answered yet to one that has taken effect, and one that will undo them to
  one that has not.
* **SiteBundle and Sites.** `dir` is the directory, `measured` what the walk of
  `Pack` has counted, `archive` what it has written. A path is a sequence of names,
  a body has a size. Files are walked and read in any order, which is more than the
  code's. `Read` is `os.ReadFile` and what follows: the file is read whole, whatever
  it has grown to, then its length is compared; `Block` is a pipe put in the file's
  place, which is never read to its end. `Edit` is anybody who changes the directory under `Pack`. Sizes in
  an archive are numbers below `Word`, and `TotalBefore` wraps as `uint64` does.
  In `Sites`, `page` is what the one page is, `limit` the `PAGEUP_MAX_PAGE_BYTES` of
  the running server; `Respond` is `handlePage` for one path, `Ask` a browser
  that follows what it is told.
* **Device and Commands.** `call[c]` is the command line of command `c` after flags and
  URLs are parsed, `pc[c]` its place: `check`, `save` (`SaveConfig`: the stat; the
  rename), `stat`, `prepare`, `rename`, `remove`, `rename again` (`Install`, and
  `writeAtomic` for the file `at[c]`), `classify` (`isHostedFile`), `load`
  (`LoadConfig`), `read` (`readArtifact`, or `openFileContent` and the hashing of
  `doSignedStream`), `send`, `wait`. `request[c]` is the request on its way; it
  outlives its command. `Receive` takes the body in, from the disk as it is then;
  `Handle` does in one step what `HostedFiles` and `Pages` do in many. What is
  made for the `i`-th argument of `c` has the id `<<c, i>>`. `server` is
  `running`, `stopping` (`Shutdown` has begun) or `exited`. `rivals` is a history
  variable: which other commands wrote the same thing since `c` looked.
* **KeyStore.** `keys` is the map in memory, `disk` is `keys.json`. `Add` and
  `Remove` change memory and keep the write lock; `Save` ends in the rename, or
  takes the change back. `Authorize` is the part of `authorizeHash` that reads the
  store. Names and creation times are left out: nothing depends on them.
* **RequestAuth.** A message is its nonce, its timestamp and whether the key and
  signature are genuine. `ReadClock`, `Verify` and `UseNonce` are the three parts
  of `authorizeHash` in their order; `Tick` may come between any two of them, as
  often as it likes.

What can go wrong in the models. `Fault` is an object access that returns an error
and has no effect. A *late* fault is a write that reports an error although its
effect is visible: `writeAtomicStream` changes the mode after the rename
(pages.go:265). It is one fault. In `HostedFiles` the constant `LateFaults` turns such
writes on; in `Pages` (`LateFault`), `Device` and `Commands` they are always there.
`TwoFaults` in `Pages` is a write that fails and the removal that was to make up for
it, which fails too. `Crash` loses what is in memory and leaves
every object as it is, at any step. `Redeliver` lets a request that got no answer
because the process died reach the next one, as a retrying proxy may do.

The definitions named `Bad...` are mistakes that this code could contain in
place of the definition that follows them; no specification uses them. Each
was substituted to see that the properties can fail:

| Mistake | in place of | breaks |
| --- | --- | --- |
| `BadAllowed`: anybody may change a file | `Allowed` | `ImplementsService` |
| `BadBlobKey`: one blob key per file | `BlobKey` | `GetConsistent` |
| `BadFilesFree`: no mutual exclusion | `FilesFree` | `SafeContent`, `OnlyCreateMakesAFile`, `RevisionCountsUpdates` |
| `BadUnlock`: the lock is not released, after a change or a refusal | `Unlock` | `EveryRequestEnds` |
| `BadCleanup`: the file's first blob is deleted, not the replaced one | `Cleanup` | `NoOrphanBlobs` |
| `BadRedirected`: a GET is redirected to the name it asked for | `Redirected` | `EveryGetEnds` |
| `BadReadAgain`: the second read is not used | `ReadAgain` | `NotFoundOnlyIfReplaced` |
| `BadRemembered`: nonces are kept for one window | `Remembered` | `RepeatOnlyIfOvertaken` |
| `BadVerify`: the nonce is used before the signature is verified | `Verify` | `NoFalseReplay` |
| `BadLoad`: the bootstrap keys are merged in at every start | `Load` | `OnlyAddAuthorizes` |
| `BadReadLock`: readers take no lock | `ReadLock` | `SeesOnlySaved` |
| `BadAlreadyThere`: a known key may be added with another role | `AlreadyThere` | `ImplementsRegistry` |
| `BadLastAdmin`: off by one | `LastAdmin` | `Restartable` |
| `BadRestored`: a failed save leaves memory changed | `Restored` | `MemoryIsSaved` |
| `BadPagesFree`: no mutual exclusion | `PagesFree` | `GetSeesWholePage` |
| `BadMay`: pages without metadata are anybody's | `May` | `ChangedByOwner` |
| `BadUnmake`: a failed create leaves its content | `Unmake` | `FailureChangesNothing` |
| `BadRemove`: a failure to remove the old kind is ignored | `Remove` | `OneWholeContent` |
| `BadRestore`: the old content is not restored | `Restore` | `PageStays` |
| `BadOwner`: an admin's update takes the page over | `NewMetadata` | `ImplementsPageService` |
| `BadLegacy`: a repeated create counts as a revision, a legacy page keeps no owner | `NewMetadata` | `RevisionCountsUpdates` |
| `BadMayPack`: off by one in the number of files | `MayPack` | `PackedIsAccepted` |
| `BadChildren`: subdirectories are not walked | `Children` | `PackedIsDirectory` |
| `BadUnchanged`: the size is not compared when the file is read | `Unchanged` | `ArchiveBounded` |
| `BadWithin`: the size is added before it is compared, and the sum wraps | `Within` | `StoredFits` |
| `BadParses`: an index is not asked for | `Parses` | `PublishedIsServed` |
| `BadNeedsSlash`: a directory is not redirected to its index | `NeedsSlash` | `SitesInv` |
| `BadRespond`: the index is served without the redirect | `Respond` | `RelativeLinksResolve` |
| `BadOnwards`: the redirect leads back to itself | `Onwards` | `OneRedirect` |
| `BadMayInit`: `--force` is not asked for | `MayInit` | `CredentialsKept` |
| `BadLastFile`: off by one, the last file is not written | `LastFile` | `SkillComplete`, `InstalledVersion` |
| `BadPrintedOnFailure`: with `--json` a failure prints nothing of what was made | `PrintedOnFailure` | `MadeIsReported` |
| `BadIsHostedFile`: what has no extension is a page, whatever is in it | `IsHostedFile` | `KindByContent` |
| `BadReadable`: a path that is not there is read as if it were | `Readable` | `CommandsInv` |
| `BadMayHandle`: the body is not compared with the signed hash | `MayHandle` | `NoMixture` |
| `BadIsSuccess`: an error status counts as success | `IsSuccess` | `ReportedIsTrue` |
| `BadOverdue`: no deadline | `Overdue` | `EveryCommandEnds` |

## 3. What TLC checks

| Run | Question | Result |
| --- | --- | --- |
| `files_service` | Three racing requests, with nonces of their own or shared, a GET, one failing access, one crash: `SafeContent` (the inductive invariant, `LiveBlob` is part of it), `NoOrphanBlobs`, `GetConsistent`, `NotFoundOnlyIfReplaced`, `OnlyCreateMakesAFile`, and the refinement `ImplementsService` | holds |
| `files_liveness` | Two racing requests and a GET with late faults, redelivery and a crash: `RevisionCountsUpdates`, and under fairness `EveryRequestEnds`, `EveryGetEnds` | holds |
| `files_rename_race` | Does an update without a name keep the name? (`KeepsName`) | violated |
| `files_id_reuse` | Does a key that may not change a file leave its content alone, whatever nonce it signs? (`ContentKept`) | violated |
| `auth` | `RepeatOnlyIfOvertaken` and `NoFalseReplay` at the edges of window and retention, with handlers that take any time | holds |
| `auth_replay` | Is a message accepted only once? (`AcceptedOnce`) | violated |
| `keys` | Admins who revoke each other, a failing save, a crash: `Restartable`, `MemoryIsSaved`, `OnlyAddAuthorizes`, `SeesOnlySaved`, and the refinement `ImplementsRegistry` | holds |
| `pages` | Creates, updates, conversions, two faults, late ones among them, one crash: `OneWholeContent`, `GetSeesWholePage`, `RevisionCountsUpdates`, `FailureChangesNothing`, `PageStays`, `ChangedByOwner`, and the refinement `ImplementsPageService` | holds |
| `pages_no_owner` | Does every page record its creator, also after a crash? | violated |
| `pages_conflicting` | Does a page never have two contents, also after a crash? | violated |
| `sites` | A directory edited while it is packed, foreign archives, a server whose limit changes, a visit: `SitesInv` (`TypeOK`, the invariants `BundleInv`, `StoredParses` and `SlashAfterRedirect` on which the proofs rest, and `EveryFileServed`), `ArchiveBounded`, `PackedIsAccepted`, `PackedIsDirectory`, `StoredFits`, `RelativeLinksResolve`, `PublishedIsServed`, `OneRedirect` | holds |
| `commands` | Two commands, an edit, two failures, a kill, a server that stops and starts: `CommandsInv` (inductive), `MadeIsReported`, `ReportedIsTrue`, `NoMixture`, `KindByContent`, `CredentialsKept`, `SkillComplete`, `InstalledVersion`, and under fairness `EveryCommandEnds` | holds |

The auxiliary invariants `OnceInv`, `KeysInv` and `PagesInv`, and `RoleKept` and
`KindsKept`, are proved (section 4) and not checked again; the first three imply
the properties in the table, `RoleKept` is part of what `KeyRegistry` promises.

What the violated ones show, with the code they are about:

* **files_rename_race.** README.md:91 says an update keeps the file name unless one
  is given. The name is taken from the metadata read before the upload
  (files.go:190-196) and written over whatever the name is at the commit
  (files.go:228). A rename in between is undone.
* **files_id_reuse.** README.md:91 says that the creator key or an admin can update
  or delete a file. A create whose nonce is the id of a file in its first revision
  stores its content under that file's blob key (files.go:152-166) before
  `writeImmutable` finds the metadata there; then it is refused and deletes the blob
  (files.go:169-174). The server remembers nonces per key (server.go:516), so that a
  different key may sign such a create at any time, and the same key ten minutes later
  or after a restart. The id of a file is in its URL. In between, a GET serves the
  new bytes under the old headers; afterwards the file has metadata and no content.
* **auth_replay.** README.md:97 says that the server rejects replayed nonces. A
  message stamped a whole window ahead is accepted at once. A copy of it reads the
  clock in its window (server.go:481) and is held up; then comes a handler whose
  reading of the clock is past the retention, and evicts the nonce
  (server.go:511-515); the copy finds it gone. Ten minutes are exactly the two sides of
  the window, so that the copy may read the clock at the last moment of its window and
  the other handler just after it; with an earlier stamp or reading the copy must be
  held up for longer. `RepeatOnlyIfOvertaken` says that there is no other way: without such
  a handler in between a message is accepted once, wherever in the window it is
  stamped and repeated.
* **pages_no_owner, pages_conflicting.** Content and metadata, and the two kinds
  of a conversion, are written one after the other with nothing on disk to tell
  a later process what was under way. After the first crash the creator is
  locked out (an admin is not); after the second nobody can read or repair the
  page, as `readPageContent` refuses it.

What the properties' conditions leave out are weaknesses as well, found by checking
them without the condition.

*Nonces that do not differ.* `LiveBlob`, `GetConsistent` and `NotFoundOnlyIfReplaced`
are about files whose writers, the requests that store content for them, carry
different nonces, none of them the id of a file that was there before
(`NoncesDiffer`); `ImplementsService` promises the metadata of every file, and content
and answers of GETs for those. Clients of this repository draw UUIDv7 nonces and keep
to it. Where they do not, two updates with one nonce write one blob, and
whichever is refused deletes it; a create does what `files_id_reuse` shows. The workloads
`SharedNonce` and `Reused` are part of `files_service`, so that what is claimed
without the condition (`NoOrphanBlobs`, `OnlyCreateMakesAFile`, the metadata in
`ImplementsService`) is checked for them.

*Requests delivered again.* Nonces are only in memory. A create that took effect just
before the process died, delivered again to the next process, stores its blob over the
live one, finds the metadata and deletes the blob it "lost" with (files.go:169-174).
`files_service` has no redelivery, and the theorems on content assume none;
`RevisionCountsUpdates` holds with it.

*A GET overtaken twice.* Two updates, one before each `OpenStream` of a GET, give a 404
for a file that was there throughout (files.go:305-315). `NotFoundOnlyIfReplaced` says
that this is the only way for it to happen to a file whose writers' nonces differ.

*Rollback of a conversion.* `PageStays` and `PageService` promise nothing once two
accesses have failed. The two steps of the rollback are independent
(pages.go:149-155): if the metadata cannot be written and then restoring the
old content fails too, the new content is removed all the same, and the page that
existed has none.

*Late faults of pages.* One chmod that fails after its rename (pages.go:265) is enough to
leave a page changed although the update was answered with an error. At
pages.go:140 `updatePage` returns at once: the new content stays, and in a conversion
the old kind beside it, after which the page cannot be read or repaired. At pages.go:149 the
content is put back and the new metadata stays, a revision too high, or, for a
page without metadata, with an owner. A create that meets it at pages.go:83
removes its content and leaves its metadata. `OneWholeContent`, `GetSeesWholePage`
and `RevisionCountsUpdates` are therefore about behaviours without such a write
(`Calm`), and `FailureChangesNothing` excepts the request that met it, and only
that one. `PageStays`, `ChangedByOwner` and `ImplementsPageService` hold with
it: `SlipsThrough` in `PageService` is the list of what it leaves.

*Two inits.* `CredentialsKept` lets an `init` without `--force` replace the key of
another `init` that wrote between its check (config.go:119) and its rename
(config.go:154). Both succeed and both show a key; the configuration holds the
second. If an admin approves the first one, nobody has its private half.

*Failed install.* After an install that failed on its second file, an install
without `--force` refuses, as the directory is there (install.go:34);
`InstalledVersion` says that one with `--force` makes the skill whole. A file
that cannot be replaced is removed first (install.go:81); if the second rename fails
too, the old file is gone. `SkillComplete` excepts that file and no other.

*Shutdown.* `ListenAndServe` returns when `Shutdown` begins (pageup-server
main.go:74), so `main` returns and cuts off the handlers that `Shutdown` is waiting
for. `Exit` therefore has no guard; a command whose request is cut off fails, and
may have made something that it has not printed: the one exception in
`MadeIsReported`.

*URLs that go stale.* After an update from a site to HTML the URL that was printed
for the site, `/<id>/`, answers 404 (server.go:380), although the help says that
updates keep the URL (main.go:833); `PublishedIsServed` is about the URL of the page
as it is. The redirect is a permanent one (server.go:445), and a browser that
remembers it goes to `/<id>/` unasked after such an update; `Ask` does not.

*Update by URL.* `pageup update` with the URL of a page publishes whatever it is given
as a page, HTML or not (main.go:198-204); `KindByContent` excepts it.

*Late faults of files.* With `LateFaults`, `LiveBlob` fails: an update whose
metadata rename succeeded and whose chmod then failed answers with an error and
deletes the blob that the new metadata names (files.go:235-238). So does
`OnlyCreateMakesAFile`: a create whose sync fails removes metadata that an update
has already read under the lock (server.go:554-568), and the update writes it
again.

*Packing.* `ArchiveBounded` bounds what `Pack` writes, not what it holds: a file that has
grown since it was measured is read whole (sitebundle.go:102) before its length is
compared (107), and a pipe in a file's place is read for ever.

*A revoked key in flight.* A request is authorized once, when it arrives
(server.go:486); a revocation that is answered before its handler takes effect does not
stop it. `KeyRegistry` says so: to accept and to take effect are two steps of it.

### Bounds

* Files: one file on disk and one being created; three requests, one GET; one
  crash; one fault. Two requests are needed for a race, the third decides
  between them (a rename against an update, a delete against both, a key that
  may not). `OnStored` and `OnCreated` in `MCHostedFiles` are the combinations
  that meet on one file, `SharedNonce` and `Reused` those that meet through a nonce;
  requests on different files share only the lock, and nonces that are ids. One
  crash reaches every intermediate state, since nothing in the store
  depends on how many there were; redelivery needs one too. The liveness run
  has two requests (`PairCalls`), late faults and redelivery.
* Authentication: `Window = 1`, `Retention = 2` as 5 and 10 minutes are, five ticks, so
  that a message stamped a window ahead is used, expires and is forgotten, with time
  left; four deliveries: a message and its copy, a third that is the same,
  damaged, or signed later with the same nonce, and one whose handling evicts
  nonces. The ticks are not bounded by what handlers do.
* Keys: three keys, three requests, one failing save, one crash. Every pair of
  changes by two admins, beside a request that looks or adds.
* Pages: one page that is absent, legacy or owned; three requests by an owner, a
  stranger and an admin over both kinds and two bodies; two faults, so that an
  undo step can fail as well; one crash. Pages share nothing but the lock.

* Sites: five directories of up to four of the paths that matter (a root, a
  subdirectory with an index, one with a file, a name with a backslash, a file that
  is not HTML), `MaxFiles = 3` and `PackBytes = 4` so that both limits are met exactly and
  exceeded, one edit, six archives that no `Pack` makes (a size that wraps,
  a wrong size, a duplicate, no index, a file and a directory of one name, an
  entry that is not a regular file), `Word = 16`; limits at and below `PackBytes`; two
  changes of page or limit, so that one comes before and one after a redirect; one
  visit, as visits do not meet.
* Commands: two commands per behaviour, in pairs that meet: on the configuration, on the
  skill, on one target, on one file. Four paths (HTML without an extension, a log,
  standard input, a directory), one edit, two failures, one kill, one stop and
  start. Two files in one `pageup file`, so that the second can fail after the
  first; two files of the skill, as in the code.

`CHECK_DEADLOCK` stays on: each specification says with `Terminating` when there
is nothing left to do.

### Fairness

`FairSpec` of `HostedFiles` asks for weak fairness of each handler and each GET.
The Go scheduler runs every goroutine that can run; an object access returns;
`sync.Mutex` hands the lock to a waiter after a bounded time (its starvation
mode), and here finitely many requests contend for it, so weak fairness is
enough. Nothing is assumed of deliveries, failures or crashes. Bodies end because the
server sets deadlines on reading them (`extendTransferDeadlines`).

`FairSpec` of `Commands` asks for weak fairness of each command's own steps, a
process that nothing blocks. That a request arrives, a handler finishes or a
stopped server starts again is not assumed: what ends a command that waits is its
deadline (client.go:52, main.go:145, 208, 255, 313, 426).

## 4. What is proved

TLAPS checks, for every value of the constants:

* `HostedFilesProofs!TypeCorrect`: `Spec => []TypeOK`, with late faults and
  redelivery. The invariant is `TypeOK /\ PhaseOK`; `PhaseOK` says what a
  handler has in hand in each phase.
* `HostedFilesProofs!ContentSafe`: `Spec => []LiveBlob`, assuming `~LateFaults` and
  `~Redeliver`, without which it is false (section 3). Nothing is assumed of nonces:
  `LiveBlob` is about the files whose writers' nonces differ (`NoncesDiffer`), beside
  any other requests. `LiveBlob` alone is not inductive: nothing in it stops a handler from deleting the live blob.
  `SafeContent` adds why, for those files: a blob key is named by one request and is *settled*
  once that request's metadata change is made, after which nobody writes it
  (`LiveBlobSettled`); a request that is about to make its metadata change has
  its blob (`Uploaded`); only the creating request touches a torn object
  (`TornIsOurs`); what a handler read under the lock is still so
  (`HoldsLock`); and the blob that a handler deletes afterwards is not named any
  more and never will be again (`ReplacedBlob`).
* `HostedFilesProofs!FilesInvariant` is that invariant; `OnlyCreates`
  (`Spec => OnlyCreateMakesAFile`) and `GetsAreConsistent` (`Spec => []GetConsistent`)
  follow from it under the same assumptions: an update writes
  only metadata that is still there under its lock, whatever its nonce, and a blob of
  such a file never changes once a GET can have read its key (`ReadsSettled`).
* `HostedFilesProofs!NoUpdateIsLost`: `Spec => []RevisionCountsUpdates`, with late faults,
  crashes and redelivery. `RevisionsCounted` says that a request takes effect once in
  the life of a process, and that what an update read under the
  lock is the revision that counts the updates so far.
* `FileServiceProofs!ServiceInvariant`, assuming `~LateFaults` and `~Redeliver`, adds to
  `SafeContent` what each handler has decided in each phase (`Outcomes`, for all nonces),
  and, for files whose writers' nonces differ, that an id whose file lives was given
  and is given no more (`IdSettled`), and that what a GET has read is the file's
  metadata or an older revision (`ReadsOrdered`). From it
  `FilesImplementService` (`Spec => ImplementsService`): `FillMetadata`, `Commit` and
  `Remove` map to the one step in which the service changes a file, `ResolveName` to its
  `Choose`, the other accesses to stutters, refusals or answers; `NotFoundIsReplaced`
  (`NotFoundOnlyIfReplaced`: revisions only go up, so a second miss needs two updates);
  and, with `BlobsHaveOwners`, `NoBlobIsLeftBehind` (`NoOrphanBlobs`: a blob is named by
  metadata or in the hands of a handler that will either name or delete it; two that
  share a nonce may both have it in hand).
  `NoOrphanBlobs` is itself about behaviours with no failure and no crash, so that the
  two assumptions take nothing from it.
* `RequestAuthProofs!RepeatsAreOvertaken`: `Spec => []RepeatOnlyIfOvertaken`, assuming
  `Retention >= 2 * Window`, which the constants of the code meet with equality
  (server.go:483, 510), and nothing about how long handlers take. `NoncesRemembered` is
  the invariant, `OnceInv`: a handler past the check of the timestamp has read the clock
  in the window of its message (`DecidingInTime`), and the nonce of an accepted
  message is in the table, with a time of use that keeps it there to the end
  of the window, or a handler has come to the table for which the message had
  expired (`AcceptedRemembered`). `AcceptedOnce` itself is false for these constants.
* `RequestAuthProofs!RejectsOnlyRepetitions`: `Spec => []NoFalseReplay`, from the
  fact that a nonce in the table was accepted (`UsedWasAccepted`).
* `KeyStoreProofs`: `KeysSafe` (the inductive invariant `KeysInv`: `Saving` says
  what the holder of the write lock has changed in memory and that what it is about to
  save has an admin), and from it `AlwaysRestartable`, `MemoryAlwaysSaved`,
  `OnlyAdditions`, `RolesKept`, `SeesOnlySavedKeys` and
  `StoreImplementsRegistry`: the whole refinement, initial states and steps.
* `PagesProofs!HandlersHoldTheirPage` and `ChangesAreByOwner`: with any faults and
  crashes and any pages on disk, a handler at work holds the lock, on a page that
  is new or that its key may change (`HoldsPage`); since only such a handler writes,
  `Spec => ChangedByOwner`.
* `PagesProofs!PagesInvariant`: `Spec => []PagesInv`, assuming that the pages on disk
  at the start are whole (`WholePreload`; a crash can leave others, which
  `pages_conflicting` shows). `OneWholeContent` alone is not inductive: it says nothing
  while a handler is at work. `InProgress` does: `SoFar(r, k)` is each object of the
  page as what the handler found changed by the accesses it has made, and an undo
  phase means that the one fault has happened; the metadata may be the new one
  before that is reported, if its write failed late. From it
  `PagesAreWhole` (`OneWholeContent`) and `GetsSeeWholePages` (`GetSeesWholePage`).
  Both are about behaviours in which no write failed late (`Calm`).
* `PagesProofs!WorkInvariant`: what handlers have in hand and what is on disk, with no
  assumption on the pages at the start, on faults or on crashes. From it
  `FailuresAreUndone` (`FailureChangesNothing`: every undo step ends where the handler
  began, also when it began with what another request's late write left) and
  `PageServiceProofs!PagesImplementService`: `Spec => ImplementsPageService`. Each
  access maps to a stutter but the last, which is `Make`, or `FailLate` when one of the
  writes failed after its effect, which is one of the two cases of `SlipsThrough`; a
  crash maps to `Crash`, with the content that `WorkInvariant` allows as a `HalfMade`
  page.
* `PagesProofs!PagesStay` (`PageStays`) from `WorkInvariant`: the step that removes a
  page's only content is an undo step of the create that made it, for in a conversion
  the other kind is there. `PagesProofs!RevisionsCountUpdates` (`RevisionCountsUpdates`),
  assuming that the pages at the start are in their first revision
  (`FirstRevisions`: the property counts from there; a page that starts at
  another is off by as much). `RevisionsCounted` adds that a page that was updated has
  content when nobody works on it, so that no create takes it for new.
* `SitesProofs!WithinIsBytes`: for every archive whose sizes are below `Word`, and every limit
  below `Word`, the test that `Parse` makes entry by entry, with unsigned
  arithmetic (sitebundle.go), holds exactly when the sizes, as numbers, add up to
  no more than the limit: the running total never wraps before an entry is refused.
* `SitesProofs!SitesInvariant`: `Spec => []SitesInv`. `BundleInv` is what `Pack` maintains while
  the directory changes: the count is within the limits (`CountIsBounded`); the
  archive has each counted file once at most, and at the size that was counted
  (`ArchiveIsCounted`); in a directory that nobody touched, every file is counted
  or below something that the walk has still to come to (`NothingIsMissed`). From
  it `ArchiveIsBounded`, `ParseTakesWhatPackMakes` (with `WithinIsBytes`: the limits are
  written twice in the code, on signed and unsigned numbers, and agree) and
  `PackIsComplete`. `StoredParses` says that a stored site was accepted once: from it
  `EveryFileServed`, `LinksResolve`, `StoredSitesFit` and `WhatIsPublishedIsServed`.
  `RedirectsEnd` rests on `SlashAfterRedirect` alone.
  `TreeAssumption` is used here: no file of the directory is below another file.
* `CommandsProofs!CommandsInvariant`: `Spec => []CommandsInv`, from the assumptions on
  the constants alone. `MadeIsReported` and `ReportedIsTrue` are not inductive: they
  speak of commands that have ended, while their requests go on. `RequestOK` says
  that a request under way belongs to a command that waits for it or ended without
  success, and that what it would make is not there yet; `ResultOK` that what has
  been made is for arguments up to the current one; the two and the types are
  `ReportInv`. From it `WhatIsMadeIsReported`,
  `WhatIsReportedIsTrue`, `NothingMixed` and `KindsStay`. `KindOK` is the rest of
  `CommandsInv`: a command that was told what to publish keeps to it, and another has
  looked at the file it reads before it sends what it has read; from it
  `ContentDecidesTheKind` (`KindByContent`). That `upload` and `update` take one file
  (main.go:129, 178) is part of `StartAssumption` for it.
* `CommandsProofs!NoCredentialsLost` (`CredentialsKept`) from `Replaced`: whoever is about to
  save without `--force` saw no configuration, so that one there now is a
  rival's.
* `CommandsProofs!NoFileOfTheSkillIsLost` (`SkillComplete`) from `PlacedInv`: the files an
  install has passed are there unless another is between removing and renaming
  them. `AnUndisturbedInstallIsWhole` (`InstalledVersion`) from `VersionInv`:
  while no rival has written, the files it has passed have its version.

The hypotheses of these theorems hold in the runs too: late faults and redelivery are
off in `files_service`, nonces are kept for two windows in `auth`, and
`pages` starts from whole pages in their first revision. What goes wrong without
them is in section 3.

Sums over data are proved without induction on sequences: `SitesProofs!SetInduction` takes a
least counterexample, a finite set of the smallest size for which a claim fails,
and `PrefixSums` and `TotalOf` carry the claim from the fold over a set to the
running total of an archive.

Only model-checked: liveness (`EveryRequestEnds`, `EveryGetEnds`, `EveryCommandEnds`), which
is out of the prover's reach, as `ENABLED` under fairness is. Every other property of a
passing run is a theorem.

## 5. What is not modelled

* Loss of power: an unsynced directory entry that goes back in time. A crash here is
  a process that dies.
* Temporary files (`os.CreateTemp`) that a crash leaves behind; nothing reads them.
* HTTP details, headers, ranges, content types, wording of answers, logging, JSON.
  An object that does not parse is `Torn`.
* Signatures and hashes: assumed unforgeable. A body that is not what was signed is
  `RejectBody`. The drawing of UUIDs is not modelled: nonces are what a workload says,
  shared or not. `Pages` and `Commands` have a page or file per create, and the other
  requests name it; a create of a page that exists is one of the calls of `Pages`.
* The nonce table across a restart: `RequestAuth` is one process. `Redeliver` in
  `HostedFiles` is what a forgotten nonce means for files.
* In `Commands`: `pageup keys`, whose requests `KeyStore` models on the server's side;
  commands that only ask and print (`whoami`, `doctor`, `public-key`, `skill show`), the drawing of names and harness paths, the retry of a request
  by `net/http` on a stale connection (the same nonce: the server refuses a second
  one, `RequestAuth`), configurations that do not parse, and a page file that is
  written while `os.ReadFile` reads it: the page is then what was read, and signed
  as such.
* Reading standard input in `Commands` ends: from a pipe that is never closed it would not,
  and no deadline covers it.
* In `SiteBundle`: an entry of the directory is listed and examined in one step; directories
  do not become files. ZIP, compression, and names that only a foreign archive can
  have (`..`, absolute, unclean) are one case, `Invalid`.
* The static answers of `downloads.go`, which read files of the installation and
  change no state; the landing page; `protocol.go` beyond what a signed message
  contains.

## 6. Plan

Done, in this order: hosted files with their abstract specification; request
authentication; the key store with its registry; pages, then their abstract
specification with the refinement proved; site archives and routing; the
commands, the device and the server's life; the refinement of the hosted files, and
the proofs about archives, visits and what commands publish. Next:

1. Proofs: what is left under weaker assumptions than those above, such as
   `KeepsName` while no other request renames the file, and `CreatorRecorded` while no
   process has died.
2. A second visit that remembers permanent redirects, for the stale URLs of section 3.
3. The commands about keys, as requests of `KeyStore`, beside `init` on another device.

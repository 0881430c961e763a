# A TLA+ verification project for wkdmgr

wkdmgr publishes OpenPGP keys through the Web Key Directory. A user who is
signed in through an SSO proxy uploads a key for an address that a user
directory says is theirs; anybody can then look the key up by the hash of the
address. This directory holds TLA+ modules that model the code under `src/`,
TLC configurations that check them, and proofs checked by TLAPS.

Contents: [the system](#the-system) · [properties](#what-makes-each-part-correct)
· [modules](#the-modules) · [runs](#the-runs) · [fairness](#fairness) ·
[proofs](#the-proofs) · [disagreements](#where-code-and-documentation-disagree)
· [limits](#what-is-not-modelled) · [plan](#plan).

## The system

| part | source | state | operations |
|---|---|---|---|
| key table | `wkdmgr-core/src/storage.rs` | SQLite table `keys`: id (AUTOINCREMENT), uid, domain, wkd_hash, key data, revoked, expires_at; UNIQUE(domain, wkd_hash) | `existing_owner`, `insert_key`, `list_keys_for_uid`, `delete_key_for_uid`, `lookup_key_data` |
| schema and migrations | `storage.rs` | `PRAGMA user_version`, the columns | `open_writable`, `run_migrations`, `open_read_only` |
| management API | `wkdmgr-mgmt/src/lib.rs` | one writable connection behind a mutex; per request only its locals | `get_me`, `list_keys`, `upload_key`, `delete_key` |
| start and stop | `main.rs` of both services | the socket files, the journal mode of the database and its -wal and -shm files | start, graceful stop |
| query service | `wkdmgr-query/src/lib.rs`, `main.rs` | one cached read-only connection behind a mutex | `AppState::new`, `lookup_and_respond`, policy endpoints |
| OpenPGP checks | `wkdmgr-core/src/openpgp.rs` | none | parse, validate, minimise, revocation, expiry |
| WKD hash | `wkdmgr-core/src/wkd_hash.rs` | none | Z-Base-32, split and hash of an address |
| flat-file UserDb | `wkdmgr-core/src/userdb/flatfile.rs` | the user map, replaced by a file watcher | `load`, reload, `addresses_for_user` |
| LDAP UserDb | `wkdmgr-core/src/userdb/ldap.rs` | none between calls | `addresses_for_user` under one timeout |
| configuration | `wkdmgr-core/src/config.rs` | read once | `load`, `mode_bits` |
| front end | `frontend/src` | the lists shown, a pending id, messages | load, refresh, upload, delete |

How they interact. The two services share one SQLite file in WAL mode:
`wkdmgr-mgmt` writes it, `wkdmgr-query` opens it read-only and keeps the handle.
An upload asks UserDb which addresses the caller has, checks the certificate,
reads who holds the slot (`existing_owner`), asks UserDb a second time if that is
somebody else, and then hands a closure with `insert_key` to the blocking pool.
Each `.await` on the way lets other requests run. The front end calls the
management API and redraws from what `GET /api/keys` answers.

What is hard about it:

* **Interleaving.** The upload handler acts on answers that may be stale: it holds
  no lock between its two UserDb calls and its two closures, and UserDb changes by
  itself.
* **Half-done work.** A client can go away while its closure is queued; the
  closure runs all the same. The process can die between any two statements.
* **Overlap.** A new `wkdmgr-mgmt` removes the socket it finds and starts to
  serve while the old one may still be in a transaction, so the in-process mutex
  is not the only thing that has to keep writers apart. Two starts can also meet on
  the socket path.
* **A directory that half answers.** An LDAP server may hang, break off, refuse
  the bind or cut a result short; an answer with an address missing would take
  that address from its owner.
* **Change without an event.** An expiry passes, a file is replaced under a
  cached handle, and nobody is told.

## What makes each part correct

* Key table: one row per slot; ids are never given twice; a reader sees a slot
  change hands in one step (`IsDirectory`).
* Transactions: however connections interleave and fail, they act as the atomic
  operations do (`StoresAtomically`), decide on the state they commit on
  (`CommitsAsCalled`), never meet the UNIQUE constraint as an error
  (`UniqueNeverFires`), and never leave a gap in a takeover (`TakeoverLeavesNoGap`).
* Management API: a key appears and disappears only with an authorisation that
  was true at some moment of the request (`AppearsAuthorised`,
  `DisappearsAuthorised`); what is served is good now (`ServedIsGood`); a new owner
  is not locked out (`NewOwnerPublishes`).
  The row a lost race is refused for is of a uid that owned the address at some
  moment of the upload, or newer than the upload (`SharedConflictIsRecent`).
* Migrations: version and columns never part, wherever a start is cut short
  (`VersionTellsColumns`), and no process serves without them (`UpMeansMigrated`).
* Start and stop: lookups that may not write the directory can read the database
  while a writer is up (`UpMeansReadable`) and after it stopped alone
  (`StopLeavesReadable`); clients can connect under the umask's mode only between the
  bind of a process and its own `set_permissions` (`UmaskOnlyUntilChmod`); everything
  comes up in the end (`AllComeUp`).
* Query service: every answer is what the file says, or a 404 with a reason
  (`AnswersAreTheFiles`); lookups recover from everything that makes them fail
  (`Recovers`). Both except a handle that answers from something else without an error,
  an exception the code's comment does not make (`FollowsRename`). No lookup poisons
  the mutex for the others (`HandleWhileSelecting`).
* OpenPGP checks: whatever the owner does to their certificate before publishing it,
  what is served shows one address (`PublishesTargetOnly`) and no lost revocation
  (`ServedNotRevoked`), revocations of a key that is acceptable without them can be
  published (`RevocationAccepted`), and what is served would be accepted again, if the
  upload stated one expiry (`ServedRevalidates`).
* WKD hash: the encoding is the input's bits in fives (`EncodesTheBits`); who owns an
  address and which slot it is are one question (`OwnedIsPublished`), and a lookup that
  names the domain in any case arrives at the slot's domain (`LookupFindsSlot`).
* LDAP UserDb: an answer is complete and true of each address at some moment of the
  call (`AnswersAsDirectory`), within the configured time (`WithinBudget`), and never
  fails to come (`CallEnds`).
* Flat-file UserDb: answers come from a map the file had, never from an older one
  than before (`FollowsFile`), and in the end from the file's (`HotReloads`).
* Front end: the list, the form and the badges are what the answers made them,
  whatever overlaps and fails (`ListIsCurrent`, `PendingIsInFlight`,
  `OneUploadAtATime`, `SubmitEnds`, `RenderedHonestly`).

## The modules

```
Directory  <--- KeyTable <---+--- Mgmt <------- MgmtAudit
(abstract)    (one step per  |  (handlers)     (history variables)
               operation)    |
                             +--- Storage      Query
                                (statements)  (handle)

Migrations <--- Lifecycle    HotReload  <--- FlatFile <--+
(schema)        (processes,  (abstract)      (watcher)   |
                 sockets)                                +--- BuildUserDb
                             UserDb     <--- Ldap <------+
                             (abstract)      (calls)

OpenPgp         Frontend     ZBase32, Address
(certificates)  (page)       (wkd_hash.rs, domains)
```

An arrow `A <--- B` reads: B refines A or is built on it.

**Directory** is the promise to the outside: a function from slots to
publications, with `Publish`, `TakeOver` and `Withdraw`. It knows no ids, no
rows and no transactions.

**KeyTable** is `storage.rs` with every operation as one step. `rows` are the
committed rows and `lastId` is SQLite's sequence. A *slot* is a pair (domain,
wkd_hash), a *cert* an uploaded certificate with its fingerprint and minimised
bytes. `InsertOutcome` is the match in `insert_key`, shared by all modules.
`Published` maps the table to `Directory`.

**Mgmt** is the upload and delete handlers. A request has a program counter that
names the await it is suspended at:

| pc | the step that leaves it | code |
|---|---|---|
| `idle` | `ReceiveUpload`, `ReceiveDelete` | the routes and the authenticated uid |
| `resolveCaller` | `ResolveCaller` | first `addresses_for_user`, address check |
| `validate` | `Validate` | domain, `parse_key_material`, `validate_for_address` |
| `peek` | `Peek` | closure with `existing_owner`, the match on it |
| `resolveHolder` | `ResolveHolder` | second `addresses_for_user` |
| `insert` | `Insert` | closure with `insert_key`, the reply |
| `delete` | `Delete` | the one closure of `delete_key` |

`Validate` has no await before it in the code; a step of its own only adds
interleavings. A closure holds the connection's mutex from beginning to end,
hence it is one step. `UserDbFails`, `SqlFails`, `Disconnect` and `Crash` are the
failures. A disconnected request either vanishes or, if a writing closure was
queued, goes on with nobody to answer. `Reassign` changes what UserDb says about
an address, `Tick` moves the clock. What `openpgp.rs` computes of a certificate
is the constant `CertInfo`.

**MgmtAudit** adds history variables: every row there ever was, and for every
upload the uids that did and did not own its address at some moment of it. The
audit never blocks a step, which is also proved (`AuditedRuns`).

**Storage** is `insert_key` and the closure of `delete_key` statement by statement on
any number of connections. A transaction has a snapshot (`base`), its own view of
it and its own sequence; its first write takes the write lock, which SQLite grants
only while the snapshot is the latest commit. `RollBack` is a failing statement or
the death of the process. The abstract specification it implements is `TableSpec`
of KeyTable, on the same variables.

**Query** is the cached handle. A *generation* is an inode that `db_path` has
named. The handle stays on the generation it was opened on. The environment
creates the file, creates its tables (a step later), commits, stops, renames
another file onto the path, overwrites the file in place, and damages and repairs
it. A handle reads its file; after an overwrite beneath it, it may fail every time or,
as SQLite does not notice while the WAL index stays as it was, answer *anything* without
an error. Which slot is asked for does not matter here, so one slot is modelled.

**Migrations** is `run_migrations` in overlapping starts. `MIGRATIONS` is empty in
this release; the mechanism and what its comment promises are modelled for N of
them. **Lifecycle** extends it, on the same variables, to whole processes of both
services:

| stage | the step that leaves it | code |
|---|---|---|
| `off` | `Open`; `QueryStarts` | `Connection::open`; `AppState::new`, which reads nothing yet |
| `opened`, `wal` | `SetWal`, `CreateSchema` | the pragma and the SCHEMA batch of `open_writable` |
| `migrate` | `Migrate`: a step of Migrations | `run_migrations` |
| `ready` | `Unlink` | `remove_file` of a socket that exists |
| `bind`, `chmod` | `Bind`, `Chmod` | `UnixListener::bind`, `set_permissions` |
| `serve` | `Stop` | the signal and the switch to `journal_mode=DELETE` |
| `closing` | `Exit` | the end of `main`, which closes the connection |

`Bind` binds and listens: from `chmod` on clients can connect, and wait to be served.
`Kill` and `Fail` leave any stage. `Lookup` is a query's SELECT as far as the WAL is
concerned. What SQLite does is external: `-wal` and `-shm` come with the first
connection that opens the WAL and go with the last writable one that closes, while
the file's header goes on saying WAL; `journal_mode=DELETE` needs to be alone.
`SharedDir` says whether wkdmgr-query may create files beside the database; FALSE is
the interesting case.

**OpenPgp** is `openpgp.rs` and what `upload_key` makes of it. The owner's certificate
is a variable: User IDs with their self-signature's expiry, revocation and foreign
certifications, subkeys, the primary key's revocation, whether secrets are in it.
The owner's program edits it between uploads, so a row is a copy of what the
certificate once was. Which User ID speaks for the primary key is sequoia's
choice, left open among those not revoked, and each may state an expiry of its own
(`SameExpiry` says that they do not); a direct-key signature, which some
programs add and minimisation drops, is left out. In Mgmt the same results are the
constant `CertInfo`.

**HotReload** promises that a map never gets older. **FlatFile** implements it: `Load`
is the first `read_users`, `Watch` the end of `load`, and `Call`, `Read` and `Swap` are the
callback on the watcher's thread, cut at the two places where an editor can come
in between. Editors save in one step by renaming or in two by rewriting, and what
they save or leave half-done may be nothing `read_users` accepts, or a map by itself.
An event may be lost to a watcher error, and the process may die at any point.
`OtherEvent` includes the events the callback's own reading may cause.

**UserDb** is what `addresses_for_user` promises the handlers: a call fails, or says of
every address whether the uid owned it at some moment of the call. **Ldap** implements
it: one call, await by await (`connect`, `bind`, `search`, `unbind`), with the one timeout
around all of them. The server is external. It reads its entries one by one while
an administrator edits them, spells attributes as it likes, refuses a bind, and ends
a search with or without success. A search on a session that is not bound would be
answered as an anonymous one's, possibly with nothing. The refinement maps entries
the server has come past to addresses that are decided. The promise is per
address: two addresses of one answer may be of different moments. Mgmt asks for one
address at a time, which is why its `ResolveCaller` and `ResolveHolder` may read `owns` in
one step. **BuildUserDb** is the choice between the two backends when a process
starts.

**Frontend** is one page of one user. A request is a record in flight; `Handle` is the
server's step, `Answer` the continuation after the caller's `await`, `Break` a
connection that fails before or after the request was handled. An upload or delete that
was not handled is dropped with its handler or, if its closure was queued, is carried
out all the same (`HandleAbandoned`, as `Disconnect` in Mgmt). `page` holds the
refs of `App.vue` and its components. `badges` is what AddressList computed last: it
changes when the list does and not with the clock.

**ZBase32** runs the encoder's loop step by step on a buffer of `Word`
values; the `MCWkdHash` instance has 2^12 where the code has 2^32, so that the word
overflows within five bytes (TLC's own integers have 32 bits). **Address** is `split_address`,
`wkd_hash_for_address`, the comparison in `upload_key`, `allowed_domains` and the domain
of a lookup, on addresses that are sequences of characters.

**MCMgmt**, **MCMgmtAudit**, **MCStorage**, **MCOpenPgp**, **MCUserDb** and **MCWkdHash** define the constants of instances for
TLC. Definitions introduced with "Mutant of" are faulty variants of the
definition they name: substituted for it, they make a stated property fail, which
shows that the property can tell the difference.

## The runs

| run | instance | states | what it shows |
|---|---|---|---|
| `mgmt` | 2 users, 1 request at a time, a served and an unserved slot, 4 kinds of certificate, 3 clock values, 1 fault | 55 000 | `TypeOK`, `ServedIsGood`, `OneRowPerSlot`, and that the service is a `Directory` |
| `mgmt_race` | 3 users, 2 concurrent requests, 1 slot, 2 ids, 1 fault; symmetric requests and newcomers | 1 117 000 | `IdNamesOneRow`, `AppearsAuthorised`, `DisappearsAuthorised`, `SharedConflictIsRecent` |
| `mgmt_live` | 2 users, 2 concurrent requests, 3 ids, 1 fault | 59 000 | `NewOwnerPublishes` |
| `storage` | 2 connections, 3 users, 1 slot, 3 ids, failures without bound | 32 000 | `UniqueNeverFires`, `StoresAtomically`, `CommitsAsCalled`, `TakeoverLeavesNoGap` |
| `query` | 2 lookups, 1 certificate, 1 rename, 2 faults | 5 300 | `HandleWhileSelecting`, `AnswersAreTheFiles`, `Recovers` |
| `lifecycle` | 2 wkdmgr-mgmt, 1 wkdmgr-query, 3 migrations, 4 stops, deaths or failures, versions -1 to 4 | 66 000 | `VersionTellsColumns`, `UpMeansMigrated`, `UpMeansReadable`, `StopLeavesReadable`, `UmaskOnlyUntilChmod`, `AllComeUp` |
| `openpgp` | 3 User IDs on 2 addresses, a subkey, a certifier, 4 edits, expiries of their own, never or at 1 | 132 000 | `PublishesTargetOnly`, `ServedNotRevoked`, `RevocationAccepted`, `ServedRevalidates` |
| `userdb` | flat file: 3 saves, 2 faults, 2 events told apart; LDAP: 3 addresses on 2 entries, 2 spellings of each attribute, timeout of 2 | 32 000 | `FollowsFile`, `HotReloads`, `WithinBudget`, `CallEnds`, `AnswersAsDirectory` |
| `frontend` | 2 addresses, 2 rows at first, 2 clicks, 1 fault, expiry at 1 | 456 000 | `OneUploadAtATime`, `PendingIsInFlight`, `ListIsCurrent`, `RenderedHonestly`, `SubmitEnds` |
| `wkd_hash` | 5 bytes of 5 values; addresses of 5 characters from 4 | 21 000 | `EncodesTheBits`, `AcceptsExactlyOneAt`, `OwnedIsPublished`, `LookupFindsSlot` |
| `query_rename`, `flatfile_start` | as small as the counterexample | | disagreements 1 and 2 below |

The type invariants of Storage, Migrations, Lifecycle, OpenPgp, FlatFile, Ldap and
Frontend, and `WritesOnLatest` of Storage, are in no run: they are proved (below),
and the properties of the runs depend on them.

Six more configurations, `mgmt_aba`, `mgmt_conflict`, `openpgp_expiry`, `frontend_age`,
`lifecycle_stop` and `openpgp_revoke`, show disagreements 3 to 8: run, say,
`tlc -config mgmt_aba.cfg MCMgmtAudit` for the trace.

Bounds and why they are enough. `MaxId` bounds the ids handed out: clients stop
uploading when it is reached. A takeover needs two rows and an id that could be
confused needs a third upload; `mgmt_race` has 2 because its three users and two
requests already interleave every pair of the five steps of an upload, and the
theorems below cover the rest. The races of the upload handler are between two
handlers over one slot, so one slot and two requests are enough for them; the
third user in `mgmt_race` is needed for a row that is neither the caller's nor
that of the holder who was asked about. `MaxTime` is 2 because one certificate
expires at 1: before, at and after. `MaxFaults` bounds failures in a run, not
where they strike. In `query`, `MaxRenames` is 1 and `MaxFaults` 2: one fault to
lose the handle and one while it is recovered. In `lifecycle`,
four stops, deaths or failures are enough for each process to die in its transaction
and once more while the other one runs, or for a graceful stop before and after a
death. In `openpgp`, four edits are enough to build a certificate with two User
IDs for one address, revoke and renew; of two User IDs that contain the same
address either may be the primary one and either the one minimised to. In
`userdb`, three saves are one read, one queued and one half-written; two entries are a
result that can be cut in the middle, and a timeout of two ticks is one that two slow
awaits use up together and neither alone. In `frontend`,
two clicks make two refreshes overlap, and an expiry of 1 is passed while the
page is open. In `wkd_hash`, five bytes are the period of the encoding, 40 bits or
eight groups, with every remainder on the way.
`CHECK_DEADLOCK FALSE` is set where the bounds or the work run out: when all
processes are up and no death is left, when edits, saves or clicks are used up, or
when the input ends. In the other runs clients, UserDb or the operator can always
move.

## Fairness

* `HandlersRun`: a suspended handler is resumed. Closures on tokio's blocking pool
  run, and a UserDb call answers or, by the LDAP timeout, fails.
* `ClientsRetry`: a user who may upload infinitely often does. This is an
  assumption about people, not code, and only `NewOwnerPublishes` uses it. The
  fairness is strong because a client is served only when a connection is idle.
* `QuerySpec`: a lookup that waits gets the mutex and its closure ends. Nothing is
  assumed of the operator or of `wkdmgr-mgmt`: `Recovers` says "once the file is
  settled".
* `LifeFairness`: a started process runs on, and the service manager restarts one
  that is down (`Restart=` in its unit). Stops, deaths and failures are bounded;
  without that nothing could be shown to come up. `AllComeUp` also assumes that
  starts do not meet on a socket path for ever (`OneAtATime`): one that finds its file
  gone or taken fails and is started again, and two can do that to each other
  without end.
* `LdapFairness`: time passes and tokio's timer fires. Nothing is assumed of the server
  or the network, so `CallEnds` rests on the timeout alone.
* `FlatFileFairness`: the process runs on through `load`, the watcher's thread runs its
  callback, and an editor that began to rewrite a file finishes. The bound on saves
  is what "in the end" needs: a file that never settles has no final map.
* `FrontendFairSpec`: a request that is not cut off is handled and answered. Nothing is
  assumed of the user, the clock or other pages.

## The proofs

All theorems hold for every value of the constants, from the named assumptions in
the modules: `None` is not a user, a slot, a writer or a publication, expiries are
times or `Never`, bounds are numbers, the two kinds of processes are apart, the
encoder's word is a multiple of 2^12 (`WordType`), no letter is an @ or a colon
(`LettersOnly`), and `CertInfo`, `EmailOf`, `EntryOf`, `AttrOf`, `Fold` and `LowerOf` are
functions of the expected type.

* `KeyTableProofs`. `TableInv` (types, one row per slot, ids unique and at most
  `lastId`) is inductive by itself. `ids at most lastId` is what makes the new id
  unique; `InsertKeyEffect` says what an insert removes and is the lemma most
  later proofs rest on. `TableIsDirectory`: with one row per slot, `Published`
  shows every row, so an insert is a `Publish` or a `TakeOver` and a delete is a
  `Withdraw`.
* `MgmtProofs`. `TypeInv` adds to the types which fields a program counter
  promises to be set. `MgmtUsesTable`: every step is a step of `TableSpec` or leaves
  the table alone, hence `SlotsUnique` and `MgmtIsDirectory` come from KeyTable.
  `OnlyGoodKeysServed` needs `CheckedInv`: from `peek` on, the certificate of a
  request was found good for its slot, and every row stems from such a request.
  `PublicationIsAuthorised` and `RemovalIsAuthorised` need `HeldInv`: a caller past the
  first check was an owner during the request, and the uid in `replace` at `insert`
  was a non-owner during it; `StepAdvances` says that a request moves along its
  own handler only, whoever else moves. `SharedMeansRecent` adds that whoever held the
  slot when it was looked at, and is refused for, either owned the address at some moment
  of the upload or wrote the row while it was in flight. `IdsNeverReused` needs that every row that
  ever was has an id at most `lastId`.
* `StorageProofs`. `Progress` says for each program counter what the transaction's
  view is in terms of its snapshot and what was decided on it, and that the holder
  of the lock has the latest commit as its snapshot. From it follow
  `InsertMeetsNoConstraint`, `NoLostCommit`, `CommitsAreTheCalls`, `NoGap`, and that a
  commit is an `InsertKey` and a delete a `DeleteKeyForUid` of KeyTable
  (`StorageIsAtomic`), hence `StorageIsDirectory` for any number of connections.
* `LifecycleProofs`. Of Migrations: the invariant ties a process's belief to the
  version: nobody is ahead of it, and the one process inside a transaction is
  exactly at it. From it follow `MigTyped`, `VersionIsTrue` and `ServingIsMigrated`.
  Of Lifecycle: `LifeMigrates`, whatever processes, sockets and stops do, the
  database is migrated as Migrations says, so its theorems carry over
  (`LifeUpToDate`). `LifeInv` ties stages to files: a writer past `SetWal` has the WAL
  open, and nobody has it open unless header and side files say so; a serving owner
  of a socket was the last to bind there, and its mode is set. Hence `LookupsWhileUp`,
  `StopReadable`, `UmaskOnlyInWindow` and `LifeTyped`.
* `OpenPgpProofs`. `RowInv` says that every row is the minimised copy of a certificate
  that was well typed when it was uploaded, with the revocation of the copy and the
  expiry of the original. From it follow `OnlyTargetPublished` and
  `RevokedIsNotServed`. `ServedStaysAlive` and `ServedIsAcceptable` speak of rows whose
  upload stated one expiry (`SameExpiry`), which is exactly what disagreement 5 lacks.
  `RevocationsAccepted` needs no such condition: it asks for a certificate that is
  acceptable whichever User ID speaks for the primary key, and after a revocation the one
  that speaks is one of those. `OpenPgpTyped` needs that each User ID and
  subkey of a row is one the certificate had.
* `UserDbProofs`. Flat file: `OrderInv`, what the callback has read is no older than the
  map and no newer than the file; hence `AnswersFollowFile`, for any number of saves,
  faults and events, and with files that change during start-up. LDAP: `LdapInv`,
  the results of a search hold an address under its own entry and attribute and
  under a spelling that folds to it, `left + age` is the budget, and only a bound
  session searches. So what is collected is what was listed (`LdapAnswers`) and no
  call outlasts its budget (`LdapInBudget`).
* `FrontendProofs`. `TypeInv` counts: ids given plus uploads still to be stored, and
  requests sent plus requests that may still cause a refresh, stay within what the
  clicks allow (`FrontendTyped`). `FormInv`, an upload is in flight exactly while the
  button is disabled, is `OneUpload`; an upload whose connection broke is not waited for,
  but counts for the ids. `ListInv` says that while nothing is in doubt the
  list is current or a refresh that will make it so is coming, and that an old
  answer still to come is followed by a newer one: `ListCurrent`.
* `WkdProofs`. The encoder: `SplitInv` says bit by bit where the input is, the groups
  put out first and then the lowest `bits_in_buffer` bits of the buffer, of which
  there are twelve at most; what is above them is never read, so any multiple of
  2^12 is a word that is wide enough (`EncoderIsRight`). Powers, divisions and remainders
  are taken apart by the lemmas before it (`PowersAdd`, `DivideTwice`, `BitShifted`,
  `BytePushed`), as the provers know little of them. No induction over the input is
  needed: the invariant is carried along by the loop. `DigestsStayApart`: bytes are what
  their bits say, so what is encoded the same is the same. Addresses: `ValidShape` turns
  `split_address` into "one @, at a place that is neither end", from which
  `AcceptsRight` follows; folding moves no @ (`LoweredParts`), hence `OwnedIsSlot` and
  `LookupsFindSlots`. Query: `QueryInv` says that the lookup that selects is the one that
  has the mutex, that a handle is then cached, and that no handle is on a file ahead
  of what `db_path` has named. From it follow `NeverPoisoned` and `AnswersTrue`, for any
  number of lookups, renames and faults. `CureStays` is the safety half of `Recovers`:
  the first select through a failing handle drops it, and with a handle that is absent
  or reads the settled file every answer is the file's; that a select comes at all is
  liveness.

Only model-checked are the liveness properties (`NewOwnerPublishes`, `Recovers`,
`AllComeUp`, `HotReloads`, `CallEnds`, `SubmitEnds`): liveness under fairness and ENABLED
are out of the prover's reach. All other properties of the runs are theorems.

## Where code and documentation disagree

1. `FollowsRename` (run `query_rename`). A comment lists "an atomic deploy rename"
   among the things that dropping the handle on an error recovers from. A rename
   causes no error: the open file is still there under its old inode, and lookups
   are answered from it until a restart. A backup restored in place need not cause one
   either: SQLite may go on answering from the pages it has cached. `Recovers` states
   what is true, for a handle that no such thing has misled.
2. `HotReloads` with `EarlySaves` (run `flatfile_start`). `load` reads the file first and
   watches the directory afterwards. A save in between raises no event, and the
   map stays behind the file until something else happens there. Without such a
   save `HotReloads` holds (run `userdb`).
3. `ContinuousOwnerKeepsKey` (`mgmt_aba.cfg`). The authorisation to replace names a
   uid. If that uid regains the address and publishes a new row while the upload
   is suspended, the new row is replaced, although the README says a replacement
   "only happens when" UserDb no longer reports that uid as an owner. The window is
   the time between the second UserDb answer and the insert. What does hold, and is
   proved, is `DisappearsAuthorised`: the uid was no owner at some moment of the
   request.
4. `SharedConflictMeansHolderOwns` (`mgmt_conflict.cfg`). The 409 for a lost race says
   the holder "still owns it too". It is sent without asking about that holder,
   who may be somebody else than the uid UserDb was asked about. What holds, and is
   proved, is `SharedConflictIsRecent`: an owner at some moment of the upload, or the
   uploader of a row that is newer than it.
5. `ServedIsAlive` (`openpgp_expiry.cfg`). `expires_at` is taken from
   the certificate as uploaded, where the primary User ID's self-signature states
   it; the bytes served keep the target User ID's self-signature. If that one
   expires earlier, an expired certificate is served, although "a key stops being
   served the moment it expires" (README.md:423). It takes a certificate whose User
   IDs state different expiries and no direct-key signature that states one.
   `ServedRevalidates` is what holds: for an upload that stated one expiry.
6. `BadgeIsHonest` (`frontend_age.cfg`). The comment on the badges (AddressList.vue:19-24)
   says they must not say "published" of an expired key. They are a computed value
   that nothing invalidates as time passes, so a key that expires while the page is
   open stays "published". `RenderedHonestly` is what holds: the badge was right
   when it was rendered.
7. `GracefulStopIsFine` (`lifecycle_stop.cfg`). The comment on the switch to
   `journal_mode=DELETE` (main.rs:80-83) says that it may fail while a wkdmgr-query is
   attached, "which is fine, since that connection already works". It works as long
   as it is kept. When that query process is restarted before wkdmgr-mgmt's own
   connection is closed, the last close removes -wal and -shm, the header still says
   WAL, and every lookup fails until the next start of wkdmgr-mgmt, where the
   directory may not be written. `StopLeavesReadable` is what holds: for a stop with
   no other connection. A start that fails after `open_writable` leaves the file in
   the same state.
8. `RevocationNeverBlocks` (`openpgp_revoke.cfg`). The comment on the test of a revoked
   User ID (openpgp.rs:383-385) says that "revocation must not block the very upload that
   publishes it". Revoking the primary User ID leaves another to speak for the primary
   key; if that one's self-signature has expired, the upload is answered as expired
   (openpgp.rs:73-75) and the revocation is not published. `RevocationAccepted` is what
   holds: for a certificate acceptable whichever User ID speaks.

## What is not modelled

* The wording of messages, logging, HTTP status codes beyond their meaning, the
  OpenAPI document, static files.
* The order of `list_keys_for_uid` and the failures of `get_me`, beyond a broken
  connection in Frontend.
* OpenPGP signatures as packets, weak algorithms and policy dates: what sequoia
  rejects is gone before this code sees it. Direct-key signatures, see OpenPgp.
* SHA-1: taken to be one to one, as the encoding of its digest is.
* What notify's events contain; only that they come, and may fail to.
* A poisoned mutex: no closure of the code panics while it holds one; of the `expect`
  in the lookup, `NeverPoisoned` shows it.
* Permissions: who may open the files and sockets, beyond whether wkdmgr-query may
  write the directory; who owns side files that a lookup created. Busy timeouts of
  SQLite, and hot journals left in rollback mode.
* Signals other than the two that stop the service, and `create_dir_all`.
* Parsing of `config.yaml` and `userdb.yaml` and their defaults; `mode_bits` is a number or
  a failing start. `UserDbConfig::load` accepts or refuses a file as a whole.
* LDAP referrals, non-UTF-8 values, the escaping of the filter, an address that is
  moved from one entry to another during a search (the server has no snapshot, and an
  answer may then have it twice or not at all), several spellings of one attribute in
  one entry.
* `Query` and `Lifecycle` look at the same handle from two sides and are not composed:
  Query asks what is answered, from whichever file; Lifecycle asks whether one file
  can be read at all.

## Plan

Done, in this order: KeyTable and Directory, Mgmt and MgmtAudit, Storage, Query,
Migrations, OpenPgp, HotReload and FlatFile, Frontend, ZBase32 and Address, Lifecycle,
UserDb, Ldap and BuildUserDb, and the proofs about all of them.

Next, the most important first:

1. A query service composed with KeyTable and OpenPgp: what a client gets is a
   published, unexpired and unrevoked certificate of the address it asked for.
2. Mgmt over UserDb's call instead of its one-step answer, so that a UserDb call in
   flight, a stale flat-file map and an upload are one behaviour.
3. Proofs about these two compositions, which the theorems about their parts prepare.

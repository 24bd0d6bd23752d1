# Verification of the Readium LCP server

TLA+ models of the servers and tools of `readium-lcp-server`, the TLC runs that
check them on small instances and the TLAPS proofs that hold for every instance.
All paths are relative to the root of the repository (`src/`).

## 1. The system

| Component | State | Operations that change it |
|---|---|---|
| **License Server** (`lcpserver/`, `license/`, `index/`, `storage/`) | `content` table (key, location, hash of each encrypted publication), `license` table (rights, update date, `lsd_status`), the stored files | `AddContent`, `DeleteContent`, `GenerateLicense`, `GenerateProtectedPublication`, `UpdateLicense` (PATCH), the goroutine `notifyLsdServer` |
| **Status Server** (`lsdserver/`, `license_statuses/`, `transactions/`, `status/`) | `license_status` table (status, end, potential end, device count, update dates), `event` table | `CreateLicenseStatusDocument`, `GetLicenseStatusDocument` (expires a license lazily), `RegisterDevice`, `LendingReturn`, `LendingRenewal`, `ExtendSubscription`, `LendingCancellation` |
| **lcpencrypt** (`lcpencrypt/`, `encrypt/`, `pack/`, `crypto/`, `epub/`, `rwpm/`) | files, the key of the run | one run: key lookup, encryption, notification of the License Server, of a CMS, rollback |
| **Frontend** (`frontend/`) | `purchase`, `publication`, `user`, `license_view` tables | purchases and their licenses, renewals and returns, uploads, a periodic copy of the status documents |

How they interact:

- the License Server notifies the Status Server of each new license, once, in a
  goroutine that starts after the client has been answered;
- the Status Server sends a PATCH with the new end date to the License Server on
  renew, extend, return, cancel and revoke, with a ten-second timeout;
- `lcpencrypt` asks the License Server for the key of an existing publication,
  sends the encrypted one, notifies a CMS and deletes the content if the CMS refuses;
- the frontend generates and fetches licenses on the License Server and sends
  renewals and returns to the Status Server; it encrypts uploads itself and notifies
  the License Server; every ten minutes it copies status documents into its view;
- a client compares the date of its license with the status document and asks the
  Status Server for a fresh license, which gets the user data from the CMS (the
  frontend) and the license from the License Server.

What makes it hard: every request runs in a goroutine of its own and **no handler
opens a database transaction**.  A handler reads a row once, works on the copy and
writes the whole row back, with other calls (an insert, a PATCH, a query to the
other server) in between; every one of these calls may fail, time out although it
was executed, or be cut by a stop of the process, and nothing is retried or undone.
`PROJECT.json` lists the hazards line by line.

What makes each component correct:

- *Status Server*: a closed license stays closed; a loan never passes its maximum;
  both servers agree on the end date; the device count and the event log explain the
  status; update dates do not go back.
- *License Server*: `lsd_status` tells the truth about the notification; documents
  have a license; updates are not lost; the update date goes back only when statements
  overlap, and is never erased.
- *Publications*: a content row leads to a file that a fresh license opens, and so do
  the copies readers have already downloaded; the CMS knows only what can be licensed.
- *Purchases*: one purchase has one license; the user gets no license the frontend
  does not know of; the end date follows the license.
- *Delivery*: a copy that is out of date can be recognised by its date, and what a
  client then gets is at least as new as the document that made it ask.
- *Packages*: everything but the navigation is encrypted, once, and marked as such, as far
  as the source tells truly what was encrypted before; nothing is lost; a failure is
  reported.
- *Encryption of a resource*: decryption gives the resource back, however it was read.
- *Frontend*: what is listed can be licensed; master files are not lost; purchases stay
  with their publication and their buyer; the view recovers as long as the frontend lives.

## 2. Modules

| Module | Models | State ↔ code |
|---|---|---|
| `StatusServer` | the handlers of `lsdserver/api/license_status.go` on one license | `row`: the `license_status` row; `events`: its `event` rows; `lcpEnd`: `rights_end` in the License Server; `late`: PATCH requests whose sender gave up; `h[w]`: the local variables of the handler goroutine `w` runs (`doc` is the `licenseStatus` it read) |
| `LicenseLifecycle` | abstract specification: what a status document may do, each request in one step | `status`, `end`, `potential`, `now` |
| `LicenseServer` | `lcpserver/api/license.go`, `license/store.go` | `lic`: the `license` table; `notif[l]`: the goroutine `notifyLsdServer`, started when a Status Server is configured (`Notifies`); `u[w]`: a PATCH under way (`out` is `licOut`); `adding[a]`: an `AddContent` about to touch the licenses of its content; `stamp[x]`: the time the statement of a goroutine carries; `doc`: the Status Server's document |
| `Publication` | `lcpencrypt`, `encrypt`, `lcpserver/api/store.go`, `index` | `index[c]`: the key in the `content` row; `store[c]`: the key of the file at its location; `cut`: contents whose file is truncated and not filled again; `copies`: files downloaded whole; `j[t]`: the run `t` and, once notified, the handler `AddContent` that serves it; `Imposed`: keys given with `-contentkey` |
| `Purchase` | `frontend/api/purchase.go`, `frontend/webpurchase` | `row`: the purchase; `loan`: whether its type is LOAN; `remote`: its licenses on both servers; `ui`: what the manage interface has read; `h[w]`: a request under way |
| `LicenseDocument` | the algorithms of `license/license.go` and `buildLicense`: links, encrypted fields, dates, with what they owe to a request | operators only |
| `LicenseDelivery` | `GetLicense`, `GetProtectedPublication`, their generating variants, `freshlicense.go`, against updates of the license and of the publication on both servers | `lic`, `row`, `file`, `doc`: the four places the data are read from; `d[c]`: a delivery under way; `copy[c]`: what the client holds; `lsd`, `add`: an update and an `AddContent` under way |
| `PaddedReader` | `crypto/pad.go`, `crypto/aes_cbc.go` | `count`, `left`, `done`: the fields of `paddedReader`; `buffer`: the block `io.ReadFull` fills; `pos`, `broken`: the source |
| `Packaging` | `pack/`, the `process…` functions of `encrypt`, `epub`, the lookups of `xmlenc` and `rwpm` | `pkg`: the source, a set of files or, for an EPUB, the sequence of its zip entries; `todo`: what the loops of `NewWriter`, `Process` and `Do` have still to go through, with the entries they pass over (`Skip`); `out`: the zip entries; `marks`: reading order or `encryption.xml` in memory; `known`: the URIs `xmlenc.Read` got out of `encryption.xml` before an error it may have met; `lost`, `short`: errors not reported yet; `tmp`, `cover`: files on the disk |
| `Catalog` | `webpublication`, `webuser`, the inserts of `webpurchase`, and their handlers | the tables `pubs`, `users`, `purchases` with their row ids, which SQLite uses again; `masters`; `contents` of the License Server; `req[w]`: a request or an open form |
| `LicenseView` | `weblicense`, `fetchLicenseStatusesTask`, the paging of `FilterLicenseStatuses`; composes `Catalog` with them | `docs`: the Status Server; `view`: the table `license_view`; `task`: the next call of the task and the rows it holds, or that the process is dead |
| `MC…` | instances for TLC, and a statement quoted from the code that does not hold | |
| `…Proofs` | theorems; `FrontendProofs` is about `Catalog` and `LicenseView` | |

Conventions:

- A handler is split exactly where it calls out of the process.  `pc` names the
  **next call**; what the code does between two calls is part of the action of the
  call before it.  The clock is read in the step in which the row is read.
  `LicenseServer` is finer: `time.Now()` is an argument of the statement and is evaluated
  before `Exec` (`license/store.go:134`, `:169`), so `BeginUpdate` and `BeginTouch` take the
  time and `Update` and `TouchByContentID` execute the statement, in any order.
- A license of a purchase (`Catalog`, `LicenseView`) takes four steps, with other requests
  between them: the purchase is read (`GetPurchasedLicense`), the License Server generates
  (`GenerateLicense`), the purchase is read again by its id (`CheckPurchase`), the license is
  stored to whichever row has that id by then (`StoreLicense`).
- A request a handler refuses (4xx) changes nothing: refusal is the negation of the
  guard, not an action.
- A failed call, and a stop of the process, ends the handler where it stands
  (`Fail`, `UpdateFails`, `Exit`); the tables keep what was written.  A timeout ends
  the handler while the other side may still execute the request.
- A definition `X_something` in front of `X` is a mutated form of `X`, which shows
  that a property depends on the line of code; no specification uses it.

### Abstractions

- *One license, one purchase* (`StatusServer`, `Purchase`): no statement of these
  handlers touches two rows of their table.  `LicenseServer` has several licenses
  because `TouchByContentID` does.
- *Dates* are days since the issue of the license; `time.Time` is compared only.
  `NoDate`/`Nil` is a nil pointer or the zero time, as the code reads both.
- *Event timestamps* are left out: they order the rows of the table, and
  `CheckDeviceStatus` only tests that a row exists.
- *A license* (`LicenseServer`) keeps one property of each kind a PATCH distinguishes:
  a text (empty means absent), a number (negative means unconstrained), a date (zero
  means unconstrained).
- *A publication* is its key, and whether its file is whole: `os.Create` truncates a stored
  file in place, when `lcpencrypt` writes to a file system or the License Server copies, and
  the file is filled in a later step, which may never come.  An object on S3 is replaced as
  a whole.  A reader notices that a download is cut, so it is no copy.  Formats, hashes and
  sizes do not influence any guard.
  A content row is deleted whether or not licenses refer to it: SQLite enforces no
  foreign key on the connections the servers open.
- *The type of a purchase* never changes once it is made.  `GetPartialLicense` puts dates
  into the license of a LOAN only, so the license of a purchase of type BUY has no end,
  whatever end date the row holds.
- *The status of a purchase* is left out: `Add` and `Update` only ever store `ok`;
  `to-be-renewed` and `to-be-returned` are the operation a client asks for.
- *Creation of a document is not repeated*: the License Server sends one notification
  per license, and license ids are fresh UUIDs.
- *The provider certificate* is valid when the first document is created
  (`ConstantsAssumption`): `cert_date` is a date in the past.
- *One license, one client at a time* (`LicenseDelivery`): clients share nothing but
  what they read.  The handlers that write the tables are modelled in full in
  `StatusServer`, `LicenseServer` and `Publication`; here they are the writes a delivery
  can observe, in their order.  Dates are whole seconds, as the code truncates them.
- *A ciphertext* (`PaddedReader`) is the blocks it decrypts to; (`Packaging`) the fact
  that a file is in clear, encrypted by this run, by someone else, or twice.
- *An href* is the file it means and whether it is written in escaped form: the places
  that compare, unescape and escape differ in which form they understand.
  `url.QueryUnescape` makes a space of a plus sign, so a raw name may give another one: the
  constant `QueryUnescape` says which (`"a+b.mp3"` gives `"a b.mp3"`, a file of the checked
  packages).  Nothing else of a URL is looked at.  Metadata, media types and sizes are left
  out.
- *A license of a purchase* (`LicenseView`) is the position of its document among the
  documents of the Status Server.  The frontend starts with two publications, so that a
  license may be of the wrong one, and one user.  *Titles* of
  publications are left out, and with them `UpdatePublication`, which changes only the
  title.  *SQLite*: the largest row id is used again once it is free, and foreign keys
  are not enforced on the connections the servers open.
- *The scheduler* of the fetch task (a library) runs it again after it has ended.  After
  the panic of a failed purge (`server.go:212`) the process is dead; someone may start it
  again (`Restart`), or no one.
- *Ghost variables*, which no guard reads: `told` (devices answered), `want` (what the
  acknowledged updates asked for), `copies` and `delivered` (what readers hold), `made`
  (what a license was generated for), `content`, `person` and `uuid` of a purchase,
  `reached` and `base` (dates a license has had), `failed`, `direct`, `behind`, `spoiled`,
  `missed`, `raced` and `kept` (something happened that a property excuses).  What each of
  the last ones excuses is part of the comment of the property, and a hazard that falls
  under an excuse says so in `PROJECT.json`.

### `StatusServer` action by action

| Action | Code |
|---|---|
| `CreateLicenseStatusDocument` | the whole handler: `makeLicenseStatus` and `Add` |
| `GetLicenseStatusDocument(w)` | the read, when the end date has passed; the write is `UpdateRow` |
| `RegisterDevice`, `LendingReturn`, `LendingRenewal`, `ExtendSubscription`, `LendingCancellation` | the read and every check made on the copy |
| `CheckDevice` | `CheckDeviceStatus`, and the answer to a device found in the event table |
| `AddEvent` | `makeEvent` and `Transactions().Add` |
| `UpdateLicense`, `UpdateLicenseTimeout`, `LateUpdateLicense` | `updateLicense`: answered, given up, executed after it was given up |
| `UpdateRow` | the new fields of the copy and `LicenseStatuses().Update`, then the answer |
| `Fail` | any call fails or the process stops |

`NextCall` keeps the order of the calls: event, PATCH, row for return, renew and
extend; PATCH, event, row for cancel and revoke; check, event, row for register.

## 3. Runs

Bounds are named in the modules (`Max…`) and given in the `.cfg` files.

| Run | Instance | Shows |
|---|---|---|
| `sequential` | one worker, two devices, a loan or a purchase, no failure, 3 days, 4 events | `EndsAgree`, `CountExact`, and under fairness `CancellationTakesEffect` |
| `sequential_failures` | one worker, one device, failures, `renew_from_now`, a certificate date | `FinalIsFinal`, `UpdatesMoveForward`, refinement `LifecycleSpec` |
| `concurrent` | two workers, one device, failures, late PATCH requests, the document created on the last day of the loan (day 1) or the day after | `EndWithinMaximum`, `LicenseEndPermitted`, `CountNeverOverstates`, `EventsExplainStatus` |
| `license_server` | one license, two contents, one PATCH and one `AddContent` at a time, their statements overlapping, failures and crashes | `CreatedMeansDocument`, `UpdatesKept`, `DatesInOrder`, `EveryLicenseNotified` |
| `publication` | one content, two runs of `lcpencrypt`, all storage modes, two keys, one of which may be imposed; files truncated and filled in place | `KeysAgree`, `CopiesStayReadable`, `CmsContentLicensable`, `Published` |
| `purchase` | a LOAN or a BUY, one worker, three license ids, two end dates, failures | `LicenseIdKept`, `DeliveredIsRecorded`, `EndFollowsLicense`, `LicenseDelivered` |
| `padding` | blocks of three bytes, every resource of up to seven bytes over two values, two padding bytes, failures | `Recovered`, `PrefixWritten`, `Ends` |
| `packaging` | EPUBs, PDFs, W3C and Readium packages of up to seven files, reading orders of up to two items, raw and escaped hrefs, names with a plus sign beside names with a space, files encrypted before and items that tell so truly or not, an `encryption.xml` read only in part; read, write, close and remove errors | `SealedAsDue`, `MarkedIffSealed`, `Delivered`, `FailureReported` |
| `delivery` | one client, two end dates, two versions of the publication, three seconds, one fault, a new certificate | `NeverAskedInVain`, `StaleIsAnnounced`, `StaleChecksumIsOlder`, `EmbeddedNotOlder`, `DeliveredDocument`, `CopiesCatchUp` |
| `frontend` | two concurrent requests, four in all, two publications at the start and two more, one master file, two users, two purchases, three documents on pages of two, one fault | `NothingHalfAdded`, `LicenseOfPurchase`, `LinesUnique`, `NextLinksReachAll`, `ViewRefreshed` |

The type invariants of `StatusServer`, `LicenseServer` and `Publication`, and
`ToldDevicesLogged`, `DocumentsHaveLicense` and `IndexedIsStored`, are proved for every
instance (section 4) and not checked again.  The type invariants of the other modules are
a conjunct of `DeliveredIsRecorded`, `PrefixWritten`, `SealedAsDue`, `EmbeddedNotOlder`
and `NothingHalfAdded`, which are checked and proved.

Why the bounds are enough: a stale write needs two handlers; a third one only
repeats what the second does.  A loan that ends on day 1 with a maximum of day 2 and
a clock that reaches the day after it can be renewed once, renewed too far, expire,
be renewed after its expiry and be returned.  Three events are a registration, a
renewal and a closure.  Two keys are the one of a first version and the one drawn by
mistake, or by a second run; three license ids are one that is lost, one that is kept
and one a third request might generate.  Seven bytes are two blocks and one byte: every
remainder, with a block before it, and both block boundaries.  Two items of a reading
order are enough for one to be taken for the other.  One PATCH and one touch are two
statements that can be executed in the other order than their times.  Three seconds order
an issue, an update and a delivery, or put any two of them into the same second.  Four requests are
an open form, a deletion, an addition that gets the id again, and a purchase or a
license; or the license of a purchase, the deletion of its publication, and a purchase of
the other publication that gets its id before the license is stored.

Where the code departs from its own comments, a run shows the counterexample:

| Run | Statement in the code | What happens |
|---|---|---|
| `revoke_race` | `license_status.go:175`, `:280` | a registration that read the row before a revocation writes it back as active |
| `escaped_href` | `rwppackage.go:294`, `:318` | a file named by an escaped href is encrypted, but its item of the reading order is not marked and a second item is appended |

Other departures, which the models contain and the properties therefore excuse:

- A device that renewed first has an event, so its registration is answered but not
  made (`license_status.go:223` says it is registered "now \*or before\*").  Hence
  `ToldDevicesLogged` speaks of an event of the device, not of a registration.
- Two PATCHes of one license: the second restores what the first changed
  (`license.go:627` "(and only these)").  `UpdatesKept` holds of one update at a time.
- An unreachable License Server is taken for a new publication, whose key changes
  (`lcpencrypt.go:120-123` "keeps the same key"), and so does `-contentkey`; a refused update
  deletes the row of the publication that existed (`notify_server.go:187` "rolls back").  All
  set `spoiled`: `KeysAgree`, `CopiesStayReadable` and `CmsContentLicensable` do not catch
  them, they say that nothing else does the same.
- A stored file is truncated before it is filled again (`process_encrypt.go:347`, `:545`,
  `storage/fs.go:59`): when the writing stops, the file of a published content stays cut,
  and its row and its licenses stay.
- The update date of a license goes back when the statement with the later time is executed
  first (`store.go:134`, `:169`): `DatesInOrder` bounds how far.
- A purchase of type BUY that is stored with an end date gets a license without end
  (`webpurchase.go:236`).  A renewal or return that is cut off after the Status Server took it
  leaves the old end date in the row until the next one succeeds (`behind`).
- Two requests for a new purchase store and deliver two licenses
  (`webpurchase.go:303` "if it was not already set").  The `purchase` run serves one
  request at a time.
- The fetch task asks for `/licenses` without parameters and gets the ten newest
  documents (`server.go:181` and `:202` say that all license status documents are fetched and
  saved), and does not look at the status of the answer.  `ViewRefreshed` therefore speaks of
  documents that fit on a page; in the `frontend` run, which has three documents on pages of
  two, the view never holds all three.  A failed purge is a panic (`server.go:212`) that ends
  the frontend, and nothing starts it again: `ViewRefreshed` speaks of a frontend that lives.
- The next link of `FilterLicenseStatuses` names the same page with one row more
  (`license_status.go:731-737`); following the links does reach every document
  (`NextLinksReachAll`), at the price of getting the others again.  The previous link is
  off by one.
- A form, or a purchase made during a deletion, may use a row id that belongs to another
  publication or user by then.  The license of a purchase that is deleted while it is
  generated is stored to the purchase that got its id meanwhile, which may be of another
  publication (`webpurchase.go:304`, `:544`, `:613`).  Each of these sets `raced` in `Catalog`.
  `GetFreshLicense` and
  `GetLicenseOwner` go on after they have answered with an error.
- `Resources` unescapes what is not escaped: an item named `a+b.mp3` gives the file
  `a b.mp3` if there is one (`rwppackage.go:161`).  So a file may be encrypted for the item of
  another, encrypted twice, or copied in clear under an item that is marked.  The properties
  on files encrypted before speak of a file that *every* item resolving to it is right about
  (`Told`).
- The error of `xmlenc.Read` is ignored (`epub/reader.go:146`): what an unreadable
  `encryption.xml` lists after the error counts as clear and is encrypted again, and is
  missing in the new list (`known`, `AllKnown`).
- `NewWriter` panics on a resource whose file is missing or whose href is escaped, and
  `processEPUB` where `process_encrypt.go:338` reads the metadata of an EPUB that has none; a
  read error of a file that is compressed first is ignored; the cover of a PDF stays behind
  when the run fails; the errors of `os.Remove` are ignored (`kept`).

So the properties of the `sequential…`, `license_server` (`UpdatesKept`) and
`purchase` runs hold of a server whose requests on one row do not overlap, and those
of `concurrent` are what is left when they do.

### Fairness

Weak fairness of `Proceed(w)` (or of the steps of a notification, or of a run): a
goroutine that has started is scheduled until its handler returns, and the clients of
the servers have timeouts, so a call ends.  Nothing is assumed of clients (they may
never send another request), of the clock, of the manage interface, or of a late
request (it may never be executed).  With failures allowed the properties are
conditional on `failed`.

`LicenseDelivery` adds strong fairness of a fresh license asked for by a client whose
status document exists: this is the reading system's part of the protocol, not the
server's, and `CopiesCatchUp` is the statement that the servers do theirs.
`PaddedReader` is one loop; an `io.Reader` that returns nothing for ever is excluded by
its contract.  `LicenseView` assumes that the scheduler runs its task again and again
and that a call ends; faults are bounded, so they stop.  Nothing is assumed of `Restart`.

Deadlock is not checked, except in `frontend`, whose task never ends: a server without
requests, a finished encryption and a model at its bounds stop.

## 4. Proofs

Every safety property that a run checks is also proved, for every value of the
constants.  Each proof module defines an inductive invariant, proves that the initial
states satisfy it and that every action preserves each of its parts, and derives the
properties.  The invariants were checked with TLC on the instances of section 3 first.

**`StatusServerProofs`**, concurrent part (any number of workers and devices, any
configuration).  The row alone is not inductive, because any worker may write a copy it
read long ago.  `IInv` therefore states of *every copy a request holds*, and of the row
it would write, what the property states of the row: its potential end is absent or the
maximum computed at creation, its end is within it, its count is at most the number of
`register` events, minus one if its own event is already stored, and its status is
explained by the event table, which only grows.  It states of each pending PATCH, late
or not, that its end date is in the past or within the maximum.  From it:
`TypeCorrect`, `LoanWithinMaximum`, `LicenseWithinMaximum`, `DeviceCountBounded`,
`StatusHasCause`, `AnsweredDevicesLogged`.

**`StatusServerProofs`**, serial part.  `Serial` says that there is at most one worker: the
requests on the license do not overlap.  `revoke_race` shows that the theorems need it.
`SInv` adds that the copy of the request under way *is* the row, apart from the date
`GetByLicenseID` may raise, that the checks made when it was read still hold of the row,
and that the time it will stamp the row with is between the row's dates and now.  It
holds whatever fails, and gives `ClosedStaysClosed`, `DatesMoveForward` and the refinement
`ImplementsLifecycle`: `SerialWrite` names, for each operation, the step of
`LicenseLifecycle` its write is, and every other step leaves the document alone.
`CleanInv`, for a server whose calls do not fail (`~Failures`), says where the two servers
and the two tables may differ: a request whose PATCH was answered holds the end date of
the License Server, and a registration whose event is stored has one device still to
count, which `CheckDeviceStatus` did not find.  From it: `ServersAgree`, `CountIsExact`.
With failures both are false, as nothing undoes a PATCH or an event.

**`LicenseServerProofs`**.  `IInv` ties each goroutine to the tables: a notification
that is not "none" has a stored license; code 201 is only held once the document
exists; a late notification has one too.  `DInv` is about the dates, for any number of
overlapping PATCHes and touches: no time is later than the clock, and a statement under way
carries a time that is not earlier than any date its licenses had when it was taken.  From
them: `TypeCorrect`, `CreatedImpliesDocument`, `NoOrphanDocument`, `DatesKeepOrder`; and,
assuming at most one worker, `SerialUpdatesKept`, whose invariant adds that the copy of the PATCH under
way is the wanted license with the asked properties changed.

**`PublicationProofs`** (any number of contents and overlapping runs).  `IInv` states
what a run knows after each call, for a content that is not spoiled: its key is the
key of the row if there is one, only one run works on it, the file has been written
before the row, and copies carry the key of the row; and for every content, spoiled or not,
that a cut file is being written unless something failed, although two runs may write the
same file.  From it: `TypeCorrect`,
`IndexedContentStored`, `StoredFileOpens`, `DownloadedCopiesOpen`,
`CmsKnowsLicensable`.

**`PurchaseProofs`**.  For any number of goroutines, `EInv`: every license id that the row,
the manage interface, a request or the user holds is the id of a license that exists
(`RecordedLicenseExists`, `TypeCorrect`).  For requests that do not overlap (`Serial`; two
requests for one purchase do generate two licenses), `SInv`: a request that carries a
license carries the one of the row, unless the row has none, and the dates agree, or the
license of a BUY has no end, except between the call to the Status Server and the write of
the row, and after a request that was cut there (`LicenseIdIsKept`,
`DeliveredIsTheRecorded`, `EndFollowsTheLicense`).

**`LicenseDeliveryProofs`** (any number of clients, versions, dates and faults).  A
property of copies must hold of the deliveries that will become copies: `IInv` calls both
*held* licenses and states that none is dated after the license row; that while an update
has reached only the License Server, none that it makes stale is as new as the update;
and that once the Status Server has saved it, none is as new as its document.  Versions:
the row is never newer than the file, and a delivery reads the row first.  From it:
`EmbeddedIsNotOlder`, `NeverAsksInVain`, `StaleCopyIsAnnounced`, `StaleChecksumIsOutdated`.
`DocumentIsOwed` is about the algorithms alone, for every partial license and
configuration: each default link is the only one of its relation, the first publication
link is unique, and the fields before the one at which `encryptFields` stops survive the
removal of that one.

**`PaddedReaderProofs`** (every block size up to 255, every resource, every way the source
cuts it up).  `IInv` follows the padded stream: what was written and the block being
filled.  Until the source ends it is what was read, and `count` is its length modulo the
block size; afterwards `count` is what the last block lacks and the stream lacks `left`
bytes.  `WrittenIsPrefix`, `ResourceIsRecovered` (the last byte of the last block is the
length of the padding), `NoErrorOfItsOwn`.  The facts on quotients and remainders it needs
are lemmas.

**`PackagingProofs`** (every set of publications of the shape `PackagingAssumption` gives
them).  `IInv` relates three lists: what is written (`out`), what is marked (`marks`) and
what is left to do (`todo`).  A file that is due is in the output or in the work; what is
to be encrypted was not known, or not marked, as encrypted before; an item is marked once
its file is written; the list of what is encrypted is the last entry; an
error that was not reported keeps the run from succeeding.  From it: `SealedWhereDue`,
`MarkedWhereSealed`, `EverythingDelivered`, `FailureIsReported`.

**`FrontendProofs`** (any number of requests at a time, of master files, users and
documents).  `IInv` has four parts, each resting on the ones before: the publications
being added, with the contents whose row is about to be inserted, since these keep the row
ids below their bound; the users and the open forms; the licenses of purchases, and no
license twice in the documents, the view, the rows of the task, the purchases and the
requests that hold one to store it; and, as long as no request has `raced`, what purchases
refer to, and that a license a request holds was made for the purchase it will be stored
to, wherever the request stands (`Referring`, `MadeFor`).  From it: `NothingIsHalfAdded`,
`LicenseIsOfPurchase`, `LinesAreUnique`.  `NextLinksGetAll` is about the paging: the n-th
next link names the same page with n rows more, by the least number at which it would not.

The assumptions are the named `ASSUME`s of the modules, which TLC evaluates in every run:

- bounds are naturals, and those on users, versions, page sizes and times are not zero; the
  frontend may have two contents; keys given to `lcpencrypt` are naturals; nil is not
  a date, an id or a record (`NilIsNoRecord`);
- the certificate is valid when the first document is created;
- the links and encrypted fields of a partial license are lists (`ConfigsAssumption`);
- a block has 1 to 255 bytes, as its padding is counted in one byte, and the random
  bytes lie in the range the code draws them from;
- a source package is well formed (`PackagingAssumption`): the archive holds each file once,
  the `encryption.xml` of an EPUB lists the files that were encrypted before (a manifest may
  be wrong about them), and no item of a reading order or resource is the manifest itself.

`Serial` and `~Failures` are hypotheses of the theorems that need them, not assumptions:
the instances of the `sequential…` and `purchase` runs satisfy them.

Only model-checked: liveness under fairness (`CancellationTakesEffect`,
`EveryLicenseNotified`, `Published`, `LicenseDelivered`, `Ends`, `CopiesCatchUp`,
`ViewRefreshed`), which is out of the prover's reach.

Two definitions have the form they have because of the proofs.  The prover has no facts
about the filtering of a sequence, so the loops of `Packaging` keep the entries they pass
over and pass over them one by one, as the code does.  The links of a license are a set
with places: the order of the default ones is that of a Go map, which is none.

## 5. Not modelled

- An `UpdatePurchase` with a status other than `to-be-renewed` and `to-be-returned`
  (`webpurchase.go:539-545`), which writes the dates and the license id of its body unchecked:
  the manage interface never sends one.  Its `UPDATE ... WHERE id=?` is not composed with
  purchase ids that are used again; the one that stores a license is (`Catalog`).
- Handlers that only read: lists, counts, dashboards, messages, localisation.  The paging
  of the lists of the License Server (`license.go:765`) leads nowhere and no one says
  what it should do.
- Ciphers, key wrapping, profiles and signatures (`sign`, `crypto/aes_gcm.go`), XML and
  JSON formats, the metadata of `rwpm`.
- `pack/pipeline.go`: the License Server starts it but nothing sends to its channel.
- `GetTestLicense`, a variant of `GetLicense` with data of its own for a test mode;
  `Add`, `Update` and `Delete` of `weblicense`, which have no caller.
- Configuration, authentication, routing and start-up.

`PROJECT.json` gives the reason for each component.

## 6. Plan

1. *(done)* `StatusServer`, `LicenseLifecycle`, `LicenseServer`, `Publication`,
   `Purchase`; proofs of the first, third and fourth.
2. *(done)* `LicenseDocument` and `LicenseDelivery`, `PaddedReader`, `Packaging`,
   `Catalog` and `LicenseView`.
3. *(done)* Proofs of the safety properties of `Purchase`, `LicenseDelivery`,
   `PaddedReader`, `Packaging` and the frontend, of the serial Status Server, and of the
   refinement of `LicenseLifecycle`.
4. What overlapping requests still promise: the part of `LicenseLifecycle` that the
   concurrent Status Server implements (a stale write only undoes, it never lengthens a
   loan), and how far `EndsAgree` may be off after a failure.
5. Action properties of `Publication` and of the frontend that follow from the invariants
   already proved (what a failed step may not remove).

# Verification of the multi-vendor HSM PKI

TLA+ models of the repository's stateful parts, TLC runs over small instances,
and TLAPS proofs for every value of the constants. `PROJECT.json` lists the
components, runs, mutants, the map from definitions to source lines, findings,
hazards and theorems; this file explains them.

## 1. Inventory

The system is an intermediate CA whose keys live on a PKCS#11 token, a command
line tool that runs the ceremonies and the signing keys, and a set of CI tools.

| Part | State | Operations | Interacts with |
|---|---|---|---|
| certificate store (`internal/store`) | one row per certificate, one CRL counter row | `Record`, `Get`, `Revoke`, `Revoked`, `NextCRLNumber`, each a transaction on a pool of one connection | called by the API, the responder, keytool |
| API server (`internal/api`) | cached CRL and its nextUpdate under `crlMu` | issue, revoke, `GET /crl`, OCSP, static artifacts, `requireClient` | store, CA, responder |
| OCSP responder (`internal/responder`) | its certificate and its cache under `mu` | `Respond`, `Invalidate`, `Renew`, `RunRenewal` | store, CA, token |
| CA (`internal/ca`, `profile`, `entitlement`) | none (certificate, signer, profiles are fixed) | `Issue`, `BuildCRL` | token |
| PKCS#11 adapter (`internal/pkcs11`) | `closed` under `mu`, the session map under `sessMu`, each session's state, the token login under `loginMu`, the janitor | `OpenSession`, `CloseSession`, `Login`, `Logout`, object and crypto operations, `LoginToken`, `LogoutToken`, `Close`, the sweep | one PKCS#11 module per process |
| server process (`cmd/hsm-pki-server`) | listeners | start, drain, stop | all of the above |
| keytool credentials (`cmd/hsm-pki-keytool/credentials.go`) | files, rows, keys | issue a client certificate, provision the TLS identity, provision the OCSP key | store (service stopped), token |
| ceremony and reissue (`internal/ca/ceremony.go`, `reissue.go`) | keys on two tokens, files | root and intermediate creation, intermediate renewal | two token logins |
| signing keys and inventory (`internal/signingkey`, `internal/inventory`, keytool `provision`, `inventory`, `retire`) | key pairs on the token, a signed, versioned inventory | provision, publish, retire, verify | verifiers with older inventories |
| configuration (`internal/config`) | one file per start | `Load` | profiles, entitlements, everything `run` builds |
| service identities (`internal/ca/service.go`) | none (file and token key) | `LoadServiceCertificate` | token, the listener |
| CI tools, audit, conformance harness | none of their own | one-shot filtering, measurement | files |

What is hard in this code:

* requests interleave. `crlMu` is held across store and token calls; the
  responder's lock is not, so a store row read in `Respond` is old by the time
  the answer goes into the cache;
* the process may die between any two steps and restart on the same store;
* the answer to a revocation is a promise about what later requests will see on
  two channels, each with its own cache;
* one PKCS#11 module is driven by many goroutines, a janitor and a `Close`;
  operations are sequences of calls with state in the session, and a login is
  state of the whole token;
* module calls fail, and the code ignores some failures on purpose;
* the keytool's commands are processes that share a token and some files and take
  no lock. Each is a series of calls, any of which may be the last, and most of
  what they do cannot be undone: a label is taken, a key is destroyed, a
  certificate is signed;
* what an installation allows is decided over its whole life: keys are provisioned
  and certificates issued long before the configuration that serves them is
  written, configurations change while certificates stay valid, a client obtains a
  certificate with which it is another client, and the store that remembers
  revocations and CRL numbers may be lost;
* a token is not trusted: its RNG may repeat, its serials may lie, it may ignore
  an attribute, and `CKA_LABEL` is not unique.

What makes each part correct is stated as the properties below. `hazards` in
`PROJECT.json` names the lines where it could go wrong.

## 2. Modules

| Module | Models | Composes |
|---|---|---|
| `CertStore` | the store: rows, counter, its transactions | |
| `Responder` | `Respond` in four steps, `Invalidate`, `Renew` in three | `CertStore` |
| `CAServer` | the API's requests, `crlMu`, client authentication, start, crash, keytool on the stopped service | `Responder` |
| `RevocationLedger` | the abstract promise: revocations only grow, CRLs grow in number and content | |
| `MCCAServer` | symmetry for TLC | `CAServer` |
| `CAServerProofs` | theorems: types, CRLs, the ledger | `CAServer`, TLAPS |
| `CAServerAnswerProofs` | theorems: OCSP, clients, CRL lifetimes | `CAServerProofs` |
| `Pkcs11Adapter` | sessions, operations, janitor, logins, `Close` | |
| `MCPkcs11Adapter` | symmetry for TLC | `Pkcs11Adapter` |
| `Pkcs11AdapterProofs` | theorems | `Pkcs11Adapter`, TLAPS |
| `SigningKeys` | `provision-signing-key`, `generate-inventory`, `retire-signing-key`, and the two consumers of the inventory | |
| `MCSigningKeys` | symmetry for TLC | `SigningKeys` |
| `SigningKeysProofs` | theorems for any number of operators | `SigningKeys`, TLAPS |
| `SigningOperatorProofs` | theorems for one operator | `SigningKeysProofs` |
| `Ceremony` | `ceremony`, `reissue-intermediate`, `LoadIntermediate` | |
| `MCCeremony` | symmetry for TLC | `Ceremony` |
| `CeremonyProofs` | theorems | `Ceremony`, TLAPS |
| `IssuancePolicy` | profiles, entitlements, `CA.Issue`'s checks, `config.Load`: operators without state | |
| `Installation` | the credential commands, the rotation of the intermediate, start and stop under changing configurations, the write endpoints, the lost store | `IssuancePolicy` |
| `MCInstallation` | names, requests and configurations for TLC, symmetry | `Installation` |
| `InstallationProofs` | theorems | `Installation`, TLAPS |
| `CRLNumbering` | the CRL counter over several stores, the floor, the clock | |
| `CRLNumberingProofs` | theorems | `CRLNumbering`, TLAPS |

### CertStore, Responder, CAServer

A request is a record with a program counter and the locals the handler keeps
across a step. A step boundary is put wherever another goroutine can act: before
and after each lock, store call and token call. What happens under one lock
without such a call is one step.

* `GET /crl` is `CRLArrive`, `CRLLock` (the lock and the cache test), `CRLList`
  (`Revoked`), `CRLNumber` (`NextCRLNumber`), `CRLSign` (`BuildCRL` and the
  assignment to the cache) and `CRLHeader` (`crlNextUpdate`, which takes the lock
  a second time). Each call may fail, and failure releases the lock
  (`CRLFail`); a number drawn before a failure is spent.
* `POST .../revoke` is `WriteArrive`, `RequireClient`, `RevokeCommit`,
  `DropCRL`, `DropOCSP` (which is also the 204). `POST /certificates` is
  `WriteArrive`, `RequireClient`, `IssueSign`, `IssueRecord`. The serial is any
  member of `Serials`, so a drawn serial may collide with a row.
* An OCSP request is `OCSPArrive`, `OCSPLookup`, `OCSPGet`, `OCSPSign`,
  `OCSPInsert`.
* The renewal is `RenewIssue`, `RenewRecord` or `RenewRecordFails`, `RenewSwap`.
* `Start`, `StartFails`, `Crash`, `KeytoolIssue` and `Tick` complete it.
  `recordAndWrite` writes the certificate even if the row could not be written;
  `unrecorded` remembers those.

`ackedAt`, `held`, `unrecorded`, `signed`, `raced` and the request fields `acked`,
`known` and `withdrawn` are history: no guard of an action that models code reads
them, except that a client must hold a certificate to open a TLS connection
(`held`) and the bound `KeytoolFailures`.

Left out of the data: names, keys, DER, hashes. Requests refused before they
touch shared state are early returns with no effect. Certificate expiry of
clients is TLS's business and only removes behaviours.

### Pkcs11Adapter

`mu` is the lock of `withStateLock` and `withReadLock`. A closure of one module
call is one step with `mu` free before and after; a sequence (init, then the
operation) takes `mu` in `MultiInit` and returns it in `MultiFinish`. `touch`,
`markClosed`, the session map and `setLoggedIn` are outside that lock in the code
and are steps of their own here. `Read` stands for the operations of one call (generate,
destroy, read attributes, wrap, unwrap), `MultiInit` and `MultiFinish` for sign,
verify, encrypt, decrypt and find: they differ in what they compute and not in what
they do to the state modelled.

The module (external) is a set of open handles, and a login that belongs to the
token and ends with the last session. It hands out each handle once; PKCS#11 does
not promise that: a reissued handle could be closed under its new owner. With `Failures`, C_CloseSession and
C_Logout may fail and leave things as they were.

### SigningKeys

`token` has the two objects of every pair ever generated. The code only sees
labels and public points; which generation an object came from (`pair`) is a
ghost, and is what the properties speak of. `op` is the running command of each
operator with what it remembers: labels, points, the document it read and the one
it is drafting. One module call or file write is one step.

* `Provision`, `GenerateKeyPair`, `ReadBack`, `Compare`, `UndoPub`, `UndoPriv` and
  `HandOver` are `provision-signing-key`. The token chooses the point, and whether
  the protection attributes took effect.
* `GenerateInventory`, `ReadEntry` (any order, any subset, any purpose and status
  that the operator's specs may ask for), `SealInventory`, `WriteDocument` and
  `WriteSignature` are `generate-inventory`. `archive` keeps every document that
  ever stood beside its own signature: anyone may hold a copy.
* `Retire`, `RetireFind`, `RetirePriv`, `RetirePub` are `retire-signing-key`.
* `RenderPolicy` and `SelectKey` take any archived document, as somebody who
  withholds or replays one would hand it to them.
* `Stop` ends a command anywhere, after a refusal, a failed call or a kill.

`-validity` is a choice of each regeneration (`Validities`), and `select-key`'s `-at`
is any instant. Expiry therefore bounds nothing by itself: an older document may have
the longer window, and `-at` may name an instant at which it was still good. Assumed: a
clock that does not go back, and that `-in` names the current document.

### Ceremony

A command goes through four logins (`Phases`): both tokens are tried, the
intermediate's key is generated, and the root's token signs. Within a login, one
module call is one step. `auth` is what the process really holds authenticated;
`TokenLoggedIn` is not a guard, because `LogoutToken` clears its flag whatever
C_Logout reports, and one process runs its logins one after the other. So what
keeps the two tokens apart after a failed logout is the error it returns.
`space` is the truth behind the serials: the two workspaces may be one key space.
A certificate is its key, its issuer's key and its expiry; path length, key usage
and names are constant per tier, and a certificate is a root's exactly when it is
self-signed. Files are sets, so two commands that chose one output path are not
modelled. The workspaces, the labels and the validity of the intermediate are flags of
each command (`Requests`); the root's validity is a constant, as in the command. So a
token may be the root's in one ceremony and the intermediate's in another: each command
passes every check, and the service of the second hierarchy then has the first one's
root key in its key space. Nothing in the code prevents it (it is on the hazard list),
and `HierarchyIsSplit` and `RootStaysOffline` speak of the keys of one hierarchy.
`Refuse` is any error until the signing function has returned its result (`Complete`),
`Die` a kill or a file that cannot be written. A ceremony signs three times (`SignRoot`,
`SignIntermediate`, `SignCRL`), and an error at the second or third discards what was
signed before, with the labels taken.

### IssuancePolicy, Installation

`IssuancePolicy` is the decision the CA takes on a request, as predicates that keep
the code's checks: `Compiles`, `ValidProfile`, `ValidSet` and `Builtin` of
`internal/profile`; `EntitlementCompiles`, `PermitsProfile` and `PermitsNames` of
`internal/entitlement`; `ValidateCSR`, `Issuable` and `Leaf` of `CA.Issue`; and
`Loads`, which is `config.Load`. A name is a member of `Names`, a glob the set of
names it matches. The settings that only have to be there and parse are the flag
`complete`.

`Installation` is the life of one CA: what is durable (`token`, `authorities`, which
are the intermediates and their windows, `rows`, `files`, the certificates in `held`),
what runs (`running`) and the clock. A command or a request is one step, since
`CAServer` has the interleavings inside a request and `Ceremony` those of the commands
that need the root. Two commands that were given one output path at once are therefore
not seen (on the hazard list). A command's flags are records, so each names the
intermediate, the file, the curve and the validity it is run with.

* `ReissueIntermediate` is `reissue-intermediate`, and the ceremony, as far as the
  intermediate's token and file are concerned. Several intermediates may be valid at
  once, which is the transition window of a rotation.
* `IssueClientCert`, `ProvisionTLSIdentity`, `ProvisionTLSKeyOnly` (what is left when
  the command fails after the generation) and `ProvisionOCSPKey` are
  `credentials.go`. `RecordAndWrite` lets each of its two halves fail, and a file that
  was not written to its end is `Damaged`: no command overwrites it, none loads it. A row that is
  missing also stands for a `-store` path that names another file: the comment on
  `openIssuer` counts on a mistyped path to be noticed, and `OpenSQLite` creates the
  file.
* `Start` and `StartResponder` are `run` over a configuration that loads, in its
  order: intermediate, store, responder (whose certificate is issued and recorded),
  TLS identity. A start that fails after the responder leaves the row.
* `HandleIssueCertificate` and `HandleRevoke` are the two endpoints, `Handshake` the
  TLS library's part (external). An identity is one of the certificate's URIs or its
  common name, in one name space, as `ClientIdentities` has it.
* `LoseStore` empties the store between two runs of the service. Restoring an old
  backup of it is not modelled: a revocation committed after the backup is then gone
  while the row is back, and nothing in the code could tell.

Keys are decoded on the curve the configuration names (`ca.curve`), while the
provisioning commands take a `-curve` of their own: a key on another curve is not
served (`NewSigner`). `LoadServiceCertificate` demands a leaf that the loaded
intermediate signed, so a service moved to a new intermediate needs a TLS identity under
it before it starts again; docs/key-ceremony-and-recovery.md 4.1.1 leaves that to its
step 2, after the restart. `Recorded` compares the subject of the row with the
certificate's. The renewal of the responder's certificate while the service runs is
`Responder`'s; here only the first one, which a start needs, is issued.

`granted` and `withdrawn` are history and no guard reads them. `origin` of a certificate
is too. Serials are drawn with 128 random bits and are fresh here; `CAServer` has the
collisions.

### CRLNumbering

`CertStore` has one store that is never lost. Here `Rebuild` loses it and opens a new
one with a floor, `SetBack` sets the clock back, and `handed` is every number ever
drawn. Neither is guarded: a configuration may give any floor that is not negative, and
a clock may be set to any earlier value. Three history variables say what an operator
did: `reliable` (the clock was never set back and no number was above it), `informed`
(every rebuild was given at least the last number) and `provided` (every counter was
seeded on a reliable clock, or with a floor above the last number).

## 3. Runs

| Run | Instance | Shows |
|---|---|---|
| `crl` | 2 serials, 2 CRL requests, 1 writer, reasons {1, 8}, 3 numbers, 2 clock values | `TypeOK`, `CRLComplete`, `CRLOrdered`, `HeldIsRecorded`, `RevocationPermanent`, and that the server implements `RevocationLedger` |
| `ocsp` | 2 serials, 1 OCSP request, 2 writers, renewal | `RevokedClientRefused`, `IssuedNeverUnknown`, `OCSPStaleOnlyByRace`, `OCSPStaleBounded`, `CacheSignedByCurrent`, `ChannelsAgree` |
| `live` | 1 serial, 2 CRL requests, 1 writer, 1 keytool failure, fair | `CRLLifetimeBounded`, `CRLAnswered`, `RevokeAnswered` |
| `ocsp_stale` | violation | `OCSPFresh` fails |
| `crl_lifetime` | violation | `CRLLifetimeIsItsOwn` fails |
| `adapter` | 2 callers, 2 handles, 3 clock values, failing calls | `TypeOK`, `NoCallAfterFinalize`, `OperationUndisturbed`, `AnchorKeepsLogin`, `OpenIsAccountedFor` |
| `adapter_live` | 2 callers, 2 handles, fair | `ExpiredReclaimed`, `CloseReturns` |
| `keys` | 1 operator, 2 labels, 2 pairs, 2 points, 2 versions, 3 clock values | `LabelNamesOnePair`, `ReturnedKeysDiffer`, `RetiredIsGone`, `ActiveIsOnToken`, `RetiredNeverRendered` |
| `rollback` | violation | `SelectRefusesRollback` fails |
| `ceremony` | 2 operators, 2 tokens, 3 labels, 2 key spaces, 4 key pairs, 3 sets of flags, one of them with the roles swapped, 2 clock values | `TypeOK`, `LoginsDoNotOverlap`, `HierarchyIsSplit`, `ChainHolds`, `RootStaysOffline`, `NothingDiscarded` |
| `installation` | 3 names, 4 serials, 4 labels, 5 paths, 2 intermediates, 2 curves, 4 configurations, 3 requests, 3 clock values | `Confined`, `RevokedNeverReturns`, `Restartable`, `KeysSeparate` |
| `floor` | violation | `LastNumberIsEnough` fails |

What they say about the code:

* A client told that a revocation succeeded, and anyone who asks after that, gets
  a CRL that lists it (`CRLComplete`), because the generation holds `crlMu` from the
  cache test to the assignment and the revocation drops the cache under the same
  lock after the row is committed. Dropping it without the lock breaks this.
* CRL numbers order CRLs by content across concurrent requests, failed
  generations and restarts (`CRLOrdered`), and none is used twice (`ImplementsLedger`).
* OCSP is weaker. `ocsp_stale` exhibits a lookup in flight across `Invalidate`
  that caches "good" afterwards. `OCSPStaleOnlyByRace` says that this is the only
  way a stale "good" can be answered, and `OCSPStaleBounded` that it lasts at most
  one response window from the answered revocation.
* The lifetime in a CRL's answer is not bound to that CRL's own nextUpdate, as the
  comment in `handleCRL` says: it is computed from the cached nextUpdate, read under
  the lock a second time, and `crl_lifetime` exhibits a request that answers with one
  CRL and the nextUpdate of the next. `CRLLifetimeBounded` says how far that can go.
* The sweep and `Close` ignore a failing C_CloseSession and forget the session;
  `OpenIsAccountedFor` says that ignored failures are the only way to lose one.
* With one operator at a time, commands that stop anywhere leave the token usable:
  a label names one generation, the keys handed over differ even on a token whose
  RNG repeats, and the key the current document calls active is there. With two
  operators these fail (the search for a label and the generation under it are two
  calls), which is why the properties and their theorems name one. That a retirement is true
  (`RetiredIsGone`) needs no such assumption and is proved.
* A retired key never returns to a rendered policy, because
  `generate-image-policy` compares versions. `select-key` compares none:
  `rollback` exhibits it acting on an older document after a newer one, while the
  package comment says that consumers enforce both expiry and version.
* However ceremonies and re-issues interleave, on tokens that may be one key
  space and change roles, no certificate joins two keys of one key space, no process
  holds both tokens authenticated, an intermediate on disk has its root there and ends
  no later, and a command whose signing function completed and that could write has
  written everything it signed. A signing function that fails at a later signature
  discards the earlier ones: `NothingDiscarded` does not speak of it.
* Nobody can talk the CA into an identity: each one a client certificate carries
  follows, over any number of requests by several clients, reconfigurations, restarts
  and lost stores, by grants somebody wrote down, from a certificate the operator made
  with the keytool (`Confined`). It is a closure, so an entitlement that grants the
  name of an issuer grants what that issuer is granted. Leaving the common name out of
  `PermitsNames` breaks it.
* A revoked certificate stays out when the store is lost (`RevokedNeverReturns`),
  because `authenticate` asks for a row and not for the absence of a revocation. The
  price is that every other client is out as well.
* What is served can be restarted (`Restartable`): provisioning that fails half way,
  files half written, rotations of the intermediate, requests and a lost store cost
  labels and paths, and take no key or file from a service. The conditions are those the
  start itself makes: nothing it loads has expired, and the responder's new certificate
  still fits under the intermediate. Overwriting an output file breaks it.
* A TLS key never is, was or becomes an intermediate's, whatever labels the commands are
  given, and the responder's is neither the TLS key nor that of the loaded intermediate
  (`KeysSeparate`). The responder's may be that of an intermediate rotated out:
  `validateOCSP` compares with the loaded one only (on the hazard list).
* CRL numbers increase over lost stores and clocks that were set back if each rebuilt
  store is seeded on a clock that is ahead or with a floor above the last number
  (theorem `NumbersSafe`). The comment on `CRLNumberFloor` and `config.example.yaml` tell
  the operator to set the last number itself: `floor` exhibits that number drawn again.
  A floor left in the file after the rebuild does no harm while a counter exists.

### Bounds

`MaxTime` and `MaxNumber` stop the clock and the counter, `KeytoolFailures` the
certificates written without a row; the sets bound the rest. Two requests of one
kind are what a race needs; `crl` has a third party, the writer. In `ocsp` one lookup
races two writers: two lookups meet only in the cache, which one lookup fills and a
later one of the same client reads. Two clock values
with `CRLValidity = ResponseWindow = 1` let caches go stale, responder certificates
come due and issuers run out. Reason 8 is one that `Valid` refuses. Two or three
numbers let a CRL follow a failed and a successful one. For the adapter, an idle
timeout of one tick and a clock of three values let a session be fresh, idle at its
limit and expired; two handles let a session and the anchor, or two sessions, be
open at once.

For the signing keys, two labels, pairs and points let a duplicate, its undoing and
a half-finished retirement happen beside a live key, and two versions let a
document be superseded; a validity of one tick and three clock values let it expire.
For the ceremony, four key pairs are two hierarchies, or a root, its intermediate and
re-issued ones; two operators may collide on each of three labels, and the third set of
flags swaps the tokens and reuses both intermediates' labels; a root that lives one tick
and a clock of two values let a re-issue be checked in time and signed too late.

For the installation, the operator makes one credential with the keytool, alice's,
which every chain starts from. alice may mint bob, and bob, after a
reconfiguration, carol: the chain takes the three names and, with the TLS certificate,
the four serials. The third configuration is the one after a rotation, under the second
intermediate, with a TLS identity of its own and a responder; a fourth is refused (the
OCSP key is the TLS key). One label and one path are each given to commands of different
kinds, so every order in which they take them happens. The first intermediate lives two
ticks, the second and a leaf one, so certificates expire and the last tick is one at
which nothing can be issued any more. For the numbering, six clock values and four draws
let several stores follow each other with the clock set back to zero.

Deadlock is checked in the server runs. In the others it is not: after `Close` and
with every handle issued, the adapter rightly has nothing left to do, and the
commands stop when the pairs and the clock run out, as an installation does when its
serials do.

### Fairness

A goroutine that can take its next step does (weak fairness of the steps of a
request), and a goroutine waiting for a `sync.Mutex` gets it although others take it
in between (strong fairness; the starvation mode of Go's mutex guarantees it). The
janitor's ticker fires and its `select` does not ignore the stop channel for ever.
New requests, ticks, failures and crashes are never forced to happen, and none is
excluded: a failing generation answers too.

## 4. Proofs

`CAServerProofs` proves, for any set of serials and clients and all bounds:

* `TypeCorrect`: `Spec => []TypeOK`;
* `RevocationIsPermanent`: no step changes a revoked row;
* `GenerationInvariant`: `Spec => []GenerationInv`;
* `CRLsAreOrdered`: `CRLOrdered` and `CRLNumberUnique`;
* `CRLsAreComplete`: `CRLComplete`;
* `Refinement`: `Spec => ImplementsLedger`.

The argument is about the lock. `CRLOrdered` is not inductive: what keeps a
second generation from signing over an older list is that it cannot exist. The
inductive invariant says who owns `crlMu` (`LockInv`), that everything signed came
from the counter and from rows that are still there (`SignedInv`), that a pending
generation lists everything signed before and, once numbered, is above all of it
(`PendingInv`), and that a revocation whose cache drop has happened is on the
cached CRL and on every pending list (`DroppedInv`). The type invariant and
`RevocationPermanent` are what `SignedInv` needs to survive a store write. The
assumptions are the named ones of the modules: natural numbers, a positive
validity, and `None` outside the sets.

`CAServerAnswerProofs` builds on it, under the same assumptions. From `ResponderInv`:

* `StaleOnlyByRace`, `StaleIsBounded`, `OCSPAgreesWithCRL`, `CacheFollowsRenewal` and
  `KnownIsAnswered`: the five properties of the `ocsp` run.

An answer is made in four steps between which everything may change, so the invariant
follows a row from the lookup to the answer: what the cache holds (`CacheInv`), what a
request inside `Respond` has read (`FlightInv`) and what was answered (`ReplyInv`) say
"revoked" only as the row does, and "good" of a revoked certificate only if the lookup
is older than the 204, in which case the certificate is in `raced` and the time of the
lookup bounds the answer's. A row that says revoked never changes again
(`RevocationPermanent`), which is what lets a copy of it age. `QuietInv` is needed for
restarts: a process that is down has no request inside `Respond`.

* `HeldCanBeRevoked` follows from the rows alone;
* `RevokedClientsStayOut` needs `ClientInv`: what was revoked when the request arrived
  still is when `requireClient` reads the row;
* `LifetimeIsBounded` needs `HeaderInv`: the nextUpdate a request will read when it
  takes `crlMu` the second time is that of a CRL with its number or a higher one, which
  rests on the numbering part of `GenerationInv`.

`Pkcs11AdapterProofs` proves all safety properties of the adapter, for any number of
callers and handles, every budget and clock: `TypeCorrect`,
`ModuleNotUsedAfterFinalize`, `SequencesUndisturbed`, `LoginSurvivesSessions` and
`NoSessionLeaks`, from one invariant. `LockInv` ties a sequence under way to the holder
of `mu`. `CloseInv` says that only the caller `closeOnce` chose is inside `Close`; that
the module is finalized exactly when `closed` is set; and that a closed adapter has had
its closer. The last conjunct is not a property anybody would ask for: without it a
second caller could enter `Close` after the first had finished, and the invariant is not
inductive. `HandleInv` says that session objects, the map and the janitor name handles
the token issued, none of which is the anchor, so that no sweep closes the anchor;
`LoginInv` says that whoever holds `loginMu` finds the anchor as it was when the lock
was taken. The assumption on the module is that it hands out each handle once.

`CeremonyProofs` proves all properties of the ceremony, for any number of commands at
once and every validity: `TypeCorrect`, `OneLoginAtATime`, `TiersAreSplit`,
`ChainsVerify`, `ServiceNeverReachesRoot` and, as an action property,
`SignedIsWritten`. `LoginInv` says that a process holds at most the login of the phase
it is in, which is where the error of a failed logout counts. `KeyInv` says which key a
command has read, and that a command past the object search is on two key spaces;
`RootInv` the same of the root's key and certificate; `SignedInv` that what was signed
is a chain, before anything is on disk; `FilesInv` that the root's certificate is
written before the intermediate's; `ServiceInv` that a service that started reaches the intermediate's key space
only. That only a ceremony, and no re-issue, signs a root
is a conjunct of `RootInv` that only the induction asks for. None of it asks that a token
keep its role.

`SigningKeysProofs` proves, for any number of operators running commands at once,
any labels, pairs and points:

* `KeysTypeCorrect`: `Spec => []TypeOK`;
* `RetirementIsTrue`: `Spec => []RetiredIsGone`.

`RetiredIsGone` is about the archive and is not inductive: a draft becomes the
current file, then the archive. The invariant (`Truthful`) says that every document
anywhere, the current file, the archive, what a command read and what it is
drafting, gives each pair its label and lists as retired only pairs whose private
half is gone. The
step that adds a retired entry checks the token at that moment, and `Loses` says
that a private half once gone stays gone, so a check made long before the write
is still true then. `Shape` adds what the types do not say of a command half way.
The assumptions are `KeysAssumption`.

`SigningOperatorProofs` proves the other four, `LabelsAreUnambiguous`,
`ProvisionedKeysDiffer`, `ActiveKeysSurvive` and `NoRetiredKeyInPolicy`, under the hypothesis `OneOperator` (`Operators` has at most one
member). It is a hypothesis of each theorem and not an assumption of the model: the
code has no lock that would justify it. With two operators TLC finds
`LabelNamesOnePair`, `ActiveIsOnToken` and `RetiredNeverRendered` (two drafts of one
version) violated; for `ReturnedKeysDiffer` the interleaving
(an undoing that meets a key provisioned again under its label) takes four pairs, which
is out of TLC's reach. Everything else is arbitrary: labels, pairs, points the token repeats,
commands that stop anywhere, documents replayed to the consumers. The invariant
(`OneInv`) has two halves. About the token: a label about to be generated under is on no
object (`LabelInv`); a returned key that can sign still has the public half that
`findDuplicatePoint` compares, because every command destroys the halves of a returned
key private first (`ReturnInv`, `RetireInv`); and no command holds the label of an
active entry as a target (`ActiveInv`). About the documents: each one written has a
version of its own, since a draft's is one above the file it is about to replace and
that file is never older than what it was signed beside (`VersionInv`); of two archived
documents the later revives no pair (`OrderInv`); and what a rendered policy trusts is
live in one archived document (`ConsumerInv`). `Truthful` supplies
that a pair once listed as retired cannot be found on the token by a later draft.

`CRLNumberingProofs` proves, for every clock, floor and bound, `NumbersSafe`
(`ProvidedIncrease`) and `CounterSafe`. That numbers increase is not inductive: it needs
that a counter is the last number, that a reliable clock is ahead of it, and that no
number handed out is above the last, which is `CounterInv`. Nothing is asked of the
operator in the actions; what he has to do for the numbers to increase is the
hypothesis `provided`.

`InstallationProofs` proves the six properties stated in `Installation`, two of
which (`TypeOK`, `WithinIssuer`) no run checks, for any configurations, flags, requests,
names, labels, curves and serials:

* `TypeCorrect`, `CredentialsConfined`, `RevokedStayOut` and `LeavesWithinIssuer` from
  one inductive invariant. `Confined` needs that a running configuration's grants are
  in `granted` (`ServedGranted`), for then a request that is authorised as i reaches
  what i reaches, plus what i is granted; that closures grow with the grants and are
  transitive are the lemmas on `Reach`. `RevokedNeverReturns` needs that a withdrawn
  certificate never has a valid row (`WithdrawnNotValid`), which holds over a lost
  store because serials are fresh (`RowsIssued`). `Authorised` says that an
  intermediate has its key, which is why no command can certify another key under its
  label;
* `RunningIsRestartable` and `OneKeyOnePurpose` from `ServiceInv`: what
  `LoadIntermediate`, `LoadServiceCertificate` and `responder.New` saw is still there
  (`RunningSound`), because a label once taken keeps its key and a file once written
  its content, and a certificate file over a token key is over one that is no
  intermediate's (`FilesSound`). The latter needs that a re-issue takes a free label.

The assumption is `InstallationAssumption`: configurations, flags and requests are well
formed, `None` is outside the sets, validities are natural numbers. `CRLNumbering` needs
none.

The assumptions of the other modules are `KeysAssumption`, `CeremonyAssumption` and
`AdapterAssumption`: natural numbers, `None` outside the sets.

Each inductive invariant was checked by TLC, on the constants of the component's run,
before it was proved.

Only model-checked: the liveness properties `CRLAnswered`, `RevokeAnswered`,
`ExpiredReclaimed` and `CloseReturns` (TLAPS does no reasoning about fairness and
ENABLED here). Every other property of a passing run has a theorem. The four violations
(`ocsp_stale`, `crl_lifetime`, `rollback`, `floor`) are TLC's as well.

## 5. Plan

1. `CertStore`, `Responder`, `CAServer`, `RevocationLedger`, proofs of all safety
   properties and of the refinement: done.
2. `Pkcs11Adapter`, proofs of all safety properties: done.
3. `SigningKeys`, proofs of all safety properties: done.
4. `Ceremony`, proofs of all properties: done.
5. `IssuancePolicy`, `Installation`, with the proofs of all its properties: done.
6. `CRLNumbering`, with proofs: done. The drain of a graceful shutdown, as a part of
   `CAServer`, is open.
7. Open: what of `SigningKeys` holds with two operators beyond `RetiredIsGone`
   (versions may then repeat, and a document may list a key destroyed since), and
   lemmas on `IssuancePolicy`'s operators of their own.

## 6. Not modelled

The CI tools (`vuln-gate`, `check-pin-freshness`, `token-cleanup`, `verify-artifact`)
and `internal/artifactsig` are one-shot functions of files and command output: they
keep nothing between two calls and nothing runs beside them, so a model would restate
their parsing. The key audit and the conformance harness measure a real token, and
what they find is the token's behaviour and not the code's. Of the configuration, the
settings that are only checked to be present and well formed are one flag.

HTTP framing, TLS, ASN.1, and the cryptography are taken as what the code uses them for.
A graceful shutdown is a `Crash` for the store's purposes (everything but the store
is gone), which allows more than the drain does. The start's probe of the token
(`verifyHSMConnection`) and the health check change no state.
